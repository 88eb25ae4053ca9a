---------------------------- MODULE DragProofs ------------------------------
(***************************************************************************)
(* Proofs about Rico's drag and drop, the sortable lists and the live      *)
(* grid. What is said of sequences in which nothing comes twice comes      *)
(* first.                                                                  *)
(***************************************************************************)
EXTENDS WidgetProofs, FiniteSetTheorems

----------------------------------------------------------------------------
(* Sequences in which nothing comes twice. *)

\* The first place of an element.
FirstIn(s, e) == Se!SelectInSeq(s, LAMBDA v : v = e)

LEMMA FirstPlace ==
  ASSUME NEW S, NEW s \in Seq(S), NEW e, \E i \in 1..Len(s) : s[i] = e
  PROVE  FirstIn(s, e) \in 1..Len(s) /\ s[FirstIn(s, e)] = e
<1> DEFINE I == {i \in 1..Len(s) : s[i] = e}
<1>1. I \in SUBSET Nat /\ I # {}
  OBVIOUS
<1>2. \E m \in I : \A n \in I : m <= n
  BY <1>1, LeastOf, Zenon
<1>3. Se!Min(I) \in I
  BY <1>2, Zenon DEF Se!Min
<1>4. FirstIn(s, e) = Se!Min(I)
  BY <1>1, Zenon DEF FirstIn, Se!SelectInSeq
<1> QED BY <1>3, <1>4

\* removeItem() and deregisterDropZone().
LEMMA RemoveFirstIs ==
  ASSUME NEW S, NEW s \in Seq(S), Se!IsInjective(s), NEW e
  PROVE  /\ Se!RemoveFirst(s, e) \in Seq(S)
         /\ Se!IsInjective(Se!RemoveFirst(s, e))
         /\ Se!ToSet(Se!RemoveFirst(s, e)) = Se!ToSet(s) \ {e}
<1>0. Len(s) \in Nat /\ DOMAIN s = 1..Len(s)
  OBVIOUS
<1>1. CASE ~ \E i \in 1..Len(s) : s[i] = e
  <2>1. Se!RemoveFirst(s, e) = s
    BY <1>1, Zenon DEF Se!RemoveFirst
  <2>2. e \notin Se!ToSet(s)
    BY <1>0, <1>1 DEF Se!ToSet
  <2> QED BY <2>1, <2>2
<1>2. CASE \E i \in 1..Len(s) : s[i] = e
  <2> DEFINE i == FirstIn(s, e)
             t == Au!RemoveAt(s, i)
  <2>1. i \in 1..Len(s) /\ s[i] = e
    BY <1>2, FirstPlace
  <2>2. Se!RemoveFirst(s, e) = t
    BY <1>2, Zenon DEF Se!RemoveFirst, Se!RemoveAt, Au!RemoveAt, FirstIn
  <2> HIDE DEF i
  <2>3. /\ t \in Seq(S) /\ Len(t) = Len(s) - 1
        /\ \A j \in 1..(Len(s) - 1) : t[j] = IF j < i THEN s[j] ELSE s[j + 1]
    BY <2>1, RemoveAtIs, Zenon
  <2> HIDE DEF t
  <2>4. DOMAIN t = 1..(Len(s) - 1)
    BY <2>3
  <2>5. \A a, b \in 1..Len(s) : s[a] = s[b] => a = b
    BY <1>0 DEF Se!IsInjective
  <2>6. ASSUME NEW a \in DOMAIN t, NEW b \in DOMAIN t, t[a] = t[b]
        PROVE  a = b
    <3>1. a \in 1..Len(s) /\ a + 1 \in 1..Len(s) /\ b \in 1..Len(s) /\ b + 1 \in 1..Len(s)
      BY <1>0, <2>4
    <3>2. (IF a < i THEN s[a] ELSE s[a + 1]) = (IF b < i THEN s[b] ELSE s[b + 1])
      BY <2>3, <2>4, <2>6
    <3> QED BY <2>1, <2>5, <3>1, <3>2
  <2>7. Se!IsInjective(t)
    BY <2>6, Zenon DEF Se!IsInjective
  <2>8. ASSUME NEW j \in DOMAIN t PROVE t[j] \in Se!ToSet(s) \ {e}
    <3>1. j \in 1..Len(s) /\ j + 1 \in 1..Len(s)
      BY <1>0, <2>4
    <3>2. CASE j < i
      BY <1>0, <2>1, <2>3, <2>4, <2>5, <3>1, <3>2 DEF Se!ToSet
    <3>3. CASE ~(j < i)
      <4>1. t[j] = s[j + 1] /\ j + 1 # i
        BY <1>0, <2>1, <2>3, <2>4, <3>3
      <4> QED BY <1>0, <2>1, <2>5, <3>1, <4>1 DEF Se!ToSet
    <3> QED BY <3>2, <3>3
  <2>9. ASSUME NEW k \in DOMAIN s, s[k] # e PROVE s[k] \in Se!ToSet(t)
    <3>1. CASE k < i
      <4>1. k \in DOMAIN t /\ t[k] = s[k]
        BY <1>0, <2>1, <2>3, <2>4, <3>1
      <4> QED BY <4>1 DEF Se!ToSet
    <3>2. CASE k > i
      <4>1. k - 1 \in DOMAIN t /\ ~(k - 1 < i) /\ (k - 1) + 1 = k
        BY <1>0, <2>1, <2>4, <3>2
      <4>2. t[k - 1] = s[k]
        BY <2>3, <2>4, <4>1
      <4> QED BY <4>1, <4>2 DEF Se!ToSet
    <3>3. k # i
      BY <2>1, <2>9
    <3> QED BY <1>0, <2>1, <3>1, <3>2, <3>3
  <2>10. Se!ToSet(t) = Se!ToSet(s) \ {e}
    BY <2>8, <2>9, Zenon DEF Se!ToSet
  <2> QED BY <2>2, <2>3, <2>7, <2>10
<1> QED BY <1>1, <1>2

\* One more element, at the end.
LEMMA OneAdded ==
  ASSUME NEW S, NEW s \in Seq(S), Se!IsInjective(s), NEW e \in S, e \notin Se!ToSet(s)
  PROVE  /\ Append(s, e) \in Seq(S)
         /\ Se!IsInjective(Append(s, e))
         /\ Se!ToSet(Append(s, e)) = Se!ToSet(s) \cup {e}
<1> DEFINE t == Append(s, e)
<1>1. /\ t \in Seq(S) /\ Len(t) = Len(s) + 1 /\ t[Len(s) + 1] = e
      /\ \A i \in 1..Len(s) : t[i] = s[i]
  BY AppendProperties
<1>2. Len(s) \in Nat /\ DOMAIN s = 1..Len(s)
  OBVIOUS
<1> HIDE DEF t
<1>3. DOMAIN t = 1..(Len(s) + 1)
  BY <1>1
<1>4. \A i \in DOMAIN s : s[i] # e
  BY DEF Se!ToSet
<1>5. ASSUME NEW a \in DOMAIN t, NEW b \in DOMAIN t, t[a] = t[b] PROVE a = b
  <2>1. CASE a = Len(s) + 1
    BY <1>1, <1>2, <1>3, <1>4, <1>5, <2>1
  <2>2. CASE b = Len(s) + 1
    BY <1>1, <1>2, <1>3, <1>4, <1>5, <2>2
  <2>3. CASE a # Len(s) + 1 /\ b # Len(s) + 1
    <3>1. a \in DOMAIN s /\ b \in DOMAIN s
      BY <1>2, <1>3, <2>3
    <3> QED BY <1>1, <1>2, <1>5, <3>1 DEF Se!IsInjective
  <2> QED BY <2>1, <2>2, <2>3
<1>6. Se!IsInjective(t)
  BY <1>5, Zenon DEF Se!IsInjective
<1>7. Se!ToSet(t) = Se!ToSet(s) \cup {e}
  <2>1. \A j \in DOMAIN t : t[j] \in Se!ToSet(s) \cup {e}
    BY <1>1, <1>2, <1>3 DEF Se!ToSet
  <2>2. \A k \in DOMAIN s : k \in DOMAIN t /\ t[k] = s[k]
    BY <1>1, <1>2, <1>3
  <2>3. Len(s) + 1 \in DOMAIN t
    BY <1>2, <1>3
  <2> QED BY <1>1, <2>1, <2>2, <2>3, Zenon DEF Se!ToSet
<1> QED BY <1>1, <1>6, <1>7 DEF t

\* SetToSeq.
LEMMA AllInOrder ==
  ASSUME NEW S, IsFiniteSet(S)
  PROVE  Se!SetToSeq(S) \in Seq(S) /\ Se!IsInjective(Se!SetToSeq(S))
<1> DEFINE n == Cardinality(S)
<1>1. n \in Nat /\ ExistsBijection(1..n, S)
  BY FS_CardinalityType
<1>2. PICK g \in [1..n -> S] : \A a, b \in 1..n : g[a] = g[b] => a = b
  BY <1>1 DEF ExistsBijection, Bijection, Injection, IsInjective
<1>3. g \in [1..n -> S] /\ Se!IsInjective(g)
  BY <1>2 DEF Se!IsInjective
<1>4. Se!Cardinality(S) = n
  BY Zenon DEF Se!Cardinality, Cardinality
<1> HIDE DEF n
<1> DEFINE f == Se!SetToSeq(S)
<1>5. f \in [1..n -> S] /\ Se!IsInjective(f)
  BY <1>3, <1>4, Zenon DEF Se!SetToSeq
<1> HIDE DEF f
<1>6. f \in Seq(S)
  BY <1>1, <1>5
<1> QED BY <1>5, <1>6 DEF f

----------------------------------------------------------------------------
(***************************************************************************)
(* Proofs about SelectionDrag for any draggables and zones. The argument:  *)
(* what is selected is the list of what would be dragged, in which nothing *)
(* comes twice; zones are active, and hovered, only while something is     *)
(* dragged; and unless the mouse is used while elements still return, the  *)
(* first of the selection is dragged, once.                                *)
(***************************************************************************)

ZonesInOrder == dropZones \in Seq(Zones) /\ Se!IsInjective(dropZones)

\* What looks selected is what would be dragged.
Agrees(objects, last, marked) ==
    /\ objects \in Seq(Draggables) /\ Se!IsInjective(objects)
    /\ marked = Se!ToSet(objects)
    /\ last \in marked \cup {None}

SelectionTypes ==
    /\ accepting \subseteq Zones /\ activeZones \subseteq Zones /\ hover \subseteq Zones /\ over \subseteq Zones
    /\ dragElement \in Draggables \cup {None}
    /\ home \in [Draggables -> {"page", "zone", "gone"}]
    /\ returns \in 0..MaxReturns
    /\ visible \in BOOLEAN /\ interested \in BOOLEAN /\ activated \in BOOLEAN /\ button \in BOOLEAN
    /\ hurried \in BOOLEAN /\ overlapped \in BOOLEAN

\* Zones look active or hovered only while something is dragged.
ZonesFollow ==
    /\ visible <=> dragElement # None
    /\ activated <=> dragElement # None
    /\ dragElement = None => activeZones \cap Se!Registered = {}
    /\ hover \subseteq accepting

\* Without the mouse in the way: the first of the selection is dragged, once,
\* and what is hovered is under the pointer.
OneDragAtATime ==
    ~hurried =>
        /\ dragElement # None => currentDragObjects # <<>> /\ dragElement = Head(currentDragObjects)
        /\ interested => returns = 0
        /\ returns > 0 => returns = 1 /\ dragElement # None
        /\ \A d \in Draggables : home[d] # "gone"
        /\ \/ overlapped
           \/ hover \cap Se!Registered = {}
           \/ /\ dragElement # None /\ interested /\ returns = 0
              /\ hover \cap Se!Registered \subseteq over

SelectionInv ==
    /\ ZonesInOrder
    /\ Agrees(currentDragObjects, lastSelectedDraggable, selected)
    /\ SelectionTypes /\ ZonesFollow /\ OneDragAtATime

\* What the runs check follows.
LEMMA SelectionFacts ==
  SelectionInv => Se!TypeOK /\ Se!SelectionAgrees /\ Se!DragLeavesNothing
<1> SUFFICES ASSUME SelectionInv PROVE Se!TypeOK /\ Se!SelectionAgrees /\ Se!DragLeavesNothing
  OBVIOUS
<1>1. selected \subseteq Draggables
  BY DEF SelectionInv, Agrees, Se!ToSet
<1>2. Se!TypeOK
  <2>1. lastSelectedDraggable \in Draggables \cup {None}
    BY <1>1 DEF SelectionInv, Agrees
  <2> QED BY <1>1, <2>1, Zenon DEF SelectionInv, ZonesInOrder, Agrees, SelectionTypes, Se!TypeOK
<1>3. Se!SelectionAgrees
  BY DEF SelectionInv, Agrees, Se!SelectionAgrees
<1>4. Se!DragLeavesNothing
  BY DEF SelectionInv, SelectionTypes, ZonesFollow, OneDragAtATime, Se!DragLeavesNothing,
      Se!DragUnderWay
<1> QED BY <1>2, <1>3, <1>4

\* Nothing is selected.
LEMMA NothingSelected == Agrees(<<>>, None, {})
<1>1. <<>> \in Seq(Draggables) /\ DOMAIN <<>> = {}
  BY EmptySeq
<1> QED BY <1>1 DEF Agrees, Se!IsInjective, Se!ToSet

\* At the start.
LEMMA SelectionInitInv == ASSUME Se!SelectionAssumption, Se!Init PROVE SelectionInv
<1>1. ZonesInOrder
  <2>1. IsFiniteSet(Zones)
    BY Zenon DEF Se!SelectionAssumption, Se!IsFiniteSet, IsFiniteSet
  <2> QED BY <2>1, AllInOrder DEF ZonesInOrder, Se!Init
<1>2. Agrees(currentDragObjects, lastSelectedDraggable, selected)
  BY NothingSelected DEF Se!Init
<1>3. SelectionTypes /\ ZonesFollow
  <2>1. returns \in 0..MaxReturns /\ home \in [Draggables -> {"page", "zone", "gone"}]
    BY DEF Se!Init, Se!SelectionAssumption
  <2> QED BY <2>1 DEF SelectionTypes, ZonesFollow, Se!Init
<1>4. OneDragAtATime
  BY DEF OneDragAtATime, Se!Init
<1> QED BY <1>1, <1>2, <1>3, <1>4 DEF SelectionInv

\* updateSelection() and clearSelection().
LEMMA UpdateAgrees ==
  ASSUME Agrees(currentDragObjects, lastSelectedDraggable, selected), NEW d \in Draggables, NEW extend \in BOOLEAN
  PROVE  LET s == Se!UpdateSelection(d, extend) IN Agrees(s.objects, s.last, s.marked)
<1> DEFINE now == [objects |-> currentDragObjects, last |-> lastSelectedDraggable, marked |-> selected]
           s == IF extend THEN now ELSE Se!ClearSelection(now)
<1>1. Agrees(s.objects, s.last, s.marked)
  <2>1. CASE extend
    BY <2>1
  <2>2. CASE ~extend
    <3>1. s.objects = <<>> /\ s.last = None /\ s.marked = {}
      BY <2>2 DEF Se!ClearSelection, Agrees
    <3> QED BY <3>1, NothingSelected
  <2> QED BY <2>1, <2>2
<1>2. Se!UpdateSelection(d, extend) =
        IF d \in s.marked
        THEN [objects |-> Se!RemoveFirst(s.objects, d), last |-> IF s.last = d THEN None ELSE s.last,
              marked |-> s.marked \ {d}]
        ELSE [objects |-> Append(s.objects, d), last |-> d, marked |-> s.marked \cup {d}]
  BY Zenon DEF Se!UpdateSelection
<1> HIDE DEF s
<1>3. CASE d \in s.marked
  BY <1>1, <1>2, <1>3, RemoveFirstIs DEF Agrees
<1>4. CASE d \notin s.marked
  BY <1>1, <1>2, <1>4, OneAdded DEF Agrees
<1> QED BY <1>3, <1>4

LEMMA DeselectAgrees ==
  ASSUME Agrees(currentDragObjects, lastSelectedDraggable, selected), Se!Deselect
  PROVE  /\ currentDragObjects' = <<>> /\ lastSelectedDraggable' = None /\ selected' = {}
         /\ Agrees(currentDragObjects, lastSelectedDraggable, selected)'
<1>1. currentDragObjects' = <<>> /\ lastSelectedDraggable' = None /\ selected' = {}
  BY DEF Se!Deselect, Se!Select, Se!ClearSelection, Agrees
<1>2. Agrees(currentDragObjects', lastSelectedDraggable', selected')
  BY <1>1, NothingSelected
<1> QED BY <1>1, <1>2 DEF Agrees

\* The first zone that accepts what is dropped on it.
LEMMA PlacedIs ==
  ASSUME dropZones \in Seq(Zones)
  PROVE  /\ Se!Placed = 0 => Se!PointedAt(over) \cap accepting = {}
         /\ Se!Placed # 0 => Se!Placed \in DOMAIN dropZones
<1> DEFINE I == {i \in 1..Len(dropZones) : dropZones[i] \in Se!PointedAt(over) \cap accepting}
<1>1. I \in SUBSET Nat
  OBVIOUS
<1>2. I # {} => Se!Min(I) \in I
  <2> SUFFICES ASSUME I # {} PROVE Se!Min(I) \in I
    OBVIOUS
  <2>1. \E m \in I : \A n \in I : m <= n
    BY <1>1, LeastOf, Zenon
  <2> QED BY <2>1, Zenon DEF Se!Min
<1>3. Se!Placed = IF I # {} THEN Se!Min(I) ELSE 0
  BY Zenon DEF Se!Placed, Se!SelectInSeq
<1>4. DOMAIN dropZones = 1..Len(dropZones) /\ Len(dropZones) \in Nat
  OBVIOUS
<1>5. I = {} => Se!PointedAt(over) \cap accepting = {}
  BY <1>4 DEF Se!PointedAt, Se!Registered, Se!ToSet
<1> QED BY <1>2, <1>3, <1>4, <1>5

----------------------------------------------------------------------------
\* The mouse goes down on a draggable.
LEMMA MouseDownStep ==
  ASSUME Se!SelectionAssumption, SelectionInv, Se!MouseDown
  PROVE  SelectionInv'
<1>1. PICK d \in Draggables, ctrl \in BOOLEAN : home[d] # "gone" /\ Se!Select(Se!UpdateSelection(d, ctrl))
  BY DEF Se!MouseDown
<1>2. /\ button' \in BOOLEAN /\ interested' = (currentDragObjects' # <<>>)
      /\ hurried' = (hurried \/ Se!DragUnderWay)
      /\ UNCHANGED <<dropZones, accepting, dragElement, visible, activated, activeZones, hover,
                     home,
                     returns, over, overlapped>>
  BY DEF Se!MouseDown, Se!HasSelection, Se!zones
<1>3. Agrees(currentDragObjects, lastSelectedDraggable, selected)'
  <2> DEFINE s == Se!UpdateSelection(d, ctrl)
  <2>1. Agrees(s.objects, s.last, s.marked)
    BY UpdateAgrees DEF SelectionInv
  <2>2. currentDragObjects' = s.objects /\ lastSelectedDraggable' = s.last /\ selected' = s.marked
    BY <1>1 DEF Se!Select
  <2> HIDE DEF s
  <2> QED BY <2>1, <2>2 DEF Agrees
<1>4. ZonesInOrder' /\ SelectionTypes'
  BY <1>2 DEF SelectionInv, ZonesInOrder, SelectionTypes
<1>5. ZonesFollow'
  BY <1>2 DEF SelectionInv, ZonesFollow, Se!Registered
<1>6. OneDragAtATime'
  <2>1. returns \in Nat
    BY DEF SelectionInv, SelectionTypes, Se!SelectionAssumption
  <2>2. ~hurried' => ~hurried /\ dragElement = None /\ returns = 0
    <3>1. ~hurried' => ~hurried /\ ~Se!DragUnderWay
      BY <1>2, Zenon
    <3> QED BY <2>1, <3>1 DEF Se!DragUnderWay
  <2> QED BY <1>2, <2>2 DEF SelectionInv, OneDragAtATime, Se!Registered
<1> QED BY <1>3, <1>4, <1>5, <1>6 DEF SelectionInv

\* The mouse moves, with what is dragged or without.
LEMMA DragMoveStep ==
  ASSUME Se!SelectionAssumption, SelectionInv, Se!MouseMove
  PROVE  SelectionInv'
<1>1. /\ over' \subseteq Zones
      /\ UNCHANGED <<dropZones, accepting, currentDragObjects, lastSelectedDraggable, selected,
                     interested,
                     returns, button, hurried, overlapped>>
  BY DEF Se!MouseMove, Se!selection
<1>2. ZonesInOrder' /\ Agrees(currentDragObjects, lastSelectedDraggable, selected)'
  BY <1>1 DEF SelectionInv, ZonesInOrder, Agrees
<1>3. Se!Registered' = Se!Registered
  BY <1>1 DEF Se!Registered
<1>4. CASE interested /\ currentDragObjects # <<>>
  <2>1. Head(currentDragObjects) \in Draggables /\ Head(currentDragObjects) # None
    BY <1>4, HeadTailProperties DEF SelectionInv, Agrees, Se!SelectionAssumption
  <2>2. /\ activated' = TRUE
        /\ activeZones' \subseteq activeZones \cup accepting
        /\ hover' = (hover \ (Se!Registered \ (Se!Registered \cap over'))) \cup ((Se!Registered \cap over') \cap accepting)
    BY <1>1, <1>4 DEF Se!MouseMove, Se!HasSelection, Se!ActivateRegisteredDropZones, Se!Activity,
       Se!UpdateDropZonesHover, Se!Hover, Se!PointedAt
  <2>3. /\ dragElement' # None /\ dragElement' \in Draggables /\ visible' = TRUE
        /\ dragElement' = dragElement \/ (dragElement = None /\ dragElement' = Head(currentDragObjects))
        /\ home' \in [Draggables -> {"page", "zone", "gone"}]
        /\ (\A d \in Draggables : home[d] # "gone") => \A d \in Draggables : home'[d] # "gone"
    <3>1. CASE visible
      BY <1>4, <3>1 DEF Se!MouseMove, Se!HasSelection, SelectionInv, SelectionTypes, ZonesFollow
    <3>2. CASE ~visible
      <4>1. /\ dragElement' = Head(currentDragObjects) /\ visible' = TRUE
            /\ home' = [home EXCEPT ![dragElement'] = IF @ = "gone" THEN "page" ELSE @]
        BY <1>4, <3>2 DEF Se!MouseMove, Se!HasSelection, Se!StartDrag
      <4>2. home \in [Draggables -> {"page", "zone", "gone"}] /\ dragElement = None
        BY <3>2 DEF SelectionInv, SelectionTypes, ZonesFollow
      <4> QED BY <2>1, <4>1, <4>2
    <3> QED BY <3>1, <3>2
  <2>4. SelectionTypes'
    BY <1>1, <2>2, <2>3 DEF SelectionInv, SelectionTypes
  <2>5. ZonesFollow'
    BY <1>1, <2>2, <2>3 DEF SelectionInv, ZonesFollow
  <2>6. hover' \cap Se!Registered' \subseteq over'
    BY <1>3, <2>2
  <2>7. OneDragAtATime'
    BY <1>1, <1>4, <2>3, <2>6 DEF SelectionInv, OneDragAtATime, SelectionTypes
  <2> QED BY <1>2, <2>4, <2>5, <2>7 DEF SelectionInv
<1>5. CASE ~(interested /\ currentDragObjects # <<>>)
  <2>1. UNCHANGED <<dragElement, visible, activated, activeZones, hover, home>>
    BY <1>5 DEF Se!MouseMove, Se!HasSelection, Se!zones
  <2>2. SelectionTypes' /\ ZonesFollow'
    BY <1>1, <1>3, <2>1 DEF SelectionInv, SelectionTypes, ZonesFollow
  <2>3. OneDragAtATime'
    BY <1>1, <1>3, <1>5, <2>1 DEF SelectionInv, OneDragAtATime, SelectionTypes
  <2> QED BY <1>2, <2>2, <2>3 DEF SelectionInv
<1> QED BY <1>4, <1>5

\* The button is released: over a zone that accepts, or not.
LEMMA DropStep == ASSUME Se!SelectionAssumption, SelectionInv, Se!MouseUp PROVE SelectionInv'
<1>1. /\ button' = FALSE /\ hurried' = (hurried \/ returns > 0)
      /\ UNCHANGED <<dropZones, accepting, over>>
  BY DEF Se!MouseUp
<1>2. ZonesInOrder' /\ Se!Registered' = Se!Registered
  BY <1>1 DEF SelectionInv, ZonesInOrder, Se!Registered
<1>3. CASE /\ interested' \in {interested, FALSE}
           /\ UNCHANGED <<currentDragObjects, lastSelectedDraggable, selected, dragElement,
                          visible, activated,
                          activeZones, hover, home, returns, overlapped>>
           /\ interested' = FALSE => dragElement = None \/ interested = FALSE
  <2>1. Agrees(currentDragObjects, lastSelectedDraggable, selected)' /\ SelectionTypes' /\ ZonesFollow'
    BY <1>1, <1>2, <1>3 DEF SelectionInv, Agrees, SelectionTypes, ZonesFollow
  <2>2. OneDragAtATime'
    <3>1. returns \in Nat
      BY DEF SelectionInv, SelectionTypes, Se!SelectionAssumption
    <3>2. ~hurried' => ~hurried /\ returns = 0
      <4>1. ~hurried' => ~hurried /\ ~(returns > 0)
        BY <1>1, Zenon
      <4> QED BY <3>1, <4>1
    <3>3. ~hurried' /\ interested' # interested => dragElement = None
      BY <1>3
    <3> QED BY <1>1, <1>2, <1>3, <3>2, <3>3 DEF SelectionInv, OneDragAtATime, SelectionTypes
  <2> QED BY <1>2, <2>1, <2>2 DEF SelectionInv
<1>4. CASE currentDragObjects # <<>> /\ dragElement # None /\ Se!Placed # 0
  <2>1. Se!CompleteDrop(dropZones[Se!Placed]) /\ interested' = FALSE
    BY <1>4 DEF Se!MouseUp, Se!HasSelection
  <2>2. Agrees(currentDragObjects, lastSelectedDraggable, selected)'
    BY <2>1, DeselectAgrees DEF Se!CompleteDrop, SelectionInv
  <2>3. /\ hover' \subseteq hover /\ overlapped' = (overlapped \/ hover' \cap Se!Registered # {})
        /\ activeZones' = activeZones \ Se!Registered /\ activated' = FALSE
        /\ dragElement' = None /\ visible' = FALSE /\ returns' = returns
        /\ home' = Se!Discarded(Se!Accept)
    BY <2>1 DEF Se!CompleteDrop, Se!Hover, Se!DeactivateRegisteredDropZones, Se!Activity
  <2>4. /\ Se!Accept \in [Draggables -> {"page", "zone", "gone"}]
        /\ \A d \in Draggables : home[d] # "gone" => Se!Accept[d] # "gone"
    BY DEF Se!Accept, SelectionInv, SelectionTypes
  <2>5. /\ home' \in [Draggables -> {"page", "zone", "gone"}]
        /\ dragElement = Head(currentDragObjects) => home' = Se!Accept
    BY <2>3, <2>4 DEF Se!Discarded
  <2>6. SelectionTypes'
    BY <1>1, <2>1, <2>3, <2>5 DEF SelectionInv, SelectionTypes
  <2>7. ZonesFollow'
    BY <1>1, <1>2, <2>3 DEF SelectionInv, ZonesFollow
  <2>8. OneDragAtATime'
    BY <1>1, <1>2, <1>4, <2>1, <2>3, <2>4, <2>5 DEF SelectionInv, OneDragAtATime, SelectionTypes
  <2> QED BY <1>2, <2>2, <2>6, <2>7, <2>8 DEF SelectionInv
<1>5. CASE currentDragObjects # <<>> /\ dragElement # None /\ Se!Placed = 0
  <2>1. /\ interested' = FALSE /\ returns < MaxReturns /\ returns' = returns + 1
        /\ UNCHANGED <<currentDragObjects, lastSelectedDraggable, selected, dragElement, visible,
                       activated,
                       activeZones, hover, home, overlapped>>
    BY <1>5 DEF Se!MouseUp, Se!HasSelection, Se!MoveBack, Se!selection, Se!zones
  <2>2. Agrees(currentDragObjects, lastSelectedDraggable, selected)' /\ ZonesFollow'
    BY <1>1, <1>2, <2>1 DEF SelectionInv, Agrees, ZonesFollow
  <2>3. SelectionTypes'
    <3>1. returns' \in 0..MaxReturns
      BY <2>1 DEF SelectionInv, SelectionTypes, Se!SelectionAssumption
    <3>2. hurried' \in BOOLEAN
      BY <1>1, Zenon
    <3> QED BY <1>1, <2>1, <3>1, <3>2 DEF SelectionInv, SelectionTypes
  <2>4. (Se!Registered \cap over) \cap accepting = {}
    BY <1>5, PlacedIs DEF SelectionInv, ZonesInOrder, Se!PointedAt
  <2>5. OneDragAtATime'
    BY <1>1, <1>2, <1>5, <2>1, <2>4 DEF SelectionInv, OneDragAtATime, SelectionTypes, ZonesFollow
  <2> QED BY <1>2, <2>2, <2>3, <2>5 DEF SelectionInv
<1>6. \/ currentDragObjects # <<>> /\ dragElement # None
      \/ /\ interested' \in {interested, FALSE}
         /\ UNCHANGED <<currentDragObjects, lastSelectedDraggable, selected, dragElement,
                        visible, activated,
                        activeZones, hover, home, returns, overlapped>>
         /\ interested' = FALSE => dragElement = None \/ interested = FALSE
  BY DEF Se!MouseUp, Se!HasSelection, Se!selection, Se!zones
<1> QED BY <1>3, <1>4, <1>5, <1>6

\* What was dragged is back.
LEMMA CancelDragStep ==
  ASSUME Se!SelectionAssumption, SelectionInv, Se!CancelDrag
  PROVE  SelectionInv'
<1>1. /\ returns > 0 /\ returns' = returns - 1
      /\ UNCHANGED <<dropZones, accepting, currentDragObjects, lastSelectedDraggable, selected,
                     interested, over,
                     button, hurried, overlapped>>
  BY DEF Se!CancelDrag, Se!MovedBack, Se!selection
<1>2. ZonesInOrder' /\ Se!Registered' = Se!Registered /\ Agrees(currentDragObjects, lastSelectedDraggable, selected)'
  BY <1>1 DEF SelectionInv, ZonesInOrder, Agrees, Se!Registered
<1>3. CASE currentDragObjects # <<>> /\ dragElement # None
  <2>1. /\ home' = Se!Discarded(home) /\ activeZones' = activeZones \ Se!Registered /\ activated' = FALSE
        /\ dragElement' = None /\ visible' = FALSE /\ hover' = hover
    BY <1>3 DEF Se!CancelDrag, Se!HasSelection, Se!DeactivateRegisteredDropZones, Se!Activity
  <2>2. /\ home' \in [Draggables -> {"page", "zone", "gone"}]
        /\ dragElement = Head(currentDragObjects) => home' = home
    BY <2>1 DEF SelectionInv, SelectionTypes, Se!Discarded
  <2>3. SelectionTypes'
    <3>1. returns' \in 0..MaxReturns
      BY <1>1 DEF SelectionInv, SelectionTypes, Se!SelectionAssumption
    <3> QED BY <1>1, <2>1, <2>2, <3>1 DEF SelectionInv, SelectionTypes
  <2>4. ZonesFollow'
    BY <1>1, <1>2, <2>1 DEF SelectionInv, ZonesFollow
  <2>5. OneDragAtATime'
    BY <1>1, <1>2, <1>3, <2>1, <2>2 DEF SelectionInv, OneDragAtATime, SelectionTypes
  <2> QED BY <1>2, <2>3, <2>4, <2>5 DEF SelectionInv
<1>4. CASE ~(currentDragObjects # <<>> /\ dragElement # None)
  <2>1. UNCHANGED <<home, activated, activeZones, hover, dragElement, visible>>
    BY <1>4 DEF Se!CancelDrag, Se!HasSelection, Se!zones
  <2>2. SelectionTypes'
    BY <1>1, <2>1 DEF SelectionInv, SelectionTypes, Se!SelectionAssumption
  <2>3. ZonesFollow'
    BY <1>1, <1>2, <2>1 DEF SelectionInv, ZonesFollow
  <2>4. OneDragAtATime'
    BY <1>1, <1>2, <1>4, <2>1 DEF SelectionInv, OneDragAtATime, SelectionTypes
  <2> QED BY <1>2, <2>2, <2>3, <2>4 DEF SelectionInv
<1> QED BY <1>3, <1>4

\* What the page does, and a release that is not seen.
LEMMA SelectionPageStep ==
  ASSUME SelectionInv,
         \/ Se!MouseUpOutside \/ Se!PageClearsSelection \/ Se!DeregisterDropZone \/ Se!RegisterDropZone
         \/ UNCHANGED Se!vars
  PROVE  SelectionInv'
<1> DEFINE same == UNCHANGED <<accepting, dragElement, visible, interested, activated,
                               activeZones, hover, home,
                               returns, over, hurried, overlapped>>
<1>1. CASE Se!PageClearsSelection
  <2>1. same /\ dropZones' = dropZones /\ button' = button /\ dragElement = None
    BY <1>1 DEF Se!PageClearsSelection, Se!zones, Se!DragUnderWay
  <2>2. currentDragObjects' = <<>> /\ Agrees(currentDragObjects, lastSelectedDraggable, selected)'
    BY <1>1, DeselectAgrees DEF Se!PageClearsSelection, SelectionInv
  <2>3. ZonesInOrder' /\ SelectionTypes'
    BY <2>1 DEF SelectionInv, ZonesInOrder, SelectionTypes
  <2>4. ZonesFollow' /\ OneDragAtATime'
    BY <2>1 DEF SelectionInv, ZonesFollow, OneDragAtATime, Se!Registered
  <2> QED BY <2>2, <2>3, <2>4 DEF SelectionInv
<1>2. CASE Se!MouseUpOutside \/ UNCHANGED Se!vars
  <2>1. /\ same /\ button' \in {button, FALSE}
        /\ UNCHANGED <<dropZones, currentDragObjects, lastSelectedDraggable, selected>>
    BY <1>2 DEF Se!MouseUpOutside, Se!vars, Se!selection, Se!zones
  <2>2. ZonesInOrder' /\ SelectionTypes' /\ Agrees(currentDragObjects, lastSelectedDraggable, selected)'
    BY <2>1 DEF SelectionInv, ZonesInOrder, SelectionTypes, Agrees
  <2>3. ZonesFollow' /\ OneDragAtATime'
    BY <2>1 DEF SelectionInv, ZonesFollow, OneDragAtATime, Se!Registered
  <2> QED BY <2>2, <2>3 DEF SelectionInv
<1>3. CASE Se!DeregisterDropZone \/ Se!RegisterDropZone
  <2>1. /\ same /\ UNCHANGED <<button, currentDragObjects, lastSelectedDraggable, selected>>
    BY <1>3 DEF Se!DeregisterDropZone, Se!RegisterDropZone, Se!selection, Se!zones
  <2>2. /\ ZonesInOrder'
        /\ Se!Registered' \cap activeZones \subseteq Se!Registered
        /\ Se!Registered' \cap hover \subseteq Se!Registered
    <3>1. CASE Se!DeregisterDropZone
      <4>1. PICK z : dropZones' = Se!RemoveFirst(dropZones, z)
        BY <3>1 DEF Se!DeregisterDropZone
      <4>2. dropZones' \in Seq(Zones) /\ Se!IsInjective(dropZones') /\ Se!ToSet(dropZones') = Se!ToSet(dropZones) \ {z}
        BY <4>1, RemoveFirstIs DEF SelectionInv, ZonesInOrder
      <4> QED BY <4>2 DEF ZonesInOrder, Se!Registered
    <3>2. CASE Se!RegisterDropZone
      <4>1. PICK z \in Zones \ (Se!Registered \cup activeZones \cup hover) : dropZones' = Append(dropZones, z)
        BY <3>2 DEF Se!RegisterDropZone
      <4>2. /\ dropZones' \in Seq(Zones) /\ Se!IsInjective(dropZones')
            /\ Se!ToSet(dropZones') = Se!ToSet(dropZones) \cup {z}
        BY <4>1, OneAdded DEF SelectionInv, ZonesInOrder, Se!Registered
      <4> QED BY <4>1, <4>2 DEF ZonesInOrder, Se!Registered
    <3> QED BY <1>3, <3>1, <3>2
  <2>3. SelectionTypes' /\ Agrees(currentDragObjects, lastSelectedDraggable, selected)'
    BY <2>1 DEF SelectionInv, SelectionTypes, Agrees
  <2>4. ZonesFollow'
    BY <2>1, <2>2 DEF SelectionInv, ZonesFollow
  <2>5. OneDragAtATime'
    BY <2>1, <2>2 DEF SelectionInv, OneDragAtATime
  <2> QED BY <2>2, <2>3, <2>4, <2>5 DEF SelectionInv
<1> QED BY <1>1, <1>2, <1>3

\* Every step.
LEMMA SelectionStepInv ==
  ASSUME Se!SelectionAssumption, SelectionInv, [Se!Next]_(Se!vars)
  PROVE  SelectionInv'
BY MouseDownStep, DragMoveStep, DropStep, CancelDragStep, SelectionPageStep DEF Se!Next

\* rico.js L998-1374: the state of Rico's drag and drop keeps its types.
THEOREM SelectionTypeCorrect ==
  ASSUME Se!SelectionAssumption
  PROVE  Se!Spec => []Se!TypeOK
<1> QED BY SelectionFacts, SelectionInitInv, SelectionStepInv, PTL DEF Se!Spec

\* rico.js L998-1374: what looks selected is what would be dragged, and a drag
\* that is over leaves nothing behind, for any draggables and zones.
THEOREM SelectionStaysRight ==
  ASSUME Se!SelectionAssumption
  PROVE  Se!Spec => [](Se!SelectionAgrees /\ Se!DragLeavesNothing)
<1> QED BY SelectionFacts, SelectionInitInv, SelectionStepInv, PTL DEF Se!Spec

----------------------------------------------------------------------------
(***************************************************************************)
(* Proofs about DragDrop for any items and lists. The argument: no list    *)
(* holds an item twice; clones, scrolling and highlights belong to a drag, *)
(* of which there is one while no release was missed; it begins with the   *)
(* order that the page was told, or with one that holds the item twice and *)
(* no list will have again, and ends by telling the page the one there is. *)
(***************************************************************************)

\* A list holds no item twice.
Ordered == {s \in Seq(Items) : Dr!IsInjective(s)}
Orders == [Lists -> Ordered]

SortableTypes ==
    /\ order \in Orders /\ lastOrder \in [Lists -> Seq(Items)] /\ orderTold \in Orders
    /\ options \in DragOptions
    /\ activeDraggable \in Items \cup {None} /\ waiting \in Items \cup {None}
    /\ dragging \subseteq Items /\ delta \subseteq Items /\ clone \subseteq Items /\ scrolling \subseteq Items
    /\ lastActive \in Dr!Drops \cup {None}
    /\ endEffects \in 0..MaxEffects
    /\ pointer \in BOOLEAN /\ flag \in BOOLEAN /\ dragButton \in BOOLEAN
    /\ fault \in Dr!Faults \cup {None}

\* What a drag begins with is the order that the page knows, or none.
OrderKept == \A l \in Lists : lastOrder[l] \in Ordered => orderTold[l] = lastOrder[l]

\* Clones, scrolling and highlights belong to a drag, which is the only one
\* while no release was missed.
DragsInv ==
    /\ clone \subseteq dragging
    /\ fault \notin {"raised", "escaped"} =>
          scrolling \subseteq dragging /\ (lastActive # None => dragging # {})
    /\ flag /\ fault # "raised" => dragging # {} \/ endEffects > 0
    /\ fault \in {None, "escaped", "unmoved"} =>
          /\ activeDraggable # None => dragButton
          /\ waiting # None => dragButton /\ activeDraggable = None
          /\ dragging \subseteq {activeDraggable}
    /\ fault = None => IF dragging = {} THEN orderTold = order ELSE OrderKept

SortableInv == SortableTypes /\ DragsInv

\* What the runs check follows.
LEMMA SortableFacts ==
  SortableInv => Dr!TypeOK /\ Dr!OrderIsTold /\ Dr!NothingLeftOver /\ Dr!FlagIsReleased /\ Dr!OneDrag
<1> SUFFICES ASSUME SortableInv
             PROVE  Dr!TypeOK /\ Dr!OrderIsTold /\ Dr!NothingLeftOver /\ Dr!FlagIsReleased /\ Dr!OneDrag
  OBVIOUS
<1>1. Dr!TypeOK
  BY Zenon DEF SortableInv, SortableTypes, Orders, Ordered, Dr!TypeOK
<1>2. Dr!OrderIsTold /\ Dr!FlagIsReleased /\ Dr!OneDrag
  BY DEF SortableInv, DragsInv, Dr!OrderIsTold, Dr!FlagIsReleased, Dr!OneDrag
<1>3. Dr!NothingLeftOver
  BY DEF SortableInv, DragsInv, Dr!NothingLeftOver
<1> QED BY <1>1, <1>2, <1>3

LEMMA EmptyIsOrdered == <<>> \in Ordered
<1>1. <<>> \in Seq(Items) /\ DOMAIN <<>> = {}
  BY EmptySeq
<1> QED BY <1>1 DEF Ordered, Dr!IsInjective

\* The orders of a finite set.
LEMMA SetToSeqsOrdered ==
  ASSUME NEW S \in SUBSET Items, IsFiniteSet(S), NEW s \in Dr!SetToSeqs(S)
  PROVE  s \in Ordered
<1>1. Cardinality(S) \in Nat
  BY FS_CardinalityType
<1>2. Dr!Cardinality(S) = Cardinality(S)
  BY Zenon DEF Dr!Cardinality, Cardinality
<1>3. s \in [1..Cardinality(S) -> S] /\ \A i, j \in 1..Cardinality(S) : i # j => s[i] # s[j]
  BY <1>2, Zenon DEF Dr!SetToSeqs
<1>4. s \in Seq(Items)
  BY <1>1, <1>3
<1> QED BY <1>3, <1>4 DEF Ordered, Dr!IsInjective

\* At the start.
LEMMA SortableInitInv == ASSUME Dr!DragDropAssumption, Dr!Init PROVE SortableInv
<1>1. IsFiniteSet(Items)
  BY Zenon DEF Dr!DragDropAssumption, Dr!IsFiniteSet, IsFiniteSet
<1>2. order \in Orders
  <2>1. PICK s \in Dr!SetToSeqs(Items) : order = [l \in Lists |-> IF l = FirstList THEN s ELSE <<>>]
    BY DEF Dr!Init
  <2>2. s \in Ordered
    BY <1>1, SetToSeqsOrdered
  <2> QED BY <2>1, <2>2, EmptyIsOrdered DEF Orders
<1>3. endEffects \in 0..MaxEffects
  BY DEF Dr!Init, Dr!DragDropAssumption
<1>4. SortableTypes
  <2>1. order \in [Lists -> Seq(Items)]
    BY <1>2 DEF Orders, Ordered
  <2> QED BY <1>2, <1>3, <2>1 DEF SortableTypes, Dr!Init
<1>5. DragsInv
  BY DEF DragsInv, Dr!Init
<1> QED BY <1>4, <1>5 DEF SortableInv

----------------------------------------------------------------------------
\* Without an item, and with one more.
LEMMA WithoutIs ==
  ASSUME NEW o \in Orders, NEW e
  PROVE  /\ Dr!Without(o, e) \in Orders
         /\ \A l \in Lists : Se!ToSet(Dr!Without(o, e)[l]) = Se!ToSet(o[l]) \ {e}
<1>1. ASSUME NEW s \in Ordered
      PROVE  /\ Dr!RemoveFirst(s, e) \in Ordered
             /\ Se!ToSet(Dr!RemoveFirst(s, e)) = Se!ToSet(s) \ {e}
  <2>1. s \in Seq(Items) /\ Se!IsInjective(s)
    BY DEF Ordered, Dr!IsInjective, Se!IsInjective
  <2>2. Dr!RemoveFirst(s, e) = Se!RemoveFirst(s, e)
    BY Zenon DEF Dr!RemoveFirst, Se!RemoveFirst, Dr!RemoveAt, Se!RemoveAt, Dr!SelectInSeq,
        Se!SelectInSeq, Dr!Min, Se!Min
  <2> QED BY <2>1, <2>2, RemoveFirstIs DEF Ordered, Dr!IsInjective, Se!IsInjective
<1> QED BY <1>1 DEF Dr!Without, Orders

LEMMA InsertAtElements ==
  ASSUME NEW s \in Seq(Items), NEW i \in 1..(Len(s) + 1), NEW e \in Items
  PROVE  /\ Dr!InsertAt(s, i, e) \in Seq(Items)
         /\ DOMAIN Dr!InsertAt(s, i, e) = 1..(Len(s) + 1)
         /\ \A j \in 1..(Len(s) + 1) :
               Dr!InsertAt(s, i, e)[j] = IF j < i THEN s[j] ELSE IF j = i THEN e ELSE s[j - 1]
<1> DEFINE p == SubSeq(s, 1, i - 1)
           q == SubSeq(s, i, Len(s))
           t == (p \o <<e>>) \o q
<1>1. s \in Seq(Items) /\ Len(s) \in Nat /\ i \in Nat
  OBVIOUS
<1>2. p \in Seq(Items) /\ Len(p) = i - 1 /\ \A j \in 1..(i - 1) : p[j] = s[j]
  <2>1. \A k \in 1..(i - 1) : s[k] \in Items
    BY <1>1
  <2>2. p \in Seq(Items) /\ Len(p) = IF 1 <= i - 1 THEN i - 1 - 1 + 1 ELSE 0
    BY <1>1, <2>1, SubSeqProperties
  <2>3. \A j \in 1..(i - 1 - 1 + 1) : p[j] = s[1 + j - 1]
    BY <1>1, <2>1, SubSeqProperties
  <2> QED BY <1>1, <2>2, <2>3
<1>3. q \in Seq(Items) /\ Len(q) = Len(s) - i + 1 /\ \A j \in 1..(Len(s) - i + 1) : q[j] = s[i + j - 1]
  <2>1. \A k \in i..Len(s) : s[k] \in Items
    BY <1>1
  <2>2. q \in Seq(Items) /\ Len(q) = IF i <= Len(s) THEN Len(s) - i + 1 ELSE 0
    BY <1>1, <2>1, SubSeqProperties
  <2>3. \A j \in 1..(Len(s) - i + 1) : q[j] = s[i + j - 1]
    BY <1>1, <2>1, SubSeqProperties
  <2> QED BY <1>1, <2>2, <2>3
<1> HIDE DEF p, q
<1> DEFINE m == p \o <<e>>
<1>4. /\ m \in Seq(Items) /\ Len(m) = i /\ m[i] = e
      /\ \A j \in 1..(i - 1) : m[j] = s[j]
  <2>1. <<e>> \in Seq(Items) /\ Len(<<e>>) = 1 /\ <<e>>[1] = e
    OBVIOUS
  <2>2. /\ m \in Seq(Items) /\ Len(m) = Len(p) + 1
        /\ \A j \in 1..(Len(p) + 1) : m[j] = IF j <= Len(p) THEN p[j] ELSE <<e>>[j - Len(p)]
    BY <1>2, <2>1, ConcatProperties
  <2>3. Len(m) = i /\ i \in 1..(Len(p) + 1) /\ ~(i <= Len(p)) /\ i - Len(p) = 1
    BY <1>1, <1>2, <2>2
  <2>4. m[i] = e
    BY <2>1, <2>2, <2>3
  <2>5. \A j \in 1..(i - 1) : m[j] = s[j]
    BY <1>1, <1>2, <2>2
  <2> QED BY <2>2, <2>3, <2>4, <2>5
<1> HIDE DEF m
<1> DEFINE r == m \o q
<1>5. /\ r \in Seq(Items) /\ Len(r) = i + (Len(s) - i + 1)
      /\ \A j \in 1..(i + (Len(s) - i + 1)) : r[j] = IF j <= i THEN m[j] ELSE q[j - i]
  BY <1>1, <1>3, <1>4, ConcatProperties
<1> HIDE DEF r
<1>6. DOMAIN r = 1..(Len(s) + 1)
  BY <1>1, <1>5
<1>7. ASSUME NEW j \in 1..(Len(s) + 1)
      PROVE  r[j] = IF j < i THEN s[j] ELSE IF j = i THEN e ELSE s[j - 1]
  <2>1. CASE j < i
    <3>1. j \in 1..(i - 1) /\ j \in 1..(i + (Len(s) - i + 1)) /\ j <= i
      BY <1>1, <2>1
    <3> QED BY <1>4, <1>5, <2>1, <3>1
  <2>2. CASE j = i
    BY <1>1, <1>4, <1>5, <2>2
  <2>3. CASE j > i
    <3>1. j - i \in 1..(Len(s) - i + 1) /\ j \in 1..(i + (Len(s) - i + 1)) /\ ~(j <= i) /\ i + (j - i) - 1 = j - 1
      BY <1>1, <2>3
    <3>2. r[j] = q[j - i] /\ q[j - i] = s[i + (j - i) - 1]
      BY <1>3, <1>5, <3>1
    <3> QED BY <1>1, <2>3, <3>1, <3>2
  <2> QED BY <1>1, <2>1, <2>2, <2>3
<1>8. Dr!InsertAt(s, i, e) = r
  BY Zenon DEF Dr!InsertAt, r, m, p, q
<1> QED BY <1>5, <1>6, <1>7, <1>8

LEMMA InsertAtIs ==
  ASSUME NEW s \in Ordered, NEW i \in 1..(Len(s) + 1), NEW e \in Items, e \notin Se!ToSet(s)
  PROVE  Dr!InsertAt(s, i, e) \in Ordered
<1> DEFINE r == Dr!InsertAt(s, i, e)
<1>1. s \in Seq(Items) /\ Len(s) \in Nat /\ i \in Nat
  BY DEF Ordered
<1>2. /\ r \in Seq(Items) /\ DOMAIN r = 1..(Len(s) + 1)
      /\ \A j \in 1..(Len(s) + 1) : r[j] = IF j < i THEN s[j] ELSE IF j = i THEN e ELSE s[j - 1]
  BY <1>1, InsertAtElements
<1> HIDE DEF r
<1>3. \A k \in 1..Len(s) : s[k] # e
  BY <1>1 DEF Se!ToSet
<1>4. \A a, b \in 1..Len(s) : s[a] = s[b] => a = b
  BY <1>1 DEF Ordered, Dr!IsInjective
<1>5. ASSUME NEW a \in DOMAIN r, NEW b \in DOMAIN r, r[a] = r[b] PROVE a = b
  <2>1. /\ a < i => a \in 1..Len(s) /\ r[a] = s[a]
        /\ a = i => r[a] = e
        /\ a > i => a - 1 \in 1..Len(s) /\ r[a] = s[a - 1]
    BY <1>1, <1>2
  <2>2. /\ b < i => b \in 1..Len(s) /\ r[b] = s[b]
        /\ b = i => r[b] = e
        /\ b > i => b - 1 \in 1..Len(s) /\ r[b] = s[b - 1]
    BY <1>1, <1>2
  <2>3. a \in Int /\ b \in Int
    BY <1>1, <1>2
  <2> QED BY <1>1, <1>3, <1>4, <1>5, <2>1, <2>2, <2>3
<1>6. r \in Ordered
  BY <1>2, <1>5 DEF Ordered, Dr!IsInjective
<1> QED BY <1>6 DEF r

\* A list that a drag's ghost is serialized with is not a list in order.
LEMMA SerializedIs ==
  ASSUME NEW o \in Orders, NEW e \in Items
  PROVE  /\ Dr!Serialized(o, e) \in [Lists -> Seq(Items)]
         /\ \A l \in Lists : Dr!Serialized(o, e)[l] \in Ordered => Dr!Serialized(o, e)[l] = o[l]
<1>1. ASSUME NEW s \in Ordered, Dr!Contains(s, e)
      PROVE  Dr!InsertAt(s, Dr!PlaceOf(s, e), e) \in Seq(Items) \ Ordered
  <2> DEFINE i == Dr!PlaceOf(s, e)
             r == Dr!InsertAt(s, i, e)
  <2>1. s \in Seq(Items) /\ Len(s) \in Nat /\ \E k \in 1..Len(s) : s[k] = e
    BY <1>1 DEF Ordered, Dr!Contains
  <2>2. i \in 1..Len(s) /\ s[i] = e
    <3>1. i = FirstIn(s, e)
      BY Zenon DEF Dr!PlaceOf, FirstIn, Dr!SelectInSeq, Se!SelectInSeq, Dr!Min, Se!Min
    <3> HIDE DEF i
    <3> QED BY <2>1, <3>1, FirstPlace
  <2> HIDE DEF i
  <2>3. i \in 1..(Len(s) + 1)
    BY <2>1, <2>2
  <2>4. /\ r \in Seq(Items) /\ DOMAIN r = 1..(Len(s) + 1)
        /\ \A j \in 1..(Len(s) + 1) : r[j] = IF j < i THEN s[j] ELSE IF j = i THEN e ELSE s[j - 1]
    BY <2>1, <2>3, InsertAtElements
  <2> HIDE DEF r
  <2>5. i + 1 \in DOMAIN r /\ i \in DOMAIN r /\ i # i + 1 /\ r[i] = e /\ r[i + 1] = e
    BY <2>1, <2>2, <2>4
  <2>6. r \in Seq(Items) /\ r \notin Ordered
    BY <2>4, <2>5 DEF Ordered, Dr!IsInjective
  <2> QED BY <2>6 DEF r, i
<1>2. \A l \in Lists : o[l] \in Ordered /\ o[l] \in Seq(Items)
  BY DEF Orders, Ordered
<1> QED BY <1>1, <1>2 DEF Dr!Serialized

\* What an item is moved over leaves every list in order.
LEMMA HoveredOrders ==
  ASSUME NEW o \in Orders, NEW e \in Items, NEW target, NEW h \in Dr!Hovered(o, e, target)
  PROVE  h \in Orders
<1> DEFINE p == Dr!Without(o, e)
<1>1. p \in Orders /\ \A l \in Lists : Se!ToSet(p[l]) = Se!ToSet(o[l]) \ {e}
  BY WithoutIs
<1> HIDE DEF p
<1>2. ASSUME NEW l \in Lists, NEW i \in 1..(Len(p[l]) + 1) PROVE [p EXCEPT ![l] = Dr!InsertAt(p[l], i, e)] \in Orders
  <2>1. p[l] \in Ordered /\ e \notin Se!ToSet(p[l])
    BY <1>1 DEF Orders
  <2>2. Dr!InsertAt(p[l], i, e) \in Ordered
    BY <2>1, InsertAtIs
  <2> QED BY <1>1, <2>2 DEF Orders
<1>3. CASE target \in Items
  <2>1. PICK l \in Dr!Inside(p, target) :
          \E i \in {Dr!PlaceOf(p[l], target), Dr!PlaceOf(p[l], target) + 1} :
            h = [p EXCEPT ![l] = Dr!InsertAt(p[l], i, e)]
    BY <1>3 DEF Dr!Hovered, p
  <2>2. l \in Lists /\ \E k \in 1..Len(p[l]) : p[l][k] = target
    BY DEF Dr!Inside, Dr!Contains
  <2>3. p[l] \in Seq(Items)
    BY <1>1, <2>2 DEF Orders, Ordered
  <2>4. Dr!PlaceOf(p[l], target) \in 1..Len(p[l])
    <3>1. Dr!PlaceOf(p[l], target) = FirstIn(p[l], target)
      BY Zenon DEF Dr!PlaceOf, FirstIn, Dr!SelectInSeq, Se!SelectInSeq, Dr!Min, Se!Min
    <3> QED BY <2>2, <2>3, <3>1, FirstPlace
  <2>5. \A i \in {Dr!PlaceOf(p[l], target), Dr!PlaceOf(p[l], target) + 1} : i \in 1..(Len(p[l]) + 1)
    BY <2>3, <2>4
  <2> QED BY <1>2, <2>1, <2>2, <2>5, Zenon
<1>4. CASE target \notin Items /\ target \in Lists /\ target \notin Dr!Inside(o, e)
  <2>1. PICK i \in 1..(Len(o[target]) + 1) : h = [p EXCEPT ![target] = Dr!InsertAt(p[target], i, e)]
    BY <1>4 DEF Dr!Hovered, p
  <2>2. p[target] = o[target]
    <3>1. ~ \E k \in 1..Len(o[target]) : o[target][k] = e
      BY <1>4 DEF Dr!Inside, Dr!Contains
    <3> QED BY <1>4, <3>1 DEF p, Dr!Without, Dr!RemoveFirst
  <2> QED BY <1>2, <1>4, <2>1, <2>2
<1>5. CASE target \notin Items /\ ~(target \in Lists /\ target \notin Dr!Inside(o, e))
  BY <1>5 DEF Dr!Hovered
<1> QED BY <1>3, <1>4, <1>5

\* finishDrag(): it raises, or the drag is over and the page is told.
LEMMA FinishDragFacts ==
  ASSUME Dr!DragDropAssumption, SortableTypes, NEW d \in Items, NEW success \in BOOLEAN, NEW end \in Dr!Faults \cup {None},
         Dr!FinishDrag(d, success, end)
  PROVE  /\ order' \in Orders /\ orderTold' \in Orders
         /\ dragging' = dragging \ {d} /\ clone' = clone \ {d}
         /\ lastActive' \in Dr!Drops \cup {None}
         /\ endEffects' \in 0..MaxEffects
         /\ \/ fault' = "raised" /\ activeDraggable' = activeDraggable
            \/ /\ fault' = end /\ activeDraggable' = None /\ lastActive' = None /\ endEffects' > 0
               /\ orderTold' = [l \in Lists |-> IF lastOrder[l] # order'[l] THEN order'[l] ELSE orderTold[l]]
               /\ ~success /\ ~options.quiet => order' = order
<1>1. PICK target \in IF options.quiet THEN Dr!Affected(order, d) ELSE {lastActive} :
      \E hovered \in IF options.quiet THEN Dr!Hovered(order, d, target) ELSE {order} :
      \E o \in {hovered} \cup (IF success /\ target = Bin THEN {Dr!Without(hovered, d)} ELSE {}) :
        /\ endEffects < MaxEffects
        /\ dragging' = dragging \ {d}
        /\ clone' = clone \ {d}
        /\ IF options.ghosting /\ d \notin clone
           THEN /\ order' = hovered /\ lastActive' = target
                /\ Dr!Faulty("raised")
                /\ UNCHANGED <<orderTold, activeDraggable, endEffects>>
           ELSE /\ order' = o
                /\ \/ /\ d \in delta
                      /\ orderTold' = Dr!Told(o, d)
                      /\ Dr!EndEffect
                      /\ Dr!Deactivate
                      /\ fault' = end
                   \/ /\ orderTold' \in {orderTold, Dr!Told(o, d)}
                      /\ d \in delta => orderTold # Dr!Told(o, d)
                      /\ lastActive' = target
                      /\ Dr!Faulty("raised")
                      /\ UNCHANGED <<activeDraggable, endEffects>>
  BY Zenon DEF Dr!FinishDrag
<1>2. PICK hovered \in IF options.quiet THEN Dr!Hovered(order, d, target) ELSE {order} :
      \E o \in {hovered} \cup (IF success /\ target = Bin THEN {Dr!Without(hovered, d)} ELSE {}) :
        /\ endEffects < MaxEffects
        /\ dragging' = dragging \ {d}
        /\ clone' = clone \ {d}
        /\ IF options.ghosting /\ d \notin clone
           THEN /\ order' = hovered /\ lastActive' = target
                /\ Dr!Faulty("raised")
                /\ UNCHANGED <<orderTold, activeDraggable, endEffects>>
           ELSE /\ order' = o
                /\ \/ /\ d \in delta
                      /\ orderTold' = Dr!Told(o, d)
                      /\ Dr!EndEffect
                      /\ Dr!Deactivate
                      /\ fault' = end
                   \/ /\ orderTold' \in {orderTold, Dr!Told(o, d)}
                      /\ d \in delta => orderTold # Dr!Told(o, d)
                      /\ lastActive' = target
                      /\ Dr!Faulty("raised")
                      /\ UNCHANGED <<activeDraggable, endEffects>>
  BY <1>1, Zenon
<1>20. PICK o \in {hovered} \cup (IF success /\ target = Bin THEN {Dr!Without(hovered, d)} ELSE {}) :
        /\ endEffects < MaxEffects
        /\ dragging' = dragging \ {d}
        /\ clone' = clone \ {d}
        /\ IF options.ghosting /\ d \notin clone
           THEN /\ order' = hovered /\ lastActive' = target
                /\ Dr!Faulty("raised")
                /\ UNCHANGED <<orderTold, activeDraggable, endEffects>>
           ELSE /\ order' = o
                /\ \/ /\ d \in delta
                      /\ orderTold' = Dr!Told(o, d)
                      /\ Dr!EndEffect
                      /\ Dr!Deactivate
                      /\ fault' = end
                   \/ /\ orderTold' \in {orderTold, Dr!Told(o, d)}
                      /\ d \in delta => orderTold # Dr!Told(o, d)
                      /\ lastActive' = target
                      /\ Dr!Faulty("raised")
                      /\ UNCHANGED <<activeDraggable, endEffects>>
  BY <1>2, Zenon
<1>3. target \in Dr!Drops \cup {None}
  BY <1>1 DEF SortableTypes, Dr!Affected, Dr!Drops
<1>4. hovered \in Orders
  BY <1>2, HoveredOrders DEF SortableTypes
<1>5. o \in Orders
  BY <1>20, <1>4, WithoutIs
<1>6. Dr!Told(o, d) \in Orders
  BY <1>5 DEF Dr!Told, SortableTypes, Orders
<1>7. endEffects \in Nat /\ MaxEffects \in Nat /\ endEffects < MaxEffects
  BY <1>20 DEF SortableTypes, Dr!DragDropAssumption
<1>8. ~success /\ ~options.quiet => o = order
  BY <1>2, <1>20
<1>9. CASE \/ options.ghosting /\ d \notin clone
           \/ /\ order' = o
              /\ orderTold' \in {orderTold, Dr!Told(o, d)}
              /\ lastActive' = target
              /\ Dr!Faulty("raised")
              /\ UNCHANGED <<activeDraggable, endEffects>>
  <2>1. /\ order' \in {hovered, o} /\ orderTold' \in {orderTold, Dr!Told(o, d)} /\ lastActive' = target
        /\ fault' = "raised" /\ activeDraggable' = activeDraggable /\ endEffects' = endEffects
    BY <1>20, <1>9 DEF Dr!Faulty
  <2> QED BY <1>20, <1>3, <1>4, <1>5, <1>6, <2>1 DEF SortableTypes
<1>10. CASE /\ order' = o
            /\ orderTold' = Dr!Told(o, d)
            /\ Dr!EndEffect
            /\ Dr!Deactivate
            /\ fault' = end
  <2>1. endEffects' = endEffects + 1 /\ activeDraggable' = None /\ lastActive' = None
    BY <1>10 DEF Dr!EndEffect, Dr!Deactivate
  <2>2. endEffects' \in 0..MaxEffects /\ endEffects' > 0
    BY <1>7, <2>1
  <2>3. orderTold' = [l \in Lists |-> IF lastOrder[l] # order'[l] THEN order'[l] ELSE orderTold[l]]
    BY <1>10 DEF Dr!Told
  <2> QED BY <1>20, <1>5, <1>6, <1>8, <1>10, <2>1, <2>2, <2>3
<1> QED BY <1>20, <1>9, <1>10

\* What the page has been told is the order there is.
LEMMA ToldIsOrder ==
  ASSUME order' \in Orders, orderTold' = [l \in Lists |-> IF lastOrder[l] # order'[l] THEN order'[l] ELSE orderTold[l]],
         OrderKept \/ orderTold = order'
  PROVE  orderTold' = order'
BY DEF Orders, OrderKept

----------------------------------------------------------------------------
\* The mouse goes down; a delay is over.
LEMMA PressStep ==
  ASSUME Dr!DragDropAssumption, SortableInv, Dr!Press \/ Dr!DelayOver
  PROVE  SortableInv'
<1>1. UNCHANGED <<options, order, lastOrder, orderTold, pointer, dragging, delta, clone,
                  scrolling, lastActive, flag,
                  endEffects, fault>>
  BY DEF Dr!Press, Dr!DelayOver, Dr!lists, Dr!objects
<1>2. CASE Dr!Press
  <2>1. PICK e \in Items :
          /\ ~dragButton /\ waiting = None /\ dragButton' = TRUE
          /\ activeDraggable' \in {activeDraggable, e} /\ waiting' \in {waiting, e}
          /\ waiting' = None \/ activeDraggable' = activeDraggable
    BY <1>2 DEF Dr!Press
  <2>2. SortableTypes'
    BY <1>1, <2>1 DEF SortableInv, SortableTypes
  <2>3. DragsInv'
    BY <1>1, <2>1 DEF SortableInv, SortableTypes, DragsInv, Dr!DragDropAssumption
  <2> QED BY <2>2, <2>3 DEF SortableInv
<1>3. CASE Dr!DelayOver
  <2>1. waiting # None /\ activeDraggable' = waiting /\ waiting' = None /\ dragButton' = dragButton
    BY <1>3 DEF Dr!DelayOver
  <2>2. SortableTypes'
    BY <1>1, <2>1 DEF SortableInv, SortableTypes
  <2>3. DragsInv'
    BY <1>1, <2>1 DEF SortableInv, SortableTypes, DragsInv, Dr!DragDropAssumption
  <2> QED BY <2>2, <2>3 DEF SortableInv
<1> QED BY <1>2, <1>3

\* show() moves the item within orders.
LEMMA ShowFacts ==
  ASSUME SortableTypes, NEW e \in Items, Dr!Show(order, e)
  PROVE  order' \in Orders /\ lastActive' \in Dr!Drops \cup {None}
<1>1. PICK target \in Dr!Affected(order, e) : lastActive' = target /\ order' \in Dr!Hovered(order, e, target)
  BY DEF Dr!Show
<1>2. order' \in Orders
  BY <1>1, HoveredOrders DEF SortableTypes
<1> QED BY <1>1, <1>2 DEF Dr!Affected, Dr!Drops

\* The item moves with the mouse.
LEMMA SortMoveStep == ASSUME Dr!DragDropAssumption, SortableInv, Dr!MouseMove PROVE SortableInv'
<1>1. /\ activeDraggable # None /\ activeDraggable \in Items
      /\ pointer' = TRUE
      /\ dragging' = dragging \cup {activeDraggable}
      /\ delta' = delta \cup {activeDraggable}
      /\ clone' \subseteq clone \cup {activeDraggable}
      /\ scrolling' \subseteq scrolling \cup {activeDraggable}
      /\ IF activeDraggable \in dragging THEN lastOrder' = lastOrder /\ flag' = flag
         ELSE lastOrder' = Dr!Serialized(order, activeDraggable) /\ flag' = TRUE
      /\ UNCHANGED <<options, orderTold, activeDraggable, waiting, endEffects, dragButton, fault>>
  BY DEF Dr!MouseMove, Dr!Rescroll, SortableInv, SortableTypes
<1>2. order' \in Orders /\ lastActive' \in Dr!Drops \cup {None}
  <2>1. CASE options.quiet
    BY <2>1 DEF Dr!MouseMove, SortableInv, SortableTypes
  <2>2. CASE ~options.quiet
    BY <1>1, <2>2, ShowFacts DEF Dr!MouseMove, SortableInv
  <2> QED BY <2>1, <2>2
<1>20. /\ Dr!Serialized(order, activeDraggable) \in [Lists -> Seq(Items)]
       /\ \A l \in Lists : Dr!Serialized(order, activeDraggable)[l] \in Ordered =>
                          Dr!Serialized(order, activeDraggable)[l] = order[l]
  BY <1>1, SerializedIs DEF SortableInv, SortableTypes
<1>3. SortableTypes'
  BY <1>1, <1>2, <1>20 DEF SortableInv, SortableTypes
<1>4. DragsInv'
  <2>1. clone' \subseteq dragging' /\ dragging' # {}
    BY <1>1 DEF SortableInv, DragsInv
  <2>2. fault' \notin {"raised", "escaped"} => scrolling' \subseteq dragging'
    BY <1>1 DEF SortableInv, DragsInv
  <2>3. fault' = None => OrderKept'
    <3>1. CASE activeDraggable \in dragging
      BY <1>1, <3>1 DEF SortableInv, DragsInv, OrderKept
    <3>2. CASE activeDraggable \notin dragging
      <4>1. fault' = None => orderTold' = order /\ lastOrder' = Dr!Serialized(order, activeDraggable)
        BY <1>1, <3>2 DEF SortableInv, DragsInv
      <4> QED BY <1>20, <4>1 DEF OrderKept
    <3> QED BY <3>1, <3>2
  <2>4. fault' \in {None, "escaped", "unmoved"} =>
          /\ activeDraggable' # None => dragButton'
          /\ waiting' # None => dragButton' /\ activeDraggable' = None
          /\ dragging' \subseteq {activeDraggable'}
    BY <1>1 DEF SortableInv, DragsInv
  <2> QED BY <2>1, <2>2, <2>3, <2>4, Zenon DEF DragsInv
<1> QED BY <1>3, <1>4 DEF SortableInv

\* The button is released.
LEMMA ReleaseStep == ASSUME Dr!DragDropAssumption, SortableInv, Dr!Release PROVE SortableInv'
<1>1. dragButton' = FALSE /\ waiting' = None /\ UNCHANGED <<options, flag>>
  BY DEF Dr!Release
<1>2. CASE activeDraggable \notin dragging
  <2>1. /\ activeDraggable' = None
        /\ UNCHANGED <<order, lastOrder, orderTold, dragging, delta, clone, scrolling,
                       lastActive, endEffects, fault>>
        /\ pointer' \in {pointer, FALSE}
    BY <1>2 DEF Dr!Release, Dr!lists, Dr!objects, SortableInv, SortableTypes
  <2>2. SortableTypes'
    BY <1>1, <2>1 DEF SortableInv, SortableTypes
  <2>3. DragsInv'
    BY <1>1, <1>2, <2>1 DEF SortableInv, DragsInv
  <2> QED BY <2>2, <2>3 DEF SortableInv
<1>3. CASE activeDraggable \in dragging
  <2>1. activeDraggable \in Items /\ activeDraggable # None
    BY <1>3 DEF SortableInv, SortableTypes, Dr!DragDropAssumption
  <2>2. /\ pointer' = FALSE /\ scrolling' = scrolling \ {activeDraggable}
        /\ Dr!FinishDrag(activeDraggable, TRUE, fault) /\ UNCHANGED <<lastOrder, delta>>
    BY <1>3, <2>1 DEF Dr!Release
  <2>3. /\ order' \in Orders /\ orderTold' \in Orders
        /\ dragging' = dragging \ {activeDraggable} /\ clone' = clone \ {activeDraggable}
        /\ lastActive' \in Dr!Drops \cup {None}
        /\ endEffects' \in 0..MaxEffects
        /\ \/ fault' = "raised" /\ activeDraggable' = activeDraggable
           \/ /\ fault' = fault /\ activeDraggable' = None /\ lastActive' = None /\ endEffects' > 0
              /\ orderTold' = [l \in Lists |-> IF lastOrder[l] # order'[l] THEN order'[l] ELSE orderTold[l]]
    BY <2>1, <2>2, FinishDragFacts DEF SortableInv, SortableTypes
  <2>4. SortableTypes'
    BY <1>1, <2>1, <2>2, <2>3 DEF SortableInv, SortableTypes, Dr!Faults
  <2>5. CASE fault' = "raised"
    <3>1. DragsInv'
      BY <2>2, <2>3, <2>5 DEF SortableInv, DragsInv, Dr!DragDropAssumption, Dr!Faults
    <3> QED BY <2>4, <3>1 DEF SortableInv
  <2>6. CASE fault' # "raised"
    <3>1. fault' = None => OrderKept /\ dragging' = {}
      BY <1>3, <2>3, <2>6 DEF SortableInv, DragsInv
    <3>2. fault' = None => orderTold' = order'
      BY <2>3, <2>6, <3>1, ToldIsOrder
    <3>3. clone' \subseteq dragging' /\ (fault' \notin {"raised", "escaped"} => scrolling' \subseteq dragging')
      BY <2>2, <2>3, <2>6 DEF SortableInv, DragsInv
    <3>4. fault' \in {None, "escaped", "unmoved"} => dragging' \subseteq {activeDraggable'}
      BY <2>3, <2>6 DEF SortableInv, DragsInv
    <3>5. DragsInv'
      BY <1>1, <2>3, <2>6, <3>1, <3>2, <3>3, <3>4 DEF DragsInv
    <3> QED BY <2>4, <3>5 DEF SortableInv
  <2> QED BY <2>5, <2>6
<1> QED BY <1>2, <1>3

\* Escape.
LEMMA DragEscapeStep == ASSUME Dr!DragDropAssumption, SortableInv, Dr!Escape PROVE SortableInv'
<1> DEFINE end == IF activeDraggable \in scrolling THEN "escaped" ELSE IF Dr!Unmoved THEN "unmoved" ELSE fault
<1>1. /\ activeDraggable # None /\ activeDraggable \in Items
      /\ activeDraggable \in scrolling \/ Dr!Unmoved => fault = None
      /\ Dr!FinishDrag(activeDraggable, FALSE, end)
      /\ UNCHANGED <<options, lastOrder, waiting, pointer, delta, scrolling, flag, dragButton>>
  BY DEF Dr!Escape, SortableInv, SortableTypes
<1>2. end \in Dr!Faults \cup {None}
  BY DEF SortableInv, SortableTypes, Dr!Faults
<1>3. /\ end = fault \/ fault = None
      /\ end = None => activeDraggable \notin scrolling /\ ~Dr!Unmoved
      /\ end # "escaped" => activeDraggable \notin scrolling
  BY <1>1 DEF Dr!DragDropAssumption, Dr!Faults
<1> HIDE DEF end
<1>4. /\ order' \in Orders /\ orderTold' \in Orders
      /\ dragging' = dragging \ {activeDraggable} /\ clone' = clone \ {activeDraggable}
      /\ lastActive' \in Dr!Drops \cup {None}
      /\ endEffects' \in 0..MaxEffects
      /\ \/ fault' = "raised" /\ activeDraggable' = activeDraggable
         \/ /\ fault' = end /\ activeDraggable' = None /\ lastActive' = None /\ endEffects' > 0
            /\ orderTold' = [l \in Lists |-> IF lastOrder[l] # order'[l] THEN order'[l] ELSE orderTold[l]]
            /\ ~options.quiet => order' = order
  BY <1>1, <1>2, FinishDragFacts DEF SortableInv
<1>5. SortableTypes'
  BY <1>1, <1>2, <1>4 DEF SortableInv, SortableTypes, Dr!Faults
<1>6. CASE fault' = "raised"
  <2>1. DragsInv'
    BY <1>1, <1>4, <1>6 DEF SortableInv, DragsInv, Dr!DragDropAssumption, Dr!Faults
  <2> QED BY <1>5, <2>1 DEF SortableInv
<1>7. CASE fault' # "raised"
  <2>1. fault' = None => (OrderKept \/ orderTold = order') /\ dragging' = {}
    <3>1. CASE activeDraggable \in dragging
      BY <1>3, <1>4, <1>7, <3>1 DEF SortableInv, DragsInv
    <3>2. CASE activeDraggable \notin dragging
      BY <1>3, <1>4, <1>7, <3>2 DEF SortableInv, DragsInv, Dr!Unmoved
    <3> QED BY <3>1, <3>2
  <2>2. fault' = None => orderTold' = order'
    BY <1>4, <1>7, <2>1, ToldIsOrder
  <2>3. clone' \subseteq dragging' /\ (fault' \notin {"raised", "escaped"} => scrolling' \subseteq dragging')
    BY <1>1, <1>3, <1>4, <1>7 DEF SortableInv, DragsInv, Dr!DragDropAssumption, Dr!Faults
  <2>4. fault' \in {None, "escaped", "unmoved"} =>
          dragging' \subseteq {activeDraggable'} /\ waiting' = None
    BY <1>1, <1>3, <1>4, <1>7 DEF SortableInv, DragsInv
  <2>5. DragsInv'
    BY <1>1, <1>4, <1>7, <2>1, <2>2, <2>3, <2>4 DEF DragsInv
  <2> QED BY <1>5, <2>5 DEF SortableInv
<1> QED BY <1>6, <1>7

\* Timers, a release that is not seen, and the page.
LEMMA SortableOtherStep ==
  ASSUME Dr!DragDropAssumption, SortableInv,
         \/ Dr!ReleaseOutside \/ Dr!Scroll \/ Dr!EffectFinished \/ Dr!Create \/ Dr!SetSequence \/ UNCHANGED Dr!vars
  PROVE  SortableInv'
<1> USE DEF Dr!lists, Dr!objects
<1>1. CASE Dr!ReleaseOutside
  <2>1. /\ dragButton' = FALSE /\ fault' = "lost"
        /\ UNCHANGED <<options, order, lastOrder, orderTold, activeDraggable, waiting, pointer,
                       dragging, delta,
                       clone, scrolling, lastActive, flag, endEffects>>
        /\ fault = None
    BY <1>1 DEF Dr!ReleaseOutside, Dr!Faulty
  <2>2. SortableTypes'
    BY <2>1 DEF SortableInv, SortableTypes, Dr!Faults
  <2>3. DragsInv'
    BY <2>1 DEF SortableInv, DragsInv, Dr!DragDropAssumption, Dr!Faults
  <2> QED BY <2>2, <2>3 DEF SortableInv
<1>2. CASE Dr!Scroll
  <2>1. PICK d \in scrolling : Dr!Show(order, d)
    BY <1>2 DEF Dr!Scroll
  <2>2. UNCHANGED <<options, lastOrder, orderTold, activeDraggable, waiting, pointer, dragging,
                    delta, clone,
                    scrolling, flag, endEffects, dragButton, fault>>
    BY <1>2 DEF Dr!Scroll
  <2>3. order' \in Orders /\ lastActive' \in Dr!Drops \cup {None}
    BY <2>1, ShowFacts DEF SortableInv, SortableTypes
  <2>4. SortableTypes'
    BY <2>2, <2>3 DEF SortableInv, SortableTypes
  <2>5. DragsInv'
    BY <2>1, <2>2 DEF SortableInv, DragsInv, OrderKept, Dr!DragDropAssumption, Dr!Faults
  <2> QED BY <2>4, <2>5 DEF SortableInv
<1>3. CASE Dr!EffectFinished
  <2>1. /\ endEffects > 0 /\ endEffects' = endEffects - 1 /\ flag' = FALSE
        /\ UNCHANGED <<options, order, lastOrder, orderTold, activeDraggable, waiting, pointer,
                       dragging, delta,
                       clone, scrolling, lastActive, dragButton, fault>>
    BY <1>3 DEF Dr!EffectFinished
  <2>2. endEffects' \in 0..MaxEffects
    BY <2>1 DEF SortableInv, SortableTypes, Dr!DragDropAssumption
  <2>3. SortableTypes'
    BY <2>1, <2>2 DEF SortableInv, SortableTypes
  <2>4. DragsInv'
    BY <2>1 DEF SortableInv, DragsInv, OrderKept
  <2> QED BY <2>3, <2>4 DEF SortableInv
<1>4. CASE Dr!Create
  <2>1. /\ activeDraggable = None /\ delta' = {} /\ lastOrder' = order
        /\ UNCHANGED <<options, order, orderTold, activeDraggable, waiting, pointer, dragging,
                       clone, scrolling,
                       lastActive, flag, endEffects, dragButton, fault>>
    BY <1>4 DEF Dr!Create, Dr!Between
  <2>2. SortableTypes'
    BY <2>1 DEF SortableInv, SortableTypes, Orders, Ordered
  <2>3. fault = None => dragging = {}
    BY <2>1 DEF SortableInv, SortableTypes, DragsInv, Dr!DragDropAssumption
  <2>4. DragsInv'
    BY <2>1, <2>3 DEF SortableInv, DragsInv
  <2> QED BY <2>2, <2>4 DEF SortableInv
<1>5. CASE Dr!SetSequence
  <2>0. PICK l \in Lists : \E s \in Dr!SetToSeqs(Dr!ToSet(order[l])) :
          order' = [order EXCEPT ![l] = s] /\ orderTold' = [orderTold EXCEPT ![l] = s]
    BY <1>5 DEF Dr!SetSequence
  <2>1. PICK s \in Dr!SetToSeqs(Dr!ToSet(order[l])) :
          order' = [order EXCEPT ![l] = s] /\ orderTold' = [orderTold EXCEPT ![l] = s]
    BY <2>0
  <2>2. /\ activeDraggable = None
        /\ UNCHANGED <<options, lastOrder, activeDraggable, waiting, pointer, dragging, delta,
                       clone, scrolling,
                       lastActive, flag, endEffects, dragButton, fault>>
    BY <1>5 DEF Dr!SetSequence, Dr!Between
  <2>3. s \in Ordered
    <3>1. order[l] \in Seq(Items)
      BY DEF SortableInv, SortableTypes, Orders, Ordered
    <3>2. Dr!ToSet(order[l]) \in SUBSET Items
      BY <3>1 DEF Dr!ToSet
    <3>3. IsFiniteSet(Items)
      BY Zenon DEF Dr!DragDropAssumption, Dr!IsFiniteSet, IsFiniteSet
    <3> QED BY <3>2, <3>3, FS_Subset, SetToSeqsOrdered
  <2>4. order' \in Orders /\ orderTold' \in Orders
    BY <2>1, <2>3 DEF SortableInv, SortableTypes, Orders
  <2>5. SortableTypes'
    BY <2>2, <2>4 DEF SortableInv, SortableTypes
  <2>6. fault = None => dragging = {}
    BY <2>2 DEF SortableInv, SortableTypes, DragsInv, Dr!DragDropAssumption
  <2>7. fault = None => orderTold' = order'
    BY <2>1, <2>6 DEF SortableInv, DragsInv
  <2>8. DragsInv'
    BY <2>2, <2>6, <2>7 DEF SortableInv, DragsInv
  <2> QED BY <2>5, <2>8 DEF SortableInv
<1>6. CASE UNCHANGED Dr!vars
  BY <1>6 DEF Dr!vars, SortableInv, SortableTypes, DragsInv, OrderKept
<1> QED BY <1>1, <1>2, <1>3, <1>4, <1>5, <1>6

\* Every step.
LEMMA SortableStepInv ==
  ASSUME Dr!DragDropAssumption, SortableInv, [Dr!Next]_(Dr!vars)
  PROVE  SortableInv'
BY PressStep, SortMoveStep, ReleaseStep, DragEscapeStep, SortableOtherStep DEF Dr!Next

\* dragdrop.js L153-591: the state of the sortable lists keeps its types.
THEOREM SortableTypeCorrect ==
  ASSUME Dr!DragDropAssumption
  PROVE  Dr!Spec => []Dr!TypeOK
<1> QED BY SortableFacts, SortableInitInv, SortableStepInv, PTL DEF Dr!Spec

\* dragdrop.js L153-591: the page is told the order there is, a drag that is
\* over leaves nothing behind and blocks none, and one element is dragged at a
\* time; for any items and lists.
THEOREM SortableStaysRight ==
  ASSUME Dr!DragDropAssumption
  PROVE  Dr!Spec => [](Dr!OrderIsTold /\ Dr!NothingLeftOver /\ Dr!FlagIsReleased /\ Dr!OneDrag)
<1> QED BY SortableFacts, SortableInitInv, SortableStepInv, PTL DEF Dr!Spec

----------------------------------------------------------------------------
(***************************************************************************)
(* Proofs about LiveGrid for any page, buffer, totals and columns. The     *)
(* argument: the buffer holds one run of rows, each in its place, and at   *)
(* least a page of them; an answer that is for the one request under way   *)
(* joins the run or replaces it, and brings the page asked for into it; so *)
(* does the view; and the page that is scrolled to is in the buffer, or it *)
(* is asked for, or it will be when the request under way is done.         *)
(***************************************************************************)

\* m rows in the order s from the place a on.
Run(s, a, m) == [i \in 1..m |-> <<s, a + i - 1>>]

\* What a run is.
LEMMA RunIs ==
    ASSUME NEW s, NEW a \in Int, NEW m \in Nat
    PROVE  /\ Run(s, a, m) \in Seq({s} \X Int) /\ Len(Run(s, a, m)) = m
           /\ (Run(s, a, m) = <<>>) <=> (m = 0)
           /\ \A i \in 1..m : Run(s, a, m)[i] = <<s, a + i - 1>>
<1>1. Run(s, a, m) \in [1..m -> {s} \X Int]
  BY DEF Run
<1>2. Run(s, a, m) \in Seq({s} \X Int) /\ Len(Run(s, a, m)) = m
  BY <1>1
<1>3. (Run(s, a, m) = <<>>) <=> (m = 0)
  BY <1>2
<1> QED BY <1>1, <1>2, <1>3 DEF Run

\* Two runs that meet are one.
LEMMA RunsJoin ==
    ASSUME NEW s, NEW a \in Int, NEW m \in Nat, NEW k \in Nat
    PROVE  Run(s, a, m) \o Run(s, a + m, k) = Run(s, a, m + k)
<1> DEFINE T == {s} \X Int
           left == Run(s, a, m)
           right == Run(s, a + m, k)
           both == Run(s, a, m + k)
<1>0. a + m \in Int /\ m + k \in Nat
  OBVIOUS
<1>1. left \in Seq(T) /\ Len(left) = m /\ \A i \in 1..m : left[i] = <<s, a + i - 1>>
  BY RunIs
<1>2. /\ right \in Seq(T) /\ Len(right) = k
      /\ \A i \in 1..k : right[i] = <<s, (a + m) + i - 1>>
  BY <1>0, RunIs
<1>3. /\ both \in Seq(T) /\ Len(both) = m + k
      /\ \A i \in 1..(m + k) : both[i] = <<s, a + i - 1>>
  BY <1>0, RunIs
<1> HIDE DEF left, right, both, T
<1>4. /\ left \o right \in Seq(T) /\ Len(left \o right) = m + k
      /\ \A i \in 1..(m + k) : (left \o right)[i] = IF i <= m THEN left[i] ELSE right[i - m]
  BY <1>1, <1>2, ConcatProperties
<1>5. ASSUME NEW i \in 1..(m + k) PROVE (left \o right)[i] = both[i]
  <2>1. CASE i <= m
    <3>1. i \in 1..m
      BY <2>1
    <3> QED BY <1>1, <1>3, <1>4, <2>1, <3>1
  <2>2. CASE ~(i <= m)
    <3>1. i - m \in 1..k /\ (a + m) + (i - m) - 1 = a + i - 1
      BY <2>2
    <3>2. right[i - m] = <<s, (a + m) + (i - m) - 1>>
      BY <1>2, <3>1
    <3>3. (left \o right)[i] = right[i - m]
      BY <1>4, <2>2
    <3> QED BY <1>3, <3>1, <3>2, <3>3
  <2> QED BY <2>1, <2>2
<1>6. left \o right = both
  BY <1>3, <1>4, <1>5, SeqEqual
<1> QED BY <1>6 DEF left, right, both

\* A part of a run is a run.
LEMMA PartOfRun ==
    ASSUME NEW s, NEW a \in Int, NEW m \in Nat, NEW x \in 1..(m + 1), NEW y \in 0..m, x <= y + 1
    PROVE  SubSeq(Run(s, a, m), x, y) = Run(s, a + x - 1, y - x + 1)
<1> DEFINE T == {s} \X Int
           z == y - x + 1
           whole == Run(s, a, m)
           part == Run(s, a + x - 1, z)
           cut == SubSeq(whole, x, y)
<1>0. a + x - 1 \in Int /\ z \in Nat /\ z = y - x + 1
  OBVIOUS
<1> HIDE DEF z
<1>1. whole \in Seq(T) /\ Len(whole) = m /\ \A i \in 1..m : whole[i] = <<s, a + i - 1>>
  BY RunIs
<1>2. /\ part \in Seq(T) /\ Len(part) = z
      /\ \A i \in 1..z : part[i] = <<s, (a + x - 1) + i - 1>>
  BY <1>0, RunIs
<1> HIDE DEF whole, part, T
<1>3. /\ cut \in Seq(T) /\ Len(cut) = z
      /\ \A i \in 1..z : cut[i] = whole[x + i - 1]
  BY <1>0, <1>1
<1> HIDE DEF cut
<1>4. ASSUME NEW i \in 1..z PROVE cut[i] = part[i]
  <2>1. x + i - 1 \in 1..m /\ a + (x + i - 1) - 1 = (a + x - 1) + i - 1
    BY <1>0
  <2>2. whole[x + i - 1] = <<s, a + (x + i - 1) - 1>>
    BY <1>1, <2>1
  <2> QED BY <1>2, <1>3, <2>1, <2>2
<1>5. cut = part
  BY <1>2, <1>3, <1>4, SeqEqual
<1> QED BY <1>0, <1>5 DEF whole, part, cut

\* The smaller and the greater of two numbers.
LEMMA GridMin ==
    ASSUME NEW a \in Int, NEW b \in Int
    PROVE  Gr!Min({a, b}) = IF a <= b THEN a ELSE b
<1>1. \E x \in {a, b} : \A y \in {a, b} : x <= y
  OBVIOUS
<1> QED BY <1>1 DEF Gr!Min

LEMMA GridMax ==
    ASSUME NEW a \in Int, NEW b \in Int
    PROVE  Gr!Max({a, b}) = IF a >= b THEN a ELSE b
<1>1. \E x \in {a, b} : \A y \in {a, b} : x >= y
  OBVIOUS
<1> QED BY <1>1 DEF Gr!Max

\* The first and the last rows of a run.
LEMMA FirstOfRun ==
    ASSUME NEW s, NEW a \in Int, NEW m \in Nat, NEW k \in Nat
    PROVE  Gr!FirstN(Run(s, a, m), k) = Run(s, a, IF k <= m THEN k ELSE m)
<1>1. Len(Run(s, a, m)) = m
  BY RunIs
<1>2. Gr!Min({k, m}) = IF k <= m THEN k ELSE m
  BY GridMin
<1> DEFINE y == IF k <= m THEN k ELSE m
<1>3. y \in 0..m /\ 1 \in 1..(m + 1) /\ 1 <= y + 1 /\ a + 1 - 1 = a /\ y - 1 + 1 = y
  OBVIOUS
<1>4. Gr!FirstN(Run(s, a, m), k) = SubSeq(Run(s, a, m), 1, y)
  BY <1>1, <1>2 DEF Gr!FirstN
<1> HIDE DEF y
<1>5. SubSeq(Run(s, a, m), 1, y) = Run(s, a + 1 - 1, y - 1 + 1)
  BY <1>3, PartOfRun
<1>6. Gr!FirstN(Run(s, a, m), k) = Run(s, a, y)
  BY <1>3, <1>4, <1>5
<1> QED BY <1>6 DEF y

LEMMA LastOfRun ==
    ASSUME NEW s, NEW a \in Int, NEW m \in Nat, NEW k \in Nat
    PROVE  Gr!LastN(Run(s, a, m), k) = IF k <= m THEN Run(s, a + (m - k), k) ELSE Run(s, a, m)
<1>1. Len(Run(s, a, m)) = m
  BY RunIs
<1> DEFINE x == IF m - k >= 0 THEN m - k ELSE 0
<1>2. Gr!Max({m - k, 0}) = x
  BY GridMax
<1>3. x + 1 \in 1..(m + 1) /\ m \in 0..m /\ x + 1 <= m + 1 /\ a + (x + 1) - 1 = a + x
      /\ m - (x + 1) + 1 = m - x
  OBVIOUS
<1>4. Gr!LastN(Run(s, a, m), k) = SubSeq(Run(s, a, m), x + 1, m)
  BY <1>1, <1>2 DEF Gr!LastN
<1>5. x = IF k <= m THEN m - k ELSE 0
  OBVIOUS
<1> HIDE DEF x
<1>6. SubSeq(Run(s, a, m), x + 1, m) = Run(s, a + (x + 1) - 1, m - (x + 1) + 1)
  BY <1>3, PartOfRun
<1>7. Gr!LastN(Run(s, a, m), k) = Run(s, a + x, m - x)
  BY <1>3, <1>4, <1>6
<1>8. CASE k <= m
  <2>1. x = m - k /\ m - x = k
    BY <1>5, <1>8
  <2> QED BY <1>7, <1>8, <2>1
<1>9. CASE ~(k <= m)
  <2>1. a + x = a /\ m - x = m
    BY <1>5, <1>9
  <2> QED BY <1>7, <1>9, <2>1
<1> QED BY <1>8, <1>9

\* A buffer holds one run of rows, in place, within the total; while it holds
\* any it holds a page of them.
BufferInOrder(b, n, s) ==
    /\ b.startPos \in Nat /\ Len(b.rows) \in Nat
    /\ b.rows = Run(s, b.startPos, Len(b.rows))
    /\ b.startPos + Len(b.rows) <= n
    /\ Len(b.rows) = 0 => b.startPos = 0
    /\ Len(b.rows) # 0 => Len(b.rows) >= PageSize

\* What the sizes of a grid are.
LEMMA GridSizes ==
    /\ PageSize \in Nat /\ PageSize >= 1 /\ LargeBufferSize \in Nat /\ PageSize <= LargeBufferSize
    /\ LimitTolerance \in Nat
    /\ \A n \in Totals : n \in Nat /\ n >= PageSize
BY PageAssumption DEF Gr!LiveGridAssumption

\* Where a request for the page at p begins, and how many rows it asks for.
LEMMA FetchIs ==
    ASSUME NEW n \in Totals, NEW s, NEW b, BufferInOrder(b, n, s), NEW p \in 0..(n - PageSize)
    PROVE  LET m == Len(b.rows)
               a == b.startPos
               o == Gr!FetchOffset(b, p)
               z == Gr!FetchSize(b, n, p)
           IN  /\ o \in Nat /\ z \in Nat
               /\ p > a /\ p > a + m => o = p
               /\ p > a /\ p <= a + m => o = a + m
               /\ p <= a /\ p + LargeBufferSize < a => o = p /\ z = LargeBufferSize
               /\ p <= a /\ p + LargeBufferSize >= a =>
                    /\ o = IF a >= LargeBufferSize THEN a - LargeBufferSize ELSE 0
                    /\ a > 0 => z = a - o
               /\ p > a \/ a = 0 => z = IF LargeBufferSize + o <= n THEN LargeBufferSize ELSE n - o
<1> DEFINE m == Len(b.rows)
           a == b.startPos
           L == LargeBufferSize
           o == Gr!FetchOffset(b, p)
           z == Gr!FetchSize(b, n, p)
<1>1. /\ n \in Nat /\ p \in Nat /\ p + PageSize <= n /\ L \in Nat /\ L >= 1 /\ PageSize >= 1
      /\ PageSize \in Nat
  BY GridSizes
<1>2. a \in Nat /\ m \in Nat /\ a + m <= n /\ Gr!EndPos(b) = a + m
  BY DEF BufferInOrder, Gr!EndPos
<1>3. o = IF p > a THEN Gr!Max({p, a + m})
          ELSE IF p + L >= a THEN Gr!Max({a - L, 0}) ELSE p
  BY <1>2 DEF Gr!FetchOffset
<1>4. z = IF o >= a THEN Gr!Min({L + o, n}) - o ELSE Gr!Min({a - o, L})
  BY DEF Gr!FetchSize
<1> HIDE DEF o, z, m, a, L
<1>5. /\ Gr!Max({p, a + m}) = IF p >= a + m THEN p ELSE a + m
      /\ Gr!Max({a - L, 0}) = IF a - L >= 0 THEN a - L ELSE 0
  BY <1>1, <1>2, GridMax
<1>6. o = IF p > a THEN (IF p >= a + m THEN p ELSE a + m)
          ELSE IF p + L >= a THEN (IF a - L >= 0 THEN a - L ELSE 0) ELSE p
  BY <1>3, <1>5
<1>7. o \in Nat /\ o <= n
  BY <1>1, <1>2, <1>6
<1>8. /\ Gr!Min({L + o, n}) = IF L + o <= n THEN L + o ELSE n
      /\ Gr!Min({a - o, L}) = IF a - o <= L THEN a - o ELSE L
  BY <1>1, <1>2, <1>7, GridMin
<1>9. z = IF o >= a THEN (IF L + o <= n THEN L ELSE n - o) ELSE (IF a - o <= L THEN a - o ELSE L)
  BY <1>1, <1>2, <1>4, <1>7, <1>8
<1>10. z \in Nat
  BY <1>1, <1>2, <1>7, <1>9
<1>11. /\ p > a /\ p > a + m => o = p
       /\ p > a /\ p <= a + m => o = a + m
       /\ p <= a /\ p + L < a => o = p /\ z = L
  BY <1>1, <1>2, <1>6, <1>9
<1>12. p <= a /\ p + L >= a => (o = IF a >= L THEN a - L ELSE 0) /\ (a > 0 => z = a - o)
  BY <1>1, <1>2, <1>6, <1>9
<1>13. p > a \/ a = 0 => z = IF L + o <= n THEN L ELSE n - o
  BY <1>1, <1>2, <1>6, <1>9
<1> QED BY <1>7, <1>10, <1>11, <1>12, <1>13 DEF o, z, m, a, L

\* A buffer given by its run is in order when the run is.
LEMMA OrderOf ==
    ASSUME NEW n \in Totals, NEW s, NEW c \in Nat, NEW k \in Nat, c + k <= n, k >= PageSize,
           NEW b, b = [startPos |-> c, rows |-> Run(s, c, k)]
    PROVE  /\ BufferInOrder(b, n, s) /\ b.startPos = c /\ Len(b.rows) = k
           /\ \A p \in Int : Gr!InRange(b, p) <=> p >= c /\ p + PageSize <= c + k
<1>1. c \in Int /\ Len(Run(s, c, k)) = k
  <2>1. c \in Int
    OBVIOUS
  <2> QED BY <2>1, RunIs
<1>2. k # 0
  BY GridSizes
<1>3. b.startPos = c /\ b.rows = Run(s, c, k)
  OBVIOUS
<1> QED BY <1>1, <1>2, <1>3 DEF BufferInOrder, Gr!InRange, Gr!EndPos

\* update() with the answer to the request for the page at p.
LEMMA UpdateKeepsOrder ==
    ASSUME NEW n \in Totals, NEW s, NEW b, BufferInOrder(b, n, s), NEW p \in 0..(n - PageSize),
           NEW new, new = Run(s, Gr!FetchOffset(b, p), Gr!FetchSize(b, n, p)),
           NEW c, c = Gr!BufferUpdate(b, new, Gr!FetchOffset(b, p))
    PROVE  /\ BufferInOrder(c, n, s)
           /\ ~Gr!InRange(b, p) => Gr!InRange(c, p)
<1> DEFINE m == Len(b.rows)
           a == b.startPos
           L == LargeBufferSize
           o == Gr!FetchOffset(b, p)
           z == Gr!FetchSize(b, n, p)
           after == b.rows \o new
           front == Gr!FirstN(new, a)
           before == front \o b.rows
<1>1. /\ n \in Nat /\ p \in Nat /\ p + PageSize <= n /\ L \in Nat /\ L >= 1 /\ PageSize >= 1
      /\ PageSize \in Nat /\ PageSize <= L
  BY GridSizes
<1>2. /\ a \in Nat /\ m \in Nat /\ a + m <= n /\ Gr!EndPos(b) = a + m
      /\ b.rows = Run(s, a, m)
      /\ m = 0 => a = 0
      /\ m # 0 => m >= PageSize
  BY DEF BufferInOrder, Gr!EndPos
<1>3. /\ o \in Nat /\ z \in Nat
      /\ p > a /\ p > a + m => o = p
      /\ p > a /\ p <= a + m => o = a + m
      /\ p <= a /\ p + L < a => o = p /\ z = L
      /\ p <= a /\ p + L >= a =>
            /\ o = IF a >= L THEN a - L ELSE 0
            /\ a > 0 => z = a - o
      /\ p > a \/ a = 0 => z = IF L + o <= n THEN L ELSE n - o
  BY FetchIs
<1>4. Len(new) = z /\ new = Run(s, o, z)
  <2>1. o \in Int /\ new = Run(s, o, z)
    BY <1>3
  <2> HIDE DEF o, z
  <2>2. z \in Nat
    BY <1>3
  <2>3. Len(Run(s, o, z)) = z
    BY <2>1, <2>2, RunIs
  <2> QED BY <2>1, <2>3
<1>5. (b.rows = <<>>) <=> (m = 0)
  BY <1>2, RunIs
<1>6. Gr!InRange(b, p) <=> p >= a /\ p + PageSize <= a + m
  BY <1>2 DEF Gr!InRange
<1>7. Gr!MaxBufferSize = 2 * L
  BY DEF Gr!MaxBufferSize
<1>8. c = IF b.rows = <<>> \/ (o > a /\ a + m < o) THEN [startPos |-> o, rows |-> new]
          ELSE IF o > a
          THEN [startPos |-> a + Gr!Max({Len(after) - 2 * L, 0}), rows |-> Gr!LastN(after, 2 * L)]
          ELSE [startPos |-> o,
                rows |-> IF o + Len(new) < a THEN new ELSE Gr!FirstN(before, 2 * L)]
  BY <1>2, <1>7 DEF Gr!BufferUpdate
<1> HIDE DEF m, a, L, o, z
<1>10. CASE m = 0
  <2>1. c = [startPos |-> o, rows |-> Run(s, o, z)]
    BY <1>4, <1>5, <1>8, <1>10
  <2>2. a = 0 /\ o = p /\ z >= PageSize /\ o + z <= n
    BY <1>1, <1>2, <1>3, <1>10
  <2> QED BY <1>1, <1>3, <2>1, <2>2, OrderOf
<1>20. CASE m # 0 /\ p > a /\ p > a + m
  <2>1. o = p /\ o > a /\ a + m < o /\ z >= PageSize /\ o + z <= n
    BY <1>1, <1>2, <1>3, <1>20
  <2>2. c = [startPos |-> o, rows |-> Run(s, o, z)]
    BY <1>4, <1>8, <2>1
  <2> QED BY <1>1, <1>3, <2>1, <2>2, OrderOf
<1>30. CASE m # 0 /\ p > a /\ p <= a + m
  <2>1. o = a + m /\ o > a /\ ~(a + m < o) /\ a + m + z <= n /\ m >= PageSize
        /\ z = IF L + o <= n THEN L ELSE n - o
    BY <1>1, <1>2, <1>3, <1>30
  <2>2. after = Run(s, a, m + z) /\ Len(after) = m + z
    <3>2. a \in Int /\ m + z \in Nat
      BY <1>2, <1>3
    <3>1. Run(s, a, m) \o Run(s, a + m, z) = Run(s, a, m + z)
      BY <1>2, <1>3, <3>2, RunsJoin
    <3>3. Len(Run(s, a, m + z)) = m + z
      BY <3>2, RunIs
    <3> QED BY <1>2, <1>4, <2>1, <3>1, <3>3
  <2>3. c = [startPos |-> a + Gr!Max({(m + z) - 2 * L, 0}), rows |-> Gr!LastN(after, 2 * L)]
    BY <1>5, <1>8, <1>30, <2>1, <2>2
  <2>4. Gr!Max({(m + z) - 2 * L, 0}) = IF (m + z) - 2 * L >= 0 THEN (m + z) - 2 * L ELSE 0
    BY <1>1, <1>2, <1>3, GridMax
  <2>5. Gr!LastN(after, 2 * L)
            = IF 2 * L <= m + z THEN Run(s, a + ((m + z) - 2 * L), 2 * L) ELSE Run(s, a, m + z)
    <3>1. a \in Int /\ m + z \in Nat /\ 2 * L \in Nat
      BY <1>1, <1>2, <1>3
    <3> QED BY <2>2, <3>1, LastOfRun
  <2>6. CASE 2 * L <= m + z
    <3> DEFINE from == a + ((m + z) - 2 * L)
               size == 2 * L
    <3>1. c = [startPos |-> from, rows |-> Run(s, from, size)]
      BY <1>1, <1>2, <1>3, <2>3, <2>4, <2>5, <2>6
    <3>2. from \in Nat /\ size \in Nat /\ size >= PageSize /\ from + size <= n
      BY <1>1, <1>2, <1>3, <2>1, <2>6
    <3>3. ~Gr!InRange(b, p) => p >= from /\ p + PageSize <= from + size
      BY <1>1, <1>2, <1>3, <1>6, <1>30, <2>1, <2>6
    <3> HIDE DEF from, size
    <3>10. BufferInOrder(c, n, s) /\ (Gr!InRange(c, p) <=> p >= from /\ p + PageSize <= from + size)
      <4>1. p \in Int
        BY <1>1
      <4> QED BY <3>1, <3>2, <4>1, OrderOf
    <3> QED BY <3>3, <3>10
  <2>7. CASE ~(2 * L <= m + z)
    <3> DEFINE size == m + z
    <3>1. c = [startPos |-> a, rows |-> Run(s, a, size)]
      BY <1>1, <1>2, <1>3, <2>3, <2>4, <2>5, <2>7
    <3>2. size \in Nat /\ size >= PageSize /\ a + size <= n
      BY <1>1, <1>2, <1>3, <2>1
    <3>3. ~Gr!InRange(b, p) => p >= a /\ p + PageSize <= a + size
      BY <1>1, <1>2, <1>3, <1>6, <1>30, <2>1
    <3> HIDE DEF size
    <3> QED BY <1>1, <1>2, <3>1, <3>2, <3>3, OrderOf
  <2> QED BY <2>6, <2>7
<1>40. CASE m # 0 /\ p <= a
  <2>1. o <= a /\ m >= PageSize
    BY <1>1, <1>2, <1>3, <1>40
  <2>2. c = [startPos |-> o,
             rows |-> IF o + z < a THEN new ELSE Gr!FirstN(before, 2 * L)]
    BY <1>2, <1>3, <1>4, <1>5, <1>8, <1>40, <2>1
  <2>3. CASE p + L < a
    <3>1. o = p /\ z = L /\ o + z < a
      BY <1>3, <1>40, <2>3
    <3>2. c = [startPos |-> o, rows |-> Run(s, o, z)]
      BY <1>4, <2>2, <3>1
    <3>3. z >= PageSize /\ o + z <= n
      BY <1>1, <1>2, <3>1
    <3> QED BY <1>1, <1>3, <3>1, <3>2, <3>3, OrderOf
  <2>4. CASE ~(p + L < a)
    <3> DEFINE joined == a - o
    <3>1. joined \in Nat /\ o + joined = a /\ ~(o + z < a) /\ joined <= L
      BY <1>1, <1>2, <1>3, <1>40, <2>1, <2>4
    <3>2. front = Run(s, o, joined)
      <4>1. front = Run(s, o, IF a <= z THEN a ELSE z)
        BY <1>2, <1>3, <1>4, FirstOfRun
      <4>2. CASE a > 0
        <5>1. z = a - o /\ z <= a
          BY <1>1, <1>2, <1>3, <1>40, <2>4, <4>2
        <5>2. (IF a <= z THEN a ELSE z) = joined
          BY <1>2, <1>3, <5>1
        <5> QED BY <4>1, <5>2
      <4>3. CASE a = 0
        <5>1. o = 0 /\ joined = 0 /\ (IF a <= z THEN a ELSE z) = 0
          BY <1>2, <1>3, <2>1, <4>3
        <5> QED BY <4>1, <5>1
      <4> QED BY <1>2, <4>2, <4>3
    <3>3. before = Run(s, o, joined + m)
      <4> HIDE DEF joined
      <4>0. o \in Int
        BY <1>3
      <4>1. Run(s, o, joined) \o Run(s, o + joined, m) = Run(s, o, joined + m)
        BY <1>2, <3>1, <4>0, RunsJoin
      <4> QED BY <1>2, <3>1, <3>2, <4>1
    <3> DEFINE size == IF 2 * L <= joined + m THEN 2 * L ELSE joined + m
    <3>4. c = [startPos |-> o, rows |-> Run(s, o, size)]
      <4>1. o \in Int /\ joined + m \in Nat /\ 2 * L \in Nat
        BY <1>1, <1>2, <1>3, <3>1
      <4> HIDE DEF joined
      <4>2. Gr!FirstN(before, 2 * L) = Run(s, o, size)
        BY <3>3, <4>1, FirstOfRun
      <4> QED BY <2>2, <3>1, <4>2
    <3>5. size \in Nat /\ size >= PageSize /\ o + size <= n
      BY <1>1, <1>2, <1>3, <2>1, <3>1
    <3>6. ~Gr!InRange(b, p) => p >= o /\ p + PageSize <= o + size
      BY <1>1, <1>2, <1>3, <1>6, <1>40, <2>1, <2>4, <3>1
    <3> HIDE DEF size, joined
    <3>10. BufferInOrder(c, n, s) /\ (Gr!InRange(c, p) <=> p >= o /\ p + PageSize <= o + size)
      <4>1. p \in Int /\ o \in Nat
        BY <1>1, <1>3
      <4> QED BY <3>4, <3>5, <4>1, OrderOf
    <3> QED BY <3>6, <3>10
  <2> QED BY <2>3, <2>4
<1> QED BY <1>2, <1>10, <1>20, <1>30, <1>40

----------------------------------------------------------------------------
(* The view. *)

\* The fields of the view port.
ViewShape(v) ==
    /\ v = [rows |-> v.rows, lastRowPos |-> v.lastRowPos, isBlank |-> v.isBlank,
            isPartialBlank |-> v.isPartialBlank, offset |-> v.offset]
    /\ v.lastRowPos \in Int /\ v.offset \in Int
    /\ v.isBlank \in BOOLEAN /\ v.isPartialBlank \in BOOLEAN

\* A row on view belongs in its place, and a view that is filled has all.
ViewInOrder(v, s) ==
    /\ \A k \in 0..PageSize :
            v.rows[k] \in {Blank, <<s, (IF v.lastRowPos = -1 THEN 0 ELSE v.lastRowPos) + k>>}
    /\ ~v.isBlank /\ ~v.isPartialBlank /\ v.lastRowPos # -1 =>
            \A k \in 0..PageSize : v.rows[k] = <<s, v.lastRowPos + k>>

\* The page at p is on view.
Filled(v, s, p) == \A k \in 0..(PageSize - 1) : v.rows[k] = <<s, p + k>>

\* refreshContents() leaves the offset alone.
LEMMA RefreshShape ==
    ASSUME NEW v, ViewShape(v), NEW b, NEW p \in Int
    PROVE  ViewShape(Gr!RefreshContents(v, b, p)) /\ Gr!RefreshContents(v, b, p).offset = v.offset
<1> DEFINE n == Gr!Min({Gr!EndPos(b), p + PageSize + 1}) - Gr!Max({b.startPos, p})
           w == Gr!RefreshContents(v, b, p)
<1>1. \/ w = v
      \/ w = [v EXCEPT !.rows = Gr!BlankRows, !.isBlank = TRUE]
      \/ \E rows : w = [v EXCEPT !.rows = rows, !.isBlank = FALSE,
                                 !.isPartialBlank = n < PageSize + 1, !.lastRowPos = p]
  BY Zenon DEF Gr!RefreshContents
<1>2. (n < PageSize + 1) \in BOOLEAN
  OBVIOUS
<1> HIDE DEF n, w
<1>3. CASE w = v
  BY <1>3 DEF w
<1>4. CASE w = [v EXCEPT !.rows = Gr!BlankRows, !.isBlank = TRUE]
  <2>1. w = [rows |-> Gr!BlankRows, lastRowPos |-> v.lastRowPos, isBlank |-> TRUE,
             isPartialBlank |-> v.isPartialBlank, offset |-> v.offset]
    BY <1>4 DEF ViewShape
  <2> QED BY <2>1 DEF ViewShape, w
<1>5. CASE \E rows : w = [v EXCEPT !.rows = rows, !.isBlank = FALSE,
                                   !.isPartialBlank = n < PageSize + 1, !.lastRowPos = p]
  <2>1. PICK rows : w = [v EXCEPT !.rows = rows, !.isBlank = FALSE,
                                  !.isPartialBlank = n < PageSize + 1, !.lastRowPos = p]
    BY <1>5
  <2>2. w = [rows |-> rows, lastRowPos |-> p, isBlank |-> FALSE,
             isPartialBlank |-> n < PageSize + 1, offset |-> v.offset]
    BY <2>1 DEF ViewShape
  <2> QED BY <1>2, <2>2 DEF ViewShape, w
<1> QED BY <1>1, <1>3, <1>4, <1>5

\* refreshContents() of a buffer in order.
LEMMA RefreshKeepsOrder ==
    ASSUME NEW n \in Totals, NEW s, NEW b, BufferInOrder(b, n, s), NEW p \in 0..(n - PageSize),
           NEW v, ViewShape(v), ViewInOrder(v, s),
           NEW w, w = Gr!RefreshContents(v, b, p)
    PROVE  ViewInOrder(w, s) /\ (Gr!InRange(b, p) => Filled(w, s, p))
<1> DEFINE P == PageSize
           m == Len(b.rows)
           a == b.startPos
           from == Gr!Max({a, p})
           h == Gr!Min({Gr!EndPos(b), p + P + 1}) - from
           first == IF a > p THEN P + 1 - h ELSE 0
           rows == [k \in 0..P |-> IF k \in first..(first + h - 1)
                                   THEN b.rows[from - a + k - first + 1] ELSE Blank]
<1>1. n \in Nat /\ p \in Nat /\ p + P <= n /\ P \in Nat /\ P >= 1
  BY GridSizes
<1>2. /\ a \in Nat /\ m \in Nat /\ a + m <= n /\ Gr!EndPos(b) = a + m
      /\ b.rows = Run(s, a, m)
      /\ m = 0 => a = 0
      /\ m # 0 => m >= P
  BY DEF BufferInOrder, Gr!EndPos
<1>3. (b.rows = <<>>) <=> (m = 0)
  BY <1>2, RunIs
<1>4. Gr!InRange(b, p) <=> p >= a /\ p + P <= a + m
  BY <1>2 DEF Gr!InRange
<1>5. /\ from = IF a >= p THEN a ELSE p
      /\ h = (IF a + m <= p + P + 1 THEN a + m ELSE p + P + 1) - from
  BY <1>1, <1>2, GridMax, GridMin
<1>6. w = IF p = v.lastRowPos /\ ~v.isPartialBlank /\ ~v.isBlank THEN v
          ELSE IF h < 0 \/ b.rows = <<>> THEN [v EXCEPT !.rows = Gr!BlankRows, !.isBlank = TRUE]
          ELSE [v EXCEPT !.rows = rows, !.isBlank = FALSE,
                         !.isPartialBlank = h < P + 1, !.lastRowPos = p]
  BY DEF Gr!RefreshContents, Gr!Slots
<1> HIDE DEF h, from, P, m, a
<1>10. CASE p = v.lastRowPos /\ ~v.isPartialBlank /\ ~v.isBlank
  <2>1. w = v
    BY <1>6, <1>10
  <2>2. v.lastRowPos # -1
    BY <1>1, <1>10
  <2>3. \A k \in 0..PageSize : v.rows[k] = <<s, p + k>>
    BY <1>10, <2>2 DEF ViewInOrder
  <2> QED BY <1>1, <2>1, <2>3 DEF Filled, P
<1>20. CASE ~(p = v.lastRowPos /\ ~v.isPartialBlank /\ ~v.isBlank) /\ (h < 0 \/ b.rows = <<>>)
  <2>1. w = [v EXCEPT !.rows = Gr!BlankRows, !.isBlank = TRUE]
    BY <1>6, <1>20
  <2>2. w = [rows |-> Gr!BlankRows, lastRowPos |-> v.lastRowPos, isBlank |-> TRUE,
             isPartialBlank |-> v.isPartialBlank, offset |-> v.offset]
    BY <2>1 DEF ViewShape
  <2>3. \A k \in 0..PageSize : w.rows[k] = Blank
    BY <2>2 DEF Gr!BlankRows, Gr!Slots
  <2>4. ~Gr!InRange(b, p)
    BY <1>1, <1>2, <1>3, <1>4, <1>5, <1>20
  <2> QED BY <2>2, <2>3, <2>4 DEF ViewInOrder
<1>30. CASE ~(p = v.lastRowPos /\ ~v.isPartialBlank /\ ~v.isBlank) /\ ~(h < 0 \/ b.rows = <<>>)
  <2>1. w = [v EXCEPT !.rows = rows, !.isBlank = FALSE,
                      !.isPartialBlank = h < P + 1, !.lastRowPos = p]
    BY <1>6, <1>30
  <2> HIDE DEF rows
  <2>2. w = [rows |-> rows, lastRowPos |-> p, isBlank |-> FALSE,
             isPartialBlank |-> h < P + 1, offset |-> v.offset]
    BY <2>1 DEF ViewShape
  <2>3. m # 0 /\ m >= P /\ h >= 0 /\ h \in Int /\ from \in Int
    BY <1>1, <1>2, <1>3, <1>5, <1>30
  <2>4. first \in Nat /\ from - first = p
    BY <1>1, <1>2, <1>5, <2>3
  <2>5. ASSUME NEW k \in 0..P, k \in first..(first + h - 1)
        PROVE  rows[k] = <<s, p + k>>
    <3>1. rows[k] = b.rows[from - a + k - first + 1]
      BY <2>5 DEF rows
    <3>2. from - a + k - first + 1 \in 1..m
      BY <1>1, <1>2, <1>5, <2>3, <2>4, <2>5
    <3>3. a + (from - a + k - first + 1) - 1 = p + k
      BY <1>1, <1>2, <2>3, <2>4
    <3> HIDE DEF first
    <3>4. \A i \in 1..m : Run(s, a, m)[i] = <<s, a + i - 1>>
      <4>1. a \in Int
        BY <1>2
      <4> QED BY <1>2, <4>1, RunIs
    <3> QED BY <1>2, <3>1, <3>2, <3>3, <3>4
  <2>6. ASSUME NEW k \in 0..P, k \notin first..(first + h - 1)
        PROVE  rows[k] = Blank
    BY <2>6 DEF rows
  <2>7. \A k \in 0..P : rows[k] \in {Blank, <<s, p + k>>}
    BY <2>5, <2>6
  <2>8. ~(h < P + 1) => \A k \in 0..P : rows[k] = <<s, p + k>>
    <3>1. ASSUME ~(h < P + 1), NEW k \in 0..P PROVE k \in first..(first + h - 1)
      BY <1>1, <1>2, <1>5, <2>3, <2>4, <3>1
    <3> HIDE DEF first
    <3> QED BY <2>5, <3>1
  <2>9. Gr!InRange(b, p) => \A k \in 0..(P - 1) : rows[k] = <<s, p + k>>
    <3>1. ASSUME Gr!InRange(b, p), NEW k \in 0..(P - 1)
          PROVE  k \in 0..P /\ k \in first..(first + h - 1)
      BY <1>1, <1>2, <1>4, <1>5, <2>3, <2>4, <3>1
    <3> HIDE DEF first
    <3> QED BY <2>5, <3>1
  <2>10. p # -1 /\ w.rows = rows /\ w.lastRowPos = p /\ w.isPartialBlank = (h < P + 1)
    BY <1>1, <2>2
  <2>11. ViewInOrder(w, s)
    BY <2>7, <2>8, <2>10 DEF ViewInOrder, P
  <2> QED BY <2>9, <2>10, <2>11 DEF Filled, P
<1> QED BY <1>10, <1>20, <1>30

----------------------------------------------------------------------------
(* The grid. *)

\* The bar and the view are at pages, at the same one once the scroll event is
\* handled; nothing is remembered while no request is processed.
GridPlaces ==
    /\ total \in Totals /\ {mixed, unfilled, scrollEvent} \subseteq BOOLEAN
    /\ ViewShape(view)
    /\ scrollTop \in 0..(total - PageSize) /\ view.offset \in 0..(total - PageSize)
    /\ ~scrollEvent => view.offset = scrollTop
    /\ unprocessed \in {None} \cup Nat
    /\ processing = None => unprocessed = None

\* The one request under way is the one for the page at p.
AskedFor(b, n, s, p) ==
    /\ processing = [offset |-> p, bufferOffset |-> Gr!FetchOffset(b, p)]
    /\ flights = {[start |-> Gr!FetchOffset(b, p), size |-> Gr!FetchSize(b, n, p), sort |-> s]}

Asked == \E p \in 0..(total - PageSize) : AskedFor(buffer, total, sort, p)

\* Why the page scrolled to is on view, or will be.
Settles ==
    \/ Gr!InRange(buffer, scrollTop)
    \/ processing # None /\ unprocessed = scrollTop
    \/ flights # {} /\ processing.offset = scrollTop
    \/ flights = {} /\ processing = None /\ Filled(view, sort, scrollTop)

\* Rows are in order unless an answer may be taken for another.
GridOrder ==
    ~mixed =>
        /\ BufferInOrder(buffer, total, sort) /\ ViewInOrder(view, sort)
        /\ Gr!InRange(buffer, view.offset) => Filled(view, sort, view.offset)
        /\ unprocessed \in {None} \cup 0..(total - PageSize)
        /\ flights # {} => Asked
        /\ ~unfilled /\ ~scrollEvent => Settles

GridInv == GridPlaces /\ GridOrder

\* What the runs check follows.
LEMMA GridFacts ==
    ASSUME GridInv
    PROVE  Gr!RowsAreRight /\ Gr!SettledIsFilled
<1>1. Gr!RowsAreRight
  <2> SUFFICES ASSUME ~mixed PROVE
            /\ \A i \in DOMAIN buffer.rows : buffer.rows[i] = <<sort, buffer.startPos + i - 1>>
            /\ \A k \in Gr!Slots : view.rows[k] \in {Blank, <<sort, Gr!ShownFrom + k>>}
    BY DEF Gr!RowsAreRight
  <2>1. BufferInOrder(buffer, total, sort) /\ ViewInOrder(view, sort)
    BY DEF GridInv, GridOrder
  <2>2. \A i \in DOMAIN buffer.rows : buffer.rows[i] = <<sort, buffer.startPos + i - 1>>
    <3> DEFINE m == Len(buffer.rows)
               a == buffer.startPos
    <3>1. a \in Int /\ m \in Nat /\ buffer.rows = Run(sort, a, m)
      BY <2>1 DEF BufferInOrder
    <3> HIDE DEF a, m
    <3>2. DOMAIN buffer.rows = 1..m
      BY <3>1 DEF Run
    <3>3. \A i \in 1..m : Run(sort, a, m)[i] = <<sort, a + i - 1>>
      BY <3>1, RunIs
    <3> QED BY <3>1, <3>2, <3>3 DEF a
  <2>3. \A k \in Gr!Slots : view.rows[k] \in {Blank, <<sort, Gr!ShownFrom + k>>}
    BY <2>1 DEF ViewInOrder, Gr!Slots, Gr!ShownFrom
  <2> QED BY <2>2, <2>3
<1>2. Gr!SettledIsFilled
  <2> SUFFICES ASSUME flights = {}, processing = None, ~scrollEvent, ~mixed, ~unfilled
               PROVE  view.offset = scrollTop /\ Filled(view, sort, scrollTop)
    BY DEF Gr!SettledIsFilled, Filled
  <2>1. view.offset = scrollTop /\ Settles
    BY DEF GridInv, GridPlaces, GridOrder
  <2>2. Gr!InRange(buffer, view.offset) => Filled(view, sort, view.offset)
    BY DEF GridInv, GridOrder
  <2> QED BY <2>1, <2>2, Zenon DEF Settles
<1> QED BY <1>1, <1>2

\* An empty buffer is in order and has no page.
LEMMA EmptyInOrder ==
    ASSUME NEW n \in Totals, NEW s, NEW b, b = [startPos |-> 0, rows |-> <<>>]
    PROVE  BufferInOrder(b, n, s) /\ \A p \in Nat : ~Gr!InRange(b, p)
<1>1. b.startPos = 0 /\ b.rows = <<>> /\ Len(b.rows) = 0
  OBVIOUS
<1>2. Run(s, 0, 0) = <<>>
  <2>1. ASSUME NEW a \in Int, NEW m \in Nat, m = 0 PROVE Run(s, a, m) = <<>>
    BY <2>1, RunIs
  <2> QED BY <2>1
<1>3. n \in Nat /\ PageSize \in Nat /\ PageSize >= 1
  BY GridSizes
<1> QED BY <1>1, <1>2, <1>3 DEF BufferInOrder, Gr!InRange, Gr!EndPos

LEMMA GridInitInv == Gr!Init => GridInv
<1> SUFFICES ASSUME Gr!Init PROVE GridInv
  OBVIOUS
<1>1. total \in Totals /\ buffer = [startPos |-> 0, rows |-> <<>>]
  BY DEF Gr!Init
<1>2. total \in Nat /\ total >= PageSize /\ PageSize \in Nat /\ PageSize >= 1
  BY <1>1, GridSizes
<1>3. BufferInOrder(buffer, total, sort) /\ \A p \in Nat : ~Gr!InRange(buffer, p)
  BY <1>1, EmptyInOrder
<1>4. /\ view.rows = [k \in 0..PageSize |-> <<sort, k>>] /\ view.lastRowPos = -1
      /\ view.isBlank = FALSE /\ view.isPartialBlank = FALSE /\ view.offset = 0
      /\ ViewShape(view)
  BY DEF Gr!Init, Gr!Slots, ViewShape
<1>5. \A k \in 0..PageSize : view.rows[k] = <<sort, 0 + k>>
  BY <1>4
<1>6. ViewInOrder(view, sort) /\ Filled(view, sort, 0)
  BY <1>2, <1>4, <1>5 DEF ViewInOrder, Filled
<1>7. /\ scrollTop = 0 /\ scrollEvent = FALSE /\ processing = None /\ unprocessed = None
      /\ flights = {} /\ mixed = FALSE /\ unfilled = FALSE
  BY DEF Gr!Init
<1>8. GridPlaces
  <2>1. scrollTop \in 0..(total - PageSize) /\ view.offset \in 0..(total - PageSize)
    BY <1>2, <1>4, <1>7
  <2>2. ViewShape(view) /\ view.offset = scrollTop
    BY <1>4, <1>7
  <2> QED BY <1>1, <1>7, <2>1, <2>2, Zenon DEF GridPlaces
<1>9. GridOrder
  BY <1>3, <1>4, <1>6, <1>7 DEF GridOrder, Settles
<1> QED BY <1>8, <1>9 DEF GridInv

\* A request for the page at p, or the page in the buffer already.
AsksFor(b, n, s, p) ==
    \/ Gr!InRange(b, p) /\ processing' = None /\ flights' = {}
    \/ /\ processing' # None /\ processing'.offset = p /\ flights' # {}
       /\ processing' = [offset |-> p, bufferOffset |-> Gr!FetchOffset(b, p)]
       /\ flights' = {[start |-> Gr!FetchOffset(b, p), size |-> Gr!FetchSize(b, n, p), sort |-> s]}

\* fetchBuffer() with no request under way.
LEMMA FetchAsks ==
    ASSUME NEW b, NEW n \in Totals, NEW s, BufferInOrder(b, n, s), NEW p \in 0..(n - PageSize),
           Gr!Fetch(b, n, s, p, {})
    PROVE  AsksFor(b, n, s, p)
<1>1. p \in Nat /\ Gr!FetchOffset(b, p) \in Nat
  BY FetchIs, GridSizes
<1>2. [offset |-> p, bufferOffset |-> Gr!FetchOffset(b, p)] \in [offset : Nat, bufferOffset : Nat]
  BY <1>1
<1>3. [offset |-> p, bufferOffset |-> Gr!FetchOffset(b, p)] # None
  BY <1>2, PageAssumption DEF Gr!LiveGridAssumption
<1>4. CASE Gr!Needed(b, n, p)
  <2>1. /\ processing' = [offset |-> p, bufferOffset |-> Gr!FetchOffset(b, p)]
        /\ flights' = {[start |-> Gr!FetchOffset(b, p), size |-> Gr!FetchSize(b, n, p), sort |-> s]}
    BY <1>4, Zenon DEF Gr!Fetch
  <2> QED BY <1>3, <2>1 DEF AsksFor
<1>5. CASE ~Gr!Needed(b, n, p)
  <2>1. processing' = None /\ flights' = {}
    BY <1>5, Zenon DEF Gr!Fetch
  <2>2. Gr!InRange(b, p)
    BY <1>5 DEF Gr!Needed
  <2> QED BY <2>1, <2>2 DEF AsksFor
<1> QED BY <1>4, <1>5

\* A request that is under way is being processed.
LEMMA AskedIsProcessed ==
    ASSUME GridInv, ~mixed, flights # {}
    PROVE  processing # None
<1>1. PICK p \in 0..(total - PageSize) : AskedFor(buffer, total, sort, p)
  BY DEF GridInv, GridOrder, Asked
<1>2. BufferInOrder(buffer, total, sort) /\ total \in Totals
  BY DEF GridInv, GridOrder, GridPlaces
<1>3. p \in Nat /\ Gr!FetchOffset(buffer, p) \in Nat
  BY <1>2, FetchIs, GridSizes
<1>4. processing \in [offset : Nat, bufferOffset : Nat]
  BY <1>1, <1>3 DEF AskedFor
<1> QED BY <1>4, PageAssumption DEF Gr!LiveGridAssumption

\* requestContentRefresh() for a page that is not in the buffer it is asked of.
LEMMA RequestPlaces ==
    ASSUME GridPlaces, NEW b, NEW n, NEW s, NEW p, Gr!RequestContentRefresh(b, n, s, p)
    PROVE  /\ unprocessed' \in {None, unprocessed, p}
           /\ ~Gr!InRange(b, p) => unprocessed' \in {None, p}
           /\ processing' = None => unprocessed' = None
<1>1. CASE processing = None
  <2>1. unprocessed' = unprocessed /\ unprocessed = None
    BY <1>1 DEF Gr!RequestContentRefresh, GridPlaces
  <2> QED BY <2>1
<1>2. CASE processing # None
  <2>1. processing' = processing
    BY <1>2 DEF Gr!RequestContentRefresh, Gr!request
  <2>2. unprocessed' = IF Gr!Needed(b, n, p) THEN p ELSE unprocessed
    BY <1>2 DEF Gr!RequestContentRefresh
  <2>3. ~Gr!InRange(b, p) => unprocessed' = p
    BY <2>2 DEF Gr!Needed
  <2> QED BY <1>2, <2>1, <2>2, <2>3
<1> QED BY <1>1, <1>2

\* requestContentRefresh() in a grid that is not mixed up.
LEMMA RequestAsks ==
    ASSUME GridInv, mixed => flights = {},
           NEW b, NEW n \in Totals, NEW s, BufferInOrder(b, n, s), NEW p \in 0..(n - PageSize),
           Gr!RequestContentRefresh(b, n, s, p)
    PROVE  /\ \/ Gr!InRange(b, p)
              \/ processing' # None /\ unprocessed' = p
              \/ flights' # {} /\ processing'.offset = p
           /\ \/ AsksFor(b, n, s, p)
              \/ processing' = processing /\ flights' = flights
<1>1. CASE processing = None
  <2>1. flights = {}
    BY <1>1, AskedIsProcessed
  <2>2. Gr!Fetch(b, n, s, p, {})
    BY <1>1, <2>1, Zenon DEF Gr!RequestContentRefresh
  <2>3. AsksFor(b, n, s, p)
    BY <2>2, FetchAsks
  <2> QED BY <2>3 DEF AsksFor
<1>2. CASE processing # None
  <2>1. processing' = processing /\ flights' = flights
    BY <1>2 DEF Gr!RequestContentRefresh, Gr!request
  <2>2. unprocessed' = IF Gr!Needed(b, n, p) THEN p ELSE unprocessed
    BY <1>2 DEF Gr!RequestContentRefresh
  <2>3. ~Gr!InRange(b, p) => unprocessed' = p
    BY <2>2 DEF Gr!Needed
  <2> QED BY <1>2, <2>1, <2>3
<1> QED BY <1>1, <1>2

\* scrollTo() of the view port.
LEMMA ScrollToIs ==
    ASSUME NEW n \in Totals, NEW v, ViewShape(v), NEW b, NEW p \in 0..(n - PageSize)
    PROVE  /\ ViewShape(Gr!ViewScrollTo(v, b, p)) /\ Gr!ViewScrollTo(v, b, p).offset = p
           /\ \A s : (/\ BufferInOrder(b, n, s) /\ ViewInOrder(v, s)
                      /\ Gr!InRange(b, v.offset) => Filled(v, s, v.offset))
                     => (/\ ViewInOrder(Gr!ViewScrollTo(v, b, p), s)
                         /\ Gr!InRange(b, p) => Filled(Gr!ViewScrollTo(v, b, p), s, p))
<1> DEFINE w == Gr!ViewScrollTo(v, b, p)
           u == Gr!RefreshContents(v, b, p)
<1>1. p \in Int
  BY GridSizes
<1>2. ViewShape(u)
  BY <1>1, RefreshShape
<1>3. w = IF v.offset = p THEN v ELSE [u EXCEPT !.offset = p]
  BY DEF Gr!ViewScrollTo
<1> HIDE DEF w, u
<1>4. CASE v.offset = p
  BY <1>3, <1>4 DEF w
<1>5. CASE v.offset # p
  <2>1. w = [rows |-> u.rows, lastRowPos |-> u.lastRowPos, isBlank |-> u.isBlank,
             isPartialBlank |-> u.isPartialBlank, offset |-> p]
    BY <1>2, <1>3, <1>5 DEF ViewShape
  <2>2. ViewShape(w) /\ w.offset = p
    BY <1>1, <1>2, <2>1 DEF ViewShape
  <2>3. ASSUME NEW s, BufferInOrder(b, n, s), ViewInOrder(v, s)
        PROVE  ViewInOrder(w, s) /\ (Gr!InRange(b, p) => Filled(w, s, p))
    <3>1. ViewInOrder(u, s) /\ (Gr!InRange(b, p) => Filled(u, s, p))
      BY <2>3, RefreshKeepsOrder DEF u
    <3> QED BY <2>1, <3>1 DEF ViewInOrder, Filled
  <2> QED BY <2>2, <2>3 DEF w
<1> QED BY <1>4, <1>5

\* The steps.
LEMMA MoveBarStep == GridInv /\ Gr!MoveBar => GridInv'
<1> SUFFICES ASSUME GridInv, Gr!MoveBar PROVE GridInv'
  OBVIOUS
<1>1. /\ UNCHANGED <<total, sort, buffer, view, processing, flights, unprocessed, mixed,
                     unfilled>>
      /\ scrollEvent' = TRUE /\ scrollTop' \in 0..(total - PageSize)
  BY DEF Gr!MoveBar, Gr!request, Gr!Positions
<1>2. GridPlaces'
  BY <1>1 DEF GridInv, GridPlaces, ViewShape
<1>3. GridOrder'
  BY <1>1 DEF GridInv, GridOrder, BufferInOrder, ViewInOrder, Filled, Asked, AskedFor
<1> QED BY <1>2, <1>3 DEF GridInv

\* The page scrolled to is asked for, by a scroll event or by the page itself.
LEMMA AskStep ==
    ASSUME GridInv, UNCHANGED <<total, sort, buffer, scrollTop, mixed>>,
           scrollEvent' = FALSE, unfilled' = FALSE,
           Gr!RequestContentRefresh(buffer, total, sort, scrollTop),
           view' = Gr!ViewScrollTo(view, buffer, scrollTop)
    PROVE  GridInv'
<1>2. total \in Totals /\ ViewShape(view) /\ scrollTop \in 0..(total - PageSize)
  BY DEF GridInv, GridPlaces
<1>3. ViewShape(view)' /\ view'.offset = scrollTop
  <2>1. /\ ViewShape(Gr!ViewScrollTo(view, buffer, scrollTop))
        /\ Gr!ViewScrollTo(view, buffer, scrollTop).offset = scrollTop
    BY <1>2, ScrollToIs
  <2> QED BY <2>1 DEF ViewShape
<1>4. unprocessed' \in {None, unprocessed, scrollTop} /\ (processing' = None => unprocessed' = None)
  BY RequestPlaces DEF GridInv
<1>5. GridPlaces'
  <2>1. scrollTop \in Nat
    BY <1>2, GridSizes
  <2>2. unprocessed' \in {None} \cup Nat
    BY <1>4, <2>1 DEF GridInv, GridPlaces
  <2> QED BY <1>2, <1>3, <1>4, <2>2 DEF GridInv, GridPlaces
<1>6. GridOrder'
  <2> SUFFICES ASSUME ~mixed PROVE
        /\ BufferInOrder(buffer, total, sort) /\ ViewInOrder(view', sort)
        /\ Gr!InRange(buffer, scrollTop) => Filled(view', sort, scrollTop)
        /\ unprocessed' \in {None} \cup 0..(total - PageSize)
        /\ flights' # {} => \E p \in 0..(total - PageSize) : AskedFor(buffer, total, sort, p)'
        /\ \/ Gr!InRange(buffer, scrollTop)
           \/ processing' # None /\ unprocessed' = scrollTop
           \/ flights' # {} /\ processing'.offset = scrollTop
    BY <1>3 DEF GridOrder, Settles, Asked, AskedFor, BufferInOrder, ViewInOrder, Filled,
        Gr!InRange, Gr!EndPos
  <2>1. /\ BufferInOrder(buffer, total, sort) /\ ViewInOrder(view, sort)
        /\ Gr!InRange(buffer, view.offset) => Filled(view, sort, view.offset)
        /\ unprocessed \in {None} \cup 0..(total - PageSize)
        /\ flights # {} => Asked
    BY DEF GridInv, GridOrder
  <2>2. /\ ViewInOrder(view', sort)
        /\ Gr!InRange(buffer, scrollTop) => Filled(view', sort, scrollTop)
    BY <1>2, <2>1, ScrollToIs
  <2>3. /\ \/ Gr!InRange(buffer, scrollTop)
           \/ processing' # None /\ unprocessed' = scrollTop
           \/ flights' # {} /\ processing'.offset = scrollTop
        /\ \/ AsksFor(buffer, total, sort, scrollTop)
           \/ processing' = processing /\ flights' = flights
    BY <1>2, <2>1, RequestAsks
  <2>4. flights' # {} => \E p \in 0..(total - PageSize) : AskedFor(buffer, total, sort, p)'
    BY <1>2, <2>1, <2>3 DEF AsksFor, Asked, AskedFor
  <2>5. unprocessed' \in {None} \cup 0..(total - PageSize)
    BY <1>2, <1>4, <2>1
  <2> QED BY <2>1, <2>2, <2>3, <2>4, <2>5
<1> QED BY <1>5, <1>6 DEF GridInv

LEMMA HandleScrollStep == GridInv /\ Gr!HandleScroll => GridInv'
<1> SUFFICES ASSUME GridInv, Gr!HandleScroll PROVE GridInv'
  OBVIOUS
<1> QED BY AskStep DEF Gr!HandleScroll

LEMMA AskAgainStep == GridInv /\ Gr!AskAgain => GridInv'
<1> SUFFICES ASSUME GridInv, Gr!AskAgain PROVE GridInv'
  OBVIOUS
<1>1. /\ UNCHANGED <<total, sort, buffer, scrollTop, mixed>>
      /\ scrollEvent' = FALSE /\ unfilled' = FALSE
      /\ Gr!RequestContentRefresh(buffer, total, sort, scrollTop)
      /\ view' = view /\ ~scrollEvent
  BY DEF Gr!AskAgain, GridInv, GridPlaces
<1>2. view' = Gr!ViewScrollTo(view, buffer, scrollTop)
  BY <1>1 DEF GridInv, GridPlaces, Gr!ViewScrollTo
<1> QED BY <1>1, <1>2, AskStep

\* resetContents().
LEMMA ResetIs ==
    ASSUME GridInv, NEW n \in Totals, Gr!ResetContents
    PROVE  /\ scrollTop' = 0 /\ scrollEvent' \in BOOLEAN /\ buffer' = Gr!EmptyBuffer
           /\ ViewShape(view)' /\ view'.offset = 0 /\ 0 \in 0..(n - PageSize)
           /\ \A s : BufferInOrder(Gr!EmptyBuffer, n, s) /\ ViewInOrder(view', s)
           /\ ~Gr!InRange(Gr!EmptyBuffer, 0)
<1>1. /\ scrollTop' = 0 /\ scrollEvent' = (scrollEvent \/ scrollTop # 0)
      /\ buffer' = Gr!EmptyBuffer
      /\ view' = [view EXCEPT !.rows = Gr!BlankRows, !.isBlank = TRUE, !.offset = 0]
  BY DEF Gr!ResetContents
<1>2. 0 \in 0..(n - PageSize) /\ 0 \in Nat
  BY GridSizes
<1>3. ASSUME NEW s PROVE BufferInOrder(Gr!EmptyBuffer, n, s) /\ ~Gr!InRange(Gr!EmptyBuffer, 0)
  BY <1>2, EmptyInOrder DEF Gr!EmptyBuffer
<1>4. ViewShape(view) /\ scrollEvent \in BOOLEAN
  BY DEF GridInv, GridPlaces
<1>5. view' = [rows |-> Gr!BlankRows, lastRowPos |-> view.lastRowPos, isBlank |-> TRUE,
               isPartialBlank |-> view.isPartialBlank, offset |-> 0]
  BY <1>1, <1>4 DEF ViewShape
<1>6. ViewShape(view)' /\ view'.offset = 0
  BY <1>4, <1>5 DEF ViewShape
<1>7. ASSUME NEW s PROVE ViewInOrder(view', s)
  BY <1>5 DEF ViewInOrder, Gr!BlankRows, Gr!Slots
<1>8. scrollEvent' \in BOOLEAN
  BY <1>1, <1>4, Zenon
<1> QED BY <1>1, <1>2, <1>3, <1>6, <1>7, <1>8

\* After the step, the request under way is the one for the page at p.
WillAskFor(b, n, s, p) ==
    /\ processing' = [offset |-> p, bufferOffset |-> Gr!FetchOffset(b, p)]
    /\ flights' = {[start |-> Gr!FetchOffset(b, p), size |-> Gr!FetchSize(b, n, p), sort |-> s]}

LEMMA SortByStep == GridInv /\ Gr!SortBy => GridInv'
<1> SUFFICES ASSUME GridInv, Gr!SortBy PROVE GridInv'
  OBVIOUS
<1> DEFINE empty == Gr!EmptyBuffer
<1>1. /\ Gr!ResetContents /\ Gr!RequestContentRefresh(empty, total, sort', 0)
      /\ mixed' = (flights # {}) /\ total' = total /\ unfilled' = unfilled
  BY DEF Gr!SortBy
<1> HIDE DEF empty
<1>2. /\ total \in Totals /\ scrollTop' = 0 /\ scrollEvent' \in BOOLEAN /\ buffer' = empty
      /\ ViewShape(view)' /\ view'.offset = 0 /\ 0 \in 0..(total - PageSize)
      /\ BufferInOrder(empty, total, sort') /\ ViewInOrder(view', sort')
      /\ ~Gr!InRange(empty, 0)
  BY <1>1, ResetIs DEF GridInv, GridPlaces, empty
<1>3. unprocessed' \in {None, 0} /\ (processing' = None => unprocessed' = None)
  BY <1>1, <1>2, RequestPlaces DEF GridInv
<1>4. GridPlaces'
  <2>1. mixed' \in BOOLEAN /\ unfilled' \in BOOLEAN
    BY <1>1 DEF GridInv, GridPlaces
  <2>2. unprocessed' \in {None} \cup Nat
    BY <1>3
  <2> QED BY <1>1, <1>2, <1>3, <2>1, <2>2 DEF GridPlaces
<1>5. GridOrder'
  <2> SUFFICES ASSUME ~mixed' PROVE
        /\ flights' # {} => \E p \in 0..(total - PageSize) : WillAskFor(empty, total, sort', p)
        /\ \/ processing' # None /\ unprocessed' = 0
           \/ flights' # {} /\ processing'.offset = 0
    <3>1. unprocessed' \in {None} \cup 0..(total - PageSize)
      BY <1>2, <1>3
    <3> QED BY <1>1, <1>2, <3>1 DEF GridOrder, Settles, Asked, AskedFor, WillAskFor, BufferInOrder,
          ViewInOrder, Filled, Gr!InRange, Gr!EndPos
  <2>1. flights = {}
    BY <1>1
  <2>2. /\ \/ processing' # None /\ unprocessed' = 0
           \/ flights' # {} /\ processing'.offset = 0
        /\ \/ AsksFor(empty, total, sort', 0)
           \/ processing' = processing /\ flights' = flights
    BY <1>1, <1>2, <2>1, RequestAsks
  <2>3. flights' # {} => \E p \in 0..(total - PageSize) : WillAskFor(empty, total, sort', p)
    BY <1>2, <2>1, <2>2 DEF AsksFor, WillAskFor
  <2> QED BY <2>2, <2>3
<1> QED BY <1>4, <1>5 DEF GridInv

LEMMA SetTotalRowsStep == GridInv /\ Gr!SetTotalRows => GridInv'
<1> SUFFICES ASSUME GridInv, Gr!SetTotalRows PROVE GridInv'
  OBVIOUS
<1>1. /\ Gr!ResetContents /\ total' \in Totals /\ sort' = sort
      /\ mixed' = (flights # {} \/ unprocessed # None) /\ unfilled' = TRUE
      /\ UNCHANGED <<processing, flights, unprocessed>>
  BY DEF Gr!SetTotalRows, Gr!request
<1>2. /\ scrollTop' = 0 /\ scrollEvent' \in BOOLEAN /\ buffer' = Gr!EmptyBuffer
      /\ ViewShape(view)' /\ view'.offset = 0 /\ 0 \in 0..(total' - PageSize)
      /\ BufferInOrder(Gr!EmptyBuffer, total', sort') /\ ViewInOrder(view', sort')
      /\ ~Gr!InRange(Gr!EmptyBuffer, 0)
  BY <1>1, ResetIs
<1>3. GridPlaces'
  <2>1. /\ unprocessed' \in {None} \cup Nat /\ (processing' = None => unprocessed' = None)
    BY <1>1 DEF GridInv, GridPlaces
  <2>2. mixed' \in BOOLEAN
    BY <1>1
  <2> QED BY <1>1, <1>2, <2>1, <2>2 DEF GridPlaces
<1>4. GridOrder'
  <2> SUFFICES ASSUME ~mixed' PROVE flights' = {} /\ unprocessed' = None
    BY <1>1, <1>2 DEF GridOrder, BufferInOrder, ViewInOrder, Filled, Gr!InRange, Gr!EndPos
  <2> QED BY <1>1
<1> QED BY <1>3, <1>4 DEF GridInv

\* processQueuedRequest() when no other request is under way.
LEMMA QueueAsks ==
    ASSUME GridInv, ~mixed, NEW b, BufferInOrder(b, total, sort), Gr!ProcessQueuedRequest(b, {})
    PROVE  /\ unprocessed' = None
           /\ \/ unprocessed = None /\ processing' = None /\ flights' = {}
              \/ /\ unprocessed \in 0..(total - PageSize)
                 /\ AsksFor(b, total, sort, unprocessed)
<1>1. unprocessed' = None
  BY DEF Gr!ProcessQueuedRequest
<1>2. CASE unprocessed = None
  BY <1>1, <1>2, Zenon DEF Gr!ProcessQueuedRequest
<1>3. CASE unprocessed # None
  <2>1. unprocessed \in 0..(total - PageSize) /\ total \in Totals
    BY <1>3 DEF GridInv, GridPlaces, GridOrder
  <2>2. Gr!Fetch(b, total, sort, unprocessed, {})
    BY <1>3, Zenon DEF Gr!ProcessQueuedRequest
  <2>3. AsksFor(b, total, sort, unprocessed)
    BY <2>1, <2>2, FetchAsks
  <2> QED BY <1>1, <2>1, <2>3
<1> QED BY <1>2, <1>3

LEMMA AjaxUpdateStep == GridInv /\ Gr!AjaxUpdate => GridInv'
<1> SUFFICES ASSUME GridInv, Gr!AjaxUpdate PROVE GridInv'
  OBVIOUS
<1> DEFINE answer(f) == [i \in 1..f.size |-> <<f.sort, f.start + i - 1>>]
           after(f) == IF processing = None THEN buffer
                       ELSE Gr!BufferUpdate(buffer, answer(f), processing.bufferOffset)
<1>1. PICK f \in flights :
        /\ buffer' = after(f)
        /\ view' = IF processing = None THEN view
                   ELSE Gr!RefreshContents(view, after(f), view.offset)
        /\ Gr!ProcessQueuedRequest(after(f), flights \ {f})
        /\ unfilled' = (unfilled \/ (Gr!InRange(buffer, view.offset) /\ ~Gr!InRange(after(f), view.offset)))
        /\ UNCHANGED <<total, sort, scrollTop, scrollEvent, mixed>>
  BY Zenon DEF Gr!AjaxUpdate
<1> DEFINE b == after(f)
<1>2. /\ total \in Totals /\ ViewShape(view) /\ scrollTop \in 0..(total - PageSize)
      /\ view.offset \in 0..(total - PageSize)
      /\ mixed \in BOOLEAN /\ unfilled \in BOOLEAN /\ scrollEvent \in BOOLEAN
  BY DEF GridInv, GridPlaces
<1>3. total \in Nat /\ PageSize \in Nat /\ view.offset \in Int /\ view.offset \in Nat
  BY <1>2, GridSizes
<1>4. ViewShape(view') /\ view'.offset = view.offset
  <2> HIDE DEF b, after
  <2> QED BY <1>1, <1>2, <1>3, RefreshShape
<1>5. GridPlaces'
  <2>1. unprocessed' = None
    BY <1>1 DEF Gr!ProcessQueuedRequest
  <2>2. ViewShape(view)'
    BY <1>4 DEF ViewShape
  <2>3. unfilled' \in BOOLEAN
    BY <1>1, <1>2, Zenon
  <2>4. total' = total /\ scrollTop' = scrollTop /\ mixed' = mixed /\ scrollEvent' = scrollEvent
    BY <1>1
  <2>5. {mixed', unfilled', scrollEvent'} \subseteq BOOLEAN
    BY <1>2, <2>3, <2>4
  <2>6. /\ view'.offset \in 0..(total' - PageSize) /\ scrollTop' \in 0..(total' - PageSize)
        /\ ~scrollEvent' => view'.offset = scrollTop'
    BY <1>2, <1>4, <2>4 DEF GridInv, GridPlaces
  <2> QED BY <1>2, <2>1, <2>2, <2>4, <2>5, <2>6, Zenon DEF GridPlaces
<1>6. ASSUME ~mixed
      PROVE  /\ BufferInOrder(b, total, sort) /\ ViewInOrder(view', sort)
             /\ Gr!InRange(b, view.offset) => Filled(view', sort, view.offset)
             /\ flights' # {} => \E p \in 0..(total - PageSize) : WillAskFor(b, total, sort, p)
             /\ unprocessed' = None
             /\ ~unfilled' /\ ~scrollEvent =>
                    \/ Gr!InRange(b, scrollTop)
                    \/ flights' # {} /\ processing'.offset = scrollTop
  <2>1. PICK q \in 0..(total - PageSize) : AskedFor(buffer, total, sort, q)
    BY <1>6 DEF GridInv, GridOrder, Asked
  <2>2. processing # None
    BY <1>6, AskedIsProcessed
  <2>3. /\ BufferInOrder(buffer, total, sort) /\ ViewInOrder(view, sort)
        /\ ~unfilled /\ ~scrollEvent => view.offset = scrollTop /\ Settles
    BY <1>6 DEF GridInv, GridPlaces, GridOrder
  <2> DEFINE o == Gr!FetchOffset(buffer, q)
             z == Gr!FetchSize(buffer, total, q)
  <2>4. /\ processing.offset = q /\ processing.bufferOffset = o
        /\ f = [start |-> o, size |-> z, sort |-> sort] /\ flights \ {f} = {}
    BY <2>1 DEF AskedFor
  <2>5. answer(f) = Run(sort, o, z)
    <3> HIDE DEF o, z
    <3> QED BY <2>4 DEF Run
  <2>6. b = Gr!BufferUpdate(buffer, Run(sort, o, z), o)
    <3>1. b = Gr!BufferUpdate(buffer, answer(f), processing.bufferOffset)
      BY <2>2, Zenon
    <3> HIDE DEF b, after, answer, o, z
    <3> QED BY <2>4, <2>5, <3>1
  <2>7. /\ view' = Gr!RefreshContents(view, b, view.offset)
        /\ Gr!ProcessQueuedRequest(b, {})
    <3>1. view' = IF processing = None THEN view ELSE Gr!RefreshContents(view, b, view.offset)
      BY <1>1
    <3>2. Gr!ProcessQueuedRequest(b, flights \ {f})
      BY <1>1
    <3> HIDE DEF b, after, answer, o, z
    <3> QED BY <2>2, <2>4, <3>1, <3>2
  <2>8. unfilled' = (unfilled \/ (Gr!InRange(buffer, view.offset) /\ ~Gr!InRange(b, view.offset)))
    BY <1>1
  <2> HIDE DEF b, after, answer
  <2>9. BufferInOrder(b, total, sort) /\ (~Gr!InRange(buffer, q) => Gr!InRange(b, q))
    BY <1>2, <2>3, <2>6, UpdateKeepsOrder
  <2>10. ViewInOrder(view', sort) /\ (Gr!InRange(b, view.offset) => Filled(view', sort, view.offset))
    BY <1>2, <2>3, <2>7, <2>9, RefreshKeepsOrder
  <2>11. /\ unprocessed' = None
         /\ \/ unprocessed = None /\ processing' = None /\ flights' = {}
            \/ /\ unprocessed \in 0..(total - PageSize)
               /\ AsksFor(b, total, sort, unprocessed)
    BY <1>6, <2>7, <2>9, QueueAsks
  <2>12. flights' # {} => \E p \in 0..(total - PageSize) : WillAskFor(b, total, sort, p)
    BY <1>1, <2>11 DEF AsksFor, WillAskFor
  <2>13. ASSUME ~unfilled', ~scrollEvent
         PROVE  \/ Gr!InRange(b, scrollTop)
                \/ flights' # {} /\ processing'.offset = scrollTop
    <3>1. ~unfilled /\ ~(Gr!InRange(buffer, view.offset) /\ ~Gr!InRange(b, view.offset))
      BY <2>8, <2>13, Zenon
    <3>2. view.offset = scrollTop /\ Settles
      BY <2>3, <2>13, <3>1
    <3>3. CASE Gr!InRange(buffer, scrollTop)
      BY <3>1, <3>2, <3>3
    <3>4. CASE unprocessed = scrollTop
      <4>1. unprocessed # None
        BY <1>2, <3>4, GridSizes, PageAssumption DEF Gr!LiveGridAssumption
      <4>2. AsksFor(b, total, sort, scrollTop)
        BY <2>11, <3>4, <4>1
      <4> QED BY <3>2, <4>2 DEF AsksFor
    <3>5. CASE processing.offset = scrollTop
      <4>1. q = scrollTop
        BY <2>4, <3>5
      <4> QED BY <2>9, <3>1, <3>2, <4>1
    <3> QED BY <2>2, <3>2, <3>3, <3>4, <3>5 DEF Settles
  <2> QED BY <2>9, <2>10, <2>11, <2>12, <2>13
<1>7. GridOrder'
  <2>1. buffer' = b
    BY <1>1
  <2> HIDE DEF b, after, answer
  <2>2. UNCHANGED <<total, sort, scrollTop, scrollEvent, mixed>>
    BY <1>1
  <2> QED BY <1>4, <1>6, <2>1, <2>2 DEF GridOrder, Settles, Asked, AskedFor, WillAskFor,
      BufferInOrder,
        ViewInOrder, Filled, Gr!InRange, Gr!EndPos
<1> QED BY <1>5, <1>7 DEF GridInv

LEMMA FailureStep == GridInv /\ Gr!Failure => GridInv'
<1> SUFFICES ASSUME GridInv, Gr!Failure PROVE GridInv'
  OBVIOUS
<1>1. /\ \E f \in flights : flights' = flights \ {f}
      /\ unfilled' = TRUE
      /\ UNCHANGED <<total, sort, buffer, view, scrollTop, scrollEvent, processing, unprocessed,
                     mixed>>
  BY DEF Gr!Failure
<1>2. GridPlaces'
  BY <1>1 DEF GridInv, GridPlaces, ViewShape
<1>3. ~mixed => flights' = {}
  BY <1>1 DEF GridInv, GridOrder, Asked, AskedFor
<1>4. GridOrder'
  BY <1>1, <1>3 DEF GridInv, GridOrder, BufferInOrder, ViewInOrder, Filled, Gr!InRange, Gr!EndPos
<1> QED BY <1>2, <1>4 DEF GridInv

LEMMA TimedOutStep == GridInv /\ Gr!TimedOut => GridInv'
<1> SUFFICES ASSUME GridInv, Gr!TimedOut PROVE GridInv'
  OBVIOUS
<1>1. /\ Gr!ProcessQueuedRequest(buffer, flights)
      /\ mixed' = (mixed \/ flights # {})
      /\ UNCHANGED <<total, sort, buffer, view, scrollTop, scrollEvent, unfilled>>
  BY DEF Gr!TimedOut
<1>2. /\ total \in Totals /\ scrollTop \in 0..(total - PageSize)
      /\ mixed \in BOOLEAN /\ unfilled \in BOOLEAN
  BY DEF GridInv, GridPlaces
<1>3. GridPlaces'
  <2>1. unprocessed' = None
    BY <1>1 DEF Gr!ProcessQueuedRequest
  <2>2. mixed' \in BOOLEAN
    BY <1>1, <1>2, Zenon
  <2>3. ViewShape(view)'
    BY <1>1 DEF GridInv, GridPlaces, ViewShape
  <2> QED BY <1>1, <2>1, <2>2, <2>3 DEF GridInv, GridPlaces
<1>4. GridOrder'
  <2> SUFFICES ASSUME ~mixed' PROVE
        /\ unprocessed' = None
        /\ flights' # {} => \E p \in 0..(total - PageSize) : AskedFor(buffer, total, sort, p)'
        /\ ~unfilled /\ ~scrollEvent =>
                \/ Gr!InRange(buffer, scrollTop)
                \/ flights' # {} /\ processing'.offset = scrollTop
                \/ flights' = {} /\ processing' = None /\ Filled(view, sort, scrollTop)
    BY <1>1 DEF GridInv, GridOrder, Settles, Asked, AskedFor, BufferInOrder, ViewInOrder, Filled,
        Gr!InRange, Gr!EndPos
  <2>1. ~mixed /\ flights = {}
    BY <1>1, Zenon
  <2>2. /\ BufferInOrder(buffer, total, sort)
        /\ ~unfilled /\ ~scrollEvent => Settles
    BY <2>1 DEF GridInv, GridOrder
  <2>3. /\ unprocessed' = None
        /\ \/ unprocessed = None /\ processing' = None /\ flights' = {}
           \/ /\ unprocessed \in 0..(total - PageSize)
              /\ AsksFor(buffer, total, sort, unprocessed)
    BY <1>1, <2>1, <2>2, QueueAsks
  <2>4. flights' # {} => \E p \in 0..(total - PageSize) : AskedFor(buffer, total, sort, p)'
    BY <1>1, <2>3 DEF AsksFor, AskedFor
  <2>5. ASSUME ~unfilled, ~scrollEvent
        PROVE  \/ Gr!InRange(buffer, scrollTop)
               \/ flights' # {} /\ processing'.offset = scrollTop
               \/ flights' = {} /\ processing' = None /\ Filled(view, sort, scrollTop)
    <3>1. CASE Gr!InRange(buffer, scrollTop)
      BY <3>1
    <3>2. CASE unprocessed = scrollTop
      <4>1. unprocessed # None
        BY <1>2, <3>2, GridSizes, PageAssumption DEF Gr!LiveGridAssumption
      <4>2. AsksFor(buffer, total, sort, scrollTop)
        BY <2>3, <3>2, <4>1
      <4> QED BY <4>2 DEF AsksFor
    <3>3. CASE processing = None /\ Filled(view, sort, scrollTop)
      <4>1. unprocessed = None
        BY <3>3 DEF GridInv, GridPlaces
      <4>2. unprocessed \notin 0..(total - PageSize)
        <5>1. None \notin Nat
          BY PageAssumption DEF Gr!LiveGridAssumption
        <5> QED BY <4>1, <5>1
      <4> QED BY <2>3, <3>3, <4>1, <4>2
    <3> QED BY <2>1, <2>2, <2>5, <3>1, <3>2, <3>3 DEF Settles
  <2> QED BY <2>3, <2>4, <2>5
<1> QED BY <1>3, <1>4 DEF GridInv

LEMMA GridStepInv == GridInv /\ [Gr!Next]_(Gr!vars) => GridInv'
<1> SUFFICES ASSUME GridInv, [Gr!Next]_(Gr!vars) PROVE GridInv'
  OBVIOUS
<1>1. CASE UNCHANGED Gr!vars
  <2>1. UNCHANGED <<total, sort, buffer, view, scrollTop, scrollEvent, processing, flights,
                    unprocessed, mixed, unfilled>>
    BY <1>1 DEF Gr!vars, Gr!request
  <2> QED BY <2>1 DEF GridInv, GridPlaces, GridOrder, BufferInOrder, ViewInOrder, ViewShape,
      Filled,
        Asked, AskedFor, Settles, Gr!InRange, Gr!EndPos
<1> QED BY <1>1, MoveBarStep, HandleScrollStep, AskAgainStep, SortByStep, SetTotalRowsStep,
        AjaxUpdateStep, FailureStep, TimedOutStep DEF Gr!Next

\* rico.js L1950-2319: every row of the buffer and of the view is the one that
\* belongs in its place, and the page that is scrolled to comes on view; for any
\* page, buffer and totals.
THEOREM GridStaysRight == Gr!Spec => [](Gr!RowsAreRight /\ Gr!SettledIsFilled)
<1> QED BY GridFacts, GridInitInv, GridStepInv, PTL DEF Gr!Spec

----------------------------------------------------------------------------
(* The types of the grid, mixed up or not. *)

\* A buffer, the rows on view, and a request.
IsBuffer(b) ==
    b.startPos \in Nat /\ b.rows \in Seq(Gr!Rows) /\ Len(b.rows) <= Gr!MaxBufferSize
HasRows(v) ==
    v.rows \in [Gr!Slots -> Gr!Rows \cup {Blank}] /\ v.lastRowPos \in Nat \cup {-1}
IsFlight(f) ==
    f \in [start : Nat, size : Int, sort : Gr!Sorts] /\ f.size <= LargeBufferSize
IsProcessed(r) == r \in {None} \cup [offset : Nat, bufferOffset : Nat]

GridTypes ==
    /\ sort \in Gr!Sorts /\ timeout \in BOOLEAN
    /\ IsBuffer(buffer) /\ HasRows(view)
    /\ IsProcessed(processing)
    /\ \A f \in flights : IsFlight(f)

\* A request of a grid in order stays within the rows there are.
LEMMA FetchWithin ==
    ASSUME NEW n \in Totals, NEW s, NEW b, BufferInOrder(b, n, s), NEW p \in 0..(n - PageSize)
    PROVE  /\ Gr!FetchSize(b, n, p) \in 0..LargeBufferSize
           /\ Gr!FetchOffset(b, p) + Gr!FetchSize(b, n, p) <= n
<1> DEFINE a == b.startPos
           m == Len(b.rows)
           L == LargeBufferSize
           o == Gr!FetchOffset(b, p)
           z == Gr!FetchSize(b, n, p)
<1>1. n \in Nat /\ p \in Nat /\ L \in Nat /\ a \in Nat /\ m \in Nat /\ a + m <= n
  BY GridSizes DEF BufferInOrder
<1>2. /\ o \in Nat /\ z \in Nat
      /\ p <= a /\ p + L < a => o = p /\ z = L
      /\ p <= a /\ p + L >= a => (o = IF a >= L THEN a - L ELSE 0) /\ (a > 0 => z = a - o)
      /\ p > a \/ a = 0 => z = IF L + o <= n THEN L ELSE n - o
  BY FetchIs
<1> HIDE DEF a, m, L, o, z
<1>3. CASE p > a \/ a = 0
  BY <1>1, <1>2, <1>3 DEF L, o, z
<1>4. CASE p <= a /\ a > 0 /\ p + L < a
  BY <1>1, <1>2, <1>4 DEF L, o, z
<1>5. CASE p <= a /\ a > 0 /\ p + L >= a
  BY <1>1, <1>2, <1>5 DEF L, o, z
<1> QED BY <1>1, <1>3, <1>4, <1>5

LEMMA GridTyped == GridInv /\ GridTypes => Gr!TypeOK
<1> SUFFICES ASSUME GridInv, GridTypes PROVE Gr!TypeOK
  OBVIOUS
<1>1. ASSUME ~mixed, NEW f \in flights
      PROVE  f.size \in 0..LargeBufferSize /\ f.start + f.size <= total
  <2>1. PICK p \in 0..(total - PageSize) : AskedFor(buffer, total, sort, p)
    BY <1>1 DEF GridInv, GridOrder, Asked
  <2>2. f.start = Gr!FetchOffset(buffer, p) /\ f.size = Gr!FetchSize(buffer, total, p)
    BY <2>1 DEF AskedFor
  <2>3. total \in Totals /\ BufferInOrder(buffer, total, sort)
    BY <1>1 DEF GridInv, GridOrder, GridPlaces
  <2> QED BY <2>2, <2>3, FetchWithin
<1>2. /\ total \in Totals /\ {mixed, unfilled, scrollEvent} \subseteq BOOLEAN
      /\ view.isBlank \in BOOLEAN /\ view.isPartialBlank \in BOOLEAN
      /\ scrollTop \in Gr!Positions /\ view.offset \in Gr!Positions
      /\ unprocessed \in {None} \cup (IF mixed THEN Nat ELSE Gr!Positions)
  BY DEF GridInv, GridPlaces, GridOrder, ViewShape, Gr!Positions
<1>3. /\ sort \in Gr!Sorts /\ timeout \in BOOLEAN
      /\ buffer.startPos \in Nat /\ buffer.rows \in Seq(Gr!Rows)
      /\ Len(buffer.rows) <= Gr!MaxBufferSize
      /\ view.rows \in [Gr!Slots -> Gr!Rows \cup {Blank}] /\ view.lastRowPos \in Nat \cup {-1}
      /\ processing \in {None} \cup [offset : Nat, bufferOffset : Nat]
  BY DEF GridTypes, IsBuffer, HasRows, IsProcessed
<1>4. flights \subseteq [start : Nat, size : Int, sort : Gr!Sorts]
  BY DEF GridTypes, IsFlight
<1>5. \A f \in flights : IF mixed THEN f.size <= LargeBufferSize
                         ELSE f.size \in 0..LargeBufferSize /\ f.start + f.size <= total
  BY <1>1 DEF GridTypes, IsFlight
<1>6. {view.isBlank, view.isPartialBlank, scrollEvent, timeout, mixed, unfilled} \subseteq BOOLEAN
  BY <1>2, <1>3
<1> QED BY <1>2, <1>3, <1>4, <1>5, <1>6 DEF Gr!TypeOK

LEMMA GridInitTypes == Gr!Init => GridTypes
<1> SUFFICES ASSUME Gr!Init PROVE GridTypes
  OBVIOUS
<1>1. /\ sort = Unsorted /\ buffer = [startPos |-> 0, rows |-> <<>>]
      /\ processing = None /\ flights = {} /\ timeout = FALSE
      /\ view.rows = [k \in Gr!Slots |-> <<Unsorted, k>>] /\ view.lastRowPos = -1
  BY DEF Gr!Init
<1>2. Unsorted \in Gr!Sorts
  BY DEF Gr!Sorts
<1>3. IsBuffer(buffer)
  BY <1>1, GridSizes DEF IsBuffer, Gr!MaxBufferSize
<1>4. HasRows(view)
  <2>1. ASSUME NEW k \in Gr!Slots PROVE <<Unsorted, k>> \in Gr!Rows
    <3>1. k \in Nat
      BY GridSizes DEF Gr!Slots
    <3> QED BY <1>2, <3>1 DEF Gr!Rows
  <2> QED BY <1>1, <2>1 DEF HasRows
<1> QED BY <1>1, <1>2, <1>3, <1>4 DEF GridTypes, IsProcessed

\* What is asked for.
LEMMA FetchTypes ==
    ASSUME NEW b, IsBuffer(b), NEW n \in Nat, NEW p \in Nat
    PROVE  /\ Gr!FetchOffset(b, p) \in Nat
           /\ Gr!FetchSize(b, n, p) \in Int /\ Gr!FetchSize(b, n, p) <= LargeBufferSize
<1> DEFINE a == b.startPos
           m == Len(b.rows)
           L == LargeBufferSize
           o == Gr!FetchOffset(b, p)
           z == Gr!FetchSize(b, n, p)
<1>1. a \in Nat /\ m \in Nat /\ L \in Nat /\ Gr!EndPos(b) = a + m
  BY GridSizes DEF IsBuffer, Gr!EndPos
<1>2. o = IF p > a THEN Gr!Max({p, a + m})
          ELSE IF p + L >= a THEN Gr!Max({a - L, 0}) ELSE p
  BY <1>1 DEF Gr!FetchOffset
<1>3. z = IF o >= a THEN Gr!Min({L + o, n}) - o ELSE Gr!Min({a - o, L})
  BY DEF Gr!FetchSize
<1> HIDE DEF a, m, L, o, z
<1>4. /\ Gr!Max({p, a + m}) = IF p >= a + m THEN p ELSE a + m
      /\ Gr!Max({a - L, 0}) = IF a - L >= 0 THEN a - L ELSE 0
  BY <1>1, GridMax
<1>5. o \in Nat
  BY <1>1, <1>2, <1>4
<1>6. /\ Gr!Min({L + o, n}) = IF L + o <= n THEN L + o ELSE n
      /\ Gr!Min({a - o, L}) = IF a - o <= L THEN a - o ELSE L
  BY <1>1, <1>5, GridMin
<1> QED BY <1>1, <1>3, <1>5, <1>6 DEF L, o, z

LEMMA FetchedTypes ==
    ASSUME NEW b, IsBuffer(b), NEW n \in Totals, NEW s \in Gr!Sorts, NEW p \in Nat,
           NEW under, \A f \in under : IsFlight(f), Gr!Fetch(b, n, s, p, under)
    PROVE  IsProcessed(processing') /\ timeout' \in BOOLEAN /\ \A f \in flights' : IsFlight(f)
<1> DEFINE o == Gr!FetchOffset(b, p)
           z == Gr!FetchSize(b, n, p)
           g == [start |-> o, size |-> z, sort |-> s]
<1>1. o \in Nat /\ z \in Int /\ z <= LargeBufferSize
  BY FetchTypes, GridSizes
<1>2. CASE Gr!Needed(b, n, p)
  <2>1. processing' = [offset |-> p, bufferOffset |-> o] /\ flights' = under \cup {g}
        /\ timeout' = TRUE
    BY <1>2, Zenon DEF Gr!Fetch
  <2> HIDE DEF o, z
  <2>2. IsFlight(g)
    BY <1>1 DEF IsFlight
  <2>3. IsProcessed(processing')
    BY <1>1, <2>1 DEF IsProcessed
  <2> HIDE DEF g
  <2> QED BY <2>1, <2>2, <2>3
<1>3. CASE ~Gr!Needed(b, n, p)
  <2>1. processing' = None /\ flights' = under /\ timeout' = FALSE
    BY <1>3, Zenon DEF Gr!Fetch
  <2> QED BY <2>1 DEF IsProcessed
<1> QED BY <1>2, <1>3

LEMMA RequestedTypes ==
    ASSUME GridTypes, NEW b, IsBuffer(b), NEW n \in Totals, NEW s \in Gr!Sorts, NEW p \in Nat,
           Gr!RequestContentRefresh(b, n, s, p)
    PROVE  IsProcessed(processing') /\ timeout' \in BOOLEAN /\ \A f \in flights' : IsFlight(f)
<1>1. CASE processing = None
  <2>1. Gr!Fetch(b, n, s, p, flights)
    BY <1>1, Zenon DEF Gr!RequestContentRefresh
  <2> QED BY <2>1, FetchedTypes DEF GridTypes
<1>2. CASE processing # None
  <2>1. UNCHANGED <<processing, timeout, flights>>
    BY <1>2 DEF Gr!RequestContentRefresh, Gr!request
  <2> QED BY <2>1 DEF GridTypes, IsProcessed, IsFlight
<1> QED BY <1>1, <1>2

LEMMA QueuedTypes ==
    ASSUME GridPlaces, GridTypes, NEW b, IsBuffer(b), NEW under, \A f \in under : IsFlight(f),
           Gr!ProcessQueuedRequest(b, under)
    PROVE  IsProcessed(processing') /\ timeout' \in BOOLEAN /\ \A f \in flights' : IsFlight(f)
<1>1. CASE unprocessed # None
  <2>1. Gr!Fetch(b, total, sort, unprocessed, under)
    BY <1>1, Zenon DEF Gr!ProcessQueuedRequest
  <2>2. unprocessed \in Nat /\ total \in Totals /\ sort \in Gr!Sorts
    BY <1>1, GridSizes DEF GridPlaces, GridTypes
  <2> QED BY <2>1, <2>2, FetchedTypes
<1>2. CASE unprocessed = None
  <2>1. processing' = None /\ flights' = under /\ timeout' = FALSE
    BY <1>2, Zenon DEF Gr!ProcessQueuedRequest
  <2> QED BY <2>1 DEF IsProcessed
<1> QED BY <1>1, <1>2

LEMMA RowsOf ==
    ASSUME NEW T, NEW k \in Nat, NEW x \in [1..k -> T]
    PROVE  x \in Seq(T) /\ Len(x) = k
OBVIOUS

\* An answer, whatever it is taken for.
LEMMA AnswerTypes ==
    ASSUME NEW f, IsFlight(f)
    PROVE  LET new == [i \in 1..f.size |-> <<f.sort, f.start + i - 1>>]
           IN  new \in Seq(Gr!Rows) /\ Len(new) <= LargeBufferSize
<1> DEFINE new == [i \in 1..f.size |-> <<f.sort, f.start + i - 1>>]
           k == IF f.size >= 0 THEN f.size ELSE 0
<1>1. f.size \in Int /\ f.size <= LargeBufferSize /\ f.start \in Nat /\ f.sort \in Gr!Sorts
  BY DEF IsFlight
<1>2. k \in Nat /\ 1..f.size = 1..k /\ k <= LargeBufferSize
  BY <1>1, GridSizes
<1> HIDE DEF k
<1>3. ASSUME NEW i \in 1..k PROVE <<f.sort, f.start + i - 1>> \in Gr!Rows
  <2>1. f.start + i - 1 \in Nat
    BY <1>1, <1>2
  <2> QED BY <1>1, <2>1 DEF Gr!Rows
<1>4. new = [i \in 1..k |-> <<f.sort, f.start + i - 1>>]
  BY <1>2
<1> HIDE DEF new
<1>5. new \in [1..k -> Gr!Rows]
  BY <1>3, <1>4, Zenon
<1>6. new \in Seq(Gr!Rows) /\ Len(new) = k
  BY <1>2, <1>5, RowsOf
<1> QED BY <1>2, <1>6 DEF new

LEMMA FirstTypes ==
    ASSUME NEW T, NEW s \in Seq(T), NEW k \in Nat
    PROVE  Gr!FirstN(s, k) \in Seq(T) /\ Len(Gr!FirstN(s, k)) <= k
<1>1. Gr!Min({k, Len(s)}) = IF k <= Len(s) THEN k ELSE Len(s)
  BY GridMin
<1> DEFINE y == IF k <= Len(s) THEN k ELSE Len(s)
<1>2. y \in 0..Len(s) /\ y <= k
  OBVIOUS
<1>3. Gr!FirstN(s, k) = SubSeq(s, 1, y)
  BY <1>1 DEF Gr!FirstN
<1> HIDE DEF y
<1>4. SubSeq(s, 1, y) \in Seq(T) /\ Len(SubSeq(s, 1, y)) = y
  BY <1>2, SubSeqProperties
<1> QED BY <1>2, <1>3, <1>4

LEMMA LastTypes ==
    ASSUME NEW T, NEW s \in Seq(T), NEW k \in Nat
    PROVE  Gr!LastN(s, k) \in Seq(T) /\ Len(Gr!LastN(s, k)) <= k
<1> DEFINE x == IF Len(s) - k >= 0 THEN Len(s) - k ELSE 0
<1>1. Gr!Max({Len(s) - k, 0}) = x
  BY GridMax
<1>2. x \in 0..Len(s) /\ Len(s) - x <= k
  OBVIOUS
<1>3. Gr!LastN(s, k) = SubSeq(s, x + 1, Len(s))
  BY <1>1 DEF Gr!LastN
<1> HIDE DEF x
<1>4. SubSeq(s, x + 1, Len(s)) \in Seq(T) /\ Len(SubSeq(s, x + 1, Len(s))) = Len(s) - x
  BY <1>2, SubSeqProperties
<1> QED BY <1>2, <1>3, <1>4

LEMMA UpdateTypes ==
    ASSUME NEW b, IsBuffer(b), NEW new \in Seq(Gr!Rows), Len(new) <= LargeBufferSize, NEW o \in Nat
    PROVE  IsBuffer(Gr!BufferUpdate(b, new, o))
<1> DEFINE B == 2 * LargeBufferSize
           after == b.rows \o new
           front == Gr!FirstN(new, b.startPos)
           before == front \o b.rows
           c == Gr!BufferUpdate(b, new, o)
           far == b.rows = <<>> \/ (o > b.startPos /\ Gr!EndPos(b) < o)
<1>1. /\ LargeBufferSize \in Nat /\ B \in Nat /\ Gr!MaxBufferSize = B /\ Len(new) <= B
      /\ b.startPos \in Nat /\ b.rows \in Seq(Gr!Rows) /\ Len(new) \in Nat
  BY GridSizes DEF IsBuffer, Gr!MaxBufferSize
<1>2. front \in Seq(Gr!Rows)
  BY <1>1, FirstTypes
<1>3. after \in Seq(Gr!Rows) /\ before \in Seq(Gr!Rows)
  <2> HIDE DEF front
  <2> QED BY <1>1, <1>2, ConcatProperties
<1>4. c = IF far THEN [startPos |-> o, rows |-> new]
          ELSE IF o > b.startPos
          THEN [startPos |-> b.startPos + Gr!Max({Len(after) - B, 0}), rows |-> Gr!LastN(after, B)]
          ELSE [startPos |-> o,
                rows |-> IF o + Len(new) < b.startPos THEN new ELSE Gr!FirstN(before, B)]
  BY <1>1 DEF Gr!BufferUpdate
<1> HIDE DEF B, after, before, c, far
<1>5. Gr!LastN(after, B) \in Seq(Gr!Rows) /\ Len(Gr!LastN(after, B)) <= B
  BY <1>1, <1>3, LastTypes
<1>6. Gr!FirstN(before, B) \in Seq(Gr!Rows) /\ Len(Gr!FirstN(before, B)) <= B
  BY <1>1, <1>3, FirstTypes
<1>7. Gr!Max({Len(after) - B, 0}) \in Nat
  <2>1. Len(after) - B \in Int
    BY <1>1, <1>3
  <2> QED BY <2>1, GridMax
<1>8. c.startPos \in Nat /\ c.rows \in Seq(Gr!Rows) /\ Len(c.rows) <= B
  <2>1. CASE far
    BY <1>1, <1>4, <2>1
  <2>2. CASE ~far /\ o > b.startPos
    BY <1>1, <1>4, <1>5, <1>7, <2>2
  <2>3. CASE ~far /\ ~(o > b.startPos)
    BY <1>1, <1>4, <1>6, <2>3
  <2> QED BY <2>1, <2>2, <2>3
<1> QED BY <1>1, <1>8 DEF IsBuffer, c

LEMMA RefreshTypes ==
    ASSUME NEW v, ViewShape(v), HasRows(v), NEW b, IsBuffer(b), NEW p \in Nat
    PROVE  HasRows(Gr!RefreshContents(v, b, p))
<1> DEFINE w == Gr!RefreshContents(v, b, p)
           P == PageSize
           a == b.startPos
           m == Len(b.rows)
           from == Gr!Max({a, p})
           h == Gr!Min({Gr!EndPos(b), p + P + 1}) - from
           first == IF a > p THEN P + 1 - h ELSE 0
           rows == [k \in Gr!Slots |-> IF k \in first..(first + h - 1)
                                       THEN b.rows[from - a + k - first + 1] ELSE Blank]
<1>1. P \in Nat /\ a \in Nat /\ m \in Nat /\ Gr!EndPos(b) = a + m /\ b.rows \in Seq(Gr!Rows)
  BY GridSizes DEF IsBuffer, Gr!EndPos
<1>2. /\ from = IF a >= p THEN a ELSE p
      /\ h = (IF a + m <= p + P + 1 THEN a + m ELSE p + P + 1) - from
  BY <1>1, GridMax, GridMin
<1>3. w = IF p = v.lastRowPos /\ ~v.isPartialBlank /\ ~v.isBlank THEN v
          ELSE IF h < 0 \/ b.rows = <<>> THEN [v EXCEPT !.rows = Gr!BlankRows, !.isBlank = TRUE]
          ELSE [v EXCEPT !.rows = rows, !.isBlank = FALSE,
                         !.isPartialBlank = h < P + 1, !.lastRowPos = p]
  BY DEF Gr!RefreshContents
<1>4. h >= 0 => rows \in [Gr!Slots -> Gr!Rows \cup {Blank}]
  <2>1. ASSUME h >= 0, NEW k \in Gr!Slots, k \in first..(first + h - 1)
        PROVE  b.rows[from - a + k - first + 1] \in Gr!Rows
    <3> DEFINE i == from - a + k - first + 1
    <3>1. k \in Int
      BY <1>1 DEF Gr!Slots
    <3> HIDE DEF h, from, P, a, m
    <3>2. h \in Int /\ from \in Int /\ first \in Int
      BY <1>1, <1>2
    <3>3. i \in 1..m
      BY <1>1, <1>2, <2>1, <3>1, <3>2
    <3> HIDE DEF i
    <3>4. b.rows[i] \in Gr!Rows
      BY <1>1, <3>3 DEF m
    <3> QED BY <3>4 DEF i
  <2> HIDE DEF first, h, from
  <2> QED BY <2>1
<1> HIDE DEF h, rows, w
<1>5. CASE p = v.lastRowPos /\ ~v.isPartialBlank /\ ~v.isBlank
  BY <1>3, <1>5 DEF w
<1>6. CASE ~(p = v.lastRowPos /\ ~v.isPartialBlank /\ ~v.isBlank) /\ (h < 0 \/ b.rows = <<>>)
  <2>1. w.rows = Gr!BlankRows /\ w.lastRowPos = v.lastRowPos
    BY <1>3, <1>6 DEF ViewShape
  <2> QED BY <2>1 DEF HasRows, Gr!BlankRows, w
<1>7. CASE ~(p = v.lastRowPos /\ ~v.isPartialBlank /\ ~v.isBlank) /\ ~(h < 0 \/ b.rows = <<>>)
  <2>1. w.rows = rows /\ w.lastRowPos = p
    BY <1>3, <1>7 DEF ViewShape
  <2>2. h \in Int
    BY <1>1, <1>2
  <2> QED BY <1>4, <1>7, <2>1, <2>2 DEF HasRows, w
<1> QED BY <1>5, <1>6, <1>7

\* scrollTo() and resetContents().
LEMMA ScrollToTypes ==
    ASSUME NEW v, ViewShape(v), HasRows(v), NEW b, IsBuffer(b), NEW p \in Nat
    PROVE  HasRows(Gr!ViewScrollTo(v, b, p))
<1> DEFINE u == Gr!RefreshContents(v, b, p)
<1>1. HasRows(u) /\ ViewShape(u)
  <2>1. p \in Int
    OBVIOUS
  <2> QED BY <2>1, RefreshTypes, RefreshShape
<1>2. Gr!ViewScrollTo(v, b, p) = IF v.offset = p THEN v ELSE [u EXCEPT !.offset = p]
  BY DEF Gr!ViewScrollTo
<1> HIDE DEF u
<1>3. [u EXCEPT !.offset = p].rows = u.rows /\ [u EXCEPT !.offset = p].lastRowPos = u.lastRowPos
  BY <1>1 DEF ViewShape
<1> QED BY <1>1, <1>2, <1>3 DEF HasRows

LEMMA ResetTypes ==
    ASSUME GridInv, GridTypes, Gr!ResetContents
    PROVE  IsBuffer(Gr!EmptyBuffer) /\ IsBuffer(buffer') /\ HasRows(view')
<1>1. /\ buffer' = Gr!EmptyBuffer
      /\ view' = [view EXCEPT !.rows = Gr!BlankRows, !.isBlank = TRUE, !.offset = 0]
  BY DEF Gr!ResetContents
<1>2. IsBuffer(Gr!EmptyBuffer)
  BY GridSizes DEF IsBuffer, Gr!MaxBufferSize, Gr!EmptyBuffer
<1>3. ViewShape(view) /\ HasRows(view)
  BY DEF GridInv, GridPlaces, GridTypes
<1>4. view'.rows = Gr!BlankRows /\ view'.lastRowPos = view.lastRowPos
  BY <1>1, <1>3 DEF ViewShape
<1>5. HasRows(view')
  BY <1>3, <1>4 DEF HasRows, Gr!BlankRows
<1> QED BY <1>1, <1>2, <1>5

\* The steps.
LEMMA SortByTypes == GridInv /\ GridTypes /\ Gr!SortBy => GridTypes'
<1> SUFFICES ASSUME GridInv, GridTypes, Gr!SortBy PROVE GridTypes'
  OBVIOUS
<1>1. /\ Gr!ResetContents /\ Gr!RequestContentRefresh(Gr!EmptyBuffer, total, sort', 0)
      /\ \E c \in Columns : sort' = IF sort = <<c, "ASC">> THEN <<c, "DESC">> ELSE <<c, "ASC">>
  BY Zenon DEF Gr!SortBy
<1>2. PICK c \in Columns : sort' = IF sort = <<c, "ASC">> THEN <<c, "DESC">> ELSE <<c, "ASC">>
  BY <1>1
<1>3. sort' \in Gr!Sorts
  <2>1. <<c, "DESC">> \in Columns \X {"ASC", "DESC"} /\ <<c, "ASC">> \in Columns \X {"ASC", "DESC"}
    OBVIOUS
  <2> QED BY <1>2, <2>1, Zenon DEF Gr!Sorts
<1>4. total \in Totals
  BY DEF GridInv, GridPlaces
<1>5. IsBuffer(Gr!EmptyBuffer) /\ IsBuffer(buffer') /\ HasRows(view')
  BY <1>1, ResetTypes
<1>6. IsProcessed(processing') /\ timeout' \in BOOLEAN /\ \A f \in flights' : IsFlight(f)
  BY <1>1, <1>3, <1>4, <1>5, RequestedTypes
<1> QED BY <1>3, <1>5, <1>6 DEF GridTypes, IsBuffer, HasRows, IsProcessed, IsFlight

LEMMA AjaxUpdateTypes == GridInv /\ GridTypes /\ Gr!AjaxUpdate => GridTypes'
<1> SUFFICES ASSUME GridInv, GridTypes, Gr!AjaxUpdate PROVE GridTypes'
  OBVIOUS
<1> DEFINE answer(f) == [i \in 1..f.size |-> <<f.sort, f.start + i - 1>>]
           after(f) == IF processing = None THEN buffer
                       ELSE Gr!BufferUpdate(buffer, answer(f), processing.bufferOffset)
<1>1. PICK f \in flights :
        /\ buffer' = after(f)
        /\ view' = IF processing = None THEN view
                   ELSE Gr!RefreshContents(view, after(f), view.offset)
        /\ Gr!ProcessQueuedRequest(after(f), flights \ {f})
        /\ sort' = sort
  BY Zenon DEF Gr!AjaxUpdate
<1>2. answer(f) \in Seq(Gr!Rows) /\ Len(answer(f)) <= LargeBufferSize
  BY AnswerTypes DEF GridTypes
<1> HIDE DEF answer
<1>3. IsBuffer(after(f))
  <2>1. CASE processing = None
    <3>1. after(f) = buffer
      BY <2>1
    <3> HIDE DEF after
    <3> QED BY <3>1 DEF GridTypes
  <2>2. CASE processing # None
    <3>1. processing.bufferOffset \in Nat
      BY <2>2 DEF GridTypes, IsProcessed
    <3>2. after(f) = Gr!BufferUpdate(buffer, answer(f), processing.bufferOffset)
      BY <2>2
    <3>3. IsBuffer(buffer)
      BY DEF GridTypes
    <3> HIDE DEF after
    <3> QED BY <1>2, <3>1, <3>2, <3>3, UpdateTypes
  <2> QED BY <2>1, <2>2
<1> HIDE DEF after
<1>4. ViewShape(view) /\ HasRows(view) /\ view.offset \in Nat /\ GridPlaces
  BY GridSizes DEF GridInv, GridPlaces, GridTypes
<1>5. HasRows(view')
  BY <1>1, <1>3, <1>4, RefreshTypes
<1>6. \A g \in flights \ {f} : IsFlight(g)
  BY DEF GridTypes
<1>7. IsProcessed(processing') /\ timeout' \in BOOLEAN /\ \A g \in flights' : IsFlight(g)
  BY <1>1, <1>3, <1>4, <1>6, QueuedTypes
<1>8. IsBuffer(buffer') /\ sort' \in Gr!Sorts
  BY <1>1, <1>3 DEF GridTypes
<1> QED BY <1>5, <1>7, <1>8 DEF GridTypes, IsBuffer, HasRows, IsProcessed, IsFlight

LEMMA GridStepTypes == GridInv /\ GridTypes /\ [Gr!Next]_(Gr!vars) => GridTypes'
<1> SUFFICES ASSUME GridInv, GridTypes, [Gr!Next]_(Gr!vars) PROVE GridTypes'
  OBVIOUS
<1>1. ViewShape(view) /\ HasRows(view) /\ IsBuffer(buffer) /\ GridPlaces /\ sort \in Gr!Sorts
      /\ scrollTop \in Nat /\ total \in Totals
  BY GridSizes DEF GridInv, GridPlaces, GridTypes
<1>2. CASE UNCHANGED <<sort, buffer, view, processing, timeout>> /\ flights' \subseteq flights
  BY <1>2 DEF GridTypes, IsBuffer, HasRows, IsProcessed, IsFlight
<1>3. CASE UNCHANGED Gr!vars \/ Gr!MoveBar \/ Gr!Failure
  BY <1>2, <1>3 DEF Gr!vars, Gr!request, Gr!MoveBar, Gr!Failure
<1>4. CASE Gr!HandleScroll
  <2>1. /\ Gr!RequestContentRefresh(buffer, total, sort, scrollTop)
        /\ view' = Gr!ViewScrollTo(view, buffer, scrollTop) /\ UNCHANGED <<sort, buffer>>
    BY <1>4 DEF Gr!HandleScroll
  <2>2. IsProcessed(processing') /\ timeout' \in BOOLEAN /\ \A f \in flights' : IsFlight(f)
    BY <1>1, <2>1, RequestedTypes
  <2>3. HasRows(view')
    BY <1>1, <2>1, ScrollToTypes
  <2> QED BY <1>1, <2>1, <2>2, <2>3 DEF GridTypes, IsBuffer, HasRows, IsProcessed, IsFlight
<1>5. CASE Gr!SetTotalRows
  <2>1. Gr!ResetContents /\ UNCHANGED <<sort, processing, timeout, flights>>
    BY <1>5 DEF Gr!SetTotalRows, Gr!request
  <2>2. IsBuffer(buffer') /\ HasRows(view')
    BY <2>1, ResetTypes
  <2> QED BY <2>1, <2>2 DEF GridTypes, IsBuffer, HasRows, IsProcessed, IsFlight
<1>6. CASE Gr!AskAgain
  <2>1. /\ Gr!RequestContentRefresh(buffer, total, sort, scrollTop)
        /\ UNCHANGED <<sort, buffer, view>>
    BY <1>6 DEF Gr!AskAgain
  <2>2. IsProcessed(processing') /\ timeout' \in BOOLEAN /\ \A f \in flights' : IsFlight(f)
    BY <1>1, <2>1, RequestedTypes
  <2> QED BY <1>1, <2>1, <2>2 DEF GridTypes, IsBuffer, HasRows, IsProcessed, IsFlight
<1>7. CASE Gr!TimedOut
  <2>1. Gr!ProcessQueuedRequest(buffer, flights) /\ UNCHANGED <<sort, buffer, view>>
    BY <1>7 DEF Gr!TimedOut
  <2>2. \A f \in flights : IsFlight(f)
    BY DEF GridTypes
  <2>3. IsProcessed(processing') /\ timeout' \in BOOLEAN /\ \A f \in flights' : IsFlight(f)
    BY <1>1, <2>1, <2>2, QueuedTypes
  <2> QED BY <1>1, <2>1, <2>3 DEF GridTypes, IsBuffer, HasRows, IsProcessed, IsFlight
<1> QED BY <1>3, <1>4, <1>5, <1>6, <1>7, SortByTypes, AjaxUpdateTypes DEF Gr!Next

\* rico.js L1766-1871, L2184-2225: the types of the grid and the bounds of its
\* buffer, its requests and its positions, also when rows are mixed up.
THEOREM GridTypeCorrect == Gr!Spec => []Gr!TypeOK
<1> QED BY GridTyped, GridInitInv, GridStepInv, GridInitTypes, GridStepTypes, PTL DEF Gr!Spec
=============================================================================
