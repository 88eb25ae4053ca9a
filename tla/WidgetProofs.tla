--------------------------- MODULE WidgetProofs -----------------------------
(***************************************************************************)
(* Proofs about the widgets of a page that nothing is dragged in but a     *)
(* handle: the accordion, the in-place editor, the slider, the             *)
(* autocompleter and the completion of tokens. What is said of lists and   *)
(* of sets of numbers comes first.                                         *)
(***************************************************************************)
EXTENDS Registration, SequenceTheorems, WellFoundedInduction, TLAPS

----------------------------------------------------------------------------
(* Lists. *)

\* Without one of its elements.
LEMMA RemoveAtIs ==
  ASSUME NEW S, NEW s \in Seq(S), NEW i \in 1..Len(s)
  PROVE  /\ Au!RemoveAt(s, i) \in Seq(S)
         /\ Len(Au!RemoveAt(s, i)) = Len(s) - 1
         /\ \A j \in 1..(Len(s) - 1) : Au!RemoveAt(s, i)[j] = IF j < i THEN s[j] ELSE s[j + 1]
<1>1. Len(s) \in Nat
  OBVIOUS
<1> DEFINE p == SubSeq(s, 1, i - 1)
           q == SubSeq(s, i + 1, Len(s))
<1>2. p \in Seq(S) /\ Len(p) = i - 1 /\ \A j \in 1..(i - 1) : p[j] = s[j]
  BY <1>1, SubSeqProperties
<1>3. q \in Seq(S) /\ Len(q) = Len(s) - i /\ \A j \in 1..(Len(s) - i) : q[j] = s[i + j]
  <2>1. \A k \in (i + 1)..Len(s) : s[k] \in S
    BY <1>1
  <2>2. q \in Seq(S) /\ Len(q) = IF i + 1 <= Len(s) THEN Len(s) - (i + 1) + 1 ELSE 0
    BY <1>1, SubSeqProperties
  <2>3. \A j \in 1..(Len(s) - (i + 1) + 1) : q[j] = s[i + 1 + j - 1]
    BY <1>1, SubSeqProperties
  <2> QED BY <1>1, <2>2, <2>3
<1>4. Au!RemoveAt(s, i) = p \o q
  BY DEF Au!RemoveAt
<1> HIDE DEF p, q
<1> DEFINE r == p \o q
<1>5. /\ r \in Seq(S) /\ Len(r) = Len(p) + Len(q)
      /\ \A j \in 1..(Len(p) + Len(q)) : r[j] = IF j <= Len(p) THEN p[j] ELSE q[j - Len(p)]
  BY <1>2, <1>3, ConcatProperties
<1> HIDE DEF r
<1>6. Len(r) = Len(s) - 1
  BY <1>1, <1>2, <1>3, <1>5
<1>7. ASSUME NEW j \in 1..(Len(s) - 1) PROVE r[j] = IF j < i THEN s[j] ELSE s[j + 1]
  <2>1. CASE j < i
    <3>1. j \in 1..(i - 1) /\ j \in 1..(Len(p) + Len(q)) /\ j <= Len(p)
      BY <1>1, <1>2, <1>3, <2>1
    <3> QED BY <1>2, <1>5, <2>1, <3>1
  <2>2. CASE j >= i
    <3>1. j - (i - 1) \in 1..(Len(s) - i) /\ j \in 1..(Len(p) + Len(q)) /\ ~(j <= Len(p))
      BY <1>1, <1>2, <1>3, <2>2
    <3>2. r[j] = q[j - (i - 1)] /\ q[j - (i - 1)] = s[i + (j - (i - 1))]
      BY <1>2, <1>3, <1>5, <3>1
    <3>3. i + (j - (i - 1)) = j + 1
      BY <1>1
    <3> QED BY <1>1, <2>2, <3>2, <3>3
  <2> QED BY <1>1, <2>1, <2>2
<1> QED BY <1>4, <1>5, <1>6, <1>7 DEF r


----------------------------------------------------------------------------
(* Least and greatest elements of sets of numbers. *)

\* A set of naturals with an element has a least one.
LEMMA LeastOf ==
  ASSUME NEW T \in SUBSET Nat, T # {}
  PROVE  \E m \in T : \A n \in T : m <= n
<1> DEFINE R == OpToRel(<, Nat)
<1>1. IsWellFoundedOn(R, Nat)
  BY NatLessThanWellFounded
<1>2. \A a, b \in Nat : <<a, b>> \in R <=> a < b
  BY DEF OpToRel
<1> HIDE DEF R
<1>3. PICK m \in T : \A n \in T : ~(<<n, m>> \in R)
  BY <1>1, WFMin, Zenon
<1>4. \A n \in T : ~(n < m)
  BY <1>2, <1>3, Zenon
<1>5. \A n \in T : m <= n
  BY <1>4
<1> QED BY <1>5

\* A set of integers with an upper bound has a greatest.
LEMMA GreatestOf ==
  ASSUME NEW lo \in Int, NEW hi \in Int, NEW T \in SUBSET (lo..hi), T # {}
  PROVE  \E m \in T : \A n \in T : n <= m
<1> DEFINE D == {hi - n : n \in T}
<1>1. D \in SUBSET Nat /\ D # {}
  OBVIOUS
<1>2. PICK d \in D : \A e \in D : d <= e
  BY <1>1, LeastOf, Zenon
<1>3. PICK m \in T : d = hi - m
  OBVIOUS
<1>4. \A n \in T : hi - m <= hi - n
  BY <1>2, <1>3
<1>5. \A n \in T : n <= m
  BY <1>4
<1> QED BY <1>5


----------------------------------------------------------------------------
(***************************************************************************)
(* Proofs about Accordion for any tabs, any length of an animation and any *)
(* number of them at once.  The argument: a tab on display that is not the *)
(* open one is still to be hidden by an animation, as its from; the open   *)
(* one is at its full height, or an animation will bring it there; and no  *)
(* animation hides it, unless it was opened while one was closing it.      *)
(***************************************************************************)

Animation == [from : Tabs, to : Tabs, steps : 0..Steps]

\* The animations under way.
Animating == {animations[i] : i \in 1..Len(animations)}

ExpandedInv ==
    /\ expanded \subseteq {lastExpandedTab} /\ bold = {lastExpandedTab}
    /\ Animating = {} => expanded = {lastExpandedTab}

\* What is displayed is open, or will be hidden.
DisplayInv ==
    \A t \in displayed : t = lastExpandedTab \/ \E a \in Animating : a.from = t

\* The open tab is displayed, will be in full, and will not be hidden.
OpenInv ==
    ~reopened =>
        /\ lastExpandedTab \in displayed
        /\ \A a \in Animating : a.from # lastExpandedTab
        /\ height[lastExpandedTab] = "full" \/ \E a \in Animating : a.to = lastExpandedTab

TitleInv ==
    \A t \in Tabs \ {mouse} : title[t] = IF t \in expanded THEN "expanded" ELSE "collapsed"

AccordionInv == Ac!TypeOK /\ ExpandedInv /\ DisplayInv /\ OpenInv /\ TitleInv

----------------------------------------------------------------------------
(* The animations as a set. *)

LEMMA AnimationsTyped == ASSUME Ac!TypeOK PROVE animations \in Seq(Animation)
BY DEF Ac!TypeOK, Animation

LEMMA NoneUnderWay == ASSUME Ac!TypeOK PROVE animations = <<>> => Animating = {}
BY DEF Animating

LEMMA AnimationAppended ==
  ASSUME NEW s \in Seq(Animation), NEW a \in Animation
  PROVE  /\ Append(s, a) \in Seq(Animation) /\ Len(Append(s, a)) = Len(s) + 1
         /\ {Append(s, a)[i] : i \in 1..Len(Append(s, a))} = {s[i] : i \in 1..Len(s)} \cup {a}
<1>1. /\ Append(s, a) \in Seq(Animation) /\ Len(Append(s, a)) = Len(s) + 1 /\ Len(s) \in Nat
      /\ \A i \in 1..Len(s) : Append(s, a)[i] = s[i]
      /\ Append(s, a)[Len(s) + 1] = a
  BY AppendProperties, LenProperties
<1>2. 1..(Len(s) + 1) = (1..Len(s)) \cup {Len(s) + 1}
  BY <1>1
<1> QED BY <1>1, <1>2

LEMMA AnimationsHeadAndTail ==
  ASSUME NEW s \in Seq(Animation), s # <<>>
  PROVE  /\ Head(s) \in Animation /\ Tail(s) \in Seq(Animation) /\ Len(Tail(s)) = Len(s) - 1
         /\ Len(s) \in Nat \ {0}
         /\ {s[i] : i \in 1..Len(s)} = {Tail(s)[i] : i \in 1..Len(Tail(s))} \cup {Head(s)}
<1>1. /\ Head(s) \in Animation /\ Tail(s) \in Seq(Animation) /\ Len(Tail(s)) = Len(s) - 1
      /\ \A i \in 1..Len(Tail(s)) : Tail(s)[i] = s[i + 1]
      /\ Head(s) = s[1] /\ Len(s) \in Nat
  BY HeadTailProperties, LenProperties
<1>2. Len(s) # 0
  BY EmptySeq
<1>3. {s[i] : i \in 1..Len(s)} \subseteq {Tail(s)[i] : i \in 1..Len(Tail(s))} \cup {Head(s)}
  <2>1. SUFFICES ASSUME NEW i \in 1..Len(s), i # 1
                 PROVE  s[i] \in {Tail(s)[j] : j \in 1..Len(Tail(s))}
    BY <1>1
  <2>2. i - 1 \in 1..Len(Tail(s)) /\ Tail(s)[i - 1] = s[i]
    BY <1>1, <2>1
  <2> QED BY <2>2
<1>4. {Tail(s)[i] : i \in 1..Len(Tail(s))} \cup {Head(s)} \subseteq {s[i] : i \in 1..Len(s)}
  BY <1>1, <1>2
<1> QED BY <1>1, <1>2, <1>3, <1>4

----------------------------------------------------------------------------
(* The steps. *)

LEMMA AtOnceStep ==
  ASSUME Ac!AccordionAssumption, AccordionInv, NEW t \in Tabs, Ac!ShowTab(t, FALSE)
  PROVE  AccordionInv'
<1>1. /\ bold' = (bold \ {lastExpandedTab}) \cup {t}
      /\ lastExpandedTab' = t /\ UNCHANGED <<mouse, animations>>
      /\ reopened' = (t = lastExpandedTab \/ \E i \in DOMAIN animations : animations[i].from = t)
      /\ height' = [height EXCEPT ![lastExpandedTab] = "closed", ![t] = "full"]
      /\ displayed' = (displayed \cup {t}) \ {lastExpandedTab}
      /\ expanded' = Ac!Collapsed \cup {t}
      /\ title' = [Ac!CollapsedTitle EXCEPT ![t] = "expanded"]
  BY DEF Ac!ShowTab, Ac!ShowTabAtOnce, Ac!ShowTabDone
<1>2. Ac!TypeOK
  BY DEF AccordionInv
<1>3. DOMAIN animations = 1..Len(animations)
  BY <1>2, AnimationsTyped, LenProperties
<1>4. Animating' = Animating
  BY <1>1 DEF Animating
<1>5. ~reopened' => t # lastExpandedTab /\ \A a \in Animating : a.from # t
  BY <1>1, <1>3 DEF Animating
<1>6. Ac!TypeOK'
  BY <1>1, <1>2 DEF Ac!TypeOK, Ac!Collapsed, Ac!CollapsedTitle
<1>7. ExpandedInv'
  BY <1>1, <1>4 DEF AccordionInv, ExpandedInv, Ac!Collapsed
<1>8. DisplayInv'
  BY <1>1, <1>4 DEF AccordionInv, DisplayInv
<1>9. OpenInv'
  BY <1>1, <1>2, <1>4, <1>5 DEF OpenInv, Ac!TypeOK
<1>10. TitleInv'
  BY <1>1, <1>2 DEF AccordionInv, TitleInv, ExpandedInv, Ac!TypeOK, Ac!Collapsed,
      Ac!CollapsedTitle
<1> QED BY <1>6, <1>7, <1>8, <1>9, <1>10 DEF AccordionInv

LEMMA AnimatedStep ==
  ASSUME Ac!AccordionAssumption, AccordionInv, NEW t \in Tabs, Ac!ShowTab(t, TRUE)
  PROVE  AccordionInv'
<1>1. /\ bold' = (bold \ {lastExpandedTab}) \cup {t}
      /\ lastExpandedTab' = t /\ UNCHANGED mouse
      /\ reopened' = (t = lastExpandedTab \/ \E i \in DOMAIN animations : animations[i].from = t)
      /\ Len(animations) < MaxAnimations
      /\ animations' = Append(animations, [from |-> lastExpandedTab, to |-> t, steps |-> Steps - 1])
      /\ height' = [height EXCEPT ![lastExpandedTab] = "between", ![t] = "between"]
      /\ expanded' = Ac!Collapsed /\ title' = Ac!CollapsedTitle
      /\ displayed' = displayed \cup {t}
  BY DEF Ac!ShowTab, Ac!ShowTabAnimated, Ac!Resized
<1>2. Ac!TypeOK /\ MaxAnimations \in Nat
  BY DEF AccordionInv, Ac!AccordionAssumption
<1>3. DOMAIN animations = 1..Len(animations) /\ Len(animations) \in Nat
  BY <1>2, AnimationsTyped, LenProperties
<1> DEFINE a == [from |-> lastExpandedTab, to |-> t, steps |-> Steps - 1]
<1>4. a \in Animation /\ a.from = lastExpandedTab /\ a.to = t
  BY <1>2 DEF Animation, Ac!AccordionAssumption, Ac!TypeOK
<1> HIDE DEF a
<1>5. /\ animations' \in Seq(Animation) /\ Len(animations') = Len(animations) + 1
      /\ Animating' = Animating \cup {a}
  BY <1>1, <1>2, <1>4, AnimationsTyped, AnimationAppended DEF Animating, a
<1>6. ~reopened' => t # lastExpandedTab /\ \A b \in Animating : b.from # t
  BY <1>1, <1>3 DEF Animating
<1>7. Ac!TypeOK'
  <2>1. animations' \in Seq([from : Tabs, to : Tabs, steps : 0..Steps])
    BY <1>5 DEF Animation
  <2>2. Len(animations') <= MaxAnimations
    BY <1>1, <1>2, <1>3, <1>5
  <2>3. /\ {expanded, bold, displayed}' \subseteq SUBSET Tabs
        /\ title' \in [Tabs -> {"expanded", "collapsed", "hover"}]
    BY <1>1, <1>2 DEF Ac!TypeOK, Ac!Collapsed, Ac!CollapsedTitle
  <2>4. /\ lastExpandedTab' \in Tabs /\ mouse' \in Tabs \cup {Nothing}
        /\ height' \in [Tabs -> {"closed", "full", "between"}] /\ reopened' \in BOOLEAN
    BY <1>1, <1>2 DEF Ac!TypeOK
  <2> QED BY <2>1, <2>2, <2>3, <2>4 DEF Ac!TypeOK
<1>8. ExpandedInv'
  BY <1>1, <1>5 DEF AccordionInv, ExpandedInv, Ac!Collapsed
<1>9. DisplayInv'
  BY <1>1, <1>4, <1>5 DEF AccordionInv, DisplayInv
<1>10. OpenInv'
  BY <1>1, <1>4, <1>5, <1>6 DEF OpenInv
<1>11. TitleInv'
  BY <1>1, <1>2 DEF AccordionInv, TitleInv, ExpandedInv, Ac!TypeOK, Ac!Collapsed,
      Ac!CollapsedTitle
<1> QED BY <1>7, <1>8, <1>9, <1>10, <1>11 DEF AccordionInv

LEMMA SizeStep ==
  ASSUME Ac!AccordionAssumption, AccordionInv, Ac!AccordionSize
  PROVE  AccordionInv'
<1>1. Ac!TypeOK /\ animations # <<>> /\ UNCHANGED <<lastExpandedTab, bold, mouse, reopened>>
  BY DEF AccordionInv, Ac!AccordionSize
<1> DEFINE a == Head(animations)
           rest == {Tail(animations)[i] : i \in 1..Len(Tail(animations))}
<1>2. /\ a \in Animation /\ Tail(animations) \in Seq(Animation)
      /\ Len(Tail(animations)) = Len(animations) - 1 /\ Len(animations) \in Nat \ {0}
      /\ Animating = rest \cup {a}
  BY <1>1, AnimationsTyped, AnimationsHeadAndTail DEF Animating
<1>3. a.from \in Tabs /\ a.to \in Tabs /\ a.steps \in 0..Steps
  BY <1>2 DEF Animation
<1>4. CASE a.steps = 0
  <2>1. /\ animations' = Tail(animations)
        /\ height' = [height EXCEPT ![a.from] = "closed", ![a.to] = "full"]
        /\ displayed' = displayed \ {a.from}
        /\ expanded' = expanded \cup {lastExpandedTab}
        /\ title' = [title EXCEPT ![lastExpandedTab] = "expanded"]
    BY <1>4 DEF Ac!AccordionSize, Ac!ShowTabDone
  <2>2. Animating' = rest
    BY <2>1 DEF Animating
  <2> HIDE DEF a, rest
  <2>3. Ac!TypeOK'
    <3>1. animations' \in Seq([from : Tabs, to : Tabs, steps : 0..Steps])
      BY <1>2, <2>1 DEF Animation
    <3>2. Len(animations') <= MaxAnimations
      BY <1>1, <1>2, <2>1 DEF Ac!TypeOK, Ac!AccordionAssumption
    <3> QED BY <1>1, <1>3, <2>1, <3>1, <3>2 DEF Ac!TypeOK
  <2>4. ExpandedInv'
    BY <1>1, <2>1 DEF AccordionInv, ExpandedInv
  <2>5. DisplayInv'
    BY <1>1, <1>2, <2>1, <2>2 DEF AccordionInv, DisplayInv
  <2>6. OpenInv'
    BY <1>1, <1>2, <1>3, <2>1, <2>2 DEF AccordionInv, OpenInv, Ac!TypeOK
  <2>7. TitleInv'
    BY <1>1, <2>1 DEF AccordionInv, TitleInv, ExpandedInv, Ac!TypeOK
  <2> QED BY <2>3, <2>4, <2>5, <2>6, <2>7 DEF AccordionInv
<1>5. CASE a.steps # 0
  <2> DEFINE b == [a EXCEPT !.steps = @ - 1]
  <2>1. /\ animations' = Append(Tail(animations), b)
        /\ height' = [height EXCEPT ![a.from] = "between", ![a.to] = "between"]
        /\ UNCHANGED <<expanded, title, displayed>>
    BY <1>5 DEF Ac!AccordionSize, Ac!Resized
  <2>2. b \in Animation /\ b.from = a.from /\ b.to = a.to
    <3> HIDE DEF a
    <3> QED BY <1>2, <1>5 DEF Animation, Ac!AccordionAssumption
  <2> HIDE DEF b
  <2>3. /\ animations' \in Seq(Animation) /\ Len(animations') = Len(animations)
        /\ Animating' = rest \cup {b}
    <3>1. /\ Append(Tail(animations), b) \in Seq(Animation)
          /\ Len(Append(Tail(animations), b)) = Len(Tail(animations)) + 1
          /\ {Append(Tail(animations), b)[i] : i \in 1..Len(Append(Tail(animations), b))}
                = rest \cup {b}
      BY <1>2, <2>2, AnimationAppended
    <3>2. Animating' = {Append(Tail(animations), b)[i] : i \in 1..Len(Append(Tail(animations), b))}
      BY <2>1 DEF Animating
    <3> HIDE DEF a, rest
    <3>3. Animating' = rest \cup {b}
      BY <3>1, <3>2, Zenon
    <3>4. animations' \in Seq(Animation)
      BY <2>1, <3>1
    <3>5. Len(animations') = Len(animations)
      <4>1. Len(animations') = Len(Tail(animations)) + 1
        BY <2>1, <3>1, Zenon
      <4>2. Len(Tail(animations)) = Len(animations) - 1 /\ Len(animations) \in Nat
        BY <1>2
      <4> QED BY <4>1, <4>2
    <3> QED BY <3>3, <3>4, <3>5
  <2> HIDE DEF a, rest
  <2>4. Ac!TypeOK'
    <3>1. animations' \in Seq([from : Tabs, to : Tabs, steps : 0..Steps])
      BY <2>3 DEF Animation
    <3> QED BY <1>1, <1>3, <2>1, <2>3, <3>1 DEF Ac!TypeOK
  <2>5. ExpandedInv'
    BY <1>1, <1>2, <2>1, <2>3 DEF AccordionInv, ExpandedInv
  <2>6. DisplayInv'
    BY <1>1, <1>2, <2>1, <2>2, <2>3 DEF AccordionInv, DisplayInv
  <2>7. OpenInv'
    BY <1>1, <1>2, <1>3, <2>1, <2>2, <2>3 DEF AccordionInv, OpenInv, Ac!TypeOK
  <2>8. TitleInv'
    BY <1>1, <2>1 DEF AccordionInv, TitleInv
  <2> QED BY <2>4, <2>5, <2>6, <2>7, <2>8 DEF AccordionInv
<1> QED BY <1>4, <1>5

LEMMA AccordionMouseStep ==
  ASSUME Ac!AccordionAssumption, AccordionInv, Ac!MouseOver \/ Ac!MouseOut
  PROVE  AccordionInv'
<1>1. /\ UNCHANGED <<lastExpandedTab, expanded, bold, displayed, height, animations, reopened>>
      /\ Ac!TypeOK
  BY DEF Ac!MouseOver, Ac!MouseOut, AccordionInv
<1>2. Animating' = Animating
  BY <1>1 DEF Animating
<1>3. ExpandedInv' /\ DisplayInv' /\ OpenInv'
  BY <1>1, <1>2 DEF AccordionInv, ExpandedInv, DisplayInv, OpenInv
<1>4. Ac!TypeOK' /\ TitleInv'
  BY <1>1 DEF Ac!MouseOver, Ac!MouseOut, AccordionInv, Ac!TypeOK, TitleInv, Ac!AccordionAssumption
<1> QED BY <1>3, <1>4 DEF AccordionInv

LEMMA AccordionInitInv == ASSUME Ac!AccordionAssumption, Ac!Init PROVE AccordionInv
<1>1. animations = <<>> /\ <<>> \in Seq([from : Tabs, to : Tabs, steps : 0..Steps]) /\ Len(<<>>) = 0
  BY EmptySeq DEF Ac!Init
<1>2. Ac!TypeOK
  <2>1. animations \in Seq([from : Tabs, to : Tabs, steps : 0..Steps])
        /\ Len(animations) <= MaxAnimations
    BY <1>1 DEF Ac!AccordionAssumption
  <2>2. title \in [Tabs -> {"expanded", "collapsed", "hover"}]
        /\ height \in [Tabs -> {"closed", "full", "between"}]
    BY DEF Ac!Init
  <2> QED BY <2>1, <2>2 DEF Ac!Init, Ac!TypeOK, Ac!AccordionAssumption
<1>3. Animating = {}
  BY <1>1, <1>2, NoneUnderWay
<1>4. ExpandedInv /\ DisplayInv /\ OpenInv /\ TitleInv
  BY <1>3 DEF Ac!Init, ExpandedInv, DisplayInv, OpenInv, TitleInv, Ac!AccordionAssumption
<1> QED BY <1>2, <1>4 DEF AccordionInv

LEMMA AccordionStepInv ==
  ASSUME Ac!AccordionAssumption, AccordionInv, [Ac!Next]_(Ac!vars)
  PROVE  AccordionInv'
<1>1. CASE UNCHANGED Ac!vars
  <2>1. UNCHANGED <<lastExpandedTab, expanded, bold, title, displayed, height, animations, mouse,
                    reopened>>
    BY <1>1 DEF Ac!vars, Ac!look
  <2>2. Animating' = Animating
    BY <2>1 DEF Animating
  <2>3. Ac!TypeOK'
    BY <2>1 DEF AccordionInv, Ac!TypeOK
  <2> QED BY <2>1, <2>2, <2>3 DEF AccordionInv, ExpandedInv, DisplayInv, OpenInv, TitleInv
<1>2. ASSUME NEW t \in Tabs, NEW animate \in BOOLEAN, Ac!ShowTab(t, animate) PROVE AccordionInv'
  BY <1>2, AtOnceStep, AnimatedStep
<1>3. CASE Ac!Click
  BY <1>2, <1>3 DEF Ac!Click, AccordionInv, Ac!TypeOK
<1>4. CASE Ac!ShowTabByIndex
  BY <1>2, <1>4 DEF Ac!ShowTabByIndex
<1> QED BY <1>1, <1>3, <1>4, SizeStep, AccordionMouseStep DEF Ac!Next

----------------------------------------------------------------------------
\* showTab, showTabDone (rico.js L175-213, L271-291): tabs, titles, contents and
\* animations keep their types.
THEOREM AccordionTypeCorrect == ASSUME Ac!AccordionAssumption PROVE Ac!Spec => []Ac!TypeOK
<1>1. AccordionInv => Ac!TypeOK
  BY DEF AccordionInv
<1> QED BY <1>1, AccordionInitInv, AccordionStepInv, PTL DEF Ac!Spec

\* What the run checks follows.
LEMMA RestsOpen == AccordionInv => Ac!OneTabOpen
BY NoneUnderWay DEF AccordionInv, ExpandedInv, DisplayInv, OpenInv, TitleInv, Ac!OneTabOpen

\* L175-213, L271-291: however clicks, calls of the page and animations overlap,
\* the accordion comes to rest with the tab open that was asked for last, and
\* no other.
THEOREM ComesToRestOpen == ASSUME Ac!AccordionAssumption PROVE Ac!Spec => []Ac!OneTabOpen
<1> QED BY RestsOpen, AccordionInitInv, AccordionStepInv, PTL DEF Ac!Spec

----------------------------------------------------------------------------
(***************************************************************************)
(* Proofs about InPlaceEditor for any set of texts and any number of loads *)
(* under way.  The argument: as long as no save has been abandoned there   *)
(* is at most one, the editor can not be opened while it is under way, and *)
(* what the server has is on view or kept as the old text; and a form that *)
(* was opened when no load was due waits for its own, so it is enabled     *)
(* only when none is under way any more.                                   *)
(***************************************************************************)

\* What the server has is kept or on view.
StoredIsKept ==
    /\ old # Nothing => old = stored /\ save # {}
    /\ old = Nothing => text = stored

\* One save at a time, and no form until it is answered.
OneSave ==
    /\ save = {} \/ \E v \in EditorTexts \cup {Nothing} : save = {v}
    /\ save # {} /\ editorListening => saving
    /\ form # NoForm => save = {} /\ ~saving

SaveInv == ~abandoned => StoredIsKept /\ OneSave

\* A form is the work of an editor in edit mode ...
FormInv == form # NoForm => editing /\ editorListening

\* ... and is enabled by the last of its loads.
NoneDue == loads["collection"] = 0 /\ loads["text"] = 0
LoadInv ==
    form # NoForm /\ ~editorReopened =>
        /\ form.typed => form.enabled
        /\ form.enabled => NoneDue
        /\ loads["collection"] + loads["text"] <= 1

EditorInv == Ed!TypeOK /\ SaveInv /\ FormInv /\ LoadInv

----------------------------------------------------------------------------
LEMMA EditorInitInv ==
  ASSUME Ed!EditorAssumption
  PROVE  Ed!Init => EditorInv
<1> SUFFICES ASSUME Ed!Init PROVE EditorInv
  OBVIOUS
<1>1. Ed!TypeOK
  <2>1. loads \in [Ed!Stages -> 0..MaxLoads] /\ loads["collection"] + loads["text"] <= MaxLoads
    BY DEF Ed!EditorAssumption, Ed!Init, Ed!Stages
  <2> QED BY <2>1 DEF Ed!Init, Ed!TypeOK
<1>2. SaveInv /\ FormInv /\ LoadInv
  BY DEF Ed!Init, SaveInv, StoredIsKept, OneSave, FormInv, LoadInv
<1> QED BY <1>1, <1>2 DEF EditorInv

LEMMA EnterEditModeInv ==
  ASSUME Ed!EditorAssumption, EditorInv, Ed!EnterEditMode
  PROVE  EditorInv'
<1> USE DEF Ed!EnterEditMode, Ed!FirstLoad, Ed!EditField
<1>1. Ed!TypeOK'
  <2>1. loads' \in [Ed!Stages -> 0..MaxLoads] /\ loads'["collection"] + loads'["text"] <= MaxLoads
    BY DEF Ed!EditorAssumption, EditorInv, Ed!TypeOK, Ed!Stages
  <2>2. form' \in [value : EditorTexts \cup {Saving, Nothing}, enabled : BOOLEAN, typed : BOOLEAN]
    BY DEF EditorInv, Ed!TypeOK
  <2>3. editorReopened' \in BOOLEAN
    OBVIOUS
  <2> QED BY <2>1, <2>2, <2>3 DEF EditorInv, Ed!TypeOK
<1>2. SaveInv'
  BY DEF Ed!EditorAssumption, EditorInv, Ed!TypeOK, SaveInv, StoredIsKept, OneSave, FormInv
<1>3. FormInv'
  BY DEF EditorInv, FormInv
<1>4. LoadInv'
  BY DEF Ed!EditorAssumption, EditorInv, Ed!TypeOK, LoadInv, FormInv, NoneDue, Ed!Stages
<1> QED BY <1>1, <1>2, <1>3, <1>4 DEF EditorInv

LEMMA EditorTypeInv ==
  ASSUME Ed!EditorAssumption, EditorInv, Ed!Type
  PROVE  EditorInv'
<1> USE DEF Ed!Type
<1>1. Ed!TypeOK'
  BY DEF Ed!EditorAssumption, EditorInv, Ed!TypeOK, Ed!Stages
<1>2. SaveInv'
  BY DEF Ed!EditorAssumption, EditorInv, Ed!TypeOK, SaveInv, StoredIsKept, OneSave, FormInv
<1>3. FormInv'
  BY DEF EditorInv, FormInv
<1>4. LoadInv'
  BY DEF Ed!EditorAssumption, EditorInv, Ed!TypeOK, LoadInv, FormInv, NoneDue, Ed!Stages
<1> QED BY <1>1, <1>2, <1>3, <1>4 DEF EditorInv

LEMMA SubmitInv ==
  ASSUME Ed!EditorAssumption, EditorInv, Ed!Submit
  PROVE  EditorInv'
<1> USE DEF Ed!Submit, Ed!SentValue
<1>1. Ed!TypeOK'
  BY DEF Ed!EditorAssumption, EditorInv, Ed!TypeOK, Ed!Stages
<1>2. SaveInv'
  BY DEF Ed!EditorAssumption, EditorInv, Ed!TypeOK, SaveInv, StoredIsKept, OneSave, FormInv
<1>3. FormInv'
  BY DEF EditorInv, FormInv
<1>4. LoadInv'
  BY DEF Ed!EditorAssumption, EditorInv, Ed!TypeOK, LoadInv, FormInv, NoneDue, Ed!Stages
<1> QED BY <1>1, <1>2, <1>3, <1>4 DEF EditorInv

LEMMA CancelInv ==
  ASSUME Ed!EditorAssumption, EditorInv, Ed!Cancel
  PROVE  EditorInv'
<1> USE DEF Ed!Cancel, Ed!LeaveEditMode
<1>1. Ed!TypeOK'
  BY DEF Ed!EditorAssumption, EditorInv, Ed!TypeOK, Ed!Stages
<1>2. SaveInv'
  BY DEF Ed!EditorAssumption, EditorInv, Ed!TypeOK, SaveInv, StoredIsKept, OneSave, FormInv
<1>3. FormInv'
  BY DEF EditorInv, FormInv
<1>4. LoadInv'
  BY DEF Ed!EditorAssumption, EditorInv, Ed!TypeOK, LoadInv, FormInv, NoneDue, Ed!Stages
<1> QED BY <1>1, <1>2, <1>3, <1>4 DEF EditorInv

LEMMA EscapeOnElementInv ==
  ASSUME Ed!EditorAssumption, EditorInv, Ed!EscapeOnElement
  PROVE  EditorInv'
<1> USE DEF Ed!EscapeOnElement, Ed!LeaveEditMode
<1>1. Ed!TypeOK'
  BY DEF Ed!EditorAssumption, EditorInv, Ed!TypeOK, Ed!Stages
<1>2. SaveInv'
  BY DEF Ed!EditorAssumption, EditorInv, Ed!TypeOK, SaveInv, StoredIsKept, OneSave, FormInv
<1>3. FormInv'
  BY DEF EditorInv, FormInv
<1>4. LoadInv'
  BY DEF Ed!EditorAssumption, EditorInv, Ed!TypeOK, LoadInv, FormInv, NoneDue, Ed!Stages
<1> QED BY <1>1, <1>2, <1>3, <1>4 DEF EditorInv

LEMMA DestroyInv ==
  ASSUME Ed!EditorAssumption, EditorInv, Ed!Destroy
  PROVE  EditorInv'
<1> USE DEF Ed!Destroy, Ed!LeaveEditMode
<1>1. Ed!TypeOK'
  BY DEF Ed!EditorAssumption, EditorInv, Ed!TypeOK, Ed!Stages
<1>2. SaveInv'
  BY DEF Ed!EditorAssumption, EditorInv, Ed!TypeOK, SaveInv, StoredIsKept, OneSave, FormInv
<1>3. FormInv'
  BY DEF EditorInv, FormInv
<1>4. LoadInv'
  BY DEF Ed!EditorAssumption, EditorInv, Ed!TypeOK, LoadInv, FormInv, NoneDue, Ed!Stages
<1> QED BY <1>1, <1>2, <1>3, <1>4 DEF EditorInv

LEMMA CollectionLoadedInv ==
  ASSUME Ed!EditorAssumption, EditorInv, Ed!CollectionLoaded
  PROVE  EditorInv'
<1> USE DEF Ed!CollectionLoaded
<1>1. Ed!TypeOK'
  <2>1. loads' \in [Ed!Stages -> 0..MaxLoads] /\ loads'["collection"] + loads'["text"] <= MaxLoads
    BY DEF Ed!EditorAssumption, EditorInv, Ed!TypeOK, Ed!Stages
  <2>2. form' \in {NoForm} \cup [value : EditorTexts \cup {Saving, Nothing}, enabled : BOOLEAN,
                                typed : BOOLEAN]
    BY DEF EditorInv, Ed!TypeOK
  <2> QED BY <2>1, <2>2 DEF EditorInv, Ed!TypeOK
<1>2. SaveInv'
  BY DEF Ed!EditorAssumption, EditorInv, Ed!TypeOK, SaveInv, StoredIsKept, OneSave, FormInv
<1>3. FormInv'
  BY DEF EditorInv, FormInv
<1>4. LoadInv'
  BY DEF Ed!EditorAssumption, EditorInv, Ed!TypeOK, LoadInv, FormInv, NoneDue, Ed!Stages
<1> QED BY <1>1, <1>2, <1>3, <1>4 DEF EditorInv

LEMMA TextLoadedInv ==
  ASSUME Ed!EditorAssumption, EditorInv, Ed!TextLoaded
  PROVE  EditorInv'
<1> USE DEF Ed!TextLoaded
<1>1. Ed!TypeOK'
  <2>1. loads' \in [Ed!Stages -> 0..MaxLoads] /\ loads'["collection"] + loads'["text"] <= MaxLoads
    BY DEF Ed!EditorAssumption, EditorInv, Ed!TypeOK, Ed!Stages
  <2>2. form' \in {NoForm} \cup [value : EditorTexts \cup {Saving, Nothing}, enabled : BOOLEAN,
                                typed : BOOLEAN]
    BY DEF EditorInv, Ed!TypeOK
  <2>3. {old', text'} \subseteq EditorTexts \cup {Saving, Nothing}
    BY DEF EditorInv, Ed!TypeOK
  <2> QED BY <2>1, <2>2, <2>3 DEF EditorInv, Ed!TypeOK
<1>2. SaveInv'
  BY DEF Ed!EditorAssumption, EditorInv, Ed!TypeOK, SaveInv, StoredIsKept, OneSave, FormInv
<1>3. FormInv'
  BY DEF EditorInv, FormInv
<1>4. LoadInv'
  <2> SUFFICES ASSUME form' # NoForm, ~editorReopened
               PROVE  /\ form'.typed => form'.enabled
                      /\ form'.enabled => NoneDue'
                      /\ loads'["collection"] + loads'["text"] <= 1
    BY DEF LoadInv
  <2>1. form # NoForm
    OBVIOUS
  <2>2. loads["collection"] = 0 /\ loads["text"] = 1
    BY <2>1 DEF EditorInv, Ed!TypeOK, LoadInv, Ed!Stages
  <2>3. NoneDue' /\ loads'["collection"] + loads'["text"] <= 1
    BY <2>2 DEF EditorInv, Ed!TypeOK, NoneDue, Ed!Stages
  <2>4. form'.typed => form'.enabled
    <3>1. form' = [form EXCEPT !.value = stored, !.enabled = TRUE] \/ form' = form
      BY <2>1
    <3> QED BY <2>1, <3>1 DEF EditorInv, Ed!TypeOK, LoadInv
  <2> QED BY <2>3, <2>4
<1> QED BY <1>1, <1>2, <1>3, <1>4 DEF EditorInv

LEMMA SavedInv ==
  ASSUME Ed!EditorAssumption, EditorInv, Ed!Saved
  PROVE  EditorInv'
<1> USE DEF Ed!Saved, Ed!Accepted, Ed!Failure, Ed!LeaveEditMode
<1>1. Ed!TypeOK'
  BY DEF Ed!EditorAssumption, EditorInv, Ed!TypeOK, Ed!Stages
<1>2. SaveInv'
  BY DEF Ed!EditorAssumption, EditorInv, Ed!TypeOK, SaveInv, StoredIsKept, OneSave, FormInv
<1>3. FormInv'
  BY DEF EditorInv, FormInv
<1>4. LoadInv'
  BY DEF Ed!EditorAssumption, EditorInv, Ed!TypeOK, LoadInv, FormInv, NoneDue, Ed!Stages
<1> QED BY <1>1, <1>2, <1>3, <1>4 DEF EditorInv

LEMMA ReloadInv ==
  ASSUME Ed!EditorAssumption, EditorInv, Ed!Reload
  PROVE  EditorInv'
<1> USE DEF Ed!Reload
<1>1. Ed!TypeOK'
  <2>1. loads' \in [Ed!Stages -> 0..MaxLoads] /\ loads'["collection"] + loads'["text"] <= MaxLoads
    BY DEF Ed!EditorAssumption, Ed!Reload, Ed!Stages
  <2>2. text' \in EditorTexts
    BY DEF EditorInv, Ed!TypeOK
  <2> QED BY <2>1, <2>2 DEF EditorInv, Ed!TypeOK
<1>2. SaveInv'
  BY DEF Ed!EditorAssumption, EditorInv, Ed!TypeOK, SaveInv, StoredIsKept, OneSave, FormInv
<1>3. FormInv'
  BY DEF EditorInv, FormInv
<1>4. LoadInv'
  BY DEF Ed!EditorAssumption, EditorInv, Ed!TypeOK, LoadInv, FormInv, NoneDue, Ed!Stages
<1> QED BY <1>1, <1>2, <1>3, <1>4 DEF EditorInv

----------------------------------------------------------------------------
LEMMA EditorStepInv ==
  ASSUME Ed!EditorAssumption
  PROVE  EditorInv /\ [Ed!Next]_(Ed!vars) => EditorInv'
<1> SUFFICES ASSUME EditorInv, [Ed!Next]_(Ed!vars) PROVE EditorInv'
  OBVIOUS
<1>1. CASE UNCHANGED Ed!vars
  BY <1>1 DEF EditorInv, Ed!TypeOK, SaveInv, StoredIsKept, OneSave, FormInv, LoadInv, NoneDue,
      Ed!vars, Ed!editor
<1> QED
  BY <1>1, EnterEditModeInv, EditorTypeInv, SubmitInv, CancelInv, EscapeOnElementInv, DestroyInv,
     CollectionLoadedInv, TextLoadedInv, SavedInv, ReloadInv DEF Ed!Next

LEMMA EditorInvariance ==
  ASSUME Ed!EditorAssumption
  PROVE  Ed!Spec => []EditorInv
<1>1. Ed!Init => EditorInv
  BY EditorInitInv
<1>2. EditorInv /\ [Ed!Next]_(Ed!vars) => EditorInv'
  BY EditorStepInv
<1> QED BY <1>1, <1>2, PTL DEF Ed!Spec

\* Every reachable state of the editor is well typed.
THEOREM EditorTypeCorrect ==
  ASSUME Ed!EditorAssumption
  PROVE  Ed!Spec => []Ed!TypeOK
<1>1. Ed!Spec => []EditorInv
  BY EditorInvariance
<1> QED BY <1>1, PTL DEF EditorInv

\* Outside edit mode, when no save is under way or abandoned, the element shows
\* what the server has, whatever was cancelled, refused or destroyed before.
THEOREM StoredIsShown ==
  ASSUME Ed!EditorAssumption
  PROVE  Ed!Spec => []Ed!ShowsWhatIsStored
<1>1. Ed!Spec => []EditorInv
  BY EditorInvariance
<1>2. EditorInv => Ed!ShowsWhatIsStored
  BY DEF EditorInv, SaveInv, StoredIsKept, Ed!ShowsWhatIsStored
<1> QED BY <1>1, <1>2, PTL

\* What is typed into a form that was opened when no load was due stays.
LEMMA TypedStep ==
  ASSUME EditorInv, [Ed!Next]_(Ed!vars)
  PROVE  Ed!KeepsTypedText
<1> SUFFICES ASSUME form # NoForm, form' # NoForm, form.typed, ~editorReopened
             PROVE  form'.typed /\ form'.enabled /\ (form'.value = form.value \/ loads' = loads)
  BY DEF Ed!KeepsTypedText
<1>1. NoneDue /\ form.enabled /\ editing
  BY DEF EditorInv, FormInv, LoadInv
<1>2. CASE Ed!Type
  BY <1>1, <1>2 DEF Ed!Type, EditorInv, Ed!TypeOK
<1>3. CASE form' = form
  BY <1>1, <1>3
<1>4. ~Ed!EnterEditMode /\ ~Ed!CollectionLoaded /\ ~Ed!TextLoaded
  BY <1>1 DEF Ed!EnterEditMode, Ed!CollectionLoaded, Ed!TextLoaded, NoneDue, EditorInv, Ed!TypeOK,
      Ed!Stages
<1>5. CASE UNCHANGED Ed!vars
  BY <1>3, <1>5 DEF Ed!vars, Ed!editor
<1> QED
  BY <1>2, <1>3, <1>4, <1>5 DEF Ed!Next, Ed!Submit, Ed!Cancel, Ed!EscapeOnElement, Ed!Destroy,
      Ed!Saved, Ed!Reload, Ed!LeaveEditMode

\* No response replaces or disables what is typed into a form that was opened
\* when no load was due.
THEOREM TypedStays ==
  ASSUME Ed!EditorAssumption
  PROVE  Ed!Spec => Ed!TypedTextIsKept
<1>1. Ed!Spec => []EditorInv
  BY EditorInvariance
<1>2. EditorInv /\ [Ed!Next]_(Ed!vars) => [Ed!KeepsTypedText]_(Ed!vars)
  BY TypedStep
<1> QED BY <1>1, <1>2, PTL DEF Ed!Spec, Ed!TypedTextIsKept

----------------------------------------------------------------------------
(***************************************************************************)
(* Proofs about Slider for any number of handles, any range and any        *)
(* allowed values. The argument: a handle is set between its neighbours    *)
(* only, before what is asked for is rounded to an allowed value; rounding *)
(* keeps order and leaves alone what is allowed; and a value is changed    *)
(* only by a step that reports it, or that the page hears of when the drag *)
(* ends.                                                                   *)
(***************************************************************************)

\* The values a handle may come to rest at.
SliderRange == IF allowed = {} THEN SliderStart..SliderEnd ELSE allowed

\* The handles are in order, and what the page knows is where they are.
SliderInv ==
    /\ Sl!TypeOK
    /\ handleDragging => handleActive
    /\ Sl!HandlesInOrder
    /\ Sl!ChangeIsReported

\* getNearestValue takes the greatest of the allowed values that are nearest.
Far(a, v) == IF a < v THEN v - a ELSE a - v
Nearest(v) == {a \in allowed : \A x \in allowed : Far(a, v) <= Far(x, v)}

LEMMA SomeAreNearest ==
  ASSUME Sl!SliderAssumption, allowed \in Alloweds, allowed # {}, NEW v \in Int
  PROVE  /\ Sl!Max(Nearest(v)) \in Nearest(v)
         /\ \A a \in Nearest(v) : a <= Sl!Max(Nearest(v))
<1>1. allowed \in SUBSET (SliderStart..SliderEnd) /\ SliderStart \in Int /\ SliderEnd \in Int
  BY DEF Sl!SliderAssumption
<1> DEFINE D == {Far(a, v) : a \in allowed}
<1>2. D \in SUBSET Nat /\ D # {}
  <2>1. \A a \in Int : Far(a, v) \in Nat
    BY DEF Far
  <2>2. allowed \in SUBSET Int
    BY <1>1
  <2> QED BY <2>1, <2>2
<1>3. \E d \in D : \A e \in D : d <= e
  <2> HIDE DEF D
  <2> QED BY <1>2, LeastOf
<1>4. Nearest(v) # {}
  BY <1>3 DEF Nearest
<1>5. Nearest(v) \in SUBSET (SliderStart..SliderEnd)
  BY <1>1 DEF Nearest
<1>6. \E m \in Nearest(v) : \A n \in Nearest(v) : n <= m
  BY <1>1, <1>4, <1>5, GreatestOf
<1>7. \E m \in Nearest(v) : \A n \in Nearest(v) : m >= n
  BY <1>1, <1>5, <1>6
<1>8. /\ Sl!Max(Nearest(v)) \in Nearest(v)
      /\ \A n \in Nearest(v) : Sl!Max(Nearest(v)) >= n
  BY <1>7, Zenon DEF Sl!Max
<1> QED BY <1>1, <1>5, <1>8

LEMMA NearestIsMax ==
  ASSUME allowed # {}, NEW v, v # NaN
  PROVE  Sl!NearestValue(v) = Sl!Max(Nearest(v))
BY DEF Sl!NearestValue, Nearest, Far

\* getNearestValue
LEMMA NearestInRange ==
  ASSUME Sl!SliderAssumption, allowed \in Alloweds, NEW v \in Int
  PROVE  /\ Sl!NearestValue(v) \in SliderRange
         /\ v \in SliderRange => Sl!NearestValue(v) = v
<1>1. CASE allowed = {}
  BY <1>1 DEF Sl!NearestValue, Sl!Less, SliderRange, Sl!SliderAssumption
<1>2. CASE allowed # {}
  <2>1. /\ allowed \in SUBSET (SliderStart..SliderEnd)
        /\ SliderStart \in Int /\ SliderEnd \in Int /\ v # NaN
    BY DEF Sl!SliderAssumption
  <2> DEFINE m == Sl!Max(Nearest(v))
  <2>2. Sl!NearestValue(v) = m
    BY <1>2, <2>1, NearestIsMax
  <2>3. m \in Nearest(v)
    BY <1>2, SomeAreNearest
  <2> HIDE DEF m
  <2>4. m \in allowed /\ \A x \in allowed : Far(m, v) <= Far(x, v)
    BY <2>3 DEF Nearest
  <2>5. v \in allowed => m = v
    BY <2>1, <2>4 DEF Far
  <2> QED BY <1>2, <2>2, <2>4, <2>5 DEF SliderRange
<1> QED BY <1>1, <1>2

\* Rounding to an allowed value keeps order.
LEMMA NearestMonotone ==
  ASSUME Sl!SliderAssumption, allowed \in Alloweds, NEW v \in Int, NEW w \in Int, v <= w
  PROVE  Sl!NearestValue(v) <= Sl!NearestValue(w)
<1>1. CASE allowed = {}
  BY <1>1 DEF Sl!NearestValue, Sl!Less, Sl!SliderAssumption
<1>2. CASE allowed # {}
  <2>1. /\ allowed \in SUBSET (SliderStart..SliderEnd)
        /\ SliderStart \in Int /\ SliderEnd \in Int /\ v # NaN /\ w # NaN
    BY DEF Sl!SliderAssumption
  <2> DEFINE p == Sl!Max(Nearest(v))
             q == Sl!Max(Nearest(w))
  <2>2. Sl!NearestValue(v) = p /\ Sl!NearestValue(w) = q
    BY <1>2, <2>1, NearestIsMax
  <2>3. p \in Nearest(v) /\ q \in Nearest(w) /\ \A a \in Nearest(w) : a <= q
    BY <1>2, SomeAreNearest
  <2> HIDE DEF p, q
  <2>4. p \in Int /\ q \in Int /\ p \in allowed /\ q \in allowed
    BY <2>1, <2>3 DEF Nearest
  <2>5. /\ Far(p, v) <= Far(q, v)
        /\ \A x \in allowed : Far(q, w) <= Far(x, w)
    BY <2>3, <2>4 DEF Nearest
  <2>6. SUFFICES ASSUME q < p PROVE FALSE
    BY <2>2, <2>4
  <2>7. p \notin Nearest(w)
    BY <2>3, <2>4, <2>6
  <2>8. PICK x \in allowed : ~(Far(p, w) <= Far(x, w))
    BY <2>4, <2>7 DEF Nearest
  <2>9. x \in Int
    BY <2>1
  <2>10. Far(q, w) <= Far(x, w)
    BY <2>5
  <2>11. Far(q, w) < Far(p, w)
    BY <2>4, <2>8, <2>9, <2>10 DEF Far
  <2> QED BY <2>4, <2>5, <2>6, <2>11 DEF Far
<1> QED BY <1>1, <1>2

LEMMA NearestType ==
  ASSUME Sl!SliderAssumption, allowed \in Alloweds, NEW v \in Int \cup {NaN}
  PROVE  Sl!NearestValue(v) \in SliderRange \cup {NaN}
<1>1. CASE v # NaN
  BY <1>1, NearestInRange
<1>2. CASE v = NaN /\ allowed = {}
  BY <1>2 DEF Sl!NearestValue, Sl!Less
<1>3. CASE v = NaN /\ allowed # {}
  <2>1. allowed \in SUBSET (SliderStart..SliderEnd) /\ SliderStart \in Int /\ SliderEnd \in Int
    BY DEF Sl!SliderAssumption
  <2> DEFINE D == {a - SliderStart : a \in allowed}
  <2>2. D \in SUBSET Nat /\ D # {}
    BY <1>3, <2>1
  <2>3. PICK d \in D : \A e \in D : d <= e
    BY <2>2, LeastOf, Zenon
  <2>4. PICK a \in allowed : d = a - SliderStart
    OBVIOUS
  <2>5. \A x \in allowed : a <= x
    <3>1. \A x \in allowed : a - SliderStart <= x - SliderStart
      BY <2>3, <2>4
    <3> QED BY <2>1, <3>1
  <2>6. Sl!Min(allowed) \in allowed
    BY <2>5, Zenon DEF Sl!Min
  <2> QED BY <1>3, <2>6 DEF Sl!NearestValue, SliderRange
<1> QED BY <1>1, <1>2, <1>3

\* setValue() for handle h: the handles stay in order.
LEMMA SetInOrder ==
  ASSUME Sl!SliderAssumption, Sl!TypeOK, NEW h \in Sl!Handles, NEW v \in Sl!Numbers,
         NEW new, new = [values EXCEPT ![h] = Sl!NearestValue(Sl!Restricted(v, h))],
         \A i \in Sl!Handles : values[i] \in SliderRange,
         restricted => \A i, j \in Sl!Handles : i <= j => values[i] <= values[j]
  PROVE  /\ \A i \in Sl!Handles : new[i] \in SliderRange
         /\ restricted => \A i, j \in Sl!Handles : i <= j => new[i] <= new[j]
<1> DEFINE r == Sl!Restricted(v, h)
<1>1. /\ SliderRange \subseteq SliderStart..SliderEnd
      /\ SliderStart \in Int /\ SliderEnd \in Int /\ allowed \in Alloweds
      /\ v \in Int /\ Last \in Nat /\ NaN \notin Int
  BY DEF Sl!SliderAssumption, SliderRange, Sl!TypeOK, Sl!Numbers
<1>2. \A i \in Sl!Handles : values[i] \in Int /\ values[i] # NaN
  <2> SUFFICES ASSUME NEW i \in Sl!Handles PROVE values[i] \in Int /\ values[i] # NaN
    OBVIOUS
  <2> HIDE DEF r
  <2>1. values[i] \in SliderRange
    OBVIOUS
  <2>2. values[i] \in SliderStart..SliderEnd
    BY <1>1, <2>1, Zenon
  <2>3. SliderStart..SliderEnd \subseteq Int
    BY <1>1
  <2> QED BY <1>1, <2>2, <2>3, Zenon
<1>3. /\ h > 0 => h - 1 \in Sl!Handles
      /\ h < Last => h + 1 \in Sl!Handles
      /\ Sl!Handles \subseteq Nat
  BY <1>1 DEF Sl!Handles
<1>4. ASSUME restricted, NEW i \in Sl!Handles, NEW j \in Sl!Handles, i <= j
      PROVE  values[i] <= values[j]
  BY <1>4
<1>41. /\ r \in Int
       /\ restricted /\ h > 0 => values[h - 1] <= r
       /\ restricted /\ h < Last => r <= values[h + 1]
  <2> DEFINE below == values[h - 1]
             beyond == values[h + 1]
  <2>1. CASE ~restricted
    BY <1>1, <2>1 DEF Sl!Restricted
  <2>2. CASE restricted
    <3>1. h > 0 => below \in Int /\ below # NaN
      BY <1>2, <1>3
    <3>2. h < Last => beyond \in Int /\ beyond # NaN
      BY <1>2, <1>3
    <3>3. h > 0 /\ h < Last => below <= beyond
      BY <1>1, <1>3, <1>4, <2>2
    <3>4. v # NaN /\ h \in Nat
      BY <1>1, <1>3
    <3>5. r = LET above == IF h > 0 /\ Sl!Less(v, below) THEN below ELSE v
              IN  IF h < Last /\ Sl!Less(beyond, above) THEN beyond ELSE above
      BY <2>2 DEF Sl!Restricted
    <3> HIDE DEF r, below, beyond
    <3>6. r \in Int /\ (h > 0 => below <= r) /\ (h < Last => r <= beyond)
      BY <1>1, <3>1, <3>2, <3>3, <3>4, <3>5 DEF Sl!Less
    <3> QED BY <2>2, <3>6 DEF below, beyond
  <2> QED BY <2>1, <2>2
<1> HIDE DEF r
<1>5. Sl!NearestValue(r) \in SliderRange
  BY <1>1, <1>41, NearestInRange
<1>6. /\ new[h] = Sl!NearestValue(r)
      /\ \A i \in Sl!Handles \ {h} : new[i] = values[i]
  BY DEF Sl!TypeOK, r
<1>7. ASSUME restricted, NEW i \in Sl!Handles, NEW j \in Sl!Handles, i <= j
      PROVE  new[i] <= new[j]
  <2>1. CASE i # h /\ j # h
    <3>1. new[i] = values[i] /\ new[j] = values[j]
      BY <1>6, <2>1
    <3>2. values[i] <= values[j]
      BY <1>4, <1>7
    <3> QED BY <3>1, <3>2, Zenon
  <2>2. CASE i = h /\ j = h
    <3>1. new[h] \in SliderStart..SliderEnd
      BY <1>1, <1>5, <1>6, Zenon
    <3>2. \A n \in SliderStart..SliderEnd : n <= n
      BY <1>1
    <3> QED BY <2>2, <3>1, <3>2, Zenon
  <2>3. CASE i = h /\ j # h
    <3>1. h < Last /\ h + 1 <= j
      BY <1>1, <1>3, <1>7, <2>3 DEF Sl!Handles
    <3>2. r <= values[h + 1] /\ values[h + 1] <= values[j]
      BY <1>3, <1>4, <1>41, <1>7, <3>1
    <3>3. values[j] \in Int /\ values[h + 1] \in Int /\ r <= values[j]
      BY <1>2, <1>3, <1>41, <3>1, <3>2
    <3>4. Sl!NearestValue(r) <= Sl!NearestValue(values[j])
      BY <1>1, <1>41, <3>3, NearestMonotone
    <3>5. Sl!NearestValue(values[j]) = values[j]
      BY <1>1, <3>3, NearestInRange
    <3> QED BY <1>6, <2>3, <3>4, <3>5
  <2>4. CASE i # h /\ j = h
    <3>1. h > 0 /\ i <= h - 1
      BY <1>1, <1>3, <1>7, <2>4 DEF Sl!Handles
    <3>2. values[h - 1] <= r /\ values[i] <= values[h - 1]
      BY <1>3, <1>4, <1>41, <1>7, <3>1
    <3>3. values[i] \in Int /\ values[h - 1] \in Int /\ values[i] <= r
      BY <1>2, <1>3, <1>41, <3>1, <3>2
    <3>4. Sl!NearestValue(values[i]) <= Sl!NearestValue(r)
      BY <1>1, <1>41, <3>3, NearestMonotone
    <3>5. Sl!NearestValue(values[i]) = values[i]
      BY <1>1, <3>3, NearestInRange
    <3> QED BY <1>6, <2>4, <3>4, <3>5
  <2> QED BY <2>1, <2>2, <2>3, <2>4
<1> QED BY <1>5, <1>6, <1>7

LEMMA SliderInitInv == ASSUME Sl!SliderAssumption, Sl!Init PROVE SliderInv
<1>1. PICK f \in [Sl!Handles -> SliderStart..SliderEnd] :
        /\ restricted => \A i, j \in Sl!Handles : i <= j => f[i] <= f[j]
        /\ values = [i \in Sl!Handles |-> Sl!NearestValue(f[i])]
  BY DEF Sl!Init
<1>2. /\ SliderStart \in Int /\ SliderEnd \in Int /\ Last \in Nat /\ allowed \in Alloweds
      /\ SliderRange \subseteq SliderStart..SliderEnd
  BY DEF Sl!Init, Sl!SliderAssumption, SliderRange
<1>3. \A i \in Sl!Handles : f[i] \in Int
  BY <1>2
<1>4. \A i \in Sl!Handles : values[i] = Sl!NearestValue(f[i]) /\ values[i] \in SliderRange
  BY <1>1, <1>2, <1>3, NearestInRange
<1>5. restricted => \A i, j \in Sl!Handles : i <= j => values[i] <= values[j]
  <2> SUFFICES ASSUME restricted, NEW i \in Sl!Handles, NEW j \in Sl!Handles, i <= j
               PROVE  values[i] <= values[j]
    OBVIOUS
  <2>1. f[i] <= f[j] /\ f[i] \in Int /\ f[j] \in Int
    BY <1>1, <1>3
  <2>2. Sl!NearestValue(f[i]) <= Sl!NearestValue(f[j])
    BY <1>2, <2>1, NearestMonotone
  <2> QED BY <1>4, <2>2
<1>6. Sl!HandlesInOrder
  BY <1>4, <1>5, Zenon DEF Sl!HandlesInOrder, SliderRange
<1>7. values \in [Sl!Handles -> Sl!Numbers \cup {NaN}]
  <2>1. \A i \in Sl!Handles : values[i] \in Sl!Numbers
    <3>1. SliderStart..SliderEnd \subseteq Sl!Numbers
      BY <1>2 DEF Sl!Numbers
    <3> QED BY <1>2, <1>4, <3>1, Zenon
  <2> QED BY <1>1, <2>1
<1>8. Sl!TypeOK
  <2>1. 0 \in Sl!Handles
    BY <1>2 DEF Sl!Handles
  <2> QED BY <1>2, <1>7, <2>1 DEF Sl!Init, Sl!TypeOK
<1> QED BY <1>6, <1>8 DEF Sl!Init, SliderInv, Sl!ChangeIsReported

\* A step that sets the value of a handle.
LEMMA SetValueInv ==
  ASSUME Sl!SliderAssumption, SliderInv, NEW i \in Sl!Handles, NEW c \in Sl!Handles,
         NEW v \in Sl!Numbers \cup {NaN}, NEW now \in BOOLEAN, NEW e \in BOOLEAN,
         Sl!SetValue(v, i, c, now, e),
         v = NaN => blind', blind => blind', UNCHANGED <<restricted, allowed>>,
         handleDragging' = now
  PROVE  /\ values' \in [Sl!Handles -> Sl!Numbers \cup {NaN}]
         /\ reported' \in [Sl!Handles -> Sl!Numbers \cup {NaN}]
         /\ sliderEvent' \in BOOLEAN
         /\ Sl!HandlesInOrder'
         /\ Sl!ChangeIsReported'
<1> DEFINE h == IF i # 0 THEN i ELSE c
           r == Sl!Restricted(v, h)
<1>1. /\ h \in Sl!Handles
      /\ values' = [values EXCEPT ![h] = Sl!NearestValue(r)]
      /\ IF now /\ e THEN sliderEvent' = e /\ UNCHANGED reported
         ELSE sliderEvent' = FALSE /\ reported' = values'
  BY DEF Sl!SetValue, Sl!Finished
<1>2. /\ SliderStart \in Int /\ SliderEnd \in Int /\ Last \in Nat /\ allowed \in Alloweds /\ Sl!TypeOK
      /\ SliderRange \subseteq SliderStart..SliderEnd /\ SliderRange \subseteq Sl!Numbers
      /\ Sl!Numbers \subseteq Int
  BY DEF SliderInv, Sl!TypeOK, Sl!SliderAssumption, SliderRange, Sl!Numbers
<1>3. r \in Int \cup {NaN}
  <2>1. \A j \in Sl!Handles : values[j] \in Int \cup {NaN}
    BY <1>2 DEF Sl!TypeOK
  <2>2. /\ h > 0 => h - 1 \in Sl!Handles
        /\ h < Last => h + 1 \in Sl!Handles
    BY <1>1, <1>2 DEF Sl!Handles
  <2>3. v \in Int \cup {NaN}
    BY <1>2
  <2> HIDE DEF h
  <2> QED BY <2>1, <2>2, <2>3 DEF Sl!Restricted
<1> HIDE DEF h, r
<1>4. Sl!NearestValue(r) \in Sl!Numbers \cup {NaN}
  BY <1>2, <1>3, NearestType
<1>5. values' \in [Sl!Handles -> Sl!Numbers \cup {NaN}]
  BY <1>1, <1>2, <1>4 DEF Sl!TypeOK
<1>6. reported' \in [Sl!Handles -> Sl!Numbers \cup {NaN}] /\ sliderEvent' \in BOOLEAN
  BY <1>1, <1>2, <1>5 DEF Sl!TypeOK
<1>7. Sl!HandlesInOrder'
  <2> SUFFICES ASSUME ~blind' PROVE Sl!HandlesInOrder'
    BY DEF Sl!HandlesInOrder
  <2>1. v \in Sl!Numbers /\ ~blind
    OBVIOUS
  <2>2. /\ \A j \in Sl!Handles : values[j] \in SliderRange
        /\ restricted => \A j, k \in Sl!Handles : j <= k => values[j] <= values[k]
    BY <2>1, Zenon DEF SliderInv, Sl!HandlesInOrder, SliderRange
  <2>3. /\ \A j \in Sl!Handles : values'[j] \in SliderRange
        /\ restricted => \A j, k \in Sl!Handles : j <= k => values'[j] <= values'[k]
    BY <1>1, <1>2, <2>1, <2>2, SetInOrder DEF r
  <2> QED BY <2>3, Zenon DEF Sl!HandlesInOrder, SliderRange
<1>8. Sl!ChangeIsReported'
  BY <1>1 DEF Sl!ChangeIsReported
<1> QED BY <1>5, <1>6, <1>7, <1>8

LEMMA SliderStepInv ==
  ASSUME Sl!SliderAssumption, SliderInv, [Sl!Next]_(Sl!vars)
  PROVE  SliderInv'
<1> USE DEF SliderInv, Sl!TypeOK
<1>1. /\ 0 \in Sl!Handles /\ Sl!Numbers \subseteq Sl!Numbers \cup {NaN} /\ NaN \notin Sl!Numbers
      /\ {restricted, handleActive, handleDragging, sliderDisabled, sliderEvent, offset,
           sliderListening, blind} \subseteq BOOLEAN
      /\ allowed \in Alloweds /\ handle \in Sl!Handles
  BY DEF Sl!SliderAssumption, Sl!Handles, Sl!Numbers
<1>2. CASE Sl!PressTrack
  <2>1. PICK v \in Sl!Numbers : Sl!SetValue(v, 0, handle, handleDragging, TRUE)
    BY <1>2 DEF Sl!PressTrack
  <2>2. /\ handleActive' = TRUE /\ offset' = TRUE
        /\ UNCHANGED <<restricted, allowed, handle, handleDragging, sliderDisabled,
                       sliderListening, blind>>
    BY <1>2 DEF Sl!PressTrack, Sl!options
  <2>3. /\ {values', reported'} \subseteq [Sl!Handles -> Sl!Numbers \cup {NaN}]
        /\ sliderEvent' \in BOOLEAN /\ Sl!HandlesInOrder' /\ Sl!ChangeIsReported'
    <3>1. v # NaN /\ v \in Sl!Numbers \cup {NaN} /\ handleDragging \in BOOLEAN
      BY <1>1
    <3> HIDE DEF SliderInv, Sl!TypeOK
    <3>2. /\ values' \in [Sl!Handles -> Sl!Numbers \cup {NaN}]
          /\ reported' \in [Sl!Handles -> Sl!Numbers \cup {NaN}]
          /\ sliderEvent' \in BOOLEAN /\ Sl!HandlesInOrder' /\ Sl!ChangeIsReported'
      BY <1>1, <2>1, <2>2, <3>1, SetValueInv
    <3> QED BY <3>2
  <2> QED BY <1>1, <2>2, <2>3
<1>3. CASE Sl!MouseMove
  <2>1. PICK v \in IF offset THEN Sl!Numbers ELSE {NaN} : Sl!SetValue(v, 0, handle, TRUE, TRUE)
    BY <1>3 DEF Sl!MouseMove
  <2>2. /\ handleDragging' = TRUE /\ handleActive /\ blind' = (blind \/ ~offset)
        /\ UNCHANGED <<restricted, allowed, handle, handleActive, offset, sliderDisabled,
                       sliderListening>>
    BY <1>3 DEF Sl!MouseMove, Sl!options
  <2>3. v \in Sl!Numbers \cup {NaN} /\ (v = NaN => blind') /\ (blind => blind')
    BY <1>1, <2>1, <2>2
  <2>4. /\ {values', reported'} \subseteq [Sl!Handles -> Sl!Numbers \cup {NaN}]
        /\ sliderEvent' \in BOOLEAN /\ Sl!HandlesInOrder' /\ Sl!ChangeIsReported'
    <3> HIDE DEF SliderInv, Sl!TypeOK
    <3>1. /\ values' \in [Sl!Handles -> Sl!Numbers \cup {NaN}]
          /\ reported' \in [Sl!Handles -> Sl!Numbers \cup {NaN}]
          /\ sliderEvent' \in BOOLEAN /\ Sl!HandlesInOrder' /\ Sl!ChangeIsReported'
      BY <1>1, <2>1, <2>2, <2>3, SetValueInv
    <3> QED BY <3>1
  <2> QED BY <1>1, <2>2, <2>4
<1>4. CASE Sl!PageSetsValue
  <2>1. PICK v \in Sl!Numbers, i \in Sl!Handles :
          LET current == IF handleActive THEN handle ELSE i
          IN  handle' = current /\ Sl!SetValue(v, i, current, handleDragging, sliderEvent)
    BY <1>4 DEF Sl!PageSetsValue
  <2>2. UNCHANGED <<restricted, allowed, handleActive, handleDragging, offset, blind,
                    sliderDisabled, sliderListening>>
    BY <1>4 DEF Sl!PageSetsValue, Sl!options
  <2>3. handle' \in Sl!Handles /\ Sl!SetValue(v, i, handle', handleDragging, sliderEvent)
    BY <1>1, <2>1
  <2>4. /\ {values', reported'} \subseteq [Sl!Handles -> Sl!Numbers \cup {NaN}]
        /\ sliderEvent' \in BOOLEAN /\ Sl!HandlesInOrder' /\ Sl!ChangeIsReported'
    <3> HIDE DEF SliderInv, Sl!TypeOK
    <3>1. handleDragging \in BOOLEAN /\ sliderEvent \in BOOLEAN /\ v \in Sl!Numbers \cup {NaN} /\ v # NaN
      BY <1>1
    <3>2. /\ values' \in [Sl!Handles -> Sl!Numbers \cup {NaN}]
          /\ reported' \in [Sl!Handles -> Sl!Numbers \cup {NaN}]
          /\ sliderEvent' \in BOOLEAN /\ Sl!HandlesInOrder' /\ Sl!ChangeIsReported'
      BY <2>2, <2>3, <3>1, SetValueInv
    <3> QED BY <3>2
  <2> QED BY <1>1, <2>2, <2>3, <2>4
<1>5. CASE Sl!MouseUp
  BY <1>1, <1>5 DEF Sl!MouseUp, Sl!Finished, Sl!options, Sl!HandlesInOrder, Sl!ChangeIsReported
<1>6. UNCHANGED <<restricted, allowed, values, blind>> => Sl!HandlesInOrder'
  BY DEF Sl!HandlesInOrder
<1>7. CASE Sl!PressHandle
  BY <1>1, <1>6, <1>7 DEF Sl!PressHandle, Sl!options, Sl!ChangeIsReported
<1>8. CASE Sl!PressInside
  BY <1>1, <1>6, <1>8 DEF Sl!PressInside, Sl!options, Sl!ChangeIsReported
<1>9. CASE Sl!SetDisabled
  BY <1>1, <1>6, <1>9 DEF Sl!SetDisabled, Sl!options, Sl!drag, Sl!ChangeIsReported
<1>10. CASE Sl!Dispose
  BY <1>1, <1>6, <1>10 DEF Sl!Dispose, Sl!options, Sl!drag, Sl!ChangeIsReported
<1>11. CASE UNCHANGED Sl!vars
  BY <1>1, <1>6, <1>11 DEF Sl!vars, Sl!options, Sl!drag, Sl!ChangeIsReported
<1> QED BY <1>2, <1>3, <1>4, <1>5, <1>7, <1>8, <1>9, <1>10, <1>11 DEF Sl!Next

\* slider.js L105-274: the state of the slider keeps its types.
THEOREM SliderTypeCorrect ==
  ASSUME Sl!SliderAssumption
  PROVE  Sl!Spec => []Sl!TypeOK
<1>1. SliderInv => Sl!TypeOK
  BY DEF SliderInv
<1> QED BY <1>1, SliderInitInv, SliderStepInv, PTL DEF Sl!Spec

\* slider.js L105-140: handles that are restricted never pass each other, and
\* each stays at an allowed value, for any number of handles and any range.
THEOREM HandlesStayInOrder ==
  ASSUME Sl!SliderAssumption
  PROVE  Sl!Spec => [](Sl!HandlesInOrder /\ Sl!ChangeIsReported)
<1>1. SliderInv => Sl!HandlesInOrder /\ Sl!ChangeIsReported
  BY DEF SliderInv
<1> QED BY <1>1, SliderInitInv, SliderStepInv, PTL DEF Sl!Spec

----------------------------------------------------------------------------
(***************************************************************************)
(* Proofs about Autocompleter for any texts, any number of entries and of  *)
(* requests under way. The argument: the last request that is under way is *)
(* for the text, or a timer is set that will ask for it, unless responses  *)
(* have overtaken one another or were dropped for typing; and a menu is    *)
(* active only in focus, with its index on an entry and, unless it was     *)
(* asked up during a fade, with no fade under way that could hide it.      *)
(***************************************************************************)

\* The types, one by one.
MenuBooleans ==
    /\ local \in BOOLEAN /\ changed \in BOOLEAN /\ hasFocus \in BOOLEAN /\ menuActive \in BOOLEAN
    /\ shown \in BOOLEAN /\ indicator \in BOOLEAN /\ pauseTimer \in BOOLEAN /\ hiding \in BOOLEAN
    /\ straight \in BOOLEAN /\ hidden \in BOOLEAN

MenuData ==
    /\ fieldText \in MenuTexts /\ choicesFor \in MenuTexts
    /\ index \in 0..MaxEntries /\ entryCount \in 0..MaxEntries
    /\ requests \in Seq(MenuTexts) /\ Len(requests) <= MaxRequests
    /\ appears \in Nat /\ fades \in Nat /\ appears + fades <= MaxMenuEffects

\* While responses are neither overtaken nor dropped for typing, the last of
\* the requests under way is for the text, or else the choices there are.
ChoicesFollow ==
    straight /\ ~pauseTimer =>
        IF requests = <<>> THEN menuActive => choicesFor = fieldText
        ELSE requests[Len(requests)] = fieldText

\* Only a field in focus has an active menu, and a change waits for a pause.
MenuFlags ==
    /\ local => requests = <<>>
    /\ menuActive => hasFocus
    /\ changed => pauseTimer
    /\ menuActive => index < entryCount
    /\ menuActive /\ ~hidden => fades = 0 /\ (shown \/ appears > 0)
    /\ indicator /\ hasFocus => requests # <<>> \/ pauseTimer

MenuInv == MenuBooleans /\ MenuData /\ MenuFlags /\ ChoicesFollow

\* What the runs check follows.
LEMMA MenuFacts ==
  MenuInv => Au!TypeOK /\ Au!SelectsWhatIsShown /\ Au!MenuIsCurrent /\ Au!IndicatorStops
<1> SUFFICES ASSUME MenuInv PROVE Au!TypeOK /\ Au!SelectsWhatIsShown /\ Au!MenuIsCurrent /\ Au!IndicatorStops
  OBVIOUS
<1>1. Au!TypeOK
  BY ZenonT(60) DEF MenuInv, MenuBooleans, MenuData, Au!TypeOK
<1>2. Au!SelectsWhatIsShown /\ Au!IndicatorStops
  BY DEF MenuInv, MenuFlags, Au!SelectsWhatIsShown, Au!IndicatorStops
<1>3. Au!MenuIsCurrent
  BY DEF MenuInv, ChoicesFollow, Au!MenuIsCurrent
<1> QED BY <1>1, <1>2, <1>3

\* At the start.
LEMMA MenuInitInv == ASSUME Au!AutocompleterAssumption, Au!Init PROVE MenuInv
<1>1. MenuBooleans
  BY DEF MenuBooleans, Au!Init
<1>2. MenuData
  <2>1. requests \in Seq(MenuTexts) /\ Len(requests) = 0
    BY EmptySeq DEF Au!Init
  <2> QED BY <2>1 DEF MenuData, Au!AutocompleterAssumption, Au!Init
<1>3. MenuFlags /\ ChoicesFollow
  BY DEF MenuFlags, ChoicesFollow, Au!Init
<1> QED BY <1>1, <1>2, <1>3 DEF MenuInv

\* What the effects show and hide; a menu asked up while no fade is under way
\* is displayed or about to be.
LEMMA DisplayTyped ==
  ASSUME Au!AutocompleterAssumption, MenuInv, Au!Show \/ Au!FadeOut \/ UNCHANGED <<shown, appears, fades>>
  PROVE  shown' \in BOOLEAN /\ appears' \in Nat /\ fades' \in Nat /\ appears' + fades' <= MaxMenuEffects
BY SMTT(30) DEF MenuInv, MenuBooleans, MenuData, Au!AutocompleterAssumption, Au!Show, Au!FadeOut, Au!display

LEMMA RenderFacts ==
  ASSUME Au!AutocompleterAssumption, MenuInv, NEW n \in 0..MaxEntries, NEW i, NEW focused \in BOOLEAN,
         menuActive => focused, Au!Render(n, i, focused)
  PROVE  /\ shown' \in BOOLEAN /\ hidden' \in BOOLEAN
         /\ appears' \in Nat /\ fades' \in Nat /\ appears' + fades' <= MaxMenuEffects
         /\ entryCount' = n /\ index' = i
         /\ menuActive' = (n > 0 /\ (menuActive \/ focused))
         /\ menuActive' /\ ~hidden' => fades' = 0 /\ (shown' \/ appears' > 0)
<1>1. Au!Show \/ Au!FadeOut \/ UNCHANGED <<shown, appears, fades>>
  BY DEF Au!Render, Au!display
<1>2. shown' \in BOOLEAN /\ appears' \in Nat /\ fades' \in Nat /\ appears' + fades' <= MaxMenuEffects
  BY <1>1, DisplayTyped
<1>3. /\ entryCount' = n /\ index' = i /\ menuActive' = (n > 0 /\ (menuActive \/ focused))
      /\ hidden' \in BOOLEAN
  <2>1. entryCount' = n /\ index' = i /\ menuActive' = (n > 0 /\ (menuActive \/ focused))
    BY DEF Au!Render
  <2>2. hidden \in BOOLEAN /\ fades \in Nat /\ (hidden' = (fades > 0) \/ hidden' = hidden)
    BY DEF Au!Render, MenuInv, MenuBooleans, MenuData
  <2>3. (fades > 0) \in BOOLEAN
    BY <2>2
  <2> QED BY <2>1, <2>2, <2>3
<1>4. ASSUME menuActive', ~hidden' PROVE fades' = 0 /\ (shown' \/ appears' > 0)
  <2>1. n > 0 /\ focused /\ Au!Show /\ fades = 0 /\ appears \in Nat
    BY <1>3, <1>4 DEF Au!Render, MenuInv, MenuData
  <2> QED BY <2>1 DEF Au!Show, Au!display
<1> QED BY <1>2, <1>3, <1>4

\* The menu is left: by Tab, Return and Escape, a click, a text too short.
LEMMA LeftFacts ==
  ASSUME Au!AutocompleterAssumption, MenuInv, Au!Hide
  PROVE  /\ shown' \in BOOLEAN /\ appears' \in Nat /\ fades' \in Nat
         /\ appears' + fades' <= MaxMenuEffects /\ indicator' = FALSE
<1>1. Au!FadeOut /\ indicator' = FALSE
  BY DEF Au!Hide
<1> QED BY <1>1, DisplayTyped

\* Typing.
LEMMA TypeStep ==
  ASSUME Au!AutocompleterAssumption, MenuInv, Au!Type
  PROVE  MenuInv'
<1> USE DEF Au!Type, Au!menu, Au!display
<1>1. MenuBooleans'
  BY DEF MenuInv, MenuBooleans
<1>2. MenuData'
  BY DEF Au!AutocompleterAssumption, MenuInv, MenuData
<1>3. MenuFlags'
  BY DEF Au!AutocompleterAssumption, MenuInv, MenuBooleans, MenuData, MenuFlags
<1>4. ChoicesFollow'
  BY DEF MenuInv, MenuBooleans, MenuFlags, ChoicesFollow
<1> QED BY <1>1, <1>2, <1>3, <1>4 DEF MenuInv

\* Tab, Return and Escape.
LEMMA SelectKeyStep ==
  ASSUME Au!AutocompleterAssumption, MenuInv, Au!SelectKey \/ Au!Escape
  PROVE  MenuInv'
<1>0. /\ shown' \in BOOLEAN /\ appears' \in Nat /\ fades' \in Nat
      /\ appears' + fades' <= MaxMenuEffects /\ indicator' = FALSE /\ menuActive' = FALSE
  BY LeftFacts DEF Au!SelectKey, Au!Escape
<1> USE DEF Au!SelectKey, Au!Escape, Au!UpdateElement, Au!field
<1>1. MenuBooleans'
  BY <1>0 DEF MenuInv, MenuBooleans
<1>2. MenuData'
  BY <1>0 DEF Au!AutocompleterAssumption, MenuInv, MenuData
<1>3. MenuFlags'
  BY <1>0 DEF MenuInv, MenuBooleans, MenuData, MenuFlags
<1>4. ChoicesFollow'
  BY <1>0 DEF MenuInv, MenuBooleans, MenuFlags, ChoicesFollow
<1> QED BY <1>1, <1>2, <1>3, <1>4 DEF MenuInv

\* The arrow keys.
LEMMA ArrowStep ==
  ASSUME Au!AutocompleterAssumption, MenuInv, Au!Arrow
  PROVE  MenuInv'
<1>1. PICK i \in {IF index > 0 THEN index - 1 ELSE entryCount - 1,
                  IF index < entryCount - 1 THEN index + 1 ELSE 0} : Au!Render(entryCount, i, hasFocus)
  BY DEF Au!Arrow
<1>2. /\ entryCount \in 0..MaxEntries /\ hasFocus \in BOOLEAN /\ menuActive /\ hasFocus
      /\ index \in 0..MaxEntries /\ index < entryCount
  BY DEF MenuInv, MenuBooleans, MenuData, MenuFlags, Au!Arrow
<1>3. /\ shown' \in BOOLEAN /\ hidden' \in BOOLEAN
      /\ appears' \in Nat /\ fades' \in Nat /\ appears' + fades' <= MaxMenuEffects
      /\ entryCount' = entryCount /\ index' = i /\ menuActive' \in BOOLEAN
      /\ menuActive' /\ ~hidden' => fades' = 0 /\ (shown' \/ appears' > 0)
  <2>1. /\ shown' \in BOOLEAN /\ hidden' \in BOOLEAN
        /\ appears' \in Nat /\ fades' \in Nat /\ appears' + fades' <= MaxMenuEffects
        /\ entryCount' = entryCount /\ index' = i
        /\ menuActive' = (entryCount > 0 /\ (menuActive \/ hasFocus))
        /\ menuActive' /\ ~hidden' => fades' = 0 /\ (shown' \/ appears' > 0)
    BY <1>1, <1>2, RenderFacts
  <2> QED BY <2>1, Zenon
<1>4. i \in 0..MaxEntries /\ i < entryCount
  BY <1>2 DEF Au!AutocompleterAssumption
<1> USE DEF Au!Arrow, Au!field
<1>5. MenuBooleans'
  BY <1>3 DEF MenuInv, MenuBooleans
<1>6. MenuData'
  BY <1>3, <1>4 DEF MenuInv, MenuData
<1>7. MenuFlags'
  BY <1>2, <1>3, <1>4 DEF MenuInv, MenuFlags
<1>8. ChoicesFollow'
  BY <1>2, <1>3 DEF MenuInv, ChoicesFollow
<1> QED BY <1>5, <1>6, <1>7, <1>8 DEF MenuInv

\* The mouse over an entry.
LEMMA HoverStep ==
  ASSUME Au!AutocompleterAssumption, MenuInv, Au!Hover
  PROVE  MenuInv'
<1>1. PICK i \in 0..(entryCount - 1) : Au!Render(entryCount, i, hasFocus)
  BY DEF Au!Hover
<1>2. /\ entryCount \in 0..MaxEntries /\ hasFocus \in BOOLEAN /\ (menuActive => hasFocus)
      /\ menuActive \in BOOLEAN
  BY DEF MenuInv, MenuBooleans, MenuData, MenuFlags
<1>3. /\ shown' \in BOOLEAN /\ hidden' \in BOOLEAN
      /\ appears' \in Nat /\ fades' \in Nat /\ appears' + fades' <= MaxMenuEffects
      /\ entryCount' = entryCount /\ index' = i
      /\ menuActive' = (entryCount > 0 /\ (menuActive \/ hasFocus))
      /\ menuActive' /\ ~hidden' => fades' = 0 /\ (shown' \/ appears' > 0)
  BY <1>1, <1>2, RenderFacts
<1>4. i \in 0..MaxEntries /\ i < entryCount
  BY <1>2 DEF Au!AutocompleterAssumption
<1> USE DEF Au!Hover
<1>5. MenuBooleans'
  BY <1>2, <1>3 DEF MenuInv, MenuBooleans
<1>6. MenuData'
  BY <1>3, <1>4 DEF MenuInv, MenuData
<1>7. MenuFlags'
  BY <1>2, <1>3, <1>4 DEF MenuInv, MenuFlags
<1>8. ChoicesFollow'
  BY <1>2, <1>3 DEF MenuInv, MenuBooleans, ChoicesFollow
<1> QED BY <1>5, <1>6, <1>7, <1>8 DEF MenuInv

\* The mouse on an entry.
LEMMA MenuClickStep ==
  ASSUME Au!AutocompleterAssumption, MenuInv, Au!Click
  PROVE  MenuInv'
<1>0. /\ shown' \in BOOLEAN /\ appears' \in Nat /\ fades' \in Nat
      /\ appears' + fades' <= MaxMenuEffects /\ indicator' = FALSE /\ menuActive' = FALSE
  BY LeftFacts DEF Au!Click
<1> USE DEF Au!Click, Au!UpdateElement
<1>1. MenuBooleans'
  BY <1>0 DEF MenuInv, MenuBooleans
<1>2. MenuData'
  <2>1. index' \in 0..MaxEntries /\ entryCount' \in 0..MaxEntries
    BY DEF Au!AutocompleterAssumption, MenuInv, MenuData
  <2>2. /\ fieldText' \in MenuTexts /\ choicesFor' \in MenuTexts
        /\ requests' \in Seq(MenuTexts) /\ Len(requests') <= MaxRequests
    BY DEF MenuInv, MenuData
  <2> QED BY <1>0, <2>1, <2>2 DEF MenuData
<1>3. MenuFlags'
  BY <1>0 DEF MenuInv, MenuBooleans, MenuData, MenuFlags
<1>4. ChoicesFollow'
  BY <1>0 DEF MenuInv, MenuBooleans, MenuFlags, ChoicesFollow
<1> QED BY <1>1, <1>2, <1>3, <1>4 DEF MenuInv

\* The field loses focus, and the timer of that: a fade it begins is hidden's.
LEMMA BlurStep ==
  ASSUME Au!AutocompleterAssumption, MenuInv, Au!Blur \/ Au!HideTimer
  PROVE  MenuInv'
<1>1. CASE Au!Blur
  <2> USE <1>1 DEF Au!Blur, Au!field, Au!display
  <2>1. MenuBooleans'
    BY DEF MenuInv, MenuBooleans
  <2>2. MenuData'
    BY DEF MenuInv, MenuData
  <2>3. MenuFlags'
    BY DEF MenuInv, MenuFlags
  <2>4. ChoicesFollow'
    BY DEF MenuInv, ChoicesFollow
  <2> QED BY <2>1, <2>2, <2>3, <2>4 DEF MenuInv
<1>2. CASE Au!HideTimer
  <2>0. /\ shown' \in BOOLEAN /\ appears' \in Nat /\ fades' \in Nat
        /\ appears' + fades' <= MaxMenuEffects /\ indicator' = FALSE
        /\ ~shown => UNCHANGED <<shown, appears, fades>>
        /\ hidden' = (hidden \/ shown)
    BY <1>2, LeftFacts DEF Au!HideTimer, Au!Hide, Au!FadeOut, Au!display
  <2> USE <1>2 DEF Au!HideTimer, Au!field
  <2>1. MenuBooleans'
    BY <2>0 DEF MenuInv, MenuBooleans
  <2>2. MenuData'
    BY <2>0 DEF MenuInv, MenuData
  <2>3. MenuFlags'
    BY <2>0 DEF MenuInv, MenuFlags
  <2>4. ChoicesFollow'
    BY DEF MenuInv, ChoicesFollow
  <2> QED BY <2>1, <2>2, <2>3, <2>4 DEF MenuInv
<1> QED BY <1>1, <1>2

\* The first pass of an Appear and the last of a Fade, of which an active menu
\* has none unless hidden says so.
LEMMA EffectStep ==
  ASSUME Au!AutocompleterAssumption, MenuInv, Au!Appeared \/ Au!Faded
  PROVE  MenuInv'
<1>0. /\ UNCHANGED <<local, fieldText, choicesFor, straight, changed, hasFocus, menuActive, index,
                     entryCount, hidden, indicator, pauseTimer, hiding, requests>>
      /\ shown' \in BOOLEAN
      /\ \/ appears > 0 /\ appears' = appears - 1 /\ fades' = fades /\ shown'
         \/ fades > 0 /\ fades' = fades - 1 /\ appears' = appears
  BY DEF Au!Appeared, Au!Faded, Au!field
<1>1. MenuBooleans'
  BY <1>0 DEF MenuInv, MenuBooleans
<1>2. MenuData'
  <2>1. appears \in Nat /\ fades \in Nat /\ appears + fades <= MaxMenuEffects /\ MaxMenuEffects \in Nat
    BY DEF MenuInv, MenuData, Au!AutocompleterAssumption
  <2>2. appears' \in Nat /\ fades' \in Nat /\ appears' + fades' <= MaxMenuEffects
    BY <1>0, <2>1
  <2> QED BY <1>0, <2>2 DEF MenuInv, MenuData
<1>3. MenuFlags'
  BY <1>0 DEF MenuInv, MenuData, MenuFlags
<1>4. ChoicesFollow'
  BY <1>0 DEF MenuInv, ChoicesFollow
<1> QED BY <1>1, <1>2, <1>3, <1>4 DEF MenuInv

\* updateChoices: an accepted list for the text v.
LEMMA UpdateChoicesFacts ==
  ASSUME Au!AutocompleterAssumption, MenuInv, NEW v \in MenuTexts, NEW first \in BOOLEAN, NEW last \in BOOLEAN,
         Au!UpdateChoices(v, first, last)
  PROVE  /\ menuActive' \in BOOLEAN /\ shown' \in BOOLEAN /\ straight' \in BOOLEAN /\ hidden' \in BOOLEAN
         /\ appears' \in Nat /\ fades' \in Nat /\ appears' + fades' <= MaxMenuEffects
         /\ fieldText' \in MenuTexts /\ choicesFor' \in MenuTexts
         /\ index' \in 0..MaxEntries /\ entryCount' \in 0..MaxEntries
         /\ menuActive' => index' < entryCount'
         /\ menuActive' /\ ~hidden' => fades' = 0 /\ (shown' \/ appears' > 0)
         /\ indicator' = FALSE
         /\ menuActive' => choicesFor' = v
         /\ straight' => /\ local \/ (straight /\ first)
                         /\ fieldText' = fieldText \/ (last /\ ~menuActive')
<1>0. /\ MaxEntries \in Nat \ {0} /\ fieldText \in MenuTexts /\ choicesFor \in MenuTexts
      /\ straight \in BOOLEAN /\ hidden \in BOOLEAN /\ menuActive \in BOOLEAN /\ local \in BOOLEAN
  BY DEF MenuInv, MenuBooleans, MenuData, Au!AutocompleterAssumption
<1>1. CASE /\ \E n \in 0..MaxEntries : Au!Render(n, 0, TRUE)
           /\ indicator' = FALSE
           /\ choicesFor' = v
           /\ straight' = (local \/ (straight /\ first))
           /\ UNCHANGED fieldText
  <2>1. PICK n \in 0..MaxEntries : Au!Render(n, 0, TRUE)
    BY <1>1
  <2>2. PICK focused \in BOOLEAN : focused = TRUE
    OBVIOUS
  <2>3. /\ shown' \in BOOLEAN /\ hidden' \in BOOLEAN
        /\ appears' \in Nat /\ fades' \in Nat /\ appears' + fades' <= MaxMenuEffects
        /\ entryCount' = n /\ index' = 0 /\ menuActive' = (n > 0 /\ (menuActive \/ focused))
        /\ menuActive' /\ ~hidden' => fades' = 0 /\ (shown' \/ appears' > 0)
    BY <2>1, <2>2, RenderFacts
  <2>4. /\ n \in Nat /\ 0 \in 0..MaxEntries /\ menuActive' \in BOOLEAN
        /\ menuActive' => index' < entryCount'
    <3>1. n \in Nat /\ 0 \in 0..MaxEntries /\ (n > 0) \in BOOLEAN
      BY <1>0
    <3> QED BY <1>0, <2>3, <3>1
  <2>5. /\ choicesFor' = v /\ fieldText' = fieldText /\ indicator' = FALSE /\ straight' \in BOOLEAN
        /\ straight' => local \/ (straight /\ first)
    BY <1>0, <1>1, Zenon
  <2>6. fieldText' \in MenuTexts /\ choicesFor' \in MenuTexts
    BY <1>0, <2>5
  <2>7. index' \in 0..MaxEntries /\ entryCount' \in 0..MaxEntries
    BY <2>3, <2>4
  <2> QED BY <2>3, <2>4, <2>5, <2>6, <2>7, Zenon
<1>2. CASE /\ entryCount' = 1 /\ index' = 0
           /\ menuActive' = FALSE /\ Au!Hide
           /\ Au!UpdateElement(first /\ last)
           /\ UNCHANGED hidden
  <2>1. /\ shown' \in BOOLEAN /\ appears' \in Nat /\ fades' \in Nat
        /\ appears' + fades' <= MaxMenuEffects /\ indicator' = FALSE
    BY <1>2, LeftFacts
  <2>2. /\ entryCount' = 1 /\ index' = 0 /\ menuActive' = FALSE
        /\ hidden' = hidden /\ fieldText' \in MenuTexts /\ choicesFor' = choicesFor
        /\ straight' = (straight /\ (first /\ last))
    BY <1>2 DEF Au!UpdateElement
  <2>3. straight' \in BOOLEAN /\ index' \in 0..MaxEntries /\ entryCount' \in 0..MaxEntries
    BY <1>0, <2>2
  <2> QED BY <1>0, <2>1, <2>2, <2>3
<1> QED BY <1>1, <1>2 DEF Au!UpdateChoices

\* getUpdatedChoices, of a field that is in focus or of one that is not.
LEMMA GetChoicesStep ==
  ASSUME Au!AutocompleterAssumption, MenuInv, NEW on \in BOOLEAN, Au!GetUpdatedChoices(on),
         UNCHANGED <<local, hiding>>, changed' = FALSE, hasFocus' = (hasFocus \/ on),
                     hasFocus => on,
         pauseTimer' \in BOOLEAN, pauseTimer' => pauseTimer
  PROVE  MenuInv'
<1>1. CASE local /\ on
  <2>1. Au!UpdateChoices(fieldText, TRUE, TRUE) /\ requests' = requests /\ requests = <<>>
    BY <1>1 DEF Au!GetUpdatedChoices, MenuInv, MenuFlags
  <2>2. /\ menuActive' \in BOOLEAN /\ shown' \in BOOLEAN /\ straight' \in BOOLEAN /\ hidden' \in BOOLEAN
        /\ appears' \in Nat /\ fades' \in Nat /\ appears' + fades' <= MaxMenuEffects
        /\ fieldText' \in MenuTexts /\ choicesFor' \in MenuTexts
        /\ index' \in 0..MaxEntries /\ entryCount' \in 0..MaxEntries
        /\ menuActive' => index' < entryCount'
        /\ menuActive' /\ ~hidden' => fades' = 0 /\ (shown' \/ appears' > 0)
        /\ indicator' = FALSE
        /\ menuActive' => choicesFor' = fieldText
        /\ straight' => fieldText' = fieldText \/ ~menuActive'
    BY <2>1, UpdateChoicesFacts DEF MenuInv, MenuBooleans, MenuData
  <2>3. MenuBooleans' /\ MenuData'
    <3>1. MenuBooleans'
      BY <1>1, <2>1, <2>2 DEF MenuInv, MenuBooleans
    <3>2. MenuData'
      BY <1>1, <2>1, <2>2 DEF MenuInv, MenuData, Au!AutocompleterAssumption
    <3> QED BY <3>1, <3>2
  <2>4. MenuFlags' /\ ChoicesFollow'
    BY <1>1, <2>1, <2>2 DEF MenuInv, MenuFlags, ChoicesFollow, MenuBooleans, MenuData
  <2> QED BY <2>3, <2>4 DEF MenuInv
<1>2. CASE local /\ ~on
  <2>1. /\ fieldText' = fieldText /\ choicesFor' = choicesFor /\ straight' = straight
        /\ menuActive' = menuActive /\ index' = index /\ entryCount' = entryCount /\ shown' = shown
        /\ appears' = appears /\ fades' = fades
        /\ hidden' = hidden /\ indicator' = indicator /\ requests' = requests /\ requests = <<>>
        /\ ~hasFocus /\ ~hasFocus' /\ ~menuActive
    BY <1>2 DEF Au!GetUpdatedChoices, Au!field, Au!menu, Au!display, MenuInv, MenuFlags, MenuBooleans,
        MenuData
  <2>2. MenuBooleans' /\ MenuData'
    <3>1. MenuBooleans'
      BY <1>2, <2>1 DEF MenuInv, MenuBooleans
    <3>2. MenuData'
      BY <1>2, <2>1 DEF MenuInv, MenuData, Au!AutocompleterAssumption
    <3> QED BY <3>1, <3>2
  <2>3. MenuFlags' /\ ChoicesFollow'
    BY <1>2, <2>1 DEF MenuInv, MenuFlags, ChoicesFollow, MenuBooleans, MenuData
  <2> QED BY <2>2, <2>3 DEF MenuInv
<1>3. CASE ~local
  <2>1. /\ Len(requests) < MaxRequests /\ requests' = Append(requests, fieldText)
        /\ indicator' = TRUE /\ straight' = (straight \/ requests = <<>>)
        /\ fieldText' = fieldText /\ choicesFor' = choicesFor
        /\ menuActive' = menuActive /\ index' = index /\ entryCount' = entryCount /\ shown' = shown
        /\ appears' = appears /\ fades' = fades
        /\ hidden' = hidden /\ local' = local
    BY <1>3 DEF Au!GetUpdatedChoices, Au!menu, Au!display
  <2>2. /\ requests' \in Seq(MenuTexts) /\ requests' # <<>> /\ Len(requests') = Len(requests) + 1
        /\ requests'[Len(requests')] = fieldText /\ Len(requests) \in Nat
    BY <2>1, AppendProperties, LenProperties DEF MenuInv, MenuBooleans, MenuData
  <2>3. MenuBooleans' /\ MenuData'
    <3>1. MenuBooleans'
      BY <2>1, <2>2 DEF MenuInv, MenuBooleans, Au!AutocompleterAssumption
    <3>2. MenuData'
      BY <2>1, <2>2 DEF MenuInv, MenuData, Au!AutocompleterAssumption
    <3> QED BY <3>1, <3>2
  <2>4. MenuFlags' /\ ChoicesFollow'
    BY <1>3, <2>1, <2>2 DEF MenuInv, MenuFlags, ChoicesFollow, MenuBooleans, MenuData
  <2> QED BY <2>3, <2>4 DEF MenuInv
<1> QED BY <1>1, <1>2, <1>3 DEF MenuInv, MenuBooleans, MenuData

\* activate().
LEMMA ActivateStep == ASSUME Au!AutocompleterAssumption, MenuInv, Au!Activate PROVE MenuInv'
<1>1. changed' = FALSE /\ hasFocus' = TRUE /\ Au!GetUpdatedChoices(TRUE) /\ UNCHANGED <<local,
                                                                                        pauseTimer, hiding>>
  BY DEF Au!Activate
<1>2. hasFocus' = (hasFocus \/ TRUE) /\ pauseTimer' \in BOOLEAN /\ (pauseTimer' => pauseTimer)
  BY <1>1 DEF MenuInv, MenuBooleans, MenuData
<1> QED BY <1>1, <1>2, GetChoicesStep

\* onObserverEvent: the text is too short, or choices are due.
LEMMA ObserverEventStep ==
  ASSUME Au!AutocompleterAssumption, MenuInv, Au!ObserverEvent
  PROVE  MenuInv'
<1>1. CASE fieldText \in Short
  <2>0. /\ shown' \in BOOLEAN /\ appears' \in Nat /\ fades' \in Nat
        /\ appears' + fades' <= MaxMenuEffects /\ indicator' = FALSE /\ menuActive' = FALSE
    BY <1>1, LeftFacts DEF Au!ObserverEvent
  <2> USE <1>1 DEF Au!ObserverEvent
  <2>1. MenuBooleans' /\ MenuData'
    <3>1. MenuBooleans'
      BY <2>0 DEF MenuInv, MenuBooleans
    <3>2. MenuData'
      BY <2>0 DEF MenuInv, MenuData, Au!AutocompleterAssumption
    <3> QED BY <3>1, <3>2
  <2>2. MenuFlags' /\ ChoicesFollow'
    BY <2>0 DEF MenuInv, MenuBooleans, MenuData, MenuFlags, ChoicesFollow
  <2> QED BY <2>1, <2>2 DEF MenuInv
<1>2. CASE fieldText \notin Short
  <2>1. /\ changed' = FALSE /\ pauseTimer' = FALSE /\ Au!GetUpdatedChoices(hasFocus)
        /\ UNCHANGED <<local, hasFocus, hiding>>
    BY <1>2 DEF Au!ObserverEvent
  <2>2. hasFocus \in BOOLEAN /\ hasFocus' = (hasFocus \/ hasFocus) /\ pauseTimer' \in BOOLEAN
    BY <2>1 DEF MenuInv, MenuBooleans, MenuData
  <2> QED BY <2>1, <2>2, GetChoicesStep
<1> QED BY <1>1, <1>2

\* A response: of the requests under way, the last stays the last.
LEMMA ResponseStep == ASSUME Au!AutocompleterAssumption, MenuInv, Au!Response PROVE MenuInv'
<1>1. PICK i \in DOMAIN requests :
        /\ requests' = Au!RemoveAt(requests, i)
        /\ IF Au!Accepts THEN Au!UpdateChoices(requests[i], i = 1, requests' = <<>>)
           ELSE /\ straight' = (straight /\ i = 1)
                /\ UNCHANGED <<fieldText, choicesFor, Au!menu, indicator>>
        /\ UNCHANGED <<local, changed, hasFocus, pauseTimer, hiding>>
  BY DEF Au!Response
<1>2. requests \in Seq(MenuTexts) /\ i \in 1..Len(requests) /\ Len(requests) \in Nat /\ requests[i] \in MenuTexts
  BY <1>1 DEF MenuInv, MenuBooleans, MenuData
<1>3. /\ requests' \in Seq(MenuTexts) /\ Len(requests') = Len(requests) - 1
      /\ \A j \in 1..(Len(requests) - 1) : requests'[j] = IF j < i THEN requests[j] ELSE requests[j + 1]
  BY <1>1, <1>2, RemoveAtIs
<1>4. requests # <<>> /\ (requests' = <<>> => Len(requests) = 1)
  BY <1>2, <1>3
<1>5. requests' # <<>> => Len(requests') \in Nat \ {0}
  BY <1>3, EmptySeq
<1>6. requests' # <<>> /\ i = 1 => requests'[Len(requests')] = requests[Len(requests)]
  BY <1>2, <1>3, <1>5
<1>7. local = FALSE
  BY <1>4 DEF MenuInv, MenuFlags, MenuBooleans, MenuData
<1>8. CASE Au!Accepts
  <2>1. Au!UpdateChoices(requests[i], i = 1, requests' = <<>>) /\ ~changed /\ hasFocus
    BY <1>1, <1>8 DEF Au!Accepts
  <2>2. /\ menuActive' \in BOOLEAN /\ shown' \in BOOLEAN /\ straight' \in BOOLEAN /\ hidden' \in BOOLEAN
        /\ appears' \in Nat /\ fades' \in Nat /\ appears' + fades' <= MaxMenuEffects
        /\ fieldText' \in MenuTexts /\ choicesFor' \in MenuTexts
        /\ index' \in 0..MaxEntries /\ entryCount' \in 0..MaxEntries
        /\ menuActive' => index' < entryCount'
        /\ menuActive' /\ ~hidden' => fades' = 0 /\ (shown' \/ appears' > 0)
        /\ indicator' = FALSE
        /\ menuActive' => choicesFor' = requests[i]
        /\ straight' => /\ local \/ (straight /\ i = 1)
                        /\ fieldText' = fieldText \/ (requests' = <<>> /\ ~menuActive')
    BY <1>2, <2>1, UpdateChoicesFacts
  <2>3. MenuBooleans' /\ MenuData'
    <3>1. MenuBooleans'
      BY <1>1, <1>2, <1>3, <2>2 DEF MenuInv, MenuBooleans
    <3>2. MenuData'
      <4>1. requests' \in Seq(MenuTexts) /\ Len(requests') <= MaxRequests
        BY <1>2, <1>3 DEF MenuInv, MenuData, Au!AutocompleterAssumption
      <4> QED BY <2>2, <4>1 DEF MenuData
    <3> QED BY <3>1, <3>2
  <2>4. MenuFlags'
    BY <1>1, <1>7, <2>1, <2>2 DEF MenuInv, MenuFlags
  <2>5. ChoicesFollow'
    BY <1>1, <1>2, <1>4, <1>6, <1>7, <2>2 DEF MenuInv, ChoicesFollow
  <2> QED BY <2>3, <2>4, <2>5 DEF MenuInv
<1>9. CASE ~Au!Accepts
  <2>1. /\ straight' = (straight /\ i = 1)
        /\ fieldText' = fieldText /\ choicesFor' = choicesFor /\ indicator' = indicator
        /\ menuActive' = menuActive /\ index' = index /\ entryCount' = entryCount /\ shown' = shown
        /\ appears' = appears /\ fades' = fades
        /\ hidden' = hidden /\ (changed \/ ~hasFocus)
    BY <1>1, <1>9 DEF Au!Accepts, Au!menu, Au!display
  <2>2. MenuBooleans' /\ MenuData'
    <3>1. MenuBooleans'
      BY <1>1, <1>2, <1>3, <2>1 DEF MenuInv, MenuBooleans
    <3>2. MenuData'
      BY <1>1, <1>2, <1>3, <2>1 DEF MenuInv, MenuData, Au!AutocompleterAssumption
    <3> QED BY <3>1, <3>2
  <2>3. MenuFlags'
    BY <1>1, <1>7, <2>1 DEF MenuInv, MenuFlags
  <2>4. ChoicesFollow'
    BY <1>1, <1>2, <1>4, <1>6, <2>1 DEF MenuInv, MenuFlags, ChoicesFollow
  <2> QED BY <2>2, <2>3, <2>4 DEF MenuInv
<1> QED BY <1>8, <1>9

\* Every step.
LEMMA MenuStepInv ==
  ASSUME Au!AutocompleterAssumption, MenuInv, [Au!Next]_(Au!vars)
  PROVE  MenuInv'
<1>1. CASE UNCHANGED Au!vars
  BY <1>1 DEF Au!vars, Au!field, Au!menu, Au!display, MenuInv, MenuBooleans, MenuData, MenuFlags,
      ChoicesFollow
<1> QED BY <1>1, TypeStep, SelectKeyStep, ArrowStep, HoverStep, MenuClickStep, BlurStep, EffectStep,
           ActivateStep, ObserverEventStep, ResponseStep DEF Au!Next

\* controls.js L60-268: the state of the autocompleter keeps its types.
THEOREM AutocompleterTypeCorrect ==
  ASSUME Au!AutocompleterAssumption
  PROVE  Au!Spec => []Au!TypeOK
<1> QED BY MenuFacts, MenuInitInv, MenuStepInv, PTL DEF Au!Spec

\* controls.js L75-268: while the keys act on a menu its highlighted entry is one
\* of the list and the menu is on view or about to be, whatever effects run
\* beside the handlers (unless it was asked up during a fade, or a blur's timer
\* fades it: hidden); the choices are for the text, and the indicator stops, for
\* any texts, any number of entries, of requests under way and of effects.
THEOREM MenuStaysRight ==
  ASSUME Au!AutocompleterAssumption
  PROVE  Au!Spec => [](Au!SelectsWhatIsShown /\ Au!MenuIsCurrent /\ Au!IndicatorStops)
<1> QED BY MenuFacts, MenuInitInv, MenuStepInv, PTL DEF Au!Spec

----------------------------------------------------------------------------
(***************************************************************************)
(* Proofs about TokenCompletion for any characters, entries and length of  *)
(* text.  The argument: while a text is the one its bounds were made for,  *)
(* these are the delimiters around the place where it differs from an      *)
(* earlier one, and none is between them; white space that is kept before  *)
(* the token is what precedes its first ink, whatever follows the token.   *)
(***************************************************************************)


LEMMA LeastIn ==
  ASSUME NEW lo \in Int, NEW T \in SUBSET Int, T # {}, \A n \in T : lo <= n
  PROVE  To!Least(T) \in T /\ \A n \in T : To!Least(T) <= n
<1> DEFINE D == {n - lo : n \in T}
<1>1. D \in SUBSET Nat /\ D # {}
  <2>1. \A n \in T : n - lo \in Nat
    <3>1. \A n \in Int : lo <= n => n - lo \in Nat
      OBVIOUS
    <3> QED BY <3>1
  <2> QED BY <2>1
<1>2. \E d \in D : \A e \in D : d <= e
  <2> HIDE DEF D
  <2> QED BY <1>1, LeastOf
<1>3. PICK m \in T : \A n \in T : m - lo <= n - lo
  BY <1>2
<1>4. \A n \in T : m <= n
  BY <1>3
<1> QED BY <1>4, Zenon DEF To!Least

LEMMA GreatestIn ==
  ASSUME NEW lo \in Int, NEW hi \in Int, NEW T \in SUBSET (lo..hi), T # {}
  PROVE  To!Greatest(T) \in T /\ \A n \in T : n <= To!Greatest(T)
<1>1. PICK m \in T : \A n \in T : n <= m
  BY GreatestOf
<1>2. \A n \in T : m >= n
  BY <1>1
<1>3. To!Greatest(T) \in T /\ \A n \in T : To!Greatest(T) >= n
  BY <1>2, Zenon DEF To!Greatest
<1> QED BY <1>3

LEMMA LeastOfTwo ==
  ASSUME NEW a \in Int, NEW b \in Int
  PROVE  To!Least({a, b}) = IF a <= b THEN a ELSE b
<1> DEFINE lo == IF a <= b THEN a ELSE b
<1>1. lo \in Int /\ \A n \in {a, b} : lo <= n
  OBVIOUS
<1>2. To!Least({a, b}) \in {a, b} /\ \A n \in {a, b} : To!Least({a, b}) <= n
  <2> HIDE DEF lo
  <2>1. {a, b} \in SUBSET Int /\ {a, b} # {}
    OBVIOUS
  <2> QED BY <1>1, <2>1, LeastIn
<1> QED BY <1>2

LEMMA GreatestOfTwo ==
  ASSUME NEW a \in Int, NEW b \in Int
  PROVE  To!Greatest({a, b}) = IF a <= b THEN b ELSE a
<1> DEFINE lo == IF a <= b THEN a ELSE b
           hi == IF a <= b THEN b ELSE a
<1>1. lo \in Int /\ hi \in Int /\ {a, b} \in SUBSET (lo..hi) /\ {a, b} # {}
  OBVIOUS
<1>2. To!Greatest({a, b}) \in {a, b} /\ \A n \in {a, b} : n <= To!Greatest({a, b})
  <2> HIDE DEF lo, hi
  <2> QED BY <1>1, GreatestIn
<1> QED BY <1>2

\* substring(), where its arguments are in range and in order.
LEMMA SubStringIs ==
  ASSUME NEW S, NEW v \in Seq(S), NEW a \in 0..Len(v), NEW b \in a..Len(v)
  PROVE  To!SubString(v, a, b) = SubSeq(v, a + 1, b)
<1> DEFINE n == Len(v)
<1>1. n \in Nat /\ a \in Int /\ b \in Int /\ 0 <= a /\ a <= b /\ b <= n
  OBVIOUS
<1> HIDE DEF n
<1>2. \A p \in 0..n : To!Least({p, n}) = p /\ To!Greatest({0, p}) = p
  <2> SUFFICES ASSUME NEW p \in 0..n PROVE To!Least({p, n}) = p /\ To!Greatest({0, p}) = p
    OBVIOUS
  <2>1. p \in Int /\ n \in Int /\ 0 \in Int /\ p <= n /\ 0 <= p
    BY <1>1
  <2> QED BY <2>1, LeastOfTwo, GreatestOfTwo
<1>3. To!Least({a, b}) = a /\ To!Greatest({a, b}) = b
  BY <1>1, LeastOfTwo, GreatestOfTwo
<1>4. /\ To!Greatest({0, To!Least({a, n})}) = a
      /\ To!Greatest({0, To!Least({b, n})}) = b
  <2>1. a \in 0..n /\ b \in 0..n
    BY <1>1
  <2>2. To!Least({a, n}) = a /\ To!Least({b, n}) = b /\ To!Greatest({0, a}) = a /\ To!Greatest({0, b}) = b
    BY <1>2, <2>1
  <2> QED BY <2>2, Zenon
<1> QED BY <1>3, <1>4 DEF To!SubString, n

\* Whatever its arguments, a part of the text.
LEMMA SubStringType ==
  ASSUME NEW S, NEW v \in Seq(S), NEW a \in Int, NEW b \in Int
  PROVE  /\ To!SubString(v, a, b) \in Seq(S)
         /\ Len(To!SubString(v, a, b)) <= Len(v)
<1> DEFINE n == Len(v)
           In(p) == To!Greatest({0, To!Least({p, n})})
           lo == To!Least({In(a), In(b)})
           hi == To!Greatest({In(a), In(b)})
<1>1. n \in Int /\ 0 \in Int /\ 0 <= n
  OBVIOUS
<1>2. \A p \in Int : In(p) \in 0..n
  <2> HIDE DEF n
  <2> SUFFICES ASSUME NEW p \in Int PROVE In(p) \in 0..n
    OBVIOUS
  <2>1. To!Least({p, n}) = IF p <= n THEN p ELSE n
    BY <1>1, LeastOfTwo
  <2>2. To!Least({p, n}) \in Int
    BY <1>1, <2>1
  <2>3. In(p) = IF 0 <= To!Least({p, n}) THEN To!Least({p, n}) ELSE 0
    BY <1>1, <2>2, GreatestOfTwo
  <2> QED BY <1>1, <2>1, <2>2, <2>3
<1>3. In(a) \in 0..n /\ In(b) \in 0..n
  BY <1>2
<1> HIDE DEF n, In
<1>4. lo \in 0..n /\ hi \in 0..n /\ lo <= hi
  <2>1. In(a) \in Int /\ In(b) \in Int
    BY <1>1, <1>3
  <2>2. lo = (IF In(a) <= In(b) THEN In(a) ELSE In(b)) /\ hi = (IF In(a) <= In(b) THEN In(b) ELSE In(a))
    BY <2>1, LeastOfTwo, GreatestOfTwo
  <2> QED BY <1>1, <1>3, <2>1, <2>2
<1>5. To!SubString(v, a, b) = SubSeq(v, lo + 1, hi)
  BY DEF To!SubString, n, In
<1> HIDE DEF lo, hi
<1>6. /\ SubSeq(v, lo + 1, hi) \in Seq(S)
      /\ Len(SubSeq(v, lo + 1, hi)) = IF lo + 1 <= hi THEN hi - (lo + 1) + 1 ELSE 0
  <2>1. lo + 1 \in Int /\ hi \in Int /\ n \in Nat
    BY <1>1, <1>4
  <2>2. \A i \in (lo + 1)..hi : v[i] \in S
    BY <1>1, <1>4 DEF n
  <2> QED BY <2>1, <2>2, SubSeqProperties
<1> QED BY <1>1, <1>4, <1>5, <1>6 DEF n

\* Where two texts first differ.
LEMMA FirstDifferenceIs ==
  ASSUME NEW v, NEW w, Len(v) \in Nat, Len(w) \in Nat
  PROVE  /\ To!FirstDifferencePos(v, w) \in 0..Len(v)
         /\ To!FirstDifferencePos(v, w) <= Len(w)
<1> DEFINE b == To!Least({Len(v), Len(w)})
           T == {b} \cup {i \in 0..b - 1 : v[i + 1] # w[i + 1]}
<1>1. b = (IF Len(v) <= Len(w) THEN Len(v) ELSE Len(w))
  BY LeastOfTwo
<1>2. b \in Nat /\ b <= Len(v) /\ b <= Len(w)
  BY <1>1
<1> HIDE DEF b
<1>3. T \in SUBSET (0..b) /\ T # {}
  BY <1>2
<1>4. T \in SUBSET Int /\ 0 \in Int /\ \A n \in T : 0 <= n
  BY <1>2, <1>3
<1>5. To!FirstDifferencePos(v, w) = To!Least(T)
  BY DEF To!FirstDifferencePos, b
<1> HIDE DEF T
<1>6. To!Least(T) \in T
  BY <1>3, <1>4, LeastIn
<1>7. To!FirstDifferencePos(v, w) \in 0..b
  BY <1>3, <1>5, <1>6
<1> QED BY <1>2, <1>7

\* The delimiter before a place, and the one after.
LEMMA DelimiterBeforeIs ==
  ASSUME NEW v, Len(v) \in Nat, NEW from \in Int
  PROVE  LET d == To!DelimiterBefore(v, from)
             m == IF from <= 0 THEN 0 ELSE from
         IN  /\ d \in -1..(Len(v) - 1) /\ d <= m
             /\ d = -1 \/ v[d + 1] \in Delimiters
             /\ \A i \in 0..m : i < Len(v) /\ v[i + 1] \in Delimiters => i <= d
<1> DEFINE d == To!DelimiterBefore(v, from)
           m == IF from <= 0 THEN 0 ELSE from
           T == {-1} \cup {i \in 0..m : i < Len(v) /\ v[i + 1] \in Delimiters}
<1>1. To!Greatest({from, 0}) = m
  BY GreatestOfTwo
<1>2. d = To!Greatest(T)
  BY <1>1 DEF To!DelimiterBefore
<1>3. m \in Nat
  OBVIOUS
<1> HIDE DEF m
<1>4. T \in SUBSET (-1..m) /\ T # {} /\ -1 \in Int /\ m \in Int
  BY <1>3
<1>5. \A i \in T : i = -1 \/ (i \in 0..m /\ i < Len(v) /\ v[i + 1] \in Delimiters)
  OBVIOUS
<1>6. \A i \in 0..m : i < Len(v) /\ v[i + 1] \in Delimiters => i \in T
  OBVIOUS
<1> HIDE DEF T, d
<1>7. d \in T /\ \A n \in T : n <= d
  BY <1>2, <1>4, GreatestIn
<1>8. d \in -1..(Len(v) - 1) /\ d <= m /\ (d = -1 \/ v[d + 1] \in Delimiters)
  BY <1>3, <1>4, <1>5, <1>7
<1> QED BY <1>6, <1>7, <1>8 DEF d, m

LEMMA DelimiterAfterIs ==
  ASSUME NEW v, Len(v) \in Nat, NEW from \in Nat
  PROVE  LET d == To!DelimiterAfter(v, from)
         IN  /\ d \in 0..Len(v) /\ (d >= from \/ d = Len(v))
             /\ d = Len(v) \/ v[d + 1] \in Delimiters
             /\ \A i \in 0..(Len(v) - 1) : i >= from /\ v[i + 1] \in Delimiters => d <= i
<1> DEFINE d == To!DelimiterAfter(v, from)
           n == Len(v)
           T == {n} \cup {i \in 0..(n - 1) : i >= from /\ v[i + 1] \in Delimiters}
<1>1. d = To!Least(T)
  BY DEF To!DelimiterAfter
<1>2. n \in Nat
  OBVIOUS
<1> HIDE DEF n
<1>3. T \in SUBSET Int /\ T # {} /\ 0 \in Int /\ \A i \in T : 0 <= i
  BY <1>2
<1>4. \A i \in T : i = n \/ (i \in 0..(n - 1) /\ i >= from /\ v[i + 1] \in Delimiters)
  OBVIOUS
<1>5. \A i \in 0..(n - 1) : i >= from /\ v[i + 1] \in Delimiters => i \in T
  OBVIOUS
<1> HIDE DEF T, d
<1>6. d \in T /\ \A i \in T : d <= i
  BY <1>1, <1>3, LeastIn
<1>7. d \in 0..n /\ (d >= from \/ d = n) /\ (d = n \/ v[d + 1] \in Delimiters)
  BY <1>2, <1>4, <1>6
<1> QED BY <1>5, <1>6, <1>7 DEF d, n

\* The white space at the start ends at the first ink, whatever follows.
Ink(v) == {j \in DOMAIN v : v[j] \notin Blanks}

LEMMA LeadingBlanksIs ==
  ASSUME NEW S, NEW v \in Seq(S), NEW k \in Ink(v), \A j \in Ink(v) : k <= j
  PROVE  To!LeadingBlanks(v) = SubSeq(v, 1, k - 1)
<1> DEFINE n == Len(v)
           T == {n} \cup {i - 1 : i \in Ink(v)}
<1>1. n \in Nat /\ DOMAIN v = 1..n
  OBVIOUS
<1>2. k \in 1..n /\ Ink(v) \subseteq 1..n
  BY <1>1 DEF Ink
<1> HIDE DEF n
<1>3. T \in SUBSET Int /\ T # {} /\ k - 1 \in T /\ \A i \in T : k - 1 <= i
  <2>1. n \in Int /\ k - 1 <= n /\ k - 1 \in Int
    BY <1>1, <1>2
  <2>2. \A j \in Ink(v) : j - 1 \in Int /\ k - 1 <= j - 1
    BY <1>2
  <2> QED BY <2>1, <2>2
<1>4. To!LeadingBlanks(v) = To!SubString(v, 0, To!Least(T))
  BY DEF To!LeadingBlanks, Ink, n
<1> HIDE DEF T
<1>5. To!Least(T) = k - 1
  <2>1. k - 1 \in Int
    BY <1>2
  <2>2. To!Least(T) \in T /\ \A i \in T : To!Least(T) <= i
    BY <1>3, <2>1, LeastIn
  <2>3. To!Least(T) \in Int
    BY <1>3, <2>2
  <2> QED BY <1>3, <2>1, <2>2, <2>3
<1>6. k - 1 \in 0..n /\ 0 \in 0..n /\ 0 + 1 = 1
  BY <1>1, <1>2
<1>7. To!SubString(v, 0, k - 1) = SubSeq(v, 0 + 1, k - 1)
  BY <1>6, SubStringIs DEF n
<1> QED BY <1>4, <1>5, <1>6, <1>7, Zenon

LEMMA BlanksBeforeToken ==
  ASSUME NEW S, NEW v \in Seq(S), NEW p \in 0..Len(v), NEW q \in p..Len(v),
         Ink(To!SubString(v, p, q)) # {}
  PROVE  To!LeadingBlanks(To!From(v, p)) = To!LeadingBlanks(To!SubString(v, p, q))
<1> DEFINE n == Len(v)
           s == To!SubString(v, p, q)
           t == To!From(v, p)
<1>1. n \in Nat /\ p \in 0..n /\ q \in p..n /\ n \in p..n
  OBVIOUS
<1> HIDE DEF n
<1>2. s = SubSeq(v, p + 1, q) /\ t = SubSeq(v, p + 1, n)
  <2>1. s = SubSeq(v, p + 1, q)
    BY SubStringIs
  <2>2. To!SubString(v, p, n) = SubSeq(v, p + 1, n)
    BY <1>1, SubStringIs DEF n
  <2> QED BY <2>1, <2>2 DEF To!From, n
<1>3. s \in Seq(S) /\ Len(s) = q - p /\ \A i \in 1..(q - p) : s[i] = v[p + i]
  <2>1. \A i \in (p + 1)..q : v[i] \in S
    BY <1>1 DEF n
  <2>2. p + 1 \in Int /\ q \in Int
    BY <1>1
  <2>3. /\ SubSeq(v, p + 1, q) \in Seq(S)
        /\ Len(SubSeq(v, p + 1, q)) = IF p + 1 <= q THEN q - (p + 1) + 1 ELSE 0
        /\ \A i \in 1..(q - (p + 1) + 1) : SubSeq(v, p + 1, q)[i] = v[p + 1 + i - 1]
    BY <2>1, <2>2, SubSeqProperties
  <2>4. \A i \in 1..(q - p) : s[i] = v[p + i]
    <3>1. \A i \in 1..(q - p) : p + 1 + i - 1 = p + i /\ i \in 1..(q - (p + 1) + 1)
      BY <1>1
    <3> QED BY <1>2, <2>3, <3>1
  <2>5. Len(s) = q - p
    BY <1>1, <1>2, <2>3
  <2> QED BY <1>2, <2>3, <2>4, <2>5
<1>4. t \in Seq(S) /\ Len(t) = n - p /\ \A i \in 1..(n - p) : t[i] = v[p + i]
  <2>1. \A i \in (p + 1)..n : v[i] \in S
    BY <1>1 DEF n
  <2>2. p + 1 \in Int /\ n \in Int
    BY <1>1
  <2>3. /\ SubSeq(v, p + 1, n) \in Seq(S)
        /\ Len(SubSeq(v, p + 1, n)) = IF p + 1 <= n THEN n - (p + 1) + 1 ELSE 0
        /\ \A i \in 1..(n - (p + 1) + 1) : SubSeq(v, p + 1, n)[i] = v[p + 1 + i - 1]
    BY <2>1, <2>2, SubSeqProperties
  <2>4. \A i \in 1..(n - p) : t[i] = v[p + i]
    <3>1. \A i \in 1..(n - p) : p + 1 + i - 1 = p + i /\ i \in 1..(n - (p + 1) + 1)
      BY <1>1
    <3> QED BY <1>2, <2>3, <3>1
  <2>5. Len(t) = n - p
    BY <1>1, <1>2, <2>3
  <2> QED BY <1>2, <2>3, <2>4, <2>5
<1> HIDE DEF s, t
<1>5. DOMAIN s = 1..(q - p) /\ DOMAIN t = 1..(n - p)
  BY <1>3, <1>4
<1>6. PICK k \in Ink(s) : \A j \in Ink(s) : k <= j
  <2>1. Ink(s) \in SUBSET Nat /\ Ink(s) # {}
    BY <1>5 DEF Ink, s
  <2> QED BY <2>1, LeastOf
<1>7. k \in 1..(q - p) /\ s[k] \notin Blanks
  BY <1>5, <1>6 DEF Ink
<1>8. k \in Ink(t)
  <2>1. k \in 1..(n - p) /\ t[k] = s[k]
    BY <1>1, <1>3, <1>4, <1>7
  <2> QED BY <1>5, <1>7, <2>1 DEF Ink
<1>9. \A j \in Ink(t) : k <= j
  <2> SUFFICES ASSUME NEW j \in Ink(t), ~(k <= j) PROVE FALSE
    OBVIOUS
  <2>1. j \in 1..(n - p) /\ t[j] \notin Blanks
    BY <1>5 DEF Ink
  <2>2. j \in 1..(q - p) /\ t[j] = s[j]
    BY <1>1, <1>3, <1>4, <1>7, <2>1
  <2>3. j \in Ink(s)
    BY <1>5, <2>1, <2>2 DEF Ink
  <2> QED BY <1>6, <2>3
<1>10. To!LeadingBlanks(s) = SubSeq(s, 1, k - 1) /\ To!LeadingBlanks(t) = SubSeq(t, 1, k - 1)
  BY <1>3, <1>4, <1>6, <1>8, <1>9, LeadingBlanksIs
<1>11. SubSeq(s, 1, k - 1) = SubSeq(t, 1, k - 1)
  <2>1. \A i \in 1..(k - 1) : s[i] = t[i]
    BY <1>1, <1>3, <1>4, <1>7
  <2> QED BY <1>1, <1>3, <1>4, <1>7, <2>1
<1> QED BY <1>10, <1>11 DEF s, t

----------------------------------------------------------------------------
(* The bounds kept. *)

\* getTokenBounds() of a text v that was w when typing last paused.
BoundsOf(v, w) ==
    LET diff == To!FirstDifferencePos(v, w)
        more == IF diff = Len(w) THEN 1 ELSE 0
    IN  <<To!DelimiterBefore(v, diff + more - 1) + 1, To!DelimiterAfter(v, diff + more)>>

TokenTypes ==
    /\ tokenText \in Seq(To!Characters) /\ Len(tokenText) <= MaxLength
    /\ tokenOld \in Seq(To!Characters) /\ Len(tokenOld) <= MaxLength
    /\ bounds \in {NoBounds} \cup (To!Positions \X To!Positions)
    /\ offered \in BOOLEAN /\ fresh \in BOOLEAN
    /\ edited \in To!Positions

\* While the text is the one the bounds are of, they are those of the token in
\* which it first differed from an earlier one, or there was no ink in it.
BoundsFollow ==
    fresh => \E w \in Seq(To!Characters) :
        /\ edited = To!FirstDifferencePos(tokenText, w)
        /\ IF bounds = NoBounds THEN To!BlankField ELSE bounds = BoundsOf(tokenText, w)

TokenInv == TokenTypes /\ BoundsFollow

LEMMA BoundsAreAround ==
  ASSUME NEW v, NEW w, Len(v) \in Nat, Len(w) \in Nat
  PROVE  LET d == To!FirstDifferencePos(v, w)
             p == BoundsOf(v, w)[1]
             q == BoundsOf(v, w)[2]
         IN  /\ p \in 0..Len(v) /\ q \in 0..Len(v)
             /\ p <= d + 1 /\ d <= q
             /\ p = 0 \/ v[p] \in Delimiters
             /\ q = Len(v) \/ v[q + 1] \in Delimiters
             /\ ~(d = 0 /\ Len(v) > 0 /\ v[1] \in Delimiters) =>
                    p <= q /\ \A i \in p..(q - 1) : v[i + 1] \notin Delimiters
<1> DEFINE d == To!FirstDifferencePos(v, w)
           o == IF d = Len(w) THEN 1 ELSE 0
           n == Len(v)
           b == To!DelimiterBefore(v, d + o - 1)
           q == To!DelimiterAfter(v, d + o)
           m == IF d + o - 1 <= 0 THEN 0 ELSE d + o - 1
<1>1. n \in Nat /\ d \in 0..n /\ o \in 0..1
  BY FirstDifferenceIs
<1>2. BoundsOf(v, w) = <<b + 1, q>>
  BY DEF BoundsOf
<1> HIDE DEF d, o
<1>3. d + o - 1 \in Int /\ d + o \in Nat
  BY <1>1
<1>4. /\ b \in -1..(n - 1) /\ b <= m
      /\ b = -1 \/ v[b + 1] \in Delimiters
      /\ \A i \in 0..m : i < n /\ v[i + 1] \in Delimiters => i <= b
  BY <1>3, DelimiterBeforeIs
<1>5. /\ q \in 0..n /\ (q >= d + o \/ q = n)
      /\ q = n \/ v[q + 1] \in Delimiters
      /\ \A i \in 0..(n - 1) : i >= d + o /\ v[i + 1] \in Delimiters => q <= i
  BY <1>3, DelimiterAfterIs
<1> HIDE DEF b, q, n
<1>6. b + 1 \in 0..n /\ b + 1 <= d + 1 /\ d <= q /\ (b + 1 = 0 \/ v[b + 1] \in Delimiters)
  BY <1>1, <1>4, <1>5
<1>7. ASSUME ~(d = 0 /\ n > 0 /\ v[1] \in Delimiters)
      PROVE  b + 1 <= q /\ \A i \in (b + 1)..(q - 1) : v[i + 1] \notin Delimiters
  <2>1. CASE d + o = 0
    <3>1. d = 0 /\ m = 0
      BY <1>1, <2>1
    <3>2. b = -1
      <4>1. b # 0
        BY <1>1, <1>4, <1>7, <3>1
      <4> QED BY <1>4, <3>1, <4>1
    <3>3. ASSUME NEW i \in 0..(q - 1), v[i + 1] \in Delimiters PROVE FALSE
      BY <1>1, <1>5, <2>1, <3>3
    <3> QED BY <1>5, <3>2, <3>3
  <2>2. CASE d + o > 0
    <3>1. m = d + o - 1
      BY <1>1, <1>3, <2>2
    <3>2. b + 1 <= q
      BY <1>1, <1>4, <1>5, <3>1
    <3>3. ASSUME NEW i \in (b + 1)..(q - 1), v[i + 1] \in Delimiters PROVE FALSE
      <4>1. i \in Int /\ i > b /\ i < q /\ i < n /\ i >= 0
        BY <1>1, <1>4, <1>5, <3>3
      <4>2. CASE i >= d + o
        BY <1>1, <1>3, <1>5, <3>3, <4>1, <4>2
      <4>3. CASE i < d + o
        <5>1. i \in 0..m
          BY <1>1, <1>3, <3>1, <4>1, <4>3
        <5>2. i <= b
          BY <1>4, <3>3, <4>1, <5>1
        <5> QED BY <1>4, <4>1, <5>2
      <4> QED BY <1>3, <4>1, <4>2, <4>3
    <3> QED BY <3>2, <3>3
  <2> QED BY <1>3, <2>1, <2>2
<1> QED BY <1>2, <1>5, <1>6, <1>7 DEF d, n

LEMMA BoundsOfIs == To!TokenBounds = BoundsOf(tokenText, tokenOld)
BY DEF To!TokenBounds, BoundsOf

LEMMA FirstDifferenceType ==
  ASSUME TokenTypes, To!TokenAssumption
  PROVE  To!FirstDifferencePos(tokenText, tokenOld) \in To!Positions
<1>1. /\ To!FirstDifferencePos(tokenText, tokenOld) \in 0..Len(tokenText)
      /\ Len(tokenText) <= MaxLength
  BY FirstDifferenceIs DEF TokenTypes
<1>2. Len(tokenText) \in Nat /\ MaxLength \in Nat
  BY DEF TokenTypes, To!TokenAssumption
<1> QED BY <1>1, <1>2 DEF To!Positions

LEMMA TokenBoundsType ==
  ASSUME TokenTypes, To!TokenAssumption
  PROVE  To!TokenBounds \in To!Positions \X To!Positions /\ To!TokenBounds # NoBounds
<1> DEFINE b == BoundsOf(tokenText, tokenOld)
<1>1. Len(tokenText) \in Nat /\ Len(tokenOld) \in Nat /\ Len(tokenText) <= MaxLength /\ MaxLength \in Nat
  BY DEF TokenTypes, To!TokenAssumption
<1>2. b[1] \in 0..Len(tokenText) /\ b[2] \in 0..Len(tokenText)
  BY <1>1, BoundsAreAround
<1>3. b = <<b[1], b[2]>>
  BY DEF BoundsOf
<1> HIDE DEF b
<1>4. b[1] \in To!Positions /\ b[2] \in To!Positions
  BY <1>1, <1>2 DEF To!Positions
<1>5. b \in To!Positions \X To!Positions
  BY <1>3, <1>4
<1> QED BY <1>5, BoundsOfIs DEF b, To!TokenAssumption

\* What is kept at a pause.
LEMMA KeptIs ==
  ASSUME TokenTypes, To!TokenAssumption
  PROVE  /\ To!KeptAfter(NoBounds) \in {NoBounds} \cup (To!Positions \X To!Positions)
         /\ IF To!KeptAfter(NoBounds) = NoBounds THEN To!BlankField
            ELSE To!KeptAfter(NoBounds) = BoundsOf(tokenText, tokenOld)
         /\ bounds # NoBounds => To!KeptAfter(bounds) = bounds
         /\ To!KeptAfter(bounds) \in {NoBounds} \cup (To!Positions \X To!Positions)
<1>1. To!TokenBounds \in To!Positions \X To!Positions /\ To!TokenBounds # NoBounds
  BY TokenBoundsType
<1>2. To!KeptAfter(NoBounds) = IF To!BlankField THEN NoBounds ELSE To!TokenBounds
  BY DEF To!KeptAfter, To!BoundsGiven
<1>3. bounds # NoBounds => To!KeptAfter(bounds) = bounds
  BY DEF To!KeptAfter, To!BoundsGiven
<1>4. bounds \in {NoBounds} \cup (To!Positions \X To!Positions)
  BY DEF TokenTypes
<1>5. /\ To!KeptAfter(NoBounds) \in {NoBounds} \cup (To!Positions \X To!Positions)
      /\ IF To!KeptAfter(NoBounds) = NoBounds THEN To!BlankField
         ELSE To!KeptAfter(NoBounds) = BoundsOf(tokenText, tokenOld)
  BY <1>1, <1>2, BoundsOfIs, Zenon
<1>6. To!KeptAfter(bounds) \in {NoBounds} \cup (To!Positions \X To!Positions)
  <2>1. CASE bounds = NoBounds
    BY <1>5, <2>1
  <2>2. CASE bounds # NoBounds
    BY <1>3, <1>4, <2>2
  <2> QED BY <2>1, <2>2
<1> QED BY <1>3, <1>5, <1>6, Zenon

LEMMA TokenInitInv == ASSUME To!TokenAssumption, To!TokenInit PROVE TokenInv
<1>1. <<>> \in Seq(To!Characters) /\ Len(<<>>) = 0 /\ MaxLength \in Nat
  BY DEF To!TokenAssumption
<1>2. 0 \in To!Positions /\ 0 <= MaxLength
  BY <1>1 DEF To!Positions
<1>3. TokenTypes
  BY <1>1, <1>2 DEF To!TokenInit, TokenTypes
<1> QED BY <1>3 DEF To!TokenInit, TokenInv, BoundsFollow

LEMMA JoinedType ==
  ASSUME NEW S, NEW v \in Seq(S), NEW w \in Seq(S)
  PROVE  v \o w \in Seq(S) /\ Len(v \o w) = Len(v) + Len(w)
BY ConcatProperties

LEMMA TypeKeeps == ASSUME To!TokenAssumption, TokenInv, To!Type PROVE TokenInv'
<1> DEFINE S == To!Characters
           n == Len(tokenText)
<1>1. tokenText \in Seq(S) /\ n \in Nat /\ n <= MaxLength /\ MaxLength \in Nat
  BY DEF TokenInv, TokenTypes, To!TokenAssumption
<1>2. PICK i \in 0..n :
        \/ /\ n < MaxLength
           /\ \E c \in S : tokenText' = To!SubString(tokenText, 0, i) \o <<c>> \o To!From(tokenText, i)
        \/ /\ i < n
           /\ tokenText' = To!SubString(tokenText, 0, i) \o To!From(tokenText, i + 1)
  BY DEF To!Type
<1> HIDE DEF n, S
<1>3. /\ To!SubString(tokenText, 0, i) \in Seq(S)
      /\ Len(To!SubString(tokenText, 0, i)) = i
  <2>1. 0 \in 0..n /\ i \in 0..n
    BY <1>1, <1>2
  <2>2. To!SubString(tokenText, 0, i) = SubSeq(tokenText, 0 + 1, i)
    BY <1>1, <2>1, SubStringIs DEF n
  <2>3. To!SubString(tokenText, 0, i) \in Seq(S)
    BY <1>1, <2>1, SubStringType
  <2>4. Len(SubSeq(tokenText, 0 + 1, i)) = i
    BY <1>1, <2>1 DEF n
  <2> QED BY <2>2, <2>3, <2>4
<1>4. \A j \in 0..n : To!From(tokenText, j) \in Seq(S) /\ Len(To!From(tokenText, j)) = n - j
  <2> SUFFICES ASSUME NEW j \in 0..n
               PROVE  To!From(tokenText, j) \in Seq(S) /\ Len(To!From(tokenText, j)) = n - j
    OBVIOUS
  <2>1. n \in j..n /\ n \in Int /\ j \in Int
    BY <1>1
  <2>2. To!SubString(tokenText, j, n) = SubSeq(tokenText, j + 1, n)
    BY <1>1, <2>1, SubStringIs DEF n
  <2>3. To!SubString(tokenText, j, n) \in Seq(S)
    BY <1>1, <2>1, SubStringType DEF n
  <2>4. Len(SubSeq(tokenText, j + 1, n)) = n - j
    BY <1>1, <2>1 DEF n
  <2> QED BY <2>2, <2>3, <2>4 DEF To!From, n
<1>5. tokenText' \in Seq(S) /\ Len(tokenText') <= MaxLength
  <2>1. CASE /\ n < MaxLength
             /\ \E c \in S : tokenText' = To!SubString(tokenText, 0, i) \o <<c>> \o To!From(tokenText, i)
    <3>1. PICK c \in S : tokenText' = To!SubString(tokenText, 0, i) \o <<c>> \o To!From(tokenText, i)
      BY <2>1
    <3>2. <<c>> \in Seq(S) /\ Len(<<c>>) = 1
      OBVIOUS
    <3>3. To!From(tokenText, i) \in Seq(S) /\ Len(To!From(tokenText, i)) = n - i
      BY <1>4
    <3>4. /\ To!SubString(tokenText, 0, i) \o <<c>> \in Seq(S)
          /\ Len(To!SubString(tokenText, 0, i) \o <<c>>) = i + 1
      BY <1>3, <3>2, JoinedType
    <3>5. tokenText' \in Seq(S) /\ Len(tokenText') = i + 1 + (n - i)
      <4> DEFINE a == To!SubString(tokenText, 0, i) \o <<c>>
                 z == To!From(tokenText, i)
      <4>1. a \in Seq(S) /\ Len(a) = i + 1 /\ z \in Seq(S) /\ Len(z) = n - i /\ tokenText' = a \o z
        BY <3>1, <3>3, <3>4
      <4> HIDE DEF a, z
      <4> QED BY <4>1, JoinedType
    <3> QED BY <1>1, <1>2, <2>1, <3>5
  <2>2. CASE i < n /\ tokenText' = To!SubString(tokenText, 0, i) \o To!From(tokenText, i + 1)
    <3>1. i + 1 \in 0..n
      BY <1>1, <1>2, <2>2
    <3>2. To!From(tokenText, i + 1) \in Seq(S) /\ Len(To!From(tokenText, i + 1)) = n - (i + 1)
      BY <1>4, <3>1
    <3>3. tokenText' \in Seq(S) /\ Len(tokenText') = i + (n - (i + 1))
      BY <1>3, <2>2, <3>2, JoinedType
    <3> QED BY <1>1, <1>2, <3>3
  <2> QED BY <1>2, <2>1, <2>2
<1>6. 0 \in To!Positions
  BY <1>1 DEF To!Positions
<1>7. TokenTypes'
  BY <1>5, <1>6 DEF TokenInv, TokenTypes, To!Type, S
<1> QED BY <1>7 DEF TokenInv, BoundsFollow, To!Type

LEMMA PauseKeeps == ASSUME To!TokenAssumption, TokenInv, To!Pause PROVE TokenInv'
<1>1. TokenTypes
  BY DEF TokenInv
<1>2. /\ bounds' = To!KeptAfter(NoBounds) /\ tokenOld' = tokenText /\ tokenText' = tokenText
      /\ edited' = To!FirstDifferencePos(tokenText, tokenOld) /\ fresh' = TRUE
      /\ offered' \in BOOLEAN
  BY DEF To!Pause
<1>3. TokenTypes'
  BY <1>1, <1>2, KeptIs, FirstDifferenceType DEF TokenTypes
<1>4. tokenOld \in Seq(To!Characters)
  BY <1>1 DEF TokenTypes
<1>5. To!BlankField' = To!BlankField
  BY <1>2 DEF To!BlankField
<1>6. /\ edited' = To!FirstDifferencePos(tokenText', tokenOld)
      /\ IF bounds' = NoBounds THEN To!BlankField' ELSE bounds' = BoundsOf(tokenText', tokenOld)
  BY <1>1, <1>2, <1>5, KeptIs
<1>7. BoundsFollow'
  BY <1>4, <1>6 DEF BoundsFollow
<1> QED BY <1>3, <1>7 DEF TokenInv

LEMMA ActivateKeeps == ASSUME To!TokenAssumption, TokenInv, To!Activate PROVE TokenInv'
<1>1. TokenTypes /\ BoundsFollow
  BY DEF TokenInv
<1>2. /\ bounds' = To!KeptAfter(bounds) /\ tokenOld' = tokenOld /\ tokenText' = tokenText
      /\ offered' = TRUE
      /\ IF bounds = NoBounds
         THEN fresh' = TRUE /\ edited' = To!FirstDifferencePos(tokenText, tokenOld)
         ELSE fresh' = fresh /\ edited' = edited
  BY DEF To!Activate
<1>3. TokenTypes'
  BY <1>1, <1>2, KeptIs, FirstDifferenceType DEF TokenTypes
<1>4. tokenOld \in Seq(To!Characters)
  BY <1>1 DEF TokenTypes
<1>5. To!BlankField' = To!BlankField
  BY <1>2 DEF To!BlankField
<1>6. CASE bounds = NoBounds
  <2>1. /\ edited' = To!FirstDifferencePos(tokenText', tokenOld)
        /\ IF bounds' = NoBounds THEN To!BlankField' ELSE bounds' = BoundsOf(tokenText', tokenOld)
    BY <1>1, <1>2, <1>5, <1>6, KeptIs
  <2> QED BY <1>3, <1>4, <2>1 DEF TokenInv, BoundsFollow
<1>7. CASE bounds # NoBounds
  <2>1. bounds' = bounds /\ fresh' = fresh /\ edited' = edited /\ tokenText' = tokenText
    BY <1>1, <1>2, <1>7, KeptIs
  <2>2. BoundsFollow'
    BY <1>1, <1>5, <2>1 DEF BoundsFollow
  <2> QED BY <1>3, <2>2 DEF TokenInv
<1> QED BY <1>6, <1>7

\* What a choice leaves, and that it does not lengthen anything beyond it.
LEMMA ReplacedType ==
  ASSUME To!TokenAssumption, TokenTypes, NEW entry \in Seq(To!Characters)
  PROVE  To!Replaced(To!BoundsGiven(bounds), entry) \in Seq(To!Characters)
<1> DEFINE S == To!Characters
           b == To!BoundsGiven(bounds)
<1>1. tokenText \in Seq(S) /\ Len(tokenText) \in Nat /\ MaxLength \in Nat
  BY DEF TokenTypes, To!TokenAssumption
<1>2. b[1] \in Int /\ b[2] \in Int
  <2>1. To!TokenBounds \in To!Positions \X To!Positions
    BY TokenBoundsType
  <2>2. \A x \in To!Positions \X To!Positions : x[1] \in Int /\ x[2] \in Int
    BY <1>1 DEF To!Positions
  <2>3. b \in (To!Positions \X To!Positions) \/ b = <<-1, 0>>
    BY <2>1, Zenon DEF To!BoundsGiven, TokenTypes
  <2>4. <<-1, 0>>[1] = -1 /\ <<-1, 0>>[2] = 0
    OBVIOUS
  <2> HIDE DEF b
  <2> QED BY <2>2, <2>3, <2>4
<1> HIDE DEF S, b
<1>3. \A v \in Seq(S) : \A i, j \in Int : To!SubString(v, i, j) \in Seq(S)
  BY SubStringType
<1>4. \A i \in Int : To!From(tokenText, i) \in Seq(S)
  BY <1>1, <1>3 DEF To!From
<1>5. To!LeadingBlanks(To!From(tokenText, b[1])) \in Seq(S)
  <2> DEFINE t == To!From(tokenText, b[1])
             T == {Len(t)} \cup {i - 1 : i \in {j \in DOMAIN t : t[j] \notin Blanks}}
  <2>1. t \in Seq(S)
    BY <1>2, <1>4
  <2>2. To!LeadingBlanks(t) = To!SubString(t, 0, To!Least(T))
    BY DEF To!LeadingBlanks
  <2> HIDE DEF t
  <2>3. Len(t) \in Nat /\ DOMAIN t = 1..Len(t)
    BY <2>1
  <2>4. T \in SUBSET Int /\ T # {} /\ \A n \in T : 0 <= n
    BY <2>3
  <2> HIDE DEF T
  <2>5. To!Least(T) \in Int
    <3>1. 0 \in Int /\ T # {} /\ T \in SUBSET Int
      BY <2>4
    <3>2. To!Least(T) \in T
      BY <2>4, <3>1, LeastIn
    <3> QED BY <3>1, <3>2
  <2> QED BY <1>3, <2>1, <2>2, <2>5 DEF t
<1>6. CASE b[1] = -1
  BY <1>6 DEF To!Replaced, S, b
<1>7. CASE b[1] # -1
  <2>1. /\ entry \in Seq(S) /\ To!From(tokenText, b[2]) \in Seq(S)
        /\ To!SubString(tokenText, 0, b[1]) \in Seq(S)
    <3>1. entry \in Seq(S)
      BY DEF S
    <3>2. To!From(tokenText, b[2]) \in Seq(S)
      BY <1>2, <1>4
    <3>3. 0 \in Int /\ To!SubString(tokenText, 0, b[1]) \in Seq(S)
      BY <1>1, <1>2, <1>3
    <3> QED BY <3>1, <3>2, <3>3
  <2>2. To!Replaced(b, entry) = To!SubString(tokenText, 0, b[1])
            \o To!LeadingBlanks(To!From(tokenText, b[1])) \o entry \o To!From(tokenText, b[2])
    BY <1>7 DEF To!Replaced
  <2>3. To!SubString(tokenText, 0, b[1]) \o To!LeadingBlanks(To!From(tokenText, b[1])) \in Seq(S)
    BY <1>5, <2>1, JoinedType
  <2>4. To!SubString(tokenText, 0, b[1]) \o To!LeadingBlanks(To!From(tokenText, b[1])) \o entry \in Seq(S)
    BY <2>1, <2>3, JoinedType
  <2>5. To!Replaced(b, entry) \in Seq(S)
    BY <2>1, <2>2, <2>4, JoinedType
  <2> QED BY <2>5 DEF b, S
<1> QED BY <1>6, <1>7

LEMMA ChooseKeeps ==
  ASSUME To!TokenAssumption, TokenInv, NEW entry \in Entries, To!Choose(entry)
  PROVE  TokenInv'
<1>1. TokenTypes /\ entry \in Seq(To!Characters) /\ MaxLength \in Nat
  BY DEF TokenInv, To!TokenAssumption
<1>2. tokenText' \in Seq(To!Characters) /\ Len(tokenText') <= MaxLength /\ tokenOld' = tokenText'
  BY <1>1, ReplacedType DEF To!Choose
<1>3. bounds' \in {NoBounds} \cup (To!Positions \X To!Positions)
  BY <1>1, KeptIs DEF To!Choose
<1>4. offered' = FALSE /\ fresh' = FALSE /\ edited' = 0 /\ 0 \in To!Positions
  BY <1>1 DEF To!Choose, To!Positions
<1>5. TokenTypes'
  BY <1>2, <1>3, <1>4 DEF TokenTypes
<1> QED BY <1>4, <1>5 DEF TokenInv, BoundsFollow

LEMMA TokenStepInv ==
  ASSUME To!TokenAssumption, TokenInv, [To!TokenNext]_(To!tokenVars)
  PROVE  TokenInv'
<1>1. CASE To!TokenNext
  BY <1>1, TypeKeeps, PauseKeeps, ActivateKeeps, ChooseKeeps DEF To!TokenNext
<1>2. CASE UNCHANGED To!tokenVars
  <2>1. TokenTypes' /\ UNCHANGED <<tokenText, bounds, fresh, edited>>
    BY <1>2 DEF TokenInv, TokenTypes, To!tokenVars
  <2>2. To!BlankField' = To!BlankField
    BY <2>1 DEF To!BlankField
  <2> QED BY <2>1, <2>2 DEF TokenInv, BoundsFollow
<1> QED BY <1>1, <1>2

\* A choice replaces one token.
LEMMA ChoiceReplaces ==
  ASSUME To!TokenAssumption, TokenInv
  PROVE  To!ReplacesOneToken
<1> SUFFICES ASSUME offered, ~To!Stale, ~To!DelimiterTypedFirst, ~To!NothingTyped,
                    NEW entry \in Entries, To!Choose(entry)
             PROVE  \E p, q \in 0..Len(tokenText) :
                        /\ p <= edited + 1 /\ edited <= q
                        /\ To!TokenReplaced(p, q, entry)
  BY DEF To!ReplacesOneToken
<1> DEFINE n == Len(tokenText)
<1>1. tokenText \in Seq(To!Characters) /\ n \in Nat
  BY DEF TokenInv, TokenTypes
<1>2. PICK w \in Seq(To!Characters) :
        /\ edited = To!FirstDifferencePos(tokenText, w)
        /\ IF bounds = NoBounds THEN To!BlankField ELSE bounds = BoundsOf(tokenText, w)
  BY DEF TokenInv, BoundsFollow, To!Stale
<1>3. bounds # NoBounds
  <2> SUFFICES ASSUME bounds = NoBounds PROVE FALSE
    OBVIOUS
  <2>1. To!BoundsGiven(bounds) = <<-1, 0>>
    BY <1>2, Zenon DEF To!BoundsGiven
  <2>2. To!Token(<<-1, 0>>) = To!Strip(To!SubString(tokenText, -1, 0))
    BY DEF To!Token
  <2>3. To!SubString(tokenText, -1, 0) = <<>>
    <3> DEFINE In(p) == To!Greatest({0, To!Least({p, Len(tokenText)})})
    <3>1. To!Least({-1, Len(tokenText)}) = -1 /\ To!Least({0, Len(tokenText)}) = 0
      <4>1. -1 \in Int /\ 0 \in Int /\ Len(tokenText) \in Int /\ -1 <= Len(tokenText) /\ 0 <= Len(tokenText)
        BY <1>1
      <4> QED BY <4>1, LeastOfTwo
    <3>2. In(-1) = 0 /\ In(0) = 0
      <4>1. To!Greatest({0, -1}) = 0 /\ To!Greatest({0, 0}) = 0
        <5>1. 0 \in Int /\ -1 \in Int /\ ~(0 <= -1) /\ 0 <= 0
          OBVIOUS
        <5>2. To!Greatest({0, -1}) = IF 0 <= -1 THEN -1 ELSE 0
          BY <5>1, GreatestOfTwo
        <5>3. To!Greatest({0, 0}) = IF 0 <= 0 THEN 0 ELSE 0
          BY <5>1, GreatestOfTwo
        <5> QED BY <5>1, <5>2, <5>3
      <4> QED BY <3>1, <4>1
    <3>3. To!Least({0, 0}) = 0 /\ To!Greatest({0, 0}) = 0
      BY LeastOfTwo, GreatestOfTwo
    <3>4. To!SubString(tokenText, -1, 0) = SubSeq(tokenText, 0 + 1, 0)
      BY <3>2, <3>3, Zenon DEF To!SubString
    <3>5. SubSeq(tokenText, 0 + 1, 0) = <<>>
      <4>1. \A i \in (0 + 1)..0 : tokenText[i] \in To!Characters
        OBVIOUS
      <4>2. /\ SubSeq(tokenText, 0 + 1, 0) \in Seq(To!Characters)
            /\ Len(SubSeq(tokenText, 0 + 1, 0)) = IF 0 + 1 <= 0 THEN 0 - (0 + 1) + 1 ELSE 0
        BY <4>1, SubSeqProperties
      <4> QED BY <4>2, EmptySeq
    <3> QED BY <3>4, <3>5
  <2>4. To!Strip(<<>>) = <<>>
    BY DEF To!Strip
  <2> QED BY <2>1, <2>2, <2>3, <2>4 DEF To!NothingTyped
<1>4. bounds = BoundsOf(tokenText, w) /\ To!BoundsGiven(bounds) = bounds
  BY <1>2, <1>3 DEF To!BoundsGiven
<1> DEFINE p == bounds[1]
           q == bounds[2]
<1>5. ~(edited = 0 /\ n > 0 /\ tokenText[1] \in Delimiters)
  <2>1. n > 0 => tokenText # <<>>
    BY <1>1
  <2> QED BY <2>1 DEF To!DelimiterTypedFirst
<1>6. /\ p \in 0..n /\ q \in 0..n /\ p <= edited + 1 /\ edited <= q
      /\ p = 0 \/ tokenText[p] \in Delimiters
      /\ q = n \/ tokenText[q + 1] \in Delimiters
      /\ p <= q /\ \A i \in p..(q - 1) : tokenText[i + 1] \notin Delimiters
  <2>1. Len(tokenText) \in Nat /\ Len(w) \in Nat
    BY <1>1
  <2> QED BY <1>2, <1>4, <1>5, <2>1, BoundsAreAround
<1>7. To!LeadingBlanks(To!From(tokenText, p)) = To!LeadingBlanks(To!SubString(tokenText, p, q))
  <2>1. To!Strip(To!SubString(tokenText, p, q)) # <<>>
    BY <1>4 DEF To!NothingTyped, To!Token
  <2>2. Ink(To!SubString(tokenText, p, q)) # {}
    BY <2>1 DEF To!Strip, Ink
  <2>3. p \in 0..Len(tokenText) /\ q \in p..Len(tokenText)
    BY <1>1, <1>6
  <2> HIDE DEF p, q
  <2> QED BY <1>1, <2>2, <2>3, BlanksBeforeToken
<1>8. tokenText' = To!SubString(tokenText, 0, p) \o To!LeadingBlanks(To!SubString(tokenText, p, q))
                        \o entry \o To!From(tokenText, q)
  <2>1. p # -1
    BY <1>1, <1>6
  <2>2. tokenText' = To!Replaced(bounds, entry)
    BY <1>4 DEF To!Choose
  <2> QED BY <1>7, <2>1, <2>2 DEF To!Replaced
<1> HIDE DEF p, q
<1>9. To!TokenReplaced(p, q, entry)
  BY <1>6, <1>8 DEF To!TokenReplaced
<1> QED BY <1>6, <1>9

LEMMA TokensTyped == TokenInv => To!TokenTypeOK
BY Zenon DEF TokenInv, TokenTypes, To!TokenTypeOK

\* controls.js L224-334: the text, the one at the last pause and the kept bounds
\* keep their types, and no bounds are out of range.
THEOREM TokensTypeCorrect == ASSUME To!TokenAssumption PROVE To!TokenSpec => []To!TokenTypeOK
<1>1. TokenInv => To!TokenTypeOK
  BY TokensTyped
<1>2. To!TokenInit => TokenInv
  BY TokenInitInv
<1>3. TokenInv /\ [To!TokenNext]_(To!tokenVars) => TokenInv'
  BY TokenStepInv
<1> QED BY <1>1, <1>2, <1>3, PTL DEF To!TokenSpec

\* controls.js L224-248, L296-334: a choice replaces exactly the token in which
\* the user last typed, as long as the bounds kept are of this text, no
\* delimiter was typed first and the token is not blank; for any text.
THEOREM ChoicesReplaceTokens ==
  ASSUME To!TokenAssumption PROVE To!TokenSpec => To!OneTokenIsReplaced
<1>1. TokenInv /\ [To!TokenNext]_(To!tokenVars) => [To!ReplacesOneToken]_(To!tokenVars)
  BY ChoiceReplaces
<1>2. To!TokenInit => TokenInv
  BY TokenInitInv
<1>3. TokenInv /\ [To!TokenNext]_(To!tokenVars) => TokenInv'
  BY TokenStepInv
<1> QED BY <1>1, <1>2, <1>3, PTL DEF To!TokenSpec, To!OneTokenIsReplaced
=============================================================================
