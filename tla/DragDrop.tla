------------------------------ MODULE DragDrop ------------------------------
(***************************************************************************)
(* dragdrop.js: Draggables, Droppables and Sortable with two lists whose   *)
(* items may be moved from one to the other, and a bin that takes items.   *)
(* Mouse, keyboard, timers, effects and the page's own calls interleave.   *)
(* The page creates the lists anew, or sets their order, between drags.    *)
(* Geometry is left out: the pointer may be over any droppable.            *)
(***************************************************************************)
EXTENDS Naturals, FiniteSets, Sequences, SequencesExt

CONSTANTS
    Items, Lists,
    FirstList,          \* holds all items at first
    Bin,                \* a droppable with an onDrop that takes the item away
    None,
    Options,            \* [ghosting, delay, scroll, quiet : BOOLEAN]
    MaxEffects          \* bound: end effects under way

Faults == {"lost", "raised", "escaped", "unmoved"}

DragDropAssumption ==
    /\ FirstList \in Lists /\ IsFiniteSet(Items) /\ MaxEffects \in Nat
    /\ {Bin, None} \cap (Items \cup Lists) = {} /\ None \notin Faults

VARIABLES
    options,
    order,              \* the items of each list
    lastValue, told,    \* SortableObserver.lastValue; the order onUpdate last saw
    active, waiting,    \* Draggables.activeDraggable, and that of _timeout
    pointer,            \* Draggables._lastPointer is set
    dragging, delta, clone, scrolling,   \* the draggables that have these set
    lastActive,         \* Droppables.last_active
    flag,               \* Draggable._dragging: one for all elements of a kind
    effects,            \* end effects that have still to reset the flag
    button,             \* the left button is down
    fault               \* history: "lost", a release outside the window was not
                        \* seen; "raised", a callback raised; "escaped", Escape
                        \* left the scrolling on, "unmoved", it came before the
                        \* first move in a quiet list (bound: one of these)

lists == <<order, lastValue, told>>
objects == <<dragging, delta, clone, scrolling>>
vars == <<options, lists, active, waiting, pointer, objects, lastActive, flag, effects, button, fault>>

Drops == Items \cup Lists \cup {Bin}

TypeOK ==
    /\ options \in Options
    /\ {order, told} \subseteq [Lists -> {s \in Seq(Items) : IsInjective(s)}]
    /\ lastValue \in [Lists -> Seq(Items)]
    /\ {active, waiting} \subseteq Items \cup {None}
    /\ \A s \in {dragging, delta, clone, scrolling} : s \subseteq Items
    /\ lastActive \in Drops \cup {None}
    /\ effects \in 0..MaxEffects
    /\ {pointer, flag, button} \subseteq BOOLEAN
    /\ fault \in Faults \cup {None}

Init ==
    /\ options \in Options
    /\ \E s \in SetToSeqs(Items) : order = [l \in Lists |-> IF l = FirstList THEN s ELSE <<>>]
    /\ lastValue = order /\ told = order
    /\ active = None /\ waiting = None /\ lastActive = None
    /\ pointer = FALSE /\ flag = FALSE /\ button = FALSE
    /\ dragging = {} /\ delta = {} /\ clone = {} /\ scrolling = {}
    /\ effects = 0
    /\ fault = None

----------------------------------------------------------------------------
(* Droppables and the sortable's callbacks, on an order o of the lists. *)

Faulty(f) == fault = None /\ fault' = f

Inside(o, e) == {l \in Lists : Contains(o[l], e)}

Without(o, e) == [l \in Lists |-> RemoveFirst(o[l], e)]

PlaceOf(s, e) == SelectInSeq(s, LAMBDA x : x = e)

\* Sortable.serialize() as onStart reads it: a ghost is put into its list before
\* that, so the list then holds its item twice.  (The ghost that a lost drag
\* leaves in a list is left out.)
Serialized(o, e) ==
    [l \in Lists |-> IF options.ghosting /\ Contains(o[l], e) THEN InsertAt(o[l], PlaceOf(o[l], e), e)
                     ELSE o[l]]

\* onHover and onEmptyHover: an item goes before or after the item it is over,
\* or somewhere into a list it is over and not in already.
Hovered(o, e, over) ==
    LET p == Without(o, e)
        Into(l, places) == {[p EXCEPT ![l] = InsertAt(@, i, e)] : i \in places}
    IN  IF over \in Items
        THEN UNION {Into(l, {PlaceOf(p[l], over), PlaceOf(p[l], over) + 1}) : l \in Inside(p, over)}
        ELSE IF over \in Lists /\ over \notin Inside(o, e)
        THEN Into(over, 1..(Len(o[over]) + 1))
        ELSE {o}

\* The droppables that may be affected; outside the lists that is the bin.
Affected(o, e) ==
    {Bin, None} \cup IF Inside(o, e) = {} THEN {}
                     ELSE Lists \cup {x \in Items \ {e} : Inside(o, x) # {}}

\* show(): the droppable the item is over, if any, becomes the last active one.
Show(o, e) ==
    \E over \in Affected(o, e) : lastActive' = over /\ order' \in Hovered(o, e, over)

\* Mutant: an observer hears of a change only while its list holds the item.
ToldHolder(o, e) == [l \in Lists |-> IF Contains(o[l], e) /\ lastValue[l] # o[l] THEN o[l] ELSE told[l]]

\* SortableObserver.onEnd of each list.
Told(o, e) == [l \in Lists |-> IF lastValue[l] # o[l] THEN o[l] ELSE told[l]]

\* options.endeffect.
EndEffect == effects' = effects + 1

\* Draggables.deactivate and Droppables.reset.
Deactivate == active' = None /\ lastActive' = None

\* finishDrag() of draggable d, over the last active droppable or (if quiet)
\* the one it finds now.  A callback of the page may raise, which ends it
\* there; it does so itself when Escape comes before the first move and there
\* is no clone to remove, or nothing to revert to.  Ended to its end it leaves
\* the fault given.
FinishDrag(d, success, end) ==
    \E over \in IF options.quiet THEN Affected(order, d) ELSE {lastActive} :
    \E hovered \in IF options.quiet THEN Hovered(order, d, over) ELSE {order} :
    \E o \in {hovered} \cup (IF success /\ over = Bin THEN {Without(hovered, d)} ELSE {}) :
        /\ effects < MaxEffects
        /\ dragging' = dragging \ {d}
        /\ clone' = clone \ {d}
        /\ IF options.ghosting /\ d \notin clone
           THEN /\ order' = hovered /\ lastActive' = over
                /\ Faulty("raised")
                /\ UNCHANGED <<told, active, effects>>
           ELSE /\ order' = o
                /\ \/ /\ d \in delta
                      /\ told' = Told(o, d)
                      /\ EndEffect
                      /\ Deactivate
                      /\ fault' = end
                   \/ /\ told' \in {told, Told(o, d)}
                      /\ d \in delta => told # Told(o, d)
                      /\ lastActive' = over
                      /\ Faulty("raised")
                      /\ UNCHANGED <<active, effects>>

----------------------------------------------------------------------------
(* Mouse, keyboard and timers. *)

\* initDrag() of an item of a list; with a delay it is activated later.  A
\* press during a delay is left out: the delay is over by then.
Press ==
    /\ ~button /\ waiting = None
    /\ button' = TRUE
    /\ \E e \in Items :
        /\ Inside(order, e) # {}
        /\ IF flag THEN UNCHANGED <<active, waiting>>
           ELSE IF options.delay
           THEN waiting' = e /\ UNCHANGED active
           ELSE active' = e /\ UNCHANGED waiting
    /\ UNCHANGED <<options, lists, pointer, objects, lastActive, flag, effects, fault>>

DelayOver ==
    /\ waiting # None
    /\ active' = waiting /\ waiting' = None
    /\ UNCHANGED <<options, lists, pointer, objects, lastActive, flag, effects, button, fault>>

\* stopScrolling() and startScrolling() where the pointer is near an edge.
Rescroll(d) ==
    scrolling' \in {scrolling \ {d}} \cup (IF options.scroll THEN {scrolling \cup {d}} ELSE {})

\* updateDrag(), with startDrag() on the first move.
MouseMove ==
    /\ active # None
    /\ pointer' = TRUE
    /\ dragging' = dragging \cup {active}
    /\ delta' = delta \cup {active}
    /\ IF active \in dragging THEN UNCHANGED <<clone, lastValue, flag>>
       ELSE /\ clone' = IF options.ghosting THEN clone \cup {active} ELSE clone
            /\ lastValue' = Serialized(order, active)
            /\ flag' = TRUE
    /\ IF options.quiet THEN UNCHANGED <<order, lastActive>> ELSE Show(order, active)
    /\ Rescroll(active)
    /\ UNCHANGED <<options, told, active, waiting, effects, button, fault>>

\* endDrag(); nothing happens to a button released outside the window.
Release ==
    /\ button
    /\ button' = FALSE
    /\ waiting' = None
    /\ IF active = None
       THEN UNCHANGED <<lists, active, pointer, objects, lastActive, effects, fault>>
       ELSE /\ pointer' = FALSE
            /\ IF active \notin dragging
               THEN active' = None /\ UNCHANGED <<lists, objects, lastActive, effects, fault>>
               ELSE /\ scrolling' = scrolling \ {active}
                    /\ FinishDrag(active, TRUE, fault)
                    /\ UNCHANGED <<lastValue, delta>>
    /\ UNCHANGED <<options, flag>>

ReleaseOutside ==
    /\ button
    /\ button' = FALSE
    /\ Faulty("lost")
    /\ UNCHANGED <<options, lists, active, waiting, pointer, objects, lastActive, flag, effects>>

\* keyPress(): Escape does not stop the scrolling; pressed before the first
\* move, it moves an item of a quiet list, whose observer then compares with the
\* order at the start of an earlier drag.
Unmoved == options.quiet /\ active \notin dragging

Escape ==
    /\ active # None
    /\ active \in scrolling \/ Unmoved => fault = None
    /\ FinishDrag(active, FALSE, IF active \in scrolling THEN "escaped"
                                ELSE IF Unmoved THEN "unmoved" ELSE fault)
    /\ UNCHANGED <<options, lastValue, waiting, pointer, delta, scrolling, flag, button>>

\* scroll(): the drop under the pointer is looked for again; it raises once
\* the pointer is forgotten.
Scroll ==
    /\ pointer
    /\ \E d \in scrolling : Show(order, d)
    /\ UNCHANGED <<options, lastValue, told, active, waiting, pointer, objects, flag, effects, button, fault>>

\* afterFinish of the end effect.
EffectFinished ==
    /\ effects > 0
    /\ effects' = effects - 1
    /\ flag' = FALSE
    /\ UNCHANGED <<options, lists, active, waiting, pointer, objects, lastActive, button, fault>>

----------------------------------------------------------------------------
(* The page. *)

\* The page is taken to leave the lists alone during a drag.
Between == active = None /\ scrolling = {}

\* Sortable.create() of both lists, which destroys the ones there are, with
\* their draggables and droppables.
Create ==
    /\ Between
    /\ delta' = {}
    /\ lastValue' = order
    /\ UNCHANGED <<options, order, told, active, waiting, pointer, dragging, clone, scrolling, lastActive,
                   flag, effects, button, fault>>

\* Sortable.setSequence() with all the items of a list.
SetSequence ==
    /\ Between
    /\ \E l \in Lists : \E s \in SetToSeqs(ToSet(order[l])) :
        /\ order' = [order EXCEPT ![l] = s]
        /\ told' = [told EXCEPT ![l] = s]
    /\ UNCHANGED <<options, lastValue, active, waiting, pointer, objects, lastActive, flag, effects,
                   button, fault>>

Next ==
    \/ Press \/ DelayOver \/ MouseMove \/ Release \/ ReleaseOutside \/ Escape
    \/ Scroll \/ EffectFinished \/ Create \/ SetSequence

Spec == Init /\ [][Next]_vars

----------------------------------------------------------------------------
(* Properties. *)

\* L575-591, L207-213: when no drag is under way the page has been told the
\* order of both lists, the one an item left as well, whether it was dropped
\* or the drag was cancelled; unless a callback raised, a release was missed,
\* Escape left a scrolling that still moves items, or Escape came before the
\* first move in a quiet list.
OrderIsTold ==
    dragging = {} /\ fault = None => told = order

\* L397-455: a drag that is over leaves no ghost, no highlighted droppable and
\* (Escape aside) no scrolling behind.
NothingLeftOver ==
    dragging = {} /\ fault # "raised" =>
        /\ clone = {}
        /\ fault # "escaped" => lastActive = None /\ scrolling = {}

\* L236-243, L257-261, L302-303: the flag that keeps every element of the
\* kind from being dragged is set only as long as there is a drag or an end
\* effect that will reset it.
FlagIsReleased == flag /\ fault # "raised" => dragging # {} \/ effects > 0

\* L153-190: one element is dragged at a time, the one the mouse is for,
\* unless a release was missed.
OneDrag == fault \in {None, "escaped", "unmoved"} => dragging \subseteq {active}
=============================================================================
