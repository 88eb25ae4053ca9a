---------------------------- MODULE SelectionDrag ----------------------------
(***************************************************************************)
(* Rico.DragAndDrop of rico.js, with its draggables and drop zones: items  *)
(* are selected (several with Ctrl), dragged together and dropped into the *)
(* first zone under the pointer that accepts them; dropped elsewhere, what *)
(* was dragged moves back in an animation that ends the drag.  The mouse   *)
(* may be used while that animation runs, and a button released outside    *)
(* the window is not seen.                                                 *)
(***************************************************************************)
EXTENDS Naturals, FiniteSets, Sequences, SequencesExt

CONSTANTS
    Draggables, Zones,
    None,
    MaxReturns      \* bound: animations under way at once

SelectionAssumption == None \notin Draggables /\ IsFiniteSet(Zones) /\ MaxReturns \in Nat

VARIABLES
    dropZones,          \* the zones registered, in order
    accepting,          \* the zones whose canAccept() says yes
    currentDragObjects, \* the selection, in order
    lastSelectedDraggable,
    selected,           \* the draggables that are marked as selected
    dragElement,        \* the draggable whose element moves with the mouse
    visible,            \* currentDragObjectVisible
    interested,         \* interestedInMotionEvents
    activated,          \* activatedDropZones
    active, hover,      \* the zones that look active, hovered
    home,               \* where the element of a draggable is: "page", "zone", "gone"
    returns,            \* animations of elements moving back
    over,               \* the zones under the pointer
    button,             \* the left button is down
    hurried,            \* history: the mouse was used before a drag had ended
    overlapped          \* history: a drop found a second hovered zone under it

selection == <<currentDragObjects, lastSelectedDraggable, selected>>
zones == <<activated, active, hover>>
vars == <<dropZones, accepting, selection, dragElement, visible, interested, zones, home,
          returns, over, button, hurried, overlapped>>

TypeOK ==
    /\ dropZones \in Seq(Zones) /\ IsInjective(dropZones)
    /\ {accepting, active, hover, over} \subseteq SUBSET Zones
    /\ currentDragObjects \in Seq(Draggables)
    /\ selected \subseteq Draggables
    /\ {lastSelectedDraggable, dragElement} \subseteq Draggables \cup {None}
    /\ home \in [Draggables -> {"page", "zone", "gone"}]
    /\ returns \in 0..MaxReturns
    /\ {visible, interested, activated, button, hurried, overlapped} \subseteq BOOLEAN

Init ==
    /\ dropZones = SetToSeq(Zones) /\ accepting \in SUBSET Zones
    /\ currentDragObjects = <<>> /\ lastSelectedDraggable = None /\ selected = {}
    /\ dragElement = None
    /\ visible = FALSE /\ interested = FALSE
    /\ activated = FALSE /\ active = {} /\ hover = {}
    /\ home = [d \in Draggables |-> "page"]
    /\ returns = 0
    /\ over = {} /\ button = FALSE
    /\ hurried = FALSE /\ overlapped = FALSE

HasSelection == currentDragObjects # <<>>

Registered == ToSet(dropZones)

----------------------------------------------------------------------------
(* Selection. *)

\* Mutant: what is no longer selected keeps its mark.
ClearSelectionKeepingMarks(s) == [objects |-> <<>>, last |-> None, marked |-> s.marked]

\* clearSelection().
ClearSelection(s) ==
    [objects |-> <<>>, last |-> None, marked |-> s.marked \ ToSet(s.objects)]

\* updateSelection(): Ctrl extends the selection, or takes out what is in it.
UpdateSelection(d, extend) ==
    LET now == [objects |-> currentDragObjects, last |-> lastSelectedDraggable, marked |-> selected]
        s == IF extend THEN now ELSE ClearSelection(now)
    IN  IF d \in s.marked
        THEN [objects |-> RemoveFirst(s.objects, d), last |-> IF s.last = d THEN None ELSE s.last,
              marked |-> s.marked \ {d}]
        ELSE [objects |-> Append(s.objects, d), last |-> d, marked |-> s.marked \cup {d}]

Select(s) ==
    /\ currentDragObjects' = s.objects
    /\ lastSelectedDraggable' = s.last
    /\ selected' = s.marked

Deselect == Select(ClearSelection([objects |-> currentDragObjects,
                                   last |-> lastSelectedDraggable, marked |-> selected]))

----------------------------------------------------------------------------
(* The mouse. *)

\* Still dragged, or on its way back.
DragUnderWay == dragElement # None \/ returns > 0

\* _mouseDownHandler() on a draggable that is on the page.
MouseDown ==
    /\ ~button /\ button' = TRUE
    /\ \E d \in Draggables, ctrl \in BOOLEAN :
        /\ home[d] # "gone"
        /\ Select(UpdateSelection(d, ctrl))
    /\ interested' = HasSelection'
    /\ hurried' = (hurried \/ DragUnderWay)
    /\ UNCHANGED <<dropZones, accepting, dragElement, visible, zones, home, returns, over, overlapped>>

\* _mousePointInDropZone().
PointedAt(pointer) == Registered \cap pointer

\* hideHover(), then showHover().
Hover(hidden, shown) == hover' = (hover \ hidden) \cup shown

\* _updateDropZonesHover(), in two passes over the zones.
UpdateDropZonesHover ==
    Hover(Registered \ PointedAt(over'), PointedAt(over') \cap accepting)

\* deactivate() and activate().
Activity(deactivated, activatedNow) == active' = (active \ deactivated) \cup activatedNow

\* _activateRegisteredDropZones(), once in a drag.
ActivateRegisteredDropZones ==
    /\ Activity({}, IF activated THEN {} ELSE Registered \cap accepting)
    /\ activated' = TRUE

\* _makeDraggableObjectVisible(): the first of the selection is dragged, and
\* put on the page if it is not there.
StartDrag ==
    /\ dragElement' = Head(currentDragObjects)
    /\ visible' = TRUE
    /\ home' = [home EXCEPT ![dragElement'] = IF @ = "gone" THEN "page" ELSE @]

\* _mouseMoveHandler().
MouseMove ==
    /\ over' \in SUBSET Zones
    /\ IF interested /\ HasSelection
       THEN /\ IF visible THEN UNCHANGED <<dragElement, visible, home>> ELSE StartDrag
            /\ ActivateRegisteredDropZones
            /\ UpdateDropZonesHover
       ELSE UNCHANGED <<dragElement, visible, zones, home>>
    /\ UNCHANGED <<dropZones, accepting, selection, interested, returns, button, hurried, overlapped>>

\* _deactivateRegisteredDropZones().
DeactivateRegisteredDropZones == Activity(Registered, {}) /\ activated' = FALSE

\* The zone in which _placeDraggableInDropZone() drops the selection: the place
\* of the first that accepts it, 0 if none does.
Placed == SelectInSeq(dropZones, LAMBDA z : z \in PointedAt(over) \cap accepting)

\* accept(): the zone takes the elements of the selection.
Accept == [d \in Draggables |-> IF d \in ToSet(currentDragObjects) THEN "zone" ELSE home[d]]

\* An element other than that of the first in the selection is a picture of
\* what is dragged, and is taken off the page.
Discarded(h) ==
    IF dragElement = Head(currentDragObjects) THEN h ELSE [h EXCEPT ![dragElement] = "gone"]

\* _completeDropOperation(), after a zone has accepted the selection.
CompleteDrop(zone) ==
    /\ Hover({zone}, {})
    /\ overlapped' = (overlapped \/ hover' \cap Registered # {})
    /\ home' = Discarded(Accept)
    /\ DeactivateRegisteredDropZones
    /\ Deselect
    /\ dragElement' = None /\ visible' = FALSE
    /\ UNCHANGED returns

\* Dropped nowhere: Effect.Position moves the element back.
MoveBack ==
    /\ returns < MaxReturns
    /\ returns' = returns + 1
    /\ UNCHANGED <<selection, dragElement, visible, zones, home, overlapped>>

\* _mouseUpHandler(), also for a click anywhere on the page.
MouseUp ==
    /\ button' = FALSE
    /\ IF ~HasSelection
       THEN UNCHANGED <<selection, dragElement, visible, interested, zones, home, returns, overlapped>>
       ELSE /\ interested' = FALSE
            /\ IF dragElement = None
               THEN UNCHANGED <<selection, dragElement, visible, zones, home, returns, overlapped>>
               ELSE IF Placed # 0 THEN CompleteDrop(dropZones[Placed]) ELSE MoveBack
    /\ hurried' = (hurried \/ returns > 0)
    /\ UNCHANGED <<dropZones, accepting, over>>

\* A release outside the window is not seen: the drag goes on without button.
MouseUpOutside ==
    /\ button
    /\ button' = FALSE
    /\ UNCHANGED <<dropZones, accepting, selection, dragElement, visible, interested, zones, home,
                   returns, over, hurried, overlapped>>

\* The last of the steps of an Effect.Position calls complete().
MovedBack == returns > 0 /\ returns' = returns - 1

\* _doCancelDragProcessing(): it raises when the selection has gone by then,
\* or the element has.
CancelDrag ==
    /\ MovedBack
    /\ IF HasSelection /\ dragElement # None
       THEN /\ home' = Discarded(home)
            /\ DeactivateRegisteredDropZones
            /\ dragElement' = None /\ visible' = FALSE
            /\ UNCHANGED hover
       ELSE UNCHANGED <<home, zones, dragElement, visible>>
    /\ UNCHANGED <<dropZones, accepting, selection, interested, over, button, hurried, overlapped>>

----------------------------------------------------------------------------
(* The page. *)

\* clearSelection(), between drags.
PageClearsSelection ==
    /\ ~DragUnderWay
    /\ Deselect
    /\ UNCHANGED <<dropZones, accepting, dragElement, visible, interested, zones, home, returns,
                   over, button, hurried, overlapped>>

\* deregisterDropZone(), at any time, and registerDropZone() of a zone that
\* was not deregistered in the middle of a drag.
DeregisterDropZone ==
    /\ \E z \in Registered : dropZones' = RemoveFirst(dropZones, z)
    /\ UNCHANGED <<accepting, selection, dragElement, visible, interested, zones, home, returns,
                   over, button, hurried, overlapped>>

RegisterDropZone ==
    /\ \E z \in Zones \ (Registered \cup active \cup hover) : dropZones' = Append(dropZones, z)
    /\ UNCHANGED <<accepting, selection, dragElement, visible, interested, zones, home, returns,
                   over, button, hurried, overlapped>>

Next ==
    \/ MouseDown \/ MouseMove \/ MouseUp \/ MouseUpOutside \/ CancelDrag
    \/ PageClearsSelection \/ DeregisterDropZone \/ RegisterDropZone

Spec == Init /\ [][Next]_vars

----------------------------------------------------------------------------
(* Properties. *)

\* L998-1036, L1345-1374: what looks selected is what would be dragged, each
\* item once, whatever was clicked with and without Ctrl, dropped or cancelled.
SelectionAgrees ==
    /\ IsInjective(currentDragObjects)
    /\ selected = ToSet(currentDragObjects)
    /\ lastSelectedDraggable \in selected \cup {None}

\* L1070-1216: once a drag and its way back are over no registered zone looks
\* active, none hovered (unless the drop was over several), and nothing has
\* been taken off the page that was not dropped; unless the mouse was used
\* before the drag had ended.
DragLeavesNothing ==
    ~hurried /\ ~DragUnderWay =>
        /\ active \cap Registered = {} /\ ~activated /\ ~visible
        /\ ~overlapped => hover \cap Registered = {}
        /\ \A d \in Draggables : home[d] # "gone"
=============================================================================
