------------------------------- MODULE Slider -------------------------------
(***************************************************************************)
(* Control.Slider of slider.js: a track with handles, moved by the mouse   *)
(* or by the page.  Values are integers of a range; a pointer stands for   *)
(* the value its place on the track is translated to, which may be out of  *)
(* range, or for none at all (NaN) when the offset within the handle was   *)
(* never measured.                                                         *)
(***************************************************************************)
EXTENDS Integers, FiniteSetsExt

CONSTANTS
    Last,           \* the handles are 0..Last
    Start, End,     \* the range
    Alloweds,       \* the sets of allowed values, {} for the whole range
    NaN

SliderAssumption ==
    /\ Last \in Nat
    /\ {Start, End} \subseteq Int /\ Start <= End
    /\ \A a \in Alloweds : a \subseteq Start..End
    /\ NaN \notin Int

VARIABLES
    restricted, allowed,        \* options
    values,                     \* of each handle
    handle,                     \* activeHandleIdx
    active, dragging, disabled,
    event,                      \* this.event is set
    offset,                     \* offsetX, offsetY are set
    listening,                  \* not disposed of yet
    reported,                   \* the values onChange was last called with
    blind                       \* history: moved without a measured offset

options == <<restricted, allowed>>
drag == <<handle, active, dragging, offset, blind>>
vars == <<options, values, drag, disabled, event, listening, reported>>

Handles == 0..Last
Numbers == (Start - 1)..(End + 1)

TypeOK ==
    /\ {restricted, active, dragging, disabled, event, offset, listening, blind} \subseteq BOOLEAN
    /\ allowed \in Alloweds
    /\ {values, reported} \subseteq [Handles -> Numbers \cup {NaN}]
    /\ handle \in Handles

Less(a, b) == NaN \notin {a, b} /\ a < b

\* getNearestValue(): of two allowed values as near, the greater.
NearestValue(v) ==
    IF allowed = {}
    THEN IF Less(End, v) THEN End ELSE IF Less(v, Start) THEN Start ELSE v
    ELSE IF v = NaN THEN Min(allowed)
    ELSE LET Distance(a) == IF a < v THEN v - a ELSE a - v
         IN  Max({a \in allowed : \A x \in allowed : Distance(a) <= Distance(x)})

\* The values a page starts with are in order where that matters.
Init ==
    /\ restricted \in BOOLEAN /\ allowed \in Alloweds
    /\ \E f \in [Handles -> Start..End] :
        /\ restricted => \A i, j \in Handles : i <= j => f[i] <= f[j]
        /\ values = [i \in Handles |-> NearestValue(f[i])]
    /\ reported = values
    /\ handle = 0 /\ active = FALSE /\ dragging = FALSE /\ event = FALSE
    /\ disabled \in BOOLEAN
    /\ offset = FALSE /\ listening = TRUE /\ blind = FALSE

\* Mutant: a handle is held back by the one below it only.
RestrictedBelow(v, i) ==
    IF restricted /\ i > 0 /\ Less(v, values[i - 1]) THEN values[i - 1] ELSE v

\* With restricted a handle stops at its neighbours.
Restricted(v, i) ==
    LET above == IF i > 0 /\ Less(v, values[i - 1]) THEN values[i - 1] ELSE v
    IN  IF ~restricted THEN v
        ELSE IF i < Last /\ Less(values[i + 1], above) THEN values[i + 1]
        ELSE above

\* updateFinished(): onChange.
Finished(new) == reported' = new

\* setValue() for handle i, which stands for the active one when it is 0;
\* now and e are this.dragging and this.event of the moment.
SetValue(v, i, current, now, e) ==
    LET h == IF i # 0 THEN i ELSE current
    IN  /\ values' = [values EXCEPT ![h] = NearestValue(Restricted(v, h))]
        /\ IF now /\ e THEN event' = e /\ UNCHANGED reported
           ELSE event' = FALSE /\ Finished(values')

----------------------------------------------------------------------------
(* startDrag(): the mouse is pressed on the track, on a handle, or on       *)
(* something else within the track, which starts a drag all the same.       *)

PressTrack ==
    /\ listening /\ ~disabled
    /\ active' = TRUE /\ offset' = TRUE
    /\ \E v \in Numbers : SetValue(v, 0, handle, dragging, TRUE)
    /\ UNCHANGED <<options, handle, dragging, disabled, listening, blind>>

PressHandle ==
    /\ listening /\ ~disabled
    /\ active' = TRUE /\ offset' = TRUE
    /\ handle' \in Handles
    /\ UNCHANGED <<options, values, dragging, disabled, event, listening, reported, blind>>

PressInside ==
    /\ listening /\ ~disabled
    /\ active' = TRUE
    /\ UNCHANGED <<options, values, handle, dragging, offset, disabled, event, listening, reported, blind>>

\* update() and draw(): onSlide, not onChange, hears of it.
MouseMove ==
    /\ listening /\ active
    /\ dragging' = TRUE
    /\ \E v \in IF offset THEN Numbers ELSE {NaN} : SetValue(v, 0, handle, TRUE, TRUE)
    /\ blind' = (blind \/ ~offset)
    /\ UNCHANGED <<options, handle, active, offset, disabled, listening>>

\* endDrag() and finishDrag().
MouseUp ==
    /\ listening
    /\ active' = FALSE /\ dragging' = FALSE
    /\ IF active /\ dragging THEN Finished(values) /\ event' = FALSE
       ELSE UNCHANGED <<reported, event>>
    /\ UNCHANGED <<options, values, handle, offset, disabled, listening, blind>>

\* The page: setValue and setValueBy, setDisabled, setEnabled, dispose.
PageSetsValue ==
    /\ \E v \in Numbers, i \in Handles :
        LET current == IF active THEN handle ELSE i
        IN  /\ handle' = current
            /\ SetValue(v, i, current, dragging, event)
    /\ UNCHANGED <<options, active, dragging, offset, blind, disabled, listening>>

SetDisabled ==
    /\ disabled' \in BOOLEAN
    /\ UNCHANGED <<options, values, drag, event, listening, reported>>

Dispose ==
    /\ listening /\ listening' = FALSE
    /\ UNCHANGED <<options, values, drag, disabled, event, reported>>

Next ==
    \/ PressTrack \/ PressHandle \/ PressInside \/ MouseMove \/ MouseUp
    \/ PageSetsValue \/ SetDisabled \/ Dispose

Spec == Init /\ [][Next]_vars

----------------------------------------------------------------------------
(* Properties. *)

\* L105-147: with restricted the handles never pass one another and every
\* value is an allowed one, however clicks, drags and the page's own calls
\* alternate (a drag with no measured offset may make it NaN instead).
HandlesInOrder ==
    ~blind =>
        /\ \A i \in Handles : values[i] \in (IF allowed = {} THEN Start..End ELSE allowed)
        /\ restricted => \A i, j \in Handles : i <= j => values[i] <= values[j]

\* L146, L257-274: the page is told of every value a handle comes to rest at:
\* outside a drag, onChange was last called with the values as they are.
ChangeIsReported == ~dragging => reported = values
=============================================================================
