---------------------------- MODULE FormObservers ----------------------------
(***************************************************************************)
(* The observers of forms and of their elements: by timer and by event     *)
(* (prototype.js), and some time after the last key (controls.js).  Each   *)
(* calls back with a value that differs from the one it remembers.  The    *)
(* user edits; the page edits too, which no event tells of; the callback   *)
(* may raise an exception.  What a callback does to the form is an edit of *)
(* the page that follows it.  A callback is not interrupted by another.    *)
(*                                                                         *)
(* The content of an element is a set: the text of a text field, nothing   *)
(* or one value for a checkbox, the options selected for a list of many.   *)
(* The value of a form pairs the elements with what is in them.            *)
(***************************************************************************)
EXTENDS Naturals, FiniteSets

CONSTANTS
    TextFields, Checkboxes, Lists,  \* the elements of the form, by kind
    Texts, On, Options,             \* what can be in one of each kind
    Form,                           \* the form as the observed element
    Nothing                         \* no field; no content

VARIABLES
    observer,       \* [kind, of]: what observes, and what
    content, disabled,
    focus, entered, \* the text field being edited, and its content before
    lastValue,
    timer,          \* the interval or the timeout is running
    told,           \* history: the value the callback was last given
    raised,         \* history: it raised an exception then
    again,          \* history: it was given a value again, without having raised
    missed          \* history: there was an edit the observer may not know of

formVars == <<observer, content, disabled, focus, entered, lastValue, timer, told, raised,
              again, missed>>

Fields == TextFields \cup Checkboxes \cup Lists

FormAssumption == Nothing \notin TextFields /\ Form \notin Fields

Contents(f) ==
    IF f \in TextFields THEN {{t} : t \in Texts}
    ELSE IF f \in Checkboxes THEN {{}, {On}} ELSE SUBSET Options
Observers ==
    [kind : {"timed", "event"}, of : Fields \cup {Form}] \cup [kind : {"delayed"}, of : TextFields]

Pairs(c, off) == UNION {{<<f, v>> : v \in c[f]} : f \in Fields \ off}

\* Form.serialize() skips disabled elements, getValue() of one does not.
ValueOf(o, c, off) == IF o.of = Form THEN Pairs(c, off) ELSE Pairs([f \in Fields |->
    IF f = o.of THEN c[f] ELSE {}], {})

Value == ValueOf(observer, content, disabled)

FormTypeOK ==
    /\ observer \in Observers
    /\ \A f \in Fields : content[f] \in Contents(f)
    /\ disabled \subseteq Fields
    /\ focus \in TextFields \cup {Nothing}
    /\ {lastValue, told} \subseteq SUBSET (Fields \X (Texts \cup {On} \cup Options))
    /\ {timer, raised, again, missed} \subseteq BOOLEAN

FormInit ==
    /\ observer \in Observers
    /\ content \in {c \in [Fields -> UNION {Contents(f) : f \in Fields}] :
                        \A f \in Fields : c[f] \in Contents(f)}
    /\ disabled = {}
    /\ focus = Nothing /\ entered = Nothing
    /\ lastValue = Value /\ told = Value
    /\ timer = (observer.kind = "timed")
    /\ raised = FALSE /\ again = FALSE /\ missed = FALSE

----------------------------------------------------------------------------
(* The observers. *)

\* The callback gets value v.
Callback(v, raises) ==
    /\ told' = v
    /\ raised' = raises
    /\ again' = (again \/ (v = told /\ ~raised))

\* Mutant: a value that was reported is not remembered.
ReportedOnly(v) == \E raises \in BOOLEAN : Callback(v, raises) /\ UNCHANGED lastValue

\* What execute() and onElementEvent() do with a new value: an exception of
\* the callback leaves them with the old one.
Reported(v) ==
    \E raises \in BOOLEAN :
        /\ Callback(v, raises)
        /\ lastValue' = IF raises THEN lastValue ELSE v

NotReported == UNCHANGED <<lastValue, told, raised, again>>

\* onTimerEvent() of a timed observer, and execute().
Tick ==
    /\ observer.kind = "timed" /\ timer
    /\ IF lastValue # Value THEN Reported(Value) ELSE NotReported
    /\ missed' = FALSE
    /\ UNCHANGED <<observer, content, disabled, focus, entered, timer>>

\* stop().
Stop ==
    /\ observer.kind = "timed" /\ timer
    /\ timer' = FALSE
    /\ UNCHANGED <<observer, content, disabled, focus, entered, lastValue, told, raised,
                   again, missed>>

\* registerCallback() and onElementEvent(): an event of field f.  The value of
\* a list is an array, which is never the one remembered.
ElementEvent(f) ==
    IF observer.kind = "event" /\ observer.of \in {f, Form} THEN
        /\ IF observer.of \in Lists \/ lastValue # Value' THEN Reported(Value') ELSE NotReported
        /\ missed' = FALSE
    ELSE NotReported /\ missed' = (observer.kind = "timed" \/ missed)

\* delayedListener(): a key came up in field f.
KeyUp(f) ==
    IF observer.kind = "delayed" /\ observer.of = f THEN
        IF lastValue = Value' THEN UNCHANGED <<lastValue, timer, missed>>
        ELSE lastValue' = Value' /\ timer' = TRUE /\ missed' = FALSE
    ELSE UNCHANGED <<lastValue, timer>> /\ missed' = (observer.kind = "timed" \/ missed)

\* onTimerEvent() of a delayed observer.
TimerEvent ==
    /\ observer.kind = "delayed" /\ timer
    /\ timer' = FALSE
    /\ \E raises \in BOOLEAN : Callback(Value, raises)
    /\ UNCHANGED <<observer, content, disabled, focus, entered, lastValue, missed>>

----------------------------------------------------------------------------
(* The user and the page. *)

\* A key in a text field, whether it changes the text or not.
Key(f, c) ==
    /\ f \notin disabled
    /\ focus \in {f, Nothing}
    /\ focus' = f
    /\ entered' = IF focus = f THEN entered ELSE content[f]
    /\ content' = [content EXCEPT ![f] = c]
    /\ UNCHANGED <<observer, disabled, told, raised, again>>
    /\ KeyUp(f)

\* The field is left; the browser tells of a change only then.
Leave ==
    /\ focus # Nothing
    /\ focus' = Nothing /\ entered' = Nothing
    /\ UNCHANGED <<observer, content, disabled, timer>>
    /\ IF content[focus] # entered /\ focus \notin disabled THEN ElementEvent(focus)
       ELSE NotReported /\ UNCHANGED missed

\* A click on a checkbox, or another selection in a list.
Click(f, c) ==
    /\ f \notin disabled
    /\ focus = Nothing
    /\ c # content[f]
    /\ content' = [content EXCEPT ![f] = c]
    /\ UNCHANGED <<observer, disabled, focus, entered, timer>>
    /\ ElementEvent(f)

\* setValue(), clear(), disable(), enable(), reset(): browsers differ in
\* whether a text set while it is edited counts as the one before.
PageEdit ==
    /\ \E f \in Fields :
        \/ \E c \in Contents(f) :
            /\ content' = [content EXCEPT ![f] = c]
            /\ entered' \in IF f = focus THEN {entered, c} ELSE {entered}
            /\ UNCHANGED disabled
        \/ /\ disabled' = IF f \in disabled THEN disabled \ {f} ELSE disabled \cup {f}
           /\ UNCHANGED <<content, entered>>
    /\ missed' = TRUE
    /\ UNCHANGED <<observer, focus, lastValue, timer, told, raised, again>>

FormNext ==
    \/ Tick \/ Stop \/ TimerEvent \/ Leave \/ PageEdit
    \/ \E f \in TextFields : \E c \in Contents(f) : Key(f, c)
    \/ \E f \in Fields \ TextFields : \E c \in Contents(f) : Click(f, c)

FormSpec == FormInit /\ [][FormNext]_formVars

----------------------------------------------------------------------------
(* Properties. *)

\* Nothing is left to happen before the observer has seen the last edit.
Settled ==
    /\ ~missed
    /\ observer.kind = "event" => focus = Nothing
    /\ observer.kind = "delayed" => ~timer

\* prototype.js L4190-4250, controls.js L955-964: once that is so, the value
\* the callback was given last is the value there is, however edits, events
\* and timers followed one another; unless it raised an exception (L4195: the
\* value is then not remembered, so that going back to the one before is no
\* change).  And no value is reported twice in a row, except for a list, of
\* which every event is a change (L4228), and by a delayed observer.
FormIsReported ==
    /\ Settled /\ ~raised => told = Value
    /\ again => observer.kind = "delayed" \/ (observer.kind = "event" /\ observer.of \in Lists)
=============================================================================
