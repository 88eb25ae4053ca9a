---------------------------- MODULE Autocompleter ----------------------------
(***************************************************************************)
(* Autocompleter of controls.js, Ajax and local: a text field, the timer   *)
(* that waits for a pause in typing, the requests for choices and the menu *)
(* that shows them.  Key presses, mouse, timers and responses interleave;  *)
(* responses may come in any order.  Values of the field are abstract: of  *)
(* each only counts whether it is long enough to ask for choices.  The     *)
(* menu is shown and hidden by effects (the default onShow and onHide)     *)
(* that run beside the handlers: of them their number and what they do to  *)
(* the display in the end is kept.                                         *)
(***************************************************************************)
EXTENDS Naturals, Sequences, SequencesExt

CONSTANTS
    Values, Short,  \* the values of the field, and those under minChars
    MaxEntries,     \* bound: the choices of one response
    MaxRequests,    \* bound: the requests under way at once
    MaxMenuEffects  \* bound: the menu's effects under way at once

AutocompleterAssumption ==
    /\ Short \subseteq Values /\ MaxEntries \in Nat \ {0} /\ MaxRequests \in Nat
    /\ MaxMenuEffects \in Nat \ {0}

VARIABLES
    local,          \* Autocompleter.Local, or Ajax.Autocompleter
    value,          \* the text in the field
    changed, hasFocus, active, index, entryCount,   \* as in the code
    shown,          \* the menu is displayed (its style's display is not 'none')
    appears,        \* the Effect.Appears that have not displayed it yet
    fades,          \* the Effect.Fades that have not hidden it yet
    indicator,      \* the indicator is displayed
    observer,       \* the timer set by the last key is running
    hiding,         \* the timer set by a blur is running
    requests,       \* the values choices were asked for, oldest first
    choicesFor,     \* history: the value the choices in the menu are for
    straight,       \* history: no response was overtaken, while one was due nothing
                    \* was selected and the text was not cut short, and the mouse
                    \* has not brought a menu back that was left
    hidden          \* history: when the menu was last asked up a fade was under
                    \* way, or a blur's timer has begun one since

field == <<value, choicesFor, straight>>
display == <<shown, appears, fades>>
menu == <<active, index, entryCount, display, hidden>>
vars == <<local, field, changed, hasFocus, menu, indicator, observer, hiding, requests>>

TypeOK ==
    /\ {local, changed, hasFocus, active, shown, indicator, observer, hiding,
        straight, hidden} \subseteq BOOLEAN
    /\ {value, choicesFor} \subseteq Values
    /\ index \in 0..MaxEntries
    /\ entryCount \in 0..MaxEntries
    /\ appears \in Nat /\ fades \in Nat /\ appears + fades <= MaxMenuEffects
    /\ requests \in Seq(Values) /\ Len(requests) <= MaxRequests

Init ==
    /\ local \in BOOLEAN
    /\ value \in Values /\ choicesFor = value
    /\ changed = FALSE /\ hasFocus = FALSE /\ active = FALSE /\ shown = FALSE
    /\ indicator = FALSE /\ observer = FALSE /\ hiding = FALSE /\ hidden = FALSE
    /\ index = 0 /\ entryCount = 0 /\ appears = 0 /\ fades = 0
    /\ requests = <<>>
    /\ straight = TRUE

----------------------------------------------------------------------------
(* The pieces of the handlers. *)

\* show() asks a menu that is not displayed up.
Show ==
    IF shown THEN UNCHANGED display
    ELSE /\ appears + fades < MaxMenuEffects
         /\ appears' = appears + 1
         /\ UNCHANGED <<shown, fades>>

\* hide() without its stopIndicator() fades a menu that is displayed, also one
\* that fades already.
FadeOut ==
    IF ~shown THEN UNCHANGED display
    ELSE /\ appears + fades < MaxMenuEffects
         /\ fades' = fades + 1
         /\ UNCHANGED <<shown, appears>>

\* hide()
Hide == FadeOut /\ indicator' = FALSE

\* render() with n entries: the menu comes up only while the field has focus.
\* (Without entries it is faded; every caller that may be without is in
\* updateChoices, which stops the indicator itself.)
Render(n, i, focus) ==
    /\ entryCount' = n
    /\ index' = i
    /\ active' = (n > 0 /\ (active \/ focus))
    /\ IF n = 0 THEN FadeOut ELSE IF focus THEN Show ELSE UNCHANGED display
    /\ hidden' = IF n > 0 /\ focus THEN fades > 0 ELSE hidden

\* updateElement: the field takes the text of an entry.
UpdateElement(undisturbed) ==
    /\ value' \in Values
    /\ straight' = (straight /\ undisturbed)
    /\ UNCHANGED choicesFor

\* Mutant: the highlighted entry is kept for the new list.
UpdateChoicesAtIndex(v, first, last) ==
    /\ \E n \in 0..MaxEntries : Render(n, index, TRUE)
    /\ indicator' = FALSE
    /\ choicesFor' = v
    /\ straight' = (local \/ (straight /\ first))
    /\ UNCHANGED value

\* updateChoices, let in by its guard, with the response to the first or the
\* last of the requests under way: a list of n entries, the first of them
\* highlighted; with autoSelect a single one is taken at once.
UpdateChoices(v, first, last) ==
    \/ /\ \E n \in 0..MaxEntries : Render(n, 0, TRUE)
       /\ indicator' = FALSE
       /\ choicesFor' = v
       /\ straight' = (local \/ (straight /\ first))
       /\ UNCHANGED value
    \/ /\ entryCount' = 1 /\ index' = 0
       /\ active' = FALSE /\ Hide
       /\ UpdateElement(first /\ last)
       /\ UNCHANGED hidden

\* getUpdatedChoices: a local list is there at once (if the field still has
\* focus); otherwise it is asked for.
GetUpdatedChoices(focus) ==
    IF local
    THEN /\ IF focus THEN UpdateChoices(value, TRUE, TRUE) ELSE UNCHANGED <<field, menu, indicator>>
         /\ UNCHANGED requests
    ELSE /\ Len(requests) < MaxRequests
         /\ requests' = Append(requests, value)
         /\ indicator' = TRUE
         /\ straight' = (straight \/ requests = <<>>)
         /\ UNCHANGED <<value, choicesFor, menu>>

----------------------------------------------------------------------------
(* The user. *)

\* A key that goes to the field; with the menu active these are all but Tab,
\* Return, Escape and the arrows.
Type ==
    /\ value' \in Values
    /\ changed' = TRUE /\ hasFocus' = TRUE /\ observer' = TRUE
    /\ UNCHANGED <<local, choicesFor, straight, menu, indicator, hiding, requests>>

\* Tab or Return on an active menu takes the highlighted entry and goes on as
\* Escape does.
SelectKey ==
    /\ active
    /\ UpdateElement(requests = <<>> /\ ~observer)
    /\ active' = FALSE /\ Hide
    /\ UNCHANGED <<local, changed, hasFocus, index, entryCount, hidden, observer, hiding, requests>>

Escape ==
    /\ active
    /\ active' = FALSE /\ Hide
    /\ UNCHANGED <<local, field, changed, hasFocus, index, entryCount, hidden, observer, hiding, requests>>

\* Mutant: they do not.
ArrowUnwrapped ==
    /\ active
    /\ \E i \in {index - 1, index + 1} : Render(entryCount, i, hasFocus)
    /\ UNCHANGED <<local, field, changed, hasFocus, indicator, observer, hiding, requests>>

\* markPrevious and markNext wrap around.
Arrow ==
    /\ active
    /\ \E i \in {IF index > 0 THEN index - 1 ELSE entryCount - 1,
                 IF index < entryCount - 1 THEN index + 1 ELSE 0} : Render(entryCount, i, hasFocus)
    /\ UNCHANGED <<local, field, changed, hasFocus, indicator, observer, hiding, requests>>

\* Also over a menu that was left (by Escape, say) and has not faded yet: the
\* keys act on it again.
Hover ==
    /\ shown
    /\ \E i \in 0..(entryCount - 1) :
        /\ i # index
        /\ Render(entryCount, i, hasFocus)
    /\ straight' = (straight /\ (active \/ ~hasFocus))
    /\ UNCHANGED <<local, value, choicesFor, changed, hasFocus, indicator, observer, hiding,
                   requests>>

Click ==
    /\ shown
    /\ index' \in 0..(entryCount - 1)
    /\ UpdateElement(requests = <<>> /\ ~observer)
    /\ active' = FALSE /\ Hide
    /\ UNCHANGED <<local, changed, hasFocus, entryCount, hidden, observer, hiding, requests>>

\* The field loses focus; a click on an entry must still find the menu.
Blur ==
    /\ ~hiding
    /\ hasFocus' = FALSE /\ active' = FALSE /\ hiding' = TRUE
    /\ UNCHANGED <<local, field, changed, index, entryCount, display, hidden, indicator, observer, requests>>

\* activate(), called by the page: choices for the text as it is.
Activate ==
    /\ changed' = FALSE /\ hasFocus' = TRUE
    /\ GetUpdatedChoices(TRUE)
    /\ UNCHANGED <<local, observer, hiding>>

----------------------------------------------------------------------------
(* Effects, timers and responses. *)

\* An Appear displays the menu in its first pass, a Fade hides it in its last.
\* The passes come in any order.
Appeared ==
    /\ appears > 0
    /\ appears' = appears - 1
    /\ shown' = TRUE
    /\ UNCHANGED <<local, field, changed, hasFocus, active, index, entryCount, fades, hidden,
                   indicator, observer, hiding, requests>>

Faded ==
    /\ fades > 0
    /\ fades' = fades - 1
    /\ shown' = FALSE
    /\ UNCHANGED <<local, field, changed, hasFocus, active, index, entryCount, appears, hidden,
                   indicator, observer, hiding, requests>>

\* onObserverEvent: typing has paused.
ObserverEvent ==
    /\ observer
    /\ observer' = FALSE
    /\ changed' = FALSE
    /\ IF value \in Short
       THEN /\ active' = FALSE /\ Hide
            /\ straight' = (straight /\ requests = <<>>)
            /\ UNCHANGED <<value, choicesFor, index, entryCount, hidden, requests>>
       ELSE GetUpdatedChoices(hasFocus)
    /\ UNCHANGED <<local, hasFocus, hiding>>

\* The timer of onBlur, also when the user is back in the field by now.
HideTimer ==
    /\ hiding
    /\ hiding' = FALSE
    /\ Hide
    /\ hidden' = (hidden \/ shown)
    /\ UNCHANGED <<local, field, changed, hasFocus, active, index, entryCount, observer, requests>>

\* The guard of updateChoices.
Accepts == ~changed /\ hasFocus

\* onComplete of any of the requests under way.
Response ==
    \E i \in DOMAIN requests :
        LET rest == RemoveAt(requests, i)
        IN  /\ requests' = rest
            /\ IF Accepts THEN UpdateChoices(requests[i], i = 1, rest = <<>>)
               ELSE /\ straight' = (straight /\ i = 1)
                    /\ UNCHANGED <<value, choicesFor, menu, indicator>>
            /\ UNCHANGED <<local, changed, hasFocus, observer, hiding>>

Next ==
    \/ Type \/ SelectKey \/ Escape \/ Arrow \/ Hover \/ Click \/ Blur \/ Activate
    \/ ObserverEvent \/ HideTimer \/ Response \/ Appeared \/ Faded

Spec == Init /\ [][Next]_vars

----------------------------------------------------------------------------
(* Properties. *)

\* L94-119, L129-154, L197-236: while the keys act on the menu, the highlighted
\* entry is one of the list, however short the list that has just come in; and
\* the menu is displayed or about to be, unless a fade begun before it was asked
\* up (L95 finds it displayed still) or by the timer of an earlier blur (L192
\* does not ask whether the user came back) hides it.
SelectsWhatIsShown == active => index < entryCount /\ (shown \/ appears > 0 \/ hidden)

\* L267-268: once nothing is due, the choices offered are for the text that is
\* in the field, if the responses came in the order of the requests and the
\* text was neither replaced by a selection nor cut short while one was due.
MenuIsCurrent ==
    straight /\ active /\ ~observer /\ requests = <<>> => choicesFor = value

\* L121-127: with the field in focus the indicator shows only while a response
\* or the end of a pause is due.  (Without focus a response is dropped with
\* the indicator still on.)
IndicatorStops == indicator /\ hasFocus => requests # <<>> \/ observer
=============================================================================
