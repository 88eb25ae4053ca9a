------------------------------ MODULE PageCore ------------------------------
(***************************************************************************)
(* The scripts of prototype.js, effects.js and application.js, under the   *)
(* names that Registration has for them: the registry of events, which is  *)
(* extended, the Ajax requests, the queue of the visual effects and the    *)
(* spinner made of these two, and the observers of forms.                  *)
(***************************************************************************)
EXTENDS EventRegistry

CONSTANTS
    Requests, Texts, NoRequest, NoText, MaxCount,                   \* AjaxRequests
    Duration, MaxLag, Pages,                                        \* EffectQueue, Spinner
    TextFields, Checkboxes, FieldLists, FieldTexts, On, FieldOptions, Form, Nothing  \* FormObservers

VARIABLES
    req, count, clean, periodic, container,
    effects, style, effectsMade, apart, page,
    observer, content, disabled, focus, entered, lastValue, timer, told, raised, again, missed

Sp == INSTANCE Spinner WITH made <- effectsMade
Fo == INSTANCE FormObservers WITH
    Lists <- FieldLists, Texts <- FieldTexts, Options <- FieldOptions

requestVars == <<req, count, clean, periodic, container>>
effectVars == <<effects, style, effectsMade, apart, page>>
formVars == <<observer, content, disabled, focus, entered, lastValue, timer, told, raised,
    again, missed>>

=============================================================================
