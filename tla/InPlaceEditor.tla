---------------------------- MODULE InPlaceEditor ----------------------------
(***************************************************************************)
(* Ajax.InPlaceEditor and Ajax.InPlaceCollectionEditor of controls.js: an  *)
(* element that turns into a form, the requests that load what the form    *)
(* shows and the one that saves what was typed.  The user acts while       *)
(* requests are under way, and their responses come back to an editor that *)
(* may have been left, entered again or destroyed.  htmlResponse is taken  *)
(* to be set, as it is by default: without it the page's own onComplete    *)
(* has to write a saved text into the element (L638-646).                  *)
(***************************************************************************)
EXTENDS Naturals, FiniteSets

CONSTANTS
    Values,         \* the texts a user may save, none empty: _oldInnerHTML is
                    \* tested for being a text at all (L584, L613)
    Saving, Nothing, NoForm,
    MaxLoads        \* bound: load requests under way at once

EditorAssumption == {Saving, Nothing} \cap Values = {} /\ MaxLoads \in Nat

VARIABLES
    kind,           \* "plain", "loaded" (loadTextURL) or "collection" (both URLs)
    focusable,      \* the element itself can have the focus and get keys
    editing, saving, old,   \* _editing, _saving, _oldInnerHTML (Nothing: none)
    form,           \* NoForm or [value, enabled, typed] of _controls.editor
    elementShown, text,     \* the element: displayed, and its content
    listening,      \* the listeners are registered (not yet destroyed)
    loads,          \* how many requests of each stage are under way
    save,           \* the values being saved by requests under way (Nothing: none sent)
    stored,         \* the value the server has
    abandoned,      \* history: a save was left by Escape, or its connection lost
    reopened        \* history: the form was opened while an old load was due

editor == <<editing, saving, old, form, elementShown>>
vars == <<kind, focusable, editor, text, listening, loads, save, stored, abandoned, reopened>>

Stages == {"collection", "text"}

TypeOK ==
    /\ kind \in {"plain", "loaded", "collection"}
    /\ {focusable, editing, saving, elementShown, listening, abandoned, reopened} \subseteq BOOLEAN
    /\ {old, text} \subseteq Values \cup {Saving, Nothing}
    /\ form \in {NoForm} \cup [value : Values \cup {Saving, Nothing}, enabled : BOOLEAN, typed : BOOLEAN]
    /\ loads \in [Stages -> 0..MaxLoads] /\ loads["collection"] + loads["text"] <= MaxLoads
    /\ save \subseteq Values \cup {Nothing}
    /\ stored \in Values

Init ==
    /\ kind \in {"plain", "loaded", "collection"}
    /\ focusable \in BOOLEAN
    /\ stored \in Values /\ text = stored
    /\ editing = FALSE /\ saving = FALSE /\ old = Nothing /\ form = NoForm
    /\ elementShown = TRUE /\ listening = TRUE
    /\ loads = [stage \in Stages |-> 0]
    /\ save = {}
    /\ abandoned = FALSE /\ reopened = FALSE

----------------------------------------------------------------------------
\* leaveEditMode().
LeaveEditMode ==
    /\ editing' = FALSE /\ saving' = FALSE /\ old' = Nothing
    /\ form' = NoForm /\ elementShown' = TRUE

\* The loads an editor starts with: the collection first, then the text.
FirstLoad ==
    CASE kind = "plain" -> loads
      [] kind = "loaded" -> [loads EXCEPT !["text"] = @ + 1]
      [] kind = "collection" -> [loads EXCEPT !["collection"] = @ + 1]

\* Mutant: the field takes input while its text is being loaded.
EditFieldEnabled ==
    [value |-> IF kind = "plain" THEN text ELSE Nothing, enabled |-> TRUE, typed |-> FALSE]

\* createEditField(): disabled until what it waits for is there.
EditField ==
    [value |-> IF kind = "plain" THEN text ELSE Nothing, enabled |-> kind = "plain", typed |-> FALSE]

\* enterEditMode() with createForm.
EnterEditMode ==
    /\ listening /\ elementShown
    /\ ~saving /\ ~editing
    /\ loads["collection"] + loads["text"] < MaxLoads
    /\ editing' = TRUE
    /\ form' = EditField
    /\ elementShown' = FALSE
    /\ loads' = FirstLoad
    /\ reopened' = (\E stage \in Stages : loads[stage] > 0)
    /\ UNCHANGED <<kind, focusable, saving, old, text, listening, save, stored, abandoned>>

Type ==
    /\ form # NoForm /\ form.enabled
    /\ \E v \in Values : form' = [form EXCEPT !.value = v, !.typed = TRUE]
    /\ UNCHANGED <<kind, focusable, editing, saving, old, elementShown, text, listening, loads,
                   save, stored, abandoned, reopened>>

\* What a form sends: a field that is still disabled is not serialized.
SentValue == IF form.enabled THEN form.value ELSE Nothing

\* handleFormSubmission(): the form goes, the element shows that it is saving.
\* OK submits while the field waits for its text, too.
Submit ==
    /\ form # NoForm
    /\ form.enabled => form.value \in Values
    /\ saving' = TRUE
    /\ form' = NoForm
    /\ old' = text
    /\ text' = Saving
    /\ elementShown' = TRUE
    /\ save' = save \cup {SentValue}
    /\ UNCHANGED <<kind, focusable, editing, listening, loads, stored, abandoned, reopened>>

\* The cancel control of the form.
Cancel ==
    /\ form # NoForm
    /\ LeaveEditMode
    /\ UNCHANGED <<kind, focusable, text, listening, loads, save, stored, abandoned, reopened>>

\* checkForEscapeOrReturn(), on the element: displayed while editing only when
\* it is saving.  Return finds no field, raises and changes nothing.
EscapeOnElement ==
    /\ listening /\ focusable /\ elementShown /\ editing
    /\ LeaveEditMode
    /\ abandoned' = TRUE
    /\ UNCHANGED <<kind, focusable, text, listening, loads, save, stored, reopened>>

\* destroy().
Destroy ==
    /\ listening
    /\ text' = IF old # Nothing THEN old ELSE text
    /\ LeaveEditMode
    /\ listening' = FALSE
    /\ UNCHANGED <<kind, focusable, loads, save, stored, abandoned, reopened>>

----------------------------------------------------------------------------
(* Responses. *)

\* A collection goes on to the text, unless its form has gone, which raises.
\* A failure (and a response that is no collection) leaves the field as it is.
CollectionLoaded ==
    /\ loads["collection"] > 0
    /\ \E ok \in BOOLEAN :
        /\ loads' = [loads EXCEPT !["collection"] = @ - 1,
                                  !["text"] = IF ok /\ form # NoForm THEN @ + 1 ELSE @]
        /\ form' = IF ok /\ form # NoForm THEN [form EXCEPT !.enabled = FALSE] ELSE form
    /\ UNCHANGED <<kind, focusable, editing, saving, old, elementShown, text, listening,
                   save, stored, abandoned, reopened>>

\* The text fills the field, whichever form that now belongs to.  A failure
\* is handled as that of a save is: by handleAJAXFailure for the plain editor,
\* not at all for the collection.
TextLoaded ==
    /\ loads["text"] > 0
    /\ loads' = [loads EXCEPT !["text"] = @ - 1]
    /\ \/ /\ form' = IF form = NoForm THEN form ELSE [form EXCEPT !.value = stored, !.enabled = TRUE]
          /\ UNCHANGED <<old, text>>
       \/ /\ kind = "loaded" /\ old # Nothing
          /\ text' = old /\ old' = Nothing
          /\ UNCHANGED form
       \/ UNCHANGED <<form, old, text>>
    /\ UNCHANGED <<kind, focusable, editing, saving, elementShown, listening, save, stored,
                   abandoned, reopened>>

\* Mutant: a failure leaves the element as it is.
FailureIgnored == UNCHANGED text

\* handleAJAXFailure: the old text is put back, if it is still there.
Failure == text' = IF old # Nothing THEN old ELSE text

\* The server leaves what it has when it is sent no value.
Accepted(v) == IF v = Nothing THEN stored ELSE v

\* The save is answered: the Updater writes a success into the element, a
\* failure is handled, and wrapUp leaves edit mode either way.  A connection
\* that is lost has no status, which counts as a success with no text.
Saved ==
    /\ \E v \in save :
        /\ save' = save \ {v}
        /\ \/ stored' = Accepted(v) /\ text' = stored' /\ UNCHANGED abandoned
           \/ UNCHANGED <<stored, abandoned>> /\ Failure
           \/ stored' \in {stored, Accepted(v)} /\ text' = Nothing /\ abandoned' = TRUE
    /\ LeaveEditMode
    /\ UNCHANGED <<kind, focusable, listening, loads, reopened>>

\* The page is left and viewed again.
Reload ==
    /\ stored' = stored /\ text' = stored
    /\ editing' = FALSE /\ saving' = FALSE /\ old' = Nothing /\ form' = NoForm
    /\ elementShown' = TRUE /\ listening' = TRUE
    /\ loads' = [stage \in Stages |-> 0]
    /\ save' = {}
    /\ abandoned' = FALSE /\ reopened' = FALSE
    /\ UNCHANGED <<kind, focusable>>

Next ==
    \/ EnterEditMode \/ Type \/ Submit \/ Cancel \/ EscapeOnElement \/ Destroy
    \/ CollectionLoaded \/ TextLoaded \/ Saved \/ Reload

Spec == Init /\ [][Next]_vars

----------------------------------------------------------------------------
(* Properties. *)

\* L611-617, L622-661, L744-749: outside edit mode, once nothing is being
\* saved, the element shows what the server has, never that it is saving and
\* never a text that was refused, whether the user cancelled, saved, failed to
\* save or destroyed the editor in between (unless the save was abandoned).
ShowsWhatIsStored == ~editing /\ save = {} /\ ~abandoned => text = stored

\* L675-686, L820-825: what the user has typed into a form is not replaced
\* under his hands: a late response fills the field only of a form that was
\* opened while an earlier load was due.
KeepsTypedText ==
    form # NoForm /\ form' # NoForm /\ form.typed /\ ~reopened =>
        form'.typed /\ form'.enabled /\ (form'.value = form.value \/ loads' = loads)

TypedTextIsKept == [][KeepsTypedText]_vars
=============================================================================
