----------------------------- MODULE PageProofs -----------------------------
(***************************************************************************)
(* The properties of Registration, for every value of its constants: in    *)
(* the scene of a component the page steps as the component does, so what   *)
(* is inductive for the component is an invariant of the page.             *)
(***************************************************************************)
EXTENDS RequestProofs, DragProofs

\* What holds of each component in its scene.
PageInv ==
    /\ RegistryInv
    /\ scene = "requests" => RequestsInv
    /\ scene = "effects" => LineInv /\ TraceInv
    /\ scene = "spinner" => SpinnerInv
    /\ scene = "autocompleter" => MenuInv
    /\ scene = "editor" => EditorInv
    /\ scene = "sortable" => SortableInv
    /\ scene = "grid" => GridInv /\ GridTypes
    /\ scene = "slider" => SliderInv
    /\ scene = "accordion" => AccordionInv
    /\ scene = "selection" => SelectionInv
    /\ scene = "form" => ObserverInv
    /\ scene = "tokens" => TokenInv

\* The page steps as the component of its scene does, and stays in its scene.
LEMMA SceneStays == ASSUME [PageNext]_pageVars PROVE scene' = scene
BY DEF PageNext, pageVars

LEMMA EventsStep == ASSUME [PageNext]_pageVars PROVE [RegistryNext]_registryVars
<1>1. CASE UNCHANGED pageVars
  BY <1>1 DEF pageVars
<1>2. CASE PageNext /\ scene = "events"
  BY <1>2 DEF PageNext, Rested
<1>3. CASE PageNext /\ scene # "events"
  BY <1>3 DEF PageNext, OthersRest
<1> QED BY <1>1, <1>2, <1>3

LEMMA RequestsScene ==
  ASSUME [PageNext]_pageVars, scene = "requests"
  PROVE  [Sp!Ajax!Next]_(Sp!Ajax!vars)
<1>1. UNCHANGED pageVars => UNCHANGED Sp!Ajax!vars
  BY DEF pageVars, requestVars, Sp!Ajax!vars
<1>2. PageNext => Sp!Ajax!Next \/ UNCHANGED pageVars
  BY DEF PageNext, Rested
<1> QED BY <1>1, <1>2

LEMMA EffectsScene ==
  ASSUME [PageNext]_pageVars, scene = "effects"
  PROVE  [Sp!Next]_(Sp!vars)
<1>1. UNCHANGED pageVars => UNCHANGED Sp!vars
  BY DEF pageVars, effectVars, Sp!vars
<1>2. PageNext => Sp!Next
  BY DEF PageNext, Rested
<1> QED BY <1>1, <1>2

LEMMA SpinnerScene ==
  ASSUME [PageNext]_pageVars, scene = "spinner"
  PROVE  [Sp!SpinnerNext]_(Sp!spinnerVars)
<1>1. UNCHANGED pageVars => UNCHANGED Sp!spinnerVars
  BY DEF pageVars, requestVars, effectVars, Sp!spinnerVars, Sp!ajaxVars, Sp!vars
<1>2. PageNext => Sp!SpinnerNext
  BY DEF PageNext, Rested
<1> QED BY <1>1, <1>2

LEMMA MenuScene ==
  ASSUME [PageNext]_pageVars, scene = "autocompleter"
  PROVE  [Au!Next]_(Au!vars)
<1>1. UNCHANGED pageVars => UNCHANGED Au!vars
  BY DEF pageVars, menuVars, Au!vars, Au!field, Au!menu, Au!display
<1>2. PageNext => Au!Next
  BY DEF PageNext, Rested
<1> QED BY <1>1, <1>2

LEMMA EditorScene ==
  ASSUME [PageNext]_pageVars, scene = "editor"
  PROVE  [Ed!Next]_(Ed!vars)
<1>1. UNCHANGED pageVars => UNCHANGED Ed!vars
  BY DEF pageVars, editorVars, Ed!vars, Ed!editor
<1>2. PageNext => Ed!Next
  BY DEF PageNext, Rested
<1> QED BY <1>1, <1>2

LEMMA SortableScene ==
  ASSUME [PageNext]_pageVars, scene = "sortable"
  PROVE  [Dr!Next]_(Dr!vars)
<1>1. UNCHANGED pageVars => UNCHANGED Dr!vars
  BY DEF pageVars, sortableVars, Dr!vars, Dr!lists, Dr!objects
<1>2. PageNext => Dr!Next
  BY DEF PageNext, Rested
<1> QED BY <1>1, <1>2

LEMMA GridScene ==
  ASSUME [PageNext]_pageVars, scene = "grid"
  PROVE  [Gr!Next]_(Gr!vars)
<1>1. UNCHANGED pageVars => UNCHANGED Gr!vars
  BY DEF pageVars, gridVars, Gr!vars, Gr!request
<1>2. PageNext => Gr!Next
  BY DEF PageNext, Rested
<1> QED BY <1>1, <1>2

LEMMA SliderScene ==
  ASSUME [PageNext]_pageVars, scene = "slider"
  PROVE  [Sl!Next]_(Sl!vars)
<1>1. UNCHANGED pageVars => UNCHANGED Sl!vars
  BY DEF pageVars, sliderVars, Sl!vars, Sl!options, Sl!drag
<1>2. PageNext => Sl!Next
  BY DEF PageNext, Rested
<1> QED BY <1>1, <1>2

LEMMA AccordionScene ==
  ASSUME [PageNext]_pageVars, scene = "accordion"
  PROVE  [Ac!Next]_(Ac!vars)
<1>1. UNCHANGED pageVars => UNCHANGED Ac!vars
  BY DEF pageVars, accordionVars, Ac!vars, Ac!look
<1>2. PageNext => Ac!Next
  BY DEF PageNext, Rested
<1> QED BY <1>1, <1>2

LEMMA SelectionScene ==
  ASSUME [PageNext]_pageVars, scene = "selection"
  PROVE  [Se!Next]_(Se!vars)
<1>1. UNCHANGED pageVars => UNCHANGED Se!vars
  BY DEF pageVars, selectionVars, Se!vars, Se!selection, Se!zones
<1>2. PageNext => Se!Next
  BY DEF PageNext, Rested
<1> QED BY <1>1, <1>2

LEMMA FormScene ==
  ASSUME [PageNext]_pageVars, scene = "form"
  PROVE  [Fo!FormNext]_(Fo!formVars)
<1>1. UNCHANGED pageVars => UNCHANGED Fo!formVars
  BY DEF pageVars, formVars, Fo!formVars
<1>2. PageNext => Fo!FormNext
  BY DEF PageNext, Rested
<1> QED BY <1>1, <1>2

LEMMA TokenScene ==
  ASSUME [PageNext]_pageVars, scene = "tokens"
  PROVE  [To!TokenNext]_(To!tokenVars)
<1>1. UNCHANGED pageVars => UNCHANGED To!tokenVars
  BY DEF pageVars, tokenVars, To!tokenVars
<1>2. PageNext => To!TokenNext
  BY DEF PageNext, Rested
<1> QED BY <1>1, <1>2

----------------------------------------------------------------------------
LEMMA PageInitInv == PageInit => PageInv
<1> SUFFICES ASSUME PageInit PROVE PageInv
  OBVIOUS
<1>1. RegistryInv
  BY RegistryInitInv DEF PageInit
<1>2. /\ scene = "requests" => Sp!Ajax!Init
      /\ scene = "effects" => Sp!Init
      /\ scene = "spinner" => Sp!SpinnerInit
      /\ scene = "autocompleter" => Au!Init
      /\ scene = "editor" => Ed!Init
      /\ scene = "sortable" => Dr!Init
      /\ scene = "grid" => Gr!Init
      /\ scene = "slider" => Sl!Init
      /\ scene = "accordion" => Ac!Init
      /\ scene = "selection" => Se!Init
      /\ scene = "form" => Fo!FormInit
      /\ scene = "tokens" => To!TokenInit
  BY DEF PageInit
<1> QED BY <1>1, <1>2, PageAssumption, RequestsInitInv, LineInitInv, TraceInitInv,
        SpinnerInitInv, MenuInitInv, EditorInitInv, SortableInitInv,
        GridInitInv, GridInitTypes, SliderInitInv, AccordionInitInv, SelectionInitInv, FormInitInv,
        TokenInitInv DEF PageInv

LEMMA PageStepInv == PageInv /\ [PageNext]_pageVars => PageInv'
<1> SUFFICES ASSUME PageInv, [PageNext]_pageVars PROVE PageInv'
  OBVIOUS
<1>1. scene' = scene
  BY SceneStays
<1>2. RegistryInv'
  BY EventsStep, RegistryNextInv DEF PageInv
<1>3. scene = "requests" => RequestsInv'
  BY RequestsScene, RequestsStepInv, PageAssumption DEF PageInv
<1>4. scene = "autocompleter" => MenuInv'
  BY MenuScene, MenuStepInv, PageAssumption DEF PageInv
<1>5. scene = "editor" => EditorInv'
  BY EditorScene, EditorStepInv, PageAssumption DEF PageInv
<1>6. scene = "sortable" => SortableInv'
  BY SortableScene, SortableStepInv, PageAssumption DEF PageInv
<1>7. scene = "grid" => GridInv' /\ GridTypes'
  BY GridScene, GridStepInv, GridStepTypes DEF PageInv
<1>8. scene = "slider" => SliderInv'
  BY SliderScene, SliderStepInv, PageAssumption DEF PageInv
<1>9. scene = "accordion" => AccordionInv'
  BY AccordionScene, AccordionStepInv, PageAssumption DEF PageInv
<1>10. scene = "selection" => SelectionInv'
  BY SelectionScene, SelectionStepInv, PageAssumption DEF PageInv
<1>11. scene = "form" => ObserverInv'
  BY FormScene, FormStepInv, PageAssumption DEF PageInv
<1>12. scene = "tokens" => TokenInv'
  BY TokenScene, TokenStepInv, PageAssumption DEF PageInv
<1>13. scene = "effects" => LineInv' /\ TraceInv'
  BY EffectsScene, LineStepInv, TraceStepInv, PageAssumption DEF PageInv
<1>14. scene = "spinner" => SpinnerInv'
  BY SpinnerScene, SpinnerStepInv, PageAssumption DEF PageInv
<1> QED BY <1>1, <1>2, <1>3, <1>4, <1>5, <1>6, <1>7, <1>8, <1>9, <1>10, <1>11, <1>12, <1>13, <1>14,
        ZenonT(60) DEF PageInv

THEOREM PageInvariance == PageSpec => []PageInv
BY PageInitInv, PageStepInv, PTL DEF PageSpec

----------------------------------------------------------------------------
(* The properties of the page. *)

\* The variables of every component keep to their types and bounds.
THEOREM PageTypeCorrect == PageSpec => []PageTypeOK
<1>1. PageInv => PageTypeOK
  <2> SUFFICES ASSUME PageInv PROVE PageTypeOK
    OBVIOUS
  <2>1. RegistryTypeOK /\ (scene = "requests" => Sp!Ajax!TypeOK)
    BY DEF PageInv, RegistryInv, RequestsInv
  <2>2. scene \in {"effects", "spinner"} => Sp!TypeOK
    BY LineInvFollows, SpinnerFacts, PageAssumption DEF PageInv
  <2>3. scene = "autocompleter" => Au!TypeOK
    BY MenuFacts DEF PageInv
  <2>4. scene = "tokens" => To!TokenTypeOK
    BY TokensTyped DEF PageInv
  <2>5. scene = "editor" => Ed!TypeOK
    BY DEF PageInv, EditorInv
  <2>6. scene = "sortable" => Dr!TypeOK
    BY SortableFacts DEF PageInv
  <2>7. scene = "grid" => Gr!TypeOK
    BY GridTyped DEF PageInv
  <2>8. (scene = "slider" => Sl!TypeOK) /\ (scene = "accordion" => Ac!TypeOK)
    BY DEF PageInv, SliderInv, AccordionInv
  <2>9. scene = "selection" => Se!TypeOK
    BY SelectionFacts DEF PageInv
  <2>10. scene = "form" => Fo!FormTypeOK
    BY DEF PageInv, ObserverInv
  <2> QED BY <2>1, <2>2, <2>3, <2>4, <2>5, <2>6, <2>7, <2>8, <2>9, <2>10 DEF PageTypeOK
<1> QED BY <1>1, PageInvariance, PTL

\* prototype.js L4432-4570: what listens is what can be stopped, and an event
\* calls a handler at most once for an element and a name, for any document.
THEOREM PageCallsHandlers == PageSpec => []HandlersAreCalledRight
<1>1. PageInv => HandlersAreCalledRight
  BY RegistryFacts DEF PageInv
<1> QED BY <1>1, PageInvariance, PTL

\* prototype.js L1322-1357, L1433-1514: a request completes at most once, and
\* the count of active requests is exact until an exception keeps the
\* responders from hearing of one, for any number of requests.
THEOREM PageCountsRequests == PageSpec => []RequestsAreCounted
<1>1. PageInv => RequestsAreCounted
  <2>1. scene = "requests" /\ RequestsInv => Sp!Ajax!CompleteOnce
    BY DEF RequestsInv, RequestInv, Logs, Sp!Ajax!CompleteOnce
  <2>2. RequestsInv => Sp!Ajax!CountIsExact
    BY CountFollows, PageAssumption
  <2> QED BY <2>1, <2>2 DEF PageInv, RequestsAreCounted
<1> QED BY <1>1, PageInvariance, PTL

\* prototype.js L1686-1704: an updater that is stopped once the constructor of
\* its request has returned changes nothing any more, until it is started again
\* (a stop() that comes earlier silences the request before: periodic.early).
THEOREM PageUpdaterStopped == PageSpec => StoppedIsSilent
<1>1. PageInv /\ [PageNext]_pageVars => [scene = "requests" => Sp!Ajax!Silent]_pageVars
  BY RequestsScene, RequestsStepInv, PageAssumption DEF PageInv
<1> QED BY <1>1, PageInvariance, PTL DEF PageSpec, StoppedIsSilent

\* effects.js L189-222, L527-913: what effects leave of the element when they
\* are over is what it was, as long as no two unrelated ones were pending at
\* once; and one queued at the end waits for those ahead of it.
THEOREM PageEffectsUndone == PageSpec => []EffectsAreUndone
<1>1. PageInv => EffectsAreUndone
  BY LineInvFollows, TraceInvFollows, PageAssumption DEF PageInv, EffectsAreUndone
<1> QED BY <1>1, PageInvariance, PTL

\* application.js L1-13: when its effects are over, the spinner is shown exactly
\* while a request is under way, as long as nothing has raised.
THEOREM PageShowsSpinner == PageSpec => []SpinnerFollows
<1>1. PageInv => SpinnerFollows
  BY SpinnerFacts, PageAssumption DEF PageInv, SpinnerFollows
<1> QED BY <1>1, PageInvariance, PTL

\* controls.js L75-268: keys act on an entry of the list, and the menu is on
\* view or about to be unless a fade was under way when it was asked up or a
\* blur's timer began one since; the choices are for the text in the field, and
\* the indicator stops.
THEOREM PageMenuRight == PageSpec => []MenuIsRight
<1>1. PageInv => MenuIsRight
  BY MenuFacts DEF PageInv, MenuIsRight
<1> QED BY <1>1, PageInvariance, PTL

\* controls.js L224-334: a choice replaces one token of the text.
THEOREM PageReplacesTokens == PageSpec => OneTokenIsReplaced
<1>1. PageInv /\ [PageNext]_pageVars => [scene = "tokens" => To!ReplacesOneToken]_pageVars
  BY ChoiceReplaces, PageAssumption DEF PageInv
<1> QED BY <1>1, PageInvariance, PTL DEF PageSpec, OneTokenIsReplaced

\* controls.js L611-749: outside edit mode the element shows what is stored.
THEOREM PageShowsStored == PageSpec => []ShowsWhatIsStored
<1>1. PageInv => ShowsWhatIsStored
  BY DEF PageInv, ShowsWhatIsStored, EditorInv, SaveInv, StoredIsKept, Ed!ShowsWhatIsStored
<1> QED BY <1>1, PageInvariance, PTL

\* controls.js L675-825: a late response replaces no text that is typed.
THEOREM PageKeepsTyped == PageSpec => TypedTextIsKept
<1>1. PageInv /\ [PageNext]_pageVars => [scene = "editor" => Ed!KeepsTypedText]_pageVars
  BY EditorScene, TypedStep DEF PageInv
<1> QED BY <1>1, PageInvariance, PTL DEF PageSpec, TypedTextIsKept

\* dragdrop.js L153-591: the page is told the order, a drag that is over leaves
\* nothing behind and blocks none, and one element is dragged at a time.
THEOREM PageDragsOrderly == PageSpec => []DragsAreOrderly
<1>1. PageInv => DragsAreOrderly
  BY SortableFacts DEF PageInv, DragsAreOrderly
<1> QED BY <1>1, PageInvariance, PTL

\* rico.js L1950-2319: the grid's rows are those that belong in their places,
\* and the page scrolled to is filled.
THEOREM PageGridRight == PageSpec => []GridIsRight
<1>1. PageInv => GridIsRight
  BY GridFacts DEF PageInv, GridIsRight
<1> QED BY <1>1, PageInvariance, PTL

\* slider.js L105-274: the handles stay in order, and the page knows where.
THEOREM PageHandlesRight == PageSpec => []HandlesAreRight
<1>1. PageInv => HandlesAreRight
  BY DEF PageInv, SliderInv, HandlesAreRight
<1> QED BY <1>1, PageInvariance, PTL

\* rico.js L175-291: an accordion comes to rest with one tab open.
THEOREM PageOneTabOpen == PageSpec => []OneTabOpen
<1>1. PageInv => OneTabOpen
  BY RestsOpen DEF PageInv, OneTabOpen
<1> QED BY <1>1, PageInvariance, PTL

\* rico.js L998-1374: what looks selected is, and a drag leaves nothing.
THEOREM PageSelectionRight == PageSpec => []SelectionIsRight
<1>1. PageInv => SelectionIsRight
  BY SelectionFacts DEF PageInv, SelectionIsRight
<1> QED BY <1>1, PageInvariance, PTL

\* prototype.js L4183-4260, controls.js L946-965: what is in a form is reported.
THEOREM PageFormReported == PageSpec => []FormIsReported
<1>1. PageInv => FormIsReported
  BY FormReported DEF PageInv, FormIsReported
<1> QED BY <1>1, PageInvariance, PTL
=============================================================================
