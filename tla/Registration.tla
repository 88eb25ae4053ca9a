---------------------------- MODULE Registration ----------------------------
(***************************************************************************)
(* The scripts of the registration application: the components that its    *)
(* pages load, those of PageCore among them.  A behaviour plays one scene, *)
(* one component; the variables of the others are 0.  Spinner composes two *)
(* of them, AjaxRequests and EffectQueue, which the scenes "requests" and  *)
(* "effects" play alone.  An autocompleter, an in-place editor and a       *)
(* draggable run effects of their own in the same queue: their modules     *)
(* have what these do to the component's state, and not where they stand   *)
(* among the effects of others.                                            *)
(* Where two components use one name, one of the two gets another here.    *)
(***************************************************************************)
EXTENDS PageCore

CONSTANTS
    MenuTexts, Short, MaxEntries, MaxRequests, MaxMenuEffects,      \* Autocompleter
    Letters, Delimiters, Blanks, Entries, MinChars, NoBounds, MaxLength,    \* TokenCompletion
    EditorTexts, Saving, NoForm, MaxLoads,                          \* InPlaceEditor
    Items, Lists, FirstList, Bin, DragOptions, MaxEffects,          \* DragDrop
    Columns, PageSize, LargeBufferSize, LimitTolerance, Totals, Unsorted, Blank, MaxFlights,
    Last, SliderStart, SliderEnd, Alloweds, NaN,                    \* (LiveGrid;) Slider
    Tabs, FirstTab, Steps, MaxAnimations,                           \* Accordion
    Draggables, Zones, MaxReturns                                   \* SelectionDrag

VARIABLES
    scene,
    local, fieldText, changed, hasFocus, menuActive, index, entryCount, shown, appears, fades,
    indicator, pauseTimer, hiding, requests, choicesFor, straight, hidden,
    tokenText, tokenOld, bounds, offered, fresh, edited,
    kind, focusable, editing, saving, old, form, elementShown, text, editorListening, loads,
    save, stored, abandoned, editorReopened,
    options, order, lastOrder, orderTold, activeDraggable, waiting, pointer, dragging, delta,
    clone, scrolling, lastActive, flag, endEffects, dragButton, fault,
    total, sort, buffer, view, scrollTop, scrollEvent, processing, unprocessed, timeout, flights,
    mixed, unfilled,
    restricted, allowed, values, handle, handleActive, handleDragging, sliderDisabled,
    sliderEvent, offset, sliderListening, reported, blind,
    lastExpandedTab, expanded, bold, title, displayed, height, animations, mouse, reopened,
    dropZones, accepting, currentDragObjects, lastSelectedDraggable, selected, dragElement,
    visible, interested, activated, activeZones, hover, home, returns, over, button, hurried,
    overlapped

Au == INSTANCE Autocompleter WITH
    Values <- MenuTexts, value <- fieldText, active <- menuActive, observer <- pauseTimer
To == INSTANCE TokenCompletion WITH value <- tokenText, old <- tokenOld
Ed == INSTANCE InPlaceEditor WITH
    Values <- EditorTexts, listening <- editorListening, reopened <- editorReopened
Dr == INSTANCE DragDrop WITH
    Options <- DragOptions, lastValue <- lastOrder, told <- orderTold,
    active <- activeDraggable, effects <- endEffects, button <- dragButton
Gr == INSTANCE LiveGrid WITH event <- scrollEvent, timer <- timeout
Sl == INSTANCE Slider WITH
    active <- handleActive, dragging <- handleDragging, disabled <- sliderDisabled,
    event <- sliderEvent, listening <- sliderListening, Start <- SliderStart, End <- SliderEnd
Ac == INSTANCE Accordion
Se == INSTANCE SelectionDrag WITH active <- activeZones

ASSUME PageAssumption ==
    /\ Sp!Ajax!AjaxAssumption /\ Sp!EffectAssumption /\ Au!AutocompleterAssumption
    /\ Ed!EditorAssumption /\ Dr!DragDropAssumption /\ Gr!LiveGridAssumption
    /\ Sl!SliderAssumption /\ Ac!AccordionAssumption /\ Se!SelectionAssumption
    /\ Fo!FormAssumption /\ To!TokenAssumption

menuVars == <<local, fieldText, changed, hasFocus, menuActive, index, entryCount, shown,
    appears, fades, indicator, pauseTimer, hiding, requests, choicesFor, straight, hidden>>
tokenVars == <<tokenText, tokenOld, bounds, offered, fresh, edited>>
editorVars == <<kind, focusable, editing, saving, old, form, elementShown, text,
    editorListening, loads, save, stored, abandoned, editorReopened>>
sortableVars == <<options, order, lastOrder, orderTold, activeDraggable, waiting, pointer,
    dragging, delta, clone, scrolling, lastActive, flag, endEffects, dragButton, fault>>
gridVars == <<total, sort, buffer, view, scrollTop, scrollEvent, processing, unprocessed,
    timeout, flights, mixed, unfilled>>
sliderVars == <<restricted, allowed, values, handle, handleActive, handleDragging,
    sliderDisabled, sliderEvent, offset, sliderListening, reported, blind>>
accordionVars == <<lastExpandedTab, expanded, bold, title, displayed, height, animations,
    mouse, reopened>>
selectionVars == <<dropZones, accepting, currentDragObjects, lastSelectedDraggable,
    selected, dragElement, visible, interested, activated, activeZones, hover, home,
    returns, over, button, hurried, overlapped>>
pageVars ==
    <<scene, registryVars, requestVars, effectVars, menuVars, tokenVars, editorVars, sortableVars,
      gridVars, sliderVars, accordionVars, selectionVars, formVars>>

----------------------------------------------------------------------------
(* The components that the scene does not play. *)

NoRequests == req = 0 /\ count = 0 /\ clean = 0 /\ periodic = 0 /\ container = 0
NoEffects == effects = 0 /\ style = 0 /\ effectsMade = 0 /\ apart = 0 /\ page = 0
NoMenu ==
    /\ local = 0 /\ fieldText = 0 /\ changed = 0 /\ hasFocus = 0 /\ menuActive = 0
    /\ index = 0 /\ entryCount = 0 /\ shown = 0 /\ indicator = 0 /\ pauseTimer = 0
    /\ appears = 0 /\ fades = 0 /\ hiding = 0 /\ requests = 0 /\ choicesFor = 0 /\ straight = 0 /\ hidden = 0
NoTokens ==
    /\ tokenText = 0 /\ tokenOld = 0 /\ bounds = 0 /\ offered = 0 /\ fresh = 0 /\ edited = 0
NoEditor ==
    /\ kind = 0 /\ focusable = 0 /\ editing = 0 /\ saving = 0 /\ old = 0 /\ form = 0
    /\ elementShown = 0 /\ text = 0 /\ editorListening = 0 /\ loads = 0 /\ save = 0
    /\ stored = 0 /\ abandoned = 0 /\ editorReopened = 0
NoSortable ==
    /\ options = 0 /\ order = 0 /\ lastOrder = 0 /\ orderTold = 0 /\ activeDraggable = 0
    /\ waiting = 0 /\ pointer = 0 /\ dragging = 0 /\ delta = 0 /\ clone = 0 /\ scrolling = 0
    /\ lastActive = 0 /\ flag = 0 /\ endEffects = 0 /\ dragButton = 0 /\ fault = 0
NoGrid ==
    /\ total = 0 /\ sort = 0 /\ buffer = 0 /\ view = 0 /\ scrollTop = 0 /\ scrollEvent = 0
    /\ processing = 0 /\ unprocessed = 0 /\ timeout = 0 /\ flights = 0 /\ mixed = 0
    /\ unfilled = 0
NoSlider ==
    /\ restricted = 0 /\ allowed = 0 /\ values = 0 /\ handle = 0 /\ handleActive = 0
    /\ handleDragging = 0 /\ sliderDisabled = 0 /\ sliderEvent = 0 /\ offset = 0
    /\ sliderListening = 0 /\ reported = 0 /\ blind = 0
NoAccordion ==
    /\ lastExpandedTab = 0 /\ expanded = 0 /\ bold = 0 /\ title = 0 /\ displayed = 0
    /\ height = 0 /\ animations = 0 /\ mouse = 0 /\ reopened = 0
NoSelection ==
    /\ dropZones = 0 /\ accepting = 0 /\ currentDragObjects = 0 /\ lastSelectedDraggable = 0
    /\ selected = 0 /\ dragElement = 0 /\ visible = 0 /\ interested = 0 /\ activated = 0
    /\ activeZones = 0 /\ hover = 0 /\ home = 0 /\ returns = 0 /\ over = 0 /\ button = 0
    /\ hurried = 0 /\ overlapped = 0
NoFormObserver ==
    /\ observer = 0 /\ content = 0 /\ disabled = 0 /\ focus = 0 /\ entered = 0
    /\ lastValue = 0 /\ timer = 0 /\ told = 0 /\ raised = 0 /\ again = 0 /\ missed = 0

----------------------------------------------------------------------------
PageInit ==
    /\ RegistryInit
    /\ scene \in {"events", "requests", "effects", "spinner", "autocompleter", "tokens", "editor",
                  "sortable", "grid", "slider", "accordion", "selection", "form"}
    /\ IF scene = "spinner" THEN Sp!SpinnerInit
       ELSE /\ IF scene = "requests" THEN Sp!Ajax!Init ELSE NoRequests
            /\ IF scene = "effects" THEN Sp!Init ELSE NoEffects
    /\ IF scene = "autocompleter" THEN Au!Init ELSE NoMenu
    /\ IF scene = "tokens" THEN To!TokenInit ELSE NoTokens
    /\ IF scene = "editor" THEN Ed!Init ELSE NoEditor
    /\ IF scene = "sortable" THEN Dr!Init ELSE NoSortable
    /\ IF scene = "grid" THEN Gr!Init ELSE NoGrid
    /\ IF scene = "slider" THEN Sl!Init ELSE NoSlider
    /\ IF scene = "accordion" THEN Ac!Init ELSE NoAccordion
    /\ IF scene = "selection" THEN Se!Init ELSE NoSelection
    /\ IF scene = "form" THEN Fo!FormInit ELSE NoFormObserver

\* Only the component of the scene moves.
OthersRest ==
    /\ IF scene = "events" THEN TRUE ELSE UNCHANGED registryVars
    /\ IF scene \in {"requests", "spinner"} THEN TRUE ELSE UNCHANGED requestVars
    /\ IF scene \in {"effects", "spinner"} THEN TRUE ELSE UNCHANGED effectVars
    /\ IF scene = "autocompleter" THEN TRUE ELSE UNCHANGED menuVars
    /\ IF scene = "tokens" THEN TRUE ELSE UNCHANGED tokenVars
    /\ IF scene = "editor" THEN TRUE ELSE UNCHANGED editorVars
    /\ IF scene = "sortable" THEN TRUE ELSE UNCHANGED sortableVars
    /\ IF scene = "grid" THEN TRUE ELSE UNCHANGED gridVars
    /\ IF scene = "slider" THEN TRUE ELSE UNCHANGED sliderVars
    /\ IF scene = "accordion" THEN TRUE ELSE UNCHANGED accordionVars
    /\ IF scene = "selection" THEN TRUE ELSE UNCHANGED selectionVars
    /\ IF scene = "form" THEN TRUE ELSE UNCHANGED formVars

OfRequests(A) == scene = "requests" /\ A /\ OthersRest /\ UNCHANGED scene

\* Bound: once lost requests have used the count up, the page makes no more.
Rested == scene = "requests" /\ count = MaxCount /\ UNCHANGED pageVars

PageNext ==
    /\ \/ scene = "events" /\ RegistryNext
       \/ scene = "requests" /\ Sp!Ajax!Next
       \/ Rested
       \/ scene = "effects" /\ Sp!Next
       \/ scene = "spinner" /\ Sp!SpinnerNext
       \/ scene = "autocompleter" /\ Au!Next
       \/ scene = "tokens" /\ To!TokenNext
       \/ scene = "editor" /\ Ed!Next
       \/ scene = "sortable" /\ Dr!Next
       \/ scene = "grid" /\ Gr!Next
       \/ scene = "slider" /\ Sl!Next
       \/ scene = "accordion" /\ Ac!Next
       \/ scene = "selection" /\ Se!Next
       \/ scene = "form" /\ Fo!FormNext
    /\ OthersRest
    /\ UNCHANGED scene

\* The browser moves every request on.
PageSpec ==
    /\ PageInit /\ [][PageNext]_pageVars
    /\ \A r \in Requests : WF_pageVars(OfRequests(Sp!Ajax!StateChange(r)))

----------------------------------------------------------------------------
(* Properties: those of the components, each in its scene. *)

\* Every component has its types.
PageTypeOK ==
    /\ RegistryTypeOK
    /\ scene = "requests" => Sp!Ajax!TypeOK
    /\ scene = "effects" => Sp!TypeOK
    /\ scene = "spinner" => Sp!TypeOK
    /\ scene = "autocompleter" => Au!TypeOK
    /\ scene = "tokens" => To!TokenTypeOK
    /\ scene = "editor" => Ed!TypeOK
    /\ scene = "sortable" => Dr!TypeOK
    /\ scene = "grid" => Gr!TypeOK
    /\ scene = "slider" => Sl!TypeOK
    /\ scene = "accordion" => Ac!TypeOK
    /\ scene = "selection" => Se!TypeOK
    /\ scene = "form" => Fo!FormTypeOK

\* prototype.js L1322-1357, L1433-1514: a request completes at most once, its
\* outcome first, and the count of active requests is exact until an exception
\* keeps the responders from hearing of one.
RequestsAreCounted == scene = "requests" => Sp!Ajax!CompleteOnce /\ Sp!Ajax!CountIsExact

\* L1686-1690: a stopped updater changes nothing and sets no timer, unless it was
\* stopped before its request's constructor returned.
StoppedIsSilent == [][scene = "requests" => Sp!Ajax!Silent]_pageVars

\* L1692-1704: an updater that nobody stops goes on polling.
KeepsPolling ==
    (IF scene = "requests" THEN periodic.running ELSE FALSE)
        ~> (IF scene = "requests" THEN Sp!Ajax!Polling ELSE TRUE)

\* effects.js L189-222, L527-913: effects that are over leave no trace in the
\* style, and one queued at the end waits for those ahead of it.
EffectsAreUndone == scene = "effects" => Sp!NoTrace /\ Sp!EndWaitsInLine

\* application.js L1-13: the spinner shows while a request is under way.
SpinnerFollows == scene = "spinner" => Sp!SpinnerFollows

\* controls.js L94-268: keys act on an entry of the list, which is on view or
\* about to be unless a fade was under way, the choices are for the text in the
\* field, and the indicator stops.
MenuIsRight ==
    scene = "autocompleter" => Au!SelectsWhatIsShown /\ Au!MenuIsCurrent /\ Au!IndicatorStops

\* controls.js L224-334: a choice replaces one token of the text.
OneTokenIsReplaced == [][scene = "tokens" => To!ReplacesOneToken]_pageVars

\* controls.js L611-749: outside edit mode the element shows what is stored.
ShowsWhatIsStored == scene = "editor" => Ed!ShowsWhatIsStored

\* controls.js L675-825: typed text is not replaced by a late response.
TypedTextIsKept == [][scene = "editor" => Ed!KeepsTypedText]_pageVars

\* dragdrop.js L153-591: the page is told the order, a drag that is over leaves
\* nothing behind and blocks none, and one element is dragged at a time.
DragsAreOrderly ==
    scene = "sortable" =>
        Dr!OrderIsTold /\ Dr!NothingLeftOver /\ Dr!FlagIsReleased /\ Dr!OneDrag

\* rico.js L1950-2319: the grid's rows are those that belong in their places,
\* and the page scrolled to is filled.
GridIsRight == scene = "grid" => Gr!RowsAreRight /\ Gr!SettledIsFilled

\* slider.js L105-274: the handles stay in order, and the page knows where.
HandlesAreRight == scene = "slider" => Sl!HandlesInOrder /\ Sl!ChangeIsReported

\* rico.js L175-291: an accordion comes to rest with one tab open.
OneTabOpen == scene = "accordion" => Ac!OneTabOpen

\* rico.js L998-1374: what looks selected is, and a drag leaves nothing.
SelectionIsRight == scene = "selection" => Se!SelectionAgrees /\ Se!DragLeavesNothing

\* prototype.js L4183-4260, controls.js L946-965: what is in a form is reported.
FormIsReported == scene = "form" => Fo!FormIsReported
=============================================================================
