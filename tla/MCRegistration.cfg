\* The components of the registration application's scripts, one in a behaviour.
CONSTANTS
    inner = inner  outer = outer  mouseover = mouseover  mouseenter = mouseenter  l2 = l2
    None = None
    Elements = {inner, outer}
    Parent <- MCParent
    Above <- MCAbove
    CustomNames = {"a:b"}
    DataAvailable = "dataavailable"
    NativeNames = {mouseover, mouseenter}
    DomName <- MCDomName
    Handlers = {h1}
    Responders = {r1, r2}
    MaxDepth = 2
    Requests = {r1, r2}  Texts = {t1}  NoRequest = None  NoText = None  MaxCount = 2
    Duration = 2  MaxLag = 2
    Pages <- MCPages
    MenuTexts = {t1, t2}  Short = {t1}  MaxEntries = 2  MaxRequests = 2  MaxMenuEffects = 2
    Letters = {"a"}  Delimiters = {",", "newline"}  Blanks = {"newline", " "}
    Entries <- MCEntries
    MinChars = 1  NoBounds = None  MaxLength = 3
    EditorTexts = {t1, t2}  Saving = Saving  Nothing = None  NoForm = NoForm  MaxLoads = 2
    Items = {i1, i2}  Lists = {l1, l2}  FirstList = l1  Bin = bin
    DragOptions <- MCDragOptions
    MaxEffects = 1
    Columns = {c1}  PageSize = 1  LargeBufferSize = 2  LimitTolerance = 1
    Totals = {1, 5}  Unsorted = None  Blank = Blank  MaxFlights = 2
    Last = 1  SliderStart = 0  SliderEnd = 3
    Alloweds = {{}, {0, 1, 3}}
    NaN = None
    Tabs = {t1, t2, t3}  FirstTab = t1  Steps = 2  MaxAnimations = 2
    Draggables = {i1, i2}  Zones = {l1, l2}  MaxReturns = 1
    TextFields = {i1}  Checkboxes = {i2}  FieldLists = {l1}  FieldTexts = {t1, t2}  On = t3
    FieldOptions = {t1}  Form = bin
SPECIFICATION PageSpec
CONSTRAINTS FewObservers FewDisabled SecondAccepts
ACTION_CONSTRAINTS Simply AnswersOnly
INVARIANTS
    PageTypeOK HandlersAreCalledRight RequestsAreCounted EffectsAreUndone SpinnerFollows
    MenuIsRight ShowsWhatIsStored DragsAreOrderly GridIsRight HandlesAreRight OneTabOpen
    SelectionIsRight FormIsReported
PROPERTIES StoppedIsSilent KeepsPolling OneTokenIsReplaced TypedTextIsKept
