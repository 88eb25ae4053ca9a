------------------------------ MODULE LiveGrid ------------------------------
(***************************************************************************)
(* Rico.LiveGrid of rico.js: a table with a scroll bar over more rows than *)
(* it shows, a buffer of rows fetched ahead by Ajax, and headers to sort   *)
(* by.  Scroll events, responses, a timeout and sorting interleave; one    *)
(* request is processed at a time and the last one refused meanwhile is    *)
(* remembered.  A row is what it is sorted by and its place in that order; *)
(* pixels are counted in rows.  The constructor needs an extend method of  *)
(* every object (L1780, L2357), which rico.js tests for (L24) and the      *)
(* prototype.js beside it no longer defines; the page is taken to supply it.*)
(***************************************************************************)
EXTENDS Integers, Sequences, SequencesExt, FiniteSetsExt

CONSTANTS
    Columns,
    PageSize, LargeBufferSize, LimitTolerance,   \* as in LiveGridMetaData
    Totals,             \* the total rows a page may have set
    Unsorted, Blank, None,
    MaxFlights          \* bound: requests the server has still to answer

LiveGridAssumption ==
    /\ LargeBufferSize \in Nat /\ PageSize \in 1..LargeBufferSize /\ LimitTolerance \in Nat
    /\ Totals \subseteq Nat /\ \A n \in Totals : n >= PageSize
    /\ None \notin Nat /\ None \notin [offset : Nat, bufferOffset : Nat]

VARIABLES
    total, sort,        \* metaData.totalRows; the sorted column and its direction
    buffer,             \* LiveGridBuffer: [startPos, rows]
    view,               \* GridViewPort: [rows, lastRowPos, isBlank, isPartialBlank, offset]
    scrollTop, event,   \* the scroll bar, and its event not yet handled
    processing,         \* processingRequest: None or [offset, bufferOffset]
    unprocessed,        \* unprocessedRequest: None or its offset
    timer,              \* timeoutHandler
    flights,            \* requests under way: [start, size, sort]
    mixed,              \* history: an answer came, or a request was remembered,
                        \* after another sort, other total rows or a timeout
    unfilled            \* history: since the page on view was last asked for, a
                        \* request failed, an answer pushed that page out of the
                        \* buffer, or the total rows were set

request == <<processing, timer, flights>>
vars == <<total, sort, buffer, view, scrollTop, event, request, unprocessed, mixed, unfilled>>

MaxBufferSize == 2 * LargeBufferSize
Positions == 0..(total - PageSize)      \* of the scroll bar
Sorts == {Unsorted} \cup Columns \X {"ASC", "DESC"}
Rows == Sorts \X Nat
Slots == 0..PageSize        \* visibleRows is one more than the page

\* An answer taken for another may fill the buffer beyond the last row, and the
\* next request then asks for less than no rows; no request does so before.
TypeOK ==
    /\ total \in Totals /\ sort \in Sorts
    /\ buffer.startPos \in Nat
    /\ buffer.rows \in Seq(Rows) /\ Len(buffer.rows) <= MaxBufferSize
    /\ view.rows \in [Slots -> Rows \cup {Blank}] /\ view.lastRowPos \in Nat \cup {-1}
    /\ {view.offset, scrollTop} \subseteq Positions
    /\ processing \in {None} \cup [offset : Nat, bufferOffset : Nat]
    /\ unprocessed \in {None} \cup (IF mixed THEN Nat ELSE Positions)
    /\ flights \subseteq [start : Nat, size : Int, sort : Sorts]
    /\ \A f \in flights : IF mixed THEN f.size <= LargeBufferSize
                         ELSE f.size \in 0..LargeBufferSize /\ f.start + f.size <= total
    /\ {view.isBlank, view.isPartialBlank, event, timer, mixed, unfilled} \subseteq BOOLEAN

\* The page comes with its first rows in place.
Init ==
    /\ total \in Totals /\ sort = Unsorted
    /\ buffer = [startPos |-> 0, rows |-> <<>>]
    /\ view = [rows |-> [k \in Slots |-> <<Unsorted, k>>], lastRowPos |-> -1,
               isBlank |-> FALSE, isPartialBlank |-> FALSE, offset |-> 0]
    /\ scrollTop = 0 /\ event = FALSE
    /\ processing = None /\ unprocessed = None
    /\ timer = FALSE /\ flights = {}
    /\ mixed = FALSE /\ unfilled = FALSE

----------------------------------------------------------------------------
(* LiveGridBuffer. *)

FirstN(s, n) == SubSeq(s, 1, Min({n, Len(s)}))
LastN(s, n) == SubSeq(s, Max({Len(s) - n, 0}) + 1, Len(s))

EndPos(b) == b.startPos + Len(b.rows)

InRange(b, p) == p >= b.startPos /\ p + PageSize <= EndPos(b)

NearingTopLimit(b, p) == b.startPos # 0 /\ p - b.startPos < LimitTolerance

NearingLimit(b, n, p) ==
    NearingTopLimit(b, p) \/ (EndPos(b) # n /\ EndPos(b) - (p + PageSize) < LimitTolerance)

FetchOffset(b, p) ==
    IF p > b.startPos THEN Max({p, EndPos(b)})
    ELSE IF p + LargeBufferSize >= b.startPos THEN Max({b.startPos - LargeBufferSize, 0})
    ELSE p

FetchSize(b, n, p) ==
    LET o == FetchOffset(b, p)
    IN  IF o >= b.startPos THEN Min({LargeBufferSize + o, n}) - o
        ELSE Min({b.startPos - o, LargeBufferSize})

\* Mutant: what overflows is cut off with the rows' place left as it was.
BufferUpdateInPlace(b, new, start) ==
    LET all == b.rows \o new
    IN  IF b.rows = <<>> \/ EndPos(b) < start THEN [startPos |-> start, rows |-> new]
        ELSE IF start > b.startPos THEN [startPos |-> b.startPos, rows |-> LastN(all, MaxBufferSize)]
        ELSE [startPos |-> start, rows |-> FirstN(new \o b.rows, MaxBufferSize)]

\* update(): rows that join the buffer are added at its end or its front and
\* what overflows is cut off at the other; others replace it.
BufferUpdate(b, new, start) ==
    LET after == b.rows \o new
        before == FirstN(new, b.startPos) \o b.rows
    IN  IF b.rows = <<>> \/ (start > b.startPos /\ EndPos(b) < start)
        THEN [startPos |-> start, rows |-> new]
        ELSE IF start > b.startPos
        THEN [startPos |-> b.startPos + Max({Len(after) - MaxBufferSize, 0}),
              rows |-> LastN(after, MaxBufferSize)]
        ELSE [startPos |-> start,
              rows |-> IF start + Len(new) < b.startPos THEN new ELSE FirstN(before, MaxBufferSize)]

----------------------------------------------------------------------------
(* GridViewPort. *)

BlankRows == [k \in Slots |-> Blank]

\* refreshContents(): what the buffer has of the rows from p on, blanks before
\* or after it.
RefreshContents(v, b, p) ==
    LET from == Max({b.startPos, p})
        n == Min({EndPos(b), p + PageSize + 1}) - from
        first == IF b.startPos > p THEN PageSize + 1 - n ELSE 0
    IN  IF p = v.lastRowPos /\ ~v.isPartialBlank /\ ~v.isBlank THEN v
        ELSE IF n < 0 \/ b.rows = <<>>
        THEN [v EXCEPT !.rows = BlankRows, !.isBlank = TRUE]
        ELSE [v EXCEPT !.rows = [k \in Slots |-> IF k \in first..(first + n - 1)
                                                 THEN b.rows[from - b.startPos + k - first + 1]
                                                 ELSE Blank],
                       !.isBlank = FALSE,
                       !.isPartialBlank = n < PageSize + 1,
                       !.lastRowPos = p]

ViewScrollTo(v, b, p) ==
    IF v.offset = p THEN v ELSE [RefreshContents(v, b, p) EXCEPT !.offset = p]

----------------------------------------------------------------------------
(* LiveGrid. *)

Needed(b, n, p) == ~InRange(b, p) \/ NearingLimit(b, n, p)

\* fetchBuffer() with nothing being processed.
Fetch(b, n, s, p, under) ==
    IF Needed(b, n, p)
    THEN /\ Cardinality(under) < MaxFlights
         /\ processing' = [offset |-> p, bufferOffset |-> FetchOffset(b, p)]
         /\ flights' = under \cup {[start |-> FetchOffset(b, p), size |-> FetchSize(b, n, p), sort |-> s]}
         /\ timer' = TRUE
    ELSE processing' = None /\ flights' = under /\ timer' = FALSE

\* processQueuedRequest().
ProcessQueuedRequest(b, under) ==
    /\ unprocessed' = None
    /\ IF unprocessed # None THEN Fetch(b, total, sort, unprocessed, under)
       ELSE processing' = None /\ flights' = under /\ timer' = FALSE

\* requestContentRefresh(), which while a request is being processed only
\* notes the last position asked for.
RequestContentRefresh(b, n, s, p) ==
    IF processing = None
    THEN Fetch(b, n, s, p, flights) /\ UNCHANGED unprocessed
    ELSE /\ unprocessed' = IF Needed(b, n, p) THEN p ELSE unprocessed
         /\ UNCHANGED request

\* The scroll bar is moved.  (Bound: with rows mixed up it is left alone until
\* they are sorted, or their number is set, anew.)
MoveBar ==
    /\ ~mixed
    /\ scrollTop' \in Positions \ {scrollTop}
    /\ event' = TRUE
    /\ UNCHANGED <<total, sort, buffer, view, request, unprocessed, mixed, unfilled>>

HandleScroll ==
    /\ event
    /\ event' = FALSE
    /\ RequestContentRefresh(buffer, total, sort, scrollTop)
    /\ view' = ViewScrollTo(view, buffer, scrollTop)
    /\ unfilled' = FALSE
    /\ UNCHANGED <<total, sort, buffer, scrollTop, mixed>>

\* The page asks for the rows on view (with a scroll event to be handled, that
\* will).
AskAgain ==
    /\ ~event
    /\ RequestContentRefresh(buffer, total, sort, scrollTop)
    /\ unfilled' = FALSE
    /\ UNCHANGED <<total, sort, buffer, view, scrollTop, event, mixed>>

EmptyBuffer == [startPos |-> 0, rows |-> <<>>]

ResetContents ==
    /\ scrollTop' = 0 /\ event' = (event \/ scrollTop # 0)
    /\ buffer' = EmptyBuffer
    /\ view' = [view EXCEPT !.rows = BlankRows, !.isBlank = TRUE, !.offset = 0]

\* headerCellClicked() and sortHandler().
SortBy ==
    /\ \E c \in Columns :
        sort' = IF sort = <<c, "ASC">> THEN <<c, "DESC">> ELSE <<c, "ASC">>
    /\ ResetContents
    /\ RequestContentRefresh(EmptyBuffer, total, sort', 0)
    /\ mixed' = (flights # {})
    /\ UNCHANGED <<total, unfilled>>

\* setTotalRows() leaves it to the page to ask for the rows, unless the bar was
\* not at the top.  What is under way is for the rows there were.
SetTotalRows ==
    /\ total' \in Totals \ {total}
    /\ ResetContents
    /\ mixed' = (flights # {} \/ unprocessed # None)
    /\ unfilled' = TRUE
    /\ UNCHANGED <<sort, request, unprocessed>>

\* ajaxUpdate(): the answer goes where the request being processed says; with
\* none being processed that raises, and the answer is dropped.
AjaxUpdate ==
    \E f \in flights :
        LET answer == [i \in 1..f.size |-> <<f.sort, f.start + i - 1>>]
            b == IF processing = None THEN buffer
                 ELSE BufferUpdate(buffer, answer, processing.bufferOffset)
        IN  /\ buffer' = b
            /\ view' = IF processing = None THEN view ELSE RefreshContents(view, b, view.offset)
            /\ ProcessQueuedRequest(b, flights \ {f})
            /\ unfilled' = (unfilled \/ (InRange(buffer, view.offset) /\ ~InRange(b, view.offset)))
            /\ UNCHANGED <<total, sort, scrollTop, event, mixed>>

\* An answer that is not 200, or none at all.
Failure ==
    /\ \E f \in flights : flights' = flights \ {f}
    /\ unfilled' = TRUE
    /\ UNCHANGED <<total, sort, buffer, view, scrollTop, event, processing, timer, unprocessed, mixed>>

\* handleTimedOut(): the request may still be answered.
TimedOut ==
    /\ timer
    /\ ProcessQueuedRequest(buffer, flights)
    /\ mixed' = (mixed \/ flights # {})
    /\ UNCHANGED <<total, sort, buffer, view, scrollTop, event, unfilled>>

Next ==
    \/ MoveBar \/ HandleScroll \/ AskAgain \/ SortBy \/ SetTotalRows
    \/ AjaxUpdate \/ Failure \/ TimedOut

Spec == Init /\ [][Next]_vars

----------------------------------------------------------------------------
(* Properties. *)

ShownFrom == IF view.lastRowPos = -1 THEN 0 ELSE view.lastRowPos

\* L1950-1981, L2121-2152, L2303-2312: a row on view, and every row of the
\* buffer, is the one that belongs in its place in the current order, however
\* the buffer was extended, cut and replaced; unless an answer is taken for
\* that of another request, after a sort or new total rows during a request, or
\* after a timeout.
RowsAreRight ==
    ~mixed =>
        /\ \A i \in DOMAIN buffer.rows : buffer.rows[i] = <<sort, buffer.startPos + i - 1>>
        /\ \A k \in Slots : view.rows[k] \in {Blank, <<sort, ShownFrom + k>>}

\* L2268-2319: once no request is being processed and the scroll event has
\* been handled, the page that is scrolled to is on view, however the bar was
\* moved meanwhile; unless, since that page was last asked for, a request failed,
\* the total rows were set (L2247 asks for no rows) or an answer pushed the page
\* out of the buffer it was in already (one for an earlier position, or one near
\* the top of the buffer: the code fetches rows for its end then and cuts off
\* its top).
SettledIsFilled ==
    flights = {} /\ processing = None /\ ~event /\ ~mixed /\ ~unfilled =>
        /\ view.offset = scrollTop
        /\ \A k \in 0..(PageSize - 1) : view.rows[k] = <<sort, scrollTop + k>>
=============================================================================
