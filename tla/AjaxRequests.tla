---------------------------- MODULE AjaxRequests ----------------------------
(***************************************************************************)
(* Ajax of prototype.js: Ajax.Request, Ajax.Response, Ajax.Updater and one *)
(* Ajax.PeriodicalUpdater over the browser's XMLHttpRequest, and the       *)
(* responder that keeps Ajax.activeRequestCount.                           *)
(*                                                                         *)
(* Script runs on one thread: an action is one event of the browser (a     *)
(* call from the page, a timer, a change of a transport's ready state)     *)
(* with everything the script does before it returns.  A request object is *)
(* reused once nothing can reach the old one any more, which bounds the    *)
(* number of requests under way and not the length of a run.  The ready    *)
(* states 2 and 3 call a callback and change nothing, and are left out.    *)
(***************************************************************************)
EXTENDS Naturals, Sequences, FiniteSets

CONSTANTS
    Requests,       \* the request objects: a bound on those under way
    Texts,          \* the response texts
    NoRequest, NoText,
    MaxCount        \* bound on activeRequestCount, which lost requests raise

AjaxAssumption ==
    /\ NoRequest \notin Requests /\ NoText \notin Texts
    /\ IsFiniteSet(Requests) /\ MaxCount \in Nat

VARIABLES
    req,            \* req[r]: an Ajax.Request with its transport
    count,          \* Ajax.activeRequestCount
    clean,          \* history: no exception has been reported so far
    periodic,       \* the Ajax.PeriodicalUpdater: an option of its requests,
                    \* whether it was started and not stopped since, its timer
                    \* and this.updater, the last request it has made; and
                    \* history: its last stop() was called too early to reach
                    \* the request it came from
    container       \* the text its container shows

vars == <<req, count, clean, periodic, container>>

\* What may raise: open, send (or the headers before it), the response (its
\* JSON is malformed), the callback for the outcome or the script in the
\* response, the callback for completion (in an Updater, the insertion of the
\* text), and onException itself.  Reported without raising again, what the
\* response and the outcome raise makes no difference, and is left out.
Raisers == {"open", "send", "Response", "Outcome", "Complete"}
Failures == {{}} \cup {{at} : at \in {"open", "send", "Complete"}}
                \cup {{at, "Exception"} : at \in Raisers}

\* Where a callback of a request stops the updater: nowhere, in onCreate, or in
\* the one for the outcome.
Stops == {"never", "create", "outcome"}

Unused == [kind |-> "unused", throws |-> {}, stops |-> "never", ready |-> 0,
           complete |-> FALSE, deferred |-> FALSE, listening |-> FALSE,
           onComplete |-> FALSE, log |-> <<>>, told |-> 0, broken |-> FALSE]

AjaxRequest ==
    [kind : {"unused", "request", "periodical"}, throws : Failures, stops : Stops,
     ready : {0, 1, 4}, complete : BOOLEAN, deferred : BOOLEAN, listening : BOOLEAN,
     onComplete : BOOLEAN, log : Seq({"Outcome", "Complete"}), told : 0..1, broken : BOOLEAN]

TypeOK ==
    /\ req \in [Requests -> AjaxRequest]
    /\ count \in 0..MaxCount
    /\ clean \in BOOLEAN
    /\ periodic \in [asynchronous : BOOLEAN, running : BOOLEAN, early : BOOLEAN,
                     timer : BOOLEAN, updater : Requests \cup {NoRequest}]
    /\ container \in Texts \cup {NoText}

Init ==
    /\ req = [r \in Requests |-> Unused]
    /\ count = 0
    /\ clean = TRUE
    /\ \E asynchronous \in BOOLEAN :
           periodic = [asynchronous |-> asynchronous, running |-> FALSE, early |-> FALSE,
                       timer |-> FALSE, updater |-> NoRequest]
    /\ container = NoText

----------------------------------------------------------------------------
(* One request, as an operator of its record. *)

\* dispatchException: what was raised is reported, and goes on to whoever
\* called the script when onException raises as well.
Escapes(q, at) == {at, "Exception"} \subseteq q.throws

\* The page, a timer and the browser have all let go of the request.
Finished(q) == q.kind = "unused" \/ (~q.deferred /\ (q.complete \/ q.broken))

\* request(), after onCreate: open, the deferred "Loading" of an asynchronous
\* request, the handler, the headers and send, each only if the one before
\* did not raise.
Sent(q, asynchronous) ==
    LET opened == "open" \notin q.throws
    IN  [q EXCEPT !.ready = IF opened THEN 1 ELSE 0,
                  !.deferred = opened /\ asynchronous,
                  !.listening = opened,
                  !.broken = q.throws \cap {"open", "send"} # {}]

\* Mutant: a second "Complete" is let through.
HearsAgain(q, i) == q.listening /\ i > 1

\* onStateChange: nothing below "Loaded", and no second "Complete".
Hears(q, i) == q.listening /\ i > 1 /\ ~(i = 4 /\ q.complete)

\* The response to the last state is an object that reads the transport; no
\* callback is called if that raises and the exception escapes.
Read(q, i) == Hears(q, i) /\ ~Escapes(q, "Response")

\* On completion the callback for the outcome runs first, and evalResponse();
\* the one for the state is not looked up when an exception has escaped there.
Reached(q, i) == i = 4 => ~Escapes(q, "Outcome")
Calls(q, i) == i = 4 /\ Reached(q, i) /\ q.onComplete
Raises(q, i) == Calls(q, i) /\ "Complete" \in q.throws

\* respondToReadyState(i).  The responders are told only after the callbacks,
\* if these return; the handler goes last, unless an exception escapes.
Tells(q, i) == Reached(q, i) /\ ~Raises(q, i)
Stays(q, i) == i < 4 \/ ~Reached(q, i) \/ (Raises(q, i) /\ Escapes(q, "Complete"))
Logged(q, i) ==
    CASE i < 4 -> q.log
      [] i = 4 /\ Reached(q, i) -> q.log \o <<"Outcome", "Complete">>
      [] i = 4 /\ ~Reached(q, i) -> q.log \o <<"Outcome">>

Responded(q, i) ==
    [q EXCEPT !.complete = @ \/ i = 4,
              !.log = Logged(q, i),
              !.told = @ + (IF i = 4 /\ Tells(q, i) THEN 1 ELSE 0),
              !.broken = @ \/ ~Tells(q, i),
              !.listening = @ /\ Stays(q, i)]

Heard(q, i) ==
    IF Read(q, i) THEN Responded(q, i) ELSE [q EXCEPT !.broken = @ \/ Hears(q, i)]

----------------------------------------------------------------------------
(* Requests of the page and of the updater. *)

\* Bound: one of the requests under way raises something, at most.
OneFault == IF \A r \in Requests : req[r].throws = {} THEN Failures ELSE {{}}

\* Mutant: the timer is cleared, and a request on its way goes on.
NotSilenced(stopping) == req

\* stop(): the completion of the updater's last request is silenced (one that
\* has finished may have made room for a request of the page by now).
Silenced(stopping) ==
    IF stopping /\ req[periodic.updater].kind = "periodical"
    THEN [req EXCEPT ![periodic.updater].onComplete = FALSE]
    ELSE req

\* A request object is made: the transport is used, once onCreate and the
\* responders have returned.  A synchronous request is complete when send
\* returns; its completion is announced by the browser, by the call made for
\* browsers that do not, or by both.
Made(kind, throws, stops, asynchronous) ==
    LET sent == Sent([Unused EXCEPT !.kind = kind, !.throws = throws,
                         !.stops = stops, !.onComplete = TRUE], asynchronous)
        waits == asynchronous \/ sent.broken
        done == IF waits THEN sent ELSE Heard([sent EXCEPT !.ready = 4], 4)
    IN  IF waits THEN done ELSE Heard(done, 4)

\* A callback has called stop() before the constructor of its request returned.
StopsEarly(q) == q.stops = "create" \/ (q.stops = "outcome" /\ q.log # <<>>)

\* The responders learn of the new request (activeRequestCount goes up).
Create(r, kind, stops, asynchronous) ==
    /\ count < MaxCount
    /\ Finished(req[r])
    /\ \E throws \in OneFault :
           LET made == Made(kind, throws, stops, asynchronous)
           IN  /\ req' = [Silenced(StopsEarly(made)) EXCEPT ![r] = made]
               /\ count' = count + 1 - made.told
               /\ clean' = (clean /\ ~made.broken)

Request(r) ==
    /\ \E asynchronous \in BOOLEAN : Create(r, "request", "never", asynchronous)
    /\ UNCHANGED <<periodic, container>>

\* What this.updater is after a poll: the new request, if its constructor
\* returns.  (What a synchronous response lets escape is passed on by the call
\* for browsers that do not announce it, and not by the browser.)
Updaters(r, q) ==
    IF \E at \in {"open", "send"} : Escapes(q, at) THEN {periodic.updater}
    ELSE IF periodic.asynchronous \/ "Exception" \notin q.throws THEN {r}
    ELSE {r, periodic.updater}

\* The page has an updater to stop once its constructor has returned, the first
\* request along with it.
MayStop ==
    IF periodic.updater # NoRequest THEN Stops
    ELSE {"never"} \cup (IF periodic.asynchronous THEN {"outcome"} ELSE {})

\* onTimerEvent: this.updater is replaced when the constructor has returned.  A
\* stop() before that is one of the request before: the new one is neither
\* silenced nor kept from setting the timer, at once if it is synchronous.
Poll(r) ==
    /\ \E stops \in MayStop : Create(r, "periodical", stops, periodic.asynchronous)
    /\ LET made == req'[r]
           early == periodic.early \/ StopsEarly(made)
       IN  /\ \E updater \in Updaters(r, made) :
                  periodic' = [periodic EXCEPT !.running = ~early, !.early = early,
                                               !.timer = (made.told = 1), !.updater = updater]
           /\ container' \in IF made.told = 1 THEN Texts ELSE {container}

\* Bound: an updater that goes on after an early stop() is stopped again before
\* it is started again.
Start(r) == ~periodic.running /\ ~periodic.early /\ Poll(r)
TimerEvent(r) == periodic.timer /\ Poll(r)

Idle == [periodic EXCEPT !.running = FALSE, !.early = FALSE, !.timer = FALSE]

Stop ==
    /\ periodic.running \/ periodic.early
    /\ periodic.updater # NoRequest
    /\ req' = Silenced(TRUE)
    /\ periodic' = Idle
    /\ UNCHANGED <<count, clean, container>>

----------------------------------------------------------------------------
(* Events of the browser. *)

\* Mutant: the timer is set for the first text only.
RescheduledOnce(updates, stopping) ==
    IF stopping THEN Idle ELSE [periodic EXCEPT !.timer = @ \/ (updates /\ container = NoText)]

\* updateComplete sets the timer; a callback that stops the updater clears it.
Rescheduled(updates, stopping) ==
    IF stopping THEN Idle ELSE [periodic EXCEPT !.timer = @ \/ updates]

\* A transport has its answer, or reports its last state again.
\* On completion the callback for the outcome may stop the updater; then the
\* Updater shows the text.
StateChange(r) ==
    /\ req[r].ready > 0
    /\ req[r].listening
    /\ "send" \notin req[r].throws
    /\ \E text \in Texts :
           LET reads == Read(req[r], 4)
               stopping == reads /\ req[r].stops = "outcome" /\ periodic.updater # NoRequest
               q == [Silenced(stopping)[r] EXCEPT !.ready = 4]
               heard == Heard(q, 4)
               updates == reads /\ Calls(q, 4) /\ ~Raises(q, 4) /\ q.kind = "periodical"
           IN  /\ req' = [Silenced(stopping) EXCEPT ![r] = heard]
               /\ count' = count + q.told - heard.told
               /\ clean' = (clean /\ ~heard.broken)
               /\ container' = IF updates THEN text ELSE container
               /\ periodic' = Rescheduled(updates, stopping)

\* The call request() has deferred: "Loading", however late.
DeferredLoading(r) ==
    /\ req[r].deferred
    /\ req' = [req EXCEPT ![r] = [Responded(@, 1) EXCEPT !.deferred = FALSE]]
    /\ UNCHANGED <<count, clean, periodic, container>>

Next ==
    \/ \E r \in Requests : \/ Request(r) \/ Start(r) \/ TimerEvent(r)
                           \/ StateChange(r) \/ DeferredLoading(r)
    \/ Stop

Spec == Init /\ [][Next]_vars

\* The browser moves every transport on to its last state; the page need not do
\* anything.
Fairness == \A r \in Requests : WF_vars(StateChange(r))

----------------------------------------------------------------------------
(* Properties. *)

UnderWay(r) == req[r].kind # "unused" /\ ~req[r].complete /\ ~req[r].broken

\* respondToReadyState L1484-1514, onStateChange L1433-1437: whatever raises
\* and however often a browser reports the last state, a request reports its
\* outcome at most once and completes at most once, the outcome first.
CompleteOnce ==
    \A r \in Requests :
        req[r].log \in {<<>>, <<"Outcome">>, <<"Outcome", "Complete">>}

\* L1322, L1354-1357: activeRequestCount never falls below the number of
\* requests under way, and is exactly that number until an exception keeps
\* the responders from hearing of a completion (which they then never do).
CountIsExact ==
    LET underway == Cardinality({r \in Requests : UnderWay(r)})
    IN  count >= underway /\ (clean => count = underway)

\* PeriodicalUpdater.stop L1686-1690: from the step that stops it, whether the
\* page does or a callback of one of its requests, nothing changes the container
\* and no timer is set, although a request may still be on its way.  This is not
\* so of a stop() before the constructor of its request has returned, in onCreate
\* or on a synchronous response: L1687 then silences the request before, and the
\* updater goes on polling until it is stopped again.
Silent ==
    ~periodic'.running /\ ~periodic'.early => container' = container /\ ~periodic'.timer

StoppedIsSilent == [][Silent]_vars

\* updateComplete L1692-1704: as long as it is not stopped and nothing raises,
\* the updater goes on polling: every request of it sets the timer for the next,
\* whichever request is answered first and however often.
Polling == periodic.timer \/ ~periodic.running \/ ~clean

KeepsPolling == periodic.running ~> Polling
=============================================================================
