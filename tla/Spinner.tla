------------------------------ MODULE Spinner ------------------------------
(***************************************************************************)
(* The spinner of application.js: two responders that make the element     *)
(* appear when an Ajax request is created and fade when the last one is    *)
(* complete, both at the end of the effect queue.  It composes the         *)
(* requests of AjaxRequests with the queue of EffectQueue: the responders  *)
(* run inside the step of the request that tells them.                     *)
(***************************************************************************)
EXTENDS EffectQueue

CONSTANTS Requests, Texts, NoRequest, NoText, MaxCount

VARIABLES req, count, clean, periodic, container

Ajax == INSTANCE AjaxRequests

ajaxVars == <<req, count, clean, periodic, container>>
spinnerVars == <<vars, ajaxVars>>

UnderWay == {r \in Requests : Ajax!UnderWay(r)}

\* The page's scripts create nothing but what the responders do.
SpinnerInit ==
    /\ Init
    /\ page.kinds = {"Fade", "Appear"} /\ page.positions = {"end"}
    /\ ~style.shown
    /\ Ajax!Init /\ periodic.asynchronous

\* Bound: every request still to complete leaves room for its effect.
RoomForEffects == made + Cardinality(UnderWay) + 2 <= page.most

\* The responder registered first has counted the new request already.
onCreate == IF count' > 0 THEN Create("Appear", "end", 0) ELSE UNCHANGED vars

\* Mutant: any completion hides the spinner.
onAnyComplete == Create("Fade", "end", 0)

onComplete == IF count' = 0 THEN Create("Fade", "end", 0) ELSE UNCHANGED vars

\* Asynchronous requests: while a synchronous one is under way the page stands
\* still.
NewRequest(r) ==
    /\ RoomForEffects
    /\ Ajax!Request(r)
    /\ req'[r].told = 0
    /\ onCreate

Answer(r) ==
    /\ Ajax!StateChange(r)
    /\ IF req'[r].told > req[r].told THEN onComplete ELSE UNCHANGED vars

Late(r) == Ajax!DeferredLoading(r) /\ UNCHANGED vars

Interval == UNCHANGED ajaxVars /\ \E lag \in 1..MaxLag : Loop(lag)

Leave ==
    /\ Reload
    /\ ~style'.shown
    /\ req' = [r \in Requests |-> Ajax!Unused]
    /\ count' = 0
    /\ clean' = TRUE
    /\ UNCHANGED <<periodic, container>>

SpinnerNext ==
    \/ \E r \in Requests : NewRequest(r) \/ Answer(r) \/ Late(r)
    \/ Interval
    \/ Leave

SpinnerSpec == SpinnerInit /\ [][SpinnerNext]_spinnerVars

\* application.js L4-11: unless a completion was lost to an exception, the
\* spinner that has come to rest is visible, fully, exactly when a request is
\* under way, in whatever order requests start, end and outlast the effects.
\* (An interval that is late by more than the time an effect lasts finishes one
\* and starts the one after the next in one pass: a fade in between then hides
\* the spinner after it has appeared.)
SpinnerFollows ==
    effects = <<>> /\ clean /\ MaxLag <= Duration =>
        /\ style.shown <=> UnderWay # {}
        /\ style.shown => style.opacity = 2
=============================================================================
