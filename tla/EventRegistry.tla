---------------------------- MODULE EventRegistry ----------------------------
(***************************************************************************)
(* Event.observe, stopObserving and fire of prototype.js over the events   *)
(* of a browser (DOM Level 2).  A handler is wrapped in a responder, which *)
(* the registry of its element keeps so that it can be stopped later.  All *)
(* custom events share one event of the browser, and mouseenter is made    *)
(* from mouseover, so a responder also decides whether an event is for it. *)
(*                                                                         *)
(* While an event is on its way up, the handlers it calls observe, stop    *)
(* and fire in turn: an action is one such call, or one step of a          *)
(* dispatch.  The browser calls what was listening on an element when the  *)
(* event reached it, in no particular order, and skips what was removed.   *)
(***************************************************************************)
EXTENDS Naturals, Sequences

CONSTANTS
    Elements, Parent, Above,    \* Above[e]: e and every element around it
    None,                       \* no element; no responder made yet
    CustomNames, DataAvailable, \* names with a colon, and the event that carries them
    NativeNames, DomName,       \* other names, and the browser's event for each
    Handlers,
    Responders,                 \* the responders: a bound on those in use
    MaxDepth                    \* bound: events under way, one fired by a handler
                                \* of another

ASSUME RegistryAssumption ==
    /\ None \notin Elements
    /\ Parent \in [Elements -> Elements \cup {None}]
    /\ Above \in [Elements -> SUBSET Elements]
    /\ \A e \in Elements :
        /\ e \in Above[e]
        /\ Parent[e] # None => Above[e] = {e} \cup Above[Parent[e]] /\ e \notin Above[Parent[e]]
    /\ CustomNames \cap NativeNames = {} /\ DataAvailable \notin NativeNames
    /\ DomName \in [NativeNames -> NativeNames]
    /\ MaxDepth \in Nat

VARIABLES
    made,           \* what each responder was made for
    registry,       \* the responders kept in the registries of the elements
    listening,      \* <<responder, event>>: those added as listeners
    dispatches      \* the events under way, the innermost last

registryVars == <<made, registry, listening, dispatches>>

Names == CustomNames \cup NativeNames
DomEvents == {DomName[n] : n \in NativeNames} \cup {DataAvailable}
Calls == [element : Elements, name : Names, handler : Handlers]
Dispatch == [event : DomEvents, name : CustomNames \cup {None}, related : Elements \cup {None},
             at : Elements, due : SUBSET Responders, told : SUBSET Calls, again : BOOLEAN]

RegistryTypeOK ==
    /\ made \in [Responders -> Calls \cup {None}]
    /\ registry \subseteq Responders
    /\ listening \subseteq Responders \X DomEvents
    /\ dispatches \in Seq(Dispatch) /\ Len(dispatches) <= MaxDepth

RegistryInit ==
    /\ made = [r \in Responders |-> None]
    /\ registry = {} /\ listening = {}
    /\ dispatches = <<>>

----------------------------------------------------------------------------
(* Registering and stopping. *)

\* _getDOMEventName, and the event that stands for every custom one.
EventOf(name) == IF name \in CustomNames THEN DataAvailable ELSE DomName[name]

\* A responder nothing refers to any more.
Fresh(r) ==
    /\ r \notin registry
    /\ \A d \in DomEvents : <<r, d>> \notin listening
    /\ \A i \in DOMAIN dispatches : r \notin dispatches[i].due

\* Mutant: a handler may be registered again under the same name.
ObserveAgain(e, n, h) ==
    \E r \in Responders :
        /\ Fresh(r)
        /\ made' = [made EXCEPT ![r] = [element |-> e, name |-> n, handler |-> h]]
        /\ registry' = registry \cup {r}
        /\ listening' = listening \cup {<<r, EventOf(n)>>}
        /\ UNCHANGED dispatches

\* observe(): nothing if the handler is registered for the name already.
Observe(e, n, h) ==
    LET call == [element |-> e, name |-> n, handler |-> h]
    IN  /\ \A r \in registry : made[r] # call
        /\ \E r \in Responders :
            /\ Fresh(r)
            /\ made' = [made EXCEPT ![r] = call]
            /\ registry' = registry \cup {r}
            /\ listening' = listening \cup {<<r, EventOf(n)>>}
            /\ UNCHANGED dispatches

\* stopObserving() of the responders S of the registry.
Stop(S) ==
    /\ registry' = registry \ S
    /\ listening' = listening \ {<<r, EventOf(made[r].name)>> : r \in S}
    /\ UNCHANGED <<made, dispatches>>

\* stopObserving() with an element, a name and a handler, without handler,
\* and with the element only; the last is also what unloading the page does
\* for every element in turn.
StopObserving ==
    \E e \in Elements :
        \/ \E n \in Names, h \in Handlers :
            Stop({r \in registry : made[r] = [element |-> e, name |-> n, handler |-> h]})
        \/ \E n \in Names : Stop({r \in registry : made[r].element = e /\ made[r].name = n})
        \/ Stop({r \in registry : made[r].element = e})

----------------------------------------------------------------------------
(* Events. *)

Due(event, e) == {r \in Responders : <<r, event>> \in listening /\ made[r].element = e}

\* The event reaches e; it has called the handlers told, and one again or not.
Reaching(event, name, related, e, due, told, again) ==
    [event |-> event, name |-> name, related |-> related, at |-> e,
     due |-> due, told |-> told, again |-> again]

Begin(event, name, e, related) ==
    /\ Len(dispatches) < MaxDepth
    /\ dispatches' = Append(dispatches,
            Reaching(event, name, related, e, Due(event, e), {}, FALSE))
    /\ UNCHANGED <<made, registry, listening>>

\* fire() of a custom event, by a handler or by other script.
Fire == \E e \in Elements, n \in CustomNames : Begin(DataAvailable, n, e, None)

\* An event of the browser; mouseover comes from the related element.
NativeEvent ==
    /\ dispatches = <<>>
    /\ \E event \in DomEvents \ {DataAvailable}, e \in Elements, from \in Elements \cup {None} :
        Begin(event, None, e, from)

\* The responder's own guard: a custom event must have its name; for a name
\* that stands for another, the mouse must come from outside its element.
Passes(r, d) ==
    IF made[r].name \in CustomNames THEN made[r].name = d.name
    ELSE \/ DomName[made[r].name] = made[r].name
         \/ d.related = None
         \/ made[r].element \notin Above[d.related]

Innermost == dispatches[Len(dispatches)]

\* The next of the responders due; one that was removed meanwhile is skipped.
CallNext ==
    /\ dispatches # <<>>
    /\ LET d == Innermost
       IN  \E r \in d.due :
            LET called == <<r, d.event>> \in listening /\ Passes(r, d)
            IN  dispatches' = [dispatches EXCEPT ![Len(dispatches)] =
                    Reaching(d.event, d.name, d.related, d.at, d.due \ {r},
                             d.told \cup {c \in {made[r]} : called},
                             d.again \/ (called /\ made[r] \in d.told))]
    /\ UNCHANGED <<made, registry, listening>>

\* The event goes on to the element around, or is over.
Bubble ==
    /\ dispatches # <<>>
    /\ Innermost.due = {}
    /\ LET d == Innermost
           up == Parent[d.at]
       IN  dispatches' =
            IF up = None THEN SubSeq(dispatches, 1, Len(dispatches) - 1)
            ELSE [dispatches EXCEPT ![Len(dispatches)] =
                    Reaching(d.event, d.name, d.related, up, Due(d.event, up),
                             d.told, d.again)]
    /\ UNCHANGED <<made, registry, listening>>

RegistryNext ==
    \/ \E e \in Elements, n \in Names, h \in Handlers : Observe(e, n, h)
    \/ StopObserving
    \/ Fire \/ NativeEvent \/ CallNext \/ Bubble

RegistrySpec == RegistryInit /\ [][RegistryNext]_registryVars

----------------------------------------------------------------------------
(* Properties. *)

\* L4452, L4510-4570: whatever is observed and stopped, by whatever handlers
\* of whatever events, what listens is exactly what the registries know, so
\* that it can still be stopped, and no handler is registered twice.
RegistryIsExact ==
    /\ listening = {<<r, EventOf(made[r].name)>> : r \in registry}
    /\ \A r, s \in registry : made[r] = made[s] => r = s

\* L4432-4488: one event calls a handler at most once for an element and a
\* name, also when handlers stop and observe one another, or fire other
\* events, while it is on its way.
CalledOnce == \A i \in DOMAIN dispatches : ~dispatches[i].again

\* Both of these.
HandlersAreCalledRight == RegistryIsExact /\ CalledOnce
=============================================================================
