----------------------------- MODULE SSOGateway -----------------------------
(***************************************************************************)
(* The sign-on gateway: pl.java.sso.DefaultSSOIdentityProvider on top of   *)
(* JOSSO's session manager, assertion manager, authenticator and identity  *)
(* manager.  Those four are libraries: each call into one of them is one   *)
(* atomic step, and between two calls of one request the requests of other *)
(* server threads, the session monitor and the assertion monitor may run.  *)
(*                                                                         *)
(* A server thread t executes one operation at a time: op[t] says which,   *)
(* pc[t] the library call it is about to make.  Identifiers are drawn from *)
(* the finite sets Sessions and Assertions; an operation that may need a   *)
(* fresh one starts only while enough are left (the bounds RoomForLogin    *)
(* and RoomForAssertion), since the real generators never run out.         *)
(***************************************************************************)
EXTENDS Naturals, Sequences, FiniteSets

CONSTANTS
    Threads,        \* the server threads that execute requests
    Users,          \* the user names credentials may name
    Sessions,       \* the session identifiers the generator may return
    Assertions,     \* the assertion identifiers the generator may return
    NoUser, NoSession,
    StoreFaults     \* TRUE: the session and assertion stores may raise an error

ASSUME GatewayAssumption ==
    /\ NoUser \notin Users
    /\ NoSession \notin Sessions
    /\ StoreFaults \in BOOLEAN

VARIABLES
    sstate,         \* session store: sstate[s] \in {"new", "live", "dead"}
    owner,          \* the user a session was opened for
    astate,         \* assertion store: "new", "issued", "redeemed" or "lapsed"
    bound,          \* the session an assertion was issued for
    reported,       \* sessions with an authentication success event
    signoffs,       \* signoffs[s]: number of logout success events for s
    known,          \* session identifiers that have left the gateway
    pc, op,         \* per thread: the next library call, the operation
    user, ctx, sid, \* per thread: credential's user, context session, session at hand
    fired,          \* per thread: the events fired by the current operation
    answer          \* per thread: what the operation has returned

stores == <<sstate, owner, astate, bound>>
audit == <<reported, signoffs>>
request == <<op, user, ctx>>
vars == <<stores, audit, known, pc, request, sid, fired, answer>>

LoginOps == {"login", "assertCredentials", "assertSimple"}
Ops == LoginOps \cup {"none", "assertSession", "globalSignoff", "logout"}
Calls == {"idle", "replace", "check", "exists", "initiate", "load",
          "request", "find", "invalidate"}
Events == {"loginSuccess", "loginFailed", "logoutSuccess", "logoutFail"}
Answers == {"none", "pending", "session", "assertion", "done", "error"}

Live(s) == s \in Sessions /\ sstate[s] = "live"

TypeOK ==
    /\ sstate \in [Sessions -> {"new", "live", "dead"}]
    /\ owner \in [Sessions -> Users \cup {NoUser}]
    /\ astate \in [Assertions -> {"new", "issued", "redeemed", "lapsed"}]
    /\ bound \in [Assertions -> Sessions \cup {NoSession}]
    /\ reported \in SUBSET Sessions
    /\ signoffs \in [Sessions -> Nat]
    /\ known \in SUBSET Sessions
    /\ pc \in [Threads -> Calls]
    /\ op \in [Threads -> Ops]
    /\ user \in [Threads -> Users \cup {NoUser}]
    /\ ctx \in [Threads -> Sessions \cup {NoSession}]
    /\ sid \in [Threads -> Sessions \cup {NoSession}]
    /\ fired \in [Threads -> Seq(Events)]
    /\ answer \in [Threads -> Answers]
    /\ \A s \in Sessions : owner[s] = NoUser <=> sstate[s] = "new"
    /\ \A a \in Assertions : bound[a] = NoSession <=> astate[a] = "new"

Init ==
    /\ sstate = [s \in Sessions |-> "new"]
    /\ owner = [s \in Sessions |-> NoUser]
    /\ astate = [a \in Assertions |-> "new"]
    /\ bound = [a \in Assertions |-> NoSession]
    /\ reported = {}
    /\ signoffs = [s \in Sessions |-> 0]
    /\ known = {}
    /\ pc = [t \in Threads |-> "idle"]
    /\ op = [t \in Threads |-> "none"]
    /\ user = [t \in Threads |-> NoUser]
    /\ ctx = [t \in Threads |-> NoSession]
    /\ sid = [t \in Threads |-> NoSession]
    /\ fired = [t \in Threads |-> <<>>]
    /\ answer = [t \in Threads |-> "none"]

----------------------------------------------------------------------------
(* The bounds on identifiers, and the pieces operations are made of. *)

RoomForLogin ==
    Cardinality({t \in Threads : pc[t] \in {"replace", "check", "exists", "initiate"}})
        < Cardinality({s \in Sessions : sstate[s] = "new"})

RoomForAssertion ==
    Cardinality({t \in Threads : pc[t] # "idle" /\ op[t] \notin {"login", "globalSignoff", "logout"}})
        < Cardinality({a \in Assertions : astate[a] = "new"})

\* A request reaches thread t: o is the operation, u the user its credentials
\* name, c the session of the caller's context, s the session it names.
Begin(t, o, u, c, s, firstCall) ==
    /\ pc[t] = "idle"
    /\ pc' = [pc EXCEPT ![t] = firstCall]
    /\ op' = [op EXCEPT ![t] = o]
    /\ user' = [user EXCEPT ![t] = u]
    /\ ctx' = [ctx EXCEPT ![t] = c]
    /\ sid' = [sid EXCEPT ![t] = s]
    /\ fired' = [fired EXCEPT ![t] = <<>>]
    /\ answer' = [answer EXCEPT ![t] = "pending"]
    /\ UNCHANGED <<stores, audit, known>>

Goto(t, call) ==
    /\ pc' = [pc EXCEPT ![t] = call]
    /\ UNCHANGED answer

\* Mutant: an error makes the thread try again instead of returning.
ReturnUnlessError(t, a) ==
    /\ pc' = [pc EXCEPT ![t] = IF a = "error" THEN @ ELSE "idle"]
    /\ answer' = [answer EXCEPT ![t] = IF a = "error" THEN @ ELSE a]

Return(t, a) ==
    /\ pc' = [pc EXCEPT ![t] = "idle"]
    /\ answer' = [answer EXCEPT ![t] = a]

Fire(t, e) == fired' = [fired EXCEPT ![t] = Append(@, e)]

\* Mutant: a catch block that throws without notifying.
LoginFailedSilently(t) ==
    Return(t, "error") /\ UNCHANGED <<stores, audit, known, sid, fired>>

\* Every catch block of login: one authentication failure event, then a throw.
LoginFailed(t) ==
    /\ Fire(t, "loginFailed")
    /\ Return(t, "error")
    /\ UNCHANGED <<stores, audit, known, sid>>

\* SSOSessionManager.invalidate on a live session.
EndSession(s) == sstate' = [sstate EXCEPT ![s] = "dead"]

----------------------------------------------------------------------------
(* login(cred, scheme) and the two operations that continue it: the       *)
(* context session is invalidated first, whatever the credentials are.    *)

BeginLogin(t) ==
    /\ RoomForLogin
    /\ \E o \in LoginOps, u \in Users, c \in {NoSession} \cup {s \in known : Live(s)} :
        /\ o # "login" => RoomForAssertion
        /\ Begin(t, o, u, c, NoSession, IF c = NoSession THEN "check" ELSE "replace")

\* Mutant: the context session is left alone until the credentials are good.
ReplaceSessionSkipped(t) ==
    /\ pc[t] = "replace"
    /\ Goto(t, "check")
    /\ UNCHANGED <<stores, audit, known, request, sid, fired>>

\* Step 1: an error of the invalidation is logged and ignored.
ReplaceSession(t) ==
    /\ pc[t] = "replace"
    /\ \/ Live(ctx[t]) /\ EndSession(ctx[t])
       \/ ~Live(ctx[t]) /\ UNCHANGED sstate
       \/ StoreFaults /\ UNCHANGED sstate
    /\ Goto(t, "check")
    /\ UNCHANGED <<owner, astate, bound, audit, known, request, sid, fired>>

\* Step 2: the authenticator accepts the credentials or raises.
CheckCredentials(t) ==
    /\ pc[t] = "check"
    /\ UNCHANGED request
    /\ \/ Goto(t, "exists") /\ UNCHANGED <<stores, audit, known, sid, fired>>
       \/ LoginFailed(t)

\* Step 3: userExists raises when the account has gone in the meantime.
ConfirmUser(t) ==
    /\ pc[t] = "exists"
    /\ UNCHANGED request
    /\ \/ Goto(t, "initiate") /\ UNCHANGED <<stores, audit, known, sid, fired>>
       \/ LoginFailed(t)

\* Mutant: the new session is used as it is, not read back and not reported.
InitiateSessionUnread(t) ==
    /\ pc[t] = "initiate"
    /\ \E s \in Sessions :
        /\ sstate[s] = "new"
        /\ sstate' = [sstate EXCEPT ![s] = "live"]
        /\ sid' = [sid EXCEPT ![t] = s]
    /\ Goto(t, "request")
    /\ UNCHANGED <<owner, astate, bound, audit, known, request, fired>>

\* Step 4, first half: a new session for the authenticated user.
InitiateSession(t) ==
    /\ pc[t] = "initiate"
    /\ UNCHANGED request
    /\ \/ \E s \in Sessions :
            /\ sstate[s] = "new"
            /\ sstate' = [sstate EXCEPT ![s] = "live"]
            /\ owner' = [owner EXCEPT ![s] = user[t]]
            /\ sid' = [sid EXCEPT ![t] = s]
            /\ Goto(t, "load")
            /\ UNCHANGED <<astate, bound, audit, known, fired>>
       \/ StoreFaults /\ LoginFailed(t)

\* Mutant: every login hands its session out when it has read it back.
LoadSessionDisclosed(t) ==
    /\ pc[t] = "load" /\ Live(sid[t])
    /\ reported' = reported \cup {sid[t]} /\ known' = known \cup {sid[t]}
    /\ Fire(t, "loginSuccess")
    /\ IF op[t] = "login" THEN Return(t, "session") ELSE Goto(t, "request")
    /\ UNCHANGED <<request, stores, signoffs, sid>>

\* Step 4, second half: the session is read back and the success reported;
\* login itself hands the session to its caller, the others go on.
LoadSession(t) ==
    /\ pc[t] = "load"
    /\ UNCHANGED request
    /\ \/ /\ Live(sid[t])
          /\ reported' = reported \cup {sid[t]}
          /\ Fire(t, "loginSuccess")
          /\ \/ op[t] = "login" /\ Return(t, "session") /\ known' = known \cup {sid[t]}
             \/ op[t] # "login" /\ Goto(t, "request") /\ UNCHANGED known
          /\ UNCHANGED <<stores, signoffs, sid>>
       \/ ~Live(sid[t]) /\ LoginFailed(t)
       \/ StoreFaults /\ LoginFailed(t)

\* The assertion for the session at hand.  The simple operation returns the
\* assertion's identifier alone, the others an object that names the session.
\* An error here is thrown with no event.
RequestAssertion(t) ==
    /\ pc[t] = "request"
    /\ UNCHANGED <<request, sstate, owner, audit, sid, fired>>
    /\ \/ \E a \in Assertions :
            /\ astate[a] = "new"
            /\ astate' = [astate EXCEPT ![a] = "issued"]
            /\ bound' = [bound EXCEPT ![a] = sid[t]]
            /\ known' = IF op[t] = "assertSimple" THEN known ELSE known \cup {sid[t]}
            /\ Return(t, "assertion")
       \/ StoreFaults /\ Return(t, "error") /\ UNCHANGED <<astate, bound, known>>

----------------------------------------------------------------------------
(* assertIdentity(sessionId), globalSignoff(sessionId), logout().          *)

BeginAssertSession(t) ==
    /\ RoomForAssertion
    /\ \E s \in known : Begin(t, "assertSession", NoUser, NoSession, s, "find")

BeginGlobalSignoff(t) ==
    \E s \in known : Begin(t, "globalSignoff", NoUser, NoSession, s, "find")

\* getSession(sessionId): raises when the session has ended.  A sign-off makes
\* the session found the current one and goes on as a logout.
FindSession(t) ==
    /\ pc[t] = "find"
    /\ UNCHANGED <<stores, audit, known, op, user, sid, fired>>
    /\ \/ /\ Live(sid[t])
          /\ op[t] = "assertSession"
          /\ Goto(t, "request")
          /\ UNCHANGED ctx
       \/ /\ Live(sid[t])
          /\ op[t] = "globalSignoff"
          /\ ctx' = [ctx EXCEPT ![t] = sid[t]]
          /\ Goto(t, "invalidate")
       \/ /\ ~Live(sid[t]) \/ StoreFaults
          /\ Return(t, "error")
          /\ UNCHANGED ctx

\* logout() of the context's session, if there is one.
BeginLogout(t) ==
    \E c \in {NoSession} \cup {s \in known : Live(s)} :
        Begin(t, "logout", NoUser, c, c, "invalidate")

\* Mutant: the session is reported as signed off and never invalidated.
InvalidateSessionForgotten(t) ==
    /\ pc[t] = "invalidate"
    /\ sid[t] # NoSession
    /\ signoffs' = [signoffs EXCEPT ![sid[t]] = @ + 1]
    /\ Fire(t, "logoutSuccess")
    /\ Return(t, "done")
    /\ UNCHANGED <<stores, reported, known, request, sid>>

\* No session, or one that has ended already, is ignored, without an event.
InvalidateSession(t) ==
    /\ pc[t] = "invalidate"
    /\ UNCHANGED <<owner, astate, bound, reported, known, request, sid>>
    /\ \/ /\ Live(sid[t])
          /\ EndSession(sid[t])
          /\ signoffs' = [signoffs EXCEPT ![sid[t]] = @ + 1]
          /\ Fire(t, "logoutSuccess")
          /\ Return(t, "done")
       \/ /\ ~Live(sid[t])
          /\ Return(t, "done")
          /\ UNCHANGED <<sstate, signoffs, fired>>
       \/ /\ sid[t] # NoSession
          /\ StoreFaults
          /\ Fire(t, "logoutFail")
          /\ Return(t, "error")
          /\ UNCHANGED <<sstate, signoffs>>

----------------------------------------------------------------------------
(* resolveAuthenticationAssertion(id): one call, consumeAssertion, so one  *)
(* step of whichever thread makes it; an identifier that is not there      *)
(* raises and changes nothing.  Whether the session is still live is not   *)
(* asked.                                                                  *)

\* Mutant: the assertion is looked up and not consumed.
ResolveWithoutConsuming(a) ==
    /\ astate[a] = "issued"
    /\ known' = known \cup {bound[a]}
    /\ UNCHANGED <<stores, audit, pc, request, sid, fired, answer>>

ResolveAuthenticationAssertion(a) ==
    /\ astate[a] = "issued"
    /\ astate' = [astate EXCEPT ![a] = "redeemed"]
    /\ known' = known \cup {bound[a]}
    /\ UNCHANGED <<sstate, owner, bound, audit, pc, request, sid, fired, answer>>

\* JOSSO's monitors: a session that was idle too long, an assertion nobody
\* has redeemed in time.
ExpireSession(s) ==
    /\ Live(s)
    /\ EndSession(s)
    /\ UNCHANGED <<owner, astate, bound, audit, known, pc, request, sid, fired, answer>>

LapseAssertion(a) ==
    /\ astate[a] = "issued"
    /\ astate' = [astate EXCEPT ![a] = "lapsed"]
    /\ UNCHANGED <<sstate, owner, bound, audit, known, pc, request, sid, fired, answer>>

----------------------------------------------------------------------------
\* A request arrives at an idle thread.
Arrive(t) ==
    \/ BeginLogin(t) \/ BeginAssertSession(t) \/ BeginGlobalSignoff(t) \/ BeginLogout(t)

\* A busy thread makes its next call.
Continue(t) ==
    \/ ReplaceSession(t) \/ CheckCredentials(t) \/ ConfirmUser(t)
    \/ InitiateSession(t) \/ LoadSession(t) \/ RequestAssertion(t)
    \/ FindSession(t) \/ InvalidateSession(t)

Next ==
    \/ \E t \in Threads : Arrive(t) \/ Continue(t)
    \/ \E a \in Assertions : ResolveAuthenticationAssertion(a) \/ LapseAssertion(a)
    \/ \E s \in Sessions : ExpireSession(s)

Spec == Init /\ [][Next]_vars

\* Threads run to the end of a request.  Nothing is assumed of JOSSO's monitors,
\* and no one is obliged to send a request or to redeem an assertion.
Fairness == \A t \in Threads : WF_vars(Continue(t))

FairSpec == Spec /\ Fairness

----------------------------------------------------------------------------
(* Properties. *)

\* The abstract state is the part of this module's that has the same names.
T == INSTANCE SSOTickets WITH
    Users <- Users, Sessions <- Sessions, Assertions <- Assertions,
    NoUser <- NoUser, NoSession <- NoSession,
    sstate <- sstate, owner <- owner, reported <- reported, known <- known,
    astate <- astate, bound <- bound

\* The gateway implements the ticket specification: a session is opened and
\* reported once and never comes back, and an assertion is issued only for a
\* session whose login was reported and is redeemed at most once, however the
\* calls of concurrent requests interleave.
ImplementsTickets == T!Spec

\* login L118-176: whichever of its steps fails, a login fires exactly one
\* authentication event; a failure event means the caller got an exception,
\* and a caller that got a session or an assertion had a success event.
LoginReportsOnce ==
    \A t \in Threads : op[t] \in LoginOps /\ pc[t] = "idle" =>
        /\ fired[t] \in {<<"loginSuccess">>, <<"loginFailed">>}
        /\ fired[t] = <<"loginFailed">> => answer[t] = "error"

\* Step 1 of login: with stores that do not fail, from the time the
\* credentials are checked the session of the caller's context is dead and
\* stays dead, whether or not the login succeeds: a browser never has two.
ReplacedSessionIsDead ==
    \A t \in Threads :
        ~StoreFaults /\ op[t] \in LoginOps /\ pc[t] # "replace" /\ ctx[t] # NoSession
            => sstate[ctx[t]] = "dead"

\* With stores that do not fail, no session lives unreported: outside the
\* short window in which its own login still has to read it back, every live
\* session has its success event in the audit trail.
NoSilentSession ==
    ~StoreFaults =>
        \A s \in Sessions : Live(s) =>
            s \in reported \/ \E t \in Threads : pc[t] = "load" /\ sid[t] = s

\* A sign-off that returned normally left its session dead, also when another
\* request or the monitor ended the session between getSession and invalidate.
SignoffEndsSession ==
    \A t \in Threads :
        op[t] \in {"globalSignoff", "logout"} /\ answer[t] = "done" /\ sid[t] # NoSession
            => sstate[sid[t]] = "dead"

\* The audit trail of a session: its logout is reported at most once, however
\* many sign-offs race, only after its login was, and only once it is dead.
AuditTrail ==
    \A s \in Sessions : signoffs[s] > 0 =>
        signoffs[s] = 1 /\ s \in reported /\ sstate[s] = "dead"

\* Every request that a thread has started comes back to its caller.
RequestsReturn == \A t \in Threads : pc[t] # "idle" ~> pc[t] = "idle"

\* L57-71, L148-176, L190-203: a login whose session could not be read back, or
\* got no assertion, has opened a session all the same.  However requests
\* interleave, before and after, no one but the session monitor reaches it:
\* its identifier never leaves the gateway, no assertion is bound to it and no
\* sign-off of it is reported.
FailedLoginIsShut ==
    \A t \in Threads : op[t] \in LoginOps /\ answer[t] = "error" /\ sid[t] # NoSession =>
        /\ sid[t] \notin known
        /\ \A a \in Assertions : bound[a] # sid[t]
        /\ signoffs[sid[t]] = 0
=============================================================================
