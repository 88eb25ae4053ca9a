-------------------------- MODULE SSOGatewayProofs --------------------------
(***************************************************************************)
(* Theorems about SSOGateway, for every number of threads, users, sessions *)
(* and assertions, with and without failing stores.  The inductive         *)
(* invariant IInv adds to TypeOK what a thread knows at each call, and     *)
(* what the identifiers in circulation refer to.                           *)
(***************************************************************************)
EXTENDS SSOGateway, TLAPS

\* Identifiers in circulation belong to sessions whose login was reported.
Circulation ==
    /\ known \subseteq reported
    /\ \A s \in reported : sstate[s] # "new"
    /\ \A a \in Assertions : astate[a] # "new" => bound[a] \in reported

\* What holds of one thread, by the call it is about to make.
ThreadInv(t) ==
    /\ pc[t] \in {"replace", "check", "exists", "initiate", "load"} =>
         op[t] \in LoginOps /\ user[t] \in Users /\ fired[t] = <<>>
    /\ pc[t] = "replace" => ctx[t] \in Sessions /\ sstate[ctx[t]] # "new"
    /\ pc[t] = "load" => sid[t] \in Sessions \ reported /\ sstate[sid[t]] # "new"
    /\ pc[t] = "request" =>
         /\ op[t] \in LoginOps \cup {"assertSession"}
         /\ sid[t] \in reported
         /\ op[t] \in LoginOps => fired[t] = <<"loginSuccess">>
    /\ pc[t] = "find" => op[t] \in {"assertSession", "globalSignoff"} /\ sid[t] \in known
    /\ pc[t] = "invalidate" =>
         op[t] \in {"globalSignoff", "logout"} /\ (sid[t] = NoSession \/ sid[t] \in known)
    /\ pc[t] # "idle" => answer[t] = "pending"

\* A session that waits to be read back belongs to one thread.
OneOpener ==
    \A t1, t2 \in Threads :
        t1 # t2 /\ pc[t1] = "load" /\ pc[t2] = "load" => sid[t1] # sid[t2]

IInv ==
    /\ TypeOK
    /\ Circulation
    /\ \A t \in Threads : ThreadInv(t)
    /\ OneOpener
----------------------------------------------------------------------------

\* No step but the opening of a session makes a thread wait for one.
LEMMA OpenersStay ==
  ASSUME OneOpener,
         \A w \in Threads : pc'[w] = "load" => pc[w] = "load" /\ sid'[w] = sid[w]
  PROVE  OneOpener'
BY DEF OneOpener

LEMMA InitInv == Init => IInv
BY GatewayAssumption
DEF Init, IInv, TypeOK, Circulation, ThreadInv, OneOpener, Ops, LoginOps, Calls, Events, Answers

----------------------------------------------------------------------------
(* The pieces actions are made of keep the types of what they change. *)

LEMMA FireType ==
    ASSUME TypeOK, NEW t \in Threads, NEW e \in Events, Fire(t, e)
    PROVE  fired' \in [Threads -> Seq(Events)]
BY DEF TypeOK, Fire

LEMMA ReturnType ==
    ASSUME TypeOK, NEW t \in Threads, NEW a \in Answers, Return(t, a)
    PROVE  pc' \in [Threads -> Calls] /\ answer' \in [Threads -> Answers]
BY DEF TypeOK, Return, Calls

LEMMA GotoType ==
    ASSUME TypeOK, NEW t \in Threads, NEW c \in Calls, Goto(t, c)
    PROVE  pc' \in [Threads -> Calls] /\ answer' \in [Threads -> Answers]
BY DEF TypeOK, Goto

\* A thread that gives up a login leaves nothing behind in the invariant.
LEMMA LoginFailedInv ==
    ASSUME IInv, NEW t \in Threads, LoginFailed(t), UNCHANGED request
    PROVE  IInv'
<1>1. TypeOK'
  <2>1. fired' \in [Threads -> Seq(Events)]
    BY FireType DEF IInv, LoginFailed, Events
  <2>2. pc' \in [Threads -> Calls] /\ answer' \in [Threads -> Answers]
    BY ReturnType DEF IInv, LoginFailed, Answers
  <2> QED
    BY <2>1, <2>2 DEF IInv, TypeOK, LoginFailed, stores, audit, request
<1>2. Circulation'
  BY DEF IInv, Circulation, LoginFailed, stores, audit
<1>3. \A u \in Threads : ThreadInv(u)'
  BY DEF IInv, TypeOK, ThreadInv, LoginFailed, Return, Fire, Calls, Answers, stores, audit, request
<1>4. OneOpener'
  <2>1. \A w \in Threads : pc'[w] = "load" => pc[w] = "load" /\ sid'[w] = sid[w]
    BY DEF IInv, TypeOK, LoginFailed, Return, Calls
  <2> QED BY <2>1, OpenersStay DEF IInv
<1> QED BY <1>1, <1>2, <1>3, <1>4 DEF IInv

\* A request that arrives starts with nothing fired and nothing answered.
LEMMA BeginInv ==
    ASSUME IInv, NEW t \in Threads, NEW o \in Ops, NEW u \in Users \cup {NoUser},
           NEW c \in Sessions \cup {NoSession}, NEW x \in Sessions \cup {NoSession},
           NEW f \in Calls, Begin(t, o, u, c, x, f),
           \/ o \in LoginOps /\ u \in Users /\ f \in {"replace", "check"}
           \/ o \in {"assertSession", "globalSignoff"} /\ f = "find" /\ x \in known
           \/ o = "logout" /\ f = "invalidate" /\ (x = NoSession \/ x \in known),
           f = "replace" => c \in Sessions /\ sstate[c] # "new"
    PROVE  IInv'
<1>1. TypeOK'
  BY DEF IInv, TypeOK, Begin, Ops, LoginOps, Calls, Events, Answers, stores, audit
<1>2. Circulation'
  BY DEF IInv, Circulation, Begin, stores, audit
<1>3. \A w \in Threads : ThreadInv(w)'
  BY DEF IInv, TypeOK, ThreadInv, Begin, LoginOps, Calls, stores, audit
<1>4. OneOpener'
  <2>1. \A w \in Threads : pc'[w] = "load" => pc[w] = "load" /\ sid'[w] = sid[w]
    BY DEF IInv, TypeOK, Begin, LoginOps, Calls
  <2> QED BY <2>1, OpenersStay DEF IInv
<1> QED BY <1>1, <1>2, <1>3, <1>4 DEF IInv

LEMMA ArriveInv ==
    ASSUME IInv, NEW t \in Threads, Arrive(t) PROVE IInv'
<1>1. CASE BeginLogin(t)
  BY <1>1, BeginInv DEF BeginLogin, Live, Ops, LoginOps, Calls, IInv, TypeOK
<1>2. CASE BeginAssertSession(t)
  BY <1>2, BeginInv DEF BeginAssertSession, Ops, LoginOps, Calls, IInv, TypeOK
<1>3. CASE BeginGlobalSignoff(t)
  BY <1>3, BeginInv DEF BeginGlobalSignoff, Ops, LoginOps, Calls, IInv, TypeOK
<1>4. CASE BeginLogout(t)
  BY <1>4, BeginInv DEF BeginLogout, Ops, LoginOps, Calls, IInv, TypeOK
<1> QED BY <1>1, <1>2, <1>3, <1>4 DEF Arrive

----------------------------------------------------------------------------
(* One lemma per call a thread makes. *)

LEMMA ReplaceSessionInv ==
    ASSUME IInv, NEW t \in Threads, ReplaceSession(t) PROVE IInv'
<1>1. TypeOK'
  <2>1. pc' \in [Threads -> Calls] /\ answer' \in [Threads -> Answers]
    BY GotoType DEF ReplaceSession, Calls, IInv
  <2>2. /\ sstate' \in [Sessions -> {"new", "live", "dead"}]
        /\ \A s \in Sessions : sstate'[s] = "new" <=> sstate[s] = "new"
    BY DEF IInv, TypeOK, ReplaceSession, EndSession, Live
  <2> QED BY <2>1, <2>2 DEF IInv, TypeOK, ReplaceSession, audit, request
<1>2. Circulation'
  BY DEF IInv, TypeOK, Circulation, ReplaceSession, EndSession, Live, audit
<1>3. \A u \in Threads : ThreadInv(u)'
  BY DEF IInv, TypeOK, ThreadInv, ReplaceSession, EndSession, Goto, Live, Calls, audit, request
<1>4. OneOpener'
  <2>1. \A w \in Threads : pc'[w] = "load" => pc[w] = "load" /\ sid'[w] = sid[w]
    BY DEF IInv, TypeOK, ReplaceSession, Goto, Calls
  <2> QED BY <2>1, OpenersStay DEF IInv
<1> QED BY <1>1, <1>2, <1>3, <1>4 DEF IInv

LEMMA CheckCredentialsInv ==
    ASSUME IInv, NEW t \in Threads, CheckCredentials(t) PROVE IInv'
<1>1. CASE LoginFailed(t)
  BY <1>1, LoginFailedInv DEF CheckCredentials
<1>2. CASE Goto(t, "exists") /\ UNCHANGED <<stores, audit, known, sid, fired>>
  <2>1. TypeOK'
    BY <1>2, GotoType DEF IInv, TypeOK, CheckCredentials, Calls, stores, audit, request
  <2>2. Circulation'
    BY <1>2 DEF IInv, Circulation, stores, audit
  <2>3. \A u \in Threads : ThreadInv(u)'
    BY <1>2 DEF IInv, TypeOK, ThreadInv, CheckCredentials, Goto, Calls, stores, audit, request
  <2>4. OneOpener'
    <3>1. \A w \in Threads : pc'[w] = "load" => pc[w] = "load" /\ sid'[w] = sid[w]
      BY <1>2 DEF IInv, TypeOK, Goto, Calls
    <3> QED BY <3>1, OpenersStay DEF IInv
  <2> QED BY <2>1, <2>2, <2>3, <2>4 DEF IInv
<1> QED BY <1>1, <1>2 DEF CheckCredentials

LEMMA ConfirmUserInv ==
    ASSUME IInv, NEW t \in Threads, ConfirmUser(t) PROVE IInv'
<1>1. CASE LoginFailed(t)
  BY <1>1, LoginFailedInv DEF ConfirmUser
<1>2. CASE Goto(t, "initiate") /\ UNCHANGED <<stores, audit, known, sid, fired>>
  <2>1. TypeOK'
    BY <1>2, GotoType DEF IInv, TypeOK, ConfirmUser, Calls, stores, audit, request
  <2>2. Circulation'
    BY <1>2 DEF IInv, Circulation, stores, audit
  <2>3. \A u \in Threads : ThreadInv(u)'
    BY <1>2 DEF IInv, TypeOK, ThreadInv, ConfirmUser, Goto, Calls, stores, audit, request
  <2>4. OneOpener'
    <3>1. \A w \in Threads : pc'[w] = "load" => pc[w] = "load" /\ sid'[w] = sid[w]
      BY <1>2 DEF IInv, TypeOK, Goto, Calls
    <3> QED BY <3>1, OpenersStay DEF IInv
  <2> QED BY <2>1, <2>2, <2>3, <2>4 DEF IInv
<1> QED BY <1>1, <1>2 DEF ConfirmUser

\* The identifier is fresh, so no other thread waits for it and it is neither
\* reported nor bound.
LEMMA InitiateSessionInv ==
    ASSUME IInv, NEW t \in Threads, InitiateSession(t) PROVE IInv'
<1>1. CASE LoginFailed(t)
  BY <1>1, LoginFailedInv DEF InitiateSession
<1>2. ASSUME NEW s \in Sessions, sstate[s] = "new",
             sstate' = [sstate EXCEPT ![s] = "live"],
             owner' = [owner EXCEPT ![s] = user[t]],
             sid' = [sid EXCEPT ![t] = s],
             Goto(t, "load"),
             UNCHANGED <<astate, bound, audit, known, fired>>
      PROVE  IInv'
  <2>1. TypeOK'
    <3>1. pc' \in [Threads -> Calls] /\ answer' \in [Threads -> Answers]
      BY <1>2, GotoType DEF IInv, Calls
    <3>2. user[t] \in Users /\ user[t] # NoUser
      BY GatewayAssumption DEF IInv, ThreadInv, InitiateSession
    <3> QED
      BY <1>2, <3>1, <3>2 DEF IInv, TypeOK, InitiateSession, audit, request
  <2>2. Circulation'
    BY <1>2 DEF IInv, TypeOK, Circulation, audit
  <2>3. \A u \in Threads : ThreadInv(u)'
    <3>1. s \notin reported
      BY <1>2 DEF IInv, Circulation
    <3> QED
      BY <1>2, <3>1
      DEF IInv, TypeOK, ThreadInv, InitiateSession, Goto, Calls, audit, request
  <2>4. OneOpener'
    BY <1>2 DEF IInv, TypeOK, OneOpener, ThreadInv, Goto, Calls
  <2> QED BY <2>1, <2>2, <2>3, <2>4 DEF IInv
<1> QED BY <1>1, <1>2 DEF InitiateSession

LEMMA LoadSessionInv ==
    ASSUME IInv, NEW t \in Threads, LoadSession(t) PROVE IInv'
<1>1. CASE LoginFailed(t)
  BY <1>1, LoginFailedInv DEF LoadSession
<1>2. CASE ~LoginFailed(t)
  <2>1. /\ pc[t] = "load" /\ Live(sid[t])
        /\ reported' = reported \cup {sid[t]}
        /\ Fire(t, "loginSuccess")
        /\ \/ op[t] = "login" /\ Return(t, "session") /\ known' = known \cup {sid[t]}
           \/ op[t] # "login" /\ Goto(t, "request") /\ UNCHANGED known
        /\ UNCHANGED <<stores, signoffs, sid, request>>
    BY <1>2 DEF LoadSession
  <2>2. TypeOK'
    <3>1. fired' \in [Threads -> Seq(Events)]
      BY <2>1, FireType DEF IInv, Events
    <3>2. pc' \in [Threads -> Calls] /\ answer' \in [Threads -> Answers]
      BY <2>1, GotoType, ReturnType DEF IInv, Calls, Answers
    <3> QED BY <2>1, <3>1, <3>2 DEF IInv, TypeOK, Live, stores, request
  <2>3. Circulation'
    BY <2>1 DEF IInv, TypeOK, Circulation, Live, stores
  <2>4. ASSUME NEW u \in Threads PROVE ThreadInv(u)'
    <3>1. CASE u = t
      <4>1. op[t] \in LoginOps /\ op'[t] = op[t] /\ sid'[t] = sid[t] /\ sid[t] \in reported'
        BY <2>1 DEF IInv, ThreadInv, request
      <4>2. fired'[t] = <<"loginSuccess">>
        <5>1. fired[t] = <<>> /\ fired'[t] = Append(fired[t], "loginSuccess")
          BY <2>1 DEF IInv, TypeOK, ThreadInv, Fire
        <5> QED BY <5>1
      <4>3. \/ pc'[t] = "idle"
            \/ pc'[t] = "request" /\ answer'[t] = answer[t]
        BY <2>1 DEF IInv, TypeOK, Goto, Return
      <4> QED BY <2>1, <3>1, <4>1, <4>2, <4>3 DEF IInv, ThreadInv
    <3>2. CASE u # t
      <4>1. /\ pc'[u] = pc[u] /\ answer'[u] = answer[u] /\ fired'[u] = fired[u]
            /\ sid'[u] = sid[u] /\ op'[u] = op[u] /\ user'[u] = user[u] /\ ctx'[u] = ctx[u]
        BY <2>1, <3>2 DEF IInv, TypeOK, Goto, Return, Fire, request
      <4>2. pc[u] = "load" => sid[u] # sid[t]
        BY <2>1, <3>2 DEF IInv, OneOpener
      <4> QED BY <2>1, <4>1, <4>2 DEF IInv, ThreadInv, stores
    <3> QED BY <3>1, <3>2
  <2>5. OneOpener'
    <3>1. \A w \in Threads : pc'[w] = "load" => pc[w] = "load" /\ sid'[w] = sid[w]
      BY <2>1 DEF IInv, TypeOK, Goto, Return, Calls
    <3> QED BY <3>1, OpenersStay DEF IInv
  <2> QED BY <2>2, <2>3, <2>4, <2>5 DEF IInv
<1> QED BY <1>1, <1>2

LEMMA RequestAssertionInv ==
    ASSUME IInv, NEW t \in Threads, RequestAssertion(t) PROVE IInv'
<1>0. sid[t] \in reported /\ sid[t] \in Sessions
  BY DEF IInv, TypeOK, ThreadInv, RequestAssertion
<1>1. TypeOK'
  <2>1. pc' \in [Threads -> Calls] /\ answer' \in [Threads -> Answers]
    BY ReturnType DEF IInv, RequestAssertion, Answers
  <2> QED
    BY <1>0, <2>1, GatewayAssumption, ZenonT(60) DEF IInv, TypeOK, RequestAssertion, audit, request
<1>2. Circulation'
  BY <1>0 DEF IInv, TypeOK, Circulation, RequestAssertion, audit
<1>3. \A u \in Threads : ThreadInv(u)'
  BY DEF IInv, TypeOK, ThreadInv, RequestAssertion, Return, Calls, Answers, audit, request
<1>4. OneOpener'
  <2>1. \A w \in Threads : pc'[w] = "load" => pc[w] = "load" /\ sid'[w] = sid[w]
    BY DEF IInv, TypeOK, RequestAssertion, Return, Calls
  <2> QED BY <2>1, OpenersStay DEF IInv
<1> QED BY <1>1, <1>2, <1>3, <1>4 DEF IInv

LEMMA FindSessionInv ==
    ASSUME IInv, NEW t \in Threads, FindSession(t) PROVE IInv'
<1>1. TypeOK'
  <2>1. pc' \in [Threads -> Calls] /\ answer' \in [Threads -> Answers]
    BY ReturnType, GotoType DEF IInv, FindSession, Answers, Calls
  <2> QED BY <2>1 DEF IInv, TypeOK, FindSession, stores, audit
<1>2. Circulation'
  BY DEF IInv, Circulation, FindSession, stores, audit
<1>3. \A u \in Threads : ThreadInv(u)'
  BY DEF IInv, TypeOK, Circulation, ThreadInv, FindSession, Goto, Return, Calls, Answers, LoginOps,
         stores, audit
<1>4. OneOpener'
  <2>1. \A w \in Threads : pc'[w] = "load" => pc[w] = "load" /\ sid'[w] = sid[w]
    BY DEF IInv, TypeOK, FindSession, Goto, Return, Calls
  <2> QED BY <2>1, OpenersStay DEF IInv
<1> QED BY <1>1, <1>2, <1>3, <1>4 DEF IInv

LEMMA InvalidateSessionInv ==
    ASSUME IInv, NEW t \in Threads, InvalidateSession(t) PROVE IInv'
<1>1. TypeOK'
  <2>1. pc' \in [Threads -> Calls] /\ answer' \in [Threads -> Answers]
    BY ReturnType DEF IInv, InvalidateSession, Answers
  <2>2. fired' \in [Threads -> Seq(Events)]
    BY FireType DEF IInv, TypeOK, InvalidateSession, Events
  <2>3. /\ sstate' \in [Sessions -> {"new", "live", "dead"}]
        /\ \A s \in Sessions : sstate'[s] = "new" <=> sstate[s] = "new"
    BY DEF IInv, TypeOK, InvalidateSession, EndSession, Live
  <2>4. signoffs' \in [Sessions -> Nat]
    BY DEF IInv, TypeOK, InvalidateSession, Live
  <2> QED BY <2>1, <2>2, <2>3, <2>4 DEF IInv, TypeOK, InvalidateSession, request
<1>2. Circulation'
  BY DEF IInv, TypeOK, Circulation, InvalidateSession, EndSession, Live
<1>3. \A u \in Threads : ThreadInv(u)'
  BY DEF IInv, TypeOK, ThreadInv, InvalidateSession, EndSession, Return, Fire, Live, Calls, Answers,
         request
<1>4. OneOpener'
  <2>1. \A w \in Threads : pc'[w] = "load" => pc[w] = "load" /\ sid'[w] = sid[w]
    BY DEF IInv, TypeOK, InvalidateSession, Return, Calls
  <2> QED BY <2>1, OpenersStay DEF IInv
<1> QED BY <1>1, <1>2, <1>3, <1>4 DEF IInv

----------------------------------------------------------------------------
(* The steps that belong to no thread, and the invariant itself. *)

LEMMA StoreStepInv ==
    ASSUME IInv,
           \/ \E a \in Assertions : ResolveAuthenticationAssertion(a) \/ LapseAssertion(a)
           \/ \E s \in Sessions : ExpireSession(s)
    PROVE  IInv'
<1>1. ASSUME NEW a \in Assertions, ResolveAuthenticationAssertion(a) PROVE IInv'
  <2>1. bound[a] \in reported
    BY <1>1 DEF IInv, Circulation, ResolveAuthenticationAssertion
  <2>2. TypeOK'
    BY <1>1, <2>1 DEF IInv, TypeOK, ResolveAuthenticationAssertion, audit, request
  <2>3. Circulation'
    BY <1>1, <2>1 DEF IInv, TypeOK, Circulation, ResolveAuthenticationAssertion, audit
  <2>4. (\A t \in Threads : ThreadInv(t)') /\ OneOpener'
    BY <1>1 DEF IInv, ThreadInv, OneOpener, ResolveAuthenticationAssertion, audit, request
  <2> QED BY <2>2, <2>3, <2>4 DEF IInv
<1>2. ASSUME NEW a \in Assertions, LapseAssertion(a) PROVE IInv'
  <2>1. TypeOK' /\ Circulation'
    BY <1>2 DEF IInv, TypeOK, Circulation, LapseAssertion, audit, request
  <2>2. (\A t \in Threads : ThreadInv(t)') /\ OneOpener'
    BY <1>2 DEF IInv, ThreadInv, OneOpener, LapseAssertion, audit, request
  <2> QED BY <2>1, <2>2 DEF IInv
<1>3. ASSUME NEW s \in Sessions, ExpireSession(s) PROVE IInv'
  <2>1. TypeOK' /\ Circulation'
    BY <1>3 DEF IInv, TypeOK, Circulation, ExpireSession, EndSession, Live, audit, request
  <2>2. (\A t \in Threads : ThreadInv(t)') /\ OneOpener'
    BY <1>3 DEF IInv, TypeOK, ThreadInv, OneOpener, ExpireSession, EndSession, Live, audit, request
  <2> QED BY <2>1, <2>2 DEF IInv
<1> QED BY <1>1, <1>2, <1>3

LEMMA NextInv == IInv /\ [Next]_vars => IInv'
<1> SUFFICES ASSUME IInv, [Next]_vars PROVE IInv'
  OBVIOUS
<1>1. ASSUME NEW t \in Threads, Arrive(t) PROVE IInv'
  BY <1>1, ArriveInv
<1>2. ASSUME NEW t \in Threads, Continue(t) PROVE IInv'
  BY <1>2, ReplaceSessionInv, CheckCredentialsInv, ConfirmUserInv, InitiateSessionInv,
     LoadSessionInv, RequestAssertionInv, FindSessionInv, InvalidateSessionInv DEF Continue
<1>3. CASE UNCHANGED vars
  BY <1>3 DEF IInv, TypeOK, Circulation, ThreadInv, OneOpener, vars, stores, audit, request
<1> QED BY <1>1, <1>2, <1>3, StoreStepInv DEF Next

\* The inductive invariant holds in every reachable state.
THEOREM Invariance == Spec => []IInv
BY InitInv, NextInv, PTL DEF Spec

\* Every variable keeps its type; a session has an owner exactly if it was
\* opened, an assertion a session exactly if it was issued.
THEOREM TypeCorrect == Spec => []TypeOK
<1>1. IInv => TypeOK
  BY DEF IInv
<1> QED BY <1>1, Invariance, PTL

----------------------------------------------------------------------------
(* What a step may do to the stores and to the audit trail. *)

\* A session that has ended does not come back: no step makes it live again.
LEMMA DeadStaysDead ==
    ASSUME IInv, [Next]_vars, NEW s \in Sessions, sstate[s] = "dead"
    PROVE  sstate'[s] = "dead"
<1>1. ASSUME NEW t \in Threads, Arrive(t) PROVE sstate'[s] = "dead"
  BY <1>1 DEF Arrive, BeginLogin, BeginAssertSession, BeginGlobalSignoff, BeginLogout, Begin, stores
<1>2. ASSUME NEW t \in Threads, Continue(t) PROVE sstate'[s] = "dead"
  BY <1>2 DEF IInv, TypeOK, Continue, ReplaceSession, CheckCredentials, ConfirmUser, InitiateSession,
     LoadSession, RequestAssertion, FindSession, InvalidateSession, LoginFailed, EndSession, stores
<1>3. ASSUME NEW a \in Assertions, ResolveAuthenticationAssertion(a) \/ LapseAssertion(a)
      PROVE sstate'[s] = "dead"
  BY <1>3 DEF ResolveAuthenticationAssertion, LapseAssertion
<1>4. ASSUME NEW x \in Sessions, ExpireSession(x) PROVE sstate'[s] = "dead"
  BY <1>4 DEF IInv, TypeOK, ExpireSession, EndSession
<1>5. CASE UNCHANGED vars
  BY <1>5 DEF vars, stores
<1> QED BY <1>1, <1>2, <1>3, <1>4, <1>5 DEF Next

----------------------------------------------------------------------------
(* A step of one thread leaves the others alone. *)

LocalState(u) == <<pc[u], op[u], user[u], ctx[u], sid[u], fired[u], answer[u]>>

LEMMA ArriveFrame ==
    ASSUME IInv, NEW t \in Threads, Arrive(t)
    PROVE  /\ pc'[t] # "idle" /\ answer'[t] = "pending"
           /\ op'[t] \in LoginOps /\ ctx'[t] # NoSession => pc'[t] = "replace"
           /\ UNCHANGED <<stores, audit, known>>
           /\ \A u \in Threads \ {t} : UNCHANGED LocalState(u)
BY DEF IInv, TypeOK, Arrive, BeginLogin, BeginAssertSession, BeginGlobalSignoff, BeginLogout, Begin,
       LocalState, LoginOps

LEMMA ContinueFrame ==
    ASSUME IInv, NEW t \in Threads, Continue(t)
    PROVE  /\ pc[t] # "idle" /\ op'[t] = op[t]
           /\ \A u \in Threads \ {t} : UNCHANGED LocalState(u)
<1>1. pc[t] # "idle"
  BY DEF Continue, ReplaceSession, CheckCredentials, ConfirmUser, InitiateSession, LoadSession,
         RequestAssertion, FindSession, InvalidateSession
<1>2. op' = op
  BY DEF Continue, ReplaceSession, CheckCredentials, ConfirmUser, InitiateSession, LoadSession,
         RequestAssertion, FindSession, InvalidateSession, request
<1>3. ASSUME NEW u \in Threads \ {t} PROVE UNCHANGED LocalState(u)
  BY <1>2 DEF IInv, TypeOK, Continue, ReplaceSession, CheckCredentials, ConfirmUser, InitiateSession,
         LoadSession, RequestAssertion, FindSession, InvalidateSession, LoginFailed, Goto, Return, Fire,
         request, LocalState
<1> QED BY <1>1, <1>2, <1>3

\* The monitors, a redeemed assertion and stuttering touch no thread.
OtherStep ==
    \/ \E a \in Assertions : ResolveAuthenticationAssertion(a) \/ LapseAssertion(a)
    \/ \E s \in Sessions : ExpireSession(s)
    \/ UNCHANGED vars

LEMMA OtherFrame ==
    ASSUME OtherStep PROVE UNCHANGED <<pc, request, sid, fired, answer, reported, signoffs>>
BY DEF OtherStep, ResolveAuthenticationAssertion, LapseAssertion, ExpireSession, vars, audit

LEMMA StepCases ==
    ASSUME [Next]_vars
    PROVE  OtherStep \/ \E t \in Threads : Arrive(t) \/ Continue(t)
BY DEF Next, OtherStep

----------------------------------------------------------------------------
(* The safety properties.  Each is inductive relative to IInv. *)

\* What a login must have done when its thread is idle again.
Reports(t) ==
    op[t] \in LoginOps /\ pc[t] = "idle" =>
        /\ fired[t] \in {<<"loginSuccess">>, <<"loginFailed">>}
        /\ fired[t] = <<"loginFailed">> => answer[t] = "error"

LEMMA LoginFailedReports ==
    ASSUME IInv, NEW t \in Threads,
           pc[t] \in {"check", "exists", "initiate", "load"}, LoginFailed(t)
    PROVE  Reports(t)'
<1>1. fired[t] = <<>>
  BY DEF IInv, ThreadInv
<1>2. fired'[t] = Append(fired[t], "loginFailed") /\ answer'[t] = "error"
  BY DEF IInv, TypeOK, LoginFailed, Fire, Return
<1> QED BY <1>1, <1>2 DEF Reports

LEMMA ContinueReports ==
    ASSUME IInv, NEW t \in Threads, Continue(t) PROVE Reports(t)'
<1>1. CASE LoginFailed(t) /\ pc[t] \in {"check", "exists", "initiate", "load"}
  BY <1>1, LoginFailedReports
<1>2. CASE \E c \in Calls \ {"idle"} : Goto(t, c)
  BY <1>2 DEF IInv, TypeOK, Goto, Reports
<1>3. CASE pc[t] = "load" /\ Fire(t, "loginSuccess")
  <2>1. fired[t] = <<>> /\ fired'[t] = Append(fired[t], "loginSuccess")
    BY <1>3 DEF IInv, TypeOK, ThreadInv, Fire
  <2>2. fired'[t] = <<"loginSuccess">> /\ fired'[t] # <<"loginFailed">>
    BY <2>1
  <2> QED BY <2>2 DEF Reports
<1>4. CASE RequestAssertion(t)
  <2>1. op'[t] = op[t] /\ fired'[t] = fired[t]
    BY <1>4 DEF RequestAssertion, request
  <2>2. op[t] \in LoginOps => fired[t] = <<"loginSuccess">>
    BY <1>4 DEF IInv, ThreadInv, RequestAssertion
  <2>3. <<"loginSuccess">> # <<"loginFailed">>
    OBVIOUS
  <2> QED BY <2>1, <2>2, <2>3 DEF Reports
<1>5. CASE pc[t] \in {"find", "invalidate"}
  <2>1. op'[t] = op[t]
    BY ContinueFrame
  <2> QED BY <1>5, <2>1 DEF IInv, ThreadInv, LoginOps, Reports
<1> QED
  BY <1>1, <1>2, <1>3, <1>4, <1>5
  DEF Continue, ReplaceSession, CheckCredentials, ConfirmUser, InitiateSession, LoadSession,
      FindSession, InvalidateSession, Calls

\* Every login, however it ends, has fired exactly one authentication event,
\* and the event agrees with what the caller got.
THEOREM LoginReporting == Spec => []LoginReportsOnce
<1>1. Init => LoginReportsOnce
  BY DEF Init, LoginReportsOnce, LoginOps
<1>2. IInv /\ LoginReportsOnce /\ [Next]_vars => LoginReportsOnce'
  <2> SUFFICES ASSUME IInv, LoginReportsOnce, [Next]_vars, NEW u \in Threads PROVE Reports(u)'
    BY DEF LoginReportsOnce, Reports
  <2>0. ASSUME UNCHANGED LocalState(u) PROVE Reports(u)'
    BY <2>0 DEF LoginReportsOnce, Reports, LocalState
  <2>1. ASSUME NEW t \in Threads, Arrive(t) PROVE Reports(u)'
    BY <2>0, <2>1, ArriveFrame DEF Reports
  <2>2. ASSUME NEW t \in Threads, Continue(t) PROVE Reports(u)'
    BY <2>0, <2>2, ContinueFrame, ContinueReports
  <2>3. CASE OtherStep
    BY <2>0, <2>3, OtherFrame DEF LocalState, request
  <2> QED BY <2>1, <2>2, <2>3, StepCases
<1> QED BY <1>1, <1>2, Invariance, PTL DEF Spec

\* With stores that do not fail, the session a login replaces is dead before
\* the credentials are looked at, and stays dead.
THEOREM Replacement == Spec => []ReplacedSessionIsDead
<1>1. Init => ReplacedSessionIsDead
  BY DEF Init, ReplacedSessionIsDead, LoginOps
<1>2. IInv /\ ReplacedSessionIsDead /\ [Next]_vars => ReplacedSessionIsDead'
  <2> DEFINE Replaced(u) == op[u] \in LoginOps /\ pc[u] # "replace" /\ ctx[u] # NoSession
                              => sstate[ctx[u]] = "dead"
  <2> SUFFICES ASSUME IInv, ReplacedSessionIsDead, [Next]_vars, ~StoreFaults, NEW u \in Threads
               PROVE  Replaced(u)'
    BY DEF ReplacedSessionIsDead
  <2>0. ASSUME op'[u] = op[u], ctx'[u] = ctx[u], pc[u] # "replace" \/ pc'[u] = "replace"
        PROVE  Replaced(u)'
    <3>1. CASE op[u] \in LoginOps /\ pc[u] # "replace" /\ ctx[u] # NoSession
      <4>1. ctx[u] \in Sessions /\ sstate[ctx[u]] = "dead"
        BY <3>1 DEF IInv, TypeOK, ReplacedSessionIsDead
      <4> QED BY <2>0, <4>1, DeadStaysDead
    <3> QED BY <2>0, <3>1
  <2>1. ASSUME NEW t \in Threads, Arrive(t) PROVE Replaced(u)'
    BY <2>0, <2>1, ArriveFrame DEF LocalState
  <2>2. ASSUME NEW t \in Threads, Continue(t) PROVE Replaced(u)'
    <3>1. CASE u # t
      BY <2>0, <2>2, <3>1, ContinueFrame DEF LocalState
    <3>2. CASE u = t /\ ReplaceSession(t)
      <4>1. ctx'[u] = ctx[u] /\ ctx[u] \in Sessions \cup {NoSession}
        BY <3>2 DEF IInv, TypeOK, ReplaceSession, request
      <4>2. ctx[u] \in Sessions => sstate'[ctx[u]] = "dead"
        <5>1. ctx[u] \in Sessions => sstate[ctx[u]] # "new"
          BY <3>2 DEF IInv, ThreadInv, ReplaceSession
        <5>2. \/ Live(ctx[u]) /\ sstate' = [sstate EXCEPT ![ctx[u]] = "dead"]
              \/ ~Live(ctx[u]) /\ sstate' = sstate
          BY <3>2 DEF ReplaceSession, EndSession
        <5> QED BY <5>1, <5>2 DEF IInv, TypeOK, Live
      <4> QED BY <4>1, <4>2
    <3>3. CASE u = t /\ ~ReplaceSession(t)
      <4>1. op'[u] = op[u] /\ pc[u] # "replace"
        BY <2>2, <3>3, ContinueFrame
           DEF Continue, CheckCredentials, ConfirmUser, InitiateSession, LoadSession,
               RequestAssertion, FindSession, InvalidateSession
      <4>2. op[u] \in LoginOps => ctx'[u] = ctx[u]
        BY <2>2, <3>3 DEF IInv, ThreadInv, Continue, CheckCredentials, ConfirmUser, InitiateSession,
           LoadSession, RequestAssertion, FindSession, InvalidateSession, request, LoginOps
      <4> QED BY <2>0, <4>1, <4>2
    <3> QED BY <3>1, <3>2, <3>3
  <2>3. CASE OtherStep
    BY <2>0, <2>3, OtherFrame DEF request
  <2> QED BY <2>1, <2>2, <2>3, StepCases
<1> QED BY <1>1, <1>2, Invariance, PTL DEF Spec

\* A logout success event belongs to the step that ends the session, so the
\* audit trail holds at most one per session, after its login's event.
THEOREM AuditTrailOrder == Spec => []AuditTrail
<1>1. Init => AuditTrail
  BY DEF Init, AuditTrail
<1>2. IInv /\ AuditTrail /\ [Next]_vars => AuditTrail'
  <2> SUFFICES ASSUME IInv, AuditTrail, [Next]_vars, NEW s \in Sessions, signoffs'[s] > 0
               PROVE  signoffs'[s] = 1 /\ s \in reported' /\ sstate'[s] = "dead"
    BY DEF AuditTrail
  <2>0. ASSUME signoffs'[s] = signoffs[s], reported \subseteq reported'
        PROVE  signoffs'[s] = 1 /\ s \in reported' /\ sstate'[s] = "dead"
    BY <2>0, DeadStaysDead DEF AuditTrail
  <2>1. ASSUME NEW t \in Threads, Arrive(t)
        PROVE  signoffs'[s] = 1 /\ s \in reported' /\ sstate'[s] = "dead"
    BY <2>0, <2>1, ArriveFrame DEF audit
  <2>2. ASSUME NEW t \in Threads, InvalidateSession(t)
        PROVE  signoffs'[s] = 1 /\ s \in reported' /\ sstate'[s] = "dead"
    <3>1. CASE UNCHANGED signoffs
      BY <2>0, <2>2, <3>1 DEF InvalidateSession
    <3>2. CASE /\ Live(sid[t])
               /\ EndSession(sid[t])
               /\ signoffs' = [signoffs EXCEPT ![sid[t]] = @ + 1]
      <4>1. sid[t] \in reported /\ reported' = reported /\ NoSession \notin Sessions
        BY <2>2, <3>2, GatewayAssumption
        DEF IInv, TypeOK, Circulation, ThreadInv, Live, InvalidateSession
      <4>2. CASE s # sid[t]
        BY <2>0, <3>2, <4>1, <4>2 DEF IInv, TypeOK
      <4>3. CASE s = sid[t]
        <5>1. signoffs[s] \in Nat /\ sstate[s] # "dead"
          BY <3>2, <4>3 DEF IInv, TypeOK, Live
        <5>2. ~(signoffs[s] > 0)
          BY <5>1 DEF AuditTrail
        <5>3. signoffs'[s] = signoffs[s] + 1 /\ sstate'[s] = "dead"
          BY <3>2, <4>3 DEF IInv, TypeOK, EndSession
        <5> QED BY <4>1, <4>3, <5>1, <5>2, <5>3
      <4> QED BY <4>2, <4>3
    <3> QED BY <2>2, <3>1, <3>2 DEF InvalidateSession
  <2>3. ASSUME NEW t \in Threads, Continue(t), ~InvalidateSession(t)
        PROVE  signoffs'[s] = 1 /\ s \in reported' /\ sstate'[s] = "dead"
    <3>1. signoffs' = signoffs /\ reported \subseteq reported'
      BY <2>3 DEF Continue, ReplaceSession, CheckCredentials, ConfirmUser, InitiateSession,
         LoadSession, RequestAssertion, FindSession, LoginFailed, audit
    <3> QED BY <2>0, <3>1
  <2>4. CASE OtherStep
    BY <2>0, <2>4, OtherFrame
  <2> QED BY <2>1, <2>2, <2>3, <2>4, StepCases
<1> QED BY <1>1, <1>2, Invariance, PTL DEF Spec

\* The answer of a sign-off whose thread makes a call: "done" only from an
\* invalidation, and then the session is dead, whoever ended it.
LEMMA ContinueSignsOff ==
    ASSUME IInv, NEW t \in Threads, Continue(t), answer'[t] = "done", sid'[t] # NoSession
    PROVE  sstate'[sid'[t]] = "dead"
<1>1. answer[t] = "pending" /\ pc[t] # "idle"
  BY ContinueFrame DEF IInv, ThreadInv
<1>2. InvalidateSession(t)
  BY <1>1 DEF IInv, TypeOK, Continue, ReplaceSession, CheckCredentials, ConfirmUser, InitiateSession,
     LoadSession, RequestAssertion, FindSession, LoginFailed, Goto, Return
<1>3. sid' = sid /\ sid[t] \in Sessions /\ sstate[sid[t]] # "new"
  BY <1>2 DEF IInv, TypeOK, Circulation, ThreadInv, InvalidateSession
<1>4. CASE Live(sid[t]) /\ EndSession(sid[t])
  BY <1>3, <1>4 DEF IInv, TypeOK, EndSession
<1>5. CASE ~Live(sid[t]) /\ UNCHANGED sstate
  BY <1>3, <1>5 DEF IInv, TypeOK, Live
<1>6. CASE Return(t, "error")
  BY <1>6 DEF IInv, TypeOK, Return
<1> QED BY <1>2, <1>4, <1>5, <1>6 DEF InvalidateSession

\* A sign-off that returned normally has left its session dead for good.
THEOREM SignoffIsFinal == Spec => []SignoffEndsSession
<1>1. Init => SignoffEndsSession
  BY DEF Init, SignoffEndsSession
<1>2. IInv /\ SignoffEndsSession /\ [Next]_vars => SignoffEndsSession'
  <2> DEFINE Ended(u) == op[u] \in {"globalSignoff", "logout"} /\ answer[u] = "done"
                           /\ sid[u] # NoSession => sstate[sid[u]] = "dead"
  <2> SUFFICES ASSUME IInv, SignoffEndsSession, [Next]_vars, NEW u \in Threads PROVE Ended(u)'
    BY DEF SignoffEndsSession
  <2>0. ASSUME UNCHANGED <<op[u], answer[u], sid[u]>> PROVE Ended(u)'
    <3>1. CASE op[u] \in {"globalSignoff", "logout"} /\ answer[u] = "done" /\ sid[u] # NoSession
      <4>1. sid[u] \in Sessions /\ sstate[sid[u]] = "dead"
        BY <3>1 DEF IInv, TypeOK, SignoffEndsSession
      <4> QED BY <2>0, <4>1, DeadStaysDead
    <3> QED BY <2>0, <3>1
  <2>1. ASSUME NEW t \in Threads, Arrive(t) PROVE Ended(u)'
    BY <2>0, <2>1, ArriveFrame DEF LocalState
  <2>2. ASSUME NEW t \in Threads, Continue(t) PROVE Ended(u)'
    BY <2>0, <2>2, ContinueFrame, ContinueSignsOff DEF LocalState
  <2>3. CASE OtherStep
    BY <2>0, <2>3, OtherFrame DEF request
  <2> QED BY <2>1, <2>2, <2>3, StepCases
<1> QED BY <1>1, <1>2, Invariance, PTL DEF Spec

\* With stores that do not fail, a live session is reported or about to be
\* read back by the login that opened it.
THEOREM Silence == Spec => []NoSilentSession
<1>1. Init => NoSilentSession
  BY DEF Init, NoSilentSession, Live
<1>2. IInv /\ NoSilentSession /\ [Next]_vars => NoSilentSession'
  <2> DEFINE Heard(s) == s \in reported \/ \E t \in Threads : pc[t] = "load" /\ sid[t] = s
  <2> SUFFICES ASSUME IInv, NoSilentSession, [Next]_vars, ~StoreFaults,
                      NEW s \in Sessions, Live(s)'
               PROVE  Heard(s)'
    BY DEF NoSilentSession
  <2>1. ASSUME Live(s), reported \subseteq reported',
               \A t \in Threads : pc[t] = "load" => pc'[t] = pc[t] /\ sid'[t] = sid[t]
        PROVE  Heard(s)'
    BY <2>1 DEF NoSilentSession
  <2>2. ASSUME NEW t \in Threads, Arrive(t) PROVE Heard(s)'
    <3>1. Live(s) /\ reported' = reported
      BY <2>2, ArriveFrame DEF Live, stores, audit
    <3>2. pc[t] = "idle"
      BY <2>2 DEF Arrive, BeginLogin, BeginAssertSession, BeginGlobalSignoff, BeginLogout, Begin
    <3> QED BY <2>1, <2>2, <3>1, <3>2, ArriveFrame DEF LocalState
  <2>3. ASSUME NEW t \in Threads, Continue(t), pc[t] \notin {"initiate", "load"} PROVE Heard(s)'
    <3>1. Live(s) /\ reported' = reported
      BY <2>3 DEF IInv, TypeOK, Continue, ReplaceSession, CheckCredentials, ConfirmUser,
         InitiateSession, LoadSession, RequestAssertion, FindSession, InvalidateSession, LoginFailed,
         EndSession, Live, stores, audit
    <3> QED BY <2>1, <2>3, <3>1, ContinueFrame DEF LocalState
  <2>4. ASSUME NEW t \in Threads, InitiateSession(t) PROVE Heard(s)'
    <3>1. CASE LoginFailed(t)
      <4>1. Live(s) /\ reported' = reported /\ pc[t] = "initiate"
        BY <2>4, <3>1 DEF InitiateSession, LoginFailed, Live, stores, audit
      <4> QED BY <2>1, <2>4, <4>1, ContinueFrame DEF Continue, LocalState
    <3>2. ASSUME NEW x \in Sessions, sstate' = [sstate EXCEPT ![x] = "live"],
                 sid' = [sid EXCEPT ![t] = x], Goto(t, "load"), UNCHANGED audit
          PROVE  Heard(s)'
      <4>1. CASE s = x
        BY <3>2, <4>1 DEF IInv, TypeOK, Goto
      <4>2. CASE s # x
        <5>1. Live(s) /\ reported' = reported /\ pc[t] = "initiate"
          BY <2>4, <3>2, <4>2 DEF IInv, TypeOK, InitiateSession, Live, audit
        <5> QED BY <2>1, <2>4, <5>1, ContinueFrame DEF Continue, LocalState
      <4> QED BY <4>1, <4>2
    <3> QED BY <2>4, <3>1, <3>2 DEF InitiateSession
  <2>5. ASSUME NEW t \in Threads, LoadSession(t) PROVE Heard(s)'
    <3>1. pc[t] = "load" /\ UNCHANGED <<stores, sid>> /\ reported \subseteq reported'
      BY <2>5 DEF LoadSession, LoginFailed, audit
    <3>2. Live(s)
      BY <3>1 DEF Live, stores
    <3>3. s = sid[t] => s \in reported'
      BY <2>5, <3>2 DEF LoadSession
    <3>4. \A u \in Threads \ {t} : pc'[u] = pc[u]
      BY <2>5, ContinueFrame DEF Continue, LocalState
    <3> QED BY <3>1, <3>2, <3>3, <3>4 DEF NoSilentSession
  <2>6. CASE OtherStep
    <3>1. Live(s)
      BY <2>6 DEF IInv, TypeOK, OtherStep, ResolveAuthenticationAssertion, LapseAssertion,
         ExpireSession, EndSession, Live, vars, stores
    <3> QED BY <2>1, <2>6, <3>1, OtherFrame
  <2>7. ASSUME NEW t \in Threads, Continue(t) PROVE Heard(s)'
    BY <2>3, <2>4, <2>5, <2>7
    DEF Continue, ReplaceSession, CheckCredentials, ConfirmUser, RequestAssertion, FindSession,
        InvalidateSession
  <2> QED BY <2>2, <2>6, <2>7, StepCases
<1> QED BY <1>1, <1>2, Invariance, PTL DEF Spec

----------------------------------------------------------------------------
(* A login that gave its caller an error and the session it had opened: the *)
(* session belongs to the thread alone, from the time it is opened.        *)

\* No one but thread u can name the session it has opened.
Opened(u) ==
    op[u] \in LoginOps /\ sid[u] # NoSession /\ (pc[u] \in {"load", "request"} \/ answer[u] = "error")

Shut(s) ==
    /\ sstate[s] # "new" /\ s \notin known /\ signoffs[s] = 0
    /\ \A a \in Assertions : bound[a] # s

Private(u) ==
    /\ pc[u] \in {"replace", "check", "exists", "initiate"} => sid[u] = NoSession
    /\ pc[u] = "request" /\ op[u] = "assertSession" => sid[u] \in known
    /\ Opened(u) => Shut(sid[u])

Apart == \A u, w \in Threads : u # w /\ Opened(u) /\ Opened(w) => sid[u] # sid[w]

ShutInv == IInv /\ AuditTrail /\ Apart /\ \A u \in Threads : Private(u)

\* A call touches no session but the one at hand ...
LEMMA CallShut ==
    ASSUME ShutInv, NEW t \in Threads, Continue(t), NEW s \in Sessions, Shut(s), s # sid[t]
    PROVE  Shut(s)'
<1>1. sstate'[s] # "new" /\ signoffs'[s] = 0
  BY DEF ShutInv, IInv, TypeOK, Shut, Continue, ReplaceSession, CheckCredentials, ConfirmUser,
     InitiateSession, LoadSession, RequestAssertion, FindSession, InvalidateSession, LoginFailed,
     EndSession, Live, stores, audit
<1>2. known' \subseteq known \cup {sid[t]}
  BY DEF Continue, ReplaceSession, CheckCredentials, ConfirmUser, InitiateSession, LoadSession,
     RequestAssertion, FindSession, InvalidateSession, LoginFailed
<1>3. bound' = bound \/ \E a \in Assertions : bound' = [bound EXCEPT ![a] = sid[t]]
  BY DEF Continue, ReplaceSession, CheckCredentials, ConfirmUser, InitiateSession, LoadSession,
     RequestAssertion, FindSession, InvalidateSession, LoginFailed, stores
<1>4. \A a \in Assertions : bound'[a] # s
  BY <1>3 DEF ShutInv, IInv, TypeOK, Shut
<1> QED BY <1>1, <1>2, <1>4 DEF Shut

\* ... which another thread's login has not opened.
LEMMA NotAtHand ==
    ASSUME ShutInv, NEW t \in Threads, NEW u \in Threads, u # t, Continue(t), Opened(u)
    PROVE  sid[u] \in Sessions /\ sid[u] # sid[t]
<1>1. sid[u] \in Sessions /\ sid[u] \notin known
  BY DEF ShutInv, IInv, TypeOK, Private, Opened, Shut
<1>2. CASE pc[t] \in {"replace", "check", "exists", "initiate"}
  BY <1>1, <1>2, GatewayAssumption DEF ShutInv, Private
<1>3. CASE pc[t] \in {"load", "request"} /\ op[t] \in LoginOps
  <2>1. sid[t] # NoSession
    BY <1>3, GatewayAssumption DEF ShutInv, IInv, TypeOK, ThreadInv
  <2> QED BY <1>1, <1>3, <2>1 DEF ShutInv, Apart, Opened
<1>4. CASE pc[t] = "request" /\ op[t] = "assertSession"
  BY <1>1, <1>4 DEF ShutInv, Private
<1>5. CASE pc[t] \in {"find", "invalidate"}
  BY <1>1, <1>5, GatewayAssumption DEF ShutInv, IInv, ThreadInv
<1>6. pc[t] # "idle"
  BY ContinueFrame DEF ShutInv
<1> QED BY <1>1, <1>2, <1>3, <1>4, <1>5, <1>6 DEF ShutInv, IInv, TypeOK, ThreadInv, Calls

\* What a call makes of its own thread.
LEMMA CallPrivate ==
    ASSUME ShutInv, NEW t \in Threads, Continue(t)
    PROVE  /\ Private(t)'
           /\ Opened(t)' => (Opened(t) /\ sid'[t] = sid[t]) \/ sstate[sid'[t]] = "new"
<1> DEFINE Goal == /\ Private(t)'
                   /\ Opened(t)' => (Opened(t) /\ sid'[t] = sid[t]) \/ sstate[sid'[t]] = "new"
<1>0. TypeOK /\ ThreadInv(t) /\ Private(t)
  BY DEF ShutInv, IInv
<1>1. CASE pc[t] \in {"replace", "check", "exists"}
  <2>1. sid[t] = NoSession /\ sid' = sid /\ pc'[t] \in {"check", "exists", "initiate", "idle"}
    BY <1>0, <1>1 DEF Private, TypeOK, Continue, ReplaceSession, CheckCredentials, ConfirmUser, InitiateSession,
       LoadSession, RequestAssertion, FindSession, InvalidateSession, LoginFailed, Goto, Return
  <2> QED BY <2>1 DEF Private, Opened
<1>2. CASE InitiateSession(t)
  <2>1. CASE LoginFailed(t)
    <3>1. sid[t] = NoSession /\ sid' = sid /\ pc'[t] = "idle"
      BY <1>0, <1>2, <2>1 DEF Private, TypeOK, InitiateSession, LoginFailed, Return
    <3> QED BY <3>1 DEF Private, Opened
  <2>2. ASSUME NEW s \in Sessions, sstate[s] = "new", sstate' = [sstate EXCEPT ![s] = "live"],
               sid' = [sid EXCEPT ![t] = s], Goto(t, "load"),
               UNCHANGED <<astate, bound, audit, known, fired>>
        PROVE  Goal
    <3>1. sid'[t] = s /\ pc'[t] = "load" /\ sstate'[s] = "live"
      BY <1>0, <2>2 DEF TypeOK, Goto
    <3>2. s \notin reported
      BY <2>2 DEF ShutInv, IInv, Circulation
    <3>3. s \notin known /\ \A a \in Assertions : bound[a] # s
      BY <1>0, <3>2, GatewayAssumption DEF ShutInv, IInv, TypeOK, Circulation
    <3>4. signoffs[s] = 0
      BY <1>0, <3>2 DEF ShutInv, AuditTrail, TypeOK
    <3>5. Shut(s)'
      BY <2>2, <3>1, <3>3, <3>4 DEF Shut, audit
    <3> QED BY <2>2, <3>1, <3>5 DEF Private
  <2> QED BY <1>2, <2>1, <2>2 DEF InitiateSession
<1>3. CASE LoadSession(t)
  <2>0. pc[t] = "load" /\ op[t] \in LoginOps /\ sid[t] \in Sessions /\ sid[t] # NoSession /\ Opened(t) /\ Shut(sid[t])
    BY <1>0, <1>3, GatewayAssumption DEF LoadSession, ThreadInv, Private, Opened
  <2>1. sid' = sid /\ op' = op /\ UNCHANGED stores /\ signoffs' = signoffs
    BY <1>3 DEF LoadSession, LoginFailed, request, audit
  <2>2. \/ pc'[t] = "idle" /\ answer'[t] = "session"
        \/ pc'[t] \in {"idle", "request"} /\ known' = known
    BY <1>0, <1>3 DEF LoadSession, LoginFailed, Goto, Return, TypeOK
  <2>3. CASE pc'[t] = "idle" /\ answer'[t] = "session"
    BY <2>3 DEF Private, Opened
  <2>4. CASE pc'[t] \in {"idle", "request"} /\ known' = known
    <3>1. Shut(sid[t])'
      BY <2>0, <2>1, <2>4 DEF Shut, stores
    <3>2. op[t] # "assertSession"
      BY <2>0 DEF LoginOps
    <3> QED BY <2>0, <2>1, <2>4, <3>1, <3>2 DEF Private, Shut
  <2> QED BY <2>2, <2>3, <2>4
<1>4. CASE RequestAssertion(t)
  <2>1. pc[t] = "request" /\ sid' = sid /\ op' = op /\ pc'[t] = "idle"
    BY <1>0, <1>4 DEF RequestAssertion, request, Return, TypeOK
  <2>2. answer'[t] = "assertion" \/ UNCHANGED <<sstate, bound, known, signoffs>>
    BY <1>0, <1>4 DEF RequestAssertion, Return, TypeOK, audit
  <2>3. Opened(t)' => Opened(t)
    BY <2>1 DEF Opened
  <2>4. Opened(t)' => Shut(sid[t])'
    BY <1>0, <2>1, <2>2, <2>3 DEF Opened, Private, Shut
  <2> QED BY <2>1, <2>3, <2>4 DEF Private, Shut
<1>5. CASE FindSession(t) \/ InvalidateSession(t)
  <2>1. op' = op /\ op[t] \notin LoginOps /\ sid' = sid
    BY <1>0, <1>5 DEF FindSession, InvalidateSession, ThreadInv, LoginOps, request
  <2>2. \/ pc'[t] \in {"idle", "invalidate"}
        \/ pc'[t] = "request" /\ sid[t] \in known /\ known' = known
    BY <1>0, <1>5 DEF FindSession, InvalidateSession, ThreadInv, Goto, Return, TypeOK
  <2> QED BY <2>1, <2>2 DEF Private, Opened
<1> QED
  BY <1>1, <1>2, <1>3, <1>4, <1>5 DEF Continue, ReplaceSession, CheckCredentials, ConfirmUser

LEMMA CallShutInv ==
    ASSUME ShutInv, NEW t \in Threads, Continue(t)
    PROVE  Apart' /\ \A u \in Threads : Private(u)'
<1>1. ASSUME NEW u \in Threads, u # t
      PROVE  /\ Private(u)'
             /\ Opened(u)' = Opened(u) /\ sid'[u] = sid[u]
             /\ Opened(u) => sid[u] \in Sessions /\ sid[u] # sid[t] /\ sstate[sid[u]] # "new"
  <2>1. UNCHANGED LocalState(u)
    BY <1>1, ContinueFrame DEF ShutInv
  <2>2. Opened(u)' = Opened(u) /\ sid'[u] = sid[u] /\ pc'[u] = pc[u] /\ op'[u] = op[u]
    BY <2>1 DEF LocalState, Opened
  <2>3. Opened(u) => sid[u] \in Sessions /\ sid[u] # sid[t] /\ sstate[sid[u]] # "new" /\ Shut(sid[u])'
    <3> SUFFICES ASSUME Opened(u)
                 PROVE  sid[u] \in Sessions /\ sid[u] # sid[t] /\ sstate[sid[u]] # "new" /\ Shut(sid[u])'
      OBVIOUS
    <3>1. sid[u] \in Sessions /\ sid[u] # sid[t] /\ Shut(sid[u])
      BY <1>1, NotAtHand DEF ShutInv, Private
    <3>2. \A s \in Sessions : Shut(s) /\ s # sid[t] => Shut(s)'
      BY CallShut
    <3>3. \A s \in Sessions : s = sid[u] => (s = sid[u])'
      BY <2>2
    <3>4. \A s \in Sessions : s = sid[u] => Shut(sid[u])'
      BY <3>1, <3>2, <3>3 DEF Shut
    <3> QED BY <3>1, <3>4 DEF Shut
  <2>4. known \subseteq known'
    BY DEF Continue, ReplaceSession, CheckCredentials, ConfirmUser, InitiateSession, LoadSession,
       RequestAssertion, FindSession, InvalidateSession, LoginFailed
  <2>5. (Opened(u) => Shut(sid[u])')
    BY <2>3
  <2>6. Private(u)
    BY DEF ShutInv
  <2> QED BY <2>2, <2>3, <2>4, <2>5, <2>6 DEF Private, Shut
<1>2. \A u \in Threads : Private(u)'
  BY <1>1, CallPrivate
<1>3. ASSUME NEW u \in Threads, NEW w \in Threads, u # w, Opened(u)', Opened(w)'
      PROVE  sid'[u] # sid'[w]
  <2>1. CASE u # t /\ w # t
    BY <1>1, <1>3, <2>1 DEF ShutInv, Apart
  <2>2. CASE u = t
    BY <1>1, <1>3, <2>2, CallPrivate
  <2>3. CASE w = t
    BY <1>1, <1>3, <2>3, CallPrivate
  <2> QED BY <2>1, <2>2, <2>3
<1> QED BY <1>2, <1>3 DEF Apart

LEMMA ArriveShutInv ==
    ASSUME ShutInv, NEW t \in Threads, Arrive(t)
    PROVE  Apart' /\ \A u \in Threads : Private(u)'
<1>1. ~Opened(t)' /\ Private(t)'
  BY DEF ShutInv, IInv, TypeOK, Arrive, BeginLogin, BeginAssertSession, BeginGlobalSignoff, BeginLogout, Begin,
     Opened, Private, LoginOps
<1>2. ASSUME NEW u \in Threads, u # t
      PROVE  Private(u)' /\ Opened(u)' = Opened(u) /\ sid'[u] = sid[u]
  <2>1. UNCHANGED LocalState(u) /\ UNCHANGED <<stores, audit, known>>
    BY <1>2, ArriveFrame DEF ShutInv
  <2>2. Private(u)
    BY DEF ShutInv
  <2> QED BY <2>1, <2>2 DEF LocalState, stores, audit, Private, Opened, Shut
<1> QED BY <1>1, <1>2 DEF ShutInv, Apart

LEMMA OtherShutInv ==
    ASSUME ShutInv, OtherStep
    PROVE  Apart' /\ \A u \in Threads : Private(u)'
<1>1. UNCHANGED <<pc, op, sid, answer, signoffs>>
  BY OtherFrame DEF request
<1>2. /\ bound' = bound /\ known \subseteq known'
      /\ known' = known \/ \E a \in Assertions : known' = known \cup {bound[a]}
      /\ \A s \in Sessions : sstate'[s] = "new" => sstate[s] = "new"
  BY DEF ShutInv, IInv, TypeOK, OtherStep, ResolveAuthenticationAssertion, LapseAssertion, ExpireSession,
     EndSession, vars, stores
<1>3. ASSUME NEW u \in Threads PROVE Private(u)' /\ Opened(u)' = Opened(u)
  <2>1. Private(u) /\ sid[u] \in Sessions \cup {NoSession}
    BY DEF ShutInv, IInv, TypeOK
  <2>2. Opened(u)' = Opened(u)
    BY <1>1 DEF Opened
  <2>3. Opened(u) => Shut(sid[u])'
    BY <1>1, <1>2, <2>1 DEF Private, Shut, Opened
  <2> QED BY <1>1, <1>2, <2>1, <2>2, <2>3 DEF Private, Shut
<1> QED BY <1>1, <1>3 DEF ShutInv, Apart

\* Of a session whose login gave its caller an error nothing leaves the gateway,
\* whatever other requests do before and after, for any number of threads.
THEOREM FailedLoginStaysShut == Spec => []FailedLoginIsShut
<1>1. Init => Apart /\ \A u \in Threads : Private(u)
  BY DEF Init, Apart, Private, Opened, LoginOps
<1>2. IInv /\ AuditTrail /\ Apart /\ (\A u \in Threads : Private(u)) /\ [Next]_vars
        => Apart' /\ \A u \in Threads : Private(u)'
  BY StepCases, ArriveShutInv, CallShutInv, OtherShutInv DEF ShutInv
<1>3. (\A u \in Threads : Private(u)) => FailedLoginIsShut
  BY DEF Private, Opened, Shut, FailedLoginIsShut
<1> DEFINE P == Apart /\ \A u \in Threads : Private(u)
<1>4. Init => P
  BY <1>1
<1>5. IInv /\ AuditTrail /\ P /\ [Next]_vars => P'
  BY <1>2
<1>6. P => FailedLoginIsShut
  BY <1>3
<1> HIDE DEF P
<1> QED BY <1>4, <1>5, <1>6, Invariance, AuditTrailOrder, PTL DEF Spec

----------------------------------------------------------------------------
(* Refinement: every call of a thread is a step of SSOTickets or changes    *)
(* nothing SSOTickets speaks of.                                           *)

LEMMA ContinueImplements ==
    ASSUME IInv, NEW t \in Threads, Continue(t) PROVE T!Next \/ UNCHANGED T!vars
<1>0. ASSUME UNCHANGED <<stores, audit, known>> PROVE UNCHANGED T!vars
  BY <1>0 DEF T!vars, stores, audit
<1>1. CASE ReplaceSession(t)
  <2>1. CASE UNCHANGED sstate
    BY <1>1, <2>1 DEF ReplaceSession, T!vars, audit
  <2>2. CASE Live(ctx[t]) /\ EndSession(ctx[t])
    <3>1. T!End(ctx[t])
      BY <1>1, <2>2 DEF ReplaceSession, EndSession, Live, T!End, audit
    <3> QED BY <2>2, <3>1 DEF T!Next, Live
  <2> QED BY <1>1, <2>1, <2>2 DEF ReplaceSession
<1>2. CASE CheckCredentials(t) \/ ConfirmUser(t) \/ FindSession(t)
  BY <1>0, <1>2 DEF CheckCredentials, ConfirmUser, FindSession, LoginFailed
<1>3. CASE InitiateSession(t)
  <2>1. CASE LoginFailed(t)
    BY <1>0, <2>1 DEF LoginFailed
  <2>2. ASSUME NEW s \in Sessions, sstate[s] = "new",
               sstate' = [sstate EXCEPT ![s] = "live"], owner' = [owner EXCEPT ![s] = user[t]],
               UNCHANGED <<astate, bound, audit, known>>
        PROVE  T!Next
    <3>1. T!Open(s, user[t])
      BY <2>2 DEF T!Open, audit
    <3>2. user[t] \in Users
      BY <1>3 DEF IInv, ThreadInv, InitiateSession
    <3> QED BY <3>1, <3>2 DEF T!Next
  <2> QED BY <1>3, <2>1, <2>2 DEF InitiateSession
<1>4. CASE LoadSession(t)
  <2>1. CASE LoginFailed(t)
    BY <1>0, <2>1 DEF LoginFailed
  <2>2. CASE ~LoginFailed(t)
    <3>1. sid[t] \in Sessions \ reported
      BY <1>4 DEF IInv, ThreadInv, LoadSession
    <3>2. T!Report(sid[t])
      BY <1>4, <2>2, <3>1 DEF LoadSession, Live, T!Report, stores
    <3> QED BY <3>1, <3>2 DEF T!Next
  <2> QED BY <2>1, <2>2
<1>5. CASE RequestAssertion(t)
  <2>1. CASE UNCHANGED <<astate, bound, known>>
    BY <1>5, <2>1 DEF RequestAssertion, T!vars, audit
  <2>2. ASSUME NEW a \in Assertions, astate[a] = "new",
               astate' = [astate EXCEPT ![a] = "issued"], bound' = [bound EXCEPT ![a] = sid[t]],
               known' \in {known, known \cup {sid[t]}}, UNCHANGED <<sstate, owner, audit>>
        PROVE  T!Next
    <3>1. sid[t] \in reported /\ sid[t] \in Sessions
      BY <1>5 DEF IInv, TypeOK, ThreadInv, RequestAssertion
    <3>2. T!Issue(a, sid[t])
      BY <2>2, <3>1 DEF T!Issue, audit
    <3> QED BY <3>1, <3>2 DEF T!Next
  <2> QED BY <1>5, <2>1, <2>2 DEF RequestAssertion
<1>6. CASE InvalidateSession(t)
  <2>1. CASE UNCHANGED sstate
    BY <1>6, <2>1 DEF InvalidateSession, T!vars
  <2>2. CASE Live(sid[t]) /\ EndSession(sid[t])
    <3>1. T!End(sid[t])
      BY <1>6, <2>2 DEF InvalidateSession, EndSession, Live, T!End
    <3> QED BY <2>2, <3>1 DEF T!Next, Live
  <2> QED BY <1>6, <2>1, <2>2 DEF InvalidateSession
<1> QED BY <1>1, <1>2, <1>3, <1>4, <1>5, <1>6 DEF Continue

LEMMA OtherImplements ==
    ASSUME IInv, OtherStep PROVE T!Next \/ UNCHANGED T!vars
<1>1. ASSUME NEW a \in Assertions, ResolveAuthenticationAssertion(a) PROVE T!Next
  <2>1. T!Redeem(a)
    BY <1>1 DEF ResolveAuthenticationAssertion, T!Redeem, audit
  <2> QED BY <2>1 DEF T!Next
<1>2. ASSUME NEW a \in Assertions, LapseAssertion(a) PROVE T!Next
  <2>1. T!Lapse(a)
    BY <1>2 DEF LapseAssertion, T!Lapse, audit
  <2> QED BY <2>1 DEF T!Next
<1>3. ASSUME NEW s \in Sessions, ExpireSession(s) PROVE T!Next
  <2>1. T!End(s)
    BY <1>3 DEF ExpireSession, EndSession, Live, T!End, audit
  <2> QED BY <2>1 DEF T!Next
<1>4. CASE UNCHANGED vars
  BY <1>4 DEF vars, stores, audit, T!vars
<1> QED BY <1>1, <1>2, <1>3, <1>4 DEF OtherStep

\* The gateway implements the ticket specification, for every number of
\* threads, users, sessions and assertions.
THEOREM Implementation == Spec => ImplementsTickets
<1>1. Init => T!Init
  BY DEF Init, T!Init
<1>2. IInv /\ [Next]_vars => [T!Next]_T!vars
  <2> SUFFICES ASSUME IInv, [Next]_vars PROVE T!Next \/ UNCHANGED T!vars
    OBVIOUS
  <2>1. ASSUME NEW t \in Threads, Arrive(t) PROVE UNCHANGED T!vars
    BY <2>1, ArriveFrame DEF T!vars, stores, audit
  <2> QED BY <2>1, ContinueImplements, OtherImplements, StepCases
<1> QED BY <1>1, <1>2, Invariance, PTL DEF Spec, ImplementsTickets, T!Spec
=============================================================================
