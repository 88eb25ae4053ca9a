----------------------------- MODULE RememberMe -----------------------------
(***************************************************************************)
(* Persistent remember-me logins of the security plugin: the rows that     *)
(* GormPersistentTokenRepository keeps, one for each series, and the       *)
(* requests that use them: a form login creates a series, an automatic     *)
(* login compares the cookie's token with the row's and replaces it, a     *)
(* logout removes all series of a user.  Spring's services are a library;  *)
(* each call of theirs into the repository is one transaction, that of     *)
(* updateToken a read and a later write.                                   *)
(*                                                                         *)
(* A browser sends the cookie it holds when a request begins and gets a    *)
(* new one with the response.  Browsers in Patient wait for the response   *)
(* to one request before they send the next, and get it; the others open   *)
(* several at once, and may lose a response.                               *)
(***************************************************************************)
CONSTANTS
    Threads,        \* threads that serve requests
    Browsers, Patient,
    Users, NoUser,
    Series,         \* identifiers of rows, never used twice
    Tokens,         \* the values a token may have; draws may repeat
    NoCookie,       \* the browser has none, or is told to drop it
    Unchanged       \* the response says nothing of the cookie

Cookies == Series \X Tokens

ASSUME RememberMeAssumption ==
    /\ Patient \subseteq Browsers
    /\ NoUser \notin Users
    /\ {NoCookie, Unchanged} \cap Cookies = {}
    /\ NoCookie # Unchanged

VARIABLES
    life,           \* "new", "present", or "removed": gone, or never saved
    username, token, \* the columns of row s
    cookie,         \* per browser: the cookie it holds
    who,            \* per browser: the user of its HTTP session
    pc,             \* per thread: what it does next
    browser, user,  \* per thread: who sent the request, the user it is about
    presented,      \* per thread: the cookie that came with the request
    reply,          \* per thread: what the response does to the cookie
    answer,         \* per thread: how its last request has ended
    current,        \* history, per thread: the cookie presented has been the row's
                    \* at some moment of the request
    before          \* history, per thread: the user's series when its request began

table == <<life, username, token>>
holders == <<cookie, who>>
request == <<browser, user, presented>>
history == <<current, before>>
vars == <<table, holders, pc, request, reply, answer, history>>

Present == {s \in Series : life[s] = "present"}
Held == Cookies \cup {NoCookie}
Answers == {"none", "pending", "accepted", "refused", "theft", "loggedOut", "error"}

TypeOK ==
    /\ life \in [Series -> {"new", "present", "removed"}]
    /\ username \in [Series -> Users \cup {NoUser}]
    /\ token \in [Series -> Tokens]
    /\ cookie \in [Browsers -> Held]
    /\ who \in [Browsers -> Users \cup {NoUser}]
    /\ pc \in [Threads -> {"idle", "create", "get", "remove", "update", "flush", "load",
                           "session", "respond"}]
    /\ browser \in [Threads -> Browsers]
    /\ user \in [Threads -> Users \cup {NoUser}]
    /\ presented \in [Threads -> Held]
    /\ reply \in [Threads -> Held \cup {Unchanged}]
    /\ answer \in [Threads -> Answers]
    /\ current \in [Threads -> BOOLEAN]
    /\ before \in [Threads -> SUBSET Series]
    /\ \A s \in Series : life[s] = "new" <=> username[s] = NoUser

Init ==
    /\ life = [s \in Series |-> "new"]
    /\ username = [s \in Series |-> NoUser]
    /\ token \in {[s \in Series |-> k] : k \in Tokens}
    /\ cookie = [b \in Browsers |-> NoCookie]
    /\ who = [b \in Browsers |-> NoUser]
    /\ pc = [t \in Threads |-> "idle"]
    /\ browser \in {[t \in Threads |-> b] : b \in Browsers}
    /\ user = [t \in Threads |-> NoUser]
    /\ presented = [t \in Threads |-> NoCookie]
    /\ reply = [t \in Threads |-> Unchanged]
    /\ answer = [t \in Threads |-> "none"]
    /\ current = [t \in Threads |-> FALSE]
    /\ before = [t \in Threads |-> {}]

----------------------------------------------------------------------------
(* Requests. *)

Goto(t, call) == pc' = [pc EXCEPT ![t] = call]

\* The response is decided: what became of the request, and the cookie.
Respond(t, a, c) ==
    /\ Goto(t, "respond")
    /\ answer' = [answer EXCEPT ![t] = a]
    /\ reply' = [reply EXCEPT ![t] = c]

\* In rows lf and tk, cookie c is the present token of its series.
Current(lf, tk, c) == c \in Cookies /\ lf[c[1]] = "present" /\ tk[c[1]] = c[2]

\* The rows become lf and tk, and the automatic logins under way note it.
Store(lf, tk) ==
    /\ life' = lf
    /\ token' = tk
    /\ current' = [t \in Threads |->
                    current[t] \/ (pc[t] # "idle" /\ Current(lf, tk, presented[t]))]

\* A patient browser has one request at a time.
Ready(b) == b \in Patient => \A t \in Threads : pc[t] # "idle" => browser[t] # b

Begin(t, b, u, c, call) ==
    /\ pc[t] = "idle"
    /\ Ready(b)
    /\ browser' = [browser EXCEPT ![t] = b]
    /\ user' = [user EXCEPT ![t] = u]
    /\ presented' = [presented EXCEPT ![t] = c]
    /\ reply' = [reply EXCEPT ![t] = Unchanged]
    /\ answer' = [answer EXCEPT ![t] = "pending"]
    /\ current' = [current EXCEPT ![t] = Current(life, token, c)]
    /\ before' = [before EXCEPT ![t] = {s \in Present : username[s] = u}]
    /\ Goto(t, call)
    /\ UNCHANGED <<table, holders>>

\* The login form with its box ticked, and the right password.
BeginLogin(t) ==
    \E b \in Browsers, u \in Users : Begin(t, b, u, NoCookie, "create")

\* A request that is not authenticated and has a cookie.
BeginAutoLogin(t) ==
    \E b \in Browsers :
        /\ who[b] = NoUser
        /\ cookie[b] # NoCookie
        /\ Begin(t, b, username[cookie[b][1]], cookie[b], "get")

\* MutableLogoutFilter for a browser that is logged in.
BeginLogout(t) ==
    \E b \in Browsers : who[b] # NoUser /\ Begin(t, b, who[b], NoCookie, "remove")

----------------------------------------------------------------------------
(* The repository's operations, with what Spring's services make of them.  *)

\* Mutant: the row does not say whose it is.
CreateNewTokenAnonymous(t) ==
    /\ pc[t] = "create"
    /\ \E s \in Series, k \in Tokens :
        /\ life[s] = "new"
        /\ Store([life EXCEPT ![s] = "present"], [token EXCEPT ![s] = k])
        /\ Respond(t, "accepted", <<s, k>>)
    /\ UNCHANGED <<username, holders, request, before>>

\* A row that does not validate is not saved, and nobody looks: the browser gets
\* a cookie of a series that is never there.  An error of the database leaves it
\* logged in without a cookie; when all of Series is used up, the model's bound,
\* that is what happens.
CreateNewToken(t) ==
    /\ pc[t] = "create"
    /\ UNCHANGED <<holders, request, before>>
    /\ \/ \E s \in Series, k \in Tokens, saved \in {"present", "removed"} :
            /\ life[s] = "new"
            /\ Store([life EXCEPT ![s] = saved], [token EXCEPT ![s] = k])
            /\ username' = [username EXCEPT ![s] = user[t]]
            /\ Respond(t, "accepted", <<s, k>>)
       \/ Respond(t, "accepted", Unchanged) /\ UNCHANGED <<table, current>>

\* Mutant: any token of the series will do.
GetTokenUnchecked(t) ==
    /\ pc[t] = "get"
    /\ UNCHANGED <<table, holders, request, history>>
    /\ \/ life[presented[t][1]] # "present" /\ Respond(t, "refused", NoCookie)
       \/ life[presented[t][1]] = "present" /\ Goto(t, "update") /\ UNCHANGED <<reply, answer>>

\* A series that is not there, or too old, refuses the cookie; a token that is
\* not the row's means that somebody else has used the series.
GetTokenForSeries(t) ==
    /\ pc[t] = "get"
    /\ UNCHANGED <<table, holders, request, history>>
    /\ LET found == life[presented[t][1]] = "present"
           same == token[presented[t][1]] = presented[t][2]
       IN \/ ~found /\ Respond(t, "refused", NoCookie)
          \/ found /\ ~same /\ Goto(t, "remove") /\ UNCHANGED <<reply, answer>>
          \/ found /\ same /\ Goto(t, "update") /\ UNCHANGED <<reply, answer>>
          \/ found /\ same /\ Respond(t, "refused", NoCookie)
          \/ Respond(t, "error", Unchanged)

\* A row that has gone since is passed over in silence.
UpdateToken(t) ==
    /\ pc[t] = "update"
    /\ UNCHANGED <<table, holders, request, history>>
    /\ \/ \E k \in Tokens :
            /\ reply' = [reply EXCEPT ![t] = <<presented[t][1], k>>]
            /\ Goto(t, IF presented[t][1] \in Present THEN "flush" ELSE "load")
            /\ UNCHANGED answer
       \/ Respond(t, "refused", NoCookie)

\* Mutant: the change is not written.
FlushTokenNever(t) ==
    /\ pc[t] = "flush"
    /\ Goto(t, "load")
    /\ UNCHANGED <<table, holders, request, reply, answer, history>>

\* Mutant: the row is merged, inserted again if it has gone.
FlushTokenMerged(t) ==
    /\ pc[t] = "flush"
    /\ LET s == presented[t][1] IN
        Store([life EXCEPT ![s] = "present"], [token EXCEPT ![s] = reply[t][2]])
    /\ Goto(t, "load")
    /\ UNCHANGED <<username, holders, request, reply, answer, before>>

\* The end of updateToken's transaction: the row is written, whatever its token
\* has become; if it has gone, or the database fails, that raises.
FlushToken(t) ==
    /\ pc[t] = "flush"
    /\ UNCHANGED <<username, holders, request, before>>
    /\ \/ /\ presented[t][1] \in Present
          /\ Store(life, [token EXCEPT ![presented[t][1]] = reply[t][2]])
          /\ Goto(t, "load")
          /\ UNCHANGED <<reply, answer>>
       \/ Respond(t, "refused", NoCookie) /\ UNCHANGED <<life, token, current>>

\* loadUserByUsername: the account may be gone or locked, and the query may
\* fail; by then the new cookie is in the response.
LoadUser(t) ==
    /\ pc[t] = "load"
    /\ UNCHANGED <<table, holders, request, history>>
    /\ \/ Respond(t, "accepted", reply[t])
       \/ Respond(t, "refused", NoCookie)
       \/ Respond(t, "error", reply[t])

\* All series of the user go: at once a logout's first handler, and what
\* follows the detection of a theft.
RemoveUserTokens(t) ==
    /\ pc[t] = "remove"
    /\ UNCHANGED <<holders, username, request, before>>
    /\ LET logout == presented[t] = NoCookie IN
       \/ /\ Store([s \in Series |-> IF username[s] = user[t] THEN "removed" ELSE life[s]], token)
          /\ \/ logout /\ Goto(t, "session") /\ UNCHANGED <<reply, answer>>
             \/ ~logout /\ Respond(t, "theft", NoCookie)
       \/ /\ Respond(t, "error", IF logout THEN NoCookie ELSE Unchanged)
          /\ UNCHANGED <<life, token, current>>

\* The second handler of a logout ends the HTTP session.
SecurityContextLogout(t) ==
    /\ pc[t] = "session"
    /\ who' = [who EXCEPT ![browser[t]] = NoUser]
    /\ Respond(t, "loggedOut", NoCookie)
    /\ UNCHANGED <<table, cookie, request, history>>

----------------------------------------------------------------------------
(* Browsers. *)

\* The browser gets the response, and with it a session if it was let in.
Receive(t) ==
    /\ pc[t] = "respond"
    /\ Goto(t, "idle")
    /\ cookie' = [cookie EXCEPT ![browser[t]] = IF reply[t] = Unchanged THEN @ ELSE reply[t]]
    /\ who' = [who EXCEPT ![browser[t]] = IF answer[t] = "accepted" THEN user[t] ELSE @]
    /\ UNCHANGED <<table, request, reply, answer, history>>

\* The response is lost.
Lose(t) ==
    /\ pc[t] = "respond"
    /\ browser[t] \notin Patient
    /\ Goto(t, "idle")
    /\ UNCHANGED <<table, holders, request, reply, answer, history>>

\* The HTTP session is over.
SessionTimeout(b) ==
    /\ who[b] # NoUser
    /\ who' = [who EXCEPT ![b] = NoUser]
    /\ UNCHANGED <<table, cookie, pc, request, reply, answer, history>>

----------------------------------------------------------------------------
Serve(t) ==
    \/ BeginLogin(t) \/ BeginAutoLogin(t) \/ BeginLogout(t)
    \/ CreateNewToken(t) \/ GetTokenForSeries(t) \/ UpdateToken(t) \/ FlushToken(t)
    \/ LoadUser(t) \/ RemoveUserTokens(t) \/ SecurityContextLogout(t)
    \/ Receive(t) \/ Lose(t)

Next ==
    \/ \E t \in Threads : Serve(t)
    \/ \E b \in Browsers : SessionTimeout(b)

Spec == Init /\ [][Next]_vars

----------------------------------------------------------------------------
(* Properties. *)

\* An automatic login that is accepted presented a cookie that was its row's
\* at some moment of the request, however updates and removals interleave.
AutoLoginsAreAtomic ==
    \A t \in Threads :
        answer[t] = "accepted" /\ presented[t] # NoCookie => current[t]

\* A browser that waits for its responses and gets them is never taken for a
\* thief, whatever fails and whatever other browsers of its user do.
PatientIsNoThief ==
    \A t \in Threads : browser[t] \in Patient => answer[t] # "theft"

\* Once a logout has ended the session, or a theft has been reported, every
\* series that the user had when the request began is gone for good, also if
\* an automatic login had read it before.
RevocationIsFinal ==
    \A t \in Threads : answer[t] \in {"loggedOut", "theft"} =>
        \A s \in before[t] : life[s] = "removed"
=============================================================================
