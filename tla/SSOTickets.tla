----------------------------- MODULE SSOTickets -----------------------------
(***************************************************************************)
(* What the sign-on gateway promises to the applications that rely on it,  *)
(* without saying how: a session is opened once, for one user, and once    *)
(* ended never returns; an authentication assertion (a "ticket") is bound  *)
(* to one session, only to a session whose login has been reported to the  *)
(* audit trail, and is turned into the session identifier at most once;    *)
(* and no identifier leaves the gateway before that report.                *)
(* SSOGateway implements this module.                                      *)
(***************************************************************************)
CONSTANTS
    Users,          \* the user names that may log in
    Sessions,       \* the session identifiers
    Assertions,     \* the assertion identifiers
    NoUser,         \* the owner of a session that was never opened
    NoSession       \* the session of an assertion that was never issued

VARIABLES
    sstate,         \* sstate[s]   \in {"new", "live", "dead"}
    owner,          \* owner[s]    \in Users \cup {NoUser}
    reported,       \* the sessions whose login the audit trail has recorded
    known,          \* the session identifiers handed out to the outside
    astate,         \* astate[a]   \in {"new", "issued", "redeemed", "lapsed"}
    bound           \* bound[a]    \in Sessions \cup {NoSession}

vars == <<sstate, owner, reported, known, astate, bound>>

Init ==
    /\ sstate = [s \in Sessions |-> "new"]
    /\ owner = [s \in Sessions |-> NoUser]
    /\ reported = {}
    /\ known = {}
    /\ astate = [a \in Assertions |-> "new"]
    /\ bound = [a \in Assertions |-> NoSession]

Open(s, u) ==
    /\ sstate[s] = "new"
    /\ sstate' = [sstate EXCEPT ![s] = "live"]
    /\ owner' = [owner EXCEPT ![s] = u]
    /\ UNCHANGED <<reported, known, astate, bound>>

\* The login of a session is reported once, while the session is live; the
\* caller may be handed the session with it.
Report(s) ==
    /\ sstate[s] = "live"
    /\ s \notin reported
    /\ reported' = reported \cup {s}
    /\ known' \in {known, known \cup {s}}
    /\ UNCHANGED <<sstate, owner, astate, bound>>

End(s) ==
    /\ sstate[s] = "live"
    /\ sstate' = [sstate EXCEPT ![s] = "dead"]
    /\ UNCHANGED <<owner, reported, known, astate, bound>>

\* A ticket may be issued for a session that has ended in the meantime, never
\* for one that was not opened and reported.
Issue(a, s) ==
    /\ astate[a] = "new"
    /\ s \in reported
    /\ astate' = [astate EXCEPT ![a] = "issued"]
    /\ bound' = [bound EXCEPT ![a] = s]
    /\ known' \in {known, known \cup {s}}
    /\ UNCHANGED <<sstate, owner, reported>>

Redeem(a) ==
    /\ astate[a] = "issued"
    /\ astate' = [astate EXCEPT ![a] = "redeemed"]
    /\ known' = known \cup {bound[a]}
    /\ UNCHANGED <<sstate, owner, reported, bound>>

Lapse(a) ==
    /\ astate[a] = "issued"
    /\ astate' = [astate EXCEPT ![a] = "lapsed"]
    /\ UNCHANGED <<sstate, owner, reported, known, bound>>

Next ==
    \/ \E s \in Sessions, u \in Users : Open(s, u)
    \/ \E s \in Sessions : Report(s) \/ End(s)
    \/ \E a \in Assertions, s \in Sessions : Issue(a, s)
    \/ \E a \in Assertions : Redeem(a) \/ Lapse(a)

Spec == Init /\ [][Next]_vars
=============================================================================
