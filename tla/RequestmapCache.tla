--------------------------- MODULE RequestmapCache ---------------------------
(***************************************************************************)
(* The cache of access rules of the security plugin: the map _compiled of  *)
(* RequestmapFilterInvocationDefinition, filled from the Requestmap table, *)
(* searched by every web request without a lock and rebuilt in place, one  *)
(* entry at a time, by reset().  Administrators save single rules or call  *)
(* SpringSecurityService.updateRole and deleteRole; each of these resets   *)
(* the cache, deleteRole inside its database transaction.                  *)
(*                                                                         *)
(* A rule is the set of roles that may see the pages of one pattern; the   *)
(* empty set stands for "no rule".  Requests are for one URL: Hits are the *)
(* patterns that match it.  The table is read committed and its rows are   *)
(* versioned; the versions show up as stale rows.                          *)
(***************************************************************************)
EXTENDS Naturals, FiniteSets

CONSTANTS
    Readers,        \* threads that look up the rule of the URL
    Admins,         \* threads that change rules and roles
    NoThread,       \* nobody holds the monitor
    Patterns,       \* URL patterns
    NoPattern,      \* no candidate yet
    Hits,           \* the patterns that match the URL of the requests
    Covers,         \* <<p, q>>: the matcher says pattern p matches the text of q
    Roles,          \* role names
    Ops,            \* what administrators do: "save", "updateRole", "deleteRole"
    MaxEdits,       \* bound: how often they do it
    RejectIfNoRule, \* the setting of the same name
    Faults          \* TRUE: loading or compiling rules, or deleting a role, may fail

Threads == Readers \cup Admins

ASSUME CacheAssumption ==
    /\ Readers \cap Admins = {}
    /\ NoThread \notin Threads
    /\ NoPattern \notin Patterns
    /\ Hits \subseteq Patterns
    /\ Covers \subseteq Patterns \X Patterns
    /\ Ops \subseteq {"save", "updateRole", "deleteRole"}
    /\ MaxEdits \in Nat
    /\ {RejectIfNoRule, Faults} \subseteq BOOLEAN

VARIABLES
    db,             \* the committed Requestmap table: db[p] \subseteq Roles
    roles,          \* the committed role names
    compiled,       \* the cache: compiled[p] \subseteq Roles
    initialized,    \* _initialized
    lock,           \* the monitor of the definition object
    pc,             \* per thread: where it is
    data, todo,     \* per thread: what reset() loaded, the entries still to store
    op, role, newRole, \* per administrator: the operation and its arguments
    rows,           \* per administrator: rows changed in memory, not yet written
    stale,          \* per administrator: those another one has written since
    held,           \* per administrator: rows written in its open transaction
    seen, cand, found, \* per reader: patterns passed, best one so far, its rule
    torn,           \* per reader: the map changed under its iterator
    answer,         \* per reader: what getAttributes returned
    edits,          \* how many operations administrators have begun
    ruled,          \* history: every committed table had a rule for the URL
    byRole,         \* history: rows whose last writer was a role operation
    broken          \* history: the last reset to enter the monitor failed

table == <<db, roles, ruled, byRole>>
cache == <<compiled, initialized, torn, broken>>
rebuild == <<data, todo>>
session == <<op, role, newRole, rows, stale, held>>
scan == <<seen, cand, found, answer>>
vars == <<table, cache, lock, pc, rebuild, session, scan, edits>>

Rule == SUBSET Roles
NoRules == [p \in Patterns |-> {}]
Calls == {"idle", "enter", "flush", "clear", "fill", "mark", "scan", "grants"}
InReset == {"flush", "clear", "fill"}

TypeOK ==
    /\ {db, compiled} \subseteq [Patterns -> Rule]
    /\ roles \in SUBSET Roles
    /\ {initialized, ruled, broken} \subseteq BOOLEAN
    /\ lock \in Threads \cup {NoThread}
    /\ pc \in [Threads -> Calls]
    /\ data \in [Threads -> [Patterns -> Rule]]
    /\ todo \in [Threads -> SUBSET Patterns]
    /\ op \in [Admins -> Ops \cup {"none"}]
    /\ {role, newRole} \subseteq [Admins -> Rule]
    /\ {rows, stale, held} \subseteq [Admins -> SUBSET Patterns]
    /\ seen \in [Readers -> SUBSET Patterns]
    /\ cand \in [Readers -> Patterns \cup {NoPattern}]
    /\ found \in [Readers -> Rule]
    /\ torn \in [Readers -> BOOLEAN]
    /\ answer \in [Readers -> {"none", "rule", "open", "deny", "error"}]
    /\ edits \in 0..MaxEdits
    /\ byRole \in SUBSET Patterns
    /\ \A t \in Threads : pc[t] \in InReset <=> lock = t

\* Rules name roles that exist; the cache is filled on first use.
Init ==
    /\ roles \in SUBSET Roles
    /\ db \in [Patterns -> SUBSET roles]
    /\ compiled = NoRules
    /\ initialized = FALSE
    /\ lock = NoThread
    /\ pc = [t \in Threads |-> "idle"]
    /\ data = [t \in Threads |-> NoRules]
    /\ todo = [t \in Threads |-> {}]
    /\ op = [a \in Admins |-> "none"]
    /\ role = [a \in Admins |-> {}]
    /\ newRole = [a \in Admins |-> {}]
    /\ rows = [a \in Admins |-> {}]
    /\ stale = [a \in Admins |-> {}]
    /\ held = [a \in Admins |-> {}]
    /\ seen = [r \in Readers |-> {}]
    /\ cand = [r \in Readers |-> NoPattern]
    /\ found = [r \in Readers |-> {}]
    /\ torn = [r \in Readers |-> FALSE]
    /\ answer = [r \in Readers |-> "none"]
    /\ edits = 0
    /\ ruled = \E p \in Hits : db[p] # {}
    /\ byRole = {}
    /\ broken = FALSE

Goto(t, call) == pc' = [pc EXCEPT ![t] = call]

\* a's operation applied to a rule: the new name takes the old one's place
\* (updateRole), or nothing does (deleteRole); a rule left empty is deleted.
Edited(a, rule) == IF role[a] \subseteq rule THEN (rule \ role[a]) \cup newRole[a] ELSE rule

\* Administrator a makes d the committed table, having written the rows W: the
\* rows of W that others have in memory have gone stale.
Commit(a, d, W) ==
    /\ db' = d
    /\ ruled' = (ruled /\ \E p \in Hits : d[p] # {})
    /\ stale' = [b \in Admins |-> IF b = a THEN stale[b] ELSE stale[b] \cup (W \cap rows[b])]

\* A row another transaction has written can not be written before its end.
Writable(a, p) == \A b \in Admins \ {a} : p \notin held[b]

----------------------------------------------------------------------------
(* What administrators do before they reset the cache. *)

\* The names in use.  A new name is written with the first rule's row, or at
\* the end: until the update is done others may use either name.
Names == roles \cup UNION {role[a] : a \in {b \in Admins : pc[b] # "idle" /\ op[b] = "updateRole"}}

\* A controller saves, changes or deletes one rule with flush: true and calls
\* clearCachedRequestmaps.
SaveRule(a) ==
    /\ pc[a] = "idle" /\ "save" \in Ops /\ edits < MaxEdits
    /\ \E p \in Patterns, rule \in SUBSET Names :
        /\ Writable(a, p)
        /\ rule # db[p]
        /\ Commit(a, [db EXCEPT ![p] = rule], {p})
        /\ byRole' = byRole \ {p}
    /\ op' = [op EXCEPT ![a] = "save"]
    /\ Goto(a, "enter")
    /\ edits' = edits + 1
    /\ UNCHANGED <<roles, cache, lock, rebuild, role, newRole, rows, held, scan>>

\* An operation on role r: the rules that name it are found and changed in
\* memory; they are written when the reset loads the table.
ChangeRole(a, o, r, new) ==
    /\ pc[a] = "idle" /\ o \in Ops /\ edits < MaxEdits
    /\ op' = [op EXCEPT ![a] = o]
    /\ role' = [role EXCEPT ![a] = {r}]
    /\ newRole' = [newRole EXCEPT ![a] = new]
    /\ rows' = [rows EXCEPT ![a] = IF new = {r} THEN {} ELSE {p \in Patterns : r \in db[p]}]
    /\ stale' = [stale EXCEPT ![a] = {}]
    /\ Goto(a, "enter")
    /\ edits' = edits + 1
    /\ UNCHANGED <<db, ruled, byRole, cache, lock, rebuild, held, scan>>

\* The new name is validated, so it is not in use; an update that keeps the
\* name changes no rule and resets the cache all the same.
UpdateRole(a) ==
    \E r \in roles : \E q \in {r} \cup (Roles \ roles) :
        ChangeRole(a, "updateRole", r, {q}) /\ roles' = (roles \ {r}) \cup {q}

DeleteRole(a) ==
    \E r \in roles : ChangeRole(a, "deleteRole", r, {}) /\ UNCHANGED roles

----------------------------------------------------------------------------
(* reset(): synchronized, called by administrators and, through            *)
(* initialize(), by readers that find the cache not initialized.           *)

\* Mutant: reset() is not synchronized.
EnterResetUnlocked(t) ==
    /\ pc[t] = "enter"
    /\ lock' = t
    /\ Goto(t, "flush")
    /\ UNCHANGED <<table, cache, rebuild, session, scan, edits>>

EnterReset(t) ==
    /\ pc[t] = "enter"
    /\ lock = NoThread
    /\ lock' = t
    /\ Goto(t, "flush")
    /\ UNCHANGED <<table, cache, rebuild, session, scan, edits>>

\* What t loaded is forgotten when it leaves reset().
DropData(t) ==
    /\ data' = [data EXCEPT ![t] = NoRules]
    /\ todo' = [todo EXCEPT ![t] = {}]

\* Mutant: the monitor stays taken when an exception leaves reset().
FailKeepingLock(t) ==
    /\ Goto(t, "idle")
    /\ rows' = IF t \in Admins THEN [rows EXCEPT ![t] = {}] ELSE rows
    /\ held' = IF t \in Admins THEN [held EXCEPT ![t] = {}] ELSE held
    /\ answer' = IF t \in Readers THEN [answer EXCEPT ![t] = "error"] ELSE answer
    /\ DropData(t)
    /\ UNCHANGED <<compiled, initialized, torn, lock, op, role, newRole, seen, cand, found, edits>>

\* An exception leaves reset(), and the operation: the session's changes are
\* dropped, an open transaction is rolled back.
Fail(t) ==
    /\ Goto(t, "idle")
    /\ lock' = IF lock = t THEN NoThread ELSE lock
    /\ rows' = IF t \in Admins THEN [rows EXCEPT ![t] = {}] ELSE rows
    /\ held' = IF t \in Admins THEN [held EXCEPT ![t] = {}] ELSE held
    /\ answer' = IF t \in Readers THEN [answer EXCEPT ![t] = "error"] ELSE answer
    /\ DropData(t)
    /\ UNCHANGED <<compiled, initialized, torn, op, role, newRole, seen, cand, found, edits>>

\* Mutant: a stale row does not raise, it is tried again.
FlushRuleAgain(a, p) ==
    /\ pc[a] = "flush"
    /\ p \in rows[a]
    /\ Writable(a, p)
    /\ \/ p \in stale[a] /\ UNCHANGED <<table, held, rows, stale>>
       \/ /\ p \notin stale[a]
          /\ rows' = [rows EXCEPT ![a] = @ \ {p}]
          /\ byRole' = byRole \cup {p}
          /\ Commit(a, [db EXCEPT ![p] = Edited(a, @)], {p})
          /\ UNCHANGED <<roles, held>>
    /\ UNCHANGED <<cache, lock, pc, rebuild, op, role, newRole, scan, edits>>

\* The query for all rules first writes the session's changed rows, one after
\* the other: committed at once by updateRole, held in deleteRole's
\* transaction.  A row that has gone stale raises.
FlushRule(a, p) ==
    /\ pc[a] = "flush"
    /\ p \in rows[a]
    /\ Writable(a, p)
    /\ UNCHANGED roles
    /\ \/ p \in stale[a] /\ Fail(a) /\ UNCHANGED <<db, ruled, byRole, stale, broken>>
       \/ /\ p \notin stale[a]
          /\ rows' = [rows EXCEPT ![a] = @ \ {p}]
          /\ byRole' = byRole \cup {p}
          /\ \/ /\ op[a] = "updateRole"
                /\ Commit(a, [db EXCEPT ![p] = Edited(a, @)], {p})
                /\ UNCHANGED held
             \/ /\ op[a] = "deleteRole"
                /\ held' = [held EXCEPT ![a] = @ \cup {p}]
                /\ UNCHANGED <<db, ruled, stale>>
          /\ UNCHANGED <<cache, lock, pc, rebuild, op, role, newRole, scan, edits>>

\* What t reads: the committed table and its own transaction's changes.
View(t) ==
    [p \in Patterns |-> IF t \in Admins /\ p \in held[t] THEN Edited(t, db[p]) ELSE db[p]]

LoadRequestmaps(t) ==
    /\ pc[t] = "flush"
    /\ t \in Admins => rows[t] = {}
    /\ UNCHANGED <<table, stale>>
    /\ \/ /\ data' = [data EXCEPT ![t] = View(t)]
          /\ todo' = [todo EXCEPT ![t] = {p \in Patterns : View(t)[p] # {}}]
          /\ Goto(t, "clear")
          /\ UNCHANGED <<cache, lock, op, role, newRole, rows, held, scan, edits>>
       \/ Faults /\ Fail(t) /\ broken' = TRUE

\* The map changes under the iterators of the readers that are scanning it.
Tear == torn' = [r \in Readers |-> torn[r] \/ pc[r] = "scan"]

ResetConfigs(t) ==
    /\ pc[t] = "clear"
    /\ compiled' = NoRules
    /\ Tear
    /\ Goto(t, "fill")
    /\ UNCHANGED <<table, initialized, broken, lock, rebuild, session, scan, edits>>

\* One rule is compiled and stored; a token that does not parse raises.
CompileAndStoreMapping(t, p) ==
    /\ pc[t] = "fill"
    /\ p \in todo[t]
    /\ UNCHANGED <<table, stale>>
    /\ \/ /\ compiled' = [compiled EXCEPT ![p] = data[t][p]]
          /\ Tear
          /\ todo' = [todo EXCEPT ![t] = @ \ {p}]
          /\ UNCHANGED <<initialized, broken, lock, pc, data, op, role, newRole, rows, held, scan,
                         edits>>
       \/ Faults /\ Fail(t) /\ broken' = TRUE

LeaveReset(t) ==
    /\ pc[t] = "fill"
    /\ todo[t] = {}
    /\ lock' = IF lock = t THEN NoThread ELSE lock
    /\ DropData(t)
    /\ broken' = FALSE
    /\ Goto(t, IF t \in Readers THEN "mark" ELSE IF op[t] = "deleteRole" THEN "grants" ELSE "idle")
    /\ UNCHANGED <<table, compiled, initialized, torn, session, scan, edits>>

\* The rest of deleteRole: the role's grants and the role are deleted and the
\* transaction commits, or one of the deletions fails and it is rolled back.
\* A role that another administrator has renamed or deleted can not be deleted.
FinishDeleteRole(a) ==
    /\ pc[a] = "grants"
    /\ \/ /\ role[a] \subseteq roles
          /\ Commit(a, View(a), held[a])
          /\ roles' = roles \ role[a]
          /\ held' = [held EXCEPT ![a] = {}]
          /\ Goto(a, "idle")
          /\ UNCHANGED <<byRole, cache, lock, rebuild, op, role, newRole, rows, scan, edits>>
       \/ /\ Faults \/ ~(role[a] \subseteq roles)
          /\ Fail(a)
          /\ UNCHANGED <<table, stale, broken>>

----------------------------------------------------------------------------
(* findConfigAttributes and getAttributes: a request looks for its rule.   *)

StartScan(r) ==
    /\ answer' = [answer EXCEPT ![r] = "none"]
    /\ Goto(r, "scan")
    /\ UNCHANGED <<torn, seen, cand, found>>

\* initialize() reads _initialized without the monitor.
BeginFind(r) ==
    /\ pc[r] = "idle"
    /\ UNCHANGED <<table, compiled, initialized, broken, lock, rebuild, session, edits>>
    /\ \/ initialized /\ StartScan(r)
       \/ ~initialized /\ Goto(r, "enter") /\ UNCHANGED <<torn, scan>>

MarkInitialized(r) ==
    /\ pc[r] = "mark"
    /\ initialized' = TRUE
    /\ StartScan(r)
    /\ UNCHANGED <<table, compiled, broken, lock, rebuild, session, edits>>

\* Mutant: the arguments of the comparison with the candidate are swapped.
VisitLessSpecific(r, p) ==
    /\ pc[r] = "scan"
    /\ p \notin seen[r]
    /\ seen' = [seen EXCEPT ![r] = @ \cup {p}]
    /\ IF compiled[p] # {} /\ p \in Hits /\ (cand[r] = NoPattern \/ <<p, cand[r]>> \in Covers)
       THEN /\ cand' = [cand EXCEPT ![r] = p]
            /\ found' = [found EXCEPT ![r] = compiled[p]]
       ELSE UNCHANGED <<cand, found>>
    /\ UNCHANGED <<table, cache, lock, pc, rebuild, session, answer, edits>>

\* The iterator passes the place of p, in whatever order the hash map has: an
\* entry found there that matches the URL becomes the candidate if the present
\* candidate covers it.
Visit(r, p) ==
    /\ pc[r] = "scan"
    /\ p \notin seen[r]
    /\ seen' = [seen EXCEPT ![r] = @ \cup {p}]
    /\ IF compiled[p] # {} /\ p \in Hits /\ (cand[r] = NoPattern \/ <<cand[r], p>> \in Covers)
       THEN /\ cand' = [cand EXCEPT ![r] = p]
            /\ found' = [found EXCEPT ![r] = compiled[p]]
       ELSE UNCHANGED <<cand, found>>
    /\ UNCHANGED <<table, cache, lock, pc, rebuild, session, answer, edits>>

\* The iterator and the candidate are forgotten when the search returns.
Answer(r, a) ==
    /\ seen' = [seen EXCEPT ![r] = {}]
    /\ cand' = [cand EXCEPT ![r] = NoPattern]
    /\ found' = [found EXCEPT ![r] = {}]
    /\ torn' = [torn EXCEPT ![r] = FALSE]
    /\ answer' = [answer EXCEPT ![r] = a]
    /\ Goto(r, "idle")

\* The iterator may notice that the map has changed, or not: nothing orders
\* the reader's accesses with the writer's.
ThrowConcurrentModification(r) ==
    /\ pc[r] = "scan"
    /\ torn[r]
    /\ Answer(r, "error")
    /\ UNCHANGED <<table, compiled, initialized, broken, lock, rebuild, session, edits>>

FinishFind(r) ==
    /\ pc[r] = "scan"
    /\ seen[r] = Patterns
    /\ Answer(r, IF cand[r] # NoPattern THEN "rule" ELSE IF RejectIfNoRule THEN "deny" ELSE "open")
    /\ UNCHANGED <<table, compiled, initialized, broken, lock, rebuild, session, edits>>

----------------------------------------------------------------------------
Reset(t) ==
    \/ EnterReset(t) \/ LoadRequestmaps(t) \/ ResetConfigs(t) \/ LeaveReset(t)
    \/ \E p \in Patterns : CompileAndStoreMapping(t, p)

ReaderStep(r) ==
    \/ Reset(r) \/ MarkInitialized(r) \/ ThrowConcurrentModification(r) \/ FinishFind(r)
    \/ \E p \in Patterns : Visit(r, p)

AdminStep(a) ==
    \/ Reset(a) \/ FinishDeleteRole(a)
    \/ \E p \in Patterns : FlushRule(a, p)

Next ==
    \/ \E r \in Readers : BeginFind(r) \/ ReaderStep(r)
    \/ \E a \in Admins : SaveRule(a) \/ UpdateRole(a) \/ DeleteRole(a) \/ AdminStep(a)

Spec == Init /\ [][Next]_vars

\* Threads run on; nobody is obliged to send a request or to change a rule.
Fairness ==
    /\ \A r \in Readers : WF_vars(ReaderStep(r))
    /\ \A a \in Admins : WF_vars(AdminStep(a))

FairSpec == Spec /\ Fairness

----------------------------------------------------------------------------
(* Properties. *)

AtRest == initialized /\ \A t \in Threads : pc[t] \in {"idle", "mark", "scan"}

\* However saves, renames, role deletions and first-use initialisations
\* interleave, and whichever of them fail: when no reset is under way and the
\* last one was completed, the cache holds every rule whose last writer was a
\* save.  No reset puts back an older version of it.
SavesAreSeen ==
    AtRest /\ ~broken => \A p \in Patterns \ byRole : compiled[p] = db[p]

\* m is the one most specific pattern of D: every other one covers it, and it
\* covers none.
MostSpecific(D, m) ==
    m \in D /\ \A q \in D \ {m} : <<q, m>> \in Covers /\ <<m, q>> \notin Covers

\* r's candidate is the most specific of the entries it has passed.
BestSoFar(r) ==
    LET D == {p \in seen[r] \cap Hits : compiled[p] # {}} IN
    /\ cand[r] \in D \cup {NoPattern}
    /\ D # {} => cand[r] # NoPattern /\ found[r] = compiled[cand[r]]
    /\ \A m \in D : MostSpecific(D, m) => cand[r] = m

\* A search that no reset disturbs finds the most specific rule for its URL,
\* in whatever order the hash map yields the entries: at each point of the
\* iteration the candidate is the most specific of the entries passed so far.
CleanScan == \A r \in Readers : pc[r] = "scan" /\ ~torn[r] => BestSoFar(r)

\* A URL that has had a rule in every committed version of the table: no
\* completed search reports that there is none.
RuledUrlFindsRule ==
    ruled => \A r \in Readers : answer[r] \notin {"open", "deny"}

\* When nothing is under way, the cache is the committed table.
CacheIsCurrent == AtRest => compiled = db

\* Every operation of an administrator ends: waiting for the monitor and
\* waiting for a row of another transaction never close a circle.
AdminReturns == \A a \in Admins : pc[a] # "idle" ~> pc[a] = "idle"

\* Every search ends, with or without a rule.
FindReturns == \A r \in Readers : pc[r] # "idle" ~> pc[r] = "idle"
=============================================================================
