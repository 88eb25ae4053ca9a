------------------------ MODULE RequestmapCacheProofs ------------------------
(***************************************************************************)
(* Proofs about RequestmapCache for any numbers of readers, administrators,*)
(* patterns, roles and operations.  The argument for SavesAreSeen: whoever *)
(* commits a rule has still to load the table, so a reset that loaded it   *)
(* before is never the last one; what the reset in the monitor has loaded, *)
(* or the cache itself, agrees with the table unless another reset is to   *)
(* come.  Rows written by role operations are excepted: a deleteRole       *)
(* commits after its reset.                                                *)
(***************************************************************************)
EXTENDS RequestmapCache, TLAPS

\* What holds of administrator a: memory and transaction by where it is.
AdminInv(a) ==
    /\ pc[a] \notin {"mark", "scan"}
    /\ pc[a] \notin {"enter", "flush"} => rows[a] = {}
    /\ op[a] = "save" => rows[a] = {}
    /\ op[a] # "deleteRole" \/ pc[a] \in {"idle", "enter"} => held[a] = {}
    /\ held[a] \subseteq byRole

ReaderInv(r) ==
    /\ pc[r] # "grants"
    /\ pc[r] # "scan" => seen[r] = {} /\ cand[r] = NoPattern /\ torn[r] = FALSE

\* The reset in the monitor: what it has loaded, and how much is stored.
ResetInv(t) ==
    /\ pc[t] = "clear" => todo[t] = {p \in Patterns : data[t][p] # {}}
    /\ pc[t] = "fill" => \A p \in Patterns \ todo[t] : compiled[p] = data[t][p]

\* A thread that has not yet loaded the table, and has nothing to write to it
\* but what it has committed.
Loads(t) == pc[t] \in {"enter", "flush"} /\ (t \in Admins => rows[t] = {})
Pending == \E t \in Threads : Loads(t)

\* Some reset has gone through, and its reader is about to say so.
Filled == initialized \/ \E r \in Readers : pc[r] = "mark"

\* The table's rules that no role operation wrote last.
Saved == Patterns \ byRole

LoadedIsCurrent ==
    \A t \in Threads : pc[t] \in {"clear", "fill"} =>
        Pending \/ \A p \in Saved : data[t][p] = db[p]

Rebuilding == \E t \in Threads : pc[t] \in {"clear", "fill"}

StoredIsCurrent ==
    Filled /\ ~broken /\ ~Rebuilding => Pending \/ \A p \in Saved : compiled[p] = db[p]

IInv ==
    /\ TypeOK
    /\ \A a \in Admins : AdminInv(a)
    /\ \A r \in Readers : ReaderInv(r)
    /\ \A t \in Threads : ResetInv(t)
    /\ LoadedIsCurrent
    /\ StoredIsCurrent
    /\ CleanScan

----------------------------------------------------------------------------
(* Facts that several actions use.                                         *)

\* One thread at a time is in the monitor.
LEMMA OneHolder ==
  ASSUME TypeOK, NEW t \in Threads, NEW u \in Threads, pc[t] \in InReset, pc[u] \in InReset
  PROVE  t = u
BY DEF TypeOK

\* Administrators and readers have different names.
LEMMA Apart ==
  ASSUME NEW t \in Threads
  PROVE  t \in Readers <=> t \notin Admins
BY CacheAssumption DEF Threads

\* Some rows of one administrator's memory and transaction may change, and his
\* place; the other administrators keep what is said of them, as long as the
\* rows they hold are not taken from the role operations.
LEMMA OtherAdmins ==
  ASSUME \A b \in Admins : AdminInv(b), NEW a,
         \A b \in Admins \ {a} :
            /\ pc'[b] = pc[b] /\ op'[b] = op[b] /\ rows'[b] = rows[b] /\ held'[b] = held[b]
            /\ held[b] \cap byRole \subseteq byRole'
  PROVE  \A b \in Admins \ {a} : AdminInv(b)'
BY DEF AdminInv

\* The searches of the readers other than t, in a cache that has not changed.
LEMMA OtherScans ==
  ASSUME CleanScan, compiled' = compiled, NEW t,
         \A r \in Readers \ {t} : pc'[r] = pc[r] /\ torn'[r] = torn[r] /\ seen'[r] = seen[r]
                                  /\ cand'[r] = cand[r] /\ found'[r] = found[r]
  PROVE  \A r \in Readers \ {t} : pc'[r] = "scan" /\ ~torn'[r] => BestSoFar(r)'
BY DEF CleanScan, BestSoFar, MostSpecific

\* A step of thread t that no reader notices.
LEMMA ReadersStay ==
  ASSUME IInv, NEW t, \A r \in Readers \ {t} : pc'[r] = pc[r],
         UNCHANGED <<compiled, torn, seen, cand, found>>
  PROVE  /\ \A r \in Readers \ {t} : ReaderInv(r)'
         /\ \A r \in Readers \ {t} : pc'[r] = "scan" /\ ~torn'[r] => BestSoFar(r)'
<1>1. \A r \in Readers \ {t} : ReaderInv(r)'
  BY DEF IInv, ReaderInv
<1> QED BY <1>1, OtherScans DEF IInv

\* A thread that is to load the table stays so when another one steps.
LEMMA PendingStays ==
  ASSUME Pending, NEW t, t \in Threads => ~Loads(t),
         \A u \in Threads \ {t} : pc'[u] = pc[u] /\ (u \in Admins => rows'[u] = rows[u])
  PROVE  Pending'
BY DEF Pending, Loads

\* A step that neither loads nor stores nor commits.
LEMMA QuietStep ==
  ASSUME LoadedIsCurrent, StoredIsCurrent, Pending => Pending', Filled' => Filled,
         UNCHANGED <<db, byRole, data, compiled, broken>>,
         \A u \in Threads : pc'[u] \in {"clear", "fill"} <=> pc[u] \in {"clear", "fill"}
  PROVE  LoadedIsCurrent' /\ StoredIsCurrent'
<1>1. LoadedIsCurrent'
  BY DEF LoadedIsCurrent, Saved
<1>2. Rebuilding' <=> Rebuilding
  BY DEF Rebuilding
<1>3. StoredIsCurrent'
  BY <1>2 DEF StoredIsCurrent, Saved
<1> QED BY <1>1, <1>3

LEMMA InitInv == Init => IInv
<1> SUFFICES ASSUME Init PROVE IInv
  OBVIOUS
<1>1. TypeOK
  <2>1. NoRules \in [Patterns -> Rule] /\ db \in [Patterns -> Rule] /\ ruled \in BOOLEAN
    BY DEF Init, NoRules, Rule
  <2>2. 0 \in 0..MaxEdits
    BY CacheAssumption
  <2>3. \A t \in Threads : pc[t] \in InReset <=> lock = t
    BY CacheAssumption DEF Init, InReset
  <2> QED BY <2>1, <2>2, <2>3 DEF Init, TypeOK, Rule, Calls
<1>2. \A a \in Admins : AdminInv(a)
  BY DEF Init, AdminInv, Threads
<1>3. \A r \in Readers : ReaderInv(r)
  BY DEF Init, ReaderInv, Threads
<1>4. (\A t \in Threads : ResetInv(t)) /\ LoadedIsCurrent
  BY DEF Init, ResetInv, LoadedIsCurrent
<1>5. StoredIsCurrent
  BY DEF Init, StoredIsCurrent, Filled, Threads
<1>6. CleanScan
  BY DEF Init, CleanScan, Threads
<1> QED BY <1>1, <1>2, <1>3, <1>4, <1>5, <1>6 DEF IInv

----------------------------------------------------------------------------
(* Administrators.                                                         *)

LEMMA SaveRuleInv ==
  ASSUME IInv, NEW a \in Admins, SaveRule(a)
  PROVE  IInv'
<1> USE DEF SaveRule, Goto, cache, rebuild, scan
<1>0. TypeOK /\ a \in Threads /\ a \notin Readers /\ AdminInv(a)
  BY CacheAssumption DEF IInv, Threads
<1>1. PICK p \in Patterns, rule \in Rule :
        /\ Writable(a, p)
        /\ Commit(a, [db EXCEPT ![p] = rule], {p})
        /\ byRole' = byRole \ {p}
  <2>1. Names \subseteq Roles
    BY <1>0 DEF Names, TypeOK, Rule
  <2> QED BY <2>1 DEF Rule
<1>2. TypeOK'
  <2>1. db' \in [Patterns -> Rule] /\ byRole' \in SUBSET Patterns /\ ruled' \in BOOLEAN
    BY <1>0, <1>1 DEF TypeOK, Commit, Rule
  <2>2. stale' \in [Admins -> SUBSET Patterns] /\ edits' \in 0..MaxEdits
    BY <1>0, <1>1, CacheAssumption DEF TypeOK, Commit
  <2>3. op' \in [Admins -> Ops \cup {"none"}] /\ pc' \in [Threads -> Calls]
    BY <1>0 DEF TypeOK, Calls
  <2>4. \A u \in Threads : pc'[u] \in InReset <=> lock' = u
    BY <1>0 DEF TypeOK, InReset
  <2> QED BY <2>1, <2>2, <2>3, <2>4, <1>0 DEF TypeOK
<1>3. \A b \in Admins : AdminInv(b)'
  <2>1. AdminInv(a)'
    BY <1>0, <1>1 DEF AdminInv, TypeOK
  <2>2. \A b \in Admins \ {a} : held[b] \cap byRole \subseteq byRole'
    BY <1>1 DEF Writable
  <2>3. \A b \in Admins \ {a} : AdminInv(b)'
    <3>1. \A b \in Admins \ {a} : pc'[b] = pc[b] /\ op'[b] = op[b] /\ rows'[b] = rows[b]
                                  /\ held'[b] = held[b]
      BY <1>0 DEF TypeOK
    <3> QED BY <2>2, <3>1, OtherAdmins DEF IInv
  <2> QED BY <2>1, <2>3
<1>4. \A r \in Readers : ReaderInv(r)'
  BY <1>0 DEF IInv, TypeOK, ReaderInv
<1>5. \A t \in Threads : ResetInv(t)'
  BY <1>0 DEF IInv, TypeOK, ResetInv
<1>6. Pending'
  BY <1>0 DEF Pending, Loads, AdminInv, TypeOK
<1>7. CleanScan'
  <2>1. \A r \in Readers : r # a /\ pc'[r] = pc[r]
    BY <1>0 DEF TypeOK
  <2>2. \A r \in Readers \ {a} : pc'[r] = "scan" /\ ~torn'[r] => BestSoFar(r)'
    BY <2>1, OtherScans DEF IInv
  <2> QED BY <2>1, <2>2 DEF CleanScan
<1> QED
  BY <1>2, <1>3, <1>4, <1>5, <1>6, <1>7 DEF IInv, LoadedIsCurrent, StoredIsCurrent

LEMMA ChangeRoleInv ==
  ASSUME IInv, NEW a \in Admins, NEW o \in {"updateRole", "deleteRole"}, NEW r \in Roles,
         NEW new \in Rule, ChangeRole(a, o, r, new), roles' \in SUBSET Roles
  PROVE  IInv'
<1> USE DEF ChangeRole, Goto, cache, rebuild, scan
<1>0. TypeOK /\ a \in Threads /\ a \notin Readers /\ AdminInv(a)
  BY CacheAssumption DEF IInv, Threads
<1>1. TypeOK'
  <2>1. role' \in [Admins -> Rule] /\ newRole' \in [Admins -> Rule]
    BY <1>0 DEF TypeOK, Rule
  <2>2. rows' \in [Admins -> SUBSET Patterns] /\ stale' \in [Admins -> SUBSET Patterns]
    BY <1>0 DEF TypeOK
  <2>3. op' \in [Admins -> Ops \cup {"none"}] /\ pc' \in [Threads -> Calls]
        /\ edits' \in 0..MaxEdits
    BY <1>0, CacheAssumption DEF TypeOK, Calls
  <2>4. \A u \in Threads : pc'[u] \in InReset <=> lock' = u
    BY <1>0 DEF TypeOK, InReset
  <2> QED BY <2>1, <2>2, <2>3, <2>4, <1>0 DEF TypeOK
<1>2. \A b \in Admins : AdminInv(b)'
  <2>1. AdminInv(a)'
    BY <1>0 DEF AdminInv, TypeOK
  <2>2. \A b \in Admins \ {a} : pc'[b] = pc[b] /\ op'[b] = op[b] /\ rows'[b] = rows[b]
                                /\ held'[b] = held[b] /\ held[b] \cap byRole \subseteq byRole'
    BY <1>0 DEF TypeOK
  <2> QED BY <2>1, <2>2, OtherAdmins DEF IInv
<1>3. \A x \in Readers : x # a /\ pc'[x] = pc[x]
  BY <1>0 DEF TypeOK
<1>4. (\A x \in Readers : ReaderInv(x)') /\ CleanScan'
  BY <1>3, ReadersStay DEF CleanScan
<1>5. \A t \in Threads : ResetInv(t)'
  BY <1>0 DEF IInv, TypeOK, ResetInv
<1>6. Pending => Pending'
  <2>1. ~Loads(a) /\ \A u \in Threads \ {a} : pc'[u] = pc[u] /\ (u \in Admins => rows'[u] = rows[u])
    BY <1>0 DEF Loads, TypeOK
  <2> QED BY <2>1, PendingStays
<1>7. LoadedIsCurrent' /\ StoredIsCurrent'
  <2>1. Filled' => Filled
    BY <1>3 DEF Filled
  <2>2. \A u \in Threads : pc'[u] \in {"clear", "fill"} <=> pc[u] \in {"clear", "fill"}
    BY <1>0 DEF TypeOK
  <2> QED BY <1>6, <2>1, <2>2, QuietStep DEF IInv
<1> QED BY <1>1, <1>2, <1>4, <1>5, <1>7 DEF IInv

LEMMA UpdateRoleInv ==
  ASSUME IInv, NEW a \in Admins, UpdateRole(a)
  PROVE  IInv'
<1>1. PICK r \in roles : \E q \in {r} \cup (Roles \ roles) :
        ChangeRole(a, "updateRole", r, {q}) /\ roles' = (roles \ {r}) \cup {q}
  BY DEF UpdateRole
<1>2. PICK q \in {r} \cup (Roles \ roles) :
        ChangeRole(a, "updateRole", r, {q}) /\ roles' = (roles \ {r}) \cup {q}
  BY <1>1
<1>3. r \in Roles /\ {q} \in Rule /\ roles' \in SUBSET Roles
  BY <1>2 DEF IInv, TypeOK, Rule
<1> QED BY <1>2, <1>3, ChangeRoleInv

LEMMA DeleteRoleInv ==
  ASSUME IInv, NEW a \in Admins, DeleteRole(a)
  PROVE  IInv'
<1>1. PICK r \in roles : ChangeRole(a, "deleteRole", r, {}) /\ UNCHANGED roles
  BY DEF DeleteRole
<1>2. r \in Roles /\ {} \in Rule /\ roles' \in SUBSET Roles
  BY <1>1 DEF IInv, TypeOK, Rule
<1> QED BY <1>1, <1>2, ChangeRoleInv

\* An exception in the monitor, or at the end of deleteRole.
LEMMA FailInv ==
  ASSUME IInv, NEW t \in Threads, Fail(t), UNCHANGED <<table, stale>>,
         pc[t] \in {"flush", "fill", "grants"},
         \/ broken' = TRUE /\ pc[t] # "grants"
         \/ broken' = broken /\ pc[t] # "fill" /\ ~Loads(t)
  PROVE  IInv'
<1> USE DEF Fail, Goto, DropData, table
<1>0. TypeOK
  BY DEF IInv
<1>1. TypeOK'
  <2>1. NoRules \in [Patterns -> Rule]
    BY DEF NoRules, Rule
  <2>2. data' \in [Threads -> [Patterns -> Rule]] /\ todo' \in [Threads -> SUBSET Patterns]
    BY <1>0, <2>1 DEF TypeOK
  <2>3. rows' \in [Admins -> SUBSET Patterns] /\ held' \in [Admins -> SUBSET Patterns]
    BY <1>0 DEF TypeOK
  <2>4. pc' \in [Threads -> Calls] /\ lock' \in Threads \cup {NoThread} /\ broken' \in BOOLEAN
    BY <1>0 DEF TypeOK, Calls
  <2>5. answer' \in [Readers -> {"none", "rule", "open", "deny", "error"}]
    BY <1>0 DEF TypeOK
  <2>6. \A u \in Threads : pc'[u] \in InReset <=> lock' = u
    BY <1>0, CacheAssumption DEF TypeOK, InReset
  <2> QED BY <2>2, <2>3, <2>4, <2>5, <2>6, <1>0 DEF TypeOK
<1>2. \A b \in Admins : AdminInv(b)'
  <2>1. t \in Admins => AdminInv(t)'
    BY <1>0 DEF AdminInv, TypeOK
  <2>2. \A b \in Admins \ {t} : pc'[b] = pc[b] /\ op'[b] = op[b] /\ rows'[b] = rows[b]
                                /\ held'[b] = held[b] /\ held[b] \cap byRole \subseteq byRole'
    BY <1>0 DEF TypeOK, Threads
  <2> QED BY <2>1, <2>2, OtherAdmins DEF IInv
<1>3. \A r \in Readers \ {t} : pc'[r] = pc[r]
  BY <1>0 DEF TypeOK, Threads
<1>4. t \in Readers => ReaderInv(t)' /\ pc'[t] = "idle"
  BY <1>0 DEF IInv, ReaderInv, TypeOK
<1>5. (\A r \in Readers : ReaderInv(r)') /\ CleanScan'
  BY <1>3, <1>4, ReadersStay DEF CleanScan
<1>6. \A u \in Threads : ResetInv(u)'
  BY <1>0 DEF IInv, TypeOK, ResetInv
<1>7. \A u \in Threads \ {t} : pc'[u] = pc[u] /\ data'[u] = data[u]
                              /\ (u \in Admins => rows'[u] = rows[u])
  BY <1>0 DEF TypeOK
<1>8. pc'[t] = "idle"
  BY <1>0 DEF TypeOK
<1>9. CASE pc[t] = "grants" \/ (broken' = broken /\ pc[t] # "fill" /\ ~Loads(t))
  <2>1. Pending => Pending'
    BY <1>7, <1>9, PendingStays DEF Loads
  <2>2. Filled' => Filled
    BY <1>7, <1>8 DEF Filled, Threads
  <2>3. LoadedIsCurrent'
    BY <1>7, <1>8, <2>1 DEF IInv, LoadedIsCurrent, Saved
  <2>4. Rebuilding => Rebuilding'
    BY <1>7, <1>9 DEF Rebuilding
  <2>5. StoredIsCurrent'
    BY <1>9, <2>1, <2>2, <2>4 DEF IInv, StoredIsCurrent, Saved
  <2> QED BY <1>1, <1>2, <1>5, <1>6, <2>3, <2>5 DEF IInv
<1>10. CASE broken' = TRUE /\ pc[t] # "grants"
  <2>1. \A u \in Threads : pc'[u] \notin {"clear", "fill"}
    BY <1>0, <1>7, <1>8, <1>10, OneHolder DEF InReset
  <2>2. LoadedIsCurrent' /\ StoredIsCurrent'
    BY <2>1, <1>10 DEF LoadedIsCurrent, StoredIsCurrent
  <2> QED BY <1>1, <1>2, <1>5, <1>6, <2>2 DEF IInv
<1> QED BY <1>9, <1>10
----------------------------------------------------------------------------
(* The reset.                                                              *)

LEMMA EnterResetInv ==
  ASSUME IInv, NEW t \in Threads, EnterReset(t)
  PROVE  IInv'
<1> USE DEF EnterReset, Goto, table, cache, rebuild, session, scan
<1>0. TypeOK /\ pc[t] = "enter"
  BY DEF IInv
<1>1. TypeOK'
  <2>1. pc' \in [Threads -> Calls] /\ lock' \in Threads \cup {NoThread}
    BY <1>0 DEF TypeOK, Calls
  <2>2. \A u \in Threads : pc'[u] \in InReset <=> lock' = u
    BY <1>0, CacheAssumption DEF TypeOK, InReset
  <2> QED BY <2>1, <2>2, <1>0 DEF TypeOK
<1>2. \A u \in Threads \ {t} : pc'[u] = pc[u]
  BY <1>0 DEF TypeOK
<1>3. pc'[t] = "flush"
  BY <1>0 DEF TypeOK
<1>4. \A b \in Admins : AdminInv(b)'
  <2>1. t \in Admins => AdminInv(t)'
    BY <1>0, <1>3 DEF IInv, AdminInv
  <2>2. \A b \in Admins \ {t} : AdminInv(b)'
    BY <1>2, OtherAdmins DEF IInv, Threads
  <2> QED BY <2>1, <2>2
<1>5. (\A r \in Readers : ReaderInv(r)') /\ CleanScan'
  <2>1. \A r \in Readers \ {t} : pc'[r] = pc[r]
    BY <1>2 DEF Threads
  <2>2. t \in Readers => ReaderInv(t)'
    BY <1>0, <1>3 DEF IInv, ReaderInv
  <2> QED BY <1>3, <2>1, <2>2, ReadersStay DEF CleanScan
<1>6. \A u \in Threads : ResetInv(u)'
  BY <1>2, <1>3 DEF IInv, ResetInv
<1>7. Pending => Pending'
  BY <1>0, <1>2, <1>3 DEF Pending, Loads
<1>8. LoadedIsCurrent' /\ StoredIsCurrent'
  <2>1. Filled' => Filled
    BY <1>2, <1>3 DEF Filled, Threads
  <2>2. \A u \in Threads : pc'[u] \in {"clear", "fill"} <=> pc[u] \in {"clear", "fill"}
    BY <1>0, <1>2, <1>3
  <2> QED BY <1>7, <2>1, <2>2, QuietStep DEF IInv
<1> QED BY <1>1, <1>4, <1>5, <1>6, <1>8 DEF IInv

\* A row that is not stale is written.
LEMMA FlushRuleInv ==
  ASSUME IInv, NEW a \in Admins, NEW p \in Patterns, FlushRule(a, p)
  PROVE  IInv'
<1>0. TypeOK /\ a \in Threads /\ a \notin Readers /\ AdminInv(a) /\ pc[a] = "flush" /\ p \in rows[a]
  BY CacheAssumption DEF IInv, Threads, FlushRule
<1>1. CASE p \in stale[a]
  <2>1. Fail(a) /\ UNCHANGED <<table, stale>> /\ broken' = broken
    BY <1>1 DEF FlushRule, table
  <2>2. ~Loads(a)
    BY <1>0 DEF Loads
  <2> QED BY <1>0, <2>1, <2>2, FailInv
<1>2. CASE p \notin stale[a]
  <2> USE DEF cache, rebuild, scan
  <2>1. /\ rows' = [rows EXCEPT ![a] = @ \ {p}] /\ byRole' = byRole \cup {p} /\ UNCHANGED roles
        /\ UNCHANGED <<cache, lock, pc, rebuild, op, role, newRole, scan, edits>>
    BY <1>2 DEF FlushRule
  <2>2. \/ op[a] = "updateRole" /\ Commit(a, [db EXCEPT ![p] = Edited(a, @)], {p}) /\ held' = held
        \/ /\ op[a] = "deleteRole" /\ held' = [held EXCEPT ![a] = @ \cup {p}]
           /\ UNCHANGED <<db, ruled, stale>>
    BY <1>2 DEF FlushRule
  <2>3. /\ db' \in [Patterns -> Rule] /\ ruled' \in BOOLEAN
        /\ stale' \in [Admins -> SUBSET Patterns] /\ held' \in [Admins -> SUBSET Patterns]
        /\ \A q \in Patterns \ {p} : db'[q] = db[q]
        /\ \A b \in Admins \ {a} : held'[b] = held[b]
    <3>1. CASE op[a] = "deleteRole" /\ held' = [held EXCEPT ![a] = @ \cup {p}]
               /\ UNCHANGED <<db, ruled, stale>>
      BY <1>0, <3>1 DEF TypeOK
    <3>2. CASE op[a] = "updateRole" /\ Commit(a, [db EXCEPT ![p] = Edited(a, @)], {p})
               /\ held' = held
      <4>1. Edited(a, db[p]) \in Rule
        BY <1>0 DEF TypeOK, Rule, Edited
      <4>2. stale' \in [Admins -> SUBSET Patterns]
        BY <1>0, <3>2 DEF TypeOK, Commit
      <4> QED BY <1>0, <3>2, <4>1, <4>2 DEF TypeOK, Commit
    <3> QED BY <2>2, <3>1, <3>2
  <2>4. TypeOK'
    <3>1. rows' \in [Admins -> SUBSET Patterns] /\ byRole' \in SUBSET Patterns
      BY <1>0, <2>1 DEF TypeOK
    <3> QED BY <1>0, <2>1, <2>3, <3>1 DEF TypeOK
  <2>5. \A b \in Admins : AdminInv(b)'
    <3>1. AdminInv(a)'
      BY <1>0, <2>1, <2>2 DEF AdminInv, TypeOK
    <3>2. \A b \in Admins \ {a} : pc'[b] = pc[b] /\ op'[b] = op[b] /\ rows'[b] = rows[b]
                                  /\ held'[b] = held[b] /\ held[b] \cap byRole \subseteq byRole'
      BY <1>0, <2>1, <2>3 DEF TypeOK
    <3> QED BY <3>1, <3>2, OtherAdmins DEF IInv
  <2>6. (\A r \in Readers : ReaderInv(r)') /\ CleanScan'
    <3>1. \A r \in Readers : r # a /\ pc'[r] = pc[r]
      BY <1>0, <2>1
    <3> QED BY <2>1, <3>1, ReadersStay DEF CleanScan
  <2>7. \A u \in Threads : ResetInv(u)'
    BY <2>1 DEF IInv, ResetInv
  <2>8. Pending => Pending'
    <3>1. ~Loads(a) /\ \A u \in Threads \ {a} : pc'[u] = pc[u] /\ (u \in Admins => rows'[u] = rows[u])
      BY <1>0, <2>1 DEF Loads, TypeOK
    <3> QED BY <3>1, PendingStays
  <2>9. Saved' \subseteq Saved /\ \A q \in Saved' : db'[q] = db[q]
    BY <2>1, <2>3 DEF Saved
  <2>10. LoadedIsCurrent' /\ StoredIsCurrent'
    <3>1. LoadedIsCurrent'
      BY <2>1, <2>8, <2>9 DEF IInv, LoadedIsCurrent
    <3>2. (Filled' <=> Filled) /\ (Rebuilding' <=> Rebuilding)
      BY <2>1 DEF Filled, Rebuilding
    <3>3. StoredIsCurrent'
      BY <2>1, <2>8, <2>9, <3>2 DEF IInv, StoredIsCurrent
    <3> QED BY <3>1, <3>3
  <2> QED BY <2>4, <2>5, <2>6, <2>7, <2>10 DEF IInv
<1> QED BY <1>1, <1>2

LEMMA LoadInv ==
  ASSUME IInv, NEW t \in Threads, LoadRequestmaps(t)
  PROVE  IInv'
<1>0. TypeOK /\ pc[t] = "flush" /\ UNCHANGED <<table, stale>>
  BY DEF IInv, LoadRequestmaps
<1>1. CASE Fail(t) /\ broken' = TRUE
  BY <1>0, <1>1, FailInv
<1>2. CASE /\ data' = [data EXCEPT ![t] = View(t)]
           /\ todo' = [todo EXCEPT ![t] = {p \in Patterns : View(t)[p] # {}}]
           /\ Goto(t, "clear")
           /\ UNCHANGED <<cache, lock, op, role, newRole, rows, held, scan, edits>>
  <2> USE DEF Goto, table, cache, scan
  <2>1. View(t) \in [Patterns -> Rule]
    <3>1. \A p \in Patterns : t \in Admins => Edited(t, db[p]) \in Rule
      BY <1>0 DEF TypeOK, Edited, Rule
    <3> QED BY <3>1, <1>0 DEF TypeOK, View
  <2>2. TypeOK'
    <3>1. data' \in [Threads -> [Patterns -> Rule]] /\ todo' \in [Threads -> SUBSET Patterns]
      BY <1>0, <1>2, <2>1 DEF TypeOK
    <3>2. pc' \in [Threads -> Calls]
      BY <1>0, <1>2 DEF TypeOK, Calls
    <3>3. \A u \in Threads : pc'[u] \in InReset <=> lock' = u
      BY <1>0, <1>2 DEF TypeOK, InReset
    <3> QED BY <1>0, <1>2, <3>1, <3>2, <3>3 DEF TypeOK
  <2>3. \A u \in Threads \ {t} : pc'[u] = pc[u] /\ data'[u] = data[u] /\ todo'[u] = todo[u]
    BY <1>0, <1>2 DEF TypeOK
  <2>4. pc'[t] = "clear" /\ data'[t] = View(t) /\ todo'[t] = {p \in Patterns : data'[t][p] # {}}
    BY <1>0, <1>2 DEF TypeOK
  <2>5. \A b \in Admins : AdminInv(b)'
    <3>1. t \in Admins => AdminInv(t)'
      BY <1>0, <1>2, <2>4 DEF IInv, AdminInv, LoadRequestmaps
    <3>2. \A b \in Admins \ {t} : AdminInv(b)'
      BY <1>0, <1>2, <2>3, OtherAdmins DEF IInv, Threads
    <3> QED BY <3>1, <3>2
  <2>6. (\A r \in Readers : ReaderInv(r)') /\ CleanScan'
    <3>1. \A r \in Readers \ {t} : pc'[r] = pc[r]
      BY <2>3 DEF Threads
    <3>2. t \in Readers => ReaderInv(t)'
      BY <1>0, <1>2, <2>4 DEF IInv, ReaderInv
    <3> QED BY <1>2, <2>4, <3>1, <3>2, ReadersStay DEF CleanScan
  <2>7. \A u \in Threads : ResetInv(u)'
    BY <1>2, <2>3, <2>4 DEF IInv, ResetInv
  <2>8. LoadedIsCurrent'
    <3>1. \A u \in Threads \ {t} : pc[u] \notin {"clear", "fill"}
      BY <1>0, OneHolder DEF InReset
    <3>2. \A p \in Saved : View(t)[p] = db[p]
      BY <1>0 DEF IInv, AdminInv, View, Saved
    <3> QED BY <1>0, <2>3, <2>4, <3>1, <3>2 DEF LoadedIsCurrent, Saved
  <2>9. StoredIsCurrent'
    BY <2>4 DEF StoredIsCurrent, Rebuilding
  <2> QED BY <2>2, <2>5, <2>6, <2>7, <2>8, <2>9 DEF IInv
<1> QED BY <1>1, <1>2 DEF LoadRequestmaps

\* Every search under way is torn when the map changes.
LEMMA TornSearches ==
  ASSUME TypeOK, Tear, pc' \in [Threads -> Calls],
         \A r \in Readers : pc'[r] = "scan" => pc[r] = "scan"
  PROVE  CleanScan' /\ torn' \in [Readers -> BOOLEAN]
<1>1. torn' \in [Readers -> BOOLEAN]
  BY DEF TypeOK, Tear
<1>2. \A r \in Readers : pc'[r] = "scan" => torn'[r]
  BY DEF Tear
<1> QED BY <1>1, <1>2 DEF CleanScan

LEMMA TornReaders ==
  ASSUME TypeOK, Tear, NEW r \in Readers, ReaderInv(r), pc'[r] = pc[r],
         seen' = seen, cand' = cand
  PROVE  ReaderInv(r)'
BY DEF ReaderInv, Tear, TypeOK

LEMMA ResetConfigsInv ==
  ASSUME IInv, NEW t \in Threads, ResetConfigs(t)
  PROVE  IInv'
<1> USE DEF ResetConfigs, Goto, table, rebuild, session, scan
<1>0. TypeOK /\ pc[t] = "clear"
  BY DEF IInv
<1>1. \A u \in Threads \ {t} : pc'[u] = pc[u] /\ pc[u] \notin InReset
  BY <1>0, OneHolder DEF TypeOK, InReset
<1>2. pc'[t] = "fill" /\ pc' \in [Threads -> Calls]
  BY <1>0 DEF TypeOK, Calls
<1>3. \A r \in Readers : pc'[r] = "scan" => pc[r] = "scan"
  BY <1>1, <1>2 DEF Threads
<1>4. CleanScan' /\ torn' \in [Readers -> BOOLEAN]
  BY <1>0, <1>2, <1>3, TornSearches
<1>5. TypeOK'
  <2>1. compiled' \in [Patterns -> Rule]
    BY DEF NoRules, Rule
  <2>2. \A u \in Threads : pc'[u] \in InReset <=> lock' = u
    BY <1>0, <1>1, <1>2 DEF TypeOK, InReset
  <2> QED BY <1>0, <1>2, <1>4, <2>1, <2>2 DEF TypeOK
<1>6. \A b \in Admins : AdminInv(b)'
  <2>1. t \in Admins => AdminInv(t)'
    BY <1>0, <1>2 DEF IInv, AdminInv
  <2> QED BY <1>1, <2>1, OtherAdmins DEF IInv, Threads
<1>7. \A r \in Readers : ReaderInv(r)'
  <2>1. \A r \in Readers \ {t} : ReaderInv(r)'
    BY <1>0, <1>1, TornReaders DEF IInv, Threads
  <2>2. t \in Readers => ReaderInv(t)'
    BY <1>0, <1>2 DEF IInv, ReaderInv, Tear, TypeOK
  <2> QED BY <2>1, <2>2
<1>8. \A u \in Threads : ResetInv(u)'
  <2>1. ResetInv(t)'
    <3>1. \A p \in Patterns \ todo'[t] : data'[t][p] = {} /\ compiled'[p] = {}
      BY <1>0 DEF IInv, ResetInv, NoRules
    <3> QED BY <3>1, <1>2 DEF ResetInv
  <2>2. \A u \in Threads \ {t} : ResetInv(u)'
    BY <1>1 DEF ResetInv, InReset
  <2> QED BY <2>1, <2>2
<1>9. Pending => Pending'
  BY <1>0, <1>1, PendingStays DEF Loads
<1>10. LoadedIsCurrent'
  BY <1>0, <1>1, <1>9 DEF IInv, LoadedIsCurrent, Saved, InReset
<1>11. StoredIsCurrent'
  BY <1>2 DEF StoredIsCurrent, Rebuilding
<1> QED BY <1>4, <1>5, <1>6, <1>7, <1>8, <1>10, <1>11 DEF IInv

LEMMA CompileInv ==
  ASSUME IInv, NEW t \in Threads, NEW p \in Patterns, CompileAndStoreMapping(t, p)
  PROVE  IInv'
<1>0. TypeOK /\ pc[t] = "fill" /\ p \in todo[t] /\ UNCHANGED <<table, stale>>
  BY DEF IInv, CompileAndStoreMapping
<1>1. CASE Fail(t) /\ broken' = TRUE
  BY <1>0, <1>1, FailInv
<1>2. CASE /\ compiled' = [compiled EXCEPT ![p] = data[t][p]]
           /\ Tear
           /\ todo' = [todo EXCEPT ![t] = @ \ {p}]
           /\ UNCHANGED <<initialized, broken, lock, pc, data, op, role, newRole, rows, held, scan,
                          edits>>
  <2> USE DEF table, scan
  <2>1. CleanScan' /\ torn' \in [Readers -> BOOLEAN]
    <3>1. pc' \in [Threads -> Calls] /\ \A r \in Readers : pc'[r] = "scan" => pc[r] = "scan"
      BY <1>0, <1>2 DEF TypeOK
    <3> QED BY <1>0, <1>2, <3>1, TornSearches
  <2>2. TypeOK'
    <3>1. compiled' \in [Patterns -> Rule] /\ todo' \in [Threads -> SUBSET Patterns]
      BY <1>0, <1>2 DEF TypeOK
    <3> QED BY <1>0, <1>2, <2>1, <3>1 DEF TypeOK
  <2>3. \A b \in Admins : AdminInv(b)'
    BY <1>0, <1>2 DEF IInv, AdminInv
  <2>4. \A r \in Readers : ReaderInv(r)'
    BY <1>0, <1>2, TornReaders DEF IInv
  <2>5. \A u \in Threads : ResetInv(u)'
    <3>1. ResetInv(t)'
      <4>1. \A q \in Patterns \ todo'[t] : q = p \/ q \in Patterns \ todo[t]
        BY <1>0, <1>2 DEF TypeOK
      <4>2. \A q \in Patterns \ todo'[t] : compiled'[q] = data'[t][q]
        BY <1>0, <1>2, <4>1 DEF IInv, ResetInv, TypeOK
      <4> QED BY <1>0, <1>2, <4>2 DEF ResetInv
    <3>2. \A u \in Threads \ {t} : pc'[u] \notin {"clear", "fill"}
      BY <1>0, <1>2, OneHolder DEF InReset
    <3> QED BY <3>1, <3>2 DEF ResetInv
  <2>6. LoadedIsCurrent'
    BY <1>0, <1>2 DEF IInv, LoadedIsCurrent, Saved, Pending, Loads
  <2>7. StoredIsCurrent'
    BY <1>0, <1>2 DEF StoredIsCurrent, Rebuilding
  <2> QED BY <2>1, <2>2, <2>3, <2>4, <2>5, <2>6, <2>7 DEF IInv
<1> QED BY <1>1, <1>2 DEF CompileAndStoreMapping

\* The last entry is stored: the cache is what was loaded.
LEMMA LeaveResetInv ==
  ASSUME IInv, NEW t \in Threads, LeaveReset(t)
  PROVE  IInv'
<1> USE DEF LeaveReset, Goto, DropData, table, session, scan
<1>0. TypeOK /\ pc[t] = "fill" /\ todo[t] = {}
  BY DEF IInv
<1>1. \A u \in Threads \ {t} : /\ pc'[u] = pc[u] /\ pc[u] \notin InReset
                              /\ data'[u] = data[u] /\ todo'[u] = todo[u]
  BY <1>0, OneHolder DEF TypeOK, InReset
<1>2. pc'[t] = IF t \in Readers THEN "mark" ELSE IF op[t] = "deleteRole" THEN "grants" ELSE "idle"
  BY <1>0 DEF TypeOK
<1>3. TypeOK'
  <2>1. NoRules \in [Patterns -> Rule]
    BY DEF NoRules, Rule
  <2>2. data' \in [Threads -> [Patterns -> Rule]] /\ todo' \in [Threads -> SUBSET Patterns]
    BY <1>0, <2>1 DEF TypeOK
  <2>3. pc' \in [Threads -> Calls] /\ lock' \in Threads \cup {NoThread}
    BY <1>0 DEF TypeOK, Calls
  <2>4. \A u \in Threads : pc'[u] \in InReset <=> lock' = u
    BY <1>0, <1>1, <1>2, CacheAssumption DEF TypeOK, InReset
  <2> QED BY <1>0, <2>2, <2>3, <2>4 DEF TypeOK
<1>4. \A b \in Admins : AdminInv(b)'
  <2>1. t \in Admins => AdminInv(t)'
    BY <1>0, <1>2, Apart DEF IInv, AdminInv
  <2> QED BY <1>1, <2>1, OtherAdmins DEF IInv, Threads
<1>5. (\A r \in Readers : ReaderInv(r)') /\ CleanScan'
  <2>1. \A r \in Readers \ {t} : pc'[r] = pc[r]
    BY <1>1 DEF Threads
  <2>2. t \in Readers => ReaderInv(t)' /\ pc'[t] # "scan"
    BY <1>0, <1>2 DEF IInv, ReaderInv
  <2> QED BY <2>1, <2>2, ReadersStay DEF CleanScan
<1>6. \A u \in Threads : ResetInv(u)'
  BY <1>1, <1>2 DEF ResetInv, InReset
<1>7. \A u \in Threads : pc'[u] \notin {"clear", "fill"}
  BY <1>1, <1>2 DEF InReset
<1>8. Pending => Pending'
  BY <1>0, <1>1, PendingStays DEF Loads
<1>9. StoredIsCurrent'
  <2>1. \A p \in Patterns : compiled[p] = data[t][p]
    BY <1>0 DEF IInv, ResetInv
  <2>2. Pending \/ \A p \in Saved : data[t][p] = db[p]
    BY <1>0 DEF IInv, LoadedIsCurrent
  <2> QED BY <1>8, <2>1, <2>2 DEF StoredIsCurrent, Saved
<1>10. LoadedIsCurrent'
  BY <1>7 DEF LoadedIsCurrent
<1> QED BY <1>3, <1>4, <1>5, <1>6, <1>9, <1>10 DEF IInv

\* The transaction of deleteRole commits, or is rolled back.
LEMMA FinishDeleteRoleInv ==
  ASSUME IInv, NEW a \in Admins, FinishDeleteRole(a)
  PROVE  IInv'
<1>0. TypeOK /\ a \in Threads /\ a \notin Readers /\ AdminInv(a) /\ pc[a] = "grants"
  BY CacheAssumption DEF IInv, Threads, FinishDeleteRole
<1>1. CASE Fail(a) /\ UNCHANGED <<table, stale, broken>>
  BY <1>0, <1>1, FailInv DEF Loads
<1>2. CASE /\ Commit(a, View(a), held[a])
           /\ roles' = roles \ role[a]
           /\ held' = [held EXCEPT ![a] = {}]
           /\ Goto(a, "idle")
           /\ UNCHANGED <<byRole, cache, lock, rebuild, op, role, newRole, rows, scan, edits>>
  <2> USE DEF Commit, Goto, cache, rebuild, scan
  <2>1. TypeOK'
    <3>1. View(a) \in [Patterns -> Rule]
      <4>1. \A p \in Patterns : Edited(a, db[p]) \in Rule
        BY <1>0 DEF TypeOK, Edited, Rule
      <4> QED BY <4>1, <1>0 DEF TypeOK, View
    <3>2. ruled' \in BOOLEAN /\ roles' \in SUBSET Roles
      BY <1>0, <1>2 DEF TypeOK
    <3>3. stale' \in [Admins -> SUBSET Patterns] /\ held' \in [Admins -> SUBSET Patterns]
      BY <1>0, <1>2 DEF TypeOK
    <3>4. pc' \in [Threads -> Calls] /\ \A u \in Threads : pc'[u] \in InReset <=> lock' = u
      BY <1>0, <1>2 DEF TypeOK, Calls, InReset
    <3> QED BY <1>0, <1>2, <3>1, <3>2, <3>3, <3>4 DEF TypeOK
  <2>2. \A u \in Threads \ {a} : pc'[u] = pc[u]
    BY <1>0, <1>2 DEF TypeOK
  <2>3. pc'[a] = "idle" /\ held'[a] = {}
    BY <1>0, <1>2 DEF TypeOK
  <2>4. \A b \in Admins : AdminInv(b)'
    <3>1. AdminInv(a)'
      BY <1>0, <1>2, <2>3 DEF AdminInv
    <3>2. \A b \in Admins \ {a} : b \in Threads /\ held'[b] = held[b]
      BY <1>0, <1>2 DEF TypeOK, Threads
    <3>3. \A b \in Admins \ {a} : AdminInv(b)'
      BY <1>0, <1>2, <2>2, <3>2, OtherAdmins DEF IInv, TypeOK
    <3> QED BY <3>1, <3>3
  <2>5. (\A r \in Readers : ReaderInv(r)') /\ CleanScan'
    <3>1. \A r \in Readers : r # a /\ pc'[r] = pc[r]
      BY <1>0, <2>2 DEF Threads
    <3> QED BY <1>2, <3>1, ReadersStay DEF CleanScan
  <2>6. \A u \in Threads : ResetInv(u)'
    BY <1>2, <2>2, <2>3 DEF IInv, ResetInv
  <2>7. Pending => Pending'
    BY <1>0, <1>2, <2>2, PendingStays DEF Loads
  <2>8. \A p \in Saved : db'[p] = db[p]
    BY <1>0, <1>2 DEF AdminInv, View, Saved
  <2>9. (Filled' => Filled) /\ (Rebuilding => Rebuilding')
    BY <1>0, <1>2, <2>2, <2>3 DEF Filled, Rebuilding, Threads
  <2>10. LoadedIsCurrent'
    BY <1>2, <2>2, <2>3, <2>7, <2>8 DEF IInv, LoadedIsCurrent, Saved
  <2>11. StoredIsCurrent'
    BY <1>2, <2>7, <2>8, <2>9 DEF IInv, StoredIsCurrent, Saved
  <2> QED BY <2>1, <2>4, <2>5, <2>6, <2>10, <2>11 DEF IInv
<1> QED BY <1>1, <1>2 DEF FinishDeleteRole

----------------------------------------------------------------------------
(* Readers.                                                                *)

\* A step of reader r outside the monitor that leaves the table, the cache
\* and the resets alone.
LEMMA ReaderStepInv ==
  ASSUME IInv, NEW r \in Readers, NEW call \in {"idle", "enter", "scan"},
         pc[r] \in {"idle", "mark", "scan"}, Goto(r, call), pc[r] = "mark" => initialized',
         call # "enter" \/ pc[r] = "idle",
         ReaderInv(r)', call = "scan" /\ ~torn'[r] => BestSoFar(r)',
         \A q \in Readers \ {r} : torn'[q] = torn[q] /\ seen'[q] = seen[q] /\ cand'[q] = cand[q]
                                  /\ found'[q] = found[q],
         initialized' => initialized \/ pc[r] = "mark", initialized => initialized',
         UNCHANGED <<table, compiled, broken, lock, rebuild, session, edits>>, TypeOK'
  PROVE  IInv'
<1> USE DEF Goto, table, rebuild, session
<1>0. TypeOK /\ r \in Threads /\ r \notin Admins
  BY CacheAssumption DEF IInv, Threads
<1>1. pc'[r] = call /\ \A u \in Threads \ {r} : pc'[u] = pc[u]
  BY <1>0 DEF TypeOK
<1>2. \A a \in Admins : AdminInv(a)'
  BY <1>0, <1>1 DEF IInv, AdminInv, Threads
<1>3. \A q \in Readers : ReaderInv(q)'
  BY <1>1 DEF IInv, ReaderInv, Threads
<1>4. CleanScan'
  <2>1. \A q \in Readers \ {r} : pc'[q] = "scan" /\ ~torn'[q] => BestSoFar(q)'
    BY <1>1, OtherScans DEF IInv, Threads
  <2> QED BY <1>1, <2>1 DEF CleanScan
<1>5. \A u \in Threads : ResetInv(u)'
  BY <1>1 DEF IInv, ResetInv
<1>6. Pending => Pending'
  <2>1. ~Loads(r)
    BY DEF Loads
  <2> QED BY <1>1, <2>1, PendingStays
<1>7. Filled' => Filled
  BY <1>1 DEF Filled, Threads
<1>8. \A u \in Threads : pc'[u] \in {"clear", "fill"} <=> pc[u] \in {"clear", "fill"}
  BY <1>0, <1>1
<1>9. LoadedIsCurrent' /\ StoredIsCurrent'
  BY <1>6, <1>7, <1>8, QuietStep DEF IInv
<1> QED BY <1>2, <1>3, <1>4, <1>5, <1>9 DEF IInv

LEMMA BeginFindInv ==
  ASSUME IInv, NEW r \in Readers, BeginFind(r)
  PROVE  IInv'
<1> USE DEF table, rebuild, session, scan
<1>0. TypeOK /\ r \in Threads /\ ReaderInv(r) /\ pc[r] = "idle"
      /\ UNCHANGED <<table, compiled, initialized, broken, lock, rebuild, session, edits>>
      /\ UNCHANGED <<torn, seen, cand, found>>
  BY DEF IInv, Threads, BeginFind, StartScan
<1>1. PICK call \in {"enter", "scan"} : Goto(r, call)
  BY DEF BeginFind, StartScan
<1>2. pc' = [pc EXCEPT ![r] = call] /\ pc'[r] = call
  BY <1>0, <1>1 DEF TypeOK, Goto
<1>3. TypeOK'
  <2>1. answer' \in [Readers -> {"none", "rule", "open", "deny", "error"}]
    BY <1>0 DEF BeginFind, StartScan, TypeOK
  <2>2. pc' \in [Threads -> Calls] /\ \A u \in Threads : pc'[u] \in InReset <=> lock' = u
    BY <1>0, <1>2 DEF TypeOK, Calls, InReset
  <2> QED BY <1>0, <2>1, <2>2 DEF TypeOK
<1>4. ReaderInv(r)' /\ BestSoFar(r)'
  BY <1>0, <1>2 DEF ReaderInv, BestSoFar
<1> QED BY <1>0, <1>1, <1>3, <1>4, ReaderStepInv

LEMMA MarkInitializedInv ==
  ASSUME IInv, NEW r \in Readers, MarkInitialized(r)
  PROVE  IInv'
<1> USE DEF table, rebuild, session, scan
<1>0. TypeOK /\ r \in Threads /\ ReaderInv(r) /\ pc[r] = "mark" /\ initialized' = TRUE
      /\ UNCHANGED <<table, compiled, broken, lock, rebuild, session, edits>>
      /\ UNCHANGED <<torn, seen, cand, found>> /\ Goto(r, "scan")
  BY DEF IInv, Threads, MarkInitialized, StartScan
<1>2. pc' = [pc EXCEPT ![r] = "scan"] /\ pc'[r] = "scan"
  BY <1>0 DEF TypeOK, Goto
<1>3. TypeOK'
  <2>1. answer' \in [Readers -> {"none", "rule", "open", "deny", "error"}]
    BY <1>0 DEF MarkInitialized, StartScan, TypeOK
  <2>2. pc' \in [Threads -> Calls] /\ \A u \in Threads : pc'[u] \in InReset <=> lock' = u
    BY <1>0, <1>2 DEF TypeOK, Calls, InReset
  <2> QED BY <1>0, <2>1, <2>2 DEF TypeOK
<1>4. ReaderInv(r)' /\ BestSoFar(r)'
  BY <1>0, <1>2 DEF ReaderInv, BestSoFar
<1> QED BY <1>0, <1>3, <1>4, ReaderStepInv

\* One more entry: if it is more specific than those passed it becomes the
\* candidate, and if one of those is more specific it does not.
LEMMA VisitInv ==
  ASSUME IInv, NEW r \in Readers, NEW p \in Patterns, Visit(r, p)
  PROVE  IInv'
<1> USE DEF table, cache, rebuild, session
<1>0. TypeOK /\ r \in Threads /\ pc[r] = "scan" /\ ReaderInv(r) /\ p \notin seen[r]
      /\ UNCHANGED <<table, cache, lock, pc, rebuild, session, answer, edits>>
      /\ seen' = [seen EXCEPT ![r] = @ \cup {p}]
  BY DEF IInv, Threads, Visit
<1> DEFINE Taken == compiled[p] # {} /\ p \in Hits /\ (cand[r] = NoPattern \/ <<cand[r], p>> \in Covers)
<1>2. \/ Taken /\ cand' = [cand EXCEPT ![r] = p] /\ found' = [found EXCEPT ![r] = compiled[p]]
      \/ ~Taken /\ UNCHANGED <<cand, found>>
  BY DEF Visit
<1>3. TypeOK'
  <2>1. seen' \in [Readers -> SUBSET Patterns]
    BY <1>0 DEF TypeOK
  <2>2. compiled[p] \in Rule
    BY <1>0 DEF TypeOK
  <2>3. cand' \in [Readers -> Patterns \cup {NoPattern}] /\ found' \in [Readers -> Rule]
    <3>1. CASE cand' = [cand EXCEPT ![r] = p] /\ found' = [found EXCEPT ![r] = compiled[p]]
      BY <1>0, <2>2, <3>1 DEF TypeOK
    <3>2. CASE UNCHANGED <<cand, found>>
      BY <1>0, <3>2 DEF TypeOK
    <3> HIDE DEF Taken
    <3> QED BY <1>2, <3>1, <3>2
  <2> QED BY <1>0, <2>1, <2>3 DEF TypeOK
<1>4. Goto(r, "scan")
  BY <1>0 DEF Goto, TypeOK
<1>5. \A q \in Readers \ {r} : seen'[q] = seen[q] /\ cand'[q] = cand[q] /\ found'[q] = found[q]
  BY <1>0, <1>2 DEF TypeOK
<1>6. ReaderInv(r)'
  BY <1>0 DEF ReaderInv
<1>7. ASSUME ~torn'[r] PROVE BestSoFar(r)'
  <2> DEFINE D == {q \in seen[r] \cap Hits : compiled[q] # {}}
             E == {q \in seen'[r] \cap Hits : compiled'[q] # {}}
  <2>1. E = IF compiled[p] # {} /\ p \in Hits THEN D \cup {p} ELSE D
    BY <1>0 DEF TypeOK
  <2>2. /\ cand[r] \in D \cup {NoPattern}
        /\ D # {} => cand[r] # NoPattern /\ found[r] = compiled[cand[r]]
        /\ \A m \in D : MostSpecific(D, m) => cand[r] = m
    BY <1>0, <1>7 DEF IInv, CleanScan, BestSoFar
  <2>3. NoPattern \notin D /\ p \notin D
    BY <1>0, CacheAssumption DEF TypeOK
  <2>4. /\ cand'[r] \in E \cup {NoPattern}
        /\ E # {} => cand'[r] # NoPattern /\ found'[r] = compiled'[cand'[r]]
    <3>1. CASE Taken
      BY <1>0, <1>2, <2>1, <3>1, CacheAssumption DEF TypeOK
    <3>2. CASE ~Taken
      <4>1. D \subseteq E /\ (D = {} => E = {})
        BY <2>1, <2>2, <3>2
      <4> QED BY <1>0, <1>2, <2>2, <3>2, <4>1
    <3> QED BY <3>1, <3>2
  <2>5. \A m \in E : MostSpecific(E, m) => cand'[r] = m
    <3> SUFFICES ASSUME NEW m \in E, MostSpecific(E, m) PROVE cand'[r] = m
      OBVIOUS
    <3>1. CASE m = p
      <4>1. Taken
        <5>1. compiled[p] # {} /\ p \in Hits
          BY <2>1, <2>3, <3>1
        <5>2. cand[r] = NoPattern \/ cand[r] \in E \ {m}
          BY <2>1, <2>2, <2>3, <3>1
        <5> QED BY <3>1, <5>1, <5>2 DEF MostSpecific
      <4> QED BY <1>0, <1>2, <3>1, <4>1 DEF TypeOK
    <3>2. CASE m # p
      <4>1. m \in D /\ D \subseteq E
        BY <2>1, <3>2
      <4>2. cand[r] = m
        BY <2>2, <4>1 DEF MostSpecific
      <4>3. ~Taken
        <5>1. p \in E => <<m, p>> \notin Covers
          BY <3>2 DEF MostSpecific
        <5> QED BY <2>1, <2>3, <4>1, <4>2, <5>1
      <4> QED BY <1>2, <4>2, <4>3
    <3> QED BY <3>1, <3>2
  <2> QED BY <2>4, <2>5 DEF BestSoFar, MostSpecific
<1>8. UNCHANGED <<table, compiled, broken, lock, rebuild, session, edits>>
      /\ initialized' = initialized /\ torn' = torn
  BY <1>0
<1> QED BY <1>0, <1>3, <1>4, <1>5, <1>6, <1>7, <1>8, ReaderStepInv

\* A search returns, with an answer or an exception.
LEMMA AnswerInv ==
  ASSUME IInv, NEW r \in Readers, NEW a \in {"rule", "open", "deny", "error"}, pc[r] = "scan",
         Answer(r, a), UNCHANGED <<table, compiled, initialized, broken, lock, rebuild, session, edits>>
  PROVE  IInv'
<1> USE DEF table, rebuild, session
<1>0. TypeOK /\ r \in Threads
  BY DEF IInv, Threads
<1>1. TypeOK'
  <2>1. /\ seen' \in [Readers -> SUBSET Patterns] /\ cand' \in [Readers -> Patterns \cup {NoPattern}]
        /\ found' \in [Readers -> Rule] /\ torn' \in [Readers -> BOOLEAN]
        /\ answer' \in [Readers -> {"none", "rule", "open", "deny", "error"}]
    BY <1>0 DEF TypeOK, Answer, Rule
  <2>2. pc' \in [Threads -> Calls] /\ \A u \in Threads : pc'[u] \in InReset <=> lock' = u
    BY <1>0 DEF TypeOK, Calls, InReset, Answer, Goto
  <2> QED BY <1>0, <2>1, <2>2 DEF TypeOK
<1>2. ReaderInv(r)'
  BY <1>0 DEF ReaderInv, Answer, Goto, TypeOK
<1>3. \A q \in Readers \ {r} : torn'[q] = torn[q] /\ seen'[q] = seen[q] /\ cand'[q] = cand[q]
                               /\ found'[q] = found[q]
  BY <1>0 DEF Answer, TypeOK
<1> QED BY <1>0, <1>1, <1>2, <1>3, ReaderStepInv DEF Answer

----------------------------------------------------------------------------
LEMMA StepInv == IInv /\ [Next]_vars => IInv'
<1> SUFFICES ASSUME IInv, [Next]_vars PROVE IInv'
  OBVIOUS
<1>1. CASE UNCHANGED vars
  <2> USE <1>1 DEF vars, table, cache, rebuild, session, scan
  <2>1. TypeOK'
    BY DEF IInv, TypeOK
  <2>2. (\A a \in Admins : AdminInv(a)') /\ (\A r \in Readers : ReaderInv(r)')
        /\ \A t \in Threads : ResetInv(t)'
    BY DEF IInv, AdminInv, ReaderInv, ResetInv
  <2>3. LoadedIsCurrent' /\ StoredIsCurrent'
    BY DEF IInv, LoadedIsCurrent, StoredIsCurrent, Saved, Pending, Loads, Filled, Rebuilding
  <2>4. CleanScan'
    BY DEF IInv, CleanScan, BestSoFar, MostSpecific
  <2> QED BY <2>1, <2>2, <2>3, <2>4 DEF IInv
<1>2. ASSUME NEW t \in Threads, Reset(t) PROVE IInv'
  BY <1>2, EnterResetInv, LoadInv, ResetConfigsInv, CompileInv, LeaveResetInv DEF Reset
<1>3. ASSUME NEW r \in Readers, BeginFind(r) \/ ReaderStep(r) PROVE IInv'
  <2>1. r \in Threads
    BY DEF Threads
  <2>2. CASE ThrowConcurrentModification(r)
    BY <2>2, AnswerInv DEF ThrowConcurrentModification
  <2>3. CASE FinishFind(r)
    BY <2>3, AnswerInv DEF FinishFind
  <2> QED BY <1>2, <1>3, <2>1, <2>2, <2>3, BeginFindInv, MarkInitializedInv, VisitInv DEF ReaderStep
<1>4. ASSUME NEW a \in Admins, SaveRule(a) \/ UpdateRole(a) \/ DeleteRole(a) \/ AdminStep(a)
      PROVE IInv'
  <2>1. a \in Threads
    BY DEF Threads
  <2> QED BY <1>2, <1>4, <2>1, SaveRuleInv, UpdateRoleInv, DeleteRoleInv, FinishDeleteRoleInv,
             FlushRuleInv DEF AdminStep
<1> QED BY <1>1, <1>3, <1>4 DEF Next

LEMMA Invariance == Spec => []IInv
BY InitInv, StepInv, PTL DEF Spec

\* Every variable keeps its type, and the thread that holds the monitor is the
\* one that is inside reset(): no two threads ever are.
THEOREM TypeCorrect == Spec => []TypeOK
BY Invariance, PTL DEF IInv

\* When no reset is under way and the last one was completed, the cache holds
\* every rule whose last writer was a save, for any number of threads and of
\* operations.
THEOREM SavesSeen == Spec => []SavesAreSeen
<1>1. IInv => SavesAreSeen
  <2> SUFFICES ASSUME IInv, AtRest, ~broken PROVE \A p \in Patterns \ byRole : compiled[p] = db[p]
    BY DEF SavesAreSeen
  <2>1. ~Pending /\ ~Rebuilding
    BY DEF AtRest, Pending, Loads, Rebuilding
  <2> QED BY <2>1 DEF IInv, StoredIsCurrent, Filled, AtRest, Saved
<1> QED BY <1>1, Invariance, PTL

\* A search that no reset disturbs has the most specific of the rules it has
\* passed, in whatever order the hash map yields them and however many
\* patterns there are.
THEOREM CleanSearch == Spec => []CleanScan
BY Invariance, PTL DEF IInv
=============================================================================
