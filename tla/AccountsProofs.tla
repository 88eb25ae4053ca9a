--------------------------- MODULE AccountsProofs ---------------------------
(***************************************************************************)
(* Proofs about Accounts for any numbers of threads, rows, logins and      *)
(* passwords.  The invariant says, beside the types, that logins are       *)
(* unique, that passwords have been hashed once, and what the history of   *)
(* an authentication knows at each of its steps: the present validity of   *)
(* the credentials is always part of it, and once the known password has   *)
(* been loaded, so is the outcome of the comparison to come.               *)
(***************************************************************************)
EXTENDS Accounts, TLAPS

\* A worker that is about to write has a row to change, or a new one to make.
WorkerInv(w) ==
    /\ op[w] = "none" <=> pc[w] = "idle"
    /\ op[w] \in {"update", "delete"} => id[w] \in Ids
    /\ op[w] \in {"save", "update"} => form[w].login \in Logins

\* What is known of the credentials of v while it authenticates, and after.
VisitorInv(v) ==
    /\ pc[v] # "idle" =>
        /\ text[v] # Blank
        /\ answer[v] = "pending"
        /\ Verdict(life, login, password, name[v], text[v]) \in was[v]
    /\ pc[v] = "salt" =>
        IF expected[v] = SHA1(text[v]) THEN "valid" \in was[v] ELSE "invalid" \in was[v]
    /\ pc[v] = "exists" => "valid" \in was[v]
    /\ answer[v] = "accepted" => "valid" \in was[v]
    /\ answer[v] = "refused" => "invalid" \in was[v]

IInv ==
    /\ TypeOK
    /\ \A w \in Workers : WorkerInv(w)
    /\ OneAccountPerLogin
    /\ HashedOnce
    /\ \A v \in Visitors : VisitorInv(v)

----------------------------------------------------------------------------
(* Lemmas: the types of what is written, and the table's two writers. *)

LEMMA HashType == ASSUME NEW t \in Texts PROVE Hash(t) \in Stored
  BY DEF Hash, Stored, Forms

LEMMA NoPasswordType == NoPassword \in Stored
  BY AccountsAssumption DEF NoPassword, Stored, Forms

LEMMA WantedType ==
  ASSUME TypeOK, NEW w \in Workers, WorkerInv(w), op[w] \in {"save", "update"}
  PROVE  /\ Wanted(w).login \in Logins
         /\ Wanted(w).password \in Stored
         /\ \E t \in Texts : Wanted(w).password = Hash(t)
<1>1. form[w].login \in Logins /\ form[w].text \in Texts
  BY DEF TypeOK, WorkerInv
<1>2. Wanted(w).login = form[w].login /\ Wanted(w).password = Hash(form[w].text)
  BY DEF Wanted
<1> QED BY <1>1, <1>2, HashType

\* A worker that writes changes no visitor, and every history notes the change.
LEMMA StoreKeepsVisitors ==
  ASSUME TypeOK, NEW w \in Workers, NEW v \in Visitors, VisitorInv(v),
         NEW lf, NEW lg, NEW pw, Store(lf, lg, pw), Finish(w), UNCHANGED <<visit, answer>>
  PROVE  VisitorInv(v)' /\ was'[v] \in SUBSET {"valid", "invalid"}
<1>1. w # v
  BY AccountsAssumption
<1>2. pc'[v] = pc[v]
  BY <1>1 DEF Finish, Goto, TypeOK, Threads
<1>3. /\ name' = name /\ text' = text /\ expected' = expected /\ answer' = answer
  BY DEF visit
<1>4. life' = lf /\ login' = lg /\ password' = pw
  BY DEF Store
<1>5. was'[v] = IF pc[v] = "idle" THEN was[v]
                ELSE was[v] \cup {Verdict(lf, lg, pw, name[v], text[v])}
  BY DEF Store
<1>6. Verdict(lf, lg, pw, name[v], text[v]) \in {"valid", "invalid"}
  BY DEF Verdict
<1>7. was[v] \subseteq was'[v] /\ was'[v] \in SUBSET {"valid", "invalid"}
  BY <1>5, <1>6 DEF TypeOK
<1>8. pc[v] # "idle" =>
        Verdict(life', login', password', name'[v], text'[v]) \in was'[v]
  BY <1>3, <1>4, <1>5
<1> QED BY <1>2, <1>3, <1>7, <1>8 DEF VisitorInv, SHA1

\* A step that leaves the table and the gateway alone, for one visitor.
LEMMA IdleVisitor ==
  ASSUME NEW v \in Visitors, VisitorInv(v),
         life' = life, login' = login, password' = password,
         pc'[v] = pc[v], name'[v] = name[v], text'[v] = text[v], expected'[v] = expected[v],
         answer'[v] = answer[v], was'[v] = was[v]
  PROVE  VisitorInv(v)'
  BY DEF VisitorInv, SHA1, Verdict, Valid

\* The credentials of a visitor whose login no row has are not valid; those
\* of one whose row it has read are, exactly if the passwords agree.
LEMMA NotFound ==
  ASSUME NEW v \in Visitors, Found(v) = {}
  PROVE  Verdict(life, login, password, name[v], text[v]) = "invalid"
  BY DEF Found, Present, Verdict, Valid

LEMMA FoundOne ==
  ASSUME OneAccountPerLogin, NEW v \in Visitors, NEW i \in Found(v), text[v] # Blank
  PROVE  Verdict(life, login, password, name[v], text[v]) =
            IF password[i] = SHA1(text[v]) THEN "valid" ELSE "invalid"
<1>1. i \in Ids /\ life[i] = "present" /\ login[i] = name[v]
  BY DEF Found, Present
<1>2. CASE password[i] = SHA1(text[v])
  BY <1>1, <1>2 DEF Verdict, Valid
<1>3. CASE password[i] # SHA1(text[v])
  <2>1. SUFFICES ASSUME NEW j \in Ids, life[j] = "present", login[j] = name[v]
                 PROVE  password[j] # SHA1(text[v])
    BY <1>3 DEF Verdict, Valid
  <2>2. j = i
    BY <1>1, <2>1 DEF OneAccountPerLogin, Present
  <2> QED BY <2>2, <1>3
<1> QED BY <1>2, <1>3

\* A row is inserted or rewritten with a login no other row has.
LEMMA PutKeepsRows ==
  ASSUME TypeOK, OneAccountPerLogin, HashedOnce, NEW i \in Ids, NEW c,
         c.login \in Logins, c.password \in Stored, \E t \in Texts : c.password = Hash(t),
         Free(c.login, i), Put(i, c), UNCHANGED granted
  PROVE  /\ life' \in [Ids -> {"new", "present", "deleted"}]
         /\ login' \in [Ids -> Logins \cup {NoLogin}]
         /\ password' \in [Ids -> Stored]
         /\ granted' \subseteq Present'
         /\ OneAccountPerLogin'
         /\ HashedOnce'
<1>1. /\ life' = [life EXCEPT ![i] = "present"]
      /\ login' = [login EXCEPT ![i] = c.login]
      /\ password' = [password EXCEPT ![i] = c.password]
  BY DEF Put, Store
<1>2. /\ life \in [Ids -> {"new", "present", "deleted"}]
      /\ login \in [Ids -> Logins \cup {NoLogin}]
      /\ password \in [Ids -> Stored]
      /\ granted \subseteq Present
  BY DEF TypeOK
<1>3. Present' = Present \cup {i}
  BY <1>1, <1>2 DEF Present
<1>4. OneAccountPerLogin'
  <2> SUFFICES ASSUME NEW j \in Present', NEW k \in Present', login'[j] = login'[k]
               PROVE  j = k
    BY DEF OneAccountPerLogin
  <2>0. j \in Ids /\ k \in Ids
    BY DEF Present
  <2>1. CASE j = i \/ k = i
    BY <1>1, <1>2, <1>3, <2>0, <2>1 DEF Free
  <2>2. CASE j # i /\ k # i
    BY <1>1, <1>2, <1>3, <2>0, <2>2 DEF OneAccountPerLogin
  <2> QED BY <2>1, <2>2
<1>5. HashedOnce'
  <2> SUFFICES ASSUME NEW j \in Present' PROVE \E t \in Texts : password'[j] = Hash(t)
    BY DEF HashedOnce, Hash
  <2>0. j \in Ids
    BY DEF Present
  <2>1. CASE j = i
    BY <1>1, <1>2, <2>1
  <2>2. CASE j # i
    BY <1>1, <1>2, <1>3, <2>0, <2>2 DEF HashedOnce
  <2> QED BY <2>1, <2>2
<1>6. life' \in [Ids -> {"new", "present", "deleted"}]
  BY <1>1, <1>2
<1>7. login' \in [Ids -> Logins \cup {NoLogin}]
  BY <1>1, <1>2
<1>8. password' \in [Ids -> Stored]
  BY <1>1, <1>2
<1> QED BY <1>2, <1>3, <1>4, <1>5, <1>6, <1>7, <1>8

LEMMA RemoveKeepsRows ==
  ASSUME TypeOK, OneAccountPerLogin, HashedOnce, NEW i \in Ids, i \notin granted,
         Remove(i), UNCHANGED granted
  PROVE  /\ life' \in [Ids -> {"new", "present", "deleted"}]
         /\ login' \in [Ids -> Logins \cup {NoLogin}]
         /\ password' \in [Ids -> Stored]
         /\ granted' \subseteq Present'
         /\ OneAccountPerLogin'
         /\ HashedOnce'
<1>1. /\ life' = [life EXCEPT ![i] = "deleted"]
      /\ login' = [login EXCEPT ![i] = NoLogin]
      /\ password' = [password EXCEPT ![i] = NoPassword]
  BY DEF Remove, Store
<1>2. /\ life \in [Ids -> {"new", "present", "deleted"}]
      /\ login \in [Ids -> Logins \cup {NoLogin}]
      /\ password \in [Ids -> Stored]
      /\ granted \subseteq Present
  BY DEF TypeOK
<1>3. Present' = Present \ {i}
  BY <1>1, <1>2 DEF Present
<1>4. \A j \in Present' : j \in Present /\ login'[j] = login[j] /\ password'[j] = password[j]
  BY <1>1, <1>2, <1>3 DEF Present
<1>5. OneAccountPerLogin'
  BY <1>4 DEF OneAccountPerLogin
<1>6. HashedOnce'
  BY <1>4 DEF HashedOnce, Hash
<1>7. life' \in [Ids -> {"new", "present", "deleted"}]
  BY <1>1, <1>2
<1>8. login' \in [Ids -> Logins \cup {NoLogin}]
  BY <1>1, <1>2
<1>9. password' \in [Ids -> Stored]
  BY <1>1, <1>2, NoPasswordType
<1> QED BY <1>2, <1>3, <1>5, <1>6, <1>7, <1>8, <1>9

\* The rows do not change.
LEMMA SameRows ==
  ASSUME OneAccountPerLogin, HashedOnce, life' = life, login' = login, password' = password
  PROVE  Present' = Present /\ OneAccountPerLogin' /\ HashedOnce'
  BY DEF OneAccountPerLogin, HashedOnce, Present, Hash

\* A worker ends its request.
LEMMA FinishKeepsWorkers ==
  ASSUME TypeOK, \A u \in Workers : WorkerInv(u), NEW w \in Workers, Finish(w)
  PROVE  /\ \A u \in Workers : WorkerInv(u)'
         /\ pc' \in [Threads -> {"idle", "get", "validate", "write",
                                "username", "password", "salt", "exists"}]
         /\ op' \in [Workers -> {"none", "save", "update", "delete"}]
         /\ id' \in [Workers -> Ids \cup {NoId}]
         /\ form' \in [Workers -> [login : Logins \cup {NoLogin}, text : Texts]]
         /\ snapshot' \in [Workers -> Columns]
         /\ \A v \in Visitors : pc'[v] = pc[v]
<1>1. /\ pc' = [pc EXCEPT ![w] = "idle"]
      /\ op' = [op EXCEPT ![w] = "none"]
      /\ id' = [id EXCEPT ![w] = NoId]
      /\ form' = [form EXCEPT ![w] = NoForm]
      /\ snapshot' = [snapshot EXCEPT ![w] = NoColumns]
  BY DEF Finish, Goto
<1>2. NoForm \in [login : Logins \cup {NoLogin}, text : Texts] /\ NoColumns \in Columns
  BY AccountsAssumption, NoPasswordType DEF NoForm, NoColumns, Columns
<1>3. \A v \in Visitors : v # w
  BY AccountsAssumption
<1>4. \A u \in Workers : WorkerInv(u)'
  <2> TAKE u \in Workers
  <2>1. CASE u = w
    BY <1>1, <2>1 DEF WorkerInv, TypeOK, Threads
  <2>2. CASE u # w
    BY <1>1, <2>2 DEF WorkerInv, TypeOK, Threads
  <2> QED BY <2>1, <2>2
<1> QED BY <1>1, <1>2, <1>3, <1>4 DEF TypeOK, Threads

----------------------------------------------------------------------------
(* The steps. *)

LEMMA InitInv == Init => IInv
<1> SUFFICES ASSUME Init PROVE IInv
  OBVIOUS
<1>1. TypeOK
  BY AccountsAssumption, NoPasswordType DEF Init, TypeOK, NoForm, NoColumns, Columns, Threads, Present
<1>2. \A w \in Workers : WorkerInv(w)
  BY AccountsAssumption DEF Init, WorkerInv, Threads
<1>3. OneAccountPerLogin /\ HashedOnce
  BY DEF Init, OneAccountPerLogin, HashedOnce, Present
<1>4. \A v \in Visitors : VisitorInv(v)
  BY DEF Init, VisitorInv, Threads
<1> QED BY <1>1, <1>2, <1>3, <1>4 DEF IInv

\* A worker's step that only reads: the rows and the gateway stay as they are.
LEMMA ReadKeepsInv ==
  ASSUME IInv, NEW w \in Workers, UNCHANGED <<table, visit, answer, was>>,
         \A u \in Workers : WorkerInv(u)',
         pc' \in [Threads -> {"idle", "get", "validate", "write",
                             "username", "password", "salt", "exists"}],
         op' \in [Workers -> {"none", "save", "update", "delete"}],
         id' \in [Workers -> Ids \cup {NoId}],
         form' \in [Workers -> [login : Logins \cup {NoLogin}, text : Texts]],
         snapshot' \in [Workers -> Columns],
         \A v \in Visitors : pc'[v] = pc[v]
  PROVE  IInv'
<1>1. life' = life /\ login' = login /\ password' = password /\ granted' = granted
  BY DEF table
<1>2. name' = name /\ text' = text /\ expected' = expected
  BY DEF visit
<1>3. Present' = Present /\ OneAccountPerLogin' /\ HashedOnce'
  BY <1>1, SameRows DEF IInv
<1>4. TypeOK'
  BY <1>1, <1>2, <1>3 DEF IInv, TypeOK
<1>5. \A v \in Visitors : VisitorInv(v)'
  BY <1>1, <1>2, IdleVisitor DEF IInv
<1> QED BY <1>3, <1>4, <1>5 DEF IInv

\* A worker's write that keeps the rows in order.
LEMMA WriteKeepsInv ==
  ASSUME IInv, NEW w \in Workers, Finish(w), UNCHANGED <<granted, visit, answer>>,
         NEW lf, NEW lg, NEW pw, Store(lf, lg, pw),
         life' \in [Ids -> {"new", "present", "deleted"}],
         login' \in [Ids -> Logins \cup {NoLogin}],
         password' \in [Ids -> Stored],
         granted' \subseteq Present', OneAccountPerLogin', HashedOnce'
  PROVE  IInv'
<1>1. \A v \in Visitors : VisitorInv(v)' /\ was'[v] \in SUBSET {"valid", "invalid"}
  BY StoreKeepsVisitors DEF IInv
<1>2. was' \in [Visitors -> SUBSET {"valid", "invalid"}]
  <2>1. was' = [v \in Visitors |-> was'[v]]
    BY DEF Store
  <2> QED BY <1>1, <2>1
<1>3. name' = name /\ text' = text /\ expected' = expected /\ answer' = answer
  BY DEF visit
<1>4. TypeOK'
  BY <1>2, <1>3, FinishKeepsWorkers DEF IInv, TypeOK
<1> QED BY <1>1, <1>4, FinishKeepsWorkers DEF IInv

\* A worker's request that ends without a write.
LEMMA FinishKeepsInv ==
  ASSUME IInv, NEW w \in Workers, Finish(w), UNCHANGED <<table, visit, answer, was>>
  PROVE  IInv'
  BY FinishKeepsWorkers, ReadKeepsInv DEF IInv

LEMMA BeginKeepsInv ==
  ASSUME IInv, NEW w \in Workers, NEW o \in {"save", "update", "delete"},
         NEW i \in Ids \cup {NoId}, o # "save" => i \in Ids,
         NEW f \in [login : Logins \cup {NoLogin}, text : Texts],
         o # "delete" => f.login \in Logins,
         NEW statement \in {"get", "validate"}, Begin(w, o, i, f, statement)
  PROVE  IInv'
<1>1. /\ pc' = [pc EXCEPT ![w] = statement]
      /\ op' = [op EXCEPT ![w] = o]
      /\ id' = [id EXCEPT ![w] = i]
      /\ form' = [form EXCEPT ![w] = f]
      /\ snapshot' = snapshot
      /\ UNCHANGED <<table, visit, answer, was>>
  BY DEF Begin, Goto
<1>2. \A u \in Workers : WorkerInv(u)'
  <2> TAKE u \in Workers
  <2>1. CASE u = w
    BY <1>1, <2>1 DEF IInv, WorkerInv, TypeOK, Threads
  <2>2. CASE u # w
    BY <1>1, <2>2 DEF IInv, WorkerInv, TypeOK, Threads
  <2> QED BY <2>1, <2>2
<1>3. \A v \in Visitors : pc'[v] = pc[v]
  BY <1>1, AccountsAssumption DEF IInv, TypeOK, Threads
<1> QED BY <1>1, <1>2, <1>3, ReadKeepsInv DEF IInv, TypeOK

LEMMA WorkKeepsInv ==
  ASSUME IInv, NEW w \in Workers, Work(w)
  PROVE  IInv'
<1> USE DEF IInv
<1>1. CASE BeginSave(w)
  <2>1. PICK n \in Logins, t \in Texts :
            Begin(w, "save", NoId, [login |-> n, text |-> t], "validate")
    BY <1>1 DEF BeginSave
  <2> QED BY <2>1, BeginKeepsInv
<1>2. CASE BeginUpdate(w)
  <2>1. PICK i \in {j \in Ids : life[j] # "new"}, n \in Logins, t \in Texts :
            Begin(w, "update", i, [login |-> n, text |-> t], "get")
    BY <1>2 DEF BeginUpdate
  <2> QED BY <2>1, BeginKeepsInv
<1>3. CASE BeginDelete(w)
  <2>1. PICK i \in {j \in Ids : life[j] # "new"} : Begin(w, "delete", i, NoForm, "get")
    BY <1>3 DEF BeginDelete
  <2>2. NoForm \in [login : Logins \cup {NoLogin}, text : Texts]
    BY AccountsAssumption DEF NoForm
  <2> QED BY <2>1, <2>2, BeginKeepsInv
<1>4. CASE GetUser(w)
  <2>1. CASE Finish(w)
    BY <1>4, <2>1, FinishKeepsInv DEF GetUser
  <2>2. CASE ~Finish(w)
    <3>1. /\ id[w] \in Present
          /\ snapshot' = [snapshot EXCEPT ![w] =
                [login |-> login[id[w]], password |-> password[id[w]]]]
          /\ pc[w] = "get"
          /\ pc' = [pc EXCEPT ![w] = IF op[w] = "update" THEN "validate" ELSE "write"]
          /\ op' = op /\ id' = id /\ form' = form
          /\ UNCHANGED <<table, visit, answer, was>>
      BY <1>4, <2>2 DEF GetUser, Goto
    <3>2. [login |-> login[id[w]], password |-> password[id[w]]] \in Columns
      BY <3>1 DEF TypeOK, Present, Columns
    <3>3. \A u \in Workers : WorkerInv(u)'
      BY <3>1 DEF WorkerInv, TypeOK, Threads
    <3>4. \A v \in Visitors : pc'[v] = pc[v]
      BY <3>1, AccountsAssumption DEF TypeOK, Threads
    <3> QED BY <3>1, <3>2, <3>3, <3>4, ReadKeepsInv DEF TypeOK
  <2> QED BY <2>1, <2>2
<1>5. CASE Validate(w)
  <2>1. CASE Finish(w)
    BY <1>5, <2>1, FinishKeepsInv DEF Validate
  <2>2. CASE ~Finish(w)
    <3>1. /\ pc[w] = "validate"
          /\ pc' = [pc EXCEPT ![w] = "write"]
          /\ op' = op /\ id' = id /\ form' = form /\ snapshot' = snapshot
          /\ UNCHANGED <<table, visit, answer, was>>
      BY <1>5, <2>2 DEF Validate, Goto, work
    <3>2. \A u \in Workers : WorkerInv(u)'
      BY <3>1 DEF WorkerInv, TypeOK, Threads
    <3>3. \A v \in Visitors : pc'[v] = pc[v]
      BY <3>1, AccountsAssumption DEF TypeOK, Threads
    <3> QED BY <3>1, <3>2, <3>3, ReadKeepsInv DEF TypeOK
  <2> QED BY <2>1, <2>2
<1>6. CASE InsertUser(w)
  <2>1. op[w] = "save" /\ Finish(w) /\ UNCHANGED <<granted, visit, answer>>
    BY <1>6 DEF InsertUser
  <2>2. CASE UNCHANGED <<life, login, password, was>>
    BY <2>1, <2>2, FinishKeepsInv DEF table
  <2>3. CASE Free(form[w].login, NoId) /\ \E i \in Ids : life[i] = "new" /\ Put(i, Wanted(w))
    <3>1. PICK i \in Ids : life[i] = "new" /\ Put(i, Wanted(w))
      BY <2>3
    <3>2. Free(Wanted(w).login, i)
      BY <2>3, AccountsAssumption DEF Free, Wanted, Present
    <3>3. /\ Wanted(w).login \in Logins /\ Wanted(w).password \in Stored
          /\ \E t \in Texts : Wanted(w).password = Hash(t)
      BY <2>1, WantedType
    <3> DEFINE c == Wanted(w)
    <3>4. /\ life' \in [Ids -> {"new", "present", "deleted"}]
          /\ login' \in [Ids -> Logins \cup {NoLogin}]
          /\ password' \in [Ids -> Stored]
          /\ granted' \subseteq Present' /\ OneAccountPerLogin' /\ HashedOnce'
      BY <2>1, <3>1, <3>2, <3>3, PutKeepsRows
    <3> QED BY <2>1, <3>1, <3>4, WriteKeepsInv DEF Put
  <2> QED BY <1>6, <2>2, <2>3 DEF InsertUser
<1>7. CASE UpdateUser(w)
  <2>1. op[w] = "update" /\ Finish(w) /\ UNCHANGED <<granted, visit, answer>>
    BY <1>7 DEF UpdateUser
  <2>2. CASE UNCHANGED <<life, login, password, was>>
    BY <2>1, <2>2, FinishKeepsInv DEF table
  <2>3. CASE id[w] \in Present /\ Free(form[w].login, id[w]) /\ Put(id[w], Wanted(w))
    <3>1. id[w] \in Ids /\ Free(Wanted(w).login, id[w]) /\ Put(id[w], Wanted(w))
      BY <2>3 DEF Present, Wanted
    <3>2. /\ Wanted(w).login \in Logins /\ Wanted(w).password \in Stored
          /\ \E t \in Texts : Wanted(w).password = Hash(t)
      BY <2>1, WantedType
    <3>3. /\ life' \in [Ids -> {"new", "present", "deleted"}]
          /\ login' \in [Ids -> Logins \cup {NoLogin}]
          /\ password' \in [Ids -> Stored]
          /\ granted' \subseteq Present' /\ OneAccountPerLogin' /\ HashedOnce'
      BY <2>1, <3>1, <3>2, PutKeepsRows
    <3> QED BY <2>1, <3>1, <3>3, WriteKeepsInv DEF Put
  <2> QED BY <1>7, <2>2, <2>3 DEF UpdateUser
<1>8. CASE DeleteUser(w)
  <2>1. op[w] = "delete" /\ Finish(w) /\ UNCHANGED <<granted, visit, answer>>
    BY <1>8 DEF DeleteUser
  <2>2. CASE UNCHANGED <<life, login, password, was>>
    BY <2>1, <2>2, FinishKeepsInv DEF table
  <2>3. CASE id[w] \in Present \ granted /\ Remove(id[w])
    <3>1. id[w] \in Ids /\ id[w] \notin granted /\ Remove(id[w])
      BY <2>3 DEF Present
    <3>2. /\ life' \in [Ids -> {"new", "present", "deleted"}]
          /\ login' \in [Ids -> Logins \cup {NoLogin}]
          /\ password' \in [Ids -> Stored]
          /\ granted' \subseteq Present' /\ OneAccountPerLogin' /\ HashedOnce'
      BY <2>1, <3>1, RemoveKeepsRows
    <3> QED BY <2>1, <3>1, <3>2, WriteKeepsInv DEF Remove
  <2> QED BY <1>8, <2>2, <2>3 DEF DeleteUser
<1> QED BY <1>1, <1>2, <1>3, <1>4, <1>5, <1>6, <1>7, <1>8 DEF Work

\* A visitor's step: the rows and the workers stay as they are, and so do the
\* other visitors.
LEMMA VisitKeepsInv ==
  ASSUME IInv, NEW v \in Visitors, UNCHANGED <<table, work>>,
         NEW statement \in {"idle", "username", "password", "salt", "exists"},
         pc' = [pc EXCEPT ![v] = statement],
         name' \in [Visitors -> Logins \cup {NoLogin}],
         text' \in [Visitors -> Texts],
         expected' \in [Visitors -> Stored],
         answer' \in [Visitors -> {"none", "pending", "accepted", "refused"}],
         was' \in [Visitors -> SUBSET {"valid", "invalid"}],
         \A u \in Visitors \ {v} :
            /\ name'[u] = name[u] /\ text'[u] = text[u] /\ expected'[u] = expected[u]
            /\ answer'[u] = answer[u] /\ was'[u] = was[u],
         VisitorInv(v)'
  PROVE  IInv'
<1>1. /\ life' = life /\ login' = login /\ password' = password /\ granted' = granted
      /\ op' = op /\ id' = id /\ form' = form /\ snapshot' = snapshot
  BY DEF table, work
<1>2. Present' = Present /\ OneAccountPerLogin' /\ HashedOnce'
  BY <1>1, SameRows DEF IInv
<1>3. TypeOK'
  BY <1>1, <1>2 DEF IInv, TypeOK, Threads
<1>4. \A w \in Workers : WorkerInv(w)'
  BY <1>1, AccountsAssumption DEF IInv, WorkerInv, TypeOK, Threads
<1>5. \A u \in Visitors : VisitorInv(u)'
  <2> TAKE u \in Visitors
  <2>1. CASE u = v
    BY <2>1
  <2>2. CASE u # v
    <3>1. pc'[u] = pc[u]
      BY <2>2 DEF IInv, TypeOK, Threads
    <3> QED BY <1>1, <2>2, <3>1, IdleVisitor DEF IInv
  <2> QED BY <2>1, <2>2
<1> QED BY <1>2, <1>3, <1>4, <1>5 DEF IInv

\* The gateway answers; a refusal has been right at some moment, and so has an
\* acceptance.
LEMMA AnswerKeepsInv ==
  ASSUME IInv, NEW v \in Visitors, NEW a \in {"accepted", "refused"},
         IF a = "accepted" THEN "valid" \in was[v] ELSE "invalid" \in was[v],
         Answer(v, a), UNCHANGED <<table, work, was>>
  PROVE  IInv'
<1>1. /\ pc' = [pc EXCEPT ![v] = "idle"]
      /\ answer' = [answer EXCEPT ![v] = a]
      /\ name' = [name EXCEPT ![v] = NoLogin]
      /\ text' = [text EXCEPT ![v] = Blank]
      /\ expected' = [expected EXCEPT ![v] = NoPassword]
  BY DEF Answer, Goto
<1>2. pc'[v] = "idle" /\ answer'[v] = a /\ was'[v] = was[v]
  BY <1>1 DEF IInv, TypeOK, Threads
<1>3. VisitorInv(v)'
  BY <1>2 DEF VisitorInv
<1> QED BY <1>1, <1>3, VisitKeepsInv, AccountsAssumption, NoPasswordType DEF IInv, TypeOK

\* The gateway has loaded something and goes on.
LEMMA LoadKeepsInv ==
  ASSUME IInv, NEW v \in Visitors, NEW statement \in {"password", "salt", "exists"},
         Load(v, statement), UNCHANGED <<table, work, was>>, pc[v] # "idle",
         NEW e \in Stored, expected' = [expected EXCEPT ![v] = e],
         statement = "salt" =>
            IF e = SHA1(text[v]) THEN "valid" \in was[v] ELSE "invalid" \in was[v],
         statement = "exists" => "valid" \in was[v]
  PROVE  IInv'
<1>1. pc' = [pc EXCEPT ![v] = statement] /\ name' = name /\ text' = text /\ answer' = answer
  BY DEF Load, Goto
<1>2. life' = life /\ login' = login /\ password' = password
  BY DEF table
<1>3. pc'[v] = statement /\ expected'[v] = e
  BY <1>1 DEF IInv, TypeOK, Threads
<1>4. VisitorInv(v)'
  BY <1>1, <1>2, <1>3 DEF IInv, VisitorInv, SHA1, Verdict, Valid
<1> QED BY <1>1, <1>4, VisitKeepsInv DEF IInv, TypeOK

LEMMA VisitStep ==
  ASSUME IInv, NEW v \in Visitors, Visit(v)
  PROVE  IInv'
<1> USE DEF IInv
<1>0. expected \in [Visitors -> Stored] /\ expected = [expected EXCEPT ![v] = expected[v]]
  BY DEF TypeOK
<1>1. CASE BeginAuthenticate(v)
  <2>1. PICK n \in Logins, t \in Texts \ {Blank} :
            /\ name' = [name EXCEPT ![v] = n]
            /\ text' = [text EXCEPT ![v] = t]
            /\ was' = [was EXCEPT ![v] = {Verdict(life, login, password, n, t)}]
    BY <1>1 DEF BeginAuthenticate
  <2>2. /\ pc' = [pc EXCEPT ![v] = "username"]
        /\ answer' = [answer EXCEPT ![v] = "pending"]
        /\ UNCHANGED <<table, work, expected>>
    BY <1>1 DEF BeginAuthenticate, Goto
  <2>3. /\ pc'[v] = "username" /\ answer'[v] = "pending" /\ name'[v] = n /\ text'[v] = t
        /\ was'[v] = {Verdict(life, login, password, n, t)}
    BY <2>1, <2>2 DEF TypeOK, Threads
  <2>4. life' = life /\ login' = login /\ password' = password
    BY <2>2 DEF table
  <2>5. VisitorInv(v)'
    BY <2>1, <2>3, <2>4 DEF VisitorInv, Verdict, Valid
  <2>6. Verdict(life, login, password, n, t) \in {"valid", "invalid"}
    BY DEF Verdict
  <2> QED BY <2>1, <2>2, <2>5, <2>6, VisitKeepsInv DEF TypeOK
<1>2. CASE LoadUsername(v)
  <2>1. CASE Found(v) # {}
    BY <1>0, <1>2, <2>1, LoadKeepsInv DEF LoadUsername, TypeOK
  <2>2. CASE Found(v) = {}
    BY <1>2, <2>2, NotFound, AnswerKeepsInv DEF LoadUsername, VisitorInv
  <2> QED BY <2>1, <2>2
<1>3. CASE LoadPassword(v)
  <2>1. CASE Found(v) # {}
    <3>1. PICK i \in Found(v) : expected' = [expected EXCEPT ![v] = password[i]]
      BY <1>3, <2>1 DEF LoadPassword
    <3>2. password[i] \in Stored
      BY DEF TypeOK, Found, Present
    <3>3. IF password[i] = SHA1(text[v]) THEN "valid" \in was[v] ELSE "invalid" \in was[v]
      BY <1>3, FoundOne DEF LoadPassword, VisitorInv
    <3> QED BY <1>3, <2>1, <3>1, <3>2, <3>3, LoadKeepsInv DEF LoadPassword
  <2>2. CASE Found(v) = {}
    BY <1>3, <2>2, NotFound, AnswerKeepsInv DEF LoadPassword, VisitorInv
  <2> QED BY <2>1, <2>2
<1>4. CASE Compare(v)
  <2>1. CASE Found(v) # {} /\ SHA1(text[v]) = expected[v]
    BY <1>0, <1>4, <2>1, LoadKeepsInv DEF Compare, VisitorInv
  <2>2. CASE Found(v) = {}
    BY <1>4, <2>2, NotFound, AnswerKeepsInv DEF Compare, VisitorInv
  <2>3. CASE SHA1(text[v]) # expected[v]
    BY <1>4, <2>3, AnswerKeepsInv DEF Compare, VisitorInv
  <2> QED BY <2>1, <2>2, <2>3
<1>5. CASE UserExists(v)
  <2>1. CASE Found(v) # {}
    BY <1>5, <2>1, AnswerKeepsInv DEF UserExists, VisitorInv
  <2>2. CASE Found(v) = {}
    BY <1>5, <2>2, NotFound, AnswerKeepsInv DEF UserExists, VisitorInv
  <2> QED BY <2>1, <2>2
<1> QED BY <1>1, <1>2, <1>3, <1>4, <1>5 DEF Visit

\* Grants come and go.
LEMMA GrantStep ==
  ASSUME IInv, NEW i \in Ids, CreateUserRole(i) \/ RemoveUserRole(i)
  PROVE  IInv'
<1>1. /\ life' = life /\ login' = login /\ password' = password
      /\ UNCHANGED <<pc, op, id, form, snapshot, name, text, expected, answer, was>>
      /\ granted' \subseteq granted \cup (Present \cap {i})
  BY DEF CreateUserRole, RemoveUserRole, work, visit
<1>2. Present' = Present /\ OneAccountPerLogin' /\ HashedOnce'
  BY <1>1, SameRows DEF IInv
<1>3. TypeOK'
  BY <1>1, <1>2 DEF IInv, TypeOK
<1>4. \A w \in Workers : WorkerInv(w)'
  BY <1>1 DEF IInv, WorkerInv
<1>5. \A v \in Visitors : VisitorInv(v)'
  BY <1>1, IdleVisitor DEF IInv
<1> QED BY <1>2, <1>3, <1>4, <1>5 DEF IInv

LEMMA StutterKeepsInv == IInv /\ UNCHANGED vars => IInv'
<1> SUFFICES ASSUME IInv, UNCHANGED vars PROVE IInv'
  OBVIOUS
<1>1. /\ life' = life /\ login' = login /\ password' = password /\ granted' = granted
      /\ UNCHANGED <<pc, op, id, form, snapshot, name, text, expected, answer, was>>
  BY DEF vars, table, work, visit
<1>2. Present' = Present /\ OneAccountPerLogin' /\ HashedOnce'
  BY <1>1, SameRows DEF IInv
<1>3. TypeOK'
  BY <1>1, <1>2 DEF IInv, TypeOK
<1>4. \A w \in Workers : WorkerInv(w)'
  BY <1>1 DEF IInv, WorkerInv
<1>5. \A v \in Visitors : VisitorInv(v)'
  BY <1>1, IdleVisitor DEF IInv
<1> QED BY <1>2, <1>3, <1>4, <1>5 DEF IInv

----------------------------------------------------------------------------
(* The theorems. *)

\* The invariant holds in every reachable state.
THEOREM Invariance == Spec => []IInv
<1>1. IInv /\ [Next]_vars => IInv'
  BY WorkKeepsInv, VisitStep, GrantStep, StutterKeepsInv DEF Next
<1> QED BY InitInv, <1>1, PTL DEF Spec

\* TypeOK: the rows, requests and authentications stay in their domains, and
\* grants refer to rows that are there.
THEOREM TypeCorrect == Spec => []TypeOK
<1>1. IInv => TypeOK
  BY DEF IInv
<1> QED BY Invariance, <1>1, PTL

\* OneAccountPerLogin: validating first and writing later never gives two rows
\* one login, for any number of racing registrations and updates.
THEOREM UniqueLogins == Spec => []OneAccountPerLogin
<1>1. IInv => OneAccountPerLogin
  BY DEF IInv
<1> QED BY Invariance, <1>1, PTL

\* HashedOnce: no stored password is the typed text or a digest of a digest.
THEOREM Hashing == Spec => []HashedOnce
<1>1. IInv => HashedOnce
  BY DEF IInv
<1> QED BY Invariance, <1>1, PTL

\* LoginsAreAtomic: the four reads of an authentication give an answer that
\* was right at one moment between its begin and its end.
THEOREM AtomicLogins == Spec => []LoginsAreAtomic
<1>1. IInv => LoginsAreAtomic
  BY DEF IInv, VisitorInv, LoginsAreAtomic
<1> QED BY Invariance, <1>1, PTL

\* DeletedStaysDeleted: an update that read a row before its deletion does not
\* bring it back.
THEOREM DeletionIsFinal == Spec => DeletedStaysDeleted
<1>1. ASSUME IInv, [Next]_vars, NEW i \in Ids, life[i] = "deleted"
      PROVE  life'[i] = "deleted"
  <2>0. life \in [Ids -> {"new", "present", "deleted"}]
    BY <1>1 DEF IInv, TypeOK
  <2>1. ASSUME NEW w \in Workers, Work(w) PROVE life'[i] = "deleted"
    <3>1. CASE life' = life
      BY <1>1, <3>1
    <3>2. ASSUME NEW j \in Ids, life[j] = "new" \/ life[j] = "present", Put(j, Wanted(w))
          PROVE  life'[i] = "deleted"
      BY <1>1, <2>0, <3>2 DEF Put, Store
    <3>3. ASSUME NEW j \in Ids, Remove(j) PROVE life'[i] = "deleted"
      BY <1>1, <2>0, <3>3 DEF Remove, Store
    <3>4. CASE BeginSave(w) \/ BeginUpdate(w) \/ BeginDelete(w) \/ GetUser(w) \/ Validate(w)
      BY <3>1, <3>4 DEF BeginSave, BeginUpdate, BeginDelete, Begin, GetUser, Validate, table
    <3>5. CASE InsertUser(w)
      BY <3>1, <3>2, <3>5 DEF InsertUser
    <3>6. CASE UpdateUser(w)
      BY <3>1, <3>2, <3>6 DEF UpdateUser, Present
    <3>7. CASE DeleteUser(w)
      BY <3>1, <3>3, <3>7 DEF DeleteUser, Present
    <3> QED BY <2>1, <3>4, <3>5, <3>6, <3>7 DEF Work
  <2>2. ASSUME NEW v \in Visitors, Visit(v) PROVE life'[i] = "deleted"
    BY <1>1, <2>2 DEF Visit, BeginAuthenticate, LoadUsername, LoadPassword, Compare, UserExists,
                     table
  <2>3. ASSUME NEW j \in Ids, CreateUserRole(j) \/ RemoveUserRole(j)
        PROVE  life'[i] = "deleted"
    BY <1>1, <2>3 DEF CreateUserRole, RemoveUserRole
  <2>4. CASE UNCHANGED vars
    BY <1>1, <2>4 DEF vars, table
  <2> QED BY <1>1, <2>1, <2>2, <2>3, <2>4 DEF Next
<1>2. IInv /\ [Next]_vars => [\A i \in Ids : life[i] = "deleted" => life'[i] = "deleted"]_vars
  BY <1>1
<1> QED BY Invariance, <1>2, PTL DEF Spec, DeletedStaysDeleted
=============================================================================
