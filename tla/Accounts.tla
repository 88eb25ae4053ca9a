------------------------------ MODULE Accounts ------------------------------
(***************************************************************************)
(* The accounts two programs share.  The registration application creates, *)
(* changes and deletes rows of josso_user: each request of UserController  *)
(* reads, validates and writes in separate statements, without a           *)
(* transaction and without versions.  The sign-on gateway authenticates    *)
(* users against the same rows: the password scheme loads the known        *)
(* credentials three times, and the account once more to see that it is    *)
(* still there.                                                            *)
(*                                                                         *)
(* A stored password is <<f, t>>: t is the text the user chose, f how it   *)
(* was made.  Both programs store SHA-1 digests: the gateway prints all    *)
(* forty digits ("hex"), the application drops leading zeros ("number").   *)
(* Of the other columns only their refusal by the validator is kept.       *)
(***************************************************************************)
EXTENDS Naturals, FiniteSets

CONSTANTS
    Workers,        \* threads of the registration application
    Visitors,       \* threads of the gateway that authenticate
    Ids,            \* row identifiers, never used twice
    Logins,         \* login names
    Texts,          \* texts typed into a password field
    Blank,          \* the one that is empty
    Legal,          \* those the constraint of User accepts
    LeadingZero,    \* those whose digest begins with the digit 0
    NoId, NoLogin

ASSUME AccountsAssumption ==
    /\ Workers \cap Visitors = {}
    /\ NoId \notin Ids
    /\ NoLogin \notin Logins
    /\ Legal \subseteq Texts
    /\ LeadingZero \subseteq Texts
    /\ Blank \in Texts \ Legal

VARIABLES
    life,           \* life[id] \in {"new", "present", "deleted"}
    login, password,    \* the columns of row id
    granted,        \* the rows that josso_user_role refers to
    pc,             \* per thread: the statement it is about to execute
    op, id, form,   \* per worker: its request, the row, the form sent with it
    snapshot,       \* per worker: the row as User.get read it
    name, text,     \* per visitor: the credentials it was given
    expected,       \* per visitor: the password it has loaded
    answer,         \* per visitor: what its last authentication returned
    was             \* history, per visitor: whether its credentials were valid at
                    \* each moment from its begin to its end

Threads == Workers \cup Visitors
table == <<life, login, password, granted>>
work == <<op, id, form, snapshot>>
visit == <<name, text, expected>>
vars == <<table, pc, work, visit, answer, was>>

Forms == {"none", "hex", "number", "twice"}
Stored == Forms \X Texts
NoPassword == <<"none", Blank>>

\* The columns a form fills in, and a row read.
Columns == [login : Logins \cup {NoLogin}, password : Stored]
NoColumns == [login |-> NoLogin, password |-> NoPassword]
NoForm == [login |-> NoLogin, text |-> Blank]

Present == {i \in Ids : life[i] = "present"}

TypeOK ==
    /\ life \in [Ids -> {"new", "present", "deleted"}]
    /\ login \in [Ids -> Logins \cup {NoLogin}]
    /\ password \in [Ids -> Stored]
    /\ granted \subseteq Present
    /\ pc \in [Threads -> {"idle", "get", "validate", "write",
                           "username", "password", "salt", "exists"}]
    /\ op \in [Workers -> {"none", "save", "update", "delete"}]
    /\ id \in [Workers -> Ids \cup {NoId}]
    /\ form \in [Workers -> [login : Logins \cup {NoLogin}, text : Texts]]
    /\ snapshot \in [Workers -> Columns]
    /\ name \in [Visitors -> Logins \cup {NoLogin}]
    /\ text \in [Visitors -> Texts]
    /\ expected \in [Visitors -> Stored]
    /\ answer \in [Visitors -> {"none", "pending", "accepted", "refused"}]
    /\ was \in [Visitors -> SUBSET {"valid", "invalid"}]

----------------------------------------------------------------------------
(* The two digests, and the table as the gateway sees it. *)

\* User.hash: the digest as a number.
Hash(t) == IF t \in LeadingZero THEN <<"number", t>> ELSE <<"hex", t>>

\* PasswordUtils.SHA1: the digest digit by digit.
SHA1(t) == <<"hex", t>>

\* In the table of columns lf, lg and pw: an account with login n that the
\* gateway lets in with text t.
Valid(lf, lg, pw, n, t) ==
    t # Blank /\ \E i \in Ids : lf[i] = "present" /\ lg[i] = n /\ pw[i] = SHA1(t)

Verdict(lf, lg, pw, n, t) == IF Valid(lf, lg, pw, n, t) THEN "valid" ELSE "invalid"

\* The rows become lf, lg and pw; the history of every login under way notes it.
Store(lf, lg, pw) ==
    /\ life' = lf
    /\ login' = lg
    /\ password' = pw
    /\ was' = [v \in Visitors |-> IF pc[v] = "idle" THEN was[v]
                ELSE was[v] \cup {Verdict(lf, lg, pw, name[v], text[v])}]

\* The index that unique: true gives the table: i may have login n.
Free(n, i) == \A j \in Present \ {i} : login[j] # n

Goto(t, statement) == pc' = [pc EXCEPT ![t] = statement]

\* Worker w has rendered its page or redirected, or raised an exception; which
\* page it was is left out.
Finish(w) ==
    /\ Goto(w, "idle")
    /\ op' = [op EXCEPT ![w] = "none"]
    /\ id' = [id EXCEPT ![w] = NoId]
    /\ form' = [form EXCEPT ![w] = NoForm]
    /\ snapshot' = [snapshot EXCEPT ![w] = NoColumns]

\* The application creates the table.
Init ==
    /\ life = [i \in Ids |-> "new"]
    /\ login = [i \in Ids |-> NoLogin]
    /\ password = [i \in Ids |-> NoPassword]
    /\ granted = {}
    /\ pc = [t \in Threads |-> "idle"]
    /\ op = [w \in Workers |-> "none"]
    /\ id = [w \in Workers |-> NoId]
    /\ form = [w \in Workers |-> NoForm]
    /\ snapshot = [w \in Workers |-> NoColumns]
    /\ name = [v \in Visitors |-> NoLogin]
    /\ text = [v \in Visitors |-> Blank]
    /\ expected = [v \in Visitors |-> NoPassword]
    /\ answer = [v \in Visitors |-> "none"]
    /\ was = [v \in Visitors |-> {}]

----------------------------------------------------------------------------
(* UserController: save, update and delete. *)

\* The bound on rows: there is an identifier for every save under way.
RoomForUser ==
    Cardinality({w \in Workers : pc[w] # "idle" /\ op[w] = "save"})
        < Cardinality({i \in Ids : life[i] = "new"})

Begin(w, o, i, f, statement) ==
    /\ pc[w] = "idle"
    /\ op' = [op EXCEPT ![w] = o]
    /\ id' = [id EXCEPT ![w] = i]
    /\ form' = [form EXCEPT ![w] = f]
    /\ Goto(w, statement)
    /\ UNCHANGED <<table, snapshot, visit, answer, was>>

\* A form whose two password fields differ is shown again at once and leaves
\* no trace; only the others are modelled.
BeginSave(w) ==
    /\ RoomForUser
    /\ \E n \in Logins, t \in Texts :
        Begin(w, "save", NoId, [login |-> n, text |-> t], "validate")

\* The form to edit a user has its password fields empty, and nothing compares
\* them.  It sends the field always; a request without it, which no page makes,
\* would have the stored digest hashed again (L76).
BeginUpdate(w) ==
    \E i \in {j \in Ids : life[j] # "new"}, n \in Logins, t \in Texts :
        Begin(w, "update", i, [login |-> n, text |-> t], "get")

BeginDelete(w) ==
    \E i \in {j \in Ids : life[j] # "new"} : Begin(w, "delete", i, NoForm, "get")

\* User.get: a row that is not there ends the request.
GetUser(w) ==
    /\ pc[w] = "get"
    /\ UNCHANGED <<table, visit, answer, was>>
    /\ \/ /\ id[w] \in Present
          /\ snapshot' = [snapshot EXCEPT ![w] =
                [login |-> login[id[w]], password |-> password[id[w]]]]
          /\ Goto(w, IF op[w] = "update" THEN "validate" ELSE "write")
          /\ UNCHANGED <<op, id, form>>
       \/ id[w] \notin Present /\ Finish(w)

\* The text of a new password is validated; the password of an update has been
\* hashed by then and always passes.  The validator queries the table for
\* another row with the login; it may refuse the other columns.
Validate(w) ==
    /\ pc[w] = "validate"
    /\ UNCHANGED <<table, visit, answer, was>>
    /\ \/ /\ op[w] = "save" => form[w].text \in Legal
          /\ Free(form[w].login, id[w])
          /\ Goto(w, "write")
          /\ UNCHANGED work
       \/ Finish(w)

\* Row i gets the columns c; row i goes.
Put(i, c) ==
    Store([life EXCEPT ![i] = "present"], [login EXCEPT ![i] = c.login],
          [password EXCEPT ![i] = c.password])

Remove(i) ==
    Store([life EXCEPT ![i] = "deleted"], [login EXCEPT ![i] = NoLogin],
          [password EXCEPT ![i] = NoPassword])

\* The row as the form wants it.
Wanted(w) == [login |-> form[w].login, password |-> Hash(form[w].text)]

\* Mutant: the table has no unique index, as when it existed before.
InsertUserUnindexed(w) ==
    /\ pc[w] = "write" /\ op[w] = "save"
    /\ \E i \in Ids : life[i] = "new" /\ Put(i, Wanted(w))
    /\ Finish(w)
    /\ UNCHANGED <<granted, visit, answer>>

\* beforeInsert hashes the password; the index may refuse the row.
InsertUser(w) ==
    /\ pc[w] = "write" /\ op[w] = "save"
    /\ \/ /\ Free(form[w].login, NoId)
          /\ \E i \in Ids : life[i] = "new" /\ Put(i, Wanted(w))
       \/ ~Free(form[w].login, NoId) /\ UNCHANGED <<life, login, password, was>>
    /\ Finish(w)
    /\ UNCHANGED <<granted, visit, answer>>

\* Mutant: the row is merged back, also when it has been deleted.
MergeUser(w) ==
    /\ pc[w] = "write" /\ op[w] = "update"
    /\ Free(form[w].login, id[w])
    /\ Put(id[w], Wanted(w))
    /\ Finish(w)
    /\ UNCHANGED <<granted, visit, answer>>

\* Mutant: beforeUpdate hashes the password once more.
UpdateUserHashingTwice(w) ==
    /\ pc[w] = "write" /\ op[w] = "update"
    /\ id[w] \in Present
    /\ Free(form[w].login, id[w])
    /\ Put(id[w], [login |-> form[w].login, password |-> <<"twice", form[w].text>>])
    /\ Finish(w)
    /\ UNCHANGED <<granted, visit, answer>>

\* Hibernate writes all columns if one differs from the row that was read.  No
\* version is compared; a row that has gone, or the index, raises.
UpdateUser(w) ==
    /\ pc[w] = "write" /\ op[w] = "update"
    /\ LET writes == /\ Wanted(w) # snapshot[w]
                     /\ id[w] \in Present
                     /\ Free(form[w].login, id[w])
       IN \/ writes /\ Put(id[w], Wanted(w))
          \/ ~writes /\ UNCHANGED <<life, login, password, was>>
    /\ Finish(w)
    /\ UNCHANGED <<granted, visit, answer>>

\* Mutant: the row is deleted although grants refer to it.
DeleteUserAnyway(w) ==
    /\ pc[w] = "write" /\ op[w] = "delete"
    /\ id[w] \in Present
    /\ Remove(id[w])
    /\ Finish(w)
    /\ UNCHANGED <<granted, visit, answer>>

\* A row that grants refer to is not deleted; one that has gone raises.
DeleteUser(w) ==
    /\ pc[w] = "write" /\ op[w] = "delete"
    /\ \/ id[w] \in Present \ granted /\ Remove(id[w])
       \/ id[w] \notin Present \ granted /\ UNCHANGED <<life, login, password, was>>
    /\ Finish(w)
    /\ UNCHANGED <<granted, visit, answer>>

\* UserRole.create, and remove or removeAll: somebody changes a user's grants.
CreateUserRole(i) ==
    /\ i \in Present \ granted
    /\ granted' = granted \cup {i}
    /\ UNCHANGED <<life, login, password, pc, work, visit, answer, was>>

RemoveUserRole(i) ==
    /\ i \in granted
    /\ granted' = granted \ {i}
    /\ UNCHANGED <<life, login, password, pc, work, visit, answer, was>>

----------------------------------------------------------------------------
(* The gateway: DefaultUsernamePasswordAuthScheme over DefaultIdentityStore. *)

Load(v, statement) == Goto(v, statement) /\ UNCHANGED <<name, text, answer>>

\* What the gateway kept for the request is forgotten.
Answer(v, a) ==
    /\ Goto(v, "idle")
    /\ answer' = [answer EXCEPT ![v] = a]
    /\ name' = [name EXCEPT ![v] = NoLogin]
    /\ text' = [text EXCEPT ![v] = Blank]
    /\ expected' = [expected EXCEPT ![v] = NoPassword]

\* A blank password is refused before anything is loaded and leaves no trace;
\* only the others are modelled.
BeginAuthenticate(v) ==
    /\ pc[v] = "idle"
    /\ \E n \in Logins, t \in Texts \ {Blank} :
        /\ name' = [name EXCEPT ![v] = n]
        /\ text' = [text EXCEPT ![v] = t]
        /\ was' = [was EXCEPT ![v] = {Verdict(life, login, password, n, t)}]
    /\ answer' = [answer EXCEPT ![v] = "pending"]
    /\ Goto(v, "username")
    /\ UNCHANGED <<table, work, expected>>

\* getByLogin: a row with the login, or an exception that ends in a refusal.
Found(v) == {i \in Present : login[i] = name[v]}

\* The first load, for the known user name.
LoadUsername(v) ==
    /\ pc[v] = "username"
    /\ UNCHANGED <<table, work, was>>
    /\ \/ Found(v) # {} /\ Load(v, "password") /\ UNCHANGED expected
       \/ Found(v) = {} /\ Answer(v, "refused")

\* The second load, for the known password.
LoadPassword(v) ==
    /\ pc[v] = "password"
    /\ UNCHANGED <<table, work, was>>
    /\ \/ /\ \E i \in Found(v) : expected' = [expected EXCEPT ![v] = password[i]]
          /\ Load(v, "salt")
       \/ Found(v) = {} /\ Answer(v, "refused")

\* Mutant: refused only if neither the name nor the password is right.
CompareEither(v) ==
    /\ pc[v] = "salt"
    /\ UNCHANGED <<table, work, was>>
    /\ \/ Found(v) # {} /\ Load(v, "exists") /\ UNCHANGED expected
       \/ Found(v) = {} /\ Answer(v, "refused")

\* The third load, for a salt that is not used; then the comparison.
Compare(v) ==
    /\ pc[v] = "salt"
    /\ UNCHANGED <<table, work, was>>
    /\ LET agree == Found(v) # {} /\ SHA1(text[v]) = expected[v]
       IN \/ agree /\ Load(v, "exists") /\ UNCHANGED expected
          \/ ~agree /\ Answer(v, "refused")

\* The identity manager asks once more before a session is opened.
UserExists(v) ==
    /\ pc[v] = "exists"
    /\ UNCHANGED <<table, work, was>>
    /\ Answer(v, IF Found(v) # {} THEN "accepted" ELSE "refused")

----------------------------------------------------------------------------
Work(w) ==
    \/ BeginSave(w) \/ BeginUpdate(w) \/ BeginDelete(w)
    \/ GetUser(w) \/ Validate(w) \/ InsertUser(w) \/ UpdateUser(w) \/ DeleteUser(w)

Visit(v) ==
    \/ BeginAuthenticate(v) \/ LoadUsername(v) \/ LoadPassword(v) \/ Compare(v)
    \/ UserExists(v)

Next ==
    \/ \E w \in Workers : Work(w)
    \/ \E v \in Visitors : Visit(v)
    \/ \E i \in Ids : CreateUserRole(i) \/ RemoveUserRole(i)

Spec == Init /\ [][Next]_vars

----------------------------------------------------------------------------
(* Properties. *)

\* No two rows have one login, although every request validates first and
\* writes later: the gateway takes the first row a login finds.
OneAccountPerLogin ==
    \A i, j \in Present : login[i] = login[j] => i = j

\* Every stored password is the application's digest of one text: hashed by
\* beforeInsert or by update, never by both, never stored as it was typed.
HashedOnce ==
    \A i \in Present : \E t \in Texts : password[i] = Hash(t)

\* An authentication is as good as instantaneous, although it reads the row
\* four times while accounts change: it accepts only credentials that were
\* valid, and refuses only credentials that were not, at some moment of it.
LoginsAreAtomic ==
    \A v \in Visitors :
        /\ answer[v] = "accepted" => "valid" \in was[v]
        /\ answer[v] = "refused" => "invalid" \in was[v]

\* A deleted account does not come back, whatever updates had read it before.
DeletedStaysDeleted ==
    [][\A i \in Ids : life[i] = "deleted" => life'[i] = "deleted"]_vars

\* User.groovy, constraints: every account has a password of legal size.
PasswordsAreLegal ==
    \A i \in Present : password[i][2] \in Legal

\* The gateway accepts the digest that the application stored.
DigestsAgree ==
    \A i \in Present : password[i] = SHA1(password[i][2])
=============================================================================
