------------------------------- MODULE Users -------------------------------
(***************************************************************************)
(* Accounts: POST /register, POST /login and PUT /profile of               *)
(* internal/controller/user.go, down to the statements of                  *)
(* internal/data/user.go, served concurrently and without transactions.    *)
(*                                                                         *)
(* A session is a request goroutine; it does one statement per step.       *)
(* Accounts are never deleted.  phone and avatar behave alike, and phone   *)
(* stands for both; passwords are compared by value.  An operator enables  *)
(* and disables accounts in the database.  A statement may fail, and a     *)
(* reply may be lost.                                                      *)
(***************************************************************************)
EXTENDS Integers

CONSTANTS
  Sessions,
  Names, Emails, Phones, Passwords,
  MaxUsers,   \* bound: values the auto-increment key can take
  None

Ids == 1..MaxUsers
User == [name: Names, email: Emails, phone: Phones, password: Passwords, enabled: BOOLEAN]

\* In a request for UpdateUser a field may be empty: it is to stay as it is.
RegisterRequest == [name: Names, email: Emails, phone: Phones, password: Passwords]
UpdateRequest   == [id: Ids, email: Emails \cup {None}, phone: Phones \cup {None}]
LoginRequest    == [name: Names, password: Passwords]

ASSUME NoneIsNothing == None \notin Emails \cup Phones \cup User
ASSUME MaxUsersIsNumber == MaxUsers \in Nat

VARIABLES
  users,   \* the table users, by key
  lastId,  \* its AUTO_INCREMENT counter
  pc,      \* where each session is
  req,     \* the request it serves
  row,     \* UpdateUser's copy of the row, with the requested fields set
  resp     \* the answer, once given

vars == <<users, lastId, pc, req, row, resp>>

Exists(id) == users[id] # None
NameTaken(n) == \E id \in Ids : Exists(id) /\ users[id].name = n
EmailTaken(e) == \E id \in Ids : Exists(id) /\ users[id].email = e

Init ==
  /\ users = [id \in Ids |-> None]
  /\ lastId = 0
  /\ pc = [s \in Sessions |-> "idle"]
  /\ req = [s \in Sessions |-> None]
  /\ row = [s \in Sessions |-> None]
  /\ resp = [s \in Sessions |-> "none"]

Arrive(s, requests, start) ==
  /\ pc[s] = "idle"
  /\ pc' = [pc EXCEPT ![s] = start]
  /\ \E r \in requests : req' = [req EXCEPT ![s] = r]
  /\ resp' = [resp EXCEPT ![s] = "none"]
  /\ UNCHANGED <<users, lastId, row>>

Answer(s, answer) ==
  /\ pc' = [pc EXCEPT ![s] = "idle"]
  /\ resp' = [resp EXCEPT ![s] = answer]
  /\ req' = [req EXCEPT ![s] = None]
  /\ row' = [row EXCEPT ![s] = None]

Proceed(s, from, to) ==
  /\ pc[s] = from
  /\ pc' = [pc EXCEPT ![s] = to]
  /\ UNCHANGED <<users, lastId, req, row, resp>>

\* The answer to s, with the table as it was.
Refuse(s, from, answer) ==
  /\ pc[s] = from
  /\ Answer(s, answer)
  /\ UNCHANGED <<users, lastId>>

-----------------------------------------------------------------------------
\* Register: two checks and an INSERT, each a statement of its own.

ArriveRegister(s) == Arrive(s, RegisterRequest, "checkName")

CheckName(s) ==
  IF pc[s] = "checkName" /\ NameTaken(req[s].name)
    THEN Refuse(s, "checkName", "userExists")
    ELSE Proceed(s, "checkName", "checkEmail")

CheckEmail(s) ==
  IF pc[s] = "checkEmail" /\ EmailTaken(req[s].email)
    THEN Refuse(s, "checkEmail", "emailExists")
    ELSE Proceed(s, "checkEmail", "insert")

\* Broken: email has no unique index.
ConflictOfNames(s) == NameTaken(req[s].name)

\* The unique indexes on username and email refuse the row.
Conflict(s) == NameTaken(req[s].name) \/ EmailTaken(req[s].email)

InsertUser(s) ==
  /\ pc[s] = "insert"
  /\ ~Conflict(s)
  /\ lastId < MaxUsers
  /\ users' = [users EXCEPT ![lastId + 1] =
       [name |-> req[s].name, email |-> req[s].email, phone |-> req[s].phone,
        password |-> req[s].password, enabled |-> TRUE]]
  /\ lastId' = lastId + 1
  /\ \E reply \in {"ok", "error"} : Answer(s, reply)

\* Whichever index refused it, the answer is that the user exists.
InsertDuplicate(s) == pc[s] = "insert" /\ Conflict(s) /\ Refuse(s, "insert", "userExists")

-----------------------------------------------------------------------------
\* Login: one SELECT; all else is decided on the row it returned.
ArriveLogin(s) == Arrive(s, LoginRequest, "login")

Verdict(s, u) ==
  IF u.password # req[s].password THEN "incorrect"
  ELSE IF ~u.enabled THEN "disabled" ELSE "ok"

Login(s) ==
  /\ pc[s] = "login"
  /\ IF NameTaken(req[s].name)
       THEN \E id \in Ids : /\ Exists(id) /\ users[id].name = req[s].name
                            /\ Answer(s, Verdict(s, users[id]))
       ELSE Answer(s, "incorrect")
  /\ UNCHANGED <<users, lastId>>

-----------------------------------------------------------------------------
\* UpdateUser: read the row, set the requested fields in the copy, check a
\* new email, write three columns of the copy back.

ArriveUpdate(s) == Arrive(s, UpdateRequest, "get")

Requested(value, old) == IF value = None THEN old ELSE value

\* Broken: a missing row is not noticed.
GetUserUnchecked(s) ==
  /\ pc[s] = "get"
  /\ pc' = [pc EXCEPT ![s] = "update"]
  /\ row' = [row EXCEPT ![s] = users[req[s].id]]
  /\ UNCHANGED <<users, lastId, req, resp>>

GetUser(s) ==
  /\ pc[s] = "get"
  /\ IF Exists(req[s].id)
       THEN LET u == users[req[s].id] IN
              /\ row' = [row EXCEPT ![s] =
                   [u EXCEPT !.email = Requested(req[s].email, @),
                             !.phone = Requested(req[s].phone, @)]]
              /\ pc' = [pc EXCEPT ![s] =
                   IF req[s].email \in {None, u.email} THEN "update" ELSE "newEmail"]
              /\ UNCHANGED <<req, resp>>
       ELSE Answer(s, "notFound")
  /\ UNCHANGED <<users, lastId>>

CheckNewEmail(s) ==
  IF pc[s] = "newEmail" /\ EmailTaken(row[s].email)
    THEN Refuse(s, "newEmail", "emailExists")
    ELSE Proceed(s, "newEmail", "update")

\* The unique index on email refuses the copy.
EmailConflict(s) ==
  \E id \in Ids \ {req[s].id} : Exists(id) /\ users[id].email = row[s].email

\* Broken: the whole copy is written back, as Save would do.
SaveUser(s) ==
  /\ pc[s] = "update"
  /\ ~EmailConflict(s)
  /\ users' = [users EXCEPT ![req[s].id] = row[s]]
  /\ \E reply \in {"ok", "error"} : Answer(s, reply)
  /\ UNCHANGED lastId

\* UpdateUserProfile.
UpdateProfile(s) ==
  /\ pc[s] = "update"
  /\ ~EmailConflict(s)
  /\ users' = [users EXCEPT ![req[s].id].email = row[s].email,
                            ![req[s].id].phone = row[s].phone]
  /\ \E reply \in {"ok", "error"} : Answer(s, reply)
  /\ UNCHANGED lastId

UpdateDuplicate(s) ==
  pc[s] = "update" /\ EmailConflict(s) /\ Refuse(s, "update", "emailExists")

-----------------------------------------------------------------------------
\* A statement fails with nothing applied.
Fail(s) == pc[s] # "idle" /\ Refuse(s, pc[s], "error")

\* An operator enables or disables an account.
Toggle(id) ==
  /\ Exists(id)
  /\ users' = [users EXCEPT ![id].enabled = ~@]
  /\ UNCHANGED <<lastId, pc, req, row, resp>>

Next ==
  \/ \E s \in Sessions :
       \/ ArriveRegister(s) \/ CheckName(s) \/ CheckEmail(s) \/ InsertUser(s) \/ InsertDuplicate(s)
       \/ ArriveLogin(s) \/ Login(s)
       \/ ArriveUpdate(s) \/ GetUser(s) \/ CheckNewEmail(s) \/ UpdateProfile(s)
       \/ UpdateDuplicate(s) \/ Fail(s)
  \/ \E id \in Ids : Toggle(id)

Spec == Init /\ [][Next]_vars

-----------------------------------------------------------------------------
\* Type invariant.
TypeOK ==
  /\ users \in [Ids -> User \cup {None}]
  /\ lastId \in 0..MaxUsers
  /\ \A id \in Ids : Exists(id) <=> id <= lastId
  /\ pc \in [Sessions -> {"idle", "checkName", "checkEmail", "insert", "login", "get",
                          "newEmail", "update"}]
  /\ req \in [Sessions -> RegisterRequest \cup LoginRequest \cup UpdateRequest \cup {None}]
  /\ row \in [Sessions -> User \cup {None}]
  /\ \A s \in Sessions : row[s] # None <=> pc[s] \in {"newEmail", "update"}
  /\ resp \in [Sessions -> {"none", "ok", "error", "userExists", "emailExists", "incorrect",
                            "disabled", "notFound"}]

\* However registrations and changes of email race past their checks, no two
\* accounts share a name or an email.
IdentitiesAreUnique ==
  \A i, j \in Ids : Exists(i) /\ Exists(j) /\ i # j =>
    users[i].name # users[j].name /\ users[i].email # users[j].email

\* A profile update that read the row long ago changes neither name, password
\* nor status: an account disabled meanwhile stays disabled.
ProfileStep ==
  \A s \in Sessions : pc[s] = "update" /\ pc'[s] = "idle" =>
    \A id \in Ids : Exists(id) =>
      /\ users'[id].name = users[id].name
      /\ users'[id].password = users[id].password
      /\ users'[id].enabled = users[id].enabled
ProfileKeepsIdentity == [][ProfileStep]_vars
=============================================================================
