---------------------------- MODULE UsersProofs ----------------------------
(***************************************************************************)
(* Proofs about Users, for any sets of sessions and field values.  The     *)
(* inductive invariant adds to the types which request each place in the   *)
(* code serves, and that UpdateUser's row is still there when it is        *)
(* written: accounts are never deleted.                                    *)
(***************************************************************************)
EXTENDS Users, TLAPS

PlaceFitsRequest ==
  \A s \in Sessions :
    /\ pc[s] \in {"checkName", "checkEmail", "insert"} => req[s] \in RegisterRequest
    /\ pc[s] = "login" => req[s] \in LoginRequest
    /\ pc[s] \in {"get", "newEmail", "update"} => req[s] \in UpdateRequest

RowIsThere ==
  \A s \in Sessions : pc[s] \in {"newEmail", "update"} => Exists(req[s].id)

Inv == TypeOK /\ PlaceFitsRequest /\ RowIsThere

-----------------------------------------------------------------------------
LEMMA InvInit == Init => Inv
BY NoneIsNothing, MaxUsersIsNumber DEF Init, Inv, TypeOK, PlaceFitsRequest, RowIsThere, Exists, Ids

\* An account that is found is a row.
LEMMA FoundIsUser ==
  ASSUME TypeOK, NEW id \in Ids, Exists(id)
  PROVE  users[id] \in User
BY DEF TypeOK, Exists

\* Answering leaves a session that serves nothing.
LEMMA AnswerKeepsInv ==
  ASSUME Inv, NEW s \in Sessions, UNCHANGED <<users, lastId>>,
         NEW answer \in {"ok", "error", "userExists", "emailExists", "incorrect",
                         "disabled", "notFound"},
         Answer(s, answer)
  PROVE  Inv'
BY NoneIsNothing DEF Inv, TypeOK, PlaceFitsRequest, RowIsThere, Exists, Answer

LEMMA ProceedKeepsInv ==
  ASSUME Inv, NEW s \in Sessions,
         \/ Proceed(s, "checkName", "checkEmail") \/ Proceed(s, "checkEmail", "insert")
         \/ Proceed(s, "newEmail", "update")
  PROVE  Inv'
BY DEF Inv, TypeOK, PlaceFitsRequest, RowIsThere, Exists, Proceed

LEMMA ArriveKeepsInv ==
  ASSUME Inv, NEW s \in Sessions, ArriveRegister(s) \/ ArriveLogin(s) \/ ArriveUpdate(s)
  PROVE  Inv'
<1> USE DEF Inv, TypeOK, PlaceFitsRequest, RowIsThere, Exists, Arrive
<1>1. CASE ArriveRegister(s)
  BY <1>1 DEF ArriveRegister
<1>2. CASE ArriveLogin(s)
  BY <1>2 DEF ArriveLogin
<1>3. CASE ArriveUpdate(s)
  BY <1>3 DEF ArriveUpdate
<1> QED
  BY <1>1, <1>2, <1>3

LEMMA InsertUserKeepsInv ==
  ASSUME Inv, NEW s \in Sessions, InsertUser(s)
  PROVE  Inv'
<1> DEFINE new == [name |-> req[s].name, email |-> req[s].email, phone |-> req[s].phone,
                   password |-> req[s].password, enabled |-> TRUE]
<1>1. /\ lastId \in 0..MaxUsers /\ lastId < MaxUsers /\ MaxUsers \in Nat
      /\ lastId + 1 \in Ids /\ lastId' = lastId + 1
  BY MaxUsersIsNumber DEF Inv, TypeOK, InsertUser, Ids
<1>2. new \in User /\ new # None
  <2>1. req[s] \in RegisterRequest
    BY DEF Inv, PlaceFitsRequest, InsertUser
  <2>2. new \in User
    BY <2>1 DEF RegisterRequest, User
  <2> QED
    BY <2>2, NoneIsNothing
<1>3. users' = [users EXCEPT ![lastId + 1] = new]
  BY DEF InsertUser
<1>4. users' \in [Ids -> User \cup {None}]
  BY <1>1, <1>2, <1>3 DEF Inv, TypeOK
<1>5. \A id \in Ids : Exists(id)' <=> id <= lastId'
  BY <1>1, <1>2, <1>3 DEF Inv, TypeOK, Exists, Ids
<1>6. PICK reply \in {"ok", "error"} : Answer(s, reply)
  BY DEF InsertUser
<1>7. TypeOK'
  BY <1>1, <1>4, <1>5, <1>6, NoneIsNothing DEF Inv, TypeOK, Answer
<1>8. PlaceFitsRequest'
  BY <1>6 DEF Inv, TypeOK, PlaceFitsRequest, Answer
<1>9. RowIsThere'
  <2>1. \A id \in Ids : Exists(id) => Exists(id)'
    BY <1>1, <1>2, <1>3 DEF Inv, TypeOK, Exists
  <2> QED
    BY <1>6, <2>1 DEF Inv, TypeOK, PlaceFitsRequest, RowIsThere, Answer, UpdateRequest
<1> QED
  BY <1>7, <1>8, <1>9 DEF Inv

\* What the copy of UpdateUser contains.
LEMMA GetUserKeepsInv ==
  ASSUME Inv, NEW s \in Sessions, GetUser(s)
  PROVE  Inv'
<1>1. pc[s] = "get" /\ req[s] \in UpdateRequest /\ req[s].id \in Ids
  BY DEF GetUser, Inv, PlaceFitsRequest, UpdateRequest
<1>2. CASE Exists(req[s].id)
  <2> DEFINE u == users[req[s].id]
             copy == [u EXCEPT !.email = Requested(req[s].email, @),
                               !.phone = Requested(req[s].phone, @)]
  <2>1. u \in User
    BY <1>1, <1>2, FoundIsUser DEF Inv
  <2>2. copy \in User /\ copy # None
    <3>1. /\ req[s].email \in Emails \cup {None} /\ req[s].phone \in Phones \cup {None}
          /\ u.email \in Emails /\ u.phone \in Phones
      BY <1>1, <2>1 DEF User, UpdateRequest
    <3>2. Requested(req[s].email, u.email) \in Emails /\ Requested(req[s].phone, u.phone) \in Phones
      BY <3>1 DEF Requested
    <3>3. copy \in User
      BY <2>1, <3>2 DEF User
    <3> QED
      BY <3>3, NoneIsNothing
  <2>3. /\ row' = [row EXCEPT ![s] = copy]
        /\ \/ pc' = [pc EXCEPT ![s] = "update"]
           \/ pc' = [pc EXCEPT ![s] = "newEmail"]
        /\ UNCHANGED <<req, resp, users, lastId>>
    BY <1>2 DEF GetUser
  <2> HIDE DEF copy
  <2> QED
    BY <1>1, <1>2, <2>2, <2>3 DEF Inv, TypeOK, PlaceFitsRequest, RowIsThere, Exists
<1>3. CASE ~Exists(req[s].id)
  BY <1>3, AnswerKeepsInv DEF GetUser
<1> QED
  BY <1>2, <1>3

\* UpdateUserProfile writes two columns of a row that is there.
LEMMA UpdateProfileEffect ==
  ASSUME Inv, NEW s \in Sessions, UpdateProfile(s)
  PROVE  /\ req[s].id \in Ids /\ Exists(req[s].id) /\ row[s] \in User
         /\ users' \in [Ids -> User \cup {None}]
         /\ users'[req[s].id].name = users[req[s].id].name
         /\ users'[req[s].id].email = row[s].email
         /\ users'[req[s].id].password = users[req[s].id].password
         /\ users'[req[s].id].enabled = users[req[s].id].enabled
         /\ \A id \in Ids \ {req[s].id} : users'[id] = users[id]
         /\ \A id \in Ids : Exists(id)' <=> Exists(id)
<1>1. pc[s] = "update" /\ req[s].id \in Ids /\ Exists(req[s].id)
  BY DEF UpdateProfile, Inv, PlaceFitsRequest, UpdateRequest, RowIsThere
<1>2. row[s] \in User
  BY <1>1 DEF Inv, TypeOK
<1>3. users[req[s].id] \in User
  BY <1>1, FoundIsUser DEF Inv
<1> DEFINE new == [users[req[s].id] EXCEPT !.email = row[s].email, !.phone = row[s].phone]
<1>4. new \in User /\ new # None
  BY <1>2, <1>3, NoneIsNothing DEF User
<1>5. /\ new.name = users[req[s].id].name /\ new.email = row[s].email
      /\ new.password = users[req[s].id].password
      /\ new.enabled = users[req[s].id].enabled
  BY <1>3 DEF User
<1>6. users' = [users EXCEPT ![req[s].id] = new]
  BY <1>1, <1>3 DEF UpdateProfile, Inv, TypeOK, User
<1> HIDE DEF new
<1>7. /\ users' \in [Ids -> User \cup {None}]
      /\ users'[req[s].id] = new
      /\ \A id \in Ids \ {req[s].id} : users'[id] = users[id]
  BY <1>1, <1>4, <1>6 DEF Inv, TypeOK
<1>8. \A id \in Ids : Exists(id)' <=> Exists(id)
  BY <1>1, <1>4, <1>7 DEF Exists
<1> QED
  BY <1>1, <1>2, <1>7, <1>8, <1>5

LEMMA UpdateProfileKeepsInv ==
  ASSUME Inv, NEW s \in Sessions, UpdateProfile(s)
  PROVE  Inv'
<1>1. /\ users' \in [Ids -> User \cup {None}]
      /\ \A id \in Ids : Exists(id)' <=> Exists(id)
  BY UpdateProfileEffect
<1>2. PICK reply \in {"ok", "error"} : Answer(s, reply)
  BY DEF UpdateProfile
<1>3. lastId' = lastId
  BY DEF UpdateProfile
<1>4. TypeOK'
  BY <1>1, <1>2, <1>3, NoneIsNothing DEF Inv, TypeOK, Answer
<1>5. PlaceFitsRequest'
  BY <1>2 DEF Inv, TypeOK, PlaceFitsRequest, Answer
<1>6. RowIsThere'
  BY <1>1, <1>2 DEF Inv, TypeOK, PlaceFitsRequest, RowIsThere, Answer, UpdateRequest
<1> QED
  BY <1>4, <1>5, <1>6 DEF Inv

LEMMA ToggleKeepsInv ==
  ASSUME Inv, NEW id \in Ids, Toggle(id)
  PROVE  Inv'
<1>1. users[id] \in User
  BY FoundIsUser DEF Inv, Toggle
<1> DEFINE new == [users[id] EXCEPT !.enabled = ~@]
<1>2. new \in User /\ new # None
  BY <1>1, NoneIsNothing DEF User
<1>3. users' = [users EXCEPT ![id] = new]
  BY <1>1 DEF Toggle
<1> HIDE DEF new
<1>4. \A i \in Ids : Exists(i)' <=> Exists(i)
  BY <1>2, <1>3 DEF Inv, TypeOK, Exists, Toggle
<1> QED
  BY <1>2, <1>3, <1>4 DEF Inv, TypeOK, PlaceFitsRequest, RowIsThere, Toggle, UpdateRequest

LEMMA InvNext == Inv /\ [Next]_vars => Inv'
<1> SUFFICES ASSUME Inv, [Next]_vars PROVE Inv'
  OBVIOUS
<1>1. ASSUME NEW s \in Sessions, ArriveRegister(s) \/ ArriveLogin(s) \/ ArriveUpdate(s)
      PROVE  Inv'
  BY <1>1, ArriveKeepsInv
<1>2. ASSUME NEW s \in Sessions, CheckName(s) \/ CheckEmail(s) \/ CheckNewEmail(s)
      PROVE  Inv'
  BY <1>2, ProceedKeepsInv, AnswerKeepsInv DEF CheckName, CheckEmail, CheckNewEmail, Refuse
<1>3. ASSUME NEW s \in Sessions, InsertUser(s) PROVE Inv'
  BY <1>3, InsertUserKeepsInv
<1>4. ASSUME NEW s \in Sessions, InsertDuplicate(s) \/ UpdateDuplicate(s) \/ Fail(s)
      PROVE  Inv'
  BY <1>4, AnswerKeepsInv DEF InsertDuplicate, UpdateDuplicate, Fail, Refuse
<1>5. ASSUME NEW s \in Sessions, Login(s) PROVE Inv'
  BY <1>5, AnswerKeepsInv DEF Login, Verdict
<1>6. ASSUME NEW s \in Sessions, GetUser(s) PROVE Inv'
  BY <1>6, GetUserKeepsInv
<1>7. ASSUME NEW s \in Sessions, UpdateProfile(s) PROVE Inv'
  BY <1>7, UpdateProfileKeepsInv
<1>8. ASSUME NEW id \in Ids, Toggle(id) PROVE Inv'
  BY <1>8, ToggleKeepsInv
<1>9. ASSUME UNCHANGED vars PROVE Inv'
  BY <1>9 DEF vars, Inv, TypeOK, PlaceFitsRequest, RowIsThere, Exists
<1> QED
  BY <1>1, <1>2, <1>3, <1>4, <1>5, <1>6, <1>7, <1>8, <1>9 DEF Next

LEMMA InvHolds == Spec => []Inv
BY InvInit, InvNext, PTL DEF Spec

\* The type invariant of Users, for every value of the constants.
THEOREM TypeCorrect == Spec => []TypeOK
<1>1. Inv => TypeOK
  BY DEF Inv
<1> QED
  BY <1>1, InvHolds, PTL

-----------------------------------------------------------------------------
\* Steps that write neither a name nor an email.
LEMMA OtherStepsKeepIdentities ==
  ASSUME IdentitiesAreUnique,
         \A id \in Ids : Exists(id)' => /\ Exists(id)
                                        /\ users'[id].name = users[id].name
                                        /\ users'[id].email = users[id].email
  PROVE  IdentitiesAreUnique'
BY DEF IdentitiesAreUnique

LEMMA UniqueNext == Inv /\ IdentitiesAreUnique /\ [Next]_vars => IdentitiesAreUnique'
<1> SUFFICES ASSUME Inv, IdentitiesAreUnique, [Next]_vars PROVE IdentitiesAreUnique'
  OBVIOUS
<1>1. CASE users' = users
  BY <1>1, OtherStepsKeepIdentities DEF Exists
<1>2. ASSUME NEW s \in Sessions, InsertUser(s) PROVE IdentitiesAreUnique'
  <2>1. /\ req[s].name = users'[lastId + 1].name /\ req[s].email = users'[lastId + 1].email
        /\ \A id \in Ids \ {lastId + 1} : users'[id] = users[id]
        /\ lastId + 1 \in Ids
    BY <1>2, MaxUsersIsNumber DEF InsertUser, Inv, TypeOK, Ids
  <2>2. \A id \in Ids : Exists(id) =>
          users[id].name # req[s].name /\ users[id].email # req[s].email
    BY <1>2 DEF InsertUser, Conflict, NameTaken, EmailTaken
  <2> QED
    BY <2>1, <2>2 DEF IdentitiesAreUnique, Exists
<1>3. ASSUME NEW s \in Sessions, UpdateProfile(s) PROVE IdentitiesAreUnique'
  <2>1. /\ req[s].id \in Ids /\ Exists(req[s].id) /\ users[req[s].id] \in User
        /\ users'[req[s].id].name = users[req[s].id].name
        /\ users'[req[s].id].email = row[s].email
        /\ \A id \in Ids \ {req[s].id} : users'[id] = users[id]
    BY <1>3, UpdateProfileEffect, FoundIsUser DEF Inv, User
  <2>2. \A id \in Ids \ {req[s].id} : Exists(id) => users[id].email # row[s].email
    BY <1>3 DEF UpdateProfile, EmailConflict
  <2> QED
    BY <2>1, <2>2 DEF IdentitiesAreUnique, Exists
<1>4. ASSUME NEW id \in Ids, Toggle(id) PROVE IdentitiesAreUnique'
  <2>1. users[id] \in User
    BY <1>4, FoundIsUser DEF Inv, Toggle
  <2>2. /\ users'[id].name = users[id].name /\ users'[id].email = users[id].email
        /\ \A i \in Ids \ {id} : users'[i] = users[i]
    BY <1>4, <2>1 DEF Toggle, Inv, TypeOK, User
  <2> QED
    BY <1>4, <2>2, OtherStepsKeepIdentities DEF Exists, Toggle
<1> QED
  BY <1>1, <1>2, <1>3, <1>4
  DEF Next, vars, ArriveRegister, ArriveLogin, ArriveUpdate, Arrive, CheckName, CheckEmail,
      CheckNewEmail, InsertDuplicate, UpdateDuplicate, Fail, Refuse, Proceed, Login, GetUser

\* However the checks of concurrent registrations and email changes race, no
\* two accounts share a name or an email: the unique indexes see to it in both
\* statements that write them.
THEOREM IdentitiesStayUnique == Spec => []IdentitiesAreUnique
<1>1. Init => IdentitiesAreUnique
  BY DEF Init, IdentitiesAreUnique, Exists
<1> QED
  BY <1>1, InvHolds, UniqueNext, PTL DEF Spec

-----------------------------------------------------------------------------
\* A profile update, however old the row it read, leaves every name, password
\* and status as it finds them.
THEOREM ProfileUpdatesKeepIdentity == Spec => ProfileKeepsIdentity
<1>1. Inv /\ [Next]_vars => [ProfileStep]_vars
  <2> SUFFICES ASSUME Inv, [Next]_vars, NEW s \in Sessions, pc[s] = "update", pc'[s] = "idle",
                      NEW id \in Ids, Exists(id)
               PROVE  /\ users'[id].name = users[id].name
                      /\ users'[id].password = users[id].password
                      /\ users'[id].enabled = users[id].enabled
    BY DEF ProfileStep
  <2>1. users' = users \/ UpdateProfile(s)
    <3>1. pc \in [Sessions -> {"idle", "checkName", "checkEmail", "insert", "login", "get",
                               "newEmail", "update"}]
      BY DEF Inv, TypeOK
    <3>2. CASE UNCHANGED vars \/ \E i \in Ids : Toggle(i)
      BY <3>2 DEF vars, Toggle
    <3>3. ASSUME NEW t \in Sessions, ArriveRegister(t) \/ ArriveLogin(t) \/ ArriveUpdate(t)
          PROVE  users' = users
      BY <3>3 DEF ArriveRegister, ArriveLogin, ArriveUpdate, Arrive
    <3>4. ASSUME NEW t \in Sessions,
                 CheckName(t) \/ CheckEmail(t) \/ CheckNewEmail(t) \/ Login(t) \/ GetUser(t)
          PROVE  users' = users
      BY <3>4 DEF CheckName, CheckEmail, CheckNewEmail, Login, GetUser, Refuse, Proceed, Answer
    <3>5. ASSUME NEW t \in Sessions, InsertDuplicate(t) \/ UpdateDuplicate(t) \/ Fail(t)
          PROVE  users' = users
      BY <3>5 DEF InsertDuplicate, UpdateDuplicate, Fail, Refuse, Answer
    <3>6. ASSUME NEW t \in Sessions, InsertUser(t) PROVE FALSE
      BY <3>1, <3>6 DEF InsertUser, Answer
    <3>7. ASSUME NEW t \in Sessions, UpdateProfile(t) PROVE t = s
      BY <3>1, <3>7 DEF UpdateProfile, Answer
    <3> QED
      BY <3>2, <3>3, <3>4, <3>5, <3>6, <3>7 DEF Next
  <2>2. CASE UpdateProfile(s)
    <3>1. users[id] \in User
      BY FoundIsUser DEF Inv
    <3>2. CASE id = req[s].id
      BY <2>2, <3>1, <3>2, UpdateProfileEffect DEF User
    <3>3. CASE id # req[s].id
      BY <2>2, <3>3, UpdateProfileEffect
    <3> QED
      BY <3>2, <3>3
  <2> QED
    BY <2>1, <2>2
<1> QED
  BY <1>1, InvHolds, PTL DEF Spec, ProfileKeepsIdentity
=============================================================================
