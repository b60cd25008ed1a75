---------------------------- MODULE UserService ----------------------------
(***************************************************************************)
(* The users table and internal/user/service.go.  A handler looks a user   *)
(* up in one statement and acts on the answer in a later transaction; what *)
(* it knows in between is in requests.                                     *)
(*                                                                         *)
(* UpdateUser is not a step: it sets users.updated_at, a column that no    *)
(* migration creates, so its transaction always fails (service.go:144-159).*)
(***************************************************************************)
EXTENDS Ledger   \* whose constant Users is users.id

CONSTANTS Names,        \* users.username
          NoName,       \* the name of an id that has no row
          FirstNames,   \* who has which name when the system starts
          Handlers,     \* the goroutines that serve requests, one at a time each
          LookupFails   \* whether a statement that reads a user may fail

ASSUME UserServiceAssumption ==
  /\ NoName \notin Names
  /\ FirstNames \in [Users -> Names \cup {NoName}]
  /\ \A u, v \in Users : FirstNames[u] = FirstNames[v] /\ u # v => FirstNames[u] = NoName
  /\ LookupFails \in BOOLEAN

VARIABLES username,     \* the username of each row, NoName where there is no row
          deleted,      \* the rows whose deleted_at is set
          requests      \* per handler: what it has checked and not done yet

userVars == <<username, deleted, requests>>

Idle == [kind |-> "idle"]

\* A wallet request is one of WalletService or OrderService: they all look the user
\* up first.
Request ==
  {Idle} \cup [kind : {"create"}, name : Names]
         \cup [kind : {"delete", "wallet"}, user : Users]

UserTypeOK ==
  /\ username \in [Users -> Names \cup {NoName}]
  /\ deleted \subseteq Users
  /\ requests \in [Handlers -> Request]

UserInit ==
  /\ username = FirstNames
  /\ deleted = {}
  /\ requests = [h \in Handlers |-> Idle]

-----------------------------------------------------------------------------
(* internal/repository/user_repository.go                                  *)

Row(u) == username[u] # NoName

\* Mutant: the query does not look at deleted_at.
GetByIDAny(u) == Row(u)

\* Both queries exclude the deleted rows.
GetByID(u) == Row(u) /\ u \notin deleted

GetByUsername(n) == {u \in Users : username[u] = n /\ GetByID(u)}

\* Mutant: the name is unique among the rows that are not deleted only.
NameOfLiveUser(n) == GetByUsername(n) # {}

\* users.username is UNIQUE, deleted rows included.
NameTaken(n) == \E u \in Users : username[u] = n

-----------------------------------------------------------------------------

Begin(h, request) == requests[h] = Idle /\ requests' = [requests EXCEPT ![h] = request]

Ends(h) == requests' = [requests EXCEPT ![h] = Idle]

\* CreateUser goes on unless the look-up found a user: any error, a failure of the
\* query included, is taken for nobody.
CreateUserCheck(h, n) ==
  /\ GetByUsername(n) = {} \/ LookupFails
  /\ Begin(h, [kind |-> "create", name |-> n])
  /\ UNCHANGED <<username, deleted>>

\* The insert, under an id that uuid.New makes up.
CreateUser(h) ==
  /\ requests[h].kind = "create"
  /\ ~NameTaken(requests[h].name)
  /\ \E u \in Users : ~Row(u) /\ username' = [username EXCEPT ![u] = requests[h].name]
  /\ Ends(h)
  /\ UNCHANGED deleted

DeleteUserCheck(h, u) ==
  /\ GetByID(u)
  /\ Begin(h, [kind |-> "delete", user |-> u])
  /\ UNCHANGED <<username, deleted>>

\* The row is marked, if another request has not done so meanwhile; neither the
\* wallets nor the orders of the user are looked at.
DeleteUser(h) ==
  /\ requests[h].kind = "delete"
  /\ requests[h].user \notin deleted
  /\ deleted' = deleted \cup {requests[h].user}
  /\ Ends(h)
  /\ UNCHANGED username

\* The check in front of every wallet operation and of CreateOrder.
WalletCheck(h, u) ==
  /\ GetByID(u)
  /\ Begin(h, [kind |-> "wallet", user |-> u])
  /\ UNCHANGED <<username, deleted>>

\* A request is refused later on, a statement of it fails, or the process stops.
GiveUp(h) ==
  /\ requests[h] # Idle
  /\ Ends(h)
  /\ UNCHANGED <<username, deleted>>

UserStep(h) ==
  \/ \E n \in Names : CreateUserCheck(h, n)
  \/ CreateUser(h)
  \/ \E u \in Users : DeleteUserCheck(h, u)
  \/ DeleteUser(h)
  \/ \E u \in Users : WalletCheck(h, u)
  \/ GiveUp(h)

-----------------------------------------------------------------------------

\* NameIsSpent: no two ids ever have one name, although two creations may both pass
\* the look-up; so the name of a deleted user can be neither found nor given to
\* anybody again (user/service.go:46-70, UNIQUE in 0001_init.sql).
NameIsSpent ==
  \A u, v \in Users : Row(u) /\ username[u] = username[v] => u = v
=============================================================================
