----------------------------- MODULE Idempotency -----------------------------
(***************************************************************************)
(* internal/api/middleware/idempotency.go around the POST handlers: look   *)
(* the key up, run the handler, save its response.  The three steps are    *)
(* separate statements, and any number of requests may be under way.       *)
(***************************************************************************)
EXTENDS FiniteSets

CONSTANTS Requests,      \* the POST requests that may arrive
          Keys,          \* values of the Idempotency-Key header
          KeyOf,         \* the key of each request
          ContentOf,     \* its user, and the hash of its method, path and body
          Patient,       \* the keys whose client retries only when an attempt is over
          Failures       \* "db": statements may fail; "crash": the process may stop

ASSUME IdempotencyAssumption ==
  /\ KeyOf \in [Requests -> Keys]
  /\ Patient \subseteq Keys
  /\ Failures \subseteq {"db", "crash"}

VARIABLES pc,            \* where each request is in the middleware
          executed,      \* the requests whose handler changed the system
          replayed,      \* the requests answered from the table, with whose response
          row,           \* the row of each key: at most the request that saved it
          expired        \* the keys whose row is older than 24 hours

vars == <<pc, executed, replayed, row, expired>>

Pcs == {"new", "executing", "saving", "saved", "unsaved", "replied", "error", "crashed"}

Over == {"saved", "unsaved", "replied", "error", "crashed"}

TypeOK ==
  /\ pc \in [Requests -> Pcs]
  /\ executed \in SUBSET Requests
  /\ replayed \in SUBSET (Requests \X Requests)
  /\ row \in [Keys -> SUBSET Requests]
  /\ \A k \in Keys : \A r, s \in row[k] : r = s
  /\ expired \in SUBSET Keys

Init ==
  /\ pc = [r \in Requests |-> "new"]
  /\ executed = {} /\ replayed = {}
  /\ row = [k \in Keys |-> {}]
  /\ expired = {}

Goes(r, to) == pc' = [pc EXCEPT ![r] = to]

Attempts(k) == {r \in Requests : KeyOf[r] = k}

\* A patient client has one attempt under way at a time.
MayArrive(r) ==
  KeyOf[r] \in Patient =>
    \A s \in Attempts(KeyOf[r]) : pc[s] \in {"new"} \cup Over

\* checkIdempotency: WHERE key, user_id, request_hash AND expires_at > NOW().
Matching(r) ==
  {s \in row[KeyOf[r]] : ContentOf[s] = ContentOf[r] /\ KeyOf[r] \notin expired}

Check(r) ==
  /\ pc[r] = "new"
  /\ MayArrive(r)
  /\ \/ \E s \in Matching(r) :
          /\ replayed' = replayed \cup {<<r, s>>}
          /\ Goes(r, "replied")
     \/ Matching(r) = {} /\ Goes(r, "executing") /\ UNCHANGED replayed
     \/ "db" \in Failures /\ Goes(r, "error") /\ UNCHANGED replayed
  /\ UNCHANGED <<executed, row, expired>>

\* Mutant: only status 200 counts as a success, not the 201 of a creation.
ExecuteCreated(r) ==
  /\ pc[r] = "executing"
  /\ \/ executed' = executed \cup {r} /\ Goes(r, "saved")
     \/ Goes(r, "error") /\ UNCHANGED executed
     \/ "db" \in Failures /\ Goes(r, "error") /\ executed' = executed \cup {r}
  /\ UNCHANGED <<replayed, row, expired>>

\* The handler runs and writes the response to the client: 2xx, or an error, which is
\* not saved, and may leave work behind where the handler's own undo failed.
Execute(r) ==
  /\ pc[r] = "executing"
  /\ \/ executed' = executed \cup {r} /\ Goes(r, "saving")
     \/ Goes(r, "error") /\ UNCHANGED executed
     \/ "db" \in Failures /\ Goes(r, "error") /\ executed' = executed \cup {r}
  /\ UNCHANGED <<replayed, row, expired>>

\* Mutant: the table has no primary key.
InsertAgain(r) == row' = [row EXCEPT ![KeyOf[r]] = @ \cup {r}]

\* Mutant: ON CONFLICT (key) DO UPDATE.
Upsert(r) == row' = [row EXCEPT ![KeyOf[r]] = {r}]

\* saveIdempotencyResponse: ON CONFLICT (key) DO NOTHING, be the row expired or not.
Insert(r) == row' = [row EXCEPT ![KeyOf[r]] = IF @ = {} THEN {r} ELSE @]

Save(r) ==
  /\ pc[r] = "saving"
  /\ \/ Insert(r) /\ Goes(r, "saved")
     \/ "db" \in Failures /\ Goes(r, "unsaved") /\ UNCHANGED row
  /\ UNCHANGED <<executed, replayed, expired>>

\* The process stops; the handler may or may not have done its work.
Crash(r) ==
  /\ "crash" \in Failures
  /\ pc[r] \in {"executing", "saving"}
  /\ executed' \in {executed, executed \cup {r}}
  /\ Goes(r, "crashed")
  /\ UNCHANGED <<replayed, row, expired>>

\* 24 hours pass.
Expire(k) ==
  /\ row[k] # {}
  /\ k \notin expired
  /\ expired' = expired \cup {k}
  /\ UNCHANGED <<pc, executed, replayed, row>>

Next ==
  \/ \E r \in Requests : Check(r) \/ Execute(r) \/ Save(r) \/ Crash(r)
  \/ \E k \in Keys : Expire(k)

Spec == Init /\ [][Next]_vars

-----------------------------------------------------------------------------

\* ReplayFaithful: a request that is answered from the table gets the response of a
\* request of the same user with the same key and the same body, which was carried
\* out; and all requests answered so for one key get the same response
\* (idempotency.go:60-76, 158-191).
ReplayFaithful ==
  /\ \A p \in replayed :
       /\ KeyOf[p[1]] = KeyOf[p[2]]
       /\ ContentOf[p[1]] = ContentOf[p[2]]
       /\ p[2] \in executed
  /\ \A p, q \in replayed : KeyOf[p[1]] = KeyOf[q[1]] => p[2] = q[2]

OneContent(k) == \A r, s \in Attempts(k) : ContentOf[r] = ContentOf[s]

\* CarriedOutOnce: when a client retries only after an attempt is over, and sends the
\* same request each time, then once one attempt was carried out and its response
\* saved, no other attempt is, until the row expires (idempotency.go:78-98).
CarriedOutOnce ==
  \A k \in Patient :
    OneContent(k) /\ k \notin expired =>
      \A r, s \in Attempts(k) :
        pc[r] = "saved" /\ r # s => pc[s] \notin {"executing", "saving", "saved"}

\* NoneAfterSaved: however impatient the client, once the response of one attempt is saved no
\* attempt that is only looked up then is carried out, until the row expires: a repetition
\* needs a look-up before the save, or a save that never succeeds (idempotency.go:60-98).
NoneAfterSaved ==
  [][\A r \in Requests :
       pc[r] = "new" /\ pc'[r] = "executing" =>
         \/ \A s \in Attempts(KeyOf[r]) : pc[s] # "saved"
         \/ KeyOf[r] \in expired
         \/ ~OneContent(KeyOf[r])]_vars
=============================================================================
