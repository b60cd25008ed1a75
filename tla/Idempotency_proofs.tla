-------------------------- MODULE Idempotency_proofs --------------------------
(***************************************************************************)
(* Theorems about the idempotency middleware, for any number of requests   *)
(* and keys, any failures and any mix of patient and impatient clients.    *)
(***************************************************************************)
EXTENDS Idempotency, TLAPS

UnderWay == {"executing", "saving"}

\* A row is the response of a request of its key that was carried out and saved; it
\* stays for ever, so what was answered from it is what it holds.
RowsSaved ==
  /\ \A k \in Keys : \A r \in row[k] : KeyOf[r] = k /\ pc[r] = "saved"
  /\ \A r \in Requests : pc[r] \in {"saving", "saved"} => r \in executed
  /\ \A r \in Requests : pc[r] = "saved" => row[KeyOf[r]] # {}
  /\ \A p \in replayed : p[2] \in row[KeyOf[p[1]]] /\ ContentOf[p[2]] = ContentOf[p[1]]

\* A patient client has one attempt under way.
OneAttempt ==
  \A r, s \in Requests :
    /\ KeyOf[r] \in Patient /\ KeyOf[s] = KeyOf[r] /\ r # s
    /\ pc[r] \in UnderWay
    => pc[s] \notin UnderWay

IInv == TypeOK /\ RowsSaved /\ OneAttempt /\ CarriedOutOnce

\* What a step does to one request.
LEMMA GoesEffect ==
  ASSUME TypeOK, NEW r \in Requests, NEW to \in Pcs, Goes(r, to)
  PROVE  /\ pc' \in [Requests -> Pcs]
         /\ \A s \in Requests : pc'[s] = IF s = r THEN to ELSE pc[s]
BY DEF TypeOK, Goes

\* A request that is answered is answered from the row of its key.
LEMMA CheckInv ==
  ASSUME IInv, NEW r \in Requests, Check(r)
  PROVE  IInv'
<1> USE IdempotencyAssumption DEF Pcs
<1>1. /\ pc[r] = "new" /\ executed' = executed /\ row' = row /\ expired' = expired
      /\ MayArrive(r)
  BY DEF Check
<1>2. CASE \E s \in Matching(r) : replayed' = replayed \cup {<<r, s>>} /\ Goes(r, "replied")
  <2>1. PICK s \in Matching(r) : replayed' = replayed \cup {<<r, s>>} /\ Goes(r, "replied")
    BY <1>2
  <2>2. s \in row[KeyOf[r]] /\ ContentOf[s] = ContentOf[r] /\ s \in Requests
    BY DEF Matching, IInv, TypeOK
  <2>3. /\ pc' \in [Requests -> Pcs]
        /\ \A q \in Requests : pc'[q] = IF q = r THEN "replied" ELSE pc[q]
    BY <2>1, GoesEffect DEF IInv
  <2>4. TypeOK'
    BY <1>1, <2>1, <2>2, <2>3 DEF IInv, TypeOK
  <2>5. RowsSaved'
    <3>1. \A k \in Keys : \A q \in row[k] : q \in Requests /\ KeyOf[q] = k /\ pc'[q] = "saved"
      BY <1>1, <2>3 DEF IInv, RowsSaved, TypeOK
    <3>2. \A p \in replayed' :
            p[2] \in row[KeyOf[p[1]]] /\ ContentOf[p[2]] = ContentOf[p[1]]
      BY <2>1, <2>2 DEF IInv, RowsSaved
    <3>3. QED
      BY <1>1, <2>3, <3>1, <3>2 DEF IInv, RowsSaved
  <2>6. OneAttempt'
    BY <2>3 DEF IInv, OneAttempt, UnderWay
  <2>7. CarriedOutOnce'
    BY <1>1, <2>3 DEF IInv, CarriedOutOnce, OneContent, Attempts
  <2>8. QED
    BY <2>4, <2>5, <2>6, <2>7 DEF IInv
<1>3. CASE Matching(r) = {} /\ Goes(r, "executing") /\ UNCHANGED replayed
  <2>1. /\ pc' \in [Requests -> Pcs]
        /\ \A q \in Requests : pc'[q] = IF q = r THEN "executing" ELSE pc[q]
    BY <1>3, GoesEffect DEF IInv
  <2>2. TypeOK'
    BY <1>1, <1>3, <2>1 DEF IInv, TypeOK
  <2>3. RowsSaved'
    <3>1. \A k \in Keys : \A q \in row[k] : q \in Requests /\ KeyOf[q] = k /\ pc'[q] = "saved"
      BY <1>1, <2>1 DEF IInv, RowsSaved, TypeOK
    <3>2. QED
      BY <1>1, <1>3, <2>1, <3>1 DEF IInv, RowsSaved
  <2>4. OneAttempt'
    BY <1>1, <2>1 DEF IInv, OneAttempt, UnderWay, MayArrive, Attempts, Over
  <2>5. CarriedOutOnce'
    <3> SUFFICES ASSUME NEW k \in Patient, OneContent(k), k \notin expired,
                        NEW q \in Attempts(k), NEW s \in Attempts(k),
                        pc'[q] = "saved", q # s
                 PROVE  pc'[s] \notin {"executing", "saving", "saved"}
      BY <1>1 DEF CarriedOutOnce, OneContent, Attempts
    <3>1. q \in Requests /\ s \in Requests /\ KeyOf[q] = k /\ KeyOf[s] = k /\ q # r
      BY <2>1 DEF Attempts
    <3>2. pc[q] = "saved"
      BY <2>1, <3>1
    <3>3. CASE s = r
      <4>1. PICK t \in row[k] : TRUE
        BY <3>1, <3>2 DEF IInv, RowsSaved
      <4>2. t \in Requests /\ KeyOf[t] = k
        BY <3>1, <4>1 DEF IInv, RowsSaved, TypeOK
      <4>3. ContentOf[t] = ContentOf[r]
        BY <3>1, <3>3, <4>2 DEF OneContent, Attempts
      <4>4. t \in Matching(r)
        BY <3>1, <3>3, <4>1, <4>3 DEF Matching
      <4>5. QED
        BY <1>3, <4>4
    <3>4. CASE s # r
      BY <2>1, <3>1, <3>2, <3>4 DEF IInv, CarriedOutOnce
    <3>5. QED
      BY <3>3, <3>4
  <2>6. QED
    BY <2>2, <2>3, <2>4, <2>5 DEF IInv
<1>4. CASE Goes(r, "error") /\ UNCHANGED replayed
  <2>1. /\ pc' \in [Requests -> Pcs]
        /\ \A q \in Requests : pc'[q] = IF q = r THEN "error" ELSE pc[q]
    BY <1>4, GoesEffect DEF IInv
  <2>2. TypeOK'
    BY <1>1, <1>4, <2>1 DEF IInv, TypeOK
  <2>3. RowsSaved'
    <3>1. \A k \in Keys : \A q \in row[k] : q \in Requests /\ KeyOf[q] = k /\ pc'[q] = "saved"
      BY <1>1, <2>1 DEF IInv, RowsSaved, TypeOK
    <3>2. QED
      BY <1>1, <1>4, <2>1, <3>1 DEF IInv, RowsSaved
  <2>4. OneAttempt' /\ CarriedOutOnce'
    BY <1>1, <2>1 DEF IInv, OneAttempt, UnderWay, CarriedOutOnce, OneContent, Attempts
  <2>5. QED
    BY <2>2, <2>3, <2>4 DEF IInv
<1>5. QED
  BY <1>2, <1>3, <1>4 DEF Check
\* A request under way that ends without a saved response, or whose handler succeeds,
\* disturbs nothing: it may have been carried out, and only the latter is under way.
LEMMA MoveInv ==
  ASSUME IInv, NEW r \in Requests, NEW to \in {"saving", "error", "unsaved", "crashed"},
         pc[r] \in UnderWay, Goes(r, to), executed' \in {executed, executed \cup {r}},
         to = "saving" => r \in executed',
         UNCHANGED <<replayed, row, expired>>
  PROVE  IInv'
<1> USE IdempotencyAssumption DEF Pcs
<1>1. /\ pc' \in [Requests -> Pcs]
      /\ \A q \in Requests : pc'[q] = IF q = r THEN to ELSE pc[q]
  BY GoesEffect DEF IInv
<1>2. executed \subseteq executed' /\ executed' \subseteq Requests
  BY DEF IInv, TypeOK
<1>3. TypeOK'
  BY <1>1, <1>2 DEF IInv, TypeOK
<1>4. RowsSaved'
  <2>1. \A k \in Keys : \A q \in row[k] : q \in Requests /\ KeyOf[q] = k /\ pc'[q] = "saved"
    BY <1>1 DEF IInv, RowsSaved, TypeOK, UnderWay
  <2>2. \A q \in Requests : pc'[q] \in {"saving", "saved"} => q \in executed'
    BY <1>1, <1>2 DEF IInv, RowsSaved
  <2>3. \A q \in Requests : pc'[q] = "saved" => row[KeyOf[q]] # {}
    BY <1>1 DEF IInv, RowsSaved
  <2>4. QED
    BY <2>1, <2>2, <2>3 DEF IInv, RowsSaved
<1>5. OneAttempt'
  BY <1>1 DEF IInv, OneAttempt, UnderWay
<1>6. CarriedOutOnce'
  <2> SUFFICES ASSUME NEW k \in Patient, OneContent(k), k \notin expired,
                      NEW q \in Attempts(k), NEW t \in Attempts(k),
                      pc'[q] = "saved", q # t
               PROVE  pc'[t] \notin {"executing", "saving", "saved"}
    BY DEF CarriedOutOnce, OneContent, Attempts
  <2>1. q \in Requests /\ t \in Requests /\ q # r /\ pc[q] = "saved"
    BY <1>1 DEF Attempts
  <2>2. pc[t] \notin {"executing", "saving", "saved"}
    BY <2>1 DEF IInv, CarriedOutOnce
  <2>3. QED
    BY <1>1, <2>1, <2>2 DEF UnderWay
<1>7. QED
  BY <1>3, <1>4, <1>5, <1>6 DEF IInv

\* The first response that is saved for a key takes its row, a later one takes none.
LEMMA SaveInv ==
  ASSUME IInv, NEW r \in Requests, pc[r] = "saving", Insert(r), Goes(r, "saved"),
         UNCHANGED <<executed, replayed, expired>>
  PROVE  IInv'
<1> USE IdempotencyAssumption DEF Pcs
<1>1. /\ pc' \in [Requests -> Pcs]
      /\ \A q \in Requests : pc'[q] = IF q = r THEN "saved" ELSE pc[q]
  BY GoesEffect DEF IInv
<1>2. KeyOf[r] \in Keys
  OBVIOUS
<1>3. /\ row' \in [Keys -> SUBSET Requests]
      /\ \A k \in Keys : row'[k] = IF k = KeyOf[r] /\ row[k] = {} THEN {r} ELSE row[k]
  BY <1>2 DEF Insert, IInv, TypeOK
<1>4. TypeOK'
  <2>1. \A k \in Keys : \A q, s \in row'[k] : q = s
    BY <1>3 DEF IInv, TypeOK
  <2>2. QED
    BY <1>1, <1>3, <2>1 DEF IInv, TypeOK
<1>5. RowsSaved'
  <2>1. \A k \in Keys : \A q \in row'[k] : KeyOf[q] = k /\ pc'[q] = "saved"
    <3> SUFFICES ASSUME NEW k \in Keys, NEW q \in row'[k]
                 PROVE  KeyOf[q] = k /\ pc'[q] = "saved"
      OBVIOUS
    <3>1. CASE q = r
      BY <1>1, <1>3, <3>1 DEF IInv, RowsSaved
    <3>2. CASE q # r
      <4>1. q \in row[k] /\ q \in Requests
        BY <1>3, <3>2 DEF IInv, TypeOK
      <4>2. QED
        BY <1>1, <3>2, <4>1 DEF IInv, RowsSaved
    <3>3. QED
      BY <3>1, <3>2
  <2>2. \A q \in Requests : pc'[q] \in {"saving", "saved"} => q \in executed'
    BY <1>1 DEF IInv, RowsSaved
  <2>3. \A q \in Requests : pc'[q] = "saved" => row'[KeyOf[q]] # {}
    <3> SUFFICES ASSUME NEW q \in Requests, pc'[q] = "saved"
                 PROVE  row'[KeyOf[q]] # {}
      OBVIOUS
    <3>1. KeyOf[q] \in Keys
      OBVIOUS
    <3>2. CASE q = r
      BY <1>3, <3>1, <3>2
    <3>3. CASE q # r
      BY <1>1, <1>3, <3>1, <3>3 DEF IInv, RowsSaved
    <3>4. QED
      BY <3>2, <3>3
  <2>4. \A p \in replayed' :
          p[2] \in row'[KeyOf[p[1]]] /\ ContentOf[p[2]] = ContentOf[p[1]]
    <3> SUFFICES ASSUME NEW p \in replayed
                 PROVE  p[2] \in row'[KeyOf[p[1]]] /\ ContentOf[p[2]] = ContentOf[p[1]]
      OBVIOUS
    <3>1. p[1] \in Requests
      BY DEF IInv, TypeOK
    <3>2. KeyOf[p[1]] \in Keys /\ p[2] \in row[KeyOf[p[1]]] /\ ContentOf[p[2]] = ContentOf[p[1]]
      BY <3>1 DEF IInv, RowsSaved
    <3>3. QED
      BY <1>3, <3>2
  <2>5. QED
    BY <2>1, <2>2, <2>3, <2>4 DEF RowsSaved
<1>6. OneAttempt'
  BY <1>1 DEF IInv, OneAttempt, UnderWay
<1>7. CarriedOutOnce'
  <2> SUFFICES ASSUME NEW k \in Patient, OneContent(k), k \notin expired,
                      NEW q \in Attempts(k), NEW t \in Attempts(k),
                      pc'[q] = "saved", q # t
               PROVE  pc'[t] \notin {"executing", "saving", "saved"}
    BY DEF CarriedOutOnce, OneContent, Attempts
  <2>1. q \in Requests /\ t \in Requests /\ KeyOf[q] = k /\ KeyOf[t] = k
    BY DEF Attempts
  <2>2. CASE q # r /\ t # r
    BY <1>1, <2>1, <2>2 DEF IInv, CarriedOutOnce
  <2>3. CASE t = r
    BY <1>1, <2>1, <2>3 DEF IInv, CarriedOutOnce
  <2>4. CASE q = r
    <3>1. pc[t] \notin UnderWay
      BY <2>1, <2>4 DEF IInv, OneAttempt, UnderWay
    <3>2. pc[t] # "saved"
      BY <2>1, <2>4 DEF IInv, CarriedOutOnce
    <3>3. QED
      BY <1>1, <2>1, <2>4, <3>1, <3>2 DEF UnderWay
  <2>5. QED
    BY <2>2, <2>3, <2>4
<1>8. QED
  BY <1>4, <1>5, <1>6, <1>7 DEF IInv

\* Every step keeps the invariant.
LEMMA StepInv ==
  ASSUME IInv, [Next]_vars
  PROVE  IInv'
<1>1. ASSUME NEW r \in Requests, Execute(r) PROVE IInv'
  BY <1>1, MoveInv DEF Execute, UnderWay
<1>2. ASSUME NEW r \in Requests, Save(r) PROVE IInv'
  <2>1. CASE Insert(r) /\ Goes(r, "saved")
    BY <1>2, <2>1, SaveInv DEF Save
  <2>2. CASE Goes(r, "unsaved") /\ UNCHANGED row
    BY <1>2, <2>2, MoveInv DEF Save, UnderWay
  <2>3. QED
    BY <1>2, <2>1, <2>2 DEF Save
<1>3. ASSUME NEW r \in Requests, Crash(r) PROVE IInv'
  BY <1>3, MoveInv DEF Crash, UnderWay
<1>4. ASSUME NEW k \in Keys, Expire(k) PROVE IInv'
  BY <1>4 DEF Expire, IInv, TypeOK, RowsSaved, OneAttempt, CarriedOutOnce, OneContent, Attempts
<1>5. CASE UNCHANGED vars
  BY <1>5 DEF vars, IInv, TypeOK, RowsSaved, OneAttempt, CarriedOutOnce, OneContent, Attempts
<1>6. QED
  BY <1>1, <1>2, <1>3, <1>4, <1>5, CheckInv DEF Next

\* Types, rows, attempts under way and CarriedOutOnce hold together in every state.
THEOREM IdempotencyInvariant == Spec => []IInv
<1>1. Init => IInv
  BY IdempotencyAssumption
     DEF Init, IInv, TypeOK, Pcs, RowsSaved, OneAttempt, CarriedOutOnce, UnderWay, OneContent,
         Attempts
<1>2. IInv /\ [Next]_vars => IInv'
  BY StepInv
<1>3. QED
  BY <1>1, <1>2, PTL DEF Spec

\* A replayed response is that of a request of the same user, key and body that was
\* carried out, the same one for every request of a key, for any number of requests.
THEOREM IdempotencyReplayFaithful == Spec => []ReplayFaithful
<1>1. IInv => ReplayFaithful
  <2> SUFFICES ASSUME IInv PROVE ReplayFaithful
    OBVIOUS
  <2>1. ASSUME NEW p \in replayed
        PROVE  /\ KeyOf[p[1]] \in Keys /\ p[2] \in row[KeyOf[p[1]]]
               /\ KeyOf[p[1]] = KeyOf[p[2]]
               /\ ContentOf[p[1]] = ContentOf[p[2]]
               /\ p[2] \in executed
    <3>1. p[1] \in Requests /\ p[2] \in Requests
      BY DEF IInv, TypeOK
    <3>2. KeyOf[p[1]] \in Keys
      BY <3>1, IdempotencyAssumption
    <3>3. p[2] \in row[KeyOf[p[1]]] /\ ContentOf[p[2]] = ContentOf[p[1]]
      BY DEF IInv, RowsSaved
    <3>4. KeyOf[p[2]] = KeyOf[p[1]] /\ pc[p[2]] = "saved"
      BY <3>2, <3>3 DEF IInv, RowsSaved
    <3>5. p[2] \in executed
      BY <3>1, <3>4 DEF IInv, RowsSaved
    <3>6. QED
      BY <3>2, <3>3, <3>4, <3>5
  <2>2. \A k \in Keys : \A r, s \in row[k] : r = s
    BY DEF IInv, TypeOK
  <2>3. \A p, q \in replayed : KeyOf[p[1]] = KeyOf[q[1]] => p[2] = q[2]
    BY <2>1, <2>2
  <2>4. QED
    BY <2>1, <2>3 DEF ReplayFaithful
<1>2. QED
  BY <1>1, IdempotencyInvariant, PTL

\* A client that retries only when an attempt is over, always with the same request, is
\* served once until the row expires, whatever else any other client sends.
THEOREM IdempotencyCarriedOutOnce == Spec => []CarriedOutOnce
<1>1. IInv => CarriedOutOnce
  BY DEF IInv
<1>2. QED
  BY <1>1, IdempotencyInvariant, PTL

\* After a save of any attempt, whatever failed or was repeated before it, no further attempt
\* at the same request passes the look-up until the row expires: a saved response has left a
\* row of the key (RowsSaved), which is of the same content.
THEOREM IdempotencyNoneAfterSaved == Spec => NoneAfterSaved
<1>1. ASSUME IInv, [Next]_vars, NEW r \in Requests, pc[r] = "new", pc'[r] = "executing",
             KeyOf[r] \notin expired, OneContent(KeyOf[r]), NEW s \in Attempts(KeyOf[r])
      PROVE  pc[s] # "saved"
  <2>1. SUFFICES ASSUME pc[s] = "saved" PROVE FALSE
    OBVIOUS
  <2>2. s \in Requests /\ KeyOf[s] = KeyOf[r] /\ KeyOf[r] \in Keys
    BY <1>1, IdempotencyAssumption DEF Attempts
  <2>3. row[KeyOf[r]] # {}
    BY <1>1, <2>1, <2>2 DEF IInv, RowsSaved
  <2>4. PICK q \in row[KeyOf[r]] : q \in Requests /\ KeyOf[q] = KeyOf[r]
    BY <1>1, <2>2, <2>3 DEF IInv, TypeOK, RowsSaved
  <2>5. q \in Matching(r)
    BY <1>1, <2>4 DEF Matching, OneContent, Attempts
  <2>6. pc \in [Requests -> Pcs]
    BY <1>1 DEF IInv, TypeOK
  <2>7. PICK t \in Requests : Check(t) \/ Execute(t) \/ Save(t) \/ Crash(t)
    BY <1>1, <2>6 DEF Next, vars, Expire
  <2>8. t = r
    BY <1>1, <2>6, <2>7 DEF Check, Execute, Save, Crash, Goes
  <2>9. Check(r)
    BY <1>1, <2>7, <2>8 DEF Execute, Save, Crash
  <2>10. Goes(r, "replied") \/ Goes(r, "error")
    BY <2>5, <2>9 DEF Check
  <2>11. QED
    BY <1>1, <2>6, <2>10 DEF Goes
<1>2. IInv /\ [Next]_vars =>
        [\A r \in Requests :
           pc[r] = "new" /\ pc'[r] = "executing" =>
             \/ \A s \in Attempts(KeyOf[r]) : pc[s] # "saved"
             \/ KeyOf[r] \in expired
             \/ ~OneContent(KeyOf[r])]_vars
  BY <1>1
<1>3. QED
  BY <1>2, IdempotencyInvariant, PTL DEF Spec, NoneAfterSaved

\* The middleware's state keeps its shape: a key never has two rows.
THEOREM IdempotencyTypes == Spec => []TypeOK
<1>1. IInv => TypeOK
  BY DEF IInv
<1>2. QED
  BY <1>1, IdempotencyInvariant, PTL
=============================================================================
