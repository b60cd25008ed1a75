---------------------------- MODULE MCIdempotency ----------------------------
(* A client that waits before it retries, and one that does not: four of    *)
(* its requests are the same, so that two may be carried out and two be     *)
(* answered from the table; the fifth reuses the key for another request.   *)
EXTENDS Idempotency, TLC

CONSTANTS a1, a2, b1, b2, b3, b4, other

MCRequests == {a1, a2, b1, b2, b3, b4, other}
MCKeys == {"a", "b"}
MCKeyOf == [r \in MCRequests |-> IF r \in {a1, a2} THEN "a" ELSE "b"]
MCContentOf == [r \in MCRequests |-> IF r = other THEN "other" ELSE "order"]

\* Requests of one key and one content are alike.
MCSymmetry == Permutations({a1, a2}) \cup Permutations({b1, b2, b3, b4})
=============================================================================
