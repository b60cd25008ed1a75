----------------------------- MODULE MCExchange -----------------------------
(* Two orders of one user on the same pair.                                 *)
EXTENDS Exchange, TLC

MCUsers == {"alice"}
MCAssets == {"SOL", "USDC"}
MCOrderIds == {1, 2}
BothRows == MCUsers \X MCAssets
FundedSol == [a \in MCUsers \X MCAssets |-> IF a[2] = "SOL" THEN 2 ELSE 0]
TwoSells ==
  [o \in {1, 2} |-> [user |-> "alice", side |-> "sell", size |-> 1, price |-> 1,
                     op |-> IF o = 1 THEN "lte" ELSE "gte"]]

\* Engines do the same to each other, and so do workers: for runs of safety properties.
MCSymmetry == Permutations(Engines) \cup Permutations(Workers)
=============================================================================
