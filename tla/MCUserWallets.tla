--------------------------- MODULE MCUserWallets ---------------------------
(* One user with a funded SOL row and no USDC row yet, one id not in use.  *)
EXTENDS UserWallets

MCUsers == {"u1", "u2"}
MCAssets == {"SOL", "USDC"}
MCOrderIds == {1}
MCOpenRows == {<<"u1", "SOL">>}
MCOpening == [a \in MCUsers \X MCAssets |-> IF a = <<"u1", "SOL">> THEN 1 ELSE 0]
MCNames == {"alice", "bob"}
MCFirstNames == [u \in MCUsers |-> IF u = "u1" THEN "alice" ELSE "none"]
MCTraded == {"u1"} \X MCAssets
=============================================================================
