--------------------------- MODULE MCWalletLedger ---------------------------
(* One user with a funded SOL row and no USDC row yet.                      *)
EXTENDS WalletLedger

MCUsers == {"alice"}
MCAssets == {"SOL", "USDC"}
MCOrderIds == {1}
MCOpenRows == {<<"alice", "SOL">>}
MCOpening == [a \in MCUsers \X MCAssets |-> IF a[2] = "SOL" THEN 1 ELSE 0]
NoRows == {}
NoOpening == [a \in MCUsers \X MCAssets |-> 0]
=============================================================================
