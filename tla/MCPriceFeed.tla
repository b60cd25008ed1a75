---------------------------- MODULE MCPriceFeed ----------------------------
(* A sell and a buy of one user on the same pair.                           *)
EXTENDS PriceFeed

MCUsers == {"alice"}
MCAssets == {"SOL", "USDC"}
MCOrderIds == {1, 2}
BothRows == MCUsers \X MCAssets
Funded == [a \in MCUsers \X MCAssets |-> 2]
SellAndBuy ==
  [o \in {1, 2} |->
     IF o = 1
     THEN [user |-> "alice", side |-> "sell", size |-> 2, price |-> 2, op |-> "lte"]
     ELSE [user |-> "alice", side |-> "buy", size |-> 1, price |-> 2, op |-> "gte"]]
=============================================================================
