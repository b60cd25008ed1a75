----------------------------- MODULE MCWalletTx -----------------------------
(* One user: a sell and a buy are placed and settled while one client makes  *)
(* a deposit and another works through a list of requests.                   *)
EXTENDS WalletTx

MCUsers == {"alice"}
MCAssets == {"SOL", "USDC", "BONK"}
MCOrderIds == {1, 2}
MCOpenRows == MCUsers \X {"SOL", "USDC"}
MCOpening == [a \in MCUsers \X MCAssets |-> IF a[2] = "BONK" THEN 0 ELSE 1]
MCRank == [a \in MCAssets |-> CASE a = "BONK" -> 1 [] a = "SOL" -> 2 [] a = "USDC" -> 3]
MCTxs == {"lock1", "lock2", "fill1", "fill2", "withdraw", "deposit", "deposit2", "create", "cancel1"}
Sol == <<"alice", "SOL">>
Usdc == <<"alice", "USDC">>
Bonk == <<"alice", "BONK">>
Task(kind, a, o) == [kind |-> kind, account |-> a, amount |-> 1, order |-> o]
Fill(a, buy, o) == [kind |-> "fill", account |-> a, amount |-> 1, order |-> o,
                    buy |-> buy, out |-> 1]
MCJob ==
  [t \in MCTxs |->
     CASE t = "lock1" -> Task("lock", Sol, 1)
       [] t = "lock2" -> Task("lock", Usdc, 2)
       [] t = "fill1" -> Fill(Sol, Usdc, 1)
       [] t = "fill2" -> Fill(Usdc, Sol, 2)
       [] t = "withdraw" -> Task("withdraw", Sol, 1)
       [] t = "deposit" -> Task("deposit", Bonk, 1)
       [] t = "deposit2" -> Task("deposit", Sol, 1)
       [] t = "cancel1" -> Task("release", Sol, 1)
       [] t = "create" -> Task("create", Bonk, 1)]
MCAfter ==
  [t \in MCTxs |-> CASE t = "withdraw" -> {"deposit2"}
                     [] t = "cancel1" -> {"create"}
                     [] t = "lock2" -> {"lock1"}
                     [] t = "create" -> {"withdraw"}
                     [] OTHER -> {}]
=============================================================================
