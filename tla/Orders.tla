------------------------------- MODULE Orders -------------------------------
(***************************************************************************)
(* The orders table and the statements internal/repository/                *)
(* order_repository.go runs on it.  Every status change is one UPDATE with *)
(* WHERE version = $n, which bumps the version: a compare-and-swap on the  *)
(* version the caller read earlier.                                        *)
(***************************************************************************)
EXTENDS Ledger

CONSTANTS Base, Quote,   \* the pair every order trades: SOL, USDC
          Req,           \* the create request behind each order id
          Faults         \* the failures the environment may produce

Sides == {"buy", "sell"}
Ops == {"gte", "lte"}

\* What ValidateOrderRequest lets through.
Request == [user : Users, side : Sides, size : Nat \ {0},
            price : Nat \ {0}, op : Ops]

\* "db": a statement or transaction fails (40001, lost connection) and rolls back, or
\* commits and its answer is lost, where the caller does more than give up (CreateInsert);
\* "queue": a Redis XADD fails; "quote": Jupiter gives no usable quote or transaction;
\* "crash": the process stops between two steps (kill, deploy, cancelled context).
FaultKinds == {"db", "queue", "quote", "crash"}

ASSUME OrdersAssumption ==
  /\ OrderIds \subseteq Nat
  /\ Base \in Assets /\ Quote \in Assets /\ Base # Quote
  /\ Req \in [OrderIds -> Request]
  /\ Faults \subseteq FaultKinds

VARIABLE orders          \* the row of each order id: status and version

Statuses == {"absent", "open", "triggered", "submitting", "filled", "canceled", "failed"}

Row == [status : Statuses, version : Nat]

OrdersTypeOK == orders \in [OrderIds -> Row]

OrdersInit == orders = [o \in OrderIds |-> [status |-> "absent", version |-> 0]]

-----------------------------------------------------------------------------
(* What an order locks: the quote asset at the trigger price for a buy, the *)
(* base asset for a sell.  Three services compute it, each in the same way. *)

LockAccount(o) == <<Req[o].user, IF Req[o].side = "buy" THEN Quote ELSE Base>>
BuyAccount(o)  == <<Req[o].user, IF Req[o].side = "buy" THEN Base ELSE Quote>>
LockAmount(o)  == IF Req[o].side = "buy" THEN Req[o].size * Req[o].price ELSE Req[o].size

-----------------------------------------------------------------------------
(* internal/repository/order_repository.go                                  *)

Insert(o) ==
  /\ orders[o].status = "absent"
  /\ orders' = [orders EXCEPT ![o].status = "open"]

VersionIs(o, v) == orders[o].status # "absent" /\ orders[o].version = v

\* Mutant: a status change keeps the version.
SetStatusOnly(o, status) == orders' = [orders EXCEPT ![o].status = status]

SetStatus(o, status) ==
  orders' = [orders EXCEPT ![o] = [status |-> status, version |-> @.version + 1]]

\* Mutant: WHERE id = $1, without the version.
UpdateStatusById(o, status, v) ==
  orders[o].status # "absent" /\ SetStatus(o, status)

\* UpdateStatus and UpdateStatusWithError: no condition on the current status.
UpdateStatus(o, status, v) == VersionIs(o, v) /\ SetStatus(o, status)

\* Mutant: the trigger overwrites whatever status the row has by now.
TriggerOrderById(o, v) == SetStatus(o, "triggered")

TriggerOrder(o, v) ==
  /\ orders[o].status = "open"
  /\ UpdateStatus(o, "triggered", v)

\* The statement affects no row, or fails.
UpdateFails(o, v) == ~VersionIs(o, v) \/ "db" \in Faults

OpenOrders == {o \in OrderIds : orders[o].status = "open"}

\* Mutant: the newest orders first.
NewestOpenOrders(limit) ==
  {o \in OpenOrders : Cardinality({q \in OpenOrders : q > o}) < limit}

\* GetOpenOrdersForTrigger: ORDER BY created_at ASC LIMIT limit.  Order ids are
\* numbered by created_at, ties broken as the database breaks them.
OpenOrdersForTrigger(limit) ==
  {o \in OpenOrders : Cardinality({q \in OpenOrders : q < o}) < limit}
=============================================================================
