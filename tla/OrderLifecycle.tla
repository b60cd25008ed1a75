--------------------------- MODULE OrderLifecycle ---------------------------
(***************************************************************************)
(* What the exchange promises about an order, without versions, messages,  *)
(* goroutines or wallets: the life of its status (docs: open, triggered,   *)
(* submitting, filled, canceled, failed) and when its swap may be sent.    *)
(***************************************************************************)
EXTENDS Naturals

CONSTANT OrderIds

VARIABLES status,        \* the status every reader of the order sees
          swaps          \* how many swap transactions were sent for it

vars == <<status, swaps>>

Init ==
  /\ status = [o \in OrderIds |-> "absent"]
  /\ swaps = [o \in OrderIds |-> 0]

Become(o, from, to) ==
  /\ status[o] = from
  /\ status' = [status EXCEPT ![o] = to]
  /\ UNCHANGED swaps

Create(o)  == Become(o, "absent", "open")
Trigger(o) == Become(o, "open", "triggered")
Cancel(o)  == Become(o, "open", "canceled") \/ Become(o, "triggered", "canceled")
Submit(o)  == Become(o, "triggered", "submitting")

\* The one swap of the order, which is sent only while it is submitting.
Swap(o) ==
  /\ status[o] = "submitting"
  /\ swaps[o] = 0
  /\ swaps' = [swaps EXCEPT ![o] = 1]
  /\ UNCHANGED status

\* An order is filled only by its swap, and failed only without one.
Fill(o) == swaps[o] = 1 /\ Become(o, "submitting", "filled")
Fail(o) == swaps[o] = 0 /\ Become(o, "submitting", "failed")

Next ==
  \E o \in OrderIds :
    \/ Create(o) \/ Trigger(o) \/ Cancel(o) \/ Submit(o)
    \/ Swap(o) \/ Fill(o) \/ Fail(o)

Spec == Init /\ [][Next]_vars

-----------------------------------------------------------------------------

Statuses == {"absent", "open", "triggered", "submitting", "filled", "canceled", "failed"}

TypeOK ==
  /\ status \in [OrderIds -> Statuses]
  /\ swaps \in [OrderIds -> {0, 1}]

\* SwapSafety: no swap is sent for an order that is canceled or failed, now or later,
\* and a filled order had exactly one.
SwapSafety ==
  \A o \in OrderIds :
    /\ swaps[o] <= 1
    /\ status[o] \notin {"submitting", "filled"} => swaps[o] = 0
    /\ status[o] = "filled" => swaps[o] = 1
=============================================================================
