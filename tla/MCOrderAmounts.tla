--------------------------- MODULE MCOrderAmounts ---------------------------
(* Columns of quarters of a token, requests in eighths, a SOL of eight base *)
(* units (finer than a column) and a USDC of two (coarser).                 *)
EXTENDS OrderAmounts

MCBaseUnits == [a \in Assets |-> IF a = "SOL" THEN 8 ELSE 2]
MCOpening == [a \in Assets |-> 3 * One]

\* A request for size/8 tokens at a price of price/8.
Request(side, size, price) ==
  [side |-> side, size |-> size * Scale * Part, price |-> price * Scale * Part]

\* Whole cells; an eighth more than cells; products that are half a cell, less and
\* more; a lock that is no whole number of base units.
MCAsked ==
  {Request("sell", 16, 8), Request("sell", 5, 8), Request("buy", 8, 16),
   Request("buy", 6, 4), Request("buy", 2, 4), Request("buy", 6, 8), Request("buy", 7, 7),
   Request("buy", 6, 6)}
=============================================================================
