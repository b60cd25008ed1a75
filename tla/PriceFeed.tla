----------------------------- MODULE PriceFeed -----------------------------
(***************************************************************************)
(* The exchange with the stream its engines live on: the price process     *)
(* appends a tick to price.ticks, the consumer group hands each tick to    *)
(* one engine, and the engine handles it to the end before it acknowledges *)
(* it and asks for the next.  A crash of an engine or a failing query      *)
(* would lose the tick in hand, as nobody claims what stays pending; this  *)
(* is the feed without them.                                               *)
(***************************************************************************)
EXTENDS Exchange

CONSTANT MaxTicks      \* bound: the ticks the simulator sends

ASSUME PriceFeedAssumption == MaxTicks \in Nat

VARIABLES published,   \* how many ticks the simulator has sent
          ticks,       \* price.ticks: those not yet delivered to the group
          inHand       \* each engine: the tick it was given, and how far it is

feedVars == <<published, ticks, inHand>>

NoTick == [phase |-> "none"]

Given == [phase : {"given", "read"}, price : Prices]

FeedTypeOK ==
  /\ published \in 0..MaxTicks
  /\ ticks \in Seq(Prices)
  /\ inHand \in [Engines -> {NoTick} \cup Given]

FeedInit ==
  /\ Init
  /\ published = 0
  /\ ticks = <<>>
  /\ inHand = [e \in Engines |-> NoTick]

EngineGoes(e, state) == inHand' = [inHand EXCEPT ![e] = state]

\* The price walk may take any step; the service sends each tick on to Redis.
SimulatorTick(p) ==
  /\ published < MaxTicks
  /\ published' = published + 1
  /\ ticks' = Append(ticks, p)
  /\ UNCHANGED <<vars, inHand>>

\* XREADGROUP with ">": the next tick, which no other engine is given.
EngineConsume(e) ==
  /\ inHand[e] = NoTick
  /\ ticks # <<>>
  /\ EngineGoes(e, [phase |-> "given", price |-> Head(ticks)])
  /\ ticks' = Tail(ticks)
  /\ UNCHANGED <<vars, published>>

\* processPriceTick as far as its query.
EngineRead(e) ==
  /\ inHand[e].phase = "given"
  /\ EngineTick(e, inHand[e].price)
  /\ EngineGoes(e, [inHand[e] EXCEPT !.phase = "read"])
  /\ UNCHANGED <<ledgerVars, orderServiceVars, executorVars, published, ticks>>

\* The rest of it, order by order.
EngineHandle(e) ==
  /\ EngineStep(e)
  /\ UNCHANGED <<ledgerVars, orderServiceVars, executorVars, feedVars>>

\* The loop goes round; whether XACK succeeds changes nothing anybody reads.
EngineAck(e) ==
  /\ inHand[e].phase = "read"
  /\ batch[e] = {} /\ toPublish[e] = {}
  /\ EngineGoes(e, NoTick)
  /\ UNCHANGED <<vars, published, ticks>>

EngineLoop(e) == EngineConsume(e) \/ EngineRead(e) \/ EngineHandle(e) \/ EngineAck(e)

FeedNext ==
  \/ \E p \in Prices : SimulatorTick(p)
  \/ \E e \in Engines : EngineLoop(e)
  \/ OrderServiceNext /\ UNCHANGED <<triggerEngineVars, executorVars, feedVars>>
  \/ ExecutorNext /\ UNCHANGED <<orderServiceVars, feedVars>>

FeedSpec == FeedInit /\ [][FeedNext]_<<vars, feedVars>>

\* Fairness of Exchange, and an engine that takes the next tick: its loop blocks on
\* nothing but the stream.  No tick, no request and no quote is promised.
FeedFairness ==
  /\ \A e \in Engines : WF_<<vars, feedVars>>(EngineLoop(e))
  /\ \A w \in Workers :
       WF_<<vars, feedVars>>(WorkerStep(w) /\ UNCHANGED <<orderServiceVars, feedVars>>)

FeedFairSpec == FeedSpec /\ FeedFairness

-----------------------------------------------------------------------------

\* A tick that satisfies the order is on its way and no engine has read orders for it.
TickComing(o) ==
  \/ \E i \in DOMAIN ticks : ShouldTrigger(o, ticks[i])
  \/ \E e \in Engines :
       inHand[e].phase = "given" /\ ShouldTrigger(o, inHand[e].price)

\* Older orders that are open, or still being inserted: a request takes its time of
\* creation before it locks and inserts.
InReach(o) ==
  Cardinality({q \in OrderIds :
                 q < o /\ (q \in OpenOrders \/ create[q] \in {"new", "checked", "locked"})})
    < BatchSize

\* TickTriggers: an open order does not outlive a tick that satisfies it, as long as
\* fewer older orders than the batch holds are in front of it; with more, it is not
\* looked at (trigger/engine.go:75-163, order_repository.go:326-369).
TickTriggers ==
  \A o \in OrderIds :
    orders[o].status = "open" /\ TickComing(o) /\ InReach(o) ~> orders[o].status # "open"
=============================================================================
