------------------------------ MODULE PriceHub ------------------------------
(***************************************************************************)
(* The price process: the simulator of internal/price/simulator.go, and    *)
(* the WebSocket hub of internal/price/hub.go, one goroutine that owns the *)
(* map of clients and talks over channels with a handler, a reader and a   *)
(* writer goroutine of each client.                                        *)
(***************************************************************************)
EXTENDS Naturals, Sequences, FiniteSets

CONSTANTS Clients,       \* the connections that may be opened
          TicksCap,      \* capacity of hub.priceTicks (1000)
          BroadcastCap,  \* capacity of hub.broadcast (256)
          SendCap,       \* capacity of client.send (512)
          MaxTicks       \* bound: the ticks the simulator makes

ASSUME PriceHubAssumption ==
  /\ TicksCap \in Nat \ {0} /\ BroadcastCap \in Nat \ {0} /\ SendCap \in Nat \ {0}
  /\ MaxTicks \in Nat

VARIABLES simulator,     \* "running" or "stopped"
          sequenceID,    \* the number of the next tick
          priceTicks,    \* the three kinds of buffered channel, oldest first
          broadcast,
          send,
          closed,        \* the clients whose send channel was closed
          hub,           \* "running"; "stopping" once cancelled; "stopped"
          clients,       \* the map of registered clients
          reader,        \* each client: its handler goroutine, then its readPump
          writer,        \* each client: its writePump
          drain,         \* each writer: the loop's n - i
          received,      \* each writer: what it took from its channel (history)
          aired          \* what the hub took from broadcast (history)

simulatorVars == <<simulator, sequenceID>>
channelVars == <<priceTicks, broadcast, send, closed>>
pumpVars == <<reader, writer, drain, received>>
vars == <<simulatorVars, channelVars, hub, clients, pumpVars, aired>>

\* "registering" is blocked on hub.register, "leaving" on hub.unregister.
Readers == {"new", "registering", "registered", "reading", "leaving", "gone"}
Writers == {"off", "waiting", "taken", "draining", "done"}

Tick == 1..MaxTicks

Init ==
  /\ simulator = "running" /\ sequenceID = 1
  /\ priceTicks = <<>> /\ broadcast = <<>>
  /\ send = [c \in Clients |-> <<>>]
  /\ closed = {}
  /\ hub = "running"
  /\ clients = {}
  /\ reader = [c \in Clients |-> "new"]
  /\ writer = [c \in Clients |-> "off"]
  /\ drain = [c \in Clients |-> 0]
  /\ received = [c \in Clients |-> <<>>]
  /\ aired = <<>>

ReaderGoes(c, pc) == reader' = [reader EXCEPT ![c] = pc]
WriterGoes(c, pc) == writer' = [writer EXCEPT ![c] = pc]

-----------------------------------------------------------------------------
(* The simulator, and the shutdown of the process: simulator, then hub.     *)

\* PublishPriceTick never blocks: a tick that finds the channel full is dropped.
SimulatorTick ==
  /\ simulator = "running" /\ sequenceID <= MaxTicks
  /\ sequenceID' = sequenceID + 1
  /\ priceTicks' = IF Len(priceTicks) < TicksCap
                   THEN Append(priceTicks, sequenceID) ELSE priceTicks
  /\ UNCHANGED <<simulator, broadcast, send, closed, hub, clients, pumpVars, aired>>

SimulatorStop ==
  /\ simulator = "running"
  /\ simulator' = "stopped"
  /\ UNCHANGED <<sequenceID, channelVars, hub, clients, pumpVars, aired>>

HubStop ==
  /\ simulator = "stopped" /\ hub = "running"
  /\ hub' = "stopping"
  /\ UNCHANGED <<simulatorVars, channelVars, clients, pumpVars, aired>>

-----------------------------------------------------------------------------
(* Hub.Run: each case of its select.  A cancelled hub may still take other  *)
(* cases before it takes the one of its context.                            *)

HubReturn ==
  /\ hub = "stopping"
  /\ hub' = "stopped"
  /\ UNCHANGED <<simulatorVars, channelVars, clients, pumpVars, aired>>

HubRegister(c) ==
  /\ hub # "stopped"
  /\ reader[c] = "registering"
  /\ clients' = clients \cup {c}
  /\ ReaderGoes(c, "registered")
  /\ UNCHANGED <<simulatorVars, channelVars, hub, writer, drain, received, aired>>

\* The map tells whether the channel is still open: it is closed once.
HubUnregister(c) ==
  /\ hub # "stopped"
  /\ reader[c] = "leaving"
  /\ closed' = closed \cup ({c} \cap clients)
  /\ clients' = clients \ {c}
  /\ ReaderGoes(c, "gone")
  /\ UNCHANGED <<simulatorVars, priceTicks, broadcast, send, hub, writer, drain,
                 received, aired>>

Full == {c \in clients : Len(send[c]) >= SendCap}

\* Mutant: a client whose channel is full misses the message and stays.
BroadcastSkips ==
  /\ hub # "stopped"
  /\ broadcast # <<>>
  /\ broadcast' = Tail(broadcast)
  /\ aired' = Append(aired, Head(broadcast))
  /\ send' = [c \in Clients |-> IF c \in clients \ Full
                                THEN Append(send[c], Head(broadcast)) ELSE send[c]]
  /\ UNCHANGED <<simulatorVars, priceTicks, closed, hub, clients, pumpVars>>

\* Mutant: the message is sent whether or not there is room.
BroadcastUnbounded ==
  /\ hub # "stopped"
  /\ broadcast # <<>>
  /\ broadcast' = Tail(broadcast)
  /\ aired' = Append(aired, Head(broadcast))
  /\ send' = [c \in Clients |-> IF c \in clients
                                THEN Append(send[c], Head(broadcast)) ELSE send[c]]
  /\ UNCHANGED <<simulatorVars, priceTicks, closed, hub, clients, pumpVars>>

\* Mutant: a full channel is closed, and its client stays in the map.
BroadcastKeeps ==
  /\ hub # "stopped"
  /\ broadcast # <<>>
  /\ broadcast' = Tail(broadcast)
  /\ aired' = Append(aired, Head(broadcast))
  /\ send' = [c \in Clients |-> IF c \in clients \ Full
                                THEN Append(send[c], Head(broadcast)) ELSE send[c]]
  /\ closed' = closed \cup Full
  /\ UNCHANGED <<simulatorVars, priceTicks, hub, clients, pumpVars>>

\* Each client is sent to once, without blocking; one whose channel is full is
\* dropped.  The other goroutines touch one channel each, so the loop is one step.
HubBroadcast ==
  /\ hub # "stopped"
  /\ broadcast # <<>>
  /\ broadcast' = Tail(broadcast)
  /\ aired' = Append(aired, Head(broadcast))
  /\ send' = [c \in Clients |-> IF c \in clients \ Full
                                THEN Append(send[c], Head(broadcast)) ELSE send[c]]
  /\ clients' = clients \ Full
  /\ closed' = closed \cup Full
  /\ UNCHANGED <<simulatorVars, priceTicks, hub, pumpVars>>

\* The hub sends to a channel that it alone reads, so it must not block: when
\* broadcast is full the tick is dropped.
HubTick ==
  /\ hub # "stopped"
  /\ priceTicks # <<>>
  /\ priceTicks' = Tail(priceTicks)
  /\ broadcast' = IF Len(broadcast) < BroadcastCap
                  THEN Append(broadcast, Head(priceTicks)) ELSE broadcast
  /\ UNCHANGED <<simulatorVars, send, closed, hub, clients, pumpVars, aired>>

-----------------------------------------------------------------------------
(* HandleWebSocket and the two pumps of a client.                           *)

Connect(c) ==
  /\ reader[c] = "new"
  /\ ReaderGoes(c, "registering")
  /\ UNCHANGED <<simulatorVars, channelVars, hub, clients, writer, drain, received, aired>>

\* Mutant: go client.readPump() only.
StartReader(c) ==
  /\ reader[c] = "registered"
  /\ ReaderGoes(c, "reading")
  /\ UNCHANGED <<simulatorVars, channelVars, hub, clients, writer, drain, received, aired>>

StartPumps(c) ==
  /\ reader[c] = "registered"
  /\ ReaderGoes(c, "reading")
  /\ WriterGoes(c, "waiting")
  /\ UNCHANGED <<simulatorVars, channelVars, hub, clients, drain, received, aired>>

\* Mutant: the reader returns without unregistering its client.
ReaderReturns(c) ==
  /\ reader[c] = "reading"
  /\ ReaderGoes(c, "gone")
  /\ UNCHANGED <<simulatorVars, channelVars, hub, clients, writer, drain, received, aired>>

\* A read error, a read timeout, or a connection that the writer has closed.
ReaderFails(c) ==
  /\ reader[c] = "reading"
  /\ ReaderGoes(c, "leaving")
  /\ UNCHANGED <<simulatorVars, channelVars, hub, clients, writer, drain, received, aired>>

Take(c) ==
  /\ send[c] # <<>>
  /\ received' = [received EXCEPT ![c] = Append(@, Head(send[c]))]
  /\ send' = [send EXCEPT ![c] = Tail(@)]

WriterTake(c) ==
  /\ writer[c] = "waiting"
  /\ Take(c)
  /\ WriterGoes(c, "taken")
  /\ UNCHANGED <<simulatorVars, priceTicks, broadcast, closed, hub, clients, reader,
                 drain, aired>>

\* Mutant: the message already taken is counted too.
WriterCountsTaken(c) ==
  /\ writer[c] = "taken"
  /\ drain' = [drain EXCEPT ![c] = Len(send[c]) + 1]
  /\ WriterGoes(c, "draining")
  /\ UNCHANGED <<simulatorVars, channelVars, hub, clients, reader, received, aired>>

\* n := len(c.send); the loop then receives n times without looking again.
WriterCount(c) ==
  /\ writer[c] = "taken"
  /\ drain' = [drain EXCEPT ![c] = Len(send[c])]
  /\ WriterGoes(c, "draining")
  /\ UNCHANGED <<simulatorVars, channelVars, hub, clients, reader, received, aired>>

WriterDrain(c) ==
  /\ writer[c] = "draining" /\ drain[c] > 0
  /\ Take(c)
  /\ drain' = [drain EXCEPT ![c] = @ - 1]
  /\ UNCHANGED <<simulatorVars, priceTicks, broadcast, closed, hub, clients, reader,
                 writer, aired>>

WriterFlush(c) ==
  /\ writer[c] = "draining" /\ drain[c] = 0
  /\ WriterGoes(c, "waiting")
  /\ UNCHANGED <<simulatorVars, channelVars, hub, clients, reader, drain, received, aired>>

\* The channel is closed and empty: a close frame, and the connection is closed.
WriterCloses(c) ==
  /\ writer[c] = "waiting"
  /\ send[c] = <<>> /\ c \in closed
  /\ WriterGoes(c, "done")
  /\ UNCHANGED <<simulatorVars, channelVars, hub, clients, reader, drain, received, aired>>

\* A write, a ping or a deadline fails; the connection is closed.
WriterFails(c) ==
  /\ writer[c] \in {"waiting", "taken", "draining"}
  /\ WriterGoes(c, "done")
  /\ UNCHANGED <<simulatorVars, channelVars, hub, clients, reader, drain, received, aired>>

-----------------------------------------------------------------------------

WriterStep(c) ==
  WriterTake(c) \/ WriterCount(c) \/ WriterDrain(c) \/ WriterFlush(c) \/ WriterCloses(c)

Next ==
  \/ SimulatorTick \/ SimulatorStop \/ HubStop
  \/ HubReturn \/ HubBroadcast \/ HubTick
  \/ \E c \in Clients :
       \/ HubRegister(c) \/ HubUnregister(c)
       \/ Connect(c) \/ StartPumps(c) \/ ReaderFails(c)
       \/ WriterStep(c) \/ WriterFails(c)

Spec == Init /\ [][Next]_vars

\* Go's select takes each ready case sooner or later, goroutines run, and a read
\* from a connection that was closed fails.  No tick, connection or error is promised.
Fairness ==
  /\ WF_vars(HubBroadcast) /\ WF_vars(HubTick)
  /\ \A c \in Clients :
       /\ WF_vars(HubRegister(c)) /\ WF_vars(HubUnregister(c))
       /\ WF_vars(StartPumps(c)) /\ WF_vars(WriterStep(c))
       /\ WF_vars(ReaderFails(c) /\ writer[c] = "done")

FairSpec == Spec /\ Fairness

-----------------------------------------------------------------------------

\* TypeOK: no channel ever holds more than it can, as every send to it is a select
\* with a default (hub.go:117-123, 130-134, 144-148).
TypeOK ==
  /\ simulator \in {"running", "stopped"}
  /\ sequenceID \in Nat
  /\ priceTicks \in Seq(Nat) /\ Len(priceTicks) <= TicksCap
  /\ broadcast \in Seq(Nat) /\ Len(broadcast) <= BroadcastCap
  /\ send \in [Clients -> Seq(Nat)]
  /\ \A c \in Clients : Len(send[c]) <= SendCap
  /\ closed \in SUBSET Clients
  /\ hub \in {"running", "stopping", "stopped"}
  /\ clients \in SUBSET Clients
  /\ reader \in [Clients -> Readers]
  /\ writer \in [Clients -> Writers]
  /\ drain \in [Clients -> Nat]
  /\ received \in [Clients -> Seq(Nat)]
  /\ aired \in Seq(Nat)

\* ChannelOpen: the hub never sends on, or closes, a channel that was closed (Go
\* panics): a client in the map has an open channel, and a channel that was opened
\* for a client no longer in the map was closed (hub.go:101-125).
ChannelOpen ==
  \A c \in Clients :
    /\ c \in clients => c \notin closed
    /\ reader[c] \in {"registered", "reading", "leaving"} => c \in clients \cup closed

\* DrainReady: the writer's inner loop never blocks on an empty channel: the messages
\* it counted are still there, as nobody else receives them (hub.go:256-264).
DrainReady ==
  \A c \in Clients : writer[c] = "draining" => drain[c] <= Len(send[c])

\* NoGaps: what a client took and what waits for it is one segment of what the hub
\* broadcast, in order and without a gap, and it reaches the present for as long as
\* the client is registered: a slow client is cut off, never thinned out.
NoGaps ==
  \A c \in Clients :
    \E from, to \in 0..Len(aired) :
      /\ received[c] \o send[c] = SubSeq(aired, from + 1, to)
      /\ c \in clients => to = Len(aired)

\* DeadClientLeaves: a client whose writer has ended leaves the map, unless the hub
\* stops first: no connection that is gone is broadcast to for ever (hub.go:223-231,
\* 282-288).
DeadClientLeaves ==
  \A c \in Clients : writer[c] = "done" ~> c \notin clients \/ hub = "stopped"

\* Delivered: a message queued for a client is taken by its writer, unless the writer
\* ends first (hub.go:233-268).
Delivered ==
  \A c \in Clients : send[c] # <<>> ~> send[c] = <<>> \/ writer[c] = "done"
=============================================================================
