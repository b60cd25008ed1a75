--------------------------- MODULE PriceHub_proofs ---------------------------
(***************************************************************************)
(* The hub and its clients, for any number of clients and ticks and any    *)
(* capacities of the channels.                                             *)
(***************************************************************************)
EXTENDS PriceHub, SequenceTheorems, TLAPS

-----------------------------------------------------------------------------
(* Channels: sequences with a receiver at the head and a sender at the end. *)

\* A send adds one message.
LEMMA Sent ==
  ASSUME NEW s \in Seq(Nat), NEW x \in Nat
  PROVE  Append(s, x) \in Seq(Nat) /\ Len(Append(s, x)) = Len(s) + 1
BY AppendProperties

\* A receive takes one message off.
LEMMA Received ==
  ASSUME NEW s \in Seq(Nat), s # <<>>
  PROVE  /\ Head(s) \in Nat /\ Tail(s) \in Seq(Nat)
         /\ Len(s) \in Nat \ {0} /\ Len(Tail(s)) = Len(s) - 1
BY HeadTailProperties, EmptySeq

\* What was taken and what still waits stay one sequence when the head is taken.
LEMMA TakenStays ==
  ASSUME NEW r \in Seq(Nat), NEW s \in Seq(Nat), s # <<>>
  PROVE  Append(r, Head(s)) \o Tail(s) = r \o s
<1> DEFINE h == Head(s)  t == Tail(s)
<1>1. h \in Nat /\ t \in Seq(Nat) /\ Len(s) = Len(t) + 1 /\ Len(t) \in Nat
  BY Received, LenProperties
<1>2. \A i \in 1..Len(t) : t[i] = s[i + 1]
  BY HeadTailProperties
<1>3. h = s[1]
  OBVIOUS
<1> HIDE DEF h, t
<1> DEFINE a == Append(r, h)
<1>4. /\ a \in Seq(Nat) /\ Len(a) = Len(r) + 1 /\ Len(r) \in Nat
      /\ \A i \in 1..Len(r) : a[i] = r[i]
      /\ a[Len(r) + 1] = h
  BY <1>1, AppendProperties, LenProperties
<1> HIDE DEF a
<1> DEFINE u == a \o t  v == r \o s
<1>5. /\ u \in Seq(Nat) /\ Len(u) = Len(a) + Len(t)
      /\ \A i \in 1..(Len(a) + Len(t)) : u[i] = IF i <= Len(a) THEN a[i] ELSE t[i - Len(a)]
  BY <1>1, <1>4, ConcatProperties
<1>6. /\ v \in Seq(Nat) /\ Len(v) = Len(r) + Len(s)
      /\ \A i \in 1..(Len(r) + Len(s)) : v[i] = IF i <= Len(r) THEN r[i] ELSE s[i - Len(r)]
  BY ConcatProperties
<1> HIDE DEF u, v
<1>7. Len(u) = Len(v) /\ Len(u) = Len(a) + Len(t) /\ Len(u) = Len(r) + Len(s)
  BY <1>1, <1>4, <1>5, <1>6
<1>8. ASSUME NEW i \in 1..Len(u) PROVE u[i] = v[i]
  <2>1. CASE i <= Len(r)
    <3>1. i \in 1..Len(r) /\ i <= Len(a)
      BY <1>7, <1>4, <2>1
    <3>2. u[i] = a[i] /\ v[i] = r[i]
      BY <1>7, <1>5, <1>6, <2>1, <3>1
    <3>3. QED
      BY <1>4, <3>1, <3>2
  <2>2. CASE i = Len(r) + 1
    BY <1>1, <1>3, <1>4, <1>5, <1>6, <2>2
  <2>3. CASE i > Len(r) + 1
    <3>1. i - Len(a) \in 1..Len(t) /\ i - Len(r) = (i - Len(a)) + 1
      BY <1>1, <1>4, <1>5, <2>3
    <3>2. u[i] = t[i - Len(a)] /\ v[i] = s[i - Len(r)]
      BY <1>1, <1>4, <1>5, <1>6, <2>3
    <3>3. QED
      BY <1>2, <3>1, <3>2
  <2>4. QED
    BY <1>1, <1>4, <1>5, <2>1, <2>2, <2>3
<1>9. u = v
  BY <1>5, <1>6, <1>7, <1>8, SeqEqual
<1>10. QED
  BY <1>9 DEF u, v, a, h, t

\* A segment of what was broadcast is one of what is broadcast later.
LEMMA SegmentStays ==
  ASSUME NEW s \in Seq(Nat), NEW x \in Nat, NEW from \in 0..Len(s), NEW to \in 0..Len(s)
  PROVE  SubSeq(Append(s, x), from + 1, to) = SubSeq(s, from + 1, to)
<1> DEFINE m == from + 1  u == SubSeq(Append(s, x), m, to)  v == SubSeq(s, m, to)
<1>1. /\ Append(s, x) \in Seq(Nat) /\ Len(Append(s, x)) = Len(s) + 1 /\ Len(s) \in Nat
      /\ \A i \in 1..Len(s) : Append(s, x)[i] = s[i]
  BY AppendProperties, LenProperties
<1>2. m \in Int /\ to \in Int /\ \A i \in m..to : i \in 1..Len(s) /\ i \in 1..(Len(s) + 1)
  BY <1>1
<1> HIDE DEF m
<1>3. \A i \in m..to : s[i] \in Nat /\ Append(s, x)[i] \in Nat
  BY <1>1, <1>2, ElementOfSeq
<1>4. /\ u \in Seq(Nat) /\ Len(u) = IF m <= to THEN to - m + 1 ELSE 0
      /\ \A i \in 1..(to - m + 1) : u[i] = Append(s, x)[m + i - 1]
  BY <1>2, <1>3, SubSeqProperties
<1>5. /\ v \in Seq(Nat) /\ Len(v) = IF m <= to THEN to - m + 1 ELSE 0
      /\ \A i \in 1..(to - m + 1) : v[i] = s[m + i - 1]
  BY <1>2, <1>3, SubSeqProperties
<1> HIDE DEF u, v
<1>6. ASSUME NEW i \in 1..Len(u) PROVE u[i] = v[i]
  <2>1. i \in 1..(to - m + 1) /\ m + i - 1 \in m..to
    BY <1>2, <1>4
  <2>2. QED
    BY <1>1, <1>2, <1>4, <1>5, <2>1
<1>7. u = v
  BY <1>4, <1>5, <1>6, SeqEqual
<1>8. QED
  BY <1>7 DEF m, u, v

\* A segment that reaches the end goes on with what is broadcast next.
LEMMA SegmentGrows ==
  ASSUME NEW s \in Seq(Nat), NEW x \in Nat, NEW from \in 0..Len(s)
  PROVE  Append(SubSeq(s, from + 1, Len(s)), x)
           = SubSeq(Append(s, x), from + 1, Len(s) + 1)
<1> DEFINE n == Len(s)  a == Append(s, x)  m == from + 1
<1>1. /\ a \in Seq(Nat) /\ Len(a) = n + 1 /\ n \in Nat /\ a[n + 1] = x
  BY AppendProperties, LenProperties
<1>2. m \in 1..Len(a) /\ n + 1 \in m..Len(a)
  BY <1>1
<1>3. SubSeq(a, m, n + 1) = SubSeq(a, m, (n + 1) - 1) \o <<a[n + 1]>>
  BY <1>1, <1>2, SubSeqRecursiveSecond
<1>4. (n + 1) - 1 = n
  BY <1>1
<1>5. SubSeq(a, m, n) = SubSeq(s, m, n)
  BY <1>1, SegmentStays
<1>6. SubSeq(s, m, n) \in Seq(Nat)
  <2>1. \A i \in m..n : s[i] \in Nat
    BY <1>1, ElementOfSeq
  <2>2. QED
    BY <1>1, <2>1, SubSeqProperties
<1>7. Append(SubSeq(s, m, n), x) = SubSeq(s, m, n) \o <<x>>
  BY <1>6, AppendIsConcat
<1>8. QED
  BY <1>1, <1>3, <1>4, <1>5, <1>7

-----------------------------------------------------------------------------
(* Type correctness: no channel overflows.                                  *)

\* A receive from a client's channel leaves the channels and what was taken well typed.
LEMMA TakeType ==
  ASSUME TypeOK, NEW c \in Clients, Take(c)
  PROVE  /\ send' \in [Clients -> Seq(Nat)] /\ received' \in [Clients -> Seq(Nat)]
         /\ send[c] # <<>>
         /\ send'[c] = Tail(send[c]) /\ Len(send'[c]) = Len(send[c]) - 1
         /\ received'[c] = Append(received[c], Head(send[c]))
         /\ \A d \in Clients : d # c => send'[d] = send[d] /\ received'[d] = received[d]
         /\ \A d \in Clients : Len(send'[d]) <= SendCap
<1>1. /\ send \in [Clients -> Seq(Nat)] /\ received \in [Clients -> Seq(Nat)]
      /\ \A d \in Clients : Len(send[d]) <= SendCap
  BY DEF TypeOK
<1>2. /\ send[c] # <<>>
      /\ received' = [received EXCEPT ![c] = Append(received[c], Head(send[c]))]
      /\ send' = [send EXCEPT ![c] = Tail(send[c])]
  BY DEF Take
<1>3. /\ Head(send[c]) \in Nat /\ Tail(send[c]) \in Seq(Nat)
      /\ Len(send[c]) \in Nat \ {0} /\ Len(Tail(send[c])) = Len(send[c]) - 1
  BY <1>1, <1>2, Received
<1>4. Append(received[c], Head(send[c])) \in Seq(Nat)
  BY <1>1, <1>3, Sent
<1>5. /\ send'[c] = Tail(send[c]) /\ received'[c] = Append(received[c], Head(send[c]))
      /\ \A d \in Clients : d # c => send'[d] = send[d] /\ received'[d] = received[d]
  BY <1>1, <1>2
<1>6. SendCap \in Nat
  BY PriceHubAssumption
<1>7. \A d \in Clients : Len(send'[d]) <= SendCap
  <2>1. Len(send'[c]) <= SendCap
    BY <1>1, <1>3, <1>5, <1>6
  <2>2. QED
    BY <1>1, <1>5, <2>1
<1>8. QED
  BY <1>1, <1>2, <1>3, <1>4, <1>5, <1>7

\* A broadcast sends to every client in the map whose channel has room.
LEMMA BroadcastType ==
  ASSUME TypeOK, HubBroadcast
  PROVE  /\ TypeOK'
         /\ Head(broadcast) \in Nat /\ aired' = Append(aired, Head(broadcast))
         /\ \A c \in Clients :
              send'[c] = IF c \in clients' THEN Append(send[c], Head(broadcast)) ELSE send[c]
<1>1. /\ broadcast \in Seq(Nat) /\ broadcast # <<>> /\ aired \in Seq(Nat)
      /\ clients \in SUBSET Clients /\ closed \in SUBSET Clients
      /\ send \in [Clients -> Seq(Nat)]
      /\ \A c \in Clients : Len(send[c]) <= SendCap
  BY DEF HubBroadcast, TypeOK
<1>2. /\ Head(broadcast) \in Nat /\ Tail(broadcast) \in Seq(Nat)
      /\ Len(broadcast) \in Nat \ {0} /\ Len(Tail(broadcast)) = Len(broadcast) - 1
  BY <1>1, Received
<1>3. aired' = Append(aired, Head(broadcast)) /\ aired' \in Seq(Nat)
  BY <1>1, <1>2, Sent DEF HubBroadcast
<1>4. Full \in SUBSET Clients /\ clients' = clients \ Full /\ closed' = closed \cup Full
  BY <1>1 DEF HubBroadcast, Full
<1>5. \A c \in Clients :
        send'[c] = IF c \in clients' THEN Append(send[c], Head(broadcast)) ELSE send[c]
  BY <1>4 DEF HubBroadcast
<1>6. \A c \in Clients : send'[c] \in Seq(Nat) /\ Len(send'[c]) <= SendCap
  <2>1. ASSUME NEW c \in Clients, c \in clients'
        PROVE  Len(send[c]) < SendCap /\ Len(send[c]) \in Nat /\ SendCap \in Nat
    BY <1>1, <1>4, <2>1, LenProperties, PriceHubAssumption DEF Full
  <2>2. ASSUME NEW c \in Clients, c \in clients'
        PROVE  send'[c] \in Seq(Nat) /\ Len(send'[c]) <= SendCap
    <3>1. /\ Append(send[c], Head(broadcast)) \in Seq(Nat)
          /\ Len(Append(send[c], Head(broadcast))) = Len(send[c]) + 1
      BY <1>1, <1>2, Sent
    <3>2. send'[c] = Append(send[c], Head(broadcast))
      BY <1>5, <2>2
    <3>3. Len(send'[c]) = Len(send[c]) + 1
      BY <3>1, <3>2
    <3>4. Len(send[c]) + 1 <= SendCap
      BY <2>1, <2>2
    <3>5. QED
      BY <3>1, <3>2, <3>3, <3>4
  <2>3. QED
    BY <1>1, <1>5, <2>2
<1>7. send' \in [Clients -> Seq(Nat)]
  BY <1>6 DEF HubBroadcast
<1>8. broadcast' = Tail(broadcast) /\ Len(broadcast') <= BroadcastCap
  BY <1>1, <1>2, PriceHubAssumption DEF HubBroadcast, TypeOK
<1>9. /\ UNCHANGED <<simulator, sequenceID, priceTicks, hub, reader, writer, drain, received>>
  BY DEF HubBroadcast, simulatorVars, pumpVars
<1>10. TypeOK'
  BY <1>1, <1>2, <1>3, <1>4, <1>6, <1>7, <1>8, <1>9 DEF TypeOK
<1>11. QED
  BY <1>2, <1>3, <1>5, <1>10

\* The simulator and the tick case of the hub put a tick where there is room.
LEMMA TickTypes ==
  ASSUME TypeOK, SimulatorTick \/ HubTick
  PROVE  TypeOK'
<1>1. TicksCap \in Nat /\ BroadcastCap \in Nat
  BY PriceHubAssumption
<1>2. CASE SimulatorTick
  <2>1. sequenceID' \in Nat /\ priceTicks \in Seq(Nat) /\ sequenceID \in Nat
        /\ Len(priceTicks) <= TicksCap /\ Len(priceTicks) \in Nat
    BY <1>2, LenProperties DEF SimulatorTick, TypeOK
  <2>2. /\ Append(priceTicks, sequenceID) \in Seq(Nat)
        /\ Len(Append(priceTicks, sequenceID)) = Len(priceTicks) + 1
    BY <2>1, Sent
  <2>3. priceTicks' \in Seq(Nat) /\ Len(priceTicks') <= TicksCap
    BY <1>1, <1>2, <2>1, <2>2 DEF SimulatorTick
  <2>4. QED
    BY <1>2, <2>1, <2>3 DEF SimulatorTick, TypeOK, pumpVars
<1>3. CASE HubTick
  <2>1. /\ priceTicks \in Seq(Nat) /\ priceTicks # <<>> /\ Len(priceTicks) <= TicksCap
        /\ broadcast \in Seq(Nat) /\ Len(broadcast) <= BroadcastCap /\ Len(broadcast) \in Nat
    BY <1>3, LenProperties DEF HubTick, TypeOK
  <2>2. /\ Head(priceTicks) \in Nat /\ Tail(priceTicks) \in Seq(Nat)
        /\ Len(priceTicks) \in Nat \ {0} /\ Len(Tail(priceTicks)) = Len(priceTicks) - 1
    BY <2>1, Received
  <2>3. /\ Append(broadcast, Head(priceTicks)) \in Seq(Nat)
        /\ Len(Append(broadcast, Head(priceTicks))) = Len(broadcast) + 1
    BY <2>1, <2>2, Sent
  <2>4. broadcast' \in Seq(Nat) /\ Len(broadcast') <= BroadcastCap
    BY <1>1, <1>3, <2>1, <2>3 DEF HubTick
  <2>5. priceTicks' \in Seq(Nat) /\ Len(priceTicks') <= TicksCap
    BY <1>1, <1>3, <2>1, <2>2 DEF HubTick
  <2>6. QED
    BY <1>3, <2>4, <2>5 DEF HubTick, TypeOK, simulatorVars, pumpVars
<1>4. QED
  BY <1>2, <1>3

\* The steps of one client's goroutines, and of the hub for one client.
LEMMA ClientTypes ==
  ASSUME TypeOK, NEW c \in Clients,
         \/ HubRegister(c) \/ HubUnregister(c)
         \/ Connect(c) \/ StartPumps(c) \/ ReaderFails(c)
         \/ WriterStep(c) \/ WriterFails(c)
  PROVE  TypeOK'
<1>1. CASE HubRegister(c) \/ Connect(c) \/ ReaderFails(c)
  BY <1>1 DEF HubRegister, Connect, ReaderFails, ReaderGoes, TypeOK, Readers,
              simulatorVars, channelVars
<1>2. CASE HubUnregister(c)
  BY <1>2 DEF HubUnregister, ReaderGoes, TypeOK, Readers, simulatorVars
<1>3. CASE StartPumps(c)
  BY <1>3 DEF StartPumps, ReaderGoes, WriterGoes, TypeOK, Readers, Writers,
              simulatorVars, channelVars
<1>4. CASE WriterFlush(c) \/ WriterCloses(c) \/ WriterFails(c)
  BY <1>4 DEF WriterFlush, WriterCloses, WriterFails, WriterGoes, TypeOK, Writers,
              simulatorVars, channelVars
<1>5. CASE WriterCount(c)
  <2>1. Len(send[c]) \in Nat
    BY LenProperties DEF TypeOK
  <2>2. QED
    BY <1>5, <2>1 DEF WriterCount, WriterGoes, TypeOK, Writers, simulatorVars, channelVars
<1>6. CASE WriterTake(c)
  <2>1. /\ send' \in [Clients -> Seq(Nat)] /\ received' \in [Clients -> Seq(Nat)]
        /\ \A d \in Clients : Len(send'[d]) <= SendCap
    BY <1>6, TakeType DEF WriterTake
  <2>2. writer' \in [Clients -> Writers]
    BY <1>6 DEF WriterTake, WriterGoes, TypeOK, Writers
  <2>3. QED
    BY <1>6, <2>1, <2>2 DEF WriterTake, TypeOK, simulatorVars
<1>7. CASE WriterDrain(c)
  <2>1. /\ send' \in [Clients -> Seq(Nat)] /\ received' \in [Clients -> Seq(Nat)]
        /\ \A d \in Clients : Len(send'[d]) <= SendCap
    BY <1>7, TakeType DEF WriterDrain
  <2>2. drain' \in [Clients -> Nat]
    BY <1>7 DEF WriterDrain, TypeOK
  <2>3. QED
    BY <1>7, <2>1, <2>2 DEF WriterDrain, TypeOK, simulatorVars
<1>8. QED
  BY <1>1, <1>2, <1>3, <1>4, <1>5, <1>6, <1>7 DEF WriterStep

\* Every step keeps the types.
LEMMA StepTypes ==
  ASSUME TypeOK, [Next]_vars
  PROVE  TypeOK'
<1>1. CASE SimulatorStop \/ HubStop \/ HubReturn
  BY <1>1 DEF SimulatorStop, HubStop, HubReturn, TypeOK, simulatorVars, channelVars, pumpVars
<1>2. CASE UNCHANGED vars
  BY <1>2 DEF vars, simulatorVars, channelVars, pumpVars, TypeOK
<1>3. QED
  BY <1>1, <1>2, BroadcastType, TickTypes, ClientTypes DEF Next

\* TypeOK holds initially.
LEMMA InitTypes == Init => TypeOK
<1>1. <<>> \in Seq(Nat) /\ Len(<<>>) = 0
  BY EmptySeq
<1>2. QED
  BY <1>1, PriceHubAssumption DEF Init, TypeOK, Readers, Writers

\* No channel of the hub ever holds more than its capacity.
THEOREM PriceHubTypes == Spec => []TypeOK
BY InitTypes, StepTypes, PTL DEF Spec

-----------------------------------------------------------------------------
(* Clients, from their registration on.                                     *)

\* The strengthening of ChannelOpen and NoGaps: a client that has not been registered
\* yet has an open and empty channel.
NotYetRegistered ==
  \A c \in Clients :
    reader[c] \in {"new", "registering"} =>
      c \notin clients \cup closed /\ send[c] = <<>> /\ received[c] = <<>>

Registered == ChannelOpen /\ NotYetRegistered

\* The steps of one client's goroutines, and of the hub for one client.
LEMMA ClientRegistered ==
  ASSUME TypeOK, Registered, NEW c \in Clients,
         \/ HubRegister(c) \/ HubUnregister(c)
         \/ Connect(c) \/ StartPumps(c) \/ ReaderFails(c)
         \/ WriterStep(c) \/ WriterFails(c)
  PROVE  Registered'
<1> USE DEF Registered, ChannelOpen, NotYetRegistered
<1>1. reader \in [Clients -> Readers] /\ clients \in SUBSET Clients /\ closed \in SUBSET Clients
  BY DEF TypeOK
<1>2. CASE HubRegister(c)
  BY <1>1, <1>2 DEF HubRegister, ReaderGoes, channelVars
<1>3. CASE HubUnregister(c)
  BY <1>1, <1>3 DEF HubUnregister, ReaderGoes
<1>4. CASE Connect(c) \/ ReaderFails(c) \/ StartPumps(c)
  BY <1>1, <1>4 DEF Connect, ReaderFails, StartPumps, ReaderGoes, channelVars
<1>5. CASE WriterTake(c) \/ WriterDrain(c)
  <2>1. /\ UNCHANGED <<clients, closed, reader>> /\ send[c] # <<>>
        /\ \A d \in Clients : d # c => send'[d] = send[d] /\ received'[d] = received[d]
    BY <1>5, TakeType DEF WriterTake, WriterDrain
  <2>2. QED
    BY <2>1
<1>6. CASE WriterCount(c) \/ WriterFlush(c) \/ WriterCloses(c) \/ WriterFails(c)
  BY <1>6 DEF WriterCount, WriterFlush, WriterCloses, WriterFails, channelVars
<1>7. QED
  BY <1>2, <1>3, <1>4, <1>5, <1>6 DEF WriterStep

\* Every step keeps both.
LEMMA StepRegistered ==
  ASSUME TypeOK, Registered, [Next]_vars
  PROVE  Registered'
<1>1. CASE HubBroadcast
  <2>1. /\ clients' \subseteq clients /\ clients' \cap closed' = {}
        /\ clients' \cup closed' = clients \cup closed
        /\ \A c \in Clients : c \notin clients => send'[c] = send[c]
    BY <1>1, BroadcastType DEF HubBroadcast, Full, TypeOK, Registered, ChannelOpen
  <2>2. UNCHANGED <<reader, received>>
    BY <1>1 DEF HubBroadcast, pumpVars
  <2>3. QED
    BY <2>1, <2>2 DEF Registered, ChannelOpen, NotYetRegistered
<1>2. CASE SimulatorTick \/ SimulatorStop \/ HubStop \/ HubReturn \/ HubTick \/ UNCHANGED vars
  BY <1>2 DEF SimulatorTick, SimulatorStop, HubStop, HubReturn, HubTick, vars, channelVars,
              pumpVars, Registered, ChannelOpen, NotYetRegistered
<1>3. QED
  BY <1>1, <1>2, ClientRegistered DEF Next

\* Both hold initially.
LEMMA InitRegistered == Init => Registered
BY DEF Init, Registered, ChannelOpen, NotYetRegistered

\* The hub never sends on a closed channel and closes none twice.
THEOREM PriceHubChannelOpen == Spec => []ChannelOpen
<1>1. TypeOK /\ Registered /\ [Next]_vars => Registered'
  BY StepRegistered
<1>2. Registered => ChannelOpen
  BY DEF Registered
<1>3. QED
  BY <1>1, <1>2, InitRegistered, PriceHubTypes, PTL DEF Spec

-----------------------------------------------------------------------------
(* Writers: what a writer counted is still there when it receives it.       *)

\* A client's channel only loses messages to its own writer.
LEMMA OnlyWriterReceives ==
  ASSUME TypeOK, [Next]_vars, NEW c \in Clients, ~WriterTake(c), ~WriterDrain(c)
  PROVE  Len(send'[c]) >= Len(send[c]) /\ received'[c] = received[c]
<1>1. Len(send[c]) \in Nat /\ send[c] \in Seq(Nat)
  BY LenProperties DEF TypeOK
<1>2. CASE HubBroadcast
  <2>1. /\ Head(broadcast) \in Nat
        /\ send'[c] = Append(send[c], Head(broadcast)) \/ send'[c] = send[c]
    BY <1>2, BroadcastType
  <2>2. Len(Append(send[c], Head(broadcast))) = Len(send[c]) + 1
    BY <1>1, <2>1, Sent
  <2>3. UNCHANGED received
    BY <1>2 DEF HubBroadcast, pumpVars
  <2>4. QED
    BY <1>1, <2>1, <2>2, <2>3
<1>3. ASSUME NEW d \in Clients, WriterTake(d) \/ WriterDrain(d)
      PROVE  Len(send'[c]) >= Len(send[c]) /\ received'[c] = received[c]
  <2>1. d # c
    BY <1>3
  <2>2. send'[c] = send[c] /\ received'[c] = received[c]
    BY <1>3, <2>1, TakeType DEF WriterTake, WriterDrain
  <2>3. QED
    BY <1>1, <2>2
<1>4. CASE UNCHANGED <<send, received>>
  BY <1>1, <1>4
<1>5. QED
  BY <1>2, <1>3, <1>4
     DEF Next, SimulatorTick, SimulatorStop, HubStop, HubReturn, HubTick, HubRegister,
         HubUnregister, Connect, StartPumps, ReaderFails, WriterStep, WriterCount,
         WriterFlush, WriterCloses, WriterFails, vars, channelVars, pumpVars

\* A writer's place and count change by its own steps alone.
LEMMA OnlyWriterDrains ==
  ASSUME TypeOK, [Next]_vars, NEW c \in Clients, writer'[c] = "draining",
         ~WriterCount(c), ~WriterDrain(c)
  PROVE  writer[c] = "draining" /\ drain'[c] = drain[c] /\ ~WriterTake(c)
<1>1. writer \in [Clients -> Writers] /\ drain \in [Clients -> Nat]
  BY DEF TypeOK
<1>2. ASSUME NEW d \in Clients,
             \/ StartPumps(d) \/ WriterTake(d) \/ WriterFlush(d) \/ WriterCloses(d)
             \/ WriterFails(d) \/ WriterCount(d) \/ WriterDrain(d)
      PROVE  writer[c] = "draining" /\ drain'[c] = drain[c]
  BY <1>1, <1>2 DEF StartPumps, WriterTake, WriterFlush, WriterCloses, WriterFails,
                    WriterCount, WriterDrain, WriterGoes
<1>3. CASE UNCHANGED <<writer, drain>>
  BY <1>1, <1>3 DEF WriterTake, WriterGoes
<1>4. ~WriterTake(c)
  BY <1>1 DEF WriterTake, WriterGoes
<1>5. CASE \/ SimulatorTick \/ SimulatorStop \/ HubStop \/ HubReturn \/ HubBroadcast
           \/ HubTick \/ UNCHANGED vars
  BY <1>3, <1>4, <1>5 DEF SimulatorTick, SimulatorStop, HubStop, HubReturn, HubBroadcast,
                          HubTick, vars, pumpVars
<1>6. ASSUME NEW d \in Clients,
             HubRegister(d) \/ HubUnregister(d) \/ Connect(d) \/ ReaderFails(d)
      PROVE  writer[c] = "draining" /\ drain'[c] = drain[c]
  BY <1>3, <1>6 DEF HubRegister, HubUnregister, Connect, ReaderFails
<1>7. ASSUME NEW d \in Clients, WriterStep(d)
      PROVE  writer[c] = "draining" /\ drain'[c] = drain[c]
  <2>1. CASE WriterCount(d) \/ WriterDrain(d)
    BY <1>2, <2>1
  <2>2. CASE WriterTake(d) \/ WriterFlush(d) \/ WriterCloses(d)
    BY <1>2, <2>2
  <2>3. QED
    BY <1>7, <2>1, <2>2 DEF WriterStep
<1>8. writer[c] = "draining" /\ drain'[c] = drain[c]
  <2>1. CASE UNCHANGED vars
    BY <1>5, <2>1
  <2>2. CASE Next
    BY <1>2, <1>5, <1>6, <1>7, <2>2 DEF Next
  <2>3. QED
    BY <2>1, <2>2
<1>9. QED
  BY <1>4, <1>8

\* Every step keeps DrainReady.
LEMMA StepDrainReady ==
  ASSUME TypeOK, DrainReady, [Next]_vars
  PROVE  DrainReady'
<1> SUFFICES ASSUME NEW c \in Clients, writer'[c] = "draining"
             PROVE  drain'[c] <= Len(send'[c])
  BY DEF DrainReady
<1>1. Len(send[c]) \in Nat /\ drain[c] \in Nat /\ drain \in [Clients -> Nat]
  BY LenProperties DEF TypeOK
<1>2. CASE WriterCount(c)
  BY <1>1, <1>2 DEF WriterCount, channelVars
<1>3. CASE WriterDrain(c)
  <2>1. Len(send'[c]) = Len(send[c]) - 1
    BY <1>3, TakeType DEF WriterDrain
  <2>2. drain'[c] = drain[c] - 1 /\ drain[c] <= Len(send[c])
    BY <1>1, <1>3 DEF WriterDrain, DrainReady
  <2>3. QED
    BY <1>1, <2>1, <2>2
<1>4. CASE ~WriterCount(c) /\ ~WriterDrain(c)
  <2>1. writer[c] = "draining" /\ drain'[c] = drain[c] /\ ~WriterTake(c)
    BY <1>4, OnlyWriterDrains
  <2>2. Len(send'[c]) >= Len(send[c]) /\ drain[c] <= Len(send[c])
    BY <1>4, <2>1, OnlyWriterReceives DEF DrainReady
  <2>3. TypeOK'
    BY StepTypes
  <2>4. Len(send'[c]) \in Nat
    BY <2>3, LenProperties DEF TypeOK
  <2>5. QED
    BY <1>1, <2>1, <2>2, <2>4
<1>5. QED
  BY <1>2, <1>3, <1>4

\* The loop over the messages that a writer counted never waits.
THEOREM PriceHubDrainReady == Spec => []DrainReady
<1>1. Init => DrainReady
  BY DEF Init, DrainReady
<1>2. TypeOK /\ DrainReady /\ [Next]_vars => DrainReady'
  BY StepDrainReady
<1>3. QED
  BY <1>1, <1>2, PriceHubTypes, PTL DEF Spec

-----------------------------------------------------------------------------
(* What a client sees of the broadcast.                                     *)

\* NoGaps for one client, whose segment of the broadcast is given.
Segment(c, from, to) ==
  /\ received[c] \o send[c] = SubSeq(aired, from + 1, to)
  /\ c \in clients => to = Len(aired)

\* A broadcast appends to the segment of a client that stays, and to no other.
LEMMA BroadcastSegment ==
  ASSUME TypeOK, HubBroadcast, NEW c \in Clients,
         NEW from \in 0..Len(aired), NEW to \in 0..Len(aired), Segment(c, from, to)
  PROVE  \E upto \in 0..Len(aired') :
           /\ from \in 0..Len(aired')
           /\ received'[c] \o send'[c] = SubSeq(aired', from + 1, upto)
           /\ c \in clients' => upto = Len(aired')
<1> DEFINE h == Head(broadcast)
<1>1. /\ aired \in Seq(Nat) /\ Len(aired) \in Nat
      /\ received[c] \in Seq(Nat) /\ send[c] \in Seq(Nat)
  BY LenProperties DEF TypeOK
<1>2. /\ h \in Nat /\ aired' = Append(aired, h)
      /\ send'[c] = IF c \in clients' THEN Append(send[c], h) ELSE send[c]
      /\ received'[c] = received[c] /\ clients' \subseteq clients
  BY BroadcastType DEF HubBroadcast, pumpVars
<1> HIDE DEF h
<1>3. Len(aired') = Len(aired) + 1
  BY <1>1, <1>2, Sent
<1>4. CASE c \in clients'
  <2>1. to = Len(aired)
    BY <1>2, <1>4 DEF Segment
  <2>2. received[c] \o Append(send[c], h) = Append(received[c] \o send[c], h)
    <3>1. ASSUME NEW r \in Seq(Nat), NEW s \in Seq(Nat)
          PROVE  r \o Append(s, h) = Append(r \o s, h)
      <4>1. Append(s, h) = s \o <<h>> /\ <<h>> \in Seq(Nat)
        BY <1>2, AppendIsConcat
      <4>2. r \o s \in Seq(Nat)
        BY ConcatProperties
      <4>3. Append(r \o s, h) = (r \o s) \o <<h>>
        BY <1>2, <4>2, AppendIsConcat
      <4>4. (r \o s) \o <<h>> = r \o (s \o <<h>>)
        BY <4>1, ConcatAssociative
      <4>5. QED
        BY <4>1, <4>3, <4>4
    <3>2. QED
      BY <1>1, <3>1
  <2>3. received[c] \o send[c] = SubSeq(aired, from + 1, Len(aired))
    BY <2>1 DEF Segment
  <2>4. Append(SubSeq(aired, from + 1, Len(aired)), h)
          = SubSeq(Append(aired, h), from + 1, Len(aired) + 1)
    BY <1>1, <1>2, SegmentGrows
  <2>5. received'[c] \o send'[c] = SubSeq(aired', from + 1, Len(aired'))
    BY <1>2, <1>3, <1>4, <2>2, <2>3, <2>4
  <2>6. Len(aired') \in 0..Len(aired') /\ from \in 0..Len(aired')
    BY <1>1, <1>3
  <2>7. QED
    BY <2>5, <2>6
<1>5. CASE c \notin clients'
  <2>1. received'[c] \o send'[c] = SubSeq(aired, from + 1, to)
    BY <1>2, <1>5 DEF Segment
  <2>2. SubSeq(Append(aired, h), from + 1, to) = SubSeq(aired, from + 1, to)
    BY <1>1, <1>2, SegmentStays
  <2>3. from \in 0..Len(aired') /\ to \in 0..Len(aired')
    BY <1>1, <1>3
  <2>4. QED
    BY <1>2, <1>5, <2>1, <2>2, <2>3
<1>6. QED
  BY <1>4, <1>5

\* Every step keeps NoGaps.
LEMMA StepNoGaps ==
  ASSUME TypeOK, Registered, NoGaps, [Next]_vars
  PROVE  NoGaps'
<1> SUFFICES ASSUME NEW c \in Clients
             PROVE  \E from, to \in 0..Len(aired') :
                      /\ received'[c] \o send'[c] = SubSeq(aired', from + 1, to)
                      /\ c \in clients' => to = Len(aired')
  BY DEF NoGaps
<1>1. PICK from, to \in 0..Len(aired) : Segment(c, from, to)
  BY DEF NoGaps, Segment
<1>2. /\ aired \in Seq(Nat) /\ Len(aired) \in Nat
      /\ received[c] \in Seq(Nat) /\ send[c] \in Seq(Nat)
  BY LenProperties DEF TypeOK
<1>3. CASE HubBroadcast
  BY <1>1, <1>3, BroadcastSegment
<1>4. CASE HubRegister(c)
  <2>1. /\ UNCHANGED <<aired, send, received>>
        /\ send[c] = <<>> /\ received[c] = <<>>
    BY <1>4 DEF HubRegister, channelVars, Registered, NotYetRegistered
  <2>2. SubSeq(aired, Len(aired) + 1, Len(aired)) = <<>>
    BY <1>2, SubSeqEmpty
  <2>3. received'[c] \o send'[c] = <<>>
    BY <1>2, <2>1, ConcatEmptySeq
  <2>4. Len(aired) \in 0..Len(aired')
    BY <1>2, <2>1
  <2>5. QED
    BY <2>1, <2>2, <2>3, <2>4
<1>5. CASE WriterTake(c) \/ WriterDrain(c)
  <2>1. /\ UNCHANGED <<aired, clients>> /\ send[c] # <<>>
        /\ received'[c] = Append(received[c], Head(send[c])) /\ send'[c] = Tail(send[c])
    BY <1>5, TakeType DEF WriterTake, WriterDrain
  <2>2. received'[c] \o send'[c] = received[c] \o send[c]
    BY <1>2, <2>1, TakenStays
  <2>3. QED
    BY <1>1, <2>1, <2>2 DEF Segment
<1>6. CASE ~HubBroadcast /\ ~HubRegister(c) /\ ~WriterTake(c) /\ ~WriterDrain(c)
  <2>1. send'[c] = send[c] /\ received'[c] = received[c] /\ aired' = aired
        /\ (c \in clients' => c \in clients)
    <3>1. ASSUME NEW d \in Clients, WriterTake(d) \/ WriterDrain(d)
          PROVE  send'[c] = send[c] /\ received'[c] = received[c] /\ aired' = aired
                 /\ (c \in clients' => c \in clients)
      BY <1>6, <3>1, TakeType DEF WriterTake, WriterDrain
    <3>2. ASSUME NEW d \in Clients, HubRegister(d) \/ HubUnregister(d)
          PROVE  send'[c] = send[c] /\ received'[c] = received[c] /\ aired' = aired
                 /\ (c \in clients' => c \in clients)
      BY <1>6, <3>2 DEF HubRegister, HubUnregister, channelVars
    <3>3. CASE UNCHANGED <<send, received, aired, clients>>
      BY <3>3
    <3>4. QED
      BY <1>6, <3>1, <3>2, <3>3
         DEF Next, SimulatorTick, SimulatorStop, HubStop, HubReturn, HubTick, Connect,
             StartPumps, ReaderFails, WriterStep, WriterCount, WriterFlush, WriterCloses,
             WriterFails, vars, channelVars, pumpVars
  <2>2. QED
    BY <1>1, <2>1 DEF Segment
<1>7. QED
  BY <1>3, <1>4, <1>5, <1>6

\* Whatever the clients' pace and whoever comes and goes: what a client is sent is one
\* segment of the broadcast, up to the present for as long as it is registered.
THEOREM PriceHubNoGaps == Spec => []NoGaps
<1>1. Init => NoGaps
  <2> SUFFICES ASSUME Init, NEW c \in Clients
               PROVE  \E from, to \in 0..Len(aired) :
                        /\ received[c] \o send[c] = SubSeq(aired, from + 1, to)
                        /\ c \in clients => to = Len(aired)
    BY DEF NoGaps
  <2>1. /\ aired = <<>> /\ received[c] = <<>> /\ send[c] = <<>>
        /\ <<>> \in Seq(Nat) /\ Len(<<>>) = 0
    BY EmptySeq DEF Init
  <2>2. <<>> \o <<>> = <<>>
    BY <2>1, ConcatEmptySeq
  <2>3. SubSeq(aired, 0 + 1, 0) = <<>>
    BY SubSeqEmpty
  <2>4. 0 \in 0..Len(aired) /\ 0 = Len(aired)
    BY <2>1
  <2>5. QED
    BY <2>1, <2>2, <2>3, <2>4
<1>2. TypeOK /\ Registered /\ [Next]_vars => Registered'
  BY StepRegistered
<1>3. TypeOK /\ Registered /\ NoGaps /\ [Next]_vars => NoGaps'
  BY StepNoGaps
<1>4. QED
  BY <1>1, <1>2, <1>3, InitRegistered, PriceHubTypes, PTL DEF Spec
=============================================================================
