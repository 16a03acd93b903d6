------------------------- MODULE RpcTransportProofs -------------------------
(***************************************************************************)
(* Proofs about the remote procedure call: the types, that a running       *)
(* request keeps its header, and that the transport implements at-most-once *)
(* calls (RemoteCall), for any number of clients, server processes, calls, *)
(* boots, retries and packets in flight.                                   *)
(***************************************************************************)
EXTENDS RpcTransport, TLAPS, NaturalsInduction, WellFoundedInduction

----------------------------------------------------------------------------
(* Packets under way.                                                      *)

PacketsIn(queue) == {queue[i] : i \in 1 .. Len(queue)}

(* A packet sent is the last one in the queue, or lost.                    *)
Sends(S, net, net2, c, p) ==
    /\ net2 \in [Clients -> Seq(S)]
    /\ \A d \in Clients \ {c} : net2[d] = net[d]
    /\ \/ net2[c] = net[c]
       \/ /\ Len(net[c]) < NetBound
          /\ net2[c] = Append(net[c], p)
          /\ Len(net2[c]) = Len(net[c]) + 1
          /\ net2[c][Len(net[c]) + 1] = p
          /\ \A i \in 1 .. Len(net[c]) : net2[c][i] = net[c][i]
    /\ PacketsIn(net2[c]) \subseteq PacketsIn(net[c]) \cup {p}

LEMMA EnqueueFacts ==
    ASSUME NEW S, NEW net \in [Clients -> Seq(S)], NEW c \in Clients, NEW p \in S
    PROVE  Sends(S, net, Enqueue(net, c, p), c, p)
<1> DEFINE net2 == Enqueue(net, c, p)
<1>0. net[c] \in Seq(S) /\ Len(net[c]) \in Nat
  OBVIOUS
<1>1. CASE Len(net[c]) < NetBound
  <2>1. net2 = [net EXCEPT ![c] = Append(net[c], p)]
    BY <1>1 DEF Enqueue
  <2>2. net2[c] = Append(net[c], p) /\ \A d \in Clients \ {c} : net2[d] = net[d]
    BY <2>1
  <2> DEFINE q == net[c]
  <2>3. Append(q, p) \in Seq(S)
    BY <1>0
  <2>4. net2 \in [Clients -> Seq(S)]
    BY <2>1, <2>3
  <2>5. /\ Len(Append(q, p)) = Len(q) + 1
        /\ Append(q, p)[Len(q) + 1] = p
        /\ \A i \in 1 .. Len(q) : Append(q, p)[i] = q[i]
    <3> HIDE DEF q
    <3> SUFFICES ASSUME q \in Seq(S) PROVE /\ Len(Append(q, p)) = Len(q) + 1
                                           /\ Append(q, p)[Len(q) + 1] = p
                                           /\ \A i \in 1 .. Len(q) : Append(q, p)[i] = q[i]
      BY <1>0 DEF q
    <3> QED OBVIOUS
  <2>6. PacketsIn(net2[c]) \subseteq PacketsIn(net[c]) \cup {p}
    <3> SUFFICES ASSUME NEW i \in 1 .. Len(q) + 1, net2[c][i] # p PROVE net2[c][i] \in PacketsIn(q)
      BY <2>2, <2>5 DEF PacketsIn
    <3>1. i \in 1 .. Len(q)
      BY <2>2, <2>5, <1>0
    <3> QED BY <2>2, <2>5, <3>1 DEF PacketsIn
  <2> HIDE DEF net2
  <2> QED BY <1>1, <2>2, <2>4, <2>5, <2>6 DEF Sends, net2
<1>2. CASE ~(Len(net[c]) < NetBound)
  BY <1>2 DEF Enqueue, Sends
<1> QED BY <1>1, <1>2

(* The first packet leaves the queue.                                      *)
Takes(S, net, net2, c) ==
    /\ net2 \in [Clients -> Seq(S)]
    /\ \A d \in Clients \ {c} : net2[d] = net[d]
    /\ Len(net[c]) > 0 /\ Head(net[c]) = net[c][1] /\ Head(net[c]) \in PacketsIn(net[c])
    /\ Head(net[c]) \in S
    /\ Len(net2[c]) = Len(net[c]) - 1
    /\ \A i \in 1 .. Len(net2[c]) : net2[c][i] = net[c][i + 1]
    /\ \A d \in Clients : PacketsIn(net2[d]) \subseteq PacketsIn(net[d])

LEMMA TailFacts ==
    ASSUME NEW S, NEW net \in [Clients -> Seq(S)], NEW c \in Clients, net[c] # <<>>
    PROVE  Takes(S, net, [net EXCEPT ![c] = Tail(@)], c)
<1> DEFINE net2 == [net EXCEPT ![c] = Tail(@)]
<1> DEFINE q == net[c]
<1>0. q \in Seq(S) /\ Len(q) \in Nat /\ q # <<>>
  OBVIOUS
<1>1. net2[c] = Tail(q) /\ \A d \in Clients \ {c} : net2[d] = net[d]
  OBVIOUS
<1>2. /\ Tail(q) \in Seq(S) /\ Len(q) > 0 /\ Len(Tail(q)) = Len(q) - 1
      /\ Head(q) = q[1] /\ Head(q) \in S
      /\ \A i \in 1 .. Len(q) - 1 : Tail(q)[i] = q[i + 1]
  <2> HIDE DEF q
  <2> QED BY <1>0
<1>3. net2 \in [Clients -> Seq(S)]
  BY <1>2
<1>4. PacketsIn(Tail(q)) \subseteq PacketsIn(q)
  <2> SUFFICES ASSUME NEW i \in 1 .. Len(q) - 1 PROVE Tail(q)[i] \in PacketsIn(q)
    BY <1>2 DEF PacketsIn
  <2> QED BY <1>0, <1>2 DEF PacketsIn
<1>5. q[1] \in PacketsIn(q)
  BY <1>0, <1>2 DEF PacketsIn
<1>6. \A d \in Clients : PacketsIn(net2[d]) \subseteq PacketsIn(net[d])
  BY <1>1, <1>4
<1> HIDE DEF net2
<1> QED BY <1>1, <1>2, <1>3, <1>5, <1>6 DEF Takes, net2

(* A set of numbers that is not empty has a least one.                     *)
LEMMA LeastNat ==
    ASSUME NEW T, T \subseteq Nat, T # {}
    PROVE  \E x \in T : \A y \in T : x <= y
<1>1. PICK x \in T : \A y \in T : ~(<<y, x>> \in OpToRel(<, Nat))
  BY NatLessThanWellFounded, WFMin, Zenon
<1>2. \A y \in T : ~(y < x)
  BY <1>1 DEF OpToRel
<1> QED BY <1>2

(* The process that the dispatcher picks for a packet of c.                *)
Usable(s) == "STUCK" \notin srv[s].bits
Picked(s, c) ==
    /\ s \in Slots /\ Usable(s)
    /\ \/ srv[s].client = c
       \/ /\ "FREE" \in srv[s].bits
          /\ \A t \in Slots : Usable(t) => srv[t].client # c

LEMMA AllocPicks ==
    ASSUME RpcTransportAssumption, NoneAssumption, NEW c, NEW hint
    PROVE  RpcServerAlloc(c, hint) = None \/ Picked(RpcServerAlloc(c, hint), c)
<1> DEFINE start == IF hint \in Slots THEN hint ELSE 0
           distance(s) == (s + NumServers - start) % NumServers
           nearest(S) == CHOOSE s \in S : \A t \in S : distance(s) <= distance(t)
           usable == {s \in Slots : "STUCK" \notin srv[s].bits}
           mine == {s \in usable : srv[s].client = c}
           free == {s \in usable : "FREE" \in srv[s].bits}
<1>1. RpcServerAlloc(c, hint) = IF mine # {} THEN nearest(mine)
                                ELSE IF free # {} THEN nearest(free) ELSE None
  BY Zenon DEF RpcServerAlloc
<1>2. \A s \in Slots : distance(s) \in Nat
  <2>1. start \in 0 .. NumServers - 1 /\ NumServers \in Nat \ {0}
    BY DEF Slots, RpcTransportAssumption
  <2> HIDE DEF start
  <2> QED BY <2>1 DEF Slots
<1> HIDE DEF distance
<1>3. ASSUME NEW S, S \subseteq Slots, S # {} PROVE nearest(S) \in S
  <2>1. {distance(s) : s \in S} # {} /\ {distance(s) : s \in S} \subseteq Nat
    BY <1>2, <1>3
  <2>2. PICK x \in {distance(s) : s \in S} : \A y \in {distance(s) : s \in S} : x <= y
    BY <2>1, LeastNat
  <2>3. \E s \in S : \A t \in S : distance(s) <= distance(t)
    BY <2>2
  <2> QED BY <2>3, Zenon
<1>4. mine \subseteq Slots /\ free \subseteq Slots
  OBVIOUS
<1>5. CASE mine # {}
  <2>1. nearest(mine) \in mine
    BY <1>3, <1>4, <1>5
  <2> QED BY <1>1, <1>5, <2>1 DEF Picked, Usable
<1>6. CASE mine = {} /\ free # {}
  <2>1. nearest(free) \in free
    BY <1>3, <1>4, <1>6
  <2> QED BY <1>1, <1>6, <2>1 DEF Picked, Usable
<1>7. CASE mine = {} /\ free = {}
  BY <1>1, <1>7
<1> QED BY <1>5, <1>6, <1>7, NoneAssumption

-----------------------------------------------------------------------------
(* The calls.                                                              *)

LEMMA CallFacts ==
    /\ \A k \in Calls : /\ k = <<k[1], k[2], k[3]>> /\ k[1] \in Clients
                        /\ k[2] \in 1 .. MaxBoots /\ k[3] \in 1 .. MaxID
    /\ \A c \in Clients, b \in 1 .. MaxBoots, n \in 1 .. MaxID : <<c, b, n>> \in Calls
  BY DEF Calls

LEMMA StableFacts ==
    ASSUME RpcTransportAssumption
    PROVE  /\ Stable \subseteq Clients /\ 1 \in 1 .. MaxBoots
           /\ StableCalls \subseteq Calls
           /\ \A k \in StableCalls : /\ k = <<k[1], 1, k[3]>> /\ k[1] \in Stable
                                     /\ k[2] = 1 /\ k[3] \in 1 .. MaxID
           /\ \A c \in Stable, n \in 1 .. MaxID : <<c, 1, n>> \in StableCalls
           /\ \A k \in Calls : k[1] \in Stable /\ k[2] = 1 => k \in StableCalls
           /\ \A k, l \in StableCalls : k[1] = l[1] /\ k[3] = l[3] => k = l
<1>1. Stable \subseteq Clients /\ 1 \in 1 .. MaxBoots
  BY DEF Stable, RpcTransportAssumption
<1>2. \A k \in StableCalls : /\ k = <<k[1], 1, k[3]>> /\ k[1] \in Stable
                             /\ k[2] = 1 /\ k[3] \in 1 .. MaxID
  BY DEF StableCalls
<1>3. \A c \in Stable, n \in 1 .. MaxID : <<c, 1, n>> \in StableCalls
  BY DEF StableCalls
<1>4. \A k \in Calls : k[1] \in Stable /\ k[2] = 1 => k \in StableCalls
  BY <1>3, CallFacts
<1>5. StableCalls \subseteq Calls
  BY <1>1, <1>2, CallFacts
<1>6. \A k, l \in StableCalls : k[1] = l[1] /\ k[3] = l[3] => k = l
  BY <1>2
<1> QED BY <1>1, <1>2, <1>3, <1>4, <1>5, <1>6

LEMMA ResultFacts ==
    ASSUME RpcTransportAssumption
    PROVE  /\ Calls \subseteq Results
           /\ \A k \in Calls : /\ [k EXCEPT ![3] = @ + MaxID] \in Results
                               /\ [k EXCEPT ![3] = @ + MaxID][3] > MaxID
<1>1. MaxID \in Nat \ {0}
  BY DEF RpcTransportAssumption
<1>2. ASSUME NEW k \in Calls PROVE k \in Results
  <2>1. k = <<k[1], k[2], k[3]>> /\ k[1] \in Clients /\ k[2] \in 1 .. MaxBoots /\ k[3] \in 1 .. MaxID
    BY CallFacts
  <2>2. k[3] \in 1 .. 2 * MaxID
    BY <1>1, <2>1
  <2> QED BY <2>1, <2>2 DEF Results
<1>3. ASSUME NEW k \in Calls
      PROVE  /\ [k EXCEPT ![3] = @ + MaxID] \in Results
             /\ [k EXCEPT ![3] = @ + MaxID][3] > MaxID
  <2>1. k = <<k[1], k[2], k[3]>> /\ k[1] \in Clients /\ k[2] \in 1 .. MaxBoots /\ k[3] \in 1 .. MaxID
    BY CallFacts
  <2>2. k[3] + MaxID \in 1 .. 2 * MaxID /\ k[3] + MaxID > MaxID
    BY <1>1, <2>1
  <2>3. [k EXCEPT ![3] = @ + MaxID] = <<k[1], k[2], k[3] + MaxID>>
    BY <2>1
  <2> QED BY <2>1, <2>2, <2>3 DEF Results
<1> QED BY <1>2, <1>3

-----------------------------------------------------------------------------
(* The types, and what each part keeps about itself.                       *)

(* A packet from client c; ids is rpcID.                                   *)
SentOK(p, c, ids) ==
    /\ p \in ServerPackets /\ p.call[1] = c
    /\ p.bcast => c \in Broadcasters
    /\ c \in Stable => p.call[2] = 1 /\ p.call[3] < ids[c]

(* A packet to client c.                                                   *)
AnswerOK(p, c, ids) ==
    /\ p \in ClientPackets
    /\ p.type = "CLOSE" => p.id > 0 /\ (c \in Stable => p.id < ids[c])
    /\ p.type = "REPLY" => p.result \in Results

ChannelStates ==
    [bits : SUBSET {"WAITING", "INPUT", "TIMEOUT"}, call : NoneOr(Calls),
     bcast : BOOLEAN, id : 0 .. MaxID, hint : Slots, reqHint : Slots,
     plsAck : BOOLEAN, tries : 0 .. MaxTries - 1, input : NoneOr(ClientPackets)]

(* The channel of client c, whose next ID is next and whose boot is b.     *)
ChanOK(ch, c, next, b) ==
    /\ ch \in ChannelStates
    /\ ch.call # None => /\ ch.call \in Calls /\ ch.call[1] = c /\ ch.call[2] = b
                         /\ ch.call[3] = ch.id /\ ch.id = next - 1
    /\ ch.call = None => ch.bits = {}
    /\ ch.tries < MaxTries
    /\ ch.bcast => c \in Broadcasters
    /\ "INPUT" \in ch.bits => ch.input \in ClientPackets
                              /\ (ch.input.type = "REPLY" => ch.input.result \in Results)

Replies == [id : 0 .. MaxID, result : Results]
ServerStates ==
    [bits : SUBSET {"FREE", "BUSY", "WAITING", "AGING", "STUCK", "NO_REPLY"},
     id : 0 .. MaxID, client : NoneOr(Clients), age : 0 .. MaxServerAge + 1,
     req : NoneOr(Calls), close : BOOLEAN, bcast : BOOLEAN, reply : NoneOr(Replies),
     work : {"wait", "run", "done", "noReply"}, running : NoneOr(Results)]

ServerOK(sv, ids) ==
    /\ sv \in ServerStates
    /\ sv.id = 0 => /\ sv.client = None /\ sv.req = None /\ sv.bits = {"FREE"}
                    /\ sv.work = "wait"
    /\ sv.id # 0 => /\ sv.client \in Clients /\ sv.req \in Calls /\ sv.req[3] = sv.id
                    /\ sv.req[1] \in Stable => sv.req[2] = 1 /\ sv.id < ids[sv.req[1]]
    /\ sv.bcast => sv.req \in Calls /\ sv.req[1] \in Broadcasters
    /\ "BUSY" \in sv.bits => sv.bits \subseteq {"BUSY", "STUCK"} /\ sv.req[1] = sv.client
    /\ "WAITING" \in sv.bits => sv.work = "wait"
    /\ "AGING" \in sv.bits => sv.age < MaxServerAge \/ sv.age = 1
    /\ sv.work # "wait" =>
          /\ sv.running \in Results
          /\ sv.running \in StableCalls => sv.running[3] < ids[sv.running[1]]

ToServerOK(net, ids) ==
    /\ net \in [Clients -> Seq(ServerPackets)]
    /\ \A c \in Clients : /\ Len(net[c]) <= NetBound
                          /\ \A p \in PacketsIn(net[c]) : SentOK(p, c, ids)

ToClientOK(net, ids) ==
    /\ net \in [Clients -> Seq(ClientPackets)]
    /\ \A c \in Clients : /\ Len(net[c]) <= NetBound
                          /\ \A p \in PacketsIn(net[c]) : AnswerOK(p, c, ids)

BaseTypes ==
    /\ rpcID \in [Clients -> 1 .. MaxID + 1]
    /\ boot \in [Clients -> 1 .. MaxBoots]
    /\ knownBoot \in [Clients -> 1 .. MaxBoots]
    /\ outcome \in [Stable -> NoneOr(Results)]
    /\ executions \in [StableCalls -> 0 .. 2]
    /\ confused \subseteq Stable
    /\ chan \in [Clients -> ChannelStates]
    /\ srv \in [Slots -> ServerStates]
    /\ \A c \in Stable : boot[c] = 1 /\ knownBoot[c] = 1

Types ==
    /\ BaseTypes
    /\ ToServerOK(toServer, rpcID)
    /\ ToClientOK(toClient, rpcID)
    /\ \A c \in Clients : ChanOK(chan[c], c, rpcID[c], boot[c])
    /\ \A s \in Slots : ServerOK(srv[s], rpcID)

LEMMA TypesCorrect == Types => TypeOK
  BY DEF Types, BaseTypes, ToServerOK, ToClientOK, TypeOK, ChannelStates, ServerStates, Replies

LEMMA InitTypes ==
    ASSUME RpcTransportAssumption, NoneAssumption, Init PROVE Types
<1>1. /\ NumServers \in Nat \ {0} /\ MaxID \in Nat \ {0} /\ MaxTries \in Nat \ {0}
      /\ MaxServerAge \in Nat \ {0} /\ NetBound \in Nat \ {0} /\ 0 \in Slots
  BY DEF RpcTransportAssumption, Slots
<1>2. NewChannel \in ChannelStates
  BY <1>1 DEF NewChannel, ChannelStates, NoneOr
<1>3. NewServer \in ServerStates
  BY <1>1 DEF NewServer, ServerStates, NoneOr
<1>4. \A c \in Clients, n \in Nat, b \in Nat : ChanOK(NewChannel, c, n, b)
  BY <1>1, <1>2 DEF ChanOK, NewChannel
<1>5. \A ids : ServerOK(NewServer, ids)
  BY <1>1, <1>3 DEF ServerOK, NewServer
<1>6. /\ \A c \in Clients : rpcID[c] = 1 /\ boot[c] = 1 /\ knownBoot[c] = 1
      /\ rpcID \in [Clients -> 1 .. MaxID + 1] /\ boot \in [Clients -> 1 .. MaxBoots]
      /\ knownBoot \in [Clients -> 1 .. MaxBoots]
  BY <1>1, StableFacts DEF Init
<1>7. /\ outcome \in [Stable -> NoneOr(Results)] /\ executions \in [StableCalls -> 0 .. 2]
      /\ confused \subseteq Stable /\ chan \in [Clients -> ChannelStates]
      /\ srv \in [Slots -> ServerStates]
  BY <1>2, <1>3 DEF Init, NoneOr
<1>8. toServer \in [Clients -> Seq(ServerPackets)] /\ toClient \in [Clients -> Seq(ClientPackets)]
  BY DEF Init
<1>9. \A c \in Clients : /\ PacketsIn(toServer[c]) = {} /\ PacketsIn(toClient[c]) = {}
                         /\ Len(toServer[c]) <= NetBound /\ Len(toClient[c]) <= NetBound
  <2> TAKE c \in Clients
  <2>1. toServer[c] = <<>> /\ toClient[c] = <<>>
    BY DEF Init
  <2> QED BY <1>1, <2>1 DEF PacketsIn
<1>10. /\ \A c \in Clients : ChanOK(chan[c], c, rpcID[c], boot[c])
       /\ \A s \in Slots : ServerOK(srv[s], rpcID)
  BY <1>4, <1>5, <1>6 DEF Init
<1>11. \A c \in Stable : boot[c] = 1 /\ knownBoot[c] = 1
  BY <1>6, StableFacts
<1> QED BY <1>6, <1>7, <1>8, <1>9, <1>10, <1>11 DEF Types, BaseTypes, ToServerOK, ToClientOK

(* The parts of the state a step leaves alone keep their shape when the    *)
(* stable clients' IDs only grow.                                          *)
Grows == /\ rpcID' \in [Clients -> 1 .. MaxID + 1]
         /\ \A c \in Stable : rpcID'[c] >= rpcID[c]

LEMMA GrowsFacts ==
    ASSUME RpcTransportAssumption, Types, Grows
    PROVE  /\ \A c \in Clients : \A p : SentOK(p, c, rpcID) => SentOK(p, c, rpcID')
           /\ \A c \in Clients : \A p : AnswerOK(p, c, rpcID) => AnswerOK(p, c, rpcID')
           /\ \A sv : ServerOK(sv, rpcID) => ServerOK(sv, rpcID')
<1>1. \A c \in Stable : rpcID[c] \in Nat /\ rpcID'[c] \in Nat /\ rpcID'[c] >= rpcID[c]
  BY StableFacts DEF Types, BaseTypes, Grows
<1>2. \A p \in ServerPackets : p.call \in Calls
  BY DEF ServerPackets
<1>3. \A k \in Calls : k[3] \in Nat
  BY CallFacts
<1>4. ASSUME NEW c \in Clients, NEW p, SentOK(p, c, rpcID) PROVE SentOK(p, c, rpcID')
  BY <1>1, <1>2, <1>3, <1>4 DEF SentOK
<1>5. \A p \in ClientPackets : p.id \in Nat
  BY DEF ClientPackets
<1>6. ASSUME NEW c \in Clients, NEW p, AnswerOK(p, c, rpcID) PROVE AnswerOK(p, c, rpcID')
  BY <1>1, <1>5, <1>6 DEF AnswerOK
<1>7. ASSUME NEW sv, ServerOK(sv, rpcID) PROVE ServerOK(sv, rpcID')
  <2>1. sv.id \in Nat
    BY <1>7 DEF ServerOK, ServerStates
  <2>2. sv.req \in Calls /\ sv.req[1] \in Stable /\ sv.id < rpcID[sv.req[1]] => sv.id < rpcID'[sv.req[1]]
    BY <1>1, <2>1
  <2>3. sv.running \in StableCalls /\ sv.running[3] < rpcID[sv.running[1]]
          => sv.running[3] < rpcID'[sv.running[1]]
    BY <1>1, <1>3, StableFacts
  <2> QED BY <1>7, <2>2, <2>3, Zenon DEF ServerOK
<1> QED BY <1>4, <1>6, <1>7

LEMMA SendToServer ==
    ASSUME RpcTransportAssumption, Types, Grows, NEW c \in Clients, NEW p,
           SentOK(p, c, rpcID'), toServer' = Enqueue(toServer, c, p)
    PROVE  ToServerOK(toServer', rpcID')
<1>1. toServer \in [Clients -> Seq(ServerPackets)] /\ p \in ServerPackets
  BY DEF Types, ToServerOK, SentOK
<1>2. Sends(ServerPackets, toServer, toServer', c, p)
  BY <1>1, EnqueueFacts
<1>3. \A d \in Clients : /\ Len(toServer[d]) <= NetBound
                         /\ \A q \in PacketsIn(toServer[d]) : SentOK(q, d, rpcID')
  BY GrowsFacts DEF Types, ToServerOK
<1>4. Len(toServer[c]) \in Nat /\ NetBound \in Nat
  BY <1>1 DEF RpcTransportAssumption
<1>5. \A d \in Clients : Len(toServer'[d]) <= NetBound
  BY <1>2, <1>3, <1>4 DEF Sends
<1>6. \A d \in Clients : \A q \in PacketsIn(toServer'[d]) : SentOK(q, d, rpcID')
  BY <1>2, <1>3 DEF Sends
<1> QED BY <1>2, <1>5, <1>6 DEF ToServerOK, Sends

LEMMA SendToClient ==
    ASSUME RpcTransportAssumption, Types, Grows, NEW c \in Clients, NEW p,
           AnswerOK(p, c, rpcID'), toClient' = Enqueue(toClient, c, p)
    PROVE  ToClientOK(toClient', rpcID')
<1>1. toClient \in [Clients -> Seq(ClientPackets)] /\ p \in ClientPackets
  BY DEF Types, ToClientOK, AnswerOK
<1>2. Sends(ClientPackets, toClient, toClient', c, p)
  BY <1>1, EnqueueFacts
<1>3. \A d \in Clients : /\ Len(toClient[d]) <= NetBound
                         /\ \A q \in PacketsIn(toClient[d]) : AnswerOK(q, d, rpcID')
  BY GrowsFacts DEF Types, ToClientOK
<1>4. Len(toClient[c]) \in Nat /\ NetBound \in Nat
  BY <1>1 DEF RpcTransportAssumption
<1>5. \A d \in Clients : Len(toClient'[d]) <= NetBound
  BY <1>2, <1>3, <1>4 DEF Sends
<1>6. \A d \in Clients : \A q \in PacketsIn(toClient'[d]) : AnswerOK(q, d, rpcID')
  BY <1>2, <1>3 DEF Sends
<1> QED BY <1>2, <1>5, <1>6 DEF ToClientOK, Sends

LEMMA TakeFromServerQueue ==
    ASSUME RpcTransportAssumption, Types, Grows, NEW c \in Clients,
           toServer[c] # <<>>, toServer' = [toServer EXCEPT ![c] = Tail(@)]
    PROVE  ToServerOK(toServer', rpcID') /\ SentOK(Head(toServer[c]), c, rpcID)
<1>1. toServer \in [Clients -> Seq(ServerPackets)]
  BY DEF Types, ToServerOK
<1>2. Takes(ServerPackets, toServer, toServer', c)
  BY <1>1, TailFacts
<1>3. \A d \in Clients : /\ Len(toServer[d]) <= NetBound /\ Len(toServer[d]) \in Nat
                         /\ \A q \in PacketsIn(toServer[d]) : SentOK(q, d, rpcID) /\ SentOK(q, d, rpcID')
  BY <1>1, GrowsFacts DEF Types, ToServerOK
<1>4. \A d \in Clients : Len(toServer'[d]) <= NetBound
  BY <1>2, <1>3, <1>1 DEF RpcTransportAssumption, Takes
<1> QED BY <1>2, <1>3, <1>4 DEF ToServerOK, Takes

LEMMA TakeFromClientQueue ==
    ASSUME RpcTransportAssumption, Types, Grows, NEW c \in Clients,
           toClient[c] # <<>>, toClient' = [toClient EXCEPT ![c] = Tail(@)]
    PROVE  ToClientOK(toClient', rpcID') /\ AnswerOK(Head(toClient[c]), c, rpcID)
<1>1. toClient \in [Clients -> Seq(ClientPackets)]
  BY DEF Types, ToClientOK
<1>2. Takes(ClientPackets, toClient, toClient', c)
  BY <1>1, TailFacts
<1>3. \A d \in Clients : /\ Len(toClient[d]) <= NetBound /\ Len(toClient[d]) \in Nat
                         /\ \A q \in PacketsIn(toClient[d]) : AnswerOK(q, d, rpcID) /\ AnswerOK(q, d, rpcID')
  BY <1>1, GrowsFacts DEF Types, ToClientOK
<1>4. \A d \in Clients : Len(toClient'[d]) <= NetBound
  BY <1>2, <1>3, <1>1 DEF RpcTransportAssumption, Takes
<1> QED BY <1>2, <1>3, <1>4 DEF ToClientOK, Takes

(* Queues no step touches.                                                 *)
LEMMA QueuesKept ==
    ASSUME RpcTransportAssumption, Types, Grows
    PROVE  /\ toServer' = toServer => ToServerOK(toServer', rpcID')
           /\ toClient' = toClient => ToClientOK(toClient', rpcID')
           /\ srv' = srv => \A s \in Slots : ServerOK(srv'[s], rpcID')
  BY GrowsFacts DEF Types, ToServerOK, ToClientOK

-----------------------------------------------------------------------------
(* The types are kept: the steps of the clients and the network.           *)

LEMMA WaitingFacts ==
    ASSUME NEW ch \in ChannelStates
    PROVE  /\ Waiting(ch) \in ChannelStates
           /\ Waiting(ch).bits = {"WAITING", "TIMEOUT"} /\ Waiting(ch).input = None
           /\ Waiting(ch).call = ch.call /\ Waiting(ch).id = ch.id
           /\ Waiting(ch).tries = ch.tries /\ Waiting(ch).bcast = ch.bcast
  BY DEF Waiting, ChannelStates, NoneOr

LEMMA RequestFacts ==
    ASSUME NEW ch \in ChannelStates, ch.call \in Calls
    PROVE  /\ Request(ch) \in ServerPackets /\ Request(ch).type = "REQUEST"
           /\ Request(ch).call = ch.call /\ Request(ch).bcast = ch.bcast
  BY DEF Request, ServerPackets, ChannelStates

LEMMA StartCallTypes ==
    ASSUME RpcTransportAssumption, NoneAssumption, Types,
           NEW c \in Clients, NEW bcast \in BOOLEAN, bcast => c \in Broadcasters,
           StartCall(c, bcast)
    PROVE  Types' /\ Grows
<1> DEFINE call == <<c, boot[c], rpcID[c]>>
           ch == [chan[c] EXCEPT !.call = call, !.id = rpcID[c], !.bcast = bcast,
                                 !.reqHint = chan[c].hint, !.plsAck = FALSE,
                                 !.tries = 0]
<1>1. /\ chan[c].call = None
      /\ rpcID[c] <= IF c \in Unstable THEN 1 ELSE MaxID
      /\ rpcID' = [rpcID EXCEPT ![c] = @ + 1]
      /\ chan' = [chan EXCEPT ![c] = Waiting(ch)]
      /\ toServer' = Enqueue(toServer, c, Request(ch))
      /\ UNCHANGED <<boot, outcome, confused, srv, knownBoot, toClient, executions>>
  BY DEF StartCall
<1>2. /\ MaxID \in Nat \ {0} /\ MaxTries \in Nat \ {0}
      /\ rpcID \in [Clients -> 1 .. MaxID + 1] /\ boot \in [Clients -> 1 .. MaxBoots]
      /\ chan \in [Clients -> ChannelStates]
  BY DEF RpcTransportAssumption, Types, BaseTypes
<1>3. rpcID[c] \in 1 .. MaxID
  BY <1>1, <1>2
<1>4. call \in Calls /\ call[1] = c /\ call[2] = boot[c] /\ call[3] = rpcID[c]
  BY <1>2, <1>3, CallFacts
<1>5. /\ ch \in ChannelStates /\ ch.call = call /\ ch.id = rpcID[c] /\ ch.tries = 0
      /\ ch.bcast = bcast
  <2> HIDE DEF call
  <2>1. chan[c] \in ChannelStates /\ 0 \in 0 .. MaxTries - 1 /\ rpcID[c] \in 0 .. MaxID
    BY <1>2, <1>3
  <2> QED BY <1>4, <2>1 DEF ChannelStates, NoneOr
<1> HIDE DEF call, ch
<1>6. rpcID' \in [Clients -> 1 .. MaxID + 1] /\ rpcID'[c] = rpcID[c] + 1
      /\ \A d \in Clients \ {c} : rpcID'[d] = rpcID[d]
  BY <1>1, <1>2, <1>3
<1>7. Grows
  BY <1>2, <1>3, <1>6, StableFacts DEF Grows
<1>8. SentOK(Request(ch), c, rpcID')
  <2>1. c \in Stable => boot[c] = 1
    BY DEF Types, BaseTypes
  <2> QED BY <1>3, <1>4, <1>5, <1>6, <2>1, RequestFacts DEF SentOK
<1>9. ToServerOK(toServer', rpcID') /\ ToClientOK(toClient', rpcID')
      /\ \A s \in Slots : ServerOK(srv'[s], rpcID')
  BY <1>1, <1>7, <1>8, SendToServer, QueuesKept
<1>10. chan'[c] = Waiting(ch) /\ \A d \in Clients \ {c} : chan'[d] = chan[d]
  BY <1>1, <1>2
<1>11. ChanOK(chan'[c], c, rpcID'[c], boot'[c])
  <2>1. Waiting(ch).call # None /\ rpcID[c] = rpcID'[c] - 1 /\ 0 < MaxTries
    BY <1>2, <1>3, <1>4, <1>5, <1>6, WaitingFacts, NoneAssumption
  <2> QED BY <1>1, <1>4, <1>5, <1>10, <2>1, WaitingFacts DEF ChanOK
<1>12. \A d \in Clients : ChanOK(chan'[d], d, rpcID'[d], boot'[d])
  BY <1>1, <1>6, <1>10, <1>11, Zenon DEF Types
<1>13. BaseTypes'
  <2>1. chan' \in [Clients -> ChannelStates]
    BY <1>1, <1>2, <1>5, WaitingFacts
  <2> QED BY <1>1, <1>6, <2>1 DEF Types, BaseTypes
<1> QED BY <1>7, <1>9, <1>12, <1>13 DEF Types

(* A step of client c that only changes its channel and, perhaps, the      *)
(* packets it sent and its outcome.                                        *)
LEMMA ChannelStepTypes ==
    ASSUME RpcTransportAssumption, Types, NEW c \in Clients, NEW ch,
           ChanOK(ch, c, rpcID[c], boot[c]),
           chan' = [chan EXCEPT ![c] = ch],
           outcome' \in [Stable -> NoneOr(Results)],
           ToServerOK(toServer', rpcID'), ToClientOK(toClient', rpcID'),
           UNCHANGED <<rpcID, boot, confused, srv, knownBoot, executions>>
    PROVE  Types'
<1>1. chan \in [Clients -> ChannelStates] /\ ch \in ChannelStates
  BY DEF Types, BaseTypes, ChanOK
<1>2. BaseTypes'
  BY <1>1 DEF Types, BaseTypes
<1>3. \A d \in Clients : ChanOK(chan'[d], d, rpcID'[d], boot'[d])
  BY <1>1 DEF Types
<1> QED BY <1>2, <1>3 DEF Types

LEMMA SameIDs ==
    ASSUME Types, UNCHANGED rpcID PROVE Grows
  BY StableFacts DEF Types, BaseTypes, Grows, Stable

LEMMA Rpc_TimeoutTypes ==
    ASSUME RpcTransportAssumption, NoneAssumption, Types, NEW c \in Clients, Rpc_Timeout(c)
    PROVE  Types'
<1> DEFINE ch == [chan[c] EXCEPT !.bits = @ \ {"TIMEOUT"}]
<1>1. /\ "TIMEOUT" \in chan[c].bits /\ chan' = [chan EXCEPT ![c] = ch]
      /\ UNCHANGED <<rpcID, boot, outcome, confused, srv, knownBoot, toServer, toClient, executions>>
  BY DEF Rpc_Timeout
<1>2. chan[c] \in ChannelStates /\ ChanOK(chan[c], c, rpcID[c], boot[c])
  BY DEF Types, BaseTypes
<1>3. /\ ch \in ChannelStates /\ ch.call = chan[c].call /\ ch.id = chan[c].id
      /\ ch.tries = chan[c].tries /\ ch.bcast = chan[c].bcast /\ ch.input = chan[c].input
      /\ ch.bits = chan[c].bits \ {"TIMEOUT"}
  BY <1>2 DEF ChannelStates
<1> HIDE DEF ch
<1>4. ChanOK(ch, c, rpcID[c], boot[c])
  BY <1>1, <1>2, <1>3 DEF ChanOK
<1> QED BY <1>1, <1>4, SameIDs, QueuesKept, ChannelStepTypes DEF Types, BaseTypes

LEMMA FreshChannel ==
    ASSUME RpcTransportAssumption, NEW ch \in ChannelStates, NEW c \in Clients, NEW n, NEW b
    PROVE  /\ NewChannel \in ChannelStates
           /\ ChanOK([NewChannel EXCEPT !.hint = ch.hint], c, n, b)
           /\ [NewChannel EXCEPT !.hint = ch.hint].bits = {}
           /\ [NewChannel EXCEPT !.hint = ch.hint].call = None
<1>1. NumServers \in Nat \ {0} /\ MaxTries \in Nat \ {0} /\ MaxID \in Nat /\ 0 \in Slots
  BY DEF RpcTransportAssumption, Slots
<1>2. NewChannel \in ChannelStates
  BY <1>1 DEF NewChannel, ChannelStates, NoneOr
<1>3. [NewChannel EXCEPT !.hint = ch.hint] \in ChannelStates
  BY <1>2 DEF ChannelStates
<1> QED BY <1>1, <1>2, <1>3 DEF ChanOK, NewChannel

LEMMA FinishTypes ==
    ASSUME RpcTransportAssumption, Types, NEW c \in Clients, NEW result \in NoneOr(Results),
           Finish(c, result), UNCHANGED <<rpcID, boot, confused, srv, knownBoot, toServer, toClient, executions>>
    PROVE  Types'
<1>1. /\ chan' = [chan EXCEPT ![c] = [NewChannel EXCEPT !.hint = chan[c].hint]]
      /\ outcome' = [k \in Stable |-> IF k = c THEN result ELSE outcome[k]]
  BY DEF Finish
<1>2. chan[c] \in ChannelStates /\ outcome \in [Stable -> NoneOr(Results)]
  BY DEF Types, BaseTypes
<1>3. outcome' \in [Stable -> NoneOr(Results)]
  BY <1>1, <1>2
<1>4. ChanOK([NewChannel EXCEPT !.hint = chan[c].hint], c, rpcID[c], boot[c])
  BY <1>2, FreshChannel
<1> QED BY <1>1, <1>3, <1>4, SameIDs, QueuesKept, ChannelStepTypes

LEMMA DoInputTypes ==
    ASSUME RpcTransportAssumption, NoneAssumption, Types, NEW c \in Clients, DoInput(c)
    PROVE  Types'
<1> DEFINE ch == chan[c]
           ch2 == IF ch.bcast \/ ch.input.id # ch.id THEN ch ELSE [ch EXCEPT !.tries = 0]
<1>1. /\ ch.call # None /\ "INPUT" \in ch.bits
      /\ \/ ch.input.type = "REPLY" /\ ch.input.id = ch.id /\ Finish(c, ch.input.result)
         \/ /\ ch.input.type \in {"ACK", "NACK"} \/ ch.input.id # ch.id
            /\ chan' = [chan EXCEPT ![c] = Waiting(ch2)] /\ UNCHANGED outcome
      /\ UNCHANGED <<rpcID, boot, confused, srv, knownBoot, toServer, toClient, executions>>
  BY DEF DoInput
<1>2. ch \in ChannelStates /\ ChanOK(ch, c, rpcID[c], boot[c])
  BY DEF Types, BaseTypes
<1>3. CASE ch.input.type = "REPLY" /\ ch.input.id = ch.id /\ Finish(c, ch.input.result)
  <2>1. ch.input.result \in NoneOr(Results)
    BY <1>1, <1>2, <1>3 DEF ChanOK, NoneOr
  <2> QED BY <1>1, <1>3, <2>1, FinishTypes
<1>4. CASE chan' = [chan EXCEPT ![c] = Waiting(ch2)] /\ UNCHANGED outcome
  <2>1. /\ ch2 \in ChannelStates /\ ch2.call = ch.call /\ ch2.id = ch.id
        /\ ch2.tries < MaxTries /\ ch2.bcast = ch.bcast
    <3>1. [ch EXCEPT !.tries = 0] \in ChannelStates /\ 0 < MaxTries
      BY <1>2 DEF ChannelStates, RpcTransportAssumption
    <3>2. /\ [ch EXCEPT !.tries = 0].call = ch.call /\ [ch EXCEPT !.tries = 0].id = ch.id
          /\ [ch EXCEPT !.tries = 0].tries = 0 /\ [ch EXCEPT !.tries = 0].bcast = ch.bcast
      BY <1>2 DEF ChannelStates
    <3> HIDE DEF ch
    <3> QED BY <1>2, <3>1, <3>2 DEF ChanOK
  <2> HIDE DEF ch2, ch
  <2>2. ChanOK(Waiting(ch2), c, rpcID[c], boot[c])
    BY <1>1, <1>2, <2>1, WaitingFacts DEF ChanOK
  <2> QED BY <1>1, <1>4, <2>2, SameIDs, QueuesKept, ChannelStepTypes DEF Types, BaseTypes
<1> QED BY <1>1, <1>3, <1>4

LEMMA DoTimeoutTypes ==
    ASSUME RpcTransportAssumption, NoneAssumption, Types, NEW c \in Clients, DoTimeout(c)
    PROVE  Types'
<1> DEFINE ch == [chan[c] EXCEPT !.tries = @ + 1, !.reqHint = chan[c].hint, !.plsAck = TRUE]
<1>1. /\ ch.call # None /\ ch.bits \cap {"INPUT", "TIMEOUT"} = {}
      /\ IF ch.tries < MaxTries
         THEN /\ chan' = [chan EXCEPT ![c] = Waiting(ch)]
              /\ toServer' = Enqueue(toServer, c, Request(ch))
              /\ UNCHANGED outcome
         ELSE /\ Finish(c, None)
              /\ UNCHANGED toServer
      /\ UNCHANGED <<rpcID, boot, confused, srv, knownBoot, toClient, executions>>
  BY DEF DoTimeout
<1>2. chan[c] \in ChannelStates /\ ChanOK(chan[c], c, rpcID[c], boot[c]) /\ MaxTries \in Nat
  BY DEF Types, BaseTypes, RpcTransportAssumption
<1>3. ASSUME ch.tries < MaxTries
      PROVE  /\ ch \in ChannelStates /\ ch.call = chan[c].call /\ ch.id = chan[c].id
             /\ ch.bcast = chan[c].bcast
  <2>1. ch.tries = chan[c].tries + 1
    BY <1>2 DEF ChannelStates
  <2>2. chan[c].tries + 1 \in 0 .. MaxTries - 1
    BY <1>2, <1>3, <2>1 DEF ChannelStates
  <2> QED BY <1>2, <2>2 DEF ChannelStates
<1> HIDE DEF ch
<1>4. CASE ch.tries < MaxTries
  <2>0. /\ ch \in ChannelStates /\ ch.call = chan[c].call /\ ch.id = chan[c].id
        /\ ch.bcast = chan[c].bcast
    BY <1>3, <1>4
  <2>1. ChanOK(Waiting(ch), c, rpcID[c], boot[c])
    BY <1>1, <1>2, <1>4, <2>0, WaitingFacts DEF ChanOK
  <2>2. Request(ch) \in ServerPackets /\ Request(ch).call = ch.call /\ Request(ch).bcast = ch.bcast
    BY <1>1, <1>2, <2>0, RequestFacts DEF ChanOK
  <2>3. SentOK(Request(ch), c, rpcID')
    <3>1. c \in Stable => boot[c] = 1
      BY DEF Types, BaseTypes
    <3>2. rpcID[c] \in Nat /\ rpcID' = rpcID
      BY <1>1 DEF Types, BaseTypes
    <3> QED BY <1>1, <1>2, <2>0, <2>2, <3>1, <3>2 DEF SentOK, ChanOK
  <2> QED BY <1>1, <1>4, <2>1, <2>3, SameIDs, SendToServer, QueuesKept, ChannelStepTypes
          DEF Types, BaseTypes
<1>5. CASE ~(ch.tries < MaxTries)
  BY <1>1, <1>5, FinishTypes DEF NoneOr
<1> QED BY <1>4, <1>5

LEMMA RebootTypes ==
    ASSUME RpcTransportAssumption, NoneAssumption, Types, NEW c \in Clients, Reboot(c)
    PROVE  Types' /\ Grows
<1>1. /\ c \in Unstable /\ boot[c] < MaxBoots
      /\ boot' = [boot EXCEPT ![c] = @ + 1]
      /\ rpcID' = [rpcID EXCEPT ![c] = 1]
      /\ chan' = [chan EXCEPT ![c] = NewChannel]
      /\ UNCHANGED <<outcome, confused, srv, knownBoot, toServer, toClient, executions>>
  BY DEF Reboot
<1>2. /\ rpcID \in [Clients -> 1 .. MaxID + 1] /\ boot \in [Clients -> 1 .. MaxBoots]
      /\ chan \in [Clients -> ChannelStates] /\ c \notin Stable
      /\ MaxID \in Nat /\ MaxBoots \in Nat /\ MaxTries \in Nat \ {0}
  BY <1>1 DEF RpcTransportAssumption, Types, BaseTypes, Stable
<1>3. /\ rpcID' \in [Clients -> 1 .. MaxID + 1] /\ boot' \in [Clients -> 1 .. MaxBoots]
      /\ \A d \in Clients \ {c} : rpcID'[d] = rpcID[d] /\ boot'[d] = boot[d]
  BY <1>1, <1>2
<1>4. Grows
  BY <1>2, <1>3, StableFacts DEF Grows
<1>5. NewChannel \in ChannelStates
  BY <1>2, FreshChannel
<1>6. ChanOK(NewChannel, c, rpcID'[c], boot'[c])
  BY <1>2, <1>5 DEF ChanOK, NewChannel
<1>7. chan' \in [Clients -> ChannelStates] /\ chan'[c] = NewChannel
      /\ \A d \in Clients \ {c} : chan'[d] = chan[d]
  BY <1>1, <1>2, <1>5
<1>8. \A d \in Clients : ChanOK(chan'[d], d, rpcID'[d], boot'[d])
  BY <1>3, <1>6, <1>7, Zenon DEF Types
<1>9. BaseTypes'
  BY <1>1, <1>2, <1>3, <1>7, StableFacts DEF Types, BaseTypes
<1> QED BY <1>1, <1>4, <1>8, <1>9, QueuesKept DEF Types

LEMMA RpcClientDispatchTypes ==
    ASSUME RpcTransportAssumption, NoneAssumption, Types, NEW c \in Clients, RpcClientDispatch(c)
    PROVE  Types'
<1> DEFINE packet == Head(toClient[c])
           accepted == packet.id = chan[c].id /\ "WAITING" \in chan[c].bits
           answer == [type |-> "CLOSE", call |-> <<c, boot[c], packet.id>>,
                      bcast |-> FALSE, hint |-> packet.hint, plsAck |-> FALSE]
           ch == [chan[c] EXCEPT !.bits = {"INPUT"}, !.input = packet, !.hint = packet.hint]
<1>1. /\ toClient[c] # <<>>
      /\ toClient' = [toClient EXCEPT ![c] = Tail(@)]
      /\ IF packet.type = "CLOSE"
         THEN /\ toServer' = IF chan[c].call = None THEN Enqueue(toServer, c, answer) ELSE toServer
              /\ UNCHANGED chan
         ELSE /\ chan' = IF accepted THEN [chan EXCEPT ![c] = ch] ELSE chan
              /\ UNCHANGED toServer
      /\ UNCHANGED <<rpcID, boot, outcome, confused, srv, knownBoot, executions>>
  BY DEF RpcClientDispatch
<1>2. Grows
  BY <1>1, SameIDs
<1>3. ToClientOK(toClient', rpcID') /\ AnswerOK(packet, c, rpcID)
  BY <1>1, <1>2, TakeFromClientQueue
<1>4. /\ chan[c] \in ChannelStates /\ ChanOK(chan[c], c, rpcID[c], boot[c])
      /\ packet \in ClientPackets /\ packet.id \in 0 .. MaxID /\ packet.hint \in Slots
      /\ outcome \in [Stable -> NoneOr(Results)] /\ boot[c] \in 1 .. MaxBoots
      /\ chan = [chan EXCEPT ![c] = chan[c]]
  BY <1>3 DEF Types, BaseTypes, AnswerOK, ClientPackets
<1> HIDE DEF packet
<1>5. CASE packet.type = "CLOSE"
  <2>1. ToServerOK(toServer', rpcID')
    <3>1. CASE chan[c].call = None
      <4>1. packet.id \in 1 .. MaxID
        BY <1>3, <1>4, <1>5 DEF AnswerOK
      <4>2. <<c, boot[c], packet.id>> \in Calls
        BY <1>4, <4>1, CallFacts
      <4>3. answer \in ServerPackets
        BY <1>4, <4>2 DEF ServerPackets
      <4>4. c \in Stable => boot[c] = 1 /\ packet.id < rpcID[c]
        BY <1>3, <1>5 DEF Types, BaseTypes, AnswerOK
      <4>5. SentOK(answer, c, rpcID')
        BY <1>1, <4>3, <4>4 DEF SentOK
      <4> QED BY <1>1, <1>2, <1>5, <3>1, <4>5, SendToServer
    <3>2. CASE chan[c].call # None
      BY <1>1, <1>2, <1>5, <3>2, QueuesKept
    <3> QED BY <3>1, <3>2
  <2> QED BY <1>1, <1>3, <1>4, <1>5, <2>1, ChannelStepTypes
<1>6. CASE packet.type # "CLOSE" /\ ~accepted
  BY <1>1, <1>2, <1>3, <1>4, <1>6, QueuesKept, ChannelStepTypes
<1>7. CASE packet.type # "CLOSE" /\ accepted
  <2>1. /\ ch \in ChannelStates /\ ch.call = chan[c].call /\ ch.id = chan[c].id
        /\ ch.tries = chan[c].tries /\ ch.bcast = chan[c].bcast /\ ch.input = packet
        /\ ch.bits = {"INPUT"}
    BY <1>4 DEF ChannelStates, NoneOr
  <2>2. chan' = [chan EXCEPT ![c] = ch] /\ UNCHANGED toServer
    BY <1>1, <1>7
  <2> HIDE DEF ch
  <2>3. ChanOK(ch, c, rpcID[c], boot[c])
    BY <1>3, <1>4, <1>7, <2>1 DEF ChanOK, AnswerOK
  <2> QED BY <1>1, <1>2, <1>3, <1>4, <2>2, <2>3, QueuesKept, ChannelStepTypes
<1> QED BY <1>5, <1>6, <1>7

LEMMA LoseTypes ==
    ASSUME RpcTransportAssumption, NoneAssumption, Types, NEW c \in Clients,
           LoseToServer(c) \/ LoseToClient(c)
    PROVE  Types'
<1>1. UNCHANGED <<rpcID, boot, chan, outcome, confused, srv, knownBoot, executions>>
  BY DEF LoseToServer, LoseToClient
<1>2. Grows
  BY <1>1, SameIDs
<1>3. ToServerOK(toServer', rpcID') /\ ToClientOK(toClient', rpcID')
  <2>1. CASE LoseToServer(c)
    BY <1>2, <2>1, TakeFromServerQueue, QueuesKept DEF LoseToServer
  <2>2. CASE LoseToClient(c)
    BY <1>2, <2>2, TakeFromClientQueue, QueuesKept DEF LoseToClient
  <2> QED BY <2>1, <2>2
<1> QED BY <1>1, <1>3 DEF Types, BaseTypes

-----------------------------------------------------------------------------
(* What the dispatcher does, case by case.                                 *)

SameRequest(o, sv) ==
    o.id = sv.id /\ o.req = sv.req /\ o.close = sv.close /\ o.bcast = sv.bcast

LEMMA NewTransactionFacts ==
    ASSUME RpcTransportAssumption,
           NEW s \in Slots, NEW sv \in ServerStates, NEW p \in ServerPackets, NEW step,
           step = NewTransaction(s, sv, p)
    PROVE  /\ step.sv \in ServerStates
           /\ step.sv.client = sv.client /\ step.sv.age = sv.age /\ step.sv.work = sv.work
           /\ step.sv.running = sv.running /\ step.sv.reply = sv.reply
           /\ "BUSY" \in sv.bits =>
                 /\ step.sv.bits = (sv.bits \ {"WAITING"}) \cup {"STUCK"}
                 /\ SameRequest(step.sv, sv) /\ step.out = <<>>
           /\ "BUSY" \notin sv.bits =>
                 /\ step.sv.bits = {"BUSY"} /\ step.sv.id = p.call[3] /\ step.sv.req = p.call
                 /\ step.sv.bcast = p.bcast /\ (step.sv.close <=> p.type = "CLOSE")
                 /\ step.out = <<>> \/ step.out = <<Ack(s, p.call[3])>>
<1>1. /\ p.call \in Calls /\ p.bcast \in BOOLEAN /\ p.call[3] \in 1 .. MaxID
      /\ p.call[3] \in 0 .. MaxID
  <2>1. p.call \in Calls /\ p.bcast \in BOOLEAN
    BY DEF ServerPackets
  <2>2. p.call[3] \in 1 .. MaxID
    BY <2>1, CallFacts
  <2> QED BY <2>1, <2>2
<1>2. CASE "BUSY" \in sv.bits
  <2> DEFINE o == [sv EXCEPT !.bits = (@ \ {"WAITING"}) \cup {"STUCK"}]
  <2>1. step = [sv |-> o, out |-> <<>>]
    BY <1>2 DEF NewTransaction
  <2>2. /\ o \in ServerStates /\ o.client = sv.client /\ o.age = sv.age /\ o.work = sv.work
        /\ o.running = sv.running /\ o.reply = sv.reply
        /\ o.bits = (sv.bits \ {"WAITING"}) \cup {"STUCK"} /\ SameRequest(o, sv)
    BY DEF ServerStates, SameRequest
  <2> HIDE DEF o
  <2>3. step.sv = o /\ step.out = <<>>
    BY <2>1
  <2> QED BY <1>2, <2>2, <2>3
<1>3. CASE "BUSY" \notin sv.bits
  <2> DEFINE o == [sv EXCEPT !.bits = {"BUSY"}, !.id = p.call[3],
                             !.req = p.call, !.bcast = p.bcast,
                             !.close = p.type = "CLOSE"]
             out == IF p.plsAck THEN <<Ack(s, p.call[3])>> ELSE <<>>
  <2>1. step = [sv |-> o, out |-> out]
    BY <1>3 DEF NewTransaction, ID
  <2>2. /\ o \in ServerStates /\ o.client = sv.client /\ o.age = sv.age /\ o.work = sv.work
        /\ o.running = sv.running /\ o.reply = sv.reply
        /\ o.bits = {"BUSY"} /\ o.id = p.call[3] /\ o.req = p.call
        /\ o.bcast = p.bcast /\ (o.close <=> p.type = "CLOSE")
    BY <1>1 DEF ServerStates, NoneOr
  <2>3. out = <<>> \/ out = <<Ack(s, p.call[3])>>
    OBVIOUS
  <2> HIDE DEF o, out
  <2>4. step.sv = o /\ step.out = out
    BY <2>1
  <2> QED BY <1>3, <2>2, <2>3, <2>4
<1> QED BY <1>2, <1>3

LEMMA CurrentTransactionFacts ==
    ASSUME RpcTransportAssumption,
           NEW s \in Slots, NEW sv \in ServerStates, NEW p \in ServerPackets, NEW step,
           step = CurrentTransaction(s, sv, p)
    PROVE  /\ step.sv \in ServerStates
           /\ step.sv.client = sv.client /\ step.sv.age = sv.age /\ step.sv.work = sv.work
           /\ step.sv.running = sv.running /\ SameRequest(step.sv, sv)
           /\ \/ /\ "NO_REPLY" \in sv.bits /\ step.sv.bits = sv.bits \cup {"FREE"}
                 /\ step.out = <<>>
              \/ /\ p.type = "CLOSE" /\ step.sv.bits = {"FREE"} /\ step.out = <<>>
              \/ /\ p.type = "REQUEST" /\ sv.bits = {"BUSY"} /\ step.sv = sv
                 /\ step.out = <<Ack(s, sv.req[3])>>
              \/ /\ p.type = "REQUEST" /\ sv.bits = {"WAITING"} /\ step.sv = sv
                 /\ step.out = <<>> \/ (sv.reply \in Replies /\ step.out = <<Reply(s, sv)>>)
              \/ /\ p.type = "REQUEST" /\ "NO_REPLY" \notin sv.bits
                 /\ sv.bits # {"BUSY"} /\ sv.bits # {"WAITING"}
                 /\ step.sv.bits = {"FREE"} /\ step.out = <<>>
<1>0. p.type \in {"REQUEST", "CLOSE"}
  BY DEF ServerPackets
<1>1. CASE "NO_REPLY" \in sv.bits
  <2> DEFINE o == [sv EXCEPT !.bits = @ \cup {"FREE"}]
  <2>1. step = [sv |-> o, out |-> <<>>]
    BY <1>1 DEF CurrentTransaction
  <2>2. /\ o \in ServerStates /\ o.client = sv.client /\ o.age = sv.age /\ o.work = sv.work
        /\ o.running = sv.running /\ o.bits = sv.bits \cup {"FREE"} /\ SameRequest(o, sv)
    BY DEF ServerStates, SameRequest
  <2> HIDE DEF o
  <2>3. step.sv = o /\ step.out = <<>>
    BY <2>1
  <2> QED BY <1>1, <2>2, <2>3
<1>2. CASE "NO_REPLY" \notin sv.bits /\ p.type = "CLOSE"
  <2> DEFINE o == [sv EXCEPT !.bits = {"FREE"}]
  <2>1. step = [sv |-> o, out |-> <<>>]
    BY <1>2 DEF CurrentTransaction
  <2>2. /\ o \in ServerStates /\ o.client = sv.client /\ o.age = sv.age /\ o.work = sv.work
        /\ o.running = sv.running /\ o.bits = {"FREE"} /\ SameRequest(o, sv)
    BY DEF ServerStates, SameRequest
  <2> HIDE DEF o
  <2>3. step.sv = o /\ step.out = <<>>
    BY <2>1
  <2> QED BY <1>2, <2>2, <2>3
<1>3. CASE "NO_REPLY" \notin sv.bits /\ p.type # "CLOSE" /\ sv.bits = {"BUSY"}
  <2>1. step = [sv |-> sv, out |-> <<Ack(s, sv.req[3])>>]
    BY <1>3 DEF CurrentTransaction, ID
  <2>2. step.sv = sv /\ step.out = <<Ack(s, sv.req[3])>>
    BY <2>1
  <2> QED BY <1>0, <1>3, <2>2 DEF SameRequest
<1>4. CASE "NO_REPLY" \notin sv.bits /\ p.type # "CLOSE" /\ sv.bits = {"WAITING"}
  <2> DEFINE out == IF sv.reply = None THEN <<>> ELSE <<Reply(s, sv)>>
  <2>1. step = [sv |-> sv, out |-> out]
    BY <1>4 DEF CurrentTransaction
  <2>2. out = <<>> \/ (sv.reply \in Replies /\ out = <<Reply(s, sv)>>)
    BY DEF ServerStates, NoneOr
  <2> HIDE DEF out
  <2>3. step.sv = sv /\ step.out = out
    BY <2>1
  <2> QED BY <1>0, <1>4, <2>2, <2>3 DEF SameRequest
<1>5. CASE /\ "NO_REPLY" \notin sv.bits /\ p.type # "CLOSE"
           /\ sv.bits # {"BUSY"} /\ sv.bits # {"WAITING"}
  <2> DEFINE o == [sv EXCEPT !.bits = {"FREE"}, !.reply = ResetID(@)]
  <2>1. step = [sv |-> o, out |-> <<>>]
    BY <1>5 DEF CurrentTransaction
  <2>2. ResetID(sv.reply) \in NoneOr(Replies)
    <3>1. sv.reply = None \/ sv.reply \in Replies
      BY DEF ServerStates, NoneOr
    <3>2. sv.reply \in Replies => [sv.reply EXCEPT !.id = 0] \in Replies
      BY DEF Replies, RpcTransportAssumption
    <3> QED BY <3>1, <3>2 DEF ResetID, NoneOr
  <2>3. /\ o \in ServerStates /\ o.client = sv.client /\ o.age = sv.age /\ o.work = sv.work
        /\ o.running = sv.running /\ o.bits = {"FREE"} /\ SameRequest(o, sv)
    BY <2>2 DEF ServerStates, SameRequest
  <2> HIDE DEF o
  <2>4. step.sv = o /\ step.out = <<>>
    BY <2>1
  <2> QED BY <1>0, <1>5, <2>3, <2>4
<1> QED BY <1>1, <1>2, <1>3, <1>4, <1>5

(* The dispatcher handles packet p of client c and leaves process s in     *)
(* state o.                                                                *)
Answered(c, x) == toClient' = toClient \/ toClient' = Enqueue(toClient, c, x)

DispatchStuck(p, s, o) ==
    /\ srv[s].id # p.call[3] /\ srv[s].bits = {"BUSY"} /\ o.bits = {"BUSY", "STUCK"}
    /\ SameRequest(o, srv[s]) /\ o.reply = srv[s].reply /\ toClient' = toClient

DispatchNew(c, p, s, o) ==
    /\ srv[s].id # p.call[3] /\ "BUSY" \notin srv[s].bits /\ o.bits = {"BUSY"}
    /\ o.id = p.call[3] /\ o.req = p.call /\ o.bcast = p.bcast
    /\ o.close <=> p.type = "CLOSE"
    /\ o.reply = srv[s].reply /\ Answered(c, Ack(s, p.call[3]))

DispatchFree(p, s, o) ==
    /\ srv[s].id = p.call[3] /\ SameRequest(o, srv[s]) /\ toClient' = toClient
    /\ \/ "NO_REPLY" \in srv[s].bits /\ o.bits = (srv[s].bits \ {"AGING"}) \cup {"FREE"}
       \/ p.type = "CLOSE" /\ o.bits = {"FREE"}
       \/ srv[s].bits \subseteq {"FREE", "AGING"} /\ o.bits = {"FREE"}

DispatchAck(c, p, s, o) ==
    /\ srv[s].id = p.call[3] /\ SameRequest(o, srv[s]) /\ o.reply = srv[s].reply
    /\ p.type = "REQUEST" /\ srv[s].bits = {"BUSY"} /\ o.bits = {"BUSY"}
    /\ Answered(c, Ack(s, p.call[3]))

DispatchReply(c, p, s, o) ==
    /\ srv[s].id = p.call[3] /\ SameRequest(o, srv[s]) /\ o.reply = srv[s].reply
    /\ p.type = "REQUEST" /\ "WAITING" \in srv[s].bits
    /\ srv[s].bits \subseteq {"FREE", "AGING", "WAITING"} /\ o.bits = {"WAITING"}
    /\ toClient' = toClient \/ (o.reply \in Replies /\ toClient' = Enqueue(toClient, c, Reply(s, o)))

Dispatches(c, p, s, o) ==
    /\ s \in Slots /\ Picked(s, c) /\ o \in ServerStates
    /\ srv' = [srv EXCEPT ![s] = o]
    /\ confused' = IF Confuses(srv[s], p) THEN confused \cup ({c} \cap Stable) ELSE confused
    /\ o.client = c /\ o.age = 0 /\ o.work = srv[s].work /\ o.running = srv[s].running
    /\ \/ DispatchStuck(p, s, o) \/ DispatchNew(c, p, s, o) \/ DispatchFree(p, s, o)
       \/ DispatchAck(c, p, s, o) \/ DispatchReply(c, p, s, o)

NoServer(c, p) ==
    /\ srv' = srv /\ confused' = confused
    /\ Answered(c, [type |-> "NACK", id |-> p.call[3], hint |-> 0, result |-> None])

LEMMA DispatchCases ==
    ASSUME RpcTransportAssumption, NoneAssumption, Types, NEW c \in Clients, RpcServerDispatch(c)
    PROVE  /\ toServer[c] # <<>> /\ toServer' = [toServer EXCEPT ![c] = Tail(@)]
           /\ UNCHANGED <<rpcID, boot, chan, outcome, knownBoot, executions>>
           /\ SentOK(Head(toServer[c]), c, rpcID)
           /\ \/ NoServer(c, Head(toServer[c]))
              \/ \E s \in Slots, o \in ServerStates : Dispatches(c, Head(toServer[c]), s, o)
<1> DEFINE p == Head(toServer[c])
           s == RpcServerAlloc(c, p.hint)
           sv == [srv[s] EXCEPT !.bits = @ \ {"FREE", "AGING"}, !.client = c, !.age = 0]
           step == IF sv.id # ID(p.call) THEN NewTransaction(s, sv, p)
                   ELSE CurrentTransaction(s, sv, p)
           nack == [type |-> "NACK", id |-> p.call[3], hint |-> 0, result |-> None]
<1>1. /\ toServer[c] # <<>>
      /\ toServer' = [toServer EXCEPT ![c] = Tail(@)]
      /\ IF s = None
         THEN /\ toClient' = IF NegAcks THEN Enqueue(toClient, c, nack) ELSE toClient
              /\ UNCHANGED <<srv, confused>>
         ELSE /\ srv' = [srv EXCEPT ![s] = step.sv]
              /\ confused' = IF Confuses(srv[s], p) THEN confused \cup ({c} \cap Stable)
                             ELSE confused
              /\ toClient' = IF step.out = <<>> THEN toClient
                             ELSE Enqueue(toClient, c, Head(step.out))
      /\ UNCHANGED <<rpcID, boot, chan, outcome, knownBoot, executions>>
  BY DEF RpcServerDispatch, ID
<1>2. SentOK(p, c, rpcID)
  BY <1>1, TakeFromServerQueue, SameIDs
<1>3. CASE s = None
  <2>1. NoServer(c, p)
    BY <1>1, <1>3 DEF NoServer, Answered
  <2> QED BY <1>1, <1>2, <2>1
<1>4. CASE s # None
  <2>1. Picked(s, c)
    BY <1>4, AllocPicks
  <2>2. s \in Slots /\ "STUCK" \notin srv[s].bits
    BY <2>1 DEF Picked, Usable
  <2>3. /\ srv[s] \in ServerStates /\ ServerOK(srv[s], rpcID)
        /\ p \in ServerPackets /\ p.call[3] \in 1 .. MaxID /\ p.type \in {"REQUEST", "CLOSE"}
    <3>1. p \in ServerPackets /\ p.call \in Calls /\ p.type \in {"REQUEST", "CLOSE"}
      BY <1>2 DEF SentOK, ServerPackets
    <3> HIDE DEF s, p
    <3>2. srv[s] \in ServerStates /\ ServerOK(srv[s], rpcID)
      BY <2>2 DEF Types, BaseTypes
    <3> QED BY <3>1, <3>2, CallFacts
  <2> HIDE DEF s, p
  <2>4. /\ sv \in ServerStates /\ sv.bits = srv[s].bits \ {"FREE", "AGING"} /\ sv.client = c
        /\ sv.age = 0 /\ sv.work = srv[s].work /\ sv.running = srv[s].running
        /\ sv.reply = srv[s].reply /\ SameRequest(sv, srv[s])
    <3>1. 0 \in 0 .. MaxServerAge + 1
      BY DEF RpcTransportAssumption
    <3> QED BY <2>3, <3>1 DEF ServerStates, SameRequest, NoneOr
  <2> HIDE DEF sv
  <2>5. /\ sv.id = srv[s].id
        /\ "BUSY" \in srv[s].bits => srv[s].bits = {"BUSY"} /\ sv.bits = {"BUSY"}
        /\ sv.bits \subseteq {"BUSY", "WAITING", "NO_REPLY"} /\ srv[s].bits \subseteq sv.bits \cup {"FREE", "AGING"}
    BY <2>2, <2>3, <2>4 DEF SameRequest, ServerOK, ServerStates
  <2>6. CASE sv.id # p.call[3]
    <3>1. step = NewTransaction(s, sv, p)
      BY <2>6 DEF ID
    <3> HIDE DEF step
    <3>2. /\ step.sv \in ServerStates
          /\ step.sv.client = c /\ step.sv.age = 0 /\ step.sv.work = srv[s].work
          /\ step.sv.running = srv[s].running /\ step.sv.reply = srv[s].reply
          /\ "BUSY" \in sv.bits =>
                /\ step.sv.bits = (sv.bits \ {"WAITING"}) \cup {"STUCK"}
                /\ SameRequest(step.sv, sv) /\ step.out = <<>>
          /\ "BUSY" \notin sv.bits =>
                /\ step.sv.bits = {"BUSY"} /\ step.sv.id = p.call[3] /\ step.sv.req = p.call
                /\ step.sv.bcast = p.bcast /\ (step.sv.close <=> p.type = "CLOSE")
                /\ step.out = <<>> \/ step.out = <<Ack(s, p.call[3])>>
      BY <2>2, <2>3, <2>4, <3>1, NewTransactionFacts
    <3>3. CASE "BUSY" \in sv.bits
      <4>1. DispatchStuck(p, s, step.sv)
        BY <1>1, <1>4, <2>4, <2>5, <2>6, <3>2, <3>3 DEF DispatchStuck, SameRequest
      <4>2. Dispatches(c, p, s, step.sv)
        BY <1>1, <1>4, <2>1, <2>2, <3>2, <4>1 DEF Dispatches
      <4>3. \E t \in Slots, o \in ServerStates : Dispatches(c, p, t, o)
        BY <2>2, <3>2, <4>2, Zenon
      <4> QED BY <1>1, <1>2, <4>3 DEF p
    <3>4. CASE "BUSY" \notin sv.bits
      <4>1. Answered(c, Ack(s, p.call[3]))
        BY <1>1, <1>4, <3>2, <3>4 DEF Answered
      <4>2. DispatchNew(c, p, s, step.sv)
        BY <2>4, <2>5, <2>6, <3>2, <3>4, <4>1 DEF DispatchNew
      <4>3. Dispatches(c, p, s, step.sv)
        BY <1>1, <1>4, <2>1, <2>2, <3>2, <4>2 DEF Dispatches
      <4>4. \E t \in Slots, o \in ServerStates : Dispatches(c, p, t, o)
        BY <2>2, <3>2, <4>3, Zenon
      <4> QED BY <1>1, <1>2, <4>4 DEF p
    <3> QED BY <3>3, <3>4
  <2>7. CASE sv.id = p.call[3]
    <3>1. step = CurrentTransaction(s, sv, p)
      BY <2>7 DEF ID
    <3> HIDE DEF step
    <3>2. /\ step.sv \in ServerStates
          /\ step.sv.client = c /\ step.sv.age = 0 /\ step.sv.work = srv[s].work
          /\ step.sv.running = srv[s].running /\ SameRequest(step.sv, sv)
          /\ \/ /\ "NO_REPLY" \in sv.bits /\ step.sv.bits = sv.bits \cup {"FREE"}
                /\ step.out = <<>>
             \/ /\ p.type = "CLOSE" /\ step.sv.bits = {"FREE"} /\ step.out = <<>>
             \/ /\ p.type = "REQUEST" /\ sv.bits = {"BUSY"} /\ step.sv = sv
                /\ step.out = <<Ack(s, sv.req[3])>>
             \/ /\ p.type = "REQUEST" /\ sv.bits = {"WAITING"} /\ step.sv = sv
                /\ step.out = <<>> \/ (sv.reply \in Replies /\ step.out = <<Reply(s, sv)>>)
             \/ /\ p.type = "REQUEST" /\ "NO_REPLY" \notin sv.bits
                /\ sv.bits # {"BUSY"} /\ sv.bits # {"WAITING"}
                /\ step.sv.bits = {"FREE"} /\ step.out = <<>>
      BY <2>2, <2>3, <2>4, <3>1, CurrentTransactionFacts
    <3>3. SameRequest(step.sv, srv[s]) /\ srv[s].id = p.call[3]
      BY <2>4, <2>5, <2>7, <3>2 DEF SameRequest
    <3>4. \/ DispatchFree(p, s, step.sv) \/ DispatchAck(c, p, s, step.sv)
          \/ DispatchReply(c, p, s, step.sv)
      <4>1. CASE /\ "NO_REPLY" \in sv.bits /\ step.sv.bits = sv.bits \cup {"FREE"}
                 /\ step.out = <<>>
        <5>1. toClient' = toClient
          BY <1>1, <1>4, <4>1
        <5>2. "NO_REPLY" \in srv[s].bits /\ step.sv.bits = (srv[s].bits \ {"AGING"}) \cup {"FREE"}
          BY <2>4, <4>1
        <5> QED BY <3>3, <5>1, <5>2 DEF DispatchFree
      <4>2. CASE p.type = "CLOSE" /\ step.sv.bits = {"FREE"} /\ step.out = <<>>
        BY <1>1, <1>4, <3>3, <4>2 DEF DispatchFree
      <4>3. CASE /\ p.type = "REQUEST" /\ sv.bits = {"BUSY"} /\ step.sv = sv
                 /\ step.out = <<Ack(s, sv.req[3])>>
        <5>1. srv[s].bits = {"BUSY"} /\ step.sv.reply = srv[s].reply /\ step.sv.bits = {"BUSY"}
          BY <2>4, <2>5, <4>3
        <5>2. sv.req[3] = p.call[3]
          BY <2>3, <2>4, <2>5, <2>7 DEF SameRequest, ServerOK
        <5>3. Answered(c, Ack(s, p.call[3]))
          BY <1>1, <1>4, <4>3, <5>2 DEF Answered
        <5> QED BY <3>3, <4>3, <5>1, <5>3 DEF DispatchAck
      <4>4. CASE /\ p.type = "REQUEST" /\ sv.bits = {"WAITING"} /\ step.sv = sv
                 /\ step.out = <<>> \/ (sv.reply \in Replies /\ step.out = <<Reply(s, sv)>>)
        <5>1. /\ "WAITING" \in srv[s].bits /\ srv[s].bits \subseteq {"FREE", "AGING", "WAITING"}
              /\ step.sv.bits = {"WAITING"} /\ step.sv.reply = srv[s].reply
          BY <2>4, <2>5, <4>4
        <5>2. toClient' = toClient \/ (step.sv.reply \in Replies /\ toClient' = Enqueue(toClient, c, Reply(s, step.sv)))
          BY <1>1, <1>4, <4>4
        <5> QED BY <3>3, <4>4, <5>1, <5>2 DEF DispatchReply
      <4>5. CASE /\ p.type = "REQUEST" /\ "NO_REPLY" \notin sv.bits
                 /\ sv.bits # {"BUSY"} /\ sv.bits # {"WAITING"}
                 /\ step.sv.bits = {"FREE"} /\ step.out = <<>>
        <5>1. toClient' = toClient
          BY <1>1, <1>4, <4>5
        <5>2. sv.bits = {}
          <6>1. "BUSY" \notin sv.bits
            BY <2>4, <2>5, <4>5
          <6> QED BY <2>5, <4>5, <6>1
        <5> QED BY <2>5, <3>3, <4>5, <5>1, <5>2 DEF DispatchFree
      <4> QED BY <3>2, <4>1, <4>2, <4>3, <4>4, <4>5
    <3>5. Dispatches(c, p, s, step.sv)
      BY <1>1, <1>4, <2>1, <2>2, <3>2, <3>4 DEF Dispatches
    <3>6. \E t \in Slots, o \in ServerStates : Dispatches(c, p, t, o)
      BY <2>2, <3>2, <3>5, Zenon
    <3> QED BY <1>1, <1>2, <3>6 DEF p
  <2> QED BY <2>6, <2>7
<1> QED BY <1>3, <1>4

-----------------------------------------------------------------------------
(* The types are kept: the steps of the server.                            *)

LEMMA ServerStepTypes ==
    ASSUME RpcTransportAssumption, Types,
           srv' \in [Slots -> ServerStates], \A t \in Slots : ServerOK(srv'[t], rpcID),
           executions' \in [StableCalls -> 0 .. 2], confused' \subseteq Stable,
           knownBoot' \in [Clients -> 1 .. MaxBoots], \A c \in Stable : knownBoot'[c] = 1,
           ToServerOK(toServer', rpcID), ToClientOK(toClient', rpcID),
           UNCHANGED <<rpcID, boot, chan, outcome>>
    PROVE  Types'
  BY DEF Types, BaseTypes

LEMMA CountTypes ==
    ASSUME Types, NEW s, Count(s)
    PROVE  /\ executions' \in [StableCalls -> 0 .. 2]
           /\ \A k \in StableCalls :
                 executions'[k] = IF k = srv[s].running /\ executions[k] < 2
                                  THEN executions[k] + 1 ELSE executions[k]
<1>1. executions \in [StableCalls -> 0 .. 2]
  BY DEF Types, BaseTypes
<1>2. \A k \in StableCalls : executions[k] \in 0 .. 2
                             /\ (executions[k] < 2 => executions[k] + 1 \in 0 .. 2)
  BY <1>1
<1> QED BY <1>2 DEF Count

(* ServerStart changes the process and marks others of its client stuck.   *)
StartEffect(s, t) ==
    /\ srv'[t] \in ServerStates
    /\ srv'[t].client = srv[t].client /\ srv'[t].age = srv[t].age
    /\ SameRequest(srv'[t], srv[t]) /\ srv'[t].reply = srv[t].reply
    /\ t # s => srv'[t].work = srv[t].work /\ srv'[t].running = srv[t].running
    /\ t = s => srv'[t].work = "run" /\ srv'[t].running = Executed(srv[s])
    /\ \/ srv'[t].bits = srv[t].bits
       \/ /\ srv'[t].bits = srv[t].bits \cup {"STUCK"}
          /\ "BUSY" \in srv[t].bits /\ srv[t].client = srv[s].client
          /\ knownBoot[srv[s].client] # srv[s].req[2]

LEMMA StartFacts ==
    ASSUME RpcTransportAssumption, NoneAssumption, Types, NEW s \in Slots, ServerStart(s)
    PROVE  /\ srv[s].work = "wait" /\ "BUSY" \in srv[s].bits /\ srv[s].id # 0
           /\ srv[s].req \in Calls /\ srv[s].client = srv[s].req[1]
           /\ Executed(srv[s]) \in Results
           /\ Executed(srv[s]) \in StableCalls => ~srv[s].close
           /\ ~srv[s].close => Executed(srv[s]) = srv[s].req
           /\ knownBoot' = [knownBoot EXCEPT ![srv[s].client] = srv[s].req[2]]
           /\ UNCHANGED <<rpcID, boot, chan, outcome, confused, toServer, toClient, executions>>
           /\ DOMAIN srv' = Slots /\ srv' \in [Slots -> ServerStates]
           /\ \A t \in Slots : StartEffect(s, t)
<1> DEFINE c == srv[s].client
           rebooted == knownBoot[c] # srv[s].req[2]
           run == [srv[s] EXCEPT !.bits = @ \ {"NO_REPLY"}, !.work = "run",
                                 !.running = Executed(srv[s])]
           started == [srv EXCEPT ![s].bits = @ \ {"NO_REPLY"}, ![s].work = "run",
                                  ![s].running = Executed(srv[s])]
           stuck(t) == rebooted /\ "BUSY" \in started[t].bits /\ started[t].client = c
<1>1. /\ srv[s].work = "wait" /\ "BUSY" \in srv[s].bits
      /\ knownBoot' = [knownBoot EXCEPT ![c] = srv[s].req[2]]
      /\ srv' = [t \in Slots |-> IF stuck(t) THEN [started[t] EXCEPT !.bits = @ \cup {"STUCK"}]
                                 ELSE started[t]]
      /\ UNCHANGED <<rpcID, boot, chan, outcome, confused, toServer, toClient, executions>>
  BY DEF ServerStart, BootID
<1>2. srv \in [Slots -> ServerStates] /\ \A t \in Slots : srv[t] \in ServerStates /\ ServerOK(srv[t], rpcID)
  BY DEF Types, BaseTypes
<1>3. /\ srv[s].id # 0 /\ srv[s].req \in Calls /\ c = srv[s].req[1]
      /\ srv[s].bits \subseteq {"BUSY", "STUCK"}
  BY <1>1, <1>2 DEF ServerOK
<1>4. /\ Executed(srv[s]) \in Results
      /\ Executed(srv[s]) \in StableCalls => ~srv[s].close
      /\ ~srv[s].close => Executed(srv[s]) = srv[s].req
  <2>1. CASE srv[s].close
    <3>1. Executed(srv[s]) \in Results /\ Executed(srv[s])[3] > MaxID
      BY <1>3, <2>1, ResultFacts DEF Executed
    <3>2. \A k \in StableCalls : k[3] \in 1 .. MaxID
      BY StableFacts
    <3>3. MaxID \in Nat
      BY DEF RpcTransportAssumption
    <3> QED BY <2>1, <3>1, <3>2, <3>3
  <2>2. CASE ~srv[s].close
    BY <1>3, <2>2, ResultFacts DEF Executed
  <2> QED BY <2>1, <2>2
<1>5. started[s] = run /\ \A t \in Slots \ {s} : started[t] = srv[t]
  BY <1>2
<1>6. /\ run \in ServerStates /\ run.client = srv[s].client /\ run.age = srv[s].age
      /\ SameRequest(run, srv[s]) /\ run.reply = srv[s].reply /\ run.work = "run"
      /\ run.running = Executed(srv[s]) /\ run.bits = srv[s].bits
  <2>1. srv[s].bits \ {"NO_REPLY"} = srv[s].bits
    BY <1>3
  <2> DEFINE Run(sv, e) == [sv EXCEPT !.bits = @ \ {"NO_REPLY"}, !.work = "run", !.running = e]
  <2>2. ASSUME NEW sv \in ServerStates, NEW e \in Results
        PROVE  /\ Run(sv, e) \in ServerStates /\ Run(sv, e).client = sv.client
               /\ Run(sv, e).age = sv.age /\ SameRequest(Run(sv, e), sv)
               /\ Run(sv, e).reply = sv.reply /\ Run(sv, e).work = "run"
               /\ Run(sv, e).running = e /\ Run(sv, e).bits = sv.bits \ {"NO_REPLY"}
    BY DEF ServerStates, SameRequest, NoneOr
  <2>3. srv[s] \in ServerStates
    BY <1>2
  <2>4. run = Run(srv[s], Executed(srv[s]))
    OBVIOUS
  <2> HIDE DEF run, Run
  <2> QED BY <1>4, <2>1, <2>2, <2>3, <2>4
<1>7. ASSUME NEW sv \in ServerStates
      PROVE  /\ [sv EXCEPT !.bits = @ \cup {"STUCK"}] \in ServerStates
             /\ [sv EXCEPT !.bits = @ \cup {"STUCK"}].client = sv.client
             /\ [sv EXCEPT !.bits = @ \cup {"STUCK"}].age = sv.age
             /\ SameRequest([sv EXCEPT !.bits = @ \cup {"STUCK"}], sv)
             /\ [sv EXCEPT !.bits = @ \cup {"STUCK"}].reply = sv.reply
             /\ [sv EXCEPT !.bits = @ \cup {"STUCK"}].work = sv.work
             /\ [sv EXCEPT !.bits = @ \cup {"STUCK"}].running = sv.running
             /\ [sv EXCEPT !.bits = @ \cup {"STUCK"}].bits = sv.bits \cup {"STUCK"}
  BY DEF ServerStates, SameRequest
<1> HIDE DEF run, started
<1>8. \A t \in Slots :
         /\ started[t] \in ServerStates
         /\ started[t].client = srv[t].client /\ started[t].age = srv[t].age
         /\ SameRequest(started[t], srv[t]) /\ started[t].reply = srv[t].reply
         /\ t # s => started[t].work = srv[t].work /\ started[t].running = srv[t].running
         /\ t = s => started[t].work = "run" /\ started[t].running = Executed(srv[s])
         /\ started[t].bits = srv[t].bits
  <2>1. \A t \in Slots \ {s} : SameRequest(srv[t], srv[t])
    BY DEF SameRequest
  <2> QED BY <1>2, <1>5, <1>6, <2>1
<1>9. ASSUME NEW t \in Slots PROVE StartEffect(s, t)
  <2> DEFINE sv == started[t]
             o == [sv EXCEPT !.bits = @ \cup {"STUCK"}]
  <2>1. /\ sv \in ServerStates
        /\ sv.client = srv[t].client /\ sv.age = srv[t].age
        /\ SameRequest(sv, srv[t]) /\ sv.reply = srv[t].reply
        /\ t # s => sv.work = srv[t].work /\ sv.running = srv[t].running
        /\ t = s => sv.work = "run" /\ sv.running = Executed(srv[s])
        /\ sv.bits = srv[t].bits
    BY <1>8
  <2>2. /\ o \in ServerStates /\ o.client = sv.client /\ o.age = sv.age
        /\ SameRequest(o, sv) /\ o.reply = sv.reply /\ o.work = sv.work
        /\ o.running = sv.running /\ o.bits = sv.bits \cup {"STUCK"}
    BY <1>7, <2>1
  <2>3. srv'[t] = IF stuck(t) THEN o ELSE sv
    BY <1>1
  <2>4. stuck(t) => /\ "BUSY" \in srv[t].bits /\ srv[t].client = srv[s].client
                    /\ knownBoot[srv[s].client] # srv[s].req[2]
    BY <2>1
  <2> HIDE DEF sv, o, stuck
  <2>5. CASE stuck(t)
    BY <2>1, <2>2, <2>3, <2>4, <2>5 DEF StartEffect, SameRequest
  <2>6. CASE ~stuck(t)
    BY <2>1, <2>3, <2>6 DEF StartEffect
  <2> QED BY <2>5, <2>6
<1>10. DOMAIN srv' = Slots /\ srv' \in [Slots -> ServerStates]
  <2>1. \A t \in Slots : srv'[t] \in ServerStates
    BY <1>9 DEF StartEffect
  <2> HIDE DEF stuck, c
  <2> QED BY <1>1, <2>1
<1> QED BY <1>1, <1>3, <1>4, <1>9, <1>10

LEMMA ServerStartTypes ==
    ASSUME RpcTransportAssumption, NoneAssumption, Types, NEW s \in Slots, ServerStart(s)
    PROVE  Types'
<1>1. /\ srv[s].req \in Calls /\ srv[s].id # 0 /\ srv[s].client = srv[s].req[1]
      /\ Executed(srv[s]) \in Results /\ "BUSY" \in srv[s].bits
      /\ Executed(srv[s]) \in StableCalls => Executed(srv[s]) = srv[s].req
      /\ knownBoot' = [knownBoot EXCEPT ![srv[s].client] = srv[s].req[2]]
      /\ UNCHANGED <<rpcID, boot, chan, outcome, confused, toServer, toClient, executions>>
      /\ srv' \in [Slots -> ServerStates]
      /\ \A t \in Slots : StartEffect(s, t)
  BY StartFacts, Zenon
<1>2. /\ \A t \in Slots : ServerOK(srv[t], rpcID)
      /\ knownBoot \in [Clients -> 1 .. MaxBoots] /\ \A c \in Stable : knownBoot[c] = 1
      /\ executions \in [StableCalls -> 0 .. 2] /\ confused \subseteq Stable
      /\ ToServerOK(toServer, rpcID) /\ ToClientOK(toClient, rpcID)
  BY DEF Types, BaseTypes
<1>3. srv[s].req[1] \in Stable => srv[s].req[2] = 1 /\ srv[s].req[3] < rpcID[srv[s].req[1]]
  BY <1>1, <1>2 DEF ServerOK
<1>4. knownBoot' \in [Clients -> 1 .. MaxBoots] /\ \A c \in Stable : knownBoot'[c] = 1
  BY <1>1, <1>2, <1>3, CallFacts, StableFacts
<1>5. ASSUME NEW t \in Slots PROVE ServerOK(srv'[t], rpcID)
  <2>1. StartEffect(s, t) /\ ServerOK(srv[t], rpcID)
    BY <1>1, <1>2
  <2>2. t = s => srv[t].id # 0 /\ "BUSY" \in srv[t].bits
    BY <1>1
  <2>3. "WAITING" \in srv'[t].bits => srv'[t].work = "wait"
    BY <2>1, <2>2 DEF StartEffect, ServerOK
  <2>4. srv'[t].work # "wait" =>
          /\ srv'[t].running \in Results
          /\ srv'[t].running \in StableCalls => srv'[t].running[3] < rpcID[srv'[t].running[1]]
    <3>1. CASE t = s
      BY <1>1, <1>3, <2>1, <3>1, StableFacts DEF StartEffect
    <3>2. CASE t # s
      BY <2>1, <3>2 DEF StartEffect, ServerOK
    <3> QED BY <3>1, <3>2
  <2>5. /\ srv'[t] \in ServerStates
        /\ srv'[t].id = 0 => /\ srv'[t].client = None /\ srv'[t].req = None /\ srv'[t].bits = {"FREE"}
                             /\ srv'[t].work = "wait"
        /\ srv'[t].id # 0 => /\ srv'[t].client \in Clients /\ srv'[t].req \in Calls
                             /\ srv'[t].req[3] = srv'[t].id
                             /\ srv'[t].req[1] \in Stable => srv'[t].req[2] = 1 /\ srv'[t].id < rpcID[srv'[t].req[1]]
        /\ srv'[t].bcast => srv'[t].req \in Calls /\ srv'[t].req[1] \in Broadcasters
        /\ "BUSY" \in srv'[t].bits => srv'[t].bits \subseteq {"BUSY", "STUCK"} /\ srv'[t].req[1] = srv'[t].client
        /\ "AGING" \in srv'[t].bits => srv'[t].age < MaxServerAge \/ srv'[t].age = 1
    BY <2>1, <2>2 DEF StartEffect, SameRequest, ServerOK
  <2> QED BY <2>3, <2>4, <2>5 DEF ServerOK
<1> QED BY <1>1, <1>2, <1>4, <1>5, ServerStepTypes

(* A step that changes one process.                                        *)
Only(s, o) == srv' = [srv EXCEPT ![s] = o]

LEMMA OnlyFacts ==
    ASSUME Types, NEW s \in Slots, NEW o, Only(s, o)
    PROVE  /\ srv'[s] = o /\ \A t \in Slots \ {s} : srv'[t] = srv[t]
           /\ o \in ServerStates => srv' \in [Slots -> ServerStates]
           /\ ServerOK(o, rpcID) => \A t \in Slots : ServerOK(srv'[t], rpcID)
<1>1. srv \in [Slots -> ServerStates] /\ \A t \in Slots : ServerOK(srv[t], rpcID)
  BY DEF Types, BaseTypes
<1>2. srv'[s] = o /\ \A t \in Slots \ {s} : srv'[t] = srv[t]
  BY <1>1 DEF Only
<1>3. o \in ServerStates => srv' \in [Slots -> ServerStates]
  BY <1>1 DEF Only
<1> QED BY <1>1, <1>2, <1>3

LEMMA RunningFacts ==
    ASSUME RpcTransportAssumption, NoneAssumption, Types, NEW s \in Slots, srv[s].work # "wait"
    PROVE  /\ srv[s] \in ServerStates /\ ServerOK(srv[s], rpcID)
           /\ srv[s].id \in 1 .. MaxID /\ srv[s].req \in Calls /\ srv[s].req[3] = srv[s].id
           /\ srv[s].req[1] \in Clients /\ srv[s].client \in Clients
           /\ srv[s].running \in Results /\ "WAITING" \notin srv[s].bits
<1>1. srv[s] \in ServerStates /\ ServerOK(srv[s], rpcID)
  BY DEF Types, BaseTypes
<1>2. srv[s].id \in 0 .. MaxID /\ srv[s].id # 0 /\ MaxID \in Nat
  BY <1>1 DEF ServerOK, ServerStates, RpcTransportAssumption
<1>3. /\ srv[s].req \in Calls /\ srv[s].client \in Clients /\ srv[s].req[3] = srv[s].id
      /\ srv[s].running \in Results /\ "WAITING" \notin srv[s].bits
  BY <1>1, <1>2 DEF ServerOK
<1> QED BY <1>1, <1>2, <1>3, CallFacts

LEMMA ServerReplyFacts ==
    ASSUME RpcTransportAssumption, NoneAssumption, Types, NEW s \in Slots, ServerReply(s)
    PROVE  /\ srv[s].work = "run" /\ Count(s)
           /\ Only(s, srv'[s]) /\ srv'[s] \in ServerStates
           /\ srv'[s].bits = srv[s].bits /\ SameRequest(srv'[s], srv[s])
           /\ srv'[s].client = srv[s].client /\ srv'[s].age = srv[s].age
           /\ srv'[s].work = "done" /\ srv'[s].running = srv[s].running
           /\ srv'[s].reply = [id |-> srv[s].req[3], result |-> srv[s].running]
           /\ toClient' = Enqueue(toClient, srv[s].req[1], Reply(s, srv'[s]))
           /\ Reply(s, srv'[s]) = [type |-> "REPLY", id |-> srv[s].req[3], hint |-> s,
                                   result |-> srv[s].running]
           /\ UNCHANGED <<rpcID, boot, chan, outcome, confused, knownBoot, toServer>>
<1> DEFINE r == [id |-> srv[s].req[3], result |-> srv[s].running]
           o == [srv[s] EXCEPT !.work = "done", !.reply = r]
<1>1. /\ srv[s].work = "run" /\ Only(s, o) /\ Count(s)
      /\ toClient' = Enqueue(toClient, srv[s].req[1], Reply(s, o))
      /\ UNCHANGED <<rpcID, boot, chan, outcome, confused, knownBoot, toServer>>
  BY DEF ServerReply, Only, ID
<1>2. /\ srv[s] \in ServerStates /\ srv[s].req[3] \in 0 .. MaxID /\ srv[s].running \in Results
  BY <1>1, RunningFacts
<1>3. r \in NoneOr(Replies) /\ r.id = srv[s].req[3] /\ r.result = srv[s].running
  BY <1>2 DEF Replies, NoneOr
<1> HIDE DEF r
<1>4. /\ o \in ServerStates /\ o.bits = srv[s].bits /\ SameRequest(o, srv[s])
      /\ o.client = srv[s].client /\ o.age = srv[s].age
      /\ o.work = "done" /\ o.running = srv[s].running /\ o.reply = r
  BY <1>2, <1>3 DEF ServerStates, SameRequest
<1> HIDE DEF o
<1>5. srv'[s] = o
  BY <1>1, OnlyFacts
<1> QED BY <1>1, <1>3, <1>4, <1>5 DEF Reply, r

LEMMA ServerReplyTypes ==
    ASSUME RpcTransportAssumption, NoneAssumption, Types, NEW s \in Slots, ServerReply(s)
    PROVE  Types'
<1> DEFINE o == srv'[s]
<1>1. /\ srv[s].work = "run" /\ Count(s) /\ Only(s, o) /\ o \in ServerStates
      /\ o.bits = srv[s].bits /\ SameRequest(o, srv[s])
      /\ o.client = srv[s].client /\ o.age = srv[s].age
      /\ o.work = "done" /\ o.running = srv[s].running
      /\ toClient' = Enqueue(toClient, srv[s].req[1], Reply(s, o))
      /\ Reply(s, o) = [type |-> "REPLY", id |-> srv[s].req[3], hint |-> s, result |-> srv[s].running]
      /\ UNCHANGED <<rpcID, boot, chan, outcome, confused, knownBoot, toServer>>
  BY ServerReplyFacts, Zenon
<1>2. /\ ServerOK(srv[s], rpcID) /\ srv[s].id \in 1 .. MaxID /\ srv[s].req[3] = srv[s].id
      /\ srv[s].req[1] \in Clients /\ srv[s].running \in Results /\ "WAITING" \notin srv[s].bits
  BY <1>1, RunningFacts
<1> HIDE DEF o
<1>3. ServerOK(o, rpcID)
  BY <1>1, <1>2 DEF ServerOK, SameRequest
<1>4. AnswerOK(Reply(s, o), srv[s].req[1], rpcID')
  BY <1>1, <1>2 DEF AnswerOK, ClientPackets, NoneOr
<1>5. ToClientOK(toClient', rpcID)
  BY <1>1, <1>2, <1>4, SameIDs, SendToClient
<1> QED BY <1>1, <1>3, <1>5, OnlyFacts, CountTypes, ServerStepTypes DEF Types, BaseTypes

LEMMA ServerNoReplyFacts ==
    ASSUME RpcTransportAssumption, NoneAssumption, Types, NEW s \in Slots, ServerNoReply(s)
    PROVE  /\ srv[s].work = "run" /\ srv[s].bcast /\ Count(s)
           /\ Only(s, srv'[s]) /\ srv'[s] \in ServerStates
           /\ srv'[s].bits = srv[s].bits /\ SameRequest(srv'[s], srv[s])
           /\ srv'[s].client = srv[s].client /\ srv'[s].age = srv[s].age
           /\ srv'[s].work = "noReply" /\ srv'[s].running = srv[s].running
           /\ srv'[s].reply = srv[s].reply
           /\ UNCHANGED <<rpcID, boot, chan, outcome, confused, knownBoot, toServer, toClient>>
<1> DEFINE o == [srv[s] EXCEPT !.work = "noReply"]
<1>1. /\ srv[s].work = "run" /\ srv[s].bcast /\ Count(s) /\ Only(s, o)
      /\ UNCHANGED <<rpcID, boot, chan, outcome, confused, knownBoot, toServer, toClient>>
  <2>1. srv \in [Slots -> ServerStates]
    BY DEF Types, BaseTypes
  <2>2. srv' = [srv EXCEPT ![s].work = "noReply"]
    BY DEF ServerNoReply
  <2>3. Only(s, o)
    BY <2>1, <2>2 DEF Only
  <2> QED BY <2>3 DEF ServerNoReply
<1>2. srv[s] \in ServerStates
  BY <1>1, RunningFacts
<1>3. /\ o \in ServerStates /\ o.bits = srv[s].bits /\ SameRequest(o, srv[s])
      /\ o.client = srv[s].client /\ o.age = srv[s].age
      /\ o.work = "noReply" /\ o.running = srv[s].running /\ o.reply = srv[s].reply
  BY <1>2 DEF ServerStates, SameRequest
<1> HIDE DEF o
<1>4. srv'[s] = o
  BY <1>1, OnlyFacts
<1> QED BY <1>1, <1>3, <1>4

LEMMA ServerNoReplyTypes ==
    ASSUME RpcTransportAssumption, NoneAssumption, Types, NEW s \in Slots, ServerNoReply(s)
    PROVE  Types'
<1> DEFINE o == srv'[s]
<1>1. /\ srv[s].work = "run" /\ Count(s) /\ Only(s, o) /\ o \in ServerStates
      /\ o.bits = srv[s].bits /\ SameRequest(o, srv[s])
      /\ o.client = srv[s].client /\ o.age = srv[s].age
      /\ o.work = "noReply" /\ o.running = srv[s].running
      /\ UNCHANGED <<rpcID, boot, chan, outcome, confused, knownBoot, toServer, toClient>>
  BY ServerNoReplyFacts, Zenon
<1>2. /\ ServerOK(srv[s], rpcID) /\ srv[s].id \in 1 .. MaxID
      /\ srv[s].running \in Results /\ "WAITING" \notin srv[s].bits
  BY <1>1, RunningFacts
<1> HIDE DEF o
<1>3. ServerOK(o, rpcID)
  BY <1>1, <1>2 DEF ServerOK, SameRequest
<1> QED BY <1>1, <1>3, OnlyFacts, CountTypes, ServerStepTypes DEF Types, BaseTypes

LEMMA ServerWaitFacts ==
    ASSUME RpcTransportAssumption, NoneAssumption, Types, NEW s \in Slots, ServerWait(s)
    PROVE  /\ srv[s].work \in {"done", "noReply"}
           /\ Only(s, srv'[s]) /\ srv'[s] \in ServerStates
           /\ srv'[s].bits = (srv[s].bits \ {"BUSY", "STUCK"}) \cup {"WAITING"} \cup
                             (IF srv[s].work = "noReply" THEN {"NO_REPLY"} ELSE {})
           /\ SameRequest(srv'[s], srv[s])
           /\ srv'[s].client = srv[s].client /\ srv'[s].age = srv[s].age
           /\ srv'[s].work = "wait" /\ srv'[s].reply = srv[s].reply /\ srv'[s].running = None
           /\ UNCHANGED <<rpcID, boot, chan, outcome, confused, knownBoot, toServer, toClient, executions>>
<1> DEFINE b == (srv[s].bits \ {"BUSY", "STUCK"}) \cup {"WAITING"} \cup
                (IF srv[s].work = "noReply" THEN {"NO_REPLY"} ELSE {})
           o == [srv[s] EXCEPT !.work = "wait", !.running = None, !.bits = b]
<1>1. /\ srv[s].work \in {"done", "noReply"}
      /\ UNCHANGED <<rpcID, boot, chan, outcome, confused, knownBoot, toServer, toClient, executions>>
  BY DEF ServerWait
<1>2. Only(s, o)
  <2>1. srv \in [Slots -> ServerStates]
    BY DEF Types, BaseTypes
  <2>2. srv' = [srv EXCEPT ![s].work = "wait", ![s].running = None,
                  ![s].bits = (@ \ {"BUSY", "STUCK"}) \cup {"WAITING"} \cup
                     (IF srv[s].work = "noReply" THEN {"NO_REPLY"} ELSE {})]
    BY DEF ServerWait
  <2> QED BY <2>1, <2>2 DEF Only
<1>3. srv[s] \in ServerStates
  BY <1>1, RunningFacts
<1>4. b \in SUBSET {"FREE", "BUSY", "WAITING", "AGING", "STUCK", "NO_REPLY"}
  BY <1>3 DEF ServerStates
<1> HIDE DEF b
<1>5. /\ o \in ServerStates /\ o.bits = b /\ SameRequest(o, srv[s])
      /\ o.client = srv[s].client /\ o.age = srv[s].age
      /\ o.work = "wait" /\ o.running = None /\ o.reply = srv[s].reply
  BY <1>3, <1>4 DEF ServerStates, SameRequest, NoneOr
<1> HIDE DEF o
<1>6. srv'[s] = o
  BY <1>2, OnlyFacts
<1> QED BY <1>1, <1>2, <1>5, <1>6 DEF b

LEMMA ServerWaitTypes ==
    ASSUME RpcTransportAssumption, NoneAssumption, Types, NEW s \in Slots, ServerWait(s)
    PROVE  Types'
<1> DEFINE o == srv'[s]
<1>1. /\ srv[s].work \in {"done", "noReply"} /\ Only(s, o) /\ o \in ServerStates
      /\ o.bits \subseteq (srv[s].bits \ {"BUSY", "STUCK"}) \cup {"WAITING", "NO_REPLY"}
      /\ SameRequest(o, srv[s])
      /\ o.client = srv[s].client /\ o.age = srv[s].age
      /\ o.work = "wait"
      /\ UNCHANGED <<rpcID, boot, chan, outcome, confused, knownBoot, toServer, toClient, executions>>
  BY ServerWaitFacts
<1>2. /\ ServerOK(srv[s], rpcID) /\ srv[s].id \in 1 .. MaxID
  BY <1>1, RunningFacts
<1> HIDE DEF o
<1>3. ServerOK(o, rpcID)
  BY <1>1, <1>2 DEF ServerOK, SameRequest
<1> QED BY <1>1, <1>3, OnlyFacts, ServerStepTypes DEF Types, BaseTypes

(* The daemon's round frees a process, or ages it and may probe its client. *)
Probe(s) == [type |-> "CLOSE", id |-> srv[s].req[3], hint |-> s, result |-> None]

ReclaimFrees(s, o) ==
    /\ o.bits \subseteq {"FREE", "NO_REPLY"} /\ toClient' = toClient
    /\ o.age \in 0 .. MaxServerAge + 1
    /\ \/ "NO_REPLY" \in srv[s].bits /\ confused' = confused
       \/ confused' = IF StillSent(srv[s].req) THEN confused \cup ({srv[s].req[1]} \cap Stable)
                      ELSE confused

ReclaimAges(s, o) ==
    /\ "NO_REPLY" \notin srv[s].bits
    /\ o.bits = srv[s].bits \cup {"AGING"} /\ o.age \in 0 .. MaxServerAge + 1
    /\ o.age < MaxServerAge \/ o.age = 1
    /\ toClient' = toClient \/ toClient' = Enqueue(toClient, srv[s].req[1], Probe(s))
    /\ UNCHANGED confused

LEMMA ReclaimFacts ==
    ASSUME RpcTransportAssumption, NoneAssumption, Types, NEW s \in Slots, RpcReclaimServer(s)
    PROVE  /\ srv[s].client \in Clients /\ "WAITING" \in srv[s].bits /\ srv[s].work = "wait"
           /\ srv[s].id \in 1 .. MaxID /\ srv[s].req \in Calls /\ srv[s].req[3] = srv[s].id
           /\ "BUSY" \notin srv[s].bits
           /\ Only(s, srv'[s]) /\ srv'[s] \in ServerStates
           /\ SameRequest(srv'[s], srv[s]) /\ srv'[s].client = srv[s].client
           /\ srv'[s].work = srv[s].work /\ srv'[s].reply = srv[s].reply
           /\ srv'[s].running = srv[s].running
           /\ ReclaimFrees(s, srv'[s]) \/ ReclaimAges(s, srv'[s])
           /\ UNCHANGED <<rpcID, boot, chan, outcome, knownBoot, toServer, executions>>
<1> DEFINE sv == srv[s]
<1>1. /\ sv.client # None /\ "WAITING" \in sv.bits
      /\ \/ /\ "NO_REPLY" \in sv.bits
            /\ srv' = [srv EXCEPT ![s].bits = {"FREE", "NO_REPLY"}]
            /\ UNCHANGED <<toClient, confused>>
         \/ /\ "NO_REPLY" \notin sv.bits /\ "AGING" \notin sv.bits
            /\ srv' = [srv EXCEPT ![s].bits = @ \cup {"AGING"}, ![s].age = 1]
            /\ toClient' = IF ServersMaxed THEN Enqueue(toClient, sv.req[1], Probe(s))
                           ELSE toClient
            /\ UNCHANGED confused
         \/ /\ "NO_REPLY" \notin sv.bits /\ "AGING" \in sv.bits /\ sv.age + 1 >= MaxServerAge
            /\ srv' = [srv EXCEPT ![s].bits = {"FREE"}, ![s].age = @ + 1]
            /\ confused' = IF StillSent(sv.req) THEN confused \cup ({sv.req[1]} \cap Stable)
                           ELSE confused
            /\ UNCHANGED toClient
         \/ /\ "NO_REPLY" \notin sv.bits /\ "AGING" \in sv.bits /\ ~(sv.age + 1 >= MaxServerAge)
            /\ srv' = [srv EXCEPT ![s].age = @ + 1]
            /\ toClient' = Enqueue(toClient, sv.req[1], Probe(s))
            /\ UNCHANGED confused
      /\ UNCHANGED <<rpcID, boot, chan, outcome, knownBoot, toServer, executions>>
  BY Zenon DEF RpcReclaimServer, Probe, ID
<1>2. /\ srv \in [Slots -> ServerStates] /\ sv \in ServerStates /\ ServerOK(sv, rpcID)
      /\ MaxServerAge \in Nat \ {0} /\ MaxID \in Nat
  BY DEF Types, BaseTypes, RpcTransportAssumption
<1>3. /\ sv.id # 0 /\ sv.id \in 0 .. MaxID /\ sv.age \in 0 .. MaxServerAge + 1
  BY <1>1, <1>2 DEF ServerOK, ServerStates
<1>4. /\ sv.client \in Clients /\ sv.work = "wait" /\ sv.id \in 1 .. MaxID /\ sv.req \in Calls
      /\ sv.req[3] = sv.id /\ "BUSY" \notin sv.bits
      /\ "AGING" \in sv.bits => sv.age < MaxServerAge \/ sv.age = 1
  BY <1>1, <1>2, <1>3 DEF ServerOK
<1>5. ASSUME NEW b \in SUBSET {"FREE", "BUSY", "WAITING", "AGING", "STUCK", "NO_REPLY"},
             NEW a \in 0 .. MaxServerAge + 1,
             srv' = [srv EXCEPT ![s] = [sv EXCEPT !.bits = b, !.age = a]]
      PROVE  /\ Only(s, srv'[s]) /\ srv'[s] \in ServerStates
             /\ SameRequest(srv'[s], sv) /\ srv'[s].client = sv.client
             /\ srv'[s].work = sv.work /\ srv'[s].reply = sv.reply
             /\ srv'[s].running = sv.running /\ srv'[s].bits = b /\ srv'[s].age = a
  <2> DEFINE o == [sv EXCEPT !.bits = b, !.age = a]
  <2>1. /\ o \in ServerStates /\ SameRequest(o, sv) /\ o.client = sv.client
        /\ o.work = sv.work /\ o.reply = sv.reply
        /\ o.running = sv.running /\ o.bits = b /\ o.age = a
    BY <1>2 DEF ServerStates, SameRequest
  <2>2. Only(s, o)
    BY <1>5 DEF Only
  <2> HIDE DEF o, sv
  <2>3. srv'[s] = o
    BY <2>2, OnlyFacts
  <2> QED BY <2>1, <2>2, <2>3
<1>6. CASE /\ "NO_REPLY" \in sv.bits
           /\ srv' = [srv EXCEPT ![s].bits = {"FREE", "NO_REPLY"}]
           /\ UNCHANGED <<toClient, confused>>
  <2>1. srv' = [srv EXCEPT ![s] = [sv EXCEPT !.bits = {"FREE", "NO_REPLY"}, !.age = sv.age]]
    <3>1. [sv EXCEPT !.bits = {"FREE", "NO_REPLY"}, !.age = sv.age] = [sv EXCEPT !.bits = {"FREE", "NO_REPLY"}]
      BY <1>2 DEF ServerStates
    <3> QED BY <1>2, <1>6, <3>1
  <2> HIDE DEF sv
  <2>2. /\ Only(s, srv'[s]) /\ srv'[s] \in ServerStates
        /\ SameRequest(srv'[s], sv) /\ srv'[s].client = sv.client
        /\ srv'[s].work = sv.work /\ srv'[s].reply = sv.reply
        /\ srv'[s].running = sv.running /\ srv'[s].bits = {"FREE", "NO_REPLY"}
        /\ srv'[s].age = sv.age
    BY <1>3, <1>5, <2>1
  <2>3. ReclaimFrees(s, srv'[s])
    BY <1>3, <1>6, <2>2 DEF ReclaimFrees, sv
  <2> QED BY <1>1, <1>4, <2>2, <2>3 DEF sv
<1>7. CASE /\ "NO_REPLY" \notin sv.bits /\ "AGING" \notin sv.bits
           /\ srv' = [srv EXCEPT ![s].bits = @ \cup {"AGING"}, ![s].age = 1]
           /\ toClient' = IF ServersMaxed THEN Enqueue(toClient, sv.req[1], Probe(s))
                          ELSE toClient
           /\ UNCHANGED confused
  <2>1. srv' = [srv EXCEPT ![s] = [sv EXCEPT !.bits = sv.bits \cup {"AGING"}, !.age = 1]]
    BY <1>2, <1>7
  <2>2. sv.bits \cup {"AGING"} \in SUBSET {"FREE", "BUSY", "WAITING", "AGING", "STUCK", "NO_REPLY"}
        /\ 1 \in 0 .. MaxServerAge + 1
    BY <1>2 DEF ServerStates
  <2> HIDE DEF sv
  <2>3. /\ Only(s, srv'[s]) /\ srv'[s] \in ServerStates
        /\ SameRequest(srv'[s], sv) /\ srv'[s].client = sv.client
        /\ srv'[s].work = sv.work /\ srv'[s].reply = sv.reply
        /\ srv'[s].running = sv.running /\ srv'[s].bits = sv.bits \cup {"AGING"}
        /\ srv'[s].age = 1
    BY <1>5, <2>1, <2>2
  <2>4. ReclaimAges(s, srv'[s])
    BY <1>7, <2>2, <2>3 DEF ReclaimAges, sv
  <2> QED BY <1>1, <1>4, <2>3, <2>4 DEF sv
<1>8. CASE /\ "NO_REPLY" \notin sv.bits /\ "AGING" \in sv.bits
           /\ sv.age + 1 >= MaxServerAge
           /\ srv' = [srv EXCEPT ![s].bits = {"FREE"}, ![s].age = @ + 1]
           /\ confused' = IF StillSent(sv.req) THEN confused \cup ({sv.req[1]} \cap Stable)
                          ELSE confused
           /\ UNCHANGED toClient
  <2>1. srv' = [srv EXCEPT ![s] = [sv EXCEPT !.bits = {"FREE"}, !.age = sv.age + 1]]
    BY <1>2, <1>8
  <2>2. sv.age + 1 \in 0 .. MaxServerAge + 1
    BY <1>2, <1>3, <1>4, <1>8
  <2> HIDE DEF sv
  <2>3. /\ Only(s, srv'[s]) /\ srv'[s] \in ServerStates
        /\ SameRequest(srv'[s], sv) /\ srv'[s].client = sv.client
        /\ srv'[s].work = sv.work /\ srv'[s].reply = sv.reply
        /\ srv'[s].running = sv.running /\ srv'[s].bits = {"FREE"}
        /\ srv'[s].age = sv.age + 1
    BY <1>5, <2>1, <2>2
  <2>4. ReclaimFrees(s, srv'[s])
    BY <1>8, <2>2, <2>3 DEF ReclaimFrees, sv
  <2> QED BY <1>1, <1>4, <2>3, <2>4 DEF sv
<1>9. CASE /\ "NO_REPLY" \notin sv.bits /\ "AGING" \in sv.bits
           /\ ~(sv.age + 1 >= MaxServerAge)
           /\ srv' = [srv EXCEPT ![s].age = @ + 1]
           /\ toClient' = Enqueue(toClient, sv.req[1], Probe(s))
           /\ UNCHANGED confused
  <2>1. srv' = [srv EXCEPT ![s] = [sv EXCEPT !.bits = sv.bits, !.age = sv.age + 1]]
    <3>1. [sv EXCEPT !.bits = sv.bits, !.age = sv.age + 1] = [sv EXCEPT !.age = sv.age + 1]
      BY <1>2 DEF ServerStates
    <3> QED BY <1>2, <1>9, <3>1
  <2>2. /\ sv.age + 1 \in 0 .. MaxServerAge + 1 /\ sv.age + 1 < MaxServerAge
        /\ sv.bits = sv.bits \cup {"AGING"}
        /\ sv.bits \in SUBSET {"FREE", "BUSY", "WAITING", "AGING", "STUCK", "NO_REPLY"}
    BY <1>2, <1>3, <1>9 DEF ServerStates
  <2> HIDE DEF sv
  <2>3. /\ Only(s, srv'[s]) /\ srv'[s] \in ServerStates
        /\ SameRequest(srv'[s], sv) /\ srv'[s].client = sv.client
        /\ srv'[s].work = sv.work /\ srv'[s].reply = sv.reply
        /\ srv'[s].running = sv.running /\ srv'[s].bits = sv.bits
        /\ srv'[s].age = sv.age + 1
    BY <1>5, <2>1, <2>2
  <2>4. ReclaimAges(s, srv'[s])
    BY <1>9, <2>2, <2>3 DEF ReclaimAges, sv
  <2> QED BY <1>1, <1>4, <2>3, <2>4 DEF sv
<1> HIDE DEF sv
<1> QED BY <1>1, <1>6, <1>7, <1>8, <1>9

LEMMA RpcReclaimServerTypes ==
    ASSUME RpcTransportAssumption, NoneAssumption, Types, NEW s \in Slots, RpcReclaimServer(s)
    PROVE  Types'
<1> DEFINE o == srv'[s]
<1>1. /\ srv[s].client \in Clients /\ "WAITING" \in srv[s].bits /\ srv[s].work = "wait"
      /\ srv[s].id \in 1 .. MaxID /\ srv[s].req \in Calls /\ srv[s].req[3] = srv[s].id
      /\ "BUSY" \notin srv[s].bits
      /\ Only(s, o) /\ o \in ServerStates
      /\ SameRequest(o, srv[s]) /\ o.client = srv[s].client /\ o.work = srv[s].work
      /\ ReclaimFrees(s, o) \/ ReclaimAges(s, o)
      /\ UNCHANGED <<rpcID, boot, chan, outcome, knownBoot, toServer, executions>>
  BY ReclaimFacts, Zenon
<1>2. ServerOK(srv[s], rpcID)
  BY DEF Types
<1> HIDE DEF o
<1>3. ServerOK(o, rpcID)
  <2>1. o.work = "wait" /\ o.id # 0 /\ "BUSY" \notin o.bits
    BY <1>1 DEF SameRequest, ReclaimFrees, ReclaimAges
  <2>2. "AGING" \in o.bits => o.age < MaxServerAge \/ o.age = 1
    BY <1>1 DEF ReclaimFrees, ReclaimAges
  <2> QED BY <1>1, <1>2, <2>1, <2>2 DEF ServerOK, SameRequest
<1>4. ToClientOK(toClient', rpcID)
  <2>1. AnswerOK(Probe(s), srv[s].req[1], rpcID')
    <3>1. srv[s].req[1] \in Stable => srv[s].id < rpcID[srv[s].req[1]]
      BY <1>1, <1>2 DEF ServerOK
    <3>2. Probe(s) \in ClientPackets /\ Probe(s).type = "CLOSE" /\ Probe(s).id = srv[s].id
      BY <1>1 DEF Probe, ClientPackets, NoneOr
    <3> QED BY <1>1, <3>1, <3>2 DEF AnswerOK
  <2>2. srv[s].req[1] \in Clients
    BY <1>1, CallFacts
  <2>3. toClient' = toClient \/ toClient' = Enqueue(toClient, srv[s].req[1], Probe(s))
    BY <1>1 DEF ReclaimFrees, ReclaimAges
  <2>4. CASE toClient' = toClient
    BY <1>1, <2>4 DEF Types
  <2>5. CASE toClient' = Enqueue(toClient, srv[s].req[1], Probe(s))
    BY <1>1, <2>1, <2>2, <2>5, SameIDs, SendToClient
  <2> QED BY <2>3, <2>4, <2>5
<1>5. confused' \subseteq Stable
  BY <1>1 DEF ReclaimFrees, ReclaimAges, Types, BaseTypes
<1> QED BY <1>1, <1>3, <1>4, <1>5, OnlyFacts, ServerStepTypes DEF Types, BaseTypes

LEMMA AnsweredTypes ==
    ASSUME RpcTransportAssumption, Types, UNCHANGED rpcID, NEW c \in Clients,
           NEW x, AnswerOK(x, c, rpcID), Answered(c, x)
    PROVE  ToClientOK(toClient', rpcID)
<1>1. CASE toClient' = toClient
  BY <1>1 DEF Types
<1>2. CASE toClient' = Enqueue(toClient, c, x)
  BY <1>2, SameIDs, SendToClient
<1> QED BY <1>1, <1>2 DEF Answered

LEMMA SmallAnswers ==
    ASSUME RpcTransportAssumption, NEW n \in 1 .. MaxID, NEW c, NEW ids
    PROVE  /\ \A s \in Slots : AnswerOK(Ack(s, n), c, ids) /\ Ack(s, n).type = "ACK"
           /\ AnswerOK([type |-> "NACK", id |-> n, hint |-> 0, result |-> None], c, ids)
<1>1. 0 \in Slots
  BY DEF Slots, RpcTransportAssumption
<1> QED BY <1>1 DEF AnswerOK, ClientPackets, Ack, NoneOr

LEMMA RpcServerDispatchTypes ==
    ASSUME RpcTransportAssumption, NoneAssumption, Types, NEW c \in Clients, RpcServerDispatch(c)
    PROVE  Types'
<1> DEFINE p == Head(toServer[c])
<1>1. /\ toServer[c] # <<>> /\ toServer' = [toServer EXCEPT ![c] = Tail(@)]
      /\ UNCHANGED <<rpcID, boot, chan, outcome, knownBoot, executions>>
      /\ SentOK(p, c, rpcID)
      /\ NoServer(c, p) \/ \E s \in Slots, o \in ServerStates : Dispatches(c, p, s, o)
  BY DispatchCases
<1>2. ToServerOK(toServer', rpcID)
  BY <1>1, SameIDs, TakeFromServerQueue
<1> HIDE DEF p
<1>3. /\ p \in ServerPackets /\ p.call \in Calls /\ p.call[1] = c /\ p.call[3] \in 1 .. MaxID
      /\ p.bcast => c \in Broadcasters
      /\ c \in Stable => p.call[2] = 1 /\ p.call[3] < rpcID[c]
  <2>1. p.call \in Calls
    BY <1>1 DEF SentOK, ServerPackets
  <2> QED BY <1>1, <2>1, CallFacts DEF SentOK
<1>4. /\ executions \in [StableCalls -> 0 .. 2] /\ confused \subseteq Stable
      /\ srv \in [Slots -> ServerStates] /\ \A t \in Slots : ServerOK(srv[t], rpcID)
      /\ knownBoot \in [Clients -> 1 .. MaxBoots] /\ \A d \in Stable : knownBoot[d] = 1
  BY DEF Types, BaseTypes
<1>5. CASE NoServer(c, p)
  <2>1. ToClientOK(toClient', rpcID)
    BY <1>1, <1>3, <1>5, AnsweredTypes, SmallAnswers DEF NoServer
  <2> QED BY <1>1, <1>2, <1>4, <1>5, <2>1, ServerStepTypes DEF NoServer
<1>6. ASSUME NEW s \in Slots, NEW o \in ServerStates, Dispatches(c, p, s, o)
      PROVE  Types'
  <2>1. /\ Only(s, o) /\ Picked(s, c)
        /\ confused' \subseteq confused \cup ({c} \cap Stable)
        /\ o.client = c /\ o.age = 0 /\ o.work = srv[s].work /\ o.running = srv[s].running
        /\ \/ DispatchStuck(p, s, o) \/ DispatchNew(c, p, s, o) \/ DispatchFree(p, s, o)
           \/ DispatchAck(c, p, s, o) \/ DispatchReply(c, p, s, o)
    BY <1>6 DEF Dispatches, Only
  <2>2. confused' \subseteq Stable
    BY <1>4, <2>1
  <2>3. ServerOK(srv[s], rpcID)
    BY <1>4
  <2>4. "BUSY" \in srv[s].bits => srv[s].client = c /\ srv[s].bits = {"BUSY"}
    BY <2>1, <2>3 DEF Picked, Usable, ServerOK
  <2>5. c \in Clients /\ p.call[3] # 0 /\ MaxServerAge \in Nat \ {0} /\ 0 < MaxServerAge
    BY <1>3 DEF RpcTransportAssumption
  <2>6. ServerOK(o, rpcID) /\ ToClientOK(toClient', rpcID)
    <3>1. CASE DispatchStuck(p, s, o)
      <4>1. ServerOK(o, rpcID)
        BY <2>1, <2>3, <2>4, <2>5, <3>1 DEF DispatchStuck, ServerOK, SameRequest
      <4> QED BY <3>1, <4>1 DEF DispatchStuck, Types
    <3>2. CASE DispatchNew(c, p, s, o)
      <4>1. ServerOK(o, rpcID)
        BY <1>3, <2>1, <2>3, <2>5, <3>2 DEF DispatchNew, ServerOK
      <4> QED BY <1>1, <1>3, <3>2, <4>1, AnsweredTypes, SmallAnswers DEF DispatchNew
    <3>3. CASE DispatchFree(p, s, o)
      <4>1. "BUSY" \notin o.bits /\ ("WAITING" \in o.bits => "WAITING" \in srv[s].bits)
            /\ ("AGING" \notin o.bits)
        BY <2>4, <3>3 DEF DispatchFree
      <4>2. srv[s].id # 0 /\ o.id = srv[s].id
        BY <2>5, <3>3 DEF DispatchFree, SameRequest
      <4>3. ServerOK(o, rpcID)
        BY <2>1, <2>3, <2>5, <3>3, <4>1, <4>2 DEF DispatchFree, ServerOK, SameRequest
      <4> QED BY <3>3, <4>3 DEF DispatchFree, Types
    <3>4. CASE DispatchAck(c, p, s, o)
      <4>1. ServerOK(o, rpcID)
        BY <2>1, <2>3, <2>4, <2>5, <3>4 DEF DispatchAck, ServerOK, SameRequest
      <4> QED BY <1>1, <1>3, <3>4, <4>1, AnsweredTypes, SmallAnswers DEF DispatchAck
    <3>5. CASE DispatchReply(c, p, s, o)
      <4>1. ServerOK(o, rpcID)
        BY <2>1, <2>3, <2>4, <2>5, <3>5 DEF DispatchReply, ServerOK, SameRequest
      <4>2. CASE toClient' = toClient
        BY <4>1, <4>2 DEF Types
      <4>3. CASE o.reply \in Replies /\ toClient' = Enqueue(toClient, c, Reply(s, o))
        <5>1. AnswerOK(Reply(s, o), c, rpcID)
          BY <4>3 DEF AnswerOK, Reply, ClientPackets, Replies, NoneOr
        <5> QED BY <1>1, <4>1, <4>3, <5>1, AnsweredTypes DEF Answered
      <4> QED BY <3>5, <4>2, <4>3 DEF DispatchReply
    <3> QED BY <2>1, <3>1, <3>2, <3>3, <3>4, <3>5
  <2> QED BY <1>1, <1>2, <1>4, <2>1, <2>2, <2>6, OnlyFacts, ServerStepTypes
<1> QED BY <1>1, <1>5, <1>6

LEMMA TypesKept ==
    ASSUME RpcTransportAssumption, NoneAssumption, Types, [Next]_vars
    PROVE  Types'
<1>1. CASE UNCHANGED vars
  BY <1>1 DEF vars, Types, BaseTypes
<1>2. CASE Next
  <2>1. ASSUME NEW c \in Clients, StartCall(c, FALSE) PROVE Types'
    BY <2>1, StartCallTypes
  <2>2. ASSUME NEW c \in Broadcasters, StartCall(c, TRUE) PROVE Types'
    BY <2>2, StartCallTypes DEF RpcTransportAssumption
  <2>3. ASSUME NEW c \in Clients, \/ Rpc_Timeout(c) \/ DoInput(c) \/ DoTimeout(c)
               \/ Reboot(c) \/ RpcClientDispatch(c) \/ RpcServerDispatch(c)
               \/ LoseToServer(c) \/ LoseToClient(c) PROVE Types'
    BY <2>3, Rpc_TimeoutTypes, DoInputTypes, DoTimeoutTypes, RebootTypes,
       RpcClientDispatchTypes, RpcServerDispatchTypes, LoseTypes
  <2>4. ASSUME NEW s \in Slots, \/ ServerStart(s) \/ ServerReply(s) \/ ServerNoReply(s)
               \/ ServerWait(s) \/ RpcReclaimServer(s) PROVE Types'
    BY <2>4, ServerStartTypes, ServerReplyTypes, ServerNoReplyTypes, ServerWaitTypes,
       RpcReclaimServerTypes
  <2> QED BY <1>2, <2>1, <2>2, <2>3, <2>4 DEF Next
<1> QED BY <1>1, <1>2

(* Every variable keeps to its declared kind, for any number of clients,   *)
(* server processes and packets under way: the packets name the client     *)
(* that sent them, a process that is busy works for the client it is       *)
(* bound to, one that waits for a request has nothing running.             *)
THEOREM TransportTypes ==
    RpcTransportAssumption /\ NoneAssumption /\ Spec => []TypeOK
<1> SUFFICES ASSUME RpcTransportAssumption, NoneAssumption PROVE Spec => []TypeOK
  OBVIOUS
<1>1. Init => Types
  BY InitTypes
<1>2. Types /\ [Next]_vars => Types'
  BY TypesKept
<1>3. Types => TypeOK
  BY TypesCorrect
<1> QED BY <1>1, <1>2, <1>3, PTL DEF Spec

-----------------------------------------------------------------------------
(* The invariant of the clients that are not confused.                     *)

Sure == Stable \ confused
SureCalls == {k \in StableCalls : k[1] \notin confused}

(* One process works for a client, and is never marked stuck.              *)
OneProcess ==
    \A d \in Sure, s, t \in Slots : srv[s].client = d /\ srv[t].client = d => s = t
NeverStuck == \A s \in Slots : srv[s].client \in Sure => "STUCK" \notin srv[s].bits

(* The process whose request header is that of call k, executed n times.   *)
HeaderOK(sv, k, n) ==
    /\ ~sv.close
    /\ sv.work # "wait" => sv.bits = {"BUSY"} /\ sv.running = k /\ sv.work # "noReply"
    /\ "BUSY" \in sv.bits /\ sv.work # "done" => n = 0
    /\ "WAITING" \in sv.bits => sv.client = k[1] /\ sv.bits \subseteq {"WAITING", "AGING"}
    /\ "WAITING" \in sv.bits \/ sv.work = "done" =>
          n = 1 /\ sv.reply = [id |-> k[3], result |-> k]
HeadersOK ==
    \A s \in Slots, k \in SureCalls : srv[s].req = k => HeaderOK(srv[s], k, executions[k])

(* What a process executes is what its header says.                        *)
RunsForReq ==
    \A s \in Slots, k \in SureCalls :
        srv[s].work # "wait" /\ srv[s].running = k => srv[s].req = k

(* A process taken over by a client was done with the one before.          *)
Engaged(sv) == sv.work # "wait" \/ "WAITING" \in sv.bits \/ "BUSY" \in sv.bits
TakenClean ==
    \A s \in Slots : srv[s].client \in Sure /\ Engaged(srv[s]) => srv[s].req[1] = srv[s].client

(* The packets of a client are in the order of its calls: the              *)
(* acknowledgment of a close request for one call comes before the         *)
(* requests of the next.                                                   *)
Before(p, n) == p.call[3] < n \/ (p.type = "REQUEST" /\ p.call[3] = n)
InOrder(queue, ch) ==
    /\ \A i, j \in 1 .. Len(queue) :
          i < j /\ queue[j].type = "REQUEST" => Before(queue[i], queue[j].call[3])
    /\ ch.call # None => \A p \in PacketsIn(queue) : Before(p, ch.id)
Behind(sv, queue) ==
    \A p \in PacketsIn(queue) : p.type = "REQUEST" => sv.req[3] <= p.call[3]
Order ==
    \A d \in Sure :
       /\ InOrder(toServer[d], chan[d])
       /\ \A s \in Slots, k \in SureCalls : srv[s].req = k /\ k[1] = d => Behind(srv[s], toServer[d])

(* Call k may still be requested: its reply is kept until then.            *)
Outstanding(k) ==
    \/ chan[k[1]].call = k
    \/ \E p \in PacketsIn(toServer[k[1]]) : p.type = "REQUEST" /\ p.call = k
Kept(sv, k) == sv.client = k[1] /\ sv.req = k /\ ("WAITING" \in sv.bits \/ sv.work = "done")
ReplyKept ==
    \A k \in SureCalls : executions[k] # 0 /\ Outstanding(k) => \E s \in Slots : Kept(srv[s], k)

AtMostOnce == \A k \in SureCalls : executions[k] \in {0, 1}

(* A close request for call k or its acknowledgment is under way.          *)
Closing(k) ==
    \/ \E p \in PacketsIn(toClient[k[1]]) : p.type = "CLOSE" /\ p.id = k[3]
    \/ \E p \in PacketsIn(toServer[k[1]]) : p.type = "CLOSE" /\ p.call = k
ClosedWhenDone ==
    \A k \in SureCalls : Closing(k) =>
        /\ executions[k] = 1
        /\ \A s \in Slots : srv[s].req = k => "BUSY" \notin srv[s].bits /\ srv[s].work = "wait"

(* A reply tells the result of its own call.                               *)
Tells(p, d, times) ==
    \E k \in StableCalls : k[1] = d /\ p.id = k[3] /\ p.result = k /\ times[k] = 1
Answers ==
    \A d \in Sure :
       /\ \A p \in PacketsIn(toClient[d]) : p.type = "REPLY" => Tells(p, d, executions)
       /\ "INPUT" \in chan[d].bits /\ chan[d].input.type = "REPLY" => Tells(chan[d].input, d, executions)

NotYetIssued == \A k \in StableCalls : executions[k] # 0 => k[3] < rpcID[k[1]]

ServerInv == OneProcess /\ NeverStuck /\ HeadersOK /\ RunsForReq /\ TakenClean
CallInv == ReplyKept /\ AtMostOnce /\ ClosedWhenDone /\ Answers /\ NotYetIssued

IInv == Types /\ ServerInv /\ Order /\ CallInv

LEMMA SureFacts ==
    ASSUME RpcTransportAssumption, NoneAssumption, Types
    PROVE  /\ Sure \subseteq Stable /\ Sure \subseteq Clients /\ None \notin Sure
           /\ \A k \in SureCalls : /\ k \in StableCalls /\ k \in Calls /\ k[1] \in Sure /\ k[2] = 1
                                   /\ k[3] \in 1 .. MaxID /\ k # None
           /\ \A k \in Calls : k[1] \in Sure /\ k[2] = 1 => k \in SureCalls
           /\ \A k, l \in SureCalls : k[1] = l[1] /\ k[3] = l[3] => k = l
           /\ \A s \in Slots : srv[s].id # 0 /\ srv[s].req[1] \in Sure => srv[s].req \in SureCalls
           /\ \A s \in Slots, k \in SureCalls :
                 srv[s].req = k => srv[s].id = k[3] /\ srv[s].id # 0
           /\ \A d \in Sure : \A p \in PacketsIn(toServer[d]) :
                 p.call \in SureCalls /\ p.call[1] = d /\ p.call[3] < rpcID[d]
           /\ \A d \in Sure : chan[d].call # None =>
                 chan[d].call \in SureCalls /\ chan[d].call[1] = d /\ chan[d].call[3] = chan[d].id
                 /\ chan[d].id = rpcID[d] - 1
<1>1. Sure \subseteq Stable /\ Sure \subseteq Clients /\ None \notin Sure
  BY StableFacts, NoneAssumption DEF Sure
<1>2. \A k \in SureCalls : /\ k \in StableCalls /\ k \in Calls /\ k[1] \in Sure /\ k[2] = 1
                           /\ k[3] \in 1 .. MaxID /\ k # None
  BY StableFacts, NoneAssumption DEF Sure, SureCalls
<1>3. \A k \in Calls : k[1] \in Sure /\ k[2] = 1 => k \in SureCalls
  BY StableFacts DEF Sure, SureCalls
<1>4. \A k, l \in SureCalls : k[1] = l[1] /\ k[3] = l[3] => k = l
  BY StableFacts DEF SureCalls
<1>5. \A s \in Slots : srv[s].id # 0 /\ srv[s].req[1] \in Sure => srv[s].req \in SureCalls
  BY <1>1, <1>3 DEF Types, ServerOK
<1>6. \A s \in Slots, k \in SureCalls : srv[s].req = k => srv[s].id = k[3] /\ srv[s].id # 0
  BY <1>2 DEF Types, ServerOK
<1>7. \A d \in Sure : \A p \in PacketsIn(toServer[d]) :
         p.call \in SureCalls /\ p.call[1] = d /\ p.call[3] < rpcID[d]
  <2> TAKE d \in Sure
  <2> TAKE p \in PacketsIn(toServer[d])
  <2>1. SentOK(p, d, rpcID)
    BY <1>1 DEF Types, ToServerOK
  <2>2. p.call \in Calls /\ p.call[1] = d /\ p.call[2] = 1 /\ p.call[3] < rpcID[d]
    BY <1>1, <2>1 DEF SentOK, ServerPackets
  <2> QED BY <1>3, <2>2
<1>8. \A d \in Sure : chan[d].call # None =>
         chan[d].call \in SureCalls /\ chan[d].call[1] = d /\ chan[d].call[3] = chan[d].id
         /\ chan[d].id = rpcID[d] - 1
  <2> TAKE d \in Sure
  <2>1. ChanOK(chan[d], d, rpcID[d], boot[d]) /\ boot[d] = 1
    BY <1>1 DEF Types, BaseTypes
  <2> QED BY <1>3, <2>1 DEF ChanOK
<1> QED BY <1>1, <1>2, <1>3, <1>4, <1>5, <1>6, <1>7, <1>8

LEMMA InitInv ==
    ASSUME RpcTransportAssumption, NoneAssumption, Init PROVE IInv
<1>1. Types
  BY InitTypes
<1>2. /\ \A s \in Slots : srv[s] = NewServer
      /\ \A d \in Sure : /\ PacketsIn(toServer[d]) = {} /\ PacketsIn(toClient[d]) = {}
                         /\ toServer[d] = <<>> /\ chan[d] = NewChannel
      /\ \A k \in StableCalls : executions[k] = 0
  <2>1. \A d \in Sure : toServer[d] = <<>> /\ toClient[d] = <<>> /\ chan[d] = NewChannel
    BY <1>1, SureFacts DEF Init
  <2> QED BY <2>1 DEF Init, PacketsIn
<1>3. /\ NewServer.client = None /\ NewServer.req = None /\ NewServer.work = "wait"
      /\ NewChannel.call = None /\ NewChannel.bits = {}
  BY DEF NewServer, NewChannel
<1>4. OneProcess /\ NeverStuck /\ TakenClean
  BY <1>1, <1>2, <1>3, SureFacts DEF OneProcess, NeverStuck, TakenClean
<1>5. HeadersOK /\ RunsForReq
  BY <1>1, <1>2, <1>3, SureFacts DEF HeadersOK, RunsForReq
<1>6. Order
  <2>1. \A d \in Sure : InOrder(toServer[d], chan[d])
    BY <1>2, <1>3 DEF InOrder
  <2>2. \A s \in Slots, k \in SureCalls : srv[s].req # k
    BY <1>1, <1>2, <1>3, SureFacts
  <2> QED BY <2>1, <2>2 DEF Order
<1>7. ReplyKept /\ AtMostOnce /\ NotYetIssued
  BY <1>1, <1>2, SureFacts DEF ReplyKept, AtMostOnce, NotYetIssued
<1>8. ClosedWhenDone
  BY <1>1, <1>2, SureFacts DEF ClosedWhenDone, Closing
<1>9. Answers
  BY <1>2, <1>3 DEF Answers
<1> QED BY <1>1, <1>4, <1>5, <1>6, <1>7, <1>8, <1>9 DEF IInv, ServerInv, CallInv

-----------------------------------------------------------------------------
(* The order of the packets.                                               *)

LEMMA TailInOrder ==
    ASSUME NEW q, NEW q2, NEW ch, Len(q) \in Nat, Len(q2) = Len(q) - 1, Len(q) > 0,
           \A i \in 1 .. Len(q2) : q2[i] = q[i + 1], InOrder(q, ch)
    PROVE  InOrder(q2, ch)
<1>1. \A i \in 1 .. Len(q2) : i + 1 \in 1 .. Len(q)
  OBVIOUS
<1>2. ASSUME NEW i \in 1 .. Len(q2), NEW j \in 1 .. Len(q2), i < j, q2[j].type = "REQUEST"
      PROVE  Before(q2[i], q2[j].call[3])
  <2>1. i + 1 < j + 1 /\ q[j + 1].type = "REQUEST"
    BY <1>2
  <2>2. Before(q[i + 1], q[j + 1].call[3])
    BY <1>1, <2>1 DEF InOrder
  <2> QED BY <2>2
<1>3. ASSUME ch.call # None, NEW i \in 1 .. Len(q2) PROVE Before(q2[i], ch.id)
  BY <1>1, <1>3 DEF InOrder, PacketsIn
<1> QED BY <1>2, <1>3 DEF InOrder, PacketsIn

LEMMA AppendInOrder ==
    ASSUME NEW q, NEW q2, NEW p, NEW ch, NEW ch2, Len(q) \in Nat, Len(q2) = Len(q) + 1,
           q2[Len(q) + 1] = p, \A i \in 1 .. Len(q) : q2[i] = q[i], InOrder(q, ch),
           p.type = "REQUEST" => \A r \in PacketsIn(q) : Before(r, p.call[3]),
           ch2.call # None => Before(p, ch2.id) /\ \A r \in PacketsIn(q) : Before(r, ch2.id)
    PROVE  InOrder(q2, ch2)
<1>1. \A i \in 1 .. Len(q2) : i \in 1 .. Len(q) \/ i = Len(q) + 1
  OBVIOUS
<1>2. \A i \in 1 .. Len(q) : q2[i] \in PacketsIn(q)
  BY DEF PacketsIn
<1>3. ASSUME NEW i \in 1 .. Len(q2), NEW j \in 1 .. Len(q2), i < j, q2[j].type = "REQUEST"
      PROVE  Before(q2[i], q2[j].call[3])
  <2>1. i \in 1 .. Len(q)
    BY <1>3
  <2>2. CASE j = Len(q) + 1
    BY <1>2, <1>3, <2>1, <2>2
  <2>3. CASE j \in 1 .. Len(q)
    <3>1. Before(q[i], q[j].call[3])
      BY <1>3, <2>1, <2>3 DEF InOrder
    <3> QED BY <2>1, <2>3, <3>1
  <2> QED BY <1>1, <2>2, <2>3
<1>4. ASSUME ch2.call # None, NEW i \in 1 .. Len(q2) PROVE Before(q2[i], ch2.id)
  BY <1>1, <1>2, <1>4
<1> QED BY <1>3, <1>4 DEF InOrder, PacketsIn

LEMMA OtherChannelInOrder ==
    ASSUME NEW q, NEW ch, NEW ch2, InOrder(q, ch),
           ch2.call # None => ch.call # None /\ ch2.id = ch.id
    PROVE  InOrder(q, ch2)
  BY DEF InOrder

-----------------------------------------------------------------------------
(* The invariant is kept: the steps of the clients and the network.        *)

LEMMA ClientKeeps ==
    ASSUME RpcTransportAssumption, NoneAssumption, IInv, Grows,
           UNCHANGED <<srv, executions, confused>>,
           \A k \in SureCalls : executions[k] # 0 /\ Outstanding(k)' => Outstanding(k),
           \A k \in SureCalls : Closing(k)' => Closing(k),
           \A d \in Sure : \A p \in PacketsIn(toClient'[d]) : p \in PacketsIn(toClient[d]),
           \A d \in Sure : "INPUT" \in chan'[d].bits =>
               \/ "INPUT" \in chan[d].bits /\ chan'[d].input = chan[d].input
               \/ chan'[d].input \in PacketsIn(toClient[d])
    PROVE  ServerInv' /\ CallInv'
<1>1. UNCHANGED <<Sure, SureCalls>>
  BY DEF Sure, SureCalls
<1>2. ServerInv'
  BY <1>1 DEF IInv, ServerInv, OneProcess, NeverStuck, HeadersOK, RunsForReq, TakenClean
<1>3. ReplyKept'
  BY <1>1 DEF IInv, CallInv, ReplyKept
<1>4. AtMostOnce'
  BY <1>1 DEF IInv, CallInv, AtMostOnce
<1>5. ClosedWhenDone'
  BY <1>1 DEF IInv, CallInv, ClosedWhenDone
<1>6. Answers'
  <2>1. \A d \in Sure : \A p \in PacketsIn(toClient[d]) : p.type = "REPLY" => Tells(p, d, executions)
    BY DEF IInv, CallInv, Answers
  <2>2. \A d \in Sure : "INPUT" \in chan[d].bits /\ chan[d].input.type = "REPLY"
                        => Tells(chan[d].input, d, executions)
    BY DEF IInv, CallInv, Answers
  <2>3. \A d \in Sure : \A p \in PacketsIn(toClient'[d]) : p.type = "REPLY" => Tells(p, d, executions)
    BY <2>1
  <2>4. \A d \in Sure : "INPUT" \in chan'[d].bits /\ chan'[d].input.type = "REPLY"
                        => Tells(chan'[d].input, d, executions)
    BY <2>1, <2>2
  <2> QED BY <1>1, <2>3, <2>4 DEF Answers
<1>7. NotYetIssued'
  <2>1. \A k \in StableCalls : k[3] \in Nat /\ rpcID[k[1]] \in Nat /\ rpcID'[k[1]] \in Nat
                               /\ rpcID'[k[1]] >= rpcID[k[1]]
    BY StableFacts DEF Grows, IInv, Types, BaseTypes
  <2> QED BY <2>1 DEF IInv, CallInv, NotYetIssued
<1> QED BY <1>2, <1>3, <1>4, <1>5, <1>6, <1>7 DEF ServerInv, CallInv

LEMMA ClientOrder ==
    ASSUME RpcTransportAssumption, NoneAssumption, IInv, UNCHANGED <<srv, confused>>,
           \A d \in Sure : InOrder(toServer'[d], chan'[d]),
           \A d \in Sure : \A p \in PacketsIn(toServer'[d]) :
               \/ p \in PacketsIn(toServer[d]) \/ p.type # "REQUEST"
               \/ p.call[3] \in Nat /\ p.call[3] >= rpcID[d] - 1
    PROVE  Order'
<1>1. UNCHANGED <<Sure, SureCalls>>
  BY DEF Sure, SureCalls
<1>2. ASSUME NEW d \in Sure, NEW s \in Slots, NEW k \in SureCalls, srv[s].req = k, k[1] = d
      PROVE  Behind(srv[s], toServer'[d])
  <2>1. srv[s].id = k[3] /\ srv[s].id # 0 /\ k[3] \in Nat /\ d \in Stable /\ d \in Clients
    BY <1>2, SureFacts DEF IInv
  <2>2. ServerOK(srv[s], rpcID) /\ rpcID[d] \in Nat
    BY <2>1 DEF IInv, Types, BaseTypes
  <2>3. k[3] < rpcID[d]
    BY <1>2, <2>1, <2>2 DEF ServerOK
  <2>4. Behind(srv[s], toServer[d])
    BY <1>2 DEF IInv, Order
  <2> SUFFICES ASSUME NEW p \in PacketsIn(toServer'[d]), p.type = "REQUEST"
               PROVE  k[3] <= p.call[3]
    BY <1>2 DEF Behind
  <2>5. CASE p \in PacketsIn(toServer[d])
    BY <1>2, <2>4, <2>5 DEF Behind
  <2>6. CASE p.call[3] \in Nat /\ p.call[3] >= rpcID[d] - 1
    BY <2>1, <2>2, <2>3, <2>6
  <2> QED BY <2>5, <2>6
<1> QED BY <1>1, <1>2 DEF Order

(* A step that leaves the packets to the server as they are.               *)
LEMMA ClientOrderSame ==
    ASSUME RpcTransportAssumption, NoneAssumption, IInv, UNCHANGED <<srv, confused, toServer>>,
           \A d \in Sure : chan'[d].call # None =>
               chan[d].call # None /\ chan'[d].id = chan[d].id
    PROVE  Order'
<1>1. \A d \in Sure : InOrder(toServer'[d], chan'[d])
  BY OtherChannelInOrder DEF IInv, Order
<1> QED BY <1>1, ClientOrder

NewCall(c) == <<c, boot[c], rpcID[c]>>

LEMMA StartCallFacts ==
    ASSUME RpcTransportAssumption, NoneAssumption, Types,
           NEW c \in Clients, NEW bcast \in BOOLEAN, StartCall(c, bcast)
    PROVE  /\ chan[c].call = None /\ rpcID[c] \in 1 .. MaxID
           /\ NewCall(c) \in Calls
           /\ chan'[c].call = NewCall(c) /\ chan'[c].id = rpcID[c]
           /\ chan'[c].bits = {"WAITING", "TIMEOUT"}
           /\ \A d \in Clients \ {c} : chan'[d] = chan[d] /\ rpcID'[d] = rpcID[d]
           /\ rpcID'[c] = rpcID[c] + 1
           /\ \E p \in ServerPackets : /\ p.type = "REQUEST" /\ p.call = NewCall(c)
                                       /\ toServer' = Enqueue(toServer, c, p)
           /\ UNCHANGED <<boot, outcome, confused, srv, knownBoot, toClient, executions>>
<1> DEFINE call == <<c, boot[c], rpcID[c]>>
           ch == [chan[c] EXCEPT !.call = call, !.id = rpcID[c], !.bcast = bcast,
                                 !.reqHint = chan[c].hint, !.plsAck = FALSE,
                                 !.tries = 0]
<1>1. /\ chan[c].call = None
      /\ rpcID[c] <= IF c \in Unstable THEN 1 ELSE MaxID
      /\ rpcID' = [rpcID EXCEPT ![c] = @ + 1]
      /\ chan' = [chan EXCEPT ![c] = Waiting(ch)]
      /\ toServer' = Enqueue(toServer, c, Request(ch))
      /\ UNCHANGED <<boot, outcome, confused, srv, knownBoot, toClient, executions>>
  BY DEF StartCall
<1>2. /\ MaxID \in Nat \ {0} /\ MaxTries \in Nat \ {0}
      /\ rpcID \in [Clients -> 1 .. MaxID + 1] /\ boot \in [Clients -> 1 .. MaxBoots]
      /\ chan \in [Clients -> ChannelStates]
  BY DEF RpcTransportAssumption, Types, BaseTypes
<1>3. rpcID[c] \in 1 .. MaxID
  BY <1>1, <1>2
<1>4. call \in Calls /\ call[1] = c /\ call[2] = boot[c] /\ call[3] = rpcID[c]
  BY <1>2, <1>3, CallFacts
<1>5. ch \in ChannelStates /\ ch.call = call /\ ch.id = rpcID[c]
  <2> HIDE DEF call
  <2>1. chan[c] \in ChannelStates /\ 0 \in 0 .. MaxTries - 1 /\ rpcID[c] \in 0 .. MaxID
    BY <1>2, <1>3
  <2> QED BY <1>4, <2>1 DEF ChannelStates, NoneOr
<1> HIDE DEF call, ch
<1>6. Request(ch) \in ServerPackets /\ Request(ch).type = "REQUEST" /\ Request(ch).call = call
  BY <1>4, <1>5, RequestFacts
<1>7. \E p \in ServerPackets : p.type = "REQUEST" /\ p.call = call /\ toServer' = Enqueue(toServer, c, p)
  BY <1>1, <1>6
<1>8. chan'[c] = Waiting(ch) /\ \A d \in Clients \ {c} : chan'[d] = chan[d]
  BY <1>1, <1>2
<1>9. chan'[c].call = call /\ chan'[c].id = rpcID[c] /\ chan'[c].bits = {"WAITING", "TIMEOUT"}
  BY <1>5, <1>8, WaitingFacts
<1>10. rpcID'[c] = rpcID[c] + 1 /\ \A d \in Clients \ {c} : rpcID'[d] = rpcID[d]
  BY <1>1, <1>2
<1> QED BY <1>1, <1>3, <1>4, <1>7, <1>8, <1>9, <1>10 DEF call, NewCall

(* What becomes of the packets from a client when c sends p.               *)
LEMMA SentPackets ==
    ASSUME Types, NEW c \in Clients, NEW p \in ServerPackets,
           toServer' = Enqueue(toServer, c, p)
    PROVE  /\ \A d \in Clients \ {c} : toServer'[d] = toServer[d]
           /\ PacketsIn(toServer'[c]) \subseteq PacketsIn(toServer[c]) \cup {p}
           /\ \A ch, ch2 :
                /\ InOrder(toServer[c], ch)
                /\ p.type = "REQUEST" => \A r \in PacketsIn(toServer[c]) : Before(r, p.call[3])
                /\ ch2.call # None => Before(p, ch2.id) /\ \A r \in PacketsIn(toServer[c]) : Before(r, ch2.id)
                => InOrder(toServer'[c], ch2)
<1>1. toServer \in [Clients -> Seq(ServerPackets)] /\ toServer[c] \in Seq(ServerPackets)
  BY DEF Types, ToServerOK
<1>2. Sends(ServerPackets, toServer, toServer', c, p)
  BY <1>1, EnqueueFacts
<1>3. ASSUME NEW ch, NEW ch2, InOrder(toServer[c], ch),
             p.type = "REQUEST" => \A r \in PacketsIn(toServer[c]) : Before(r, p.call[3]),
             ch2.call # None => Before(p, ch2.id) /\ \A r \in PacketsIn(toServer[c]) : Before(r, ch2.id)
      PROVE  InOrder(toServer'[c], ch2)
  <2>1. CASE toServer'[c] = toServer[c]
    BY <1>3, <2>1 DEF InOrder
  <2>2. CASE toServer'[c] # toServer[c]
    <3>1. /\ Len(toServer'[c]) = Len(toServer[c]) + 1
          /\ toServer'[c][Len(toServer[c]) + 1] = p
          /\ \A i \in 1 .. Len(toServer[c]) : toServer'[c][i] = toServer[c][i]
      BY <1>2, <2>2 DEF Sends
    <3>2. Len(toServer[c]) \in Nat
      BY <1>1
    <3> DEFINE q == toServer[c]
               q2 == toServer'[c]
    <3>3. /\ Len(q2) = Len(q) + 1 /\ q2[Len(q) + 1] = p /\ Len(q) \in Nat
          /\ \A i \in 1 .. Len(q) : q2[i] = q[i]
          /\ InOrder(q, ch)
          /\ p.type = "REQUEST" => \A r \in PacketsIn(q) : Before(r, p.call[3])
          /\ ch2.call # None => Before(p, ch2.id) /\ \A r \in PacketsIn(q) : Before(r, ch2.id)
      BY <1>3, <3>1, <3>2
    <3> HIDE DEF q, q2
    <3>4. InOrder(q2, ch2)
      BY <3>3, AppendInOrder
    <3> QED BY <3>4 DEF q2
  <2> QED BY <2>1, <2>2
<1> QED BY <1>2, <1>3 DEF Sends

LEMMA StartCallKeeps ==
    ASSUME RpcTransportAssumption, NoneAssumption, IInv,
           NEW c \in Clients, NEW bcast \in BOOLEAN, bcast => c \in Broadcasters,
           StartCall(c, bcast)
    PROVE  IInv'
<1> DEFINE call == NewCall(c)
<1>1. Types /\ Types' /\ Grows
  BY StartCallTypes DEF IInv
<1>2. /\ chan[c].call = None /\ rpcID[c] \in 1 .. MaxID /\ call \in Calls
      /\ chan'[c].call = call /\ chan'[c].id = rpcID[c]
      /\ chan'[c].bits = {"WAITING", "TIMEOUT"}
      /\ \A d \in Clients \ {c} : chan'[d] = chan[d] /\ rpcID'[d] = rpcID[d]
      /\ rpcID'[c] = rpcID[c] + 1
      /\ \E p \in ServerPackets : /\ p.type = "REQUEST" /\ p.call = call
                                  /\ toServer' = Enqueue(toServer, c, p)
      /\ UNCHANGED <<boot, outcome, confused, srv, knownBoot, toClient, executions>>
  BY <1>1, StartCallFacts
<1>3. call[3] = rpcID[c] /\ call[1] = c
  BY DEF NewCall
<1> HIDE DEF call
<1>4. PICK p \in ServerPackets : p.type = "REQUEST" /\ p.call = call /\ toServer' = Enqueue(toServer, c, p)
  BY <1>2
<1>5. /\ \A d \in Clients \ {c} : toServer'[d] = toServer[d]
      /\ PacketsIn(toServer'[c]) \subseteq PacketsIn(toServer[c]) \cup {p}
  BY <1>1, <1>4, SentPackets
<1>6. ASSUME NEW k \in SureCalls, executions[k] # 0, Outstanding(k)' PROVE Outstanding(k)
  <2>1. k \in StableCalls /\ k[1] \in Clients /\ k[3] < rpcID[k[1]]
    BY <1>1, <1>6, SureFacts DEF IInv, CallInv, NotYetIssued
  <2>2. k # call
    BY <1>2, <1>3, <2>1
  <2> QED BY <1>2, <1>4, <1>5, <1>6, <2>1, <2>2 DEF Outstanding
<1>7. ASSUME NEW k \in SureCalls, Closing(k)' PROVE Closing(k)
  <2>1. k[1] \in Clients
    BY <1>1, SureFacts
  <2> QED BY <1>2, <1>4, <1>5, <1>7, <2>1 DEF Closing
<1>8. ServerInv' /\ CallInv'
  <2>1. \A d \in Sure : "INPUT" \in chan'[d].bits =>
           "INPUT" \in chan[d].bits /\ chan'[d].input = chan[d].input
    BY <1>1, <1>2, SureFacts
  <2> QED BY <1>1, <1>2, <1>6, <1>7, <2>1, ClientKeeps
<1>9. Order'
  <2>1. ASSUME NEW d \in Sure PROVE InOrder(toServer'[d], chan'[d])
    <3>1. InOrder(toServer[d], chan[d]) /\ d \in Clients
      BY <1>1, SureFacts DEF IInv, Order
    <3>2. CASE d # c
      BY <1>2, <1>5, <3>1, <3>2
    <3>3. CASE d = c
      <4>1. \A r \in PacketsIn(toServer[c]) : Before(r, rpcID[c])
        BY <1>1, <3>3, SureFacts DEF Before
      <4>2. Before(p, rpcID[c])
        BY <1>2, <1>3, <1>4 DEF Before
      <4>3. InOrder(toServer'[c], chan'[c])
        BY <1>1, <1>2, <1>3, <1>4, <3>1, <3>3, <4>1, <4>2, SentPackets
      <4> QED BY <3>3, <4>3
    <3> QED BY <3>2, <3>3
  <2>2. ASSUME NEW d \in Sure, NEW r \in PacketsIn(toServer'[d])
        PROVE  \/ r \in PacketsIn(toServer[d]) \/ r.type # "REQUEST"
               \/ r.call[3] \in Nat /\ r.call[3] >= rpcID[d] - 1
    <3>1. d \in Clients
      BY <1>1, SureFacts
    <3>2. rpcID[c] \in Nat /\ rpcID[c] >= rpcID[c] - 1
      BY <1>2
    <3> QED BY <1>3, <1>4, <1>5, <3>1, <3>2
  <2> QED BY <1>2, <2>1, <2>2, ClientOrder
<1> QED BY <1>1, <1>8, <1>9 DEF IInv

(* A step of client c that leaves its packets to the server as they are:   *)
(* the call goes on or ends.                                               *)
LEMMA QuietChannelKeeps ==
    ASSUME RpcTransportAssumption, NoneAssumption, IInv, Types', Grows, NEW c \in Clients,
           UNCHANGED <<srv, executions, confused, toServer, toClient>>,
           \A d \in Clients \ {c} : chan'[d] = chan[d],
           \/ chan'[c].call = chan[c].call /\ chan'[c].id = chan[c].id
           \/ chan'[c].call = None
           \/ c \notin Stable,
           "INPUT" \in chan'[c].bits => "INPUT" \in chan[c].bits /\ chan'[c].input = chan[c].input
    PROVE  IInv'
<1>1. ASSUME NEW k \in SureCalls, executions[k] # 0, Outstanding(k)' PROVE Outstanding(k)
  <2>1. k[1] \in Clients /\ k[1] \in Stable /\ k # None
    BY SureFacts DEF IInv, Sure
  <2> QED BY <1>1, <2>1 DEF Outstanding
<1>2. ASSUME NEW k \in SureCalls, Closing(k)' PROVE Closing(k)
  BY <1>2 DEF Closing
<1>3. ServerInv' /\ CallInv'
  <2>1. \A d \in Sure : "INPUT" \in chan'[d].bits =>
           "INPUT" \in chan[d].bits /\ chan'[d].input = chan[d].input
    BY SureFacts DEF IInv
  <2> QED BY <1>1, <1>2, <2>1, ClientKeeps
<1>4. Order'
  <2>1. \A d \in Sure : chan'[d].call # None => chan[d].call # None /\ chan'[d].id = chan[d].id
    BY SureFacts DEF IInv
  <2> QED BY <2>1, ClientOrderSame
<1> QED BY <1>3, <1>4 DEF IInv

LEMMA FinishFacts ==
    ASSUME Types, NEW c \in Clients, NEW result, Finish(c, result)
    PROVE  /\ chan'[c].call = None /\ chan'[c].bits = {}
           /\ \A d \in Clients \ {c} : chan'[d] = chan[d]
           /\ outcome' = [k \in Stable |-> IF k = c THEN result ELSE outcome[k]]
<1>1. chan' = [chan EXCEPT ![c] = [NewChannel EXCEPT !.hint = chan[c].hint]]
      /\ outcome' = [k \in Stable |-> IF k = c THEN result ELSE outcome[k]]
  BY DEF Finish
<1>2. chan \in [Clients -> ChannelStates]
  BY DEF Types, BaseTypes
<1>3. [NewChannel EXCEPT !.hint = chan[c].hint].call = None
      /\ [NewChannel EXCEPT !.hint = chan[c].hint].bits = {}
  BY DEF NewChannel
<1> QED BY <1>1, <1>2, <1>3

LEMMA Rpc_TimeoutKeeps ==
    ASSUME RpcTransportAssumption, NoneAssumption, IInv, NEW c \in Clients, Rpc_Timeout(c)
    PROVE  IInv' /\ chan'[c].call = chan[c].call /\ \A d \in Clients \ {c} : chan'[d] = chan[d]
<1>1. Types /\ Types'
  BY Rpc_TimeoutTypes DEF IInv
<1>2. /\ chan' = [chan EXCEPT ![c] = [chan[c] EXCEPT !.bits = @ \ {"TIMEOUT"}]]
      /\ UNCHANGED <<rpcID, boot, outcome, confused, srv, knownBoot, toServer, toClient, executions>>
  BY DEF Rpc_Timeout
<1>3. chan \in [Clients -> ChannelStates] /\ chan[c] \in ChannelStates
  BY <1>1 DEF Types, BaseTypes
<1>4. /\ [chan[c] EXCEPT !.bits = @ \ {"TIMEOUT"}].call = chan[c].call
      /\ [chan[c] EXCEPT !.bits = @ \ {"TIMEOUT"}].id = chan[c].id
      /\ [chan[c] EXCEPT !.bits = @ \ {"TIMEOUT"}].input = chan[c].input
      /\ [chan[c] EXCEPT !.bits = @ \ {"TIMEOUT"}].bits = chan[c].bits \ {"TIMEOUT"}
  BY <1>3 DEF ChannelStates
<1>5. /\ chan'[c].call = chan[c].call /\ chan'[c].id = chan[c].id
      /\ chan'[c].input = chan[c].input /\ chan'[c].bits \subseteq chan[c].bits
      /\ \A d \in Clients \ {c} : chan'[d] = chan[d]
  BY <1>2, <1>3, <1>4
<1>6. IInv'
  BY <1>1, <1>2, <1>5, SameIDs, QuietChannelKeeps
<1> QED BY <1>5, <1>6

LEMMA DoInputFacts ==
    ASSUME RpcTransportAssumption, NoneAssumption, Types, NEW c \in Clients, DoInput(c)
    PROVE  /\ chan[c].call # None /\ "INPUT" \in chan[c].bits
           /\ "INPUT" \notin chan'[c].bits
           /\ \A d \in Clients \ {c} : chan'[d] = chan[d]
           /\ \/ /\ chan[c].input.type = "REPLY" /\ chan[c].input.id = chan[c].id
                 /\ chan'[c].call = None
                 /\ outcome' = [k \in Stable |-> IF k = c THEN chan[c].input.result ELSE outcome[k]]
              \/ chan'[c].call = chan[c].call /\ chan'[c].id = chan[c].id /\ outcome' = outcome
           /\ UNCHANGED <<rpcID, boot, confused, srv, knownBoot, toServer, toClient, executions>>
<1> DEFINE ch == chan[c]
           ch2 == IF ch.bcast \/ ch.input.id # ch.id THEN ch ELSE [ch EXCEPT !.tries = 0]
<1>1. /\ ch.call # None /\ "INPUT" \in ch.bits
      /\ \/ ch.input.type = "REPLY" /\ ch.input.id = ch.id /\ Finish(c, ch.input.result)
         \/ /\ ch.input.type \in {"ACK", "NACK"} \/ ch.input.id # ch.id
            /\ chan' = [chan EXCEPT ![c] = Waiting(ch2)] /\ UNCHANGED outcome
      /\ UNCHANGED <<rpcID, boot, confused, srv, knownBoot, toServer, toClient, executions>>
  BY DEF DoInput
<1>2. chan \in [Clients -> ChannelStates] /\ ch \in ChannelStates
  BY DEF Types, BaseTypes
<1>3. CASE ch.input.type = "REPLY" /\ ch.input.id = ch.id /\ Finish(c, ch.input.result)
  BY <1>1, <1>3, FinishFacts
<1>4. CASE chan' = [chan EXCEPT ![c] = Waiting(ch2)] /\ UNCHANGED outcome
  <2>1. ch2 \in ChannelStates /\ ch2.call = ch.call /\ ch2.id = ch.id
    <3>1. [ch EXCEPT !.tries = 0] \in ChannelStates
      BY <1>2 DEF ChannelStates, RpcTransportAssumption
    <3>2. [ch EXCEPT !.tries = 0].call = ch.call /\ [ch EXCEPT !.tries = 0].id = ch.id
      BY <1>2 DEF ChannelStates
    <3> HIDE DEF ch
    <3> QED BY <1>2, <3>1, <3>2
  <2> HIDE DEF ch2
  <2>2. chan'[c] = Waiting(ch2) /\ \A d \in Clients \ {c} : chan'[d] = chan[d]
    BY <1>2, <1>4
  <2>3. chan'[c].call = ch.call /\ chan'[c].id = ch.id /\ chan'[c].bits = {"WAITING", "TIMEOUT"}
    BY <2>1, <2>2, WaitingFacts
  <2> QED BY <1>1, <1>4, <2>2, <2>3
<1> QED BY <1>1, <1>3, <1>4

LEMMA DoInputKeeps ==
    ASSUME RpcTransportAssumption, NoneAssumption, IInv, NEW c \in Clients, DoInput(c)
    PROVE  IInv'
<1>1. Types /\ Types'
  BY DoInputTypes DEF IInv
<1> QED BY <1>1, DoInputFacts, SameIDs, QuietChannelKeeps

LEMMA DoTimeoutFacts ==
    ASSUME RpcTransportAssumption, NoneAssumption, Types, NEW c \in Clients, DoTimeout(c)
    PROVE  /\ chan[c].call # None /\ "INPUT" \notin chan'[c].bits
           /\ \A d \in Clients \ {c} : chan'[d] = chan[d]
           /\ \/ /\ chan'[c].call = chan[c].call /\ chan'[c].id = chan[c].id /\ outcome' = outcome
                 /\ \E p \in ServerPackets : /\ p.type = "REQUEST" /\ p.call = chan[c].call
                                             /\ toServer' = Enqueue(toServer, c, p)
              \/ /\ chan'[c].call = None /\ toServer' = toServer
                 /\ outcome' = [k \in Stable |-> IF k = c THEN None ELSE outcome[k]]
           /\ UNCHANGED <<rpcID, boot, confused, srv, knownBoot, toClient, executions>>
<1> DEFINE ch == [chan[c] EXCEPT !.tries = @ + 1, !.reqHint = chan[c].hint, !.plsAck = TRUE]
<1>1. /\ ch.call # None
      /\ IF ch.tries < MaxTries
         THEN /\ chan' = [chan EXCEPT ![c] = Waiting(ch)]
              /\ toServer' = Enqueue(toServer, c, Request(ch))
              /\ UNCHANGED outcome
         ELSE /\ Finish(c, None)
              /\ UNCHANGED toServer
      /\ UNCHANGED <<rpcID, boot, confused, srv, knownBoot, toClient, executions>>
  BY DEF DoTimeout
<1>2. /\ chan \in [Clients -> ChannelStates] /\ chan[c] \in ChannelStates
      /\ ChanOK(chan[c], c, rpcID[c], boot[c]) /\ MaxTries \in Nat
  BY DEF Types, BaseTypes, RpcTransportAssumption
<1>3. ch.call = chan[c].call /\ ch.id = chan[c].id /\ ch.tries = chan[c].tries + 1
  BY <1>2 DEF ChannelStates
<1>6. ASSUME ch.tries < MaxTries PROVE ch \in ChannelStates
  <2>1. chan[c].tries + 1 \in 0 .. MaxTries - 1
    BY <1>2, <1>3, <1>6 DEF ChannelStates
  <2> QED BY <1>2, <2>1 DEF ChannelStates
<1> HIDE DEF ch
<1>4. CASE ch.tries < MaxTries
  <2>0. ch \in ChannelStates
    BY <1>4, <1>6
  <2>1. chan'[c] = Waiting(ch) /\ \A d \in Clients \ {c} : chan'[d] = chan[d]
    BY <1>1, <1>2, <1>4
  <2>2. chan'[c].call = ch.call /\ chan'[c].id = ch.id /\ chan'[c].bits = {"WAITING", "TIMEOUT"}
    BY <1>3, <2>0, <2>1, WaitingFacts
  <2>3. Request(ch) \in ServerPackets /\ Request(ch).type = "REQUEST" /\ Request(ch).call = ch.call
    BY <1>1, <1>2, <1>3, <2>0, RequestFacts DEF ChanOK
  <2>4. \E p \in ServerPackets : /\ p.type = "REQUEST" /\ p.call = chan[c].call
                                 /\ toServer' = Enqueue(toServer, c, p)
    BY <1>1, <1>3, <1>4, <2>3
  <2> QED BY <1>1, <1>3, <1>4, <2>1, <2>2, <2>4
<1>5. CASE ~(ch.tries < MaxTries)
  BY <1>1, <1>3, <1>5, FinishFacts
<1> QED BY <1>4, <1>5

LEMMA DoTimeoutKeeps ==
    ASSUME RpcTransportAssumption, NoneAssumption, IInv, NEW c \in Clients, DoTimeout(c)
    PROVE  IInv'
<1>1. Types /\ Types' /\ Grows
  BY DoTimeoutTypes, SameIDs DEF IInv, DoTimeout
<1>2. /\ chan[c].call # None /\ "INPUT" \notin chan'[c].bits
      /\ \A d \in Clients \ {c} : chan'[d] = chan[d]
      /\ \/ /\ chan'[c].call = chan[c].call /\ chan'[c].id = chan[c].id
            /\ \E p \in ServerPackets : /\ p.type = "REQUEST" /\ p.call = chan[c].call
                                        /\ toServer' = Enqueue(toServer, c, p)
         \/ chan'[c].call = None /\ toServer' = toServer
      /\ UNCHANGED <<rpcID, boot, confused, srv, knownBoot, toClient, executions>>
  BY <1>1, DoTimeoutFacts
<1>3. CASE chan'[c].call = None /\ toServer' = toServer
  BY <1>1, <1>2, <1>3, QuietChannelKeeps
<1>4. CASE /\ chan'[c].call = chan[c].call /\ chan'[c].id = chan[c].id
           /\ \E p \in ServerPackets : /\ p.type = "REQUEST" /\ p.call = chan[c].call
                                       /\ toServer' = Enqueue(toServer, c, p)
  <2>1. PICK p \in ServerPackets : /\ p.type = "REQUEST" /\ p.call = chan[c].call
                                   /\ toServer' = Enqueue(toServer, c, p)
    BY <1>4
  <2>2. /\ \A d \in Clients \ {c} : toServer'[d] = toServer[d]
        /\ PacketsIn(toServer'[c]) \subseteq PacketsIn(toServer[c]) \cup {p}
    BY <1>1, <2>1, SentPackets
  <2>3. chan[c].call \in Calls /\ chan[c].call[1] = c /\ chan[c].call[3] = chan[c].id
        /\ chan[c].id = rpcID[c] - 1 /\ chan[c].call[3] \in 1 .. MaxID
    <3>1. ChanOK(chan[c], c, rpcID[c], boot[c])
      BY <1>1 DEF Types
    <3> QED BY <1>2, <3>1, CallFacts DEF ChanOK
  <2>4. ASSUME NEW k \in SureCalls, executions[k] # 0, Outstanding(k)' PROVE Outstanding(k)
    <3>1. k[1] \in Clients
      BY <1>1, SureFacts
    <3>2. CASE k[1] = c
      <4>1. \/ chan[k[1]].call = k
            \/ \E r \in PacketsIn(toServer[k[1]]) \cup {p} : r.type = "REQUEST" /\ r.call = k
        BY <1>4, <2>2, <2>4, <3>2 DEF Outstanding
      <4> QED BY <2>1, <3>2, <4>1 DEF Outstanding
    <3>3. CASE k[1] # c
      BY <1>2, <2>2, <2>4, <3>1, <3>3 DEF Outstanding
    <3> QED BY <3>2, <3>3
  <2>5. ASSUME NEW k \in SureCalls, Closing(k)' PROVE Closing(k)
    <3>1. k[1] \in Clients
      BY <1>1, SureFacts
    <3> QED BY <1>2, <2>1, <2>2, <2>5, <3>1 DEF Closing
  <2>6. ServerInv' /\ CallInv'
    <3>1. \A d \in Sure : "INPUT" \in chan'[d].bits =>
             "INPUT" \in chan[d].bits /\ chan'[d].input = chan[d].input
      BY <1>1, <1>2, SureFacts
    <3> QED BY <1>1, <1>2, <2>4, <2>5, <3>1, ClientKeeps
  <2>7. ASSUME NEW d \in Sure PROVE InOrder(toServer'[d], chan'[d])
    <3>1. InOrder(toServer[d], chan[d]) /\ d \in Clients
      BY <1>1, SureFacts DEF IInv, Order
    <3>2. CASE d # c
      BY <1>2, <2>2, <3>1, <3>2
    <3>3. CASE d = c
      <4>1. \A r \in PacketsIn(toServer[c]) : Before(r, chan[c].id)
        BY <1>2, <3>1, <3>3 DEF InOrder
      <4>2. Before(p, chan[c].id) /\ p.call[3] = chan[c].id
        BY <2>1, <2>3 DEF Before
      <4>3. InOrder(toServer'[c], chan'[c])
        BY <1>1, <1>4, <2>1, <3>1, <3>3, <4>1, <4>2, SentPackets
      <4> QED BY <3>3, <4>3
    <3> QED BY <3>2, <3>3
  <2>8. ASSUME NEW d \in Sure, NEW r \in PacketsIn(toServer'[d])
        PROVE  \/ r \in PacketsIn(toServer[d]) \/ r.type # "REQUEST"
               \/ r.call[3] \in Nat /\ r.call[3] >= rpcID[d] - 1
    <3>1. d \in Clients
      BY <1>1, SureFacts
    <3>2. chan[c].call[3] \in Nat /\ chan[c].call[3] >= rpcID[c] - 1
      BY <2>3
    <3> QED BY <2>1, <2>2, <3>1, <3>2
  <2>9. Order'
    BY <1>2, <2>7, <2>8, ClientOrder
  <2> QED BY <1>1, <2>6, <2>9 DEF IInv
<1> QED BY <1>2, <1>3, <1>4

LEMMA RebootKeeps ==
    ASSUME RpcTransportAssumption, NoneAssumption, IInv, NEW c \in Clients, Reboot(c)
    PROVE  IInv' /\ c \notin Stable /\ \A d \in Clients \ {c} : chan'[d] = chan[d] /\ rpcID'[d] = rpcID[d]
<1>1. Types /\ Types' /\ Grows
  BY RebootTypes DEF IInv
<1>2. /\ c \notin Stable
      /\ UNCHANGED <<outcome, confused, srv, knownBoot, toServer, toClient, executions>>
  BY DEF Reboot, Stable
<1>3. /\ \A d \in Clients \ {c} : chan'[d] = chan[d] /\ rpcID'[d] = rpcID[d]
      /\ chan'[c].bits = {}
  <2>1. chan \in [Clients -> ChannelStates] /\ rpcID \in [Clients -> 1 .. MaxID + 1]
    BY <1>1 DEF Types, BaseTypes
  <2>2. chan' = [chan EXCEPT ![c] = NewChannel] /\ rpcID' = [rpcID EXCEPT ![c] = 1]
    BY DEF Reboot
  <2> QED BY <2>1, <2>2 DEF NewChannel
<1>4. IInv'
  BY <1>1, <1>2, <1>3, QuietChannelKeeps
<1> QED BY <1>2, <1>3, <1>4

(* What becomes of the packets from a client when its first one leaves.    *)
LEMMA TakenPackets ==
    ASSUME Types, NEW c \in Clients, toServer[c] # <<>>,
           toServer' = [toServer EXCEPT ![c] = Tail(@)]
    PROVE  /\ \A d \in Clients \ {c} : toServer'[d] = toServer[d]
           /\ Head(toServer[c]) \in PacketsIn(toServer[c])
           /\ \A d \in Clients : PacketsIn(toServer'[d]) \subseteq PacketsIn(toServer[d])
           /\ \A ch : InOrder(toServer[c], ch) =>
                /\ InOrder(toServer'[c], ch)
                /\ \A r \in PacketsIn(toServer'[c]) :
                      r.type = "REQUEST" => Before(Head(toServer[c]), r.call[3])
<1>1. toServer \in [Clients -> Seq(ServerPackets)] /\ Len(toServer[c]) \in Nat
  BY DEF Types, ToServerOK
<1>2. Takes(ServerPackets, toServer, toServer', c)
  BY <1>1, TailFacts
<1> DEFINE q == toServer[c]
           q2 == toServer'[c]
<1>3. /\ Len(q) \in Nat /\ Len(q2) = Len(q) - 1 /\ Len(q) > 0 /\ Head(q) = q[1]
      /\ \A i \in 1 .. Len(q2) : q2[i] = q[i + 1]
  BY <1>1, <1>2 DEF Takes
<1> HIDE DEF q, q2
<1>4. ASSUME NEW ch, InOrder(q, ch)
      PROVE  /\ InOrder(q2, ch)
             /\ \A r \in PacketsIn(q2) : r.type = "REQUEST" => Before(Head(q), r.call[3])
  <2>1. InOrder(q2, ch)
    BY <1>3, <1>4, TailInOrder
  <2>2. ASSUME NEW i \in 1 .. Len(q2), q2[i].type = "REQUEST" PROVE Before(Head(q), q2[i].call[3])
    <3>1. 1 \in 1 .. Len(q) /\ i + 1 \in 1 .. Len(q) /\ 1 < i + 1
      BY <1>3
    <3> QED BY <1>3, <1>4, <2>2, <3>1 DEF InOrder
  <2> QED BY <2>1, <2>2 DEF PacketsIn
<1> QED BY <1>2, <1>4 DEF Takes, q, q2

LEMMA TakenAnswers ==
    ASSUME Types, NEW c \in Clients, toClient[c] # <<>>,
           toClient' = [toClient EXCEPT ![c] = Tail(@)]
    PROVE  /\ Head(toClient[c]) \in PacketsIn(toClient[c])
           /\ \A d \in Clients : PacketsIn(toClient'[d]) \subseteq PacketsIn(toClient[d])
<1>1. toClient \in [Clients -> Seq(ClientPackets)]
  BY DEF Types, ToClientOK
<1>2. Takes(ClientPackets, toClient, toClient', c)
  BY <1>1, TailFacts
<1> QED BY <1>2 DEF Takes

ClosedCall(c, n) == <<c, boot[c], n>>

LEMMA RpcClientDispatchFacts ==
    ASSUME RpcTransportAssumption, NoneAssumption, Types, NEW c \in Clients,
           RpcClientDispatch(c), NEW p, p = Head(toClient[c])
    PROVE  /\ toClient[c] # <<>> /\ toClient' = [toClient EXCEPT ![c] = Tail(@)]
           /\ \A d \in Clients \ {c} : chan'[d] = chan[d]
           /\ chan'[c].call = chan[c].call /\ chan'[c].id = chan[c].id
           /\ "INPUT" \in chan'[c].bits =>
                 \/ "INPUT" \in chan[c].bits /\ chan'[c].input = chan[c].input
                 \/ chan'[c].input = p
           /\ \/ toServer' = toServer
              \/ /\ p.type = "CLOSE" /\ chan[c].call = None
                 /\ \E r \in ServerPackets : /\ r.type = "CLOSE" /\ r.call = ClosedCall(c, p.id)
                                             /\ toServer' = Enqueue(toServer, c, r)
           /\ UNCHANGED <<rpcID, boot, outcome, confused, srv, knownBoot, executions>>
<1> DEFINE answer == [type |-> "CLOSE", call |-> <<c, boot[c], p.id>>,
                      bcast |-> FALSE, hint |-> p.hint, plsAck |-> FALSE]
           ch == [chan[c] EXCEPT !.bits = {"INPUT"}, !.input = p, !.hint = p.hint]
<1>1. /\ toClient[c] # <<>>
      /\ toClient' = [toClient EXCEPT ![c] = Tail(@)]
      /\ IF p.type = "CLOSE"
         THEN /\ toServer' = IF chan[c].call = None THEN Enqueue(toServer, c, answer) ELSE toServer
              /\ UNCHANGED chan
         ELSE /\ \/ chan' = [chan EXCEPT ![c] = ch]
                 \/ chan' = chan
              /\ UNCHANGED toServer
      /\ UNCHANGED <<rpcID, boot, outcome, confused, srv, knownBoot, executions>>
  BY DEF RpcClientDispatch
<1>2. /\ chan \in [Clients -> ChannelStates] /\ chan[c] \in ChannelStates
      /\ AnswerOK(p, c, rpcID) /\ boot[c] \in 1 .. MaxBoots
  BY <1>1, SameIDs, TakeFromClientQueue DEF Types, BaseTypes
<1>3. CASE p.type = "CLOSE" /\ chan[c].call = None
  <2>1. p.id \in 1 .. MaxID /\ p.hint \in Slots
    BY <1>2, <1>3 DEF AnswerOK, ClientPackets
  <2>2. <<c, boot[c], p.id>> \in Calls
    BY <1>2, <2>1, CallFacts
  <2>3. answer \in ServerPackets
    BY <2>1, <2>2 DEF ServerPackets
  <2>4. answer.type = "CLOSE" /\ answer.call = ClosedCall(c, p.id)
    BY DEF ClosedCall
  <2> HIDE DEF answer
  <2>5. \E r \in ServerPackets : /\ r.type = "CLOSE" /\ r.call = ClosedCall(c, p.id)
                                 /\ toServer' = Enqueue(toServer, c, r)
    BY <1>1, <1>3, <2>3, <2>4
  <2> QED BY <1>1, <1>3, <2>5
<1>4. CASE p.type = "CLOSE" /\ chan[c].call # None
  BY <1>1, <1>4
<1>5. CASE p.type # "CLOSE"
  <2>1. ch.call = chan[c].call /\ ch.id = chan[c].id /\ ch.input = p
    BY <1>2 DEF ChannelStates
  <2> HIDE DEF ch
  <2>2. CASE chan' = chan
    BY <1>1, <1>5, <2>2
  <2>3. CASE chan' = [chan EXCEPT ![c] = ch]
    BY <1>1, <1>2, <1>5, <2>1, <2>3
  <2> QED BY <1>1, <1>5, <2>2, <2>3
<1> QED BY <1>3, <1>4, <1>5

LEMMA RpcClientDispatchKeeps ==
    ASSUME RpcTransportAssumption, NoneAssumption, IInv, NEW c \in Clients, RpcClientDispatch(c)
    PROVE  IInv'
<1>p. PICK p : p = Head(toClient[c])
  OBVIOUS
<1>1. Types /\ Types' /\ Grows
  BY RpcClientDispatchTypes, SameIDs DEF IInv, RpcClientDispatch
<1>2. /\ toClient[c] # <<>> /\ toClient' = [toClient EXCEPT ![c] = Tail(@)]
      /\ \A d \in Clients \ {c} : chan'[d] = chan[d]
      /\ chan'[c].call = chan[c].call /\ chan'[c].id = chan[c].id
      /\ "INPUT" \in chan'[c].bits =>
            \/ "INPUT" \in chan[c].bits /\ chan'[c].input = chan[c].input
            \/ chan'[c].input = p
      /\ \/ toServer' = toServer
         \/ /\ p.type = "CLOSE" /\ chan[c].call = None
            /\ \E r \in ServerPackets : /\ r.type = "CLOSE" /\ r.call = ClosedCall(c, p.id)
                                        /\ toServer' = Enqueue(toServer, c, r)
      /\ UNCHANGED <<rpcID, boot, outcome, confused, srv, knownBoot, executions>>
  BY <1>1, <1>p, RpcClientDispatchFacts
<1>3. /\ p \in PacketsIn(toClient[c])
      /\ \A d \in Clients : PacketsIn(toClient'[d]) \subseteq PacketsIn(toClient[d])
  BY <1>1, <1>2, <1>p, TakenAnswers
<1>4. /\ \A d \in Sure : \A r \in PacketsIn(toClient'[d]) : r \in PacketsIn(toClient[d])
      /\ \A d \in Sure : "INPUT" \in chan'[d].bits =>
            \/ "INPUT" \in chan[d].bits /\ chan'[d].input = chan[d].input
            \/ chan'[d].input \in PacketsIn(toClient[d])
  <2>1. Sure \subseteq Clients
    BY <1>1, SureFacts
  <2> QED BY <1>2, <1>3, <2>1
<1>5. \A d \in Clients : chan'[d].call = chan[d].call /\ chan'[d].id = chan[d].id
  BY <1>2
<1>6. CASE toServer' = toServer
  <2>1. ASSUME NEW k \in SureCalls, executions[k] # 0, Outstanding(k)' PROVE Outstanding(k)
    <3>1. k[1] \in Clients
      BY <1>1, SureFacts
    <3> QED BY <1>5, <1>6, <2>1, <3>1 DEF Outstanding
  <2>2. ASSUME NEW k \in SureCalls, Closing(k)' PROVE Closing(k)
    <3>1. k[1] \in Clients
      BY <1>1, SureFacts
    <3> QED BY <1>3, <1>6, <2>2, <3>1 DEF Closing
  <2>3. ServerInv' /\ CallInv'
    BY <1>1, <1>2, <1>4, <2>1, <2>2, ClientKeeps
  <2>4. Order'
    BY <1>1, <1>2, <1>5, <1>6, SureFacts, ClientOrderSame
  <2> QED BY <1>1, <2>3, <2>4 DEF IInv
<1>7. CASE /\ p.type = "CLOSE" /\ chan[c].call = None
           /\ \E r \in ServerPackets : /\ r.type = "CLOSE" /\ r.call = ClosedCall(c, p.id)
                                       /\ toServer' = Enqueue(toServer, c, r)
  <2>1. PICK r \in ServerPackets : /\ r.type = "CLOSE" /\ r.call = ClosedCall(c, p.id)
                                   /\ toServer' = Enqueue(toServer, c, r)
    BY <1>7
  <2>2. r.call[1] = c /\ r.call[3] = p.id
    BY <2>1 DEF ClosedCall
  <2>3. /\ \A d \in Clients \ {c} : toServer'[d] = toServer[d]
        /\ PacketsIn(toServer'[c]) \subseteq PacketsIn(toServer[c]) \cup {r}
    BY <1>1, <2>1, SentPackets
  <2>4. ASSUME NEW k \in SureCalls, executions[k] # 0, Outstanding(k)' PROVE Outstanding(k)
    <3>1. k[1] \in Clients
      BY <1>1, SureFacts
    <3> QED BY <1>5, <2>1, <2>3, <2>4, <3>1 DEF Outstanding
  <2>5. ASSUME NEW k \in SureCalls, Closing(k)' PROVE Closing(k)
    <3>1. k[1] \in Clients
      BY <1>1, SureFacts
    <3>2. CASE \E q \in PacketsIn(toClient'[k[1]]) : q.type = "CLOSE" /\ q.id = k[3]
      BY <1>3, <3>1, <3>2 DEF Closing
    <3>3. CASE \E q \in PacketsIn(toServer'[k[1]]) : q.type = "CLOSE" /\ q.call = k
      <4>1. PICK q \in PacketsIn(toServer'[k[1]]) : q.type = "CLOSE" /\ q.call = k
        BY <3>3
      <4>2. CASE q \in PacketsIn(toServer[k[1]])
        BY <4>1, <4>2 DEF Closing
      <4>3. CASE q \notin PacketsIn(toServer[k[1]])
        <5>1. k[1] = c /\ q = r
          BY <2>3, <3>1, <4>1, <4>3
        <5>2. p.type = "CLOSE" /\ p.id = k[3]
          BY <1>7, <2>2, <4>1, <5>1
        <5> QED BY <1>3, <5>1, <5>2 DEF Closing
      <4> QED BY <4>2, <4>3
    <3> QED BY <2>5, <3>2, <3>3 DEF Closing
  <2>6. ServerInv' /\ CallInv'
    BY <1>1, <1>2, <1>4, <2>4, <2>5, ClientKeeps
  <2>7. ASSUME NEW d \in Sure PROVE InOrder(toServer'[d], chan'[d])
    <3>1. InOrder(toServer[d], chan[d]) /\ d \in Clients
      BY <1>1, SureFacts DEF IInv, Order
    <3>2. CASE d # c
      BY <1>2, <2>3, <3>1, <3>2
    <3>3. CASE d = c
      <4>1. chan'[c].call = None /\ r.type # "REQUEST"
        BY <1>5, <1>7, <2>1
      <4>2. InOrder(toServer'[c], chan'[c])
        BY <1>1, <2>1, <3>1, <3>3, <4>1, SentPackets
      <4> QED BY <3>3, <4>2
    <3> QED BY <3>2, <3>3
  <2>8. ASSUME NEW d \in Sure, NEW q \in PacketsIn(toServer'[d])
        PROVE  q \in PacketsIn(toServer[d]) \/ q.type # "REQUEST"
    <3>1. d \in Clients
      BY <1>1, SureFacts
    <3> QED BY <2>1, <2>3, <3>1
  <2>9. Order'
    BY <1>2, <2>7, <2>8, ClientOrder
  <2> QED BY <1>1, <2>6, <2>9 DEF IInv
<1> QED BY <1>2, <1>6, <1>7

LEMMA LoseKeeps ==
    ASSUME RpcTransportAssumption, NoneAssumption, IInv, NEW c \in Clients,
           LoseToServer(c) \/ LoseToClient(c)
    PROVE  IInv'
<1>1. Types /\ Types'
  BY LoseTypes DEF IInv
<1>2. UNCHANGED <<rpcID, boot, chan, outcome, confused, srv, knownBoot, executions>>
  BY DEF LoseToServer, LoseToClient
<1>3. /\ \A d \in Clients : PacketsIn(toServer'[d]) \subseteq PacketsIn(toServer[d])
      /\ \A d \in Clients : PacketsIn(toClient'[d]) \subseteq PacketsIn(toClient[d])
      /\ \A d \in Clients : \A ch : InOrder(toServer[d], ch) => InOrder(toServer'[d], ch)
  <2>1. CASE LoseToServer(c)
    BY <1>1, <2>1, TakenPackets DEF LoseToServer
  <2>2. CASE LoseToClient(c)
    BY <1>1, <2>2, TakenAnswers DEF LoseToClient
  <2> QED BY <2>1, <2>2
<1>4. ASSUME NEW k \in SureCalls, executions[k] # 0, Outstanding(k)' PROVE Outstanding(k)
  <2>1. k[1] \in Clients
    BY <1>1, SureFacts
  <2> QED BY <1>2, <1>3, <1>4, <2>1 DEF Outstanding
<1>5. ASSUME NEW k \in SureCalls, Closing(k)' PROVE Closing(k)
  <2>1. k[1] \in Clients
    BY <1>1, SureFacts
  <2> QED BY <1>3, <1>5, <2>1 DEF Closing
<1>6. ServerInv' /\ CallInv'
  BY <1>1, <1>2, <1>3, <1>4, <1>5, SameIDs, SureFacts, ClientKeeps
<1>7. Order'
  <2>1. \A d \in Sure : InOrder(toServer'[d], chan'[d])
    BY <1>1, <1>2, <1>3, SureFacts DEF IInv, Order
  <2> QED BY <1>1, <1>2, <1>3, <2>1, SureFacts, ClientOrder
<1> QED BY <1>1, <1>6, <1>7 DEF IInv

-----------------------------------------------------------------------------
(* The invariant is kept: the steps of the server processes.               *)

LEMMA SentAnswers ==
    ASSUME Types, NEW c \in Clients, NEW p \in ClientPackets,
           toClient' = Enqueue(toClient, c, p)
    PROVE  /\ \A d \in Clients \ {c} : toClient'[d] = toClient[d]
           /\ PacketsIn(toClient'[c]) \subseteq PacketsIn(toClient[c]) \cup {p}
<1>1. toClient \in [Clients -> Seq(ClientPackets)]
  BY DEF Types, ToClientOK
<1>2. Sends(ClientPackets, toClient, toClient', c, p)
  BY <1>1, EnqueueFacts
<1> QED BY <1>2 DEF Sends

LEMMA ServerBasics ==
    ASSUME RpcTransportAssumption, NoneAssumption, IInv,
           UNCHANGED <<rpcID, chan, confused, toServer>>,
           \A t \in Slots : srv'[t].client = srv[t].client /\ srv'[t].req = srv[t].req
    PROVE  /\ Sure' = Sure /\ SureCalls' = SureCalls /\ OneProcess' /\ Order'
           /\ \A k : Outstanding(k)' <=> Outstanding(k)
<1>1. Sure' = Sure /\ SureCalls' = SureCalls
  BY DEF Sure, SureCalls
<1>2. OneProcess'
  BY <1>1 DEF IInv, ServerInv, OneProcess
<1>3. Order'
  BY <1>1 DEF IInv, Order, InOrder, Behind
<1>4. \A k : Outstanding(k)' <=> Outstanding(k)
  BY DEF Outstanding
<1> QED BY <1>1, <1>2, <1>3, <1>4

LEMMA HistoryBasics ==
    ASSUME RpcTransportAssumption, NoneAssumption, IInv,
           UNCHANGED <<rpcID, chan, confused, executions>>,
           \A d \in Sure : \A p \in PacketsIn(toClient'[d]) :
               p \in PacketsIn(toClient[d]) \/ p.type # "REPLY"
    PROVE  AtMostOnce' /\ Answers' /\ NotYetIssued'
<1>1. Sure' = Sure /\ SureCalls' = SureCalls
  BY DEF Sure, SureCalls
<1>2. AtMostOnce'
  BY <1>1 DEF IInv, CallInv, AtMostOnce
<1>3. Answers'
  <2>1. \A d \in Sure : \A p \in PacketsIn(toClient'[d]) : p.type = "REPLY" => Tells(p, d, executions)
    BY DEF IInv, CallInv, Answers
  <2>2. \A d \in Sure : "INPUT" \in chan[d].bits /\ chan[d].input.type = "REPLY"
                        => Tells(chan[d].input, d, executions)
    BY DEF IInv, CallInv, Answers
  <2> QED BY <1>1, <2>1, <2>2 DEF Answers
<1>4. NotYetIssued'
  BY DEF IInv, CallInv, NotYetIssued
<1> QED BY <1>2, <1>3, <1>4

(* The same, while the clients that are not confused may get fewer.        *)
LEMMA GrowingServerBasics ==
    ASSUME RpcTransportAssumption, NoneAssumption, IInv,
           UNCHANGED <<rpcID, chan, toServer>>, confused \subseteq confused',
           \A t \in Slots : srv'[t].client = srv[t].client /\ srv'[t].req = srv[t].req
    PROVE  /\ Sure' \subseteq Sure /\ SureCalls' \subseteq SureCalls /\ OneProcess' /\ Order'
           /\ \A k : Outstanding(k)' <=> Outstanding(k)
<1>1. Sure' \subseteq Sure /\ SureCalls' \subseteq SureCalls
  BY DEF Sure, SureCalls
<1>2. OneProcess'
  BY <1>1 DEF IInv, ServerInv, OneProcess
<1>3. Order'
  BY <1>1 DEF IInv, Order, InOrder, Behind
<1>4. \A k : Outstanding(k)' <=> Outstanding(k)
  BY DEF Outstanding
<1> QED BY <1>1, <1>2, <1>3, <1>4

LEMMA GrowingHistoryBasics ==
    ASSUME RpcTransportAssumption, NoneAssumption, IInv,
           UNCHANGED <<rpcID, chan, executions>>, confused \subseteq confused',
           \A d \in Sure : \A p \in PacketsIn(toClient'[d]) :
               p \in PacketsIn(toClient[d]) \/ p.type # "REPLY"
    PROVE  AtMostOnce' /\ Answers' /\ NotYetIssued'
<1>1. Sure' \subseteq Sure /\ SureCalls' \subseteq SureCalls
  BY DEF Sure, SureCalls
<1>2. AtMostOnce'
  BY <1>1 DEF IInv, CallInv, AtMostOnce
<1>3. Answers'
  <2>1. \A d \in Sure : \A p \in PacketsIn(toClient'[d]) : p.type = "REPLY" => Tells(p, d, executions)
    BY DEF IInv, CallInv, Answers
  <2>2. \A d \in Sure : "INPUT" \in chan[d].bits /\ chan[d].input.type = "REPLY"
                        => Tells(chan[d].input, d, executions)
    BY DEF IInv, CallInv, Answers
  <2> QED BY <1>1, <2>1, <2>2 DEF Answers
<1>4. NotYetIssued'
  BY DEF IInv, CallInv, NotYetIssued
<1> QED BY <1>2, <1>3, <1>4

LEMMA ServerStartKeeps ==
    ASSUME RpcTransportAssumption, NoneAssumption, IInv, NEW s \in Slots, ServerStart(s)
    PROVE  IInv'
<1>1. Types /\ Types'
  BY ServerStartTypes DEF IInv
<1>2. /\ srv[s].work = "wait" /\ "BUSY" \in srv[s].bits /\ srv[s].id # 0
      /\ srv[s].req \in Calls /\ srv[s].client = srv[s].req[1]
      /\ Executed(srv[s]) \in StableCalls => ~srv[s].close
      /\ ~srv[s].close => Executed(srv[s]) = srv[s].req
      /\ UNCHANGED <<rpcID, boot, chan, outcome, confused, toServer, toClient, executions>>
      /\ \A t \in Slots : StartEffect(s, t)
  BY <1>1, StartFacts
<1>3. \A t \in Slots : srv'[t].client = srv[t].client /\ srv'[t].req = srv[t].req
  BY <1>2 DEF StartEffect, SameRequest
<1>4. /\ Sure' = Sure /\ SureCalls' = SureCalls /\ OneProcess' /\ Order'
      /\ \A k : Outstanding(k)' <=> Outstanding(k)
  BY <1>2, <1>3, ServerBasics
<1>5. AtMostOnce' /\ Answers' /\ NotYetIssued'
  BY <1>2, HistoryBasics
<1>6. ASSUME NEW t \in Slots, srv[t].client \in Sure PROVE srv'[t].bits = srv[t].bits
  <2>1. srv[s].client \in Sure => knownBoot[srv[s].client] = srv[s].req[2]
    <3>1. srv[s].client \in Sure => srv[s].client \in Stable
      BY <1>1, SureFacts
    <3> QED BY <1>1, <1>2, <3>1 DEF Types, BaseTypes, ServerOK
  <2> QED BY <1>2, <1>6, <2>1 DEF StartEffect
<1>7. NeverStuck'
  BY <1>3, <1>4, <1>6 DEF IInv, ServerInv, NeverStuck
<1>8. ASSUME NEW t \in Slots, srv[t].req \in SureCalls PROVE srv'[t].bits = srv[t].bits
  <2>1. "BUSY" \in srv[t].bits => srv[t].client \in Sure
    BY <1>1, <1>8, SureFacts DEF Types, ServerOK
  <2>2. CASE "BUSY" \in srv[t].bits
    BY <1>6, <2>1, <2>2
  <2>3. CASE "BUSY" \notin srv[t].bits
    BY <1>2, <2>3 DEF StartEffect
  <2> QED BY <2>2, <2>3
<1>9. HeadersOK'
  <2>1. ASSUME NEW t \in Slots, NEW k \in SureCalls, srv'[t].req = k
        PROVE  HeaderOK(srv'[t], k, executions[k])
    <3>1. /\ srv[t].req = k /\ HeaderOK(srv[t], k, executions[k]) /\ StartEffect(s, t)
          /\ srv'[t].bits = srv[t].bits
      BY <1>2, <1>3, <1>8, <2>1 DEF IInv, ServerInv, HeadersOK
    <3>2. CASE t # s
      BY <3>1, <3>2 DEF HeaderOK, StartEffect, SameRequest
    <3>3. CASE t = s
      <4>1. srv[s].bits = {"BUSY"}
        <5>1. srv[s].client \in Sure
          BY <1>1, <1>2, <3>1, <3>3, SureFacts
        <5>2. "STUCK" \notin srv[s].bits
          BY <5>1 DEF IInv, ServerInv, NeverStuck
        <5> QED BY <1>1, <1>2, <5>2 DEF Types, ServerOK
      <4>2. srv'[s].running = k /\ srv'[s].work = "run" /\ executions[k] = 0 /\ ~srv'[s].close
        BY <1>2, <3>1, <3>3 DEF HeaderOK, StartEffect, SameRequest
      <4> QED BY <3>1, <3>3, <4>1, <4>2 DEF HeaderOK
    <3> QED BY <3>2, <3>3
  <2> QED BY <1>2, <1>4, <2>1 DEF HeadersOK
<1>10. RunsForReq'
  <2>1. ASSUME NEW t \in Slots, NEW k \in SureCalls, srv'[t].work # "wait", srv'[t].running = k
        PROVE  srv'[t].req = k
    <3>1. CASE t = s
      <4>1. Executed(srv[s]) = k /\ k \in StableCalls
        BY <1>1, <1>2, <2>1, <3>1, SureFacts DEF StartEffect
      <4> QED BY <1>2, <1>3, <3>1, <4>1
    <3>2. CASE t # s
      BY <1>2, <1>3, <2>1, <3>2 DEF StartEffect, IInv, ServerInv, RunsForReq
    <3> QED BY <3>1, <3>2
  <2> QED BY <1>4, <2>1 DEF RunsForReq
<1>11. TakenClean'
  <2>1. ASSUME NEW t \in Slots, srv'[t].client \in Sure, Engaged(srv'[t])
        PROVE  srv'[t].req[1] = srv'[t].client
    <3>1. srv'[t].bits = srv[t].bits /\ srv[t].client \in Sure
      BY <1>3, <1>6, <2>1
    <3>2. CASE t = s
      BY <1>2, <1>3, <3>2
    <3>3. CASE t # s
      <4>1. Engaged(srv[t])
        BY <1>2, <2>1, <3>1, <3>3 DEF Engaged, StartEffect
      <4> QED BY <1>3, <3>1, <4>1 DEF IInv, ServerInv, TakenClean
    <3> QED BY <3>2, <3>3
  <2> QED BY <1>4, <2>1 DEF TakenClean
<1>12. ReplyKept'
  <2>1. ASSUME NEW k \in SureCalls, executions[k] # 0, Outstanding(k)
        PROVE  \E t \in Slots : Kept(srv'[t], k)
    <3>1. PICK t \in Slots : Kept(srv[t], k)
      BY <2>1 DEF IInv, CallInv, ReplyKept
    <3>2. t # s
      <4>1. "BUSY" \in srv[t].bits => "WAITING" \notin srv[t].bits
        BY <1>1 DEF Types, ServerOK
      <4> QED BY <1>2, <3>1, <4>1 DEF Kept
    <3>3. Kept(srv'[t], k)
      BY <1>2, <3>1, <3>2 DEF Kept, StartEffect, SameRequest
    <3> QED BY <3>3
  <2> QED BY <1>2, <1>4, <2>1 DEF ReplyKept
<1>13. ClosedWhenDone'
  <2>1. ASSUME NEW k \in SureCalls, Closing(k)'
        PROVE  /\ executions[k] = 1
               /\ \A t \in Slots : srv'[t].req = k => "BUSY" \notin srv'[t].bits /\ srv'[t].work = "wait"
    <3>1. Closing(k)
      BY <1>2, <2>1 DEF Closing
    <3>2. executions[k] = 1 /\ \A t \in Slots : srv[t].req = k => "BUSY" \notin srv[t].bits /\ srv[t].work = "wait"
      BY <3>1 DEF IInv, CallInv, ClosedWhenDone
    <3>3. ASSUME NEW t \in Slots, srv'[t].req = k
          PROVE  "BUSY" \notin srv'[t].bits /\ srv'[t].work = "wait"
      <4>1. t # s /\ srv'[t].bits = srv[t].bits
        BY <1>2, <1>3, <1>8, <3>2, <3>3
      <4> QED BY <1>2, <1>3, <3>2, <3>3, <4>1 DEF StartEffect
    <3> QED BY <3>2, <3>3
  <2> QED BY <1>2, <1>4, <2>1 DEF ClosedWhenDone
<1> QED BY <1>1, <1>4, <1>5, <1>7, <1>9, <1>10, <1>11, <1>12, <1>13 DEF IInv, ServerInv, CallInv

(* A process engaged with a call is bound to its client, alone.            *)
LEMMA EngagedFacts ==
    ASSUME RpcTransportAssumption, NoneAssumption, IInv, NEW k \in SureCalls
    PROVE  /\ \A s \in Slots : srv[s].req = k /\ Engaged(srv[s]) => srv[s].client = k[1]
           /\ \A s, t \in Slots : (srv[s].req = k /\ Engaged(srv[s])
                                  /\ srv[t].req = k /\ Engaged(srv[t])) => s = t
<1>1. k[1] \in Sure
  BY SureFacts DEF IInv
<1>2. ASSUME NEW s \in Slots, srv[s].req = k, Engaged(srv[s]) PROVE srv[s].client = k[1]
  <2>1. HeaderOK(srv[s], k, executions[k])
    BY <1>2 DEF IInv, ServerInv, HeadersOK
  <2>2. ServerOK(srv[s], rpcID)
    BY DEF IInv, Types
  <2>3. "BUSY" \in srv[s].bits => srv[s].client = k[1]
    BY <1>2, <2>2 DEF ServerOK
  <2> QED BY <1>2, <2>1, <2>3 DEF HeaderOK, Engaged
<1>3. ASSUME NEW s \in Slots, NEW t \in Slots, srv[s].req = k, Engaged(srv[s]),
             srv[t].req = k, Engaged(srv[t]) PROVE s = t
  <2>1. srv[s].client = k[1] /\ srv[t].client = k[1]
    BY <1>2, <1>3
  <2> QED BY <1>1, <2>1 DEF IInv, ServerInv, OneProcess
<1>4. \A s \in Slots : srv[s].req = k /\ Engaged(srv[s]) => srv[s].client = k[1]
  BY <1>2
<1>5. \A s, t \in Slots : (srv[s].req = k /\ Engaged(srv[s])
                          /\ srv[t].req = k /\ Engaged(srv[t])) => s = t
  BY <1>3
<1> QED BY <1>4, <1>5

(* The call a process executes, when its client is not confused.           *)
LEMMA RunningCall ==
    ASSUME RpcTransportAssumption, NoneAssumption, IInv, NEW s \in Slots, srv[s].work = "run",
           NEW k \in SureCalls, srv[s].running = k
    PROVE  /\ srv[s].req = k /\ srv[s].id = k[3] /\ srv[s].bits = {"BUSY"}
           /\ srv[s].client = k[1] /\ executions[k] = 0 /\ ~Closing(k)
           /\ k[1] \in Stable
<1>1. srv[s].req = k
  BY DEF IInv, ServerInv, RunsForReq
<1>2. HeaderOK(srv[s], k, executions[k])
  BY <1>1 DEF IInv, ServerInv, HeadersOK
<1>3. srv[s].bits = {"BUSY"} /\ executions[k] = 0
  BY <1>2 DEF HeaderOK
<1>4. srv[s].client = k[1]
  BY <1>1, <1>3, EngagedFacts DEF Engaged
<1>5. ~Closing(k)
  BY <1>1 DEF IInv, CallInv, ClosedWhenDone
<1> QED BY <1>1, <1>3, <1>4, <1>5, SureFacts DEF IInv

(* An execution is counted and nothing else of the history changes.        *)
LEMMA ExecutionCounted ==
    ASSUME RpcTransportAssumption, NoneAssumption, IInv, NEW s \in Slots, srv[s].work = "run",
           Count(s), UNCHANGED <<rpcID, confused>>
    PROVE  /\ \A k \in SureCalls : k # srv[s].running => executions'[k] = executions[k]
           /\ \A k \in SureCalls : k = srv[s].running => executions[k] = 0 /\ executions'[k] = 1
           /\ AtMostOnce' /\ NotYetIssued'
           /\ \A p, d : d \in Sure /\ Tells(p, d, executions) => Tells(p, d, executions')
<1>1. /\ executions' \in [StableCalls -> 0 .. 2]
      /\ \A k \in StableCalls :
            executions'[k] = IF k = srv[s].running /\ executions[k] < 2
                             THEN executions[k] + 1 ELSE executions[k]
  BY CountTypes DEF IInv
<1>2. /\ SureCalls' = SureCalls /\ SureCalls \subseteq StableCalls
  BY DEF SureCalls
<1>3. \A k \in SureCalls : k # srv[s].running => executions'[k] = executions[k]
  BY <1>1, <1>2
<1>4. \A k \in SureCalls : k = srv[s].running => executions[k] = 0 /\ executions'[k] = 1
  BY <1>1, <1>2, RunningCall
<1>5. AtMostOnce'
  BY <1>2, <1>3, <1>4 DEF IInv, CallInv, AtMostOnce
<1>6. NotYetIssued'
  <2>1. ASSUME NEW k \in StableCalls, executions'[k] # 0 PROVE k[3] < rpcID[k[1]]
    <3>1. CASE k = srv[s].running
      BY <3>1 DEF IInv, Types, ServerOK
    <3>2. CASE k # srv[s].running
      BY <1>1, <2>1, <3>2 DEF IInv, CallInv, NotYetIssued
    <3> QED BY <3>1, <3>2
  <2> QED BY <2>1 DEF NotYetIssued
<1>7. ASSUME NEW p, NEW d \in Sure, Tells(p, d, executions) PROVE Tells(p, d, executions')
  <2>1. PICK k \in StableCalls : k[1] = d /\ p.id = k[3] /\ p.result = k /\ executions[k] = 1
    BY <1>7 DEF Tells
  <2>2. k \in SureCalls
    BY <2>1 DEF SureCalls, Sure
  <2>3. executions'[k] = 1
    BY <1>3, <1>4, <2>1, <2>2
  <2> QED BY <2>1, <2>3 DEF Tells
<1> QED BY <1>3, <1>4, <1>5, <1>6, <1>7

LEMMA ServerReplyKeeps ==
    ASSUME RpcTransportAssumption, NoneAssumption, IInv, NEW s \in Slots, ServerReply(s)
    PROVE  IInv'
<1>o. PICK o : o = srv'[s]
  OBVIOUS
<1>1. Types /\ Types'
  BY ServerReplyTypes DEF IInv
<1>2. /\ srv[s].work = "run" /\ Count(s)
      /\ Only(s, o) /\ o.bits = srv[s].bits /\ SameRequest(o, srv[s])
      /\ o.client = srv[s].client /\ o.work = "done" /\ o.running = srv[s].running
      /\ o.reply = [id |-> srv[s].req[3], result |-> srv[s].running]
      /\ toClient' = Enqueue(toClient, srv[s].req[1], Reply(s, o))
      /\ Reply(s, o) = [type |-> "REPLY", id |-> srv[s].req[3], hint |-> s, result |-> srv[s].running]
      /\ UNCHANGED <<rpcID, boot, chan, outcome, confused, knownBoot, toServer>>
  BY <1>1, <1>o, ServerReplyFacts
<1>3. /\ srv[s].id \in 1 .. MaxID /\ srv[s].req \in Calls /\ srv[s].req[3] = srv[s].id
      /\ srv[s].req[1] \in Clients /\ srv[s].running \in Results /\ "WAITING" \notin srv[s].bits
  BY <1>1, <1>2, RunningFacts
<1>4. \A t \in Slots \ {s} : srv'[t] = srv[t]
  BY <1>1, <1>2, OnlyFacts
<1>5. \A t \in Slots : /\ srv'[t].client = srv[t].client /\ srv'[t].req = srv[t].req
                       /\ srv'[t].bits = srv[t].bits /\ srv'[t].running = srv[t].running
  BY <1>2, <1>4, <1>o DEF SameRequest
<1>6. /\ Sure' = Sure /\ SureCalls' = SureCalls /\ OneProcess' /\ Order'
      /\ \A k : Outstanding(k)' <=> Outstanding(k)
  BY <1>2, <1>5, ServerBasics
<1>7. /\ \A k \in SureCalls : k # srv[s].running => executions'[k] = executions[k]
      /\ \A k \in SureCalls : k = srv[s].running => executions[k] = 0 /\ executions'[k] = 1
      /\ AtMostOnce' /\ NotYetIssued'
      /\ \A p, d : d \in Sure /\ Tells(p, d, executions) => Tells(p, d, executions')
  BY <1>2, ExecutionCounted
<1>8. NeverStuck' /\ RunsForReq' /\ TakenClean'
  <2>1. \A t \in Slots : srv'[t].work # "wait" <=> srv[t].work # "wait"
    BY <1>2, <1>4, <1>o
  <2> QED BY <1>5, <1>6, <2>1 DEF NeverStuck, RunsForReq, TakenClean, Engaged, IInv, ServerInv
<1>9. HeadersOK'
  <2>1. ASSUME NEW t \in Slots, NEW k \in SureCalls, srv'[t].req = k
        PROVE  HeaderOK(srv'[t], k, executions'[k])
    <3>1. srv[t].req = k /\ HeaderOK(srv[t], k, executions[k])
      BY <1>5, <2>1 DEF IInv, ServerInv, HeadersOK
    <3>2. CASE t = s
      <4>1. srv[s].running = k /\ srv[s].bits = {"BUSY"} /\ ~srv[s].close
        BY <1>2, <3>1, <3>2 DEF HeaderOK
      <4>2. executions'[k] = 1
        BY <1>7, <4>1
      <4> QED BY <1>2, <1>o, <3>1, <3>2, <4>1, <4>2 DEF HeaderOK, SameRequest
    <3>3. CASE t # s
      <4>1. CASE k # srv[s].running
        BY <1>4, <1>7, <3>1, <3>3, <4>1
      <4>2. CASE k = srv[s].running
        <5>1. srv[s].req = k /\ Engaged(srv[s])
          BY <1>2, <4>2, RunningCall DEF Engaged
        <5>2. ~Engaged(srv[t])
          BY <3>1, <3>3, <5>1, EngagedFacts
        <5> QED BY <1>4, <3>1, <3>3, <5>2 DEF HeaderOK, Engaged
      <4> QED BY <4>1, <4>2
    <3> QED BY <3>2, <3>3
  <2> QED BY <1>6, <2>1 DEF HeadersOK
<1>10. ReplyKept'
  <2>1. ASSUME NEW k \in SureCalls, executions'[k] # 0, Outstanding(k)
        PROVE  \E t \in Slots : Kept(srv'[t], k)
    <3>1. CASE k = srv[s].running
      <4>1. srv[s].req = k /\ srv[s].client = k[1]
        BY <1>2, <3>1, RunningCall
      <4>2. Kept(srv'[s], k)
        BY <1>2, <1>o, <4>1 DEF Kept, SameRequest
      <4> QED BY <4>2
    <3>2. CASE k # srv[s].running
      <4>1. PICK t \in Slots : Kept(srv[t], k)
        BY <1>7, <2>1, <3>2 DEF IInv, CallInv, ReplyKept
      <4>2. t # s
        BY <1>2, <1>3, <4>1 DEF Kept
      <4> QED BY <1>4, <4>1, <4>2
    <3> QED BY <3>1, <3>2
  <2> QED BY <1>6, <2>1 DEF ReplyKept
<1>11. /\ \A d \in Clients \ {srv[s].req[1]} : toClient'[d] = toClient[d]
       /\ PacketsIn(toClient'[srv[s].req[1]]) \subseteq PacketsIn(toClient[srv[s].req[1]]) \cup {Reply(s, o)}
       /\ Reply(s, o).type = "REPLY" /\ Reply(s, o).id = srv[s].req[3]
       /\ Reply(s, o).result = srv[s].running
  <2>1. Reply(s, o) \in ClientPackets
    BY <1>2, <1>3 DEF ClientPackets, NoneOr
  <2>2. /\ \A d \in Clients \ {srv[s].req[1]} : toClient'[d] = toClient[d]
        /\ PacketsIn(toClient'[srv[s].req[1]]) \subseteq PacketsIn(toClient[srv[s].req[1]]) \cup {Reply(s, o)}
    BY <1>1, <1>2, <1>3, <2>1, SentAnswers
  <2>3. Reply(s, o).type = "REPLY" /\ Reply(s, o).id = srv[s].req[3]
        /\ Reply(s, o).result = srv[s].running
    BY <1>2
  <2> QED BY <2>2, <2>3
<1>12. ClosedWhenDone'
  <2>1. ASSUME NEW k \in SureCalls, Closing(k)'
        PROVE  /\ executions'[k] = 1
               /\ \A t \in Slots : srv'[t].req = k => "BUSY" \notin srv'[t].bits /\ srv'[t].work = "wait"
    <3>1. Closing(k)
      <4>1. k[1] \in Clients
        BY <1>1, SureFacts
      <4> QED BY <1>2, <1>11, <2>1, <4>1 DEF Closing
    <3>2. executions[k] = 1 /\ \A t \in Slots : srv[t].req = k => "BUSY" \notin srv[t].bits /\ srv[t].work = "wait"
      BY <3>1 DEF IInv, CallInv, ClosedWhenDone
    <3>3. srv[s].req # k /\ executions'[k] = 1
      BY <1>2, <1>7, <3>2
    <3> QED BY <1>4, <1>5, <3>2, <3>3
  <2> QED BY <1>6, <2>1 DEF ClosedWhenDone
<1>13. Answers'
  <2>1. ASSUME NEW d \in Sure, NEW p \in PacketsIn(toClient'[d]), p.type = "REPLY"
        PROVE  Tells(p, d, executions')
    <3>1. CASE p \in PacketsIn(toClient[d])
      BY <1>7, <2>1, <3>1 DEF IInv, CallInv, Answers
    <3>2. CASE p \notin PacketsIn(toClient[d])
      <4>1. d = srv[s].req[1] /\ p = Reply(s, o)
        BY <1>1, <1>11, <3>2, SureFacts
      <4>2. srv[s].req \in SureCalls
        BY <1>1, <1>3, <4>1, SureFacts
      <4>3. srv[s].running = srv[s].req
        BY <1>2, <4>2 DEF IInv, ServerInv, HeadersOK, HeaderOK
      <4>4. executions'[srv[s].req] = 1 /\ srv[s].req \in StableCalls
        BY <1>1, <1>7, <4>2, <4>3, SureFacts
      <4> QED BY <1>11, <4>1, <4>3, <4>4 DEF Tells
    <3> QED BY <3>1, <3>2
  <2>2. \A d \in Sure : "INPUT" \in chan[d].bits /\ chan[d].input.type = "REPLY"
                        => Tells(chan[d].input, d, executions')
    BY <1>7 DEF IInv, CallInv, Answers
  <2> QED BY <1>2, <1>6, <2>1, <2>2 DEF Answers
<1> QED BY <1>1, <1>6, <1>7, <1>8, <1>9, <1>10, <1>12, <1>13 DEF IInv, ServerInv, CallInv

LEMMA ServerNoReplyKeeps ==
    ASSUME RpcTransportAssumption, NoneAssumption, IInv, NEW s \in Slots, ServerNoReply(s)
    PROVE  IInv'
<1>o. PICK o : o = srv'[s]
  OBVIOUS
<1>1. Types /\ Types'
  BY ServerNoReplyTypes DEF IInv
<1>2. /\ srv[s].work = "run" /\ srv[s].bcast /\ Count(s)
      /\ Only(s, o) /\ o.bits = srv[s].bits /\ SameRequest(o, srv[s])
      /\ o.client = srv[s].client /\ o.work = "noReply" /\ o.running = srv[s].running
      /\ o.reply = srv[s].reply
      /\ UNCHANGED <<rpcID, boot, chan, outcome, confused, knownBoot, toServer, toClient>>
  BY <1>1, <1>o, ServerNoReplyFacts
<1>3. srv[s].req \notin SureCalls /\ "WAITING" \notin srv[s].bits
  <2>1. srv[s].req[1] \in Broadcasters
    BY <1>1, <1>2 DEF Types, ServerOK
  <2>2. \A k \in SureCalls : k[1] \in Stable
    BY <1>1, SureFacts
  <2> QED BY <1>1, <1>2, <2>1, <2>2, RunningFacts DEF Stable
<1>4. \A t \in Slots \ {s} : srv'[t] = srv[t]
  BY <1>1, <1>2, OnlyFacts
<1>5. \A t \in Slots : /\ srv'[t].client = srv[t].client /\ srv'[t].req = srv[t].req
                       /\ srv'[t].bits = srv[t].bits /\ srv'[t].running = srv[t].running
  BY <1>2, <1>4, <1>o DEF SameRequest
<1>6. /\ Sure' = Sure /\ SureCalls' = SureCalls /\ OneProcess' /\ Order'
      /\ \A k : Outstanding(k)' <=> Outstanding(k)
  BY <1>2, <1>5, ServerBasics
<1>7. /\ \A k \in SureCalls : executions'[k] = executions[k]
      /\ AtMostOnce' /\ NotYetIssued'
      /\ \A p, d : d \in Sure /\ Tells(p, d, executions) => Tells(p, d, executions')
  <2>1. \A k \in SureCalls : k # srv[s].running
    BY <1>2, <1>3, RunningCall
  <2> QED BY <1>2, <2>1, ExecutionCounted
<1>8. NeverStuck' /\ RunsForReq' /\ TakenClean'
  <2>1. \A t \in Slots : srv'[t].work # "wait" <=> srv[t].work # "wait"
    BY <1>2, <1>4, <1>o
  <2> QED BY <1>5, <1>6, <2>1 DEF NeverStuck, RunsForReq, TakenClean, Engaged, IInv, ServerInv
<1>9. HeadersOK'
  <2>1. \A t \in Slots, k \in SureCalls : srv'[t].req = k => srv'[t] = srv[t] /\ srv[t].req = k
    BY <1>3, <1>4, <1>5
  <2>2. \A t \in Slots, k \in SureCalls : srv[t].req = k => HeaderOK(srv[t], k, executions[k])
    BY DEF IInv, ServerInv, HeadersOK
  <2>3. \A t \in Slots, k \in SureCalls : srv'[t].req = k => HeaderOK(srv'[t], k, executions'[k])
    BY <1>7, <2>1, <2>2, Zenon
  <2> QED BY <1>6, <2>3 DEF HeadersOK
<1>10. ReplyKept'
  <2>1. ASSUME NEW k \in SureCalls, executions'[k] # 0, Outstanding(k)
        PROVE  \E t \in Slots : Kept(srv'[t], k)
    <3>1. PICK t \in Slots : Kept(srv[t], k)
      BY <1>7, <2>1 DEF IInv, CallInv, ReplyKept
    <3>2. t # s
      BY <1>3, <3>1 DEF Kept
    <3> QED BY <1>4, <3>1, <3>2
  <2> QED BY <1>6, <2>1 DEF ReplyKept
<1>11. ClosedWhenDone'
  <2>1. ASSUME NEW k \in SureCalls, Closing(k)'
        PROVE  /\ executions'[k] = 1
               /\ \A t \in Slots : srv'[t].req = k => "BUSY" \notin srv'[t].bits /\ srv'[t].work = "wait"
    <3>1. Closing(k)
      BY <1>2, <2>1 DEF Closing
    <3>2. executions[k] = 1 /\ \A t \in Slots : srv[t].req = k => "BUSY" \notin srv[t].bits /\ srv[t].work = "wait"
      BY <3>1 DEF IInv, CallInv, ClosedWhenDone
    <3> QED BY <1>3, <1>4, <1>5, <1>7, <3>2
  <2> QED BY <1>6, <2>1 DEF ClosedWhenDone
<1>12. Answers'
  <2>1. \A d \in Sure : \A p \in PacketsIn(toClient[d]) : p.type = "REPLY" => Tells(p, d, executions')
    BY <1>7 DEF IInv, CallInv, Answers
  <2>2. \A d \in Sure : "INPUT" \in chan[d].bits /\ chan[d].input.type = "REPLY"
                        => Tells(chan[d].input, d, executions')
    BY <1>7 DEF IInv, CallInv, Answers
  <2> QED BY <1>2, <1>6, <2>1, <2>2 DEF Answers
<1> QED BY <1>1, <1>6, <1>7, <1>8, <1>9, <1>10, <1>11, <1>12 DEF IInv, ServerInv, CallInv

LEMMA ServerWaitKeeps ==
    ASSUME RpcTransportAssumption, NoneAssumption, IInv, NEW s \in Slots, ServerWait(s)
    PROVE  IInv'
<1>o. PICK o : o = srv'[s]
  OBVIOUS
<1>1. Types /\ Types'
  BY ServerWaitTypes DEF IInv
<1>2. /\ srv[s].work \in {"done", "noReply"} /\ Only(s, o) /\ SameRequest(o, srv[s])
      /\ o.bits = (srv[s].bits \ {"BUSY", "STUCK"}) \cup {"WAITING"} \cup
                  (IF srv[s].work = "noReply" THEN {"NO_REPLY"} ELSE {})
      /\ o.client = srv[s].client /\ o.work = "wait" /\ o.reply = srv[s].reply
      /\ UNCHANGED <<rpcID, boot, chan, outcome, confused, knownBoot, toServer, toClient, executions>>
  BY <1>1, <1>o, ServerWaitFacts
<1>3. \A t \in Slots \ {s} : srv'[t] = srv[t]
  BY <1>1, <1>2, OnlyFacts
<1>4. \A t \in Slots : srv'[t].client = srv[t].client /\ srv'[t].req = srv[t].req
  BY <1>2, <1>3, <1>o DEF SameRequest
<1>5. /\ Sure' = Sure /\ SureCalls' = SureCalls /\ OneProcess' /\ Order'
      /\ \A k : Outstanding(k)' <=> Outstanding(k)
  BY <1>2, <1>4, ServerBasics
<1>6. AtMostOnce' /\ Answers' /\ NotYetIssued'
  BY <1>2, HistoryBasics
<1>7. NeverStuck'
  <2>1. "STUCK" \notin o.bits
    BY <1>2
  <2> QED BY <1>3, <1>4, <1>5, <1>o, <2>1 DEF NeverStuck, IInv, ServerInv
<1>8. RunsForReq'
  BY <1>2, <1>3, <1>5, <1>o DEF RunsForReq, IInv, ServerInv
<1>9. TakenClean'
  <2>1. ASSUME NEW t \in Slots, srv'[t].client \in Sure, Engaged(srv'[t])
        PROVE  srv'[t].req[1] = srv'[t].client
    <3>1. Engaged(srv[t])
      BY <1>2, <1>3, <2>1 DEF Engaged
    <3> QED BY <1>4, <2>1, <3>1 DEF TakenClean, IInv, ServerInv
  <2> QED BY <1>5, <2>1 DEF TakenClean
<1>10. ASSUME NEW k \in SureCalls, srv[s].req = k
       PROVE  HeaderOK(o, k, executions[k])
  <2>1. HeaderOK(srv[s], k, executions[k])
    BY <1>10 DEF IInv, ServerInv, HeadersOK
  <2>2. /\ srv[s].bits = {"BUSY"} /\ srv[s].work = "done" /\ executions[k] = 1 /\ ~srv[s].close
        /\ srv[s].reply = [id |-> k[3], result |-> k]
    BY <1>2, <2>1 DEF HeaderOK
  <2>3. srv[s].client = k[1]
    BY <1>10, <2>2, EngagedFacts DEF Engaged
  <2>4. o.bits = {"WAITING"}
    BY <1>2, <2>2
  <2>5. /\ ~o.close /\ o.work = "wait" /\ o.client = k[1] /\ o.reply = [id |-> k[3], result |-> k]
    BY <1>2, <2>2, <2>3 DEF SameRequest
  <2> QED BY <2>2, <2>4, <2>5 DEF HeaderOK
<1>11. HeadersOK'
  <2>1. ASSUME NEW t \in Slots, NEW k \in SureCalls, srv'[t].req = k
        PROVE  HeaderOK(srv'[t], k, executions[k])
    <3>1. srv[t].req = k /\ HeaderOK(srv[t], k, executions[k])
      BY <1>4, <2>1 DEF IInv, ServerInv, HeadersOK
    <3>2. CASE t = s
      BY <1>10, <1>o, <3>1, <3>2
    <3>3. CASE t # s
      BY <1>3, <3>1, <3>3
    <3> QED BY <3>2, <3>3
  <2> QED BY <1>2, <1>5, <2>1 DEF HeadersOK
<1>12. ReplyKept'
  <2>1. ASSUME NEW k \in SureCalls, executions[k] # 0, Outstanding(k)
        PROVE  \E t \in Slots : Kept(srv'[t], k)
    <3>1. PICK t \in Slots : Kept(srv[t], k)
      BY <2>1 DEF IInv, CallInv, ReplyKept
    <3>2. CASE t = s
      <4>1. "WAITING" \in o.bits
        BY <1>2
      <4> QED BY <1>4, <1>o, <3>1, <3>2, <4>1 DEF Kept
    <3>3. CASE t # s
      BY <1>3, <3>1, <3>3
    <3> QED BY <3>2, <3>3
  <2> QED BY <1>2, <1>5, <2>1 DEF ReplyKept
<1>13. ClosedWhenDone'
  <2>1. ASSUME NEW k \in SureCalls, Closing(k)'
        PROVE  /\ executions[k] = 1
               /\ \A t \in Slots : srv'[t].req = k => "BUSY" \notin srv'[t].bits /\ srv'[t].work = "wait"
    <3>1. Closing(k)
      BY <1>2, <2>1 DEF Closing
    <3>2. executions[k] = 1 /\ \A t \in Slots : srv[t].req = k => "BUSY" \notin srv[t].bits /\ srv[t].work = "wait"
      BY <3>1 DEF IInv, CallInv, ClosedWhenDone
    <3>3. srv[s].req # k
      BY <1>2, <3>2
    <3> QED BY <1>3, <1>4, <3>2, <3>3
  <2> QED BY <1>2, <1>5, <2>1 DEF ClosedWhenDone
<1> QED BY <1>1, <1>5, <1>6, <1>7, <1>8, <1>9, <1>11, <1>12, <1>13 DEF IInv, ServerInv, CallInv

LEMMA RpcReclaimServerKeeps ==
    ASSUME RpcTransportAssumption, NoneAssumption, IInv, NEW s \in Slots, RpcReclaimServer(s)
    PROVE  IInv'
<1>o. PICK o : o = srv'[s]
  OBVIOUS
<1>1. Types /\ Types'
  BY RpcReclaimServerTypes DEF IInv
<1>2. /\ srv[s].client \in Clients /\ "WAITING" \in srv[s].bits /\ srv[s].work = "wait"
      /\ srv[s].id \in 1 .. MaxID /\ srv[s].req \in Calls /\ srv[s].req[3] = srv[s].id
      /\ "BUSY" \notin srv[s].bits
      /\ Only(s, o) /\ SameRequest(o, srv[s]) /\ o.client = srv[s].client
      /\ o.work = srv[s].work /\ o.reply = srv[s].reply /\ o.running = srv[s].running
      /\ ReclaimFrees(s, o) \/ ReclaimAges(s, o)
      /\ UNCHANGED <<rpcID, boot, chan, outcome, knownBoot, toServer, executions>>
  BY <1>1, <1>o, ReclaimFacts
<1>3. \A t \in Slots \ {s} : srv'[t] = srv[t]
  BY <1>1, <1>2, OnlyFacts
<1>4. /\ \A t \in Slots : srv'[t].client = srv[t].client /\ srv'[t].req = srv[t].req
      /\ "BUSY" \notin o.bits /\ ("STUCK" \in o.bits => "STUCK" \in srv[s].bits)
      /\ o.bits \subseteq srv[s].bits \cup {"AGING", "FREE", "NO_REPLY"}
  BY <1>2, <1>3, <1>o DEF SameRequest, ReclaimFrees, ReclaimAges
<1>5. /\ Sure' \subseteq Sure /\ SureCalls' \subseteq SureCalls /\ OneProcess' /\ Order'
      /\ \A k : Outstanding(k)' <=> Outstanding(k)
  <2>1. confused \subseteq confused'
    BY <1>2 DEF ReclaimFrees, ReclaimAges
  <2> QED BY <1>2, <1>4, <2>1, GrowingServerBasics
<1>6. /\ \A d \in Clients \ {srv[s].req[1]} : toClient'[d] = toClient[d]
      /\ \A p \in PacketsIn(toClient'[srv[s].req[1]]) :
            \/ p \in PacketsIn(toClient[srv[s].req[1]])
            \/ p.type = "CLOSE" /\ p.id = srv[s].req[3]
      /\ srv[s].req[1] \in Clients
  <2>1. /\ srv[s].req[1] \in Clients /\ Probe(s) \in ClientPackets
        /\ Probe(s).type = "CLOSE" /\ Probe(s).id = srv[s].req[3]
    BY <1>2, CallFacts DEF Probe, ClientPackets, NoneOr
  <2>2. CASE toClient' = toClient
    BY <2>1, <2>2
  <2>3. CASE toClient' = Enqueue(toClient, srv[s].req[1], Probe(s))
    <3>1. /\ \A d \in Clients \ {srv[s].req[1]} : toClient'[d] = toClient[d]
          /\ PacketsIn(toClient'[srv[s].req[1]]) \subseteq PacketsIn(toClient[srv[s].req[1]]) \cup {Probe(s)}
      BY <1>1, <2>1, <2>3, SentAnswers
    <3> QED BY <2>1, <3>1
  <2> QED BY <1>2, <2>2, <2>3 DEF ReclaimFrees, ReclaimAges
<1>7. AtMostOnce' /\ Answers' /\ NotYetIssued'
  <2>1. \A d \in Sure : \A p \in PacketsIn(toClient'[d]) :
            p \in PacketsIn(toClient[d]) \/ p.type # "REPLY"
    BY <1>1, <1>6, SureFacts
  <2>2. confused \subseteq confused'
    BY <1>2 DEF ReclaimFrees, ReclaimAges
  <2> QED BY <1>2, <2>1, <2>2, GrowingHistoryBasics
<1>8. NeverStuck'
  BY <1>3, <1>4, <1>5, <1>o DEF NeverStuck, IInv, ServerInv
<1>9. RunsForReq'
  BY <1>2, <1>3, <1>5, <1>o DEF RunsForReq, IInv, ServerInv
<1>10. TakenClean'
  <2>1. ASSUME NEW t \in Slots, srv'[t].client \in Sure, Engaged(srv'[t])
        PROVE  srv'[t].req[1] = srv'[t].client
    <3>1. Engaged(srv[t])
      BY <1>2, <1>3, <2>1 DEF Engaged
    <3> QED BY <1>4, <2>1, <3>1 DEF TakenClean, IInv, ServerInv
  <2> QED BY <1>5, <2>1 DEF TakenClean
<1>11. ASSUME NEW k \in SureCalls, srv[s].req = k
       PROVE  /\ HeaderOK(srv[s], k, executions[k]) /\ HeaderOK(o, k, executions[k])
              /\ executions[k] = 1 /\ srv[s].client = k[1] /\ "NO_REPLY" \notin srv[s].bits
  <2>1. HeaderOK(srv[s], k, executions[k])
    BY <1>11 DEF IInv, ServerInv, HeadersOK
  <2>2. /\ executions[k] = 1 /\ srv[s].client = k[1] /\ srv[s].bits \subseteq {"WAITING", "AGING"}
        /\ srv[s].reply = [id |-> k[3], result |-> k] /\ ~srv[s].close
    BY <1>2, <2>1 DEF HeaderOK
  <2>3. "WAITING" \in o.bits => o.bits \subseteq {"WAITING", "AGING"}
    BY <1>2, <2>2 DEF ReclaimFrees, ReclaimAges
  <2>4. /\ ~o.close /\ o.work = "wait" /\ o.client = k[1]
        /\ o.reply = [id |-> k[3], result |-> k]
    BY <1>2, <2>2 DEF SameRequest
  <2>5. HeaderOK(o, k, executions[k])
    BY <1>4, <2>2, <2>3, <2>4 DEF HeaderOK
  <2>6. "NO_REPLY" \notin srv[s].bits
    BY <2>2
  <2> QED BY <2>1, <2>2, <2>5, <2>6
<1>12. HeadersOK'
  <2>1. ASSUME NEW t \in Slots, NEW k \in SureCalls, srv'[t].req = k
        PROVE  HeaderOK(srv'[t], k, executions[k])
    <3>1. srv[t].req = k /\ HeaderOK(srv[t], k, executions[k])
      BY <1>4, <2>1 DEF IInv, ServerInv, HeadersOK
    <3>2. CASE t = s
      BY <1>11, <1>o, <3>1, <3>2
    <3>3. CASE t # s
      BY <1>3, <3>1, <3>3
    <3> QED BY <3>2, <3>3
  <2> QED BY <1>2, <1>5, <2>1 DEF HeadersOK
<1>13. ReplyKept'
  <2>1. ASSUME NEW k \in SureCalls, k \in SureCalls', executions[k] # 0, Outstanding(k)
        PROVE  \E t \in Slots : Kept(srv'[t], k)
    <3>1. PICK t \in Slots : Kept(srv[t], k)
      BY <2>1 DEF IInv, CallInv, ReplyKept
    <3>2. CASE t # s
      BY <1>3, <3>1, <3>2
    <3>3. CASE t = s
      <4>1. srv[s].req = k /\ srv[s].client = k[1]
        BY <3>1, <3>3 DEF Kept
      <4>2. CASE ReclaimFrees(s, o)
        <5>1. confused' = IF StillSent(k) THEN confused \cup ({k[1]} \cap Stable) ELSE confused
          BY <1>11, <4>1, <4>2 DEF ReclaimFrees
        <5>2. StillSent(k)
          BY <2>1 DEF Outstanding, StillSent, PacketsIn
        <5>3. k[1] \in Stable /\ k[1] \notin confused'
          BY <1>1, <2>1, SureFacts DEF SureCalls
        <5> QED BY <5>1, <5>2, <5>3
      <4>3. CASE ReclaimAges(s, o)
        <5>1. "WAITING" \in o.bits
          BY <1>2, <4>3 DEF ReclaimAges
        <5>2. Kept(srv'[s], k)
          BY <1>4, <1>o, <4>1, <5>1 DEF Kept
        <5> QED BY <5>2
      <4> QED BY <1>2, <4>2, <4>3
    <3> QED BY <3>2, <3>3
  <2> QED BY <1>2, <1>5, <2>1 DEF ReplyKept
<1>14. ClosedWhenDone'
  <2>1. ASSUME NEW k \in SureCalls, Closing(k)'
        PROVE  /\ executions[k] = 1
               /\ \A t \in Slots : srv[t].req = k => "BUSY" \notin srv[t].bits /\ srv[t].work = "wait"
    <3>0. /\ srv[s].req[1] = k[1] /\ srv[s].req[3] = k[3] => srv[s].req = k
          /\ k[1] \in Clients
      <4>1. k[1] \in Sure /\ k[1] \in Clients
        BY <1>1, SureFacts
      <4>2. srv[s].req[1] = k[1] => srv[s].req \in SureCalls
        BY <1>1, <1>2, <4>1, SureFacts
      <4> QED BY <1>1, <4>1, <4>2, SureFacts
    <3>1. CASE Closing(k)
      BY <3>1 DEF IInv, CallInv, ClosedWhenDone
    <3>2. CASE ~Closing(k)
      <4>1. PICK p \in PacketsIn(toClient'[k[1]]) : p.type = "CLOSE" /\ p.id = k[3]
        BY <1>2, <2>1, <3>2 DEF Closing
      <4>2. p \notin PacketsIn(toClient[k[1]])
        BY <3>2, <4>1 DEF Closing
      <4>3. srv[s].req = k
        BY <1>6, <3>0, <4>1, <4>2
      <4>4. executions[k] = 1 /\ Engaged(srv[s])
        BY <1>2, <1>11, <4>3 DEF Engaged
      <4>5. ASSUME NEW t \in Slots, srv[t].req = k
            PROVE  "BUSY" \notin srv[t].bits /\ srv[t].work = "wait"
        <5>1. CASE t = s
          BY <1>2, <5>1
        <5>2. CASE t # s
          BY <4>3, <4>4, <4>5, <5>2, EngagedFacts DEF Engaged
        <5> QED BY <5>1, <5>2
      <4> QED BY <4>4, <4>5
    <3> QED BY <3>1, <3>2
  <2>2. \A t \in Slots : "BUSY" \in srv'[t].bits => "BUSY" \in srv[t].bits
    BY <1>3, <1>4, <1>o
  <2>3. \A t \in Slots : srv'[t].work = srv[t].work
    BY <1>2, <1>3, <1>o
  <2> QED BY <1>2, <1>4, <1>5, <2>1, <2>2, <2>3 DEF ClosedWhenDone
<1> QED BY <1>1, <1>5, <1>7, <1>8, <1>9, <1>10, <1>12, <1>13, <1>14 DEF IInv, ServerInv, CallInv

-----------------------------------------------------------------------------
(* The invariant is kept: the dispatcher of the server.                    *)

(* The dispatcher takes packet p of client c off the network and leaves    *)
(* process s in state o.                                                   *)
Delivers(c, p, s, o) ==
    /\ Dispatches(c, p, s, o) /\ SentOK(p, c, rpcID) /\ p \in PacketsIn(toServer[c])
    /\ \A d \in Clients : PacketsIn(toServer'[d]) \subseteq PacketsIn(toServer[d])
    /\ \A d \in Clients : \A ch : InOrder(toServer[d], ch) => InOrder(toServer'[d], ch)
    /\ \A ch : InOrder(toServer[c], ch) =>
          \A r \in PacketsIn(toServer'[c]) : r.type = "REQUEST" => Before(p, r.call[3])
    /\ UNCHANGED <<rpcID, boot, chan, outcome, knownBoot, executions>>

LEMMA DeliveredFacts ==
    ASSUME RpcTransportAssumption, NoneAssumption, IInv, NEW c \in Clients, NEW p,
           NEW s \in Slots, NEW o, Delivers(c, p, s, o)
    PROVE  /\ Sure' \subseteq Sure /\ SureCalls' \subseteq SureCalls
           /\ \A k \in SureCalls' : k[1] \in Sure'
           /\ c \in Sure' => ~Confuses(srv[s], p)
           /\ p.call \in Calls /\ p.call[1] = c /\ p.call[3] \in 1 .. MaxID
           /\ p.type \in {"REQUEST", "CLOSE"}
           /\ c \in Sure => p.call \in SureCalls
           /\ ServerOK(srv[s], rpcID)
<1>1. /\ Dispatches(c, p, s, o) /\ SentOK(p, c, rpcID) /\ p \in PacketsIn(toServer[c])
  BY DEF Delivers
<1>2. /\ Sure' \subseteq Sure /\ SureCalls' \subseteq SureCalls
      /\ \A k \in SureCalls' : k[1] \in Sure'
  <2>1. confused \subseteq confused'
    BY <1>1 DEF Dispatches
  <2>2. Sure' \subseteq Sure /\ SureCalls' \subseteq SureCalls
    BY <2>1 DEF Sure, SureCalls
  <2>3. \A k \in SureCalls' : k[1] \in Sure'
    BY StableFacts DEF Sure, SureCalls
  <2> QED BY <2>2, <2>3
<1>3. c \in Sure' => ~Confuses(srv[s], p)
  BY <1>1 DEF Dispatches, Sure
<1>5. /\ p.call \in Calls /\ p.call[1] = c /\ p.call[3] \in 1 .. MaxID
      /\ p.type \in {"REQUEST", "CLOSE"}
  <2>1. p.call \in Calls /\ p.call[1] = c /\ p.type \in {"REQUEST", "CLOSE"}
    BY <1>1 DEF SentOK, ServerPackets
  <2> QED BY <2>1, CallFacts
<1>6. c \in Sure => p.call \in SureCalls
  BY <1>1, SureFacts DEF IInv
<1>7. ServerOK(srv[s], rpcID)
  BY DEF IInv, Types
<1> QED BY <1>2, <1>3, <1>5, <1>6, <1>7

LEMMA DeliveredOnly ==
    ASSUME IInv, NEW c \in Clients, NEW p, NEW s \in Slots, NEW o, Delivers(c, p, s, o)
    PROVE  srv'[s] = o /\ \A t \in Slots \ {s} : srv'[t] = srv[t]
<1>1. Only(s, o)
  BY DEF Delivers, Dispatches, Only
<1> QED BY <1>1, OnlyFacts DEF IInv

LEMMA DeliveredState ==
    ASSUME RpcTransportAssumption, NoneAssumption, IInv, NEW c \in Clients, NEW p,
           NEW s \in Slots, NEW o, Delivers(c, p, s, o)
    PROVE  /\ o.client = c /\ o.work = srv[s].work /\ o.running = srv[s].running
           /\ "BUSY" \in srv[s].bits => srv[s].client = c /\ srv[s].bits = {"BUSY"}
           /\ Picked(s, c)
<1>1. o.client = c /\ o.work = srv[s].work /\ o.running = srv[s].running /\ Picked(s, c)
  BY DEF Delivers, Dispatches
<1>2. ServerOK(srv[s], rpcID)
  BY DEF IInv, Types
<1>3. "BUSY" \in srv[s].bits => srv[s].client = c /\ srv[s].bits = {"BUSY"}
  BY <1>1, <1>2 DEF Picked, Usable, ServerOK
<1> QED BY <1>1, <1>3

(* The process that keeps the reply to a request is the one picked.        *)
LEMMA PickedFacts ==
    ASSUME RpcTransportAssumption, NoneAssumption, IInv, NEW c \in Sure, NEW s \in Slots,
           Picked(s, c), NEW t \in Slots, srv[t].client = c
    PROVE  s = t
<1>1. Usable(t)
  BY DEF IInv, ServerInv, NeverStuck, Usable
<1>2. srv[s].client = c
  BY <1>1 DEF Picked
<1> QED BY <1>2 DEF IInv, ServerInv, OneProcess

(* A process still engaged for a client is bound to it and by its header.  *)
LEMMA BoundFacts ==
    ASSUME RpcTransportAssumption, NoneAssumption, IInv, NEW c \in Sure, NEW s \in Slots,
           srv[s].client = c, Engaged(srv[s])
    PROVE  /\ srv[s].req \in SureCalls /\ srv[s].req[1] = c /\ srv[s].id = srv[s].req[3]
           /\ HeaderOK(srv[s], srv[s].req, executions[srv[s].req])
<1>1. srv[s].req[1] = c
  BY DEF IInv, ServerInv, TakenClean
<1>2. srv[s].id # 0
  <2>1. ServerOK(srv[s], rpcID) /\ c # None
    BY SureFacts DEF IInv, Types
  <2> QED BY <2>1 DEF ServerOK
<1>3. srv[s].req \in SureCalls
  BY <1>1, <1>2, SureFacts DEF IInv
<1>4. srv[s].id = srv[s].req[3]
  BY <1>3, SureFacts DEF IInv
<1> QED BY <1>1, <1>3, <1>4 DEF IInv, ServerInv, HeadersOK

(* A packet with a new ID that confuses nobody is a request not executed   *)
(* yet, and the process has nothing else to do.                            *)
LEMMA NewRequestFacts ==
    ASSUME RpcTransportAssumption, NoneAssumption, IInv, NEW c \in Clients, NEW p,
           NEW s \in Slots, NEW o, Delivers(c, p, s, o), c \in Sure', DispatchNew(c, p, s, o)
    PROVE  /\ p.type = "REQUEST" /\ p.call \in SureCalls /\ ~o.close
           /\ srv[s].work = "wait" /\ executions[p.call] = 0 /\ o.bits = {"BUSY"}
           /\ o.req = p.call
<1>1. /\ c \in Sure /\ ~Confuses(srv[s], p) /\ p.call \in SureCalls /\ p.call[1] = c
      /\ p.type \in {"REQUEST", "CLOSE"}
  BY DeliveredFacts
<1>2. /\ srv[s].id # p.call[3] /\ "BUSY" \notin srv[s].bits /\ o.bits = {"BUSY"}
      /\ o.req = p.call /\ (o.close <=> p.type = "CLOSE")
  BY DEF DispatchNew
<1>3. p.type = "REQUEST" /\ ~o.close
  BY <1>1, <1>2 DEF Confuses, ID
<1>4. srv[s].work = "wait"
  <2>1. CASE srv[s].client = c
    <3>1. ~Engaged(srv[s]) \/ HeaderOK(srv[s], srv[s].req, executions[srv[s].req])
      BY <1>1, <2>1, BoundFacts
    <3> QED BY <1>2, <3>1 DEF HeaderOK, Engaged
  <2>2. CASE srv[s].client # c
    BY <1>1, <2>2 DEF Confuses
  <2> QED BY <2>1, <2>2
<1>5. executions[p.call] = 0
  <2> SUFFICES ASSUME executions[p.call] # 0 PROVE FALSE
    OBVIOUS
  <2>1. Outstanding(p.call)
    BY <1>1, <1>3 DEF Outstanding, Delivers
  <2>2. PICK t \in Slots : Kept(srv[t], p.call)
    BY <1>1, <2>1 DEF IInv, CallInv, ReplyKept
  <2>3. s = t
    BY <1>1, <2>2, PickedFacts DEF Kept, Delivers, Dispatches
  <2>4. srv[s].id = p.call[3]
    BY <1>1, <2>2, <2>3, SureFacts DEF IInv, Kept
  <2> QED BY <1>2, <2>4
<1> QED BY <1>1, <1>2, <1>3, <1>4, <1>5

(* Unless it takes up a new request the process is no more engaged.        *)
LEMMA SameHeaderFacts ==
    ASSUME RpcTransportAssumption, NoneAssumption, IInv, NEW c \in Clients, NEW p,
           NEW s \in Slots, NEW o, Delivers(c, p, s, o), ~DispatchNew(c, p, s, o)
    PROVE  /\ SameRequest(o, srv[s])
           /\ Engaged(o) => Engaged(srv[s])
           /\ "BUSY" \in o.bits => "BUSY" \in srv[s].bits
           /\ c \in Sure' => "STUCK" \notin o.bits /\ srv[s].id = p.call[3]
           /\ \A k \in SureCalls : srv[s].req = k => srv[s].id = k[3]
<1>1. /\ \/ DispatchStuck(p, s, o) \/ DispatchFree(p, s, o)
         \/ DispatchAck(c, p, s, o) \/ DispatchReply(c, p, s, o)
      /\ Usable(s)
  BY DEF Delivers, Dispatches, Picked
<1>2. /\ c \in Sure' => ~Confuses(srv[s], p)
      /\ o.work = srv[s].work
  <2>1. c \in Sure' => ~Confuses(srv[s], p)
    BY DeliveredFacts
  <2>2. o.work = srv[s].work
    BY DEF Delivers, Dispatches
  <2> QED BY <2>1, <2>2
<1>3. SameRequest(o, srv[s])
  BY <1>1 DEF DispatchStuck, DispatchFree, DispatchAck, DispatchReply
<1>4. "BUSY" \in o.bits => "BUSY" \in srv[s].bits
  BY <1>1 DEF DispatchStuck, DispatchFree, DispatchAck, DispatchReply
<1>5. "WAITING" \in o.bits => "WAITING" \in srv[s].bits
  BY <1>1 DEF DispatchStuck, DispatchFree, DispatchAck, DispatchReply
<1>6. ASSUME c \in Sure' PROVE "STUCK" \notin o.bits /\ srv[s].id = p.call[3]
  <2>1. ~DispatchStuck(p, s, o)
    BY <1>2, <1>6 DEF DispatchStuck, Confuses, ID
  <2> QED BY <1>1, <2>1 DEF DispatchFree, DispatchAck, DispatchReply, Usable
<1>7. \A k \in SureCalls : srv[s].req = k => srv[s].id = k[3]
  BY SureFacts DEF IInv
<1> QED BY <1>2, <1>3, <1>4, <1>5, <1>6, <1>7 DEF Engaged

(* The header of the process after the packet.                             *)
LEMMA DeliveredHeader ==
    ASSUME RpcTransportAssumption, NoneAssumption, IInv, NEW c \in Clients, NEW p,
           NEW s \in Slots, NEW o, Delivers(c, p, s, o),
           NEW k \in SureCalls', o.req = k
    PROVE  HeaderOK(o, k, executions[k])
<1>1. /\ k \in SureCalls /\ k[1] \in Sure'
      /\ p.call \in Calls /\ p.call[1] = c /\ p.call[3] \in 1 .. MaxID
      /\ p.type \in {"REQUEST", "CLOSE"} /\ (c \in Sure => p.call \in SureCalls)
      /\ Sure' \subseteq Sure
      /\ ServerOK(srv[s], rpcID)
  BY DeliveredFacts
<1>s. /\ o.client = c /\ o.work = srv[s].work /\ o.running = srv[s].running
      /\ "BUSY" \in srv[s].bits => srv[s].client = c /\ srv[s].bits = {"BUSY"}
  BY DeliveredState
<1>2. CASE DispatchNew(c, p, s, o)
  <2>1. c \in Sure'
    BY <1>1, <1>2 DEF DispatchNew
  <2>2. /\ ~o.close /\ srv[s].work = "wait" /\ executions[p.call] = 0 /\ o.bits = {"BUSY"}
        /\ o.req = p.call
    BY <1>2, <2>1, NewRequestFacts
  <2> QED BY <1>1, <1>s, <2>2 DEF HeaderOK
<1>3. CASE ~DispatchNew(c, p, s, o)
  <2>1. SameRequest(o, srv[s]) /\ srv[s].req = k /\ srv[s].id = k[3]
    <3>1. SameRequest(o, srv[s])
      BY <1>3, SameHeaderFacts
    <3>2. srv[s].req = k
      BY <3>1 DEF SameRequest
    <3> QED BY <1>1, <1>3, <3>1, <3>2, SameHeaderFacts
  <2>2. HeaderOK(srv[s], k, executions[k])
    BY <1>1, <2>1 DEF IInv, ServerInv, HeadersOK
  <2>3. ~o.close /\ ~srv[s].close
    BY <2>1, <2>2 DEF HeaderOK, SameRequest
  <2>4. "BUSY" \in srv[s].bits => c = k[1]
    BY <1>1, <1>s, <2>1 DEF ServerOK
  <2>5. ~DispatchStuck(p, s, o)
    <3> SUFFICES ASSUME DispatchStuck(p, s, o) PROVE FALSE
      OBVIOUS
    <3>1. c \in Sure'
      BY <1>1, <2>4 DEF DispatchStuck
    <3>2. "STUCK" \notin o.bits
      BY <1>3, <3>1, SameHeaderFacts
    <3> QED BY <3>2 DEF DispatchStuck
  <2>6. CASE DispatchFree(p, s, o)
    <3>1. srv[s].work = "wait"
      <4> SUFFICES ASSUME srv[s].work # "wait" PROVE FALSE
        OBVIOUS
      <4>1. srv[s].bits = {"BUSY"}
        BY <2>2 DEF HeaderOK
      <4>2. p.type = "CLOSE" /\ p.call[3] = k[3] /\ c = k[1]
        BY <2>1, <2>4, <2>6, <4>1 DEF DispatchFree
      <4>3. p.call = k
        BY <1>1, <4>2, SureFacts DEF IInv
      <4>4. Closing(k)
        BY <1>1, <4>2, <4>3 DEF Closing, Delivers
      <4> QED BY <1>1, <2>1, <4>4 DEF IInv, CallInv, ClosedWhenDone
    <3>2. "BUSY" \notin o.bits /\ "WAITING" \notin o.bits
      <4>1. CASE "NO_REPLY" \in srv[s].bits
        BY <1>1, <1>s, <2>2, <2>6, <4>1 DEF DispatchFree, HeaderOK
      <4>2. CASE "NO_REPLY" \notin srv[s].bits
        BY <2>6, <4>2 DEF DispatchFree
      <4> QED BY <4>1, <4>2
    <3> QED BY <1>s, <2>3, <3>1, <3>2 DEF HeaderOK
  <2>7. CASE DispatchAck(c, p, s, o)
    BY <1>1, <1>s, <2>2, <2>3, <2>7 DEF DispatchAck, HeaderOK
  <2>8. CASE DispatchReply(c, p, s, o)
    <3>1. /\ "WAITING" \in srv[s].bits /\ o.bits = {"WAITING"} /\ o.reply = srv[s].reply
      BY <2>8 DEF DispatchReply
    <3>2. /\ srv[s].client = k[1] /\ srv[s].bits \subseteq {"WAITING", "AGING"}
          /\ executions[k] = 1 /\ srv[s].reply = [id |-> k[3], result |-> k]
          /\ srv[s].work = "wait"
      BY <1>1, <2>2, <3>1 DEF HeaderOK, ServerOK
    <3>3. c = k[1]
      BY <3>2 DEF Delivers, Dispatches, Picked
    <3> QED BY <1>s, <2>3, <3>1, <3>2, <3>3 DEF HeaderOK
  <2> QED BY <1>3, <2>5, <2>6, <2>7, <2>8 DEF Delivers, Dispatches
<1> QED BY <1>2, <1>3

LEMMA DeliveredServerInv ==
    ASSUME RpcTransportAssumption, NoneAssumption, IInv, NEW c \in Clients, NEW p,
           NEW s \in Slots, NEW o, Delivers(c, p, s, o)
    PROVE  ServerInv'
<1>1. /\ Sure' \subseteq Sure /\ SureCalls' \subseteq SureCalls
      /\ srv'[s] = o /\ \A t \in Slots \ {s} : srv'[t] = srv[t]
      /\ c \in Sure' => ~Confuses(srv[s], p)
      /\ p.call[1] = c /\ ServerOK(srv[s], rpcID)
  <2>1. Sure' \subseteq Sure /\ SureCalls' \subseteq SureCalls
    BY DeliveredFacts
  <2>2. srv'[s] = o /\ \A t \in Slots \ {s} : srv'[t] = srv[t]
    BY DeliveredOnly
  <2>3. /\ c \in Sure' => ~Confuses(srv[s], p)
        /\ p.call[1] = c /\ ServerOK(srv[s], rpcID)
    BY DeliveredFacts
  <2> QED BY <2>1, <2>2, <2>3
<1>s. /\ o.client = c /\ o.work = srv[s].work /\ o.running = srv[s].running
      /\ "BUSY" \in srv[s].bits => srv[s].client = c /\ srv[s].bits = {"BUSY"}
  BY DeliveredState
<1>2. executions' = executions /\ Picked(s, c)
  BY DEF Delivers, Dispatches
<1>3. OneProcess'
  <2>1. ASSUME NEW t \in Slots \ {s}, c \in Sure', srv[t].client = c PROVE FALSE
    <3>1. s = t
      BY <1>1, <1>s, <1>2, <2>1, PickedFacts
    <3> QED BY <3>1
  <2>2. ASSUME NEW d \in Sure', NEW t \in Slots, NEW u \in Slots,
               srv'[t].client = d, srv'[u].client = d PROVE t = u
    <3>1. CASE t # s /\ u # s
      BY <1>1, <1>s, <2>2, <3>1 DEF IInv, ServerInv, OneProcess
    <3>2. CASE t = s \/ u = s
      BY <1>1, <1>s, <2>1, <2>2, <3>2
    <3> QED BY <3>1, <3>2
  <2> QED BY <2>2 DEF OneProcess
<1>4. NeverStuck'
  <2>1. ASSUME c \in Sure' PROVE "STUCK" \notin o.bits
    <3>1. CASE DispatchNew(c, p, s, o)
      BY <3>1 DEF DispatchNew
    <3>2. CASE ~DispatchNew(c, p, s, o)
      BY <2>1, <3>2, SameHeaderFacts
    <3> QED BY <3>1, <3>2
  <2>2. ASSUME NEW t \in Slots, srv'[t].client \in Sure' PROVE "STUCK" \notin srv'[t].bits
    <3>1. CASE t = s
      BY <1>1, <1>s, <2>1, <2>2, <3>1
    <3>2. CASE t # s
      BY <1>1, <1>s, <2>2, <3>2 DEF IInv, ServerInv, NeverStuck
    <3> QED BY <3>1, <3>2
  <2> QED BY <2>2 DEF NeverStuck
<1>5. HeadersOK'
  <2>1. ASSUME NEW t \in Slots, NEW k \in SureCalls', srv'[t].req = k
        PROVE  HeaderOK(srv'[t], k, executions[k])
    <3>1. CASE t = s
      BY <1>1, <1>s, <2>1, <3>1, DeliveredHeader
    <3>2. CASE t # s
      BY <1>1, <1>s, <2>1, <3>2 DEF IInv, ServerInv, HeadersOK
    <3> QED BY <3>1, <3>2
  <2> QED BY <1>2, <2>1 DEF HeadersOK
<1>6. RunsForReq'
  <2>1. ASSUME NEW t \in Slots, NEW k \in SureCalls', srv'[t].work # "wait", srv'[t].running = k
        PROVE  srv'[t].req = k
    <3>1. CASE t = s
      <4>1. srv[s].req = k
        BY <1>1, <1>s, <2>1, <3>1 DEF IInv, ServerInv, RunsForReq
      <4>2. srv[s].bits = {"BUSY"}
        BY <1>1, <1>s, <2>1, <3>1, <4>1 DEF IInv, ServerInv, HeadersOK, HeaderOK
      <4>3. ~DispatchNew(c, p, s, o)
        BY <4>2 DEF DispatchNew
      <4>4. SameRequest(o, srv[s])
        BY <4>3, SameHeaderFacts
      <4> QED BY <1>1, <1>s, <3>1, <4>1, <4>4 DEF SameRequest
    <3>2. CASE t # s
      BY <1>1, <1>s, <2>1, <3>2 DEF IInv, ServerInv, RunsForReq
    <3> QED BY <3>1, <3>2
  <2> QED BY <2>1 DEF RunsForReq
<1>7. TakenClean'
  <2>1. ASSUME c \in Sure', Engaged(o) PROVE o.req[1] = c
    <3>1. CASE DispatchNew(c, p, s, o)
      BY <1>1, <1>s, <3>1 DEF DispatchNew
    <3>2. CASE ~DispatchNew(c, p, s, o)
      <4>1. SameRequest(o, srv[s]) /\ Engaged(srv[s]) /\ srv[s].id = p.call[3]
        BY <2>1, <3>2, SameHeaderFacts
      <4>2. srv[s].client = c
        BY <1>1, <1>s, <2>1, <4>1 DEF Confuses, ID, Engaged
      <4>3. srv[s].req[1] = c
        BY <1>1, <1>s, <2>1, <4>1, <4>2 DEF IInv, ServerInv, TakenClean
      <4> QED BY <4>1, <4>3 DEF SameRequest
    <3> QED BY <3>1, <3>2
  <2>2. ASSUME NEW t \in Slots, srv'[t].client \in Sure', Engaged(srv'[t])
        PROVE  srv'[t].req[1] = srv'[t].client
    <3>1. CASE t = s
      BY <1>1, <1>s, <2>1, <2>2, <3>1
    <3>2. CASE t # s
      BY <1>1, <1>s, <2>2, <3>2 DEF IInv, ServerInv, TakenClean
    <3> QED BY <3>1, <3>2
  <2> QED BY <2>2 DEF TakenClean
<1> QED BY <1>3, <1>4, <1>5, <1>6, <1>7 DEF ServerInv

LEMMA DeliveredOrder ==
    ASSUME RpcTransportAssumption, NoneAssumption, IInv, NEW c \in Clients, NEW p,
           NEW s \in Slots, NEW o, Delivers(c, p, s, o)
    PROVE  Order'
<1>1. /\ Sure' \subseteq Sure /\ SureCalls' \subseteq SureCalls /\ Sure \subseteq Clients
      /\ p.call \in Calls /\ p.call[1] = c /\ p.call[3] \in Nat
  <2>1. Sure \subseteq Clients
    BY SureFacts DEF IInv
  <2>2. Sure' \subseteq Sure /\ SureCalls' \subseteq SureCalls
    BY DeliveredFacts
  <2>3. p.call \in Calls /\ p.call[1] = c /\ p.call[3] \in 1 .. MaxID
    BY DeliveredFacts
  <2> QED BY <2>1, <2>2, <2>3
<1>2. srv'[s] = o /\ \A t \in Slots \ {s} : srv'[t] = srv[t]
  BY DeliveredOnly
<1>3. /\ \A d \in Clients : PacketsIn(toServer'[d]) \subseteq PacketsIn(toServer[d])
      /\ \A d \in Clients : \A ch : InOrder(toServer[d], ch) => InOrder(toServer'[d], ch)
      /\ \A ch : InOrder(toServer[c], ch) =>
            \A r \in PacketsIn(toServer'[c]) : r.type = "REQUEST" => Before(p, r.call[3])
      /\ UNCHANGED chan
  BY DEF Delivers
<1>4. ASSUME NEW d \in Sure' PROVE InOrder(toServer'[d], chan[d])
  <2>1. d \in Clients /\ InOrder(toServer[d], chan[d])
    BY <1>1, <1>4 DEF IInv, Order
  <2> QED BY <1>3, <2>1
<1>5. ASSUME NEW d \in Sure', NEW t \in Slots, NEW k \in SureCalls', srv'[t].req = k, k[1] = d
      PROVE  Behind(srv'[t], toServer'[d])
  <2>1. d \in Clients /\ d \in Sure /\ k \in SureCalls /\ InOrder(toServer[d], chan[d])
    BY <1>1, <1>5 DEF IInv, Order
  <2>2. CASE srv[t].req = k
    <3>1. Behind(srv[t], toServer[d])
      BY <1>5, <2>1, <2>2 DEF IInv, Order
    <3> QED BY <1>3, <1>5, <2>1, <2>2, <3>1 DEF Behind
  <2>3. CASE srv[t].req # k
    <3>1. t = s /\ o.req = k
      BY <1>2, <1>5, <2>3
    <3>2. DispatchNew(c, p, s, o)
      <4> SUFFICES ASSUME ~DispatchNew(c, p, s, o) PROVE FALSE
        OBVIOUS
      <4>1. SameRequest(o, srv[s])
        BY SameHeaderFacts
      <4> QED BY <2>3, <3>1, <4>1 DEF SameRequest
    <3>3. k = p.call /\ d = c
      BY <1>1, <1>5, <3>1, <3>2 DEF DispatchNew
    <3>4. ASSUME NEW r \in PacketsIn(toServer'[c]), r.type = "REQUEST"
          PROVE  p.call[3] <= r.call[3]
      <4>1. Before(p, r.call[3])
        BY <1>3, <2>1, <3>3, <3>4
      <4>2. r \in PacketsIn(toServer[c])
        BY <1>3, <3>4
      <4>3. r.call \in SureCalls
        BY <2>1, <3>3, <4>2, SureFacts DEF IInv
      <4>4. r.call[3] \in 1 .. MaxID
        BY <4>3, SureFacts DEF IInv
      <4> QED BY <1>1, <4>1, <4>4 DEF Before
    <3> QED BY <1>2, <3>1, <3>3, <3>4 DEF Behind
  <2> QED BY <2>2, <2>3
<1> QED BY <1>3, <1>4, <1>5 DEF Order

(* A process lets go of a reply only when it is not needed any more.       *)
LEMMA DeliveredReplyKept ==
    ASSUME RpcTransportAssumption, NoneAssumption, IInv, NEW c \in Clients, NEW p,
           NEW s \in Slots, NEW o, Delivers(c, p, s, o),
           NEW k \in SureCalls', executions[k] # 0, Outstanding(k)'
    PROVE  \E t \in Slots : Kept(srv'[t], k)
<1>1. /\ Sure' \subseteq Sure /\ k \in SureCalls /\ k[1] \in Sure'
      /\ p.call \in Calls /\ p.call[1] = c /\ p.call[3] \in 1 .. MaxID
  BY DeliveredFacts
<1>2. k[1] \in Sure /\ k[1] \in Clients /\ k[3] \in 1 .. MaxID
  BY <1>1, SureFacts DEF IInv
<1>3. srv'[s] = o /\ \A t \in Slots \ {s} : srv'[t] = srv[t]
  BY DeliveredOnly
<1>4. /\ \A d \in Clients : PacketsIn(toServer'[d]) \subseteq PacketsIn(toServer[d])
      /\ UNCHANGED chan
  BY DEF Delivers
<1>5. Outstanding(k)
  BY <1>2, <1>4 DEF Outstanding
<1>6. PICK t \in Slots : Kept(srv[t], k)
  BY <1>1, <1>5 DEF IInv, CallInv, ReplyKept
<1>7. CASE t # s
  BY <1>3, <1>6, <1>7
<1>8. CASE t = s
  <2>1. /\ srv[s].client = k[1] /\ srv[s].req = k
        /\ "WAITING" \in srv[s].bits \/ srv[s].work = "done"
    BY <1>6, <1>8 DEF Kept
  <2>2. HeaderOK(srv[s], k, executions[k]) /\ srv[s].id = k[3]
    BY <1>1, <2>1, SureFacts DEF IInv, ServerInv, HeadersOK
  <2>3. \/ srv[s].bits = {"BUSY"} /\ srv[s].work = "done"
        \/ "WAITING" \in srv[s].bits /\ srv[s].bits \subseteq {"WAITING", "AGING"} /\ srv[s].work = "wait"
    BY <2>1, <2>2 DEF HeaderOK
  <2>4. c = k[1] /\ o.client = c /\ o.work = srv[s].work
    <3>1. "FREE" \notin srv[s].bits
      BY <2>3
    <3>2. Picked(s, c) /\ o.client = c /\ o.work = srv[s].work
      BY DeliveredState
    <3> QED BY <2>1, <3>1, <3>2 DEF Picked
  <2>5. p.type = "CLOSE" => p.call[3] >= k[3]
    <3>1. DispatchNew(c, p, s, o) => p.type = "REQUEST"
      BY <1>1, <2>4, NewRequestFacts
    <3>2. ~DispatchNew(c, p, s, o) => srv[s].id = p.call[3]
      BY <1>1, <2>4, SameHeaderFacts
    <3> QED BY <1>1, <1>2, <2>2, <3>1, <3>2
  <2>6. p.type = "REQUEST" => p.call[3] >= k[3]
    <3>1. Behind(srv[s], toServer[c])
      BY <1>1, <1>2, <2>1, <2>4 DEF IInv, Order
    <3> QED BY <1>1, <1>2, <2>1, <3>1 DEF Behind, Delivers
  <2>7. Before(p, k[3])
    <3>1. InOrder(toServer[c], chan[c])
      BY <1>2, <2>4 DEF IInv, Order
    <3>2. CASE chan[c].call = k
      <4>1. chan[c].id = k[3] /\ chan[c].call # None
        BY <1>1, <1>2, <2>4, <3>2, SureFacts DEF IInv
      <4> QED BY <3>1, <4>1 DEF InOrder, Delivers
    <3>3. CASE chan[c].call # k
      <4>1. PICK r \in PacketsIn(toServer'[c]) : r.type = "REQUEST" /\ r.call = k
        BY <1>4, <2>4, <3>3 DEF Outstanding
      <4>2. Before(p, r.call[3])
        BY <3>1, <4>1 DEF Delivers
      <4> QED BY <4>1, <4>2
    <3> QED BY <3>2, <3>3
  <2>8. p.type = "REQUEST" /\ p.call[3] = k[3]
    <3>1. p.type \in {"REQUEST", "CLOSE"}
      BY DeliveredFacts
    <3> QED BY <1>1, <1>2, <2>5, <2>6, <2>7, <3>1 DEF Before
  <2>9. ~DispatchNew(c, p, s, o)
    BY <2>2, <2>8 DEF DispatchNew
  <2>10. SameRequest(o, srv[s])
    BY <2>9, SameHeaderFacts
  <2>11. DispatchAck(c, p, s, o) \/ DispatchReply(c, p, s, o)
    <3>1. ~DispatchStuck(p, s, o)
      BY <2>2, <2>8 DEF DispatchStuck
    <3>2. ~DispatchFree(p, s, o)
      BY <2>3, <2>8 DEF DispatchFree
    <3> QED BY <2>9, <3>1, <3>2 DEF Delivers, Dispatches
  <2>12. "WAITING" \in o.bits \/ o.work = "done"
    BY <2>3, <2>4, <2>11 DEF DispatchAck, DispatchReply
  <2> QED BY <1>3, <2>1, <2>4, <2>10, <2>12 DEF Kept, SameRequest
<1> QED BY <1>7, <1>8

(* The answers the dispatcher sends.                                       *)
LEMMA DeliveredAnswers ==
    ASSUME RpcTransportAssumption, NoneAssumption, IInv, NEW c \in Clients, NEW p,
           NEW s \in Slots, NEW o, Delivers(c, p, s, o), NEW d \in Clients,
           NEW a \in PacketsIn(toClient'[d]), a \notin PacketsIn(toClient[d])
    PROVE  /\ d = c /\ a.type # "CLOSE"
           /\ a.type = "REPLY" => DispatchReply(c, p, s, o) /\ a.id = o.reply.id
                                  /\ a.result = o.reply.result
<1>1. p.call[3] \in 1 .. MaxID /\ Types
  BY DeliveredFacts DEF IInv
<1>2. CASE toClient' = toClient
  BY <1>2
<1>3. CASE DispatchReply(c, p, s, o) /\ toClient' # toClient
  <2>1. o.reply \in Replies /\ toClient' = Enqueue(toClient, c, Reply(s, o))
    BY <1>3 DEF DispatchReply
  <2>2. /\ Reply(s, o) \in ClientPackets /\ Reply(s, o).type = "REPLY"
        /\ Reply(s, o).id = o.reply.id /\ Reply(s, o).result = o.reply.result
    BY <2>1 DEF Reply, ClientPackets, Replies, NoneOr
  <2>3. /\ \A e \in Clients \ {c} : toClient'[e] = toClient[e]
        /\ PacketsIn(toClient'[c]) \subseteq PacketsIn(toClient[c]) \cup {Reply(s, o)}
    BY <1>1, <2>1, <2>2, SentAnswers
  <2>4. d = c /\ a = Reply(s, o)
    BY <2>3
  <2> QED BY <1>3, <2>2, <2>4
<1>4. CASE Answered(c, Ack(s, p.call[3])) /\ toClient' # toClient
  <2>1. toClient' = Enqueue(toClient, c, Ack(s, p.call[3]))
    BY <1>4 DEF Answered
  <2>2. /\ Ack(s, p.call[3]) \in ClientPackets /\ Ack(s, p.call[3]).type = "ACK"
    BY <1>1, SmallAnswers DEF AnswerOK
  <2>3. /\ \A e \in Clients \ {c} : toClient'[e] = toClient[e]
        /\ PacketsIn(toClient'[c]) \subseteq PacketsIn(toClient[c]) \cup {Ack(s, p.call[3])}
    BY <1>1, <2>1, <2>2, SentAnswers
  <2>4. d = c /\ a = Ack(s, p.call[3])
    BY <2>3
  <2> QED BY <2>2, <2>4
<1> QED BY <1>2, <1>3, <1>4
    DEF Delivers, Dispatches, DispatchStuck, DispatchNew, DispatchFree, DispatchAck

LEMMA DeliveredCallInv ==
    ASSUME RpcTransportAssumption, NoneAssumption, IInv, NEW c \in Clients, NEW p,
           NEW s \in Slots, NEW o, Delivers(c, p, s, o)
    PROVE  CallInv'
<1>1. Sure' \subseteq Sure /\ SureCalls' \subseteq SureCalls
  BY DeliveredFacts
<1>2. Sure \subseteq Clients /\ \A k \in SureCalls : k[1] \in Clients /\ k \in StableCalls /\ k[1] \in Sure
  BY SureFacts DEF IInv
<1>3. srv'[s] = o /\ \A t \in Slots \ {s} : srv'[t] = srv[t]
  BY DeliveredOnly
<1>4. UNCHANGED <<rpcID, chan, executions>>
  BY DEF Delivers
<1>5. ReplyKept'
  <2>1. ASSUME NEW k \in SureCalls', executions[k] # 0, Outstanding(k)'
        PROVE  \E t \in Slots : Kept(srv'[t], k)
    BY <2>1, DeliveredReplyKept
  <2> QED BY <1>4, <2>1 DEF ReplyKept
<1>6. AtMostOnce' /\ NotYetIssued'
  BY <1>1, <1>4 DEF IInv, CallInv, AtMostOnce, NotYetIssued
<1>7. ClosedWhenDone'
  <2>1. ASSUME NEW k \in SureCalls', Closing(k)'
        PROVE  /\ executions[k] = 1
               /\ \A t \in Slots : srv'[t].req = k => "BUSY" \notin srv'[t].bits /\ srv'[t].work = "wait"
    <3>1. k \in SureCalls /\ k[1] \in Clients
      BY <1>1, <1>2
    <3>2. Closing(k)
      <4>1. CASE \E q \in PacketsIn(toClient'[k[1]]) : q.type = "CLOSE" /\ q.id = k[3]
        BY <3>1, <4>1, DeliveredAnswers DEF Closing
      <4>2. CASE \E q \in PacketsIn(toServer'[k[1]]) : q.type = "CLOSE" /\ q.call = k
        BY <3>1, <4>2 DEF Closing, Delivers
      <4> QED BY <2>1, <4>1, <4>2 DEF Closing
    <3>3. /\ executions[k] = 1
          /\ \A t \in Slots : srv[t].req = k => "BUSY" \notin srv[t].bits /\ srv[t].work = "wait"
      BY <3>1, <3>2 DEF IInv, CallInv, ClosedWhenDone
    <3>4. ASSUME o.req = k PROVE "BUSY" \notin o.bits /\ o.work = "wait"
      <4>1. CASE DispatchNew(c, p, s, o)
        <5>1. p.call = k /\ c \in Sure'
          <6>1. p.call = k
            BY <3>4, <4>1 DEF DispatchNew
          <6>2. p.call[1] = c
            BY DeliveredFacts
          <6>3. k[1] \in Sure'
            BY DeliveredFacts
          <6> QED BY <6>1, <6>2, <6>3
        <5>2. executions[p.call] = 0
          BY <4>1, <5>1, NewRequestFacts
        <5> QED BY <3>3, <5>1, <5>2
      <4>2. CASE ~DispatchNew(c, p, s, o)
        <5>1. SameRequest(o, srv[s]) /\ ("BUSY" \in o.bits => "BUSY" \in srv[s].bits)
          BY <4>2, SameHeaderFacts
        <5>2. o.work = srv[s].work
          BY DEF Delivers, Dispatches
        <5> QED BY <3>3, <3>4, <5>1, <5>2 DEF SameRequest
      <4> QED BY <4>1, <4>2
    <3> QED BY <1>3, <3>3, <3>4
  <2> QED BY <1>4, <2>1 DEF ClosedWhenDone
<1>8. Answers'
  <2>1. ASSUME NEW d \in Sure', NEW a \in PacketsIn(toClient'[d]), a.type = "REPLY"
        PROVE  Tells(a, d, executions)
    <3>1. d \in Sure /\ d \in Clients
      BY <1>1, <1>2
    <3>2. CASE a \in PacketsIn(toClient[d])
      BY <2>1, <3>1, <3>2 DEF IInv, CallInv, Answers
    <3>3. CASE a \notin PacketsIn(toClient[d])
      <4>1. d = c /\ DispatchReply(c, p, s, o) /\ a.id = o.reply.id /\ a.result = o.reply.result
        BY <2>1, <3>1, <3>3, DeliveredAnswers
      <4>2. srv[s].id = p.call[3] /\ "WAITING" \in srv[s].bits /\ o.reply = srv[s].reply
        BY <4>1 DEF DispatchReply
      <4>3. ~Confuses(srv[s], p) /\ p.call[1] = c
        <5>1. c \in Sure'
          BY <4>1
        <5> QED BY <5>1, DeliveredFacts
      <4>4. srv[s].client = c
        BY <4>2, <4>3 DEF Confuses, ID
      <4>5. /\ srv[s].req \in SureCalls /\ srv[s].req[1] = c
            /\ HeaderOK(srv[s], srv[s].req, executions[srv[s].req])
        BY <3>1, <4>1, <4>2, <4>4, BoundFacts DEF Engaged
      <4>6. /\ executions[srv[s].req] = 1
            /\ srv[s].reply = [id |-> srv[s].req[3], result |-> srv[s].req]
        BY <4>2, <4>5 DEF HeaderOK
      <4>7. a.id = srv[s].req[3] /\ a.result = srv[s].req
        BY <4>1, <4>2, <4>6
      <4> QED BY <1>2, <4>1, <4>5, <4>6, <4>7 DEF Tells
    <3> QED BY <3>2, <3>3
  <2>2. \A d \in Sure' : "INPUT" \in chan[d].bits /\ chan[d].input.type = "REPLY"
                        => Tells(chan[d].input, d, executions)
    BY <1>1 DEF IInv, CallInv, Answers
  <2> QED BY <1>4, <2>1, <2>2 DEF Answers
<1> QED BY <1>5, <1>6, <1>7, <1>8 DEF CallInv

(* No process takes the packet: it is refused, or ignored.                 *)
LEMMA RefusedKeeps ==
    ASSUME RpcTransportAssumption, NoneAssumption, IInv, NEW c \in Clients, NEW n \in 1 .. MaxID,
           toServer[c] # <<>>, toServer' = [toServer EXCEPT ![c] = Tail(@)],
           UNCHANGED <<rpcID, boot, chan, outcome, confused, srv, knownBoot, executions>>,
           Answered(c, [type |-> "NACK", id |-> n, hint |-> 0, result |-> None])
    PROVE  ServerInv' /\ Order' /\ CallInv'
<1> DEFINE nack == [type |-> "NACK", id |-> n, hint |-> 0, result |-> None]
<1>1. /\ Types /\ Sure \subseteq Clients /\ Sure' = Sure /\ SureCalls' = SureCalls
      /\ \A k \in SureCalls : k[1] \in Clients
  <2>1. Sure' = Sure /\ SureCalls' = SureCalls
    BY DEF Sure, SureCalls
  <2> QED BY <2>1, SureFacts DEF IInv
<1>2. /\ \A d \in Clients : PacketsIn(toServer'[d]) \subseteq PacketsIn(toServer[d])
      /\ \A d \in Clients : \A ch : InOrder(toServer[d], ch) => InOrder(toServer'[d], ch)
  BY <1>1, TakenPackets
<1>3. nack \in ClientPackets /\ nack.type = "NACK"
  BY <1>1, SmallAnswers DEF AnswerOK
<1> HIDE DEF nack
<1>4. \A d \in Clients : \A a \in PacketsIn(toClient'[d]) : a \in PacketsIn(toClient[d]) \/ a.type = "NACK"
  <2>1. CASE toClient' = toClient
    BY <2>1
  <2>2. CASE toClient' = Enqueue(toClient, c, nack)
    <3>1. /\ \A e \in Clients \ {c} : toClient'[e] = toClient[e]
          /\ PacketsIn(toClient'[c]) \subseteq PacketsIn(toClient[c]) \cup {nack}
      BY <1>1, <1>3, <2>2, SentAnswers
    <3> QED BY <1>3, <3>1
  <2> QED BY <2>1, <2>2 DEF Answered, nack
<1>5. ServerInv'
  BY <1>1 DEF IInv, ServerInv, OneProcess, NeverStuck, HeadersOK, RunsForReq, TakenClean
<1>6. Order'
  <2>1. \A d \in Sure : InOrder(toServer'[d], chan'[d])
    BY <1>1, <1>2 DEF IInv, Order
  <2> QED BY <1>1, <1>2, <2>1, ClientOrder
<1>7. AtMostOnce' /\ Answers' /\ NotYetIssued'
  <2>1. \A d \in Sure : \A a \in PacketsIn(toClient'[d]) : a \in PacketsIn(toClient[d]) \/ a.type # "REPLY"
    BY <1>1, <1>4
  <2> QED BY <2>1, HistoryBasics
<1>8. ReplyKept'
  <2>1. ASSUME NEW k \in SureCalls, Outstanding(k)' PROVE Outstanding(k)
    BY <1>1, <1>2, <2>1 DEF Outstanding
  <2> QED BY <1>1, <2>1 DEF ReplyKept, IInv, CallInv
<1>9. ClosedWhenDone'
  <2>1. ASSUME NEW k \in SureCalls, Closing(k)' PROVE Closing(k)
    BY <1>1, <1>2, <1>4, <2>1 DEF Closing
  <2> QED BY <1>1, <2>1 DEF ClosedWhenDone, IInv, CallInv
<1> QED BY <1>5, <1>6, <1>7, <1>8, <1>9 DEF CallInv

LEMMA RpcServerDispatchKeeps ==
    ASSUME RpcTransportAssumption, NoneAssumption, IInv, NEW c \in Clients, RpcServerDispatch(c)
    PROVE  IInv'
<1>p. PICK p : p = Head(toServer[c])
  OBVIOUS
<1>1. Types /\ Types'
  BY RpcServerDispatchTypes DEF IInv
<1>2. /\ toServer[c] # <<>> /\ toServer' = [toServer EXCEPT ![c] = Tail(@)]
      /\ UNCHANGED <<rpcID, boot, chan, outcome, knownBoot, executions>>
      /\ SentOK(p, c, rpcID)
      /\ NoServer(c, p) \/ \E s \in Slots, o \in ServerStates : Dispatches(c, p, s, o)
  BY <1>1, <1>p, DispatchCases
<1>3. CASE NoServer(c, p)
  <2>1. p.call[3] \in 1 .. MaxID
    <3>1. p.call \in Calls
      BY <1>2 DEF SentOK, ServerPackets
    <3> QED BY <3>1, CallFacts
  <2>2. /\ UNCHANGED <<confused, srv>>
        /\ Answered(c, [type |-> "NACK", id |-> p.call[3], hint |-> 0, result |-> None])
    BY <1>3 DEF NoServer
  <2> QED BY <1>1, <1>2, <2>1, <2>2, RefusedKeeps DEF IInv
<1>4. CASE \E s \in Slots, o \in ServerStates : Dispatches(c, p, s, o)
  <2>1. PICK s \in Slots, o \in ServerStates : Dispatches(c, p, s, o)
    BY <1>4
  <2>2. Delivers(c, p, s, o)
    <3>1. /\ p \in PacketsIn(toServer[c])
          /\ \A d \in Clients : PacketsIn(toServer'[d]) \subseteq PacketsIn(toServer[d])
      BY <1>1, <1>2, <1>p, TakenPackets
    <3>2. \A d \in Clients : \A ch : InOrder(toServer[d], ch) => InOrder(toServer'[d], ch)
      BY <1>1, <1>2, TakenPackets
    <3>3. \A ch : InOrder(toServer[c], ch) =>
             \A r \in PacketsIn(toServer'[c]) : r.type = "REQUEST" => Before(p, r.call[3])
      BY <1>1, <1>2, <1>p, TakenPackets
    <3> QED BY <1>2, <2>1, <3>1, <3>2, <3>3 DEF Delivers
  <2>3. ServerInv'
    BY <2>2, DeliveredServerInv
  <2>4. Order'
    BY <2>2, DeliveredOrder
  <2>5. CallInv'
    BY <2>2, DeliveredCallInv
  <2> QED BY <1>1, <2>3, <2>4, <2>5 DEF IInv
<1> QED BY <1>2, <1>3, <1>4

-----------------------------------------------------------------------------
(* The theorems.                                                           *)

LEMMA InvKept ==
    ASSUME RpcTransportAssumption, NoneAssumption, IInv, [Next]_vars
    PROVE  IInv'
<1>1. CASE UNCHANGED vars
  <2>1. /\ UNCHANGED <<rpcID, boot, chan, outcome, confused, srv, knownBoot, toServer, toClient, executions>>
        /\ UNCHANGED <<Sure, SureCalls>>
    BY <1>1 DEF vars, Sure, SureCalls
  <2>2. Types'
    BY TypesKept DEF IInv
  <2>3. ServerInv'
    BY <2>1 DEF IInv, ServerInv, OneProcess, NeverStuck, HeadersOK, RunsForReq, TakenClean
  <2>4. Order'
    BY <2>1, ClientOrderSame
  <2>5. AtMostOnce' /\ Answers' /\ NotYetIssued'
    BY <2>1, HistoryBasics
  <2>6. ReplyKept' /\ ClosedWhenDone'
    BY <2>1 DEF IInv, CallInv, ReplyKept, ClosedWhenDone, Outstanding, Closing
  <2> QED BY <2>2, <2>3, <2>4, <2>5, <2>6 DEF IInv, CallInv
<1>2. CASE Next
  <2>1. ASSUME NEW c \in Clients, StartCall(c, FALSE) PROVE IInv'
    BY <2>1, StartCallKeeps
  <2>2. ASSUME NEW c \in Broadcasters, StartCall(c, TRUE) PROVE IInv'
    BY <2>2, StartCallKeeps DEF RpcTransportAssumption
  <2>3. ASSUME NEW c \in Clients, Rpc_Timeout(c) \/ DoInput(c) \/ DoTimeout(c) \/ Reboot(c)
        PROVE  IInv'
    BY <2>3, Rpc_TimeoutKeeps, DoInputKeeps, DoTimeoutKeeps, RebootKeeps
  <2>4. ASSUME NEW c \in Clients, \/ RpcClientDispatch(c) \/ RpcServerDispatch(c)
                                  \/ LoseToServer(c) \/ LoseToClient(c)
        PROVE  IInv'
    BY <2>4, RpcClientDispatchKeeps, RpcServerDispatchKeeps, LoseKeeps
  <2>5. ASSUME NEW s \in Slots, \/ ServerStart(s) \/ ServerReply(s) \/ ServerNoReply(s)
                                \/ ServerWait(s) \/ RpcReclaimServer(s)
        PROVE  IInv'
    BY <2>5, ServerStartKeeps, ServerReplyKeeps, ServerNoReplyKeeps, ServerWaitKeeps,
       RpcReclaimServerKeeps
  <2> QED BY <1>2, <2>1, <2>2, <2>3, <2>4, <2>5 DEF Next
<1> QED BY <1>1, <1>2

(* The request header of a call of a client that is not confused stays     *)
(* what it was while the service procedure runs: the dispatcher does not   *)
(* touch a process that is busy with the last request of its client.       *)
THEOREM RequestsKeepHeaders ==
    RpcTransportAssumption /\ NoneAssumption /\ Spec => []RequestStable
<1> SUFFICES ASSUME RpcTransportAssumption, NoneAssumption PROVE Spec => []RequestStable
  OBVIOUS
<1>1. Init => IInv
  BY InitInv
<1>2. IInv /\ [Next]_vars => IInv'
  BY InvKept
<1>3. IInv => RequestStable
  <2> SUFFICES ASSUME IInv, NEW s \in Slots, srv[s].work = "run",
                      srv[s].running \in StableCalls, srv[s].running[1] \notin confused
               PROVE  srv[s].running = srv[s].req
    BY DEF RequestStable
  <2>1. srv[s].running \in SureCalls
    BY DEF SureCalls
  <2> QED BY <2>1 DEF IInv, ServerInv, RunsForReq
<1> QED BY <1>1, <1>2, <1>3, PTL DEF Spec

-----------------------------------------------------------------------------
(* The transport implements at-most-once calls.                            *)

Current == [c \in Stable |-> chan[c].call]
Issued == {k \in StableCalls : k[3] < rpcID[k[1]]}

Hides == UNCHANGED <<Current, Issued, executions, outcome, confused>>

LEMMA HiddenStep == Hides => UNCHANGED Abstract!vars
  BY DEF Hides, Current, Issued, Abstract!vars

LEMMA StableChannels ==
    ASSUME RpcTransportAssumption, UNCHANGED <<rpcID, executions, outcome, confused>>,
           \A c \in Stable : chan'[c].call = chan[c].call
    PROVE  Hides
  BY DEF Hides, Current, Issued

LEMMA StartCallImplements ==
    ASSUME RpcTransportAssumption, NoneAssumption, Types,
           NEW c \in Clients, NEW bcast \in BOOLEAN, StartCall(c, bcast)
    PROVE  Abstract!Next \/ Hides
<1>1. /\ chan[c].call = None /\ rpcID[c] \in 1 .. MaxID
      /\ chan'[c].call = NewCall(c)
      /\ \A d \in Clients \ {c} : chan'[d] = chan[d] /\ rpcID'[d] = rpcID[d]
      /\ rpcID'[c] = rpcID[c] + 1
      /\ UNCHANGED <<outcome, confused, executions>>
  BY StartCallFacts
<1>2. /\ Stable \subseteq Clients /\ \A d \in Stable : boot[d] = 1
      /\ \A k \in StableCalls : k = <<k[1], 1, k[3]>> /\ k[1] \in Stable /\ k[3] \in 1 .. MaxID
      /\ \A d \in Stable, n \in 1 .. MaxID : <<d, 1, n>> \in StableCalls
  BY StableFacts DEF Types, BaseTypes
<1>3. CASE c \notin Stable
  <2>1. Current' = Current
    BY <1>1, <1>2, <1>3 DEF Current
  <2>2. \A k \in StableCalls : rpcID'[k[1]] = rpcID[k[1]]
    BY <1>1, <1>2, <1>3
  <2>3. Issued' = Issued
    BY <2>2 DEF Issued
  <2> QED BY <1>1, <2>1, <2>3 DEF Hides
<1>4. CASE c \in Stable
  <2>k. PICK k : k = NewCall(c)
    OBVIOUS
  <2>1. k \in StableCalls /\ k[1] = c /\ k[3] = rpcID[c]
    BY <1>1, <1>2, <1>4, <2>k DEF NewCall
  <2>2. \A l \in StableCalls : l[1] = c /\ l[3] = rpcID[c] => l = k
    BY <1>2, <1>4, <2>k DEF NewCall
  <2>3. Current[c] = None /\ Current' = [Current EXCEPT ![c] = k]
    BY <1>1, <1>2, <1>4, <2>k DEF Current
  <2>4. k \notin Issued
    BY <1>1, <2>1 DEF Issued
  <2>5. Issued' = Issued \cup {k}
    <3>1. ASSUME NEW l \in StableCalls
          PROVE  l[3] < rpcID'[l[1]] <=> (l[3] < rpcID[l[1]] \/ l = k)
      <4>1. CASE l[1] = c
        <5>1. l[3] \in Nat /\ rpcID[c] \in Nat
          BY <1>1, <1>2
        <5>2. l[3] < rpcID[c] + 1 <=> l[3] < rpcID[c] \/ l[3] = rpcID[c]
          BY <5>1
        <5> QED BY <1>1, <2>1, <2>2, <4>1, <5>2
      <4>2. CASE l[1] # c
        BY <1>1, <1>2, <2>1, <4>2
      <4> QED BY <4>1, <4>2
    <3> QED BY <2>1, <3>1 DEF Issued
  <2>6. Abstract!Issue(c, k)
    BY <1>1, <2>3, <2>4, <2>5 DEF Abstract!Issue, Current, Issued
  <2> QED BY <1>4, <2>1, <2>6 DEF Abstract!Next
<1> QED BY <1>3, <1>4

(* RpcDoCall returns: with the result of the call's own execution, or with *)
(* a timeout.                                                              *)
LEMMA FinishImplements ==
    ASSUME RpcTransportAssumption, NoneAssumption, IInv, NEW c \in Clients, NEW result,
           chan[c].call # None, chan'[c].call = None,
           \A d \in Clients \ {c} : chan'[d] = chan[d],
           outcome' = [k \in Stable |-> IF k = c THEN result ELSE outcome[k]],
           UNCHANGED <<rpcID, executions, confused>>,
           \/ result = None
           \/ /\ c \in Sure => result = chan[c].call /\ executions[chan[c].call] = 1
              /\ result \in Results
    PROVE  Abstract!Next \/ Hides
<1>1. Stable \subseteq Clients /\ outcome \in [Stable -> NoneOr(Results)]
  BY StableFacts DEF IInv, Types, BaseTypes
<1>2. Issued' = Issued
  BY DEF Issued
<1>3. CASE c \notin Stable
  <2>1. Current' = Current /\ outcome' = outcome
    BY <1>1, <1>3 DEF Current
  <2> QED BY <1>2, <2>1 DEF Hides
<1>4. CASE c \in Stable
  <2>1. /\ Current[c] = chan[c].call /\ Current[c] # None
        /\ Current' = [Current EXCEPT ![c] = None]
    BY <1>1, <1>4 DEF Current
  <2>2. outcome' = [outcome EXCEPT ![c] = result]
    BY <1>1, <1>4
  <2>3. CASE result = None
    <3>1. Abstract!GiveUp(c)
      BY <1>2, <2>1, <2>2, <2>3 DEF Abstract!GiveUp, Current, Issued
    <3> QED BY <1>4, <3>1 DEF Abstract!Next
  <2>4. CASE result # None
    <3>1. \/ executions[Current[c]] > 0 /\ outcome' = [outcome EXCEPT ![c] = Current[c]]
          \/ c \in confused /\ \E r \in Results : outcome' = [outcome EXCEPT ![c] = r]
      <4>1. CASE c \in confused
        BY <2>2, <2>4, <4>1
      <4>2. CASE c \notin confused
        <5>1. result = chan[c].call /\ executions[chan[c].call] = 1
          BY <1>4, <2>4, <4>2 DEF Sure
        <5>2. executions[Current[c]] > 0
          BY <2>1, <5>1
        <5>3. outcome' = [outcome EXCEPT ![c] = Current[c]]
          BY <2>1, <2>2, <5>1, Zenon
        <5> QED BY <5>2, <5>3
      <4> QED BY <4>1, <4>2
    <3>2. Abstract!Return(c)
      BY <1>2, <2>1, <3>1 DEF Abstract!Return, Current, Issued
    <3> QED BY <1>4, <3>2 DEF Abstract!Next
  <2> QED BY <2>3, <2>4
<1> QED BY <1>3, <1>4

(* A service procedure executes its call.                                  *)
LEMMA CountImplements ==
    ASSUME RpcTransportAssumption, NoneAssumption, IInv, NEW s \in Slots,
           srv[s].work = "run", Count(s), UNCHANGED <<rpcID, chan, outcome, confused>>
    PROVE  Abstract!Next \/ Hides
<1>k. PICK k : k = srv[s].running
  OBVIOUS
<1>1. /\ executions \in [StableCalls -> 0 .. 2] /\ ServerOK(srv[s], rpcID)
      /\ executions' = [l \in StableCalls |-> IF l = k /\ executions[l] < 2
                                              THEN executions[l] + 1 ELSE executions[l]]
  BY <1>k DEF Count, IInv, Types, BaseTypes
<1>2. Current' = Current /\ Issued' = Issued
  BY DEF Current, Issued
<1>3. CASE k \in StableCalls /\ executions[k] < 2
  <2>1. k \in Issued
    BY <1>k, <1>1, <1>3 DEF ServerOK, Issued
  <2>2. executions[k] = 0 \/ k[1] \in confused
    <3>1. k \in SureCalls => executions[k] = 0
      BY <1>k, RunningCall
    <3> QED BY <1>3, <3>1 DEF SureCalls
  <2>3. executions' = [executions EXCEPT ![k] = @ + 1]
    BY <1>1, <1>3
  <2>4. Abstract!Execute(k)
    BY <1>2, <2>1, <2>2, <2>3 DEF Abstract!Execute, Current, Issued
  <2> QED BY <1>3, <2>4 DEF Abstract!Next
<1>4. CASE ~(k \in StableCalls /\ executions[k] < 2)
  <2>1. executions' = executions
    BY <1>1, <1>4
  <2> QED BY <1>2, <2>1 DEF Hides
<1> QED BY <1>3, <1>4

(* The dispatcher loses track of a client, or nothing is seen of its step. *)
LEMMA DispatchImplements ==
    ASSUME RpcTransportAssumption, NoneAssumption, Types, NEW c \in Clients, RpcServerDispatch(c)
    PROVE  Abstract!Next \/ Hides
<1>p. PICK p : p = Head(toServer[c])
  OBVIOUS
<1>1. /\ UNCHANGED <<rpcID, chan, outcome, executions>>
      /\ NoServer(c, p) \/ \E s \in Slots, o \in ServerStates : Dispatches(c, p, s, o)
  BY <1>p, DispatchCases
<1>2. confused' = confused \/ confused' = confused \cup ({c} \cap Stable)
  BY <1>1 DEF NoServer, Dispatches
<1>3. Current' = Current /\ Issued' = Issued
  BY <1>1 DEF Current, Issued
<1>4. CASE confused' = confused
  BY <1>1, <1>3, <1>4 DEF Hides
<1>5. CASE confused' # confused
  <2>1. c \in Stable /\ confused' = confused \cup {c}
    BY <1>2, <1>5
  <2>2. Abstract!Confuse(c)
    BY <1>1, <1>3, <2>1 DEF Abstract!Confuse, Current, Issued
  <2> QED BY <2>1, <2>2 DEF Abstract!Next
<1> QED BY <1>4, <1>5

(* The daemon gives up the process of a client that still sends, or nothing *)
(* is seen of its step.                                                    *)
LEMMA ReclaimImplements ==
    ASSUME RpcTransportAssumption, NoneAssumption, Types, NEW s \in Slots, RpcReclaimServer(s)
    PROVE  Abstract!Next \/ Hides
<1>d. PICK d : d = srv[s].req[1]
  OBVIOUS
<1>1. /\ UNCHANGED <<rpcID, chan, outcome, executions>>
      /\ ReclaimFrees(s, srv'[s]) \/ ReclaimAges(s, srv'[s])
  BY ReclaimFacts
<1>2. confused' = confused \/ confused' = confused \cup ({d} \cap Stable)
  BY <1>d, <1>1 DEF ReclaimFrees, ReclaimAges
<1>3. Current' = Current /\ Issued' = Issued
  BY <1>1 DEF Current, Issued
<1>4. CASE confused' = confused
  BY <1>1, <1>3, <1>4 DEF Hides
<1>5. CASE confused' # confused
  <2>1. d \in Stable /\ confused' = confused \cup {d}
    BY <1>2, <1>5
  <2>2. Abstract!Confuse(d)
    BY <1>1, <1>3, <2>1 DEF Abstract!Confuse, Current, Issued
  <2> QED BY <2>1, <2>2 DEF Abstract!Next
<1> QED BY <1>4, <1>5

LEMMA ClientStepImplements ==
    ASSUME RpcTransportAssumption, NoneAssumption, IInv, NEW c \in Clients,
           \/ Rpc_Timeout(c) \/ DoInput(c) \/ DoTimeout(c) \/ Reboot(c) \/ RpcClientDispatch(c)
    PROVE  Abstract!Next \/ Hides
<1>1. Types /\ Stable \subseteq Clients /\ Sure \subseteq Clients
  BY StableFacts, SureFacts DEF IInv
<1>2. CASE Rpc_Timeout(c)
  <2>1. \A d \in Clients : chan'[d].call = chan[d].call
    BY <1>2, Rpc_TimeoutKeeps
  <2>2. UNCHANGED <<rpcID, executions, outcome, confused>>
    BY <1>2 DEF Rpc_Timeout
  <2> QED BY <1>1, <2>1, <2>2, StableChannels
<1>3. CASE DoInput(c)
  <2>1. /\ chan[c].call # None /\ "INPUT" \in chan[c].bits
        /\ \A d \in Clients \ {c} : chan'[d] = chan[d]
        /\ \/ /\ chan[c].input.type = "REPLY" /\ chan[c].input.id = chan[c].id
              /\ chan'[c].call = None
              /\ outcome' = [k \in Stable |-> IF k = c THEN chan[c].input.result ELSE outcome[k]]
           \/ chan'[c].call = chan[c].call /\ outcome' = outcome
        /\ UNCHANGED <<rpcID, executions, confused>>
    BY <1>1, <1>3, DoInputFacts
  <2>2. CASE chan'[c].call = chan[c].call /\ outcome' = outcome
    BY <1>1, <2>1, <2>2, StableChannels
  <2>3. CASE /\ chan[c].input.type = "REPLY" /\ chan[c].input.id = chan[c].id
             /\ chan'[c].call = None
             /\ outcome' = [k \in Stable |-> IF k = c THEN chan[c].input.result ELSE outcome[k]]
    <3>1. chan[c].input.result \in Results
      BY <1>1, <2>1, <2>3 DEF Types, ChanOK
    <3>2. ASSUME c \in Sure
          PROVE  chan[c].input.result = chan[c].call /\ executions[chan[c].call] = 1
      <4>1. Tells(chan[c].input, c, executions)
        BY <2>1, <2>3, <3>2 DEF IInv, CallInv, Answers
      <4>2. PICK k \in StableCalls : /\ k[1] = c /\ chan[c].input.id = k[3]
                                     /\ chan[c].input.result = k /\ executions[k] = 1
        BY <4>1 DEF Tells
      <4>3. /\ chan[c].call \in SureCalls /\ chan[c].call[1] = c
            /\ chan[c].call[3] = chan[c].id
        BY <1>1, <2>1, <3>2, SureFacts
      <4>4. chan[c].call = k
        BY <2>3, <4>2, <4>3, StableFacts DEF SureCalls
      <4> QED BY <4>2, <4>4
    <3> QED BY <2>1, <2>3, <3>1, <3>2, FinishImplements
  <2> QED BY <2>1, <2>2, <2>3
<1>4. CASE DoTimeout(c)
  <2>1. /\ chan[c].call # None
        /\ \A d \in Clients \ {c} : chan'[d] = chan[d]
        /\ \/ chan'[c].call = chan[c].call /\ outcome' = outcome
           \/ /\ chan'[c].call = None
              /\ outcome' = [k \in Stable |-> IF k = c THEN None ELSE outcome[k]]
        /\ UNCHANGED <<rpcID, executions, confused>>
    BY <1>1, <1>4, DoTimeoutFacts
  <2>2. CASE chan'[c].call = chan[c].call /\ outcome' = outcome
    BY <1>1, <2>1, <2>2, StableChannels
  <2>3. CASE /\ chan'[c].call = None
             /\ outcome' = [k \in Stable |-> IF k = c THEN None ELSE outcome[k]]
    BY <2>1, <2>3, FinishImplements
  <2> QED BY <2>1, <2>2, <2>3
<1>5. CASE Reboot(c)
  <2>1. /\ c \notin Stable
        /\ \A d \in Clients \ {c} : chan'[d] = chan[d] /\ rpcID'[d] = rpcID[d]
    BY <1>5, RebootKeeps
  <2>2. UNCHANGED <<executions, outcome, confused>>
    BY <1>5 DEF Reboot
  <2>3. Current' = Current
    BY <1>1, <2>1 DEF Current
  <2>4. \A k \in StableCalls : rpcID'[k[1]] = rpcID[k[1]]
    BY <1>1, <2>1, StableFacts
  <2>5. Issued' = Issued
    BY <2>4 DEF Issued
  <2> QED BY <2>2, <2>3, <2>5 DEF Hides
<1>6. CASE RpcClientDispatch(c)
  <2>p. PICK p : p = Head(toClient[c])
    OBVIOUS
  <2>1. /\ \A d \in Clients \ {c} : chan'[d] = chan[d]
        /\ chan'[c].call = chan[c].call
        /\ UNCHANGED <<rpcID, outcome, confused, executions>>
    BY <1>1, <1>6, <2>p, RpcClientDispatchFacts
  <2> QED BY <1>1, <2>1, StableChannels
<1> QED BY <1>2, <1>3, <1>4, <1>5, <1>6

LEMMA StepImplements ==
    ASSUME RpcTransportAssumption, NoneAssumption, IInv, [Next]_vars
    PROVE  [Abstract!Next]_Abstract!vars
<1>1. Types
  BY DEF IInv
<1>2. CASE UNCHANGED vars
  BY <1>2, StableChannels, HiddenStep DEF vars
<1>3. CASE Next
  <2>1. ASSUME NEW c \in Clients, StartCall(c, FALSE) PROVE Abstract!Next \/ Hides
    BY <1>1, <2>1, StartCallImplements
  <2>2. ASSUME NEW c \in Broadcasters, StartCall(c, TRUE) PROVE Abstract!Next \/ Hides
    BY <1>1, <2>2, StartCallImplements DEF RpcTransportAssumption
  <2>3. ASSUME NEW c \in Clients, \/ Rpc_Timeout(c) \/ DoInput(c) \/ DoTimeout(c)
                                  \/ Reboot(c) \/ RpcClientDispatch(c)
        PROVE  Abstract!Next \/ Hides
    BY <2>3, ClientStepImplements
  <2>4. ASSUME NEW c \in Clients, RpcServerDispatch(c) PROVE Abstract!Next \/ Hides
    BY <1>1, <2>4, DispatchImplements
  <2>5. ASSUME NEW s \in Slots, ServerReply(s) \/ ServerNoReply(s) PROVE Abstract!Next \/ Hides
    <3>1. /\ srv[s].work = "run" /\ Count(s)
          /\ UNCHANGED <<rpcID, chan, outcome, confused>>
      BY <2>5 DEF ServerReply, ServerNoReply
    <3> QED BY <3>1, CountImplements
  <2>6. ASSUME NEW s \in Slots, ServerStart(s) \/ ServerWait(s) PROVE Hides
    <3>1. UNCHANGED <<rpcID, chan, executions, outcome, confused>>
      BY <2>6 DEF ServerStart, ServerWait
    <3> QED BY <3>1, StableChannels
  <2>7. ASSUME NEW c \in Clients, LoseToServer(c) \/ LoseToClient(c) PROVE Hides
    <3>1. UNCHANGED <<rpcID, chan, executions, outcome, confused>>
      BY <2>7 DEF LoseToServer, LoseToClient
    <3> QED BY <3>1, StableChannels
  <2>8. ASSUME NEW s \in Slots, RpcReclaimServer(s) PROVE Abstract!Next \/ Hides
    BY <1>1, <2>8, ReclaimImplements
  <2>9. Abstract!Next \/ Hides
    BY <1>3, <2>1, <2>2, <2>3, <2>4, <2>5, <2>6, <2>7, <2>8 DEF Next
  <2> QED BY <2>9, HiddenStep
<1> QED BY <1>2, <1>3

LEMMA InitImplements ==
    ASSUME RpcTransportAssumption, NoneAssumption, Init PROVE Abstract!Init
<1>1. Current = [c \in Stable |-> None]
  <2>1. \A c \in Stable : chan[c].call = None
    BY StableFacts DEF Init, NewChannel
  <2> QED BY <2>1 DEF Current
<1>2. Issued = {}
  <2>1. \A k \in StableCalls : k[3] \in 1 .. MaxID /\ rpcID[k[1]] = 1
    BY StableFacts DEF Init
  <2>2. \A k \in StableCalls : ~(k[3] < rpcID[k[1]])
    BY <2>1 DEF RpcTransportAssumption
  <2> QED BY <2>2 DEF Issued
<1> QED BY <1>1, <1>2 DEF Abstract!Init, Init, Current, Issued

(* RpcDoCall, the two dispatchers and Rpc_Server implement at-most-once    *)
(* remote calls (RemoteCall) for the clients that neither reboot nor       *)
(* broadcast, each until it is confused, that is until a packet of it      *)
(* meets a process in an unexpected state or its process ages out while it *)
(* still sends the call: a retransmitted request is never executed again,  *)
(* and RpcDoCall returns the result of its own execution or a timeout,     *)
(* whatever is lost, and whatever the other clients do.                    *)
THEOREM TransportImplementsCalls ==
    RpcTransportAssumption /\ NoneAssumption /\ Spec => AtMostOnceCalls
<1> SUFFICES ASSUME RpcTransportAssumption, NoneAssumption PROVE Spec => AtMostOnceCalls
  OBVIOUS
<1>1. Init => IInv /\ Abstract!Init
  BY InitInv, InitImplements
<1>2. IInv /\ [Next]_vars => IInv'
  BY InvKept
<1>3. IInv /\ [Next]_vars => [Abstract!Next]_Abstract!vars
  BY StepImplements
<1> QED BY <1>1, <1>2, <1>3, PTL DEF Spec, AtMostOnceCalls, Abstract!Spec
=============================================================================
