--------------------------- MODULE RpcTransport ---------------------------
(***************************************************************************)
(* One remote procedure call after another between client channels and a   *)
(* pool of server processes: RpcDoCall and RpcClientDispatch (rpcClient.c) *)
(* on one side, RpcServerAlloc (rpcDaemon.c), RpcServerDispatch,           *)
(* Rpc_Server and RpcReclaimServers (rpcServer.c) on the other.  The       *)
(* network loses packets and keeps the order of those it delivers.         *)
(*                                                                         *)
(* A client is a host with one channel (its allocation is in RpcChannels). *)
(* A message is one packet: fragmentation is left out.  The pool of server *)
(* processes does not grow.  Dispatch is one step: it runs at interrupt    *)
(* level.  The server does not reboot.                                     *)
(***************************************************************************)
EXTENDS Naturals, Sequences, FiniteSets

CONSTANTS
    Clients,       \* client hosts
    NumServers,    \* rpcNumServers
    MaxID,         \* bound: calls of a client; one that may reboot makes one
                   \* per boot
    MaxBoots,      \* bound: boots of a client
    Unstable,      \* the clients that may reboot
    MaxTries,      \* maxTries of the channel's RpcConst
    MaxServerAge,  \* rpcMaxServerAge
    NetBound,      \* packets in flight to a host; more are lost
    Broadcasters,  \* the clients whose calls may be broadcasts
    NegAcks,       \* rpcSendNegAcks
    ServersMaxed,  \* BOOLEAN: the daemon can create no more server processes
    None

ASSUME RpcTransportAssumption ==
    /\ NumServers \in Nat \ {0} /\ MaxID \in Nat \ {0}
    /\ MaxBoots \in Nat \ {0} /\ MaxTries \in Nat \ {0}
    /\ MaxServerAge \in Nat \ {0} /\ NetBound \in Nat \ {0}
    /\ NegAcks \in BOOLEAN /\ ServersMaxed \in BOOLEAN
    /\ Broadcasters \subseteq Clients /\ Unstable \subseteq Clients

Slots == 0 .. NumServers - 1
Calls == Clients \X (1 .. MaxBoots) \X (1 .. MaxID)

ASSUME NoneAssumption == None \notin Slots /\ None \notin Clients /\ None \notin Calls

(* The clients the specification promises something to, and their calls: a *)
(* broadcast left unanswered by one process may be executed by another.    *)
Stable == Clients \ (Unstable \cup Broadcasters)
StableCalls == Stable \X {1} \X (1 .. MaxID)

(* A call is identified by its client, the client's boot and rpcID; the    *)
(* packets carry all three, but the dispatchers compare only the ID.       *)
ID(call) == call[3]
BootID(call) == call[2]

VARIABLES
    rpcID,      \* next transaction ID of each client
    boot,       \* rpcBootID of each client
    chan,       \* RpcClientChannel of each client
    outcome,    \* result of the last call of each stable client
    srv,        \* RpcServerState of each server process
    knownBoot,  \* the boot of each client the server's recov module knows
    toServer,   \* packets from each client, in order
    toClient,   \* packets to each client, in order
    executions, \* history: how often each of their calls was executed
    confused    \* history: stable clients whose packet met a process in a
                \* state the dispatcher does not expect (Confuses), or whose
                \* process was given up while they still sent (StillSent)

vars == <<rpcID, boot, chan, outcome, confused, srv, knownBoot, toServer, toClient, executions>>

(* Bits CHAN_WAITING, CHAN_INPUT and CHAN_TIMEOUT; call is None when the   *)
(* channel is free.                                                        *)
NewChannel == [bits |-> {}, call |-> None, bcast |-> FALSE, id |-> 0,
               hint |-> 0, reqHint |-> 0, plsAck |-> FALSE, tries |-> 0,
               input |-> None]

(* Bits SRV_*; req and close are of the packet whose header is the request *)
(* header; work is where the process is in Rpc_Server, running the call    *)
(* its service procedure executes.                                         *)
NewServer == [bits |-> {"FREE"}, id |-> 0, client |-> None, age |-> 0,
              req |-> None, close |-> FALSE, bcast |-> FALSE,
              reply |-> None, work |-> "wait", running |-> None]

Init ==
    /\ rpcID = [c \in Clients |-> 1]
    /\ boot = [c \in Clients |-> 1]
    /\ chan = [c \in Clients |-> NewChannel]
    /\ outcome = [c \in Stable |-> None]
    /\ srv = [s \in Slots |-> NewServer]
    /\ knownBoot = [c \in Clients |-> 1]
    /\ toServer = [c \in Clients |-> <<>>]
    /\ toClient = [c \in Clients |-> <<>>]
    /\ executions = [k \in StableCalls |-> 0]
    /\ confused = {}

(* A packet sent into a full network is lost.                              *)
Enqueue(net, c, packet) ==
    IF Len(net[c]) < NetBound THEN [net EXCEPT ![c] = Append(@, packet)] ELSE net

Request(ch) == [type |-> "REQUEST", call |-> ch.call, bcast |-> ch.bcast,
                hint |-> ch.reqHint, plsAck |-> ch.plsAck]

-----------------------------------------------------------------------------
(* The client: RpcDoCall, with the RpcSetup before and RpcChanFree after.  *)

Waiting(ch) == [ch EXCEPT !.bits = {"WAITING", "TIMEOUT"}, !.input = None]

StartCall(c, bcast) ==
    LET call == <<c, boot[c], rpcID[c]>>
        ch == [chan[c] EXCEPT !.call = call, !.id = rpcID[c], !.bcast = bcast,
                              !.reqHint = chan[c].hint, !.plsAck = FALSE,
                              !.tries = 0]
    IN  /\ chan[c].call = None
        /\ rpcID[c] <= IF c \in Unstable THEN 1 ELSE MaxID
        /\ rpcID' = [rpcID EXCEPT ![c] = @ + 1]
        /\ chan' = [chan EXCEPT ![c] = Waiting(ch)]
        /\ toServer' = Enqueue(toServer, c, Request(ch))
        /\ UNCHANGED <<boot, outcome, confused, srv, knownBoot, toClient, executions>>

Finish(c, result) ==
    /\ chan' = [chan EXCEPT ![c] = [NewChannel EXCEPT !.hint = chan[c].hint]]
    /\ outcome' = [k \in Stable |-> IF k = c THEN result ELSE outcome[k]]

(* Rpc_Timeout, from the timer queue.                                      *)
Rpc_Timeout(c) ==
    /\ "TIMEOUT" \in chan[c].bits
    /\ chan' = [chan EXCEPT ![c].bits = @ \ {"TIMEOUT"}]
    /\ UNCHANGED <<rpcID, boot, outcome, confused, srv, knownBoot, toServer, toClient, executions>>

(* RpcDoCall wakes up with input.                                          *)
DoInput(c) ==
    LET ch == chan[c]
    IN  /\ ch.call # None /\ "INPUT" \in ch.bits
        /\ \/ /\ ch.input.type = "REPLY" /\ ch.input.id = ch.id
              /\ Finish(c, ch.input.result)
           \/ /\ ch.input.type \in {"ACK", "NACK"} \/ ch.input.id # ch.id
              /\ chan' = [chan EXCEPT ![c] =
                    Waiting(IF ch.bcast \/ ch.input.id # ch.id THEN ch
                            ELSE [ch EXCEPT !.tries = 0])]
              /\ UNCHANGED outcome
        /\ UNCHANGED <<rpcID, boot, confused, srv, knownBoot, toServer, toClient, executions>>

(* Mutated form: one retry too many.                                       *)
DoTimeoutOneMore(c) ==
    LET ch == [chan[c] EXCEPT !.tries = @ + 1, !.reqHint = chan[c].hint, !.plsAck = TRUE]
    IN  /\ ch.call # None /\ ch.bits \cap {"INPUT", "TIMEOUT"} = {}
        /\ IF ch.tries <= MaxTries
           THEN /\ chan' = [chan EXCEPT ![c] = Waiting(ch)]
                /\ toServer' = Enqueue(toServer, c, Request(ch))
                /\ UNCHANGED outcome
           ELSE /\ Finish(c, None)
                /\ UNCHANGED toServer
        /\ UNCHANGED <<rpcID, boot, confused, srv, knownBoot, toClient, executions>>

(* Mutated form: retries are not counted.                                  *)
DoTimeoutUncounted(c) ==
    LET ch == [chan[c] EXCEPT !.reqHint = chan[c].hint, !.plsAck = TRUE]
    IN  /\ ch.call # None /\ ch.bits \cap {"INPUT", "TIMEOUT"} = {}
        /\ chan' = [chan EXCEPT ![c] = Waiting(ch)]
        /\ toServer' = Enqueue(toServer, c, Request(ch))
        /\ UNCHANGED <<rpcID, boot, outcome, confused, srv, knownBoot, toClient, executions>>

(* RpcDoCall wakes up without input: send again or give up.                *)
DoTimeout(c) ==
    LET ch == [chan[c] EXCEPT !.tries = @ + 1, !.reqHint = chan[c].hint, !.plsAck = TRUE]
    IN  /\ ch.call # None /\ ch.bits \cap {"INPUT", "TIMEOUT"} = {}
        /\ IF ch.tries < MaxTries
           THEN /\ chan' = [chan EXCEPT ![c] = Waiting(ch)]
                /\ toServer' = Enqueue(toServer, c, Request(ch))
                /\ UNCHANGED outcome
           ELSE /\ Finish(c, None)
                /\ UNCHANGED toServer
        /\ UNCHANGED <<rpcID, boot, confused, srv, knownBoot, toClient, executions>>

(* The client crashes and boots again: rpcID starts over.                  *)
Reboot(c) ==
    /\ c \in Unstable /\ boot[c] < MaxBoots
    /\ boot' = [boot EXCEPT ![c] = @ + 1]
    /\ rpcID' = [rpcID EXCEPT ![c] = 1]
    /\ chan' = [chan EXCEPT ![c] = NewChannel]
    /\ UNCHANGED <<outcome, confused, srv, knownBoot, toServer, toClient, executions>>

(* Mutated form: replies to earlier calls are not screened out.            *)
RpcClientDispatchAnyID(c) ==
    LET packet == Head(toClient[c])
    IN  /\ toClient[c] # <<>>
        /\ toClient' = [toClient EXCEPT ![c] = Tail(@)]
        /\ packet.type # "CLOSE"
        /\ chan' = IF "WAITING" \in chan[c].bits
                   THEN [chan EXCEPT ![c].bits = {"INPUT"}, ![c].hint = packet.hint,
                           ![c].input = [packet EXCEPT !.id = chan[c].id]]
                   ELSE chan
        /\ UNCHANGED <<rpcID, boot, outcome, confused, srv, knownBoot, toServer, executions>>

(* A close request is answered if the channel is not busy; other packets   *)
(* count only if their ID is the channel's and RpcDoCall waits for input.  *)
RpcClientDispatch(c) ==
    LET packet == Head(toClient[c])
        accepted == packet.id = chan[c].id /\ "WAITING" \in chan[c].bits
    IN  /\ toClient[c] # <<>>
        /\ toClient' = [toClient EXCEPT ![c] = Tail(@)]
        /\ IF packet.type = "CLOSE"
           THEN /\ toServer' =
                     IF chan[c].call = None
                     THEN Enqueue(toServer, c,
                            [type |-> "CLOSE", call |-> <<c, boot[c], packet.id>>,
                             bcast |-> FALSE, hint |-> packet.hint, plsAck |-> FALSE])
                     ELSE toServer
                /\ UNCHANGED chan
           ELSE /\ chan' = IF accepted
                           THEN [chan EXCEPT ![c].bits = {"INPUT"},
                                             ![c].input = packet,
                                             ![c].hint = packet.hint]
                           ELSE chan
                /\ UNCHANGED toServer
        /\ UNCHANGED <<rpcID, boot, outcome, confused, srv, knownBoot, executions>>

-----------------------------------------------------------------------------
(* The server's dispatcher.                                                *)

(* RpcServerAlloc: the process of this client's channel or a free one,     *)
(* searched from the hint around the table; None if there is neither.      *)
RpcServerAlloc(c, hint) ==
    LET start == IF hint \in Slots THEN hint ELSE 0
        distance(s) == (s + NumServers - start) % NumServers
        nearest(S) == CHOOSE s \in S : \A t \in S : distance(s) <= distance(t)
        usable == {s \in Slots : "STUCK" \notin srv[s].bits}
        mine == {s \in usable : srv[s].client = c}
        free == {s \in usable : "FREE" \in srv[s].bits}
    IN  IF mine # {} THEN nearest(mine) ELSE IF free # {} THEN nearest(free) ELSE None

Ack(s, id) == [type |-> "ACK", id |-> id, hint |-> s, result |-> None]
Reply(s, sv) == [type |-> "REPLY", id |-> sv.reply.id, hint |-> s, result |-> sv.reply.result]

(* RpcServerDispatch, for the state sv of slot s as RpcServerAlloc left    *)
(* it: the new state and the packets sent back.                            *)
NewTransaction(s, sv, packet) ==
    IF "BUSY" \in sv.bits
    THEN [sv |-> [sv EXCEPT !.bits = (@ \ {"WAITING"}) \cup {"STUCK"}], out |-> <<>>]
    ELSE [sv |-> [sv EXCEPT !.bits = {"BUSY"}, !.id = ID(packet.call),
                            !.req = packet.call, !.bcast = packet.bcast,
                            !.close = packet.type = "CLOSE"],
          out |-> IF packet.plsAck THEN <<Ack(s, ID(packet.call))>> ELSE <<>>]

ResetID(reply) == IF reply = None THEN None ELSE [reply EXCEPT !.id = 0]

(* Mutated form: a retransmitted request is executed again.                *)
CurrentTransactionAgain(s, sv, packet) ==
    IF packet.type = "CLOSE"
    THEN [sv |-> [sv EXCEPT !.bits = {"FREE"}], out |-> <<>>]
    ELSE [sv |-> [sv EXCEPT !.bits = {"BUSY"}], out |-> <<>>]

CurrentTransaction(s, sv, packet) ==
    IF "NO_REPLY" \in sv.bits
    THEN [sv |-> [sv EXCEPT !.bits = @ \cup {"FREE"}], out |-> <<>>]
    ELSE IF packet.type = "CLOSE"
    THEN [sv |-> [sv EXCEPT !.bits = {"FREE"}], out |-> <<>>]
    ELSE IF sv.bits = {"BUSY"}
    THEN [sv |-> sv, out |-> <<Ack(s, ID(sv.req))>>]
    ELSE IF sv.bits = {"WAITING"}
    THEN [sv |-> sv, out |-> IF sv.reply = None THEN <<>> ELSE <<Reply(s, sv)>>]
    ELSE [sv |-> [sv EXCEPT !.bits = {"FREE"}, !.reply = ResetID(@)], out |-> <<>>]

(* The dispatcher meets a packet it does not expect: a new transaction     *)
(* while the process works, a late close acknowledgment of an old one, or  *)
(* one for a process taken over from another client that still works for   *)
(* it or keeps a reply to it under the same ID.                            *)
Confuses(sv, packet) ==
    \/ sv.id # ID(packet.call) /\ ("BUSY" \in sv.bits \/ packet.type = "CLOSE")
    \/ /\ sv.client # packet.call[1]
       /\ sv.work # "wait" \/ (sv.id = ID(packet.call) /\ "WAITING" \in sv.bits)

RpcServerDispatch(c) ==
    LET packet == Head(toServer[c])
        s == RpcServerAlloc(c, packet.hint)
        sv == [srv[s] EXCEPT !.bits = @ \ {"FREE", "AGING"}, !.client = c, !.age = 0]
        step == IF sv.id # ID(packet.call) THEN NewTransaction(s, sv, packet)
                ELSE CurrentTransaction(s, sv, packet)
        nack == [type |-> "NACK", id |-> ID(packet.call), hint |-> 0, result |-> None]
    IN  /\ toServer[c] # <<>>
        /\ toServer' = [toServer EXCEPT ![c] = Tail(@)]
        /\ IF s = None
           THEN /\ toClient' = IF NegAcks THEN Enqueue(toClient, c, nack) ELSE toClient
                /\ UNCHANGED <<srv, confused>>
           ELSE /\ srv' = [srv EXCEPT ![s] = step.sv]
                /\ confused' = IF Confuses(srv[s], packet) THEN confused \cup ({c} \cap Stable)
                               ELSE confused
                /\ toClient' = IF step.out = <<>> THEN toClient
                               ELSE Enqueue(toClient, c, Head(step.out))
        /\ UNCHANGED <<rpcID, boot, chan, outcome, knownBoot, executions>>

-----------------------------------------------------------------------------
(* A server process: Rpc_Server.                                           *)

(* What it executes: a close acknowledgment that is taken for a request is *)
(* no call of the client; it is numbered after those.                      *)
Executed(sv) == IF sv.close THEN [sv.req EXCEPT ![3] = @ + MaxID] ELSE sv.req

Count(s) ==
    executions' = [k \in StableCalls |->
        IF k = srv[s].running /\ executions[k] < 2 THEN executions[k] + 1 ELSE executions[k]]

(* It wakes up to a request.  Recov_HostAlive notices the client's reboot  *)
(* and runs RpcCrashCallBack, which marks every busy process of that       *)
(* client stuck.                                                           *)
ServerStart(s) ==
    LET c == srv[s].client
        rebooted == knownBoot[c] # BootID(srv[s].req)
        started == [srv EXCEPT ![s].bits = @ \ {"NO_REPLY"}, ![s].work = "run",
                               ![s].running = Executed(srv[s])]
    IN  /\ srv[s].work = "wait" /\ "BUSY" \in srv[s].bits
        /\ knownBoot' = [knownBoot EXCEPT ![c] = BootID(srv[s].req)]
        /\ srv' = [t \in Slots |->
                     IF rebooted /\ "BUSY" \in started[t].bits /\ started[t].client = c
                     THEN [started[t] EXCEPT !.bits = @ \cup {"STUCK"}]
                     ELSE started[t]]
        /\ UNCHANGED <<rpcID, boot, chan, outcome, confused, toServer, toClient, executions>>

(* The service procedure executes the call and replies: Rpc_Reply takes    *)
(* the reply's address from the request header as it is then.              *)
ServerReply(s) ==
    LET sv == [srv[s] EXCEPT !.work = "done",
                 !.reply = [id |-> ID(srv[s].req), result |-> srv[s].running]]
    IN  /\ srv[s].work = "run"
        /\ srv' = [srv EXCEPT ![s] = sv]
        /\ Count(s)
        /\ toClient' = Enqueue(toClient, srv[s].req[1], Reply(s, sv))
        /\ UNCHANGED <<rpcID, boot, chan, outcome, confused, knownBoot, toServer>>

(* The service procedure of a broadcast returns RPC_NO_REPLY.              *)
ServerNoReply(s) ==
    /\ srv[s].work = "run" /\ srv[s].bcast
    /\ srv' = [srv EXCEPT ![s].work = "noReply"]
    /\ Count(s)
    /\ UNCHANGED <<rpcID, boot, chan, outcome, confused, knownBoot, toServer, toClient>>

(* Back at the top of the loop: ready for the next request.                *)
ServerWait(s) ==
    /\ srv[s].work \in {"done", "noReply"}
    /\ srv' = [srv EXCEPT ![s].work = "wait", ![s].running = None,
                 ![s].bits = (@ \ {"BUSY", "STUCK"}) \cup {"WAITING"} \cup
                    (IF srv[s].work = "noReply" THEN {"NO_REPLY"} ELSE {})]
    /\ UNCHANGED <<rpcID, boot, chan, outcome, confused, knownBoot, toServer, toClient, executions>>

(* The client waits for the call, or a request for it is on its way.       *)
StillSent(call) ==
    \/ chan[call[1]].call = call
    \/ \E i \in 1 .. Len(toServer[call[1]]) :
          toServer[call[1]][i].type = "REQUEST" /\ toServer[call[1]][i].call = call

(* Mutated form: processes that are busy are reclaimed too.                *)
RpcReclaimServerBusy(s) ==
    /\ srv[s].client # None
    /\ srv' = [srv EXCEPT ![s].bits = {"FREE"}]
    /\ UNCHANGED <<rpcID, boot, chan, outcome, confused, knownBoot, toServer, toClient,
                   executions>>

(* One server of a pass of RpcReclaimServers by the daemon.  A process     *)
(* that has aged is freed even if its client still sends ("this might not  *)
(* give clients enough time to do an RPC", rpcServer.c:306).               *)
RpcReclaimServer(s) ==
    LET sv == srv[s]
        first == "AGING" \notin sv.bits
        aged == sv.age + 1 >= MaxServerAge
        probe == [type |-> "CLOSE", id |-> ID(sv.req), hint |-> s, result |-> None]
    IN  /\ sv.client # None /\ "WAITING" \in sv.bits
        /\ \/ /\ "NO_REPLY" \in sv.bits
              /\ srv' = [srv EXCEPT ![s].bits = {"FREE", "NO_REPLY"}]
              /\ UNCHANGED <<toClient, confused>>
           \/ /\ "NO_REPLY" \notin sv.bits /\ first
              /\ srv' = [srv EXCEPT ![s].bits = @ \cup {"AGING"}, ![s].age = 1]
              /\ toClient' = IF ServersMaxed THEN Enqueue(toClient, sv.req[1], probe)
                             ELSE toClient
              /\ UNCHANGED confused
           \/ /\ "NO_REPLY" \notin sv.bits /\ ~first /\ aged
              /\ srv' = [srv EXCEPT ![s].bits = {"FREE"}, ![s].age = @ + 1]
              /\ confused' = IF StillSent(sv.req) THEN confused \cup ({sv.req[1]} \cap Stable)
                             ELSE confused
              /\ UNCHANGED toClient
           \/ /\ "NO_REPLY" \notin sv.bits /\ ~first /\ ~aged
              /\ srv' = [srv EXCEPT ![s].age = @ + 1]
              /\ toClient' = Enqueue(toClient, sv.req[1], probe)
              /\ UNCHANGED confused
        /\ UNCHANGED <<rpcID, boot, chan, outcome, knownBoot, toServer, executions>>

-----------------------------------------------------------------------------
(* The network.                                                            *)

LoseToServer(c) ==
    /\ toServer[c] # <<>>
    /\ toServer' = [toServer EXCEPT ![c] = Tail(@)]
    /\ UNCHANGED <<rpcID, boot, chan, outcome, confused, srv, knownBoot, toClient, executions>>

LoseToClient(c) ==
    /\ toClient[c] # <<>>
    /\ toClient' = [toClient EXCEPT ![c] = Tail(@)]
    /\ UNCHANGED <<rpcID, boot, chan, outcome, confused, srv, knownBoot, toServer, executions>>

-----------------------------------------------------------------------------

Next ==
    \/ \E c \in Clients : StartCall(c, FALSE)
    \/ \E c \in Broadcasters : StartCall(c, TRUE)
    \/ \E c \in Clients : Rpc_Timeout(c)
    \/ \E c \in Clients : DoInput(c)
    \/ \E c \in Clients : DoTimeout(c)
    \/ \E c \in Clients : Reboot(c)
    \/ \E c \in Clients : RpcClientDispatch(c)
    \/ \E c \in Clients : RpcServerDispatch(c)
    \/ \E s \in Slots : ServerStart(s)
    \/ \E s \in Slots : ServerReply(s)
    \/ \E s \in Slots : ServerNoReply(s)
    \/ \E s \in Slots : ServerWait(s)
    \/ \E s \in Slots : RpcReclaimServer(s)
    \/ \E c \in Clients : LoseToServer(c)
    \/ \E c \in Clients : LoseToClient(c)

Spec == Init /\ [][Next]_vars

(* The timer fires, processes run, the network delivers what it does not   *)
(* lose, service procedures return and the daemon makes its rounds.        *)
FairSpec ==
    /\ Spec
    /\ \A c \in Clients :
          /\ WF_vars(Rpc_Timeout(c)) /\ WF_vars(DoInput(c)) /\ WF_vars(DoTimeout(c))
          /\ WF_vars(RpcClientDispatch(c)) /\ WF_vars(RpcServerDispatch(c))
    /\ \A s \in Slots :
          /\ WF_vars(ServerStart(s)) /\ WF_vars(ServerReply(s)) /\ WF_vars(ServerWait(s))
          /\ WF_vars(RpcReclaimServer(s))

-----------------------------------------------------------------------------
(* Properties.                                                             *)

NoneOr(S) == S \cup {None}
ServerPackets == [type : {"REQUEST", "CLOSE"}, call : Calls, bcast : BOOLEAN,
                  hint : Slots, plsAck : BOOLEAN]
Results == Clients \X (1 .. MaxBoots) \X (1 .. 2 * MaxID)
ClientPackets == [type : {"ACK", "NACK", "REPLY", "CLOSE"}, id : 0 .. MaxID,
                  hint : Slots, result : NoneOr(Results)]

(* Every variable holds a value of its declared kind: RpcDoCall gives up   *)
(* before its retries reach maxTries, no call is numbered past MaxID, and  *)
(* at most NetBound packets are under way to each side.                    *)
TypeOK ==
    /\ rpcID \in [Clients -> 1 .. MaxID + 1]
    /\ boot \in [Clients -> 1 .. MaxBoots]
    /\ chan \in [Clients ->
         [bits : SUBSET {"WAITING", "INPUT", "TIMEOUT"}, call : NoneOr(Calls),
          bcast : BOOLEAN, id : 0 .. MaxID, hint : Slots, reqHint : Slots,
          plsAck : BOOLEAN, tries : 0 .. MaxTries - 1, input : NoneOr(ClientPackets)]]
    /\ outcome \in [Stable -> NoneOr(Results)]
    /\ srv \in [Slots ->
         [bits : SUBSET {"FREE", "BUSY", "WAITING", "AGING", "STUCK", "NO_REPLY"},
          id : 0 .. MaxID, client : NoneOr(Clients), age : 0 .. MaxServerAge + 1,
          req : NoneOr(Calls), close : BOOLEAN, bcast : BOOLEAN,
          reply : NoneOr([id : 0 .. MaxID, result : Results]),
          work : {"wait", "run", "done", "noReply"}, running : NoneOr(Results)]]
    /\ knownBoot \in [Clients -> 1 .. MaxBoots]
    /\ \A c \in Clients :
          /\ toServer[c] \in Seq(ServerPackets) /\ Len(toServer[c]) <= NetBound
          /\ toClient[c] \in Seq(ClientPackets) /\ Len(toClient[c]) <= NetBound
    /\ executions \in [StableCalls -> 0 .. 2]
    /\ confused \subseteq Stable

(* The request header of a call that is being executed stays what it was   *)
(* until the service procedure replies ("We are marked BUSY ... and        *)
(* RpcServerDispatch knows this and doesn't muck accordingly",             *)
(* rpcServer.c:195), until its client is confused: a late acknowledgment   *)
(* then may free the process while it runs.  A process that ages out is    *)
(* not busy, but its client is taken for confused if it still sends.       *)
RequestStable ==
    \A s \in Slots :
        srv[s].work = "run" /\ srv[s].running \in StableCalls
          => srv[s].running = srv[s].req \/ srv[s].running[1] \in confused

(* "If the RPC sequence number is different than the one saved in the      *)
(* server's state then this request signals a new RPC" (rpcServer.c:605):  *)
(* no request is executed twice.  The code violates it (RpcTransportStuck). *)
NewIDIsNewCall == \A k \in StableCalls : executions[k] <= 1

(* Every call returns, with a reply or a timeout, whatever packets are     *)
(* lost, as long as service procedures return and the timer runs.          *)
CallReturns == \A c \in Clients : chan[c].call # None ~> chan[c].call = None

(* The transport implements at-most-once remote calls of the clients that  *)
(* neither reboot nor broadcast, whatever the others do, each until it is  *)
(* confused: a retransmitted request is answered from the saved reply or   *)
(* acknowledged, and never executed again; a call that succeeds returns    *)
(* the result of its own execution, for RpcClientDispatch and RpcDoCall    *)
(* screen out the replies to earlier calls on the channel.                 *)
Abstract == INSTANCE RemoteCall WITH
    Clients <- Stable,
    Calls <- StableCalls,
    current <- [c \in Stable |-> chan[c].call],
    issued <- {k \in StableCalls : k[3] < rpcID[k[1]]},
    executions <- executions,
    outcome <- outcome,
    Results <- Results,
    confused <- confused
AtMostOnceCalls == Abstract!Spec
=============================================================================
