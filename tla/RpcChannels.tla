---------------------------- MODULE RpcChannels ----------------------------
(***************************************************************************)
(* The client channel table of the Sprite RPC system (rpcCall.c): a fixed  *)
(* array of channels shared by all the processes of one host that make     *)
(* remote procedure calls.  A process allocates a channel, uses it for one *)
(* RPC and frees it; the master lock rpcMutex makes each of RpcChanAlloc   *)
(* and RpcChanFree one atomic step.  A server may meanwhile ask a channel  *)
(* to close; the dispatcher answers at interrupt level in RpcChanClose,    *)
(* which borrows an idle channel while it sends the acknowledgment.        *)
(*                                                                         *)
(* What happens inside RpcDoCall is module RpcTransport's subject; here it *)
(* is one step that ends in success, timeout or a negative acknowledgment. *)
(***************************************************************************)
EXTENDS Naturals, FiniteSets, FiniteSetsExt

CONSTANTS
    Procs,           \* processes that call Rpc_Call
    Servers,         \* server hosts
    NumChannels,     \* rpcNumChannels
    NumUnhappySlots, \* entries of serverAllocState
    Multiprocessor,  \* interrupt handlers run in parallel with processes
    None             \* the serverID -1 of a channel never used

Channels == 0 .. NumChannels - 1

ASSUME RpcChannelsAssumption ==
    /\ NumChannels \in Nat \ {0}
    /\ NumUnhappySlots \in Nat
    /\ Multiprocessor \in BOOLEAN
    /\ None \notin Servers \cup Channels

VARIABLES
    rpcChannelNegAcks, \* ramp channels down on a NACK: set once, here
    state,        \* the CHAN_FREE and CHAN_BUSY bits of each channel
    serverID,     \* the server each channel was last used with
    idRank,       \* requestRpcHdr.ID, as its rank among the used channels
    numFreeChannels,
    allocState,   \* serverAllocState: "ok", in "trouble", or "stale" trouble
    waiters,      \* processes asleep on the condition freeChannels
    pc,           \* where each process is in Rpc_Call
    server,       \* the server of each process's call
    channel,      \* the channel each process holds
    closing,      \* progress of RpcChanClose on each channel
    panicked      \* RpcChanAlloc or RpcChanFree called panic()

vars == <<rpcChannelNegAcks, state, serverID, idRank, numFreeChannels, allocState,
          waiters, pc, server, channel, closing, panicked>>

FREE == {"CHAN_FREE"}
BUSY == {"CHAN_BUSY"}

TypeOK ==
    /\ rpcChannelNegAcks \in BOOLEAN
    /\ state \in [Channels -> SUBSET {"CHAN_FREE", "CHAN_BUSY"}]
    /\ serverID \in [Channels -> Servers \cup {None}]
    /\ idRank \in [Channels -> 0 .. NumChannels]
    /\ numFreeChannels \in Nat
    /\ allocState \in [Servers -> {"ok", "trouble", "stale"}]
    /\ waiters \subseteq Procs
    /\ pc \in [Procs -> {"idle", "alloc", "setup", "call", "free", "nacked"}]
    /\ server \in [Procs -> Servers \cup {None}]
    /\ channel \in [Procs -> Channels \cup {None}]
    /\ closing \in [Channels -> {"no", "check", "ack"}]
    /\ panicked \in BOOLEAN

Init ==
    /\ rpcChannelNegAcks \in BOOLEAN
    /\ state = [c \in Channels |-> FREE]
    /\ serverID = [c \in Channels |-> None]
    /\ idRank = [c \in Channels |-> 0]
    /\ numFreeChannels = NumChannels
    /\ allocState = [s \in Servers |-> "ok"]
    /\ waiters = {}
    /\ pc = [p \in Procs |-> "idle"]
    /\ server = [p \in Procs |-> None]
    /\ channel = [p \in Procs |-> None]
    /\ closing = [c \in Channels |-> "no"]
    /\ panicked = FALSE

(***************************************************************************)
(* On a uniprocessor an interrupt handler runs to completion before any    *)
(* process runs again.                                                     *)
(***************************************************************************)
CanRun ==
    /\ ~panicked
    /\ Multiprocessor \/ \A c \in Channels : closing[c] = "no"

-----------------------------------------------------------------------------
(* Channel selection.                                                      *)

IsFree(c) == state[c] = FREE

(* Mutated form: the busy channels of the server are matched too.          *)
FreeMatchesAnyState(s) == {c \in Channels : serverID[c] = s}

FreeMatches(s) == {c \in Channels : IsFree(c) /\ serverID[c] = s}
BusyMatches(s) == {c \in Channels : ~IsFree(c) /\ serverID[c] = s}

(* Mutated form: used channels of other servers are never taken over.      *)
RegularChoiceNoReuse(s) ==
    LET unused == {c \in Channels : IsFree(c) /\ serverID[c] = None}
    IN  IF FreeMatches(s) # {} THEN {Min(FreeMatches(s))}
        ELSE IF unused # {} THEN {Min(unused)}
        ELSE {}

(* The channel for an uncongested server: one last used with it, else one  *)
(* never used, else the least recently used of the others; {} if none.     *)
RegularChoice(s) ==
    LET unused == {c \in Channels : IsFree(c) /\ serverID[c] = None}
        others == {c \in Channels : IsFree(c) /\ serverID[c] \notin {s, None}}
    IN  IF FreeMatches(s) # {} THEN {Min(FreeMatches(s))}
        ELSE IF unused # {} THEN {Min(unused)}
        ELSE {c \in others : \A d \in others : idRank[c] <= idRank[d]}

(* The lowest free channel of a congested server, when no busy one of that *)
(* server has a lower number.                                              *)
LowestMatchIsFree(s) ==
    /\ FreeMatches(s) # {}
    /\ \A b \in BusyMatches(s) : b > Min(FreeMatches(s))

(* The code tests firstBusy > 0, so a busy channel 0 is not waited for.    *)
MustWait(s) ==
    /\ ~LowestMatchIsFree(s)
    /\ BusyMatches(s) # {}
    /\ Min(BusyMatches(s)) > 0

(* The unused channel is taken without looking at its state.               *)
CongestedChoice(s) ==
    LET unused == {c \in Channels : serverID[c] = None}
        others == {c \in Channels : IsFree(c) /\ serverID[c] \notin {s, None}}
    IN  IF LowestMatchIsFree(s) THEN {Min(FreeMatches(s))}
        ELSE IF unused # {} THEN {Min(unused)}
        ELSE IF others # {} THEN {Min(others)}
        ELSE {}

-----------------------------------------------------------------------------
(* Rpc_Call: the process side.                                             *)

Rpc_Call(p, s) ==
    /\ pc[p] = "idle"
    /\ pc' = [pc EXCEPT ![p] = "alloc"]
    /\ server' = [server EXCEPT ![p] = s]
    /\ UNCHANGED <<state, serverID, idRank, numFreeChannels, allocState, waiters,
                   channel, closing, panicked>>

(* Sync_MasterWait(&freeChannels, ...): the process sleeps until the next  *)
(* broadcast, after which it evaluates the allocation from the start.      *)
RpcChanAllocWait(p) ==
    /\ pc[p] = "alloc" /\ p \notin waiters
    /\ \/ numFreeChannels < 1
       \/ allocState[server[p]] = "trouble" /\ MustWait(server[p])
    /\ waiters' = waiters \cup {p}
    /\ UNCHANGED <<state, serverID, idRank, numFreeChannels, allocState, pc,
                   server, channel, closing, panicked>>

RpcChanAlloc(p) ==
    LET s == server[p]
        congested == allocState[s] = "trouble"
        choice == IF congested THEN CongestedChoice(s) ELSE RegularChoice(s)
    IN  /\ pc[p] = "alloc" /\ p \notin waiters
        /\ numFreeChannels >= 1
        /\ congested => ~MustWait(s)
        /\ allocState' = [allocState EXCEPT ![s] = IF congested THEN @ ELSE "ok"]
        /\ \/ /\ choice = {}
              /\ panicked' = TRUE
              /\ UNCHANGED <<state, serverID, numFreeChannels, pc, channel>>
           \/ \E c \in choice :
              /\ serverID' = [serverID EXCEPT ![c] = s]
              /\ state' = [state EXCEPT ![c] = BUSY]
              /\ numFreeChannels' = numFreeChannels - 1
              /\ channel' = [channel EXCEPT ![p] = c]
              /\ pc' = [pc EXCEPT ![p] = "setup"]
              /\ UNCHANGED panicked
        /\ UNCHANGED <<idRank, waiters, server, closing>>

(* The new transaction ID is the largest one.                              *)
RpcSetup(p) ==
    /\ pc[p] = "setup"
    /\ idRank' = [c \in Channels |->
                     IF c = channel[p] THEN NumChannels
                     ELSE IF idRank[c] > idRank[channel[p]] THEN idRank[c] - 1
                     ELSE idRank[c]]
    /\ pc' = [pc EXCEPT ![p] = "call"]
    /\ UNCHANGED <<state, serverID, numFreeChannels, allocState, waiters,
                   server, channel, closing, panicked>>

(* RpcDoCall needs the channel mutex, which RpcClientDispatch holds around *)
(* RpcChanClose.                                                           *)
RpcDoCall(p) ==
    /\ pc[p] = "call"
    /\ closing[channel[p]] = "no"
    /\ pc' = [pc EXCEPT ![p] = "free"]
    /\ UNCHANGED <<state, serverID, idRank, numFreeChannels, allocState, waiters,
                   server, channel, closing, panicked>>

(* Mutated form: the count is tested before it is incremented.             *)
RpcChanFreeLateCount(p, nacked) ==
    LET c == channel[p]
    IN  /\ pc[p] = "free"
        /\ nacked => rpcChannelNegAcks
        /\ panicked' = IsFree(c)
        /\ state' = [state EXCEPT ![c] = FREE]
        /\ numFreeChannels' = numFreeChannels + 1
        /\ waiters' = IF numFreeChannels = 1 THEN {} ELSE waiters
        /\ channel' = [channel EXCEPT ![p] = None]
        /\ pc' = [pc EXCEPT ![p] = IF nacked THEN "nacked" ELSE "idle"]
        /\ UNCHANGED <<serverID, idRank, allocState, server, closing>>

(* A NACK error (nacked) sends the caller back to allocAgain.              *)
RpcChanFree(p, nacked) ==
    LET c == channel[p]
    IN  /\ pc[p] = "free"
        /\ nacked => rpcChannelNegAcks
        /\ panicked' = IsFree(c)
        /\ state' = [state EXCEPT ![c] = FREE]
        /\ numFreeChannels' = numFreeChannels + 1
        /\ waiters' = IF numFreeChannels' = 1 \/ rpcChannelNegAcks THEN {} ELSE waiters
        /\ channel' = [channel EXCEPT ![p] = None]
        /\ pc' = [pc EXCEPT ![p] = IF nacked THEN "nacked" ELSE "idle"]
        /\ UNCHANGED <<serverID, idRank, allocState, server, closing>>

(* With every slot of serverAllocState taken the trouble is not recorded.  *)
SetChannelAllocState(p) ==
    LET s == server[p]
        marked == {t \in Servers : allocState[t] # "ok"}
    IN  /\ pc[p] = "nacked"
        /\ allocState' = IF s \in marked \/ Cardinality(marked) < NumUnhappySlots
                         THEN [allocState EXCEPT ![s] = "trouble"]
                         ELSE allocState
        /\ pc' = [pc EXCEPT ![p] = "alloc"]
        /\ UNCHANGED <<state, serverID, idRank, numFreeChannels, waiters, server,
                       channel, closing, panicked>>

(* channelStateInterval passes since the server was last in trouble.       *)
TroubleExpires(s) ==
    /\ allocState[s] = "trouble"
    /\ allocState' = [allocState EXCEPT ![s] = "stale"]
    /\ UNCHANGED <<state, serverID, idRank, numFreeChannels, waiters, pc, server,
                   channel, closing, panicked>>

-----------------------------------------------------------------------------
(* RpcChanClose, in the interrupt handler: look at CHAN_BUSY without the   *)
(* lock, look again with it and borrow the channel, send, give it back.    *)

RpcChanCloseCheck(c) ==
    /\ closing[c] = "no"
    /\ "CHAN_BUSY" \notin state[c]
    /\ closing' = [closing EXCEPT ![c] = "check"]
    /\ UNCHANGED <<state, serverID, idRank, numFreeChannels, allocState, waiters,
                   pc, server, channel, panicked>>

(* Mutated form: CHAN_BUSY is not looked at again under the lock.          *)
RpcChanCloseBorrowUnchecked(c) ==
    /\ closing[c] = "check"
    /\ closing' = [closing EXCEPT ![c] = "ack"]
    /\ state' = [state EXCEPT ![c] = @ \cup BUSY]
    /\ numFreeChannels' = numFreeChannels - 1
    /\ UNCHANGED <<serverID, idRank, allocState, waiters, pc, server, channel,
                   panicked>>

RpcChanCloseBorrow(c) ==
    /\ closing[c] = "check"
    /\ IF "CHAN_BUSY" \in state[c]
       THEN /\ closing' = [closing EXCEPT ![c] = "no"]
            /\ UNCHANGED <<state, numFreeChannels>>
       ELSE /\ closing' = [closing EXCEPT ![c] = "ack"]
            /\ state' = [state EXCEPT ![c] = @ \cup BUSY]
            /\ numFreeChannels' = numFreeChannels - 1
    /\ UNCHANGED <<serverID, idRank, allocState, waiters, pc, server, channel,
                   panicked>>

(* Mutated form: the borrowed channel is not counted as free again.        *)
RpcChanCloseReturnUncounted(c) ==
    /\ closing[c] = "ack"
    /\ closing' = [closing EXCEPT ![c] = "no"]
    /\ state' = [state EXCEPT ![c] = @ \ BUSY]
    /\ UNCHANGED <<serverID, numFreeChannels, idRank, allocState, waiters, pc,
                   server, channel, panicked>>

RpcChanCloseReturn(c) ==
    /\ closing[c] = "ack"
    /\ closing' = [closing EXCEPT ![c] = "no"]
    /\ state' = [state EXCEPT ![c] = @ \ BUSY]
    /\ numFreeChannels' = numFreeChannels + 1
    /\ UNCHANGED <<serverID, idRank, allocState, waiters, pc, server, channel,
                   panicked>>

-----------------------------------------------------------------------------

ProcessStep(p) ==
    /\ CanRun
    /\ UNCHANGED rpcChannelNegAcks
    /\ \/ RpcChanAllocWait(p)
       \/ RpcChanAlloc(p)
       \/ RpcSetup(p)
       \/ RpcDoCall(p)
       \/ \E nacked \in BOOLEAN : RpcChanFree(p, nacked)
       \/ SetChannelAllocState(p)

CloseStep(c) ==
    /\ ~panicked
    /\ UNCHANGED rpcChannelNegAcks
    /\ RpcChanCloseBorrow(c) \/ RpcChanCloseReturn(c)

Next ==
    /\ UNCHANGED rpcChannelNegAcks
    /\ \/ \E p \in Procs : ProcessStep(p)
       \/ \E p \in Procs, s \in Servers : CanRun /\ Rpc_Call(p, s)
       \/ \E c \in Channels : CloseStep(c)
       \/ \E c \in Channels : CanRun /\ RpcChanCloseCheck(c)
       \/ \E s \in Servers : CanRun /\ TroubleExpires(s)

Spec == Init /\ [][Next]_vars

(* Processes and interrupt handlers run; calls and probes need not come.   *)
FairSpec ==
    /\ Spec
    /\ \A p \in Procs : WF_vars(ProcessStep(p))
    /\ \A c \in Channels : WF_vars(CloseStep(c))
-----------------------------------------------------------------------------
(* Properties.                                                             *)

Owners(c) == {p \in Procs : channel[p] = c}

(* numFreeChannels, which decides who waits, is the number of channels     *)
(* whose state is CHAN_FREE: allocation, freeing and the borrowing in      *)
(* RpcChanClose never make the two drift apart.                            *)
CountMatches ==
    numFreeChannels = Cardinality({c \in Channels : IsFree(c)})

(* A channel, with its request buffers and acknowledgment header, is used  *)
(* by one party at a time: one process between RpcChanAlloc and            *)
(* RpcChanFree, or the interrupt handler that borrowed it.                 *)
ChannelExclusive ==
    \A c \in Channels :
        /\ Cardinality(Owners(c)) <= 1
        /\ closing[c] = "ack" => Owners(c) = {}
        /\ Owners(c) # {} => state[c] = BUSY

(* Without channel ramp-down neither panic() of the channel table is       *)
(* reached: a positive count always leads RpcChanAlloc to a channel, and   *)
(* no free channel is freed.                                               *)
NoPanic == ~rpcChannelNegAcks => ~panicked

(* Without channel ramp-down a process sleeps in RpcChanAlloc only while   *)
(* there is no free channel: no wakeup is lost.                            *)
WaitsOnlyWhenNoneFree ==
    ~rpcChannelNegAcks /\ waiters # {} => \A c \in Channels : ~IsFree(c)

(* Without channel ramp-down a process asleep in RpcChanAlloc is           *)
(* eventually notified that a channel was freed.                           *)
WaiterNotified ==
    ~rpcChannelNegAcks => \A p \in Procs : (p \in waiters) ~> (p \notin waiters)
=============================================================================
