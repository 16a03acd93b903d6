------------------------ MODULE RpcChannelsProofs ------------------------
(***************************************************************************)
(* Proofs about the client channel table, for any number of processes,     *)
(* servers and channels.                                                   *)
(*                                                                         *)
(* The properties hold where an interrupt handler cannot interleave with   *)
(* the ramp-down of a congested server (SafeBuild): RpcChanClose clears    *)
(* and sets the busy bit of a channel it does not own, so on a             *)
(* multiprocessor RpcChanAlloc could take a channel in between.            *)
(***************************************************************************)
EXTENDS RpcChannels, FiniteSetTheorems, WellFoundedInduction, TLAPS

SafeBuild == rpcChannelNegAcks => ~Multiprocessor

-----------------------------------------------------------------------------
(* The inductive invariant.                                                *)

(* The bits of a channel follow from the progress of RpcChanClose on it.   *)
StateShape ==
    \A c \in Channels :
        IF closing[c] = "ack" THEN state[c] = FREE \cup BUSY
        ELSE state[c] \in {FREE, BUSY}

(* A process holds a channel exactly between RpcChanAlloc and RpcChanFree, *)
(* and nobody else uses it meanwhile.                                      *)
Holding ==
    \A p \in Procs :
        /\ channel[p] # None <=> pc[p] \in {"setup", "call", "free"}
        /\ pc[p] # "idle" => server[p] \in Servers
        /\ channel[p] # None => state[channel[p]] = BUSY
        /\ \A q \in Procs : channel[p] = channel[q] /\ channel[p] # None => p = q

(* A channel that was never used was never allocated.                      *)
UnusedNotBusy ==
    \A c \in Channels : serverID[c] = None => state[c] # BUSY

(* A server gets into trouble only with channel ramp-down.                 *)
NoTroubleWithoutNegAcks ==
    ~rpcChannelNegAcks => /\ \A s \in Servers : allocState[s] # "trouble"
                          /\ \A p \in Procs : pc[p] # "nacked"

IInv ==
    /\ TypeOK
    /\ StateShape
    /\ Holding
    /\ UnusedNotBusy
    /\ NoTroubleWithoutNegAcks
    /\ CountMatches

-----------------------------------------------------------------------------
(* Lemmas about the operators.                                             *)

LEMMA ChannelsFinite ==
    /\ IsFiniteSet(Channels)
    /\ Channels \subseteq Nat
    /\ None \notin Channels
BY FS_Interval, RpcChannelsAssumption DEF Channels

(* A non-empty set of naturals has a smallest element.                     *)
LEMMA SmallestOf ==
    ASSUME NEW T \in SUBSET Nat, T # {}
    PROVE  \E m \in T : \A k \in T : m <= k
<1>1. PICK m \in T : \A k \in T : ~ (<<k, m>> \in OpToRel(<, Nat))
  BY NatLessThanWellFounded, WFMin, Zenon
<1>2. ASSUME NEW k \in T PROVE ~ (k < m)
  <2>1. <<k, m>> \notin OpToRel(<, Nat)
    BY <1>1, Zenon
  <2>2. k < m /\ <<k, m>> \in Nat \X Nat => <<k, m>> \in OpToRel(<, Nat)
    BY Zenon DEF OpToRel
  <2> QED BY <2>1, <2>2
<1> QED BY <1>2

(* A non-empty set of channels has a lowest numbered one.                  *)
LEMMA MinChannel ==
    ASSUME NEW S \in SUBSET Channels, S # {}
    PROVE  Min(S) \in S /\ \A d \in S : Min(S) <= d
BY SmallestOf, ChannelsFinite DEF Min

(* Whatever RpcChanAlloc chooses is a free channel.                        *)
LEMMA RegularChoiceFree ==
    ASSUME NEW s, NEW c \in RegularChoice(s)
    PROVE  c \in Channels /\ IsFree(c)
BY MinChannel DEF RegularChoice, FreeMatches

LEMMA CongestedChoiceFree ==
    ASSUME NEW s, NEW c \in CongestedChoice(s),
           StateShape, UnusedNotBusy, \A d \in Channels : closing[d] # "ack"
    PROVE  c \in Channels /\ IsFree(c)
BY MinChannel DEF CongestedChoice, FreeMatches, LowestMatchIsFree, StateShape,
                  UnusedNotBusy, IsFree

(* If there is a free channel, RpcChanAlloc finds one for an uncongested   *)
(* server.                                                                 *)
LEMMA RegularChoiceExists ==
    ASSUME TypeOK, NEW s, NEW c \in Channels, IsFree(c)
    PROVE  RegularChoice(s) # {}
<1> DEFINE others == {d \in Channels : IsFree(d) /\ serverID[d] \notin {s, None}}
<1> SUFFICES ASSUME FreeMatches(s) = {},
                    {d \in Channels : IsFree(d) /\ serverID[d] = None} = {}
             PROVE  \E d \in others : \A e \in others : idRank[d] <= idRank[e]
  BY Zenon DEF RegularChoice
<1>1. c \in others
  BY DEF FreeMatches
<1> DEFINE ranks == {idRank[d] : d \in others}
<1>2. ranks \in SUBSET Nat /\ ranks # {}
  <2>1. ASSUME NEW d \in others PROVE idRank[d] \in Nat
    BY RpcChannelsAssumption DEF TypeOK
  <2> QED BY <1>1, <2>1
<1> HIDE DEF ranks
<1>3. PICK r \in ranks : \A k \in ranks : r <= k
  BY <1>2, SmallestOf
<1> QED BY <1>3 DEF ranks

(* Taking a channel from the free ones, or returning it, changes their     *)
(* number by one.                                                          *)
LEMMA FreeCount ==
    ASSUME NEW st, NEW st2, NEW c \in Channels,
           \A d \in Channels \ {c} : st2[d] = st[d],
           st[c] = FREE, st2[c] # FREE
    PROVE  /\ Cardinality({d \in Channels : st[d] = FREE}) \in Nat
           /\ Cardinality({d \in Channels : st2[d] = FREE}) \in Nat
           /\ Cardinality({d \in Channels : st2[d] = FREE}) =
                Cardinality({d \in Channels : st[d] = FREE}) - 1
<1> DEFINE F1 == {d \in Channels : st[d] = FREE}
           F2 == {d \in Channels : st2[d] = FREE}
<1>1. IsFiniteSet(F1) /\ IsFiniteSet(F2)
  BY ChannelsFinite, FS_Subset
<1>2. F2 = F1 \ {c} /\ c \in F1
  OBVIOUS
<1> HIDE DEF F1, F2
<1>3. Cardinality(F2) = Cardinality(F1) - 1 /\ Cardinality(F1) \in Nat /\ Cardinality(F2) \in Nat
  BY <1>1, <1>2, FS_RemoveElement, FS_CardinalityType
<1> QED BY <1>3 DEF F1, F2

-----------------------------------------------------------------------------
(* The invariant is preserved, one lemma per kind of step.                 *)

LEMMA InitIInv == Init => IInv
<1> SUFFICES ASSUME Init PROVE IInv
  OBVIOUS
<1>1. TypeOK
  <2>1. NumChannels \in Nat /\ 0 \in 0 .. NumChannels
    BY RpcChannelsAssumption
  <2> QED BY <2>1 DEF Init, TypeOK, FREE
<1>2. StateShape /\ Holding /\ UnusedNotBusy /\ NoTroubleWithoutNegAcks
  BY RpcChannelsAssumption DEF Init, StateShape, Holding, UnusedNotBusy,
     NoTroubleWithoutNegAcks, FREE, BUSY
<1>3. {c \in Channels : IsFree(c)} = 0 .. NumChannels - 1
  BY DEF Init, IsFree, Channels
<1>4. Cardinality(0 .. NumChannels - 1) = NumChannels
  BY FS_Interval, RpcChannelsAssumption
<1>5. CountMatches
  BY <1>3, <1>4 DEF Init, CountMatches
<1> QED BY <1>1, <1>2, <1>5 DEF IInv

(* Steps of a process that do not touch the channel table.                 *)
LEMMA ProcessOnlySteps ==
    ASSUME IInv, UNCHANGED rpcChannelNegAcks, NEW p \in Procs,
           \/ \E s \in Servers : Rpc_Call(p, s)
           \/ RpcChanAllocWait(p)
           \/ RpcSetup(p)
           \/ RpcDoCall(p)
           \/ SetChannelAllocState(p)
    PROVE  IInv'
<1> USE DEF IInv, Holding, StateShape, UnusedNotBusy, CountMatches, IsFree,
            NoTroubleWithoutNegAcks, TypeOK
<1>1. ASSUME NEW s \in Servers, Rpc_Call(p, s) PROVE IInv'
  BY <1>1 DEF Rpc_Call
<1>2. CASE RpcChanAllocWait(p)
  BY <1>2 DEF RpcChanAllocWait
<1>3. CASE RpcSetup(p)
  <2>1. idRank' \in [Channels -> 0 .. NumChannels]
    BY <1>3, RpcChannelsAssumption DEF RpcSetup
  <2> QED BY <1>3, <2>1 DEF RpcSetup
<1>4. CASE RpcDoCall(p)
  BY <1>4 DEF RpcDoCall
<1>5. CASE SetChannelAllocState(p)
  BY <1>5 DEF SetChannelAllocState
<1> QED BY <1>1, <1>2, <1>3, <1>4, <1>5

LEMMA AllocStep ==
    ASSUME IInv, SafeBuild, CanRun, UNCHANGED rpcChannelNegAcks,
           NEW p \in Procs, RpcChanAlloc(p)
    PROVE  IInv'
<1> DEFINE s == server[p]
           congested == allocState[s] = "trouble"
<1> USE DEF IInv
<1>1. s \in Servers
  BY DEF RpcChanAlloc, Holding
<1>2. ASSUME panicked' = TRUE,
             UNCHANGED <<state, serverID, numFreeChannels, pc, channel>>
      PROVE  IInv'
  <2>1. UNCHANGED <<idRank, waiters, server, closing>>
        /\ allocState' = [allocState EXCEPT ![s] = IF congested THEN @ ELSE "ok"]
    BY DEF RpcChanAlloc
  <2>2. TypeOK' /\ NoTroubleWithoutNegAcks'
    BY <1>1, <1>2, <2>1 DEF TypeOK, NoTroubleWithoutNegAcks
  <2> QED BY <1>2, <2>1, <2>2 DEF StateShape, Holding, UnusedNotBusy, CountMatches, IsFree
<1>3. ASSUME NEW c \in IF congested THEN CongestedChoice(s) ELSE RegularChoice(s),
             serverID' = [serverID EXCEPT ![c] = s],
             state' = [state EXCEPT ![c] = BUSY],
             numFreeChannels' = numFreeChannels - 1,
             channel' = [channel EXCEPT ![p] = c],
             pc' = [pc EXCEPT ![p] = "setup"],
             panicked' = panicked
      PROVE  IInv'
  <2>1. congested => \A d \in Channels : closing[d] # "ack"
    BY <1>1 DEF CanRun, SafeBuild, NoTroubleWithoutNegAcks
  <2>2. c \in Channels /\ IsFree(c)
    BY <1>3, <2>1, RegularChoiceFree, CongestedChoiceFree
  <2>3. closing[c] # "ack"
    BY <2>2 DEF StateShape, IsFree, FREE, BUSY
  <2>4. UNCHANGED <<idRank, waiters, server, closing>> /\ pc[p] = "alloc"
        /\ allocState' = [allocState EXCEPT ![s] = IF congested THEN @ ELSE "ok"]
    BY DEF RpcChanAlloc
  <2>5. CountMatches' /\ numFreeChannels' \in Nat
    <3>1. c \in Channels /\ state[c] = FREE /\ state'[c] # FREE
      BY <1>3, <2>2 DEF TypeOK, IsFree, FREE, BUSY
    <3>2. \A d \in Channels \ {c} : state'[d] = state[d]
      BY <1>3 DEF TypeOK
    <3>3. /\ Cardinality({d \in Channels : state[d] = FREE}) \in Nat
          /\ Cardinality({d \in Channels : state'[d] = FREE}) \in Nat
          /\ Cardinality({d \in Channels : state'[d] = FREE}) =
               Cardinality({d \in Channels : state[d] = FREE}) - 1
      <4> HIDE DEF s, congested
      <4> QED BY ONLY <3>1, <3>2, FreeCount, Zenon
    <3> QED BY <1>3, <3>3 DEF CountMatches, IsFree
  <2>6. TypeOK'
    BY <1>1, <1>3, <2>2, <2>4, <2>5 DEF TypeOK, BUSY
  <2>7. StateShape'
    BY <1>3, <2>2, <2>3, <2>4 DEF TypeOK, StateShape
  <2>8. Holding'
    <3>1. c # None /\ \A q \in Procs : channel[q] # c
      BY <2>2, ChannelsFinite DEF Holding, IsFree, FREE, BUSY
    <3>2. /\ \A q \in Procs : channel'[q] = IF q = p THEN c ELSE channel[q]
          /\ \A q \in Procs : pc'[q] = IF q = p THEN "setup" ELSE pc[q]
          /\ \A d \in Channels : state'[d] = IF d = c THEN BUSY ELSE state[d]
          /\ server' = server
      BY <1>3, <2>4 DEF TypeOK
    <3> QED BY <1>1, <2>2, <3>1, <3>2 DEF TypeOK, Holding
  <2>9. UnusedNotBusy'
    BY <1>1, <1>3, <2>2, RpcChannelsAssumption DEF TypeOK, UnusedNotBusy
  <2>10. NoTroubleWithoutNegAcks'
    BY <1>1, <1>3, <2>4 DEF TypeOK, NoTroubleWithoutNegAcks
  <2> QED BY <2>5, <2>6, <2>7, <2>8, <2>9, <2>10
<1> QED BY <1>2, <1>3 DEF RpcChanAlloc

LEMMA FreeStep ==
    ASSUME IInv, UNCHANGED rpcChannelNegAcks,
           NEW p \in Procs, NEW nacked \in BOOLEAN, RpcChanFree(p, nacked)
    PROVE  IInv' /\ panicked' = FALSE
<1> DEFINE c == channel[p]
<1> USE DEF IInv
<1>1. c \in Channels /\ state[c] = BUSY /\ closing[c] # "ack"
  <2>1. c \in Channels /\ state[c] = BUSY
    BY DEF RpcChanFree, TypeOK, Holding
  <2> QED BY <2>1 DEF StateShape, FREE, BUSY
<1>2. CountMatches' /\ numFreeChannels' \in Nat
  <2>1. state'[c] = FREE /\ state[c] # FREE
    BY <1>1 DEF RpcChanFree, TypeOK, FREE, BUSY
  <2>2. \A d \in Channels \ {c} : state[d] = state'[d]
    BY DEF RpcChanFree, TypeOK
  <2> QED BY <1>1, <2>1, <2>2, FreeCount DEF RpcChanFree, CountMatches, IsFree, TypeOK
<1>3. panicked' = FALSE
  BY <1>1 DEF RpcChanFree, IsFree, FREE, BUSY
<1>4. TypeOK'
  BY <1>1, <1>2, <1>3 DEF RpcChanFree, TypeOK, FREE
<1>5. StateShape'
  BY <1>1 DEF RpcChanFree, TypeOK, StateShape
<1>6. Holding'
  BY <1>1, RpcChannelsAssumption DEF RpcChanFree, TypeOK, Holding
<1>7. UnusedNotBusy'
  BY <1>1 DEF RpcChanFree, TypeOK, UnusedNotBusy, FREE, BUSY
<1>8. NoTroubleWithoutNegAcks'
  BY DEF RpcChanFree, TypeOK, NoTroubleWithoutNegAcks
<1> QED BY <1>2, <1>3, <1>4, <1>5, <1>6, <1>7, <1>8

LEMMA CloseSteps ==
    ASSUME IInv, UNCHANGED rpcChannelNegAcks, NEW c \in Channels,
           RpcChanCloseCheck(c) \/ RpcChanCloseBorrow(c) \/ RpcChanCloseReturn(c)
    PROVE  IInv'
<1> USE DEF IInv
<1>1. CASE RpcChanCloseCheck(c)
  BY <1>1 DEF RpcChanCloseCheck, TypeOK, StateShape, Holding, UnusedNotBusy,
     NoTroubleWithoutNegAcks, CountMatches, IsFree
<1>2. CASE RpcChanCloseBorrow(c) /\ "CHAN_BUSY" \in state[c]
  <2>1. /\ closing[c] = "check" /\ closing' = [closing EXCEPT ![c] = "no"]
        /\ UNCHANGED <<state, numFreeChannels, serverID, idRank, allocState,
                        waiters, pc, server, channel, panicked>>
    BY <1>2 DEF RpcChanCloseBorrow
  <2> QED BY <2>1 DEF TypeOK, StateShape, Holding, UnusedNotBusy,
             NoTroubleWithoutNegAcks, CountMatches, IsFree
<1>3. CASE RpcChanCloseBorrow(c) /\ "CHAN_BUSY" \notin state[c]
  <2>1. state[c] = FREE /\ state' = [state EXCEPT ![c] = FREE \cup BUSY]
    BY <1>3 DEF RpcChanCloseBorrow, StateShape, FREE, BUSY
  <2>2. CountMatches' /\ numFreeChannels' \in Nat
    <3>1. state[c] = FREE /\ state'[c] # FREE
      BY <2>1 DEF TypeOK, FREE, BUSY
    <3>2. \A d \in Channels \ {c} : state'[d] = state[d]
      BY <2>1 DEF TypeOK
    <3>3. /\ Cardinality({d \in Channels : state[d] = FREE}) \in Nat
          /\ Cardinality({d \in Channels : state'[d] = FREE}) \in Nat
          /\ Cardinality({d \in Channels : state'[d] = FREE}) =
               Cardinality({d \in Channels : state[d] = FREE}) - 1
      BY <3>1, <3>2, FreeCount, Zenon
    <3> QED BY <1>3, <3>3 DEF RpcChanCloseBorrow, CountMatches, IsFree
  <2>3. TypeOK' /\ StateShape' /\ UnusedNotBusy' /\ NoTroubleWithoutNegAcks'
    BY <1>3, <2>1, <2>2 DEF RpcChanCloseBorrow, TypeOK, StateShape,
       UnusedNotBusy, NoTroubleWithoutNegAcks, FREE, BUSY
  <2>4. Holding'
    BY <1>3, <2>1 DEF RpcChanCloseBorrow, TypeOK, Holding, FREE, BUSY
  <2> QED BY <2>2, <2>3, <2>4
<1>4. CASE RpcChanCloseReturn(c)
  <2>1. state[c] = FREE \cup BUSY /\ state' = [state EXCEPT ![c] = FREE]
    BY <1>4 DEF RpcChanCloseReturn, StateShape, FREE, BUSY
  <2>2. CountMatches' /\ numFreeChannels' \in Nat
    <3>1. state'[c] = FREE /\ state[c] # FREE
      BY <2>1 DEF TypeOK, FREE, BUSY
    <3>2. \A d \in Channels \ {c} : state[d] = state'[d]
      BY <2>1 DEF TypeOK
    <3>3. /\ Cardinality({d \in Channels : state'[d] = FREE}) \in Nat
          /\ Cardinality({d \in Channels : state[d] = FREE}) \in Nat
          /\ Cardinality({d \in Channels : state[d] = FREE}) =
               Cardinality({d \in Channels : state'[d] = FREE}) - 1
      BY <3>1, <3>2, FreeCount, Zenon
    <3> QED BY <1>4, <3>3 DEF RpcChanCloseReturn, CountMatches, IsFree
  <2>3. TypeOK' /\ StateShape' /\ UnusedNotBusy' /\ NoTroubleWithoutNegAcks'
    BY <1>4, <2>1, <2>2 DEF RpcChanCloseReturn, TypeOK, StateShape,
       UnusedNotBusy, NoTroubleWithoutNegAcks, FREE, BUSY
  <2>4. Holding'
    <3>1. \A p \in Procs : channel[p] # c
      BY <2>1, ChannelsFinite DEF Holding, FREE, BUSY
    <3> QED BY <1>4, <2>1, <3>1 DEF RpcChanCloseReturn, TypeOK, Holding
  <2> QED BY <2>2, <2>3, <2>4
<1> QED BY <1>1, <1>2, <1>3, <1>4 DEF RpcChanCloseBorrow

LEMMA NextIInv ==
    ASSUME SafeBuild, IInv, [Next]_vars
    PROVE  IInv'
<1>1. ASSUME NEW s \in Servers, UNCHANGED rpcChannelNegAcks, TroubleExpires(s)
      PROVE  IInv'
  BY <1>1 DEF TroubleExpires, IInv, TypeOK, StateShape, Holding, UnusedNotBusy,
     NoTroubleWithoutNegAcks, CountMatches, IsFree
<1>2. CASE UNCHANGED vars
  BY <1>2 DEF vars, IInv, TypeOK, StateShape, Holding, UnusedNotBusy,
     NoTroubleWithoutNegAcks, CountMatches, IsFree
<1> QED
  BY <1>1, <1>2, ProcessOnlySteps, AllocStep, FreeStep, CloseSteps
  DEF Next, ProcessStep, CloseStep

-----------------------------------------------------------------------------
(* The theorems.                                                           *)

(* The inductive invariant holds in every reachable state.                 *)
THEOREM Inductive == SafeBuild /\ Spec => []IInv
<1>1. Init => IInv
  BY InitIInv
<1>2. SafeBuild /\ IInv /\ [Next]_vars => IInv'
  BY NextIInv
<1>3. SafeBuild /\ [Next]_vars => SafeBuild'
  BY DEF SafeBuild, Next, vars
<1> QED BY <1>1, <1>2, <1>3, PTL DEF Spec

(* Every variable of the channel table keeps its type.                     *)
THEOREM TypeCorrect == SafeBuild /\ Spec => []TypeOK
<1>1. IInv => TypeOK
  BY DEF IInv
<1> QED BY <1>1, Inductive, PTL

(* numFreeChannels always counts the channels in state CHAN_FREE, however  *)
(* RpcChanAlloc, RpcChanFree and RpcChanClose interleave.                  *)
THEOREM CountCorrect == SafeBuild /\ Spec => []CountMatches
<1>1. IInv => CountMatches
  BY DEF IInv
<1> QED BY <1>1, Inductive, PTL

(* A channel has one user at a time: one process, or RpcChanClose.         *)
THEOREM ExclusiveCorrect == SafeBuild /\ Spec => []ChannelExclusive
<1>1. ASSUME IInv PROVE ChannelExclusive
  <2>1. SUFFICES ASSUME NEW c \in Channels
                 PROVE  /\ Cardinality(Owners(c)) <= 1
                        /\ closing[c] = "ack" => Owners(c) = {}
                        /\ Owners(c) # {} => state[c] = BUSY
    BY DEF ChannelExclusive
  <2>2. CASE Owners(c) = {}
    BY <2>2, FS_EmptySet
  <2>3. CASE Owners(c) # {}
    <3>1. PICK p \in Procs : channel[p] = c
      BY <2>3 DEF Owners
    <3>2. state[c] = BUSY
      BY <1>1, <3>1, ChannelsFinite DEF IInv, Holding
    <3>3. closing[c] # "ack"
      BY <1>1, <3>2 DEF IInv, StateShape, FREE, BUSY
    <3>4. Owners(c) = {p}
      BY <1>1, <3>1, ChannelsFinite DEF IInv, Holding, Owners
    <3> QED BY <3>2, <3>3, <3>4, FS_Singleton
  <2> QED BY <2>2, <2>3
<1> QED BY <1>1, Inductive, PTL

(* Without ramp-down neither panic of the channel table is reachable: the  *)
(* free count is positive only if RpcChanAlloc has a channel to choose.    *)
THEOREM NoPanicCorrect == Spec => []NoPanic
<1> DEFINE Inv == ~rpcChannelNegAcks => IInv /\ panicked = FALSE
<1>1. Init => Inv
  BY InitIInv DEF Init
<1>2. ASSUME Inv, [Next]_vars PROVE Inv'
  <2>1. CASE rpcChannelNegAcks
    BY <1>2, <2>1 DEF Next, vars
  <2>2. CASE ~rpcChannelNegAcks
    <3>1. IInv /\ panicked = FALSE /\ SafeBuild
      BY <1>2, <2>2 DEF SafeBuild
    <3>2. IInv'
      BY <1>2, <3>1, NextIInv
    <3>3. ASSUME NEW p \in Procs, RpcChanAlloc(p) PROVE panicked' = FALSE
      <4>1. server[p] \in Servers /\ allocState[server[p]] # "trouble"
        BY <2>2, <3>1, <3>3 DEF IInv, Holding, RpcChanAlloc, NoTroubleWithoutNegAcks
      <4>2. {c \in Channels : IsFree(c)} # {}
        <5>1. numFreeChannels >= 1 /\ numFreeChannels = Cardinality({c \in Channels : IsFree(c)})
          BY <3>1, <3>3 DEF IInv, CountMatches, RpcChanAlloc
        <5> QED BY <5>1, FS_EmptySet
      <4>3. RegularChoice(server[p]) # {}
        BY <3>1, <4>2, RegularChoiceExists DEF IInv
      <4> QED BY <3>1, <3>3, <4>1, <4>3 DEF RpcChanAlloc
    <3>4. ASSUME NEW p \in Procs, NEW nacked \in BOOLEAN, RpcChanFree(p, nacked),
                 UNCHANGED rpcChannelNegAcks
          PROVE  panicked' = FALSE
      BY <3>1, <3>4, FreeStep
    <3>5. ASSUME UNCHANGED panicked PROVE panicked' = FALSE
      BY <3>1, <3>5
    <3>6. panicked' = FALSE
      BY <1>2, <3>3, <3>4, <3>5 DEF Next, ProcessStep, CloseStep, vars, Rpc_Call,
         RpcChanAllocWait, RpcSetup, RpcDoCall, TroubleExpires, SetChannelAllocState,
         RpcChanCloseCheck, RpcChanCloseBorrow, RpcChanCloseReturn
    <3> QED BY <3>2, <3>6
  <2> QED BY <2>1, <2>2
<1>3. Inv => NoPanic
  BY DEF NoPanic
<1> QED BY <1>1, <1>2, <1>3, PTL DEF Spec

(* On a uniprocessor without ramp-down nobody sleeps in RpcChanAlloc while *)
(* a channel is free: the single broadcast of RpcChanFree is enough.       *)
THEOREM WaitsCorrect == ~Multiprocessor /\ Spec => []WaitsOnlyWhenNoneFree
<1> DEFINE WInv == waiters # {} => /\ \A c \in Channels : ~IsFree(c)
                                   /\ \A c \in Channels : closing[c] # "ack"
           Inv == ~rpcChannelNegAcks => IInv /\ WInv
<1> SUFFICES ASSUME ~Multiprocessor PROVE Spec => []WaitsOnlyWhenNoneFree
  OBVIOUS
<1>1. Init => Inv
  BY InitIInv DEF Init
<1>2. ASSUME IInv, WInv, ~rpcChannelNegAcks, [Next]_vars PROVE WInv'
  <2>1. ASSUME NEW p \in Procs, CanRun, RpcChanAllocWait(p) PROVE WInv'
    <3>1. numFreeChannels = 0
      BY <1>2, <2>1 DEF RpcChanAllocWait, IInv, TypeOK, Holding, NoTroubleWithoutNegAcks
    <3>2. {c \in Channels : IsFree(c)} = {}
      <4>1. IsFiniteSet({c \in Channels : IsFree(c)})
        BY ChannelsFinite, FS_Subset
      <4> QED BY <1>2, <3>1, <4>1, FS_EmptySet DEF IInv, CountMatches
    <3> QED BY <2>1, <3>2 DEF RpcChanAllocWait, CanRun, IsFree
  <2>2. ASSUME NEW p \in Procs, RpcChanAlloc(p) PROVE WInv'
    <3>1. {c \in Channels : IsFree(c)} # {}
      BY <1>2, <2>2, FS_EmptySet DEF IInv, CountMatches, RpcChanAlloc
    <3> QED BY <1>2, <2>2, <3>1 DEF RpcChanAlloc
  <2>3. ASSUME NEW p \in Procs, NEW nacked \in BOOLEAN, RpcChanFree(p, nacked)
        PROVE  WInv'
    <3>1. CASE waiters = {}
      BY <2>3, <3>1 DEF RpcChanFree
    <3>2. CASE waiters # {}
      <4>1. {c \in Channels : IsFree(c)} = {}
        BY <1>2, <3>2
      <4>2. numFreeChannels = 0
        BY <1>2, <4>1, FS_EmptySet DEF IInv, CountMatches
      <4> QED BY <2>3, <4>2 DEF RpcChanFree
    <3> QED BY <3>1, <3>2
  <2>4. ASSUME NEW c \in Channels, RpcChanCloseBorrow(c) PROVE WInv'
    BY <1>2, <2>4 DEF RpcChanCloseBorrow, IInv, TypeOK, StateShape, IsFree, FREE, BUSY
  <2>5. ASSUME NEW c \in Channels, RpcChanCloseReturn(c) PROVE WInv'
    BY <1>2, <2>5 DEF RpcChanCloseReturn
  <2>6. ASSUME NEW c \in Channels, RpcChanCloseCheck(c) PROVE WInv'
    BY <1>2, <2>6 DEF RpcChanCloseCheck, IInv, TypeOK, IsFree
  <2>7. CASE UNCHANGED <<state, waiters, closing>>
    BY <1>2, <2>7 DEF IsFree
  <2> QED BY <1>2, <2>1, <2>2, <2>3, <2>4, <2>5, <2>6, <2>7
          DEF Next, ProcessStep, CloseStep, vars, Rpc_Call, RpcSetup, RpcDoCall,
              TroubleExpires, SetChannelAllocState
<1>3. ASSUME Inv, [Next]_vars PROVE Inv'
  <2>1. CASE rpcChannelNegAcks
    BY <1>3, <2>1 DEF Next, vars
  <2>2. CASE ~rpcChannelNegAcks
    <3>1. SafeBuild /\ IInv /\ WInv
      BY <1>3, <2>2 DEF SafeBuild
    <3> QED BY <1>2, <1>3, <2>2, <3>1, NextIInv
  <2> QED BY <2>1, <2>2
<1>4. Inv => WaitsOnlyWhenNoneFree
  BY DEF WaitsOnlyWhenNoneFree
<1> QED BY <1>1, <1>3, <1>4, PTL DEF Spec
=============================================================================
