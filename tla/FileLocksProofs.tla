-------------------------- MODULE FileLocksProofs --------------------------
(***************************************************************************)
(* Proofs about the file locks and the remote wait they are built on, for  *)
(* any number of processes, workstations and crashes: no wakeup is lost,   *)
(* the types, and who holds the lock.                                      *)
(***************************************************************************)
EXTENDS FileLocks, TLAPS, NaturalsInduction, WellFoundedInduction,
        FiniteSetTheorems

----------------------------------------------------------------------------
(* The inductive invariant of the wait.                                    *)

WaitTypes ==
    /\ waitList \subseteq Procs
    /\ pc \in [Procs -> Places]
    /\ waitComplete \in [Procs -> BOOLEAN]
    /\ up \in [Clients -> BOOLEAN]
    /\ handle \in Procs \cup Clients \cup {None}

(* A process of a crashed workstation is at most a request that the server *)
(* still executes: it neither waits nor is about to.                       *)
DeadDoNotWait ==
    \A p \in Procs : ~up[Host[p]] => pc[p] \in {"dead", "verified", "serving"}

WaitersListed ==
    \A p \in Procs : pc[p] \in {"told", "blocked"} /\ ~waitComplete[p]
                        => p \in waitList

WaitedForIsHeld == handle = None /\ waitList # {} => flags # {}

WInv == WaitTypes /\ DeadDoNotWait /\ WaitersListed /\ WaitedForIsHeld

----------------------------------------------------------------------------
(* Initial state and clients' steps, which change neither wait list nor    *)
(* handle nor flags.                                                       *)

(* At boot nobody waits.                                                   *)
LEMMA InitWInv == LocksAssumption /\ Init => WInv
<1> SUFFICES ASSUME LocksAssumption, Init PROVE WInv
  OBVIOUS
<1>1. WaitTypes
  BY DEF Init, WaitTypes, Places
<1>2. DeadDoNotWait
  BY DEF LocksAssumption, Init, DeadDoNotWait
<1>3. WaitersListed
  BY DEF Init, WaitersListed
<1>4. WaitedForIsHeld
  BY DEF Init, WaitedForIsHeld
<1> QED BY <1>1, <1>2, <1>3, <1>4 DEF WInv

(* A step of process p alone that moves it to w.                           *)
Moves(p, w) ==
    /\ w \in Places
    /\ pc' = [pc EXCEPT ![p] = w]
    /\ up[Host[p]] \/ w \in {"dead", "verified", "serving"}
    /\ UNCHANGED up

(* Such a step keeps the invariant when the process it puts to wait is     *)
(* listed and the wait list is left with a holder or a locked handle.      *)
LEMMA MoveKeepsWInv ==
    ASSUME LocksAssumption, WInv, NEW p \in Procs, NEW w, Moves(p, w),
           waitList \subseteq waitList', waitList' \subseteq Procs,
           handle' \in Procs \cup Clients \cup {None},
           waitComplete' \in [Procs -> BOOLEAN],
           \A q \in Procs \ {p} : waitComplete'[q] = waitComplete[q],
           w \in {"told", "blocked"} => p \in waitList' \/ waitComplete'[p] = TRUE,
           WaitedForIsHeld'
    PROVE  WInv'
<1>1. WaitTypes'
  BY DEF WInv, WaitTypes, Moves
<1>2. DeadDoNotWait'
  <2> SUFFICES ASSUME NEW q \in Procs, up'[Host[q]] = FALSE
               PROVE  pc'[q] \in {"dead", "verified", "serving"}
    BY <1>1 DEF DeadDoNotWait, WaitTypes, LocksAssumption
  <2>1. CASE q = p
    BY <2>1 DEF WInv, WaitTypes, Moves
  <2>2. CASE q # p
    BY <2>2 DEF WInv, WaitTypes, Moves, DeadDoNotWait
  <2> QED BY <2>1, <2>2
<1>3. WaitersListed'
  <2> SUFFICES ASSUME NEW q \in Procs, pc'[q] \in {"told", "blocked"}, waitComplete'[q] = FALSE
               PROVE  q \in waitList'
    BY <1>1 DEF WaitersListed, WaitTypes
  <2>1. CASE q = p
    BY <2>1 DEF WInv, WaitTypes, Moves
  <2>2. CASE q # p
    BY <2>2 DEF WInv, WaitTypes, Moves, WaitersListed
  <2> QED BY <2>1, <2>2
<1> QED BY <1>1, <1>2, <1>3 DEF WInv

(* A process that is not served, dead or verified runs on a workstation    *)
(* that is up.                                                             *)
LEMMA RunningIsUp ==
    ASSUME LocksAssumption, WInv, NEW p \in Procs,
           pc[p] \notin {"dead", "verified", "serving"}
    PROVE  up[Host[p]]
BY DEF WInv, DeadDoNotWait

(* A process goes to sleep only if no wakeup has come, and so is listed.   *)
LEMMA ClientSteps ==
    ASSUME LocksAssumption, WInv, NEW p \in Procs,
           \/ \E m \in Modes, block \in BOOLEAN : LockCall(p, m, block)
           \/ \E cmd \in {"UNLOCK", "CLOSE"} : ReleaseCall(p, cmd)
           \/ ClientStep(p)
           \/ AbortWait(p)
    PROVE  WInv'
<1>1. pc[p] \notin {"dead", "verified", "serving"}
  BY DEF LockCall, ReleaseCall, ClientStep, RpcIOControl, Return, ProcWait, Retry, AbortWait
<1>2. PICK w \in Places :
         /\ pc' = [pc EXCEPT ![p] = w]
         /\ w = "blocked" => pc[p] = "told" /\ waitComplete[p] # TRUE
         /\ w # "told"
  BY DEF LockCall, ReleaseCall, ClientStep, RpcIOControl, Return, ProcWait, Retry, AbortWait,
         Places, WInv, WaitTypes
<1>3. UNCHANGED <<flags, waitList, handle, up>>
  BY DEF LockCall, ReleaseCall, ClientStep, RpcIOControl, Return, ProcWait, Retry, AbortWait, lockVars
<1>4. UNCHANGED waitComplete \/ waitComplete' = [waitComplete EXCEPT ![p] = FALSE]
  BY DEF LockCall, ReleaseCall, ClientStep, RpcIOControl, Return, ProcWait, Retry, AbortWait
<1>5. /\ waitComplete' \in [Procs -> BOOLEAN]
      /\ \A q \in Procs \ {p} : waitComplete'[q] = waitComplete[q]
  BY <1>4 DEF WInv, WaitTypes
<1>6. Moves(p, w)
  BY <1>1, <1>2, <1>3, RunningIsUp DEF Moves
<1>7. w = "blocked" => p \in waitList
  BY <1>2 DEF WInv, WaitTypes, WaitersListed
<1>8. WaitedForIsHeld'
  BY <1>3 DEF WInv, WaitedForIsHeld
<1>9. waitList \subseteq Procs /\ handle \in Procs \cup Clients \cup {None}
  BY DEF WInv, WaitTypes
<1> QED BY <1>2, <1>3, <1>5, <1>6, <1>7, <1>8, <1>9, MoveKeepsWInv

----------------------------------------------------------------------------
(* The server's steps.                                                     *)

(* A request is refused, and its process listed, only while a lock is held. *)
LEMMA LockStep ==
    ASSUME LocksAssumption, WInv, NEW p \in Procs, Lock(p)
    PROVE  WInv'
<1>1. PICK w \in {"granted", "told", "dead"} :
         /\ Moves(p, w)
         /\ w = "told" => p \in waitList'
  BY DEF Lock, To, Moves, Places
<1>2. /\ UNCHANGED <<handle, waitComplete>>
      /\ waitList \subseteq waitList'
      /\ waitList' \subseteq Procs
      /\ flags' # {}
  BY DEF Lock, Available, lockVars, WInv, WaitTypes
<1>3. WaitedForIsHeld'
  BY <1>2 DEF WaitedForIsHeld
<1>4. waitComplete \in [Procs -> BOOLEAN] /\ handle \in Procs \cup Clients \cup {None}
  BY DEF WInv, WaitTypes
<1> QED BY <1>1, <1>2, <1>3, <1>4, MoveKeepsWInv

(* Whoever takes a lock away keeps the handle for the notification.        *)
LEMMA ReleaseStep ==
    ASSUME LocksAssumption, WInv, NEW p \in Procs, Unlock(p) \/ LockClose(p)
    PROVE  WInv'
<1>1. p # None
  BY DEF LocksAssumption
<1>2. UNCHANGED <<waitList, waitComplete, up>>
  BY DEF Unlock, LockClose
<1>3. handle' = p \/ UNCHANGED <<flags, handle>>
  BY DEF Unlock, LockClose, StartNotify, lockVars
<1>4. PICK w \in {"serving", "done", "dead"} : Moves(p, w)
  BY <1>2 DEF Unlock, LockClose, Serving, To, Moves, Places
<1>5. WaitedForIsHeld'
  BY <1>1, <1>2, <1>3 DEF WInv, WaitedForIsHeld
<1>6. /\ waitComplete \in [Procs -> BOOLEAN]
      /\ waitList \subseteq Procs
      /\ handle' \in Procs \cup Clients \cup {None}
  BY <1>3 DEF WInv, WaitTypes
<1> QED BY <1>2, <1>4, <1>5, <1>6, MoveKeepsWInv

(* The process taken off the list has had its wakeup, or is dead.          *)
LEMMA NotifySteps ==
    ASSUME LocksAssumption, WInv,
           NotifyDone \/ \E q \in Procs : NotifyWaiter(q)
    PROVE  WInv'
<1>1. CASE NotifyDone
  <2>1. /\ waitList = {} /\ handle' = None
        /\ UNCHANGED <<flags, waitList, waitComplete, up>>
    BY <1>1 DEF NotifyDone, lockVars
  <2>2. WaitedForIsHeld' /\ handle' \in Procs \cup Clients \cup {None}
    BY <2>1 DEF WaitedForIsHeld
  <2>3. CASE handle \in Procs
    <3>1. PICK w \in {"done", "dead"} : Moves(handle, w)
      BY <1>1, <2>1, <2>3 DEF NotifyDone, To, Moves, Places
    <3>2. waitList \subseteq Procs /\ waitComplete \in [Procs -> BOOLEAN]
      BY DEF WInv, WaitTypes
    <3> QED BY <2>1, <2>2, <2>3, <3>1, <3>2, MoveKeepsWInv
  <2>4. CASE handle \notin Procs
    BY <1>1, <2>1, <2>2, <2>4 DEF NotifyDone, WInv, WaitTypes, DeadDoNotWait, WaitersListed
  <2> QED BY <2>3, <2>4
<1>2. ASSUME NEW q \in Procs, NotifyWaiter(q) PROVE WInv'
  <2>1. CASE up[Host[q]]
    <3>1. /\ UNCHANGED <<flags, handle, up>> /\ handle # None
          /\ waitList' = waitList \ {q}
          /\ waitComplete' = [waitComplete EXCEPT ![q] = TRUE]
          /\ pc' = [pc EXCEPT ![q] = IF @ = "blocked" THEN "awake" ELSE @]
      BY <1>2, <2>1 DEF NotifyWaiter, ProcWakeup, lockVars
    <3>2. WaitTypes'
      BY <3>1 DEF WInv, WaitTypes, Places
    <3>3. DeadDoNotWait'
      BY <3>1, <2>1 DEF WInv, WaitTypes, DeadDoNotWait
    <3>4. WaitersListed'
      <4> SUFFICES ASSUME NEW p \in Procs, pc'[p] \in {"told", "blocked"}, waitComplete'[p] = FALSE
                   PROVE  p \in waitList'
        BY <3>2 DEF WaitersListed, WaitTypes
      <4>1. p # q
        BY <3>1 DEF WInv, WaitTypes
      <4> QED BY <3>1, <4>1 DEF WInv, WaitTypes, WaitersListed
    <3>5. WaitedForIsHeld'
      BY <3>1 DEF WaitedForIsHeld
    <3> QED BY <3>2, <3>3, <3>4, <3>5 DEF WInv
  <2>2. CASE ~up[Host[q]]
    BY <1>2, <2>2 DEF NotifyWaiter, lockVars, WInv, WaitTypes, DeadDoNotWait,
       WaitersListed, WaitedForIsHeld
  <2> QED BY <2>1, <2>2
<1> QED BY <1>1, <1>2

----------------------------------------------------------------------------
(* Crashes and the cleanup after them.                                     *)

(* A crash ends the waits of its workstation, and whoever breaks a lock for *)
(* a dead client keeps the handle for the notification.                    *)
LEMMA CrashSteps ==
    ASSUME LocksAssumption, WInv, NEW c \in Clients,
           Crash(c) \/ RemoveClientSkips(c) \/ RemoveClient(c)
    PROVE  WInv'
<1>1. CASE Crash(c)
  <2>1. \A p \in Procs : pc'[p] = IF Host[p] = c /\ pc[p] \notin {"verified", "serving"}
                                  THEN "dead" ELSE pc[p]
    BY <1>1 DEF Crash
  <2>2. pc' \in [Procs -> Places]
    BY <1>1 DEF Crash, WInv, WaitTypes, Places
  <2>3. waitComplete' \in [Procs -> BOOLEAN]
    BY <1>1, Zenon DEF Crash
  <2>4. \A p \in Procs : Host[p] # c => up'[Host[p]] = up[Host[p]] /\ waitComplete'[p] = waitComplete[p]
    BY <1>1 DEF Crash, WInv, WaitTypes
  <2> QED BY <1>1, <2>1, <2>2, <2>3, <2>4 DEF Crash, lockVars, WInv, WaitTypes, DeadDoNotWait,
             WaitersListed, WaitedForIsHeld
<1>2. CASE RemoveClientSkips(c)
  BY <1>2 DEF RemoveClientSkips, lockVars, WInv, WaitTypes, DeadDoNotWait, WaitersListed, WaitedForIsHeld
<1>3. CASE RemoveClient(c)
  <2>1. c # None
    BY DEF LocksAssumption
  <2>2. UNCHANGED <<waitList, pc, waitComplete, up>> /\ (handle' = c \/ UNCHANGED <<flags, handle>>)
    BY <1>3 DEF RemoveClient
  <2> QED BY <2>1, <2>2 DEF WInv, WaitTypes, DeadDoNotWait, WaitersListed, WaitedForIsHeld
<1> QED BY <1>1, <1>2, <1>3

----------------------------------------------------------------------------
(* The invariant reads only the variables of the specification.            *)
LEMMA StutterWInv == WInv /\ UNCHANGED vars => WInv'
BY DEF vars, lockVars, WInv, WaitTypes, DeadDoNotWait, WaitersListed, WaitedForIsHeld

(* WInv holds in every reachable state: each step of Next preserves it.    *)
THEOREM WaitInvariant == LocksAssumption /\ Spec => []WInv
<1> SUFFICES ASSUME LocksAssumption PROVE Spec => []WInv
  OBVIOUS
<1>1. Init => WInv
  BY InitWInv
<1>2. WInv /\ [Next]_vars => WInv'
  <2> SUFFICES ASSUME WInv, [Next]_vars PROVE WInv'
    OBVIOUS
  <2>1. CASE UNCHANGED vars
    BY <2>1, StutterWInv
  <2>2. ASSUME NEW p \in Procs, ServerStep(p) PROVE WInv'
    BY <2>2, LockStep, ReleaseStep, NotifySteps DEF ServerStep
  <2>3. ASSUME NEW p \in Procs, ClientStep(p) \/ AbortWait(p) PROVE WInv'
    BY <2>3, ClientSteps
  <2>4. ASSUME NEW p \in Procs,
               \/ \E m \in Modes, block \in BOOLEAN : LockCall(p, m, block)
               \/ \E cmd \in {"UNLOCK", "CLOSE"} : ReleaseCall(p, cmd)
        PROVE  WInv'
    BY <2>4, ClientSteps
  <2>5. CASE NotifyDone
    BY <2>5, NotifySteps
  <2>6. ASSUME NEW c \in Clients, Crash(c) \/ RemoveClientSkips(c) \/ RemoveClient(c) PROVE WInv'
    BY <2>6, CrashSteps
  <2> QED BY <2>1, <2>2, <2>3, <2>4, <2>5, <2>6 DEF Next
<1> QED BY <1>1, <1>2, PTL DEF Spec

(* No wakeup is lost: a process that sleeps, or is about to, is on the     *)
(* wait list of the server, and nobody is left there once the lock is free *)
(* and the handle unlocked (Fsio_Lock, Fsio_Unlock, Fsio_LockClose,        *)
(* Fsio_LockClientKill against Sync_ProcWait), crashes included.           *)
THEOREM NoLostWakeupCorrect == LocksAssumption /\ Spec => []NoLostWakeup
<1>1. WInv => NoLostWakeup
  BY DEF WInv, WaitersListed, WaitedForIsHeld, NoLostWakeup
<1> QED BY <1>1, WaitInvariant, PTL

----------------------------------------------------------------------------
(* The list of owners, and the passes over it.                             *)

(* A set of numbers that is not empty has a least one.                     *)
LEMMA LeastNat ==
    ASSUME NEW T, T \subseteq Nat, T # {}
    PROVE  \E x \in T : \A y \in T : x <= y
<1>1. PICK x \in T : \A y \in T : ~(<<y, x>> \in OpToRel(<, Nat))
  BY NatLessThanWellFounded, WFMin, Zenon
<1>2. \A y \in T : ~(y < x)
  BY <1>1 DEF OpToRel
<1> QED BY <1>2

(* The pass of WithoutClient over the first n owners.                      *)
Pass(f, s, c, n) ==
    f = [i \in 0 .. n |-> IF i = 0 THEN <<>>
                          ELSE IF Host[s[i].proc] = c THEN f[i - 1]
                          ELSE Append(f[i - 1], s[i])]

LEMMA PassExists == ASSUME NEW s, NEW c, NEW n \in Nat PROVE \E f : Pass(f, s, c, n)
<1> DEFINE T == {k \in Nat : ~\E f : Pass(f, s, c, k)}
<1> SUFFICES ASSUME T # {} PROVE FALSE
  OBVIOUS
<1>1. PICK k \in T : \A j \in T : k <= j
  BY LeastNat
<1>2. k \in Nat /\ ~\E f : Pass(f, s, c, k)
  OBVIOUS
<1>3. k # 0
  <2>1. Pass([i \in 0 .. 0 |-> <<>>], s, c, 0)
    BY DEF Pass
  <2> QED BY <2>1, <1>2
<1>4. PICK f : Pass(f, s, c, k - 1)
  BY <1>1, <1>2, <1>3
<1> DEFINE g == [i \in 0 .. k |-> IF i < k THEN f[i]
                                  ELSE IF Host[s[i].proc] = c THEN f[i - 1]
                                  ELSE Append(f[i - 1], s[i])]
<1>5. Pass(g, s, c, k)
  <2> SUFFICES ASSUME NEW i \in 0 .. k
               PROVE  g[i] = IF i = 0 THEN <<>>
                             ELSE IF Host[s[i].proc] = c THEN g[i - 1]
                             ELSE Append(g[i - 1], s[i])
    BY Zenon DEF Pass
  <2>1. CASE i = k
    <3>1. g[i] = IF Host[s[i].proc] = c THEN f[i - 1] ELSE Append(f[i - 1], s[i])
      BY <2>1, <1>2
    <3>2. g[i - 1] = f[i - 1]
      BY <2>1, <1>2, <1>3
    <3> QED BY <3>1, <3>2, <2>1, <1>3
  <2>2. CASE i # k
    <3>1. i \in 0 .. k - 1 /\ i < k
      BY <2>2, <1>2, <1>3
    <3>2. g[i] = f[i] /\ (i # 0 => g[i - 1] = f[i - 1])
      BY <3>1, <1>2
    <3>3. f[i] = IF i = 0 THEN <<>>
                 ELSE IF Host[s[i].proc] = c THEN f[i - 1]
                 ELSE Append(f[i - 1], s[i])
      BY <1>4, <3>1 DEF Pass
    <3> QED BY <3>2, <3>3
  <2> QED BY <2>1, <2>2
<1> QED BY <1>2, <1>5

(* WithoutClient is the end of a pass.                                     *)
LEMMA WithoutClientIsPass ==
    ASSUME NEW s \in Seq(Owner), NEW c
    PROVE  \E f : Pass(f, s, c, Len(s)) /\ WithoutClient(s, c) = f[Len(s)]
<1>1. \E f : Pass(f, s, c, Len(s))
  BY PassExists, Len(s) \in Nat
<1> DEFINE k == CHOOSE f : Pass(f, s, c, Len(s))
<1>2. Pass(k, s, c, Len(s))
  BY <1>1
<1>3. WithoutClient(s, c) = k[Len(s)]
  BY Zenon DEF WithoutClient, Pass
<1> QED BY <1>2, <1>3

(* What holds of the empty list and of each prefix kept holds at the end.  *)
LEMMA WithoutClientFacts ==
    ASSUME NEW s \in Seq(Owner), NEW c
    PROVE  /\ WithoutClient(s, c) \in Seq(Owner)
           /\ (\A i \in 1 .. Len(s) : Host[s[i].proc] = c) => WithoutClient(s, c) = <<>>
           /\ (\A i \in 1 .. Len(s) : Host[s[i].proc] # c) => WithoutClient(s, c) = s
<1>1. PICK f : Pass(f, s, c, Len(s)) /\ WithoutClient(s, c) = f[Len(s)]
  BY WithoutClientIsPass
<1>2. f[0] = <<>> /\ \A i \in 1 .. Len(s) :
          f[i] = IF Host[s[i].proc] = c THEN f[i - 1] ELSE Append(f[i - 1], s[i])
  <2>1. Len(s) \in Nat
    OBVIOUS
  <2>2. \A i \in 0 .. Len(s) : f[i] = IF i = 0 THEN <<>>
                                     ELSE IF Host[s[i].proc] = c THEN f[i - 1]
                                     ELSE Append(f[i - 1], s[i])
    BY <1>1, Zenon DEF Pass
  <2> QED BY <2>1, <2>2
<1> DEFINE Good(i) ==
       /\ f[i] \in Seq(Owner)
       /\ (\A j \in 1 .. i : Host[s[j].proc] = c) => f[i] = <<>>
       /\ (\A j \in 1 .. i : Host[s[j].proc] # c) =>
              Len(f[i]) = i /\ \A j \in 1 .. i : f[i][j] = s[j]
       T == {k \in 0 .. Len(s) : ~Good(k)}
<1>3. T = {}
  <2> SUFFICES ASSUME T # {} PROVE FALSE
    OBVIOUS
  <2>0. T \subseteq Nat
    OBVIOUS
  <2>1. PICK k \in T : \A j \in T : k <= j
    BY <2>0, LeastNat
  <2>2. k \in 0 .. Len(s) /\ ~Good(k)
    OBVIOUS
  <2>3. Good(0)
    BY <1>2
  <2>4. k \in 1 .. Len(s) /\ k - 1 \in 0 .. Len(s)
    <3>1. k # 0
      BY <2>2, <2>3
    <3> QED BY <2>2, <3>1
  <2>5. k - 1 \notin T
    BY <2>1, <2>4
  <2>6. Good(k - 1)
    BY <2>5, <2>4
  <2> DEFINE r == f[k - 1]
  <2>7. f[k] = IF Host[s[k].proc] = c THEN r ELSE Append(r, s[k])
    BY <1>2, <2>4
  <2>8. r \in Seq(Owner) /\ s[k] \in Owner
    BY <2>6, <2>4
  <2>9. f[k] \in Seq(Owner)
    <3> HIDE DEF r
    <3> QED BY <2>7, <2>8
  <2>10. ASSUME \A j \in 1 .. k : Host[s[j].proc] = c PROVE f[k] = <<>>
    <3>1. r = <<>>
      BY <2>6, <2>10, <2>4
    <3> QED BY <3>1, <2>7, <2>10, <2>4
  <2>11. ASSUME \A j \in 1 .. k : Host[s[j].proc] # c
         PROVE  Len(f[k]) = k /\ \A j \in 1 .. k : f[k][j] = s[j]
    <3>1. Len(r) = k - 1 /\ \A j \in 1 .. k - 1 : r[j] = s[j]
      BY <2>6, <2>11, <2>4
    <3>2. f[k] = Append(r, s[k])
      BY <2>7, <2>11, <2>4
    <3> HIDE DEF r
    <3> QED BY <3>1, <3>2, <2>8, <2>4
  <2> QED BY <2>2, <2>9, <2>10, <2>11
<1>4. Good(Len(s))
  <2>1. Len(s) \in 0 .. Len(s)
    OBVIOUS
  <2> QED BY <1>3, <2>1
<1>5. ASSUME \A i \in 1 .. Len(s) : Host[s[i].proc] # c PROVE f[Len(s)] = s
  <2>1. f[Len(s)] \in Seq(Owner) /\ Len(f[Len(s)]) = Len(s) /\ \A j \in 1 .. Len(s) : f[Len(s)][j] = s[j]
    BY <1>4, <1>5
  <2> DEFINE r == f[Len(s)]
  <2> HIDE DEF r
  <2>2. r \in Seq(Owner) /\ Len(r) = Len(s) /\ \A j \in 1 .. Len(s) : r[j] = s[j]
    BY <2>1 DEF r
  <2>3. r = s
    BY <2>2
  <2> QED BY <2>3 DEF r
<1> QED BY <1>1, <1>4, <1>5

(* The first of the owners asked for is one of them.                       *)
LEMMA FirstOwned ==
    ASSUME NEW p, ownerList \in Seq(Owner), OwnedBy(p) # {}
    PROVE  /\ First(OwnedBy(p)) \in 1 .. Len(ownerList)
           /\ ownerList[First(OwnedBy(p))].proc = p
<1>0. Len(ownerList) \in Nat /\ OwnedBy(p) \subseteq Nat
  BY DEF OwnedBy
<1>1. \E i \in OwnedBy(p) : \A j \in OwnedBy(p) : i <= j
  BY <1>0, LeastNat
<1>2. First(OwnedBy(p)) \in OwnedBy(p)
  BY <1>1, Zenon DEF First
<1> QED BY <1>2 DEF OwnedBy

(* RemoveAt takes one element away and moves those after it.               *)
LEMMA RemoveAtFacts ==
    ASSUME NEW s \in Seq(Owner), NEW i \in 1 .. Len(s)
    PROVE  /\ RemoveAt(s, i) \in Seq(Owner)
           /\ Len(RemoveAt(s, i)) = Len(s) - 1
           /\ \A j \in 1 .. Len(s) - 1 :
                 RemoveAt(s, i)[j] = IF j < i THEN s[j] ELSE s[j + 1]
<1> DEFINE a == SubSeq(s, 1, i - 1)
           b == SubSeq(s, i + 1, Len(s))
<1>1. a \in Seq(Owner) /\ Len(a) = i - 1 /\ \A j \in 1 .. i - 1 : a[j] = s[j]
  OBVIOUS
<1>2. /\ b \in Seq(Owner) /\ Len(b) = Len(s) - i
      /\ \A j \in 1 .. Len(s) - i : b[j] = s[j + i]
  OBVIOUS
<1>3. RemoveAt(s, i) = a \o b
  BY DEF RemoveAt
<1>4. Len(s) \in Nat
  OBVIOUS
<1> HIDE DEF a, b
<1>5. /\ a \o b \in Seq(Owner) /\ Len(a \o b) = Len(s) - 1
      /\ \A j \in 1 .. Len(s) - 1 : (a \o b)[j] = IF j < i THEN a[j] ELSE b[j - (i - 1)]
  <2>1. a \o b \in Seq(Owner) /\ Len(a \o b) = Len(a) + Len(b)
    <3>1. a \in Seq(Owner) /\ b \in Seq(Owner)
      BY <1>1, <1>2
    <3>2. a \o b \in Seq(Owner)
      BY <3>1
    <3>3. Len(a \o b) = Len(a) + Len(b)
      BY <3>1
    <3> QED BY <3>2, <3>3
  <2>2. \A j \in 1 .. Len(a) + Len(b) : (a \o b)[j] = IF j <= Len(a) THEN a[j] ELSE b[j - Len(a)]
    BY <1>1, <1>2
  <2>3. Len(a) + Len(b) = Len(s) - 1
    BY <1>1, <1>2, <1>4
  <2>4. \A j \in 1 .. Len(s) - 1 : j <= i - 1 <=> j < i
    BY <1>4
  <2> QED BY <1>1, <2>1, <2>2, <2>3, <2>4
<1>6. ASSUME NEW j \in 1 .. Len(s) - 1
      PROVE  (a \o b)[j] = IF j < i THEN s[j] ELSE s[j + 1]
  <2>1. CASE j < i
    BY <2>1, <1>1, <1>5
  <2>2. CASE ~(j < i)
    <3>1. b[j - (i - 1)] = s[(j - (i - 1)) + i]
      BY <2>2, <1>2, <1>4
    <3>2. (j - (i - 1)) + i = j + 1
      BY <1>4
    <3> QED BY <2>2, <3>1, <3>2, <1>5
  <2> QED BY <2>1, <2>2
<1> QED BY <1>3, <1>5, <1>6

(* Removing an owner leaves the list as it is or one shorter.              *)
LEMMA WithoutOwnerType ==
    ASSUME NEW p, ownerList \in Seq(Owner)
    PROVE  WithoutOwner(p) \in Seq(Owner)
<1>1. CASE OwnedBy(p) = {}
  BY <1>1 DEF WithoutOwner
<1>2. CASE OwnedBy(p) # {}
  BY <1>2, FirstOwned, RemoveAtFacts DEF WithoutOwner
<1> QED BY <1>1, <1>2

----------------------------------------------------------------------------
(* Types.                                                                  *)

(* A lock call asks for a mode, and the count of shared locks is positive  *)
(* while their flag stands, which the decrement of Fsio_Unlock relies on.  *)
Calls == [cmd : {"NONE", "LOCK", "UNLOCK", "CLOSE"}, mode : Modes \cup {None},
          block : BOOLEAN]
LockCallsHaveModes == \A p \in Procs : op[p].cmd = "LOCK" => op[p].mode \in Modes
SharedAreCounted == "SHARED" \in flags => numShared > 0

LockTypes ==
    /\ flags \subseteq Modes /\ numShared \in Nat /\ ownerList \in Seq(Owner)
    /\ cleaned \subseteq Clients
    /\ op \in [Procs -> Calls]
    /\ holds \in [Procs -> Modes \cup {None}]
    /\ breached \in BOOLEAN /\ locks \in Nat
    /\ LockCallsHaveModes /\ SharedAreCounted

LEMMA InitLockTypes == LocksAssumption /\ Init => LockTypes
<1> SUFFICES ASSUME LocksAssumption, Init PROVE LockTypes
  OBVIOUS
<1>1. NoOp \in Calls /\ NoOp.cmd # "LOCK"
  BY DEF NoOp, Calls
<1>2. op \in [Procs -> Calls] /\ \A p \in Procs : op[p] = NoOp
  BY <1>1 DEF Init
<1>3. <<>> \in Seq(Owner)
  OBVIOUS
<1> QED BY <1>1, <1>2, <1>3 DEF Init, LockTypes, LockCallsHaveModes, SharedAreCounted

LEMMA LockKeepsTypes ==
    ASSUME LocksAssumption, LockTypes, NEW p \in Procs, Lock(p)
    PROVE  LockTypes'
<1>1. /\ UNCHANGED <<cleaned, op, holds, locks>>
      /\ breached' \in BOOLEAN
  BY DEF Lock, Belated, LockTypes
<1>2. op[p].mode \in Modes
  BY DEF Lock, Executes, LockTypes, LockCallsHaveModes
<1>3. \/ UNCHANGED <<flags, numShared, ownerList>>
      \/ /\ flags' = flags \cup {op[p].mode}
         /\ numShared' = numShared + Counted(op[p].mode)
         /\ ownerList' = Append(ownerList, [proc |-> p, mode |-> op[p].mode])
  BY DEF Lock, lockVars
<1>4. CASE UNCHANGED <<flags, numShared, ownerList>>
  BY <1>1, <1>4 DEF LockTypes, LockCallsHaveModes, SharedAreCounted
<1>5. CASE /\ flags' = flags \cup {op[p].mode}
           /\ numShared' = numShared + Counted(op[p].mode)
           /\ ownerList' = Append(ownerList, [proc |-> p, mode |-> op[p].mode])
  <2>1. flags' \subseteq Modes
    BY <1>5, <1>2 DEF LockTypes
  <2>2. numShared' \in Nat /\ SharedAreCounted'
    BY <1>5, <1>2 DEF LockTypes, SharedAreCounted, Counted
  <2>3. ownerList' \in Seq(Owner)
    <3>1. [proc |-> p, mode |-> op[p].mode] \in Owner
      BY <1>2 DEF Owner
    <3> QED BY <3>1, <1>5 DEF LockTypes
  <2> QED BY <1>1, <2>1, <2>2, <2>3 DEF LockTypes, LockCallsHaveModes
<1> QED BY <1>3, <1>4, <1>5

LEMMA UnlockKeepsTypes ==
    ASSUME LocksAssumption, LockTypes, NEW p \in Procs, Unlock(p)
    PROVE  LockTypes'
<1>1. /\ UNCHANGED <<cleaned, op, holds, locks>>
      /\ breached' \in BOOLEAN
  BY DEF Unlock, Belated, LockTypes
<1>2. CASE UnlockExclusive(p)
  <2>1. flags' \subseteq Modes /\ numShared' \in Nat /\ SharedAreCounted'
    BY <1>2 DEF UnlockExclusive, LockTypes, SharedAreCounted
  <2>2. ownerList' \in Seq(Owner)
    <3>1. CASE OwnedBy(p) # {} \/ ownerList = <<>>
      BY <3>1, <1>2, WithoutOwnerType DEF UnlockExclusive, LockTypes
    <3>2. CASE ~(OwnedBy(p) # {} \/ ownerList = <<>>)
      BY <3>2, <1>2 DEF UnlockExclusive, LockTypes
    <3> QED BY <3>1, <3>2
  <2> QED BY <1>1, <2>1, <2>2 DEF LockTypes, LockCallsHaveModes
<1>3. CASE UnlockShared(p)
  <2>1. flags' \subseteq Modes /\ numShared' \in Nat /\ SharedAreCounted'
    BY <1>3 DEF UnlockShared, LockTypes, SharedAreCounted
  <2>2. ownerList' \in Seq(Owner)
    BY <1>3, WithoutOwnerType DEF UnlockShared, LockTypes
  <2> QED BY <1>1, <2>1, <2>2 DEF LockTypes, LockCallsHaveModes
<1>4. CASE UNCHANGED <<flags, numShared, ownerList>>
  BY <1>1, <1>4 DEF LockTypes, LockCallsHaveModes, SharedAreCounted
<1> QED BY <1>2, <1>3, <1>4 DEF Unlock, lockVars

LEMMA CloseKeepsTypes ==
    ASSUME LocksAssumption, LockTypes, NEW p \in Procs, LockClose(p)
    PROVE  LockTypes'
<1>1. UNCHANGED <<cleaned, op, holds, locks, numShared>>
  BY DEF LockClose, lockVars
<1>2. /\ flags' \subseteq flags
      /\ ownerList' \in {ownerList, WithoutOwner(p)}
      /\ breached' \in BOOLEAN
  BY DEF LockClose, lockVars, LockTypes
<1>3. ownerList' \in Seq(Owner)
  BY <1>2, WithoutOwnerType DEF LockTypes
<1> QED BY <1>1, <1>2, <1>3 DEF LockTypes, LockCallsHaveModes, SharedAreCounted

LEMMA RemoveClientKeepsTypes ==
    ASSUME LocksAssumption, LockTypes, NEW c \in Clients, RemoveClient(c)
    PROVE  LockTypes'
<1>1. /\ UNCHANGED <<op, holds, locks, numShared>>
      /\ flags' \subseteq flags
      /\ ownerList' = WithoutClient(ownerList, c)
      /\ breached' \in BOOLEAN
      /\ cleaned' = cleaned \cup {c}
  BY DEF RemoveClient, LockTypes
<1>2. ownerList' \in Seq(Owner)
  BY <1>1, WithoutClientFacts DEF LockTypes
<1> QED BY <1>1, <1>2 DEF LockTypes, LockCallsHaveModes, SharedAreCounted

(* The other steps leave the lock state of the file alone.                 *)
LEMMA OthersKeepTypes ==
    ASSUME LocksAssumption, LockTypes, UNCHANGED lockVars,
           breached' = breached, cleaned' \subseteq Clients, locks' \in Nat,
           \/ UNCHANGED op
           \/ \E p \in Procs, o \in Calls :
                  op' = [op EXCEPT ![p] = o] /\ (o.cmd = "LOCK" => o.mode \in Modes),
           holds' \in [Procs -> Modes \cup {None}]
    PROVE  LockTypes'
<1>1. op' \in [Procs -> Calls] /\ LockCallsHaveModes'
  <2>1. CASE UNCHANGED op
    BY <2>1 DEF LockTypes, LockCallsHaveModes
  <2>2. ASSUME NEW p \in Procs, NEW o \in Calls,
               op' = [op EXCEPT ![p] = o], o.cmd = "LOCK" => o.mode \in Modes
        PROVE  op' \in [Procs -> Calls] /\ LockCallsHaveModes'
    BY <2>2 DEF LockTypes, LockCallsHaveModes
  <2> QED BY <2>1, <2>2
<1> QED BY <1>1 DEF LockTypes, SharedAreCounted, lockVars

LEMMA NoOpIsACall == LocksAssumption => NoOp \in Calls /\ NoOp.cmd # "LOCK"
BY DEF NoOp, Calls

LEMMA StepKeepsTypes ==
    ASSUME LocksAssumption, LockTypes, [Next]_vars
    PROVE  LockTypes'
<1>0. /\ breached \in BOOLEAN /\ cleaned \subseteq Clients /\ locks \in Nat
      /\ holds \in [Procs -> Modes \cup {None}]
  BY DEF LockTypes
<1>1. CASE UNCHANGED vars
  BY <1>1, <1>0, OthersKeepTypes DEF vars
<1>2. ASSUME NEW p \in Procs, NEW m \in Modes, NEW block \in BOOLEAN, LockCall(p, m, block)
      PROVE  LockTypes'
  <2>1. [cmd |-> "LOCK", mode |-> m, block |-> block] \in Calls
    BY DEF Calls
  <2> DEFINE o == [cmd |-> "LOCK", mode |-> m, block |-> block]
  <2>2. o \in Calls /\ o.mode \in Modes /\ op' = [op EXCEPT ![p] = o]
    BY <2>1, <1>2 DEF LockCall
  <2>3. locks' \in Nat /\ UNCHANGED <<lockVars, breached, cleaned, holds>>
    BY <1>2, <1>0 DEF LockCall
  <2> HIDE DEF o
  <2> QED BY <1>0, <2>2, <2>3, OthersKeepTypes
<1>3. ASSUME NEW p \in Procs, NEW cmd \in {"UNLOCK", "CLOSE"}, ReleaseCall(p, cmd)
      PROVE  LockTypes'
  <2>1. [cmd |-> cmd, mode |-> holds[p], block |-> FALSE] \in Calls
    BY <1>0 DEF Calls
  <2>2. holds' \in [Procs -> Modes \cup {None}]
    BY <1>3, <1>0 DEF ReleaseCall
  <2> DEFINE o == [cmd |-> cmd, mode |-> holds[p], block |-> FALSE]
  <2>3. o \in Calls /\ o.cmd # "LOCK" /\ op' = [op EXCEPT ![p] = o]
    BY <2>1, <1>3 DEF ReleaseCall
  <2>4. UNCHANGED <<lockVars, breached, cleaned, locks>>
    BY <1>3 DEF ReleaseCall
  <2> HIDE DEF o
  <2> QED BY <1>0, <2>2, <2>3, <2>4, OthersKeepTypes
<1>4. ASSUME NEW p \in Procs, ServerStep(p) PROVE LockTypes'
  BY <1>4, <1>0, LockKeepsTypes, UnlockKeepsTypes, CloseKeepsTypes, OthersKeepTypes
     DEF ServerStep, NotifyWaiter
<1>5. ASSUME NEW p \in Procs, ClientStep(p) \/ AbortWait(p) PROVE LockTypes'
  <2>1. holds' \in [Procs -> Modes \cup {None}]
    <3>1. op[p].mode \in Modes \cup {None}
      BY DEF LockTypes, Calls
    <3>2. UNCHANGED holds \/ holds' = [holds EXCEPT ![p] = op[p].mode]
      BY <1>5 DEF ClientStep, RpcIOControl, Return, ProcWait, Retry, AbortWait
    <3> QED BY <3>1, <3>2, <1>0
  <2>2. UNCHANGED <<lockVars, breached, cleaned, locks>>
    BY <1>5 DEF ClientStep, RpcIOControl, Return, ProcWait, Retry, AbortWait
  <2>3. UNCHANGED op \/ op' = [op EXCEPT ![p] = NoOp]
    BY <1>5 DEF ClientStep, RpcIOControl, Return, ProcWait, Retry, AbortWait
  <2> QED BY <1>0, <2>1, <2>2, <2>3, NoOpIsACall, OthersKeepTypes
<1>6. CASE NotifyDone
  BY <1>6, <1>0, OthersKeepTypes DEF NotifyDone
<1>7. ASSUME NEW c \in Clients, Crash(c) PROVE LockTypes'
  <2>1. holds' \in [Procs -> Modes \cup {None}]
    BY <1>7, <1>0 DEF Crash
  <2> QED BY <1>7, <1>0, <2>1, OthersKeepTypes DEF Crash
<1>8. ASSUME NEW c \in Clients, RemoveClientSkips(c) PROVE LockTypes'
  BY <1>8, <1>0, OthersKeepTypes DEF RemoveClientSkips
<1>9. ASSUME NEW c \in Clients, RemoveClient(c) PROVE LockTypes'
  BY <1>9, RemoveClientKeepsTypes
<1> QED BY <1>1, <1>2, <1>3, <1>4, <1>5, <1>6, <1>7, <1>8, <1>9 DEF Next

(* The lock state of a file and the calls of its users keep their types in *)
(* every state that Fsio_Lock, Fsio_Unlock, Fsio_LockClose and             *)
(* Fsio_LockClientKill can lead to; the count of shared locks never falls  *)
(* below zero.                                                             *)
THEOREM LockTypesCorrect == LocksAssumption /\ Spec => []TypeOK
<1> SUFFICES ASSUME LocksAssumption PROVE Spec => []TypeOK
  OBVIOUS
<1>1. Init => LockTypes
  BY InitLockTypes
<1>2. LockTypes /\ [Next]_vars => LockTypes'
  BY StepKeepsTypes
<1>3. WInv /\ LockTypes => TypeOK
  BY DEF WInv, WaitTypes, LockTypes, Calls, TypeOK
<1>4. Spec => []WInv
  BY WaitInvariant
<1> QED BY <1>1, <1>2, <1>3, <1>4, PTL DEF Spec

----------------------------------------------------------------------------
(* Where the calls are.                                                    *)

(* A process that has been told it has a lock is between two calls.        *)
HoldersIdle == \A p \in Procs : holds[p] # None => pc[p] = "idle" /\ up[Host[p]]

(* The server cleans up after clients that are down.                       *)
CleanedAreDown == \A c \in cleaned : up[c] = FALSE

(* The process whose call notifies the waiters awaits the end of it.       *)
NotifierIsServed == \A p \in Procs : handle = p => pc[p] = "serving"

(* Only calls for a lock wait and are tried again.                         *)
WaitersWantLocks ==
    \A p \in Procs : pc[p] \in {"told", "blocked", "awake"} => op[p].cmd = "LOCK"

CallInv == HoldersIdle /\ CleanedAreDown /\ NotifierIsServed /\ WaitersWantLocks

LEMMA InitCallInv == LocksAssumption /\ Init => CallInv
<1> SUFFICES ASSUME LocksAssumption, Init PROVE CallInv
  OBVIOUS
<1>1. \A p \in Procs : handle # p
  BY DEF Init, LocksAssumption
<1> QED BY <1>1 DEF Init, CallInv, HoldersIdle, CleanedAreDown, NotifierIsServed, WaitersWantLocks

(* A step of one process, that no longer holds what it did not hold before. *)
LEMMA OneMoves ==
    ASSUME LocksAssumption, WInv, LockTypes, CallInv, NEW p \in Procs, NEW w,
           pc' = [pc EXCEPT ![p] = w],
           \A q \in Procs \ {p} : op'[q] = op[q] /\ holds'[q] = holds[q],
           holds'[p] # None => w = "idle" /\ up[Host[p]],
           w \in {"told", "blocked", "awake"} => op'[p].cmd = "LOCK",
           pc[p] = "serving" => handle' # p,
           handle' \in Procs => handle' = handle \/ (handle' = p /\ w = "serving"),
           UNCHANGED up,
           cleaned' = cleaned
    PROVE  CallInv'
<1>1. \A q \in Procs : pc'[q] = IF q = p THEN w ELSE pc[q]
  BY DEF WInv, WaitTypes
<1>2. HoldersIdle'
  BY <1>1 DEF CallInv, HoldersIdle
<1>3. CleanedAreDown'
  BY DEF CallInv, CleanedAreDown
<1>4. NotifierIsServed'
  BY <1>1 DEF CallInv, NotifierIsServed
<1>5. WaitersWantLocks'
  BY <1>1 DEF CallInv, WaitersWantLocks
<1> QED BY <1>2, <1>3, <1>4, <1>5 DEF CallInv

LEMMA ClientsKeepCalls ==
    ASSUME LocksAssumption, WInv, LockTypes, CallInv, NEW p \in Procs,
           \/ \E m \in Modes, block \in BOOLEAN : LockCall(p, m, block)
           \/ \E cmd \in {"UNLOCK", "CLOSE"} : ReleaseCall(p, cmd)
           \/ ClientStep(p)
           \/ AbortWait(p)
    PROVE  CallInv'
<1>1. pc[p] \notin {"dead", "verified", "serving"}
  BY DEF LockCall, ReleaseCall, ClientStep, RpcIOControl, Return, ProcWait, Retry, AbortWait
<1>2. up[Host[p]]
  BY <1>1, RunningIsUp
<1>3. PICK w \in {"idle", "call", "verified", "blocked"} :
         /\ pc' = [pc EXCEPT ![p] = w]
         /\ w = "blocked" => pc[p] = "told" /\ UNCHANGED op
         /\ holds'[p] # None => w = "idle"
  <2>1. holds[p] # None => pc[p] = "idle"
    BY DEF CallInv, HoldersIdle
  <2>2. CASE \E m \in Modes, block \in BOOLEAN : LockCall(p, m, block)
    BY <2>2 DEF LockCall
  <2>3. CASE \E cmd \in {"UNLOCK", "CLOSE"} : ReleaseCall(p, cmd)
    BY <2>3 DEF ReleaseCall, LockTypes
  <2>4. CASE ClientStep(p) \/ AbortWait(p)
    BY <2>1, <2>4 DEF ClientStep, RpcIOControl, Return, ProcWait, Retry, AbortWait
  <2> QED BY <2>2, <2>3, <2>4
<1>4. UNCHANGED <<handle, cleaned, up>>
  BY DEF LockCall, ReleaseCall, ClientStep, RpcIOControl, Return, ProcWait, Retry, AbortWait
<1>5. \A q \in Procs \ {p} : op'[q] = op[q] /\ holds'[q] = holds[q]
  <2>1. UNCHANGED op \/ \E o : op' = [op EXCEPT ![p] = o]
    BY DEF LockCall, ReleaseCall, ClientStep, RpcIOControl, Return, ProcWait, Retry, AbortWait
  <2>2. UNCHANGED holds \/ \E h : holds' = [holds EXCEPT ![p] = h]
    BY DEF LockCall, ReleaseCall, ClientStep, RpcIOControl, Return, ProcWait, Retry, AbortWait
  <2> QED BY <2>1, <2>2 DEF LockTypes
<1>6. handle # p
  BY <1>1 DEF CallInv, NotifierIsServed
<1>7. w \in {"told", "blocked", "awake"} => op'[p].cmd = "LOCK"
  BY <1>3 DEF CallInv, WaitersWantLocks
<1> QED BY <1>1, <1>2, <1>3, <1>4, <1>5, <1>6, <1>7, OneMoves

LEMMA ServerKeepsCalls ==
    ASSUME LocksAssumption, WInv, LockTypes, CallInv, NEW p \in Procs,
           Lock(p) \/ Unlock(p) \/ LockClose(p)
    PROVE  CallInv'
<1>1. pc[p] \in {"call", "verified"} /\ handle = None
  BY DEF Lock, Unlock, LockClose, Executes, Closes
<1>2. holds[p] = None /\ p # None
  BY <1>1 DEF CallInv, HoldersIdle, LocksAssumption
<1>3. UNCHANGED <<cleaned, op, holds, up>>
  BY DEF Lock, Unlock, LockClose
<1>4. PICK w \in {"granted", "told", "dead", "done", "serving"} :
         /\ pc' = [pc EXCEPT ![p] = w]
         /\ w = "told" => op[p].cmd = "LOCK"
         /\ handle' = handle \/ (handle' = p /\ w = "serving")
  BY DEF Lock, Unlock, LockClose, Executes, To, Serving, StartNotify
<1>5. None \notin Procs
  BY DEF LocksAssumption
<1> QED BY <1>1, <1>2, <1>3, <1>4, <1>5, OneMoves

LEMMA NotifiesKeepCalls ==
    ASSUME LocksAssumption, WInv, LockTypes, CallInv,
           NotifyDone \/ \E q \in Procs : NotifyWaiter(q)
    PROVE  CallInv'
<1>1. CASE NotifyDone
  <2>1. handle' = None /\ None \notin Procs /\ UNCHANGED <<cleaned, op, holds, up>>
    BY <1>1 DEF NotifyDone, LocksAssumption
  <2>2. CASE handle \in Procs
    <3>1. PICK w \in {"done", "dead"} : pc' = [pc EXCEPT ![handle] = w]
      BY <1>1, <2>2 DEF NotifyDone, To
    <3>2. pc[handle] = "serving" /\ holds[handle] = None
      BY <2>2 DEF CallInv, NotifierIsServed, HoldersIdle
    <3> QED BY <2>1, <2>2, <3>1, <3>2, OneMoves
  <2>3. CASE handle \notin Procs
    <3>1. UNCHANGED pc
      BY <1>1, <2>3 DEF NotifyDone
    <3> QED BY <2>1, <3>1 DEF CallInv, HoldersIdle, CleanedAreDown, NotifierIsServed, WaitersWantLocks
  <2> QED BY <2>2, <2>3
<1>2. ASSUME NEW q \in Procs, NotifyWaiter(q) PROVE CallInv'
  <2>1. UNCHANGED <<handle, cleaned, op, holds, up>>
    BY <1>2 DEF NotifyWaiter
  <2>2. \A r \in Procs : pc'[r] = pc[r] \/ (pc[r] = "blocked" /\ pc'[r] = "awake")
    BY <1>2 DEF NotifyWaiter, ProcWakeup, WInv, WaitTypes
  <2> QED BY <2>1, <2>2 DEF CallInv, HoldersIdle, CleanedAreDown, NotifierIsServed, WaitersWantLocks
<1> QED BY <1>1, <1>2

LEMMA CrashesKeepCalls ==
    ASSUME LocksAssumption, WInv, LockTypes, CallInv, NEW c \in Clients,
           Crash(c) \/ RemoveClientSkips(c) \/ RemoveClient(c)
    PROVE  CallInv'
<1>1. CASE Crash(c)
  <2>1. UNCHANGED <<handle, cleaned, op>>
    BY <1>1 DEF Crash
  <2>2. \A p \in Procs :
           /\ pc'[p] = IF Host[p] = c /\ pc[p] \notin {"verified", "serving"} THEN "dead" ELSE pc[p]
           /\ holds'[p] = IF Host[p] = c THEN None ELSE holds[p]
    BY <1>1 DEF Crash
  <2>3. \A d \in Clients : up'[d] = IF d = c THEN FALSE ELSE up[d]
    BY <1>1 DEF Crash, WInv, WaitTypes
  <2>4. cleaned \subseteq Clients /\ \A p \in Procs : Host[p] \in Clients
    BY DEF LockTypes, LocksAssumption
  <2>5. HoldersIdle'
    BY <2>2, <2>3, <2>4 DEF CallInv, HoldersIdle
  <2>6. CleanedAreDown'
    BY <2>1, <2>3, <2>4 DEF CallInv, CleanedAreDown
  <2> QED BY <2>1, <2>2, <2>5, <2>6 DEF CallInv, NotifierIsServed, WaitersWantLocks
<1>2. CASE RemoveClientSkips(c) \/ RemoveClient(c)
  <2>1. /\ UNCHANGED <<pc, op, holds, up>>
        /\ cleaned' = cleaned \cup {c} /\ up[c] = FALSE
        /\ handle' \in {handle, c, None}
    BY <1>2 DEF RemoveClientSkips, RemoveClient, WInv, WaitTypes
  <2>2. c \notin Procs /\ None \notin Procs
    BY DEF LocksAssumption
  <2> QED BY <2>1, <2>2 DEF CallInv, HoldersIdle, CleanedAreDown, NotifierIsServed, WaitersWantLocks
<1> QED BY <1>1, <1>2

LEMMA StepKeepsCalls ==
    ASSUME LocksAssumption, WInv, LockTypes, CallInv, [Next]_vars
    PROVE  CallInv'
<1>1. CASE UNCHANGED vars
  BY <1>1 DEF vars, CallInv, HoldersIdle, CleanedAreDown, NotifierIsServed, WaitersWantLocks
<1>2. ASSUME NEW p \in Procs, ServerStep(p) PROVE CallInv'
  BY <1>2, ServerKeepsCalls, NotifiesKeepCalls DEF ServerStep
<1>3. ASSUME NEW p \in Procs, ClientStep(p) \/ AbortWait(p) PROVE CallInv'
  BY <1>3, ClientsKeepCalls
<1>4. ASSUME NEW p \in Procs,
             \/ \E m \in Modes, block \in BOOLEAN : LockCall(p, m, block)
             \/ \E cmd \in {"UNLOCK", "CLOSE"} : ReleaseCall(p, cmd)
      PROVE  CallInv'
  BY <1>4, ClientsKeepCalls
<1>5. CASE NotifyDone
  BY <1>5, NotifiesKeepCalls
<1>6. ASSUME NEW c \in Clients, Crash(c) \/ RemoveClientSkips(c) \/ RemoveClient(c) PROVE CallInv'
  BY <1>6, CrashesKeepCalls
<1> QED BY <1>1, <1>2, <1>3, <1>4, <1>5, <1>6 DEF Next

----------------------------------------------------------------------------
(* The owner list.                                                         *)

Listed(p, m) == \E i \in 1 .. Len(ownerList) : ownerList[i] = [proc |-> p, mode |-> m]

(* Process p has lock m, as it knows, or the grant is on its way to it, or  *)
(* its release on the way to the server.                                   *)
HasLock(p, m) ==
    \/ holds[p] = m
    \/ pc[p] = "granted" /\ op[p].mode = m
    \/ pc[p] \in {"call", "verified"} /\ op[p].cmd \in {"UNLOCK", "CLOSE"} /\ op[p].mode = m

(* The flags are the modes of the list, an exclusive owner is alone on it,  *)
(* shared ones are counted, and nobody is on it twice.                      *)
OwnersSound ==
    /\ \A m \in Modes : m \in flags <=> \E p \in Procs : Listed(p, m)
    /\ \A p \in Procs : Listed(p, "EXCLUSIVE") => Len(ownerList) = 1
    /\ numShared = IF "SHARED" \in flags THEN Len(ownerList) ELSE 0
    /\ \A i, j \in 1 .. Len(ownerList) : ownerList[i].proc = ownerList[j].proc => i = j

(* Who has a lock is on the list, until its client is cleaned up after.    *)
HoldersListed ==
    \A p \in Procs, m \in Modes : Host[p] \notin cleaned /\ HasLock(p, m) => Listed(p, m)

(* Who is on the list has the lock, unless it died.                        *)
ListedHold == \A p \in Procs, m \in Modes : Listed(p, m) => HasLock(p, m) \/ pc[p] = "dead"

OwnersInv == ~breached => OwnersSound /\ HoldersListed /\ ListedHold

LEMMA InitOwners == LocksAssumption /\ Init => OwnersInv
<1> SUFFICES ASSUME LocksAssumption, Init PROVE OwnersInv
  OBVIOUS
<1>1. Len(ownerList) = 0 /\ \A p, m : ~Listed(p, m)
  BY DEF Init, Listed
<1>2. \A p \in Procs, m \in Modes : ~HasLock(p, m)
  BY DEF Init, HasLock, NoOp, LocksAssumption, Modes
<1>3. OwnersSound
  BY <1>1 DEF Init, OwnersSound
<1> QED BY <1>1, <1>2, <1>3 DEF OwnersInv, HoldersListed, ListedHold

(* Steps that leave the lock state alone: nobody comes to have a lock, and *)
(* who is listed goes on to have it, or dies.                              *)
LEMMA SameOwners ==
    ASSUME OwnersInv, UNCHANGED lockVars,
           breached => breached',
           cleaned \subseteq cleaned',
           \A q \in Procs, m \in Modes :
              Host[q] \notin cleaned' /\ HasLock(q, m)' => HasLock(q, m),
           \A q \in Procs, m \in Modes :
              ~breached' /\ Listed(q, m) /\ (HasLock(q, m) \/ pc[q] = "dead")
                 => HasLock(q, m)' \/ pc'[q] = "dead"
    PROVE  OwnersInv'
<1> SUFFICES ASSUME ~breached' PROVE OwnersSound' /\ HoldersListed' /\ ListedHold'
  BY DEF OwnersInv
<1>1. OwnersSound /\ HoldersListed /\ ListedHold
  BY DEF OwnersInv
<1>2. \A q, m : Listed(q, m)' <=> Listed(q, m)
  BY DEF Listed, lockVars
<1>3. OwnersSound'
  BY <1>1, <1>2 DEF OwnersSound, lockVars
<1>4. HoldersListed'
  BY <1>1, <1>2 DEF HoldersListed
<1>5. ListedHold'
  BY <1>1, <1>2 DEF ListedHold
<1> QED BY <1>3, <1>4, <1>5

(* The owner that OwnedBy finds, and that it is the only one of its process. *)
LEMMA TheOwner ==
    ASSUME LockTypes, OwnersSound, NEW p \in Procs, NEW m \in Modes, Listed(p, m)
    PROVE  /\ OwnedBy(p) # {}
           /\ First(OwnedBy(p)) \in 1 .. Len(ownerList)
           /\ ownerList[First(OwnedBy(p))] = [proc |-> p, mode |-> m]
<1>1. PICK i \in 1 .. Len(ownerList) : ownerList[i] = [proc |-> p, mode |-> m]
  BY DEF Listed
<1>2. i \in OwnedBy(p)
  BY <1>1 DEF OwnedBy
<1> DEFINE f == First(OwnedBy(p))
<1>3. f \in 1 .. Len(ownerList) /\ ownerList[f].proc = p
  BY <1>2, FirstOwned DEF LockTypes
<1>4. f = i
  BY <1>1, <1>3 DEF OwnersSound
<1> QED BY <1>1, <1>2, <1>3, <1>4

LEMMA OwnedIsListed ==
    ASSUME LockTypes, NEW p, OwnedBy(p) # {}
    PROVE  p \in Procs /\ \E m \in Modes : Listed(p, m) /\ ownerList[First(OwnedBy(p))].mode = m
<1> DEFINE f == First(OwnedBy(p))
<1>1. f \in 1 .. Len(ownerList) /\ ownerList[f].proc = p
  BY FirstOwned DEF LockTypes
<1>2. ownerList[f] \in Owner
  BY <1>1 DEF LockTypes
<1> HIDE DEF f
<1>3. ownerList[f] = [proc |-> p, mode |-> ownerList[f].mode] /\ ownerList[f].mode \in Modes /\ p \in Procs
  BY <1>1, <1>2 DEF Owner
<1>4. Listed(p, ownerList[f].mode)
  BY <1>1, <1>3 DEF Listed
<1> QED BY <1>3, <1>4 DEF f

(* An exclusive owner is the only one.                                     *)
LEMMA ExclusiveAlone ==
    ASSUME LockTypes, OwnersSound, NEW p \in Procs, Listed(p, "EXCLUSIVE")
    PROVE  /\ flags = {"EXCLUSIVE"} /\ numShared = 0 /\ Len(ownerList) = 1
           /\ ownerList[1] = [proc |-> p, mode |-> "EXCLUSIVE"]
           /\ \A q, m : Listed(q, m) => q = p /\ m = "EXCLUSIVE"
<1>1. Len(ownerList) = 1
  BY DEF OwnersSound
<1>2. ownerList[1] = [proc |-> p, mode |-> "EXCLUSIVE"]
  BY <1>1 DEF Listed
<1>3. \A q, m : Listed(q, m) => q = p /\ m = "EXCLUSIVE"
  <2> SUFFICES ASSUME NEW q, NEW m, Listed(q, m) PROVE q = p /\ m = "EXCLUSIVE"
    OBVIOUS
  <2>1. ownerList[1] = [proc |-> q, mode |-> m]
    BY <1>1 DEF Listed
  <2>2. ownerList[1].proc = q /\ ownerList[1].mode = m /\ ownerList[1].proc = p /\ ownerList[1].mode = "EXCLUSIVE"
    BY <2>1, <1>2
  <2> QED BY <2>2
<1>4. "EXCLUSIVE" \in flags /\ "SHARED" \notin flags
  BY <1>3 DEF OwnersSound, Modes
<1>5. flags = {"EXCLUSIVE"}
  BY <1>4 DEF LockTypes, Modes
<1> QED BY <1>1, <1>2, <1>3, <1>4, <1>5 DEF OwnersSound

(* The list left empty when the exclusive owner goes.                      *)
LEMMA Emptied ==
    ASSUME Len(ownerList') = 0, flags' = {}, numShared' = 0,
           \A q \in Procs, m \in Modes : Host[q] \notin cleaned' => ~HasLock(q, m)'
    PROVE  OwnersInv'
<1>1. \A q, m : ~Listed(q, m)'
  BY DEF Listed
<1>2. OwnersSound'
  BY <1>1 DEF OwnersSound
<1> QED BY <1>1, <1>2 DEF OwnersInv, HoldersListed, ListedHold

(* One process moves and the lock state stays.                             *)
LEMMA OneMovesAmongOwners ==
    ASSUME WInv, OwnersInv, UNCHANGED lockVars, breached => breached', cleaned' = cleaned,
           NEW p \in Procs, NEW w, pc' = [pc EXCEPT ![p] = w],
           \A q \in Procs \ {p} : op'[q] = op[q] /\ holds'[q] = holds[q],
           \A m \in Modes : HasLock(p, m)' => HasLock(p, m),
           \A m \in Modes : ~breached' /\ Listed(p, m) /\ (HasLock(p, m) \/ pc[p] = "dead")
                               => HasLock(p, m)' \/ w = "dead"
    PROVE  OwnersInv'
<1>1. pc'[p] = w /\ \A q \in Procs \ {p} : pc'[q] = pc[q]
  BY DEF WInv, WaitTypes
<1>2. \A q \in Procs \ {p}, m \in Modes : HasLock(q, m)' <=> HasLock(q, m)
  BY <1>1 DEF HasLock
<1>3. \A q \in Procs, m \in Modes : Host[q] \notin cleaned' /\ HasLock(q, m)' => HasLock(q, m)
  BY <1>2
<1>4. \A q \in Procs, m \in Modes :
         ~breached' /\ Listed(q, m) /\ (HasLock(q, m) \/ pc[q] = "dead")
            => HasLock(q, m)' \/ pc'[q] = "dead"
  BY <1>1, <1>2
<1> QED BY <1>3, <1>4, SameOwners

LEMMA ClientsKeepOwners ==
    ASSUME LocksAssumption, WInv, LockTypes, CallInv, OwnersInv, NEW p \in Procs,
           \/ \E m \in Modes, block \in BOOLEAN : LockCall(p, m, block)
           \/ \E cmd \in {"UNLOCK", "CLOSE"} : ReleaseCall(p, cmd)
           \/ ClientStep(p)
           \/ AbortWait(p)
    PROVE  OwnersInv'
<1>1. UNCHANGED <<lockVars, breached, cleaned>>
  BY DEF LockCall, ReleaseCall, ClientStep, RpcIOControl, Return, ProcWait, Retry, AbortWait
<1>2. PICK w : pc' = [pc EXCEPT ![p] = w]
  BY DEF LockCall, ReleaseCall, ClientStep, RpcIOControl, Return, ProcWait, Retry, AbortWait
<1>3. pc'[p] = w
  BY <1>2 DEF WInv, WaitTypes
<1>4. \A q \in Procs \ {p} : op'[q] = op[q] /\ holds'[q] = holds[q]
  <2>1. UNCHANGED op \/ \E o : op' = [op EXCEPT ![p] = o]
    BY DEF LockCall, ReleaseCall, ClientStep, RpcIOControl, Return, ProcWait, Retry, AbortWait
  <2>2. UNCHANGED holds \/ \E h : holds' = [holds EXCEPT ![p] = h]
    BY DEF LockCall, ReleaseCall, ClientStep, RpcIOControl, Return, ProcWait, Retry, AbortWait
  <2> QED BY <2>1, <2>2 DEF LockTypes
<1>5. None \notin Modes
  BY DEF LocksAssumption, Modes
<1>6. pc[p] # "idle" => holds[p] = None
  BY DEF CallInv, HoldersIdle
<1>7. \A m \in Modes : HasLock(p, m)' <=> HasLock(p, m)
  <2>1. CASE \E m \in Modes, block \in BOOLEAN : LockCall(p, m, block)
    <3>1. holds'[p] = None /\ op'[p].cmd = "LOCK" /\ pc'[p] = "call" /\ pc[p] = "idle" /\ holds[p] = None
      BY <2>1 DEF LockCall, LockTypes, WInv, WaitTypes
    <3> QED BY <3>1, <1>5 DEF HasLock
  <2>2. CASE \E cmd \in {"UNLOCK", "CLOSE"} : ReleaseCall(p, cmd)
    <3>1. /\ holds'[p] = None /\ op'[p].cmd \in {"UNLOCK", "CLOSE"} /\ op'[p].mode = holds[p]
          /\ pc'[p] = "call" /\ pc[p] = "idle"
      BY <2>2 DEF ReleaseCall, LockTypes, WInv, WaitTypes
    <3> QED BY <3>1, <1>5 DEF HasLock
  <2>3. CASE RpcIOControl(p)
    <3>1. holds'[p] = holds[p] /\ op'[p] = op[p] /\ pc'[p] = "verified" /\ pc[p] = "call"
      BY <2>3 DEF RpcIOControl, WInv, WaitTypes
    <3> QED BY <3>1 DEF HasLock
  <2>4. CASE Return(p)
    <3>1. /\ pc'[p] = "idle" /\ pc[p] \in {"granted", "done", "told"}
          /\ holds'[p] = IF pc[p] = "granted" THEN op[p].mode ELSE holds[p]
      BY <2>4 DEF Return, WInv, WaitTypes, LockTypes
    <3> QED BY <3>1, <1>5, <1>6 DEF HasLock
  <2>5. CASE ProcWait(p) \/ Retry(p)
    <3>1. /\ holds'[p] = holds[p] /\ op'[p] = op[p] /\ pc'[p] \in {"call", "blocked"}
          /\ pc[p] \in {"told", "awake"}
      BY <2>5 DEF ProcWait, Retry, WInv, WaitTypes
    <3>2. op[p].cmd = "LOCK"
      BY <3>1 DEF CallInv, WaitersWantLocks
    <3> QED BY <3>1, <3>2 DEF HasLock
  <2>6. CASE AbortWait(p)
    <3>1. holds'[p] = holds[p] /\ pc'[p] = "idle" /\ pc[p] \in {"told", "blocked", "awake"}
      BY <2>6 DEF AbortWait, WInv, WaitTypes
    <3> QED BY <3>1 DEF HasLock
  <2> QED BY <2>1, <2>2, <2>3, <2>4, <2>5, <2>6 DEF ClientStep
<1>8. \A m \in Modes : ~breached' /\ Listed(p, m) /\ (HasLock(p, m) \/ pc[p] = "dead")
                          => HasLock(p, m)' \/ w = "dead"
  <2>1. pc[p] # "dead"
    BY DEF LockCall, ReleaseCall, ClientStep, RpcIOControl, Return, ProcWait, Retry, AbortWait
  <2> QED BY <2>1, <1>7
<1> QED BY <1>1, <1>2, <1>4, <1>7, <1>8, OneMovesAmongOwners

LEMMA NotifiesKeepOwners ==
    ASSUME LocksAssumption, WInv, LockTypes, CallInv, OwnersInv,
           NotifyDone \/ \E q \in Procs : NotifyWaiter(q)
    PROVE  OwnersInv'
<1>1. UNCHANGED <<lockVars, breached, cleaned, op, holds>>
  BY DEF NotifyDone, NotifyWaiter
<1>2. \A p \in Procs : \/ pc'[p] = pc[p]
                       \/ /\ pc[p] \in {"serving", "blocked"}
                          /\ pc'[p] \in {"done", "dead", "awake"}
  <2>1. CASE NotifyDone
    <3>1. CASE handle \in Procs
      <4>1. pc[handle] = "serving"
        BY <3>1 DEF CallInv, NotifierIsServed
      <4> QED BY <2>1, <3>1, <4>1 DEF NotifyDone, To, WInv, WaitTypes
    <3>2. CASE handle \notin Procs
      BY <2>1, <3>2 DEF NotifyDone
    <3> QED BY <3>1, <3>2
  <2>2. ASSUME NEW q \in Procs, NotifyWaiter(q)
        PROVE  \A p \in Procs : pc'[p] = pc[p] \/ (pc[p] = "blocked" /\ pc'[p] = "awake")
    BY <2>2 DEF NotifyWaiter, ProcWakeup, WInv, WaitTypes
  <2> QED BY <2>1, <2>2
<1>3. \A p \in Procs, m \in Modes : HasLock(p, m)' <=> HasLock(p, m)
  BY <1>1, <1>2 DEF HasLock
<1>4. \A p \in Procs : pc[p] = "dead" => pc'[p] = "dead"
  BY <1>2
<1> QED BY <1>1, <1>3, <1>4, SameOwners

LEMMA CrashKeepsOwners ==
    ASSUME LocksAssumption, WInv, LockTypes, CallInv, OwnersInv, NEW c \in Clients,
           Crash(c) \/ RemoveClientSkips(c)
    PROVE  OwnersInv'
<1>1. CASE Crash(c)
  <2>1. UNCHANGED <<lockVars, breached, cleaned, op>>
    BY <1>1 DEF Crash
  <2>2. \A p \in Procs :
           /\ pc'[p] = IF Host[p] = c /\ pc[p] \notin {"verified", "serving"} THEN "dead" ELSE pc[p]
           /\ holds'[p] = IF Host[p] = c THEN None ELSE holds[p]
    BY <1>1 DEF Crash
  <2>3. None \notin Modes
    BY DEF LocksAssumption, Modes
  <2>4. \A p \in Procs, m \in Modes : HasLock(p, m)' => HasLock(p, m)
    BY <2>1, <2>2, <2>3 DEF HasLock
  <2>5. \A p \in Procs : holds[p] # None => pc[p] = "idle"
    BY DEF CallInv, HoldersIdle
  <2>6. \A p \in Procs, m \in Modes : HasLock(p, m) => HasLock(p, m)' \/ pc'[p] = "dead"
    BY <2>1, <2>2, <2>3, <2>5 DEF HasLock
  <2>7. \A p \in Procs : pc[p] = "dead" => pc'[p] = "dead"
    BY <2>2
  <2> QED BY <2>1, <2>4, <2>6, <2>7, SameOwners
<1>2. CASE RemoveClientSkips(c)
  <2>1. UNCHANGED <<lockVars, breached, pc, op, holds>> /\ cleaned \subseteq cleaned'
    BY <1>2 DEF RemoveClientSkips
  <2>2. \A p \in Procs, m \in Modes : HasLock(p, m)' <=> HasLock(p, m)
    BY <2>1 DEF HasLock
  <2> QED BY <2>1, <2>2, SameOwners
<1> QED BY <1>1, <1>2

(* Every entry of the list is that of a process and a mode.                *)
LEMMA EachIsListed ==
    ASSUME LockTypes, NEW i \in 1 .. Len(ownerList)
    PROVE  /\ ownerList[i].proc \in Procs /\ ownerList[i].mode \in Modes
           /\ ownerList[i] = [proc |-> ownerList[i].proc, mode |-> ownerList[i].mode]
           /\ Listed(ownerList[i].proc, ownerList[i].mode)
<1>1. ownerList[i] \in Owner
  BY DEF LockTypes
<1>2. /\ ownerList[i].proc \in Procs /\ ownerList[i].mode \in Modes
      /\ ownerList[i] = [proc |-> ownerList[i].proc, mode |-> ownerList[i].mode]
  BY <1>1 DEF Owner
<1> QED BY <1>2 DEF Listed

(* A request is granted only next to compatible owners.                    *)
LEMMA LockKeepsOwners ==
    ASSUME LocksAssumption, WInv, LockTypes, CallInv, OwnersInv, NEW p \in Procs, Lock(p)
    PROVE  OwnersInv'
<1>0. PICK m : m = op[p].mode
  OBVIOUS
<1>1. /\ pc[p] = "verified" /\ op[p].cmd = "LOCK"
      /\ UNCHANGED <<cleaned, op, holds>>
      /\ breached' = (breached \/ Host[p] \in cleaned)
  BY DEF Lock, Executes, Belated
<1>2. holds[p] = None /\ m \in Modes /\ None \notin Modes
  BY <1>0, <1>1 DEF CallInv, HoldersIdle, LockTypes, LockCallsHaveModes, LocksAssumption, Modes
<1>3. \A k \in Modes : ~HasLock(p, k)
  BY <1>1, <1>2 DEF HasLock
<1>4. CASE ~Available(m)
  <2>1. UNCHANGED lockVars /\ \E w \in {"told", "dead"} : pc' = [pc EXCEPT ![p] = w]
    BY <1>0, <1>4 DEF Lock, To
  <2>2. PICK w \in {"told", "dead"} : pc' = [pc EXCEPT ![p] = w]
    BY <2>1
  <2>3. \A k \in Modes : ~HasLock(p, k)'
    BY <1>1, <1>2, <2>2 DEF HasLock, WInv, WaitTypes
  <2> QED BY <1>1, <1>3, <2>1, <2>2, <2>3, OneMovesAmongOwners
<1>5. CASE Available(m)
  <2> SUFFICES ASSUME ~breached' PROVE OwnersSound' /\ HoldersListed' /\ ListedHold'
    BY DEF OwnersInv
  <2>1. OwnersSound /\ HoldersListed /\ ListedHold /\ Host[p] \notin cleaned
    BY <1>1 DEF OwnersInv
  <2> DEFINE e == [proc |-> p, mode |-> m]
             n == Len(ownerList)
  <2>2. /\ flags' = flags \cup {m} /\ numShared' = numShared + Counted(m)
        /\ ownerList' = Append(ownerList, e)
        /\ \E w \in {"granted", "dead"} : pc' = [pc EXCEPT ![p] = w]
    BY <1>0, <1>5 DEF Lock, To
  <2>3. PICK w \in {"granted", "dead"} : pc' = [pc EXCEPT ![p] = w]
    BY <2>2
  <2>4. /\ n \in Nat /\ Len(ownerList') = n + 1 /\ ownerList'[n + 1] = e
        /\ \A i \in 1 .. n : ownerList'[i] = ownerList[i]
    <3>1. ownerList \in Seq(Owner) /\ e \in Owner
      BY <1>2 DEF LockTypes, Owner
    <3> HIDE DEF e
    <3> QED BY <2>2, <3>1
  <2>5. \A q \in Procs, k \in Modes : Listed(q, k)' <=> Listed(q, k) \/ (q = p /\ k = m)
    <3>1. ASSUME NEW q \in Procs, NEW k \in Modes, Listed(q, k)'
          PROVE  Listed(q, k) \/ (q = p /\ k = m)
      <4>1. PICK i \in 1 .. n + 1 : ownerList'[i] = [proc |-> q, mode |-> k]
        BY <3>1, <2>4 DEF Listed
      <4>2. CASE i \in 1 .. n
        BY <4>1, <4>2, <2>4 DEF Listed
      <4>3. CASE i = n + 1
        <5>1. [proc |-> q, mode |-> k] = e
          BY <4>1, <4>3, <2>4
        <5>2. [proc |-> q, mode |-> k].proc = e.proc /\ [proc |-> q, mode |-> k].mode = e.mode
          BY <5>1
        <5> QED BY <5>2
      <4> QED BY <4>2, <4>3, <2>4
    <3>2. ASSUME NEW q \in Procs, NEW k \in Modes, Listed(q, k)
          PROVE  Listed(q, k)'
      <4>1. PICK i \in 1 .. n : ownerList[i] = [proc |-> q, mode |-> k]
        BY <3>2 DEF Listed
      <4>2. i \in 1 .. n + 1
        BY <2>4
      <4> QED BY <4>1, <4>2, <2>4 DEF Listed
    <3>3. Listed(p, m)'
      <4>1. n + 1 \in 1 .. Len(ownerList')
        BY <2>4
      <4> QED BY <4>1, <2>4 DEF Listed
    <3> QED BY <3>1, <3>2, <3>3
  <2>6. \A k \in Modes : ~Listed(p, k)
    BY <1>1, <1>3, <2>1 DEF ListedHold
  <2>7. \A q \in Procs : ~Listed(q, "EXCLUSIVE")
    BY <1>5, <2>1, <1>2 DEF Available, OwnersSound, Modes
  <2>8. m = "EXCLUSIVE" => n = 0
    <3> SUFFICES ASSUME flags = {}, n # 0 PROVE FALSE
      BY <1>5, <2>4 DEF Available
    <3>1. 1 \in 1 .. n
      BY <2>4
    <3> QED BY <3>1, EachIsListed, <2>1 DEF OwnersSound
  <2>9. OwnersSound'
    <3>1. \A k \in Modes : k \in flags' <=> \E q \in Procs : Listed(q, k)'
      BY <2>1, <2>2, <2>5 DEF OwnersSound
    <3>2. \A q \in Procs : Listed(q, "EXCLUSIVE")' => Len(ownerList') = 1
      BY <2>4, <2>5, <2>7, <2>8 DEF Modes
    <3>3. numShared' = IF "SHARED" \in flags' THEN Len(ownerList') ELSE 0
      <4>1. CASE m = "EXCLUSIVE"
        <5>1. flags = {} /\ numShared = 0
          BY <4>1, <1>5, <2>1 DEF Available, OwnersSound
        <5> QED BY <4>1, <5>1, <2>2 DEF Counted
      <4>2. CASE m = "SHARED"
        <5>1. numShared = n
          <6>1. CASE "SHARED" \in flags
            BY <6>1, <2>1 DEF OwnersSound
          <6>2. CASE "SHARED" \notin flags
            <7>1. flags = {} /\ numShared = 0
              BY <6>2, <4>2, <1>5, <2>1 DEF LockTypes, Available, Modes, OwnersSound
            <7>2. n = 0
              <8> SUFFICES ASSUME n # 0 PROVE FALSE
                OBVIOUS
              <8>1. 1 \in 1 .. n
                BY <2>4
              <8> QED BY <8>1, EachIsListed, <2>1, <7>1 DEF OwnersSound
            <7> QED BY <7>1, <7>2
          <6> QED BY <6>1, <6>2
        <5> QED BY <4>2, <5>1, <2>2, <2>4 DEF Counted
      <4> QED BY <4>1, <4>2, <1>2 DEF Modes
    <3>4. ASSUME NEW i \in 1 .. n + 1, NEW j \in 1 .. n + 1,
                 ownerList'[i].proc = ownerList'[j].proc
          PROVE  i = j
      <4>1. ASSUME NEW k \in 1 .. n, ownerList[k].proc = p PROVE FALSE
        BY <4>1, EachIsListed, <2>6
      <4>2. ownerList'[n + 1].proc = p
        BY <2>4
      <4>3. CASE i \in 1 .. n /\ j \in 1 .. n
        BY <4>3, <3>4, <2>4, <2>1 DEF OwnersSound
      <4>4. CASE i = n + 1 \/ j = n + 1
        <5>1. i \notin 1 .. n /\ j \notin 1 .. n
          BY <4>4, <4>2, <4>1, <3>4, <2>4
        <5> QED BY <5>1, <2>4
      <4> QED BY <4>3, <4>4, <2>4
    <3> HIDE DEF n
    <3> QED BY <3>1, <3>2, <3>3, <3>4, <2>4 DEF OwnersSound
  <2>10. /\ pc'[p] = w
         /\ \A q \in Procs \ {p}, k \in Modes : HasLock(q, k)' <=> HasLock(q, k)
         /\ \A q \in Procs \ {p} : pc'[q] = pc[q]
         /\ \A k \in Modes : HasLock(p, k)' <=> w = "granted" /\ k = m
    BY <1>0, <1>1, <1>2, <2>3 DEF HasLock, WInv, WaitTypes
  <2>11. HoldersListed'
    BY <1>1, <2>1, <2>5, <2>10 DEF HoldersListed
  <2>12. ListedHold'
    BY <2>1, <2>5, <2>6, <2>10 DEF ListedHold
  <2> QED BY <2>9, <2>11, <2>12
<1> QED BY <1>4, <1>5

(* The list after the exclusive owner has been taken off it.               *)
LEMMA WithoutExclusive ==
    ASSUME LockTypes, OwnersSound, NEW p \in Procs, Listed(p, "EXCLUSIVE")
    PROVE  OwnedBy(p) # {} /\ Len(WithoutOwner(p)) = 0
<1>1. Len(ownerList) = 1 /\ OwnedBy(p) # {} /\ First(OwnedBy(p)) \in 1 .. Len(ownerList)
  BY ExclusiveAlone, TheOwner DEF Modes
<1>2. Len(RemoveAt(ownerList, First(OwnedBy(p)))) = 0
  <2>1. ownerList \in Seq(Owner)
    BY DEF LockTypes
  <2>2. Len(RemoveAt(ownerList, First(OwnedBy(p)))) = Len(ownerList) - 1
    BY <1>1, <2>1, RemoveAtFacts
  <2> QED BY <1>1, <2>2
<1> QED BY <1>1, <1>2 DEF WithoutOwner

(* The list after one of the shared owners has been taken off it.          *)
LEMMA WithoutShared ==
    ASSUME LockTypes, OwnersSound, NEW p \in Procs, Listed(p, "SHARED"),
           ownerList' = WithoutOwner(p)
    PROVE  /\ Len(ownerList) > 0 /\ Len(ownerList') = Len(ownerList) - 1
           /\ \A q \in Procs, m \in Modes : Listed(q, m)' <=> q # p /\ Listed(q, m)
           /\ \A i, j \in 1 .. Len(ownerList') : ownerList'[i].proc = ownerList'[j].proc => i = j
<1>0. PICK n \in Nat : n = Len(ownerList)
  BY DEF LockTypes
<1>1. PICK f : f = First(OwnedBy(p))
  OBVIOUS
<1>2. f \in 1 .. n /\ ownerList[f] = [proc |-> p, mode |-> "SHARED"] /\ OwnedBy(p) # {}
  BY <1>0, <1>1, TheOwner DEF Modes
<1>3. /\ Len(ownerList') = n - 1
      /\ \A j \in 1 .. n - 1 : ownerList'[j] = IF j < f THEN ownerList[j] ELSE ownerList[j + 1]
  BY <1>0, <1>1, <1>2, RemoveAtFacts DEF LockTypes, WithoutOwner
<1>4. \A i, j \in 1 .. n : ownerList[i].proc = ownerList[j].proc => i = j
  BY <1>0 DEF OwnersSound
<1>5. ASSUME NEW q \in Procs, NEW m \in Modes, Listed(q, m)' PROVE q # p /\ Listed(q, m)
  <2>1. PICK j \in 1 .. n - 1 : ownerList'[j] = [proc |-> q, mode |-> m]
    BY <1>3, <1>5 DEF Listed
  <2>2. PICK k \in 1 .. n : k # f /\ ownerList[k] = [proc |-> q, mode |-> m]
    <3>1. CASE j < f
      BY <3>1, <2>1, <1>3
    <3>2. CASE ~(j < f)
      BY <3>2, <2>1, <1>3
    <3> QED BY <3>1, <3>2
  <2>3. q # p
    BY <1>2, <1>4, <2>2
  <2> QED BY <1>0, <2>2, <2>3 DEF Listed
<1>6. ASSUME NEW q \in Procs, NEW m \in Modes, q # p, Listed(q, m) PROVE Listed(q, m)'
  <2>1. PICK k \in 1 .. n : ownerList[k] = [proc |-> q, mode |-> m]
    BY <1>0, <1>6 DEF Listed
  <2>2. k # f
    BY <2>1, <1>2, <1>6
  <2>3. PICK j \in 1 .. n - 1 : ownerList'[j] = ownerList[k]
    <3>1. CASE k < f
      BY <3>1, <1>2, <1>3
    <3>2. CASE k > f
      <4>1. k - 1 \in 1 .. n - 1 /\ ~(k - 1 < f) /\ (k - 1) + 1 = k
        BY <3>2, <1>2
      <4> QED BY <4>1, <1>3
    <3> QED BY <3>1, <3>2, <2>2, <1>2
  <2> QED BY <1>3, <2>1, <2>3 DEF Listed
<1>7. ASSUME NEW i \in 1 .. n - 1, NEW j \in 1 .. n - 1, ownerList'[i].proc = ownerList'[j].proc
      PROVE  i = j
  <2>1. PICK a \in 1 .. n : a = IF i < f THEN i ELSE i + 1
    OBVIOUS
  <2>2. PICK b \in 1 .. n : b = IF j < f THEN j ELSE j + 1
    OBVIOUS
  <2>3. ownerList'[i] = ownerList[a] /\ ownerList'[j] = ownerList[b]
    BY <2>1, <2>2, <1>3
  <2>4. a = b
    BY <2>3, <1>4, <1>7
  <2> QED BY <2>1, <2>2, <2>4, <1>2
<1> QED BY <1>0, <1>2, <1>3, <1>5, <1>6, <1>7

(* An unlock takes the process off the list, and the flag with the last.   *)
LEMMA UnlockKeepsOwners ==
    ASSUME LocksAssumption, WInv, LockTypes, CallInv, OwnersInv, NEW p \in Procs, Unlock(p)
    PROVE  OwnersInv'
<1>0. PICK m : m = op[p].mode
  OBVIOUS
<1>1. /\ pc[p] = "verified" /\ op[p].cmd = "UNLOCK"
      /\ UNCHANGED <<cleaned, op, holds>>
      /\ breached' = (breached \/ Host[p] \in cleaned)
  BY DEF Unlock, Executes, Belated
<1>2. holds[p] = None /\ None \notin Modes
  BY <1>1 DEF CallInv, HoldersIdle, LocksAssumption, Modes
<1>3. \A k \in Modes : HasLock(p, k) <=> k = m
  BY <1>0, <1>1, <1>2 DEF HasLock
<1>4. PICK w \in {"serving", "done", "dead"} : pc' = [pc EXCEPT ![p] = w]
  BY DEF Unlock, To, Serving
<1>5. /\ pc'[p] = w
      /\ \A q \in Procs \ {p} : pc'[q] = pc[q]
      /\ \A k \in Modes : ~HasLock(p, k)'
      /\ \A q \in Procs \ {p}, k \in Modes : HasLock(q, k)' <=> HasLock(q, k)
  BY <1>1, <1>2, <1>4 DEF HasLock, WInv, WaitTypes
<1> SUFFICES ASSUME ~breached' PROVE OwnersInv'
  BY DEF OwnersInv
<1>6. OwnersSound /\ HoldersListed /\ ListedHold /\ Host[p] \notin cleaned
  BY <1>1 DEF OwnersInv
<1>7. m \in Modes => Listed(p, m) /\ m \in flags
  BY <1>3, <1>6 DEF HoldersListed, OwnersSound
<1>8. CASE m = "EXCLUSIVE"
  <2>1. Listed(p, "EXCLUSIVE")
    BY <1>7, <1>8 DEF Modes
  <2>2. OwnedBy(p) # {} /\ Len(WithoutOwner(p)) = 0
    BY <2>1, <1>6, WithoutExclusive
  <2>3. UnlockExclusive(p)
    BY <1>0, <1>7, <1>8 DEF Unlock, Modes
  <2>4. flags = {"EXCLUSIVE"} /\ numShared = 0 /\ \A q, k : Listed(q, k) => q = p
    BY <2>1, <1>6, ExclusiveAlone
  <2>5. Len(ownerList') = 0 /\ flags' = {} /\ numShared' = 0
    BY <2>2, <2>3, <2>4 DEF UnlockExclusive
  <2>6. \A q \in Procs, k \in Modes : Host[q] \notin cleaned' => ~HasLock(q, k)'
    BY <1>1, <1>5, <1>6, <2>4 DEF HoldersListed
  <2> QED BY <2>5, <2>6, Emptied
<1>9. CASE m = "SHARED"
  <2>1. Listed(p, "SHARED")
    BY <1>7, <1>9 DEF Modes
  <2>2. UnlockShared(p)
    BY <1>0, <1>7, <1>9 DEF Unlock, Modes
  <2>3. /\ Len(ownerList) > 0 /\ Len(ownerList') = Len(ownerList) - 1
        /\ \A q \in Procs, k \in Modes : Listed(q, k)' <=> q # p /\ Listed(q, k)
        /\ \A i, j \in 1 .. Len(ownerList') : ownerList'[i].proc = ownerList'[j].proc => i = j
    BY <2>1, <2>2, <1>6, WithoutShared DEF UnlockShared
  <2>4. \A q \in Procs : ~Listed(q, "EXCLUSIVE")
    <3> SUFFICES ASSUME NEW q \in Procs, Listed(q, "EXCLUSIVE") PROVE FALSE
      OBVIOUS
    <3>1. \A r, k : Listed(r, k) => k = "EXCLUSIVE"
      BY <1>6, ExclusiveAlone
    <3> QED BY <2>1, <3>1
  <2>5. flags = {"SHARED"} /\ numShared = Len(ownerList)
    <3>1. "SHARED" \in flags /\ "EXCLUSIVE" \notin flags
      BY <2>1, <2>4, <1>6 DEF OwnersSound, Modes
    <3>2. flags = {"SHARED"}
      BY <3>1 DEF LockTypes, Modes
    <3> QED BY <3>2, <1>6 DEF OwnersSound
  <2>6. OwnersSound'
    <3>1. numShared' = Len(ownerList') /\ flags' = IF Len(ownerList') = 0 THEN {} ELSE {"SHARED"}
      BY <2>2, <2>3, <2>5 DEF UnlockShared
    <3>2. \A q \in Procs : ~Listed(q, "EXCLUSIVE")'
      BY <2>3, <2>4 DEF Modes
    <3>3. Len(ownerList') # 0 => \E q \in Procs : Listed(q, "SHARED")'
      <4> SUFFICES ASSUME Len(ownerList') # 0 PROVE \E q \in Procs : Listed(q, "SHARED")'
        OBVIOUS
      <4>1. LockTypes'
        BY UnlockKeepsTypes
      <4>2. 1 \in 1 .. Len(ownerList')
        BY <4>1 DEF LockTypes
      <4>3. PICK q \in Procs, k \in Modes : Listed(q, k)'
        <5>1. ownerList'[1] \in Owner
          BY <4>1, <4>2 DEF LockTypes
        <5>2. /\ ownerList'[1].proc \in Procs /\ ownerList'[1].mode \in Modes
              /\ ownerList'[1] = [proc |-> ownerList'[1].proc, mode |-> ownerList'[1].mode]
          BY <5>1 DEF Owner
        <5> QED BY <4>2, <5>2 DEF Listed
      <4> QED BY <4>3, <3>2 DEF Modes
    <3>4. Len(ownerList') = 0 => \A q \in Procs, k \in Modes : ~Listed(q, k)'
      BY DEF Listed
    <3>5. \A k \in Modes : k \in flags' <=> \E q \in Procs : Listed(q, k)'
      BY <3>1, <3>2, <3>3, <3>4 DEF Modes
    <3> QED BY <2>3, <3>1, <3>2, <3>5 DEF OwnersSound
  <2>7. HoldersListed'
    BY <1>1, <1>5, <1>6, <2>3 DEF HoldersListed
  <2>8. ListedHold'
    BY <1>5, <1>6, <2>3 DEF ListedHold
  <2> QED BY <2>6, <2>7, <2>8 DEF OwnersInv
<1>10. CASE m \notin Modes
  <2>1. UNCHANGED lockVars
    BY <1>0, <1>10 DEF Unlock, Modes, lockVars
  <2>2. \A k \in Modes : ~HasLock(p, k)
    BY <1>3, <1>10
  <2>3. \A k \in Modes : Listed(p, k) => FALSE
    BY <1>1, <1>6, <2>2 DEF ListedHold
  <2>4. \A q \in Procs \ {p} : op'[q] = op[q] /\ holds'[q] = holds[q]
    BY <1>1
  <2> QED BY <1>1, <1>4, <1>5, <2>1, <2>3, <2>4, OneMovesAmongOwners
<1> QED BY <1>8, <1>9, <1>10 DEF Modes

(* A close takes away the exclusive lock, the only one it can take without *)
(* breaking a shared lock.                                                 *)
LEMMA CloseKeepsOwners ==
    ASSUME LocksAssumption, WInv, LockTypes, CallInv, OwnersInv, NEW p \in Procs, LockClose(p)
    PROVE  OwnersInv'
<1>1. /\ pc[p] = "call" /\ op[p].cmd = "CLOSE"
      /\ UNCHANGED <<cleaned, op, holds>>
      /\ breached => breached'
  <2>1. CASE OwnedBy(p) = {}
    BY <2>1 DEF LockClose, Closes
  <2>2. CASE OwnedBy(p) # {}
    <3>1. breached => breached'
      BY <2>2, Zenon DEF LockClose
    <3> QED BY <3>1 DEF LockClose, Closes
  <2> QED BY <2>1, <2>2
<1>2. holds[p] = None /\ None \notin Modes
  BY <1>1 DEF CallInv, HoldersIdle, LocksAssumption, Modes
<1>3. PICK w \in {"serving", "done", "dead"} : pc' = [pc EXCEPT ![p] = w]
  BY DEF LockClose, To, Serving
<1>4. /\ pc'[p] = w
      /\ \A q \in Procs \ {p} : pc'[q] = pc[q]
      /\ \A k \in Modes : ~HasLock(p, k)'
      /\ \A q \in Procs \ {p}, k \in Modes : HasLock(q, k)' <=> HasLock(q, k)
  BY <1>1, <1>2, <1>3 DEF HasLock, WInv, WaitTypes
<1> SUFFICES ASSUME ~breached' PROVE OwnersInv'
  BY DEF OwnersInv
<1>5. OwnersSound /\ HoldersListed /\ ListedHold
  BY <1>1 DEF OwnersInv
<1>6. CASE OwnedBy(p) = {}
  <2>1. \A k \in Modes : ~Listed(p, k)
    BY <1>5, <1>6, TheOwner
  <2>2. UNCHANGED lockVars
    BY <1>6 DEF LockClose, lockVars
  <2>3. \A q \in Procs \ {p} : op'[q] = op[q] /\ holds'[q] = holds[q]
    BY <1>1
  <2> QED BY <1>1, <1>3, <1>4, <2>1, <2>2, <2>3, OneMovesAmongOwners
<1>7. CASE OwnedBy(p) # {}
  <2>1. PICK m \in Modes : Listed(p, m) /\ ownerList[First(OwnedBy(p))].mode = m
    BY <1>7, OwnedIsListed
  <2>2. m = "EXCLUSIVE"
    BY <1>7, <2>1 DEF LockClose, Modes
  <2>3. flags = {"EXCLUSIVE"} /\ numShared = 0 /\ \A q, k : Listed(q, k) => q = p
    BY <1>5, <2>1, <2>2, ExclusiveAlone
  <2>4. Len(WithoutOwner(p)) = 0
    BY <1>5, <2>1, <2>2, WithoutExclusive
  <2>5. Len(ownerList') = 0 /\ flags' = {} /\ numShared' = 0
    BY <1>7, <2>1, <2>2, <2>3, <2>4 DEF LockClose
  <2>6. \A q \in Procs, k \in Modes : Host[q] \notin cleaned' => ~HasLock(q, k)'
    BY <1>1, <1>4, <1>5, <2>3 DEF HoldersListed
  <2> QED BY <2>5, <2>6, Emptied
<1> QED BY <1>6, <1>7

(* The cleanup takes away the exclusive lock of the client or nothing.     *)
LEMMA RemoveClientKeepsOwners ==
    ASSUME LocksAssumption, WInv, LockTypes, CallInv, OwnersInv, NEW c \in Clients,
           RemoveClient(c)
    PROVE  OwnersInv'
<1>1. /\ UNCHANGED <<pc, op, holds, numShared>>
      /\ cleaned' = cleaned \cup {c}
      /\ breached => breached'
      /\ ownerList' = WithoutClient(ownerList, c)
  BY DEF RemoveClient
<1>2. \A q \in Procs, k \in Modes : HasLock(q, k)' <=> HasLock(q, k)
  BY <1>1 DEF HasLock
<1> SUFFICES ASSUME ~breached' PROVE OwnersInv'
  BY DEF OwnersInv
<1>3. OwnersSound /\ HoldersListed /\ ListedHold
  BY <1>1 DEF OwnersInv
<1>4. flags' = flags \ {ownerList[i].mode : i \in OwnedByClient(c)}
  BY DEF RemoveClient
<1>5. CASE OwnedByClient(c) = {}
  <2>1. flags' = flags
    BY <1>4, <1>5
  <2>2. \A i \in 1 .. Len(ownerList) : Host[ownerList[i].proc] # c
    BY <1>5 DEF OwnedByClient
  <2>3. ownerList' = ownerList
    BY <1>1, <2>2, WithoutClientFacts DEF LockTypes
  <2>4. UNCHANGED lockVars
    BY <1>1, <2>1, <2>3 DEF lockVars
  <2> QED BY <1>1, <1>2, <2>4, SameOwners
<1>6. CASE OwnedByClient(c) # {}
  <2>1. PICK i \in 1 .. Len(ownerList) : i \in OwnedByClient(c) /\ Host[ownerList[i].proc] = c
    BY <1>6 DEF OwnedByClient
  <2>2. PICK p \in Procs, m \in Modes : p = ownerList[i].proc /\ m = ownerList[i].mode /\ Listed(p, m)
    BY EachIsListed
  <2>3. m = "EXCLUSIVE"
    BY <2>1, <2>2 DEF RemoveClient, Modes
  <2>4. /\ flags = {"EXCLUSIVE"} /\ numShared = 0 /\ Len(ownerList) = 1
        /\ ownerList[1] = [proc |-> p, mode |-> "EXCLUSIVE"]
        /\ \A q, k : Listed(q, k) => q = p
    BY <1>3, <2>2, <2>3, ExclusiveAlone
  <2>5. \A j \in 1 .. Len(ownerList) : Host[ownerList[j].proc] = c
    BY <2>1, <2>4
  <2>6. ownerList' = <<>>
    BY <1>1, <2>5, WithoutClientFacts DEF LockTypes
  <2>7. Len(ownerList') = 0 /\ flags' = {} /\ numShared' = 0
    BY <1>1, <1>4, <2>1, <2>2, <2>3, <2>4, <2>6
  <2>8. \A q \in Procs, k \in Modes : Host[q] \notin cleaned' => ~HasLock(q, k)'
    BY <1>1, <1>2, <1>3, <2>1, <2>2, <2>4 DEF HoldersListed
  <2> QED BY <2>7, <2>8, Emptied
<1> QED BY <1>5, <1>6

LEMMA StepKeepsOwners ==
    ASSUME LocksAssumption, WInv, LockTypes, CallInv, OwnersInv, [Next]_vars
    PROVE  OwnersInv'
<1>1. CASE UNCHANGED vars
  <2>1. UNCHANGED <<lockVars, breached, cleaned, pc, op, holds>>
    BY <1>1 DEF vars
  <2>2. \A q \in Procs, k \in Modes : HasLock(q, k)' <=> HasLock(q, k)
    BY <2>1 DEF HasLock
  <2> QED BY <2>1, <2>2, SameOwners
<1>2. ASSUME NEW p \in Procs, ServerStep(p) PROVE OwnersInv'
  BY <1>2, LockKeepsOwners, UnlockKeepsOwners, CloseKeepsOwners, NotifiesKeepOwners DEF ServerStep
<1>3. ASSUME NEW p \in Procs, ClientStep(p) \/ AbortWait(p) PROVE OwnersInv'
  BY <1>3, ClientsKeepOwners
<1>4. ASSUME NEW p \in Procs,
             \/ \E m \in Modes, block \in BOOLEAN : LockCall(p, m, block)
             \/ \E cmd \in {"UNLOCK", "CLOSE"} : ReleaseCall(p, cmd)
      PROVE  OwnersInv'
  BY <1>4, ClientsKeepOwners
<1>5. CASE NotifyDone
  BY <1>5, NotifiesKeepOwners
<1>6. ASSUME NEW c \in Clients, Crash(c) \/ RemoveClientSkips(c) PROVE OwnersInv'
  BY <1>6, CrashKeepsOwners
<1>7. ASSUME NEW c \in Clients, RemoveClient(c) PROVE OwnersInv'
  BY <1>7, RemoveClientKeepsOwners
<1> QED BY <1>1, <1>2, <1>3, <1>4, <1>5, <1>6, <1>7 DEF Next

----------------------------------------------------------------------------
(* Who holds the lock.                                                     *)

LInv == WInv /\ LockTypes /\ CallInv /\ OwnersInv

(* LInv holds in every reachable state.                                    *)
THEOREM LockInvariant == LocksAssumption /\ Spec => []LInv
<1> SUFFICES ASSUME LocksAssumption PROVE Spec => []LInv
  OBVIOUS
<1>1. Init => LInv
  BY InitWInv, InitLockTypes, InitCallInv, InitOwners DEF LInv
<1>2. LInv /\ WInv' /\ [Next]_vars => LInv'
  BY StepKeepsTypes, StepKeepsCalls, StepKeepsOwners DEF LInv
<1>3. Spec => []WInv
  BY WaitInvariant
<1> QED BY <1>1, <1>2, <1>3, PTL DEF Spec

LEMMA HolderIsListed ==
    ASSUME LocksAssumption, LInv, ~breached, NEW p \in Procs, holds[p] # None
    PROVE  holds[p] \in Modes /\ Listed(p, holds[p])
<1>1. holds[p] \in Modes
  BY DEF LInv, LockTypes
<1>2. Host[p] \notin cleaned
  BY DEF LInv, CallInv, HoldersIdle, CleanedAreDown
<1> QED BY <1>1, <1>2 DEF LInv, OwnersInv, HoldersListed, HasLock

(* A process that believes to have the exclusive lock is the only one that *)
(* believes to have any, on all workstations together, whatever is on its  *)
(* way and whoever crashes, as long as no shared lock has been broken by a *)
(* close or a crash (Fsio_Lock, Fsio_Unlock, Fsio_LockClose and            *)
(* Fsio_LockClientKill).                                                   *)
THEOREM LocksExclude == LocksAssumption /\ Spec => []MutualExclusion
<1> SUFFICES ASSUME LocksAssumption PROVE Spec => []MutualExclusion
  OBVIOUS
<1>1. LInv => MutualExclusion
  <2> SUFFICES ASSUME LInv, ~breached, NEW p \in Procs, NEW q \in Procs, p # q,
                      holds[p] = "EXCLUSIVE", holds[q] # None
               PROVE  FALSE
    BY DEF MutualExclusion
  <2>1. None # "EXCLUSIVE"
    BY DEF LocksAssumption
  <2>2. Listed(p, "EXCLUSIVE") /\ \E m : Listed(q, m)
    BY <2>1, HolderIsListed
  <2>3. OwnersSound /\ LockTypes
    BY DEF LInv, OwnersInv
  <2> QED BY <2>2, <2>3, ExclusiveAlone
<1>2. Spec => []LInv
  BY LockInvariant
<1> QED BY <1>1, <1>2, PTL

(* The flags, the count of shared locks and the list of owners, which      *)
(* Fsio_Lock and Fsio_Unlock update separately, tell the same, and whoever *)
(* believes to have a lock is on the list with it, as long as no shared    *)
(* lock has been broken by a close or a crash.                             *)
THEOREM LockStateConsistent == LocksAssumption /\ Spec => []OwnersMatchFlags
<1> SUFFICES ASSUME LocksAssumption PROVE Spec => []OwnersMatchFlags
  OBVIOUS
<1>1. LInv => OwnersMatchFlags
  <2> SUFFICES ASSUME LInv, ~breached
               PROVE  /\ flags = {ownerList[i].mode : i \in 1 .. Len(ownerList)}
                      /\ numShared = Cardinality(Owners("SHARED"))
                      /\ \A p \in Procs : holds[p] # None =>
                           [proc |-> p, mode |-> holds[p]] \in {ownerList[i] : i \in 1 .. Len(ownerList)}
    BY DEF OwnersMatchFlags
  <2>1. OwnersSound /\ LockTypes
    BY DEF LInv, OwnersInv
  <2>2. ASSUME NEW m PROVE m \in flags <=> \E i \in 1 .. Len(ownerList) : ownerList[i].mode = m
    <3>1. ASSUME m \in flags PROVE \E i \in 1 .. Len(ownerList) : ownerList[i].mode = m
      <4>1. PICK p \in Procs : Listed(p, m)
        BY <2>1, <3>1 DEF OwnersSound, LockTypes
      <4> QED BY <4>1 DEF Listed
    <3>2. ASSUME NEW i \in 1 .. Len(ownerList), ownerList[i].mode = m PROVE m \in flags
      BY <2>1, <3>2, EachIsListed DEF OwnersSound
    <3> QED BY <3>1, <3>2
  <2>3. flags = {ownerList[i].mode : i \in 1 .. Len(ownerList)}
    BY <2>2
  <2>4. numShared = Cardinality(Owners("SHARED"))
    <3>0. PICK n \in Nat : n = Len(ownerList)
      BY <2>1 DEF LockTypes
    <3>1. CASE "SHARED" \in flags
      <4>1. \A i \in 1 .. n : ownerList[i].mode = "SHARED"
        <5> SUFFICES ASSUME NEW i \in 1 .. n, ownerList[i].mode # "SHARED" PROVE FALSE
          OBVIOUS
        <5>1. Listed(ownerList[i].proc, "EXCLUSIVE") /\ ownerList[i].proc \in Procs
          BY <2>1, <3>0, EachIsListed DEF Modes
        <5>2. flags = {"EXCLUSIVE"}
          BY <2>1, <5>1, ExclusiveAlone
        <5> QED BY <3>1, <5>2
      <4>2. Owners("SHARED") = 1 .. n
        BY <3>0, <4>1 DEF Owners
      <4>3. Cardinality(1 .. n) = n
        BY FS_Interval
      <4> QED BY <2>1, <3>0, <3>1, <4>2, <4>3 DEF OwnersSound
    <3>2. CASE "SHARED" \notin flags
      <4>1. Owners("SHARED") = {}
        BY <3>2, <2>2 DEF Owners
      <4>2. Cardinality({}) = 0
        BY FS_EmptySet
      <4> QED BY <2>1, <3>2, <4>1, <4>2 DEF OwnersSound
    <3> QED BY <3>1, <3>2
  <2>5. ASSUME NEW p \in Procs, holds[p] # None
        PROVE  [proc |-> p, mode |-> holds[p]] \in {ownerList[i] : i \in 1 .. Len(ownerList)}
    BY <2>5, HolderIsListed DEF Listed
  <2> QED BY <2>3, <2>4, <2>5
<1>2. Spec => []LInv
  BY LockInvariant
<1> QED BY <1>1, <1>2, PTL
=============================================================================
