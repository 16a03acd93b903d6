----------------------------- MODULE FileLocks -----------------------------
(***************************************************************************)
(* Advisory locks on one file (IOC_LOCK, IOC_UNLOCK) and the remote wait   *)
(* and wakeup they are built on: the lock state kept by the file's server  *)
(* (fsio/fsioLock.c), its wait list (fsutil/fsutilNotify.c), the client's  *)
(* retry loop (Fs_IOControl in fs/fsStreamOps.c) and the process wait that *)
(* a wakeup may overtake (Sync_ProcWait in sync/syncLock.c).               *)
(*                                                                         *)
(* The server holds the file's handle lock while it notifies waiters, one  *)
(* RPC after another; every other lock call waits for the handle, and the  *)
(* cleanup after a crashed client skips a handle it finds locked.          *)
(*                                                                         *)
(* A process has one stream of its own, open again after a close, asks for *)
(* a lock only when it has none and releases the one it has.  An RPC to a  *)
(* running host is answered (module RpcTransport); the server does not     *)
(* crash.                                                                  *)
(***************************************************************************)
EXTENDS Naturals, FiniteSets, SequencesExt

CONSTANTS
    Procs,      \* processes, each with a stream to the file
    Clients,    \* workstations
    Host,       \* the workstation of a process
    None,       \* no lock, nobody
    MaxLocks,   \* bound on the lock calls issued in a behaviour
    Crashes     \* the workstations that may crash

ASSUME LocksAssumption ==
    /\ Host \in [Procs -> Clients]
    /\ None \notin Procs \cup Clients \cup {"EXCLUSIVE", "SHARED"}
    /\ Procs \cap Clients = {}
    /\ MaxLocks \in Nat
    /\ Crashes \subseteq Clients

Modes == {"EXCLUSIVE", "SHARED"}

VARIABLES
    flags,        \* lockPtr->flags
    numShared,    \* lockPtr->numShared
    ownerList,    \* lockPtr->ownerList
    waitList,     \* lockPtr->waitList, the order left open
    handle,       \* who holds the handle lock between two steps
    cleaned,      \* the clients whose crash callbacks have run
    pc,           \* each process: where it is
    op,           \* its I/O control call
    waitComplete, \* SYNC_WAIT_COMPLETE of each process
    holds,        \* the lock each process has been told it has
    up,           \* workstations that are running
    breached,     \* history: a shared lock was broken by a close or a crash, or
                  \* a call executed for a client already cleaned up after
    locks         \* lock calls issued so far (bounded by MaxLocks)

lockVars == <<flags, numShared, ownerList>>
vars == <<lockVars, waitList, handle, cleaned, pc, op, waitComplete, holds, up,
          breached, locks>>

NoOp == [cmd |-> "NONE", mode |-> None, block |-> FALSE]

Init ==
    /\ flags = {} /\ numShared = 0 /\ ownerList = <<>> /\ waitList = {}
    /\ handle = None /\ cleaned = {}
    /\ pc = [p \in Procs |-> "idle"] /\ op = [p \in Procs |-> NoOp]
    /\ waitComplete = [p \in Procs |-> FALSE]
    /\ holds = [p \in Procs |-> None]
    /\ up = [c \in Clients |-> TRUE]
    /\ breached = FALSE /\ locks = 0

----------------------------------------------------------------------------
(* The user's calls                                                        *)

\* Fs_IOControl(IOC_LOCK), with or without IOC_LOCK_NO_BLOCK.
LockCall(p, m, block) ==
    /\ pc[p] = "idle" /\ holds[p] = None /\ locks < MaxLocks
    /\ locks' = locks + 1
    /\ pc' = [pc EXCEPT ![p] = "call"]
    /\ op' = [op EXCEPT ![p] = [cmd |-> "LOCK", mode |-> m, block |-> block]]
    /\ UNCHANGED <<lockVars, waitList, handle, cleaned, waitComplete, holds,
                   up, breached>>

\* Fs_IOControl(IOC_UNLOCK), and the close of the stream.
ReleaseCall(p, cmd) ==
    /\ pc[p] = "idle" /\ holds[p] # None
    /\ pc' = [pc EXCEPT ![p] = "call"]
    /\ op' = [op EXCEPT ![p] = [cmd |-> cmd, mode |-> holds[p], block |-> FALSE]]
    /\ holds' = [holds EXCEPT ![p] = None]
    /\ UNCHANGED <<lockVars, waitList, handle, cleaned, waitComplete, up,
                   breached, locks>>

\* An I/O control reaches the server, which finds the client and the stream
\* and gives the handle up again before it executes the call.
RpcIOControl(p) ==
    /\ pc[p] = "call" /\ op[p].cmd # "CLOSE" /\ handle = None
    /\ pc' = [pc EXCEPT ![p] = "verified"]
    /\ UNCHANGED <<lockVars, waitList, handle, cleaned, op, waitComplete, holds,
                   up, breached, locks>>

----------------------------------------------------------------------------
(* The server                                                              *)

\* A process whose workstation has crashed hears no answer.
To(p, where) == pc' = [pc EXCEPT ![p] = IF up[Host[p]] THEN where ELSE "dead"]

Executes(p, cmd) == pc[p] = "verified" /\ op[p].cmd = cmd /\ handle = None

\* Fsrmt_RpcClose keeps the handle from the verification to the close.
Closes(p) == pc[p] = "call" /\ op[p].cmd = "CLOSE" /\ handle = None

\* A call verified before the cleanup after its client, executed after it.
Belated(p) == breached' = (breached \/ Host[p] \in cleaned)

\* Mutated form: an exclusive request looks at the exclusive flag alone.
AvailableToExclusive(m) == "EXCLUSIVE" \notin flags

\* The test of Fsio_Lock.
Available(m) == IF m = "EXCLUSIVE" THEN flags = {} ELSE "EXCLUSIVE" \notin flags

\* Mutated form: shared locks are not counted.
Uncounted(m) == 0

Counted(m) == IF m = "SHARED" THEN 1 ELSE 0

Lock(p) ==
    LET m == op[p].mode IN
    /\ Executes(p, "LOCK")
    /\ \/ /\ Available(m)
          /\ flags' = flags \cup {m}
          /\ numShared' = numShared + Counted(m)
          /\ ownerList' = Append(ownerList, [proc |-> p, mode |-> m])
          /\ To(p, "granted") /\ UNCHANGED waitList
       \/ /\ ~Available(m)
          /\ waitList' = waitList \cup {p}
          /\ To(p, "told") /\ UNCHANGED lockVars
    /\ Belated(p)
    /\ UNCHANGED <<handle, cleaned, op, waitComplete, holds, up, locks>>

\* Fsutil_FastWaitListNotify begins: the handle stays locked until all have
\* been notified, and the caller of the server waits for its answer.
StartNotify(by) == handle' = by
Serving(p) == pc' = [pc EXCEPT ![p] = "serving"]

OwnedBy(p) == {i \in 1 .. Len(ownerList) : ownerList[i].proc = p}
First(S)   == CHOOSE i \in S : \A j \in S : i <= j
WithoutOwner(p) == IF OwnedBy(p) = {} THEN ownerList
                   ELSE RemoveAt(ownerList, First(OwnedBy(p)))

\* Fsio_Unlock of an exclusive lock; without an owner of that name it takes
\* the lock from the first owner.
UnlockExclusive(p) ==
    /\ "EXCLUSIVE" \in flags
    /\ flags' = flags \ {"EXCLUSIVE"}
    /\ ownerList' = IF OwnedBy(p) # {} \/ ownerList = <<>> THEN WithoutOwner(p)
                    ELSE Tail(ownerList)
    /\ UNCHANGED numShared

\* Mutated form: the flag goes with the first of several shared locks.
UnlockSharedAtOnce(p) ==
    /\ "SHARED" \in flags
    /\ numShared' = numShared - 1
    /\ flags' = flags \ {"SHARED"}
    /\ ownerList' = WithoutOwner(p)

\* Fsio_Unlock of a shared lock.
UnlockShared(p) ==
    /\ "SHARED" \in flags
    /\ numShared' = numShared - 1
    /\ flags' = IF numShared' = 0 THEN flags \ {"SHARED"} ELSE flags
    /\ ownerList' = WithoutOwner(p)

Unlock(p) ==
    /\ Executes(p, "UNLOCK")
    /\ \/ /\ op[p].mode = "EXCLUSIVE" /\ UnlockExclusive(p)
          /\ StartNotify(p) /\ Serving(p)
       \/ /\ op[p].mode = "SHARED" /\ UnlockShared(p)
          /\ StartNotify(p) /\ Serving(p)
       \/ /\ op[p].mode \notin flags                   \* FS_NO_..._LOCK
          /\ To(p, "done") /\ UNCHANGED <<lockVars, handle>>
    /\ Belated(p)
    /\ UNCHANGED <<waitList, cleaned, op, waitComplete, holds, up, locks>>

\* Mutated form: a close breaks the lock and notifies nobody.
LockCloseSilently(p) ==
    /\ Closes(p)
    /\ IF OwnedBy(p) = {} THEN UNCHANGED <<lockVars, breached>>
       ELSE LET m == ownerList[First(OwnedBy(p))].mode IN
            /\ flags' = flags \ {m} /\ ownerList' = WithoutOwner(p)
            /\ breached' = (breached \/ m = "SHARED") /\ UNCHANGED numShared
    /\ To(p, "done")
    /\ UNCHANGED <<waitList, handle, cleaned, op, waitComplete, holds, up, locks>>

\* Fsio_LockClose: the lock of the stream is broken; numShared stays.
LockClose(p) ==
    /\ Closes(p)
    /\ \/ /\ OwnedBy(p) = {}
          /\ To(p, "done") /\ UNCHANGED <<lockVars, handle, breached>>
       \/ /\ OwnedBy(p) # {}
          /\ LET m == ownerList[First(OwnedBy(p))].mode IN
             flags' = flags \ {m} /\ breached' = (breached \/ m = "SHARED")
          /\ ownerList' = WithoutOwner(p)
          /\ StartNotify(p) /\ Serving(p) /\ UNCHANGED numShared
    /\ UNCHANGED <<waitList, cleaned, op, waitComplete, holds, up, locks>>

\* Sync_ProcWakeup, called by the RPC stub on the waiter's host: it marks the
\* wait complete whether or not the process has begun to wait.
ProcWakeup(q) ==
    /\ waitComplete' = [waitComplete EXCEPT ![q] = TRUE]
    /\ pc' = [pc EXCEPT ![q] = IF @ = "blocked" THEN "awake" ELSE @]

\* One turn of Fsutil_FastWaitListNotify; the RPC to a dead host fails.
NotifyWaiter(q) ==
    /\ handle # None /\ q \in waitList
    /\ waitList' = waitList \ {q}
    /\ IF up[Host[q]] THEN ProcWakeup(q) ELSE UNCHANGED <<waitComplete, pc>>
    /\ UNCHANGED <<lockVars, handle, cleaned, op, holds, up, breached, locks>>

\* Everyone has been notified: the handle is unlocked, the caller answered.
NotifyDone ==
    /\ handle # None /\ waitList = {}
    /\ handle' = None
    /\ IF handle \in Procs THEN To(handle, "done") ELSE UNCHANGED pc
    /\ UNCHANGED <<lockVars, waitList, cleaned, op, waitComplete, holds, up,
                   breached, locks>>

----------------------------------------------------------------------------
(* The client                                                              *)

\* The call returns to the user.
Return(p) ==
    /\ \/ pc[p] = "granted" /\ holds' = [holds EXCEPT ![p] = op[p].mode]
       \/ pc[p] = "done" /\ UNCHANGED holds
       \/ pc[p] = "told" /\ ~op[p].block /\ UNCHANGED holds   \* FS_WOULD_BLOCK
    /\ pc' = [pc EXCEPT ![p] = "idle"] /\ op' = [op EXCEPT ![p] = NoOp]
    /\ UNCHANGED <<lockVars, waitList, handle, cleaned, waitComplete, up,
                   breached, locks>>

\* Mutated form: the process sleeps although the wakeup came before it.
ProcWaitAnyway(p) ==
    /\ pc[p] = "told" /\ op[p].block
    /\ pc' = [pc EXCEPT ![p] = "blocked"]
    /\ waitComplete' = [waitComplete EXCEPT ![p] = FALSE]
    /\ UNCHANGED <<lockVars, waitList, handle, cleaned, op, holds, up, breached, locks>>

\* Sync_ProcWait, up to the context switch: a wakeup that came first ends it.
ProcWait(p) ==
    /\ pc[p] = "told" /\ op[p].block
    /\ pc' = [pc EXCEPT ![p] = IF waitComplete[p] THEN "call" ELSE "blocked"]
    /\ waitComplete' = [waitComplete EXCEPT ![p] = FALSE]
    /\ UNCHANGED <<lockVars, waitList, handle, cleaned, op, holds, up, breached, locks>>

\* The rest of Sync_ProcWait; Fs_IOControl tries again.
Retry(p) ==
    /\ pc[p] = "awake"
    /\ pc' = [pc EXCEPT ![p] = "call"]
    /\ waitComplete' = [waitComplete EXCEPT ![p] = FALSE]
    /\ UNCHANGED <<lockVars, waitList, handle, cleaned, op, holds, up, breached, locks>>

\* A signal ends the wait: GEN_ABORTED_BY_SIGNAL.  The server is not told and
\* keeps the process on its wait list.
AbortWait(p) ==
    /\ \/ pc[p] = "told" /\ op[p].block /\ ~waitComplete[p]
       \/ pc[p] \in {"blocked", "awake"}
    /\ pc' = [pc EXCEPT ![p] = "idle"] /\ op' = [op EXCEPT ![p] = NoOp]
    /\ waitComplete' = [waitComplete EXCEPT ![p] = FALSE]
    /\ UNCHANGED <<lockVars, waitList, handle, cleaned, holds, up, breached, locks>>

----------------------------------------------------------------------------
(* Crashes                                                                 *)

\* What the server has begun to execute for the client it finishes.
Crash(c) ==
    LET gone(p) == Host[p] = c /\ pc[p] \notin {"verified", "serving"} IN
    /\ c \in Crashes /\ up[c]
    /\ up' = [up EXCEPT ![c] = FALSE]
    /\ pc' = [p \in Procs |-> IF gone(p) THEN "dead" ELSE pc[p]]
    /\ holds' = [p \in Procs |-> IF Host[p] = c THEN None ELSE holds[p]]
    /\ waitComplete' = [p \in Procs |-> Host[p] # c /\ waitComplete[p]]
    /\ UNCHANGED <<lockVars, waitList, handle, cleaned, op, breached, locks>>

\* The crash callback passes the handle by, since it is locked.
RemoveClientSkips(c) ==
    /\ ~up[c] /\ c \notin cleaned /\ handle # None
    /\ cleaned' = cleaned \cup {c}
    /\ UNCHANGED <<lockVars, waitList, handle, pc, op, waitComplete, holds, up,
                   breached, locks>>

OwnedByClient(c) == {i \in 1 .. Len(ownerList) : Host[ownerList[i].proc] = c}

\* The owners left when a pass over the list has removed those of a client.
WithoutClient(owners, c) ==
    LET kept[i \in 0 .. Len(owners)] ==
            IF i = 0 THEN <<>>
            ELSE IF Host[owners[i].proc] = c THEN kept[i - 1]
            ELSE Append(kept[i - 1], owners[i])
    IN  kept[Len(owners)]

\* Fsutil_RemoveClient, Fsio_FileClientKill and Fsio_LockClientKill.
RemoveClient(c) ==
    LET broken == {ownerList[i].mode : i \in OwnedByClient(c)} IN
    /\ ~up[c] /\ c \notin cleaned /\ handle = None
    /\ cleaned' = cleaned \cup {c}
    /\ flags' = flags \ broken
    /\ ownerList' = WithoutClient(ownerList, c)
    /\ breached' = (breached \/ "SHARED" \in broken)
    /\ handle' = IF broken # {} THEN c ELSE None
    /\ UNCHANGED <<numShared, waitList, pc, op, waitComplete, holds, up, locks>>

----------------------------------------------------------------------------
ServerStep(p) == Lock(p) \/ Unlock(p) \/ LockClose(p) \/ NotifyWaiter(p)
ClientStep(p) == RpcIOControl(p) \/ Return(p) \/ ProcWait(p) \/ Retry(p)

Next ==
    \/ \E p \in Procs, m \in Modes, block \in BOOLEAN : LockCall(p, m, block)
    \/ \E p \in Procs, cmd \in {"UNLOCK", "CLOSE"} : ReleaseCall(p, cmd)
    \/ \E p \in Procs : ServerStep(p) \/ ClientStep(p) \/ AbortWait(p)
    \/ NotifyDone
    \/ \E c \in Clients : Crash(c) \/ RemoveClientSkips(c) \/ RemoveClient(c)

Spec == Init /\ [][Next]_vars

(* The kernels make progress; a process that has a lock releases it some   *)
(* time; the server notices a crash.                                       *)
Fairness ==
    /\ \A p \in Procs : WF_vars(ServerStep(p)) /\ WF_vars(ClientStep(p))
    /\ \A p \in Procs : WF_vars(\E cmd \in {"UNLOCK", "CLOSE"} : ReleaseCall(p, cmd))
    /\ WF_vars(NotifyDone)
    /\ \A c \in Clients : WF_vars(RemoveClientSkips(c) \/ RemoveClient(c))

FairSpec == Spec /\ Fairness

----------------------------------------------------------------------------
(* Properties                                                              *)

Owner == [proc : Procs, mode : Modes]
Places == {"idle", "call", "verified", "serving", "granted", "told", "done",
           "blocked", "awake", "dead"}

\* The types of the variables.
TypeOK ==
    /\ flags \subseteq Modes /\ numShared \in Nat /\ ownerList \in Seq(Owner)
    /\ waitList \subseteq Procs /\ handle \in Procs \cup Clients \cup {None}
    /\ cleaned \subseteq Clients
    /\ pc \in [Procs -> Places]
    /\ op \in [Procs -> [cmd : {"NONE", "LOCK", "UNLOCK", "CLOSE"},
                         mode : Modes \cup {None}, block : BOOLEAN]]
    /\ waitComplete \in [Procs -> BOOLEAN]
    /\ holds \in [Procs -> Modes \cup {None}]
    /\ up \in [Clients -> BOOLEAN] /\ breached \in BOOLEAN /\ locks \in Nat

(* No wakeup is lost: a process that sleeps, or is about to although no    *)
(* wakeup has come, is on the server's wait list, and the wait list is     *)
(* empty whenever the lock is free and the handle unlocked.                *)
NoLostWakeup ==
    /\ \A p \in Procs : pc[p] \in {"told", "blocked"} /\ ~waitComplete[p]
                            => p \in waitList
    /\ handle = None /\ waitList # {} => flags # {}

(* What processes believe to hold is compatible: the reader of one host    *)
(* and the writer of another never overlap, calls in flight included, unless *)
(* breached.                                                               *)
MutualExclusion ==
    ~breached => \A p, q \in Procs :
        p # q /\ holds[p] = "EXCLUSIVE" => holds[q] = None

Owners(m) == {i \in 1 .. Len(ownerList) : ownerList[i].mode = m}

(* Flags, count and owner list of Fsio_LockState tell the same, and every  *)
(* process that believes to have a lock is listed with it, unless breached.*)
OwnersMatchFlags ==
    ~breached =>
        /\ flags = {ownerList[i].mode : i \in 1 .. Len(ownerList)}
        /\ numShared = Cardinality(Owners("SHARED"))
        /\ \A p \in Procs : holds[p] # None =>
               [proc |-> p, mode |-> holds[p]] \in {ownerList[i] : i \in 1 .. Len(ownerList)}

(* "Exclusive locks have to wait until all shared locks go away" (the      *)
(* comment on IOC_LOCK_SHARED in fsio/fsioLock.h).  A close that breaks    *)
(* one shared lock clears the flag that stands for all of them.            *)
ExclusiveWaitsForShared ==
    \A p, q \in Procs : p # q /\ holds[p] = "EXCLUSIVE" => holds[q] # "SHARED"

(* A crashed client that has been cleaned up after holds no lock, but for  *)
(* one granted after the cleanup: "Go through all of the handles and       *)
(* delete all references to the handle for the client"                     *)
(* (Fsutil_RemoveClient).  The code passes a locked handle by, and this    *)
(* fails; LockReturns says what holds while it does not.                   *)
CrashReleasesLocks == ~breached => \A c \in cleaned : OwnedByClient(c) = {}

Locking(p) == op[p].cmd = "LOCK" /\ pc[p] # "dead"

(* A lock call returns: the lock is released, the process notified and the *)
(* lock granted, unless breached or a dead client's lock is never broken.  *)
(* (The bound on lock calls keeps newcomers from winning the lock for ever.)*)
LockReturns ==
    [](~breached /\ CrashReleasesLocks) => \A p \in Procs : Locking(p) ~> ~Locking(p)
=============================================================================
