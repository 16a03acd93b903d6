---------------------------- MODULE FsRecovery ----------------------------
(* A kernel and a file server that reboots (fsutil/fsutilRecovery.c on top *)
(* of HostRecovery).  The kernel has remote handles; the server knows      *)
(* those that were opened or reopened since it booted.  A process whose    *)
(* call fails marks the handle as needing recovery and waits.  The reboot  *)
(* call-back, or a process that was told its handle is stale, runs         *)
(* Fsutil_Reopen, which reopens every handle and then wakes the waiters.   *)
EXTENDS HostRecovery

CONSTANTS
    Handles,    \* remote I/O handles of this kernel at the peer
    Users       \* processes that use them

Reopeners == Users \cup {"job"}     \* who may be inside Fsutil_Reopen

VARIABLES
    open,       \* the handles this kernel has, fixed from the start
    used,       \* those with open streams or dirty blocks, fixed likewise
    registered, \* incarnation of the server that last (re)opened each handle
    valid,      \* handles without FS_HANDLE_INVALID
    recov,      \* recovPtr->flags of each handle
    inProgress, \* SRV_RECOV_IN_PROGRESS in the client state of the host
    reopen,     \* Fsutil_Reopen in each process: where, and handles to do
    user,       \* user processes: where, with which handle
    swallowed   \* history: a reboot call-back found Fsutil_Reopen running

fsVars == <<open, used, registered, valid, recov, inProgress, reopen, user, swallowed>>
vars == <<recovVars, fsVars>>

RecoveryFlags == {"NEEDED", "COMPLETE", "FAILED"}
NoHandle == "none"

(* The call-back job is no user process, and no handle is the absent one.  *)
ASSUME FsRecoveryAssumption == "job" \notin Users /\ NoHandle \notin Handles

Out == [pc |-> "out", todo |-> {}]
AtRest == [pc |-> "idle", handle |-> NoHandle, stale |-> FALSE]

TypeOK ==
    /\ HostTypeOK
    /\ open \subseteq Handles
    /\ used \subseteq open
    /\ registered \in [Handles -> 0 .. MaxBoots]
    /\ valid \subseteq open
    /\ recov \in [Handles -> SUBSET RecoveryFlags]
    /\ inProgress \in BOOLEAN
    /\ reopen \in [Reopeners -> [pc : {"out", "start", "handles", "notify", "clear"},
                                 todo : SUBSET Handles]]
    /\ user \in [Users -> [pc : {"idle", "want", "waitForRecovery", "reopen", "wait"},
                           handle : Handles \cup {NoHandle}, stale : BOOLEAN]]
    /\ rebootJob \in {"none", "queued", "running", "done"}
    /\ swallowed \in BOOLEAN

Init ==
    /\ HostInit
    /\ open \in {{}, Handles}
    /\ used \in SUBSET open
    /\ open # {} => bootID = 1
    /\ registered = [h \in Handles |-> 1]
    /\ valid = open
    /\ recov = [h \in Handles |-> {}]
    /\ inProgress = FALSE
    /\ reopen = [r \in Reopeners |-> Out]
    /\ user = [u \in Users |-> AtRest]
    /\ swallowed = FALSE

-----------------------------------------------------------------------------
(* RecovRebootCallBacks: the list of the host has Fsutil_Reopen as long as *)
(* the kernel has handles there.                                           *)

RebootCallBacksStart ==
    /\ rebootJob = "queued"
    /\ rebootJob' = IF valid = {} THEN "done" ELSE "running"
    /\ reopen' = IF valid = {} THEN reopen
                 ELSE [reopen EXCEPT !["job"].pc = "start"]
    /\ UNCHANGED <<peer, timeouts, hostState, bootID, cleanup, srv, refs, overlap,
                   open, used, registered, valid, recov, inProgress, user, swallowed>>

CallBacksDone ==
    /\ rebootJob = "done"
    /\ rebootJob' = "none"
    /\ hostState' = CallBacksDoneState
    /\ UNCHANGED <<peer, timeouts, bootID, cleanup, srv, refs, overlap, fsVars>>

-----------------------------------------------------------------------------
(* Fsutil_Reopen.                                                          *)

Pass(pc, todo) ==
    IF todo = {} THEN [pc |-> "clear", todo |-> {}] ELSE [pc |-> pc, todo |-> todo]

Leave(r) ==
    /\ reopen' = [reopen EXCEPT ![r] = Out]
    /\ IF r = "job" THEN rebootJob' = "done" /\ UNCHANGED user
       ELSE /\ user' = [user EXCEPT ![r].pc = "wait"]
            /\ UNCHANGED rebootJob

(* Test and set SRV_RECOV_IN_PROGRESS; the second one returns at once.     *)
ReopenStart(r) ==
    /\ reopen[r].pc = "start"
    /\ inProgress' = TRUE
    /\ IF inProgress
       THEN /\ Leave(r)
            /\ swallowed' = (swallowed \/ r = "job")
       ELSE /\ reopen' = [reopen EXCEPT ![r] = Pass("handles", valid)]
            /\ UNCHANGED <<rebootJob, user, swallowed>>
    /\ UNCHANGED <<peer, timeouts, hostState, bootID, cleanup, srv, refs, overlap,
                   open, used, registered, valid, recov>>

(* No stream, no dirty block and no waiter: the handle's reopen routine    *)
(* does without the server.                                                *)
NotNeeded(h) == h \notin used /\ "NEEDED" \notin recov[h]

HandleDone(r, h) ==
    reopen' = [reopen EXCEPT ![r] = IF @.todo = {h} THEN Pass("notify", valid')
                                    ELSE Pass("handles", @.todo \ {h})]

(* ReopenHandles, first pass: the reopen call for one handle and           *)
(* RecoveryComplete.  The server may say that the file is gone.            *)
Reopened(r, h) ==
    /\ ~NotNeeded(h) /\ Answered(FALSE)
    /\ \/ /\ registered' = [registered EXCEPT ![h] = peer.boot]
          /\ recov' = [recov EXCEPT ![h] = @ \cup {"COMPLETE"}]
       \/ /\ registered' = registered
          /\ recov' = [recov EXCEPT ![h] = @ \cup {"COMPLETE", "FAILED"}]
    /\ UNCHANGED valid
    /\ HandleDone(r, h)

(* A clean handle that nobody uses, with no call: FS_RECOV_SKIP keeps it   *)
(* as recovered, FS_NO_HANDLE has removed it.  recov_SkipCleanFiles, which *)
(* a system call sets, says which.                                         *)
ReopenAvoided(r, h) ==
    /\ NotNeeded(h)
    /\ recov' = [recov EXCEPT ![h] = @ \cup {"COMPLETE"}]
    /\ \/ UNCHANGED valid
       \/ valid' = valid \ {h}
    /\ HandleDone(r, h)
    /\ UNCHANGED <<timeouts, hostVars, registered>>

(* RPC_TIMEOUT or RPC_SERVICE_DISABLED: the pass is given up; no waiter is *)
(* woken.                                                                  *)
ReopenFails(r, h) ==
    /\ ~NotNeeded(h)
    /\ TimedOut \/ Answered(TRUE)
    /\ reopen' = [reopen EXCEPT ![r] = Pass("clear", {})]
    /\ UNCHANGED <<registered, recov, valid>>

ReopenHandle(r) ==
    /\ reopen[r].pc = "handles"
    /\ \E h \in reopen[r].todo :
         Reopened(r, h) \/ ReopenAvoided(r, h) \/ ReopenFails(r, h)
    /\ UNCHANGED <<peer, srv, refs, open, used, inProgress, user, swallowed>>

(* Mutated form: only a successful recovery is told to the waiters.        *)
RecoveryNotifyOnlySuccess(r) ==
    /\ reopen[r].pc = "notify"
    /\ \E h \in reopen[r].todo :
         /\ reopen' = [reopen EXCEPT ![r] = Pass("notify", @.todo \ {h})]
         /\ recov' = [recov EXCEPT ![h] = IF "COMPLETE" \in @ /\ "FAILED" \notin @
                                          THEN @ \ {"COMPLETE", "NEEDED"} ELSE @]
         /\ valid' = IF "FAILED" \in recov[h] THEN valid \ {h} ELSE valid
    /\ UNCHANGED <<recovVars, open, used, registered, inProgress, user, swallowed>>

(* ReopenHandles, last pass: RecoveryNotify, and a handle whose recovery   *)
(* failed is invalidated.                                                  *)
RecoveryNotify(r) ==
    /\ reopen[r].pc = "notify"
    /\ \E h \in reopen[r].todo :
         /\ reopen' = [reopen EXCEPT ![r] = Pass("notify", @.todo \ {h})]
         /\ recov' = [recov EXCEPT ![h] = IF "COMPLETE" \in @
                                          THEN @ \ {"COMPLETE", "NEEDED"} ELSE @]
         /\ valid' = IF "FAILED" \in recov[h] THEN valid \ {h} ELSE valid
    /\ UNCHANGED <<recovVars, open, used, registered, inProgress, user, swallowed>>

(* Clear SRV_RECOV_IN_PROGRESS and go.                                     *)
ReopenDone(r) ==
    /\ reopen[r].pc = "clear"
    /\ inProgress' = FALSE
    /\ Leave(r)
    /\ UNCHANGED <<peer, timeouts, hostState, bootID, cleanup, srv, refs, overlap,
                   open, used, registered, valid, recov, swallowed>>

ReopenStep(r) ==
    ReopenStart(r) \/ ReopenHandle(r) \/ RecoveryNotify(r) \/ ReopenDone(r)

-----------------------------------------------------------------------------
(* A process using a handle: the call to the server and its status.        *)

Start(u, h, stale) == user' = [user EXCEPT ![u] = [pc |-> "want", handle |-> h, stale |-> stale]]

IOFails(u) ==
    /\ user[u].pc = "idle"
    /\ \E h \in valid \cap used :
         \/ registered[h] # peer.boot /\ Answered(FALSE) /\ Start(u, h, TRUE)
         \/ (TimedOut \/ Answered(TRUE)) /\ Start(u, h, FALSE)
    /\ UNCHANGED <<peer, srv, refs, open, used, registered, valid, recov, inProgress,
                   reopen, swallowed>>

(* The routine that made the call marks the handle, after Rpc_Call has     *)
(* reported the host and returned.                                         *)
Fsutil_WantRecovery(u) ==
    /\ user[u].pc = "want"
    /\ recov' = [recov EXCEPT ![user[u].handle] = @ \cup {"NEEDED"}]
    /\ user' = [user EXCEPT ![u].pc = "waitForRecovery"]
    /\ UNCHANGED <<recovVars, open, used, registered, valid, inProgress, reopen,
                   swallowed>>

(* An invalid handle fails; a stale one is reopened from here if the host  *)
(* is not down; else somebody else has to recover it.                      *)
Fsutil_WaitForRecovery(u) ==
    LET runsReopen == user[u].stale /\ "DEAD" \notin hostState IN
    /\ user[u].pc = "waitForRecovery"
    /\ IF user[u].handle \notin valid
       THEN user' = [user EXCEPT ![u] = AtRest] /\ UNCHANGED reopen
       ELSE /\ user' = [user EXCEPT ![u].pc = IF runsReopen THEN "reopen" ELSE "wait"]
            /\ reopen' = IF runsReopen THEN [reopen EXCEPT ![u].pc = "start"] ELSE reopen
    /\ UNCHANGED <<recovVars, open, used, registered, valid, recov, inProgress,
                   swallowed>>

RecoveryWaitEnds(u) ==
    /\ user[u].pc = "wait" /\ "NEEDED" \notin recov[user[u].handle]
    /\ user' = [user EXCEPT ![u] = AtRest]
    /\ UNCHANGED <<recovVars, open, used, registered, valid, recov, inProgress, reopen,
                   swallowed>>

(* A signal ends the wait; the mark stays.                                 *)
RecoveryWaitAborted(u) ==
    /\ user[u].pc = "wait" /\ "NEEDED" \in recov[user[u].handle]
    /\ user' = [user EXCEPT ![u] = AtRest]
    /\ UNCHANGED <<recovVars, open, used, registered, valid, recov, inProgress, reopen,
                   swallowed>>

UserStep(u) == Fsutil_WantRecovery(u) \/ Fsutil_WaitForRecovery(u) \/ RecoveryWaitEnds(u)

-----------------------------------------------------------------------------
(* Recov_Proc: RecovCheckHost lets it ping a host that has reboot          *)
(* call-backs and is known to be up (but silent) or down.                  *)
MayPing == valid # {} /\ hostState \cap UpDown # {}

Ping == MayPing /\ Call /\ UNCHANGED fsVars

(* Requests and other calls are interesting when the peer has state here.  *)
Request(s) == open = {} /\ Receive(s) /\ UNCHANGED fsVars
OtherCall == open = {} /\ Call /\ UNCHANGED fsVars

PeerRecovers == PeerBoots \/ PeerActive
ServerRuns(s) == ServerStep(s) /\ UNCHANGED fsVars
CleanupRuns == CleanupStep /\ UNCHANGED fsVars

Next ==
    \/ PeerCrashes /\ UNCHANGED fsVars
    \/ PeerRecovers /\ UNCHANGED fsVars
    \/ \E s \in Servers : Request(s) \/ ServerRuns(s)
    \/ Ping \/ OtherCall
    \/ CleanupRuns
    \/ RebootCallBacksStart
    \/ CallBacksDone
    \/ \E r \in Reopeners : ReopenStep(r)
    \/ \E u \in Users : IOFails(u) \/ UserStep(u) \/ RecoveryWaitAborted(u)

Spec == Init /\ [][Next]_vars

(* The kernel's processes run, a peer that went down comes back and turns  *)
(* its service on, and Recov_Proc pings.  No call, crash or signal need    *)
(* happen.                                                                 *)
FairSpec ==
    /\ Spec
    /\ WF_vars(PeerRecovers /\ UNCHANGED fsVars)
    /\ \A s \in Servers : WF_vars(ServerRuns(s))
    /\ WF_vars(Ping)
    /\ WF_vars(CrashCallBacks /\ UNCHANGED fsVars)
    /\ WF_vars(MarkRecoveryComplete /\ UNCHANGED fsVars)
    /\ WF_vars(RebootCallBacksStart) /\ WF_vars(CallBacksDone)
    /\ \A r \in Reopeners : WF_vars(ReopenStep(r))
    /\ \A u \in Users : WF_vars(UserStep(u))

-----------------------------------------------------------------------------
(* Properties.                                                             *)

(* The flags tell the truth about the activities behind them: one up/down  *)
(* state at most (the default branch "Unexpected recovery state" is dead   *)
(* code), reboot call-backs flagged exactly while they are scheduled or    *)
(* run, a failure noted only while they are, and server processes held     *)
(* back only while a CrashCallBacks that will let them go is outstanding.  *)
FlagsAccounted ==
    /\ Cardinality(hostState \cap UpDown) <= 1
    /\ "REBOOT_CALLBACKS" \in hostState <=> rebootJob # "none"
    /\ "FAILURE" \in hostState => "REBOOT_CALLBACKS" \in hostState
    /\ "CRASH_CALLBACKS" \in hostState => Outstanding(cleanup) > 0

(* "Servers want synchronous recovery so they don't service anything until *)
(* state associated with that client has been cleaned up via the Crash     *)
(* call-backs": a server process gets past Recov_HostAlive only when no    *)
(* CrashCallBacks for its client is outstanding, one that would remove     *)
(* what the request is going to create.  This needs one activation at a    *)
(* time: Recov_HostDead schedules a second one beside the first, and the   *)
(* first to finish lets server processes in under the second.              *)
ServedAfterCleanup ==
    [][\A s \in Servers : srv[s].pc # "service" /\ srv'[s].pc = "service"
          => Outstanding(cleanup) = 0 \/ overlap]_vars

(* A server process that waits in Recov_HostAlive goes on.                 *)
ServerResumes == \A s \in Servers : srv[s].pc = "await" ~> srv[s].pc # "await"

(* However the server's reboots, the pings, the timeouts and the failures  *)
(* of the recovery itself fall, every handle in use is in the end reopened *)
(* at the incarnation that runs (or invalid), unless a reboot call-back    *)
(* found a Fsutil_Reopen of a process with a stale handle running and left *)
(* the work to it.                                                         *)
HandlesRecovered ==
    <>[](\A h \in valid \cap used : registered[h] = peer.boot) \/ <>swallowed

(* A process waiting for recovery while the host is dead or recovery with  *)
(* it is wanted is woken, with the same exception.                         *)
WaitersReleased ==
    \A u \in Users :
        (user[u].pc = "wait" /\ hostState \cap {"DEAD", "WANT_RECOVERY"} # {})
            ~> (user[u].pc # "wait" \/ swallowed)
=============================================================================
