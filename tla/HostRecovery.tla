--------------------------- MODULE HostRecovery ---------------------------
(* The recovery module of one kernel (recov/recovery.c, recov/recovProc.c) *)
(* and its opinion of one other host, the peer.  The RPC system reports    *)
(* every message from the peer (Recov_HostAlive) and every call that timed *)
(* out (Recov_HostDead); boot time stamps tell a reboot from a partition.  *)
(* Crash call-backs clean up the state the peer had here, and server       *)
(* processes wait for them; reboot call-backs, one run at a time, rebuild  *)
(* the state this kernel has at the peer (FsRecovery).                     *)
EXTENDS Naturals, FiniteSets

CONSTANTS
    Servers,      \* rpc server processes that may serve the peer
    MaxBoots,     \* bound: incarnations of the peer
    MaxTimeouts   \* bound: calls that time out although the peer is up

ASSUME HostRecoveryAssumption ==
    MaxBoots \in Nat \ {0} /\ MaxTimeouts \in Nat

VARIABLES
    peer,       \* the other host: incarnation, up, rpc service active
    timeouts,   \* calls that timed out although the peer was up
    hostState,  \* hostPtr->state, the set of flags that are on
    bootID,     \* hostPtr->bootID, 0 before the first message
    cleanup,    \* CrashCallBacks activations in each phase
    rebootJob,  \* the one RecovRebootCallBacks activation
    srv,        \* server processes: where, and the request they hold
    refs,       \* incarnations of the peer with client state in this kernel
    overlap     \* history: two activations of CrashCallBacks were outstanding

hostVars == <<hostState, bootID, cleanup, rebootJob, overlap>>
recovVars == <<peer, timeouts, hostState, bootID, cleanup, rebootJob, srv, refs, overlap>>

UpDown == {"ALIVE", "DEAD", "BOOTING"}
Flags == UpDown \cup {"CRASH_CALLBACKS", "WANT_RECOVERY", "REBOOT_CALLBACKS", "FAILURE"}
Boots == 1 .. MaxBoots
Phases == {"queued", "marking"}
Idle == [pc |-> "idle", boot |-> 0, notActive |-> FALSE]

Outstanding(c) == c["queued"] + c["marking"]

HostTypeOK ==
    /\ peer \in [boot : Boots, up : BOOLEAN, active : BOOLEAN]
    /\ timeouts \in 0 .. MaxTimeouts
    /\ hostState \subseteq Flags
    /\ bootID \in 0 .. MaxBoots
    /\ cleanup \in [Phases -> Nat]
    /\ srv \in [Servers -> [pc : {"idle", "received", "await", "service"},
                            boot : 0 .. MaxBoots, notActive : BOOLEAN]]
    /\ refs \subseteq Boots
    /\ overlap \in BOOLEAN

(* Either the entry was made before the peer was heard of, or it has been *)
(* heard of and holds state here.                                          *)
HostInit ==
    /\ peer = [boot |-> 1, up |-> TRUE, active |-> TRUE]
    /\ timeouts = 0
    /\ \/ hostState = {} /\ bootID = 0 /\ refs = {}
       \/ hostState = {"ALIVE"} /\ bootID = 1 /\ refs = {1}
    /\ cleanup = [ph \in Phases |-> 0]
    /\ rebootJob = "none"
    /\ srv = [s \in Servers |-> Idle]
    /\ overlap = FALSE

-----------------------------------------------------------------------------
(* The other host, whose code is a kernel like this one.                   *)

PeerCrashes ==
    /\ peer.up /\ peer.boot < MaxBoots
    /\ peer' = [peer EXCEPT !.up = FALSE, !.active = FALSE]
    /\ UNCHANGED <<timeouts, hostVars, srv, refs>>

(* A host takes minutes to boot: by then no process of this kernel still   *)
(* has a request of the old incarnation that it has not reported.          *)
PeerBoots ==
    /\ ~peer.up
    /\ \A s \in Servers : srv[s].pc # "received"
    /\ peer' = [peer EXCEPT !.boot = @ + 1, !.up = TRUE]
    /\ UNCHANGED <<timeouts, hostVars, srv, refs>>

(* Its RPC service is enabled; until then its messages say RPC_NOT_ACTIVE. *)
PeerActive ==
    /\ peer.up /\ ~peer.active
    /\ peer' = [peer EXCEPT !.active = TRUE]
    /\ UNCHANGED <<timeouts, hostVars, srv, refs>>

-----------------------------------------------------------------------------
(* Scheduling: Proc_CallFunc runs both call-back procedures in processes   *)
(* of their own; nothing keeps two activations of CrashCallBacks apart.    *)

ScheduleCleanup(yes) ==
    /\ cleanup' = [cleanup EXCEPT !["queued"] = IF yes THEN @ + 1 ELSE @]
    /\ overlap' = (overlap \/ (yes /\ Outstanding(cleanup) > 0))

(* Recov_HostAlive up to the wait of a server process: a new boot time     *)
(* stamp from a host thought to be up is a crash nobody detected.          *)
Undetected(b) == bootID # b /\ hostState \cap {"ALIVE", "BOOTING"} # {}

(* Mutated form: the alive flag stays on.                                  *)
AfterBootCheckAlive(b) ==
    IF Undetected(b) THEN hostState \cup {"BOOTING", "CRASH_CALLBACKS"} ELSE hostState

AfterBootCheck(b) ==
    IF Undetected(b)
    THEN (hostState \ {"ALIVE", "DEAD"}) \cup {"BOOTING", "CRASH_CALLBACKS"}
    ELSE hostState

(* Mutated form: the flag is tested after it was set.                      *)
BootCheckSchedulesLate(b) ==
    Undetected(b) /\ "CRASH_CALLBACKS" \notin AfterBootCheck(b)

BootCheckSchedules(b) == Undetected(b) /\ "CRASH_CALLBACKS" \notin hostState

(* Mutated form: pending crash call-backs are no reason to wait.           *)
FastPathHasty(b) ==
    /\ bootID = b
    /\ "WANT_RECOVERY" \notin hostState
    /\ "ALIVE" \in hostState

FastPath(b) ==
    /\ bootID = b
    /\ hostState \cap {"CRASH_CALLBACKS", "WANT_RECOVERY"} = {}
    /\ "ALIVE" \in hostState

(* Mutated form: recovery is wanted of a dead host only.                   *)
AfterSwitchForgets(st, notActive) ==
    LET was == st \cap UpDown IN
    CASE was = {"BOOTING"} /\ ~notActive -> (st \ {"BOOTING"}) \cup {"ALIVE"}
      [] was = {"DEAD"} /\ ~notActive -> (st \ {"DEAD"}) \cup {"ALIVE", "WANT_RECOVERY"}
      [] was \in {{}, {"DEAD"}} ->
            (st \ was) \cup (IF notActive THEN {"BOOTING"} ELSE {"ALIVE"})
      [] OTHER -> st

(* The rest of Recov_HostAlive: move to alive or booting, and want reboot  *)
(* recovery of a host that was dead or booting.                            *)
AfterSwitch(st, notActive) ==
    LET was == st \cap UpDown IN
    CASE was = {} -> st \cup (IF notActive THEN {"BOOTING"} ELSE {"ALIVE"})
      [] was = {"BOOTING"} ->
            IF notActive THEN st
            ELSE (st \ {"BOOTING"}) \cup {"ALIVE", "WANT_RECOVERY"}
      [] was = {"DEAD"} ->
            (st \ {"DEAD"}) \cup (IF notActive THEN {"BOOTING"}
                                  ELSE {"ALIVE", "WANT_RECOVERY"})
      [] OTHER -> st

StartsReboot(st) ==
    {"WANT_RECOVERY", "ALIVE"} \subseteq st /\ "REBOOT_CALLBACKS" \notin st

Switch(st, notActive) ==
    LET now == AfterSwitch(st, notActive) IN
    /\ hostState' = IF StartsReboot(now)
                    THEN (now \ {"WANT_RECOVERY"}) \cup {"REBOOT_CALLBACKS"}
                    ELSE now
    /\ rebootJob' = IF StartsReboot(now) THEN "queued" ELSE rebootJob

(* Recov_HostAlive called with asyncRecovery TRUE, by client RPC.          *)
HostAliveAsync(b, notActive) ==
    IF FastPath(b)
       THEN UNCHANGED <<hostState, bootID, cleanup, rebootJob, overlap>>
       ELSE /\ bootID' = b
            /\ ScheduleCleanup(BootCheckSchedules(b))
            /\ Switch(AfterBootCheck(b), notActive)

(* Recov_HostDead.  It schedules CrashCallBacks whether or not             *)
(* RECOV_CRASH_CALLBACKS is on already.                                    *)
DeadSchedules == "DEAD" \notin hostState

Recov_HostDead ==
    /\ ScheduleCleanup(DeadSchedules)
    /\ hostState' =
         IF DeadSchedules
         THEN (hostState \ {"ALIVE", "BOOTING"}) \cup {"DEAD", "CRASH_CALLBACKS"}
              \cup (IF "REBOOT_CALLBACKS" \in hostState THEN {"FAILURE"} ELSE {})
         ELSE hostState
    /\ UNCHANGED <<bootID, rebootJob>>

-----------------------------------------------------------------------------
(* Rpc_Server: a request of the peer, accepted, reported, served.  The     *)
(* process holds the request between the steps.                            *)

Receive(s) ==
    /\ srv[s].pc = "idle" /\ peer.up
    /\ srv' = [srv EXCEPT ![s] = [pc |-> "received", boot |-> peer.boot,
                                  notActive |-> ~peer.active]]
    /\ UNCHANGED <<peer, timeouts, hostVars, refs>>

(* Recov_HostAlive with asyncRecovery FALSE: the boot time stamp is looked *)
(* at once; then the process waits until the crash call-backs are done.    *)
HostAliveSync(s) ==
    LET b == srv[s].boot
        checked == AfterBootCheck(b)
    IN
    /\ srv[s].pc = "received"
    /\ UNCHANGED <<peer, timeouts, refs>>
    /\ IF FastPath(b)
       THEN /\ srv' = [srv EXCEPT ![s].pc = "service"]
            /\ UNCHANGED <<hostState, bootID, cleanup, rebootJob, overlap>>
       ELSE /\ bootID' = b
            /\ ScheduleCleanup(BootCheckSchedules(b))
            /\ IF "CRASH_CALLBACKS" \in checked
               THEN /\ srv' = [srv EXCEPT ![s].pc = "await"]
                    /\ hostState' = checked
                    /\ UNCHANGED rebootJob
               ELSE /\ srv' = [srv EXCEPT ![s].pc = "service"]
                    /\ Switch(checked, srv[s].notActive)

HostAliveSyncGoesOn(s) ==
    /\ srv[s].pc = "await" /\ "CRASH_CALLBACKS" \notin hostState
    /\ srv' = [srv EXCEPT ![s].pc = "service"]
    /\ Switch(hostState, srv[s].notActive)
    /\ UNCHANGED <<peer, timeouts, bootID, cleanup, refs, overlap>>

(* The service procedure leaves state of the client behind: an open file.  *)
Service(s) ==
    /\ srv[s].pc = "service"
    /\ srv' = [srv EXCEPT ![s] = Idle]
    /\ refs' = refs \cup {srv[s].boot}
    /\ UNCHANGED <<peer, timeouts, hostVars>>

-----------------------------------------------------------------------------
(* Rpc_Call by this kernel, and what it reports when it returns: the       *)
(* answer shows the incarnation that gave it.                              *)

MayTimeOut == ~peer.up \/ timeouts < MaxTimeouts

Answered(notActive) ==
    /\ peer.up /\ notActive = ~peer.active
    /\ HostAliveAsync(peer.boot, notActive)
    /\ UNCHANGED timeouts

TimedOut ==
    /\ MayTimeOut
    /\ timeouts' = IF peer.up THEN timeouts + 1 ELSE timeouts
    /\ Recov_HostDead

Call ==
    /\ Answered(~peer.active) \/ TimedOut
    /\ UNCHANGED <<peer, srv, refs>>

-----------------------------------------------------------------------------
(* CrashCallBacks, any activation of it: Fsutil_ClientCrashed removes what *)
(* the peer had, then MarkRecoveryComplete lets the server processes in.   *)

CrashCallBacks ==
    /\ cleanup["queued"] > 0
    /\ cleanup' = [cleanup EXCEPT !["queued"] = @ - 1, !["marking"] = @ + 1]
    /\ refs' = {}
    /\ UNCHANGED <<peer, timeouts, hostState, bootID, rebootJob, srv, overlap>>

(* Mutated form: an activation marks although it was never scheduled.      *)
MarkRecoveryCompleteTwice ==
    /\ cleanup' = [cleanup EXCEPT !["marking"] = @ - 1]
    /\ hostState' = hostState \ {"CRASH_CALLBACKS"}
    /\ UNCHANGED <<peer, timeouts, bootID, rebootJob, srv, refs, overlap>>

MarkRecoveryComplete ==
    /\ cleanup["marking"] > 0
    /\ cleanup' = [cleanup EXCEPT !["marking"] = @ - 1]
    /\ hostState' = hostState \ {"CRASH_CALLBACKS"}
    /\ UNCHANGED <<peer, timeouts, bootID, rebootJob, srv, refs, overlap>>

CleanupStep == CrashCallBacks \/ MarkRecoveryComplete

-----------------------------------------------------------------------------
(* CallBacksDone ends the reboot call-backs.  A failure meanwhile leaves   *)
(* RECOV_WANT_RECOVERY on for the next message of the peer to act on.      *)
CallBacksDoneState ==
    IF "FAILURE" \in hostState
    THEN (hostState \ {"REBOOT_CALLBACKS", "FAILURE"}) \cup {"WANT_RECOVERY"}
    ELSE hostState \ {"REBOOT_CALLBACKS"}

ServerStep(s) == HostAliveSync(s) \/ HostAliveSyncGoesOn(s) \/ Service(s)
=============================================================================
