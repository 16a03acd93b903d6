------------------------- MODULE FsRecoveryProofs -------------------------
(***************************************************************************)
(* Proofs about the recovery module and the reopening of handles, for any  *)
(* set of server processes, handles and user processes, and any number of  *)
(* incarnations of the peer and of spurious timeouts.                      *)
(***************************************************************************)
EXTENDS FsRecovery, FiniteSetTheorems, TLAPS

----------------------------------------------------------------------------
(* The inductive invariant.                                                *)

(* A peer that is down has an incarnation left to come back as.            *)
PeerComesBack == peer.up \/ peer.boot < MaxBoots

(* A request carries the boot time stamp of an incarnation.                *)
RequestsStamped == \A s \in Servers : srv[s].pc # "idle" => srv[s].boot \in Boots

(* At most one of the flags that say whether a host is up.                 *)
OneUpDown(st) == \A a, b \in st \cap UpDown : a = b

(* Without overlap there is one activation of CrashCallBacks at most, and  *)
(* the host is flagged as long as there is one.                            *)
CleanupFlagged ==
    \/ overlap
    \/ Outstanding(cleanup) = 0
    \/ Outstanding(cleanup) = 1 /\ "CRASH_CALLBACKS" \in hostState

(* What the recovery module keeps about the host.                          *)
HostShape ==
    /\ hostState \subseteq Flags
    /\ bootID \in 0 .. MaxBoots
    /\ cleanup \in [Phases -> Nat]
    /\ overlap \in BOOLEAN
    /\ rebootJob \in {"none", "queued", "running", "done"}
    /\ OneUpDown(hostState)
    /\ "REBOOT_CALLBACKS" \in hostState <=> rebootJob # "none"
    /\ "FAILURE" \in hostState => "REBOOT_CALLBACKS" \in hostState
    /\ "CRASH_CALLBACKS" \in hostState => Outstanding(cleanup) > 0
    /\ CleanupFlagged

(* The rest of the kernel and of the peer.                                 *)
PeerShape ==
    /\ peer \in [boot : Boots, up : BOOLEAN, active : BOOLEAN]
    /\ timeouts \in 0 .. MaxTimeouts
    /\ srv \in [Servers -> [pc : {"idle", "received", "await", "service"},
                            boot : 0 .. MaxBoots, notActive : BOOLEAN]]
    /\ refs \subseteq Boots
    /\ PeerComesBack
    /\ RequestsStamped

(* Handles, and who is inside Fsutil_Reopen.                               *)
HandleShape ==
    /\ open \subseteq Handles
    /\ used \subseteq open
    /\ registered \in [Handles -> 0 .. MaxBoots]
    /\ valid \subseteq open
    /\ recov \in [Handles -> SUBSET RecoveryFlags]
    /\ inProgress \in BOOLEAN
    /\ swallowed \in BOOLEAN
    /\ reopen \in [Reopeners -> [pc : {"out", "start", "handles", "notify", "clear"},
                                 todo : SUBSET Handles]]
    /\ user \in [Users -> [pc : {"idle", "want", "waitForRecovery", "reopen", "wait"},
                           handle : Handles \cup {NoHandle}, stale : BOOLEAN]]

(* The call-back job is inside Fsutil_Reopen only while it runs.           *)
JobRuns == reopen["job"].pc # "out" => rebootJob = "running"

(* A user process is inside Fsutil_Reopen when its program says so, and    *)
(* has a handle whenever it is busy.                                       *)
UsersInside ==
    \A u \in Users : /\ user[u].pc = "reopen" <=> reopen[u].pc # "out"
                     /\ user[u].pc # "idle" => user[u].handle \in Handles

(* SRV_RECOV_IN_PROGRESS lets one process at a time do the reopening: the  *)
(* flag is on exactly while some process is past its test.                 *)
Reopening(r) == reopen[r].pc \in {"handles", "notify", "clear"}

OneReopener ==
    /\ inProgress <=> \E r \in Reopeners : Reopening(r)
    /\ \A r, q \in Reopeners : Reopening(r) /\ Reopening(q) => r = q

IInv == HostShape /\ PeerShape /\ HandleShape /\ JobRuns /\ UsersInside /\ OneReopener

----------------------------------------------------------------------------
(* The recovery module.                                                    *)

(* What a step of the recovery module may do to the reboot call-backs.     *)
JobKept == rebootJob' = rebootJob \/ (rebootJob = "none" /\ rebootJob' = "queued")

(* The flags that the code about up, down and booting does not touch.      *)
SameOthers(st, st2) == st \ UpDown \subseteq st2 /\ st2 \ UpDown \subseteq st

(* Looking at the boot time stamp makes a host that was up or booting one  *)
(* that boots, and flags the crash call-backs.                             *)
LEMMA BootCheckShape ==
    ASSUME hostState \subseteq Flags, OneUpDown(hostState), NEW b
    PROVE  /\ AfterBootCheck(b) \subseteq Flags
           /\ OneUpDown(AfterBootCheck(b))
           /\ \A f \in {"REBOOT_CALLBACKS", "FAILURE", "WANT_RECOVERY"} :
                  f \in AfterBootCheck(b) <=> f \in hostState
           /\ "CRASH_CALLBACKS" \in AfterBootCheck(b)
                  <=> "CRASH_CALLBACKS" \in hostState \/ Undetected(b)
<1>1. CASE Undetected(b)
  <2>1. AfterBootCheck(b) = (hostState \ {"ALIVE", "DEAD"}) \cup {"BOOTING", "CRASH_CALLBACKS"}
    BY <1>1 DEF AfterBootCheck
  <2> QED BY <1>1, <2>1 DEF OneUpDown, UpDown, Flags
<1>2. CASE ~Undetected(b)
  BY <1>2 DEF AfterBootCheck
<1> QED BY <1>1, <1>2

(* So does the switch of a host to alive or booting: it adds the wish for  *)
(* recovery at most.                                                       *)
LEMMA SwitchShape ==
    ASSUME NEW st \in SUBSET Flags, OneUpDown(st), NEW n \in BOOLEAN
    PROVE  /\ AfterSwitch(st, n) \subseteq Flags
           /\ OneUpDown(AfterSwitch(st, n))
           /\ \A f \in {"REBOOT_CALLBACKS", "FAILURE", "CRASH_CALLBACKS"} :
                  f \in AfterSwitch(st, n) <=> f \in st
<1>1. CASE st \cap UpDown = {}
  <2>1. AfterSwitch(st, n) = st \cup (IF n THEN {"BOOTING"} ELSE {"ALIVE"})
    BY <1>1 DEF AfterSwitch
  <2> QED BY <1>1, <2>1 DEF OneUpDown, UpDown, Flags
<1>2. CASE st \cap UpDown = {"BOOTING"}
  <2>1. AfterSwitch(st, n) = IF n THEN st
                             ELSE (st \ {"BOOTING"}) \cup {"ALIVE", "WANT_RECOVERY"}
    BY <1>2 DEF AfterSwitch
  <2> QED BY <1>2, <2>1 DEF OneUpDown, UpDown, Flags
<1>3. CASE st \cap UpDown = {"DEAD"}
  <2>1. AfterSwitch(st, n) = (st \ {"DEAD"}) \cup (IF n THEN {"BOOTING"}
                                                 ELSE {"ALIVE", "WANT_RECOVERY"})
    BY <1>3 DEF AfterSwitch
  <2> QED BY <1>3, <2>1 DEF OneUpDown, UpDown, Flags
<1>4. CASE st \cap UpDown \notin {{}, {"BOOTING"}, {"DEAD"}}
  <2>1. AfterSwitch(st, n) = st
    BY <1>4 DEF AfterSwitch
  <2> QED BY <2>1
<1> QED BY <1>1, <1>2, <1>3, <1>4

(* Switch starts the reboot call-backs only when none are scheduled.       *)
LEMMA SwitchJob ==
    ASSUME NEW st \in SUBSET Flags, OneUpDown(st), NEW n \in BOOLEAN,
           rebootJob \in {"none", "queued", "running", "done"},
           "REBOOT_CALLBACKS" \in st <=> rebootJob # "none",
           "FAILURE" \in st => "REBOOT_CALLBACKS" \in st,
           Switch(st, n)
    PROVE  /\ hostState' \subseteq Flags
           /\ OneUpDown(hostState')
           /\ rebootJob' \in {"none", "queued", "running", "done"}
           /\ "REBOOT_CALLBACKS" \in hostState' <=> rebootJob' # "none"
           /\ "FAILURE" \in hostState' => "REBOOT_CALLBACKS" \in hostState'
           /\ "CRASH_CALLBACKS" \in hostState' <=> "CRASH_CALLBACKS" \in st
           /\ JobKept
<1> DEFINE now == AfterSwitch(st, n)
<1>1. /\ now \subseteq Flags /\ OneUpDown(now)
      /\ \A f \in {"REBOOT_CALLBACKS", "FAILURE", "CRASH_CALLBACKS"} : f \in now <=> f \in st
  BY SwitchShape
<1>2. /\ hostState' = IF StartsReboot(now)
                      THEN (now \ {"WANT_RECOVERY"}) \cup {"REBOOT_CALLBACKS"}
                      ELSE now
      /\ rebootJob' = IF StartsReboot(now) THEN "queued" ELSE rebootJob
  BY DEF Switch
<1> HIDE DEF now
<1>3. CASE StartsReboot(now)
  <2>1. hostState' = (now \ {"WANT_RECOVERY"}) \cup {"REBOOT_CALLBACKS"}
        /\ rebootJob' = "queued" /\ "REBOOT_CALLBACKS" \notin now
    BY <1>2, <1>3 DEF StartsReboot
  <2> QED BY <1>1, <2>1 DEF OneUpDown, UpDown, Flags, JobKept
<1>4. CASE ~StartsReboot(now)
  <2>1. hostState' = now /\ rebootJob' = rebootJob
    BY <1>2, <1>4
  <2> QED BY <1>1, <2>1 DEF JobKept
<1> QED BY <1>3, <1>4

(* Scheduling counts one more activation.                                  *)
LEMMA ScheduleCounts ==
    ASSUME cleanup \in [Phases -> Nat], overlap \in BOOLEAN,
           NEW yes \in BOOLEAN, ScheduleCleanup(yes)
    PROVE  /\ cleanup' \in [Phases -> Nat]
           /\ overlap' \in BOOLEAN
           /\ Outstanding(cleanup) \in Nat
           /\ Outstanding(cleanup') = IF yes THEN Outstanding(cleanup) + 1
                                     ELSE Outstanding(cleanup)
           /\ overlap' <=> (overlap \/ (yes /\ Outstanding(cleanup) > 0))
<1>1. cleanup' = [cleanup EXCEPT !["queued"] = IF yes THEN @ + 1 ELSE @]
      /\ overlap' = (overlap \/ (yes /\ Outstanding(cleanup) > 0))
  BY DEF ScheduleCleanup
<1>2. cleanup' \in [Phases -> Nat]
  BY <1>1 DEF Phases
<1>3. /\ cleanup["queued"] \in Nat /\ cleanup["marking"] \in Nat
      /\ cleanup'["queued"] = IF yes THEN cleanup["queued"] + 1 ELSE cleanup["queued"]
      /\ cleanup'["marking"] = cleanup["marking"]
  BY <1>1 DEF Phases
<1>4. overlap' \in BOOLEAN
  BY <1>1
<1>5. Outstanding(cleanup) \in Nat
  BY <1>3 DEF Outstanding
<1>6. Outstanding(cleanup') = IF yes THEN Outstanding(cleanup) + 1
                              ELSE Outstanding(cleanup)
  BY <1>3 DEF Outstanding
<1> QED BY <1>1, <1>2, <1>4, <1>5, <1>6

(* The boot check counts the activation it schedules, and the flag goes on *)
(* when the first one is scheduled.                                        *)
LEMMA CleanupCounted ==
    ASSUME HostShape, NEW b, ScheduleCleanup(BootCheckSchedules(b)),
           "CRASH_CALLBACKS" \in hostState'
              <=> "CRASH_CALLBACKS" \in hostState \/ Undetected(b)
    PROVE  /\ cleanup' \in [Phases -> Nat] /\ overlap' \in BOOLEAN
           /\ "CRASH_CALLBACKS" \in hostState' => Outstanding(cleanup') > 0
           /\ CleanupFlagged'
<1> DEFINE yes == Undetected(b) /\ "CRASH_CALLBACKS" \notin hostState
           crash == "CRASH_CALLBACKS" \in hostState
<1>1. /\ cleanup' \in [Phases -> Nat]
      /\ overlap' \in BOOLEAN
      /\ Outstanding(cleanup) \in Nat
      /\ Outstanding(cleanup') = IF yes THEN Outstanding(cleanup) + 1
                                ELSE Outstanding(cleanup)
      /\ overlap' <=> (overlap \/ (yes /\ Outstanding(cleanup) > 0))
  <2>1. yes \in BOOLEAN /\ ScheduleCleanup(yes)
    BY DEF BootCheckSchedules
  <2> HIDE DEF yes
  <2> QED BY <2>1, ScheduleCounts DEF HostShape
<1>2. /\ crash => Outstanding(cleanup) > 0
      /\ overlap \/ Outstanding(cleanup) = 0 \/ (Outstanding(cleanup) = 1 /\ crash)
  BY DEF HostShape, CleanupFlagged
<1>3. /\ crash' => Outstanding(cleanup') > 0
      /\ overlap' \/ Outstanding(cleanup') = 0 \/ (Outstanding(cleanup') = 1 /\ crash')
  <2>1. CASE yes
    <3>1. crash'
      BY <2>1
    <3>2. CASE Outstanding(cleanup) > 0
      BY <1>1, <2>1, <3>1, <3>2
    <3>3. CASE Outstanding(cleanup) = 0
      BY <1>1, <2>1, <3>1, <3>3
    <3> QED BY <1>1, <3>2, <3>3
  <2>2. CASE ~yes
    <3>1. crash' <=> crash
      BY <2>2
    <3>2. CASE overlap
      BY <1>1, <1>2, <2>2, <3>1, <3>2
    <3>3. CASE ~overlap
      BY <1>1, <1>2, <2>2, <3>1, <3>3
    <3> QED BY <3>2, <3>3
  <2> QED BY <2>1, <2>2
<1> QED BY <1>1, <1>3 DEF CleanupFlagged

(* Recov_HostAlive with the boot check and the switch, from a call.        *)
LEMMA AliveAsyncShape ==
    ASSUME HostShape, NEW b \in 0 .. MaxBoots, NEW n \in BOOLEAN, HostAliveAsync(b, n)
    PROVE  HostShape' /\ JobKept
<1>1. CASE FastPath(b)
  <2>1. UNCHANGED <<hostState, bootID, cleanup, rebootJob, overlap>>
    BY <1>1 DEF HostAliveAsync
  <2> QED BY <2>1 DEF HostShape, JobKept, CleanupFlagged, Outstanding, OneUpDown
<1>2. CASE ~FastPath(b)
  <2>1. bootID' = b /\ ScheduleCleanup(BootCheckSchedules(b))
        /\ Switch(AfterBootCheck(b), n)
    BY <1>2 DEF HostAliveAsync
  <2>2. /\ AfterBootCheck(b) \subseteq Flags
        /\ OneUpDown(AfterBootCheck(b))
        /\ \A f \in {"REBOOT_CALLBACKS", "FAILURE", "WANT_RECOVERY"} :
               f \in AfterBootCheck(b) <=> f \in hostState
        /\ "CRASH_CALLBACKS" \in AfterBootCheck(b)
               <=> "CRASH_CALLBACKS" \in hostState \/ Undetected(b)
    BY BootCheckShape DEF HostShape
  <2>3. /\ hostState' \subseteq Flags
        /\ OneUpDown(hostState')
        /\ rebootJob' \in {"none", "queued", "running", "done"}
        /\ "REBOOT_CALLBACKS" \in hostState' <=> rebootJob' # "none"
        /\ "FAILURE" \in hostState' => "REBOOT_CALLBACKS" \in hostState'
        /\ "CRASH_CALLBACKS" \in hostState' <=> "CRASH_CALLBACKS" \in AfterBootCheck(b)
        /\ JobKept
    BY <2>1, <2>2, SwitchJob DEF HostShape
  <2>4. /\ cleanup' \in [Phases -> Nat] /\ overlap' \in BOOLEAN
        /\ "CRASH_CALLBACKS" \in hostState' => Outstanding(cleanup') > 0
        /\ CleanupFlagged'
    BY <2>1, <2>2, <2>3, CleanupCounted
  <2> QED BY <2>1, <2>3, <2>4 DEF HostShape
<1> QED BY <1>1, <1>2

(* Recov_HostDead schedules an activation and flags the host, which is now *)
(* dead and nothing else.                                                  *)
LEMMA HostDeadShape ==
    ASSUME HostShape, Recov_HostDead
    PROVE  HostShape' /\ JobKept
<1>1. bootID' = bootID /\ rebootJob' = rebootJob /\ ScheduleCleanup(DeadSchedules)
  BY DEF Recov_HostDead
<1>2. CASE DeadSchedules
  <2>1. hostState' = (hostState \ {"ALIVE", "BOOTING"}) \cup {"DEAD", "CRASH_CALLBACKS"}
              \cup (IF "REBOOT_CALLBACKS" \in hostState THEN {"FAILURE"} ELSE {})
    BY <1>2 DEF Recov_HostDead
  <2>2. /\ hostState' \subseteq Flags
        /\ OneUpDown(hostState')
        /\ "REBOOT_CALLBACKS" \in hostState' <=> rebootJob' # "none"
        /\ "FAILURE" \in hostState' => "REBOOT_CALLBACKS" \in hostState'
        /\ "CRASH_CALLBACKS" \in hostState'
    BY <1>1, <2>1 DEF HostShape, OneUpDown, UpDown, Flags
  <2>3. /\ cleanup' \in [Phases -> Nat]
        /\ overlap' \in BOOLEAN
        /\ Outstanding(cleanup) \in Nat
        /\ Outstanding(cleanup') = Outstanding(cleanup) + 1
        /\ overlap' <=> (overlap \/ Outstanding(cleanup) > 0)
    <3>1. ScheduleCleanup(TRUE)
      BY <1>1, <1>2 DEF ScheduleCleanup
    <3> QED BY <3>1, ScheduleCounts DEF HostShape
  <2>4. Outstanding(cleanup') > 0 /\ (overlap' \/ Outstanding(cleanup') = 1)
    <3>1. CASE Outstanding(cleanup) > 0
      BY <2>3, <3>1
    <3>2. CASE Outstanding(cleanup) = 0
      BY <2>3, <3>2
    <3> QED BY <2>3, <3>1, <3>2
  <2> QED BY <1>1, <2>2, <2>3, <2>4 DEF HostShape, CleanupFlagged, JobKept
<1>3. CASE ~DeadSchedules
  <2>1. hostState' = hostState
    BY <1>3 DEF Recov_HostDead
  <2>2. /\ cleanup' \in [Phases -> Nat]
        /\ overlap' \in BOOLEAN
        /\ Outstanding(cleanup') = Outstanding(cleanup)
        /\ overlap' <=> overlap
    <3>1. ScheduleCleanup(FALSE)
      BY <1>1, <1>3 DEF ScheduleCleanup
    <3> QED BY <3>1, ScheduleCounts DEF HostShape
  <2> QED BY <1>1, <2>1, <2>2 DEF HostShape, CleanupFlagged, JobKept, OneUpDown
<1> QED BY <1>2, <1>3

(* A server process that has to wait leaves the switch for later.          *)
LEMMA AliveSyncShape ==
    ASSUME HostShape, PeerShape, NEW s \in Servers, HostAliveSync(s)
    PROVE  HostShape' /\ JobKept
<1> DEFINE b == srv[s].boot
           n == srv[s].notActive
<1>1. b \in 0 .. MaxBoots /\ n \in BOOLEAN
  BY DEF PeerShape
<1>2. CASE FastPath(b) \/ "CRASH_CALLBACKS" \notin AfterBootCheck(b)
  <2>1. HostAliveAsync(b, n)
    BY <1>2 DEF HostAliveSync, HostAliveAsync
  <2> QED BY <1>1, <2>1, AliveAsyncShape
<1>3. CASE ~FastPath(b) /\ "CRASH_CALLBACKS" \in AfterBootCheck(b)
  <2>1. /\ bootID' = b /\ ScheduleCleanup(BootCheckSchedules(b))
        /\ hostState' = AfterBootCheck(b) /\ rebootJob' = rebootJob
    BY <1>3 DEF HostAliveSync
  <2>2. /\ hostState' \subseteq Flags
        /\ OneUpDown(hostState')
        /\ \A f \in {"REBOOT_CALLBACKS", "FAILURE", "WANT_RECOVERY"} :
               f \in hostState' <=> f \in hostState
        /\ "CRASH_CALLBACKS" \in hostState'
               <=> "CRASH_CALLBACKS" \in hostState \/ Undetected(b)
    BY <2>1, BootCheckShape DEF HostShape
  <2>3. /\ cleanup' \in [Phases -> Nat] /\ overlap' \in BOOLEAN
        /\ "CRASH_CALLBACKS" \in hostState' => Outstanding(cleanup') > 0
        /\ CleanupFlagged'
    BY <2>1, <2>2, CleanupCounted
  <2> QED BY <1>1, <2>1, <2>2, <2>3 DEF HostShape, JobKept
<1> QED BY <1>2, <1>3

(* It makes the switch when it goes on.                                    *)
LEMMA GoesOnShape ==
    ASSUME HostShape, PeerShape, NEW s \in Servers, HostAliveSyncGoesOn(s)
    PROVE  HostShape' /\ JobKept
<1>1. /\ Switch(hostState, srv[s].notActive) /\ srv[s].notActive \in BOOLEAN
      /\ UNCHANGED <<bootID, cleanup, overlap>>
  BY DEF HostAliveSyncGoesOn, PeerShape
<1>2. /\ hostState' \subseteq Flags
      /\ OneUpDown(hostState')
      /\ rebootJob' \in {"none", "queued", "running", "done"}
      /\ "REBOOT_CALLBACKS" \in hostState' <=> rebootJob' # "none"
      /\ "FAILURE" \in hostState' => "REBOOT_CALLBACKS" \in hostState'
      /\ "CRASH_CALLBACKS" \in hostState' <=> "CRASH_CALLBACKS" \in hostState
      /\ JobKept
  BY <1>1, SwitchJob DEF HostShape
<1> QED BY <1>1, <1>2 DEF HostShape, CleanupFlagged

(* An activation moves on, then clears the flag and is gone.               *)
LEMMA CleanupShape ==
    ASSUME HostShape, CleanupStep
    PROVE  HostShape' /\ JobKept
<1>1. CASE CrashCallBacks
  <2>1. cleanup' \in [Phases -> Nat] /\ Outstanding(cleanup') = Outstanding(cleanup)
    BY <1>1 DEF HostShape, CrashCallBacks, Outstanding, Phases
  <2>2. UNCHANGED <<hostState, bootID, rebootJob, overlap>>
    BY <1>1 DEF CrashCallBacks
  <2> QED BY <2>1, <2>2 DEF HostShape, CleanupFlagged, JobKept
<1>2. CASE MarkRecoveryComplete
  <2>1. /\ cleanup' \in [Phases -> Nat]
        /\ Outstanding(cleanup') = Outstanding(cleanup) - 1
        /\ Outstanding(cleanup) \in Nat \ {0}
    BY <1>2 DEF HostShape, MarkRecoveryComplete, Outstanding, Phases
  <2>2. /\ hostState' = hostState \ {"CRASH_CALLBACKS"}
        /\ UNCHANGED <<bootID, rebootJob, overlap>>
    BY <1>2 DEF MarkRecoveryComplete
  <2>3. CleanupFlagged'
    BY <2>1, <2>2 DEF HostShape, CleanupFlagged
  <2> QED BY <2>1, <2>2, <2>3 DEF HostShape, JobKept, OneUpDown
<1> QED BY <1>1, <1>2 DEF CleanupStep

(* The end of the reboot call-backs.                                       *)
LEMMA CallBacksDoneShape ==
    ASSUME HostShape, CallBacksDone
    PROVE  HostShape'
<1>1. /\ rebootJob' = "none" /\ hostState' = CallBacksDoneState
      /\ UNCHANGED <<bootID, cleanup, overlap>>
  BY DEF CallBacksDone
<1>2. /\ hostState' \subseteq Flags
      /\ OneUpDown(hostState')
      /\ {"REBOOT_CALLBACKS", "FAILURE"} \cap hostState' = {}
      /\ "CRASH_CALLBACKS" \in hostState' <=> "CRASH_CALLBACKS" \in hostState
  BY <1>1 DEF HostShape, CallBacksDoneState, OneUpDown, UpDown, Flags
<1> QED BY <1>1, <1>2 DEF HostShape, CleanupFlagged

(* What Rpc_Call reports when it returns.                                  *)
LEMMA ReportShape ==
    ASSUME HostRecoveryAssumption, HostShape, PeerShape,
           \/ \E n \in BOOLEAN : Answered(n)
           \/ TimedOut
    PROVE  HostShape' /\ JobKept /\ timeouts' \in 0 .. MaxTimeouts
<1>1. CASE TimedOut
  <2>1. timeouts' \in 0 .. MaxTimeouts
    BY <1>1 DEF TimedOut, MayTimeOut, PeerShape, HostRecoveryAssumption
  <2> QED BY <1>1, <2>1, HostDeadShape DEF TimedOut
<1>2. ASSUME NEW n \in BOOLEAN, Answered(n)
      PROVE  HostShape' /\ JobKept /\ timeouts' \in 0 .. MaxTimeouts
  <2>1. HostAliveAsync(peer.boot, n) /\ timeouts' = timeouts
    BY <1>2 DEF Answered
  <2>2. peer.boot \in 0 .. MaxBoots
    BY DEF PeerShape, Boots, HostRecoveryAssumption
  <2> QED BY <2>1, <2>2, AliveAsyncShape DEF PeerShape
<1> QED BY <1>1, <1>2

----------------------------------------------------------------------------
(* The peer and the server processes.                                      *)

LEMMA PeerStepShape ==
    ASSUME HostRecoveryAssumption, PeerShape,
           PeerCrashes \/ PeerBoots \/ PeerActive
    PROVE  PeerShape' /\ UNCHANGED hostVars
<1>1. CASE PeerCrashes
  BY <1>1 DEF PeerCrashes, PeerShape, PeerComesBack, RequestsStamped
<1>2. CASE PeerBoots
  <2>1. peer.boot < MaxBoots /\ peer.boot \in Boots
    BY <1>2 DEF PeerBoots, PeerShape, PeerComesBack
  <2>2. peer.boot + 1 \in Boots
    BY <2>1 DEF Boots, HostRecoveryAssumption
  <2>3. /\ peer' = [peer EXCEPT !.boot = peer.boot + 1, !.up = TRUE]
        /\ UNCHANGED <<timeouts, hostVars, srv, refs>>
    BY <1>2 DEF PeerBoots
  <2> QED BY <2>2, <2>3 DEF PeerShape, PeerComesBack, RequestsStamped
<1>3. CASE PeerActive
  BY <1>3 DEF PeerActive, PeerShape, PeerComesBack, RequestsStamped
<1> QED BY <1>1, <1>2, <1>3

LEMMA ServerStepShape ==
    ASSUME HostRecoveryAssumption, PeerShape, NEW s \in Servers,
           Receive(s) \/ HostAliveSync(s) \/ HostAliveSyncGoesOn(s) \/ Service(s)
    PROVE  PeerShape'
<1>0. Boots \subseteq 0 .. MaxBoots
  BY DEF Boots, HostRecoveryAssumption
<1>1. CASE Receive(s)
  <2>1. /\ srv' = [srv EXCEPT ![s] = [pc |-> "received", boot |-> peer.boot,
                                      notActive |-> ~peer.active]]
        /\ UNCHANGED <<peer, timeouts, refs>>
    BY <1>1 DEF Receive
  <2>2. peer.boot \in Boots /\ peer.active \in BOOLEAN
    BY DEF PeerShape
  <2> QED BY <1>0, <2>1, <2>2 DEF PeerShape, PeerComesBack, RequestsStamped
<1>2. CASE HostAliveSync(s) \/ HostAliveSyncGoesOn(s)
  <2>1. /\ srv[s].pc # "idle"
        /\ UNCHANGED <<peer, timeouts, refs>>
        /\ \/ srv' = [srv EXCEPT ![s].pc = "service"]
           \/ srv' = [srv EXCEPT ![s].pc = "await"]
    BY <1>2 DEF HostAliveSync, HostAliveSyncGoesOn
  <2>2. CASE srv' = [srv EXCEPT ![s].pc = "service"]
    BY <2>1, <2>2 DEF PeerShape, PeerComesBack, RequestsStamped
  <2>3. CASE srv' = [srv EXCEPT ![s].pc = "await"]
    BY <2>1, <2>3 DEF PeerShape, PeerComesBack, RequestsStamped
  <2> QED BY <2>1, <2>2, <2>3
<1>3. CASE Service(s)
  BY <1>3 DEF Service, Idle, PeerShape, PeerComesBack, RequestsStamped,
                HostRecoveryAssumption
<1> QED BY <1>1, <1>2, <1>3

----------------------------------------------------------------------------
(* The handles and Fsutil_Reopen.                                          *)

Kernel == HandleShape /\ JobRuns /\ UsersInside /\ OneReopener

(* As long as the recovery module only schedules the job, the handles and  *)
(* the processes inside Fsutil_Reopen stay what they are.                  *)
LEMMA KernelKept ==
    ASSUME Kernel, JobKept, UNCHANGED fsVars
    PROVE  Kernel'
  BY DEF Kernel, JobKept, fsVars, HandleShape, JobRuns, UsersInside, OneReopener,
         Reopening, Reopeners

LEMMA CallBacksDoneKernel ==
    ASSUME Kernel, CallBacksDone
    PROVE  Kernel'
  BY DEF Kernel, CallBacksDone, fsVars, HandleShape, JobRuns, UsersInside,
         OneReopener, Reopening, Reopeners

(* The job enters Fsutil_Reopen; it was not inside.                        *)
LEMMA JobStarts ==
    ASSUME FsRecoveryAssumption, Kernel, RebootCallBacksStart
    PROVE  Kernel'
<1>1. reopen["job"].pc = "out" /\ "job" \in Reopeners
  BY DEF Kernel, RebootCallBacksStart, JobRuns, HandleShape, Reopeners
<1>2. CASE valid = {}
  BY <1>1, <1>2 DEF Kernel, RebootCallBacksStart, HandleShape, JobRuns, UsersInside,
         OneReopener, Reopening, Reopeners
<1>3. CASE valid # {}
  <2>1. /\ reopen' = [reopen EXCEPT !["job"].pc = "start"] /\ rebootJob' = "running"
        /\ UNCHANGED <<open, used, registered, valid, recov, inProgress, user, swallowed>>
    BY <1>3 DEF RebootCallBacksStart
  <2>2. HandleShape' /\ JobRuns'
    BY <1>1, <2>1 DEF Kernel, HandleShape, JobRuns
  <2>3. UsersInside'
    BY <2>1 DEF Kernel, HandleShape, UsersInside, Reopeners, FsRecoveryAssumption
  <2>4. \A r \in Reopeners : Reopening(r)' <=> Reopening(r)
    BY <1>1, <2>1 DEF Kernel, HandleShape, Reopening
  <2> QED BY <2>1, <2>2, <2>3, <2>4 DEF Kernel, OneReopener
<1> QED BY <1>2, <1>3

(* The job was there when it starts or ends.                               *)
JobMoves == rebootJob' = rebootJob \/ (rebootJob # "none" /\ rebootJob' \in {"running", "done"})

LEMMA JobMovesShape ==
    ASSUME HostShape, JobMoves, UNCHANGED <<hostState, bootID, cleanup, overlap>>
    PROVE  HostShape'
  BY DEF HostShape, JobMoves, CleanupFlagged

(* Whoever is inside Fsutil_Reopen can leave it: the job is done then, a   *)
(* user process goes on to wait.                                           *)
LEMMA LeaveShape ==
    ASSUME FsRecoveryAssumption, HandleShape, JobRuns, UsersInside,
           NEW r \in Reopeners, reopen[r].pc # "out", Leave(r)
    PROVE  /\ reopen' = [reopen EXCEPT ![r] = Out]
           /\ reopen' \in [Reopeners -> [pc : {"out", "start", "handles", "notify", "clear"},
                                         todo : SUBSET Handles]]
           /\ user' \in [Users -> [pc : {"idle", "want", "waitForRecovery", "reopen", "wait"},
                                   handle : Handles \cup {NoHandle}, stale : BOOLEAN]]
           /\ JobRuns' /\ UsersInside' /\ JobMoves
<1>1. reopen' = [reopen EXCEPT ![r] = Out]
  BY DEF Leave
<1>2. reopen' \in [Reopeners -> [pc : {"out", "start", "handles", "notify", "clear"},
                                 todo : SUBSET Handles]]
  BY <1>1 DEF HandleShape, Out
<1>3. CASE r = "job"
  <2>1. rebootJob' = "done" /\ user' = user /\ r \notin Users
    BY <1>3 DEF Leave, FsRecoveryAssumption
  <2>2. JobRuns' /\ JobMoves
    BY <1>1, <1>3, <2>1 DEF HandleShape, JobRuns, JobMoves, Out
  <2>3. UsersInside'
    BY <1>1, <2>1 DEF HandleShape, UsersInside, Reopeners
  <2> QED BY <1>1, <1>2, <2>1, <2>2, <2>3 DEF HandleShape
<1>4. CASE r # "job"
  <2>1. rebootJob' = rebootJob /\ user' = [user EXCEPT ![r].pc = "wait"] /\ r \in Users
    BY <1>4 DEF Leave, Reopeners
  <2>2. JobRuns' /\ JobMoves
    BY <1>1, <1>4, <2>1 DEF HandleShape, JobRuns, JobMoves, Reopeners
  <2>3. user' \in [Users -> [pc : {"idle", "want", "waitForRecovery", "reopen", "wait"},
                             handle : Handles \cup {NoHandle}, stale : BOOLEAN]]
    BY <2>1 DEF HandleShape
  <2>4. UsersInside'
    BY <1>1, <2>1 DEF HandleShape, UsersInside, Reopeners, Out
  <2> QED BY <1>1, <1>2, <2>2, <2>3, <2>4
<1> QED BY <1>3, <1>4

(* A step inside Fsutil_Reopen that stays inside.                          *)
LEMMA InsideShape ==
    ASSUME FsRecoveryAssumption, HandleShape, JobRuns, UsersInside,
           NEW r \in Reopeners, reopen[r].pc # "out",
           NEW x \in [pc : {"handles", "notify", "clear"}, todo : SUBSET Handles],
           reopen' = [reopen EXCEPT ![r] = x],
           JobKept, UNCHANGED user
    PROVE  /\ reopen' \in [Reopeners -> [pc : {"out", "start", "handles", "notify", "clear"},
                                         todo : SUBSET Handles]]
           /\ JobRuns' /\ UsersInside'
           /\ \A q \in Reopeners : Reopening(q)' <=> q = r \/ Reopening(q)
<1>1. reopen' \in [Reopeners -> [pc : {"out", "start", "handles", "notify", "clear"},
                                 todo : SUBSET Handles]]
  BY DEF HandleShape
<1>2. /\ x.pc \in {"handles", "notify", "clear"}
      /\ \A q \in Reopeners : reopen'[q] = IF q = r THEN x ELSE reopen[q]
  BY DEF HandleShape
<1>3. JobRuns'
  BY <1>2 DEF JobRuns, JobKept, Reopeners
<1>4. UsersInside'
  BY <1>2 DEF UsersInside, Reopeners
<1>5. \A q \in Reopeners : Reopening(q)' <=> q = r \/ Reopening(q)
  BY <1>2 DEF Reopening
<1> QED BY <1>1, <1>3, <1>4, <1>5

LEMMA PassShape ==
    ASSUME NEW pc \in {"handles", "notify", "clear"}, NEW todo \in SUBSET Handles
    PROVE  Pass(pc, todo) \in [pc : {"handles", "notify", "clear"}, todo : SUBSET Handles]
  BY DEF Pass

(* The test and set lets the first one in and turns the others away.       *)
LEMMA ReopenStartKernel ==
    ASSUME FsRecoveryAssumption, Kernel, NEW r \in Reopeners, ReopenStart(r)
    PROVE  Kernel' /\ JobMoves
<1>1. /\ reopen[r].pc = "start" /\ inProgress' = TRUE
      /\ UNCHANGED <<open, used, registered, valid, recov>>
  BY DEF ReopenStart
<1>2. HandleShape /\ JobRuns /\ UsersInside /\ OneReopener
  BY DEF Kernel
<1>3. ~Reopening(r)
  BY <1>1 DEF Reopening
<1>4. CASE inProgress
  <2>1. Leave(r) /\ swallowed' = (swallowed \/ r = "job")
    BY <1>4 DEF ReopenStart
  <2>2. /\ reopen' = [reopen EXCEPT ![r] = Out]
        /\ reopen' \in [Reopeners -> [pc : {"out", "start", "handles", "notify", "clear"},
                                      todo : SUBSET Handles]]
        /\ user' \in [Users -> [pc : {"idle", "want", "waitForRecovery", "reopen", "wait"},
                                handle : Handles \cup {NoHandle}, stale : BOOLEAN]]
        /\ JobRuns' /\ UsersInside' /\ JobMoves
    BY <1>1, <1>2, <2>1, LeaveShape
  <2>3. \A q \in Reopeners : Reopening(q)' <=> Reopening(q)
    BY <1>2, <1>3, <2>2 DEF HandleShape, Reopening, Out
  <2>4. OneReopener'
    BY <1>1, <1>2, <1>4, <2>3 DEF OneReopener
  <2>5. HandleShape'
    BY <1>1, <1>2, <2>1, <2>2 DEF HandleShape
  <2> QED BY <2>2, <2>4, <2>5 DEF Kernel
<1>5. CASE ~inProgress
  <2>1. /\ reopen' = [reopen EXCEPT ![r] = Pass("handles", valid)]
        /\ UNCHANGED <<rebootJob, user, swallowed>>
    BY <1>5 DEF ReopenStart
  <2>2. Pass("handles", valid) \in [pc : {"handles", "notify", "clear"}, todo : SUBSET Handles]
    BY <1>2, PassShape DEF HandleShape
  <2>3. /\ reopen' \in [Reopeners -> [pc : {"out", "start", "handles", "notify", "clear"},
                                      todo : SUBSET Handles]]
        /\ JobRuns' /\ UsersInside'
        /\ \A q \in Reopeners : Reopening(q)' <=> q = r \/ Reopening(q)
    BY <1>1, <1>2, <2>1, <2>2, InsideShape DEF JobKept
  <2>4. OneReopener'
    BY <1>1, <1>2, <1>5, <2>3 DEF OneReopener
  <2>5. HandleShape'
    BY <1>1, <1>2, <2>1, <2>3 DEF HandleShape
  <2> QED BY <2>1, <2>3, <2>4, <2>5 DEF Kernel, JobMoves
<1> QED BY <1>4, <1>5

(* The passes of ReopenHandles keep the one process in.                    *)
LEMMA PassKernel ==
    ASSUME FsRecoveryAssumption, Kernel, NEW r \in Reopeners,
           Reopening(r), JobKept,
           NEW x \in [pc : {"handles", "notify", "clear"}, todo : SUBSET Handles],
           reopen' = [reopen EXCEPT ![r] = x],
           registered' \in [Handles -> 0 .. MaxBoots], valid' \subseteq valid,
           recov' \in [Handles -> SUBSET RecoveryFlags],
           UNCHANGED <<open, used, inProgress, user, swallowed>>
    PROVE  Kernel'
<1>1. HandleShape /\ JobRuns /\ UsersInside /\ OneReopener
  BY DEF Kernel
<1>2. /\ reopen' \in [Reopeners -> [pc : {"out", "start", "handles", "notify", "clear"},
                                    todo : SUBSET Handles]]
      /\ JobRuns' /\ UsersInside'
      /\ \A q \in Reopeners : Reopening(q)' <=> q = r \/ Reopening(q)
  BY <1>1, InsideShape DEF Reopening
<1>3. OneReopener'
  BY <1>1, <1>2 DEF OneReopener
<1>4. HandleShape'
  BY <1>1, <1>2 DEF HandleShape
<1> QED BY <1>2, <1>3, <1>4 DEF Kernel

LEMMA ReopenHandleKernel ==
    ASSUME HostRecoveryAssumption, FsRecoveryAssumption, HostShape, PeerShape, Kernel,
           NEW r \in Reopeners, ReopenHandle(r)
    PROVE  HostShape' /\ PeerShape' /\ Kernel'
<1>1. PICK h \in reopen[r].todo :
          Reopened(r, h) \/ ReopenAvoided(r, h) \/ ReopenFails(r, h)
  BY DEF ReopenHandle
<1>2. /\ Reopening(r) /\ h \in Handles /\ valid \subseteq Handles
      /\ reopen[r].todo \in SUBSET Handles
      /\ peer.boot \in 0 .. MaxBoots
      /\ UNCHANGED <<peer, srv, refs, open, used, inProgress, user, swallowed>>
  BY DEF ReopenHandle, Reopening, Kernel, HandleShape, PeerShape, Boots,
         HostRecoveryAssumption
<1>3. HostShape' /\ JobKept /\ timeouts' \in 0 .. MaxTimeouts
  <2>1. CASE Reopened(r, h) \/ ReopenFails(r, h)
    BY <2>1, ReportShape DEF Reopened, ReopenFails
  <2>2. CASE ReopenAvoided(r, h)
    <3>1. UNCHANGED <<timeouts, hostVars>>
      BY <2>2 DEF ReopenAvoided
    <3> QED BY <3>1 DEF hostVars, HostShape, PeerShape, JobKept, OneUpDown,
                       CleanupFlagged, Outstanding
  <2> QED BY <1>1, <2>1, <2>2
<1>4. PeerShape'
  BY <1>2, <1>3 DEF PeerShape, PeerComesBack, RequestsStamped
<1>5. CASE Reopened(r, h) \/ ReopenAvoided(r, h)
  <2>1. /\ registered' \in [Handles -> 0 .. MaxBoots]
        /\ recov' \in [Handles -> SUBSET RecoveryFlags]
        /\ valid' \subseteq valid
        /\ HandleDone(r, h)
    <3>1. CASE Reopened(r, h)
      BY <1>2, <3>1 DEF Reopened, Kernel, HandleShape, RecoveryFlags
    <3>2. CASE ReopenAvoided(r, h)
      BY <1>2, <3>2 DEF ReopenAvoided, Kernel, HandleShape, RecoveryFlags
    <3> QED BY <1>5, <3>1, <3>2
  <2> DEFINE x == IF reopen[r].todo = {h} THEN Pass("notify", valid')
                  ELSE Pass("handles", reopen[r].todo \ {h})
  <2>2. x \in [pc : {"handles", "notify", "clear"}, todo : SUBSET Handles]
    BY <1>2, <2>1, PassShape
  <2>3. reopen' = [reopen EXCEPT ![r] = x]
    BY <2>1 DEF HandleDone
  <2> HIDE DEF x
  <2>4. Kernel'
    BY <1>2, <1>3, <2>1, <2>2, <2>3, PassKernel
  <2> QED BY <1>3, <1>4, <2>4
<1>6. CASE ReopenFails(r, h)
  <2>1. /\ registered' \in [Handles -> 0 .. MaxBoots]
        /\ recov' \in [Handles -> SUBSET RecoveryFlags]
        /\ valid' \subseteq valid
        /\ reopen' = [reopen EXCEPT ![r] = Pass("clear", {})]
    BY <1>6 DEF ReopenFails, Kernel, HandleShape
  <2>2. Pass("clear", {}) \in [pc : {"handles", "notify", "clear"}, todo : SUBSET Handles]
    BY PassShape
  <2>3. Kernel'
    BY <1>2, <1>3, <2>1, <2>2, PassKernel
  <2> QED BY <1>3, <1>4, <2>3
<1> QED BY <1>1, <1>5, <1>6

LEMMA RecoveryNotifyKernel ==
    ASSUME FsRecoveryAssumption, Kernel, NEW r \in Reopeners, RecoveryNotify(r)
    PROVE  Kernel'
<1>1. PICK h \in reopen[r].todo :
        /\ reopen' = [reopen EXCEPT ![r] = Pass("notify", reopen[r].todo \ {h})]
        /\ recov' = [recov EXCEPT ![h] = IF "COMPLETE" \in recov[h]
                                         THEN recov[h] \ {"COMPLETE", "NEEDED"} ELSE recov[h]]
        /\ valid' = IF "FAILED" \in recov[h] THEN valid \ {h} ELSE valid
  BY DEF RecoveryNotify, Kernel, HandleShape
<1>2. /\ Reopening(r) /\ reopen[r].todo \in SUBSET Handles /\ h \in Handles
      /\ UNCHANGED <<rebootJob, open, used, registered, inProgress, user, swallowed>>
  BY DEF RecoveryNotify, Reopening, Kernel, HandleShape, recovVars
<1>3. Pass("notify", reopen[r].todo \ {h})
          \in [pc : {"handles", "notify", "clear"}, todo : SUBSET Handles]
  BY <1>2, PassShape
<1>4. recov' \in [Handles -> SUBSET RecoveryFlags] /\ valid' \subseteq valid
  BY <1>1, <1>2 DEF Kernel, HandleShape
<1>5. registered' \in [Handles -> 0 .. MaxBoots]
  BY <1>2 DEF Kernel, HandleShape
<1> QED BY <1>1, <1>2, <1>3, <1>4, <1>5, PassKernel DEF JobKept

(* The one process that reopened leaves and clears the flag.               *)
LEMMA ReopenDoneKernel ==
    ASSUME FsRecoveryAssumption, Kernel, NEW r \in Reopeners, ReopenDone(r)
    PROVE  Kernel' /\ JobMoves
<1>1. /\ reopen[r].pc = "clear" /\ inProgress' = FALSE /\ Leave(r)
      /\ UNCHANGED <<open, used, registered, valid, recov, swallowed>>
  BY DEF ReopenDone
<1>2. HandleShape /\ JobRuns /\ UsersInside /\ OneReopener
  BY DEF Kernel
<1>3. /\ reopen' = [reopen EXCEPT ![r] = Out]
      /\ reopen' \in [Reopeners -> [pc : {"out", "start", "handles", "notify", "clear"},
                                    todo : SUBSET Handles]]
      /\ user' \in [Users -> [pc : {"idle", "want", "waitForRecovery", "reopen", "wait"},
                              handle : Handles \cup {NoHandle}, stale : BOOLEAN]]
      /\ JobRuns' /\ UsersInside' /\ JobMoves
  BY <1>1, <1>2, LeaveShape
<1>4. Reopening(r) /\ \A q \in Reopeners : Reopening(q)' <=> q # r /\ Reopening(q)
  BY <1>1, <1>2, <1>3 DEF HandleShape, Reopening, Out
<1>5. OneReopener'
  BY <1>1, <1>2, <1>4 DEF OneReopener
<1>6. HandleShape'
  BY <1>1, <1>2, <1>3 DEF HandleShape
<1> QED BY <1>3, <1>5, <1>6 DEF Kernel

----------------------------------------------------------------------------
(* The processes that use the handles.                                     *)

LEMMA IOFailsKernel ==
    ASSUME HostRecoveryAssumption, FsRecoveryAssumption, HostShape, PeerShape, Kernel,
           NEW u \in Users, IOFails(u)
    PROVE  HostShape' /\ PeerShape' /\ Kernel'
<1>1. PICK h \in valid \cap used, stale \in BOOLEAN :
        /\ Start(u, h, stale)
        /\ (\E n \in BOOLEAN : Answered(n)) \/ TimedOut
  BY DEF IOFails
<1>2. /\ user[u].pc = "idle" /\ h \in Handles
      /\ UNCHANGED <<peer, srv, refs, open, used, registered, valid, recov, inProgress,
                     reopen, swallowed>>
  BY DEF IOFails, Kernel, HandleShape
<1>3. HostShape' /\ JobKept /\ timeouts' \in 0 .. MaxTimeouts
  BY <1>1, ReportShape
<1>4. PeerShape'
  BY <1>2, <1>3 DEF PeerShape, PeerComesBack, RequestsStamped
<1>5. user' = [user EXCEPT ![u] = [pc |-> "want", handle |-> h, stale |-> stale]]
  BY <1>1 DEF Start
<1>6. HandleShape'
  BY <1>2, <1>5 DEF Kernel, HandleShape
<1>7. UsersInside'
  BY <1>2, <1>5 DEF Kernel, HandleShape, UsersInside
<1>8. JobRuns' /\ OneReopener'
  BY <1>2, <1>3 DEF Kernel, JobRuns, JobKept, HandleShape, OneReopener, Reopening, Reopeners
<1> QED BY <1>3, <1>4, <1>6, <1>7, <1>8 DEF Kernel

LEMMA UserStepKernel ==
    ASSUME FsRecoveryAssumption, Kernel, NEW u \in Users,
           UserStep(u) \/ RecoveryWaitAborted(u)
    PROVE  Kernel'
<1>0. UNCHANGED <<rebootJob, open, used, registered, valid, inProgress, swallowed>>
  BY DEF UserStep, Fsutil_WantRecovery, Fsutil_WaitForRecovery, RecoveryWaitEnds,
         RecoveryWaitAborted, recovVars
<1>1. CASE Fsutil_WantRecovery(u)
  <2>1. /\ recov' = [recov EXCEPT ![user[u].handle] = @ \cup {"NEEDED"}]
        /\ user' = [user EXCEPT ![u].pc = "waitForRecovery"]
        /\ user[u].pc = "want" /\ reopen' = reopen
    BY <1>1 DEF Fsutil_WantRecovery
  <2>2. HandleShape' /\ UsersInside'
    BY <1>0, <2>1 DEF Kernel, HandleShape, UsersInside, RecoveryFlags
  <2> QED BY <1>0, <2>1, <2>2 DEF Kernel, JobRuns, OneReopener, Reopening
<1>2. CASE RecoveryWaitEnds(u) \/ RecoveryWaitAborted(u)
  <2>1. /\ user' = [user EXCEPT ![u] = AtRest]
        /\ user[u].pc = "wait" /\ UNCHANGED <<recov, reopen>>
    BY <1>2 DEF RecoveryWaitEnds, RecoveryWaitAborted
  <2>2. HandleShape' /\ UsersInside'
    BY <1>0, <2>1 DEF Kernel, HandleShape, UsersInside, AtRest
  <2> QED BY <1>0, <2>1, <2>2 DEF Kernel, JobRuns, OneReopener, Reopening
<1>3. CASE Fsutil_WaitForRecovery(u)
  <2>0. user[u].pc = "waitForRecovery" /\ recov' = recov /\ reopen[u].pc = "out"
    BY <1>3 DEF Fsutil_WaitForRecovery, Kernel, UsersInside, HandleShape, Reopeners
  <2>1. CASE reopen' = reopen
    <3>1. \/ user' = [user EXCEPT ![u] = AtRest]
          \/ user' = [user EXCEPT ![u].pc = "wait"]
      BY <1>3, <2>0, <2>1 DEF Fsutil_WaitForRecovery, Kernel, HandleShape, Reopeners
    <3>2. ASSUME user' = [user EXCEPT ![u] = AtRest]
          PROVE  HandleShape' /\ UsersInside'
      <4>1. HandleShape'
        BY <1>0, <2>0, <2>1, <3>2 DEF Kernel, HandleShape, AtRest
      <4>2. UsersInside'
        <5>1. \A v \in Users : user'[v] = IF v = u THEN AtRest ELSE user[v]
          BY <3>2 DEF Kernel, HandleShape
        <5> QED BY <2>0, <2>1, <5>1 DEF Kernel, UsersInside, AtRest
      <4> QED BY <4>1, <4>2
    <3>3. ASSUME user' = [user EXCEPT ![u].pc = "wait"]
          PROVE  HandleShape' /\ UsersInside'
      <4>1. HandleShape'
        BY <1>0, <2>0, <2>1, <3>3 DEF Kernel, HandleShape
      <4>2. UsersInside'
        <5>1. \A v \in Users : /\ user'[v].handle = user[v].handle
                               /\ user'[v].pc = IF v = u THEN "wait" ELSE user[v].pc
          BY <3>3 DEF Kernel, HandleShape
        <5> QED BY <2>0, <2>1, <5>1 DEF Kernel, UsersInside
      <4> QED BY <4>1, <4>2
    <3> QED BY <1>0, <2>1, <3>1, <3>2, <3>3 DEF Kernel, JobRuns, OneReopener, Reopening
  <2>2. CASE reopen' # reopen
    <3>1. /\ reopen' = [reopen EXCEPT ![u].pc = "start"]
          /\ user' = [user EXCEPT ![u].pc = "reopen"]
      BY <1>3, <2>2 DEF Fsutil_WaitForRecovery
    <3>2. HandleShape'
      BY <1>0, <2>0, <3>1 DEF Kernel, HandleShape
    <3>3. UsersInside'
      BY <2>0, <3>1 DEF Kernel, HandleShape, UsersInside, Reopeners
    <3>4. JobRuns'
      BY <1>0, <3>1 DEF Kernel, HandleShape, JobRuns, FsRecoveryAssumption
    <3>5. \A q \in Reopeners : Reopening(q)' <=> Reopening(q)
      BY <2>0, <3>1 DEF Kernel, HandleShape, Reopening
    <3> QED BY <1>0, <3>2, <3>3, <3>4, <3>5 DEF Kernel, OneReopener
  <2> QED BY <2>1, <2>2
<1> QED BY <1>1, <1>2, <1>3 DEF UserStep

----------------------------------------------------------------------------
(* The theorems.                                                           *)

LEMMA InitIInv == HostRecoveryAssumption /\ Init => IInv
<1> SUFFICES ASSUME HostRecoveryAssumption, Init PROVE IInv
  OBVIOUS
<1>1. HostShape
  <2>1. cleanup \in [Phases -> Nat] /\ Outstanding(cleanup) = 0
    BY DEF Init, HostInit, Phases, Outstanding
  <2>2. /\ hostState \in {{}, {"ALIVE"}} /\ bootID \in {0, 1}
        /\ rebootJob = "none" /\ overlap = FALSE
    BY DEF Init, HostInit
  <2>3. hostState \subseteq Flags /\ OneUpDown(hostState) /\ bootID \in 0 .. MaxBoots
    BY <2>2 DEF HostRecoveryAssumption, OneUpDown, Flags, UpDown
  <2>4. {"REBOOT_CALLBACKS", "FAILURE", "CRASH_CALLBACKS"} \cap hostState = {}
    BY <2>2
  <2> QED BY <2>1, <2>2, <2>3, <2>4 DEF HostShape, CleanupFlagged
<1>2. PeerShape
  BY DEF HostRecoveryAssumption, Init, HostInit, PeerShape, Idle, Boots,
         PeerComesBack, RequestsStamped
<1>3. HandleShape
  <2>1. reopen \in [Reopeners -> [pc : {"out", "start", "handles", "notify", "clear"},
                                  todo : SUBSET Handles]]
    BY DEF Init, Out
  <2>2. user \in [Users -> [pc : {"idle", "want", "waitForRecovery", "reopen", "wait"},
                            handle : Handles \cup {NoHandle}, stale : BOOLEAN]]
    BY DEF Init, AtRest
  <2>3. /\ registered \in [Handles -> 0 .. MaxBoots]
        /\ recov \in [Handles -> SUBSET RecoveryFlags]
    BY DEF HostRecoveryAssumption, Init
  <2>4. open \subseteq Handles /\ used \subseteq open /\ valid \subseteq open
        /\ inProgress \in BOOLEAN /\ swallowed \in BOOLEAN
    BY DEF Init
  <2> QED BY <2>1, <2>2, <2>3, <2>4 DEF HandleShape
<1>4. JobRuns /\ UsersInside /\ OneReopener
  BY DEF Init, JobRuns, UsersInside, OneReopener, Reopening, Reopeners, Out, AtRest
<1> QED BY <1>1, <1>2, <1>3, <1>4 DEF IInv

(* One step for each of the disjuncts of Next.                             *)
LEMMA StepIInv ==
    HostRecoveryAssumption /\ FsRecoveryAssumption /\ IInv /\ [Next]_vars => IInv'
<1> SUFFICES ASSUME HostRecoveryAssumption, FsRecoveryAssumption, IInv, [Next]_vars
             PROVE  IInv'
  OBVIOUS
<1>0. /\ HostRecoveryAssumption /\ FsRecoveryAssumption
      /\ HostShape /\ PeerShape /\ Kernel
  BY DEF IInv, Kernel
<1> SUFFICES HostShape' /\ PeerShape' /\ Kernel'
  BY DEF IInv, Kernel
<1>1. CASE (PeerCrashes \/ PeerRecovers) /\ UNCHANGED fsVars
  <2>1. PeerShape' /\ UNCHANGED hostVars
    BY <1>0, <1>1, PeerStepShape DEF PeerRecovers
  <2>2. JobKept /\ HostShape'
    BY <1>0, <2>1 DEF hostVars, JobKept, HostShape, CleanupFlagged
  <2> QED BY <1>0, <1>1, <2>1, <2>2, KernelKept
<1>2. ASSUME NEW s \in Servers, Request(s) \/ ServerRuns(s)
      PROVE  HostShape' /\ PeerShape' /\ Kernel'
  <2>1. UNCHANGED fsVars
    BY <1>2 DEF Request, ServerRuns
  <2>2. PeerShape'
    BY <1>0, <1>2, ServerStepShape DEF Request, ServerRuns, ServerStep
  <2>3. HostShape' /\ JobKept
    <3>1. CASE Receive(s) \/ Service(s)
      BY <1>0, <3>1 DEF Receive, Service, hostVars, JobKept, HostShape, CleanupFlagged
    <3>2. CASE HostAliveSync(s)
      BY <1>0, <3>2, AliveSyncShape
    <3>3. CASE HostAliveSyncGoesOn(s)
      BY <1>0, <3>3, GoesOnShape
    <3> QED BY <1>2, <3>1, <3>2, <3>3 DEF Request, ServerRuns, ServerStep
  <2> QED BY <1>0, <2>1, <2>2, <2>3, KernelKept
<1>3. CASE Ping \/ OtherCall
  <2>1. Call /\ UNCHANGED fsVars
    BY <1>3 DEF Ping, OtherCall
  <2>2. /\ (\E n \in BOOLEAN : Answered(n)) \/ TimedOut
        /\ UNCHANGED <<peer, srv, refs>>
    BY <1>0, <2>1 DEF Call
  <2>3. HostShape' /\ JobKept /\ timeouts' \in 0 .. MaxTimeouts
    BY <1>0, <2>2, ReportShape
  <2>4. PeerShape'
    BY <1>0, <2>2, <2>3 DEF PeerShape, PeerComesBack, RequestsStamped
  <2> QED BY <1>0, <2>1, <2>3, <2>4, KernelKept
<1>4. CASE CleanupRuns
  <2>1. CleanupStep /\ UNCHANGED fsVars
    BY <1>4 DEF CleanupRuns
  <2>2. HostShape' /\ JobKept
    BY <1>0, <2>1, CleanupShape
  <2>3. /\ refs' \in {refs, {}} /\ UNCHANGED <<peer, timeouts, srv>>
    BY <2>1 DEF CleanupStep, CrashCallBacks, MarkRecoveryComplete
  <2>4. PeerShape'
    BY <1>0, <2>3 DEF PeerShape, PeerComesBack, RequestsStamped
  <2> QED BY <1>0, <2>1, <2>2, <2>4, KernelKept
<1>5. CASE RebootCallBacksStart
  <2>1. JobMoves /\ UNCHANGED <<peer, timeouts, hostState, bootID, cleanup, srv, refs, overlap>>
    BY <1>5 DEF RebootCallBacksStart, JobMoves
  <2>2. PeerShape'
    BY <1>0, <2>1 DEF PeerShape, PeerComesBack, RequestsStamped
  <2> QED BY <1>0, <1>5, <2>1, <2>2, JobStarts, JobMovesShape
<1>6. CASE CallBacksDone
  <2>1. PeerShape'
    BY <1>0, <1>6 DEF CallBacksDone, PeerShape, PeerComesBack, RequestsStamped
  <2> QED BY <1>0, <1>6, <2>1, CallBacksDoneShape, CallBacksDoneKernel
<1>7. ASSUME NEW r \in Reopeners, ReopenStep(r)
      PROVE  HostShape' /\ PeerShape' /\ Kernel'
  <2>1. CASE ReopenHandle(r)
    BY <1>0, <2>1, ReopenHandleKernel
  <2>2. CASE ReopenStart(r) \/ ReopenDone(r)
    <3>1. Kernel' /\ JobMoves
      BY <1>0, <2>2, ReopenStartKernel, ReopenDoneKernel
    <3>2. UNCHANGED <<peer, timeouts, hostState, bootID, cleanup, srv, refs, overlap>>
      BY <2>2 DEF ReopenStart, ReopenDone
    <3>3. PeerShape'
      BY <1>0, <3>2 DEF PeerShape, PeerComesBack, RequestsStamped
    <3> QED BY <1>0, <3>1, <3>2, <3>3, JobMovesShape
  <2>3. CASE RecoveryNotify(r)
    <3>1. UNCHANGED recovVars
      BY <2>3 DEF RecoveryNotify
    <3>2. HostShape' /\ PeerShape'
      BY <1>0, <3>1 DEF recovVars, HostShape, CleanupFlagged, PeerShape, PeerComesBack,
                        RequestsStamped
    <3> QED BY <1>0, <2>3, <3>2, RecoveryNotifyKernel
  <2> QED BY <1>7, <2>1, <2>2, <2>3 DEF ReopenStep
<1>8. ASSUME NEW u \in Users, IOFails(u) \/ UserStep(u) \/ RecoveryWaitAborted(u)
      PROVE  HostShape' /\ PeerShape' /\ Kernel'
  <2>1. CASE IOFails(u)
    BY <1>0, <2>1, IOFailsKernel
  <2>2. CASE UserStep(u) \/ RecoveryWaitAborted(u)
    <3>1. UNCHANGED recovVars
      BY <2>2 DEF UserStep, Fsutil_WantRecovery, Fsutil_WaitForRecovery,
                  RecoveryWaitEnds, RecoveryWaitAborted
    <3>2. HostShape' /\ PeerShape'
      BY <1>0, <3>1 DEF recovVars, HostShape, CleanupFlagged, PeerShape, PeerComesBack,
                        RequestsStamped
    <3> QED BY <1>0, <2>2, <3>2, UserStepKernel
  <2> QED BY <1>8, <2>1, <2>2
<1>9. CASE UNCHANGED vars
  <2>1. UNCHANGED recovVars /\ UNCHANGED fsVars
    BY <1>9 DEF vars
  <2>2. HostShape' /\ PeerShape' /\ JobKept
    BY <1>0, <2>1 DEF recovVars, HostShape, CleanupFlagged, PeerShape, PeerComesBack,
                      RequestsStamped, JobKept
  <2> QED BY <1>0, <2>1, <2>2, KernelKept
<1> QED BY <1>1, <1>2, <1>3, <1>4, <1>5, <1>6, <1>7, <1>8, <1>9 DEF Next

LEMMA RecoveryInvariant ==
    HostRecoveryAssumption /\ FsRecoveryAssumption /\ Spec => []IInv
<1> SUFFICES ASSUME HostRecoveryAssumption, FsRecoveryAssumption PROVE Spec => []IInv
  OBVIOUS
<1>1. Init => IInv
  BY InitIInv
<1>2. IInv /\ [Next]_vars => IInv'
  BY StepIInv
<1> QED BY <1>1, <1>2, PTL DEF Spec

(* The flags, the entries and the processes of the recovery module and of  *)
(* Fsutil_Reopen keep their types.                                         *)
THEOREM RecoveryTypes ==
    HostRecoveryAssumption /\ FsRecoveryAssumption /\ Spec => []TypeOK
<1>1. IInv => TypeOK
  BY DEF IInv, HostShape, PeerShape, HandleShape, TypeOK, HostTypeOK
<1> QED BY <1>1, RecoveryInvariant, PTL

(* The state flags of recovery.c, however many calls time out, hosts       *)
(* reboot and activations of CrashCallBacks are outstanding: a host is     *)
(* alive, dead or booting and never two of them, the flag of the reboot    *)
(* call-backs is on exactly while RecovRebootCallBacks is scheduled or     *)
(* runs, and a server process held back has a CrashCallBacks to wait for.  *)
THEOREM FlagsTellTheTruth ==
    HostRecoveryAssumption /\ FsRecoveryAssumption /\ Spec => []FlagsAccounted
<1>1. ASSUME IInv PROVE FlagsAccounted
  <2> DEFINE up == hostState \cap UpDown
  <2>1. \A a, b \in up : a = b
    BY <1>1 DEF IInv, HostShape, OneUpDown
  <2> HIDE DEF up
  <2>2. CASE up = {}
    <3>1. Cardinality(up) = 0
      BY <2>2, FS_EmptySet
    <3> QED BY <1>1, <3>1 DEF IInv, HostShape, FlagsAccounted, up
  <2>3. CASE up # {}
    <3>1. PICK a : up = {a}
      BY <2>1, <2>3
    <3>2. Cardinality(up) = 1
      BY <3>1, FS_Singleton
    <3> QED BY <1>1, <3>2 DEF IInv, HostShape, FlagsAccounted, up
  <2> QED BY <2>2, <2>3
<1> QED BY <1>1, RecoveryInvariant, PTL

(* Fsutil_Reopen: SRV_RECOV_IN_PROGRESS is on exactly while a process      *)
(* reopens handles, and no two processes reopen them at the same time.     *)
THEOREM ReopenedByOne ==
    HostRecoveryAssumption /\ FsRecoveryAssumption /\ Spec => []OneReopener
<1>1. IInv => OneReopener
  BY DEF IInv
<1> QED BY <1>1, RecoveryInvariant, PTL

(* Only two steps let a server process get past Recov_HostAlive, and both  *)
(* need the crash call-backs to be off.                                    *)
LEMMA ServedUnflagged ==
    ASSUME IInv, [Next]_vars, NEW s \in Servers,
           srv[s].pc # "service", srv'[s].pc = "service"
    PROVE  "CRASH_CALLBACKS" \notin hostState
<1>1. srv' # srv
  OBVIOUS
<1>2. PICK t \in Servers : Receive(t) \/ ServerStep(t)
  BY <1>1 DEF Next, Request, ServerRuns, PeerCrashes, PeerRecovers, PeerBoots, PeerActive,
       Ping, OtherCall, Call, CleanupRuns, CleanupStep, CrashCallBacks,
       MarkRecoveryComplete, RebootCallBacksStart, CallBacksDone, ReopenStep,
       ReopenStart, ReopenHandle, RecoveryNotify, ReopenDone, IOFails, UserStep,
       Fsutil_WantRecovery, Fsutil_WaitForRecovery, RecoveryWaitEnds,
       RecoveryWaitAborted, vars, recovVars
<1>3. srv \in [Servers -> [pc : {"idle", "received", "await", "service"},
                          boot : 0 .. MaxBoots, notActive : BOOLEAN]]
  BY DEF IInv, PeerShape
<1>4. CASE Receive(t) \/ Service(t)
  BY <1>3, <1>4 DEF Receive, Service, Idle
<1>5. CASE HostAliveSyncGoesOn(t)
  BY <1>5 DEF HostAliveSyncGoesOn
<1>6. CASE HostAliveSync(t)
  <2>1. CASE FastPath(srv[t].boot)
    BY <2>1 DEF FastPath
  <2>2. CASE ~FastPath(srv[t].boot)
    <3>1. "CRASH_CALLBACKS" \notin AfterBootCheck(srv[t].boot)
      BY <1>3, <1>6, <2>2 DEF HostAliveSync
    <3> QED BY <3>1 DEF AfterBootCheck
  <2> QED BY <2>1, <2>2
<1> QED BY <1>2, <1>4, <1>5, <1>6 DEF ServerStep

(* "Servers want synchronous recovery so they don't service anything until *)
(* state associated with that client has been cleaned up": for any number  *)
(* of server processes, none gets past Recov_HostAlive while an activation *)
(* of CrashCallBacks is outstanding, if there never were two at a time.    *)
THEOREM ServedAfterCrashCallBacks ==
    HostRecoveryAssumption /\ FsRecoveryAssumption /\ Spec => ServedAfterCleanup
<1>1. ASSUME IInv, [Next]_vars
      PROVE  [\A s \in Servers : srv[s].pc # "service" /\ srv'[s].pc = "service"
                 => Outstanding(cleanup) = 0 \/ overlap]_vars
  <2> SUFFICES ASSUME NEW s \in Servers, srv[s].pc # "service", srv'[s].pc = "service"
               PROVE  Outstanding(cleanup) = 0 \/ overlap
    OBVIOUS
  <2>1. "CRASH_CALLBACKS" \notin hostState
    BY <1>1, ServedUnflagged
  <2> QED BY <1>1, <2>1 DEF IInv, HostShape, CleanupFlagged
<1> QED BY <1>1, RecoveryInvariant, PTL DEF Spec, ServedAfterCleanup
=============================================================================
