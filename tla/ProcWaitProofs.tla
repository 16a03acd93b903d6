-------------------------- MODULE ProcWaitProofs --------------------------
(***************************************************************************)
(* Proofs about exit, detach and wait, for any process table, any set of   *)
(* migrated processes and any number of notifications.                     *)
(***************************************************************************)
EXTENDS ProcWait, TLAPS

----------------------------------------------------------------------------
(* The inductive invariant.                                                *)

(* An entry that is not that of a running process waits for nothing and    *)
(* has no children.                                                        *)
Quiet == \A p \in Procs : ~Runs(p) => pc[p] = "user" /\ children[p] = {}

Dying == \A p \in Procs : to[p] # Nil => state[p] = "alive"

MissedDying == \A p \in missed : to[p] = "exiting" \/ state[p] = "exiting"

ListLive ==
    \A p \in Procs : \A c \in children[p] :
        c # p /\ state[c] \in {"alive", "exiting"} /\ ~WaitedOn(c)

(* A process on its way to the exiting state has not become an orphan in   *)
(* the meantime.                                                           *)
ExitingHasParent ==
    \A p \in Procs : to[p] = "exiting" /\ p \notin missed =>
          ~(Orphan \subseteq flags[p])

ToldIsAway == \A p \in Procs : pc[p] = "told" => p \in Away

Structure ==
    /\ TypeOK /\ Quiet /\ Dying /\ MissedDying /\ ListLive /\ ExitingHasParent
    /\ ToldIsAway /\ FamilySound

IInv == Structure /\ NoLostExit

----------------------------------------------------------------------------
(* The table and the families: one lemma for each of the steps that change *)
(* them, and one for those of a wait.                                      *)

(* The tables that a boot starts with hold the roots only.                 *)
LEMMA InitStructure == ProcWaitAssumption /\ Init => Structure
<1> SUFFICES ASSUME ProcWaitAssumption, Init PROVE Structure
  OBVIOUS
<1>1. TypeOK
  BY DEF ProcWaitAssumption, Init, TypeOK, Orphan, AnyChild
<1>2. Quiet /\ Dying /\ MissedDying /\ ListLive /\ ExitingHasParent /\ ToldIsAway
  BY DEF ProcWaitAssumption, Init, Quiet, Dying, MissedDying, ListLive,
           ExitingHasParent, ToldIsAway
<1>3. FamilySound
  BY DEF ProcWaitAssumption, Init, FamilySound, ReapedOnce, HasWaiter, ListSound,
           Orphan
<1> QED BY <1>1, <1>2, <1>3 DEF Structure

(* A new child is in the list of its parent, which runs.                   *)
LEMMA ForkStructure ==
    ASSUME ProcWaitAssumption, Structure, NEW p \in Procs, NEW c \in Procs, Fork(p, c)
    PROVE  Structure'
<1>1. TypeOK'
  BY DEF Structure, Fork, TypeOK
<1>2. Quiet'
  BY DEF Structure, Fork, InUser, Quiet, Runs
<1>3. Dying'
  BY DEF Structure, Fork, Dying
<1>4. MissedDying'
  BY DEF Structure, Fork, MissedDying
<1>5. ListLive'
  BY DEF Structure, Fork, InUser, ListLive, TypeOK, Runs, WaitedOn
<1>6. ExitingHasParent'
  BY DEF Structure, Fork, ExitingHasParent
<1>7. ToldIsAway'
  BY DEF Structure, Fork, ToldIsAway
<1>8. ReapedOnce'
  BY DEF Structure, Fork, ReapedOnce, FamilySound
<1>9. HasWaiter'
  BY DEF Structure, Fork, InUser, HasWaiter, FamilySound, TypeOK, Runs, WaitedOn
<1>10. ListSound'
  BY DEF Structure, Fork, ListSound, FamilySound, TypeOK, Dying, ListLive
<1> QED BY <1>1, <1>2, <1>3, <1>4, <1>5, <1>6, <1>7, <1>8, <1>9, <1>10
         DEF Structure, FamilySound

(* Telling the parent wakes it up, or counts a notification.               *)
LEMMA TellParentTypes ==
    ASSUME ProcWaitAssumption, TypeOK, NEW q, TellParent(q)
    PROVE  /\ pc' \in [Procs -> {"user", "search", "told", "asleep"}]
           /\ notes' \in [Procs -> 0 .. MaxNotes]
<1>1. /\ pc \in [Procs -> {"user", "search", "told", "asleep"}]
      /\ notes \in [Procs -> 0 .. MaxNotes]
  BY DEF TypeOK
<1>2. CASE q \in Away
  <2>1. q \in Procs /\ notes[q] + 1 \in 0 .. MaxNotes
    BY <1>1, <1>2 DEF ProcWaitAssumption, TellParent
  <2>2. notes' = [notes EXCEPT ![q] = notes[q] + 1] /\ pc' = pc
    BY <1>2 DEF TellParent
  <2> QED BY <1>1, <2>1, <2>2
<1>3. CASE q \notin Away
  <2>1. /\ notes' = notes
        /\ pc' = [pc EXCEPT ![q] = IF q \notin Away /\ @ = "asleep"
                                       THEN "search" ELSE @]
    BY <1>3 DEF TellParent, Broadcast
  <2> QED BY <1>1, <2>1
<1> QED BY <1>2, <1>3

(* A process that exits has a parent that runs or goes to the reaper; so   *)
(* do its children.                                                        *)
LEMMA ExitStructure ==
    ASSUME ProcWaitAssumption, Structure, NEW p \in Procs, Exit(p)
    PROVE  Structure'
<1>1. TypeOK'
  <2>1. /\ pc' \in [Procs -> {"user", "search", "told", "asleep"}]
        /\ notes' \in [Procs -> 0 .. MaxNotes]
    BY TellParentTypes DEF Structure, TypeOK, Exit
  <2>2. state' \in [Procs -> {"unused", "alive", "exiting", "dead"}]
    BY DEF Structure, TypeOK, Exit
  <2>3. to' \in [Procs -> {"exiting", "dead", Nil}]
    BY DEF Structure, TypeOK, Exit
  <2>4. flags' \in [Procs -> SUBSET (Orphan \cup {"STATUS"})]
    BY DEF Structure, TypeOK, Exit
  <2>5. children' \in [Procs -> SUBSET Procs] /\ missed' \subseteq Procs
    BY DEF Structure, TypeOK, Exit
  <2>6. reap' \in [Procs -> Nat]
    BY DEF Structure, TypeOK, Exit
  <2> QED BY <2>1, <2>2, <2>3, <2>4, <2>5, <2>6 DEF Structure, TypeOK, Exit
<1>2. Quiet'
  BY DEF Structure, Exit, InUser, TellParent, Broadcast, Quiet, TypeOK, Runs
<1>3. Dying'
  BY DEF Structure, Exit, InUser, Dying, Runs
<1>4. MissedDying'
  BY DEF Structure, Exit, InUser, MissedDying, TypeOK, Runs
<1>5. ListLive'
  BY DEF Structure, Exit, ListLive, TypeOK, WaitedOn, FamilySound, ListSound
<1>6. ExitingHasParent'
  <2> SUFFICES ASSUME NEW c \in Procs, to'[c] = "exiting", c \notin missed',
                      Orphan \subseteq flags'[c]
               PROVE  FALSE
    BY DEF ExitingHasParent
  <2>1. CASE c \in children[p]
    BY <2>1 DEF Structure, Exit, ListLive
  <2>2. CASE c = p
    BY <2>2, <2>1 DEF Structure, TypeOK, Exit
  <2>3. CASE c # p /\ c \notin children[p]
    BY <2>3 DEF Structure, Exit, ExitingHasParent
  <2> QED BY <2>1, <2>2, <2>3
<1>7. ToldIsAway'
  BY DEF Structure, Exit, TellParent, Broadcast, ToldIsAway, TypeOK
<1>8. ReapedOnce'
  BY DEF Structure, Exit, InUser, ReapedOnce, Dying, TypeOK, Runs, FamilySound
<1>9. HasWaiter'
  BY DEF Structure, Exit, HasWaiter, FamilySound, Runs, WaitedOn
<1>10. ListSound'
  BY DEF Structure, Exit, ListSound, FamilySound, ListLive, Orphan, WaitedOn
<1> QED BY <1>1, <1>2, <1>3, <1>4, <1>5, <1>6, <1>7, <1>8, <1>9, <1>10
         DEF Structure, FamilySound

(* The switch makes true what the exit has prepared.                       *)
LEMMA SwitchStructure ==
    ASSUME ProcWaitAssumption, Structure, NEW p \in Procs, Switch(p)
    PROVE  Structure'
<1>1. TypeOK'
  BY DEF Structure, Switch, TypeOK
<1>2. Quiet'
  BY DEF Structure, Switch, Quiet, Runs
<1>3. Dying'
  BY DEF Structure, Switch, Dying, TypeOK
<1>4. MissedDying'
  BY DEF Structure, Switch, MissedDying, Dying, TypeOK
<1>5. ListLive'
  BY DEF Structure, Switch, ListLive, TypeOK, WaitedOn, FamilySound, ListSound
<1>6. ExitingHasParent'
  BY DEF Structure, Switch, ExitingHasParent
<1>7. ToldIsAway'
  BY DEF Structure, Switch, ToldIsAway
<1>8. ReapedOnce'
  BY DEF Structure, Switch, ReapedOnce, Dying, TypeOK, FamilySound
<1>9. HasWaiter'
  BY DEF Structure, Switch, HasWaiter, FamilySound, Runs, Dying, ExitingHasParent,
           WaitedOn
<1>10. ListSound'
  BY DEF Structure, Switch, ListSound, FamilySound
<1> QED BY <1>1, <1>2, <1>3, <1>4, <1>5, <1>6, <1>7, <1>8, <1>9, <1>10
         DEF Structure, FamilySound

(* An entry that is freed has no children and is in no list.               *)
LEMMA ReapStructure ==
    ASSUME ProcWaitAssumption, Structure, NEW p \in Procs, Reap(p)
    PROVE  Structure'
<1>1. TypeOK'
  BY DEF Structure, Reap, TypeOK
<1>2. Quiet'
  BY DEF Structure, Reap, Quiet, Runs
<1>3. Dying'
  BY DEF Structure, Reap, Dying
<1>4. MissedDying'
  BY DEF Structure, Reap, MissedDying
<1>5. ListLive'
  BY DEF Structure, Reap, ListLive, WaitedOn
<1>6. ExitingHasParent'
  BY DEF Structure, Reap, ExitingHasParent
<1>7. ToldIsAway'
  BY DEF Structure, Reap, ToldIsAway
<1>8. ReapedOnce'
  BY DEF Structure, Reap, ReapedOnce, Dying, TypeOK, FamilySound
<1>9. HasWaiter'
  BY DEF Structure, Reap, HasWaiter, FamilySound, Runs, WaitedOn
<1>10. ListSound'
  BY DEF Structure, Reap, ListSound, FamilySound, TypeOK, Runs, Quiet, ListLive
<1> QED BY <1>1, <1>2, <1>3, <1>4, <1>5, <1>6, <1>7, <1>8, <1>9, <1>10
         DEF Structure, FamilySound

(* A process that detaches itself stays in its parent's list.              *)
LEMMA DetachStructure ==
    ASSUME ProcWaitAssumption, Structure, NEW p \in Procs, Detach(p)
    PROVE  Structure'
<1>1. TypeOK'
  <2>1. flags' \in [Procs -> SUBSET (Orphan \cup {"STATUS"})]
    BY DEF Structure, TypeOK, Detach, Orphan
  <2> QED BY <2>1, TellParentTypes DEF Structure, TypeOK, Detach
<1>2. Quiet'
  BY DEF Structure, Detach, TellParent, Broadcast, Quiet, TypeOK, Runs
<1>3. Dying'
  BY DEF Structure, Detach, Dying
<1>4. MissedDying'
  BY DEF Structure, Detach, MissedDying
<1>5. ListLive'
  BY DEF Structure, Detach, ListLive, WaitedOn
<1>6. ExitingHasParent'
  BY DEF Structure, Detach, InUser, ExitingHasParent, Runs
<1>7. ToldIsAway'
  BY DEF Structure, Detach, TellParent, Broadcast, ToldIsAway, TypeOK
<1>8. ReapedOnce'
  BY DEF Structure, Detach, ReapedOnce, FamilySound
<1>9. HasWaiter'
  BY DEF Structure, Detach, HasWaiter, FamilySound, Runs, WaitedOn
<1>10. ListSound'
  BY DEF Structure, Detach, ListSound, FamilySound
<1> QED BY <1>1, <1>2, <1>3, <1>4, <1>5, <1>6, <1>7, <1>8, <1>9, <1>10
         DEF Structure, FamilySound

(* A change of the status leaves the other flags alone.                    *)
LEMMA InformParentStructure ==
    ASSUME ProcWaitAssumption, Structure, NEW p \in Procs, InformParent(p)
    PROVE  Structure'
<1>1. TypeOK'
  BY DEF Structure, InformParent, Broadcast, TypeOK
<1>2. Quiet'
  BY DEF Structure, InformParent, Broadcast, Quiet, Runs
<1>3. Dying'
  BY DEF Structure, InformParent, Dying
<1>4. MissedDying'
  BY DEF Structure, InformParent, MissedDying
<1>5. ListLive'
  BY DEF Structure, InformParent, ListLive, WaitedOn
<1>6. ExitingHasParent'
  BY DEF Structure, InformParent, ExitingHasParent, Orphan
<1>7. ToldIsAway'
  BY DEF Structure, InformParent, Broadcast, ToldIsAway
<1>8. ReapedOnce'
  BY DEF Structure, InformParent, ReapedOnce, FamilySound
<1>9. HasWaiter'
  BY DEF Structure, InformParent, HasWaiter, FamilySound, Runs, WaitedOn
<1>10. ListSound'
  BY DEF Structure, InformParent, ListSound, FamilySound
<1> QED BY <1>1, <1>2, <1>3, <1>4, <1>5, <1>6, <1>7, <1>8, <1>9, <1>10
         DEF Structure, FamilySound

(* A child that is reported goes to the reaper, or is an orphan from now   *)
(* on and leaves the list, or stays as it is.                              *)
LEMMA ReportStructure ==
    ASSUME ProcWaitAssumption, Structure, NEW p \in Procs, NEW c \in Procs, Runs(p),
            Return(p), Report(p, c), parent[c] = p, ~WaitedOn(c),
            UNCHANGED <<to, parent, complete, notes>>
    PROVE  Structure'
<1>1. TypeOK'
  <2>1. args' \in [Procs -> [pids : SUBSET Procs, suspend : BOOLEAN]]
    BY DEF Structure, TypeOK, Return, AnyChild
  <2>2. flags' \in [Procs -> SUBSET (Orphan \cup {"STATUS"})]
    BY DEF Structure, TypeOK, Report, Orphan
  <2>3. pc' \in [Procs -> {"user", "search", "told", "asleep"}]
    BY DEF Structure, TypeOK, Return
  <2>4. state' \in [Procs -> {"unused", "alive", "exiting", "dead"}]
    <3>1. state' = state \/ state' = [state EXCEPT ![c] = "dead"]
      BY DEF Report
    <3> QED BY <3>1 DEF Structure, TypeOK
  <2>5. reap' \in [Procs -> Nat]
    <3>1. reap' = reap \/ reap' = [reap EXCEPT ![c] = @ + 1]
      BY DEF Report
    <3> QED BY <3>1 DEF Structure, TypeOK
  <2>6. missed' \in {missed, missed \cup {c}, missed \ {c}}
    BY DEF Report
  <2>7. children' \in [Procs -> SUBSET Procs]
    <3>1. children' = children \/ children' = [children EXCEPT ![p] = @ \ {c}]
      BY DEF Report
    <3> QED BY <3>1 DEF Structure, TypeOK
  <2>8. missed' \subseteq Procs
    BY <2>6 DEF Structure, TypeOK
  <2> QED BY <2>1, <2>2, <2>3, <2>4, <2>5, <2>7, <2>8 DEF Structure, TypeOK
<1>2. Quiet'
  BY DEF Structure, Return, Report, Quiet, TypeOK, Runs
<1>3. Dying'
  BY DEF Structure, Report, Dying, TypeOK
<1>4. MissedDying'
  BY DEF Structure, Report, MissedDying, TypeOK
<1>5. ListLive'
  BY DEF Structure, Return, Report, ListLive, TypeOK, WaitedOn, FamilySound, ListSound
<1>6. ExitingHasParent'
  BY DEF Structure, Report, ExitingHasParent, TypeOK
<1>7. ToldIsAway'
  BY DEF Structure, Return, ToldIsAway
<1>8. ReapedOnce'
  BY DEF Structure, Report, ReapedOnce, Dying, TypeOK, FamilySound
<1>9. HasWaiter'
  BY DEF Structure, Report, HasWaiter, ListSound, FamilySound, TypeOK, Runs,
           Orphan, WaitedOn, Detached
<1>10. ListSound'
  BY DEF Structure, Report, ListSound, FamilySound, TypeOK, WaitedOn
<1> QED BY <1>1, <1>2, <1>3, <1>4, <1>5, <1>6, <1>7, <1>8, <1>9, <1>10
         DEF Structure, FamilySound

(* The other steps of a wait change neither the table nor the lists.       *)
LEMMA WaitingStructure ==
    ASSUME ProcWaitAssumption, Structure, NEW p \in Procs, Runs(p), TypeOK',
           UNCHANGED <<state, to, flags, parent, children, reap>>,
           \A q \in Procs \ {p} : pc'[q] = pc[q],
           pc'[p] = "told" => p \in Away,
           missed \subseteq missed', \A c \in missed' \ missed : to[c] = "exiting"
    PROVE  Structure'
<1>1. Quiet'
  BY DEF Structure, Quiet, Runs
<1>2. Dying' /\ MissedDying' /\ ListLive'
  BY DEF Structure, Dying, MissedDying, ListLive, WaitedOn
<1>3. ExitingHasParent' /\ ToldIsAway'
  BY DEF Structure, ExitingHasParent, ToldIsAway
<1>4. ReapedOnce' /\ HasWaiter' /\ ListSound'
  BY DEF Structure, FamilySound, ReapedOnce, HasWaiter, ListSound, Runs, WaitedOn
<1> QED BY <1>1, <1>2, <1>3, <1>4 DEF Structure, FamilySound

(* A process that waits runs.                                              *)
LEMMA WaiterRuns ==
    ASSUME Structure, NEW p \in Procs, pc[p] # "user"
    PROVE  Runs(p)
BY DEF Structure, Quiet


----------------------------------------------------------------------------
(* Sleepers: no step leaves a process asleep on an exit.                   *)

(* Telling the parent of c leaves it awake, or with a notification.        *)
LEMMA ToldParent ==
    ASSUME ProcWaitAssumption, Structure, NEW q \in Procs, TellParent(q),
           pc'[q] \in {"told", "asleep"}
    PROVE  q \in Away /\ notes'[q] > 0
<1>1. CASE q \in Away
  BY <1>1 DEF ProcWaitAssumption, Structure, TypeOK, TellParent
<1>2. CASE q \notin Away
  BY <1>2 DEF Structure, TypeOK, ToldIsAway, TellParent, Broadcast
<1> QED BY <1>1, <1>2

(* A child is in the list of one process only.                             *)
LEMMA OneList ==
    ASSUME Structure, NEW p \in Procs, NEW q \in Procs, NEW c \in children[p],
           c \in children[q]
    PROVE  p = q
BY DEF Structure, FamilySound, ListSound

(* A step that puts no process to sleep, loses no notification and makes   *)
(* no child owed keeps NoLostExit.                                         *)
LEMMA NothingOwed ==
    ASSUME NoLostExit, Structure,
           \A q \in Procs : pc'[q] \in {"told", "asleep"} =>
              /\ pc[q] = pc'[q]
              /\ \/ \A c \in Procs : Owed(q, c)' => Owed(q, c)
                 \/ q \in Away /\ notes'[q] > 0
              /\ notes[q] > 0 => notes'[q] > 0
              /\ complete[q] => complete'[q]
    PROVE  NoLostExit'
BY DEF NoLostExit, Awaited

(* A new child runs, and nobody waits for it yet.                          *)
LEMMA ForkKeepsNoLostExit ==
    ASSUME ProcWaitAssumption, IInv, NEW p \in Procs, NEW c \in Procs, Fork(p, c)
    PROVE  NoLostExit'
<1> SUFFICES ASSUME NEW q \in Procs, pc'[q] \in {"told", "asleep"},
                    NEW d \in Procs, Owed(q, d)'
             PROVE  Owed(q, d)
  BY NothingOwed DEF IInv, Fork
<1>1. q # p /\ q # c
  BY DEF IInv, Structure, Quiet, Fork, InUser, Runs
<1>2. d \in children[q] /\ d # c
  BY <1>1 DEF IInv, Structure, TypeOK, ListLive, Fork, Owed
<1> QED BY <1>1, <1>2 DEF IInv, Structure, TypeOK, Fork, Owed, Searched, ForAny,
             Reportable, Changed, WaitedOn, Detached

(* A process on its way to an exit is not reportable before its switch;    *)
(* the children it gives up are no longer searched for by it.              *)
LEMMA ExitKeepsNoLostExit ==
    ASSUME ProcWaitAssumption, IInv, NEW p \in Procs, Exit(p)
    PROVE  NoLostExit'
<1>1. Runs(p) /\ pc[p] = "user" /\ children' = [children EXCEPT ![p] = {}]
  BY DEF Exit, InUser
<1>2. \A q \in Procs : pc'[q] \in {"told", "asleep"} => pc'[q] = pc[q] /\ q # p
  BY <1>1 DEF IInv, Structure, TypeOK, Exit, TellParent, Broadcast
<1>3. \A q \in Procs : notes[q] > 0 => notes'[q] > 0
  BY DEF IInv, Structure, TypeOK, Exit, TellParent, ProcWaitAssumption
<1>4. ASSUME NEW q \in Procs, pc'[q] \in {"told", "asleep"}, NEW d \in Procs,
             Owed(q, d)', ~(q \in Away /\ notes'[q] > 0)
      PROVE  Owed(q, d)
  <2>1. d \in children[q] /\ q # p
    BY <1>1, <1>2, <1>4 DEF IInv, Structure, TypeOK, Owed
  <2>2. d \notin children[p]
    BY <2>1, OneList DEF IInv
  <2>3. d # p
    <3>1. SUFFICES ASSUME d = p PROVE FALSE
      OBVIOUS
    <3>2. parent[p] = q /\ ~WaitedOn(p)
      BY <2>1, <3>1 DEF IInv, Structure, FamilySound, ListSound, ListLive
    <3>3. TellParent(q)
      BY <3>2 DEF Exit, Orphan, WaitedOn
    <3> QED BY <1>4, <3>3, ToldParent DEF IInv
  <2>4. /\ state'[d] = state[d] /\ to'[d] = to[d] /\ flags'[d] = flags[d]
        /\ d \notin missed' => d \notin missed
    BY <2>2, <2>3 DEF IInv, Structure, TypeOK, Exit
  <2> QED BY <1>4, <2>1, <2>4 DEF Exit, Owed, Searched, ForAny, Reportable, Changed,
               WaitedOn, Detached
<1> QED BY <1>2, <1>3, <1>4, NothingOwed DEF IInv, Exit

(* The switch makes a child reportable: the parent has been told.          *)
LEMMA SwitchKeepsNoLostExit ==
    ASSUME ProcWaitAssumption, IInv, NEW p \in Procs, Switch(p)
    PROVE  NoLostExit'
<1> SUFFICES ASSUME NEW q \in Procs, pc'[q] \in {"told", "asleep"},
                    NEW d \in Procs, Owed(q, d)'
             PROVE  Owed(q, d)
  BY NothingOwed DEF IInv, Switch
<1>1. d \in children[q] /\ to[d] # "dead"
  BY DEF IInv, Structure, FamilySound, ListSound, Switch, Owed
<1>2. CASE d = p
  <2>1. to[d] = "exiting"
    BY <1>1, <1>2 DEF IInv, Structure, TypeOK, Switch
  <2> QED BY <2>1, <1>1 DEF Switch, Owed, Searched, ForAny
<1>3. CASE d # p
  BY <1>1, <1>3 DEF IInv, Structure, TypeOK, Switch, Owed, Searched, ForAny,
     Reportable,
     Changed, WaitedOn, Detached
<1> QED BY <1>2, <1>3

(* A freed entry is in nobody's list.                                      *)
LEMMA ReapKeepsNoLostExit ==
    ASSUME ProcWaitAssumption, IInv, NEW p \in Procs, Reap(p)
    PROVE  NoLostExit'
<1>1. pc[p] = "user"
  BY DEF IInv, Structure, Quiet, Runs, Reap
<1>2. ASSUME NEW q \in Procs, pc'[q] \in {"told", "asleep"}
      PROVE  /\ \A c \in Procs : Owed(q, c)' => Owed(q, c)
             /\ pc[q] = pc'[q] /\ notes'[q] = notes[q] /\ complete'[q] = complete[q]
  <2>1. q # p
    BY <1>1, <1>2 DEF Reap
  <2>2. ASSUME NEW d \in Procs, Owed(q, d)'
        PROVE  Owed(q, d)
    <3>1. d \in children[q] /\ d # p
      BY <2>2 DEF IInv, Structure, ListLive, Reap, Owed
    <3> QED BY <2>2, <3>1 DEF IInv, Structure, TypeOK, Reap, Owed, Searched, ForAny,
                 Reportable, Changed, WaitedOn, Detached
  <2> QED BY <2>1, <2>2 DEF IInv, Structure, TypeOK, Reap
<1> QED BY <1>2, NothingOwed DEF IInv

(* A detached child is reportable: the parent has been told.               *)
LEMMA DetachKeepsNoLostExit ==
    ASSUME ProcWaitAssumption, IInv, NEW p \in Procs, Detach(p)
    PROVE  NoLostExit'
<1>1. Runs(p) /\ pc[p] = "user"
  BY DEF Detach, InUser
<1>2. \A q \in Procs : pc'[q] \in {"told", "asleep"} => pc'[q] = pc[q]
  BY DEF IInv, Structure, TypeOK, Detach, TellParent, Broadcast
<1>3. \A q \in Procs : notes[q] > 0 => notes'[q] > 0
  BY DEF IInv, Structure, TypeOK, Detach, TellParent, ProcWaitAssumption
<1>4. ASSUME NEW q \in Procs, pc'[q] \in {"told", "asleep"}, NEW d \in Procs,
             Owed(q, d)', ~(q \in Away /\ notes'[q] > 0)
      PROVE  Owed(q, d)
  <2>1. d \in children[q]
    BY <1>4 DEF Detach, Owed
  <2>2. d # p
    <3>1. SUFFICES ASSUME d = p PROVE FALSE
      OBVIOUS
    <3>2. TellParent(q)
      BY <2>1, <3>1 DEF IInv, Structure, FamilySound, ListSound, Detach
    <3> QED BY <1>4, <3>2, ToldParent DEF IInv
  <2>3. flags'[d] = flags[d]
    BY <2>2 DEF IInv, Structure, TypeOK, Detach
  <2> QED BY <1>4, <2>3 DEF Detach, Owed, Searched, ForAny, Reportable, Changed,
               WaitedOn, Detached
<1> QED BY <1>2, <1>3, <1>4, NothingOwed DEF IInv, Detach

(* A change of status is reportable: the parent is told in the same step.  *)
LEMMA InformParentKeepsNoLostExit ==
    ASSUME ProcWaitAssumption, IInv, NEW p \in Procs, InformParent(p)
    PROVE  NoLostExit'
<1>1. \A q \in Procs : pc'[q] \in {"told", "asleep"} => pc'[q] = pc[q]
  BY DEF IInv, Structure, TypeOK, InformParent, Broadcast
<1>2. ASSUME NEW q \in Procs, pc'[q] \in {"told", "asleep"}, NEW d \in Procs,
      Owed(q, d)'
      PROVE  Owed(q, d)
  <2>1. d \in children[q]
    BY <1>2 DEF InformParent, Owed
  <2>2. CASE d = p
    <3>1. q = parent[p]
      BY <2>1, <2>2 DEF IInv, Structure, FamilySound, ListSound
    <3>2. q \in Away
      BY <1>2, <3>1 DEF IInv, Structure, TypeOK, ToldIsAway, InformParent, Broadcast
    <3>3. /\ Detached(p)' <=> Detached(p)
          /\ WaitedOn(p)' <=> WaitedOn(p)
      BY DEF IInv, Structure, TypeOK, InformParent, Detached, WaitedOn
    <3> QED BY <1>2, <2>2, <3>2, <3>3 DEF InformParent, Owed, Searched, ForAny,
                 Reportable, Changed
  <2>3. CASE d # p
    BY <1>2, <2>3 DEF IInv, Structure, TypeOK, InformParent, Owed, Searched, ForAny,
       Reportable, Changed, WaitedOn, Detached
  <2> QED BY <2>2, <2>3
<1> QED BY <1>1, <1>2, NothingOwed DEF IInv, InformParent

(* A process that leaves the places where it sleeps.                       *)
LEMMA LeaveKeepsNoLostExit ==
    ASSUME ProcWaitAssumption, IInv, NEW p \in Procs,
           UNCHANGED <<state, to, flags, parent, children, missed>>,
           pc'[p] \notin {"told", "asleep"},
           \A q \in Procs \ {p} :
              /\ pc'[q] = pc[q] /\ args'[q] = args[q]
              /\ notes'[q] = notes[q] /\ complete'[q] = complete[q]
    PROVE  NoLostExit'
<1> SUFFICES ASSUME NEW q \in Procs, pc'[q] \in {"told", "asleep"},
                    NEW d \in Procs, Owed(q, d)'
             PROVE  Owed(q, d)
  BY NothingOwed DEF IInv
<1>1. args'[q] = args[q]
  OBVIOUS
<1> QED BY <1>1 DEF Owed, Searched, ForAny, Reportable, Changed, WaitedOn, Detached

(* What is reported to p is a child of nobody else.                        *)
LEMMA ReportKeepsNoLostExit ==
    ASSUME ProcWaitAssumption, IInv, NEW p \in Procs, NEW c \in Procs, Report(p, c),
           parent[c] = p, Return(p), UNCHANGED <<to, parent, complete, notes>>
    PROVE  NoLostExit'
<1> SUFFICES ASSUME NEW q \in Procs, pc'[q] \in {"told", "asleep"},
                    NEW d \in Procs, Owed(q, d)'
             PROVE  Owed(q, d)
  <2>1. \A q \in Procs : pc'[q] \in {"told", "asleep"} => pc[q] = pc'[q]
    BY DEF IInv, Structure, TypeOK, Return
  <2> QED BY <2>1, NothingOwed DEF IInv
<1>1. q # p /\ args'[q] = args[q]
  BY DEF IInv, Structure, TypeOK, Return
<1>2. d \in children[q]
  BY <1>1 DEF IInv, Structure, TypeOK, Report, Owed
<1>3. d # c
  BY <1>1, <1>2 DEF IInv, Structure, FamilySound, ListSound
<1>4. /\ state'[d] = state[d] /\ flags'[d] = flags[d]
      /\ (d \notin missed' => d \notin missed)
  BY <1>3 DEF IInv, Structure, TypeOK, Report
<1>5. children'[q] = children[q]
  BY <1>1 DEF IInv, Structure, TypeOK, Report
<1> QED BY <1>1, <1>4, <1>5 DEF Owed, Searched, ForAny, Reportable, Changed, WaitedOn,
             Detached

(* What has not been found when a process goes to sleep is not owed to it. *)
LEMMA NoneFoundKeepsNoLostExit ==
    ASSUME ProcWaitAssumption, IInv, NEW p \in Procs, NoneFound(p)
    PROVE  NoLostExit'
<1> SUFFICES ASSUME NEW q \in Procs, pc'[q] \in {"told", "asleep"},
                    NEW d \in Procs, Owed(q, d)'
             PROVE  q \in Away /\ Awaited(q)'
  BY DEF NoLostExit
<1>1. /\ d \in Searched(q) \cap children[q] /\ d \notin missed'
      /\ to[d] = "exiting" \/ Reportable(d, args[q].suspend /\ q \notin Away)
  BY DEF NoneFound, Goto, Owed, Searched, ForAny, Reportable, Changed, WaitedOn,
           Detached
<1>2. q # p
  <2>1. SUFFICES ASSUME q = p PROVE FALSE
    OBVIOUS
  <2>2. Seen(p, d) /\ ~Reportable(d, args[p].suspend)
    BY <1>1, <2>1 DEF NoneFound
  <2>3. to[d] = "exiting"
    BY <1>1, <2>1, <2>2 DEF Reportable, Changed
  <2>4. CASE ForAny(p)
    BY <2>2, <2>3, <2>4 DEF Seen, Settled, ProcWaitAssumption
  <2>5. CASE ~ForAny(p)
    BY <1>1, <2>1, <2>3, <2>5 DEF NoneFound, Searched
  <2> QED BY <2>4, <2>5
<1>3. pc'[q] = pc[q] /\ missed \subseteq missed'
  BY <1>2 DEF IInv, Structure, TypeOK, NoneFound, Goto
<1>4. Owed(q, d)
  BY <1>1, <1>3 DEF Owed
<1> QED BY <1>3, <1>4 DEF IInv, NoLostExit, NoneFound, Awaited

(* A process that has been notified before it sleeps searches again.       *)
LEMMA ProcWaitStepKeepsNoLostExit ==
    ASSUME ProcWaitAssumption, IInv, NEW p \in Procs, ProcWaitStep(p)
    PROVE  NoLostExit'
<1> SUFFICES ASSUME NEW q \in Procs, pc'[q] \in {"told", "asleep"},
                    NEW d \in Procs, Owed(q, d)'
             PROVE  q \in Away /\ Awaited(q)'
  BY DEF NoLostExit
<1>1. Owed(q, d)
  BY DEF ProcWaitStep, Goto, Owed, Searched, ForAny, Reportable, Changed, WaitedOn,
           Detached
<1>2. pc[q] \in {"told", "asleep"}
  BY DEF IInv, Structure, TypeOK, ProcWaitStep, Goto
<1>3. q \in Away /\ Awaited(q)
  BY <1>1, <1>2 DEF IInv, NoLostExit
<1>4. CASE q = p
  BY <1>3, <1>4 DEF IInv, Structure, TypeOK, ProcWaitStep, Goto, Awaited
<1>5. CASE q # p
  BY <1>3, <1>5 DEF IInv, Structure, TypeOK, ProcWaitStep, Goto, Awaited
<1> QED BY <1>3, <1>4, <1>5

(* A notification wakes the process up or is remembered.                   *)
LEMMA NotifyKeepsNoLostExit ==
    ASSUME ProcWaitAssumption, IInv, NEW p \in Procs, Notify(p)
    PROVE  NoLostExit'
<1> SUFFICES ASSUME NEW q \in Procs, pc'[q] \in {"told", "asleep"},
                    NEW d \in Procs, Owed(q, d)'
             PROVE  q \in Away /\ Awaited(q)'
  BY DEF NoLostExit
<1>1. Owed(q, d)
  BY DEF Notify, Goto, Owed, Searched, ForAny, Reportable, Changed, WaitedOn, Detached
<1>2. pc[q] = pc'[q] /\ (q = p => pc[q] = "told")
  BY DEF IInv, Structure, TypeOK, Notify, Goto
<1>3. q \in Away /\ Awaited(q)
  BY <1>1, <1>2 DEF IInv, NoLostExit
<1>4. CASE q = p
  <2>1. Runs(p)
    BY <1>2, <1>4, WaiterRuns DEF IInv
  <2>2. complete'[p] = TRUE
    BY <1>2, <1>4, <2>1 DEF IInv, Structure, TypeOK, Notify
  <2> QED BY <1>2, <1>3, <1>4, <2>2 DEF Awaited
<1>5. CASE q # p
  BY <1>2, <1>3, <1>5 DEF IInv, Structure, TypeOK, Notify, Awaited
<1> QED BY <1>3, <1>4, <1>5


----------------------------------------------------------------------------
(* Every step.                                                             *)

(* The steps that change the table.                                        *)
LEMMA TableSteps ==
    ASSUME ProcWaitAssumption, IInv, NEW p \in Procs,
           \/ \E c \in Procs : Fork(p, c)
           \/ Exit(p) \/ Switch(p) \/ Reap(p) \/ Detach(p) \/ InformParent(p)
    PROVE  IInv'
<1>1. CASE \E c \in Procs : Fork(p, c)
  BY <1>1, ForkStructure, ForkKeepsNoLostExit DEF IInv
<1>2. CASE Exit(p)
  BY <1>2, ExitStructure, ExitKeepsNoLostExit DEF IInv
<1>3. CASE Switch(p)
  BY <1>3, SwitchStructure, SwitchKeepsNoLostExit DEF IInv
<1>4. CASE Reap(p)
  BY <1>4, ReapStructure, ReapKeepsNoLostExit DEF IInv
<1>5. CASE Detach(p)
  BY <1>5, DetachStructure, DetachKeepsNoLostExit DEF IInv
<1>6. CASE InformParent(p)
  BY <1>6, InformParentStructure, InformParentKeepsNoLostExit DEF IInv
<1> QED BY <1>1, <1>2, <1>3, <1>4, <1>5, <1>6

(* A search that finds a child.                                            *)
LEMMA FoundKeepsIInv ==
    ASSUME ProcWaitAssumption, IInv, NEW p \in Procs, Found(p)
    PROVE  IInv'
<1>1. Runs(p)
  BY WaiterRuns DEF Found, IInv
<1>2. PICK c \in Searched(p) :
         /\ Reportable(c, args[p].suspend) /\ Report(p, c)
         /\ ForAny(p) \/ ValidPID(p, c)
  BY DEF Found
<1>3. c \in Procs /\ parent[c] = p /\ ~WaitedOn(c)
  <2>1. CASE ForAny(p)
    BY <1>2, <2>1 DEF IInv, Structure, TypeOK, FamilySound, ListSound, Searched,
             Reportable
  <2>2. CASE ~ForAny(p)
    BY <1>2, <2>2 DEF IInv, Structure, TypeOK, Searched, Reportable, ValidPID
  <2> QED BY <2>1, <2>2
<1>4. Return(p) /\ UNCHANGED <<to, parent, complete, notes>>
  BY DEF Found
<1> QED BY <1>1, <1>2, <1>3, <1>4, ReportStructure, ReportKeepsNoLostExit DEF IInv

(* The steps of a wait that leave the table and the lists as they are.     *)
LEMMA WaitSteps ==
    ASSUME ProcWaitAssumption, IInv, NEW p \in Procs,
           \/ Wait(p) \/ Refused(p) \/ NoneFound(p) \/ ProcWaitStep(p) \/ Notify(p)
           \/ Signal(p)
    PROVE  IInv'
<1>1. CASE Wait(p)
  <2>1. TypeOK'
    BY <1>1 DEF IInv, Structure, TypeOK, Wait
  <2>2. Runs(p)
    BY <1>1 DEF Wait, InUser
  <2>3. /\ UNCHANGED <<state, to, flags, parent, children, reap, missed>>
        /\ UNCHANGED <<complete, notes>>
    BY <1>1 DEF Wait
  <2>4. /\ pc'[p] \notin {"told", "asleep"}
        /\ \A q \in Procs \ {p} : pc'[q] = pc[q] /\ args'[q] = args[q]
    BY <1>1 DEF IInv, Structure, TypeOK, Wait
  <2>5. Structure'
    BY <2>1, <2>2, <2>3, <2>4, WaitingStructure DEF IInv
  <2>6. NoLostExit'
    BY <2>3, <2>4, LeaveKeepsNoLostExit
  <2> QED BY <2>5, <2>6 DEF IInv
<1>2. CASE Refused(p)
  <2>1. TypeOK'
    BY <1>2 DEF IInv, Structure, TypeOK, Refused, Return, AnyChild
  <2>2. Runs(p)
    BY <1>2, WaiterRuns DEF IInv, Refused
  <2>3. /\ UNCHANGED <<state, to, flags, parent, children, reap, missed>>
        /\ UNCHANGED <<complete, notes>>
    BY <1>2 DEF Refused
  <2>4. /\ pc'[p] \notin {"told", "asleep"}
        /\ \A q \in Procs \ {p} : pc'[q] = pc[q] /\ args'[q] = args[q]
    BY <1>2 DEF IInv, Structure, TypeOK, Refused, Return
  <2>5. Structure'
    BY <2>1, <2>2, <2>3, <2>4, WaitingStructure DEF IInv
  <2>6. NoLostExit'
    BY <2>3, <2>4, LeaveKeepsNoLostExit
  <2> QED BY <2>5, <2>6 DEF IInv
<1>3. CASE NoneFound(p)
  <2>1. TypeOK'
    BY <1>3 DEF IInv, Structure, TypeOK, NoneFound, Goto
  <2>2. Runs(p)
    BY <1>3, WaiterRuns DEF IInv, NoneFound
  <2> QED BY <1>3, <2>1, <2>2, WaitingStructure, NoneFoundKeepsNoLostExit
          DEF IInv, Structure, TypeOK, NoneFound, Goto
<1>4. CASE ProcWaitStep(p)
  <2>1. TypeOK'
    BY <1>4 DEF IInv, Structure, TypeOK, ProcWaitStep, Goto
  <2>2. Runs(p)
    BY <1>4, WaiterRuns DEF IInv, ProcWaitStep
  <2> QED BY <1>4, <2>1, <2>2, WaitingStructure, ProcWaitStepKeepsNoLostExit
          DEF IInv, Structure, TypeOK, ProcWaitStep, Goto
<1>5. CASE Signal(p)
  <2>1. TypeOK'
    <3>1. CASE Return(p)
      BY <1>5, <3>1 DEF IInv, Structure, TypeOK, Signal, Return, AnyChild
    <3>2. CASE Goto(p, "search")
      BY <1>5, <3>2 DEF IInv, Structure, TypeOK, Signal, Goto
    <3> QED BY <1>5, <3>1, <3>2 DEF Signal
  <2>2. Runs(p)
    BY <1>5, WaiterRuns DEF IInv, Signal
  <2>3. /\ UNCHANGED <<state, to, flags, parent, children, reap, missed>>
        /\ UNCHANGED <<complete, notes>>
    BY <1>5 DEF Signal
  <2>4. /\ pc'[p] \notin {"told", "asleep"}
        /\ \A q \in Procs \ {p} : pc'[q] = pc[q] /\ args'[q] = args[q]
    BY <1>5 DEF IInv, Structure, TypeOK, Signal, Goto, Return
  <2>5. Structure'
    BY <2>1, <2>2, <2>3, <2>4, WaitingStructure DEF IInv
  <2>6. NoLostExit'
    BY <2>3, <2>4, LeaveKeepsNoLostExit
  <2> QED BY <2>5, <2>6 DEF IInv
<1>6. CASE Notify(p)
  <2>1. TypeOK'
    <3>1. notes[p] > 0 /\ notes \in [Procs -> 0 .. MaxNotes] /\ MaxNotes \in Nat
      BY <1>6 DEF IInv, Structure, TypeOK, ProcWaitAssumption, Notify
    <3>2. notes' = [notes EXCEPT ![p] = notes[p] - 1]
      BY <1>6 DEF Notify
    <3>3. notes[p] - 1 \in 0 .. MaxNotes
      BY <3>1
    <3>4. notes' \in [Procs -> 0 .. MaxNotes]
      BY <3>1, <3>2, <3>3
    <3>5. pc' = pc \/ pc' = [pc EXCEPT ![p] = "search"]
      BY <1>6 DEF Notify, Goto
    <3>6. pc' \in [Procs -> {"user", "search", "told", "asleep"}]
      BY <3>5 DEF IInv, Structure, TypeOK
    <3>7. complete' = complete \/ complete' = [complete EXCEPT ![p] = Runs(p)]
      BY <1>6 DEF Notify
    <3>8. Runs(p) \in BOOLEAN /\ complete \in [Procs -> BOOLEAN]
      BY DEF IInv, Structure, TypeOK, Runs
    <3>9. complete' \in [Procs -> BOOLEAN]
      BY <3>7, <3>8, Zenon
    <3>10. UNCHANGED <<state, to, flags, parent, children, args, reap, missed>>
      BY <1>6 DEF Notify, Goto
    <3> QED BY <3>4, <3>6, <3>9, <3>10 DEF IInv, Structure, TypeOK
  <2>2. NoLostExit'
    BY <1>6, NotifyKeepsNoLostExit
  <2>3. CASE Runs(p)
    <3>1. UNCHANGED <<state, to, flags, parent, children, reap, missed>>
      BY <1>6 DEF Notify
    <3>2. pc' = pc \/ pc' = [pc EXCEPT ![p] = "search"]
      BY <1>6 DEF Notify, Goto
    <3>3. \A q \in Procs \ {p} : pc'[q] = pc[q]
      BY <3>2 DEF IInv, Structure, TypeOK
    <3>4. pc'[p] = "told" => p \in Away
      BY <3>2 DEF IInv, Structure, TypeOK, ToldIsAway
    <3> QED BY <2>1, <2>2, <2>3, <3>1, <3>3, <3>4, WaitingStructure DEF IInv
  <2>4. CASE ~Runs(p)
    <3>1. pc' = pc /\ UNCHANGED <<state, to, flags, parent, children, reap, missed>>
      BY <1>6, <2>4 DEF IInv, Structure, Quiet, Notify
    <3> QED BY <2>1, <2>2, <3>1 DEF IInv, Structure, Quiet, Dying, MissedDying,
                 ListLive, ExitingHasParent, ToldIsAway, FamilySound, ReapedOnce,
                 HasWaiter, ListSound,
                 Runs, WaitedOn
  <2> QED BY <2>3, <2>4
<1> QED BY <1>1, <1>2, <1>3, <1>4, <1>5, <1>6

(* The invariant is inductive.                                             *)
LEMMA NextKeepsIInv == ProcWaitAssumption /\ IInv /\ [Next]_vars => IInv'
<1> SUFFICES ASSUME ProcWaitAssumption, IInv, [Next]_vars PROVE IInv'
  OBVIOUS
<1>1. CASE Next
  <2>1. PICK p \in Procs :
          \/ \E c \in Procs : Fork(p, c)
          \/ Exit(p) \/ Switch(p) \/ Reap(p) \/ Detach(p) \/ InformParent(p)
          \/ Wait(p) \/ SearchStep(p) \/ ProcWaitStep(p) \/ Notify(p) \/ Signal(p)
    BY <1>1 DEF Next
  <2> QED BY <2>1, TableSteps, FoundKeepsIInv, WaitSteps DEF SearchStep
<1>2. CASE UNCHANGED vars
  BY <1>2 DEF vars, IInv, Structure, TypeOK, Quiet, Dying, MissedDying, ListLive,
     ExitingHasParent, ToldIsAway, FamilySound, ReapedOnce, HasWaiter, ListSound,
     NoLostExit,
     Owed, Awaited, Searched, ForAny, Reportable, Changed, Runs, WaitedOn, Detached
<1> QED BY <1>1, <1>2

(* It holds at first, when nobody waits.                                   *)
LEMMA InitIInv == ProcWaitAssumption /\ Init => IInv
BY InitStructure DEF IInv, Init, NoLostExit

(* It holds always.                                                        *)
LEMMA AlwaysIInv == ProcWaitAssumption /\ Spec => []IInv
<1> SUFFICES ASSUME ProcWaitAssumption PROVE Spec => []IInv
  OBVIOUS
<1>1. Init => IInv
  BY InitIInv
<1>2. IInv /\ [Next]_vars => IInv'
  BY NextKeepsIInv
<1> QED BY <1>1, <1>2, PTL DEF Spec

----------------------------------------------------------------------------
(* The theorems.                                                           *)

(* The variables of exit and wait keep their types.                        *)
THEOREM TypeCorrect == ProcWaitAssumption /\ Spec => []TypeOK
<1>1. IInv => TypeOK
  BY DEF IInv, Structure
<1> QED BY <1>1, AlwaysIInv, PTL

(* The process table of procExit.c, for any number of processes: each      *)
(* entry that nobody waits for is given to the reaper exactly once, and    *)
(* each that has exited has a running parent with it in its list.          *)
THEOREM EntriesAreFreed == ProcWaitAssumption /\ Spec => []FamilySound
<1>1. IInv => FamilySound
  BY DEF IInv, Structure
<1> QED BY <1>1, AlwaysIInv, PTL

(* Proc_Wait against exit and detach, local or by notification: no process *)
(* sleeps on a child that has something to tell it.                        *)
THEOREM WaitersAreTold == ProcWaitAssumption /\ Spec => []NoLostExit
<1>1. IInv => NoLostExit
  BY DEF IInv
<1> QED BY <1>1, AlwaysIInv, PTL

=============================================================================
