----------------------------- MODULE ProcWait -----------------------------
(* Exit, detach and wait of the processes of a host (proc/procExit.c) on a *)
(* multiprocessor.  A process is told to its parent when it exits or       *)
(* detaches itself, and when it is suspended; the parent waits for any of  *)
(* its children or for some of them.  A process that has exited stays in   *)
(* the process table until its parent has waited for it or has exited, and *)
(* then until the reaper has freed its entry.                              *)
(*                                                                         *)
(* The entry of a process that runs on another host stays here: it exits   *)
(* and waits by remote procedure calls, and is told by a notification.     *)
(* An action is one pass through exitLock; an exit also has the context    *)
(* switch after it, when the lock is free and the state not yet changed.   *)
EXTENDS Naturals, FiniteSets

CONSTANTS
    Procs,      \* entries of the process table
    Roots,      \* processes without a parent that are there at first
    Away,       \* processes that run on another host
    Nil,
    MaxNotes    \* bound: notifications to one process that are under way

ASSUME ProcWaitAssumption ==
    /\ Roots \subseteq Procs /\ Away \subseteq Procs
    /\ IsFiniteSet(Procs) /\ Nil \notin Procs \cup {"exiting", "dead"}
    /\ MaxNotes \in Nat \ {0}

VARIABLES
    state,      \* procPtr->state: unused, alive (any state of a process that
                \* is not finished), exiting or dead
    to,         \* PROC_DYING: the state it changes to, having left the monitor
    flags,      \* procPtr->exitFlags; STATUS is one of PROC_STATUSES
    parent,     \* procPtr->parentID
    children,   \* procPtr->childList
    pc,         \* in user code, about to search, told to sleep (away), asleep
    args,       \* the children it waits for (any when empty), and whether also
                \* for those suspended
    complete,   \* SYNC_WAIT_COMPLETE of a process that is away
    notes,      \* calls of Proc_NotifyMigratedWaiters that are queued
    reap,       \* calls of Proc_Reaper that are queued
    missed      \* history: processes whose exit was overlooked as they were
                \* between the monitor and the context switch

vars == <<state, to, flags, parent, children, pc, args, complete, notes, reap, missed>>

Orphan == {"DETACHED", "WAITED_ON"}
AnyChild == [pids |-> {}, suspend |-> FALSE]

TypeOK ==
    /\ state \in [Procs -> {"unused", "alive", "exiting", "dead"}]
    /\ to \in [Procs -> {"exiting", "dead", Nil}]
    /\ flags \in [Procs -> SUBSET (Orphan \cup {"STATUS"})]
    /\ parent \in [Procs -> Procs \cup {Nil}]
    /\ children \in [Procs -> SUBSET Procs]
    /\ pc \in [Procs -> {"user", "search", "told", "asleep"}]
    /\ args \in [Procs -> [pids : SUBSET Procs, suspend : BOOLEAN]]
    /\ complete \in [Procs -> BOOLEAN]
    /\ notes \in [Procs -> 0 .. MaxNotes]
    /\ reap \in [Procs -> Nat]
    /\ missed \subseteq Procs

Init ==
    /\ state = [p \in Procs |-> IF p \in Roots THEN "alive" ELSE "unused"]
    /\ to = [p \in Procs |-> Nil]
    /\ flags = [p \in Procs |-> IF p \in Roots THEN Orphan ELSE {}]
    /\ parent = [p \in Procs |-> Nil]
    /\ children = [p \in Procs |-> {}]
    /\ pc = [p \in Procs |-> "user"]
    /\ args = [p \in Procs |-> AnyChild]
    /\ complete = [p \in Procs |-> FALSE]
    /\ notes = [p \in Procs |-> 0]
    /\ reap = [p \in Procs |-> 0]
    /\ missed = {}

(* In the process table, and not about to leave it.                        *)
Runs(p) == state[p] = "alive" /\ to[p] = Nil
InUser(p) == Runs(p) /\ pc[p] = "user"
Detached(p) == "DETACHED" \in flags[p]
WaitedOn(p) == "WAITED_ON" \in flags[p]

Goto(p, l) == pc' = [pc EXCEPT ![p] = l] /\ UNCHANGED args

Return(p) ==
    /\ pc' = [pc EXCEPT ![p] = "user"]
    /\ args' = [args EXCEPT ![p] = AnyChild]

-----------------------------------------------------------------------------
(* Sync_Broadcast(&parentProcPtr->waitCondition): nobody waits on that of  *)
(* a process that is away.                                                 *)
Broadcast(q) ==
    pc' = [pc EXCEPT ![q] = IF q \notin Away /\ @ = "asleep" THEN "search" ELSE @]

(* The parent is woken up, or its host is asked to do so later on.         *)
TellParent(q) ==
    IF q \in Away
    THEN /\ notes[q] < MaxNotes
         /\ notes' = [notes EXCEPT ![q] = @ + 1]
         /\ UNCHANGED pc
    ELSE Broadcast(q) /\ UNCHANGED notes

(* A new process, in an entry that is free.                                *)
Fork(p, c) ==
    /\ InUser(p) /\ state[c] = "unused"
    /\ state' = [state EXCEPT ![c] = "alive"]
    /\ flags' = [flags EXCEPT ![c] = {}]
    /\ parent' = [parent EXCEPT ![c] = p]
    /\ children' = [children EXCEPT ![p] = @ \cup {c}]
    /\ UNCHANGED <<to, pc, args, complete, notes, reap, missed>>

(* ExitProcessInt.  The children that have exited are given to the reaper, *)
(* the others become orphans.  The process itself goes to the reaper when  *)
(* it is an orphan, else its parent is told.                               *)
Exit(p) ==
    LET orphan == Orphan \subseteq flags[p]
        exited == {c \in children[p] : state[c] = "exiting"}
    IN
    /\ InUser(p)
    /\ state' = [c \in Procs |-> IF c \in exited THEN "dead" ELSE state[c]]
    /\ flags' = [c \in Procs |->
                    IF c \in children[p] \ exited THEN Orphan ELSE flags[c]]
    /\ children' = [children EXCEPT ![p] = {}]
    /\ reap' = [c \in Procs |->
                  IF c \in exited \/ (c = p /\ orphan) THEN reap[c] + 1 ELSE reap[c]]
    /\ to' = [to EXCEPT ![p] = IF orphan THEN "dead" ELSE "exiting"]
    /\ IF orphan THEN UNCHANGED <<pc, notes>> ELSE TellParent(parent[p])
    /\ missed' = (missed \ exited)
                    \cup {c \in children[p] : to[c] = "exiting"}
    /\ UNCHANGED <<parent, args, complete>>

(* Mutated form: the state is assigned before it is known.                 *)
SwitchEarly(p) ==
    /\ state' = [state EXCEPT ![p] = to[p]]
    /\ to' = [to EXCEPT ![p] = Nil]
    /\ UNCHANGED <<flags, parent, children, pc, args, complete, notes, reap, missed>>

(* The context switch to the new state, or the assignment of it after the  *)
(* monitor has been left.                                                  *)
Switch(p) ==
    /\ to[p] # Nil
    /\ state' = [state EXCEPT ![p] = to[p]]
    /\ to' = [to EXCEPT ![p] = Nil]
    /\ UNCHANGED <<flags, parent, children, pc, args, complete, notes, reap, missed>>

(* Proc_Reaper; when the process has not switched yet it is called again a *)
(* second later.  What was to be done for the process has no effect now,   *)
(* and its identifier, with a generation number, is that of no process.    *)
Reap(p) ==
    /\ reap[p] > 0 /\ state[p] = "dead"
    /\ state' = [state EXCEPT ![p] = "unused"]
    /\ flags' = [flags EXCEPT ![p] = {}]
    /\ parent' = [c \in Procs |-> IF c = p \/ parent[c] = p THEN Nil ELSE parent[c]]
    /\ complete' = [complete EXCEPT ![p] = FALSE]
    /\ notes' = [notes EXCEPT ![p] = 0]
    /\ reap' = [reap EXCEPT ![p] = @ - 1]
    /\ UNCHANGED <<to, children, pc, args, missed>>

(* Proc_DetachInt.                                                         *)
Detach(p) ==
    /\ InUser(p) /\ ~Detached(p)
    /\ flags' = [flags EXCEPT ![p] = @ \cup {"DETACHED"}]
    /\ TellParent(parent[p])
    /\ UNCHANGED <<state, to, parent, children, args, complete, reap, missed>>

(* Proc_InformParent: a process has been suspended or resumed.             *)
InformParent(p) ==
    /\ Runs(p) /\ ~Detached(p)
    /\ flags' = [flags EXCEPT ![p] = @ \cup {"STATUS"}]
    /\ Broadcast(parent[p])
    /\ UNCHANGED <<state, to, parent, children, args, complete, notes, reap, missed>>

-----------------------------------------------------------------------------
(* Proc_Wait.                                                              *)

(* For any child, or for some processes it has as children.                *)
Wait(p) ==
    /\ InUser(p)
    /\ \E pids \in SUBSET {c \in Procs : parent[c] = p}, suspend \in BOOLEAN :
          args' = [args EXCEPT ![p] = [pids |-> pids, suspend |-> suspend]]
    /\ pc' = [pc EXCEPT ![p] = "search"]
    /\ UNCHANGED <<state, to, flags, parent, children, complete, notes, reap, missed>>

(* A change of state that the parent has not been told yet.                *)
Changed(c, suspend) ==
    state[c] = "exiting" \/ Detached(c) \/ (suspend /\ "STATUS" \in flags[c])
Reportable(c, suspend) == Changed(c, suspend) /\ ~WaitedOn(c)

(* Mutated form: a child that is about to switch is not waited for.        *)
ChildSettled(c) == TRUE

(* LookForAnyChild waits for a child that has left the monitor to get its  *)
(* new state.                                                              *)
Settled(c) == to[c] = Nil

(* CheckPidArray has to lock the entry, which that of a process that is    *)
(* away is until its state is assigned.                                    *)
Unlocked(c) == c \in Away => Settled(c)

ForAny(p) == args[p].pids = {}
Searched(p) == IF ForAny(p) THEN children[p] ELSE args[p].pids
Seen(p, c) == IF ForAny(p) THEN Settled(c) ELSE Unlocked(c)
ValidPID(p, c) == state[c] \notin {"unused", "dead"} /\ parent[c] = p

(* Mutated form: a child that is running and detached stays in the list.   *)
ReportKept(p, c) ==
    /\ IF state[c] = "exiting" \/ Detached(c)
       THEN /\ IF state[c] = "exiting"
               THEN /\ state' = [state EXCEPT ![c] = "dead"]
                    /\ reap' = [reap EXCEPT ![c] = @ + 1]
                    /\ children' = [children EXCEPT ![p] = @ \ {c}]
                    /\ UNCHANGED flags
               ELSE /\ flags' = [flags EXCEPT ![c] = @ \cup {"WAITED_ON"}]
                    /\ UNCHANGED <<state, reap, children>>
            /\ missed' = IF to[c] = "exiting" THEN missed \cup {c} ELSE missed \ {c}
       ELSE /\ flags' = [flags EXCEPT ![c] = @ \ {"STATUS"}]
            /\ UNCHANGED <<state, reap, children, missed>>

(* FindExitingChild, the child that was found.                             *)
Report(p, c) ==
    /\ IF state[c] = "exiting" \/ Detached(c)
       THEN /\ children' = [children EXCEPT ![p] = @ \ {c}]
            /\ IF state[c] = "exiting"
               THEN /\ state' = [state EXCEPT ![c] = "dead"]
                    /\ reap' = [reap EXCEPT ![c] = @ + 1]
                    /\ UNCHANGED flags
               ELSE /\ flags' = [flags EXCEPT ![c] = @ \cup {"WAITED_ON"}]
                    /\ UNCHANGED <<state, reap>>
            /\ missed' = IF to[c] = "exiting" THEN missed \cup {c} ELSE missed \ {c}
       ELSE /\ flags' = [flags EXCEPT ![c] = @ \ {"STATUS"}]
            /\ UNCHANGED <<state, reap, children, missed>>

Found(p) ==
    /\ pc[p] = "search"
    /\ \E c \in Searched(p) :
          /\ Seen(p, c) /\ Reportable(c, args[p].suspend)
          /\ ForAny(p) \/ ValidPID(p, c)
          /\ Report(p, c)
    /\ Return(p)
    /\ UNCHANGED <<to, parent, complete, notes>>

(* PROC_NO_CHILDREN or PROC_INVALID_PID.                                   *)
Refused(p) ==
    /\ pc[p] = "search"
    /\ IF ForAny(p)
       THEN \A c \in children[p] : /\ Settled(c) /\ Changed(c, args[p].suspend)
                                   /\ WaitedOn(c)
       ELSE \E c \in args[p].pids : ~ValidPID(p, c)
    /\ Return(p)
    /\ UNCHANGED <<state, to, flags, parent, children, complete, notes, reap, missed>>

(* FAILURE: the process sleeps, or is told to if it is away.               *)
NoneFound(p) ==
    /\ pc[p] = "search"
    /\ \A c \in Searched(p) : Seen(p, c) /\ ~Reportable(c, args[p].suspend)
    /\ IF ForAny(p) THEN \E c \in children[p] : ~Changed(c, args[p].suspend)
                    ELSE \A c \in args[p].pids : ValidPID(p, c)
    /\ Goto(p, IF p \in Away THEN "told" ELSE "asleep")
    /\ missed' = IF ForAny(p) THEN missed
                 ELSE missed \cup {c \in args[p].pids : to[c] = "exiting"}
    /\ UNCHANGED <<state, to, flags, parent, children, complete, notes, reap>>

(* Sync_ProcWait of a process that is away: it does not sleep if it has    *)
(* been notified.                                                          *)
ProcWaitStep(p) ==
    /\ pc[p] = "told"
    /\ Goto(p, IF complete[p] THEN "search" ELSE "asleep")
    /\ complete' = [complete EXCEPT ![p] = FALSE]
    /\ UNCHANGED <<state, to, flags, parent, children, notes, reap, missed>>

(* Proc_NotifyMigratedWaiters and, on the other host, ProcessWakeup.       *)
Notify(p) ==
    /\ notes[p] > 0
    /\ notes' = [notes EXCEPT ![p] = @ - 1]
    /\ IF pc[p] = "asleep"
       THEN Goto(p, "search") /\ UNCHANGED complete
       ELSE complete' = [complete EXCEPT ![p] = Runs(p)]
            /\ UNCHANGED <<pc, args>>
    /\ UNCHANGED <<state, to, flags, parent, children, reap, missed>>

(* A signal: the wait is aborted, or, unless the process is away, begun    *)
(* again when it is SIG_CHILD.                                             *)
Signal(p) ==
    /\ pc[p] = "asleep"
    /\ Return(p) \/ (p \notin Away /\ Goto(p, "search"))
    /\ UNCHANGED <<state, to, flags, parent, children, complete, notes, reap, missed>>

-----------------------------------------------------------------------------
SearchStep(p) == Found(p) \/ Refused(p) \/ NoneFound(p)

Next ==
    \E p \in Procs :
        \/ \E c \in Procs : Fork(p, c)
        \/ Exit(p) \/ Switch(p) \/ Reap(p) \/ Detach(p) \/ InformParent(p)
        \/ Wait(p) \/ SearchStep(p) \/ ProcWaitStep(p) \/ Notify(p) \/ Signal(p)

Spec == Init /\ [][Next]_vars

-----------------------------------------------------------------------------
(* Properties.                                                             *)

(* The entries of the process table are freed, once, and none is left that *)
(* nobody will free: a process that has exited has a parent that will wait *)
(* for it or exit (unless its exit was overlooked); one that has a parent  *)
(* is in its list, as else the exit panics ("no parent process"); the      *)
(* reaper is called exactly once for those that are dead; and a child in   *)
(* the list is never one that goes to the dead state, as LookForAnyChild   *)
(* would wait for it to become exiting forever.                            *)
ReapedOnce ==
    \A p \in Procs :
        reap[p] = IF state[p] = "dead" \/ to[p] = "dead" THEN 1 ELSE 0
HasWaiter ==
    \A p \in Procs :
        \/ state[p] = "alive" /\ ~(Orphan \subseteq flags[p]) /\ p \notin missed
        \/ state[p] = "exiting" /\ p \notin missed
        => /\ parent[p] \in Procs /\ Runs(parent[p])
           /\ p \in children[parent[p]] /\ ~WaitedOn(p)
ListSound ==
    \A p \in Procs : \A c \in children[p] : to[c] # "dead" /\ parent[c] = p
FamilySound == ReapedOnce /\ HasWaiter /\ ListSound

(* A process does not sleep on what has happened already: when a child it  *)
(* waits for has exited, is about to have, or has detached itself, or has  *)
(* been suspended if it asked for that (and is not away), it is awake, or  *)
(* a notification is under way or has arrived before it sleeps (unless the *)
(* exit of the child was overlooked).                                      *)
Owed(p, c) ==
    /\ c \in Searched(p) \cap children[p] /\ c \notin missed
    /\ to[c] = "exiting" \/ Reportable(c, args[p].suspend /\ p \notin Away)
Awaited(p) == notes[p] > 0 \/ (pc[p] = "told" /\ complete[p])
NoLostExit ==
    \A p, c \in Procs :
        pc[p] \in {"told", "asleep"} /\ Owed(p, c) => p \in Away /\ Awaited(p)

=============================================================================
