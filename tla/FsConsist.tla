----------------------------- MODULE FsConsist -----------------------------
(***************************************************************************)
(* Cache consistency of one Sprite file: the file server's per-file        *)
(* consistency monitor (fsconsist/fsconsistCache.c, fsconsistIOClient.c),  *)
(* the open, close and client-kill paths that drive it (fsio/fsioFile.c)   *)
(* and the workstations that open, cache, write back and close the file    *)
(* (fsrmt/fsrmtFile.c, fscache/fscacheOps.c).                              *)
(*                                                                         *)
(* An open (1) bumps the file's version under the handle lock, (2) enters  *)
(* the monitor, walks the client list and commands other clients to write  *)
(* back or invalidate, giving the monitor up for every command, (3) lists  *)
(* the opener and waits until every client has answered.  The reply then   *)
(* travels to the opener, which installs it in its handle in a later step. *)
(*                                                                         *)
(* The file is one block.  What a copy contains is abstracted to whether   *)
(* it is the value written last: fresh is the set of places holding it.    *)
(* The order of the client list is abstracted to an arbitrary order.       *)
(***************************************************************************)
EXTENDS Naturals, FiniteSets, FiniteSetsExt, Functions

CONSTANTS
    Clients,      \* workstations
    Procs,        \* processes on them, each with at most one stream to the file
    Host,         \* the workstation of a process
    None,         \* no client, no process
    Server,       \* the server's copy of the block, as a place
    MaxOpens,     \* bound on the opens issued in a behaviour
    Crashes,      \* the workstations that may crash
    Slow,         \* the workstations that may take over a minute to answer
    DiskFull      \* whether a write-back may be refused for lack of space

ASSUME ConsistAssumption ==
    /\ IsFiniteSet(Clients) /\ IsFiniteSet(Procs)
    /\ Host \in [Procs -> Clients]
    /\ None \notin Clients \cup Procs
    /\ Server \notin Clients
    /\ MaxOpens \in Nat
    /\ Crashes \cup Slow \subseteq Clients
    /\ DiskFull \in BOOLEAN

VARIABLES
    version,       \* cacheInfo.version of the server's handle
    use,           \* handlePtr->use: references and writers, all clients
    entry,         \* consistPtr->clientList
    lastWriter,    \* consistPtr->lastWriter
    msgs,          \* consistPtr->msgList: outstanding command of each client
    openTimeStamp, \* the server's global open time stamp
    action,        \* FS_CONSIST_IN_PROGRESS and the open that holds it
    cmd,           \* the RPC_FS_CONSIST call in progress
    late,          \* ConsistTimeout calls queued on server processes
    pc, mode, grant, \* each process: where it is, how it opens, the reply
    up,            \* workstations that are running
    handle,        \* the remote file handle of each workstation
    jobs,          \* ProcessConsist calls queued on workstations
    replies,       \* RPC_FS_CONSIST_REPLY calls on their way
    fresh,         \* history: the copies that hold the value written last
    trouble,       \* history: clients that crashed, were killed by the server
                   \* or could not write back
    misled,        \* history: clients given a version that counts an open still
                   \* outside the monitor
    discarded,     \* history: last writers told to invalidate without writing
                   \* back
    opens          \* opens issued so far (bounded by MaxOpens)

serverVars == <<version, use, entry, lastWriter, msgs, openTimeStamp, action,
                cmd, late>>
procVars   == <<pc, mode, grant, opens>>
clientVars == <<up, handle, jobs, replies>>
history    == <<fresh, trouble, misled, discarded>>
vars == <<serverVars, procVars, clientVars, history>>

Commands == {"writeBack", "invalidate"}
Modes    == {"read", "write"}


NoEntry  == [listed |-> FALSE, ref |-> 0, write |-> 0, cached |-> FALSE,
             stamp |-> 0]
NoHandle == [stamp |-> 0, version |-> 0, cacheable |-> FALSE, block |-> "none"]
NoAction == [by |-> None, phase |-> "none", cacheable |-> FALSE, todo |-> {},
             next |-> None, error |-> FALSE, armed |-> FALSE]
NoCmd    == [client |-> None, op |-> {}, stamp |-> 0, version |-> 0,
             answer |-> "none"]
NoGrant  == [cacheable |-> FALSE, stamp |-> 0, version |-> 0]

Init ==
    /\ version = 1 /\ use = [ref |-> 0, write |-> 0]
    /\ entry = [c \in Clients |-> NoEntry]
    /\ lastWriter = None /\ msgs = [c \in Clients |-> {}]
    /\ openTimeStamp = 0 /\ action = NoAction /\ cmd = NoCmd /\ late = 0
    /\ pc = [p \in Procs |-> "idle"] /\ mode = [p \in Procs |-> "none"]
    /\ grant = [p \in Procs |-> NoGrant] /\ opens = 0
    /\ up = [c \in Clients |-> TRUE]
    /\ handle = [c \in Clients |-> NoHandle]
    /\ jobs = {} /\ replies = {}
    /\ fresh = {Server} /\ trouble = {} /\ misled = {} /\ discarded = {}

----------------------------------------------------------------------------
(* The consistency monitor and the client list                             *)

\* The visiting open holds the monitor between two commands and gives it up
\* in Rpc_Call and in Sync_Wait.
MonitorHeld == action.phase = "visit"
InProgress  == action # NoAction

One(b) == IF b THEN 1 ELSE 0

\* Fsconsist_IOClientOpen.
IOClientOpen(c, m, cacheable, stamp) ==
    [entry EXCEPT ![c] =
        [listed |-> TRUE, ref |-> @.ref + 1, write |-> @.write + One(m = "write"),
         cached |-> cacheable, stamp |-> stamp]]

\* Fsconsist_IOClientKill: an element locked by the walk keeps its place.
IOClientKill(c) ==
    [entry EXCEPT ![c] = IF action.next = c THEN [@ EXCEPT !.ref = 0, !.write = 0]
                         ELSE NoEntry]

\* Fsconsist_Kill.
Kill(c) ==
    /\ entry' = IOClientKill(c)
    /\ lastWriter' = IF lastWriter = c THEN None ELSE lastWriter
    /\ msgs' = [msgs EXCEPT ![c] = {}]
    /\ trouble' = trouble \cup {c} /\ UNCHANGED <<misled, discarded>>

\* The caller of a kill gives the client's uses back to the summary counts.
DropUses(c) == use' = [ref |-> use.ref - entry[c].ref,
                       write |-> use.write - entry[c].write]

\* Processes ps are through with their stream, or dead with their workstation.
Finish(ps, where) ==
    /\ pc'    = [p \in Procs |-> IF p \in ps THEN where ELSE pc[p]]
    /\ mode'  = [p \in Procs |-> IF p \in ps THEN "none" ELSE mode[p]]
    /\ grant' = [p \in Procs |-> IF p \in ps THEN NoGrant ELSE grant[p]]

IdleOrDead(p) == IF up[Host[p]] THEN "idle" ELSE "dead"

----------------------------------------------------------------------------
(* Opening, on the client and up to the consistency action                 *)

\* Fsprefix_OpenCheck counts the open and the open RPC leaves.
OpenSend(p, m) ==
    /\ pc[p] = "idle" /\ up[Host[p]] /\ opens < MaxOpens
    /\ pc' = [pc EXCEPT ![p] = "sent"]
    /\ mode' = [mode EXCEPT ![p] = m]
    /\ opens' = opens + 1
    /\ UNCHANGED <<serverVars, clientVars, history, grant>>

\* Fsio_FileNameOpen up to unlocking the handle: the summary counts and the
\* version change before the consistency monitor is entered.
NameOpen(p) ==
    /\ pc[p] = "sent"
    /\ pc' = [pc EXCEPT ![p] = "named"]
    /\ use' = [ref |-> use.ref + 1, write |-> use.write + One(mode[p] = "write")]
    /\ version' = version + One(mode[p] = "write")
    /\ UNCHANGED <<entry, lastWriter, msgs, openTimeStamp, action, cmd, late,
                   mode, grant, opens, clientVars, history>>

\* Mutated form: readers elsewhere do not keep a writer from caching.
CacheableUnderReaders(p) ==
    \A c \in Clients \ {Host[p]} : entry[c].write = 0

\* The cacheability test of StartConsistency.
Cacheable(p) ==
    \A c \in Clients \ {Host[p]} :
        /\ entry[c].write = 0
        /\ mode[p] = "write" => entry[c].ref = 0

\* The element the walk goes to next; it is locked until it is visited.
Successors(todo) == IF todo = {} THEN {None} ELSE todo

StartConsistency(p) ==
    /\ pc[p] = "named" /\ ~InProgress
    /\ pc' = [pc EXCEPT ![p] = "consist"]
    /\ LET others == {c \in Clients \ {Host[p]} : entry[c].listed}
       IN  \E n \in Successors(others) :
             action' = [NoAction EXCEPT !.by = p, !.phase = "visit",
                          !.cacheable = Cacheable(p), !.todo = others, !.next = n]
    /\ UNCHANGED <<version, use, entry, lastWriter, msgs, openTimeStamp, cmd,
                   late, mode, grant, opens, clientVars, history>>

\* Mutated form: a writer that must stop caching is only invalidated.
CommandForLosingDirty(c) ==
    IF ~entry[c].cached THEN {}
    ELSE IF action.cacheable
    THEN IF lastWriter # c THEN {}
         ELSE {"writeBack"} \cup
              (IF mode[action.by] = "write" THEN {"invalidate"} ELSE {})
    ELSE IF entry[c].ref > 0 THEN {"invalidate"}
    ELSE {}

\* What the walk asks of client c (cases 1 to 6 of StartConsistency).
CommandFor(c) ==
    IF ~entry[c].cached THEN {}
    ELSE IF action.cacheable
    THEN IF lastWriter # c THEN {}
         ELSE {"writeBack"} \cup
              (IF mode[action.by] = "write" THEN {"invalidate"} ELSE {})
    ELSE IF entry[c].write > 0 THEN {"writeBack", "invalidate"}
    ELSE IF entry[c].ref > 0 THEN {"invalidate"}
    ELSE {}

\* One turn of the walk, with the first half of ClientCommand.
VisitClient ==
    /\ MonitorHeld /\ action.next # None
    /\ LET c    == action.next
           op   == CommandFor(c)
           rest == {d \in action.todo \ {c} : entry[d].listed}
       IN  /\ \E n \in Successors(rest) :
                action' = [action EXCEPT !.todo = rest, !.next = n,
                             !.phase = IF op = {} THEN "visit" ELSE "command"]
           /\ msgs' = [msgs EXCEPT ![c] = IF op = {} THEN @ ELSE op]
           /\ cmd' = IF op = {} THEN cmd
                     ELSE [client |-> c, op |-> op, stamp |-> entry[c].stamp,
                           version |-> version, answer |-> "none"]
           /\ discarded' = IF lastWriter = c /\ entry[c].write = 0 /\ ~action.cacheable
                           THEN discarded \cup {c} ELSE discarded
    /\ UNCHANGED <<version, use, entry, lastWriter, openTimeStamp, late,
                   procVars, clientVars, fresh, trouble, misled>>

\* The callback RPC to a crashed workstation times out.
CommandTimeout ==
    /\ action.phase = "command" /\ cmd.answer = "none" /\ ~up[cmd.client]
    /\ cmd' = [cmd EXCEPT !.answer = "timeout"]
    /\ UNCHANGED <<version, use, entry, lastWriter, msgs, openTimeStamp, action,
                   late, procVars, clientVars, history>>

\* ClientCommand after Rpc_Call: a client that is down or does not know the
\* open is killed; the summary counts are left alone.
CommandDone ==
    /\ action.phase = "command" /\ cmd.answer # "none"
    /\ action' = [action EXCEPT !.phase = "visit"]
    /\ cmd' = NoCmd
    /\ IF cmd.answer = "ok"
       THEN UNCHANGED <<entry, lastWriter, msgs, trouble, misled, discarded>>
       ELSE Kill(cmd.client)
    /\ UNCHANGED <<version, use, openTimeStamp, late, procVars, clientVars, fresh>>

\* The end of the walk, UpdateList, and EndConsistency up to its wait.
UpdateList ==
    /\ MonitorHeld /\ action.next = None
    /\ LET p == action.by
           c == Host[p]
       IN  /\ openTimeStamp' = openTimeStamp + 1
           /\ entry' = IOClientOpen(c, mode[p], action.cacheable, openTimeStamp')
           /\ lastWriter' = IF action.cacheable /\ mode[p] = "write" THEN c
                            ELSE lastWriter
           /\ grant' = [grant EXCEPT ![p] = [cacheable |-> action.cacheable,
                                      stamp |-> openTimeStamp', version |-> 0]]
    /\ action' = [action EXCEPT !.phase = "wait", !.armed = TRUE]
    /\ UNCHANGED <<version, use, msgs, cmd, late, pc, mode, opens, clientVars,
                   history>>

\* EndConsistency once the message list is empty.
EndConsistency ==
    /\ action.phase = "wait" /\ \A c \in Clients : msgs[c] = {}
    /\ pc' = [pc EXCEPT ![action.by] = IF action.error THEN "aborting"
                                       ELSE "granted"]
    /\ action' = NoAction
    /\ UNCHANGED <<version, use, entry, lastWriter, msgs, openTimeStamp, cmd,
                   late, mode, grant, opens, clientVars, history>>

\* Fsio_FileNameOpen after a failed action: the opener is killed.
AbortOpen(p) ==
    /\ pc[p] = "aborting" /\ ~MonitorHeld
    /\ DropUses(Host[p]) /\ Kill(Host[p])
    /\ Finish({p}, IdleOrDead(p))
    /\ UNCHANGED <<version, openTimeStamp, action, cmd, late, opens, clientVars,
                   fresh>>

\* q has changed the version but not yet got through the monitor.
Ahead(q) == pc[q] \in {"named", "consist"}

\* Fscache_GetCachedAttr and the reply of a granted open.
OpenReply(p) ==
    /\ pc[p] = "granted"
    /\ IF up[Host[p]]
       THEN /\ grant' = [grant EXCEPT ![p].version = version]
            /\ pc' = [pc EXCEPT ![p] = "replied"]
            /\ UNCHANGED mode
       ELSE Finish({p}, "dead")
    /\ misled' = IF \E q \in Procs : mode[q] = "write" /\ Ahead(q)
                THEN misled \cup {Host[p]} ELSE misled
    /\ UNCHANGED <<serverVars, opens, clientVars, fresh, trouble, discarded>>

----------------------------------------------------------------------------
(* The timeout of a consistency action                                     *)

\* Nothing of what c was asked is under way any more.
Lost(c) == c \notin {m.client : m \in jobs \cup replies}

\* Mutated form: the timer element is not taken off when it fires.
ConsistTimeoutIntrRearmed ==
    /\ action.phase = "wait" /\ action.armed
    /\ \E c \in Clients : msgs[c] # {} /\ (c \in Slow \/ Lost(c))
    /\ late' = late + 1
    /\ UNCHANGED <<version, use, entry, lastWriter, msgs, openTimeStamp, cmd,
                   action, procVars, clientVars, history>>

\* ConsistTimeoutIntr: the timer queues ConsistTimeout on a server process.  A
\* minute passes only while an answer is slow or lost.
ConsistTimeoutIntr ==
    /\ action.phase = "wait" /\ action.armed
    /\ \E c \in Clients : msgs[c] # {} /\ (c \in Slow \/ Lost(c))
    /\ action' = [action EXCEPT !.armed = FALSE]
    /\ late' = late + 1
    /\ UNCHANGED <<version, use, entry, lastWriter, msgs, openTimeStamp, cmd,
                   procVars, clientVars, history>>

\* Mutated form: the clients are killed and their messages stay on the list.
ConsistTimeoutKeepingMsgs ==
    LET slow == {c \in Clients : msgs[c] # {}}
    IN  /\ late > 0 /\ ~MonitorHeld
        /\ late' = late - 1
        /\ entry' = [c \in Clients |-> IF c \in slow THEN IOClientKill(c)[c]
                                       ELSE entry[c]]
        /\ lastWriter' = IF lastWriter \in slow THEN None ELSE lastWriter
        /\ trouble' = trouble \cup slow
        /\ UNCHANGED <<version, use, openTimeStamp, action, cmd, procVars, msgs,
                       clientVars, fresh, misled, discarded>>

\* ConsistTimeout, whenever the server process gets to it.
ConsistTimeout ==
    LET slow == {c \in Clients : msgs[c] # {}}
    IN  /\ late > 0 /\ ~MonitorHeld
        /\ late' = late - 1
        /\ entry' = [c \in Clients |-> IF c \in slow THEN IOClientKill(c)[c]
                                       ELSE entry[c]]
        /\ lastWriter' = IF lastWriter \in slow THEN None ELSE lastWriter
        /\ msgs' = [c \in Clients |-> {}]
        /\ trouble' = trouble \cup slow
        /\ UNCHANGED <<version, use, openTimeStamp, action, cmd, procVars,
                       clientVars, fresh, misled, discarded>>

----------------------------------------------------------------------------
(* Workstations: installing an open, input and output, closing             *)

Known(c)   == entry[c].listed                      \* FsrmtFileVerify
Closing(c) == \E p \in Procs : Host[p] = c /\ pc[p] = "closing"
IsOpen(p)  == pc[p] = "open"

\* Fsprefix_OpenInProgress: opens between OpenCheck and OpenDone.
OpenInProgress(c) ==
    \E p \in Procs : /\ Host[p] = c
                     /\ pc[p] \in {"sent", "named", "consist", "granted",
                                   "aborting", "replied"}

\* The end of FsrmtOpen: the reply is in and Fsprefix_OpenDone is called.
OpenDone(p) ==
    /\ pc[p] = "replied"
    /\ pc' = [pc EXCEPT ![p] = "install"]
    /\ UNCHANGED <<serverVars, mode, grant, opens, clientVars, history>>

\* Mutated form: readers are allowed the lag of a version that writers have.
UpdateFileLagging(h, g, m) ==
    [stamp |-> g.stamp,
     version |-> IF g.version > h.version THEN g.version ELSE h.version,
     cacheable |-> g.cacheable,
     block |-> IF ~g.cacheable \/ h.version + 1 < g.version THEN "none"
               ELSE h.block]

\* Fscache_UpdateFile: what an open does to the cached state of the file.
UpdateFile(h, g, m) ==
    LET outOfDate == IF m = "write" THEN h.version + 1 < g.version
                     ELSE h.version < g.version
    IN  [stamp |-> g.stamp,
         version |-> IF g.version > h.version THEN g.version ELSE h.version,
         cacheable |-> g.cacheable,
         block |-> IF ~g.cacheable \/ outOfDate THEN "none" ELSE h.block]

\* FsrmtFileIoOpen; the handle is locked while one of its streams is closed.
IoOpen(p) ==
    LET c == Host[p]
    IN  /\ pc[p] = "install" /\ ~Closing(c)
        /\ handle' = [handle EXCEPT ![c] = UpdateFile(@, grant[p], mode[p])]
        /\ fresh' = IF handle'[c].block = "none" THEN fresh \ {c} ELSE fresh
        /\ grant' = [grant EXCEPT ![p] = NoGrant]
        /\ pc' = [pc EXCEPT ![p] = "open"]
        /\ UNCHANGED <<serverVars, mode, opens, up, jobs, replies, trouble, misled,
                    discarded>>

\* A place takes over the contents of another one.
Copied(from, to) == IF from \in fresh THEN fresh \cup {to} ELSE fresh \ {to}

\* FsrmtFileRead through the cache, filling it from the server.
ReadFill(p) ==
    LET c == Host[p]
    IN  /\ IsOpen(p) /\ handle[c].cacheable /\ handle[c].block = "none" /\ Known(c)
        /\ handle' = [handle EXCEPT ![c].block = "clean"]
        /\ fresh' = Copied(Server, c)
        /\ UNCHANGED <<serverVars, procVars, up, jobs, replies, trouble, misled,
                    discarded>>

\* FsrmtFileWrite: into the cache, or through to a server that knows us.
Write(p) ==
    LET c == Host[p]
    IN  /\ IsOpen(p) /\ mode[p] = "write"
        /\ \/ /\ handle[c].cacheable
              /\ handle' = [handle EXCEPT ![c].block = "dirty"]
              /\ fresh' = {c}
           \/ /\ ~handle[c].cacheable /\ Known(c)
              /\ fresh' = {Server}
              /\ UNCHANGED handle
        /\ UNCHANGED <<serverVars, procVars, up, jobs, replies, trouble, misled,
                    discarded>>

\* Fsconsist_DeleteLastWriter, called when the last dirty block comes in.
DeleteLastWriter(c) ==
    IF ~InProgress /\ entry[c].listed /\ entry[c].ref = 0 /\ lastWriter = c
    THEN /\ entry' = [entry EXCEPT ![c] = NoEntry] /\ lastWriter' = None
    ELSE UNCHANGED <<entry, lastWriter>>

\* Fscache_PreventWriteBacks holds while the last stream is being closed.
WriteBacksPrevented(c) ==
    Closing(c) /\ \A p \in Procs : Host[p] = c => ~IsOpen(p)

\* FsrmtCleanBlocks: the delayed write-back.
CleanBlocks(c) ==
    /\ handle[c].block = "dirty" /\ ~WriteBacksPrevented(c)
    /\ Known(c) /\ ~MonitorHeld
    /\ handle' = [handle EXCEPT ![c].block = "clean"]
    /\ fresh' = Copied(c, Server)
    /\ DeleteLastWriter(c)
    /\ UNCHANGED <<version, use, msgs, openTimeStamp, action, cmd, late, procVars,
                   up, jobs, replies, trouble, misled,
                    discarded>>

\* Mutated form: the last close does not look for dirty blocks.
CloseSendUnchecked(p) ==
    LET c == Host[p]
        last == \A q \in Procs \ {p} : ~(Host[q] = c /\ IsOpen(q))
    IN  /\ IsOpen(p) /\ ~Closing(c)
        /\ pc' = [pc EXCEPT ![p] = "closing"]
        /\ grant' = [grant EXCEPT ![p].cacheable = last /\ handle[c].cacheable]
        /\ UNCHANGED <<serverVars, mode, opens, clientVars, history>>

\* FsrmtFileClose up to the RPC: with the last stream gone and no dirty
\* block, the close carries FS_LAST_DIRTY_BLOCK.
CloseSend(p) ==
    LET c == Host[p]
        last == \A q \in Procs \ {p} : ~(Host[q] = c /\ IsOpen(q))
    IN  /\ IsOpen(p) /\ ~Closing(c)
        /\ pc' = [pc EXCEPT ![p] = "closing"]
        /\ grant' = [grant EXCEPT ![p].cacheable =
                        last /\ handle[c].cacheable /\ handle[c].block # "dirty"]
        /\ UNCHANGED <<serverVars, mode, opens, clientVars, history>>

\* Mutated form: the writer count is not given back.
IOClientCloseKeepingWriter(p) ==
    LET c == Host[p]
        e == [entry[c] EXCEPT !.ref = @ - 1]
    IN  IF e.ref = 0 /\ action.next # c /\ ~(lastWriter = c /\ e.cached)
        THEN NoEntry ELSE e

\* Fsconsist_IOClientClose on the closer's element.
IOClientClose(p) ==
    LET c == Host[p]
        e == [entry[c] EXCEPT !.ref = @ - 1, !.write = @ - One(mode[p] = "write")]
    IN  IF e.ref = 0 /\ action.next # c /\ ~(lastWriter = c /\ e.cached)
        THEN NoEntry ELSE e

\* Fsconsist_Close after the list entry: FS_LAST_DIRTY_BLOCK clears the field
\* even for a client that is not the last writer.
ResetLastWriter(lastDirtyBlock) == IF lastDirtyBlock THEN None ELSE lastWriter

\* Fsio_FileClose (refused for a client the server does not know) and the
\* end of FsrmtFileClose.
Close(p) ==
    LET c == Host[p]
    IN  /\ pc[p] = "closing" /\ ~MonitorHeld
        /\ Known(c) => /\ entry[c].ref > 0     \* IOClientClose panics at zero
                       /\ mode[p] = "write" => entry[c].write > 0
        /\ Finish({p}, IdleOrDead(p))
        /\ IF Known(c)
           THEN /\ entry' = [entry EXCEPT ![c] = IOClientClose(p)]
                /\ lastWriter' = ResetLastWriter(grant[p].cacheable)
                /\ use' = [ref |-> use.ref - 1,
                           write |-> use.write - One(mode[p] = "write")]
           ELSE UNCHANGED <<entry, lastWriter, use>>
        /\ UNCHANGED <<version, msgs, openTimeStamp, action, cmd, late, opens,
                       clientVars, history>>

\* FsrmtFileScavenge: an unused handle without blocks goes.
FileScavenge(c) ==
    /\ handle[c].stamp > 0 /\ handle[c].block = "none"
    /\ \A p \in Procs : Host[p] = c => pc[p] \notin {"open", "closing"}
    /\ handle' = [handle EXCEPT ![c] = NoHandle]
    /\ UNCHANGED <<serverVars, procVars, up, jobs, replies, history>>

----------------------------------------------------------------------------
(* Consistency commands on the workstation                                 *)

\* Fsconsist_RpcConsist: accept, declare the handle stale, or refuse while an
\* open is in progress.  A refused command is sent again, so it is no step.
RpcConsist(c) ==
    LET h == handle[c]
        accept == /\ h.stamp > 0
                  /\ \/ h.stamp = cmd.stamp
                     \/ h.version = cmd.version /\ "writeBack" \notin cmd.op
    IN  /\ action.phase = "command" /\ cmd.client = c /\ cmd.answer = "none"
        /\ up[c] /\ ~Closing(c)
        /\ \/ /\ accept
              /\ cmd' = [cmd EXCEPT !.answer = "ok"]
              /\ jobs' = jobs \cup {[client |-> c, op |-> cmd.op, stamp |-> cmd.stamp]}
           \/ /\ ~accept /\ ~OpenInProgress(c)
              /\ cmd' = [cmd EXCEPT !.answer = "stale"]
              /\ UNCHANGED jobs
        /\ UNCHANGED <<version, use, entry, lastWriter, msgs, openTimeStamp, action,
                       late, procVars, up, handle, replies, history>>

\* Fscache_Consist on a cached block; ok says whether the write-back worked.
Consist(h, op, ok) ==
    [h EXCEPT !.cacheable = @ /\ "invalidate" \notin op,
              !.block = IF ~ok \/ @ = "none" THEN @
                        ELSE IF "invalidate" \in op THEN "none"
                        ELSE "clean"]

\* ProcessConsist: without a handle the command is dropped without a reply.
ProcessConsist(j) ==
    LET c     == j.client
        flush == "writeBack" \in j.op /\ handle[c].block = "dirty"
        Answer(ok) ==
            /\ handle' = [handle EXCEPT ![c] = Consist(@, j.op, ok)]
            /\ replies' = replies \cup {[client |-> c, ok |-> ok, stamp |-> j.stamp]}
    IN  /\ j \in jobs /\ up[c] /\ ~Closing(c) /\ ~MonitorHeld
        /\ jobs' = jobs \ {j}
        /\ \/ /\ handle[c].stamp = 0
              /\ UNCHANGED <<handle, replies, entry, lastWriter, fresh>>
           \/ /\ handle[c].stamp > 0 /\ ~flush
              /\ Answer(TRUE)
              /\ fresh' = IF handle'[c].block = "none" THEN fresh \ {c} ELSE fresh
              /\ UNCHANGED <<entry, lastWriter>>
           \/ /\ flush /\ Known(c)
              /\ Answer(TRUE)
              /\ DeleteLastWriter(c)
              /\ fresh' = Copied(c, Server) \ 
                             (IF handle'[c].block = "none" THEN {c} ELSE {})
           \/ /\ flush /\ (DiskFull \/ ~Known(c))
              /\ Answer(FALSE)
              /\ UNCHANGED <<entry, lastWriter, fresh>>
        /\ trouble' = IF flush /\ handle'[c].block = "dirty" THEN trouble \cup {c}
                      ELSE trouble
        /\ UNCHANGED <<version, use, msgs, openTimeStamp, action, cmd, late,
                       procVars, up, misled, discarded>>

\* ProcessConsistReply: matched by client alone; the command recorded in the
\* message list says what the client has done.
ProcessConsistReply(r) ==
    LET c == r.client
    IN  /\ r \in replies /\ ~MonitorHeld
        /\ replies' = replies \ {r}
        /\ msgs' = [msgs EXCEPT ![c] = {}]
        /\ CASE msgs[c] = {} ->
                  UNCHANGED <<entry, lastWriter, action>>
             [] msgs[c] # {} /\ ~r.ok ->
                  /\ action' = [action EXCEPT !.error = TRUE]
                  /\ UNCHANGED <<entry, lastWriter>>
             [] OTHER ->
                  /\ lastWriter' = IF "writeBack" \in msgs[c] /\ lastWriter = c
                                   THEN None ELSE lastWriter
                  /\ entry' = [entry EXCEPT ![c] =
                       IF @.ref = 0 /\ lastWriter' # c THEN NoEntry
                       ELSE [@ EXCEPT !.cached = entry[c].cached
                                                 /\ "invalidate" \notin msgs[c]]]
                  /\ UNCHANGED action
        /\ UNCHANGED <<version, use, openTimeStamp, cmd, late, procVars, up, handle,
                       jobs, history>>

----------------------------------------------------------------------------
(* Crashes and garbage collection                                          *)

\* A workstation dies with its cache; what it has sent still arrives.
Crash(c) ==
    /\ c \in Crashes /\ up[c]
    /\ up' = [up EXCEPT ![c] = FALSE]
    /\ handle' = [handle EXCEPT ![c] = NoHandle]
    /\ jobs' = {j \in jobs : j.client # c}
    /\ Finish({p \in Procs : /\ Host[p] = c
                              /\ pc[p] \in {"idle", "replied", "install", "open"}},
              "dead")
    /\ fresh' = fresh \ {c} /\ trouble' = trouble \cup {c}
    /\ UNCHANGED <<serverVars, opens, replies, misled, discarded>>

\* Fsio_FileClientKill, when the server learns that the host is down: it does
\* not take the consistency monitor and leaves lastWriter and msgList alone.
\* The host's streams go too, so that a close still on its way finds none.
ClientKill(c) ==
    /\ ~up[c] /\ entry[c].listed /\ entry[c].ref + entry[c].write > 0
    /\ entry' = IOClientKill(c)
    /\ DropUses(c)
    /\ Finish({p \in Procs : Host[p] = c /\ pc[p] = "closing"}, "dead")
    /\ UNCHANGED <<version, lastWriter, msgs, openTimeStamp, action, cmd, late,
                   opens, clientVars, history>>

\* Fsio_FileScavenge through Fsconsist_NumClients: clients without references
\* and without dirty blocks are forgotten.
NumClients ==
    LET idle == {c \in Clients : /\ entry[c].listed /\ entry[c].ref = 0
                                 /\ lastWriter # c}
    IN  /\ ~InProgress /\ use.ref = 0 /\ idle # {}
        /\ entry' = [c \in Clients |-> IF c \in idle THEN NoEntry ELSE entry[c]]
        /\ UNCHANGED <<version, use, lastWriter, msgs, openTimeStamp, action, cmd,
                       late, procVars, clientVars, history>>

----------------------------------------------------------------------------
ProcStep(p) ==
    \/ \E m \in Modes : OpenSend(p, m)
    \/ NameOpen(p) \/ StartConsistency(p) \/ AbortOpen(p) \/ OpenReply(p)
    \/ OpenDone(p) \/ IoOpen(p)
    \/ ReadFill(p) \/ Write(p)
    \/ CloseSend(p) \/ Close(p)

ActionStep == \/ VisitClient \/ CommandTimeout \/ CommandDone \/ UpdateList
              \/ EndConsistency \/ ConsistTimeoutIntr \/ ConsistTimeout

ClientStep(c) == RpcConsist(c) \/ CleanBlocks(c) \/ FileScavenge(c) \/ Crash(c)
                 \/ ClientKill(c)

Next ==
    \/ \E p \in Procs : ProcStep(p)
    \/ ActionStep
    \/ \E c \in Clients : ClientStep(c)
    \/ \E j \in jobs : ProcessConsist(j)
    \/ \E r \in replies : ProcessConsistReply(r)
    \/ NumClients

Spec == Init /\ [][Next]_vars

\* Server processes, the callback and timer daemons run whatever is queued for
\* them; nothing makes users open, read, write or close, a cache cleaner or a
\* scavenger run, or a workstation crash.
Fairness ==
    /\ \A p \in Procs :
        /\ WF_vars(NameOpen(p)) /\ WF_vars(StartConsistency(p))
        /\ WF_vars(AbortOpen(p)) /\ WF_vars(OpenReply(p))
        /\ WF_vars(OpenDone(p)) /\ WF_vars(IoOpen(p)) /\ WF_vars(Close(p))
    /\ WF_vars(ActionStep)
    /\ \A c \in Clients : WF_vars(RpcConsist(c))
    /\ WF_vars(\E j \in jobs : ProcessConsist(j))
    /\ WF_vars(\E r \in replies : ProcessConsistReply(r))

FairSpec == Spec /\ Fairness

----------------------------------------------------------------------------
Entry == [listed : BOOLEAN, ref : 0 .. MaxOpens, write : 0 .. MaxOpens,
          cached : BOOLEAN, stamp : 0 .. MaxOpens]

TypeOK ==
    /\ version \in 1 .. MaxOpens + 1
    /\ use \in [ref : 0 .. MaxOpens, write : 0 .. MaxOpens]
    /\ entry \in [Clients -> Entry]
    /\ lastWriter \in Clients \cup {None}
    /\ msgs \in [Clients -> SUBSET Commands]
    /\ openTimeStamp \in 0 .. MaxOpens
    /\ action.by \in Procs \cup {None}
    /\ action.phase \in {"none", "visit", "command", "wait"}
    /\ action.todo \subseteq Clients /\ action.next \in Clients \cup {None}
    /\ cmd.answer \in {"none", "ok", "stale", "timeout"}
    /\ late \in 0 .. MaxOpens
    /\ pc \in [Procs -> {"idle", "sent", "named", "consist", "granted", "replied",
                        "install", "open", "closing", "aborting", "dead"}]
    /\ mode \in [Procs -> Modes \cup {"none"}]
    /\ grant \in [Procs -> [cacheable : BOOLEAN, stamp : 0 .. MaxOpens,
                           version : 0 .. MaxOpens + 1]]
    /\ up \in [Clients -> BOOLEAN]
    /\ handle \in [Clients -> [stamp : 0 .. MaxOpens, version : 0 .. MaxOpens + 1,
                              cacheable : BOOLEAN, block : {"none", "clean", "dirty"}]]
    /\ jobs \subseteq [client : Clients, op : SUBSET Commands, stamp : 0 .. MaxOpens]
    /\ replies \subseteq [client : Clients, ok : BOOLEAN, stamp : 0 .. MaxOpens]
    /\ fresh \subseteq Clients \cup {Server}
    /\ trouble \subseteq Clients /\ misled \subseteq Clients
    /\ discarded \subseteq Clients

\* A file written on one workstation while it is open on another is cached on
\* neither ("Files that are being concurrently write-shared are not cached",
\* StartConsistency), through every overlap of opens, replies under way,
\* commands, their execution in the background, and closes.  Exempt are
\* workstations the server has killed and those misled by a version number.
NoSharedCaching ==
    \A p, q \in Procs :
        /\ IsOpen(p) /\ IsOpen(q) /\ mode[p] = "write" /\ Host[p] # Host[q]
        /\ {Host[p], Host[q]} \cap (trouble \cup misled) = {}
        => ~handle[Host[p]].cacheable /\ ~handle[Host[q]].cacheable

\* As long as a workstation holds a dirty block the server knows whom to ask
\* for it: it is the last writer or has been told to write back.  Closes,
\* write-backs and replies of earlier commands all reset lastWriter.
DirtyIsRemembered ==
    \A c \in Clients \ trouble :
        handle[c].block = "dirty" =>
            lastWriter = c \/ "writeBack" \in msgs[c]

DataKept == \/ Server \in fresh
            \/ \E c \in fresh \ {Server} : handle[c].block = "dirty"

\* What was written last is at the server or in a dirty block, never dropped by
\* an invalidation, unless a failure, a version misread by the last writer
\* (Fscache_UpdateFile) or case 5 of StartConsistency threw it away.
NoLostUpdate == trouble \cup misled \cup discarded = {} => DataKept

\* The same without the exemption of case 5: a client that stops caching gives
\* its dirty blocks back first, so that the opener "will get good data".
DirtyDataSurvives == trouble \cup misled = {} => DataKept

\* Every open reads what was written last, whoever wrote it and wherever it
\* is cached: sequential sharing through version numbers and write-backs,
\* concurrent sharing through the server.
ReadsLatest ==
    \A p \in Procs :
        IsOpen(p) /\ trouble \cup misled \cup discarded = {} =>
            IF handle[Host[p]].cacheable /\ handle[Host[p]].block # "none"
            THEN Host[p] \in fresh ELSE Server \in fresh

\* Opens counted in handlePtr->use and not yet in the client list.
Entering == {p \in Procs : pc[p] = "named" \/
                           (pc[p] = "consist" /\ action.phase # "wait")}

\* The summary counts of the handle are the sums over the client list and the
\* opens on their way into it; a drift would make the file busy for ever or let
\* it be scavenged in use.  Kills by the server break it.
UseCountsMatch ==
    trouble = {} =>
        /\ use.ref = MapThenSumSet(LAMBDA c : entry[c].ref, Clients)
                     + Cardinality(Entering)
        /\ use.write = MapThenSumSet(LAMBDA c : entry[c].write, Clients)
                       + Cardinality({p \in Entering : mode[p] = "write"})

\* An open that has been sent returns, with the file or without it.
OpenReturns ==
    \A p \in Procs : pc[p] = "sent" ~> pc[p] \in {"open", "idle", "dead"}

\* A consistency action keeps sending its command to a workstation that has
\* discarded its handle and answers that an open of its own is in progress;
\* that open waits for the action.
WaitCycle ==
    /\ action.phase = "command" /\ cmd.answer = "none"
    /\ up[cmd.client] /\ handle[cmd.client].stamp = 0
    /\ \E p \in Procs : Host[p] = cmd.client /\ pc[p] = "named"

\* Every open returns, however workstations crash, answer late or lose their
\* handle, except in that one wait cycle.
OpenReturnsOrCycle == []<>~WaitCycle => OpenReturns
=============================================================================
