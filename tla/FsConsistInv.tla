---------------------------- MODULE FsConsistInv ----------------------------
(***************************************************************************)
(* The inductive invariants of cache consistency, in layers that each rest *)
(* on the one before, and what the proofs say of single steps:             *)
(*   TypedInv    types, structure and bounds;                              *)
(*   CountInv    the elements of the client list count the opens;          *)
(*   SharingInv  commands settle what elements say, and workstations       *)
(*               believe what the server's list says;                      *)
(*   OwnedInv    the owner of dirty blocks is known;                       *)
(*   DataInv     current copies hold what was written last.                *)
(***************************************************************************)
EXTENDS FsConsist

----------------------------------------------------------------------------
(* Types, structure and bounds: TInv.                                      *)

\* Sums over the client list.
Sum(f) == MapThenSumSet(LAMBDA c : f[c], Clients)

(* What the summary counts have to add up to.                              *)
Refs   == [c \in Clients |-> entry[c].ref]

Writes == [c \in Clients |-> entry[c].write]

SumRefs   == Sum(Refs)

SumWrites == Sum(Writes)

\* An element of the client list.
NatEntry == [listed : BOOLEAN, ref : Nat, write : Nat, cached : BOOLEAN, stamp : Nat]

Phases == {"none", "visit", "command", "wait"}

States == {"idle", "sent", "named", "consist", "granted", "replied", "install",
           "open", "closing", "aborting", "dead"}

EntryShape == entry \in [Clients -> NatEntry]

ServerShape ==
    /\ version \in Nat /\ version >= 1
    /\ use \in [ref : Nat, write : Nat]
    /\ EntryShape
    /\ lastWriter \in Clients \cup {None}
    /\ msgs \in [Clients -> SUBSET Commands]
    /\ openTimeStamp \in Nat
    /\ action \in [by : Procs \cup {None}, phase : Phases, cacheable : BOOLEAN,
                   todo : SUBSET Clients, next : Clients \cup {None},
                   error : BOOLEAN, armed : BOOLEAN]
    /\ cmd \in [client : Clients \cup {None}, op : SUBSET Commands, stamp : Nat,
                version : Nat, answer : {"none", "ok", "stale", "timeout"}]
    /\ late \in Nat

ProcShape ==
    /\ pc \in [Procs -> States]
    /\ mode \in [Procs -> Modes \cup {"none"}]
    /\ grant \in [Procs -> [cacheable : BOOLEAN, stamp : Nat, version : Nat]]
    /\ opens \in Nat /\ opens <= MaxOpens

ClientShape ==
    /\ up \in [Clients -> BOOLEAN]
    /\ handle \in [Clients -> [stamp : Nat, version : Nat, cacheable : BOOLEAN,
                               block : {"none", "clean", "dirty"}]]
    /\ jobs \subseteq [client : Clients, op : SUBSET Commands, stamp : Nat]
    /\ replies \subseteq [client : Clients, ok : BOOLEAN, stamp : Nat]

HistoryShape ==
    /\ fresh \subseteq Clients \cup {Server}
    /\ trouble \subseteq Clients /\ misled \subseteq Clients
    /\ discarded \subseteq Clients

Shape == ServerShape /\ ProcShape /\ ClientShape /\ HistoryShape

(* The action in progress, its open and its command agree.                 *)
ActionTied ==
    /\ \A p \in Procs : pc[p] = "consist" <=> action.by = p
    /\ action.by = None <=> action.phase = "none"
    /\ action.phase = "none" <=> action = NoAction
    /\ action.next \in action.todo \cup {None}
    /\ action.next = None => action.todo = {}
    /\ action.by # None => Host[action.by] \notin action.todo
    /\ action.armed => action.phase = "wait"

\* The command under way is for a client that is neither the opener nor still
\* to be visited.
CmdTied ==
    /\ cmd # NoCmd => action.phase = "command"
    /\ action.phase = "command" =>
         /\ cmd.client \in Clients /\ cmd.op # {}
         /\ cmd.client # Host[action.by] /\ cmd.client \notin action.todo

\* A client that is not on the list has no uses.
Unlisted == \A c \in Clients : ~entry[c].listed => entry[c] = NoEntry

\* An open has a mode until its process is idle again or dead.
ModeTied == \A p \in Procs : mode[p] = "none" <=> pc[p] \in {"idle", "dead"}

Structure == ActionTied /\ CmdTied /\ Unlisted /\ ModeTied

\* Opens the server has not seen yet.
Sent == {p \in Procs : pc[p] = "sent"}

\* Opens for writing between NameOpen and UpdateList.
WEntering == {p \in Entering : mode[p] = "write"}

\* Counts, versions and time stamps are bounded by the opens: each takes them
\* up once.
Opened ==
    /\ use.ref + Cardinality(Sent) <= opens
    /\ use.write + Cardinality(Sent) <= opens
    /\ version + Cardinality(Sent) <= opens + 1
    /\ openTimeStamp + Cardinality(Sent) + Cardinality(Entering) <= opens

\* Each timer belongs to an action that has stamped its opener.
Timed == late + One(action.armed) <= openTimeStamp

\* Nothing carries a time stamp or a version of the future.
Stamped ==
    /\ \A c \in Clients : entry[c].stamp <= openTimeStamp /\ handle[c].stamp <= openTimeStamp
                          /\ handle[c].version <= version
    /\ \A p \in Procs : grant[p].stamp <= openTimeStamp /\ grant[p].version <= version
    /\ cmd.stamp <= openTimeStamp /\ cmd.version <= version
    /\ \A m \in jobs \cup replies : m.stamp <= openTimeStamp

\* No element counts what the summary counts do not.
Summed ==
    /\ SumRefs + Cardinality(Entering) <= use.ref
    /\ SumWrites + Cardinality(WEntering) <= use.write

Bounds == Opened /\ Timed /\ Stamped /\ Summed

\* Types, structure and bounds.
TInv == Shape /\ Structure /\ Bounds

SlowOnes == {c \in Clients : msgs[c] # {}}

HandleShape == [stamp : Nat, version : Nat, cacheable : BOOLEAN, block : {"none", "clean", "dirty"}]

Flushes(j) == "writeBack" \in j.op /\ handle[j.client].block = "dirty"

(* Without an action in progress no command is outstanding.                *)
MsgsTied == action.phase = "none" => \A c \in Clients : msgs[c] = {}

CrashedProcs(c) == {p \in Procs : /\ Host[p] = c
                                  /\ pc[p] \in {"idle", "replied", "install", "open"}}

KilledProcs(c) == {p \in Procs : Host[p] = c /\ pc[p] = "closing"}

TypedInv == TInv /\ MsgsTied

----------------------------------------------------------------------------
(* Uses: CInv.                                                             *)

Waits(p) == pc[p] = "consist" /\ action.phase = "wait"

\* An open that its element counts.
Holds(p) == Waits(p) \/ pc[p] \in {"granted", "aborting", "replied", "install", "open", "closing"}

Holders(c) == {p \in Procs : Host[p] = c /\ Holds(p)}

WriteHolders(c) == {p \in Holders(c) : mode[p] = "write"}

\* An element counts the opens that hold a use, as long as its client is not
\* killed.
Counted == \A c \in Clients \ trouble : /\ entry[c].ref = Cardinality(Holders(c))
                                       /\ entry[c].write = Cardinality(WriteHolders(c))

\* A crashed workstation is in trouble.
CrashNoted == \A c \in Clients : ~up[c] => c \in trouble

\* Without kills the summary counts are exact.
AddedUp == trouble = {} => /\ SumRefs + Cardinality(Entering) = use.ref
                           /\ SumWrites + Cardinality(WEntering) = use.write

CInv == Counted /\ CrashNoted /\ AddedUp

CountInv == TInv /\ MsgsTied /\ CInv

----------------------------------------------------------------------------
(* Commands and their answers: Pipe.                                       *)

(* The hypothesis of SharingInv and of what rests on it: one process of    *)
(* each workstation uses the file.  The code does not see to it.           *)
OneEach == \A p, q \in Procs : Host[p] = Host[q] => p = q

\* An element without uses.
Unused(c) == entry[c].ref = 0 /\ entry[c].write = 0

(* The life of a command: recorded by the walk, sent, executed, answered.  *)
Unasked == \A c \in Clients :
    (action.by # None /\ c = Host[action.by]) \/ c \in action.todo => msgs[c] = {}

Asked == \A c \in Clients \ trouble :
    action.phase = "command" /\ cmd.answer = "none" /\ cmd.client = c =>
        /\ msgs[c] = cmd.op
        /\ \A m \in jobs \cup replies : m.client # c
        /\ Holders(c) # {} => cmd.stamp = entry[c].stamp

Queued == \A j \in jobs : j.client \notin trouble =>
    /\ j.op = msgs[j.client] /\ j.op # {}
    /\ \A k \in jobs : k.client = j.client => k = j
    /\ \A r \in replies : r.client # j.client

Replied == \A r \in replies : r.client \notin trouble =>
    /\ msgs[r.client] # {} /\ r.ok
    /\ \A s \in replies : s.client = r.client => s = r

Halves == \A c \in Clients \ trouble :
    msgs[c] \in {{"writeBack"}, {"invalidate"}} => entry[c].write = 0

Pipe == Unasked /\ Asked /\ Queued /\ Replied /\ Halves

----------------------------------------------------------------------------
(* Sharing.                                                                *)

Conflict(x, y) == x # y /\ \/ entry[x].write > 0 /\ ~Unused(y)
                           \/ ~Unused(x) /\ entry[y].write > 0

\* An element used against a writer does not cache, or has been told not to.
Separated == \A x \in Clients \ trouble, y \in Clients :
    Conflict(x, y) => \/ ~entry[x].cached
                      \/ "invalidate" \in msgs[x] /\ action.phase = "wait" /\ y = Host[action.by]

\* The walk over the client list is under way.
Walking == action.phase \in {"visit", "command"}

\* An opener that is to cache was allowed to when the walk began, and still is.
Alone == Walking /\ action.cacheable => Cacheable(action.by)

\* Clients the walk has passed have been told to stop caching.
Told == action.phase # "none" /\ ~action.cacheable =>
    \A y \in Clients \ (action.todo \cup {Host[action.by]} \cup trouble) :
        ~Unused(y) /\ entry[y].cached => "invalidate" \in msgs[y]

\* A reader finds caching clients only among the writers.
ToTell == Walking /\ ~action.cacheable /\ mode[action.by] # "write" =>
    \A y \in action.todo \ trouble : entry[y].cached /\ ~Unused(y) => entry[y].write > 0

Sharing == Separated /\ Alone /\ Told /\ ToTell

(* An open keeps its mode until its process is idle again or dead.         *)
Through == {"idle", "dead"}

----------------------------------------------------------------------------
(* Version numbers: Versions.                                              *)

WAhead == {q \in Procs : mode[q] = "write" /\ Ahead(q)}

Settled == version - Cardinality(WAhead)

\* No workstation has, or is sent, a version that is still ahead of the
\* monitor.
Behind == \A c \in Clients \ misled :
    handle[c].version <= Settled /\ \A p \in Procs : Host[p] = c => grant[p].version <= Settled

\* A client told only to invalidate is told by a writer, with a version to
\* come.
Asking == action.phase = "command" /\ cmd.client \notin trouble /\ cmd.op = {"invalidate"} =>
    mode[action.by] = "write" /\ cmd.version > Settled

Versions == Behind /\ Asking

WritesAhead(q) == mode[q] = "write" /\ Ahead(q)

----------------------------------------------------------------------------
(* What workstations believe about caching: Believed.                      *)

\* An open between its update of the list and its install.
Pre(p) == Waits(p) \/ pc[p] \in {"granted", "replied", "install"}

\* No command and no answer of the workstation is under way.
Quiet(c) == \A m \in jobs \cup replies : m.client # c

\* What an open is granted agrees with its element, and no older command can
\* reach it.
Granting == \A p \in Procs : Pre(p) /\ Host[p] \notin trouble =>
    /\ grant[p].stamp = entry[Host[p]].stamp /\ handle[Host[p]].stamp < grant[p].stamp
    /\ mode[p] = "write" \/ Host[p] \notin misled => Quiet(Host[p])
    /\ Host[p] \notin misled => grant[p].cacheable = entry[Host[p]].cached

\* An open file is cached only where the list says so.
Using == \A p \in Procs : pc[p] \in {"open", "closing"} /\ Host[p] \notin trouble \cup misled =>
    (handle[Host[p]].cacheable => entry[Host[p]].cached)

\* A workstation that has answered an invalidation no longer caches.
Stopped == \A r \in replies : r.client \notin trouble \cup misled /\ "invalidate" \in msgs[r.client] =>
    ~handle[r.client].cacheable

Believed == Granting /\ Using /\ Stopped

\* A process that has the file open.
Live(p) == pc[p] \in {"open", "closing"}

SharingInv == CountInv /\ Pipe /\ Sharing /\ Versions /\ Believed

----------------------------------------------------------------------------
(* The owner of dirty blocks: Owned.                                       *)

Dirty(c) == handle[c].block = "dirty"

\* A process that may write into the cache of its workstation, now or when its
\* open arrives.
MayWrite(p) == /\ mode[p] = "write"
               /\ \/ Pre(p) /\ grant[p].cacheable
                  \/ IsOpen(p) /\ handle[Host[p]].cacheable

\* A workstation that owns dirty blocks, or may come to.
Dirtyable(c) == Dirty(c) \/ \E p \in Procs : Host[p] = c /\ MayWrite(p)

\* An owner is the last writer, or has been told to write back.
Remembered == \A d \in Clients \ trouble : Dirtyable(d) =>
    \/ lastWriter = d /\ entry[d].cached
    \/ "writeBack" \in msgs[d]

\* An owner shares the file with nobody but the opener that has it told.
Exclusive == \A d \in Clients \ trouble : Dirtyable(d) =>
    \A c \in Clients \ {d} :
        Unused(c) \/ (msgs[d] # {} /\ action.phase = "wait" /\ c = Host[action.by])

\* Owners the walk has passed have been told; to write back, when the opener
\* may cache.
Recalled == Walking =>
    \A d \in Clients \ (trouble \cup action.todo \cup {Host[action.by]}) : Dirtyable(d) =>
        msgs[d] # {} /\ (action.cacheable => "writeBack" \in msgs[d])

\* An opener with dirty blocks of its own may cache.
OwnBlocks == Walking /\ Host[action.by] \notin trouble /\ Dirty(Host[action.by]) => action.cacheable

\* An owner still to be visited has the file open.
ToRecall == Walking /\ ~action.cacheable =>
    \A d \in action.todo \ trouble : Dirtyable(d) => action.phase = "visit" /\ ~Unused(d)

\* Who has answered owns nothing any more.
GivenBack == \A r \in replies : r.client \notin trouble => ~Dirtyable(r.client)

\* A close that says no dirty block is left is right.
CleanClose == \A p \in Procs : pc[p] = "closing" /\ Host[p] \notin trouble /\ grant[p].cacheable =>
    ~Dirty(Host[p])

Owned == /\ Remembered /\ Exclusive /\ Recalled /\ OwnBlocks /\ ToRecall /\ GivenBack /\ CleanClose

ClosesClean(q) == pc[q] = "closing" /\ grant[q].cacheable

OwnedInv == SharingInv /\ Owned

----------------------------------------------------------------------------
(* The copies of the block: Data.                                          *)

Safe == trouble = {} /\ misled = {} /\ discarded = {}

(* An open for writing that has changed the version and is on its way from *)
(* the monitor to its workstation; the version it will install is one      *)
(* ahead of the handle's.                                                  *)
Arrives(p) == mode[p] = "write" /\ pc[p] \in {"granted", "replied", "install"}

Arriving(c) == \E p \in Procs : Host[p] = c /\ Arrives(p)

\* A writer through the monitor.
Writer(q) == mode[q] = "write" /\ pc[q] \in {"granted", "replied", "install", "open"}

\* The version of a copy, counting the open for writing that is on its way.
Lag(c) == handle[c].version + One(Arriving(c))

\* A copy that will still be valid after the open on its way.
Current(c) == /\ handle[c].block # "none" /\ Lag(c) >= Settled
              /\ \A p \in Procs : Host[p] = c /\ Arrives(p) => grant[p].cacheable

NoError == ~action.error

\* Dirty blocks hold what was written last.
DirtyFresh == \A c \in Clients : Dirty(c) => c \in fresh

\* Only a cacheable file has blocks in the cache.
OnlyCached == \A c \in Clients : ~handle[c].cacheable => handle[c].block = "none"

\* Nobody with dirty blocks is told only to invalidate.
ToldClean == \A c \in Clients : msgs[c] = {"invalidate"} => ~Dirty(c)

\* An open on its way to dirty blocks lets them stay.
DirtyGranted == \A p \in Procs : Pre(p) /\ Dirty(Host[p]) => grant[p].cacheable

\* Dirty blocks have the settled version.
DirtyCurrent == \A c \in Clients : Dirty(c) => Lag(c) = Settled

\* So has an open file that is cached.
OpenCurrent == \A p \in Procs : Live(p) /\ handle[Host[p]].cacheable => handle[Host[p]].version = Settled

\* So has a reply that allows caching.
GrantCurrent == \A p \in Procs : pc[p] \in {"replied", "install"} /\ grant[p].cacheable =>
    grant[p].version = Settled

\* Current copies hold what was written last.
CurrentFresh == \A c \in Clients : Current(c) => c \in fresh

\* While there is a writer nobody else has a current copy.
WriterAlone == \A q \in Procs, c \in Clients : Writer(q) /\ c # Host[q] => ~Current(c)

Data == /\ NoError /\ DirtyFresh /\ DataKept /\ OnlyCached /\ ToldClean /\ DirtyGranted
        /\ DirtyCurrent /\ OpenCurrent /\ GrantCurrent /\ CurrentFresh /\ WriterAlone

DataInv == OwnedInv /\ (Safe => Data)

----------------------------------------------------------------------------
(* What steps do, and what kinds of steps leave alone.                     *)

VisitFacts ==
    /\ action.phase = "visit" /\ action.next \in Clients /\ action.next \in action.todo
    /\ action'.by = action.by /\ action'.cacheable = action.cacheable
    /\ action'.error = action.error /\ action'.armed = action.armed
    /\ action'.todo = {d \in action.todo \ {action.next} : entry[d].listed}
    /\ action'.next \in action'.todo \cup {None} /\ (action'.next = None => action'.todo = {})
    /\ CommandFor(action.next) = {} => action'.phase = "visit" /\ msgs' = msgs /\ cmd' = cmd
    /\ CommandFor(action.next) # {} =>
         /\ action'.phase = "command"
         /\ msgs' = [msgs EXCEPT ![action.next] = CommandFor(action.next)]
         /\ cmd' = [client |-> action.next, op |-> CommandFor(action.next),
                    stamp |-> entry[action.next].stamp,
                    version |-> version, answer |-> "none"]
    /\ discarded' = IF lastWriter = action.next /\ entry[action.next].write = 0 /\ ~action.cacheable
                    THEN discarded \cup {action.next} ELSE discarded
    /\ UNCHANGED <<version, use, entry, lastWriter, openTimeStamp, late,
            procVars, clientVars, fresh, trouble, misled>>
    /\ action' \in [by : Procs \cup {None}, phase : Phases, cacheable : BOOLEAN,
            todo : SUBSET Clients, next : Clients \cup {None},
            error : BOOLEAN, armed : BOOLEAN]

DoneFacts ==
    /\ action.phase = "command" /\ cmd.answer # "none" /\ cmd.client \in Clients
    /\ action' = [action EXCEPT !.phase = "visit"]
    /\ action'.by = action.by /\ action'.cacheable = action.cacheable
    /\ action'.error = action.error /\ action'.armed = action.armed
    /\ action'.todo = action.todo /\ action'.next = action.next /\ action'.phase = "visit"
    /\ cmd' = NoCmd
    /\ cmd.answer = "ok" => UNCHANGED <<entry, lastWriter, msgs, trouble, misled, discarded>>
    /\ cmd.answer # "ok" =>
          /\ entry' = IOClientKill(cmd.client)
          /\ lastWriter' = IF lastWriter = cmd.client THEN None ELSE lastWriter
          /\ msgs' = [msgs EXCEPT ![cmd.client] = {}]
          /\ trouble' = trouble \cup {cmd.client} /\ UNCHANGED <<misled, discarded>>
    /\ UNCHANGED <<version, use, openTimeStamp, late, procVars, clientVars, fresh>>
    /\ action'.next # cmd.client

UpdateFacts ==
    /\ action.by \in Procs /\ Host[action.by] \in Clients /\ pc[action.by] = "consist"
    /\ action.phase = "visit" /\ action.next = None /\ action.todo = {}
    /\ openTimeStamp' = openTimeStamp + 1
    /\ \A d \in Clients \ {Host[action.by]} : entry'[d] = entry[d]
    /\ entry'[Host[action.by]].listed = TRUE /\ entry'[Host[action.by]].ref = entry[Host[action.by]].ref + 1
    /\ entry'[Host[action.by]].write = entry[Host[action.by]].write + One(mode[action.by] = "write")
    /\ entry'[Host[action.by]].cached = action.cacheable /\ entry'[Host[action.by]].stamp = openTimeStamp + 1
    /\ EntryShape' /\ Unlisted'
    /\ lastWriter' = IF action.cacheable /\ mode[action.by] = "write" THEN Host[action.by] ELSE lastWriter
    /\ grant'[action.by] = [cacheable |-> action.cacheable, stamp |-> openTimeStamp + 1, version |-> 0]
    /\ \A q \in Procs \ {action.by} : grant'[q] = grant[q]
    /\ grant' \in [Procs -> [cacheable : BOOLEAN, stamp : Nat, version : Nat]]
    /\ action' = [action EXCEPT !.phase = "wait", !.armed = TRUE]
    /\ action'.by = action.by /\ action'.cacheable = action.cacheable
    /\ action'.error = action.error /\ action'.armed = TRUE /\ action'.phase = "wait"
    /\ action'.todo = {} /\ action'.next = None
    /\ UNCHANGED <<version, use, msgs, cmd, late, pc, mode, opens, clientVars, history>>

EndFacts ==
    /\ action.phase = "wait" /\ action.by \in Procs /\ pc[action.by] = "consist"
    /\ \A c \in Clients : msgs[c] = {}
    /\ action' = NoAction
    /\ pc' \in [Procs -> States]
    /\ pc'[action.by] = IF action.error THEN "aborting" ELSE "granted"
    /\ \A q \in Procs \ {action.by} : pc'[q] = pc[q] /\ pc[q] # "consist"
    /\ UNCHANGED <<version, use, entry, lastWriter, msgs, openTimeStamp, cmd,
                   late, mode, grant, opens, clientVars, history>>

(* Giving a client's uses back keeps the sums below the summary counts.    *)
DroppedFacts(c) ==
    /\ EntryShape' /\ Unlisted'
    /\ \A d \in Clients \ {c} : entry'[d] = entry[d]
    /\ entry'[c].ref = 0 /\ entry'[c].write = 0
    /\ entry'[c].stamp <= entry[c].stamp
    /\ use' \in [ref : Nat, write : Nat]
    /\ use'.ref <= use.ref /\ use'.write <= use.write
    /\ use.ref = use'.ref + entry[c].ref /\ use.write = use'.write + entry[c].write
    /\ SumRefs = SumRefs' + entry[c].ref /\ SumWrites = SumWrites' + entry[c].write

AbortFacts(p) ==
    /\ pc[p] = "aborting" /\ ~MonitorHeld
    /\ DropUses(Host[p]) /\ entry' = IOClientKill(Host[p])
    /\ lastWriter' = IF lastWriter = Host[p] THEN None ELSE lastWriter
    /\ msgs' = [msgs EXCEPT ![Host[p]] = {}]
    /\ trouble' = trouble \cup {Host[p]} /\ UNCHANGED <<misled, discarded>>
    /\ Finish({p}, IdleOrDead(p))
    /\ UNCHANGED <<version, openTimeStamp, action, cmd, late, opens, clientVars, fresh>>

TimeoutFacts ==
    /\ late > 0 /\ action.phase # "visit" /\ late' = late - 1
    /\ EntryShape' /\ Unlisted'
    /\ \A c \in SlowOnes : entry'[c].ref = 0 /\ entry'[c].write = 0 /\ entry'[c].stamp <= entry[c].stamp
                           /\ (entry'[c].cached => entry[c].cached) /\ (action.next # c => entry'[c] = NoEntry)
    /\ \A c \in Clients \ SlowOnes : entry'[c] = entry[c]
    /\ lastWriter' = IF lastWriter \in SlowOnes THEN None ELSE lastWriter
    /\ msgs' = [c \in Clients |-> {}]
    /\ trouble' = trouble \cup SlowOnes
    /\ UNCHANGED <<version, use, openTimeStamp, action, cmd, procVars,
                       clientVars, fresh, misled, discarded>>

InstallFacts(p) ==
    LET c == Host[p]
        g == grant[p]
        h == handle[c]
    IN
    /\ pc[p] = "install" /\ ~Closing(c) /\ c \in Clients
    /\ handle' \in [Clients -> HandleShape]
    /\ \A d \in Clients \ {c} : handle'[d] = handle[d]
    /\ handle'[c].stamp = g.stamp /\ handle'[c].cacheable = g.cacheable
    /\ handle'[c].version = (IF g.version > h.version THEN g.version ELSE h.version)
    /\ handle'[c].block = IF ~g.cacheable \/ (IF mode[p] = "write" THEN h.version + 1 < g.version
                                              ELSE h.version < g.version)
                          THEN "none" ELSE h.block
    /\ fresh' = IF handle'[c].block = "none" THEN fresh \ {c} ELSE fresh
    /\ pc' \in [Procs -> States] /\ pc'[p] = "open" /\ grant'[p] = NoGrant
    /\ grant' \in [Procs -> [cacheable : BOOLEAN, stamp : Nat, version : Nat]]
    /\ \A q \in Procs \ {p} : pc'[q] = pc[q] /\ grant'[q] = grant[q]
    /\ UNCHANGED <<serverVars, mode, opens, up, jobs, replies, trouble, misled,
                    discarded>>

(* A change of one handle that keeps its stamp and version.                *)
FillFacts(p) ==
    /\ pc[p] = "open" /\ Host[p] \in Clients
    /\ handle[Host[p]].cacheable /\ handle[Host[p]].block = "none" /\ Known(Host[p])
    /\ handle' \in [Clients -> HandleShape]
    /\ handle'[Host[p]].block = "clean"
    /\ handle'[Host[p]].stamp = handle[Host[p]].stamp
    /\ handle'[Host[p]].version = handle[Host[p]].version
    /\ handle'[Host[p]].cacheable = handle[Host[p]].cacheable
    /\ \A d \in Clients \ {Host[p]} : handle'[d] = handle[d]
    /\ fresh' = (IF Server \in fresh THEN fresh \cup {Host[p]} ELSE fresh \ {Host[p]})
    /\ UNCHANGED <<serverVars, procVars, up, jobs, replies, trouble, misled, discarded>>

WriteFacts(p) ==
    /\ pc[p] = "open" /\ mode[p] = "write" /\ Host[p] \in Clients
    /\ handle' \in [Clients -> HandleShape]
    /\ handle'[Host[p]].stamp = handle[Host[p]].stamp
    /\ handle'[Host[p]].version = handle[Host[p]].version
    /\ handle'[Host[p]].cacheable = handle[Host[p]].cacheable
    /\ \A d \in Clients \ {Host[p]} : handle'[d] = handle[d]
    /\ handle[Host[p]].cacheable => handle'[Host[p]].block = "dirty" /\ fresh' = {Host[p]}
    /\ ~handle[Host[p]].cacheable => handle' = handle /\ fresh' = {Server}
    /\ UNCHANGED <<serverVars, procVars, up, jobs, replies, trouble, misled, discarded>>

CloseFacts(p) ==
    /\ pc[p] = "closing" /\ ~MonitorHeld /\ Host[p] \in Clients
    /\ Finish({p}, IdleOrDead(p))
    /\ EntryShape' /\ Unlisted' /\ use' \in [ref : Nat, write : Nat]
    /\ \A d \in Clients \ {Host[p]} : entry'[d] = entry[d]
    /\ entry[Host[p]].listed =>
         /\ entry[Host[p]].ref > 0 /\ (mode[p] = "write" => entry[Host[p]].write > 0)
         /\ \/ entry'[Host[p]] = NoEntry /\ entry[Host[p]].ref = 1
               /\ ~(lastWriter = Host[p] /\ entry[Host[p]].cached) /\ action.next # Host[p]
            \/ /\ entry'[Host[p]].ref = entry[Host[p]].ref - 1
               /\ entry'[Host[p]].write = entry[Host[p]].write - One(mode[p] = "write")
               /\ entry'[Host[p]].listed /\ entry'[Host[p]].cached = entry[Host[p]].cached
               /\ entry'[Host[p]].stamp = entry[Host[p]].stamp
         /\ lastWriter' = ResetLastWriter(grant[p].cacheable)
         /\ use'.ref = use.ref - 1 /\ use'.write = use.write - One(mode[p] = "write")
    /\ ~entry[Host[p]].listed => UNCHANGED <<entry, lastWriter, use>>
    /\ UNCHANGED <<version, msgs, openTimeStamp, action, cmd, late, opens, clientVars, history>>

ScavengeFacts(c) ==
    /\ handle[c].stamp > 0 /\ handle[c].block = "none"
    /\ \A p \in Procs : Host[p] = c => pc[p] \notin {"open", "closing"}
    /\ handle' \in [Clients -> HandleShape] /\ handle'[c] = NoHandle
    /\ \A d \in Clients \ {c} : handle'[d] = handle[d]
    /\ UNCHANGED <<serverVars, procVars, up, jobs, replies, history>>

AcceptedFacts(c) ==
    /\ cmd'.answer = "ok"
    /\ handle[c].stamp > 0
    /\ handle[c].stamp = cmd.stamp \/ (handle[c].version = cmd.version /\ "writeBack" \notin cmd.op)
    /\ jobs' = jobs \cup {[client |-> c, op |-> cmd.op, stamp |-> cmd.stamp]}

RpcConsistFacts(c) ==
    /\ action.phase = "command" /\ cmd.client = c /\ cmd.answer = "none" /\ up[c] /\ ~Closing(c)
    /\ cmd' \in [client : Clients \cup {None}, op : SUBSET Commands, stamp : Nat,
                version : Nat, answer : {"none", "ok", "stale", "timeout"}]
    /\ cmd'.client = c /\ cmd'.op = cmd.op /\ cmd'.stamp = cmd.stamp /\ cmd'.version = cmd.version
    /\ AcceptedFacts(c) \/ (/\ cmd'.answer = "stale" /\ jobs' = jobs /\ ~OpenInProgress(c)
                            /\ ~(/\ handle[c].stamp > 0
                                 /\ \/ handle[c].stamp = cmd.stamp
                                    \/ handle[c].version = cmd.version /\ "writeBack" \notin cmd.op))
    /\ UNCHANGED <<version, use, entry, lastWriter, msgs, openTimeStamp, action,
                   late, procVars, up, handle, replies, history>>

(* Forgetting the last writer removes its element, or changes nothing.     *)
DeleteFacts(c) ==
    \/ UNCHANGED <<entry, lastWriter>>
    \/ /\ action.phase = "none" /\ entry[c].ref = 0 /\ lastWriter = c
       /\ lastWriter' = None /\ entry'[c] = NoEntry
       /\ \A d \in Clients \ {c} : entry'[d] = entry[d]
       /\ EntryShape' /\ Unlisted'

CleanFacts(c) ==
    /\ handle[c].block = "dirty" /\ ~WriteBacksPrevented(c) /\ Known(c) /\ ~MonitorHeld
    /\ handle' \in [Clients -> HandleShape] /\ handle'[c].block = "clean"
    /\ handle'[c].stamp = handle[c].stamp /\ handle'[c].version = handle[c].version
    /\ handle'[c].cacheable = handle[c].cacheable
    /\ \A d \in Clients \ {c} : handle'[d] = handle[d]
    /\ fresh' = (IF c \in fresh THEN fresh \cup {Server} ELSE fresh \ {Server})
    /\ DeleteFacts(c)
    /\ UNCHANGED <<version, use, msgs, openTimeStamp, action, cmd, late, procVars,
                   up, jobs, replies, trouble, misled, discarded>>

(* A command takes effect on the handle (Fscache_Consist).                 *)
ConsistedFacts(c, op, ok) ==
    /\ handle' \in [Clients -> HandleShape]
    /\ handle'[c].stamp = handle[c].stamp /\ handle'[c].version = handle[c].version
    /\ handle'[c].cacheable <=> (handle[c].cacheable /\ "invalidate" \notin op)
    /\ handle'[c].block = (IF ~ok \/ handle[c].block = "none" THEN handle[c].block
                           ELSE IF "invalidate" \in op THEN "none" ELSE "clean")
    /\ \A d \in Clients \ {c} : handle'[d] = handle[d]

Answered(j, ok) ==
    /\ ConsistedFacts(j.client, j.op, ok)
    /\ replies' = replies \cup {[client |-> j.client, ok |-> ok, stamp |-> j.stamp]}

DroppedJob(j) == handle[j.client].stamp = 0 /\ UNCHANGED <<handle, replies, entry, lastWriter, fresh>>

PlainJob(j) ==
    /\ handle[j.client].stamp > 0 /\ ~Flushes(j) /\ Answered(j, TRUE)
    /\ fresh' = (IF handle'[j.client].block = "none" THEN fresh \ {j.client} ELSE fresh)
    /\ UNCHANGED <<entry, lastWriter>>

FlushedJob(j) ==
    /\ Flushes(j) /\ Known(j.client) /\ Answered(j, TRUE) /\ DeleteFacts(j.client)
    /\ fresh' = (IF j.client \in fresh THEN fresh \cup {Server} ELSE fresh \ {Server})
                \ (IF handle'[j.client].block = "none" THEN {j.client} ELSE {})

FailedJob(j) ==
    /\ Flushes(j) /\ Answered(j, FALSE) /\ UNCHANGED <<entry, lastWriter, fresh>>

JobFacts(j) ==
    /\ j.client \in Clients /\ j.op \subseteq Commands /\ j.stamp \in Nat /\ j.stamp <= openTimeStamp
    /\ up[j.client] /\ ~Closing(j.client) /\ ~MonitorHeld
    /\ jobs' = jobs \ {j}
    /\ DroppedJob(j) \/ PlainJob(j) \/ FlushedJob(j) \/ FailedJob(j)
    /\ trouble' = IF Flushes(j) /\ handle'[j.client].block = "dirty" THEN trouble \cup {j.client} ELSE trouble
    /\ UNCHANGED <<version, use, msgs, openTimeStamp, action, cmd, late, procVars, up, misled, discarded>>

Answering(j, ok) ==
    /\ handle' = [handle EXCEPT ![j.client] = Consist(@, j.op, ok)]
    /\ replies' = replies \cup {[client |-> j.client, ok |-> ok, stamp |-> j.stamp]}

PlainStep(j) ==
    /\ handle[j.client].stamp > 0 /\ ~Flushes(j) /\ Answering(j, TRUE)
    /\ fresh' = (IF handle'[j.client].block = "none" THEN fresh \ {j.client} ELSE fresh)
    /\ UNCHANGED <<entry, lastWriter>>

FlushedStep(j) ==
    /\ Flushes(j) /\ Known(j.client) /\ Answering(j, TRUE) /\ DeleteLastWriter(j.client)
    /\ fresh' = Copied(j.client, Server) \ (IF handle'[j.client].block = "none" THEN {j.client} ELSE {})

FailedStep(j) == Flushes(j) /\ Answering(j, FALSE) /\ UNCHANGED <<entry, lastWriter, fresh>>

(* A reply that settles a command: the element keeps its counts.           *)
SettledReply(c) ==
    /\ action' = action
    /\ lastWriter' = (IF "writeBack" \in msgs[c] /\ lastWriter = c THEN None ELSE lastWriter)
    /\ \A d \in Clients \ {c} : entry'[d] = entry[d]
    /\ \/ entry[c].ref = 0 /\ lastWriter' # c /\ entry'[c] = NoEntry
       \/ /\ ~(entry[c].ref = 0 /\ lastWriter' # c)
          /\ entry'[c].listed = entry[c].listed /\ entry'[c].ref = entry[c].ref
          /\ entry'[c].write = entry[c].write /\ entry'[c].stamp = entry[c].stamp
          /\ entry'[c].cached <=> (entry[c].cached /\ "invalidate" \notin msgs[c])

ReplyFacts(r) ==
    /\ r.client \in Clients /\ r.ok \in BOOLEAN /\ ~MonitorHeld /\ replies' = replies \ {r}
    /\ msgs' \in [Clients -> SUBSET Commands] /\ msgs'[r.client] = {}
    /\ \A d \in Clients \ {r.client} : msgs'[d] = msgs[d]
    /\ EntryShape' /\ Unlisted'
    /\ \/ msgs[r.client] = {} /\ UNCHANGED <<entry, lastWriter, action>>
       \/ msgs[r.client] # {} /\ ~r.ok /\ action' = [action EXCEPT !.error = TRUE] /\ UNCHANGED <<entry, lastWriter>>
       \/ msgs[r.client] # {} /\ r.ok /\ SettledReply(r.client)
    /\ UNCHANGED <<version, use, openTimeStamp, cmd, late, procVars, up, handle, jobs, history>>

CrashFacts(c) ==
    /\ c \in Crashes /\ up[c] /\ up' \in [Clients -> BOOLEAN] /\ ~up'[c]
    /\ \A d \in Clients \ {c} : up'[d] = up[d]
    /\ handle' \in [Clients -> HandleShape] /\ handle'[c] = NoHandle
    /\ \A d \in Clients \ {c} : handle'[d] = handle[d]
    /\ jobs' = {j \in jobs : j.client # c}
    /\ Finish(CrashedProcs(c), "dead")
    /\ fresh' = fresh \ {c} /\ trouble' = trouble \cup {c}
    /\ UNCHANGED <<serverVars, opens, replies, misled, discarded>>

ClientKillFacts(c) ==
    /\ ~up[c] /\ entry' = IOClientKill(c) /\ DropUses(c)
    /\ Finish(KilledProcs(c), "dead")
    /\ UNCHANGED <<version, lastWriter, msgs, openTimeStamp, action, cmd, late,
                   opens, clientVars, history>>

(* The scavenger forgets clients without references.                       *)
ForgottenFacts ==
    /\ action.phase = "none" /\ use.ref = 0
    /\ EntryShape' /\ Unlisted'
    /\ \A d \in Clients : \/ entry'[d] = entry[d]
                          \/ entry[d].ref = 0 /\ entry'[d] = NoEntry /\ lastWriter # d
    /\ UNCHANGED <<version, use, lastWriter, msgs, openTimeStamp, action, cmd,
                       late, procVars, clientVars, history>>

(* Steps that neither begin nor end a use that still counts.               *)
QuietUses ==
    /\ trouble \subseteq trouble'
    /\ \A c \in Clients : ~up'[c] => ~up[c] \/ c \in trouble'
    /\ \A p \in Procs : Host[p] \notin trouble' =>
          (Holds(p)' <=> Holds(p)) /\ (Holds(p) => mode'[p] = mode[p])
    /\ \A c \in Clients \ trouble' :
          /\ entry'[c].ref = entry[c].ref
          /\ entry'[c].write = entry[c].write \/ (entry[c].ref = 0 /\ entry'[c].write = 0)
    /\ trouble' = {} => use' = use /\ Entering' = Entering /\ WEntering' = WEntering

(* Steps of the server that start, continue and end no action and settle   *)
(* no command: uses end, clients are killed, commands time out.            *)
Shrinks(c) ==
    /\ entry'[c].ref <= entry[c].ref /\ entry'[c].write <= entry[c].write
    /\ entry'[c].cached => entry[c].cached

Released(c) ==
    \/ entry'[c] = entry[c]
    \/ /\ entry'[c].ref = 0 /\ entry'[c].write = 0
       /\ \/ entry'[c] = NoEntry
          \/ entry'[c].cached = entry[c].cached /\ entry'[c].stamp = entry[c].stamp

Calm ==
    /\ trouble \subseteq trouble' /\ jobs' \subseteq jobs /\ replies' \subseteq replies
    /\ openTimeStamp' = openTimeStamp
    /\ \A c \in Clients : msgs'[c] = msgs[c] \/ (c \in trouble' /\ msgs'[c] = {})
    /\ action'.by = action.by /\ action'.cacheable = action.cacheable
    /\ action'.todo = action.todo
    /\ action'.phase = action.phase \/ (action.phase = "command" /\ action'.phase = "visit")
    /\ action'.phase = "command" =>
          /\ cmd'.client = cmd.client /\ cmd'.op = cmd.op /\ cmd'.stamp = cmd.stamp
          /\ cmd'.version = cmd.version /\ (cmd'.answer = "none" => cmd.answer = "none")
    /\ \A c \in Clients : Shrinks(c)
    /\ \A c \in Clients \ trouble' : Released(c)

\* Uses only end while a command is out.
HoldersShrink == action'.phase = "command" => \A c \in Clients \ trouble' : Holders(c)' \subseteq Holders(c)

StartFacts(p) ==
    /\ action.phase = "none" /\ action.by = None /\ pc[p] = "named" /\ pc' = [pc EXCEPT ![p] = "consist"]
    /\ action'.by = p /\ action'.phase = "visit" /\ action'.cacheable = Cacheable(p)
    /\ action'.todo = {c \in Clients \ {Host[p]} : entry[c].listed}
    /\ UNCHANGED <<version, use, entry, lastWriter, msgs, openTimeStamp, cmd,
                   late, mode, grant, opens, clientVars, history>>

(* The part of Calm that Sharing is about.                                 *)
CalmList ==
    /\ trouble \subseteq trouble'
    /\ \A c \in Clients : msgs'[c] = msgs[c] \/ (c \in trouble' /\ msgs'[c] = {})
    /\ action'.by = action.by /\ action'.cacheable = action.cacheable
    /\ action'.todo = action.todo
    /\ action'.phase = action.phase \/ (action.phase = "command" /\ action'.phase = "visit")
    /\ \A c \in Clients : Shrinks(c)
    /\ \A c \in Clients \ trouble' : Released(c)

\* No handle and no reply gets a later version.
Older ==
    /\ misled \subseteq misled'
    /\ \A c \in Clients : handle'[c].version \in {handle[c].version, 0}
    /\ \A p \in Procs : grant'[p].version \in {grant[p].version, 0}

(* Steps that make no process hold an open, renew no handle and allow no   *)
(* caching.                                                                *)
SameGrant(p) ==
    /\ grant'[p].stamp = grant[p].stamp /\ grant'[p].cacheable = grant[p].cacheable

ProcKept ==
    /\ misled \subseteq misled'
    /\ \A p \in Procs : Pre(p)' => Pre(p) /\ SameGrant(p)
    /\ \A p \in Procs : Live(p)' => Live(p)
    /\ \A c \in Clients : /\ handle'[c].stamp \in {handle[c].stamp, 0}
                          /\ handle'[c].cacheable \in {handle[c].cacheable, FALSE}

\* An element in use has kept its stamp and its caching.
SameUse(c) == entry'[c].stamp = entry[c].stamp /\ entry'[c].cached = entry[c].cached

UseKept == \A p \in Procs : Holds(p)' /\ Host[p] \notin trouble' => SameUse(Host[p])

\* No command reaches a workstation whose open is about to be installed.
NoneTold ==
    \A m \in jobs' \cup replies' : m \notin jobs \cup replies =>
        \A p \in Procs : Pre(p) /\ Host[p] = m.client =>
            \/ Host[p] \in trouble'
            \/ \E i \in jobs \cup replies : i.client = Host[p]
            \/ mode[p] # "write" /\ Host[p] \in misled

NewReplies == \A r \in replies' \ replies : r.client \notin trouble' => ~Dirtyable(r.client)'

Histories == trouble \subseteq trouble' /\ misled \subseteq misled' /\ discarded \subseteq discarded'

(* Steps that write no block and install no open: blocks are written back, *)
(* dropped and scavenged, and what was written last stays somewhere.       *)
HandleQuiet(c) ==
    /\ Dirty(c)' => Dirty(c)
    /\ handle'[c].block # "none" => handle[c].block # "none" /\ (c \in fresh => c \in fresh')
    /\ handle'[c].version = handle[c].version \/ handle'[c] = NoHandle
    /\ handle'[c].cacheable => handle[c].cacheable
    /\ ~handle'[c].cacheable => handle'[c].block = "none"

BlocksQuiet == DataKept' /\ \A c \in Clients : HandleQuiet(c)

(* A step on the block of a workstation that leaves the rest of its handle. *)
BlockOnly(c) ==
    /\ \A d \in Clients : /\ handle'[d].version = handle[d].version
                          /\ handle'[d].cacheable = handle[d].cacheable
                          /\ d # c => handle'[d] = handle[d]
    /\ UNCHANGED <<serverVars, procVars, up, trouble, misled, discarded>>
=============================================================================
