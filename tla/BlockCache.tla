---------------------------- MODULE BlockCache ----------------------------
(***************************************************************************)
(* The block cache of a Sprite kernel (fscache/fscacheBlocks.c) with the   *)
(* operations that use it (fscacheOps.c, fsrmtFile.c, ofsIo.c): processes  *)
(* fetch, change and unlock blocks, block cleaners write dirty blocks to   *)
(* the file server or the disk, closes and write-backs wait for them, and  *)
(* the sync process starts them from time to time.                         *)
(*                                                                         *)
(* The state under cacheLock is the record cache; an ENTRY routine is one  *)
(* step up to the point where it sleeps, and the INTERNAL routines are     *)
(* operators from cache records to cache records.  Lists are sets: any     *)
(* member may be the first.                                                *)
(***************************************************************************)
EXTENDS Integers, FiniteSetsExt

CONSTANTS
    Procs,          \* processes that use files
    Files,          \* files with blocks in the cache
    Meta,           \* files of disk meta-data: their blocks are fetched without
                    \* the file's cache lock, and written to the local disk
    Keys,           \* blocks of files: pairs of a file and a block number
    Blocks,         \* the blocks of memory of the cache, at its largest size
    MaxCleaners,    \* fscache_MaxBlockCleaners, of each backend
    MinAvail,       \* minNumAvailBlocks
    MinBlocks,      \* FSCACHE_MIN_BLOCKS
    Calls,          \* the operations each file is used with
    MaxFaults,      \* bound on failed reads and writes
    MaxOps,         \* bound on operations
    Server,         \* the place where blocks are written to
    Nil

AllCalls == {"read", "write", "update", "fsync", "consist", "trunc", "close"}

ASSUME BlockCacheAssumption ==
    /\ IsFiniteSet(Procs) /\ IsFiniteSet(Files) /\ IsFiniteSet(Keys)
    /\ Meta \subseteq Files /\ Keys \subseteq Files \X Int
    /\ Calls \in [Files -> SUBSET AllCalls]
    /\ \A f \in Files : "update" \in Calls[f] =>
                           f \in Meta /\ Calls[f] \subseteq {"update", "fsync"}
    /\ MaxCleaners \in Nat \ {0} /\ MinAvail \in Nat /\ MinBlocks \in Nat
    /\ IsFiniteSet(Blocks) /\ MinAvail < Cardinality(Blocks)
    /\ MaxFaults \in Nat /\ MaxOps \in Nat
    /\ Server \notin Blocks /\ Nil \notin Blocks \cup Files \cup Procs \cup Keys

VARIABLES
    cache,      \* what cacheLock protects
    proc,       \* where each process is, and in which operation
    asleep,     \* the condition variable each process waits on, or Nil
    srv,        \* what the server believes of this host: the file is open
                \* here, has delayed writes here (lastWriter)
    newest,     \* where the latest contents of each block are
    sync,       \* Fsutil_SyncProc, which may wait for writeBackComplete
    faults, ops \* bounds

vars == <<cache, proc, asleep, srv, newest, sync, faults, ops>>

BlocksOf(f) == {k[2] : k \in {key \in Keys : key[1] = f}}
Backends == {"remote", "disk"}
BackendOf(f) == IF f \in Meta THEN "disk" ELSE "remote"
Slots == Backends \X (1 .. MaxCleaners)

Errors == {"SERVER_DOWN", "NO_DISK_SPACE"}
DirtyOrWritten == {"DIRTY", "BEING_WRITTEN"}

IODone(b) == <<"ioDone", b>>
NoDirtyBlocks(f) == <<"noDirtyBlocks", f>>
CleanBlock == <<"cleanBlock", Nil>>
CloseCondition == <<"close", Nil>>
Events == {IODone(b) : b \in Blocks} \cup {NoDirtyBlocks(f) : f \in Files}
          \cup {CleanBlock, CloseCondition}

ASSUME NilAssumption == Nil \notin Events

NoOp == [pc |-> "idle", op |-> Nil, file |-> Nil, key |-> Nil, blk |-> Nil,
         todo |-> {}, flag |-> FALSE]
NoCleaner == [pc |-> "idle", file |-> Nil, blk |-> Nil, last |-> FALSE, status |-> "ok"]

TypeOK ==
    /\ cache.blk \in [Blocks -> [key : Keys \cup {Nil}, ref : Nat,
            flags : SUBSET {"FREE", "DIRTY", "BEING_WRITTEN", "IO_IN_PROGRESS", "DELETED",
                            "CLEANER_WAITING"}]]
    /\ cache.hash \in [Keys -> Blocks \cup {Nil}]
    /\ cache.file \in [Files -> [numDirty : Nat, inCache : Nat, dirtyList : SUBSET Blocks,
            flags : SUBSET (Errors \cup {"CLOSE_IN_PROGRESS", "BEING_WRITTEN",
                       "ON_DIRTY_LIST", "NOT_CACHEABLE", "FSYNC", "OLD"})]]
    /\ cache.avail \in 0 .. Cardinality(Blocks)
    /\ cache.active \in 0 .. Cardinality(Slots)
    /\ cache.cleaner \in [Slots -> [pc : {"idle", "getFile", "getBlock", "write",
               "returnBlock", "returnFile", "backendIdle", "exit"},
            file : Files \cup {Nil}, blk : Blocks \cup {Nil}, last : BOOLEAN,
            status : Errors \cup {"ok"}]]
    /\ cache.wake = {}
    /\ proc \in [Procs -> [pc : {"idle", "fetch", "fill", "use", "dirty", "blocks",
               "written", "prevent", "closeRPC", "allow"},
            op : AllCalls \cup {Nil}, file : Files \cup {Nil}, key : Keys \cup {Nil},
            blk : Blocks \cup {Nil}, todo : SUBSET Int, flag : BOOLEAN]]
    /\ asleep \in [Procs -> Events \cup {Nil}]
    /\ srv \in [Files -> [open : BOOLEAN, dirty : BOOLEAN]]
    /\ newest \in [Keys -> SUBSET (Blocks \cup {Server})]
    /\ sync \in {"idle", "asleep", "awake"}
    /\ faults \in 0 .. MaxFaults
    /\ ops \in 0 .. MaxOps

(* The files are open for writing here, and none of their blocks cached.  *)
Init ==
    /\ cache = [blk |-> [b \in Blocks |-> [key |-> Nil, ref |-> 0, flags |-> {"FREE"}]],
                hash |-> [k \in Keys |-> Nil],
                file |-> [f \in Files |-> [numDirty |-> 0, inCache |-> 0, dirtyList |-> {},
                                           flags |-> {}]],
                avail |-> Cardinality(Blocks), active |-> 0,
                cleaner |-> [s \in Slots |-> NoCleaner], wake |-> {}]
    /\ proc = [p \in Procs |-> NoOp]
    /\ asleep = [p \in Procs |-> Nil]
    /\ srv = [f \in Files |-> [open |-> TRUE, dirty |-> TRUE]]
    /\ newest = [k \in Keys |-> {Server}]
    /\ sync = "idle"
    /\ faults = 0 /\ ops = 0

----------------------------------------------------------------------------
(* The routines under cacheLock.  A broadcast is noted in wake, and done   *)
(* when the step that makes it ends.                                       *)

Is(c, b, flags) == c.blk[b].flags \cap flags # {}
FileIs(c, f, flags) == c.file[f].flags \cap flags # {}

Broadcast(c, e) == [c EXCEPT !.wake = @ \cup {e}]

StartBackendWriteback(c, backend) ==
    LET idle == {s \in Slots : s[1] = backend /\ c.cleaner[s].pc = "idle"}
    IN  IF idle = {} THEN c
        ELSE [c EXCEPT !.cleaner[CHOOSE s \in idle : TRUE].pc = "getFile", !.active = @ + 1]

StartFileSync(c, f) ==
    StartBackendWriteback([c EXCEPT !.file[f].flags = @ \cup {"FSYNC"}], BackendOf(f))

PutFileOnDirtyList(c, f, fresh) ==
    IF FileIs(c, f, {"ON_DIRTY_LIST", "BEING_WRITTEN"}) THEN c
    ELSE [c EXCEPT !.file[f].flags = (@ \cup {"ON_DIRTY_LIST"})
                                         \ (IF fresh THEN {"OLD"} ELSE {})]

PutBlockOnDirtyList(c, b, fresh) ==
    LET f == c.blk[b].key[1]
    IN  PutFileOnDirtyList([c EXCEPT !.blk[b].flags = @ \cup {"DIRTY"},
                                     !.file[f].dirtyList = @ \cup {b}], f, fresh)

PutOnFreeList(c, b) ==
    Broadcast([c EXCEPT !.blk[b].flags = {"FREE"}, !.blk[b].key = Nil], CleanBlock)

(* Mutated form: nobody is told of the last dirty block.                   *)
DeleteBlockSilently(c, b) ==
    LET f == c.blk[b].key[1]
        d == [c EXCEPT !.file[f].dirtyList = @ \ {b}]
    IN  IF FileIs(d, f, {"ON_DIRTY_LIST"}) /\ d.file[f].numDirty = 0
        THEN [d EXCEPT !.file[f].flags = @ \ {"ON_DIRTY_LIST", "FSYNC"}]
        ELSE d

DeleteBlockFromDirtyList(c, b) ==
    LET f == c.blk[b].key[1]
        d == [c EXCEPT !.file[f].dirtyList = @ \ {b}]
    IN  IF FileIs(d, f, {"ON_DIRTY_LIST"}) /\ d.file[f].numDirty = 0
        THEN Broadcast([d EXCEPT !.file[f].flags = @ \ {"ON_DIRTY_LIST", "FSYNC"}],
                       NoDirtyBlocks(f))
        ELSE d

(* Mutated form: every block is taken off the dirty list and the counts.   *)
InvalidateDirty(c, b) ==
    LET k == c.blk[b].key
        f == k[1]
    IN  PutOnFreeList(DeleteBlockFromDirtyList(
            [c EXCEPT !.file[f].inCache = @ - 1, !.hash[k] = Nil,
                      !.file[f].numDirty = @ - 1, !.avail = @ + 1], b), b)

(* What CacheFileInvalidate does with a block nobody uses.                 *)
InvalidateBlock(c, b) ==
    LET k == c.blk[b].key
        f == k[1]
        out == [c EXCEPT !.file[f].inCache = @ - 1, !.hash[k] = Nil]
        clean == IF Is(out, b, {"DIRTY"})
                 THEN DeleteBlockFromDirtyList([out EXCEPT !.file[f].numDirty = @ - 1,
                                                           !.avail = @ + 1], b)
                 ELSE out
    IN  PutOnFreeList(clean, b)

(* The end of CacheFileInvalidate.                                         *)
ForgetErrors(c, f) ==
    IF c.file[f].inCache = 0 THEN [c EXCEPT !.file[f].flags = @ \ Errors] ELSE c

(* A block nobody uses any more can be used again unless it is dirty.      *)
MakeAvailable(c, b) ==
    IF c.blk[b].ref = 0 /\ ~Is(c, b, DirtyOrWritten)
    THEN Broadcast([c EXCEPT !.avail = @ + 1], CleanBlock)
    ELSE c

EndIO(c, b) ==
    IF Is(c, b, {"IO_IN_PROGRESS"})
    THEN Broadcast([c EXCEPT !.blk[b].flags = @ \ {"IO_IN_PROGRESS"}], IODone(b))
    ELSE c

(* Mutated form: a block changed while it is written is counted again.     *)
MarkDirtyAgain(c, b) ==
    IF Is(c, b, {"DIRTY"}) THEN c
    ELSE PutBlockOnDirtyList([c EXCEPT !.blk[b].flags = @ \cup {"DIRTY"},
                                       !.file[c.blk[b].key[1]].numDirty = @ + 1], b, TRUE)

MarkDirty(c, b) ==
    IF Is(c, b, {"DIRTY"}) THEN c
    ELSE LET f == c.blk[b].key[1]
             d == [c EXCEPT !.blk[b].flags = @ \cup {"DIRTY"}]
         IN  IF Is(c, b, {"BEING_WRITTEN"}) THEN d
             ELSE PutBlockOnDirtyList([d EXCEPT !.file[f].numDirty = @ + 1], b, TRUE)

Fscache_UnlockBlock(c, b, dirty) ==
    LET d == EndIO(c, b)
        e == IF dirty THEN MarkDirty(d, b) ELSE d
        g == [e EXCEPT !.blk[b].ref = @ - 1]
        h == MakeAvailable(Broadcast(g, IODone(b)), b)
    IN  IF g.blk[b].ref > 0 THEN g
        ELSE IF Is(h, b, {"CLEANER_WAITING"})
             THEN [StartBackendWriteback(h, BackendOf(h.blk[b].key[1]))
                     EXCEPT !.blk[b].flags = @ \ {"CLEANER_WAITING"}]
             ELSE h

----------------------------------------------------------------------------
(* Steps.  Every process is in at most one operation; the ones of          *)
(* LockedOps hold the lock of the file's cacheInfo from start to end.      *)

LockedOps == {"read", "write", "consist", "trunc"}
InUse(f) == \E q \in Procs : proc[q].file = f
Locked(f) == \E q \in Procs : proc[q].file = f /\ proc[q].op \in LockedOps
Closing(f) == \E q \in Procs : proc[q].file = f /\ proc[q].op = "close"
Open(f) == srv[f].open /\ ~Closing(f)

(* The end of a step: c is the new cache, n where the newest data is; what *)
(* a freed block held is forgotten, and those waiting are woken.           *)
Become(c, n) ==
    /\ cache' = [c EXCEPT !.wake = {}]
    /\ newest' = [k \in Keys |-> {x \in n[k] : x = Server \/ c.blk[x].key = k}]

Woken(c) == [q \in Procs |-> IF asleep[q] \in c.wake THEN Nil ELSE asleep[q]]

Step(p, c, n, pr) ==
    /\ Become(c, n)
    /\ asleep' = Woken(c)
    /\ proc' = [proc EXCEPT ![p] = pr]
    /\ UNCHANGED sync

Sleep(p, c, n, pr, event) ==
    /\ Become(c, n)
    /\ asleep' = [Woken(c) EXCEPT ![p] = event]
    /\ proc' = [proc EXCEPT ![p] = pr]
    /\ UNCHANGED sync

At(p, pc) == proc[p].pc = pc /\ asleep[p] = Nil

(* The start of an operation: fs calls, and Fscache_Consist.  Reads and    *)
(* writes of a file that may not be cached pass the cache by.              *)
Begin(p, f, op) ==
    /\ At(p, "idle") /\ ops < MaxOps /\ op \in Calls[f]
    /\ Open(f) \/ (op = "consist" /\ ~Closing(f) /\ (srv[f].open \/ srv[f].dirty))
    /\ op \in LockedOps => ~Locked(f)
    /\ ops' = ops + 1

Cacheable(f) == ~FileIs(cache, f, {"NOT_CACHEABLE"})

(* Fscache_Read, Fscache_Write (one block) and the disk manager's changes  *)
(* to its blocks.                                                          *)
BeginIO(p, k, op) ==
    /\ Begin(p, k[1], op) /\ op \in {"read", "write", "update"} /\ Cacheable(k[1])
    /\ Step(p, cache, newest, [NoOp EXCEPT !.pc = "fetch", !.op = op, !.file = k[1], !.key = k])
    /\ UNCHANGED <<srv, faults>>

(* The file is opened for writing again: the server takes this host for    *)
(* its last writer.                                                        *)
FsOpen(f) ==
    /\ ~srv[f].open /\ ~InUse(f) /\ Cacheable(f)
    /\ srv' = [srv EXCEPT ![f] = [open |-> TRUE, dirty |-> TRUE]]
    /\ ops < MaxOps /\ ops' = ops + 1
    /\ UNCHANGED <<cache, proc, asleep, newest, sync, faults>>

----------------------------------------------------------------------------
(* Fetching, filling, using and unlocking a block.                         *)

Busy(b) == cache.blk[b].ref > 0 \/ Is(cache, b, {"IO_IN_PROGRESS", "BEING_WRITTEN"})

(* Fscache_FetchBlock finds the block.                                     *)
Take(c, b, io) ==
    LET d == [c EXCEPT !.blk[b].ref = @ + 1,
                       !.blk[b].flags = IF io THEN @ \cup {"IO_IN_PROGRESS"} ELSE @]
    IN  IF c.blk[b].ref = 0 /\ ~Is(c, b, {"DIRTY"}) THEN [d EXCEPT !.avail = @ - 1] ELSE d

NewBlock(c, b, k) ==
    [c EXCEPT !.blk[b] = [key |-> k, ref |-> 1, flags |-> {"IO_IN_PROGRESS"}],
              !.hash[k] = b, !.file[k[1]].inCache = @ + 1, !.avail = @ - 1]

(* FetchBlock: the clean block b is reused; the files of dirty blocks      *)
(* before it on the lru list are written back.                             *)
DeleteBlock(c, b) ==
    [c EXCEPT !.hash[c.blk[b].key] = Nil, !.file[c.blk[b].key[1]].inCache = @ - 1]

CleanBlocks(c) == {b \in Blocks : c.blk[b].ref = 0 /\ ~Is(c, b, DirtyOrWritten \cup {"FREE"})}

DirtyFiles(c) ==
    {f \in Files : /\ ~FileIs(c, f, {"BEING_WRITTEN"})
                   /\ \E k \in Keys, b \in Blocks :
                         /\ k[1] = f /\ c.hash[k] = b
                         /\ c.blk[b].ref = 0 /\ Is(c, b, DirtyOrWritten)}

StartSyncs(c, S) == FoldSet(LAMBDA f, d : StartFileSync(d, f), c, S)

OnDirtyList(c, backend) ==
    {f \in Files : BackendOf(f) = backend /\ FileIs(c, f, {"ON_DIRTY_LIST"})}

StartBackends(c, S) == FoldSet(LAMBDA backend, d : StartBackendWriteback(d, backend), c, S)

Fscache_FetchBlock(p) ==
    LET k == proc[p].key
        b == cache.hash[k]
        io == proc[p].op = "write"
        fetched(c, new, pc) == Step(p, c, newest, [proc[p] EXCEPT !.pc = pc, !.blk = new])
        free == {x \in Blocks : Is(cache, x, {"FREE"})}
    IN  /\ At(p, "fetch")
        /\ \/ /\ b # Nil
              /\ IF (io /\ Busy(b)) \/ Is(cache, b, {"IO_IN_PROGRESS"})
                 THEN Sleep(p, cache, newest, proc[p], IODone(b))
                 ELSE fetched(Take(cache, b, io), b, "use")
           \/ /\ b = Nil /\ cache.avail > MinAvail
              /\ \E x \in free : fetched(NewBlock(cache, x, k), x, "fill")
           \/ /\ b = Nil /\ cache.avail > MinAvail /\ free = {}
              /\ \E x \in CleanBlocks(cache), S \in SUBSET DirtyFiles(cache) :
                    fetched(NewBlock(DeleteBlock(StartSyncs(cache, S), x), x, k), x, "fill")
           \/ /\ b = Nil /\ cache.avail <= MinAvail
              /\ LET S == {backend \in Backends : OnDirtyList(cache, backend) # {}}
                 IN  Sleep(p, StartBackends(cache, S), newest, proc[p], CleanBlock)
        /\ UNCHANGED <<srv, faults, ops>>

(* The block is read from the server or the disk; a write of a whole block *)
(* need not.  When the read fails the block is unlocked and deleted.       *)
Fill(p) ==
    LET k == proc[p].key
        b == proc[p].blk
        n == IF Server \in newest[k] THEN [newest EXCEPT ![k] = @ \cup {b}] ELSE newest
        d == MakeAvailable([EndIO(cache, b) EXCEPT !.blk[b].ref = @ - 1], b)
    IN  /\ At(p, "fill")
        /\ \/ Step(p, cache, n, [proc[p] EXCEPT !.pc = "use"]) /\ UNCHANGED faults
           \/ /\ proc[p].op = "write"
              /\ Step(p, cache, newest, [proc[p] EXCEPT !.pc = "use"])
              /\ UNCHANGED faults
           \/ /\ faults < MaxFaults /\ faults' = faults + 1
              /\ Step(p, ForgetErrors(InvalidateBlock(d, b), k[1]), newest, NoOp)
        /\ UNCHANGED <<srv, ops>>

Use(p) ==
    LET pr == proc[p] IN
    /\ At(p, "use")
    /\ \/ /\ pr.op = "read"
          /\ Step(p, Fscache_UnlockBlock(cache, pr.blk, FALSE), newest, NoOp)
       \/ /\ pr.op # "read"
          /\ Step(p, cache, [newest EXCEPT ![pr.key] = {pr.blk}], [pr EXCEPT !.pc = "dirty"])
    /\ UNCHANGED <<srv, faults, ops>>

UnlockDirty(p) ==
    /\ At(p, "dirty")
    /\ Step(p, Fscache_UnlockBlock(cache, proc[p].blk, TRUE), newest, NoOp)
    /\ UNCHANGED <<srv, faults, ops>>

----------------------------------------------------------------------------
(* Writing back and invalidating the blocks of a file.                     *)

InHash(c, f, N) == {c.hash[<<f, n>>] : n \in N} \ {Nil}

(* The numbers passed before a block must be waited for, and that block.   *)
Waits(c, f, N, Blocked(_)) == {n \in N : \E b \in InHash(c, f, {n}) : Blocked(b)}
Passed(N, W) == {n \in N : \A w \in W : n < w}

(* What Fscache_FileWriteBack does with the blocks it passes when it also  *)
(* invalidates: the cleaner frees a dirty one after writing it.            *)
DropWhenWritten(c, b) ==
    [c EXCEPT !.blk[b].flags = @ \cup {"DELETED"}, !.hash[c.blk[b].key] = Nil]
DropNow(c, b) == PutOnFreeList(DeleteBlock(c, b), b)
Drop(c, S) ==
    FoldSet(LAMBDA b, d : IF Is(d, b, DirtyOrWritten) THEN DropWhenWritten(d, b)
                          ELSE DropNow(d, b), c, S)

Unwritten(c, f) ==
    FileIs(c, f, {"ON_DIRTY_LIST", "BEING_WRITTEN"}) /\ ~FileIs(c, f, Errors)

(* The return of Fscache_FileWriteBack and, for a consistency command, of  *)
(* Fscache_Consist: when the write-back succeeded the server forgets the   *)
(* last writer.                                                            *)
Return(p, c, pr) ==
    LET f == pr.file
        consist == pr.op = "consist"
    IN  /\ Step(p, IF consist THEN [c EXCEPT !.file[f].flags = @ \cup {"NOT_CACHEABLE"}]
                   ELSE c, newest, NoOp)
        /\ srv' = [srv EXCEPT ![f].dirty = @ /\ ~(consist /\ ~FileIs(c, f, Errors))]

(* Fscache_FileWriteBack with FSCACHE_FILE_WB_WAIT, from the first block   *)
(* it has not passed yet up to where it sleeps or returns.                 *)
WriteBackPass(p, c, pr) ==
    LET f == pr.file
        W == Waits(c, f, pr.todo, LAMBDA b : c.blk[b].ref > 0)
        S == InHash(c, f, Passed(pr.todo, W))
        sync1 == pr.flag \/ \E b \in S : Is(c, b, DirtyOrWritten)
        d == IF pr.op = "consist" THEN Drop(c, S) ELSE c
        e == IF FileIs(d, f, {"ON_DIRTY_LIST"}) /\ sync1 THEN StartFileSync(d, f) ELSE d
        qr == [pr EXCEPT !.todo = @ \ Passed(@, W), !.flag = sync1]
    IN  \/ /\ W # {}
           /\ Sleep(p, d, newest, [qr EXCEPT !.pc = "blocks"],
                    IODone(c.hash[<<f, CHOOSE w \in W : \A v \in W : w <= v>>]))
           /\ UNCHANGED srv
        \/ /\ W = {} /\ Unwritten(e, f)
           /\ Sleep(p, e, newest, [qr EXCEPT !.pc = "written"], NoDirtyBlocks(f))
           /\ UNCHANGED srv
        \/ /\ W = {} /\ ~Unwritten(e, f)
           /\ Return(p, e, pr)

Fscache_FileWriteBack(p, f, op) ==
    LET c == [cache EXCEPT !.file[f].flags = @ \ Errors]
        pr == [NoOp EXCEPT !.op = op, !.file = f, !.todo = BlocksOf(f)]
    IN  /\ Begin(p, f, op) /\ op \in {"fsync", "consist"}
        /\ IF cache.file[f].inCache = 0 THEN Return(p, c, pr)
           ELSE WriteBackPass(p, c, pr)
        /\ UNCHANGED faults

FileWriteBackAgain(p) ==
    /\ At(p, "blocks") /\ proc[p].op \in {"fsync", "consist"}
    /\ WriteBackPass(p, cache, proc[p])
    /\ UNCHANGED <<faults, ops>>

FileWriteBackWaits(p) ==
    LET f == proc[p].file IN
    /\ At(p, "written")
    /\ \/ /\ Unwritten(cache, f)
          /\ Sleep(p, cache, newest, proc[p], NoDirtyBlocks(f))
          /\ UNCHANGED srv
       \/ /\ ~Unwritten(cache, f)
          /\ Return(p, cache, proc[p])
    /\ UNCHANGED <<faults, ops>>

(* Fscache_Trunc to length 0: CacheFileInvalidate waits for blocks in use  *)
(* or being written; then the file is truncated at the server.             *)
InvalidatePass(p, c, pr) ==
    LET f == pr.file
        W == Waits(c, f, pr.todo, LAMBDA b : c.blk[b].ref > 0 \/ Is(c, b, {"BEING_WRITTEN"}))
        S == InHash(c, f, Passed(pr.todo, W))
        d == FoldSet(LAMBDA b, e : InvalidateBlock(e, b), c, S)
    IN  \/ /\ W # {}
           /\ Sleep(p, d, newest, [pr EXCEPT !.pc = "blocks", !.todo = @ \ Passed(@, W)],
                    IODone(c.hash[<<f, CHOOSE w \in W : \A v \in W : w <= v>>]))
        \/ /\ W = {}
           /\ Step(p, ForgetErrors(d, f),
                   [k \in Keys |-> IF k[1] = f THEN {Server} ELSE newest[k]], NoOp)

Fscache_Trunc(p, f) ==
    /\ Begin(p, f, "trunc") /\ Cacheable(f)
    /\ InvalidatePass(p, cache, [NoOp EXCEPT !.op = "trunc", !.file = f,
                !.todo = IF cache.file[f].inCache = 0 THEN {} ELSE BlocksOf(f)])
    /\ UNCHANGED <<srv, faults>>

TruncAgain(p) ==
    /\ At(p, "blocks") /\ proc[p].op = "trunc"
    /\ InvalidatePass(p, cache, proc[p])
    /\ UNCHANGED <<srv, faults, ops>>

(* FsrmtFileClose by the last user.                                        *)
FsrmtFileClose(p, f) ==
    /\ Begin(p, f, "close") /\ \A q \in Procs : proc[q].file = f => proc[q].op = "consist"
    /\ Step(p, [cache EXCEPT !.file[f].flags = @ \cup {"CLOSE_IN_PROGRESS"}], newest,
            [NoOp EXCEPT !.pc = "prevent", !.op = "close", !.file = f])
    /\ UNCHANGED <<srv, faults>>

(* Mutated form: the cleaner in the file is not waited for.                *)
PreventWriteBacksAtOnce(p) ==
    LET f == proc[p].file IN
    /\ At(p, "prevent")
    /\ Step(p, cache, newest,
            [proc[p] EXCEPT !.pc = "closeRPC",
                            !.flag = cache.file[f].numDirty = 0 /\ Cacheable(f)])
    /\ UNCHANGED <<srv, faults, ops>>

Fscache_PreventWriteBacks(p) ==
    LET f == proc[p].file IN
    /\ At(p, "prevent")
    /\ IF FileIs(cache, f, {"BEING_WRITTEN"})
       THEN Sleep(p, cache, newest, proc[p], CloseCondition)
       ELSE Step(p, cache, newest,
                 [proc[p] EXCEPT !.pc = "closeRPC",
                                 !.flag = cache.file[f].numDirty = 0 /\ Cacheable(f)])
    /\ UNCHANGED <<srv, faults, ops>>

(* Fsrmt_Close, with or without FS_LAST_DIRTY_BLOCK; Fsconsist_Close.      *)
CloseRPC(p) ==
    LET f == proc[p].file IN
    /\ At(p, "closeRPC")
    /\ srv' = [srv EXCEPT ![f] = [open |-> FALSE, dirty |-> @.dirty /\ ~proc[p].flag]]
    /\ Step(p, cache, newest, [proc[p] EXCEPT !.pc = "allow"])
    /\ UNCHANGED <<faults, ops>>

Fscache_AllowWriteBacks(p) ==
    LET f == proc[p].file
        c == [cache EXCEPT !.file[f].flags = @ \ {"CLOSE_IN_PROGRESS"}]
        d == PutFileOnDirtyList(c, f, FALSE)
    IN  /\ At(p, "allow")
        /\ Step(p, IF c.file[f].numDirty = 0 THEN c
                   ELSE IF FileIs(d, f, {"FSYNC"})
                        THEN StartBackendWriteback(d, BackendOf(f)) ELSE d, newest, NoOp)
        /\ UNCHANGED <<srv, faults, ops>>

----------------------------------------------------------------------------
(* Block cleaners: FsrmtCleanBlocks and Ofs_CleanBlocks.                   *)

CleanerStep(s, c, cl) ==
    /\ LET d == [c EXCEPT !.cleaner[s] = cl]
       IN  Become(d, newest) /\ asleep' = Woken(d)
    /\ UNCHANGED <<proc, ops>>

CleanerAt(s, pc) == cache.cleaner[s].pc = pc

Unlocked(c, f) == \E b \in c.file[f].dirtyList : c.blk[b].ref = 0

(* Some files whose last error is old enough are tried again (R); a file   *)
(* that need not be written yet ends the search, unless there is a file    *)
(* that was synced, which is before it on the list.                        *)
Fscache_GetDirtyFile(s) ==
    LET cl == cache.cleaner[s]
        listed == {f \in OnDirtyList(cache, s[1]) :
                      ~FileIs(cache, f, {"CLOSE_IN_PROGRESS", "SERVER_DOWN"})}
    IN  /\ CleanerAt(s, "getFile")
        /\ \E R \in SUBSET {f \in listed : FileIs(cache, f, Errors)} :
              LET c == FoldSet(LAMBDA f, d : [d EXCEPT !.file[f].flags = @ \ Errors], cache, R)
                  seen == {f \in listed : ~FileIs(c, f, Errors)}
                  urgent == {f \in seen : c.avail <= MinAvail \/ FileIs(c, f, {"FSYNC", "OLD"})}
                  ready == {f \in urgent : Unlocked(c, f) \/ c.file[f].dirtyList = {}}
                  synced == {f \in ready : FileIs(c, f, {"FSYNC"})}
              IN  \/ \E f \in ready :
                        CleanerStep(s, [c EXCEPT !.file[f].flags =
                                           (@ \cup {"BEING_WRITTEN"}) \ {"ON_DIRTY_LIST"}],
                                    [cl EXCEPT !.pc = "getBlock", !.file = f])
                  \/ /\ ready = {} \/ (synced = {} /\ seen # urgent)
                     /\ CleanerStep(s, c, [cl EXCEPT !.pc = "backendIdle"])
        /\ UNCHANGED <<srv, sync, faults>>

(* The locked blocks of the dirty list that are passed are marked.         *)
Fscache_GetDirtyBlock(s) ==
    LET cl == cache.cleaner[s]
        f == cl.file
        dirty == cache.file[f].dirtyList
        used == {b \in dirty : cache.blk[b].ref > 0}
        marked(M) == [cache EXCEPT !.blk = [b \in Blocks |->
            IF b \in M THEN [cache.blk[b] EXCEPT !.flags = @ \cup {"CLEANER_WAITING"}]
                       ELSE cache.blk[b]]]
        none == [cl EXCEPT !.pc = "returnFile"]
    IN  /\ CleanerAt(s, "getBlock")
        /\ IF FileIs(cache, f, {"CLOSE_IN_PROGRESS"} \cup Errors)
           THEN CleanerStep(s, cache, none)
           ELSE \/ dirty = used /\ CleanerStep(s, marked(used), none)
                \/ \E b \in dirty \ used, M \in SUBSET used :
                      CleanerStep(s,
                          [marked(M) EXCEPT !.file[f].dirtyList = @ \ {b},
                               !.blk[b].flags = (@ \ {"DIRTY"}) \cup {"BEING_WRITTEN"},
                               !.blk[b].ref = @ + 1],
                          [cl EXCEPT !.pc = "write", !.blk = b, !.last = dirty = {b}])
        /\ UNCHANGED <<srv, sync, faults>>

(* The write, at the server: Fsconsist_DeleteLastWriter believes the last  *)
(* dirty block when the file is closed and no consistency action is under  *)
(* way.                                                                    *)
BlockWrite(s) ==
    LET cl == cache.cleaner[s]
        f == cl.file
        k == cache.blk[cl.blk].key
        done(status) == [cache EXCEPT !.cleaner[s].pc = "returnBlock",
                                      !.cleaner[s].status = status]
    IN  /\ CleanerAt(s, "write")
        /\ \/ /\ Become(done("ok"),
                     [newest EXCEPT ![k] = IF cl.blk \in @ THEN @ \cup {Server}
                                           ELSE @ \ {Server}])
              /\ srv' = [srv EXCEPT ![f].dirty =
                     @ /\ ~(cl.last /\ ~srv[f].open /\ s[1] = "remote"
                            /\ \A q \in Procs : proc[q].op = "consist" => proc[q].file # f)]
              /\ UNCHANGED faults
           \/ /\ faults < MaxFaults /\ faults' = faults + 1
              /\ \E status \in Errors :
                    /\ status = "SERVER_DOWN" => s[1] = "remote"
                    /\ Become(done(status), newest)
              /\ UNCHANGED srv
        /\ UNCHANGED <<proc, asleep, sync, ops>>

Written(c, b) ==
    Broadcast([c EXCEPT !.blk[b].flags = @ \ {"BEING_WRITTEN"}, !.blk[b].ref = @ - 1],
              IODone(b))

(* After a successful write the block is clean unless it was changed       *)
(* meanwhile; it is freed if Fscache_FileWriteBack deleted it.             *)
WriteSucceeded(c, b, f) ==
    LET d == [c EXCEPT !.file[f].flags = @ \ Errors]
        e == IF c.blk[b].ref = 0 THEN [d EXCEPT !.avail = @ + 1] ELSE d
        g == IF Is(c, b, {"DELETED"})
             THEN PutOnFreeList([e EXCEPT !.file[f].inCache = @ - 1], b) ELSE e
    IN  IF Is(c, b, {"DIRTY"}) THEN PutBlockOnDirtyList(d, b, FALSE)
        ELSE Broadcast([g EXCEPT !.file[f].numDirty = @ - 1], CleanBlock)

(* A block cleaner of a disk may leave a file before all is written.       *)
Fscache_ReturnDirtyBlock(s) ==
    LET cl == cache.cleaner[s]
        f == cl.file
        c == Written(cache, cl.blk)
        d == IF cl.status = "ok" THEN WriteSucceeded(c, cl.blk, f)
             ELSE PutBlockOnDirtyList([c EXCEPT !.file[f].flags = @ \cup {cl.status}],
                                      cl.blk, FALSE)
    IN  /\ CleanerAt(s, "returnBlock")
        /\ \E pc \in {"getBlock"} \cup (IF s[1] = "disk" THEN {"returnFile"} ELSE {}) :
              CleanerStep(s, d, [NoCleaner EXCEPT !.pc = pc, !.file = f])
        /\ UNCHANGED <<srv, sync, faults>>

Fscache_ReturnDirtyFile(s) ==
    LET f == cache.cleaner[s].file
        c == [cache EXCEPT !.file[f].flags = @ \ {"BEING_WRITTEN"}]
        d == IF c.file[f].numDirty = 0
             THEN Broadcast([c EXCEPT !.file[f].flags = @ \ {"FSYNC"}], NoDirtyBlocks(f))
             ELSE PutFileOnDirtyList(c, f, FALSE)
        e == IF FileIs(c, f, {"CLOSE_IN_PROGRESS"}) THEN Broadcast(d, CloseCondition) ELSE d
    IN  /\ CleanerAt(s, "returnFile")
        /\ CleanerStep(s, e, [NoCleaner EXCEPT !.pc = "getFile"])
        /\ UNCHANGED <<srv, sync, faults>>

FscacheBackendIdle(s) ==
    /\ CleanerAt(s, "backendIdle")
    /\ CleanerStep(s, [cache EXCEPT !.active = @ - 1], [NoCleaner EXCEPT !.pc = "exit"])
    /\ sync' = IF cache.active = 1 /\ sync = "asleep" THEN "awake" ELSE sync
    /\ UNCHANGED <<srv, faults>>

(* fsrmtBlockCleaners is decremented later, under another lock.            *)
CleanerExit(s) ==
    /\ CleanerAt(s, "exit")
    /\ CleanerStep(s, cache, NoCleaner)
    /\ UNCHANGED <<srv, sync, faults>>

----------------------------------------------------------------------------
(* The sync process, time, and recovery from a server that was down.       *)

(* CacheWriteBack: on each backend the first file that needs it, other     *)
(* than those whose server is down, starts a cleaner.                      *)
Starters(backend) ==
    {f \in OnDirtyList(cache, backend) :
        /\ ~FileIs(cache, f, {"SERVER_DOWN"})
        /\ \/ cache.avail < MinAvail + MinBlocks
           \/ FileIs(cache, f, Errors \cup {"FSYNC", "OLD"})}

Fsutil_SyncProc ==
    /\ sync = "idle"
    /\ \E S \in SUBSET UNION {Starters(backend) : backend \in Backends} :
          /\ \A backend \in Backends :
                Starters(backend) # {} => Cardinality(S \cap Starters(backend)) = 1
          /\ LET c == FoldSet(LAMBDA f, d : StartBackendWriteback(
                          [d EXCEPT !.file[f].flags = @ \ Errors], BackendOf(f)), cache, S)
             IN  /\ Become(c, newest)
                 /\ sync' = IF c.active > 0 THEN "asleep" ELSE "idle"
    /\ UNCHANGED <<proc, asleep, srv, faults, ops>>

SyncWakes ==
    /\ sync = "awake"
    /\ sync' = IF cache.active > 0 THEN "asleep" ELSE "idle"
    /\ UNCHANGED <<cache, proc, asleep, srv, newest, faults, ops>>

(* The oldest dirty block of a file gets older than filewriteBackTime.     *)
Ages(f) ==
    /\ FileIs(cache, f, {"ON_DIRTY_LIST"}) /\ ~FileIs(cache, f, {"OLD"})
    /\ cache' = [cache EXCEPT !.file[f].flags = @ \cup {"OLD"}]
    /\ UNCHANGED <<proc, asleep, srv, newest, sync, faults, ops>>

(* FsrmtFinishFileReopen of a file with dirty blocks: a write-back that    *)
(* waits for nothing.                                                      *)
FsrmtFinishFileReopen(f) ==
    LET c == [cache EXCEPT !.file[f].flags = @ \ Errors]
        ready == \E b \in InHash(c, f, BlocksOf(f)) : c.blk[b].ref = 0 /\ Is(c, b, DirtyOrWritten)
    IN  /\ FileIs(cache, f, {"SERVER_DOWN"}) /\ cache.file[f].numDirty > 0
        /\ Become(IF FileIs(c, f, {"ON_DIRTY_LIST"}) /\ ready THEN StartFileSync(c, f) ELSE c,
                  newest)
        /\ UNCHANGED <<proc, asleep, srv, sync, faults, ops>>

----------------------------------------------------------------------------
Continue(p) ==
    \/ Fscache_FetchBlock(p) \/ Fill(p) \/ Use(p) \/ UnlockDirty(p)
    \/ FileWriteBackAgain(p) \/ FileWriteBackWaits(p) \/ TruncAgain(p)
    \/ Fscache_PreventWriteBacks(p) \/ CloseRPC(p) \/ Fscache_AllowWriteBacks(p)

Clean(s) ==
    \/ Fscache_GetDirtyFile(s) \/ Fscache_GetDirtyBlock(s) \/ BlockWrite(s)
    \/ Fscache_ReturnDirtyBlock(s) \/ Fscache_ReturnDirtyFile(s)
    \/ FscacheBackendIdle(s) \/ CleanerExit(s)

Next ==
    \/ \E p \in Procs, k \in Keys, op \in {"read", "write", "update"} : BeginIO(p, k, op)
    \/ \E p \in Procs, f \in Files, op \in {"fsync", "consist"} : Fscache_FileWriteBack(p, f, op)
    \/ \E p \in Procs, f \in Files : Fscache_Trunc(p, f) \/ FsrmtFileClose(p, f)
    \/ \E f \in Files : FsOpen(f) \/ Ages(f) \/ FsrmtFinishFileReopen(f)
    \/ \E p \in Procs : Continue(p)
    \/ \E s \in Slots : Clean(s)
    \/ Fsutil_SyncProc \/ SyncWakes

Spec == Init /\ [][Next]_vars

----------------------------------------------------------------------------
BlocksNow(f) == {b \in Blocks : cache.blk[b].key # Nil /\ cache.blk[b].key[1] = f}

(* The counters and lists of the cache tell the truth.  numAvailBlocks is  *)
(* the number of blocks free or clean and unused, numDirtyBlocks the       *)
(* number dirty or being written, blocksInCache all of a file; the dirty   *)
(* list has the dirty blocks that are not being written; a file with one   *)
(* is on the dirty list of its backend or with exactly one cleaner;        *)
(* numBackendsActive counts the cleaners.  (Fetching with a wrong count    *)
(* panics, fscacheBlocks.c:619 and 745; a dirty file on no list is never   *)
(* written.)                                                               *)
CountsExact ==
    /\ cache.avail = Cardinality({b \in Blocks :
           cache.blk[b].ref = 0 /\ ~Is(cache, b, DirtyOrWritten)})
    /\ cache.active = Cardinality({s \in Slots : cache.cleaner[s].pc \notin {"idle", "exit"}})
    /\ \A f \in Files :
          /\ cache.file[f].inCache = Cardinality(BlocksNow(f))
          /\ cache.file[f].numDirty =
                 Cardinality({b \in BlocksNow(f) : Is(cache, b, DirtyOrWritten)})
          /\ cache.file[f].dirtyList = {b \in BlocksNow(f) :
                 Is(cache, b, {"DIRTY"}) /\ ~Is(cache, b, {"BEING_WRITTEN"})}
          /\ cache.file[f].numDirty > 0 => FileIs(cache, f, {"ON_DIRTY_LIST", "BEING_WRITTEN"})
          /\ Cardinality({s \in Slots : cache.cleaner[s].file = f}) =
                 IF FileIs(cache, f, {"BEING_WRITTEN"}) THEN 1 ELSE 0

(* A block that will be written (again).                                   *)
Pending(b) ==
    \/ Is(cache, b, {"DIRTY"})
    \/ \E s \in Slots : /\ cache.cleaner[s].blk = b
                        /\ cache.cleaner[s].pc = "write" \/ cache.cleaner[s].status # "ok"
    \/ \E p \in Procs : proc[p].blk = b /\ proc[p].pc = "dirty"

(* Delayed writes are not lost: unless the file is being truncated, the    *)
(* latest contents of a block are at the server or will be written there,  *)
(* whatever was written, failed, replaced, invalidated or closed meanwhile; *)
(* a block that is read or changed has the latest contents; and when the   *)
(* server takes a closed file to have no delayed writes here it has none   *)
(* (the comment at fscacheBlocks.c:69 explains how that is achieved).      *)
NothingLost ==
    /\ \A k \in Keys :
          \/ Server \in newest[k]
          \/ \E b \in newest[k] : b # Server /\ Pending(b)
          \/ \E p \in Procs : proc[p].op = "trunc" /\ proc[p].file = k[1]
    /\ \A p \in Procs :
          proc[p].pc = "use" /\ proc[p].op # "write" => proc[p].blk \in newest[proc[p].key]
    /\ \A k \in Keys : srv[k[1]].open \/ srv[k[1]].dirty \/ Server \in newest[k]

(* Nobody sleeps on what has already happened: who waits for a block finds *)
(* it still in use, so that its user or its cleaner will wake it           *)
(* (Fscache_UnlockBlock, Fscache_ReturnDirtyBlock); who waits for a        *)
(* write-back finds the file still to be written; who waits for room in    *)
(* the cache finds none; and who closes a file waits for a cleaner that    *)
(* knows of the close (Fscache_ReturnDirtyFile).                           *)
SleepersWoken ==
    /\ \A b \in Blocks, p \in Procs :
          asleep[p] = IODone(b) => cache.blk[b].ref > 0 \/ Is(cache, b, {"BEING_WRITTEN"})
    /\ \A f \in Files, p \in Procs :
          asleep[p] = NoDirtyBlocks(f) => FileIs(cache, f, {"ON_DIRTY_LIST", "BEING_WRITTEN"})
    /\ \A p \in Procs : asleep[p] = CleanBlock => cache.avail <= MinAvail
    /\ \A p \in Procs : asleep[p] = CloseCondition =>
          {"CLOSE_IN_PROGRESS", "BEING_WRITTEN"} \subseteq cache.file[proc[p].file].flags

=============================================================================
