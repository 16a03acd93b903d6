--------------------------- MODULE BlockCacheInv ---------------------------
(***************************************************************************)
(* The inductive invariant of the block cache, Inv, and what the proofs    *)
(* say of single steps.  Inv is about four things at once:                 *)
(*   CacheInv   blocks, hash table, files and cleaners refer to each       *)
(*              other, and the counts count them;                          *)
(*   HoldInv    a block's references are its users and its cleaner, and    *)
(*              what a process holds stays what it fetched;                *)
(*   Sleepers   nobody waits for what is already true;                     *)
(*   ProcTied, OneCloser, Marks                                            *)
(*              what a process is doing determines what it holds.          *)
(* They need each other: a block can be reused only because its count of   *)
(* references is exact, and counts stay exact because a held block is not  *)
(* reused.                                                                 *)
(*                                                                         *)
(* The operators describe caches and steps on them: a predicate XDone(c,   *)
(* d, ...) says all that the routine X, which makes cache d of c, does.    *)
(***************************************************************************)
EXTENDS BlockCache

One(e) == IF e THEN 1 ELSE 0

(* The types of the records, with counts that might be negative.           *)
BlockFlags == {"FREE", "DIRTY", "BEING_WRITTEN", "IO_IN_PROGRESS", "DELETED", "CLEANER_WAITING"}
FileFlags == Errors \cup {"CLOSE_IN_PROGRESS", "BEING_WRITTEN", "ON_DIRTY_LIST",
                          "NOT_CACHEABLE", "FSYNC", "OLD"}
BlockT == [key : Keys \cup {Nil}, ref : Int, flags : SUBSET BlockFlags]
FileT == [numDirty : Int, inCache : Int, dirtyList : SUBSET Blocks, flags : SUBSET FileFlags]
CleanerPcs == {"idle", "getFile", "getBlock", "write", "returnBlock", "returnFile",
               "backendIdle", "exit"}
CleanerT == [pc : CleanerPcs, file : Files \cup {Nil}, blk : Blocks \cup {Nil},
             last : BOOLEAN, status : Errors \cup {"ok"}]
CacheT == [blk : [Blocks -> BlockT], hash : [Keys -> Blocks \cup {Nil}],
           file : [Files -> FileT], avail : Int, active : Int,
           cleaner : [Slots -> CleanerT], wake : SUBSET Events]
ProcPcs == {"idle", "fetch", "fill", "use", "dirty", "blocks", "written", "prevent",
            "closeRPC", "allow"}
ProcT == [pc : ProcPcs, op : AllCalls \cup {Nil}, file : Files \cup {Nil},
          key : Keys \cup {Nil}, blk : Blocks \cup {Nil}, todo : SUBSET Int, flag : BOOLEAN]

(* What a process does at each point, and what it may sleep on there.      *)
Idle(x, e) == x = NoOp /\ e = Nil
DoesIO(x, e) ==
    /\ x.pc \in {"fetch", "fill", "use", "dirty"} /\ x.op \in {"read", "write", "update"}
    /\ x.key \in Keys /\ x.file = x.key[1]
    /\ x.blk = Nil <=> x.pc = "fetch"
    /\ x.pc = "dirty" => x.op # "read"
    /\ x.pc # "fetch" => e = Nil
    /\ e # CloseCondition
WaitsForBlocks(x, e) ==
    /\ x.pc = "blocks" /\ x.op \in {"fsync", "consist", "trunc"}
    /\ x.file \in Files /\ x.blk = Nil /\ e # CloseCondition
    /\ x.todo \subseteq BlocksOf(x.file)
WaitsForFile(x, e) ==
    /\ x.pc = "written" /\ x.op \in {"fsync", "consist"}
    /\ x.file \in Files /\ x.blk = Nil /\ e # CloseCondition
Closes(x, e) ==
    /\ x.pc \in {"prevent", "closeRPC", "allow"} /\ x.op = "close"
    /\ x.file \in Files /\ x.blk = Nil
    /\ x.pc # "prevent" => e = Nil
Tied(x, e) ==
    Idle(x, e) \/ DoesIO(x, e) \/ WaitsForBlocks(x, e) \/ WaitsForFile(x, e) \/ Closes(x, e)
ProcTied(pr, sl) == \A p \in Procs : Tied(pr[p], sl[p])

(* What a cleaner has at each point; no file has two cleaners.             *)
CleanerTied(c) == \A s \in Slots : LET cl == c.cleaner[s] IN
    \/ cl.pc \in {"idle", "getFile", "backendIdle", "exit"} /\ cl.file = Nil /\ cl.blk = Nil /\ cl.status = "ok"
    \/ cl.pc \in {"getBlock", "returnFile"} /\ cl.file \in Files /\ cl.blk = Nil /\ cl.status = "ok"
    \/ cl.pc = "write" /\ cl.file \in Files /\ cl.blk \in Blocks /\ cl.status = "ok"
    \/ cl.pc = "returnBlock" /\ cl.file \in Files /\ cl.blk \in Blocks
OneCleaner(c) == \A s, t \in Slots :
    c.cleaner[s].file = c.cleaner[t].file /\ c.cleaner[s].file # Nil => s = t

(* The key, the flags and the hash entry of a block agree: a deleted block *)
(* waits for its cleaner, and the one being written has one.               *)
BlockTied(c) == \A b \in Blocks : LET x == c.blk[b] IN
    /\ x.key = Nil <=> "FREE" \in x.flags
    /\ x.key = Nil => x.flags = {"FREE"} /\ x.ref = 0
    /\ x.key # Nil => (c.hash[x.key] = b <=> "DELETED" \notin x.flags)
    /\ "DELETED" \in x.flags => Is(c, b, DirtyOrWritten)
    /\ "BEING_WRITTEN" \in x.flags <=> \E s \in Slots : c.cleaner[s].blk = b
HashTied(c) == \A k \in Keys : c.hash[k] # Nil => c.blk[c.hash[k]].key = k
CleanerBlock(c) == \A s \in Slots : c.cleaner[s].blk # Nil =>
    c.blk[c.cleaner[s].blk].key # Nil /\ c.blk[c.cleaner[s].blk].key[1] = c.cleaner[s].file

(* What the lists and counts of the cache are about.                       *)
Of(c, f) == {b \in Blocks : c.blk[b].key # Nil /\ c.blk[b].key[1] = f}
Free(c) == {b \in Blocks : c.blk[b].ref = 0 /\ ~Is(c, b, DirtyOrWritten)}
DirtyOf(c, f) == {b \in Of(c, f) : Is(c, b, DirtyOrWritten)}
ActiveOf(c) == {s \in Slots : c.cleaner[s].pc \notin {"idle", "exit"}}
Listed(c, f) == FileIs(c, f, {"ON_DIRTY_LIST", "BEING_WRITTEN"})
FileTied(c) == \A f \in Files :
    /\ c.file[f].dirtyList = {b \in Of(c, f) : Is(c, b, {"DIRTY"}) /\ ~Is(c, b, {"BEING_WRITTEN"})}
    /\ c.file[f].numDirty > 0 => Listed(c, f)
    /\ FileIs(c, f, {"BEING_WRITTEN"}) <=> \E s \in Slots : c.cleaner[s].file = f
    /\ FileIs(c, f, {"BEING_WRITTEN"}) => ~FileIs(c, f, {"ON_DIRTY_LIST"})
Counts(c) ==
    /\ c.avail = Cardinality(Free(c))
    /\ c.active = Cardinality(ActiveOf(c))
    /\ \A f \in Files : /\ c.file[f].inCache = Cardinality(Of(c, f))
                        /\ c.file[f].numDirty = Cardinality(DirtyOf(c, f))

CacheInv(c) == /\ CleanerTied(c) /\ OneCleaner(c) /\ BlockTied(c) /\ HashTied(c) /\ CleanerBlock(c)
               /\ FileTied(c) /\ Counts(c)

(* The references to a block are the processes that hold it and its        *)
(* cleaner; a held block keeps its key, and a fill its I/O in progress.    *)
Users(pr, b) == {p \in Procs : pr[p].blk = b}
RefCounts(c, pr) == \A b \in Blocks :
    c.blk[b].ref = Cardinality(Users(pr, b)) + One(Is(c, b, {"BEING_WRITTEN"}))
HeldBy(c, x) ==
    /\ c.blk[x.blk].key = x.key
    /\ c.hash[x.key] = x.blk
    /\ x.pc = "fill" => c.blk[x.blk].flags = {"IO_IN_PROGRESS"}
    /\ x.op = "write" => Is(c, x.blk, {"IO_IN_PROGRESS"})
Held(c, pr) == \A p \in Procs : pr[p].blk # Nil => HeldBy(c, pr[p])
IOHeld(c, pr) == \A b \in Blocks : Is(c, b, {"IO_IN_PROGRESS"}) =>
    /\ ~Is(c, b, {"BEING_WRITTEN"})
    /\ \E p \in Procs : pr[p].blk = b /\ \A q \in Procs : pr[q].blk = b => q = p
HoldInv(c, pr) == RefCounts(c, pr) /\ Held(c, pr) /\ IOHeld(c, pr)

(* Nobody sleeps for what is already true.                                 *)
SleepsWell(c, x, e) ==
    /\ \A b \in Blocks : e = IODone(b) => c.blk[b].ref > 0 \/ Is(c, b, {"BEING_WRITTEN"})
    /\ \A f \in Files : e = NoDirtyBlocks(f) => FileIs(c, f, {"ON_DIRTY_LIST", "BEING_WRITTEN"})
    /\ e = CleanBlock => c.avail <= MinAvail
    /\ e = CloseCondition => {"CLOSE_IN_PROGRESS", "BEING_WRITTEN"} \subseteq c.file[x.file].flags
Sleepers(c, pr, sl) == \A p \in Procs : SleepsWell(c, pr[p], sl[p])

----------------------------------------------------------------------------
(* Folds over the subsets of a finite set, with which FoldSet is defined.  *)

(* The element CHOOSE picks.                                               *)
Ch(s) == CHOOSE x \in s : TRUE
(* h folds F over the subsets of D, as MapThenFoldSet does.                *)
Folds(h, F, base, D) ==
    h = [s \in D |-> IF s = {} THEN base ELSE F[<<Ch(s), h[s \ {Ch(s)}]>>]]

(* The same for subsets of at most n elements.                             *)
FoldsUpTo(h, F, base, S, n) == Folds(h, F, base, {t \in SUBSET S : Cardinality(t) <= n})

(* Such a fold h over the subsets of S, element by element, with values in *)
(* T.                                                                      *)
Made(h, F, c, S, T) ==
    /\ h = [s \in SUBSET S |-> h[s]] /\ h[{}] = c
    /\ \A s \in SUBSET S : h[s] \in T
    /\ \A s \in SUBSET S : s # {} => Ch(s) \in s /\ h[s] = F[<<Ch(s), h[s \ {Ch(s)}]>>]

----------------------------------------------------------------------------
(* Steps that start cleaners and change flags of files.                    *)
Same(c, d) == d.blk = c.blk /\ d.hash = c.hash /\ d.avail = c.avail

(* The counts and the dirty list of a file stay.                           *)
FileSame(c, d, f) ==
    /\ d.file[f].numDirty = c.file[f].numDirty /\ d.file[f].inCache = c.file[f].inCache
    /\ d.file[f].dirtyList = c.file[f].dirtyList

(* Cleaners stay where they are, and no file leaves the dirty list.        *)
Lists(c, d, f) ==
    /\ FileIs(d, f, {"BEING_WRITTEN"}) <=> FileIs(c, f, {"BEING_WRITTEN"})
    /\ FileIs(c, f, {"ON_DIRTY_LIST"}) => FileIs(d, f, {"ON_DIRTY_LIST"})
    /\ FileIs(c, f, {"BEING_WRITTEN"}) /\ FileIs(d, f, {"ON_DIRTY_LIST"}) => FileIs(c, f, {"ON_DIRTY_LIST"})

(* The flags that operations set and reset.                                *)
SameUsage(c, d, f) ==
    /\ FileIs(d, f, {"CLOSE_IN_PROGRESS"}) <=> FileIs(c, f, {"CLOSE_IN_PROGRESS"})
    /\ FileIs(d, f, {"NOT_CACHEABLE"}) <=> FileIs(c, f, {"NOT_CACHEABLE"})

(* Idle cleaners may be started, and are counted.                          *)
Starts(c, d) ==
    /\ \A s \in Slots : \/ d.cleaner[s] = c.cleaner[s]
                        \/ /\ c.cleaner[s].pc = "idle"
                           /\ d.cleaner[s] = [c.cleaner[s] EXCEPT !.pc = "getFile"]
    /\ c.active = Cardinality(ActiveOf(c)) => d.active = Cardinality(ActiveOf(d))

(* A step that starts cleaners, sets flags, and ends nobody's wait.        *)
Quiet(c, d) == /\ d \in CacheT /\ Same(c, d) /\ Starts(c, d) /\ d.wake = c.wake
               /\ \A f \in Files : FileSame(c, d, f) /\ Lists(c, d, f)

(* The flags of a file are set.                                            *)
SetFlags(c, f, F) == [c EXCEPT !.file[f].flags = F]

(* What flags a step leaves alone.                                         *)
Keeps(c, d, flags) == \A f \in Files : d.file[f].flags \cap flags = c.file[f].flags \cap flags

(* What ForgetErrors does to a file without blocks.                        *)
ClearErrors(c, f) == [c EXCEPT !.file[f].flags = @ \ Errors]

(* The same for the files of S (FsrmtFinishFileReopen).                    *)
ForgetAll(c, S) == FoldSet(LAMBDA f, d : [d EXCEPT !.file[f].flags = @ \ Errors], c, S)

(* Fsutil_SyncProc asks for the write-back of file f.                      *)
SyncFile(c, f) == StartBackendWriteback([c EXCEPT !.file[f].flags = @ \ Errors], BackendOf(f))

(* The same for the files of S.                                            *)
SyncFiles(c, S) == FoldSet(LAMBDA f, d : StartBackendWriteback(
                          [d EXCEPT !.file[f].flags = @ \ Errors], BackendOf(f)), c, S)

----------------------------------------------------------------------------
(* Steps that change one block.                                            *)

(* The counts of the cache, block by block: can be had,                    *)
IsFree(x) == x.ref = 0 /\ x.flags \cap DirtyOrWritten = {}

(* belongs to file f,                                                      *)
IsOf(x, f) == x.key # Nil /\ x.key[1] = f

(* counts as dirty for f,                                                  *)
IsDirty(x, f) == IsOf(x, f) /\ x.flags \cap DirtyOrWritten # {}

(* is on the dirty list of f.                                              *)
IsListed(x, f) == IsOf(x, f) /\ "DIRTY" \in x.flags /\ "BEING_WRITTEN" \notin x.flags

(* The counts and lists change by what block b counts.                     *)
Delta(c, d, b) ==
    /\ \A a \in Blocks \ {b} : d.blk[a] = c.blk[a]
    /\ d.avail = c.avail + One(IsFree(d.blk[b])) - One(IsFree(c.blk[b]))
    /\ \A f \in Files :
          /\ d.file[f].inCache = c.file[f].inCache + One(IsOf(d.blk[b], f)) - One(IsOf(c.blk[b], f))
          /\ d.file[f].numDirty = c.file[f].numDirty + One(IsDirty(d.blk[b], f)) - One(IsDirty(c.blk[b], f))
          /\ d.file[f].dirtyList \ {b} = c.file[f].dirtyList \ {b}
          /\ b \in d.file[f].dirtyList <=> IsListed(d.blk[b], f)

(* Only the hash entries of block b change.                                *)
HashStep(c, d, b) == \A k \in Keys :
    /\ \/ d.hash[k] = c.hash[k]
       \/ c.hash[k] = b /\ d.hash[k] = Nil
       \/ k = d.blk[b].key /\ d.hash[k] = b /\ c.hash[k] \in {Nil, b}
    /\ d.hash[k] = b => d.blk[b].key = k

(* What BlockTied says of block b, but for the cleaners.                   *)
BlockOK(d, b) == LET x == d.blk[b] IN
    /\ x.key = Nil <=> "FREE" \in x.flags
    /\ x.key = Nil => x.flags = {"FREE"} /\ x.ref = 0
    /\ x.key # Nil => (d.hash[x.key] = b <=> "DELETED" \notin x.flags)
    /\ "DELETED" \in x.flags => x.flags \cap DirtyOrWritten # {}

(* A file that leaves the lists has no dirty blocks; one that gets some is *)
(* listed.                                                                 *)
ListStep(c, d) == \A f \in Files :
    /\ Listed(c, f) /\ ~Listed(d, f) => d.file[f].numDirty <= 0
    /\ d.file[f].numDirty > c.file[f].numDirty => Listed(d, f)

(* What CacheInv says of cleaners.                                         *)
CleanersOK(d) ==
    /\ CleanerTied(d) /\ OneCleaner(d) /\ CleanerBlock(d)
    /\ \A b \in Blocks : "BEING_WRITTEN" \in d.blk[b].flags <=> \E s \in Slots : d.cleaner[s].blk = b
    /\ \A f \in Files : /\ FileIs(d, f, {"BEING_WRITTEN"}) <=> \E s \in Slots : d.cleaner[s].file = f
                        /\ FileIs(d, f, {"BEING_WRITTEN"}) => ~FileIs(d, f, {"ON_DIRTY_LIST"})
    /\ d.active = Cardinality(ActiveOf(d))

----------------------------------------------------------------------------
(* Whoever waits for what happens is woken.                                *)

(* Somebody may wait for the block.                                        *)
Used(x) == x.ref > 0 \/ "BEING_WRITTEN" \in x.flags

(* Whoever waits for what the step makes true is woken.                    *)
Heard(c, d) ==
    /\ c.wake \subseteq d.wake
    /\ \A b \in Blocks : Used(c.blk[b]) /\ ~Used(d.blk[b]) => IODone(b) \in d.wake
    /\ \A f \in Files : Listed(c, f) /\ ~Listed(d, f) => NoDirtyBlocks(f) \in d.wake
    /\ c.avail < d.avail => CleanBlock \in d.wake

----------------------------------------------------------------------------
(* Steps on a block and its file. Block x becomes y and file record w      *)
(* becomes z, of the file f of both.                                       *)
Recount(x, y, w, z, f, b) ==
    /\ x.key = Nil \/ x.key[1] = f
    /\ y.key = Nil \/ y.key[1] = f
    /\ z.inCache = w.inCache + One(y.key # Nil) - One(x.key # Nil)
    /\ z.numDirty = w.numDirty + One(y.key # Nil /\ y.flags \cap DirtyOrWritten # {})
                               - One(x.key # Nil /\ x.flags \cap DirtyOrWritten # {})
    /\ z.dirtyList \ {b} = w.dirtyList \ {b}
    /\ b \in z.dirtyList <=> y.key # Nil /\ "DIRTY" \in y.flags /\ "BEING_WRITTEN" \notin y.flags

(* ListStep for one file record.                                           *)
Relist(w, z) ==
    /\ w.flags \cap {"ON_DIRTY_LIST", "BEING_WRITTEN"} # {}
         /\ z.flags \cap {"ON_DIRTY_LIST", "BEING_WRITTEN"} = {} => z.numDirty <= 0
    /\ z.numDirty > w.numDirty => z.flags \cap {"ON_DIRTY_LIST", "BEING_WRITTEN"} # {}

(* Only block b and file f change.                                         *)
OneFile(c, d, b, f) ==
    /\ \A a \in Blocks \ {b} : d.blk[a] = c.blk[a]
    /\ \A g \in Files \ {f} : d.file[g] = c.file[g]

----------------------------------------------------------------------------
(* Unlocking a block.                                                      *)

(* A block is replaced.                                                    *)
SetBlock(c, b, y) == [c EXCEPT !.blk[b] = y]

(* The number of available blocks is set.                                  *)
SetAvail(c, n) == [c EXCEPT !.avail = n]

(* What a step on block b leaves alone besides the files.                  *)
Around(c, d, b) ==
    /\ \A a \in Blocks \ {b} : d.blk[a] = c.blk[a]
    /\ d.hash = c.hash /\ d.cleaner = c.cleaner /\ d.active = c.active

(* The block becomes available when its last user leaves it clean.         *)
Unref(c, b) == MakeAvailable([c EXCEPT !.blk[b].ref = @ - 1], b)

----------------------------------------------------------------------------
(* Elementary changes of a cache, one field at a time.                     *)
SetFile(c, f, z) == [c EXCEPT !.file[f] = z]
SetHash(c, k, h) == [c EXCEPT !.hash[k] = h]
SetBlkFlags(c, b, v) == [c EXCEPT !.blk[b].flags = v]
SetRef(c, b, v) == [c EXCEPT !.blk[b].ref = v]
SetKey(c, b, v) == [c EXCEPT !.blk[b].key = v]
SetNumDirty(c, f, v) == [c EXCEPT !.file[f].numDirty = v]
SetInCache(c, f, v) == [c EXCEPT !.file[f].inCache = v]
SetDirtyList(c, f, v) == [c EXCEPT !.file[f].dirtyList = v]
SetFileFlags(c, f, v) == [c EXCEPT !.file[f].flags = v]

(* What putting a file, or a block and its file, on the dirty lists does.  *)
FilePut(c, d, f) ==
    /\ d \in CacheT /\ d.blk = c.blk /\ d.hash = c.hash /\ d.avail = c.avail
    /\ d.active = c.active /\ d.cleaner = c.cleaner /\ d.wake = c.wake
    /\ \A g \in Files \ {f} : d.file[g] = c.file[g]
    /\ FileSame(c, d, f) /\ Listed(d, f)
    /\ "BEING_WRITTEN" \in d.file[f].flags <=> "BEING_WRITTEN" \in c.file[f].flags
    /\ "BEING_WRITTEN" \in c.file[f].flags /\ "ON_DIRTY_LIST" \in d.file[f].flags
          => "ON_DIRTY_LIST" \in c.file[f].flags
    /\ Keeps(c, d, FileFlags \ {"ON_DIRTY_LIST", "OLD"})

(* The same for block b of file f.                                         *)
BlockPut(c, d, b, f) ==
    /\ d \in CacheT /\ d.hash = c.hash /\ d.avail = c.avail
    /\ \A a \in Blocks \ {b} : d.blk[a] = c.blk[a]
    /\ d.blk[b].key = c.blk[b].key /\ d.blk[b].ref = c.blk[b].ref
    /\ d.blk[b].flags = c.blk[b].flags \cup {"DIRTY"}
    /\ d.active = c.active /\ d.cleaner = c.cleaner /\ d.wake = c.wake
    /\ \A g \in Files \ {f} : d.file[g] = c.file[g]
    /\ d.file[f].numDirty = c.file[f].numDirty /\ d.file[f].inCache = c.file[f].inCache
    /\ d.file[f].dirtyList = c.file[f].dirtyList \cup {b}
    /\ Listed(d, f)
    /\ "BEING_WRITTEN" \in d.file[f].flags <=> "BEING_WRITTEN" \in c.file[f].flags
    /\ "BEING_WRITTEN" \in c.file[f].flags /\ "ON_DIRTY_LIST" \in d.file[f].flags
          => "ON_DIRTY_LIST" \in c.file[f].flags
    /\ Keeps(c, d, FileFlags \ {"ON_DIRTY_LIST", "OLD"})

(* What MarkDirty does.                                                    *)
MarkDone(c, d, b) ==
    /\ d \in CacheT /\ CacheInv(d) /\ Heard(c, d) /\ Around(c, d, b)
    /\ d.avail = c.avail /\ d.wake = c.wake
    /\ d.blk[b].key = c.blk[b].key /\ d.blk[b].ref = c.blk[b].ref
    /\ d.blk[b].flags = c.blk[b].flags \cup {"DIRTY"}
    /\ Keeps(c, d, FileFlags \ {"ON_DIRTY_LIST", "OLD"})

(* What EndIO does.                                                        *)
EndIODone(c, d, b) ==
    /\ d \in CacheT /\ CacheInv(d) /\ Heard(c, d) /\ Around(c, d, b)
    /\ d.file = c.file /\ d.avail = c.avail
    /\ d.blk[b].key = c.blk[b].key /\ d.blk[b].ref = c.blk[b].ref
    /\ d.blk[b].flags = c.blk[b].flags \ {"IO_IN_PROGRESS"}

(* What Unref does.                                                        *)
UnrefDone(c, d, b) ==
    /\ d \in CacheT /\ CacheInv(d) /\ Around(c, d, b) /\ d.file = c.file
    /\ d.blk[b].key = c.blk[b].key /\ d.blk[b].ref = c.blk[b].ref - 1
    /\ d.blk[b].flags = c.blk[b].flags
    /\ c.wake \subseteq d.wake
    /\ d.avail # c.avail => CleanBlock \in d.wake

----------------------------------------------------------------------------
(* Fscache_UnlockBlock.                                                    *)
UnlockDone(c, d, b, dirty) ==
    /\ d \in CacheT /\ CacheInv(d) /\ Heard(c, d) /\ Starts(c, d)
    /\ \A a \in Blocks \ {b} : d.blk[a] = c.blk[a]
    /\ d.hash = c.hash
    /\ d.blk[b].key = c.blk[b].key /\ d.blk[b].ref = c.blk[b].ref - 1
    /\ "IO_IN_PROGRESS" \notin d.blk[b].flags
    /\ "BEING_WRITTEN" \in d.blk[b].flags <=> "BEING_WRITTEN" \in c.blk[b].flags
    /\ "DELETED" \in d.blk[b].flags <=> "DELETED" \in c.blk[b].flags
    /\ "DIRTY" \in d.blk[b].flags <=> "DIRTY" \in c.blk[b].flags \/ dirty
    /\ Keeps(c, d, FileFlags \ {"ON_DIRTY_LIST", "OLD"})
    /\ ~dirty => d.file = c.file

(* Everything but the last steps.                                          *)
LastUnref(e, b) ==
    IF e.blk[b].ref > 1 THEN Unref(e, b) ELSE Unref(Broadcast(e, IODone(b)), b)

----------------------------------------------------------------------------
(* Fscache_FetchBlock finds a block, or takes one that is free.            *)
TakeDone(c, d, b, io) ==
    /\ d \in CacheT /\ CacheInv(d) /\ Heard(c, d) /\ Around(c, d, b) /\ d.file = c.file
    /\ d.blk[b].key = c.blk[b].key /\ d.blk[b].ref = c.blk[b].ref + 1
    /\ d.blk[b].flags = c.blk[b].flags \cup (IF io THEN {"IO_IN_PROGRESS"} ELSE {})
    /\ d.wake = c.wake

(* What NewBlock does.                                                     *)
NewDone(c, d, b, k) ==
    /\ d \in CacheT /\ CacheInv(d) /\ Heard(c, d)
    /\ \A a \in Blocks \ {b} : d.blk[a] = c.blk[a]
    /\ d.blk[b].key = k /\ d.blk[b].ref = 1 /\ d.blk[b].flags = {"IO_IN_PROGRESS"}
    /\ d.hash[k] = b /\ \A j \in Keys \ {k} : d.hash[j] = c.hash[j]
    /\ d.cleaner = c.cleaner /\ d.active = c.active /\ d.wake = c.wake
    /\ Keeps(c, d, FileFlags)
    /\ \A f \in Files : d.file[f].dirtyList = c.file[f].dirtyList

----------------------------------------------------------------------------
(* Blocks leave the cache. What can be taken out of the cache.             *)
Droppable(c, b) ==
    c.blk[b].key # Nil /\ c.blk[b].ref = 0 /\ "DELETED" \notin c.blk[b].flags

(* The block is on the free list.                                          *)
Emptied(c, b) == [c EXCEPT !.blk[b].flags = {"FREE"}, !.blk[b].key = Nil]

(* What this changes.                                                      *)
EmptyDone(c, d, b) ==
    /\ d \in CacheT /\ \A a \in Blocks \ {b} : d.blk[a] = c.blk[a]
    /\ d.blk[b].key = Nil /\ d.blk[b].flags = {"FREE"} /\ d.blk[b].ref = c.blk[b].ref
    /\ d.hash = c.hash /\ d.file = c.file /\ d.avail = c.avail
    /\ d.active = c.active /\ d.cleaner = c.cleaner /\ d.wake = c.wake

(* What DeleteBlock changes.                                               *)
DeleteDone(c, d, b, f) ==
    /\ d \in CacheT /\ d.blk = c.blk
    /\ d.hash[c.blk[b].key] = Nil /\ \A k \in Keys \ {c.blk[b].key} : d.hash[k] = c.hash[k]
    /\ \A g \in Files \ {f} : d.file[g] = c.file[g]
    /\ d.file[f].inCache = c.file[f].inCache - 1 /\ d.file[f].numDirty = c.file[f].numDirty
    /\ d.file[f].dirtyList = c.file[f].dirtyList /\ d.file[f].flags = c.file[f].flags
    /\ d.avail = c.avail /\ d.active = c.active /\ d.cleaner = c.cleaner /\ d.wake = c.wake

(* A block nobody uses is taken out of the cache: what is left.            *)
Freed(c, b) == Emptied(DeleteBlock(c, b), b)

(* What Freed does.                                                        *)
FreeDone(c, d, b) ==
    /\ d \in CacheT /\ CacheInv(d)
    /\ \A a \in Blocks \ {b} : d.blk[a] = c.blk[a]
    /\ d.blk[b].key = Nil /\ d.blk[b].flags = {"FREE"} /\ d.blk[b].ref = 0
    /\ d.hash[c.blk[b].key] = Nil /\ \A k \in Keys \ {c.blk[b].key} : d.hash[k] = c.hash[k]
    /\ \A f \in Files : d.file[f].dirtyList = c.file[f].dirtyList /\ d.file[f].flags = c.file[f].flags
    /\ d.avail = c.avail /\ d.active = c.active /\ d.cleaner = c.cleaner /\ d.wake = c.wake

(* A set of blocks has been dropped.                                       *)
Dropped(c, d, s) ==
    /\ d \in CacheT /\ CacheInv(d) /\ Heard(c, d) /\ d.cleaner = c.cleaner /\ d.active = c.active
    /\ \A a \in Blocks \ s : d.blk[a] = c.blk[a]
    /\ \A a \in s :
          /\ d.blk[a].ref = c.blk[a].ref
          /\ c.blk[a].flags \cap DirtyOrWritten = {} => d.blk[a].key = Nil
          /\ c.blk[a].flags \cap DirtyOrWritten # {} =>
                d.blk[a].key = c.blk[a].key /\ d.blk[a].flags = c.blk[a].flags \cup {"DELETED"}
    /\ \A k \in Keys : d.hash[k] = IF c.hash[k] \in s THEN Nil ELSE c.hash[k]
    /\ \A f \in Files : d.file[f].dirtyList = c.file[f].dirtyList /\ d.file[f].flags = c.file[f].flags
    /\ d.avail = c.avail

(* What Drop does to one block.                                            *)
DropOne(d, b) == IF Is(d, b, DirtyOrWritten) THEN DropWhenWritten(d, b) ELSE DropNow(d, b)

----------------------------------------------------------------------------
(* CacheFileInvalidate.                                                    *)

(* What CacheFileInvalidate takes out of the cache.                        *)
Purgeable(c, b) == Droppable(c, b) /\ "BEING_WRITTEN" \notin c.blk[b].flags

(* What CacheFileInvalidate does to the blocks of S.                       *)
InvalidateAll(c, S) == FoldSet(LAMBDA b, e : InvalidateBlock(e, b), c, S)

(* A set of blocks has been invalidated.                                   *)
Invalidated(c, d, s) ==
    /\ d \in CacheT /\ CacheInv(d) /\ Heard(c, d) /\ d.cleaner = c.cleaner /\ d.active = c.active
    /\ \A a \in Blocks \ s : d.blk[a] = c.blk[a]
    /\ \A a \in s : d.blk[a].key = Nil
    /\ \A k \in Keys : d.hash[k] = IF c.hash[k] \in s THEN Nil ELSE c.hash[k]
    /\ Keeps(c, d, FileFlags \ {"ON_DIRTY_LIST", "FSYNC"})
    /\ \A f \in Files : d.file[f].dirtyList \subseteq c.file[f].dirtyList

(* What DeleteBlockFromDirtyList does.                                     *)
UnlistDone(c, d, b, f) ==
    /\ d \in CacheT /\ d.blk = c.blk /\ d.hash = c.hash /\ d.avail = c.avail
    /\ d.active = c.active /\ d.cleaner = c.cleaner /\ c.wake \subseteq d.wake
    /\ \A g \in Files \ {f} : d.file[g] = c.file[g]
    /\ d.file[f].numDirty = c.file[f].numDirty /\ d.file[f].inCache = c.file[f].inCache
    /\ d.file[f].dirtyList = c.file[f].dirtyList \ {b}
    /\ \/ d.file[f].flags = c.file[f].flags
       \/ /\ d.file[f].flags = c.file[f].flags \ {"ON_DIRTY_LIST", "FSYNC"}
          /\ d.file[f].numDirty = 0 /\ NoDirtyBlocks(f) \in d.wake

----------------------------------------------------------------------------
(* Steps of the cleaners. The blocks keep what counts.                     *)

(* Caches whose blocks differ in who waits for a cleaner only.             *)
Similar(c, d) ==
    /\ d.hash = c.hash /\ d.avail = c.avail
    /\ \A b \in Blocks :
          /\ d.blk[b].key = c.blk[b].key /\ d.blk[b].ref = c.blk[b].ref
          /\ d.blk[b].flags \cap {"FREE", "DIRTY", "BEING_WRITTEN", "DELETED", "IO_IN_PROGRESS"}
               = c.blk[b].flags \cap {"FREE", "DIRTY", "BEING_WRITTEN", "DELETED", "IO_IN_PROGRESS"}
          /\ c.blk[b].key = Nil => d.blk[b].flags = c.blk[b].flags

(* What a cleaner is doing.                                                *)

(* The cleaner is counted.                                                 *)
ActivePc(x) == x.pc \notin {"idle", "exit"}

(* What CleanerTied says of a cleaner.                                     *)
CleanerIs(x) ==
    \/ x.pc \in {"idle", "getFile", "backendIdle", "exit"} /\ x.file = Nil /\ x.blk = Nil /\ x.status = "ok"
    \/ x.pc \in {"getBlock", "returnFile"} /\ x.file \in Files /\ x.blk = Nil /\ x.status = "ok"
    \/ x.pc = "write" /\ x.file \in Files /\ x.blk \in Blocks /\ x.status = "ok"
    \/ x.pc = "returnBlock" /\ x.file \in Files /\ x.blk \in Blocks

(* Cleaner s goes on, and the flags of files and blocks follow.            *)
CleanerMoves(c, d, s) ==
    LET x == c.cleaner[s]
        y == d.cleaner[s]
    IN  /\ \A t \in Slots \ {s} : d.cleaner[t] = c.cleaner[t]
        /\ CleanerIs(y)
        /\ y.file # Nil => y.file = x.file \/ "BEING_WRITTEN" \notin c.file[y.file].flags
        /\ \A g \in Files :
              /\ "BEING_WRITTEN" \in d.file[g].flags
                    <=> g = y.file \/ ("BEING_WRITTEN" \in c.file[g].flags /\ g # x.file)
              /\ "BEING_WRITTEN" \in d.file[g].flags => "ON_DIRTY_LIST" \notin d.file[g].flags
        /\ \A b \in Blocks :
              /\ "BEING_WRITTEN" \in d.blk[b].flags
                    <=> b = y.blk \/ ("BEING_WRITTEN" \in c.blk[b].flags /\ b # x.blk)
              /\ "BEING_WRITTEN" \in d.blk[b].flags => d.blk[b].key = c.blk[b].key
        /\ y.blk # Nil => c.blk[y.blk].key # Nil /\ c.blk[y.blk].key[1] = y.file
        /\ d.active = c.active + One(ActivePc(y)) - One(ActivePc(x))

(* A cleaner is replaced.                                                  *)
SetCleaner(c, s, x) == [c EXCEPT !.cleaner[s] = x]

(* The blocks of M are marked CLEANER_WAITING.                             *)
Marked(c, M) ==
    [c EXCEPT !.blk = [b \in Blocks |->
        IF b \in M THEN [c.blk[b] EXCEPT !.flags = @ \cup {"CLEANER_WAITING"}] ELSE c.blk[b]]]

(* What this changes.                                                      *)
MarkedDone(c, d, M) ==
    /\ d \in CacheT
    /\ \A b \in Blocks :
          /\ d.blk[b].key = c.blk[b].key /\ d.blk[b].ref = c.blk[b].ref
          /\ d.blk[b].flags = c.blk[b].flags \cup (IF b \in M THEN {"CLEANER_WAITING"} ELSE {})
    /\ d.hash = c.hash /\ d.file = c.file /\ d.avail = c.avail
    /\ d.active = c.active /\ d.cleaner = c.cleaner /\ d.wake = c.wake

----------------------------------------------------------------------------
(* What the steps of cleaners leave to processes that hold blocks.         *)

(* The references of processes to a block.                                 *)
Own(x) == x.ref - One("BEING_WRITTEN" \in x.flags)

(* What processes hold stays as it is.                                     *)
Holds(c, d) == \A b \in Blocks :
    /\ Own(d.blk[b]) = Own(c.blk[b])
    /\ "IO_IN_PROGRESS" \in d.blk[b].flags =>
          "IO_IN_PROGRESS" \in c.blk[b].flags
          /\ ("BEING_WRITTEN" \in d.blk[b].flags => "BEING_WRITTEN" \in c.blk[b].flags)
    /\ Own(c.blk[b]) # 0 =>
          /\ d.blk[b].key = c.blk[b].key
          /\ \A k \in Keys : c.hash[k] = b => d.hash[k] = b
          /\ c.blk[b].flags = {"IO_IN_PROGRESS"} => d.blk[b].flags = {"IO_IN_PROGRESS"}
          /\ "IO_IN_PROGRESS" \in c.blk[b].flags => "IO_IN_PROGRESS" \in d.blk[b].flags

(* Who closes a file is told that the cleaner has left it.                 *)
CloseHeard(c, d) == \A f \in Files :
    "CLOSE_IN_PROGRESS" \in c.file[f].flags
      /\ "BEING_WRITTEN" \in c.file[f].flags /\ "BEING_WRITTEN" \notin d.file[f].flags
       => CloseCondition \in d.wake

(* The flags of a file that say how it may be used.                        *)
Usage == {"CLOSE_IN_PROGRESS", "NOT_CACHEABLE"}

(* What a step of a cleaner guarantees.                                    *)
CleanDone(c, d) ==
    /\ d \in CacheT /\ CacheInv(d) /\ Heard(c, d) /\ Holds(c, d) /\ CloseHeard(c, d)
    /\ Keeps(c, d, Usage)

----------------------------------------------------------------------------
(* Steps of cleaner s that leave the blocks as they are.                   *)
StayDone(c, d, s, y) ==
    /\ CleanDone(c, d) /\ Similar(c, d) /\ \A f \in Files : FileSame(c, d, f)
    /\ d.cleaner[s] = y /\ \A t \in Slots \ {s} : d.cleaner[t] = c.cleaner[t]

(* The file a cleaner takes.                                               *)
Taken(c, f) == SetFileFlags(c, f, (c.file[f].flags \cup {"BEING_WRITTEN"}) \ {"ON_DIRTY_LIST"})

(* The file of a cleaner that is done with it.                             *)
Left(c, f) ==
    LET x == [c EXCEPT !.file[f].flags = @ \ {"BEING_WRITTEN"}]
        d == IF x.file[f].numDirty = 0
             THEN Broadcast([x EXCEPT !.file[f].flags = @ \ {"FSYNC"}], NoDirtyBlocks(f))
             ELSE PutFileOnDirtyList(x, f, FALSE)
    IN  IF FileIs(x, f, {"CLOSE_IN_PROGRESS"}) THEN Broadcast(d, CloseCondition) ELSE d

(* What this changes.                                                      *)
LeftDone(c, d, f) ==
    /\ d \in CacheT /\ d.blk = c.blk /\ d.hash = c.hash /\ d.avail = c.avail
    /\ d.active = c.active /\ d.cleaner = c.cleaner /\ c.wake \subseteq d.wake
    /\ \A g \in Files \ {f} : d.file[g] = c.file[g]
    /\ FileSame(c, d, f)
    /\ "BEING_WRITTEN" \notin d.file[f].flags
    /\ Listed(d, f) \/ (d.file[f].numDirty = 0 /\ NoDirtyBlocks(f) \in d.wake)
    /\ "CLOSE_IN_PROGRESS" \in c.file[f].flags => CloseCondition \in d.wake
    /\ Keeps(c, d, Usage)

(* The cleaner takes a dirty block to write it.                            *)
Picked(c, b, f) ==
    [c EXCEPT !.file[f].dirtyList = @ \ {b},
              !.blk[b].flags = (@ \ {"DIRTY"}) \cup {"BEING_WRITTEN"}, !.blk[b].ref = @ + 1]

(* What this changes.                                                      *)
PickedDone(c, d, b, f) ==
    /\ d \in CacheT /\ \A a \in Blocks \ {b} : d.blk[a] = c.blk[a]
    /\ d.blk[b].key = c.blk[b].key /\ d.blk[b].ref = c.blk[b].ref + 1
    /\ d.blk[b].flags = (c.blk[b].flags \ {"DIRTY"}) \cup {"BEING_WRITTEN"}
    /\ \A g \in Files \ {f} : d.file[g] = c.file[g]
    /\ d.file[f].numDirty = c.file[f].numDirty /\ d.file[f].inCache = c.file[f].inCache
    /\ d.file[f].flags = c.file[f].flags /\ d.file[f].dirtyList = c.file[f].dirtyList \ {b}
    /\ d.hash = c.hash /\ d.avail = c.avail
    /\ d.active = c.active /\ d.cleaner = c.cleaner /\ d.wake = c.wake

(* What a step that picks a block guarantees.                              *)
PickDone(c, d, s, y, b, f) ==
    /\ CleanDone(c, d) /\ \A a \in Blocks \ {b} : d.blk[a] = c.blk[a]
    /\ d.blk[b].key = c.blk[b].key
    /\ d.blk[b].flags = (c.blk[b].flags \ {"DIRTY"}) \cup {"BEING_WRITTEN"}
    /\ d.hash = c.hash
    /\ \A g \in Files \ {f} : d.file[g] = c.file[g]
    /\ d.file[f].dirtyList = c.file[f].dirtyList \ {b}
    /\ d.cleaner[s] = y /\ \A t \in Slots \ {s} : d.cleaner[t] = c.cleaner[t]

(* A cleaner returns its block; what becomes of the block, its file and    *)
(* the counts is given.                                                    *)
ReturnOK(c, e, b, f) ==
    /\ e \in CacheT /\ OneFile(c, e, b, f) /\ e.cleaner = c.cleaner /\ e.active = c.active
    /\ c.wake \subseteq e.wake /\ IODone(b) \in e.wake
    /\ "BEING_WRITTEN" \notin e.blk[b].flags
    /\ "BEING_WRITTEN" \in e.file[f].flags /\ "ON_DIRTY_LIST" \notin e.file[f].flags
    /\ e.file[f].flags \cap Usage = c.file[f].flags \cap Usage
    /\ Recount(c.blk[b], e.blk[b], c.file[f], e.file[f], f, b)
    /\ e.avail = c.avail + One(IsFree(e.blk[b])) - One(IsFree(c.blk[b]))
    /\ Relist(c.file[f], e.file[f]) /\ HashStep(c, e, b) /\ BlockOK(e, b)
    /\ c.avail < e.avail => CleanBlock \in e.wake
    /\ Own(e.blk[b]) = Own(c.blk[b])
    /\ "IO_IN_PROGRESS" \in e.blk[b].flags => "IO_IN_PROGRESS" \in c.blk[b].flags
    /\ Own(c.blk[b]) # 0 =>
          /\ e.blk[b].key = c.blk[b].key /\ e.hash = c.hash
          /\ "IO_IN_PROGRESS" \in c.blk[b].flags => "IO_IN_PROGRESS" \in e.blk[b].flags

----------------------------------------------------------------------------
(* What the end of a write (Written) changes.                              *)
WrittenDone(c, d, b) ==
    /\ d \in CacheT /\ \A a \in Blocks \ {b} : d.blk[a] = c.blk[a]
    /\ d.blk[b].key = c.blk[b].key /\ d.blk[b].ref = c.blk[b].ref - 1
    /\ d.blk[b].flags = c.blk[b].flags \ {"BEING_WRITTEN"}
    /\ d.hash = c.hash /\ d.file = c.file /\ d.avail = c.avail
    /\ d.active = c.active /\ d.cleaner = c.cleaner /\ d.wake = c.wake \cup {IODone(b)}

(* The block is put on the dirty list again.                               *)
Again(c, b, f, F) == PutBlockOnDirtyList(SetFileFlags(Written(c, b), f, F), b, FALSE)

(* What this changes.                                                      *)
AgainDone(c, e, b, f) ==
    /\ e \in CacheT /\ e.hash = c.hash /\ e.avail = c.avail
    /\ \A a \in Blocks \ {b} : e.blk[a] = c.blk[a]
    /\ e.blk[b].key = c.blk[b].key /\ e.blk[b].ref = c.blk[b].ref - 1
    /\ e.blk[b].flags = (c.blk[b].flags \ {"BEING_WRITTEN"}) \cup {"DIRTY"}
    /\ e.active = c.active /\ e.cleaner = c.cleaner /\ e.wake = c.wake \cup {IODone(b)}
    /\ \A g \in Files \ {f} : e.file[g] = c.file[g]
    /\ e.file[f].numDirty = c.file[f].numDirty /\ e.file[f].inCache = c.file[f].inCache
    /\ e.file[f].dirtyList = c.file[f].dirtyList \cup {b}
    /\ "BEING_WRITTEN" \in e.file[f].flags /\ "ON_DIRTY_LIST" \notin e.file[f].flags
    /\ e.file[f].flags \cap Usage = c.file[f].flags \cap Usage

----------------------------------------------------------------------------
(* The block is clean now; a deleted one is freed.                         *)
CleanedDone(w, e, b, f) ==
    /\ e \in CacheT /\ e.hash = w.hash
    /\ \A a \in Blocks \ {b} : e.blk[a] = w.blk[a]
    /\ e.blk[b].ref = w.blk[b].ref
    /\ IF "DELETED" \in w.blk[b].flags
       THEN e.blk[b].key = Nil /\ e.blk[b].flags = {"FREE"}
       ELSE e.blk[b].key = w.blk[b].key /\ e.blk[b].flags = w.blk[b].flags
    /\ e.avail = w.avail + One(w.blk[b].ref = 0)
    /\ e.active = w.active /\ e.cleaner = w.cleaner /\ w.wake \cup {CleanBlock} \subseteq e.wake
    /\ \A g \in Files \ {f} : e.file[g] = w.file[g]
    /\ e.file[f].numDirty = w.file[f].numDirty - 1
    /\ e.file[f].inCache = w.file[f].inCache - One("DELETED" \in w.blk[b].flags)
    /\ e.file[f].dirtyList = w.file[f].dirtyList
    /\ e.file[f].flags = w.file[f].flags \ Errors

(* The parts of WriteSucceeded: errors are forgotten and the block is      *)
(* available,                                                              *)
CleanStart(w, b, f) ==
    LET d == SetFileFlags(w, f, w.file[f].flags \ Errors)
    IN  IF w.blk[b].ref = 0 THEN SetAvail(d, d.avail + 1) ELSE d

(* and a deleted block is freed.                                           *)
CleanFree(w, e, b, f) ==
    IF Is(w, b, {"DELETED"})
    THEN Broadcast(Emptied(SetInCache(e, f, e.file[f].inCache - 1), b), CleanBlock) ELSE e

(* Fscache_ReturnDirtyBlock puts a block that is dirty again, or could not *)
(* be written, on the dirty list.                                          *)
Returned(w, b, f, st) ==
    IF st = "ok" THEN WriteSucceeded(w, b, f)
    ELSE PutBlockOnDirtyList([w EXCEPT !.file[f].flags = @ \cup {st}], b, FALSE)

(* The block is to be written later.                                       *)
Later(x, b) == PutBlockOnDirtyList(x, b, FALSE)

(* The flags of a file after a failed write.                               *)
Failed(F, st) == F \cup {st}

----------------------------------------------------------------------------
(* What processes hold.                                                    *)

(* The types of the variables.                                             *)
ProcsT == [Procs -> ProcT]

(* The users of a block when a process goes on.                            *)
UsersMove(pr, qr, p, x, b) ==
    Cardinality(Users(qr, b)) = Cardinality(Users(pr, b)) + One(x.blk = b) - One(pr[p].blk = b)

(* A step of a process with one block or none, as far as blocks are held.  *)
HoldMoves(c, d, pr, p, x) == \A b \in Blocks :
    /\ Own(d.blk[b]) = Own(c.blk[b]) + One(x.blk = b) - One(pr[p].blk = b)
    /\ Own(c.blk[b]) # One(pr[p].blk = b) =>
          /\ d.blk[b].key = c.blk[b].key
          /\ \A k \in Keys : c.hash[k] = b => d.hash[k] = b
          /\ c.blk[b].flags = {"IO_IN_PROGRESS"} => d.blk[b].flags = {"IO_IN_PROGRESS"}
          /\ "IO_IN_PROGRESS" \in c.blk[b].flags => "IO_IN_PROGRESS" \in d.blk[b].flags
    /\ "IO_IN_PROGRESS" \in d.blk[b].flags =>
          /\ "BEING_WRITTEN" \notin d.blk[b].flags
          /\ IF x.blk = b THEN Own(d.blk[b]) = 1
             ELSE "IO_IN_PROGRESS" \in c.blk[b].flags /\ pr[p].blk # b

(* At most one process closes a file.                                      *)
ClosePcs == {"prevent", "closeRPC", "allow"}
OneCloser(pr) == \A p, q \in Procs :
    pr[p].pc \in ClosePcs /\ pr[q].pc \in ClosePcs /\ pr[p].file = pr[q].file => p = q

(* Who closes a file has marked it.                                        *)
Marks(c, x) == x.pc \in ClosePcs => "CLOSE_IN_PROGRESS" \in c.file[x.file].flags
NewestT == [Keys -> SUBSET (Blocks \cup {Server})]
AsleepT == [Procs -> Events \cup {Nil}]

(* The inductive invariant, for a cache, processes, sleepers and data.     *)
Core(c, pr, sl, nw) ==
    /\ c \in CacheT /\ c.wake = {} /\ pr \in ProcsT /\ sl \in AsleepT /\ nw \in NewestT
    /\ ProcTied(pr, sl) /\ CacheInv(c) /\ HoldInv(c, pr) /\ Sleepers(c, pr, sl) /\ OneCloser(pr)
    /\ \A p \in Procs : Marks(c, pr[p])

(* The inductive invariant of the specification.                           *)
Inv == /\ Core(cache, proc, asleep, newest)
       /\ srv \in [Files -> [open : BOOLEAN, dirty : BOOLEAN]]
       /\ sync \in {"idle", "asleep", "awake"}
       /\ faults \in 0 .. MaxFaults
       /\ ops \in 0 .. MaxOps

(* The end of a step: nothing is broadcast any more,                       *)
Rest(c) == [c EXCEPT !.wake = {}]

(* the waiters are woken,                                                  *)
WokenFrom(sl, d) == [q \in Procs |-> IF sl[q] \in d.wake THEN Nil ELSE sl[q]]

(* and what freed blocks held is forgotten.                                *)
NewestOf(n, d) == [k \in Keys |-> {y \in n[k] : y = Server \/ d.blk[y].key = k}]

(* Two caches that differ in what was broadcast.                           *)
Alike(c, d) == /\ d.blk = c.blk /\ d.hash = c.hash /\ d.file = c.file /\ d.avail = c.avail
               /\ d.active = c.active /\ d.cleaner = c.cleaner

----------------------------------------------------------------------------
(* The flags that who closes a file waits for.                             *)
WaitFlags == {"CLOSE_IN_PROGRESS", "BEING_WRITTEN"}

(* The step leaves alone the flags of files that other processes close.    *)
CloseKept(c, d, pr, p) == \A q \in Procs \ {p} :
    pr[q].pc \in ClosePcs =>
        WaitFlags \cap c.file[pr[q].file].flags \subseteq d.file[pr[q].file].flags

(* Nobody else closes the file that x closes.                              *)
OnlyCloser(pr, p, x) == x.pc \in ClosePcs =>
    \A q \in Procs \ {p} : pr[q].pc \in ClosePcs => pr[q].file # x.file

(* What a step has to guarantee for the invariant.                         *)
Good(c, pr, p, d, n, x, e) ==
    /\ d \in CacheT /\ CacheInv(d) /\ Heard(c, d) /\ n \in NewestT
    /\ x \in ProcT /\ e \in Events \cup {Nil} /\ Tied(x, e)
    /\ HoldMoves(c, d, pr, p, x) /\ (x.blk # Nil => HeldBy(d, x))
    /\ SleepsWell(d, x, e) /\ CloseKept(c, d, pr, p) /\ OnlyCloser(pr, p, x) /\ Marks(d, x)

(* The process gets a block.                                               *)
Gets(y, pc, b) == [y EXCEPT !.pc = pc, !.blk = b]

(* Blocks of the numbers N that are in use, or in use or being written.    *)
UsedNumbers(c, f, N) == {n \in N : \E b \in InHash(c, f, {n}) : c.blk[b].ref > 0}
BusyNumbers(c, f, N) ==
    {n \in N : \E b \in InHash(c, f, {n}) : c.blk[b].ref > 0 \/ Is(c, b, {"BEING_WRITTEN"})}

(* The first block that is waited for.                                     *)
FirstOf(W) == CHOOSE w \in W : \A v \in W : w <= v

----------------------------------------------------------------------------
(* A step over the blocks of a file by a process that has no block.        *)

(* What a pass over the blocks of a file guarantees.                       *)
PassDone(c, d) ==
    d \in CacheT /\ CacheInv(d) /\ Heard(c, d) /\ Holds(c, d) /\ Keeps(c, d, WaitFlags)

(* Who waits for a block.                                                  *)
Remains(y, W) == [y EXCEPT !.pc = "blocks", !.todo = @ \ Passed(@, W)]

(* The process is in an operation on the blocks of a file.                 *)
Backs(y) ==
    /\ y \in ProcT /\ y.op \in {"fsync", "consist", "trunc"} /\ y.file \in Files /\ y.blk = Nil
    /\ y.todo \subseteq BlocksOf(y.file)

(* The start of an operation on the blocks of a file.                      *)
Starting(op, f, N) == [NoOp EXCEPT !.op = op, !.file = f, !.todo = N]

(* The type of srv.                                                        *)
SrvT == [Files -> [open : BOOLEAN, dirty : BOOLEAN]]

(* Who waits for a write-back.                                             *)
RemainsTo(y, W, v, pc) == [[y EXCEPT !.todo = @ \ Passed(@, W), !.flag = v] EXCEPT !.pc = pc]

(* The write-back has passed a dirty block.                                *)
WriteSync(c, y, S) == y.flag \/ \E b \in S : Is(c, b, DirtyOrWritten)
=============================================================================
