---------------------------- MODULE HandleTable ----------------------------
(* The handle table of a kernel (fsutil/fsutilHandle.c) and its users on a *)
(* workstation: opens and closes of remote files (a stream handle and an   *)
(* I/O handle each), streams shared after a fork, cache consistency calls  *)
(* that use a handle unlocked, and the three walks over the table (the     *)
(* periodic scavenger, ReopenHandles, Fsutil_RemoveClient).                *)
(*                                                                         *)
(* A handle is found by its file ID, locked by one process at a time,      *)
(* counted while it is used, and freed by whoever drops the last reference *)
(* after it has been removed.  Walks and the scan for a handle to replace  *)
(* lock handles without a reference.  An action is one pass through the    *)
(* monitor of the table: other processes run between them.                 *)
EXTENDS Naturals, FiniteSets

CONSTANTS
    Users,        \* processes that open and close files
    Consist,      \* server processes with a cache consistency call
    Walkers,      \* processes that walk the table
    Files,        \* IDs of remote files
    Streams,      \* stream IDs, each in use once at a time
    Handles,      \* memory for handles
    Nil,
    InitialLimit, \* fs_Stats.handle.maxNumber at first
    LimitInc,     \* handleLimitInc
    MaxLimit      \* bound: no scan is given up when the table is this large

Actors == Users \cup Consist \cup Walkers
IDs == Files \cup Streams

ASSUME HandleTableAssumption ==
    /\ Users \cap Consist = {} /\ Users \cap Walkers = {}
    /\ Files \cap Streams = {}
    /\ Nil \notin Actors \cup IDs \cup Handles
    /\ IsFiniteSet(Actors) /\ IsFiniteSet(Handles)
    /\ InitialLimit \in Nat \ {0} /\ LimitInc \in Nat \ {0} /\ MaxLimit \in Nat
    /\ "lruDone" \notin Handles \cup {Nil}

VARIABLES
    table,      \* fileHashTable: the handle of each file ID
    id,         \* hdrPtr->fileID
    flags,      \* hdrPtr->flags without the lock bit; empty when freed
    locker,     \* FS_HANDLE_LOCKED and hdrPtr->lockProcPtr
    ref,        \* hdrPtr->refCount
    use,        \* recovery.use.ref of an I/O handle: open streams
    io,         \* streamPtr->ioHandlePtr of a stream
    exists,     \* fs_Stats.handle.exists
    limbo,      \* fs_Stats.handle.limbo
    maxNumber,  \* fs_Stats.handle.maxNumber
    lru,        \* lruInProgress and lruHandlesChecked
    pc,         \* where each process is
    want,       \* the file ID it is about
    limit,      \* handleLimit, read before HandleInstallInt
    str,        \* its stream
    cur,        \* the handle it was given last
    asleep,     \* what it sleeps on: a handle's unlocked, or lruDone
    overrun     \* history: a handle was removed under another's lock

hdrVars == <<id, flags, locker, ref, use, io>>
tableVars == <<table, exists, limbo, maxNumber, lru>>
procVars == <<pc, want, limit, str, cur, asleep>>
vars == <<hdrVars, tableVars, procVars, overrun>>

Flags == {"INSTALLED", "REMOVED", "INVALID"}

TypeOK ==
    /\ table \in [IDs -> Handles \cup {Nil}]
    /\ id \in [Handles -> IDs \cup {Nil}]
    /\ flags \in [Handles -> SUBSET Flags]
    /\ locker \in [Handles -> Actors \cup {Nil}]
    /\ ref \in [Handles -> Nat] /\ use \in [Handles -> Nat]
    /\ exists \in Nat /\ limbo \in Nat /\ maxNumber \in Nat
    /\ lru \in [busy : BOOLEAN, checked : Nat]
    /\ pc \in [Actors -> {"idle", "fetch", "install", "got", "scan", "scavenge",
                          "doneHit", "doneNone", "open", "copying", "closing",
                          "release", "closeIO", "ioClose", "destroy", "remove",
                          "using", "have"}]
    /\ want \in [Actors -> IDs \cup {Nil}]
    /\ limit \in [Actors -> Nat]
    /\ str \in [Actors -> Handles \cup {Nil}]
    /\ io \in [Handles -> Handles \cup {Nil}]
    /\ cur \in [Actors -> Handles \cup {Nil}]
    /\ asleep \in [Actors -> Handles \cup {Nil, "lruDone"}]
    /\ overrun \in BOOLEAN

Init ==
    /\ table = [i \in IDs |-> Nil]
    /\ id = [h \in Handles |-> Nil]
    /\ flags = [h \in Handles |-> {}]
    /\ locker = [h \in Handles |-> Nil]
    /\ ref = [h \in Handles |-> 0] /\ use = [h \in Handles |-> 0]
    /\ exists = 0 /\ limbo = 0 /\ maxNumber = InitialLimit
    /\ lru = [busy |-> FALSE, checked |-> 0]
    /\ pc = [a \in Actors |-> "idle"]
    /\ want = [a \in Actors |-> Nil]
    /\ limit = [a \in Actors |-> 0]
    /\ str = [a \in Actors |-> Nil]
    /\ io = [h \in Handles |-> Nil]
    /\ cur = [a \in Actors |-> Nil]
    /\ asleep = [a \in Actors |-> Nil]
    /\ overrun = FALSE

Live == {h \in Handles : "INSTALLED" \in flags[h]}
Removed(h) == "REMOVED" \in flags[h]
Invalid(h) == "INVALID" \in flags[h]
Locked(h) == locker[h] # Nil
Goto(a, l) == pc' = [pc EXCEPT ![a] = l]

-----------------------------------------------------------------------------
(* The macros and the routines that change a handle.                       *)

Lock(h, a) == locker' = [locker EXCEPT ![h] = a]
Sleep(a, on) == asleep' = [asleep EXCEPT ![a] = on]
Wake(on) == asleep' = [a \in Actors |-> IF asleep[a] = on THEN Nil ELSE asleep[a]]

(* UNLOCK_HANDLE.                                                          *)
Unlock(h) == locker' = [locker EXCEPT ![h] = Nil] /\ Wake(h)

(* Fsutil_HandleReleaseHdr: the last reference to a removed handle frees   *)
(* it.  That it is locked by the caller when the caller says so, and that  *)
(* the count is not negative, is what the panics there ask: RefsAccounted. *)
Release(h, locked) ==
    LET last == ref[h] = 1 /\ Removed(h) IN
    /\ ref' = [ref EXCEPT ![h] = @ - 1]
    /\ flags' = IF last THEN [flags EXCEPT ![h] = {}] ELSE flags
    /\ id' = IF last THEN [id EXCEPT ![h] = Nil] ELSE id
    /\ limbo' = IF last THEN limbo - 1 ELSE limbo
    /\ locker' = IF locked \/ last THEN [locker EXCEPT ![h] = Nil] ELSE locker
    /\ IF locked /\ ~last THEN Wake(h) ELSE UNCHANGED asleep

(* Mutated form: processes that wait for the lock are not told.            *)
HandleRemoveSilent(h) ==
    /\ table' = IF Invalid(h) THEN table ELSE [table EXCEPT ![id[h]] = Nil]
    /\ exists' = exists - 1
    /\ locker' = [locker EXCEPT ![h] = Nil]
    /\ UNCHANGED asleep
    /\ flags' = [flags EXCEPT ![h] = IF ref[h] > 0 THEN @ \cup {"REMOVED"} ELSE {}]
    /\ id' = IF ref[h] > 0 THEN id ELSE [id EXCEPT ![h] = Nil]
    /\ limbo' = IF ref[h] > 0 THEN limbo + 1 ELSE limbo

(* Mutated form: the handle is freed whatever references there are.        *)
HandleRemoveAnyway(h) ==
    /\ table' = IF Invalid(h) THEN table ELSE [table EXCEPT ![id[h]] = Nil]
    /\ exists' = exists - 1
    /\ Unlock(h)
    /\ flags' = [flags EXCEPT ![h] = {}]
    /\ id' = [id EXCEPT ![h] = Nil]
    /\ UNCHANGED limbo

(* Fsutil_HandleRemoveInt: out of the hash table (an invalid handle is not *)
(* in it any more), unlocked, and freed or, while it has references, in    *)
(* limbo.                                                                  *)
HandleRemove(h) ==
    /\ table' = IF Invalid(h) THEN table ELSE [table EXCEPT ![id[h]] = Nil]
    /\ exists' = exists - 1
    /\ Unlock(h)
    /\ flags' = [flags EXCEPT ![h] = IF ref[h] > 0 THEN @ \cup {"REMOVED"} ELSE {}]
    /\ id' = IF ref[h] > 0 THEN id ELSE [id EXCEPT ![h] = Nil]
    /\ limbo' = IF ref[h] > 0 THEN limbo + 1 ELSE limbo

(* Found in the hash table and not locked: one more reference, locked.     *)
Found(h, a) ==
    /\ Lock(h, a)
    /\ ref' = [ref EXCEPT ![h] = @ + 1]
    /\ cur' = [cur EXCEPT ![a] = h]
    /\ limit' = [limit EXCEPT ![a] = 0]
    /\ Goto(a, "got")

-----------------------------------------------------------------------------
(* Fsutil_HandleInstall by a process that opens a file: fetch, else install *)
(* a new handle, else make room and try again.                             *)

(* Fs_Open has a new stream ID, or a consistency call names a file.        *)
Begin(a) ==
    /\ pc[a] = "idle" /\ a \in Users \cup Consist
    /\ \E i \in IF a \in Users
                THEN {s \in Streams : /\ \A b \in Actors : want[b] # s
                                      /\ \A h \in Live : id[h] # s}
                ELSE Files :
          want' = [want EXCEPT ![a] = i]
    /\ Goto(a, "fetch")
    /\ UNCHANGED <<hdrVars, tableVars, limit, str, cur, asleep>>

(* Fsutil_HandleFetch; a consistency call gives up when there is none.     *)
HandleFetch(a) ==
    LET h == table[want[a]] IN
    /\ pc[a] = "fetch" /\ asleep[a] = Nil
    /\ \/ /\ h = Nil
          /\ Goto(a, IF a \in Users THEN "install" ELSE "idle")
          /\ want' = IF a \in Users THEN want ELSE [want EXCEPT ![a] = Nil]
          /\ limit' = [limit EXCEPT ![a] = IF a \in Users THEN maxNumber ELSE 0]
          /\ UNCHANGED <<locker, ref, cur, asleep>>
       \/ /\ h # Nil /\ Locked(h) /\ Sleep(a, h)
          /\ UNCHANGED <<locker, ref, cur, pc, want, limit>>
       \/ /\ h # Nil /\ ~Locked(h) /\ Found(h, a)
          /\ UNCHANGED <<want, asleep>>
    /\ UNCHANGED <<id, flags, use, io, tableVars, str>>

(* HandleInstallInt, the new handle.                                       *)
Install(a) ==
    LET h == CHOOSE x \in Handles : x \notin Live IN
    /\ Handles \ Live # {}
    /\ table' = [table EXCEPT ![want[a]] = h]
    /\ id' = [id EXCEPT ![h] = want[a]]
    /\ flags' = [flags EXCEPT ![h] = {"INSTALLED"}]
    /\ ref' = [ref EXCEPT ![h] = 1]
    /\ use' = [use EXCEPT ![h] = 0]
    /\ io' = [io EXCEPT ![h] = Nil]
    /\ Lock(h, a)
    /\ exists' = exists + 1
    /\ cur' = [cur EXCEPT ![a] = h]
    /\ limit' = [limit EXCEPT ![a] = 0]
    /\ Goto(a, "got")

TableFull(a) == exists >= limit[a]

HandleInstallInt(a) ==
    LET h == table[want[a]] IN
    /\ pc[a] = "install" /\ asleep[a] = Nil
    /\ \/ /\ h = Nil /\ ~TableFull(a) /\ Install(a)
          /\ UNCHANGED <<lru, asleep>>
       \/ /\ h = Nil /\ TableFull(a) /\ lru.busy /\ Sleep(a, "lruDone")
          /\ UNCHANGED <<hdrVars, table, exists, lru, pc, cur, limit>>
       \/ /\ h = Nil /\ TableFull(a) /\ ~lru.busy
          /\ lru' = [busy |-> TRUE, checked |-> 0]
          /\ limit' = [limit EXCEPT ![a] = 0]
          /\ Goto(a, "scan")
          /\ UNCHANGED <<hdrVars, table, exists, asleep, cur>>
       \/ /\ h # Nil /\ Locked(h) /\ Sleep(a, h)
          /\ UNCHANGED <<hdrVars, table, exists, lru, pc, cur, limit>>
       \/ /\ h # Nil /\ ~Locked(h) /\ Found(h, a)
          /\ UNCHANGED <<id, flags, use, io, table, exists, lru, asleep>>
    /\ UNCHANGED <<limbo, maxNumber, want, str>>

-----------------------------------------------------------------------------
(* LRU replacement.  Handles of streams are not in the LRU list; the order *)
(* of the others is left open, so a scan may come to any of them after     *)
(* passing over some of those that are locked or removed.                  *)

Listed == {h \in Live : id[h] \in Files}
Passed == {h \in Listed : Locked(h) \/ Removed(h)}

GetNextLRUHandle(a) ==
    /\ pc[a] = "scan"
    /\ \/ \E h \in Listed \ Passed : \E k \in 0 .. Cardinality(Passed) :
            /\ lru.checked + k < maxNumber
            /\ lru' = [lru EXCEPT !.checked = @ + k + 1]
            /\ Lock(h, a)
            /\ cur' = [cur EXCEPT ![a] = h]
            /\ Goto(a, "scavenge")
       \/ /\ Listed = Passed \/ lru.checked + Cardinality(Passed) >= maxNumber
          /\ Goto(a, "doneNone")
          /\ UNCHANGED <<lru, locker, cur>>
    /\ UNCHANGED <<id, flags, ref, use, table, exists, limbo, maxNumber,
                   want, limit, str, io, asleep>>

(* FsrmtFileScavenge of the handle: removed if no stream uses it (there    *)
(* may be references all the same), its cache is empty and nobody waits    *)
(* for its recovery; else unlocked.                                        *)
MayScavenge(h) == id[h] \in Files /\ use[h] = 0

LRUScavenge(a) ==
    LET h == cur[a] IN
    /\ pc[a] = "scavenge"
    /\ \/ MayScavenge(h) /\ HandleRemove(h) /\ Goto(a, "doneHit")
       \/ /\ MayScavenge(h) => maxNumber < MaxLimit
          /\ Unlock(h) /\ Goto(a, "scan")
          /\ UNCHANGED <<table, exists, limbo, id, flags>>
    /\ cur' = [cur EXCEPT ![a] = Nil]
    /\ UNCHANGED <<ref, use, maxNumber, lru, want, limit, str, io>>

DoneLRU(a) ==
    /\ pc[a] \in {"doneHit", "doneNone"}
    /\ maxNumber' = IF pc[a] = "doneNone" THEN maxNumber + LimitInc ELSE maxNumber
    /\ lru' = [busy |-> FALSE, checked |-> 0]
    /\ Wake("lruDone")
    /\ Goto(a, "fetch")
    /\ UNCHANGED <<hdrVars, table, exists, limbo, want, limit, str, io, cur>>

-----------------------------------------------------------------------------
(* Fs_Open: the stream is unlocked, then FsrmtFileIoOpen installs the I/O  *)
(* handle, counts the use and unlocks it.                                  *)

OpenStream(a) ==
    /\ pc[a] = "got" /\ want[a] \in Streams
    /\ Unlock(cur[a])
    /\ str' = [str EXCEPT ![a] = cur[a]]
    /\ cur' = [cur EXCEPT ![a] = Nil]
    /\ \E f \in Files : want' = [want EXCEPT ![a] = f]
    /\ Goto(a, "fetch")
    /\ UNCHANGED <<id, flags, ref, use, tableVars, limit, io>>

(* Mutated form: the use is not counted.                                   *)
OpenIOUncounted(a) ==
    /\ pc[a] = "got" /\ want[a] \in Files /\ a \in Users
    /\ Unlock(cur[a])
    /\ io' = [io EXCEPT ![str[a]] = cur[a]]
    /\ cur' = [cur EXCEPT ![a] = Nil]
    /\ want' = [want EXCEPT ![a] = Nil]
    /\ Goto(a, "open")
    /\ UNCHANGED <<id, flags, ref, use, tableVars, limit, str>>

OpenIO(a) ==
    /\ pc[a] = "got" /\ want[a] \in Files /\ a \in Users
    /\ Unlock(cur[a])
    /\ use' = [use EXCEPT ![cur[a]] = @ + 1]
    /\ io' = [io EXCEPT ![str[a]] = cur[a]]
    /\ cur' = [cur EXCEPT ![a] = Nil]
    /\ want' = [want EXCEPT ![a] = Nil]
    /\ Goto(a, "open")
    /\ UNCHANGED <<id, flags, ref, tableVars, limit, str>>

(* Fsio_StreamCopy for the child of a fork: Fsutil_HandleDup locks the     *)
(* stream and adds a reference; then it is unlocked.                       *)
StreamCopy(a, b) ==
    /\ pc[a] = "open" /\ pc[b] = "idle" /\ ~Locked(str[a])
    /\ Lock(str[a], a)
    /\ ref' = [ref EXCEPT ![str[a]] = @ + 1]
    /\ str' = [str EXCEPT ![b] = str[a]]
    /\ pc' = [pc EXCEPT ![a] = "copying", ![b] = "open"]
    /\ UNCHANGED <<id, flags, use, io, tableVars, want, limit, cur, asleep>>

StreamCopied(a) ==
    /\ pc[a] = "copying"
    /\ Unlock(str[a])
    /\ Goto(a, "open")
    /\ UNCHANGED <<id, flags, ref, use, tableVars, want, limit, str, io, cur>>

-----------------------------------------------------------------------------
(* Fs_Close: lock the stream; if it is shared drop the reference, else     *)
(* close the I/O handle under both locks and destroy the stream.           *)

CloseLock(a) ==
    LET h == str[a] IN
    /\ pc[a] \in {"open", "closing"} /\ asleep[a] = Nil
    /\ \/ Locked(h) /\ Sleep(a, h) /\ Goto(a, "closing") /\ UNCHANGED locker
       \/ /\ ~Locked(h) /\ Lock(h, a)
          /\ Goto(a, IF ref[h] > 1 THEN "release" ELSE "closeIO")
          /\ UNCHANGED asleep
    /\ UNCHANGED <<id, flags, ref, use, tableVars, want, limit, str, io, cur>>

CloseShared(a) ==
    /\ pc[a] = "release"
    /\ Release(str[a], TRUE)
    /\ str' = [str EXCEPT ![a] = Nil]
    /\ Goto(a, "idle")
    /\ UNCHANGED <<use, io, table, exists, maxNumber, lru, want, limit, cur>>

CloseLockIO(a) ==
    LET h == io[str[a]] IN
    /\ pc[a] = "closeIO" /\ asleep[a] = Nil
    /\ \/ Locked(h) /\ Sleep(a, h) /\ UNCHANGED <<locker, pc>>
       \/ ~Locked(h) /\ Lock(h, a) /\ Goto(a, "ioClose") /\ UNCHANGED asleep
    /\ UNCHANGED <<id, flags, ref, use, tableVars, want, limit, str, io, cur>>

(* FsrmtFileClose.                                                         *)
CloseIO(a) ==
    /\ pc[a] = "ioClose"
    /\ use' = [use EXCEPT ![io[str[a]]] = @ - 1]
    /\ Release(io[str[a]], TRUE)
    /\ io' = [io EXCEPT ![str[a]] = Nil]
    /\ Goto(a, "destroy")
    /\ UNCHANGED <<table, exists, maxNumber, lru, want, limit, str, cur>>

(* Fsio_StreamDestroy: it releases the reference and the lock ...          *)
StreamDestroy(a) ==
    /\ pc[a] = "destroy"
    /\ Release(str[a], TRUE)
    /\ want' = [want EXCEPT ![a] = id[str[a]]]
    /\ Goto(a, "remove")
    /\ UNCHANGED <<use, table, exists, maxNumber, lru, limit, str, io, cur>>

(* ... and only then removes the handle.  If a walk has locked it since,   *)
(* or has removed it, memory in use is freed, or freed memory is used:     *)
(* what follows is undefined, and the model stops.                         *)
StreamRemove(a) ==
    LET h == str[a]
        intact == h \in Live /\ id[h] = want[a] /\ ~Locked(h)
    IN
    /\ pc[a] = "remove"
    /\ IF intact
       THEN /\ HandleRemove(h)
            /\ str' = [str EXCEPT ![a] = Nil]
            /\ want' = [want EXCEPT ![a] = Nil]
            /\ Goto(a, "idle")
            /\ UNCHANGED overrun
       ELSE /\ overrun' = TRUE
            /\ UNCHANGED <<table, exists, locker, asleep, id, flags, limbo, str, want, pc>>
    /\ UNCHANGED <<ref, use, maxNumber, lru, limit, io, cur>>

-----------------------------------------------------------------------------
(* A cache consistency call: the handle is fetched and unlocked, blocks are *)
(* written back, the reference is released.                                *)

ConsistUnlock(a) ==
    /\ pc[a] = "got" /\ a \in Consist
    /\ Unlock(cur[a])
    /\ Goto(a, "using")
    /\ UNCHANGED <<id, flags, ref, use, tableVars, want, limit, str, io, cur>>

ConsistRelease(a) ==
    /\ pc[a] = "using"
    /\ Release(cur[a], FALSE)
    /\ cur' = [cur EXCEPT ![a] = Nil]
    /\ want' = [want EXCEPT ![a] = Nil]
    /\ Goto(a, "idle")
    /\ UNCHANGED <<use, table, exists, maxNumber, lru, limit, str, io>>

-----------------------------------------------------------------------------
(* A walk over the table.                                                  *)

(* Fsutil_GetNextHandle: any handle in the table that is not locked, as    *)
(* the order is that of the hash table.                                    *)
GetNextHandle(a) ==
    /\ pc[a] = "idle" /\ a \in Walkers
    /\ \E i \in IDs :
         /\ table[i] # Nil /\ ~Locked(table[i])
         /\ Lock(table[i], a)
         /\ cur' = [cur EXCEPT ![a] = table[i]]
    /\ Goto(a, "have")
    /\ UNCHANGED <<id, flags, ref, use, tableVars, want, limit, str, io, asleep>>

(* Nothing to be done for this one.                                        *)
WalkUnlock(a) ==
    /\ pc[a] = "have"
    /\ Unlock(cur[a])
    /\ cur' = [cur EXCEPT ![a] = Nil]
    /\ Goto(a, "idle")
    /\ UNCHANGED <<id, flags, ref, use, tableVars, want, limit, str, io>>

(* The scavenger, or FsrmtFileReopen of a file that is not in use; a       *)
(* stream without clients is removed when a host is cleaned up after.      *)
WalkRemove(a) ==
    LET h == cur[a] IN
    /\ pc[a] = "have"
    /\ MayScavenge(h) \/ (id[h] \in Streams /\ ref[h] = 0)
    /\ HandleRemove(h)
    /\ cur' = [cur EXCEPT ![a] = Nil]
    /\ Goto(a, "idle")
    /\ UNCHANGED <<ref, use, maxNumber, lru, want, limit, str, io>>

(* Mutated form: the handle can still be found.                            *)
WalkInvalidateKept(a) ==
    LET h == cur[a] IN
    /\ pc[a] = "have"
    /\ flags' = [flags EXCEPT ![h] = @ \cup {"INVALID"}]
    /\ UNCHANGED table
    /\ Unlock(h)
    /\ cur' = [cur EXCEPT ![a] = Nil]
    /\ Goto(a, "idle")
    /\ UNCHANGED <<id, ref, use, exists, limbo, maxNumber, lru, want, limit, str, io>>

(* Recovery failed: Fsutil_HandleInvalidate, and the handle is unlocked.   *)
WalkInvalidate(a) ==
    LET h == cur[a] IN
    /\ pc[a] = "have"
    /\ flags' = [flags EXCEPT ![h] = @ \cup {"INVALID"}]
    /\ table' = [table EXCEPT ![id[h]] = Nil]
    /\ Unlock(h)
    /\ cur' = [cur EXCEPT ![a] = Nil]
    /\ Goto(a, "idle")
    /\ UNCHANGED <<id, ref, use, exists, limbo, maxNumber, lru, want, limit, str, io>>

-----------------------------------------------------------------------------
InstallStep(a) ==
    \/ HandleFetch(a) \/ HandleInstallInt(a)
    \/ GetNextLRUHandle(a) \/ LRUScavenge(a) \/ DoneLRU(a)
    \/ OpenStream(a) \/ OpenIO(a)

CloseStep(a) ==
    \/ CloseLock(a) \/ CloseShared(a) \/ CloseLockIO(a) \/ CloseIO(a) \/ StreamDestroy(a)

WalkStep(a) == WalkUnlock(a) \/ WalkRemove(a) \/ WalkInvalidate(a)

Move(a) ==
    \/ Begin(a) \/ InstallStep(a) \/ CloseStep(a)
    \/ StreamCopied(a) \/ \E b \in Users : StreamCopy(a, b)
    \/ ConsistUnlock(a) \/ ConsistRelease(a)
    \/ GetNextHandle(a) \/ WalkStep(a)

Next ==
    /\ ~overrun
    /\ \E a \in Actors : (Move(a) /\ UNCHANGED overrun) \/ StreamRemove(a)

Spec == Init /\ [][Next]_vars

-----------------------------------------------------------------------------
(* Properties.                                                             *)

(* Who has what, by where it is.                                           *)
HoldsLock(a, h) ==
    \/ pc[a] \in {"got", "scavenge", "have"} /\ cur[a] = h
    \/ pc[a] \in {"copying", "release", "closeIO", "ioClose", "destroy"} /\ str[a] = h
    \/ pc[a] = "ioClose" /\ io[str[a]] = h

Referers(h) ==
    {a \in Actors : \/ pc[a] \in {"got", "using"} /\ cur[a] = h
                    \/ pc[a] # "remove" /\ str[a] = h}
OpenStreams(h) == {s \in Live : io[s] = h}

(* The hash table has exactly the handles that are neither removed nor     *)
(* invalid, under their file IDs: else a removal takes another handle out  *)
(* of the table, or panics ("Couldn't find handle in hash table").  The    *)
(* counters of the table are right, and the soft limit on handles is not   *)
(* exceeded however many processes install at once.                        *)
TableSound ==
    /\ \A i \in IDs : table[i] # Nil =>
          /\ table[i] \in Live /\ id[table[i]] = i
          /\ ~Removed(table[i]) /\ ~Invalid(table[i])
    /\ \A h \in Live : ~Removed(h) /\ ~Invalid(h) => table[id[h]] = h
    /\ exists = Cardinality({h \in Live : ~Removed(h)})
    /\ limbo = Cardinality({h \in Live : Removed(h)})
    /\ exists <= maxNumber

(* refCount is the number of references that processes and streams have,   *)
(* and a removed handle has one: no reference is to a freed handle (the    *)
(* processes that walk the table have none), none is forgotten, so that no *)
(* handle stays in limbo.  A handle is locked by the one process that is   *)
(* where it may use it, and unlocked when there is none: "the bug where    *)
(* Proc_ServerProcs leave files locked".                                   *)
RefsAccounted ==
    /\ \A h \in Live :
          /\ ref[h] = Cardinality(Referers(h)) + Cardinality(OpenStreams(h))
          /\ use[h] = Cardinality(OpenStreams(h))
          /\ Removed(h) => ref[h] > 0
    /\ \A h \in Handles \ Live : Referers(h) = {} /\ OpenStreams(h) = {}
    /\ \A h \in Handles, a \in Actors :
          /\ HoldsLock(a, h) => h \in Live
          /\ locker[h] = a <=> HoldsLock(a, h)

(* No process sleeps on the lock of a handle that is not locked or is      *)
(* freed (nobody would wake it), nor on a scan that is not going on.       *)
SleepersAccounted ==
    \A a \in Actors :
        /\ asleep[a] \in Handles => asleep[a] \in Live /\ Locked(asleep[a])
        /\ asleep[a] = "lruDone" => lru.busy

=============================================================================
