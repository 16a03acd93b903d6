------------------------- MODULE HandleTableProofs -------------------------
(***************************************************************************)
(* Proofs about the handle table, for any numbers of processes, files,     *)
(* stream IDs and handles, and any limits on the table.                    *)
(***************************************************************************)
EXTENDS HandleTable, FiniteSetTheorems, TLAPS

----------------------------------------------------------------------------
(* The inductive invariant.                                                *)

(* A process that opens, from Fsutil_HandleFetch to the end of the open;   *)
(* one that has an open stream; and one that has any stream.               *)
Opening == {"fetch", "install", "got", "scan", "scavenge", "doneHit", "doneNone"}
Shared == {"open", "copying", "closing", "release"}
InStream == Shared \cup {"closeIO", "ioClose"}

(* What a process wants, and the handles it was given, by where it is.     *)
Programs ==
    \A a \in Actors :
        /\ pc[a] \in {"idle", "have"} => want[a] = Nil /\ str[a] = Nil
        /\ pc[a] \in Opening \cup {"using"} => want[a] \in IDs
        /\ pc[a] \in InStream \cup {"destroy"} => want[a] = Nil /\ str[a] \in Handles
        /\ pc[a] = "remove" => want[a] \in Streams /\ str[a] \in Handles
        /\ pc[a] \in {"got", "scavenge", "have", "using"} => cur[a] \in Handles
        /\ a \in Users => pc[a] \notin {"using", "have"}
        /\ a \notin Users => /\ pc[a] \in {"idle", "fetch", "got", "using", "have"}
                             /\ want[a] \notin Streams /\ str[a] = Nil
        /\ a \in Users /\ pc[a] \in Opening => (want[a] \in Streams <=> str[a] = Nil)

LimitsRead == \A a \in Actors : limit[a] <= maxNumber

(* The handle of the process: what Fsutil_HandleInstall and the walks give *)
(* is in the hash table and stays there while it is locked.                *)
Given ==
    \A a \in Actors :
        /\ pc[a] = "got" => /\ id[cur[a]] = want[a]
                            /\ ~Removed(cur[a]) /\ ~Invalid(cur[a])
        /\ pc[a] = "have" => ~Removed(cur[a]) /\ ~Invalid(cur[a])
        /\ pc[a] = "scavenge" => id[cur[a]] \in Files /\ ~Removed(cur[a])
        /\ pc[a] = "using" => id[cur[a]] \in Files

(* A stream a process refers to, and the I/O handle of the stream.         *)
HasStream(a) == pc[a] # "remove" /\ str[a] # Nil

StreamsUsed ==
    \A a \in Actors : HasStream(a) =>
        /\ id[str[a]] \in Streams
        /\ pc[a] \in InStream <=> io[str[a]] # Nil

IOHandles ==
    \A s \in Live : io[s] # Nil =>
        /\ id[s] \in Streams /\ id[io[s]] \in Files
        /\ \E a \in Actors : pc[a] \in InStream /\ str[a] = s

(* Stream IDs are given out once at a time: at most one process is about   *)
(* an ID, and has the one handle with it, locked or about to be removed.   *)
StreamIDs ==
    /\ \A a, b \in Actors : a # b /\ want[a] \in Streams => want[a] # want[b]
    /\ \A h \in Live, a \in Actors : want[a] = id[h] /\ id[h] \in Streams =>
          \/ pc[a] = "got" /\ cur[a] = h /\ Referers(h) = {a}
          \/ pc[a] = "remove" /\ str[a] = h /\ Referers(h) = {}
    /\ \A g, h \in Live : id[g] = id[h] /\ id[h] \in Streams => g = h

(* Who shares a stream is not opening it, nor does it close its file; who  *)
(* just drops its reference leaves the stream to another process.          *)
Sharing ==
    /\ \A a, b \in Actors :
          a # b /\ HasStream(a) /\ HasStream(b) /\ str[a] = str[b] => pc[a] \in Shared
    /\ \A a \in Actors : pc[a] = "release" =>
          \E b \in Actors : b # a /\ HasStream(b) /\ str[b] = str[a]

(* Only handles of files are removed while there are references; nobody    *)
(* has such a handle locked, and no stream is open on it.                  *)
Limbo ==
    \A h \in Live : Removed(h) =>
        id[h] \in Files /\ locker[h] = Nil /\ OpenStreams(h) = {}

Identified == \A h \in Live : id[h] \in IDs

(* The parts of TypeOK.                                                    *)
HdrTypes ==
    /\ id \in [Handles -> IDs \cup {Nil}]
    /\ flags \in [Handles -> SUBSET Flags]
    /\ locker \in [Handles -> Actors \cup {Nil}]
    /\ ref \in [Handles -> Nat] /\ use \in [Handles -> Nat]
    /\ io \in [Handles -> Handles \cup {Nil}]

TableTypes ==
    /\ table \in [IDs -> Handles \cup {Nil}]
    /\ exists \in Nat /\ limbo \in Nat /\ maxNumber \in Nat
    /\ lru \in [busy : BOOLEAN, checked : Nat]

ProcTypes ==
    /\ pc \in [Actors -> {"idle", "fetch", "install", "got", "scan", "scavenge",
                          "doneHit", "doneNone", "open", "copying", "closing",
                          "release", "closeIO", "ioClose", "destroy", "remove",
                          "using", "have"}]
    /\ want \in [Actors -> IDs \cup {Nil}]
    /\ limit \in [Actors -> Nat]
    /\ str \in [Actors -> Handles \cup {Nil}]
    /\ cur \in [Actors -> Handles \cup {Nil}]
    /\ asleep \in [Actors -> Handles \cup {Nil, "lruDone"}]

Types == HdrTypes /\ TableTypes /\ ProcTypes

(* The parts of RefsAccounted.                                             *)
Counts ==
    \A h \in Live :
        /\ ref[h] = Cardinality(Referers(h)) + Cardinality(OpenStreams(h))
        /\ use[h] = Cardinality(OpenStreams(h))
        /\ Removed(h) => ref[h] > 0

NoDangling == \A h \in Handles \ Live : Referers(h) = {} /\ OpenStreams(h) = {}

Locks ==
    \A h \in Handles, a \in Actors :
        /\ HoldsLock(a, h) => h \in Live
        /\ locker[h] = a <=> HoldsLock(a, h)

(* The parts of TableSound.                                                *)
InTable == {h \in Live : ~Removed(h)}
InLimbo == {h \in Live : Removed(h)}

Hashed ==
    /\ \A i \in IDs : table[i] # Nil =>
          /\ table[i] \in Live /\ id[table[i]] = i
          /\ ~Removed(table[i]) /\ ~Invalid(table[i])
    /\ \A h \in Live : ~Removed(h) /\ ~Invalid(h) => table[id[h]] = h

Numbers ==
    /\ exists = Cardinality(InTable) /\ limbo = Cardinality(InLimbo)
    /\ exists <= maxNumber

(* The handles, and the processes with what they have.                     *)
HandlesSound == Counts /\ NoDangling /\ Hashed /\ Numbers /\ Identified
ProcsSound ==
    /\ Programs /\ LimitsRead /\ Given /\ StreamsUsed /\ IOHandles
    /\ StreamIDs /\ Sharing /\ Limbo /\ Locks /\ SleepersAccounted

IInv == Types /\ HandlesSound /\ ProcsSound

----------------------------------------------------------------------------
(* What the steps have in common.                                          *)

LEMMA TypeFacts == Files \subseteq IDs /\ Streams \subseteq IDs
BY DEF IDs

LEMMA WakeTypes ==
    ASSUME ProcTypes, NEW on, Wake(on)
    PROVE  asleep' \in [Actors -> Handles \cup {Nil, "lruDone"}]
BY DEF ProcTypes, Wake

(* A set with one member at most has no second one.                        *)
LEMMA SoleMember ==
    ASSUME NEW S, IsFiniteSet(S), NEW a \in S, Cardinality(S) <= 1
    PROVE  S = {a}
<1>1. Cardinality(S \ {a}) = Cardinality(S) - 1 /\ IsFiniteSet(S \ {a})
  BY FS_RemoveElement
<1>2. Cardinality(S \ {a}) = 0
  BY <1>1, FS_CardinalityType
<1> QED BY <1>1, <1>2, FS_EmptySet

(* As long as no handle is made, removed or released and the references    *)
(* stay what they are, the handles are sound; the limit may grow.          *)
LEMMA HandlesKept ==
    ASSUME IInv, UNCHANGED <<id, flags, ref, use, io, table, exists, limbo>>,
           maxNumber' \in Nat, maxNumber <= maxNumber',
           \A h \in Handles : Referers(h)' = Referers(h)
    PROVE  HandlesSound'
<1> USE DEF IInv, HandlesSound, ProcsSound, Types
<1>1. /\ Live' = Live /\ InTable' = InTable /\ InLimbo' = InLimbo
      /\ \A h \in Handles : /\ Removed(h)' <=> Removed(h)
                            /\ Invalid(h)' <=> Invalid(h)
                            /\ OpenStreams(h)' = OpenStreams(h)
  BY DEF Live, InTable, InLimbo, Removed, Invalid, OpenStreams
<1>2. Counts'
  BY <1>1 DEF Counts, Live
<1>3. NoDangling'
  BY <1>1 DEF NoDangling
<1>4. Hashed'
  BY <1>1 DEF Hashed, Live, TableTypes
<1>5. exists <= maxNumber'
  BY DEF Numbers, TableTypes
<1>6. Numbers' /\ Identified'
  BY <1>1, <1>5 DEF Numbers, Identified
<1> QED BY <1>2, <1>3, <1>4, <1>6

(* The handles of a process: live, and what they are.                      *)
LEMMA StreamLive ==
    ASSUME HandleTableAssumption, IInv, NEW a \in Actors, HasStream(a)
    PROVE  /\ str[a] \in Live /\ id[str[a]] \in Streams /\ id[str[a]] \notin Files
           /\ ~Removed(str[a]) /\ a \in Users /\ a \in Referers(str[a])
<1> USE DEF IInv, HandlesSound, ProcsSound, Types
<1>1. str[a] \in Handles /\ a \in Referers(str[a])
  BY DEF HasStream, ProcTypes, Referers
<1>2. str[a] \in Live
  BY <1>1 DEF NoDangling
<1> QED BY <1>1, <1>2 DEF HasStream, StreamsUsed, Limbo, Programs, HandleTableAssumption

LEMMA IOLive ==
    ASSUME HandleTableAssumption, IInv, NEW a \in Actors, pc[a] \in InStream
    PROVE  LET h == io[str[a]] IN
           /\ h \in Live /\ id[h] \in Files /\ id[h] \notin Streams
           /\ str[a] \in OpenStreams(h) /\ ~Removed(h) /\ h # str[a]
<1> USE DEF IInv, HandlesSound, ProcsSound, Types
<1>1. /\ HasStream(a) /\ str[a] \in Live /\ id[str[a]] \in Streams
      /\ io[str[a]] # Nil
  BY StreamLive DEF StreamsUsed, HasStream, Programs, InStream, Shared, Live,
       HandleTableAssumption
<1>2. io[str[a]] \in Handles /\ str[a] \in OpenStreams(io[str[a]])
  BY <1>1 DEF HdrTypes, OpenStreams, Live
<1>3. io[str[a]] \in Live
  BY <1>2 DEF NoDangling
<1> QED BY <1>1, <1>2, <1>3 DEF IOHandles, Limbo, HandleTableAssumption

----------------------------------------------------------------------------
(* Steps that leave the handles and the references alone.                  *)

(* A process that opens is about an ID that nobody has.                    *)
LEMMA BeginKeeps ==
    ASSUME HandleTableAssumption, IInv, NEW a \in Actors,
           Begin(a), UNCHANGED overrun
    PROVE  IInv'
<1> USE DEF IInv, HandlesSound, ProcsSound, Types, Live, Removed, Invalid,
       Locked, HasStream, Opening, Shared, InStream
<1>1. HdrTypes'
  BY TypeFacts DEF Begin, Goto, hdrVars, tableVars, HdrTypes, Programs,
         Flags
<1>2. TableTypes'
  BY TypeFacts DEF Begin, Goto, hdrVars, tableVars, TableTypes, Programs
<1>3. ProcTypes'
  BY TypeFacts, WakeTypes DEF Begin, Goto, hdrVars, tableVars, ProcTypes,
         Programs
<1>4. \A h \in Handles : Referers(h)' = Referers(h)
  BY DEF Begin, Goto, hdrVars, tableVars, HdrTypes, ProcTypes, Programs,
         Referers
<1>5. HandlesSound'
  BY <1>2, <1>4, HandlesKept DEF Begin, Goto, hdrVars, tableVars, TableTypes
<1>6. Programs'
  BY DEF Begin, Goto, hdrVars, tableVars, ProcTypes, Programs, IDs, Actors,
         HandleTableAssumption
<1>7. LimitsRead'
  BY DEF Begin, Goto, hdrVars, tableVars, TableTypes, ProcTypes, LimitsRead
<1>8. Given'
  BY DEF Begin, Goto, hdrVars, tableVars, HdrTypes, ProcTypes, Programs,
         Given, Locks, HoldsLock, Hashed
<1>9. StreamsUsed'
  BY DEF Begin, Goto, hdrVars, tableVars, HdrTypes, ProcTypes, Programs,
         StreamsUsed, Sharing, NoDangling, Referers, Locks, HoldsLock,
         IOHandles
<1>10. IOHandles'
  BY DEF Begin, Goto, hdrVars, tableVars, HdrTypes, ProcTypes, Programs,
         StreamsUsed, IOHandles, NoDangling, Sharing, OpenStreams
<1>11. StreamIDs'
  BY DEF Begin, Goto, hdrVars, tableVars, HdrTypes, ProcTypes, Programs,
         StreamIDs, NoDangling, Referers, Locks, HoldsLock
<1>12. Sharing'
  BY DEF Begin, Goto, hdrVars, tableVars, HdrTypes, ProcTypes, Programs,
         Sharing, StreamsUsed, StreamIDs
<1>13. Limbo'
  BY DEF Begin, Goto, hdrVars, tableVars, HdrTypes, ProcTypes, Programs,
         Limbo, OpenStreams, Locks, HoldsLock, Given, Identified
<1>14. Locks'
  BY DEF Begin, Goto, hdrVars, tableVars, HdrTypes, ProcTypes, Programs,
         Locks, HoldsLock, StreamsUsed, Limbo
<1>15. SleepersAccounted'
  BY DEF Begin, Goto, hdrVars, tableVars, HdrTypes, TableTypes, ProcTypes,
         SleepersAccounted, Limbo, Locks, HoldsLock
<1> QED BY <1>1, <1>2, <1>3, <1>4, <1>5, <1>6, <1>7, <1>8, <1>9, <1>10,
       <1>11, <1>12, <1>13, <1>14, <1>15

(* There is no handle to fetch: the process makes one, or gives up.        *)
LEMMA FetchNoneKeeps ==
    ASSUME HandleTableAssumption, IInv, NEW a \in Actors,
           HandleFetch(a), table[want[a]] = Nil
    PROVE  IInv'
<1> USE DEF IInv, HandlesSound, ProcsSound, Types, Live, Removed, Invalid,
       Locked, HasStream, Opening, Shared, InStream
<1>0. /\ UNCHANGED <<id, flags, ref, use, io, locker, tableVars, str, cur, asleep>>
      /\ \/ /\ a \in Users /\ Goto(a, "install")
            /\ want' = want /\ limit' = [limit EXCEPT ![a] = maxNumber]
         \/ /\ a \notin Users /\ Goto(a, "idle")
            /\ want' = [want EXCEPT ![a] = Nil] /\ limit' = [limit EXCEPT ![a] = 0]
      /\ pc[a] = "fetch"
  BY DEF HandleFetch
<1>1. HdrTypes'
  BY <1>0, TypeFacts DEF Goto, tableVars, HdrTypes, Programs, Flags
<1>2. TableTypes'
  BY <1>0, TypeFacts DEF Goto, tableVars, TableTypes, Programs
<1>3. ProcTypes'
  <2>1. /\ pc' \in [Actors -> {"idle", "fetch", "install", "got", "scan", "scavenge",
                               "doneHit", "doneNone", "open", "copying", "closing",
                               "release", "closeIO", "ioClose", "destroy", "remove",
                               "using", "have"}]
        /\ want' \in [Actors -> IDs \cup {Nil}]
    BY <1>0 DEF Goto, ProcTypes
  <2>2. limit' \in [Actors -> Nat]
    BY <1>0 DEF ProcTypes, TableTypes
  <2> QED BY <1>0, <2>1, <2>2 DEF ProcTypes
<1>4. \A h \in Handles : Referers(h)' = Referers(h)
  BY <1>0 DEF Goto, tableVars, HdrTypes, ProcTypes, Programs,
         Referers
<1>5. HandlesSound'
  BY <1>0, <1>2, <1>4, HandlesKept DEF Goto, tableVars, TableTypes
<1>6. Programs'
  BY <1>0 DEF Goto, tableVars, ProcTypes, Programs, IDs
<1>7. LimitsRead'
  BY <1>0 DEF Goto, tableVars, TableTypes, ProcTypes, LimitsRead
<1>8. Given'
  BY <1>0 DEF Goto, tableVars, HdrTypes, ProcTypes, Programs, Given,
         Locks, HoldsLock, Hashed
<1>9. StreamsUsed'
  BY <1>0 DEF Goto, tableVars, HdrTypes, ProcTypes, Programs,
         StreamsUsed, Sharing, NoDangling, Referers, Locks, HoldsLock,
         IOHandles
<1>10. IOHandles'
  BY <1>0 DEF Goto, tableVars, HdrTypes, ProcTypes, Programs,
         StreamsUsed, IOHandles, NoDangling, Sharing, OpenStreams
<1>11. StreamIDs'
  <2>1. /\ \A b \in Actors : want'[b] = want[b] \/ want'[b] = Nil
        /\ \A b \in Actors : pc[b] \in {"got", "remove"} => pc'[b] = pc[b]
        /\ Nil \notin Streams
    BY <1>0 DEF Goto, ProcTypes, HandleTableAssumption, IDs
  <2> QED BY <1>0, <1>4, <2>1 DEF StreamIDs
<1>12. Sharing'
  BY <1>0 DEF Goto, tableVars, HdrTypes, ProcTypes, Programs,
         Sharing, StreamsUsed, StreamIDs
<1>13. Limbo'
  BY <1>0 DEF Goto, tableVars, HdrTypes, ProcTypes, Programs, Limbo,
         OpenStreams, Locks, HoldsLock, Given, Identified
<1>14. Locks'
  BY <1>0 DEF Goto, tableVars, HdrTypes, ProcTypes, Programs, Locks,
         HoldsLock, StreamsUsed, Limbo
<1>15. SleepersAccounted'
  BY <1>0 DEF Goto, tableVars, HdrTypes, TableTypes, ProcTypes,
         SleepersAccounted, Limbo, Locks, HoldsLock
<1> QED BY <1>1, <1>2, <1>3, <1>4, <1>5, <1>6, <1>7, <1>8, <1>9, <1>10,
       <1>11, <1>12, <1>13, <1>14, <1>15

(* A process goes to sleep on a locked handle.                             *)
LEMMA SleepKeeps ==
    ASSUME HandleTableAssumption, IInv, NEW a \in Actors, NEW h \in Handles,
           Locked(h), Sleep(a, h),
           pc' = pc \/ (pc[a] \in {"open", "closing"} /\ Goto(a, "closing")),
           UNCHANGED <<hdrVars, tableVars, want, limit, str, cur>>
    PROVE  IInv'
<1> USE DEF IInv, HandlesSound, ProcsSound, Types, Live, Removed, Invalid,
       Locked, HasStream, Opening, Shared, InStream
<1>1. HdrTypes'
  BY TypeFacts DEF Sleep, Goto, hdrVars, tableVars, HdrTypes, Programs,
         Flags
<1>2. TableTypes'
  BY TypeFacts DEF Sleep, Goto, hdrVars, tableVars, TableTypes, Programs
<1>3. ProcTypes'
  BY TypeFacts, WakeTypes DEF Sleep, Goto, hdrVars, tableVars, ProcTypes,
         Programs
<1>4. \A g \in Handles : Referers(g)' = Referers(g)
  BY DEF Sleep, Goto, hdrVars, tableVars, HdrTypes, ProcTypes, Programs,
         Referers
<1>5. HandlesSound'
  BY <1>2, <1>4, HandlesKept DEF Sleep, Goto, hdrVars, tableVars, TableTypes
<1>6. Programs'
  BY DEF Sleep, Goto, hdrVars, tableVars, ProcTypes, Programs, StreamsUsed
<1>7. LimitsRead'
  BY DEF Sleep, Goto, hdrVars, tableVars, TableTypes, ProcTypes, LimitsRead
<1>8. Given'
  BY DEF Sleep, Goto, hdrVars, tableVars, HdrTypes, ProcTypes, Programs,
         Given, Locks, HoldsLock, Hashed
<1>9. StreamsUsed'
  BY DEF Sleep, Goto, hdrVars, tableVars, HdrTypes, ProcTypes, Programs,
         StreamsUsed, Sharing, NoDangling, Referers, Locks, HoldsLock,
         IOHandles
<1>10. IOHandles'
  BY DEF Sleep, Goto, hdrVars, tableVars, HdrTypes, ProcTypes, Programs,
         StreamsUsed, IOHandles, NoDangling, Sharing, OpenStreams
<1>11. StreamIDs'
  BY DEF Sleep, Goto, hdrVars, tableVars, HdrTypes, ProcTypes, Programs,
         StreamIDs, NoDangling, Referers, Locks, HoldsLock
<1>12. Sharing'
  BY DEF Sleep, Goto, hdrVars, tableVars, HdrTypes, ProcTypes, Programs,
         Sharing, StreamsUsed, StreamIDs
<1>13. Limbo'
  BY DEF Sleep, Goto, hdrVars, tableVars, HdrTypes, ProcTypes, Programs,
         Limbo, OpenStreams, Locks, HoldsLock, Given, Identified
<1>14. Locks'
  BY DEF Sleep, Goto, hdrVars, tableVars, HdrTypes, ProcTypes, Programs,
         Locks, HoldsLock, StreamsUsed, Limbo
<1>15. SleepersAccounted'
  BY DEF Sleep, Goto, hdrVars, tableVars, HdrTypes, TableTypes, ProcTypes,
         SleepersAccounted, Limbo, Locks, HoldsLock
<1> QED BY <1>1, <1>2, <1>3, <1>4, <1>5, <1>6, <1>7, <1>8, <1>9, <1>10,
       <1>11, <1>12, <1>13, <1>14, <1>15

(* It goes to sleep until a scan for a handle to replace has ended.        *)
LEMMA ScanWaitKeeps ==
    ASSUME HandleTableAssumption, IInv, NEW a \in Actors,
           lru.busy, Sleep(a, "lruDone"),
           UNCHANGED <<hdrVars, tableVars, pc, want, limit, str, cur>>
    PROVE  IInv'
<1> USE DEF IInv, HandlesSound, ProcsSound, Types, Live, Removed, Invalid,
       Locked, HasStream, Opening, Shared, InStream
<1>1. HdrTypes'
  BY TypeFacts DEF Sleep, hdrVars, tableVars, HdrTypes, Programs, Flags
<1>2. TableTypes'
  BY TypeFacts DEF Sleep, hdrVars, tableVars, TableTypes, Programs
<1>3. ProcTypes'
  BY TypeFacts, WakeTypes DEF Sleep, hdrVars, tableVars, ProcTypes, Programs
<1>4. \A h \in Handles : Referers(h)' = Referers(h)
  BY DEF Sleep, hdrVars, tableVars, HdrTypes, ProcTypes, Programs, Referers
<1>5. HandlesSound'
  BY <1>2, <1>4, HandlesKept DEF Sleep, hdrVars, tableVars, TableTypes
<1>6. Programs'
  BY DEF Sleep, hdrVars, tableVars, ProcTypes, Programs, StreamsUsed
<1>7. LimitsRead'
  BY DEF Sleep, hdrVars, tableVars, TableTypes, ProcTypes, LimitsRead
<1>8. Given'
  BY DEF Sleep, hdrVars, tableVars, HdrTypes, ProcTypes, Programs, Given,
         Locks, HoldsLock, Hashed
<1>9. StreamsUsed'
  BY DEF Sleep, hdrVars, tableVars, HdrTypes, ProcTypes, Programs,
         StreamsUsed, Sharing, NoDangling, Referers, Locks, HoldsLock,
         IOHandles
<1>10. IOHandles'
  BY DEF Sleep, hdrVars, tableVars, HdrTypes, ProcTypes, Programs,
         StreamsUsed, IOHandles, NoDangling, Sharing, OpenStreams
<1>11. StreamIDs'
  BY DEF Sleep, hdrVars, tableVars, HdrTypes, ProcTypes, Programs,
         StreamIDs, NoDangling, Referers, Locks, HoldsLock
<1>12. Sharing'
  BY DEF Sleep, hdrVars, tableVars, HdrTypes, ProcTypes, Programs, Sharing,
         StreamsUsed, StreamIDs
<1>13. Limbo'
  BY DEF Sleep, hdrVars, tableVars, HdrTypes, ProcTypes, Programs, Limbo,
         OpenStreams, Locks, HoldsLock, Given, Identified
<1>14. Locks'
  BY DEF Sleep, hdrVars, tableVars, HdrTypes, ProcTypes, Programs, Locks,
         HoldsLock, StreamsUsed, Limbo
<1>15. SleepersAccounted'
  BY DEF Sleep, hdrVars, tableVars, HdrTypes, TableTypes, ProcTypes,
         SleepersAccounted, Limbo, Locks, HoldsLock
<1> QED BY <1>1, <1>2, <1>3, <1>4, <1>5, <1>6, <1>7, <1>8, <1>9, <1>10,
       <1>11, <1>12, <1>13, <1>14, <1>15

(* It starts such a scan.                                                  *)
LEMMA ScanStartKeeps ==
    ASSUME HandleTableAssumption, IInv, NEW a \in Actors,
           pc[a] = "install",
           lru' = [busy |-> TRUE, checked |-> 0],
           limit' = [limit EXCEPT ![a] = 0], Goto(a, "scan"),
           UNCHANGED <<hdrVars, table, exists, limbo, maxNumber, want, str, cur, asleep>>
    PROVE  IInv'
<1> USE DEF IInv, HandlesSound, ProcsSound, Types, Live, Removed, Invalid,
       Locked, HasStream, Opening, Shared, InStream
<1>1. HdrTypes'
  BY TypeFacts DEF Goto, hdrVars, HdrTypes, Programs, Flags
<1>2. TableTypes'
  BY TypeFacts DEF Goto, hdrVars, TableTypes, Programs
<1>3. ProcTypes'
  BY TypeFacts, WakeTypes DEF Goto, hdrVars, ProcTypes, Programs
<1>4. \A h \in Handles : Referers(h)' = Referers(h)
  BY DEF Goto, hdrVars, HdrTypes, ProcTypes, Programs, Referers
<1>5. HandlesSound'
  BY <1>2, <1>4, HandlesKept DEF Goto, hdrVars, TableTypes
<1>6. Programs'
  BY DEF Goto, hdrVars, ProcTypes, Programs, StreamsUsed
<1>7. LimitsRead'
  BY DEF Goto, hdrVars, TableTypes, ProcTypes, LimitsRead
<1>8. Given'
  BY DEF Goto, hdrVars, HdrTypes, ProcTypes, Programs, Given, Locks,
         HoldsLock, Hashed
<1>9. StreamsUsed'
  BY DEF Goto, hdrVars, HdrTypes, ProcTypes, Programs, StreamsUsed, Sharing,
         NoDangling, Referers, Locks, HoldsLock, IOHandles
<1>10. IOHandles'
  BY DEF Goto, hdrVars, HdrTypes, ProcTypes, Programs, StreamsUsed,
         IOHandles, NoDangling, Sharing, OpenStreams
<1>11. StreamIDs'
  BY DEF Goto, hdrVars, HdrTypes, ProcTypes, Programs, StreamIDs,
         NoDangling, Referers, Locks, HoldsLock
<1>12. Sharing'
  BY DEF Goto, hdrVars, HdrTypes, ProcTypes, Programs, Sharing, StreamsUsed,
         StreamIDs
<1>13. Limbo'
  BY DEF Goto, hdrVars, HdrTypes, ProcTypes, Programs, Limbo, OpenStreams,
         Locks, HoldsLock, Given, Identified
<1>14. Locks'
  BY DEF Goto, hdrVars, HdrTypes, ProcTypes, Programs, Locks, HoldsLock,
         StreamsUsed, Limbo
<1>15. SleepersAccounted'
  BY DEF Goto, hdrVars, HdrTypes, TableTypes, ProcTypes, SleepersAccounted,
         Limbo, Locks, HoldsLock
<1> QED BY <1>1, <1>2, <1>3, <1>4, <1>5, <1>6, <1>7, <1>8, <1>9, <1>10,
       <1>11, <1>12, <1>13, <1>14, <1>15

(* The scan comes to a handle of a file, which is locked.                  *)
LEMMA ScanHitKeeps ==
    ASSUME HandleTableAssumption, IInv, NEW a \in Actors, NEW h \in Handles,
           pc[a] = "scan", ~Locked(h), ~Removed(h),
           h \in Live, id[h] \in Files,
           lru' \in [busy : BOOLEAN, checked : Nat], lru'.busy = lru.busy,
           Lock(h, a), cur' = [cur EXCEPT ![a] = h], Goto(a, "scavenge"),
           UNCHANGED <<id, flags, ref, use, io, table, exists, limbo, maxNumber,
                       want, limit, str, asleep>>
    PROVE  IInv'
<1> USE DEF IInv, HandlesSound, ProcsSound, Types, Live, Removed, Invalid,
       Locked, HasStream, Opening, Shared, InStream
<1>1. HdrTypes'
  BY TypeFacts DEF Lock, Goto, HdrTypes, Programs, Flags
<1>2. TableTypes'
  BY TypeFacts DEF Lock, Goto, TableTypes, Programs
<1>3. ProcTypes'
  BY TypeFacts, WakeTypes DEF Lock, Goto, ProcTypes, Programs
<1>4. \A g \in Handles : Referers(g)' = Referers(g)
  BY DEF Lock, Goto, HdrTypes, ProcTypes, Programs, Referers
<1>5. HandlesSound'
  BY <1>2, <1>4, HandlesKept DEF Lock, Goto, TableTypes
<1>6. Programs'
  BY DEF Lock, Goto, ProcTypes, Programs, StreamsUsed
<1>7. LimitsRead'
  BY DEF Lock, Goto, TableTypes, ProcTypes, LimitsRead
<1>8. Given'
  BY DEF Lock, Goto, HdrTypes, ProcTypes, Programs, Given, Locks, HoldsLock,
         Hashed
<1>9. StreamsUsed'
  BY DEF Lock, Goto, HdrTypes, ProcTypes, Programs, StreamsUsed, Sharing,
         NoDangling, Referers, Locks, HoldsLock, IOHandles
<1>10. IOHandles'
  BY DEF Lock, Goto, HdrTypes, ProcTypes, Programs, StreamsUsed, IOHandles,
         NoDangling, Sharing, OpenStreams
<1>11. StreamIDs'
  BY DEF Lock, Goto, HdrTypes, ProcTypes, Programs, StreamIDs, NoDangling,
         Referers, Locks, HoldsLock
<1>12. Sharing'
  BY DEF Lock, Goto, HdrTypes, ProcTypes, Programs, Sharing, StreamsUsed,
         StreamIDs
<1>13. Limbo'
  BY DEF Lock, Goto, HdrTypes, ProcTypes, Programs, Limbo, OpenStreams,
         Locks, HoldsLock, Given, Identified
<1>14. Locks'
  BY DEF Lock, Goto, HdrTypes, ProcTypes, Programs, Locks, HoldsLock,
         StreamsUsed, Limbo
<1>15. SleepersAccounted'
  BY DEF Lock, Goto, HdrTypes, TableTypes, ProcTypes, SleepersAccounted,
         Limbo, Locks, HoldsLock
<1> QED BY <1>1, <1>2, <1>3, <1>4, <1>5, <1>6, <1>7, <1>8, <1>9, <1>10,
       <1>11, <1>12, <1>13, <1>14, <1>15

(* The scan ends without one.                                              *)
LEMMA ScanNoneKeeps ==
    ASSUME HandleTableAssumption, IInv, NEW a \in Actors,
           pc[a] = "scan", Goto(a, "doneNone"),
           UNCHANGED <<hdrVars, tableVars, want, limit, str, cur, asleep>>
    PROVE  IInv'
<1> USE DEF IInv, HandlesSound, ProcsSound, Types, Live, Removed, Invalid,
       Locked, HasStream, Opening, Shared, InStream
<1>1. HdrTypes'
  BY TypeFacts DEF Goto, hdrVars, tableVars, HdrTypes, Programs, Flags
<1>2. TableTypes'
  BY TypeFacts DEF Goto, hdrVars, tableVars, TableTypes, Programs
<1>3. ProcTypes'
  BY TypeFacts, WakeTypes DEF Goto, hdrVars, tableVars, ProcTypes, Programs
<1>4. \A h \in Handles : Referers(h)' = Referers(h)
  BY DEF Goto, hdrVars, tableVars, HdrTypes, ProcTypes, Programs, Referers
<1>5. HandlesSound'
  BY <1>2, <1>4, HandlesKept DEF Goto, hdrVars, tableVars, TableTypes
<1>6. Programs'
  BY DEF Goto, hdrVars, tableVars, ProcTypes, Programs, StreamsUsed
<1>7. LimitsRead'
  BY DEF Goto, hdrVars, tableVars, TableTypes, ProcTypes, LimitsRead
<1>8. Given'
  BY DEF Goto, hdrVars, tableVars, HdrTypes, ProcTypes, Programs, Given,
         Locks, HoldsLock, Hashed
<1>9. StreamsUsed'
  BY DEF Goto, hdrVars, tableVars, HdrTypes, ProcTypes, Programs,
         StreamsUsed, Sharing, NoDangling, Referers, Locks, HoldsLock,
         IOHandles
<1>10. IOHandles'
  BY DEF Goto, hdrVars, tableVars, HdrTypes, ProcTypes, Programs,
         StreamsUsed, IOHandles, NoDangling, Sharing, OpenStreams
<1>11. StreamIDs'
  BY DEF Goto, hdrVars, tableVars, HdrTypes, ProcTypes, Programs, StreamIDs,
         NoDangling, Referers, Locks, HoldsLock
<1>12. Sharing'
  BY DEF Goto, hdrVars, tableVars, HdrTypes, ProcTypes, Programs, Sharing,
         StreamsUsed, StreamIDs
<1>13. Limbo'
  BY DEF Goto, hdrVars, tableVars, HdrTypes, ProcTypes, Programs, Limbo,
         OpenStreams, Locks, HoldsLock, Given, Identified
<1>14. Locks'
  BY DEF Goto, hdrVars, tableVars, HdrTypes, ProcTypes, Programs, Locks,
         HoldsLock, StreamsUsed, Limbo
<1>15. SleepersAccounted'
  BY DEF Goto, hdrVars, tableVars, HdrTypes, TableTypes, ProcTypes,
         SleepersAccounted, Limbo, Locks, HoldsLock
<1> QED BY <1>1, <1>2, <1>3, <1>4, <1>5, <1>6, <1>7, <1>8, <1>9, <1>10,
       <1>11, <1>12, <1>13, <1>14, <1>15

(* A handle that is not replaced is unlocked, and the scan goes on.        *)
LEMMA ScanUnlockKeeps ==
    ASSUME HandleTableAssumption, IInv, NEW a \in Actors,
           pc[a] = "scavenge", Unlock(cur[a]), Goto(a, "scan"),
           cur' = [cur EXCEPT ![a] = Nil],
           UNCHANGED <<id, flags, ref, use, io, tableVars, want, limit, str>>
    PROVE  IInv'
<1> USE DEF IInv, HandlesSound, ProcsSound, Types, Live, Removed, Invalid,
       Locked, HasStream, Opening, Shared, InStream
<1>1. HdrTypes'
  BY TypeFacts DEF Unlock, Wake, Goto, tableVars, HdrTypes, Programs, Flags
<1>2. TableTypes'
  BY TypeFacts DEF Unlock, Wake, Goto, tableVars, TableTypes, Programs
<1>3. ProcTypes'
  BY TypeFacts, WakeTypes DEF Unlock, Goto, tableVars, ProcTypes, Programs
<1>4. \A h \in Handles : Referers(h)' = Referers(h)
  BY DEF Unlock, Wake, Goto, tableVars, HdrTypes, ProcTypes, Programs,
         Referers
<1>5. HandlesSound'
  BY <1>2, <1>4, HandlesKept DEF Unlock, Wake, Goto, tableVars, TableTypes
<1>6. Programs'
  BY DEF Unlock, Wake, Goto, tableVars, ProcTypes, Programs, StreamsUsed
<1>7. LimitsRead'
  BY DEF Unlock, Wake, Goto, tableVars, TableTypes, ProcTypes, LimitsRead
<1>8. Given'
  BY DEF Unlock, Wake, Goto, tableVars, HdrTypes, ProcTypes, Programs,
         Given, Locks, HoldsLock, Hashed
<1>9. StreamsUsed'
  BY DEF Unlock, Wake, Goto, tableVars, HdrTypes, ProcTypes, Programs,
         StreamsUsed, Sharing, NoDangling, Referers, Locks, HoldsLock,
         IOHandles
<1>10. IOHandles'
  BY DEF Unlock, Wake, Goto, tableVars, HdrTypes, ProcTypes, Programs,
         StreamsUsed, IOHandles, NoDangling, Sharing, OpenStreams
<1>11. StreamIDs'
  BY DEF Unlock, Wake, Goto, tableVars, HdrTypes, ProcTypes, Programs,
         StreamIDs, NoDangling, Referers, Locks, HoldsLock
<1>12. Sharing'
  BY DEF Unlock, Wake, Goto, tableVars, HdrTypes, ProcTypes, Programs,
         Sharing, StreamsUsed, StreamIDs
<1>13. Limbo'
  BY DEF Unlock, Wake, Goto, tableVars, HdrTypes, ProcTypes, Programs,
         Limbo, OpenStreams, Locks, HoldsLock, Given, Identified
<1>14. Locks'
  BY DEF Unlock, Wake, Goto, tableVars, HdrTypes, ProcTypes, Programs,
         Locks, HoldsLock, StreamsUsed, Limbo
<1>15. SleepersAccounted'
  BY DEF Unlock, Wake, Goto, tableVars, HdrTypes, TableTypes, ProcTypes,
         SleepersAccounted, Limbo, Locks, HoldsLock
<1> QED BY <1>1, <1>2, <1>3, <1>4, <1>5, <1>6, <1>7, <1>8, <1>9, <1>10,
       <1>11, <1>12, <1>13, <1>14, <1>15

(* The scan is over; the limit has grown if it was in vain.                *)
LEMMA DoneLRUKeeps ==
    ASSUME HandleTableAssumption, IInv, NEW a \in Actors,
           DoneLRU(a)
    PROVE  IInv'
<1> USE DEF IInv, HandlesSound, ProcsSound, Types, Live, Removed, Invalid,
       Locked, HasStream, Opening, Shared, InStream
<1>1. HdrTypes'
  BY TypeFacts DEF DoneLRU, Wake, Goto, hdrVars, HdrTypes, Programs, Flags
<1>2. TableTypes'
  BY TypeFacts DEF DoneLRU, Wake, Goto, hdrVars, TableTypes, Programs
<1>3. ProcTypes'
  BY TypeFacts, WakeTypes DEF DoneLRU, Goto, hdrVars, ProcTypes, Programs
<1>4. \A h \in Handles : Referers(h)' = Referers(h)
  BY DEF DoneLRU, Wake, Goto, hdrVars, HdrTypes, ProcTypes, Programs,
         Referers
<1>5. HandlesSound'
  BY <1>2, <1>4, HandlesKept DEF DoneLRU, Wake, Goto, hdrVars, TableTypes
<1>6. Programs'
  BY DEF DoneLRU, Wake, Goto, hdrVars, ProcTypes, Programs, StreamsUsed
<1>7. LimitsRead'
  BY DEF DoneLRU, Wake, Goto, hdrVars, TableTypes, ProcTypes, LimitsRead
<1>8. Given'
  BY DEF DoneLRU, Wake, Goto, hdrVars, HdrTypes, ProcTypes, Programs, Given,
         Locks, HoldsLock, Hashed
<1>9. StreamsUsed'
  BY DEF DoneLRU, Wake, Goto, hdrVars, HdrTypes, ProcTypes, Programs,
         StreamsUsed, Sharing, NoDangling, Referers, Locks, HoldsLock,
         IOHandles
<1>10. IOHandles'
  BY DEF DoneLRU, Wake, Goto, hdrVars, HdrTypes, ProcTypes, Programs,
         StreamsUsed, IOHandles, NoDangling, Sharing, OpenStreams
<1>11. StreamIDs'
  BY DEF DoneLRU, Wake, Goto, hdrVars, HdrTypes, ProcTypes, Programs,
         StreamIDs, NoDangling, Referers, Locks, HoldsLock
<1>12. Sharing'
  BY DEF DoneLRU, Wake, Goto, hdrVars, HdrTypes, ProcTypes, Programs,
         Sharing, StreamsUsed, StreamIDs
<1>13. Limbo'
  BY DEF DoneLRU, Wake, Goto, hdrVars, HdrTypes, ProcTypes, Programs, Limbo,
         OpenStreams, Locks, HoldsLock, Given, Identified
<1>14. Locks'
  BY DEF DoneLRU, Wake, Goto, hdrVars, HdrTypes, ProcTypes, Programs, Locks,
         HoldsLock, StreamsUsed, Limbo
<1>15. SleepersAccounted'
  BY DEF DoneLRU, Wake, Goto, hdrVars, HdrTypes, TableTypes, ProcTypes,
         SleepersAccounted, Limbo, Locks, HoldsLock
<1> QED BY <1>1, <1>2, <1>3, <1>4, <1>5, <1>6, <1>7, <1>8, <1>9, <1>10,
       <1>11, <1>12, <1>13, <1>14, <1>15

(* The new stream is unlocked; the process keeps its reference.            *)
LEMMA OpenStreamKeeps ==
    ASSUME HandleTableAssumption, IInv, NEW a \in Actors,
           OpenStream(a)
    PROVE  IInv'
<1> USE DEF IInv, HandlesSound, ProcsSound, Types, Live, Removed, Invalid,
       Locked, HasStream, Opening, Shared, InStream
<1>1. HdrTypes'
  BY TypeFacts DEF OpenStream, Unlock, Wake, Goto, tableVars, HdrTypes,
         Programs, Flags
<1>2. TableTypes'
  BY TypeFacts DEF OpenStream, Unlock, Wake, Goto, tableVars, TableTypes,
         Programs
<1>3. ProcTypes'
  BY TypeFacts, WakeTypes DEF OpenStream, Unlock, Goto, tableVars,
         ProcTypes, Programs
<1>4. \A h \in Handles : Referers(h)' = Referers(h)
  BY DEF OpenStream, Unlock, Wake, Goto, tableVars, HdrTypes, ProcTypes,
         Programs, Referers
<1>5. HandlesSound'
  BY <1>2, <1>4, HandlesKept DEF OpenStream, Unlock, Wake, Goto, tableVars,
         TableTypes
<1>6. Programs'
  <2>1. /\ a \in Users /\ cur[a] \in Handles
        /\ str' = [str EXCEPT ![a] = cur[a]] /\ Goto(a, "fetch")
        /\ \E f \in Files : want' = [want EXCEPT ![a] = f]
    BY DEF OpenStream, Programs
  <2>2. cur[a] # Nil /\ \A f \in Files : f \in IDs /\ f \notin Streams
    BY <2>1 DEF IDs, HandleTableAssumption
  <2>3. \A b \in Actors \ {a} : /\ pc'[b] = pc[b] /\ want'[b] = want[b]
                               /\ str'[b] = str[b] /\ cur'[b] = cur[b]
    BY DEF OpenStream, Goto, ProcTypes
  <2>4. pc'[a] = "fetch" /\ want'[a] \in Files /\ str'[a] = cur[a]
    BY <2>1 DEF Goto, ProcTypes
  <2> QED BY <2>1, <2>2, <2>3, <2>4 DEF Programs
<1>7. LimitsRead'
  BY DEF OpenStream, Unlock, Wake, Goto, tableVars, TableTypes, ProcTypes,
         LimitsRead
<1>8. Given'
  BY DEF OpenStream, Unlock, Wake, Goto, tableVars, HdrTypes, ProcTypes,
         Programs, Given, Locks, HoldsLock, Hashed
<1>9. StreamsUsed'
  BY DEF OpenStream, Unlock, Wake, Goto, HdrTypes, ProcTypes, Programs,
         StreamsUsed, StreamIDs, Given, Locks, HoldsLock, IOHandles,
         Referers, HandleTableAssumption
<1>10. IOHandles'
  BY DEF OpenStream, Unlock, Wake, Goto, tableVars, HdrTypes, ProcTypes,
         Programs, StreamsUsed, IOHandles, NoDangling, Sharing, OpenStreams
<1>11. StreamIDs'
  BY DEF OpenStream, Unlock, Wake, Goto, tableVars, HdrTypes, ProcTypes,
         Programs, StreamIDs, NoDangling, Referers, Locks, HoldsLock
<1>12. Sharing'
  BY DEF OpenStream, Unlock, Wake, Goto, ProcTypes, Programs, Sharing,
         StreamIDs, Given, Locks, HoldsLock, Referers, HandleTableAssumption
<1>13. Limbo'
  BY DEF OpenStream, Unlock, Wake, Goto, tableVars, HdrTypes, ProcTypes,
         Programs, Limbo, OpenStreams, Locks, HoldsLock, Given, Identified
<1>14. Locks'
  BY DEF OpenStream, Unlock, Wake, Goto, tableVars, HdrTypes, ProcTypes,
         Programs, Locks, HoldsLock, StreamsUsed, Limbo
<1>15. SleepersAccounted'
  BY DEF OpenStream, Unlock, Wake, Goto, tableVars, HdrTypes, TableTypes,
         ProcTypes, SleepersAccounted, Limbo, Locks, HoldsLock
<1> QED BY <1>1, <1>2, <1>3, <1>4, <1>5, <1>6, <1>7, <1>8, <1>9, <1>10,
       <1>11, <1>12, <1>13, <1>14, <1>15

(* After a copy the stream is unlocked.                                    *)
LEMMA StreamCopiedKeeps ==
    ASSUME HandleTableAssumption, IInv, NEW a \in Actors,
           StreamCopied(a)
    PROVE  IInv'
<1> USE DEF IInv, HandlesSound, ProcsSound, Types, Live, Removed, Invalid,
       Locked, HasStream, Opening, Shared, InStream
<1>1. HdrTypes'
  BY TypeFacts DEF StreamCopied, Unlock, Wake, Goto, tableVars, HdrTypes,
         Programs, Flags
<1>2. TableTypes'
  BY TypeFacts DEF StreamCopied, Unlock, Wake, Goto, tableVars, TableTypes,
         Programs
<1>3. ProcTypes'
  BY TypeFacts, WakeTypes DEF StreamCopied, Unlock, Goto, tableVars,
         ProcTypes, Programs
<1>4. \A h \in Handles : Referers(h)' = Referers(h)
  BY DEF StreamCopied, Unlock, Wake, Goto, tableVars, HdrTypes, ProcTypes,
         Programs, Referers
<1>5. HandlesSound'
  BY <1>2, <1>4, HandlesKept DEF StreamCopied, Unlock, Wake, Goto,
         tableVars, TableTypes
<1>6. Programs'
  BY DEF StreamCopied, Unlock, Wake, Goto, tableVars, ProcTypes, Programs,
         StreamsUsed
<1>7. LimitsRead'
  BY DEF StreamCopied, Unlock, Wake, Goto, tableVars, TableTypes, ProcTypes,
         LimitsRead
<1>8. Given'
  BY DEF StreamCopied, Unlock, Wake, Goto, tableVars, HdrTypes, ProcTypes,
         Programs, Given, Locks, HoldsLock, Hashed
<1>9. StreamsUsed'
  BY DEF StreamCopied, Unlock, Wake, Goto, tableVars, HdrTypes, ProcTypes,
         Programs, StreamsUsed, Sharing, NoDangling, Referers, Locks,
         HoldsLock, IOHandles
<1>10. IOHandles'
  BY DEF StreamCopied, Unlock, Wake, Goto, tableVars, HdrTypes, ProcTypes,
         Programs, StreamsUsed, IOHandles, NoDangling, Sharing, OpenStreams
<1>11. StreamIDs'
  BY DEF StreamCopied, Unlock, Wake, Goto, tableVars, HdrTypes, ProcTypes,
         Programs, StreamIDs, NoDangling, Referers, Locks, HoldsLock
<1>12. Sharing'
  BY DEF StreamCopied, Unlock, Wake, Goto, tableVars, HdrTypes, ProcTypes,
         Programs, Sharing, StreamsUsed, StreamIDs
<1>13. Limbo'
  BY DEF StreamCopied, Unlock, Wake, Goto, tableVars, HdrTypes, ProcTypes,
         Programs, Limbo, OpenStreams, Locks, HoldsLock, Given, Identified
<1>14. Locks'
  BY DEF StreamCopied, Unlock, Wake, Goto, tableVars, HdrTypes, ProcTypes,
         Programs, Locks, HoldsLock, StreamsUsed, Limbo
<1>15. SleepersAccounted'
  BY DEF StreamCopied, Unlock, Wake, Goto, tableVars, HdrTypes, TableTypes,
         ProcTypes, SleepersAccounted, Limbo, Locks, HoldsLock
<1> QED BY <1>1, <1>2, <1>3, <1>4, <1>5, <1>6, <1>7, <1>8, <1>9, <1>10,
       <1>11, <1>12, <1>13, <1>14, <1>15

(* The stream to close is locked; its references decide how.               *)
LEMMA CloseLockKeeps ==
    ASSUME HandleTableAssumption, IInv, NEW a \in Actors,
           pc[a] \in {"open", "closing"}, ~Locked(str[a]), Lock(str[a], a),
           Goto(a, IF ref[str[a]] > 1 THEN "release" ELSE "closeIO"),
           UNCHANGED <<id, flags, ref, use, io, tableVars, want, limit, str, cur, asleep>>
    PROVE  IInv'
<1> USE DEF IInv, HandlesSound, ProcsSound, Types, Live, Removed, Invalid,
       Locked, HasStream, Opening, Shared, InStream
<1>1. HdrTypes'
  BY TypeFacts DEF Lock, Goto, tableVars, HdrTypes, Programs, Flags
<1>2. TableTypes'
  BY TypeFacts DEF Lock, Goto, tableVars, TableTypes, Programs
<1>3. ProcTypes'
  BY TypeFacts, WakeTypes DEF Lock, Goto, tableVars, ProcTypes, Programs
<1>4. \A h \in Handles : Referers(h)' = Referers(h)
  BY DEF Lock, Goto, tableVars, HdrTypes, ProcTypes, Programs, Referers
<1>5. HandlesSound'
  BY <1>2, <1>4, HandlesKept DEF Lock, Goto, tableVars, TableTypes
<1>6. Programs'
  BY DEF Lock, Goto, tableVars, ProcTypes, Programs, StreamsUsed
<1>7. LimitsRead'
  BY DEF Lock, Goto, tableVars, TableTypes, ProcTypes, LimitsRead
<1>8. Given'
  BY DEF Lock, Goto, tableVars, HdrTypes, ProcTypes, Programs, Given, Locks,
         HoldsLock, Hashed
<1>9. StreamsUsed'
  BY DEF Lock, Goto, tableVars, HdrTypes, ProcTypes, Programs, StreamsUsed,
         Sharing, NoDangling, Referers, Locks, HoldsLock, IOHandles
<1>10. IOHandles'
  BY DEF Lock, Goto, tableVars, HdrTypes, ProcTypes, Programs, StreamsUsed,
         IOHandles, NoDangling, Sharing, OpenStreams
<1>11. StreamIDs'
  BY DEF Lock, Goto, tableVars, HdrTypes, ProcTypes, Programs, StreamIDs,
         NoDangling, Referers, Locks, HoldsLock
<1>12. Sharing'
  <2> DEFINE h == str[a]
  <2>1. /\ h \in Live /\ id[h] \in Streams /\ id[h] \notin Files /\ a \in Referers(h)
        /\ HasStream(a) /\ locker[h] = Nil
    BY StreamLive DEF ProcTypes, Programs, HandleTableAssumption
  <2>2. OpenStreams(h) = {} /\ IsFiniteSet(Referers(h)) /\ Cardinality(Referers(h)) \in Nat
    BY <2>1, FS_Subset, FS_CardinalityType DEF IOHandles, OpenStreams, Referers, HandleTableAssumption
  <2>3. ref[h] = Cardinality(Referers(h))
    <3>1. Cardinality(OpenStreams(h)) = 0
      BY <2>2, FS_EmptySet
    <3>2. ref[h] = Cardinality(Referers(h)) + Cardinality(OpenStreams(h))
      BY <2>1 DEF Counts
    <3> QED BY <2>2, <3>1, <3>2
  <2>4. \A b \in Referers(h) : HasStream(b) /\ str[b] = h
    BY <2>1 DEF Referers, Given, Locks, HoldsLock, Programs, HandleTableAssumption
  <2>5. CASE ref[h] > 1
    <3>1. \E b \in Referers(h) : b # a
      BY <2>1, <2>2, <2>3, <2>5, FS_Singleton
    <3>2. pc' = [pc EXCEPT ![a] = "release"] /\ str' = str
      BY <2>5 DEF Goto
    <3>3. \A b \in Actors : /\ HasStream(b)' <=> HasStream(b)
                            /\ pc'[b] = IF b = a THEN "release" ELSE pc[b]
      BY <2>1, <3>2 DEF ProcTypes
    <3>4. \E b \in Actors : b # a /\ HasStream(b) /\ str[b] = str[a]
      BY <2>4, <3>1 DEF Referers
    <3> QED BY <3>2, <3>3, <3>4 DEF Sharing
  <2>6. CASE ~(ref[h] > 1)
    <3>1. Referers(h) = {a}
      BY <2>1, <2>2, <2>3, <2>6, SoleMember
    <3>2. pc' = [pc EXCEPT ![a] = "closeIO"] /\ str' = str
      BY <2>6 DEF Goto
    <3>3. \A b \in Actors : b # a /\ HasStream(b) => str[b] # h
      BY <3>1 DEF Referers
    <3> QED BY <3>2, <3>3 DEF Sharing, ProcTypes
  <2> QED BY <2>5, <2>6
<1>13. Limbo'
  BY StreamLive DEF Lock, Goto, HdrTypes, ProcTypes, Limbo, OpenStreams
<1>14. Locks'
  BY StreamLive DEF Lock, Goto, HdrTypes, ProcTypes, Locks, HoldsLock,
         HandleTableAssumption
<1>15. SleepersAccounted'
  BY DEF Lock, Goto, tableVars, HdrTypes, TableTypes, ProcTypes,
         SleepersAccounted, Limbo, Locks, HoldsLock
<1> QED BY <1>1, <1>2, <1>3, <1>4, <1>5, <1>6, <1>7, <1>8, <1>9, <1>10,
       <1>11, <1>12, <1>13, <1>14, <1>15

(* So is its I/O handle.                                                   *)
LEMMA CloseLockIOKeeps ==
    ASSUME HandleTableAssumption, IInv, NEW a \in Actors,
           pc[a] = "closeIO", ~Locked(io[str[a]]), Lock(io[str[a]], a), Goto(a, "ioClose"),
           UNCHANGED <<id, flags, ref, use, io, tableVars, want, limit, str, cur, asleep>>
    PROVE  IInv'
<1> USE DEF IInv, HandlesSound, ProcsSound, Types, Live, Removed, Invalid,
       Locked, HasStream, Opening, Shared, InStream
<1>1. HdrTypes'
  BY TypeFacts DEF Lock, Goto, tableVars, HdrTypes, Programs, Flags
<1>2. TableTypes'
  BY TypeFacts DEF Lock, Goto, tableVars, TableTypes, Programs
<1>3. ProcTypes'
  BY TypeFacts, WakeTypes DEF Lock, Goto, tableVars, ProcTypes, Programs
<1>4. \A h \in Handles : Referers(h)' = Referers(h)
  BY DEF Lock, Goto, tableVars, HdrTypes, ProcTypes, Programs, Referers
<1>5. HandlesSound'
  BY <1>2, <1>4, HandlesKept DEF Lock, Goto, tableVars, TableTypes
<1>6. Programs'
  BY DEF Lock, Goto, tableVars, ProcTypes, Programs, StreamsUsed
<1>7. LimitsRead'
  BY DEF Lock, Goto, tableVars, TableTypes, ProcTypes, LimitsRead
<1>8. Given'
  BY DEF Lock, Goto, tableVars, HdrTypes, ProcTypes, Programs, Given, Locks,
         HoldsLock, Hashed
<1>9. StreamsUsed'
  BY DEF Lock, Goto, tableVars, HdrTypes, ProcTypes, Programs, StreamsUsed,
         Sharing, NoDangling, Referers, Locks, HoldsLock, IOHandles
<1>10. IOHandles'
  BY DEF Lock, Goto, tableVars, HdrTypes, ProcTypes, Programs, StreamsUsed,
         IOHandles, NoDangling, Sharing, OpenStreams
<1>11. StreamIDs'
  BY DEF Lock, Goto, tableVars, HdrTypes, ProcTypes, Programs, StreamIDs,
         NoDangling, Referers, Locks, HoldsLock
<1>12. Sharing'
  BY DEF Lock, Goto, tableVars, HdrTypes, ProcTypes, Programs, Sharing,
         StreamsUsed, StreamIDs
<1>13. Limbo'
  BY DEF Lock, Goto, tableVars, HdrTypes, ProcTypes, Programs, Limbo,
         OpenStreams, Locks, HoldsLock, Given, Identified
<1>14. Locks'
  BY IOLive DEF Lock, Goto, HdrTypes, ProcTypes, Locks, HoldsLock,
         HandleTableAssumption
<1>15. SleepersAccounted'
  BY DEF Lock, Goto, tableVars, HdrTypes, TableTypes, ProcTypes,
         SleepersAccounted, Limbo, Locks, HoldsLock
<1> QED BY <1>1, <1>2, <1>3, <1>4, <1>5, <1>6, <1>7, <1>8, <1>9, <1>10,
       <1>11, <1>12, <1>13, <1>14, <1>15

(* A consistency call unlocks the handle and keeps its reference.          *)
LEMMA ConsistUnlockKeeps ==
    ASSUME HandleTableAssumption, IInv, NEW a \in Actors,
           ConsistUnlock(a)
    PROVE  IInv'
<1> USE DEF IInv, HandlesSound, ProcsSound, Types, Live, Removed, Invalid,
       Locked, HasStream, Opening, Shared, InStream
<1>1. HdrTypes'
  BY TypeFacts DEF ConsistUnlock, Unlock, Wake, Goto, tableVars, HdrTypes,
         Programs, Flags
<1>2. TableTypes'
  BY TypeFacts DEF ConsistUnlock, Unlock, Wake, Goto, tableVars, TableTypes,
         Programs
<1>3. ProcTypes'
  BY TypeFacts, WakeTypes DEF ConsistUnlock, Unlock, Goto, tableVars,
         ProcTypes, Programs
<1>4. \A h \in Handles : Referers(h)' = Referers(h)
  BY DEF ConsistUnlock, Unlock, Wake, Goto, tableVars, HdrTypes, ProcTypes,
         Programs, Referers
<1>5. HandlesSound'
  BY <1>2, <1>4, HandlesKept DEF ConsistUnlock, Unlock, Wake, Goto,
         tableVars, TableTypes
<1>6. Programs'
  BY DEF ConsistUnlock, Unlock, Wake, Goto, tableVars, ProcTypes, Programs,
         StreamsUsed
<1>7. LimitsRead'
  BY DEF ConsistUnlock, Unlock, Wake, Goto, tableVars, TableTypes,
         ProcTypes, LimitsRead
<1>8. Given'
  BY DEF ConsistUnlock, Unlock, Wake, Goto, HdrTypes, ProcTypes, Programs,
         Given, HandleTableAssumption, IDs
<1>9. StreamsUsed'
  BY DEF ConsistUnlock, Unlock, Wake, Goto, tableVars, HdrTypes, ProcTypes,
         Programs, StreamsUsed, Sharing, NoDangling, Referers, Locks,
         HoldsLock, IOHandles
<1>10. IOHandles'
  BY DEF ConsistUnlock, Unlock, Wake, Goto, tableVars, HdrTypes, ProcTypes,
         Programs, StreamsUsed, IOHandles, NoDangling, Sharing, OpenStreams
<1>11. StreamIDs'
  BY DEF ConsistUnlock, Unlock, Wake, Goto, tableVars, HdrTypes, ProcTypes,
         Programs, StreamIDs, NoDangling, Referers, Locks, HoldsLock
<1>12. Sharing'
  BY DEF ConsistUnlock, Unlock, Wake, Goto, tableVars, HdrTypes, ProcTypes,
         Programs, Sharing, StreamsUsed, StreamIDs
<1>13. Limbo'
  BY DEF ConsistUnlock, Unlock, Wake, Goto, tableVars, HdrTypes, ProcTypes,
         Programs, Limbo, OpenStreams, Locks, HoldsLock, Given, Identified
<1>14. Locks'
  BY DEF ConsistUnlock, Unlock, Wake, Goto, tableVars, HdrTypes, ProcTypes,
         Programs, Locks, HoldsLock, StreamsUsed, Limbo
<1>15. SleepersAccounted'
  BY DEF ConsistUnlock, Unlock, Wake, Goto, tableVars, HdrTypes, TableTypes,
         ProcTypes, SleepersAccounted, Limbo, Locks, HoldsLock
<1> QED BY <1>1, <1>2, <1>3, <1>4, <1>5, <1>6, <1>7, <1>8, <1>9, <1>10,
       <1>11, <1>12, <1>13, <1>14, <1>15

(* A walk locks a handle that it finds in the table.                       *)
LEMMA GetNextHandleKeeps ==
    ASSUME HandleTableAssumption, IInv, NEW a \in Actors, NEW i \in IDs,
           pc[a] = "idle", a \in Walkers,
           table[i] # Nil, ~Locked(table[i]), Lock(table[i], a),
           cur' = [cur EXCEPT ![a] = table[i]], Goto(a, "have"),
           UNCHANGED <<id, flags, ref, use, io, tableVars, want, limit, str, asleep>>
    PROVE  IInv'
<1> USE DEF IInv, HandlesSound, ProcsSound, Types, Live, Removed, Invalid,
       Locked, HasStream, Opening, Shared, InStream
<1>1. HdrTypes'
  BY DEF Lock, HdrTypes, TableTypes
<1>2. TableTypes'
  BY TypeFacts DEF Lock, Goto, tableVars, TableTypes, Programs
<1>3. ProcTypes'
  BY DEF Goto, ProcTypes, TableTypes
<1>4. \A h \in Handles : Referers(h)' = Referers(h)
  BY DEF Lock, Goto, tableVars, HdrTypes, ProcTypes, Programs, Referers
<1>5. HandlesSound'
  BY <1>2, <1>4, HandlesKept DEF Lock, Goto, tableVars, TableTypes
<1>6. Programs'
  BY DEF Goto, ProcTypes, TableTypes, Programs, HandleTableAssumption
<1>7. LimitsRead'
  BY DEF Lock, Goto, tableVars, TableTypes, ProcTypes, LimitsRead
<1>8. Given'
  BY DEF Goto, ProcTypes, TableTypes, Given, Hashed, Programs
<1>9. StreamsUsed'
  BY DEF Lock, Goto, tableVars, HdrTypes, ProcTypes, Programs, StreamsUsed,
         Sharing, NoDangling, Referers, Locks, HoldsLock, IOHandles
<1>10. IOHandles'
  BY DEF Lock, Goto, tableVars, HdrTypes, ProcTypes, Programs, StreamsUsed,
         IOHandles, NoDangling, Sharing, OpenStreams
<1>11. StreamIDs'
  BY DEF Lock, Goto, tableVars, HdrTypes, ProcTypes, Programs, StreamIDs,
         NoDangling, Referers, Locks, HoldsLock
<1>12. Sharing'
  BY DEF Lock, Goto, tableVars, HdrTypes, ProcTypes, Programs, Sharing,
         StreamsUsed, StreamIDs
<1>13. Limbo'
  BY DEF Lock, HdrTypes, TableTypes, Limbo, OpenStreams, Hashed
<1>14. Locks'
  BY DEF Lock, Goto, HdrTypes, ProcTypes, Locks, HoldsLock, Hashed,
         HandleTableAssumption
<1>15. SleepersAccounted'
  BY DEF Lock, Goto, tableVars, HdrTypes, TableTypes, ProcTypes,
         SleepersAccounted, Limbo, Locks, HoldsLock
<1> QED BY <1>1, <1>2, <1>3, <1>4, <1>5, <1>6, <1>7, <1>8, <1>9, <1>10,
       <1>11, <1>12, <1>13, <1>14, <1>15

(* It is done with it.                                                     *)
LEMMA WalkUnlockKeeps ==
    ASSUME HandleTableAssumption, IInv, NEW a \in Actors,
           WalkUnlock(a)
    PROVE  IInv'
<1> USE DEF IInv, HandlesSound, ProcsSound, Types, Live, Removed, Invalid,
       Locked, HasStream, Opening, Shared, InStream
<1>1. HdrTypes'
  BY TypeFacts DEF WalkUnlock, Unlock, Wake, Goto, tableVars, HdrTypes,
         Programs, Flags
<1>2. TableTypes'
  BY TypeFacts DEF WalkUnlock, Unlock, Wake, Goto, tableVars, TableTypes,
         Programs
<1>3. ProcTypes'
  BY TypeFacts, WakeTypes DEF WalkUnlock, Unlock, Goto, tableVars,
         ProcTypes, Programs
<1>4. \A h \in Handles : Referers(h)' = Referers(h)
  BY DEF WalkUnlock, Unlock, Wake, Goto, tableVars, HdrTypes, ProcTypes,
         Programs, Referers
<1>5. HandlesSound'
  BY <1>2, <1>4, HandlesKept DEF WalkUnlock, Unlock, Wake, Goto, tableVars,
         TableTypes
<1>6. Programs'
  BY DEF WalkUnlock, Unlock, Wake, Goto, tableVars, ProcTypes, Programs,
         StreamsUsed
<1>7. LimitsRead'
  BY DEF WalkUnlock, Unlock, Wake, Goto, tableVars, TableTypes, ProcTypes,
         LimitsRead
<1>8. Given'
  BY DEF WalkUnlock, Unlock, Wake, Goto, tableVars, HdrTypes, ProcTypes,
         Programs, Given, Locks, HoldsLock, Hashed
<1>9. StreamsUsed'
  BY DEF WalkUnlock, Unlock, Wake, Goto, tableVars, HdrTypes, ProcTypes,
         Programs, StreamsUsed, Sharing, NoDangling, Referers, Locks,
         HoldsLock, IOHandles
<1>10. IOHandles'
  BY DEF WalkUnlock, Unlock, Wake, Goto, tableVars, HdrTypes, ProcTypes,
         Programs, StreamsUsed, IOHandles, NoDangling, Sharing, OpenStreams
<1>11. StreamIDs'
  BY DEF WalkUnlock, Unlock, Wake, Goto, tableVars, HdrTypes, ProcTypes,
         Programs, StreamIDs, NoDangling, Referers, Locks, HoldsLock
<1>12. Sharing'
  BY DEF WalkUnlock, Unlock, Wake, Goto, tableVars, HdrTypes, ProcTypes,
         Programs, Sharing, StreamsUsed, StreamIDs
<1>13. Limbo'
  BY DEF WalkUnlock, Unlock, Wake, Goto, tableVars, HdrTypes, ProcTypes,
         Programs, Limbo, OpenStreams, Locks, HoldsLock, Given, Identified
<1>14. Locks'
  BY DEF WalkUnlock, Unlock, Wake, Goto, tableVars, HdrTypes, ProcTypes,
         Programs, Locks, HoldsLock, StreamsUsed, Limbo
<1>15. SleepersAccounted'
  BY DEF WalkUnlock, Unlock, Wake, Goto, tableVars, HdrTypes, TableTypes,
         ProcTypes, SleepersAccounted, Limbo, Locks, HoldsLock
<1> QED BY <1>1, <1>2, <1>3, <1>4, <1>5, <1>6, <1>7, <1>8, <1>9, <1>10,
       <1>11, <1>12, <1>13, <1>14, <1>15

----------------------------------------------------------------------------
(* Steps that change the references.                                       *)

LEMMA FiniteParts ==
    ASSUME HandleTableAssumption
    PROVE  /\ \A h : /\ IsFiniteSet(Referers(h)) /\ Cardinality(Referers(h)) \in Nat
                     /\ IsFiniteSet(OpenStreams(h)) /\ Cardinality(OpenStreams(h)) \in Nat
           /\ IsFiniteSet(InTable) /\ Cardinality(InTable) \in Nat
           /\ IsFiniteSet(InLimbo) /\ Cardinality(InLimbo) \in Nat
<1>1. IsFiniteSet(Live)
  BY FS_Subset DEF Live, HandleTableAssumption
<1>2. \A h : IsFiniteSet(Referers(h)) /\ IsFiniteSet(OpenStreams(h))
  BY <1>1, FS_Subset DEF Referers, OpenStreams, HandleTableAssumption
<1>3. IsFiniteSet(InTable) /\ IsFiniteSet(InLimbo)
  BY <1>1, FS_Subset DEF InTable, InLimbo
<1> QED BY <1>2, <1>3, FS_CardinalityType

LEMMA AddMember ==
    ASSUME NEW S, IsFiniteSet(S), NEW x, x \notin S
    PROVE  Cardinality(S \cup {x}) = Cardinality(S) + 1
BY FS_AddElement

LEMMA DropMember ==
    ASSUME NEW S, IsFiniteSet(S), NEW x \in S
    PROVE  Cardinality(S \ {x}) = Cardinality(S) - 1 /\ Cardinality(S) > 0
BY FS_RemoveElement, FS_EmptySet, FS_CardinalityType

(* As long as no handle is made or removed.                                *)
LEMMA TableKept ==
    ASSUME IInv, UNCHANGED <<id, flags, table, exists, limbo, maxNumber>>
    PROVE  /\ Live' = Live /\ Hashed' /\ Numbers' /\ Identified'
           /\ \A h : Removed(h)' <=> Removed(h)
<1> USE DEF IInv, HandlesSound, ProcsSound, Types
<1>1. /\ Live' = Live /\ InTable' = InTable /\ InLimbo' = InLimbo
      /\ \A h : (Removed(h)' <=> Removed(h)) /\ (Invalid(h)' <=> Invalid(h))
  BY DEF Live, InTable, InLimbo, Removed, Invalid
<1>2. Hashed'
  BY <1>1 DEF Hashed, Live, TableTypes
<1>3. Numbers' /\ Identified'
  BY <1>1 DEF Numbers, Identified
<1> QED BY <1>1, <1>2, <1>3

(* A handle that is found is locked and has one more reference.            *)
LEMMA FoundKeeps ==
    ASSUME HandleTableAssumption, IInv, NEW a \in Actors, NEW h \in Handles,
           ~Locked(h), h = table[want[a]],
           pc[a] \in {"fetch", "install"}, Found(h, a),
           UNCHANGED <<id, flags, use, io, tableVars, want, str, asleep>>
    PROVE  IInv'
<1> USE DEF IInv, HandlesSound, ProcsSound, Types, Live, Removed, Invalid,
       Locked, HasStream, Opening, Shared, InStream
<1>0. /\ want[a] \in IDs /\ h \in Live /\ id[h] = want[a] /\ id[h] \in Files /\ id[h] \notin Streams
      /\ ~Removed(h) /\ ~Invalid(h) /\ str[a] # h
  <2>1. want[a] \in IDs /\ h # Nil
    BY DEF Programs, HandleTableAssumption
  <2>2. h \in Live /\ id[h] = want[a] /\ ~Removed(h) /\ ~Invalid(h)
    BY <2>1 DEF Hashed
  <2>3. id[h] \notin Streams
    BY <2>2 DEF StreamIDs
  <2>4. str[a] # h
    BY <2>2, <2>3, StreamLive
  <2> QED BY <2>1, <2>2, <2>3, <2>4 DEF IDs
<1>1. HdrTypes'
  BY DEF Found, Lock, HdrTypes
<1>2. TableTypes'
  BY TypeFacts DEF Found, Lock, Goto, tableVars, TableTypes, Programs
<1>3. ProcTypes'
  BY DEF Found, Goto, ProcTypes
<1>4. \A g \in Handles : Referers(g)' = IF g = h THEN Referers(h) \cup {a} ELSE Referers(g)
  BY <1>0 DEF Found, Goto, ProcTypes, Referers
<1>5. a \notin Referers(h) /\ \A g \in Handles : OpenStreams(g)' = OpenStreams(g)
  BY <1>0 DEF Found, Referers, OpenStreams
<1>6. Live' = Live /\ Hashed' /\ Numbers' /\ Identified' /\ \A g : Removed(g)' <=> Removed(g)
  BY TableKept DEF tableVars
<1>7. Counts'
  <2>1. Cardinality(Referers(h) \cup {a}) = Cardinality(Referers(h)) + 1
    BY <1>5, FiniteParts, AddMember
  <2>2. \A g \in Live : ref'[g] = IF g = h THEN ref[h] + 1 ELSE ref[g]
    BY DEF Found, HdrTypes
  <2>3. ASSUME NEW g \in Live
        PROVE  /\ ref'[g] = Cardinality(Referers(g)') + Cardinality(OpenStreams(g)')
               /\ use'[g] = Cardinality(OpenStreams(g)')
               /\ Removed(g)' => ref'[g] > 0
    <3>1. /\ ref[g] = Cardinality(Referers(g)) + Cardinality(OpenStreams(g))
          /\ use[g] = Cardinality(OpenStreams(g)) /\ (Removed(g) => ref[g] > 0)
      BY DEF Counts
    <3>2. Cardinality(Referers(g)) \in Nat /\ Cardinality(OpenStreams(g)) \in Nat
      BY FiniteParts
    <3>3. Cardinality(Referers(g)') = Cardinality(Referers(g)) + (IF g = h THEN 1 ELSE 0)
      <4>1. CASE g = h
        BY <1>4, <2>1, <4>1
      <4>2. CASE g # h
        <5>1. Referers(g)' = Referers(g)
          BY <1>4, <4>2
        <5> QED BY <3>2, <4>2, <5>1
      <4> QED BY <4>1, <4>2
    <3>4. OpenStreams(g)' = OpenStreams(g) /\ use'[g] = use[g] /\ (Removed(g)' <=> Removed(g))
      BY <1>5, <1>6
    <3> QED BY <2>2, <3>1, <3>2, <3>3, <3>4
  <2> QED BY <1>6, <2>3 DEF Counts
<1>8. NoDangling'
  BY <1>0, <1>4, <1>5, <1>6 DEF NoDangling
<1>9. Programs'
  BY DEF Found, Lock, Goto, tableVars, ProcTypes, Programs, StreamsUsed
<1>10. LimitsRead'
  BY DEF Found, Lock, Goto, tableVars, TableTypes, ProcTypes, LimitsRead
<1>11. Given'
  BY <1>0 DEF Found, Goto, ProcTypes, HdrTypes, Given, Programs
<1>12. StreamsUsed'
  BY DEF Found, Lock, Goto, tableVars, HdrTypes, ProcTypes, Programs,
         StreamsUsed, Sharing, NoDangling, Referers, Locks, HoldsLock,
         IOHandles
<1>13. IOHandles'
  BY DEF Found, Lock, Goto, tableVars, HdrTypes, ProcTypes, Programs,
         StreamsUsed, IOHandles, NoDangling, Sharing, OpenStreams
<1>14. StreamIDs'
  <2>1. \A b \in Actors : pc[b] \in {"got", "remove"} => /\ b # a /\ pc'[b] = pc[b]
                                                           /\ cur'[b] = cur[b]
    BY DEF Found, Goto, ProcTypes
  <2>2. \A g \in Live : id[g] \in Streams => Referers(g)' = Referers(g)
    BY <1>0, <1>4 DEF HandleTableAssumption
  <2> QED BY <1>6, <2>1, <2>2 DEF StreamIDs
<1>15. Sharing'
  BY DEF Found, Lock, Goto, tableVars, HdrTypes, ProcTypes, Programs,
         Sharing, StreamsUsed, StreamIDs
<1>16. Limbo'
  BY <1>0, <1>5, <1>6 DEF Found, Lock, HdrTypes, Limbo
<1>17. Locks'
  BY <1>0 DEF Found, Lock, Goto, HdrTypes, ProcTypes, Locks, HoldsLock,
         HandleTableAssumption
<1>18. SleepersAccounted'
  BY DEF Found, Lock, Goto, tableVars, HdrTypes, TableTypes, ProcTypes,
         SleepersAccounted, Limbo, Locks, HoldsLock
<1> QED BY <1>1, <1>2, <1>3, <1>4, <1>5, <1>6, <1>7, <1>8, <1>9, <1>10,
       <1>11, <1>12, <1>13, <1>14, <1>15, <1>16, <1>17, <1>18

(* A new handle is in the table under its ID, and has the one reference.   *)
LEMMA InstallKeeps ==
    ASSUME HandleTableAssumption, IInv, NEW a \in Actors, NEW h \in Handles,
           h \notin Live, pc[a] = "install", table[want[a]] = Nil, ~TableFull(a),
           table' = [table EXCEPT ![want[a]] = h],
           id' = [id EXCEPT ![h] = want[a]],
           flags' = [flags EXCEPT ![h] = {"INSTALLED"}],
           ref' = [ref EXCEPT ![h] = 1], use' = [use EXCEPT ![h] = 0],
           io' = [io EXCEPT ![h] = Nil], Lock(h, a), exists' = exists + 1,
           cur' = [cur EXCEPT ![a] = h], limit' = [limit EXCEPT ![a] = 0], Goto(a, "got"),
           UNCHANGED <<lru, asleep, limbo, maxNumber, want, str>>
    PROVE  IInv'
<1> USE DEF IInv, HandlesSound, ProcsSound, Types, Live, Removed, Invalid,
       Locked, HasStream, Opening, Shared, InStream
<1>0. /\ h # Nil /\ want[a] \in IDs /\ a \in Users
  BY DEF Programs, HandleTableAssumption
<1>n. /\ Referers(h) = {} /\ OpenStreams(h) = {}
      /\ \A b \in Actors : ~HoldsLock(b, h) /\ (HasStream(b) => str[b] # h)
  BY <1>0 DEF NoDangling, Locks, Referers, ProcTypes
<1>l. /\ Live' = Live \cup {h} /\ ~Removed(h)' /\ ~Invalid(h)'
      /\ \A g \in Handles \ {h} : /\ id'[g] = id[g] /\ io'[g] = io[g] /\ flags'[g] = flags[g]
                                  /\ ref'[g] = ref[g] /\ use'[g] = use[g]
                                  /\ locker'[g] = locker[g]
      /\ id'[h] = want[a] /\ io'[h] = Nil /\ ref'[h] = 1 /\ use'[h] = 0 /\ locker'[h] = a
  BY <1>0 DEF HdrTypes, Lock
<1>p. /\ \A b \in Actors \ {a} : pc'[b] = pc[b] /\ cur'[b] = cur[b]
      /\ pc'[a] = "got" /\ cur'[a] = h
  BY DEF ProcTypes, Goto
<1>1. HdrTypes'
  BY <1>0 DEF HdrTypes, Lock, Flags
<1>2. TableTypes'
  BY <1>0 DEF TableTypes
<1>3. ProcTypes'
  BY <1>0 DEF Goto, ProcTypes
<1>4. \A g \in Handles : Referers(g)' = IF g = h THEN {a} ELSE Referers(g)
  <2>1. Referers(h)' = {a}
    BY <1>n, <1>p DEF Referers
  <2>2. ASSUME NEW g \in Handles, g # h PROVE Referers(g)' = Referers(g)
    BY <1>p, <2>2 DEF Referers
  <2> QED BY <2>1, <2>2
<1>5. \A g \in Handles : OpenStreams(g)' = OpenStreams(g)
  BY <1>l, <1>0 DEF OpenStreams, HandleTableAssumption, HdrTypes
<1>6. Counts'
  <2>1. Cardinality(Referers(h)') = 1 /\ Cardinality(OpenStreams(h)') = 0
    BY <1>0, <1>n, <1>4, <1>5, FS_Singleton, FS_EmptySet
  <2>2. \A g \in Live : g # h /\ (Removed(g)' <=> Removed(g))
    BY <1>0, <1>l
  <2> QED BY <1>l, <1>4, <1>5, <2>1, <2>2 DEF Counts
<1>7. NoDangling'
  BY <1>l, <1>4, <1>5 DEF NoDangling
<1>8. Hashed'
  <2>1. \A g \in Live : /\ g # h /\ (Removed(g)' <=> Removed(g))
                        /\ (Invalid(g)' <=> Invalid(g)) /\ id'[g] = id[g]
    BY <1>0, <1>l
  <2>2. \A g \in Live : ~Removed(g) /\ ~Invalid(g) => id[g] # want[a]
    BY <1>0 DEF Hashed, HandleTableAssumption
  <2>3. \A i \in IDs : table'[i] = IF i = want[a] THEN h ELSE table[i]
    BY DEF TableTypes
  <2> QED BY <1>0, <1>l, <2>1, <2>2, <2>3 DEF Hashed, Identified
<1>9. Numbers'
  <2>1. InTable' = InTable \cup {h} /\ h \notin InTable /\ InLimbo' = InLimbo
    BY <1>0, <1>l DEF InTable, InLimbo
  <2>2. Cardinality(InTable') = Cardinality(InTable) + 1
    BY <2>1, FiniteParts, AddMember
  <2>3. exists < limit[a] /\ limit[a] <= maxNumber
    BY DEF TableFull, LimitsRead, TableTypes, ProcTypes
  <2>4. exists' <= maxNumber' /\ exists' = exists + 1 /\ limbo' = limbo
    BY <2>3 DEF TableTypes, ProcTypes
  <2> QED BY <2>1, <2>2, <2>4 DEF Numbers
<1>10. Identified'
  BY <1>0, <1>l DEF Identified
<1>11. Programs'
  BY <1>0, <1>p DEF Programs
<1>12. LimitsRead'
  BY DEF LimitsRead, ProcTypes, TableTypes
<1>13. Given'
  <2>1. \A b \in Actors \ {a} : pc[b] \in {"got", "scavenge", "have"} => cur[b] # h
    BY <1>0, <1>n DEF Programs, HoldsLock
  <2>2. \A b \in Actors \ {a} : pc[b] = "using" => cur[b] # h
    BY <1>n DEF Referers
  <2> QED BY <1>l, <1>p, <2>1, <2>2 DEF Given, Programs
<1>14. StreamsUsed'
  BY <1>0, <1>n, <1>l, <1>p DEF StreamsUsed, ProcTypes
<1>15. IOHandles'
  BY <1>0, <1>n, <1>l, <1>p DEF IOHandles, OpenStreams, HdrTypes
<1>16. StreamIDs'
  <2>1. \A g \in Live : g # h /\ id'[g] = id[g] /\ Referers(g)' = Referers(g)
    BY <1>0, <1>l, <1>4
  <2>2. want[a] \in Streams => \A g \in Live : id[g] # want[a]
    BY DEF StreamIDs
  <2>3. \A b \in Actors : want[b] = want[a] /\ want[a] \in Streams => b = a
    BY DEF StreamIDs
  <2>4. \A b \in Actors \ {a} : pc'[b] = pc[b] /\ cur'[b] = cur[b]
    BY <1>p
  <2>5. id'[h] = want[a] /\ pc'[a] = "got" /\ cur'[a] = h /\ Referers(h)' = {a}
    BY <1>0, <1>l, <1>p, <1>4
  <2> QED BY <1>l, <2>1, <2>2, <2>3, <2>4, <2>5 DEF StreamIDs
<1>17. Sharing'
  BY <1>p DEF Sharing
<1>18. Limbo'
  <2>1. \A g \in Live : g # h /\ (Removed(g)' <=> Removed(g)) /\ id'[g] = id[g]
                        /\ locker'[g] = locker[g]
    BY <1>0, <1>l
  <2> QED BY <1>l, <1>5, <2>1 DEF Limbo
<1>19. Locks'
  <2>1. \A b \in Actors \ {a}, g \in Handles : HoldsLock(b, g)' <=> HoldsLock(b, g)
    BY <1>n, <1>l, <1>p DEF HoldsLock, Programs
  <2>2. \A g \in Handles : (HoldsLock(a, g)' <=> g = h) /\ ~HoldsLock(a, g)
    BY <1>p DEF HoldsLock
  <2>3. \A g \in Handles : locker'[g] = IF g = h THEN a ELSE locker[g]
    BY <1>l
  <2> QED BY <1>n, <1>l, <2>1, <2>2, <2>3 DEF Locks
<1>20. SleepersAccounted'
  BY <1>0, <1>l DEF SleepersAccounted, HandleTableAssumption
<1> QED BY <1>1, <1>2, <1>3, <1>4, <1>5, <1>6, <1>7, <1>8, <1>9, <1>10,
       <1>11, <1>12, <1>13, <1>14, <1>15, <1>16, <1>17, <1>18, <1>19, <1>20

(* A step that counts anew the references of one handle, or frees it.      *)
LEMMA CountsKept ==
    ASSUME IInv, NEW h \in Live, Live' \subseteq Live, Live \ {h} \subseteq Live',
           \A g \in Handles \ {h} :
               /\ ref'[g] = ref[g] /\ use'[g] = use[g]
               /\ Referers(g)' = Referers(g) /\ OpenStreams(g)' = OpenStreams(g)
               /\ Removed(g)' <=> Removed(g),
           h \in Live' =>
               /\ ref'[h] = Cardinality(Referers(h)') + Cardinality(OpenStreams(h)')
               /\ use'[h] = Cardinality(OpenStreams(h)')
               /\ Removed(h)' => ref'[h] > 0,
           h \notin Live' => Referers(h)' = {} /\ OpenStreams(h)' = {}
    PROVE  Counts' /\ NoDangling'
<1> USE DEF IInv, HandlesSound
<1>1. ASSUME NEW g \in Live'
      PROVE  /\ ref'[g] = Cardinality(Referers(g)') + Cardinality(OpenStreams(g)')
             /\ use'[g] = Cardinality(OpenStreams(g)')
             /\ Removed(g)' => ref'[g] > 0
  <2>1. CASE g = h
    BY <2>1
  <2>2. CASE g # h
    <3>1. g \in Live /\ g \in Handles \ {h}
      BY <2>2 DEF Live
    <3>2. /\ ref[g] = Cardinality(Referers(g)) + Cardinality(OpenStreams(g))
          /\ use[g] = Cardinality(OpenStreams(g)) /\ (Removed(g) => ref[g] > 0)
      BY <3>1 DEF Counts
    <3> QED BY <3>1, <3>2
  <2> QED BY <2>1, <2>2
<1>2. ASSUME NEW g \in Handles \ Live'
      PROVE  Referers(g)' = {} /\ OpenStreams(g)' = {}
  <2>1. CASE g = h
    BY <2>1
  <2>2. CASE g # h
    BY <2>2 DEF NoDangling, Live
  <2> QED BY <2>1, <2>2
<1> QED BY <1>1, <1>2 DEF Counts, NoDangling, Live

(* The stream that was opened refers to the I/O handle instead of the      *)
(* process.                                                                *)
LEMMA OpenIOKeeps ==
    ASSUME HandleTableAssumption, IInv, NEW a \in Actors,
           OpenIO(a), UNCHANGED overrun
    PROVE  IInv'
<1> USE DEF IInv, HandlesSound, ProcsSound, Types, Live, Removed, Invalid,
       Locked, HasStream, Opening, Shared, InStream
<1>h. PICK h, s : h = cur[a] /\ s = str[a]
  OBVIOUS
<1>0. /\ pc[a] = "got" /\ h \in Live /\ id[h] \in Files /\ id[h] \notin Streams /\ a \in Referers(h)
      /\ HasStream(a) /\ s \in Live /\ id[s] \in Streams /\ s # h /\ io[s] = Nil
      /\ ~Removed(h) /\ locker[h] = a
  <2>1. pc[a] = "got" /\ a \in Users /\ want[a] \in Files /\ h \in Handles /\ a \in Referers(h)
    BY <1>h DEF OpenIO, Programs, Referers
  <2>2. HasStream(a)
    BY <2>1 DEF OpenIO, Programs, ProcTypes, HandleTableAssumption
  <2>3. h \in Live /\ id[h] = want[a] /\ id[h] \notin Streams /\ locker[h] = a /\ ~Removed(h)
    BY <1>h, <2>1 DEF NoDangling, Given, HandleTableAssumption, Locks, HoldsLock
  <2>4. s \in Live /\ id[s] \in Streams /\ io[s] = Nil
    BY <1>h, <2>1, <2>2, StreamLive DEF StreamsUsed
  <2> QED BY <2>1, <2>2, <2>3, <2>4
<1>p. /\ \A b \in Actors : /\ pc'[b] = IF b = a THEN "open" ELSE pc[b]
                           /\ cur'[b] = IF b = a THEN Nil ELSE cur[b]
                           /\ want'[b] = IF b = a THEN Nil ELSE want[b]
      /\ str' = str /\ id' = id /\ flags' = flags /\ ref' = ref
      /\ \A g \in Handles : /\ use'[g] = IF g = h THEN use[h] + 1 ELSE use[g]
                            /\ io'[g] = IF g = s THEN h ELSE io[g]
                            /\ locker'[g] = IF g = h THEN Nil ELSE locker[g]
  BY <1>h DEF OpenIO, Goto, ProcTypes, HdrTypes, Unlock
<1>l. Live' = Live /\ Hashed' /\ Numbers' /\ Identified' /\ \A g : Removed(g)' <=> Removed(g)
  BY TableKept DEF OpenIO, tableVars
<1>1. HdrTypes'
  BY <1>h, <1>0 DEF OpenIO, HdrTypes, Unlock
<1>2. TableTypes'
  BY TypeFacts DEF OpenIO, Unlock, Wake, Goto, tableVars, TableTypes,
         Programs
<1>3. ProcTypes'
  BY TypeFacts, WakeTypes DEF OpenIO, Unlock, Goto, tableVars, ProcTypes,
         Programs
<1>4. \A g \in Handles : Referers(g)' = IF g = h THEN Referers(h) \ {a} ELSE Referers(g)
  BY <1>h, <1>0, <1>p DEF Referers, ProcTypes
<1>5. \A g \in Handles : OpenStreams(g)' = IF g = h THEN OpenStreams(h) \cup {s} ELSE OpenStreams(g)
  BY <1>0, <1>p, <1>l DEF OpenStreams, HdrTypes, HandleTableAssumption
<1>6. Counts' /\ NoDangling'
  <2>1. s \notin OpenStreams(h) /\ h \in Handles
    BY <1>0 DEF OpenStreams, HandleTableAssumption
  <2>2. /\ Cardinality(OpenStreams(h)') = Cardinality(OpenStreams(h)) + 1
        /\ Cardinality(Referers(h)') = Cardinality(Referers(h)) - 1
    <3>1. IsFiniteSet(OpenStreams(h)) /\ IsFiniteSet(Referers(h))
      BY FiniteParts
    <3>2. Cardinality(OpenStreams(h) \cup {s}) = Cardinality(OpenStreams(h)) + 1
      BY <2>1, <3>1, AddMember
    <3>3. Cardinality(Referers(h) \ {a}) = Cardinality(Referers(h)) - 1
      BY <1>0, <3>1, DropMember
    <3> QED BY <2>1, <3>2, <3>3, <1>4, <1>5
  <2>3. /\ ref[h] = Cardinality(Referers(h)) + Cardinality(OpenStreams(h))
        /\ use[h] = Cardinality(OpenStreams(h))
    BY <1>0 DEF Counts
  <2>4. ref'[h] = Cardinality(Referers(h)') + Cardinality(OpenStreams(h)') /\ use'[h] = Cardinality(OpenStreams(h)')
    BY <1>p, <2>1, <2>2, <2>3, FiniteParts
  <2>5. \A g \in Handles \ {h} : /\ ref'[g] = ref[g] /\ use'[g] = use[g]
                                 /\ Referers(g)' = Referers(g) /\ OpenStreams(g)' = OpenStreams(g)
                                 /\ Removed(g)' <=> Removed(g)
    BY <1>p, <1>l, <1>4, <1>5
  <2>6. h \in Live' /\ Live' = Live /\ ~Removed(h)'
    BY <1>0, <1>l
  <2> QED BY <1>0, <2>4, <2>5, <2>6, CountsKept
<1>7. Hashed' /\ Numbers' /\ Identified'
  BY <1>l
<1>8. Programs'
  BY <1>h, <1>0, <1>p, StreamLive DEF Programs, ProcTypes
<1>9. LimitsRead'
  BY DEF OpenIO, LimitsRead, ProcTypes, tableVars
<1>10. Given'
  BY <1>l, <1>p DEF Given
<1>11. StreamsUsed'
  <2>1. \A b \in Actors : HasStream(b)' <=> HasStream(b)
    BY <1>0, <1>p
  <2>2. \A b \in Actors \ {a} : HasStream(b) => str[b] # s
    BY <1>h, <1>0 DEF Sharing
  <2>3. \A b \in Actors : HasStream(b) => str[b] \in Handles
    BY DEF ProcTypes
  <2> QED BY <1>h, <1>0, <1>p, <2>1, <2>2, <2>3 DEF StreamsUsed
<1>12. IOHandles'
  <2>1. \A b \in Actors : pc[b] \in InStream => pc'[b] = pc[b] /\ str'[b] = str[b]
    BY <1>0, <1>p
  <2>2. pc'[a] \in InStream /\ str'[a] = s
    BY <1>h, <1>p
  <2>3. \A g \in Live : io'[g] = IF g = s THEN h ELSE io[g]
    BY <1>p
  <2> QED BY <1>0, <1>p, <1>l, <2>1, <2>2, <2>3 DEF IOHandles
<1>13. StreamIDs'
  <2>1. \A g \in Live : id[g] \in Streams => Referers(g)' = Referers(g)
    BY <1>0, <1>4
  <2>2. \A b \in Actors : want'[b] \in Streams => b # a /\ want[b] = want'[b]
    BY <1>p, TypeFacts DEF HandleTableAssumption
  <2> QED BY <1>l, <1>p, <2>1, <2>2 DEF StreamIDs
<1>14. Sharing'
  BY <1>0, <1>p DEF Sharing
<1>15. Limbo'
  BY <1>0, <1>5, <1>p, <1>l DEF Limbo
<1>16. Locks'
  <2>1. \A b \in Actors \ {a}, g \in Handles : HoldsLock(b, g)' <=> HoldsLock(b, g)
    <3>1. \A b \in Actors \ {a} : pc[b] = "ioClose" => str[b] # s /\ str[b] \in Handles
      BY <1>h, <1>0 DEF Sharing, Programs
    <3> QED BY <1>p, <3>1 DEF HoldsLock
  <2>2. \A g \in Handles : ~HoldsLock(a, g)' /\ (HoldsLock(a, g) <=> g = h)
    BY <1>h, <1>0, <1>p DEF HoldsLock
  <2> QED BY <1>0, <1>l, <1>p, <2>1, <2>2 DEF Locks, HandleTableAssumption
<1>17. SleepersAccounted'
  BY <1>l, <1>p DEF OpenIO, Unlock, Wake, ProcTypes, SleepersAccounted,
         tableVars
<1> QED BY <1>1, <1>2, <1>3, <1>4, <1>5, <1>6, <1>7, <1>8, <1>9, <1>10,
       <1>11, <1>12, <1>13, <1>14, <1>15, <1>16, <1>17

(* A copy of a stream is one more reference to it.                         *)
LEMMA StreamCopyKeeps ==
    ASSUME HandleTableAssumption, IInv, NEW a \in Actors, NEW b \in Users,
           StreamCopy(a, b), UNCHANGED overrun
    PROVE  IInv'
<1> USE DEF IInv, HandlesSound, ProcsSound, Types, Live, Removed, Invalid,
       Locked, HasStream, Opening, Shared, InStream
<1>h. PICK h : h = str[a]
  OBVIOUS
<1>0. /\ b \in Actors /\ a # b /\ pc[a] = "open" /\ pc[b] = "idle" /\ str[b] = Nil /\ want[b] = Nil
      /\ want[a] = Nil /\ a \in Users /\ b \in Users
      /\ h \in Live /\ id[h] \in Streams /\ id[h] \notin Files /\ ~Removed(h) /\ a \in Referers(h)
      /\ io[h] # Nil /\ locker[h] = Nil /\ HasStream(a) /\ h # Nil
  <2>1. b \in Actors /\ a # b /\ pc[a] = "open" /\ pc[b] = "idle" /\ locker[h] = Nil
    BY <1>h DEF StreamCopy, Actors
  <2>2. HasStream(a) /\ want[a] = Nil /\ str[b] = Nil /\ want[b] = Nil /\ h # Nil
    BY <1>h, <2>1 DEF Programs, HandleTableAssumption
  <2> QED BY <1>h, <2>1, <2>2, StreamLive DEF StreamsUsed
<1>p. /\ \A c \in Actors : /\ pc'[c] = IF c = a THEN "copying" ELSE IF c = b THEN "open" ELSE pc[c]
                           /\ str'[c] = IF c = b THEN h ELSE str[c]
      /\ cur' = cur /\ want' = want /\ id' = id /\ flags' = flags /\ use' = use /\ io' = io
      /\ \A g \in Handles : /\ ref'[g] = IF g = h THEN ref[h] + 1 ELSE ref[g]
                            /\ locker'[g] = IF g = h THEN a ELSE locker[g]
  BY <1>h, <1>0 DEF StreamCopy, ProcTypes, HdrTypes, Lock
<1>l. Live' = Live /\ Hashed' /\ Numbers' /\ Identified' /\ \A g : Removed(g)' <=> Removed(g)
  BY TableKept DEF StreamCopy, tableVars
<1>1. HdrTypes'
  BY <1>h, <1>0 DEF StreamCopy, Lock, HdrTypes
<1>2. TableTypes'
  BY TypeFacts DEF StreamCopy, Lock, tableVars, TableTypes, Programs
<1>3. ProcTypes'
  BY DEF StreamCopy, ProcTypes
<1>4. b \notin Referers(h) /\ \A g \in Handles : Referers(g)' = IF g = h THEN Referers(h) \cup {b} ELSE Referers(g)
  BY <1>h, <1>0, <1>p DEF Referers, HandleTableAssumption
<1>5. \A g \in Handles : OpenStreams(g)' = OpenStreams(g)
  BY <1>p, <1>l DEF OpenStreams
<1>6. Counts' /\ NoDangling'
  <2>1. Cardinality(Referers(h)') = Cardinality(Referers(h)) + 1 /\ OpenStreams(h)' = OpenStreams(h)
    BY <1>0, <1>4, <1>5, FiniteParts, AddMember
  <2>2. /\ ref[h] = Cardinality(Referers(h)) + Cardinality(OpenStreams(h))
        /\ use[h] = Cardinality(OpenStreams(h))
    BY <1>0 DEF Counts
  <2>3. /\ ref'[h] = Cardinality(Referers(h)') + Cardinality(OpenStreams(h)')
        /\ use'[h] = Cardinality(OpenStreams(h)')
    BY <1>0, <1>p, <2>1, <2>2, FiniteParts
  <2>4. \A g \in Handles \ {h} : /\ ref'[g] = ref[g] /\ use'[g] = use[g]
                                 /\ Referers(g)' = Referers(g) /\ OpenStreams(g)' = OpenStreams(g)
                                 /\ Removed(g)' <=> Removed(g)
    BY <1>p, <1>l, <1>4, <1>5
  <2>5. h \in Live' /\ Live' = Live /\ ~Removed(h)'
    BY <1>0, <1>l
  <2> QED BY <1>0, <2>3, <2>4, <2>5, CountsKept
<1>7. Hashed' /\ Numbers' /\ Identified'
  BY <1>l
<1>8. Programs'
  BY <1>h, <1>0, <1>p DEF Programs
<1>9. LimitsRead'
  BY DEF StreamCopy, LimitsRead, tableVars
<1>10. Given'
  BY <1>0, <1>l, <1>p DEF Given
<1>11. StreamsUsed'
  BY <1>0, <1>p DEF StreamsUsed
<1>12. IOHandles'
  <2>1. \A c \in Actors : pc[c] \in InStream => pc'[c] \in InStream /\ str'[c] = str[c]
    BY <1>0, <1>p
  <2> QED BY <1>p, <1>l, <2>1 DEF IOHandles
<1>13. StreamIDs'
  <2>1. \A c \in Actors : want[c] # id[h]
    BY <1>0 DEF StreamIDs
  <2>2. \A g \in Live, c \in Actors : want[c] = id[g] => Referers(g)' = Referers(g)
    BY <1>4, <2>1
  <2>3. \A g \in Live, c \in Actors : want[c] = id[g] /\ id[g] \in Streams => c # a /\ c # b
    BY <1>0, TypeFacts DEF HandleTableAssumption
  <2> QED BY <1>l, <1>p, <2>2, <2>3 DEF StreamIDs
<1>14. Sharing'
  BY <1>h, <1>0, <1>p DEF Sharing
<1>15. Limbo'
  BY <1>0, <1>5, <1>p, <1>l DEF Limbo
<1>16. Locks'
  <2>1. \A c \in Actors, g \in Handles : HoldsLock(c, g)' <=> HoldsLock(c, g) \/ (c = a /\ g = h)
    BY <1>h, <1>0, <1>p DEF HoldsLock
  <2>2. \A c \in Actors : ~HoldsLock(c, h)
    BY <1>0 DEF Locks, HandleTableAssumption
  <2> QED BY <1>0, <1>l, <1>p, <2>1, <2>2 DEF Locks
<1>17. SleepersAccounted'
  BY <1>0, <1>l, <1>p DEF StreamCopy, SleepersAccounted, tableVars,
         HandleTableAssumption
<1> QED BY <1>1, <1>2, <1>3, <1>4, <1>5, <1>6, <1>7, <1>8, <1>9, <1>10,
       <1>11, <1>12, <1>13, <1>14, <1>15, <1>16, <1>17

(* The last but one closes a shared stream: another process keeps it.      *)
LEMMA CloseSharedKeeps ==
    ASSUME HandleTableAssumption, IInv, NEW a \in Actors,
           CloseShared(a), UNCHANGED overrun
    PROVE  IInv'
<1> USE DEF IInv, HandlesSound, ProcsSound, Types, Live, Removed, Invalid,
       Locked, HasStream, Opening, Shared, InStream
<1>h. PICK h : h = str[a]
  OBVIOUS
<1>0. /\ pc[a] = "release" /\ want[a] = Nil /\ a \in Users
      /\ h \in Live /\ id[h] \in Streams /\ id[h] \notin Files /\ ~Removed(h) /\ a \in Referers(h)
      /\ HasStream(a) /\ h # Nil /\ io[h] # Nil /\ locker[h] = a
  <2>1. pc[a] = "release"
    BY DEF CloseShared
  <2>2. HasStream(a) /\ want[a] = Nil /\ h # Nil /\ HoldsLock(a, h) /\ h \in Handles
    BY <1>h, <2>1 DEF Programs, HandleTableAssumption, HoldsLock
  <2> QED BY <1>h, <2>1, <2>2, StreamLive DEF StreamsUsed, Locks
<1>c. PICK b \in Actors : b # a /\ HasStream(b) /\ str[b] = h
  BY <1>h, <1>0 DEF Sharing
<1>p. /\ \A c \in Actors : /\ pc'[c] = IF c = a THEN "idle" ELSE pc[c]
                           /\ str'[c] = IF c = a THEN Nil ELSE str[c]
      /\ cur' = cur /\ want' = want /\ id' = id /\ flags' = flags /\ use' = use /\ io' = io
      /\ limbo' = limbo /\ Wake(h) /\ ref' = [ref EXCEPT ![h] = @ - 1]
      /\ \A g \in Handles : /\ ref'[g] = IF g = h THEN ref[h] - 1 ELSE ref[g]
                            /\ locker'[g] = IF g = h THEN Nil ELSE locker[g]
  BY <1>h, <1>0 DEF CloseShared, Release, Goto, ProcTypes, HdrTypes
<1>r. ref[h] > 0
  <2>1. Cardinality(Referers(h)) > 0
    BY <1>0, FiniteParts, DropMember
  <2> QED BY <1>0, <2>1, FiniteParts DEF Counts
<1>l. Live' = Live /\ Hashed' /\ Numbers' /\ Identified' /\ \A g : Removed(g)' <=> Removed(g)
  BY <1>p, TableKept DEF CloseShared
<1>1. HdrTypes'
  BY <1>h, <1>0, <1>p, <1>r DEF CloseShared, Release, HdrTypes
<1>2. TableTypes'
  BY <1>p DEF CloseShared, TableTypes
<1>3. ProcTypes'
  BY <1>p, WakeTypes DEF CloseShared, Goto, ProcTypes
<1>4. \A g \in Handles : Referers(g)' = IF g = h THEN Referers(h) \ {a} ELSE Referers(g)
  BY <1>h, <1>0, <1>p DEF Referers, HandleTableAssumption
<1>5. \A g \in Handles : OpenStreams(g)' = OpenStreams(g)
  BY <1>p, <1>l DEF OpenStreams
<1>6. Counts' /\ NoDangling'
  <2>1. Cardinality(Referers(h)') = Cardinality(Referers(h)) - 1 /\ OpenStreams(h)' = OpenStreams(h)
    BY <1>0, <1>4, <1>5, FiniteParts, DropMember
  <2>2. /\ ref[h] = Cardinality(Referers(h)) + Cardinality(OpenStreams(h))
        /\ use[h] = Cardinality(OpenStreams(h))
    BY <1>0 DEF Counts
  <2>3. /\ ref'[h] = Cardinality(Referers(h)') + Cardinality(OpenStreams(h)')
        /\ use'[h] = Cardinality(OpenStreams(h)')
    BY <1>0, <1>p, <2>1, <2>2, FiniteParts
  <2>4. \A g \in Handles \ {h} : /\ ref'[g] = ref[g] /\ use'[g] = use[g]
                                 /\ Referers(g)' = Referers(g) /\ OpenStreams(g)' = OpenStreams(g)
                                 /\ Removed(g)' <=> Removed(g)
    BY <1>p, <1>l, <1>4, <1>5
  <2>5. h \in Live' /\ Live' = Live /\ ~Removed(h)'
    BY <1>0, <1>l
  <2> QED BY <1>0, <2>3, <2>4, <2>5, CountsKept
<1>7. Hashed' /\ Numbers' /\ Identified'
  BY <1>l
<1>8. Programs'
  BY <1>0, <1>p DEF Programs
<1>9. LimitsRead'
  BY DEF CloseShared, LimitsRead
<1>10. Given'
  BY <1>0, <1>l, <1>p DEF Given
<1>11. StreamsUsed'
  BY <1>0, <1>p DEF StreamsUsed
<1>12. IOHandles'
  <2>1. pc[b] \in InStream /\ b # a /\ str[b] = h
    BY <1>c, <1>0, <1>h DEF Sharing
  <2>2. \A c \in Actors \ {a} : pc'[c] = pc[c] /\ str'[c] = str[c]
    BY <1>p
  <2>3. \A s \in Live : \A c \in Actors : pc[c] \in InStream /\ str[c] = s =>
           \E d \in Actors : pc'[d] \in InStream /\ str'[d] = s
    BY <1>h, <2>1, <2>2
  <2> QED BY <1>p, <1>l, <2>3 DEF IOHandles
<1>13. StreamIDs'
  <2>1. \A c \in Actors : want[c] # id[h]
    BY <1>0 DEF StreamIDs
  <2>2. \A g \in Live, c \in Actors : want[c] = id[g] => Referers(g)' = Referers(g)
    BY <1>4, <2>1
  <2>3. \A g \in Live, c \in Actors : want[c] = id[g] /\ id[g] \in Streams => c # a
    BY <1>0, TypeFacts DEF HandleTableAssumption
  <2> QED BY <1>l, <1>p, <2>2, <2>3 DEF StreamIDs
<1>14. Sharing'
  <2>1. \A c \in Actors : /\ HasStream(c)' <=> c # a /\ HasStream(c)
                          /\ c # a => pc'[c] = pc[c] /\ str'[c] = str[c]
    BY <1>p
  <2>2. \A c \in Actors : pc[c] = "release" /\ c # a => str[c] # h
    <3>1. ASSUME NEW c \in Actors, pc[c] = "release", str[c] = h PROVE c = a
      <4>1. HoldsLock(c, h)
        BY <3>1 DEF HoldsLock
      <4> QED BY <1>0, <4>1 DEF Locks
    <3> QED BY <3>1
  <2>3. \A c, d \in Actors : c # d /\ HasStream(c)' /\ HasStream(d)' /\ str'[c] = str'[d] => pc'[c] \in Shared
    BY <2>1 DEF Sharing
  <2>4. ASSUME NEW c \in Actors, pc'[c] = "release" PROVE \E d \in Actors : d # c /\ HasStream(d)' /\ str'[d] = str'[c]
    <3>1. c # a /\ pc[c] = "release" /\ str'[c] = str[c]
      BY <1>p, <2>4
    <3>2. PICK d \in Actors : d # c /\ HasStream(d) /\ str[d] = str[c]
      BY <3>1 DEF Sharing
    <3>3. d # a
      BY <1>h, <2>2, <3>1, <3>2
    <3> QED BY <2>1, <3>1, <3>2, <3>3
  <2> QED BY <2>3, <2>4 DEF Sharing
<1>15. Limbo'
  BY <1>0, <1>5, <1>p, <1>l DEF Limbo
<1>16. Locks'
  <2>1. \A c \in Actors, g \in Handles : HoldsLock(c, g)' <=> HoldsLock(c, g) /\ ~(c = a /\ g = h)
    BY <1>h, <1>0, <1>p DEF HoldsLock
  <2> QED BY <1>0, <1>l, <1>p, <2>1 DEF Locks, HandleTableAssumption
<1>17. SleepersAccounted'
  BY <1>l, <1>p DEF CloseShared, Wake, ProcTypes, SleepersAccounted
<1> QED BY <1>1, <1>2, <1>3, <1>4, <1>5, <1>6, <1>7, <1>8, <1>9, <1>10,
       <1>11, <1>12, <1>13, <1>14, <1>15, <1>16, <1>17

(* The last to close a stream keeps nothing of it but its ID.              *)
LEMMA StreamDestroyKeeps ==
    ASSUME HandleTableAssumption, IInv, NEW a \in Actors,
           StreamDestroy(a), UNCHANGED overrun
    PROVE  IInv'
<1> USE DEF IInv, HandlesSound, ProcsSound, Types, Live, Removed, Invalid,
       Locked, HasStream, Opening, Shared, InStream
<1>h. PICK h : h = str[a]
  OBVIOUS
<1>0. /\ pc[a] = "destroy" /\ want[a] = Nil /\ a \in Users
      /\ h \in Live /\ id[h] \in Streams /\ id[h] \notin Files /\ ~Removed(h) /\ a \in Referers(h)
      /\ HasStream(a) /\ h # Nil /\ io[h] = Nil /\ locker[h] = a
  <2>1. pc[a] = "destroy"
    BY DEF StreamDestroy
  <2>2. HasStream(a) /\ want[a] = Nil /\ h # Nil /\ HoldsLock(a, h) /\ h \in Handles
    BY <1>h, <2>1 DEF Programs, HandleTableAssumption, HoldsLock
  <2> QED BY <1>h, <2>1, <2>2, StreamLive DEF StreamsUsed, Locks
<1>u. Referers(h) = {a}
  <2>1. ASSUME NEW b \in Referers(h), b # a PROVE FALSE
    <3>1. CASE pc[b] = "got" /\ cur[b] = h
      BY <1>0, <2>1, <3>1 DEF Locks, HoldsLock, Referers
    <3>2. CASE pc[b] = "using" /\ cur[b] = h
      BY <1>0, <2>1, <3>2 DEF Given, Referers
    <3>3. CASE pc[b] # "remove" /\ str[b] = h
      BY <1>h, <1>0, <2>1, <3>3 DEF Sharing, Referers
    <3> QED BY <2>1, <3>1, <3>2, <3>3 DEF Referers
  <2> QED BY <1>0, <2>1
<1>p. /\ \A c \in Actors : /\ pc'[c] = IF c = a THEN "remove" ELSE pc[c]
                           /\ want'[c] = IF c = a THEN id[h] ELSE want[c]
      /\ cur' = cur /\ str' = str /\ id' = id /\ flags' = flags /\ use' = use /\ io' = io
      /\ limbo' = limbo /\ Wake(h) /\ ref' = [ref EXCEPT ![h] = @ - 1]
      /\ \A g \in Handles : /\ ref'[g] = IF g = h THEN ref[h] - 1 ELSE ref[g]
                            /\ locker'[g] = IF g = h THEN Nil ELSE locker[g]
  BY <1>h, <1>0 DEF StreamDestroy, Release, Goto, ProcTypes, HdrTypes
<1>r. ref[h] > 0
  <2>1. Cardinality(Referers(h)) > 0
    BY <1>0, FiniteParts, DropMember
  <2> QED BY <1>0, <2>1, FiniteParts DEF Counts
<1>l. Live' = Live /\ Hashed' /\ Numbers' /\ Identified' /\ \A g : Removed(g)' <=> Removed(g)
  BY <1>p, TableKept DEF StreamDestroy
<1>1. HdrTypes'
  BY <1>h, <1>0, <1>p, <1>r DEF StreamDestroy, Release, HdrTypes
<1>2. TableTypes'
  BY <1>p DEF StreamDestroy, TableTypes
<1>3. ProcTypes'
  BY <1>h, <1>0, <1>p, WakeTypes, TypeFacts DEF StreamDestroy, Goto,
         ProcTypes
<1>4. \A g \in Handles : Referers(g)' = IF g = h THEN {} ELSE Referers(g)
  <2>1. Referers(h)' = {}
    BY <1>h, <1>0, <1>p, <1>u DEF Referers
  <2>2. ASSUME NEW g \in Handles, g # h PROVE Referers(g)' = Referers(g)
    BY <1>h, <1>0, <1>p, <2>2 DEF Referers
  <2> QED BY <2>1, <2>2
<1>5. \A g \in Handles : OpenStreams(g)' = OpenStreams(g)
  BY <1>p, <1>l DEF OpenStreams
<1>6. Counts' /\ NoDangling'
  <2>1. Cardinality(Referers(h)') = Cardinality(Referers(h)) - 1 /\ OpenStreams(h)' = OpenStreams(h)
    <3>1. Cardinality({a}) = 1 /\ Cardinality({}) = 0
      BY FS_Singleton, FS_EmptySet
    <3>2. Referers(h)' = {} /\ OpenStreams(h)' = OpenStreams(h)
      BY <1>0, <1>4, <1>5
    <3> QED BY <1>u, <3>1, <3>2
  <2>2. /\ ref[h] = Cardinality(Referers(h)) + Cardinality(OpenStreams(h))
        /\ use[h] = Cardinality(OpenStreams(h))
    BY <1>0 DEF Counts
  <2>3. /\ ref'[h] = Cardinality(Referers(h)') + Cardinality(OpenStreams(h)')
        /\ use'[h] = Cardinality(OpenStreams(h)')
    BY <1>0, <1>p, <2>1, <2>2, FiniteParts
  <2>4. \A g \in Handles \ {h} : /\ ref'[g] = ref[g] /\ use'[g] = use[g]
                                 /\ Referers(g)' = Referers(g) /\ OpenStreams(g)' = OpenStreams(g)
                                 /\ Removed(g)' <=> Removed(g)
    BY <1>p, <1>l, <1>4, <1>5
  <2>5. h \in Live' /\ Live' = Live /\ ~Removed(h)'
    BY <1>0, <1>l
  <2> QED BY <1>0, <2>3, <2>4, <2>5, CountsKept
<1>7. Hashed' /\ Numbers' /\ Identified'
  BY <1>l
<1>8. Programs'
  BY <1>h, <1>0, <1>p DEF Programs
<1>9. LimitsRead'
  BY DEF StreamDestroy, LimitsRead
<1>10. Given'
  BY <1>0, <1>l, <1>p DEF Given
<1>11. StreamsUsed'
  BY <1>0, <1>p DEF StreamsUsed
<1>12. IOHandles'
  BY <1>0, <1>l, <1>p DEF IOHandles
<1>13. StreamIDs'
  <2>1. \A c \in Actors : want[c] # id[h]
    BY <1>0, <1>u DEF StreamIDs
  <2>2. \A g \in Live : g # h => id[g] # id[h] /\ Referers(g)' = Referers(g)
    BY <1>0, <1>4 DEF StreamIDs
  <2>3. \A g \in Live : id[g] \in Streams => g \in Live /\ id[g] # Nil
    BY DEF HandleTableAssumption, IDs
  <2>4. Referers(h)' = {} /\ str'[a] = h /\ pc'[a] = "remove"
    BY <1>h, <1>0, <1>4, <1>p
  <2>5. \A c \in Actors \ {a} : pc'[c] = pc[c] /\ want'[c] = want[c] /\ cur'[c] = cur[c] /\ str'[c] = str[c]
    BY <1>p
  <2>6. \A c, d \in Actors : c # d /\ want'[c] \in Streams => want'[c] # want'[d]
    BY <1>p, <2>1 DEF StreamIDs
  <2>7. ASSUME NEW g \in Live, NEW c \in Actors, want'[c] = id[g], id[g] \in Streams
        PROVE  \/ pc'[c] = "got" /\ cur'[c] = g /\ Referers(g)' = {c}
               \/ pc'[c] = "remove" /\ str'[c] = g /\ Referers(g)' = {}
    <3>1. CASE c = a
      BY <1>p, <2>2, <2>4, <2>7, <3>1
    <3>2. CASE c # a
      <4>1. want[c] = id[g] /\ g # h
        BY <1>p, <2>1, <2>7, <3>2
      <4> QED BY <2>2, <2>5, <2>7, <3>2, <4>1 DEF StreamIDs
    <3> QED BY <3>1, <3>2
  <2>8. \A g, k \in Live : id[g] = id[k] /\ id[k] \in Streams => g = k
    BY DEF StreamIDs
  <2> QED BY <1>l, <1>p, <2>6, <2>7, <2>8 DEF StreamIDs
<1>14. Sharing'
  BY <1>0, <1>p DEF Sharing
<1>15. Limbo'
  BY <1>0, <1>5, <1>p, <1>l DEF Limbo
<1>16. Locks'
  <2>1. \A c \in Actors, g \in Handles : HoldsLock(c, g)' <=> HoldsLock(c, g) /\ ~(c = a /\ g = h)
    BY <1>h, <1>0, <1>p DEF HoldsLock
  <2> QED BY <1>0, <1>l, <1>p, <2>1 DEF Locks, HandleTableAssumption
<1>17. SleepersAccounted'
  BY <1>l, <1>p DEF StreamDestroy, Wake, ProcTypes, SleepersAccounted
<1> QED BY <1>1, <1>2, <1>3, <1>4, <1>5, <1>6, <1>7, <1>8, <1>9, <1>10,
       <1>11, <1>12, <1>13, <1>14, <1>15, <1>16, <1>17

(* The last to close a stream closes its I/O handle.                       *)
LEMMA CloseIOKeeps ==
    ASSUME HandleTableAssumption, IInv, NEW a \in Actors,
           CloseIO(a), UNCHANGED overrun
    PROVE  IInv'
<1> USE DEF IInv, HandlesSound, ProcsSound, Types, Live, Removed, Invalid,
       Locked, HasStream, Opening, Shared, InStream
<1>h. PICK s, h : s = str[a] /\ h = io[str[a]]
  OBVIOUS
<1>0. /\ pc[a] = "ioClose" /\ want[a] = Nil /\ a \in Users
      /\ s \in Live /\ id[s] \in Streams /\ ~Removed(s) /\ locker[s] = a
      /\ HasStream(a) /\ s # Nil /\ io[s] = h /\ h # Nil
      /\ h \in Live /\ id[h] \in Files /\ ~Removed(h) /\ locker[h] = a /\ h # s
      /\ s \in OpenStreams(h)
  <2>1. pc[a] = "ioClose"
    BY DEF CloseIO
  <2>2. HasStream(a) /\ want[a] = Nil /\ s # Nil /\ HoldsLock(a, s) /\ HoldsLock(a, h) /\ s \in Handles
    BY <1>h, <2>1 DEF Programs, HandleTableAssumption, HoldsLock
  <2>3. s \in Live /\ id[s] \in Streams /\ ~Removed(s) /\ a \in Users /\ h # Nil
    BY <1>h, <2>1, <2>2, StreamLive DEF StreamsUsed
  <2>4. h \in Handles /\ id[h] \in Files
    BY <1>h, <2>3 DEF HdrTypes, IOHandles
  <2>5. locker[s] = a /\ locker[h] = a /\ h \in Live
    BY <2>2, <2>3, <2>4 DEF Locks
  <2>6. ~Removed(h)
    BY <2>5 DEF Limbo, HandleTableAssumption
  <2>7. h # s
    BY <2>3, <2>4 DEF HandleTableAssumption
  <2> QED BY <1>h, <2>1, <2>2, <2>3, <2>4, <2>5, <2>6, <2>7 DEF OpenStreams
<1>p. /\ \A c \in Actors : pc'[c] = IF c = a THEN "destroy" ELSE pc[c]
      /\ cur' = cur /\ str' = str /\ want' = want /\ id' = id /\ flags' = flags
      /\ limbo' = limbo /\ Wake(h) /\ ref' = [ref EXCEPT ![h] = @ - 1]
      /\ use' = [use EXCEPT ![h] = @ - 1] /\ io' = [io EXCEPT ![s] = Nil]
      /\ \A g \in Handles : /\ ref'[g] = IF g = h THEN ref[h] - 1 ELSE ref[g]
                            /\ use'[g] = IF g = h THEN use[h] - 1 ELSE use[g]
                            /\ io'[g] = IF g = s THEN Nil ELSE io[g]
                            /\ locker'[g] = IF g = h THEN Nil ELSE locker[g]
  BY <1>h, <1>0 DEF CloseIO, Release, Goto, ProcTypes, HdrTypes
<1>r. ref[h] > 0 /\ use[h] > 0
  <2>1. Cardinality(OpenStreams(h)) > 0
    BY <1>0, FiniteParts, DropMember
  <2> QED BY <1>0, <2>1, FiniteParts DEF Counts
<1>l. Live' = Live /\ Hashed' /\ Numbers' /\ Identified' /\ \A g : Removed(g)' <=> Removed(g)
  BY <1>p, TableKept DEF CloseIO
<1>1. HdrTypes'
  BY <1>h, <1>0, <1>p, <1>r DEF CloseIO, Release, HdrTypes
<1>2. TableTypes'
  BY <1>p DEF CloseIO, TableTypes
<1>3. ProcTypes'
  BY <1>p, WakeTypes DEF CloseIO, Goto, ProcTypes
<1>4. \A g \in Handles : Referers(g)' = Referers(g)
  BY <1>0, <1>p DEF Referers
<1>5. \A g \in Handles : OpenStreams(g)' = IF g = h THEN OpenStreams(h) \ {s} ELSE OpenStreams(g)
  BY <1>0, <1>p, <1>l DEF OpenStreams, HandleTableAssumption
<1>6. Counts' /\ NoDangling'
  <2>1. /\ Cardinality(OpenStreams(h)') = Cardinality(OpenStreams(h)) - 1
        /\ Referers(h)' = Referers(h)
    BY <1>0, <1>4, <1>5, FiniteParts, DropMember
  <2>2. /\ ref[h] = Cardinality(Referers(h)) + Cardinality(OpenStreams(h))
        /\ use[h] = Cardinality(OpenStreams(h))
    BY <1>0 DEF Counts
  <2>3. /\ ref'[h] = Cardinality(Referers(h)') + Cardinality(OpenStreams(h)')
        /\ use'[h] = Cardinality(OpenStreams(h)')
    BY <1>0, <1>p, <2>1, <2>2, FiniteParts
  <2>4. \A g \in Handles \ {h} : /\ ref'[g] = ref[g] /\ use'[g] = use[g]
                                 /\ Referers(g)' = Referers(g) /\ OpenStreams(g)' = OpenStreams(g)
                                 /\ Removed(g)' <=> Removed(g)
    BY <1>p, <1>l, <1>4, <1>5
  <2>5. h \in Live' /\ Live' = Live /\ ~Removed(h)'
    BY <1>0, <1>l
  <2> QED BY <1>0, <2>3, <2>4, <2>5, CountsKept
<1>7. Hashed' /\ Numbers' /\ Identified'
  BY <1>l
<1>8. Programs'
  BY <1>h, <1>0, <1>p DEF Programs
<1>9. LimitsRead'
  BY DEF CloseIO, LimitsRead
<1>10. Given'
  BY <1>0, <1>l, <1>p DEF Given
<1>11. StreamsUsed'
  BY <1>h, <1>0, <1>p DEF StreamsUsed, Sharing, ProcTypes
<1>12. IOHandles'
  <2>1. \A c \in Actors \ {a} : pc'[c] = pc[c] /\ str'[c] = str[c]
    BY <1>p
  <2>2. ASSUME NEW g \in Live, io'[g] # Nil
        PROVE  /\ id[g] \in Streams /\ id[io'[g]] \in Files
               /\ \E c \in Actors : pc'[c] \in InStream /\ str'[c] = g
    <3>1. g # s /\ io'[g] = io[g]
      BY <1>p, <2>2
    <3>2. PICK c \in Actors : pc[c] \in InStream /\ str[c] = g
      BY <2>2, <3>1 DEF IOHandles
    <3>3. c # a
      BY <1>h, <3>1, <3>2
    <3> QED BY <2>1, <2>2, <3>1, <3>2, <3>3 DEF IOHandles
  <2> QED BY <1>p, <1>l, <2>2 DEF IOHandles
<1>13. StreamIDs'
  <2>1. \A c \in Actors : pc[c] \in {"got", "remove"} => pc'[c] = pc[c]
    BY <1>0, <1>p
  <2>2. \A g \in Live : Referers(g)' = Referers(g)
    BY <1>4
  <2> QED BY <1>l, <1>p, <2>1, <2>2 DEF StreamIDs
<1>14. Sharing'
  BY <1>0, <1>p DEF Sharing
<1>15. Limbo'
  BY <1>0, <1>5, <1>p, <1>l DEF Limbo
<1>16. Locks'
  <2>0. \A c \in Actors \ {a} : pc[c] = "ioClose" => str[c] # s
    BY <1>h, <1>0 DEF Sharing, Programs
  <2>1. \A c \in Actors, g \in Handles : HoldsLock(c, g)' <=> HoldsLock(c, g) /\ ~(c = a /\ g = h)
    <3>1. \A c \in Actors \ {a}, g \in Handles : HoldsLock(c, g)' <=> HoldsLock(c, g)
      BY <1>p, <2>0 DEF HoldsLock, Programs
    <3>2. \A g \in Handles : (HoldsLock(a, g) <=> g = s \/ g = h) /\ (HoldsLock(a, g)' <=> g = s)
      BY <1>h, <1>0, <1>p DEF HoldsLock
    <3> QED BY <1>0, <3>1, <3>2
  <2> QED BY <1>0, <1>l, <1>p, <2>1 DEF Locks, HandleTableAssumption
<1>17. SleepersAccounted'
  BY <1>l, <1>p DEF CloseIO, Wake, ProcTypes, SleepersAccounted
<1> QED BY <1>1, <1>2, <1>3, <1>4, <1>5, <1>6, <1>7, <1>8, <1>9, <1>10,
       <1>11, <1>12, <1>13, <1>14, <1>15, <1>16, <1>17

(* A consistency call releases its handle, and there are other references  *)
(* or it is not removed.                                                   *)
LEMMA ConsistReleaseKeeps ==
    ASSUME HandleTableAssumption, IInv, NEW a \in Actors,
           ConsistRelease(a),
           ~(ref[cur[a]] = 1 /\ Removed(cur[a])), UNCHANGED overrun
    PROVE  IInv'
<1> USE DEF IInv, HandlesSound, ProcsSound, Types, Live, Removed, Invalid,
       Locked, HasStream, Opening, Shared, InStream
<1>h. PICK h : h = cur[a]
  OBVIOUS
<1>0. /\ pc[a] = "using" /\ a \notin Users /\ str[a] = Nil
      /\ h \in Live /\ id[h] \in Files /\ id[h] \notin Streams /\ a \in Referers(h)
  <2>1. pc[a] = "using" /\ a \notin Users /\ str[a] = Nil /\ h \in Handles /\ a \in Referers(h)
    BY <1>h DEF ConsistRelease, Programs, Referers
  <2> QED BY <1>h, <2>1 DEF NoDangling, Given, HandleTableAssumption
<1>r. ref[h] > 0
  <2>1. Cardinality(Referers(h)) > 0
    BY <1>0, FiniteParts, DropMember
  <2> QED BY <1>0, <2>1, FiniteParts DEF Counts
<1>p. /\ \A c \in Actors : /\ pc'[c] = IF c = a THEN "idle" ELSE pc[c]
                           /\ cur'[c] = IF c = a THEN Nil ELSE cur[c]
                           /\ want'[c] = IF c = a THEN Nil ELSE want[c]
      /\ str' = str /\ id' = id /\ flags' = flags /\ use' = use /\ io' = io /\ limbo' = limbo
      /\ locker' = locker /\ asleep' = asleep /\ ref' = [ref EXCEPT ![h] = @ - 1]
      /\ \A g \in Handles : ref'[g] = IF g = h THEN ref[h] - 1 ELSE ref[g]
  BY <1>h, <1>0 DEF ConsistRelease, Release, Goto, ProcTypes, HdrTypes
<1>l. Live' = Live /\ Hashed' /\ Numbers' /\ Identified' /\ \A g : Removed(g)' <=> Removed(g)
  BY <1>p, TableKept DEF ConsistRelease
<1>1. HdrTypes'
  BY <1>h, <1>0, <1>p, <1>r DEF HdrTypes
<1>2. TableTypes'
  BY <1>p DEF ConsistRelease, TableTypes
<1>3. ProcTypes'
  BY <1>p DEF ConsistRelease, Goto, ProcTypes
<1>4. \A g \in Handles : Referers(g)' = IF g = h THEN Referers(h) \ {a} ELSE Referers(g)
  BY <1>h, <1>0, <1>p DEF Referers, HandleTableAssumption
<1>5. \A g \in Handles : OpenStreams(g)' = OpenStreams(g)
  BY <1>p, <1>l DEF OpenStreams
<1>6. Counts' /\ NoDangling'
  <2>1. Cardinality(Referers(h)') = Cardinality(Referers(h)) - 1 /\ OpenStreams(h)' = OpenStreams(h)
    BY <1>0, <1>4, <1>5, FiniteParts, DropMember
  <2>2. /\ ref[h] = Cardinality(Referers(h)) + Cardinality(OpenStreams(h))
        /\ use[h] = Cardinality(OpenStreams(h))
    BY <1>0 DEF Counts
  <2>3. /\ ref'[h] = Cardinality(Referers(h)') + Cardinality(OpenStreams(h)')
        /\ use'[h] = Cardinality(OpenStreams(h)')
    BY <1>0, <1>p, <2>1, <2>2, FiniteParts
  <2>4. \A g \in Handles \ {h} : /\ ref'[g] = ref[g] /\ use'[g] = use[g]
                                 /\ Referers(g)' = Referers(g) /\ OpenStreams(g)' = OpenStreams(g)
                                 /\ Removed(g)' <=> Removed(g)
    BY <1>p, <1>l, <1>4, <1>5
  <2>5. h \in Live' /\ Live' = Live /\ (Removed(h)' => ref'[h] > 0)
    BY <1>h, <1>0, <1>l, <1>p, <1>r DEF HdrTypes
  <2> QED BY <1>0, <2>3, <2>4, <2>5, CountsKept
<1>7. Hashed' /\ Numbers' /\ Identified'
  BY <1>l
<1>8. Programs'
  BY <1>0, <1>p DEF Programs, IDs, HandleTableAssumption
<1>9. LimitsRead'
  BY DEF ConsistRelease, LimitsRead
<1>10. Given'
  BY <1>0, <1>l, <1>p DEF Given
<1>11. StreamsUsed'
  BY <1>0, <1>p DEF StreamsUsed
<1>12. IOHandles'
  BY <1>0, <1>l, <1>p DEF IOHandles
<1>13. StreamIDs'
  <2>1. \A g \in Live : id[g] \in Streams => Referers(g)' = Referers(g)
    BY <1>0, <1>4
  <2>2. \A c \in Actors : want'[c] \in Streams => c # a /\ want'[c] = want[c]
    BY <1>p, TypeFacts DEF HandleTableAssumption
  <2> QED BY <1>l, <1>p, <2>1, <2>2 DEF StreamIDs
<1>14. Sharing'
  BY <1>0, <1>p DEF Sharing
<1>15. Limbo'
  BY <1>0, <1>5, <1>p, <1>l DEF Limbo
<1>16. Locks'
  <2>1. \A c \in Actors, g \in Handles : HoldsLock(c, g)' <=> HoldsLock(c, g)
    BY <1>0, <1>p DEF HoldsLock
  <2> QED BY <1>0, <1>l, <1>p, <2>1 DEF Locks
<1>17. SleepersAccounted'
  BY <1>l, <1>p DEF ConsistRelease, SleepersAccounted
<1> QED BY <1>1, <1>2, <1>3, <1>4, <1>5, <1>6, <1>7, <1>8, <1>9, <1>10,
       <1>11, <1>12, <1>13, <1>14, <1>15, <1>16, <1>17

(* A consistency call releases the last reference to a removed handle: it  *)
(* is freed.                                                               *)
LEMMA ConsistFreeKeeps ==
    ASSUME HandleTableAssumption, IInv, NEW a \in Actors,
           ConsistRelease(a),
           ref[cur[a]] = 1 /\ Removed(cur[a]), UNCHANGED overrun
    PROVE  IInv'
<1> USE DEF IInv, HandlesSound, ProcsSound, Types, Live, Removed, Invalid,
       Locked, HasStream, Opening, Shared, InStream
<1>h. PICK h : h = cur[a]
  OBVIOUS
<1>0. /\ pc[a] = "using" /\ a \notin Users /\ str[a] = Nil
      /\ h \in Live /\ id[h] \in Files /\ id[h] \notin Streams /\ a \in Referers(h)
  <2>1. pc[a] = "using" /\ a \notin Users /\ str[a] = Nil /\ h \in Handles /\ a \in Referers(h)
    BY <1>h DEF ConsistRelease, Programs, Referers
  <2> QED BY <1>h, <2>1 DEF NoDangling, Given, HandleTableAssumption
<1>r. ref[h] > 0
  <2>1. Cardinality(Referers(h)) > 0
    BY <1>0, FiniteParts, DropMember
  <2> QED BY <1>0, <2>1, FiniteParts DEF Counts
<1>u. /\ Referers(h) = {a} /\ OpenStreams(h) = {} /\ locker[h] = Nil
      /\ \A b \in Actors : ~HoldsLock(b, h) /\ asleep[b] # h /\ (HasStream(b) => str[b] # h)
  <2>1. OpenStreams(h) = {} /\ locker[h] = Nil /\ Cardinality({}) = 0
    BY <1>h, <1>0, FS_EmptySet DEF Limbo
  <2>2. Cardinality(Referers(h)) = 1
    <3>1. ref[h] = Cardinality(Referers(h)) + Cardinality(OpenStreams(h))
      BY <1>0 DEF Counts
    <3>2. Cardinality(OpenStreams(h)) = 0
      BY <2>1
    <3>3. Cardinality(Referers(h)) \in Nat
      BY FiniteParts
    <3> QED BY <1>h, <3>1, <3>2, <3>3
  <2>3. Referers(h) = {a}
    BY <1>0, <2>2, FiniteParts, SoleMember
  <2>4. \A b \in Actors : ~HoldsLock(b, h) /\ asleep[b] # h
    BY <1>0, <2>1 DEF Locks, SleepersAccounted, HandleTableAssumption
  <2>5. \A b \in Actors : HasStream(b) => str[b] # h
    BY <1>0 DEF StreamsUsed
  <2> QED BY <2>1, <2>3, <2>4, <2>5
<1>p. /\ \A c \in Actors : /\ pc'[c] = IF c = a THEN "idle" ELSE pc[c]
                           /\ cur'[c] = IF c = a THEN Nil ELSE cur[c]
                           /\ want'[c] = IF c = a THEN Nil ELSE want[c]
      /\ str' = str /\ use' = use /\ io' = io /\ limbo' = limbo - 1 /\ asleep' = asleep
      /\ ref' = [ref EXCEPT ![h] = @ - 1] /\ locker' = [locker EXCEPT ![h] = Nil]
      /\ id' = [id EXCEPT ![h] = Nil] /\ flags' = [flags EXCEPT ![h] = {}]
      /\ \A g \in Handles \ {h} : ref'[g] = ref[g] /\ id'[g] = id[g] /\ flags'[g] = flags[g]
      /\ \A g \in Handles : locker'[g] = locker[g]
      /\ flags'[h] = {}
  BY <1>h, <1>0, <1>u DEF ConsistRelease, Release, Goto, ProcTypes, HdrTypes
<1>l. /\ Live' = Live \ {h} /\ InTable' = InTable /\ InLimbo' = InLimbo \ {h} /\ h \in InLimbo
      /\ \A g \in Handles \ {h} : (Removed(g)' <=> Removed(g)) /\ (Invalid(g)' <=> Invalid(g))
  BY <1>h, <1>0, <1>p DEF InTable, InLimbo
<1>c. Cardinality(InLimbo') = Cardinality(InLimbo) - 1 /\ limbo > 0
  BY <1>l, FiniteParts, DropMember DEF Numbers
<1>1. HdrTypes'
  BY <1>h, <1>0, <1>p, <1>r DEF HdrTypes
<1>2. TableTypes'
  BY <1>p, <1>c DEF ConsistRelease, TableTypes
<1>3. ProcTypes'
  BY <1>p DEF ConsistRelease, Goto, ProcTypes
<1>4. \A g \in Handles : Referers(g)' = IF g = h THEN {} ELSE Referers(g)
  <2>1. Referers(h)' = {}
    BY <1>h, <1>0, <1>p, <1>u DEF Referers
  <2>2. ASSUME NEW g \in Handles, g # h PROVE Referers(g)' = Referers(g)
    BY <1>h, <1>0, <1>p, <2>2 DEF Referers
  <2> QED BY <2>1, <2>2
<1>5. \A g \in Handles : OpenStreams(g)' = OpenStreams(g)
  <2>1. io[h] = Nil
    BY <1>0 DEF IOHandles
  <2> QED BY <2>1, <1>p, <1>l DEF OpenStreams, HandleTableAssumption
<1>6. Counts' /\ NoDangling'
  <2>1. \A g \in Handles \ {h} : /\ ref'[g] = ref[g] /\ use'[g] = use[g]
                                 /\ Referers(g)' = Referers(g) /\ OpenStreams(g)' = OpenStreams(g)
                                 /\ Removed(g)' <=> Removed(g)
    BY <1>p, <1>l, <1>4, <1>5
  <2>2. h \notin Live' /\ Referers(h)' = {} /\ OpenStreams(h)' = {} /\ h \in Live
    BY <1>0, <1>u, <1>l, <1>4, <1>5
  <2>3. Live' \subseteq Live /\ Live \ {h} \subseteq Live'
    BY <1>l
  <2> QED BY <2>1, <2>2, <2>3, CountsKept
<1>7. Hashed'
  <2>1. \A i \in IDs : table[i] # h
    BY <1>h, <1>0 DEF Hashed, HandleTableAssumption
  <2>2. table' = table
    BY DEF ConsistRelease
  <2> QED BY <1>h, <1>0, <1>p, <1>l, <2>1, <2>2 DEF Hashed, TableTypes, Identified
<1>8. Numbers'
  <2>1. exists' = exists /\ maxNumber' = maxNumber
    BY DEF ConsistRelease
  <2> QED BY <1>p, <1>l, <1>c, <2>1 DEF Numbers
<1>9. Identified'
  BY <1>p, <1>l DEF Identified
<1>10. Programs'
  BY <1>0, <1>p DEF Programs, IDs, HandleTableAssumption
<1>11. LimitsRead'
  BY DEF ConsistRelease, LimitsRead
<1>12. Given'
  <2>1. \A b \in Actors \ {a} : pc[b] \in {"got", "scavenge", "have", "using"} => cur[b] # h /\ cur[b] \in Handles
    BY <1>0, <1>u DEF Programs, HoldsLock, Referers
  <2> QED BY <1>p, <1>l, <2>1 DEF Given
<1>13. StreamsUsed'
  BY <1>0, <1>u, <1>p DEF StreamsUsed, ProcTypes
<1>14. IOHandles'
  <2>1. \A s \in Live : io[s] # h
    BY <1>u DEF OpenStreams
  <2>2. \A b \in Actors : pc[b] \in InStream => pc'[b] = pc[b] /\ str'[b] = str[b]
    BY <1>0, <1>p
  <2>3. \A s \in Live' : s \in Live /\ id'[s] = id[s]
    BY <1>p, <1>l
  <2>4. \A s \in Live' : io[s] # Nil => io[s] \in Handles \ {h} /\ id'[io[s]] = id[io[s]]
    BY <1>p, <2>1, <2>3 DEF HdrTypes
  <2> QED BY <1>p, <2>2, <2>3, <2>4 DEF IOHandles
<1>15. StreamIDs'
  <2>1. \A g \in Live' : g \in Live /\ id'[g] = id[g] /\ Referers(g)' = Referers(g)
    BY <1>0, <1>p, <1>l, <1>4
  <2>2. \A c \in Actors : want'[c] \in Streams => c # a /\ want'[c] = want[c]
    BY <1>p, TypeFacts DEF HandleTableAssumption
  <2> QED BY <1>l, <1>p, <2>1, <2>2 DEF StreamIDs
<1>16. Sharing'
  BY <1>0, <1>p DEF Sharing
<1>17. Limbo'
  <2>1. \A g \in Live' : /\ g \in Live /\ g # h /\ id'[g] = id[g] /\ (Removed(g)' <=> Removed(g))
                        /\ OpenStreams(g)' = OpenStreams(g) /\ locker'[g] = locker[g]
    BY <1>p, <1>l, <1>5
  <2> QED BY <2>1 DEF Limbo
<1>18. Locks'
  <2>1. \A c \in Actors, g \in Handles : HoldsLock(c, g)' <=> HoldsLock(c, g)
    BY <1>0, <1>p DEF HoldsLock
  <2> QED BY <1>0, <1>u, <1>l, <1>p, <2>1 DEF Locks
<1>19. SleepersAccounted'
  BY <1>u, <1>l, <1>p DEF ConsistRelease, SleepersAccounted
<1> QED BY <1>1, <1>2, <1>3, <1>4, <1>5, <1>6, <1>7, <1>8, <1>9, <1>10,
       <1>11, <1>12, <1>13, <1>14, <1>15, <1>16, <1>17, <1>18, <1>19

(* A handle that cannot be recovered is not in the table any more.         *)
LEMMA WalkInvalidateKeeps ==
    ASSUME HandleTableAssumption, IInv, NEW a \in Actors,
           WalkInvalidate(a), UNCHANGED overrun
    PROVE  IInv'
<1> USE DEF IInv, HandlesSound, ProcsSound, Types, Live, Removed, Invalid,
       Locked, HasStream, Opening, Shared, InStream
<1>h. PICK h : h = cur[a]
  OBVIOUS
<1>0. /\ pc[a] = "have" /\ want[a] = Nil /\ str[a] = Nil /\ a \notin Users
      /\ h \in Live /\ locker[h] = a /\ ~Removed(h) /\ ~Invalid(h) /\ HoldsLock(a, h) /\ id[h] \in IDs
  <2>1. pc[a] = "have" /\ want[a] = Nil /\ str[a] = Nil /\ a \notin Users /\ h \in Handles /\ HoldsLock(a, h)
    BY <1>h DEF WalkInvalidate, Programs, HoldsLock
  <2> QED BY <1>h, <2>1 DEF Locks, Given, Identified
<1>p. /\ \A c \in Actors : /\ pc'[c] = IF c = a THEN "idle" ELSE pc[c]
                           /\ cur'[c] = IF c = a THEN Nil ELSE cur[c]
      /\ str' = str /\ want' = want /\ id' = id /\ use' = use /\ io' = io /\ limbo' = limbo /\ ref' = ref
      /\ Wake(h) /\ locker' = [locker EXCEPT ![h] = Nil] /\ table' = [table EXCEPT ![id[h]] = Nil]
      /\ flags' = [flags EXCEPT ![h] = @ \cup {"INVALID"}]
      /\ \A g \in Handles : /\ locker'[g] = IF g = h THEN Nil ELSE locker[g]
                            /\ flags'[g] = IF g = h THEN flags[h] \cup {"INVALID"} ELSE flags[g]
      /\ \A i \in IDs : table'[i] = IF i = id[h] THEN Nil ELSE table[i]
  BY <1>h, <1>0 DEF WalkInvalidate, Goto, ProcTypes, HdrTypes, TableTypes, Unlock
<1>l. /\ Live' = Live /\ InTable' = InTable /\ InLimbo' = InLimbo
      /\ \A g \in Handles : (Removed(g)' <=> Removed(g)) /\ (Invalid(g)' <=> Invalid(g) \/ g = h)
  BY <1>0, <1>p DEF InTable, InLimbo
<1>1. HdrTypes'
  BY <1>0, <1>p DEF HdrTypes, Flags
<1>2. TableTypes'
  BY <1>p DEF WalkInvalidate, TableTypes
<1>3. ProcTypes'
  BY <1>p, WakeTypes DEF WalkInvalidate, Goto, ProcTypes
<1>4. \A g \in Handles : Referers(g)' = Referers(g)
  BY <1>0, <1>p DEF Referers
<1>5. \A g \in Handles : OpenStreams(g)' = OpenStreams(g)
  BY <1>p, <1>l DEF OpenStreams
<1>6. Counts' /\ NoDangling'
  BY <1>p, <1>l, <1>4, <1>5 DEF Counts, NoDangling
<1>7. Hashed'
  BY <1>0, <1>p, <1>l DEF Hashed, HandleTableAssumption, Identified
<1>8. Numbers' /\ Identified'
  BY <1>p, <1>l DEF Numbers, Identified, WalkInvalidate
<1>9. Programs'
  BY <1>0, <1>p DEF Programs
<1>10. LimitsRead'
  BY DEF WalkInvalidate, LimitsRead
<1>11. Given'
  <2>1. \A b \in Actors \ {a} : pc[b] \in {"got", "scavenge", "have"} => cur[b] # h /\ cur[b] \in Handles
    BY <1>0 DEF Programs, HoldsLock, Locks
  <2>2. \A b \in Actors : pc[b] = "using" => cur[b] \in Handles
    BY DEF Programs
  <2> QED BY <1>0, <1>p, <1>l, <2>1, <2>2 DEF Given
<1>12. StreamsUsed'
  BY <1>0, <1>p DEF StreamsUsed
<1>13. IOHandles'
  BY <1>0, <1>l, <1>p DEF IOHandles
<1>14. StreamIDs'
  BY <1>0, <1>p, <1>l, <1>4 DEF StreamIDs
<1>15. Sharing'
  BY <1>0, <1>p DEF Sharing
<1>16. Limbo'
  BY <1>0, <1>5, <1>p, <1>l DEF Limbo
<1>17. Locks'
  <2>1. \A c \in Actors, g \in Handles : HoldsLock(c, g)' <=> HoldsLock(c, g) /\ ~(c = a /\ g = h)
    BY <1>h, <1>0, <1>p DEF HoldsLock
  <2> QED BY <1>0, <1>l, <1>p, <2>1 DEF Locks, HandleTableAssumption
<1>18. SleepersAccounted'
  BY <1>l, <1>p DEF WalkInvalidate, Wake, ProcTypes, SleepersAccounted
<1> QED BY <1>1, <1>2, <1>3, <1>4, <1>5, <1>6, <1>7, <1>8, <1>9, <1>10,
       <1>11, <1>12, <1>13, <1>14, <1>15, <1>16, <1>17, <1>18

(* Fsutil_HandleRemoveInt of a handle that no stream is open on: it is out *)
(* of the table, and freed unless there are references to a file.          *)
LEMMA RemoveHandle ==
    ASSUME HandleTableAssumption, IInv, NEW h \in Live, ~Removed(h), HandleRemove(h),
           UNCHANGED <<ref, use, maxNumber, lru, io>>,
           OpenStreams(h) = {}, io[h] = Nil, ref[h] > 0 => id[h] \in Files,
           \A g \in Handles : Referers(g)' = Referers(g)
    PROVE  /\ HdrTypes' /\ TableTypes' /\ HandlesSound' /\ Limbo'
           /\ Live' \subseteq Live /\ Live \ {h} \subseteq Live'
           /\ \A g \in Live' : id'[g] = id[g]
           /\ \A g \in Handles \ {h} : /\ id'[g] = id[g] /\ locker'[g] = locker[g]
                                       /\ Removed(g)' <=> Removed(g)
                                       /\ Invalid(g)' <=> Invalid(g)
           /\ locker'[h] = Nil /\ Wake(h)
           /\ ref[h] = Cardinality(Referers(h)) /\ (ref[h] = 0 <=> Referers(h) = {})
           /\ Referers(h) # {} => h \in Live' /\ id'[h] = id[h]
<1> USE DEF IInv, HandlesSound, ProcsSound, Types, Live, Removed, Invalid, Locked
<1>1. ref[h] = Cardinality(Referers(h)) /\ (ref[h] = 0 <=> Referers(h) = {}) /\ use[h] = 0
  <2>1. Cardinality(OpenStreams(h)) = 0 /\ Cardinality({}) = 0
    BY FS_EmptySet
  <2>2. ref[h] = Cardinality(Referers(h)) /\ use[h] = 0
    <3>1. ref[h] = Cardinality(Referers(h)) + Cardinality(OpenStreams(h)) /\ use[h] = Cardinality(OpenStreams(h))
      BY DEF Counts
    <3>2. Cardinality(Referers(h)) \in Nat
      BY FiniteParts
    <3> QED BY <2>1, <3>1, <3>2
  <2>3. Cardinality(Referers(h)) = 0 <=> Referers(h) = {}
    BY FiniteParts, FS_EmptySet
  <2> QED BY <2>2, <2>3
<1>2. /\ id[h] \in IDs /\ h \in Handles /\ "REMOVED" \in Flags
  BY DEF Identified, Flags
<1>3. HdrTypes'
  BY <1>2 DEF HandleRemove, Unlock, HdrTypes
<1>4. /\ \A g \in Handles \ {h} : /\ id'[g] = id[g] /\ locker'[g] = locker[g]
                                  /\ flags'[g] = flags[g]
      /\ locker'[h] = Nil /\ Wake(h)
      /\ flags'[h] = IF ref[h] > 0 THEN flags[h] \cup {"REMOVED"} ELSE {}
      /\ id'[h] = IF ref[h] > 0 THEN id[h] ELSE Nil
      /\ \A i \in IDs : table'[i] = IF i = id[h] /\ ~Invalid(h) THEN Nil ELSE table[i]
  BY <1>2 DEF HandleRemove, Unlock, HdrTypes, TableTypes
<1>5. /\ InTable' = InTable \ {h} /\ h \in InTable
      /\ Live' = IF ref[h] > 0 THEN Live ELSE Live \ {h}
      /\ InLimbo' = (IF ref[h] > 0 THEN InLimbo \cup {h} ELSE InLimbo) /\ h \notin InLimbo
      /\ \A g \in Handles \ {h} : (Removed(g)' <=> Removed(g)) /\ (Invalid(g)' <=> Invalid(g))
      /\ ref[h] > 0 => Removed(h)'
  BY <1>4 DEF InTable, InLimbo
<1>6. exists = Cardinality(InTable) /\ exists > 0 /\ Cardinality(InTable') = exists - 1
  BY <1>5, FiniteParts, DropMember DEF Numbers
<1>7. Cardinality(InLimbo') = limbo'
  <2>1. Cardinality(InLimbo \cup {h}) = Cardinality(InLimbo) + 1
    BY <1>5, FiniteParts, AddMember
  <2> QED BY <1>5, <2>1 DEF Numbers, HandleRemove
<1>8. TableTypes'
  BY <1>2, <1>6 DEF HandleRemove, TableTypes
<1>9. Numbers'
  BY <1>6, <1>7 DEF HandleRemove, Numbers, TableTypes
<1>10. \A g \in Handles : OpenStreams(g)' = OpenStreams(g)
  BY <1>5 DEF OpenStreams, HandleTableAssumption
<1>11. Counts' /\ NoDangling'
  <2>1. \A g \in Handles \ {h} : /\ ref'[g] = ref[g] /\ use'[g] = use[g]
                                 /\ Referers(g)' = Referers(g) /\ OpenStreams(g)' = OpenStreams(g)
                                 /\ Removed(g)' <=> Removed(g)
    BY <1>5, <1>10
  <2>2. h \in Live' => /\ ref'[h] = Cardinality(Referers(h)') + Cardinality(OpenStreams(h)')
                       /\ use'[h] = Cardinality(OpenStreams(h)')
                       /\ Removed(h)' => ref'[h] > 0
    <3>1. Cardinality(OpenStreams(h)') = 0 /\ Referers(h)' = Referers(h)
      BY <1>2, <1>10, FS_EmptySet
    <3> QED BY <1>1, <1>5, <3>1, FiniteParts
  <2>3. h \notin Live' => Referers(h)' = {} /\ OpenStreams(h)' = {}
    BY <1>1, <1>2, <1>5, <1>10 DEF HdrTypes
  <2>4. Live' \subseteq Live /\ Live \ {h} \subseteq Live'
    BY <1>5
  <2> QED BY <2>1, <2>2, <2>3, <2>4, CountsKept
<1>12. Hashed'
  <2>1. \A i \in IDs : table[i] = h => i = id[h] /\ ~Invalid(h)
    BY <1>2 DEF Hashed, HandleTableAssumption
  <2>2. \A g \in Live : g # h /\ ~Removed(g) /\ ~Invalid(g) => ~(id[g] = id[h] /\ ~Invalid(h))
    BY <1>2 DEF Hashed
  <2>3. ASSUME NEW i \in IDs, table'[i] # Nil
        PROVE  /\ table'[i] \in Live' /\ id'[table'[i]] = i
               /\ ~Removed(table[i])' /\ ~Invalid(table[i])'
    <3> DEFINE g == table[i]
    <3>1. table'[i] = g /\ g # h
      BY <1>4, <2>1, <2>3
    <3>2. g \in Live /\ id[g] = i /\ ~Removed(g) /\ ~Invalid(g)
      BY <2>3, <3>1 DEF Hashed
    <3>3. g \in Live' /\ id'[g] = i
      BY <1>4, <1>5, <3>1, <3>2
    <3>4. "REMOVED" \notin flags'[g] /\ "INVALID" \notin flags'[g]
      BY <1>4, <3>1, <3>2
    <3> QED BY <3>1, <3>3, <3>4
  <2>4. \A g \in Live' : ~Removed(g)' /\ ~Invalid(g)' => table'[id'[g]] = g
    BY <1>4, <1>5, <2>2 DEF Hashed, Identified
  <2> HIDE DEF IInv, HandlesSound, ProcsSound, Types, Live, Removed, Invalid
  <2> QED BY <2>3, <2>4 DEF Hashed
<1>13. Identified'
  BY <1>4, <1>5 DEF Identified
<1>14. Limbo'
  BY <1>2, <1>4, <1>5, <1>10 DEF Limbo
<1> QED BY <1>1, <1>3, <1>4, <1>5, <1>8, <1>9, <1>11, <1>12, <1>13, <1>14 DEF HdrTypes

(* A walk, or the scan for a handle to replace, removes the handle it has  *)
(* locked.                                                                 *)
LEMMA RemoveLockedKeeps ==
    ASSUME HandleTableAssumption, IInv, NEW a \in Actors, NEW l,
           (pc[a] = "have" /\ l = "idle") \/ (pc[a] = "scavenge" /\ l = "doneHit"),
           MayScavenge(cur[a]) \/ (id[cur[a]] \in Streams /\ ref[cur[a]] = 0),
           HandleRemove(cur[a]), Goto(a, l), cur' = [cur EXCEPT ![a] = Nil],
           UNCHANGED <<ref, use, maxNumber, lru, want, limit, str, io>>
    PROVE  IInv'
<1> USE DEF IInv, HandlesSound, ProcsSound, Types, Live, Removed, Invalid, Locked,
            HasStream, Opening, Shared, InStream
<1>h. PICK h : h = cur[a]
  OBVIOUS
<1>0. /\ pc[a] \in {"have", "scavenge"} /\ HoldsLock(a, h) /\ h \in Live /\ locker[h] = a
      /\ ~Removed(h)
  BY <1>h DEF Programs, HoldsLock, Locks, Given
<1>1. OpenStreams(h) = {} /\ io[h] = Nil /\ (ref[h] > 0 => id[h] \in Files)
  <2>1. CASE MayScavenge(h)
    <3>1. Cardinality(OpenStreams(h)) = 0
      BY <1>0, <2>1 DEF MayScavenge, Counts
    <3>2. OpenStreams(h) = {}
      BY <3>1, FiniteParts, FS_EmptySet
    <3> QED BY <1>0, <2>1, <3>2 DEF MayScavenge, IOHandles, HandleTableAssumption
  <2>2. CASE id[h] \in Streams /\ ref[h] = 0
    <3>1. OpenStreams(h) = {}
      BY <1>0, <2>2 DEF OpenStreams, IOHandles, HandleTableAssumption
    <3>2. Referers(h) = {}
      <4>1. Cardinality(Referers(h)) = 0
        BY <1>0, <2>2, FiniteParts DEF Counts
      <4> QED BY <4>1, FiniteParts, FS_EmptySet
    <3>3. \A b \in Actors : ~(pc[b] \in InStream /\ str[b] = h)
      BY <3>2 DEF Referers
    <3> QED BY <1>0, <2>2, <3>1, <3>3 DEF IOHandles, HdrTypes
  <2> QED BY <1>h, <2>1, <2>2
<1>p. /\ \A b \in Actors : /\ pc'[b] = IF b = a THEN l ELSE pc[b]
                           /\ cur'[b] = IF b = a THEN Nil ELSE cur[b]
      /\ want' = want /\ str' = str /\ limit' = limit /\ io' = io /\ ref' = ref
      /\ l \in {"idle", "doneHit"} /\ (l = "idle" <=> pc[a] = "have")
  BY DEF Goto, ProcTypes
<1>2. \A g \in Handles : Referers(g)' = Referers(g)
  BY <1>0, <1>p DEF Referers
<1>l. /\ HdrTypes' /\ TableTypes' /\ HandlesSound' /\ Limbo'
      /\ Live' \subseteq Live /\ Live \ {h} \subseteq Live'
      /\ \A g \in Live' : id'[g] = id[g]
      /\ \A g \in Handles \ {h} : /\ id'[g] = id[g] /\ locker'[g] = locker[g]
                                  /\ Removed(g)' <=> Removed(g)
                                  /\ Invalid(g)' <=> Invalid(g)
      /\ locker'[h] = Nil /\ Wake(h)
      /\ Referers(h) # {} => h \in Live' /\ id'[h] = id[h]
  BY <1>h, <1>0, <1>1, <1>2, RemoveHandle
<1>3. ProcTypes'
  BY <1>l, <1>p, WakeTypes DEF ProcTypes, Goto
<1>4. Programs'
  BY <1>0, <1>p DEF Programs
<1>5. LimitsRead'
  BY DEF LimitsRead
<1>6. Given'
  <2>1. \A b \in Actors \ {a} : pc[b] \in {"got", "scavenge", "have"} => cur[b] \in Handles \ {h}
    BY <1>0 DEF Programs, HoldsLock, Locks
  <2>2. \A b \in Actors : pc[b] = "using" => cur[b] \in Handles /\ id'[cur[b]] = id[cur[b]]
    BY <1>l DEF Programs, Referers
  <2> QED BY <1>0, <1>p, <1>l, <2>1, <2>2 DEF Given
<1>s. \A b \in Actors : HasStream(b) => str[b] \in Handles /\ id'[str[b]] = id[str[b]]
  BY <1>l DEF ProcTypes, Referers
<1>7. StreamsUsed'
  BY <1>0, <1>p, <1>s DEF StreamsUsed
<1>8. IOHandles'
  <2>1. \A b \in Actors : pc[b] \in InStream => pc'[b] = pc[b]
    BY <1>0, <1>p
  <2>2. \A s \in Live : io[s] # Nil => io[s] \in Handles \ {h}
    BY <1>1 DEF OpenStreams, HdrTypes
  <2> QED BY <1>p, <1>l, <2>1, <2>2 DEF IOHandles
<1>9. StreamIDs'
  BY <1>0, <1>2, <1>p, <1>l DEF StreamIDs
<1>10. Sharing'
  BY <1>0, <1>p DEF Sharing
<1>11. Locks'
  <2>1. \A c \in Actors, g \in Handles : HoldsLock(c, g)' <=> HoldsLock(c, g) /\ ~(c = a /\ g = h)
    BY <1>h, <1>0, <1>p DEF HoldsLock
  <2>2. \A c \in Actors \ {a} : ~HoldsLock(c, h)
    BY <1>0 DEF Locks
  <2> QED BY <1>0, <1>l, <2>1, <2>2 DEF Locks, HandleTableAssumption
<1>12. SleepersAccounted'
  BY <1>l, <1>p DEF SleepersAccounted, Wake, ProcTypes
<1> QED BY <1>l, <1>3, <1>4, <1>5, <1>6, <1>7, <1>8, <1>9, <1>10, <1>11, <1>12

(* Fsio_StreamDestroy removes the handle, which nobody has found since.    *)
LEMMA StreamRemoveKeeps ==
    ASSUME HandleTableAssumption, IInv, NEW a \in Actors, pc[a] = "remove",
           str[a] \in Live, id[str[a]] = want[a], ~Locked(str[a]), HandleRemove(str[a]),
           str' = [str EXCEPT ![a] = Nil], want' = [want EXCEPT ![a] = Nil], Goto(a, "idle"),
           UNCHANGED <<ref, use, maxNumber, lru, limit, io, cur>>
    PROVE  IInv'
<1> USE DEF IInv, HandlesSound, ProcsSound, Types, Live, Removed, Invalid, Locked,
            HasStream, Opening, Shared, InStream
<1>h. PICK h : h = str[a]
  OBVIOUS
<1>0. /\ h \in Live /\ want[a] = id[h] /\ id[h] \in Streams /\ id[h] \notin Files /\ a \in Users
      /\ locker[h] = Nil /\ ~Removed(h) /\ Referers(h) = {}
      /\ \A b \in Actors : ~HoldsLock(b, h)
  <2>1. h \in Live /\ want[a] = id[h] /\ id[h] \in Streams /\ id[h] \notin Files /\ locker[h] = Nil
    BY <1>h DEF Programs, HandleTableAssumption
  <2>2. Referers(h) = {} /\ ~Removed(h)
    BY <2>1 DEF StreamIDs, Limbo
  <2> QED BY <2>1, <2>2 DEF Locks, HandleTableAssumption, Programs
<1>1. OpenStreams(h) = {} /\ io[h] = Nil /\ ref[h] = 0
  <2>1. OpenStreams(h) = {}
    BY <1>0 DEF OpenStreams, IOHandles
  <2>2. io[h] = Nil
    BY <1>0 DEF IOHandles, Referers
  <2>3. ref[h] = Cardinality(Referers(h)) + Cardinality(OpenStreams(h)) /\ Cardinality({}) = 0
    BY <1>0, FS_EmptySet DEF Counts
  <2> QED BY <1>0, <2>1, <2>2, <2>3
<1>p. /\ \A b \in Actors : /\ pc'[b] = IF b = a THEN "idle" ELSE pc[b]
                           /\ str'[b] = IF b = a THEN Nil ELSE str[b]
                           /\ want'[b] = IF b = a THEN Nil ELSE want[b]
      /\ cur' = cur /\ limit' = limit /\ io' = io /\ ref' = ref
  BY DEF Goto, ProcTypes
<1>2. \A g \in Handles : Referers(g)' = Referers(g)
  BY <1>p DEF Referers, HandleTableAssumption
<1>l. /\ HdrTypes' /\ TableTypes' /\ HandlesSound' /\ Limbo'
      /\ Live' \subseteq Live /\ Live \ {h} \subseteq Live'
      /\ \A g \in Live' : id'[g] = id[g]
      /\ \A g \in Handles \ {h} : /\ id'[g] = id[g] /\ locker'[g] = locker[g]
                                  /\ Removed(g)' <=> Removed(g)
                                  /\ Invalid(g)' <=> Invalid(g)
      /\ locker'[h] = Nil /\ Wake(h)
  <2>1. ~(ref[h] > 0)
    BY <1>1
  <2> QED BY <1>h, <1>0, <1>1, <1>2, <2>1, RemoveHandle
<1>3. ProcTypes'
  BY <1>l, <1>p, WakeTypes DEF ProcTypes, Goto
<1>4. Programs'
  BY <1>0, <1>p DEF Programs
<1>5. LimitsRead'
  BY DEF LimitsRead
<1>6. Given'
  <2>1. \A b \in Actors : pc[b] \in {"got", "scavenge", "have", "using"} => cur[b] \in Handles \ {h}
    BY <1>0 DEF Programs, HoldsLock, Referers
  <2> QED BY <1>p, <1>l, <2>1 DEF Given, Programs
<1>s. \A b \in Actors : HasStream(b) => str[b] \in Handles \ {h} /\ id'[str[b]] = id[str[b]]
  BY <1>0, <1>l DEF ProcTypes, Referers
<1>7. StreamsUsed'
  BY <1>p, <1>s DEF StreamsUsed
<1>8. IOHandles'
  <2>1. \A b \in Actors : pc[b] \in InStream => pc'[b] = pc[b] /\ str'[b] = str[b]
    BY <1>p
  <2>2. \A s \in Live : io[s] # Nil => io[s] \in Handles \ {h}
    BY <1>1 DEF OpenStreams, HdrTypes
  <2> QED BY <1>p, <1>l, <2>1, <2>2 DEF IOHandles
<1>9. StreamIDs'
  <2>1. \A b \in Actors : want'[b] \in Streams => b # a /\ want'[b] = want[b]
    BY <1>p, TypeFacts DEF HandleTableAssumption
  <2> QED BY <1>2, <1>p, <1>l, <2>1 DEF StreamIDs
<1>10. Sharing'
  BY <1>p DEF Sharing
<1>11. Locks'
  <2>1. \A c \in Actors, g \in Handles : HoldsLock(c, g)' <=> HoldsLock(c, g)
    BY <1>p DEF HoldsLock
  <2> QED BY <1>0, <1>l, <2>1 DEF Locks, HandleTableAssumption
<1>12. SleepersAccounted'
  BY <1>l, <1>p DEF SleepersAccounted, Wake, ProcTypes
<1> QED BY <1>l, <1>3, <1>4, <1>5, <1>6, <1>7, <1>8, <1>9, <1>10, <1>11, <1>12

(* A step that changes no handle and no process.                           *)
LEMMA StutterKeeps ==
    ASSUME IInv, UNCHANGED <<hdrVars, tableVars, procVars>>
    PROVE  IInv'
<1> USE DEF IInv, HandlesSound, ProcsSound, Types, hdrVars, tableVars, procVars, Live, Removed,
            Invalid, Locked, HasStream
<1>1. HdrTypes' /\ TableTypes' /\ ProcTypes'
  BY DEF HdrTypes, TableTypes, ProcTypes
<1>2. \A h : /\ (h \in Live' <=> h \in Live) /\ (Removed(h)' <=> Removed(h)) /\ (Invalid(h)' <=> Invalid(h))
             /\ Referers(h)' = Referers(h) /\ OpenStreams(h)' = OpenStreams(h)
             /\ \A a : HoldsLock(a, h)' <=> HoldsLock(a, h)
  BY DEF Referers, OpenStreams, HoldsLock
<1>3. InTable' = InTable /\ InLimbo' = InLimbo
  BY DEF InTable, InLimbo
<1>4. Counts' /\ NoDangling' /\ Hashed' /\ Numbers' /\ Identified'
  BY <1>2, <1>3 DEF Counts, NoDangling, Hashed, Numbers, Identified
<1>5. Programs' /\ LimitsRead' /\ Given' /\ StreamsUsed' /\ IOHandles' /\ Sharing'
  BY DEF Programs, LimitsRead, Given, StreamsUsed, IOHandles, Sharing
<1>6. StreamIDs' /\ Limbo' /\ Locks' /\ SleepersAccounted'
  BY <1>2 DEF StreamIDs, Limbo, Locks, SleepersAccounted
<1> QED BY <1>1, <1>4, <1>5, <1>6

----------------------------------------------------------------------------
(* Every step, and the theorems.                                           *)

(* Fsutil_HandleFetch.                                                     *)
LEMMA FetchKeeps ==
    ASSUME HandleTableAssumption, IInv, NEW a \in Actors, HandleFetch(a), UNCHANGED overrun
    PROVE  IInv'
<1>h. PICK h : h = table[want[a]]
  OBVIOUS
<1>0. pc[a] = "fetch" /\ (h # Nil => h \in Handles)
  BY <1>h DEF HandleFetch, IInv, ProcsSound, Programs, Opening, Types, TableTypes
<1>1. CASE h = Nil
  BY <1>h, <1>1, FetchNoneKeeps
<1>2. CASE h # Nil /\ Locked(h)
  <2>1. Sleep(a, h) /\ pc' = pc /\ UNCHANGED <<hdrVars, tableVars, want, limit, str, cur>>
    BY <1>h, <1>2 DEF HandleFetch, hdrVars, tableVars
  <2> QED BY <1>0, <1>2, <2>1, SleepKeeps
<1>3. CASE h # Nil /\ ~Locked(h)
  <2>1. Found(h, a) /\ UNCHANGED <<id, flags, use, io, tableVars, want, str, asleep>>
    BY <1>h, <1>3 DEF HandleFetch
  <2> QED BY <1>h, <1>0, <1>3, <2>1, FoundKeeps
<1> QED BY <1>1, <1>2, <1>3

(* HandleInstallInt.                                                       *)
LEMMA HandleInstallKeeps ==
    ASSUME HandleTableAssumption, IInv, NEW a \in Actors, HandleInstallInt(a), UNCHANGED overrun
    PROVE  IInv'
<1>h. PICK h : h = table[want[a]]
  OBVIOUS
<1>0. /\ pc[a] = "install" /\ (h # Nil => h \in Handles)
      /\ UNCHANGED <<limbo, maxNumber, want, str>>
  BY <1>h DEF HandleInstallInt, IInv, ProcsSound, Programs, Opening, Types, TableTypes
<1>1. CASE h = Nil /\ ~TableFull(a)
  <2>1. Install(a) /\ UNCHANGED <<lru, asleep>>
    BY <1>h, <1>1 DEF HandleInstallInt
  <2>2. PICK x : x = CHOOSE y \in Handles : y \notin Live
    OBVIOUS
  <2>3. x \in Handles /\ x \notin Live
    BY <2>1, <2>2 DEF Install
  <2> QED BY <1>h, <1>0, <1>1, <2>1, <2>2, <2>3, InstallKeeps DEF Install
<1>2. CASE h = Nil /\ TableFull(a) /\ lru.busy
  <2>1. /\ Sleep(a, "lruDone")
        /\ UNCHANGED <<hdrVars, tableVars, pc, want, limit, str, cur>>
    BY <1>h, <1>0, <1>2 DEF HandleInstallInt, tableVars
  <2> QED BY <1>2, <2>1, ScanWaitKeeps
<1>3. CASE h = Nil /\ TableFull(a) /\ ~lru.busy
  <2>1. /\ lru' = [busy |-> TRUE, checked |-> 0]
        /\ limit' = [limit EXCEPT ![a] = 0] /\ Goto(a, "scan")
        /\ UNCHANGED <<hdrVars, table, exists, asleep, cur>>
    BY <1>h, <1>3 DEF HandleInstallInt
  <2> QED BY <1>0, <2>1, ScanStartKeeps
<1>4. CASE h # Nil /\ Locked(h)
  <2>1. Sleep(a, h) /\ pc' = pc /\ UNCHANGED <<hdrVars, tableVars, want, limit, str, cur>>
    BY <1>h, <1>0, <1>4 DEF HandleInstallInt, tableVars
  <2> QED BY <1>0, <1>4, <2>1, SleepKeeps
<1>5. CASE h # Nil /\ ~Locked(h)
  <2>1. Found(h, a) /\ UNCHANGED <<id, flags, use, io, tableVars, want, str, asleep>>
    BY <1>h, <1>0, <1>5 DEF HandleInstallInt, tableVars
  <2> QED BY <1>h, <1>0, <1>5, <2>1, FoundKeeps
<1> QED BY <1>1, <1>2, <1>3, <1>4, <1>5

(* GetNextLRUHandle.                                                       *)
LEMMA ScanKeeps ==
    ASSUME HandleTableAssumption, IInv, NEW a \in Actors, GetNextLRUHandle(a), UNCHANGED overrun
    PROVE  IInv'
<1>0. /\ pc[a] = "scan"
      /\ UNCHANGED <<id, flags, ref, use, table, exists, limbo, maxNumber,
                     want, limit, str, io, asleep>>
  BY DEF GetNextLRUHandle
<1>1. ASSUME NEW h \in Listed \ Passed, NEW k \in 0 .. Cardinality(Passed),
             lru' = [lru EXCEPT !.checked = @ + k + 1], Lock(h, a),
             cur' = [cur EXCEPT ![a] = h], Goto(a, "scavenge")
      PROVE  IInv'
  <2>1. h \in Handles /\ h \in Live /\ id[h] \in Files /\ ~Locked(h) /\ ~Removed(h)
    BY DEF Listed, Passed, Live
  <2>2. Cardinality(Passed) \in Nat
    <3>1. IsFiniteSet(Passed)
      BY FS_Subset DEF Passed, Listed, Live, HandleTableAssumption
    <3> QED BY <3>1, FS_CardinalityType
  <2>3. lru \in [busy : BOOLEAN, checked : Nat]
    BY DEF IInv, Types, TableTypes
  <2>4. lru' \in [busy : BOOLEAN, checked : Nat] /\ lru'.busy = lru.busy
    BY <1>1, <2>2, <2>3
  <2> QED BY <1>0, <1>1, <2>1, <2>4, ScanHitKeeps
<1>2. ASSUME Goto(a, "doneNone"), UNCHANGED <<lru, locker, cur>>
      PROVE  IInv'
  BY <1>0, <1>2, ScanNoneKeeps DEF hdrVars, tableVars
<1> QED BY <1>1, <1>2 DEF GetNextLRUHandle

(* FsrmtFileScavenge of the handle the scan has locked.                    *)
LEMMA ScavengeKeeps ==
    ASSUME HandleTableAssumption, IInv, NEW a \in Actors, LRUScavenge(a), UNCHANGED overrun
    PROVE  IInv'
<1>0. /\ pc[a] = "scavenge" /\ cur' = [cur EXCEPT ![a] = Nil]
      /\ UNCHANGED <<ref, use, maxNumber, lru, want, limit, str, io>>
  BY DEF LRUScavenge
<1>1. CASE MayScavenge(cur[a]) /\ HandleRemove(cur[a]) /\ Goto(a, "doneHit")
  BY <1>0, <1>1, RemoveLockedKeeps
<1>2. CASE /\ Unlock(cur[a]) /\ Goto(a, "scan")
           /\ UNCHANGED <<table, exists, limbo, id, flags>>
  BY <1>0, <1>2, ScanUnlockKeeps DEF tableVars
<1> QED BY <1>1, <1>2 DEF LRUScavenge

(* The steps of Fs_Close that lock a handle, or sleep.                     *)
LEMMA LockStreamKeeps ==
    ASSUME HandleTableAssumption, IInv, NEW a \in Actors, CloseLock(a), UNCHANGED overrun
    PROVE  IInv'
<1>h. PICK h : h = str[a]
  OBVIOUS
<1>0. /\ pc[a] \in {"open", "closing"} /\ h \in Handles
      /\ UNCHANGED <<id, flags, ref, use, io, tableVars, want, limit, str, cur>>
  BY <1>h DEF CloseLock, IInv, ProcsSound, Programs, InStream, Shared
<1>1. CASE Locked(h)
  <2>1. Sleep(a, h) /\ Goto(a, "closing") /\ UNCHANGED <<hdrVars, tableVars, want, limit, str, cur>>
    BY <1>h, <1>0, <1>1 DEF CloseLock, hdrVars
  <2> QED BY <1>0, <1>1, <2>1, SleepKeeps
<1>2. CASE ~Locked(h)
  <2>1. /\ Lock(str[a], a) /\ UNCHANGED asleep
        /\ Goto(a, IF ref[str[a]] > 1 THEN "release" ELSE "closeIO")
    BY <1>h, <1>2 DEF CloseLock
  <2> QED BY <1>h, <1>0, <1>2, <2>1, CloseLockKeeps
<1> QED BY <1>1, <1>2

LEMMA LockIOKeeps ==
    ASSUME HandleTableAssumption, IInv, NEW a \in Actors, CloseLockIO(a), UNCHANGED overrun
    PROVE  IInv'
<1>h. PICK h : h = io[str[a]]
  OBVIOUS
<1>0. /\ pc[a] = "closeIO"
      /\ UNCHANGED <<id, flags, ref, use, io, tableVars, want, limit, str, cur>>
  BY DEF CloseLockIO
<1>i. h \in Handles
  BY <1>h, <1>0, IOLive DEF IInv, Types, HdrTypes, InStream, Live
<1>1. CASE Locked(h)
  <2>1. Sleep(a, h) /\ pc' = pc /\ UNCHANGED <<hdrVars, tableVars, want, limit, str, cur>>
    BY <1>h, <1>0, <1>1 DEF CloseLockIO, hdrVars
  <2> QED BY <1>i, <1>1, <2>1, SleepKeeps
<1>2. CASE ~Locked(h)
  <2>1. Lock(io[str[a]], a) /\ UNCHANGED asleep /\ Goto(a, "ioClose")
    BY <1>h, <1>2 DEF CloseLockIO
  <2> QED BY <1>h, <1>0, <1>2, <2>1, CloseLockIOKeeps
<1> QED BY <1>1, <1>2

(* The removal of a stream: the model stops where the code is undefined.   *)
LEMMA StreamGoneKeeps ==
    ASSUME HandleTableAssumption, IInv, NEW a \in Actors, StreamRemove(a)
    PROVE  IInv'
<1>0. pc[a] = "remove" /\ UNCHANGED <<ref, use, maxNumber, lru, limit, io, cur>>
  BY DEF StreamRemove
<1>1. CASE str[a] \in Live /\ id[str[a]] = want[a] /\ ~Locked(str[a])
  <2>1. /\ HandleRemove(str[a]) /\ Goto(a, "idle")
        /\ str' = [str EXCEPT ![a] = Nil] /\ want' = [want EXCEPT ![a] = Nil]
    BY <1>1 DEF StreamRemove
  <2> QED BY <1>0, <1>1, <2>1, StreamRemoveKeeps
<1>2. CASE ~(str[a] \in Live /\ id[str[a]] = want[a] /\ ~Locked(str[a]))
  <2>1. UNCHANGED <<hdrVars, tableVars, procVars>>
    BY <1>0, <1>2 DEF StreamRemove, hdrVars, tableVars, procVars
  <2> QED BY <2>1, StutterKeeps
<1> QED BY <1>1, <1>2

LEMMA NextKeeps ==
    ASSUME HandleTableAssumption, IInv, [Next]_vars
    PROVE  IInv'
<1>1. CASE UNCHANGED vars
  BY <1>1, StutterKeeps DEF vars
<1>2. CASE \E a \in Actors : StreamRemove(a)
  BY <1>2, StreamGoneKeeps
<1>3. ASSUME NEW a \in Actors, Move(a), UNCHANGED overrun
      PROVE  IInv'
  <2>1. CASE Begin(a)
    BY <1>3, <2>1, BeginKeeps
  <2>2. CASE InstallStep(a)
    <3>1. CASE HandleFetch(a)
      BY <1>3, <3>1, FetchKeeps
    <3>2. CASE HandleInstallInt(a)
      BY <1>3, <3>2, HandleInstallKeeps
    <3>3. CASE GetNextLRUHandle(a)
      BY <1>3, <3>3, ScanKeeps
    <3>4. CASE LRUScavenge(a)
      BY <1>3, <3>4, ScavengeKeeps
    <3>5. CASE DoneLRU(a)
      BY <3>5, DoneLRUKeeps
    <3>6. CASE OpenStream(a)
      BY <3>6, OpenStreamKeeps
    <3>7. CASE OpenIO(a)
      BY <1>3, <3>7, OpenIOKeeps
    <3> QED BY <2>2, <3>1, <3>2, <3>3, <3>4, <3>5, <3>6, <3>7 DEF InstallStep
  <2>3. CASE CloseStep(a)
    <3>1. CASE CloseLock(a)
      BY <1>3, <3>1, LockStreamKeeps
    <3>2. CASE CloseShared(a)
      BY <1>3, <3>2, CloseSharedKeeps
    <3>3. CASE CloseLockIO(a)
      BY <1>3, <3>3, LockIOKeeps
    <3>4. CASE CloseIO(a)
      BY <1>3, <3>4, CloseIOKeeps
    <3>5. CASE StreamDestroy(a)
      BY <1>3, <3>5, StreamDestroyKeeps
    <3> QED BY <2>3, <3>1, <3>2, <3>3, <3>4, <3>5 DEF CloseStep
  <2>4. CASE StreamCopied(a)
    BY <2>4, StreamCopiedKeeps
  <2>5. CASE \E b \in Users : StreamCopy(a, b)
    BY <1>3, <2>5, StreamCopyKeeps
  <2>6. CASE ConsistUnlock(a)
    BY <2>6, ConsistUnlockKeeps
  <2>7. CASE ConsistRelease(a)
    BY <1>3, <2>7, ConsistReleaseKeeps, ConsistFreeKeeps
  <2>8. CASE GetNextHandle(a)
    BY <2>8, GetNextHandleKeeps DEF GetNextHandle
  <2>9. CASE WalkStep(a)
    <3>1. CASE WalkUnlock(a)
      BY <3>1, WalkUnlockKeeps
    <3>2. CASE WalkRemove(a)
      BY <3>2, RemoveLockedKeeps DEF WalkRemove
    <3>3. CASE WalkInvalidate(a)
      BY <1>3, <3>3, WalkInvalidateKeeps
    <3> QED BY <2>9, <3>1, <3>2, <3>3 DEF WalkStep
  <2> QED BY <1>3, <2>1, <2>2, <2>3, <2>4, <2>5, <2>6, <2>7, <2>8, <2>9 DEF Move
<1> QED BY <1>1, <1>2, <1>3 DEF Next

LEMMA InitSound ==
    ASSUME HandleTableAssumption, Init
    PROVE  IInv
<1>1. \A h \in Handles : h \notin Live /\ Referers(h) = {} /\ OpenStreams(h) = {}
  BY DEF Init, Live, Referers, OpenStreams, HandleTableAssumption
<1>2. Live = {} /\ InTable = {} /\ InLimbo = {}
  BY <1>1 DEF Live, InTable, InLimbo
<1>3. Types
  BY DEF Init, Types, HdrTypes, TableTypes, ProcTypes, HandleTableAssumption
<1>4. Numbers
  BY <1>2, FS_EmptySet DEF Numbers, Init, HandleTableAssumption
<1>5. Counts /\ NoDangling /\ Hashed /\ Identified
  BY <1>1, <1>2 DEF Counts, NoDangling, Hashed, Identified, Init
<1>6. /\ Programs /\ LimitsRead /\ Given /\ StreamsUsed /\ IOHandles
      /\ StreamIDs /\ Sharing /\ Limbo
  BY <1>2 DEF Init, Programs, LimitsRead, Given, StreamsUsed, IOHandles, StreamIDs, Sharing,
     Limbo, HasStream, Opening, Shared, InStream, HandleTableAssumption, IDs
<1>7. Locks /\ SleepersAccounted
  BY DEF Init, Locks, HoldsLock, SleepersAccounted, HandleTableAssumption
<1> QED BY <1>3, <1>4, <1>5, <1>6, <1>7 DEF IInv, HandlesSound, ProcsSound

LEMMA HandleTableInvariant == HandleTableAssumption /\ Spec => []IInv
<1> SUFFICES ASSUME HandleTableAssumption PROVE Spec => []IInv
  OBVIOUS
<1>1. Init => IInv
  BY InitSound
<1>2. IInv /\ [Next]_vars => IInv'
  BY NextKeeps
<1> QED BY <1>1, <1>2, PTL DEF Spec

(* The handles, the hash table, the counters and the processes keep their  *)
(* types: no reference count and no counter of the table gets below zero.  *)
THEOREM HandleTypes == HandleTableAssumption /\ Spec => []TypeOK
<1>1. Init => overrun \in BOOLEAN
  BY DEF Init
<1>2. overrun \in BOOLEAN /\ [Next]_vars => (overrun \in BOOLEAN)'
  BY DEF Next, StreamRemove, vars
<1>3. IInv /\ overrun \in BOOLEAN => TypeOK
  BY DEF IInv, Types, HdrTypes, TableTypes, ProcTypes, TypeOK
<1> QED BY <1>1, <1>2, <1>3, HandleTableInvariant, PTL DEF Spec

(* The hash table has exactly the handles that are neither removed nor     *)
(* invalid, each under its file ID, so that Fsutil_HandleRemoveInt finds   *)
(* what it takes out; fs_Stats.handle.exists and .limbo count the handles  *)
(* that they say, and no number of processes that install at the same time *)
(* gets the table over its limit.                                          *)
THEOREM HandleTableSound == HandleTableAssumption /\ Spec => []TableSound
<1>1. IInv => TableSound
  BY DEF IInv, HandlesSound, Hashed, Numbers, InTable, InLimbo, TableSound
<1> QED BY <1>1, HandleTableInvariant, PTL

(* The refCount of every handle is the number of references that processes *)
(* and streams have, use.ref the number of open streams; no reference is   *)
(* to a freed handle, a removed one has a reference, and a handle is       *)
(* locked by exactly the process that is where it may use it: what the     *)
(* panics of Fsutil_HandleReleaseHdr ask, however processes interleave.    *)
THEOREM ReferencesAccounted == HandleTableAssumption /\ Spec => []RefsAccounted
<1>1. IInv => RefsAccounted
  BY DEF IInv, HandlesSound, ProcsSound, Counts, NoDangling, Locks, RefsAccounted
<1> QED BY <1>1, HandleTableInvariant, PTL

(* No process sleeps on the lock of a handle that was freed or that nobody *)
(* has locked, nor on a scan for a handle to replace that is over.         *)
THEOREM NoLostSleeper == HandleTableAssumption /\ Spec => []SleepersAccounted
<1>1. IInv => SleepersAccounted
  BY DEF IInv, ProcsSound
<1> QED BY <1>1, HandleTableInvariant, PTL
=============================================================================
