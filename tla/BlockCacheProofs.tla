-------------------------- MODULE BlockCacheProofs --------------------------
(***************************************************************************)
(* Proofs that the invariant of BlockCacheInv holds for any number of      *)
(* processes, files, blocks and cleaners, and what follows from it: the    *)
(* types, the counts of the cache, and that nobody sleeps for nothing.     *)
(***************************************************************************)
EXTENDS BlockCacheInv, FiniteSetTheorems, NaturalsInduction, TLAPS

----------------------------------------------------------------------------
(* Folds over finite sets.                                                 *)
\* Folds over finite sets. A set of numbers that is not empty has a least
\* one.
LEMMA LeastNat ==
    ASSUME NEW T, T \subseteq Nat, T # {}
    PROVE  \E x \in T : \A y \in T : x <= y
<1>1. PICK x \in T : \A y \in T : ~(<<y, x>> \in OpToRel(<, Nat))
  BY NatLessThanWellFounded, WFMin, Zenon
<1>2. \A y \in T : ~(y < x) BY <1>1 DEF OpToRel
<1> QED BY <1>2

\* Sets of subsets that grow by the element CHOOSE picks hold all subsets.
LEMMA SubsetInduction ==
    ASSUME NEW S, IsFiniteSet(S), NEW I, {} \in I,
           \A s \in SUBSET S : s # {} /\ s \ {CHOOSE x \in s : TRUE} \in I => s \in I
    PROVE  \A s \in SUBSET S : s \in I
<1> DEFINE T == {n \in Nat : \E s \in SUBSET S : s \notin I /\ Cardinality(s) = n}
<1> SUFFICES ASSUME NEW r \in SUBSET S, r \notin I PROVE FALSE
  OBVIOUS
<1>1. \A s \in SUBSET S : IsFiniteSet(s) /\ Cardinality(s) \in Nat
  BY FS_Subset, FS_CardinalityType
<1>2. T # {} /\ T \subseteq Nat BY <1>1
<1>3. PICK k \in T : \A j \in T : k <= j BY <1>2, LeastNat
<1>4. PICK s \in SUBSET S : s \notin I /\ Cardinality(s) = k BY <1>3
<1> DEFINE x == CHOOSE y \in s : TRUE
<1>5. s # {} /\ x \in s BY <1>4
<1>6. s \ {x} \in SUBSET S /\ Cardinality(s \ {x}) = k - 1 BY <1>1, <1>4, <1>5, FS_RemoveElement
<1>7. k \in Nat /\ k - 1 \notin T BY <1>3
<1>8. k - 1 \in Nat BY <1>6, <1>1
<1>9. s \ {x} \in I BY <1>6, <1>7, <1>8
<1> QED BY <1>9, <1>4, <1>5

\* A fold over the subsets of at most n elements exists.
LEMMA FoldUpToExists ==
    ASSUME NEW S, IsFiniteSet(S), NEW F, NEW base, NEW n \in Nat
    PROVE  \E h : FoldsUpTo(h, F, base, S, n)
<1> DEFINE Part(k) == {t \in SUBSET S : Cardinality(t) <= k}
           T == {k \in Nat : ~\E g : FoldsUpTo(g, F, base, S, k)}
<1> SUFFICES ASSUME T # {} PROVE FALSE
  OBVIOUS
<1>0. \A s \in SUBSET S : IsFiniteSet(s) /\ Cardinality(s) \in Nat
  BY FS_Subset, FS_CardinalityType
<1>a. \A s \in SUBSET S : s # {} => Ch(s) \in s /\ Cardinality(s \ {Ch(s)}) = Cardinality(s) - 1
  BY <1>0, FS_RemoveElement DEF Ch
<1>1. PICK k \in T : \A j \in T : k <= j BY LeastNat
<1>2. k \in Nat /\ ~\E g : FoldsUpTo(g, F, base, S, k)
  OBVIOUS
<1>3. k # 0
  <2>1. \A s \in Part(0) : s = {} BY <1>0, FS_EmptySet
  <2>2. FoldsUpTo([s \in Part(0) |-> base], F, base, S, 0) BY <2>1 DEF Folds, FoldsUpTo
  <2> QED BY <2>2, <1>2
<1>4. PICK g : FoldsUpTo(g, F, base, S, k - 1) BY <1>1, <1>2, <1>3
<1> DEFINE h == [s \in Part(k) |-> IF s \in Part(k - 1) THEN g[s] ELSE F[<<Ch(s), g[s \ {Ch(s)}]>>]]
<1>5. FoldsUpTo(h, F, base, S, k)
  <2> SUFFICES ASSUME NEW s \in Part(k)
               PROVE  h[s] = IF s = {} THEN base ELSE F[<<Ch(s), h[s \ {Ch(s)}]>>]
    <3>1. h = [s \in Part(k) |-> h[s]]
      OBVIOUS
    <3> HIDE DEF h
    <3>2. h = [s \in Part(k) |-> IF s = {} THEN base ELSE F[<<Ch(s), h[s \ {Ch(s)}]>>]] BY <3>1
    <3> QED BY <3>2, Zenon DEF Folds, FoldsUpTo
  <2>0. s \in SUBSET S /\ Cardinality(s) <= k /\ Cardinality(s) \in Nat BY <1>0
  <2>1. s # {} => s \ {Ch(s)} \in Part(k - 1) /\ s \ {Ch(s)} \in Part(k) BY <1>a, <1>2, <2>0
  <2>2. s # {} => h[s \ {Ch(s)}] = g[s \ {Ch(s)}] BY <2>1
  <2>3. CASE s \in Part(k - 1)
    <3>1. g[s] = IF s = {} THEN base ELSE F[<<Ch(s), g[s \ {Ch(s)}]>>]
      BY <2>3, <1>4, Zenon DEF Folds, FoldsUpTo
    <3>2. h[s] = g[s] BY <2>3
    <3> QED BY <3>1, <3>2, <2>2
  <2>4. CASE s \notin Part(k - 1)
    <3>1. s # {}
      <4>1. Cardinality({}) = 0 /\ 0 <= k - 1 BY <1>2, <1>3, FS_EmptySet
      <4> QED BY <2>4, <4>1
    <3>2. h[s] = F[<<Ch(s), g[s \ {Ch(s)}]>>] BY <2>4
    <3> QED BY <3>1, <3>2, <2>2
  <2> QED BY <2>3, <2>4
<1> QED BY <1>2, <1>5

\* A fold over all subsets of a finite set exists.
LEMMA FoldExists ==
    ASSUME NEW S, IsFiniteSet(S), NEW F, NEW base
    PROVE  \E h : Folds(h, F, base, SUBSET S)
<1>1. Cardinality(S) \in Nat BY FS_CardinalityType
<1>2. PICK h : FoldsUpTo(h, F, base, S, Cardinality(S)) BY <1>1, FoldUpToExists
<1>3. {t \in SUBSET S : Cardinality(t) <= Cardinality(S)} = SUBSET S BY FS_Subset
<1> QED BY <1>2, <1>3, Zenon DEF FoldsUpTo

\* A fold with a step that stays in T stays in T.
LEMMA FoldStays ==
    ASSUME NEW S, IsFiniteSet(S), NEW T, NEW F \in [S \X T -> T], NEW base \in T,
           NEW h, Folds(h, F, base, SUBSET S)
    PROVE  /\ \A s \in SUBSET S : h[s] \in T
           /\ \A s \in SUBSET S : s # {} => Ch(s) \in s /\ h[s] = F[<<Ch(s), h[s \ {Ch(s)}]>>]
           /\ h[{}] = base
<1>1. \A s \in SUBSET S : h[s] = IF s = {} THEN base ELSE F[<<Ch(s), h[s \ {Ch(s)}]>>]
  BY Zenon DEF Folds, FoldsUpTo
<1> DEFINE I == {s \in SUBSET S : h[s] \in T}
<1>2. {} \in I /\ h[{}] = base BY <1>1
<1>3. \A s \in SUBSET S : s # {} => Ch(s) \in s /\ h[s] = F[<<Ch(s), h[s \ {Ch(s)}]>>]
  BY <1>1 DEF Ch
<1>4. ASSUME NEW s \in SUBSET S, s # {}, s \ {CHOOSE x \in s : TRUE} \in I PROVE s \in I
  <2>1. Ch(s) \in S /\ h[s \ {Ch(s)}] \in T /\ h[s] = F[<<Ch(s), h[s \ {Ch(s)}]>>]
    BY <1>3, <1>4 DEF Ch
  <2>2. <<Ch(s), h[s \ {Ch(s)}]>> \in S \X T BY <2>1
  <2> QED BY <2>1, <2>2
<1>5. \A s \in SUBSET S : s \in I
  <2> HIDE DEF I
  <2> QED BY <1>2, <1>4, SubsetInduction, Zenon
<1> QED BY <1>2, <1>3, <1>5

\* Such a fold, element by element.
LEMMA FoldMade ==
    ASSUME NEW S, IsFiniteSet(S), NEW T, NEW c \in T, NEW F \in [S \X T -> T]
    PROVE  \E h : Made(h, F, c, S, T)
<1>1. PICK h : Folds(h, F, c, SUBSET S) BY FoldExists
<1>2. \A s \in SUBSET S : h[s] = IF s = {} THEN c ELSE F[<<Ch(s), h[s \ {Ch(s)}]>>]
  BY <1>1, Zenon DEF Folds
<1>3. \A s \in SUBSET S : h[s] \in T BY <1>1, FoldStays
<1>4. \A s \in SUBSET S : s # {} => Ch(s) \in s BY DEF Ch
<1>5. h = [s \in SUBSET S |-> h[s]] BY <1>1, Zenon DEF Folds
<1> QED BY <1>2, <1>3, <1>4, <1>5 DEF Made

----------------------------------------------------------------------------
(* Types.                                                                  *)
\* Constants and events.
LEMMA NilApart ==
    /\ Nil \notin Blocks /\ Nil \notin Files /\ Nil \notin Keys /\ Nil \notin Procs
    /\ Nil \notin Events /\ Server \notin Blocks
BY BlockCacheAssumption, NilAssumption DEF BlockCacheAssumption, NilAssumption

\* A key is a file and the number of one of its blocks.
LEMMA KeyFacts ==
    ASSUME NEW k \in Keys
    PROVE  /\ k[1] \in Files /\ k[2] \in Int /\ k = <<k[1], k[2]>> /\ k[2] \in BlocksOf(k[1])
<1>1. k \in Files \X Int BY BlockCacheAssumption DEF BlockCacheAssumption
<1> QED BY <1>1 DEF BlocksOf

\* The condition variables are events.
LEMMA EventTypes ==
    /\ \A b \in Blocks : IODone(b) \in Events
    /\ \A f \in Files : NoDirtyBlocks(f) \in Events
    /\ CleanBlock \in Events /\ CloseCondition \in Events
BY DEF Events

\* Different condition variables are different events.
LEMMA EventsApart ==
    /\ \A b, a : IODone(b) = IODone(a) => a = b
    /\ \A f, g : NoDirtyBlocks(f) = NoDirtyBlocks(g) => f = g
    /\ \A b, f : IODone(b) # NoDirtyBlocks(f)
    /\ \A b : IODone(b) # CleanBlock /\ IODone(b) # CloseCondition
    /\ \A f : NoDirtyBlocks(f) # CleanBlock /\ NoDirtyBlocks(f) # CloseCondition
    /\ CleanBlock # CloseCondition
BY DEF IODone, NoDirtyBlocks, CleanBlock, CloseCondition

\* The tables of the kernel are finite.
LEMMA Finite ==
    /\ IsFiniteSet(Blocks) /\ IsFiniteSet(Procs) /\ IsFiniteSet(Files) /\ IsFiniteSet(Keys)
    /\ IsFiniteSet(Slots) /\ IsFiniteSet(Backends)
<1>1. IsFiniteSet(Backends) /\ IsFiniteSet(1 .. MaxCleaners)
  <2>1. IsFiniteSet({"remote"}) /\ IsFiniteSet({"disk"}) BY FS_Singleton
  <2>2. Backends = {"remote"} \cup {"disk"} BY DEF Backends
  <2>3. IsFiniteSet({"remote"} \cup {"disk"}) BY <2>1, FS_Union, Zenon
  <2>4. MaxCleaners \in Int /\ 1 \in Int BY BlockCacheAssumption DEF BlockCacheAssumption
  <2>5. IsFiniteSet(1 .. MaxCleaners) BY <2>4, FS_Interval, Zenon
  <2> QED BY <2>2, <2>3, <2>5
<1>2. IsFiniteSet(Slots) BY <1>1, FS_Product DEF Slots
<1> QED BY <1>1, <1>2, BlockCacheAssumption DEF BlockCacheAssumption

\* The fields of a cache.
LEMMA CacheFields ==
    ASSUME NEW c \in CacheT
    PROVE  /\ c.blk \in [Blocks -> BlockT] /\ c.hash \in [Keys -> Blocks \cup {Nil}]
           /\ c.file \in [Files -> FileT] /\ c.avail \in Int /\ c.active \in Int
           /\ c.cleaner \in [Slots -> CleanerT] /\ c.wake \in SUBSET Events
           /\ c = [blk |-> c.blk, hash |-> c.hash, file |-> c.file, avail |-> c.avail,
                   active |-> c.active, cleaner |-> c.cleaner, wake |-> c.wake]
BY DEF CacheT

\* The fields of a block have their types.
LEMMA BlockFields ==
    ASSUME NEW c \in CacheT, NEW b \in Blocks
    PROVE  /\ c.blk[b] \in BlockT
           /\ c.blk[b].key \in Keys \cup {Nil} /\ c.blk[b].ref \in Int
           /\ c.blk[b].flags \in SUBSET BlockFlags
           /\ c.blk[b] = [key |-> c.blk[b].key, ref |-> c.blk[b].ref, flags |-> c.blk[b].flags]
BY CacheFields DEF BlockT

\* The fields of a cacheInfo have their types.
LEMMA FileFields ==
    ASSUME NEW c \in CacheT, NEW f \in Files
    PROVE  /\ c.file[f] \in FileT
           /\ c.file[f].numDirty \in Int /\ c.file[f].inCache \in Int
           /\ c.file[f].dirtyList \in SUBSET Blocks /\ c.file[f].flags \in SUBSET FileFlags
BY CacheFields DEF FileT

\* The fields of a cleaner have their types.
LEMMA CleanerFields ==
    ASSUME NEW c \in CacheT, NEW s \in Slots
    PROVE  /\ c.cleaner[s] \in CleanerT
           /\ c.cleaner[s].pc \in CleanerPcs /\ c.cleaner[s].file \in Files \cup {Nil}
           /\ c.cleaner[s].blk \in Blocks \cup {Nil} /\ c.cleaner[s].last \in BOOLEAN
           /\ c.cleaner[s].status \in Errors \cup {"ok"}
BY CacheFields DEF CleanerT

----------------------------------------------------------------------------
(* Steps that start cleaners and set flags of files.                       *)
\* Doing nothing is quiet.
LEMMA QuietRefl ==
    ASSUME NEW c \in CacheT
    PROVE  Quiet(c, c) /\ \A f \in Files : SameUsage(c, c, f)
BY DEF Quiet, Same, Starts, FileSame, Lists, SameUsage

\* Two quiet steps are a quiet one.
LEMMA QuietTrans ==
    ASSUME NEW c \in CacheT, NEW d, NEW e, Quiet(c, d), Quiet(d, e)
    PROVE  Quiet(c, e)
<1>1. Starts(c, e)
  <2>1. ASSUME NEW s \in Slots
        PROVE  \/ e.cleaner[s] = c.cleaner[s]
               \/ /\ c.cleaner[s].pc = "idle"
                  /\ e.cleaner[s] = [c.cleaner[s] EXCEPT !.pc = "getFile"]
    <3>1. CASE d.cleaner[s] = c.cleaner[s] BY <3>1 DEF Quiet, Starts
    <3>2. CASE d.cleaner[s] = [c.cleaner[s] EXCEPT !.pc = "getFile"] /\ c.cleaner[s].pc = "idle"
      <4>1. d.cleaner[s].pc = "getFile" BY <3>2, CleanerFields DEF CleanerT
      <4> QED BY <3>2, <4>1 DEF Quiet, Starts
    <3> QED BY <3>1, <3>2 DEF Quiet, Starts
  <2> QED BY <2>1 DEF Quiet, Starts
<1> QED BY <1>1 DEF Quiet, Same, FileSame, Lists

\* Starting a cleaner is quiet and leaves the files alone.
LEMMA StartBackend ==
    ASSUME NEW c \in CacheT, NEW backend
    PROVE  /\ Quiet(c, StartBackendWriteback(c, backend))
           /\ \A f \in Files : StartBackendWriteback(c, backend).file[f] = c.file[f]
           /\ StartBackendWriteback(c, backend).file = c.file
<1> DEFINE idle == {s \in Slots : s[1] = backend /\ c.cleaner[s].pc = "idle"}
           i == CHOOSE s \in idle : TRUE
           d == StartBackendWriteback(c, backend)
<1>1. CASE idle = {} BY <1>1, QuietRefl DEF StartBackendWriteback
<1>2. CASE idle # {}
  <2>1. i \in Slots /\ c.cleaner[i].pc = "idle" BY <1>2
  <2>2. d = [c EXCEPT !.cleaner[i].pc = "getFile", !.active = @ + 1]
    BY <1>2 DEF StartBackendWriteback
  <2> HIDE DEF i, d
  <2>3. /\ d.cleaner = [c.cleaner EXCEPT ![i] = [c.cleaner[i] EXCEPT !.pc = "getFile"]]
        /\ d.active = c.active + 1
        /\ Same(c, d) /\ d.wake = c.wake /\ d.file = c.file
        /\ DOMAIN d = DOMAIN c
    BY <2>2, CacheFields DEF Same
  <2>4. d.cleaner \in [Slots -> CleanerT] BY <2>1, <2>3, CacheFields DEF CleanerT, CleanerPcs
  <2>5. d \in CacheT
    <3>1. d = [blk |-> d.blk, hash |-> d.hash, file |-> d.file, avail |-> d.avail,
               active |-> d.active, cleaner |-> d.cleaner, wake |-> d.wake]
      BY <2>2, CacheFields
    <3>2. d.active \in Int BY <2>3, CacheFields
    <3> QED BY <3>1, <3>2, <2>3, <2>4, CacheFields DEF CacheT, Same
  <2>6. d.cleaner[i].pc = "getFile" /\ \A s \in Slots \ {i} : d.cleaner[s] = c.cleaner[s]
    BY <2>1, <2>3, CacheFields DEF CleanerT
  <2>7. ActiveOf(d) = ActiveOf(c) \cup {i} /\ i \notin ActiveOf(c) BY <2>1, <2>6 DEF ActiveOf
  <2>8. IsFiniteSet(ActiveOf(c)) BY Finite, FS_Subset DEF ActiveOf
  <2>9. Cardinality(ActiveOf(d)) = Cardinality(ActiveOf(c)) + 1 BY <2>7, <2>8, FS_AddElement
  <2>10. Starts(c, d) BY <2>1, <2>3, <2>6, <2>9, CacheFields DEF Starts
  <2>11. \A f \in Files : FileSame(c, d, f) /\ Lists(c, d, f) /\ d.file[f] = c.file[f]
    BY <2>3 DEF FileSame, Lists, FileIs
  <2> QED BY <2>3, <2>5, <2>10, <2>11 DEF Quiet, d
<1> QED BY <1>1, <1>2

\* What setting the flags of a file changes.
LEMMA SetFlagsFacts ==
    ASSUME NEW c \in CacheT, NEW f \in Files, NEW F \in SUBSET FileFlags
    PROVE  /\ SetFlags(c, f, F) \in CacheT
           /\ SetFlags(c, f, F).file[f].flags = F
           /\ \A g \in Files : FileSame(c, SetFlags(c, f, F), g)
           /\ \A g \in Files \ {f} : SetFlags(c, f, F).file[g] = c.file[g]
           /\ Same(c, SetFlags(c, f, F)) /\ SetFlags(c, f, F).wake = c.wake
           /\ SetFlags(c, f, F).cleaner = c.cleaner /\ SetFlags(c, f, F).active = c.active
<1> DEFINE d == SetFlags(c, f, F)
<1>1. /\ d.file = [c.file EXCEPT ![f] = [c.file[f] EXCEPT !.flags = F]]
      /\ Same(c, d) /\ d.wake = c.wake /\ d.cleaner = c.cleaner /\ d.active = c.active
      /\ d = [blk |-> d.blk, hash |-> d.hash, file |-> d.file, avail |-> d.avail,
              active |-> d.active, cleaner |-> d.cleaner, wake |-> d.wake]
  BY CacheFields DEF SetFlags, Same
<1>2. /\ [c.file[f] EXCEPT !.flags = F] \in FileT
      /\ [c.file[f] EXCEPT !.flags = F].flags = F
      /\ [c.file[f] EXCEPT !.flags = F].numDirty = c.file[f].numDirty
      /\ [c.file[f] EXCEPT !.flags = F].inCache = c.file[f].inCache
      /\ [c.file[f] EXCEPT !.flags = F].dirtyList = c.file[f].dirtyList
  BY FileFields DEF FileT
<1> HIDE DEF d
<1>3. /\ d.file[f] = [c.file[f] EXCEPT !.flags = F]
      /\ \A g \in Files \ {f} : d.file[g] = c.file[g]
      /\ d.file \in [Files -> FileT]
  BY <1>1, <1>2, CacheFields
<1>4. d \in CacheT BY <1>1, <1>3, CacheFields DEF CacheT, Same
<1> QED BY <1>1, <1>2, <1>3, <1>4 DEF FileSame, d

\* Flags that do not move the file between lists are set quietly.
LEMMA SetFlagsQuiet ==
    ASSUME NEW c \in CacheT, NEW f \in Files, NEW F \in SUBSET FileFlags,
           "BEING_WRITTEN" \in F <=> "BEING_WRITTEN" \in c.file[f].flags,
           "ON_DIRTY_LIST" \in c.file[f].flags => "ON_DIRTY_LIST" \in F,
           "BEING_WRITTEN" \in F /\ "ON_DIRTY_LIST" \in F => "ON_DIRTY_LIST" \in c.file[f].flags
    PROVE  Quiet(c, SetFlags(c, f, F))
<1> DEFINE d == SetFlags(c, f, F)
<1> HIDE DEF d
<1>1. /\ d \in CacheT /\ d.file[f].flags = F
      /\ \A g \in Files : FileSame(c, d, g)
      /\ \A g \in Files \ {f} : d.file[g] = c.file[g]
      /\ Same(c, d) /\ d.wake = c.wake
      /\ d.cleaner = c.cleaner /\ d.active = c.active
  BY SetFlagsFacts DEF d
<1>2. Starts(c, d) BY <1>1 DEF Starts, ActiveOf
<1>3. \A g \in Files : Lists(c, d, g)
  <2>1. ASSUME NEW g \in Files \ {f} PROVE Lists(c, d, g) BY <1>1 DEF Lists, FileIs
  <2>2. Lists(c, d, f) BY <1>1 DEF Lists, FileIs
  <2> QED BY <2>1, <2>2
<1> QED BY <1>1, <1>2, <1>3 DEF Quiet, d

\* The other flags of a file are kept when some are set.
LEMMA KeepsSetFlags ==
    ASSUME NEW c \in CacheT, NEW f \in Files, NEW F \in SUBSET FileFlags, NEW flags,
           F \cap flags = c.file[f].flags \cap flags
    PROVE  Keeps(c, SetFlags(c, f, F), flags)
BY SetFlagsFacts DEF Keeps

\* Asking for the sync of a file is quiet.
LEMMA StartFileSyncQuiet ==
    ASSUME NEW c \in CacheT, NEW f \in Files
    PROVE  /\ Quiet(c, StartFileSync(c, f))
           /\ Keeps(c, StartFileSync(c, f), FileFlags \ {"FSYNC"})
<1> DEFINE F == c.file[f].flags \cup {"FSYNC"}
           d == SetFlags(c, f, F)
<1>1. F \in SUBSET FileFlags BY FileFields DEF FileFlags
<1>2. Quiet(c, d) /\ d \in CacheT BY <1>1, SetFlagsQuiet, SetFlagsFacts
<1>3. Keeps(c, d, FileFlags \ {"FSYNC"}) BY <1>1, KeepsSetFlags
<1>4. StartFileSync(c, f) = StartBackendWriteback(d, BackendOf(f))
  BY DEF StartFileSync, SetFlags
<1> HIDE DEF d
<1>5. /\ Quiet(d, StartBackendWriteback(d, BackendOf(f)))
      /\ StartBackendWriteback(d, BackendOf(f)).file = d.file
  BY <1>2, StartBackend
<1>6. Quiet(c, StartFileSync(c, f)) BY <1>2, <1>4, <1>5, QuietTrans
<1>7. Keeps(c, StartFileSync(c, f), FileFlags \ {"FSYNC"}) BY <1>3, <1>4, <1>5 DEF Keeps
<1> QED BY <1>6, <1>7

\* Putting a file on the dirty list is quiet when it was there.
LEMMA PutFileQuiet ==
    ASSUME NEW c \in CacheT, NEW f \in Files, NEW fresh \in BOOLEAN
    PROVE  /\ Quiet(c, PutFileOnDirtyList(c, f, fresh))
           /\ Keeps(c, PutFileOnDirtyList(c, f, fresh), FileFlags \ {"ON_DIRTY_LIST", "OLD"})
           /\ Listed(PutFileOnDirtyList(c, f, fresh), f)
<1> DEFINE F == (c.file[f].flags \cup {"ON_DIRTY_LIST"}) \ (IF fresh THEN {"OLD"} ELSE {})
<1>1. CASE FileIs(c, f, {"ON_DIRTY_LIST", "BEING_WRITTEN"})
  BY <1>1, QuietRefl DEF PutFileOnDirtyList, Keeps, Listed
<1>2. CASE ~FileIs(c, f, {"ON_DIRTY_LIST", "BEING_WRITTEN"})
  <2>1. /\ "BEING_WRITTEN" \notin F /\ "BEING_WRITTEN" \notin c.file[f].flags
        /\ "ON_DIRTY_LIST" \in F
        /\ F \cap (FileFlags \ {"ON_DIRTY_LIST", "OLD"})
             = c.file[f].flags \cap (FileFlags \ {"ON_DIRTY_LIST", "OLD"})
    BY <1>2 DEF FileIs
  <2>2. F \in SUBSET FileFlags BY FileFields DEF FileFlags
  <2>3. PutFileOnDirtyList(c, f, fresh) = SetFlags(c, f, F)
    BY <1>2 DEF PutFileOnDirtyList, SetFlags
  <2> HIDE DEF F
  <2>4. Quiet(c, SetFlags(c, f, F)) /\ SetFlags(c, f, F).file[f].flags = F
    BY <2>1, <2>2, SetFlagsQuiet, SetFlagsFacts
  <2>5. Keeps(c, SetFlags(c, f, F), FileFlags \ {"ON_DIRTY_LIST", "OLD"})
    BY <2>1, <2>2, KeepsSetFlags
  <2> QED BY <2>1, <2>3, <2>4, <2>5 DEF Listed, FileIs
<1> QED BY <1>1, <1>2

\* 
LEMMA QuietInv ==
    ASSUME NEW c \in CacheT, CacheInv(c), NEW d, Quiet(c, d)
    PROVE  CacheInv(d)
<1>1. /\ d \in CacheT /\ d.blk = c.blk /\ d.hash = c.hash /\ d.avail = c.avail /\ Starts(c, d)
      /\ \A f \in Files : FileSame(c, d, f) /\ Lists(c, d, f)
  BY DEF Quiet, Same
<1>2. \A s \in Slots : /\ d.cleaner[s].file = c.cleaner[s].file /\ d.cleaner[s].blk = c.cleaner[s].blk
                       /\ d.cleaner[s].status = c.cleaner[s].status
                       /\ (d.cleaner[s].pc = c.cleaner[s].pc \/ (c.cleaner[s].pc = "idle" /\ d.cleaner[s].pc = "getFile"))
  <2> SUFFICES ASSUME NEW s \in Slots
               PROVE  /\ d.cleaner[s].file = c.cleaner[s].file /\ d.cleaner[s].blk = c.cleaner[s].blk
                       /\ d.cleaner[s].status = c.cleaner[s].status
                       /\ (d.cleaner[s].pc = c.cleaner[s].pc \/ (c.cleaner[s].pc = "idle" /\ d.cleaner[s].pc = "getFile"))
    OBVIOUS
  <2>1. CASE d.cleaner[s] = c.cleaner[s] BY <2>1
  <2>2. CASE d.cleaner[s] = [c.cleaner[s] EXCEPT !.pc = "getFile"] /\ c.cleaner[s].pc = "idle"
    BY <2>2, CleanerFields DEF CleanerT
  <2> QED BY <1>1, <2>1, <2>2 DEF Starts
<1>3. CleanerTied(d) BY <1>2 DEF CacheInv, CleanerTied
<1>4. OneCleaner(d) BY <1>2 DEF CacheInv, OneCleaner
<1>5. BlockTied(d)
  <2>1. \A b \in Blocks : (\E s \in Slots : d.cleaner[s].blk = b) <=> (\E s \in Slots : c.cleaner[s].blk = b)
    BY <1>2
  <2> QED BY <1>1, <2>1 DEF CacheInv, BlockTied, Is
<1>6. HashTied(d) /\ CleanerBlock(d) BY <1>1, <1>2 DEF CacheInv, HashTied, CleanerBlock
<1>7. \A f \in Files : Of(d, f) = Of(c, f) /\ DirtyOf(d, f) = DirtyOf(c, f)
  BY <1>1 DEF Of, DirtyOf, Is
<1>8. FileTied(d)
  <2> SUFFICES ASSUME NEW f \in Files
               PROVE  /\ d.file[f].dirtyList = {b \in Of(d, f) : Is(d, b, {"DIRTY"}) /\ ~Is(d, b, {"BEING_WRITTEN"})}
                      /\ d.file[f].numDirty > 0 => Listed(d, f)
                      /\ FileIs(d, f, {"BEING_WRITTEN"}) <=> \E s \in Slots : d.cleaner[s].file = f
                      /\ FileIs(d, f, {"BEING_WRITTEN"}) => ~FileIs(d, f, {"ON_DIRTY_LIST"})
    BY DEF FileTied
  <2>1. /\ c.file[f].dirtyList = {b \in Of(c, f) : Is(c, b, {"DIRTY"}) /\ ~Is(c, b, {"BEING_WRITTEN"})}
        /\ c.file[f].numDirty > 0 => Listed(c, f)
        /\ FileIs(c, f, {"BEING_WRITTEN"}) <=> \E s \in Slots : c.cleaner[s].file = f
        /\ FileIs(c, f, {"BEING_WRITTEN"}) => ~FileIs(c, f, {"ON_DIRTY_LIST"})
    BY DEF CacheInv, FileTied
  <2>2. FileSame(c, d, f) /\ Lists(c, d, f) BY <1>1
  <2>3. d.file[f].dirtyList = {b \in Of(d, f) : Is(d, b, {"DIRTY"}) /\ ~Is(d, b, {"BEING_WRITTEN"})}
    BY <1>1, <1>7, <2>1, <2>2 DEF FileSame, Is
  <2>4. d.file[f].numDirty > 0 => Listed(d, f)
    <3>1. Listed(c, f) => Listed(d, f) BY <2>2 DEF Listed, Lists, FileIs
    <3> QED BY <2>1, <2>2, <3>1 DEF FileSame
  <2>5. FileIs(d, f, {"BEING_WRITTEN"}) <=> \E s \in Slots : d.cleaner[s].file = f
    BY <1>2, <2>1, <2>2 DEF Lists
  <2>6. FileIs(d, f, {"BEING_WRITTEN"}) => ~FileIs(d, f, {"ON_DIRTY_LIST"})
    BY <2>1, <2>2 DEF Lists
  <2> QED BY <2>3, <2>4, <2>5, <2>6
<1>9. Counts(d)
  <2>1. Free(d) = Free(c) BY <1>1 DEF Free, Is
  <2>2. d.active = Cardinality(ActiveOf(d)) BY <1>1 DEF Starts, CacheInv, Counts
  <2> QED BY <1>1, <1>7, <2>1, <2>2 DEF CacheInv, Counts, FileSame
<1> QED BY <1>3, <1>4, <1>5, <1>6, <1>8, <1>9 DEF CacheInv

\* What two steps keep, both together keep.
LEMMA KeepsTrans ==
    ASSUME NEW c, NEW d, NEW e, NEW flags, Keeps(c, d, flags), Keeps(d, e, flags)
    PROVE  Keeps(c, e, flags)
BY DEF Keeps

\* A quiet step ends in a cache.
LEMMA QuietType ==
    ASSUME NEW c, NEW d, Quiet(c, d)
    PROVE  d \in CacheT
BY DEF Quiet

\* Fewer flags are kept too.
LEMMA KeepsFewer ==
    ASSUME NEW c, NEW d, NEW more, NEW fewer, Keeps(c, d, more), fewer \subseteq more
    PROVE  Keeps(c, d, fewer)
BY DEF Keeps

\* Forgetting the errors of a file is quiet.
LEMMA ClearErrorsQuiet ==
    ASSUME NEW c \in CacheT, NEW f \in Files
    PROVE  /\ Quiet(c, ClearErrors(c, f)) /\ Keeps(c, ClearErrors(c, f), FileFlags \ Errors)
           /\ ClearErrors(c, f).cleaner = c.cleaner /\ ClearErrors(c, f).active = c.active
<1> DEFINE F == c.file[f].flags \ Errors
<1>1. F \in SUBSET FileFlags BY FileFields
<1>2. ClearErrors(c, f) = SetFlags(c, f, F) BY DEF ClearErrors, SetFlags
<1>3. /\ "BEING_WRITTEN" \in F <=> "BEING_WRITTEN" \in c.file[f].flags
      /\ "ON_DIRTY_LIST" \in c.file[f].flags <=> "ON_DIRTY_LIST" \in F
      /\ F \cap (FileFlags \ Errors) = c.file[f].flags \cap (FileFlags \ Errors)
  BY DEF Errors
<1> HIDE DEF F
<1> QED BY <1>1, <1>2, <1>3, SetFlagsQuiet, KeepsSetFlags, SetFlagsFacts

\* Asking for the sync of some files is quiet.
LEMMA StartSyncsQuiet ==
    ASSUME NEW c \in CacheT, NEW S \in SUBSET Files
    PROVE  Quiet(c, StartSyncs(c, S)) /\ Keeps(c, StartSyncs(c, S), FileFlags \ {"FSYNC"})
<1> DEFINE T == {d \in CacheT : Quiet(c, d) /\ Keeps(c, d, FileFlags \ {"FSYNC"})}
           F == [z \in S \X T |-> StartFileSync(z[2], z[1])]
           Eq(g) == g = [s \in SUBSET S |-> IF s = {} THEN c
                          ELSE LET x == CHOOSE x \in s : TRUE IN StartFileSync(g[s \ {x}], x)]
<1>1. IsFiniteSet(S) BY Finite, FS_Subset
<1>2. \A x \in S, d \in T : StartFileSync(d, x) \in T
  <2> SUFFICES ASSUME NEW x \in S, NEW d \in T PROVE StartFileSync(d, x) \in T
    OBVIOUS
  <2>1. d \in CacheT /\ Quiet(c, d) /\ Keeps(c, d, FileFlags \ {"FSYNC"})
    OBVIOUS
  <2>2. Quiet(d, StartFileSync(d, x)) /\ Keeps(d, StartFileSync(d, x), FileFlags \ {"FSYNC"})
    BY <2>1, StartFileSyncQuiet
  <2> QED BY <2>1, <2>2, QuietTrans, KeepsTrans, QuietType
<1>3. c \in T BY QuietRefl DEF Keeps
<1> HIDE DEF T
<1>4. F \in [S \X T -> T] BY <1>2
<1>5. PICK h : Made(h, F, c, S, T) BY <1>1, <1>3, <1>4, FoldMade
<1> HIDE DEF F
<1>6. /\ h = [s \in SUBSET S |-> h[s]] /\ h[{}] = c
      /\ \A s \in SUBSET S : h[s] \in T
      /\ \A s \in SUBSET S : s # {} => Ch(s) \in s /\ h[s] = F[<<Ch(s), h[s \ {Ch(s)}]>>]
  BY <1>5, Zenon DEF Made
<1>7. \A s \in SUBSET S : s # {} => h[s] = StartFileSync(h[s \ {Ch(s)}], Ch(s))
  <2> SUFFICES ASSUME NEW s \in SUBSET S, s # {} PROVE h[s] = StartFileSync(h[s \ {Ch(s)}], Ch(s))
    OBVIOUS
  <2>1. h[s] = F[<<Ch(s), h[s \ {Ch(s)}]>>] /\ Ch(s) \in S /\ h[s \ {Ch(s)}] \in T BY <1>6
  <2> QED BY <2>1 DEF F
<1>8. Eq(h)
  <2>1. h = [s \in SUBSET S |-> h[s]] BY <1>6, Zenon
  <2>2. \A s \in SUBSET S : h[s] = IF s = {} THEN c
                          ELSE LET x == CHOOSE x \in s : TRUE IN StartFileSync(h[s \ {x}], x)
    BY <1>6, <1>7, Zenon DEF Ch
  <2> QED BY <2>1, <2>2, Zenon
<1> DEFINE k == CHOOSE g : Eq(g)
<1>9. Eq(k) BY <1>8
<1>10. StartSyncs(c, S) = k[S] BY Zenon DEF StartSyncs, FoldSet, MapThenFoldSet
<1> HIDE DEF k
<1>11. \A s \in SUBSET S : k[s] = IF s = {} THEN c
                          ELSE LET x == CHOOSE x \in s : TRUE IN StartFileSync(k[s \ {x}], x)
  BY <1>9, Zenon
<1>12. \A s \in SUBSET S : s # {} => Ch(s) \in s /\ k[s] = StartFileSync(k[s \ {Ch(s)}], Ch(s))
  <2>1. \A s \in SUBSET S : s # {} => Ch(s) \in s BY DEF Ch
  <2> QED BY <1>11, <2>1, Zenon DEF Ch
<1>13. k[{}] = c BY <1>11, Zenon
<1> DEFINE I == {s \in SUBSET S : k[s] \in T}
<1>14. \A s \in SUBSET S : s \in I
  <2>1. {} \in I BY <1>3, <1>13
  <2>2. \A s \in SUBSET S : s # {} /\ s \ {CHOOSE x \in s : TRUE} \in I => s \in I
    <3> SUFFICES ASSUME NEW s \in SUBSET S, s # {}, s \ {Ch(s)} \in I PROVE k[s] \in T BY DEF Ch
    <3>1. Ch(s) \in S /\ k[s \ {Ch(s)}] \in T /\ k[s] = StartFileSync(k[s \ {Ch(s)}], Ch(s))
      BY <1>12
    <3> QED BY <3>1, <1>2
  <2> HIDE DEF I
  <2> QED BY <1>1, <2>1, <2>2, SubsetInduction, Zenon
<1>15. k[S] \in T BY <1>14
<1> QED BY <1>10, <1>15 DEF T

\* Starting cleaners of some backends is quiet.
LEMMA StartBackendsQuiet ==
    ASSUME NEW c \in CacheT, NEW S \in SUBSET Backends
    PROVE  Quiet(c, StartBackends(c, S)) /\ Keeps(c, StartBackends(c, S), FileFlags)
<1> DEFINE T == {d \in CacheT : Quiet(c, d) /\ Keeps(c, d, FileFlags)}
           F == [z \in S \X T |-> StartBackendWriteback(z[2], z[1])]
           Eq(g) == g = [s \in SUBSET S |-> IF s = {} THEN c
                          ELSE LET x == CHOOSE x \in s : TRUE IN StartBackendWriteback(g[s \ {x}], x)]
<1>1. IsFiniteSet(S) BY Finite, FS_Subset
<1>2. \A x \in S, d \in T : StartBackendWriteback(d, x) \in T
  <2> SUFFICES ASSUME NEW x \in S, NEW d \in T PROVE StartBackendWriteback(d, x) \in T
    OBVIOUS
  <2>1. d \in CacheT /\ Quiet(c, d) /\ Keeps(c, d, FileFlags)
    OBVIOUS
  <2>2. Quiet(d, StartBackendWriteback(d, x)) /\ Keeps(d, StartBackendWriteback(d, x), FileFlags)
    BY <2>1, StartBackend DEF Keeps
  <2> QED BY <2>1, <2>2, QuietTrans, KeepsTrans, QuietType
<1>3. c \in T BY QuietRefl DEF Keeps
<1> HIDE DEF T
<1>4. F \in [S \X T -> T] BY <1>2
<1>5. PICK h : Made(h, F, c, S, T) BY <1>1, <1>3, <1>4, FoldMade
<1> HIDE DEF F
<1>6. /\ h = [s \in SUBSET S |-> h[s]] /\ h[{}] = c
      /\ \A s \in SUBSET S : h[s] \in T
      /\ \A s \in SUBSET S : s # {} => Ch(s) \in s /\ h[s] = F[<<Ch(s), h[s \ {Ch(s)}]>>]
  BY <1>5, Zenon DEF Made
<1>7. \A s \in SUBSET S : s # {} => h[s] = StartBackendWriteback(h[s \ {Ch(s)}], Ch(s))
  <2> SUFFICES ASSUME NEW s \in SUBSET S, s # {} PROVE h[s] = StartBackendWriteback(h[s \ {Ch(s)}], Ch(s))
    OBVIOUS
  <2>1. h[s] = F[<<Ch(s), h[s \ {Ch(s)}]>>] /\ Ch(s) \in S /\ h[s \ {Ch(s)}] \in T BY <1>6
  <2> QED BY <2>1 DEF F
<1>8. Eq(h)
  <2>1. h = [s \in SUBSET S |-> h[s]] BY <1>6, Zenon
  <2>2. \A s \in SUBSET S : h[s] = IF s = {} THEN c
                          ELSE LET x == CHOOSE x \in s : TRUE IN StartBackendWriteback(h[s \ {x}], x)
    BY <1>6, <1>7, Zenon DEF Ch
  <2> QED BY <2>1, <2>2, Zenon
<1> DEFINE k == CHOOSE g : Eq(g)
<1>9. Eq(k) BY <1>8
<1>10. StartBackends(c, S) = k[S] BY Zenon DEF StartBackends, FoldSet, MapThenFoldSet
<1> HIDE DEF k
<1>11. \A s \in SUBSET S : k[s] = IF s = {} THEN c
                          ELSE LET x == CHOOSE x \in s : TRUE IN StartBackendWriteback(k[s \ {x}], x)
  BY <1>9, Zenon
<1>12. \A s \in SUBSET S : s # {} => Ch(s) \in s /\ k[s] = StartBackendWriteback(k[s \ {Ch(s)}], Ch(s))
  <2>1. \A s \in SUBSET S : s # {} => Ch(s) \in s BY DEF Ch
  <2> QED BY <1>11, <2>1, Zenon DEF Ch
<1>13. k[{}] = c BY <1>11, Zenon
<1> DEFINE I == {s \in SUBSET S : k[s] \in T}
<1>14. \A s \in SUBSET S : s \in I
  <2>1. {} \in I BY <1>3, <1>13
  <2>2. \A s \in SUBSET S : s # {} /\ s \ {CHOOSE x \in s : TRUE} \in I => s \in I
    <3> SUFFICES ASSUME NEW s \in SUBSET S, s # {}, s \ {Ch(s)} \in I PROVE k[s] \in T BY DEF Ch
    <3>1. Ch(s) \in S /\ k[s \ {Ch(s)}] \in T /\ k[s] = StartBackendWriteback(k[s \ {Ch(s)}], Ch(s))
      BY <1>12
    <3> QED BY <3>1, <1>2
  <2> HIDE DEF I
  <2> QED BY <1>1, <2>1, <2>2, SubsetInduction, Zenon
<1>15. k[S] \in T BY <1>14
<1> QED BY <1>10, <1>15 DEF T

\* Forgetting the errors of some files is quiet.
LEMMA ForgetAllQuiet ==
    ASSUME NEW c \in CacheT, NEW S \in SUBSET Files
    PROVE  Quiet(c, ForgetAll(c, S)) /\ Keeps(c, ForgetAll(c, S), FileFlags \ Errors)
<1> DEFINE T == {d \in CacheT : Quiet(c, d) /\ Keeps(c, d, FileFlags \ Errors)}
           F == [z \in S \X T |-> ClearErrors(z[2], z[1])]
           Eq(g) == g = [s \in SUBSET S |-> IF s = {} THEN c
                          ELSE LET x == CHOOSE x \in s : TRUE IN ClearErrors(g[s \ {x}], x)]
<1>1. IsFiniteSet(S) BY Finite, FS_Subset
<1>2. \A x \in S, d \in T : ClearErrors(d, x) \in T
  <2> SUFFICES ASSUME NEW x \in S, NEW d \in T PROVE ClearErrors(d, x) \in T
    OBVIOUS
  <2>1. d \in CacheT /\ Quiet(c, d) /\ Keeps(c, d, FileFlags \ Errors)
    OBVIOUS
  <2>2. Quiet(d, ClearErrors(d, x)) /\ Keeps(d, ClearErrors(d, x), FileFlags \ Errors)
    BY <2>1, ClearErrorsQuiet
  <2> QED BY <2>1, <2>2, QuietTrans, KeepsTrans, QuietType
<1>3. c \in T BY QuietRefl DEF Keeps
<1> HIDE DEF T
<1>4. F \in [S \X T -> T] BY <1>2
<1>5. PICK h : Made(h, F, c, S, T) BY <1>1, <1>3, <1>4, FoldMade
<1> HIDE DEF F
<1>6. /\ h = [s \in SUBSET S |-> h[s]] /\ h[{}] = c
      /\ \A s \in SUBSET S : h[s] \in T
      /\ \A s \in SUBSET S : s # {} => Ch(s) \in s /\ h[s] = F[<<Ch(s), h[s \ {Ch(s)}]>>]
  BY <1>5, Zenon DEF Made
<1>7. \A s \in SUBSET S : s # {} => h[s] = ClearErrors(h[s \ {Ch(s)}], Ch(s))
  <2> SUFFICES ASSUME NEW s \in SUBSET S, s # {} PROVE h[s] = ClearErrors(h[s \ {Ch(s)}], Ch(s))
    OBVIOUS
  <2>1. h[s] = F[<<Ch(s), h[s \ {Ch(s)}]>>] /\ Ch(s) \in S /\ h[s \ {Ch(s)}] \in T BY <1>6
  <2> QED BY <2>1 DEF F
<1>8. Eq(h)
  <2>1. h = [s \in SUBSET S |-> h[s]] BY <1>6, Zenon
  <2>2. \A s \in SUBSET S : h[s] = IF s = {} THEN c
                          ELSE LET x == CHOOSE x \in s : TRUE IN ClearErrors(h[s \ {x}], x)
    BY <1>6, <1>7, Zenon DEF Ch
  <2> QED BY <2>1, <2>2, Zenon
<1> DEFINE k == CHOOSE g : Eq(g)
<1>9. Eq(k) BY <1>8
<1>10. ForgetAll(c, S) = k[S] BY Zenon DEF ForgetAll, ClearErrors, FoldSet, MapThenFoldSet
<1> HIDE DEF k
<1>11. \A s \in SUBSET S : k[s] = IF s = {} THEN c
                          ELSE LET x == CHOOSE x \in s : TRUE IN ClearErrors(k[s \ {x}], x)
  BY <1>9, Zenon
<1>12. \A s \in SUBSET S : s # {} => Ch(s) \in s /\ k[s] = ClearErrors(k[s \ {Ch(s)}], Ch(s))
  <2>1. \A s \in SUBSET S : s # {} => Ch(s) \in s BY DEF Ch
  <2> QED BY <1>11, <2>1, Zenon DEF Ch
<1>13. k[{}] = c BY <1>11, Zenon
<1> DEFINE I == {s \in SUBSET S : k[s] \in T}
<1>14. \A s \in SUBSET S : s \in I
  <2>1. {} \in I BY <1>3, <1>13
  <2>2. \A s \in SUBSET S : s # {} /\ s \ {CHOOSE x \in s : TRUE} \in I => s \in I
    <3> SUFFICES ASSUME NEW s \in SUBSET S, s # {}, s \ {Ch(s)} \in I PROVE k[s] \in T BY DEF Ch
    <3>1. Ch(s) \in S /\ k[s \ {Ch(s)}] \in T /\ k[s] = ClearErrors(k[s \ {Ch(s)}], Ch(s))
      BY <1>12
    <3> QED BY <3>1, <1>2
  <2> HIDE DEF I
  <2> QED BY <1>1, <2>1, <2>2, SubsetInduction, Zenon
<1>15. k[S] \in T BY <1>14
<1> QED BY <1>10, <1>15 DEF T

\* What the sync process does to one file is quiet.
LEMMA SyncFileQuiet ==
    ASSUME NEW c \in CacheT, NEW f \in Files
    PROVE  Quiet(c, SyncFile(c, f)) /\ Keeps(c, SyncFile(c, f), FileFlags \ Errors)
<1>1. SyncFile(c, f) = StartBackendWriteback(ClearErrors(c, f), BackendOf(f))
  BY DEF SyncFile, ClearErrors
<1>2. /\ ClearErrors(c, f) \in CacheT
      /\ Quiet(c, ClearErrors(c, f)) /\ Keeps(c, ClearErrors(c, f), FileFlags \ Errors)
  BY ClearErrorsQuiet, QuietType
<1>3. /\ Quiet(ClearErrors(c, f), SyncFile(c, f))
      /\ SyncFile(c, f).file = ClearErrors(c, f).file
  BY <1>1, <1>2, StartBackend
<1> QED BY <1>2, <1>3, QuietTrans DEF Keeps

\* What the sync process does is quiet.
LEMMA SyncFilesQuiet ==
    ASSUME NEW c \in CacheT, NEW S \in SUBSET Files
    PROVE  Quiet(c, SyncFiles(c, S)) /\ Keeps(c, SyncFiles(c, S), FileFlags \ Errors)
<1> DEFINE T == {d \in CacheT : Quiet(c, d) /\ Keeps(c, d, FileFlags \ Errors)}
           F == [z \in S \X T |-> SyncFile(z[2], z[1])]
           Eq(g) == g = [s \in SUBSET S |-> IF s = {} THEN c
                          ELSE LET x == CHOOSE x \in s : TRUE IN SyncFile(g[s \ {x}], x)]
<1>1. IsFiniteSet(S) BY Finite, FS_Subset
<1>2. \A x \in S, d \in T : SyncFile(d, x) \in T
  <2> SUFFICES ASSUME NEW x \in S, NEW d \in T PROVE SyncFile(d, x) \in T
    OBVIOUS
  <2>1. d \in CacheT /\ Quiet(c, d) /\ Keeps(c, d, FileFlags \ Errors)
    OBVIOUS
  <2>2. Quiet(d, SyncFile(d, x)) /\ Keeps(d, SyncFile(d, x), FileFlags \ Errors)
    BY <2>1, SyncFileQuiet
  <2> QED BY <2>1, <2>2, QuietTrans, KeepsTrans, QuietType
<1>3. c \in T BY QuietRefl DEF Keeps
<1> HIDE DEF T
<1>4. F \in [S \X T -> T] BY <1>2
<1>5. PICK h : Made(h, F, c, S, T) BY <1>1, <1>3, <1>4, FoldMade
<1> HIDE DEF F
<1>6. /\ h = [s \in SUBSET S |-> h[s]] /\ h[{}] = c
      /\ \A s \in SUBSET S : h[s] \in T
      /\ \A s \in SUBSET S : s # {} => Ch(s) \in s /\ h[s] = F[<<Ch(s), h[s \ {Ch(s)}]>>]
  BY <1>5, Zenon DEF Made
<1>7. \A s \in SUBSET S : s # {} => h[s] = SyncFile(h[s \ {Ch(s)}], Ch(s))
  <2> SUFFICES ASSUME NEW s \in SUBSET S, s # {} PROVE h[s] = SyncFile(h[s \ {Ch(s)}], Ch(s))
    OBVIOUS
  <2>1. h[s] = F[<<Ch(s), h[s \ {Ch(s)}]>>] /\ Ch(s) \in S /\ h[s \ {Ch(s)}] \in T BY <1>6
  <2> QED BY <2>1 DEF F
<1>8. Eq(h)
  <2>1. h = [s \in SUBSET S |-> h[s]] BY <1>6, Zenon
  <2>2. \A s \in SUBSET S : h[s] = IF s = {} THEN c
                          ELSE LET x == CHOOSE x \in s : TRUE IN SyncFile(h[s \ {x}], x)
    BY <1>6, <1>7, Zenon DEF Ch
  <2> QED BY <2>1, <2>2, Zenon
<1> DEFINE k == CHOOSE g : Eq(g)
<1>9. Eq(k) BY <1>8
<1>10. SyncFiles(c, S) = k[S] BY Zenon DEF SyncFiles, SyncFile, FoldSet, MapThenFoldSet
<1> HIDE DEF k
<1>11. \A s \in SUBSET S : k[s] = IF s = {} THEN c
                          ELSE LET x == CHOOSE x \in s : TRUE IN SyncFile(k[s \ {x}], x)
  BY <1>9, Zenon
<1>12. \A s \in SUBSET S : s # {} => Ch(s) \in s /\ k[s] = SyncFile(k[s \ {Ch(s)}], Ch(s))
  <2>1. \A s \in SUBSET S : s # {} => Ch(s) \in s BY DEF Ch
  <2> QED BY <1>11, <2>1, Zenon DEF Ch
<1>13. k[{}] = c BY <1>11, Zenon
<1> DEFINE I == {s \in SUBSET S : k[s] \in T}
<1>14. \A s \in SUBSET S : s \in I
  <2>1. {} \in I BY <1>3, <1>13
  <2>2. \A s \in SUBSET S : s # {} /\ s \ {CHOOSE x \in s : TRUE} \in I => s \in I
    <3> SUFFICES ASSUME NEW s \in SUBSET S, s # {}, s \ {Ch(s)} \in I PROVE k[s] \in T BY DEF Ch
    <3>1. Ch(s) \in S /\ k[s \ {Ch(s)}] \in T /\ k[s] = SyncFile(k[s \ {Ch(s)}], Ch(s)) BY <1>12
    <3> QED BY <3>1, <1>2
  <2> HIDE DEF I
  <2> QED BY <1>1, <2>1, <2>2, SubsetInduction, Zenon
<1>15. k[S] \in T BY <1>14
<1> QED BY <1>10, <1>15 DEF T

----------------------------------------------------------------------------
(* Steps that change one block.                                            *)
\* A set that changes by one element changes its size by one.
LEMMA CardOne ==
    ASSUME NEW S, IsFiniteSet(S), NEW T, NEW b, T \ {b} = S \ {b}
    PROVE  IsFiniteSet(T) /\ Cardinality(T) = Cardinality(S) + (IF b \in T THEN 1 ELSE 0) - (IF b \in S THEN 1 ELSE 0)
           /\ Cardinality(S) \in Nat /\ Cardinality(T) \in Nat
<1>1. IsFiniteSet(S \ {b}) /\ Cardinality(S) \in Nat
      /\ Cardinality(S \ {b}) = Cardinality(S) - One(b \in S)
  <2>1. CASE b \in S BY <2>1, FS_RemoveElement, FS_CardinalityType DEF One
  <2>2. CASE b \notin S BY <2>2, FS_RemoveElement, FS_CardinalityType DEF One
  <2> QED BY <2>1, <2>2
<1>2. CASE b \in T
  <2>1. T = (S \ {b}) \cup {b} BY <1>2
  <2>2. IsFiniteSet(T) /\ Cardinality(T) = Cardinality(S \ {b}) + 1 BY <1>1, <2>1, FS_AddElement
  <2> QED BY <1>1, <1>2, <2>2, FS_CardinalityType DEF One
<1>3. CASE b \notin T
  <2>1. T = S \ {b} BY <1>3
  <2> QED BY <1>1, <1>3, <2>1, FS_CardinalityType DEF One
<1> QED BY <1>2, <1>3

\* The counted sets, member by member.
LEMMA SetsAs ==
    ASSUME NEW c, NEW f
    PROVE  /\ Free(c) = {b \in Blocks : IsFree(c.blk[b])}
           /\ Of(c, f) = {b \in Blocks : IsOf(c.blk[b], f)}
           /\ DirtyOf(c, f) = {b \in Blocks : IsDirty(c.blk[b], f)}
           /\ {b \in Of(c, f) : Is(c, b, {"DIRTY"}) /\ ~Is(c, b, {"BEING_WRITTEN"})}
                = {b \in Blocks : IsListed(c.blk[b], f)}
<1>1. Free(c) = {b \in Blocks : IsFree(c.blk[b])} BY DEF Free, IsFree, Is
<1>2. Of(c, f) = {b \in Blocks : IsOf(c.blk[b], f)} BY DEF Of, IsOf
<1>3. DirtyOf(c, f) = {b \in Blocks : IsDirty(c.blk[b], f)} BY <1>2 DEF DirtyOf, IsDirty, Is
<1>4. {b \in Of(c, f) : Is(c, b, {"DIRTY"}) /\ ~Is(c, b, {"BEING_WRITTEN"})}
                = {b \in Blocks : IsListed(c.blk[b], f)}
  BY <1>2 DEF IsListed, Is
<1> QED BY <1>1, <1>2, <1>3, <1>4

\* Counts that change with one block stay exact.
LEMMA DeltaCounts ==
    ASSUME NEW c \in CacheT, CacheInv(c), NEW d \in CacheT, NEW b \in Blocks, Delta(c, d, b)
    PROVE  /\ d.avail = Cardinality(Free(d))
           /\ \A f \in Files :
                 /\ d.file[f].inCache = Cardinality(Of(d, f))
                 /\ d.file[f].numDirty = Cardinality(DirtyOf(d, f))
                 /\ d.file[f].dirtyList = {a \in Of(d, f) : Is(d, a, {"DIRTY"}) /\ ~Is(d, a, {"BEING_WRITTEN"})}
<1>0. /\ \A a \in Blocks \ {b} : d.blk[a] = c.blk[a]
      /\ d.avail = c.avail + One(IsFree(d.blk[b])) - One(IsFree(c.blk[b]))
      /\ \A f \in Files :
          /\ d.file[f].inCache = c.file[f].inCache + One(IsOf(d.blk[b], f)) - One(IsOf(c.blk[b], f))
          /\ d.file[f].numDirty = c.file[f].numDirty + One(IsDirty(d.blk[b], f)) - One(IsDirty(c.blk[b], f))
          /\ d.file[f].dirtyList \ {b} = c.file[f].dirtyList \ {b}
          /\ b \in d.file[f].dirtyList <=> IsListed(d.blk[b], f)
  BY DEF Delta
<1>1. d.avail = Cardinality(Free(d))
  <2> DEFINE S == {a \in Blocks : IsFree(c.blk[a])}
             T == {a \in Blocks : IsFree(d.blk[a])}
  <2>1. IsFiniteSet(S) BY Finite, FS_Subset
  <2>2. T \ {b} = S \ {b} /\ (b \in T <=> IsFree(d.blk[b])) /\ (b \in S <=> IsFree(c.blk[b]))
    BY <1>0
  <2>3. c.avail = Cardinality(S) /\ T = Free(d) BY SetsAs DEF CacheInv, Counts
  <2> HIDE DEF S, T
  <2>4. Cardinality(T) = Cardinality(S) + One(IsFree(d.blk[b])) - One(IsFree(c.blk[b]))
    BY <2>1, <2>2, CardOne DEF One
  <2> QED BY <1>0, <2>3, <2>4
<1>2. ASSUME NEW f \in Files PROVE d.file[f].inCache = Cardinality(Of(d, f))
  <2> DEFINE S == {a \in Blocks : IsOf(c.blk[a], f)}
             T == {a \in Blocks : IsOf(d.blk[a], f)}
  <2>1. IsFiniteSet(S) BY Finite, FS_Subset
  <2>2. T \ {b} = S \ {b} /\ (b \in T <=> IsOf(d.blk[b], f)) /\ (b \in S <=> IsOf(c.blk[b], f))
    BY <1>0
  <2>3. c.file[f].inCache = Cardinality(S) /\ T = Of(d, f) BY SetsAs DEF CacheInv, Counts
  <2> HIDE DEF S, T
  <2>4. Cardinality(T) = Cardinality(S) + One(IsOf(d.blk[b], f)) - One(IsOf(c.blk[b], f))
    BY <2>1, <2>2, CardOne DEF One
  <2> QED BY <1>0, <2>3, <2>4
<1>3. ASSUME NEW f \in Files PROVE d.file[f].numDirty = Cardinality(DirtyOf(d, f))
  <2> DEFINE S == {a \in Blocks : IsDirty(c.blk[a], f)}
             T == {a \in Blocks : IsDirty(d.blk[a], f)}
  <2>1. IsFiniteSet(S) BY Finite, FS_Subset
  <2>2. T \ {b} = S \ {b} /\ (b \in T <=> IsDirty(d.blk[b], f)) /\ (b \in S <=> IsDirty(c.blk[b], f))
    BY <1>0
  <2>3. c.file[f].numDirty = Cardinality(S) /\ T = DirtyOf(d, f) BY SetsAs DEF CacheInv, Counts
  <2> HIDE DEF S, T
  <2>4. Cardinality(T) = Cardinality(S) + One(IsDirty(d.blk[b], f)) - One(IsDirty(c.blk[b], f))
    BY <2>1, <2>2, CardOne DEF One
  <2> QED BY <1>0, <2>3, <2>4
<1>4. ASSUME NEW f \in Files
      PROVE  d.file[f].dirtyList = {a \in Of(d, f) : Is(d, a, {"DIRTY"}) /\ ~Is(d, a, {"BEING_WRITTEN"})}
  <2>1. c.file[f].dirtyList = {a \in Blocks : IsListed(c.blk[a], f)}
    BY SetsAs DEF CacheInv, FileTied
  <2>2. d.file[f].dirtyList \in SUBSET Blocks BY FileFields
  <2>3. d.file[f].dirtyList = {a \in Blocks : IsListed(d.blk[a], f)} BY <1>0, <2>1, <2>2
  <2> QED BY <2>3, SetsAs
<1> QED BY <1>1, <1>2, <1>3, <1>4

\* A step that changes one block keeps the structure of the cache.
LEMMA ChangeInv ==
    ASSUME NEW c \in CacheT, CacheInv(c), NEW d \in CacheT, NEW b \in Blocks,
           Delta(c, d, b), HashStep(c, d, b), BlockOK(d, b), ListStep(c, d), CleanersOK(d)
    PROVE  CacheInv(d)
<1>0. \A a \in Blocks \ {b} : d.blk[a] = c.blk[a] BY DEF Delta
<1>1. BlockTied(d)
  <2> SUFFICES ASSUME NEW a \in Blocks
               PROVE  LET x == d.blk[a] IN
                      /\ x.key = Nil <=> "FREE" \in x.flags
                      /\ x.key = Nil => x.flags = {"FREE"} /\ x.ref = 0
                      /\ x.key # Nil => (d.hash[x.key] = a <=> "DELETED" \notin x.flags)
                      /\ "DELETED" \in x.flags => Is(d, a, DirtyOrWritten)
                      /\ "BEING_WRITTEN" \in x.flags <=> \E s \in Slots : d.cleaner[s].blk = a
    BY DEF BlockTied
  <2>1. CASE a = b BY <2>1 DEF BlockOK, CleanersOK, Is
  <2>2. CASE a # b
    <3>1. d.blk[a] = c.blk[a] BY <1>0, <2>2
    <3>2. LET x == c.blk[a] IN
          /\ x.key = Nil <=> "FREE" \in x.flags
          /\ x.key = Nil => x.flags = {"FREE"} /\ x.ref = 0
          /\ x.key # Nil => (c.hash[x.key] = a <=> "DELETED" \notin x.flags)
          /\ "DELETED" \in x.flags => Is(c, a, DirtyOrWritten)
      BY DEF CacheInv, BlockTied
    <3>3. \A k \in Keys : d.hash[k] = a <=> c.hash[k] = a BY <2>2, NilApart DEF HashStep
    <3>4. c.blk[a].key \in Keys \cup {Nil} BY BlockFields
    <3>5. "BEING_WRITTEN" \in d.blk[a].flags <=> \E s \in Slots : d.cleaner[s].blk = a
      BY DEF CleanersOK
    <3> QED BY <3>1, <3>2, <3>3, <3>4, <3>5 DEF Is
  <2> QED BY <2>1, <2>2
<1>2. HashTied(d)
  <2> SUFFICES ASSUME NEW k \in Keys, d.hash[k] # Nil PROVE d.blk[d.hash[k]].key = k
    BY DEF HashTied
  <2>1. CASE d.hash[k] = b BY <2>1 DEF HashStep
  <2>2. CASE d.hash[k] # b
    <3>1. d.hash[k] = c.hash[k] /\ d.hash[k] \in Blocks BY <2>2, CacheFields DEF HashStep
    <3> QED BY <2>2, <3>1, <1>0 DEF CacheInv, HashTied
  <2> QED BY <2>1, <2>2
<1>3. /\ d.avail = Cardinality(Free(d))
      /\ \A f \in Files :
            /\ d.file[f].inCache = Cardinality(Of(d, f))
            /\ d.file[f].numDirty = Cardinality(DirtyOf(d, f))
            /\ d.file[f].dirtyList = {a \in Of(d, f) : Is(d, a, {"DIRTY"}) /\ ~Is(d, a, {"BEING_WRITTEN"})}
  BY DeltaCounts
<1>4. Counts(d) BY <1>3 DEF Counts, CleanersOK
<1>5. FileTied(d)
  <2> SUFFICES ASSUME NEW f \in Files PROVE d.file[f].numDirty > 0 => Listed(d, f)
    BY <1>3 DEF FileTied, CleanersOK
  <2>1. c.file[f].numDirty > 0 => Listed(c, f) BY DEF CacheInv, FileTied
  <2>2. /\ Listed(c, f) /\ ~Listed(d, f) => d.file[f].numDirty <= 0
        /\ d.file[f].numDirty > c.file[f].numDirty => Listed(d, f)
    BY DEF ListStep
  <2>3. d.file[f].numDirty \in Int /\ c.file[f].numDirty \in Int BY FileFields
  <2> QED BY <2>1, <2>2, <2>3
<1> QED BY <1>1, <1>2, <1>4, <1>5 DEF CacheInv, CleanersOK

\* The cleaners are as before, or some have started.
LEMMA StartsOK ==
    ASSUME NEW c \in CacheT, CacheInv(c), NEW d \in CacheT, Starts(c, d),
           \A b \in Blocks : "BEING_WRITTEN" \in d.blk[b].flags <=> "BEING_WRITTEN" \in c.blk[b].flags,
           \A b \in Blocks : "BEING_WRITTEN" \in c.blk[b].flags => d.blk[b].key = c.blk[b].key,
           \A f \in Files : /\ FileIs(d, f, {"BEING_WRITTEN"}) <=> FileIs(c, f, {"BEING_WRITTEN"})
                            /\ FileIs(c, f, {"BEING_WRITTEN"}) /\ FileIs(d, f, {"ON_DIRTY_LIST"})
                                  => FileIs(c, f, {"ON_DIRTY_LIST"})
    PROVE  CleanersOK(d)
<1>2. \A s \in Slots : /\ d.cleaner[s].file = c.cleaner[s].file /\ d.cleaner[s].blk = c.cleaner[s].blk
                       /\ d.cleaner[s].status = c.cleaner[s].status
                       /\ (d.cleaner[s].pc = c.cleaner[s].pc \/ (c.cleaner[s].pc = "idle" /\ d.cleaner[s].pc = "getFile"))
  <2> SUFFICES ASSUME NEW s \in Slots
               PROVE  /\ d.cleaner[s].file = c.cleaner[s].file /\ d.cleaner[s].blk = c.cleaner[s].blk
                       /\ d.cleaner[s].status = c.cleaner[s].status
                       /\ (d.cleaner[s].pc = c.cleaner[s].pc \/ (c.cleaner[s].pc = "idle" /\ d.cleaner[s].pc = "getFile"))
    OBVIOUS
  <2>1. CASE d.cleaner[s] = c.cleaner[s] BY <2>1
  <2>2. CASE d.cleaner[s] = [c.cleaner[s] EXCEPT !.pc = "getFile"] /\ c.cleaner[s].pc = "idle"
    BY <2>2, CleanerFields DEF CleanerT
  <2> QED BY <2>1, <2>2 DEF Starts
<1>3. CleanerTied(d) BY <1>2 DEF CacheInv, CleanerTied
<1>4. OneCleaner(d) BY <1>2 DEF CacheInv, OneCleaner
<1>5. \A b \in Blocks : "BEING_WRITTEN" \in d.blk[b].flags <=> \E s \in Slots : d.cleaner[s].blk = b
  <2>1. \A b \in Blocks : (\E s \in Slots : d.cleaner[s].blk = b) <=> (\E s \in Slots : c.cleaner[s].blk = b)
    BY <1>2
  <2> QED BY <2>1 DEF CacheInv, BlockTied
<1>6. CleanerBlock(d)
  <2> SUFFICES ASSUME NEW s \in Slots, d.cleaner[s].blk # Nil
               PROVE  d.blk[d.cleaner[s].blk].key # Nil /\ d.blk[d.cleaner[s].blk].key[1] = d.cleaner[s].file
    BY DEF CleanerBlock
  <2>1. d.cleaner[s].blk = c.cleaner[s].blk /\ c.cleaner[s].blk \in Blocks /\ d.cleaner[s].file = c.cleaner[s].file
    BY <1>2, CleanerFields
  <2>2. "BEING_WRITTEN" \in c.blk[c.cleaner[s].blk].flags BY <2>1 DEF CacheInv, BlockTied
  <2>3. d.blk[d.cleaner[s].blk].key = c.blk[c.cleaner[s].blk].key BY <2>1, <2>2
  <2> QED BY <2>1, <2>3 DEF CacheInv, CleanerBlock
<1>7. \A f \in Files : /\ FileIs(d, f, {"BEING_WRITTEN"}) <=> \E s \in Slots : d.cleaner[s].file = f
                       /\ FileIs(d, f, {"BEING_WRITTEN"}) => ~FileIs(d, f, {"ON_DIRTY_LIST"})
  <2> SUFFICES ASSUME NEW f \in Files
               PROVE  /\ FileIs(d, f, {"BEING_WRITTEN"}) <=> \E s \in Slots : d.cleaner[s].file = f
                      /\ FileIs(d, f, {"BEING_WRITTEN"}) => ~FileIs(d, f, {"ON_DIRTY_LIST"})
    OBVIOUS
  <2>1. /\ FileIs(c, f, {"BEING_WRITTEN"}) <=> \E s \in Slots : c.cleaner[s].file = f
        /\ FileIs(c, f, {"BEING_WRITTEN"}) => ~FileIs(c, f, {"ON_DIRTY_LIST"})
    BY DEF CacheInv, FileTied
  <2>2. (\E s \in Slots : d.cleaner[s].file = f) <=> (\E s \in Slots : c.cleaner[s].file = f)
    BY <1>2
  <2> QED BY <2>1, <2>2
<1>8. d.active = Cardinality(ActiveOf(d)) BY DEF Starts, CacheInv, Counts
<1> QED BY <1>3, <1>4, <1>5, <1>6, <1>7, <1>8 DEF CleanersOK

----------------------------------------------------------------------------
(* Waiters are woken.                                                      *)
\* Two steps that wake the waiters wake them together.
LEMMA HeardTrans ==
    ASSUME NEW c \in CacheT, NEW d \in CacheT, NEW e \in CacheT, Heard(c, d), Heard(d, e)
    PROVE  Heard(c, e)
<1>1. c.avail \in Int /\ d.avail \in Int /\ e.avail \in Int BY CacheFields
<1> QED BY <1>1 DEF Heard

\* A quiet step ends nobody's wait.
LEMMA QuietHeard ==
    ASSUME NEW c \in CacheT, NEW d, Quiet(c, d)
    PROVE  Heard(c, d)
<1>1. \A f \in Files : Listed(c, f) => Listed(d, f) BY DEF Quiet, Lists, Listed, FileIs
<1> QED BY <1>1, CacheFields DEF Quiet, Same, Heard

\* Small steps on one block that leave the files and cleaners alone.
LEMMA CacheMade ==
    ASSUME NEW d, NEW blk \in [Blocks -> BlockT], NEW hash \in [Keys -> Blocks \cup {Nil}],
           NEW file \in [Files -> FileT], NEW avail \in Int, NEW active \in Int,
           NEW cleaner \in [Slots -> CleanerT], NEW wake \in SUBSET Events,
           d = [blk |-> blk, hash |-> hash, file |-> file, avail |-> avail,
                active |-> active, cleaner |-> cleaner, wake |-> wake]
    PROVE  d \in CacheT
BY DEF CacheT

\* A broadcast changes nothing but what is broadcast.
LEMMA BroadcastFacts ==
    ASSUME NEW c \in CacheT, NEW e \in Events
    PROVE  /\ Broadcast(c, e) \in CacheT /\ Broadcast(c, e).blk = c.blk /\ Broadcast(c, e).hash = c.hash
           /\ Broadcast(c, e).file = c.file /\ Broadcast(c, e).avail = c.avail
           /\ Broadcast(c, e).active = c.active /\ Broadcast(c, e).cleaner = c.cleaner
           /\ Broadcast(c, e).wake = c.wake \cup {e}
<1> DEFINE d == Broadcast(c, e)
<1>a. d = [c EXCEPT !.wake = @ \cup {e}] BY DEF Broadcast
<1> HIDE DEF d
<1>1. /\ d.blk = c.blk /\ d.hash = c.hash /\ d.file = c.file /\ d.avail = c.avail
      /\ d.active = c.active /\ d.cleaner = c.cleaner /\ d.wake = c.wake \cup {e}
  BY <1>a, CacheFields
<1>0. d = [blk |-> d.blk, hash |-> d.hash, file |-> d.file, avail |-> d.avail,
              active |-> d.active, cleaner |-> d.cleaner, wake |-> d.wake]
  BY <1>a, CacheFields
<1>2. d \in CacheT
  <2>1. d.wake \in SUBSET Events BY <1>1, CacheFields
  <2> QED BY <1>0, <1>1, <2>1, CacheFields, CacheMade
<1> QED BY <1>1, <1>2 DEF d

\* A step that keeps the block's key and whether it is dirty, written or
\* deleted, and counts it among those available if nobody uses it.
LEMMA BlockStepInv ==
    ASSUME NEW c \in CacheT, CacheInv(c), NEW d \in CacheT, NEW b \in Blocks, NEW y \in BlockT,
           d.blk[b] = y, \A a \in Blocks \ {b} : d.blk[a] = c.blk[a],
           d.hash = c.hash, d.file = c.file, d.active = c.active, d.cleaner = c.cleaner,
           c.blk[b].key # Nil, y.key = c.blk[b].key, "FREE" \notin y.flags,
           y.flags \cap {"DIRTY", "BEING_WRITTEN", "DELETED"}
              = c.blk[b].flags \cap {"DIRTY", "BEING_WRITTEN", "DELETED"},
           d.avail = c.avail + One(IsFree(y)) - One(IsFree(c.blk[b]))
    PROVE  CacheInv(d)
<1>1. /\ d \in CacheT /\ d.blk[b] = y /\ \A a \in Blocks \ {b} : d.blk[a] = c.blk[a]
      /\ d.hash = c.hash /\ d.file = c.file
      /\ d.active = c.active /\ d.cleaner = c.cleaner
  OBVIOUS
<1>2. /\ \A f \in Files : IsOf(y, f) = IsOf(c.blk[b], f)
      /\ \A f \in Files : IsDirty(y, f) = IsDirty(c.blk[b], f)
      /\ \A f \in Files : IsListed(y, f) = IsListed(c.blk[b], f)
  <2>1. /\ y.flags \cap DirtyOrWritten = c.blk[b].flags \cap DirtyOrWritten
        /\ "DIRTY" \in y.flags <=> "DIRTY" \in c.blk[b].flags
        /\ "BEING_WRITTEN" \in y.flags <=> "BEING_WRITTEN" \in c.blk[b].flags
    BY DEF DirtyOrWritten
  <2> QED BY <2>1 DEF IsOf, IsDirty, IsListed
<1>3. Delta(c, d, b)
  <2>1. d.avail = c.avail + One(IsFree(d.blk[b])) - One(IsFree(c.blk[b]))
    BY <1>1, CacheFields DEF One
  <2>2. ASSUME NEW f \in Files
        PROVE  /\ d.file[f].inCache = c.file[f].inCache + One(IsOf(d.blk[b], f)) - One(IsOf(c.blk[b], f))
               /\ d.file[f].numDirty = c.file[f].numDirty + One(IsDirty(d.blk[b], f)) - One(IsDirty(c.blk[b], f))
               /\ d.file[f].dirtyList \ {b} = c.file[f].dirtyList \ {b}
               /\ b \in d.file[f].dirtyList <=> IsListed(d.blk[b], f)
    <3>1. c.file[f].inCache \in Int /\ c.file[f].numDirty \in Int BY FileFields
    <3>2. b \in c.file[f].dirtyList <=> IsListed(c.blk[b], f)
      <4>1. c.file[f].dirtyList = {a \in Blocks : IsListed(c.blk[a], f)}
        BY SetsAs DEF CacheInv, FileTied
      <4> QED BY <4>1
    <3>3. d.blk[b] = y /\ d.file = c.file BY <1>1
    <3>4. /\ One(IsOf(y, f)) - One(IsOf(c.blk[b], f)) = 0
          /\ One(IsDirty(y, f)) - One(IsDirty(c.blk[b], f)) = 0
      BY <1>2 DEF One
    <3>5. One(IsOf(y, f)) \in Int /\ One(IsOf(c.blk[b], f)) \in Int
          /\ One(IsDirty(y, f)) \in Int /\ One(IsDirty(c.blk[b], f)) \in Int
      BY DEF One
    <3> QED BY <1>2, <3>1, <3>2, <3>3, <3>4, <3>5
  <2> QED BY <1>1, <2>1, <2>2 DEF Delta
<1>4. LET x == c.blk[b] IN
      /\ x.key # Nil => (c.hash[x.key] = b <=> "DELETED" \notin x.flags)
      /\ "DELETED" \in x.flags => x.flags \cap DirtyOrWritten # {}
  BY DEF CacheInv, BlockTied, Is
<1>5. BlockOK(d, b) BY <1>1, <1>4 DEF BlockOK, DirtyOrWritten
<1>6. HashStep(c, d, b) BY <1>1, NilApart DEF HashStep, CacheInv, HashTied
<1>7. ListStep(c, d) BY <1>1, FileFields DEF ListStep, Listed, FileIs
<1>8. CleanersOK(d)
  <2>1. Starts(c, d) BY <1>1 DEF Starts, ActiveOf
  <2>2. \A a \in Blocks : /\ "BEING_WRITTEN" \in d.blk[a].flags <=> "BEING_WRITTEN" \in c.blk[a].flags
                          /\ d.blk[a].key = c.blk[a].key
    BY <1>1
  <2>3. \A f \in Files : d.file[f].flags = c.file[f].flags BY <1>1
  <2> QED BY <1>1, <2>1, <2>2, <2>3, StartsOK DEF FileIs
<1> QED BY <1>1, <1>3, <1>5, <1>6, <1>7, <1>8, ChangeInv

\* A broadcast keeps the structure of the cache.
LEMMA BroadcastInv ==
    ASSUME NEW c \in CacheT, CacheInv(c), NEW e \in Events
    PROVE  CacheInv(Broadcast(c, e)) /\ Heard(c, Broadcast(c, e))
<1> DEFINE d == Broadcast(c, e)
<1>1. /\ d \in CacheT /\ d.blk = c.blk /\ d.hash = c.hash /\ d.file = c.file /\ d.avail = c.avail
      /\ d.active = c.active /\ d.cleaner = c.cleaner /\ c.wake \subseteq d.wake
  BY BroadcastFacts
<1> HIDE DEF d
<1>2. Heard(c, d) BY <1>1, CacheFields DEF Heard, Listed, FileIs
<1>3. CleanerTied(d) /\ OneCleaner(d) /\ BlockTied(d) /\ HashTied(d) /\ CleanerBlock(d)
  BY <1>1 DEF CacheInv, CleanerTied, OneCleaner, BlockTied, HashTied, CleanerBlock, Is
<1>4. \A f \in Files : Of(d, f) = Of(c, f) /\ DirtyOf(d, f) = DirtyOf(c, f)
  BY <1>1 DEF Of, DirtyOf, Is
<1>5. Free(d) = Free(c) /\ ActiveOf(d) = ActiveOf(c) BY <1>1 DEF Free, ActiveOf, Is
<1>6. FileTied(d) BY <1>1, <1>4 DEF CacheInv, FileTied, Listed, FileIs, Is
<1>7. Counts(d) BY <1>1, <1>4, <1>5 DEF CacheInv, Counts
<1> QED BY <1>2, <1>3, <1>6, <1>7 DEF CacheInv, d

----------------------------------------------------------------------------
(* Steps on a block and its file.                                          *)
\* Recounting a block and its file recounts everything.
LEMMA DeltaMade ==
    ASSUME NEW c \in CacheT, CacheInv(c), NEW d \in CacheT, NEW b \in Blocks, NEW f \in Files,
           OneFile(c, d, b, f), Recount(c.blk[b], d.blk[b], c.file[f], d.file[f], f, b),
           d.avail = c.avail + One(IsFree(d.blk[b])) - One(IsFree(c.blk[b]))
    PROVE  Delta(c, d, b)
<1> SUFFICES ASSUME NEW g \in Files
    PROVE /\ d.file[g].inCache = c.file[g].inCache + One(IsOf(d.blk[b], g)) - One(IsOf(c.blk[b], g))
          /\ d.file[g].numDirty = c.file[g].numDirty + One(IsDirty(d.blk[b], g)) - One(IsDirty(c.blk[b], g))
          /\ d.file[g].dirtyList \ {b} = c.file[g].dirtyList \ {b}
          /\ b \in d.file[g].dirtyList <=> IsListed(d.blk[b], g)
  BY DEF OneFile, Delta
<1>1. CASE g = f
  <2>1. /\ IsOf(d.blk[b], f) <=> d.blk[b].key # Nil
        /\ IsOf(c.blk[b], f) <=> c.blk[b].key # Nil
    BY DEF Recount, IsOf
  <2> QED BY <1>1, <2>1 DEF Recount, IsDirty, IsListed, One
<1>2. CASE g # f
  <2>1. ~IsOf(d.blk[b], g) /\ ~IsOf(c.blk[b], g) BY <1>2 DEF Recount, IsOf
  <2>2. b \notin c.file[g].dirtyList
    <3>1. c.file[g].dirtyList = {a \in Blocks : IsListed(c.blk[a], g)}
      BY SetsAs DEF CacheInv, FileTied
    <3> QED BY <3>1, <2>1 DEF IsListed
  <2>3. d.file[g] = c.file[g] /\ c.file[g].inCache \in Int /\ c.file[g].numDirty \in Int
    BY <1>2, FileFields DEF OneFile
  <2> QED BY <2>1, <2>2, <2>3 DEF IsDirty, IsListed, One
<1> QED BY <1>1, <1>2

\* What the file of the block does to the lists is all there is.
LEMMA ListMade ==
    ASSUME NEW c \in CacheT, NEW d \in CacheT, NEW b \in Blocks, NEW f \in Files,
           OneFile(c, d, b, f), Relist(c.file[f], d.file[f])
    PROVE  ListStep(c, d)
<1> SUFFICES ASSUME NEW g \in Files
    PROVE /\ Listed(c, g) /\ ~Listed(d, g) => d.file[g].numDirty <= 0
          /\ d.file[g].numDirty > c.file[g].numDirty => Listed(d, g)
  BY DEF ListStep
<1>1. CASE g = f BY <1>1 DEF Relist, Listed, FileIs
<1>2. CASE g # f BY <1>2, FileFields DEF OneFile, Listed, FileIs
<1> QED BY <1>1, <1>2

\* A step on a block and its file that touches no cleaner.
LEMMA FileStepInv ==
    ASSUME NEW c \in CacheT, CacheInv(c), NEW d \in CacheT, NEW b \in Blocks, NEW f \in Files,
           OneFile(c, d, b, f), Recount(c.blk[b], d.blk[b], c.file[f], d.file[f], f, b),
           d.avail = c.avail + One(IsFree(d.blk[b])) - One(IsFree(c.blk[b])),
           Relist(c.file[f], d.file[f]), HashStep(c, d, b), BlockOK(d, b),
           d.cleaner = c.cleaner, d.active = c.active,
           "BEING_WRITTEN" \in d.blk[b].flags <=> "BEING_WRITTEN" \in c.blk[b].flags,
           "BEING_WRITTEN" \in c.blk[b].flags => d.blk[b].key = c.blk[b].key,
           "BEING_WRITTEN" \in d.file[f].flags <=> "BEING_WRITTEN" \in c.file[f].flags,
           "BEING_WRITTEN" \in c.file[f].flags /\ "ON_DIRTY_LIST" \in d.file[f].flags
              => "ON_DIRTY_LIST" \in c.file[f].flags
    PROVE  CacheInv(d)
<1>1. Delta(c, d, b) /\ ListStep(c, d) BY DeltaMade, ListMade
<1>2. CleanersOK(d)
  <2>1. Starts(c, d) BY DEF Starts, ActiveOf
  <2>2. \A a \in Blocks : /\ "BEING_WRITTEN" \in d.blk[a].flags <=> "BEING_WRITTEN" \in c.blk[a].flags
                          /\ "BEING_WRITTEN" \in c.blk[a].flags => d.blk[a].key = c.blk[a].key
    BY DEF OneFile
  <2>3. \A g \in Files : /\ FileIs(d, g, {"BEING_WRITTEN"}) <=> FileIs(c, g, {"BEING_WRITTEN"})
                         /\ FileIs(c, g, {"BEING_WRITTEN"}) /\ FileIs(d, g, {"ON_DIRTY_LIST"})
                               => FileIs(c, g, {"ON_DIRTY_LIST"})
    <3> SUFFICES ASSUME NEW g \in Files
                 PROVE  /\ FileIs(d, g, {"BEING_WRITTEN"}) <=> FileIs(c, g, {"BEING_WRITTEN"})
                        /\ FileIs(c, g, {"BEING_WRITTEN"}) /\ FileIs(d, g, {"ON_DIRTY_LIST"})
                               => FileIs(c, g, {"ON_DIRTY_LIST"})
      OBVIOUS
    <3>1. CASE g = f BY <3>1 DEF FileIs
    <3>2. CASE g # f BY <3>2 DEF FileIs, OneFile
    <3> QED BY <3>1, <3>2
  <2> QED BY <2>1, <2>2, <2>3, StartsOK
<1> QED BY <1>1, <1>2, ChangeInv

\* Waking.
LEMMA HeardMade ==
    ASSUME NEW c \in CacheT, NEW d \in CacheT, NEW b \in Blocks, NEW f \in Files,
           OneFile(c, d, b, f), c.wake \subseteq d.wake,
           Used(c.blk[b]) /\ ~Used(d.blk[b]) => IODone(b) \in d.wake,
           c.file[f].flags \cap {"ON_DIRTY_LIST", "BEING_WRITTEN"} # {}
             /\ d.file[f].flags \cap {"ON_DIRTY_LIST", "BEING_WRITTEN"} = {}
                => NoDirtyBlocks(f) \in d.wake,
           c.avail < d.avail => CleanBlock \in d.wake
    PROVE  Heard(c, d)
<1>1. \A a \in Blocks : Used(c.blk[a]) /\ ~Used(d.blk[a]) => IODone(a) \in d.wake BY DEF OneFile
<1>2. \A g \in Files : Listed(c, g) /\ ~Listed(d, g) => NoDirtyBlocks(g) \in d.wake
  <2> SUFFICES ASSUME NEW g \in Files, Listed(c, g), ~Listed(d, g) PROVE NoDirtyBlocks(g) \in d.wake
    OBVIOUS
  <2>1. CASE g = f BY <2>1 DEF Listed, FileIs
  <2>2. CASE g # f BY <2>2 DEF Listed, FileIs, OneFile
  <2> QED BY <2>1, <2>2
<1> QED BY <1>1, <1>2 DEF Heard

\* What CacheInv says of one block and its file.
LEMMA BlockFacts ==
    ASSUME NEW c \in CacheT, CacheInv(c), NEW b \in Blocks, c.blk[b].key # Nil
    PROVE  /\ c.blk[b].key \in Keys /\ c.blk[b].key[1] \in Files
           /\ "FREE" \notin c.blk[b].flags
           /\ c.hash[c.blk[b].key] = b <=> "DELETED" \notin c.blk[b].flags
           /\ "DELETED" \in c.blk[b].flags => c.blk[b].flags \cap DirtyOrWritten # {}
           /\ c.file[c.blk[b].key[1]].inCache > 0
           /\ c.blk[b].flags \cap DirtyOrWritten # {} =>
                 /\ c.file[c.blk[b].key[1]].numDirty > 0
                 /\ c.file[c.blk[b].key[1]].flags \cap {"ON_DIRTY_LIST", "BEING_WRITTEN"} # {}
           /\ b \in c.file[c.blk[b].key[1]].dirtyList
                <=> "DIRTY" \in c.blk[b].flags /\ "BEING_WRITTEN" \notin c.blk[b].flags
           /\ \A k \in Keys : c.hash[k] = b => k = c.blk[b].key
<1>1. c.blk[b].key \in Keys /\ c.blk[b].key[1] \in Files BY BlockFields, KeyFacts
<1>2. /\ "FREE" \notin c.blk[b].flags
      /\ c.hash[c.blk[b].key] = b <=> "DELETED" \notin c.blk[b].flags
      /\ "DELETED" \in c.blk[b].flags => c.blk[b].flags \cap DirtyOrWritten # {}
  BY DEF CacheInv, BlockTied, Is
<1> DEFINE f == c.blk[b].key[1]
<1>3. c.file[f].inCache > 0
  <2>1. IsFiniteSet(Of(c, f)) /\ b \in Of(c, f) BY Finite, FS_Subset DEF Of
  <2>2. Cardinality(Of(c, f)) \in Nat /\ Cardinality(Of(c, f)) # 0
    BY <2>1, FS_CardinalityType, FS_EmptySet
  <2> QED BY <1>1, <2>2 DEF CacheInv, Counts
<1>4. c.blk[b].flags \cap DirtyOrWritten # {} => c.file[f].numDirty > 0
  <2> SUFFICES ASSUME c.blk[b].flags \cap DirtyOrWritten # {} PROVE c.file[f].numDirty > 0
    OBVIOUS
  <2>1. IsFiniteSet(DirtyOf(c, f)) /\ b \in DirtyOf(c, f)
    BY Finite, FS_Subset DEF Of, DirtyOf, Is
  <2>2. Cardinality(DirtyOf(c, f)) \in Nat /\ Cardinality(DirtyOf(c, f)) # 0
    BY <2>1, FS_CardinalityType, FS_EmptySet
  <2> QED BY <1>1, <2>2 DEF CacheInv, Counts
<1>5. b \in c.file[f].dirtyList <=> "DIRTY" \in c.blk[b].flags /\ "BEING_WRITTEN" \notin c.blk[b].flags
  <2>1. c.file[f].dirtyList = {a \in Blocks : IsListed(c.blk[a], f)}
    BY <1>1, SetsAs DEF CacheInv, FileTied
  <2> QED BY <2>1 DEF IsListed, IsOf
<1>6. c.file[f].numDirty > 0 => c.file[f].flags \cap {"ON_DIRTY_LIST", "BEING_WRITTEN"} # {}
  BY <1>1 DEF CacheInv, FileTied, Listed, FileIs
<1>7. \A k \in Keys : c.hash[k] = b => k = c.blk[b].key BY NilApart DEF CacheInv, HashTied
<1> QED BY <1>1, <1>2, <1>3, <1>4, <1>5, <1>6, <1>7

\* The counts of a file are numbers, and a dirty file is listed.
LEMMA FileFacts ==
    ASSUME NEW c \in CacheT, CacheInv(c), NEW f \in Files
    PROVE  /\ c.file[f].inCache \in Nat /\ c.file[f].numDirty \in Nat
           /\ c.file[f].numDirty > 0 => c.file[f].flags \cap {"ON_DIRTY_LIST", "BEING_WRITTEN"} # {}
           /\ "BEING_WRITTEN" \in c.file[f].flags => "ON_DIRTY_LIST" \notin c.file[f].flags
           /\ c.avail \in 0 .. Cardinality(Blocks) /\ c.active \in 0 .. Cardinality(Slots)
<1>1. IsFiniteSet(Of(c, f)) /\ IsFiniteSet(DirtyOf(c, f)) BY Finite, FS_Subset DEF Of, DirtyOf
<1>2. Cardinality(Of(c, f)) \in Nat /\ Cardinality(DirtyOf(c, f)) \in Nat
  BY <1>1, FS_CardinalityType
<1>3. Free(c) \subseteq Blocks /\ ActiveOf(c) \subseteq Slots BY DEF Free, ActiveOf
<1>4. /\ Cardinality(Free(c)) \in Nat /\ Cardinality(ActiveOf(c)) \in Nat
      /\ Cardinality(Free(c)) <= Cardinality(Blocks) /\ Cardinality(ActiveOf(c)) <= Cardinality(Slots)
      /\ Cardinality(Blocks) \in Nat /\ Cardinality(Slots) \in Nat
  BY <1>3, Finite, FS_Subset, FS_CardinalityType
<1> QED BY <1>2, <1>4 DEF CacheInv, Counts, FileTied, Listed, FileIs

----------------------------------------------------------------------------
(* Unlocking a block.                                                      *)
\* What setting a block changes.
LEMMA SetBlockFacts ==
    ASSUME NEW c \in CacheT, NEW b \in Blocks, NEW y \in BlockT
    PROVE  /\ SetBlock(c, b, y) \in CacheT /\ SetBlock(c, b, y).blk[b] = y
           /\ \A a \in Blocks \ {b} : SetBlock(c, b, y).blk[a] = c.blk[a]
           /\ SetBlock(c, b, y).hash = c.hash
           /\ SetBlock(c, b, y).file = c.file /\ SetBlock(c, b, y).avail = c.avail
           /\ SetBlock(c, b, y).active = c.active /\ SetBlock(c, b, y).cleaner = c.cleaner
           /\ SetBlock(c, b, y).wake = c.wake
<1> DEFINE d == SetBlock(c, b, y)
<1>a. d = [c EXCEPT !.blk[b] = y] BY DEF SetBlock
<1> HIDE DEF d
<1>1. /\ d.blk = [c.blk EXCEPT ![b] = y] /\ d.hash = c.hash /\ d.file = c.file /\ d.avail = c.avail
      /\ d.active = c.active /\ d.cleaner = c.cleaner /\ d.wake = c.wake
  BY <1>a, CacheFields
<1>0. d = [blk |-> d.blk, hash |-> d.hash, file |-> d.file, avail |-> d.avail,
              active |-> d.active, cleaner |-> d.cleaner, wake |-> d.wake]
  BY <1>a, CacheFields
<1>2. d.blk \in [Blocks -> BlockT] /\ d.blk[b] = y /\ \A a \in Blocks \ {b} : d.blk[a] = c.blk[a]
  BY <1>1, CacheFields
<1>4. d \in CacheT BY <1>0, <1>1, <1>2, CacheFields, CacheMade
<1> QED BY <1>1, <1>2, <1>4 DEF d

\* What setting the number of available blocks changes.
LEMMA SetAvailFacts ==
    ASSUME NEW c \in CacheT, NEW n \in Int
    PROVE  /\ SetAvail(c, n) \in CacheT /\ SetAvail(c, n).blk = c.blk
           /\ SetAvail(c, n).hash = c.hash
           /\ SetAvail(c, n).file = c.file /\ SetAvail(c, n).avail = n
           /\ SetAvail(c, n).active = c.active /\ SetAvail(c, n).cleaner = c.cleaner
           /\ SetAvail(c, n).wake = c.wake
<1> DEFINE d == SetAvail(c, n)
<1>a. d = [c EXCEPT !.avail = n] BY DEF SetAvail
<1> HIDE DEF d
<1>1. /\ d.blk = c.blk /\ d.hash = c.hash /\ d.file = c.file /\ d.avail = n
      /\ d.active = c.active /\ d.cleaner = c.cleaner /\ d.wake = c.wake
  BY <1>a, CacheFields
<1>0. d = [blk |-> d.blk, hash |-> d.hash, file |-> d.file, avail |-> d.avail,
              active |-> d.active, cleaner |-> d.cleaner, wake |-> d.wake]
  BY <1>a, CacheFields
<1>4. d \in CacheT BY <1>0, <1>1, CacheFields, CacheMade
<1> QED BY <1>1, <1>4 DEF d

\* Ending the I/O on a block keeps the structure and wakes the waiters.
LEMMA EndIOStep ==
    ASSUME NEW c \in CacheT, CacheInv(c), NEW b \in Blocks, c.blk[b].key # Nil
    PROVE  LET d == EndIO(c, b) IN
           /\ d \in CacheT /\ CacheInv(d) /\ Heard(c, d) /\ Around(c, d, b)
           /\ d.file = c.file /\ d.avail = c.avail
           /\ d.blk[b].key = c.blk[b].key /\ d.blk[b].ref = c.blk[b].ref
           /\ d.blk[b].flags = c.blk[b].flags \ {"IO_IN_PROGRESS"}
<1>1. CASE ~Is(c, b, {"IO_IN_PROGRESS"})
  <2>1. EndIO(c, b) = c /\ "IO_IN_PROGRESS" \notin c.blk[b].flags BY <1>1 DEF EndIO, Is
  <2>2. Heard(c, c) BY CacheFields DEF Heard
  <2> QED BY <2>1, <2>2 DEF Around
<1>2. CASE Is(c, b, {"IO_IN_PROGRESS"})
  <2> DEFINE y == [c.blk[b] EXCEPT !.flags = @ \ {"IO_IN_PROGRESS"}]
             e == SetBlock(c, b, y)
             d == Broadcast(e, IODone(b))
  <2>1. EndIO(c, b) = d BY <1>2 DEF EndIO, SetBlock
  <2>2. /\ y \in BlockT /\ y.key = c.blk[b].key /\ y.ref = c.blk[b].ref
        /\ y.flags = c.blk[b].flags \ {"IO_IN_PROGRESS"}
    BY BlockFields DEF BlockT
  <2> HIDE DEF y
  <2>3. /\ e \in CacheT /\ e.blk[b] = y /\ \A a \in Blocks \ {b} : e.blk[a] = c.blk[a]
        /\ e.hash = c.hash /\ e.file = c.file /\ e.avail = c.avail
        /\ e.active = c.active /\ e.cleaner = c.cleaner /\ e.wake = c.wake
    BY <2>2, SetBlockFacts
  <2> HIDE DEF e
  <2>4. IsFree(y) <=> IsFree(c.blk[b]) BY <2>2 DEF IsFree, DirtyOrWritten
  <2>5. CacheInv(e)
    <3>1. e.avail = c.avail + One(IsFree(y)) - One(IsFree(c.blk[b]))
      BY <2>3, <2>4, CacheFields DEF One
    <3>2. "FREE" \notin y.flags /\ y.flags \cap {"DIRTY", "BEING_WRITTEN", "DELETED"}
              = c.blk[b].flags \cap {"DIRTY", "BEING_WRITTEN", "DELETED"}
      BY <2>2, BlockFacts
    <3> QED BY <2>2, <2>3, <3>1, <3>2, BlockStepInv
  <2>6. Heard(c, e) BY <2>2, <2>3, CacheFields DEF Heard, Used, Listed, FileIs
  <2>7. /\ CacheInv(d) /\ Heard(e, d) /\ d \in CacheT /\ d.blk = e.blk /\ d.hash = e.hash
        /\ d.file = e.file /\ d.avail = e.avail /\ d.cleaner = e.cleaner /\ d.active = e.active
    BY <2>3, <2>5, BroadcastFacts, BroadcastInv, EventTypes
  <2>8. Heard(c, d) BY <2>3, <2>6, <2>7, HeardTrans
  <2> HIDE DEF d
  <2> QED BY <2>1, <2>2, <2>3, <2>7, <2>8 DEF Around
<1> QED BY <1>1, <1>2

\* Releasing a block keeps the structure.
LEMMA UnrefStep ==
    ASSUME NEW c \in CacheT, CacheInv(c), NEW b \in Blocks, c.blk[b].key # Nil,
           c.blk[b].ref > 0, "BEING_WRITTEN" \in c.blk[b].flags => c.blk[b].ref > 1
    PROVE  LET d == Unref(c, b) IN
           /\ d \in CacheT /\ CacheInv(d) /\ Around(c, d, b) /\ d.file = c.file
           /\ d.blk[b].key = c.blk[b].key /\ d.blk[b].ref = c.blk[b].ref - 1
           /\ d.blk[b].flags = c.blk[b].flags
           /\ c.wake \subseteq d.wake
           /\ d.avail # c.avail => CleanBlock \in d.wake
<1> DEFINE y == [c.blk[b] EXCEPT !.ref = @ - 1]
<1>2. /\ y \in BlockT /\ y.key = c.blk[b].key /\ y.ref = c.blk[b].ref - 1
      /\ y.flags = c.blk[b].flags
  <2>0. c.blk[b].ref \in Int BY BlockFields
  <2>1. c.blk[b].ref - 1 \in Int BY <2>0
  <2>a. c.blk[b] = [key |-> c.blk[b].key, ref |-> c.blk[b].ref, flags |-> c.blk[b].flags]
    BY BlockFields
  <2>2. y = [key |-> c.blk[b].key, ref |-> c.blk[b].ref - 1, flags |-> c.blk[b].flags] BY <2>a
  <2> QED BY <2>1, <2>2, BlockFields DEF BlockT
<1> DEFINE e == SetBlock(c, b, y)
           a == SetAvail(e, e.avail + 1)
           d == Unref(c, b)
<1>1. d = IF e.blk[b].ref = 0 /\ ~Is(e, b, DirtyOrWritten)
          THEN Broadcast(a, CleanBlock) ELSE e
  BY DEF Unref, MakeAvailable, SetBlock, SetAvail
<1> HIDE DEF y, d
<1>3. /\ e \in CacheT /\ e.blk[b] = y /\ \A x \in Blocks \ {b} : e.blk[x] = c.blk[x]
      /\ e.hash = c.hash /\ e.file = c.file /\ e.avail = c.avail
      /\ e.active = c.active /\ e.cleaner = c.cleaner /\ e.wake = c.wake
  BY <1>2, SetBlockFacts
<1> HIDE DEF e
<1>4. "FREE" \notin y.flags /\ ~IsFree(c.blk[b]) BY SMTT(30), <1>2, BlockFacts DEF IsFree
<1>5. CASE e.blk[b].ref = 0 /\ ~Is(e, b, DirtyOrWritten)
  <2>1. /\ a \in CacheT /\ a.blk = e.blk /\ a.hash = e.hash /\ a.file = e.file
        /\ a.avail = e.avail + 1 /\ a.active = e.active /\ a.cleaner = e.cleaner /\ a.wake = e.wake
    BY <1>3, SetAvailFacts, CacheFields
  <2> HIDE DEF a
  <2>2. IsFree(y) BY <1>3, <1>5 DEF IsFree, Is
  <2>3. a.avail = c.avail + One(IsFree(y)) - One(IsFree(c.blk[b]))
    BY <1>3, <1>4, <2>1, <2>2, CacheFields DEF One
  <2>4. CacheInv(a) BY <1>2, <1>3, <1>4, <2>1, <2>3, BlockStepInv
  <2>5. d = Broadcast(a, CleanBlock) BY <1>1, <1>5
  <2>6. /\ d \in CacheT /\ CacheInv(d) /\ d.blk = a.blk /\ d.hash = a.hash
        /\ d.file = a.file /\ d.cleaner = a.cleaner /\ d.active = a.active /\ d.wake = a.wake \cup {CleanBlock}
    BY <2>1, <2>4, <2>5, BroadcastFacts, BroadcastInv, EventTypes
  <2> QED BY <1>2, <1>3, <2>1, <2>6 DEF Around, d
<1>6. CASE ~(e.blk[b].ref = 0 /\ ~Is(e, b, DirtyOrWritten))
  <2>1. d = e BY <1>1, <1>6
  <2>2. ~IsFree(y) BY <1>3, <1>6 DEF IsFree, Is
  <2>3. e.avail = c.avail + One(IsFree(y)) - One(IsFree(c.blk[b]))
    BY <1>3, <1>4, <2>2, CacheFields DEF One
  <2>4. CacheInv(e) BY <1>2, <1>3, <1>4, <2>3, BlockStepInv
  <2> QED BY <1>2, <1>3, <2>1, <2>4 DEF Around, d
<1> QED BY <1>5, <1>6

----------------------------------------------------------------------------
(* Elementary changes.                                                     *)
\* What setting a cacheInfo changes.
LEMMA SetFileFacts ==
    ASSUME NEW c \in CacheT, NEW f \in Files, NEW z \in FileT
    PROVE  /\ SetFile(c, f, z) \in CacheT /\ SetFile(c, f, z).file[f] = z
           /\ \A g \in Files \ {f} : SetFile(c, f, z).file[g] = c.file[g]
           /\ SetFile(c, f, z).hash = c.hash
           /\ SetFile(c, f, z).blk = c.blk /\ SetFile(c, f, z).avail = c.avail
           /\ SetFile(c, f, z).active = c.active /\ SetFile(c, f, z).cleaner = c.cleaner
           /\ SetFile(c, f, z).wake = c.wake
<1> DEFINE d == SetFile(c, f, z)
<1>a. d = [c EXCEPT !.file[f] = z] BY DEF SetFile
<1> HIDE DEF d
<1>1. /\ d.file = [c.file EXCEPT ![f] = z] /\ d.hash = c.hash /\ d.blk = c.blk /\ d.avail = c.avail
      /\ d.active = c.active /\ d.cleaner = c.cleaner /\ d.wake = c.wake
  BY <1>a, CacheFields
<1>0. d = [blk |-> d.blk, hash |-> d.hash, file |-> d.file, avail |-> d.avail,
              active |-> d.active, cleaner |-> d.cleaner, wake |-> d.wake]
  BY <1>a, CacheFields
<1>2. d.file \in [Files -> FileT] /\ d.file[f] = z /\ \A g \in Files \ {f} : d.file[g] = c.file[g]
  BY <1>1, CacheFields
<1>4. d \in CacheT BY <1>0, <1>1, <1>2, CacheFields, CacheMade
<1> QED BY <1>1, <1>2, <1>4 DEF d

\* What setting a hash entry changes.
LEMMA SetHashFacts ==
    ASSUME NEW c \in CacheT, NEW k \in Keys, NEW h \in Blocks \cup {Nil}
    PROVE  /\ SetHash(c, k, h) \in CacheT /\ SetHash(c, k, h).hash[k] = h
           /\ \A g \in Keys \ {k} : SetHash(c, k, h).hash[g] = c.hash[g]
           /\ SetHash(c, k, h).file = c.file
           /\ SetHash(c, k, h).blk = c.blk /\ SetHash(c, k, h).avail = c.avail
           /\ SetHash(c, k, h).active = c.active /\ SetHash(c, k, h).cleaner = c.cleaner
           /\ SetHash(c, k, h).wake = c.wake
<1> DEFINE d == SetHash(c, k, h)
<1>a. d = [c EXCEPT !.hash[k] = h] BY DEF SetHash
<1> HIDE DEF d
<1>1. /\ d.hash = [c.hash EXCEPT ![k] = h] /\ d.file = c.file /\ d.blk = c.blk /\ d.avail = c.avail
      /\ d.active = c.active /\ d.cleaner = c.cleaner /\ d.wake = c.wake
  BY <1>a, CacheFields
<1>0. d = [blk |-> d.blk, hash |-> d.hash, file |-> d.file, avail |-> d.avail,
              active |-> d.active, cleaner |-> d.cleaner, wake |-> d.wake]
  BY <1>a, CacheFields
<1>2. d.hash \in [Keys -> Blocks \cup {Nil}] /\ d.hash[k] = h /\ \A g \in Keys \ {k} : d.hash[g] = c.hash[g]
  BY <1>1, CacheFields
<1>4. d \in CacheT BY <1>0, <1>1, <1>2, CacheFields, CacheMade
<1> QED BY <1>1, <1>2, <1>4 DEF d

\* What setting the flags of a block changes.
LEMMA SetBlkFlagsFacts ==
    ASSUME NEW c \in CacheT, NEW b \in Blocks, NEW v \in SUBSET BlockFlags
    PROVE  LET d == SetBlkFlags(c, b, v) IN
           /\ d \in CacheT /\ \A a \in Blocks \ {b} : d.blk[a] = c.blk[a]
           /\ d.blk[b].flags = v /\ d.blk[b].key = c.blk[b].key /\ d.blk[b].ref = c.blk[b].ref
           /\ d.hash = c.hash /\ d.file = c.file /\ d.avail = c.avail
           /\ d.active = c.active /\ d.cleaner = c.cleaner /\ d.wake = c.wake
<1> DEFINE y == [key |-> c.blk[b].key, ref |-> c.blk[b].ref, flags |-> v]
<1>1. SetBlkFlags(c, b, v) = SetBlock(c, b, [c.blk[b] EXCEPT !.flags = v])
  BY DEF SetBlkFlags, SetBlock
<1>a. c.blk[b] = [key |-> c.blk[b].key, ref |-> c.blk[b].ref, flags |-> c.blk[b].flags]
  BY BlockFields
<1>2. [c.blk[b] EXCEPT !.flags = v] = y BY <1>a
<1>3. y \in BlockT /\ y.flags = v /\ y.key = c.blk[b].key /\ y.ref = c.blk[b].ref
  BY BlockFields DEF BlockT
<1> HIDE DEF y
<1> QED BY <1>1, <1>2, <1>3, SetBlockFacts

\* What setting a reference count changes.
LEMMA SetRefFacts ==
    ASSUME NEW c \in CacheT, NEW b \in Blocks, NEW v \in Int
    PROVE  LET d == SetRef(c, b, v) IN
           /\ d \in CacheT /\ \A a \in Blocks \ {b} : d.blk[a] = c.blk[a]
           /\ d.blk[b].ref = v /\ d.blk[b].key = c.blk[b].key /\ d.blk[b].flags = c.blk[b].flags
           /\ d.hash = c.hash /\ d.file = c.file /\ d.avail = c.avail
           /\ d.active = c.active /\ d.cleaner = c.cleaner /\ d.wake = c.wake
<1> DEFINE y == [key |-> c.blk[b].key, ref |-> v, flags |-> c.blk[b].flags]
<1>1. SetRef(c, b, v) = SetBlock(c, b, [c.blk[b] EXCEPT !.ref = v]) BY DEF SetRef, SetBlock
<1>a. c.blk[b] = [key |-> c.blk[b].key, ref |-> c.blk[b].ref, flags |-> c.blk[b].flags]
  BY BlockFields
<1>2. [c.blk[b] EXCEPT !.ref = v] = y BY <1>a
<1>3. y \in BlockT /\ y.ref = v /\ y.key = c.blk[b].key /\ y.flags = c.blk[b].flags
  BY BlockFields DEF BlockT
<1> HIDE DEF y
<1> QED BY <1>1, <1>2, <1>3, SetBlockFacts

\* What setting the key of a block changes.
LEMMA SetKeyFacts ==
    ASSUME NEW c \in CacheT, NEW b \in Blocks, NEW v \in Keys \cup {Nil}
    PROVE  LET d == SetKey(c, b, v) IN
           /\ d \in CacheT /\ \A a \in Blocks \ {b} : d.blk[a] = c.blk[a]
           /\ d.blk[b].key = v /\ d.blk[b].ref = c.blk[b].ref /\ d.blk[b].flags = c.blk[b].flags
           /\ d.hash = c.hash /\ d.file = c.file /\ d.avail = c.avail
           /\ d.active = c.active /\ d.cleaner = c.cleaner /\ d.wake = c.wake
<1> DEFINE y == [key |-> v, ref |-> c.blk[b].ref, flags |-> c.blk[b].flags]
<1>1. SetKey(c, b, v) = SetBlock(c, b, [c.blk[b] EXCEPT !.key = v]) BY DEF SetKey, SetBlock
<1>a. c.blk[b] = [key |-> c.blk[b].key, ref |-> c.blk[b].ref, flags |-> c.blk[b].flags]
  BY BlockFields
<1>2. [c.blk[b] EXCEPT !.key = v] = y BY <1>a
<1>3. y \in BlockT /\ y.key = v /\ y.ref = c.blk[b].ref /\ y.flags = c.blk[b].flags
  BY BlockFields DEF BlockT
<1> HIDE DEF y
<1> QED BY <1>1, <1>2, <1>3, SetBlockFacts

\* A cacheInfo is the record of its fields.
LEMMA FileRecord ==
    ASSUME NEW c \in CacheT, NEW f \in Files
    PROVE  c.file[f] = [numDirty |-> c.file[f].numDirty, inCache |-> c.file[f].inCache,
                        dirtyList |-> c.file[f].dirtyList, flags |-> c.file[f].flags]
BY CacheFields DEF FileT

\* What setting numDirtyBlocks changes.
LEMMA SetNumDirtyFacts ==
    ASSUME NEW c \in CacheT, NEW f \in Files, NEW v \in Int
    PROVE  LET d == SetNumDirty(c, f, v) IN
           /\ d \in CacheT /\ \A g \in Files \ {f} : d.file[g] = c.file[g]
           /\ d.file[f].numDirty = v
           /\ d.file[f].inCache = c.file[f].inCache /\ d.file[f].dirtyList = c.file[f].dirtyList /\ d.file[f].flags = c.file[f].flags
           /\ d.blk = c.blk /\ d.hash = c.hash /\ d.avail = c.avail
           /\ d.active = c.active /\ d.cleaner = c.cleaner /\ d.wake = c.wake
<1> DEFINE z == [numDirty |-> v, inCache |-> c.file[f].inCache, dirtyList |-> c.file[f].dirtyList, flags |-> c.file[f].flags]
<1>1. SetNumDirty(c, f, v) = SetFile(c, f, [c.file[f] EXCEPT !.numDirty = v])
  BY DEF SetNumDirty, SetFile
<1>a. c.file[f] = [numDirty |-> c.file[f].numDirty, inCache |-> c.file[f].inCache,
                        dirtyList |-> c.file[f].dirtyList, flags |-> c.file[f].flags]
  BY FileRecord
<1>2. [c.file[f] EXCEPT !.numDirty = v] = z BY <1>a
<1>3. z \in FileT /\ z.numDirty = v
      /\ z.inCache = c.file[f].inCache /\ z.dirtyList = c.file[f].dirtyList /\ z.flags = c.file[f].flags
  BY FileFields DEF FileT
<1> HIDE DEF z
<1> QED BY <1>1, <1>2, <1>3, SetFileFacts

\* What setting blocksInCache changes.
LEMMA SetInCacheFacts ==
    ASSUME NEW c \in CacheT, NEW f \in Files, NEW v \in Int
    PROVE  LET d == SetInCache(c, f, v) IN
           /\ d \in CacheT /\ \A g \in Files \ {f} : d.file[g] = c.file[g]
           /\ d.file[f].inCache = v
           /\ d.file[f].numDirty = c.file[f].numDirty /\ d.file[f].dirtyList = c.file[f].dirtyList /\ d.file[f].flags = c.file[f].flags
           /\ d.blk = c.blk /\ d.hash = c.hash /\ d.avail = c.avail
           /\ d.active = c.active /\ d.cleaner = c.cleaner /\ d.wake = c.wake
<1> DEFINE z == [numDirty |-> c.file[f].numDirty, inCache |-> v, dirtyList |-> c.file[f].dirtyList, flags |-> c.file[f].flags]
<1>1. SetInCache(c, f, v) = SetFile(c, f, [c.file[f] EXCEPT !.inCache = v])
  BY DEF SetInCache, SetFile
<1>a. c.file[f] = [numDirty |-> c.file[f].numDirty, inCache |-> c.file[f].inCache,
                        dirtyList |-> c.file[f].dirtyList, flags |-> c.file[f].flags]
  BY FileRecord
<1>2. [c.file[f] EXCEPT !.inCache = v] = z BY <1>a
<1>3. z \in FileT /\ z.inCache = v
      /\ z.numDirty = c.file[f].numDirty /\ z.dirtyList = c.file[f].dirtyList /\ z.flags = c.file[f].flags
  BY FileFields DEF FileT
<1> HIDE DEF z
<1> QED BY <1>1, <1>2, <1>3, SetFileFacts

\* What setting a dirty list changes.
LEMMA SetDirtyListFacts ==
    ASSUME NEW c \in CacheT, NEW f \in Files, NEW v \in SUBSET Blocks
    PROVE  LET d == SetDirtyList(c, f, v) IN
           /\ d \in CacheT /\ \A g \in Files \ {f} : d.file[g] = c.file[g]
           /\ d.file[f].dirtyList = v
           /\ d.file[f].numDirty = c.file[f].numDirty /\ d.file[f].inCache = c.file[f].inCache /\ d.file[f].flags = c.file[f].flags
           /\ d.blk = c.blk /\ d.hash = c.hash /\ d.avail = c.avail
           /\ d.active = c.active /\ d.cleaner = c.cleaner /\ d.wake = c.wake
<1> DEFINE z == [numDirty |-> c.file[f].numDirty, inCache |-> c.file[f].inCache, dirtyList |-> v, flags |-> c.file[f].flags]
<1>1. SetDirtyList(c, f, v) = SetFile(c, f, [c.file[f] EXCEPT !.dirtyList = v])
  BY DEF SetDirtyList, SetFile
<1>a. c.file[f] = [numDirty |-> c.file[f].numDirty, inCache |-> c.file[f].inCache,
                        dirtyList |-> c.file[f].dirtyList, flags |-> c.file[f].flags]
  BY FileRecord
<1>2. [c.file[f] EXCEPT !.dirtyList = v] = z BY <1>a
<1>3. z \in FileT /\ z.dirtyList = v
      /\ z.numDirty = c.file[f].numDirty /\ z.inCache = c.file[f].inCache /\ z.flags = c.file[f].flags
  BY FileFields DEF FileT
<1> HIDE DEF z
<1> QED BY <1>1, <1>2, <1>3, SetFileFacts

\* What setting the flags of a file changes.
LEMMA SetFileFlagsFacts ==
    ASSUME NEW c \in CacheT, NEW f \in Files, NEW v \in SUBSET FileFlags
    PROVE  LET d == SetFileFlags(c, f, v) IN
           /\ d \in CacheT /\ \A g \in Files \ {f} : d.file[g] = c.file[g]
           /\ d.file[f].flags = v
           /\ d.file[f].numDirty = c.file[f].numDirty /\ d.file[f].inCache = c.file[f].inCache /\ d.file[f].dirtyList = c.file[f].dirtyList
           /\ d.blk = c.blk /\ d.hash = c.hash /\ d.avail = c.avail
           /\ d.active = c.active /\ d.cleaner = c.cleaner /\ d.wake = c.wake
<1> DEFINE z == [numDirty |-> c.file[f].numDirty, inCache |-> c.file[f].inCache, dirtyList |-> c.file[f].dirtyList, flags |-> v]
<1>1. SetFileFlags(c, f, v) = SetFile(c, f, [c.file[f] EXCEPT !.flags = v])
  BY DEF SetFileFlags, SetFile
<1>a. c.file[f] = [numDirty |-> c.file[f].numDirty, inCache |-> c.file[f].inCache,
                        dirtyList |-> c.file[f].dirtyList, flags |-> c.file[f].flags]
  BY FileRecord
<1>2. [c.file[f] EXCEPT !.flags = v] = z BY <1>a
<1>3. z \in FileT /\ z.flags = v
      /\ z.numDirty = c.file[f].numDirty /\ z.inCache = c.file[f].inCache /\ z.dirtyList = c.file[f].dirtyList
  BY FileFields DEF FileT
<1> HIDE DEF z
<1> QED BY <1>1, <1>2, <1>3, SetFileFacts

\* What putting a file on the dirty list does.
LEMMA PutFileFacts ==
    ASSUME NEW c \in CacheT, NEW f \in Files, NEW fresh \in BOOLEAN
    PROVE  FilePut(c, PutFileOnDirtyList(c, f, fresh), f)
<1> DEFINE F == (c.file[f].flags \cup {"ON_DIRTY_LIST"}) \ (IF fresh THEN {"OLD"} ELSE {})
           d == PutFileOnDirtyList(c, f, fresh)
<1>0. /\ Listed(d, f) /\ Keeps(c, d, FileFlags \ {"ON_DIRTY_LIST", "OLD"}) /\ Quiet(c, d)
  BY PutFileQuiet
<1>1. CASE FileIs(c, f, {"ON_DIRTY_LIST", "BEING_WRITTEN"})
  <2>1. d = c BY <1>1 DEF PutFileOnDirtyList
  <2> HIDE DEF d
  <2> QED BY <1>0, <2>1 DEF FileSame, FilePut, d
<1>2. CASE ~FileIs(c, f, {"ON_DIRTY_LIST", "BEING_WRITTEN"})
  <2>1. d = SetFlags(c, f, F) BY <1>2 DEF PutFileOnDirtyList, SetFlags
  <2>2. F \in SUBSET FileFlags BY FileFields DEF FileFlags
  <2> HIDE DEF d, F
  <2>3. /\ d \in CacheT /\ d.blk = c.blk /\ d.hash = c.hash /\ d.avail = c.avail
        /\ d.active = c.active /\ d.cleaner = c.cleaner /\ d.wake = c.wake
        /\ \A g \in Files \ {f} : d.file[g] = c.file[g]
        /\ FileSame(c, d, f)
    BY <2>1, <2>2, SetFlagsFacts DEF Same
  <2>4. Lists(c, d, f) BY <1>0 DEF Quiet
  <2>5. /\ "BEING_WRITTEN" \in d.file[f].flags <=> "BEING_WRITTEN" \in c.file[f].flags
        /\ "BEING_WRITTEN" \in c.file[f].flags /\ "ON_DIRTY_LIST" \in d.file[f].flags
              => "ON_DIRTY_LIST" \in c.file[f].flags
    BY <2>4 DEF Lists, FileIs
  <2> QED BY <1>0, <2>3, <2>5 DEF FilePut, d
<1> QED BY <1>1, <1>2

\* The files after PutBlockOnDirtyList.
LEMMA PutBlockFacts ==
    ASSUME NEW c \in CacheT, NEW b \in Blocks, NEW fresh \in BOOLEAN, c.blk[b].key # Nil
    PROVE  BlockPut(c, PutBlockOnDirtyList(c, b, fresh), b, c.blk[b].key[1])
<1> DEFINE f == c.blk[b].key[1]
           F == c.blk[b].flags \cup {"DIRTY"}
           e == SetBlkFlags(c, b, F)
           D == e.file[f].dirtyList \cup {b}
           g == SetDirtyList(e, f, D)
           d == PutBlockOnDirtyList(c, b, fresh)
<1>1. d = PutFileOnDirtyList(g, f, fresh) BY DEF PutBlockOnDirtyList, SetBlkFlags, SetDirtyList
<1>2. f \in Files /\ F \in SUBSET BlockFlags BY BlockFields, KeyFacts DEF BlockFlags
<1> HIDE DEF d, f, F
<1>3. /\ e \in CacheT /\ \A a \in Blocks \ {b} : e.blk[a] = c.blk[a]
      /\ e.blk[b].flags = F /\ e.blk[b].key = c.blk[b].key /\ e.blk[b].ref = c.blk[b].ref
      /\ e.hash = c.hash /\ e.file = c.file /\ e.avail = c.avail
      /\ e.active = c.active /\ e.cleaner = c.cleaner /\ e.wake = c.wake
  BY <1>2, SetBlkFlagsFacts
<1> HIDE DEF e
<1>4. D \in SUBSET Blocks BY <1>2, <1>3, FileFields
<1> HIDE DEF D
<1>5. /\ g \in CacheT /\ \A h \in Files \ {f} : g.file[h] = e.file[h]
      /\ g.file[f].dirtyList = D
      /\ g.file[f].numDirty = e.file[f].numDirty /\ g.file[f].inCache = e.file[f].inCache
      /\ g.file[f].flags = e.file[f].flags
      /\ g.blk = e.blk /\ g.hash = e.hash /\ g.avail = e.avail
      /\ g.active = e.active /\ g.cleaner = e.cleaner /\ g.wake = e.wake
  BY <1>2, <1>3, <1>4, SetDirtyListFacts
<1> HIDE DEF g
<1>6. /\ d \in CacheT /\ d.blk = g.blk /\ d.hash = g.hash /\ d.avail = g.avail
      /\ d.active = g.active /\ d.cleaner = g.cleaner /\ d.wake = g.wake
      /\ \A h \in Files \ {f} : d.file[h] = g.file[h]
      /\ FileSame(g, d, f) /\ Listed(d, f)
      /\ "BEING_WRITTEN" \in d.file[f].flags <=> "BEING_WRITTEN" \in g.file[f].flags
      /\ "BEING_WRITTEN" \in g.file[f].flags /\ "ON_DIRTY_LIST" \in d.file[f].flags
            => "ON_DIRTY_LIST" \in g.file[f].flags
      /\ Keeps(g, d, FileFlags \ {"ON_DIRTY_LIST", "OLD"})
  <2>1. g \in CacheT BY <1>5
  <2>2. FilePut(g, d, f) BY <1>1, <1>2, <2>1, PutFileFacts
  <2> QED BY <2>2 DEF FilePut
<1>7. d.file[f].numDirty = c.file[f].numDirty /\ d.file[f].inCache = c.file[f].inCache
      /\ d.file[f].dirtyList = c.file[f].dirtyList \cup {b}
  BY <1>3, <1>5, <1>6 DEF FileSame, D
<1>8. Keeps(c, d, FileFlags \ {"ON_DIRTY_LIST", "OLD"})
  <2>1. \A h \in Files : g.file[h].flags = c.file[h].flags BY <1>3, <1>5
  <2> QED BY <1>6, <2>1 DEF Keeps
<1>9. /\ \A a \in Blocks \ {b} : d.blk[a] = c.blk[a]
      /\ \A h \in Files \ {f} : d.file[h] = c.file[h]
  BY <1>3, <1>5, <1>6
<1>10. /\ d.hash = c.hash /\ d.avail = c.avail
       /\ d.blk[b].key = c.blk[b].key /\ d.blk[b].ref = c.blk[b].ref
       /\ d.blk[b].flags = c.blk[b].flags \cup {"DIRTY"}
       /\ d.active = c.active /\ d.cleaner = c.cleaner /\ d.wake = c.wake
  BY <1>3, <1>5, <1>6 DEF F
<1>11. /\ "BEING_WRITTEN" \in d.file[f].flags <=> "BEING_WRITTEN" \in c.file[f].flags
       /\ "BEING_WRITTEN" \in c.file[f].flags /\ "ON_DIRTY_LIST" \in d.file[f].flags
             => "ON_DIRTY_LIST" \in c.file[f].flags
  BY <1>3, <1>5, <1>6
<1>12. BlockPut(c, d, b, f) BY <1>6, <1>7, <1>8, <1>9, <1>10, <1>11 DEF BlockPut
<1> QED BY <1>12 DEF d, f

\* MarkDirty in elementary changes.
LEMMA MarkDirtyIs ==
    ASSUME NEW c, NEW b, "DIRTY" \notin c.blk[b].flags
    PROVE  MarkDirty(c, b) =
             IF Is(c, b, {"BEING_WRITTEN"})
             THEN SetBlkFlags(c, b, c.blk[b].flags \cup {"DIRTY"})
             ELSE PutBlockOnDirtyList(
                     [SetBlkFlags(c, b, c.blk[b].flags \cup {"DIRTY"})
                         EXCEPT !.file[c.blk[b].key[1]].numDirty = @ + 1], b, TRUE)
<1>1. ~Is(c, b, {"DIRTY"}) BY DEF Is
<1> QED BY <1>1 DEF MarkDirty, SetBlkFlags

\* Marking a block dirty keeps the structure.
LEMMA MarkDirtyStep ==
    ASSUME NEW c \in CacheT, CacheInv(c), NEW b \in Blocks, c.blk[b].key # Nil, c.blk[b].ref > 0
    PROVE  LET d == MarkDirty(c, b) IN
           /\ d \in CacheT /\ CacheInv(d) /\ Heard(c, d) /\ Around(c, d, b)
           /\ d.avail = c.avail /\ d.wake = c.wake
           /\ d.blk[b].key = c.blk[b].key /\ d.blk[b].ref = c.blk[b].ref
           /\ d.blk[b].flags = c.blk[b].flags \cup {"DIRTY"}
           /\ Keeps(c, d, FileFlags \ {"ON_DIRTY_LIST", "OLD"})
<1> DEFINE f == c.blk[b].key[1]
           F == c.blk[b].flags \cup {"DIRTY"}
           e == SetBlkFlags(c, b, F)
           N == e.file[f].numDirty + 1
           g == SetNumDirty(e, f, N)
           d == MarkDirty(c, b)
<1>0. f \in Files /\ "FREE" \notin c.blk[b].flags /\ F \in SUBSET BlockFlags
  BY BlockFacts, BlockFields DEF BlockFlags
<1>1. d = IF "DIRTY" \in c.blk[b].flags THEN c
          ELSE IF "BEING_WRITTEN" \in c.blk[b].flags THEN e
          ELSE PutBlockOnDirtyList(g, b, TRUE)
  <2>1. CASE "DIRTY" \in c.blk[b].flags BY <2>1 DEF MarkDirty, Is
  <2>2. CASE "DIRTY" \notin c.blk[b].flags
    <3>1. Is(c, b, {"BEING_WRITTEN"}) <=> "BEING_WRITTEN" \in c.blk[b].flags BY DEF Is
    <3>2. g = [e EXCEPT !.file[f].numDirty = @ + 1] BY DEF SetNumDirty
    <3>3. d = IF Is(c, b, {"BEING_WRITTEN"}) THEN e ELSE PutBlockOnDirtyList([e EXCEPT !.file[f].numDirty = @ + 1], b, TRUE)
      BY Zenon, <2>2, MarkDirtyIs
    <3> HIDE DEF d, e, g
    <3> QED BY Zenon, <2>2, <3>1, <3>2, <3>3
  <2> QED BY <2>1, <2>2
<1> HIDE DEF d, f, F
<1>4. /\ e \in CacheT /\ \A a \in Blocks \ {b} : e.blk[a] = c.blk[a]
      /\ e.blk[b].flags = F /\ e.blk[b].key = c.blk[b].key /\ e.blk[b].ref = c.blk[b].ref
      /\ e.hash = c.hash /\ e.file = c.file /\ e.avail = c.avail
      /\ e.active = c.active /\ e.cleaner = c.cleaner /\ e.wake = c.wake
  BY <1>0, SetBlkFlagsFacts
<1> HIDE DEF e
<1>6. LET x == c.blk[b] IN
      /\ x.key # Nil => (c.hash[x.key] = b <=> "DELETED" \notin x.flags)
      /\ "DELETED" \in x.flags => x.flags \cap DirtyOrWritten # {}
      /\ b \in c.file[f].dirtyList <=> "DIRTY" \in x.flags /\ "BEING_WRITTEN" \notin x.flags
      /\ \A k \in Keys : c.hash[k] = b => k = x.key
  BY BlockFacts DEF f
<1>7. /\ c.file[f].numDirty \in Int /\ c.file[f].inCache \in Int /\ c.file[f].dirtyList \in SUBSET Blocks
      /\ c.avail \in Int
  BY <1>0, FileFields, CacheFields
<1>1a. CASE "DIRTY" \in c.blk[b].flags
  <2>1. d = c /\ c.blk[b].flags = c.blk[b].flags \cup {"DIRTY"} BY <1>1, <1>1a
  <2>2. Heard(c, c) BY <1>7 DEF Heard
  <2> QED BY <2>1, <2>2 DEF Around, Keeps, d
<1>8. CASE "DIRTY" \notin c.blk[b].flags /\ "BEING_WRITTEN" \in c.blk[b].flags
  <2>1. d = e BY <1>1, <1>8
  <2>2. OneFile(c, d, b, f) BY <2>1, <1>4 DEF OneFile
  <2>a. ~IsFree(c.blk[b]) /\ ~IsFree(d.blk[b]) BY <2>1, <1>4 DEF IsFree
  <2>3. Recount(c.blk[b], d.blk[b], c.file[f], d.file[f], f, b)
    BY SMTT(30), <2>1, <1>4, <1>6, <1>7, <1>8 DEF Recount, One, DirtyOrWritten, f, F
  <2>4. d.avail = c.avail + One(IsFree(d.blk[b])) - One(IsFree(c.blk[b]))
    BY <2>1, <1>4, <2>a, <1>7 DEF One
  <2>5. Relist(c.file[f], d.file[f]) BY <2>1, <1>4, <1>7 DEF Relist
  <2>6. HashStep(c, d, b) /\ BlockOK(d, b)
    BY <2>1, <1>0, <1>4, <1>6 DEF HashStep, BlockOK, DirtyOrWritten, F
  <2>7. /\ "BEING_WRITTEN" \in d.blk[b].flags <=> "BEING_WRITTEN" \in c.blk[b].flags
        /\ d.blk[b].key = c.blk[b].key /\ d.file = c.file
    BY <2>1, <1>4 DEF F
  <2>8. CacheInv(d) BY <1>0, <1>4, <2>1, <2>2, <2>3, <2>4, <2>5, <2>6, <2>7, FileStepInv
  <2>9. Heard(c, d) BY <2>1, <1>4, <1>7 DEF Heard, Used, Listed, FileIs, F
  <2> QED BY <2>1, <2>8, <2>9, <1>4 DEF Around, Keeps, d, F
<1>9. CASE "DIRTY" \notin c.blk[b].flags /\ "BEING_WRITTEN" \notin c.blk[b].flags
  <2>1. N \in Int BY <1>4, <1>7
  <2>2. d = PutBlockOnDirtyList(g, b, TRUE) BY <1>1, <1>9
  <2> HIDE DEF N
  <2>3. /\ g \in CacheT /\ \A h \in Files \ {f} : g.file[h] = e.file[h]
        /\ g.file[f].numDirty = N
        /\ g.file[f].dirtyList = e.file[f].dirtyList /\ g.file[f].inCache = e.file[f].inCache
        /\ g.file[f].flags = e.file[f].flags
        /\ g.blk = e.blk /\ g.hash = e.hash /\ g.avail = e.avail
        /\ g.active = e.active /\ g.cleaner = e.cleaner /\ g.wake = e.wake
    BY SMTT(30), <1>0, <1>4, <2>1, SetNumDirtyFacts
  <2> HIDE DEF g
  <2>4. /\ d \in CacheT /\ d.hash = g.hash /\ d.avail = g.avail
        /\ \A a \in Blocks \ {b} : d.blk[a] = g.blk[a]
        /\ d.blk[b].key = g.blk[b].key /\ d.blk[b].ref = g.blk[b].ref
        /\ d.blk[b].flags = g.blk[b].flags \cup {"DIRTY"}
        /\ d.active = g.active /\ d.cleaner = g.cleaner /\ d.wake = g.wake
        /\ \A h \in Files \ {f} : d.file[h] = g.file[h]
        /\ d.file[f].numDirty = g.file[f].numDirty /\ d.file[f].inCache = g.file[f].inCache
        /\ d.file[f].dirtyList = g.file[f].dirtyList \cup {b}
        /\ Listed(d, f)
        /\ "BEING_WRITTEN" \in d.file[f].flags <=> "BEING_WRITTEN" \in g.file[f].flags
        /\ "BEING_WRITTEN" \in g.file[f].flags /\ "ON_DIRTY_LIST" \in d.file[f].flags
              => "ON_DIRTY_LIST" \in g.file[f].flags
        /\ Keeps(g, d, FileFlags \ {"ON_DIRTY_LIST", "OLD"})
    <3>1. g.blk[b].key = c.blk[b].key BY <1>4, <2>3
    <3>2. BlockPut(g, d, b, g.blk[b].key[1]) BY <2>2, <2>3, <3>1, PutBlockFacts
    <3>3. BlockPut(g, d, b, f) BY <3>1, <3>2 DEF f
    <3> QED BY <3>3 DEF BlockPut
  <2>5. OneFile(c, d, b, f) BY <1>4, <2>3, <2>4 DEF OneFile
  <2>6. /\ d.file[f].numDirty = c.file[f].numDirty + 1 /\ d.file[f].inCache = c.file[f].inCache
        /\ d.file[f].dirtyList = c.file[f].dirtyList \cup {b}
        /\ d.blk[b].key = c.blk[b].key /\ d.blk[b].ref = c.blk[b].ref
        /\ d.blk[b].flags = c.blk[b].flags \cup {"DIRTY"}
    BY <1>4, <2>3, <2>4 DEF N, F
  <2>7. Recount(c.blk[b], d.blk[b], c.file[f], d.file[f], f, b)
    <3>1. c.blk[b].key # Nil /\ d.blk[b].key # Nil /\ c.blk[b].key[1] = f /\ d.blk[b].key[1] = f
      BY Zenon, <2>6 DEF f
    <3>2. c.blk[b].flags \cap DirtyOrWritten = {} /\ d.blk[b].flags \cap DirtyOrWritten # {}
      BY <1>9, <2>6 DEF DirtyOrWritten
    <3>3. d.file[f].dirtyList \ {b} = c.file[f].dirtyList \ {b} BY <2>6
    <3>4. "DIRTY" \in d.blk[b].flags /\ "BEING_WRITTEN" \notin d.blk[b].flags /\ b \in d.file[f].dirtyList
      BY <1>9, <2>6
    <3>5. /\ d.file[f].inCache = c.file[f].inCache + 1 - 1
          /\ d.file[f].numDirty = c.file[f].numDirty + 1 - 0
      BY <1>7, <2>6
    <3> QED BY <3>1, <3>2, <3>3, <3>4, <3>5 DEF Recount, One
  <2>a. ~IsFree(c.blk[b]) /\ ~IsFree(d.blk[b]) BY <2>6, BlockFields DEF IsFree
  <2>8. d.avail = c.avail + One(IsFree(d.blk[b])) - One(IsFree(c.blk[b]))
    BY <1>4, <1>7, <2>3, <2>4, <2>a DEF One
  <2>9. Relist(c.file[f], d.file[f]) BY <2>4 DEF Relist, Listed, FileIs
  <2>10. HashStep(c, d, b) /\ BlockOK(d, b)
    BY <1>0, <1>4, <1>6, <2>3, <2>4, <2>6 DEF HashStep, BlockOK, DirtyOrWritten
  <2>11. /\ "BEING_WRITTEN" \in d.blk[b].flags <=> "BEING_WRITTEN" \in c.blk[b].flags
         /\ "BEING_WRITTEN" \in d.file[f].flags <=> "BEING_WRITTEN" \in c.file[f].flags
         /\ "BEING_WRITTEN" \in c.file[f].flags /\ "ON_DIRTY_LIST" \in d.file[f].flags
              => "ON_DIRTY_LIST" \in c.file[f].flags
    BY <1>4, <2>3, <2>4, <2>6
  <2>b. d.cleaner = c.cleaner /\ d.active = c.active /\ d \in CacheT BY <1>4, <2>3, <2>4
  <2>12. CacheInv(d) BY <1>0, <2>b, <2>5, <2>6, <2>7, <2>8, <2>9, <2>10, <2>11, FileStepInv
  <2>13. Heard(c, d)
    <3>1. d.wake = c.wake /\ d.avail = c.avail /\ (Used(c.blk[b]) => Used(d.blk[b]))
      BY <1>4, <2>3, <2>4, <2>6 DEF Used
    <3>2. d.file[f].flags \cap {"ON_DIRTY_LIST", "BEING_WRITTEN"} # {}
      BY <2>4 DEF Listed, FileIs
    <3> QED BY <1>0, <1>7, <2>4, <2>5, <3>1, <3>2, HeardMade
  <2>14. Keeps(c, d, FileFlags \ {"ON_DIRTY_LIST", "OLD"})
    <3>1. \A h \in Files : g.file[h].flags = c.file[h].flags BY <1>4, <2>3
    <3> QED BY <2>4, <3>1 DEF Keeps
  <2>15. Around(c, d, b) BY <1>4, <2>3, <2>4 DEF Around
  <2>16. d.avail = c.avail /\ d.wake = c.wake BY <1>4, <2>3, <2>4
  <2> QED BY <2>b, <2>6, <2>12, <2>13, <2>14, <2>15, <2>16 DEF d
<1> QED BY <1>1a, <1>8, <1>9

\* The same, by name.
LEMMA MarkDirtyDone ==
    ASSUME NEW c \in CacheT, CacheInv(c), NEW b \in Blocks, c.blk[b].key # Nil, c.blk[b].ref > 0
    PROVE  MarkDone(c, MarkDirty(c, b), b)
BY MarkDirtyStep DEF MarkDone

\* EndIO does what it should.
LEMMA EndIOIsDone ==
    ASSUME NEW c \in CacheT, CacheInv(c), NEW b \in Blocks, c.blk[b].key # Nil
    PROVE  EndIODone(c, EndIO(c, b), b)
BY EndIOStep DEF EndIODone

\* Unref does what it should.
LEMMA UnrefIsDone ==
    ASSUME NEW c \in CacheT, CacheInv(c), NEW b \in Blocks, c.blk[b].key # Nil,
           c.blk[b].ref > 0, "BEING_WRITTEN" \in c.blk[b].flags => c.blk[b].ref > 1
    PROVE  UnrefDone(c, Unref(c, b), b)
BY UnrefStep DEF UnrefDone

\* The end of Fscache_UnlockBlock as LastUnref.
LEMMA LastUnrefIs ==
    ASSUME NEW e \in CacheT, NEW b \in Blocks
    PROVE  LET g == [e EXCEPT !.blk[b].ref = @ - 1]
               h == MakeAvailable(Broadcast(g, IODone(b)), b)
           IN  /\ g.blk[b].ref > 0 <=> e.blk[b].ref > 1
               /\ g.blk[b].ref > 0 => g = LastUnref(e, b)
               /\ ~(g.blk[b].ref > 0) => h = LastUnref(e, b)
<1> DEFINE g == [e EXCEPT !.blk[b].ref = @ - 1]
           n == e.blk[b].ref
<1>1. g.blk[b].ref = n - 1 /\ n \in Int
  <2>1. n \in Int BY BlockFields
  <2>2. n - 1 \in Int BY <2>1
  <2>3. g = SetRef(e, b, n - 1) BY DEF SetRef
  <2> HIDE DEF g, n
  <2>4. SetRef(e, b, n - 1).blk[b].ref = n - 1 BY <2>2, SetRefFacts
  <2> QED BY <2>1, <2>3, <2>4
<1>2. n - 1 > 0 <=> n > 1 BY <1>1
<1>3. Unref(e, b) = MakeAvailable(g, b) BY DEF Unref
<1>4. [Broadcast(e, IODone(b)) EXCEPT !.blk[b].ref = @ - 1] = Broadcast(g, IODone(b))
  BY CacheFields DEF Broadcast
<1>5. Unref(Broadcast(e, IODone(b)), b) = MakeAvailable(Broadcast(g, IODone(b)), b)
  BY <1>4 DEF Unref
<1> HIDE DEF g
<1>6. g.blk[b].ref > 0 => MakeAvailable(g, b) = g BY <1>1 DEF MakeAvailable
<1> QED BY <1>1, <1>2, <1>3, <1>5, <1>6 DEF LastUnref, g

\* LastUnref keeps the structure and wakes the waiters.
LEMMA LastUnrefDone ==
    ASSUME NEW c \in CacheT, CacheInv(c), NEW b \in Blocks, c.blk[b].key # Nil,
           c.blk[b].ref > 0, "BEING_WRITTEN" \in c.blk[b].flags => c.blk[b].ref > 1
    PROVE  UnrefDone(c, LastUnref(c, b), b) /\ Heard(c, LastUnref(c, b))
<1>0. c.avail \in Int /\ c.blk[b].ref \in Int BY CacheFields, BlockFields
<1>1. CASE c.blk[b].ref > 1
  <2> DEFINE d == Unref(c, b)
  <2>1. d = LastUnref(c, b) BY <1>1 DEF LastUnref
  <2>2. UnrefDone(c, d, b) BY UnrefIsDone
  <2> HIDE DEF d
  <2>3. d.blk[b].ref > 0 /\ d.avail \in Int BY <1>0, <1>1, <2>2, CacheFields DEF UnrefDone
  <2>4. Heard(c, d)
    <3>1. ASSUME NEW a \in Blocks, Used(c.blk[a]) PROVE Used(d.blk[a])
      BY <2>2, <2>3, <3>1 DEF Used, UnrefDone, Around
    <3>2. \A f \in Files : Listed(d, f) <=> Listed(c, f) BY <2>2 DEF Listed, FileIs, UnrefDone
    <3>3. c.wake \subseteq d.wake /\ (d.avail # c.avail => CleanBlock \in d.wake)
      BY <2>2 DEF UnrefDone
    <3>4. c.avail < d.avail => d.avail # c.avail BY <1>0, <2>3
    <3> QED BY <3>1, <3>2, <3>3, <3>4 DEF Heard
  <2> QED BY <2>1, <2>2, <2>4
<1>2. CASE ~(c.blk[b].ref > 1)
  <2> DEFINE e == Broadcast(c, IODone(b))
             d == Unref(e, b)
  <2>1. d = LastUnref(c, b) BY <1>2 DEF LastUnref
  <2>2. /\ e \in CacheT /\ e.blk = c.blk /\ e.hash = c.hash /\ e.file = c.file /\ e.avail = c.avail
        /\ e.active = c.active /\ e.cleaner = c.cleaner /\ e.wake = c.wake \cup {IODone(b)}
    BY BroadcastFacts, EventTypes
  <2>3. CacheInv(e) BY BroadcastInv, EventTypes
  <2> HIDE DEF e
  <2>4. UnrefDone(e, d, b) BY <2>2, <2>3, UnrefIsDone
  <2> HIDE DEF d
  <2>5. UnrefDone(c, d, b) BY <2>2, <2>4 DEF UnrefDone, Around
  <2>6. Heard(c, d)
    <3>1. ASSUME NEW a \in Blocks, Used(c.blk[a]), ~Used(d.blk[a]) PROVE IODone(a) \in d.wake
      <4>1. a = b BY <2>5, <3>1 DEF Used, UnrefDone, Around
      <4> QED BY <4>1, <2>2, <2>4 DEF UnrefDone
    <3>2. \A f \in Files : Listed(d, f) <=> Listed(c, f) BY <2>5 DEF Listed, FileIs, UnrefDone
    <3>3. c.wake \subseteq d.wake /\ (d.avail # c.avail => CleanBlock \in d.wake)
      BY <2>5 DEF UnrefDone
    <3>5. d.avail \in Int BY <2>5, CacheFields DEF UnrefDone
    <3>4. c.avail < d.avail => d.avail # c.avail BY <1>0, <3>5
    <3> QED BY <3>1, <3>2, <3>3, <3>4 DEF Heard
  <2> QED BY <2>1, <2>5, <2>6
<1> QED BY <1>1, <1>2

\* Fscache_UnlockBlock, routine by routine.
LEMMA UnlockIs ==
    ASSUME NEW c, NEW b \in Blocks, NEW dirty \in BOOLEAN, NEW e \in CacheT,
           e = IF dirty THEN MarkDirty(EndIO(c, b), b) ELSE EndIO(c, b)
    PROVE  LET h == LastUnref(e, b) IN
           Fscache_UnlockBlock(c, b, dirty) =
               IF ~(e.blk[b].ref > 1) /\ Is(h, b, {"CLEANER_WAITING"})
               THEN [StartBackendWriteback(h, BackendOf(h.blk[b].key[1]))
                        EXCEPT !.blk[b].flags = @ \ {"CLEANER_WAITING"}]
               ELSE h
<1> DEFINE g == [e EXCEPT !.blk[b].ref = @ - 1]
           h == MakeAvailable(Broadcast(g, IODone(b)), b)
           last == [StartBackendWriteback(h, BackendOf(h.blk[b].key[1]))
                       EXCEPT !.blk[b].flags = @ \ {"CLEANER_WAITING"}]
<1>1. Fscache_UnlockBlock(c, b, dirty) =
         IF g.blk[b].ref > 0 THEN g ELSE IF Is(h, b, {"CLEANER_WAITING"}) THEN last ELSE h
  BY DEF Fscache_UnlockBlock
<1>2. /\ g.blk[b].ref > 0 <=> e.blk[b].ref > 1
      /\ g.blk[b].ref > 0 => g = LastUnref(e, b)
      /\ ~(g.blk[b].ref > 0) => h = LastUnref(e, b)
  BY LastUnrefIs
<1> HIDE DEF g, h
<1> QED BY Zenon, <1>1, <1>2

\* A step without cleaners starts none.
LEMMA SameStarts ==
    ASSUME NEW c, NEW d, d.cleaner = c.cleaner, d.active = c.active
    PROVE  Starts(c, d)
BY DEF Starts, ActiveOf

\* Cleaners started by two steps.
LEMMA StartsTrans ==
    ASSUME NEW c \in CacheT, NEW d, NEW e, Starts(c, d), Starts(d, e)
    PROVE  Starts(c, e)
<1>1. ASSUME NEW s \in Slots
      PROVE  \/ e.cleaner[s] = c.cleaner[s]
             \/ /\ c.cleaner[s].pc = "idle"
                /\ e.cleaner[s] = [c.cleaner[s] EXCEPT !.pc = "getFile"]
  <2>1. CASE d.cleaner[s] = c.cleaner[s] BY <2>1 DEF Starts
  <2>2. CASE d.cleaner[s] = [c.cleaner[s] EXCEPT !.pc = "getFile"] /\ c.cleaner[s].pc = "idle"
    <3>1. d.cleaner[s].pc = "getFile" BY <2>2, CleanerFields DEF CleanerT
    <3> QED BY <2>2, <3>1 DEF Starts
  <2> QED BY <2>1, <2>2 DEF Starts
<1> QED BY <1>1 DEF Starts

\* Fscache_UnlockBlock does what it should.
LEMMA UnlockStep ==
    ASSUME NEW c \in CacheT, CacheInv(c), NEW b \in Blocks, c.blk[b].key # Nil,
           c.blk[b].ref > 0, "BEING_WRITTEN" \in c.blk[b].flags => c.blk[b].ref > 1,
           NEW dirty \in BOOLEAN
    PROVE  UnlockDone(c, Fscache_UnlockBlock(c, b, dirty), b, dirty)
<1> DEFINE x == EndIO(c, b)
           m == MarkDirty(x, b)
           e == IF dirty THEN m ELSE x
           h == LastUnref(e, b)
           k == StartBackendWriteback(h, BackendOf(h.blk[b].key[1]))
           F == k.blk[b].flags \ {"CLEANER_WAITING"}
           last == SetBlkFlags(k, b, F)
           d == Fscache_UnlockBlock(c, b, dirty)
<1>1. EndIODone(c, x, b) BY EndIOIsDone
<1>2. e = IF dirty THEN MarkDirty(EndIO(c, b), b) ELSE EndIO(c, b)
  OBVIOUS
<1> HIDE DEF x
<1>3. MarkDone(x, m, b) BY <1>1, MarkDirtyDone DEF EndIODone
<1> HIDE DEF m
<1>4. /\ e \in CacheT /\ CacheInv(e) /\ Around(c, e, b) /\ e.avail = c.avail
      /\ e.blk[b].key = c.blk[b].key /\ e.blk[b].ref = c.blk[b].ref
      /\ "IO_IN_PROGRESS" \notin e.blk[b].flags
      /\ "BEING_WRITTEN" \in e.blk[b].flags <=> "BEING_WRITTEN" \in c.blk[b].flags
      /\ "DELETED" \in e.blk[b].flags <=> "DELETED" \in c.blk[b].flags
      /\ "DIRTY" \in e.blk[b].flags <=> "DIRTY" \in c.blk[b].flags \/ dirty
      /\ ~dirty => e.file = c.file
  <2>1. CASE ~dirty BY <1>1, <2>1 DEF EndIODone
  <2>2. CASE dirty BY <1>1, <1>3, <2>2 DEF EndIODone, MarkDone, Around
  <2> QED BY <2>1, <2>2
<1>5. Heard(c, e) /\ Keeps(c, e, FileFlags \ {"ON_DIRTY_LIST", "OLD"})
  <2>1. Heard(c, x) /\ Keeps(c, x, FileFlags \ {"ON_DIRTY_LIST", "OLD"}) /\ x \in CacheT
    BY <1>1 DEF EndIODone, Keeps
  <2>2. Heard(x, m) /\ Keeps(x, m, FileFlags \ {"ON_DIRTY_LIST", "OLD"}) /\ m \in CacheT
    BY <1>3 DEF MarkDone
  <2>3. Heard(c, m) BY <2>1, <2>2, HeardTrans
  <2>4. Keeps(c, m, FileFlags \ {"ON_DIRTY_LIST", "OLD"}) BY <2>1, <2>2, KeepsTrans
  <2> QED BY <2>1, <2>3, <2>4
<1>6. d = IF ~(e.blk[b].ref > 1) /\ Is(h, b, {"CLEANER_WAITING"})
          THEN [k EXCEPT !.blk[b].flags = @ \ {"CLEANER_WAITING"}]
          ELSE h
  BY Zenon, <1>2, <1>4, UnlockIs
<1>7. last = [k EXCEPT !.blk[b].flags = @ \ {"CLEANER_WAITING"}] BY DEF SetBlkFlags
<1> HIDE DEF e, d
<1>8. UnrefDone(e, h, b) /\ Heard(e, h) BY <1>4, LastUnrefDone
<1> HIDE DEF h
<1>9. /\ h \in CacheT /\ CacheInv(h) /\ Around(c, h, b) /\ h.file = e.file
      /\ h.blk[b].key = c.blk[b].key /\ h.blk[b].ref = c.blk[b].ref - 1
      /\ h.blk[b].flags = e.blk[b].flags
  BY <1>4, <1>8 DEF UnrefDone, Around
<1>10. Heard(c, h) BY <1>4, <1>5, <1>8, <1>9, HeardTrans
<1>11. Starts(c, h) BY <1>9, SameStarts DEF Around
<1>12. UnlockDone(c, h, b, dirty)
  BY <1>4, <1>5, <1>9, <1>10, <1>11 DEF UnlockDone, Keeps, Around
<1>13. Quiet(h, k) /\ k.file = h.file BY <1>9, StartBackend
<1> HIDE DEF k
<1>14. k \in CacheT /\ k.blk = h.blk /\ k.hash = h.hash /\ k.avail = h.avail /\ CacheInv(k)
  BY <1>9, <1>13, QuietInv DEF Quiet, Same
<1>15. F \in SUBSET BlockFlags BY <1>14, BlockFields
<1>15a. F \cap {"DIRTY", "BEING_WRITTEN", "DELETED"}
           = k.blk[b].flags \cap {"DIRTY", "BEING_WRITTEN", "DELETED"}
        /\ ("FREE" \in F <=> "FREE" \in k.blk[b].flags)
        /\ (F \cap DirtyOrWritten = {} <=> k.blk[b].flags \cap DirtyOrWritten = {})
        /\ ("IO_IN_PROGRESS" \in F <=> "IO_IN_PROGRESS" \in k.blk[b].flags)
  BY DEF DirtyOrWritten
<1> HIDE DEF F
<1>16. /\ last \in CacheT /\ \A a \in Blocks \ {b} : last.blk[a] = k.blk[a]
       /\ last.blk[b].flags = F /\ last.blk[b].key = k.blk[b].key /\ last.blk[b].ref = k.blk[b].ref
       /\ last.hash = k.hash /\ last.file = k.file /\ last.avail = k.avail
       /\ last.active = k.active /\ last.cleaner = k.cleaner /\ last.wake = k.wake
  BY <1>14, <1>15, SetBlkFlagsFacts
<1> HIDE DEF last
<1>17. CacheInv(last)
  <2>1. last.blk[b] \in BlockT BY <1>16, BlockFields
  <2>2. last.avail = k.avail + One(IsFree(last.blk[b])) - One(IsFree(k.blk[b]))
    <3>1. IsFree(last.blk[b]) <=> IsFree(k.blk[b]) BY <1>15a, <1>16 DEF IsFree
    <3>2. k.avail \in Int BY <1>14, CacheFields
    <3> QED BY <1>16, <3>1, <3>2 DEF One
  <2>3. k.blk[b].key # Nil /\ "FREE" \notin k.blk[b].flags BY <1>9, <1>14, BlockFacts
  <2>4. "FREE" \notin last.blk[b].flags /\ last.blk[b].flags \cap {"DIRTY", "BEING_WRITTEN", "DELETED"}
           = k.blk[b].flags \cap {"DIRTY", "BEING_WRITTEN", "DELETED"}
    BY <1>15a, <1>16, <2>3
  <2> QED BY <1>14, <1>16, <2>1, <2>2, <2>3, <2>4, BlockStepInv
<1>18. Heard(k, last)
  <2>1. \A a \in Blocks : Used(last.blk[a]) <=> Used(k.blk[a]) BY <1>15a, <1>16 DEF Used
  <2>2. k.avail \in Int BY <1>14, CacheFields
  <2> QED BY <1>16, <2>1, <2>2 DEF Heard, Listed, FileIs
<1>19. Heard(c, last) BY <1>9, <1>10, <1>13, <1>14, <1>16, <1>18, QuietHeard, HeardTrans
<1>20. Starts(c, last)
  <2>1. Starts(k, last) BY <1>16, SameStarts
  <2>2. Starts(h, k) BY <1>13 DEF Quiet
  <2> QED BY <1>9, <1>11, <2>1, <2>2, StartsTrans
<1>21. /\ last.blk[b].key = c.blk[b].key /\ last.blk[b].ref = c.blk[b].ref - 1
       /\ "IO_IN_PROGRESS" \notin last.blk[b].flags
       /\ "BEING_WRITTEN" \in last.blk[b].flags <=> "BEING_WRITTEN" \in c.blk[b].flags
       /\ "DELETED" \in last.blk[b].flags <=> "DELETED" \in c.blk[b].flags
       /\ "DIRTY" \in last.blk[b].flags <=> "DIRTY" \in c.blk[b].flags \/ dirty
  BY <1>4, <1>9, <1>14, <1>15a, <1>16
<1>22. UnlockDone(c, last, b, dirty)
  <2>1. \A a \in Blocks \ {b} : last.blk[a] = c.blk[a] BY <1>9, <1>14, <1>16 DEF Around
  <2>2. last.hash = c.hash /\ last.file = e.file BY <1>9, <1>13, <1>14, <1>16 DEF Around
  <2>3. Keeps(c, last, FileFlags \ {"ON_DIRTY_LIST", "OLD"}) BY <1>5, <2>2 DEF Keeps
  <2>4. ~dirty => last.file = c.file BY <1>4, <2>2
  <2> QED BY <1>16, <1>17, <1>19, <1>20, <1>21, <2>1, <2>2, <2>3, <2>4 DEF UnlockDone
<1>23. d = h \/ d = last BY <1>6, <1>7
<1> QED BY <1>12, <1>22, <1>23 DEF d

----------------------------------------------------------------------------
(* Fetching a block.                                                       *)
\* Take by a writer in elementary changes.
LEMMA TakeForWrite ==
    ASSUME NEW c \in CacheT, NEW b \in Blocks, NEW x,
           x = SetBlkFlags(SetRef(c, b, c.blk[b].ref + 1), b, c.blk[b].flags \cup {"IO_IN_PROGRESS"})
    PROVE  Take(c, b, TRUE)
             = IF c.blk[b].ref = 0 /\ ~Is(c, b, {"DIRTY"}) THEN [x EXCEPT !.avail = @ - 1] ELSE x
<1>1. SetBlkFlags(SetRef(c, b, c.blk[b].ref + 1), b, c.blk[b].flags \cup {"IO_IN_PROGRESS"})
         = [c EXCEPT !.blk[b].ref = @ + 1, !.blk[b].flags = @ \cup {"IO_IN_PROGRESS"}]
  BY DEF SetRef, SetBlkFlags
<1>2. x = [c EXCEPT !.blk[b].ref = @ + 1, !.blk[b].flags = @ \cup {"IO_IN_PROGRESS"}] BY <1>1
<1> QED BY <1>2 DEF Take

\* Take by a reader in elementary changes.
LEMMA TakeForRead ==
    ASSUME NEW c \in CacheT, NEW b \in Blocks, NEW x, x = SetRef(c, b, c.blk[b].ref + 1)
    PROVE  Take(c, b, FALSE)
             = IF c.blk[b].ref = 0 /\ ~Is(c, b, {"DIRTY"}) THEN [x EXCEPT !.avail = @ - 1] ELSE x
<1>1. [c EXCEPT !.blk[b].ref = @ + 1, !.blk[b].flags = @] = [c EXCEPT !.blk[b].ref = @ + 1]
  <2>1. c.blk[b] = [key |-> c.blk[b].key, ref |-> c.blk[b].ref, flags |-> c.blk[b].flags]
    BY BlockFields
  <2>2. [c.blk[b] EXCEPT !.ref = c.blk[b].ref + 1, !.flags = c.blk[b].flags]
           = [c.blk[b] EXCEPT !.ref = c.blk[b].ref + 1]
    BY <2>1
  <2>3. [c EXCEPT !.blk[b].ref = @ + 1, !.blk[b].flags = @]
           = [c EXCEPT !.blk[b] = [c.blk[b] EXCEPT !.ref = c.blk[b].ref + 1, !.flags = c.blk[b].flags]]
    OBVIOUS
  <2> QED BY <2>2, <2>3
<1>2. x = [c EXCEPT !.blk[b].ref = @ + 1, !.blk[b].flags = @] BY <1>1 DEF SetRef
<1> QED BY <1>2 DEF Take

\* Setting flags to what they are changes nothing.
LEMMA FlagsKept ==
    ASSUME NEW c \in CacheT, NEW b \in Blocks, NEW n \in Int
    PROVE  SetBlkFlags(SetRef(c, b, n), b, c.blk[b].flags) = SetRef(c, b, n)
<1>1. c.blk[b] = [key |-> c.blk[b].key, ref |-> c.blk[b].ref, flags |-> c.blk[b].flags]
  BY BlockFields
<1>2. [c.blk[b] EXCEPT !.ref = n, !.flags = c.blk[b].flags] = [c.blk[b] EXCEPT !.ref = n]
  BY <1>1
<1>3. SetBlkFlags(SetRef(c, b, n), b, c.blk[b].flags)
        = [c EXCEPT !.blk[b] = [c.blk[b] EXCEPT !.ref = n, !.flags = c.blk[b].flags]]
  BY DEF SetBlkFlags, SetRef
<1> QED BY <1>2, <1>3 DEF SetRef

\* Take in elementary changes.
LEMMA TakeIs ==
    ASSUME NEW c \in CacheT, NEW b \in Blocks, NEW io \in BOOLEAN, NEW x, NEW G,
           G = c.blk[b].flags \cup (IF io THEN {"IO_IN_PROGRESS"} ELSE {}),
           x = SetBlkFlags(SetRef(c, b, c.blk[b].ref + 1), b, G)
    PROVE  Take(c, b, io)
             = IF c.blk[b].ref = 0 /\ "DIRTY" \notin c.blk[b].flags THEN [x EXCEPT !.avail = @ - 1] ELSE x
<1>0. c.blk[b].ref + 1 \in Int
  <2>1. c.blk[b].ref \in Int BY BlockFields
  <2> QED BY <2>1
<1>1. Is(c, b, {"DIRTY"}) <=> "DIRTY" \in c.blk[b].flags BY DEF Is
<1>2. CASE io = TRUE
  <2>1. G = c.blk[b].flags \cup {"IO_IN_PROGRESS"} BY <1>2
  <2>2. Take(c, b, TRUE)
           = IF c.blk[b].ref = 0 /\ ~Is(c, b, {"DIRTY"}) THEN [x EXCEPT !.avail = @ - 1] ELSE x
    BY <2>1, TakeForWrite
  <2> QED BY <1>1, <1>2, <2>2
<1>3. CASE io = FALSE
  <2>1. G = c.blk[b].flags BY <1>3
  <2>2. x = SetRef(c, b, c.blk[b].ref + 1) BY <1>0, <2>1, FlagsKept
  <2>3. Take(c, b, FALSE)
           = IF c.blk[b].ref = 0 /\ ~Is(c, b, {"DIRTY"}) THEN [x EXCEPT !.avail = @ - 1] ELSE x
    BY <2>2, TakeForRead
  <2> QED BY <1>1, <1>3, <2>3
<1> QED BY <1>2, <1>3

\* Taking a block that is there does what it should.
LEMMA TakeStep ==
    ASSUME NEW c \in CacheT, CacheInv(c), NEW b \in Blocks, c.blk[b].key # Nil,
           c.blk[b].ref \in Nat, "BEING_WRITTEN" \in c.blk[b].flags => c.blk[b].ref > 0,
           NEW io \in BOOLEAN
    PROVE  TakeDone(c, Take(c, b, io), b, io)
<1> DEFINE G == c.blk[b].flags \cup (IF io THEN {"IO_IN_PROGRESS"} ELSE {})
           n == c.blk[b].ref + 1
           r == SetRef(c, b, n)
           x == SetBlkFlags(r, b, G)
           y == SetAvail(x, x.avail - 1)
           d == Take(c, b, io)
<1>1. n \in Int /\ G \in SUBSET BlockFlags
  <2>1. c.blk[b].ref \in Int /\ c.blk[b].flags \in SUBSET BlockFlags BY BlockFields
  <2>2. "IO_IN_PROGRESS" \in BlockFlags BY DEF BlockFlags
  <2> QED BY <2>1, <2>2
<1>1a. /\ G \cap {"DIRTY", "BEING_WRITTEN", "DELETED"}
             = c.blk[b].flags \cap {"DIRTY", "BEING_WRITTEN", "DELETED"}
       /\ "FREE" \notin G /\ "FREE" \notin c.blk[b].flags
       /\ (G \cap DirtyOrWritten = {} <=> c.blk[b].flags \cap DirtyOrWritten = {})
  BY BlockFacts DEF DirtyOrWritten
<1>2. d = IF c.blk[b].ref = 0 /\ "DIRTY" \notin c.blk[b].flags
          THEN y ELSE x
  <2>1. G = c.blk[b].flags \cup (IF io THEN {"IO_IN_PROGRESS"} ELSE {})
    OBVIOUS
  <2>2. x = SetBlkFlags(SetRef(c, b, c.blk[b].ref + 1), b, G)
    OBVIOUS
  <2> HIDE DEF x, G
  <2>3. d = IF c.blk[b].ref = 0 /\ "DIRTY" \notin c.blk[b].flags THEN [x EXCEPT !.avail = @ - 1] ELSE x
    BY <2>1, <2>2, TakeIs
  <2> HIDE DEF d
  <2> QED BY <2>3 DEF SetAvail
<1> HIDE DEF d, G, n
<1>3. /\ r \in CacheT /\ \A a \in Blocks \ {b} : r.blk[a] = c.blk[a]
      /\ r.blk[b].ref = n /\ r.blk[b].key = c.blk[b].key /\ r.blk[b].flags = c.blk[b].flags
      /\ r.hash = c.hash /\ r.file = c.file /\ r.avail = c.avail
      /\ r.active = c.active /\ r.cleaner = c.cleaner /\ r.wake = c.wake
  BY <1>1, SetRefFacts
<1> HIDE DEF r
<1>4. /\ x \in CacheT /\ \A a \in Blocks \ {b} : x.blk[a] = r.blk[a]
      /\ x.blk[b].flags = G /\ x.blk[b].key = r.blk[b].key /\ x.blk[b].ref = r.blk[b].ref
      /\ x.hash = r.hash /\ x.file = r.file /\ x.avail = r.avail
      /\ x.active = r.active /\ x.cleaner = r.cleaner /\ x.wake = r.wake
  BY <1>1, <1>3, SetBlkFlagsFacts
<1> HIDE DEF x
<1>5. x.avail \in Int /\ x.avail - 1 \in Int BY <1>4, CacheFields
<1>6. /\ y \in CacheT /\ y.blk = x.blk /\ y.hash = x.hash /\ y.file = x.file
      /\ y.avail = x.avail - 1 /\ y.active = x.active /\ y.cleaner = x.cleaner /\ y.wake = x.wake
  BY <1>4, <1>5, SetAvailFacts
<1> HIDE DEF y
<1>7. IsFree(c.blk[b]) <=> c.blk[b].ref = 0 /\ "DIRTY" \notin c.blk[b].flags
  BY DEF IsFree, DirtyOrWritten
<1>8. /\ d \in CacheT /\ Around(c, d, b) /\ d.file = c.file /\ d.wake = c.wake
      /\ d.blk[b].key = c.blk[b].key /\ d.blk[b].ref = c.blk[b].ref + 1
      /\ d.blk[b].flags = G
      /\ d.avail = c.avail - One(IsFree(c.blk[b]))
  BY <1>2, <1>3, <1>4, <1>5, <1>6, <1>7 DEF Around, n, One
<1>9. CacheInv(d)
  <2>1. ~IsFree(d.blk[b]) BY <1>8 DEF IsFree
  <2>2. d.avail = c.avail + One(IsFree(d.blk[b])) - One(IsFree(c.blk[b]))
    BY <1>8, <2>1, CacheFields DEF One
  <2>3. d.blk[b] \in BlockT BY <1>8, BlockFields
  <2> QED BY <1>1a, <1>8, <2>2, <2>3, BlockStepInv DEF Around
<1>10. Heard(c, d)
  <2>1. \A a \in Blocks : Used(c.blk[a]) => Used(d.blk[a])
    <3>1. Used(d.blk[b]) BY <1>8 DEF Used
    <3> QED BY <1>8, <3>1 DEF Around
  <2>2. ~(c.avail < d.avail) BY <1>8, CacheFields DEF One
  <2> QED BY <1>8, <2>1, <2>2 DEF Heard, Listed, FileIs
<1> QED BY <1>8, <1>9, <1>10 DEF TakeDone, d, G

\* A free block gets a key.
LEMMA NewStep ==
    ASSUME NEW c \in CacheT, CacheInv(c), NEW b \in Blocks, c.blk[b].key = Nil,
           NEW k \in Keys, c.hash[k] = Nil
    PROVE  NewDone(c, NewBlock(c, b, k), b, k)
<1> DEFINE f == k[1]
           x == [key |-> k, ref |-> 1, flags |-> {"IO_IN_PROGRESS"}]
           s == SetBlock(c, b, x)
           h == SetHash(s, k, b)
           n == c.file[f].inCache + 1
           i == SetInCache(h, f, n)
           d == SetAvail(i, c.avail - 1)
<1>1. f \in Files /\ x \in BlockT /\ n \in Int /\ c.avail - 1 \in Int /\ c.avail \in Int /\ c.file[f].inCache \in Int
  <2>1. f \in Files BY KeyFacts
  <2> QED BY <2>1, FileFields, CacheFields DEF BlockT, BlockFlags
<1>2. NewBlock(c, b, k) = d BY DEF NewBlock, SetBlock, SetHash, SetInCache, SetAvail
<1>2a. x.key = k /\ x.ref = 1 /\ x.flags = {"IO_IN_PROGRESS"}
  OBVIOUS
<1> HIDE DEF f, x, n
<1>3. /\ s \in CacheT /\ s.blk[b] = x /\ \A a \in Blocks \ {b} : s.blk[a] = c.blk[a]
      /\ s.hash = c.hash /\ s.file = c.file /\ s.avail = c.avail
      /\ s.active = c.active /\ s.cleaner = c.cleaner /\ s.wake = c.wake
  BY <1>1, SetBlockFacts
<1> HIDE DEF s
<1>4. /\ h \in CacheT /\ h.hash[k] = b /\ \A j \in Keys \ {k} : h.hash[j] = s.hash[j]
      /\ h.file = s.file /\ h.blk = s.blk /\ h.avail = s.avail
      /\ h.active = s.active /\ h.cleaner = s.cleaner /\ h.wake = s.wake
  BY <1>3, SetHashFacts
<1> HIDE DEF h
<1>5. /\ i \in CacheT /\ \A g \in Files \ {f} : i.file[g] = h.file[g]
      /\ i.file[f].inCache = n
      /\ i.file[f].numDirty = h.file[f].numDirty /\ i.file[f].dirtyList = h.file[f].dirtyList
      /\ i.file[f].flags = h.file[f].flags
      /\ i.blk = h.blk /\ i.hash = h.hash /\ i.avail = h.avail
      /\ i.active = h.active /\ i.cleaner = h.cleaner /\ i.wake = h.wake
  <2>1. h \in CacheT /\ f \in Files /\ n \in Int BY <1>1, <1>4
  <2> QED BY <2>1, SetInCacheFacts
<1> HIDE DEF i
<1>6. /\ d \in CacheT /\ d.blk = i.blk /\ d.hash = i.hash /\ d.file = i.file
      /\ d.avail = c.avail - 1 /\ d.active = i.active /\ d.cleaner = i.cleaner /\ d.wake = i.wake
  BY <1>1, <1>5, SetAvailFacts
<1> HIDE DEF d
<1>7. /\ \A a \in Blocks \ {b} : d.blk[a] = c.blk[a]
      /\ d.blk[b].key = k /\ d.blk[b].ref = 1 /\ d.blk[b].flags = {"IO_IN_PROGRESS"}
      /\ d.hash[k] = b /\ \A j \in Keys \ {k} : d.hash[j] = c.hash[j]
      /\ d.cleaner = c.cleaner /\ d.active = c.active /\ d.wake = c.wake
  BY <1>2a, <1>3, <1>4, <1>5, <1>6
<1>8. /\ \A g \in Files \ {f} : d.file[g] = c.file[g]
      /\ d.file[f].inCache = n
      /\ d.file[f].numDirty = c.file[f].numDirty /\ d.file[f].dirtyList = c.file[f].dirtyList
      /\ d.file[f].flags = c.file[f].flags
  BY <1>3, <1>4, <1>5, <1>6
<1>9. /\ c.blk[b].flags = {"FREE"} /\ c.blk[b].ref = 0 BY DEF CacheInv, BlockTied
<1>10. \A j \in Keys : c.hash[j] # b BY NilApart DEF CacheInv, HashTied
<1>11. \A g \in Files : b \notin c.file[g].dirtyList BY DEF CacheInv, FileTied, Of
<1>12. CacheInv(d)
  <2>1. OneFile(c, d, b, f) BY <1>7, <1>8 DEF OneFile
  <2>2. k # Nil BY NilApart
  <2>2a. c.file[f].numDirty \in Int BY <1>1, FileFields
  <2>3. Recount(c.blk[b], d.blk[b], c.file[f], d.file[f], f, b)
    <3>1. d.blk[b].key # Nil /\ d.blk[b].key[1] = f BY <1>7, <2>2 DEF f
    <3>2. d.blk[b].flags \cap DirtyOrWritten = {} /\ "DIRTY" \notin d.blk[b].flags
      BY <1>7 DEF DirtyOrWritten
    <3>3. d.file[f].inCache = c.file[f].inCache + 1 - 0 /\ d.file[f].numDirty = c.file[f].numDirty + 0 - 0
      BY <1>1, <1>8, <2>2a DEF n
    <3>4. b \notin d.file[f].dirtyList BY <1>1, <1>8, <1>11
    <3> QED BY <1>8, <3>1, <3>2, <3>3, <3>4 DEF Recount, One
  <2>4. d.avail = c.avail + One(IsFree(d.blk[b])) - One(IsFree(c.blk[b]))
    <3>1. IsFree(c.blk[b]) /\ ~IsFree(d.blk[b]) BY <1>7, <1>9 DEF IsFree, DirtyOrWritten
    <3> QED BY <1>1, <1>6, <3>1 DEF One
  <2>5. Relist(c.file[f], d.file[f]) BY <1>8, <2>2a DEF Relist
  <2>6. HashStep(c, d, b) BY <1>7, <1>10 DEF HashStep
  <2>7. BlockOK(d, b) BY <1>7, <2>2 DEF BlockOK
  <2> QED BY <1>1, <1>6, <1>7, <1>8, <1>9, <2>1, <2>3, <2>4, <2>5, <2>6, <2>7, FileStepInv
<1>13. Heard(c, d)
  <2>1. \A a \in Blocks : Used(c.blk[a]) => Used(d.blk[a]) BY <1>7 DEF Used
  <2>2. \A g \in Files : Listed(d, g) <=> Listed(c, g) BY <1>8 DEF Listed, FileIs
  <2>3. ~(c.avail < d.avail) BY <1>1, <1>6
  <2> QED BY <1>7, <2>1, <2>2, <2>3 DEF Heard
<1>14. Keeps(c, d, FileFlags) /\ \A g \in Files : d.file[g].dirtyList = c.file[g].dirtyList
  BY <1>8 DEF Keeps
<1> QED BY <1>2, <1>6, <1>7, <1>12, <1>13, <1>14 DEF NewDone

----------------------------------------------------------------------------
(* Blocks leave the cache.                                                 *)
\* What emptying a block changes.
LEMMA EmptyStep ==
    ASSUME NEW c \in CacheT, NEW b \in Blocks
    PROVE  EmptyDone(c, Emptied(c, b), b)
<1> DEFINE e == SetBlkFlags(c, b, {"FREE"})
           d == SetKey(e, b, Nil)
<1>1. Emptied(c, b) = d BY DEF Emptied, SetBlkFlags, SetKey
<1>2. {"FREE"} \in SUBSET BlockFlags /\ Nil \in Keys \cup {Nil} BY DEF BlockFlags
<1>3. /\ e \in CacheT /\ \A a \in Blocks \ {b} : e.blk[a] = c.blk[a]
      /\ e.blk[b].flags = {"FREE"} /\ e.blk[b].key = c.blk[b].key /\ e.blk[b].ref = c.blk[b].ref
      /\ e.hash = c.hash /\ e.file = c.file /\ e.avail = c.avail
      /\ e.active = c.active /\ e.cleaner = c.cleaner /\ e.wake = c.wake
  BY <1>2, SetBlkFlagsFacts
<1> HIDE DEF e
<1>4. /\ d \in CacheT /\ \A a \in Blocks \ {b} : d.blk[a] = e.blk[a]
      /\ d.blk[b].key = Nil /\ d.blk[b].ref = e.blk[b].ref /\ d.blk[b].flags = e.blk[b].flags
      /\ d.hash = e.hash /\ d.file = e.file /\ d.avail = e.avail
      /\ d.active = e.active /\ d.cleaner = e.cleaner /\ d.wake = e.wake
  BY <1>2, <1>3, SetKeyFacts
<1> HIDE DEF d
<1> QED BY <1>1, <1>3, <1>4 DEF EmptyDone

\* What deleting a block from the hash table changes.
LEMMA DeleteStep ==
    ASSUME NEW c \in CacheT, NEW b \in Blocks, c.blk[b].key # Nil
    PROVE  DeleteDone(c, DeleteBlock(c, b), b, c.blk[b].key[1])
<1> DEFINE k == c.blk[b].key
           f == k[1]
           n == c.file[f].inCache - 1
           e == SetHash(c, k, Nil)
           d == SetInCache(e, f, n)
<1>1. k \in Keys BY BlockFields
<1>2. f \in Files BY <1>1, KeyFacts
<1>3. n \in Int
  <2>1. c.file[f].inCache \in Int BY <1>2, FileFields
  <2> QED BY <2>1
<1>4. DeleteBlock(c, b) = d BY DEF DeleteBlock, SetHash, SetInCache
<1> HIDE DEF f, n
<1>5. /\ e \in CacheT /\ e.hash[k] = Nil /\ \A j \in Keys \ {k} : e.hash[j] = c.hash[j]
      /\ e.file = c.file /\ e.blk = c.blk /\ e.avail = c.avail
      /\ e.active = c.active /\ e.cleaner = c.cleaner /\ e.wake = c.wake
  BY <1>1, SetHashFacts
<1> HIDE DEF e
<1>6. /\ d \in CacheT /\ \A g \in Files \ {f} : d.file[g] = e.file[g]
      /\ d.file[f].inCache = n
      /\ d.file[f].numDirty = e.file[f].numDirty /\ d.file[f].dirtyList = e.file[f].dirtyList
      /\ d.file[f].flags = e.file[f].flags
      /\ d.blk = e.blk /\ d.hash = e.hash /\ d.avail = e.avail
      /\ d.active = e.active /\ d.cleaner = e.cleaner /\ d.wake = e.wake
  BY <1>2, <1>3, <1>5, SetInCacheFacts
<1> HIDE DEF d
<1>7. DeleteDone(c, d, b, f) BY <1>5, <1>6 DEF DeleteDone, n
<1> QED BY <1>4, <1>7 DEF f

\* Freeing a clean block nobody uses keeps the structure.
LEMMA FreeStep ==
    ASSUME NEW c \in CacheT, CacheInv(c), NEW b \in Blocks, Droppable(c, b),
           c.blk[b].flags \cap DirtyOrWritten = {}
    PROVE  FreeDone(c, Freed(c, b), b)
<1> DEFINE k == c.blk[b].key
           f == k[1]
           e == DeleteBlock(c, b)
           d == Freed(c, b)
<1>1. /\ k \in Keys /\ f \in Files /\ k # Nil /\ c.blk[b].ref = 0
      /\ c.hash[k] = b /\ "DELETED" \notin c.blk[b].flags
      /\ b \notin c.file[f].dirtyList
      /\ \A j \in Keys : c.hash[j] = b => j = k
      /\ "BEING_WRITTEN" \notin c.blk[b].flags
  BY BlockFacts DEF Droppable, DirtyOrWritten
<1>2. c.avail \in Int /\ c.file[f].inCache \in Int /\ c.file[f].numDirty \in Int
  BY <1>1, CacheFields, FileFields
<1>3. DeleteDone(c, e, b, f) BY <1>1, DeleteStep
<1>4. EmptyDone(e, d, b) BY <1>3, EmptyStep DEF Freed, DeleteDone
<1> HIDE DEF d, e
<1>5. /\ d \in CacheT /\ \A a \in Blocks \ {b} : d.blk[a] = c.blk[a]
      /\ d.blk[b].key = Nil /\ d.blk[b].flags = {"FREE"} /\ d.blk[b].ref = 0
      /\ d.hash[k] = Nil /\ \A j \in Keys \ {k} : d.hash[j] = c.hash[j]
      /\ \A g \in Files \ {f} : d.file[g] = c.file[g]
      /\ d.file[f].inCache = c.file[f].inCache - 1 /\ d.file[f].numDirty = c.file[f].numDirty
      /\ d.file[f].dirtyList = c.file[f].dirtyList /\ d.file[f].flags = c.file[f].flags
      /\ d.avail = c.avail /\ d.active = c.active /\ d.cleaner = c.cleaner /\ d.wake = c.wake
  BY ZenonT(40), <1>1, <1>3, <1>4 DEF DeleteDone, EmptyDone
<1>6. CacheInv(d)
  <2>1. OneFile(c, d, b, f) BY <1>5 DEF OneFile
  <2>2. Recount(c.blk[b], d.blk[b], c.file[f], d.file[f], f, b)
    <3>1. /\ d.file[f].inCache = c.file[f].inCache + 0 - 1
          /\ d.file[f].numDirty = c.file[f].numDirty + 0 - 0
      BY SMTT(30), <1>2, <1>5
    <3> QED BY Zenon, <1>1, <1>5, <3>1 DEF Recount, One
  <2>3. d.avail = c.avail + One(IsFree(d.blk[b])) - One(IsFree(c.blk[b]))
    <3>1. IsFree(c.blk[b]) /\ IsFree(d.blk[b]) BY <1>1, <1>5 DEF IsFree, DirtyOrWritten
    <3> QED BY SMTT(30), <1>2, <1>5, <3>1 DEF One
  <2>4. Relist(c.file[f], d.file[f])
    <3>1. d.file[f].flags = c.file[f].flags /\ d.file[f].numDirty = c.file[f].numDirty BY <1>5
    <3>2. ~(c.file[f].numDirty > c.file[f].numDirty) BY <1>2
    <3> QED BY Zenon, <3>1, <3>2 DEF Relist
  <2>5. HashStep(c, d, b)
    <3> SUFFICES ASSUME NEW j \in Keys
                 PROVE  /\ \/ d.hash[j] = c.hash[j]
                           \/ c.hash[j] = b /\ d.hash[j] = Nil
                        /\ d.hash[j] # b
      BY DEF HashStep
    <3> QED BY <1>1, <1>5, NilApart
  <2>6. BlockOK(d, b) BY <1>5 DEF BlockOK
  <2> QED BY Zenon, <1>1, <1>5, <2>1, <2>2, <2>3, <2>4, <2>5, <2>6, FileStepInv
<1> QED BY <1>5, <1>6 DEF FreeDone, d

\* A clean block is dropped at once.
LEMMA DropNowStep ==
    ASSUME NEW c \in CacheT, CacheInv(c), NEW b \in Blocks, Droppable(c, b),
           c.blk[b].flags \cap DirtyOrWritten = {}
    PROVE  Dropped(c, DropNow(c, b), {b})
<1> DEFINE e == Freed(c, b)
           d == DropNow(c, b)
<1>1. d = Broadcast(e, CleanBlock) BY DEF DropNow, PutOnFreeList, Freed, Emptied
<1>2. FreeDone(c, e, b) BY FreeStep
<1> HIDE DEF d, e
<1>3. /\ d \in CacheT /\ d.blk = e.blk /\ d.hash = e.hash /\ d.file = e.file /\ d.avail = e.avail
      /\ d.active = e.active /\ d.cleaner = e.cleaner /\ d.wake = e.wake \cup {CleanBlock}
      /\ CacheInv(d)
  BY <1>1, <1>2, BroadcastFacts, BroadcastInv, EventTypes DEF FreeDone
<1>4. c.hash[c.blk[b].key] = b /\ \A k \in Keys : c.hash[k] = b => k = c.blk[b].key
  BY BlockFacts DEF Droppable
<1>5. c.avail \in Int BY CacheFields
<1>6. Heard(c, d)
  <2>1. ~Used(c.blk[b]) BY DEF Used, Droppable, DirtyOrWritten
  <2>2. \A a \in Blocks : Used(c.blk[a]) => Used(d.blk[a]) BY <1>2, <1>3, <2>1 DEF FreeDone
  <2>3. \A f \in Files : Listed(d, f) <=> Listed(c, f)
    BY <1>2, <1>3 DEF FreeDone, Listed, FileIs
  <2> QED BY <1>2, <1>3, <1>5, <2>2, <2>3 DEF FreeDone, Heard
<1>7. \A k \in Keys : d.hash[k] = IF c.hash[k] \in {b} THEN Nil ELSE c.hash[k]
  BY <1>2, <1>3, <1>4 DEF FreeDone
<1>8. c.blk[b].ref = 0 BY DEF Droppable
<1> QED BY <1>2, <1>3, <1>6, <1>7, <1>8 DEF Dropped, FreeDone, d

\* A dirty block is deleted and waits for its cleaner.
LEMMA DropLaterStep ==
    ASSUME NEW c \in CacheT, CacheInv(c), NEW b \in Blocks, Droppable(c, b),
           c.blk[b].flags \cap DirtyOrWritten # {}
    PROVE  Dropped(c, DropWhenWritten(c, b), {b})
<1> DEFINE k == c.blk[b].key
           f == k[1]
           F == c.blk[b].flags \cup {"DELETED"}
           e == SetBlkFlags(c, b, F)
           d == SetHash(e, k, Nil)
<1>1. /\ k \in Keys /\ f \in Files /\ k # Nil /\ c.blk[b].ref = 0
      /\ c.hash[k] = b /\ "DELETED" \notin c.blk[b].flags /\ "FREE" \notin c.blk[b].flags
      /\ b \in c.file[f].dirtyList <=> "DIRTY" \in c.blk[b].flags /\ "BEING_WRITTEN" \notin c.blk[b].flags
      /\ \A j \in Keys : c.hash[j] = b => j = k
  BY BlockFacts DEF Droppable
<1>2. c.avail \in Int /\ c.file[f].inCache \in Int /\ c.file[f].numDirty \in Int /\ F \in SUBSET BlockFlags
  <2>1. c.blk[b].flags \in SUBSET BlockFlags /\ "DELETED" \in BlockFlags
    BY BlockFields DEF BlockFlags
  <2> QED BY <1>1, <2>1, CacheFields, FileFields
<1>3. DropWhenWritten(c, b) = d BY DEF DropWhenWritten, SetBlkFlags, SetHash
<1>3a. /\ F \cap DirtyOrWritten # {} /\ "DELETED" \in F /\ "FREE" \notin F
       /\ "DIRTY" \in F <=> "DIRTY" \in c.blk[b].flags
       /\ "BEING_WRITTEN" \in F <=> "BEING_WRITTEN" \in c.blk[b].flags
  BY <1>1
<1>3b. F = c.blk[b].flags \cup {"DELETED"}
  OBVIOUS
<1> HIDE DEF F, f
<1>4. /\ e \in CacheT /\ \A a \in Blocks \ {b} : e.blk[a] = c.blk[a]
      /\ e.blk[b].flags = F /\ e.blk[b].key = c.blk[b].key /\ e.blk[b].ref = c.blk[b].ref
      /\ e.hash = c.hash /\ e.file = c.file /\ e.avail = c.avail
      /\ e.active = c.active /\ e.cleaner = c.cleaner /\ e.wake = c.wake
  BY <1>2, SetBlkFlagsFacts
<1> HIDE DEF e
<1>5. /\ d \in CacheT /\ d.hash[k] = Nil /\ \A j \in Keys \ {k} : d.hash[j] = e.hash[j]
      /\ d.file = e.file /\ d.blk = e.blk /\ d.avail = e.avail
      /\ d.active = e.active /\ d.cleaner = e.cleaner /\ d.wake = e.wake
  BY <1>1, <1>4, SetHashFacts
<1> HIDE DEF d
<1>6. CacheInv(d)
  <2>1. OneFile(c, d, b, f) /\ d.file = c.file BY <1>4, <1>5 DEF OneFile
  <2>2. Recount(c.blk[b], d.blk[b], c.file[f], d.file[f], f, b)
    <3>1. /\ d.file[f].inCache = c.file[f].inCache + 1 - 1
          /\ d.file[f].numDirty = c.file[f].numDirty + 1 - 1
      BY <1>2, <2>1
    <3>2. d.blk[b].key = k /\ k[1] = f /\ d.blk[b].flags = F BY <1>4, <1>5 DEF f
    <3> QED BY <1>1, <1>3a, <2>1, <3>1, <3>2 DEF Recount, One
  <2>3. d.avail = c.avail + One(IsFree(d.blk[b])) - One(IsFree(c.blk[b]))
    <3>1. ~IsFree(c.blk[b]) /\ ~IsFree(d.blk[b]) BY <1>3a, <1>4, <1>5 DEF IsFree
    <3> QED BY <1>2, <1>4, <1>5, <3>1 DEF One
  <2>4. Relist(c.file[f], d.file[f]) BY <1>2, <2>1 DEF Relist
  <2>5. HashStep(c, d, b)
    <3> SUFFICES ASSUME NEW j \in Keys
                 PROVE  /\ \/ d.hash[j] = c.hash[j]
                           \/ c.hash[j] = b /\ d.hash[j] = Nil
                        /\ d.hash[j] # b
      BY DEF HashStep
    <3> QED BY <1>1, <1>4, <1>5, NilApart
  <2>6. BlockOK(d, b) BY <1>1, <1>3a, <1>4, <1>5, NilApart DEF BlockOK
  <2>7. "BEING_WRITTEN" \in d.blk[b].flags <=> "BEING_WRITTEN" \in c.blk[b].flags
    BY <1>3a, <1>4, <1>5
  <2>8. d.blk[b].key = c.blk[b].key /\ d.cleaner = c.cleaner /\ d.active = c.active
    BY <1>4, <1>5
  <2> QED BY <1>1, <1>5, <2>1, <2>2, <2>3, <2>4, <2>5, <2>6, <2>7, <2>8, FileStepInv
<1>7. Heard(c, d)
  <2>1. \A a \in Blocks : Used(c.blk[a]) => Used(d.blk[a]) BY <1>1, <1>3a, <1>4, <1>5 DEF Used
  <2> QED BY <1>2, <1>4, <1>5, <2>1 DEF Heard, Listed, FileIs
<1>8. \A j \in Keys : d.hash[j] = IF c.hash[j] \in {b} THEN Nil ELSE c.hash[j]
  BY <1>1, <1>4, <1>5
<1> QED BY <1>3, <1>3b, <1>4, <1>5, <1>6, <1>7, <1>8 DEF Dropped

\* One block is dropped.
LEMMA DropOneStep ==
    ASSUME NEW c \in CacheT, CacheInv(c), NEW b \in Blocks, Droppable(c, b)
    PROVE  Dropped(c, DropOne(c, b), {b})
BY DropNowStep, DropLaterStep DEF DropOne, Is

\* No block is dropped.
LEMMA DropNone ==
    ASSUME NEW c \in CacheT, CacheInv(c)
    PROVE  Dropped(c, c, {})
BY CacheFields DEF Dropped, Heard

\* Dropping blocks one after the other.
LEMMA DropTrans ==
    ASSUME NEW c \in CacheT, NEW s \in SUBSET Blocks, NEW e, Dropped(c, e, s),
           NEW x \in Blocks \ s, NEW d, Dropped(e, d, {x})
    PROVE  Dropped(c, d, s \cup {x})
<1>1. d \in CacheT /\ CacheInv(d) /\ d.cleaner = c.cleaner /\ d.active = c.active /\ d.avail = c.avail
  BY DEF Dropped
<1>2. Heard(c, d) BY HeardTrans DEF Dropped
<1>3. \A a \in Blocks \ (s \cup {x}) : d.blk[a] = c.blk[a] BY DEF Dropped
<1>4. \A a \in s : d.blk[a] = e.blk[a] /\ e.blk[x] = c.blk[x] BY DEF Dropped
<1>4a. e.blk[x] = c.blk[x] BY DEF Dropped
<1>5. ASSUME NEW a \in s \cup {x}
      PROVE  /\ d.blk[a].ref = c.blk[a].ref
             /\ c.blk[a].flags \cap DirtyOrWritten = {} => d.blk[a].key = Nil
             /\ c.blk[a].flags \cap DirtyOrWritten # {} =>
                   d.blk[a].key = c.blk[a].key /\ d.blk[a].flags = c.blk[a].flags \cup {"DELETED"}
  BY <1>4, <1>4a DEF Dropped
<1>6. ASSUME NEW k \in Keys PROVE d.hash[k] = IF c.hash[k] \in s \cup {x} THEN Nil ELSE c.hash[k]
  <2>1. e.hash[k] = IF c.hash[k] \in s THEN Nil ELSE c.hash[k] BY DEF Dropped
  <2>2. d.hash[k] = IF e.hash[k] \in {x} THEN Nil ELSE e.hash[k] BY DEF Dropped
  <2> QED BY <2>1, <2>2, NilApart
<1>7. \A f \in Files : d.file[f].dirtyList = c.file[f].dirtyList /\ d.file[f].flags = c.file[f].flags
  BY DEF Dropped
<1> QED BY <1>1, <1>2, <1>3, <1>5, <1>6, <1>7 DEF Dropped

\* One block more is dropped.
LEMMA DropMore ==
    ASSUME NEW c \in CacheT, NEW s \in SUBSET Blocks, NEW d, Dropped(c, d, s),
           NEW x \in Blocks \ s, Droppable(c, x)
    PROVE  Dropped(c, DropOne(d, x), s \cup {x})
<1>1. d \in CacheT /\ CacheInv(d) /\ d.blk[x] = c.blk[x] BY DEF Dropped
<1>2. Droppable(d, x) BY <1>1 DEF Droppable
<1>3. Dropped(d, DropOne(d, x), {x}) BY <1>1, <1>2, DropOneStep
<1> QED BY <1>3, DropTrans

\* Drop drops a set of blocks.
LEMMA DropAll ==
    ASSUME NEW c \in CacheT, CacheInv(c), NEW S \in SUBSET Blocks, \A b \in S : Droppable(c, b)
    PROVE  Dropped(c, Drop(c, S), S)
<1> DEFINE F == [z \in S \X CacheT |-> IF DropOne(z[2], z[1]) \in CacheT THEN DropOne(z[2], z[1]) ELSE c]
           Eq(g) == g = [s \in SUBSET S |-> IF s = {} THEN c
                          ELSE LET x == CHOOSE x \in s : TRUE IN DropOne(g[s \ {x}], x)]
<1>1. IsFiniteSet(S) BY Finite, FS_Subset
<1>2. ASSUME NEW s \in SUBSET S, s # {}, NEW d, Dropped(c, d, s \ {Ch(s)})
      PROVE  Dropped(c, DropOne(d, Ch(s)), s) /\ Ch(s) \in S /\ d \in CacheT
  <2>1. Ch(s) \in s BY <1>2 DEF Ch
  <2>2. s \ {Ch(s)} \in SUBSET Blocks /\ Ch(s) \in Blocks \ (s \ {Ch(s)}) /\ Droppable(c, Ch(s))
    BY <2>1
  <2>3. (s \ {Ch(s)}) \cup {Ch(s)} = s BY <2>1
  <2>4. d \in CacheT BY <1>2 DEF Dropped
  <2>5. Dropped(c, DropOne(d, Ch(s)), (s \ {Ch(s)}) \cup {Ch(s)}) BY <1>2, <2>2, DropMore
  <2> QED BY <2>1, <2>3, <2>4, <2>5
<1>3. Dropped(c, c, {}) BY DropNone
<1>4. F \in [S \X CacheT -> CacheT]
  OBVIOUS
<1>5. PICK h : Folds(h, F, c, SUBSET S) BY <1>1, FoldExists
<1>5a. \A x \in S, d \in CacheT : DropOne(d, x) \in CacheT => F[<<x, d>>] = DropOne(d, x)
  OBVIOUS
<1> HIDE DEF F
<1>6. \A s \in SUBSET S : h[s] = IF s = {} THEN c ELSE F[<<Ch(s), h[s \ {Ch(s)}]>>]
  BY <1>5, Zenon DEF Folds
<1> DEFINE J == {s \in SUBSET S : Dropped(c, h[s], s) /\ (s # {} => h[s] = DropOne(h[s \ {Ch(s)}], Ch(s)))}
<1>7. \A s \in SUBSET S : s \in J
  <2>1. {} \in J BY <1>3, <1>6
  <2>2. \A s \in SUBSET S : s # {} /\ s \ {CHOOSE x \in s : TRUE} \in J => s \in J
    <3> SUFFICES ASSUME NEW s \in SUBSET S, s # {}, s \ {Ch(s)} \in J
                 PROVE  Dropped(c, h[s], s) /\ h[s] = DropOne(h[s \ {Ch(s)}], Ch(s))
      BY DEF Ch
    <3>1. Dropped(c, h[s \ {Ch(s)}], s \ {Ch(s)})
      OBVIOUS
    <3>2. Dropped(c, DropOne(h[s \ {Ch(s)}], Ch(s)), s) /\ Ch(s) \in S /\ h[s \ {Ch(s)}] \in CacheT
      BY <1>2, <3>1
    <3>3. DropOne(h[s \ {Ch(s)}], Ch(s)) \in CacheT BY <3>2 DEF Dropped
    <3>4. h[s] = F[<<Ch(s), h[s \ {Ch(s)}]>>] BY <1>6
    <3>5. h[s] = DropOne(h[s \ {Ch(s)}], Ch(s)) BY <1>5a, <3>2, <3>3, <3>4
    <3> QED BY <3>2, <3>5
  <2> HIDE DEF J
  <2> QED BY <1>1, <2>1, <2>2, SubsetInduction, Zenon
<1>8. Eq(h)
  <2>1. h = [s \in SUBSET S |-> h[s]] BY <1>5, Zenon DEF Folds
  <2>1a. \A s \in SUBSET S : s # {} => h[s] = DropOne(h[s \ {Ch(s)}], Ch(s)) BY <1>7
  <2>1b. h[{}] = c BY <1>6, Zenon
  <2> HIDE DEF J
  <2>2. \A s \in SUBSET S : h[s] = IF s = {} THEN c
                          ELSE LET x == CHOOSE x \in s : TRUE IN DropOne(h[s \ {x}], x)
    BY <2>1a, <2>1b, Zenon DEF Ch
  <2> QED BY <2>1, <2>2, Zenon
<1> HIDE DEF J
<1> DEFINE k == CHOOSE g : Eq(g)
<1>9. Eq(k) BY <1>8
<1>10. Drop(c, S) = k[S] BY Zenon DEF Drop, FoldSet, MapThenFoldSet, DropOne
<1> HIDE DEF k
<1>11. \A s \in SUBSET S : k[s] = IF s = {} THEN c
                          ELSE LET x == CHOOSE x \in s : TRUE IN DropOne(k[s \ {x}], x)
  BY <1>9, Zenon
<1>12. \A s \in SUBSET S : s # {} => k[s] = DropOne(k[s \ {Ch(s)}], Ch(s))
  BY <1>11, Zenon DEF Ch
<1>13. k[{}] = c BY <1>11, Zenon
<1> DEFINE I == {s \in SUBSET S : Dropped(c, k[s], s)}
<1>14. \A s \in SUBSET S : s \in I
  <2>1. {} \in I BY <1>3, <1>13
  <2>2. \A s \in SUBSET S : s # {} /\ s \ {CHOOSE x \in s : TRUE} \in I => s \in I
    <3> SUFFICES ASSUME NEW s \in SUBSET S, s # {}, s \ {Ch(s)} \in I PROVE Dropped(c, k[s], s)
      BY DEF Ch
    <3>1. Dropped(c, k[s \ {Ch(s)}], s \ {Ch(s)})
      OBVIOUS
    <3>2. k[s] = DropOne(k[s \ {Ch(s)}], Ch(s)) BY <1>12
    <3> QED BY <3>1, <3>2, <1>2
  <2> HIDE DEF I
  <2> QED BY <1>1, <2>1, <2>2, SubsetInduction, Zenon
<1> QED BY <1>10, <1>14

\* No block is invalidated.
LEMMA InvalidateNone ==
    ASSUME NEW c \in CacheT, CacheInv(c)
    PROVE  Invalidated(c, c, {})
BY CacheFields DEF Invalidated, Heard, Keeps

\* Invalidating blocks one after the other.
LEMMA InvalidateTrans ==
    ASSUME NEW c \in CacheT, NEW s \in SUBSET Blocks, NEW e, Invalidated(c, e, s),
           NEW x \in Blocks \ s, NEW d, Invalidated(e, d, {x})
    PROVE  Invalidated(c, d, s \cup {x})
<1>1. d \in CacheT /\ CacheInv(d) /\ d.cleaner = c.cleaner /\ d.active = c.active
  BY DEF Invalidated
<1>2. Heard(c, d) BY HeardTrans DEF Invalidated
<1>3. \A a \in Blocks \ (s \cup {x}) : d.blk[a] = c.blk[a] BY DEF Invalidated
<1>4. \A a \in s : d.blk[a] = e.blk[a] BY DEF Invalidated
<1>5. \A a \in s \cup {x} : d.blk[a].key = Nil BY <1>4 DEF Invalidated
<1>6. ASSUME NEW k \in Keys PROVE d.hash[k] = IF c.hash[k] \in s \cup {x} THEN Nil ELSE c.hash[k]
  <2>1. e.hash[k] = IF c.hash[k] \in s THEN Nil ELSE c.hash[k] BY DEF Invalidated
  <2>2. d.hash[k] = IF e.hash[k] \in {x} THEN Nil ELSE e.hash[k] BY DEF Invalidated
  <2> QED BY <2>1, <2>2, NilApart
<1>7. Keeps(c, d, FileFlags \ {"ON_DIRTY_LIST", "FSYNC"}) BY KeepsTrans DEF Invalidated
<1>8. \A f \in Files : d.file[f].dirtyList \subseteq c.file[f].dirtyList BY DEF Invalidated
<1> QED BY <1>1, <1>2, <1>3, <1>5, <1>6, <1>7, <1>8 DEF Invalidated

\* What DeleteBlockFromDirtyList does.
LEMMA UnlistStep ==
    ASSUME NEW c \in CacheT, NEW b \in Blocks, c.blk[b].key # Nil
    PROVE  UnlistDone(c, DeleteBlockFromDirtyList(c, b), b, c.blk[b].key[1])
<1> DEFINE f == c.blk[b].key[1]
           L == c.file[f].dirtyList \ {b}
           e == SetDirtyList(c, f, L)
           F == e.file[f].flags \ {"ON_DIRTY_LIST", "FSYNC"}
           g == SetFileFlags(e, f, F)
           h == Broadcast(g, NoDirtyBlocks(f))
           d == DeleteBlockFromDirtyList(c, b)
<1>1. f \in Files BY BlockFields, KeyFacts
<1>2. L \in SUBSET Blocks BY <1>1, FileFields
<1>3. d = IF FileIs(e, f, {"ON_DIRTY_LIST"}) /\ e.file[f].numDirty = 0 THEN h ELSE e
  BY DEF DeleteBlockFromDirtyList, SetDirtyList, SetFileFlags
<1> HIDE DEF d, f, L
<1>4. /\ e \in CacheT /\ \A g2 \in Files \ {f} : e.file[g2] = c.file[g2]
      /\ e.file[f].dirtyList = L
      /\ e.file[f].numDirty = c.file[f].numDirty /\ e.file[f].inCache = c.file[f].inCache
      /\ e.file[f].flags = c.file[f].flags
      /\ e.blk = c.blk /\ e.hash = c.hash /\ e.avail = c.avail
      /\ e.active = c.active /\ e.cleaner = c.cleaner /\ e.wake = c.wake
  BY <1>1, <1>2, SetDirtyListFacts
<1> HIDE DEF e
<1>5. F \in SUBSET FileFlags
  <2>1. e.file[f].flags \in SUBSET FileFlags BY <1>1, <1>4, FileFields
  <2> QED BY <2>1
<1>5a. F = c.file[f].flags \ {"ON_DIRTY_LIST", "FSYNC"} BY <1>4
<1> HIDE DEF F
<1>6. /\ g \in CacheT /\ \A g2 \in Files \ {f} : g.file[g2] = e.file[g2]
      /\ g.file[f].flags = F
      /\ g.file[f].numDirty = e.file[f].numDirty /\ g.file[f].inCache = e.file[f].inCache
      /\ g.file[f].dirtyList = e.file[f].dirtyList
      /\ g.blk = e.blk /\ g.hash = e.hash /\ g.avail = e.avail
      /\ g.active = e.active /\ g.cleaner = e.cleaner /\ g.wake = e.wake
  BY <1>1, <1>4, <1>5, SetFileFlagsFacts
<1> HIDE DEF g
<1>7. /\ h \in CacheT /\ h.blk = g.blk /\ h.hash = g.hash /\ h.file = g.file /\ h.avail = g.avail
      /\ h.active = g.active /\ h.cleaner = g.cleaner /\ h.wake = g.wake \cup {NoDirtyBlocks(f)}
  BY <1>1, <1>6, BroadcastFacts, EventTypes
<1> HIDE DEF h
<1>8. UnlistDone(c, e, b, f) BY <1>4 DEF UnlistDone, L
<1>9. e.file[f].numDirty = 0 => UnlistDone(c, h, b, f)
  BY <1>4, <1>5a, <1>6, <1>7 DEF UnlistDone, L
<1> QED BY <1>3, <1>8, <1>9 DEF d, f

\* One dirty block less, in elementary changes.
LEMMA OneLess ==
    ASSUME NEW e, NEW f
    PROVE  [e EXCEPT !.file[f].numDirty = @ - 1, !.avail = @ + 1]
              = SetAvail(SetNumDirty(e, f, e.file[f].numDirty - 1), e.avail + 1)
BY DEF SetAvail, SetNumDirty

\* DeleteBlock as CacheFileInvalidate writes it.
LEMMA DeleteIs ==
    ASSUME NEW c, NEW b
    PROVE  [c EXCEPT !.file[c.blk[b].key[1]].inCache = @ - 1, !.hash[c.blk[b].key] = Nil]
              = DeleteBlock(c, b)
BY Zenon DEF DeleteBlock

\* InvalidateBlock, routine by routine.
LEMMA InvalidateIs ==
    ASSUME NEW c \in CacheT, NEW b \in Blocks, c.blk[b].key # Nil, NEW e, e = DeleteBlock(c, b)
    PROVE  InvalidateBlock(c, b) =
             IF Is(c, b, {"DIRTY"})
             THEN Broadcast(Emptied(DeleteBlockFromDirtyList(
                    SetAvail(SetNumDirty(e, c.blk[b].key[1], e.file[c.blk[b].key[1]].numDirty - 1),
                             e.avail + 1), b), b), CleanBlock)
             ELSE DropNow(c, b)
<1> DEFINE k == c.blk[b].key
           f == k[1]
           out == [c EXCEPT !.file[f].inCache = @ - 1, !.hash[k] = Nil]
           less == [out EXCEPT !.file[f].numDirty = @ - 1, !.avail = @ + 1]
           m == SetAvail(SetNumDirty(e, f, e.file[f].numDirty - 1), e.avail + 1)
           clean == IF Is(out, b, {"DIRTY"}) THEN DeleteBlockFromDirtyList(less, b) ELSE out
<1>1. InvalidateBlock(c, b) = PutOnFreeList(clean, b) BY DEF InvalidateBlock
<1>2. out = e BY Zenon, DeleteIs
<1>3. less = [e EXCEPT !.file[f].numDirty = @ - 1, !.avail = @ + 1] BY Zenon, <1>2
<1>4. less = m
  <2> HIDE DEF less, f
  <2>1. [e EXCEPT !.file[f].numDirty = @ - 1, !.avail = @ + 1]
              = SetAvail(SetNumDirty(e, f, e.file[f].numDirty - 1), e.avail + 1)
    BY Zenon, OneLess
  <2> QED BY <1>3, <2>1
<1> HIDE DEF less, m, out
<1>5. Is(out, b, {"DIRTY"}) <=> Is(c, b, {"DIRTY"})
  <2>1. e.blk = c.blk BY DeleteStep DEF DeleteDone
  <2> QED BY <1>2, <2>1 DEF Is
<1>6. clean = IF Is(c, b, {"DIRTY"}) THEN DeleteBlockFromDirtyList(m, b) ELSE e
  BY <1>2, <1>4, <1>5
<1> HIDE DEF clean
<1>7. CASE Is(c, b, {"DIRTY"})
  <2>1. PutOnFreeList(clean, b) = Broadcast(Emptied(DeleteBlockFromDirtyList(m, b), b), CleanBlock)
    BY <1>6, <1>7 DEF PutOnFreeList, Emptied
  <2> QED BY Zenon, <1>1, <1>7, <2>1 DEF m
<1>8. CASE ~Is(c, b, {"DIRTY"}) BY <1>1, <1>6, <1>8 DEF DropNow
<1> QED BY <1>7, <1>8

\* A clean block is invalidated.
LEMMA InvalidateClean ==
    ASSUME NEW c \in CacheT, CacheInv(c), NEW b \in Blocks, Purgeable(c, b), ~Is(c, b, {"DIRTY"})
    PROVE  Invalidated(c, InvalidateBlock(c, b), {b})
<1>1. InvalidateBlock(c, b) = DropNow(c, b) BY InvalidateIs DEF Purgeable, Droppable
<1>2. c.blk[b].flags \cap DirtyOrWritten = {} /\ Droppable(c, b)
  BY DEF Purgeable, Is, DirtyOrWritten
<1>3. Dropped(c, DropNow(c, b), {b}) BY <1>2, DropNowStep
<1> QED BY <1>1, <1>2, <1>3 DEF Dropped, Invalidated, Keeps

\* A dirty block is invalidated.
LEMMA InvalidateWritten ==
    ASSUME NEW c \in CacheT, CacheInv(c), NEW b \in Blocks, Purgeable(c, b), Is(c, b, {"DIRTY"})
    PROVE  Invalidated(c, InvalidateBlock(c, b), {b})
<1> DEFINE k == c.blk[b].key
           f == k[1]
           e == DeleteBlock(c, b)
           n == e.file[f].numDirty - 1
           m == SetNumDirty(e, f, n)
           a == SetAvail(m, e.avail + 1)
           u == DeleteBlockFromDirtyList(a, b)
           v == Emptied(u, b)
           d == Broadcast(v, CleanBlock)
<1>0. InvalidateBlock(c, b) = d BY InvalidateIs DEF Purgeable, Droppable
<1>1. /\ k \in Keys /\ f \in Files /\ k # Nil /\ c.blk[b].ref = 0
      /\ c.hash[k] = b /\ "DELETED" \notin c.blk[b].flags
      /\ b \in c.file[f].dirtyList
      /\ \A j \in Keys : c.hash[j] = b => j = k
      /\ "BEING_WRITTEN" \notin c.blk[b].flags /\ "DIRTY" \in c.blk[b].flags
  BY BlockFacts DEF Droppable, Purgeable, Is
<1>2. c.avail \in Int /\ c.file[f].inCache \in Int /\ c.file[f].numDirty \in Int
  BY <1>1, CacheFields, FileFields
<1>3. DeleteDone(c, e, b, f) BY <1>1, DeleteStep
<1>3a. e \in CacheT /\ n \in Int /\ e.avail + 1 \in Int /\ n = c.file[f].numDirty - 1 /\ e.avail = c.avail
  BY SMTT(30), <1>2, <1>3 DEF DeleteDone
<1>3b. k # Nil /\ k = c.blk[b].key /\ f = k[1] BY <1>1
<1> HIDE DEF e, n, k, f
<1>4. /\ m \in CacheT /\ \A g \in Files \ {f} : m.file[g] = e.file[g]
      /\ m.file[f].numDirty = n
      /\ m.file[f].inCache = e.file[f].inCache /\ m.file[f].dirtyList = e.file[f].dirtyList
      /\ m.file[f].flags = e.file[f].flags
      /\ m.blk = e.blk /\ m.hash = e.hash /\ m.avail = e.avail
      /\ m.active = e.active /\ m.cleaner = e.cleaner /\ m.wake = e.wake
  <2>1. e \in CacheT /\ f \in Files /\ n \in Int BY <1>1, <1>3a
  <2> QED BY <2>1, SetNumDirtyFacts
<1> HIDE DEF m
<1>5. /\ a \in CacheT /\ a.blk = m.blk /\ a.hash = m.hash /\ a.file = m.file
      /\ a.avail = e.avail + 1 /\ a.active = m.active /\ a.cleaner = m.cleaner /\ a.wake = m.wake
  BY <1>3a, <1>4, SetAvailFacts
<1> HIDE DEF a
<1>6. UnlistDone(a, u, b, f)
  <2>1. a.blk[b].key = k BY Zenon, <1>3, <1>3b, <1>4, <1>5 DEF DeleteDone
  <2> QED BY <1>3b, <1>5, <2>1, UnlistStep
<1> HIDE DEF u
<1>7. EmptyDone(u, v, b) BY <1>6, EmptyStep DEF UnlistDone
<1> HIDE DEF v
<1>8. /\ d \in CacheT /\ d.blk = v.blk /\ d.hash = v.hash /\ d.file = v.file /\ d.avail = v.avail
      /\ d.active = v.active /\ d.cleaner = v.cleaner /\ d.wake = v.wake \cup {CleanBlock}
  BY <1>7, BroadcastFacts, EventTypes DEF EmptyDone
<1> HIDE DEF d
<1>9. /\ d.active = c.active /\ d.cleaner = c.cleaner /\ c.wake \subseteq d.wake
      /\ CleanBlock \in d.wake /\ d.avail = c.avail + 1
  BY <1>3, <1>3a, <1>4, <1>5, <1>6, <1>7, <1>8 DEF DeleteDone, UnlistDone, EmptyDone
<1>10. /\ \A x \in Blocks \ {b} : d.blk[x] = c.blk[x]
       /\ d.blk[b].key = Nil /\ d.blk[b].flags = {"FREE"} /\ d.blk[b].ref = 0
       /\ d.hash[k] = Nil /\ \A j \in Keys \ {k} : d.hash[j] = c.hash[j]
  <2>1. u.blk = c.blk /\ u.hash = e.hash BY <1>3, <1>4, <1>5, <1>6 DEF DeleteDone, UnlistDone
  <2>2. d.blk = v.blk /\ d.hash = e.hash BY <1>7, <1>8, <2>1 DEF EmptyDone
  <2>3. e.hash[k] = Nil /\ \A j \in Keys \ {k} : e.hash[j] = c.hash[j]
    BY <1>3, <1>3b DEF DeleteDone
  <2>4. \A x \in Blocks \ {b} : v.blk[x] = c.blk[x] BY <1>7, <2>1 DEF EmptyDone
  <2>5. v.blk[b].key = Nil /\ v.blk[b].flags = {"FREE"} /\ v.blk[b].ref = 0
    BY <1>1, <1>7, <2>1 DEF EmptyDone
  <2> QED BY <2>2, <2>3, <2>4, <2>5
<1>11. /\ \A g \in Files \ {f} : d.file[g] = c.file[g]
       /\ d.file[f].inCache = c.file[f].inCache - 1
       /\ d.file[f].numDirty = c.file[f].numDirty - 1
       /\ d.file[f].dirtyList = c.file[f].dirtyList \ {b}
       /\ \/ d.file[f].flags = c.file[f].flags
          \/ /\ d.file[f].flags = c.file[f].flags \ {"ON_DIRTY_LIST", "FSYNC"}
             /\ d.file[f].numDirty = 0 /\ NoDirtyBlocks(f) \in d.wake
  BY <1>3, <1>3a, <1>4, <1>5, <1>6, <1>7, <1>8 DEF DeleteDone, UnlistDone, EmptyDone
<1>12. OneFile(c, d, b, f) BY <1>10, <1>11 DEF OneFile
<1>13. CacheInv(d)
  <2>2. Recount(c.blk[b], d.blk[b], c.file[f], d.file[f], f, b)
    <3>1. /\ d.file[f].inCache = c.file[f].inCache + 0 - 1
          /\ d.file[f].numDirty = c.file[f].numDirty + 0 - 1
      BY <1>2, <1>11
    <3>2. c.blk[b].flags \cap DirtyOrWritten # {} BY <1>1 DEF DirtyOrWritten
    <3>3. d.file[f].dirtyList \ {b} = c.file[f].dirtyList \ {b} /\ b \notin d.file[f].dirtyList
      BY <1>11
    <3> QED BY Zenon, <1>1, <1>3b, <1>10, <3>1, <3>2, <3>3 DEF Recount, One
  <2>3. d.avail = c.avail + One(IsFree(d.blk[b])) - One(IsFree(c.blk[b]))
    <3>1. ~IsFree(c.blk[b]) /\ IsFree(d.blk[b]) BY <1>1, <1>10 DEF IsFree, DirtyOrWritten
    <3> QED BY <1>2, <1>9, <3>1 DEF One
  <2>4. Relist(c.file[f], d.file[f])
    <3>1. ~(d.file[f].numDirty > c.file[f].numDirty) BY <1>2, <1>11
    <3>2. \/ d.file[f].flags = c.file[f].flags
          \/ d.file[f].numDirty <= 0
      BY <1>11
    <3> QED BY <3>1, <3>2 DEF Relist
  <2>5. HashStep(c, d, b)
    <3> SUFFICES ASSUME NEW j \in Keys
                 PROVE  /\ \/ d.hash[j] = c.hash[j]
                           \/ c.hash[j] = b /\ d.hash[j] = Nil
                        /\ d.hash[j] # b
      BY DEF HashStep
    <3> QED BY <1>1, <1>10, NilApart
  <2>6. BlockOK(d, b) BY <1>10 DEF BlockOK
  <2>7. /\ "BEING_WRITTEN" \in d.blk[b].flags <=> "BEING_WRITTEN" \in c.blk[b].flags
        /\ "BEING_WRITTEN" \in d.file[f].flags <=> "BEING_WRITTEN" \in c.file[f].flags
        /\ "ON_DIRTY_LIST" \in d.file[f].flags => "ON_DIRTY_LIST" \in c.file[f].flags
    BY <1>1, <1>10, <1>11
  <2>8. "BEING_WRITTEN" \in c.blk[b].flags => d.blk[b].key = c.blk[b].key BY <1>1
  <2> QED BY <1>1, <1>8, <1>9, <1>12, <2>2, <2>3, <2>4, <2>5, <2>6, <2>7, <2>8, FileStepInv
<1>14. Heard(c, d)
  <2>1. ~Used(c.blk[b]) BY <1>1 DEF Used
  <2>2. c.file[f].flags \cap {"ON_DIRTY_LIST", "BEING_WRITTEN"} # {}
             /\ d.file[f].flags \cap {"ON_DIRTY_LIST", "BEING_WRITTEN"} = {}
                => NoDirtyBlocks(f) \in d.wake
    BY <1>11
  <2> QED BY <1>1, <1>8, <1>9, <1>12, <2>1, <2>2, HeardMade
<1>15. \A j \in Keys : d.hash[j] = IF c.hash[j] \in {b} THEN Nil ELSE c.hash[j] BY <1>1, <1>10
<1>16. Keeps(c, d, FileFlags \ {"ON_DIRTY_LIST", "FSYNC"}) BY <1>11 DEF Keeps
<1>17. \A g \in Files : d.file[g].dirtyList \subseteq c.file[g].dirtyList BY <1>11
<1> QED BY <1>0, <1>8, <1>9, <1>10, <1>13, <1>14, <1>15, <1>16, <1>17 DEF Invalidated

\* One block is invalidated.
LEMMA InvalidateStep ==
    ASSUME NEW c \in CacheT, CacheInv(c), NEW b \in Blocks, Purgeable(c, b)
    PROVE  Invalidated(c, InvalidateBlock(c, b), {b})
BY InvalidateClean, InvalidateWritten

\* One block more is invalidated.
LEMMA InvalidateMore ==
    ASSUME NEW c \in CacheT, NEW s \in SUBSET Blocks, NEW d, Invalidated(c, d, s),
           NEW x \in Blocks \ s, Purgeable(c, x)
    PROVE  Invalidated(c, InvalidateBlock(d, x), s \cup {x})
<1>1. d \in CacheT /\ CacheInv(d) /\ d.blk[x] = c.blk[x] BY DEF Invalidated
<1>2. Purgeable(d, x) BY <1>1 DEF Purgeable, Droppable
<1>3. Invalidated(d, InvalidateBlock(d, x), {x}) BY <1>1, <1>2, InvalidateStep
<1> QED BY <1>3, InvalidateTrans

\* InvalidateAll invalidates a set of blocks.
LEMMA InvalidateAllIs ==
    ASSUME NEW c \in CacheT, CacheInv(c), NEW S \in SUBSET Blocks, \A b \in S : Purgeable(c, b)
    PROVE  Invalidated(c, InvalidateAll(c, S), S)
<1> DEFINE F == [z \in S \X CacheT |-> IF InvalidateBlock(z[2], z[1]) \in CacheT THEN InvalidateBlock(z[2], z[1]) ELSE c]
           Eq(g) == g = [s \in SUBSET S |-> IF s = {} THEN c
                          ELSE LET x == CHOOSE x \in s : TRUE IN InvalidateBlock(g[s \ {x}], x)]
<1>1. IsFiniteSet(S) BY Finite, FS_Subset
<1>2. ASSUME NEW s \in SUBSET S, s # {}, NEW d, Invalidated(c, d, s \ {Ch(s)})
      PROVE  Invalidated(c, InvalidateBlock(d, Ch(s)), s) /\ Ch(s) \in S /\ d \in CacheT
  <2>1. Ch(s) \in s BY <1>2 DEF Ch
  <2>2. s \ {Ch(s)} \in SUBSET Blocks /\ Ch(s) \in Blocks \ (s \ {Ch(s)}) /\ Purgeable(c, Ch(s))
    BY <2>1
  <2>3. (s \ {Ch(s)}) \cup {Ch(s)} = s BY <2>1
  <2>4. d \in CacheT BY <1>2 DEF Invalidated
  <2>5. Invalidated(c, InvalidateBlock(d, Ch(s)), (s \ {Ch(s)}) \cup {Ch(s)})
    BY <1>2, <2>2, InvalidateMore
  <2> QED BY <2>1, <2>3, <2>4, <2>5
<1>3. Invalidated(c, c, {}) BY InvalidateNone
<1>4. F \in [S \X CacheT -> CacheT]
  OBVIOUS
<1>5. PICK h : Folds(h, F, c, SUBSET S) BY <1>1, FoldExists
<1>5a. \A x \in S, d \in CacheT : InvalidateBlock(d, x) \in CacheT => F[<<x, d>>] = InvalidateBlock(d, x)
  OBVIOUS
<1> HIDE DEF F
<1>6. \A s \in SUBSET S : h[s] = IF s = {} THEN c ELSE F[<<Ch(s), h[s \ {Ch(s)}]>>]
  BY <1>5, Zenon DEF Folds
<1> DEFINE J == {s \in SUBSET S : Invalidated(c, h[s], s) /\ (s # {} => h[s] = InvalidateBlock(h[s \ {Ch(s)}], Ch(s)))}
<1>7. \A s \in SUBSET S : s \in J
  <2>1. {} \in J BY <1>3, <1>6
  <2>2. \A s \in SUBSET S : s # {} /\ s \ {CHOOSE x \in s : TRUE} \in J => s \in J
    <3> SUFFICES ASSUME NEW s \in SUBSET S, s # {}, s \ {Ch(s)} \in J
                 PROVE  Invalidated(c, h[s], s) /\ h[s] = InvalidateBlock(h[s \ {Ch(s)}], Ch(s))
      BY DEF Ch
    <3>1. Invalidated(c, h[s \ {Ch(s)}], s \ {Ch(s)})
      OBVIOUS
    <3>2. Invalidated(c, InvalidateBlock(h[s \ {Ch(s)}], Ch(s)), s) /\ Ch(s) \in S /\ h[s \ {Ch(s)}] \in CacheT
      BY <1>2, <3>1
    <3>3. InvalidateBlock(h[s \ {Ch(s)}], Ch(s)) \in CacheT BY <3>2 DEF Invalidated
    <3>4. h[s] = F[<<Ch(s), h[s \ {Ch(s)}]>>] BY <1>6
    <3>5. h[s] = InvalidateBlock(h[s \ {Ch(s)}], Ch(s)) BY <1>5a, <3>2, <3>3, <3>4
    <3> QED BY <3>2, <3>5
  <2> HIDE DEF J
  <2> QED BY <1>1, <2>1, <2>2, SubsetInduction, Zenon
<1>8. Eq(h)
  <2>1. h = [s \in SUBSET S |-> h[s]] BY <1>5, Zenon DEF Folds
  <2>1a. \A s \in SUBSET S : s # {} => h[s] = InvalidateBlock(h[s \ {Ch(s)}], Ch(s)) BY <1>7
  <2>1b. h[{}] = c BY <1>6, Zenon
  <2> HIDE DEF J
  <2>2. \A s \in SUBSET S : h[s] = IF s = {} THEN c
                          ELSE LET x == CHOOSE x \in s : TRUE IN InvalidateBlock(h[s \ {x}], x)
    BY <2>1a, <2>1b, Zenon DEF Ch
  <2> QED BY <2>1, <2>2, Zenon
<1> HIDE DEF J
<1> DEFINE k == CHOOSE g : Eq(g)
<1>9. Eq(k) BY <1>8
<1>10. InvalidateAll(c, S) = k[S] BY Zenon DEF InvalidateAll, FoldSet, MapThenFoldSet
<1> HIDE DEF k
<1>11. \A s \in SUBSET S : k[s] = IF s = {} THEN c
                          ELSE LET x == CHOOSE x \in s : TRUE IN InvalidateBlock(k[s \ {x}], x)
  BY <1>9, Zenon
<1>12. \A s \in SUBSET S : s # {} => k[s] = InvalidateBlock(k[s \ {Ch(s)}], Ch(s))
  BY <1>11, Zenon DEF Ch
<1>13. k[{}] = c BY <1>11, Zenon
<1> DEFINE I == {s \in SUBSET S : Invalidated(c, k[s], s)}
<1>14. \A s \in SUBSET S : s \in I
  <2>1. {} \in I BY <1>3, <1>13
  <2>2. \A s \in SUBSET S : s # {} /\ s \ {CHOOSE x \in s : TRUE} \in I => s \in I
    <3> SUFFICES ASSUME NEW s \in SUBSET S, s # {}, s \ {Ch(s)} \in I PROVE Invalidated(c, k[s], s)
      BY DEF Ch
    <3>1. Invalidated(c, k[s \ {Ch(s)}], s \ {Ch(s)})
      OBVIOUS
    <3>2. k[s] = InvalidateBlock(k[s \ {Ch(s)}], Ch(s)) BY <1>12
    <3> QED BY <3>1, <3>2, <1>2
  <2> HIDE DEF I
  <2> QED BY <1>1, <2>1, <2>2, SubsetInduction, Zenon
<1> QED BY <1>10, <1>14

\* A block that is reused need not be put on the free list first.
LEMMA NewBlockIs ==
    ASSUME NEW e, NEW b, NEW k
    PROVE  NewBlock(e, b, k) =
             SetAvail(SetInCache(SetHash(SetBlock(e, b, [key |-> k, ref |-> 1, flags |-> {"IO_IN_PROGRESS"}]),
                                         k, b), k[1], e.file[k[1]].inCache + 1), e.avail - 1)
BY DEF NewBlock, SetBlock, SetHash, SetInCache, SetAvail

----------------------------------------------------------------------------
(* Steps of cleaners.                                                      *)
\* What a block was before it is set does not matter.
LEMMA TwiceSet ==
    ASSUME NEW g \in CacheT, NEW e \in CacheT, NEW b \in Blocks, NEW x \in BlockT,
           \A a \in Blocks \ {b} : g.blk[a] = e.blk[a],
           g.hash = e.hash, g.file = e.file, g.avail = e.avail,
           g.active = e.active, g.cleaner = e.cleaner, g.wake = e.wake
    PROVE  SetBlock(g, b, x) = SetBlock(e, b, x)
<1> DEFINE h == SetBlock(g, b, x)
           i == SetBlock(e, b, x)
<1>1. /\ h \in CacheT /\ h.blk[b] = x /\ \A a \in Blocks \ {b} : h.blk[a] = g.blk[a]
      /\ h.hash = g.hash /\ h.file = g.file /\ h.avail = g.avail
      /\ h.active = g.active /\ h.cleaner = g.cleaner /\ h.wake = g.wake
  BY SetBlockFacts
<1>2. /\ i \in CacheT /\ i.blk[b] = x /\ \A a \in Blocks \ {b} : i.blk[a] = e.blk[a]
      /\ i.hash = e.hash /\ i.file = e.file /\ i.avail = e.avail
      /\ i.active = e.active /\ i.cleaner = e.cleaner /\ i.wake = e.wake
  BY SetBlockFacts
<1> HIDE DEF h, i
<1>3. h.blk = i.blk
  <2>1. h.blk \in [Blocks -> BlockT] /\ i.blk \in [Blocks -> BlockT] BY <1>1, <1>2, CacheFields
  <2>2. \A a \in Blocks : h.blk[a] = i.blk[a] BY <1>1, <1>2
  <2> QED BY <2>1, <2>2
<1>4. /\ h = [blk |-> h.blk, hash |-> h.hash, file |-> h.file, avail |-> h.avail,
              active |-> h.active, cleaner |-> h.cleaner, wake |-> h.wake]
      /\ i = [blk |-> i.blk, hash |-> i.hash, file |-> i.file, avail |-> i.avail,
              active |-> i.active, cleaner |-> i.cleaner, wake |-> i.wake]
  BY <1>1, <1>2, CacheFields
<1>5. /\ h.hash = i.hash /\ h.file = i.file /\ h.avail = i.avail
      /\ h.active = i.active /\ h.cleaner = i.cleaner /\ h.wake = i.wake
  BY <1>1, <1>2
<1>6. h = i BY <1>3, <1>4, <1>5
<1> QED BY <1>6 DEF h, i

\* A block is reused as if it had been free.
LEMMA ReuseIs ==
    ASSUME NEW c \in CacheT, NEW b \in Blocks, c.blk[b].key # Nil, NEW k \in Keys
    PROVE  NewBlock(DeleteBlock(c, b), b, k) = NewBlock(Freed(c, b), b, k)
<1> DEFINE e == DeleteBlock(c, b)
           g == Emptied(e, b)
           x == [key |-> k, ref |-> 1, flags |-> {"IO_IN_PROGRESS"}]
<1>1. e \in CacheT BY DeleteStep DEF DeleteDone
<1> HIDE DEF e
<1>2. /\ g \in CacheT /\ \A a \in Blocks \ {b} : g.blk[a] = e.blk[a]
      /\ g.hash = e.hash /\ g.file = e.file /\ g.avail = e.avail
      /\ g.active = e.active /\ g.cleaner = e.cleaner /\ g.wake = e.wake
  BY <1>1, EmptyStep DEF EmptyDone
<1> HIDE DEF g
<1>3. x \in BlockT BY DEF BlockT, BlockFlags
<1>4. NewBlock(e, b, k)
        = SetAvail(SetInCache(SetHash(SetBlock(e, b, x), k, b), k[1], e.file[k[1]].inCache + 1), e.avail - 1)
  BY NewBlockIs, Zenon
<1>5. NewBlock(g, b, k)
        = SetAvail(SetInCache(SetHash(SetBlock(g, b, x), k, b), k[1], g.file[k[1]].inCache + 1), g.avail - 1)
  BY NewBlockIs, Zenon
<1> HIDE DEF x
<1>6. SetBlock(g, b, x) = SetBlock(e, b, x) BY <1>1, <1>2, <1>3, TwiceSet
<1>7. NewBlock(g, b, k) = NewBlock(e, b, k) BY <1>2, <1>4, <1>5, <1>6, Zenon
<1> QED BY <1>7 DEF e, g, Freed

\* Equal blocks are similar.
LEMMA SameIsSimilar ==
    ASSUME NEW c, NEW d, Same(c, d)
    PROVE  Similar(c, d)
BY DEF Same, Similar

\* Similar blocks agree on the flags that matter.
LEMMA SimilarFlags ==
    ASSUME NEW c, NEW d, Similar(c, d), NEW b \in Blocks
    PROVE  /\ "FREE" \in d.blk[b].flags <=> "FREE" \in c.blk[b].flags
           /\ "DIRTY" \in d.blk[b].flags <=> "DIRTY" \in c.blk[b].flags
           /\ "BEING_WRITTEN" \in d.blk[b].flags <=> "BEING_WRITTEN" \in c.blk[b].flags
           /\ "DELETED" \in d.blk[b].flags <=> "DELETED" \in c.blk[b].flags
           /\ "IO_IN_PROGRESS" \in d.blk[b].flags <=> "IO_IN_PROGRESS" \in c.blk[b].flags
           /\ d.blk[b].flags \cap DirtyOrWritten = {} <=> c.blk[b].flags \cap DirtyOrWritten = {}
           /\ d.blk[b].key = c.blk[b].key /\ d.blk[b].ref = c.blk[b].ref
<1> DEFINE D == d.blk[b].flags
           C == c.blk[b].flags
           A == {"FREE", "DIRTY", "BEING_WRITTEN", "DELETED", "IO_IN_PROGRESS"}
<1>1. D \cap A = C \cap A /\ d.blk[b].key = c.blk[b].key /\ d.blk[b].ref = c.blk[b].ref
  BY DEF Similar
<1>2. \A x \in A : x \in D <=> x \in C
  <2> HIDE DEF A, C, D
  <2> QED BY <1>1
<1>3. /\ "FREE" \in A /\ "DIRTY" \in A /\ "BEING_WRITTEN" \in A /\ "DELETED" \in A /\ "IO_IN_PROGRESS" \in A
  OBVIOUS
<1>4. DirtyOrWritten = {"DIRTY", "BEING_WRITTEN"} BY DEF DirtyOrWritten
<1> HIDE DEF A
<1> QED BY <1>1, <1>2, <1>3, <1>4

\* Similar caches count the same sets.
LEMMA SimilarSets ==
    ASSUME NEW c, NEW d, Similar(c, d)
    PROVE  /\ \A b \in Blocks : IsFree(d.blk[b]) <=> IsFree(c.blk[b])
           /\ \A b \in Blocks, f \in Files :
                 /\ IsOf(d.blk[b], f) <=> IsOf(c.blk[b], f)
                 /\ IsDirty(d.blk[b], f) <=> IsDirty(c.blk[b], f)
                 /\ IsListed(d.blk[b], f) <=> IsListed(c.blk[b], f)
BY SimilarFlags DEF IsFree, IsOf, IsDirty, IsListed

\* The structure does not depend on who waits for a cleaner.
LEMMA SimilarInv ==
    ASSUME NEW c \in CacheT, CacheInv(c), NEW d \in CacheT, Similar(c, d),
           \A f \in Files : FileSame(c, d, f), ListStep(c, d), CleanersOK(d)
    PROVE  CacheInv(d)
<1>1. BlockTied(d)
  <2> SUFFICES ASSUME NEW a \in Blocks
               PROVE  LET x == d.blk[a] IN
                      /\ x.key = Nil <=> "FREE" \in x.flags
                      /\ x.key = Nil => x.flags = {"FREE"} /\ x.ref = 0
                      /\ x.key # Nil => (d.hash[x.key] = a <=> "DELETED" \notin x.flags)
                      /\ "DELETED" \in x.flags => Is(d, a, DirtyOrWritten)
                      /\ "BEING_WRITTEN" \in x.flags <=> \E s \in Slots : d.cleaner[s].blk = a
    BY DEF BlockTied
  <2>1. LET x == c.blk[a] IN
          /\ x.key = Nil <=> "FREE" \in x.flags
          /\ x.key = Nil => x.flags = {"FREE"} /\ x.ref = 0
          /\ x.key # Nil => (c.hash[x.key] = a <=> "DELETED" \notin x.flags)
          /\ "DELETED" \in x.flags => x.flags \cap DirtyOrWritten # {}
    BY DEF CacheInv, BlockTied, Is
  <2>2. /\ "FREE" \in d.blk[a].flags <=> "FREE" \in c.blk[a].flags
        /\ "DELETED" \in d.blk[a].flags <=> "DELETED" \in c.blk[a].flags
        /\ d.blk[a].flags \cap DirtyOrWritten = {} <=> c.blk[a].flags \cap DirtyOrWritten = {}
        /\ d.blk[a].key = c.blk[a].key /\ d.blk[a].ref = c.blk[a].ref
        /\ d.hash = c.hash /\ (c.blk[a].key = Nil => d.blk[a].flags = c.blk[a].flags)
    BY SimilarFlags DEF Similar
  <2>3. "BEING_WRITTEN" \in d.blk[a].flags <=> \E s \in Slots : d.cleaner[s].blk = a
    BY DEF CleanersOK
  <2> QED BY <2>1, <2>2, <2>3 DEF Is
<1>2. HashTied(d)
  <2> SUFFICES ASSUME NEW k \in Keys, d.hash[k] # Nil PROVE d.blk[d.hash[k]].key = k
    BY DEF HashTied
  <2>1. d.hash[k] = c.hash[k] /\ c.hash[k] \in Blocks BY CacheFields DEF Similar
  <2> QED BY <2>1 DEF Similar, CacheInv, HashTied
<1>3. /\ \A f \in Files : {b \in Blocks : IsOf(d.blk[b], f)} = {b \in Blocks : IsOf(c.blk[b], f)}
      /\ \A f \in Files : {b \in Blocks : IsDirty(d.blk[b], f)} = {b \in Blocks : IsDirty(c.blk[b], f)}
      /\ \A f \in Files : {b \in Blocks : IsListed(d.blk[b], f)} = {b \in Blocks : IsListed(c.blk[b], f)}
      /\ {b \in Blocks : IsFree(d.blk[b])} = {b \in Blocks : IsFree(c.blk[b])}
  BY SimilarSets
<1>4. /\ Free(d) = Free(c)
      /\ \A f \in Files : Of(d, f) = Of(c, f) /\ DirtyOf(d, f) = DirtyOf(c, f)
  <2>1. Free(d) = Free(c) BY <1>3 DEF Free, IsFree, Is
  <2>2. \A f \in Files : Of(d, f) = Of(c, f) /\ DirtyOf(d, f) = DirtyOf(c, f)
    <3> SUFFICES ASSUME NEW f \in Files PROVE Of(d, f) = Of(c, f) /\ DirtyOf(d, f) = DirtyOf(c, f)
      OBVIOUS
    <3>1. /\ Of(d, f) = {b \in Blocks : IsOf(d.blk[b], f)} /\ Of(c, f) = {b \in Blocks : IsOf(c.blk[b], f)}
          /\ DirtyOf(d, f) = {b \in Blocks : IsDirty(d.blk[b], f)}
          /\ DirtyOf(c, f) = {b \in Blocks : IsDirty(c.blk[b], f)}
      BY SetsAs
    <3>2. /\ {b \in Blocks : IsOf(d.blk[b], f)} = {b \in Blocks : IsOf(c.blk[b], f)}
          /\ {b \in Blocks : IsDirty(d.blk[b], f)} = {b \in Blocks : IsDirty(c.blk[b], f)}
      BY <1>3
    <3> QED BY <3>1, <3>2, Zenon
  <2> QED BY <2>1, <2>2
<1>5. FileTied(d)
  <2> SUFFICES ASSUME NEW f \in Files
               PROVE  /\ d.file[f].dirtyList = {b \in Of(d, f) : Is(d, b, {"DIRTY"}) /\ ~Is(d, b, {"BEING_WRITTEN"})}
                      /\ d.file[f].numDirty > 0 => Listed(d, f)
                      /\ FileIs(d, f, {"BEING_WRITTEN"}) <=> \E s \in Slots : d.cleaner[s].file = f
                      /\ FileIs(d, f, {"BEING_WRITTEN"}) => ~FileIs(d, f, {"ON_DIRTY_LIST"})
    BY DEF FileTied
  <2>1. c.file[f].dirtyList = {b \in Blocks : IsListed(c.blk[b], f)}
    BY SetsAs DEF CacheInv, FileTied
  <2>2. d.file[f].dirtyList = {b \in Blocks : IsListed(d.blk[b], f)} BY <1>3, <2>1 DEF FileSame
  <2>3. d.file[f].dirtyList = {b \in Of(d, f) : Is(d, b, {"DIRTY"}) /\ ~Is(d, b, {"BEING_WRITTEN"})}
    BY <2>2, SetsAs
  <2>4. d.file[f].numDirty > 0 => Listed(d, f)
    <3>1. c.file[f].numDirty > 0 => Listed(c, f) BY DEF CacheInv, FileTied
    <3>2. d.file[f].numDirty = c.file[f].numDirty /\ c.file[f].numDirty \in Int
      BY FileFields DEF FileSame
    <3>3. Listed(c, f) /\ ~Listed(d, f) => d.file[f].numDirty <= 0 BY DEF ListStep
    <3> QED BY <3>1, <3>2, <3>3
  <2>5. /\ FileIs(d, f, {"BEING_WRITTEN"}) <=> \E s \in Slots : d.cleaner[s].file = f
        /\ FileIs(d, f, {"BEING_WRITTEN"}) => ~FileIs(d, f, {"ON_DIRTY_LIST"})
    BY DEF CleanersOK
  <2> QED BY <2>3, <2>4, <2>5
<1>6. Counts(d) BY <1>4 DEF CacheInv, Counts, CleanersOK, FileSame, Similar
<1> QED BY <1>1, <1>2, <1>5, <1>6 DEF CacheInv, CleanersOK

\* A step between similar caches wakes the waiters of files.
LEMMA SimilarHeard ==
    ASSUME NEW c \in CacheT, NEW d \in CacheT, Similar(c, d), c.wake \subseteq d.wake,
           \A f \in Files : Listed(c, f) /\ ~Listed(d, f) => NoDirtyBlocks(f) \in d.wake
    PROVE  Heard(c, d)
<1>1. \A b \in Blocks : Used(d.blk[b]) <=> Used(c.blk[b]) BY SimilarFlags DEF Used
<1>2. ~(c.avail < d.avail) BY CacheFields DEF Similar
<1> QED BY <1>1, <1>2 DEF Heard

\* When one cleaner goes on the cleaners stay in order.
LEMMA CleanersMade ==
    ASSUME NEW c \in CacheT, CacheInv(c), NEW d \in CacheT, NEW s \in Slots, CleanerMoves(c, d, s)
    PROVE  CleanersOK(d)
<1> DEFINE x == c.cleaner[s]
           y == d.cleaner[s]
<1>1. \A t \in Slots \ {s} : d.cleaner[t] = c.cleaner[t] BY DEF CleanerMoves
<1>2. /\ CleanerIs(y)
      /\ y.file # Nil => y.file = x.file \/ "BEING_WRITTEN" \notin c.file[y.file].flags
  BY DEF CleanerMoves
<1>3. /\ \A g \in Files :
              /\ "BEING_WRITTEN" \in d.file[g].flags
                    <=> g = y.file \/ ("BEING_WRITTEN" \in c.file[g].flags /\ g # x.file)
              /\ "BEING_WRITTEN" \in d.file[g].flags => "ON_DIRTY_LIST" \notin d.file[g].flags
  BY DEF CleanerMoves
<1>4. /\ \A b \in Blocks :
              /\ "BEING_WRITTEN" \in d.blk[b].flags
                    <=> b = y.blk \/ ("BEING_WRITTEN" \in c.blk[b].flags /\ b # x.blk)
              /\ "BEING_WRITTEN" \in d.blk[b].flags => d.blk[b].key = c.blk[b].key
      /\ y.blk # Nil => c.blk[y.blk].key # Nil /\ c.blk[y.blk].key[1] = y.file
  BY DEF CleanerMoves
<1>5. d.active = c.active + One(ActivePc(y)) - One(ActivePc(x)) BY DEF CleanerMoves
<1>6. /\ x.file \in Files \cup {Nil} /\ x.blk \in Blocks \cup {Nil}
      /\ y.file \in Files \cup {Nil} /\ y.blk \in Blocks \cup {Nil}
  BY CleanerFields
<1>7. \A t \in Slots : CleanerIs(c.cleaner[t]) BY DEF CacheInv, CleanerTied, CleanerIs
<1>8. \A g \in Files : "BEING_WRITTEN" \in c.file[g].flags <=> \E t \in Slots : c.cleaner[t].file = g
  <2>1. \A g \in Files : FileIs(c, g, {"BEING_WRITTEN"}) <=> \E t \in Slots : c.cleaner[t].file = g
    BY DEF CacheInv, FileTied
  <2> QED BY <2>1 DEF FileIs
<1>9. \A b \in Blocks : "BEING_WRITTEN" \in c.blk[b].flags <=> \E t \in Slots : c.cleaner[t].blk = b
  BY DEF CacheInv, BlockTied
<1>10. \A t, u \in Slots : c.cleaner[t].file = c.cleaner[u].file /\ c.cleaner[t].file # Nil => t = u
  BY DEF CacheInv, OneCleaner
<1>11. \A t \in Slots : c.cleaner[t].blk # Nil =>
         c.cleaner[t].blk \in Blocks /\
         c.blk[c.cleaner[t].blk].key # Nil /\ c.blk[c.cleaner[t].blk].key[1] = c.cleaner[t].file
         /\ c.cleaner[t].file # Nil
  <2> SUFFICES ASSUME NEW t \in Slots, c.cleaner[t].blk # Nil
               PROVE  /\ c.cleaner[t].blk \in Blocks
                      /\ c.blk[c.cleaner[t].blk].key # Nil
                      /\ c.blk[c.cleaner[t].blk].key[1] = c.cleaner[t].file
                      /\ c.cleaner[t].file # Nil
    OBVIOUS
  <2>1. CleanerIs(c.cleaner[t]) BY <1>7
  <2>2. c.cleaner[t].file # Nil BY <2>1, NilApart DEF CleanerIs
  <2>3. c.cleaner[t].blk \in Blocks BY CleanerFields
  <2> QED BY <2>2, <2>3 DEF CacheInv, CleanerBlock
<1>12. \A t \in Slots : c.cleaner[t].blk = x.blk /\ x.blk # Nil => t = s BY <1>10, <1>11
<1> HIDE DEF x, y
<1>13. CleanerTied(d)
  <2>1. \A t \in Slots : CleanerIs(d.cleaner[t]) BY <1>1, <1>2, <1>7 DEF y
  <2> QED BY <2>1 DEF CleanerTied, CleanerIs
<1>14. OneCleaner(d)
  <2> SUFFICES ASSUME NEW t \in Slots, NEW u \in Slots,
                      d.cleaner[t].file = d.cleaner[u].file, d.cleaner[t].file # Nil
               PROVE  t = u
    BY DEF OneCleaner
  <2>1. ASSUME NEW v \in Slots \ {s}, c.cleaner[v].file = y.file, y.file # Nil PROVE FALSE
    <3>1. y.file \in Files BY <1>6, <2>1
    <3>2. "BEING_WRITTEN" \in c.file[y.file].flags BY <1>8, <2>1, <3>1
    <3>3. y.file = x.file BY <1>2, <2>1, <3>2
    <3> QED BY <1>10, <2>1, <3>3 DEF x
  <2>2. CASE t = s /\ u # s BY <1>1, <2>1, <2>2 DEF y
  <2>3. CASE u = s /\ t # s BY <1>1, <2>1, <2>3 DEF y
  <2>4. CASE t # s /\ u # s BY <1>1, <1>10, <2>4
  <2> QED BY <2>2, <2>3, <2>4
<1>15. CleanerBlock(d)
  <2> SUFFICES ASSUME NEW t \in Slots, d.cleaner[t].blk # Nil
               PROVE  d.blk[d.cleaner[t].blk].key # Nil /\ d.blk[d.cleaner[t].blk].key[1] = d.cleaner[t].file
    BY DEF CleanerBlock
  <2>1. CASE t = s
    <3>1. y.blk \in Blocks /\ y.blk # Nil /\ y = d.cleaner[t] BY <1>6, <2>1 DEF y
    <3> QED BY <1>4, <3>1
  <2>2. CASE t # s
    <3>1. d.cleaner[t] = c.cleaner[t] /\ c.cleaner[t].blk \in Blocks BY <1>1, <1>11, <2>2
    <3>2. "BEING_WRITTEN" \in c.blk[c.cleaner[t].blk].flags /\ c.cleaner[t].blk # x.blk
      BY <1>9, <1>12, <2>2, <3>1, NilApart
    <3>3. d.blk[c.cleaner[t].blk].key = c.blk[c.cleaner[t].blk].key BY <1>4, <3>1, <3>2
    <3> QED BY <1>11, <3>1, <3>3
  <2> QED BY <2>1, <2>2
<1>16. \A b \in Blocks : "BEING_WRITTEN" \in d.blk[b].flags <=> \E t \in Slots : d.cleaner[t].blk = b
  <2> SUFFICES ASSUME NEW b \in Blocks
               PROVE  "BEING_WRITTEN" \in d.blk[b].flags <=> \E t \in Slots : d.cleaner[t].blk = b
    OBVIOUS
  <2>1. (\E t \in Slots : d.cleaner[t].blk = b) <=> b = y.blk \/ \E t \in Slots \ {s} : c.cleaner[t].blk = b
    BY <1>1 DEF y
  <2>2. (\E t \in Slots \ {s} : c.cleaner[t].blk = b) <=> "BEING_WRITTEN" \in c.blk[b].flags /\ b # x.blk
    BY <1>9, <1>12, NilApart DEF x
  <2> QED BY <1>4, <2>1, <2>2
<1>17. \A f \in Files : /\ FileIs(d, f, {"BEING_WRITTEN"}) <=> \E t \in Slots : d.cleaner[t].file = f
                        /\ FileIs(d, f, {"BEING_WRITTEN"}) => ~FileIs(d, f, {"ON_DIRTY_LIST"})
  <2> SUFFICES ASSUME NEW f \in Files
               PROVE  /\ FileIs(d, f, {"BEING_WRITTEN"}) <=> \E t \in Slots : d.cleaner[t].file = f
                      /\ FileIs(d, f, {"BEING_WRITTEN"}) => ~FileIs(d, f, {"ON_DIRTY_LIST"})
    OBVIOUS
  <2>1. (\E t \in Slots : d.cleaner[t].file = f) <=> f = y.file \/ \E t \in Slots \ {s} : c.cleaner[t].file = f
    BY <1>1 DEF y
  <2>2. (\E t \in Slots \ {s} : c.cleaner[t].file = f) <=> "BEING_WRITTEN" \in c.file[f].flags /\ f # x.file
    BY <1>8, <1>10, NilApart DEF x
  <2> QED BY <1>3, <2>1, <2>2 DEF FileIs
<1>18. d.active = Cardinality(ActiveOf(d))
  <2>1. ActiveOf(d) \ {s} = ActiveOf(c) \ {s} BY <1>1 DEF ActiveOf
  <2>2. IsFiniteSet(ActiveOf(c)) BY Finite, FS_Subset DEF ActiveOf
  <2>3. (s \in ActiveOf(d) <=> ActivePc(y)) /\ (s \in ActiveOf(c) <=> ActivePc(x))
    BY DEF ActiveOf, ActivePc, x, y
  <2>4. /\ Cardinality(ActiveOf(d)) = Cardinality(ActiveOf(c)) + (IF s \in ActiveOf(d) THEN 1 ELSE 0)
                                         - (IF s \in ActiveOf(c) THEN 1 ELSE 0)
    BY <2>1, <2>2, CardOne
  <2>5. c.active = Cardinality(ActiveOf(c)) BY DEF CacheInv, Counts
  <2> QED BY <1>5, <2>3, <2>4, <2>5 DEF One
<1> QED BY <1>13, <1>14, <1>15, <1>16, <1>17, <1>18 DEF CleanersOK

\* What setting a cleaner changes.
LEMMA SetCleanerFacts ==
    ASSUME NEW c \in CacheT, NEW s \in Slots, NEW x \in CleanerT
    PROVE  /\ SetCleaner(c, s, x) \in CacheT /\ SetCleaner(c, s, x).cleaner[s] = x
           /\ \A t \in Slots \ {s} : SetCleaner(c, s, x).cleaner[t] = c.cleaner[t]
           /\ SetCleaner(c, s, x).blk = c.blk /\ SetCleaner(c, s, x).hash = c.hash
           /\ SetCleaner(c, s, x).file = c.file /\ SetCleaner(c, s, x).avail = c.avail
           /\ SetCleaner(c, s, x).active = c.active /\ SetCleaner(c, s, x).wake = c.wake
<1> DEFINE d == SetCleaner(c, s, x)
<1>1. /\ d = [blk |-> c.blk, hash |-> c.hash, file |-> c.file, avail |-> c.avail,
              active |-> c.active, cleaner |-> [c.cleaner EXCEPT ![s] = x], wake |-> c.wake]
  BY CacheFields DEF SetCleaner
<1>2. [c.cleaner EXCEPT ![s] = x] \in [Slots -> CleanerT] BY CacheFields
<1> HIDE DEF d
<1>3. d \in CacheT BY <1>1, <1>2, CacheFields, CacheMade
<1>4. d.cleaner[s] = x /\ \A t \in Slots \ {s} : d.cleaner[t] = c.cleaner[t]
  BY <1>1, CacheFields
<1>5. d.blk = c.blk /\ d.hash = c.hash /\ d.file = c.file /\ d.avail = c.avail
      /\ d.active = c.active /\ d.wake = c.wake
  BY <1>1
<1> QED BY <1>3, <1>4, <1>5 DEF d

\* Setting all blocks, field by field.
LEMMA SetBlkIs ==
    ASSUME NEW c \in CacheT, NEW g
    PROVE  [c EXCEPT !.blk = g] =
             [blk |-> g, hash |-> c.hash, file |-> c.file, avail |-> c.avail,
              active |-> c.active, cleaner |-> c.cleaner, wake |-> c.wake]
BY CacheFields

\* What marking blocks for the cleaner changes.
LEMMA MarkedStep ==
    ASSUME NEW c \in CacheT, NEW M
    PROVE  MarkedDone(c, Marked(c, M), M)
<1> DEFINE d == Marked(c, M)
           x(b) == [c.blk[b] EXCEPT !.flags = @ \cup {"CLEANER_WAITING"}]
           g == [b \in Blocks |-> IF b \in M THEN x(b) ELSE c.blk[b]]
<1>1. /\ d = [blk |-> g, hash |-> c.hash, file |-> c.file, avail |-> c.avail,
              active |-> c.active, cleaner |-> c.cleaner, wake |-> c.wake]
  <2>1. d = [c EXCEPT !.blk = g] BY DEF Marked
  <2> HIDE DEF d, g
  <2> QED BY <2>1, SetBlkIs
<1>2. \A b \in Blocks : /\ x(b) \in BlockT /\ x(b).key = c.blk[b].key /\ x(b).ref = c.blk[b].ref
                        /\ x(b).flags = c.blk[b].flags \cup {"CLEANER_WAITING"}
  BY BlockFields DEF BlockT, BlockFlags
<1> HIDE DEF d, x
<1>3. g \in [Blocks -> BlockT] BY <1>2, BlockFields
<1>4. d.blk = g /\ d.hash = c.hash /\ d.file = c.file /\ d.avail = c.avail
      /\ d.active = c.active /\ d.cleaner = c.cleaner /\ d.wake = c.wake
  BY <1>1
<1>5. \A b \in Blocks :
          /\ d.blk[b].key = c.blk[b].key /\ d.blk[b].ref = c.blk[b].ref
          /\ d.blk[b].flags = c.blk[b].flags \cup (IF b \in M THEN {"CLEANER_WAITING"} ELSE {})
  BY <1>2, <1>4
<1> HIDE DEF g
<1>6. d \in CacheT BY <1>1, <1>3, CacheFields, CacheMade
<1> QED BY <1>4, <1>5, <1>6 DEF d, MarkedDone

\* What two steps leave to the holders, both together leave.
LEMMA HoldsTrans ==
    ASSUME NEW c \in CacheT, NEW d \in CacheT, NEW e \in CacheT, Holds(c, d), Holds(d, e)
    PROVE  Holds(c, e)
<1> SUFFICES ASSUME NEW b \in Blocks
             PROVE  /\ Own(e.blk[b]) = Own(c.blk[b])
                    /\ "IO_IN_PROGRESS" \in e.blk[b].flags =>
                          "IO_IN_PROGRESS" \in c.blk[b].flags
                          /\ ("BEING_WRITTEN" \in e.blk[b].flags => "BEING_WRITTEN" \in c.blk[b].flags)
                    /\ Own(c.blk[b]) # 0 =>
                          /\ e.blk[b].key = c.blk[b].key
                          /\ \A k \in Keys : c.hash[k] = b => e.hash[k] = b
                          /\ c.blk[b].flags = {"IO_IN_PROGRESS"} => e.blk[b].flags = {"IO_IN_PROGRESS"}
                          /\ "IO_IN_PROGRESS" \in c.blk[b].flags => "IO_IN_PROGRESS" \in e.blk[b].flags
  BY DEF Holds
<1>1. /\ Own(d.blk[b]) = Own(c.blk[b])
      /\ "IO_IN_PROGRESS" \in d.blk[b].flags =>
          "IO_IN_PROGRESS" \in c.blk[b].flags
          /\ ("BEING_WRITTEN" \in d.blk[b].flags => "BEING_WRITTEN" \in c.blk[b].flags)
      /\ Own(c.blk[b]) # 0 =>
          /\ d.blk[b].key = c.blk[b].key
          /\ \A k \in Keys : c.hash[k] = b => d.hash[k] = b
          /\ c.blk[b].flags = {"IO_IN_PROGRESS"} => d.blk[b].flags = {"IO_IN_PROGRESS"}
          /\ "IO_IN_PROGRESS" \in c.blk[b].flags => "IO_IN_PROGRESS" \in d.blk[b].flags
  BY DEF Holds
<1>2. /\ Own(e.blk[b]) = Own(d.blk[b])
      /\ "IO_IN_PROGRESS" \in e.blk[b].flags =>
          "IO_IN_PROGRESS" \in d.blk[b].flags
          /\ ("BEING_WRITTEN" \in e.blk[b].flags => "BEING_WRITTEN" \in d.blk[b].flags)
      /\ Own(d.blk[b]) # 0 =>
          /\ e.blk[b].key = d.blk[b].key
          /\ \A k \in Keys : d.hash[k] = b => e.hash[k] = b
          /\ d.blk[b].flags = {"IO_IN_PROGRESS"} => e.blk[b].flags = {"IO_IN_PROGRESS"}
          /\ "IO_IN_PROGRESS" \in d.blk[b].flags => "IO_IN_PROGRESS" \in e.blk[b].flags
  BY DEF Holds
<1> QED BY <1>1, <1>2

\* A step that keeps the references keeps what is held.
LEMMA SimilarHolds ==
    ASSUME NEW c \in CacheT, NEW d \in CacheT, Similar(c, d),
           \A b \in Blocks : c.blk[b].flags = {"IO_IN_PROGRESS"} => d.blk[b].flags = {"IO_IN_PROGRESS"}
    PROVE  Holds(c, d)
<1> SUFFICES ASSUME NEW b \in Blocks
             PROVE  /\ Own(d.blk[b]) = Own(c.blk[b])
                    /\ "IO_IN_PROGRESS" \in d.blk[b].flags =>
                          "IO_IN_PROGRESS" \in c.blk[b].flags
                          /\ ("BEING_WRITTEN" \in d.blk[b].flags => "BEING_WRITTEN" \in c.blk[b].flags)
                    /\ Own(c.blk[b]) # 0 =>
                          /\ d.blk[b].key = c.blk[b].key
                          /\ \A k \in Keys : c.hash[k] = b => d.hash[k] = b
                          /\ c.blk[b].flags = {"IO_IN_PROGRESS"} => d.blk[b].flags = {"IO_IN_PROGRESS"}
                          /\ "IO_IN_PROGRESS" \in c.blk[b].flags => "IO_IN_PROGRESS" \in d.blk[b].flags
  BY DEF Holds
<1>1. d.hash = c.hash BY DEF Similar
<1>2. /\ "BEING_WRITTEN" \in d.blk[b].flags <=> "BEING_WRITTEN" \in c.blk[b].flags
      /\ "IO_IN_PROGRESS" \in d.blk[b].flags <=> "IO_IN_PROGRESS" \in c.blk[b].flags
      /\ d.blk[b].key = c.blk[b].key /\ d.blk[b].ref = c.blk[b].ref
  BY SimilarFlags
<1>3. Own(d.blk[b]) = Own(c.blk[b]) BY <1>2 DEF Own, One
<1> QED BY <1>1, <1>2, <1>3

\* Two steps of a cleaner.
LEMMA CleanTrans ==
    ASSUME NEW c \in CacheT, NEW d, NEW e, CleanDone(c, d), CleanDone(d, e)
    PROVE  CleanDone(c, e)
<1>1. d \in CacheT /\ e \in CacheT BY DEF CleanDone
<1>2. Heard(c, e) BY <1>1, HeardTrans DEF CleanDone
<1>3. Holds(c, e) BY <1>1, HoldsTrans DEF CleanDone
<1>4. Keeps(c, e, Usage) BY KeepsTrans DEF CleanDone
<1>5. CloseHeard(c, e)
  <2> SUFFICES ASSUME NEW f \in Files, "CLOSE_IN_PROGRESS" \in c.file[f].flags,
                      "BEING_WRITTEN" \in c.file[f].flags, "BEING_WRITTEN" \notin e.file[f].flags
               PROVE  CloseCondition \in e.wake
    BY DEF CloseHeard
  <2>1. "CLOSE_IN_PROGRESS" \in d.file[f].flags BY DEF CleanDone, Keeps, Usage
  <2>2. d.wake \subseteq e.wake BY DEF CleanDone, Heard
  <2>3. CASE "BEING_WRITTEN" \in d.file[f].flags BY <2>1, <2>3 DEF CleanDone, CloseHeard
  <2>4. CASE "BEING_WRITTEN" \notin d.file[f].flags BY <2>2, <2>4 DEF CleanDone, CloseHeard
  <2> QED BY <2>3, <2>4
<1> QED BY <1>1, <1>2, <1>3, <1>4, <1>5 DEF CleanDone

\* A quiet step is one a cleaner may make.
LEMMA QuietClean ==
    ASSUME NEW c \in CacheT, CacheInv(c), NEW d, Quiet(c, d), Keeps(c, d, Usage)
    PROVE  CleanDone(c, d)
<1>1. d \in CacheT /\ d.blk = c.blk /\ Same(c, d) BY DEF Quiet, Same
<1>2. CacheInv(d) /\ Heard(c, d) BY QuietInv, QuietHeard
<1>3. Holds(c, d) BY <1>1, SameIsSimilar, SimilarHolds
<1>4. CloseHeard(c, d)
  <2>1. \A f \in Files : "BEING_WRITTEN" \in d.file[f].flags <=> "BEING_WRITTEN" \in c.file[f].flags
    BY DEF Quiet, Lists, FileIs
  <2> QED BY <2>1 DEF CloseHeard
<1> QED BY <1>1, <1>2, <1>3, <1>4 DEF CleanDone

\* A step of cleaner s that leaves the blocks as they are.
LEMMA SimilarClean ==
    ASSUME NEW c \in CacheT, CacheInv(c), NEW d \in CacheT, Similar(c, d),
           \A b \in Blocks : c.blk[b].flags = {"IO_IN_PROGRESS"} => d.blk[b].flags = {"IO_IN_PROGRESS"},
           \A f \in Files : FileSame(c, d, f), ListStep(c, d), CleanersOK(d),
           c.wake \subseteq d.wake,
           \A f \in Files : Listed(c, f) /\ ~Listed(d, f) => NoDirtyBlocks(f) \in d.wake,
           CloseHeard(c, d), Keeps(c, d, Usage)
    PROVE  CleanDone(c, d)
<1>1. CacheInv(d) BY SimilarInv
<1>2. Heard(c, d) BY SimilarHeard
<1>3. Holds(c, d) BY SimilarHolds
<1> QED BY <1>1, <1>2, <1>3 DEF CleanDone

\* A cleaner may mark blocks it waits for.
LEMMA MarkStep ==
    ASSUME NEW c \in CacheT, CacheInv(c), NEW f \in Files, NEW M \in SUBSET c.file[f].dirtyList
    PROVE  CleanDone(c, Marked(c, M)) /\ Similar(c, Marked(c, M)) /\ MarkedDone(c, Marked(c, M), M)
<1> DEFINE d == Marked(c, M)
<1>1. MarkedDone(c, d, M) BY MarkedStep
<1> HIDE DEF d
<1>2. /\ d \in CacheT /\ d.hash = c.hash /\ d.file = c.file /\ d.avail = c.avail
      /\ d.active = c.active /\ d.cleaner = c.cleaner /\ d.wake = c.wake
      /\ \A b \in Blocks :
            /\ d.blk[b].key = c.blk[b].key /\ d.blk[b].ref = c.blk[b].ref
            /\ d.blk[b].flags = c.blk[b].flags \cup (IF b \in M THEN {"CLEANER_WAITING"} ELSE {})
  BY <1>1 DEF MarkedDone
<1>3. \A b \in M : b \in Blocks /\ c.blk[b].key # Nil /\ "DIRTY" \in c.blk[b].flags
  <2>1. c.file[f].dirtyList = {b \in Blocks : IsListed(c.blk[b], f)}
    BY SetsAs DEF CacheInv, FileTied
  <2> QED BY <2>1 DEF IsListed, IsOf
<1>4. \A b \in Blocks :
        /\ d.blk[b].flags \cap {"FREE", "DIRTY", "BEING_WRITTEN", "DELETED", "IO_IN_PROGRESS"}
             = c.blk[b].flags \cap {"FREE", "DIRTY", "BEING_WRITTEN", "DELETED", "IO_IN_PROGRESS"}
        /\ c.blk[b].key = Nil => d.blk[b].flags = c.blk[b].flags
        /\ c.blk[b].flags = {"IO_IN_PROGRESS"} => d.blk[b].flags = {"IO_IN_PROGRESS"}
  <2> SUFFICES ASSUME NEW b \in Blocks
               PROVE  /\ d.blk[b].flags \cap {"FREE", "DIRTY", "BEING_WRITTEN", "DELETED", "IO_IN_PROGRESS"}
                           = c.blk[b].flags \cap {"FREE", "DIRTY", "BEING_WRITTEN", "DELETED", "IO_IN_PROGRESS"}
                      /\ c.blk[b].key = Nil => d.blk[b].flags = c.blk[b].flags
                      /\ c.blk[b].flags = {"IO_IN_PROGRESS"} => d.blk[b].flags = {"IO_IN_PROGRESS"}
    OBVIOUS
  <2>1. CASE b \in M
    <3>1. d.blk[b].flags = c.blk[b].flags \cup {"CLEANER_WAITING"} BY <1>2, <2>1
    <3> QED BY <1>3, <2>1, <3>1
  <2>2. CASE b \notin M
    <3>1. d.blk[b].flags = c.blk[b].flags BY <1>2, <2>2
    <3> QED BY <3>1
  <2> QED BY <2>1, <2>2
<1>5. Similar(c, d) BY <1>2, <1>4 DEF Similar
<1>6. CleanersOK(d)
  <2>1. Starts(c, d) BY <1>2, SameStarts
  <2>2. \A b \in Blocks : "BEING_WRITTEN" \in d.blk[b].flags <=> "BEING_WRITTEN" \in c.blk[b].flags
    BY <1>5, SimilarFlags
  <2>3. \A b \in Blocks : "BEING_WRITTEN" \in c.blk[b].flags => d.blk[b].key = c.blk[b].key
    BY <1>2
  <2>4. \A g \in Files : /\ FileIs(d, g, {"BEING_WRITTEN"}) <=> FileIs(c, g, {"BEING_WRITTEN"})
                         /\ FileIs(c, g, {"BEING_WRITTEN"}) /\ FileIs(d, g, {"ON_DIRTY_LIST"})
                                  => FileIs(c, g, {"ON_DIRTY_LIST"})
    BY <1>2 DEF FileIs
  <2> QED BY <1>2, <2>1, <2>2, <2>3, <2>4, StartsOK
<1>7. \A g \in Files : FileSame(c, d, g) BY <1>2 DEF FileSame
<1>8. ListStep(c, d)
  <2> SUFFICES ASSUME NEW g \in Files
               PROVE  /\ Listed(c, g) /\ ~Listed(d, g) => d.file[g].numDirty <= 0
                      /\ d.file[g].numDirty > c.file[g].numDirty => Listed(d, g)
    BY DEF ListStep
  <2>1. c.file[g].numDirty \in Int /\ d.file[g] = c.file[g] BY <1>2, FileFields
  <2>2. ~(d.file[g].numDirty > c.file[g].numDirty) BY <2>1
  <2>3. Listed(c, g) <=> Listed(d, g) BY <2>1 DEF Listed, FileIs
  <2> QED BY <2>2, <2>3
<1>9. /\ c.wake \subseteq d.wake
      /\ \A g \in Files : Listed(c, g) /\ ~Listed(d, g) => NoDirtyBlocks(g) \in d.wake
      /\ CloseHeard(c, d) /\ Keeps(c, d, Usage)
  BY <1>2 DEF Listed, FileIs, CloseHeard, Keeps
<1>10. CleanDone(c, d) BY <1>2, <1>4, <1>5, <1>6, <1>7, <1>8, <1>9, SimilarClean
<1> QED BY <1>1, <1>5, <1>10 DEF d

\* The flags of the file it leaves or takes may change.
LEMMA StayMade ==
    ASSUME NEW c \in CacheT, CacheInv(c), NEW d \in CacheT, NEW s \in Slots, NEW y \in CleanerT,
           d.blk = c.blk, d.hash = c.hash, d.avail = c.avail, c.wake \subseteq d.wake,
           \A f \in Files : FileSame(c, d, f),
           d.cleaner[s] = y, \A t \in Slots \ {s} : d.cleaner[t] = c.cleaner[t],
           d.active = c.active + One(ActivePc(y)) - One(ActivePc(c.cleaner[s])),
           CleanerIs(y), y.blk = c.cleaner[s].blk, y.blk # Nil => y.file = c.cleaner[s].file,
           y.file # Nil => y.file = c.cleaner[s].file \/ "BEING_WRITTEN" \notin c.file[y.file].flags,
           \A g \in Files :
              /\ "BEING_WRITTEN" \in d.file[g].flags
                    <=> g = y.file \/ ("BEING_WRITTEN" \in c.file[g].flags /\ g # c.cleaner[s].file)
              /\ "BEING_WRITTEN" \in d.file[g].flags => "ON_DIRTY_LIST" \notin d.file[g].flags
              /\ Listed(c, g) /\ ~Listed(d, g) => d.file[g].numDirty <= 0 /\ NoDirtyBlocks(g) \in d.wake,
           CloseHeard(c, d), Keeps(c, d, Usage)
    PROVE  StayDone(c, d, s, y)
<1>1. Similar(c, d) BY DEF Similar
<1>2. CleanerMoves(c, d, s)
  <2>1. c.cleaner[s].blk # Nil =>
          /\ c.cleaner[s].blk \in Blocks
          /\ c.blk[c.cleaner[s].blk].key # Nil /\ c.blk[c.cleaner[s].blk].key[1] = c.cleaner[s].file
    BY CleanerFields DEF CacheInv, CleanerBlock
  <2>2. \A b \in Blocks : b = c.cleaner[s].blk => "BEING_WRITTEN" \in c.blk[b].flags
    BY DEF CacheInv, BlockTied
  <2>3. /\ \A b \in Blocks :
              /\ "BEING_WRITTEN" \in d.blk[b].flags
                    <=> b = y.blk \/ ("BEING_WRITTEN" \in c.blk[b].flags /\ b # c.cleaner[s].blk)
              /\ "BEING_WRITTEN" \in d.blk[b].flags => d.blk[b].key = c.blk[b].key
    BY <2>2
  <2>4. y.blk # Nil => c.blk[y.blk].key # Nil /\ c.blk[y.blk].key[1] = y.file BY <2>1
  <2> QED BY <2>3, <2>4 DEF CleanerMoves
<1>3. CleanersOK(d) BY <1>2, CleanersMade
<1>4. ListStep(c, d)
  <2> SUFFICES ASSUME NEW g \in Files
               PROVE  /\ Listed(c, g) /\ ~Listed(d, g) => d.file[g].numDirty <= 0
                      /\ d.file[g].numDirty > c.file[g].numDirty => Listed(d, g)
    BY DEF ListStep
  <2>1. c.file[g].numDirty \in Int /\ d.file[g].numDirty = c.file[g].numDirty
    BY FileFields DEF FileSame
  <2>2. ~(d.file[g].numDirty > c.file[g].numDirty) BY <2>1
  <2> QED BY <2>2
<1>5. CleanDone(c, d) BY <1>1, <1>3, <1>4, SimilarClean
<1> QED BY <1>1, <1>5 DEF StayDone

\* The cleaner goes on with its file and block, or has none.
LEMMA GoesOn ==
    ASSUME NEW c \in CacheT, CacheInv(c), NEW s \in Slots, NEW y \in CleanerT, CleanerIs(y),
           y.blk = c.cleaner[s].blk, y.file = c.cleaner[s].file,
           ActivePc(y) <=> ActivePc(c.cleaner[s])
    PROVE  StayDone(c, SetCleaner(c, s, y), s, y)
<1> DEFINE d == SetCleaner(c, s, y)
<1>1. /\ d \in CacheT /\ d.cleaner[s] = y
      /\ \A t \in Slots \ {s} : d.cleaner[t] = c.cleaner[t]
      /\ d.blk = c.blk /\ d.hash = c.hash
      /\ d.file = c.file /\ d.avail = c.avail
      /\ d.active = c.active /\ d.wake = c.wake
  BY SetCleanerFacts
<1> HIDE DEF d
<1>2. d.active = c.active + One(ActivePc(y)) - One(ActivePc(c.cleaner[s]))
  <2>1. c.active \in Int BY CacheFields
  <2> QED BY <1>1, <2>1 DEF One
<1>3. \A g \in Files : "BEING_WRITTEN" \in c.file[g].flags <=> \E t \in Slots : c.cleaner[t].file = g
  BY DEF CacheInv, FileTied, FileIs
<1>4. \A g \in Files : "BEING_WRITTEN" \in c.file[g].flags => "ON_DIRTY_LIST" \notin c.file[g].flags
  BY FileFacts
<1>5. /\ \A g \in Files :
              /\ "BEING_WRITTEN" \in d.file[g].flags
                    <=> g = y.file \/ ("BEING_WRITTEN" \in c.file[g].flags /\ g # c.cleaner[s].file)
              /\ "BEING_WRITTEN" \in d.file[g].flags => "ON_DIRTY_LIST" \notin d.file[g].flags
              /\ Listed(c, g) /\ ~Listed(d, g) => d.file[g].numDirty <= 0 /\ NoDirtyBlocks(g) \in d.wake
      /\ CloseHeard(c, d) /\ Keeps(c, d, Usage)
  BY <1>1, <1>3, <1>4 DEF Listed, FileIs, CloseHeard, Keeps
<1>6. \A f \in Files : FileSame(c, d, f) BY <1>1 DEF FileSame
<1>7. StayDone(c, d, s, y) BY <1>1, <1>2, <1>5, <1>6, StayMade
<1> QED BY <1>7 DEF d

\* A cleaner with nothing to do exits.
LEMMA GoesIdle ==
    ASSUME NEW c \in CacheT, CacheInv(c), NEW s \in Slots, c.cleaner[s].pc = "backendIdle"
    PROVE  LET y == [NoCleaner EXCEPT !.pc = "exit"] IN
           StayDone(c, SetCleaner([c EXCEPT !.active = @ - 1], s, y), s, y)
<1> DEFINE e == [c EXCEPT !.active = @ - 1]
           y == [NoCleaner EXCEPT !.pc = "exit"]
           d == SetCleaner(e, s, y)
<1>1. /\ e = [blk |-> c.blk, hash |-> c.hash, file |-> c.file, avail |-> c.avail,
              active |-> c.active - 1, cleaner |-> c.cleaner, wake |-> c.wake]
  BY CacheFields
<1> HIDE DEF e
<1>2. e \in CacheT BY <1>1, CacheFields, CacheMade
<1>3. /\ y \in CleanerT /\ y.pc = "exit" /\ y.file = Nil /\ y.blk = Nil /\ y.status = "ok"
  BY DEF NoCleaner, CleanerT, CleanerPcs
<1> HIDE DEF y
<1>4. /\ d \in CacheT /\ d.cleaner[s] = y
      /\ \A t \in Slots \ {s} : d.cleaner[t] = c.cleaner[t]
      /\ d.blk = c.blk /\ d.hash = c.hash
      /\ d.file = c.file /\ d.avail = c.avail
      /\ d.active = c.active - 1 /\ d.wake = c.wake
  <2>1. e.blk = c.blk /\ e.hash = c.hash /\ e.file = c.file /\ e.avail = c.avail
        /\ e.active = c.active - 1 /\ e.cleaner = c.cleaner /\ e.wake = c.wake
    BY <1>1
  <2> QED BY <1>2, <1>3, <2>1, SetCleanerFacts
<1> HIDE DEF d
<1>5. c.cleaner[s].file = Nil /\ c.cleaner[s].blk = Nil BY DEF CacheInv, CleanerTied
<1>6. d.active = c.active + One(ActivePc(y)) - One(ActivePc(c.cleaner[s]))
  <2>1. c.active \in Int BY CacheFields
  <2>2. ~ActivePc(y) /\ ActivePc(c.cleaner[s]) BY <1>3 DEF ActivePc
  <2>3. One(ActivePc(y)) = 0 /\ One(ActivePc(c.cleaner[s])) = 1 BY <2>2 DEF One
  <2> QED BY <1>4, <2>1, <2>3
<1>7. CleanerIs(y) BY <1>3 DEF CleanerIs
<1>8. \A g \in Files : "BEING_WRITTEN" \in c.file[g].flags => "ON_DIRTY_LIST" \notin c.file[g].flags
  BY FileFacts
<1>9. /\ \A g \in Files :
              /\ "BEING_WRITTEN" \in d.file[g].flags
                    <=> g = y.file \/ ("BEING_WRITTEN" \in c.file[g].flags /\ g # c.cleaner[s].file)
              /\ "BEING_WRITTEN" \in d.file[g].flags => "ON_DIRTY_LIST" \notin d.file[g].flags
              /\ Listed(c, g) /\ ~Listed(d, g) => d.file[g].numDirty <= 0 /\ NoDirtyBlocks(g) \in d.wake
      /\ CloseHeard(c, d) /\ Keeps(c, d, Usage)
  <2>1. \A g \in Files : g # Nil BY NilApart
  <2> QED BY <1>3, <1>4, <1>5, <1>8, <2>1 DEF Listed, FileIs, CloseHeard, Keeps
<1>10. \A f \in Files : FileSame(c, d, f) BY <1>4 DEF FileSame
<1>11. StayDone(c, d, s, y) BY <1>3, <1>4, <1>5, <1>6, <1>7, <1>9, <1>10, StayMade
<1> QED BY <1>11 DEF d, e, y

\* A cleaner takes a dirty file.
LEMMA TakesFile ==
    ASSUME NEW c \in CacheT, CacheInv(c), NEW s \in Slots, c.cleaner[s].pc = "getFile",
           NEW f \in Files, "ON_DIRTY_LIST" \in c.file[f].flags, NEW y \in CleanerT,
           y = [c.cleaner[s] EXCEPT !.pc = "getBlock", !.file = f]
    PROVE  StayDone(c, SetCleaner(Taken(c, f), s, y), s, y)
<1> DEFINE F == (c.file[f].flags \cup {"BEING_WRITTEN"}) \ {"ON_DIRTY_LIST"}
           e == Taken(c, f)
           d == SetCleaner(e, s, y)
<1>1. F \in SUBSET FileFlags BY FileFields DEF FileFlags
<1>2. /\ e \in CacheT /\ \A g \in Files \ {f} : e.file[g] = c.file[g]
      /\ e.file[f].flags = F
      /\ e.file[f].numDirty = c.file[f].numDirty /\ e.file[f].inCache = c.file[f].inCache /\ e.file[f].dirtyList = c.file[f].dirtyList
      /\ e.blk = c.blk /\ e.hash = c.hash /\ e.avail = c.avail
      /\ e.active = c.active /\ e.cleaner = c.cleaner /\ e.wake = c.wake
  BY <1>1, SetFileFlagsFacts DEF Taken
<1> HIDE DEF e, F
<1>3. /\ c.cleaner[s].file = Nil /\ c.cleaner[s].blk = Nil /\ c.cleaner[s].status = "ok"
  BY DEF CacheInv, CleanerTied
<1>4. y.pc = "getBlock" /\ y.file = f /\ y.blk = Nil /\ y.status = "ok"
  BY <1>3, CleanerFields DEF CleanerT
<1>5. /\ d \in CacheT /\ d.cleaner[s] = y
      /\ \A t \in Slots \ {s} : d.cleaner[t] = c.cleaner[t]
      /\ d.blk = c.blk /\ d.hash = c.hash /\ d.file = e.file /\ d.avail = c.avail
      /\ d.active = c.active /\ d.wake = c.wake
  BY <1>2, SetCleanerFacts
<1> HIDE DEF d
<1>6. d.active = c.active + One(ActivePc(y)) - One(ActivePc(c.cleaner[s]))
  <2>1. c.active \in Int BY CacheFields
  <2>2. ActivePc(y) /\ ActivePc(c.cleaner[s]) BY <1>4 DEF ActivePc
  <2> QED BY <1>5, <2>1, <2>2 DEF One
<1>7. CleanerIs(y) BY <1>4 DEF CleanerIs
<1>8. \A g \in Files : "BEING_WRITTEN" \in c.file[g].flags => "ON_DIRTY_LIST" \notin c.file[g].flags
  BY FileFacts
<1>9. "BEING_WRITTEN" \in F /\ "ON_DIRTY_LIST" \notin F /\ "BEING_WRITTEN" \notin c.file[f].flags
      /\ F \cap Usage = c.file[f].flags \cap Usage
  BY <1>8 DEF F, Usage
<1>10. /\ \A g \in Files :
              /\ "BEING_WRITTEN" \in d.file[g].flags
                    <=> g = y.file \/ ("BEING_WRITTEN" \in c.file[g].flags /\ g # c.cleaner[s].file)
              /\ "BEING_WRITTEN" \in d.file[g].flags => "ON_DIRTY_LIST" \notin d.file[g].flags
              /\ Listed(c, g) /\ ~Listed(d, g) => d.file[g].numDirty <= 0 /\ NoDirtyBlocks(g) \in d.wake
  <2> SUFFICES ASSUME NEW g \in Files
               PROVE  /\ "BEING_WRITTEN" \in d.file[g].flags
                            <=> g = y.file \/ ("BEING_WRITTEN" \in c.file[g].flags /\ g # c.cleaner[s].file)
                      /\ "BEING_WRITTEN" \in d.file[g].flags => "ON_DIRTY_LIST" \notin d.file[g].flags
                      /\ Listed(c, g) /\ ~Listed(d, g) => d.file[g].numDirty <= 0 /\ NoDirtyBlocks(g) \in d.wake
    OBVIOUS
  <2>1. g # Nil BY NilApart
  <2>2. CASE g = f
    <3>1. d.file[g].flags = F BY <1>2, <1>5, <2>2
    <3> QED BY <1>4, <1>9, <2>2, <3>1 DEF Listed, FileIs
  <2>3. CASE g # f
    <3>1. d.file[g] = c.file[g] BY <1>2, <1>5, <2>3
    <3> QED BY <1>3, <1>4, <1>8, <2>1, <2>3, <3>1 DEF Listed, FileIs
  <2> QED BY <2>2, <2>3
<1>11. CloseHeard(c, d) /\ Keeps(c, d, Usage)
  <2>1. \A g \in Files : g = f \/ d.file[g] = c.file[g] BY <1>2, <1>5
  <2>2. d.file[f].flags = F BY <1>2, <1>5
  <2> QED BY <1>9, <2>1, <2>2 DEF CloseHeard, Keeps
<1>12. \A g \in Files : FileSame(c, d, g) BY <1>2, <1>5 DEF FileSame
<1>13. StayDone(c, d, s, y) BY <1>3, <1>4, <1>5, <1>6, <1>7, <1>9, <1>10, <1>11, <1>12, StayMade
<1> QED BY <1>13 DEF d, e

\* What leaving a file does.
LEMMA LeftStep ==
    ASSUME NEW c \in CacheT, NEW f \in Files
    PROVE  LeftDone(c, Left(c, f), f)
<1> DEFINE F == c.file[f].flags \ {"BEING_WRITTEN"}
           x == SetFileFlags(c, f, F)
           G == x.file[f].flags \ {"FSYNC"}
           y == SetFileFlags(x, f, G)
           z == Broadcast(y, NoDirtyBlocks(f))
           w == PutFileOnDirtyList(x, f, FALSE)
           d == IF x.file[f].numDirty = 0 THEN z ELSE w
           e == IF FileIs(x, f, {"CLOSE_IN_PROGRESS"}) THEN Broadcast(d, CloseCondition) ELSE d
<1>1. Left(c, f) = e BY DEF Left, SetFileFlags
<1>2. F \in SUBSET FileFlags BY FileFields
<1>3. /\ x \in CacheT /\ \A g \in Files \ {f} : x.file[g] = c.file[g]
      /\ x.file[f].flags = F
      /\ x.file[f].numDirty = c.file[f].numDirty /\ x.file[f].inCache = c.file[f].inCache /\ x.file[f].dirtyList = c.file[f].dirtyList
      /\ x.blk = c.blk /\ x.hash = c.hash /\ x.avail = c.avail
      /\ x.active = c.active /\ x.cleaner = c.cleaner /\ x.wake = c.wake
  BY <1>2, SetFileFlagsFacts
<1> HIDE DEF x
<1>4. G \in SUBSET FileFlags BY <1>2, <1>3
<1>5. /\ y \in CacheT /\ \A g \in Files \ {f} : y.file[g] = x.file[g]
      /\ y.file[f].flags = G
      /\ y.file[f].numDirty = x.file[f].numDirty /\ y.file[f].inCache = x.file[f].inCache /\ y.file[f].dirtyList = x.file[f].dirtyList
      /\ y.blk = x.blk /\ y.hash = x.hash /\ y.avail = x.avail
      /\ y.active = x.active /\ y.cleaner = x.cleaner /\ y.wake = x.wake
  BY <1>3, <1>4, SetFileFlagsFacts
<1> HIDE DEF y, F, G
<1>6. /\ z \in CacheT /\ z.blk = y.blk /\ z.hash = y.hash
      /\ z.file = y.file /\ z.avail = y.avail
      /\ z.active = y.active /\ z.cleaner = y.cleaner
      /\ z.wake = y.wake \cup {NoDirtyBlocks(f)}
  BY <1>5, BroadcastFacts, EventTypes
<1>7. FilePut(x, w, f) BY <1>3, PutFileFacts
<1> HIDE DEF z, w
<1>8. "BEING_WRITTEN" \notin F /\ F \cap Usage = c.file[f].flags \cap Usage
      /\ "BEING_WRITTEN" \notin x.file[f].flags /\ G \cap Usage = c.file[f].flags \cap Usage
      /\ "BEING_WRITTEN" \notin G
  BY <1>3 DEF F, G, Usage
<1>9. /\ d \in CacheT /\ d.blk = c.blk /\ d.hash = c.hash /\ d.avail = c.avail
      /\ d.active = c.active /\ d.cleaner = c.cleaner /\ c.wake \subseteq d.wake
      /\ \A g \in Files \ {f} : d.file[g] = c.file[g]
      /\ FileSame(c, d, f)
      /\ "BEING_WRITTEN" \notin d.file[f].flags
      /\ Listed(d, f) \/ (d.file[f].numDirty = 0 /\ NoDirtyBlocks(f) \in d.wake)
      /\ Keeps(c, d, Usage)
  <2>1. CASE x.file[f].numDirty = 0
    <3>1. d = z BY <2>1
    <3> HIDE DEF d
    <3>2. /\ z.file[f].flags = G /\ \A g \in Files \ {f} : z.file[g] = c.file[g]
      BY <1>3, <1>5, <1>6
    <3>3. Keeps(c, z, Usage) BY <1>8, <3>2 DEF Keeps
    <3>4. FileSame(c, z, f) /\ z.file[f].numDirty = 0 BY <1>3, <1>5, <1>6, <2>1 DEF FileSame
    <3> QED BY <1>3, <1>5, <1>6, <1>8, <3>1, <3>2, <3>3, <3>4
  <2>2. CASE x.file[f].numDirty # 0
    <3>1. d = w BY <2>2
    <3> HIDE DEF d
    <3>2. /\ w \in CacheT /\ w.blk = x.blk /\ w.hash = x.hash /\ w.avail = x.avail
          /\ w.active = x.active /\ w.cleaner = x.cleaner /\ w.wake = x.wake
          /\ \A g \in Files \ {f} : w.file[g] = x.file[g]
          /\ FileSame(x, w, f) /\ Listed(w, f)
          /\ "BEING_WRITTEN" \in w.file[f].flags <=> "BEING_WRITTEN" \in x.file[f].flags
          /\ Keeps(x, w, FileFlags \ {"ON_DIRTY_LIST", "OLD"})
      BY <1>7 DEF FilePut
    <3>3. Keeps(x, w, Usage)
      <4>1. Usage \subseteq FileFlags \ {"ON_DIRTY_LIST", "OLD"} BY DEF Usage, FileFlags
      <4> QED BY <3>2, <4>1, KeepsFewer
    <3>4. Keeps(c, w, Usage)
      <4>1. Keeps(c, x, Usage) BY <1>3, <1>8 DEF Keeps
      <4> QED BY <3>3, <4>1, KeepsTrans
    <3>5. FileSame(c, w, f) BY <1>3, <3>2 DEF FileSame
    <3> QED BY <1>3, <1>8, <3>1, <3>2, <3>4, <3>5
  <2> QED BY <2>1, <2>2
<1> HIDE DEF d
<1>10. /\ Broadcast(d, CloseCondition) \in CacheT /\ Broadcast(d, CloseCondition).blk = d.blk
       /\ Broadcast(d, CloseCondition).hash = d.hash
       /\ Broadcast(d, CloseCondition).file = d.file /\ Broadcast(d, CloseCondition).avail = d.avail
       /\ Broadcast(d, CloseCondition).active = d.active /\ Broadcast(d, CloseCondition).cleaner = d.cleaner
       /\ Broadcast(d, CloseCondition).wake = d.wake \cup {CloseCondition}
  BY <1>9, BroadcastFacts, EventTypes
<1>11. "CLOSE_IN_PROGRESS" \in c.file[f].flags <=> FileIs(x, f, {"CLOSE_IN_PROGRESS"})
  BY <1>3 DEF F, FileIs
<1>12. CASE FileIs(x, f, {"CLOSE_IN_PROGRESS"})
  <2>1. e = Broadcast(d, CloseCondition) BY <1>12
  <2> HIDE DEF e
  <2>2. FileSame(c, e, f) /\ Keeps(c, e, Usage) /\ (Listed(e, f) <=> Listed(d, f))
    BY <1>9, <1>10, <2>1 DEF FileSame, Keeps, Listed, FileIs
  <2> QED BY <1>1, <1>9, <1>10, <2>1, <2>2 DEF LeftDone
<1>13. CASE ~FileIs(x, f, {"CLOSE_IN_PROGRESS"})
  <2>1. e = d BY <1>13
  <2> HIDE DEF e
  <2> QED BY <1>1, <1>9, <1>11, <1>13, <2>1 DEF LeftDone
<1> QED BY <1>12, <1>13

\* A cleaner leaves its file.
LEMMA LeavesFile ==
    ASSUME NEW c \in CacheT, CacheInv(c), NEW s \in Slots, c.cleaner[s].pc = "returnFile",
           NEW f, f = c.cleaner[s].file, NEW y, y = [NoCleaner EXCEPT !.pc = "getFile"]
    PROVE  StayDone(c, SetCleaner(Left(c, f), s, y), s, y)
<1> DEFINE e == Left(c, f)
           d == SetCleaner(e, s, y)
<1>1. y \in CleanerT /\ y.pc = "getFile" /\ y.file = Nil /\ y.blk = Nil /\ y.status = "ok"
  BY DEF NoCleaner, CleanerT, CleanerPcs
<1>2. f \in Files /\ c.cleaner[s].blk = Nil BY DEF CacheInv, CleanerTied
<1>3. LeftDone(c, e, f) BY <1>2, LeftStep
<1> HIDE DEF e
<1>4. /\ d \in CacheT /\ d.cleaner[s] = y
      /\ \A t \in Slots \ {s} : d.cleaner[t] = c.cleaner[t]
      /\ d.blk = c.blk /\ d.hash = c.hash /\ d.file = e.file /\ d.avail = c.avail
      /\ d.active = c.active /\ d.wake = e.wake /\ c.wake \subseteq d.wake
  BY <1>1, <1>3, SetCleanerFacts DEF LeftDone
<1> HIDE DEF d
<1>5. d.active = c.active + One(ActivePc(y)) - One(ActivePc(c.cleaner[s]))
  <2>1. c.active \in Int BY CacheFields
  <2>2. ActivePc(y) /\ ActivePc(c.cleaner[s]) BY <1>1 DEF ActivePc
  <2> QED BY <1>4, <2>1, <2>2 DEF One
<1>6. CleanerIs(y) BY <1>1 DEF CleanerIs
<1>7. \A g \in Files : "BEING_WRITTEN" \in c.file[g].flags => "ON_DIRTY_LIST" \notin c.file[g].flags
  BY FileFacts
<1>8. /\ \A g \in Files \ {f} : d.file[g] = c.file[g]
      /\ FileSame(c, e, f)
      /\ "BEING_WRITTEN" \notin d.file[f].flags
      /\ Listed(d, f) \/ (d.file[f].numDirty = 0 /\ NoDirtyBlocks(f) \in d.wake)
      /\ "CLOSE_IN_PROGRESS" \in c.file[f].flags => CloseCondition \in d.wake
      /\ Keeps(c, d, Usage)
  BY <1>3, <1>4 DEF LeftDone, Listed, FileIs, Keeps
<1>9. \A g \in Files :
              /\ "BEING_WRITTEN" \in d.file[g].flags
                    <=> g = y.file \/ ("BEING_WRITTEN" \in c.file[g].flags /\ g # c.cleaner[s].file)
              /\ "BEING_WRITTEN" \in d.file[g].flags => "ON_DIRTY_LIST" \notin d.file[g].flags
              /\ Listed(c, g) /\ ~Listed(d, g) => d.file[g].numDirty <= 0 /\ NoDirtyBlocks(g) \in d.wake
  <2> SUFFICES ASSUME NEW g \in Files
               PROVE  /\ "BEING_WRITTEN" \in d.file[g].flags
                            <=> g = y.file \/ ("BEING_WRITTEN" \in c.file[g].flags /\ g # c.cleaner[s].file)
                      /\ "BEING_WRITTEN" \in d.file[g].flags => "ON_DIRTY_LIST" \notin d.file[g].flags
                      /\ Listed(c, g) /\ ~Listed(d, g) => d.file[g].numDirty <= 0 /\ NoDirtyBlocks(g) \in d.wake
    OBVIOUS
  <2>1. g # Nil BY NilApart
  <2>2. CASE g = f BY <1>1, <1>8, <2>1, <2>2
  <2>3. CASE g # f
    <3>1. d.file[g] = c.file[g] BY <1>8, <2>3
    <3> QED BY <1>1, <1>7, <2>1, <2>3, <3>1 DEF Listed, FileIs
  <2> QED BY <2>2, <2>3
<1>10. CloseHeard(c, d) BY <1>8 DEF CloseHeard
<1>11. \A g \in Files : FileSame(c, d, g) BY <1>4, <1>8 DEF FileSame
<1>12. StayDone(c, d, s, y) BY <1>1, <1>2, <1>4, <1>5, <1>6, <1>8, <1>9, <1>10, <1>11, StayMade
<1> QED BY <1>12 DEF d, e

\* Picked in elementary changes.
LEMMA PickedIs ==
    ASSUME NEW c, NEW b, NEW f
    PROVE  Picked(c, b, f) =
             SetRef(SetBlkFlags(SetDirtyList(c, f, c.file[f].dirtyList \ {b}), b,
                                (c.blk[b].flags \ {"DIRTY"}) \cup {"BEING_WRITTEN"}), b, c.blk[b].ref + 1)
BY DEF Picked, SetRef, SetBlkFlags, SetDirtyList

\* What picking a block changes.
LEMMA PickedStep ==
    ASSUME NEW c \in CacheT, NEW b \in Blocks, NEW f \in Files
    PROVE  PickedDone(c, Picked(c, b, f), b, f)
<1> DEFINE L == c.file[f].dirtyList \ {b}
           F == (c.blk[b].flags \ {"DIRTY"}) \cup {"BEING_WRITTEN"}
           n == c.blk[b].ref + 1
           x == SetDirtyList(c, f, L)
           y == SetBlkFlags(x, b, F)
           z == SetRef(y, b, n)
<1>1. Picked(c, b, f) = z BY PickedIs
<1>2. L \in SUBSET Blocks BY FileFields
<1>3. F \in SUBSET BlockFlags BY BlockFields DEF BlockFlags
<1>4. n \in Int
  <2>1. c.blk[b].ref \in Int BY BlockFields
  <2> QED BY <2>1
<1> HIDE DEF L, F, n
<1>5. /\ x \in CacheT /\ \A g \in Files \ {f} : x.file[g] = c.file[g]
      /\ x.file[f].dirtyList = L
      /\ x.file[f].numDirty = c.file[f].numDirty /\ x.file[f].inCache = c.file[f].inCache /\ x.file[f].flags = c.file[f].flags
      /\ x.blk = c.blk /\ x.hash = c.hash /\ x.avail = c.avail
      /\ x.active = c.active /\ x.cleaner = c.cleaner /\ x.wake = c.wake
  BY <1>2, SetDirtyListFacts
<1> HIDE DEF x
<1>6. /\ y \in CacheT /\ \A a \in Blocks \ {b} : y.blk[a] = x.blk[a]
      /\ y.blk[b].flags = F /\ y.blk[b].key = x.blk[b].key /\ y.blk[b].ref = x.blk[b].ref
      /\ y.hash = x.hash /\ y.file = x.file /\ y.avail = x.avail
      /\ y.active = x.active /\ y.cleaner = x.cleaner /\ y.wake = x.wake
  BY <1>3, <1>5, SetBlkFlagsFacts
<1> HIDE DEF y
<1>7. /\ z \in CacheT /\ \A a \in Blocks \ {b} : z.blk[a] = y.blk[a]
      /\ z.blk[b].ref = n /\ z.blk[b].key = y.blk[b].key /\ z.blk[b].flags = y.blk[b].flags
      /\ z.hash = y.hash /\ z.file = y.file /\ z.avail = y.avail
      /\ z.active = y.active /\ z.cleaner = y.cleaner /\ z.wake = y.wake
  BY <1>4, <1>6, SetRefFacts
<1> HIDE DEF z
<1> QED BY <1>1, <1>5, <1>6, <1>7 DEF PickedDone, L, F, n

\* A cleaner picks a dirty block.
LEMMA PicksBlock ==
    ASSUME NEW c \in CacheT, CacheInv(c), NEW s \in Slots, c.cleaner[s].pc = "getBlock",
           NEW f, f = c.cleaner[s].file, NEW b \in c.file[f].dirtyList, c.blk[b].ref = 0,
           "IO_IN_PROGRESS" \notin c.blk[b].flags, NEW last \in BOOLEAN,
           NEW y, y = [c.cleaner[s] EXCEPT !.pc = "write", !.blk = b, !.last = last]
    PROVE  PickDone(c, SetCleaner(Picked(c, b, f), s, y), s, y, b, f)
<1> DEFINE e == Picked(c, b, f)
           d == SetCleaner(e, s, y)
<1>1. f \in Files /\ c.cleaner[s].blk = Nil /\ c.cleaner[s].status = "ok"
  BY DEF CacheInv, CleanerTied
<1>2. b \in Blocks BY <1>1, FileFields
<1>3. y \in CleanerT /\ y.pc = "write" /\ y.file = f /\ y.blk = b /\ y.status = "ok"
  BY <1>1, <1>2, CleanerFields DEF CleanerT, CleanerPcs
<1>4. PickedDone(c, e, b, f) BY <1>1, <1>2, PickedStep
<1> HIDE DEF e
<1>5. /\ d \in CacheT /\ d.cleaner[s] = y
      /\ \A t \in Slots \ {s} : d.cleaner[t] = c.cleaner[t]
      /\ d.blk = e.blk /\ d.hash = c.hash /\ d.file = e.file /\ d.avail = c.avail
      /\ d.active = c.active /\ d.wake = c.wake
  <2>1. /\ e \in CacheT /\ e.hash = c.hash /\ e.avail = c.avail
        /\ e.active = c.active /\ e.cleaner = c.cleaner /\ e.wake = c.wake
    BY Zenon, <1>4 DEF PickedDone
  <2> QED BY <1>3, <2>1, SetCleanerFacts
<1> HIDE DEF d
<1>6. /\ \A a \in Blocks \ {b} : d.blk[a] = c.blk[a]
      /\ d.blk[b].key = c.blk[b].key /\ d.blk[b].ref = 1
      /\ d.blk[b].flags = (c.blk[b].flags \ {"DIRTY"}) \cup {"BEING_WRITTEN"}
      /\ \A g \in Files \ {f} : d.file[g] = c.file[g]
      /\ d.file[f].numDirty = c.file[f].numDirty /\ d.file[f].inCache = c.file[f].inCache
      /\ d.file[f].flags = c.file[f].flags /\ d.file[f].dirtyList = c.file[f].dirtyList \ {b}
  <2>1. /\ \A a \in Blocks \ {b} : e.blk[a] = c.blk[a]
        /\ e.blk[b].key = c.blk[b].key /\ e.blk[b].ref = c.blk[b].ref + 1
        /\ e.blk[b].flags = (c.blk[b].flags \ {"DIRTY"}) \cup {"BEING_WRITTEN"}
        /\ \A g \in Files \ {f} : e.file[g] = c.file[g]
        /\ e.file[f].numDirty = c.file[f].numDirty /\ e.file[f].inCache = c.file[f].inCache
        /\ e.file[f].flags = c.file[f].flags /\ e.file[f].dirtyList = c.file[f].dirtyList \ {b}
    BY Zenon, <1>4 DEF PickedDone
  <2>2. c.blk[b].ref + 1 = 1
    OBVIOUS
  <2>3. d.blk = e.blk /\ d.file = e.file BY <1>5
  <2>4. e.blk[b].ref = 1 BY Zenon, <2>1, <2>2
  <2> QED BY <2>1, <2>3, <2>4, Zenon
<1>7. c.blk[b].key # Nil /\ c.blk[b].key[1] = f /\ "DIRTY" \in c.blk[b].flags /\ "BEING_WRITTEN" \notin c.blk[b].flags
  <2>1. c.file[f].dirtyList = {a \in Blocks : IsListed(c.blk[a], f)}
    BY <1>1, SetsAs DEF CacheInv, FileTied
  <2> QED BY <2>1 DEF IsListed, IsOf
<1>8. /\ c.blk[b].key \in Keys /\ "FREE" \notin c.blk[b].flags
      /\ c.hash[c.blk[b].key] = b <=> "DELETED" \notin c.blk[b].flags
      /\ \A k \in Keys : c.hash[k] = b => k = c.blk[b].key
  BY SMTT(30), <1>2, <1>7, BlockFacts
<1>9. /\ "BEING_WRITTEN" \in d.blk[b].flags /\ "DIRTY" \notin d.blk[b].flags
      /\ "FREE" \notin d.blk[b].flags
      /\ "DELETED" \in d.blk[b].flags <=> "DELETED" \in c.blk[b].flags
      /\ d.blk[b].flags \cap DirtyOrWritten # {} /\ c.blk[b].flags \cap DirtyOrWritten # {}
      /\ "IO_IN_PROGRESS" \notin d.blk[b].flags
  BY Zenon, <1>6, <1>7, <1>8 DEF DirtyOrWritten
<1>10. OneFile(c, d, b, f) BY Zenon, <1>6 DEF OneFile
<1>11. Recount(c.blk[b], d.blk[b], c.file[f], d.file[f], f, b)
  <2>1. c.file[f].inCache \in Int /\ c.file[f].numDirty \in Int BY <1>1, FileFields
  <2>2. /\ d.blk[b].key = c.blk[b].key /\ d.file[f].numDirty = c.file[f].numDirty
        /\ d.file[f].inCache = c.file[f].inCache
    BY Zenon, <1>6
  <2>3. d.file[f].inCache = c.file[f].inCache + One(d.blk[b].key # Nil) - One(c.blk[b].key # Nil)
    BY <1>7, <2>1, <2>2 DEF One
  <2>4. d.file[f].numDirty = c.file[f].numDirty
            + One(d.blk[b].key # Nil /\ d.blk[b].flags \cap DirtyOrWritten # {})
            - One(c.blk[b].key # Nil /\ c.blk[b].flags \cap DirtyOrWritten # {})
    BY <1>7, <1>9, <2>1, <2>2 DEF One
  <2>5. /\ d.file[f].dirtyList \ {b} = c.file[f].dirtyList \ {b}
        /\ b \in d.file[f].dirtyList <=> d.blk[b].key # Nil /\ "DIRTY" \in d.blk[b].flags /\ "BEING_WRITTEN" \notin d.blk[b].flags
    BY Zenon, <1>6, <1>9
  <2> QED BY Zenon, <1>7, <2>2, <2>3, <2>4, <2>5 DEF Recount
<1>12. d.avail = c.avail + One(IsFree(d.blk[b])) - One(IsFree(c.blk[b]))
  <2>1. c.avail \in Int /\ ~IsFree(d.blk[b]) /\ ~IsFree(c.blk[b])
    BY <1>9, CacheFields DEF IsFree
  <2> QED BY <1>5, <2>1 DEF One
<1>13. Delta(c, d, b) BY <1>1, <1>2, <1>5, <1>10, <1>11, <1>12, DeltaMade
<1>14. ListStep(c, d)
  <2>1. Relist(c.file[f], d.file[f])
    <3>1. c.file[f].numDirty \in Int BY <1>1, FileFields
    <3>2. ~(d.file[f].numDirty > c.file[f].numDirty)
      <4>1. d.file[f].numDirty = c.file[f].numDirty BY Zenon, <1>6
      <4> QED BY <3>1, <4>1
    <3>3. c.file[f].flags = d.file[f].flags BY Zenon, <1>6
    <3> QED BY Zenon, <3>2, <3>3 DEF Relist
  <2> QED BY <1>1, <1>2, <1>5, <1>10, <2>1, ListMade
<1>15. HashStep(c, d, b) BY Zenon, <1>5, <1>6, <1>8 DEF HashStep
<1>16. BlockOK(d, b) BY Zenon, <1>5, <1>6, <1>7, <1>8, <1>9 DEF BlockOK
<1>17. CleanerMoves(c, d, s)
  <2>1. "BEING_WRITTEN" \in c.file[f].flags BY <1>1 DEF CacheInv, FileTied, FileIs
  <2>2. \A g \in Files : "BEING_WRITTEN" \in c.file[g].flags => "ON_DIRTY_LIST" \notin c.file[g].flags
    BY FileFacts
  <2>3. \A g \in Files : d.file[g].flags = c.file[g].flags BY Zenon, <1>6
  <2>4. /\ \A g \in Files :
              /\ "BEING_WRITTEN" \in d.file[g].flags
                    <=> g = y.file \/ ("BEING_WRITTEN" \in c.file[g].flags /\ g # c.cleaner[s].file)
              /\ "BEING_WRITTEN" \in d.file[g].flags => "ON_DIRTY_LIST" \notin d.file[g].flags
    BY <1>3, <2>1, <2>2, <2>3
  <2>5. \A a \in Blocks :
              /\ "BEING_WRITTEN" \in d.blk[a].flags
                    <=> a = y.blk \/ ("BEING_WRITTEN" \in c.blk[a].flags /\ a # c.cleaner[s].blk)
              /\ "BEING_WRITTEN" \in d.blk[a].flags => d.blk[a].key = c.blk[a].key
    <3> SUFFICES ASSUME NEW a \in Blocks
                 PROVE  /\ "BEING_WRITTEN" \in d.blk[a].flags
                             <=> a = y.blk \/ ("BEING_WRITTEN" \in c.blk[a].flags /\ a # c.cleaner[s].blk)
                        /\ "BEING_WRITTEN" \in d.blk[a].flags => d.blk[a].key = c.blk[a].key
      OBVIOUS
    <3>1. a # Nil BY NilApart
    <3>2. CASE a = b BY Zenon, <1>3, <1>6, <1>9, <3>2
    <3>3. CASE a # b
      <4>1. d.blk[a] = c.blk[a] BY Zenon, <1>6, <3>3
      <4> QED BY <1>1, <1>3, <3>1, <3>3, <4>1
    <3> QED BY <3>2, <3>3
  <2>6. CleanerIs(y) BY <1>1, <1>2, <1>3 DEF CleanerIs
  <2>7. d.active = c.active + One(ActivePc(y)) - One(ActivePc(c.cleaner[s]))
    <3>1. c.active \in Int BY CacheFields
    <3>2. ActivePc(y) /\ ActivePc(c.cleaner[s]) BY <1>3 DEF ActivePc
    <3> QED BY <1>5, <3>1, <3>2 DEF One
  <2> QED BY <1>3, <1>5, <1>7, <2>4, <2>5, <2>6, <2>7 DEF CleanerMoves
<1>18. CleanersOK(d) BY <1>5, <1>17, CleanersMade
<1>19. CacheInv(d) BY <1>2, <1>5, <1>13, <1>14, <1>15, <1>16, <1>18, ChangeInv
<1>20. Heard(c, d)
  <2>1. ~Used(c.blk[b])
    <3>1. c.blk[b].ref = 0
      OBVIOUS
    <3>2. ~(c.blk[b].ref > 0) BY <3>1
    <3> QED BY <1>7, <3>2 DEF Used
  <2>2. ~(c.avail < d.avail)
    <3>1. c.avail \in Int BY CacheFields
    <3> QED BY <1>5, <3>1
  <2>3. c.file[f].flags = d.file[f].flags BY <1>6
  <2> QED BY <1>1, <1>2, <1>5, <1>10, <2>1, <2>2, <2>3, HeardMade
<1>21. Holds(c, d)
  <2> SUFFICES ASSUME NEW a \in Blocks
               PROVE  /\ Own(d.blk[a]) = Own(c.blk[a])
                      /\ "IO_IN_PROGRESS" \in d.blk[a].flags =>
                            "IO_IN_PROGRESS" \in c.blk[a].flags
                            /\ ("BEING_WRITTEN" \in d.blk[a].flags => "BEING_WRITTEN" \in c.blk[a].flags)
                      /\ Own(c.blk[a]) # 0 =>
                            /\ d.blk[a].key = c.blk[a].key
                            /\ \A k \in Keys : c.hash[k] = a => d.hash[k] = a
                            /\ c.blk[a].flags = {"IO_IN_PROGRESS"} => d.blk[a].flags = {"IO_IN_PROGRESS"}
                            /\ "IO_IN_PROGRESS" \in c.blk[a].flags => "IO_IN_PROGRESS" \in d.blk[a].flags
    BY DEF Holds
  <2>1. CASE a = b
    <3>1. Own(d.blk[b]) = 0 /\ Own(c.blk[b]) = 0
      <4>1. d.blk[b].ref = 1 /\ c.blk[b].ref = 0 BY Zenon, <1>6
      <4>2. One("BEING_WRITTEN" \in d.blk[b].flags) = 1 BY <1>9 DEF One
      <4>3. One("BEING_WRITTEN" \in c.blk[b].flags) = 0 BY <1>7 DEF One
      <4> QED BY <4>1, <4>2, <4>3 DEF Own
    <3> QED BY <1>9, <2>1, <3>1
  <2>2. CASE a # b
    <3>1. d.blk[a] = c.blk[a] BY <1>6, <2>2
    <3> QED BY <1>5, <3>1
  <2> QED BY <2>1, <2>2
<1>22. CloseHeard(c, d) /\ Keeps(c, d, Usage)
  <2>1. \A g \in Files : d.file[g].flags = c.file[g].flags BY <1>6
  <2> QED BY <2>1 DEF CloseHeard, Keeps
<1>23. CleanDone(c, d) BY <1>5, <1>19, <1>20, <1>21, <1>22 DEF CleanDone
<1>24. PickDone(c, d, s, y, b, f) BY Zenon, <1>5, <1>6, <1>23 DEF PickDone
<1> QED BY <1>24 DEF d, e

\* A cleaner returns its block.
LEMMA ReturnsBlock ==
    ASSUME NEW c \in CacheT, CacheInv(c), NEW s \in Slots, c.cleaner[s].pc = "returnBlock",
           NEW f, f = c.cleaner[s].file, NEW b, b = c.cleaner[s].blk,
           NEW e, ReturnOK(c, e, b, f), NEW pc \in {"getBlock", "returnFile"},
           NEW y, y = [NoCleaner EXCEPT !.pc = pc, !.file = f]
    PROVE  LET d == SetCleaner(e, s, y) IN
           /\ CleanDone(c, d) /\ d.blk = e.blk /\ d.hash = e.hash /\ d.file = e.file
           /\ d.cleaner[s] = y /\ \A t \in Slots \ {s} : d.cleaner[t] = c.cleaner[t]
<1> DEFINE d == SetCleaner(e, s, y)
<1>1. f \in Files /\ b \in Blocks BY DEF CacheInv, CleanerTied
<1>2. y \in CleanerT /\ y.pc = pc /\ y.file = f /\ y.blk = Nil /\ y.status = "ok"
  BY Zenon, <1>1 DEF NoCleaner, CleanerT, CleanerPcs
<1>3. /\ e \in CacheT /\ OneFile(c, e, b, f) /\ e.cleaner = c.cleaner /\ e.active = c.active
      /\ c.wake \subseteq e.wake /\ IODone(b) \in e.wake
      /\ "BEING_WRITTEN" \notin e.blk[b].flags
      /\ "BEING_WRITTEN" \in e.file[f].flags /\ "ON_DIRTY_LIST" \notin e.file[f].flags
      /\ e.file[f].flags \cap Usage = c.file[f].flags \cap Usage
  BY Zenon DEF ReturnOK
<1>4. /\ Recount(c.blk[b], e.blk[b], c.file[f], e.file[f], f, b)
      /\ e.avail = c.avail + One(IsFree(e.blk[b])) - One(IsFree(c.blk[b]))
      /\ Relist(c.file[f], e.file[f]) /\ HashStep(c, e, b) /\ BlockOK(e, b)
      /\ c.avail < e.avail => CleanBlock \in e.wake
  BY Zenon DEF ReturnOK
<1>5. /\ Own(e.blk[b]) = Own(c.blk[b])
      /\ "IO_IN_PROGRESS" \in e.blk[b].flags => "IO_IN_PROGRESS" \in c.blk[b].flags
      /\ Own(c.blk[b]) # 0 =>
          /\ e.blk[b].key = c.blk[b].key /\ e.hash = c.hash
          /\ "IO_IN_PROGRESS" \in c.blk[b].flags => "IO_IN_PROGRESS" \in e.blk[b].flags
  BY Zenon DEF ReturnOK
<1>6. /\ d \in CacheT /\ d.cleaner[s] = y
      /\ \A t \in Slots \ {s} : d.cleaner[t] = c.cleaner[t]
      /\ d.blk = e.blk /\ d.hash = e.hash /\ d.file = e.file /\ d.avail = e.avail
      /\ d.active = c.active /\ d.wake = e.wake
  BY SMTT(30), <1>2, <1>3, SetCleanerFacts
<1> HIDE DEF d
<1>7. /\ \A a \in Blocks \ {b} : d.blk[a] = c.blk[a]
      /\ \A g \in Files \ {f} : d.file[g] = c.file[g]
  BY <1>3, <1>6 DEF OneFile
<1>8. OneFile(c, d, b, f) BY <1>7 DEF OneFile
<1>9. Delta(c, d, b) BY Zenon, <1>1, <1>4, <1>6, <1>8, DeltaMade
<1>10. ListStep(c, d) BY Zenon, <1>1, <1>4, <1>6, <1>8, ListMade
<1>11. HashStep(c, d, b) BY Zenon, <1>4, <1>6 DEF HashStep
<1>12. BlockOK(d, b) BY Zenon, <1>4, <1>6 DEF BlockOK
<1>13. "BEING_WRITTEN" \in c.file[f].flags /\ "BEING_WRITTEN" \in c.blk[b].flags
  BY <1>1 DEF CacheInv, FileTied, FileIs, BlockTied
<1>14. CleanerMoves(c, d, s)
  <2>1. \A g \in Files : "BEING_WRITTEN" \in c.file[g].flags => "ON_DIRTY_LIST" \notin c.file[g].flags
    BY FileFacts
  <2>2. \A g \in Files :
              /\ "BEING_WRITTEN" \in d.file[g].flags
                    <=> g = y.file \/ ("BEING_WRITTEN" \in c.file[g].flags /\ g # c.cleaner[s].file)
              /\ "BEING_WRITTEN" \in d.file[g].flags => "ON_DIRTY_LIST" \notin d.file[g].flags
    <3> SUFFICES ASSUME NEW g \in Files
                 PROVE  /\ "BEING_WRITTEN" \in d.file[g].flags
                             <=> g = y.file \/ ("BEING_WRITTEN" \in c.file[g].flags /\ g # c.cleaner[s].file)
                        /\ "BEING_WRITTEN" \in d.file[g].flags => "ON_DIRTY_LIST" \notin d.file[g].flags
      OBVIOUS
    <3>1. CASE g = f BY <1>2, <1>3, <1>6, <3>1
    <3>2. CASE g # f
      <4>1. d.file[g] = c.file[g] BY <1>7, <3>2
      <4> QED BY <1>2, <2>1, <3>2, <4>1
    <3> QED BY <3>1, <3>2
  <2>3. \A a \in Blocks :
              /\ "BEING_WRITTEN" \in d.blk[a].flags
                    <=> a = y.blk \/ ("BEING_WRITTEN" \in c.blk[a].flags /\ a # c.cleaner[s].blk)
              /\ "BEING_WRITTEN" \in d.blk[a].flags => d.blk[a].key = c.blk[a].key
    <3> SUFFICES ASSUME NEW a \in Blocks
                 PROVE  /\ "BEING_WRITTEN" \in d.blk[a].flags
                             <=> a = y.blk \/ ("BEING_WRITTEN" \in c.blk[a].flags /\ a # c.cleaner[s].blk)
                        /\ "BEING_WRITTEN" \in d.blk[a].flags => d.blk[a].key = c.blk[a].key
      OBVIOUS
    <3>1. a # Nil BY NilApart
    <3>2. CASE a = b BY <1>2, <1>3, <1>6, <3>1, <3>2
    <3>3. CASE a # b
      <4>1. d.blk[a] = c.blk[a] BY <1>7, <3>3
      <4> QED BY <1>2, <3>1, <3>3, <4>1
    <3> QED BY <3>2, <3>3
  <2>4. CleanerIs(y) BY <1>1, <1>2 DEF CleanerIs
  <2>5. d.active = c.active + One(ActivePc(y)) - One(ActivePc(c.cleaner[s]))
    <3>1. c.active \in Int BY CacheFields
    <3>2. ActivePc(y) /\ ActivePc(c.cleaner[s]) BY <1>2 DEF ActivePc
    <3> QED BY <1>6, <3>1, <3>2 DEF One
  <2>6. y.file = c.cleaner[s].file BY <1>2
  <2> QED BY <1>2, <1>6, <2>2, <2>3, <2>4, <2>5, <2>6 DEF CleanerMoves
<1>15. CleanersOK(d) BY <1>6, <1>14, CleanersMade
<1>16. CacheInv(d) BY <1>1, <1>6, <1>9, <1>10, <1>11, <1>12, <1>15, ChangeInv
<1>17. Heard(c, d) BY Zenon, <1>1, <1>3, <1>4, <1>6, <1>8, HeardMade
<1>18. Holds(c, d)
  <2> SUFFICES ASSUME NEW a \in Blocks
               PROVE  /\ Own(d.blk[a]) = Own(c.blk[a])
                      /\ "IO_IN_PROGRESS" \in d.blk[a].flags =>
                            "IO_IN_PROGRESS" \in c.blk[a].flags
                            /\ ("BEING_WRITTEN" \in d.blk[a].flags => "BEING_WRITTEN" \in c.blk[a].flags)
                      /\ Own(c.blk[a]) # 0 =>
                            /\ d.blk[a].key = c.blk[a].key
                            /\ \A k \in Keys : c.hash[k] = a => d.hash[k] = a
                            /\ c.blk[a].flags = {"IO_IN_PROGRESS"} => d.blk[a].flags = {"IO_IN_PROGRESS"}
                            /\ "IO_IN_PROGRESS" \in c.blk[a].flags => "IO_IN_PROGRESS" \in d.blk[a].flags
    BY DEF Holds
  <2>1. CASE a = b
    <3>1. "BEING_WRITTEN" \notin d.blk[b].flags /\ c.blk[b].flags # {"IO_IN_PROGRESS"}
      BY <1>3, <1>6, <1>13
    <3> QED BY Zenon, <1>5, <1>6, <2>1, <3>1
  <2>2. CASE a # b
    <3>1. d.blk[a] = c.blk[a] BY <1>7, <2>2
    <3>2. \A k \in Keys : c.hash[k] = a => d.hash[k] = a
      <4> SUFFICES ASSUME NEW k \in Keys, c.hash[k] = a PROVE d.hash[k] = a
        OBVIOUS
      <4>1. \/ d.hash[k] = c.hash[k]
            \/ c.hash[k] = b /\ d.hash[k] = Nil
            \/ k = d.blk[b].key /\ d.hash[k] = b /\ c.hash[k] \in {Nil, b}
        BY <1>11 DEF HashStep
      <4>2. a # Nil BY NilApart
      <4> QED BY <2>2, <4>1, <4>2
    <3> QED BY <3>1, <3>2
  <2> QED BY <2>1, <2>2
<1>19. CloseHeard(c, d) /\ Keeps(c, d, Usage)
  <2>1. \A g \in Files \ {f} : d.file[g] = c.file[g] BY <1>7
  <2>2. "BEING_WRITTEN" \in d.file[f].flags /\ d.file[f].flags \cap Usage = c.file[f].flags \cap Usage
    BY <1>3, <1>6
  <2> QED BY <2>1, <2>2 DEF CloseHeard, Keeps
<1>20. CleanDone(c, d) BY <1>6, <1>16, <1>17, <1>18, <1>19 DEF CleanDone
<1> QED BY <1>6, <1>20 DEF d

\* Written in elementary changes.
LEMMA WrittenIs ==
    ASSUME NEW c, NEW b
    PROVE  Written(c, b) =
             Broadcast(SetRef(SetBlkFlags(c, b, c.blk[b].flags \ {"BEING_WRITTEN"}), b, c.blk[b].ref - 1), IODone(b))
BY DEF Written, SetRef, SetBlkFlags

\* What the end of a write changes.
LEMMA WrittenStep ==
    ASSUME NEW c \in CacheT, NEW b \in Blocks
    PROVE  WrittenDone(c, Written(c, b), b)
<1> DEFINE F == c.blk[b].flags \ {"BEING_WRITTEN"}
           n == c.blk[b].ref - 1
           y == SetBlkFlags(c, b, F)
           z == SetRef(y, b, n)
           w == Broadcast(z, IODone(b))
<1>1. Written(c, b) = w BY WrittenIs
<1>2. F \in SUBSET BlockFlags BY BlockFields
<1>3. n \in Int
  <2>1. c.blk[b].ref \in Int BY BlockFields
  <2> QED BY <2>1
<1> HIDE DEF F, n
<1>4. /\ y \in CacheT /\ \A a \in Blocks \ {b} : y.blk[a] = c.blk[a]
      /\ y.blk[b].flags = F /\ y.blk[b].key = c.blk[b].key /\ y.blk[b].ref = c.blk[b].ref
      /\ y.hash = c.hash /\ y.file = c.file /\ y.avail = c.avail
      /\ y.active = c.active /\ y.cleaner = c.cleaner /\ y.wake = c.wake
  BY <1>2, SetBlkFlagsFacts
<1> HIDE DEF y
<1>5. /\ z \in CacheT /\ \A a \in Blocks \ {b} : z.blk[a] = y.blk[a]
      /\ z.blk[b].ref = n /\ z.blk[b].key = y.blk[b].key /\ z.blk[b].flags = y.blk[b].flags
      /\ z.hash = y.hash /\ z.file = y.file /\ z.avail = y.avail
      /\ z.active = y.active /\ z.cleaner = y.cleaner /\ z.wake = y.wake
  BY <1>3, <1>4, SetRefFacts
<1> HIDE DEF z
<1>6. /\ w \in CacheT /\ w.blk = z.blk /\ w.hash = z.hash
      /\ w.file = z.file /\ w.avail = z.avail
      /\ w.active = z.active /\ w.cleaner = z.cleaner
      /\ w.wake = z.wake \cup {IODone(b)}
  BY <1>5, BroadcastFacts, EventTypes
<1> HIDE DEF w
<1> QED BY <1>1, <1>4, <1>5, <1>6 DEF WrittenDone, F, n

\* What listing the block again changes.
LEMMA AgainStep ==
    ASSUME NEW c \in CacheT, NEW b \in Blocks, NEW f \in Files, NEW F \in SUBSET FileFlags,
           c.blk[b].key # Nil, c.blk[b].key[1] = f,
           "BEING_WRITTEN" \in F, "ON_DIRTY_LIST" \notin F, F \cap Usage = c.file[f].flags \cap Usage
    PROVE  AgainDone(c, Again(c, b, f, F), b, f)
<1> DEFINE w == Written(c, b)
           x == SetFileFlags(w, f, F)
           e == PutBlockOnDirtyList(x, b, FALSE)
<1>1. WrittenDone(c, w, b) BY WrittenStep
<1> HIDE DEF w
<1>2. /\ w \in CacheT /\ \A a \in Blocks \ {b} : w.blk[a] = c.blk[a]
      /\ w.blk[b].key = c.blk[b].key /\ w.blk[b].ref = c.blk[b].ref - 1
      /\ w.blk[b].flags = c.blk[b].flags \ {"BEING_WRITTEN"}
      /\ w.hash = c.hash /\ w.file = c.file /\ w.avail = c.avail
      /\ w.active = c.active /\ w.cleaner = c.cleaner /\ w.wake = c.wake \cup {IODone(b)}
  BY <1>1 DEF WrittenDone
<1>3. /\ x \in CacheT /\ \A g \in Files \ {f} : x.file[g] = w.file[g]
      /\ x.file[f].flags = F
      /\ x.file[f].numDirty = w.file[f].numDirty /\ x.file[f].inCache = w.file[f].inCache /\ x.file[f].dirtyList = w.file[f].dirtyList
      /\ x.blk = w.blk /\ x.hash = w.hash /\ x.avail = w.avail
      /\ x.active = w.active /\ x.cleaner = w.cleaner /\ x.wake = w.wake
  BY <1>2, SetFileFlagsFacts
<1> HIDE DEF x
<1>4. x.blk[b].key # Nil /\ x.blk[b].key[1] = f BY <1>2, <1>3
<1>5. BlockPut(x, e, b, f)
  <2>1. BlockPut(x, PutBlockOnDirtyList(x, b, FALSE), b, x.blk[b].key[1])
    BY <1>3, <1>4, PutBlockFacts
  <2> QED BY <1>4, <2>1
<1> HIDE DEF e
<1>6. /\ e \in CacheT /\ e.hash = x.hash /\ e.avail = x.avail
      /\ \A a \in Blocks \ {b} : e.blk[a] = x.blk[a]
      /\ e.blk[b].key = x.blk[b].key /\ e.blk[b].ref = x.blk[b].ref
      /\ e.blk[b].flags = x.blk[b].flags \cup {"DIRTY"}
      /\ e.active = x.active /\ e.cleaner = x.cleaner /\ e.wake = x.wake
      /\ \A g \in Files \ {f} : e.file[g] = x.file[g]
      /\ e.file[f].numDirty = x.file[f].numDirty /\ e.file[f].inCache = x.file[f].inCache
      /\ e.file[f].dirtyList = x.file[f].dirtyList \cup {b}
      /\ "BEING_WRITTEN" \in e.file[f].flags <=> "BEING_WRITTEN" \in x.file[f].flags
      /\ "BEING_WRITTEN" \in x.file[f].flags /\ "ON_DIRTY_LIST" \in e.file[f].flags
            => "ON_DIRTY_LIST" \in x.file[f].flags
      /\ Keeps(x, e, FileFlags \ {"ON_DIRTY_LIST", "OLD"})
  BY <1>5 DEF BlockPut
<1>7. /\ e.file[f].flags \cap Usage = c.file[f].flags \cap Usage
  <2>1. Usage \subseteq FileFlags \ {"ON_DIRTY_LIST", "OLD"} BY DEF Usage, FileFlags
  <2>2. Keeps(x, e, Usage) BY <1>6, <2>1, KeepsFewer
  <2> QED BY <1>3, <2>2 DEF Keeps
<1>8. e = Again(c, b, f, F) BY DEF Again, e, x, w
<1>9. AgainDone(c, e, b, f) BY <1>2, <1>3, <1>6, <1>7 DEF AgainDone
<1> QED BY <1>8, <1>9

\* What is known of the block and the file of a cleaner.
LEMMA CleanersBlock ==
    ASSUME NEW c \in CacheT, CacheInv(c), NEW s \in Slots, c.cleaner[s].pc = "returnBlock",
           NEW f, f = c.cleaner[s].file, NEW b, b = c.cleaner[s].blk
    PROVE  /\ f \in Files /\ b \in Blocks /\ c.blk[b].key # Nil /\ c.blk[b].key[1] = f
           /\ c.blk[b].key \in Keys
           /\ "BEING_WRITTEN" \in c.blk[b].flags /\ "FREE" \notin c.blk[b].flags
           /\ "BEING_WRITTEN" \in c.file[f].flags /\ "ON_DIRTY_LIST" \notin c.file[f].flags
           /\ b \notin c.file[f].dirtyList /\ c.file[f].numDirty > 0
           /\ c.hash[c.blk[b].key] = b <=> "DELETED" \notin c.blk[b].flags
           /\ \A k \in Keys : c.hash[k] = b => k = c.blk[b].key
           /\ c.blk[b].flags \cap DirtyOrWritten # {}
<1>1. f \in Files /\ b \in Blocks BY DEF CacheInv, CleanerTied
<1>2. c.blk[b].key # Nil /\ c.blk[b].key[1] = f
  <2>1. b # Nil BY <1>1, NilApart
  <2> QED BY <2>1 DEF CacheInv, CleanerBlock
<1>3. "BEING_WRITTEN" \in c.blk[b].flags BY <1>1 DEF CacheInv, BlockTied
<1>4. "BEING_WRITTEN" \in c.file[f].flags BY <1>1 DEF CacheInv, FileTied, FileIs
<1>5. c.blk[b].flags \cap DirtyOrWritten # {} BY <1>3 DEF DirtyOrWritten
<1>6. /\ c.blk[b].key \in Keys /\ c.blk[b].key[1] \in Files
      /\ "FREE" \notin c.blk[b].flags
      /\ c.hash[c.blk[b].key] = b <=> "DELETED" \notin c.blk[b].flags
      /\ "DELETED" \in c.blk[b].flags => c.blk[b].flags \cap DirtyOrWritten # {}
      /\ c.file[c.blk[b].key[1]].inCache > 0
      /\ c.blk[b].flags \cap DirtyOrWritten # {} =>
            /\ c.file[c.blk[b].key[1]].numDirty > 0
            /\ c.file[c.blk[b].key[1]].flags \cap {"ON_DIRTY_LIST", "BEING_WRITTEN"} # {}
      /\ b \in c.file[c.blk[b].key[1]].dirtyList
           <=> "DIRTY" \in c.blk[b].flags /\ "BEING_WRITTEN" \notin c.blk[b].flags
      /\ \A k \in Keys : c.hash[k] = b => k = c.blk[b].key
  BY <1>1, <1>2, BlockFacts, Zenon
<1>7. /\ c.hash[c.blk[b].key] = b <=> "DELETED" \notin c.blk[b].flags
      /\ \A k \in Keys : c.hash[k] = b => k = c.blk[b].key
  BY <1>6, Zenon
<1>8. c.file[f].numDirty > 0 /\ b \notin c.file[f].dirtyList
  <2>1. /\ c.file[c.blk[b].key[1]].numDirty > 0
        /\ b \in c.file[c.blk[b].key[1]].dirtyList
             <=> "DIRTY" \in c.blk[b].flags /\ "BEING_WRITTEN" \notin c.blk[b].flags
    BY <1>5, <1>6, Zenon
  <2> QED BY <1>2, <1>3, <2>1
<1>9. "ON_DIRTY_LIST" \notin c.file[f].flags BY <1>1, <1>4, FileFacts
<1> QED BY Zenon, <1>1, <1>2, <1>3, <1>4, <1>5, <1>6, <1>7, <1>8, <1>9

\* Listing the block again is a way to return it.
LEMMA AgainOK ==
    ASSUME NEW c \in CacheT, CacheInv(c), NEW s \in Slots, c.cleaner[s].pc = "returnBlock",
           NEW f, f = c.cleaner[s].file, NEW b, b = c.cleaner[s].blk,
           NEW e, AgainDone(c, e, b, f)
    PROVE  ReturnOK(c, e, b, f)
<1>1. /\ f \in Files /\ b \in Blocks /\ c.blk[b].key # Nil /\ c.blk[b].key[1] = f
      /\ c.blk[b].key \in Keys
      /\ "BEING_WRITTEN" \in c.blk[b].flags /\ "FREE" \notin c.blk[b].flags
      /\ "BEING_WRITTEN" \in c.file[f].flags /\ "ON_DIRTY_LIST" \notin c.file[f].flags
      /\ b \notin c.file[f].dirtyList
      /\ c.hash[c.blk[b].key] = b <=> "DELETED" \notin c.blk[b].flags
      /\ \A k \in Keys : c.hash[k] = b => k = c.blk[b].key
      /\ c.blk[b].flags \cap DirtyOrWritten # {}
  BY SMTT(30), CleanersBlock
<1>2. /\ e \in CacheT /\ e.hash = c.hash /\ e.avail = c.avail
      /\ \A a \in Blocks \ {b} : e.blk[a] = c.blk[a]
      /\ e.blk[b].key = c.blk[b].key /\ e.blk[b].ref = c.blk[b].ref - 1
      /\ e.blk[b].flags = (c.blk[b].flags \ {"BEING_WRITTEN"}) \cup {"DIRTY"}
      /\ e.active = c.active /\ e.cleaner = c.cleaner /\ e.wake = c.wake \cup {IODone(b)}
      /\ \A g \in Files \ {f} : e.file[g] = c.file[g]
  BY Zenon DEF AgainDone
<1>3. /\ e.file[f].numDirty = c.file[f].numDirty /\ e.file[f].inCache = c.file[f].inCache
      /\ e.file[f].dirtyList = c.file[f].dirtyList \cup {b}
      /\ "BEING_WRITTEN" \in e.file[f].flags /\ "ON_DIRTY_LIST" \notin e.file[f].flags
      /\ e.file[f].flags \cap Usage = c.file[f].flags \cap Usage
  BY Zenon DEF AgainDone
<1>4. /\ "DIRTY" \in e.blk[b].flags /\ "BEING_WRITTEN" \notin e.blk[b].flags
      /\ "FREE" \notin e.blk[b].flags
      /\ "DELETED" \in e.blk[b].flags <=> "DELETED" \in c.blk[b].flags
      /\ "IO_IN_PROGRESS" \in e.blk[b].flags <=> "IO_IN_PROGRESS" \in c.blk[b].flags
      /\ e.blk[b].flags \cap DirtyOrWritten # {}
  BY Zenon, <1>1, <1>2 DEF DirtyOrWritten
<1>5. OneFile(c, e, b, f) BY <1>2 DEF OneFile
<1>6. Recount(c.blk[b], e.blk[b], c.file[f], e.file[f], f, b)
  <2>1. c.file[f].inCache \in Int /\ c.file[f].numDirty \in Int BY Zenon, <1>1, FileFields
  <2>2. One(e.blk[b].key # Nil) = 1 /\ One(c.blk[b].key # Nil) = 1 BY Zenon, <1>1, <1>2 DEF One
  <2> DEFINE x == One(e.blk[b].key # Nil /\ e.blk[b].flags \cap DirtyOrWritten # {})
             y == One(c.blk[b].key # Nil /\ c.blk[b].flags \cap DirtyOrWritten # {})
  <2>3. x = 1 /\ y = 1 BY Zenon, <1>1, <1>2, <1>4 DEF One
  <2>4. e.file[f].inCache = c.file[f].inCache + One(e.blk[b].key # Nil) - One(c.blk[b].key # Nil)
    <3>1. e.file[f].inCache = c.file[f].inCache BY Zenon, <1>3
    <3> QED BY <2>1, <2>2, <3>1
  <2>5. e.file[f].numDirty = c.file[f].numDirty + x - y
    <3>1. e.file[f].numDirty = c.file[f].numDirty BY Zenon, <1>3
    <3> HIDE DEF x, y
    <3> QED BY <2>1, <2>3, <3>1
  <2>6. /\ e.file[f].dirtyList \ {b} = c.file[f].dirtyList \ {b}
        /\ b \in e.file[f].dirtyList
    BY Zenon, <1>3
  <2> QED BY Zenon, <1>1, <1>2, <1>4, <2>4, <2>5, <2>6 DEF Recount
<1>7. e.avail = c.avail + One(IsFree(e.blk[b])) - One(IsFree(c.blk[b]))
  <2>1. ~IsFree(e.blk[b]) /\ ~IsFree(c.blk[b]) BY Zenon, <1>1, <1>4 DEF IsFree
  <2>2. One(IsFree(e.blk[b])) = 0 /\ One(IsFree(c.blk[b])) = 0 BY <2>1 DEF One
  <2>3. c.avail \in Int BY CacheFields
  <2>4. e.avail = c.avail BY <1>2
  <2> QED BY <2>2, <2>3, <2>4
<1>8. Relist(c.file[f], e.file[f]) BY Zenon, <1>3 DEF Relist
<1>9. HashStep(c, e, b) BY Zenon, <1>1, <1>2 DEF HashStep
<1>10. BlockOK(e, b) BY Zenon, <1>1, <1>2, <1>4 DEF BlockOK
<1>11. ~(c.avail < e.avail)
  <2>1. c.avail \in Int BY CacheFields
  <2>2. ~(c.avail < c.avail) BY <2>1
  <2> QED BY <1>2, <2>2
<1>12. Own(e.blk[b]) = Own(c.blk[b])
  <2>1. c.blk[b].ref \in Int BY Zenon, <1>1, BlockFields
  <2>2. One("BEING_WRITTEN" \in e.blk[b].flags) = 0 BY <1>4 DEF One
  <2>3. One("BEING_WRITTEN" \in c.blk[b].flags) = 1 BY Zenon, <1>1 DEF One
  <2>4. e.blk[b].ref = c.blk[b].ref - 1 BY <1>2
  <2> QED BY <2>1, <2>2, <2>3, <2>4 DEF Own
<1> QED BY Zenon, <1>2, <1>3, <1>4, <1>5, <1>6, <1>7, <1>8, <1>9, <1>10, <1>11, <1>12 DEF ReturnOK

\* WriteSucceeded on a clean block in elementary changes.
LEMMA CleanedIs ==
    ASSUME NEW w, NEW b, NEW f, ~Is(w, b, {"DIRTY"}), NEW e, e = CleanStart(w, b, f),
           NEW g, g = CleanFree(w, e, b, f)
    PROVE  WriteSucceeded(w, b, f) = Broadcast(SetNumDirty(g, f, g.file[f].numDirty - 1), CleanBlock)
<1>1. PutOnFreeList([e EXCEPT !.file[f].inCache = @ - 1], b)
        = Broadcast(Emptied(SetInCache(e, f, e.file[f].inCache - 1), b), CleanBlock)
  BY DEF PutOnFreeList, Emptied, SetInCache
<1>2. e = LET d == [w EXCEPT !.file[f].flags = @ \ Errors]
          IN  IF w.blk[b].ref = 0 THEN [d EXCEPT !.avail = @ + 1] ELSE d
  BY DEF CleanStart, SetFileFlags, SetAvail
<1>3. g = IF Is(w, b, {"DELETED"})
          THEN PutOnFreeList([e EXCEPT !.file[f].inCache = @ - 1], b) ELSE e
  BY <1>1 DEF CleanFree
<1>4. SetNumDirty(g, f, g.file[f].numDirty - 1) = [g EXCEPT !.file[f].numDirty = @ - 1]
  BY DEF SetNumDirty
<1> QED BY Zenon, <1>2, <1>3, <1>4 DEF WriteSucceeded

\* What the first half of it changes.
LEMMA CleanStartFacts ==
    ASSUME NEW w \in CacheT, NEW b \in Blocks, NEW f \in Files
    PROVE  LET e == CleanStart(w, b, f) IN
           /\ e \in CacheT /\ e.blk = w.blk /\ e.hash = w.hash /\ e.active = w.active
           /\ e.cleaner = w.cleaner /\ e.wake = w.wake
           /\ e.avail = w.avail + One(w.blk[b].ref = 0)
           /\ \A g \in Files \ {f} : e.file[g] = w.file[g]
           /\ e.file[f].flags = w.file[f].flags \ Errors
           /\ e.file[f].numDirty = w.file[f].numDirty /\ e.file[f].inCache = w.file[f].inCache
           /\ e.file[f].dirtyList = w.file[f].dirtyList
<1> DEFINE F == w.file[f].flags \ Errors
           x == SetFileFlags(w, f, F)
           y == SetAvail(x, x.avail + 1)
<1>1. F \in SUBSET FileFlags BY FileFields
<1> HIDE DEF F
<1>2. /\ x \in CacheT /\ \A g \in Files \ {f} : x.file[g] = w.file[g]
      /\ x.file[f].flags = F
      /\ x.file[f].numDirty = w.file[f].numDirty /\ x.file[f].inCache = w.file[f].inCache /\ x.file[f].dirtyList = w.file[f].dirtyList
      /\ x.blk = w.blk /\ x.hash = w.hash /\ x.avail = w.avail
      /\ x.active = w.active /\ x.cleaner = w.cleaner /\ x.wake = w.wake
  BY <1>1, SetFileFlagsFacts
<1>3. w.avail \in Int BY CacheFields
<1> HIDE DEF x
<1>4. CASE w.blk[b].ref = 0
  <2>1. CleanStart(w, b, f) = y BY <1>4 DEF CleanStart, F, x
  <2>2. x.avail + 1 \in Int BY <1>2, <1>3
  <2>3. /\ y \in CacheT /\ y.blk = x.blk
        /\ y.hash = x.hash
        /\ y.file = x.file /\ y.avail = x.avail + 1
        /\ y.active = x.active /\ y.cleaner = x.cleaner
        /\ y.wake = x.wake
    BY <1>2, <2>2, SetAvailFacts
  <2>4. One(w.blk[b].ref = 0) = 1 BY <1>4 DEF One
  <2> HIDE DEF y
  <2> QED BY <1>2, <2>1, <2>3, <2>4 DEF F
<1>5. CASE w.blk[b].ref # 0
  <2>1. CleanStart(w, b, f) = x BY <1>5 DEF CleanStart, F, x
  <2>2. One(w.blk[b].ref = 0) = 0 BY <1>5 DEF One
  <2>3. x.avail = w.avail + One(w.blk[b].ref = 0) BY <1>2, <1>3, <2>2
  <2> QED BY <1>2, <2>1, <2>3 DEF F
<1> QED BY <1>4, <1>5

\* What freeing a deleted block changes.
LEMMA CleanFreeFacts ==
    ASSUME NEW w \in CacheT, NEW b \in Blocks, NEW f \in Files, NEW e \in CacheT, e.blk = w.blk
    PROVE  LET g == CleanFree(w, e, b, f) IN
           /\ g \in CacheT /\ g.hash = e.hash /\ g.active = e.active
           /\ g.cleaner = e.cleaner /\ e.wake \subseteq g.wake /\ g.avail = e.avail
           /\ \A a \in Blocks \ {b} : g.blk[a] = w.blk[a]
           /\ g.blk[b].ref = w.blk[b].ref
           /\ IF "DELETED" \in w.blk[b].flags
              THEN g.blk[b].key = Nil /\ g.blk[b].flags = {"FREE"}
              ELSE g.blk[b].key = w.blk[b].key /\ g.blk[b].flags = w.blk[b].flags
           /\ \A h \in Files \ {f} : g.file[h] = e.file[h]
           /\ g.file[f].inCache = e.file[f].inCache - One("DELETED" \in w.blk[b].flags)
           /\ g.file[f].numDirty = e.file[f].numDirty /\ g.file[f].dirtyList = e.file[f].dirtyList
           /\ g.file[f].flags = e.file[f].flags
<1> DEFINE n == e.file[f].inCache - 1
           x == SetInCache(e, f, n)
           y == Emptied(x, b)
           z == Broadcast(y, CleanBlock)
<1>1. e.file[f].inCache \in Int BY FileFields
<1>2. n \in Int BY <1>1
<1> HIDE DEF n
<1>3. /\ x \in CacheT /\ \A g \in Files \ {f} : x.file[g] = e.file[g]
      /\ x.file[f].inCache = n
      /\ x.file[f].numDirty = e.file[f].numDirty /\ x.file[f].dirtyList = e.file[f].dirtyList /\ x.file[f].flags = e.file[f].flags
      /\ x.blk = e.blk /\ x.hash = e.hash /\ x.avail = e.avail
      /\ x.active = e.active /\ x.cleaner = e.cleaner /\ x.wake = e.wake
  BY <1>2, SetInCacheFacts
<1> HIDE DEF x
<1>4. /\ y \in CacheT /\ \A a \in Blocks \ {b} : y.blk[a] = x.blk[a]
      /\ y.blk[b].key = Nil /\ y.blk[b].flags = {"FREE"} /\ y.blk[b].ref = x.blk[b].ref
      /\ y.hash = x.hash /\ y.file = x.file /\ y.avail = x.avail
      /\ y.active = x.active /\ y.cleaner = x.cleaner /\ y.wake = x.wake
  BY <1>3, EmptyStep DEF EmptyDone
<1> HIDE DEF y
<1>5. /\ z \in CacheT /\ z.blk = y.blk /\ z.hash = y.hash
      /\ z.file = y.file /\ z.avail = y.avail
      /\ z.active = y.active /\ z.cleaner = y.cleaner
      /\ z.wake = y.wake \cup {CleanBlock}
  BY <1>4, BroadcastFacts, EventTypes
<1> HIDE DEF z
<1>6. CASE "DELETED" \in w.blk[b].flags
  <2>1. CleanFree(w, e, b, f) = z BY <1>6 DEF CleanFree, Is, z, y, x, n
  <2>2. One("DELETED" \in w.blk[b].flags) = 1 BY <1>6 DEF One
  <2>3. /\ z \in CacheT /\ z.hash = e.hash /\ z.active = e.active
        /\ z.cleaner = e.cleaner /\ e.wake \subseteq z.wake /\ z.avail = e.avail
        /\ \A a \in Blocks \ {b} : z.blk[a] = w.blk[a]
        /\ z.blk[b].ref = w.blk[b].ref /\ z.blk[b].key = Nil /\ z.blk[b].flags = {"FREE"}
    BY <1>3, <1>4, <1>5
  <2>4. /\ \A h \in Files \ {f} : z.file[h] = e.file[h]
        /\ z.file[f].inCache = e.file[f].inCache - 1
        /\ z.file[f].numDirty = e.file[f].numDirty /\ z.file[f].dirtyList = e.file[f].dirtyList
        /\ z.file[f].flags = e.file[f].flags
    BY <1>3, <1>4, <1>5 DEF n
  <2> QED BY <1>6, <2>1, <2>2, <2>3, <2>4
<1>7. CASE "DELETED" \notin w.blk[b].flags
  <2>1. CleanFree(w, e, b, f) = e BY <1>7 DEF CleanFree, Is
  <2>2. One("DELETED" \in w.blk[b].flags) = 0 BY <1>7 DEF One
  <2>3. e.file[f].inCache = e.file[f].inCache - One("DELETED" \in w.blk[b].flags) BY <1>1, <2>2
  <2> QED BY <1>7, <2>1, <2>3
<1> QED BY <1>6, <1>7

\* What WriteSucceeded changes on a clean block.
LEMMA CleanedStep ==
    ASSUME NEW w \in CacheT, NEW b \in Blocks, NEW f \in Files, "DIRTY" \notin w.blk[b].flags
    PROVE  CleanedDone(w, WriteSucceeded(w, b, f), b, f)
<1> DEFINE e == CleanStart(w, b, f)
           g == CleanFree(w, e, b, f)
           n == g.file[f].numDirty - 1
           x == SetNumDirty(g, f, n)
           y == Broadcast(x, CleanBlock)
<1>1. WriteSucceeded(w, b, f) = y
  <2>1. ~Is(w, b, {"DIRTY"}) BY DEF Is
  <2> QED BY <2>1, CleanedIs
<1>2. /\ e \in CacheT /\ e.blk = w.blk /\ e.hash = w.hash /\ e.active = w.active
      /\ e.cleaner = w.cleaner /\ e.wake = w.wake
      /\ e.avail = w.avail + One(w.blk[b].ref = 0)
      /\ \A h \in Files \ {f} : e.file[h] = w.file[h]
      /\ e.file[f].flags = w.file[f].flags \ Errors
      /\ e.file[f].numDirty = w.file[f].numDirty /\ e.file[f].inCache = w.file[f].inCache
      /\ e.file[f].dirtyList = w.file[f].dirtyList
  BY CleanStartFacts
<1> HIDE DEF e
<1>3. /\ g \in CacheT /\ g.hash = e.hash /\ g.active = e.active
      /\ g.cleaner = e.cleaner /\ e.wake \subseteq g.wake /\ g.avail = e.avail
      /\ \A a \in Blocks \ {b} : g.blk[a] = w.blk[a]
      /\ g.blk[b].ref = w.blk[b].ref
      /\ IF "DELETED" \in w.blk[b].flags
         THEN g.blk[b].key = Nil /\ g.blk[b].flags = {"FREE"}
         ELSE g.blk[b].key = w.blk[b].key /\ g.blk[b].flags = w.blk[b].flags
      /\ \A h \in Files \ {f} : g.file[h] = e.file[h]
      /\ g.file[f].inCache = e.file[f].inCache - One("DELETED" \in w.blk[b].flags)
      /\ g.file[f].numDirty = e.file[f].numDirty /\ g.file[f].dirtyList = e.file[f].dirtyList
      /\ g.file[f].flags = e.file[f].flags
  BY <1>2, CleanFreeFacts
<1> HIDE DEF g
<1>4. n \in Int
  <2>1. g.file[f].numDirty \in Int BY <1>3, FileFields
  <2> QED BY <2>1
<1>5. n = w.file[f].numDirty - 1 BY <1>2, <1>3
<1> HIDE DEF n
<1>6. /\ x \in CacheT /\ \A h \in Files \ {f} : x.file[h] = g.file[h]
      /\ x.file[f].numDirty = n
      /\ x.file[f].inCache = g.file[f].inCache /\ x.file[f].dirtyList = g.file[f].dirtyList /\ x.file[f].flags = g.file[f].flags
      /\ x.blk = g.blk /\ x.hash = g.hash /\ x.avail = g.avail
      /\ x.active = g.active /\ x.cleaner = g.cleaner /\ x.wake = g.wake
  BY <1>3, <1>4, SetNumDirtyFacts
<1> HIDE DEF x
<1>7. /\ y \in CacheT /\ y.blk = x.blk /\ y.hash = x.hash
      /\ y.file = x.file /\ y.avail = x.avail
      /\ y.active = x.active /\ y.cleaner = x.cleaner
      /\ y.wake = x.wake \cup {CleanBlock}
  BY <1>6, BroadcastFacts, EventTypes
<1> HIDE DEF y
<1>8. /\ y \in CacheT /\ y.hash = w.hash
      /\ \A a \in Blocks \ {b} : y.blk[a] = w.blk[a]
      /\ y.blk[b].ref = w.blk[b].ref
      /\ y.avail = w.avail + One(w.blk[b].ref = 0)
      /\ y.active = w.active /\ y.cleaner = w.cleaner /\ w.wake \cup {CleanBlock} \subseteq y.wake
  BY <1>2, <1>3, <1>6, <1>7
<1>9. /\ \A h \in Files \ {f} : y.file[h] = w.file[h]
      /\ y.file[f].numDirty = w.file[f].numDirty - 1
      /\ y.file[f].inCache = w.file[f].inCache - One("DELETED" \in w.blk[b].flags)
      /\ y.file[f].dirtyList = w.file[f].dirtyList
      /\ y.file[f].flags = w.file[f].flags \ Errors
  BY <1>2, <1>3, <1>5, <1>6, <1>7
<1>10. IF "DELETED" \in w.blk[b].flags
       THEN y.blk[b].key = Nil /\ y.blk[b].flags = {"FREE"}
       ELSE y.blk[b].key = w.blk[b].key /\ y.blk[b].flags = w.blk[b].flags
  BY <1>3, <1>6, <1>7
<1> QED BY <1>1, <1>8, <1>9, <1>10 DEF CleanedDone

\* The written block counts as a clean one, or as none when it is freed.
LEMMA CleanedCounts ==
    ASSUME NEW c \in CacheT, CacheInv(c), NEW s \in Slots, c.cleaner[s].pc = "returnBlock",
           NEW f, f = c.cleaner[s].file, NEW b, b = c.cleaner[s].blk,
           "DIRTY" \notin c.blk[b].flags,
           NEW w, WrittenDone(c, w, b), NEW e, CleanedDone(w, e, b, f)
    PROVE  /\ Recount(c.blk[b], e.blk[b], c.file[f], e.file[f], f, b)
           /\ e.avail = c.avail + One(IsFree(e.blk[b])) - One(IsFree(c.blk[b]))
           /\ Own(e.blk[b]) = Own(c.blk[b])
           /\ c.avail < e.avail => CleanBlock \in e.wake
<1>1. /\ f \in Files /\ b \in Blocks /\ c.blk[b].key # Nil /\ c.blk[b].key[1] = f
      /\ "BEING_WRITTEN" \in c.blk[b].flags /\ b \notin c.file[f].dirtyList
      /\ c.blk[b].flags \cap DirtyOrWritten # {}
  BY CleanersBlock
<1>2. /\ w.blk[b].key = c.blk[b].key /\ w.blk[b].ref = c.blk[b].ref - 1
      /\ w.blk[b].flags = c.blk[b].flags \ {"BEING_WRITTEN"}
      /\ w.file = c.file /\ w.avail = c.avail
  BY DEF WrittenDone
<1>3. /\ e.blk[b].ref = w.blk[b].ref
      /\ IF "DELETED" \in w.blk[b].flags
         THEN e.blk[b].key = Nil /\ e.blk[b].flags = {"FREE"}
         ELSE e.blk[b].key = w.blk[b].key /\ e.blk[b].flags = w.blk[b].flags
      /\ e.avail = w.avail + One(w.blk[b].ref = 0)
      /\ e.file[f].numDirty = w.file[f].numDirty - 1
      /\ e.file[f].inCache = w.file[f].inCache - One("DELETED" \in w.blk[b].flags)
      /\ e.file[f].dirtyList = w.file[f].dirtyList
      /\ CleanBlock \in e.wake
  BY Zenon DEF CleanedDone
<1>4. e.blk[b].flags \cap DirtyOrWritten = {} BY Zenon, <1>2, <1>3 DEF DirtyOrWritten
<1> DEFINE x == One(e.blk[b].key # Nil)
           y == One(c.blk[b].key # Nil)
           u == One(e.blk[b].key # Nil /\ e.blk[b].flags \cap DirtyOrWritten # {})
           v == One(c.blk[b].key # Nil /\ c.blk[b].flags \cap DirtyOrWritten # {})
           z == One("DELETED" \in w.blk[b].flags)
<1>5. y = 1 /\ u = 0 /\ v = 1 BY Zenon, <1>1, <1>4 DEF One
<1>6. x = 1 - z
  <2>1. CASE "DELETED" \in w.blk[b].flags
    <3>1. x = 0 /\ z = 1 BY <1>3, <2>1 DEF One
    <3> HIDE DEF x, z
    <3> QED BY <3>1
  <2>2. CASE "DELETED" \notin w.blk[b].flags
    <3>1. x = 1 /\ z = 0 BY Zenon, <1>1, <1>2, <1>3, <2>2 DEF One
    <3> HIDE DEF x, z
    <3> QED BY <3>1
  <2> QED BY <2>1, <2>2
<1>7. z \in Int BY DEF One
<1>8. c.file[f].inCache \in Int /\ c.file[f].numDirty \in Int /\ c.avail \in Int /\ c.blk[b].ref \in Int
  BY <1>1, FileFields, BlockFields, CacheFields
<1>9. e.file[f].inCache = c.file[f].inCache - z /\ e.file[f].numDirty = c.file[f].numDirty - 1
  BY Zenon, <1>2, <1>3
<1>10. Recount(c.blk[b], e.blk[b], c.file[f], e.file[f], f, b)
  <2>1. e.file[f].inCache = c.file[f].inCache + x - y /\ e.file[f].numDirty = c.file[f].numDirty + u - v
    <3> HIDE DEF x, y, z, u, v
    <3> QED BY <1>5, <1>6, <1>7, <1>8, <1>9
  <2>2. c.blk[b].key[1] = f /\ (e.blk[b].key = Nil \/ e.blk[b].key[1] = f) BY Zenon, <1>1, <1>2, <1>3
  <2>3. e.file[f].dirtyList = c.file[f].dirtyList BY Zenon, <1>2, <1>3
  <2>4. "DIRTY" \notin e.blk[b].flags BY <1>4 DEF DirtyOrWritten
  <2> QED BY Zenon, <1>1, <2>1, <2>2, <2>3, <2>4 DEF Recount
<1>11. e.avail = c.avail + One(IsFree(e.blk[b])) - One(IsFree(c.blk[b]))
  <2> DEFINE m == One(IsFree(e.blk[b]))
             n == One(IsFree(c.blk[b]))
             r == One(w.blk[b].ref = 0)
  <2>1. n = 0 BY <1>1 DEF IsFree, One
  <2>2. m = r BY Zenon, <1>3, <1>4 DEF IsFree, One
  <2>3. r \in Int BY DEF One
  <2>4. e.avail = c.avail + r BY Zenon, <1>2, <1>3
  <2>5. e.avail = c.avail + m - n
    <3> HIDE DEF m, n, r
    <3> QED BY <1>8, <2>1, <2>2, <2>3, <2>4
  <2> QED BY <2>5
<1>12. Own(e.blk[b]) = Own(c.blk[b])
  <2>1. "BEING_WRITTEN" \notin e.blk[b].flags BY <1>4 DEF DirtyOrWritten
  <2>2. One("BEING_WRITTEN" \in e.blk[b].flags) = 0 /\ One("BEING_WRITTEN" \in c.blk[b].flags) = 1
    BY <1>1, <2>1 DEF One
  <2>3. e.blk[b].ref = c.blk[b].ref - 1 BY Zenon, <1>2, <1>3
  <2> QED BY <1>8, <2>2, <2>3 DEF Own
<1> QED BY Zenon, <1>3, <1>10, <1>11, <1>12

\* Leaving the block clean is a way to return it.
LEMMA CleanedOK ==
    ASSUME NEW c \in CacheT, CacheInv(c), NEW s \in Slots, c.cleaner[s].pc = "returnBlock",
           NEW f, f = c.cleaner[s].file, NEW b, b = c.cleaner[s].blk,
           "DIRTY" \notin c.blk[b].flags, "DELETED" \in c.blk[b].flags => c.blk[b].ref = 1,
           NEW w, WrittenDone(c, w, b), NEW e, CleanedDone(w, e, b, f)
    PROVE  ReturnOK(c, e, b, f)
<1>1. /\ f \in Files /\ b \in Blocks /\ c.blk[b].key # Nil /\ c.blk[b].key[1] = f
      /\ c.blk[b].key \in Keys
      /\ "BEING_WRITTEN" \in c.blk[b].flags /\ "FREE" \notin c.blk[b].flags
      /\ "BEING_WRITTEN" \in c.file[f].flags /\ "ON_DIRTY_LIST" \notin c.file[f].flags
      /\ c.hash[c.blk[b].key] = b <=> "DELETED" \notin c.blk[b].flags
      /\ \A k \in Keys : c.hash[k] = b => k = c.blk[b].key
  BY SMTT(30), CleanersBlock
<1>2. /\ w.hash = c.hash /\ \A a \in Blocks \ {b} : w.blk[a] = c.blk[a]
      /\ w.blk[b].key = c.blk[b].key /\ w.blk[b].ref = c.blk[b].ref - 1
      /\ w.blk[b].flags = c.blk[b].flags \ {"BEING_WRITTEN"}
      /\ w.active = c.active /\ w.cleaner = c.cleaner /\ w.wake = c.wake \cup {IODone(b)}
      /\ w.file = c.file
  BY DEF WrittenDone
<1>3. /\ e \in CacheT /\ e.hash = w.hash /\ \A a \in Blocks \ {b} : e.blk[a] = w.blk[a]
      /\ e.blk[b].ref = w.blk[b].ref
      /\ e.active = w.active /\ e.cleaner = w.cleaner /\ w.wake \cup {CleanBlock} \subseteq e.wake
  BY Zenon DEF CleanedDone
<1>4. IF "DELETED" \in w.blk[b].flags
      THEN e.blk[b].key = Nil /\ e.blk[b].flags = {"FREE"}
      ELSE e.blk[b].key = w.blk[b].key /\ e.blk[b].flags = w.blk[b].flags
  BY Zenon DEF CleanedDone
<1>5. /\ \A g \in Files \ {f} : e.file[g] = w.file[g]
      /\ e.file[f].numDirty = w.file[f].numDirty - 1
      /\ e.file[f].flags = w.file[f].flags \ Errors
  BY Zenon DEF CleanedDone
<1>6. OneFile(c, e, b, f) BY ZenonT(40), <1>2, <1>3, <1>5 DEF OneFile
<1>7. /\ "BEING_WRITTEN" \in e.file[f].flags /\ "ON_DIRTY_LIST" \notin e.file[f].flags
      /\ e.file[f].flags \cap Usage = c.file[f].flags \cap Usage
  BY Zenon, <1>1, <1>2, <1>5 DEF Errors, Usage
<1>8. Relist(c.file[f], e.file[f])
  <2>1. c.file[f].numDirty \in Int BY <1>1, FileFields
  <2>2. e.file[f].numDirty = c.file[f].numDirty - 1 BY Zenon, <1>2, <1>5
  <2> QED BY Zenon, <1>7, <2>1, <2>2 DEF Relist
<1>9. "DELETED" \in w.blk[b].flags <=> "DELETED" \in c.blk[b].flags BY <1>2
<1>10. HashStep(c, e, b) /\ BlockOK(e, b)
  <2>1. CASE "DELETED" \in c.blk[b].flags
    <3>1. e.blk[b].key = Nil /\ e.blk[b].flags = {"FREE"} BY <1>4, <1>9, <2>1
    <3>2. e.blk[b].ref = 0
      <4>1. c.blk[b].ref = 1 BY <2>1
      <4>2. e.blk[b].ref = c.blk[b].ref - 1 BY Zenon, <1>2, <1>3
      <4> QED BY <4>1, <4>2
    <3>3. e.hash = c.hash BY <1>2, <1>3, Zenon
    <3>4. ASSUME NEW k \in Keys, c.hash[k] = b
          PROVE  FALSE
      <4>1. k = c.blk[b].key BY <1>1, <3>4
      <4>2. c.hash[c.blk[b].key] # b BY Zenon, <1>1, <2>1
      <4> QED BY <3>4, <4>1, <4>2
    <3>5. HashStep(c, e, b) BY <3>3, <3>4 DEF HashStep
    <3> QED BY <3>1, <3>2, <3>5 DEF BlockOK
  <2>2. CASE "DELETED" \notin c.blk[b].flags
    <3>1. e.blk[b].key = c.blk[b].key /\ e.blk[b].flags = c.blk[b].flags \ {"BEING_WRITTEN"}
      BY Zenon, <1>2, <1>4, <1>9, <2>2
    <3>2. e.hash = c.hash BY <1>2, <1>3
    <3>3. HashStep(c, e, b) BY Zenon, <1>1, <3>1, <3>2 DEF HashStep
    <3> QED BY Zenon, <1>1, <2>2, <3>1, <3>2, <3>3 DEF BlockOK
  <2> QED BY <2>1, <2>2
<1>11. "BEING_WRITTEN" \notin e.blk[b].flags
       /\ ("IO_IN_PROGRESS" \in e.blk[b].flags => "IO_IN_PROGRESS" \in c.blk[b].flags)
  <2>1. CASE "DELETED" \in w.blk[b].flags
    <3>1. e.blk[b].flags = {"FREE"} BY <1>4, <2>1
    <3> QED BY <3>1
  <2>2. CASE "DELETED" \notin w.blk[b].flags
    <3>1. e.blk[b].flags = c.blk[b].flags \ {"BEING_WRITTEN"} BY Zenon, <1>2, <1>4, <2>2
    <3> QED BY <3>1
  <2> QED BY <2>1, <2>2
<1>12. Own(c.blk[b]) # 0 =>
          /\ e.blk[b].key = c.blk[b].key /\ e.hash = c.hash
          /\ "IO_IN_PROGRESS" \in c.blk[b].flags => "IO_IN_PROGRESS" \in e.blk[b].flags
  <2>1. CASE "DELETED" \in c.blk[b].flags
    <3>1. One("BEING_WRITTEN" \in c.blk[b].flags) = 1 BY <1>1 DEF One
    <3>2. c.blk[b].ref = 1 BY <2>1
    <3> QED BY <3>1, <3>2 DEF Own
  <2>2. CASE "DELETED" \notin c.blk[b].flags BY Zenon, <1>2, <1>3, <1>4, <1>9, <2>2
  <2> QED BY <2>1, <2>2
<1>13. /\ Recount(c.blk[b], e.blk[b], c.file[f], e.file[f], f, b)
       /\ e.avail = c.avail + One(IsFree(e.blk[b])) - One(IsFree(c.blk[b]))
       /\ Own(e.blk[b]) = Own(c.blk[b])
       /\ c.avail < e.avail => CleanBlock \in e.wake
  BY CleanedCounts
<1>14. c.wake \subseteq e.wake /\ IODone(b) \in e.wake /\ e.cleaner = c.cleaner /\ e.active = c.active
  BY <1>2, <1>3
<1> QED BY Zenon, <1>3, <1>6, <1>7, <1>8, <1>10, <1>11, <1>12, <1>13, <1>14 DEF ReturnOK

\* A block to be written later, in elementary changes.
LEMMA LaterIs ==
    ASSUME NEW w, NEW b, NEW f, NEW st
    PROVE  /\ Is(w, b, {"DIRTY"}) =>
                WriteSucceeded(w, b, f) = Later(SetFileFlags(w, f, w.file[f].flags \ Errors), b)
           /\ st # "ok" => Returned(w, b, f, st) = Later(SetFileFlags(w, f, Failed(w.file[f].flags, st)), b)
<1>1. Is(w, b, {"DIRTY"}) =>
        WriteSucceeded(w, b, f) = Later(SetFileFlags(w, f, w.file[f].flags \ Errors), b)
  BY DEF WriteSucceeded, SetFileFlags, Later
<1>2. [w EXCEPT !.file[f].flags = @ \cup {st}] = SetFileFlags(w, f, Failed(w.file[f].flags, st))
  BY DEF SetFileFlags, Failed
<1> QED BY <1>1, <1>2 DEF Returned, Later

\* Again in terms of Later.
LEMMA AgainIs ==
    ASSUME NEW c, NEW b, NEW f, NEW F
    PROVE  Again(c, b, f, F) = Later(SetFileFlags(Written(c, b), f, F), b)
BY DEF Again, Later

\* A block that was changed meanwhile is listed again.
LEMMA ReturnedAgain ==
    ASSUME NEW c, NEW b, NEW f, NEW st
    PROVE  /\ st = "ok" /\ Is(Written(c, b), b, {"DIRTY"}) =>
                Returned(Written(c, b), b, f, st) = Again(c, b, f, Written(c, b).file[f].flags \ Errors)
           /\ st # "ok" =>
                Returned(Written(c, b), b, f, st) = Again(c, b, f, Failed(Written(c, b).file[f].flags, st))
<1> DEFINE w == Written(c, b)
           F == w.file[f].flags \ Errors
           G == Failed(w.file[f].flags, st)
<1>1. st = "ok" => Returned(w, b, f, st) = WriteSucceeded(w, b, f) BY DEF Returned
<1>2. Again(c, b, f, F) = Later(SetFileFlags(w, f, F), b) BY AgainIs
<1>3. Again(c, b, f, G) = Later(SetFileFlags(w, f, G), b) BY AgainIs
<1>4. Is(w, b, {"DIRTY"}) => WriteSucceeded(w, b, f) = Later(SetFileFlags(w, f, F), b)
  BY LaterIs
<1>5. st # "ok" => Returned(w, b, f, st) = Later(SetFileFlags(w, f, G), b) BY LaterIs
<1> QED BY <1>1, <1>2, <1>3, <1>4, <1>5

\* A block that could not be written is listed again.
LEMMA ReturnedFailed ==
    ASSUME NEW c, NEW b, NEW f, NEW st, st # "ok"
    PROVE  Returned(Written(c, b), b, f, st) = Again(c, b, f, Failed(Written(c, b).file[f].flags, st))
<1> DEFINE w == Written(c, b)
           G == Failed(w.file[f].flags, st)
<1>1. Again(c, b, f, G) = Later(SetFileFlags(w, f, G), b) BY AgainIs
<1>2. st # "ok" => Returned(w, b, f, st) = Later(SetFileFlags(w, f, G), b) BY LaterIs
<1> QED BY <1>1, <1>2

\* Fscache_ReturnDirtyBlock returns the block properly.
LEMMA ReturnedOK ==
    ASSUME NEW c \in CacheT, CacheInv(c), NEW s \in Slots, c.cleaner[s].pc = "returnBlock",
           NEW f, f = c.cleaner[s].file, NEW b, b = c.cleaner[s].blk,
           "DELETED" \in c.blk[b].flags => c.blk[b].ref = 1,
           NEW st, st = c.cleaner[s].status
    PROVE  ReturnOK(c, Returned(Written(c, b), b, f, st), b, f)
<1> DEFINE w == Written(c, b)
           e == Returned(w, b, f, st)
<1>1. /\ f \in Files /\ b \in Blocks /\ c.blk[b].key # Nil /\ c.blk[b].key[1] = f
      /\ "BEING_WRITTEN" \in c.file[f].flags /\ "ON_DIRTY_LIST" \notin c.file[f].flags
  BY CleanersBlock
<1>2. WrittenDone(c, w, b) BY <1>1, WrittenStep
<1>3. w \in CacheT /\ w.file = c.file /\ w.blk[b].flags = c.blk[b].flags \ {"BEING_WRITTEN"}
  BY Zenon, <1>2 DEF WrittenDone
<1>4. st \in Errors \cup {"ok"} /\ c.file[f].flags \in SUBSET FileFlags
  BY <1>1, CleanerFields, FileFields
<1>5. ASSUME NEW F, \/ F = w.file[f].flags \ Errors
                    \/ st # "ok" /\ F = Failed(w.file[f].flags, st),
             e = Again(c, b, f, F)
      PROVE  ReturnOK(c, e, b, f)
  <2>1. /\ F \in SUBSET FileFlags /\ "BEING_WRITTEN" \in F /\ "ON_DIRTY_LIST" \notin F
        /\ F \cap Usage = c.file[f].flags \cap Usage
    BY Zenon, <1>1, <1>3, <1>4, <1>5 DEF Errors, Usage, FileFlags, Failed
  <2>2. AgainDone(c, Again(c, b, f, F), b, f) BY <1>1, <2>1, AgainStep
  <2> QED BY <1>5, <2>2, AgainOK
<1>6. CASE st = "ok" /\ ~Is(w, b, {"DIRTY"})
  <2>1. e = WriteSucceeded(w, b, f) BY <1>6 DEF Returned
  <2>2. "DIRTY" \notin w.blk[b].flags /\ "DIRTY" \notin c.blk[b].flags BY <1>3, <1>6 DEF Is
  <2>3. CleanedDone(w, WriteSucceeded(w, b, f), b, f) BY <1>1, <1>3, <2>2, CleanedStep
  <2> QED BY <1>2, <2>1, <2>2, <2>3, CleanedOK
<1>7. CASE st = "ok" /\ Is(w, b, {"DIRTY"})
  <2>1. e = Again(c, b, f, w.file[f].flags \ Errors) BY <1>7, ReturnedAgain
  <2> QED BY Zenon, <1>5, <2>1
<1>8. CASE st # "ok"
  <2>1. e = Again(c, b, f, Failed(w.file[f].flags, st)) BY <1>8, ReturnedFailed
  <2> QED BY <1>5, <1>8, <2>1
<1> QED BY <1>6, <1>7, <1>8

----------------------------------------------------------------------------
(* What processes hold.                                                    *)
\* The users of a block before and after a step.
LEMMA UsersAre ==
    ASSUME NEW pr \in ProcsT, NEW p \in Procs, NEW x \in ProcT, NEW qr, qr = [pr EXCEPT ![p] = x],
           NEW b \in Blocks
    PROVE  /\ IsFiniteSet(Users(pr, b)) /\ IsFiniteSet(Users(qr, b))
           /\ Cardinality(Users(pr, b)) \in Nat /\ Cardinality(Users(qr, b)) \in Nat
           /\ UsersMove(pr, qr, p, x, b)
           /\ p \in Users(qr, b) <=> x.blk = b
           /\ \A q \in Procs \ {p} : q \in Users(qr, b) <=> q \in Users(pr, b)
<1>1. IsFiniteSet(Users(pr, b)) BY Finite, FS_Subset DEF Users
<1>2. qr[p] = x /\ \A q \in Procs \ {p} : qr[q] = pr[q] BY DEF ProcsT
<1>3. /\ p \in Users(qr, b) <=> x.blk = b
      /\ p \in Users(pr, b) <=> pr[p].blk = b
      /\ \A q \in Procs \ {p} : q \in Users(qr, b) <=> q \in Users(pr, b)
  BY <1>2 DEF Users
<1>4. Users(qr, b) \ {p} = Users(pr, b) \ {p} BY <1>2 DEF Users
<1>5. IsFiniteSet(Users(qr, b)) /\ Cardinality(Users(qr, b)) = Cardinality(Users(pr, b))
          + (IF p \in Users(qr, b) THEN 1 ELSE 0) - (IF p \in Users(pr, b) THEN 1 ELSE 0)
      /\ Cardinality(Users(pr, b)) \in Nat /\ Cardinality(Users(qr, b)) \in Nat
  <2> DEFINE S == Users(pr, b)
             T == Users(qr, b)
  <2>1. IsFiniteSet(S) /\ T \ {p} = S \ {p} BY <1>1, <1>4
  <2> HIDE DEF S, T
  <2>2. IsFiniteSet(T) /\ Cardinality(T) = Cardinality(S) + (IF p \in T THEN 1 ELSE 0) - (IF p \in S THEN 1 ELSE 0)
        /\ Cardinality(S) \in Nat /\ Cardinality(T) \in Nat
    BY <2>1, CardOne, Zenon
  <2> QED BY <2>2 DEF S, T
<1>6. UsersMove(pr, qr, p, x, b) BY <1>3, <1>5 DEF UsersMove, One
<1> QED BY <1>1, <1>3, <1>5, <1>6

\* Of the users of a block.
LEMMA UsersOf ==
    ASSUME NEW pr, NEW b
    PROVE  /\ IsFiniteSet(Users(pr, b)) /\ Cardinality(Users(pr, b)) \in Nat
           /\ Users(pr, b) # {} => Cardinality(Users(pr, b)) > 0
           /\ \A p \in Users(pr, b) :
                 Cardinality(Users(pr, b)) = 1 <=> \A q \in Users(pr, b) : q = p
<1>1. IsFiniteSet(Users(pr, b)) BY Finite, FS_Subset DEF Users
<1>2. Cardinality(Users(pr, b)) \in Nat /\ (Cardinality(Users(pr, b)) = 0 <=> Users(pr, b) = {})
  BY <1>1, FS_CardinalityType, FS_EmptySet
<1>3. ASSUME NEW p \in Users(pr, b)
      PROVE  Cardinality(Users(pr, b)) = 1 <=> \A q \in Users(pr, b) : q = p
  <2>1. Cardinality(Users(pr, b)) = 1 <=> \E x : Users(pr, b) = {x} BY <1>1, FS_Singleton
  <2>2. (\E x : Users(pr, b) = {x}) <=> \A q \in Users(pr, b) : q = p
    <3>1. ASSUME \A q \in Users(pr, b) : q = p
          PROVE  Users(pr, b) = {p}
      BY <3>1
    <3> QED BY <3>1
  <2> QED BY <2>1, <2>2
<1> QED BY <1>1, <1>2, <1>3

\* The references to a block are its users and its cleaner.
LEMMA OwnIs ==
    ASSUME NEW c \in CacheT, NEW pr, NEW b \in Blocks
    PROVE  /\ Own(c.blk[b]) \in Int
           /\ c.blk[b].ref = Own(c.blk[b]) + One("BEING_WRITTEN" \in c.blk[b].flags)
           /\ RefCounts(c, pr) => Own(c.blk[b]) = Cardinality(Users(pr, b))
<1> DEFINE w == One("BEING_WRITTEN" \in c.blk[b].flags)
<1>1. w \in Int /\ c.blk[b].ref \in Int
  <2>1. c.blk[b].ref \in Int BY BlockFields
  <2>2. w \in Int BY DEF One
  <2> QED BY <2>1, <2>2
<1>2. Own(c.blk[b]) = c.blk[b].ref - w BY DEF Own
<1>3. RefCounts(c, pr) => c.blk[b].ref = Cardinality(Users(pr, b)) + w
  <2>1. CASE "BEING_WRITTEN" \in c.blk[b].flags
    <3>1. w = 1 BY <2>1 DEF One
    <3>2. RefCounts(c, pr) => c.blk[b].ref = Cardinality(Users(pr, b)) + 1
      BY <2>1 DEF RefCounts, Is, One
    <3> QED BY <3>1, <3>2
  <2>2. CASE "BEING_WRITTEN" \notin c.blk[b].flags
    <3>1. w = 0 BY <2>2 DEF One
    <3>2. RefCounts(c, pr) => c.blk[b].ref = Cardinality(Users(pr, b)) + 0
      BY <2>2 DEF RefCounts, Is, One
    <3> QED BY <3>1, <3>2
  <2> QED BY <2>1, <2>2
<1>4. Cardinality(Users(pr, b)) \in Int BY UsersOf
<1>5. /\ Own(c.blk[b]) \in Int /\ c.blk[b].ref = Own(c.blk[b]) + w
      /\ RefCounts(c, pr) => Own(c.blk[b]) = Cardinality(Users(pr, b))
  <2> HIDE DEF w
  <2> QED BY <1>1, <1>2, <1>3, <1>4
<1> QED BY <1>5

\* Counts of users make reference counts.
LEMMA RefsCounted ==
    ASSUME NEW c \in CacheT, NEW pr, \A b \in Blocks : Own(c.blk[b]) = Cardinality(Users(pr, b))
    PROVE  RefCounts(c, pr)
<1> SUFFICES ASSUME NEW b \in Blocks
             PROVE  c.blk[b].ref = Cardinality(Users(pr, b)) + One(Is(c, b, {"BEING_WRITTEN"}))
  BY DEF RefCounts
<1>1. c.blk[b].ref = Own(c.blk[b]) + One("BEING_WRITTEN" \in c.blk[b].flags) BY OwnIs
<1>2. One("BEING_WRITTEN" \in c.blk[b].flags) = One(Is(c, b, {"BEING_WRITTEN"})) BY DEF One, Is
<1> QED BY <1>1, <1>2

\* A process other than p that uses a block.
LEMMA OtherUses ==
    ASSUME NEW c \in CacheT, NEW pr \in ProcsT, RefCounts(c, pr), NEW p \in Procs,
           NEW q \in Procs \ {p}, NEW b \in Blocks, pr[q].blk = b
    PROVE  Own(c.blk[b]) # One(pr[p].blk = b) /\ Own(c.blk[b]) > 0
<1> DEFINE U == Users(pr, b)
<1>1. Own(c.blk[b]) = Cardinality(U) /\ q \in U BY OwnIs DEF Users
<1>2. Cardinality(U) > 0 /\ (p \in U => Cardinality(U) # 1) BY <1>1, UsersOf
<1>3. p \in U <=> pr[p].blk = b BY DEF Users
<1>4. One(pr[p].blk = b) \in {0, 1} /\ (One(pr[p].blk = b) = 1 <=> pr[p].blk = b) BY DEF One
<1>5. Cardinality(U) \in Nat BY UsersOf
<1> HIDE DEF U
<1> QED BY <1>1, <1>2, <1>3, <1>4, <1>5

\* A step of a process keeps what the others hold.
LEMMA HoldStep ==
    ASSUME NEW c \in CacheT, NEW d \in CacheT, NEW pr \in ProcsT, HoldInv(c, pr),
           NEW p \in Procs, NEW x \in ProcT, HoldMoves(c, d, pr, p, x), x.blk # Nil => HeldBy(d, x),
           \A q \in Procs : pr[q].blk # Nil => pr[q].key \in Keys,
           NEW qr, qr = [pr EXCEPT ![p] = x]
    PROVE  HoldInv(d, qr)
<1>1. RefCounts(c, pr) /\ Held(c, pr) /\ IOHeld(c, pr) BY DEF HoldInv
<1>2. RefCounts(d, qr)
  <2>1. ASSUME NEW b \in Blocks
        PROVE  Own(d.blk[b]) = Cardinality(Users(qr, b))
    <3>1. Own(d.blk[b]) = Own(c.blk[b]) + One(x.blk = b) - One(pr[p].blk = b) BY DEF HoldMoves
    <3>2. Own(c.blk[b]) = Cardinality(Users(pr, b)) BY <1>1, OwnIs
    <3>3. Cardinality(Users(qr, b)) =
                Cardinality(Users(pr, b)) + One(x.blk = b) - One(pr[p].blk = b)
      <4>1. UsersMove(pr, qr, p, x, b) BY UsersAre
      <4> QED BY <4>1 DEF UsersMove
    <3> QED BY <3>1, <3>2, <3>3
  <2> QED BY <2>1, RefsCounted
<1>3. qr[p] = x /\ \A q \in Procs \ {p} : qr[q] = pr[q] BY DEF ProcsT
<1>4. ASSUME NEW q \in Procs \ {p}, pr[q].blk # Nil
      PROVE  HeldBy(d, pr[q])
  <2> DEFINE y == pr[q]
             b == pr[q].blk
  <2>1. b \in Blocks /\ y.key \in Keys BY <1>4 DEF ProcsT, ProcT
  <2>2. HeldBy(c, y) BY <1>1, <1>4 DEF Held
  <2>3. Own(c.blk[b]) # One(pr[p].blk = b) BY <1>1, <2>1, OtherUses
  <2>4. /\ d.blk[b].key = c.blk[b].key
        /\ \A k \in Keys : c.hash[k] = b => d.hash[k] = b
        /\ c.blk[b].flags = {"IO_IN_PROGRESS"} => d.blk[b].flags = {"IO_IN_PROGRESS"}
        /\ "IO_IN_PROGRESS" \in c.blk[b].flags => "IO_IN_PROGRESS" \in d.blk[b].flags
    BY <2>1, <2>3 DEF HoldMoves
  <2> QED BY <2>1, <2>2, <2>4 DEF HeldBy, Is
<1>5. Held(d, qr) BY <1>3, <1>4 DEF Held
<1>6. ASSUME NEW b \in Blocks, "IO_IN_PROGRESS" \in d.blk[b].flags
      PROVE  /\ "BEING_WRITTEN" \notin d.blk[b].flags
             /\ \E q \in Procs : qr[q].blk = b /\ \A r \in Procs : qr[r].blk = b => r = q
  <2>1. /\ "BEING_WRITTEN" \notin d.blk[b].flags
        /\ IF x.blk = b THEN Own(d.blk[b]) = 1
           ELSE "IO_IN_PROGRESS" \in c.blk[b].flags /\ pr[p].blk # b
    BY <1>6 DEF HoldMoves
  <2>2. CASE x.blk = b
    <3>1. Cardinality(Users(qr, b)) = 1 BY <1>2, <2>1, <2>2, OwnIs
    <3>2. p \in Users(qr, b) BY <1>3, <2>2 DEF Users
    <3>3. \A q \in Users(qr, b) : q = p BY <3>1, <3>2, UsersOf
    <3> QED BY <2>1, <3>2, <3>3 DEF Users
  <2>3. CASE x.blk # b
    <3>1. "IO_IN_PROGRESS" \in c.blk[b].flags /\ pr[p].blk # b BY <2>1, <2>3
    <3>2. PICK q \in Procs : pr[q].blk = b /\ \A r \in Procs : pr[r].blk = b => r = q
      BY <1>1, <3>1 DEF IOHeld, Is
    <3>3. q # p /\ qr[q].blk = b BY <1>3, <3>1, <3>2
    <3>4. \A r \in Procs : qr[r].blk = b => r = q BY <1>3, <2>3, <3>2
    <3> QED BY <2>1, <3>3, <3>4
  <2> QED BY <2>2, <2>3
<1>7. IOHeld(d, qr) BY <1>6 DEF IOHeld, Is
<1> QED BY <1>2, <1>5, <1>7 DEF HoldInv

\* Steps that leave to the holders of blocks what they hold.
LEMMA HoldKept ==
    ASSUME NEW c \in CacheT, NEW d \in CacheT, NEW pr \in ProcsT, HoldInv(c, pr), Holds(c, d),
           NEW p \in Procs, NEW x \in ProcT, x.blk = Nil, pr[p].blk = Nil
    PROVE  HoldMoves(c, d, pr, p, x)
<1> SUFFICES ASSUME NEW b \in Blocks
             PROVE  /\ Own(d.blk[b]) = Own(c.blk[b]) + One(x.blk = b) - One(pr[p].blk = b)
                    /\ Own(c.blk[b]) # One(pr[p].blk = b) =>
                       /\ d.blk[b].key = c.blk[b].key
                       /\ \A k \in Keys : c.hash[k] = b => d.hash[k] = b
                       /\ c.blk[b].flags = {"IO_IN_PROGRESS"} => d.blk[b].flags = {"IO_IN_PROGRESS"}
                       /\ "IO_IN_PROGRESS" \in c.blk[b].flags => "IO_IN_PROGRESS" \in d.blk[b].flags
                    /\ "IO_IN_PROGRESS" \in d.blk[b].flags =>
                       /\ "BEING_WRITTEN" \notin d.blk[b].flags
                       /\ IF x.blk = b THEN Own(d.blk[b]) = 1
                          ELSE "IO_IN_PROGRESS" \in c.blk[b].flags /\ pr[p].blk # b
  BY DEF HoldMoves
<1>1. x.blk # b /\ pr[p].blk # b BY NilApart
<1>2. One(x.blk = b) = 0 /\ One(pr[p].blk = b) = 0 BY <1>1 DEF One
<1>3. Own(d.blk[b]) = Own(c.blk[b]) /\ Own(c.blk[b]) \in Int BY OwnIs DEF Holds
<1>4. Own(d.blk[b]) = Own(c.blk[b]) + One(x.blk = b) - One(pr[p].blk = b) BY <1>2, <1>3
<1>5. Own(c.blk[b]) # One(pr[p].blk = b) =>
        /\ d.blk[b].key = c.blk[b].key
        /\ \A k \in Keys : c.hash[k] = b => d.hash[k] = b
        /\ c.blk[b].flags = {"IO_IN_PROGRESS"} => d.blk[b].flags = {"IO_IN_PROGRESS"}
        /\ "IO_IN_PROGRESS" \in c.blk[b].flags => "IO_IN_PROGRESS" \in d.blk[b].flags
  BY <1>2 DEF Holds
<1>6. "IO_IN_PROGRESS" \in d.blk[b].flags =>
        "BEING_WRITTEN" \notin d.blk[b].flags /\ "IO_IN_PROGRESS" \in c.blk[b].flags
  BY DEF Holds, HoldInv, IOHeld, Is
<1> QED BY <1>1, <1>4, <1>5, <1>6

----------------------------------------------------------------------------
(* Steps preserve the invariant.                                           *)
\* What is broadcast is forgotten at the end of a step.
LEMMA RestFacts ==
    ASSUME NEW c \in CacheT
    PROVE  Rest(c) \in CacheT /\ Rest(c).wake = {} /\ Alike(c, Rest(c))
BY CacheFields DEF Rest, CacheT, Alike

\* The structure does not depend on what was broadcast.
LEMMA AlikeInv ==
    ASSUME NEW c, NEW d, Alike(c, d), CacheInv(c)
    PROVE  CacheInv(d)
<1>1. CleanerTied(d) /\ OneCleaner(d) BY DEF CacheInv, Alike, CleanerTied, OneCleaner
<1>2. BlockTied(d)
  <2>1. d.blk = c.blk /\ d.hash = c.hash /\ d.cleaner = c.cleaner BY DEF Alike
  <2> QED BY <2>1 DEF CacheInv, BlockTied, Is
<1>3. HashTied(d) /\ CleanerBlock(d) BY DEF CacheInv, Alike, HashTied, CleanerBlock
<1>4. /\ \A f \in Files : Of(d, f) = Of(c, f) /\ DirtyOf(d, f) = DirtyOf(c, f)
      /\ Free(d) = Free(c) /\ ActiveOf(d) = ActiveOf(c)
  BY DEF Alike, Of, DirtyOf, Free, ActiveOf, Is
<1>5. FileTied(d)
  <2>1. \A f \in Files : \A F : FileIs(d, f, F) <=> FileIs(c, f, F) BY DEF Alike, FileIs
  <2>2. \A b \in Blocks : \A F : Is(d, b, F) <=> Is(c, b, F) BY DEF Alike, Is
  <2>3. \A f \in Files : d.file[f] = c.file[f] /\ (Listed(d, f) <=> Listed(c, f))
    BY <2>1 DEF Alike, Listed
  <2>4. d.cleaner = c.cleaner BY DEF Alike
  <2> QED BY <1>4, <2>1, <2>2, <2>3, <2>4 DEF CacheInv, FileTied, Of
<1>6. Counts(d) BY <1>4 DEF CacheInv, Counts, Alike
<1> QED BY <1>1, <1>2, <1>3, <1>5, <1>6 DEF CacheInv

\* Nor does what is held.
LEMMA AlikeHold ==
    ASSUME NEW c, NEW d, Alike(c, d), NEW pr, HoldInv(c, pr)
    PROVE  HoldInv(d, pr)
<1>1. d.blk = c.blk /\ d.hash = c.hash BY DEF Alike
<1>2. RefCounts(d, pr) BY <1>1, Zenon DEF HoldInv, RefCounts, Is
<1>3. Held(d, pr) BY <1>1, Zenon DEF HoldInv, Held, HeldBy, Is
<1>4. IOHeld(d, pr) BY <1>1, Zenon DEF HoldInv, IOHeld, Is
<1> QED BY <1>2, <1>3, <1>4 DEF HoldInv

\* Nor does who sleeps well.
LEMMA AlikeSleeps ==
    ASSUME NEW c, NEW d, Alike(c, d), NEW x, NEW e, SleepsWell(c, x, e)
    PROVE  SleepsWell(d, x, e)
<1>1. d.blk = c.blk /\ d.file = c.file /\ d.avail = c.avail BY DEF Alike
<1> QED BY <1>1, Zenon DEF SleepsWell, Is, FileIs

\* Who is awake sleeps well.
LEMMA NilSleeps ==
    ASSUME NEW c, NEW x
    PROVE  SleepsWell(c, x, Nil)
<1>1. \A e \in Events : Nil # e BY NilApart
<1> QED BY <1>1, EventTypes DEF SleepsWell

\* Where the newest data is keeps its type.
LEMMA NewestType ==
    ASSUME NEW n \in NewestT, NEW d
    PROVE  NewestOf(n, d) \in NewestT
BY DEF NewestOf, NewestT

\* Who is not woken sleeps well still.
LEMMA StillSleeps ==
    ASSUME NEW c \in CacheT, NEW d \in CacheT, Heard(c, d), NEW x, NEW e, SleepsWell(c, x, e),
           e \notin d.wake,
           e = CloseCondition /\ {"CLOSE_IN_PROGRESS", "BEING_WRITTEN"} \subseteq c.file[x.file].flags
             => {"CLOSE_IN_PROGRESS", "BEING_WRITTEN"} \subseteq d.file[x.file].flags
    PROVE  SleepsWell(d, x, e)
<1>1. ASSUME NEW b \in Blocks, e = IODone(b)
      PROVE  d.blk[b].ref > 0 \/ Is(d, b, {"BEING_WRITTEN"})
  <2>1. Used(c.blk[b]) BY <1>1 DEF SleepsWell, Used, Is
  <2>2. Used(d.blk[b]) BY <1>1, <2>1 DEF Heard
  <2> QED BY <2>2 DEF Used, Is
<1>2. ASSUME NEW f \in Files, e = NoDirtyBlocks(f)
      PROVE  FileIs(d, f, {"ON_DIRTY_LIST", "BEING_WRITTEN"})
  <2>1. Listed(c, f) BY <1>2 DEF SleepsWell, Listed
  <2> QED BY <1>2, <2>1 DEF Heard, Listed
<1>3. ASSUME e = CleanBlock
      PROVE  d.avail <= MinAvail
  <2>1. ~(c.avail < d.avail) /\ c.avail <= MinAvail BY <1>3 DEF Heard, SleepsWell
  <2>2. c.avail \in Int /\ d.avail \in Int /\ MinAvail \in Int
    BY CacheFields, BlockCacheAssumption DEF BlockCacheAssumption
  <2> QED BY <2>1, <2>2
<1>4. ASSUME e = CloseCondition
      PROVE  {"CLOSE_IN_PROGRESS", "BEING_WRITTEN"} \subseteq d.file[x.file].flags
  BY <1>4 DEF SleepsWell
<1> QED BY <1>1, <1>2, <1>3, <1>4 DEF SleepsWell

\* What the code of a process says of its block.
LEMMA ProcFacts ==
    ASSUME NEW c, NEW pr, NEW sl, NEW nw, Core(c, pr, sl, nw), NEW p \in Procs
    PROVE  /\ pr[p] \in ProcT /\ Tied(pr[p], sl[p]) /\ sl[p] \in Events \cup {Nil}
           /\ pr[p].blk # Nil => pr[p].key \in Keys
           /\ sl[p] = CloseCondition => pr[p].pc = "prevent"
<1>1. pr[p] \in ProcT /\ Tied(pr[p], sl[p]) /\ sl[p] \in Events \cup {Nil}
  BY DEF Core, ProcsT, ProcTied, AsleepT
<1>2. CloseCondition # Nil BY NilApart, EventTypes
<1>3. (pr[p].blk # Nil => pr[p].key \in Keys) /\ (sl[p] = CloseCondition => pr[p].pc = "prevent")
  BY <1>1, <1>2 DEF Tied, Idle, NoOp, DoesIO, WaitsForBlocks, WaitsForFile, Closes
<1> QED BY <1>1, <1>3

\* A good step of a process preserves the core of the invariant.
LEMMA MoveKeeps ==
    ASSUME NEW c, NEW pr, NEW sl, NEW nw, Core(c, pr, sl, nw), NEW p \in Procs,
           NEW d, NEW n, NEW x, NEW e, Good(c, pr, p, d, n, x, e)
    PROVE  Core(Rest(d), [pr EXCEPT ![p] = x], [WokenFrom(sl, d) EXCEPT ![p] = e], NewestOf(n, d))
<1> DEFINE qr == [pr EXCEPT ![p] = x]
           tl == [WokenFrom(sl, d) EXCEPT ![p] = e]
<1>1. /\ c \in CacheT /\ pr \in ProcsT /\ sl \in AsleepT
      /\ ProcTied(pr, sl) /\ HoldInv(c, pr) /\ Sleepers(c, pr, sl) /\ OneCloser(pr)
      /\ \A q \in Procs : Marks(c, pr[q])
  BY DEF Core
<1>2. /\ d \in CacheT /\ CacheInv(d) /\ Heard(c, d) /\ n \in NewestT
      /\ x \in ProcT /\ e \in Events \cup {Nil} /\ Tied(x, e)
      /\ HoldMoves(c, d, pr, p, x) /\ (x.blk # Nil => HeldBy(d, x))
      /\ SleepsWell(d, x, e) /\ CloseKept(c, d, pr, p) /\ OnlyCloser(pr, p, x) /\ Marks(d, x)
  BY DEF Good
<1>3. /\ Rest(d) \in CacheT /\ Rest(d).wake = {} /\ Alike(d, Rest(d))
      /\ CacheInv(Rest(d)) /\ NewestOf(n, d) \in NewestT
  BY <1>2, RestFacts, AlikeInv, NewestType
<1>4. qr[p] = x /\ \A q \in Procs \ {p} : qr[q] = pr[q] BY <1>1 DEF ProcsT
<1>5. /\ tl[p] = e
      /\ \A q \in Procs \ {p} : tl[q] = IF sl[q] \in d.wake THEN Nil ELSE sl[q]
  BY DEF WokenFrom
<1>6. qr \in ProcsT BY <1>1, <1>2 DEF ProcsT
<1>7. tl \in AsleepT BY <1>1, <1>2 DEF AsleepT, WokenFrom
<1>8. \A q \in Procs : pr[q].blk # Nil => pr[q].key \in Keys BY ProcFacts
<1>9. HoldInv(Rest(d), qr)
  <2>1. HoldInv(d, qr) BY <1>1, <1>2, <1>8, HoldStep
  <2> HIDE DEF qr
  <2> QED BY <1>3, <2>1, AlikeHold
<1> HIDE DEF qr, tl
<1>10. ProcTied(qr, tl)
  <2>1. ASSUME NEW q \in Procs \ {p}
        PROVE  Tied(pr[q], tl[q])
    <3>1. Tied(pr[q], sl[q]) /\ (tl[q] = sl[q] \/ tl[q] = Nil) BY <1>1, <1>5 DEF ProcTied
    <3>2. CloseCondition # Nil BY NilApart, EventTypes
    <3> QED BY <3>1, <3>2 DEF Tied, Idle, DoesIO, WaitsForBlocks, WaitsForFile, Closes
  <2> QED BY <1>2, <1>4, <1>5, <2>1 DEF ProcTied
<1>11. Sleepers(Rest(d), qr, tl)
  <2>1. ASSUME NEW q \in Procs \ {p}
        PROVE  SleepsWell(Rest(d), pr[q], tl[q])
    <3>1. CASE sl[q] \in d.wake
      <4>1. tl[q] = Nil BY <1>5, <3>1
      <4> QED BY <4>1, NilSleeps
    <3>2. CASE sl[q] \notin d.wake
      <4>1. tl[q] = sl[q] BY <1>5, <3>2
      <4>2. SleepsWell(c, pr[q], sl[q]) BY <1>1 DEF Sleepers
      <4>3. sl[q] = CloseCondition => pr[q].pc = "prevent" BY ProcFacts
      <4>4. sl[q] = CloseCondition
              /\ {"CLOSE_IN_PROGRESS", "BEING_WRITTEN"} \subseteq c.file[pr[q].file].flags
             => {"CLOSE_IN_PROGRESS", "BEING_WRITTEN"} \subseteq d.file[pr[q].file].flags
        BY <1>2, <4>3 DEF CloseKept, WaitFlags, ClosePcs
      <4>5. SleepsWell(d, pr[q], sl[q]) BY <1>1, <1>2, <3>2, <4>2, <4>4, StillSleeps
      <4> QED BY <1>3, <4>1, <4>5, AlikeSleeps
    <3> QED BY <3>1, <3>2
  <2>2. SleepsWell(Rest(d), x, e) BY <1>2, <1>3, AlikeSleeps
  <2> QED BY <1>4, <1>5, <2>1, <2>2 DEF Sleepers
<1>12. OneCloser(qr)
  <2> SUFFICES ASSUME NEW q \in Procs, NEW r \in Procs, qr[q].pc \in ClosePcs, qr[r].pc \in ClosePcs,
                      qr[q].file = qr[r].file
               PROVE  q = r
    BY DEF OneCloser
  <2>1. CASE q # p /\ r # p BY <1>1, <1>4, <2>1 DEF OneCloser
  <2>2. CASE q = p BY <1>2, <1>4, <2>2 DEF OnlyCloser
  <2>3. CASE r = p BY <1>2, <1>4, <2>3 DEF OnlyCloser
  <2> QED BY <2>1, <2>2, <2>3
<1>13. \A q \in Procs : Marks(Rest(d), qr[q])
  <2>1. Rest(d).file = d.file BY <1>3 DEF Alike
  <2>2. ASSUME NEW q \in Procs \ {p}
        PROVE  Marks(d, pr[q])
    BY <1>1, <1>2 DEF Marks, CloseKept, WaitFlags
  <2>3. \A q \in Procs : Marks(d, qr[q]) BY <1>2, <1>4, <2>2
  <2> QED BY <2>1, <2>3 DEF Marks
<1>14. Core(Rest(d), qr, tl, NewestOf(n, d))
  BY <1>3, <1>6, <1>7, <1>9, <1>10, <1>11, <1>12, <1>13 DEF Core
<1> QED BY <1>14 DEF qr, tl

\* Clean preserves the invariant.
LEMMA CleanKeeps ==
    ASSUME NEW c, NEW pr, NEW sl, NEW nw, Core(c, pr, sl, nw), NEW n \in NewestT,
           NEW d, CleanDone(c, d)
    PROVE  Core(Rest(d), pr, WokenFrom(sl, d), NewestOf(n, d))
<1> DEFINE tl == WokenFrom(sl, d)
<1>1. /\ c \in CacheT /\ pr \in ProcsT /\ sl \in AsleepT
      /\ ProcTied(pr, sl) /\ HoldInv(c, pr) /\ Sleepers(c, pr, sl) /\ OneCloser(pr)
      /\ \A q \in Procs : Marks(c, pr[q])
  BY DEF Core
<1>2. /\ d \in CacheT /\ CacheInv(d) /\ Heard(c, d) /\ Holds(c, d) /\ CloseHeard(c, d)
      /\ Keeps(c, d, Usage)
  BY DEF CleanDone
<1>3. /\ Rest(d) \in CacheT /\ Rest(d).wake = {} /\ Alike(d, Rest(d))
      /\ CacheInv(Rest(d)) /\ NewestOf(n, d) \in NewestT
  BY <1>2, RestFacts, AlikeInv, NewestType
<1>4. \A q \in Procs : tl[q] = IF sl[q] \in d.wake THEN Nil ELSE sl[q] BY DEF WokenFrom
<1>5. tl \in AsleepT BY <1>1 DEF AsleepT, WokenFrom
<1> HIDE DEF tl
<1>6. HoldInv(Rest(d), pr)
  <2>1. HoldInv(d, pr)
    <3>1. ASSUME NEW b \in Blocks
          PROVE  Own(d.blk[b]) = Cardinality(Users(pr, b))
      BY <1>1, <1>2, OwnIs DEF Holds, HoldInv
    <3>2. RefCounts(d, pr) BY <1>2, <3>1, RefsCounted
    <3>3. Held(d, pr)
      <4> SUFFICES ASSUME NEW q \in Procs, pr[q].blk # Nil
                   PROVE  HeldBy(d, pr[q])
        BY DEF Held
      <4>1. pr[q].blk \in Blocks /\ pr[q].key \in Keys BY <1>1, ProcFacts DEF ProcsT, ProcT
      <4>2. HeldBy(c, pr[q]) BY <1>1 DEF HoldInv, Held
      <4>3. Own(c.blk[pr[q].blk]) # 0
        <5>1. Own(c.blk[pr[q].blk]) = Cardinality(Users(pr, pr[q].blk))
          BY <1>1, <4>1, OwnIs DEF HoldInv
        <5>2. q \in Users(pr, pr[q].blk) BY DEF Users
        <5>3. Cardinality(Users(pr, pr[q].blk)) > 0 BY <5>2, UsersOf
        <5> QED BY <5>1, <5>3
      <4>4. LET b == pr[q].blk IN
            /\ d.blk[b].key = c.blk[b].key
            /\ \A k \in Keys : c.hash[k] = b => d.hash[k] = b
            /\ c.blk[b].flags = {"IO_IN_PROGRESS"} => d.blk[b].flags = {"IO_IN_PROGRESS"}
            /\ "IO_IN_PROGRESS" \in c.blk[b].flags => "IO_IN_PROGRESS" \in d.blk[b].flags
        BY <1>2, <4>1, <4>3 DEF Holds
      <4> QED BY <4>1, <4>2, <4>4 DEF HeldBy, Is
    <3>4. IOHeld(d, pr) BY <1>1, <1>2 DEF Holds, HoldInv, IOHeld, Is
    <3> QED BY <3>2, <3>3, <3>4 DEF HoldInv
  <2> QED BY <1>3, <2>1, AlikeHold
<1>7. ProcTied(pr, tl)
  <2>1. ASSUME NEW q \in Procs
        PROVE  Tied(pr[q], tl[q])
    <3>1. Tied(pr[q], sl[q]) /\ (tl[q] = sl[q] \/ tl[q] = Nil) BY <1>1, <1>4 DEF ProcTied
    <3>2. CloseCondition # Nil BY NilApart, EventTypes
    <3> QED BY <3>1, <3>2 DEF Tied, Idle, DoesIO, WaitsForBlocks, WaitsForFile, Closes
  <2> QED BY <2>1 DEF ProcTied
<1>8. Sleepers(Rest(d), pr, tl)
  <2>1. ASSUME NEW q \in Procs
        PROVE  SleepsWell(Rest(d), pr[q], tl[q])
    <3>1. CASE sl[q] \in d.wake
      <4>1. tl[q] = Nil BY <1>4, <3>1
      <4> QED BY <4>1, NilSleeps
    <3>2. CASE sl[q] \notin d.wake
      <4>1. tl[q] = sl[q] BY <1>4, <3>2
      <4>2. SleepsWell(c, pr[q], sl[q]) BY <1>1 DEF Sleepers
      <4>3. sl[q] = CloseCondition => pr[q].file \in Files
        <5>1. Tied(pr[q], sl[q]) /\ CloseCondition # Nil
          BY <1>1, NilApart, EventTypes DEF ProcTied
        <5> QED BY <5>1 DEF Tied, Idle, DoesIO, WaitsForBlocks, WaitsForFile, Closes
      <4>4. sl[q] = CloseCondition
              /\ {"CLOSE_IN_PROGRESS", "BEING_WRITTEN"} \subseteq c.file[pr[q].file].flags
             => {"CLOSE_IN_PROGRESS", "BEING_WRITTEN"} \subseteq d.file[pr[q].file].flags
        <5> SUFFICES ASSUME sl[q] = CloseCondition,
                            {"CLOSE_IN_PROGRESS", "BEING_WRITTEN"} \subseteq c.file[pr[q].file].flags
                     PROVE  {"CLOSE_IN_PROGRESS", "BEING_WRITTEN"} \subseteq d.file[pr[q].file].flags
          OBVIOUS
        <5>1. "CLOSE_IN_PROGRESS" \in d.file[pr[q].file].flags BY <1>2, <4>3 DEF Keeps, Usage
        <5>2. "BEING_WRITTEN" \in d.file[pr[q].file].flags BY <1>2, <3>2, <4>3 DEF CloseHeard
        <5> QED BY <5>1, <5>2
      <4>5. SleepsWell(d, pr[q], sl[q]) BY <1>1, <1>2, <3>2, <4>2, <4>4, StillSleeps
      <4> QED BY <1>3, <4>1, <4>5, AlikeSleeps
    <3> QED BY <3>1, <3>2
  <2> QED BY <2>1 DEF Sleepers
<1>9. \A q \in Procs : Marks(Rest(d), pr[q])
  <2> SUFFICES ASSUME NEW q \in Procs, pr[q].pc \in ClosePcs
               PROVE  "CLOSE_IN_PROGRESS" \in Rest(d).file[pr[q].file].flags
    BY DEF Marks
  <2>1. Rest(d).file = d.file BY <1>3 DEF Alike
  <2>2. pr[q].file \in Files
    <3>1. Tied(pr[q], sl[q]) /\ NoOp.pc = "idle" BY <1>1 DEF ProcTied, NoOp
    <3> QED BY <3>1 DEF Tied, Idle, DoesIO, WaitsForBlocks, WaitsForFile, Closes, ClosePcs
  <2>3. "CLOSE_IN_PROGRESS" \in c.file[pr[q].file].flags BY <1>1 DEF Marks
  <2> QED BY <1>2, <2>1, <2>2, <2>3 DEF Keeps, Usage
<1>10. Core(Rest(d), pr, tl, NewestOf(n, d))
  BY <1>1, <1>3, <1>5, <1>6, <1>7, <1>8, <1>9 DEF Core
<1> QED BY <1>10 DEF tl

\* Sleep preserves the invariant.
LEMMA SleepKeeps ==
    ASSUME Core(cache, proc, asleep, newest), NEW p \in Procs,
           NEW d, NEW n, NEW x, NEW e, Good(cache, proc, p, d, n, x, e), Sleep(p, d, n, x, e)
    PROVE  Core(cache', proc', asleep', newest') /\ sync' = sync
<1>1. Core(Rest(d), [proc EXCEPT ![p] = x], [WokenFrom(asleep, d) EXCEPT ![p] = e], NewestOf(n, d))
  BY MoveKeeps
<1> QED BY <1>1 DEF Sleep, Become, Rest, Woken, WokenFrom, NewestOf

\* So does Step.
LEMMA StepKeeps ==
    ASSUME Core(cache, proc, asleep, newest), NEW p \in Procs, asleep[p] = Nil,
           NEW d, NEW n, NEW x, Good(cache, proc, p, d, n, x, Nil), Step(p, d, n, x)
    PROVE  Core(cache', proc', asleep', newest') /\ sync' = sync
<1>1. Woken(d) = [Woken(d) EXCEPT ![p] = Nil]
  <2>1. Woken(d)[p] = Nil BY DEF Woken
  <2> QED BY <2>1 DEF Woken
<1>2. Sleep(p, d, n, x, Nil) BY <1>1 DEF Step, Sleep
<1> QED BY <1>2, SleepKeeps

\* A step of a cleaner preserves the core of the invariant.
LEMMA CleanerKeeps ==
    ASSUME Core(cache, proc, asleep, newest), NEW n \in NewestT, NEW d, CleanDone(cache, d),
           Become(d, n), asleep' = Woken(d), proc' = proc
    PROVE  Core(cache', proc', asleep', newest')
<1>1. Core(Rest(d), proc, WokenFrom(asleep, d), NewestOf(n, d)) BY CleanKeeps
<1> QED BY <1>1 DEF Become, Rest, Woken, WokenFrom, NewestOf

\* Nobody is woken by a step that broadcasts nothing.
LEMMA NobodyWoken ==
    ASSUME Core(cache, proc, asleep, newest), NEW d, d.wake = {}
    PROVE  asleep = Woken(d)
BY DEF Woken, Core, AsleepT

\* Steps that change no block.
LEMMA HoldSame ==
    ASSUME NEW c \in CacheT, NEW pr \in ProcsT, HoldInv(c, pr), NEW p \in Procs, NEW x \in ProcT,
           x.blk = pr[p].blk, NEW d, d.blk = c.blk, d.hash = c.hash
    PROVE  HoldMoves(c, d, pr, p, x)
<1> SUFFICES ASSUME NEW b \in Blocks
             PROVE  /\ Own(c.blk[b]) = Own(c.blk[b]) + One(x.blk = b) - One(pr[p].blk = b)
                    /\ "IO_IN_PROGRESS" \in c.blk[b].flags =>
                       /\ "BEING_WRITTEN" \notin c.blk[b].flags
                       /\ IF x.blk = b THEN Own(c.blk[b]) = 1
                          ELSE "IO_IN_PROGRESS" \in c.blk[b].flags /\ pr[p].blk # b
  BY DEF HoldMoves
<1>1. Own(c.blk[b]) = Own(c.blk[b]) + One(x.blk = b) - One(pr[p].blk = b)
  <2>1. Own(c.blk[b]) \in Int BY OwnIs
  <2>2. CASE x.blk = b
    <3>1. One(x.blk = b) = 1 /\ One(pr[p].blk = b) = 1 BY <2>2 DEF One
    <3> QED BY <2>1, <3>1
  <2>3. CASE x.blk # b
    <3>1. One(x.blk = b) = 0 /\ One(pr[p].blk = b) = 0 BY <2>3 DEF One
    <3> QED BY <2>1, <3>1
  <2> QED BY <2>2, <2>3
<1>2. ASSUME "IO_IN_PROGRESS" \in c.blk[b].flags
      PROVE  /\ "BEING_WRITTEN" \notin c.blk[b].flags
             /\ IF x.blk = b THEN Own(c.blk[b]) = 1
                ELSE "IO_IN_PROGRESS" \in c.blk[b].flags /\ pr[p].blk # b
  <2>1. /\ "BEING_WRITTEN" \notin c.blk[b].flags
        /\ \E q \in Procs : pr[q].blk = b /\ \A r \in Procs : pr[r].blk = b => r = q
    BY <1>2 DEF HoldInv, IOHeld, Is
  <2>2. ASSUME x.blk = b
        PROVE  Own(c.blk[b]) = 1
    <3>1. p \in Users(pr, b) /\ \A q \in Users(pr, b) : q = p BY <2>1, <2>2 DEF Users
    <3>2. Cardinality(Users(pr, b)) = 1 BY <3>1, UsersOf
    <3> QED BY <3>2, OwnIs DEF HoldInv
  <2> QED BY <1>2, <2>1, <2>2
<1> QED BY <1>1, <1>2

\* A quiet step of a process without a block is good.
LEMMA GoodQuiet ==
    ASSUME NEW c, NEW pr, NEW sl, NEW nw, Core(c, pr, sl, nw), NEW p \in Procs,
           NEW d, Quiet(c, d), CloseKept(c, d, pr, p), NEW n \in NewestT, NEW x \in ProcT,
           NEW e \in Events \cup {Nil}, Tied(x, e), x.blk = pr[p].blk,
           x.blk # Nil => HeldBy(d, x), SleepsWell(d, x, e), OnlyCloser(pr, p, x), Marks(d, x)
    PROVE  Good(c, pr, p, d, n, x, e)
<1>1. c \in CacheT /\ CacheInv(c) /\ pr \in ProcsT /\ HoldInv(c, pr) BY DEF Core
<1>2. d \in CacheT /\ d.blk = c.blk /\ d.hash = c.hash BY DEF Quiet, Same
<1>3. CacheInv(d) /\ Heard(c, d) BY <1>1, QuietInv, QuietHeard
<1>4. HoldMoves(c, d, pr, p, x) BY <1>1, <1>2, HoldSame
<1> QED BY <1>2, <1>3, <1>4 DEF Good

\* Kept flags keep the closes.
LEMMA KeepsCloses ==
    ASSUME NEW c, NEW d, Keeps(c, d, WaitFlags), NEW pr, NEW sl, NEW nw, Core(c, pr, sl, nw), NEW p
    PROVE  CloseKept(c, d, pr, p)
<1> SUFFICES ASSUME NEW q \in Procs, pr[q].pc \in ClosePcs
             PROVE  WaitFlags \cap c.file[pr[q].file].flags \subseteq d.file[pr[q].file].flags
  BY DEF CloseKept
<1>1. pr[q].file \in Files
  <2>1. Tied(pr[q], sl[q]) /\ NoOp.pc = "idle" BY ProcFacts DEF NoOp
  <2> QED BY <2>1 DEF Tied, Idle, DoesIO, WaitsForBlocks, WaitsForFile, Closes, ClosePcs
<1> QED BY <1>1 DEF Keeps

\* A step that leaves the cache as it is.
LEMMA GoodStill ==
    ASSUME NEW c, NEW pr, NEW sl, NEW nw, Core(c, pr, sl, nw), NEW p \in Procs,
           NEW n \in NewestT, NEW x \in ProcT,
           NEW e \in Events \cup {Nil}, Tied(x, e), x.blk = pr[p].blk,
           x.blk # Nil => HeldBy(c, x), SleepsWell(c, x, e), OnlyCloser(pr, p, x), Marks(c, x)
    PROVE  Good(c, pr, p, c, n, x, e)
<1>1. Quiet(c, c) /\ CloseKept(c, c, pr, p) BY QuietRefl DEF Core, CloseKept
<1> QED BY <1>1, GoodQuiet

\* Where a process is.
LEMMA AtPlaces ==
    ASSUME NEW c, NEW pr, NEW sl, NEW nw, Core(c, pr, sl, nw), NEW p \in Procs
    PROVE  /\ pr[p].pc = "idle" => pr[p] = NoOp
           /\ pr[p].pc \in {"fetch", "fill", "use", "dirty"} =>
                /\ DoesIO(pr[p], sl[p])
                /\ pr[p].pc # "fetch" => pr[p].blk \in Blocks /\ HeldBy(c, pr[p])
           /\ pr[p].pc = "blocks" => WaitsForBlocks(pr[p], sl[p])
           /\ pr[p].pc = "written" => WaitsForFile(pr[p], sl[p])
           /\ pr[p].pc \in {"prevent", "closeRPC", "allow"} => Closes(pr[p], sl[p])
<1>1. Tied(pr[p], sl[p]) /\ pr[p] \in ProcT BY ProcFacts
<1>2. NoOp.pc = "idle" BY DEF NoOp
<1>3. pr[p].blk # Nil => HeldBy(c, pr[p]) BY DEF Core, HoldInv, Held
<1>4. pr[p].pc = "idle" => pr[p] = NoOp
  BY <1>1 DEF Tied, Idle, DoesIO, WaitsForBlocks, WaitsForFile, Closes
<1>5. pr[p].pc \in {"fetch", "fill", "use", "dirty"} =>
          DoesIO(pr[p], sl[p])
  BY <1>1, <1>2 DEF Tied, Idle, WaitsForBlocks, WaitsForFile, Closes
<1>6. pr[p].pc \in {"fill", "use", "dirty"} => pr[p].blk \in Blocks /\ HeldBy(c, pr[p])
  BY <1>1, <1>3, <1>5 DEF DoesIO, ProcT
<1>7. /\ pr[p].pc = "blocks" => WaitsForBlocks(pr[p], sl[p])
      /\ pr[p].pc = "written" => WaitsForFile(pr[p], sl[p])
      /\ pr[p].pc \in {"prevent", "closeRPC", "allow"} => Closes(pr[p], sl[p])
  BY <1>1, <1>2 DEF Tied, Idle, DoesIO, WaitsForBlocks, WaitsForFile, Closes
<1> QED BY <1>4, <1>5, <1>6, <1>7

\* A process without an operation is in order.
LEMMA NoOpIs ==
    /\ NoOp \in ProcT /\ NoOp.blk = Nil /\ NoOp.pc = "idle" /\ Tied(NoOp, Nil)
    /\ \A pr, p : OnlyCloser(pr, p, NoOp)
    /\ \A c : Marks(c, NoOp)
<1>1. NoOp \in ProcT /\ NoOp.blk = Nil /\ NoOp.pc = "idle" BY DEF NoOp, ProcT, ProcPcs
<1>2. Tied(NoOp, Nil) BY DEF Tied, Idle
<1> QED BY <1>1, <1>2 DEF OnlyCloser, Marks, ClosePcs

\* BeginIO preserves the invariant.
LEMMA BeginIOKeeps ==
    ASSUME Inv, NEW p \in Procs, NEW k \in Keys, NEW op, BeginIO(p, k, op)
    PROVE  Inv'
<1> DEFINE x == [NoOp EXCEPT !.pc = "fetch", !.op = op, !.file = k[1], !.key = k]
<1>1. /\ Begin(p, k[1], op) /\ op \in {"read", "write", "update"}
      /\ Step(p, cache, newest, x) /\ UNCHANGED <<srv, faults>>
  BY DEF BeginIO
<1>2. Core(cache, proc, asleep, newest) BY DEF Inv
<1>3. proc[p].pc = "idle" /\ asleep[p] = Nil /\ ops < MaxOps /\ ops' = ops + 1
  BY <1>1 DEF Begin, At
<1>4. proc[p].blk = Nil BY <1>2, <1>3, AtPlaces, NoOpIs
<1>5. x \in ProcT /\ x.blk = Nil /\ x.pc = "fetch" /\ x.op = op /\ x.file = k[1] /\ x.key = k
  BY <1>1, KeyFacts DEF NoOp, ProcT, ProcPcs, AllCalls
<1> HIDE DEF x
<1>6. Tied(x, Nil) /\ OnlyCloser(proc, p, x) /\ Marks(cache, x)
  <2>1. CloseCondition # Nil BY NilApart, EventTypes
  <2> QED BY <1>1, <1>5, <2>1 DEF Tied, DoesIO, OnlyCloser, Marks, ClosePcs
<1>7. newest \in NewestT /\ SleepsWell(cache, x, Nil) BY <1>2, NilSleeps DEF Core
<1>8. Good(cache, proc, p, cache, newest, x, Nil) BY <1>2, <1>4, <1>5, <1>6, <1>7, GoodStill
<1>9. Core(cache', proc', asleep', newest') /\ sync' = sync BY <1>1, <1>2, <1>3, <1>8, StepKeeps
<1> QED BY <1>1, <1>3, <1>9, BlockCacheAssumption DEF Inv, BlockCacheAssumption

\* The bounds are numbers.
LEMMA MaxTypes == MaxOps \in Nat /\ MaxFaults \in Nat /\ MinAvail \in Nat
BY BlockCacheAssumption DEF BlockCacheAssumption

\* FsOpen preserves the invariant.
LEMMA FsOpenKeeps ==
    ASSUME Inv, NEW f \in Files, FsOpen(f)
    PROVE  Inv'
<1>1. /\ srv' = [srv EXCEPT ![f] = [open |-> TRUE, dirty |-> TRUE]]
      /\ ops < MaxOps /\ ops' = ops + 1
      /\ UNCHANGED <<cache, proc, asleep, newest, sync, faults>>
  BY DEF FsOpen
<1>2. srv' \in [Files -> [open : BOOLEAN, dirty : BOOLEAN]] BY <1>1 DEF Inv
<1> QED BY <1>1, <1>2, MaxTypes DEF Inv

\* A cache without broadcasts is at rest.
LEMMA RestIs ==
    ASSUME NEW c \in CacheT, c.wake = {}
    PROVE  Rest(c) = c
BY CacheFields DEF Rest

\* Ages preserves the invariant.
LEMMA AgesKeeps ==
    ASSUME Inv, NEW f \in Files, Ages(f)
    PROVE  Inv'
<1> DEFINE F == cache.file[f].flags \cup {"OLD"}
           d == SetFlags(cache, f, F)
<1>1. Core(cache, proc, asleep, newest) BY DEF Inv
<1>2. cache \in CacheT /\ CacheInv(cache) /\ cache.wake = {} /\ newest \in NewestT
  BY <1>1 DEF Core
<1>3. cache' = d /\ UNCHANGED <<proc, asleep, srv, newest, sync, faults, ops>>
  BY DEF Ages, SetFlags
<1>4. F \in SUBSET FileFlags BY <1>2, FileFields DEF FileFlags
<1>5. /\ "BEING_WRITTEN" \in F <=> "BEING_WRITTEN" \in cache.file[f].flags
      /\ "ON_DIRTY_LIST" \in F <=> "ON_DIRTY_LIST" \in cache.file[f].flags
      /\ F \cap Usage = cache.file[f].flags \cap Usage
  BY DEF Usage
<1> HIDE DEF F
<1>6. Quiet(cache, d) /\ Keeps(cache, d, Usage)
  BY <1>2, <1>4, <1>5, SetFlagsQuiet, KeepsSetFlags
<1>7. d \in CacheT /\ d.wake = {} BY <1>2, <1>6 DEF Quiet
<1> HIDE DEF d
<1>8. CleanDone(cache, d) BY <1>2, <1>6, QuietClean
<1>9. Core(Rest(d), proc, WokenFrom(asleep, d), NewestOf(newest, d))
  BY <1>1, <1>2, <1>8, CleanKeeps
<1>10. Rest(d) = d /\ WokenFrom(asleep, d) = asleep
  BY <1>1, <1>7, RestIs DEF WokenFrom, Core, AsleepT
<1>11. Core(cache', proc', asleep', newest') BY <1>2, <1>3, <1>9, <1>10 DEF Core
<1> QED BY <1>3, <1>11 DEF Inv

\* FsrmtFileClose preserves the invariant.
LEMMA FsrmtFileCloseKeeps ==
    ASSUME Inv, NEW p \in Procs, NEW f \in Files, FsrmtFileClose(p, f)
    PROVE  Inv'
<1> DEFINE F == cache.file[f].flags \cup {"CLOSE_IN_PROGRESS"}
           d == SetFlags(cache, f, F)
           x == [NoOp EXCEPT !.pc = "prevent", !.op = "close", !.file = f]
<1>1. /\ Begin(p, f, "close") /\ \A q \in Procs : proc[q].file = f => proc[q].op = "consist"
      /\ Step(p, d, newest, x) /\ UNCHANGED <<srv, faults>>
  BY DEF FsrmtFileClose, SetFlags
<1>2. Core(cache, proc, asleep, newest) BY DEF Inv
<1>3. proc[p].pc = "idle" /\ asleep[p] = Nil /\ ops < MaxOps /\ ops' = ops + 1
  BY <1>1 DEF Begin, At
<1>4. proc[p].blk = Nil BY <1>2, <1>3, AtPlaces, NoOpIs
<1>5. x \in ProcT /\ x.blk = Nil /\ x.pc = "prevent" /\ x.op = "close" /\ x.file = f
  BY DEF NoOp, ProcT, ProcPcs, AllCalls
<1>6. cache \in CacheT /\ CacheInv(cache) /\ newest \in NewestT BY <1>2 DEF Core
<1>7. F \in SUBSET FileFlags BY <1>6, FileFields DEF FileFlags
<1>8. /\ "BEING_WRITTEN" \in F <=> "BEING_WRITTEN" \in cache.file[f].flags
      /\ "ON_DIRTY_LIST" \in F <=> "ON_DIRTY_LIST" \in cache.file[f].flags
      /\ cache.file[f].flags \subseteq F /\ "CLOSE_IN_PROGRESS" \in F
  OBVIOUS
<1> HIDE DEF F
<1>9. Quiet(cache, d) BY <1>6, <1>7, <1>8, SetFlagsQuiet
<1>10. /\ d.file[f].flags = F
       /\ \A g \in Files \ {f} : d.file[g] = cache.file[g]
  BY <1>6, <1>7, SetFlagsFacts
<1> HIDE DEF d, x
<1>11. ASSUME NEW q \in Procs, proc[q].pc \in ClosePcs
       PROVE  proc[q].file \in Files /\ proc[q].op = "close"
  <2>1. Closes(proc[q], asleep[q]) BY <1>2, <1>11, AtPlaces DEF ClosePcs
  <2> QED BY <2>1 DEF Closes
<1>12. CloseKept(cache, d, proc, p) BY <1>8, <1>10, <1>11 DEF CloseKept
<1>13. OnlyCloser(proc, p, x)
  <2>1. ASSUME NEW q \in Procs, proc[q].pc \in ClosePcs, proc[q].file = f
        PROVE  FALSE
    BY <1>1, <1>11, <2>1
  <2> QED BY <1>5, <2>1 DEF OnlyCloser
<1>14. Marks(d, x) /\ SleepsWell(d, x, Nil) BY <1>5, <1>8, <1>10, NilSleeps DEF Marks
<1>15. Tied(x, Nil) BY <1>5 DEF Tied, Closes
<1>16. Good(cache, proc, p, d, newest, x, Nil)
  BY <1>2, <1>4, <1>5, <1>6, <1>9, <1>12, <1>13, <1>14, <1>15, GoodQuiet
<1>17. Core(cache', proc', asleep', newest') /\ sync' = sync
  BY <1>1, <1>2, <1>3, <1>16, StepKeeps
<1> QED BY <1>1, <1>3, <1>17, MaxTypes DEF Inv

\* The steps of a close in between change what the process knows.
LEMMA ClosesOn ==
    ASSUME NEW c, NEW pr, NEW sl, NEW nw, Core(c, pr, sl, nw), NEW p \in Procs,
           pr[p].pc \in ClosePcs, NEW x \in ProcT, x.pc \in ClosePcs, x.op = pr[p].op,
           x.file = pr[p].file, x.blk = pr[p].blk
    PROVE  /\ Good(c, pr, p, c, nw, x, Nil)
           /\ x.pc = "prevent" /\ "BEING_WRITTEN" \in c.file[x.file].flags =>
                Good(c, pr, p, c, nw, x, CloseCondition)
<1>1. Closes(pr[p], sl[p]) BY AtPlaces DEF ClosePcs
<1>2. nw \in NewestT /\ OneCloser(pr) /\ Marks(c, pr[p]) BY DEF Core
<1>3. OnlyCloser(pr, p, x) /\ Marks(c, x) /\ x.blk = Nil
  BY <1>1, <1>2 DEF OnlyCloser, OneCloser, Marks, Closes
<1>4. Tied(x, Nil) /\ (x.pc = "prevent" => Tied(x, CloseCondition))
  BY <1>1, <1>3 DEF Tied, Closes, ClosePcs
<1>5. Good(c, pr, p, c, nw, x, Nil) BY <1>2, <1>3, <1>4, NilSleeps, GoodStill
<1>6. ASSUME x.pc = "prevent", "BEING_WRITTEN" \in c.file[x.file].flags
      PROVE  Good(c, pr, p, c, nw, x, CloseCondition)
  <2>1. "CLOSE_IN_PROGRESS" \in c.file[x.file].flags BY <1>3, <1>6 DEF Marks, ClosePcs
  <2>2. SleepsWell(c, x, CloseCondition) BY <1>6, <2>1, EventsApart DEF SleepsWell
  <2>3. Tied(x, CloseCondition) /\ CloseCondition \in Events BY <1>4, <1>6, EventTypes
  <2> QED BY <1>2, <1>3, <2>2, <2>3, GoodStill
<1> QED BY <1>5, <1>6

\* Prevent preserves the invariant.
LEMMA PreventKeeps ==
    ASSUME Inv, NEW p \in Procs, Fscache_PreventWriteBacks(p)
    PROVE  Inv'
<1> DEFINE f == proc[p].file
           fl == cache.file[f].numDirty = 0 /\ Cacheable(f)
           x == [proc[p] EXCEPT !.pc = "closeRPC", !.flag = fl]
<1>1. /\ At(p, "prevent") /\ UNCHANGED <<srv, faults, ops>>
      /\ IF FileIs(cache, f, {"BEING_WRITTEN"})
         THEN Sleep(p, cache, newest, proc[p], CloseCondition)
         ELSE Step(p, cache, newest, x)
  BY DEF Fscache_PreventWriteBacks
<1>2. Core(cache, proc, asleep, newest) BY DEF Inv
<1>3. proc[p].pc = "prevent" /\ asleep[p] = Nil /\ proc[p] \in ProcT
  BY <1>1, <1>2, ProcFacts DEF At
<1>4. fl \in BOOLEAN BY DEF Cacheable
<1> HIDE DEF fl
<1>5. /\ x \in ProcT /\ x.pc = "closeRPC" /\ x.op = proc[p].op /\ x.file = proc[p].file
      /\ x.blk = proc[p].blk
  BY <1>3, <1>4 DEF ProcT, ProcPcs
<1> HIDE DEF x
<1>6. CASE FileIs(cache, f, {"BEING_WRITTEN"})
  <2>1. "BEING_WRITTEN" \in cache.file[proc[p].file].flags BY <1>6 DEF FileIs
  <2>2. Good(cache, proc, p, cache, newest, proc[p], CloseCondition)
    BY <1>2, <1>3, <2>1, ClosesOn DEF ClosePcs
  <2>3. Core(cache', proc', asleep', newest') /\ sync' = sync
    BY <1>1, <1>2, <1>6, <2>2, SleepKeeps
  <2> QED BY <1>1, <2>3 DEF Inv
<1>7. CASE ~FileIs(cache, f, {"BEING_WRITTEN"})
  <2>1. Good(cache, proc, p, cache, newest, x, Nil) BY <1>2, <1>3, <1>5, ClosesOn DEF ClosePcs
  <2>2. Core(cache', proc', asleep', newest') /\ sync' = sync
    BY <1>1, <1>2, <1>3, <1>7, <2>1, StepKeeps
  <2> QED BY <1>1, <2>2 DEF Inv
<1> QED BY <1>6, <1>7

\* CloseRPC preserves the invariant.
LEMMA CloseRPCKeeps ==
    ASSUME Inv, NEW p \in Procs, CloseRPC(p)
    PROVE  Inv'
<1> DEFINE x == [proc[p] EXCEPT !.pc = "allow"]
<1>1. /\ At(p, "closeRPC") /\ UNCHANGED <<faults, ops>>
      /\ srv' = [srv EXCEPT ![proc[p].file] = [open |-> FALSE, dirty |-> @.dirty /\ ~proc[p].flag]]
      /\ Step(p, cache, newest, x)
  BY DEF CloseRPC
<1>2. Core(cache, proc, asleep, newest) BY DEF Inv
<1>3. proc[p].pc = "closeRPC" /\ asleep[p] = Nil /\ proc[p] \in ProcT
  BY <1>1, <1>2, ProcFacts DEF At
<1>4. /\ x \in ProcT /\ x.pc = "allow" /\ x.op = proc[p].op /\ x.file = proc[p].file
      /\ x.blk = proc[p].blk
  BY <1>3 DEF ProcT, ProcPcs
<1> HIDE DEF x
<1>5. Good(cache, proc, p, cache, newest, x, Nil) BY <1>2, <1>3, <1>4, ClosesOn DEF ClosePcs
<1>6. Core(cache', proc', asleep', newest') /\ sync' = sync BY <1>1, <1>2, <1>3, <1>5, StepKeeps
<1>7. srv' \in [Files -> [open : BOOLEAN, dirty : BOOLEAN]]
  <2>1. srv \in [Files -> [open : BOOLEAN, dirty : BOOLEAN]] BY DEF Inv
  <2> DEFINE y == [open |-> FALSE, dirty |-> srv[proc[p].file].dirty /\ ~proc[p].flag]
  <2>2. y \in [open : BOOLEAN, dirty : BOOLEAN] BY Zenon
  <2>3. srv' = [srv EXCEPT ![proc[p].file] = y] BY <1>1
  <2> HIDE DEF y
  <2> QED BY <2>1, <2>2, <2>3
<1> QED BY <1>1, <1>6, <1>7 DEF Inv

\* Allow preserves the invariant.
LEMMA AllowKeeps ==
    ASSUME Inv, NEW p \in Procs, Fscache_AllowWriteBacks(p)
    PROVE  Inv'
<1> DEFINE f == proc[p].file
           F == cache.file[f].flags \ {"CLOSE_IN_PROGRESS"}
           c == SetFlags(cache, f, F)
           d == PutFileOnDirtyList(c, f, FALSE)
           e == IF c.file[f].numDirty = 0 THEN c
                ELSE IF FileIs(d, f, {"FSYNC"})
                     THEN StartBackendWriteback(d, BackendOf(f)) ELSE d
<1>1. At(p, "allow") /\ Step(p, e, newest, NoOp) /\ UNCHANGED <<srv, faults, ops>>
  BY DEF Fscache_AllowWriteBacks, SetFlags
<1>2. Core(cache, proc, asleep, newest) BY DEF Inv
<1>3. proc[p].pc = "allow" /\ asleep[p] = Nil BY <1>1 DEF At
<1>4. Closes(proc[p], asleep[p]) BY <1>2, <1>3, AtPlaces
<1>5. f \in Files /\ proc[p].blk = Nil BY <1>4 DEF Closes
<1>6. cache \in CacheT /\ CacheInv(cache) /\ newest \in NewestT /\ OneCloser(proc)
  BY <1>2 DEF Core
<1>7. F \in SUBSET FileFlags BY <1>5, <1>6, FileFields
<1>8. /\ "BEING_WRITTEN" \in F <=> "BEING_WRITTEN" \in cache.file[f].flags
      /\ "ON_DIRTY_LIST" \in F <=> "ON_DIRTY_LIST" \in cache.file[f].flags
  OBVIOUS
<1> HIDE DEF f, F
<1>9. Quiet(cache, c) /\ \A g \in Files \ {f} : c.file[g] = cache.file[g]
  BY <1>5, <1>6, <1>7, <1>8, SetFlagsQuiet, SetFlagsFacts
<1>10. c \in CacheT BY <1>9 DEF Quiet
<1> HIDE DEF c
<1>11. Quiet(c, d) /\ Keeps(c, d, FileFlags \ {"ON_DIRTY_LIST", "OLD"})
  BY <1>5, <1>10, PutFileQuiet
<1>12. d \in CacheT /\ Quiet(cache, d) BY <1>6, <1>9, <1>11, QuietTrans DEF Quiet
<1> HIDE DEF d
<1>13. Quiet(cache, e) /\ \A g \in Files \ {f} : Keeps(c, e, WaitFlags)
  <2>1. Keeps(c, d, WaitFlags) BY <1>11 DEF Keeps, WaitFlags, FileFlags
  <2>2. CASE c.file[f].numDirty = 0 BY <1>9, <2>2 DEF Keeps
  <2>3. CASE c.file[f].numDirty # 0 /\ FileIs(d, f, {"FSYNC"})
    <3>1. Quiet(d, e) /\ e.file = d.file BY <1>12, <2>3, StartBackend
    <3>2. Quiet(cache, e) BY <1>6, <1>12, <3>1, QuietTrans
    <3> QED BY <2>1, <3>1, <3>2 DEF Keeps
  <2>4. CASE c.file[f].numDirty # 0 /\ ~FileIs(d, f, {"FSYNC"}) BY <1>12, <2>1, <2>4
  <2> QED BY <2>2, <2>3, <2>4
<1> HIDE DEF e
<1>14. CloseKept(cache, e, proc, p)
  <2> SUFFICES ASSUME NEW q \in Procs \ {p}, proc[q].pc \in ClosePcs
               PROVE  WaitFlags \cap cache.file[proc[q].file].flags \subseteq e.file[proc[q].file].flags
    BY DEF CloseKept
  <2>1. Closes(proc[q], asleep[q]) BY <1>2, AtPlaces DEF ClosePcs
  <2>2. proc[q].file \in Files /\ proc[q].file # f
    BY <1>3, <1>6, <2>1 DEF Closes, OneCloser, ClosePcs, f
  <2> QED BY <1>9, <1>13, <2>2 DEF Keeps
<1>15. Good(cache, proc, p, e, newest, NoOp, Nil)
  BY <1>2, <1>5, <1>6, <1>13, <1>14, NoOpIs, NilSleeps, GoodQuiet
<1>16. Core(cache', proc', asleep', newest') /\ sync' = sync
  BY <1>1, <1>2, <1>3, <1>15, StepKeeps
<1> QED BY <1>1, <1>16 DEF Inv

\* CleanerStep preserves the invariant.
LEMMA CleanerStepKeeps ==
    ASSUME Inv, NEW s \in Slots, NEW c, NEW y, CleanDone(cache, SetCleaner(c, s, y)),
           CleanerStep(s, c, y), srv' = srv, faults' = faults,
           sync' \in {"idle", "asleep", "awake"}
    PROVE  Inv'
<1> DEFINE d == SetCleaner(c, s, y)
<1>1. Become(d, newest) /\ asleep' = Woken(d) /\ proc' = proc /\ ops' = ops
  BY DEF CleanerStep, SetCleaner
<1> HIDE DEF d
<1>2. Core(cache, proc, asleep, newest) BY DEF Inv
<1>3. newest \in NewestT BY <1>2 DEF Core
<1>4. CleanDone(cache, d) BY DEF d
<1>5. Core(cache', proc', asleep', newest') BY <1>1, <1>2, <1>3, <1>4, CleanerKeeps
<1> QED BY <1>1, <1>5 DEF Inv

\* Where a cleaner is.
LEMMA CleanerPlaces ==
    ASSUME NEW c \in CacheT, CacheInv(c), NEW s \in Slots
    PROVE  /\ CleanerIs(c.cleaner[s]) /\ c.cleaner[s] \in CleanerT
           /\ c.cleaner[s].pc \in {"idle", "getFile", "backendIdle", "exit"} =>
                c.cleaner[s].file = Nil /\ c.cleaner[s].blk = Nil
           /\ c.cleaner[s].pc \in {"getBlock", "returnFile"} =>
                c.cleaner[s].file \in Files /\ c.cleaner[s].blk = Nil /\ c.cleaner[s].status = "ok"
           /\ c.cleaner[s].pc \in {"write", "returnBlock"} =>
                c.cleaner[s].file \in Files /\ c.cleaner[s].blk \in Blocks
<1>1. CleanerTied(c) BY DEF CacheInv
<1>2. c.cleaner[s] \in CleanerT BY CleanerFields
<1>3. CleanerIs(c.cleaner[s]) BY <1>1 DEF CleanerTied, CleanerIs
<1> QED BY <1>2, <1>3 DEF CleanerIs

\* A cleaner without a file is in order.
LEMMA NoCleanerIs ==
    /\ NoCleaner \in CleanerT /\ CleanerIs(NoCleaner)
    /\ NoCleaner.pc = "idle" /\ NoCleaner.file = Nil /\ NoCleaner.blk = Nil
<1>1. /\ NoCleaner \in CleanerT /\ NoCleaner.pc = "idle" /\ NoCleaner.file = Nil
      /\ NoCleaner.blk = Nil /\ NoCleaner.status = "ok"
  BY DEF NoCleaner, CleanerT, CleanerPcs
<1> QED BY <1>1 DEF CleanerIs

\* What the invariant says of the cache.
LEMMA CoreCache ==
    ASSUME Inv
    PROVE  /\ Core(cache, proc, asleep, newest) /\ cache \in CacheT /\ CacheInv(cache)
           /\ cache.wake = {} /\ newest \in NewestT /\ proc \in ProcsT /\ HoldInv(cache, proc)
           /\ sync \in {"idle", "asleep", "awake"}
BY DEF Inv, Core

\* CleanerExit preserves the invariant.
LEMMA CleanerExitKeeps ==
    ASSUME Inv, NEW s \in Slots, CleanerExit(s)
    PROVE  Inv'
<1>1. cache \in CacheT /\ CacheInv(cache) /\ sync \in {"idle", "asleep", "awake"} BY CoreCache
<1>2. /\ cache.cleaner[s].pc = "exit" /\ CleanerStep(s, cache, NoCleaner)
      /\ srv' = srv /\ faults' = faults /\ sync' = sync
  BY DEF CleanerExit, CleanerAt
<1>3. cache.cleaner[s].file = Nil /\ cache.cleaner[s].blk = Nil BY <1>1, <1>2, CleanerPlaces
<1>4. /\ NoCleaner \in CleanerT /\ CleanerIs(NoCleaner) /\ NoCleaner.file = Nil
      /\ NoCleaner.blk = Nil /\ NoCleaner.pc = "idle"
  BY NoCleanerIs
<1>5. StayDone(cache, SetCleaner(cache, s, NoCleaner), s, NoCleaner)
  BY <1>1, <1>2, <1>3, <1>4, GoesOn DEF ActivePc
<1>6. CleanDone(cache, SetCleaner(cache, s, NoCleaner)) BY <1>5 DEF StayDone
<1> QED BY <1>1, <1>2, <1>6, CleanerStepKeeps

\* FscacheBackendIdle preserves the invariant.
LEMMA FscacheBackendIdleKeeps ==
    ASSUME Inv, NEW s \in Slots, FscacheBackendIdle(s)
    PROVE  Inv'
<1> DEFINE y == [NoCleaner EXCEPT !.pc = "exit"]
           c == [cache EXCEPT !.active = @ - 1]
<1>1. cache \in CacheT /\ CacheInv(cache) /\ sync \in {"idle", "asleep", "awake"} BY CoreCache
<1>2. /\ cache.cleaner[s].pc = "backendIdle" /\ CleanerStep(s, c, y)
      /\ srv' = srv /\ faults' = faults
      /\ sync' = IF cache.active = 1 /\ sync = "asleep" THEN "awake" ELSE sync
  BY DEF FscacheBackendIdle, CleanerAt
<1>3. StayDone(cache, SetCleaner(c, s, y), s, y) BY <1>1, <1>2, GoesIdle
<1> HIDE DEF c, y
<1>4. CleanDone(cache, SetCleaner(c, s, y)) BY <1>3 DEF StayDone
<1>5. sync' \in {"idle", "asleep", "awake"} BY <1>1, <1>2
<1> QED BY <1>2, <1>4, <1>5, CleanerStepKeeps

\* Fscache_GetDirtyFile preserves the invariant.
LEMMA Fscache_GetDirtyFileKeeps ==
    ASSUME Inv, NEW s \in Slots, Fscache_GetDirtyFile(s)
    PROVE  Inv'
<1>1. cache \in CacheT /\ CacheInv(cache) /\ sync \in {"idle", "asleep", "awake"} BY CoreCache
<1> DEFINE listed == {f \in OnDirtyList(cache, s[1]) :
                         ~FileIs(cache, f, {"CLOSE_IN_PROGRESS", "SERVER_DOWN"})}
           cl == cache.cleaner[s]
<1>2. /\ cl.pc = "getFile" /\ srv' = srv /\ faults' = faults /\ sync' = sync
      /\ \E R \in SUBSET listed :
            \/ \E f \in listed :
                  CleanerStep(s, Taken(ForgetAll(cache, R), f), [cl EXCEPT !.pc = "getBlock", !.file = f])
            \/ CleanerStep(s, ForgetAll(cache, R), [cl EXCEPT !.pc = "backendIdle"])
  BY Zenon DEF Fscache_GetDirtyFile, CleanerAt, Taken, SetFileFlags, ForgetAll
<1>3. listed \subseteq Files /\ \A f \in listed : "ON_DIRTY_LIST" \in cache.file[f].flags
  BY DEF OnDirtyList, FileIs
<1> HIDE DEF listed
<1>4. PICK R \in SUBSET listed :
            \/ \E f \in listed :
                  CleanerStep(s, Taken(ForgetAll(cache, R), f), [cl EXCEPT !.pc = "getBlock", !.file = f])
            \/ CleanerStep(s, ForgetAll(cache, R), [cl EXCEPT !.pc = "backendIdle"])
  BY Zenon, <1>2
<1> DEFINE c == ForgetAll(cache, R)
<1>5. Quiet(cache, c) /\ Keeps(cache, c, FileFlags \ Errors) BY <1>1, <1>3, ForgetAllQuiet
<1> HIDE DEF c
<1>6. Keeps(cache, c, Usage) BY <1>5, KeepsFewer DEF Usage, FileFlags, Errors
<1>7. CleanDone(cache, c) BY <1>1, <1>5, <1>6, QuietClean
<1>8. c \in CacheT /\ CacheInv(c) BY <1>7 DEF CleanDone
<1>9. c.cleaner[s] = cl BY Zenon, <1>2, <1>5 DEF Quiet, Starts
<1>10. cl.file = Nil /\ cl.blk = Nil /\ cl \in CleanerT /\ CleanerIs(cl)
  BY Zenon, <1>1, <1>2, CleanerPlaces
<1>11. CASE CleanerStep(s, c, [cl EXCEPT !.pc = "backendIdle"])
  <2> DEFINE y == [cl EXCEPT !.pc = "backendIdle"]
  <2>1. y \in CleanerT /\ CleanerIs(y) /\ y.blk = cl.blk /\ y.file = cl.file /\ ActivePc(y) /\ ActivePc(cl)
    BY Zenon, <1>2, <1>10 DEF CleanerT, CleanerIs, CleanerPcs, ActivePc
  <2> HIDE DEF y, cl
  <2>2. StayDone(c, SetCleaner(c, s, y), s, y) BY <1>8, <1>9, <2>1, GoesOn
  <2>3. CleanDone(c, SetCleaner(c, s, y)) BY <2>2 DEF StayDone
  <2>4. CleanDone(cache, SetCleaner(c, s, y)) BY <1>1, <1>7, <2>3, CleanTrans
  <2>5. CleanerStep(s, c, y) BY <1>11 DEF y
  <2> QED BY Zenon, <1>1, <1>2, <2>4, <2>5, CleanerStepKeeps
<1>12. CASE \E f \in listed :
              CleanerStep(s, Taken(c, f), [cl EXCEPT !.pc = "getBlock", !.file = f])
  <2>1. PICK f \in listed : CleanerStep(s, Taken(c, f), [cl EXCEPT !.pc = "getBlock", !.file = f])
    BY Zenon, <1>12
  <2>2. f \in Files /\ "ON_DIRTY_LIST" \in c.file[f].flags
    BY <1>3, <1>5 DEF Quiet, Lists, FileIs
  <2> DEFINE y == [cl EXCEPT !.pc = "getBlock", !.file = f]
  <2>3. y \in CleanerT BY <1>10, <2>2 DEF CleanerT, CleanerPcs
  <2>4. y = [c.cleaner[s] EXCEPT !.pc = "getBlock", !.file = f] /\ c.cleaner[s].pc = "getFile"
    BY Zenon, <1>2, <1>9
  <2> HIDE DEF y
  <2>5. StayDone(c, SetCleaner(Taken(c, f), s, y), s, y) BY Zenon, <1>8, <2>2, <2>3, <2>4, TakesFile
  <2>6. CleanDone(c, SetCleaner(Taken(c, f), s, y)) BY <2>5 DEF StayDone
  <2>7. CleanDone(cache, SetCleaner(Taken(c, f), s, y)) BY <1>1, <1>7, <2>6, CleanTrans
  <2>8. CleanerStep(s, Taken(c, f), y) BY <2>1 DEF y
  <2> QED BY Zenon, <1>1, <1>2, <2>7, <2>8, CleanerStepKeeps
<1> QED BY Zenon, <1>4, <1>11, <1>12 DEF c

\* An unused block is not being read or changed.
LEMMA UnusedNoIO ==
    ASSUME NEW c \in CacheT, NEW pr, HoldInv(c, pr), NEW b \in Blocks, c.blk[b].ref = 0
    PROVE  "IO_IN_PROGRESS" \notin c.blk[b].flags
<1> SUFFICES ASSUME "IO_IN_PROGRESS" \in c.blk[b].flags PROVE FALSE
  OBVIOUS
<1>1. RefCounts(c, pr) /\ IOHeld(c, pr) BY DEF HoldInv
<1>2. "BEING_WRITTEN" \notin c.blk[b].flags /\ Users(pr, b) # {} BY <1>1 DEF IOHeld, Is, Users
<1>3. Own(c.blk[b]) = Cardinality(Users(pr, b)) BY <1>1, OwnIs
<1>4. Cardinality(Users(pr, b)) > 0 BY <1>2, UsersOf
<1>5. One("BEING_WRITTEN" \in c.blk[b].flags) = 0 BY <1>2 DEF One
<1>6. Own(c.blk[b]) = 0 BY <1>5 DEF Own
<1> QED BY <1>3, <1>4, <1>6

\* Fscache_GetDirtyBlock preserves the invariant.
LEMMA Fscache_GetDirtyBlockKeeps ==
    ASSUME Inv, NEW s \in Slots, Fscache_GetDirtyBlock(s)
    PROVE  Inv'
<1>1. /\ cache \in CacheT /\ CacheInv(cache) /\ sync \in {"idle", "asleep", "awake"}
      /\ HoldInv(cache, proc)
  BY CoreCache
<1> DEFINE cl == cache.cleaner[s]
           f == cl.file
           dirty == cache.file[f].dirtyList
           used == {b \in dirty : cache.blk[b].ref > 0}
           none == [cl EXCEPT !.pc = "returnFile"]
<1>2. /\ cl.pc = "getBlock" /\ srv' = srv /\ faults' = faults /\ sync' = sync
      /\ \/ CleanerStep(s, cache, none)
         \/ CleanerStep(s, Marked(cache, used), none)
         \/ \E b \in dirty \ used, M \in SUBSET used :
               CleanerStep(s, Picked(Marked(cache, M), b, f),
                           [cl EXCEPT !.pc = "write", !.blk = b, !.last = dirty = {b}])
  BY Zenon DEF Fscache_GetDirtyBlock, CleanerAt, Picked, Marked
<1>3. f \in Files /\ cl.blk = Nil /\ cl.status = "ok" /\ cl \in CleanerT
  BY Zenon, <1>1, <1>2, CleanerPlaces
<1>4. /\ none \in CleanerT /\ CleanerIs(none) /\ none.blk = cl.blk /\ none.file = cl.file
      /\ ActivePc(none) /\ ActivePc(cl)
  BY Zenon, <1>2, <1>3 DEF CleanerT, CleanerIs, CleanerPcs, ActivePc
<1> HIDE DEF none
<1>5. ASSUME NEW M \in SUBSET dirty
      PROVE  /\ CleanDone(cache, Marked(cache, M)) /\ Marked(cache, M) \in CacheT
             /\ CacheInv(Marked(cache, M)) /\ MarkedDone(cache, Marked(cache, M), M)
  <2>1. CleanDone(cache, Marked(cache, M)) /\ MarkedDone(cache, Marked(cache, M), M)
    BY <1>1, <1>3, MarkStep
  <2> QED BY <2>1 DEF CleanDone
<1>6. ASSUME NEW c, CleanDone(cache, c), c.cleaner[s] = cl, CleanerStep(s, c, none)
      PROVE  Inv'
  <2>1. c \in CacheT /\ CacheInv(c) BY <1>6 DEF CleanDone
  <2> HIDE DEF cl
  <2>2. StayDone(c, SetCleaner(c, s, none), s, none) BY <1>4, <1>6, <2>1, GoesOn
  <2>3. CleanDone(c, SetCleaner(c, s, none)) BY <2>2 DEF StayDone
  <2>4. CleanDone(cache, SetCleaner(c, s, none)) BY <1>1, <1>6, <2>3, CleanTrans
  <2> QED BY Zenon, <1>1, <1>2, <1>6, <2>4, CleanerStepKeeps
<1>7. CASE CleanerStep(s, cache, none)
  <2>1. CleanDone(cache, cache) BY <1>1, QuietRefl, QuietClean DEF Keeps
  <2> QED BY <1>6, <1>7, <2>1
<1>8. CASE CleanerStep(s, Marked(cache, used), none)
  <2>1. CleanDone(cache, Marked(cache, used)) /\ MarkedDone(cache, Marked(cache, used), used)
    BY <1>5
  <2>2. Marked(cache, used).cleaner[s] = cl BY Zenon, <2>1 DEF MarkedDone
  <2> QED BY Zenon, <1>6, <1>8, <2>1, <2>2
<1>9. CASE \E b \in dirty \ used, M \in SUBSET used :
              CleanerStep(s, Picked(Marked(cache, M), b, f),
                          [cl EXCEPT !.pc = "write", !.blk = b, !.last = dirty = {b}])
  <2>1. PICK b \in dirty \ used, M \in SUBSET used :
              CleanerStep(s, Picked(Marked(cache, M), b, f),
                          [cl EXCEPT !.pc = "write", !.blk = b, !.last = dirty = {b}])
    BY Zenon, <1>9
  <2> DEFINE last == dirty = {b}
             y == [cl EXCEPT !.pc = "write", !.blk = b, !.last = last]
             c == Marked(cache, M)
  <2>2. M \in SUBSET dirty /\ b \in dirty /\ b \notin M /\ ~(cache.blk[b].ref > 0)
    OBVIOUS
  <2>3. CleanDone(cache, c) /\ c \in CacheT /\ CacheInv(c) /\ MarkedDone(cache, c, M)
    BY <1>5, <2>2
  <2>4. last \in BOOLEAN
    OBVIOUS
  <2> HIDE DEF c
  <2>5. b \in Blocks BY <1>1, <1>3, <2>2, FileFields
  <2>6. cache.blk[b].ref = 0
    <3>1. cache.blk[b].ref = Own(cache.blk[b]) + One("BEING_WRITTEN" \in cache.blk[b].flags)
          /\ Own(cache.blk[b]) = Cardinality(Users(proc, b))
      BY <1>1, <2>5, OwnIs DEF HoldInv
    <3>2. Cardinality(Users(proc, b)) \in Nat BY <1>1, UsersOf
    <3>3. One("BEING_WRITTEN" \in cache.blk[b].flags) \in Nat BY DEF One
    <3> QED BY <2>2, <3>1, <3>2, <3>3
  <2>7. "IO_IN_PROGRESS" \notin cache.blk[b].flags BY <1>1, <2>5, <2>6, UnusedNoIO
  <2>8. /\ c.blk[b].ref = 0 /\ "IO_IN_PROGRESS" \notin c.blk[b].flags
        /\ c.cleaner[s] = cl /\ c.file = cache.file
    BY <2>2, <2>3, <2>5, <2>6, <2>7 DEF MarkedDone
  <2>9. CleanerStep(s, Picked(c, b, f), y) BY <2>1 DEF c
  <2>10. /\ y = [c.cleaner[s] EXCEPT !.pc = "write", !.blk = b, !.last = last]
         /\ c.cleaner[s].pc = "getBlock" /\ f = c.cleaner[s].file /\ b \in c.file[f].dirtyList
    BY Zenon, <1>2, <2>2, <2>8
  <2> HIDE DEF y, last, f, cl, dirty, used
  <2>11. PickDone(c, SetCleaner(Picked(c, b, f), s, y), s, y, b, f)
    BY Zenon, <2>3, <2>4, <2>8, <2>10, PicksBlock
  <2>12. CleanDone(c, SetCleaner(Picked(c, b, f), s, y)) BY <2>11 DEF PickDone
  <2>13. CleanDone(cache, SetCleaner(Picked(c, b, f), s, y)) BY <1>1, <2>3, <2>12, CleanTrans
  <2> QED BY Zenon, <1>1, <1>2, <2>9, <2>13, CleanerStepKeeps
<1> QED BY Zenon, <1>2, <1>7, <1>8, <1>9

\* A deleted block has no user but the cleaner.
LEMMA DeletedUnused ==
    ASSUME NEW c \in CacheT, CacheInv(c), NEW pr \in ProcsT, HoldInv(c, pr), NEW b \in Blocks,
           c.blk[b].key # Nil, "DELETED" \in c.blk[b].flags
    PROVE  Own(c.blk[b]) = 0
<1>1. RefCounts(c, pr) /\ Held(c, pr) BY DEF HoldInv
<1>2. c.hash[c.blk[b].key] # b BY BlockFacts
<1>3. ASSUME NEW p \in Procs, pr[p].blk = b
      PROVE  FALSE
  <2>1. pr[p].blk # Nil BY <1>3, NilApart
  <2>2. HeldBy(c, pr[p]) BY <1>1, <2>1 DEF Held
  <2> QED BY <1>2, <1>3, <2>2 DEF HeldBy
<1>4. Users(pr, b) = {} BY <1>3 DEF Users
<1>5. Own(c.blk[b]) = Cardinality(Users(pr, b)) BY <1>1, OwnIs
<1>6. Cardinality({}) = 0 BY FS_EmptySet
<1> QED BY <1>4, <1>5, <1>6

\* Fscache_ReturnDirtyBlock preserves the invariant.
LEMMA Fscache_ReturnDirtyBlockKeeps ==
    ASSUME Inv, NEW s \in Slots, Fscache_ReturnDirtyBlock(s)
    PROVE  Inv'
<1>1. /\ cache \in CacheT /\ CacheInv(cache) /\ sync \in {"idle", "asleep", "awake"}
      /\ HoldInv(cache, proc) /\ proc \in ProcsT
  BY CoreCache
<1> DEFINE cl == cache.cleaner[s]
           f == cl.file
           b == cl.blk
           st == cl.status
           e == Returned(Written(cache, b), b, f, st)
<1>2. /\ cl.pc = "returnBlock" /\ srv' = srv /\ faults' = faults /\ sync' = sync
      /\ \E pc \in {"getBlock", "returnFile"} :
            CleanerStep(s, e, [NoCleaner EXCEPT !.pc = pc, !.file = f])
  BY Zenon DEF Fscache_ReturnDirtyBlock, CleanerAt, Returned
<1>3. /\ f \in Files /\ b \in Blocks /\ cache.blk[b].key # Nil
      /\ "BEING_WRITTEN" \in cache.blk[b].flags
  BY <1>1, <1>2, CleanersBlock
<1>4. "DELETED" \in cache.blk[b].flags => cache.blk[b].ref = 1
  <2>1. cache.blk[b].ref = Own(cache.blk[b]) + One("BEING_WRITTEN" \in cache.blk[b].flags)
    BY <1>1, <1>3, OwnIs
  <2>2. One("BEING_WRITTEN" \in cache.blk[b].flags) = 1 BY <1>3 DEF One
  <2>3. "DELETED" \in cache.blk[b].flags => Own(cache.blk[b]) = 0 BY <1>1, <1>3, DeletedUnused
  <2> QED BY <2>1, <2>2, <2>3
<1>5. PICK pc \in {"getBlock", "returnFile"} :
            CleanerStep(s, e, [NoCleaner EXCEPT !.pc = pc, !.file = f])
  BY <1>2
<1> DEFINE y == [NoCleaner EXCEPT !.pc = pc, !.file = f]
<1>6. ReturnOK(cache, e, b, f) BY <1>1, <1>2, <1>4, ReturnedOK
<1>7. y = [NoCleaner EXCEPT !.pc = pc, !.file = f] /\ CleanerStep(s, e, y) BY <1>5
<1> HIDE DEF e, y
<1>8. CleanDone(cache, SetCleaner(e, s, y)) BY Zenon, <1>1, <1>2, <1>6, <1>7, ReturnsBlock
<1> QED BY <1>1, <1>2, <1>7, <1>8, CleanerStepKeeps

\* Fscache_ReturnDirtyFile preserves the invariant.
LEMMA Fscache_ReturnDirtyFileKeeps ==
    ASSUME Inv, NEW s \in Slots, Fscache_ReturnDirtyFile(s)
    PROVE  Inv'
<1> DEFINE f == cache.cleaner[s].file
           y == [NoCleaner EXCEPT !.pc = "getFile"]
<1>1. cache \in CacheT /\ CacheInv(cache) /\ sync \in {"idle", "asleep", "awake"} BY CoreCache
<1>2. /\ cache.cleaner[s].pc = "returnFile" /\ srv' = srv /\ faults' = faults /\ sync' = sync
      /\ CleanerStep(s, Left(cache, f), y)
  BY Zenon DEF Fscache_ReturnDirtyFile, CleanerAt, Left
<1>3. StayDone(cache, SetCleaner(Left(cache, f), s, y), s, y) BY <1>1, <1>2, LeavesFile
<1>4. CleanDone(cache, SetCleaner(Left(cache, f), s, y)) BY <1>3 DEF StayDone
<1> HIDE DEF f, y
<1> QED BY <1>1, <1>2, <1>4, CleanerStepKeeps

\* BlockWrite preserves the invariant.
LEMMA BlockWriteKeeps ==
    ASSUME Inv, NEW s \in Slots, BlockWrite(s)
    PROVE  Inv'
<1>1. /\ cache \in CacheT /\ CacheInv(cache) /\ newest \in NewestT
      /\ Core(cache, proc, asleep, newest) /\ cache.wake = {}
  BY CoreCache
<1> DEFINE cl == cache.cleaner[s]
           f == cl.file
           b == cl.blk
           k == cache.blk[b].key
           n == [newest EXCEPT ![k] = IF b \in @ THEN @ \cup {Server} ELSE @ \ {Server}]
           y(status) == [cl EXCEPT !.pc = "returnBlock", !.status = status]
<1>2. cl.pc = "write" /\ proc' = proc /\ asleep' = asleep /\ sync' = sync /\ ops' = ops
  BY Zenon DEF BlockWrite, CleanerAt
<1>3. f \in Files /\ b \in Blocks /\ cl \in CleanerT BY <1>1, <1>2, CleanerPlaces
<1>4. ASSUME NEW status
      PROVE  [cache EXCEPT !.cleaner[s].pc = "returnBlock", !.cleaner[s].status = status]
               = SetCleaner(cache, s, y(status))
  BY Zenon, <1>1, CacheFields DEF SetCleaner
<1>5. \/ /\ Become(SetCleaner(cache, s, y("ok")), n) /\ faults' = faults
         /\ srv' = [srv EXCEPT ![f].dirty =
                     @ /\ ~(cl.last /\ ~srv[f].open /\ s[1] = "remote"
                            /\ \A q \in Procs : proc[q].op = "consist" => proc[q].file # f)]
      \/ /\ faults < MaxFaults /\ faults' = faults + 1 /\ srv' = srv
         /\ \E status \in Errors : Become(SetCleaner(cache, s, y(status)), newest)
  BY ZenonT(40), <1>4 DEF BlockWrite
<1>6. ASSUME NEW status \in Errors \cup {"ok"}, NEW m \in NewestT,
             Become(SetCleaner(cache, s, y(status)), m)
      PROVE  Core(cache', proc', asleep', newest')
  <2> DEFINE z == y(status)
             d == SetCleaner(cache, s, z)
  <2>1. /\ z \in CleanerT /\ CleanerIs(z) /\ z.blk = cl.blk /\ z.file = cl.file
        /\ ActivePc(z) /\ ActivePc(cl)
    BY <1>2, <1>3 DEF CleanerT, CleanerIs, CleanerPcs, ActivePc
  <2> HIDE DEF z, cl
  <2>2. StayDone(cache, d, s, z) BY <1>1, <2>1, GoesOn DEF cl
  <2>3. CleanDone(cache, d) BY <2>2 DEF StayDone
  <2>4. d.wake = {} BY <1>1, <2>1, SetCleanerFacts
  <2> HIDE DEF d
  <2>5. asleep' = Woken(d) BY <1>1, <1>2, <2>4, NobodyWoken
  <2>6. Become(d, m) BY <1>6 DEF d, z
  <2> QED BY <1>1, <1>2, <2>3, <2>5, <2>6, CleanerKeeps
<1>7. n \in NewestT BY Zenon, <1>1 DEF NewestT
<1>8. srv \in [Files -> [open : BOOLEAN, dirty : BOOLEAN]] /\ faults \in 0 .. MaxFaults /\ ops' = ops
      /\ sync' \in {"idle", "asleep", "awake"} /\ ops' \in 0 .. MaxOps
  BY <1>2 DEF Inv
<1> HIDE DEF y, n
<1>9. CASE /\ Become(SetCleaner(cache, s, y("ok")), n) /\ faults' = faults
           /\ srv' = [srv EXCEPT ![f].dirty =
                     @ /\ ~(cl.last /\ ~srv[f].open /\ s[1] = "remote"
                            /\ \A q \in Procs : proc[q].op = "consist" => proc[q].file # f)]
  <2>1. Core(cache', proc', asleep', newest') BY <1>6, <1>7, <1>9
  <2> DEFINE v == srv[f].dirty /\ ~(cl.last /\ ~srv[f].open /\ s[1] = "remote"
                            /\ \A q \in Procs : proc[q].op = "consist" => proc[q].file # f)
  <2>2. v \in BOOLEAN /\ srv' = [srv EXCEPT ![f].dirty = v] BY <1>9
  <2> HIDE DEF v
  <2>3. srv' \in [Files -> [open : BOOLEAN, dirty : BOOLEAN]] BY <1>3, <1>8, <2>2
  <2> QED BY <1>8, <1>9, <2>1, <2>3 DEF Inv
<1>10. CASE /\ faults < MaxFaults /\ faults' = faults + 1 /\ srv' = srv
            /\ \E status \in Errors : Become(SetCleaner(cache, s, y(status)), newest)
  <2>1. Core(cache', proc', asleep', newest') BY <1>1, <1>6, <1>10
  <2>2. faults' \in 0 .. MaxFaults BY <1>8, <1>10, MaxTypes
  <2> QED BY <1>8, <1>10, <2>1, <2>2 DEF Inv
<1> QED BY <1>5, <1>9, <1>10

\* QuietStep preserves the invariant.
LEMMA QuietStepKeeps ==
    ASSUME Inv, NEW d, Quiet(cache, d), Keeps(cache, d, Usage), Become(d, newest),
           UNCHANGED <<proc, asleep, srv, faults, ops>>, sync' \in {"idle", "asleep", "awake"}
    PROVE  Inv'
<1>1. /\ cache \in CacheT /\ CacheInv(cache) /\ newest \in NewestT
      /\ Core(cache, proc, asleep, newest) /\ cache.wake = {}
  BY CoreCache
<1>2. CleanDone(cache, d) BY <1>1, QuietClean
<1>3. d.wake = {} BY <1>1 DEF Quiet
<1>4. asleep' = Woken(d) BY <1>1, <1>3, NobodyWoken
<1>5. Core(cache', proc', asleep', newest') BY <1>1, <1>2, <1>4, CleanerKeeps
<1> QED BY <1>5 DEF Inv

\* Fsutil_SyncProc preserves the invariant.
LEMMA Fsutil_SyncProcKeeps ==
    ASSUME Inv, Fsutil_SyncProc
    PROVE  Inv'
<1>1. cache \in CacheT /\ CacheInv(cache) BY CoreCache
<1>2. PICK S \in SUBSET UNION {Starters(backend) : backend \in Backends} :
         /\ Become(SyncFiles(cache, S), newest)
         /\ sync' = IF SyncFiles(cache, S).active > 0 THEN "asleep" ELSE "idle"
  BY Zenon DEF Fsutil_SyncProc, SyncFiles
<1>3. UNCHANGED <<proc, asleep, srv, faults, ops>> BY Zenon DEF Fsutil_SyncProc
<1>4. S \in SUBSET Files BY DEF Starters, OnDirtyList
<1> DEFINE d == SyncFiles(cache, S)
<1>5. Quiet(cache, d) /\ Keeps(cache, d, FileFlags \ Errors) BY <1>1, <1>4, SyncFilesQuiet
<1> HIDE DEF d
<1>6. Keeps(cache, d, Usage) BY <1>5, KeepsFewer DEF Usage, FileFlags, Errors
<1>7. sync' \in {"idle", "asleep", "awake"} /\ Become(d, newest) BY <1>2 DEF d
<1> QED BY <1>3, <1>5, <1>6, <1>7, QuietStepKeeps

\* SyncWakes preserves the invariant.
LEMMA SyncWakesKeeps ==
    ASSUME Inv, SyncWakes
    PROVE  Inv'
<1>1. sync' \in {"idle", "asleep", "awake"} BY DEF SyncWakes
<1>2. UNCHANGED <<cache, proc, asleep, srv, newest, faults, ops>> BY DEF SyncWakes
<1> QED BY <1>1, <1>2 DEF Inv

\* FsrmtFinishFileReopen preserves the invariant.
LEMMA FsrmtFinishFileReopenKeeps ==
    ASSUME Inv, NEW f \in Files, FsrmtFinishFileReopen(f)
    PROVE  Inv'
<1>1. cache \in CacheT /\ CacheInv(cache) /\ sync \in {"idle", "asleep", "awake"} BY CoreCache
<1> DEFINE c == ClearErrors(cache, f)
<1>2. PICK d \in {c, StartFileSync(c, f)} : Become(d, newest)
  BY DEF FsrmtFinishFileReopen, ClearErrors
<1>3. UNCHANGED <<proc, asleep, srv, sync, faults, ops>> BY DEF FsrmtFinishFileReopen
<1>4. Quiet(cache, c) /\ Keeps(cache, c, FileFlags \ Errors) BY <1>1, ClearErrorsQuiet
<1> HIDE DEF c
<1>5. c \in CacheT BY <1>4 DEF Quiet
<1>6. Keeps(cache, c, Usage) BY <1>4, KeepsFewer DEF Usage, FileFlags, Errors
<1> DEFINE e == StartFileSync(c, f)
<1>7. Quiet(c, e) /\ Keeps(c, e, FileFlags \ {"FSYNC"}) BY <1>5, StartFileSyncQuiet
<1> HIDE DEF e
<1>8. Keeps(c, e, Usage) BY <1>7, KeepsFewer DEF Usage, FileFlags, Errors
<1>9. Quiet(cache, e) /\ Keeps(cache, e, Usage)
  BY <1>1, <1>4, <1>6, <1>7, <1>8, QuietTrans, KeepsTrans
<1>10. Quiet(cache, d) /\ Keeps(cache, d, Usage) BY <1>2, <1>4, <1>6, <1>9 DEF e
<1> QED BY <1>1, <1>2, <1>3, <1>10, QuietStepKeeps

\* Fetching, using and unlocking a block.
LEMMA RefFacts ==
    ASSUME NEW c \in CacheT, NEW pr, HoldInv(c, pr), NEW b \in Blocks
    PROVE  /\ c.blk[b].ref \in Nat /\ ("BEING_WRITTEN" \in c.blk[b].flags => c.blk[b].ref > 0)
           /\ Own(c.blk[b]) \in Nat
           /\ Own(c.blk[b]) = Cardinality(Users(pr, b))
           /\ "IO_IN_PROGRESS" \in c.blk[b].flags =>
                "BEING_WRITTEN" \notin c.blk[b].flags /\ Own(c.blk[b]) = 1 /\ c.blk[b].ref = 1
           /\ Own(c.blk[b]) > 0 =>
                c.blk[b].ref > 0 /\ ("BEING_WRITTEN" \in c.blk[b].flags => c.blk[b].ref > 1)
           /\ c.blk[b].ref = 0 => Own(c.blk[b]) = 0
<1> DEFINE w == One("BEING_WRITTEN" \in c.blk[b].flags)
           n == Cardinality(Users(pr, b))
<1>1. RefCounts(c, pr) /\ IOHeld(c, pr) BY DEF HoldInv
<1>2. w \in {0, 1} /\ (w = 1 <=> "BEING_WRITTEN" \in c.blk[b].flags) BY DEF One
<1>3. c.blk[b].ref = Own(c.blk[b]) + w /\ Own(c.blk[b]) = n BY <1>1, OwnIs
<1>4. n \in Nat BY UsersOf
<1>5. ASSUME "IO_IN_PROGRESS" \in c.blk[b].flags
      PROVE  "BEING_WRITTEN" \notin c.blk[b].flags /\ n = 1
  <2>1. PICK p \in Procs : pr[p].blk = b /\ \A q \in Procs : pr[q].blk = b => q = p
    BY <1>1, <1>5 DEF IOHeld, Is
  <2>2. p \in Users(pr, b) /\ \A q \in Users(pr, b) : q = p BY <2>1 DEF Users
  <2>3. n = 1 BY <2>2, UsersOf
  <2> QED BY <1>1, <1>5, <2>3 DEF IOHeld, Is
<1> HIDE DEF w, n
<1>6. /\ c.blk[b].ref \in Nat /\ ("BEING_WRITTEN" \in c.blk[b].flags => c.blk[b].ref > 0)
      /\ Own(c.blk[b]) \in Nat
      /\ "IO_IN_PROGRESS" \in c.blk[b].flags =>
           "BEING_WRITTEN" \notin c.blk[b].flags /\ Own(c.blk[b]) = 1 /\ c.blk[b].ref = 1
      /\ Own(c.blk[b]) > 0 =>
           c.blk[b].ref > 0 /\ ("BEING_WRITTEN" \in c.blk[b].flags => c.blk[b].ref > 1)
      /\ c.blk[b].ref = 0 => Own(c.blk[b]) = 0
  BY <1>2, <1>3, <1>4, <1>5
<1> QED BY <1>3, <1>6 DEF n

----------------------------------------------------------------------------
(* Processes with a block.                                                 *)
\* Users come and go with the references.
LEMMA OwnMoves ==
    ASSUME NEW c \in CacheT, NEW d \in CacheT, NEW b \in Blocks,
           "BEING_WRITTEN" \in d.blk[b].flags <=> "BEING_WRITTEN" \in c.blk[b].flags
    PROVE  /\ d.blk[b].ref = c.blk[b].ref + 1 => Own(d.blk[b]) = Own(c.blk[b]) + 1
           /\ d.blk[b].ref = c.blk[b].ref - 1 => Own(d.blk[b]) = Own(c.blk[b]) - 1
<1> DEFINE v == One("BEING_WRITTEN" \in c.blk[b].flags)
           w == One("BEING_WRITTEN" \in d.blk[b].flags)
<1>1. v = w /\ v \in Int BY DEF One
<1>2. Own(c.blk[b]) = c.blk[b].ref - v /\ Own(d.blk[b]) = d.blk[b].ref - w BY DEF Own
<1>3. c.blk[b].ref \in Int /\ d.blk[b].ref \in Int BY BlockFields
<1> HIDE DEF v, w
<1> QED BY <1>1, <1>2, <1>3

\* A process leaves its block.
LEMMA ReleaseMoves ==
    ASSUME NEW c \in CacheT, NEW d \in CacheT, NEW pr \in ProcsT, HoldInv(c, pr),
           NEW p \in Procs, NEW x, x.blk = Nil, NEW b \in Blocks, pr[p].blk = b,
           \A a \in Blocks \ {b} : d.blk[a] = c.blk[a],
           \A k \in Keys : c.hash[k] # b => d.hash[k] = c.hash[k],
           Own(d.blk[b]) = Own(c.blk[b]) - 1, "IO_IN_PROGRESS" \notin d.blk[b].flags,
           Own(c.blk[b]) # 1 => d.blk[b].key = c.blk[b].key /\ d.hash = c.hash
    PROVE  HoldMoves(c, d, pr, p, x)
<1> SUFFICES ASSUME NEW a \in Blocks
             PROVE  /\ Own(d.blk[a]) = Own(c.blk[a]) + One(x.blk = a) - One(pr[p].blk = a)
                    /\ Own(c.blk[a]) # One(pr[p].blk = a) =>
                       /\ d.blk[a].key = c.blk[a].key
                       /\ \A k \in Keys : c.hash[k] = a => d.hash[k] = a
                       /\ c.blk[a].flags = {"IO_IN_PROGRESS"} => d.blk[a].flags = {"IO_IN_PROGRESS"}
                       /\ "IO_IN_PROGRESS" \in c.blk[a].flags => "IO_IN_PROGRESS" \in d.blk[a].flags
                    /\ "IO_IN_PROGRESS" \in d.blk[a].flags =>
                       /\ "BEING_WRITTEN" \notin d.blk[a].flags
                       /\ IF x.blk = a THEN Own(d.blk[a]) = 1
                          ELSE "IO_IN_PROGRESS" \in c.blk[a].flags /\ pr[p].blk # a
  BY DEF HoldMoves
<1>1. x.blk # a BY NilApart
<1>2. One(x.blk = a) = 0 BY <1>1 DEF One
<1>3. Own(c.blk[a]) \in Nat /\ ("IO_IN_PROGRESS" \in c.blk[a].flags =>
         "BEING_WRITTEN" \notin c.blk[a].flags /\ Own(c.blk[a]) = 1)
  BY RefFacts
<1>4. CASE a = b
  <2>1. One(pr[p].blk = a) = 1 BY <1>4 DEF One
  <2>2. Own(d.blk[a]) = Own(c.blk[a]) + One(x.blk = a) - One(pr[p].blk = a)
    BY <1>2, <1>3, <1>4, <2>1
  <2>3. Own(c.blk[a]) # 1 => /\ d.blk[a].key = c.blk[a].key /\ d.hash = c.hash
                             /\ "IO_IN_PROGRESS" \notin c.blk[a].flags
    BY <1>3, <1>4
  <2> QED BY <1>4, <2>1, <2>2, <2>3
<1>5. CASE a # b
  <2>1. One(pr[p].blk = a) = 0 BY <1>5 DEF One
  <2>2. d.blk[a] = c.blk[a] /\ \A k \in Keys : c.hash[k] = a => d.hash[k] = a BY <1>5
  <2>3. Own(d.blk[a]) = Own(c.blk[a]) + One(x.blk = a) - One(pr[p].blk = a)
    BY <1>2, <1>3, <2>1, <2>2
  <2> QED BY <1>1, <1>3, <1>5, <2>2, <2>3
<1> QED BY <1>4, <1>5

\* A process gets a block.
LEMMA AcquireMoves ==
    ASSUME NEW c \in CacheT, NEW d \in CacheT, NEW pr \in ProcsT, HoldInv(c, pr),
           NEW p \in Procs, pr[p].blk = Nil, NEW b \in Blocks, NEW x, x.blk = b,
           \A a \in Blocks \ {b} : d.blk[a] = c.blk[a],
           \A k \in Keys : c.hash[k] \notin {b, Nil} => d.hash[k] = c.hash[k],
           Own(d.blk[b]) = Own(c.blk[b]) + 1,
           "IO_IN_PROGRESS" \in d.blk[b].flags =>
               "BEING_WRITTEN" \notin d.blk[b].flags /\ Own(d.blk[b]) = 1,
           Own(c.blk[b]) # 0 => /\ d.blk[b].key = c.blk[b].key /\ d.hash = c.hash
                                /\ "IO_IN_PROGRESS" \notin c.blk[b].flags
    PROVE  HoldMoves(c, d, pr, p, x)
<1> SUFFICES ASSUME NEW a \in Blocks
             PROVE  /\ Own(d.blk[a]) = Own(c.blk[a]) + One(x.blk = a) - One(pr[p].blk = a)
                    /\ Own(c.blk[a]) # One(pr[p].blk = a) =>
                       /\ d.blk[a].key = c.blk[a].key
                       /\ \A k \in Keys : c.hash[k] = a => d.hash[k] = a
                       /\ c.blk[a].flags = {"IO_IN_PROGRESS"} => d.blk[a].flags = {"IO_IN_PROGRESS"}
                       /\ "IO_IN_PROGRESS" \in c.blk[a].flags => "IO_IN_PROGRESS" \in d.blk[a].flags
                    /\ "IO_IN_PROGRESS" \in d.blk[a].flags =>
                       /\ "BEING_WRITTEN" \notin d.blk[a].flags
                       /\ IF x.blk = a THEN Own(d.blk[a]) = 1
                          ELSE "IO_IN_PROGRESS" \in c.blk[a].flags /\ pr[p].blk # a
  BY DEF HoldMoves
<1>1. pr[p].blk # a BY NilApart
<1>2. One(pr[p].blk = a) = 0 BY <1>1 DEF One
<1>3. Own(c.blk[a]) \in Nat /\ ("IO_IN_PROGRESS" \in c.blk[a].flags =>
         "BEING_WRITTEN" \notin c.blk[a].flags /\ Own(c.blk[a]) = 1)
  BY RefFacts
<1>4. CASE a = b
  <2>1. One(x.blk = a) = 1 BY <1>4 DEF One
  <2>2. Own(d.blk[a]) = Own(c.blk[a]) + One(x.blk = a) - One(pr[p].blk = a)
    BY <1>2, <1>3, <1>4, <2>1
  <2>3. Own(c.blk[a]) # 0 => /\ d.blk[a].key = c.blk[a].key /\ d.hash = c.hash
                             /\ "IO_IN_PROGRESS" \notin c.blk[a].flags
    BY <1>4
  <2> QED BY <1>2, <1>4, <2>2, <2>3
<1>5. CASE a # b
  <2>1. One(x.blk = a) = 0 /\ x.blk # a BY <1>5 DEF One
  <2>2. d.blk[a] = c.blk[a] /\ \A k \in Keys : c.hash[k] = a => d.hash[k] = a BY <1>5, NilApart
  <2>3. Own(d.blk[a]) = Own(c.blk[a]) + One(x.blk = a) - One(pr[p].blk = a)
    BY <1>2, <1>3, <2>1, <2>2
  <2> QED BY <1>1, <1>3, <1>5, <2>1, <2>2, <2>3
<1> QED BY <1>4, <1>5

\* Who does not close is in order.
LEMMA NotClosing ==
    ASSUME NEW x, x.pc \notin ClosePcs
    PROVE  (\A pr, p : OnlyCloser(pr, p, x)) /\ (\A c : Marks(c, x))
BY DEF OnlyCloser, Marks

\* What a process has in hand when it has got block b.
LEMMA FetchedProc ==
    ASSUME NEW y \in ProcT, DoesIO(y, Nil), y.pc = "fetch", NEW b \in Blocks,
           NEW pc \in {"use", "fill"}, NEW x, x = Gets(y, pc, b)
    PROVE  /\ x \in ProcT /\ Tied(x, Nil) /\ x.blk = b /\ x.pc = pc /\ x.op = y.op /\ x.key = y.key
           /\ x.pc \notin ClosePcs
<1>1. x \in ProcT /\ x.blk = b /\ x.pc = pc /\ x.op = y.op /\ x.key = y.key /\ x.file = y.file
  BY DEF Gets, ProcT, ProcPcs
<1>2. b # Nil /\ Nil # CloseCondition BY NilApart, EventTypes
<1>3. DoesIO(x, Nil) BY <1>1, <1>2 DEF DoesIO
<1> QED BY <1>1, <1>3 DEF Tied, ClosePcs

\* A process that gets a block is as it should be.
LEMMA GoodFetch ==
    ASSUME NEW c, NEW pr, NEW sl, NEW nw, Core(c, pr, sl, nw), NEW p \in Procs,
           pr[p].pc = "fetch", sl[p] = Nil, NEW b \in Blocks, NEW pc \in {"use", "fill"},
           NEW x, x = Gets(pr[p], pc, b),
           NEW d \in CacheT, CacheInv(d), Heard(c, d), Keeps(c, d, WaitFlags),
           HoldMoves(c, d, pr, p, x), HeldBy(d, x)
    PROVE  Good(c, pr, p, d, nw, x, Nil)
<1>1. pr[p] \in ProcT /\ nw \in NewestT BY ProcFacts DEF Core
<1>2. DoesIO(pr[p], Nil) BY AtPlaces
<1>3. x \in ProcT /\ Tied(x, Nil) /\ x.pc \notin ClosePcs BY <1>1, <1>2, FetchedProc
<1>4. OnlyCloser(pr, p, x) /\ Marks(d, x) BY <1>3, NotClosing
<1>5. CloseKept(c, d, pr, p) BY KeepsCloses
<1>6. SleepsWell(d, x, Nil) BY NilSleeps
<1> QED BY <1>1, <1>3, <1>4, <1>5, <1>6 DEF Good

\* Which block of the cache a process finds.
LEMMA FoundBlock ==
    ASSUME NEW c \in CacheT, CacheInv(c), NEW k \in Keys, c.hash[k] # Nil
    PROVE  /\ c.hash[k] \in Blocks /\ c.blk[c.hash[k]].key = k
           /\ c.blk[c.hash[k]].key # Nil
<1>1. c.hash[k] \in Blocks BY CacheFields
<1>2. HashTied(c) BY DEF CacheInv
<1>3. c.blk[c.hash[k]].key = k BY <1>2 DEF HashTied
<1> QED BY <1>1, <1>3, NilApart

\* Taking a block is a good step.
LEMMA TakeGood ==
    ASSUME NEW c, NEW pr, NEW sl, NEW nw, Core(c, pr, sl, nw), NEW p \in Procs,
           pr[p].pc = "fetch", sl[p] = Nil, NEW b, b = c.hash[pr[p].key], b # Nil,
           "IO_IN_PROGRESS" \notin c.blk[b].flags, NEW io, io <=> pr[p].op = "write", io \in BOOLEAN,
           io => ~(c.blk[b].ref > 0) /\ "BEING_WRITTEN" \notin c.blk[b].flags
    PROVE  Good(c, pr, p, Take(c, b, io), nw, Gets(pr[p], "use", b), Nil)
<1> DEFINE d == Take(c, b, io)
           x == Gets(pr[p], "use", b)
           k == pr[p].key
<1>1. c \in CacheT /\ CacheInv(c) /\ HoldInv(c, pr) /\ pr \in ProcsT BY DEF Core
<1>2. DoesIO(pr[p], Nil) /\ pr[p] \in ProcT BY AtPlaces, ProcFacts
<1>3. pr[p].blk = Nil /\ k \in Keys BY <1>2 DEF DoesIO
<1>4. b \in Blocks /\ c.blk[b].key = k /\ c.blk[b].key # Nil BY <1>1, <1>3, FoundBlock
<1>5. /\ c.blk[b].ref \in Nat /\ ("BEING_WRITTEN" \in c.blk[b].flags => c.blk[b].ref > 0)
      /\ Own(c.blk[b]) \in Nat /\ (c.blk[b].ref = 0 => Own(c.blk[b]) = 0)
  BY <1>1, <1>4, RefFacts
<1>6. TakeDone(c, d, b, io) BY <1>1, <1>4, <1>5, TakeStep
<1>7. /\ x \in ProcT /\ x.blk = b /\ x.pc = "use" /\ x.op = pr[p].op /\ x.key = k
  BY <1>2, <1>4, FetchedProc
<1> HIDE DEF d, x, k
<1>8. /\ d \in CacheT /\ CacheInv(d) /\ Heard(c, d) /\ Around(c, d, b) /\ d.file = c.file
      /\ d.blk[b].key = c.blk[b].key /\ d.blk[b].ref = c.blk[b].ref + 1
      /\ d.blk[b].flags = c.blk[b].flags \cup (IF io THEN {"IO_IN_PROGRESS"} ELSE {})
  BY Zenon, <1>6 DEF TakeDone
<1>9. Keeps(c, d, WaitFlags) BY Zenon, <1>8 DEF Keeps
<1>10. "BEING_WRITTEN" \in d.blk[b].flags <=> "BEING_WRITTEN" \in c.blk[b].flags BY Zenon, <1>8
<1>11. Own(d.blk[b]) = Own(c.blk[b]) + 1 BY Zenon, <1>1, <1>4, <1>8, <1>10, OwnMoves
<1>12. /\ "IO_IN_PROGRESS" \in d.blk[b].flags =>
              "BEING_WRITTEN" \notin d.blk[b].flags /\ Own(d.blk[b]) = 1
       /\ io => "IO_IN_PROGRESS" \in d.blk[b].flags
  <2>1. "IO_IN_PROGRESS" \in d.blk[b].flags <=> io BY Zenon, <1>8
  <2>2. CASE io
    <3>1. "BEING_WRITTEN" \notin d.blk[b].flags BY Zenon, <1>10, <2>2
    <3>2. c.blk[b].ref = 0 BY <1>5, <2>2
    <3>3. Own(c.blk[b]) = 0 BY Zenon, <1>5, <3>2
    <3>4. Own(d.blk[b]) = 1 BY <1>11, <3>3
    <3> QED BY Zenon, <2>1, <2>2, <3>1, <3>4
  <2>3. CASE ~io BY Zenon, <2>1, <2>3
  <2> QED BY Zenon, <2>2, <2>3
<1>13. d.hash = c.hash /\ \A a \in Blocks \ {b} : d.blk[a] = c.blk[a] BY Zenon, <1>8 DEF Around
<1>14. HoldMoves(c, d, pr, p, x)
  BY Zenon, <1>1, <1>3, <1>4, <1>7, <1>8, <1>11, <1>12, <1>13, AcquireMoves
<1>15. HeldBy(d, x)
  <2>1. d.hash[k] = b BY <1>13 DEF k
  <2> QED BY Zenon, <1>4, <1>7, <1>8, <1>12, <2>1 DEF HeldBy, Is
<1>16. Good(c, pr, p, d, nw, x, Nil) BY Zenon, <1>4, <1>8, <1>9, <1>14, <1>15, GoodFetch DEF x
<1> QED BY <1>16 DEF d, x

\* Taking a block that holds nothing is a good step.
LEMMA NewGood ==
    ASSUME NEW c, NEW pr, NEW sl, NEW nw, Core(c, pr, sl, nw), NEW p \in Procs,
           pr[p].pc = "fetch", sl[p] = Nil, c.hash[pr[p].key] = Nil,
           NEW e, CacheInv(e), e \in CacheT, Heard(c, e), Keeps(c, e, WaitFlags),
           NEW b \in Blocks, \A a \in Blocks \ {b} : e.blk[a] = c.blk[a],
           \A j \in Keys : c.hash[j] \notin {b, Nil} => e.hash[j] = c.hash[j],
           e.hash[pr[p].key] = Nil,
           e.blk[b].key = Nil, Own(c.blk[b]) = 0
    PROVE  Good(c, pr, p, NewBlock(e, b, pr[p].key), nw, Gets(pr[p], "fill", b), Nil)
<1> DEFINE k == pr[p].key
           d == NewBlock(e, b, k)
           x == Gets(pr[p], "fill", b)
<1>1. c \in CacheT /\ CacheInv(c) /\ HoldInv(c, pr) /\ pr \in ProcsT BY DEF Core
<1>2. DoesIO(pr[p], Nil) /\ pr[p] \in ProcT BY AtPlaces, ProcFacts
<1>3. pr[p].blk = Nil /\ k \in Keys BY <1>2 DEF DoesIO
<1>4. NewDone(e, d, b, k) BY <1>3, NewStep
<1>5. /\ x \in ProcT /\ x.blk = b /\ x.pc = "fill" /\ x.op = pr[p].op /\ x.key = k
  BY <1>2, FetchedProc
<1>6. e.hash[k] = Nil /\ c.hash[k] = Nil
  OBVIOUS
<1> HIDE DEF d, x, k
<1>7. /\ d \in CacheT /\ CacheInv(d) /\ Heard(e, d)
      /\ \A a \in Blocks \ {b} : d.blk[a] = e.blk[a]
      /\ d.blk[b].key = k /\ d.blk[b].ref = 1 /\ d.blk[b].flags = {"IO_IN_PROGRESS"}
      /\ d.hash[k] = b /\ \A j \in Keys \ {k} : d.hash[j] = e.hash[j]
      /\ Keeps(e, d, FileFlags)
  BY <1>4 DEF NewDone
<1>8. Heard(c, d) BY <1>1, <1>7, HeardTrans
<1>9. Keeps(c, d, WaitFlags)
  <2>1. Keeps(e, d, WaitFlags) BY <1>7, KeepsFewer DEF WaitFlags, FileFlags
  <2> QED BY <2>1, KeepsTrans
<1>10. Own(d.blk[b]) = 1 BY <1>7 DEF Own, One
<1>11. HoldMoves(c, d, pr, p, x)
  <2>1. \A j \in Keys : c.hash[j] \notin {b, Nil} => d.hash[j] = c.hash[j] BY <1>6, <1>7
  <2>2. "BEING_WRITTEN" \notin d.blk[b].flags /\ Own(d.blk[b]) = Own(c.blk[b]) + 1
    BY <1>7, <1>10
  <2>3. \A a \in Blocks \ {b} : d.blk[a] = c.blk[a] BY <1>7
  <2> QED BY <1>1, <1>3, <1>5, <1>7, <1>10, <2>1, <2>2, <2>3, AcquireMoves
<1>12. HeldBy(d, x) BY <1>5, <1>7 DEF HeldBy, Is
<1>13. Good(c, pr, p, d, nw, x, Nil) BY <1>7, <1>8, <1>9, <1>11, <1>12, GoodFetch DEF x
<1> QED BY <1>13 DEF d, x, k

\* Taking a free block is a good step.
LEMMA FreeGood ==
    ASSUME NEW c, NEW pr, NEW sl, NEW nw, Core(c, pr, sl, nw), NEW p \in Procs,
           pr[p].pc = "fetch", sl[p] = Nil, c.hash[pr[p].key] = Nil,
           NEW b \in Blocks, "FREE" \in c.blk[b].flags
    PROVE  Good(c, pr, p, NewBlock(c, b, pr[p].key), nw, Gets(pr[p], "fill", b), Nil)
<1>1. c \in CacheT /\ CacheInv(c) /\ HoldInv(c, pr) BY DEF Core
<1>2. BlockTied(c) BY <1>1 DEF CacheInv
<1>3. c.blk[b].key = Nil /\ c.blk[b].ref = 0 BY <1>2 DEF BlockTied
<1>4. Own(c.blk[b]) = 0 BY <1>1, <1>3, RefFacts
<1>5. Heard(c, c) /\ Keeps(c, c, WaitFlags) BY <1>1, QuietRefl, QuietHeard DEF Keeps
<1> QED BY <1>1, <1>3, <1>4, <1>5, NewGood

\* Reusing a clean block is a good step.
LEMMA ReuseGood ==
    ASSUME NEW c, NEW pr, NEW sl, NEW nw, Core(c, pr, sl, nw), NEW p \in Procs,
           pr[p].pc = "fetch", sl[p] = Nil, c.hash[pr[p].key] = Nil,
           NEW b \in CleanBlocks(c), NEW S \in SUBSET Files
    PROVE  Good(c, pr, p, NewBlock(DeleteBlock(StartSyncs(c, S), b), b, pr[p].key), nw,
                Gets(pr[p], "fill", b), Nil)
<1> DEFINE g == StartSyncs(c, S)
           e == Freed(g, b)
           k == pr[p].key
<1>1. c \in CacheT /\ CacheInv(c) /\ HoldInv(c, pr) BY DEF Core
<1>2. DoesIO(pr[p], Nil) BY AtPlaces
<1>3. k \in Keys BY <1>2 DEF DoesIO
<1>4. /\ b \in Blocks /\ c.blk[b].ref = 0 /\ c.blk[b].flags \cap DirtyOrWritten = {}
      /\ "FREE" \notin c.blk[b].flags
  BY DEF CleanBlocks, Is
<1>5. c.blk[b].key # Nil
  <2>1. BlockTied(c) BY <1>1 DEF CacheInv
  <2> QED BY <1>4, <2>1 DEF BlockTied
<1>6. "DELETED" \notin c.blk[b].flags BY <1>1, <1>4, <1>5, BlockFacts
<1>7. Quiet(c, g) /\ Keeps(c, g, FileFlags \ {"FSYNC"}) BY <1>1, StartSyncsQuiet
<1> HIDE DEF g
<1>8. g \in CacheT /\ g.blk = c.blk /\ g.hash = c.hash /\ g.avail = c.avail
  BY <1>7 DEF Quiet, Same
<1>9. CacheInv(g) /\ Heard(c, g) BY <1>1, <1>7, QuietInv, QuietHeard
<1>10. Droppable(g, b) BY <1>4, <1>5, <1>6, <1>8 DEF Droppable
<1>11. FreeDone(g, e, b) BY <1>4, <1>8, <1>9, <1>10, FreeStep
<1>12. NewBlock(DeleteBlock(g, b), b, k) = NewBlock(e, b, k) BY <1>3, <1>4, <1>5, <1>8, ReuseIs
<1> HIDE DEF e, k
<1>13. /\ e \in CacheT /\ CacheInv(e)
       /\ \A a \in Blocks \ {b} : e.blk[a] = c.blk[a]
       /\ e.blk[b].key = Nil /\ e.blk[b].flags = {"FREE"} /\ e.blk[b].ref = 0
       /\ e.hash[c.blk[b].key] = Nil /\ \A j \in Keys \ {c.blk[b].key} : e.hash[j] = c.hash[j]
       /\ \A f \in Files : e.file[f].flags = g.file[f].flags
       /\ e.avail = g.avail /\ e.wake = g.wake
  BY <1>8, <1>11 DEF FreeDone
<1>14. c.blk[b].key \in Keys /\ c.hash[c.blk[b].key] = b BY <1>1, <1>4, <1>5, <1>6, BlockFacts
<1>15. \A j \in Keys : c.hash[j] \notin {b, Nil} => e.hash[j] = c.hash[j] BY <1>13, <1>14
<1>16. e.hash[k] = Nil /\ c.hash[k] = Nil BY <1>3, <1>13 DEF k
<1>17. Keeps(c, e, WaitFlags)
  <2>1. Keeps(c, g, WaitFlags) BY <1>7, KeepsFewer DEF WaitFlags, FileFlags
  <2> QED BY <1>13, <2>1 DEF Keeps
<1>18. Heard(g, e)
  <2>1. \A a \in Blocks : Used(g.blk[a]) => Used(e.blk[a])
    BY <1>4, <1>8, <1>13 DEF Used, DirtyOrWritten
  <2>2. \A f \in Files : Listed(g, f) => Listed(e, f) BY <1>13 DEF Listed, FileIs
  <2>3. ~(g.avail < e.avail) BY <1>8, <1>13, CacheFields
  <2> QED BY <1>13, <2>1, <2>2, <2>3 DEF Heard
<1>19. Heard(c, e) BY <1>1, <1>8, <1>9, <1>13, <1>18, HeardTrans
<1>20. Own(c.blk[b]) = 0 BY <1>1, <1>4, RefFacts
<1>21. Good(c, pr, p, NewBlock(e, b, pr[p].key), nw, Gets(pr[p], "fill", b), Nil)
  <2>1. e.hash[pr[p].key] = Nil BY <1>16 DEF k
  <2> QED BY <1>4, <1>13, <1>15, <1>17, <1>19, <1>20, <2>1, NewGood
<1> QED BY <1>12, <1>21 DEF g, k

\* Fscache_FetchBlock preserves the invariant.
LEMMA Fscache_FetchBlockKeeps ==
    ASSUME Inv, NEW p \in Procs, Fscache_FetchBlock(p)
    PROVE  Inv'
<1> DEFINE k == proc[p].key
           b == cache.hash[k]
           io == proc[p].op = "write"
           S == {backend \in Backends : OnDirtyList(cache, backend) # {}}
<1>1. /\ proc[p].pc = "fetch" /\ asleep[p] = Nil
      /\ srv' = srv /\ faults' = faults /\ ops' = ops
  BY Zenon DEF Fscache_FetchBlock, At
<1>2. /\ Core(cache, proc, asleep, newest) /\ cache \in CacheT /\ CacheInv(cache)
      /\ HoldInv(cache, proc) /\ newest \in NewestT
  BY CoreCache
<1>3. DoesIO(proc[p], Nil) /\ proc[p] \in ProcT BY <1>1, <1>2, AtPlaces, ProcFacts
<1>4. k \in Keys /\ proc[p].blk = Nil BY <1>1, <1>3 DEF DoesIO
<1>5. \/ /\ b # Nil /\ ((io /\ Busy(b)) \/ Is(cache, b, {"IO_IN_PROGRESS"}))
         /\ Sleep(p, cache, newest, proc[p], IODone(b))
      \/ /\ b # Nil /\ ~((io /\ Busy(b)) \/ Is(cache, b, {"IO_IN_PROGRESS"}))
         /\ Step(p, Take(cache, b, io), newest, Gets(proc[p], "use", b))
      \/ /\ b = Nil
         /\ \E x \in {y \in Blocks : Is(cache, y, {"FREE"})} :
               Step(p, NewBlock(cache, x, k), newest, Gets(proc[p], "fill", x))
      \/ /\ b = Nil
         /\ \E x \in CleanBlocks(cache), T \in SUBSET DirtyFiles(cache) :
               Step(p, NewBlock(DeleteBlock(StartSyncs(cache, T), x), x, k), newest,
                    Gets(proc[p], "fill", x))
      \/ /\ cache.avail <= MinAvail
         /\ Sleep(p, StartBackends(cache, S), newest, proc[p], CleanBlock)
  BY Zenon DEF Fscache_FetchBlock, Gets
<1>6. SUFFICES Core(cache', proc', asleep', newest') /\ sync' = sync BY <1>1 DEF Inv
<1>7. proc[p].pc \notin ClosePcs BY <1>1 DEF ClosePcs
<1>8. OnlyCloser(proc, p, proc[p]) /\ \A c : Marks(c, proc[p]) BY <1>7, NotClosing
<1>9. CASE /\ b # Nil /\ ((io /\ Busy(b)) \/ Is(cache, b, {"IO_IN_PROGRESS"}))
           /\ Sleep(p, cache, newest, proc[p], IODone(b))
  <2>1. b \in Blocks BY <1>2, <1>4, <1>9, FoundBlock
  <2>2. cache.blk[b].ref > 0 \/ Is(cache, b, {"BEING_WRITTEN"})
    <3>1. "IO_IN_PROGRESS" \in cache.blk[b].flags => cache.blk[b].ref = 1
      BY <1>2, <2>1, RefFacts
    <3>2. Busy(b) \/ "IO_IN_PROGRESS" \in cache.blk[b].flags BY <1>9 DEF Is
    <3> HIDE DEF b, io
    <3>3. cache.blk[b].ref > 0 \/ "IO_IN_PROGRESS" \in cache.blk[b].flags
             \/ "BEING_WRITTEN" \in cache.blk[b].flags
      BY <3>2 DEF Busy, Is
    <3> QED BY <3>1, <3>3 DEF Is
  <2>3. SleepsWell(cache, proc[p], IODone(b)) BY <2>2, EventsApart DEF SleepsWell
  <2>4. IODone(b) \in Events /\ IODone(b) # CloseCondition BY <2>1, EventTypes, EventsApart
  <2>5. Tied(proc[p], IODone(b)) BY <1>1, <1>3, <2>4 DEF Tied, DoesIO
  <2>6. Good(cache, proc, p, cache, newest, proc[p], IODone(b))
    BY <1>2, <1>3, <1>4, <1>8, <2>3, <2>4, <2>5, GoodStill
  <2> QED BY <1>2, <1>9, <2>6, SleepKeeps
<1>10. CASE /\ b # Nil /\ ~((io /\ Busy(b)) \/ Is(cache, b, {"IO_IN_PROGRESS"}))
            /\ Step(p, Take(cache, b, io), newest, Gets(proc[p], "use", b))
  <2>1. /\ "IO_IN_PROGRESS" \notin cache.blk[b].flags /\ io \in BOOLEAN
        /\ io => ~(cache.blk[b].ref > 0) /\ "BEING_WRITTEN" \notin cache.blk[b].flags
    BY Zenon, <1>10 DEF Busy, Is
  <2>2. io <=> proc[p].op = "write"
    OBVIOUS
  <2>3. b = cache.hash[proc[p].key] /\ b # Nil /\ Step(p, Take(cache, b, io), newest, Gets(proc[p], "use", b))
    BY <1>10
  <2> HIDE DEF b, io
  <2>4. Good(cache, proc, p, Take(cache, b, io), newest, Gets(proc[p], "use", b), Nil)
    BY <1>1, <1>2, <2>1, <2>2, <2>3, TakeGood
  <2> QED BY <1>1, <1>2, <2>3, <2>4, StepKeeps
<1>11. CASE /\ b = Nil
            /\ \E x \in {y \in Blocks : Is(cache, y, {"FREE"})} :
                  Step(p, NewBlock(cache, x, k), newest, Gets(proc[p], "fill", x))
  <2>1. PICK x \in {y \in Blocks : Is(cache, y, {"FREE"})} :
            Step(p, NewBlock(cache, x, k), newest, Gets(proc[p], "fill", x))
    BY <1>11
  <2>2. x \in Blocks /\ "FREE" \in cache.blk[x].flags BY DEF Is
  <2>3. Good(cache, proc, p, NewBlock(cache, x, k), newest, Gets(proc[p], "fill", x), Nil)
    BY <1>1, <1>2, <1>11, <2>2, FreeGood
  <2> QED BY <1>1, <1>2, <2>1, <2>3, StepKeeps
<1>12. CASE /\ b = Nil
            /\ \E x \in CleanBlocks(cache), T \in SUBSET DirtyFiles(cache) :
                  Step(p, NewBlock(DeleteBlock(StartSyncs(cache, T), x), x, k), newest,
                       Gets(proc[p], "fill", x))
  <2>1. PICK x \in CleanBlocks(cache), T \in SUBSET DirtyFiles(cache) :
                  Step(p, NewBlock(DeleteBlock(StartSyncs(cache, T), x), x, k), newest,
                       Gets(proc[p], "fill", x))
    BY <1>12
  <2>2. T \in SUBSET Files BY DEF DirtyFiles
  <2>3. Good(cache, proc, p, NewBlock(DeleteBlock(StartSyncs(cache, T), x), x, k), newest,
             Gets(proc[p], "fill", x), Nil)
    BY <1>1, <1>2, <1>12, <2>2, ReuseGood
  <2> QED BY <1>1, <1>2, <2>1, <2>3, StepKeeps
<1>13. CASE /\ cache.avail <= MinAvail
            /\ Sleep(p, StartBackends(cache, S), newest, proc[p], CleanBlock)
  <2> DEFINE d == StartBackends(cache, S)
  <2>1. Quiet(cache, d) /\ Keeps(cache, d, FileFlags) BY <1>2, StartBackendsQuiet
  <2>2. Sleep(p, d, newest, proc[p], CleanBlock) BY <1>13
  <2> HIDE DEF d, S, k, b, io
  <2>3. Keeps(cache, d, WaitFlags) BY <2>1, KeepsFewer DEF WaitFlags, FileFlags
  <2>4. CloseKept(cache, d, proc, p) BY <1>2, <2>3, KeepsCloses
  <2>5. d.avail <= MinAvail BY <1>13, <2>1 DEF Quiet, Same
  <2>6. SleepsWell(d, proc[p], CleanBlock) BY <2>5, EventsApart DEF SleepsWell
  <2>7. Tied(proc[p], CleanBlock) /\ CleanBlock \in Events
    BY <1>1, <1>3, EventTypes, EventsApart DEF Tied, DoesIO
  <2>8. Good(cache, proc, p, d, newest, proc[p], CleanBlock)
    BY <1>2, <1>3, <1>4, <1>8, <2>1, <2>4, <2>6, <2>7, GoodQuiet
  <2> QED BY <1>2, <2>2, <2>8, SleepKeeps
<1> QED BY <1>5, <1>9, <1>10, <1>11, <1>12, <1>13

\* Unlocking the block ends the operation.
LEMMA UnlockGood ==
    ASSUME NEW c, NEW pr, NEW sl, NEW nw, Core(c, pr, sl, nw), NEW p \in Procs,
           pr[p].pc \in {"fill", "use", "dirty"}, NEW dirty \in BOOLEAN
    PROVE  Good(c, pr, p, Fscache_UnlockBlock(c, pr[p].blk, dirty), nw, NoOp, Nil)
<1> DEFINE b == pr[p].blk
           d == Fscache_UnlockBlock(c, b, dirty)
<1>1. c \in CacheT /\ CacheInv(c) /\ HoldInv(c, pr) /\ pr \in ProcsT /\ nw \in NewestT
  BY DEF Core
<1>2. b \in Blocks /\ HeldBy(c, pr[p]) /\ DoesIO(pr[p], sl[p]) BY AtPlaces
<1>3. c.blk[b].key \in Keys /\ c.blk[b].key # Nil BY <1>2, NilApart DEF HeldBy, DoesIO
<1>4. p \in Users(pr, b) BY DEF Users
<1>5. Own(c.blk[b]) > 0
  <2>1. Cardinality(Users(pr, b)) > 0 BY <1>4, UsersOf
  <2>2. Own(c.blk[b]) = Cardinality(Users(pr, b)) BY <1>1, <1>2, RefFacts
  <2> QED BY <2>1, <2>2
<1>6. c.blk[b].ref > 0 /\ ("BEING_WRITTEN" \in c.blk[b].flags => c.blk[b].ref > 1)
  BY <1>1, <1>2, <1>5, RefFacts
<1>7. UnlockDone(c, d, b, dirty) BY <1>1, <1>2, <1>3, <1>6, UnlockStep
<1> HIDE DEF d
<1>8. /\ d \in CacheT /\ CacheInv(d) /\ Heard(c, d)
      /\ \A a \in Blocks \ {b} : d.blk[a] = c.blk[a]
      /\ d.hash = c.hash
      /\ d.blk[b].key = c.blk[b].key /\ d.blk[b].ref = c.blk[b].ref - 1
      /\ "IO_IN_PROGRESS" \notin d.blk[b].flags
      /\ "BEING_WRITTEN" \in d.blk[b].flags <=> "BEING_WRITTEN" \in c.blk[b].flags
      /\ Keeps(c, d, FileFlags \ {"ON_DIRTY_LIST", "OLD"})
  BY <1>7 DEF UnlockDone
<1>9. Own(d.blk[b]) = Own(c.blk[b]) - 1 BY <1>1, <1>2, <1>8, OwnMoves
<1>10. NoOp.blk = Nil BY NoOpIs
<1>11. HoldMoves(c, d, pr, p, NoOp) BY <1>1, <1>2, <1>8, <1>9, <1>10, ReleaseMoves
<1>12. Keeps(c, d, WaitFlags) BY <1>8, KeepsFewer DEF WaitFlags, FileFlags
<1>13. CloseKept(c, d, pr, p) BY <1>12, KeepsCloses
<1>14. Good(c, pr, p, d, nw, NoOp, Nil)
  BY <1>1, <1>8, <1>10, <1>11, <1>13, NilSleeps, NoOpIs DEF Good
<1> QED BY <1>14 DEF d

\* The holder of a block goes on with it.
LEMMA HoldsOn ==
    ASSUME NEW c, NEW pr, NEW sl, NEW nw, Core(c, pr, sl, nw), NEW p \in Procs,
           pr[p].pc \in {"fill", "use"}, sl[p] = Nil, NEW n \in NewestT, NEW x, NEW pc,
           \/ pc = "use" /\ pr[p].pc = "fill"
           \/ pc = "dirty" /\ pr[p].op # "read",
           x = [pr[p] EXCEPT !.pc = pc]
    PROVE  Good(c, pr, p, c, n, x, Nil)
<1> DEFINE y == pr[p]
<1>1. y \in ProcT /\ DoesIO(y, Nil) /\ HeldBy(c, y) /\ y.pc \in {"fill", "use"}
  BY AtPlaces, ProcFacts
<1>2. pc \in {"use", "dirty"} /\ (pc = "dirty" => y.op # "read") /\ x = [y EXCEPT !.pc = pc]
  OBVIOUS
<1> HIDE DEF y
<1>3. /\ x \in ProcT /\ x.blk = y.blk /\ x.pc = pc /\ x.op = y.op /\ x.key = y.key
      /\ x.file = y.file
  BY <1>1, <1>2 DEF ProcT, ProcPcs
<1>4. DoesIO(x, Nil) BY <1>1, <1>2, <1>3 DEF DoesIO
<1>5. HeldBy(c, x) BY <1>1, <1>2, <1>3 DEF HeldBy
<1>6. Tied(x, Nil) /\ x.pc \notin ClosePcs BY <1>2, <1>3, <1>4 DEF Tied, ClosePcs
<1>7. OnlyCloser(pr, p, x) /\ Marks(c, x) BY <1>6, NotClosing
<1>8. x.blk = pr[p].blk BY <1>3 DEF y
<1> QED BY <1>3, <1>5, <1>6, <1>7, <1>8, NilSleeps, GoodStill

\* Use preserves the invariant.
LEMMA UseKeeps ==
    ASSUME Inv, NEW p \in Procs, Use(p)
    PROVE  Inv'
<1> DEFINE n == [newest EXCEPT ![proc[p].key] = {proc[p].blk}]
           x == [proc[p] EXCEPT !.pc = "dirty"]
           d == Fscache_UnlockBlock(cache, proc[p].blk, FALSE)
<1>1. /\ proc[p].pc = "use" /\ asleep[p] = Nil
      /\ srv' = srv /\ faults' = faults /\ ops' = ops
      /\ \/ Step(p, d, newest, NoOp)
         \/ proc[p].op # "read" /\ Step(p, cache, n, x)
  BY DEF Use, At
<1>2. Core(cache, proc, asleep, newest) /\ newest \in NewestT BY CoreCache
<1>3. proc[p].blk \in Blocks BY <1>1, <1>2, AtPlaces
<1>4. n \in NewestT BY <1>2, <1>3 DEF NewestT
<1>5. Good(cache, proc, p, d, newest, NoOp, Nil) BY <1>1, <1>2, UnlockGood
<1>6. proc[p].op # "read" => Good(cache, proc, p, cache, n, x, Nil) BY <1>1, <1>2, <1>4, HoldsOn
<1> HIDE DEF n, x, d
<1>7. Core(cache', proc', asleep', newest') /\ sync' = sync BY <1>1, <1>2, <1>5, <1>6, StepKeeps
<1> QED BY <1>1, <1>7 DEF Inv

\* UnlockDirty preserves the invariant.
LEMMA UnlockDirtyKeeps ==
    ASSUME Inv, NEW p \in Procs, UnlockDirty(p)
    PROVE  Inv'
<1> DEFINE d == Fscache_UnlockBlock(cache, proc[p].blk, TRUE)
<1>1. /\ proc[p].pc = "dirty" /\ asleep[p] = Nil
      /\ srv' = srv /\ faults' = faults /\ ops' = ops
      /\ Step(p, d, newest, NoOp)
  BY DEF UnlockDirty, At
<1>2. Core(cache, proc, asleep, newest) BY CoreCache
<1>3. Good(cache, proc, p, d, newest, NoOp, Nil) BY <1>1, <1>2, UnlockGood
<1> HIDE DEF d
<1>4. Core(cache', proc', asleep', newest') /\ sync' = sync BY <1>1, <1>2, <1>3, StepKeeps
<1> QED BY <1>1, <1>4 DEF Inv

\* ForgetErrors is quiet.
LEMMA ForgetErrorsQuiet ==
    ASSUME NEW c \in CacheT, CacheInv(c), NEW f \in Files
    PROVE  /\ Quiet(c, ForgetErrors(c, f)) /\ Keeps(c, ForgetErrors(c, f), WaitFlags)
           /\ ForgetErrors(c, f) \in CacheT /\ CacheInv(ForgetErrors(c, f))
           /\ Heard(c, ForgetErrors(c, f))
<1> DEFINE d == ForgetErrors(c, f)
<1>1. d \in {c, ClearErrors(c, f)} BY DEF ForgetErrors, ClearErrors
<1>2. Quiet(c, ClearErrors(c, f)) /\ Keeps(c, ClearErrors(c, f), FileFlags \ Errors)
  BY ClearErrorsQuiet
<1>3. Keeps(c, ClearErrors(c, f), WaitFlags)
  BY <1>2, KeepsFewer DEF WaitFlags, FileFlags, Errors
<1>4. Quiet(c, c) /\ Keeps(c, c, WaitFlags) BY QuietRefl DEF Keeps
<1>5. Quiet(c, d) /\ Keeps(c, d, WaitFlags) BY <1>1, <1>2, <1>3, <1>4
<1> HIDE DEF d
<1>6. d \in CacheT /\ CacheInv(d) /\ Heard(c, d) BY <1>5, QuietInv, QuietHeard DEF Quiet
<1> QED BY <1>5, <1>6 DEF d

\* The block of a read that failed is unlocked ...
LEMMA FailedUnlock ==
    ASSUME NEW c \in CacheT, CacheInv(c), NEW b \in Blocks, c.blk[b].key # Nil, c.blk[b].ref = 1,
           c.blk[b].flags = {"IO_IN_PROGRESS"}, NEW d, d = Unref(EndIO(c, b), b)
    PROVE  /\ d \in CacheT /\ CacheInv(d) /\ Heard(c, d) /\ Around(c, d, b) /\ d.file = c.file
           /\ d.blk[b].key = c.blk[b].key /\ d.blk[b].ref = 0 /\ d.blk[b].flags = {}
<1> DEFINE e == EndIO(c, b)
           x == SetBlkFlags(c, b, c.blk[b].flags \ {"IO_IN_PROGRESS"})
<1>1. EndIODone(c, e, b) BY EndIOIsDone
<1>2. e = Broadcast(x, IODone(b)) BY DEF EndIO, Is, SetBlkFlags
<1>3. x \in CacheT /\ IODone(b) \in Events BY BlockFields, SetBlkFlagsFacts, EventTypes
<1>4. IODone(b) \in e.wake
  <2> HIDE DEF e, x
  <2> QED BY <1>2, <1>3, BroadcastFacts
<1>5. d = Unref(e, b)
  OBVIOUS
<1> HIDE DEF e, x
<1>6. /\ e \in CacheT /\ CacheInv(e) /\ Heard(c, e) /\ Around(c, e, b)
      /\ e.file = c.file /\ e.avail = c.avail
      /\ e.blk[b].key = c.blk[b].key /\ e.blk[b].ref = c.blk[b].ref
      /\ e.blk[b].flags = c.blk[b].flags \ {"IO_IN_PROGRESS"}
  BY <1>1 DEF EndIODone
<1>7. e.blk[b].flags = {} /\ e.blk[b].ref > 0 BY <1>6
<1>8. UnrefDone(e, d, b) BY <1>5, <1>6, <1>7, UnrefIsDone
<1>9. /\ d \in CacheT /\ CacheInv(d) /\ Around(e, d, b) /\ d.file = e.file
      /\ d.blk[b].key = e.blk[b].key /\ d.blk[b].ref = e.blk[b].ref - 1
      /\ d.blk[b].flags = e.blk[b].flags
      /\ e.wake \subseteq d.wake
      /\ d.avail # e.avail => CleanBlock \in d.wake
  BY <1>8 DEF UnrefDone
<1>10. Heard(e, d)
  <2>1. \A a \in Blocks : Used(e.blk[a]) /\ ~Used(d.blk[a]) => IODone(a) \in d.wake
    BY <1>4, <1>9 DEF Around
  <2>2. \A f \in Files : Listed(e, f) => Listed(d, f) BY <1>9 DEF Listed, FileIs
  <2>3. e.avail < d.avail => CleanBlock \in d.wake BY <1>6, <1>9, CacheFields
  <2> QED BY <1>9, <2>1, <2>2, <2>3 DEF Heard
<1>11. Heard(c, d) BY <1>6, <1>9, <1>10, HeardTrans
<1>12. Around(c, d, b) BY <1>6, <1>9 DEF Around
<1> QED BY <1>6, <1>7, <1>9, <1>11, <1>12

\* ... and deleted.
LEMMA FailGood ==
    ASSUME NEW c, NEW pr, NEW sl, NEW nw, Core(c, pr, sl, nw), NEW p \in Procs,
           pr[p].pc = "fill", NEW b, b = pr[p].blk, NEW d, d = Unref(EndIO(c, b), b)
    PROVE  Good(c, pr, p, ForgetErrors(InvalidateBlock(d, b), pr[p].key[1]), nw, NoOp, Nil)
<1> DEFINE g == InvalidateBlock(d, b)
           h == ForgetErrors(g, pr[p].key[1])
<1>1. c \in CacheT /\ CacheInv(c) /\ HoldInv(c, pr) /\ pr \in ProcsT /\ nw \in NewestT
  BY DEF Core
<1>2. b \in Blocks /\ HeldBy(c, pr[p]) /\ DoesIO(pr[p], sl[p]) BY AtPlaces
<1>3. /\ c.blk[b].key = pr[p].key /\ c.blk[b].key # Nil /\ pr[p].key \in Keys
      /\ c.blk[b].flags = {"IO_IN_PROGRESS"}
  BY <1>2, NilApart DEF HeldBy, DoesIO
<1>4. c.blk[b].ref = 1 /\ Own(c.blk[b]) = 1 BY <1>1, <1>2, <1>3, RefFacts
<1>5. /\ d \in CacheT /\ CacheInv(d) /\ Heard(c, d) /\ Around(c, d, b) /\ d.file = c.file
      /\ d.blk[b].key = c.blk[b].key /\ d.blk[b].ref = 0 /\ d.blk[b].flags = {}
  BY <1>1, <1>2, <1>3, <1>4, FailedUnlock
<1>6. Purgeable(d, b) BY <1>3, <1>5 DEF Purgeable, Droppable
<1>7. Invalidated(d, g, {b}) BY <1>2, <1>5, <1>6, InvalidateStep
<1> HIDE DEF g
<1>8. /\ g \in CacheT /\ CacheInv(g) /\ Heard(d, g)
      /\ \A a \in Blocks \ {b} : g.blk[a] = d.blk[a]
      /\ g.blk[b].key = Nil
      /\ \A k \in Keys : g.hash[k] = IF d.hash[k] \in {b} THEN Nil ELSE d.hash[k]
      /\ Keeps(d, g, FileFlags \ {"ON_DIRTY_LIST", "FSYNC"})
  BY <1>7 DEF Invalidated
<1>9. pr[p].key[1] \in Files BY <1>3, KeyFacts
<1>10. /\ Quiet(g, h) /\ Keeps(g, h, WaitFlags) /\ h \in CacheT /\ CacheInv(h) /\ Heard(g, h)
  BY <1>8, <1>9, ForgetErrorsQuiet
<1> HIDE DEF h
<1>11. h.blk = g.blk /\ h.hash = g.hash BY <1>10 DEF Quiet, Same
<1>12. Heard(c, h) BY <1>1, <1>5, <1>8, <1>10, HeardTrans
<1>13. Keeps(c, h, WaitFlags)
  <2>1. Keeps(d, g, WaitFlags) BY <1>8, KeepsFewer DEF WaitFlags, FileFlags
  <2>2. Keeps(c, d, WaitFlags) BY <1>5 DEF Keeps
  <2> QED BY <1>10, <2>1, <2>2, KeepsTrans
<1>14. h.blk[b].ref = 0 /\ h.blk[b].flags = {"FREE"}
  <2>1. BlockTied(g) BY <1>8 DEF CacheInv
  <2> QED BY <1>2, <1>8, <1>11, <2>1 DEF BlockTied
<1>15. Own(h.blk[b]) = 0
  <2>1. "BEING_WRITTEN" \notin h.blk[b].flags BY <1>14
  <2>2. One("BEING_WRITTEN" \in h.blk[b].flags) = 0 BY <2>1 DEF One
  <2> QED BY <1>14, <2>2 DEF Own
<1>16. NoOp.blk = Nil BY NoOpIs
<1>17. HoldMoves(c, h, pr, p, NoOp)
  <2>1. \A a \in Blocks \ {b} : h.blk[a] = c.blk[a] BY SMTT(30), <1>5, <1>8, <1>11 DEF Around
  <2>2. \A k \in Keys : c.hash[k] # b => h.hash[k] = c.hash[k] BY SMTT(30), <1>5, <1>8, <1>11 DEF Around
  <2>3. Own(h.blk[b]) = Own(c.blk[b]) - 1 /\ "IO_IN_PROGRESS" \notin h.blk[b].flags
    BY <1>4, <1>14, <1>15
  <2> QED BY <1>1, <1>2, <1>4, <1>10, <1>16, <2>1, <2>2, <2>3, ReleaseMoves
<1>18. CloseKept(c, h, pr, p) BY <1>13, KeepsCloses
<1>19. Good(c, pr, p, h, nw, NoOp, Nil)
  BY <1>1, <1>10, <1>12, <1>16, <1>17, <1>18, NilSleeps, NoOpIs DEF Good
<1> QED BY <1>19 DEF h, g

\* Fill preserves the invariant.
LEMMA FillKeeps ==
    ASSUME Inv, NEW p \in Procs, Fill(p)
    PROVE  Inv'
<1> DEFINE k == proc[p].key
           b == proc[p].blk
           n == IF Server \in newest[k] THEN [newest EXCEPT ![k] = @ \cup {b}] ELSE newest
           d == Unref(EndIO(cache, b), b)
           h == ForgetErrors(InvalidateBlock(d, b), k[1])
           x == [proc[p] EXCEPT !.pc = "use"]
<1>1. proc[p].pc = "fill" /\ asleep[p] = Nil /\ srv' = srv /\ ops' = ops BY DEF Fill, At
<1>2. \/ Step(p, cache, n, x) /\ faults' = faults
      \/ Step(p, cache, newest, x) /\ faults' = faults
      \/ faults < MaxFaults /\ faults' = faults + 1 /\ Step(p, h, newest, NoOp)
  BY DEF Fill, Unref
<1>3. Core(cache, proc, asleep, newest) /\ newest \in NewestT BY CoreCache
<1>4. b \in Blocks BY <1>1, <1>3, AtPlaces
<1>5. n \in NewestT BY <1>3, <1>4 DEF NewestT
<1>6. Good(cache, proc, p, cache, n, x, Nil) /\ Good(cache, proc, p, cache, newest, x, Nil)
  BY <1>1, <1>3, <1>5, HoldsOn
<1>7. Good(cache, proc, p, h, newest, NoOp, Nil) BY <1>1, <1>3, FailGood
<1> HIDE DEF n, x, h
<1>8. Core(cache', proc', asleep', newest') /\ sync' = sync
  BY <1>1, <1>2, <1>3, <1>6, <1>7, StepKeeps
<1>9. faults \in 0 .. MaxFaults BY DEF Inv
<1>10. faults' \in 0 .. MaxFaults BY <1>2, <1>9, MaxTypes
<1> QED BY <1>1, <1>8, <1>10 DEF Inv

\* Writing back and invalidating the blocks of a file.
LEMMA LeastOf ==
    ASSUME NEW T, IsFiniteSet(T), T \subseteq Int, T # {}
    PROVE  \E x \in T : \A y \in T : x <= y
<1> DEFINE I == {s \in SUBSET T : s = {} \/ \E x \in s : \A y \in s : x <= y}
<1>1. {} \in I
  OBVIOUS
<1>2. ASSUME NEW s \in SUBSET T, s # {}, s \ {CHOOSE x \in s : TRUE} \in I
      PROVE  s \in I
  <2> DEFINE m == CHOOSE x \in s : TRUE
             t == s \ {m}
  <2>1. m \in s /\ t \in I BY <1>2
  <2> HIDE DEF m
  <2>2. CASE t = {}
    <3>1. \A y \in s : m <= y BY <2>1, <2>2
    <3> QED BY <2>1, <3>1
  <2>3. CASE t # {}
    <3>1. PICK x \in t : \A y \in t : x <= y BY <2>1, <2>3
    <3>2. CASE x <= m
      <4>1. \A y \in s : x <= y BY <3>1, <3>2
      <4> QED BY <4>1
    <3>3. CASE ~(x <= m)
      <4>1. \A y \in s : m <= y BY <2>1, <3>1, <3>3
      <4> QED BY <2>1, <4>1
    <3> QED BY <3>2, <3>3
  <2> QED BY <2>2, <2>3
<1> HIDE DEF I
<1>3. T \in I BY <1>1, <1>2, SubsetInduction
<1> QED BY <1>3 DEF I

----------------------------------------------------------------------------
(* Processes that write back, invalidate or truncate.                      *)
\* Numbers of blocks of a file make keys.
LEMMA NumberFacts ==
    ASSUME NEW f, NEW N, N \subseteq BlocksOf(f)
    PROVE  /\ IsFiniteSet(N) /\ N \subseteq Int
           /\ \A n \in N : <<f, n>> \in Keys
<1> DEFINE K == {k \in Keys : k[1] = f}
           g == [k \in K |-> k[2]]
<1>1. IsFiniteSet(K) BY Finite, FS_Subset
<1>a. BlocksOf(f) = {k[2] : k \in K} BY DEF BlocksOf
<1>b. g \in Surjection(K, BlocksOf(f)) BY <1>a DEF Surjection
<1> HIDE DEF K, g
<1>2. IsFiniteSet(BlocksOf(f)) BY <1>1, <1>b, FS_Surjection
<1>3. IsFiniteSet(N) BY <1>2, FS_Subset
<1>4. ASSUME NEW n \in N
      PROVE  n \in Int /\ <<f, n>> \in Keys
  <2>1. PICK k \in Keys : k[1] = f /\ n = k[2] BY <1>4 DEF BlocksOf
  <2> QED BY <2>1, KeyFacts
<1> QED BY <1>3, <1>4

\* The block in the hash table with a number.
LEMMA InHashOne ==
    ASSUME NEW c, NEW f, NEW n
    PROVE  /\ \A b \in InHash(c, f, {n}) : b = c.hash[<<f, n>>] /\ b # Nil
           /\ c.hash[<<f, n>>] # Nil => c.hash[<<f, n>>] \in InHash(c, f, {n})
BY DEF InHash

\* The first of the numbers waited for is one of them.
LEMMA FirstFacts ==
    ASSUME NEW f, NEW N, N \subseteq BlocksOf(f), NEW W \in SUBSET N, W # {}
    PROVE  FirstOf(W) \in W
<1>1. IsFiniteSet(W) /\ W \subseteq Int BY NumberFacts
<1>2. \E w \in W : \A v \in W : w <= v BY <1>1, LeastOf
<1> QED BY <1>2 DEF FirstOf

\* What has been passed was in the hash table and is of no number in W.
LEMMA PassedFacts ==
    ASSUME NEW c \in CacheT, CacheInv(c), NEW f, NEW N, N \subseteq BlocksOf(f),
           NEW W \in SUBSET N, NEW b \in InHash(c, f, Passed(N, W))
    PROVE  /\ b \in Blocks /\ c.blk[b].key # Nil /\ c.hash[c.blk[b].key] = b
           /\ "DELETED" \notin c.blk[b].flags
           /\ \E n \in N \ W : b \in InHash(c, f, {n})
<1>1. PICK n \in Passed(N, W) : b = c.hash[<<f, n>>] /\ b # Nil BY DEF InHash
<1>2. n \in N /\ <<f, n>> \in Keys /\ n \in Int /\ \A w \in W : n < w BY NumberFacts DEF Passed
<1>3. n \notin W BY <1>2
<1>4. b \in Blocks /\ c.blk[b].key = <<f, n>> /\ c.blk[b].key # Nil BY <1>1, <1>2, FoundBlock
<1>5. c.hash[c.blk[b].key] = b BY <1>1, <1>4
<1>6. "DELETED" \notin c.blk[b].flags BY <1>4, <1>5, BlockFacts
<1>7. b \in InHash(c, f, {n}) BY <1>1, InHashOne
<1> QED BY <1>2, <1>3, <1>4, <1>5, <1>6, <1>7

\* A block that must be waited for.
LEMMA WaitFacts ==
    ASSUME NEW c \in CacheT, CacheInv(c), NEW f, NEW N, N \subseteq BlocksOf(f),
           NEW W \in SUBSET N, W # {}, NEW b, b = c.hash[<<f, FirstOf(W)>>]
    PROVE  /\ W = UsedNumbers(c, f, N) => b \in Blocks /\ c.blk[b].ref > 0
           /\ W = BusyNumbers(c, f, N) =>
                b \in Blocks /\ (c.blk[b].ref > 0 \/ "BEING_WRITTEN" \in c.blk[b].flags)
<1> DEFINE n == FirstOf(W)
<1>1. n \in W BY FirstFacts
<1> HIDE DEF n
<1>2. <<f, n>> \in Keys BY <1>1, NumberFacts
<1>3. \A a \in InHash(c, f, {n}) : a = c.hash[<<f, n>>] /\ a # Nil BY InHashOne
<1>4. b = c.hash[<<f, n>>] BY DEF n
<1>5. b # Nil => b \in Blocks BY <1>2, <1>4, CacheFields
<1>6. ASSUME W = UsedNumbers(c, f, N)
      PROVE  b \in Blocks /\ c.blk[b].ref > 0
  BY <1>1, <1>3, <1>4, <1>5, <1>6 DEF UsedNumbers
<1>7. ASSUME W = BusyNumbers(c, f, N)
      PROVE  b \in Blocks /\ (c.blk[b].ref > 0 \/ "BEING_WRITTEN" \in c.blk[b].flags)
  BY <1>1, <1>3, <1>4, <1>5, <1>7 DEF BusyNumbers, Is
<1> QED BY <1>6, <1>7

\* What is dropped or invalidated nobody holds.
LEMMA DroppedHolds ==
    ASSUME NEW c \in CacheT, CacheInv(c), NEW pr, HoldInv(c, pr), NEW S \in SUBSET Blocks,
           \A b \in S : Droppable(c, b), NEW d, Dropped(c, d, S)
    PROVE  Holds(c, d)
<1>1. d \in CacheT /\ CacheInv(d) BY DEF Dropped
<1>2. BlockTied(d) BY <1>1 DEF CacheInv
<1> SUFFICES ASSUME NEW b \in Blocks
             PROVE  /\ Own(d.blk[b]) = Own(c.blk[b])
                    /\ "IO_IN_PROGRESS" \in d.blk[b].flags =>
                         "IO_IN_PROGRESS" \in c.blk[b].flags
                         /\ ("BEING_WRITTEN" \in d.blk[b].flags => "BEING_WRITTEN" \in c.blk[b].flags)
                    /\ Own(c.blk[b]) # 0 =>
                         /\ d.blk[b].key = c.blk[b].key
                         /\ \A k \in Keys : c.hash[k] = b => d.hash[k] = b
                         /\ c.blk[b].flags = {"IO_IN_PROGRESS"} => d.blk[b].flags = {"IO_IN_PROGRESS"}
                         /\ "IO_IN_PROGRESS" \in c.blk[b].flags => "IO_IN_PROGRESS" \in d.blk[b].flags
  BY DEF Holds
<1>3. CASE b \notin S
  <2>1. d.blk[b] = c.blk[b] BY <1>3 DEF Dropped
  <2>2. \A k \in Keys : c.hash[k] = b => d.hash[k] = b BY <1>3 DEF Dropped
  <2> QED BY <2>1, <2>2
<1>4. CASE b \in S
  <2>1. c.blk[b].ref = 0 /\ d.blk[b].ref = 0 BY <1>4 DEF Dropped, Droppable
  <2>2. "BEING_WRITTEN" \notin c.blk[b].flags /\ Own(c.blk[b]) = 0 BY <2>1, RefFacts
  <2>3. /\ "BEING_WRITTEN" \notin d.blk[b].flags
        /\ "IO_IN_PROGRESS" \in d.blk[b].flags => "IO_IN_PROGRESS" \in c.blk[b].flags
    <3>1. CASE c.blk[b].flags \cap DirtyOrWritten = {}
      <4>1. d.blk[b].key = Nil BY <1>4, <3>1 DEF Dropped
      <4>2. d.blk[b].flags = {"FREE"} BY <1>2, <4>1 DEF BlockTied
      <4> QED BY <4>2
    <3>2. CASE c.blk[b].flags \cap DirtyOrWritten # {}
      <4>1. d.blk[b].flags = c.blk[b].flags \cup {"DELETED"} BY <1>4, <3>2 DEF Dropped
      <4> QED BY <2>2, <4>1
    <3> QED BY <3>1, <3>2
  <2>4. One("BEING_WRITTEN" \in d.blk[b].flags) = 0 BY <2>3 DEF One
  <2>5. Own(d.blk[b]) = 0 BY <2>1, <2>4 DEF Own
  <2> QED BY <2>2, <2>3, <2>5
<1> QED BY <1>3, <1>4

\* Invalidating unused blocks leaves alone what is held.
LEMMA InvalidatedHolds ==
    ASSUME NEW c \in CacheT, CacheInv(c), NEW pr, HoldInv(c, pr), NEW S \in SUBSET Blocks,
           \A b \in S : Purgeable(c, b), NEW d, Invalidated(c, d, S)
    PROVE  Holds(c, d)
<1>1. d \in CacheT /\ CacheInv(d) BY DEF Invalidated
<1>2. BlockTied(d) BY <1>1 DEF CacheInv
<1> SUFFICES ASSUME NEW b \in Blocks
             PROVE  /\ Own(d.blk[b]) = Own(c.blk[b])
                    /\ "IO_IN_PROGRESS" \in d.blk[b].flags =>
                         "IO_IN_PROGRESS" \in c.blk[b].flags
                         /\ ("BEING_WRITTEN" \in d.blk[b].flags => "BEING_WRITTEN" \in c.blk[b].flags)
                    /\ Own(c.blk[b]) # 0 =>
                         /\ d.blk[b].key = c.blk[b].key
                         /\ \A k \in Keys : c.hash[k] = b => d.hash[k] = b
                         /\ c.blk[b].flags = {"IO_IN_PROGRESS"} => d.blk[b].flags = {"IO_IN_PROGRESS"}
                         /\ "IO_IN_PROGRESS" \in c.blk[b].flags => "IO_IN_PROGRESS" \in d.blk[b].flags
  BY DEF Holds
<1>3. CASE b \notin S
  <2>1. d.blk[b] = c.blk[b] BY <1>3 DEF Invalidated
  <2>2. \A k \in Keys : c.hash[k] = b => d.hash[k] = b BY <1>3 DEF Invalidated
  <2> QED BY <2>1, <2>2
<1>4. CASE b \in S
  <2>1. c.blk[b].ref = 0 /\ d.blk[b].key = Nil BY <1>4 DEF Invalidated, Purgeable, Droppable
  <2>2. Own(c.blk[b]) = 0 BY <2>1, RefFacts
  <2>3. d.blk[b].flags = {"FREE"} /\ d.blk[b].ref = 0 BY <1>2, <2>1 DEF BlockTied
  <2>4. "BEING_WRITTEN" \notin d.blk[b].flags /\ "IO_IN_PROGRESS" \notin d.blk[b].flags BY <2>3
  <2>5. One("BEING_WRITTEN" \in d.blk[b].flags) = 0 BY <2>4 DEF One
  <2>6. Own(d.blk[b]) = 0 BY <2>3, <2>5 DEF Own
  <2> QED BY <2>2, <2>4, <2>6
<1> QED BY <1>3, <1>4

\* Two steps over the blocks of a file.
LEMMA PassTrans ==
    ASSUME NEW c \in CacheT, NEW d, NEW e, PassDone(c, d), PassDone(d, e)
    PROVE  PassDone(c, e)
<1>1. d \in CacheT /\ e \in CacheT BY DEF PassDone
<1>2. Heard(c, e) BY <1>1, HeardTrans DEF PassDone
<1>3. Holds(c, e) BY <1>1, HoldsTrans DEF PassDone
<1>4. Keeps(c, e, WaitFlags) BY KeepsTrans DEF PassDone
<1> QED BY <1>1, <1>2, <1>3, <1>4 DEF PassDone

\* A quiet step is one over the blocks of a file.
LEMMA QuietPass ==
    ASSUME NEW c \in CacheT, CacheInv(c), NEW d, Quiet(c, d), Keeps(c, d, WaitFlags)
    PROVE  PassDone(c, d)
<1>1. d \in CacheT /\ CacheInv(d) /\ Heard(c, d) /\ d.blk = c.blk /\ d.hash = c.hash
  BY QuietInv, QuietHeard DEF Quiet, Same
<1>2. Holds(c, d) BY <1>1 DEF Holds
<1> QED BY <1>1, <1>2 DEF PassDone

\* A step over the blocks of a file is good.
LEMMA GoodPass ==
    ASSUME NEW c, NEW pr, NEW sl, NEW nw, Core(c, pr, sl, nw), NEW p \in Procs, pr[p].blk = Nil,
           NEW d, PassDone(c, d), NEW n \in NewestT, NEW x \in ProcT, x.blk = Nil,
           x.pc \notin ClosePcs, NEW e \in Events \cup {Nil}, Tied(x, e), SleepsWell(d, x, e)
    PROVE  Good(c, pr, p, d, n, x, e)
<1>1. c \in CacheT /\ HoldInv(c, pr) /\ pr \in ProcsT BY DEF Core
<1>2. d \in CacheT /\ CacheInv(d) /\ Heard(c, d) /\ Holds(c, d) /\ Keeps(c, d, WaitFlags)
  BY DEF PassDone
<1>3. HoldMoves(c, d, pr, p, x) BY <1>1, <1>2, HoldKept
<1>4. CloseKept(c, d, pr, p) BY <1>2, KeepsCloses
<1>5. OnlyCloser(pr, p, x) /\ Marks(d, x) BY NotClosing
<1> QED BY <1>2, <1>3, <1>4, <1>5 DEF Good

\* Blocks that are passed can be dropped, or invalidated.
LEMMA PassedBlocks ==
    ASSUME NEW c \in CacheT, CacheInv(c), NEW pr, HoldInv(c, pr),
           NEW f, NEW N, N \subseteq BlocksOf(f), NEW W,
           NEW b \in InHash(c, f, Passed(N, W))
    PROVE  /\ W = UsedNumbers(c, f, N) => b \in Blocks /\ Droppable(c, b)
           /\ W = BusyNumbers(c, f, N) => b \in Blocks /\ Purgeable(c, b)
<1>1. ASSUME W \in SUBSET N
      PROVE  /\ b \in Blocks /\ c.blk[b].key # Nil /\ "DELETED" \notin c.blk[b].flags
             /\ c.blk[b].ref \in Nat
             /\ \E n \in N \ W : b \in InHash(c, f, {n})
  <2>1. /\ b \in Blocks /\ c.blk[b].key # Nil /\ "DELETED" \notin c.blk[b].flags
        /\ \E n \in N \ W : b \in InHash(c, f, {n})
    BY SMTT(30), <1>1, PassedFacts
  <2> QED BY <2>1, RefFacts
<1>2. ASSUME W = UsedNumbers(c, f, N)
      PROVE  b \in Blocks /\ Droppable(c, b)
  <2>1. W \in SUBSET N BY <1>2 DEF UsedNumbers
  <2>2. ~(c.blk[b].ref > 0) BY <1>1, <1>2, <2>1 DEF UsedNumbers
  <2> QED BY <1>1, <2>1, <2>2 DEF Droppable
<1>3. ASSUME W = BusyNumbers(c, f, N)
      PROVE  b \in Blocks /\ Purgeable(c, b)
  <2>1. W \in SUBSET N BY <1>3 DEF BusyNumbers
  <2>2. ~(c.blk[b].ref > 0) /\ ~Is(c, b, {"BEING_WRITTEN"}) BY <1>1, <1>3, <2>1 DEF BusyNumbers
  <2> QED BY <1>1, <2>1, <2>2 DEF Droppable, Purgeable, Is
<1> QED BY <1>2, <1>3

\* The rest of a pass is a pass.
LEMMA RemainsIs ==
    ASSUME NEW y, Backs(y), NEW W
    PROVE  Backs(Remains(y, W)) /\ Remains(y, W).pc = "blocks"
<1> DEFINE T == y.todo \ Passed(y.todo, W)
           x == Remains(y, W)
<1>1. x = [y EXCEPT !.pc = "blocks", !.todo = T] BY DEF Remains
<1>2. y \in ProcT /\ y.todo \subseteq BlocksOf(y.file) /\ T \subseteq y.todo BY DEF Backs
<1> HIDE DEF T, x
<1>3. x \in ProcT /\ x.pc = "blocks" /\ x.todo = T /\ x.op = y.op /\ x.file = y.file /\ x.blk = y.blk
  BY <1>1, <1>2 DEF ProcT, ProcPcs
<1> QED BY <1>2, <1>3 DEF Backs, x

\* Waiting for a block in use is good.
LEMMA WaitGood ==
    ASSUME NEW c, NEW pr, NEW sl, NEW nw, Core(c, pr, sl, nw), NEW p \in Procs, pr[p].blk = Nil,
           NEW d, PassDone(c, d), NEW x, Backs(x), x.pc = "blocks",
           NEW b \in Blocks, d.blk[b].ref > 0 \/ "BEING_WRITTEN" \in d.blk[b].flags
    PROVE  Good(c, pr, p, d, nw, x, IODone(b))
<1>1. IODone(b) \in Events /\ IODone(b) # CloseCondition BY EventTypes, EventsApart
<1>2. Tied(x, IODone(b)) BY <1>1 DEF Tied, WaitsForBlocks, Backs
<1>3. SleepsWell(d, x, IODone(b))
  <2>1. /\ \A a \in Blocks : IODone(b) = IODone(a) => a = b
        /\ \A f \in Files : IODone(b) # NoDirtyBlocks(f)
        /\ IODone(b) # CleanBlock /\ IODone(b) # CloseCondition
    BY EventsApart
  <2> HIDE DEF IODone
  <2> QED BY <2>1 DEF SleepsWell, Is
<1>4. x \in ProcT /\ x.blk = Nil /\ x.pc \notin ClosePcs /\ nw \in NewestT
  BY DEF Backs, ClosePcs, Core
<1> QED BY <1>1, <1>2, <1>3, <1>4, GoodPass

\* 
LEMMA PurgePass ==
    ASSUME NEW c, NEW pr, NEW sl, NEW nw, Core(c, pr, sl, nw),
           NEW f, NEW N, N \subseteq BlocksOf(f), NEW W, W = BusyNumbers(c, f, N),
           NEW d, d = InvalidateAll(c, InHash(c, f, Passed(N, W)))
    PROVE  /\ PassDone(c, d)
           /\ W # {} => c.hash[<<f, FirstOf(W)>>] \in Blocks
                        /\ Used(d.blk[c.hash[<<f, FirstOf(W)>>]])
<1>1. c \in CacheT /\ CacheInv(c) /\ HoldInv(c, pr) BY DEF Core
<1> DEFINE S == InHash(c, f, Passed(N, W))
<1>2. \A b \in S : b \in Blocks /\ Purgeable(c, b) BY <1>1, PassedBlocks
<1>d. d = InvalidateAll(c, S)
  OBVIOUS
<1> HIDE DEF S
<1>3. Invalidated(c, d, S) BY <1>1, <1>2, <1>d, InvalidateAllIs
<1>4. Holds(c, d) BY <1>1, <1>2, <1>3, InvalidatedHolds
<1>5. /\ d \in CacheT /\ CacheInv(d) /\ Heard(c, d)
      /\ Keeps(c, d, FileFlags \ {"ON_DIRTY_LIST", "FSYNC"})
      /\ \A a \in Blocks \ S : d.blk[a] = c.blk[a]
  BY <1>3 DEF Invalidated
<1>6. WaitFlags \subseteq FileFlags \ {"ON_DIRTY_LIST", "FSYNC"} BY DEF WaitFlags, FileFlags
<1>7. Keeps(c, d, WaitFlags) BY <1>5, <1>6, KeepsFewer
<1>8. PassDone(c, d) BY <1>4, <1>5, <1>7 DEF PassDone
<1>9. ASSUME W # {}
      PROVE  c.hash[<<f, FirstOf(W)>>] \in Blocks /\ Used(d.blk[c.hash[<<f, FirstOf(W)>>]])
  <2> DEFINE b == c.hash[<<f, FirstOf(W)>>]
  <2>1. W \in SUBSET N BY DEF BusyNumbers
  <2>2. b \in Blocks /\ (c.blk[b].ref > 0 \/ "BEING_WRITTEN" \in c.blk[b].flags)
    BY <1>1, <1>9, <2>1, WaitFacts
  <2> HIDE DEF b
  <2>3. b \notin S BY <1>2, <2>2 DEF Purgeable, Droppable
  <2>4. d.blk[b] = c.blk[b] BY <1>5, <2>2, <2>3
  <2> QED BY <2>2, <2>4 DEF Used, b
<1> QED BY <1>8, <1>9

\* A pass of Fscache_FileInvalidate preserves the core.
LEMMA InvalidatePassKeeps ==
    ASSUME Core(cache, proc, asleep, newest), NEW p \in Procs, proc[p].blk = Nil, asleep[p] = Nil,
           NEW y, Backs(y), InvalidatePass(p, cache, y)
    PROVE  Core(cache', proc', asleep', newest') /\ sync' = sync
<1> DEFINE f == y.file
           N == y.todo
           W == BusyNumbers(cache, f, N)
           d == InvalidateAll(cache, InHash(cache, f, Passed(N, W)))
           n == [k \in Keys |-> IF k[1] = f THEN {Server} ELSE newest[k]]
           b == cache.hash[<<f, FirstOf(W)>>]
           x == Remains(y, W)
<1>1. \/ W # {} /\ Sleep(p, d, newest, x, IODone(b))
      \/ W = {} /\ Step(p, ForgetErrors(d, f), n, NoOp)
  BY Zenon DEF InvalidatePass, Waits, BusyNumbers, InvalidateAll, FirstOf, Remains
<1>2. f \in Files /\ N \subseteq BlocksOf(f) BY DEF Backs
<1>3. newest \in NewestT /\ cache \in CacheT BY DEF Core
<1>4. PassDone(cache, d) /\ (W # {} => b \in Blocks /\ Used(d.blk[b])) BY <1>2, PurgePass
<1>5. n \in NewestT BY <1>3 DEF NewestT
<1>6. Backs(x) /\ x.pc = "blocks" BY RemainsIs
<1> HIDE DEF W, d, n, x, b, f
<1>7. CASE W # {} /\ Sleep(p, d, newest, x, IODone(b))
  <2>1. Good(cache, proc, p, d, newest, x, IODone(b)) BY <1>4, <1>6, <1>7, WaitGood DEF Used
  <2> QED BY <1>7, <2>1, SleepKeeps
<1>8. CASE W = {} /\ Step(p, ForgetErrors(d, f), n, NoOp)
  <2>1. d \in CacheT /\ CacheInv(d) BY <1>4 DEF PassDone
  <2>2. PassDone(d, ForgetErrors(d, f)) BY <1>2, <2>1, ForgetErrorsQuiet, QuietPass
  <2>3. PassDone(cache, ForgetErrors(d, f)) BY <1>3, <1>4, <2>2, PassTrans
  <2>4. Good(cache, proc, p, ForgetErrors(d, f), n, NoOp, Nil)
    BY <1>5, <2>3, NoOpIs, NilSleeps, GoodPass DEF ClosePcs
  <2> QED BY <1>8, <2>4, StepKeeps
<1> QED BY <1>1, <1>7, <1>8

\* TruncAgain preserves the invariant.
LEMMA TruncAgainKeeps ==
    ASSUME Inv, NEW p \in Procs, TruncAgain(p)
    PROVE  Inv'
<1>1. /\ proc[p].pc = "blocks" /\ asleep[p] = Nil /\ InvalidatePass(p, cache, proc[p])
      /\ UNCHANGED <<srv, faults, ops>>
  BY DEF TruncAgain, At
<1>2. Core(cache, proc, asleep, newest) /\ proc \in ProcsT /\ sync \in {"idle", "asleep", "awake"}
  BY CoreCache
<1>3. WaitsForBlocks(proc[p], asleep[p]) BY <1>1, <1>2, AtPlaces
<1>4. Backs(proc[p]) /\ proc[p].blk = Nil BY <1>2, <1>3 DEF Backs, WaitsForBlocks, ProcsT
<1>5. Core(cache', proc', asleep', newest') /\ sync' = sync
  BY <1>1, <1>2, <1>4, InvalidatePassKeeps
<1> QED BY <1>1, <1>5 DEF Inv

\* An operation on the blocks of a file begins.
LEMMA BeginBacks ==
    ASSUME Inv, NEW p \in Procs, NEW f \in Files, NEW op \in {"fsync", "consist", "trunc"},
           Begin(p, f, op), NEW N \in SUBSET BlocksOf(f), NEW y,
           y = Starting(op, f, N)
    PROVE  /\ proc[p].blk = Nil /\ asleep[p] = Nil /\ Backs(y) /\ y.file = f /\ y.op = op /\ y.todo = N
           /\ ops' \in 0 .. MaxOps
<1>1. proc[p].pc = "idle" /\ asleep[p] = Nil /\ ops < MaxOps /\ ops' = ops + 1 BY DEF Begin, At
<1>2. proc[p].blk = Nil BY <1>1, CoreCache, AtPlaces, NoOpIs
<1>3. N \subseteq Int BY NumberFacts
<1>4. y \in ProcT /\ y.op = op /\ y.file = f /\ y.todo = N /\ y.blk = Nil
  BY <1>3 DEF Starting, NoOp, ProcT, ProcPcs, AllCalls
<1>5. ops' \in 0 .. MaxOps BY <1>1, MaxTypes DEF Inv
<1> QED BY <1>1, <1>2, <1>4, <1>5 DEF Backs

\* Trunc preserves the invariant.
LEMMA TruncKeeps ==
    ASSUME Inv, NEW p \in Procs, NEW f \in Files, Fscache_Trunc(p, f)
    PROVE  Inv'
<1> DEFINE N == IF cache.file[f].inCache = 0 THEN {} ELSE BlocksOf(f)
           y == [NoOp EXCEPT !.op = "trunc", !.file = f, !.todo = N]
<1>1. Begin(p, f, "trunc") /\ InvalidatePass(p, cache, y) /\ UNCHANGED <<srv, faults>>
  BY DEF Fscache_Trunc
<1>2. N \in SUBSET BlocksOf(f)
  OBVIOUS
<1> HIDE DEF N
<1>a. y = Starting("trunc", f, N) BY DEF Starting
<1> HIDE DEF y
<1>3. proc[p].blk = Nil /\ asleep[p] = Nil /\ Backs(y) /\ ops' \in 0 .. MaxOps
  <2>1. "trunc" \in {"fsync", "consist", "trunc"}
    OBVIOUS
  <2>2. Begin(p, f, "trunc") BY <1>1
  <2> QED BY <1>2, <1>a, <2>1, <2>2, BeginBacks
<1>4. Core(cache', proc', asleep', newest') /\ sync' = sync
  BY <1>1, <1>3, CoreCache, InvalidatePassKeeps
<1> QED BY <1>1, <1>3, <1>4 DEF Inv

\* The blocks passed by a write-back are dropped.
LEMMA DropPass ==
    ASSUME NEW c \in CacheT, CacheInv(c), NEW pr, HoldInv(c, pr),
           NEW f, NEW N, N \subseteq BlocksOf(f), NEW W, W = UsedNumbers(c, f, N), NEW op,
           NEW d, d = IF op = "consist" THEN Drop(c, InHash(c, f, Passed(N, W))) ELSE c
    PROVE  /\ PassDone(c, d)
           /\ W # {} => c.hash[<<f, FirstOf(W)>>] \in Blocks
                        /\ d.blk[c.hash[<<f, FirstOf(W)>>]].ref > 0
<1> DEFINE S == InHash(c, f, Passed(N, W))
<1>1. PassDone(c, c) BY QuietRefl, QuietPass DEF Keeps
<1>2. \A b \in S : b \in Blocks /\ Droppable(c, b) BY PassedBlocks
<1>3. op = "consist" => d = Drop(c, S)
  OBVIOUS
<1> HIDE DEF S
<1>4. ASSUME op = "consist"
      PROVE  /\ PassDone(c, d) /\ \A a \in Blocks \ S : d.blk[a] = c.blk[a]
  <2>1. Dropped(c, d, S) BY <1>2, <1>3, <1>4, DropAll
  <2>2. Holds(c, d) BY <1>2, <2>1, DroppedHolds
  <2>3. /\ d \in CacheT /\ CacheInv(d) /\ Heard(c, d) /\ \A a \in Blocks \ S : d.blk[a] = c.blk[a]
        /\ \A g \in Files : d.file[g].flags = c.file[g].flags
    BY <2>1 DEF Dropped
  <2>4. Keeps(c, d, WaitFlags) BY <2>3 DEF Keeps
  <2> QED BY <2>2, <2>3, <2>4 DEF PassDone
<1>5. PassDone(c, d) BY <1>1, <1>4
<1>6. ASSUME W # {}
      PROVE  c.hash[<<f, FirstOf(W)>>] \in Blocks /\ d.blk[c.hash[<<f, FirstOf(W)>>]].ref > 0
  <2> DEFINE b == c.hash[<<f, FirstOf(W)>>]
  <2>1. W \in SUBSET N BY DEF UsedNumbers
  <2>2. b \in Blocks /\ c.blk[b].ref > 0 BY <1>6, <2>1, WaitFacts
  <2> HIDE DEF b
  <2>3. b \notin S BY <1>2, <2>2 DEF Droppable
  <2>4. d.blk[b] = c.blk[b] BY <1>4, <2>2, <2>3
  <2> QED BY <2>2, <2>4 DEF b
<1> QED BY <1>5, <1>6

\* The write-back asks for the sync of the file.
LEMMA SyncPass ==
    ASSUME NEW c \in CacheT, NEW d, PassDone(c, d), NEW f \in Files, NEW v, NEW e,
           e = IF v THEN StartFileSync(d, f) ELSE d
    PROVE  PassDone(c, e)
<1>1. d \in CacheT /\ CacheInv(d) BY DEF PassDone
<1>2. WaitFlags \subseteq FileFlags \ {"FSYNC"} BY DEF WaitFlags, FileFlags
<1>3. Quiet(d, StartFileSync(d, f)) /\ Keeps(d, StartFileSync(d, f), WaitFlags)
  BY <1>1, <1>2, StartFileSyncQuiet, KeepsFewer
<1>4. PassDone(d, StartFileSync(d, f)) BY <1>1, <1>3, QuietPass
<1>5. PassDone(c, StartFileSync(d, f)) BY <1>4, PassTrans
<1> QED BY <1>5

\* The rest of a write-back is one.
LEMMA RemainsToIs ==
    ASSUME NEW y, Backs(y), NEW W, NEW v \in BOOLEAN, NEW pc \in {"blocks", "written"}
    PROVE  Backs(RemainsTo(y, W, v, pc)) /\ RemainsTo(y, W, v, pc).pc = pc
           /\ RemainsTo(y, W, v, pc).op = y.op /\ RemainsTo(y, W, v, pc).file = y.file
<1> DEFINE T == y.todo \ Passed(y.todo, W)
           x == RemainsTo(y, W, v, pc)
<1>1. x = [[y EXCEPT !.todo = T, !.flag = v] EXCEPT !.pc = pc] BY DEF RemainsTo
<1>2. y \in ProcT /\ y.todo \subseteq BlocksOf(y.file) /\ T \subseteq y.todo BY DEF Backs
<1> HIDE DEF T, x
<1>3. x \in ProcT /\ x.pc = pc /\ x.todo = T /\ x.op = y.op /\ x.file = y.file /\ x.blk = y.blk
  BY <1>1, <1>2 DEF ProcT, ProcPcs
<1> QED BY <1>2, <1>3 DEF Backs, x

\* Waiting for the last dirty block of a listed file is good.
LEMMA FileWaitGood ==
    ASSUME NEW c, NEW pr, NEW sl, NEW nw, Core(c, pr, sl, nw), NEW p \in Procs, pr[p].blk = Nil,
           NEW d, PassDone(c, d), NEW x \in ProcT, x.pc = "written", x.op \in {"fsync", "consist"},
           x.blk = Nil, NEW f \in Files, x.file = f, Unwritten(d, f)
    PROVE  Good(c, pr, p, d, nw, x, NoDirtyBlocks(f))
<1>1. NoDirtyBlocks(f) \in Events /\ NoDirtyBlocks(f) # CloseCondition
  BY EventTypes, EventsApart
<1>2. Tied(x, NoDirtyBlocks(f)) BY <1>1 DEF Tied, WaitsForFile
<1>3. SleepsWell(d, x, NoDirtyBlocks(f))
  <2>1. /\ \A g : NoDirtyBlocks(f) = NoDirtyBlocks(g) => f = g
        /\ \A b \in Blocks : NoDirtyBlocks(f) # IODone(b)
        /\ NoDirtyBlocks(f) # CleanBlock /\ NoDirtyBlocks(f) # CloseCondition
    BY EventsApart
  <2>2. FileIs(d, f, {"ON_DIRTY_LIST", "BEING_WRITTEN"}) BY DEF Unwritten
  <2> HIDE DEF NoDirtyBlocks
  <2> QED BY <2>1, <2>2 DEF SleepsWell
<1>4. x.pc \notin ClosePcs /\ nw \in NewestT BY DEF ClosePcs, Core
<1> QED BY <1>1, <1>2, <1>3, <1>4, GoodPass

\* The return of Fscache_FileWriteBack preserves the core.
LEMMA ReturnKeeps ==
    ASSUME Core(cache, proc, asleep, newest), NEW p \in Procs, proc[p].blk = Nil, asleep[p] = Nil,
           NEW c, PassDone(cache, c), NEW y, y.file \in Files, srv \in SrvT, Return(p, c, y)
    PROVE  Core(cache', proc', asleep', newest') /\ sync' = sync /\ srv' \in SrvT
<1> DEFINE f == y.file
           F == c.file[f].flags \cup {"NOT_CACHEABLE"}
           d == IF y.op = "consist" THEN SetFlags(c, f, F) ELSE c
           v == srv[f].dirty /\ ~(y.op = "consist" /\ ~FileIs(c, f, Errors))
<1>1. Step(p, d, newest, NoOp) /\ srv' = [srv EXCEPT ![f].dirty = v] BY DEF Return, SetFlags
<1>2. v \in BOOLEAN BY DEF SrvT
<1>3. c \in CacheT /\ CacheInv(c) /\ cache \in CacheT /\ newest \in NewestT
  BY DEF PassDone, Core
<1>4. F \in SUBSET FileFlags BY <1>3, FileFields DEF FileFlags
<1>5. /\ "BEING_WRITTEN" \in F <=> "BEING_WRITTEN" \in c.file[f].flags
      /\ "ON_DIRTY_LIST" \in F <=> "ON_DIRTY_LIST" \in c.file[f].flags
      /\ F \cap WaitFlags = c.file[f].flags \cap WaitFlags
  BY DEF WaitFlags
<1> HIDE DEF F, v
<1>6. PassDone(cache, SetFlags(c, f, F))
  <2>1. Quiet(c, SetFlags(c, f, F)) BY <1>3, <1>4, <1>5, SetFlagsQuiet
  <2>2. Keeps(c, SetFlags(c, f, F), WaitFlags) BY <1>3, <1>4, <1>5, KeepsSetFlags
  <2>3. PassDone(c, SetFlags(c, f, F)) BY <1>3, <2>1, <2>2, QuietPass
  <2> QED BY <1>3, <2>3, PassTrans
<1>7. PassDone(cache, d) BY <1>6
<1> HIDE DEF d
<1>8. Good(cache, proc, p, d, newest, NoOp, Nil)
  BY <1>3, <1>7, NoOpIs, NilSleeps, GoodPass DEF ClosePcs
<1>9. Core(cache', proc', asleep', newest') /\ sync' = sync BY <1>1, <1>8, StepKeeps
<1>10. srv' \in SrvT BY <1>1, <1>2 DEF SrvT
<1> QED BY <1>9, <1>10

\* A pass of Fscache_FileWriteBack preserves the core.
LEMMA WriteBackPassKeeps ==
    ASSUME Core(cache, proc, asleep, newest), NEW p \in Procs, proc[p].blk = Nil, asleep[p] = Nil,
           NEW c, PassDone(cache, c), HoldInv(c, proc), NEW y, Backs(y), y.op # "trunc",
           srv \in SrvT, WriteBackPass(p, c, y)
    PROVE  Core(cache', proc', asleep', newest') /\ sync' = sync /\ srv' \in SrvT
<1> DEFINE f == y.file
           N == y.todo
           W == UsedNumbers(c, f, N)
           S == InHash(c, f, Passed(N, W))
           v == WriteSync(c, y, S)
           d == IF y.op = "consist" THEN Drop(c, S) ELSE c
           u == FileIs(d, f, {"ON_DIRTY_LIST"}) /\ v
           e == IF u THEN StartFileSync(d, f) ELSE d
           b == c.hash[<<f, FirstOf(W)>>]
           x == RemainsTo(y, W, v, "blocks")
           z == RemainsTo(y, W, v, "written")
<1>1. \/ W # {} /\ Sleep(p, d, newest, x, IODone(b)) /\ UNCHANGED srv
      \/ W = {} /\ Unwritten(e, f) /\ Sleep(p, e, newest, z, NoDirtyBlocks(f)) /\ UNCHANGED srv
      \/ W = {} /\ ~Unwritten(e, f) /\ Return(p, e, y)
  BY Zenon DEF WriteBackPass, Waits, UsedNumbers, FirstOf, RemainsTo, WriteSync
<1>2. f \in Files /\ N \subseteq BlocksOf(f) /\ y.flag \in BOOLEAN /\ y.op \in {"fsync", "consist"}
  BY DEF Backs, ProcT
<1>3. newest \in NewestT /\ cache \in CacheT /\ c \in CacheT /\ CacheInv(c)
  BY DEF Core, PassDone
<1>4. v \in BOOLEAN BY <1>2 DEF WriteSync
<1>5. PassDone(c, d) /\ (W # {} => b \in Blocks /\ d.blk[b].ref > 0) BY <1>2, <1>3, DropPass
<1> HIDE DEF W, S, v, d, b, f, N
<1>6. PassDone(cache, d) BY <1>3, <1>5, PassTrans
<1>7. PassDone(cache, e)
  <2> HIDE DEF u
  <2> QED BY <1>2, <1>3, <1>6, SyncPass
<1>8. Backs(x) /\ x.pc = "blocks" BY <1>4, RemainsToIs
<1>9. Backs(z) /\ z.pc = "written" /\ z.op = y.op /\ z.file = y.file BY <1>4, RemainsToIs
<1> HIDE DEF x, z, e, u
<1>10. CASE W # {} /\ Sleep(p, d, newest, x, IODone(b)) /\ UNCHANGED srv
  <2>1. Good(cache, proc, p, d, newest, x, IODone(b)) BY <1>5, <1>6, <1>8, <1>10, WaitGood
  <2> QED BY <1>10, <2>1, SleepKeeps
<1>11. CASE W = {} /\ Unwritten(e, f) /\ Sleep(p, e, newest, z, NoDirtyBlocks(f)) /\ UNCHANGED srv
  <2>1. z \in ProcT /\ z.blk = Nil /\ z.op \in {"fsync", "consist"} /\ z.file = f
    BY <1>2, <1>9 DEF Backs, f
  <2>2. Good(cache, proc, p, e, newest, z, NoDirtyBlocks(f))
    BY <1>2, <1>7, <1>9, <1>11, <2>1, FileWaitGood
  <2> QED BY <1>11, <2>2, SleepKeeps
<1>12. CASE W = {} /\ ~Unwritten(e, f) /\ Return(p, e, y)
  BY <1>2, <1>7, <1>12, ReturnKeeps DEF f
<1> QED BY <1>1, <1>10, <1>11, <1>12

\* FileWriteBackAgain preserves the invariant.
LEMMA FileWriteBackAgainKeeps ==
    ASSUME Inv, NEW p \in Procs, FileWriteBackAgain(p)
    PROVE  Inv'
<1>1. /\ proc[p].pc = "blocks" /\ asleep[p] = Nil /\ proc[p].op \in {"fsync", "consist"}
      /\ WriteBackPass(p, cache, proc[p]) /\ UNCHANGED <<faults, ops>>
  BY DEF FileWriteBackAgain, At
<1>2. /\ Core(cache, proc, asleep, newest) /\ proc \in ProcsT /\ cache \in CacheT /\ CacheInv(cache)
      /\ HoldInv(cache, proc) /\ sync \in {"idle", "asleep", "awake"}
  BY CoreCache
<1>3. WaitsForBlocks(proc[p], asleep[p]) BY <1>1, <1>2, AtPlaces
<1>4. Backs(proc[p]) /\ proc[p].blk = Nil /\ proc[p].op # "trunc"
  BY <1>1, <1>2, <1>3 DEF Backs, WaitsForBlocks, ProcsT
<1>5. PassDone(cache, cache) BY <1>2, QuietRefl, QuietPass DEF Keeps
<1>6. srv \in SrvT BY DEF Inv, SrvT
<1>7. Core(cache', proc', asleep', newest') /\ sync' = sync /\ srv' \in SrvT
  BY <1>1, <1>2, <1>4, <1>5, <1>6, WriteBackPassKeeps
<1> QED BY <1>1, <1>7 DEF Inv, SrvT

\* FileWriteBackWaits preserves the invariant.
LEMMA FileWriteBackWaitsKeeps ==
    ASSUME Inv, NEW p \in Procs, FileWriteBackWaits(p)
    PROVE  Inv'
<1> DEFINE f == proc[p].file
<1>1. /\ proc[p].pc = "written" /\ asleep[p] = Nil /\ UNCHANGED <<faults, ops>>
      /\ \/ Unwritten(cache, f) /\ Sleep(p, cache, newest, proc[p], NoDirtyBlocks(f)) /\ UNCHANGED srv
         \/ Return(p, cache, proc[p])
  BY DEF FileWriteBackWaits, At
<1>2. /\ Core(cache, proc, asleep, newest) /\ proc \in ProcsT /\ cache \in CacheT /\ CacheInv(cache)
      /\ sync \in {"idle", "asleep", "awake"}
  BY CoreCache
<1>3. WaitsForFile(proc[p], asleep[p]) BY <1>1, <1>2, AtPlaces
<1>4. /\ proc[p] \in ProcT /\ proc[p].blk = Nil /\ proc[p].op \in {"fsync", "consist"} /\ f \in Files
  BY <1>2, <1>3 DEF WaitsForFile, ProcsT
<1>5. PassDone(cache, cache) BY <1>2, QuietRefl, QuietPass DEF Keeps
<1>6. srv \in SrvT BY DEF Inv, SrvT
<1>7. CASE Unwritten(cache, f) /\ Sleep(p, cache, newest, proc[p], NoDirtyBlocks(f)) /\ UNCHANGED srv
  <2>1. Good(cache, proc, p, cache, newest, proc[p], NoDirtyBlocks(f))
    BY <1>1, <1>2, <1>4, <1>5, <1>7, FileWaitGood
  <2>2. Core(cache', proc', asleep', newest') /\ sync' = sync BY <1>2, <1>7, <2>1, SleepKeeps
  <2> QED BY <1>1, <1>7, <2>2 DEF Inv
<1>8. CASE Return(p, cache, proc[p])
  <2>1. Core(cache', proc', asleep', newest') /\ sync' = sync /\ srv' \in SrvT
    BY <1>1, <1>2, <1>4, <1>5, <1>6, <1>8, ReturnKeeps
  <2> QED BY <1>1, <2>1 DEF Inv, SrvT
<1> QED BY <1>1, <1>7, <1>8

\* FileWriteBack preserves the invariant.
LEMMA FileWriteBackKeeps ==
    ASSUME Inv, NEW p \in Procs, NEW f \in Files, NEW op \in {"fsync", "consist"},
           Fscache_FileWriteBack(p, f, op)
    PROVE  Inv'
<1> DEFINE c == ClearErrors(cache, f)
           y == Starting(op, f, BlocksOf(f))
<1>1. /\ Begin(p, f, op) /\ faults' = faults
      /\ Return(p, c, y) \/ WriteBackPass(p, c, y)
  BY DEF Fscache_FileWriteBack, ClearErrors, Starting
<1>2. /\ Core(cache, proc, asleep, newest) /\ cache \in CacheT /\ CacheInv(cache)
      /\ HoldInv(cache, proc) /\ sync \in {"idle", "asleep", "awake"} /\ srv \in SrvT
  BY CoreCache DEF Inv, SrvT
<1>3. /\ proc[p].blk = Nil /\ asleep[p] = Nil /\ Backs(y) /\ y.file = f /\ y.op = op
      /\ ops' \in 0 .. MaxOps
  BY <1>1, BeginBacks
<1> HIDE DEF y
<1>4. Quiet(cache, c) /\ Keeps(cache, c, FileFlags \ Errors) BY <1>2, ClearErrorsQuiet
<1> HIDE DEF c
<1>5. WaitFlags \subseteq FileFlags \ Errors BY DEF WaitFlags, FileFlags, Errors
<1>6. PassDone(cache, c) BY <1>2, <1>4, <1>5, KeepsFewer, QuietPass
<1>7. c.blk = cache.blk /\ c.hash = cache.hash BY <1>4 DEF Quiet, Same
<1>8. HoldInv(c, proc) BY <1>2, <1>7 DEF HoldInv, RefCounts, Held, HeldBy, IOHeld, Is
<1>9. Core(cache', proc', asleep', newest') /\ sync' = sync /\ srv' \in SrvT
  <2>1. CASE Return(p, c, y) BY <1>2, <1>3, <1>6, <2>1, ReturnKeeps
  <2>2. CASE WriteBackPass(p, c, y) BY <1>2, <1>3, <1>6, <1>8, <2>2, WriteBackPassKeeps
  <2> QED BY <1>1, <2>1, <2>2
<1> QED BY <1>1, <1>2, <1>3, <1>9 DEF Inv, SrvT

\* The first state: every block is free and nobody does anything.
LEMMA InitCache ==
    ASSUME Init
    PROVE  cache \in CacheT /\ cache.wake = {} /\ CacheInv(cache)
<1> DEFINE c == cache
<1>1. /\ c.blk = [b \in Blocks |-> [key |-> Nil, ref |-> 0, flags |-> {"FREE"}]]
      /\ c.hash = [k \in Keys |-> Nil]
      /\ c.file = [f \in Files |-> [numDirty |-> 0, inCache |-> 0, dirtyList |-> {}, flags |-> {}]]
      /\ c.avail = Cardinality(Blocks) /\ c.active = 0
      /\ c.cleaner = [s \in Slots |-> NoCleaner] /\ c.wake = {}
      /\ c = [blk |-> c.blk, hash |-> c.hash, file |-> c.file, avail |-> c.avail,
              active |-> c.active, cleaner |-> c.cleaner, wake |-> c.wake]
  BY DEF Init
<1>2. Cardinality(Blocks) \in Int /\ Cardinality({}) = 0
  BY Finite, FS_CardinalityType, FS_EmptySet
<1>3. NoCleaner \in CleanerT /\ NoCleaner.pc = "idle" /\ NoCleaner.file = Nil /\ NoCleaner.blk = Nil
      /\ NoCleaner.status = "ok"
  BY NoCleanerIs DEF NoCleaner
<1> HIDE DEF c
<1>4. \A b \in Blocks : c.blk[b].key = Nil /\ c.blk[b].ref = 0 /\ c.blk[b].flags = {"FREE"}
                        /\ c.blk[b] \in BlockT
  BY <1>1 DEF BlockT, BlockFlags
<1>5. \A f \in Files : c.file[f].numDirty = 0 /\ c.file[f].inCache = 0 /\ c.file[f].dirtyList = {}
                       /\ c.file[f].flags = {} /\ c.file[f] \in FileT
  BY <1>1 DEF FileT
<1>6. \A s \in Slots : c.cleaner[s] = NoCleaner BY <1>1
<1>7. \A k \in Keys : c.hash[k] = Nil BY <1>1
<1>8. c \in CacheT
  <2>1. c.blk \in [Blocks -> BlockT] /\ c.file \in [Files -> FileT] BY <1>1, <1>4, <1>5
  <2>2. c.hash \in [Keys -> Blocks \cup {Nil}] /\ c.cleaner \in [Slots -> CleanerT]
    BY <1>1, <1>3
  <2>3. c.avail \in Int /\ c.active \in Int /\ c.wake \in SUBSET Events BY <1>1, <1>2
  <2> QED BY <1>1, <2>1, <2>2, <2>3 DEF CacheT
<1>9. CleanerTied(c) /\ OneCleaner(c) /\ CleanerBlock(c)
  <2> HIDE DEF NoCleaner
  <2>1. CleanerTied(c) BY <1>3, <1>6 DEF CleanerTied
  <2>2. OneCleaner(c) /\ CleanerBlock(c) BY <1>3, <1>6 DEF OneCleaner, CleanerBlock
  <2> QED BY <2>1, <2>2
<1>10. \A b \in Blocks : ~Is(c, b, DirtyOrWritten) /\ ~Is(c, b, {"BEING_WRITTEN"})
  BY <1>4 DEF Is, DirtyOrWritten
<1>11. BlockTied(c) /\ HashTied(c)
  <2>1. \A b \in Blocks, s \in Slots : c.cleaner[s].blk # b BY <1>3, <1>6, NilApart
  <2>2. BlockTied(c) BY <1>4, <2>1 DEF BlockTied
  <2>3. HashTied(c) BY <1>7 DEF HashTied
  <2> QED BY <2>2, <2>3
<1>12. \A f : Of(c, f) = {} /\ DirtyOf(c, f) = {} BY <1>4 DEF Of, DirtyOf
<1>13. FileTied(c)
  <2>1. \A f \in Files, s \in Slots : c.cleaner[s].file # f BY <1>3, <1>6, NilApart
  <2>2. \A f \in Files : ~FileIs(c, f, {"BEING_WRITTEN"}) BY <1>5 DEF FileIs
  <2> QED BY <1>5, <1>12, <2>1, <2>2 DEF FileTied
<1>14. Counts(c)
  <2>1. Free(c) = Blocks BY <1>4, <1>10 DEF Free
  <2>2. ActiveOf(c) = {} BY <1>3, <1>6 DEF ActiveOf
  <2> QED BY <1>1, <1>2, <1>5, <1>12, <2>1, <2>2 DEF Counts
<1>15. CacheInv(c) BY <1>9, <1>11, <1>13, <1>14 DEF CacheInv
<1> QED BY <1>1, <1>8, <1>15 DEF c

----------------------------------------------------------------------------
(* The invariant and what follows from it.                                 *)
\* The initial states satisfy the invariant.
LEMMA InitInv ==
    ASSUME Init
    PROVE  Inv
<1>1. cache \in CacheT /\ cache.wake = {} /\ CacheInv(cache) BY InitCache
<1>2. /\ proc = [p \in Procs |-> NoOp] /\ asleep = [p \in Procs |-> Nil]
      /\ newest = [k \in Keys |-> {Server}]
      /\ \A b \in Blocks : cache.blk[b].ref = 0 /\ cache.blk[b].flags = {"FREE"}
  BY DEF Init
<1>3. srv \in [Files -> [open : BOOLEAN, dirty : BOOLEAN]] /\ sync = "idle" /\ faults = 0 /\ ops = 0
  BY DEF Init
<1>4. NoOp \in ProcT /\ NoOp.blk = Nil /\ NoOp.pc = "idle" /\ Tied(NoOp, Nil) BY NoOpIs
<1> HIDE DEF NoOp
<1>5. \A p \in Procs : proc[p] = NoOp /\ asleep[p] = Nil BY <1>2
<1>6. proc \in ProcsT /\ asleep \in AsleepT /\ newest \in NewestT
  BY <1>2, <1>4 DEF ProcsT, AsleepT, NewestT
<1>7. ProcTied(proc, asleep) BY <1>4, <1>5 DEF ProcTied
<1>8. HoldInv(cache, proc)
  <2>1. \A b \in Blocks : Users(proc, b) = {} /\ ~Is(cache, b, {"BEING_WRITTEN"})
                          /\ ~Is(cache, b, {"IO_IN_PROGRESS"})
    BY <1>2, <1>4, <1>5, NilApart DEF Users, Is
  <2>2. Cardinality({}) = 0 BY FS_EmptySet
  <2>3. \A b \in Blocks : One(Is(cache, b, {"BEING_WRITTEN"})) = 0 /\ Cardinality(Users(proc, b)) = 0
    BY <2>1, <2>2 DEF One
  <2>4. RefCounts(cache, proc) BY <1>2, <2>3 DEF RefCounts
  <2>5. Held(cache, proc) BY <1>4, <1>5 DEF Held
  <2>6. IOHeld(cache, proc) BY <2>1 DEF IOHeld
  <2> QED BY <2>4, <2>5, <2>6 DEF HoldInv
<1>9. Sleepers(cache, proc, asleep) BY <1>5, NilSleeps DEF Sleepers
<1>10. OneCloser(proc) /\ \A p \in Procs : Marks(cache, proc[p])
  BY <1>4, <1>5, NoOpIs DEF OneCloser, ClosePcs
<1>11. Core(cache, proc, asleep, newest) BY <1>1, <1>6, <1>7, <1>8, <1>9, <1>10 DEF Core
<1>12. faults \in 0 .. MaxFaults /\ ops \in 0 .. MaxOps BY <1>3, MaxTypes
<1> QED BY <1>3, <1>11, <1>12 DEF Inv

\* A stutter preserves the invariant.
LEMMA SameKeeps ==
    ASSUME Inv, UNCHANGED vars
    PROVE  Inv'
<1>1. /\ cache' = cache /\ proc' = proc /\ asleep' = asleep /\ srv' = srv
      /\ newest' = newest /\ sync' = sync /\ faults' = faults /\ ops' = ops
  BY DEF vars
<1> QED BY <1>1 DEF Inv

\* Continue preserves the invariant.
LEMMA ContinueKeeps ==
    ASSUME Inv, NEW p \in Procs, Continue(p)
    PROVE  Inv'
BY Fscache_FetchBlockKeeps, FillKeeps, UseKeeps, UnlockDirtyKeeps, FileWriteBackAgainKeeps,
  FileWriteBackWaitsKeeps, TruncAgainKeeps, PreventKeeps, CloseRPCKeeps, AllowKeeps DEF Continue

\* Steps of cleaners preserve the invariant.
LEMMA CleanersKeep ==
    ASSUME Inv, NEW s \in Slots, Clean(s)
    PROVE  Inv'
BY Fscache_GetDirtyFileKeeps, Fscache_GetDirtyBlockKeeps, BlockWriteKeeps,
  Fscache_ReturnDirtyBlockKeeps, Fscache_ReturnDirtyFileKeeps, FscacheBackendIdleKeeps,
  CleanerExitKeeps DEF Clean

\* Every step preserves the invariant.
LEMMA NextInv ==
    ASSUME Inv, [Next]_vars
    PROVE  Inv'
<1>1. CASE \E p \in Procs, k \in Keys, op \in {"read", "write", "update"} : BeginIO(p, k, op)
  BY <1>1, BeginIOKeeps
<1>2. CASE \E p \in Procs, f \in Files, op \in {"fsync", "consist"} : Fscache_FileWriteBack(p, f, op)
  BY <1>2, FileWriteBackKeeps
<1>3. CASE \E p \in Procs, f \in Files : Fscache_Trunc(p, f) \/ FsrmtFileClose(p, f)
  BY <1>3, TruncKeeps, FsrmtFileCloseKeeps
<1>4. CASE \E f \in Files : FsOpen(f) \/ Ages(f) \/ FsrmtFinishFileReopen(f)
  BY <1>4, FsOpenKeeps, AgesKeeps, FsrmtFinishFileReopenKeeps
<1>5. CASE \E p \in Procs : Continue(p) BY <1>5, ContinueKeeps
<1>6. CASE \E s \in Slots : Clean(s) BY <1>6, CleanersKeep
<1>7. CASE Fsutil_SyncProc BY <1>7, Fsutil_SyncProcKeeps
<1>8. CASE SyncWakes BY <1>8, SyncWakesKeeps
<1>9. CASE UNCHANGED vars BY <1>9, SameKeeps
<1> QED BY <1>1, <1>2, <1>3, <1>4, <1>5, <1>6, <1>7, <1>8, <1>9 DEF Next

(* The inductive invariant holds: whatever processes, cleaners and the     *)
(* sync process do, in whatever order (fscache/fscacheBlocks.c).           *)
THEOREM BlockCacheInductive == Spec => []Inv
<1>1. Init => Inv BY InitInv
<1>2. Inv /\ [Next]_vars => Inv' BY NextInv
<1> QED BY <1>1, <1>2, PTL DEF Spec

(* The type invariant: no count of the block cache ever goes below zero or *)
(* beyond what there is to count, whichever order blocks are fetched,      *)
(* unlocked, written and invalidated in.                                   *)
THEOREM BlockCacheTypeCorrect == Spec => []TypeOK
<1>1. Inv => TypeOK
  <2> SUFFICES ASSUME Inv PROVE TypeOK
    OBVIOUS
  <2>1. /\ cache \in CacheT /\ CacheInv(cache) /\ cache.wake = {} /\ HoldInv(cache, proc)
        /\ proc \in ProcsT /\ asleep \in AsleepT /\ newest \in NewestT
    BY DEF Inv, Core
  <2>2. cache.blk \in [Blocks -> [key : Keys \cup {Nil}, ref : Nat, flags : SUBSET BlockFlags]]
    <3>1. \A b \in Blocks : cache.blk[b] \in [key : Keys \cup {Nil}, ref : Nat, flags : SUBSET BlockFlags]
      <4> TAKE b \in Blocks
      <4>1. /\ cache.blk[b].key \in Keys \cup {Nil} /\ cache.blk[b].flags \in SUBSET BlockFlags
            /\ cache.blk[b] = [key |-> cache.blk[b].key, ref |-> cache.blk[b].ref,
                               flags |-> cache.blk[b].flags]
        BY <2>1, BlockFields
      <4>2. cache.blk[b].ref \in Nat BY <2>1, RefFacts
      <4> QED BY <4>1, <4>2
    <3>2. cache.blk \in [Blocks -> BlockT] BY <2>1, CacheFields
    <3> QED BY <3>1, <3>2
  <2>3. cache.file \in [Files -> [numDirty : Nat, inCache : Nat, dirtyList : SUBSET Blocks,
                                  flags : SUBSET FileFlags]]
    <3>1. \A f \in Files : cache.file[f] \in [numDirty : Nat, inCache : Nat,
                              dirtyList : SUBSET Blocks, flags : SUBSET FileFlags]
      <4> TAKE f \in Files
      <4>1. /\ cache.file[f].dirtyList \in SUBSET Blocks /\ cache.file[f].flags \in SUBSET FileFlags
            /\ cache.file[f] = [numDirty |-> cache.file[f].numDirty, inCache |-> cache.file[f].inCache,
                       dirtyList |-> cache.file[f].dirtyList, flags |-> cache.file[f].flags]
        BY <2>1, FileFields, FileRecord
      <4>2. cache.file[f].numDirty \in Nat /\ cache.file[f].inCache \in Nat BY <2>1, FileFacts
      <4> QED BY <4>1, <4>2
    <3>2. cache.file \in [Files -> FileT] BY <2>1, CacheFields
    <3> QED BY <3>1, <3>2
  <2>4. cache.avail \in 0 .. Cardinality(Blocks) /\ cache.active \in 0 .. Cardinality(Slots)
    <3>1. Free(cache) \subseteq Blocks /\ ActiveOf(cache) \subseteq Slots BY DEF Free, ActiveOf
    <3>2. /\ Cardinality(Free(cache)) \in Nat /\ Cardinality(ActiveOf(cache)) \in Nat
          /\ Cardinality(Free(cache)) <= Cardinality(Blocks)
          /\ Cardinality(ActiveOf(cache)) <= Cardinality(Slots)
          /\ Cardinality(Blocks) \in Nat /\ Cardinality(Slots) \in Nat
      BY <3>1, Finite, FS_Subset, FS_CardinalityType
    <3> QED BY <2>1, <3>2 DEF CacheInv, Counts
  <2>5. /\ cache.hash \in [Keys -> Blocks \cup {Nil}] /\ cache.cleaner \in [Slots -> CleanerT]
    BY <2>1, CacheFields
  <2> QED
    BY <2>1, <2>2, <2>3, <2>4, <2>5 DEF TypeOK, Inv, BlockFlags, FileFlags, CleanerT,
      CleanerPcs, ProcsT, ProcT, ProcPcs, AsleepT, NewestT
<1> QED BY <1>1, BlockCacheInductive, PTL

(* numAvailBlocks, numDirtyBlocks, blocksInCache and the numbers of        *)
(* cleaners are what they count, the dirty lists hold the dirty blocks     *)
(* nobody is writing, and a file with dirty blocks is on a list: every     *)
(* path of fscacheBlocks.c that changes a block keeps them.                *)
THEOREM BlockCacheCountsExact == Spec => []CountsExact
<1>1. Inv => CountsExact
  <2> SUFFICES ASSUME Inv PROVE CountsExact
    OBVIOUS
  <2>1. cache \in CacheT /\ CacheInv(cache) BY CoreCache
  <2>2. OneCleaner(cache) /\ FileTied(cache) /\ Counts(cache) BY <2>1 DEF CacheInv
  <2>3. \A f \in Files : BlocksNow(f) = Of(cache, f) BY DEF BlocksNow, Of
  <2>4. /\ cache.avail = Cardinality({b \in Blocks :
              cache.blk[b].ref = 0 /\ ~Is(cache, b, DirtyOrWritten)})
        /\ cache.active = Cardinality({s \in Slots : cache.cleaner[s].pc \notin {"idle", "exit"}})
    BY <2>2 DEF Counts, Free, ActiveOf
  <2>5. ASSUME NEW f \in Files
        PROVE  /\ cache.file[f].inCache = Cardinality(BlocksNow(f))
               /\ cache.file[f].numDirty =
                      Cardinality({b \in BlocksNow(f) : Is(cache, b, DirtyOrWritten)})
               /\ cache.file[f].dirtyList = {b \in BlocksNow(f) :
                      Is(cache, b, {"DIRTY"}) /\ ~Is(cache, b, {"BEING_WRITTEN"})}
               /\ cache.file[f].numDirty > 0 => FileIs(cache, f, {"ON_DIRTY_LIST", "BEING_WRITTEN"})
    BY <2>2, <2>3 DEF Counts, FileTied, DirtyOf, Listed
  <2>6. ASSUME NEW f \in Files
        PROVE  Cardinality({s \in Slots : cache.cleaner[s].file = f}) =
                 IF FileIs(cache, f, {"BEING_WRITTEN"}) THEN 1 ELSE 0
    <3> DEFINE A == {s \in Slots : cache.cleaner[s].file = f}
    <3>1. FileIs(cache, f, {"BEING_WRITTEN"}) <=> A # {} BY <2>2 DEF FileTied
    <3>2. ASSUME NEW s \in A PROVE A = {s} BY <2>2, NilApart DEF OneCleaner
    <3> HIDE DEF A
    <3>3. CASE A = {} BY <3>1, <3>3, FS_EmptySet DEF A
    <3>4. CASE A # {}
      <4>1. PICK s : A = {s} BY <3>2, <3>4
      <4>2. Cardinality(A) = 1 BY <4>1, FS_Singleton
      <4> QED BY <3>1, <3>4, <4>2 DEF A
    <3> QED BY <3>3, <3>4
  <2> QED BY <2>4, <2>5, <2>6 DEF CountsExact
<1> QED BY <1>1, BlockCacheInductive, PTL

(* Nobody sleeps for what is already true: every path that ends the I/O on *)
(* a block, writes the last dirty block, frees one or leaves a file that   *)
(* is being closed broadcasts to those that wait for it.                   *)
THEOREM BlockCacheSleepersWoken == Spec => []SleepersWoken
<1>1. Inv => SleepersWoken
  <2> SUFFICES ASSUME Inv PROVE SleepersWoken
    OBVIOUS
  <2>1. ASSUME NEW p \in Procs
        PROVE  SleepsWell(cache, proc[p], asleep[p])
    BY DEF Inv, Core, Sleepers
  <2> QED BY <2>1 DEF SleepersWoken, SleepsWell
<1> QED BY <1>1, BlockCacheInductive, PTL
=============================================================================
