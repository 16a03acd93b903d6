--------------------------- MODULE FsConsistProofs ---------------------------
(***************************************************************************)
(* Proofs that the invariants of FsConsistInv hold for any number of       *)
(* workstations, processes and opens, and what follows from them.  From    *)
(* SharingInv on they assume that one process of each workstation uses the *)
(* file (OneEach): processes of a workstation race for its handle.         *)
(***************************************************************************)
EXTENDS FsConsistInv, FiniteSetTheorems, NaturalsInduction, TLAPS

(* A set of numbers that is not empty has a least one.                     *)
LEMMA LeastNat ==
    ASSUME NEW T, T \subseteq Nat, T # {}
    PROVE  \E x \in T : \A y \in T : x <= y
<1>1. PICK x \in T : \A y \in T : ~(<<y, x>> \in OpToRel(<, Nat))
  BY NatLessThanWellFounded, WFMin, Zenon
<1>2. \A y \in T : ~(y < x)
  BY <1>1 DEF OpToRel
<1> QED BY <1>2

(* Sets of subsets that grow by the element CHOOSE picks hold all subsets. *)
LEMMA SubsetInduction ==
    ASSUME NEW S, IsFiniteSet(S), NEW I, {} \in I,
           \A s \in SUBSET S : s # {} /\ s \ {CHOOSE x \in s : TRUE} \in I => s \in I
    PROVE  \A s \in SUBSET S : s \in I
<1> DEFINE T == {n \in Nat : \E s \in SUBSET S : s \notin I /\ Cardinality(s) = n}
<1> SUFFICES ASSUME NEW r \in SUBSET S, r \notin I PROVE FALSE
  OBVIOUS
<1>1. \A s \in SUBSET S : IsFiniteSet(s) /\ Cardinality(s) \in Nat
  BY FS_Subset, FS_CardinalityType
<1>2. T # {} /\ T \subseteq Nat
  BY <1>1
<1>3. PICK k \in T : \A j \in T : k <= j
  BY <1>2, LeastNat
<1>4. PICK s \in SUBSET S : s \notin I /\ Cardinality(s) = k
  BY <1>3
<1> DEFINE x == CHOOSE y \in s : TRUE
<1>5. s # {} /\ x \in s
  BY <1>4
<1>6. s \ {x} \in SUBSET S /\ Cardinality(s \ {x}) = k - 1
  BY <1>1, <1>4, <1>5, FS_RemoveElement
<1>7. k \in Nat /\ k - 1 \notin T
  BY <1>3
<1>8. k - 1 \in Nat
  BY <1>6, <1>1
<1>9. s \ {x} \in I
  BY <1>6, <1>7, <1>8
<1> QED BY <1>9, <1>4, <1>5

----------------------------------------------------------------------------

(* Sums over the client list.                                              *)

(* g holds the sums of f over all subsets of the clients, as the fold of   *)
(* MapThenSumSet computes them.                                            *)
Adds(g, f, S) ==
    g = [s \in SUBSET S |->
           IF s = {} THEN 0
           ELSE f[CHOOSE x \in s : TRUE] + g[s \ {CHOOSE x \in s : TRUE}]]

AddsUpTo(g, f, S, n) ==
    g = [s \in {t \in SUBSET S : Cardinality(t) <= n} |->
           IF s = {} THEN 0
           ELSE f[CHOOSE x \in s : TRUE] + g[s \ {CHOOSE x \in s : TRUE}]]

(* The sums over the subsets of at most n elements exist, by induction on  *)
(* n.                                                                      *)
LEMMA AddsUpToExists ==
    ASSUME NEW S, IsFiniteSet(S), NEW f, NEW n \in Nat
    PROVE  \E g : AddsUpTo(g, f, S, n)
<1> DEFINE T == {k \in Nat : ~\E g : AddsUpTo(g, f, S, k)}
           Part(k) == {t \in SUBSET S : Cardinality(t) <= k}
           Ch(s) == CHOOSE x \in s : TRUE
<1> SUFFICES ASSUME T # {} PROVE FALSE
  OBVIOUS
<1>0. \A s \in SUBSET S : IsFiniteSet(s) /\ Cardinality(s) \in Nat
  BY FS_Subset, FS_CardinalityType
<1>a. \A s \in SUBSET S : s # {} => Ch(s) \in s /\ Cardinality(s \ {Ch(s)}) = Cardinality(s) - 1
  BY <1>0, FS_RemoveElement
<1>1. PICK k \in T : \A j \in T : k <= j
  BY LeastNat
<1>2. k \in Nat /\ ~\E g : AddsUpTo(g, f, S, k)
  OBVIOUS
<1>3. k # 0
  <2>1. \A s \in Part(0) : s = {}
    BY <1>0, FS_EmptySet
  <2>2. AddsUpTo([s \in Part(0) |-> 0], f, S, 0)
    BY <2>1 DEF AddsUpTo
  <2> QED BY <2>2, <1>2
<1>4. PICK g : AddsUpTo(g, f, S, k - 1)
  BY <1>1, <1>2, <1>3
<1> DEFINE h == [s \in Part(k) |-> IF s \in Part(k - 1) THEN g[s] ELSE f[Ch(s)] + g[s \ {Ch(s)}]]
<1>5. AddsUpTo(h, f, S, k)
  <2> SUFFICES ASSUME NEW s \in Part(k)
               PROVE  h[s] = IF s = {} THEN 0 ELSE f[Ch(s)] + h[s \ {Ch(s)}]
    <3>1. h = [s \in Part(k) |-> h[s]]
      OBVIOUS
    <3> HIDE DEF h
    <3>2. h = [s \in Part(k) |-> IF s = {} THEN 0 ELSE f[Ch(s)] + h[s \ {Ch(s)}]]
      BY <3>1
    <3> QED BY <3>2, Zenon DEF AddsUpTo
  <2>0. s \in SUBSET S /\ Cardinality(s) <= k /\ Cardinality(s) \in Nat
    BY <1>0
  <2>1. s # {} => s \ {Ch(s)} \in Part(k - 1) /\ s \ {Ch(s)} \in Part(k)
    BY <1>a, <1>2, <2>0
  <2>2. s # {} => h[s \ {Ch(s)}] = g[s \ {Ch(s)}]
    BY <2>1
  <2>3. CASE s \in Part(k - 1)
    <3>1. g[s] = IF s = {} THEN 0 ELSE f[Ch(s)] + g[s \ {Ch(s)}]
      BY <2>3, <1>4, Zenon DEF AddsUpTo
    <3>2. h[s] = g[s]
      BY <2>3
    <3> QED BY <3>1, <3>2, <2>2
  <2>4. CASE s \notin Part(k - 1)
    <3>1. s # {}
      <4>1. Cardinality({}) = 0 /\ 0 <= k - 1
        BY <1>2, <1>3, FS_EmptySet
      <4> QED BY <2>4, <4>1
    <3>2. h[s] = f[Ch(s)] + g[s \ {Ch(s)}]
      BY <2>4
    <3> QED BY <3>1, <3>2, <2>2
  <2> QED BY <2>3, <2>4
<1> QED BY <1>2, <1>5

(* The sums over all subsets of a finite set exist.                        *)
LEMMA AddsExists ==
    ASSUME NEW S, IsFiniteSet(S), NEW f
    PROVE  \E g : Adds(g, f, S)
<1>1. Cardinality(S) \in Nat
  BY FS_CardinalityType
<1>2. PICK g : AddsUpTo(g, f, S, Cardinality(S))
  BY <1>1, AddsUpToExists
<1>3. {t \in SUBSET S : Cardinality(t) <= Cardinality(S)} = SUBSET S
  BY FS_Subset
<1> QED BY <1>2, <1>3, Zenon DEF Adds, AddsUpTo

(* The sum the summary counts are checked against is one of those sums.    *)
LEMMA SumIsAdds ==
    ASSUME ConsistAssumption, NEW f
    PROVE  \E g : Adds(g, f, Clients) /\ Sum(f) = g[Clients]
<1>1. \E g : Adds(g, f, Clients)
  BY AddsExists DEF ConsistAssumption
<1> DEFINE h == CHOOSE g : Adds(g, f, Clients)
<1>2. Adds(h, f, Clients)
  BY <1>1
<1>3. Sum(f) = h[Clients]
  BY Zenon DEF Sum, MapThenSumSet, MapThenFoldSet, Adds
<1> QED BY <1>2, <1>3

(* Facts about two sums that differ at one client, or are ordered.         *)
LEMMA AddsFacts ==
    ASSUME NEW S, IsFiniteSet(S), NEW f \in [S -> Nat], NEW g, Adds(g, f, S)
    PROVE  /\ \A s \in SUBSET S : g[s] \in Nat
           /\ g[{}] = 0
           /\ \A s \in SUBSET S : s # {} => g[s] = f[CHOOSE x \in s : TRUE] + g[s \ {CHOOSE x \in s : TRUE}]
<1>1. \A s \in SUBSET S : g[s] = IF s = {} THEN 0 ELSE f[CHOOSE x \in s : TRUE] + g[s \ {CHOOSE x \in s : TRUE}]
  BY Zenon DEF Adds
<1> DEFINE I == {s \in SUBSET S : g[s] \in Nat}
<1>2. {} \in I
  BY <1>1
<1>3. \A s \in SUBSET S : s # {} /\ s \ {CHOOSE x \in s : TRUE} \in I => s \in I
  <2> SUFFICES ASSUME NEW s \in SUBSET S, s # {}, s \ {CHOOSE x \in s : TRUE} \in I
               PROVE  g[s] \in Nat
    OBVIOUS
  <2>1. (CHOOSE x \in s : TRUE) \in S
    OBVIOUS
  <2> QED BY <1>1, <2>1
<1>4. \A s \in SUBSET S : s \in I
  BY <1>2, <1>3, SubsetInduction, Zenon
<1> QED BY <1>1, <1>4

(* A smaller count at every client gives a smaller sum.                    *)
LEMMA AddsLeq ==
    ASSUME NEW S, IsFiniteSet(S), NEW e \in [S -> Nat], NEW f \in [S -> Nat],
           \A c \in S : e[c] <= f[c],
           NEW g, Adds(g, e, S), NEW h, Adds(h, f, S)
    PROVE  g[S] <= h[S]
<1> DEFINE I == {s \in SUBSET S : g[s] <= h[s]}
<1>1. {} \in I
  BY AddsFacts
<1>2. \A s \in SUBSET S : s # {} /\ s \ {CHOOSE x \in s : TRUE} \in I => s \in I
  <2> SUFFICES ASSUME NEW s \in SUBSET S, s # {}, s \ {CHOOSE x \in s : TRUE} \in I
               PROVE  g[s] <= h[s]
    OBVIOUS
  <2> DEFINE x == CHOOSE y \in s : TRUE
  <2>1. x \in S /\ s \ {x} \in SUBSET S /\ g[s \ {x}] <= h[s \ {x}]
    OBVIOUS
  <2>2. g[s] = e[x] + g[s \ {x}] /\ h[s] = f[x] + h[s \ {x}]
    BY AddsFacts
  <2>3. g[s \ {x}] \in Nat /\ h[s \ {x}] \in Nat /\ e[x] \in Nat /\ f[x] \in Nat /\ e[x] <= f[x]
    BY <2>1, AddsFacts
  <2> HIDE DEF x
  <2> QED BY <2>1, <2>2, <2>3
<1>3. \A s \in SUBSET S : s \in I
  BY <1>1, <1>2, SubsetInduction, Zenon
<1> QED BY <1>3

(* Counts that differ at one client give sums that differ as much.         *)
LEMMA AddsOne ==
    ASSUME NEW S, IsFiniteSet(S), NEW e \in [S -> Nat], NEW f \in [S -> Nat],
           NEW d \in S, \A c \in S \ {d} : e[c] = f[c],
           NEW g, Adds(g, e, S), NEW h, Adds(h, f, S)
    PROVE  g[S] + f[d] = h[S] + e[d]
<1> DEFINE I == {s \in SUBSET S : IF d \in s THEN g[s] + f[d] = h[s] + e[d] ELSE g[s] = h[s]}
<1>1. {} \in I
  BY AddsFacts
<1>2. \A s \in SUBSET S : s # {} /\ s \ {CHOOSE x \in s : TRUE} \in I => s \in I
  <2> SUFFICES ASSUME NEW s \in SUBSET S, s # {}, s \ {CHOOSE x \in s : TRUE} \in I
               PROVE  s \in I
    OBVIOUS
  <2> DEFINE x == CHOOSE y \in s : TRUE
  <2>1. x \in s /\ x \in S /\ s \ {x} \in SUBSET S /\ s \ {x} \in I
    OBVIOUS
  <2>2. g[s] = e[x] + g[s \ {x}] /\ h[s] = f[x] + h[s \ {x}]
    BY AddsFacts
  <2>3. /\ g[s \ {x}] \in Nat /\ h[s \ {x}] \in Nat /\ e[x] \in Nat /\ f[x] \in Nat
        /\ e[d] \in Nat /\ f[d] \in Nat
    BY <2>1, AddsFacts
  <2> HIDE DEF x
  <2>4. x = d \/ e[x] = f[x]
    BY <2>1
  <2>5. CASE d \in s /\ x = d
    <3>1. g[s \ {x}] = h[s \ {x}]
      BY <2>1, <2>5
    <3> QED BY <3>1, <2>2, <2>3, <2>5
  <2>6. CASE d \in s /\ x # d
    <3>1. g[s \ {x}] + f[d] = h[s \ {x}] + e[d]
      BY <2>1, <2>6
    <3> QED BY <3>1, <2>2, <2>3, <2>4, <2>6
  <2>7. CASE d \notin s
    <3>1. g[s \ {x}] = h[s \ {x}]
      BY <2>1, <2>7
    <3> QED BY <3>1, <2>1, <2>2, <2>3, <2>4, <2>7
  <2> QED BY <2>5, <2>6, <2>7
<1>3. \A s \in SUBSET S : s \in I
  BY <1>1, <1>2, SubsetInduction, Zenon
<1> QED BY <1>3

(* The sum of counts is a natural number.                                  *)
LEMMA SumType ==
    ASSUME ConsistAssumption, NEW f \in [Clients -> Nat]
    PROVE  Sum(f) \in Nat
BY SumIsAdds, AddsFacts DEF ConsistAssumption

(* A smaller count at every client of the list gives a smaller sum.        *)
LEMMA SumLeq ==
    ASSUME ConsistAssumption, NEW e \in [Clients -> Nat], NEW f \in [Clients -> Nat],
           \A c \in Clients : e[c] <= f[c]
    PROVE  Sum(e) <= Sum(f)
BY SumIsAdds, AddsLeq DEF ConsistAssumption

(* A change at one client of the list changes the sum as much.             *)
LEMMA SumOne ==
    ASSUME ConsistAssumption, NEW e \in [Clients -> Nat], NEW f \in [Clients -> Nat],
           NEW d \in Clients, \A c \in Clients \ {d} : e[c] = f[c]
    PROVE  Sum(e) + f[d] = Sum(f) + e[d]
BY SumIsAdds, AddsOne DEF ConsistAssumption

(* The count of one client is at most the sum.                             *)
LEMMA SumElement ==
    ASSUME ConsistAssumption, NEW f \in [Clients -> Nat], NEW d \in Clients
    PROVE  f[d] <= Sum(f)
<1> DEFINE e == [f EXCEPT ![d] = 0]
<1>1. e \in [Clients -> Nat] /\ e[d] = 0 /\ \A c \in Clients \ {d} : e[c] = f[c]
  OBVIOUS
<1> HIDE DEF e
<1>2. Sum(e) + f[d] = Sum(f) + e[d]
  BY <1>1, SumOne
<1>3. Sum(e) \in Nat /\ Sum(f) \in Nat /\ f[d] \in Nat
  BY <1>1, SumType
<1> QED BY <1>1, <1>2, <1>3

(* The sums of references and writers, now and after a step.               *)
LEMMA SumRefsNext ==
    /\ SumRefs = Sum([c \in Clients |-> entry[c].ref])
    /\ SumRefs' = Sum([c \in Clients |-> entry'[c].ref])
    /\ SumWrites = Sum([c \in Clients |-> entry[c].write])
    /\ SumWrites' = Sum([c \in Clients |-> entry'[c].write])
BY DEF SumRefs, SumWrites, Refs, Writes, Sum, MapThenSumSet, MapThenFoldSet

(* A change of one element of the client list changes the sums by as much. *)
LEMMA SumsOne ==
    ASSUME ConsistAssumption, EntryShape, EntryShape', NEW d \in Clients,
           \A c \in Clients \ {d} : entry'[c] = entry[c]
    PROVE  /\ SumRefs' + entry[d].ref = SumRefs + entry'[d].ref
           /\ SumWrites' + entry[d].write = SumWrites + entry'[d].write
<1> DEFINE e == [c \in Clients |-> entry[c].ref]
           f == [c \in Clients |-> entry'[c].ref]
           v == [c \in Clients |-> entry[c].write]
           w == [c \in Clients |-> entry'[c].write]
<1>1. e \in [Clients -> Nat] /\ f \in [Clients -> Nat] /\ v \in [Clients -> Nat] /\ w \in [Clients -> Nat]
  BY DEF EntryShape, NatEntry
<1>2. \A c \in Clients \ {d} : f[c] = e[c] /\ w[c] = v[c]
  OBVIOUS
<1>3. e[d] = entry[d].ref /\ f[d] = entry'[d].ref /\ v[d] = entry[d].write /\ w[d] = entry'[d].write
  OBVIOUS
<1>4. SumRefs = Sum(e) /\ SumRefs' = Sum(f) /\ SumWrites = Sum(v) /\ SumWrites' = Sum(w)
  BY SumRefsNext
<1> HIDE DEF e, f, v, w
<1>5. Sum(f) + e[d] = Sum(e) + f[d] /\ Sum(w) + v[d] = Sum(v) + w[d]
  BY <1>1, <1>2, SumOne
<1> QED BY <1>3, <1>4, <1>5

(* The sums go down when the counts of no client go up.                    *)
LEMMA SumsLeq ==
    ASSUME ConsistAssumption, EntryShape, EntryShape',
           \A c \in Clients : entry'[c].ref <= entry[c].ref /\ entry'[c].write <= entry[c].write
    PROVE  SumRefs' <= SumRefs /\ SumWrites' <= SumWrites
<1> DEFINE e == [c \in Clients |-> entry[c].ref]
           f == [c \in Clients |-> entry'[c].ref]
           v == [c \in Clients |-> entry[c].write]
           w == [c \in Clients |-> entry'[c].write]
<1>1. e \in [Clients -> Nat] /\ f \in [Clients -> Nat] /\ v \in [Clients -> Nat] /\ w \in [Clients -> Nat]
  BY DEF EntryShape, NatEntry
<1>2. \A c \in Clients : f[c] <= e[c] /\ w[c] <= v[c]
  OBVIOUS
<1>4. SumRefs = Sum(e) /\ SumRefs' = Sum(f) /\ SumWrites = Sum(v) /\ SumWrites' = Sum(w)
  BY SumRefsNext
<1> HIDE DEF e, f, v, w
<1>5. Sum(f) <= Sum(e) /\ Sum(w) <= Sum(v)
  BY <1>1, <1>2, SumLeq
<1> QED BY <1>4, <1>5

(* The sums are natural numbers that no client's counts exceed.            *)
LEMMA SumsType ==
    ASSUME ConsistAssumption, EntryShape
    PROVE  /\ SumRefs \in Nat /\ SumWrites \in Nat
           /\ \A c \in Clients : entry[c].ref <= SumRefs /\ entry[c].write <= SumWrites
<1> DEFINE e == [c \in Clients |-> entry[c].ref]
           v == [c \in Clients |-> entry[c].write]
<1>1. e \in [Clients -> Nat] /\ v \in [Clients -> Nat]
  BY DEF EntryShape, NatEntry
<1>2. \A c \in Clients : e[c] = entry[c].ref /\ v[c] = entry[c].write
  OBVIOUS
<1>3. SumRefs = Sum(e) /\ SumWrites = Sum(v)
  BY SumRefsNext
<1> HIDE DEF e, v
<1>4. Sum(e) \in Nat /\ Sum(v) \in Nat /\ \A c \in Clients : e[c] <= Sum(e) /\ v[c] <= Sum(v)
  BY <1>1, SumType, SumElement
<1> QED BY <1>2, <1>3, <1>4

(* The sums are natural numbers after a step that keeps the list's shape.  *)
LEMMA SumsTypeNext ==
    ASSUME ConsistAssumption, EntryShape'
    PROVE  SumRefs' \in Nat /\ SumWrites' \in Nat
<1>1. /\ [c \in Clients |-> entry'[c].ref] \in [Clients -> Nat]
      /\ [c \in Clients |-> entry'[c].write] \in [Clients -> Nat]
  BY DEF EntryShape, NatEntry
<1> QED BY <1>1, SumRefsNext, SumType, Zenon

(* The sums stay when the counts of every client do.                       *)
LEMMA SumsSame ==
    ASSUME ConsistAssumption, EntryShape, EntryShape',
           \A c \in Clients : entry'[c].ref = entry[c].ref /\ entry'[c].write = entry[c].write
    PROVE  SumRefs' = SumRefs /\ SumWrites' = SumWrites
<1>1. [c \in Clients |-> entry'[c].ref] = [c \in Clients |-> entry[c].ref]
  OBVIOUS
<1>2. [c \in Clients |-> entry'[c].write] = [c \in Clients |-> entry[c].write]
  OBVIOUS
<1> QED BY <1>1, <1>2, SumRefsNext, Zenon

(* Every process is on a workstation.                                      *)
LEMMA HostType == ASSUME ConsistAssumption, NEW p \in Procs PROVE Host[p] \in Clients
BY DEF ConsistAssumption

(* None is neither a workstation nor a process.                            *)
LEMMA NoneApart == ASSUME ConsistAssumption PROVE None \notin Clients /\ None \notin Procs
BY DEF ConsistAssumption

(* Types, structure and bounds hold at the start.                          *)
LEMMA InitTypes == ASSUME ConsistAssumption, Init PROVE TInv
<1>1. Shape
  BY DEF Init, Shape, ServerShape, ProcShape, ClientShape, HistoryShape, EntryShape,
         NatEntry, NoEntry, NoHandle, NoAction, NoCmd, NoGrant, Phases, States, Modes,
         Commands, ConsistAssumption
<1>2. Structure
  BY NoneApart DEF Init, Structure, ActionTied, CmdTied, Unlisted, ModeTied, NoAction, NoCmd, NoEntry
<1>3. Sent = {} /\ Entering = {} /\ WEntering = {}
  BY DEF Init, Sent, Entering, WEntering
<1>4. SumRefs = 0 /\ SumWrites = 0
  <2> DEFINE e == [c \in Clients |-> 0]
  <2>1. [c \in Clients |-> entry[c].ref] = e /\ [c \in Clients |-> entry[c].write] = e
    BY DEF Init, NoEntry
  <2>2. SumRefs = Sum(e) /\ SumWrites = Sum(e)
    BY <2>1, SumRefsNext, Zenon
  <2>3. e \in [Clients -> Nat] /\ \A c \in Clients : e[c] = 0
    OBVIOUS
  <2> HIDE DEF e
  <2>4. PICK g : Adds(g, e, Clients) /\ Sum(e) = g[Clients]
    BY SumIsAdds
  <2> DEFINE I == {s \in SUBSET Clients : g[s] = 0}
  <2>5. {} \in I
    BY <2>3, <2>4, AddsFacts DEF ConsistAssumption
  <2>6. \A s \in SUBSET Clients : s # {} /\ s \ {CHOOSE x \in s : TRUE} \in I => s \in I
    <3> SUFFICES ASSUME NEW s \in SUBSET Clients, s # {}, s \ {CHOOSE x \in s : TRUE} \in I
                 PROVE  g[s] = 0
      OBVIOUS
    <3>1. g[s] = e[CHOOSE x \in s : TRUE] + g[s \ {CHOOSE x \in s : TRUE}]
      BY <2>3, <2>4, AddsFacts DEF ConsistAssumption
    <3>2. (CHOOSE x \in s : TRUE) \in Clients
      OBVIOUS
    <3> QED BY <3>1, <3>2, <2>3
  <2>7. \A s \in SUBSET Clients : s \in I
    BY <2>5, <2>6, SubsetInduction, ZenonT(60) DEF ConsistAssumption
  <2> QED BY <2>2, <2>4, <2>7
<1>5. Cardinality({}) = 0
  BY FS_EmptySet
<1> QED
  BY <1>1, <1>2, <1>3, <1>4, <1>5
  DEF TInv, Bounds, Opened, Timed, Stamped, Summed, Init, NoEntry, NoHandle, NoAction, NoCmd,
      NoGrant, One

(* The sets of opens under way are finite.                                 *)
LEMMA CardTypes ==
    ASSUME ConsistAssumption
    PROVE  /\ IsFiniteSet(Sent) /\ IsFiniteSet(Entering) /\ IsFiniteSet(WEntering)
           /\ Cardinality(Sent) \in Nat /\ Cardinality(Entering) \in Nat
           /\ Cardinality(WEntering) \in Nat
<1>1. Sent \subseteq Procs /\ Entering \subseteq Procs /\ WEntering \subseteq Procs
  BY DEF Sent, Entering, WEntering
<1>2. IsFiniteSet(Sent) /\ IsFiniteSet(Entering) /\ IsFiniteSet(WEntering)
  BY <1>1, FS_Subset DEF ConsistAssumption
<1> QED BY <1>2, FS_CardinalityType

(* One more element counts one more.                                       *)
LEMMA CardAdd ==
    ASSUME NEW S, IsFiniteSet(S), NEW x, x \notin S
    PROVE  Cardinality(S \cup {x}) = Cardinality(S) + 1
BY FS_AddElement

(* One element less counts one less.                                       *)
LEMMA CardRemove ==
    ASSUME NEW S, IsFiniteSet(S), NEW x \in S
    PROVE  Cardinality(S \ {x}) = Cardinality(S) - 1
BY FS_RemoveElement

(* Types, structure and bounds survive sending an open.                    *)
LEMMA OpenSendTypes ==
    ASSUME ConsistAssumption, TInv, NEW p \in Procs, NEW m \in Modes, OpenSend(p, m)
    PROVE  TInv'
<1> USE DEF TInv
<1>1. Shape'
  BY DEF OpenSend, Shape, ServerShape, ProcShape, ClientShape, HistoryShape, EntryShape,
         serverVars, clientVars, history, States, Modes, ConsistAssumption
<1>2. Structure'
  BY DEF OpenSend, Structure, ActionTied, CmdTied, Unlisted, ModeTied, Shape, ProcShape, serverVars, Modes
<1>3. Sent' = Sent \cup {p} /\ p \notin Sent /\ Entering' = Entering /\ WEntering' = WEntering
  BY DEF OpenSend, Sent, Entering, WEntering, Shape, ProcShape, serverVars
<1>4. Cardinality(Sent)' = Cardinality(Sent) + 1
  BY <1>3, CardTypes, FS_AddElement
<1>5. SumRefs' = SumRefs /\ SumWrites' = SumWrites
  BY SumsSame, <1>1 DEF OpenSend, serverVars, Shape, ServerShape
<1> QED
  BY <1>1, <1>2, <1>3, <1>4, <1>5, CardTypes
  DEF OpenSend, Bounds, Opened, Timed, Stamped, Summed, Shape, ServerShape, ProcShape,
      serverVars, clientVars

(* Steps that change no count of opens and raise no count of the list.     *)
LEMMA QuietCounts ==
    ASSUME ConsistAssumption, TInv, Shape', UNCHANGED <<version, use, openTimeStamp, opens>>,
           Sent' = Sent, Entering' = Entering, WEntering' = WEntering,
           \A c \in Clients : entry'[c].ref <= entry[c].ref /\ entry'[c].write <= entry[c].write
    PROVE  Opened' /\ Summed'
<1>1. SumRefs' <= SumRefs /\ SumWrites' <= SumWrites
  BY SumsLeq DEF TInv, Shape, ServerShape
<1>2. SumRefs' \in Nat /\ SumWrites' \in Nat /\ SumRefs \in Nat /\ SumWrites \in Nat
  BY SumsType, SumsTypeNext DEF TInv, Shape, ServerShape
<1> QED
  BY <1>1, <1>2, CardTypes DEF TInv, Bounds, Opened, Summed, Shape, ServerShape, ProcShape

(* Steps that move no process and no action keep the opens under way.      *)
LEMMA QuietSets ==
    ASSUME UNCHANGED <<pc, mode>>, action'.phase = "wait" <=> action.phase = "wait"
    PROVE  Sent' = Sent /\ Entering' = Entering /\ WEntering' = WEntering
BY DEF Sent, Entering, WEntering

(* The server's part of the types follows when its state stays.            *)
LEMMA ServerSame ==
    ASSUME TInv, UNCHANGED serverVars
    PROVE  ServerShape' /\ Timed' /\ Unlisted'
BY DEF TInv, Shape, ServerShape, EntryShape, serverVars, Bounds, Timed, Structure, Unlisted

(* The processes' part of the types follows when their state stays.        *)
LEMMA ProcSame ==
    ASSUME TInv, UNCHANGED procVars
    PROVE  ProcShape' /\ ModeTied'
BY DEF TInv, Shape, ProcShape, procVars, Structure, ModeTied

(* The workstations' part of the types follows when their state stays.     *)
LEMMA ClientSame ==
    ASSUME TInv, UNCHANGED clientVars
    PROVE  ClientShape'
BY DEF TInv, Shape, ClientShape, clientVars

(* The histories' part of the types follows when they stay.                *)
LEMMA HistorySame ==
    ASSUME TInv, UNCHANGED history
    PROVE  HistoryShape'
BY DEF TInv, Shape, HistoryShape, history

(* Types, structure and bounds survive counting an open and changing the   *)
(* version (Fsio_FileNameOpen).                                            *)
LEMMA NameOpenTypes ==
    ASSUME ConsistAssumption, TInv, NEW p \in Procs, NameOpen(p)
    PROVE  TInv'
<1>0. One(mode[p] = "write") \in {0, 1}
  BY DEF One
<1>1. ServerShape'
  BY <1>0 DEF NameOpen, TInv, Shape, ServerShape, EntryShape
<1>2. ProcShape'
  BY DEF NameOpen, TInv, Shape, ProcShape, States
<1>3. ClientShape' /\ HistoryShape'
  BY ClientSame, HistorySame DEF NameOpen
<1>4. Structure'
  BY DEF NameOpen, TInv, Structure, ActionTied, CmdTied, Unlisted, ModeTied, Shape, ProcShape
<1>5. /\ Sent' = Sent \ {p} /\ p \in Sent
      /\ Entering' = Entering \cup {p} /\ p \notin Entering /\ p \notin WEntering
      /\ WEntering' = IF mode[p] = "write" THEN WEntering \cup {p} ELSE WEntering
  BY DEF NameOpen, Sent, Entering, WEntering, TInv, Shape, ProcShape
<1>6. /\ Cardinality(Sent') = Cardinality(Sent) - 1
      /\ Cardinality(Entering') = Cardinality(Entering) + 1
      /\ Cardinality(WEntering') = Cardinality(WEntering) + One(mode[p] = "write")
  <2>1. Cardinality(Sent') = Cardinality(Sent) - 1
    BY <1>5, CardTypes, CardRemove
  <2>2. Cardinality(Entering') = Cardinality(Entering) + 1
    BY <1>5, CardTypes, CardAdd
  <2>3. Cardinality(WEntering') = Cardinality(WEntering) + One(mode[p] = "write")
    <3>1. CASE mode[p] = "write"
      BY <3>1, <1>5, CardTypes, CardAdd DEF One
    <3>2. CASE mode[p] # "write"
      BY <3>2, <1>5, CardTypes DEF One
    <3> QED BY <3>1, <3>2
  <2> QED BY <2>1, <2>2, <2>3
<1>7. SumRefs' = SumRefs /\ SumWrites' = SumWrites
  BY SumsSame, <1>1 DEF NameOpen, ServerShape, TInv, Shape
<1>8. One(mode[p] = "write") \in 0 .. 1
  BY DEF One
<1>9. Opened' /\ Summed'
  BY <1>6, <1>7, <1>8, CardTypes, SumsType
  DEF NameOpen, TInv, Bounds, Opened, Summed, Shape, ServerShape, ProcShape
<1>10. Timed' /\ Stamped'
  BY <1>8 DEF NameOpen, TInv, Bounds, Timed, Stamped, Shape, ServerShape, ProcShape, ClientShape,
      EntryShape, NatEntry, clientVars
<1> QED BY <1>1, <1>2, <1>3, <1>4, <1>9, <1>10 DEF TInv, Shape, Bounds

(* Types, structure and bounds survive starting a consistency action.      *)
LEMMA StartConsistencyTypes ==
    ASSUME ConsistAssumption, TInv, NEW p \in Procs, StartConsistency(p)
    PROVE  TInv'
<1> DEFINE others == {c \in Clients \ {Host[p]} : entry[c].listed}
<1>a. PICK n \in Successors(others) :
        action' = [NoAction EXCEPT !.by = p, !.phase = "visit",
                          !.cacheable = Cacheable(p), !.todo = others, !.next = n]
  BY DEF StartConsistency
<1>b. /\ action'.by = p /\ action'.phase = "visit" /\ action'.todo = others /\ action'.next = n
      /\ action'.cacheable = Cacheable(p) /\ action'.error = FALSE /\ action'.armed = FALSE
      /\ action' = [by |-> p, phase |-> "visit", cacheable |-> Cacheable(p), todo |-> others,
                    next |-> n, error |-> FALSE, armed |-> FALSE]
  BY <1>a DEF NoAction
<1>c. n \in others \cup {None} /\ (n = None => others = {})
  BY NoneApart DEF Successors
<1>d. action.phase = "none" /\ action.by = None /\ action.armed = FALSE /\ action = NoAction
  BY DEF StartConsistency, InProgress, NoAction
<1>e. \A q \in Procs : pc[q] # "consist"
  BY <1>d, NoneApart DEF TInv, Structure, ActionTied
<1>f. /\ pc[p] = "named" /\ pc' = [pc EXCEPT ![p] = "consist"]
      /\ UNCHANGED <<version, use, entry, lastWriter, msgs, openTimeStamp, cmd,
                   late, mode, grant, opens, clientVars, history>>
  BY DEF StartConsistency
<1>1. ServerShape'
  <2>1. Cacheable(p) \in BOOLEAN
    BY <1>f DEF Cacheable
  <2>2. others \subseteq Clients
    OBVIOUS
  <2> HIDE DEF others
  <2> QED BY <1>f, <1>b, <1>c, <2>1, <2>2 DEF TInv, Shape, ServerShape, EntryShape, Phases
<1>2. ProcShape'
  BY <1>f DEF TInv, Shape, ProcShape, States
<1>3. ClientShape' /\ HistoryShape'
  BY <1>f, ClientSame, HistorySame
<1>4. Structure'
  <2>1. ActionTied'
    <3>1. \A q \in Procs : pc'[q] = "consist" <=> action'.by = q
      BY <1>f, <1>b, <1>e DEF TInv, Shape, ProcShape
    <3>2. action'.phase # "none" /\ action' # NoAction /\ action'.by # None
      BY <1>b, NoneApart DEF NoAction
    <3>3. action'.next \in action'.todo \cup {None} /\ (action'.next = None => action'.todo = {})
      BY <1>b, <1>c
    <3>4. Host[action'.by] \notin action'.todo
      BY <1>b
    <3> QED BY <3>1, <3>2, <3>3, <3>4, <1>b DEF ActionTied
  <2>2. CmdTied' /\ Unlisted' /\ ModeTied'
    <3>1. cmd = NoCmd /\ cmd' = cmd
      BY <1>f, <1>d DEF TInv, Structure, CmdTied
    <3>2. CmdTied'
      BY <3>1, <1>b DEF CmdTied
    <3>3. Unlisted' /\ ModeTied'
      BY <1>f DEF Unlisted, ModeTied, TInv, Structure, Shape, ProcShape
    <3> QED BY <3>2, <3>3
  <2> QED BY <2>1, <2>2 DEF Structure
<1>5. Sent' = Sent /\ Entering' = Entering /\ WEntering' = WEntering
  BY <1>f, <1>b, <1>e DEF Sent, Entering, WEntering, TInv, Shape, ProcShape
<1>6. Opened' /\ Summed'
  BY <1>f, <1>1, <1>2, <1>3, <1>5, QuietCounts DEF Shape, TInv, ServerShape, EntryShape, NatEntry
<1>7. Timed' /\ Stamped'
  BY <1>f, <1>b, <1>d DEF TInv, Bounds, Timed, Stamped, clientVars, One
<1> QED BY SMTT(60), <1>f, <1>1, <1>2, <1>3, <1>4, <1>6, <1>7 DEF TInv, Shape, Bounds

(* What the steps of the monitor do, spelled out.                          *)
LEMMA ActionFacts ==
    ASSUME ConsistAssumption, TInv
    PROVE  /\ action.phase # "none" => action.by \in Procs /\ Host[action.by] \in Clients /\ pc[action.by] = "consist"
           /\ action.next # None => action.next \in Clients /\ action.next \in action.todo
           /\ action.next = None => action.todo = {}
           /\ action.todo \subseteq Clients
           /\ \A p \in Procs : pc[p] = "consist" => action.by = p /\ action.phase # "none"
           /\ ~InProgress <=> action.phase = "none"
<1>1. action.by \in Procs \cup {None} /\ action.next \in Clients \cup {None} /\ action.todo \subseteq Clients
  BY DEF TInv, Shape, ServerShape
<1> QED BY <1>1, HostType, NoneApart DEF TInv, Structure, ActionTied, InProgress

(* The record of the action in progress has its fields and no others.      *)
LEMMA ActionRecord ==
    ASSUME TInv
    PROVE  action \in [by : Procs \cup {None}, phase : Phases, cacheable : BOOLEAN,
                   todo : SUBSET Clients, next : Clients \cup {None},
                   error : BOOLEAN, armed : BOOLEAN]
BY DEF TInv, Shape, ServerShape

(* What a turn of the walk over the client list does, spelled out.         *)
LEMMA VisitEffect ==
    ASSUME ConsistAssumption, TInv, VisitClient
    PROVE  VisitFacts
<1> DEFINE rest == {d \in action.todo \ {action.next} : entry[d].listed}
           op == CommandFor(action.next)
<1>1. action.phase = "visit" /\ action.next \in Clients /\ action.next \in action.todo
  BY ActionFacts DEF VisitClient, MonitorHeld
<1>2. PICK n \in Successors(rest) :
         action' = [action EXCEPT !.todo = rest, !.next = n,
                             !.phase = IF op = {} THEN "visit" ELSE "command"]
  BY DEF VisitClient
<1>3. n \in rest \cup {None} /\ (n = None => rest = {}) /\ rest \subseteq Clients
  BY NoneApart, ActionFacts DEF Successors
<1> HIDE DEF rest, op
<1>4. /\ action'.by = action.by /\ action'.cacheable = action.cacheable
      /\ action'.error = action.error /\ action'.armed = action.armed
      /\ action'.todo = rest /\ action'.next = n
      /\ action'.phase = IF op = {} THEN "visit" ELSE "command"
  BY <1>2, ActionRecord
<1>5. action' \in [by : Procs \cup {None}, phase : Phases, cacheable : BOOLEAN,
                   todo : SUBSET Clients, next : Clients \cup {None},
                   error : BOOLEAN, armed : BOOLEAN]
  <2>1. (IF op = {} THEN "visit" ELSE "command") \in Phases
    BY DEF Phases
  <2> QED BY <1>2, <1>3, <2>1, ActionRecord
<1> USE DEF rest, op
<1>6. msgs \in [Clients -> SUBSET Commands]
  BY DEF TInv, Shape, ServerShape
<1>7. /\ msgs' = [msgs EXCEPT ![action.next] = IF op = {} THEN @ ELSE op]
      /\ cmd' = IF op = {} THEN cmd
                ELSE [client |-> action.next, op |-> op, stamp |-> entry[action.next].stamp,
                           version |-> version, answer |-> "none"]
      /\ discarded' = IF lastWriter = action.next /\ entry[action.next].write = 0 /\ ~action.cacheable
                           THEN discarded \cup {action.next} ELSE discarded
      /\ UNCHANGED <<version, use, entry, lastWriter, openTimeStamp, late,
                   procVars, clientVars, fresh, trouble, misled>>
  BY DEF VisitClient
<1>8. op = {} => msgs' = msgs
  BY <1>6, <1>7
<1> QED BY <1>1, <1>3, <1>4, <1>5, <1>7, <1>8 DEF VisitFacts

(* The commands of the walk.                                               *)
LEMMA CommandForType ==
    ASSUME NEW c \in Clients
    PROVE  /\ CommandFor(c) \subseteq Commands
           /\ CommandFor(c) # {} => entry[c].cached
BY DEF CommandFor, Commands

(* Types, structure and bounds survive a turn of the walk over the client  *)
(* list.                                                                   *)
LEMMA VisitClientTypes ==
    ASSUME ConsistAssumption, TInv, VisitClient
    PROVE  TInv'
<1>e. VisitFacts
  BY VisitEffect
<1>0. action.phase = "visit" /\ action.by \in Procs /\ action.by # None /\ action.armed = FALSE
      /\ Host[action.by] \notin action.todo /\ ~(action.phase = "command")
  BY <1>e, ActionFacts, NoneApart, ActionRecord DEF TInv, Structure, ActionTied, VisitFacts
<1>1. ServerShape'
  BY <1>e, CommandForType DEF TInv, Shape, ServerShape, EntryShape, NatEntry, VisitFacts
<1>2. ProcShape' /\ ModeTied'
  BY ProcSame, <1>e DEF VisitFacts
<1>3. ClientShape' /\ HistoryShape'
  BY ClientSame, <1>e DEF TInv, Shape, HistoryShape, VisitFacts
<1>4. ActionTied'
  <2>1. action'.phase \in {"visit", "command"}
    BY <1>e DEF VisitFacts
  <2>2. action'.phase # "none" /\ action' # NoAction /\ action'.armed = FALSE
    BY <2>1, <1>0, <1>e DEF NoAction, VisitFacts
  <2> QED BY <2>1, <2>2, <1>0, <1>e, NoneApart DEF ActionTied, TInv, Structure, procVars, VisitFacts
<1>5. CmdTied'
  BY <1>0, <1>e DEF CmdTied, TInv, Structure, NoCmd, VisitFacts
<1>6. Unlisted'
  BY <1>e DEF TInv, Structure, Unlisted, VisitFacts
<1>7. Sent' = Sent /\ Entering' = Entering /\ WEntering' = WEntering
  BY <1>0, <1>e, QuietSets DEF procVars, VisitFacts
<1>8. Opened' /\ Summed'
  BY <1>1, <1>2, <1>3, <1>7, QuietCounts, <1>e DEF TInv, Shape, procVars, ServerShape, EntryShape, NatEntry, VisitFacts
<1>9. Timed' /\ Stamped'
  BY <1>e DEF TInv, Bounds, Timed, Stamped, clientVars, procVars, Shape, ServerShape, VisitFacts
<1> QED BY <1>1, <1>2, <1>3, <1>4, <1>5, <1>6, <1>8, <1>9 DEF TInv, Shape, Bounds, Structure

(* Types, structure and bounds survive a callback that times out.          *)
LEMMA CommandTimeoutTypes ==
    ASSUME ConsistAssumption, TInv, CommandTimeout
    PROVE  TInv'
<1>1. ServerShape'
  BY DEF CommandTimeout, TInv, Shape, ServerShape, EntryShape
<1>2. ProcShape' /\ ModeTied'
  BY ProcSame DEF CommandTimeout
<1>3. ClientShape' /\ HistoryShape'
  BY ClientSame, HistorySame DEF CommandTimeout
<1>4. cmd'.client = cmd.client /\ cmd'.op = cmd.op /\ cmd'.stamp = cmd.stamp /\ cmd'.version = cmd.version
  BY DEF CommandTimeout, TInv, Shape, ServerShape
<1>5. Structure'
  BY <1>2, <1>4 DEF CommandTimeout, TInv, Structure, ActionTied, CmdTied, Unlisted, procVars
<1>6. Sent' = Sent /\ Entering' = Entering /\ WEntering' = WEntering
  BY QuietSets DEF procVars, CommandTimeout
<1>7. Opened' /\ Summed'
  BY <1>1, <1>2, <1>3, <1>6, QuietCounts DEF CommandTimeout, TInv, Shape, procVars, ServerShape, EntryShape, NatEntry
<1>8. Timed' /\ Stamped'
  BY <1>4 DEF CommandTimeout, TInv, Bounds, Timed, Stamped, clientVars, procVars
<1> QED BY <1>1, <1>2, <1>3, <1>5, <1>7, <1>8 DEF TInv, Shape, Bounds

(* What a kill does to the client list (Fsconsist_IOClientKill).           *)
LEMMA KillEffect ==
    ASSUME TInv, NEW c \in Clients, entry' = IOClientKill(c)
    PROVE  /\ EntryShape' /\ Unlisted'
           /\ \A d \in Clients \ {c} : entry'[d] = entry[d]
           /\ entry'[c].ref = 0 /\ entry'[c].write = 0
           /\ entry'[c].stamp <= entry[c].stamp
           /\ entry'[c].cached => entry[c].cached
           /\ action.next # c => entry'[c] = NoEntry
<1>1. entry \in [Clients -> NatEntry]
  BY DEF TInv, Shape, ServerShape, EntryShape
<1>2. \A d \in Clients \ {c} : entry'[d] = entry[d]
  BY <1>1 DEF IOClientKill
<1>3. entry'[c] = IF action.next = c THEN [entry[c] EXCEPT !.ref = 0, !.write = 0] ELSE NoEntry
  BY <1>1 DEF IOClientKill
<1>4. NoEntry \in NatEntry /\ NoEntry.ref = 0 /\ NoEntry.write = 0 /\ NoEntry.stamp = 0 /\ NoEntry.cached = FALSE
      /\ NoEntry.listed = FALSE
  BY DEF NoEntry, NatEntry
<1>5. entry[c] \in NatEntry
  BY <1>1
<1>9. ASSUME NEW e \in NatEntry, NEW f, f = [e EXCEPT !.ref = 0, !.write = 0]
      PROVE  /\ f \in NatEntry /\ f.ref = 0 /\ f.write = 0
             /\ f.stamp = e.stamp /\ f.cached = e.cached /\ f.listed = e.listed
  BY <1>9 DEF NatEntry
<1>8. entry' = [d \in Clients |-> entry'[d]]
  BY <1>1 DEF IOClientKill
<1>6. CASE action.next = c
  <2>1. entry'[c] = [entry[c] EXCEPT !.ref = 0, !.write = 0]
    BY <1>3, <1>6
  <2>2. /\ entry'[c] \in NatEntry /\ entry'[c].ref = 0 /\ entry'[c].write = 0
        /\ entry'[c].stamp = entry[c].stamp /\ entry'[c].cached = entry[c].cached
        /\ entry'[c].listed = entry[c].listed
    BY <2>1, <1>5, <1>9
  <2>3. ~entry[c].listed => entry'[c] = NoEntry
    <3>1. ~entry[c].listed => entry[c] = NoEntry
      BY DEF TInv, Structure, Unlisted
    <3>2. ASSUME NEW e \in NatEntry, e.listed = FALSE, e.ref = 0, e.write = 0, e.cached = FALSE, e.stamp = 0
          PROVE  e = NoEntry
      BY <3>2 DEF NatEntry, NoEntry
    <3> QED BY <1>4, <2>2, <3>1, <3>2
  <2>4. entry' \in [Clients -> NatEntry]
    BY <1>1, <1>2, <1>8, <2>2
  <2>5. Unlisted'
    BY <1>2, <2>2, <2>3 DEF TInv, Structure, Unlisted
  <2> QED BY <1>2, <1>5, <1>6, <2>2, <2>4, <2>5 DEF EntryShape, NatEntry
<1>7. CASE action.next # c
  <2>1. entry'[c] = NoEntry
    BY <1>3, <1>7
  <2>2. entry' \in [Clients -> NatEntry]
    BY <1>1, <1>2, <1>4, <1>8, <2>1
  <2>3. Unlisted'
    BY <1>2, <2>1 DEF TInv, Structure, Unlisted
  <2> QED BY <1>2, <1>4, <1>5, <1>7, <2>1, <2>2, <2>3 DEF EntryShape, NatEntry
<1> QED BY <1>6, <1>7

(* What is left of a process that is through with its stream.              *)
LEMMA FinishEffect ==
    ASSUME TInv, NEW ps \in SUBSET Procs, NEW where \in {"idle", "dead"}, Finish(ps, where)
    PROVE  /\ pc' \in [Procs -> States] /\ mode' \in [Procs -> Modes \cup {"none"}]
           /\ grant' \in [Procs -> [cacheable : BOOLEAN, stamp : Nat, version : Nat]]
           /\ \A q \in ps : pc'[q] = where /\ mode'[q] = "none" /\ grant'[q] = NoGrant
           /\ \A q \in Procs \ ps : pc'[q] = pc[q] /\ mode'[q] = mode[q] /\ grant'[q] = grant[q]
           /\ ModeTied'
<1>1. /\ \A q \in ps : pc'[q] = where /\ mode'[q] = "none" /\ grant'[q] = NoGrant
      /\ \A q \in Procs \ ps : pc'[q] = pc[q] /\ mode'[q] = mode[q] /\ grant'[q] = grant[q]
  BY DEF Finish
<1>2. NoGrant \in [cacheable : BOOLEAN, stamp : Nat, version : Nat] /\ where \in States
  BY DEF NoGrant, States
<1>3. pc' \in [Procs -> States] /\ mode' \in [Procs -> Modes \cup {"none"}]
      /\ grant' \in [Procs -> [cacheable : BOOLEAN, stamp : Nat, version : Nat]]
  BY <1>2 DEF Finish, TInv, Shape, ProcShape
<1>4. ModeTied'
  BY <1>1 DEF TInv, Structure, ModeTied
<1> QED BY <1>1, <1>3, <1>4

(* A process that is through is idle, or dead with its workstation.        *)
LEMMA IdleOrDeadType == ASSUME NEW p PROVE IdleOrDead(p) \in {"idle", "dead"}
BY DEF IdleOrDead

(* Finish touches no process between sent and granted.                     *)
LEMMA FinishSets ==
    ASSUME TInv, NEW ps \in SUBSET Procs, NEW where \in {"idle", "dead"}, Finish(ps, where),
           \A q \in ps : pc[q] \notin {"sent", "named", "consist"},
           action'.phase = "wait" <=> action.phase = "wait"
    PROVE  Sent' = Sent /\ Entering' = Entering /\ WEntering' = WEntering
BY FinishEffect DEF Sent, Entering, WEntering

(* What the end of a callback (ClientCommand) does, spelled out.           *)
LEMMA CommandDoneEffect ==
    ASSUME ConsistAssumption, TInv, CommandDone
    PROVE  DoneFacts
BY ActionRecord, NoneApart DEF CommandDone, Kill, TInv, Structure, CmdTied, ActionTied, DoneFacts

(* Types, structure and bounds survive the end of a callback               *)
(* (ClientCommand).                                                        *)
LEMMA CommandDoneTypes ==
    ASSUME ConsistAssumption, TInv, CommandDone
    PROVE  TInv'
<1>e. DoneFacts
  BY CommandDoneEffect
<1>0. /\ action.by \in Procs /\ action.by # None /\ action.armed = FALSE /\ action.phase # "none"
      /\ action'.phase # "wait" /\ action.phase # "wait"
  BY <1>e, ActionFacts, NoneApart, ActionRecord DEF TInv, Structure, ActionTied, DoneFacts
<1>1. EntryShape' /\ Unlisted' /\ \A c \in Clients : /\ entry'[c].ref <= entry[c].ref
                                      /\ entry'[c].write <= entry[c].write
                                      /\ entry'[c].stamp <= entry[c].stamp
  <2>1. EntryShape /\ Unlisted
    BY DEF TInv, Shape, ServerShape, Structure
  <2>2. CASE cmd.answer = "ok"
    BY <2>1, <2>2, <1>e DEF EntryShape, NatEntry, Unlisted, DoneFacts
  <2>3. CASE cmd.answer # "ok"
    <3>1. cmd.client \in Clients /\ entry' = IOClientKill(cmd.client)
      BY <2>3, <1>e DEF DoneFacts
    <3>2. EntryShape' /\ Unlisted' /\ entry'[cmd.client].ref = 0 /\ entry'[cmd.client].write = 0
          /\ entry'[cmd.client].stamp <= entry[cmd.client].stamp
          /\ \A d \in Clients \ {cmd.client} : entry'[d] = entry[d]
      BY <3>1, KillEffect
    <3> QED BY <2>1, <3>1, <3>2 DEF EntryShape, NatEntry
  <2> QED BY <2>2, <2>3
<1>2. ServerShape'
  <2>1. action' \in [by : Procs \cup {None}, phase : Phases, cacheable : BOOLEAN,
                   todo : SUBSET Clients, next : Clients \cup {None},
                   error : BOOLEAN, armed : BOOLEAN]
    BY ActionRecord, <1>e DEF Phases, DoneFacts
  <2>2. lastWriter' \in Clients \cup {None} /\ msgs' \in [Clients -> SUBSET Commands]
    BY <1>e DEF TInv, Shape, ServerShape, DoneFacts
  <2>3. cmd' \in [client : Clients \cup {None}, op : SUBSET Commands, stamp : Nat,
                version : Nat, answer : {"none", "ok", "stale", "timeout"}]
    BY <1>e DEF NoCmd, DoneFacts
  <2> QED BY <1>1, <2>1, <2>2, <2>3, <1>e DEF TInv, Shape, ServerShape, DoneFacts
<1>3. ProcShape' /\ ModeTied' /\ ClientShape'
  BY ProcSame, ClientSame, <1>e DEF DoneFacts
<1>4. HistoryShape'
  BY <1>e DEF TInv, Shape, HistoryShape, DoneFacts
<1>5. ActionTied'
  <2>1. action' # NoAction
    BY <1>e DEF NoAction, DoneFacts
  <2> QED BY <1>0, <2>1, <1>e DEF ActionTied, TInv, Structure, procVars, DoneFacts
<1>6. CmdTied'
  BY <1>e DEF CmdTied, DoneFacts
<1>7. Sent' = Sent /\ Entering' = Entering /\ WEntering' = WEntering
  BY <1>0, QuietSets, <1>e DEF procVars, DoneFacts
<1>8. Opened' /\ Summed'
  BY <1>1, <1>2, <1>3, <1>4, <1>7, QuietCounts, <1>e DEF Shape, procVars, DoneFacts
<1>9. Timed' /\ Stamped'
  <2>1. NoCmd.stamp = 0 /\ NoCmd.version = 0
    BY DEF NoCmd
  <2>2. \A c \in Clients : entry'[c].stamp \in Nat /\ entry[c].stamp \in Nat
    BY <1>1 DEF EntryShape, NatEntry, TInv, Shape, ServerShape
  <2> QED BY <1>1, <2>1, <2>2, <1>e
      DEF TInv, Bounds, Timed, Stamped, clientVars, procVars, Shape, ServerShape, DoneFacts
<1> QED BY <1>1, <1>2, <1>3, <1>4, <1>5, <1>6, <1>8, <1>9 DEF TInv, Shape, Bounds, Structure

(* What listing the opener (UpdateList) does, spelled out.                 *)
LEMMA UpdateEffect ==
    ASSUME ConsistAssumption, TInv, UpdateList
    PROVE  UpdateFacts
<1>1. /\ action.by \in Procs /\ Host[action.by] \in Clients /\ pc[action.by] = "consist"
      /\ action.phase = "visit" /\ action.next = None /\ action.todo = {}
  BY ActionFacts DEF UpdateList, MonitorHeld
<1> DEFINE p == action.by
           c == Host[p]
           e == [listed |-> TRUE, ref |-> entry[c].ref + 1, write |-> entry[c].write + One(mode[p] = "write"),
                 cached |-> action.cacheable, stamp |-> openTimeStamp + 1]
           g == [cacheable |-> action.cacheable, stamp |-> openTimeStamp + 1, version |-> 0]
<1>2. entry' = [entry EXCEPT ![c] = e] /\ openTimeStamp' = openTimeStamp + 1
  BY DEF UpdateList, IOClientOpen
<1>3. grant' = [grant EXCEPT ![p] = g]
  BY DEF UpdateList
<1>4. entry \in [Clients -> NatEntry] /\ entry[c] \in NatEntry /\ openTimeStamp \in Nat
      /\ action.cacheable \in BOOLEAN
      /\ grant \in [Procs -> [cacheable : BOOLEAN, stamp : Nat, version : Nat]]
  BY <1>1, ActionRecord DEF TInv, Shape, ServerShape, EntryShape, ProcShape
<1>5. One(mode[p] = "write") \in Nat
  BY DEF One
<1>6. e \in NatEntry
  BY <1>4, <1>5 DEF NatEntry
<1>7. g \in [cacheable : BOOLEAN, stamp : Nat, version : Nat]
  BY <1>4
<1>8. entry'[c] = e /\ EntryShape' /\ \A d \in Clients \ {c} : entry'[d] = entry[d]
  BY <1>1, <1>2, <1>4, <1>6 DEF EntryShape
<1>9. Unlisted'
  BY <1>8 DEF TInv, Structure, Unlisted
<1>10. grant'[p] = g /\ \A q \in Procs \ {p} : grant'[q] = grant[q]
  BY <1>1, <1>3, <1>4
<1>11. grant' \in [Procs -> [cacheable : BOOLEAN, stamp : Nat, version : Nat]]
  BY <1>3, <1>4, <1>7
<1>12. /\ action' = [action EXCEPT !.phase = "wait", !.armed = TRUE]
       /\ action'.by = action.by /\ action'.cacheable = action.cacheable
       /\ action'.error = action.error /\ action'.armed = TRUE /\ action'.phase = "wait"
       /\ action'.todo = action.todo /\ action'.next = action.next
  BY ActionRecord DEF UpdateList
<1>13. /\ lastWriter' = IF action.cacheable /\ mode[p] = "write" THEN c ELSE lastWriter
       /\ UNCHANGED <<version, use, msgs, cmd, late, pc, mode, opens, clientVars, history>>
  BY DEF UpdateList
<1> QED BY <1>1, <1>2, <1>8, <1>9, <1>10, <1>11, <1>12, <1>13 DEF UpdateFacts

(* Types, structure and bounds survive listing the opener (UpdateList).    *)
LEMMA UpdateListTypes ==
    ASSUME ConsistAssumption, TInv, UpdateList
    PROVE  TInv'
<1>e. UpdateFacts
  BY UpdateEffect
<1> DEFINE p == action.by
           c == Host[p]
<1>0. /\ p \in Procs /\ c \in Clients /\ pc[p] = "consist" /\ action.phase = "visit" /\ action.armed = FALSE
      /\ (\A q \in Procs : pc[q] = "consist" <=> q = p)
  BY <1>e, ActionRecord DEF TInv, Structure, ActionTied, UpdateFacts
<1>1. ServerShape'
  <2>1. action' \in [by : Procs \cup {None}, phase : Phases, cacheable : BOOLEAN,
                   todo : SUBSET Clients, next : Clients \cup {None},
                   error : BOOLEAN, armed : BOOLEAN]
    BY ActionRecord, <1>e DEF Phases, UpdateFacts
  <2>2. lastWriter' \in Clients \cup {None} /\ openTimeStamp' \in Nat
    BY <1>0, <1>e DEF TInv, Shape, ServerShape, UpdateFacts
  <2> QED BY <2>1, <2>2, <1>e DEF TInv, Shape, ServerShape, UpdateFacts
<1>2. ProcShape' /\ ModeTied' /\ ClientShape' /\ HistoryShape'
  BY <1>e, ClientSame, HistorySame DEF TInv, Shape, ProcShape, Structure, ModeTied, UpdateFacts
<1>3. ActionTied'
  <2>1. action' # NoAction
    BY <1>e DEF NoAction, UpdateFacts
  <2> QED BY <1>0, <2>1, <1>e, NoneApart DEF ActionTied, TInv, Structure, UpdateFacts
<1>4. CmdTied'
  BY <1>0, <1>e DEF CmdTied, TInv, Structure, UpdateFacts
<1>5. Sent' = Sent /\ Entering' = Entering \ {p} /\ p \in Entering
  BY <1>0, <1>e DEF Sent, Entering, TInv, Shape, ProcShape, UpdateFacts
<1>6. WEntering' = IF mode[p] = "write" THEN WEntering \ {p} ELSE WEntering
  BY <1>5, <1>e DEF WEntering, UpdateFacts
<1>7. mode[p] = "write" => p \in WEntering
  BY <1>5 DEF WEntering
<1>8. Cardinality(Entering') = Cardinality(Entering) - 1
  BY <1>5, CardTypes, CardRemove
<1>9. Cardinality(WEntering') = Cardinality(WEntering) - One(mode[p] = "write")
  BY <1>6, <1>7, CardTypes, CardRemove DEF One
<1>10. SumRefs' = SumRefs + 1 /\ SumWrites' = SumWrites + One(mode[p] = "write")
  <2>1. SumRefs' + entry[c].ref = SumRefs + entry'[c].ref
        /\ SumWrites' + entry[c].write = SumWrites + entry'[c].write
    BY <1>0, <1>1, SumsOne, <1>e DEF TInv, Shape, ServerShape, UpdateFacts
  <2>2. SumRefs \in Nat /\ SumRefs' \in Nat /\ SumWrites \in Nat /\ SumWrites' \in Nat
    BY <1>1, SumsType, SumsTypeNext DEF TInv, Shape, ServerShape
  <2>3. entry[c].ref \in Nat /\ entry[c].write \in Nat /\ One(mode[p] = "write") \in Nat
    BY <1>0 DEF TInv, Shape, ServerShape, EntryShape, NatEntry, One
  <2>4. entry'[c].ref = entry[c].ref + 1 /\ entry'[c].write = entry[c].write + One(mode[p] = "write")
    BY <1>e DEF UpdateFacts
  <2> DEFINE w == One(mode[p] = "write")
  <2> HIDE DEF w
  <2> QED BY <2>1, <2>2, <2>3, <2>4
<1>11. One(mode[p] = "write") \in {0, 1}
  BY DEF One
<1>12. Opened' /\ Summed'
  BY <1>5, <1>8, <1>9, <1>10, <1>11, CardTypes, SumsType, <1>e
  DEF TInv, Bounds, Opened, Summed, Shape, ServerShape, ProcShape, UpdateFacts
<1>13. Timed'
  BY <1>0, <1>e DEF TInv, Bounds, Timed, One, Shape, ServerShape, UpdateFacts
<1>14. Stamped'
  <2>1. openTimeStamp \in Nat /\ version \in Nat
    BY DEF TInv, Shape, ServerShape
  <2>2. \A d \in Clients : entry'[d].stamp <= openTimeStamp + 1 /\ handle'[d].stamp <= openTimeStamp + 1
                          /\ handle'[d].version <= version
    BY <2>1, <1>0, <1>e DEF TInv, Bounds, Stamped, clientVars, Shape, ServerShape, ClientShape, EntryShape, NatEntry, UpdateFacts
  <2>3. \A q \in Procs : grant'[q].stamp <= openTimeStamp + 1 /\ grant'[q].version <= version
    BY <2>1, <1>0, <1>e DEF TInv, Bounds, Stamped, Shape, ProcShape, UpdateFacts
  <2>4. cmd'.stamp <= openTimeStamp + 1 /\ cmd'.version <= version
    BY <2>1, <1>e DEF TInv, Bounds, Stamped, Shape, ServerShape, UpdateFacts
  <2>5. \A m \in jobs' \cup replies' : m.stamp <= openTimeStamp + 1
    BY <2>1, <1>e DEF TInv, Bounds, Stamped, Shape, ClientShape, clientVars, UpdateFacts
  <2> QED BY <2>2, <2>3, <2>4, <2>5, <1>e DEF Stamped, UpdateFacts
<1> QED BY <1>1, <1>2, <1>3, <1>4, <1>12, <1>13, <1>14, <1>e DEF TInv, Shape, Bounds, Structure, UpdateFacts

(* What the end of a consistency action does, spelled out.                 *)
LEMMA EndEffect ==
    ASSUME ConsistAssumption, TInv, EndConsistency
    PROVE  EndFacts
<1>1. action.phase = "wait" /\ action.by \in Procs /\ pc[action.by] = "consist"
      /\ \A q \in Procs \ {action.by} : pc[q] # "consist"
  BY ActionFacts DEF EndConsistency
<1>2. pc \in [Procs -> States]
  BY DEF TInv, Shape, ProcShape
<1>3. pc' = [pc EXCEPT ![action.by] = IF action.error THEN "aborting" ELSE "granted"]
  BY DEF EndConsistency
<1>4. (IF action.error THEN "aborting" ELSE "granted") \in States
  BY DEF States
<1> QED BY <1>1, <1>2, <1>3, <1>4 DEF EndConsistency, EndFacts

(* Types, structure and bounds survive the end of a consistency action.    *)
LEMMA EndConsistencyTypes ==
    ASSUME ConsistAssumption, TInv, EndConsistency
    PROVE  TInv'
<1>e. EndFacts
  BY EndEffect
<1>1. ServerShape'
  <2>1. NoAction \in [by : Procs \cup {None}, phase : Phases, cacheable : BOOLEAN,
                   todo : SUBSET Clients, next : Clients \cup {None},
                   error : BOOLEAN, armed : BOOLEAN]
    BY DEF NoAction, Phases
  <2> QED BY <1>e, <2>1 DEF EndFacts, TInv, Shape, ServerShape, EntryShape
<1>2. ProcShape'
  BY <1>e DEF EndFacts, TInv, Shape, ProcShape
<1>3. ClientShape' /\ HistoryShape'
  BY <1>e, ClientSame, HistorySame DEF EndFacts
<1>4. Structure'
  <2>1. \A q \in Procs : pc'[q] # "consist"
    BY <1>e DEF EndFacts
  <2>2. ActionTied'
    BY <1>e, <2>1, NoneApart DEF EndFacts, ActionTied, NoAction
  <2>3. CmdTied'
    BY <1>e DEF EndFacts, CmdTied, NoAction, TInv, Structure
  <2>4. Unlisted' /\ ModeTied'
    BY <1>e DEF EndFacts, Unlisted, ModeTied, TInv, Structure
  <2> QED BY <2>2, <2>3, <2>4 DEF Structure
<1>5. Sent' = Sent /\ Entering' = Entering
  BY <1>e DEF EndFacts, Sent, Entering, NoAction
<1>6. WEntering' = WEntering
  BY <1>e, <1>5 DEF EndFacts, WEntering
<1>7. Opened' /\ Summed'
  BY <1>e, <1>1, <1>2, <1>3, <1>5, <1>6, QuietCounts DEF EndFacts, Shape, TInv, ServerShape, EntryShape, NatEntry
<1>8. Timed' /\ Stamped'
  <2>1. action.armed \in BOOLEAN /\ NoAction.armed = FALSE
    BY ActionRecord DEF NoAction
  <2> QED BY <1>e, <2>1 DEF EndFacts, TInv, Bounds, Timed, Stamped, clientVars, One, Shape, ServerShape
<1> QED BY <1>1, <1>2, <1>3, <1>4, <1>7, <1>8 DEF TInv, Shape, Bounds

(* A kill that gives uses back takes the same from list and summary        *)
(* counts.                                                                 *)
LEMMA DroppedEffect ==
    ASSUME ConsistAssumption, TInv, NEW c \in Clients, entry' = IOClientKill(c), DropUses(c)
    PROVE  DroppedFacts(c)
<1>1. /\ EntryShape' /\ Unlisted'
      /\ \A d \in Clients \ {c} : entry'[d] = entry[d]
      /\ entry'[c].ref = 0 /\ entry'[c].write = 0
      /\ entry'[c].stamp <= entry[c].stamp
  BY KillEffect
<1>2. SumRefs' + entry[c].ref = SumRefs + entry'[c].ref
      /\ SumWrites' + entry[c].write = SumWrites + entry'[c].write
  BY <1>1, SumsOne DEF TInv, Shape, ServerShape
<1>3. SumRefs \in Nat /\ SumRefs' \in Nat /\ SumWrites \in Nat /\ SumWrites' \in Nat
      /\ entry[c].ref <= SumRefs /\ entry[c].write <= SumWrites
  BY <1>1, SumsType, SumsTypeNext DEF TInv, Shape, ServerShape
<1>4. entry[c].ref \in Nat /\ entry[c].write \in Nat
  BY DEF TInv, Shape, ServerShape, EntryShape, NatEntry
<1>5. use.ref \in Nat /\ use.write \in Nat /\ SumRefs <= use.ref /\ SumWrites <= use.write
  BY <1>3, CardTypes DEF TInv, Bounds, Summed, Shape, ServerShape
<1>6. use'.ref = use.ref - entry[c].ref /\ use'.write = use.write - entry[c].write
  BY DEF DropUses
<1>7. use' \in [ref : Nat, write : Nat]
  <2>1. use.ref - entry[c].ref \in Nat /\ use.write - entry[c].write \in Nat
    BY <1>3, <1>4, <1>5
  <2> QED BY <2>1 DEF DropUses
<1> QED BY <1>1, <1>2, <1>3, <1>4, <1>5, <1>6, <1>7 DEF DroppedFacts

(* Bounds and sums survive a kill that gives uses back.                    *)
LEMMA DroppedCounts ==
    ASSUME ConsistAssumption, TInv, NEW c \in Clients, DroppedFacts(c),
           UNCHANGED <<version, openTimeStamp, opens>>,
           Sent' = Sent, Entering' = Entering, WEntering' = WEntering
    PROVE  Opened' /\ Summed'
<1>1. SumRefs \in Nat /\ SumRefs' \in Nat /\ SumWrites \in Nat /\ SumWrites' \in Nat
  BY SumsType, SumsTypeNext DEF TInv, Shape, ServerShape, DroppedFacts
<1>2. entry[c].ref \in Nat /\ entry[c].write \in Nat
  BY DEF TInv, Shape, ServerShape, EntryShape, NatEntry
<1>3. use.ref \in Nat /\ use.write \in Nat /\ use'.ref \in Nat /\ use'.write \in Nat
  BY DEF TInv, Shape, ServerShape, DroppedFacts
<1> QED BY <1>1, <1>2, <1>3, CardTypes DEF TInv, Bounds, Opened, Summed, DroppedFacts, Shape, ProcShape

(* What aborting an open after a failed action does, spelled out.          *)
LEMMA AbortEffect == ASSUME NEW p, AbortOpen(p) PROVE AbortFacts(p)
BY DEF AbortOpen, AbortFacts, Kill

(* Types, structure and bounds survive aborting an open after a failed     *)
(* action.                                                                 *)
LEMMA AbortOpenTypes ==
    ASSUME ConsistAssumption, TInv, NEW p \in Procs, AbortOpen(p)
    PROVE  TInv'
<1>e. AbortFacts(p)
  BY AbortEffect
<1>0. Host[p] \in Clients /\ IdleOrDead(p) \in {"idle", "dead"}
  BY HostType, IdleOrDeadType
<1>d. DroppedFacts(Host[p])
  BY <1>0, <1>e, DroppedEffect DEF AbortFacts
<1>1. ServerShape'
  <2>1. lastWriter' \in Clients \cup {None} /\ msgs' \in [Clients -> SUBSET Commands]
    BY <1>0, <1>e DEF AbortFacts, TInv, Shape, ServerShape
  <2> QED BY <1>e, <1>d, <2>1 DEF AbortFacts, DroppedFacts, TInv, Shape, ServerShape
<1>f. /\ pc' \in [Procs -> States] /\ mode' \in [Procs -> Modes \cup {"none"}]
      /\ grant' \in [Procs -> [cacheable : BOOLEAN, stamp : Nat, version : Nat]]
      /\ pc'[p] = IdleOrDead(p) /\ mode'[p] = "none" /\ grant'[p] = NoGrant
      /\ \A q \in Procs \ {p} : pc'[q] = pc[q] /\ mode'[q] = mode[q] /\ grant'[q] = grant[q]
      /\ ModeTied'
  BY <1>0, <1>e, FinishEffect DEF AbortFacts
<1>2. ProcShape'
  BY <1>e, <1>f DEF AbortFacts, TInv, Shape, ProcShape
<1>3. ClientShape' /\ HistoryShape'
  BY <1>0, <1>e, ClientSame DEF AbortFacts, TInv, Shape, HistoryShape
<1>4. Structure'
  BY <1>0, <1>d, <1>e, <1>f DEF AbortFacts, DroppedFacts, TInv, Structure, ActionTied, CmdTied
<1>5. Sent' = Sent /\ Entering' = Entering /\ WEntering' = WEntering
  BY <1>0, <1>e, FinishSets DEF AbortFacts
<1>6. Opened' /\ Summed'
  BY <1>0, <1>d, <1>e, <1>5, DroppedCounts DEF AbortFacts
<1>7. Timed' /\ Stamped'
  <2>1. NoGrant.stamp = 0 /\ NoGrant.version = 0
    BY DEF NoGrant
  <2>2. \A c \in Clients : entry'[c].stamp \in Nat /\ entry[c].stamp \in Nat
    BY <1>d DEF DroppedFacts, EntryShape, NatEntry, TInv, Shape, ServerShape
  <2>3. Timed'
    BY <1>e DEF AbortFacts, TInv, Bounds, Timed
  <2>4. \A c \in Clients : entry'[c].stamp <= openTimeStamp' /\ handle'[c].stamp <= openTimeStamp'
                          /\ handle'[c].version <= version'
    BY <1>d, <1>e, <2>2 DEF AbortFacts, DroppedFacts, TInv, Bounds, Stamped, clientVars, Shape, ServerShape
  <2>5. \A q \in Procs : grant'[q].stamp <= openTimeStamp' /\ grant'[q].version <= version'
    BY <1>e, <1>f, <2>1 DEF AbortFacts, TInv, Bounds, Stamped, Shape, ServerShape
  <2> QED BY <1>e, <2>3, <2>4, <2>5 DEF AbortFacts, TInv, Bounds, Stamped, clientVars
<1> QED BY <1>1, <1>2, <1>3, <1>4, <1>6, <1>7 DEF TInv, Shape, Bounds

(* Types, structure and bounds survive replying to an open.                *)
LEMMA OpenReplyTypes ==
    ASSUME ConsistAssumption, TInv, NEW p \in Procs, OpenReply(p)
    PROVE  TInv'
<1>0. Host[p] \in Clients /\ pc[p] = "granted" /\ UNCHANGED <<serverVars, opens, clientVars, fresh, trouble, discarded>>
  BY HostType DEF OpenReply
<1>1. /\ pc' \in [Procs -> States] /\ mode' \in [Procs -> Modes \cup {"none"}]
      /\ grant' \in [Procs -> [cacheable : BOOLEAN, stamp : Nat, version : Nat]]
      /\ pc'[p] \notin {"sent", "named", "consist"}
      /\ \A q \in Procs \ {p} : pc'[q] = pc[q] /\ mode'[q] = mode[q] /\ grant'[q] = grant[q]
      /\ ModeTied' /\ grant'[p].stamp <= grant[p].stamp /\ (grant'[p].version = version \/ grant'[p].version = 0)
  <2>1. CASE up[Host[p]]
    <3>1. pc' = [pc EXCEPT ![p] = "replied"] /\ mode' = mode /\ grant' = [grant EXCEPT ![p].version = version]
      BY <2>1 DEF OpenReply
    <3>2. version \in Nat /\ pc \in [Procs -> States] /\ mode \in [Procs -> Modes \cup {"none"}]
          /\ grant \in [Procs -> [cacheable : BOOLEAN, stamp : Nat, version : Nat]]
      BY DEF TInv, Shape, ServerShape, ProcShape
    <3>3. grant' \in [Procs -> [cacheable : BOOLEAN, stamp : Nat, version : Nat]]
          /\ grant'[p].stamp = grant[p].stamp /\ grant'[p].version = version /\ grant[p].stamp \in Nat
          /\ \A q \in Procs \ {p} : grant'[q] = grant[q]
      BY <3>1, <3>2
    <3>4. pc' \in [Procs -> States] /\ pc'[p] = "replied" /\ \A q \in Procs \ {p} : pc'[q] = pc[q]
      BY <3>1, <3>2 DEF States
    <3>5. ModeTied'
      BY <1>0, <3>1, <3>4 DEF TInv, Structure, ModeTied
    <3> QED BY <3>1, <3>2, <3>3, <3>4, <3>5
  <2>2. CASE ~up[Host[p]]
    <3>1. Finish({p}, "dead")
      BY <2>2 DEF OpenReply
    <3>2. NoGrant.stamp = 0 /\ NoGrant.version = 0 /\ grant[p].stamp \in Nat
      BY DEF NoGrant, TInv, Shape, ProcShape
    <3> QED BY <3>1, <3>2, FinishEffect
  <2> QED BY <2>1, <2>2
<1>2. ServerShape' /\ Timed' /\ Unlisted' /\ ClientShape'
  BY <1>0, ServerSame, ClientSame
<1>3. ProcShape'
  BY <1>0, <1>1 DEF TInv, Shape, ProcShape
<1>4. HistoryShape'
  BY <1>0 DEF OpenReply, TInv, Shape, HistoryShape
<1>5. Structure'
  BY <1>0, <1>1, <1>2 DEF TInv, Structure, ActionTied, CmdTied, serverVars
<1>6. Sent' = Sent /\ Entering' = Entering
  BY <1>0, <1>1 DEF Sent, Entering, serverVars
<1>7. WEntering' = WEntering
  BY <1>0, <1>1, <1>6 DEF WEntering, Entering
<1>8. Opened' /\ Summed'
  BY <1>0, <1>2, <1>3, <1>4, <1>6, <1>7, QuietCounts DEF serverVars, Shape, TInv, ServerShape, EntryShape, NatEntry
<1>9. Stamped'
  <2>1. \A q \in Procs : grant'[q].stamp <= openTimeStamp /\ grant'[q].version <= version
    BY <1>1 DEF TInv, Bounds, Stamped, Shape, ServerShape, ProcShape
  <2> QED BY <1>0, <2>1 DEF TInv, Bounds, Stamped, serverVars, clientVars
<1> QED BY <1>1, <1>2, <1>3, <1>4, <1>5, <1>8, <1>9 DEF TInv, Shape, Bounds

(* Types, structure and bounds survive the timer of a consistency action.  *)
LEMMA ConsistTimeoutIntrTypes ==
    ASSUME ConsistAssumption, TInv, ConsistTimeoutIntr
    PROVE  TInv'
<1>1. /\ action.phase = "wait" /\ action.armed = TRUE /\ action'.armed = FALSE
      /\ action'.by = action.by /\ action'.phase = "wait" /\ action'.todo = action.todo /\ action'.next = action.next
      /\ action' \in [by : Procs \cup {None}, phase : Phases, cacheable : BOOLEAN,
                   todo : SUBSET Clients, next : Clients \cup {None},
                   error : BOOLEAN, armed : BOOLEAN]
      /\ action' # NoAction
  BY ActionRecord DEF ConsistTimeoutIntr, NoAction
<1>2. ServerShape'
  BY <1>1 DEF ConsistTimeoutIntr, TInv, Shape, ServerShape, EntryShape
<1>3. ProcShape' /\ ModeTied' /\ ClientShape' /\ HistoryShape'
  BY ProcSame, ClientSame, HistorySame DEF ConsistTimeoutIntr
<1>4. Structure'
  BY <1>1, <1>3 DEF ConsistTimeoutIntr, TInv, Structure, ActionTied, CmdTied, Unlisted, procVars
<1>5. Sent' = Sent /\ Entering' = Entering /\ WEntering' = WEntering
  BY <1>1, QuietSets DEF ConsistTimeoutIntr, procVars
<1>6. Opened' /\ Summed'
  BY <1>2, <1>3, <1>5, QuietCounts DEF ConsistTimeoutIntr, procVars, Shape, TInv, ServerShape, EntryShape, NatEntry
<1>7. Timed' /\ Stamped'
  BY <1>1 DEF ConsistTimeoutIntr, TInv, Bounds, Timed, Stamped, procVars, clientVars, One, Shape, ServerShape
<1> QED BY <1>2, <1>3, <1>4, <1>6, <1>7 DEF TInv, Shape, Bounds

(* What ConsistTimeout does to the element of one slow client.             *)
LEMMA KillOne ==
    ASSUME TInv, NEW c \in Clients
    PROVE  LET e == IOClientKill(c)[c]
           IN  /\ e \in NatEntry /\ e.ref = 0 /\ e.write = 0 /\ e.stamp <= entry[c].stamp
               /\ (e.cached => entry[c].cached) /\ (action.next # c => e = NoEntry)
               /\ (~e.listed => e = NoEntry)
<1> DEFINE e == IOClientKill(c)[c]
<1>1. entry \in [Clients -> NatEntry] /\ entry[c] \in NatEntry
  BY DEF TInv, Shape, ServerShape, EntryShape
<1>2. e = IF action.next = c THEN [entry[c] EXCEPT !.ref = 0, !.write = 0] ELSE NoEntry
  BY <1>1 DEF IOClientKill
<1>3. NoEntry \in NatEntry /\ NoEntry.ref = 0 /\ NoEntry.write = 0 /\ NoEntry.stamp = 0 /\ NoEntry.cached = FALSE
      /\ NoEntry.listed = FALSE
  BY DEF NoEntry, NatEntry
<1>4. ASSUME NEW d \in NatEntry, NEW f, f = [d EXCEPT !.ref = 0, !.write = 0]
      PROVE  /\ f \in NatEntry /\ f.ref = 0 /\ f.write = 0
             /\ f.stamp = d.stamp /\ f.cached = d.cached /\ f.listed = d.listed
  BY <1>4 DEF NatEntry
<1>5. ASSUME NEW d \in NatEntry, d.listed = FALSE, d.ref = 0, d.write = 0, d.cached = FALSE, d.stamp = 0
          PROVE  d = NoEntry
  BY <1>5 DEF NatEntry, NoEntry
<1>6. entry[c].stamp \in Nat /\ entry[c].listed \in BOOLEAN /\ (~entry[c].listed => entry[c] = NoEntry)
  BY <1>1 DEF NatEntry, TInv, Structure, Unlisted
<1> HIDE DEF e
<1>7. CASE action.next = c
  <2>1. e = [entry[c] EXCEPT !.ref = 0, !.write = 0]
    BY <1>2, <1>7
  <2>2. /\ e \in NatEntry /\ e.ref = 0 /\ e.write = 0
        /\ e.stamp = entry[c].stamp /\ e.cached = entry[c].cached /\ e.listed = entry[c].listed
    BY <2>1, <1>1, <1>4
  <2>3. ~e.listed => e = NoEntry
    BY <2>2, <1>3, <1>5, <1>6
  <2> QED BY <2>2, <2>3, <1>6, <1>7 DEF e
<1>8. CASE action.next # c
  <2>1. e = NoEntry
    BY <1>2, <1>8
  <2> QED BY <2>1, <1>3, <1>6 DEF e
<1> QED BY <1>7, <1>8

(* What killing the clients that have not answered (ConsistTimeout) does,  *)
(* spelled out.                                                            *)
LEMMA TimeoutEffect ==
    ASSUME ConsistAssumption, TInv, ConsistTimeout
    PROVE  TimeoutFacts
<1>1. entry' = [c \in Clients |-> IF c \in SlowOnes THEN IOClientKill(c)[c] ELSE entry[c]]
  BY DEF ConsistTimeout, SlowOnes
<1>2. entry \in [Clients -> NatEntry]
  BY DEF TInv, Shape, ServerShape, EntryShape
<1>3. \A c \in SlowOnes : /\ entry'[c] \in NatEntry /\ entry'[c].ref = 0 /\ entry'[c].write = 0
                          /\ entry'[c].stamp <= entry[c].stamp
                          /\ (entry'[c].cached => entry[c].cached) /\ (action.next # c => entry'[c] = NoEntry)
                          /\ (~entry'[c].listed => entry'[c] = NoEntry)
  <2> SUFFICES ASSUME NEW c \in SlowOnes
               PROVE  /\ entry'[c] \in NatEntry /\ entry'[c].ref = 0 /\ entry'[c].write = 0
                      /\ entry'[c].stamp <= entry[c].stamp
                      /\ (entry'[c].cached => entry[c].cached) /\ (action.next # c => entry'[c] = NoEntry)
                      /\ (~entry'[c].listed => entry'[c] = NoEntry)
    OBVIOUS
  <2>1. c \in Clients
    BY DEF SlowOnes
  <2>2. entry'[c] = IOClientKill(c)[c]
    BY <1>1, <2>1
  <2> QED BY <2>1, <2>2, KillOne
<1>4. \A c \in Clients \ SlowOnes : entry'[c] = entry[c]
  BY <1>1
<1>5. EntryShape'
  BY <1>1, <1>2, <1>3, <1>4 DEF EntryShape
<1>6. Unlisted'
  BY <1>3, <1>4 DEF Unlisted, TInv, Structure
<1> QED BY <1>3, <1>4, <1>5, <1>6 DEF TimeoutFacts, ConsistTimeout, SlowOnes, MonitorHeld

(* Types, structure and bounds survive killing the clients that have not   *)
(* answered (ConsistTimeout).                                              *)
LEMMA ConsistTimeoutTypes ==
    ASSUME ConsistAssumption, TInv, ConsistTimeout
    PROVE  TInv'
<1>e. TimeoutFacts
  BY TimeoutEffect
<1>1. ServerShape'
  BY <1>e DEF TimeoutFacts, TInv, Shape, ServerShape
<1>2. ProcShape' /\ ModeTied' /\ ClientShape'
  BY <1>e, ProcSame, ClientSame DEF TimeoutFacts
<1>3. HistoryShape'
  BY <1>e DEF TimeoutFacts, TInv, Shape, HistoryShape, SlowOnes
<1>4. Structure'
  BY <1>e, <1>2 DEF TimeoutFacts, TInv, Structure, ActionTied, CmdTied, procVars
<1>5. Sent' = Sent /\ Entering' = Entering /\ WEntering' = WEntering
  BY <1>e, QuietSets DEF TimeoutFacts, procVars
<1>6. \A c \in Clients : entry'[c].ref <= entry[c].ref /\ entry'[c].write <= entry[c].write
                         /\ entry'[c].stamp <= entry[c].stamp
  <2>1. \A c \in Clients : entry[c].ref \in Nat /\ entry[c].write \in Nat /\ entry[c].stamp \in Nat
    BY DEF TInv, Shape, ServerShape, EntryShape, NatEntry
  <2> QED BY <1>e, <2>1 DEF TimeoutFacts
<1>7. Opened' /\ Summed'
  BY <1>e, <1>1, <1>2, <1>3, <1>5, <1>6, QuietCounts DEF TimeoutFacts, procVars, Shape
<1>8. Timed'
  <2>1. One(action.armed) \in Nat /\ action' = action
    BY <1>e DEF One, TimeoutFacts
  <2> QED BY <1>e, <2>1 DEF TimeoutFacts, TInv, Bounds, Timed, Shape, ServerShape
<1>9. Stamped'
  <2>1. \A c \in Clients : entry'[c].stamp \in Nat /\ entry[c].stamp \in Nat
    BY <1>e DEF TimeoutFacts, TInv, Shape, ServerShape, EntryShape, NatEntry
  <2> QED BY <1>e, <1>6, <2>1 DEF TimeoutFacts, TInv, Bounds, Stamped, procVars, clientVars, Shape, ServerShape
<1> QED BY <1>1, <1>2, <1>3, <1>4, <1>7, <1>8, <1>9 DEF TInv, Shape, Bounds

(* Steps of a process beyond the server that leave the server alone.       *)
LEMMA ClientProcStep ==
    ASSUME ConsistAssumption, TInv, NEW p \in Procs,
           pc[p] \in {"replied", "install", "open"},
           pc' \in [Procs -> States], pc'[p] \in {"install", "open", "closing"},
           \A q \in Procs \ {p} : pc'[q] = pc[q] /\ grant'[q] = grant[q],
           grant' \in [Procs -> [cacheable : BOOLEAN, stamp : Nat, version : Nat]],
           grant'[p].stamp <= openTimeStamp, grant'[p].version <= version,
           UNCHANGED <<serverVars, mode, opens, up, jobs, replies, trouble, misled, discarded>>,
           ClientShape', HistoryShape',
           \A c \in Clients : handle'[c].stamp <= openTimeStamp /\ handle'[c].version <= version
    PROVE  TInv'
<1>1. ServerShape' /\ Timed' /\ Unlisted'
  BY ServerSame
<1>2. ProcShape'
  BY DEF TInv, Shape, ProcShape
<1>3. Structure'
  BY <1>1 DEF TInv, Structure, ActionTied, CmdTied, ModeTied, serverVars
<1>4. Sent' = Sent /\ Entering' = Entering
  BY DEF Sent, Entering, serverVars
<1>5. WEntering' = WEntering
  BY <1>4 DEF WEntering
<1>6. Opened' /\ Summed'
  BY <1>1, <1>2, <1>4, <1>5, QuietCounts DEF serverVars, Shape, TInv, ServerShape, EntryShape, NatEntry
<1>7. Stamped'
  BY DEF TInv, Bounds, Stamped, serverVars
<1> QED BY <1>1, <1>2, <1>3, <1>6, <1>7 DEF TInv, Shape, Bounds

(* Types, structure and bounds survive the arrival of the reply to an      *)
(* open.                                                                   *)
LEMMA OpenDoneTypes ==
    ASSUME ConsistAssumption, TInv, NEW p \in Procs, OpenDone(p)
    PROVE  TInv'
<1>1. pc' \in [Procs -> States] /\ pc'[p] = "install" /\ \A q \in Procs \ {p} : pc'[q] = pc[q]
  BY DEF OpenDone, TInv, Shape, ProcShape, States
<1>2. ClientShape' /\ HistoryShape'
  BY ClientSame, HistorySame DEF OpenDone
<1>3. \A c \in Clients : handle'[c].stamp <= openTimeStamp /\ handle'[c].version <= version
  BY DEF OpenDone, TInv, Bounds, Stamped, clientVars
<1>4. /\ grant' = grant /\ grant[p].stamp <= openTimeStamp /\ grant[p].version <= version
      /\ grant \in [Procs -> [cacheable : BOOLEAN, stamp : Nat, version : Nat]]
  BY DEF OpenDone, TInv, Bounds, Stamped, Shape, ProcShape
<1> QED BY <1>1, <1>2, <1>3, <1>4, ClientProcStep DEF OpenDone, clientVars, history

(* What installing an open on its workstation (Fscache_UpdateFile) does,   *)
(* spelled out.                                                            *)
LEMMA InstallEffect ==
    ASSUME ConsistAssumption, TInv, NEW p \in Procs, IoOpen(p)
    PROVE  InstallFacts(p)
<1> DEFINE c == Host[p]
           h == handle[c]
           g == grant[p]
           u == UpdateFile(h, g, mode[p])
<1>1. c \in Clients
  BY HostType
<1>2. handle \in [Clients -> HandleShape] /\ h \in HandleShape
      /\ grant \in [Procs -> [cacheable : BOOLEAN, stamp : Nat, version : Nat]]
      /\ g \in [cacheable : BOOLEAN, stamp : Nat, version : Nat]
      /\ pc \in [Procs -> States]
  BY <1>1 DEF TInv, Shape, ClientShape, ProcShape, HandleShape
<1>3. /\ u.stamp = g.stamp /\ u.cacheable = g.cacheable
      /\ u.version = (IF g.version > h.version THEN g.version ELSE h.version)
      /\ u.block = IF ~g.cacheable \/ (IF mode[p] = "write" THEN h.version + 1 < g.version
                                              ELSE h.version < g.version)
                          THEN "none" ELSE h.block
  BY DEF UpdateFile
<1>4. u \in HandleShape
  <2>1. g.stamp \in Nat /\ g.version \in Nat /\ h.version \in Nat /\ g.cacheable \in BOOLEAN
        /\ h.block \in {"none", "clean", "dirty"}
    BY <1>2 DEF HandleShape
  <2> QED BY <2>1 DEF UpdateFile, HandleShape
<1>5. handle' = [handle EXCEPT ![c] = u]
  BY <1>2 DEF IoOpen
<1> HIDE DEF u
<1>6. handle' \in [Clients -> HandleShape] /\ handle'[c] = u /\ \A d \in Clients \ {c} : handle'[d] = handle[d]
  BY <1>1, <1>2, <1>4, <1>5
<1>7. pc' \in [Procs -> States] /\ pc'[p] = "open" /\ \A q \in Procs \ {p} : pc'[q] = pc[q]
  BY <1>2 DEF IoOpen, States
<1>8. grant' \in [Procs -> [cacheable : BOOLEAN, stamp : Nat, version : Nat]]
      /\ grant'[p] = NoGrant /\ \A q \in Procs \ {p} : grant'[q] = grant[q]
  BY <1>2 DEF IoOpen, NoGrant
<1>9. /\ pc[p] = "install" /\ ~Closing(c)
      /\ fresh' = IF handle'[c].block = "none" THEN fresh \ {c} ELSE fresh
      /\ UNCHANGED <<serverVars, mode, opens, up, jobs, replies, trouble, misled, discarded>>
  BY DEF IoOpen
<1> QED BY <1>1, <1>3, <1>6, <1>7, <1>8, <1>9 DEF InstallFacts

(* Types, structure and bounds survive installing an open on its           *)
(* workstation (Fscache_UpdateFile).                                       *)
LEMMA IoOpenTypes ==
    ASSUME ConsistAssumption, TInv, NEW p \in Procs, IoOpen(p)
    PROVE  TInv'
<1>e. InstallFacts(p)
  BY InstallEffect
<1>1. ClientShape'
  BY <1>e DEF InstallFacts, TInv, Shape, ClientShape, HandleShape
<1>2. HistoryShape'
  BY <1>e DEF InstallFacts, TInv, Shape, HistoryShape
<1>3. Host[p] \in Clients /\ grant[p].stamp <= openTimeStamp /\ grant[p].version <= version
  BY HostType DEF TInv, Bounds, Stamped
<1>4. \A c \in Clients : handle'[c].stamp <= openTimeStamp /\ handle'[c].version <= version
  BY <1>3, <1>e DEF InstallFacts, TInv, Bounds, Stamped
<1>5. NoGrant.stamp = 0 /\ NoGrant.version = 0 /\ openTimeStamp \in Nat /\ version \in Nat
  BY DEF NoGrant, TInv, Shape, ServerShape
<1>6. /\ pc[p] = "install" /\ pc' \in [Procs -> States] /\ pc'[p] = "open" /\ grant'[p] = NoGrant
      /\ grant' \in [Procs -> [cacheable : BOOLEAN, stamp : Nat, version : Nat]]
      /\ \A q \in Procs \ {p} : pc'[q] = pc[q] /\ grant'[q] = grant[q]
      /\ UNCHANGED <<serverVars, mode, opens, up, jobs, replies, trouble, misled, discarded>>
  BY <1>e DEF InstallFacts
<1>7. grant'[p].stamp <= openTimeStamp /\ grant'[p].version <= version
  BY <1>5, <1>6
<1>8. pc[p] \in {"replied", "install", "open"} /\ pc'[p] \in {"install", "open", "closing"}
  BY <1>6
<1> QED BY <1>1, <1>2, <1>4, <1>6, <1>7, <1>8, ClientProcStep

(* Steps that change only handles, jobs, replies and what is fresh.        *)
LEMMA HandleStep ==
    ASSUME ConsistAssumption, TInv, UNCHANGED <<serverVars, procVars, up, trouble, misled, discarded>>,
           handle' \in [Clients -> HandleShape], fresh' \subseteq Clients \cup {Server},
           \A c \in Clients : handle'[c].stamp \in {0, handle[c].stamp} /\ handle'[c].version \in {0, handle[c].version},
           jobs' \subseteq [client : Clients, op : SUBSET Commands, stamp : Nat],
           replies' \subseteq [client : Clients, ok : BOOLEAN, stamp : Nat],
           \A m \in jobs' \cup replies' : m.stamp <= openTimeStamp
    PROVE  TInv'
<1>1. ServerShape' /\ Timed' /\ Unlisted' /\ ProcShape' /\ ModeTied'
  BY ServerSame, ProcSame
<1>2. ClientShape' /\ HistoryShape'
  BY DEF TInv, Shape, ClientShape, HistoryShape, HandleShape
<1>3. Structure'
  BY <1>1 DEF TInv, Structure, ActionTied, CmdTied, serverVars, procVars
<1>4. Sent' = Sent /\ Entering' = Entering /\ WEntering' = WEntering
  BY QuietSets DEF serverVars, procVars
<1>5. Opened' /\ Summed'
  BY <1>1, <1>2, <1>4, QuietCounts DEF serverVars, procVars, Shape, TInv, ServerShape, EntryShape, NatEntry
<1>6. Stamped'
  <2>1. openTimeStamp \in Nat /\ version \in Nat
    BY DEF TInv, Shape, ServerShape
  <2>2. \A c \in Clients : handle'[c].stamp <= openTimeStamp /\ handle'[c].version <= version
    BY <2>1 DEF TInv, Bounds, Stamped
  <2>3. \A m \in jobs' \cup replies' : m.stamp <= openTimeStamp
    OBVIOUS
  <2>4. /\ \A c \in Clients : entry[c].stamp <= openTimeStamp
        /\ \A p \in Procs : grant[p].stamp <= openTimeStamp /\ grant[p].version <= version
        /\ cmd.stamp <= openTimeStamp /\ cmd.version <= version
    BY DEF TInv, Bounds, Stamped
  <2>5. UNCHANGED <<version, entry, openTimeStamp, cmd, grant>>
    BY DEF serverVars, procVars
  <2> QED BY <2>2, <2>3, <2>4, <2>5 DEF Stamped
<1> QED BY <1>1, <1>2, <1>3, <1>5, <1>6 DEF TInv, Shape, Bounds

(* Handles have their fields and no others.                                *)
LEMMA HandleType ==
    ASSUME TInv
    PROVE  /\ handle \in [Clients -> HandleShape]
           /\ \A c \in Clients : /\ handle[c].stamp \in Nat /\ handle[c].version \in Nat
                                 /\ handle[c].cacheable \in BOOLEAN
                                 /\ handle[c].block \in {"none", "clean", "dirty"}
BY DEF TInv, Shape, ClientShape, HandleShape

(* What a read that fills the cache does, spelled out.                     *)
LEMMA FillEffect ==
    ASSUME ConsistAssumption, TInv, NEW p \in Procs, ReadFill(p)
    PROVE  FillFacts(p)
<1>1. Host[p] \in Clients /\ pc[p] = "open"
  BY HostType DEF ReadFill, IsOpen
<1>2. handle' = [handle EXCEPT ![Host[p]].block = "clean"]
  BY DEF ReadFill
<1>3. handle \in [Clients -> HandleShape]
  BY HandleType
<1>4. /\ handle' \in [Clients -> HandleShape]
      /\ handle'[Host[p]].block = "clean"
      /\ handle'[Host[p]].stamp = handle[Host[p]].stamp
      /\ handle'[Host[p]].version = handle[Host[p]].version
      /\ handle'[Host[p]].cacheable = handle[Host[p]].cacheable
      /\ \A d \in Clients \ {Host[p]} : handle'[d] = handle[d]
  BY <1>1, <1>2, <1>3 DEF HandleShape
<1> QED BY <1>1, <1>4 DEF ReadFill, FillFacts, Copied

(* Types, structure and bounds survive a read that fills the cache.        *)
LEMMA ReadFillTypes ==
    ASSUME ConsistAssumption, TInv, NEW p \in Procs, ReadFill(p)
    PROVE  TInv'
<1>e. FillFacts(p)
  BY FillEffect
<1>1. fresh' \subseteq Clients \cup {Server}
  BY <1>e DEF FillFacts, TInv, Shape, HistoryShape
<1>2. /\ jobs' = jobs /\ replies' = replies
      /\ jobs \subseteq [client : Clients, op : SUBSET Commands, stamp : Nat]
      /\ replies \subseteq [client : Clients, ok : BOOLEAN, stamp : Nat]
      /\ \A m \in jobs \cup replies : m.stamp <= openTimeStamp
  BY <1>e DEF FillFacts, TInv, Shape, ClientShape, Bounds, Stamped
<1>3. handle' \in [Clients -> HandleShape]
      /\ \A c \in Clients : handle'[c].stamp = handle[c].stamp /\ handle'[c].version = handle[c].version
  BY <1>e DEF FillFacts
<1> QED BY <1>e, <1>1, <1>2, <1>3, HandleStep DEF FillFacts

(* What a write, into the cache or through it does, spelled out.           *)
LEMMA WriteEffect ==
    ASSUME ConsistAssumption, TInv, NEW p \in Procs, Write(p)
    PROVE  WriteFacts(p)
<1>1. Host[p] \in Clients /\ pc[p] = "open" /\ mode[p] = "write"
      /\ UNCHANGED <<serverVars, procVars, up, jobs, replies, trouble, misled, discarded>>
  BY HostType DEF Write, IsOpen
<1>2. handle \in [Clients -> HandleShape]
  BY HandleType
<1>3. CASE handle[Host[p]].cacheable
  <2>1. handle' = [handle EXCEPT ![Host[p]].block = "dirty"] /\ fresh' = {Host[p]}
    BY <1>3 DEF Write
  <2>2. /\ handle' \in [Clients -> HandleShape]
        /\ handle'[Host[p]].block = "dirty"
        /\ handle'[Host[p]].stamp = handle[Host[p]].stamp
        /\ handle'[Host[p]].version = handle[Host[p]].version
        /\ handle'[Host[p]].cacheable = handle[Host[p]].cacheable
        /\ \A d \in Clients \ {Host[p]} : handle'[d] = handle[d]
    BY <1>1, <1>2, <2>1 DEF HandleShape
  <2> QED BY <1>1, <1>3, <2>1, <2>2 DEF WriteFacts
<1>4. CASE ~handle[Host[p]].cacheable
  <2>1. handle' = handle /\ fresh' = {Server}
    BY <1>4 DEF Write
  <2> QED BY <1>1, <1>2, <1>4, <2>1 DEF WriteFacts
<1> QED BY <1>3, <1>4

(* Types, structure and bounds survive a write, into the cache or through  *)
(* it.                                                                     *)
LEMMA WriteTypes ==
    ASSUME ConsistAssumption, TInv, NEW p \in Procs, Write(p)
    PROVE  TInv'
<1>e. WriteFacts(p)
  BY WriteEffect
<1>1. fresh' \subseteq Clients \cup {Server}
  BY <1>e DEF WriteFacts
<1>2. /\ jobs' = jobs /\ replies' = replies
      /\ jobs \subseteq [client : Clients, op : SUBSET Commands, stamp : Nat]
      /\ replies \subseteq [client : Clients, ok : BOOLEAN, stamp : Nat]
      /\ \A m \in jobs \cup replies : m.stamp <= openTimeStamp
  BY <1>e DEF WriteFacts, TInv, Shape, ClientShape, Bounds, Stamped
<1>3. handle' \in [Clients -> HandleShape]
      /\ \A c \in Clients : handle'[c].stamp = handle[c].stamp /\ handle'[c].version = handle[c].version
  BY <1>e DEF WriteFacts
<1> QED BY <1>e, <1>1, <1>2, <1>3, HandleStep DEF WriteFacts

(* Types, structure and bounds survive sending a close.                    *)
LEMMA CloseSendTypes ==
    ASSUME ConsistAssumption, TInv, NEW p \in Procs, CloseSend(p)
    PROVE  TInv'
<1> DEFINE flag == (\A q \in Procs \ {p} : ~(Host[q] = Host[p] /\ IsOpen(q)))
                     /\ handle[Host[p]].cacheable /\ handle[Host[p]].block # "dirty"
<1>1. pc[p] = "open" /\ pc' \in [Procs -> States] /\ pc'[p] = "closing" /\ \A q \in Procs \ {p} : pc'[q] = pc[q]
  BY DEF CloseSend, IsOpen, TInv, Shape, ProcShape, States
<1>2. ClientShape' /\ HistoryShape'
  BY ClientSame, HistorySame DEF CloseSend
<1>3. \A c \in Clients : handle'[c].stamp <= openTimeStamp /\ handle'[c].version <= version
  BY DEF CloseSend, TInv, Bounds, Stamped, clientVars
<1>4. /\ grant[p].stamp <= openTimeStamp /\ grant[p].version <= version
      /\ grant \in [Procs -> [cacheable : BOOLEAN, stamp : Nat, version : Nat]]
  BY DEF TInv, Bounds, Stamped, Shape, ProcShape
<1>5. flag \in BOOLEAN
  OBVIOUS
<1>6. grant' = [grant EXCEPT ![p].cacheable = flag]
  BY DEF CloseSend
<1> HIDE DEF flag
<1>7. /\ grant' \in [Procs -> [cacheable : BOOLEAN, stamp : Nat, version : Nat]]
      /\ grant'[p].stamp = grant[p].stamp /\ grant'[p].version = grant[p].version
      /\ \A q \in Procs \ {p} : grant'[q] = grant[q]
  BY <1>4, <1>5, <1>6
<1> QED BY <1>1, <1>2, <1>3, <1>4, <1>7, ClientProcStep DEF CloseSend, clientVars, history

(* What a close at the server (Fsconsist_Close) does, spelled out.         *)
LEMMA CloseEffect ==
    ASSUME ConsistAssumption, TInv, NEW p \in Procs, Close(p)
    PROVE  CloseFacts(p)
<1> DEFINE c == Host[p]
           w == One(mode[p] = "write")
<1>1. /\ pc[p] = "closing" /\ ~MonitorHeld /\ c \in Clients
      /\ Finish({p}, IdleOrDead(p))
      /\ UNCHANGED <<version, msgs, openTimeStamp, action, cmd, late, opens, clientVars, history>>
  BY HostType DEF Close
<1>2. CASE ~entry[c].listed
  <2>1. UNCHANGED <<entry, lastWriter, use>>
    BY <1>2 DEF Close, Known
  <2> QED BY <1>1, <1>2, <2>1 DEF CloseFacts, TInv, Shape, ServerShape, EntryShape, Structure, Unlisted
<1>3. CASE entry[c].listed
  <2>1. /\ entry[c].ref > 0 /\ (mode[p] = "write" => entry[c].write > 0)
        /\ entry' = [entry EXCEPT ![c] = IOClientClose(p)]
        /\ lastWriter' = ResetLastWriter(grant[p].cacheable)
        /\ use' = [ref |-> use.ref - 1, write |-> use.write - One(mode[p] = "write")]
    BY <1>3 DEF Close, Known
  <2>2. w \in {0, 1} /\ (mode[p] = "write" => w = 1) /\ (mode[p] # "write" => w = 0)
    BY DEF One
  <2>3. /\ entry \in [Clients -> NatEntry] /\ entry[c] \in NatEntry
        /\ entry[c].ref \in Nat /\ entry[c].write \in Nat
    BY <1>1 DEF TInv, Shape, ServerShape, EntryShape, NatEntry
  <2> DEFINE f == [entry[c] EXCEPT !.ref = @ - 1, !.write = @ - w]
  <2>4. entry'[c] = IF f.ref = 0 /\ action.next # c /\ ~(lastWriter = c /\ f.cached)
                     THEN NoEntry ELSE f
    BY <1>1, <2>1, <2>3 DEF IOClientClose
  <2>5. \A d \in Clients \ {c} : entry'[d] = entry[d]
    BY <2>1
  <2>6. entry[c].write - w \in Nat /\ entry[c].ref - 1 \in Nat
    <3> HIDE DEF w
    <3> QED BY <2>1, <2>2, <2>3
  <2>7. use'.ref = use.ref - 1 /\ use'.write = use.write - w
    BY <2>1
  <2>8. use' \in [ref : Nat, write : Nat]
    <3>1. entry[c].ref <= SumRefs /\ entry[c].write <= SumWrites /\ SumRefs \in Nat /\ SumWrites \in Nat
      BY <1>1, SumsType DEF TInv, Shape, ServerShape
    <3>2. SumRefs <= use.ref /\ SumWrites <= use.write /\ use.ref \in Nat /\ use.write \in Nat
      BY <3>1, CardTypes DEF TInv, Bounds, Summed, Shape, ServerShape
    <3> HIDE DEF w
    <3>3. use.ref - 1 \in Nat /\ use.write - w \in Nat
      BY <2>1, <2>2, <2>3, <2>6, <3>1, <3>2
    <3> USE DEF w
    <3> QED BY <2>1, <3>3
  <2>9. /\ f \in NatEntry /\ f.ref = entry[c].ref - 1 /\ f.write = entry[c].write - w
        /\ f.listed = entry[c].listed /\ f.cached = entry[c].cached /\ f.stamp = entry[c].stamp
    <3> HIDE DEF w
    <3> QED BY <2>3, <2>6 DEF NatEntry
  <2> HIDE DEF f, w
  <2>10. entry'[c] \in NatEntry
    BY <2>4, <2>9 DEF NoEntry, NatEntry
  <2>11. entry' = [entry EXCEPT ![c] = entry'[c]]
    BY <1>1, <2>1, <2>3
  <2>12. EntryShape'
    BY <1>1, <2>3, <2>10, <2>11 DEF EntryShape
  <2>13. Unlisted'
    BY <1>3, <2>4, <2>5, <2>9 DEF Unlisted, TInv, Structure
  <2>14. \/ entry'[c] = NoEntry /\ entry[c].ref = 1 /\ ~(lastWriter = c /\ entry[c].cached) /\ action.next # c
         \/ /\ entry'[c].ref = entry[c].ref - 1 /\ entry'[c].write = entry[c].write - w
            /\ entry'[c].listed /\ entry'[c].cached = entry[c].cached /\ entry'[c].stamp = entry[c].stamp
    <3>1. CASE f.ref = 0 /\ action.next # c /\ ~(lastWriter = c /\ f.cached)
      BY <3>1, <2>3, <2>4, <2>9
    <3>2. CASE ~(f.ref = 0 /\ action.next # c /\ ~(lastWriter = c /\ f.cached))
      <4>1. entry'[c] = f
        BY <3>2, <2>4
      <4> QED BY <4>1, <2>9, <1>3
    <3> QED BY <3>1, <3>2
  <2> USE DEF w
  <2> QED BY <1>1, <1>3, <2>1, <2>5, <2>7, <2>8, <2>12, <2>13, <2>14 DEF CloseFacts
<1> QED BY <1>2, <1>3

(* Types, structure and bounds survive a close at the server               *)
(* (Fsconsist_Close).                                                      *)
LEMMA CloseTypes ==
    ASSUME ConsistAssumption, TInv, NEW p \in Procs, Close(p)
    PROVE  TInv'
<1>e. CloseFacts(p)
  BY CloseEffect
<1> DEFINE c == Host[p]
           w == One(mode[p] = "write")
<1>0. c \in Clients /\ IdleOrDead(p) \in {"idle", "dead"} /\ w \in {0, 1}
  BY HostType, IdleOrDeadType DEF One
<1>1. ServerShape'
  <2>1. lastWriter' \in Clients \cup {None}
    BY <1>e DEF CloseFacts, TInv, Shape, ServerShape, ResetLastWriter
  <2> QED BY <1>e, <2>1 DEF CloseFacts, TInv, Shape, ServerShape
<1>f. /\ pc' \in [Procs -> States] /\ mode' \in [Procs -> Modes \cup {"none"}]
      /\ grant' \in [Procs -> [cacheable : BOOLEAN, stamp : Nat, version : Nat]]
      /\ pc'[p] = IdleOrDead(p) /\ mode'[p] = "none" /\ grant'[p] = NoGrant
      /\ \A q \in Procs \ {p} : pc'[q] = pc[q] /\ mode'[q] = mode[q] /\ grant'[q] = grant[q]
      /\ ModeTied'
  BY <1>0, <1>e, FinishEffect DEF CloseFacts
<1>2. ProcShape'
  BY <1>e, <1>f DEF CloseFacts, TInv, Shape, ProcShape
<1>3. ClientShape' /\ HistoryShape'
  BY <1>e, ClientSame, HistorySame DEF CloseFacts
<1>4. Structure'
  BY <1>0, <1>e, <1>f DEF CloseFacts, TInv, Structure, ActionTied, CmdTied
<1>5. Sent' = Sent /\ Entering' = Entering /\ WEntering' = WEntering
  BY <1>0, <1>e, FinishSets DEF CloseFacts
<1>s. /\ entry[c].stamp \in Nat /\ NoEntry.stamp = 0 /\ NoEntry.ref = 0 /\ NoEntry.write = 0
      /\ entry[c].ref \in Nat /\ entry[c].write \in Nat
  BY <1>0 DEF TInv, Shape, ServerShape, EntryShape, NatEntry, NoEntry
<1>6. Opened' /\ Summed'
  <2>1. CASE ~entry[c].listed
    BY <1>1, <1>2, <1>3, <1>5, <1>e, <2>1, QuietCounts
    DEF CloseFacts, Shape, TInv, ServerShape, EntryShape, NatEntry
  <2>2. CASE entry[c].listed
    <3>1. SumRefs' + entry[c].ref = SumRefs + entry'[c].ref
          /\ SumWrites' + entry[c].write = SumWrites + entry'[c].write
      BY <1>0, <1>e, SumsOne DEF CloseFacts, TInv, Shape, ServerShape
    <3>2. SumRefs \in Nat /\ SumRefs' \in Nat /\ SumWrites \in Nat /\ SumWrites' \in Nat
      BY <1>e, SumsType, SumsTypeNext DEF CloseFacts, TInv, Shape, ServerShape
    <3>3. /\ entry'[c].ref = entry[c].ref - 1 /\ entry'[c].ref \in Nat
          /\ entry'[c].write <= entry[c].write - w /\ entry'[c].write \in Nat
          /\ use'.ref = use.ref - 1 /\ use'.write = use.write - w
      <4>1. use'.ref = use.ref - 1 /\ use'.write = use.write - w
        BY <1>e, <2>2 DEF CloseFacts
      <4>2. entry'[c].ref \in Nat /\ entry'[c].write \in Nat
        BY <1>0, <1>e DEF CloseFacts, EntryShape, NatEntry
      <4>3. (mode[p] = "write" => entry[c].write > 0) /\ (mode[p] # "write" => w = 0)
        BY <1>e, <2>2 DEF CloseFacts, One
      <4>4. \/ entry'[c] = NoEntry /\ entry[c].ref = 1
            \/ entry'[c].ref = entry[c].ref - 1 /\ entry'[c].write = entry[c].write - w
        BY <1>e, <2>2 DEF CloseFacts
      <4> HIDE DEF w
      <4> QED BY <1>0, <1>s, <4>1, <4>2, <4>3, <4>4
    <3>4. use.ref \in Nat /\ use.write \in Nat /\ use'.ref \in Nat /\ use'.write \in Nat
          /\ opens \in Nat /\ version \in Nat /\ openTimeStamp \in Nat
      BY <1>e DEF TInv, Shape, ServerShape, CloseFacts, ProcShape
    <3>5. UNCHANGED <<version, openTimeStamp, opens>>
      BY <1>e DEF CloseFacts
    <3> HIDE DEF w
    <3>6. Opened'
      BY <1>0, <1>5, <3>3, <3>4, <3>5, CardTypes DEF TInv, Bounds, Opened
    <3>7. Summed'
      BY <1>0, <1>s, <1>5, <3>1, <3>2, <3>3, <3>4, CardTypes DEF TInv, Bounds, Summed
    <3> QED BY <3>6, <3>7
  <2> QED BY <2>1, <2>2
<1>7. Timed' /\ Stamped'
  <2>1. NoGrant.stamp = 0 /\ NoGrant.version = 0
    BY DEF NoGrant
  <2>2. \A d \in Clients : entry'[d].stamp <= openTimeStamp
    BY <1>s, <1>e DEF CloseFacts, TInv, Bounds, Stamped, Shape, ServerShape
  <2>3. Timed'
    BY <1>e DEF CloseFacts, TInv, Bounds, Timed
  <2>4. \A d \in Clients : handle'[d].stamp <= openTimeStamp' /\ handle'[d].version <= version'
    BY <1>e DEF CloseFacts, TInv, Bounds, Stamped, clientVars
  <2>5. \A q \in Procs : grant'[q].stamp <= openTimeStamp' /\ grant'[q].version <= version'
    BY <1>e, <1>f, <2>1 DEF CloseFacts, TInv, Bounds, Stamped, Shape, ServerShape
  <2> QED BY <1>e, <2>2, <2>3, <2>4, <2>5 DEF CloseFacts, TInv, Bounds, Stamped, clientVars
<1> QED BY <1>1, <1>2, <1>3, <1>4, <1>6, <1>7 DEF TInv, Shape, Bounds

(* What scavenging an unused handle does, spelled out.                     *)
LEMMA ScavengeEffect ==
    ASSUME ConsistAssumption, TInv, NEW c \in Clients, FileScavenge(c)
    PROVE  ScavengeFacts(c)
<1>1. NoHandle \in HandleShape
  BY DEF NoHandle, HandleShape
<1> QED BY <1>1, HandleType DEF FileScavenge, ScavengeFacts

(* Types, structure and bounds survive scavenging an unused handle.        *)
LEMMA FileScavengeTypes ==
    ASSUME ConsistAssumption, TInv, NEW c \in Clients, FileScavenge(c)
    PROVE  TInv'
<1>e. ScavengeFacts(c)
  BY ScavengeEffect
<1>1. /\ jobs' = jobs /\ replies' = replies /\ fresh' = fresh
      /\ fresh \subseteq Clients \cup {Server}
      /\ jobs \subseteq [client : Clients, op : SUBSET Commands, stamp : Nat]
      /\ replies \subseteq [client : Clients, ok : BOOLEAN, stamp : Nat]
      /\ \A m \in jobs \cup replies : m.stamp <= openTimeStamp
  BY <1>e DEF ScavengeFacts, history, TInv, Shape, ClientShape, HistoryShape, Bounds, Stamped
<1>2. NoHandle.stamp = 0 /\ NoHandle.version = 0
  BY DEF NoHandle
<1>3. /\ handle' \in [Clients -> HandleShape]
      /\ \A d \in Clients : handle'[d].stamp \in {0, handle[d].stamp} /\ handle'[d].version \in {0, handle[d].version}
  BY <1>e, <1>2 DEF ScavengeFacts
<1> QED BY <1>e, <1>1, <1>3, HandleStep DEF ScavengeFacts, history

(* The record of the command under way has its fields and no others.       *)
LEMMA CmdRecord ==
    ASSUME TInv
    PROVE  cmd \in [client : Clients \cup {None}, op : SUBSET Commands, stamp : Nat,
                version : Nat, answer : {"none", "ok", "stale", "timeout"}]
BY DEF TInv, Shape, ServerShape

(* What the arrival of a command (Fsconsist_RpcConsist) does, spelled out. *)
LEMMA RpcConsistEffect ==
    ASSUME ConsistAssumption, TInv, NEW c \in Clients, RpcConsist(c)
    PROVE  RpcConsistFacts(c)
<1>1. /\ action.phase = "command" /\ cmd.client = c /\ cmd.answer = "none" /\ up[c] /\ ~Closing(c)
      /\ UNCHANGED <<version, use, entry, lastWriter, msgs, openTimeStamp, action,
                   late, procVars, up, handle, replies, history>>
  BY DEF RpcConsist
<1> DEFINE accept == /\ handle[c].stamp > 0
                     /\ \/ handle[c].stamp = cmd.stamp
                        \/ handle[c].version = cmd.version /\ "writeBack" \notin cmd.op
<1>2. \/ /\ accept /\ cmd' = [cmd EXCEPT !.answer = "ok"]
         /\ jobs' = jobs \cup {[client |-> c, op |-> cmd.op, stamp |-> cmd.stamp]}
      \/ ~accept /\ ~OpenInProgress(c) /\ cmd' = [cmd EXCEPT !.answer = "stale"] /\ jobs' = jobs
  BY DEF RpcConsist
<1>3. CASE accept /\ cmd' = [cmd EXCEPT !.answer = "ok"]
         /\ jobs' = jobs \cup {[client |-> c, op |-> cmd.op, stamp |-> cmd.stamp]}
  BY <1>1, <1>3, CmdRecord DEF RpcConsistFacts, AcceptedFacts
<1>4. CASE ~accept /\ ~OpenInProgress(c) /\ cmd' = [cmd EXCEPT !.answer = "stale"] /\ jobs' = jobs
  BY <1>1, <1>4, CmdRecord DEF RpcConsistFacts, AcceptedFacts
<1> QED BY <1>2, <1>3, <1>4

(* Types, structure and bounds survive the arrival of a command            *)
(* (Fsconsist_RpcConsist).                                                 *)
LEMMA RpcConsistTypes ==
    ASSUME ConsistAssumption, TInv, NEW c \in Clients, RpcConsist(c)
    PROVE  TInv'
<1>e. RpcConsistFacts(c)
  BY RpcConsistEffect
<1>1. ServerShape' /\ Unlisted' /\ Timed'
  BY <1>e DEF RpcConsistFacts, TInv, Shape, ServerShape, EntryShape, Structure, Unlisted, Bounds, Timed
<1>2. ProcShape' /\ ModeTied' /\ HistoryShape'
  BY <1>e, ProcSame, HistorySame DEF RpcConsistFacts
<1>3. jobs' \subseteq jobs \cup {[client |-> c, op |-> cmd.op, stamp |-> cmd.stamp]}
  BY <1>e DEF RpcConsistFacts, AcceptedFacts
<1>4. cmd.op \subseteq Commands /\ cmd.stamp \in Nat
  BY CmdRecord
<1>5. ClientShape'
  BY <1>e, <1>3, <1>4 DEF RpcConsistFacts, TInv, Shape, ClientShape
<1>6. Structure'
  BY <1>e, <1>1, <1>2 DEF RpcConsistFacts, TInv, Structure, ActionTied, CmdTied, procVars
<1>7. Sent' = Sent /\ Entering' = Entering /\ WEntering' = WEntering
  BY <1>e, QuietSets DEF RpcConsistFacts, procVars
<1>8. Opened' /\ Summed'
  BY <1>1, <1>2, <1>5, <1>7, <1>e, QuietCounts
  DEF RpcConsistFacts, procVars, Shape, TInv, ServerShape, EntryShape, NatEntry
<1>9. Stamped'
  <2>1. \A m \in jobs' \cup replies' : m.stamp <= openTimeStamp
    BY <1>e, <1>3 DEF RpcConsistFacts, TInv, Bounds, Stamped
  <2>2. cmd'.stamp <= openTimeStamp /\ cmd'.version <= version
    BY <1>e DEF RpcConsistFacts, TInv, Bounds, Stamped
  <2>3. UNCHANGED <<entry, handle, grant, openTimeStamp, version>>
    BY <1>e DEF RpcConsistFacts, procVars
  <2> QED BY <2>1, <2>2, <2>3 DEF TInv, Bounds, Stamped
<1> QED BY <1>1, <1>2, <1>5, <1>6, <1>8, <1>9 DEF TInv, Shape, Bounds

(* What forgetting the last writer does (Fsconsist_DeleteLastWriter): its  *)
(* element goes when it has no use, or nothing changes.                    *)
LEMMA DeleteEffect ==
    ASSUME ConsistAssumption, TInv, NEW c \in Clients, DeleteLastWriter(c)
    PROVE  DeleteFacts(c)
<1>1. CASE ~InProgress /\ entry[c].listed /\ entry[c].ref = 0 /\ lastWriter = c
  <2>1. entry' = [entry EXCEPT ![c] = NoEntry] /\ lastWriter' = None
    BY <1>1 DEF DeleteLastWriter
  <2>2. NoEntry \in NatEntry /\ entry \in [Clients -> NatEntry]
    BY DEF NoEntry, NatEntry, TInv, Shape, ServerShape, EntryShape
  <2>3. /\ entry'[c] = NoEntry /\ entry' \in [Clients -> NatEntry]
        /\ \A d \in Clients \ {c} : entry'[d] = entry[d]
    BY <2>1, <2>2
  <2>4. Unlisted'
    BY <2>3 DEF Unlisted, TInv, Structure
  <2> QED BY <1>1, <2>1, <2>3, <2>4, ActionFacts DEF DeleteFacts, EntryShape
<1>2. CASE ~(~InProgress /\ entry[c].listed /\ entry[c].ref = 0 /\ lastWriter = c)
  BY <1>2 DEF DeleteLastWriter, DeleteFacts
<1> QED BY <1>1, <1>2

(* The client list keeps its shape, and no count grows, when the last      *)
(* writer is forgotten.                                                    *)
LEMMA DeleteTypes ==
    ASSUME ConsistAssumption, TInv, NEW c \in Clients, DeleteFacts(c)
    PROVE  /\ EntryShape' /\ Unlisted' /\ lastWriter' \in Clients \cup {None}
           /\ \A d \in Clients : /\ entry'[d].ref <= entry[d].ref
                                 /\ entry'[d].write <= entry[d].write
                                 /\ entry'[d].stamp <= entry[d].stamp
<1>1. /\ EntryShape /\ Unlisted /\ lastWriter \in Clients \cup {None}
      /\ \A d \in Clients : entry[d].ref \in Nat /\ entry[d].write \in Nat /\ entry[d].stamp \in Nat
  BY DEF TInv, Shape, ServerShape, EntryShape, NatEntry, Structure
<1>2. NoEntry.ref = 0 /\ NoEntry.write = 0 /\ NoEntry.stamp = 0
  BY DEF NoEntry
<1> QED BY <1>1, <1>2 DEF DeleteFacts, EntryShape, Unlisted

(* A step on a workstation that may delete the last writer and answer.     *)
LEMMA AnswerStep ==
    ASSUME ConsistAssumption, TInv, NEW c \in Clients, DeleteFacts(c),
           UNCHANGED <<version, use, msgs, openTimeStamp, action, cmd, late, procVars, up>>,
           handle' \in [Clients -> HandleShape],
           \A d \in Clients : handle'[d].stamp = handle[d].stamp /\ handle'[d].version = handle[d].version,
           jobs' \subseteq [client : Clients, op : SUBSET Commands, stamp : Nat],
           replies' \subseteq [client : Clients, ok : BOOLEAN, stamp : Nat],
           \A m \in jobs' \cup replies' : m.stamp <= openTimeStamp,
           HistoryShape'
    PROVE  TInv'
<1>1. /\ EntryShape' /\ Unlisted' /\ lastWriter' \in Clients \cup {None}
      /\ \A d \in Clients : /\ entry'[d].ref <= entry[d].ref
                            /\ entry'[d].write <= entry[d].write
                            /\ entry'[d].stamp <= entry[d].stamp
  BY DeleteTypes
<1>2. ServerShape' /\ Timed'
  BY <1>1 DEF TInv, Shape, ServerShape, Bounds, Timed
<1>3. ProcShape' /\ ModeTied'
  BY ProcSame
<1>4. ClientShape'
  BY DEF TInv, Shape, ClientShape, HandleShape
<1>5. Structure'
  BY <1>1, <1>3 DEF TInv, Structure, ActionTied, CmdTied, procVars
<1>6. Sent' = Sent /\ Entering' = Entering /\ WEntering' = WEntering
  BY QuietSets DEF procVars
<1>7. Opened' /\ Summed'
  BY <1>1, <1>2, <1>3, <1>4, <1>6, QuietCounts DEF Shape, procVars
<1>8. Stamped'
  <2>1. \A d \in Clients : entry'[d].stamp <= openTimeStamp
    BY <1>1 DEF TInv, Shape, ServerShape, EntryShape, NatEntry, Bounds, Stamped
  <2>2. \A d \in Clients : handle'[d].stamp <= openTimeStamp /\ handle'[d].version <= version
    BY DEF TInv, Bounds, Stamped
  <2>3. /\ \A p \in Procs : grant[p].stamp <= openTimeStamp /\ grant[p].version <= version
        /\ cmd.stamp <= openTimeStamp /\ cmd.version <= version
    BY DEF TInv, Bounds, Stamped
  <2>4. UNCHANGED <<version, openTimeStamp, cmd, grant>>
    BY DEF procVars
  <2> QED BY <2>1, <2>2, <2>3, <2>4 DEF Stamped
<1> QED BY <1>2, <1>3, <1>4, <1>5, <1>7, <1>8 DEF TInv, Shape, Bounds

(* What a delayed write-back does, spelled out.                            *)
LEMMA CleanEffect ==
    ASSUME ConsistAssumption, TInv, NEW c \in Clients, CleanBlocks(c)
    PROVE  CleanFacts(c)
<1>1. handle' = [handle EXCEPT ![c].block = "clean"]
  BY DEF CleanBlocks
<1>2. handle \in [Clients -> HandleShape]
  BY HandleType
<1>3. /\ handle' \in [Clients -> HandleShape] /\ handle'[c].block = "clean"
      /\ handle'[c].stamp = handle[c].stamp /\ handle'[c].version = handle[c].version
      /\ handle'[c].cacheable = handle[c].cacheable
      /\ \A d \in Clients \ {c} : handle'[d] = handle[d]
  BY <1>1, <1>2 DEF HandleShape
<1>4. DeleteFacts(c)
  BY DeleteEffect DEF CleanBlocks
<1> QED BY <1>3, <1>4 DEF CleanBlocks, CleanFacts, Copied

(* Types, structure and bounds survive a delayed write-back.               *)
LEMMA CleanBlocksTypes ==
    ASSUME ConsistAssumption, TInv, NEW c \in Clients, CleanBlocks(c)
    PROVE  TInv'
<1>e. CleanFacts(c)
  BY CleanEffect
<1>1. HistoryShape'
  BY <1>e DEF CleanFacts, TInv, Shape, HistoryShape
<1>2. /\ jobs' = jobs /\ replies' = replies
      /\ jobs \subseteq [client : Clients, op : SUBSET Commands, stamp : Nat]
      /\ replies \subseteq [client : Clients, ok : BOOLEAN, stamp : Nat]
      /\ \A m \in jobs \cup replies : m.stamp <= openTimeStamp
  BY <1>e DEF CleanFacts, TInv, Shape, ClientShape, Bounds, Stamped
<1>3. /\ handle' \in [Clients -> HandleShape]
      /\ \A d \in Clients : handle'[d].stamp = handle[d].stamp /\ handle'[d].version = handle[d].version
  BY <1>e DEF CleanFacts
<1> QED BY <1>e, <1>1, <1>2, <1>3, AnswerStep DEF CleanFacts

(* What a command does to the handle of its workstation.                   *)
LEMMA ConsistedEffect ==
    ASSUME ConsistAssumption, TInv, NEW c \in Clients, NEW op, NEW ok \in BOOLEAN,
           handle' = [handle EXCEPT ![c] = Consist(@, op, ok)]
    PROVE  ConsistedFacts(c, op, ok)
<1>1. handle \in [Clients -> HandleShape] /\ handle[c] \in HandleShape
  BY HandleType
<1>2. handle'[c] = Consist(handle[c], op, ok) /\ \A d \in Clients \ {c} : handle'[d] = handle[d]
  BY <1>1
<1>3. ASSUME NEW h \in HandleShape, NEW f, f = Consist(h, op, ok)
      PROVE  /\ f \in HandleShape /\ f.stamp = h.stamp /\ f.version = h.version
             /\ f.cacheable <=> (h.cacheable /\ "invalidate" \notin op)
             /\ f.block = (IF ~ok \/ h.block = "none" THEN h.block
                           ELSE IF "invalidate" \in op THEN "none" ELSE "clean")
  <2> DEFINE b == IF ~ok \/ h.block = "none" THEN h.block
                  ELSE IF "invalidate" \in op THEN "none" ELSE "clean"
             k == h.cacheable /\ "invalidate" \notin op
  <2>1. f = [h EXCEPT !.cacheable = k, !.block = b]
    BY <1>3 DEF Consist, HandleShape
  <2>2. b \in {"none", "clean", "dirty"} /\ k \in BOOLEAN
    BY DEF HandleShape
  <2> HIDE DEF b, k
  <2>3. f \in HandleShape /\ f.stamp = h.stamp /\ f.version = h.version /\ f.cacheable = k /\ f.block = b
    BY <2>1, <2>2 DEF HandleShape
  <2> QED BY <2>3 DEF b, k
<1>4. handle' = [handle EXCEPT ![c] = handle'[c]]
  BY <1>1, <1>2
<1>5. handle'[c] \in HandleShape
  BY <1>1, <1>2, <1>3
<1>6. handle' \in [Clients -> HandleShape]
  BY <1>1, <1>4, <1>5
<1> QED BY <1>1, <1>2, <1>3, <1>6 DEF ConsistedFacts

(* What executing a command (ProcessConsist) does, spelled out.            *)
LEMMA JobEffect ==
    ASSUME ConsistAssumption, TInv, NEW j \in jobs, ProcessConsist(j)
    PROVE  JobFacts(j)
<1>1. j.client \in Clients /\ j.op \subseteq Commands /\ j.stamp \in Nat /\ j.stamp <= openTimeStamp
  BY DEF TInv, Shape, ClientShape, Bounds, Stamped
<1>2. ASSUME NEW ok \in BOOLEAN, Answering(j, ok) PROVE Answered(j, ok)
  BY <1>1, <1>2, ConsistedEffect DEF Answered, Answering
<1>3. /\ up[j.client] /\ ~Closing(j.client) /\ ~MonitorHeld /\ jobs' = jobs \ {j}
      /\ trouble' = IF Flushes(j) /\ handle'[j.client].block = "dirty" THEN trouble \cup {j.client} ELSE trouble
      /\ UNCHANGED <<version, use, msgs, openTimeStamp, action, cmd, late, procVars, up, misled, discarded>>
  BY DEF ProcessConsist, Flushes
<1>4. DroppedJob(j) \/ PlainStep(j) \/ FlushedStep(j) \/ FailedStep(j)
  BY DEF ProcessConsist, Flushes, DroppedJob, PlainStep, FlushedStep, FailedStep, Answering
<1>6. ASSUME PlainStep(j) PROVE PlainJob(j)
  <2>1. Answered(j, TRUE)
    BY <1>2, <1>6 DEF PlainStep
  <2> QED BY <1>6, <2>1 DEF PlainStep, PlainJob
<1>7. ASSUME FlushedStep(j) PROVE FlushedJob(j)
  <2>2. Answered(j, TRUE)
    BY <1>2, <1>7 DEF FlushedStep
  <2>3. DeleteFacts(j.client)
    BY <1>1, <1>7, DeleteEffect DEF FlushedStep
  <2> QED BY <1>7, <2>2, <2>3 DEF FlushedStep, FlushedJob, Copied
<1>8. ASSUME FailedStep(j) PROVE FailedJob(j)
  <2>1. Answered(j, FALSE)
    BY <1>2, <1>8 DEF FailedStep
  <2> QED BY <1>8, <2>1 DEF FailedStep, FailedJob
<1> QED BY <1>1, <1>3, <1>4, <1>6, <1>7, <1>8 DEF JobFacts

(* What the cases of an executed command have in common.                   *)
LEMMA JobGeneral ==
    ASSUME ConsistAssumption, TInv, NEW j \in jobs, JobFacts(j)
    PROVE  /\ DeleteFacts(j.client)
           /\ handle' \in [Clients -> HandleShape]
           /\ \A d \in Clients : handle'[d].stamp = handle[d].stamp /\ handle'[d].version = handle[d].version
           /\ \E ok \in BOOLEAN : replies' \subseteq replies \cup {[client |-> j.client, ok |-> ok, stamp |-> j.stamp]}
           /\ fresh' \subseteq Clients \cup {Server}
<1>1. handle \in [Clients -> HandleShape] /\ fresh \subseteq Clients \cup {Server}
  BY HandleType DEF TInv, Shape, HistoryShape
<1>2. CASE DroppedJob(j)
  BY <1>1, <1>2 DEF DroppedJob, DeleteFacts
<1>3. CASE PlainJob(j)
  BY <1>1, <1>3 DEF PlainJob, DeleteFacts, Answered, ConsistedFacts
<1>4. CASE FlushedJob(j)
  BY <1>1, <1>4 DEF FlushedJob, Answered, ConsistedFacts
<1>5. CASE FailedJob(j)
  BY <1>1, <1>5 DEF FailedJob, DeleteFacts, Answered, ConsistedFacts
<1> QED BY <1>2, <1>3, <1>4, <1>5 DEF JobFacts

(* Types, structure and bounds survive executing a command                 *)
(* (ProcessConsist).                                                       *)
LEMMA ProcessConsistTypes ==
    ASSUME ConsistAssumption, TInv, NEW j \in jobs, ProcessConsist(j)
    PROVE  TInv'
<1>e. JobFacts(j)
  BY JobEffect
<1>g. /\ DeleteFacts(j.client)
      /\ handle' \in [Clients -> HandleShape]
      /\ \A d \in Clients : handle'[d].stamp = handle[d].stamp /\ handle'[d].version = handle[d].version
      /\ fresh' \subseteq Clients \cup {Server}
  BY <1>e, JobGeneral
<1>1. PICK ok \in BOOLEAN : replies' \subseteq replies \cup {[client |-> j.client, ok |-> ok, stamp |-> j.stamp]}
  BY <1>e, JobGeneral
<1>2. HistoryShape'
  BY <1>e, <1>g DEF JobFacts, TInv, Shape, HistoryShape
<1>3. /\ jobs' \subseteq [client : Clients, op : SUBSET Commands, stamp : Nat]
      /\ replies' \subseteq [client : Clients, ok : BOOLEAN, stamp : Nat]
      /\ \A m \in jobs' \cup replies' : m.stamp <= openTimeStamp
  <2>1. jobs' \subseteq jobs
    BY <1>e DEF JobFacts
  <2>2. [client |-> j.client, ok |-> ok, stamp |-> j.stamp] \in [client : Clients, ok : BOOLEAN, stamp : Nat]
    BY <1>e DEF JobFacts
  <2>3. j.stamp <= openTimeStamp
    BY <1>e DEF JobFacts
  <2>4. replies' \subseteq [client : Clients, ok : BOOLEAN, stamp : Nat] /\ \A m \in replies' : m.stamp <= openTimeStamp
    BY <1>1, <2>2, <2>3 DEF TInv, Shape, ClientShape, Bounds, Stamped
  <2> QED BY <2>1, <2>4 DEF TInv, Shape, ClientShape, Bounds, Stamped
<1>4. j.client \in Clients /\ UNCHANGED <<version, use, msgs, openTimeStamp, action, cmd, late, procVars, up>>
  BY <1>e DEF JobFacts
<1> QED BY <1>g, <1>2, <1>3, <1>4, AnswerStep

(* What receiving a reply (ProcessConsistReply) does, spelled out.         *)
LEMMA ReplyEffect ==
    ASSUME ConsistAssumption, TInv, NEW r \in replies, ProcessConsistReply(r)
    PROVE  ReplyFacts(r)
<1> DEFINE c == r.client
<1>1. c \in Clients /\ r.ok \in BOOLEAN
  BY DEF TInv, Shape, ClientShape
<1>2. /\ ~MonitorHeld /\ replies' = replies \ {r} /\ msgs' = [msgs EXCEPT ![c] = {}]
      /\ UNCHANGED <<version, use, openTimeStamp, cmd, late, procVars, up, handle, jobs, history>>
  BY DEF ProcessConsistReply
<1>3. msgs' \in [Clients -> SUBSET Commands] /\ msgs'[c] = {} /\ \A d \in Clients \ {c} : msgs'[d] = msgs[d]
  BY <1>1, <1>2 DEF TInv, Shape, ServerShape
<1>4. EntryShape /\ Unlisted
  BY DEF TInv, Shape, ServerShape, Structure
<1>5. CASE msgs[c] = {}
  <2>1. UNCHANGED <<entry, lastWriter, action>>
    BY <1>5 DEF ProcessConsistReply
  <2> QED BY <1>1, <1>2, <1>3, <1>4, <1>5, <2>1 DEF ReplyFacts, EntryShape, Unlisted
<1>6. CASE msgs[c] # {} /\ ~r.ok
  <2>1. action' = [action EXCEPT !.error = TRUE] /\ UNCHANGED <<entry, lastWriter>>
    BY <1>6 DEF ProcessConsistReply
  <2> QED BY <1>1, <1>2, <1>3, <1>4, <1>6, <2>1 DEF ReplyFacts, EntryShape, Unlisted
<1>7. CASE msgs[c] # {} /\ r.ok
  <2> DEFINE gone == entry[c].ref = 0 /\ lastWriter' # c
             k == entry[c].cached /\ "invalidate" \notin msgs[c]
             f == IF gone THEN NoEntry ELSE [entry[c] EXCEPT !.cached = k]
  <2>1. /\ action' = action
        /\ lastWriter' = (IF "writeBack" \in msgs[c] /\ lastWriter = c THEN None ELSE lastWriter)
        /\ entry' = [entry EXCEPT ![c] =
                       IF @.ref = 0 /\ lastWriter' # c THEN NoEntry
                       ELSE [@ EXCEPT !.cached = entry[c].cached /\ "invalidate" \notin msgs[c]]]
    BY <1>7 DEF ProcessConsistReply
  <2>2. entry \in [Clients -> NatEntry] /\ entry[c] \in NatEntry
    BY <1>1, <1>4 DEF EntryShape
  <2>3. [entry[c] EXCEPT !.cached = entry[c].cached /\ "invalidate" \notin msgs[c]] = [entry[c] EXCEPT !.cached = k]
    BY <2>2 DEF NatEntry
  <2>4. entry'[c] = f /\ \A d \in Clients \ {c} : entry'[d] = entry[d]
    <3>1. \A d \in Clients \ {c} : entry'[d] = entry[d]
      BY <2>1, <2>2
    <3>2. entry'[c] = IF entry[c].ref = 0 /\ lastWriter' # c THEN NoEntry
                      ELSE [entry[c] EXCEPT !.cached = entry[c].cached /\ "invalidate" \notin msgs[c]]
      BY <1>1, <2>1, <2>2
    <3> QED BY <3>1, <3>2, <2>3
  <2>5. ~gone => /\ f \in NatEntry /\ f.listed = entry[c].listed /\ f.ref = entry[c].ref
                 /\ f.write = entry[c].write /\ f.stamp = entry[c].stamp /\ f.cached = k
    <3>1. k \in BOOLEAN
      BY <2>2 DEF NatEntry
    <3> HIDE DEF k, gone
    <3> QED BY <2>2, <3>1 DEF NatEntry
  <2>6. gone => f = NoEntry
    OBVIOUS
  <2> HIDE DEF gone, k, f
  <2>7. entry' = [entry EXCEPT ![c] = entry'[c]]
    BY <1>1, <2>1, <2>2
  <2>8. f \in NatEntry
    <3>1. NoEntry \in NatEntry
      BY DEF NoEntry, NatEntry
    <3> QED BY <2>5, <2>6, <3>1
  <2>9. EntryShape'
    BY <1>1, <2>2, <2>4, <2>7, <2>8 DEF EntryShape
  <2>10. f.listed = FALSE => f = NoEntry
    <3>1. CASE gone
      BY <3>1, <2>6
    <3>2. CASE ~gone
      <4>1. ASSUME f.listed = FALSE PROVE f = NoEntry
        <5>1. entry[c] = NoEntry
          BY <1>1, <1>4, <2>5, <3>2, <4>1 DEF Unlisted
        <5>2. f.ref = 0 /\ f.write = 0 /\ f.stamp = 0 /\ f.cached = FALSE /\ f.listed = FALSE /\ f \in NatEntry
          <6>1. entry[c].ref = 0 /\ entry[c].write = 0 /\ entry[c].stamp = 0 /\ ~entry[c].cached
            BY <5>1 DEF NoEntry
          <6>2. k = FALSE
            BY <6>1 DEF k
          <6> QED BY <6>1, <6>2, <2>5, <3>2, <4>1
        <5>3. ASSUME NEW e \in NatEntry, e.listed = FALSE, e.ref = 0, e.write = 0, e.cached = FALSE, e.stamp = 0
              PROVE  e = NoEntry
          BY <5>3 DEF NatEntry, NoEntry
        <5> QED BY <5>2, <5>3
      <4> QED BY <4>1
    <3> QED BY <3>1, <3>2
  <2>11. Unlisted'
    BY <1>4, <2>4, <2>8, <2>10 DEF Unlisted, NatEntry
  <2>12. SettledReply(c)
    <3>1. CASE gone
      BY <3>1, <2>1, <2>4, <2>6 DEF SettledReply, gone
    <3>2. CASE ~gone
      <4>1. /\ entry'[c].listed = entry[c].listed /\ entry'[c].ref = entry[c].ref
            /\ entry'[c].write = entry[c].write /\ entry'[c].stamp = entry[c].stamp
            /\ entry'[c].cached <=> (entry[c].cached /\ "invalidate" \notin msgs[c])
        BY <3>2, <2>4, <2>5 DEF k
      <4> QED BY <4>1, <3>2, <2>1, <2>4 DEF SettledReply, gone
    <3> QED BY <3>1, <3>2
  <2> QED BY <1>1, <1>2, <1>3, <1>7, <2>9, <2>11, <2>12 DEF ReplyFacts
<1> QED BY <1>1, <1>5, <1>6, <1>7

(* Types, structure and bounds survive receiving a reply                   *)
(* (ProcessConsistReply).                                                  *)
LEMMA ReplyTypes ==
    ASSUME ConsistAssumption, TInv, MsgsTied, NEW r \in replies, ProcessConsistReply(r)
    PROVE  TInv'
<1>e. ReplyFacts(r)
  BY ReplyEffect
<1>1. /\ action' \in [by : Procs \cup {None}, phase : Phases, cacheable : BOOLEAN,
                   todo : SUBSET Clients, next : Clients \cup {None},
                   error : BOOLEAN, armed : BOOLEAN]
      /\ action'.by = action.by /\ action'.phase = action.phase /\ action'.todo = action.todo
      /\ action'.next = action.next /\ action'.armed = action.armed
      /\ action'.cacheable = action.cacheable
  BY <1>e, ActionRecord DEF ReplyFacts, SettledReply
<1>2. lastWriter' \in Clients \cup {None}
  BY <1>e DEF ReplyFacts, SettledReply, TInv, Shape, ServerShape
<1>3. \A d \in Clients : entry'[d].ref <= entry[d].ref /\ entry'[d].write <= entry[d].write
                         /\ entry'[d].stamp <= entry[d].stamp
  <2>1. NoEntry.ref = 0 /\ NoEntry.write = 0 /\ NoEntry.stamp = 0
    BY DEF NoEntry
  <2>2. \A d \in Clients : entry[d].ref \in Nat /\ entry[d].write \in Nat /\ entry[d].stamp \in Nat
    BY DEF TInv, Shape, ServerShape, EntryShape, NatEntry
  <2> QED BY <1>e, <2>1, <2>2 DEF ReplyFacts, SettledReply
<1>4. ServerShape'
  BY <1>e, <1>1, <1>2 DEF ReplyFacts, TInv, Shape, ServerShape
<1>5. ProcShape' /\ ModeTied' /\ HistoryShape'
  BY <1>e, ProcSame, HistorySame DEF ReplyFacts
<1>6. ClientShape'
  BY <1>e DEF ReplyFacts, TInv, Shape, ClientShape
<1>7. Structure'
  <2>1. (action'.phase = "none" => action' = NoAction) /\ (action' = NoAction => action'.phase = "none")
    <3>1. CASE action' = action
      BY <3>1 DEF TInv, Structure, ActionTied
    <3>2. CASE action' # action
      <4>1. msgs[r.client] # {} /\ ~r.ok /\ action' = [action EXCEPT !.error = TRUE]
        BY <1>e, <3>2 DEF ReplyFacts, SettledReply
      <4>2. action'.error = TRUE /\ NoAction.error = FALSE
        BY <4>1, ActionRecord DEF NoAction
      <4>3. action'.phase # "none"
        BY <1>1, <1>e, <4>1 DEF MsgsTied, ReplyFacts
      <4> QED BY <4>2, <4>3
    <3> QED BY <3>1, <3>2
  <2> QED BY <2>1, <1>e, <1>1, <1>5 DEF ReplyFacts, TInv, Structure, ActionTied, CmdTied, procVars
<1>8. Sent' = Sent /\ Entering' = Entering /\ WEntering' = WEntering
  BY <1>e, <1>1, QuietSets DEF ReplyFacts, procVars
<1>9. Opened' /\ Summed'
  BY <1>3, <1>4, <1>5, <1>6, <1>8, <1>e, QuietCounts DEF ReplyFacts, procVars, Shape
<1>10. Timed'
  BY <1>e, <1>1 DEF ReplyFacts, TInv, Bounds, Timed
<1>11. Stamped'
  <2>1. \A d \in Clients : entry'[d].stamp <= openTimeStamp
    BY <1>3, <1>4 DEF TInv, Shape, ServerShape, EntryShape, NatEntry, Bounds, Stamped
  <2>2. \A m \in jobs' \cup replies' : m.stamp <= openTimeStamp
    BY <1>e DEF ReplyFacts, TInv, Bounds, Stamped
  <2>3. UNCHANGED <<version, openTimeStamp, cmd, grant, handle>>
    BY <1>e DEF ReplyFacts, procVars
  <2> QED BY <2>1, <2>2, <2>3 DEF TInv, Bounds, Stamped
<1> QED BY <1>4, <1>5, <1>6, <1>7, <1>9, <1>10, <1>11 DEF TInv, Shape, Bounds

(* What the crash of a workstation does, spelled out.                      *)
LEMMA CrashEffect ==
    ASSUME ConsistAssumption, TInv, NEW c \in Clients, Crash(c)
    PROVE  CrashFacts(c)
<1>1. NoHandle \in HandleShape /\ handle \in [Clients -> HandleShape] /\ up \in [Clients -> BOOLEAN]
  BY HandleType DEF NoHandle, HandleShape, TInv, Shape, ClientShape
<1> QED BY <1>1 DEF Crash, CrashFacts, CrashedProcs

(* Types, structure and bounds survive the crash of a workstation.         *)
LEMMA CrashTypes ==
    ASSUME ConsistAssumption, TInv, NEW c \in Clients, Crash(c)
    PROVE  TInv'
<1>e. CrashFacts(c)
  BY CrashEffect
<1>1. ServerShape' /\ Timed' /\ Unlisted'
  BY <1>e, ServerSame DEF CrashFacts
<1>f. /\ pc' \in [Procs -> States] /\ mode' \in [Procs -> Modes \cup {"none"}]
      /\ grant' \in [Procs -> [cacheable : BOOLEAN, stamp : Nat, version : Nat]]
      /\ \A q \in CrashedProcs(c) : pc'[q] = "dead" /\ mode'[q] = "none" /\ grant'[q] = NoGrant
      /\ \A q \in Procs \ CrashedProcs(c) : pc'[q] = pc[q] /\ mode'[q] = mode[q] /\ grant'[q] = grant[q]
      /\ ModeTied'
  <2>1. CrashedProcs(c) \in SUBSET Procs
    BY DEF CrashedProcs
  <2> QED BY <1>e, <2>1, FinishEffect DEF CrashFacts
<1>2. ProcShape'
  BY <1>e, <1>f DEF CrashFacts, TInv, Shape, ProcShape
<1>3. ClientShape' /\ HistoryShape'
  BY <1>e DEF CrashFacts, TInv, Shape, ClientShape, HistoryShape, HandleShape
<1>4. Structure'
  <2>1. \A q \in Procs : pc'[q] = "consist" <=> pc[q] = "consist"
    BY <1>f DEF CrashedProcs
  <2> QED BY <1>1, <1>e, <1>f, <2>1 DEF CrashFacts, TInv, Structure, ActionTied, CmdTied, serverVars
<1>5. Sent' = Sent /\ Entering' = Entering /\ WEntering' = WEntering
  <2>1. CrashedProcs(c) \in SUBSET Procs /\ \A q \in CrashedProcs(c) : pc[q] \notin {"sent", "named", "consist"}
    BY DEF CrashedProcs
  <2>2. Finish(CrashedProcs(c), "dead") /\ action' = action
    BY <1>e DEF CrashFacts, serverVars
  <2> QED BY <2>1, <2>2, FinishSets
<1>6. Opened' /\ Summed'
  BY <1>e, <1>1, <1>2, <1>3, <1>5, QuietCounts DEF CrashFacts, serverVars, Shape, TInv, ServerShape, EntryShape, NatEntry
<1>7. Stamped'
  <2>1. NoGrant.stamp = 0 /\ NoGrant.version = 0 /\ NoHandle.stamp = 0 /\ NoHandle.version = 0
        /\ openTimeStamp \in Nat /\ version \in Nat
    BY DEF NoGrant, NoHandle, TInv, Shape, ServerShape
  <2>2. \A q \in Procs : grant'[q].stamp <= openTimeStamp /\ grant'[q].version <= version
    BY <1>f, <2>1 DEF TInv, Bounds, Stamped
  <2>3. \A d \in Clients : handle'[d].stamp <= openTimeStamp /\ handle'[d].version <= version
    BY <1>e, <2>1 DEF CrashFacts, TInv, Bounds, Stamped
  <2>4. \A m \in jobs' \cup replies' : m.stamp <= openTimeStamp
    BY <1>e DEF CrashFacts, TInv, Bounds, Stamped
  <2>5. UNCHANGED <<version, openTimeStamp, cmd, entry>>
    BY <1>e DEF CrashFacts, serverVars
  <2> QED BY <2>2, <2>3, <2>4, <2>5 DEF TInv, Bounds, Stamped
<1> QED BY <1>1, <1>2, <1>3, <1>4, <1>6, <1>7 DEF TInv, Shape, Bounds

(* Types, structure and bounds survive killing a crashed client            *)
(* (Fsio_FileClientKill).                                                  *)
LEMMA ClientKillTypes ==
    ASSUME ConsistAssumption, TInv, NEW c \in Clients, ClientKill(c)
    PROVE  TInv'
<1>e. ClientKillFacts(c)
  BY DEF ClientKill, ClientKillFacts, KilledProcs
<1>d. DroppedFacts(c)
  BY <1>e, DroppedEffect DEF ClientKillFacts
<1>k. KilledProcs(c) \in SUBSET Procs /\ \A q \in KilledProcs(c) : pc[q] \notin {"sent", "named", "consist"}
  BY DEF KilledProcs
<1>1. ServerShape'
  BY <1>e, <1>d DEF ClientKillFacts, DroppedFacts, TInv, Shape, ServerShape
<1>f. /\ pc' \in [Procs -> States] /\ mode' \in [Procs -> Modes \cup {"none"}]
      /\ grant' \in [Procs -> [cacheable : BOOLEAN, stamp : Nat, version : Nat]]
      /\ \A q \in KilledProcs(c) : pc'[q] = "dead" /\ mode'[q] = "none" /\ grant'[q] = NoGrant
      /\ \A q \in Procs \ KilledProcs(c) : pc'[q] = pc[q] /\ mode'[q] = mode[q] /\ grant'[q] = grant[q]
      /\ ModeTied'
  BY <1>e, <1>k, FinishEffect DEF ClientKillFacts
<1>2. ProcShape'
  BY <1>e, <1>f DEF ClientKillFacts, TInv, Shape, ProcShape
<1>3. ClientShape' /\ HistoryShape'
  BY <1>e, ClientSame, HistorySame DEF ClientKillFacts
<1>4. Structure'
  <2>1. \A q \in Procs : pc'[q] = "consist" <=> pc[q] = "consist"
    BY <1>f, <1>k
  <2> QED BY <1>d, <1>e, <1>f, <2>1 DEF ClientKillFacts, DroppedFacts, TInv, Structure, ActionTied, CmdTied
<1>5. Sent' = Sent /\ Entering' = Entering /\ WEntering' = WEntering
  BY <1>k, <1>e, FinishSets DEF ClientKillFacts
<1>6. Opened' /\ Summed'
  BY <1>d, <1>e, <1>5, DroppedCounts DEF ClientKillFacts
<1>7. Timed' /\ Stamped'
  <2>1. NoGrant.stamp = 0 /\ NoGrant.version = 0 /\ openTimeStamp \in Nat /\ version \in Nat
    BY DEF NoGrant, TInv, Shape, ServerShape
  <2>2. \A d \in Clients : entry'[d].stamp \in Nat /\ entry[d].stamp \in Nat
    BY <1>d DEF DroppedFacts, EntryShape, NatEntry, TInv, Shape, ServerShape
  <2>3. Timed'
    BY <1>e DEF ClientKillFacts, TInv, Bounds, Timed
  <2>4. \A d \in Clients : entry'[d].stamp <= openTimeStamp
    BY <1>d, <2>1, <2>2 DEF DroppedFacts, TInv, Bounds, Stamped
  <2>5. \A q \in Procs : grant'[q].stamp <= openTimeStamp /\ grant'[q].version <= version
    BY <1>f, <2>1 DEF TInv, Bounds, Stamped
  <2> QED BY <1>e, <2>3, <2>4, <2>5 DEF ClientKillFacts, TInv, Bounds, Stamped, clientVars
<1> QED BY <1>1, <1>2, <1>3, <1>4, <1>6, <1>7 DEF TInv, Shape, Bounds

(* What forgetting idle clients (Fsconsist_NumClients) does, spelled out.  *)
LEMMA NumClientsEffect ==
    ASSUME ConsistAssumption, TInv, NumClients
    PROVE  ForgottenFacts
<1> DEFINE idle == {c \in Clients : entry[c].listed /\ entry[c].ref = 0 /\ lastWriter # c}
<1>1. /\ ~InProgress /\ use.ref = 0
      /\ entry' = [c \in Clients |-> IF c \in idle THEN NoEntry ELSE entry[c]]
      /\ UNCHANGED <<version, use, lastWriter, msgs, openTimeStamp, action, cmd,
                       late, procVars, clientVars, history>>
  BY DEF NumClients
<1>2. NoEntry \in NatEntry /\ entry \in [Clients -> NatEntry] /\ Unlisted
  BY DEF NoEntry, NatEntry, TInv, Shape, ServerShape, EntryShape, Structure
<1>3. EntryShape'
  BY <1>1, <1>2 DEF EntryShape
<1>4. Unlisted'
  BY <1>1, <1>2 DEF Unlisted
<1> QED BY <1>1, <1>3, <1>4, ActionFacts DEF ForgottenFacts

(* Types, structure and bounds survive forgetting idle clients             *)
(* (Fsconsist_NumClients).                                                 *)
LEMMA NumClientsTypes ==
    ASSUME ConsistAssumption, TInv, NumClients
    PROVE  TInv'
<1>e. ForgottenFacts
  BY NumClientsEffect
<1>1. ServerShape'
  BY <1>e DEF ForgottenFacts, TInv, Shape, ServerShape
<1>2. ProcShape' /\ ModeTied' /\ ClientShape' /\ HistoryShape'
  BY <1>e, ProcSame, ClientSame, HistorySame DEF ForgottenFacts
<1>3. Structure'
  BY <1>e, <1>2 DEF ForgottenFacts, TInv, Structure, ActionTied, CmdTied, procVars
<1>4. Sent' = Sent /\ Entering' = Entering /\ WEntering' = WEntering
  BY <1>e, QuietSets DEF ForgottenFacts, procVars
<1>5. \A d \in Clients : entry'[d].ref <= entry[d].ref /\ entry'[d].write <= entry[d].write
                         /\ entry'[d].stamp <= entry[d].stamp
  <2>1. \A d \in Clients : entry[d].ref \in Nat /\ entry[d].write \in Nat /\ entry[d].stamp \in Nat
    BY DEF TInv, Shape, ServerShape, EntryShape, NatEntry
  <2>2. NoEntry.ref = 0 /\ NoEntry.write = 0 /\ NoEntry.stamp = 0
    BY DEF NoEntry
  <2> QED BY <1>e, <2>1, <2>2 DEF ForgottenFacts
<1>6. Opened' /\ Summed'
  BY <1>e, <1>1, <1>2, <1>4, <1>5, QuietCounts DEF ForgottenFacts, procVars, Shape
<1>7. Timed'
  BY <1>e DEF ForgottenFacts, TInv, Bounds, Timed
<1>8. Stamped'
  <2>1. \A d \in Clients : entry'[d].stamp <= openTimeStamp
    BY <1>1, <1>5 DEF TInv, Shape, ServerShape, EntryShape, NatEntry, Bounds, Stamped
  <2> QED BY <1>e, <2>1 DEF ForgottenFacts, TInv, Bounds, Stamped, procVars, clientVars
<1> QED BY <1>1, <1>2, <1>3, <1>6, <1>7, <1>8 DEF TInv, Shape, Bounds

(* Types, structure and bounds survive doing nothing.                      *)
LEMMA StutterTypes ==
    ASSUME ConsistAssumption, TInv, UNCHANGED vars
    PROVE  TInv'
<1>1. UNCHANGED <<serverVars, procVars, clientVars, history>>
  BY DEF vars
<1>2. ServerShape' /\ Timed' /\ Unlisted' /\ ProcShape' /\ ModeTied' /\ ClientShape' /\ HistoryShape'
  BY <1>1, ServerSame, ProcSame, ClientSame, HistorySame
<1>3. Structure'
  BY <1>1, <1>2 DEF TInv, Structure, ActionTied, CmdTied, serverVars, procVars
<1>4. Sent' = Sent /\ Entering' = Entering /\ WEntering' = WEntering
  BY <1>1, QuietSets DEF serverVars, procVars
<1>5. Opened' /\ Summed'
  BY <1>1, <1>2, <1>4, QuietCounts DEF serverVars, procVars, Shape, TInv, ServerShape, EntryShape, NatEntry
<1>6. Stamped'
  BY <1>1 DEF TInv, Bounds, Stamped, serverVars, procVars, clientVars
<1> QED BY <1>2, <1>3, <1>5, <1>6 DEF TInv, Shape, Bounds

(* No step but an open's leaves commands without an action in progress.    *)
LEMMA MsgsTiedStep ==
    ASSUME ConsistAssumption, TInv, MsgsTied, [Next]_vars
    PROVE  MsgsTied'
<1>1. CASE UNCHANGED <<msgs, action>>
  BY <1>1 DEF MsgsTied
<1>2. ASSUME NEW p \in Procs, StartConsistency(p) PROVE MsgsTied'
  <2>1. action.phase = "none"
    BY <1>2, ActionFacts DEF StartConsistency
  <2> QED BY <1>2, <2>1 DEF StartConsistency, MsgsTied
<1>3. ASSUME NEW p \in Procs, AbortOpen(p) PROVE MsgsTied'
  BY <1>3 DEF AbortOpen, Kill, MsgsTied, TInv, Shape, ServerShape
<1>4. CASE VisitClient
  <2>1. VisitFacts
    BY <1>4, VisitEffect
  <2>2. action'.phase \in {"visit", "command"}
    BY <2>1 DEF VisitFacts
  <2> QED BY <2>2 DEF MsgsTied
<1>5. CASE CommandDone
  <2>1. action'.phase = "visit"
    BY <1>5, CommandDoneEffect DEF DoneFacts
  <2> QED BY <2>1 DEF MsgsTied
<1>6. CASE UpdateList
  <2>1. action'.phase = "wait"
    BY <1>6, UpdateEffect DEF UpdateFacts
  <2> QED BY <2>1 DEF MsgsTied
<1>7. CASE EndConsistency
  BY <1>7, EndEffect DEF EndFacts, MsgsTied
<1>8. CASE ConsistTimeoutIntr
  <2>1. action.phase = "wait" /\ action' = [action EXCEPT !.armed = FALSE]
    BY <1>8 DEF ConsistTimeoutIntr
  <2>2. action'.phase = "wait"
    BY <2>1, ActionRecord
  <2> QED BY <2>2 DEF MsgsTied
<1>9. CASE ConsistTimeout
  BY <1>9 DEF ConsistTimeout, MsgsTied
<1>10. ASSUME NEW r \in replies, ProcessConsistReply(r) PROVE MsgsTied'
  <2>1. ReplyFacts(r)
    BY <1>10, ReplyEffect
  <2>2. action'.phase = action.phase
    BY <2>1, ActionRecord DEF ReplyFacts, SettledReply
  <2> QED BY <2>1, <2>2 DEF ReplyFacts, MsgsTied
<1>11. ASSUME NEW p \in Procs, ProcStep(p), ~StartConsistency(p), ~AbortOpen(p) PROVE MsgsTied'
  <2>1. UNCHANGED <<msgs, action>>
    BY <1>11 DEF ProcStep, OpenSend, NameOpen, OpenReply, OpenDone, IoOpen, ReadFill, Write,
                 CloseSend, Close, serverVars
  <2> QED BY <2>1 DEF MsgsTied
<1>12. ASSUME NEW c \in Clients, ClientStep(c) PROVE MsgsTied'
  <2>1. UNCHANGED <<msgs, action>>
    BY <1>12 DEF ClientStep, RpcConsist, CleanBlocks, FileScavenge, Crash, ClientKill, serverVars
  <2> QED BY <2>1 DEF MsgsTied
<1>13. ASSUME NEW j \in jobs, ProcessConsist(j) PROVE MsgsTied'
  BY <1>13 DEF ProcessConsist, MsgsTied
<1>14. CASE NumClients
  BY <1>14 DEF NumClients, MsgsTied
<1>15. CASE CommandTimeout
  BY <1>15 DEF CommandTimeout, MsgsTied
<1>16. CASE UNCHANGED vars
  BY <1>16 DEF vars, serverVars, MsgsTied
<1> QED
  BY <1>2, <1>3, <1>4, <1>5, <1>6, <1>7, <1>8, <1>9, <1>10, <1>11, <1>12, <1>13, <1>14, <1>15, <1>16
  DEF Next, ActionStep

(* Types, structure and bounds survive every step.                         *)
LEMMA TypesStep ==
    ASSUME ConsistAssumption, TInv, MsgsTied, [Next]_vars
    PROVE  TInv'
<1>1. ASSUME NEW p \in Procs, ProcStep(p) PROVE TInv'
  BY <1>1, OpenSendTypes, NameOpenTypes, StartConsistencyTypes, AbortOpenTypes, OpenReplyTypes,
     OpenDoneTypes, IoOpenTypes, ReadFillTypes, WriteTypes, CloseSendTypes, CloseTypes DEF ProcStep
<1>2. ASSUME ActionStep PROVE TInv'
  BY <1>2, VisitClientTypes, CommandTimeoutTypes, CommandDoneTypes, UpdateListTypes,
     EndConsistencyTypes, ConsistTimeoutIntrTypes, ConsistTimeoutTypes DEF ActionStep
<1>3. ASSUME NEW c \in Clients, ClientStep(c) PROVE TInv'
  BY <1>3, RpcConsistTypes, CleanBlocksTypes, FileScavengeTypes, CrashTypes, ClientKillTypes DEF ClientStep
<1>4. ASSUME NEW j \in jobs, ProcessConsist(j) PROVE TInv'
  BY <1>4, ProcessConsistTypes
<1>5. ASSUME NEW r \in replies, ProcessConsistReply(r) PROVE TInv'
  BY <1>5, ReplyTypes
<1> QED BY <1>1, <1>2, <1>3, <1>4, <1>5, NumClientsTypes, StutterTypes DEF Next

(* They hold at the start, where no command is outstanding.                *)
LEMMA TypesInit ==
    ASSUME ConsistAssumption, Init
    PROVE  TInv /\ MsgsTied
BY InitTypes DEF Init, MsgsTied

(* Types, structure and bounds are an invariant: an action in progress     *)
(* belongs to one open that has entered the monitor, commands are          *)
(* outstanding only for the action, counts are sums of elements.           *)
THEOREM TypedInvHolds == Spec => []TypedInv
<1>1. Init => TypedInv
  BY TypesInit, ConsistAssumption DEF TypedInv
<1>2. TypedInv /\ [Next]_vars => TypedInv'
  BY TypesStep, MsgsTiedStep, ConsistAssumption DEF TypedInv
<1> QED BY <1>1, <1>2, PTL DEF Spec

(* The bounds of the configuration follow from the inductive invariant.    *)
LEMMA TypedInvBounds ==
    ASSUME ConsistAssumption, TInv
    PROVE  TypeOK
<1>1. /\ opens \in Nat /\ opens <= MaxOpens /\ MaxOpens \in Nat
      /\ version \in Nat /\ version >= 1 /\ openTimeStamp \in Nat /\ late \in Nat
      /\ use \in [ref : Nat, write : Nat] /\ use.ref \in Nat /\ use.write \in Nat
  BY DEF TInv, Shape, ServerShape, ProcShape, ConsistAssumption
<1>2. version <= MaxOpens + 1 /\ use.ref <= MaxOpens /\ use.write <= MaxOpens /\ openTimeStamp <= MaxOpens
  BY <1>1, CardTypes DEF TInv, Bounds, Opened
<1>3. late <= MaxOpens
  <2>1. One(action.armed) \in Nat
    BY DEF One
  <2>2. late <= openTimeStamp
    BY <1>1, <2>1 DEF TInv, Bounds, Timed
  <2> QED BY <1>1, <1>2, <2>2
<1>4. \A c \in Clients : entry[c].ref <= MaxOpens /\ entry[c].write <= MaxOpens
  <2>1. SumRefs \in Nat /\ SumWrites \in Nat /\ SumRefs <= use.ref /\ SumWrites <= use.write
    BY <1>1, SumsType, CardTypes DEF TInv, Bounds, Summed, Shape, ServerShape
  <2>2. \A c \in Clients : entry[c].ref <= SumRefs /\ entry[c].write <= SumWrites
                           /\ entry[c].ref \in Nat /\ entry[c].write \in Nat
    BY SumsType DEF TInv, Shape, ServerShape, EntryShape, NatEntry
  <2> QED BY <1>1, <1>2, <2>1, <2>2
<1>5. use \in [ref : 0 .. MaxOpens, write : 0 .. MaxOpens]
  BY <1>1, <1>2
<1>6. entry \in [Clients -> Entry]
  <2>1. entry \in [Clients -> NatEntry]
    BY DEF TInv, Shape, ServerShape, EntryShape
  <2>2. \A c \in Clients : entry[c] \in Entry
    <3> SUFFICES ASSUME NEW c \in Clients PROVE entry[c] \in Entry
      OBVIOUS
    <3>1. entry[c] \in NatEntry /\ entry[c].stamp <= MaxOpens
      BY <1>1, <1>2, <2>1 DEF TInv, Bounds, Stamped, NatEntry
    <3> QED BY <1>1, <1>4, <3>1 DEF NatEntry, Entry
  <2> QED BY <2>1, <2>2
<1>7. grant \in [Procs -> [cacheable : BOOLEAN, stamp : 0 .. MaxOpens, version : 0 .. MaxOpens + 1]]
  <2>1. grant \in [Procs -> [cacheable : BOOLEAN, stamp : Nat, version : Nat]]
    BY DEF TInv, Shape, ProcShape
  <2>2. \A p \in Procs : grant[p].stamp <= MaxOpens /\ grant[p].version <= MaxOpens + 1
    BY <1>1, <1>2, <2>1 DEF TInv, Bounds, Stamped
  <2> QED BY <1>1, <2>1, <2>2
<1>8. handle \in [Clients -> [stamp : 0 .. MaxOpens, version : 0 .. MaxOpens + 1,
                              cacheable : BOOLEAN, block : {"none", "clean", "dirty"}]]
  <2>1. handle \in [Clients -> [stamp : Nat, version : Nat,
                              cacheable : BOOLEAN, block : {"none", "clean", "dirty"}]]
    BY DEF TInv, Shape, ClientShape
  <2>2. \A c \in Clients : handle[c].stamp <= MaxOpens /\ handle[c].version <= MaxOpens + 1
    BY <1>1, <1>2, <2>1 DEF TInv, Bounds, Stamped
  <2> QED BY <1>1, <2>1, <2>2
<1>9. /\ jobs \subseteq [client : Clients, op : SUBSET Commands, stamp : 0 .. MaxOpens]
      /\ replies \subseteq [client : Clients, ok : BOOLEAN, stamp : 0 .. MaxOpens]
  <2>1. /\ jobs \subseteq [client : Clients, op : SUBSET Commands, stamp : Nat]
        /\ replies \subseteq [client : Clients, ok : BOOLEAN, stamp : Nat]
        /\ \A m \in jobs \cup replies : m.stamp <= openTimeStamp
    BY DEF TInv, Shape, ClientShape, Bounds, Stamped
  <2>2. \A m \in jobs : m \in [client : Clients, op : SUBSET Commands, stamp : 0 .. MaxOpens]
    BY <1>1, <1>2, <2>1
  <2>3. \A m \in replies : m \in [client : Clients, ok : BOOLEAN, stamp : 0 .. MaxOpens]
    BY <1>1, <1>2, <2>1
  <2> QED BY <2>2, <2>3
<1>10. version \in 1 .. MaxOpens + 1 /\ openTimeStamp \in 0 .. MaxOpens /\ late \in 0 .. MaxOpens
  BY <1>1, <1>2, <1>3
<1>11. /\ lastWriter \in Clients \cup {None} /\ msgs \in [Clients -> SUBSET Commands]
       /\ action.by \in Procs \cup {None} /\ action.phase \in {"none", "visit", "command", "wait"}
       /\ action.todo \subseteq Clients /\ action.next \in Clients \cup {None}
       /\ cmd.answer \in {"none", "ok", "stale", "timeout"}
  BY ActionRecord, CmdRecord DEF TInv, Shape, ServerShape, Phases
<1>12. /\ pc \in [Procs -> States] /\ mode \in [Procs -> Modes \cup {"none"}]
       /\ up \in [Clients -> BOOLEAN] /\ HistoryShape
  BY DEF TInv, Shape, ProcShape, ClientShape
<1> QED BY <1>5, <1>6, <1>7, <1>8, <1>9, <1>10, <1>11, <1>12 DEF TypeOK, States, HistoryShape

(* Every variable keeps its type and its bounds, whatever the workstations *)
(* open, write and close and whichever of them crash; of the counts this   *)
(* says that no Fsconsist_Close, no Fsio_FileClientKill and no abort of an *)
(* open (NameOpen, StartConsistency) takes more than it gave.              *)
THEOREM ConsistTypeCorrect == Spec => []TypeOK
<1>1. TypedInv => TypeOK
  BY TypedInvBounds, ConsistAssumption DEF TypedInv
<1> QED BY <1>1, TypedInvHolds, PTL

(* The opens an element counts are finitely many.                          *)
LEMMA HolderTypes ==
    ASSUME ConsistAssumption, NEW c \in Clients
    PROVE  /\ Holders(c) \subseteq Procs /\ WriteHolders(c) \subseteq Holders(c)
           /\ IsFiniteSet(Holders(c)) /\ IsFiniteSet(WriteHolders(c))
           /\ Cardinality(Holders(c)) \in Nat /\ Cardinality(WriteHolders(c)) \in Nat
           /\ Cardinality(Holders(c)) = 0 <=> Holders(c) = {}
           /\ Cardinality(WriteHolders(c)) = 0 <=> WriteHolders(c) = {}
<1>1. Holders(c) \subseteq Procs /\ WriteHolders(c) \subseteq Holders(c)
  BY DEF Holders, WriteHolders
<1>2. IsFiniteSet(Holders(c)) /\ IsFiniteSet(WriteHolders(c))
  BY <1>1, FS_Subset DEF ConsistAssumption
<1> QED BY <1>1, <1>2, FS_CardinalityType, FS_EmptySet

(* Steps that begin and end no use keep the counts exact.                  *)
LEMMA QuietUsesStep ==
    ASSUME ConsistAssumption, TInv, EntryShape', CInv, QuietUses
    PROVE  CInv'
<1>1. \A c \in Clients \ trouble' : Holders(c)' = Holders(c) /\ WriteHolders(c)' = WriteHolders(c)
  <2> SUFFICES ASSUME NEW c \in Clients \ trouble'
               PROVE  Holders(c)' = Holders(c) /\ WriteHolders(c)' = WriteHolders(c)
    OBVIOUS
  <2>1. \A p \in Procs : Host[p] = c => (Holds(p)' <=> Holds(p)) /\ (Holds(p) => mode'[p] = mode[p])
    BY DEF QuietUses
  <2>2. Holders(c)' = Holders(c)
    BY <2>1 DEF Holders
  <2> QED BY <2>1, <2>2 DEF WriteHolders, Holders
<1>2. \A c \in Clients \ trouble' : entry'[c].ref = entry[c].ref /\ entry'[c].write = entry[c].write
  <2> SUFFICES ASSUME NEW c \in Clients \ trouble', entry[c].ref = 0, entry'[c].write = 0
               PROVE  entry'[c].write = entry[c].write
    BY DEF QuietUses
  <2>1. c \in Clients \ trouble
    BY DEF QuietUses
  <2>2. Cardinality(Holders(c)) = 0 /\ entry[c].write = Cardinality(WriteHolders(c))
    BY <2>1 DEF CInv, Counted
  <2>3. Holders(c) = {} /\ WriteHolders(c) = {}
    BY <2>2, HolderTypes
  <2> QED BY <2>2, <2>3, FS_EmptySet
<1>3. Counted'
  <2> SUFFICES ASSUME NEW c \in Clients \ trouble'
               PROVE  /\ entry'[c].ref = Cardinality(Holders(c)')
                      /\ entry'[c].write = Cardinality(WriteHolders(c)')
    BY DEF Counted
  <2>1. c \in Clients \ trouble
    BY DEF QuietUses
  <2>2. entry[c].ref = Cardinality(Holders(c)) /\ entry[c].write = Cardinality(WriteHolders(c))
    BY <2>1 DEF CInv, Counted
  <2> QED BY <1>1, <1>2, <2>2
<1>4. CrashNoted'
  BY DEF QuietUses, CInv, CrashNoted
<1>5. AddedUp'
  <2> SUFFICES ASSUME trouble' = {}
               PROVE  /\ SumRefs' + Cardinality(Entering') = use'.ref
                      /\ SumWrites' + Cardinality(WEntering') = use'.write
    BY DEF AddedUp
  <2>1. trouble = {} /\ use' = use /\ Entering' = Entering /\ WEntering' = WEntering
    BY DEF QuietUses
  <2>2. SumRefs' = SumRefs /\ SumWrites' = SumWrites
    <3>1. \A c \in Clients : entry'[c].ref = entry[c].ref /\ entry'[c].write = entry[c].write
      BY <1>2
    <3> QED BY <3>1, SumsSame DEF TInv, Shape, ServerShape
  <2> QED BY <2>1, <2>2 DEF CInv, AddedUp
<1> QED BY <1>3, <1>4, <1>5 DEF CInv

(* The counts are exact at the start, where nothing is open.               *)
LEMMA CInvInit == ASSUME ConsistAssumption, Init PROVE CInv
<1>1. \A c \in Clients : Holders(c) = {} /\ WriteHolders(c) = {} /\ entry[c].ref = 0 /\ entry[c].write = 0
  BY DEF Init, Holders, WriteHolders, Holds, Waits, NoEntry
<1>2. Counted
  BY <1>1, FS_EmptySet DEF Counted
<1>3. CrashNoted
  BY DEF Init, CrashNoted
<1>4. TInv
  BY InitTypes
<1>5. use.ref = 0 /\ use.write = 0
  BY DEF Init
<1>6. SumRefs \in Nat /\ SumWrites \in Nat
  BY <1>4, SumsType DEF TInv, Shape, ServerShape
<1>7. AddedUp
  BY <1>4, <1>5, <1>6, CardTypes DEF AddedUp, TInv, Bounds, Summed
<1> QED BY <1>2, <1>3, <1>7 DEF CInv

(* An element that is not on the list counts nothing.                      *)
LEMMA ZeroEntry ==
    ASSUME TInv, NEW c \in Clients
    PROVE  /\ entry[c].ref \in Nat /\ entry[c].write \in Nat
           /\ NoEntry.ref = 0 /\ NoEntry.write = 0
           /\ ~entry[c].listed => entry[c].ref = 0 /\ entry[c].write = 0
BY DEF TInv, Shape, ServerShape, EntryShape, NatEntry, NoEntry, Structure, Unlisted

(* The counts of uses stay exact through sending an open.                  *)
LEMMA OpenSendUses ==
    ASSUME ConsistAssumption, TInv, CInv, NEW p \in Procs, NEW m \in Modes, OpenSend(p, m)
    PROVE  CInv'
<1>1. TInv'
  BY OpenSendTypes
<1>2. \A q \in Procs : (Holds(q)' <=> Holds(q)) /\ (Holds(q) => mode'[q] = mode[q])
  BY DEF OpenSend, Holds, Waits, serverVars, TInv, Shape, ProcShape
<1>3. Entering' = Entering /\ WEntering' = WEntering
  BY DEF OpenSend, Entering, WEntering, serverVars, TInv, Shape, ProcShape
<1>4. UNCHANGED <<entry, use, up, trouble>>
  BY DEF OpenSend, serverVars, clientVars, history
<1>5. QuietUses
  BY <1>2, <1>3, <1>4 DEF QuietUses
<1> QED BY <1>1, <1>5, QuietUsesStep DEF TInv, Shape, ServerShape

(* The counts of uses stay exact through counting an open and changing the *)
(* version (Fsio_FileNameOpen).                                            *)
LEMMA NameOpenUses ==
    ASSUME ConsistAssumption, TInv, CInv, NEW p \in Procs, NameOpen(p)
    PROVE  CInv'
<1> DEFINE w == One(mode[p] = "write")
<1>0. w \in {0, 1}
  BY DEF One
<1>1. /\ Entering' = Entering \cup {p} /\ p \notin Entering /\ p \notin WEntering
      /\ WEntering' = IF mode[p] = "write" THEN WEntering \cup {p} ELSE WEntering
  BY DEF NameOpen, Entering, WEntering, TInv, Shape, ProcShape
<1>2. Cardinality(Entering') = Cardinality(Entering) + 1
  BY <1>1, CardTypes, CardAdd
<1>3. Cardinality(WEntering') = Cardinality(WEntering) + w
  <2>1. CASE mode[p] = "write"
    BY <2>1, <1>1, CardTypes, CardAdd DEF One
  <2>2. CASE mode[p] # "write"
    BY <2>2, <1>1, CardTypes DEF One
  <2> QED BY <2>1, <2>2
<1>4. \A c \in Clients : Holders(c)' = Holders(c) /\ WriteHolders(c)' = WriteHolders(c)
  BY DEF NameOpen, Holders, WriteHolders, Holds, Waits, TInv, Shape, ProcShape
<1>5. UNCHANGED <<entry, up, trouble>> /\ use'.ref = use.ref + 1 /\ use'.write = use.write + w
  BY DEF NameOpen, clientVars, history
<1>6. Counted' /\ CrashNoted'
  BY <1>4, <1>5 DEF CInv, Counted, CrashNoted
<1>7. SumRefs' = SumRefs /\ SumWrites' = SumWrites /\ SumRefs \in Nat /\ SumWrites \in Nat
  BY <1>5, SumsSame, SumsType DEF TInv, Shape, ServerShape, EntryShape
<1>8. AddedUp'
  <2> HIDE DEF w
  <2> QED BY <1>0, <1>2, <1>3, <1>5, <1>7, CardTypes DEF CInv, AddedUp
<1> QED BY <1>6, <1>8 DEF CInv

(* The counts of uses stay exact through starting a consistency action.    *)
LEMMA StartConsistencyUses ==
    ASSUME ConsistAssumption, TInv, CInv, NEW p \in Procs, StartConsistency(p)
    PROVE  CInv'
<1>1. TInv'
  BY StartConsistencyTypes
<1>2. /\ action.phase = "none" /\ action'.phase = "visit" /\ pc[p] = "named"
      /\ pc' = [pc EXCEPT ![p] = "consist"] /\ \A q \in Procs : pc[q] # "consist"
      /\ UNCHANGED <<entry, use, up, trouble, mode>>
  BY ActionFacts, ActionRecord DEF StartConsistency, clientVars, history, NoAction
<1>3. \A q \in Procs : (Holds(q)' <=> Holds(q))
  BY <1>2 DEF Holds, Waits, TInv, Shape, ProcShape
<1>4. Entering' = Entering /\ WEntering' = WEntering
  BY <1>2 DEF Entering, WEntering, TInv, Shape, ProcShape
<1>5. QuietUses
  BY <1>2, <1>3, <1>4 DEF QuietUses
<1> QED BY <1>1, <1>5, QuietUsesStep DEF TInv, Shape, ServerShape

(* Steps that move no process and keep the counts that count.              *)
LEMMA StillUses ==
    ASSUME ConsistAssumption, TInv, TInv', CInv, UNCHANGED <<pc, mode>>,
           action'.phase = "wait" <=> action.phase = "wait",
           trouble \subseteq trouble', \A c \in Clients : ~up'[c] => ~up[c] \/ c \in trouble',
           \A c \in Clients \ trouble' :
             \/ entry'[c].ref = entry[c].ref /\ entry'[c].write = entry[c].write
             \/ entry'[c] = NoEntry /\ entry[c].ref = 0,
           trouble' = {} => use' = use
    PROVE  CInv'
<1>1. \A q \in Procs : (Holds(q)' <=> Holds(q)) /\ (Holds(q) => mode'[q] = mode[q])
  BY DEF Holds, Waits
<1>2. Entering' = Entering /\ WEntering' = WEntering
  BY QuietSets
<1>3. NoEntry.ref = 0 /\ NoEntry.write = 0
  BY DEF NoEntry
<1>4. QuietUses
  BY <1>1, <1>2, <1>3 DEF QuietUses
<1> QED BY <1>4, QuietUsesStep DEF TInv, Shape, ServerShape

(* The counts of uses stay exact through a turn of the walk over the       *)
(* client list.                                                            *)
LEMMA VisitUses ==
    ASSUME ConsistAssumption, TInv, CInv, VisitClient
    PROVE  CInv'
<1>1. TInv'
  BY VisitClientTypes
<1>2. VisitFacts
  BY VisitEffect
<1>3. UNCHANGED <<pc, mode, entry, use, up, trouble>> /\ action'.phase # "wait" /\ action.phase # "wait"
  BY <1>2 DEF VisitFacts, procVars, clientVars
<1> QED BY <1>1, <1>3, StillUses

(* The counts of uses stay exact through a callback that times out.        *)
LEMMA CommandTimeoutUses ==
    ASSUME ConsistAssumption, TInv, CInv, CommandTimeout
    PROVE  CInv'
<1>1. TInv'
  BY CommandTimeoutTypes
<1>3. UNCHANGED <<pc, mode, entry, use, up, trouble, action>>
  BY DEF CommandTimeout, procVars, clientVars, history
<1> QED BY <1>1, <1>3, StillUses

(* The counts of uses stay exact through the end of a callback             *)
(* (ClientCommand).                                                        *)
LEMMA CommandDoneUses ==
    ASSUME ConsistAssumption, TInv, CInv, CommandDone
    PROVE  CInv'
<1>1. TInv'
  BY CommandDoneTypes
<1>2. DoneFacts
  BY CommandDoneEffect
<1>3. UNCHANGED <<pc, mode, use, up>> /\ action'.phase # "wait" /\ action.phase # "wait" /\ cmd.client \in Clients
  BY <1>2 DEF DoneFacts, procVars, clientVars
<1>4. \/ UNCHANGED <<entry, trouble>>
      \/ trouble' = trouble \cup {cmd.client} /\ \A d \in Clients \ {cmd.client} : entry'[d] = entry[d]
  BY <1>2, <1>3, KillEffect DEF DoneFacts
<1> QED BY <1>1, <1>3, <1>4, StillUses

(* The counts of uses stay exact through the end of a consistency action.  *)
LEMMA EndConsistencyUses ==
    ASSUME ConsistAssumption, TInv, CInv, EndConsistency
    PROVE  CInv'
<1>1. TInv'
  BY EndConsistencyTypes
<1>2. EndFacts
  BY EndEffect
<1>3. \A q \in Procs : (Holds(q)' <=> Holds(q))
  BY <1>2 DEF EndFacts, Holds, Waits, NoAction
<1>4. Entering' = Entering
  BY <1>2 DEF EndFacts, Entering, NoAction
<1>5. UNCHANGED <<entry, use, up, trouble, mode>>
  BY <1>2 DEF EndFacts, clientVars, history
<1>6. WEntering' = WEntering
  BY <1>4, <1>5 DEF WEntering
<1>7. QuietUses
  BY <1>3, <1>4, <1>5, <1>6 DEF QuietUses
<1> QED BY <1>1, <1>7, QuietUsesStep DEF TInv, Shape, ServerShape

(* The counts of uses stay exact through aborting an open after a failed   *)
(* action.                                                                 *)
LEMMA AbortOpenUses ==
    ASSUME ConsistAssumption, TInv, CInv, NEW p \in Procs, AbortOpen(p)
    PROVE  CInv'
<1>1. TInv'
  BY AbortOpenTypes
<1>2. AbortFacts(p) /\ Host[p] \in Clients
  BY AbortEffect, HostType
<1>3. trouble' = trouble \cup {Host[p]} /\ trouble' # {} /\ UNCHANGED <<up, action>>
  BY <1>2 DEF AbortFacts, clientVars
<1>4. \A d \in Clients \ {Host[p]} : entry'[d] = entry[d]
  BY <1>2, KillEffect DEF AbortFacts
<1>5. \A q \in Procs : Host[q] # Host[p] => pc'[q] = pc[q] /\ mode'[q] = mode[q]
  BY <1>2 DEF AbortFacts, Finish
<1>6. \A q \in Procs : Host[q] \notin trouble' => (Holds(q)' <=> Holds(q)) /\ mode'[q] = mode[q]
  BY <1>3, <1>5 DEF Holds, Waits
<1>7. QuietUses
  BY <1>3, <1>4, <1>6 DEF QuietUses
<1> QED BY <1>1, <1>7, QuietUsesStep DEF TInv, Shape, ServerShape

(* The counts of uses stay exact through replying to an open.              *)
LEMMA OpenReplyUses ==
    ASSUME ConsistAssumption, TInv, CInv, NEW p \in Procs, OpenReply(p)
    PROVE  CInv'
<1>1. TInv'
  BY OpenReplyTypes
<1>2. pc[p] = "granted" /\ Host[p] \in Clients /\ UNCHANGED <<entry, use, up, trouble, action>>
  BY HostType DEF OpenReply, serverVars, clientVars
<1>3. CASE up[Host[p]]
  <2>1. pc' = [pc EXCEPT ![p] = "replied"] /\ mode' = mode
    BY <1>3 DEF OpenReply
  <2>2. \A q \in Procs : (Holds(q)' <=> Holds(q))
    BY <1>2, <2>1 DEF Holds, Waits, TInv, Shape, ProcShape
  <2>3. Entering' = Entering /\ WEntering' = WEntering
    BY <1>2, <2>1 DEF Entering, WEntering, TInv, Shape, ProcShape
  <2>4. QuietUses
    BY <1>2, <2>1, <2>2, <2>3 DEF QuietUses
  <2> QED BY <1>1, <2>4, QuietUsesStep DEF TInv, Shape, ServerShape
<1>4. CASE ~up[Host[p]]
  <2>1. Finish({p}, "dead")
    BY <1>4 DEF OpenReply
  <2>2. Host[p] \in trouble
    BY <1>2, <1>4 DEF CInv, CrashNoted
  <2>3. \A q \in Procs : Host[q] \notin trouble' => (Holds(q)' <=> Holds(q)) /\ mode'[q] = mode[q]
    BY <1>2, <2>1, <2>2 DEF Holds, Waits, Finish
  <2>4. QuietUses
    BY <1>2, <2>2, <2>3 DEF QuietUses
  <2> QED BY <1>1, <2>4, QuietUsesStep DEF TInv, Shape, ServerShape
<1> QED BY <1>3, <1>4

(* The counts of uses stay exact through the timer of a consistency        *)
(* action.                                                                 *)
LEMMA TimeoutIntrUses ==
    ASSUME ConsistAssumption, TInv, CInv, ConsistTimeoutIntr
    PROVE  CInv'
<1>1. TInv'
  BY ConsistTimeoutIntrTypes
<1>2. action.phase = "wait" /\ action'.phase = "wait"
  BY ActionRecord DEF ConsistTimeoutIntr
<1>3. UNCHANGED <<pc, mode, entry, use, up, trouble>>
  BY DEF ConsistTimeoutIntr, procVars, clientVars, history
<1> QED BY <1>1, <1>2, <1>3, StillUses

(* The counts of uses stay exact through killing the clients that have not *)
(* answered (ConsistTimeout).                                              *)
LEMMA TimeoutUses ==
    ASSUME ConsistAssumption, TInv, CInv, ConsistTimeout
    PROVE  CInv'
<1>1. TInv'
  BY ConsistTimeoutTypes
<1>2. TimeoutFacts
  BY TimeoutEffect
<1>3. UNCHANGED <<pc, mode, use, up, action>> /\ trouble' = trouble \cup SlowOnes
      /\ \A c \in Clients \ SlowOnes : entry'[c] = entry[c]
  BY <1>2 DEF TimeoutFacts, procVars, clientVars
<1> QED BY <1>1, <1>3, StillUses

(* The counts of uses stay exact through listing the opener (UpdateList).  *)
LEMMA UpdateListUses ==
    ASSUME ConsistAssumption, TInv, CInv, UpdateList
    PROVE  CInv'
<1>e. UpdateFacts
  BY UpdateEffect
<1>p. action.by \in Procs
  BY <1>e DEF UpdateFacts
<1>q. PICK p \in Procs : p = action.by
  BY <1>p
<1> DEFINE c == Host[p]
           w == One(mode[p] = "write")
<1>t. TInv'
  BY UpdateListTypes
<1>0. /\ p \in Procs /\ c \in Clients /\ pc[p] = "consist" /\ action.phase = "visit" /\ action'.phase = "wait"
      /\ (\A q \in Procs : pc[q] = "consist" => q = p)
      /\ UNCHANGED <<pc, mode, use, up, trouble>>
  BY <1>e, <1>q, ActionFacts DEF UpdateFacts, clientVars, history
<1>w. w \in {0, 1} /\ (mode[p] = "write" => w = 1) /\ (mode[p] # "write" => w = 0)
  BY DEF One
<1>1. /\ Holders(c)' = Holders(c) \cup {p} /\ p \notin Holders(c) /\ p \notin WriteHolders(c)
      /\ WriteHolders(c)' = IF mode[p] = "write" THEN WriteHolders(c) \cup {p} ELSE WriteHolders(c)
      /\ \A d \in Clients \ {c} : Holders(d)' = Holders(d) /\ WriteHolders(d)' = WriteHolders(d)
  <2>1. ~Holds(p) /\ Holds(p)' /\ \A q \in Procs \ {p} : Holds(q)' <=> Holds(q)
    BY <1>0 DEF Holds, Waits
  <2>2. p \in Procs /\ c = Host[p] /\ mode' = mode
    BY <1>0
  <2>3. Holders(c)' = Holders(c) \cup {p} /\ p \notin Holders(c)
    BY <2>1, <2>2 DEF Holders
  <2>4. \A d \in Clients \ {c} : Holders(d)' = Holders(d)
    BY <2>1, <2>2 DEF Holders
  <2> QED BY <2>2, <2>3, <2>4 DEF WriteHolders
<1>2. Cardinality(Holders(c)') = Cardinality(Holders(c)) + 1
  BY <1>0, <1>1, HolderTypes, CardAdd
<1>3. Cardinality(WriteHolders(c)') = Cardinality(WriteHolders(c)) + w
  <2>1. CASE mode[p] = "write"
    BY <2>1, <1>0, <1>1, <1>w, HolderTypes, CardAdd
  <2>2. CASE mode[p] # "write"
    BY <2>2, <1>0, <1>1, <1>w, HolderTypes
  <2> QED BY <2>1, <2>2
<1>4. /\ \A d \in Clients \ {c} : entry'[d] = entry[d]
      /\ entry'[c].ref = entry[c].ref + 1 /\ entry'[c].write = entry[c].write + w
  BY <1>e, <1>q DEF UpdateFacts
<1>5. Counted'
  <2> SUFFICES ASSUME NEW d \in Clients \ trouble
               PROVE  /\ entry'[d].ref = Cardinality(Holders(d)')
                      /\ entry'[d].write = Cardinality(WriteHolders(d)')
    BY <1>0 DEF Counted
  <2>1. entry[d].ref = Cardinality(Holders(d)) /\ entry[d].write = Cardinality(WriteHolders(d))
    BY DEF CInv, Counted
  <2> HIDE DEF w, c
  <2>2. CASE d = c
    BY <2>1, <2>2, <1>2, <1>3, <1>4
  <2>3. CASE d # c
    BY <2>1, <2>3, <1>1, <1>4
  <2> QED BY <2>2, <2>3
<1>6. CrashNoted'
  BY <1>0 DEF CInv, CrashNoted
<1>7. AddedUp'
  <2>1. Entering' = Entering \ {p} /\ p \in Entering
    BY <1>0 DEF Entering
  <2>2. WEntering' = (IF mode[p] = "write" THEN WEntering \ {p} ELSE WEntering)
        /\ (mode[p] = "write" => p \in WEntering)
    BY <1>0, <2>1 DEF WEntering
  <2>3. Cardinality(Entering') = Cardinality(Entering) - 1
    BY <2>1, CardTypes, CardRemove
  <2>4. Cardinality(WEntering') = Cardinality(WEntering) - w
    <3>1. CASE mode[p] = "write"
      BY <3>1, <2>2, <1>w, CardTypes, CardRemove
    <3>2. CASE mode[p] # "write"
      BY <3>2, <2>2, <1>w, CardTypes
    <3> QED BY <3>1, <3>2
  <2>5. SumRefs' + entry[c].ref = SumRefs + entry'[c].ref
        /\ SumWrites' + entry[c].write = SumWrites + entry'[c].write
    BY <1>0, <1>t, <1>4, SumsOne DEF TInv, Shape, ServerShape
  <2>6. SumRefs \in Nat /\ SumRefs' \in Nat /\ SumWrites \in Nat /\ SumWrites' \in Nat
        /\ entry[c].ref \in Nat /\ entry[c].write \in Nat
    BY <1>0, <1>t, SumsType, SumsTypeNext, ZeroEntry DEF TInv, Shape, ServerShape
  <2> HIDE DEF w
  <2> QED BY <1>0, <1>w, <1>4, <2>3, <2>4, <2>5, <2>6, CardTypes DEF CInv, AddedUp
<1> QED BY <1>5, <1>6, <1>7 DEF CInv

(* Steps of open, and closing, streams keep their uses.                    *)
LEMMA OpenDoneUses ==
    ASSUME ConsistAssumption, TInv, CInv, NEW p \in Procs, OpenDone(p) \/ IoOpen(p) \/ CloseSend(p)
    PROVE  CInv'
<1>1. TInv'
  BY OpenDoneTypes, IoOpenTypes, CloseSendTypes
<1>2. /\ pc[p] \in {"replied", "install", "open"} /\ pc'[p] \in {"install", "open", "closing"}
      /\ \A q \in Procs \ {p} : pc'[q] = pc[q]
      /\ UNCHANGED <<entry, use, up, trouble, action, mode>>
  BY DEF OpenDone, IoOpen, CloseSend, IsOpen, TInv, Shape, ProcShape, serverVars, clientVars, history
<1>3. \A q \in Procs : (Holds(q)' <=> Holds(q))
  BY <1>2 DEF Holds, Waits
<1>4. Entering' = Entering /\ WEntering' = WEntering
  BY <1>2 DEF Entering, WEntering
<1>5. QuietUses
  BY <1>2, <1>3, <1>4 DEF QuietUses
<1> QED BY <1>1, <1>5, QuietUsesStep DEF TInv, Shape, ServerShape

(* The counts of uses stay exact through reads and writes.                 *)
LEMMA DataUses ==
    ASSUME ConsistAssumption, TInv, CInv, NEW p \in Procs, ReadFill(p) \/ Write(p)
    PROVE  CInv'
<1>1. TInv'
  BY ReadFillTypes, WriteTypes
<1>2. UNCHANGED <<pc, mode, entry, use, up, trouble, action>>
  BY DEF ReadFill, Write, serverVars, procVars
<1> QED BY <1>1, <1>2, StillUses

(* The counts of uses stay exact through a close at the server             *)
(* (Fsconsist_Close).                                                      *)
LEMMA CloseUses ==
    ASSUME ConsistAssumption, TInv, CInv, NEW p \in Procs, Close(p)
    PROVE  CInv'
<1>e. CloseFacts(p)
  BY CloseEffect
<1>t. TInv'
  BY CloseTypes
<1> DEFINE c == Host[p]
           w == One(mode[p] = "write")
<1>0. /\ c \in Clients /\ pc[p] = "closing" /\ IdleOrDead(p) \in {"idle", "dead"}
      /\ UNCHANGED <<up, trouble, action>> /\ Finish({p}, IdleOrDead(p))
      /\ \A d \in Clients \ {c} : entry'[d] = entry[d]
  BY <1>e, IdleOrDeadType DEF CloseFacts, clientVars, history
<1>w. w \in {0, 1} /\ (mode[p] = "write" => w = 1) /\ (mode[p] # "write" => w = 0)
  BY DEF One
<1>f. /\ pc'[p] = IdleOrDead(p) /\ mode'[p] = "none"
      /\ \A q \in Procs \ {p} : pc'[q] = pc[q] /\ mode'[q] = mode[q]
  BY <1>0 DEF Finish
<1>1. CASE c \in trouble
  <2>1. \A q \in Procs : Host[q] \notin trouble' => (Holds(q)' <=> Holds(q)) /\ mode'[q] = mode[q]
    BY <1>0, <1>1, <1>f DEF Holds, Waits
  <2>2. QuietUses
    BY <1>0, <1>1, <2>1 DEF QuietUses
  <2> QED BY <1>t, <2>2, QuietUsesStep DEF TInv, Shape, ServerShape
<1>2. CASE c \notin trouble
  <2>1. /\ Holders(c)' = Holders(c) \ {p} /\ p \in Holders(c)
        /\ WriteHolders(c)' = (IF mode[p] = "write" THEN WriteHolders(c) \ {p} ELSE WriteHolders(c))
        /\ (mode[p] = "write" => p \in WriteHolders(c))
        /\ \A d \in Clients \ {c} : Holders(d)' = Holders(d) /\ WriteHolders(d)' = WriteHolders(d)
    BY <1>0, <1>f DEF Holders, WriteHolders, Holds, Waits
  <2>2. Cardinality(Holders(c)') = Cardinality(Holders(c)) - 1
    BY <1>0, <2>1, HolderTypes, CardRemove
  <2>3. Cardinality(WriteHolders(c)') = Cardinality(WriteHolders(c)) - w
    <3>1. CASE mode[p] = "write"
      BY <3>1, <1>0, <2>1, <1>w, HolderTypes, CardRemove
    <3>2. CASE mode[p] # "write"
      BY <3>2, <1>0, <2>1, <1>w, HolderTypes
    <3> QED BY <3>1, <3>2
  <2>4. entry[c].ref = Cardinality(Holders(c)) /\ entry[c].write = Cardinality(WriteHolders(c))
    BY <1>0, <1>2 DEF CInv, Counted
  <2>5. entry[c].ref \in Nat /\ entry[c].write \in Nat /\ entry[c].ref > 0 /\ entry[c].listed
        /\ NoEntry.ref = 0 /\ NoEntry.write = 0
    <3>1. Cardinality(Holders(c)) # 0
      BY <1>0, <2>1, HolderTypes
    <3> QED BY <1>0, <2>4, <3>1, ZeroEntry
  <2>6. /\ use'.ref = use.ref - 1 /\ use'.write = use.write - w
        /\ \/ entry'[c] = NoEntry /\ entry[c].ref = 1
           \/ entry'[c].ref = entry[c].ref - 1 /\ entry'[c].write = entry[c].write - w
    BY <1>e, <2>5 DEF CloseFacts
  <2>7. entry'[c].ref = entry[c].ref - 1 /\ entry'[c].write = entry[c].write - w
    <3>1. CASE entry'[c] = NoEntry /\ entry[c].ref = 1
      <4>1. Cardinality(Holders(c)') = 0
        BY <3>1, <2>2, <2>4
      <4>2. Holders(c)' = {}
        <5>1. IsFiniteSet(Holders(c) \ {p})
          BY <1>0, HolderTypes, FS_Subset
        <5> QED BY <4>1, <5>1, <2>1, FS_EmptySet
      <4>3. WriteHolders(c)' = {}
        BY <4>2 DEF WriteHolders
      <4>4. Cardinality(WriteHolders(c)') = 0
        BY <4>3, FS_EmptySet
      <4> HIDE DEF w
      <4> QED BY <3>1, <4>4, <2>3, <2>4, <2>5
    <3> QED BY <3>1, <2>6
  <2>8. Counted'
    <3> HIDE DEF w
    <3> QED BY ZenonT(60), <1>0, <2>1, <2>2, <2>3, <2>4, <2>7 DEF CInv, Counted
  <2>9. CrashNoted'
    BY <1>0 DEF CInv, CrashNoted
  <2>10. AddedUp'
    <3>1. Entering' = Entering /\ WEntering' = WEntering
      BY <1>0, <1>f DEF Entering, WEntering
    <3>2. SumRefs' + entry[c].ref = SumRefs + entry'[c].ref
          /\ SumWrites' + entry[c].write = SumWrites + entry'[c].write
      BY <1>0, <1>t, SumsOne DEF TInv, Shape, ServerShape
    <3>3. SumRefs \in Nat /\ SumRefs' \in Nat /\ SumWrites \in Nat /\ SumWrites' \in Nat
      BY <1>t, SumsType, SumsTypeNext DEF TInv, Shape, ServerShape
    <3>4. use.ref \in Nat /\ use.write \in Nat
      BY DEF TInv, Shape, ServerShape
    <3> HIDE DEF w
    <3> QED BY <1>0, <1>w, <2>5, <2>6, <2>7, <3>1, <3>2, <3>3, <3>4, CardTypes DEF CInv, AddedUp
  <2> QED BY <2>8, <2>9, <2>10 DEF CInv
<1> QED BY <1>1, <1>2

(* The counts of uses stay exact through scavenging an unused handle.      *)
LEMMA ScavengeUses ==
    ASSUME ConsistAssumption, TInv, CInv, NEW c \in Clients, FileScavenge(c) \/ RpcConsist(c)
    PROVE  CInv'
<1>1. TInv'
  BY FileScavengeTypes, RpcConsistTypes
<1>2. UNCHANGED <<pc, mode, entry, use, up, trouble, action>>
  BY DEF FileScavenge, RpcConsist, serverVars, procVars, history
<1> QED BY <1>1, <1>2, StillUses

(* The counts of uses stay exact through a delayed write-back.             *)
LEMMA CleanUses ==
    ASSUME ConsistAssumption, TInv, CInv, NEW c \in Clients, CleanBlocks(c)
    PROVE  CInv'
<1>1. TInv'
  BY CleanBlocksTypes
<1>2. CleanFacts(c)
  BY CleanEffect
<1>3. UNCHANGED <<pc, mode, use, up, trouble, action>>
  BY <1>2 DEF CleanFacts, procVars
<1>4. \A d \in Clients : entry'[d] = entry[d] \/ (entry'[d] = NoEntry /\ entry[d].ref = 0)
  BY <1>2 DEF CleanFacts, DeleteFacts
<1> QED BY <1>1, <1>3, <1>4, StillUses

(* The counts of uses stay exact through the crash of a workstation.       *)
LEMMA CrashUses ==
    ASSUME ConsistAssumption, TInv, CInv, NEW c \in Clients, Crash(c)
    PROVE  CInv'
<1>1. TInv'
  BY CrashTypes
<1>2. CrashFacts(c)
  BY CrashEffect
<1>3. trouble' = trouble \cup {c} /\ trouble' # {} /\ UNCHANGED <<entry, use, action>>
  BY <1>2 DEF CrashFacts, serverVars
<1>4. \A q \in Procs : Host[q] # c => pc'[q] = pc[q] /\ mode'[q] = mode[q]
  BY <1>2 DEF CrashFacts, Finish, CrashedProcs
<1>5. \A q \in Procs : Host[q] \notin trouble' => (Holds(q)' <=> Holds(q)) /\ mode'[q] = mode[q]
  BY <1>3, <1>4 DEF Holds, Waits
<1>6. \A d \in Clients : ~up'[d] => ~up[d] \/ d \in trouble'
  BY <1>2, <1>3 DEF CrashFacts
<1>7. QuietUses
  BY <1>3, <1>5, <1>6 DEF QuietUses
<1> QED BY <1>1, <1>7, QuietUsesStep DEF TInv, Shape, ServerShape

(* The counts of uses stay exact through killing a crashed client          *)
(* (Fsio_FileClientKill).                                                  *)
LEMMA ClientKillUses ==
    ASSUME ConsistAssumption, TInv, CInv, NEW c \in Clients, ClientKill(c)
    PROVE  CInv'
<1>1. TInv'
  BY ClientKillTypes
<1>2. ClientKillFacts(c) /\ c \in trouble
  BY DEF ClientKill, ClientKillFacts, KilledProcs, CInv, CrashNoted
<1>3. trouble' = trouble /\ trouble' # {} /\ UNCHANGED <<up, action>>
  BY <1>2 DEF ClientKillFacts, history, clientVars
<1>4. \A q \in Procs : Host[q] # c => pc'[q] = pc[q] /\ mode'[q] = mode[q]
  BY <1>2 DEF ClientKillFacts, Finish, KilledProcs
<1>5. \A q \in Procs : Host[q] \notin trouble' => (Holds(q)' <=> Holds(q)) /\ mode'[q] = mode[q]
  BY <1>2, <1>3, <1>4 DEF Holds, Waits
<1>6. \A d \in Clients \ {c} : entry'[d] = entry[d]
  BY <1>2, KillEffect DEF ClientKillFacts
<1>7. QuietUses
  BY <1>2, <1>3, <1>5, <1>6 DEF QuietUses
<1> QED BY <1>1, <1>7, QuietUsesStep DEF TInv, Shape, ServerShape

(* The counts of uses stay exact through executing a command               *)
(* (ProcessConsist).                                                       *)
LEMMA JobUses ==
    ASSUME ConsistAssumption, TInv, CInv, NEW j \in jobs, ProcessConsist(j)
    PROVE  CInv'
<1>1. TInv'
  BY ProcessConsistTypes
<1>2. JobFacts(j)
  BY JobEffect
<1>3. UNCHANGED <<pc, mode, use, up, action>> /\ trouble \subseteq trouble'
  BY <1>2 DEF JobFacts, procVars
<1>4. \A d \in Clients : entry'[d] = entry[d] \/ (entry'[d] = NoEntry /\ entry[d].ref = 0)
  BY <1>2, JobGeneral DEF DeleteFacts
<1> QED BY <1>1, <1>3, <1>4, StillUses

(* The counts of uses stay exact through receiving a reply                 *)
(* (ProcessConsistReply).                                                  *)
LEMMA ReplyUses ==
    ASSUME ConsistAssumption, TInv, MsgsTied, CInv, NEW r \in replies, ProcessConsistReply(r)
    PROVE  CInv'
<1>1. TInv'
  BY ReplyTypes
<1>2. ReplyFacts(r)
  BY ReplyEffect
<1>3. UNCHANGED <<pc, mode, use, up, trouble>>
  BY <1>2 DEF ReplyFacts, procVars, history
<1>4. action'.phase = action.phase
  BY <1>2, ActionRecord DEF ReplyFacts, SettledReply
<1>5. \A d \in Clients : \/ entry'[d].ref = entry[d].ref /\ entry'[d].write = entry[d].write
                         \/ (entry'[d] = NoEntry /\ entry[d].ref = 0)
  BY <1>2 DEF ReplyFacts, SettledReply
<1> QED BY <1>1, <1>3, <1>4, <1>5, StillUses

(* The counts of uses stay exact through forgetting idle clients           *)
(* (Fsconsist_NumClients).                                                 *)
LEMMA NumClientsUses ==
    ASSUME ConsistAssumption, TInv, CInv, NumClients
    PROVE  CInv'
<1>1. TInv'
  BY NumClientsTypes
<1>2. ForgottenFacts
  BY NumClientsEffect
<1>3. UNCHANGED <<pc, mode, use, up, action, trouble>>
  BY <1>2 DEF ForgottenFacts, procVars, clientVars, history
<1>4. \A d \in Clients : entry'[d] = entry[d] \/ (entry'[d] = NoEntry /\ entry[d].ref = 0)
  BY <1>2 DEF ForgottenFacts
<1> QED BY <1>1, <1>3, <1>4, StillUses

(* The counts of uses stay exact through every step.                       *)
LEMMA UsesStep ==
    ASSUME ConsistAssumption, TInv, MsgsTied, CInv, [Next]_vars
    PROVE  CInv'
<1>1. ASSUME NEW p \in Procs, ProcStep(p) PROVE CInv'
  BY <1>1, OpenSendUses, NameOpenUses, StartConsistencyUses, AbortOpenUses, OpenReplyUses,
     OpenDoneUses, DataUses, CloseUses DEF ProcStep
<1>2. ASSUME ActionStep PROVE CInv'
  BY <1>2, VisitUses, CommandTimeoutUses, CommandDoneUses, UpdateListUses,
     EndConsistencyUses, TimeoutIntrUses, TimeoutUses DEF ActionStep
<1>3. ASSUME NEW c \in Clients, ClientStep(c) PROVE CInv'
  BY <1>3, ScavengeUses, CleanUses, CrashUses, ClientKillUses DEF ClientStep
<1>4. ASSUME NEW j \in jobs, ProcessConsist(j) PROVE CInv'
  BY <1>4, JobUses
<1>5. ASSUME NEW r \in replies, ProcessConsistReply(r) PROVE CInv'
  BY <1>5, ReplyUses
<1>6. CASE UNCHANGED vars
  <2>1. UNCHANGED <<pc, mode, entry, use, up, action, trouble>>
    BY <1>6 DEF vars, serverVars, procVars, clientVars, history
  <2> QED BY <1>6, <2>1, StutterTypes, StillUses
<1> QED BY <1>1, <1>2, <1>3, <1>4, <1>5, <1>6, NumClientsUses DEF Next

(* The elements of the client list count the opens from UpdateList to      *)
(* Fsconsist_Close.                                                        *)
THEOREM CountInvHolds == Spec => []CountInv
<1>1. Init => CountInv
  BY TypesInit, CInvInit, ConsistAssumption DEF CountInv
<1>2. CountInv /\ [Next]_vars => CountInv'
  BY TypesStep, MsgsTiedStep, UsesStep, ConsistAssumption DEF CountInv
<1> QED BY <1>1, <1>2, PTL DEF Spec

(* Whatever is aborted, killed, closed and reopened, the reference counts  *)
(* of the file (use.ref and use.write, kept by Fsio_FileNameOpen,          *)
(* Fsio_FileClientKill and the close) are the sums over the client list,   *)
(* plus the opens between the two.                                         *)
THEOREM UseCountsCorrect == Spec => []UseCountsMatch
<1>1. SumRefs = MapThenSumSet(LAMBDA c : entry[c].ref, Clients)
      /\ SumWrites = MapThenSumSet(LAMBDA c : entry[c].write, Clients)
  BY ZenonT(60) DEF SumRefs, SumWrites, Refs, Writes, Sum, MapThenSumSet, MapThenFoldSet
<1>2. CountInv => UseCountsMatch
  BY <1>1 DEF CountInv, CInv, AddedUp, UseCountsMatch, WEntering
<1> QED BY <1>2, CountInvHolds, PTL

(* The element of a client has its fields and no others.                   *)
LEMMA EntryFacts ==
    ASSUME TInv, NEW c \in Clients
    PROVE  /\ entry[c] \in NatEntry /\ entry[c].ref \in Nat /\ entry[c].write \in Nat
           /\ entry[c].cached \in BOOLEAN /\ entry[c].stamp \in Nat
           /\ NoEntry.ref = 0 /\ NoEntry.write = 0 /\ NoEntry.cached = FALSE /\ NoEntry.stamp = 0
           /\ ~entry[c].listed => entry[c] = NoEntry
<1>1. entry[c] \in NatEntry
  BY DEF TInv, Shape, ServerShape, EntryShape
<1>2. ~entry[c].listed => entry[c] = NoEntry
  BY DEF TInv, Structure, Unlisted
<1>3. NoEntry.ref = 0 /\ NoEntry.write = 0 /\ NoEntry.cached = FALSE /\ NoEntry.stamp = 0
  BY DEF NoEntry
<1> QED BY <1>1, <1>2, <1>3 DEF NatEntry

(* An element that stays neither grows nor is released.                    *)
LEMMA SameEntry ==
    ASSUME TInv, NEW c \in Clients, entry'[c] = entry[c]
    PROVE  Shrinks(c) /\ Released(c)
<1>1. entry[c].ref \in Nat /\ entry[c].write \in Nat
  BY EntryFacts
<1>2. entry'[c].ref <= entry[c].ref /\ entry'[c].write <= entry[c].write
  BY <1>1
<1>3. entry'[c].cached => entry[c].cached
  BY Zenon
<1> QED BY <1>2, <1>3 DEF Shrinks, Released

(* A calm step: one that leaves list, messages, action and command alone.  *)
LEMMA CalmSame ==
    ASSUME ConsistAssumption, TInv,
           trouble \subseteq trouble', jobs' \subseteq jobs, replies' \subseteq replies,
           UNCHANGED <<openTimeStamp, msgs, action, cmd, entry>>
    PROVE  Calm
<1>1. \A c \in Clients : Shrinks(c)
  BY SameEntry
<1>2. \A c \in Clients : Released(c)
  BY SameEntry
<1>3. \A c \in Clients : msgs'[c] = msgs[c]
  OBVIOUS
<1> QED BY <1>1, <1>2, <1>3 DEF Calm

(* A calm step: one that leaves the server alone.                          *)
LEMMA CalmServer ==
    ASSUME ConsistAssumption, TInv,
           trouble \subseteq trouble', jobs' \subseteq jobs, replies' \subseteq replies,
           UNCHANGED serverVars
    PROVE  Calm
BY CalmSame DEF serverVars

(* The steps that leave the client list alone.                             *)
LEMMA CalmOutside ==
    ASSUME ConsistAssumption, TInv, NEW p \in Procs,
           \/ \E m \in Modes : OpenSend(p, m)
           \/ NameOpen(p) \/ OpenReply(p) \/ OpenDone(p) \/ IoOpen(p) \/ ReadFill(p) \/ Write(p)
           \/ CloseSend(p)
    PROVE  Calm
<1>1. CASE \E m \in Modes : OpenSend(p, m)
  BY <1>1, CalmServer DEF OpenSend, clientVars, history
<1>2. CASE NameOpen(p)
  BY <1>2, CalmSame DEF NameOpen, clientVars, history
<1>3. CASE OpenReply(p)
  BY <1>3, CalmServer DEF OpenReply, clientVars, history
<1>4. CASE OpenDone(p)
  BY <1>4, CalmServer DEF OpenDone, clientVars, history
<1>5. CASE IoOpen(p)
  BY <1>5, CalmServer DEF IoOpen, clientVars, history
<1>6. CASE ReadFill(p)
  BY <1>6, CalmServer DEF ReadFill, clientVars, history
<1>7. CASE Write(p)
  BY <1>7, CalmServer DEF Write, clientVars, history
<1>8. CASE CloseSend(p)
  BY <1>8, CalmServer DEF CloseSend, clientVars, history
<1> QED BY <1>1, <1>2, <1>3, <1>4, <1>5, <1>6, <1>7, <1>8

(* Calm steps: scavenging a handle, and crashing before the server knows.  *)
LEMMA CalmElsewhere ==
    ASSUME ConsistAssumption, TInv, NEW c \in Clients,
           FileScavenge(c) \/ Crash(c)
    PROVE  Calm
<1>1. CASE FileScavenge(c)
  BY <1>1, CalmServer DEF FileScavenge, history
<1>2. CASE Crash(c)
  BY <1>2, CalmServer DEF Crash
<1> QED BY <1>1, <1>2

(* Calm steps: timeouts that are only noted, and doing nothing.            *)
LEMMA CalmIdle ==
    ASSUME ConsistAssumption, TInv, CommandTimeout \/ ConsistTimeoutIntr \/ UNCHANGED vars
    PROVE  Calm
<1>1. CASE CommandTimeout
  <2>1. cmd \in [client : Clients \cup {None}, op : SUBSET Commands, stamp : Nat,
                version : Nat, answer : {"none", "ok", "stale", "timeout"}]
    BY CmdRecord
  <2>2. /\ cmd'.client = cmd.client /\ cmd'.op = cmd.op /\ cmd'.stamp = cmd.stamp
        /\ cmd'.version = cmd.version /\ cmd.answer = "none"
    BY <1>1, <2>1 DEF CommandTimeout
  <2>3. /\ UNCHANGED <<trouble, jobs, replies, openTimeStamp, msgs, action, entry>>
    BY <1>1 DEF CommandTimeout, clientVars, history
  <2>4. \A d \in Clients : Shrinks(d) /\ Released(d) /\ msgs'[d] = msgs[d]
    BY <2>3, SameEntry
  <2> QED BY <2>2, <2>3, <2>4 DEF Calm
<1>2. CASE ConsistTimeoutIntr
  <2>1. action' = [action EXCEPT !.armed = FALSE]
    BY <1>2 DEF ConsistTimeoutIntr
  <2>2. /\ action'.by = action.by /\ action'.cacheable = action.cacheable
        /\ action'.todo = action.todo /\ action'.phase = action.phase
    BY <2>1, ActionRecord
  <2>3. UNCHANGED <<trouble, jobs, replies, openTimeStamp, msgs, cmd, entry>>
    BY <1>2 DEF ConsistTimeoutIntr, clientVars, history
  <2>4. \A d \in Clients : Shrinks(d) /\ Released(d) /\ msgs'[d] = msgs[d]
    BY <2>3, SameEntry
  <2> QED BY <2>2, <2>3, <2>4 DEF Calm
<1>3. CASE UNCHANGED vars
  BY <1>3, CalmServer DEF vars, clientVars, history
<1> QED BY <1>1, <1>2, <1>3

(* With one process on a workstation its list element counts one open.     *)
LEMMA OneHolder ==
    ASSUME ConsistAssumption, OneEach, TInv, CInv, NEW p \in Procs, Holds(p), Host[p] \notin trouble
    PROVE  /\ Holders(Host[p]) = {p} /\ entry[Host[p]].ref = 1
           /\ entry[Host[p]].write = One(mode[p] = "write")
<1> DEFINE c == Host[p]
<1>1. c \in Clients \ trouble
  BY HostType
<1>2. Holders(c) = {p}
  BY DEF OneEach, Holders
<1>3. WriteHolders(c) = IF mode[p] = "write" THEN {p} ELSE {}
  BY <1>2 DEF WriteHolders
<1>4. Cardinality({p}) = 1 /\ Cardinality({}) = 0
  BY FS_Singleton, FS_EmptySet
<1>5. entry[c].ref = Cardinality(Holders(c)) /\ entry[c].write = Cardinality(WriteHolders(c))
  BY <1>1 DEF CInv, Counted
<1> QED BY <1>2, <1>3, <1>4, <1>5 DEF One

(* A client that is not in trouble counts uses exactly when it has opens.  *)
LEMMA NoHolder ==
    ASSUME ConsistAssumption, TInv, CInv, NEW c \in Clients, c \notin trouble
    PROVE  Holders(c) = {} <=> Unused(c)
<1>1. entry[c].ref = Cardinality(Holders(c)) /\ entry[c].write = Cardinality(WriteHolders(c))
  BY DEF CInv, Counted
<1>2. Holders(c) = {} => WriteHolders(c) = {}
  BY HolderTypes
<1>3. Cardinality(Holders(c)) = 0 <=> Holders(c) = {}
  BY HolderTypes
<1>4. Cardinality(WriteHolders(c)) = 0 <=> WriteHolders(c) = {}
  BY HolderTypes
<1>5. (Holders(c) = {}) <=> (entry[c].ref = 0)
  BY <1>1, <1>3
<1>6. Holders(c) = {} => entry[c].write = 0
  BY <1>1, <1>2, <1>4
<1> QED BY <1>5, <1>6 DEF Unused

(* Removing an element from the list shrinks it.                           *)
LEMMA ShrinksNone ==
    ASSUME TInv, NEW c \in Clients, entry'[c] = NoEntry
    PROVE  Shrinks(c)
<1>1. entry[c].ref \in Nat /\ entry[c].write \in Nat
  BY EntryFacts
<1>2. NoEntry.ref = 0 /\ NoEntry.write = 0 /\ ~NoEntry.cached
  BY DEF NoEntry
<1> QED BY <1>1, <1>2 DEF Shrinks

(* A calm step: a close at the server (Fsconsist_Close).                   *)
LEMMA CalmClose ==
    ASSUME ConsistAssumption, OneEach, TInv, CInv, NEW p \in Procs, Close(p)
    PROVE  Calm
<1> DEFINE c == Host[p]
           w == One(mode[p] = "write")
<1>e. CloseFacts(p)
  BY CloseEffect
<1>0. c \in Clients /\ w \in {0, 1}
  BY HostType DEF One
<1>1. CASE ~entry[c].listed
  <2>1. entry' = entry
    BY <1>1 DEF Close, Known
  <2> QED BY <1>e, <2>1, CalmSame DEF CloseFacts, clientVars, history
<1>2. CASE entry[c].listed
  <2>1. /\ \/ entry'[c] = NoEntry
           \/ /\ entry'[c].ref = entry[c].ref - 1 /\ entry'[c].write = entry[c].write - w
              /\ entry'[c].cached = entry[c].cached /\ entry'[c].stamp = entry[c].stamp
        /\ entry[c].ref > 0 /\ entry[c].write >= w
    <3>1. mode[p] = "write" => w = 1
      BY DEF One
    <3>2. mode[p] # "write" => w = 0
      BY DEF One
    <3>3. entry[c].write \in Nat /\ entry[c].ref > 0 /\ (mode[p] = "write" => entry[c].write > 0)
      BY <1>e, <1>2, EntryFacts, <1>0 DEF CloseFacts
    <3>4. entry[c].write >= w
      <4> HIDE DEF w
      <4> QED BY <3>1, <3>2, <3>3
    <3>5. \/ entry'[c] = NoEntry
          \/ /\ entry'[c].ref = entry[c].ref - 1 /\ entry'[c].write = entry[c].write - w
             /\ entry'[c].cached = entry[c].cached /\ entry'[c].stamp = entry[c].stamp
      BY <1>e, <1>2 DEF CloseFacts
    <3> QED BY <3>3, <3>4, <3>5
  <2>2. Shrinks(c)
    <3>1. CASE entry'[c] = NoEntry
      BY <1>0, <3>1, ShrinksNone
    <3>2. CASE entry'[c] # NoEntry
      <4>1. entry[c].ref \in Nat /\ entry[c].write \in Nat
        BY <1>0, EntryFacts
      <4>2. entry'[c].ref = entry[c].ref - 1 /\ entry'[c].write = entry[c].write - w
            /\ entry'[c].cached = entry[c].cached
        BY <2>1, <3>2
      <4>3. entry'[c].ref <= entry[c].ref /\ entry'[c].write <= entry[c].write
        <5> HIDE DEF w
        <5> QED BY <1>0, <4>1, <4>2
      <4>4. entry'[c].cached => entry[c].cached
        BY <4>2, Zenon
      <4> QED BY <4>3, <4>4 DEF Shrinks
    <3> QED BY <3>1, <3>2
  <2>3. c \notin trouble => Released(c)
    <3> SUFFICES ASSUME c \notin trouble, entry'[c] # NoEntry PROVE Released(c)
      BY EntryFacts, <1>0 DEF Released
    <3>1. Holds(p)
      BY <1>e DEF Holds, CloseFacts
    <3>2. entry[c].ref = 1 /\ entry[c].write = w
      BY <3>1, OneHolder
    <3>3. entry'[c].ref = 0 /\ entry'[c].write = 0 /\ entry'[c].cached = entry[c].cached /\ entry'[c].stamp = entry[c].stamp
      <4> HIDE DEF w
      <4> QED BY <1>0, <2>1, <3>2
    <3> QED BY <3>3 DEF Released
  <2>4. \A d \in Clients \ {c} : Shrinks(d) /\ Released(d)
    BY <1>e, SameEntry DEF CloseFacts
  <2>5. UNCHANGED <<trouble, jobs, replies, openTimeStamp, msgs, action, cmd>>
    BY <1>e DEF CloseFacts, clientVars, history
  <2> HIDE DEF c
  <2>6. \A d \in Clients : Shrinks(d)
    BY <2>2, <2>4
  <2>7. \A d \in Clients \ trouble' : Released(d)
    BY <2>3, <2>4, <2>5
  <2>8. \A d \in Clients : msgs'[d] = msgs[d]
    BY <2>5
  <2> QED BY <2>5, <2>6, <2>7, <2>8 DEF Calm
<1> QED BY <1>1, <1>2

(* A kill shrinks the killed element and takes its message off the list.   *)
LEMMA CalmKill ==
    ASSUME ConsistAssumption, TInv, NEW c \in Clients, entry' = IOClientKill(c), c \in trouble',
           \A d \in Clients : msgs'[d] = msgs[d] \/ (d = c /\ msgs'[d] = {})
    PROVE  /\ \A d \in Clients : Shrinks(d)
           /\ \A d \in Clients \ trouble' : Released(d)
           /\ \A d \in Clients : msgs'[d] = msgs[d] \/ (d \in trouble' /\ msgs'[d] = {})
<1>1. \A d \in Clients \ {c} : Shrinks(d) /\ Released(d)
  BY KillEffect, SameEntry
<1>2. entry[c].ref \in Nat /\ entry[c].write \in Nat
  BY EntryFacts
<1>3. entry'[c].ref = 0 /\ entry'[c].write = 0 /\ (entry'[c].cached => entry[c].cached)
  BY KillEffect
<1>4. Shrinks(c)
  BY <1>2, <1>3 DEF Shrinks
<1> QED BY <1>1, <1>4

(* A kill takes only the killed client's message.                          *)
LEMMA MsgsCleared ==
    ASSUME ConsistAssumption, TInv, NEW c \in Clients, msgs' = [msgs EXCEPT ![c] = {}]
    PROVE  \A d \in Clients : msgs'[d] = msgs[d] \/ (d = c /\ msgs'[d] = {})
<1>1. msgs \in [Clients -> SUBSET Commands]
  BY DEF TInv, Shape, ServerShape
<1> QED BY <1>1

(* A calm step: aborting an open after a failed action.                    *)
LEMMA CalmAbort ==
    ASSUME ConsistAssumption, TInv, NEW p \in Procs, AbortOpen(p)
    PROVE  Calm
<1>e. AbortFacts(p)
  BY AbortEffect
<1>1. /\ UNCHANGED <<jobs, replies, openTimeStamp, action, cmd>>
      /\ trouble \subseteq trouble' /\ Host[p] \in trouble' /\ Host[p] \in Clients
  BY <1>e, HostType DEF AbortFacts, clientVars
<1>2. \A d \in Clients : msgs'[d] = msgs[d] \/ (d = Host[p] /\ msgs'[d] = {})
  BY <1>e, <1>1, MsgsCleared DEF AbortFacts
<1>3. /\ \A d \in Clients : Shrinks(d)
      /\ \A d \in Clients \ trouble' : Released(d)
      /\ \A d \in Clients : msgs'[d] = msgs[d] \/ (d \in trouble' /\ msgs'[d] = {})
  BY <1>e, <1>1, <1>2, CalmKill DEF AbortFacts
<1> QED BY <1>1, <1>3 DEF Calm

(* A calm step: the end of a callback (ClientCommand).                     *)
LEMMA CalmDone ==
    ASSUME ConsistAssumption, TInv, CommandDone
    PROVE  Calm
<1>e. DoneFacts
  BY CommandDoneEffect
<1>1. /\ UNCHANGED <<jobs, replies, openTimeStamp>>
      /\ trouble \subseteq trouble' /\ cmd.client \in Clients
      /\ action'.by = action.by /\ action'.cacheable = action.cacheable
      /\ action'.todo = action.todo /\ action.phase = "command" /\ action'.phase = "visit"
  BY <1>e DEF DoneFacts, clientVars
<1>2. CASE cmd.answer = "ok"
  <2>1. /\ \A d \in Clients : Shrinks(d) /\ Released(d)
        /\ \A d \in Clients : msgs'[d] = msgs[d]
    BY <1>e, <1>2, SameEntry DEF DoneFacts
  <2> QED BY <1>1, <2>1 DEF Calm
<1>3. CASE cmd.answer # "ok"
  <2>1. \A d \in Clients : msgs'[d] = msgs[d] \/ (d = cmd.client /\ msgs'[d] = {})
    BY <1>e, <1>1, <1>3, MsgsCleared DEF DoneFacts
  <2>2. cmd.client \in trouble' /\ entry' = IOClientKill(cmd.client)
    BY <1>e, <1>3 DEF DoneFacts
  <2>3. /\ \A d \in Clients : Shrinks(d)
        /\ \A d \in Clients \ trouble' : Released(d)
        /\ \A d \in Clients : msgs'[d] = msgs[d] \/ (d \in trouble' /\ msgs'[d] = {})
    BY <1>1, <2>1, <2>2, CalmKill
  <2> QED BY <1>1, <2>3 DEF Calm
<1> QED BY <1>2, <1>3

(* A calm step: killing the clients that have not answered                 *)
(* (ConsistTimeout).                                                       *)
LEMMA CalmTimeout ==
    ASSUME ConsistAssumption, TInv, ConsistTimeout
    PROVE  Calm
<1>e. TimeoutFacts
  BY TimeoutEffect
<1>1. /\ UNCHANGED <<jobs, replies, openTimeStamp, action, cmd>> /\ trouble' = trouble \cup SlowOnes
      /\ SlowOnes \subseteq Clients
  BY <1>e DEF TimeoutFacts, clientVars, SlowOnes
<1>2. \A c \in SlowOnes : Shrinks(c)
  <2> SUFFICES ASSUME NEW c \in SlowOnes PROVE Shrinks(c)
    OBVIOUS
  <2>1. entry[c].ref \in Nat /\ entry[c].write \in Nat
    BY <1>1, EntryFacts
  <2>2. entry'[c].ref = 0 /\ entry'[c].write = 0 /\ (entry'[c].cached => entry[c].cached)
    BY <1>e DEF TimeoutFacts
  <2> QED BY <2>1, <2>2 DEF Shrinks
<1>3. \A c \in Clients \ SlowOnes : Shrinks(c) /\ Released(c)
  BY <1>e, SameEntry DEF TimeoutFacts
<1>4. \A c \in Clients : msgs'[c] = msgs[c] \/ (c \in SlowOnes /\ msgs'[c] = {})
  BY <1>e DEF TimeoutFacts, SlowOnes
<1> QED BY <1>1, <1>2, <1>3, <1>4 DEF Calm

(* Forgetting the last writer shrinks or releases its element.             *)
LEMMA CalmDelete ==
    ASSUME ConsistAssumption, TInv, NEW c \in Clients, DeleteFacts(c)
    PROVE  \A d \in Clients : Shrinks(d) /\ Released(d)
<1>1. CASE UNCHANGED <<entry, lastWriter>>
  BY <1>1, SameEntry
<1>2. CASE entry'[c] = NoEntry /\ \A d \in Clients \ {c} : entry'[d] = entry[d]
  <2>1. Shrinks(c) /\ Released(c)
    BY <1>2, ShrinksNone, EntryFacts DEF Released
  <2> QED BY <1>2, <2>1, SameEntry
<1> QED BY <1>1, <1>2 DEF DeleteFacts

(* A calm step: a delayed write-back.                                      *)
LEMMA CalmClean ==
    ASSUME ConsistAssumption, TInv, NEW c \in Clients, CleanBlocks(c)
    PROVE  Calm
<1>e. CleanFacts(c)
  BY CleanEffect
<1>1. UNCHANGED <<trouble, jobs, replies, openTimeStamp, msgs, action, cmd>>
  BY <1>e DEF CleanFacts
<1>2. \A d \in Clients : Shrinks(d) /\ Released(d) /\ msgs'[d] = msgs[d]
  BY <1>e, <1>1, CalmDelete DEF CleanFacts
<1> QED BY <1>1, <1>2 DEF Calm

(* A calm step: killing a crashed client (Fsio_FileClientKill).            *)
LEMMA CalmClientKill ==
    ASSUME ConsistAssumption, TInv, CInv, NEW c \in Clients, ClientKill(c)
    PROVE  Calm
<1>e. ClientKillFacts(c) /\ c \in trouble
  BY DEF ClientKill, ClientKillFacts, KilledProcs, CInv, CrashNoted
<1>1. UNCHANGED <<trouble, jobs, replies, openTimeStamp, msgs, action, cmd>>
  BY <1>e DEF ClientKillFacts, clientVars, history
<1>2. /\ \A d \in Clients : Shrinks(d)
      /\ \A d \in Clients \ trouble' : Released(d)
      /\ \A d \in Clients : msgs'[d] = msgs[d] \/ (d \in trouble' /\ msgs'[d] = {})
  BY <1>e, <1>1, CalmKill DEF ClientKillFacts
<1> QED BY <1>1, <1>2 DEF Calm

(* A calm step: forgetting idle clients (Fsconsist_NumClients).            *)
LEMMA CalmForget ==
    ASSUME ConsistAssumption, TInv, NumClients
    PROVE  Calm
<1>e. ForgottenFacts
  BY NumClientsEffect
<1>1. UNCHANGED <<trouble, jobs, replies, openTimeStamp, msgs, action, cmd>>
  BY <1>e DEF ForgottenFacts, clientVars, history
<1>2. ASSUME NEW d \in Clients PROVE Shrinks(d) /\ Released(d) /\ msgs'[d] = msgs[d]
  <2>1. CASE entry'[d] = entry[d]
    BY <1>1, <2>1, SameEntry
  <2>2. CASE entry'[d] = NoEntry
    BY <1>1, <2>2, ShrinksNone, EntryFacts DEF Released
  <2> QED BY <1>e, <2>1, <2>2 DEF ForgottenFacts
<1> QED BY <1>1, <1>2 DEF Calm

(* Every other step starts, continues or ends an action or handles one of  *)
(* its commands.                                                           *)
LEMMA CalmStep ==
    ASSUME ConsistAssumption, OneEach, TInv, CInv, [Next]_vars
    PROVE  \/ Calm
           \/ \E p \in Procs : StartConsistency(p)
           \/ VisitClient \/ UpdateList \/ EndConsistency
           \/ \E c \in Clients : RpcConsist(c)
           \/ \E j \in jobs : ProcessConsist(j)
           \/ \E r \in replies : ProcessConsistReply(r)
<1>1. ASSUME NEW p \in Procs, ProcStep(p) PROVE Calm \/ StartConsistency(p)
  BY <1>1, CalmOutside, CalmAbort, CalmClose DEF ProcStep
<1>2. ASSUME ActionStep PROVE Calm \/ VisitClient \/ UpdateList \/ EndConsistency
  BY <1>2, CalmIdle, CalmDone, CalmTimeout DEF ActionStep
<1>3. ASSUME NEW c \in Clients, ClientStep(c) PROVE Calm \/ RpcConsist(c)
  BY <1>3, CalmElsewhere, CalmClean, CalmClientKill DEF ClientStep
<1> QED BY <1>1, <1>2, <1>3, CalmIdle, CalmForget DEF Next

(* Every client has one set of outstanding commands.                       *)
LEMMA MsgsType == ASSUME TInv PROVE msgs \in [Clients -> SUBSET Commands]
BY DEF TInv, Shape, ServerShape

(* Commands, jobs and replies concern clients.                             *)
LEMMA PipeTypes ==
    ASSUME TInv
    PROVE  /\ \A m \in jobs \cup replies : m.client \in Clients
           /\ action.phase = "command" => cmd.client \in Clients /\ cmd.op # {}
           /\ trouble \subseteq Clients
BY DEF TInv, Shape, ClientShape, HistoryShape, Structure, CmdTied

(* The order of commands and answers survives calm steps.                  *)
LEMMA PipeCalm ==
    ASSUME ConsistAssumption, TInv, TInv', CInv', Pipe, Calm, HoldersShrink
    PROVE  Pipe'
<1>t. /\ \A m \in jobs \cup replies : m.client \in Clients
      /\ action'.phase = "command" => cmd'.client \in Clients
      /\ trouble' \subseteq Clients
  <2>1. /\ \A m \in jobs \cup replies : m.client \in Clients
    BY PipeTypes
  <2>2. action'.phase = "command" => cmd'.client \in Clients
    BY DEF TInv, Structure, CmdTied
  <2>3. trouble' \subseteq Clients
    BY DEF TInv, Shape, HistoryShape
  <2> QED BY <2>1, <2>2, <2>3
<1>m. \A c \in Clients : msgs'[c] = msgs[c] \/ (c \in trouble' /\ msgs'[c] = {})
  BY DEF Calm
<1>1. Unasked'
  BY <1>m DEF Calm, Pipe, Unasked
<1>2. Asked'
  <2> SUFFICES ASSUME NEW c \in Clients \ trouble',
                      action'.phase = "command", cmd'.answer = "none", cmd'.client = c
               PROVE  /\ msgs'[c] = cmd'.op
                      /\ \A m \in jobs' \cup replies' : m.client # c
                      /\ Holders(c)' # {} => cmd'.stamp = entry'[c].stamp
    BY DEF Asked
  <2>1. /\ action.phase = "command" /\ cmd.answer = "none" /\ c \notin trouble /\ cmd.client = c
        /\ cmd'.op = cmd.op /\ cmd'.stamp = cmd.stamp
    BY <1>t DEF Calm
  <2>2. /\ msgs[c] = cmd.op
        /\ \A m \in jobs \cup replies : m.client # c
        /\ Holders(c) # {} => cmd.stamp = entry[c].stamp
    BY <2>1 DEF Pipe, Asked
  <2>3. msgs'[c] = msgs[c]
    BY <1>m, <2>1
  <2>4. \A m \in jobs' \cup replies' : m.client # c
    BY <2>2 DEF Calm
  <2>5. ASSUME Holders(c)' # {} PROVE cmd.stamp = entry'[c].stamp
    <3>1. Holders(c) # {}
      BY <2>1, <2>5 DEF HoldersShrink
    <3>2. entry'[c].ref = Cardinality(Holders(c)')
      BY <2>1 DEF CInv, Counted
    <3>3. entry'[c] # NoEntry
      <4>1. entry'[c].ref # 0
        <5>1. Holders(c)' \subseteq Procs
          BY DEF Holders
        <5>2. IsFiniteSet(Holders(c)')
          BY <5>1, FS_Subset DEF ConsistAssumption
        <5> QED BY <2>5, <3>2, <5>2, FS_EmptySet
      <4> QED BY <4>1 DEF NoEntry
    <3>4. entry'[c].stamp = entry[c].stamp
      BY <2>1, <3>3 DEF Calm, Released
    <3> QED BY <2>2, <3>1, <3>4
  <2> QED BY <2>1, <2>2, <2>3, <2>4, <2>5
<1>3. Queued'
  <2> SUFFICES ASSUME NEW j \in jobs', j.client \notin trouble'
               PROVE  /\ j.op = msgs'[j.client] /\ j.op # {}
                      /\ \A k \in jobs' : k.client = j.client => k = j
                      /\ \A r \in replies' : r.client # j.client
    BY DEF Queued
  <2>1. j \in jobs /\ j.client \notin trouble /\ j.client \in Clients
        /\ jobs' \subseteq jobs /\ replies' \subseteq replies
    BY <1>t DEF Calm
  <2>2. /\ j.op = msgs[j.client] /\ j.op # {}
        /\ \A k \in jobs : k.client = j.client => k = j
        /\ \A r \in replies : r.client # j.client
    BY <2>1 DEF Pipe, Queued
  <2> QED BY <1>m, <2>1, <2>2
<1>4. Replied'
  <2> SUFFICES ASSUME NEW r \in replies', r.client \notin trouble'
               PROVE  /\ msgs'[r.client] # {} /\ r.ok
                      /\ \A s \in replies' : s.client = r.client => s = r
    BY DEF Replied
  <2>1. r \in replies /\ r.client \notin trouble /\ r.client \in Clients /\ replies' \subseteq replies
    BY <1>t DEF Calm
  <2>2. /\ msgs[r.client] # {} /\ r.ok
        /\ \A s \in replies : s.client = r.client => s = r
    BY <2>1 DEF Pipe, Replied
  <2> QED BY <1>m, <2>1, <2>2
<1>5. Halves'
  <2> SUFFICES ASSUME NEW c \in Clients \ trouble', msgs'[c] \in {{"writeBack"}, {"invalidate"}}
               PROVE  entry'[c].write = 0
    BY DEF Halves
  <2>1. msgs[c] = msgs'[c] /\ c \notin trouble
    BY <1>m DEF Calm
  <2>2. entry[c].write = 0
    BY <2>1 DEF Pipe, Halves
  <2>3. entry'[c].write <= entry[c].write /\ entry'[c].write \in Nat
    <3>1. entry'[c].write \in Nat
      BY DEF TInv, Shape, ServerShape, EntryShape, NatEntry
    <3> QED BY <3>1 DEF Calm, Shrinks
  <2> QED BY <2>2, <2>3
<1> QED BY <1>1, <1>2, <1>3, <1>4, <1>5 DEF Pipe

(* Only the update of the client list makes a use begin.                   *)
LEMMA HoldsSamePc ==
    ASSUME NEW q, pc'[q] = pc[q], action'.phase = "wait" => action.phase = "wait"
    PROVE  Holds(q)' => Holds(q)
BY DEF Holds, Waits

(* No step of a process but the update of the list makes a use begin.      *)
LEMMA HoldsProc ==
    ASSUME ConsistAssumption, TInv, NEW p \in Procs, ProcStep(p), NEW q \in Procs
    PROVE  Holds(q)' => Holds(q)
<1>0. pc \in [Procs -> States] /\ (pc[p] = "consist" => action.by = p)
  BY DEF TInv, Shape, ProcShape, Structure, ActionTied
<1>1. CASE \E m \in Modes : OpenSend(p, m)
  BY <1>0, <1>1 DEF OpenSend, Holds, Waits, serverVars
<1>2. CASE NameOpen(p)
  BY <1>0, <1>2 DEF NameOpen, Holds, Waits
<1>3. CASE StartConsistency(p)
  <2>1. PICK n, todo : action' = [NoAction EXCEPT !.by = p, !.phase = "visit",
                          !.cacheable = Cacheable(p), !.todo = todo, !.next = n]
    BY <1>3 DEF StartConsistency
  <2>2. action'.phase = "visit"
    BY <2>1 DEF NoAction
  <2> QED BY <1>0, <1>3, <2>2 DEF StartConsistency, Holds, Waits
<1>4. CASE AbortOpen(p)
  <2>1. IdleOrDead(p) \in {"idle", "dead"}
    BY DEF IdleOrDead
  <2> QED BY <1>0, <1>4, <2>1 DEF AbortOpen, Finish, Holds, Waits
<1>5. CASE OpenReply(p)
  BY <1>0, <1>5 DEF OpenReply, Finish, Holds, Waits, serverVars
<1>6. CASE OpenDone(p)
  BY <1>0, <1>6 DEF OpenDone, Holds, Waits, serverVars
<1>7. CASE IoOpen(p)
  BY <1>0, <1>7 DEF IoOpen, Holds, Waits, serverVars
<1>8. CASE ReadFill(p) \/ Write(p)
  BY <1>0, <1>8 DEF ReadFill, Write, Holds, Waits, serverVars, procVars
<1>9. CASE CloseSend(p)
  BY <1>0, <1>9 DEF CloseSend, Holds, Waits, IsOpen, serverVars
<1>10. CASE Close(p)
  <2>1. IdleOrDead(p) \in {"idle", "dead"}
    BY DEF IdleOrDead
  <2> QED BY <1>0, <1>10, <2>1 DEF Close, Finish, Holds, Waits
<1> QED BY <1>1, <1>2, <1>3, <1>4, <1>5, <1>6, <1>7, <1>8, <1>9, <1>10 DEF ProcStep

(* No other step of an action makes a use begin.                           *)
LEMMA HoldsAction ==
    ASSUME ConsistAssumption, TInv, ActionStep, ~UpdateList, NEW q \in Procs
    PROVE  Holds(q)' => Holds(q)
<1>1. CASE VisitClient
  BY ZenonT(60), <1>1, VisitEffect, HoldsSamePc DEF VisitFacts, VisitClient, procVars
<1>2. CASE CommandTimeout
  BY <1>2, HoldsSamePc DEF CommandTimeout, procVars
<1>3. CASE CommandDone
  BY <1>3, CommandDoneEffect, HoldsSamePc DEF DoneFacts, procVars
<1>4. CASE EndConsistency
  <2>1. EndFacts
    BY <1>4, EndEffect
  <2> QED BY <2>1 DEF EndFacts, Holds, Waits
<1>5. CASE ConsistTimeoutIntr
  <2>1. action' = [action EXCEPT !.armed = FALSE]
    BY <1>5 DEF ConsistTimeoutIntr
  <2>2. action'.phase = action.phase
    BY <2>1, ActionRecord
  <2> QED BY <1>5, <2>2, HoldsSamePc DEF ConsistTimeoutIntr, procVars
<1>6. CASE ConsistTimeout
  BY <1>6, HoldsSamePc DEF ConsistTimeout, procVars
<1> QED BY SMTT(60), <1>1, <1>2, <1>3, <1>4, <1>5, <1>6 DEF ActionStep

(* No step but the update of the client list makes a use begin.            *)
LEMMA HoldsStep ==
    ASSUME ConsistAssumption, TInv, [Next]_vars, ~UpdateList, NEW q \in Procs
    PROVE  Holds(q)' => Holds(q)
<1>1. ASSUME NEW c \in Clients, ClientStep(c) PROVE Holds(q)' => Holds(q)
  <2>1. CASE RpcConsist(c) \/ CleanBlocks(c)
    BY <2>1, HoldsSamePc DEF RpcConsist, CleanBlocks, procVars
  <2>2. CASE FileScavenge(c)
    BY <2>2, HoldsSamePc DEF FileScavenge, serverVars, procVars
  <2>3. CASE Crash(c)
    BY <2>3 DEF Crash, Finish, Holds, Waits, serverVars
  <2>4. CASE ClientKill(c)
    BY <2>4 DEF ClientKill, Finish, Holds, Waits
  <2> QED BY <1>1, <2>1, <2>2, <2>3, <2>4 DEF ClientStep
<1>2. ASSUME NEW j \in jobs, ProcessConsist(j) PROVE Holds(q)' => Holds(q)
  BY <1>2, HoldsSamePc DEF ProcessConsist, procVars
<1>3. ASSUME NEW r \in replies, ProcessConsistReply(r) PROVE Holds(q)' => Holds(q)
  <2>1. ReplyFacts(r)
    BY <1>3, ReplyEffect
  <2>2. action'.phase = action.phase /\ UNCHANGED procVars
    BY <2>1, ActionRecord DEF ReplyFacts, SettledReply
  <2> QED BY <2>2, HoldsSamePc DEF procVars
<1>4. CASE NumClients
  BY <1>4, HoldsSamePc DEF NumClients, procVars
<1>5. CASE UNCHANGED vars
  BY <1>5, HoldsSamePc DEF vars, serverVars, procVars
<1> QED BY <1>1, <1>2, <1>3, <1>4, <1>5, HoldsProc, HoldsAction DEF Next

(* What starting a consistency action does, spelled out.                   *)
LEMMA StartEffect ==
    ASSUME NEW p \in Procs, StartConsistency(p)
    PROVE  StartFacts(p)
<1> DEFINE others == {c \in Clients \ {Host[p]} : entry[c].listed}
<1>a. PICK n \in Successors(others) :
        action' = [NoAction EXCEPT !.by = p, !.phase = "visit",
                          !.cacheable = Cacheable(p), !.todo = others, !.next = n]
  BY DEF StartConsistency
<1>b. /\ action'.by = p /\ action'.phase = "visit" /\ action'.todo = others
      /\ action'.cacheable = Cacheable(p)
  BY <1>a DEF NoAction
<1>d. action.phase = "none" /\ action.by = None
  BY DEF StartConsistency, InProgress, NoAction
<1> QED BY SMTT(60), <1>b, <1>d DEF StartConsistency, StartFacts

(* The order of commands and answers survives starting a consistency       *)
(* action.                                                                 *)
LEMMA PipeStart ==
    ASSUME ConsistAssumption, TInv, MsgsTied, Pipe, NEW p \in Procs, StartConsistency(p)
    PROVE  Pipe'
<1>e. StartFacts(p)
  BY StartEffect
<1>1. UNCHANGED <<msgs, jobs, replies, entry, trouble>> /\ action'.phase = "visit"
      /\ \A c \in Clients : msgs[c] = {}
  BY <1>e DEF StartFacts, clientVars, history, MsgsTied
<1> QED BY <1>1 DEF Pipe, Unasked, Asked, Queued, Replied, Halves

(* The order of commands and answers survives listing the opener           *)
(* (UpdateList).                                                           *)
LEMMA PipeUpdate ==
    ASSUME ConsistAssumption, TInv, Pipe, UpdateList
    PROVE  Pipe'
<1>e. UpdateFacts
  BY UpdateEffect
<1>1. UNCHANGED <<msgs, jobs, replies, trouble>> /\ action'.phase = "wait" /\ action'.todo = action.todo
      /\ action'.by = action.by /\ action.by # None
  BY <1>e, NoneApart, ActionRecord DEF UpdateFacts, UpdateList, clientVars, history
<1>2. msgs[Host[action.by]] = {} /\ \A c \in Clients \ {Host[action.by]} : entry'[c] = entry[c]
  BY <1>1, <1>e DEF Pipe, Unasked, UpdateFacts
<1>3. Unasked'
  BY <1>1 DEF Pipe, Unasked
<1>4. Halves'
  BY <1>1, <1>2 DEF Pipe, Halves
<1> QED BY <1>1, <1>3, <1>4 DEF Pipe, Asked, Queued, Replied

(* The order of commands and answers survives the end of a consistency     *)
(* action.                                                                 *)
LEMMA PipeEnd ==
    ASSUME ConsistAssumption, TInv, Pipe, EndConsistency
    PROVE  Pipe'
<1>e. EndFacts
  BY EndEffect
<1>1. UNCHANGED <<msgs, jobs, replies, entry, trouble>> /\ action'.phase = "none"
      /\ action'.by = None /\ action'.todo = {}
  BY <1>e DEF EndFacts, clientVars, history, NoAction
<1> QED BY <1>1 DEF Pipe, Unasked, Asked, Queued, Replied, Halves

(* The order of commands and answers survives the arrival of a command     *)
(* (Fsconsist_RpcConsist).                                                 *)
LEMMA PipeRpc ==
    ASSUME ConsistAssumption, TInv, Pipe, NEW c \in Clients, RpcConsist(c)
    PROVE  Pipe'
<1>e. RpcConsistFacts(c)
  BY RpcConsistEffect
<1>1. UNCHANGED <<msgs, replies, entry, trouble, action>> /\ cmd'.answer # "none"
      /\ action.phase = "command" /\ cmd.answer = "none" /\ cmd.client = c /\ cmd.op # {}
  BY <1>e DEF RpcConsistFacts, history, AcceptedFacts, TInv, Structure, CmdTied
<1> DEFINE j0 == [client |-> c, op |-> cmd.op, stamp |-> cmd.stamp]
<1>2. jobs' = jobs \/ jobs' = jobs \cup {j0}
  BY <1>e DEF RpcConsistFacts, AcceptedFacts
<1>3. c \notin trouble => msgs[c] = cmd.op /\ \A m \in jobs \cup replies : m.client # c
  BY <1>1 DEF Pipe, Asked
<1>4. j0.client = c /\ j0.op = cmd.op
  OBVIOUS
<1> HIDE DEF j0
<1>5. Queued'
  <2> SUFFICES ASSUME NEW j \in jobs', j.client \notin trouble
               PROVE  /\ j.op = msgs[j.client] /\ j.op # {}
                      /\ \A k \in jobs' : k.client = j.client => k = j
                      /\ \A r \in replies : r.client # j.client
    BY <1>1 DEF Queued
  <2>1. CASE j \in jobs
    <3>1. /\ j.op = msgs[j.client] /\ j.op # {}
          /\ \A k \in jobs : k.client = j.client => k = j
          /\ \A r \in replies : r.client # j.client
      BY <2>1 DEF Pipe, Queued
    <3>2. j.client = c => c \notin trouble
      OBVIOUS
    <3> QED BY <1>2, <1>3, <1>4, <2>1, <3>1, <3>2
  <2>2. CASE j = j0
    BY <1>1, <1>2, <1>3, <1>4, <2>2
  <2> QED BY <1>2, <2>1, <2>2
<1>6. Unasked' /\ Asked' /\ Replied' /\ Halves'
  BY <1>1 DEF Pipe, Unasked, Asked, Replied, Halves
<1> QED BY <1>5, <1>6 DEF Pipe

(* The order of commands and answers survives receiving a reply            *)
(* (ProcessConsistReply).                                                  *)
LEMMA PipeReply ==
    ASSUME ConsistAssumption, TInv, TInv', Pipe, NEW r \in replies, ProcessConsistReply(r)
    PROVE  Pipe'
<1>e. ReplyFacts(r)
  BY ReplyEffect
<1> DEFINE c == r.client
<1>1. /\ UNCHANGED <<jobs, trouble, cmd>> /\ replies' = replies \ {r} /\ c \in Clients
      /\ action'.by = action.by /\ action'.phase = action.phase /\ action'.todo = action.todo
      /\ msgs'[c] = {} /\ \A d \in Clients \ {c} : msgs'[d] = msgs[d]
  BY <1>e, ActionRecord DEF ReplyFacts, SettledReply, history
<1>2. c \notin trouble => /\ \A j \in jobs : j.client # c
                          /\ \A s \in replies' : s.client # c
  BY <1>1 DEF Pipe, Queued, Replied
<1>3. \A d \in Clients \ {c} : entry'[d] = entry[d]
  BY <1>e DEF ReplyFacts, SettledReply
<1>4. /\ \A m \in jobs \cup replies : m.client \in Clients
  BY PipeTypes
<1>5. Unasked'
  BY <1>1 DEF Pipe, Unasked
<1>6. Asked'
  <2> SUFFICES ASSUME NEW d \in Clients \ trouble,
                      action.phase = "command", cmd.answer = "none", cmd.client = d
               PROVE  /\ msgs'[d] = cmd.op
                      /\ \A m \in jobs \cup replies' : m.client # d
                      /\ Holders(d)' # {} => cmd.stamp = entry'[d].stamp
    BY <1>1 DEF Asked
  <2>1. /\ msgs[d] = cmd.op
        /\ \A m \in jobs \cup replies : m.client # d
        /\ Holders(d) # {} => cmd.stamp = entry[d].stamp
    BY DEF Pipe, Asked
  <2>2. d # c
    BY <2>1
  <2>3. Holders(d)' = Holders(d)
    BY <1>e, <1>1 DEF ReplyFacts, procVars, Holders, Holds, Waits
  <2> QED BY <1>1, <1>3, <2>1, <2>2, <2>3
<1>7. Queued'
  <2> SUFFICES ASSUME NEW j \in jobs, j.client \notin trouble
               PROVE  /\ j.op = msgs'[j.client] /\ j.op # {}
                      /\ \A k \in jobs : k.client = j.client => k = j
                      /\ \A s \in replies' : s.client # j.client
    BY <1>1 DEF Queued
  <2>1. j.client # c /\ j.client \in Clients
    BY <1>2, <1>4
  <2> QED BY <1>1, <2>1 DEF Pipe, Queued
<1>8. Replied'
  <2> SUFFICES ASSUME NEW s \in replies', s.client \notin trouble
               PROVE  /\ msgs'[s.client] # {} /\ s.ok
                      /\ \A t \in replies' : t.client = s.client => t = s
    BY <1>1 DEF Replied
  <2>1. s.client # c /\ s.client \in Clients /\ s \in replies
    BY <1>1, <1>2, <1>4
  <2> QED BY <1>1, <2>1 DEF Pipe, Replied
<1>9. Halves'
  <2> SUFFICES ASSUME NEW d \in Clients \ trouble, msgs'[d] \in {{"writeBack"}, {"invalidate"}}
               PROVE  entry'[d].write = 0
    BY <1>1 DEF Halves
  <2>1. d # c
    BY <1>1
  <2> QED BY <1>1, <1>3, <2>1 DEF Pipe, Halves
<1> QED BY <1>5, <1>6, <1>7, <1>8, <1>9 DEF Pipe

(* A client told only one of two things has no writer.                     *)
LEMMA CommandForHalves ==
    ASSUME TInv, NEW c \in Clients, action.cacheable => entry[c].write = 0,
           CommandFor(c) \in {{"writeBack"}, {"invalidate"}}
    PROVE  entry[c].write = 0
<1>1. entry[c].write \in Nat
  BY EntryFacts
<1>2. SUFFICES ASSUME ~action.cacheable, entry[c].write > 0 PROVE FALSE
  BY <1>1
<1>3. CommandFor(c) = {} \/ CommandFor(c) = {"writeBack", "invalidate"}
  BY <1>2 DEF CommandFor
<1>4. {"writeBack", "invalidate"} # {"writeBack"} /\ {"writeBack", "invalidate"} # {"invalidate"}
  <2>1. "writeBack" # "invalidate"
    OBVIOUS
  <2> QED BY <2>1
<1> QED BY <1>3, <1>4

(* The order of commands and answers survives a turn of the walk over the  *)
(* client list.                                                            *)
LEMMA PipeVisit ==
    ASSUME ConsistAssumption, TInv, Pipe, Alone, VisitClient
    PROVE  Pipe'
<1>e. VisitFacts
  BY VisitEffect
<1> DEFINE c == action.next
           op == CommandFor(c)
<1>1. /\ UNCHANGED <<entry, jobs, replies, trouble, pc, mode>>
      /\ action.phase = "visit" /\ c \in Clients /\ c \in action.todo
      /\ action'.by = action.by /\ action'.todo \subseteq action.todo \ {c}
  BY <1>e DEF VisitFacts, VisitClient, procVars, clientVars
<1>2. /\ op = {} => action'.phase = "visit" /\ msgs' = msgs
      /\ op # {} => /\ msgs'[c] = op /\ \A d \in Clients \ {c} : msgs'[d] = msgs[d]
                    /\ cmd'.client = c /\ cmd'.op = op /\ cmd'.stamp = entry[c].stamp
  BY <1>e, <1>1, MsgsType DEF VisitFacts
<1>3. action.by \in Procs /\ Host[action.by] # c /\ action.cacheable => entry[c].write = 0
  BY <1>1, ActionFacts DEF Alone, Walking, Cacheable, TInv, Structure, ActionTied
<1>4. action.by \in Procs /\ Host[action.by] # c /\ action.by # None
  BY <1>1, ActionFacts, NoneApart DEF TInv, Structure, ActionTied
<1>5. \A d \in Clients \ {c} : msgs'[d] = msgs[d]
  BY <1>2
<1>6. msgs[c] = {}
  BY <1>1 DEF Pipe, Unasked
<1>7. c \notin trouble => \A m \in jobs \cup replies : m.client # c
  BY <1>6 DEF Pipe, Queued, Replied
<1>t. \A m \in jobs \cup replies : m.client \in Clients
  BY PipeTypes
<1>8. Unasked'
  BY <1>1, <1>4, <1>5 DEF Pipe, Unasked
<1>9. Halves'
  <2> SUFFICES ASSUME NEW d \in Clients \ trouble, msgs'[d] \in {{"writeBack"}, {"invalidate"}}
               PROVE  entry[d].write = 0
    BY <1>1 DEF Halves
  <2>1. CASE d # c
    BY <1>5, <2>1 DEF Pipe, Halves
  <2>2. CASE d = c /\ op # {}
    BY <1>1, <1>2, <1>3, <1>4, <2>2, CommandForHalves
  <2>3. CASE d = c /\ op = {}
    BY <1>2, <1>6, <2>3
  <2> QED BY <2>1, <2>2, <2>3
<1>10. Queued'
  <2> SUFFICES ASSUME NEW j \in jobs, j.client \notin trouble
               PROVE  /\ j.op = msgs'[j.client] /\ j.op # {}
                      /\ \A k \in jobs : k.client = j.client => k = j
                      /\ \A r \in replies : r.client # j.client
    BY <1>1 DEF Queued
  <2>1. j.client # c /\ j.client \in Clients
    BY <1>7, <1>t
  <2> QED BY <1>5, <2>1 DEF Pipe, Queued
<1>11. Replied'
  <2> SUFFICES ASSUME NEW s \in replies, s.client \notin trouble
               PROVE  /\ msgs'[s.client] # {} /\ s.ok
                      /\ \A t \in replies : t.client = s.client => t = s
    BY <1>1 DEF Replied
  <2>1. s.client # c /\ s.client \in Clients
    BY <1>7, <1>t
  <2> QED BY <1>5, <2>1 DEF Pipe, Replied
<1>12. Asked'
  <2> SUFFICES ASSUME NEW d \in Clients \ trouble, action'.phase = "command", cmd'.client = d
               PROVE  /\ msgs'[d] = cmd'.op
                      /\ \A m \in jobs \cup replies : m.client # d
                      /\ Holders(d)' # {} => cmd'.stamp = entry[d].stamp
    BY <1>1 DEF Asked
  <2>1. op # {}
    BY <1>2
  <2> QED BY <1>2, <1>7, <2>1
<1> QED BY <1>8, <1>9, <1>10, <1>11, <1>12 DEF Pipe

(* An executed command sends at most one answer, and a refusal means       *)
(* trouble.                                                                *)
LEMMA JobReplies ==
    ASSUME ConsistAssumption, TInv, NEW j \in jobs, JobFacts(j)
    PROVE  \/ replies' = replies
           \/ \E ok \in BOOLEAN :
                /\ replies' = replies \cup {[client |-> j.client, ok |-> ok, stamp |-> j.stamp]}
                /\ ok \/ j.client \in trouble'
<1>1. CASE DroppedJob(j)
  BY <1>1 DEF DroppedJob
<1>2. CASE PlainJob(j) \/ FlushedJob(j)
  <2>1. TRUE \in BOOLEAN
    OBVIOUS
  <2> QED BY <1>2, <2>1 DEF PlainJob, FlushedJob, Answered
<1>3. CASE FailedJob(j)
  <2>1. handle'[j.client].block = "dirty" /\ Flushes(j)
    BY <1>3 DEF FailedJob, Answered, ConsistedFacts, Flushes
  <2>2. j.client \in trouble' /\ FALSE \in BOOLEAN
    BY <2>1 DEF JobFacts
  <2> QED BY <1>3, <2>2 DEF FailedJob, Answered
<1> QED BY <1>1, <1>2, <1>3 DEF JobFacts

(* The order of commands and answers survives executing a command          *)
(* (ProcessConsist).                                                       *)
LEMMA PipeJob ==
    ASSUME ConsistAssumption, TInv, Pipe, NEW j \in jobs, ProcessConsist(j)
    PROVE  Pipe'
<1>e. JobFacts(j)
  BY JobEffect
<1> DEFINE c == j.client
<1>1. /\ UNCHANGED <<msgs, action, cmd, pc, mode>> /\ jobs' = jobs \ {j} /\ c \in Clients
      /\ trouble \subseteq trouble'
  BY <1>e DEF JobFacts, procVars
<1>2. \A d \in Clients : entry'[d] = entry[d] \/ (entry'[d] = NoEntry /\ entry[d].ref = 0)
  BY <1>e, JobGeneral DEF DeleteFacts
<1>3. PICK r0 : r0.client = c /\ (r0.ok \/ c \in trouble')
                /\ (replies' = replies \/ replies' = replies \cup {r0})
  <2>1. CASE replies' = replies
    <3> DEFINE r1 == [client |-> c, ok |-> TRUE]
    <3>1. r1.client = c /\ r1.ok
      OBVIOUS
    <3> QED BY <2>1, <3>1
  <2>2. ASSUME NEW ok \in BOOLEAN,
               replies' = replies \cup {[client |-> c, ok |-> ok, stamp |-> j.stamp]},
               ok \/ c \in trouble'
        PROVE  \E r0 : r0.client = c /\ (r0.ok \/ c \in trouble')
                       /\ (replies' = replies \/ replies' = replies \cup {r0})
    <3> DEFINE r1 == [client |-> c, ok |-> ok, stamp |-> j.stamp]
    <3>1. r1.client = c /\ (r1.ok \/ c \in trouble')
      BY <2>2
    <3> QED BY <2>2, <3>1
  <2> QED BY <1>e, JobReplies, <2>1, <2>2
<1>4. c \notin trouble => /\ msgs[c] # {}
                          /\ \A k \in jobs' : k.client # c
                          /\ \A r \in replies : r.client # c
  BY <1>1 DEF Pipe, Queued
<1>5. Unasked'
  BY <1>1 DEF Pipe, Unasked
<1>6. Asked'
  <2> SUFFICES ASSUME NEW d \in Clients \ trouble',
                      action.phase = "command", cmd.answer = "none", cmd.client = d
               PROVE  /\ msgs[d] = cmd.op
                      /\ \A m \in jobs' \cup replies' : m.client # d
                      /\ Holders(d)' # {} => cmd.stamp = entry'[d].stamp
    BY <1>1 DEF Asked
  <2>1. /\ msgs[d] = cmd.op
        /\ \A m \in jobs \cup replies : m.client # d
        /\ Holders(d) # {} => cmd.stamp = entry[d].stamp
    BY <1>1 DEF Pipe, Asked
  <2>2. d # c
    BY <2>1
  <2>3. Holders(d)' = Holders(d)
    BY <1>1 DEF Holders, Holds, Waits
  <2>4. entry'[d] = entry[d]
    BY <1>e, <2>2, JobGeneral DEF DeleteFacts
  <2> QED BY <1>1, <1>3, <2>1, <2>2, <2>3, <2>4
<1>7. Queued'
  <2> SUFFICES ASSUME NEW i \in jobs', i.client \notin trouble'
               PROVE  /\ i.op = msgs[i.client] /\ i.op # {}
                      /\ \A k \in jobs' : k.client = i.client => k = i
                      /\ \A r \in replies' : r.client # i.client
    BY <1>1 DEF Queued
  <2>1. i \in jobs /\ i.client \notin trouble /\ i.client # c
    BY <1>1, <1>4
  <2> QED BY <1>1, <1>3, <2>1 DEF Pipe, Queued
<1>8. Replied'
  <2> SUFFICES ASSUME NEW s \in replies', s.client \notin trouble'
               PROVE  /\ msgs[s.client] # {} /\ s.ok
                      /\ \A t \in replies' : t.client = s.client => t = s
    BY <1>1 DEF Replied
  <2>1. CASE s \in replies
    <3>1. s.client \notin trouble /\ s.client # c
      BY <1>1, <1>3, <1>4, <2>1
    <3> QED BY <1>1, <1>3, <2>1, <3>1 DEF Pipe, Replied
  <2>2. CASE s = r0
    BY <1>1, <1>3, <1>4, <2>2
  <2> QED BY <1>3, <2>1, <2>2
<1>9. Halves'
  <2> SUFFICES ASSUME NEW d \in Clients \ trouble', msgs[d] \in {{"writeBack"}, {"invalidate"}}
               PROVE  entry'[d].write = 0
    BY <1>1 DEF Halves
  <2>1. entry[d].write = 0 /\ NoEntry.write = 0
    BY <1>1 DEF Pipe, Halves, NoEntry
  <2> QED BY <1>2, <2>1
<1> QED BY <1>5, <1>6, <1>7, <1>8, <1>9 DEF Pipe

(* A process that is not through keeps its place, mode and reply.          *)
LEMMA FinishKeeps ==
    ASSUME NEW ps, NEW where \in Through, Finish(ps, where), NEW q \in Procs
    PROVE  /\ pc'[q] \in Through \/ (pc'[q] = pc[q] /\ mode'[q] = mode[q] /\ grant'[q] = grant[q])
           /\ q \notin ps => pc'[q] = pc[q] /\ mode'[q] = mode[q] /\ grant'[q] = grant[q]
           /\ q \in ps => pc'[q] = where
BY DEF Finish

(* A step of a process changes modes only at the ends of an open.          *)
LEMMA ModeProc ==
    ASSUME ConsistAssumption, TInv, NEW p \in Procs, ProcStep(p), NEW q \in Procs
    PROVE  mode'[q] = mode[q] \/ pc[q] = "idle" \/ pc'[q] \in Through
<1>0. IdleOrDead(p) \in Through /\ "dead" \in Through
  BY DEF IdleOrDead, Through
<1>1. CASE \E m \in Modes : OpenSend(p, m)
  <2>1. mode \in [Procs -> Modes \cup {"none"}]
    BY DEF TInv, Shape, ProcShape
  <2> QED BY <1>1, <2>1 DEF OpenSend
<1>2. CASE NameOpen(p) \/ StartConsistency(p) \/ OpenDone(p) \/ IoOpen(p) \/ ReadFill(p) \/ Write(p)
           \/ CloseSend(p)
  BY <1>2 DEF NameOpen, StartConsistency, OpenDone, IoOpen, ReadFill, Write, CloseSend, procVars
<1>3. CASE AbortOpen(p) \/ Close(p)
  BY <1>0, <1>3, FinishKeeps DEF AbortOpen, Close
<1>4. CASE OpenReply(p)
  BY <1>0, <1>4, FinishKeeps DEF OpenReply
<1> QED BY <1>1, <1>2, <1>3, <1>4 DEF ProcStep

(* A step changes modes only at the ends of an open.                       *)
LEMMA ModeStep ==
    ASSUME ConsistAssumption, TInv, [Next]_vars, NEW q \in Procs
    PROVE  mode'[q] = mode[q] \/ pc[q] = "idle" \/ pc'[q] \in Through
<1>1. ASSUME ActionStep PROVE mode' = mode
  BY <1>1 DEF ActionStep, VisitClient, CommandTimeout, CommandDone, UpdateList, EndConsistency,
          ConsistTimeoutIntr, ConsistTimeout, procVars
<1>2. ASSUME NEW c \in Clients, ClientStep(c)
      PROVE  mode'[q] = mode[q] \/ pc'[q] \in Through
  <2>1. "dead" \in Through
    BY DEF Through
  <2>2. CASE RpcConsist(c) \/ CleanBlocks(c) \/ FileScavenge(c)
    BY <2>2 DEF RpcConsist, CleanBlocks, FileScavenge, procVars
  <2>3. CASE Crash(c) \/ ClientKill(c)
    BY <2>1, <2>3, FinishKeeps DEF Crash, ClientKill
  <2> QED BY <1>2, <2>2, <2>3 DEF ClientStep
<1>3. ASSUME NEW j \in jobs, ProcessConsist(j) PROVE mode' = mode
  BY <1>3 DEF ProcessConsist, procVars
<1>4. ASSUME NEW r \in replies, ProcessConsistReply(r) PROVE mode' = mode
  BY <1>4 DEF ProcessConsistReply, procVars
<1>5. CASE NumClients \/ UNCHANGED vars
  BY <1>5 DEF NumClients, vars, procVars
<1> QED BY <1>1, <1>2, <1>3, <1>4, <1>5, ModeProc DEF Next

\* The open of the action in progress stays what it is.
LEMMA ByMode ==
    ASSUME ConsistAssumption, TInv, TInv', [Next]_vars, action'.by = action.by, action.phase # "none"
    PROVE  mode'[action.by] = mode[action.by]
<1>1. PICK p \in Procs : p = action.by
  BY ActionFacts
<1>2. pc[p] = "consist" /\ pc'[p] = "consist"
  BY <1>1 DEF TInv, Structure, ActionTied
<1>3. mode'[p] = mode[p]
  BY <1>2, ModeStep DEF Through
<1> QED BY <1>1, <1>3

(* Calm steps leave the client list calm.                                  *)
LEMMA CalmListCalm == ASSUME Calm PROVE CalmList
BY DEF Calm, CalmList

(* The arrival of a command leaves the client list calm.                   *)
LEMMA CalmListRpc ==
    ASSUME ConsistAssumption, TInv, NEW c \in Clients, RpcConsist(c)
    PROVE  CalmList
<1>1. UNCHANGED <<trouble, msgs, action, entry>>
  BY DEF RpcConsist, history
<1> QED BY <1>1, SameEntry DEF CalmList

(* An executed command leaves the client list calm.                        *)
LEMMA CalmListJob ==
    ASSUME ConsistAssumption, TInv, NEW j \in jobs, ProcessConsist(j)
    PROVE  CalmList
<1>1. JobFacts(j) /\ DeleteFacts(j.client)
  BY JobEffect, JobGeneral
<1>2. UNCHANGED <<msgs, action>> /\ trouble \subseteq trouble' /\ j.client \in Clients
  BY <1>1 DEF JobFacts
<1>3. \A d \in Clients : Shrinks(d) /\ Released(d)
  BY <1>1, <1>2, CalmDelete
<1> QED BY <1>2, <1>3 DEF CalmList

(* An element that shrinks gains no use and no writer.                     *)
LEMMA ShrinksUses ==
    ASSUME TInv, TInv', NEW c \in Clients, Shrinks(c)
    PROVE  /\ ~Unused(c)' => ~Unused(c)
           /\ entry'[c].write > 0 => entry[c].write > 0
           /\ entry[c].write = 0 => entry'[c].write = 0
           /\ entry[c].ref = 0 => entry'[c].ref = 0
<1>1. entry[c].ref \in Nat /\ entry[c].write \in Nat /\ entry'[c].ref \in Nat /\ entry'[c].write \in Nat
  BY DEF TInv, Shape, ServerShape, EntryShape, NatEntry
<1> QED BY <1>1 DEF Shrinks, Unused

(* No sharing of cached files arises from steps that leave the list calm.  *)
LEMMA SharingCalm ==
    ASSUME ConsistAssumption, TInv, TInv', [Next]_vars, Sharing, CalmList
    PROVE  Sharing'
<1>1. Separated'
  <2> SUFFICES ASSUME NEW x \in Clients \ trouble', NEW y \in Clients, Conflict(x, y)', entry'[x].cached
               PROVE  "invalidate" \in msgs'[x] /\ action'.phase = "wait" /\ y = Host[action'.by]
    BY DEF Separated
  <2>1. Conflict(x, y)
    BY ShrinksUses DEF CalmList, Conflict
  <2>2. x \notin trouble /\ entry[x].cached /\ msgs'[x] = msgs[x]
    BY DEF CalmList, Shrinks
  <2>3. "invalidate" \in msgs[x] /\ action.phase = "wait" /\ y = Host[action.by]
    BY <2>1, <2>2 DEF Sharing, Separated
  <2> QED BY <2>2, <2>3 DEF CalmList
<1>2. ASSUME action.phase # "none" PROVE mode'[action.by] = mode[action.by] /\ action.by \in Procs
  BY <1>2, ByMode, ActionFacts DEF CalmList
<1>w. Walking' => Walking /\ action.phase # "none"
  BY DEF CalmList, Walking
<1>3. Alone'
  <2> SUFFICES ASSUME Walking', action'.cacheable PROVE Cacheable(action.by)'
    BY DEF Alone
  <2>1. PICK p \in Procs : p = action.by
    BY <1>2, <1>w
  <2>2. action'.by = p /\ mode'[p] = mode[p] /\ Cacheable(p)
    BY <1>2, <1>w, <2>1 DEF CalmList, Sharing, Alone
  <2>3. \A c \in Clients \ {Host[p]} :
           /\ entry'[c].write = 0
           /\ mode'[p] = "write" => entry'[c].ref = 0
    BY <2>2, ShrinksUses DEF CalmList, Cacheable
  <2> QED BY <2>2, <2>3 DEF Cacheable
<1>4. Told'
  <2> SUFFICES ASSUME action'.phase # "none", ~action'.cacheable,
                      NEW y \in Clients, y \notin action'.todo, y # Host[action'.by], y \notin trouble',
                      ~Unused(y)', entry'[y].cached
               PROVE  "invalidate" \in msgs'[y]
    BY DEF Told
  <2>1. /\ action.phase # "none" /\ ~action.cacheable /\ y \notin action.todo /\ y # Host[action.by]
        /\ y \notin trouble /\ ~Unused(y) /\ entry[y].cached /\ msgs'[y] = msgs[y]
    BY ShrinksUses DEF CalmList, Shrinks
  <2> QED BY <2>1 DEF Sharing, Told
<1>5. ToTell'
  <2> SUFFICES ASSUME Walking', ~action'.cacheable, mode'[action'.by] # "write",
                      NEW y \in action'.todo \ trouble', entry'[y].cached, ~Unused(y)'
               PROVE  entry'[y].write > 0
    BY DEF ToTell
  <2>1. y \in Clients /\ y \in action.todo \ trouble
    BY ActionRecord DEF CalmList
  <2>2. entry'[y] = entry[y]
    BY <2>1 DEF CalmList, Released, Unused
  <2>3. Walking /\ ~action.cacheable /\ mode[action.by] # "write"
    BY <1>2, <1>w DEF CalmList
  <2> QED BY <2>1, <2>2, <2>3 DEF Sharing, ToTell, Unused
<1> QED BY <1>1, <1>3, <1>4, <1>5 DEF Sharing

(* No sharing of cached files arises from starting a consistency action.   *)
LEMMA SharingStart ==
    ASSUME ConsistAssumption, TInv, Sharing, NEW p \in Procs, StartConsistency(p)
    PROVE  Sharing'
<1>e. StartFacts(p)
  BY StartEffect
<1>1. /\ UNCHANGED <<msgs, entry, mode, trouble>> /\ action.phase = "none"
      /\ action'.by = p /\ action'.phase = "visit" /\ action'.cacheable = Cacheable(p)
      /\ action'.todo = {c \in Clients \ {Host[p]} : entry[c].listed}
  BY <1>e DEF StartFacts, history
<1>2. \A x \in Clients \ trouble, y \in Clients : Conflict(x, y) => ~entry[x].cached
  BY <1>1 DEF Sharing, Separated
<1>3. Separated'
  BY <1>1, <1>2 DEF Separated, Conflict, Unused
<1>4. Cacheable(p)' <=> Cacheable(p)
  BY <1>1 DEF Cacheable
<1>5. Alone'
  BY <1>1, <1>4 DEF Alone
<1>6. Told'
  <2> SUFFICES ASSUME NEW y \in Clients, y \notin action'.todo, y # Host[p],
                      ~Unused(y)', entry[y].cached
               PROVE  "invalidate" \in msgs[y]
    BY <1>1 DEF Told
  <2> QED BY <1>1, EntryFacts
<1>7. ToTell'
  <2> SUFFICES ASSUME ~Cacheable(p), mode[p] # "write",
                      NEW y \in action'.todo \ trouble, entry[y].cached, ~Unused(y)
               PROVE  entry[y].write > 0
    BY <1>1 DEF ToTell, Unused
  <2>1. PICK c \in Clients \ {Host[p]} : entry[c].write # 0
    BY DEF Cacheable
  <2>2. y \in Clients /\ entry[c].write \in Nat /\ entry[y].write \in Nat
    BY <1>1, EntryFacts
  <2>3. SUFFICES ASSUME entry[y].write = 0 PROVE FALSE
    BY <2>2
  <2>4. Conflict(y, c)
    BY <2>1, <2>2, <2>3 DEF Conflict
  <2> QED BY <1>2, <2>1, <2>2, <2>4
<1> QED BY <1>3, <1>5, <1>6, <1>7 DEF Sharing

(* No sharing of cached files arises from a turn of the walk over the      *)
(* client list.                                                            *)
LEMMA SharingVisit ==
    ASSUME ConsistAssumption, TInv, Sharing, VisitClient
    PROVE  Sharing'
<1>e. VisitFacts
  BY VisitEffect
<1> DEFINE c == action.next
           op == CommandFor(c)
<1>1. /\ UNCHANGED <<entry, trouble, mode>>
      /\ action.phase = "visit" /\ c \in Clients /\ c \in action.todo
      /\ action'.by = action.by /\ action'.todo = {d \in action.todo \ {c} : entry[d].listed}
      /\ action'.cacheable = action.cacheable /\ action.cacheable \in BOOLEAN
      /\ action.todo \subseteq Clients
  BY <1>e, ActionFacts, ActionRecord DEF VisitFacts, VisitClient, procVars
<1>2. /\ op = {} => action'.phase = "visit" /\ msgs' = msgs
      /\ op # {} => /\ msgs'[c] = op /\ \A d \in Clients \ {c} : msgs'[d] = msgs[d]
                    /\ action'.phase = "command"
  BY <1>e, <1>1, MsgsType DEF VisitFacts
<1>3. action'.phase \in {"visit", "command"} /\ Walking
  BY <1>1, <1>2 DEF Walking
<1>4. Separated'
  <2>1. \A x \in Clients \ trouble, y \in Clients : Conflict(x, y) => ~entry[x].cached
    BY <1>1 DEF Sharing, Separated
  <2> QED BY <1>1, <2>1 DEF Separated, Conflict, Unused
<1>5. Alone'
  <2>1. action.cacheable => Cacheable(action.by)
    BY <1>3 DEF Sharing, Alone
  <2> QED BY <1>1, <2>1 DEF Alone, Cacheable
<1>6. Told'
  <2> SUFFICES ASSUME ~action.cacheable, NEW y \in Clients, y \notin action'.todo, y # Host[action.by],
                      y \notin trouble, ~Unused(y), entry[y].cached
               PROVE  "invalidate" \in msgs'[y]
    BY <1>1 DEF Told, Unused
  <2>1. entry[y].ref \in Nat /\ entry[y].write \in Nat
    BY EntryFacts
  <2>2. CASE y = c
    <3>1. "invalidate" \in op
      BY <2>1, <2>2 DEF CommandFor, Unused
    <3> QED BY <1>2, <2>2, <3>1
  <2>3. CASE y # c /\ y \in action.todo
    <3>1. ~entry[y].listed
      BY <1>1, <2>3
    <3> QED BY <3>1, EntryFacts
  <2>4. CASE y # c /\ y \notin action.todo
    <3>1. "invalidate" \in msgs[y]
      BY <1>1, <2>4 DEF Sharing, Told
    <3> QED BY <1>2, <2>4, <3>1
  <2> QED BY <2>2, <2>3, <2>4
<1>7. ToTell'
  <2> SUFFICES ASSUME ~action.cacheable, mode[action.by] # "write",
                      NEW y \in action'.todo \ trouble, entry[y].cached, ~Unused(y)
               PROVE  entry[y].write > 0
    BY <1>1 DEF ToTell, Unused
  <2> QED BY <1>1, <1>3 DEF Sharing, ToTell
<1> QED BY <1>4, <1>5, <1>6, <1>7 DEF Sharing

(* No sharing of cached files arises from the end of a consistency action. *)
LEMMA SharingEnd ==
    ASSUME ConsistAssumption, TInv, Sharing, EndConsistency
    PROVE  Sharing'
<1>e. EndFacts
  BY EndEffect
<1>1. UNCHANGED <<entry, trouble>> /\ (\A c \in Clients : msgs[c] = {}) /\ action'.phase = "none"
  BY <1>e DEF EndFacts, history, NoAction
<1>2. \A x \in Clients \ trouble, y \in Clients : Conflict(x, y) => ~entry[x].cached
  BY <1>1 DEF Sharing, Separated
<1>3. Separated'
  BY <1>1, <1>2 DEF Separated, Conflict, Unused
<1> QED BY <1>1, <1>3 DEF Sharing, Alone, Told, ToTell, Walking

(* No sharing of cached files arises from receiving a reply                *)
(* (ProcessConsistReply).                                                  *)
LEMMA SharingReply ==
    ASSUME ConsistAssumption, TInv, TInv', [Next]_vars, Pipe, Sharing,
           NEW r \in replies, ProcessConsistReply(r)
    PROVE  Sharing'
<1>e. ReplyFacts(r)
  BY ReplyEffect
<1> DEFINE c == r.client
<1>1. /\ UNCHANGED <<trouble, mode>> /\ c \in Clients
      /\ action'.by = action.by /\ action'.phase = action.phase /\ action'.todo = action.todo
      /\ action'.cacheable = action.cacheable
      /\ msgs'[c] = {} /\ \A d \in Clients \ {c} : msgs'[d] = msgs[d]
  BY <1>e, ActionRecord DEF ReplyFacts, SettledReply, procVars, history
<1>2. c \notin trouble => msgs[c] # {} /\ SettledReply(c)
  BY <1>e DEF Pipe, Replied, ReplyFacts
<1>3. \A d \in Clients \ {c} : entry'[d] = entry[d]
  BY <1>e DEF ReplyFacts, SettledReply
<1>4. Shrinks(c)
  <2>1. CASE entry' = entry
    BY <1>1, <2>1, SameEntry
  <2>2. CASE SettledReply(c)
    <3>1. entry[c].ref \in Nat /\ entry[c].write \in Nat
      BY <1>1, EntryFacts
    <3>2. CASE entry'[c] = NoEntry
      BY <1>1, <3>2, ShrinksNone
    <3>3. CASE entry'[c].ref = entry[c].ref /\ entry'[c].write = entry[c].write
               /\ (entry'[c].cached <=> (entry[c].cached /\ "invalidate" \notin msgs[c]))
      BY <3>1, <3>3 DEF Shrinks
    <3> QED BY <2>2, <3>2, <3>3 DEF SettledReply
  <2> QED BY <1>e, <2>1, <2>2 DEF ReplyFacts
<1>5. \A d \in Clients : Shrinks(d)
  BY <1>1, <1>3, <1>4, SameEntry
<1>6. c \notin trouble /\ entry'[c].cached => "invalidate" \notin msgs[c]
  BY <1>2 DEF SettledReply, NoEntry
<1>h. c \in Clients
  BY <1>1
<1> HIDE DEF c
<1>7. Separated'
  <2> SUFFICES ASSUME NEW x \in Clients \ trouble, NEW y \in Clients, Conflict(x, y)', entry'[x].cached
               PROVE  "invalidate" \in msgs'[x] /\ action.phase = "wait" /\ y = Host[action.by]
    BY <1>1 DEF Separated
  <2>1. Conflict(x, y)
    BY <1>5, ShrinksUses DEF Conflict
  <2>2. entry[x].cached
    BY <1>5 DEF Shrinks
  <2>3. "invalidate" \in msgs[x] /\ action.phase = "wait" /\ y = Host[action.by]
    BY <2>1, <2>2 DEF Sharing, Separated
  <2>4. x # c
    BY <1>6, <2>3
  <2> QED BY <1>1, <2>3, <2>4
<1>8. Alone'
  <2> SUFFICES ASSUME Walking, action.cacheable PROVE Cacheable(action.by)'
    BY <1>1 DEF Alone, Walking
  <2>1. PICK p \in Procs : p = action.by
    BY ActionFacts DEF Walking
  <2>2. action'.by = p /\ mode'[p] = mode[p] /\ Cacheable(p)
    BY <1>1, <2>1 DEF Sharing, Alone
  <2>3. \A d \in Clients \ {Host[p]} :
           /\ entry'[d].write = 0
           /\ mode'[p] = "write" => entry'[d].ref = 0
    BY <1>5, <2>2, ShrinksUses DEF Cacheable
  <2> QED BY <2>2, <2>3 DEF Cacheable
<1>9. Told'
  <2> SUFFICES ASSUME action.phase # "none", ~action.cacheable,
                      NEW y \in Clients, y \notin action.todo, y # Host[action.by], y \notin trouble,
                      ~Unused(y)', entry'[y].cached
               PROVE  "invalidate" \in msgs'[y]
    BY <1>1 DEF Told
  <2>1. ~Unused(y) /\ entry[y].cached
    BY <1>5, ShrinksUses DEF Shrinks
  <2>2. "invalidate" \in msgs[y]
    BY <2>1 DEF Sharing, Told
  <2>3. y # c
    BY <1>6, <2>2
  <2> QED BY <1>1, <2>2, <2>3
<1>10. ToTell'
  <2> SUFFICES ASSUME Walking, ~action.cacheable, mode[action.by] # "write",
                      NEW y \in action.todo \ trouble, entry'[y].cached, ~Unused(y)'
               PROVE  entry'[y].write > 0
    BY <1>1 DEF ToTell, Walking
  <2>1. y \in Clients /\ msgs[y] = {}
    BY ActionRecord DEF Pipe, Unasked
  <2>2. y # c
    BY <1>2, <2>1
  <2>3. entry'[y] = entry[y]
    BY <1>3, <2>1, <2>2
  <2> QED BY <2>1, <2>3 DEF Sharing, ToTell, Unused
<1> QED BY <1>7, <1>8, <1>9, <1>10 DEF Sharing

\* The opener's own workstation has no other use of the file.
LEMMA OpenerUnused ==
    ASSUME ConsistAssumption, OneEach, TInv, CInv, Walking, Host[action.by] \notin trouble
    PROVE  Unused(Host[action.by])
<1>1. PICK p \in Procs : p = action.by /\ pc[p] = "consist"
  BY ActionFacts DEF Walking
<1>2. ~Holds(p)
  BY <1>1 DEF Holds, Waits, Walking
<1>3. Holders(Host[p]) = {}
  BY <1>2 DEF OneEach, Holders
<1> QED BY <1>1, <1>3, NoHolder, HostType

(* No sharing of cached files arises from listing the opener (UpdateList). *)
LEMMA SharingUpdate ==
    ASSUME ConsistAssumption, OneEach, TInv, CInv, Sharing, UpdateList
    PROVE  Sharing'
<1>e. UpdateFacts
  BY UpdateEffect
<1>0. PICK p \in Procs : p = action.by
  BY <1>e DEF UpdateFacts
<1> DEFINE o == Host[p]
<1>1. /\ UNCHANGED <<trouble, msgs, mode>> /\ o \in Clients
      /\ \A d \in Clients \ {o} : entry'[d] = entry[d]
      /\ entry'[o].ref = entry[o].ref + 1
      /\ entry'[o].write = entry[o].write + One(mode[p] = "write")
      /\ entry'[o].cached = action.cacheable
      /\ action.phase = "visit" /\ action.todo = {} /\ action.by = p
      /\ action'.by = p /\ action'.cacheable = action.cacheable /\ action'.phase = "wait"
      /\ action'.todo = {}
  BY <1>0, <1>e, ActionRecord DEF UpdateFacts, UpdateList, history
<1>2. Walking /\ action.cacheable \in BOOLEAN
  BY <1>1, ActionRecord DEF Walking
<1>3. o \notin trouble => entry[o].write = 0 /\ entry[o].ref = 0
  BY <1>1, <1>2, OpenerUnused DEF Unused
<1>4. action.cacheable => Cacheable(p)
  BY <1>1, <1>2 DEF Sharing, Alone
<1>5. \A x \in Clients \ trouble, y \in Clients : Conflict(x, y) => ~entry[x].cached
  BY <1>1 DEF Sharing, Separated
<1>6. mode[p] # "write" => entry'[o].write = entry[o].write
  <2>1. entry[o].write \in Nat
    BY <1>1, EntryFacts
  <2> QED BY <1>1, <2>1 DEF One
<1> HIDE DEF o
<1>h. o = Host[p]
  BY DEF o
<1>7. Separated'
  <2> SUFFICES ASSUME NEW x \in Clients \ trouble, NEW y \in Clients, Conflict(x, y)', entry'[x].cached
               PROVE  "invalidate" \in msgs[x] /\ y = o
    BY <1>1, <1>h DEF Separated
  <2>0. x # y /\ ((entry'[x].write > 0 /\ ~Unused(y)') \/ (~Unused(x)' /\ entry'[y].write > 0))
    BY DEF Conflict
  <2>1. CASE x # o /\ y # o
    <3>1. entry'[x] = entry[x] /\ entry'[y] = entry[y]
      BY <1>1, <2>1
    <3>2. Conflict(x, y)
      BY <2>0, <3>1 DEF Conflict, Unused
    <3> QED BY <1>5, <3>1, <3>2
  <2>2. CASE x = o
    <3>1. entry'[y] = entry[y] /\ action.cacheable
      BY <1>1, <2>0, <2>2
    <3>2. entry[y].write = 0 /\ (mode[p] = "write" => entry[y].ref = 0)
      BY <1>4, <1>h, <2>0, <2>2, <3>1 DEF Cacheable
    <3>3. entry'[o].write > 0 /\ entry[y].ref # 0
      BY <2>0, <2>2, <3>1, <3>2 DEF Unused
    <3>4. mode[p] # "write" /\ entry[o].write = 0
      BY <1>3, <2>2, <3>2, <3>3
    <3> QED BY <1>6, <3>3, <3>4
  <2>3. CASE x # o /\ y = o
    <3>1. entry'[x] = entry[x] /\ entry[x].cached
      BY <1>1, <2>3
    <3>2. ~Unused(x) /\ entry[x].ref \in Nat /\ entry[x].write \in Nat
      <4>1. entry[x].ref \in Nat /\ entry[x].write \in Nat
        BY EntryFacts
      <4>2. entry'[x].write > 0 \/ ~Unused(x)'
        BY <2>0
      <4>3. Unused(x) => entry'[x].write = 0 /\ entry'[x].ref = 0
        BY <3>1 DEF Unused
      <4> QED BY <4>1, <4>2, <4>3 DEF Unused
    <3>3. CASE ~action.cacheable
      BY <1>1, <1>h, <2>3, <3>1, <3>2, <3>3 DEF Sharing, Told
    <3>4. CASE action.cacheable
      <4>1. entry[x].write = 0 /\ (mode[p] = "write" => entry[x].ref = 0)
        BY <1>4, <1>h, <2>3, <3>4 DEF Cacheable
      <4>2. mode[p] # "write" /\ entry'[o].write > 0
        <5>1. ~(entry'[x].write > 0)
          BY <3>1, <4>1
        <5>2. entry'[o].write > 0
          BY <2>0, <2>3, <5>1
        <5>3. entry[x].ref # 0
          BY <3>2, <4>1 DEF Unused
        <5> QED BY <4>1, <5>2, <5>3
      <4>3. entry[o].write > 0
        BY <1>6, <4>2
      <4>4. Conflict(x, o)
        BY <2>3, <3>2, <4>3 DEF Conflict
      <4> QED BY <1>1, <1>5, <3>1, <4>4
    <3> QED BY <3>3, <3>4
  <2> QED BY <2>1, <2>2, <2>3
<1>8. Alone' /\ ToTell'
  BY <1>1 DEF Alone, ToTell, Walking
<1>9. Told'
  <2> SUFFICES ASSUME ~action.cacheable, NEW y \in Clients, y # o, y \notin trouble,
                      ~Unused(y)', entry'[y].cached
               PROVE  "invalidate" \in msgs[y]
    BY <1>1, <1>h DEF Told
  <2>1. ~Unused(y) /\ entry[y].cached
    BY <1>1 DEF Unused
  <2> QED BY <1>1, <1>h, <2>1 DEF Sharing, Told
<1> QED BY <1>7, <1>8, <1>9 DEF Sharing

(* No sharing of cached files arises from any step.                        *)
LEMMA SharingStep ==
    ASSUME ConsistAssumption, OneEach, TInv, TInv', CInv, Pipe, Sharing, [Next]_vars
    PROVE  Sharing'
<1>1. CASE Calm
  BY <1>1, CalmListCalm, SharingCalm
<1>2. ASSUME NEW p \in Procs, StartConsistency(p) PROVE Sharing'
  BY <1>2, SharingStart
<1>3. ASSUME NEW c \in Clients, RpcConsist(c) PROVE Sharing'
  BY <1>3, CalmListRpc, SharingCalm
<1>4. ASSUME NEW j \in jobs, ProcessConsist(j) PROVE Sharing'
  BY <1>4, CalmListJob, SharingCalm
<1>5. ASSUME NEW r \in replies, ProcessConsistReply(r) PROVE Sharing'
  BY <1>5, SharingReply
<1> QED BY <1>1, <1>2, <1>3, <1>4, <1>5, CalmStep, SharingVisit, SharingUpdate, SharingEnd

(* The order of commands and answers survives every step.                  *)
LEMMA PipeStep ==
    ASSUME ConsistAssumption, OneEach, TInv, TInv', MsgsTied, CInv, CInv', Pipe, Sharing, [Next]_vars
    PROVE  Pipe'
<1>1. CASE UpdateList
  BY <1>1, PipeUpdate
<1>2. CASE Calm /\ ~UpdateList
  <2>1. \A c \in Clients : Holders(c)' \subseteq Holders(c)
    BY <1>2, HoldsStep DEF Holders
  <2>2. HoldersShrink
    BY <2>1 DEF HoldersShrink
  <2> QED BY <1>2, <2>2, PipeCalm
<1>3. ASSUME NEW p \in Procs, StartConsistency(p) PROVE Pipe'
  BY <1>3, PipeStart
<1>4. ASSUME NEW c \in Clients, RpcConsist(c) PROVE Pipe'
  BY <1>4, PipeRpc
<1>5. ASSUME NEW j \in jobs, ProcessConsist(j) PROVE Pipe'
  BY <1>5, PipeJob
<1>6. ASSUME NEW r \in replies, ProcessConsistReply(r) PROVE Pipe'
  BY <1>6, PipeReply
<1>7. ASSUME VisitClient PROVE Pipe'
  BY <1>7, PipeVisit DEF Sharing
<1> QED BY <1>1, <1>2, <1>3, <1>4, <1>5, <1>6, <1>7, CalmStep, PipeEnd

(* A step of a process lets no writer into or out of the monitor, but for  *)
(* NameOpen.                                                               *)
LEMMA AheadProc ==
    ASSUME ConsistAssumption, TInv, NEW p \in Procs, ProcStep(p), ~NameOpen(p), NEW q \in Procs
    PROVE  WritesAhead(q)' <=> WritesAhead(q)
<1>0. /\ pc \in [Procs -> States] /\ mode \in [Procs -> Modes \cup {"none"}]
      /\ IdleOrDead(p) \in {"idle", "dead"}
  BY DEF TInv, Shape, ProcShape, IdleOrDead
<1>1. CASE \E m \in Modes : OpenSend(p, m)
  BY <1>0, <1>1 DEF OpenSend, WritesAhead, Ahead
<1>2. CASE StartConsistency(p) \/ OpenDone(p) \/ IoOpen(p) \/ CloseSend(p)
  BY <1>0, <1>2 DEF StartConsistency, OpenDone, IoOpen, CloseSend, IsOpen, WritesAhead, Ahead
<1>3. CASE ReadFill(p) \/ Write(p)
  BY <1>3 DEF ReadFill, Write, procVars, WritesAhead, Ahead
<1>4. CASE AbortOpen(p) \/ Close(p)
  BY <1>0, <1>4 DEF AbortOpen, Close, Finish, WritesAhead, Ahead
<1>5. CASE OpenReply(p)
  BY <1>0, <1>5 DEF OpenReply, Finish, WritesAhead, Ahead
<1> QED BY <1>1, <1>2, <1>3, <1>4, <1>5 DEF ProcStep

(* Writers get ahead of the monitor by NameOpen and through it by          *)
(* EndConsistency.                                                         *)
LEMMA AheadStep ==
    ASSUME ConsistAssumption, TInv, [Next]_vars, \A p \in Procs : ~NameOpen(p), ~EndConsistency,
           NEW q \in Procs
    PROVE  WritesAhead(q)' <=> WritesAhead(q)
<1>1. ASSUME ActionStep PROVE UNCHANGED <<pc, mode>>
  BY <1>1 DEF ActionStep, VisitClient, CommandTimeout, CommandDone, UpdateList,
          ConsistTimeoutIntr, ConsistTimeout, procVars
<1>2. ASSUME NEW c \in Clients, ClientStep(c)
      PROVE  WritesAhead(q)' <=> WritesAhead(q)
  <2>2. CASE RpcConsist(c) \/ CleanBlocks(c) \/ FileScavenge(c)
    BY <2>2 DEF RpcConsist, CleanBlocks, FileScavenge, procVars, WritesAhead, Ahead
  <2>3. CASE Crash(c) \/ ClientKill(c)
    BY <2>3 DEF Crash, ClientKill, Finish, WritesAhead, Ahead
  <2> QED BY <1>2, <2>2, <2>3 DEF ClientStep
<1>3. ASSUME NEW j \in jobs, ProcessConsist(j) PROVE UNCHANGED <<pc, mode>>
  BY <1>3 DEF ProcessConsist, procVars
<1>4. ASSUME NEW r \in replies, ProcessConsistReply(r) PROVE UNCHANGED <<pc, mode>>
  BY <1>4 DEF ProcessConsistReply, procVars
<1>5. CASE NumClients \/ UNCHANGED vars
  BY <1>5 DEF NumClients, vars, procVars, WritesAhead, Ahead
<1>6. ASSUME UNCHANGED <<pc, mode>> PROVE WritesAhead(q)' <=> WritesAhead(q)
  BY <1>6 DEF WritesAhead, Ahead
<1> QED BY SMTT(60), <1>1, <1>2, <1>3, <1>4, <1>5, <1>6, AheadProc DEF Next

\* Only the opening of a file for writing changes its version.
LEMMA VersionStep ==
    ASSUME [Next]_vars, \A p \in Procs : ~NameOpen(p)
    PROVE  version' = version
<1>1. ASSUME NEW p \in Procs, ProcStep(p) PROVE version' = version
  BY <1>1 DEF ProcStep, OpenSend, StartConsistency, AbortOpen, OpenReply, OpenDone, IoOpen, ReadFill,
          Write, CloseSend, Close, serverVars
<1>2. ASSUME ActionStep PROVE version' = version
  BY <1>2 DEF ActionStep, VisitClient, CommandTimeout, CommandDone, UpdateList, EndConsistency,
          ConsistTimeoutIntr, ConsistTimeout
<1>3. ASSUME NEW c \in Clients, ClientStep(c) PROVE version' = version
  BY <1>3 DEF ClientStep, RpcConsist, CleanBlocks, FileScavenge, Crash, ClientKill, serverVars
<1>4. ASSUME NEW j \in jobs, ProcessConsist(j) PROVE version' = version
  BY <1>4 DEF ProcessConsist
<1>5. ASSUME NEW r \in replies, ProcessConsistReply(r) PROVE version' = version
  BY <1>5 DEF ProcessConsistReply
<1>6. CASE NumClients \/ UNCHANGED vars
  BY <1>6 DEF NumClients, vars, serverVars
<1> QED BY SMTT(60), <1>1, <1>2, <1>3, <1>4, <1>5, <1>6 DEF Next

(* The writers ahead of the monitor are finitely many.                     *)
LEMMA WAheadType ==
    ASSUME ConsistAssumption
    PROVE  IsFiniteSet(WAhead) /\ Cardinality(WAhead) \in Nat /\ (Cardinality(WAhead) = 0 <=> WAhead = {})
<1>1. WAhead \subseteq Procs
  BY DEF WAhead
<1>2. IsFiniteSet(WAhead)
  BY <1>1, FS_Subset DEF ConsistAssumption
<1> QED BY <1>2, FS_CardinalityType, FS_EmptySet

(* The settled version changes only when a writer gets through the         *)
(* monitor.                                                                *)
LEMMA SettledSame ==
    ASSUME ConsistAssumption, TInv, [Next]_vars, ~EndConsistency
    PROVE  Settled' = Settled
<1>1. CASE \A p \in Procs : ~NameOpen(p)
  <2>1. WAhead' = WAhead
    BY <1>1, AheadStep DEF WAhead, WritesAhead
  <2> QED BY <1>1, <2>1, VersionStep DEF Settled
<1>2. ASSUME NEW p \in Procs, NameOpen(p) PROVE Settled' = Settled
  <2>0. /\ pc[p] = "sent" /\ pc' = [pc EXCEPT ![p] = "named"] /\ mode' = mode /\ pc \in [Procs -> States]
        /\ version' = version + One(mode[p] = "write") /\ version \in Nat
    BY <1>2 DEF NameOpen, TInv, Shape, ProcShape, ServerShape
  <2>1. CASE mode[p] = "write"
    <3>1. WAhead' = WAhead \cup {p} /\ p \notin WAhead
      BY <2>0, <2>1 DEF WAhead, Ahead
    <3>2. Cardinality(WAhead') = Cardinality(WAhead) + 1
      BY <3>1, WAheadType, FS_AddElement
    <3> QED BY <2>0, <2>1, <3>2, WAheadType DEF Settled, One
  <2>2. CASE mode[p] # "write"
    <3>1. WAhead' = WAhead
      BY <2>0, <2>2 DEF WAhead, Ahead
    <3> QED BY <2>0, <2>2, <3>1 DEF Settled, One
  <2> QED BY <2>1, <2>2
<1> QED BY <1>1, <1>2

(* It never goes back.                                                     *)
LEMMA SettledEnd ==
    ASSUME ConsistAssumption, TInv, EndConsistency
    PROVE  Settled' >= Settled
<1>e. EndFacts
  BY EndEffect
<1>0. PICK p \in Procs : p = action.by
  BY <1>e DEF EndFacts
<1>1. /\ version' = version /\ mode' = mode /\ pc[p] = "consist" /\ version \in Nat
      /\ pc'[p] \in {"aborting", "granted"} /\ \A q \in Procs \ {p} : pc'[q] = pc[q]
  BY <1>0, <1>e DEF EndFacts, TInv, Shape, ServerShape
<1>2. WAhead' = WAhead \ {p}
  BY <1>1 DEF WAhead, Ahead
<1>3. Cardinality(WAhead') = (IF p \in WAhead THEN Cardinality(WAhead) - 1 ELSE Cardinality(WAhead))
  BY <1>2, WAheadType, FS_RemoveElement
<1> QED BY <1>1, <1>3, WAheadType DEF Settled

(* The settled version is an integer.                                      *)
LEMMA SettledType ==
    ASSUME ConsistAssumption, TInv
    PROVE  Settled \in Int
BY WAheadType DEF Settled, TInv, Shape, ServerShape

(* The settled version never goes back.                                    *)
LEMMA SettledStep ==
    ASSUME ConsistAssumption, TInv, [Next]_vars
    PROVE  Settled' >= Settled /\ Settled' \in Int /\ Settled \in Int
<1>1. Settled' >= Settled
  <2>1. CASE EndConsistency
    BY <2>1, SettledEnd
  <2>2. CASE ~EndConsistency
    BY <2>2, SettledSame, SettledType
  <2> QED BY <2>1, <2>2
<1>2. Settled' \in Int
  <2>1. CASE EndConsistency
    <3>1. version' \in Nat
      BY <2>1 DEF EndConsistency, TInv, Shape, ServerShape
    <3>2. IsFiniteSet(WAhead')
      <4>1. WAhead' \subseteq Procs
        BY DEF WAhead
      <4> QED BY <4>1, FS_Subset DEF ConsistAssumption
    <3>3. Cardinality(WAhead') \in Nat
      BY <3>2, FS_CardinalityType
    <3> QED BY <3>1, <3>3 DEF Settled
  <2>2. CASE ~EndConsistency
    BY <2>2, SettledSame, SettledType
  <2> QED BY <2>1, <2>2
<1> QED BY <1>1, <1>2, SettledType

(* Steps that bring no later version keep every workstation behind.        *)
LEMMA BehindOlder ==
    ASSUME ConsistAssumption, TInv, [Next]_vars, Behind, Older
    PROVE  Behind'
<1>1. ASSUME NEW c \in Clients \ misled'
      PROVE  handle'[c].version <= Settled' /\ \A p \in Procs : Host[p] = c => grant'[p].version <= Settled'
  <2>1. c \in Clients \ misled
    BY DEF Older
  <2>2. handle[c].version <= Settled /\ handle[c].version \in Nat
    BY <2>1, HandleType DEF Behind, HandleShape
  <2>3. \A p \in Procs : Host[p] = c => grant[p].version <= Settled /\ grant[p].version \in Nat
    BY <2>1 DEF Behind, TInv, Shape, ProcShape
  <2>4. Settled' >= Settled /\ Settled' \in Int /\ Settled \in Int
    BY SettledStep
  <2>5. handle'[c].version <= Settled'
    BY <2>2, <2>4 DEF Older
  <2> SUFFICES ASSUME NEW p \in Procs, Host[p] = c PROVE grant'[p].version <= Settled'
    BY <2>5
  <2> QED BY <2>2, <2>3, <2>4 DEF Older
<1> QED BY <1>1 DEF Behind

(* A step that leaves handles and replies alone brings no later version.   *)
LEMMA OlderSame ==
    ASSUME misled \subseteq misled', UNCHANGED <<handle, grant>>
    PROVE  Older
BY DEF Older

(* A process that is through brings no later version.                      *)
LEMMA OlderFinish ==
    ASSUME NEW ps, NEW where, Finish(ps, where)
    PROVE  \A p \in Procs : grant'[p].version \in {grant[p].version, 0}
BY DEF Finish, NoGrant

(* Steps of a process but for reply and install bring no later version.    *)
LEMMA OlderProc ==
    ASSUME ConsistAssumption, TInv, NEW p \in Procs, ProcStep(p), ~OpenReply(p), ~IoOpen(p)
    PROVE  Older
<1>1. CASE (\E m \in Modes : OpenSend(p, m)) \/ OpenDone(p)
  BY <1>1, OlderSame DEF OpenSend, OpenDone, clientVars, history
<1>2. CASE NameOpen(p) \/ StartConsistency(p)
  BY <1>2, OlderSame DEF NameOpen, StartConsistency, clientVars, history
<1>3. CASE AbortOpen(p) \/ Close(p)
  <2>1. UNCHANGED <<handle, misled>>
    BY <1>3 DEF AbortOpen, Kill, Close, clientVars, history
  <2>2. \A q \in Procs : grant'[q].version \in {grant[q].version, 0}
    BY <1>3, OlderFinish DEF AbortOpen, Close
  <2> QED BY <2>1, <2>2 DEF Older
<1>4. CASE ReadFill(p)
  BY <1>4, FillEffect DEF FillFacts, Older, procVars
<1>5. CASE Write(p)
  BY <1>5, WriteEffect DEF WriteFacts, Older, procVars
<1>6. CASE CloseSend(p)
  <2>1. grant \in [Procs -> [cacheable : BOOLEAN, stamp : Nat, version : Nat]]
    BY DEF TInv, Shape, ProcShape
  <2>2. PICK b : grant' = [grant EXCEPT ![p].cacheable = b]
    BY <1>6 DEF CloseSend
  <2>3. \A q \in Procs : grant'[q].version = grant[q].version
    BY <2>1, <2>2
  <2> QED BY <1>6, <2>3 DEF CloseSend, Older, clientVars, history
<1> QED BY <1>1, <1>2, <1>3, <1>4, <1>5, <1>6 DEF ProcStep

(* Steps of a consistency action bring no later version to a workstation.  *)
LEMMA OlderAction ==
    ASSUME ConsistAssumption, TInv, ActionStep
    PROVE  Older
<1>1. CASE UpdateList
  <2>1. UpdateFacts
    BY <1>1, UpdateEffect
  <2>2. \A q \in Procs : grant'[q].version \in {grant[q].version, 0}
    BY <2>1 DEF UpdateFacts
  <2> QED BY <1>1, <2>2 DEF UpdateList, Older, clientVars, history
<1>2. CASE VisitClient \/ CommandTimeout \/ EndConsistency \/ ConsistTimeoutIntr \/ ConsistTimeout
  BY <1>2, OlderSame DEF VisitClient, CommandTimeout, EndConsistency, ConsistTimeoutIntr, ConsistTimeout,
     procVars, clientVars, history
<1>3. CASE CommandDone
  BY <1>3, OlderSame DEF CommandDone, Kill, procVars, clientVars
<1> QED BY <1>1, <1>2, <1>3 DEF ActionStep

(* Steps of a workstation bring no later version.                          *)
LEMMA OlderClient ==
    ASSUME ConsistAssumption, TInv, NEW c \in Clients, ClientStep(c)
    PROVE  Older
<1>0. NoHandle.version = 0
  BY DEF NoHandle
<1>1. CASE RpcConsist(c)
  BY <1>1, OlderSame DEF RpcConsist, procVars, history
<1>2. CASE CleanBlocks(c)
  BY <1>2, CleanEffect DEF CleanFacts, Older, procVars
<1>3. CASE FileScavenge(c)
  BY <1>0, <1>3, ScavengeEffect DEF ScavengeFacts, Older, procVars, history
<1>4. CASE Crash(c)
  <2>1. CrashFacts(c)
    BY <1>4, CrashEffect
  <2>2. \A q \in Procs : grant'[q].version \in {grant[q].version, 0}
    BY <2>1, OlderFinish DEF CrashFacts
  <2> QED BY <1>0, <2>1, <2>2 DEF CrashFacts, Older
<1>5. CASE ClientKill(c)
  <2>2. \A q \in Procs : grant'[q].version \in {grant[q].version, 0}
    BY <1>5, OlderFinish DEF ClientKill
  <2> QED BY <1>5, <2>2 DEF ClientKill, Older, clientVars, history
<1> QED BY <1>1, <1>2, <1>3, <1>4, <1>5 DEF ClientStep

(* No workstation gets ahead of the settled version by receiving a reply   *)
(* (ProcessConsistReply).                                                  *)
LEMMA BehindReply ==
    ASSUME ConsistAssumption, TInv, [Next]_vars, Behind, NEW p \in Procs, OpenReply(p)
    PROVE  Behind'
<1>1. CASE ~up[Host[p]]
  <2>1. Finish({p}, "dead") /\ UNCHANGED handle /\ misled \subseteq misled'
    BY <1>1 DEF OpenReply, clientVars
  <2> QED BY <2>1, OlderFinish, BehindOlder DEF Older
<1>2. CASE up[Host[p]]
  <2>1. /\ grant' = [grant EXCEPT ![p].version = version] /\ UNCHANGED <<version, handle, mode>>
        /\ misled' = IF \E q \in Procs : mode[q] = "write" /\ Ahead(q)
                     THEN misled \cup {Host[p]} ELSE misled
    BY <1>2 DEF OpenReply, serverVars, clientVars
  <2>2. Host[p] \notin misled' => WAhead = {}
    BY <2>1 DEF WAhead
  <2>3. Host[p] \notin misled' => version <= Settled'
    <3>1. version \in Nat
      BY DEF TInv, Shape, ServerShape
    <3>2. WAhead = {} => Settled = version
      BY <3>1, WAheadType DEF Settled
    <3> QED BY <2>2, <3>1, <3>2, SettledStep
  <2>4. \A q \in Procs \ {p} : grant'[q] = grant[q]
    BY <2>1 DEF TInv, Shape, ProcShape
  <2>5. grant'[p].version = version
    BY <2>1 DEF TInv, Shape, ProcShape
  <2>6. ASSUME NEW c \in Clients \ misled'
        PROVE  handle'[c].version <= Settled' /\ \A q \in Procs : Host[q] = c => grant'[q].version <= Settled'
    <3>1. c \in Clients \ misled
      BY <2>1
    <3>2. handle[c].version <= Settled /\ handle[c].version \in Nat
      BY <3>1, HandleType DEF Behind, HandleShape
    <3>3. \A q \in Procs : Host[q] = c => grant[q].version <= Settled /\ grant[q].version \in Nat
      BY <3>1 DEF Behind, TInv, Shape, ProcShape
    <3>4. Settled' >= Settled /\ Settled' \in Int /\ Settled \in Int
      BY SettledStep
    <3>5. handle'[c].version <= Settled'
      BY <2>1, <3>2, <3>4
    <3>6. ASSUME NEW q \in Procs, Host[q] = c PROVE grant'[q].version <= Settled'
      <4>1. CASE q = p
        BY <2>3, <2>5, <3>6, <4>1
      <4>2. CASE q # p
        BY <2>4, <3>3, <3>4, <3>6, <4>2
      <4> QED BY <4>1, <4>2
    <3> QED BY <3>5, <3>6
  <2> QED BY <2>6 DEF Behind
<1> QED BY <1>1, <1>2

(* No workstation gets ahead of the settled version by installing an open  *)
(* on its workstation (Fscache_UpdateFile).                                *)
LEMMA BehindInstall ==
    ASSUME ConsistAssumption, TInv, [Next]_vars, Behind, NEW p \in Procs, IoOpen(p)
    PROVE  Behind'
<1>e. InstallFacts(p)
  BY InstallEffect
<1>1. /\ handle'[Host[p]].version \in {grant[p].version, handle[Host[p]].version}
      /\ \A d \in Clients \ {Host[p]} : handle'[d] = handle[d]
      /\ grant'[p].version = 0 /\ \A q \in Procs \ {p} : grant'[q] = grant[q]
      /\ misled' = misled
  <2>1. grant' = [grant EXCEPT ![p] = NoGrant] /\ misled' = misled
    BY DEF IoOpen
  <2> QED BY <1>e, <2>1 DEF InstallFacts, NoGrant, TInv, Shape, ProcShape
<1>6. ASSUME NEW c \in Clients \ misled'
      PROVE  handle'[c].version <= Settled' /\ \A q \in Procs : Host[q] = c => grant'[q].version <= Settled'
  <2>1. handle[c].version <= Settled /\ handle[c].version \in Nat
    BY <1>1, HandleType DEF Behind, HandleShape
  <2>2. \A q \in Procs : Host[q] = c => grant[q].version <= Settled /\ grant[q].version \in Nat
    BY <1>1 DEF Behind, TInv, Shape, ProcShape
  <2>3. Settled' >= Settled /\ Settled' \in Int /\ Settled \in Int
    BY SettledStep
  <2>4. handle'[c].version <= Settled'
    <3>1. CASE c = Host[p]
      <4>1. grant[p].version <= Settled /\ grant[p].version \in Nat
        BY <2>2, <3>1
      <4> QED BY <1>1, <2>1, <2>3, <3>1, <4>1
    <3>2. CASE c # Host[p]
      BY <1>1, <2>1, <2>3, <3>2
    <3> QED BY <3>1, <3>2
  <2>5. ASSUME NEW q \in Procs, Host[q] = c PROVE grant'[q].version <= Settled'
    <3>1. CASE q = p
      BY <1>1, <2>1, <2>3, <3>1
    <3>2. CASE q # p
      BY <1>1, <2>2, <2>3, <2>5, <3>2
    <3> QED BY <3>1, <3>2
  <2> QED BY <2>4, <2>5
<1> QED BY <1>6 DEF Behind

(* No workstation that is not misled gets ahead of the settled version.    *)
LEMMA BehindStep ==
    ASSUME ConsistAssumption, TInv, [Next]_vars, Behind
    PROVE  Behind'
<1>1. ASSUME NEW p \in Procs, ProcStep(p) PROVE Behind'
  BY <1>1, OlderProc, BehindOlder, BehindReply, BehindInstall
<1>2. ASSUME ActionStep PROVE Behind'
  BY <1>2, OlderAction, BehindOlder
<1>3. ASSUME NEW c \in Clients, ClientStep(c) PROVE Behind'
  BY <1>3, OlderClient, BehindOlder
<1>4. ASSUME NEW j \in jobs, ProcessConsist(j) PROVE Behind'
  <2>1. JobFacts(j)
    BY <1>4, JobEffect
  <2>2. /\ \A d \in Clients : handle'[d].version = handle[d].version
        /\ UNCHANGED <<misled, grant>>
    BY <2>1, JobGeneral DEF JobFacts, procVars
  <2>3. Older
    BY <2>2 DEF Older
  <2> QED BY <2>3, BehindOlder
<1>5. ASSUME NEW r \in replies, ProcessConsistReply(r) PROVE Behind'
  BY <1>5, OlderSame, BehindOlder DEF ProcessConsistReply, procVars, history
<1>6. CASE NumClients \/ UNCHANGED vars
  BY <1>6, OlderSame, BehindOlder DEF NumClients, vars, procVars, clientVars, history
<1> QED BY <1>1, <1>2, <1>3, <1>4, <1>5, <1>6 DEF Next

(* A command that stays under way still asks for a version to come.        *)
LEMMA AskingKept ==
    ASSUME ConsistAssumption, TInv, TInv', [Next]_vars, Asking, ~EndConsistency,
           trouble \subseteq trouble', action'.by = action.by,
           action'.phase = "command" => /\ action.phase = "command" /\ cmd'.client = cmd.client
                                        /\ cmd'.op = cmd.op /\ cmd'.version = cmd.version
    PROVE  Asking'
<1> SUFFICES ASSUME action'.phase = "command", cmd'.client \notin trouble', cmd'.op = {"invalidate"}
             PROVE  mode'[action'.by] = "write" /\ cmd'.version > Settled'
  BY DEF Asking
<1>1. mode[action.by] = "write" /\ cmd.version > Settled
  BY DEF Asking
<1>2. Settled' = Settled
  BY SettledSame
<1>3. mode'[action.by] = mode[action.by]
  BY ByMode
<1> QED BY <1>1, <1>2, <1>3

(* The walk asks to invalidate without writing back only for a writer.     *)
LEMMA AskingVisit ==
    ASSUME ConsistAssumption, TInv, Sharing, VisitClient, [Next]_vars
    PROVE  Asking'
<1>e. VisitFacts
  BY VisitEffect
<1> DEFINE c == action.next
           op == CommandFor(c)
<1>1. /\ UNCHANGED <<entry, trouble, mode>>
      /\ action.phase = "visit" /\ c \in Clients /\ c \in action.todo
      /\ action'.by = action.by /\ action.cacheable \in BOOLEAN
  BY <1>e, ActionFacts, ActionRecord DEF VisitFacts, VisitClient, procVars
<1> SUFFICES ASSUME action'.phase = "command", cmd'.client \notin trouble', cmd'.op = {"invalidate"}
             PROVE  mode'[action'.by] = "write" /\ cmd'.version > Settled'
  BY DEF Asking
<1>2. op # {} /\ cmd'.client = c /\ cmd'.op = op /\ cmd'.version = version
  BY <1>e, <1>1 DEF VisitFacts
<1>3. op = {"invalidate"} /\ c \notin trouble
  BY <1>1, <1>2
<1>4. entry[c].cached /\ entry[c].ref > 0 /\ ~(entry[c].write > 0) /\ ~action.cacheable
  <2>1. entry[c].cached
    BY <1>2 DEF CommandFor
  <2>2. ~action.cacheable
    <3> SUFFICES ASSUME action.cacheable PROVE FALSE
      OBVIOUS
    <3>1. "writeBack" \in op
      BY <1>2, <2>1 DEF CommandFor
    <3> QED BY <1>3, <3>1
  <2>3. ~(entry[c].write > 0)
    <3> SUFFICES ASSUME entry[c].write > 0 PROVE FALSE
      OBVIOUS
    <3>1. "writeBack" \in op
      BY <2>1, <2>2 DEF CommandFor
    <3> QED BY <1>3, <3>1
  <2>4. entry[c].ref > 0
    BY <1>2, <2>1, <2>2, <2>3 DEF CommandFor
  <2> QED BY <2>1, <2>2, <2>3, <2>4
<1> HIDE DEF c, op
<1>5. mode[action.by] = "write"
  <2>1. Walking /\ ~Unused(c) /\ c \in action.todo \ trouble
    BY <1>1, <1>3, <1>4 DEF Walking, Unused
  <2> QED BY <1>4, <2>1 DEF Sharing, ToTell
<1>6. action.by \in Procs /\ pc[action.by] = "consist"
  BY <1>1, ActionFacts
<1>7. action.by \in WAhead
  BY <1>5, <1>6 DEF WAhead, Ahead
<1>8. version > Settled
  <2>1. version \in Nat /\ Cardinality(WAhead) > 0
    BY <1>7, WAheadType DEF TInv, Shape, ServerShape
  <2> QED BY <2>1, WAheadType DEF Settled
<1>9. Settled' = Settled
  <2>1. ~EndConsistency
    BY <1>1 DEF EndConsistency
  <2> QED BY <2>1, SettledSame
<1> QED BY <1>1, <1>2, <1>5, <1>8, <1>9

(* The command under way asks for a version to come, through every step.   *)
LEMMA AskingStep ==
    ASSUME ConsistAssumption, OneEach, TInv, TInv', CInv, Sharing, Asking, [Next]_vars
    PROVE  Asking'
<1>1. CASE Calm /\ ~EndConsistency
  BY <1>1, AskingKept DEF Calm
<1>2. ASSUME NEW p \in Procs, StartConsistency(p) PROVE Asking'
  BY <1>2, StartEffect DEF StartFacts, Asking
<1>3. CASE VisitClient
  BY <1>3, AskingVisit
<1>4. CASE UpdateList
  BY <1>4, UpdateEffect, ActionRecord DEF UpdateFacts, Asking
<1>5. CASE EndConsistency
  <2>1. action'.phase = "none"
    BY <1>5 DEF EndConsistency, NoAction
  <2> QED BY <2>1 DEF Asking
<1>6. ASSUME NEW c \in Clients, RpcConsist(c) PROVE Asking'
  <2>1. RpcConsistFacts(c)
    BY <1>6, RpcConsistEffect
  <2>2. action.phase = "command"
    BY <2>1 DEF RpcConsistFacts
  <2>3. ~EndConsistency
    BY <2>2 DEF EndConsistency
  <2> QED BY <2>1, <2>3, AskingKept DEF RpcConsistFacts, history
<1>7. ASSUME NEW j \in jobs, ProcessConsist(j) PROVE Asking'
  <2>1. UNCHANGED <<action, cmd>> /\ trouble \subseteq trouble'
    BY <1>7, JobEffect DEF JobFacts
  <2>2. CASE EndConsistency
    BY <1>5, <2>2
  <2>3. CASE ~EndConsistency
    BY <2>1, <2>3, AskingKept
  <2> QED BY <2>2, <2>3
<1>8. ASSUME NEW r \in replies, ProcessConsistReply(r) PROVE Asking'
  <2>1. ReplyFacts(r)
    BY <1>8, ReplyEffect
  <2>2. action'.by = action.by /\ action'.phase = action.phase /\ UNCHANGED <<cmd, trouble>>
    BY <2>1, ActionRecord DEF ReplyFacts, SettledReply, history
  <2>3. CASE EndConsistency
    BY <1>5, <2>3
  <2>4. CASE ~EndConsistency
    BY <2>2, <2>4, AskingKept
  <2> QED BY <2>3, <2>4
<1> QED BY <1>1, <1>2, <1>3, <1>4, <1>5, <1>6, <1>7, <1>8, CalmStep

(* Processes and handles that stay keep what was granted.                  *)
LEMMA KeptSame ==
    ASSUME misled \subseteq misled', UNCHANGED <<pc, grant, handle>>,
           action'.phase = "wait" => action.phase = "wait"
    PROVE  ProcKept
BY DEF ProcKept, Pre, Waits, Live, SameGrant

(* Processes that are through leave the others what was granted.           *)
LEMMA KeptFinish ==
    ASSUME NEW ps, NEW where \in {"idle", "dead"}, Finish(ps, where),
           action'.phase = "wait" => action.phase = "wait"
    PROVE  /\ \A p \in Procs : Pre(p)' => Pre(p) /\ SameGrant(p)
           /\ \A p \in Procs : Live(p)' => Live(p)
BY DEF Finish, Pre, Waits, Live, SameGrant

(* Steps of a process but for the install keep what was granted.           *)
LEMMA KeptProc ==
    ASSUME ConsistAssumption, TInv, NEW p \in Procs, ProcStep(p), ~IoOpen(p)
    PROVE  ProcKept
<1>0. /\ pc \in [Procs -> States] /\ (pc[p] = "consist" => action.by = p)
      /\ grant \in [Procs -> [cacheable : BOOLEAN, stamp : Nat, version : Nat]]
      /\ IdleOrDead(p) \in {"idle", "dead"} /\ "dead" \in {"idle", "dead"}
  BY DEF TInv, Shape, ProcShape, Structure, ActionTied, IdleOrDead
<1>1. CASE \E m \in Modes : OpenSend(p, m)
  BY <1>0, <1>1 DEF OpenSend, ProcKept, Pre, Waits, Live, SameGrant, serverVars, clientVars, history
<1>2. CASE NameOpen(p)
  BY <1>0, <1>2 DEF NameOpen, ProcKept, Pre, Waits, Live, SameGrant, clientVars, history
<1>3. CASE StartConsistency(p)
  <2>1. StartFacts(p)
    BY <1>3, StartEffect
  <2> QED BY <1>0, <2>1 DEF StartFacts, ProcKept, Pre, Waits, Live, SameGrant, clientVars, history
<1>4. CASE AbortOpen(p) \/ Close(p)
  <2>1. UNCHANGED <<handle, misled, action>>
    BY <1>4 DEF AbortOpen, Kill, Close, clientVars, history
  <2>2. Finish({p}, IdleOrDead(p))
    BY <1>4 DEF AbortOpen, Close
  <2> QED BY <1>0, <2>1, <2>2, KeptFinish DEF ProcKept
<1>5. CASE OpenReply(p)
  <2>1. UNCHANGED <<handle, action>> /\ misled \subseteq misled'
    BY <1>5 DEF OpenReply, clientVars, serverVars
  <2>2. CASE up[Host[p]]
    <3>1. /\ grant' = [grant EXCEPT ![p].version = version] /\ pc' = [pc EXCEPT ![p] = "replied"]
          /\ pc[p] = "granted"
      BY <1>5, <2>2 DEF OpenReply
    <3>2. \A q \in Procs : SameGrant(q)
      BY <1>0, <3>1 DEF SameGrant
    <3>3. \A q \in Procs : (Pre(q)' => Pre(q)) /\ (Live(q)' => Live(q))
      BY <1>0, <2>1, <3>1 DEF Pre, Waits, Live
    <3> QED BY <2>1, <3>2, <3>3 DEF ProcKept
  <2>3. CASE ~up[Host[p]]
    <3>1. Finish({p}, "dead")
      BY <1>5, <2>3 DEF OpenReply
    <3> QED BY <1>0, <2>1, <3>1, KeptFinish DEF ProcKept
  <2> QED BY <2>2, <2>3
<1>6. CASE OpenDone(p)
  BY <1>0, <1>6 DEF OpenDone, ProcKept, Pre, Waits, Live, SameGrant, serverVars, clientVars, history
<1>7. CASE ReadFill(p)
  BY <1>7, FillEffect DEF FillFacts, ProcKept, Pre, Waits, Live, SameGrant, procVars, serverVars
<1>8. CASE Write(p)
  BY <1>8, WriteEffect DEF WriteFacts, ProcKept, Pre, Waits, Live, SameGrant, procVars, serverVars
<1>9. CASE CloseSend(p)
  <2>1. PICK b : grant' = [grant EXCEPT ![p].cacheable = b]
    BY <1>9 DEF CloseSend
  <2>2. \A q \in Procs \ {p} : SameGrant(q)
    BY <1>0, <2>1 DEF SameGrant
  <2>3. pc[p] = "open" /\ pc' = [pc EXCEPT ![p] = "closing"] /\ UNCHANGED <<action, handle, misled>>
    BY <1>9 DEF CloseSend, IsOpen, serverVars, clientVars, history
  <2>4. \A q \in Procs : (Pre(q)' => Pre(q) /\ q # p) /\ (Live(q)' => Live(q))
    BY <1>0, <2>3 DEF Pre, Waits, Live
  <2> QED BY <2>2, <2>3, <2>4 DEF ProcKept
<1> QED BY <1>1, <1>2, <1>3, <1>4, <1>5, <1>6, <1>7, <1>8, <1>9 DEF ProcStep

(* Steps of an action but for the update of the list keep what was         *)
(* granted.                                                                *)
LEMMA KeptAction ==
    ASSUME ConsistAssumption, TInv, ActionStep, ~UpdateList
    PROVE  ProcKept
<1>1. CASE VisitClient
  BY ZenonT(60), <1>1, VisitEffect, KeptSame DEF VisitFacts, VisitClient, procVars, clientVars
<1>2. CASE CommandTimeout
  BY <1>2, KeptSame DEF CommandTimeout, procVars, clientVars, history
<1>3. CASE CommandDone
  BY <1>3, CommandDoneEffect, KeptSame DEF DoneFacts, procVars, clientVars
<1>4. CASE EndConsistency
  <2>1. EndFacts
    BY <1>4, EndEffect
  <2> QED BY <2>1 DEF EndFacts, ProcKept, Pre, Waits, Live, SameGrant, clientVars, history
<1>5. CASE ConsistTimeoutIntr
  <2>1. action' = [action EXCEPT !.armed = FALSE]
    BY <1>5 DEF ConsistTimeoutIntr
  <2>2. action'.phase = action.phase
    BY <2>1, ActionRecord
  <2> QED BY <1>5, <2>2, KeptSame DEF ConsistTimeoutIntr, procVars, clientVars, history
<1>6. CASE ConsistTimeout
  BY <1>6, KeptSame DEF ConsistTimeout, procVars, clientVars
<1> QED BY SMTT(60), <1>1, <1>2, <1>3, <1>4, <1>5, <1>6 DEF ActionStep

(* Steps of a workstation keep what was granted.                           *)
LEMMA KeptClient ==
    ASSUME ConsistAssumption, TInv, NEW c \in Clients, ClientStep(c)
    PROVE  ProcKept
<1>0. NoHandle.stamp = 0 /\ NoHandle.cacheable = FALSE /\ "dead" \in {"idle", "dead"}
  BY DEF NoHandle
<1>1. CASE RpcConsist(c)
  BY <1>1, KeptSame DEF RpcConsist, procVars, history
<1>2. CASE CleanBlocks(c)
  BY <1>2, CleanEffect DEF CleanFacts, ProcKept, Pre, Waits, Live, SameGrant, procVars
<1>3. CASE FileScavenge(c)
  BY <1>0, <1>3, ScavengeEffect
  DEF ScavengeFacts, ProcKept, Pre, Waits, Live, SameGrant, procVars, serverVars, history
<1>4. CASE Crash(c)
  <2>1. CrashFacts(c)
    BY <1>4, CrashEffect
  <2>2. UNCHANGED <<action, misled>>
    BY <2>1 DEF CrashFacts, serverVars
  <2>3. Finish(CrashedProcs(c), "dead")
    BY <2>1 DEF CrashFacts
  <2>4. \A d \in Clients : /\ handle'[d].stamp \in {handle[d].stamp, 0}
                          /\ handle'[d].cacheable \in {handle[d].cacheable, FALSE}
    BY <1>0, <2>1 DEF CrashFacts
  <2> QED BY <1>0, <2>2, <2>3, <2>4, KeptFinish DEF ProcKept
<1>5. CASE ClientKill(c)
  <2>1. UNCHANGED <<action, misled, handle>>
    BY <1>5 DEF ClientKill, clientVars, history
  <2>2. Finish({p \in Procs : Host[p] = c /\ pc[p] = "closing"}, "dead")
    BY <1>5 DEF ClientKill
  <2> QED BY <1>0, <2>1, <2>2, KeptFinish DEF ProcKept
<1> QED BY <1>1, <1>2, <1>3, <1>4, <1>5 DEF ClientStep

(* Steps but for update and install keep what was granted.                 *)
LEMMA KeptStep ==
    ASSUME ConsistAssumption, TInv, [Next]_vars, ~UpdateList, \A p \in Procs : ~IoOpen(p)
    PROVE  ProcKept
<1>4. ASSUME NEW j \in jobs, ProcessConsist(j) PROVE ProcKept
  <2>1. JobFacts(j)
    BY <1>4, JobEffect
  <2>2. UNCHANGED <<pc, grant, action, misled>>
    BY <2>1 DEF JobFacts, procVars
  <2>3. \A d \in Clients : handle'[d].stamp = handle[d].stamp
    BY <2>1, JobGeneral
  <2>4. \A d \in Clients : handle'[d].cacheable \in {handle[d].cacheable, FALSE}
    <3>1. CASE handle' = handle
      BY <3>1
    <3>2. ASSUME NEW ok, ConsistedFacts(j.client, j.op, ok)
          PROVE  \A d \in Clients : handle'[d].cacheable \in {handle[d].cacheable, FALSE}
      <4>1. handle'[j.client].cacheable \in BOOLEAN /\ handle[j.client].cacheable \in BOOLEAN
        BY <2>1, <3>2, HandleType DEF JobFacts, ConsistedFacts, HandleShape
      <4>2. handle'[j.client].cacheable <=> (handle[j.client].cacheable /\ "invalidate" \notin j.op)
        BY <3>2 DEF ConsistedFacts
      <4>3. handle'[j.client].cacheable \in {handle[j.client].cacheable, FALSE}
        BY <4>1, <4>2
      <4> QED BY <3>2, <4>3 DEF ConsistedFacts
    <3> QED BY <2>1, <3>1, <3>2 DEF JobFacts, DroppedJob, PlainJob, FlushedJob, FailedJob, Answered
  <2> QED BY <2>2, <2>3, <2>4 DEF ProcKept, Pre, Waits, Live, SameGrant
<1>5. ASSUME NEW r \in replies, ProcessConsistReply(r) PROVE ProcKept
  <2>1. ReplyFacts(r)
    BY <1>5, ReplyEffect
  <2>2. action'.phase = action.phase /\ UNCHANGED <<pc, grant, handle, misled>>
    BY <2>1, ActionRecord DEF ReplyFacts, SettledReply, procVars, history
  <2> QED BY <2>2, KeptSame
<1>6. CASE NumClients \/ UNCHANGED vars
  BY <1>6, KeptSame DEF NumClients, vars, serverVars, procVars, clientVars, history
<1> QED BY <1>4, <1>5, <1>6, KeptProc, KeptAction, KeptClient DEF Next

(* A use that survives a step keeps its element on the list.               *)
LEMMA HeldAfter ==
    ASSUME ConsistAssumption, TInv', CInv', NEW p \in Procs, Holds(p)', Host[p] \notin trouble'
    PROVE  entry'[Host[p]].ref # 0 /\ entry'[Host[p]] # NoEntry
<1> DEFINE c == Host[p]
<1>1. c \in Clients \ trouble'
  BY HostType
<1>2. entry'[c].ref = Cardinality(Holders(c)')
  BY <1>1 DEF CInv, Counted
<1>3. p \in Holders(c)' /\ Holders(c)' \subseteq Procs
  BY DEF Holders
<1>4. IsFiniteSet(Holders(c)')
  BY <1>3, FS_Subset DEF ConsistAssumption
<1>5. Cardinality(Holders(c)') # 0
  BY <1>3, <1>4, FS_EmptySet
<1> QED BY <1>2, <1>5 DEF NoEntry

(* Elements that stay keep their stamp and caching.                        *)
LEMMA UseSame == ASSUME UNCHANGED entry PROVE UseKept
BY Zenon DEF UseKept, SameUse

(* Elements that are only released keep stamp and caching while in use.    *)
LEMMA UseReleased ==
    ASSUME ConsistAssumption, TInv', CInv', \A c \in Clients \ trouble' : Released(c)
    PROVE  UseKept
<1> SUFFICES ASSUME NEW p \in Procs, Holds(p)', Host[p] \notin trouble'
             PROVE  SameUse(Host[p])
  BY DEF UseKept
<1>1. Host[p] \in Clients \ trouble'
  BY HostType
<1>2. entry'[Host[p]].ref # 0
  BY HeldAfter
<1>3. entry'[Host[p]] = entry[Host[p]]
  BY <1>1, <1>2 DEF Released
<1> QED BY <1>3, Zenon DEF SameUse

(* Steps that add no job and no reply tell nobody anything.                *)
LEMMA NoneToldFewer ==
    ASSUME jobs' \subseteq jobs, replies' \subseteq replies
    PROVE  NoneTold
BY DEF NoneTold

(* An open that is granted is counted, and its process alive.              *)
LEMMA PreFacts ==
    ASSUME TInv, NEW p \in Procs, Pre(p)
    PROVE  Holds(p) /\ pc[p] \notin {"idle", "dead"}
BY DEF Pre, Waits, Holds

(* Granted opens keep their agreement with the server's list.              *)
LEMMA GrantingKept ==
    ASSUME ConsistAssumption, TInv, TInv', [Next]_vars, Granting, ProcKept, NoneTold,
           trouble \subseteq trouble',
           \A p \in Procs : Pre(p)' /\ Host[p] \notin trouble' =>
               /\ entry'[Host[p]].stamp = entry[Host[p]].stamp
               /\ Host[p] \notin misled => entry'[Host[p]].cached = entry[Host[p]].cached
    PROVE  Granting'
<1> SUFFICES ASSUME NEW p \in Procs, Pre(p)', Host[p] \notin trouble'
             PROVE  /\ grant'[p].stamp = entry'[Host[p]].stamp /\ handle'[Host[p]].stamp < grant'[p].stamp
                    /\ mode'[p] = "write" \/ Host[p] \notin misled' => Quiet(Host[p])'
                    /\ Host[p] \notin misled' => grant'[p].cacheable = entry'[Host[p]].cached
  BY DEF Granting
<1> DEFINE c == Host[p]
<1>0. c \in Clients /\ c \notin trouble
  BY HostType
<1>1. Pre(p) /\ grant'[p].stamp = grant[p].stamp /\ grant'[p].cacheable = grant[p].cacheable
      /\ misled \subseteq misled' /\ handle'[c].stamp \in {handle[c].stamp, 0}
  BY <1>0 DEF ProcKept, SameGrant
<1>2. /\ grant[p].stamp = entry[c].stamp /\ handle[c].stamp < grant[p].stamp
      /\ mode[p] = "write" \/ c \notin misled => Quiet(c)
      /\ c \notin misled => grant[p].cacheable = entry[c].cached
  BY <1>0, <1>1 DEF Granting
<1>3. mode'[p] = mode[p]
  <2>1. pc[p] # "idle" /\ pc'[p] \notin Through
    BY <1>1 DEF Pre, Waits, Through
  <2> QED BY <2>1, ModeStep
<1>4. handle'[c].stamp < grant'[p].stamp
  <2>1. handle[c].stamp \in Nat /\ grant[p].stamp \in Nat
    BY <1>0, HandleType DEF TInv, Shape, ProcShape
  <2> QED BY <1>1, <1>2, <2>1
<1>5. mode'[p] = "write" \/ c \notin misled' => Quiet(c)'
  <2> SUFFICES ASSUME mode[p] = "write" \/ c \notin misled,
                      NEW m \in jobs' \cup replies', m.client = c
               PROVE  FALSE
    BY <1>1, <1>3 DEF Quiet
  <2>1. \A i \in jobs \cup replies : i.client # c
    BY <1>2 DEF Quiet
  <2> QED BY <1>0, <1>1, <2>1 DEF NoneTold
<1>6. grant'[p].stamp = entry'[c].stamp
  BY <1>1, <1>2
<1>7. c \notin misled' => grant'[p].cacheable = entry'[c].cached
  <2> SUFFICES ASSUME c \notin misled' PROVE grant'[p].cacheable = entry'[c].cached
    OBVIOUS
  <2>1. c \notin misled
    BY <1>1
  <2>2. entry'[c].cached = entry[c].cached /\ grant[p].cacheable = entry[c].cached
    BY <1>2, <2>1
  <2> QED BY <1>1, <2>2, Zenon
<1> QED BY <1>4, <1>5, <1>6, <1>7

(* Open files keep their agreement with the server's list.                 *)
LEMMA UsingKept ==
    ASSUME ConsistAssumption, TInv, Using, ProcKept, trouble \subseteq trouble',
           \A p \in Procs : Live(p)' /\ Host[p] \notin trouble' \cup misled =>
               (handle[Host[p]].cacheable /\ entry[Host[p]].cached => entry'[Host[p]].cached)
    PROVE  Using'
<1> SUFFICES ASSUME NEW p \in Procs, Live(p)', Host[p] \notin trouble' \cup misled',
                    handle'[Host[p]].cacheable
             PROVE  entry'[Host[p]].cached
  BY DEF Using, Live
<1>1. Live(p) /\ Host[p] \notin trouble \cup misled /\ Host[p] \in Clients
  BY HostType DEF ProcKept
<1>2. handle[Host[p]].cacheable
  <2>1. handle'[Host[p]].cacheable \in {handle[Host[p]].cacheable, FALSE}
    BY <1>1 DEF ProcKept
  <2>2. handle'[Host[p]].cacheable = handle[Host[p]].cacheable
    BY <2>1
  <2> QED BY <2>2, Zenon
<1>3. entry[Host[p]].cached
  BY <1>1, <1>2 DEF Using, Live
<1> QED BY <1>1, <1>2, <1>3

(* Workstations that have answered an invalidation stay uncacheable.       *)
LEMMA StoppedKept ==
    ASSUME ConsistAssumption, TInv, Stopped, ProcKept, trouble \subseteq trouble',
           \A r \in replies' : r.client \notin trouble' \cup misled' /\ "invalidate" \in msgs'[r.client] =>
               \/ r \in replies /\ r.client \in Clients /\ "invalidate" \in msgs[r.client]
               \/ ~handle'[r.client].cacheable
    PROVE  Stopped'
<1> SUFFICES ASSUME NEW r \in replies', r.client \notin trouble' \cup misled',
                    "invalidate" \in msgs'[r.client], handle'[r.client].cacheable
             PROVE  FALSE
  BY DEF Stopped
<1>1. r \in replies /\ r.client \in Clients /\ "invalidate" \in msgs[r.client]
  OBVIOUS
<1>2. ~handle[r.client].cacheable
  BY <1>1 DEF Stopped, ProcKept
<1>3. handle'[r.client].cacheable \in {handle[r.client].cacheable, FALSE}
  BY <1>1 DEF ProcKept
<1>4. handle'[r.client].cacheable = handle[r.client].cacheable
  BY <1>3
<1> QED BY <1>2, <1>4, Zenon

(* Granted and open files keep their agreement with the server's list.     *)
LEMMA BelievedKept ==
    ASSUME ConsistAssumption, TInv, TInv', [Next]_vars, Believed, ProcKept, NoneTold,
           trouble \subseteq trouble', UseKept
    PROVE  Granting' /\ Using'
<1>1. ASSUME NEW p \in Procs, Pre(p)', Host[p] \notin trouble'
      PROVE  SameUse(Host[p])
  <2>1. Holds(p)'
    BY <1>1 DEF Pre, Waits, Holds
  <2> QED BY <1>1, <2>1 DEF UseKept
<1>2. ASSUME NEW p \in Procs, Live(p)', Host[p] \notin trouble', entry[Host[p]].cached
      PROVE  entry'[Host[p]].cached
  <2>1. Holds(p)'
    BY <1>2 DEF Live, Holds
  <2>2. entry'[Host[p]].cached = entry[Host[p]].cached
    BY <1>2, <2>1 DEF UseKept, SameUse
  <2> QED BY <1>2, <2>2, Zenon
<1>3. Granting'
  BY <1>1, GrantingKept DEF Believed, SameUse
<1>4. Using'
  BY <1>2, UsingKept DEF Believed
<1> QED BY <1>3, <1>4

(* What workstations believe stays true through calm steps.                *)
LEMMA BelievedCalm ==
    ASSUME ConsistAssumption, TInv, TInv', CInv', [Next]_vars, Believed, ProcKept, Calm
    PROVE  Believed'
<1>1. trouble \subseteq trouble' /\ NoneTold /\ UseKept
  BY UseReleased, NoneToldFewer DEF Calm
<1>2. Granting' /\ Using'
  BY <1>1, BelievedKept
<1>3. Stopped'
  <2>1. ASSUME NEW r \in replies', r.client \notin trouble', "invalidate" \in msgs'[r.client]
        PROVE  r \in replies /\ r.client \in Clients /\ "invalidate" \in msgs[r.client]
    <3>1. r \in replies /\ r.client \in Clients
      BY PipeTypes DEF Calm
    <3> QED BY <2>1, <3>1 DEF Calm
  <2> QED BY <1>1, <2>1, StoppedKept DEF Believed
<1> QED BY <1>2, <1>3 DEF Believed

(* What workstations believe stays true through the walk.                  *)
LEMMA BelievedWalk ==
    ASSUME ConsistAssumption, TInv, TInv', CInv', [Next]_vars, Pipe, Believed, ProcKept,
           VisitClient \/ EndConsistency \/ \E p \in Procs : StartConsistency(p)
    PROVE  Believed'
<1>1. UNCHANGED <<entry, trouble, jobs, replies>>
  <2>1. CASE VisitClient
    BY <2>1 DEF VisitClient, clientVars
  <2>2. CASE EndConsistency
    BY SMTT(60), <2>2 DEF EndConsistency, clientVars, history
  <2>3. ASSUME NEW p \in Procs, StartConsistency(p)
        PROVE  UNCHANGED <<entry, trouble, jobs, replies>>
    BY <2>3 DEF StartConsistency, clientVars, history
  <2> QED BY SMTT(60), <2>1, <2>2, <2>3
<1>2. Granting' /\ Using'
  BY <1>1, UseSame, NoneToldFewer, BelievedKept
<1>3. \A r \in replies : r.client \notin trouble =>
          r.client \in Clients /\ msgs[r.client] # {}
  BY PipeTypes DEF Pipe, Replied
<1>4. \A c \in Clients : msgs[c] # {} => msgs'[c] = msgs[c]
  <2>1. CASE VisitClient
    <3>1. VisitFacts
      BY <2>1, VisitEffect
    <3>2. msgs[action.next] = {} /\ action.next \in Clients
      BY <3>1 DEF VisitFacts, Pipe, Unasked
    <3> QED BY <3>1, <3>2, MsgsType DEF VisitFacts
  <2>2. CASE EndConsistency
    BY SMTT(60), <2>2 DEF EndConsistency
  <2>3. ASSUME NEW p \in Procs, StartConsistency(p) PROVE msgs' = msgs
    BY <2>3 DEF StartConsistency
  <2> QED BY <2>1, <2>2, <2>3
<1>5. Stopped'
  BY <1>1, <1>3, <1>4, StoppedKept DEF Believed
<1> QED BY <1>2, <1>5 DEF Believed

(* What workstations believe stays true through the arrival of a command   *)
(* (Fsconsist_RpcConsist).                                                 *)
LEMMA BelievedRpc ==
    ASSUME ConsistAssumption, OneEach, TInv, TInv', CInv, CInv', [Next]_vars,
           Pipe, Versions, Believed, ProcKept, NEW c \in Clients, RpcConsist(c)
    PROVE  Believed'
<1>e. RpcConsistFacts(c)
  BY RpcConsistEffect
<1>1. /\ UNCHANGED <<entry, trouble, misled, replies, msgs, handle>>
      /\ action.phase = "command" /\ cmd.client = c /\ cmd.answer = "none"
  BY <1>e DEF RpcConsistFacts, history
<1>2. NoneTold
  <2> SUFFICES ASSUME NEW m \in jobs' \cup replies', m \notin jobs \cup replies,
                      NEW p \in Procs, Pre(p), Host[p] = m.client, Host[p] \notin trouble
               PROVE  mode[p] # "write" /\ Host[p] \in misled
    BY <1>1 DEF NoneTold
  <2>1. AcceptedFacts(c) /\ m.client = c
    <3>1. AcceptedFacts(c)
      BY <1>e, <1>1 DEF RpcConsistFacts
    <3> QED BY <1>1, <3>1 DEF AcceptedFacts
  <2>2. Holds(p) /\ Host[p] = c
    BY <2>1, PreFacts
  <2>3. msgs[c] = cmd.op /\ cmd.stamp = entry[c].stamp
    <3>1. p \in Holders(c)
      BY <2>2 DEF Holders
    <3> QED BY <1>1, <2>2, <3>1 DEF Pipe, Asked
  <2>4. handle[c].stamp # cmd.stamp
    <3>1. grant[p].stamp = entry[c].stamp /\ handle[c].stamp < grant[p].stamp
      BY <2>2 DEF Believed, Granting
    <3>2. handle[c].stamp \in Nat /\ grant[p].stamp \in Nat
      BY HandleType DEF TInv, Shape, ProcShape
    <3> QED BY <2>3, <3>1, <3>2
  <2>5. handle[c].version = cmd.version /\ "writeBack" \notin cmd.op
    BY <2>1, <2>4 DEF AcceptedFacts
  <2>6. cmd.op = {"invalidate"}
    <3>1. cmd.op \subseteq {"writeBack", "invalidate"} /\ cmd.op # {}
      BY <1>1, CmdRecord DEF TInv, Structure, CmdTied, Commands
    <3> QED BY <2>5, <3>1
  <2>7. mode[p] # "write"
    <3>1. entry[c].write = 0
      BY <2>2, <2>3, <2>6 DEF Pipe, Halves
    <3>2. entry[c].write = One(mode[p] = "write")
      BY <2>2, OneHolder
    <3> QED BY <3>1, <3>2 DEF One
  <2>8. c \in misled
    <3> SUFFICES ASSUME c \notin misled PROVE FALSE
      OBVIOUS
    <3>1. cmd.version > Settled
      BY <1>1, <2>2, <2>6 DEF Versions, Asking
    <3>2. handle[c].version <= Settled
      BY DEF Versions, Behind
    <3>3. Settled \in Int /\ cmd.version \in Nat
      BY SettledType, CmdRecord
    <3> QED BY <2>5, <3>1, <3>2, <3>3
  <2> QED BY <2>2, <2>7, <2>8
<1>3. Granting' /\ Using'
  BY <1>1, <1>2, UseSame, BelievedKept
<1>4. Stopped'
  BY <1>1, PipeTypes, StoppedKept DEF Believed
<1> QED BY <1>3, <1>4 DEF Believed

(* What workstations believe stays true through executing a command        *)
(* (ProcessConsist).                                                       *)
LEMMA BelievedJob ==
    ASSUME ConsistAssumption, TInv, TInv', CInv', [Next]_vars, Pipe, Believed, ProcKept,
           NEW j \in jobs, ProcessConsist(j)
    PROVE  Believed'
<1>e. JobFacts(j)
  BY JobEffect
<1> DEFINE c == j.client
<1>1. UNCHANGED <<msgs, misled>> /\ jobs' \subseteq jobs /\ trouble \subseteq trouble' /\ c \in Clients
  BY <1>e DEF JobFacts
<1>2. \A r \in replies' : r \in replies \/ r.client = c
  BY <1>e, JobReplies
<1>3. NoneTold
  BY <1>1, <1>2 DEF NoneTold
<1>4. UseKept
  <2>1. \A d \in Clients : Shrinks(d) /\ Released(d)
    BY <1>e, <1>1, JobGeneral, CalmDelete
  <2> QED BY <2>1, UseReleased
<1>5. Granting' /\ Using'
  BY <1>1, <1>3, <1>4, BelievedKept
<1>6. c \notin trouble /\ "invalidate" \in msgs[c] => DroppedJob(j) \/ ~handle'[c].cacheable
  <2> SUFFICES ASSUME c \notin trouble, "invalidate" \in msgs[c], ~DroppedJob(j)
               PROVE  ~handle'[c].cacheable
    OBVIOUS
  <2>1. "invalidate" \in j.op
    BY DEF Pipe, Queued
  <2>2. PICK ok : ConsistedFacts(c, j.op, ok)
    BY <1>e DEF JobFacts, PlainJob, FlushedJob, FailedJob, Answered
  <2> QED BY <2>1, <2>2 DEF ConsistedFacts
<1>7. Stopped'
  <2>1. ASSUME NEW r \in replies', r.client \notin trouble' \cup misled', "invalidate" \in msgs'[r.client]
        PROVE  \/ r \in replies /\ r.client \in Clients /\ "invalidate" \in msgs[r.client]
               \/ ~handle'[r.client].cacheable
    <3>1. CASE r \in replies
      BY <1>1, <2>1, <3>1, PipeTypes
    <3>2. CASE r \notin replies
      <4>1. r.client = c
        BY <1>2, <3>2
      <4>2. ~DroppedJob(j)
        BY <3>2 DEF DroppedJob
      <4> QED BY <1>1, <1>6, <2>1, <4>1, <4>2
    <3> QED BY <3>1, <3>2
  <2> QED BY <1>1, <2>1, StoppedKept DEF Believed
<1> QED BY <1>5, <1>7 DEF Believed

(* What workstations believe stays true through receiving a reply          *)
(* (ProcessConsistReply).                                                  *)
LEMMA BelievedReply ==
    ASSUME ConsistAssumption, TInv, TInv', CInv', [Next]_vars, Pipe, Believed, ProcKept,
           NEW r \in replies, ProcessConsistReply(r)
    PROVE  Believed'
<1>e. ReplyFacts(r)
  BY ReplyEffect
<1> DEFINE c == r.client
<1>1. /\ UNCHANGED <<handle, jobs, trouble, misled, pc, mode>> /\ replies' = replies \ {r}
      /\ c \in Clients /\ msgs'[c] = {} /\ \A d \in Clients \ {c} : msgs'[d] = msgs[d]
      /\ \A d \in Clients \ {c} : entry'[d] = entry[d]
  BY <1>e DEF ReplyFacts, SettledReply, procVars, history
<1>2. NoneTold
  BY <1>1, NoneToldFewer
<1>3. c \notin trouble => SettledReply(c)
  BY <1>e DEF Pipe, Replied, ReplyFacts
<1>4. ASSUME NEW p \in Procs, Holds(p)', Host[p] = c, c \notin trouble
      PROVE  /\ entry'[c].stamp = entry[c].stamp
             /\ entry'[c].cached <=> (entry[c].cached /\ "invalidate" \notin msgs[c])
  BY <1>1, <1>3, <1>4, HeldAfter DEF SettledReply
<1>5. Granting'
  <2>1. ASSUME NEW p \in Procs, Pre(p)', Host[p] \notin trouble'
        PROVE  /\ entry'[Host[p]].stamp = entry[Host[p]].stamp
               /\ Host[p] \notin misled => entry'[Host[p]].cached = entry[Host[p]].cached
    <3>1. Holds(p)' /\ Host[p] \in Clients
      BY <2>1, HostType DEF Pre, Waits, Holds
    <3>2. CASE Host[p] # c
      <4>1. entry'[Host[p]] = entry[Host[p]]
        BY <1>1, <3>1, <3>2
      <4> QED BY <4>1, Zenon
    <3>3. CASE Host[p] = c
      <4>1. entry'[c].stamp = entry[c].stamp
        BY <1>1, <1>4, <2>1, <3>1, <3>3
      <4>2. c \in misled
        <5>1. Pre(p)
          BY <2>1 DEF ProcKept
        <5>2. c \notin misled => Quiet(c)
          BY <1>1, <2>1, <3>3, <5>1 DEF Believed, Granting
        <5> QED BY <5>2 DEF Quiet
      <4> QED BY <3>3, <4>1, <4>2
    <3> QED BY <3>2, <3>3
  <2> QED BY <1>1, <1>2, <2>1, GrantingKept DEF Believed
<1>6. Using'
  <2>1. ASSUME NEW p \in Procs, Live(p)', Host[p] \notin trouble' \cup misled,
               handle[Host[p]].cacheable, entry[Host[p]].cached
        PROVE  entry'[Host[p]].cached
    <3>1. Holds(p)' /\ Host[p] \in Clients
      BY <2>1, HostType DEF Live, Holds
    <3>2. CASE Host[p] # c
      <4>1. entry'[Host[p]] = entry[Host[p]]
        BY <1>1, <3>1, <3>2
      <4> QED BY <2>1, <4>1, Zenon
    <3>3. CASE Host[p] = c
      <4>1. "invalidate" \notin msgs[c]
        BY <1>1, <2>1, <3>3 DEF Believed, Stopped
      <4> QED BY <1>1, <1>4, <2>1, <3>1, <3>3, <4>1
    <3> QED BY <3>2, <3>3
  <2> QED BY <1>1, <2>1, UsingKept DEF Believed
<1>7. Stopped'
  <2>1. ASSUME NEW s \in replies', "invalidate" \in msgs'[s.client]
        PROVE  s \in replies /\ s.client \in Clients /\ "invalidate" \in msgs[s.client]
    <3>1. s \in replies /\ s.client \in Clients /\ s.client # c
      BY <1>1, <2>1, PipeTypes
    <3> QED BY <1>1, <2>1, <3>1
  <2> QED BY <1>1, <2>1, StoppedKept DEF Believed
<1> QED BY <1>5, <1>6, <1>7 DEF Believed

(* What workstations believe stays true through listing the opener         *)
(* (UpdateList).                                                           *)
LEMMA BelievedUpdate ==
    ASSUME ConsistAssumption, OneEach, TInv, Pipe, Believed, UpdateList
    PROVE  Believed'
<1>e. UpdateFacts
  BY UpdateEffect
<1>0. PICK p \in Procs : p = action.by
  BY <1>e DEF UpdateFacts
<1> DEFINE o == Host[p]
<1>1. /\ UNCHANGED <<msgs, pc, mode, handle, jobs, replies, trouble, misled>> /\ o \in Clients
      /\ pc[p] = "consist" /\ action.phase = "visit"
      /\ action'.by = p /\ action'.phase = "wait"
      /\ \A d \in Clients \ {o} : entry'[d] = entry[d]
      /\ \A q \in Procs \ {p} : grant'[q] = grant[q]
  BY <1>0, <1>e DEF UpdateFacts, clientVars, history
<1>2. ASSUME NEW q \in Procs \ {p}
      PROVE  /\ Host[q] # o /\ Host[q] \in Clients
             /\ entry'[Host[q]] = entry[Host[q]] /\ grant'[q] = grant[q]
             /\ Pre(q)' => Pre(q)
  <2>1. Host[q] # o /\ Host[q] \in Clients
    BY <1>2, HostType DEF OneEach
  <2>2. pc[q] # "consist"
    BY <1>0, <1>2 DEF TInv, Structure, ActionTied
  <2> QED BY <1>1, <2>1, <2>2 DEF Pre, Waits
<1>3. Granting'
  <2> SUFFICES ASSUME NEW q \in Procs, Pre(q)', Host[q] \notin trouble
               PROVE  /\ grant'[q].stamp = entry'[Host[q]].stamp /\ handle[Host[q]].stamp < grant'[q].stamp
                      /\ mode[q] = "write" \/ Host[q] \notin misled => Quiet(Host[q])
                      /\ Host[q] \notin misled => grant'[q].cacheable = entry'[Host[q]].cached
    BY <1>1 DEF Granting, Quiet
  <2>1. CASE q # p
    <3>1. /\ grant[q].stamp = entry[Host[q]].stamp /\ handle[Host[q]].stamp < grant[q].stamp
          /\ mode[q] = "write" \/ Host[q] \notin misled => Quiet(Host[q])
          /\ Host[q] \notin misled => grant[q].cacheable = entry[Host[q]].cached
      BY <1>2, <2>1 DEF Believed, Granting
    <3>2. entry'[Host[q]] = entry[Host[q]] /\ grant'[q] = grant[q]
      BY <1>2, <2>1
    <3>3. Host[q] \notin misled => grant'[q].cacheable = entry'[Host[q]].cached
      BY <3>1, <3>2, Zenon
    <3> QED BY <3>1, <3>2, <3>3
  <2>2. CASE q = p
    <3>1. /\ entry'[o].stamp = openTimeStamp + 1 /\ entry'[o].cached = action.cacheable
          /\ grant'[p] = [cacheable |-> action.cacheable, stamp |-> openTimeStamp + 1, version |-> 0]
      BY <1>0, <1>e DEF UpdateFacts
    <3>2. grant'[p].stamp = openTimeStamp + 1 /\ grant'[p].cacheable = action.cacheable
      BY <3>1
    <3>3. handle[o].stamp < grant'[p].stamp
      <4>1. handle[o].stamp <= openTimeStamp /\ handle[o].stamp \in Nat /\ openTimeStamp \in Nat
        BY <1>1, HandleType DEF TInv, Bounds, Stamped, Shape, ServerShape
      <4> QED BY <3>2, <4>1
    <3>4. Quiet(o)
      <4>1. msgs[o] = {}
        BY <1>0, <1>1, NoneApart DEF Pipe, Unasked
      <4> QED BY <2>2, <4>1 DEF Quiet, Pipe, Queued, Replied
    <3>5. grant'[p].cacheable = entry'[o].cached
      BY <3>1, <3>2, Zenon
    <3> QED BY <2>2, <3>1, <3>2, <3>3, <3>4, <3>5
  <2> QED BY <2>1, <2>2
<1>4. Using'
  <2> SUFFICES ASSUME NEW q \in Procs, pc[q] \in {"open", "closing"}, Host[q] \notin trouble \cup misled,
                      handle[Host[q]].cacheable
               PROVE  entry'[Host[q]].cached
    BY <1>1 DEF Using
  <2>1. q # p
    BY <1>1
  <2>2. entry[Host[q]].cached /\ entry'[Host[q]] = entry[Host[q]]
    BY <1>2, <2>1 DEF Believed, Using
  <2> QED BY <2>2, Zenon
<1>5. Stopped'
  BY <1>1 DEF Believed, Stopped
<1> QED BY <1>3, <1>4, <1>5 DEF Believed

(* What workstations believe stays true through installing an open on its  *)
(* workstation (Fscache_UpdateFile).                                       *)
LEMMA BelievedInstall ==
    ASSUME ConsistAssumption, OneEach, TInv, Believed, NEW p \in Procs, IoOpen(p)
    PROVE  Believed'
<1>e. InstallFacts(p)
  BY InstallEffect
<1> DEFINE c == Host[p]
<1>1. /\ UNCHANGED <<entry, action, msgs, mode, jobs, replies, trouble, misled>> /\ c \in Clients
      /\ pc[p] = "install" /\ pc'[p] = "open"
      /\ \A d \in Clients \ {c} : handle'[d] = handle[d]
      /\ \A q \in Procs \ {p} : pc'[q] = pc[q] /\ grant'[q] = grant[q]
  BY <1>e DEF InstallFacts, serverVars
<1>2. ASSUME NEW q \in Procs \ {p}
      PROVE  /\ Host[q] # c /\ Host[q] \in Clients
             /\ handle'[Host[q]] = handle[Host[q]] /\ grant'[q] = grant[q]
             /\ pc'[q] = pc[q] /\ (Pre(q)' => Pre(q))
  <2>1. Host[q] # c /\ Host[q] \in Clients
    BY <1>2, HostType DEF OneEach
  <2> QED BY <1>1, <2>1 DEF Pre, Waits
<1>3. Granting'
  <2> SUFFICES ASSUME NEW q \in Procs, Pre(q)', Host[q] \notin trouble
               PROVE  /\ grant'[q].stamp = entry[Host[q]].stamp /\ handle'[Host[q]].stamp < grant'[q].stamp
                      /\ mode[q] = "write" \/ Host[q] \notin misled => Quiet(Host[q])
                      /\ Host[q] \notin misled => grant'[q].cacheable = entry[Host[q]].cached
    BY <1>1 DEF Granting, Quiet
  <2>1. q # p
    BY <1>1 DEF Pre, Waits
  <2>2. /\ grant[q].stamp = entry[Host[q]].stamp /\ handle[Host[q]].stamp < grant[q].stamp
        /\ mode[q] = "write" \/ Host[q] \notin misled => Quiet(Host[q])
        /\ Host[q] \notin misled => grant[q].cacheable = entry[Host[q]].cached
    BY <1>2, <2>1 DEF Believed, Granting
  <2>3. handle'[Host[q]] = handle[Host[q]] /\ grant'[q] = grant[q]
    BY <1>2, <2>1
  <2>4. Host[q] \notin misled => grant'[q].cacheable = entry[Host[q]].cached
    BY <2>2, <2>3, Zenon
  <2> QED BY <2>2, <2>3, <2>4
<1>4. Pre(p)
  BY <1>1 DEF Pre
<1>5. Using'
  <2> SUFFICES ASSUME NEW q \in Procs, pc'[q] \in {"open", "closing"}, Host[q] \notin trouble \cup misled,
                      handle'[Host[q]].cacheable
               PROVE  entry[Host[q]].cached
    BY <1>1 DEF Using
  <2>1. CASE q # p
    <3>1. pc[q] \in {"open", "closing"} /\ handle'[Host[q]] = handle[Host[q]]
      BY <1>2, <2>1
    <3>2. handle[Host[q]].cacheable
      BY <3>1, Zenon
    <3> QED BY <3>1, <3>2 DEF Believed, Using
  <2>2. CASE q = p
    <3>1. grant[p].cacheable = entry[c].cached
      BY <1>4, <2>2 DEF Believed, Granting
    <3>2. handle'[c].cacheable = grant[p].cacheable
      BY <1>e DEF InstallFacts
    <3> QED BY <2>2, <3>1, <3>2, Zenon
  <2> QED BY <2>1, <2>2
<1>6. Stopped'
  <2> SUFFICES ASSUME NEW r \in replies, r.client \notin trouble \cup misled, "invalidate" \in msgs[r.client]
               PROVE  ~handle'[r.client].cacheable
    BY <1>1 DEF Stopped
  <2>1. r.client # c
    <3> SUFFICES ASSUME r.client = c PROVE FALSE
      OBVIOUS
    <3>1. Quiet(c)
      BY <1>4 DEF Believed, Granting
    <3> QED BY <3>1 DEF Quiet
  <2>2. r.client \in Clients
    BY PipeTypes
  <2>3. ~handle[r.client].cacheable
    BY DEF Believed, Stopped
  <2> QED BY <1>1, <2>1, <2>2, <2>3
<1> QED BY <1>3, <1>5, <1>6 DEF Believed

(* What workstations believe stays true through every step.                *)
LEMMA BelievedStep ==
    ASSUME ConsistAssumption, OneEach, TInv, TInv', CInv, CInv', [Next]_vars,
           Pipe, Versions, Believed
    PROVE  Believed'
<1>1. CASE UpdateList
  BY <1>1, BelievedUpdate
<1>2. ASSUME NEW p \in Procs, IoOpen(p) PROVE Believed'
  BY <1>2, BelievedInstall
<1>3. CASE ~UpdateList /\ \A p \in Procs : ~IoOpen(p)
  <2>1. ProcKept
    BY <1>3, KeptStep
  <2>2. CASE Calm
    BY <2>1, <2>2, BelievedCalm
  <2>3. CASE VisitClient \/ EndConsistency \/ \E p \in Procs : StartConsistency(p)
    BY <2>1, <2>3, BelievedWalk
  <2>4. ASSUME NEW c \in Clients, RpcConsist(c) PROVE Believed'
    BY <2>1, <2>4, BelievedRpc
  <2>5. ASSUME NEW j \in jobs, ProcessConsist(j) PROVE Believed'
    BY <2>1, <2>5, BelievedJob
  <2>6. ASSUME NEW r \in replies, ProcessConsistReply(r) PROVE Believed'
    BY <2>1, <2>6, BelievedReply
  <2> QED BY <1>3, <2>2, <2>3, <2>4, <2>5, <2>6, CalmStep
<1> QED BY <1>1, <1>2, <1>3

(* The invariant for sharing holds at the start.                           *)
LEMMA SharingInit ==
    ASSUME ConsistAssumption, Init
    PROVE  SharingInv
<1>1. CountInv
  BY TypesInit, CInvInit DEF CountInv
<1>2. /\ jobs = {} /\ replies = {} /\ action.phase = "none" /\ action.by = None /\ action.todo = {}
      /\ \A c \in Clients : msgs[c] = {} /\ entry[c].ref = 0 /\ entry[c].write = 0
                            /\ handle[c].version = 0
      /\ \A p \in Procs : pc[p] = "idle" /\ mode[p] = "none" /\ grant[p].version = 0
      /\ version = 1
  BY DEF Init, NoAction, NoEntry, NoHandle, NoGrant
<1>3. Pipe
  BY <1>2, NoneApart DEF Pipe, Unasked, Asked, Queued, Replied, Halves
<1>4. Sharing
  BY <1>2 DEF Sharing, Separated, Conflict, Unused, Alone, Told, ToTell, Walking
<1>5. Versions
  <2>1. WAhead = {}
    BY <1>2 DEF WAhead
  <2>2. Settled = 1
    BY <1>2, <2>1, FS_EmptySet DEF Settled
  <2> QED BY <1>2, <2>2 DEF Versions, Behind, Asking
<1>6. Believed
  BY <1>2 DEF Believed, Granting, Using, Stopped, Pre, Waits
<1> QED BY <1>1, <1>3, <1>4, <1>5, <1>6 DEF SharingInv

(* The invariant for sharing survives every step.                          *)
LEMMA SharingInvStep ==
    ASSUME ConsistAssumption, OneEach, SharingInv, [Next]_vars
    PROVE  SharingInv'
<1>1. TInv /\ MsgsTied /\ CInv /\ Pipe /\ Sharing /\ Behind /\ Asking /\ Versions /\ Believed
  BY DEF SharingInv, CountInv, Versions
<1>2. TInv' /\ MsgsTied' /\ CInv'
  BY <1>1, TypesStep, MsgsTiedStep, UsesStep
<1>3. Pipe'
  BY <1>1, <1>2, PipeStep
<1>4. Sharing'
  BY <1>1, <1>2, SharingStep
<1>5. Behind' /\ Asking'
  BY <1>1, <1>2, BehindStep, AskingStep
<1>6. Believed'
  BY <1>1, <1>2, BelievedStep
<1> QED BY <1>2, <1>3, <1>4, <1>5, <1>6 DEF SharingInv, CountInv, Versions

(* Files shared for writing are cached nowhere.                            *)
LEMMA SharingInvImplies ==
    ASSUME ConsistAssumption, OneEach, SharingInv
    PROVE  NoSharedCaching
<1> SUFFICES ASSUME NEW p \in Procs, NEW q \in Procs, IsOpen(p), IsOpen(q), mode[p] = "write",
                    Host[p] # Host[q], {Host[p], Host[q]} \cap (trouble \cup misled) = {}
             PROVE  ~handle[Host[p]].cacheable /\ ~handle[Host[q]].cacheable
  BY DEF NoSharedCaching
<1>1. TInv /\ CInv /\ Separated /\ Using
  BY DEF SharingInv, CountInv, Sharing, Believed
<1>2. /\ Host[p] \in Clients /\ Host[q] \in Clients
      /\ Host[p] \notin trouble \cup misled /\ Host[q] \notin trouble \cup misled
      /\ pc[p] = "open" /\ pc[q] = "open" /\ Holds(p) /\ Holds(q)
  BY HostType DEF IsOpen, Holds
<1>3. entry[Host[p]].ref = 1 /\ entry[Host[p]].write = 1 /\ entry[Host[q]].ref = 1
  BY <1>1, <1>2, OneHolder DEF One
<1>4. Conflict(Host[p], Host[q]) /\ Conflict(Host[q], Host[p])
  BY <1>3 DEF Conflict, Unused
<1>5. ASSUME NEW r \in Procs, pc[r] = "open", action.phase = "wait" PROVE Host[r] # Host[action.by]
  <2>1. PICK b \in Procs : b = action.by /\ pc[b] = "consist"
    BY <1>1, <1>5, ActionFacts
  <2> QED BY <1>5, <2>1 DEF OneEach
<1>6. ~entry[Host[p]].cached /\ ~entry[Host[q]].cached
  BY <1>1, <1>2, <1>4, <1>5 DEF Separated
<1> QED BY <1>1, <1>2, <1>6 DEF Using

(* Why sharing is safe: commands under way settle what an element of the   *)
(* client list says (Pipe), elements of a file used against a writer are   *)
(* told to stop caching (Sharing), no workstation gets ahead of the        *)
(* settled version, and what a workstation believes agrees with its        *)
(* element (Believed).  Under the hypothesis OneEach that one process of   *)
(* each workstation uses the file, which the code does not guarantee, and  *)
(* for workstations in neither trouble nor misled.                         *)
THEOREM SharingInvHolds == ASSUME OneEach PROVE Spec => []SharingInv
<1>1. Init => SharingInv
  BY SharingInit, ConsistAssumption
<1>2. SharingInv /\ [Next]_vars => SharingInv'
  BY SharingInvStep, ConsistAssumption
<1> QED BY <1>1, <1>2, PTL DEF Spec

(* A file open for writing on one workstation and open on another is       *)
(* cached on neither (StartConsistency, UpdateList, ProcessConsist, and    *)
(* the reply that installs an open), however commands, their execution,    *)
(* replies and closes overlap, when one process of each workstation uses   *)
(* the file: two of them race for the handle.                              *)
THEOREM NoSharedCachingHolds == ASSUME OneEach PROVE Spec => []NoSharedCaching
<1>1. SharingInv => NoSharedCaching
  BY SharingInvImplies, ConsistAssumption
<1> QED BY <1>1, SharingInvHolds, PTL

(* Only an install opens a file on a workstation.                          *)
LEMMA OpenStep ==
    ASSUME ConsistAssumption, TInv, [Next]_vars, \A p \in Procs : ~IoOpen(p), NEW q \in Procs, IsOpen(q)'
    PROVE  IsOpen(q)
<1>0. pc \in [Procs -> States] /\ pc'[q] = "open" /\ ("dead" \in Through) /\ ("open" \notin Through)
  BY DEF TInv, Shape, ProcShape, IsOpen, Through
<1>1. ASSUME NEW p \in Procs, ProcStep(p) PROVE pc[q] = "open"
  <2>1. CASE (\E m \in Modes : OpenSend(p, m)) \/ NameOpen(p) \/ StartConsistency(p) \/ OpenDone(p)
             \/ CloseSend(p)
    BY <1>0, <2>1 DEF OpenSend, NameOpen, StartConsistency, OpenDone, CloseSend
  <2>2. CASE ReadFill(p) \/ Write(p)
    BY <1>0, <2>2 DEF ReadFill, Write, procVars
  <2>3. CASE AbortOpen(p) \/ Close(p)
    <3>1. IdleOrDead(p) \in Through
      BY DEF IdleOrDead, Through
    <3> QED BY <1>0, <2>3, <3>1, FinishKeeps DEF AbortOpen, Close
  <2>4. CASE OpenReply(p)
    BY <1>0, <2>4, FinishKeeps DEF OpenReply
  <2> QED BY <1>1, <2>1, <2>2, <2>3, <2>4 DEF ProcStep
<1>2. ASSUME ActionStep PROVE pc[q] = "open"
  <2>1. CASE EndConsistency
    <3>1. EndFacts
      BY <2>1, EndEffect
    <3> QED BY <1>0, <2>1, <3>1 DEF EndConsistency
  <2> QED BY <1>0, <1>2, <2>1 DEF ActionStep, VisitClient, CommandTimeout, CommandDone, UpdateList,
          ConsistTimeoutIntr, ConsistTimeout, procVars
<1>3. ASSUME NEW c \in Clients, ClientStep(c) PROVE pc[q] = "open"
  <2>1. CASE RpcConsist(c) \/ CleanBlocks(c) \/ FileScavenge(c)
    BY <1>0, <2>1 DEF RpcConsist, CleanBlocks, FileScavenge, procVars
  <2>2. CASE Crash(c) \/ ClientKill(c)
    BY <1>0, <2>2, FinishKeeps DEF Crash, ClientKill
  <2> QED BY <1>3, <2>1, <2>2 DEF ClientStep
<1>4. ASSUME NEW j \in jobs, ProcessConsist(j) PROVE pc[q] = "open"
  BY <1>0, <1>4 DEF ProcessConsist, procVars
<1>5. ASSUME NEW r \in replies, ProcessConsistReply(r) PROVE pc[q] = "open"
  BY <1>0, <1>5 DEF ProcessConsistReply, procVars
<1>6. CASE NumClients \/ UNCHANGED vars
  BY <1>0, <1>6 DEF NumClients, vars, procVars, IsOpen
<1> QED BY <1>1, <1>2, <1>3, <1>4, <1>5, <1>6 DEF Next, IsOpen

(* Only an update or an install lets a process write into a cache.         *)
LEMMA MayWriteKept ==
    ASSUME ConsistAssumption, TInv, [Next]_vars, ~UpdateList, \A p \in Procs : ~IoOpen(p),
           NEW p \in Procs, MayWrite(p)'
    PROVE  MayWrite(p)
<1>1. ProcKept
  BY KeptStep
<1>2. pc'[p] \notin Through /\ mode'[p] = "write"
  BY DEF MayWrite, Pre, Waits, IsOpen, Through
<1>3. pc[p] # "idle"
  <2>1. Pre(p)' => Pre(p)
    BY <1>1 DEF ProcKept
  <2>2. IsOpen(p)' => IsOpen(p)
    BY OpenStep
  <2> QED BY <2>1, <2>2 DEF MayWrite, Pre, Waits, IsOpen
<1>4. mode[p] = "write"
  BY <1>2, <1>3, ModeStep
<1>5. CASE Pre(p)' /\ grant'[p].cacheable
  <2>1. Pre(p) /\ grant'[p].cacheable = grant[p].cacheable
    BY <1>1, <1>5 DEF ProcKept, SameGrant
  <2>2. grant[p].cacheable
    BY <1>5, <2>1, Zenon
  <2> QED BY <1>4, <2>1, <2>2 DEF MayWrite
<1>6. CASE IsOpen(p)' /\ handle'[Host[p]].cacheable
  <2>1. IsOpen(p)
    BY <1>6, OpenStep
  <2>2. handle'[Host[p]].cacheable \in {handle[Host[p]].cacheable, FALSE}
    BY <1>1, HostType DEF ProcKept
  <2>3. handle'[Host[p]].cacheable = handle[Host[p]].cacheable
    BY <1>6, <2>2
  <2>4. handle[Host[p]].cacheable
    BY <1>6, <2>3, Zenon
  <2> QED BY <1>4, <2>1, <2>4 DEF MayWrite
<1> QED BY <1>5, <1>6 DEF MayWrite

(* An install lets a process write into the cache only as granted.         *)
LEMMA MayWriteInstall ==
    ASSUME ConsistAssumption, OneEach, TInv, NEW p \in Procs, IoOpen(p), NEW q \in Procs, MayWrite(q)'
    PROVE  MayWrite(q)
<1>e. InstallFacts(p)
  BY InstallEffect
<1>1. mode'[q] = mode[q] /\ action' = action
  BY <1>e DEF InstallFacts, serverVars
<1>2. CASE q = p
  <2>1. Pre(p) /\ ~Pre(p)'
    BY <1>e DEF InstallFacts, Pre, Waits
  <2>2. handle'[Host[p]].cacheable
    BY <1>2, <2>1 DEF MayWrite
  <2>3. handle'[Host[p]].cacheable = grant[p].cacheable
    BY <1>e DEF InstallFacts
  <2>4. grant[p].cacheable
    BY <2>2, <2>3, Zenon
  <2> QED BY <1>1, <1>2, <2>1, <2>4 DEF MayWrite
<1>3. CASE q # p
  <2>1. Host[q] # Host[p] /\ Host[q] \in Clients
    BY <1>3, HostType DEF OneEach
  <2>2. pc'[q] = pc[q] /\ grant'[q] = grant[q] /\ handle'[Host[q]] = handle[Host[q]]
    BY <1>3, <1>e, <2>1 DEF InstallFacts
  <2>3. (grant'[q].cacheable => grant[q].cacheable) /\ (handle'[Host[q]].cacheable => handle[Host[q]].cacheable)
    BY <2>2, Zenon
  <2> QED BY <1>1, <2>2, <2>3 DEF MayWrite, Pre, Waits, IsOpen
<1> QED BY <1>2, <1>3

(* Only the update of the client list lets a process write into a cache.   *)
LEMMA MayWriteStep ==
    ASSUME ConsistAssumption, OneEach, TInv, [Next]_vars, ~UpdateList, NEW p \in Procs, MayWrite(p)'
    PROVE  MayWrite(p)
<1>1. ASSUME NEW q \in Procs, IoOpen(q) PROVE MayWrite(p)
  BY <1>1, MayWriteInstall
<1> QED BY <1>1, MayWriteKept

\* Only a write makes a block dirty.
LEMMA BlockStep ==
    ASSUME ConsistAssumption, TInv, [Next]_vars, \A p \in Procs : ~Write(p), NEW d \in Clients, Dirty(d)'
    PROVE  Dirty(d)
<1>0. NoHandle.block = "none" /\ handle'[d].block = "dirty"
  BY DEF NoHandle, Dirty
<1>1. ASSUME NEW p \in Procs, ProcStep(p) PROVE Dirty(d)
  <2>1. CASE IoOpen(p)
    BY <1>0, <2>1, InstallEffect DEF InstallFacts, Dirty
  <2>2. CASE ReadFill(p)
    BY <1>0, <2>2, FillEffect DEF FillFacts, Dirty
  <2>3. CASE ~IoOpen(p) /\ ~ReadFill(p)
    <3>1. handle' = handle
      BY <1>1, <2>3 DEF ProcStep, OpenSend, NameOpen, StartConsistency, AbortOpen, OpenReply,
              OpenDone, CloseSend, Close, clientVars
    <3> QED BY <1>0, <3>1 DEF Dirty
  <2> QED BY <2>1, <2>2, <2>3
<1>2. ASSUME ActionStep PROVE Dirty(d)
  <2>1. handle' = handle
    BY <1>2 DEF ActionStep, VisitClient, CommandTimeout, CommandDone, UpdateList, EndConsistency,
          ConsistTimeoutIntr, ConsistTimeout, clientVars
  <2> QED BY <1>0, <2>1 DEF Dirty
<1>3. ASSUME NEW c \in Clients, ClientStep(c) PROVE Dirty(d)
  <2>1. CASE RpcConsist(c) \/ ClientKill(c)
    BY <1>0, <2>1 DEF RpcConsist, ClientKill, clientVars, Dirty
  <2>2. CASE CleanBlocks(c)
    BY <1>0, <2>2, CleanEffect DEF CleanFacts, Dirty
  <2>3. CASE FileScavenge(c)
    BY <1>0, <2>3, ScavengeEffect DEF ScavengeFacts, Dirty
  <2>4. CASE Crash(c)
    BY <1>0, <2>4, CrashEffect DEF CrashFacts, Dirty
  <2> QED BY <1>3, <2>1, <2>2, <2>3, <2>4 DEF ClientStep
<1>4. ASSUME NEW j \in jobs, ProcessConsist(j) PROVE Dirty(d)
  <2>1. JobFacts(j)
    BY <1>4, JobEffect
  <2>2. handle' = handle \/ \E ok : ConsistedFacts(j.client, j.op, ok)
    BY <2>1 DEF JobFacts, DroppedJob, PlainJob, FlushedJob, FailedJob, Answered
  <2>3. ASSUME NEW ok, ConsistedFacts(j.client, j.op, ok) PROVE Dirty(d)
    BY <1>0, <2>3 DEF ConsistedFacts, Dirty
  <2> QED BY <1>0, <2>2, <2>3 DEF Dirty
<1>5. ASSUME NEW r \in replies, ProcessConsistReply(r) PROVE Dirty(d)
  BY <1>0, <1>5 DEF ProcessConsistReply, Dirty
<1>6. CASE NumClients \/ UNCHANGED vars
  BY <1>0, <1>6 DEF NumClients, vars, clientVars, Dirty
<1> QED BY <1>1, <1>2, <1>3, <1>4, <1>5, <1>6 DEF Next

(* A workstation comes to own dirty blocks only by the update of the list. *)
LEMMA DirtyableStep ==
    ASSUME ConsistAssumption, OneEach, TInv, [Next]_vars, ~UpdateList, NEW d \in Clients, Dirtyable(d)'
    PROVE  Dirtyable(d)
<1>1. ASSUME NEW p \in Procs, Host[p] = d, MayWrite(p)' PROVE Dirtyable(d)
  BY <1>1, MayWriteStep DEF Dirtyable
<1>2. ASSUME Dirty(d)' PROVE Dirtyable(d)
  <2>1. CASE \A p \in Procs : ~Write(p)
    BY <1>2, <2>1, BlockStep DEF Dirtyable
  <2>2. ASSUME NEW p \in Procs, Write(p) PROVE Dirtyable(d)
    <3>1. WriteFacts(p)
      BY <2>2, WriteEffect
    <3>2. CASE Host[p] # d \/ ~handle[d].cacheable
      <4>1. handle'[d] = handle[d]
        BY <3>1, <3>2 DEF WriteFacts
      <4> QED BY <1>2, <4>1 DEF Dirty, Dirtyable
    <3>3. CASE Host[p] = d /\ handle[d].cacheable
      BY <3>1, <3>3 DEF WriteFacts, MayWrite, IsOpen, Dirtyable
    <3> QED BY <3>2, <3>3
  <2> QED BY <2>1, <2>2
<1> QED BY <1>1, <1>2 DEF Dirtyable

(* A process that may write into a cache is a counted writer.              *)
LEMMA WriterHolds ==
    ASSUME NEW p \in Procs, MayWrite(p)
    PROVE  Holds(p) /\ mode[p] = "write" /\ pc[p] # "closing"
BY DEF MayWrite, Pre, Waits, IsOpen, Holds

(* It is the only use its element counts.                                  *)
LEMMA WriterCounted ==
    ASSUME ConsistAssumption, OneEach, TInv, CInv, NEW p \in Procs, MayWrite(p), Host[p] \notin trouble
    PROVE  entry[Host[p]].ref = 1 /\ entry[Host[p]].write = 1 /\ ~Unused(Host[p])
<1>1. entry[Host[p]].ref = 1 /\ entry[Host[p]].write = 1
  BY WriterHolds, OneHolder DEF One
<1> QED BY <1>1 DEF Unused

\* An unused workstation without dirty blocks owns none and will own none.
LEMMA NotDirtyable ==
    ASSUME ConsistAssumption, OneEach, TInv, CInv, [Next]_vars, ~UpdateList,
           NEW d \in Clients, d \notin trouble, entry[d].ref = 0, ~Dirty(d)'
    PROVE  ~Dirtyable(d)'
<1> SUFFICES ASSUME NEW p \in Procs, Host[p] = d, MayWrite(p)' PROVE FALSE
  BY DEF Dirtyable
<1>1. MayWrite(p)
  BY MayWriteStep
<1> QED BY <1>1, WriterCounted

(* A last writer that owns blocks is not forgotten by DeleteLastWriter.    *)
LEMMA LastDeleted ==
    ASSUME ConsistAssumption, OneEach, TInv, CInv, [Next]_vars, ~UpdateList,
           NEW c \in Clients, DeleteFacts(c), ~Dirty(c)',
           NEW d \in Clients \ trouble, Dirtyable(d)', lastWriter = d
    PROVE  entry' = entry /\ lastWriter' = lastWriter
<1> SUFFICES ASSUME entry[c].ref = 0, lastWriter = c PROVE FALSE
  BY DEF DeleteFacts
<1> QED BY NotDirtyable

(* A last writer that owns blocks survives the closes of others and its    *)
(* own.                                                                    *)
LEMMA LastClosed ==
    ASSUME ConsistAssumption, OneEach, TInv, Exclusive, CleanClose, [Next]_vars,
           NEW p \in Procs, Close(p),
           NEW d \in Clients \ trouble, Dirtyable(d)', lastWriter = d, entry[d].cached
    PROVE  lastWriter' = d /\ entry'[d].cached
<1>e. CloseFacts(p)
  BY CloseEffect
<1> DEFINE c == Host[p]
<1>0. ~UpdateList /\ Dirtyable(d) /\ c \in Clients
  <2>1. ~UpdateList
    BY <1>e DEF CloseFacts, UpdateList
  <2> QED BY <1>e, <2>1, DirtyableStep DEF CloseFacts
<1>1. CASE ~entry[c].listed
  BY <1>e, <1>1, Zenon DEF CloseFacts
<1>2. CASE entry[c].listed
  <2>1. /\ entry[c].ref > 0
        /\ lastWriter' = ResetLastWriter(grant[p].cacheable)
        /\ \/ ~(lastWriter = c /\ entry[c].cached)
           \/ entry'[c].cached = entry[c].cached
        /\ \A x \in Clients \ {c} : entry'[x] = entry[x]
        /\ handle' = handle
    BY <1>e, <1>2 DEF CloseFacts, clientVars
  <2>2. CASE d # c
    <3>1. Unused(c)
      <4>1. Unused(c) \/ (action.phase = "wait" /\ c = Host[action.by])
        BY <1>0, <2>2 DEF Exclusive
      <4>2. SUFFICES ASSUME action.phase = "wait", c = Host[action.by] PROVE FALSE
        BY <4>1
      <4>3. PICK b \in Procs : b = action.by /\ pc[b] = "consist"
        BY <4>2, ActionFacts
      <4>4. b # p
        BY <1>e, <4>3 DEF CloseFacts
      <4> QED BY <4>2, <4>3, <4>4 DEF OneEach
    <3> QED BY <2>1, <3>1 DEF Unused
  <2>3. CASE d = c
    <3>1. ~grant[p].cacheable
      <4> SUFFICES ASSUME grant[p].cacheable PROVE FALSE
        OBVIOUS
      <4>1. ~Dirty(c)
        BY <1>e, <2>3 DEF CleanClose, CloseFacts
      <4>2. ~Dirty(c)'
        BY <2>1, <4>1 DEF Dirty
      <4>3. PICK q \in Procs : Host[q] = c /\ MayWrite(q)'
        BY <2>3, <4>2 DEF Dirtyable
      <4>4. MayWrite(q)
        BY <1>0, <4>3, MayWriteStep
      <4>5. q # p
        BY <1>e, <4>4, WriterHolds DEF CloseFacts
      <4> QED BY <4>3, <4>5 DEF OneEach
    <3>2. lastWriter' = d
      BY <2>1, <3>1 DEF ResetLastWriter
    <3>3. entry'[d].cached
      BY <2>1, <2>3, Zenon
    <3> QED BY <3>2, <3>3
  <2> QED BY <2>2, <2>3
<1> QED BY <1>1, <1>2

\* The last writer of a file is forgotten when its blocks have come back.
LEMMA LastKept ==
    ASSUME ConsistAssumption, OneEach, TInv, CInv, Exclusive, CleanClose, [Next]_vars, ~UpdateList,
           \A r \in replies : ~ProcessConsistReply(r), trouble \subseteq trouble',
           NEW d \in Clients \ trouble', Dirtyable(d)', lastWriter = d, entry[d].cached
    PROVE  lastWriter' = d /\ entry'[d].cached
<1>0. d \in Clients \ trouble
  OBVIOUS
<1>s. ASSUME UNCHANGED <<entry, lastWriter>> PROVE lastWriter' = d /\ entry'[d].cached
  BY <1>s, Zenon
<1>k. ASSUME NEW c \in Clients, entry' = IOClientKill(c), d # c PROVE entry'[d].cached
  <2>1. entry'[d] = entry[d]
    BY <1>k, KillEffect
  <2> QED BY <2>1, Zenon
<1>1. ASSUME NEW p \in Procs, ProcStep(p) PROVE lastWriter' = d /\ entry'[d].cached
  <2>1. CASE AbortOpen(p)
    <3>1. AbortFacts(p) /\ Host[p] \in Clients
      BY <2>1, AbortEffect, HostType
    <3>2. d # Host[p]
      BY <3>1 DEF AbortFacts
    <3> QED BY <1>k, <3>1, <3>2 DEF AbortFacts
  <2>2. CASE Close(p)
    BY <1>0, <2>2, LastClosed
  <2>3. CASE ~AbortOpen(p) /\ ~Close(p)
    <3>1. UNCHANGED <<entry, lastWriter>>
      BY <1>1, <2>3 DEF ProcStep, OpenSend, NameOpen, StartConsistency, OpenReply, OpenDone, IoOpen,
              ReadFill, Write, CloseSend, serverVars
    <3> QED BY SMTT(60), <1>s, <3>1
  <2> QED BY <2>1, <2>2, <2>3
<1>2. ASSUME ActionStep PROVE lastWriter' = d /\ entry'[d].cached
  <2>1. CASE CommandDone
    <3>1. DoneFacts
      BY <2>1, CommandDoneEffect
    <3>2. CASE cmd.answer = "ok"
      BY <1>s, <3>1, <3>2 DEF DoneFacts
    <3>3. CASE cmd.answer # "ok"
      <4>1. d # cmd.client
        BY <3>1, <3>3 DEF DoneFacts
      <4> QED BY <1>k, <3>1, <3>3, <4>1 DEF DoneFacts
    <3> QED BY <3>2, <3>3
  <2>2. CASE ConsistTimeout
    <3>1. TimeoutFacts
      BY <2>2, TimeoutEffect
    <3>2. d \notin SlowOnes
      BY <3>1 DEF TimeoutFacts
    <3>3. entry'[d] = entry[d] /\ lastWriter' = d
      BY <3>1, <3>2 DEF TimeoutFacts
    <3> QED BY <3>3, Zenon
  <2>3. CASE ~CommandDone /\ ~ConsistTimeout
    <3>1. UNCHANGED <<entry, lastWriter>>
      BY <1>2, <2>3 DEF ActionStep, VisitClient, CommandTimeout, EndConsistency, ConsistTimeoutIntr
    <3> QED BY <1>s, <3>1
  <2> QED BY <2>1, <2>2, <2>3
<1>3. ASSUME NEW c \in Clients, ClientStep(c) PROVE lastWriter' = d /\ entry'[d].cached
  <2>1. CASE CleanBlocks(c)
    <3>1. CleanFacts(c)
      BY <2>1, CleanEffect
    <3>2. DeleteFacts(c) /\ ~Dirty(c)'
      BY <3>1 DEF CleanFacts, Dirty
    <3>3. entry' = entry /\ lastWriter' = lastWriter
      BY <1>0, <3>2, LastDeleted
    <3> QED BY <1>s, <3>3
  <2>2. CASE ClientKill(c)
    <3>1. ~up[c] /\ entry' = IOClientKill(c) /\ lastWriter' = lastWriter
      BY <2>2 DEF ClientKill
    <3>2. c # d
      BY <1>0, <3>1 DEF CInv, CrashNoted
    <3> QED BY <1>k, <3>1, <3>2
  <2>3. CASE ~CleanBlocks(c) /\ ~ClientKill(c)
    <3>1. UNCHANGED <<entry, lastWriter>>
      BY <1>3, <2>3 DEF ClientStep, RpcConsist, FileScavenge, Crash, serverVars
    <3> QED BY <1>s, <3>1
  <2> QED BY <2>1, <2>2, <2>3
<1>4. ASSUME NEW j \in jobs, ProcessConsist(j) PROVE lastWriter' = d /\ entry'[d].cached
  <2>1. JobFacts(j)
    BY <1>4, JobEffect
  <2>2. CASE FlushedJob(j)
    <3>1. DeleteFacts(j.client) /\ j.client \in Clients
      BY <2>1, <2>2 DEF FlushedJob, JobFacts
    <3>2. ~Dirty(j.client)'
      BY <2>2 DEF FlushedJob, Answered, ConsistedFacts, Dirty, Flushes
    <3>3. entry' = entry /\ lastWriter' = lastWriter
      BY <1>0, <3>1, <3>2, LastDeleted
    <3> QED BY <1>s, <3>3
  <2>3. CASE ~FlushedJob(j)
    <3>1. UNCHANGED <<entry, lastWriter>>
      BY <2>1, <2>3 DEF JobFacts, DroppedJob, PlainJob, FailedJob
    <3> QED BY <1>s, <3>1
  <2> QED BY <2>2, <2>3
<1>5. CASE NumClients
  <2>1. ForgottenFacts
    BY <1>5, NumClientsEffect
  <2>2. entry'[d] = entry[d] /\ lastWriter' = d
    BY <2>1 DEF ForgottenFacts
  <2> QED BY <2>2, Zenon
<1>6. CASE UNCHANGED vars
  <2>1. UNCHANGED <<entry, lastWriter>>
    BY <1>6 DEF vars, serverVars
  <2> QED BY <1>s, <2>1
<1> QED BY <1>1, <1>2, <1>3, <1>4, <1>5, <1>6 DEF Next

\* While the walk has the monitor only kills of crashed clients change the list.
LEMMA VisitQuiet ==
    ASSUME ConsistAssumption, TInv, CInv, [Next]_vars, ~UpdateList, action.phase = "visit",
           NEW d \in Clients \ trouble'
    PROVE  entry'[d] = entry[d]
<1>0. MonitorHeld /\ action # NoAction
  BY DEF MonitorHeld, NoAction
<1>1. ASSUME NEW p \in Procs, ProcStep(p) PROVE entry' = entry
  BY <1>0, <1>1 DEF ProcStep, OpenSend, NameOpen, StartConsistency, AbortOpen, OpenReply, OpenDone, IoOpen,
              ReadFill, Write, CloseSend, Close, serverVars
<1>2. ASSUME ActionStep PROVE entry' = entry
  BY <1>0, <1>2 DEF ActionStep, VisitClient, CommandTimeout, CommandDone, EndConsistency, ConsistTimeoutIntr,
              ConsistTimeout
<1>3. ASSUME NEW c \in Clients, ClientStep(c) PROVE entry'[d] = entry[d]
  <2>1. CASE ClientKill(c)
    <3>1. ~up[c] /\ entry' = IOClientKill(c) /\ trouble' = trouble
      BY <2>1 DEF ClientKill, history
    <3>2. c # d
      BY <3>1 DEF CInv, CrashNoted
    <3> QED BY <3>1, <3>2, KillEffect
  <2>2. CASE ~ClientKill(c)
    BY <1>0, <1>3, <2>2 DEF ClientStep, RpcConsist, CleanBlocks, FileScavenge, Crash, serverVars
  <2> QED BY <2>1, <2>2
<1>4. ASSUME NEW j \in jobs, ProcessConsist(j) PROVE entry' = entry
  BY <1>0, <1>4 DEF ProcessConsist
<1>5. ASSUME NEW r \in replies, ProcessConsistReply(r) PROVE entry' = entry
  BY <1>0, <1>5 DEF ProcessConsistReply
<1>6. CASE NumClients \/ UNCHANGED vars
  BY <1>0, <1>6 DEF NumClients, InProgress, vars, serverVars
<1> QED BY <1>1, <1>2, <1>3, <1>4, <1>5, <1>6 DEF Next

\* A workstation writes only with its own open.
LEMMA OwnDirtyKept ==
    ASSUME ConsistAssumption, OneEach, TInv, [Next]_vars,
           NEW q \in Procs, pc[q] # "open" \/ pc'[q] # "open", Dirty(Host[q])'
    PROVE  Dirty(Host[q])
<1>0. Host[q] \in Clients
  BY HostType
<1>1. CASE \A p \in Procs : ~Write(p)
  BY <1>0, <1>1, BlockStep
<1>2. ASSUME NEW p \in Procs, Write(p) PROVE Dirty(Host[q])
  <2>1. WriteFacts(p)
    BY <1>2, WriteEffect
  <2>2. p # q
    BY <2>1 DEF WriteFacts, procVars
  <2>3. handle'[Host[q]] = handle[Host[q]]
    BY <1>0, <2>1, <2>2 DEF WriteFacts, OneEach
  <2> QED BY <2>3 DEF Dirty
<1> QED BY <1>1, <1>2

(* Only a close that finds no dirty block says so (FS_LAST_DIRTY_BLOCK).   *)
LEMMA ClosingStep ==
    ASSUME ConsistAssumption, TInv, [Next]_vars, NEW q \in Procs, ClosesClean(q)', ~CloseSend(q)
    PROVE  ClosesClean(q)
<1>0. /\ pc \in [Procs -> States] /\ pc'[q] = "closing" /\ "dead" \in Through /\ "closing" \notin Through
      /\ grant \in [Procs -> [cacheable : BOOLEAN, stamp : Nat, version : Nat]]
  BY DEF TInv, Shape, ProcShape, ClosesClean, Through
<1>s. ASSUME pc'[q] = pc[q], grant'[q] = grant[q] PROVE ClosesClean(q)
  <2>1. grant[q].cacheable
    BY <1>s, Zenon DEF ClosesClean
  <2> QED BY <1>0, <1>s, <2>1 DEF ClosesClean
<1>1. ASSUME NEW p \in Procs, ProcStep(p) PROVE ClosesClean(q)
  <2>1. CASE (\E m \in Modes : OpenSend(p, m)) \/ NameOpen(p) \/ StartConsistency(p) \/ OpenDone(p)
    <3>1. pc'[q] = pc[q] /\ grant'[q] = grant[q]
      BY <1>0, <2>1 DEF OpenSend, NameOpen, StartConsistency, OpenDone
    <3> QED BY <1>s, <3>1
  <2>2. CASE ReadFill(p) \/ Write(p)
    <3>1. pc'[q] = pc[q] /\ grant'[q] = grant[q]
      BY <2>2 DEF ReadFill, Write, procVars
    <3> QED BY <1>s, <3>1
  <2>3. CASE AbortOpen(p) \/ Close(p)
    <3>1. IdleOrDead(p) \in Through
      BY DEF IdleOrDead, Through
    <3>2. pc'[q] = pc[q] /\ grant'[q] = grant[q]
      BY <1>0, <2>3, <3>1, FinishKeeps DEF AbortOpen, Close
    <3> QED BY <1>s, <3>2
  <2>4. CASE OpenReply(p)
    <3>1. pc'[q] = pc[q] /\ grant'[q] = grant[q]
      <4>1. CASE up[Host[p]]
        BY <1>0, <2>4, <4>1 DEF OpenReply
      <4>2. CASE ~up[Host[p]]
        BY <1>0, <2>4, <4>2, FinishKeeps DEF OpenReply
      <4> QED BY <4>1, <4>2
    <3> QED BY <1>s, <3>1
  <2>5. CASE IoOpen(p)
    <3>1. pc'[q] = pc[q] /\ grant'[q] = grant[q]
      BY <1>0, <2>5, InstallEffect DEF InstallFacts
    <3> QED BY <1>s, <3>1
  <2>6. CASE CloseSend(p)
    <3>1. pc'[q] = pc[q] /\ grant'[q] = grant[q]
      BY <1>0, <2>6 DEF CloseSend
    <3> QED BY <1>s, <3>1
  <2> QED BY <1>1, <2>1, <2>2, <2>3, <2>4, <2>5, <2>6 DEF ProcStep
<1>2. ASSUME ActionStep PROVE ClosesClean(q)
  <2>1. CASE EndConsistency
    <3>1. pc'[q] = pc[q] /\ grant'[q] = grant[q]
      BY <1>0, <2>1 DEF EndConsistency
    <3> QED BY <1>s, <3>1
  <2>2. CASE UpdateList
    <3>1. UpdateFacts
      BY <2>2, UpdateEffect
    <3>2. pc'[q] = pc[q] /\ q # action.by
      BY <1>0, <3>1 DEF UpdateFacts
    <3>3. grant'[q] = grant[q]
      BY <3>1, <3>2 DEF UpdateFacts
    <3> QED BY <1>s, <3>2, <3>3
  <2>3. CASE ~EndConsistency /\ ~UpdateList
    <3>1. pc'[q] = pc[q] /\ grant'[q] = grant[q]
      BY <1>2, <2>3 DEF ActionStep, VisitClient, CommandTimeout, CommandDone,
          ConsistTimeoutIntr, ConsistTimeout, procVars
    <3> QED BY <1>s, <3>1
  <2> QED BY <2>1, <2>2, <2>3
<1>3. ASSUME NEW c \in Clients, ClientStep(c) PROVE ClosesClean(q)
  <2>1. pc'[q] = pc[q] /\ grant'[q] = grant[q]
    <3>1. CASE RpcConsist(c) \/ CleanBlocks(c) \/ FileScavenge(c)
      BY <3>1 DEF RpcConsist, CleanBlocks, FileScavenge, procVars
    <3>2. CASE Crash(c) \/ ClientKill(c)
      BY <1>0, <3>2, FinishKeeps DEF Crash, ClientKill
    <3> QED BY <1>3, <3>1, <3>2 DEF ClientStep
  <2> QED BY <1>s, <2>1
<1>4. CASE (\E j \in jobs : ProcessConsist(j)) \/ (\E r \in replies : ProcessConsistReply(r))
           \/ NumClients \/ UNCHANGED vars
  <2>1. pc'[q] = pc[q] /\ grant'[q] = grant[q]
    BY <1>4 DEF ProcessConsist, ProcessConsistReply, NumClients, vars, procVars
  <2> QED BY <1>s, <2>1
<1> QED BY <1>1, <1>2, <1>3, <1>4 DEF Next

(* A close that says no dirty block is left goes on telling the truth.     *)
LEMMA CleanCloseStep ==
    ASSUME ConsistAssumption, OneEach, TInv, CleanClose, [Next]_vars, trouble \subseteq trouble'
    PROVE  CleanClose'
<1> SUFFICES ASSUME NEW q \in Procs, pc'[q] = "closing", Host[q] \notin trouble', grant'[q].cacheable,
                    Dirty(Host[q])'
             PROVE  FALSE
  BY DEF CleanClose
<1>1. Dirty(Host[q])
  BY OwnDirtyKept
<1>2. CASE CloseSend(q)
  <2>1. grant \in [Procs -> [cacheable : BOOLEAN, stamp : Nat, version : Nat]]
    BY DEF TInv, Shape, ProcShape
  <2>2. PICK last \in BOOLEAN : grant' = [grant EXCEPT ![q].cacheable =
                        last /\ handle[Host[q]].cacheable /\ handle[Host[q]].block # "dirty"]
    BY <1>2 DEF CloseSend
  <2>3. grant'[q].cacheable = (last /\ handle[Host[q]].cacheable /\ handle[Host[q]].block # "dirty")
    BY <2>1, <2>2
  <2> QED BY <1>1, <2>3 DEF Dirty
<1>3. CASE ~CloseSend(q)
  <2>1. ClosesClean(q)
    BY <1>3, ClosingStep DEF ClosesClean
  <2> QED BY <1>1, <2>1 DEF CleanClose, ClosesClean
<1> QED BY <1>2, <1>3

(* Owners of dirty blocks stay known when the list is calm.                *)
LEMMA OwnedList ==
    ASSUME ConsistAssumption, OneEach, TInv, TInv', CInv, Owned, [Next]_vars, CalmList, ~UpdateList,
           \A r \in replies : ~ProcessConsistReply(r), NewReplies
    PROVE  Owned'
<1>1. /\ trouble \subseteq trouble' /\ action'.by = action.by /\ action'.todo = action.todo
      /\ action'.cacheable = action.cacheable
      /\ \A c \in Clients \ trouble' : c \in Clients \ trouble /\ msgs'[c] = msgs[c]
      /\ action'.phase = action.phase \/ (action.phase = "command" /\ action'.phase = "visit")
      /\ Walking' => Walking
  BY DEF CalmList, Walking
<1>c. action'.cacheable <=> action.cacheable
  BY <1>1, Zenon
<1>2. \A d \in Clients : Dirtyable(d)' => Dirtyable(d)
  BY DirtyableStep
<1>3. Remembered'
  <2> SUFFICES ASSUME NEW d \in Clients \ trouble', Dirtyable(d)'
               PROVE  (lastWriter' = d /\ entry'[d].cached) \/ "writeBack" \in msgs'[d]
    BY DEF Remembered
  <2>1. CASE lastWriter = d /\ entry[d].cached
    BY <1>1, <2>1, LastKept DEF Owned
  <2>2. CASE "writeBack" \in msgs[d]
    BY <1>1, <2>2
  <2> QED BY <1>1, <1>2, <2>1, <2>2 DEF Owned, Remembered
<1>4. Exclusive'
  <2> SUFFICES ASSUME NEW d \in Clients \ trouble', Dirtyable(d)', NEW c \in Clients \ {d}, ~Unused(c)'
               PROVE  msgs'[d] # {} /\ action'.phase = "wait" /\ c = Host[action'.by]
    BY DEF Exclusive
  <2>1. ~Unused(c) /\ Dirtyable(d)
    BY <1>2, ShrinksUses DEF CalmList
  <2>2. msgs[d] # {} /\ action.phase = "wait" /\ c = Host[action.by]
    BY <1>1, <2>1 DEF Owned, Exclusive
  <2> QED BY <1>1, <2>2
<1>5. Recalled'
  <2> SUFFICES ASSUME Walking', NEW d \in Clients \ (trouble' \cup action'.todo \cup {Host[action'.by]}),
                      Dirtyable(d)'
               PROVE  msgs'[d] # {} /\ (action'.cacheable => "writeBack" \in msgs'[d])
    BY DEF Recalled
  <2>1. msgs[d] # {} /\ (action.cacheable => "writeBack" \in msgs[d])
    BY <1>1, <1>2 DEF Owned, Recalled
  <2> QED BY <1>1, <1>c, <2>1
<1>6. OwnBlocks'
  <2>1. CASE ~Walking'
    BY <2>1 DEF OwnBlocks
  <2>2. CASE Walking'
    <3>1. PICK q \in Procs : q = action.by /\ pc[q] = "consist"
      BY <1>1, <2>2, ActionFacts DEF Walking
    <3>2. q = action'.by
      BY <1>1, <3>1
    <3> SUFFICES ASSUME Host[q] \notin trouble', Dirty(Host[q])' PROVE action'.cacheable
      BY <3>2 DEF OwnBlocks
    <3>3. Dirty(Host[q])
      BY <3>1, OwnDirtyKept
    <3>4. action.cacheable
      BY <1>1, <2>2, <3>1, <3>3 DEF Owned, OwnBlocks
    <3> QED BY <1>c, <3>4
  <2> QED BY <2>1, <2>2
<1>7. ToRecall'
  <2> SUFFICES ASSUME Walking', ~action'.cacheable, NEW d \in action'.todo \ trouble', Dirtyable(d)'
               PROVE  action'.phase = "visit" /\ ~Unused(d)'
    BY DEF ToRecall
  <2>1. d \in action.todo \ trouble /\ d \in Clients \ trouble'
    BY <1>1, ActionFacts
  <2>2. action.phase = "visit" /\ ~Unused(d)
    BY <1>1, <1>2, <1>c, <2>1 DEF Owned, ToRecall
  <2>3. entry'[d] = entry[d]
    BY <2>1, <2>2, VisitQuiet
  <2> QED BY <1>1, <2>2, <2>3 DEF Unused
<1>8. GivenBack'
  <2> SUFFICES ASSUME NEW r \in replies', r.client \notin trouble' PROVE ~Dirtyable(r.client)'
    BY DEF GivenBack
  <2>1. CASE r \in replies
    <3>1. r.client \in Clients /\ r.client \notin trouble
      BY <1>1, <2>1, PipeTypes
    <3> QED BY <1>2, <2>1, <3>1 DEF Owned, GivenBack
  <2>2. CASE r \notin replies
    BY <2>2 DEF NewReplies
  <2> QED BY <2>1, <2>2
<1>9. CleanClose'
  BY <1>1, CleanCloseStep DEF Owned
<1> QED BY <1>3, <1>4, <1>5, <1>6, <1>7, <1>8, <1>9 DEF Owned

\* A workstation that answers a command to write back or to stop caching owns
\* no dirty blocks any more.
LEMMA JobGives ==
    ASSUME ConsistAssumption, OneEach, TInv, CInv, Pipe, Granting, Owned, [Next]_vars,
           NEW j \in jobs, ProcessConsist(j)
    PROVE  NewReplies
<1>e. JobFacts(j)
  BY JobEffect
<1> DEFINE c == j.client
<1>1. c \in Clients /\ UNCHANGED <<pc, mode, msgs, action>> /\ trouble \subseteq trouble' /\ j.op \subseteq Commands
  BY <1>e DEF JobFacts, procVars
<1> SUFFICES ASSUME NEW r \in replies' \ replies, r.client \notin trouble', Dirtyable(r.client)' PROVE FALSE
  BY DEF NewReplies
<1>2. r.client = c /\ c \notin trouble
  BY <1>e, <1>1, JobReplies
<1>3. j.op = msgs[c] /\ j.op # {}
  BY <1>2 DEF Pipe, Queued
<1>4. ~DroppedJob(j) /\ ~FailedJob(j)
  <2>1. ~DroppedJob(j)
    BY DEF DroppedJob
  <2>2. SUFFICES ASSUME FailedJob(j) PROVE FALSE
    BY <2>1
  <2>3. handle'[c].block = "dirty" /\ Flushes(j)
    BY <2>2 DEF FailedJob, Answered, ConsistedFacts, Flushes
  <2> QED BY <1>e, <1>2, <2>3 DEF JobFacts
<1>5. ConsistedFacts(c, j.op, TRUE)
  BY <1>e, <1>4 DEF JobFacts, PlainJob, FlushedJob, Answered
<1>6. ~Dirty(c)'
  <2>1. CASE "writeBack" \in j.op
    BY <1>5, <2>1 DEF ConsistedFacts, Dirty
  <2>2. CASE "writeBack" \notin j.op
    <3>1. "invalidate" \in j.op
      BY <1>1, <1>3, <2>2 DEF Commands
    <3> QED BY <1>5, <3>1 DEF ConsistedFacts, Dirty
  <2> QED BY <2>1, <2>2
<1>7. PICK p \in Procs : Host[p] = c /\ MayWrite(p)'
  BY <1>2, <1>6 DEF Dirtyable
<1>8. MayWrite(p)
  <2>1. ~MonitorHeld
    BY <1>e DEF JobFacts
  <2>2. ~UpdateList
    BY <2>1 DEF UpdateList
  <2> QED BY <1>7, <2>2, MayWriteStep
<1>9. ~Pre(p)
  <2> SUFFICES ASSUME Pre(p) PROVE FALSE
    OBVIOUS
  <2>1. Quiet(c)
    BY <1>2, <1>7, <1>8 DEF Granting, MayWrite
  <2> QED BY <2>1 DEF Quiet
<1>10. IsOpen(p) /\ handle'[c].cacheable
  <2>1. ~Pre(p)'
    BY <1>1, <1>9, KeptStep DEF Pre, Waits
  <2> QED BY <1>7, <1>8, <1>9, <2>1 DEF MayWrite
<1>11. "invalidate" \notin j.op
  BY <1>5, <1>10 DEF ConsistedFacts
<1>12. j.op = {"writeBack"}
  BY <1>1, <1>3, <1>11 DEF Commands
<1>13. entry[c].write = 0
  BY <1>1, <1>2, <1>3, <1>12 DEF Pipe, Halves
<1>14. entry[c].write = 1
  BY <1>2, <1>7, <1>8, WriterCounted
<1> QED BY <1>13, <1>14

(* A client that caches is on the list.                                    *)
LEMMA NotListed ==
    ASSUME TInv, NEW d \in Clients, entry[d].cached
    PROVE  entry[d].listed
<1> SUFFICES ASSUME ~entry[d].listed PROVE FALSE
  OBVIOUS
<1>1. entry[d] = NoEntry /\ NoEntry.cached = FALSE
  BY EntryFacts
<1>2. entry[d].cached = FALSE
  BY <1>1
<1> QED BY <1>2

(* Owners of dirty blocks stay known through starting a consistency        *)
(* action.                                                                 *)
LEMMA OwnedStart ==
    ASSUME ConsistAssumption, OneEach, TInv, MsgsTied, Owned, [Next]_vars,
           NEW p \in Procs, StartConsistency(p)
    PROVE  Owned'
<1>e. StartFacts(p)
  BY StartEffect
<1> DEFINE o == Host[p]
<1>1. /\ UNCHANGED <<entry, msgs, lastWriter, trouble, handle, replies>>
      /\ action.phase = "none" /\ action'.by = p /\ action'.phase = "visit"
      /\ action'.todo = {c \in Clients \ {o} : entry[c].listed}
      /\ o \in Clients /\ \A c \in Clients : msgs[c] = {}
  BY <1>e, HostType DEF StartFacts, clientVars, history, MsgsTied
<1>c. action'.cacheable <=> Cacheable(p)
  BY <1>e, Zenon DEF StartFacts
<1>2. \A d \in Clients : Dirtyable(d)' => Dirtyable(d)
  <2>1. ~UpdateList
    BY <1>1 DEF UpdateList, MonitorHeld
  <2> QED BY <2>1, DirtyableStep
<1>3. \A d \in Clients \ trouble : Dirtyable(d) =>
          /\ lastWriter = d /\ entry[d].cached
          /\ \A c \in Clients \ {d} : Unused(c)
  BY <1>1 DEF Owned, Remembered, Exclusive
<1>4. Remembered'
  BY <1>1, <1>2, <1>3 DEF Remembered
<1>5. Exclusive'
  BY <1>1, <1>2, <1>3 DEF Exclusive, Unused
<1>6. Recalled'
  <2> SUFFICES ASSUME NEW d \in Clients, d \notin trouble, d \notin action'.todo, d # o, Dirtyable(d)'
               PROVE  FALSE
    BY <1>1 DEF Recalled
  <2>1. entry[d].cached
    BY <1>2, <1>3
  <2> QED BY <1>1, <2>1, NotListed
<1>7. OwnBlocks'
  <2> SUFFICES ASSUME o \notin trouble, Dirty(o) PROVE Cacheable(p)
    BY <1>1, <1>c DEF OwnBlocks, Dirty
  <2>1. \A c \in Clients \ {o} : Unused(c)
    BY <1>1, <1>3 DEF Dirtyable
  <2> QED BY <2>1 DEF Cacheable, Unused
<1>8. ToRecall'
  <2> SUFFICES ASSUME ~Cacheable(p), NEW d \in action'.todo \ trouble, Dirtyable(d)'
               PROVE  ~Unused(d)
    BY <1>1, <1>c DEF ToRecall, Unused
  <2>1. PICK c \in Clients \ {o} : ~Unused(c)
    BY DEF Cacheable, Unused
  <2>2. c = d
    BY <1>1, <1>2, <1>3, <2>1
  <2> QED BY <2>1, <2>2
<1>9. GivenBack'
  BY <1>1, <1>2, PipeTypes DEF Owned, GivenBack
<1>10. CleanClose'
  BY <1>1, CleanCloseStep DEF Owned
<1> QED BY <1>4, <1>5, <1>6, <1>7, <1>8, <1>9, <1>10 DEF Owned

(* The walk asks an owner of dirty blocks for them.                        *)
LEMMA AskedOwner ==
    ASSUME ConsistAssumption, TInv, Pipe, Owned, VisitClient,
           NEW c \in Clients \ trouble, c = action.next, Dirtyable(c)
    PROVE  CommandFor(c) # {} /\ (action.cacheable => "writeBack" \in CommandFor(c))
<1>1. action.phase = "visit" /\ c \in action.todo
  BY VisitEffect DEF VisitFacts
<1>2. msgs[c] = {}
  BY <1>1 DEF Pipe, Unasked
<1>3. lastWriter = c /\ entry[c].cached
  BY <1>2 DEF Owned, Remembered
<1>4. CASE action.cacheable
  BY <1>3, <1>4 DEF CommandFor
<1>5. CASE ~action.cacheable
  <2>1. ~Unused(c)
    BY <1>1, <1>5 DEF Owned, ToRecall, Walking
  <2>2. entry[c].ref \in Nat /\ entry[c].write \in Nat
    BY EntryFacts
  <2>3. entry[c].ref > 0 \/ entry[c].write > 0
    BY <2>1, <2>2 DEF Unused
  <2> QED BY <1>3, <1>5, <2>3 DEF CommandFor
<1> QED BY <1>4, <1>5

(* Owners of dirty blocks stay known through a turn of the walk over the   *)
(* client list.                                                            *)
LEMMA OwnedVisit ==
    ASSUME ConsistAssumption, OneEach, TInv, Pipe, Owned, [Next]_vars, VisitClient
    PROVE  Owned'
<1>e. VisitFacts
  BY VisitEffect
<1> DEFINE c == action.next
           op == CommandFor(c)
<1>1. /\ UNCHANGED <<entry, lastWriter, trouble, handle, replies>>
      /\ action.phase = "visit" /\ c \in Clients /\ c \in action.todo
      /\ action'.by = action.by /\ action'.todo = {d \in action.todo \ {c} : entry[d].listed}
      /\ action'.phase \in {"visit", "command"} /\ Walking
      /\ action.todo \subseteq Clients
  BY <1>e, ActionFacts DEF VisitFacts, clientVars, Walking
<1>c. action'.cacheable <=> action.cacheable
  BY <1>e, Zenon DEF VisitFacts
<1>2. /\ op = {} => action'.phase = "visit" /\ msgs' = msgs
      /\ op # {} => msgs'[c] = op /\ \A d \in Clients \ {c} : msgs'[d] = msgs[d]
  BY <1>e, <1>1, MsgsType DEF VisitFacts
<1>3. \A d \in Clients : Dirtyable(d)' => Dirtyable(d)
  <2>1. ~UpdateList
    BY <1>1, NoneApart DEF UpdateList
  <2> QED BY <2>1, DirtyableStep
<1>4. \A d \in action.todo : msgs[d] = {}
  BY <1>1 DEF Pipe, Unasked
<1>5. \A d \in Clients : "writeBack" \in msgs[d] => "writeBack" \in msgs'[d]
  BY <1>1, <1>2, <1>4
<1>6. Remembered'
  BY <1>1, <1>3, <1>5 DEF Owned, Remembered
<1>u. \A d \in Clients \ trouble : Dirtyable(d) => \A x \in Clients \ {d} : Unused(x)
  BY <1>1 DEF Owned, Exclusive
<1>7. Exclusive'
  BY <1>1, <1>3, <1>u DEF Exclusive, Unused
<1>8. Recalled'
  <2> SUFFICES ASSUME NEW d \in Clients, d \notin trouble, d \notin action'.todo, d # Host[action.by],
                      Dirtyable(d)
               PROVE  msgs'[d] # {} /\ (action.cacheable => "writeBack" \in msgs'[d])
    BY <1>1, <1>c, <1>3 DEF Recalled
  <2>1. CASE d = c
    <3>1. op # {} /\ (action.cacheable => "writeBack" \in op)
      BY <2>1, AskedOwner
    <3> QED BY <1>2, <2>1, <3>1
  <2>2. CASE d # c /\ d \in action.todo
    <3>1. entry[d].cached
      BY <1>4, <2>2 DEF Owned, Remembered
    <3> QED BY <1>1, <2>2, <3>1, NotListed
  <2>3. CASE d # c /\ d \notin action.todo
    <3>1. msgs[d] # {} /\ (action.cacheable => "writeBack" \in msgs[d])
      BY <1>1, <2>3 DEF Owned, Recalled
    <3> QED BY <1>2, <2>3, <3>1
  <2> QED BY <2>1, <2>2, <2>3
<1>9. OwnBlocks'
  <2>1. Host[action.by] \notin trouble /\ Dirty(Host[action.by]) => action.cacheable
    BY <1>1 DEF Owned, OwnBlocks
  <2> QED BY <1>1, <1>c, <2>1 DEF OwnBlocks, Dirty
<1>10. ToRecall'
  <2> SUFFICES ASSUME ~action.cacheable, NEW d \in action'.todo \ trouble, Dirtyable(d)
               PROVE  action'.phase = "visit" /\ ~Unused(d)
    BY <1>1, <1>c, <1>3 DEF ToRecall, Unused
  <2>1. d \in action.todo /\ d # c /\ d \in Clients
    BY <1>1
  <2>2. ~Unused(d)
    BY <1>1, <2>1 DEF Owned, ToRecall
  <2>3. Unused(c)
    BY <1>1, <1>u, <2>1
  <2>4. op = {}
    BY <2>3 DEF CommandFor, Unused
  <2> QED BY <1>2, <2>2, <2>4
<1>11. GivenBack'
  BY <1>1, <1>3, PipeTypes DEF Owned, GivenBack
<1>12. CleanClose'
  BY <1>1, CleanCloseStep DEF Owned
<1> QED BY <1>6, <1>7, <1>8, <1>9, <1>10, <1>11, <1>12 DEF Owned

(* Owners of dirty blocks stay known through the end of a consistency      *)
(* action.                                                                 *)
LEMMA OwnedEnd ==
    ASSUME ConsistAssumption, OneEach, TInv, Owned, [Next]_vars, EndConsistency
    PROVE  Owned'
<1>e. EndFacts
  BY EndEffect
<1>1. /\ UNCHANGED <<entry, msgs, lastWriter, trouble, handle, replies>>
      /\ action'.phase = "none" /\ \A c \in Clients : msgs[c] = {}
  BY <1>e DEF EndFacts, clientVars, history, NoAction
<1>2. \A d \in Clients : Dirtyable(d)' => Dirtyable(d)
  <2>1. ~UpdateList
    BY <1>e DEF EndFacts, UpdateList, MonitorHeld
  <2> QED BY <2>1, DirtyableStep
<1>3. Remembered'
  BY <1>1, <1>2 DEF Owned, Remembered
<1>4. Exclusive'
  BY <1>1, <1>2 DEF Owned, Exclusive, Unused
<1>5. Recalled' /\ OwnBlocks' /\ ToRecall'
  BY <1>1 DEF Recalled, OwnBlocks, ToRecall, Walking
<1>6. GivenBack'
  BY <1>1, <1>2, PipeTypes DEF Owned, GivenBack
<1>7. CleanClose'
  BY <1>1, CleanCloseStep DEF Owned
<1> QED BY <1>3, <1>4, <1>5, <1>6, <1>7 DEF Owned

(* The update of the list makes at most the opener an owner.               *)
LEMMA UpdateOwners ==
    ASSUME ConsistAssumption, OneEach, TInv, UpdateList, NEW d \in Clients, Dirtyable(d)'
    PROVE  IF d # Host[action.by] THEN Dirtyable(d)
           ELSE Dirty(d) \/ (mode[action.by] = "write" /\ action.cacheable)
<1>e. UpdateFacts
  BY UpdateEffect
<1>0. PICK p \in Procs : p = action.by
  BY <1>e DEF UpdateFacts
<1>1. /\ UNCHANGED <<pc, mode, handle>> /\ pc[p] = "consist"
      /\ \A q \in Procs \ {p} : grant'[q] = grant[q]
      /\ grant'[p].cacheable = action.cacheable
  BY <1>0, <1>e DEF UpdateFacts, clientVars
<1>2. CASE Dirty(d)'
  BY <1>1, <1>2 DEF Dirty, Dirtyable
<1>3. ASSUME NEW q \in Procs, Host[q] = d, MayWrite(q)'
      PROVE  IF d # Host[p] THEN MayWrite(q) ELSE mode[p] = "write" /\ action.cacheable
  <2>1. CASE q # p
    <3>1. d # Host[p] /\ pc[q] # "consist"
      BY <1>0, <1>3, <2>1 DEF OneEach, TInv, Structure, ActionTied
    <3>2. grant'[q] = grant[q] /\ handle' = handle
      BY <1>1, <2>1
    <3>3. (grant'[q].cacheable => grant[q].cacheable) /\ (handle'[d].cacheable => handle[d].cacheable)
      BY <3>2, Zenon
    <3> QED BY <1>1, <1>3, <3>1, <3>3 DEF MayWrite, Pre, Waits, IsOpen
  <2>2. CASE q = p
    <3>1. mode[p] = "write" /\ grant'[p].cacheable
      BY <1>1, <1>3, <2>2 DEF MayWrite, IsOpen
    <3>2. action.cacheable
      BY <1>1, <3>1, Zenon
    <3> QED BY <1>3, <2>2, <3>1, <3>2
  <2> QED BY <2>1, <2>2
<1> QED BY <1>0, <1>2, <1>3 DEF Dirtyable

(* Owners of dirty blocks stay known through listing the opener            *)
(* (UpdateList).                                                           *)
LEMMA OwnedUpdate ==
    ASSUME ConsistAssumption, OneEach, TInv, Pipe, Sharing, Owned, [Next]_vars, UpdateList
    PROVE  Owned'
<1>e. UpdateFacts
  BY UpdateEffect
<1>0. PICK p \in Procs : p = action.by
  BY <1>e DEF UpdateFacts
<1> DEFINE o == Host[p]
<1>1. /\ UNCHANGED <<msgs, mode, trouble, handle, replies>> /\ o \in Clients
      /\ action.phase = "visit" /\ action.todo = {} /\ Walking
      /\ action'.by = p /\ action'.phase = "wait"
      /\ \A d \in Clients \ {o} : entry'[d] = entry[d]
      /\ lastWriter' = (IF action.cacheable /\ mode[p] = "write" THEN o ELSE lastWriter)
  BY <1>0, <1>e DEF UpdateFacts, clientVars, history, Walking
<1>c. entry'[o].cached <=> action.cacheable
  BY <1>0, <1>e, Zenon DEF UpdateFacts
<1>2. msgs[o] = {}
  BY <1>0, <1>1, NoneApart DEF Pipe, Unasked
<1>3. \A d \in Clients \ {o} : Dirtyable(d)' => Dirtyable(d)
  BY <1>0, UpdateOwners
<1>4. Dirtyable(o)' => Dirty(o) \/ (mode[p] = "write" /\ action.cacheable)
  BY <1>0, <1>1, UpdateOwners
<1>5. \A d \in Clients \ (trouble \cup {o}) : Dirtyable(d) =>
         msgs[d] # {} /\ (action.cacheable => "writeBack" \in msgs[d])
  BY <1>0, <1>1 DEF Owned, Recalled
<1>6. \A d \in Clients \ trouble : Dirtyable(d) => \A x \in Clients \ {d} : Unused(x)
  BY <1>1 DEF Owned, Exclusive
<1>7. Remembered'
  <2> SUFFICES ASSUME NEW d \in Clients \ trouble, Dirtyable(d)'
               PROVE  (lastWriter' = d /\ entry'[d].cached) \/ "writeBack" \in msgs[d]
    BY <1>1 DEF Remembered
  <2>1. CASE d # o
    <3>1. Dirtyable(d) /\ d \in Clients \ (trouble \cup {o}) /\ entry'[d] = entry[d]
      BY <1>1, <1>3, <2>1
    <3>2. SUFFICES ASSUME "writeBack" \notin msgs[d] PROVE lastWriter' = d /\ entry'[d].cached
      OBVIOUS
    <3>3. lastWriter = d /\ entry[d].cached /\ ~action.cacheable
      BY <1>5, <3>1, <3>2 DEF Owned, Remembered
    <3>4. entry'[d].cached
      BY <3>1, <3>3, Zenon
    <3> QED BY <1>1, <3>3, <3>4
  <2>2. CASE d = o
    <3>1. action.cacheable
      <4>1. Dirty(o) => action.cacheable
        BY <1>0, <1>1, <2>2 DEF Owned, OwnBlocks
      <4> QED BY <1>4, <2>2, <4>1
    <3>2. entry'[o].cached
      BY <1>c, <3>1
    <3>3. CASE mode[p] = "write"
      BY <1>1, <2>2, <3>1, <3>2, <3>3
    <3>4. CASE mode[p] # "write"
      <4>1. Dirtyable(o)
        BY <1>4, <2>2, <3>4 DEF Dirtyable
      <4>2. lastWriter = o
        BY <1>2, <2>2, <4>1 DEF Owned, Remembered
      <4> QED BY <1>1, <2>2, <3>2, <3>4, <4>2
    <3> QED BY <3>3, <3>4
  <2> QED BY <2>1, <2>2
<1>8. Exclusive'
  <2> SUFFICES ASSUME NEW d \in Clients \ trouble, Dirtyable(d)', NEW x \in Clients \ {d}
               PROVE  Unused(x)' \/ (msgs[d] # {} /\ x = o)
    BY <1>1 DEF Exclusive
  <2>1. CASE d # o /\ x = o
    BY <1>3, <1>5, <2>1
  <2>2. CASE d # o /\ x # o
    <3>1. Unused(x) /\ entry'[x] = entry[x]
      BY <1>1, <1>3, <1>6, <2>2
    <3> QED BY <3>1 DEF Unused
  <2>3. CASE d = o
    <3>1. Unused(x)
      <4>1. CASE Dirty(o)
        BY <1>6, <2>3, <4>1 DEF Dirtyable
      <4>2. CASE mode[p] = "write" /\ action.cacheable
        <5>1. Cacheable(p)
          BY <1>0, <1>1, <4>2 DEF Sharing, Alone
        <5> QED BY <2>3, <4>2, <5>1 DEF Cacheable, Unused
      <4> QED BY <1>4, <2>3, <4>1, <4>2
    <3>2. entry'[x] = entry[x]
      BY <1>1, <2>3
    <3> QED BY <3>1, <3>2 DEF Unused
  <2> QED BY <2>1, <2>2, <2>3
<1>9. Recalled' /\ OwnBlocks' /\ ToRecall'
  BY <1>1 DEF Recalled, OwnBlocks, ToRecall, Walking
<1>10. GivenBack'
  <2> SUFFICES ASSUME NEW r \in replies, r.client \notin trouble PROVE ~Dirtyable(r.client)'
    BY <1>1 DEF GivenBack
  <2>1. r.client \in Clients \ {o}
    BY <1>2, PipeTypes DEF Pipe, Replied
  <2> QED BY <1>3, <2>1 DEF Owned, GivenBack
<1>11. CleanClose'
  BY <1>1, CleanCloseStep DEF Owned
<1> QED BY <1>7, <1>8, <1>9, <1>10, <1>11 DEF Owned

(* Owners of dirty blocks stay known through receiving a reply             *)
(* (ProcessConsistReply).                                                  *)
LEMMA OwnedReply ==
    ASSUME ConsistAssumption, OneEach, TInv, TInv', Pipe, Owned, [Next]_vars,
           NEW r \in replies, ProcessConsistReply(r)
    PROVE  Owned'
<1>e. ReplyFacts(r)
  BY ReplyEffect
<1> DEFINE c == r.client
<1>1. /\ UNCHANGED <<trouble, handle>> /\ c \in Clients /\ replies' \subseteq replies
      /\ action'.by = action.by /\ action'.phase = action.phase /\ action'.todo = action.todo
      /\ action.todo \subseteq Clients
      /\ \A d \in Clients \ {c} : msgs'[d] = msgs[d] /\ entry'[d] = entry[d]
      /\ lastWriter' = lastWriter \/ lastWriter = c
      /\ ~MonitorHeld
  BY <1>e, ActionRecord DEF ReplyFacts, SettledReply, history
<1>c. action'.cacheable <=> action.cacheable
  <2>1. action'.cacheable = action.cacheable
    BY <1>e, ActionRecord DEF ReplyFacts, SettledReply
  <2> QED BY <2>1, Zenon
<1>2. \A d \in Clients : Dirtyable(d)' => Dirtyable(d)
  <2>1. ~UpdateList
    BY <1>1 DEF UpdateList
  <2> QED BY <2>1, DirtyableStep
<1>3. c \notin trouble => ~Dirtyable(c)
  BY DEF Owned, GivenBack
<1>4. \A d \in Clients \ trouble : Dirtyable(d)' => Dirtyable(d) /\ d \in Clients \ {c}
  BY <1>2, <1>3
<1>5. Remembered'
  <2> SUFFICES ASSUME NEW d \in Clients \ trouble, Dirtyable(d)'
               PROVE  (lastWriter' = d /\ entry'[d].cached) \/ "writeBack" \in msgs'[d]
    BY <1>1 DEF Remembered
  <2>1. (lastWriter = d /\ entry[d].cached) \/ "writeBack" \in msgs[d]
    BY <1>4 DEF Owned, Remembered
  <2>2. d # c /\ entry'[d] = entry[d] /\ msgs'[d] = msgs[d]
    BY <1>1, <1>4
  <2>3. entry[d].cached => entry'[d].cached
    BY <2>2, Zenon
  <2> QED BY <1>1, <2>1, <2>2, <2>3
<1>6. Exclusive'
  <2> SUFFICES ASSUME NEW d \in Clients \ trouble, Dirtyable(d)', NEW x \in Clients \ {d}, ~Unused(x)'
               PROVE  msgs'[d] # {} /\ action.phase = "wait" /\ x = Host[action.by]
    BY <1>1 DEF Exclusive
  <2>1. ~Unused(x)
    <3>1. CASE x # c
      BY <1>1, <3>1 DEF Unused
    <3>2. CASE x = c
      <4>1. CASE entry' = entry
        BY <4>1 DEF Unused
      <4>2. CASE SettledReply(c)
        BY <3>2, <4>2 DEF SettledReply, Unused, NoEntry
      <4> QED BY <1>e, <4>1, <4>2 DEF ReplyFacts
    <3> QED BY <3>1, <3>2
  <2>2. msgs[d] # {} /\ action.phase = "wait" /\ x = Host[action.by]
    BY <1>4, <2>1 DEF Owned, Exclusive
  <2> QED BY <1>1, <1>4, <2>2
<1>7. Recalled'
  <2> SUFFICES ASSUME Walking, NEW d \in Clients, d \notin trouble, d \notin action.todo,
                      d # Host[action.by], Dirtyable(d)'
               PROVE  msgs'[d] # {} /\ (action.cacheable => "writeBack" \in msgs'[d])
    BY <1>1, <1>c DEF Recalled, Walking
  <2>1. msgs[d] # {} /\ (action.cacheable => "writeBack" \in msgs[d])
    BY <1>4 DEF Owned, Recalled
  <2> QED BY <1>1, <1>4, <2>1
<1>8. OwnBlocks'
  <2>1. Walking /\ Host[action.by] \notin trouble /\ Dirty(Host[action.by]) => action.cacheable
    BY DEF Owned, OwnBlocks
  <2> QED BY <1>1, <1>c, <2>1 DEF OwnBlocks, Dirty, Walking
<1>9. ToRecall'
  <2> SUFFICES ASSUME Walking, ~action.cacheable, NEW d \in action.todo \ trouble, Dirtyable(d)'
               PROVE  action.phase = "visit" /\ ~Unused(d)'
    BY <1>1, <1>c DEF ToRecall, Walking
  <2>1. d \in Clients \ {c} /\ Dirtyable(d) /\ entry'[d] = entry[d]
    BY <1>1, <1>4
  <2>2. action.phase = "visit" /\ ~Unused(d)
    BY <2>1 DEF Owned, ToRecall
  <2> QED BY <2>1, <2>2 DEF Unused
<1>10. GivenBack'
  BY <1>1, <1>2, PipeTypes DEF Owned, GivenBack
<1>11. CleanClose'
  BY <1>1, CleanCloseStep DEF Owned
<1> QED BY <1>5, <1>6, <1>7, <1>8, <1>9, <1>10, <1>11 DEF Owned

(* Owners of dirty blocks stay known through every step.                   *)
LEMMA OwnedStep ==
    ASSUME ConsistAssumption, OneEach, TInv, TInv', MsgsTied, CInv, Pipe, Sharing, Granting, Owned,
           [Next]_vars
    PROVE  Owned'
<1>1. CASE UpdateList
  BY <1>1, OwnedUpdate
<1>2. ASSUME NEW r \in replies, ProcessConsistReply(r) PROVE Owned'
  BY <1>2, OwnedReply
<1>3. ASSUME NEW p \in Procs, StartConsistency(p) PROVE Owned'
  BY <1>3, OwnedStart
<1>4. CASE ~UpdateList /\ \A r \in replies : ~ProcessConsistReply(r)
  <2>1. CASE Calm
    <3>1. NewReplies
      BY <2>1 DEF Calm, NewReplies
    <3> QED BY <1>4, <2>1, <3>1, CalmListCalm, OwnedList
  <2>2. ASSUME NEW c \in Clients, RpcConsist(c) PROVE Owned'
    <3>1. replies' = replies
      BY <2>2 DEF RpcConsist
    <3>2. NewReplies
      BY <3>1 DEF NewReplies
    <3> QED BY <1>4, <2>2, <3>2, CalmListRpc, OwnedList
  <2>3. ASSUME NEW j \in jobs, ProcessConsist(j) PROVE Owned'
    BY <1>4, <2>3, JobGives, CalmListJob, OwnedList
  <2> QED BY <1>3, <1>4, <2>1, <2>2, <2>3, CalmStep, OwnedVisit, OwnedEnd
<1> QED BY <1>1, <1>2, <1>4

(* The invariant for owners holds at the start, where nothing is dirty.    *)
LEMMA OwnedInit ==
    ASSUME ConsistAssumption, Init
    PROVE  OwnedInv
<1>1. SharingInv
  BY SharingInit
<1>2. /\ replies = {} /\ action.phase = "none"
      /\ \A c \in Clients : handle[c].block = "none"
      /\ \A p \in Procs : pc[p] = "idle" /\ mode[p] = "none"
  BY DEF Init, NoAction, NoHandle
<1>3. \A d \in Clients : ~Dirtyable(d)
  BY <1>2 DEF Dirtyable, Dirty, MayWrite
<1> QED BY <1>1, <1>2, <1>3 DEF OwnedInv, Owned, Remembered, Exclusive, Recalled, OwnBlocks, ToRecall,
        GivenBack, CleanClose, Walking

(* A workstation that has, or may come to have, dirty blocks is the last   *)
(* writer or has been told to write back, and no client but it caches for  *)
(* writing.  Under the hypothesis OneEach: a close and a write by two      *)
(* processes of a workstation break it; and for workstations that are not  *)
(* in trouble.                                                             *)
THEOREM OwnedInvHolds == ASSUME OneEach PROVE Spec => []OwnedInv
<1>1. Init => OwnedInv
  BY OwnedInit, ConsistAssumption
<1>2. OwnedInv /\ [Next]_vars => OwnedInv'
  <2> SUFFICES ASSUME OwnedInv, [Next]_vars PROVE OwnedInv'
    OBVIOUS
  <2>1. SharingInv'
    BY SharingInvStep, ConsistAssumption DEF OwnedInv
  <2>2. Owned'
    BY <2>1, OwnedStep, ConsistAssumption DEF OwnedInv, SharingInv, CountInv, Believed
  <2> QED BY <2>1, <2>2 DEF OwnedInv
<1> QED BY <1>1, <1>2, PTL DEF Spec

(* Where one process of each workstation uses the file (OneEach) the       *)
(* server never forgets whom to ask for the dirty blocks of a workstation  *)
(* that has not crashed, been killed or failed to write back (trouble):    *)
(* NameOpen, Fsconsist_Close with FS_LAST_DIRTY_BLOCK, a write-back and    *)
(* the replies of earlier commands all reset lastWriter, and none does so  *)
(* too early.  A close beside a write by another process of the same       *)
(* workstation may (fsconsistCache.c:1194).                                *)
THEOREM DirtyIsRememberedHolds == ASSUME OneEach PROVE Spec => []DirtyIsRemembered
<1>1. OwnedInv => DirtyIsRemembered
  BY DEF OwnedInv, Owned, Remembered, Dirtyable, Dirty, DirtyIsRemembered
<1> QED BY <1>1, OwnedInvHolds, PTL

(* What has gone wrong is never forgotten.                                 *)
LEMMA HistoriesStep ==
    ASSUME ConsistAssumption, TInv, [Next]_vars
    PROVE  Histories
<1>1. ASSUME NEW p \in Procs, ProcStep(p) PROVE Histories
  <2>1. CASE (\E m \in Modes : OpenSend(p, m)) \/ NameOpen(p) \/ StartConsistency(p) \/ OpenDone(p)
             \/ CloseSend(p) \/ Close(p)
    BY <2>1 DEF OpenSend, NameOpen, StartConsistency, OpenDone, CloseSend, Close, history, Histories
  <2>2. CASE IoOpen(p) \/ ReadFill(p) \/ Write(p)
    BY <2>2 DEF IoOpen, ReadFill, Write, Histories
  <2>3. CASE OpenReply(p)
    BY <2>3 DEF OpenReply, Histories
  <2>4. CASE AbortOpen(p)
    BY <2>4 DEF AbortOpen, Kill, Histories
  <2> QED BY <1>1, <2>1, <2>2, <2>3, <2>4 DEF ProcStep
<1>2. ASSUME ActionStep PROVE Histories
  <2>1. CASE VisitClient
    BY <2>1, VisitEffect DEF VisitFacts, Histories
  <2>2. CASE CommandDone
    <3>1. DoneFacts
      BY <2>2, CommandDoneEffect
    <3> QED BY <3>1 DEF DoneFacts, Histories
  <2>3. CASE ConsistTimeout
    BY <2>3, TimeoutEffect DEF TimeoutFacts, Histories
  <2>4. CASE CommandTimeout \/ UpdateList \/ EndConsistency \/ ConsistTimeoutIntr
    BY <2>4 DEF CommandTimeout, UpdateList, EndConsistency, ConsistTimeoutIntr, history, Histories
  <2> QED BY <1>2, <2>1, <2>2, <2>3, <2>4 DEF ActionStep
<1>3. ASSUME NEW c \in Clients, ClientStep(c) PROVE Histories
  <2>1. CASE RpcConsist(c) \/ FileScavenge(c) \/ ClientKill(c)
    BY <2>1 DEF RpcConsist, FileScavenge, ClientKill, history, Histories
  <2>2. CASE CleanBlocks(c) \/ Crash(c)
    BY <2>2 DEF CleanBlocks, Crash, Histories
  <2> QED BY <1>3, <2>1, <2>2 DEF ClientStep
<1>4. ASSUME NEW j \in jobs, ProcessConsist(j) PROVE Histories
  BY <1>4, JobEffect DEF JobFacts, Histories
<1>5. ASSUME NEW r \in replies, ProcessConsistReply(r) PROVE Histories
  BY <1>5 DEF ProcessConsistReply, history, Histories
<1>6. CASE NumClients \/ UNCHANGED vars
  BY <1>6 DEF NumClients, vars, history, Histories
<1> QED BY <1>1, <1>2, <1>3, <1>4, <1>5, <1>6 DEF Next

(* If nothing has gone wrong after a step nothing had before.              *)
LEMMA SafeStep ==
    ASSUME ConsistAssumption, TInv, [Next]_vars, Safe'
    PROVE  Safe
BY HistoriesStep DEF Histories, Safe

(* Opens for writing are under way to their workstations from              *)
(* EndConsistency to IoOpen.                                               *)
LEMMA ArriveStep ==
    ASSUME ConsistAssumption, TInv, CInv, CInv', [Next]_vars, Safe', ~EndConsistency,
           \A p \in Procs : ~IoOpen(p), NEW q \in Procs
    PROVE  Arrives(q)' <=> Arrives(q)
<1> DEFINE Set == {"granted", "replied", "install"}
<1>0. /\ pc \in [Procs -> States] /\ mode \in [Procs -> Modes \cup {"none"}]
      /\ trouble = {} /\ trouble' = {} /\ \A c \in Clients : up[c] /\ up'[c]
      /\ Through \cap Set = {} /\ "dead" \in Through
  BY SafeStep DEF TInv, Shape, ProcShape, Safe, CInv, CrashNoted, Through
<1>s. ASSUME pc'[q] = pc[q], mode'[q] = mode[q] PROVE Arrives(q)' <=> Arrives(q)
  BY <1>s DEF Arrives
<1>1. ASSUME NEW p \in Procs, ProcStep(p) PROVE Arrives(q)' <=> Arrives(q)
  <2>1. CASE (\E m \in Modes : OpenSend(p, m)) \/ NameOpen(p) \/ StartConsistency(p) \/ OpenDone(p)
             \/ CloseSend(p)
    BY ZenonT(60), <1>0, <2>1 DEF OpenSend, NameOpen, StartConsistency, OpenDone, CloseSend, Arrives, IsOpen
  <2>2. CASE ReadFill(p) \/ Write(p)
    BY <1>s, <2>2 DEF ReadFill, Write, procVars
  <2>3. CASE AbortOpen(p) \/ Close(p)
    <3>1. Finish({p}, IdleOrDead(p)) /\ pc[p] \notin Set /\ IdleOrDead(p) \notin Set
      BY <2>3 DEF AbortOpen, Close, IdleOrDead
    <3>2. q # p => pc'[q] = pc[q] /\ mode'[q] = mode[q]
      BY <3>1 DEF Finish
    <3>3. pc'[p] \notin Set
      BY <3>1 DEF Finish
    <3> QED BY <1>s, <3>1, <3>2, <3>3 DEF Arrives
  <2>4. CASE OpenReply(p)
    <3>1. pc[p] = "granted" /\ pc' = [pc EXCEPT ![p] = "replied"] /\ mode' = mode
      BY <1>0, <2>4, HostType DEF OpenReply
    <3> QED BY <1>0, <3>1 DEF Arrives
  <2> QED BY <1>1, <2>1, <2>2, <2>3, <2>4 DEF ProcStep
<1>2. ASSUME ActionStep PROVE Arrives(q)' <=> Arrives(q)
  BY <1>2, <1>s DEF ActionStep, VisitClient, CommandTimeout, CommandDone, UpdateList,
          ConsistTimeoutIntr, ConsistTimeout, procVars
<1>3. ASSUME NEW c \in Clients, ClientStep(c) PROVE Arrives(q)' <=> Arrives(q)
  <2>1. ~Crash(c)
    BY <1>0 DEF Crash
  <2>2. ~ClientKill(c)
    BY <1>0 DEF ClientKill
  <2> QED BY <1>s, <1>3, <2>1, <2>2 DEF ClientStep, RpcConsist, CleanBlocks, FileScavenge, procVars
<1>4. CASE (\E j \in jobs : ProcessConsist(j)) \/ (\E r \in replies : ProcessConsistReply(r))
           \/ NumClients \/ UNCHANGED vars
  BY <1>4, <1>s DEF ProcessConsist, ProcessConsistReply, NumClients, vars, procVars
<1> QED BY <1>1, <1>2, <1>3, <1>4 DEF Next

(* Without failures no consistency action fails.                           *)
LEMMA NoErrorStep ==
    ASSUME ConsistAssumption, TInv, Pipe, [Next]_vars, Safe, NoError
    PROVE  NoError'
<1>s. ASSUME action' = action PROVE NoError'
  BY <1>s DEF NoError
<1>x. ASSUME action'.error = action.error PROVE NoError'
  BY <1>x, Zenon DEF NoError
<1>n. NoAction.error = FALSE
  BY DEF NoAction
<1>1. ASSUME NEW p \in Procs, ProcStep(p) PROVE NoError'
  <2>1. CASE StartConsistency(p)
    <3>1. PICK n : action' = [NoAction EXCEPT !.by = p, !.phase = "visit", !.cacheable = Cacheable(p),
                                   !.todo = {c \in Clients \ {Host[p]} : entry[c].listed}, !.next = n]
      BY <2>1 DEF StartConsistency
    <3>2. action'.error = FALSE
      BY <3>1 DEF NoAction
    <3> QED BY SMTT(60), <3>2 DEF NoError
  <2>2. CASE ~StartConsistency(p)
    <3>1. action' = action
      BY <1>1, <2>2 DEF ProcStep, OpenSend, NameOpen, AbortOpen, OpenReply, OpenDone, IoOpen, ReadFill,
              Write, CloseSend, Close, serverVars
    <3> QED BY <1>s, <3>1
  <2> QED BY <2>1, <2>2
<1>2. ASSUME ActionStep PROVE NoError'
  <2>1. CASE VisitClient
    BY <1>x, <2>1, VisitEffect DEF VisitFacts
  <2>2. CASE CommandDone
    <3>1. DoneFacts
      BY <2>2, CommandDoneEffect
    <3> QED BY <1>x, <3>1 DEF DoneFacts
  <2>3. CASE UpdateList
    BY <1>x, <2>3, UpdateEffect DEF UpdateFacts
  <2>4. CASE EndConsistency
    <3>1. action' = NoAction
      BY <2>4, EndEffect DEF EndFacts
    <3> QED BY <1>n, <3>1 DEF NoError
  <2>5. CASE ConsistTimeoutIntr
    <3>1. action' = [action EXCEPT !.armed = FALSE]
      BY <2>5 DEF ConsistTimeoutIntr
    <3> QED BY <1>x, <3>1, ActionRecord
  <2>6. CASE CommandTimeout \/ ConsistTimeout
    BY <1>s, <2>6 DEF CommandTimeout, ConsistTimeout
  <2> QED BY <1>2, <2>1, <2>2, <2>3, <2>4, <2>5, <2>6 DEF ActionStep
<1>3. ASSUME NEW c \in Clients, ClientStep(c) PROVE NoError'
  BY <1>3, <1>s DEF ClientStep, RpcConsist, CleanBlocks, FileScavenge, Crash, ClientKill, serverVars
<1>4. ASSUME NEW j \in jobs, ProcessConsist(j) PROVE NoError'
  BY <1>4, <1>s DEF ProcessConsist
<1>5. ASSUME NEW r \in replies, ProcessConsistReply(r) PROVE NoError'
  <2>1. r.ok /\ ReplyFacts(r)
    BY <1>5, ReplyEffect DEF Safe, Pipe, Replied
  <2>2. action' = action
    BY <2>1 DEF ReplyFacts, SettledReply
  <2> QED BY <1>s, <2>2
<1>6. CASE NumClients \/ UNCHANGED vars
  BY <1>6, <1>s DEF NumClients, vars, serverVars
<1> QED BY <1>1, <1>2, <1>3, <1>4, <1>5, <1>6 DEF Next

(* Commands are recorded only by the walk.                                 *)
LEMMA MsgsStep ==
    ASSUME ConsistAssumption, OneEach, TInv, CInv, [Next]_vars, Safe', ~VisitClient,
           NEW c \in Clients, msgs'[c] # {}
    PROVE  msgs'[c] = msgs[c]
<1>1. CASE Calm
  BY <1>1 DEF Calm, Safe
<1>2. CASE (\E p \in Procs : StartConsistency(p)) \/ UpdateList \/ EndConsistency
  BY <1>2 DEF StartConsistency, UpdateList, EndConsistency
<1>3. CASE (\E d \in Clients : RpcConsist(d)) \/ (\E j \in jobs : ProcessConsist(j))
  BY <1>3 DEF RpcConsist, ProcessConsist
<1>4. ASSUME NEW r \in replies, ProcessConsistReply(r) PROVE msgs'[c] = msgs[c]
  BY <1>4, ReplyEffect DEF ReplyFacts
<1> QED BY <1>1, <1>2, <1>3, <1>4, CalmStep

(* Nobody with dirty blocks is told only to invalidate.                    *)
LEMMA ToldCleanStep ==
    ASSUME ConsistAssumption, OneEach, TInv, CInv, Pipe, Owned, [Next]_vars, Safe, Safe', ToldClean
    PROVE  ToldClean'
<1> SUFFICES ASSUME NEW c \in Clients, msgs'[c] = {"invalidate"}, Dirty(c)' PROVE FALSE
  BY DEF ToldClean
<1>0. trouble = {} /\ trouble' = {} /\ discarded' = {}
  BY DEF Safe
<1>1. CASE msgs[c] = {"invalidate"}
  <2>1. ~Dirty(c) /\ entry[c].write = 0
    BY <1>0, <1>1 DEF ToldClean, Pipe, Halves
  <2>2. PICK p \in Procs : Write(p)
    BY <2>1, BlockStep
  <2>3. WriteFacts(p)
    BY <2>2, WriteEffect
  <2>4. Host[p] = c
    <3> SUFFICES ASSUME Host[p] # c PROVE FALSE
      OBVIOUS
    <3>1. handle'[c] = handle[c]
      BY <2>3 DEF WriteFacts
    <3> QED BY <2>1, <3>1 DEF Dirty
  <2>5. entry[c].write = One(mode[p] = "write")
    BY <1>0, <2>3, <2>4, OneHolder DEF WriteFacts, Holds
  <2> QED BY <2>1, <2>3, <2>5 DEF WriteFacts, One
<1>2. CASE msgs[c] # {"invalidate"}
  <2>1. VisitClient
    BY <1>2, MsgsStep
  <2>2. VisitFacts
    BY <2>1, VisitEffect
  <2> DEFINE op == CommandFor(action.next)
  <2>3. c = action.next /\ op = {"invalidate"}
    BY <1>2, <2>2, MsgsType DEF VisitFacts
  <2>4. action.phase = "visit" /\ c \in action.todo /\ handle' = handle /\ Dirty(c)
    BY <2>2, <2>3 DEF VisitFacts, clientVars, Dirty
  <2>5. lastWriter = c /\ entry[c].cached
    <3>1. msgs[c] = {}
      BY <2>4 DEF Pipe, Unasked
    <3> QED BY <1>0, <2>4, <3>1 DEF Owned, Remembered, Dirtyable
  <2>6. ~action.cacheable /\ ~(entry[c].write > 0)
    <3>1. "writeBack" \notin CommandFor(c)
      BY <2>3
    <3>2. ~action.cacheable
      <4> SUFFICES ASSUME action.cacheable PROVE "writeBack" \in CommandFor(c)
        BY <3>1
      <4> QED BY <2>5 DEF CommandFor
    <3>3. ~(entry[c].write > 0)
      <4> SUFFICES ASSUME entry[c].write > 0 PROVE "writeBack" \in CommandFor(c)
        BY <3>1
      <4> QED BY <2>5, <3>2 DEF CommandFor
    <3> QED BY <3>2, <3>3
  <2>7. entry[c].write = 0
    <3>1. entry[c].write \in Nat
      BY EntryFacts
    <3> QED BY <2>6, <3>1
  <2>8. discarded' = discarded \cup {c}
    BY <2>2, <2>3, <2>5, <2>6, <2>7 DEF VisitFacts
  <2> QED BY <1>0, <2>8
<1> QED BY <1>1, <1>2

(* Steps that leave handles and copies alone lose nothing.                 *)
LEMMA BlocksSame ==
    ASSUME UNCHANGED <<handle, fresh>>, DataKept, OnlyCached
    PROVE  BlocksQuiet
<1>1. DataKept'
  BY DEF DataKept
<1>2. ASSUME NEW c \in Clients PROVE HandleQuiet(c)
  <2>1. ~handle'[c].cacheable => handle'[c].block = "none"
    BY DEF OnlyCached
  <2>2. handle'[c].cacheable => handle[c].cacheable
    BY Zenon
  <2> QED BY <2>1, <2>2 DEF HandleQuiet, Dirty
<1> QED BY <1>1, <1>2 DEF BlocksQuiet

(* The places of a copy are the workstations and the server.               *)
LEMMA FreshType ==
    ASSUME ConsistAssumption, TInv
    PROVE  fresh \subseteq Clients \cup {Server} /\ Server \notin Clients
BY DEF ConsistAssumption, TInv, Shape, HistoryShape

(* A delayed write-back loses nothing.                                     *)
LEMMA CleanQuiet ==
    ASSUME ConsistAssumption, TInv, Data, NEW c \in Clients, CleanBlocks(c)
    PROVE  BlocksQuiet
<1>e. CleanFacts(c)
  BY CleanEffect
<1>1. /\ Dirty(c) /\ c \in fresh /\ fresh' = fresh \cup {Server}
      /\ handle[c].cacheable
  BY <1>e DEF CleanFacts, Data, DirtyFresh, Dirty, OnlyCached
<1>2. DataKept'
  BY <1>1 DEF DataKept
<1>3. ASSUME NEW d \in Clients PROVE HandleQuiet(d)
  <2>1. CASE d # c
    <3>1. handle'[d] = handle[d]
      BY <1>e, <2>1 DEF CleanFacts
    <3>2. (handle'[d].cacheable => handle[d].cacheable) /\ (~handle'[d].cacheable => ~handle[d].cacheable)
      BY <3>1, Zenon
    <3> QED BY <1>1, <3>1, <3>2 DEF HandleQuiet, Dirty, Data, OnlyCached
  <2>2. CASE d = c
    <3>1. handle'[c].cacheable
      <4>1. handle'[c].cacheable = handle[c].cacheable
        BY <1>e DEF CleanFacts
      <4> QED BY <1>1, <4>1, Zenon
    <3> QED BY <1>1, <1>e, <2>2, <3>1 DEF CleanFacts, HandleQuiet, Dirty
  <2> QED BY <2>1, <2>2
<1> QED BY <1>2, <1>3 DEF BlocksQuiet

(* Scavenging a handle loses nothing.                                      *)
LEMMA ScavengeQuiet ==
    ASSUME ConsistAssumption, TInv, Data, NEW c \in Clients, FileScavenge(c)
    PROVE  BlocksQuiet
<1>e. ScavengeFacts(c)
  BY ScavengeEffect
<1>1. fresh' = fresh /\ NoHandle.block = "none" /\ NoHandle.cacheable = FALSE
  BY <1>e DEF ScavengeFacts, history, NoHandle
<1>2. DataKept'
  <2>1. \A d \in fresh \ {Server} : handle[d].block = "dirty" => handle'[d] = handle[d]
    BY <1>e, FreshType DEF ScavengeFacts
  <2> QED BY <1>1, <2>1 DEF Data, DataKept
<1>3. ASSUME NEW d \in Clients PROVE HandleQuiet(d)
  <2>1. CASE d # c
    <3>1. handle'[d] = handle[d]
      BY <1>e, <2>1 DEF ScavengeFacts
    <3>2. (handle'[d].cacheable => handle[d].cacheable) /\ (~handle'[d].cacheable => ~handle[d].cacheable)
      BY <3>1, Zenon
    <3> QED BY <1>1, <3>1, <3>2 DEF HandleQuiet, Dirty, Data, OnlyCached
  <2>2. CASE d = c
    BY <1>1, <1>e, <2>2 DEF ScavengeFacts, HandleQuiet, Dirty
  <2> QED BY <2>1, <2>2
<1> QED BY <1>2, <1>3 DEF BlocksQuiet

(* An executed command loses nothing.                                      *)
LEMMA JobQuiet ==
    ASSUME ConsistAssumption, TInv, Pipe, Data, Safe, Safe', NEW j \in jobs, ProcessConsist(j)
    PROVE  BlocksQuiet
<1>e. JobFacts(j)
  BY JobEffect
<1> DEFINE c == j.client
<1>1. /\ c \in Clients /\ j.op = msgs[c] /\ j.op # {} /\ j.op \subseteq {"writeBack", "invalidate"}
      /\ trouble' = {}
  BY <1>e DEF JobFacts, Commands, Pipe, Queued, Safe
<1>2. CASE DroppedJob(j)
  BY <1>2, BlocksSame DEF DroppedJob, Data
<1>3. ~FailedJob(j)
  <2> SUFFICES ASSUME FailedJob(j) PROVE FALSE
    OBVIOUS
  <2>1. handle'[c].block = "dirty" /\ Flushes(j)
    BY DEF FailedJob, Answered, ConsistedFacts, Flushes
  <2> QED BY <1>1, <1>e, <2>1 DEF JobFacts
<1>4. CASE PlainJob(j) \/ FlushedJob(j)
  <2>1. ConsistedFacts(c, j.op, TRUE)
    BY <1>4 DEF PlainJob, FlushedJob, Answered
  <2>2. PlainJob(j) => ~Dirty(c)
    <3> SUFFICES ASSUME PlainJob(j), Dirty(c) PROVE FALSE
      OBVIOUS
    <3>1. "writeBack" \notin j.op
      BY DEF PlainJob, Flushes, Dirty
    <3>2. j.op = {"invalidate"}
      BY <1>1, <3>1
    <3> QED BY <1>1, <3>2 DEF Data, ToldClean
  <2>3. FlushedJob(j) => Dirty(c) /\ c \in fresh
    BY <1>1 DEF FlushedJob, Flushes, Dirty, Data, DirtyFresh
  <2>4. /\ \A d \in Clients \ {c} : handle'[d] = handle[d] /\ (d \in fresh => d \in fresh')
        /\ handle'[c].block # "none" => (c \in fresh => c \in fresh')
    BY <1>4, <2>1, <2>3 DEF PlainJob, FlushedJob, ConsistedFacts
  <2>5. DataKept'
    <3>1. CASE FlushedJob(j)
      <4>1. Server \in fresh'
        BY <1>1, <2>3, <3>1, FreshType DEF FlushedJob
      <4> QED BY <4>1 DEF DataKept
    <3>2. CASE PlainJob(j)
      <4>1. Server \in fresh => Server \in fresh'
        BY <1>1, <3>2, FreshType DEF PlainJob
      <4>2. \A d \in fresh \ {Server} : Dirty(d) => d \in Clients \ {c}
        BY <2>2, <3>2, FreshType
      <4> QED BY <2>4, <4>1, <4>2 DEF Data, DataKept, Dirty
    <3> QED BY <1>4, <3>1, <3>2
  <2>6. ASSUME NEW d \in Clients PROVE HandleQuiet(d)
    <3>1. CASE d # c
      <4>1. handle'[d] = handle[d]
        BY <2>4, <3>1
      <4>2. (handle'[d].cacheable => handle[d].cacheable) /\ (~handle'[d].cacheable => ~handle[d].cacheable)
        BY <4>1, Zenon
      <4> QED BY <2>4, <3>1, <4>1, <4>2 DEF HandleQuiet, Dirty, Data, OnlyCached
    <3>2. CASE d = c
      <4>1. /\ handle'[c].version = handle[c].version
            /\ handle'[c].cacheable <=> (handle[c].cacheable /\ "invalidate" \notin j.op)
            /\ handle'[c].block = (IF handle[c].block = "none" THEN "none"
                                   ELSE IF "invalidate" \in j.op THEN "none" ELSE "clean")
        BY <2>1 DEF ConsistedFacts
      <4>2. ~handle'[c].cacheable => handle'[c].block = "none"
        BY <1>1, <4>1 DEF Data, OnlyCached
      <4> QED BY <2>4, <3>2, <4>1, <4>2 DEF HandleQuiet, Dirty
    <3> QED BY <3>1, <3>2
  <2> QED BY <2>5, <2>6 DEF BlocksQuiet
<1> QED BY <1>e, <1>2, <1>3, <1>4 DEF JobFacts

(* No step but install, fill and write loses or changes a block.           *)
LEMMA BlocksQuietStep ==
    ASSUME ConsistAssumption, TInv, Pipe, Data, Safe, Safe', [Next]_vars,
           \A p \in Procs : ~IoOpen(p) /\ ~ReadFill(p) /\ ~Write(p)
    PROVE  BlocksQuiet
<1>s. ASSUME UNCHANGED <<handle, fresh>> PROVE BlocksQuiet
  BY <1>s, BlocksSame DEF Data
<1>1. ASSUME NEW p \in Procs, ProcStep(p) PROVE BlocksQuiet
  <2>1. UNCHANGED <<handle, fresh>>
    BY <1>1 DEF ProcStep, OpenSend, NameOpen, StartConsistency, AbortOpen, OpenReply, OpenDone,
        CloseSend, Close, clientVars, history
  <2> QED BY <1>s, <2>1
<1>2. ASSUME ActionStep PROVE BlocksQuiet
  <2>1. UNCHANGED <<handle, fresh>>
    BY <1>2 DEF ActionStep, VisitClient, CommandTimeout, CommandDone, UpdateList, EndConsistency,
          ConsistTimeoutIntr, ConsistTimeout, clientVars, history
  <2> QED BY <1>s, <2>1
<1>3. ASSUME NEW c \in Clients, ClientStep(c) PROVE BlocksQuiet
  <2>1. CASE RpcConsist(c) \/ ClientKill(c)
    BY <1>s, <2>1 DEF RpcConsist, ClientKill, clientVars, history
  <2>2. ~Crash(c)
    BY DEF Crash, Safe
  <2> QED BY <1>3, <2>1, <2>2, CleanQuiet, ScavengeQuiet DEF ClientStep
<1>4. ASSUME NEW j \in jobs, ProcessConsist(j) PROVE BlocksQuiet
  BY <1>4, JobQuiet
<1>5. ASSUME NEW r \in replies, ProcessConsistReply(r) PROVE BlocksQuiet
  BY <1>5, <1>s DEF ProcessConsistReply, history
<1>6. CASE NumClients \/ UNCHANGED vars
  BY <1>6, <1>s DEF NumClients, vars, clientVars, history
<1> QED BY <1>1, <1>2, <1>3, <1>4, <1>5, <1>6 DEF Next

(* A workstation with dirty blocks is granted caching by the open under    *)
(* way.                                                                    *)
LEMMA DirtyGrantedStep ==
    ASSUME ConsistAssumption, TInv, Owned, Data, Safe, BlocksQuiet, [Next]_vars,
           \A p \in Procs : ~IoOpen(p)
    PROVE  DirtyGranted'
<1> SUFFICES ASSUME NEW q \in Procs, Pre(q)', Dirty(Host[q])' PROVE grant'[q].cacheable
  BY DEF DirtyGranted
<1>1. Host[q] \in Clients /\ Dirty(Host[q])
  BY HostType DEF BlocksQuiet, HandleQuiet
<1>2. CASE ~UpdateList
  <2>1. Pre(q) /\ SameGrant(q)
    BY <1>2, KeptStep DEF ProcKept
  <2>2. grant[q].cacheable
    BY <1>1, <2>1 DEF Data, DirtyGranted
  <2> QED BY <2>1, <2>2, Zenon DEF SameGrant
<1>3. CASE UpdateList
  <2>e. UpdateFacts
    BY <1>3, UpdateEffect
  <2>1. CASE q = action.by
    <3>1. action.cacheable
      BY <1>1, <2>e, <2>1 DEF UpdateFacts, Owned, OwnBlocks, Walking, Safe
    <3>2. grant'[q].cacheable = action.cacheable
      BY <2>e, <2>1 DEF UpdateFacts
    <3> QED BY <3>1, <3>2, Zenon
  <2>2. CASE q # action.by
    <3>1. grant'[q] = grant[q] /\ pc' = pc /\ pc[q] # "consist"
      BY <2>e, <2>2 DEF UpdateFacts, TInv, Structure, ActionTied
    <3>2. Pre(q)
      BY <3>1 DEF Pre, Waits
    <3>3. grant[q].cacheable
      BY <1>1, <3>2 DEF Data, DirtyGranted
    <3> QED BY <3>1, <3>3, Zenon
  <2> QED BY <2>1, <2>2
<1> QED BY <1>2, <1>3

(* A reply under way stays as it was sent.                                 *)
LEMMA DeliveredStep ==
    ASSUME ConsistAssumption, TInv, [Next]_vars, NEW q \in Procs, ~OpenReply(q),
           pc'[q] \in {"replied", "install"}
    PROVE  pc[q] \in {"replied", "install"} /\ grant'[q] = grant[q]
<1> DEFINE Goal == pc[q] \in {"replied", "install"} /\ grant'[q] = grant[q]
<1>0. /\ pc \in [Procs -> States]
      /\ grant \in [Procs -> [cacheable : BOOLEAN, stamp : Nat, version : Nat]]
      /\ pc'[q] \notin Through
  BY DEF TInv, Shape, ProcShape, Through
<1>s. ASSUME UNCHANGED <<pc, grant>> PROVE Goal
  BY <1>s
<1>f. ASSUME NEW ps, NEW where \in Through, Finish(ps, where) PROVE Goal
  BY <1>0, <1>f, FinishKeeps
<1>1. ASSUME NEW p \in Procs, ProcStep(p) PROVE Goal
  <2>1. CASE (\E m \in Modes : OpenSend(p, m)) \/ NameOpen(p) \/ StartConsistency(p) \/ OpenDone(p)
    BY <1>0, <2>1 DEF OpenSend, NameOpen, StartConsistency, OpenDone
  <2>2. CASE ReadFill(p) \/ Write(p)
    BY <1>s, <2>2 DEF ReadFill, Write, procVars
  <2>3. CASE AbortOpen(p) \/ Close(p)
    BY <1>f, <2>3 DEF AbortOpen, Close, IdleOrDead, Through
  <2>4. CASE OpenReply(p)
    <3>1. p # q
      BY <2>4
    <3>2. CASE up[Host[p]]
      BY <1>0, <2>4, <3>1, <3>2 DEF OpenReply
    <3>3. CASE ~up[Host[p]]
      BY <1>f, <2>4, <3>3 DEF OpenReply, Through
    <3> QED BY <3>2, <3>3
  <2>5. CASE CloseSend(p)
    BY <1>0, <2>5 DEF CloseSend
  <2>6. CASE IoOpen(p)
    <3>1. InstallFacts(p)
      BY <2>6, InstallEffect
    <3> QED BY <3>1 DEF InstallFacts
  <2> QED BY <1>1, <2>1, <2>2, <2>3, <2>4, <2>5, <2>6 DEF ProcStep
<1>2. ASSUME ActionStep PROVE Goal
  <2>1. CASE UpdateList
    <3>1. UpdateFacts
      BY <2>1, UpdateEffect
    <3> QED BY <3>1 DEF UpdateFacts
  <2>2. CASE EndConsistency
    <3>1. EndFacts
      BY <2>2, EndEffect
    <3> QED BY <3>1 DEF EndFacts
  <2> QED BY <1>2, <1>s, <2>1, <2>2 DEF ActionStep, VisitClient, CommandTimeout, CommandDone,
          ConsistTimeoutIntr, ConsistTimeout, procVars
<1>3. ASSUME NEW c \in Clients, ClientStep(c) PROVE Goal
  BY <1>f, <1>3, <1>s DEF ClientStep, RpcConsist, CleanBlocks, FileScavenge, Crash, ClientKill, procVars,
        Through
<1>4. CASE (\E j \in jobs : ProcessConsist(j)) \/ (\E r \in replies : ProcessConsistReply(r))
           \/ NumClients \/ UNCHANGED vars
  BY <1>4, <1>s DEF ProcessConsist, ProcessConsistReply, NumClients, vars, procVars
<1> QED BY <1>1, <1>2, <1>3, <1>4 DEF Next

(* A reply that allows caching carries the settled version.                *)
LEMMA GrantCurrentStep ==
    ASSUME ConsistAssumption, TInv, CInv, [Next]_vars, Safe, Safe', GrantCurrent, ~EndConsistency
    PROVE  GrantCurrent'
<1> SUFFICES ASSUME NEW q \in Procs, pc'[q] \in {"replied", "install"}, grant'[q].cacheable
             PROVE  grant'[q].version = Settled'
  BY DEF GrantCurrent
<1>1. Settled' = Settled
  BY SettledSame
<1>2. CASE OpenReply(q)
  <2>1. up[Host[q]] /\ misled' = {}
    BY HostType DEF Safe, CInv, CrashNoted
  <2>2. grant'[q].version = version
    BY <1>2, <2>1 DEF OpenReply, TInv, Shape, ProcShape
  <2>3. WAhead = {}
    <3>1. ~\E p \in Procs : mode[p] = "write" /\ Ahead(p)
      BY <1>2, <2>1 DEF OpenReply
    <3> QED BY <3>1 DEF WAhead
  <2>4. Settled = version
    <3>1. Cardinality(WAhead) = 0 /\ version \in Nat
      BY <2>3, WAheadType DEF TInv, Shape, ServerShape
    <3> QED BY <3>1 DEF Settled
  <2> QED BY <1>1, <2>2, <2>4
<1>3. CASE ~OpenReply(q)
  <2>1. pc[q] \in {"replied", "install"} /\ grant'[q] = grant[q]
    BY <1>3, DeliveredStep
  <2>2. grant[q].cacheable
    BY <2>1, Zenon
  <2> QED BY <1>1, <2>1, <2>2 DEF GrantCurrent
<1> QED BY <1>2, <1>3

(* Writers appear at the end of an action and nowhere else.                *)
LEMMA WriterStep ==
    ASSUME ConsistAssumption, TInv, CInv, CInv', [Next]_vars, Safe', ~EndConsistency,
           \A p \in Procs : ~IoOpen(p), NEW q \in Procs, Writer(q)'
    PROVE  Writer(q)
<1>1. CASE Arrives(q)'
  BY <1>1, ArriveStep DEF Arrives, Writer
<1>2. CASE ~Arrives(q)'
  <2>1. pc'[q] = "open" /\ mode'[q] = "write"
    BY <1>2 DEF Arrives, Writer
  <2>2. pc[q] = "open"
    BY <2>1, OpenStep DEF IsOpen
  <2>3. mode'[q] = mode[q]
    BY <2>1, <2>2, ModeStep DEF Through
  <2> QED BY <2>1, <2>2, <2>3 DEF Writer
<1> QED BY <1>1, <1>2

(* Only an install makes a stream.                                         *)
LEMMA LiveStep ==
    ASSUME ConsistAssumption, TInv, [Next]_vars, \A p \in Procs : ~IoOpen(p), NEW q \in Procs, Live(q)'
    PROVE  Live(q)
<1>1. CASE UpdateList
  BY <1>1 DEF UpdateList, Live
<1>2. CASE ~UpdateList
  BY <1>2, KeptStep DEF ProcKept
<1> QED BY <1>1, <1>2

(* Steps that leave blocks quiet make no copy current.                     *)
LEMMA CurrentQuiet ==
    ASSUME ConsistAssumption, TInv, CInv, CInv', [Next]_vars, Safe', ~EndConsistency,
           \A p \in Procs : ~IoOpen(p), NEW c \in Clients, HandleQuiet(c)
    PROVE  /\ Current(c)' => Current(c)
           /\ handle'[c].block # "none" => Lag(c)' = Lag(c)
<1>1. \A p \in Procs : Arrives(p)' <=> Arrives(p)
  BY ArriveStep
<1>2. Arriving(c)' <=> Arriving(c)
  BY <1>1 DEF Arriving
<1>3. Settled' = Settled
  BY SettledSame
<1>4. ASSUME handle'[c].block # "none" PROVE Lag(c)' = Lag(c) /\ handle[c].block # "none"
  <2>1. handle'[c].version = handle[c].version /\ handle[c].block # "none"
    BY <1>4 DEF HandleQuiet, NoHandle
  <2>2. One(Arriving(c)') = One(Arriving(c))
    BY <1>2 DEF One
  <2> QED BY <2>1, <2>2 DEF Lag
<1>5. ASSUME NEW p \in Procs, Arrives(p), grant'[p].cacheable PROVE grant[p].cacheable
  <2>1. Arrives(p)' /\ Pre(p)'
    BY <1>1, <1>5 DEF Arrives, Pre
  <2>2. grant'[p].cacheable = grant[p].cacheable
    <3>1. CASE UpdateList
      <4>1. UpdateFacts
        BY <3>1, UpdateEffect
      <4>2. p # action.by
        BY <1>5, <4>1 DEF UpdateFacts, Arrives
      <4> QED BY <4>1, <4>2 DEF UpdateFacts
    <3>2. CASE ~UpdateList
      BY <2>1, <3>2, KeptStep DEF ProcKept, SameGrant
    <3> QED BY <3>1, <3>2
  <2> QED BY <1>5, <2>2, Zenon
<1> QED BY <1>1, <1>3, <1>4, <1>5 DEF Current

(* The copies of the block stay consistent through every other step.       *)
LEMMA DataQuiet ==
    ASSUME ConsistAssumption, OneEach, TInv, CInv, CInv', Pipe, Owned, Data, [Next]_vars, Safe, Safe',
           ~EndConsistency, \A p \in Procs : ~IoOpen(p) /\ ~ReadFill(p) /\ ~Write(p)
    PROVE  Data'
<1>q. BlocksQuiet
  BY BlocksQuietStep
<1>h. \A c \in Clients : HandleQuiet(c)
  BY <1>q DEF BlocksQuiet
<1>s. Settled' = Settled
  BY SettledSame
<1>1. NoError' /\ ToldClean'
  BY NoErrorStep, ToldCleanStep DEF Data
<1>2. DirtyFresh'
  <2> SUFFICES ASSUME NEW c \in Clients, Dirty(c)' PROVE c \in fresh'
    BY DEF DirtyFresh
  <2> QED BY <1>h DEF HandleQuiet, Data, DirtyFresh, Dirty
<1>3. DataKept' /\ OnlyCached'
  BY <1>q, <1>h DEF BlocksQuiet, HandleQuiet, OnlyCached
<1>4. DirtyGranted'
  BY <1>q, DirtyGrantedStep
<1>5. DirtyCurrent'
  <2> SUFFICES ASSUME NEW c \in Clients, Dirty(c)' PROVE Lag(c)' = Settled'
    BY DEF DirtyCurrent
  <2>1. Dirty(c) /\ handle'[c].block # "none"
    BY <1>h DEF HandleQuiet, Dirty
  <2>2. Lag(c)' = Lag(c)
    BY <1>h, <2>1, CurrentQuiet
  <2> QED BY <1>s, <2>1, <2>2 DEF Data, DirtyCurrent
<1>6. OpenCurrent'
  <2> SUFFICES ASSUME NEW p \in Procs, Live(p)', handle'[Host[p]].cacheable
               PROVE  handle'[Host[p]].version = Settled'
    BY DEF OpenCurrent
  <2>1. Live(p) /\ Host[p] \in Clients
    BY LiveStep, HostType
  <2>2. handle[Host[p]].cacheable /\ handle'[Host[p]].version = handle[Host[p]].version
    BY <1>h, <2>1 DEF HandleQuiet, NoHandle
  <2> QED BY <1>s, <2>1, <2>2 DEF Data, OpenCurrent
<1>7. GrantCurrent'
  BY GrantCurrentStep DEF Data
<1>8. CurrentFresh'
  <2> SUFFICES ASSUME NEW c \in Clients, Current(c)' PROVE c \in fresh'
    BY DEF CurrentFresh
  <2>1. Current(c) /\ handle'[c].block # "none"
    BY <1>h, CurrentQuiet DEF Current
  <2>2. c \in fresh
    BY <2>1 DEF Data, CurrentFresh
  <2> QED BY <1>h, <2>1, <2>2 DEF HandleQuiet
<1>9. WriterAlone'
  <2> SUFFICES ASSUME NEW q \in Procs, NEW c \in Clients, Writer(q)', c # Host[q], Current(c)'
               PROVE  FALSE
    BY DEF WriterAlone
  <2>1. Writer(q) /\ Current(c)
    BY <1>h, WriterStep, CurrentQuiet
  <2> QED BY <2>1 DEF Data, WriterAlone
<1> QED BY <1>1, <1>2, <1>3, <1>4, <1>5, <1>6, <1>7, <1>8, <1>9 DEF Data

(* When a writer's open leaves the monitor, no other workstation with the  *)
(* file open still believes it may cache it.                               *)
LEMMA EndAlone ==
    ASSUME ConsistAssumption, OneEach, TInv, CInv, Sharing, Safe, EndConsistency,
           mode[action.by] = "write", NEW q \in Procs, Holds(q), q # action.by
    PROVE  ~entry[Host[q]].cached
<1>e. EndFacts
  BY EndEffect
<1>0. PICK b \in Procs : b = action.by
  BY <1>e DEF EndFacts
<1>1. /\ trouble = {} /\ Holds(b) /\ Host[b] \in Clients /\ Host[q] \in Clients /\ Host[q] # Host[b]
      /\ msgs[Host[q]] = {}
  BY <1>0, <1>e, HostType DEF Safe, EndFacts, Holds, Waits, OneEach
<1>2. entry[Host[b]].write = 1 /\ entry[Host[q]].ref = 1
  <2>1. entry[Host[b]].write = One(mode[b] = "write") /\ entry[Host[q]].ref = 1
    BY <1>1, OneHolder
  <2> QED BY <1>0, <2>1 DEF One
<1>3. Conflict(Host[q], Host[b])
  BY <1>1, <1>2 DEF Conflict, Unused
<1> QED BY <1>1, <1>3 DEF Sharing, Separated

(* The end of an action sends its writer on its way.                       *)
LEMMA EndArrives ==
    ASSUME ConsistAssumption, OneEach, TInv, NoError, EndConsistency, NEW q \in Procs
    PROVE  /\ Arrives(q)' <=> Arrives(q) \/ (q = action.by /\ mode[q] = "write")
           /\ ~Arrives(action.by) /\ ~Arriving(Host[action.by])
<1>e. EndFacts
  BY EndEffect
<1>1. /\ action.by \in Procs /\ pc[action.by] = "consist" /\ pc'[action.by] = "granted" /\ mode' = mode
      /\ \A p \in Procs \ {action.by} : pc'[p] = pc[p]
  BY <1>e DEF EndFacts, NoError
<1>2. Arrives(q)' <=> Arrives(q) \/ (q = action.by /\ mode[q] = "write")
  BY <1>1 DEF Arrives
<1>3. ~Arrives(action.by)
  BY <1>1 DEF Arrives
<1>4. ~Arriving(Host[action.by])
  BY <1>1, <1>3 DEF Arriving, OneEach
<1> QED BY <1>2, <1>3, <1>4

(* The end of a writer's action settles its version.                       *)
LEMMA EndSettled ==
    ASSUME ConsistAssumption, TInv, NoError, EndConsistency
    PROVE  Settled \in Int /\ Settled' = Settled + One(mode[action.by] = "write")
<1>e. EndFacts
  BY EndEffect
<1>0. PICK p \in Procs : p = action.by
  BY <1>e DEF EndFacts
<1>1. /\ version' = version /\ mode' = mode /\ pc[p] = "consist" /\ version \in Nat
      /\ pc'[p] = "granted" /\ \A q \in Procs \ {p} : pc'[q] = pc[q]
  BY <1>0, <1>e DEF EndFacts, TInv, Shape, ServerShape, NoError
<1>2. WAhead' = WAhead \ {p} /\ (p \in WAhead <=> mode[p] = "write")
  BY <1>1 DEF WAhead, Ahead
<1>3. Cardinality(WAhead') = (IF p \in WAhead THEN Cardinality(WAhead) - 1 ELSE Cardinality(WAhead))
  BY <1>2, WAheadType, FS_RemoveElement
<1>4. Settled' = Settled + One(mode[p] = "write")
  BY <1>1, <1>2, <1>3, WAheadType DEF Settled, One
<1> QED BY <1>0, <1>4, SettledType

(* A reader's open leaves the monitor: no version moves.                   *)
LEMMA EndRead ==
    ASSUME ConsistAssumption, OneEach, TInv, Data, [Next]_vars, EndConsistency,
           mode[action.by] # "write"
    PROVE  /\ DirtyCurrent' /\ OpenCurrent' /\ GrantCurrent' /\ CurrentFresh' /\ WriterAlone'
<1>e. EndFacts
  BY EndEffect
<1>0. /\ NoError /\ pc'[action.by] = "granted" /\ UNCHANGED <<handle, fresh, grant, mode>>
      /\ \A q \in Procs \ {action.by} : pc'[q] = pc[q]
  BY <1>e DEF EndFacts, Data, NoError, clientVars, history
<1>1. \A q \in Procs : (Arrives(q)' <=> Arrives(q)) /\ (Writer(q)' => Writer(q))
  <2> SUFFICES ASSUME NEW q \in Procs PROVE (Arrives(q)' <=> Arrives(q)) /\ (Writer(q)' => Writer(q))
    OBVIOUS
  <2>1. Arrives(q)' <=> Arrives(q)
    BY <1>0, EndArrives
  <2>2. Writer(q)' => Writer(q)
    BY <1>0 DEF Writer
  <2> QED BY <2>1, <2>2
<1>2. Settled' = Settled
  BY <1>0, EndSettled DEF One
<1>3. ASSUME NEW c \in Clients PROVE Lag(c)' = Lag(c) /\ (Current(c)' <=> Current(c))
  <2>1. Arriving(c)' <=> Arriving(c)
    BY <1>1 DEF Arriving
  <2>2. One(Arriving(c)') = One(Arriving(c))
    BY <2>1 DEF One
  <2>3. Lag(c)' = Lag(c)
    BY <1>0, <2>2 DEF Lag
  <2> QED BY <1>0, <1>1, <1>2, <2>3 DEF Current
<1>4. DirtyCurrent'
  BY <1>0, <1>2, <1>3 DEF Data, DirtyCurrent, Dirty
<1>5. OpenCurrent'
  BY <1>0, <1>2 DEF Data, OpenCurrent, Live
<1>6. GrantCurrent'
  BY <1>0, <1>2 DEF Data, GrantCurrent
<1>7. CurrentFresh'
  BY <1>0, <1>3 DEF Data, CurrentFresh
<1>8. WriterAlone'
  BY <1>1, <1>3 DEF Data, WriterAlone
<1> QED BY <1>4, <1>5, <1>6, <1>7, <1>8

(* A writer's open leaves the monitor: the version it carries becomes the  *)
(* settled one, and no other workstation may go on caching the old one.    *)
LEMMA EndWrite ==
    ASSUME ConsistAssumption, OneEach, TInv, CInv, Sharing, Versions, Believed, Owned, Data, Safe,
           [Next]_vars, EndConsistency, mode[action.by] = "write"
    PROVE  /\ DirtyCurrent' /\ OpenCurrent' /\ GrantCurrent' /\ CurrentFresh' /\ WriterAlone'
<1>e. EndFacts
  BY EndEffect
<1>b. PICK b \in Procs : b = action.by
  BY <1>e DEF EndFacts
<1> DEFINE o == Host[b]
<1>0. /\ NoError /\ pc'[b] = "granted" /\ pc[b] = "consist" /\ UNCHANGED <<handle, fresh, grant, mode>>
      /\ \A q \in Procs \ {b} : pc'[q] = pc[q]
      /\ o \in Clients /\ Holds(b) /\ \A c \in Clients : msgs[c] = {}
  BY <1>b, <1>e, HostType DEF EndFacts, Data, NoError, clientVars, history, Holds, Waits
<1>1. /\ \A q \in Procs : Arrives(q)' <=> Arrives(q) \/ q = b
      /\ ~Arrives(b) /\ ~Arriving(o)
  BY <1>b, <1>0, EndArrives
<1>2. Settled \in Int /\ Settled' = Settled + 1
  BY <1>0, EndSettled DEF One
<1>3. \A q \in Procs \ {b} : Holds(q) => ~entry[Host[q]].cached
  BY <1>b, EndAlone
<1>4. \A c \in Clients : handle[c].version \in Nat
  BY HandleType
<1>13. Arriving(o)'
  BY <1>1 DEF Arriving
<1>14. ASSUME NEW c \in Clients, c # o PROVE Arriving(c)' <=> Arriving(c)
  BY <1>1, <1>14 DEF Arriving
<1>5. Lag(o)' = Lag(o) + 1 /\ Lag(o) = handle[o].version
  <2>1. One(Arriving(o)') = 1 /\ One(Arriving(o)) = 0
    BY <1>1, <1>13 DEF One
  <2> QED BY <1>0, <1>4, <2>1 DEF Lag
<1>6. ASSUME NEW c \in Clients \ {o}, Current(c)' PROVE FALSE
  <2>1. handle[c].version <= Settled
    BY DEF Versions, Behind, Safe
  <2>2. Arriving(c)
    <3> SUFFICES ASSUME ~Arriving(c) PROVE FALSE
      OBVIOUS
    <3>1. One(Arriving(c)') = 0
      BY <1>14 DEF One
    <3>2. Lag(c)' = handle[c].version /\ Lag(c)' >= Settled'
      BY <1>0, <1>4, <1>6, <3>1 DEF Lag, Current
    <3> QED BY <1>2, <1>4, <2>1, <3>2
  <2>3. PICK p \in Procs : Host[p] = c /\ Arrives(p)
    BY <2>2 DEF Arriving
  <2>4. grant[p].cacheable
    BY <1>0, <1>1, <1>6, <2>3 DEF Current
  <2>5. p # b /\ Pre(p) /\ Holds(p)
    BY <2>3, PreFacts DEF Arrives, Pre
  <2>6. grant[p].cacheable = entry[c].cached
    BY <2>3, <2>5 DEF Believed, Granting, Safe
  <2>7. ~entry[c].cached
    BY <1>3, <2>3, <2>5
  <2> QED BY <2>4, <2>6, <2>7, Zenon
<1>7. Current(o)' => Current(o)
  <2> SUFFICES ASSUME Current(o)' PROVE Current(o)
    OBVIOUS
  <2>1. handle[o].block # "none" /\ Lag(o)' >= Settled'
    BY <1>0 DEF Current
  <2>2. Lag(o) >= Settled
    BY <1>2, <1>4, <1>5, <2>1, <1>0
  <2>3. \A p \in Procs : Host[p] = o => ~Arrives(p)
    BY <1>1 DEF Arriving
  <2> QED BY <2>1, <2>2, <2>3 DEF Current
<1>8. DirtyCurrent'
  <2> SUFFICES ASSUME NEW c \in Clients, Dirty(c)' PROVE Lag(c)' = Settled'
    BY DEF DirtyCurrent
  <2>1. Dirty(c)
    BY <1>0 DEF Dirty
  <2>2. c = o
    <3> SUFFICES ASSUME c # o PROVE FALSE
      OBVIOUS
    <3>1. Unused(o)
      BY <1>0, <2>1 DEF Owned, Exclusive, Dirtyable, Safe
    <3>2. entry[o].ref = 1
      BY <1>0, OneHolder DEF Safe
    <3> QED BY <3>1, <3>2 DEF Unused
  <2>3. Lag(o) = Settled
    BY <2>1, <2>2 DEF Data, DirtyCurrent
  <2> QED BY <1>2, <1>5, <2>2, <2>3
<1>9. OpenCurrent'
  <2> SUFFICES ASSUME NEW q \in Procs, Live(q)', handle'[Host[q]].cacheable PROVE FALSE
    BY DEF OpenCurrent
  <2>1. q # b /\ Live(q) /\ Holds(q) /\ handle[Host[q]].cacheable
    BY <1>0 DEF Live, Holds
  <2>2. entry[Host[q]].cached
    BY <2>1, HostType DEF Believed, Using, Live, Safe
  <2> QED BY <1>3, <2>1, <2>2
<1>10. GrantCurrent'
  <2> SUFFICES ASSUME NEW q \in Procs, pc'[q] \in {"replied", "install"}, grant'[q].cacheable PROVE FALSE
    BY DEF GrantCurrent
  <2>1. q # b /\ Pre(q) /\ Holds(q) /\ grant[q].cacheable
    BY <1>0 DEF Pre, Holds
  <2>2. grant[q].cacheable = entry[Host[q]].cached
    BY <2>1, HostType DEF Believed, Granting, Safe
  <2>3. ~entry[Host[q]].cached
    BY <1>3, <2>1
  <2> QED BY <2>1, <2>2, <2>3, Zenon
<1>11. CurrentFresh'
  <2> SUFFICES ASSUME NEW c \in Clients, Current(c)' PROVE c \in fresh'
    BY DEF CurrentFresh
  <2>1. c = o /\ Current(o)
    BY <1>6, <1>7
  <2> QED BY <1>0, <2>1 DEF Data, CurrentFresh
<1>12. WriterAlone'
  <2> SUFFICES ASSUME NEW q \in Procs, NEW c \in Clients, Writer(q)', c # Host[q], Current(c)'
               PROVE  FALSE
    BY DEF WriterAlone
  <2>1. c = o /\ Current(o)
    BY <1>6, <1>7
  <2>2. q # b /\ Writer(q)
    BY <1>0, <2>1 DEF Writer
  <2> QED BY <1>0, <2>1, <2>2 DEF Data, WriterAlone
<1> QED BY <1>8, <1>9, <1>10, <1>11, <1>12

(* What was written last stays in reach through the end of a consistency   *)
(* action.                                                                 *)
LEMMA DataEnd ==
    ASSUME ConsistAssumption, OneEach, TInv, CInv, Pipe, Sharing, Versions, Believed, Owned, Data,
           Safe, Safe', [Next]_vars, EndConsistency
    PROVE  Data'
<1>e. EndFacts
  BY EndEffect
<1>0. UNCHANGED <<handle, fresh>> /\ \A p \in Procs : ~IoOpen(p)
  BY <1>e DEF EndFacts, clientVars, history, IoOpen, InProgress, serverVars, NoAction, EndConsistency
<1>1. NoError' /\ ToldClean'
  BY NoErrorStep, ToldCleanStep DEF Data
<1>2. DirtyFresh' /\ OnlyCached'
  BY <1>0 DEF Data, DirtyFresh, OnlyCached, Dirty
<1>3. BlocksQuiet
  BY <1>0, BlocksSame DEF Data
<1>4. DirtyGranted'
  BY <1>0, <1>3, DirtyGrantedStep
<1>5. DirtyCurrent' /\ OpenCurrent' /\ GrantCurrent' /\ CurrentFresh' /\ WriterAlone'
  BY EndRead, EndWrite
<1> QED BY <1>1, <1>2, <1>3, <1>4, <1>5 DEF Data, BlocksQuiet

(* While a writer has the file no other workstation in use is cached.      *)
LEMMA WriterShuts ==
    ASSUME ConsistAssumption, OneEach, TInv, CInv, Sharing, trouble = {}, NEW q \in Procs, Writer(q),
           NEW c \in Clients, c # Host[q], ~Unused(c)
    PROVE  ~entry[c].cached
<1>1. Holds(q) /\ Host[q] \in Clients /\ mode[q] = "write" /\ pc[q] # "consist"
  BY HostType DEF Writer, Holds
<1>2. entry[Host[q]].write > 0
  <2>1. entry[Host[q]].write = One(mode[q] = "write")
    BY <1>1, OneHolder
  <2> QED BY <1>1, <2>1 DEF One
<1>3. Conflict(c, Host[q])
  BY <1>2 DEF Conflict
<1>4. ~(action.phase = "wait" /\ Host[q] = Host[action.by])
  <2> SUFFICES ASSUME action.phase = "wait", Host[q] = Host[action.by] PROVE FALSE
    OBVIOUS
  <2>1. action.by \in Procs /\ pc[action.by] = "consist"
    BY ActionFacts
  <2> QED BY <1>1, <2>1 DEF OneEach
<1> QED BY <1>1, <1>3, <1>4 DEF Sharing, Separated

(* What an install does to the block and the version of the workstation.   *)
LEMMA InstallBlock ==
    ASSUME ConsistAssumption, OneEach, TInv, Pipe, Versions, Data, Safe, NEW p \in Procs, IoOpen(p)
    PROVE  /\ handle'[Host[p]].block # "none" => /\ handle'[Host[p]].block = handle[Host[p]].block
                                                 /\ Current(Host[p])
           /\ Dirty(Host[p]) => Dirty(Host[p])'
           /\ handle'[Host[p]].cacheable => handle'[Host[p]].version = Settled
           /\ ~handle'[Host[p]].cacheable => handle'[Host[p]].block = "none"
<1> DEFINE c == Host[p]
           g == grant[p]
           h == handle[c]
<1>e. InstallFacts(p)
  BY InstallEffect
<1>0. /\ pc[p] = "install" /\ c \in Clients /\ c \notin misled /\ Pre(p)
      /\ h.version \in Nat /\ g.version \in Nat /\ Settled \in Int
      /\ g.cacheable \in BOOLEAN
  <2>1. h.version \in Nat
    BY HandleType, HostType
  <2>2. g.version \in Nat /\ g.cacheable \in BOOLEAN
    BY DEF TInv, Shape, ProcShape
  <2> QED BY <1>e, <2>1, <2>2, SettledType, HostType DEF InstallFacts, Pre, Safe
<1>1. h.version <= Settled
  BY <1>0 DEF Versions, Behind
<1>2. g.cacheable => g.version = Settled
  BY <1>0 DEF Data, GrantCurrent
<1>3. /\ handle'[c].cacheable = g.cacheable
      /\ handle'[c].version = (IF g.version > h.version THEN g.version ELSE h.version)
      /\ handle'[c].block = IF ~g.cacheable \/ (IF mode[p] = "write" THEN h.version + 1 < g.version
                                                ELSE h.version < g.version)
                            THEN "none" ELSE h.block
  BY <1>e DEF InstallFacts
<1>4. Arriving(c) <=> mode[p] = "write"
  BY <1>0 DEF Arriving, Arrives, OneEach
<1>5. Lag(c) = h.version + One(mode[p] = "write")
  BY <1>4 DEF Lag, One
<1>6. ASSUME handle'[c].block # "none" PROVE handle'[c].block = h.block /\ Current(c)
  <2>1. g.cacheable /\ handle'[c].block = h.block /\ h.block # "none"
        /\ ~(IF mode[p] = "write" THEN h.version + 1 < g.version ELSE h.version < g.version)
    BY <1>3, <1>6
  <2>2. Lag(c) >= Settled
    BY <1>0, <1>2, <1>5, <2>1 DEF One
  <2>3. \A q \in Procs : Host[q] = c /\ Arrives(q) => grant[q].cacheable
    BY <2>1 DEF OneEach
  <2> QED BY <2>1, <2>2, <2>3 DEF Current
<1>7. ASSUME Dirty(c) PROVE handle'[c].block = "dirty"
  <2>1. g.cacheable /\ Lag(c) = Settled
    BY <1>0, <1>7 DEF Data, DirtyGranted, DirtyCurrent
  <2>2. ~(IF mode[p] = "write" THEN h.version + 1 < g.version ELSE h.version < g.version)
    BY <1>0, <1>2, <1>5, <2>1 DEF One
  <2> QED BY <1>3, <1>7, <2>1, <2>2 DEF Dirty
<1>8. ASSUME handle'[c].cacheable PROVE handle'[c].version = Settled
  <2>1. g.cacheable
    BY <1>3, <1>8, Zenon
  <2> QED BY <1>0, <1>1, <1>2, <1>3, <2>1
<1>9. ASSUME ~handle'[c].cacheable PROVE handle'[c].block = "none"
  <2>1. ~g.cacheable
    BY <1>3, <1>9, Zenon
  <2> QED BY <1>3, <2>1
<1> QED BY <1>6, <1>7, <1>8, <1>9 DEF Dirty

(* What was written last stays in reach through installing an open on its  *)
(* workstation (Fscache_UpdateFile).                                       *)
LEMMA DataInstall ==
    ASSUME ConsistAssumption, OneEach, TInv, CInv, Pipe, Versions, Owned, Data, Safe, Safe', [Next]_vars,
           NEW p \in Procs, IoOpen(p)
    PROVE  Data'
<1> DEFINE c == Host[p]
<1>e. InstallFacts(p)
  BY InstallEffect
<1>0. /\ pc[p] = "install" /\ pc'[p] = "open" /\ c \in Clients /\ mode' = mode /\ action' = action
      /\ \A q \in Procs \ {p} : pc'[q] = pc[q] /\ grant'[q] = grant[q] /\ Host[q] # c
      /\ \A d \in Clients \ {c} : handle'[d] = handle[d]
      /\ fresh' = IF handle'[c].block = "none" THEN fresh \ {c} ELSE fresh
      /\ Server # c
  BY <1>e, FreshType DEF InstallFacts, serverVars, OneEach
<1>b. /\ handle'[c].block # "none" => handle'[c].block = handle[c].block /\ Current(c)
      /\ Dirty(c) => Dirty(c)'
      /\ handle'[c].cacheable => handle'[c].version = Settled
      /\ ~handle'[c].cacheable => handle'[c].block = "none"
  BY InstallBlock
<1>s. Settled' = Settled
  <2>1. ~EndConsistency
    BY <1>0 DEF EndConsistency, IoOpen, serverVars, NoAction
  <2> QED BY <2>1, SettledSame
<1>a. /\ ~Arrives(p)' /\ \A q \in Procs \ {p} : (Arrives(q)' <=> Arrives(q)) /\ (Writer(q)' <=> Writer(q))
      /\ Writer(p)' => Writer(p)
  BY <1>0 DEF Arrives, Writer
<1>c. ASSUME NEW d \in Clients, d # c PROVE Lag(d)' = Lag(d) /\ (Current(d)' => Current(d))
  <2>1. Arriving(d)' <=> Arriving(d)
    BY <1>0, <1>a, <1>c DEF Arriving
  <2>2. One(Arriving(d)') = One(Arriving(d))
    BY <2>1 DEF One
  <2>3. Lag(d)' = Lag(d)
    BY <1>0, <1>c, <2>2 DEF Lag
  <2>4. \A q \in Procs : Host[q] = d => q # p
    BY <1>c
  <2> QED BY <1>0, <1>a, <1>c, <1>s, <2>3, <2>4 DEF Current
<1>d. ASSUME NEW d \in Clients, Current(d)' PROVE Current(d)
  BY <1>b, <1>c, <1>d DEF Current
<1>f. ASSUME NEW d \in Clients, Dirty(d)' PROVE Dirty(d) /\ (d \in fresh => d \in fresh')
  BY <1>0, <1>b, <1>f DEF Dirty
<1>1. NoError' /\ ToldClean'
  BY NoErrorStep, ToldCleanStep DEF Data
<1>2. DirtyFresh'
  BY <1>f DEF Data, DirtyFresh
<1>3. DataKept'
  <2>1. Server \in fresh => Server \in fresh'
    BY <1>0
  <2>2. ASSUME NEW d \in fresh \ {Server}, Dirty(d) PROVE d \in fresh' /\ Dirty(d)'
    <3>1. d \in Clients
      BY FreshType
    <3>2. Dirty(d)'
      BY <1>0, <1>b, <2>2, <3>1 DEF Dirty
    <3> QED BY <1>f, <3>1, <3>2
  <2> QED BY <2>1, <2>2 DEF Data, DataKept, Dirty
<1>4. OnlyCached'
  <2> SUFFICES ASSUME NEW d \in Clients, ~handle'[d].cacheable PROVE handle'[d].block = "none"
    BY DEF OnlyCached
  <2>1. CASE d = c
    BY <1>b, <2>1
  <2>2. CASE d # c
    <3>1. handle'[d] = handle[d]
      BY <1>0, <2>2
    <3>2. ~handle[d].cacheable
      BY <3>1, Zenon
    <3> QED BY <3>1, <3>2 DEF Data, OnlyCached
  <2> QED BY <2>1, <2>2
<1>5. DirtyGranted'
  <2> SUFFICES ASSUME NEW q \in Procs, Pre(q)', Dirty(Host[q])' PROVE grant'[q].cacheable
    BY DEF DirtyGranted
  <2>1. q # p /\ Pre(q)
    BY <1>0 DEF Pre, Waits
  <2>2. Dirty(Host[q])
    BY <1>f, HostType
  <2>3. grant[q].cacheable /\ grant'[q] = grant[q]
    BY <1>0, <2>1, <2>2 DEF Data, DirtyGranted
  <2> QED BY <2>3, Zenon
<1>6. DirtyCurrent'
  <2> SUFFICES ASSUME NEW d \in Clients, Dirty(d)' PROVE Lag(d)' = Settled
    BY <1>s DEF DirtyCurrent
  <2>1. CASE d = c
    <3>1. handle'[c].version = Settled
      BY <1>b, <2>1 DEF Dirty
    <3>2. ~Arriving(c)'
      BY <1>0, <1>a DEF Arriving
    <3>3. One(Arriving(c)') = 0
      BY <3>2 DEF One
    <3> QED BY <2>1, <3>1, <3>3, SettledType DEF Lag
  <2>2. CASE d # c
    BY <1>c, <1>f, <2>2 DEF Data, DirtyCurrent
  <2> QED BY <2>1, <2>2
<1>7. OpenCurrent'
  <2> SUFFICES ASSUME NEW q \in Procs, Live(q)', handle'[Host[q]].cacheable
               PROVE  handle'[Host[q]].version = Settled
    BY <1>s DEF OpenCurrent
  <2>1. CASE q = p
    BY <1>b, <2>1
  <2>2. CASE q # p
    <3>1. Live(q) /\ handle'[Host[q]] = handle[Host[q]]
      BY <1>0, <2>2, HostType DEF Live
    <3>2. handle[Host[q]].cacheable
      BY <3>1, Zenon
    <3> QED BY <3>1, <3>2 DEF Data, OpenCurrent
  <2> QED BY <2>1, <2>2
<1>8. GrantCurrent'
  <2>1. ~EndConsistency
    BY <1>0 DEF EndConsistency, NoAction
  <2> QED BY <2>1, GrantCurrentStep DEF Data
<1>9. CurrentFresh'
  <2> SUFFICES ASSUME NEW d \in Clients, Current(d)' PROVE d \in fresh'
    BY DEF CurrentFresh
  <2>1. d \in fresh /\ handle'[d].block # "none"
    BY <1>d DEF Data, CurrentFresh, Current
  <2> QED BY <1>0, <2>1
<1>10. WriterAlone'
  <2> SUFFICES ASSUME NEW q \in Procs, NEW d \in Clients, Writer(q)', d # Host[q], Current(d)'
               PROVE  FALSE
    BY DEF WriterAlone
  <2>1. Writer(q) /\ Current(d)
    BY <1>a, <1>d
  <2> QED BY <2>1 DEF Data, WriterAlone
<1> QED BY <1>1, <1>2, <1>3, <1>4, <1>5, <1>6, <1>7, <1>8, <1>9, <1>10 DEF Data

(* A workstation with dirty blocks shares the file with no other open.     *)
LEMMA OpenExcludes ==
    ASSUME ConsistAssumption, OneEach, TInv, CInv, Owned, Safe, NEW p \in Procs, pc[p] = "open",
           NEW d \in Clients, Dirty(d)
    PROVE  d = Host[p]
<1> SUFFICES ASSUME d # Host[p] PROVE FALSE
  OBVIOUS
<1>1. Holds(p) /\ Host[p] \in Clients /\ trouble = {}
  BY HostType DEF Holds, Safe
<1>2. ~Unused(Host[p])
  <2>1. entry[Host[p]].ref = 1
    BY <1>1, OneHolder
  <2> QED BY <2>1 DEF Unused
<1>3. action.phase = "wait" /\ Host[p] = Host[action.by]
  BY <1>1, <1>2 DEF Owned, Exclusive, Dirtyable
<1>4. action.by \in Procs /\ pc[action.by] = "consist"
  BY <1>3, ActionFacts
<1> QED BY <1>3, <1>4 DEF OneEach

(* What a read or a write leaves alone.                                    *)
LEMMA InPlace ==
    ASSUME ConsistAssumption, OneEach, TInv, CInv, Pipe, Owned, Data, Safe, Safe', [Next]_vars,
           NEW c \in Clients, BlockOnly(c)
    PROVE  /\ NoError' /\ ToldClean' /\ OpenCurrent' /\ GrantCurrent' /\ Settled' = Settled
           /\ \A q \in Procs : (Writer(q)' <=> Writer(q)) /\ (Pre(q)' <=> Pre(q))
                               /\ grant'[q].cacheable = grant[q].cacheable
           /\ \A d \in Clients : Lag(d)' = Lag(d)
           /\ \A d \in Clients \ {c} : Current(d)' => Current(d)
<1>0. UNCHANGED <<pc, mode, grant, action, version>>
  BY DEF BlockOnly, procVars, serverVars
<1>1. ~EndConsistency
  BY <1>0 DEF EndConsistency, NoAction
<1>2. Settled' = Settled
  BY <1>1, SettledSame
<1>3. \A q \in Procs : (Arrives(q)' <=> Arrives(q)) /\ (Writer(q)' <=> Writer(q)) /\ (Pre(q)' <=> Pre(q))
                       /\ grant'[q].cacheable = grant[q].cacheable
  BY <1>0 DEF Arrives, Writer, Pre, Waits
<1>4. ASSUME NEW d \in Clients PROVE Lag(d)' = Lag(d)
  <2>1. Arriving(d)' <=> Arriving(d)
    BY <1>3 DEF Arriving
  <2>2. One(Arriving(d)') = One(Arriving(d))
    BY <2>1 DEF One
  <2> QED BY <2>2 DEF Lag, BlockOnly
<1>5. ASSUME NEW d \in Clients \ {c}, Current(d)' PROVE Current(d)
  BY <1>0, <1>2, <1>3, <1>4, <1>5 DEF Current, BlockOnly
<1>6. NoError' /\ ToldClean'
  BY NoErrorStep, ToldCleanStep DEF Data
<1>7. GrantCurrent'
  BY <1>1, GrantCurrentStep DEF Data
<1>8. OpenCurrent'
  <2> SUFFICES ASSUME NEW q \in Procs, Live(q)', handle'[Host[q]].cacheable
               PROVE  handle'[Host[q]].version = Settled
    BY <1>2 DEF OpenCurrent
  <2>1. Live(q) /\ Host[q] \in Clients
    BY <1>0, HostType DEF Live
  <2>2. handle[Host[q]].cacheable
    <3>1. handle'[Host[q]].cacheable = handle[Host[q]].cacheable
      BY <2>1 DEF BlockOnly
    <3> QED BY <3>1, Zenon
  <2> QED BY <2>1, <2>2 DEF Data, OpenCurrent, BlockOnly
<1> QED BY <1>2, <1>3, <1>4, <1>5, <1>6, <1>7, <1>8

(* A workstation that caches an open file has no writer elsewhere.         *)
LEMMA OpenCached ==
    ASSUME ConsistAssumption, OneEach, TInv, CInv, Sharing, Believed, Safe, NEW p \in Procs, pc[p] = "open",
           handle[Host[p]].cacheable, NEW q \in Procs, Writer(q)
    PROVE  Host[p] = Host[q]
<1> SUFFICES ASSUME Host[p] # Host[q] PROVE FALSE
  OBVIOUS
<1>1. Holds(p) /\ Host[p] \in Clients /\ trouble = {} /\ misled = {}
  BY HostType DEF Holds, Safe
<1>2. entry[Host[p]].cached
  BY <1>1 DEF Believed, Using
<1>3. ~Unused(Host[p])
  <2>1. entry[Host[p]].ref = 1
    BY <1>1, OneHolder
  <2> QED BY <2>1 DEF Unused
<1> QED BY <1>1, <1>2, <1>3, WriterShuts

(* What was written last stays in reach through a read that fills the      *)
(* cache.                                                                  *)
LEMMA DataFill ==
    ASSUME ConsistAssumption, OneEach, TInv, CInv, Pipe, Sharing, Believed, Owned, Data, Safe, Safe',
           [Next]_vars, NEW p \in Procs, ReadFill(p)
    PROVE  Data'
<1> DEFINE c == Host[p]
<1>e. FillFacts(p)
  BY FillEffect
<1>0. /\ c \in Clients /\ pc[p] = "open" /\ handle[c].cacheable /\ handle[c].block = "none"
      /\ handle'[c].block = "clean"
      /\ \A d \in Clients \ {c} : handle'[d] = handle[d]
  BY <1>e DEF FillFacts
<1>b. BlockOnly(c)
  BY <1>e DEF FillFacts, BlockOnly
<1>i. /\ NoError' /\ ToldClean' /\ OpenCurrent' /\ GrantCurrent' /\ Settled' = Settled
      /\ \A q \in Procs : (Writer(q)' <=> Writer(q)) /\ (Pre(q)' <=> Pre(q))
                          /\ grant'[q].cacheable = grant[q].cacheable
      /\ \A d \in Clients : Lag(d)' = Lag(d)
      /\ \A d \in Clients \ {c} : Current(d)' => Current(d)
  BY <1>0, <1>b, InPlace
<1>1. \A d \in Clients : Dirty(d)' => Dirty(d) /\ d # c
  BY <1>0 DEF Dirty
<1>2. Server \in fresh
  <2> SUFFICES ASSUME Server \notin fresh PROVE FALSE
    OBVIOUS
  <2>1. PICK d \in fresh \ {Server} : Dirty(d)
    BY DEF Data, DataKept, Dirty
  <2>2. d \in Clients
    BY FreshType
  <2>3. d = c
    BY <1>0, <2>1, <2>2, OpenExcludes
  <2> QED BY <1>0, <2>1, <2>3 DEF Dirty
<1>3. fresh' = fresh \cup {c}
  BY <1>e, <1>2 DEF FillFacts
<1>4. DirtyFresh' /\ DataKept'
  BY <1>1, <1>2, <1>3 DEF Data, DirtyFresh, DataKept
<1>5. OnlyCached'
  <2> SUFFICES ASSUME NEW d \in Clients, ~handle'[d].cacheable PROVE handle'[d].block = "none"
    BY DEF OnlyCached
  <2>1. ~handle[d].cacheable
    <3>1. handle'[d].cacheable = handle[d].cacheable
      BY <1>b DEF BlockOnly
    <3> QED BY <3>1, Zenon
  <2> QED BY <1>0, <2>1 DEF Data, OnlyCached
<1>6. DirtyGranted'
  <2> SUFFICES ASSUME NEW q \in Procs, Pre(q)', Dirty(Host[q])' PROVE grant'[q].cacheable
    BY DEF DirtyGranted
  <2>1. grant[q].cacheable
    BY <1>1, <1>i, HostType DEF Data, DirtyGranted
  <2> QED BY <1>i, <2>1, Zenon
<1>7. DirtyCurrent'
  BY <1>1, <1>i DEF Data, DirtyCurrent
<1>8. CurrentFresh'
  BY <1>3, <1>i DEF Data, CurrentFresh
<1>9. WriterAlone'
  <2> SUFFICES ASSUME NEW q \in Procs, NEW d \in Clients, Writer(q)', d # Host[q], Current(d)'
               PROVE  FALSE
    BY DEF WriterAlone
  <2>1. Writer(q)
    BY <1>i
  <2>2. d # c
    BY <1>0, <2>1, OpenCached
  <2> QED BY <1>i, <2>1, <2>2 DEF Data, WriterAlone
<1> QED BY <1>i, <1>4, <1>5, <1>6, <1>7, <1>8, <1>9 DEF Data

(* What was written last stays in reach through a write, into the cache or *)
(* through it.                                                             *)
LEMMA DataWrite ==
    ASSUME ConsistAssumption, OneEach, TInv, CInv, Pipe, Sharing, Believed, Owned, Data, Safe, Safe',
           [Next]_vars, NEW p \in Procs, Write(p)
    PROVE  Data'
<1> DEFINE c == Host[p]
<1>e. WriteFacts(p)
  BY WriteEffect
<1>0. /\ c \in Clients /\ c # Server /\ pc[p] = "open" /\ mode[p] = "write" /\ Writer(p)
      /\ \A d \in Clients \ {c} : handle'[d] = handle[d]
      /\ handle[c].cacheable => handle'[c].block = "dirty" /\ fresh' = {c}
      /\ ~handle[c].cacheable => handle' = handle /\ fresh' = {Server} /\ handle[c].block = "none"
  BY <1>e, FreshType DEF WriteFacts, Writer, Data, OnlyCached
<1>b. BlockOnly(c)
  <2>1. \A d \in Clients : /\ handle'[d].version = handle[d].version
                           /\ handle'[d].cacheable = handle[d].cacheable
    BY <1>0, <1>e DEF WriteFacts
  <2> QED BY <1>e, <2>1 DEF WriteFacts, BlockOnly
<1>i. /\ NoError' /\ ToldClean' /\ OpenCurrent' /\ GrantCurrent' /\ Settled' = Settled
      /\ \A q \in Procs : (Writer(q)' <=> Writer(q)) /\ (Pre(q)' <=> Pre(q))
                          /\ grant'[q].cacheable = grant[q].cacheable
      /\ \A d \in Clients : Lag(d)' = Lag(d)
      /\ \A d \in Clients \ {c} : Current(d)' => Current(d)
  BY <1>0, <1>b, InPlace
<1>1. ASSUME NEW d \in Clients, Dirty(d)' PROVE d = c /\ handle[c].cacheable
  <2>1. d = c
    <3> SUFFICES ASSUME d # c PROVE FALSE
      OBVIOUS
    <3>1. Dirty(d)
      BY <1>0, <1>1 DEF Dirty
    <3> QED BY <1>0, <3>1, OpenExcludes
  <2> QED BY <1>0, <1>1, <2>1 DEF Dirty
<1>2. DirtyFresh' /\ DataKept'
  <2>1. DirtyFresh'
    BY <1>0, <1>1 DEF DirtyFresh
  <2>2. DataKept'
    BY <1>0 DEF DataKept
  <2> QED BY <2>1, <2>2
<1>3. OnlyCached'
  <2> SUFFICES ASSUME NEW d \in Clients, ~handle'[d].cacheable PROVE handle'[d].block = "none"
    BY DEF OnlyCached
  <2>1. ~handle[d].cacheable
    <3>1. handle'[d].cacheable = handle[d].cacheable
      BY <1>b DEF BlockOnly
    <3> QED BY <3>1, Zenon
  <2> QED BY <1>0, <2>1 DEF Data, OnlyCached
<1>4. DirtyGranted'
  <2> SUFFICES ASSUME NEW q \in Procs, Pre(q)', Dirty(Host[q])' PROVE FALSE
    BY DEF DirtyGranted
  <2>1. Host[q] = c /\ Pre(q)
    BY <1>1, <1>i, HostType
  <2> QED BY <1>0, <2>1 DEF OneEach, Pre, Waits
<1>5. DirtyCurrent'
  <2> SUFFICES ASSUME NEW d \in Clients, Dirty(d)' PROVE Lag(d)' = Settled
    BY <1>i DEF DirtyCurrent
  <2>1. d = c /\ handle[c].cacheable
    BY <1>1
  <2>2. handle[c].version = Settled
    BY <1>0, <2>1 DEF Data, OpenCurrent, Live
  <2>3. ~Arriving(c)
    BY <1>0 DEF Arriving, Arrives, OneEach
  <2>4. One(Arriving(c)) = 0
    BY <2>3 DEF One
  <2> QED BY <1>i, <2>1, <2>2, <2>4, SettledType DEF Lag
<1>6. ASSUME NEW d \in Clients, Current(d)' PROVE d = c /\ handle[c].cacheable
  <2>1. d = c
    BY <1>0, <1>6, <1>i DEF Data, WriterAlone
  <2> QED BY <1>0, <1>6, <2>1 DEF Current
<1>7. CurrentFresh'
  BY <1>0, <1>6 DEF CurrentFresh
<1>8. WriterAlone'
  <2> SUFFICES ASSUME NEW q \in Procs, NEW d \in Clients, Writer(q)', d # Host[q], Current(d)'
               PROVE  FALSE
    BY DEF WriterAlone
  <2>1. d = c /\ handle[c].cacheable /\ Writer(q)
    BY <1>6, <1>i
  <2> QED BY <1>0, <2>1, OpenCached
<1> QED BY <1>i, <1>2, <1>3, <1>4, <1>5, <1>7, <1>8 DEF Data

(* The copies of the block stay consistent through every step.             *)
LEMMA DataStep ==
    ASSUME ConsistAssumption, OneEach, TInv, CInv, CInv', Pipe, Sharing, Versions, Believed, Owned, Data,
           Safe, Safe', [Next]_vars
    PROVE  Data'
<1>1. CASE EndConsistency
  BY <1>1, DataEnd
<1>2. ASSUME NEW p \in Procs, IoOpen(p) \/ ReadFill(p) \/ Write(p) PROVE Data'
  BY <1>2, DataInstall, DataFill, DataWrite
<1>3. CASE ~EndConsistency /\ \A p \in Procs : ~IoOpen(p) /\ ~ReadFill(p) /\ ~Write(p)
  BY <1>3, DataQuiet
<1> QED BY <1>1, <1>2, <1>3

(* The invariant for the data holds at the start, where the server has it. *)
LEMMA DataInit ==
    ASSUME ConsistAssumption, Init
    PROVE  DataInv
<1>1. OwnedInv
  BY OwnedInit
<1>2. /\ fresh = {Server} /\ action = NoAction
      /\ \A c \in Clients : handle[c].block = "none" /\ msgs[c] = {}
      /\ \A p \in Procs : pc[p] = "idle"
  BY DEF Init, NoHandle
<1>3. \A c \in Clients : ~Dirty(c) /\ ~Current(c)
  BY <1>2 DEF Dirty, Current
<1>4. NoError /\ DirtyFresh /\ DataKept /\ OnlyCached /\ ToldClean
  BY <1>2, <1>3 DEF NoError, NoAction, DirtyFresh, DataKept, OnlyCached, ToldClean
<1>5. DirtyGranted /\ DirtyCurrent /\ OpenCurrent /\ GrantCurrent /\ CurrentFresh /\ WriterAlone
  BY <1>2, <1>3, HostType DEF DirtyGranted, DirtyCurrent, OpenCurrent, GrantCurrent, CurrentFresh, WriterAlone, Live
<1> QED BY <1>1, <1>4, <1>5 DEF DataInv, Data

(* As long as no workstation is in trouble, misled or discarded (Safe),    *)
(* and one process of each uses the file (OneEach), the copies of the      *)
(* block that carry the settled version are those that hold what was       *)
(* written last, and a writer shuts out other current copies.              *)
THEOREM DataInvHolds == ASSUME OneEach PROVE Spec => []DataInv
<1>1. Init => DataInv
  BY DataInit, ConsistAssumption
<1>2. DataInv /\ [Next]_vars => DataInv'
  <2> SUFFICES ASSUME DataInv, [Next]_vars PROVE DataInv'
    OBVIOUS
  <2>1. OwnedInv /\ SharingInv /\ CountInv /\ TInv
    BY DEF DataInv, OwnedInv, SharingInv, CountInv
  <2>2. SharingInv' /\ CInv'
    BY <2>1, SharingInvStep, ConsistAssumption DEF SharingInv, CountInv
  <2>3. OwnedInv'
    BY <2>1, <2>2, OwnedStep, ConsistAssumption DEF OwnedInv, SharingInv, CountInv, Believed
  <2>4. ASSUME Safe' PROVE Data'
    <3>1. Safe /\ Data
      BY <2>1, <2>4, SafeStep, ConsistAssumption DEF DataInv
    <3> QED BY <2>1, <2>2, <2>4, <3>1, DataStep, ConsistAssumption DEF OwnedInv, SharingInv, CountInv
  <2> QED BY <2>3, <2>4 DEF DataInv
<1> QED BY <1>1, <1>2, PTL DEF Spec

(* Where one process of each workstation uses the file (OneEach), what was *)
(* written last is at the server or in a dirty block of some workstation;  *)
(* no invalidation, scavenging, close or reopen drops it, unless a client  *)
(* crashed, was killed or could not write back (trouble), a version was    *)
(* misread (misled) or case 5 of StartConsistency threw it away            *)
(* (discarded).                                                            *)
THEOREM NoLostUpdateHolds == ASSUME OneEach PROVE Spec => []NoLostUpdate
<1>1. DataInv => NoLostUpdate
  BY DEF DataInv, Safe, Data, NoLostUpdate
<1> QED BY <1>1, DataInvHolds, PTL

(* The invariant for the data implies that reads see what was written      *)
(* last.                                                                   *)
LEMMA DataReads ==
    ASSUME ConsistAssumption, OneEach, DataInv
    PROVE  ReadsLatest
<1> SUFFICES ASSUME NEW p \in Procs, IsOpen(p), Safe
             PROVE  IF handle[Host[p]].cacheable /\ handle[Host[p]].block # "none"
                    THEN Host[p] \in fresh ELSE Server \in fresh
  BY DEF ReadsLatest, Safe
<1>1. TInv /\ CInv /\ Owned /\ Data /\ pc[p] = "open" /\ Host[p] \in Clients
  BY HostType DEF DataInv, OwnedInv, SharingInv, CountInv, IsOpen
<1>2. ASSUME handle[Host[p]].cacheable, handle[Host[p]].block # "none" PROVE Host[p] \in fresh
  <2>1. handle[Host[p]].version = Settled
    BY <1>1, <1>2 DEF Data, OpenCurrent, Live
  <2>2. \A q \in Procs : Host[q] = Host[p] => ~Arrives(q)
    BY <1>1 DEF OneEach, Arrives
  <2>3. Lag(Host[p]) >= Settled
    <3>1. ~Arriving(Host[p])
      BY <2>2 DEF Arriving
    <3>2. One(Arriving(Host[p])) = 0
      BY <3>1 DEF One
    <3> QED BY <1>1, <2>1, <3>2, SettledType DEF Lag
  <2>4. Current(Host[p])
    BY <1>2, <2>2, <2>3 DEF Current
  <2> QED BY <1>1, <2>4 DEF Data, CurrentFresh
<1>3. ASSUME ~(handle[Host[p]].cacheable /\ handle[Host[p]].block # "none") PROVE Server \in fresh
  <2>1. ~Dirty(Host[p])
    BY <1>1, <1>3 DEF Data, OnlyCached, Dirty
  <2>2. \A d \in fresh \ {Server} : d \in Clients
    BY <1>1, FreshType
  <2>3. \A d \in Clients : ~Dirty(d)
    BY <1>1, <2>1, OpenExcludes
  <2> QED BY <1>1, <2>2, <2>3 DEF Data, DataKept, Dirty
<1> QED BY <1>2, <1>3

(* Where one process of each workstation uses the file (OneEach), and as   *)
(* long as no workstation is in trouble, misled or discarded, every open   *)
(* reads what was written last: with sequential sharing because            *)
(* the version of the open (Fsio_FileNameOpen) invalidates an older copy   *)
(* (Fscache_UpdateFile) and the last writer was told to write back, with   *)
(* concurrent sharing because reads go to the server.                      *)
THEOREM ReadsLatestHolds == ASSUME OneEach PROVE Spec => []ReadsLatest
<1>1. DataInv => ReadsLatest
  BY DataReads, ConsistAssumption
<1> QED BY <1>1, DataInvHolds, PTL
=============================================================================
