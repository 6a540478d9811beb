-------------------------- MODULE CompactionProofs --------------------------
(***************************************************************************)
(* Test-set compaction for every netlist, number of inputs, tests, packing *)
(* orders and runs, and every crash point.                                 *)
(*                                                                         *)
(* SelectInv follows the reverse walk (what is still wanted is detected by *)
(* no vector already passed), PackInv the packing passes, OutInv the       *)
(* vectors about to be written.  LineageInv says of every pair of runs in  *)
(* the database that the compacted one either is still without its vectors *)
(* or detects what the raw one detects; it needs compaction's simulator to *)
(* see all that the campaign credits.                                      *)
(***************************************************************************)
EXTENDS Compaction, TLAPS, FiniteSetTheorems

CubeRows == [spec : SUBSET PIs, vector : Patterns, members : SUBSET InScope]

Mems ==
  [tests : Seq(Patterns), method : {"reverse", "dynamic"}, targets : SUBSET InScope,
   remaining : SUBSET InScope, idx : Nat,
   chosen : Seq([vector : Patterns, newly : SUBSET InScope]), order : Nat,
   queue : Seq(CubeRows), open : Seq(CubeRows), best : Seq(Patterns), some : BOOLEAN,
   out : Seq(Patterns)]

CompactTypeOK ==
  /\ status \in [Faults -> Statuses]
  /\ runs \in Seq(Runs)
  /\ hits \in [Patterns -> SUBSET InScope]
  /\ captured \in [Patterns -> SUBSET QStems]
  /\ pc \in {"idle", "read", "select", "pack", "net", "insert", "append"}
  /\ mem \in Mems
  /\ pc # "idle" => runs # <<>>   \* the raw run

\* The faults of the contributions, and of the cubes.
Newly(s) == UNION {s[k].newly : k \in DOMAIN s}
Members(s) == UNION {s[k].members : k \in DOMAIN s}

\* Every cube's vector detects the faults it was made for.
Backed(s) == \A k \in DOMAIN s : s[k].members \subseteq hits[s[k].vector]

SelectInv ==
  pc \in {"select", "pack", "net"} =>
    /\ mem.targets = DetectedFaults /\ mem.remaining \subseteq mem.targets
    /\ mem.idx <= Len(mem.tests)
    /\ \A j \in DOMAIN mem.tests : j > mem.idx => hits[mem.tests[j]] \cap mem.remaining = {}
    /\ \A k \in DOMAIN mem.chosen : mem.chosen[k].newly \subseteq hits[mem.chosen[k].vector]
    /\ Newly(mem.chosen) = mem.targets \ mem.remaining

PackInv ==
  pc = "pack" => /\ Backed(mem.queue) /\ Backed(mem.open)
                 /\ Members(mem.queue) \cup Members(mem.open) = mem.targets \ mem.remaining

\* The vectors to be written detect what the raw ones do of the campaign's detected faults.
OutInv ==
  pc \in {"insert", "append"} =>
    \A j \in DOMAIN mem.tests, f \in DetectedFaults :
      f \in hits[mem.tests[j]] => \E k \in DOMAIN mem.out : f \in hits[mem.out[k]]

CompactInv == CompactTypeOK /\ SelectInv /\ PackInv /\ OutInv

\* The run being compacted.
Raw == IF pc = "append" THEN Len(runs) - 1 ELSE Len(runs)

\* What a run's vectors detect, to compaction's simulator.
Sees(r) == {f \in InScope : \E v \in vectors : v.run = r /\ f \in hits[v.pattern]}

LineageInv ==
  /\ \A v \in vectors : v.run \in DOMAIN runs /\ v.pattern \in Patterns
  /\ pc # "idle" =>
       /\ Raw \in DOMAIN runs /\ Sees(Raw) \subseteq DetectedFaults
       /\ \A v \in vectors : v.run = Raw => \E k \in DOMAIN mem.tests : v.pattern = mem.tests[k]
  /\ \A l \in lineage :
       /\ l[1] \in DOMAIN runs /\ l[2] = l[1] + 1 /\ l[2] \in DOMAIN runs
       /\ \/ (\A v \in vectors : v.run # l[2]) /\ runs[l[2]].count # 0
          \/ Sees(l[1]) \subseteq Sees(l[2])

-----------------------------------------------------------------------------
(* Cubes *)

\* A nonempty set of positions has a first one.
LEMMA FirstPosition ==
  ASSUME NEW T \in SUBSET Nat, T # {}
  PROVE  \E x \in T : \A y \in T : x <= y
<1>1. \E x \in T : \A y \in T : ~(<<y, x>> \in OpToRel(<, Nat))
  BY WFMin, NatLessThanWellFounded
<1>2. \E x \in T : \A y \in T : ~(y < x)
  BY <1>1 DEF OpToRel
<1> QED BY <1>2

\* A pattern with one input changed, or two patterns mixed, is a pattern.
LEMMA MergeIsCube == \A a, b \in CubeRows : Merge(a, b) \in CubeRows
<1> SUFFICES ASSUME NEW a \in CubeRows, NEW b \in CubeRows PROVE Merge(a, b) \in CubeRows
  OBVIOUS
<1>1. a.vector \in [PIs -> BOOLEAN] /\ b.vector \in [PIs -> BOOLEAN]
  BY PatternsAreAssignments DEF CubeRows
<1>2. [n \in PIs |-> IF n \in b.spec THEN b.vector[n] ELSE a.vector[n]] \in Patterns
  BY <1>1, PatternsAreAssignments
<1>3. a.spec \cup b.spec \in SUBSET PIs /\ a.members \cup b.members \in SUBSET InScope
  BY DEF CubeRows
<1> QED BY <1>2, <1>3 DEF Merge, CubeRows

LEMMA CubeOfIsCube ==
  ASSUME NEW c \in [vector : Patterns, newly : SUBSET InScope]
  PROVE  CubeOf(c) \in CubeRows /\ CubeOf(c).members = c.newly /\ CubeOf(c).vector = c.vector
<1>1. ExtractCube(c.vector, c.newly) \in SUBSET PIs
  BY DEF ExtractCube
<1>2. (IF Cardinality(c.newly) > DenseFaults THEN PIs ELSE ExtractCube(c.vector, c.newly)) \in SUBSET PIs
  BY <1>1
<1> QED BY <1>2 DEF CubeOf, CubeRows

LEMMA InNewly == \A s, f : f \in Newly(s) <=> \E k \in DOMAIN s : f \in s[k].newly
BY DEF Newly

LEMMA InMembers == \A s, f : f \in Members(s) <=> \E k \in DOMAIN s : f \in s[k].members
BY DEF Members

\* Placing a cube adds its faults to the open cubes' and leaves every open cube backed by
\* the vector it has now, because every merge is simulated.
LEMMA PlaceLosesNothing ==
  ASSUME NEW s \in Seq(CubeRows), NEW c \in CubeRows, Backed(s), c.members \subseteq hits[c.vector]
  PROVE  /\ Place(s, c) \in Seq(CubeRows)
         /\ Backed(Place(s, c))
         /\ Members(Place(s, c)) = Members(s) \cup c.members
<1> DEFINE fit == {k \in DOMAIN s : Fits(s[k], c)}
<1>1. CASE fit = {}
  <2>1. Place(s, c) = Append(s, c)
    BY <1>1 DEF Place
  <2>2. /\ Append(s, c) \in Seq(CubeRows)
        /\ DOMAIN Append(s, c) = DOMAIN s \cup {Len(s) + 1}
        /\ Append(s, c)[Len(s) + 1] = c
        /\ \A k \in DOMAIN s : Append(s, c)[k] = s[k]
    OBVIOUS
  <2>3. Backed(Append(s, c))
    BY <2>2 DEF Backed
  <2>4. Members(Append(s, c)) = Members(s) \cup c.members
    <3>1. \A f : f \in Members(Append(s, c)) <=> f \in Members(s) \/ f \in c.members
      <4>1. ASSUME NEW f, f \in Members(Append(s, c)) PROVE f \in Members(s) \/ f \in c.members
        <5>1. PICK k \in DOMAIN Append(s, c) : f \in Append(s, c)[k].members
          BY <4>1, InMembers
        <5>2. CASE k = Len(s) + 1
          BY <2>2, <5>1, <5>2
        <5>3. CASE k \in DOMAIN s
          <6>1. f \in s[k].members
            BY <2>2, <5>1, <5>3
          <6> QED BY <5>3, <6>1, InMembers
        <5> QED BY <2>2, <5>2, <5>3
      <4>2. ASSUME NEW f, f \in Members(s) PROVE f \in Members(Append(s, c))
        <5>1. PICK k \in DOMAIN s : f \in s[k].members
          BY <4>2, InMembers
        <5>2. k \in DOMAIN Append(s, c) /\ f \in Append(s, c)[k].members
          BY <2>2, <5>1
        <5> QED BY <5>2, InMembers
      <4>3. ASSUME NEW f, f \in c.members PROVE f \in Members(Append(s, c))
        <5>1. Len(s) + 1 \in DOMAIN Append(s, c) /\ f \in Append(s, c)[Len(s) + 1].members
          BY <2>2, <4>3
        <5> QED BY <5>1, InMembers
      <4> QED BY <4>1, <4>2, <4>3
    <3> QED BY <3>1
  <2> QED BY <2>1, <2>2, <2>3, <2>4
<1>2. CASE fit # {}
  <2> DEFINE k0 == CHOOSE i \in fit : \A j \in fit : i <= j
             m == Merge(s[k0], c)
             r == [s EXCEPT ![k0] = m]
  <2>1. Place(s, c) = r
    BY <1>2 DEF Place
  <2>2. k0 \in fit
    <3>1. fit \in SUBSET Nat
      OBVIOUS
    <3>2. \E i \in fit : \A j \in fit : i <= j
      BY <1>2, <3>1, FirstPosition
    <3> QED BY <3>2
  <2> HIDE DEF k0
  <2>3. k0 \in DOMAIN s /\ s[k0] \in CubeRows /\ m.members \subseteq hits[m.vector]
    BY <2>2 DEF Fits
  <2>4. m \in CubeRows /\ m.members = s[k0].members \cup c.members
    BY <2>3, MergeIsCube DEF Merge
  <2> HIDE DEF m, fit
  <2>5. /\ r \in Seq(CubeRows) /\ DOMAIN r = DOMAIN s /\ r[k0] = m
        /\ \A k \in DOMAIN s : k # k0 => r[k] = s[k]
    BY <2>3, <2>4
  <2> HIDE DEF r
  <2>6. Backed(r)
    BY <2>3, <2>5 DEF Backed
  <2>7. Members(r) = Members(s) \cup c.members
    <3>1. \A f : f \in Members(r) <=> f \in Members(s) \/ f \in c.members
      BY <2>3, <2>4, <2>5, InMembers
    <3> QED BY <3>1
  <2> QED BY <2>1, <2>5, <2>6, <2>7
<1> QED BY <1>1, <1>2

\* Whatever its index, an order of _order_cubes holds the cubes it was given.
LEMMA OrderKeepsCubes ==
  ASSUME NEW c \in Seq(CubeRows), NEW i, NEW q \in OrdersOf(c, i)
  PROVE  /\ q \in Seq(CubeRows)
         /\ Members(q) = Members(c)
         /\ Backed(c) => Backed(q)
<1>1. PICK s \in Bijection(DOMAIN c, DOMAIN c) : q = [k \in DOMAIN c |-> c[s[k]]]
  BY DEF OrdersOf
<1>2. /\ \A k \in DOMAIN c : s[k] \in DOMAIN c
      /\ \A j \in DOMAIN c : \E k \in DOMAIN c : s[k] = j
  BY DEF Bijection, Injection, Surjection
<1>3. DOMAIN q = DOMAIN c /\ \A k \in DOMAIN c : q[k] = c[s[k]]
  BY <1>1
<1>4. q \in Seq(CubeRows)
  <2>1. DOMAIN c = 1 .. Len(c) /\ Len(c) \in Nat /\ \A k \in DOMAIN c : c[k] \in CubeRows
    OBVIOUS
  <2> QED BY <1>1, <1>2, <2>1
<1>5. Members(q) = Members(c)
  <2>1. \A f : f \in Members(q) <=> f \in Members(c)
    <3>1. ASSUME NEW f, f \in Members(q) PROVE f \in Members(c)
      <4>1. PICK k \in DOMAIN q : f \in q[k].members
        BY <3>1, InMembers
      <4>2. s[k] \in DOMAIN c /\ f \in c[s[k]].members
        BY <1>2, <1>3, <4>1
      <4> QED BY <4>2, InMembers
    <3>2. ASSUME NEW f, f \in Members(c) PROVE f \in Members(q)
      <4>1. PICK j \in DOMAIN c : f \in c[j].members
        BY <3>2, InMembers
      <4>2. PICK k \in DOMAIN c : s[k] = j
        BY <1>2
      <4>3. k \in DOMAIN q /\ f \in q[k].members
        BY <1>3, <4>1, <4>2
      <4> QED BY <4>3, InMembers
    <3> QED BY <3>1, <3>2
  <2> QED BY <2>1
<1>6. Backed(c) => Backed(q)
  BY <1>2, <1>3, Zenon DEF Backed
<1> QED BY <1>4, <1>5, <1>6

-----------------------------------------------------------------------------
(* Types *)

LEMMA CubesAreCubes ==
  ASSUME mem \in Mems
  PROVE  /\ Cubes \in Seq(CubeRows) /\ DOMAIN Cubes = DOMAIN mem.chosen
         /\ \A k \in DOMAIN mem.chosen : /\ Cubes[k].members = mem.chosen[k].newly
                                         /\ Cubes[k].vector = mem.chosen[k].vector
<1>1. /\ mem.chosen \in Seq([vector : Patterns, newly : SUBSET InScope])
      /\ DOMAIN mem.chosen = 1 .. Len(mem.chosen) /\ Len(mem.chosen) \in Nat
      /\ \A k \in DOMAIN mem.chosen : mem.chosen[k] \in [vector : Patterns, newly : SUBSET InScope]
  <2>1. mem.chosen \in Seq([vector : Patterns, newly : SUBSET InScope])
    BY DEF Mems
  <2>2. \A S : \A s \in Seq(S) : DOMAIN s = 1 .. Len(s) /\ Len(s) \in Nat /\ \A k \in DOMAIN s : s[k] \in S
    OBVIOUS
  <2> QED BY <2>1, <2>2
<1>2. \A k \in DOMAIN mem.chosen : /\ CubeOf(mem.chosen[k]) \in CubeRows
                                   /\ CubeOf(mem.chosen[k]).members = mem.chosen[k].newly
                                   /\ CubeOf(mem.chosen[k]).vector = mem.chosen[k].vector
  BY <1>1, CubeOfIsCube
<1>3. DOMAIN Cubes = DOMAIN mem.chosen /\ \A k \in DOMAIN mem.chosen : Cubes[k] = CubeOf(mem.chosen[k])
  BY DEF Cubes
<1>4. Cubes \in [1 .. Len(mem.chosen) -> CubeRows]
  BY <1>1, <1>2 DEF Cubes
<1> QED BY <1>1, <1>2, <1>3, <1>4

LEMMA VectorsAreSeq ==
  ASSUME NEW S, NEW s \in Seq(S), \A c \in S : c.vector \in Patterns
  PROVE  /\ Vectors(s) \in Seq(Patterns) /\ DOMAIN Vectors(s) = DOMAIN s
         /\ \A k \in DOMAIN s : Vectors(s)[k] = s[k].vector
<1>1. DOMAIN s = 1 .. Len(s) /\ Len(s) \in Nat /\ \A k \in DOMAIN s : s[k] \in S
  OBVIOUS
<1>2. Vectors(s) \in [1 .. Len(s) -> Patterns]
  BY <1>1 DEF Vectors
<1> QED BY <1>1, <1>2 DEF Vectors

LEMMA ReverseIsSeq ==
  ASSUME NEW s \in Seq(Patterns)
  PROVE  /\ Reverse(s) \in Seq(Patterns) /\ Len(Reverse(s)) = Len(s)
         /\ \A k \in DOMAIN s : \E j \in DOMAIN Reverse(s) : Reverse(s)[j] = s[k]
<1>1. Reverse(s) \in [1 .. Len(s) -> Patterns] /\ Len(s) \in Nat
  BY DEF Reverse
<1>2. ASSUME NEW k \in DOMAIN s PROVE \E j \in DOMAIN Reverse(s) : Reverse(s)[j] = s[k]
  <2>1. (Len(s) - k) + 1 \in 1 .. Len(s) /\ (Len(s) - ((Len(s) - k) + 1)) + 1 = k
    OBVIOUS
  <2>2. Reverse(s)[(Len(s) - k) + 1] = s[k]
    BY <2>1 DEF Reverse
  <2> QED BY <1>1, <2>1, <2>2
<1> QED BY <1>1, <1>2

LEMMA FreshIsMem == Fresh \in Mems
BY DEF Fresh, Mems

LEMMA TestsArePatterns ==
  ASSUME NEW t \in TestSets
  PROVE  /\ t \in Seq(Patterns) /\ Held(t) \in Seq(Patterns) /\ DOMAIN Held(t) = DOMAIN t
         /\ ResetHolds = <<>> => Held(t) = t
<1>1. PICK n \in 0 .. MaxTests : t \in [1 .. n -> Patterns]
  BY DEF TestSets
<1>2. n \in Nat /\ DOMAIN t = 1 .. n /\ \A k \in 1 .. n : t[k] \in [PIs -> BOOLEAN]
  BY <1>1, PatternsAreAssignments
<1>3. ASSUME NEW k \in 1 .. n
      PROVE  /\ Held(t)[k] \in Patterns
             /\ ResetHolds = <<>> => Held(t)[k] = t[k]
  <2>1. Held(t)[k] = [i \in PIs |-> IF i \in DOMAIN ResetHolds THEN ResetHolds[i] ELSE t[k][i]]
    BY <1>2 DEF Held
  <2>2. Held(t)[k] \in [PIs -> BOOLEAN]
    BY <1>2, <2>1, HoldsAreLevels
  <2>3. ResetHolds = <<>> => Held(t)[k] = t[k]
    BY <1>2, <2>1
  <2> QED BY <2>2, <2>3, PatternsAreAssignments
<1>4. DOMAIN Held(t) = 1 .. n /\ Held(t) \in [1 .. n -> Patterns]
  BY <1>2, <1>3 DEF Held
<1>5. ResetHolds = <<>> => Held(t) = t
  BY <1>1, <1>3, <1>4
<1> QED BY <1>1, <1>2, <1>4, <1>5

-----------------------------------------------------------------------------
(* What each step does to the local variables *)

LEMMA AtpgFrame ==
  ASSUME AtpgRun
  PROVE  /\ pc = "idle" /\ UNCHANGED <<netlist, lineage>>
         /\ \E t \in TestSets :
              /\ AppendVectors(Len(runs) + 1, 1, Held(t))
              /\ runs' = Append(runs, [NewRun EXCEPT !.status = "complete", !.count = Len(t),
                                                     !.terminal = "COMPLETE"])
              /\ status' = [f \in Faults |->
                              IF f \in {g \in Exposed(Range(Held(t))) : status[g] # "detected"} THEN "detected"
                              ELSE IF status[f] # "absent" THEN status[f]
                              ELSE IF f \in Excluded THEN "excluded" ELSE "undetected"]
              /\ \/ pc' = "idle" /\ mem' = Fresh
                 \/ pc' = "read" /\ mem'.tests = t /\ mem' \in Mems
<1>1. pc = "idle" /\ UNCHANGED <<netlist, lineage>>
  BY DEF AtpgRun
<1>2. PICK t \in TestSets :
         /\ AppendVectors(Len(runs) + 1, 1, Held(t))
         /\ runs' = Append(runs, [NewRun EXCEPT !.status = "complete", !.count = Len(t),
                                                !.terminal = "COMPLETE"])
         /\ status' = [f \in Faults |->
                         IF f \in {g \in Exposed(Range(Held(t))) : status[g] # "detected"} THEN "detected"
                         ELSE IF status[f] # "absent" THEN status[f]
                         ELSE IF f \in Excluded THEN "excluded" ELSE "undetected"]
         /\ IF t = <<>> THEN Leave
            ELSE Goto("read", [Fresh EXCEPT !.tests = t, !.method = IF Dynamic THEN "dynamic" ELSE "reverse"])
  BY DEF AtpgRun
<1>3. t \in Seq(Patterns) /\ (IF Dynamic THEN "dynamic" ELSE "reverse") \in {"reverse", "dynamic"}
  BY TestsArePatterns
<1>4. [Fresh EXCEPT !.tests = t, !.method = IF Dynamic THEN "dynamic" ELSE "reverse"] \in Mems
      /\ [Fresh EXCEPT !.tests = t, !.method = IF Dynamic THEN "dynamic" ELSE "reverse"].tests = t
  BY <1>3, FreshIsMem DEF Mems
<1> QED BY <1>1, <1>2, <1>4 DEF Goto, Leave

LEMMA ReadFrame ==
  ASSUME mem \in Mems, ReadTargets
  PROVE  /\ pc = "read" /\ pc' = "select" /\ UNCHANGED <<storeVars, netlist, lineage>>
         /\ mem'.tests = mem.tests /\ mem'.targets = DetectedFaults
         /\ mem'.remaining = DetectedFaults /\ mem'.idx = Len(mem.tests) /\ mem'.chosen = <<>>
         /\ mem' \in Mems
<1>1. DetectedFaults \in SUBSET InScope /\ mem.tests \in Seq(Patterns) /\ Len(mem.tests) \in Nat
  BY DEF DetectedFaults, Mems
<1> HIDE DEF DetectedFaults
<1>2. mem' = [mem EXCEPT !.targets = DetectedFaults, !.remaining = DetectedFaults,
                         !.idx = Len(mem.tests), !.chosen = <<>>]
      /\ pc = "read" /\ pc' = "select" /\ UNCHANGED <<storeVars, netlist, lineage>>
  BY DEF ReadTargets, Goto, Quiet
<1>3. mem' \in Mems
  <2>1. <<>> \in Seq([vector : Patterns, newly : SUBSET InScope])
    OBVIOUS
  <2> QED BY <1>1, <1>2, <2>1 DEF Mems
<1> QED BY <1>2, <1>3 DEF Mems

LEMMA SelectFrame ==
  ASSUME mem \in Mems, mem.idx <= Len(mem.tests), hits \in [Patterns -> SUBSET InScope], Select
  PROVE  \E v \in Patterns, newly \in SUBSET InScope :
         /\ v = mem.tests[mem.idx] /\ mem.idx \in DOMAIN mem.tests /\ newly = hits[v] \cap mem.remaining
         /\ pc = "select" /\ pc' = "select" /\ UNCHANGED <<storeVars, netlist, lineage>>
         /\ mem'.tests = mem.tests /\ mem'.targets = mem.targets
         /\ mem'.remaining = mem.remaining \ newly /\ mem'.idx = mem.idx - 1
         /\ mem'.chosen = IF newly = {} THEN mem.chosen
                          ELSE Append(mem.chosen, [vector |-> v, newly |-> newly])
         /\ mem' \in Mems
<1> DEFINE v == mem.tests[mem.idx]
           newly == hits[v] \cap mem.remaining
           chosen == IF newly = {} THEN mem.chosen
                     ELSE Append(mem.chosen, [vector |-> v, newly |-> newly])
<1>1. /\ pc = "select" /\ mem.idx > 0 /\ pc' = "select" /\ UNCHANGED <<storeVars, netlist, lineage>>
      /\ mem' = [mem EXCEPT !.idx = mem.idx - 1, !.remaining = mem.remaining \ newly, !.chosen = chosen]
  BY DEF Select, Goto, Quiet
<1>2. mem.idx \in DOMAIN mem.tests /\ v \in Patterns /\ mem.idx - 1 \in Nat
  BY <1>1 DEF Mems
<1>3. newly \in SUBSET InScope /\ mem.remaining \ newly \in SUBSET InScope
  BY <1>2 DEF Mems
<1> HIDE DEF v
<1>4. chosen \in Seq([vector : Patterns, newly : SUBSET InScope])
  <2>1. mem.chosen \in Seq([vector : Patterns, newly : SUBSET InScope])
    BY DEF Mems
  <2>2. [vector |-> v, newly |-> newly] \in [vector : Patterns, newly : SUBSET InScope]
    BY <1>2, <1>3
  <2> HIDE DEF newly
  <2>3. \A S : \A s \in Seq(S), x \in S : Append(s, x) \in Seq(S)
    OBVIOUS
  <2> QED BY <2>1, <2>2, <2>3
<1> HIDE DEF newly, chosen
<1>5. mem' \in Mems
  BY <1>1, <1>2, <1>3, <1>4 DEF Mems
<1>6. /\ mem'.tests = mem.tests /\ mem'.targets = mem.targets
      /\ mem'.remaining = mem.remaining \ newly /\ mem'.idx = mem.idx - 1 /\ mem'.chosen = chosen
  BY <1>1 DEF Mems
<1> QED BY <1>1, <1>2, <1>3, <1>5, <1>6 DEF v, newly, chosen

LEMMA KeepFrame ==
  ASSUME mem \in Mems, KeepSelected
  PROVE  /\ Selected /\ pc' = "insert" /\ UNCHANGED <<storeVars, netlist, lineage>>
         /\ mem'.tests = mem.tests /\ mem' \in Mems
         /\ \A k \in DOMAIN mem.chosen : \E j \in DOMAIN mem'.out : mem'.out[j] = mem.chosen[k].vector
<1>1. /\ Selected /\ pc' = "insert" /\ UNCHANGED <<storeVars, netlist, lineage>>
      /\ mem' = [mem EXCEPT !.out = Reverse(Vectors(mem.chosen))]
  BY DEF KeepSelected, Goto, Quiet
<1>2. /\ Vectors(mem.chosen) \in Seq(Patterns) /\ DOMAIN Vectors(mem.chosen) = DOMAIN mem.chosen
      /\ \A k \in DOMAIN mem.chosen : Vectors(mem.chosen)[k] = mem.chosen[k].vector
  <2>1. mem.chosen \in Seq([vector : Patterns, newly : SUBSET InScope])
    BY DEF Mems
  <2>2. \A c \in [vector : Patterns, newly : SUBSET InScope] : c.vector \in Patterns
    OBVIOUS
  <2> QED BY <2>1, <2>2, VectorsAreSeq
<1> DEFINE r == Reverse(Vectors(mem.chosen))
<1>3. /\ r \in Seq(Patterns)
      /\ \A k \in DOMAIN mem.chosen : \E j \in DOMAIN r : r[j] = mem.chosen[k].vector
  <2> DEFINE vs == Vectors(mem.chosen)
  <2>1. Reverse(vs) \in Seq(Patterns) /\ \A k \in DOMAIN vs : \E j \in DOMAIN Reverse(vs) : Reverse(vs)[j] = vs[k]
    BY <1>2, ReverseIsSeq
  <2> QED BY <1>2, <2>1
<1> HIDE DEF r
<1>4. mem' = [mem EXCEPT !.out = r]
  BY <1>1 DEF r
<1>5. mem' \in Mems /\ mem'.out = r /\ mem'.tests = mem.tests
  BY <1>3, <1>4 DEF Mems
<1> QED BY <1>1, <1>3, <1>5

LEMMA BeginFrame ==
  ASSUME mem \in Mems, BeginPacking
  PROVE  /\ Selected /\ pc' = "pack" /\ UNCHANGED <<storeVars, netlist, lineage>>
         /\ mem'.tests = mem.tests /\ mem'.targets = mem.targets /\ mem'.remaining = mem.remaining
         /\ mem'.idx = mem.idx /\ mem'.chosen = mem.chosen
         /\ mem'.queue = Cubes /\ mem'.open = <<>> /\ mem' \in Mems
<1>1. /\ Selected /\ pc' = "pack" /\ UNCHANGED <<storeVars, netlist, lineage>>
      /\ mem' = [mem EXCEPT !.order = 0, !.queue = Cubes, !.open = <<>>]
  BY DEF BeginPacking, Goto, Quiet
<1>2. Cubes \in Seq(CubeRows) /\ <<>> \in Seq(CubeRows) /\ 0 \in Nat
  BY CubesAreCubes
<1> HIDE DEF Cubes
<1>3. mem' \in Mems
  BY <1>1, <1>2 DEF Mems
<1> QED BY <1>1, <1>3 DEF Mems

LEMMA PackFrame ==
  ASSUME mem \in Mems, PackCube, Backed(mem.open), Backed(mem.queue)
  PROVE  /\ pc = "pack" /\ pc' = "pack" /\ UNCHANGED <<storeVars, netlist, lineage>>
         /\ mem'.tests = mem.tests /\ mem'.targets = mem.targets /\ mem'.remaining = mem.remaining
         /\ mem'.idx = mem.idx /\ mem'.chosen = mem.chosen
         /\ mem.queue # <<>> /\ mem'.queue = Tail(mem.queue)
         /\ mem'.open = Place(mem.open, Head(mem.queue)) /\ mem' \in Mems
<1> DEFINE placed == Place(mem.open, Head(mem.queue))
<1>1. /\ pc = "pack" /\ pc' = "pack" /\ UNCHANGED <<storeVars, netlist, lineage>> /\ mem.queue # <<>>
      /\ mem' = [mem EXCEPT !.queue = Tail(mem.queue), !.open = placed]
  BY DEF PackCube, Goto, Quiet
<1>2. mem.queue \in Seq(CubeRows) /\ mem.open \in Seq(CubeRows)
  BY DEF Mems
<1>3. /\ Tail(mem.queue) \in Seq(CubeRows) /\ Head(mem.queue) \in CubeRows
      /\ Head(mem.queue).members \subseteq hits[Head(mem.queue).vector]
  BY <1>1, <1>2 DEF Backed
<1>4. placed \in Seq(CubeRows)
  BY <1>2, <1>3, PlaceLosesNothing
<1> HIDE DEF placed
<1>5. mem' \in Mems
  BY <1>1, <1>3, <1>4 DEF Mems
<1>6. mem'.open = placed
  BY <1>1 DEF Mems
<1> QED BY <1>1, <1>5, <1>6 DEF Mems, placed

LEMMA EndPassFrame ==
  ASSUME mem \in Mems, EndPass
  PROVE  /\ pc = "pack" /\ pc' \in {"pack", "net"} /\ UNCHANGED <<storeVars, netlist, lineage>>
         /\ mem'.tests = mem.tests /\ mem'.targets = mem.targets /\ mem'.remaining = mem.remaining
         /\ mem'.idx = mem.idx /\ mem'.chosen = mem.chosen /\ mem'.open = <<>>
         /\ pc' = "pack" => mem'.queue \in OrdersOf(Cubes, mem.order + 1)
         /\ mem' \in Mems
<1> DEFINE better == ~mem.some \/ Len(mem.open) < Len(mem.best)
           best == IF better THEN Vectors(mem.open) ELSE mem.best
           kept == [mem EXCEPT !.best = best, !.some = TRUE, !.open = <<>>, !.order = mem.order + 1]
<1>1. /\ pc = "pack" /\ UNCHANGED <<storeVars, netlist, lineage>>
      /\ \/ \E q \in OrdersOf(Cubes, mem.order + 1) : pc' = "pack" /\ mem' = [kept EXCEPT !.queue = q]
         \/ pc' = "net" /\ mem' = kept
  BY DEF EndPass, Goto, Quiet
<1>2. best \in Seq(Patterns)
  <2>1. mem.open \in Seq(CubeRows) /\ mem.best \in Seq(Patterns) /\ \A c \in CubeRows : c.vector \in Patterns
    BY DEF Mems, CubeRows
  <2> QED BY <2>1, VectorsAreSeq
<1> HIDE DEF best
<1>3. mem.order + 1 \in Nat /\ <<>> \in Seq(CubeRows)
  BY DEF Mems
<1>4. /\ kept \in Mems /\ kept.tests = mem.tests /\ kept.targets = mem.targets
      /\ kept.remaining = mem.remaining /\ kept.idx = mem.idx /\ kept.chosen = mem.chosen
      /\ kept.open = <<>>
  BY <1>2, <1>3 DEF Mems
<1> HIDE DEF kept
<1>5. CASE pc' = "net" /\ mem' = kept
  BY <1>1, <1>4, <1>5
<1>6. ASSUME NEW q \in OrdersOf(Cubes, mem.order + 1), pc' = "pack" /\ mem' = [kept EXCEPT !.queue = q]
      PROVE  /\ mem'.tests = mem.tests /\ mem'.targets = mem.targets /\ mem'.remaining = mem.remaining
             /\ mem'.idx = mem.idx /\ mem'.chosen = mem.chosen /\ mem'.open = <<>>
             /\ mem'.queue = q /\ mem' \in Mems
  <2>1. q \in Seq(CubeRows)
    BY CubesAreCubes, OrderKeepsCubes
  <2>2. mem' \in Mems /\ mem'.queue = q
    BY <1>4, <1>6, <2>1 DEF Mems
  <2>3. /\ mem'.tests = kept.tests /\ mem'.targets = kept.targets /\ mem'.remaining = kept.remaining
        /\ mem'.idx = kept.idx /\ mem'.chosen = kept.chosen /\ mem'.open = kept.open
    BY <1>4, <1>6 DEF Mems
  <2> QED BY <1>4, <2>2, <2>3
<1> QED BY <1>1, <1>5, <1>6

LEMMA NetFrame ==
  ASSUME mem \in Mems, AcceptPacked \/ FallBack
  PROVE  /\ pc = "net" /\ UNCHANGED <<storeVars, netlist, lineage>> /\ mem' \in Mems
         /\ mem'.tests = mem.tests
         /\ \/ pc' = "read"
            \/ pc' = "insert" /\ NetHolds /\ mem'.out = mem.best
<1>1. CASE AcceptPacked
  <2>1. /\ pc = "net" /\ NetHolds /\ pc' = "insert" /\ UNCHANGED <<storeVars, netlist, lineage>>
        /\ mem' = [mem EXCEPT !.out = mem.best] /\ mem.best \in Seq(Patterns)
    BY <1>1 DEF AcceptPacked, Goto, Quiet, Mems
  <2> QED BY <2>1 DEF Mems
<1>2. CASE FallBack
  <2>1. /\ pc = "net" /\ pc' = "read" /\ UNCHANGED <<storeVars, netlist, lineage>>
        /\ mem' = [mem EXCEPT !.method = "reverse"]
    BY <1>2 DEF FallBack, Goto, Quiet
  <2> QED BY <2>1 DEF Mems
<1> QED BY <1>1, <1>2

\* The steps that write no more than a run or its vectors.
LEMMA WriteFrame ==
  ASSUME InsertCompactedRun \/ AppendCompacted \/ Crash
  PROVE  /\ \/ pc' = "idle" /\ mem' = Fresh
            \/ pc' = "append" /\ mem' = mem /\ pc = "insert"
         /\ UNCHANGED <<status, netlist>> /\ pc # "idle"
<1>1. CASE InsertCompactedRun
  BY <1>1 DEF InsertCompactedRun, Leave, Goto, faultCols
<1>2. CASE AppendCompacted
  BY <1>2 DEF AppendCompacted, Leave, Goto, faultCols
<1>3. CASE Crash
  BY <1>3 DEF Crash, Leave, Goto, Quiet, storeVars, faultCols
<1> QED BY <1>1, <1>2, <1>3

LEMMA QuietFrame ==
  UNCHANGED <<storeVars, netlist, lineage>> =>
    UNCHANGED <<status, runs, vectors, detections, hits, captured, lineage, DetectedFaults>>
BY DEF storeVars, faultCols, netlist, DetectedFaults

-----------------------------------------------------------------------------
(* Types *)

LEMMA TypeInductive ==
  ASSUME CompactTypeOK, SelectInv, PackInv, [Next]_vars
  PROVE  CompactTypeOK'
<1>0. /\ mem \in Mems /\ runs \in Seq(Runs) /\ status \in [Faults -> Statuses]
      /\ hits \in [Patterns -> SUBSET InScope]
  BY DEF CompactTypeOK
<1>1. CASE UNCHANGED vars
  BY <1>1 DEF vars, CompactTypeOK, storeVars, faultCols, netlist
<1>2. CASE AtpgRun
  <2>1. PICK t \in TestSets :
          /\ runs' = Append(runs, [NewRun EXCEPT !.status = "complete", !.count = Len(t),
                                                 !.terminal = "COMPLETE"])
          /\ status' = [f \in Faults |->
                          IF f \in {g \in Exposed(Range(Held(t))) : status[g] # "detected"} THEN "detected"
                          ELSE IF status[f] # "absent" THEN status[f]
                          ELSE IF f \in Excluded THEN "excluded" ELSE "undetected"]
          /\ \/ pc' = "idle" /\ mem' = Fresh
             \/ pc' = "read" /\ mem' \in Mems
    BY <1>2, AtpgFrame
  <2>2. t \in Seq(Patterns)
    BY TestsArePatterns
  <2>3. [NewRun EXCEPT !.status = "complete", !.count = Len(t), !.terminal = "COMPLETE"] \in Runs
    <3>1. NewRun \in Runs /\ Len(t) \in Nat /\ "COMPLETE" \in Terminals
      BY <2>2 DEF NewRun, Runs, Terminals
    <3> QED BY <3>1 DEF Runs
  <2>4. runs' \in Seq(Runs) /\ runs' # <<>>
    BY <1>0, <2>1, <2>3
  <2>5. status' \in [Faults -> Statuses]
    BY <1>0, <2>1 DEF Statuses
  <2>6. hits' = hits /\ captured' = captured
    BY <1>2 DEF AtpgRun, netlist
  <2> QED BY <2>1, <2>4, <2>5, <2>6, FreshIsMem DEF CompactTypeOK
<1>3. CASE ReadTargets \/ Select \/ KeepSelected \/ BeginPacking \/ PackCube \/ EndPass \/ AcceptPacked \/ FallBack
  <2>1. UNCHANGED <<storeVars, netlist, lineage>>
    BY <1>3 DEF ReadTargets, Select, KeepSelected, BeginPacking, PackCube, EndPass, AcceptPacked, FallBack, Quiet
  <2>2. mem' \in Mems /\ pc' \in {"read", "select", "pack", "net", "insert"} /\ pc # "idle"
    <3>1. CASE ReadTargets
      BY <1>0, <3>1, ReadFrame
    <3>2. CASE Select
      <4>1. mem.idx <= Len(mem.tests) /\ pc = "select"
        BY <3>2 DEF Select, SelectInv
      <4> QED BY <1>0, <3>2, <4>1, SelectFrame
    <3>3. CASE KeepSelected
      BY <1>0, <3>3, KeepFrame DEF Selected
    <3>4. CASE BeginPacking
      BY <1>0, <3>4, BeginFrame DEF Selected
    <3>5. CASE PackCube
      <4>1. Backed(mem.open) /\ Backed(mem.queue)
        BY <3>5 DEF PackCube, PackInv
      <4> QED BY <1>0, <3>5, <4>1, PackFrame
    <3>6. CASE EndPass
      BY <1>0, <3>6, EndPassFrame
    <3>7. CASE AcceptPacked \/ FallBack
      BY <1>0, <3>7, NetFrame
    <3> QED BY <1>3, <3>1, <3>2, <3>3, <3>4, <3>5, <3>6, <3>7
  <2> QED BY <2>1, <2>2, QuietFrame DEF CompactTypeOK
<1>4. CASE InsertCompactedRun \/ AppendCompacted \/ Crash
  <2>1. status' = status /\ hits' = hits /\ captured' = captured /\ pc # "idle"
        /\ mem' \in Mems /\ pc' \in {"idle", "append"}
    BY <1>0, <1>4, WriteFrame, FreshIsMem DEF netlist
  <2>2. runs # <<>>
    BY <2>1 DEF CompactTypeOK
  <2>3. runs' \in Seq(Runs) /\ runs' # <<>>
    <3>1. CASE InsertCompactedRun
      <4>1. runs[Len(runs)] \in Runs /\ Len(mem.out) \in Nat
        BY <1>0, <2>2 DEF Mems
      <4>2. [runs[Len(runs)] EXCEPT !.count = Len(mem.out)] \in Runs
        BY <4>1 DEF Runs
      <4> QED BY <1>0, <3>1, <4>2 DEF InsertCompactedRun
    <3>2. CASE AppendCompacted \/ Crash
      BY <1>0, <2>2, <3>2 DEF AppendCompacted, Crash, Quiet, storeVars
    <3> QED BY <1>4, <3>1, <3>2
  <2> QED BY <2>1, <2>3 DEF CompactTypeOK
<1> QED BY <1>1, <1>2, <1>3, <1>4 DEF Next, Step

-----------------------------------------------------------------------------
(* The reverse walk *)

LEMMA SelectionKept ==
  ASSUME SelectInv, pc \in {"select", "pack", "net"}, UNCHANGED <<hits, DetectedFaults>>,
         mem'.tests = mem.tests, mem'.targets = mem.targets, mem'.remaining = mem.remaining,
         mem'.idx = mem.idx, mem'.chosen = mem.chosen
  PROVE  SelectInv'
BY DEF SelectInv

LEMMA SelectInductive ==
  ASSUME CompactTypeOK, SelectInv, PackInv, [Next]_vars
  PROVE  SelectInv'
<1>0. mem \in Mems /\ hits \in [Patterns -> SUBSET InScope]
  BY DEF CompactTypeOK
<1>1. CASE UNCHANGED vars
  BY <1>1 DEF vars, SelectInv, DetectedFaults, storeVars, faultCols, netlist
<1>2. CASE AtpgRun
  <2>1. pc' \in {"idle", "read"}
    BY <1>2, AtpgFrame
  <2> QED BY <2>1 DEF SelectInv
<1>3. CASE ReadTargets
  <2>1. /\ mem'.targets = DetectedFaults /\ mem'.remaining = DetectedFaults
        /\ mem'.tests = mem.tests /\ mem'.idx = Len(mem.tests) /\ mem'.chosen = <<>>
        /\ DetectedFaults' = DetectedFaults
    BY <1>0, <1>3, ReadFrame, QuietFrame
  <2>2. mem.tests \in Seq(Patterns) /\ Len(mem.tests) <= Len(mem.tests)
        /\ \A j \in DOMAIN mem.tests : ~(j > Len(mem.tests))
    BY <1>0 DEF Mems
  <2>3. Newly(<<>>) = {} /\ DOMAIN <<>> = {}
    BY DEF Newly
  <2> QED BY <2>1, <2>2, <2>3 DEF SelectInv
<1>4. CASE Select
  <2>0. pc = "select"
    BY <1>4 DEF Select
  <2>a. mem.idx <= Len(mem.tests)
    BY <2>0 DEF SelectInv
  <2>1. PICK v \in Patterns, newly \in SUBSET InScope :
         /\ v = mem.tests[mem.idx] /\ mem.idx \in DOMAIN mem.tests /\ newly = hits[v] \cap mem.remaining
         /\ pc' = "select" /\ UNCHANGED <<storeVars, netlist, lineage>>
         /\ mem'.tests = mem.tests /\ mem'.targets = mem.targets
         /\ mem'.remaining = mem.remaining \ newly /\ mem'.idx = mem.idx - 1
         /\ mem'.chosen = IF newly = {} THEN mem.chosen
                          ELSE Append(mem.chosen, [vector |-> v, newly |-> newly])
    BY <1>0, <1>4, <2>a, SelectFrame
  <2>2. DetectedFaults' = DetectedFaults /\ hits' = hits
    BY <2>1, QuietFrame
  <2>3. mem.idx \in Nat /\ mem.tests \in Seq(Patterns)
        /\ mem.chosen \in Seq([vector : Patterns, newly : SUBSET InScope])
    BY <1>0 DEF Mems
  <2>4. mem'.idx <= Len(mem'.tests)
    BY <2>1, <2>3, <2>a
  <2>5. mem'.targets = DetectedFaults /\ mem'.remaining \subseteq mem'.targets
    BY <2>0, <2>1 DEF SelectInv
  <2>6. ASSUME NEW j \in DOMAIN mem.tests, j > mem.idx - 1
        PROVE  hits[mem.tests[j]] \cap mem'.remaining = {}
    <3>1. j > mem.idx \/ j = mem.idx
      BY <2>3, <2>6
    <3>2. CASE j > mem.idx
      BY <2>0, <2>1, <3>2 DEF SelectInv
    <3>3. CASE j = mem.idx
      BY <2>1, <3>3
    <3> QED BY <3>1, <3>2, <3>3
  <2>7. CASE newly = {}
    <3>1. mem'.chosen = mem.chosen /\ mem'.remaining = mem.remaining
      BY <2>1, <2>7
    <3> QED BY <2>0, <2>1, <2>2, <2>4, <2>5, <2>6, <3>1 DEF SelectInv
  <2>8. CASE newly # {}
    <3> DEFINE c == [vector |-> v, newly |-> newly]
               s == Append(mem.chosen, c)
    <3>1. /\ DOMAIN s = DOMAIN mem.chosen \cup {Len(mem.chosen) + 1} /\ s[Len(mem.chosen) + 1] = c
          /\ \A k \in DOMAIN mem.chosen : s[k] = mem.chosen[k]
      <4> HIDE DEF c
      <4> QED BY <2>3
    <3>2. mem'.chosen = s
      BY <2>1, <2>8
    <3> HIDE DEF s
    <3>3. c.newly = newly /\ c.vector = v
      OBVIOUS
    <3> HIDE DEF c
    <3>4. \A k \in DOMAIN s : s[k].newly \subseteq hits[s[k].vector]
      BY <2>0, <2>1, <3>1, <3>3 DEF SelectInv
    <3>5. Newly(s) = Newly(mem.chosen) \cup newly
      <4>1. \A f : f \in Newly(s) <=> f \in Newly(mem.chosen) \/ f \in newly
        BY <3>1, <3>3, InNewly
      <4> QED BY <4>1
    <3>6. newly \subseteq mem.remaining /\ mem.remaining \subseteq mem.targets
          /\ Newly(mem.chosen) = mem.targets \ mem.remaining
      BY <2>0, <2>1 DEF SelectInv
    <3>7. Newly(s) = mem.targets \ (mem.remaining \ newly)
      BY <3>5, <3>6
    <3> QED BY <2>1, <2>2, <2>4, <2>5, <2>6, <3>2, <3>4, <3>7 DEF SelectInv
  <2> QED BY <2>7, <2>8
<1>5. CASE BeginPacking
  BY <1>0, <1>5, BeginFrame, QuietFrame, SelectionKept DEF Selected
<1>6. CASE PackCube
  <2>1. Backed(mem.open) /\ Backed(mem.queue)
    BY <1>6 DEF PackCube, PackInv
  <2> QED BY <1>0, <1>6, <2>1, PackFrame, QuietFrame, SelectionKept
<1>7. CASE EndPass
  BY <1>0, <1>7, EndPassFrame, QuietFrame, SelectionKept
<1>8. CASE KeepSelected \/ AcceptPacked \/ FallBack \/ InsertCompactedRun \/ AppendCompacted \/ Crash
  <2>1. pc' \in {"read", "insert", "idle", "append"}
    BY <1>0, <1>8, KeepFrame, NetFrame, WriteFrame
  <2> QED BY <2>1 DEF SelectInv
<1> QED BY <1>1, <1>2, <1>3, <1>4, <1>5, <1>6, <1>7, <1>8 DEF Next, Step

-----------------------------------------------------------------------------
(* Packing *)

LEMMA PackInductive ==
  ASSUME CompactTypeOK, SelectInv, PackInv, [Next]_vars
  PROVE  PackInv'
<1>0. mem \in Mems /\ hits \in [Patterns -> SUBSET InScope]
  BY DEF CompactTypeOK
<1>c. /\ Cubes \in Seq(CubeRows)
      /\ pc \in {"select", "pack"} => Backed(Cubes) /\ Members(Cubes) = mem.targets \ mem.remaining
  <2>1. /\ Cubes \in Seq(CubeRows) /\ DOMAIN Cubes = DOMAIN mem.chosen
        /\ \A k \in DOMAIN mem.chosen : /\ Cubes[k].members = mem.chosen[k].newly
                                        /\ Cubes[k].vector = mem.chosen[k].vector
    BY <1>0, CubesAreCubes
  <2> HIDE DEF Cubes
  <2>2. \A f : f \in Members(Cubes) <=> f \in Newly(mem.chosen)
    BY <2>1, InMembers, InNewly
  <2>3. Members(Cubes) = Newly(mem.chosen)
    BY <2>2
  <2> QED BY <2>1, <2>3 DEF SelectInv, Backed
<1> HIDE DEF Cubes
<1>e. Members(<<>>) = {} /\ Backed(<<>>)
  BY DEF Members, Backed
<1>1. CASE UNCHANGED vars
  BY <1>1 DEF vars, PackInv, Backed, netlist
<1>2. CASE AtpgRun
  <2>1. pc' \in {"idle", "read"}
    BY <1>2, AtpgFrame
  <2> QED BY <2>1 DEF PackInv
<1>3. CASE BeginPacking
  <2>1. /\ pc = "select" /\ mem'.targets = mem.targets /\ mem'.remaining = mem.remaining
        /\ mem'.queue = Cubes /\ mem'.open = <<>> /\ hits' = hits
    BY <1>0, <1>3, BeginFrame, QuietFrame DEF Selected
  <2>2. Backed(Cubes) /\ Members(Cubes) = mem.targets \ mem.remaining
    BY <1>c, <2>1
  <2>3. Members(mem'.queue) \cup Members(mem'.open) = mem'.targets \ mem'.remaining
    BY <1>e, <2>1, <2>2
  <2> QED BY <1>e, <2>1, <2>2, <2>3 DEF PackInv, Backed
<1>4. CASE PackCube
  <2>1. Backed(mem.open) /\ Backed(mem.queue)
        /\ Members(mem.queue) \cup Members(mem.open) = mem.targets \ mem.remaining
    BY <1>4 DEF PackCube, PackInv
  <2>2. /\ mem'.targets = mem.targets /\ mem'.remaining = mem.remaining /\ mem.queue # <<>>
        /\ mem'.queue = Tail(mem.queue) /\ mem'.open = Place(mem.open, Head(mem.queue)) /\ hits' = hits
    BY <1>0, <1>4, <2>1, PackFrame, QuietFrame
  <2>3. mem.queue \in Seq(CubeRows) /\ mem.open \in Seq(CubeRows)
    BY <1>0 DEF Mems
  <2>4. /\ Head(mem.queue) = mem.queue[1] /\ 1 \in DOMAIN mem.queue /\ mem.queue[1] \in CubeRows
        /\ \A k \in DOMAIN Tail(mem.queue) : k + 1 \in DOMAIN mem.queue /\ Tail(mem.queue)[k] = mem.queue[k + 1]
        /\ \A j \in DOMAIN mem.queue : j # 1 => j - 1 \in DOMAIN Tail(mem.queue) /\ (j - 1) + 1 = j
    BY <2>2, <2>3
  <2>5. Head(mem.queue) \in CubeRows /\ Head(mem.queue).members \subseteq hits[Head(mem.queue).vector]
    BY <2>1, <2>4 DEF Backed
  <2>6. /\ Backed(Place(mem.open, Head(mem.queue)))
        /\ Members(Place(mem.open, Head(mem.queue))) = Members(mem.open) \cup Head(mem.queue).members
    BY <2>1, <2>3, <2>5, PlaceLosesNothing
  <2>7. Backed(Tail(mem.queue))
    BY <2>1, <2>4 DEF Backed
  <2>8. Members(mem.queue) = Members(Tail(mem.queue)) \cup Head(mem.queue).members
    <3>1. ASSUME NEW f, f \in Members(mem.queue)
          PROVE  f \in Members(Tail(mem.queue)) \/ f \in Head(mem.queue).members
      <4>1. PICK j \in DOMAIN mem.queue : f \in mem.queue[j].members
        BY <3>1, InMembers
      <4>2. CASE j = 1
        BY <2>4, <4>1, <4>2
      <4>3. CASE j # 1
        <5>1. j - 1 \in DOMAIN Tail(mem.queue) /\ Tail(mem.queue)[j - 1] = mem.queue[j]
          BY <2>4, <4>3
        <5> QED BY <4>1, <5>1, InMembers
      <4> QED BY <4>2, <4>3
    <3>2. ASSUME NEW f, f \in Members(Tail(mem.queue)) \/ f \in Head(mem.queue).members
          PROVE  f \in Members(mem.queue)
      <4>1. CASE f \in Members(Tail(mem.queue))
        <5>1. PICK k \in DOMAIN Tail(mem.queue) : f \in Tail(mem.queue)[k].members
          BY <4>1, InMembers
        <5> QED BY <2>4, <5>1, InMembers
      <4>2. CASE f \in Head(mem.queue).members
        BY <2>4, <4>2, InMembers
      <4> QED BY <3>2, <4>1, <4>2
    <3> QED BY <3>1, <3>2
  <2>9. Members(mem'.queue) \cup Members(mem'.open) = mem'.targets \ mem'.remaining
    BY <2>1, <2>2, <2>6, <2>8
  <2> QED BY <2>2, <2>6, <2>7, <2>9 DEF PackInv, Backed
<1>5. CASE EndPass
  <2>1. /\ pc = "pack" /\ mem'.targets = mem.targets /\ mem'.remaining = mem.remaining
        /\ mem'.open = <<>> /\ hits' = hits
        /\ pc' = "pack" => mem'.queue \in OrdersOf(Cubes, mem.order + 1)
    BY <1>0, <1>5, EndPassFrame, QuietFrame
  <2>2. SUFFICES ASSUME pc' = "pack" PROVE PackInv'
    BY DEF PackInv
  <2>3. Backed(mem'.queue) /\ Members(mem'.queue) = mem.targets \ mem.remaining
    BY <1>c, <2>1, <2>2, OrderKeepsCubes
  <2>4. Members(mem'.queue) \cup Members(mem'.open) = mem'.targets \ mem'.remaining
    BY <1>e, <2>1, <2>3
  <2> QED BY <1>e, <2>1, <2>3, <2>4 DEF PackInv, Backed
<1>6. CASE ReadTargets \/ Select
  <2>1. pc' = "select"
    BY <1>6 DEF ReadTargets, Select, Goto
  <2> QED BY <2>1 DEF PackInv
<1>7. CASE KeepSelected \/ AcceptPacked \/ FallBack \/ InsertCompactedRun \/ AppendCompacted \/ Crash
  <2>1. pc' \in {"read", "insert", "idle", "append"}
    BY <1>0, <1>7, KeepFrame, NetFrame, WriteFrame
  <2> QED BY <2>1 DEF PackInv
<1> QED BY <1>1, <1>2, <1>3, <1>4, <1>5, <1>6, <1>7 DEF Next, Step

-----------------------------------------------------------------------------
(* The vectors to be written *)

LEMMA OutInductive ==
  ASSUME CompactTypeOK, SelectInv, OutInv, [Next]_vars
  PROVE  OutInv'
<1>0. mem \in Mems
  BY DEF CompactTypeOK
<1>1. CASE UNCHANGED vars
  BY <1>1 DEF vars, OutInv, DetectedFaults, storeVars, faultCols, netlist
<1>2. CASE AtpgRun
  <2>1. pc' \in {"idle", "read"}
    BY <1>2, AtpgFrame
  <2> QED BY <2>1 DEF OutInv
<1>3. CASE KeepSelected
  <2>1. /\ Selected /\ mem'.tests = mem.tests /\ hits' = hits /\ DetectedFaults' = DetectedFaults
        /\ \A k \in DOMAIN mem.chosen : \E j \in DOMAIN mem'.out : mem'.out[j] = mem.chosen[k].vector
    BY <1>0, <1>3, KeepFrame, QuietFrame
  <2>2. ASSUME NEW j \in DOMAIN mem.tests, NEW f \in DetectedFaults, f \in hits[mem.tests[j]]
        PROVE  \E k \in DOMAIN mem'.out : f \in hits[mem'.out[k]]
    <3>1. f \notin mem.remaining
      <4>1. mem.idx = 0 => j > mem.idx
        BY <1>0 DEF Mems
      <4> QED BY <2>1, <2>2, <4>1 DEF Selected, SelectInv
    <3>2. f \in Newly(mem.chosen)
      BY <2>1, <3>1 DEF Selected, SelectInv
    <3>3. PICK k \in DOMAIN mem.chosen : f \in mem.chosen[k].newly
      BY <3>2, InNewly
    <3>4. f \in hits[mem.chosen[k].vector]
      BY <2>1, <3>3 DEF Selected, SelectInv
    <3> QED BY <2>1, <3>4
  <2> QED BY <2>1, <2>2 DEF OutInv
<1>4. CASE AcceptPacked \/ FallBack
  <2>1. /\ pc = "net" /\ hits' = hits /\ DetectedFaults' = DetectedFaults
        /\ \/ pc' = "read"
           \/ pc' = "insert" /\ NetHolds /\ mem'.out = mem.best
    BY <1>0, <1>4, NetFrame, QuietFrame
  <2>2. SUFFICES ASSUME NetHolds, mem'.out = mem.best PROVE OutInv'
    BY <2>1 DEF OutInv
  <2>3. \A f \in DetectedFaults : \E k \in DOMAIN mem.best : f \in hits[mem.best[k]]
    BY <2>1, <2>2 DEF NetHolds, SelectInv
  <2> QED BY <2>1, <2>2, <2>3 DEF OutInv
<1>5. CASE InsertCompactedRun \/ AppendCompacted \/ Crash
  <2>1. /\ pc' = "idle" \/ (mem' = mem /\ pc = "insert")
        /\ hits' = hits /\ DetectedFaults' = DetectedFaults
    BY <1>5, WriteFrame DEF netlist, DetectedFaults
  <2> QED BY <2>1 DEF OutInv
<1>6. CASE ReadTargets \/ Select \/ BeginPacking \/ PackCube \/ EndPass
  <2>1. pc' \in {"select", "pack", "net"}
    BY <1>6 DEF ReadTargets, Select, BeginPacking, PackCube, EndPass, Goto
  <2> QED BY <2>1 DEF OutInv
<1> QED BY <1>1, <1>2, <1>3, <1>4, <1>5, <1>6 DEF Next, Step

-----------------------------------------------------------------------------
(* Raw and compacted runs *)

\* Rows of one run leave what every other run sees.
LEMMA SeesOthers ==
  ASSUME NEW r, NEW n, n # r, hits' = hits, vectors \subseteq vectors',
         \A v \in vectors' : v \in vectors \/ v.run = r
  PROVE  Sees(n)' = Sees(n)
BY DEF Sees

LEMMA SeesKept == hits' = hits /\ vectors' = vectors => \A n : Sees(n)' = Sees(n)
BY DEF Sees

LEMMA QuietLineage ==
  ASSUME LineageInv, UNCHANGED <<runs, vectors, hits, lineage, DetectedFaults>>,
         \/ pc' = "idle"
         \/ mem'.tests = mem.tests /\ pc # "idle" /\ (pc = "append" <=> pc' = "append")
  PROVE  LineageInv'
<1>1. \A n : Sees(n)' = Sees(n)
  BY SeesKept
<1>2. pc' # "idle" => Raw' = Raw /\ pc # "idle" /\ mem'.tests = mem.tests
  BY DEF Raw
<1>3. pc' # "idle" => Sees(Raw)' = Sees(Raw)
  BY <1>2 DEF Sees
<1>4. pc' # "idle" =>
        /\ Raw' \in DOMAIN runs' /\ Sees(Raw)' \subseteq DetectedFaults'
        /\ \A v \in vectors' : v.run = Raw' => \E k \in DOMAIN mem'.tests : v.pattern = mem'.tests[k]
  BY <1>2, <1>3 DEF LineageInv
<1>5. \A l \in lineage' :
        /\ l[1] \in DOMAIN runs' /\ l[2] = l[1] + 1 /\ l[2] \in DOMAIN runs'
        /\ \/ (\A v \in vectors' : v.run # l[2]) /\ runs'[l[2]].count # 0
           \/ Sees(l[1])' \subseteq Sees(l[2])'
  BY <1>1 DEF LineageInv
<1> QED BY <1>4, <1>5 DEF LineageInv

LEMMA AtpgLineage ==
  ASSUME QStems = {}, ResetHolds = <<>>, CompactTypeOK, LineageInv, AtpgRun
  PROVE  LineageInv'
<1>0. runs \in Seq(Runs) /\ captured \in [Patterns -> SUBSET {}] /\ hits \in [Patterns -> SUBSET InScope]
  BY DEF CompactTypeOK
<1>1. PICK t \in TestSets :
        /\ AppendVectors(Len(runs) + 1, 1, Held(t))
        /\ runs' = Append(runs, [NewRun EXCEPT !.status = "complete", !.count = Len(t),
                                               !.terminal = "COMPLETE"])
        /\ status' = [f \in Faults |->
                        IF f \in {g \in Exposed(Range(Held(t))) : status[g] # "detected"} THEN "detected"
                        ELSE IF status[f] # "absent" THEN status[f]
                        ELSE IF f \in Excluded THEN "excluded" ELSE "undetected"]
        /\ \/ pc' = "idle" /\ mem' = Fresh
           \/ pc' = "read" /\ mem'.tests = t
  BY AtpgFrame
<1>2. hits' = hits /\ lineage' = lineage
  BY AtpgFrame DEF netlist
<1>3. t \in Seq(Patterns) /\ Held(t) = t
  BY TestsArePatterns
<1>r. PICK r : r = Len(runs) + 1
  OBVIOUS
<1>4. /\ Len(runs) \in Nat /\ DOMAIN runs = 1 .. Len(runs) /\ DOMAIN runs' = 1 .. r /\ Len(runs') = r
      /\ \A k \in DOMAIN runs : runs'[k] = runs[k] /\ k \in DOMAIN runs' /\ k # r
      /\ r \in DOMAIN runs' /\ r \notin DOMAIN runs
  BY <1>0, <1>1, <1>r
<1>5. /\ vectors \subseteq vectors'
      /\ \A v \in vectors' : v \in vectors \/ (v.run = r /\ \E k \in DOMAIN t : v.pattern = t[k])
  BY <1>1, <1>3, <1>r DEF AppendVectors
<1>6. \A v \in vectors' : v.run \in DOMAIN runs' /\ v.pattern \in Patterns
  BY <1>3, <1>4, <1>5 DEF LineageInv
<1>7. \A v \in vectors' : v.run = r => \E k \in DOMAIN t : v.pattern = t[k]
  BY <1>4, <1>5 DEF LineageInv
<1>8. \A n \in DOMAIN runs : Sees(n)' = Sees(n)
  BY <1>2, <1>4, <1>5, SeesOthers
<1>9. DetectedFaults \subseteq DetectedFaults'
  BY <1>1 DEF DetectedFaults, InScope
<1>10. Sees(r)' \subseteq DetectedFaults'
  <2> SUFFICES ASSUME NEW f \in Sees(r)' PROVE f \in DetectedFaults'
    OBVIOUS
  <2>1. f \in InScope /\ f \in Faults /\ \E v \in vectors' : v.run = r /\ f \in hits'[v.pattern]
    BY <1>2 DEF Sees, InScope
  <2>2. PICK k \in DOMAIN t : f \in hits[t[k]]
    BY <1>2, <1>7, <2>1
  <2>3. f \in Exposed(Range(Held(t)))
    BY <1>3, <2>2 DEF Exposed, Exposes, Range
  <2>4. status'[f] = "detected"
    BY <1>1, <2>1, <2>3
  <2> QED BY <2>1, <2>4 DEF DetectedFaults
<1>11. pc' # "idle" => /\ Raw' = r /\ mem'.tests = t
  BY <1>1, <1>4 DEF Raw
<1>12. pc' # "idle" => Sees(Raw)' = Sees(r)'
  BY <1>11 DEF Sees
<1>13. ASSUME NEW l \in lineage
       PROVE  /\ l[1] \in DOMAIN runs' /\ l[2] = l[1] + 1 /\ l[2] \in DOMAIN runs'
              /\ \/ (\A v \in vectors' : v.run # l[2]) /\ runs'[l[2]].count # 0
                 \/ Sees(l[1])' \subseteq Sees(l[2])'
  <2>1. /\ l[1] \in DOMAIN runs /\ l[2] = l[1] + 1 /\ l[2] \in DOMAIN runs
        /\ \/ (\A v \in vectors : v.run # l[2]) /\ runs[l[2]].count # 0
           \/ Sees(l[1]) \subseteq Sees(l[2])
    BY DEF LineageInv
  <2>2. Sees(l[1])' = Sees(l[1]) /\ Sees(l[2])' = Sees(l[2])
    BY <1>8, <2>1
  <2>3. (\A v \in vectors : v.run # l[2]) => \A v \in vectors' : v.run # l[2]
    BY <1>4, <1>5, <2>1
  <2> QED BY <1>4, <2>1, <2>2, <2>3
<1> QED BY <1>2, <1>4, <1>6, <1>7, <1>10, <1>11, <1>12, <1>13 DEF LineageInv

LEMMA InsertLineage ==
  ASSUME CompactTypeOK, OutInv, LineageInv, InsertCompactedRun
  PROVE  LineageInv'
<1>0. runs \in Seq(Runs) /\ runs # <<>> /\ mem \in Mems /\ mem.out \in Seq(Patterns)
  BY DEF CompactTypeOK, InsertCompactedRun, Mems
<1>n. PICK n : n = Len(runs)
  OBVIOUS
<1> DEFINE row == [runs[Len(runs)] EXCEPT !.count = Len(mem.out)]
<1>1. /\ pc = "insert" /\ runs' = Append(runs, row) /\ lineage' = lineage \cup {<<n, n + 1>>}
      /\ IF mem.out = <<>> THEN pc' = "idle" ELSE pc' = "append" /\ mem' = mem
      /\ vectors' = vectors /\ hits' = hits /\ DetectedFaults' = DetectedFaults
  BY <1>n DEF InsertCompactedRun, Leave, Goto, faultCols, netlist, DetectedFaults
<1>2. row.count = Len(mem.out) /\ Len(mem.out) \in Nat /\ (mem.out # <<>> => Len(mem.out) # 0)
  <2>1. runs[Len(runs)] \in Runs
    BY <1>0
  <2> QED BY <1>0, <2>1 DEF Runs
<1> HIDE DEF row
<1>3. /\ n \in Nat /\ n \in DOMAIN runs /\ DOMAIN runs = 1 .. n /\ DOMAIN runs' = 1 .. (n + 1) /\ Len(runs') = n + 1
      /\ \A k \in DOMAIN runs : runs'[k] = runs[k] /\ k \in DOMAIN runs' /\ k # n + 1
      /\ runs'[n + 1] = row /\ n + 1 \in DOMAIN runs' /\ n + 1 \notin DOMAIN runs
  BY <1>0, <1>1, <1>n
<1>4. \A i : Sees(i)' = Sees(i)
  BY <1>1, SeesKept
<1>5. /\ Raw = n /\ Sees(n) \subseteq DetectedFaults
      /\ \A v \in vectors : v.run = n => \E k \in DOMAIN mem.tests : v.pattern = mem.tests[k]
  BY <1>1, <1>n DEF LineageInv, Raw
<1>6. pc' # "idle" => Raw' = n /\ Sees(Raw)' = Sees(n) /\ mem' = mem
  <2>1. (n + 1) - 1 = n
    BY <1>3
  <2>2. pc' # "idle" => Raw' = n /\ mem' = mem
    BY <1>1, <1>3, <2>1 DEF Raw
  <2> QED BY <1>1, <2>2 DEF Sees
<1>7. \A v \in vectors : v.run # n + 1
  BY <1>3 DEF LineageInv
<1>8. \/ row.count # 0
      \/ Sees(n) = {}
  <2>1. CASE mem.out # <<>>
    BY <1>2, <2>1
  <2>2. CASE mem.out = <<>>
    <3>1. ASSUME NEW f \in Sees(n) PROVE FALSE
      <4>1. PICK v \in vectors : v.run = n /\ f \in hits[v.pattern]
        BY <3>1 DEF Sees
      <4>2. PICK k \in DOMAIN mem.tests : v.pattern = mem.tests[k]
        BY <1>5, <4>1
      <4>3. \E j \in DOMAIN mem.out : f \in hits[mem.out[j]]
        BY <1>1, <1>5, <4>1, <4>2 DEF OutInv
      <4> QED BY <2>2, <4>3
    <3> QED BY <3>1
  <2> QED BY <2>1, <2>2
<1>9. ASSUME NEW l \in lineage'
      PROVE  /\ l[1] \in DOMAIN runs' /\ l[2] = l[1] + 1 /\ l[2] \in DOMAIN runs'
             /\ \/ (\A v \in vectors' : v.run # l[2]) /\ runs'[l[2]].count # 0
                \/ Sees(l[1])' \subseteq Sees(l[2])'
  <2>1. CASE l \in lineage
    BY <1>1, <1>3, <1>4, <2>1 DEF LineageInv
  <2>2. CASE l = <<n, n + 1>>
    <3>1. l[1] = n /\ l[2] = n + 1
      BY <2>2
    <3> QED BY <1>1, <1>3, <1>4, <1>7, <1>8, <3>1
  <2> QED BY <1>1, <2>1, <2>2
<1>10. \A v \in vectors' : v.run \in DOMAIN runs' /\ v.pattern \in Patterns
  BY <1>1, <1>3 DEF LineageInv
<1>11. pc' # "idle" =>
         /\ Raw' \in DOMAIN runs' /\ Sees(Raw)' \subseteq DetectedFaults'
         /\ \A v \in vectors' : v.run = Raw' => \E k \in DOMAIN mem'.tests : v.pattern = mem'.tests[k]
  BY <1>1, <1>3, <1>5, <1>6
<1> QED BY <1>9, <1>10, <1>11 DEF LineageInv

LEMMA AppendLineage ==
  ASSUME CompactTypeOK, OutInv, LineageInv, AppendCompacted
  PROVE  LineageInv'
<1>n. PICK n : n = Len(runs)
  OBVIOUS
<1>0. n \in Nat /\ DOMAIN runs = 1 .. n /\ mem.out \in Seq(Patterns)
  BY <1>n DEF CompactTypeOK, Mems
<1>1. /\ pc = "append" /\ pc' = "idle" /\ AppendVectors(n, 1, mem.out)
      /\ runs' = runs /\ lineage' = lineage /\ hits' = hits
  BY <1>n DEF AppendCompacted, Leave, Goto, netlist
<1>2. Raw = n - 1
  BY <1>1, <1>n DEF Raw
<1>3. /\ n - 1 \in DOMAIN runs /\ Sees(n - 1) \subseteq DetectedFaults
      /\ \A v \in vectors : v.run = n - 1 => \E k \in DOMAIN mem.tests : v.pattern = mem.tests[k]
  BY <1>1, <1>2 DEF LineageInv
<1>4. /\ vectors \subseteq vectors'
      /\ \A v \in vectors' : v \in vectors \/ (v.run = n /\ \E k \in DOMAIN mem.out : v.pattern = mem.out[k])
      /\ \A k \in DOMAIN mem.out : \E v \in vectors' : v.run = n /\ v.pattern = mem.out[k]
  <2> DEFINE R == {[run |-> n, index |-> 1 + k - 1, pattern |-> mem.out[k]] : k \in DOMAIN mem.out}
  <2>1. vectors' = vectors \cup R
    BY <1>1 DEF AppendVectors
  <2>2. \A v \in R : v.run = n /\ \E k \in DOMAIN mem.out : v.pattern = mem.out[k]
    OBVIOUS
  <2>3. \A k \in DOMAIN mem.out : [run |-> n, index |-> 1 + k - 1, pattern |-> mem.out[k]] \in R
    OBVIOUS
  <2>4. ASSUME NEW k \in DOMAIN mem.out PROVE \E v \in R : v.run = n /\ v.pattern = mem.out[k]
    BY <2>3
  <2> HIDE DEF R
  <2> QED BY <2>1, <2>2, <2>4
<1>5. \A i : i # n => Sees(i)' = Sees(i)
  BY <1>1, <1>4, SeesOthers
<1>6. Sees(n - 1) \subseteq Sees(n)'
  <2> SUFFICES ASSUME NEW f \in Sees(n - 1) PROVE f \in Sees(n)'
    OBVIOUS
  <2>1. PICK v \in vectors : f \in InScope /\ v.run = n - 1 /\ f \in hits[v.pattern]
    BY DEF Sees
  <2>2. PICK k \in DOMAIN mem.tests : v.pattern = mem.tests[k]
    BY <1>3, <2>1
  <2>3. PICK j \in DOMAIN mem.out : f \in hits[mem.out[j]]
    BY <1>1, <1>3, <2>1, <2>2 DEF OutInv
  <2>4. \E w \in vectors' : w.run = n /\ f \in hits'[w.pattern]
    BY <1>1, <1>4, <2>3
  <2> QED BY <2>1, <2>4 DEF Sees
<1>7. ASSUME NEW l \in lineage
      PROVE  \/ (\A v \in vectors' : v.run # l[2]) /\ runs[l[2]].count # 0
             \/ Sees(l[1])' \subseteq Sees(l[2])'
  <2>1. /\ l[1] \in DOMAIN runs /\ l[2] = l[1] + 1 /\ l[2] \in DOMAIN runs
        /\ \/ (\A v \in vectors : v.run # l[2]) /\ runs[l[2]].count # 0
           \/ Sees(l[1]) \subseteq Sees(l[2])
    BY DEF LineageInv
  <2>2. l[1] # n /\ (l[2] = n => l[1] = n - 1)
    BY <1>0, <2>1
  <2>3. CASE l[2] = n
    <3>1. Sees(l[1])' = Sees(n - 1)
      BY <1>5, <2>2, <2>3
    <3>2. Sees(l[2])' = Sees(n)'
      BY <1>1, <2>3 DEF Sees
    <3> QED BY <1>6, <3>1, <3>2
  <2>4. CASE l[2] # n
    <3>1. Sees(l[1])' = Sees(l[1]) /\ Sees(l[2])' = Sees(l[2])
      BY <1>5, <2>2, <2>4
    <3>2. (\A v \in vectors : v.run # l[2]) => \A v \in vectors' : v.run # l[2]
      BY <1>4, <2>4
    <3> QED BY <2>1, <3>1, <3>2
  <2> QED BY <2>3, <2>4
<1>8. \A v \in vectors' : v.run \in DOMAIN runs' /\ v.pattern \in Patterns
  <2>1. n \in DOMAIN runs
    BY <1>0, <1>3
  <2> QED BY <1>0, <1>1, <1>4, <2>1 DEF LineageInv
<1> QED BY <1>1, <1>7, <1>8 DEF LineageInv

LEMMA LineageInductive ==
  ASSUME QStems = {}, ResetHolds = <<>>, CompactTypeOK, SelectInv, PackInv, OutInv, LineageInv, [Next]_vars
  PROVE  LineageInv'
<1>0. mem \in Mems
  BY DEF CompactTypeOK
<1>1. CASE UNCHANGED vars
  <2>1. UNCHANGED <<runs, vectors, hits, lineage, DetectedFaults, pc, mem>>
    BY <1>1 DEF vars, DetectedFaults, storeVars, faultCols, netlist
  <2> QED BY <2>1, QuietLineage
<1>2. CASE AtpgRun
  BY <1>2, AtpgLineage
<1>3. CASE ReadTargets
  BY <1>0, <1>3, ReadFrame, QuietFrame, QuietLineage
<1>4. CASE Select
  <2>1. mem.idx <= Len(mem.tests) /\ hits \in [Patterns -> SUBSET InScope]
    BY <1>4 DEF Select, SelectInv, CompactTypeOK
  <2>2. /\ pc = "select" /\ pc' = "select" /\ UNCHANGED <<storeVars, netlist, lineage>>
        /\ mem'.tests = mem.tests
    BY <1>0, <1>4, <2>1, SelectFrame
  <2> QED BY <2>2, QuietFrame, QuietLineage
<1>5. CASE KeepSelected
  BY <1>0, <1>5, KeepFrame, QuietFrame, QuietLineage DEF Selected
<1>6. CASE BeginPacking
  BY <1>0, <1>6, BeginFrame, QuietFrame, QuietLineage DEF Selected
<1>7. CASE PackCube
  <2>1. Backed(mem.open) /\ Backed(mem.queue)
    BY <1>7 DEF PackCube, PackInv
  <2> QED BY <1>0, <1>7, <2>1, PackFrame, QuietFrame, QuietLineage
<1>8. CASE EndPass
  BY <1>0, <1>8, EndPassFrame, QuietFrame, QuietLineage
<1>9. CASE AcceptPacked \/ FallBack
  BY <1>0, <1>9, NetFrame, QuietFrame, QuietLineage
<1>10. CASE InsertCompactedRun
  BY <1>10, InsertLineage
<1>11. CASE AppendCompacted
  BY <1>11, AppendLineage
<1>12. CASE Crash
  BY <1>12, QuietFrame, QuietLineage DEF Crash, Leave, Goto, Quiet
<1> QED BY <1>1, <1>2, <1>3, <1>4, <1>5, <1>6, <1>7, <1>8, <1>9, <1>10, <1>11, <1>12 DEF Next, Step

-----------------------------------------------------------------------------
(* Evidence *)

\* No step of the module drops a vector or changes the netlist.
LEMMA VectorsOnlyGrow == [Next]_vars => vectors \subseteq vectors' /\ UNCHANGED <<hits, captured>>
<1> SUFFICES ASSUME [Next]_vars PROVE vectors \subseteq vectors' /\ UNCHANGED <<hits, captured>>
  OBVIOUS
<1>1. CASE AtpgRun \/ AppendCompacted
  BY <1>1 DEF AtpgRun, AppendCompacted, AppendVectors, netlist
<1>2. CASE InsertCompactedRun \/ Crash \/ UNCHANGED vars
  BY <1>2 DEF InsertCompactedRun, Crash, Quiet, vars, storeVars, netlist
<1>3. CASE ReadTargets \/ Select \/ KeepSelected \/ BeginPacking \/ PackCube \/ EndPass \/ AcceptPacked \/ FallBack
  BY <1>3, QuietFrame DEF ReadTargets, Select, KeepSelected, BeginPacking, PackCube, EndPass, AcceptPacked,
    FallBack, Quiet
<1> QED BY <1>1, <1>2, <1>3 DEF Next, Step

LEMMA EvidenceInductive ==
  ASSUME EvidenceOutlivesCompaction, [Next]_vars
  PROVE  EvidenceOutlivesCompaction'
<1>0. vectors \subseteq vectors' /\ UNCHANGED <<hits, captured>>
  BY VectorsOnlyGrow
<1>1. \A p : Exposes(p)' = Exposes(p)
  BY <1>0 DEF Exposes
<1>2. ASSUME NEW d \in detections
      PROVE  \E v \in vectors' : v.run = d.run /\ v.index = d.index /\ d.fault \in Exposes(v.pattern)'
  BY <1>0, <1>1 DEF EvidenceOutlivesCompaction
<1>3. CASE detections' = detections
  BY <1>2, <1>3 DEF EvidenceOutlivesCompaction
<1>4. CASE AtpgRun
  <2> DEFINE r == Len(runs) + 1
  <2>1. PICK t \in TestSets :
          LET graded == Held(t)
              hit == {f \in Exposed(Range(graded)) : status[f] # "detected"}
              by(f) == CHOOSE k \in DOMAIN graded : f \in Exposes(graded[k]) IN
          /\ AppendVectors(r, 1, graded)
          /\ detections' = detections \cup {[fault |-> f, run |-> r, index |-> by(f)] : f \in hit}
    BY <1>4 DEF AtpgRun
  <2> DEFINE graded == Held(t)
             hit == {f \in Exposed(Range(graded)) : status[f] # "detected"}
             by(f) == CHOOSE k \in DOMAIN graded : f \in Exposes(graded[k])
             rows == {[run |-> r, index |-> 1 + k - 1, pattern |-> graded[k]] : k \in DOMAIN graded}
             found == {[fault |-> f, run |-> r, index |-> by(f)] : f \in hit}
  <2>2. vectors' = vectors \cup rows /\ detections' = detections \cup found
    BY <2>1 DEF AppendVectors
  <2>3. graded \in Seq(Patterns)
    BY TestsArePatterns
  <2>4. ASSUME NEW d \in found
        PROVE  \E v \in vectors' : v.run = d.run /\ v.index = d.index /\ d.fault \in Exposes(v.pattern)'
    <3>1. PICK f \in hit : d = [fault |-> f, run |-> r, index |-> by(f)]
      OBVIOUS
    <3>2. \E k \in DOMAIN graded : f \in Exposes(graded[k])
      BY DEF Exposed, Range
    <3>3. by(f) \in DOMAIN graded /\ f \in Exposes(graded[by(f)])
      BY <3>2
    <3> DEFINE k == by(f)
    <3>4. k \in DOMAIN graded /\ f \in Exposes(graded[k]) /\ d = [fault |-> f, run |-> r, index |-> k]
      BY <3>1, <3>3
    <3> HIDE DEF k, graded, r
    <3>5. 1 + k - 1 = k
      BY <2>3, <3>4
    <3>6. [run |-> r, index |-> k, pattern |-> graded[k]] \in rows
      BY <3>4, <3>5
    <3> HIDE DEF rows, found, hit
    <3>7. [run |-> r, index |-> k, pattern |-> graded[k]] \in vectors'
      BY <2>2, <3>6
    <3>8. d.fault = f /\ d.run = r /\ d.index = k
      BY <3>4
    <3> QED BY <1>1, <3>4, <3>7, <3>8
  <2> HIDE DEF found
  <2> QED BY <1>2, <2>2, <2>4 DEF EvidenceOutlivesCompaction
<1>5. CASE Step \/ Crash \/ UNCHANGED vars
  <2>1. detections' = detections
    <3>1. CASE InsertCompactedRun \/ AppendCompacted \/ Crash \/ UNCHANGED vars
      BY <3>1 DEF InsertCompactedRun, AppendCompacted, Crash, Quiet, vars, storeVars
    <3>2. CASE ReadTargets \/ Select \/ KeepSelected \/ BeginPacking \/ PackCube \/ EndPass \/ AcceptPacked \/ FallBack
      BY <3>2, QuietFrame DEF ReadTargets, Select, KeepSelected, BeginPacking, PackCube, EndPass, AcceptPacked,
        FallBack, Quiet
    <3> QED BY <1>5, <3>1, <3>2 DEF Step
  <2> QED BY <1>3, <2>1
<1> QED BY <1>4, <1>5 DEF Next

-----------------------------------------------------------------------------
(* Theorems *)

LEMMA InitCompact == Init => CompactInv /\ LineageInv /\ EvidenceOutlivesCompaction
<1> SUFFICES ASSUME Init PROVE CompactInv /\ LineageInv /\ EvidenceOutlivesCompaction
  OBVIOUS
<1>1. /\ pc = "idle" /\ mem = Fresh /\ lineage = {} /\ vectors = {} /\ detections = {} /\ runs = <<>>
      /\ status = [f \in Faults |-> "absent"]
  BY DEF Init, StoreInit
<1>2. status \in [Faults -> Statuses]
  BY <1>1 DEF Statuses
<1>3. CompactTypeOK
  BY <1>1, <1>2, FreshIsMem DEF Init, CompactTypeOK
<1>4. SelectInv /\ PackInv /\ OutInv
  BY <1>1 DEF SelectInv, PackInv, OutInv
<1> QED BY <1>1, <1>3, <1>4 DEF CompactInv, LineageInv, EvidenceOutlivesCompaction

LEMMA CompactInductive == CompactInv /\ [Next]_vars => CompactInv'
BY TypeInductive, SelectInductive, PackInductive, OutInductive DEF CompactInv

\* The walk of compact_run, the packing passes of compact_run_dynamic and the vectors they
\* hand to _insert_compacted_run, for every netlist, test set, order and crash point:
\* what is written detects every detected fault the raw vectors detect, to compaction's
\* own simulator (OutInv).
THEOREM CompactionInvariant == Spec => []CompactInv
<1>1. Init => CompactInv
  BY InitCompact
<1>2. CompactInv /\ [Next]_vars => CompactInv'
  BY CompactInductive
<1> QED BY <1>1, <1>2, PTL DEF Spec

\* _pack_cubes under every order, sorted or shuffled: no selected fault leaves the queue
\* without being in an open cube whose vector detects it.
THEOREM CompactionPackingLosesNothing == Spec => []PackingLosesNothing
<1>1. CompactInv => PackingLosesNothing
  <2> SUFFICES ASSUME CompactInv, pc = "pack" PROVE PackingLosesNothing
    BY DEF PackingLosesNothing
  <2>1. /\ \A k \in DOMAIN mem.open : mem.open[k].members \subseteq hits[mem.open[k].vector]
        /\ Members(mem.queue) \cup Members(mem.open) = mem.targets \ mem.remaining
    BY DEF CompactInv, PackInv, Backed
  <2> QED BY <2>1 DEF PackingLosesNothing, Members
<1> QED BY <1>1, CompactionInvariant, PTL

\* The rows of fault_detections keep the vector they name, whichever transaction of
\* _insert_compacted_run or append_vectors is the last one before the process dies.
THEOREM CompactionEvidence == Spec => []EvidenceOutlivesCompaction
<1>1. Init => EvidenceOutlivesCompaction
  BY InitCompact
<1>2. EvidenceOutlivesCompaction /\ [Next]_vars => EvidenceOutlivesCompaction'
  BY EvidenceInductive
<1> QED BY <1>1, <1>2, PTL DEF Spec

\* compact_run and compact_run_dynamic after a native campaign: a compacted run whose
\* vectors are all there exposes every detected fault its raw run exposes.  Scan
\* campaigns are excluded: they credit captured values that compaction's simulator does
\* not see, and grade their tests with set and reset held.
THEOREM NativeCompactionPreservesCoverage ==
  ASSUME QStems = {}, ResetHolds = <<>>
  PROVE  Spec => []CoveragePreserved
<1> DEFINE Inv == CompactInv /\ LineageInv
<1>1. Init => Inv
  BY InitCompact
<1>2. Inv /\ [Next]_vars => Inv'
  BY CompactInductive, LineageInductive DEF CompactInv
<1>3. Inv => CoveragePreserved
  <2> SUFFICES ASSUME CompactTypeOK, LineageInv, NEW l \in lineage,
                      Cardinality(Stored(l[2])) = runs[l[2]].count
               PROVE  Exposed(Stored(l[1])) \subseteq Exposed(Stored(l[2]))
    BY DEF CoveragePreserved, CompactInv
  <2>1. \A p \in Patterns : Exposes(p) = hits[p] /\ hits[p] \subseteq InScope
    BY DEF Exposes, CompactTypeOK
  <2>2. \A n, f : f \in Exposed(Stored(n)) <=> f \in Sees(n)
    <3> SUFFICES ASSUME NEW n, NEW f PROVE f \in Exposed(Stored(n)) <=> f \in Sees(n)
      OBVIOUS
    <3>1. f \in Exposed(Stored(n)) <=> \E p \in Stored(n) : f \in Exposes(p)
      BY DEF Exposed
    <3>2. (\E p \in Stored(n) : f \in Exposes(p)) <=> \E v \in vectors : v.run = n /\ f \in Exposes(v.pattern)
      BY DEF Stored
    <3>3. \A v \in vectors : v.pattern \in Patterns
      BY DEF LineageInv
    <3> QED BY <2>1, <3>1, <3>2, <3>3 DEF Sees
  <2>3. CASE (\A v \in vectors : v.run # l[2]) /\ runs[l[2]].count # 0
    <3>1. Stored(l[2]) = {}
      BY <2>3 DEF Stored
    <3> QED BY <2>3, <3>1, FS_EmptySet
  <2>4. CASE Sees(l[1]) \subseteq Sees(l[2])
    BY <2>2, <2>4
  <2> QED BY <2>3, <2>4 DEF LineageInv
<1> QED BY <1>1, <1>2, <1>3, PTL DEF Spec
=============================================================================
