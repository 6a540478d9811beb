----------------------------- MODULE Compaction -----------------------------
(***************************************************************************)
(* Test-set compaction after an ATPG run: compact_run (reverse-order fault *)
(* simulation) and compact_run_dynamic (cube extraction, greedy packing    *)
(* under several orders, a safety net that falls back to compact_run).     *)
(* Compaction never touches the faults table; it writes the smaller test   *)
(* set as a second, already complete, run in two transactions.             *)
(*                                                                         *)
(* A pattern is a function from primary inputs to Booleans.  The netlist   *)
(* is the relation hits: what compaction's own simulator sees of a         *)
(* pattern.  captured is what a scan campaign credits beyond it.           *)
(***************************************************************************)
EXTENDS FaultStore, SequencesExt

CONSTANTS
  PIs,         \* primary inputs, in no particular order
  Dynamic,     \* atpg.compaction = 'dynamic' (scan runs know only 'reverse')
  PackOrders,  \* atpg.pack_orders
  DenseFaults, \* _DYNAMIC_DENSE_FAULTS
  QStems,      \* scan: faults a captured value may expose, {} for native campaigns
  ResetHolds,  \* scan: set and reset inputs at their inactive level, <<>> for native campaigns
  MaxTests,    \* bound on the tests of one ATPG run
  Crashes      \* the process may die between two transactions

ASSUME PatternsAreAssignments == Patterns = [PIs -> BOOLEAN]
ASSUME PackingBounds == PackOrders \in Nat /\ DenseFaults \in Nat
ASSUME HoldsAreLevels == \A n \in DOMAIN ResetHolds : ResetHolds[n] \in BOOLEAN
ASSUME DynamicIsNative == Dynamic => QStems = {} /\ ResetHolds = <<>>

VARIABLES
  hits, captured,  \* the netlist
  lineage,         \* pairs <<raw run, compacted run>>
  pc,
  mem              \* local variables of the compaction, gone when it ends

netlist == <<hits, captured>>
vars == <<storeVars, netlist, lineage, pc, mem>>

\* What the campaign credits to a pattern.
Exposes(p) == hits[p] \cup captured[p]

Exposed(P) == UNION {Exposes(p) : p \in P}
Stored(r) == {v.pattern : v \in {w \in vectors : w.run = r}}

-----------------------------------------------------------------------------
(* Cubes *)

\* A cube's specified bits always have its vector's values, so spec is a set of inputs.
\* _extract_cube: an input is a don't-care iff both its values keep the targets.
ExtractCube(v, newly) ==
  {n \in PIs : \E b \in BOOLEAN : ~(newly \subseteq hits[[v EXCEPT ![n] = b]])}

CubeOf(c) ==
  [spec |-> IF Cardinality(c.newly) > DenseFaults THEN PIs ELSE ExtractCube(c.vector, c.newly),
   vector |-> c.vector, members |-> c.newly]

CubesCompatible(a, b) == \A n \in a.spec \cap b.spec : a.vector[n] = b.vector[n]

Merge(a, b) ==
  [spec |-> a.spec \cup b.spec,
   vector |-> [n \in PIs |-> IF n \in b.spec THEN b.vector[n] ELSE a.vector[n]],
   members |-> a.members \cup b.members]

\* Mutant: only the newcomer's faults are simulated.
FitsNewcomer(a, b) == CubesCompatible(a, b) /\ b.members \subseteq hits[Merge(a, b).vector]

\* Every merge is simulated.
Fits(a, b) ==
  CubesCompatible(a, b) /\ Merge(a, b).members \subseteq hits[Merge(a, b).vector]

\* One turn of _pack_cubes: the first open cube that fits, else a new one.
Place(open, cube) ==
  LET fit == {k \in DOMAIN open : Fits(open[k], cube)} IN
  IF fit = {} THEN Append(open, cube)
  ELSE LET k == CHOOSE i \in fit : \A j \in fit : i <= j IN
       [open EXCEPT ![k] = Merge(open[k], cube)]

\* _order_cubes: as selected, a stable sort by size of spec either way, or shuffled.
OrdersOf(cubes, i) ==
  LET size(k) == Cardinality(cubes[k].spec)
      before(j, k) == CASE i = 0 -> j < k
                        [] i = 1 -> size(j) < size(k) \/ (size(j) = size(k) /\ j < k)
                        [] i = 2 -> size(j) > size(k) \/ (size(j) = size(k) /\ j < k)
                        [] OTHER -> TRUE IN
  {[k \in DOMAIN cubes |-> cubes[s[k]]] :
     s \in {t \in Bijection(DOMAIN cubes, DOMAIN cubes) :
              \A j, k \in DOMAIN cubes : j < k => before(t[j], t[k])}}

-----------------------------------------------------------------------------
Fresh ==
  [tests |-> <<>>,          \* vectors, as the ATPG run returned them
   method |-> "reverse",    \* the function that is running
   targets |-> {},          \* targets_by_id
   remaining |-> {},
   idx |-> 0,
   chosen |-> <<>>,         \* contributions, latest vector first: [vector, newly]
   order |-> 0,
   queue |-> <<>>,          \* cubes still to place in this packing pass
   open |-> <<>>,           \* open_cubes
   best |-> <<>>, some |-> FALSE,
   out |-> <<>>]            \* the vectors to be written

Init ==
  /\ StoreInit
  /\ hits \in [Patterns -> SUBSET InScope]
  /\ captured \in [Patterns -> SUBSET QStems]
  /\ lineage = {}
  /\ pc = "idle"
  /\ mem = Fresh

Goto(label, m) == pc' = label /\ mem' = m
Leave == Goto("idle", Fresh)
Quiet == UNCHANGED <<storeVars, netlist, lineage>>

Distinct(t) == \A i, j \in DOMAIN t : i # j => t[i] # t[j]
TestSets == {t \in UNION {[1..n -> Patterns] : n \in 0..MaxTests} : Distinct(t)}

\* _process_scan_candidate grades and stores the vector with set and reset held.
Held(t) == [k \in DOMAIN t |-> [n \in PIs |-> IF n \in DOMAIN ResetHolds THEN ResetHolds[n] ELSE t[k][n]]]

\* run_progressive_*_atpg, by what it promises: vectors stored under a new run, and every
\* fault they expose detected by one of them.  Its caller gets the distinct candidates,
\* as they were before the hold.  A resumed campaign's run comes with the detections of
\* the earlier ones.
AtpgRun ==
  /\ pc = "idle" /\ Len(runs) < MaxRuns
  /\ \E t \in TestSets : \E graded \in {Held(t)} :
       LET r == Len(runs) + 1
           hit == {f \in Exposed(Range(graded)) : status[f] # "detected"}
           by(f) == CHOOSE k \in DOMAIN graded : f \in Exposes(graded[k]) IN
       /\ runs' = Append(runs, [NewRun EXCEPT !.status = "complete", !.count = Len(t),
                                              !.terminal = "COMPLETE"])
       /\ AppendVectors(r, 1, graded)
       /\ status' = [f \in Faults |-> IF f \in hit THEN "detected"
                                   ELSE IF status[f] # "absent" THEN status[f]
                                   ELSE IF f \in Excluded THEN "excluded" ELSE "undetected"]
       /\ detBy' = [f \in Faults |-> IF f \in hit /\ QStems = {} THEN by(f) ELSE detBy[f]]
       /\ detections' = detections \cup {[fault |-> f, run |-> r, index |-> by(f)] : f \in hit}
       /\ IF t = <<>> THEN Leave      \* raw_count == 0
          ELSE Goto("read", [Fresh EXCEPT !.tests = t,
                              !.method = IF Dynamic THEN "dynamic" ELSE "reverse"])
  /\ UNCHANGED <<unresolved, certModel, satOutcome, netlist, lineage>>

\* _detected_fault_targets: the campaign's detected faults, whichever run detected them.
ReadTargets ==
  /\ pc = "read"
  /\ Goto("select", [mem EXCEPT !.targets = DetectedFaults, !.remaining = DetectedFaults,
                                !.idx = Len(mem.tests), !.chosen = <<>>])
  /\ Quiet

\* One vector of the reverse walk.
Select ==
  /\ pc = "select" /\ mem.idx > 0 /\ mem.remaining # {}
  /\ LET v == mem.tests[mem.idx]
         newly == hits[v] \cap mem.remaining IN
     Goto("select", [mem EXCEPT !.idx = @ - 1, !.remaining = @ \ newly, !.chosen =
            IF newly = {} THEN @ ELSE Append(@, [vector |-> v, newly |-> newly])])
  /\ Quiet

\* Mutant: the walk stops before the first vector.
SelectedEarly == pc = "select" /\ (mem.idx <= 1 \/ mem.remaining = {})

Selected == pc = "select" /\ (mem.idx = 0 \/ mem.remaining = {})

Vectors(s) == [k \in DOMAIN s |-> s[k].vector]

\* compact_run keeps the contributing vectors in their original order.
KeepSelected ==
  /\ Selected /\ mem.method = "reverse"
  /\ Goto("insert", [mem EXCEPT !.out = Reverse(Vectors(mem.chosen))])
  /\ Quiet

\* compact_run_dynamic: the cubes are extracted once, then packed order by order.
Cubes == [k \in DOMAIN mem.chosen |-> CubeOf(mem.chosen[k])]

BeginPacking ==
  /\ Selected /\ mem.method = "dynamic"
  /\ Goto("pack", [mem EXCEPT !.order = 0, !.queue = Cubes, !.open = <<>>])
  /\ Quiet

PackCube ==
  /\ pc = "pack" /\ mem.queue # <<>>
  /\ Goto("pack", [mem EXCEPT !.queue = Tail(@), !.open = Place(mem.open, Head(mem.queue))])
  /\ Quiet

\* The fewest-vector result so far is kept; max(1, pack_orders) passes.
EndPass ==
  /\ pc = "pack" /\ mem.queue = <<>>
  /\ LET better == ~mem.some \/ Len(mem.open) < Len(mem.best)
         kept == [mem EXCEPT !.best = IF better THEN Vectors(mem.open) ELSE @,
                             !.some = TRUE, !.open = <<>>, !.order = @ + 1] IN
     IF mem.order + 1 < PackOrders
       THEN \E q \in OrdersOf(Cubes, mem.order + 1) : Goto("pack", [kept EXCEPT !.queue = q])
       ELSE Goto("net", kept)
  /\ Quiet

\* The safety net: every detected fault of the campaign, no more vectors than reverse.
NetHolds ==
  /\ mem.targets \subseteq UNION {hits[mem.best[k]] : k \in DOMAIN mem.best}
  /\ Len(mem.best) <= Len(mem.chosen)

AcceptPacked ==
  /\ pc = "net" /\ NetHolds
  /\ Goto("insert", [mem EXCEPT !.out = mem.best])
  /\ Quiet

FallBack ==
  /\ pc = "net" /\ ~NetHolds
  /\ Goto("read", [mem EXCEPT !.method = "reverse"])
  /\ Quiet

\* _insert_compacted_run: a complete run with the raw run's statistics and the new count.
\* The raw run is the last one.
InsertCompactedRun ==
  /\ pc = "insert"
  /\ runs' = Append(runs, [runs[Len(runs)] EXCEPT !.count = Len(mem.out)])
  /\ lineage' = lineage \cup {<<Len(runs), Len(runs) + 1>>}
  /\ IF mem.out = <<>> THEN Leave ELSE Goto("append", mem)
  /\ UNCHANGED <<faultCols, vectors, detections, satOutcome, netlist>>

\* Mutant: the rows go to the raw run.
AppendCompactedToRaw ==
  /\ pc = "append"
  /\ vectors' = {v \in vectors : v.run # Len(runs) - 1}
                  \cup {[run |-> Len(runs) - 1, index |-> k, pattern |-> mem.out[k]]
                          : k \in DOMAIN mem.out}
  /\ Leave
  /\ UNCHANGED <<faultCols, runs, detections, satOutcome, netlist, lineage>>

\* append_vectors, a second transaction.
AppendCompacted ==
  /\ pc = "append"
  /\ AppendVectors(Len(runs), 1, mem.out)
  /\ Leave
  /\ UNCHANGED <<faultCols, runs, detections, satOutcome, netlist, lineage>>

Crash == Crashes /\ pc # "idle" /\ Leave /\ Quiet

Step ==
  \/ ReadTargets \/ Select \/ KeepSelected \/ BeginPacking \/ PackCube \/ EndPass
  \/ AcceptPacked \/ FallBack \/ InsertCompactedRun \/ AppendCompacted

Next == AtpgRun \/ Step \/ Crash
Spec == Init /\ [][Next]_vars

-----------------------------------------------------------------------------
(* Properties *)

\* compact_run: "Coverage is unchanged because every fault detected by the full set is
\* still detected by the kept subset".  Both functions, whatever was packed: once a
\* compacted run is written, what its raw run exposes of the campaign's detected faults,
\* it exposes too.
CoveragePreserved ==
  \A l \in lineage : Cardinality(Stored(l[2])) = runs[l[2]].count =>
    Exposed(Stored(l[1])) \cap DetectedFaults \subseteq Exposed(Stored(l[2]))

\* Each packing pass carries every selected fault to the end, under every order: what is
\* still queued and what the open cubes' vectors really detect is what was selected.
PackingLosesNothing ==
  pc = "pack" =>
    LET queued == UNION {mem.queue[k].members : k \in DOMAIN mem.queue}
        placed == UNION {mem.open[k].members : k \in DOMAIN mem.open} IN
    /\ queued \cup placed = mem.targets \ mem.remaining
    /\ \A k \in DOMAIN mem.open : mem.open[k].members \subseteq hits[mem.open[k].vector]

\* fault_detections rows name a run and an index; compaction, wherever it dies, leaves the
\* vector they name in place.
EvidenceOutlivesCompaction ==
  \A d \in detections : \E v \in vectors :
    v.run = d.run /\ v.index = d.index /\ d.fault \in Exposes(v.pattern)
=============================================================================
