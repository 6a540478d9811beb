----------------------------- MODULE NativeAtpg -----------------------------
(***************************************************************************)
(* run_progressive_native_atpg: the stuck-at campaign loop on a plain      *)
(* (non-scan) netlist, over the store of FaultStore.  One process opens    *)
(* the campaign, grades random vectors once, then in rounds asks the SAT   *)
(* solver for a vector per surviving fault, serially or in waves over a    *)
(* pool of worker processes, and grades every accepted vector.  The        *)
(* process may die between two transactions; a later invocation resumes    *)
(* the same campaign from the store, with empty memory.                    *)
(*                                                                         *)
(* The netlist is abstracted to which faults each pattern detects, chosen  *)
(* once in the initial state: golden simulator, bit-parallel engine and    *)
(* SAT miter are all assumed to compute it, except that with MayMismatch   *)
(* the solver may also return a vector the golden simulator refutes, the   *)
(* case verify_fault_candidate is there for.                               *)
(***************************************************************************)
EXTENDS FaultStore

CONSTANTS
  Model,          \* redundancy_model of this campaign's fingerprint
  NoPattern,      \* the absent 'vector' of a verdict that is not SAT
  NoFault,        \* no SAT target: a random vector is being graded
  Reconv,         \* reconvergent-site faults named by the preflight (Phase A)
  DropSat,        \* atpg.fault_drop_sat
  Workers,        \* atpg.workers
  WaveSize,       \* workers * SAT_WAVE_FACTOR
  RandomVectors,  \* atpg.random_vectors
  RandomStopPct,  \* atpg.random_stop_coverage, 0 disables it
  RandomOnlyModes,\* values of atpg.random_only the invocations may use
  MaxRounds,      \* atpg.max_rounds
  TargetPct,      \* report.threshold
  Tiers,          \* number of tiers of sat_timeout_schedule
  SolverLimits,   \* the conflict limit or the wall clock may stop a solve
  MayMismatch,    \* the solver's vector may fail golden verification
  ExtraKeys,      \* solved vectors carry __wbrstim_ keys outside the PI list
  WaveErrors,     \* a wave may raise something other than BrokenProcessPool
  Crashes         \* the process may die, and the pool may break

ASSUME FaultIdsAreOrdered == Faults \subseteq Nat
ASSUME FaultsAreFinite == IsFiniteSet(Faults)
ASSUME ModelIsKnown == Model \in Models
ASSUME Sentinels == NoPattern \notin Patterns /\ NoFault \notin Faults
ASSUME ReconvAreFaults == Reconv \subseteq Faults
ASSUME Flags == {DropSat, SolverLimits, MayMismatch, ExtraKeys,
                 WaveErrors, Crashes} \cup RandomOnlyModes \subseteq BOOLEAN
ASSUME Sizes == /\ {Workers, WaveSize, MaxRounds, Tiers} \subseteq Nat \ {0}
                /\ {RandomVectors, RandomStopPct, TargetPct} \subseteq Nat

VARIABLES
  detects,       \* the netlist: the faults each pattern detects (never changes)
  pc,            \* where the invocation is
  parallel,      \* _parallel: the worker pool exists
  randomOnly,    \* atpg.random_only of this invocation (not fingerprinted)
  round,         \* round_idx
  switched,      \* switched_to_sat
  tests,         \* vectors, the in-memory list
  graded,        \* random vectors graded so far
  seen,          \* seen_patterns
  rejected,      \* rejected_patterns
  timeouts,      \* prior_timeout_count
  prev,          \* prev_detected, prev_redundant
  active,        \* active_ids of this round
  todo,          \* the faults of active_ids the loop has not reached
  remaining,     \* remaining
  undispatched,  \* active_ids[_wave_pos:]
  results,       \* _parallel_results
  outcomes,      \* round_tracker.sat_outcomes, as a set
  satOut,        \* _sat_outcomes
  cur,           \* [fault, pattern, index] being accepted and graded
  terminal,      \* terminal
  tried          \* history: the tiers each fault was really attempted at

memory == <<parallel, randomOnly, round, switched, tests, graded, seen, rejected, timeouts,
            prev, active, todo, remaining, undispatched, results, outcomes,
            satOut, cur, terminal, tried>>
vars == <<storeVars, detects, pc, memory>>

Verdicts == [kind: {"SAT"}, pattern: Patterns]
              \cup [kind: {"UNSAT", "TIMEOUT", "UNKNOWN"}, pattern: {NoPattern}]
Verdict(k) == [kind |-> k, pattern |-> NoPattern]
SatVerdict(p) == [kind |-> "SAT", pattern |-> p]
NoVerdict == Verdict("none")

NoCur == [fault |-> NoFault, pattern |-> NoPattern, index |-> 0]

run == Len(runs)
Testable(f) == \E p \in Patterns : f \in detects[p]
\* Mutant: the ungraded tail counts as graded.
GradedRandomWithTail == {tests[k] : k \in 1..Len(tests)}

GradedRandom == {tests[k] : k \in 1..graded}

-----------------------------------------------------------------------------
(* Order of visits: active_ids is sorted by id, reconvergent sites last. *)

Before(f, g) ==
  \/ f \notin Reconv /\ g \in Reconv
  \/ (f \in Reconv <=> g \in Reconv) /\ f < g

First(S) == CHOOSE f \in S : \A g \in S \ {f} : Before(f, g)
\* Mutant: the next fault is looked for by id alone.
AfterById(S, f) == {g \in S : f < g}

After(S, f) == {g \in S : Before(f, g)}
FirstK(S, k) == {f \in S : Cardinality({g \in S : Before(g, f)}) < k}

\* Mutant: the loop does not skip the faults dropped by earlier vectors.
SurvivorsNotDropped == todo

\* The faults the loop will still stop at.
Survivors == IF DropSat THEN todo \cap remaining ELSE todo

\* The next wave: the first WaveSize survivors not dispatched yet, and what is
\* left undispatched once _wave_pos has moved past the last of them.
Wave == FirstK(IF DropSat THEN undispatched \cap remaining ELSE undispatched, WaveSize)

AfterWave == IF Cardinality(Wave) < WaveSize
               THEN {}
               ELSE {g \in undispatched : \A f \in Wave : Before(f, g)}

-----------------------------------------------------------------------------
(* The solver, as solve_fault_for_db answers for one fault. *)

\* Mutant: the index into sat_timeout_schedule is not clamped.
TierOfUnclamped(f) == timeouts[f]

TierOf(f) == IF timeouts[f] < Tiers THEN timeouts[f] ELSE Tiers - 1

Witnesses(f) == {p \in Patterns \ rejected[f] : f \in detects[p]}

\* A blocked pattern longer than the PI list makes the mode-aware solver throw.
SolverThrows(f) == ExtraKeys /\ rejected[f] # {}

SolverVerdicts(f) ==
  {SatVerdict(p) : p \in IF MayMismatch THEN Patterns \ rejected[f] ELSE Witnesses(f)}
    \cup {Verdict(k) : k \in (IF Witnesses(f) = {} THEN {"UNSAT"} ELSE {})
                          \cup (IF SolverLimits THEN {"TIMEOUT", "UNKNOWN"} ELSE {})}

\* solve_fault_worker turns an exception of the solve into UNKNOWN.
WorkerVerdicts(f) == IF SolverThrows(f) THEN {Verdict("UNKNOWN")} ELSE SolverVerdicts(f)

-----------------------------------------------------------------------------
(* Opening the campaign *)

FreshMemory ==
  /\ parallel = FALSE /\ randomOnly = FALSE /\ round = 0 /\ switched = FALSE
  /\ tests = <<>> /\ graded = 0 /\ seen = {}
  /\ rejected = [f \in Faults |-> {}]
  /\ timeouts = [f \in Faults |-> 0]
  /\ prev = <<0, 0>>
  /\ active = {} /\ todo = {} /\ remaining = {} /\ undispatched = {}
  /\ results = [f \in Faults |-> NoVerdict]
  /\ outcomes = {}
  /\ satOut = [f \in Faults |-> "none"]
  /\ cur = NoCur
  /\ terminal = "MAX_ROUNDS"
  /\ tried = [f \in Faults |-> {}]

Init ==
  /\ StoreInit
  /\ detects \in [Patterns -> SUBSET Faults]
  /\ pc = "idle"
  /\ FreshMemory

\* The invocation ends, however it ends: its memory is gone.
Leave ==
  /\ pc' = "idle"
  /\ parallel' = FALSE /\ randomOnly' = FALSE /\ round' = 0 /\ switched' = FALSE
  /\ tests' = <<>> /\ graded' = 0 /\ seen' = {}
  /\ rejected' = [f \in Faults |-> {}]
  /\ timeouts' = [f \in Faults |-> 0]
  /\ prev' = <<0, 0>>
  /\ active' = {} /\ todo' = {} /\ remaining' = {} /\ undispatched' = {}
  /\ results' = [f \in Faults |-> NoVerdict]
  /\ outcomes' = {}
  /\ satOut' = [f \in Faults |-> "none"]
  /\ cur' = NoCur
  /\ terminal' = "MAX_ROUNDS"
  /\ tried' = [f \in Faults |-> {}]

\* ensure_faults_enumerated.
Enumerate ==
  /\ pc = "idle" /\ run < MaxRuns
  /\ InsertFaultsIfEmpty
  /\ pc' = "open"
  /\ UNCHANGED <<runs, vectors, detections, satOutcome, detects, memory>>

\* invalidate_stale_redundant, then the run row; the pool may be unavailable.
OpenRun ==
  /\ pc = "open"
  /\ InvalidateStaleRedundant(Model)
  /\ StartRun
  /\ parallel' \in (IF Workers > 1 THEN BOOLEAN ELSE {FALSE})
  /\ randomOnly' \in RandomOnlyModes
  /\ pc' = "preflight"
  /\ UNCHANGED <<vectors, detections, satOutcome, detects, round, switched, tests,
                 graded, seen, rejected, timeouts, prev, active, todo, remaining,
                 undispatched, results, outcomes, satOut, cur, terminal, tried>>

\* Phase B: the faults on canceling paths, per the external analysis, which is
\* trusted to name untestable faults only (none when it is not installed).
Preflight ==
  /\ pc = "preflight"
  /\ \E S \in SUBSET {f \in Faults : ~Testable(f)} : PrecertifyRedundant(S, Model)
  /\ pc' = "round"
  /\ UNCHANGED <<runs, vectors, detections, satOutcome, detects, memory>>

-----------------------------------------------------------------------------
(* The head of a round, and the random fill *)

\* Mutant: the loop's bound is off by one.
RoundsExhaustedLate ==
  /\ pc = "round" /\ round = MaxRounds + 1
  /\ pc' = "finish"
  /\ UNCHANGED <<storeVars, detects, memory>>

\* The for loop runs out of rounds, or finds nothing left to target.
RoundsExhausted ==
  /\ pc = "round" /\ round = MaxRounds
  /\ pc' = "finish"
  /\ UNCHANGED <<storeVars, detects, memory>>

NothingLeft ==
  /\ pc = "round" /\ round < MaxRounds
  /\ Active = {}
  /\ round' = round + 1
  /\ prev' = FaultCounts
  /\ terminal' = "COMPLETE"
  /\ pc' = "finish"
  /\ UNCHANGED <<storeVars, detects, parallel, randomOnly, switched, tests, graded, seen,
                 rejected, timeouts, active, todo, remaining, undispatched,
                 results, outcomes, satOut, cur, tried>>

\* A random batch after _append_unique_vectors: no pattern twice.
RandomBatches ==
  UNION {{b \in [1..n -> Patterns] : \A i, j \in 1..n : i # j => b[i] # b[j]}
           : n \in 0..RandomVectors}

BeginRound ==
  /\ pc = "round" /\ round < MaxRounds
  /\ Active # {}
  /\ round' = round + 1
  /\ prev' = FaultCounts
  /\ active' = Active
  /\ outcomes' = {}
  /\ IF switched
       THEN pc' = "plan" /\ UNCHANGED <<tests, seen>>
       ELSE \E b \in RandomBatches :
              /\ tests' = b
              /\ seen' = {b[k] : k \in DOMAIN b}
              /\ pc' = "random"
  /\ UNCHANGED <<storeVars, detects, parallel, randomOnly, switched, graded, rejected, timeouts,
                 todo, remaining, undispatched, results, satOut, cur, terminal, tried>>

\* _random_stop_reached: its denominator keeps the redundant faults.
RandomStopReached ==
  /\ RandomStopPct > 0 /\ InScope # {}
  /\ 100 * Cardinality(DetectedFaults) >= RandomStopPct * Cardinality(InScope)

\* The check follows a graded vector, so the first vector is always graded.
RandomStops == graded = Len(tests) \/ (graded > 0 /\ RandomStopReached)

NextRandom ==
  /\ pc = "random" /\ ~RandomStops
  /\ cur' = [fault |-> NoFault, pattern |-> tests[graded + 1], index |-> graded + 1]
  /\ pc' = "append"
  /\ UNCHANGED <<storeVars, detects, parallel, randomOnly, round, switched, tests, graded, seen,
                 rejected, timeouts, prev, active, todo, remaining, undispatched,
                 results, outcomes, satOut, terminal, tried>>

\* The ungraded tail leaves vectors and seen_patterns again.
RandomDone ==
  /\ pc = "random" /\ RandomStops
  /\ tests' = SubSeq(tests, 1, graded)
  /\ seen' = GradedRandom
  /\ switched' = TRUE
  /\ IF randomOnly
       THEN pc' = "finish" /\ terminal' = "RANDOM_ONLY"
       ELSE pc' = "plan" /\ UNCHANGED terminal
  /\ UNCHANGED <<storeVars, detects, parallel, randomOnly, round, graded, rejected, timeouts, prev,
                 active, todo, remaining, undispatched, results, outcomes, satOut,
                 cur, tried>>

-----------------------------------------------------------------------------
(* _accept_and_simulate: three transactions *)

AppendVector ==
  /\ pc = "append"
  /\ AppendVectors(run, cur.index, <<cur.pattern>>)
  /\ pc' = "grade"
  /\ UNCHANGED <<faultCols, runs, detections, satOutcome, detects, memory>>

\* Mutant: a SAT vector is not graded against the faults whose verdict is in flight.
GradeIdsUndispatched ==
  IF cur.fault = NoFault THEN active
  ELSE IF DropSat THEN (remaining \cap undispatched) \cup {cur.fault} ELSE {cur.fault}

\* fault_ids: every active fault for a random vector; for a SAT vector the
\* remaining ones, or the target alone.
GradeIds ==
  IF cur.fault = NoFault THEN active ELSE IF DropSat THEN remaining ELSE {cur.fault}

\* simulate_incremental on the live rows, and the in-memory diff of `remaining`.
NewlyDetected == {f \in LiveRecords(GradeIds, FALSE) : f \in detects[cur.pattern]}

GradeVector ==
  /\ pc = "grade"
  /\ MarkFaultsDetected(run, cur.index, NewlyDetected)
  /\ remaining' = IF cur.fault # NoFault /\ DropSat
                    THEN remaining \ NewlyDetected ELSE remaining
  /\ pc' = "count"
  /\ UNCHANGED <<runs, vectors, satOutcome, detects, parallel, randomOnly, round, switched, tests,
                 graded, seen, rejected, timeouts, prev, active, todo, undispatched,
                 results, outcomes, satOut, cur, terminal, tried>>

CountVector ==
  /\ pc = "count"
  /\ UpdateRunVectorCount(run, cur.index)
  /\ IF cur.fault = NoFault
       THEN pc' = "random" /\ graded' = graded + 1 /\ UNCHANGED outcomes
       ELSE pc' = "loop" /\ outcomes' = outcomes \cup {"SAT"} /\ UNCHANGED graded
  /\ cur' = NoCur
  /\ UNCHANGED <<faultCols, vectors, detections, satOutcome, detects, parallel, randomOnly, round,
                 switched, tests, seen, rejected, timeouts, prev, active, todo,
                 remaining, undispatched, results, satOut, terminal, tried>>

-----------------------------------------------------------------------------
(* The SAT loop of a round *)

\* Re-read of the active faults, Phase A tier seeding, empty wave state.
PlanRound ==
  /\ pc = "plan"
  /\ active' = Active /\ todo' = Active /\ remaining' = Active /\ undispatched' = Active
  /\ timeouts' = [f \in Faults |-> IF f \in Active \cap Reconv /\ timeouts[f] = 0
                                     THEN 1 ELSE timeouts[f]]
  /\ results' = [f \in Faults |-> NoVerdict]
  /\ satOut' = [f \in Faults |-> "none"]
  /\ pc' = "loop"
  /\ UNCHANGED <<storeVars, detects, parallel, randomOnly, round, switched, tests, graded, seen,
                 rejected, prev, outcomes, cur, terminal, tried>>

\* A wave is due when the next fault has no result and some fault is undispatched.
Target == First(Survivors)
WaveDue == parallel /\ results[Target] = NoVerdict /\ Wave # {}

\* executor.map returns the whole wave, or raises after part of it.
WaveReturns(done) ==
  /\ \E v \in [done -> Verdicts] :
       /\ \A f \in done : v[f] \in WorkerVerdicts(f)
       /\ results' = [f \in Faults |-> IF f \in done THEN v[f] ELSE results[f]]
  /\ undispatched' = AfterWave
  /\ tried' = [f \in Faults |-> IF f \in done THEN tried[f] \cup {TierOf(f)} ELSE tried[f]]
  /\ pc' = "solve"
  /\ UNCHANGED <<storeVars, detects, parallel, randomOnly, round, switched, tests, graded, seen,
                 rejected, timeouts, prev, active, todo, remaining, outcomes, satOut,
                 cur, terminal>>

DispatchWave ==
  /\ pc = "loop" /\ Survivors # {} /\ WaveDue
  /\ WaveReturns(Wave)

WaveRaises ==
  /\ pc = "loop" /\ Survivors # {} /\ WaveDue
  /\ WaveErrors
  /\ \E done \in SUBSET Wave \ {Wave} : WaveReturns(done)

\* The loop body past the wave dispatch.  A serial solve happens only while
\* _parallel_results is empty; otherwise the result is popped, default UNKNOWN.
AtBody == pc = "solve" \/ (pc = "loop" /\ Survivors # {} /\ ~WaveDue)
SolvesSerially == \A f \in Faults : results[f] = NoVerdict

Answers ==
  IF SolvesSerially
    THEN IF SolverThrows(Target) THEN {} ELSE SolverVerdicts(Target)
    ELSE {IF results[Target] = NoVerdict THEN Verdict("UNKNOWN") ELSE results[Target]}

\* What every visit does to memory besides acting on the verdict.
Visited ==
  /\ AtBody
  /\ todo' = After(todo, Target)
  /\ results' = [results EXCEPT ![Target] = NoVerdict]
  /\ tried' = IF SolvesSerially
                THEN [tried EXCEPT ![Target] = @ \cup {TierOf(Target)}] ELSE tried
  /\ UNCHANGED <<detects, parallel, randomOnly, round, switched, graded, prev, active, remaining,
                 undispatched, terminal>>

\* SAT with a pattern already applied, or one the golden simulator refutes: the
\* pattern is blocked for this fault from now on.
SatNoProgress ==
  /\ Visited
  /\ \E p \in Patterns :
       /\ SatVerdict(p) \in Answers
       /\ p \in seen \/ Target \notin detects[p]
       /\ rejected' = [rejected EXCEPT ![Target] = @ \cup {p}]
  /\ outcomes' = outcomes \cup {"protocol_no_progress"}
  /\ pc' = "loop"
  /\ UNCHANGED <<storeVars, tests, seen, timeouts, satOut, cur>>

\* SAT with a new pattern that the golden simulator confirms.
SatAccepted ==
  /\ Visited
  /\ \E p \in Patterns :
       /\ SatVerdict(p) \in Answers
       /\ p \notin seen /\ Target \in detects[p]
       /\ seen' = seen \cup {p}
       /\ tests' = Append(tests, p)
       /\ cur' = [fault |-> Target, pattern |-> p, index |-> Len(tests) + 1]
  /\ pc' = "append"
  /\ UNCHANGED <<storeVars, rejected, timeouts, outcomes, satOut>>

Unsat ==
  /\ Visited
  /\ Verdict("UNSAT") \in Answers
  /\ MarkFaultRedundant(Target, Model)
  /\ pc' = "loop"
  /\ UNCHANGED <<runs, vectors, detections, satOutcome, tests, seen, rejected,
                 timeouts, outcomes, satOut, cur>>

\* TIMEOUT and UNKNOWN alike move the fault one tier up.
GaveUp(kind, row) ==
  /\ Visited
  /\ Verdict(kind) \in Answers
  /\ timeouts' = [timeouts EXCEPT ![Target] = @ + 1]
  /\ outcomes' = outcomes \cup {kind}
  /\ satOut' = [satOut EXCEPT ![Target] = row]
  /\ pc' = "loop"
  /\ UNCHANGED <<storeVars, tests, seen, rejected, cur>>

Timeout == GaveUp("TIMEOUT", "timeout")
Unknown == GaveUp("UNKNOWN", "unknown")

\* The serial solver raises: nothing catches it.
SolveRaises ==
  /\ AtBody /\ SolvesSerially /\ SolverThrows(Target)
  /\ Leave
  /\ UNCHANGED <<storeVars, detects>>

-----------------------------------------------------------------------------
(* The end of a round, and of the run *)

ShouldStall == FaultCounts = prev /\ outcomes \subseteq {"TIMEOUT", "UNKNOWN"}

\* Mutant: no check for faults that have not reached the longest tier.
NoHeadroom == FALSE

EscalationHeadroom == \E f \in Active : 0 < timeouts[f] /\ timeouts[f] < Tiers

EndRound ==
  /\ pc = "loop" /\ Survivors = {}
  /\ RecordSatOutcomes(satOut)
  /\ \/ /\ Active = {}
        /\ terminal' = "COMPLETE" /\ pc' = "finish"
     \/ /\ Active # {} /\ CoverageReaches(TargetPct)
        /\ terminal' = "THRESHOLD_MET" /\ pc' = "finish"
     \/ /\ Active # {} /\ ~CoverageReaches(TargetPct)
        /\ ShouldStall /\ ~EscalationHeadroom
        /\ terminal' = "STALLED" /\ pc' = "finish"
     \/ /\ Active # {} /\ ~CoverageReaches(TargetPct)
        /\ ~ShouldStall \/ EscalationHeadroom
        /\ pc' = "round" /\ UNCHANGED terminal
  /\ UNCHANGED <<faultCols, runs, vectors, detections, detects, parallel, randomOnly, round,
                 switched, tests, graded, seen, rejected, timeouts, prev, active,
                 todo, remaining, undispatched, results, outcomes, satOut, cur, tried>>

CompleteRun ==
  /\ pc = "finish" /\ Denominator # 0
  /\ CompleteRunWithAtpg(run, terminal)
  /\ Leave
  /\ UNCHANGED <<faultCols, vectors, detections, satOutcome, detects>>

\* "denominator is zero after progressive ATPG": the run row stays 'running'.
ZeroDenominator ==
  /\ pc = "finish" /\ Denominator = 0
  /\ Leave
  /\ UNCHANGED <<storeVars, detects>>

\* The process is killed between two transactions.
Crash ==
  /\ Crashes /\ pc # "idle"
  /\ Leave
  /\ UNCHANGED <<storeVars, detects>>

\* A worker process died: RunnerError, the store keeps what was written.
PoolBreaks ==
  /\ Crashes /\ pc = "loop" /\ Survivors # {} /\ WaveDue
  /\ Leave
  /\ UNCHANGED <<storeVars, detects>>

Step ==
  \/ OpenRun \/ Preflight
  \/ RoundsExhausted \/ NothingLeft \/ BeginRound \/ NextRandom \/ RandomDone
  \/ AppendVector \/ GradeVector \/ CountVector
  \/ PlanRound \/ DispatchWave \/ WaveRaises
  \/ SatNoProgress \/ SatAccepted \/ Unsat \/ Timeout \/ Unknown \/ SolveRaises
  \/ EndRound \/ CompleteRun \/ ZeroDenominator

Next == Enumerate \/ Step \/ Crash \/ PoolBreaks

Spec == Init /\ [][Next]_vars

\* An invocation keeps running; nobody is obliged to start one.
FairSpec == Spec /\ WF_vars(Step)

-----------------------------------------------------------------------------
(* Properties *)

\* Every variable holds a value of its domain.
TypeOK ==
  /\ StoreTypeOK
  /\ detects \in [Patterns -> SUBSET Faults]
  /\ pc \in {"idle", "open", "preflight", "round", "random", "append", "grade",
             "count", "plan", "loop", "solve", "finish"}
  /\ parallel \in BOOLEAN /\ randomOnly \in BOOLEAN /\ switched \in BOOLEAN
  /\ round \in 0..MaxRounds
  /\ tests \in Seq(Patterns)
  /\ graded \in Nat
  /\ seen \subseteq Patterns
  /\ rejected \in [Faults -> SUBSET Patterns]
  /\ timeouts \in [Faults -> Nat]
  /\ prev \in Nat \X Nat
  /\ active \subseteq Faults /\ todo \subseteq Faults
  /\ remaining \subseteq Faults /\ undispatched \subseteq Faults
  /\ results \in [Faults -> Verdicts \cup {NoVerdict}]
  /\ outcomes \subseteq {"SAT", "protocol_no_progress", "TIMEOUT", "UNKNOWN"}
  /\ satOut \in [Faults -> {"none", "timeout", "unknown"}]
  /\ cur \in [fault: Faults \cup {NoFault}, pattern: Patterns \cup {NoPattern}, index: Nat]
  /\ terminal \in Terminals
  /\ tried \in [Faults -> SUBSET (0..Tiers - 1)]

\* A fault certified redundant is detected by no pattern at all: the UNSAT that
\* certified it never owed its answer to blocked patterns, to a stale wave result
\* or to patterns counted as seen but never graded ("same truly-redundant set",
\* tests/python/atpg/test_progressive_atpg.py:597).
RedundantIsUntestable ==
  \A f \in InScope : status[f] = "redundant" => ~Testable(f)

\* Whatever the crash point, a detected fault is backed by a stored vector of the
\* run its detection row names, and that vector detects it.
DetectionIsBacked ==
  /\ \A f \in InScope : status[f] = "detected" => \E d \in detections : d.fault = f
  /\ \A d \in detections :
       \E v \in vectors :
         v.run = d.run /\ v.index = d.index /\ d.fault \in detects[v.pattern]

\* The in-memory `remaining` never sends the loop to a fault the store has settled:
\* the serial solver, which throws "fault is not active for SAT ATPG", is never
\* asked about one, and no wave verdict is applied to one.
LoopTargetsAreActive ==
  pc \in {"loop", "solve"} => Survivors \subseteq Active

\* And it never loses one: a fault still active when the round's loop is over got a
\* verdict of its own in this or an earlier round, whatever the visiting order, the
\* waves and the skipping of dropped faults did.
NoActiveFaultIsSkipped ==
  pc = "loop" /\ Survivors = {} =>
    \A f \in Active : satOut[f] # "none" \/ rejected[f] # {}

\* Whether the invocation is grading random vectors, or inside the SAT loop.
Accepting == pc \in {"append", "grade", "count"}
InRandom == pc = "random" \/ (Accepting /\ cur.fault = NoFault)
InSatLoop == pc \in {"loop", "solve"} \/ (Accepting /\ cur.fault # NoFault)

\* The patterns of seen_patterns that have gone through grading.
SeenAndGraded ==
  IF InRandom
    THEN GradedRandom \cup (IF pc = "count" THEN {cur.pattern} ELSE {})
    ELSE IF pc \in {"append", "grade"} THEN seen \ {cur.pattern} ELSE seen

\* With fault_drop_sat no fault still active is detected by a pattern already
\* applied, which is why a SAT answer found in seen_patterns carries no news.
SeenDetectsNoActive ==
  DropSat => \A p \in SeenAndGraded, f \in Active : f \notin detects[p]

\* So the solver is only ever forbidden patterns that do not detect its fault, and
\* blocking them cannot turn a testable fault UNSAT.
BlockedPatternsAreFruitless ==
  DropSat => \A f \in Faults : \A p \in rejected[f] : f \notin detects[p]

\* "a fault that keeps timing out should be retried at every tier of
\* sat_timeout_schedule before the loop gives up" (_escalation_headroom): a stall is
\* declared only once each active fault that ran out of budget was given the longest.
StallOnlyAtLongestTier ==
  pc = "finish" /\ terminal = "STALLED" =>
    \A f \in Active : timeouts[f] > 0 => Tiers - 1 \in tried[f]

\* Every invocation ends, completing its run or failing, within max_rounds.
EveryRunEnds == (pc = "open") ~> (pc = "idle")

\* The campaign keeps the promise of FaultLedger.
Ledger == INSTANCE FaultLedger WITH
  Faults <- InScope,
  detects <- [p \in Patterns |-> detects[p] \cap InScope],
  ledger <- [f \in InScope |->
               IF status[f] \in {"detected", "redundant"} THEN status[f] ELSE "open"],
  stored <- {v.pattern : v \in vectors}

\* Every behaviour of the loop, crashes and resumptions included, is one of the
\* abstract ledger's.
KeepsLedger == Ledger!LedgerSpec
=============================================================================
