------------------------------ MODULE ScanAtpg ------------------------------
(***************************************************************************)
(* run_progressive_scan_atpg and the candidate protocol under it: scan     *)
(* campaigns grade on the reduced (pseudo-PI/PO) view, but a vector enters *)
(* the store only through a row of atpg_candidates, inserted 'pending',    *)
(* gated by a golden comparison with the full scan protocol, and then      *)
(* accepted or rejected in ONE transaction.                                *)
(*                                                                         *)
(* The netlist is three relations fixed in the initial state: what the     *)
(* reduced view observes, which Q-stem faults a captured value exposes     *)
(* while it is unloaded, and which the protocol simulation passes.  A      *)
(* pattern stands for V1 (with the chain-head bits in launch-on-shift);    *)
(* Hold is the same pattern with every async set/reset input inactive.     *)
(***************************************************************************)
EXTENDS FaultStore

CONSTANTS
  Model,           \* redundancy model of the campaign
  NoPattern, NoFault,
  QStemSets,       \* which faults may sit on a scan flop's Q stem
  ScanExcluded,    \* faults build_scan_execution_map excludes (chain, internal, ...)
  Reconv,          \* Phase A: reconvergent sites, visited last
  Hold,            \* _scan_reset_pi_holds applied to a pattern
  Launches,        \* campaigns: stuck-at, or transition with launch 'loc' or 'los'
  Parallel,        \* a worker pool pre-solves the round
  RandomVectors, RandomStopPct, RandomOnlyModes, MaxRounds, TargetPct, Tiers,
  SolverLimits,    \* a solve may time out or give up
  EnginesAgree,    \* bit-parallel engine and golden simulator agree on each fault
  GoldenMayFail,   \* reduced_protocol_matches may raise
  WaveErrors,      \* executor.map may raise something else than BrokenProcessPool
  Crashes          \* the process may die between two transactions

ASSUME ScanFaults == QStemSets \subseteq SUBSET Faults /\ ScanExcluded \subseteq Excluded
ASSUME HoldIsIdempotent ==
  Hold \in [Patterns -> Patterns] /\ \A p \in Patterns : Hold[Hold[p]] = Hold[p]
ASSUME LaunchKinds == Launches \subseteq {"stuck_at", "loc", "los"}
ASSUME ScanSentinels == NoPattern \notin Patterns /\ NoFault \notin Faults
ASSUME ScanModel == Model \in Models
\* A netlist has finitely many faults.
ASSUME ScanFaultsAreCounted == \A S \in SUBSET Faults : Cardinality(S) \in Nat
ASSUME ScanModes == RandomOnlyModes \subseteq BOOLEAN

VARIABLES
  candidates,  \* atpg_candidates: rows [run, id, pattern, target, status]
  rejections,  \* candidate_rejections: rows [run, id, fault, reason]
  blocked,     \* blocked_patterns: rows [fault, pattern]
  reduced, captured, protocol,  \* the netlist
  QStems,      \* its faults whose site is a scan flop's Q stem
  launch,      \* fault_model.model and transition_launch of the campaign
  pc,          \* where the invocation is
  mem          \* its local variables, gone when it ends

scanTables == <<candidates, rejections, blocked>>
netlist == <<reduced, captured, protocol, QStems, launch>>
vars == <<storeVars, scanTables, netlist, pc, mem>>

Verdict(k) == [kind |-> k, pattern |-> NoPattern]
SatVerdict(p) == [kind |-> "SAT", pattern |-> p]
NoVerdict == Verdict("none")
Verdicts == {SatVerdict(p) : p \in Patterns}
              \cup {Verdict(k) : k \in {"UNSAT", "TIMEOUT", "UNKNOWN"}}
NoCur == [fault |-> NoFault, pattern |-> NoPattern]

run == Len(runs)
Transition == launch # "stuck_at"
Pending == {c \in candidates : c.status = "pending"}

-----------------------------------------------------------------------------
(* What one candidate shows *)

\* The faults a held pattern really exposes, each through the engine trusted for it.
Exposes(h) ==
  IF Transition THEN (reduced[h] \ QStems) \cup protocol[h]
                ELSE reduced[h] \cup captured[h] \cup protocol[h]

\* verify_fault_candidate / verify_transition_candidate, on the held vector.
Verified(f, h) == f \in reduced[h]

\* simulate_tentative_preloaded over the round's rows, stale ones included.
Tentatives(h) ==
  LET hit == mem.active \cap reduced[h] IN IF EnginesAgree THEN {hit} ELSE SUBSET hit

ActiveQStems == mem.active \cap QStems

\* Mutant: the reduced view is trusted for transition faults of Q stems.
TrustedAll(tent) == tent

\* Faults credited straight from the reduced view, and those left to the protocol.
Trusted(tent) == IF Transition THEN tent \ QStems ELSE tent
Residual(tent) == IF Transition THEN ActiveQStems ELSE ActiveQStems \ tent

\* Stuck-at: credit by captured value, then a protocol simulation for the SAT
\* target alone.  Transition: a protocol simulation for every residual fault.
ProtocolSimulated(tent, h) ==
  IF Transition THEN Residual(tent)
                ELSE (Residual(tent) \ captured[h]) \cap {mem.cur.fault}
Passed(tent, h) ==
  Trusted(tent)
    \cup (IF Transition THEN {} ELSE Residual(tent) \cap captured[h])
    \cup (ProtocolSimulated(tent, h) \cap protocol[h])
\* Mutant: a pattern is blocked whether or not the protocol passes it.
FailedAll(tent, h) == ProtocolSimulated(tent, h)

Failed(tent, h) == ProtocolSimulated(tent, h) \ protocol[h]

\* track_key: the key under which a pattern is tracked and blocked.
TrackKey(p) == IF launch = "los" THEN p ELSE Hold[p]

-----------------------------------------------------------------------------
(* Transactions on the candidate tables *)

AbortPendingCandidates ==
  candidates' = {IF c.status = "pending" THEN [c EXCEPT !.status = "aborted"] ELSE c
                   : c \in candidates}

InsertPendingCandidate ==
  candidates' = candidates \cup {[run |-> run, id |-> mem.counter, pattern |-> TrackKey(mem.cur.pattern),
                                  target |-> mem.cur.fault, status |-> "pending"]}

\* The part of _apply_candidate_commit every outcome shares.
CommitCandidate(outcome, why, block) ==
  /\ candidates' = {IF c.run = run /\ c.id = mem.counter
                      THEN [c EXCEPT !.status = outcome] ELSE c : c \in candidates}
  /\ rejections' = rejections \cup
       {[run |-> run, id |-> mem.counter, fault |-> w[1], reason |-> w[2]] : w \in why}
  /\ blocked' = blocked \cup
       {[fault |-> f, pattern |-> TrackKey(mem.cur.pattern)] : f \in block}

\* Its UPDATE of faults has no guard on status, and leaves detected_by_vector alone.
CommitDetections(S, i) ==
  /\ status' = [f \in Faults |-> IF f \in S THEN "detected" ELSE status[f]]
  /\ unresolved' = [f \in Faults |-> unresolved[f] /\ f \notin S]
  /\ detections' = detections \cup {[fault |-> f, run |-> run, index |-> i] : f \in S}
  /\ UNCHANGED <<detBy, certModel>>

\* _termination_sweep_q_stems.
SweepQStems ==
  /\ unresolved' = [f \in Faults |->
       unresolved[f] \/ (f \in QStems \cap InScope /\ status[f] = "undetected")]
  /\ UNCHANGED <<status, detBy, certModel>>

-----------------------------------------------------------------------------
(* Opening the campaign *)

Fresh ==
  [randomOnly |-> FALSE,                     \* atpg.random_only of this invocation
   round |-> 0, switched |-> FALSE,
   batch |-> <<>>, graded |-> 0,             \* new_random, graded_random
   seen |-> {},                              \* seen_patterns
   rejected |-> [f \in Faults |-> {}],       \* rejected_patterns
   timeouts |-> [f \in Faults |-> 0],        \* prior_timeout_count
   prev |-> <<0, 0>>,
   active |-> {},                            \* active_rows, as last read
   todo |-> {}, current |-> {},              \* rows not visited, current_active_ids
   blockedNow |-> {},                        \* db_blocked, as last read
   results |-> [f \in Faults |-> NoVerdict], \* _parallel_results
   outcomes |-> {},                          \* round_tracker.sat_outcomes
   satOut |-> [f \in Faults |-> "none"],     \* _sat_outcomes
   tests |-> <<>>, counter |-> 0,            \* vectors, candidate_counter
   cur |-> NoCur, terminal |-> "MAX_ROUNDS"]

Init ==
  /\ StoreInit
  /\ candidates = {} /\ rejections = {} /\ blocked = {}
  /\ launch \in Launches /\ QStems \in QStemSets
  /\ reduced \in [Patterns -> SUBSET InScope]
  /\ captured \in [Patterns -> SUBSET (IF Transition THEN {} ELSE QStems)]
  /\ protocol \in [Patterns -> SUBSET QStems]
  /\ \A p \in Patterns : Hold[p] # p => captured[p] = {} /\ protocol[p] = {}
  /\ pc = "idle"
  /\ mem = Fresh

\* The invocation ends, however it ends.
Leave == pc' = "idle" /\ mem' = Fresh

Goto(label, m) == pc' = label /\ mem' = m

\* _check_fingerprint found the campaign; candidates of a dead run are aborted.
Open ==
  /\ pc = "idle" /\ run < MaxRuns
  /\ AbortPendingCandidates
  /\ Goto("enumerate", mem)
  /\ UNCHANGED <<storeVars, rejections, blocked, netlist>>

\* Mutant: the rows are inserted again.
EnumerateAgain ==
  /\ pc = "enumerate"
  /\ status' = [f \in Faults |-> IF f \in Excluded \ ScanExcluded THEN "excluded" ELSE "undetected"]
  /\ Goto("map", mem)
  /\ UNCHANGED <<unresolved, detBy, certModel, runs, vectors, detections, satOutcome,
                 scanTables, netlist>>

\* ensure_faults_enumerated on the generic netlist, which knows no scan exclusion.
Enumerate ==
  /\ pc = "enumerate"
  /\ status' = IF Rows # {} THEN status
                ELSE [f \in Faults |-> IF f \in Excluded \ ScanExcluded
                                         THEN "excluded" ELSE "undetected"]
  /\ Goto("map", mem)
  /\ UNCHANGED <<unresolved, detBy, certModel, runs, vectors, detections, satOutcome,
                 scanTables, netlist>>

\* apply_scan_execution_map (a site without a mapping raises before the commit, which
\* leaves the store as a crash here does), then invalidate_stale_redundant.
ApplyScanExecutionMap ==
  /\ pc = "map"
  /\ status' = [f \in Faults |-> IF f \in ScanExcluded THEN "excluded" ELSE status[f]]
  /\ Goto("invalidate", mem)
  /\ UNCHANGED <<unresolved, detBy, certModel, runs, vectors, detections, satOutcome,
                 scanTables, netlist>>

Invalidate ==
  /\ pc = "invalidate"
  /\ InvalidateStaleRedundant(Model)
  /\ Goto("run", mem)
  /\ UNCHANGED <<runs, vectors, detections, satOutcome, scanTables, netlist>>

OpenRun ==
  /\ pc = "run"
  /\ StartRun
  /\ \E ro \in RandomOnlyModes :
       Goto(IF Transition THEN "round" ELSE "preflight", [mem EXCEPT !.randomOnly = ro])
  /\ UNCHANGED <<faultCols, vectors, detections, satOutcome, scanTables, netlist>>

\* _mark_preflight_redundant: the analysis is trusted to name faults the reduced view
\* never observes.  It is a transaction per fault; a crash among them is this action
\* with fewer faults and then Crash.
Preflight ==
  /\ pc = "preflight"
  /\ \E S \in SUBSET {f \in InScope : \A p \in Patterns : f \notin reduced[p]} :
       LET stems == {f \in S : status[f] = "undetected"} IN
       /\ status' = [f \in Faults |-> IF f \in stems \ QStems THEN "redundant" ELSE status[f]]
       /\ certModel' = [f \in Faults |-> IF f \in stems \ QStems THEN Model ELSE certModel[f]]
       /\ unresolved' = [f \in Faults |-> unresolved[f] \/ f \in stems \cap QStems]
  /\ Goto("round", mem)
  /\ UNCHANGED <<detBy, runs, vectors, detections, satOutcome, scanTables, netlist>>

-----------------------------------------------------------------------------
(* The head of a round, and the random fill *)

\* Mutants: off by one; no sweep after max_rounds.
RoundsExhaustedLate ==
  /\ pc = "round" /\ mem.round = MaxRounds + 1
  /\ Goto("sweep", mem)
  /\ UNCHANGED <<storeVars, scanTables, netlist>>
RoundsExhaustedNoSweep ==
  /\ pc = "round" /\ mem.round = MaxRounds
  /\ Goto("finish", mem)
  /\ UNCHANGED <<storeVars, scanTables, netlist>>

RoundsExhausted ==
  /\ pc = "round" /\ mem.round = MaxRounds
  /\ Goto("sweep", mem)
  /\ UNCHANGED <<storeVars, scanTables, netlist>>

NothingLeft ==
  /\ pc = "round" /\ mem.round < MaxRounds /\ Active = {}
  /\ Goto("finish", [mem EXCEPT !.terminal = "COMPLETE"])
  /\ UNCHANGED <<storeVars, scanTables, netlist>>

RandomBatches ==
  UNION {{b \in [1..n -> Patterns] : \A i, j \in 1..n : i # j => b[i] # b[j]}
           : n \in 0..RandomVectors}

BeginRound ==
  /\ pc = "round" /\ mem.round < MaxRounds /\ Active # {}
  /\ LET begun == [mem EXCEPT !.round = @ + 1, !.prev = FaultCounts,
                              !.active = Active, !.outcomes = {}] IN
     IF mem.switched
       THEN Goto("plan", begun)
       ELSE \E b \in RandomBatches :
              Goto("random", [begun EXCEPT !.batch = b, !.seen = {b[k] : k \in DOMAIN b}])
  /\ UNCHANGED <<storeVars, scanTables, netlist>>

RandomStopReached ==
  /\ RandomStopPct > 0 /\ InScope # {}
  /\ 100 * Cardinality(DetectedFaults) >= RandomStopPct * Cardinality(InScope)

RandomStops == mem.graded = Len(mem.batch) \/ (mem.graded > 0 /\ RandomStopReached)

NextRandom ==
  /\ pc = "random" /\ ~RandomStops
  /\ Goto("pending", [mem EXCEPT !.counter = @ + 1, !.graded = @ + 1,
         !.cur = [fault |-> NoFault, pattern |-> mem.batch[mem.graded + 1]]])
  /\ UNCHANGED <<storeVars, scanTables, netlist>>

\* The ungraded patterns are given back; random fill never runs again.
RandomDone ==
  /\ pc = "random" /\ RandomStops
  /\ LET done == [mem EXCEPT !.switched = TRUE,
         !.seen = {mem.batch[k] : k \in 1..mem.graded}] IN
     IF mem.randomOnly THEN Goto("finish", [done EXCEPT !.terminal = "RANDOM_ONLY"])
                   ELSE Goto("plan", done)
  /\ UNCHANGED <<storeVars, scanTables, netlist>>

-----------------------------------------------------------------------------
(* _process_scan_candidate *)

InsertPending ==
  /\ pc = "pending"
  /\ InsertPendingCandidate
  /\ Goto("gate", mem)
  /\ UNCHANGED <<storeVars, rejections, blocked, netlist>>

\* golden_sequence_failed: candidate and run are aborted in one transaction, and the
\* exception leaves the loop.
GoldenFails ==
  /\ pc = "gate" /\ GoldenMayFail
  /\ CommitCandidate("aborted", {}, {})
  /\ runs' = [runs EXCEPT ![run].status = "aborted"]
  /\ Leave
  /\ UNCHANGED <<faultCols, vectors, detections, satOutcome, netlist>>

IsSat == mem.cur.fault # NoFault

\* The pattern as it is graded and stored.
Held == Hold[mem.cur.pattern]

StoredPattern == Held
\* Mutant: vectors are numbered by candidate.
IndexByCandidate == mem.counter

NextIndex == Len(mem.tests) + 1

\* What the loop does with (accepted, protocol_no_progress).
AfterReject ==
  IF IsSat
    THEN Goto("loop", [mem EXCEPT !.cur = NoCur,
           !.rejected[mem.cur.fault] = @ \cup {mem.cur.pattern},
           !.outcomes = @ \cup {"protocol_no_progress"}])
    ELSE Goto("random", [mem EXCEPT !.cur = NoCur])

Reject(why, block) ==
  /\ CommitCandidate("rejected", why, block)
  /\ AfterReject
  /\ UNCHANGED <<storeVars, netlist>>

\* The SAT target is not detected once the async controls are held.
RejectUnverified ==
  /\ pc = "gate" /\ IsSat /\ ~Verified(mem.cur.fault, Held)
  /\ Reject({<<mem.cur.fault, "tier_a_reduced_mismatch">>}, {})

Gated == pc = "gate" /\ (IsSat => Verified(mem.cur.fault, Held))

\* Nothing in the reduced view and no Q stem to ask the protocol about.
RejectEmpty ==
  /\ Gated
  /\ \E t \in Tentatives(Held) : Trusted(t) = {} /\ Residual(t) = {}
  /\ Reject(IF IsSat THEN {<<mem.cur.fault, "tier_a_reduced_mismatch">>} ELSE {}, {})

ProtocolReasons(t) == {<<f, "no_capture_or_unload_effect">> : f \in Failed(t, Held)}

RejectFruitless ==
  /\ Gated
  /\ \E t \in Tentatives(Held) :
       /\ Residual(t) # {} /\ Passed(t, Held) = {}
       /\ Reject(ProtocolReasons(t), Failed(t, Held))

\* append_vector_row, commit_candidate and the vector_count UPDATE: one transaction.
\* The loop then keeps the pattern as the solver gave it, not as it was applied.
Accept ==
  /\ Gated
  /\ \E t \in Tentatives(Held) :
       LET kept == [mem EXCEPT !.tests = Append(@, mem.cur.pattern), !.cur = NoCur] IN
       /\ Passed(t, Held) # {}
       /\ AppendVectors(run, NextIndex, <<StoredPattern>>)
       /\ CommitDetections(Passed(t, Held), NextIndex)
       /\ CommitCandidate("accepted", ProtocolReasons(t), Failed(t, Held))
       /\ UpdateRunVectorCount(run, NextIndex)
       /\ IF IsSat
            THEN Goto("loop", [kept EXCEPT !.seen = @ \cup {mem.cur.pattern},
                                           !.outcomes = @ \cup {"SAT"},
                                           !.current = Active'])
            ELSE Goto("random", kept)
  /\ UNCHANGED <<satOutcome, netlist>>

-----------------------------------------------------------------------------
(* The SAT loop of a round *)

Blocks(f, b) == {r.pattern : r \in {x \in b : x.fault = f}}

\* Re-read of the rows and of blocked_patterns, Phase A.
PlanRound ==
  /\ pc = "plan"
  /\ Goto(IF Parallel /\ Active # {} THEN "wave" ELSE "loop",
       [mem EXCEPT !.active = Active, !.todo = Active, !.current = Active,
          !.blockedNow = blocked,
          !.timeouts = [f \in Faults |-> IF f \in Active \cap Reconv /\ @[f] = 0
                                           THEN 1 ELSE @[f]],
          !.results = Fresh.results, !.satOut = Fresh.satOut])
  /\ UNCHANGED <<storeVars, scanTables, netlist>>

\* The solver works on the reduced view and knows nothing of the held inputs.
Witnesses(f) ==
  {p \in Patterns \ (Blocks(f, mem.blockedNow) \cup mem.rejected[f]) : f \in reduced[p]}

SolverVerdicts(f) ==
  {SatVerdict(p) : p \in Witnesses(f)}
    \cup (IF Witnesses(f) = {} THEN {Verdict("UNSAT")} ELSE {})
    \cup (IF SolverLimits THEN {Verdict("TIMEOUT"), Verdict("UNKNOWN")} ELSE {})

\* Every active fault is solved before any is processed; a wave that raises keeps
\* what it had returned.
PreSolve ==
  /\ pc = "wave"
  /\ \E done \in IF WaveErrors THEN SUBSET mem.todo ELSE {mem.todo} :
       \E v \in [done -> Verdicts] :
         /\ \A f \in done : v[f] \in SolverVerdicts(f)
         /\ Goto("loop", [mem EXCEPT !.results =
                [f \in Faults |-> IF f \in done THEN v[f] ELSE NoVerdict]])
  /\ UNCHANGED <<storeVars, scanTables, netlist>>

\* Rows dropped by an accepted vector are passed over.  The order is by cone size,
\* which may be any order, with reconvergent sites last.
Survivors == mem.todo \cap mem.current

Targets == IF Survivors \subseteq Reconv THEN Survivors ELSE Survivors \ Reconv

SolvesSerially == \A f \in Faults : mem.results[f] = NoVerdict

Answers(f) ==
  IF SolvesSerially THEN SolverVerdicts(f)
  ELSE {IF mem.results[f] = NoVerdict THEN Verdict("UNKNOWN") ELSE mem.results[f]}

Visited(f) == [mem EXCEPT !.todo = @ \ {f}]

\* A pattern already tried is blocked for this fault from now on.
SatSeen ==
  /\ pc = "loop"
  /\ \E f \in Targets, p \in mem.seen :
       /\ SatVerdict(p) \in Answers(f)
       /\ Goto("loop", [Visited(f) EXCEPT !.rejected[f] = @ \cup {p},
                          !.outcomes = @ \cup {"protocol_no_progress"}])
  /\ UNCHANGED <<storeVars, scanTables, netlist>>

SatCandidate ==
  /\ pc = "loop"
  /\ \E f \in Targets, p \in Patterns \ mem.seen :
       /\ SatVerdict(p) \in Answers(f)
       /\ Goto("pending", [Visited(f) EXCEPT !.counter = @ + 1,
                             !.cur = [fault |-> f, pattern |-> p]])
  /\ UNCHANGED <<storeVars, scanTables, netlist>>

\* Mutant: no special case for Q stems.
NoProtocolNeeded(f) == FALSE

\* A Q stem the reduced view cannot reach may still be seen while it is unloaded.
NeedsProtocol(f) == f \in QStems

\* UNSAT on the reduced view settles a logic fault, but not a Q stem.
Unsat ==
  /\ pc = "loop"
  /\ \E f \in Targets :
       /\ Verdict("UNSAT") \in Answers(f)
       /\ IF NeedsProtocol(f) THEN MarkFaultProtocolUnresolved(f)
                                ELSE MarkFaultRedundant(f, Model)
       /\ Goto("loop", Visited(f))
  /\ UNCHANGED <<runs, vectors, detections, satOutcome, scanTables, netlist>>

GaveUp(kind, row) ==
  /\ pc = "loop"
  /\ \E f \in Targets :
       /\ Verdict(kind) \in Answers(f)
       /\ Goto("loop", [Visited(f) EXCEPT !.timeouts[f] = @ + 1, !.satOut[f] = row,
                          !.outcomes = @ \cup {kind}])
  /\ UNCHANGED <<storeVars, scanTables, netlist>>

Timeout == GaveUp("TIMEOUT", "timeout")
Unknown == GaveUp("UNKNOWN", "unknown")

-----------------------------------------------------------------------------
(* The end of a round, and of the run *)

ShouldStall == FaultCounts = mem.prev /\ mem.outcomes \subseteq {"TIMEOUT", "UNKNOWN"}
EscalationHeadroom == \E f \in Active : 0 < mem.timeouts[f] /\ mem.timeouts[f] < Tiers

RoundEnds(next, reason) == Goto(next, [mem EXCEPT !.terminal = reason])

EndRound ==
  /\ pc = "loop" /\ Survivors = {}
  /\ RecordSatOutcomes(mem.satOut)
  /\ \/ Active = {} /\ RoundEnds("finish", "COMPLETE")
     \/ Active # {} /\ CoverageReaches(TargetPct) /\ RoundEnds("finish", "THRESHOLD_MET")
     \/ /\ Active # {} /\ ~CoverageReaches(TargetPct)
        /\ ShouldStall /\ ~EscalationHeadroom
        /\ RoundEnds("sweep", "STALLED")
     \/ /\ Active # {} /\ ~CoverageReaches(TargetPct)
        /\ ~ShouldStall \/ EscalationHeadroom
        /\ Goto("round", mem)
  /\ UNCHANGED <<faultCols, runs, vectors, detections, scanTables, netlist>>

\* STALLED and MAX_ROUNDS give up on the remaining Q stems.
Sweep ==
  /\ pc = "sweep"
  /\ SweepQStems
  /\ Goto("finish", mem)
  /\ UNCHANGED <<runs, vectors, detections, satOutcome, scanTables, netlist>>

CompleteRun ==
  /\ pc = "finish" /\ Denominator # 0
  /\ CompleteRunWithAtpg(run, mem.terminal)
  /\ Leave
  /\ UNCHANGED <<faultCols, vectors, detections, satOutcome, scanTables, netlist>>

ZeroDenominator ==
  /\ pc = "finish" /\ Denominator = 0
  /\ Leave
  /\ UNCHANGED <<storeVars, scanTables, netlist>>

\* The process dies, a worker dies (BrokenProcessPool) or a step raises.
Crash ==
  /\ Crashes /\ pc # "idle"
  /\ Leave
  /\ UNCHANGED <<storeVars, scanTables, netlist>>

Step ==
  \/ Enumerate \/ ApplyScanExecutionMap \/ Invalidate \/ OpenRun \/ Preflight
  \/ RoundsExhausted \/ NothingLeft \/ BeginRound \/ NextRandom \/ RandomDone
  \/ InsertPending \/ GoldenFails \/ RejectUnverified \/ RejectEmpty
  \/ RejectFruitless \/ Accept
  \/ PlanRound \/ PreSolve \/ SatSeen \/ SatCandidate \/ Unsat \/ Timeout \/ Unknown
  \/ EndRound \/ Sweep \/ CompleteRun \/ ZeroDenominator

Next == Open \/ Step \/ Crash

Spec == Init /\ [][Next]_vars

\* An invocation keeps running; nobody is obliged to start one.
FairSpec == Spec /\ WF_vars(Step)

-----------------------------------------------------------------------------
(* Properties *)

\* Acceptance is all or nothing, wherever the process dies: a run's accepted
\* candidates, its stored vectors and its vector_count agree at every moment, and the
\* indices are 1..vector_count without gaps (append_vector_row, commit_candidate and the
\* UPDATE of runs share a transaction, conn.in_transaction in commit_candidate).  What a
\* dead run left undecided is cleared before anything else happens: at most one candidate
\* is pending, the one of this run between its insertion and its commit.
AcceptanceIsAtomic ==
  /\ pc # "idle" => Pending \subseteq {c \in candidates : pc = "gate" /\ c.run = run
                                                       /\ c.id = mem.counter}
  /\ \A r \in DOMAIN runs :
       /\ Cardinality({c \in candidates : c.run = r /\ c.status = "accepted"}) = runs[r].count
       /\ {v.index : v \in {w \in vectors : w.run = r}} = 1..runs[r].count
       /\ Cardinality({v \in vectors : v.run = r}) = runs[r].count

\* Every detection row names a stored vector of its run that exposes the fault the way
\* the pipeline trusts: stuck-at by reduced view, captured value or protocol,
\* transition Q stems by the two-frame protocol simulation only.
ScanDetectionIsBacked ==
  /\ \A f \in InScope : status[f] = "detected" => \E d \in detections : d.fault = f
  /\ \A d \in detections :
       \E v \in vectors : v.run = d.run /\ v.index = d.index /\ d.fault \in Exposes(v.pattern)

\* A fault certified redundant is no Q stem and is exposed by no pattern the tester can
\* apply, although blocked patterns are recorded as the solver gave them and graded as
\* they are applied, with set and reset held.
ScanRedundantIsUntestable ==
  \A f \in InScope : status[f] = "redundant" =>
    f \notin QStems /\ \A p \in Patterns : f \notin Exposes(Hold[p])

\* A row of blocked_patterns, which outlives the run that wrote it, never keeps the
\* solver away from a pattern the protocol would pass for that fault.
BlockedRowsAreFruitless ==
  \A b \in blocked : b.fault \notin Exposes(Hold[b.pattern])

\* A run that stalls or runs out of rounds leaves no Q stem open, for good.
SweptRunSettlesQStems ==
  \A r \in DOMAIN runs : runs[r].terminal \in {"STALLED", "MAX_ROUNDS"} =>
    \A f \in InScope \cap QStems : status[f] = "detected" \/ unresolved[f]

\* The unguarded UPDATE of _apply_candidate_commit runs over rows read at the start of
\* the round; it never turns a certificate, or an exclusion, issued since into a
\* detection, and no later transaction takes a detection back.
CommitOverwritesNothing ==
  [][\A f \in Faults : status[f] \in {"detected", "redundant", "excluded"} =>
       status'[f] = status[f]]_vars

\* Every invocation ends.
EveryScanRunEnds == (pc = "enumerate") ~> (pc = "idle")

=============================================================================
