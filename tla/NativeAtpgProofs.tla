-------------------------- MODULE NativeAtpgProofs --------------------------
(***************************************************************************)
(* The native ATPG loop, for every netlist, every number of faults,        *)
(* patterns, rounds, workers and runs, and every crash point.              *)
(*                                                                         *)
(* Soundness.  To TypeInv, LoopInv and StoredInv of NativeTypeProofs the   *)
(* inductive invariant adds SoundInv (what the patterns the loop remembers *)
(* do, and do not, detect).  The loop then implements FaultLedger.         *)
(*                                                                         *)
(* What the loop owes to the faults it leaves undecided.  VisitInv says    *)
(* that the walk loses no fault, TierInv that a fault is charged a timeout *)
(* only after an attempt at the tier it was charged for, WaveInv that the  *)
(* worker pool's waves stay in step with the walk: a fault the walk        *)
(* reaches has its verdict or will get it from the next wave.              *)
(*                                                                         *)
(* The transition loop is the native loop: every behaviour of              *)
(* TransitionAtpg is, without its batch, one of NativeAtpg, so what is     *)
(* proved of the one holds of the other.  TwinInv is what the argument     *)
(* needs: before the first round nothing has been seen, so the first batch *)
(* is one without repetitions, and from then on the batch is part of       *)
(* seen_patterns, so drawing it again adds nothing.                        *)
(***************************************************************************)
EXTENDS NativeTypeProofs, TransitionAtpg

\* A cached UNSAT leaves no unblocked pattern that detects the fault.
CachedUnsatIsReal ==
  \A f \in Faults : results[f].kind = "UNSAT" =>
    \A p \in Patterns \ rejected[f] : f \notin detects[p]

SoundInv ==
  /\ SeenDetectsNoActive
  /\ BlockedPatternsAreFruitless
  /\ CachedUnsatIsReal
  /\ DropSat => RedundantIsUntestable

\* One campaign, one redundancy model: no certificate is ever stale.
CertificatesAreCurrent == \A f \in Faults : status[f] = "redundant" => certModel[f] = Model

AtpgInv == TypeInv /\ LoopInv /\ SoundInv /\ StoredInv /\ CertificatesAreCurrent

-----------------------------------------------------------------------------
(* What the remembered patterns do not detect *)

\* An UNSAT of the solver leaves no unblocked pattern that detects the fault.
LEMMA SolverUnsat ==
  ASSUME NEW f \in Faults, NEW v \in WorkerVerdicts(f), v.kind = "UNSAT"
  PROVE  Witnesses(f) = {}
BY DEF WorkerVerdicts, SolverVerdicts, Verdict, SatVerdict

LEMMA TargetUnsat ==
  ASSUME TypeInv, SoundInv, DropSat, AtBody, Verdict("UNSAT") \in Answers
  PROVE  ~Testable(Target)
<1>1. Target \in Faults
  BY TargetIsSurvivor
<1>2. \A p \in Patterns \ rejected[Target] : Target \notin detects[p]
  <2>1. CASE SolvesSerially
    <3>1. Verdict("UNSAT") \in WorkerVerdicts(Target) /\ Verdict("UNSAT").kind = "UNSAT"
      BY <2>1 DEF Answers, WorkerVerdicts, Verdict
    <3> QED BY <1>1, <3>1, SolverUnsat DEF Witnesses
  <2>2. CASE ~SolvesSerially
    <3>1. results[Target].kind = "UNSAT"
      BY <2>2 DEF Answers, Verdict
    <3> QED BY <1>1, <3>1 DEF SoundInv, CachedUnsatIsReal
  <2> QED BY <2>1, <2>2
<1> QED BY <1>1, <1>2 DEF SoundInv, BlockedPatternsAreFruitless, Testable

\* Memory that is gone remembers nothing wrong.
LEMMA LeaveSound ==
  ASSUME TypeInv, TypeInv', Leave, UNCHANGED <<status, detects>>, SoundInv
  PROVE  SoundInv'
<1>1. pc' = "idle" /\ seen' = {}
  BY DEF Leave
<1>2. SeenAndGraded' = {}
  BY <1>1 DEF SeenAndGraded, InRandom, Accepting
<1>3. \A f \in Faults : rejected'[f] = {} /\ results'[f].kind # "UNSAT"
  BY DEF Leave, NoVerdict, Verdict
<1> QED BY <1>2, <1>3 DEF SoundInv, SeenDetectsNoActive, BlockedPatternsAreFruitless,
          CachedUnsatIsReal, RedundantIsUntestable, Testable

LEMMA SoundInductive ==
  TypeInv /\ TypeInv' /\ LoopInv /\ SoundInv /\ [Next]_vars => SoundInv'
<1> SUFFICES ASSUME TypeInv, TypeInv', LoopInv, SoundInv, [Next]_vars PROVE SoundInv'
  OBVIOUS
<1> USE DEF InRandom, InSatLoop, Accepting
<1> DEFINE SameBlocked == UNCHANGED <<detects, rejected, results>>
           NoNewRedundant == \A f \in InScope : status'[f] = "redundant" =>
                               status[f] = "redundant" \/ ~Testable(f)
           SeenOk == DropSat => \A p \in SeenAndGraded', f \in Active' : f \notin detects[p]
<1>1. ASSUME SameBlocked, NoNewRedundant, SeenOk
      PROVE  SoundInv'
  BY <1>1 DEF SoundInv, SeenDetectsNoActive, BlockedPatternsAreFruitless, CachedUnsatIsReal,
    RedundantIsUntestable, Testable
<1>2. ASSUME SeenAndGraded' = SeenAndGraded, Active' \subseteq Active
      PROVE  SeenOk
  BY <1>2 DEF SoundInv, SeenDetectsNoActive
<1>3. CASE Enumerate \/ OpenRun
  <2>1. SeenAndGraded' = {}
    BY Zenon, <1>3 DEF Enumerate, OpenRun, TypeInv, ControlInv, SeenAndGraded, memory
  <2>2. NoNewRedundant
    <3>1. CASE Enumerate
      BY <3>1 DEF Enumerate, InsertFaultsIfEmpty, InScope
    <3>2. CASE OpenRun
      BY <3>2 DEF OpenRun, InvalidateStaleRedundant, InScope
    <3> QED BY <1>3, <3>1, <3>2
  <2>3. SameBlocked
    BY Zenon, <1>3 DEF Enumerate, OpenRun, memory
  <2> QED BY <1>1, <2>1, <2>2, <2>3
<1>4. CASE Preflight
  <2>1. PICK S \in SUBSET {f \in Faults : ~Testable(f)} : PrecertifyRedundant(S, Model)
    BY <1>4 DEF Preflight
  <2>2. NoNewRedundant /\ Active' \subseteq Active
    BY <2>1 DEF PrecertifyRedundant, CertifyRedundant, InScope, Active
  <2>3. SameBlocked /\ SeenAndGraded' = SeenAndGraded
    BY <1>4 DEF Preflight, memory, SeenAndGraded
  <2> QED BY <1>1, <1>2, <2>2, <2>3
<1>5. CASE RoundsExhausted \/ NothingLeft \/ PlanRound \/ EndRound
  <2>1. SeenAndGraded' = SeenAndGraded
    BY <1>5 DEF RoundsExhausted, NothingLeft, PlanRound, EndRound, memory, SeenAndGraded
  <2>2. status' = status /\ unresolved' = unresolved
    BY <1>5 DEF RoundsExhausted, NothingLeft, PlanRound, EndRound, storeVars, faultCols
  <2>3. CASE ~PlanRound
    <3>1. SameBlocked
      BY <1>5, <2>3 DEF RoundsExhausted, NothingLeft, EndRound, memory
    <3> QED BY SMTT(30), <1>1, <1>2, <2>1, <2>2, <3>1 DEF Active
  <2>4. CASE PlanRound
    <3>1. /\ \A f \in Faults : results'[f].kind # "UNSAT"
          /\ UNCHANGED <<detects, rejected>>
      BY <2>4 DEF PlanRound, NoVerdict, Verdict
    <3>2. SeenOk
      BY <1>2, <2>1, <2>2 DEF Active
    <3> QED BY <2>2, <3>1, <3>2 DEF SoundInv, SeenDetectsNoActive, BlockedPatternsAreFruitless,
              CachedUnsatIsReal, RedundantIsUntestable, Testable
  <2> QED BY <2>3, <2>4
<1>6. CASE BeginRound
  <2>1. SameBlocked /\ status' = status /\ unresolved' = unresolved
    BY <1>6 DEF BeginRound, storeVars
  <2>2. CASE switched
    <3>1. SeenAndGraded' = SeenAndGraded
      BY <1>6, <2>2 DEF BeginRound, SeenAndGraded
    <3> QED BY <1>1, <1>2, <2>1, <3>1 DEF Active
  <2>3. CASE ~switched
    <3>1. graded' = 0 /\ pc' = "random"
      BY <1>6, <2>3 DEF BeginRound, TypeInv, ControlInv
    <3>2. SeenAndGraded' = {}
      BY <3>1 DEF SeenAndGraded, GradedRandom
    <3> QED BY <1>1, <2>1, <3>2
  <2> QED BY <2>2, <2>3
<1>7. CASE NextRandom \/ RandomDone \/ AppendVector
  <2>1. SameBlocked /\ status' = status /\ unresolved' = unresolved
    BY <1>7 DEF NextRandom, RandomDone, AppendVector, storeVars, faultCols, memory
  <2>2. SeenAndGraded' = SeenAndGraded
    <3>1. CASE NextRandom
      BY <3>1 DEF NextRandom, SeenAndGraded, GradedRandom
    <3>2. CASE RandomDone
      BY <3>2 DEF RandomDone, SeenAndGraded
    <3>3. CASE AppendVector
      BY <3>3 DEF AppendVector, memory, SeenAndGraded, GradedRandom
    <3> QED BY <1>7, <3>1, <3>2, <3>3
  <2> QED BY <1>1, <1>2, <2>1, <2>2 DEF Active
<1>8. CASE GradeVector
  <2>1. SameBlocked /\ seen' = seen /\ cur' = cur /\ tests' = tests /\ graded' = graded
    BY <1>8 DEF GradeVector
  <2>2. NoNewRedundant
    BY <1>8 DEF GradeVector, MarkFaultsDetected, InScope
  <2>3. SeenAndGraded' \subseteq SeenAndGraded \cup {cur.pattern}
    BY <1>8, <2>1 DEF GradeVector, SeenAndGraded, GradedRandom
  <2>4. DropSat => Active \subseteq GradeIds
    BY <1>8 DEF GradeVector, GradeIds, LoopInv
  <2>5. SeenOk
    BY <1>8, <2>3, <2>4, GradeEffect DEF SoundInv, SeenDetectsNoActive
  <2> QED BY <1>1, <2>1, <2>2, <2>5
<1>9. CASE CountVector
  <2>1. SameBlocked /\ status' = status /\ unresolved' = unresolved
    BY <1>9 DEF CountVector, faultCols
  <2>2. SeenAndGraded' \subseteq SeenAndGraded
    <3>1. CASE cur.fault # NoFault
      BY <1>9, <3>1 DEF CountVector, SeenAndGraded
    <3>2. CASE cur.fault = NoFault
      <4>1. tests' = tests /\ graded' = graded + 1 /\ pc' = "random" /\ graded \in Nat
        BY <1>9, <3>2 DEF CountVector, TypeInv, TypeOK
      <4>2. cur.pattern = tests[graded + 1]
        BY <1>9, <3>2 DEF CountVector, TypeInv, ControlInv
      <4>3. GradedRandom' \subseteq GradedRandom \cup {cur.pattern}
        BY <4>1, <4>2 DEF GradedRandom
      <4> QED BY <1>9, <3>2, <4>1, <4>3 DEF CountVector, SeenAndGraded
    <3> QED BY <3>1, <3>2
  <2> QED BY <1>1, <2>1, <2>2 DEF Active, SoundInv, SeenDetectsNoActive
<1>10. CASE DispatchWave \/ WaveRaises
  <2>1. PICK done \in SUBSET Wave : WaveReturns(done)
    BY <1>10 DEF DispatchWave, WaveRaises
  <2>2. /\ UNCHANGED <<detects, rejected, status, unresolved>>
        /\ SeenAndGraded' = SeenAndGraded
    BY <1>10, <2>1 DEF DispatchWave, WaveRaises, WaveReturns, storeVars, SeenAndGraded
  <2>3. CachedUnsatIsReal'
    <3> SUFFICES ASSUME NEW f \in Faults, results'[f].kind = "UNSAT"
                 PROVE  \A p \in Patterns \ rejected[f] : f \notin detects[p]
      BY <2>2 DEF CachedUnsatIsReal
    <3>1. CASE f \notin done
      BY <2>1, <3>1 DEF WaveReturns, SoundInv, CachedUnsatIsReal
    <3>2. CASE f \in done
      BY <2>1, <3>2, SolverUnsat DEF WaveReturns, Witnesses
    <3> QED BY <3>1, <3>2
  <2> QED BY <2>2, <2>3 DEF SoundInv, SeenDetectsNoActive, BlockedPatternsAreFruitless,
            RedundantIsUntestable, Testable, Active
<1>11. ASSUME Visited
       PROVE  /\ pc \in {"loop", "solve"} /\ AtBody /\ detects' = detects
              /\ Target \in Faults /\ Target \in Active
              /\ \A f \in Faults \ {Target} : results'[f] = results[f]
              /\ results'[Target].kind # "UNSAT"
  <2>1. pc \in {"loop", "solve"} /\ AtBody /\ Target \in Survivors /\ Target \in Faults
    BY <1>11, TargetIsSurvivor DEF Visited, AtBody
  <2>2. /\ \A f \in Faults \ {Target} : results'[f] = results[f]
        /\ results'[Target].kind # "UNSAT"
    BY <1>11, <2>1 DEF Visited, TypeInv, TypeOK, NoVerdict, Verdict
  <2> QED BY <1>11, <2>1, <2>2 DEF Visited, LoopInv
<1>12. CASE SatNoProgress
  <2>1. PICK p \in Patterns : /\ p \in seen \/ Target \notin detects[p]
                              /\ rejected' = [rejected EXCEPT ![Target] = @ \cup {p}]
    BY Zenon, <1>12 DEF SatNoProgress
  <2>2. Visited /\ UNCHANGED <<status, unresolved, seen>> /\ pc' = "loop"
    BY <1>12 DEF SatNoProgress, storeVars
  <2>3. SeenAndGraded = seen /\ SeenAndGraded' = seen
    BY <1>11, <2>2 DEF SeenAndGraded
  <2>4. DropSat => Target \notin detects[p]
    BY <1>11, <2>1, <2>2, <2>3 DEF SoundInv, SeenDetectsNoActive
  <2>5. rejected \in [Faults -> SUBSET Patterns]
    BY DEF TypeInv, TypeOK
  <2>6. BlockedPatternsAreFruitless'
    BY <1>11, <2>1, <2>2, <2>4, <2>5 DEF SoundInv, BlockedPatternsAreFruitless
  <2>7. CachedUnsatIsReal'
    BY <1>11, <2>1, <2>2, <2>5 DEF SoundInv, CachedUnsatIsReal
  <2> QED BY <1>11, <2>2, <2>3, <2>6, <2>7 DEF SoundInv, SeenDetectsNoActive,
            RedundantIsUntestable, Testable, Active
<1>13. ASSUME Visited, UNCHANGED rejected
       PROVE  BlockedPatternsAreFruitless' /\ CachedUnsatIsReal'
  BY <1>11, <1>13 DEF SoundInv, BlockedPatternsAreFruitless, CachedUnsatIsReal
<1>14. CASE SatAccepted
  <2>1. PICK p \in Patterns :
          /\ p \notin seen /\ seen' = seen \cup {p}
          /\ cur' = [fault |-> Target, pattern |-> p, index |-> Len(tests) + 1]
    BY <1>14 DEF SatAccepted
  <2>2. Visited /\ UNCHANGED <<status, unresolved, rejected>> /\ pc' = "append"
    BY <1>14 DEF SatAccepted, storeVars
  <2>3. SeenAndGraded' = SeenAndGraded
    BY ZenonT(30), <1>11, <2>1, <2>2, Sentinels DEF SeenAndGraded
  <2> QED BY <1>11, <1>13, <2>2, <2>3 DEF SoundInv, SeenDetectsNoActive, RedundantIsUntestable,
            Testable, Active
<1>15. CASE Unsat
  <2>1. Visited /\ UNCHANGED <<rejected, seen>> /\ pc' = "loop" /\ Verdict("UNSAT") \in Answers
    BY <1>15 DEF Unsat
  <2>2. SeenAndGraded' = SeenAndGraded
    BY <1>11, <2>1 DEF SeenAndGraded
  <2>3. Active' \subseteq Active
    BY <1>15 DEF Unsat, MarkFaultRedundant, CertifyRedundant, Active, InScope
  <2>4. \A f \in InScope : status'[f] = "redundant" => status[f] = "redundant" \/ f = Target
    BY Zenon, <1>15 DEF Unsat, MarkFaultRedundant, CertifyRedundant, InScope
  <2>5. DropSat => ~Testable(Target)
    BY <1>11, <2>1, TargetUnsat
  <2>6. DropSat => RedundantIsUntestable'
    BY <1>11, <2>1, <2>4, <2>5 DEF SoundInv, RedundantIsUntestable, Testable
  <2> QED BY <1>11, <1>13, <2>1, <2>2, <2>3, <2>6 DEF SoundInv, SeenDetectsNoActive
<1>16. CASE Timeout \/ Unknown
  <2>1. Visited /\ UNCHANGED <<status, unresolved, rejected, seen>> /\ pc' = "loop"
    BY <1>16 DEF Timeout, Unknown, GaveUp, storeVars
  <2>2. SeenAndGraded' = SeenAndGraded
    BY <1>11, <2>1 DEF SeenAndGraded
  <2> QED BY <1>11, <1>13, <2>1, <2>2 DEF SoundInv, SeenDetectsNoActive, RedundantIsUntestable,
            Testable, Active
<1>17. CASE SolveRaises \/ CompleteRun \/ ZeroDenominator \/ Crash \/ PoolBreaks
  BY <1>17, LeaveSound DEF SolveRaises, CompleteRun, ZeroDenominator, Crash, PoolBreaks, storeVars,
    faultCols
<1>18. CASE UNCHANGED vars
  <2>1. SameBlocked /\ UNCHANGED <<status, unresolved>> /\ SeenAndGraded' = SeenAndGraded
    BY Zenon, <1>18 DEF vars, storeVars, memory, SeenAndGraded, GradedRandom
  <2> QED BY <1>1, <1>2, <2>1 DEF Active
<1> QED BY <1>3, <1>4, <1>5, <1>6, <1>7, <1>8, <1>9, <1>10, <1>12, <1>14, <1>15, <1>16, <1>17, <1>18
  DEF Next, Step

-----------------------------------------------------------------------------
(* The theorems *)

LEMMA CertificatesInductive ==
  TypeInv /\ CertificatesAreCurrent /\ [Next]_vars => CertificatesAreCurrent'
<1> SUFFICES ASSUME TypeInv, CertificatesAreCurrent, [Next]_vars PROVE CertificatesAreCurrent'
  OBVIOUS
<1> USE DEF CertificatesAreCurrent
<1>1. CASE Enumerate
  BY <1>1 DEF Enumerate, InsertFaultsIfEmpty
<1>2. CASE OpenRun
  BY ZenonT(30), <1>2 DEF OpenRun, InvalidateStaleRedundant
<1>3. CASE Preflight
  BY ZenonT(30), <1>3 DEF Preflight, PrecertifyRedundant, CertifyRedundant
<1>4. CASE GradeVector
  BY ZenonT(30), <1>4 DEF GradeVector, MarkFaultsDetected
<1>5. CASE Unsat
  BY Zenon, <1>5 DEF Unsat, MarkFaultRedundant, CertifyRedundant
<1>6. CASE UNCHANGED <<status, certModel>>
  BY SMTT(30), <1>6
<1>7. CASE \/ RoundsExhausted \/ NothingLeft \/ BeginRound \/ NextRandom \/ RandomDone
           \/ AppendVector \/ CountVector \/ PlanRound \/ EndRound
  BY <1>6, <1>7 DEF RoundsExhausted, NothingLeft, BeginRound, NextRandom, RandomDone, AppendVector,
    CountVector, PlanRound, EndRound, storeVars, faultCols
<1>8. CASE DispatchWave \/ WaveRaises \/ SatNoProgress \/ SatAccepted \/ Timeout \/ Unknown
  BY <1>6, <1>8 DEF DispatchWave, WaveRaises, WaveReturns, SatNoProgress, SatAccepted, Timeout,
    Unknown, GaveUp, storeVars
<1>9. CASE SolveRaises \/ CompleteRun \/ ZeroDenominator \/ Crash \/ PoolBreaks \/ UNCHANGED vars
  BY Zenon, <1>6, <1>9 DEF SolveRaises, CompleteRun, ZeroDenominator, Crash, PoolBreaks, storeVars,
    faultCols, vars
<1> QED BY <1>1, <1>2, <1>3, <1>4, <1>5, <1>7, <1>8, <1>9 DEF Next, Step

LEMMA InitAtpg == Init => AtpgInv
<1> SUFFICES ASSUME Init PROVE AtpgInv
  OBVIOUS
<1>1. TypeInv
  BY InitType
<1>2. pc = "idle" /\ seen = {} /\ vectors = {} /\ detections = {}
  BY DEF Init, FreshMemory, StoreInit
<1>3. \A f \in Faults : status[f] = "absent" /\ rejected[f] = {} /\ results[f].kind # "UNSAT"
  BY DEF Init, FreshMemory, StoreInit, NoVerdict, Verdict
<1>4. LoopInv
  BY <1>2 DEF LoopInv, InRandom, InSatLoop, Accepting
<1>5. SoundInv
  BY <1>2, <1>3 DEF SoundInv, SeenDetectsNoActive, SeenAndGraded, InRandom, Accepting,
    BlockedPatternsAreFruitless, CachedUnsatIsReal, RedundantIsUntestable, InScope
<1>6. StoredInv
  BY <1>2, <1>3 DEF StoredInv, GradedVectorIsStored, DetectionIsBacked, InScope
<1> QED BY <1>1, <1>3, <1>4, <1>5, <1>6 DEF AtpgInv, CertificatesAreCurrent

\* The whole inductive invariant holds of every behaviour.
THEOREM NativeInvariant == Spec => []AtpgInv
<1>1. AtpgInv /\ [Next]_vars => AtpgInv'
  BY TypeInductive, LoopInductive, SoundInductive, StoredInductive, CertificatesInductive DEF AtpgInv
<1> QED BY <1>1, InitAtpg, PTL DEF Spec

\* Type correctness of the loop and of the store under it.
THEOREM NativeTypeOK == Spec => []TypeOK
<1>1. AtpgInv => TypeOK
  BY DEF AtpgInv, TypeInv
<1> QED BY <1>1, NativeInvariant, PTL

\* The loop never stops at a fault the store has already settled, however the waves
\* and the fault dropping interleave, so solve_fault_for_db never throws "fault is not
\* active for SAT ATPG".
THEOREM NativeTargetsActive == Spec => []LoopTargetsAreActive
<1>1. AtpgInv => LoopTargetsAreActive
  BY DEF AtpgInv, LoopInv, LoopTargetsAreActive, InSatLoop
<1> QED BY <1>1, NativeInvariant, PTL

\* Across crashes between the three transactions of _accept_and_simulate, every
\* detection in the store is backed by a stored vector that makes it.
THEOREM NativeDetectionIsBacked == Spec => []DetectionIsBacked
<1>1. AtpgInv => DetectionIsBacked
  BY DEF AtpgInv, StoredInv
<1> QED BY <1>1, NativeInvariant, PTL

\* With fault_drop_sat (the default) no testable fault is ever certified redundant,
\* whatever is blocked, cached in a wave or refuted by the golden simulator.
THEOREM NativeRedundantIsUntestable ==
  ASSUME DropSat
  PROVE  Spec => []RedundantIsUntestable
<1>1. AtpgInv => RedundantIsUntestable
  BY DEF AtpgInv, SoundInv
<1> QED BY <1>1, NativeInvariant, PTL

-----------------------------------------------------------------------------
(* The loop implements FaultLedger *)

\* The ledger entry of an in-scope fault, as the refinement mapping reads it.
Entry(f) == IF status[f] \in {"detected", "redundant"} THEN status[f] ELSE "open"

\* A step that moves the in-scope faults of S, all open, to the verdict v.
Moves(S, v) ==
  /\ S \subseteq InScope
  /\ \A f \in S : Entry(f) = "open"
  /\ \A f \in InScope : Entry(f)' = IF f \in S THEN v ELSE Entry(f)
  /\ UNCHANGED <<vectors, detects>>

LEMMA MovesIsLedgerStep ==
  ASSUME NEW S, NEW v \in {"detected", "redundant"}, Moves(S, v), TypeOK, TypeOK',
         v = "detected" => \E w \in vectors : S \subseteq detects[w.pattern],
         v = "redundant" => \A f \in S : ~Testable(f)
  PROVE  [Ledger!LedgerNext]_(Ledger!ledgerVars)
<1>1. \A p \in Patterns : detects[p] \subseteq Faults
  BY DEF TypeOK
<1>2. \A w \in vectors : w.pattern \in Patterns
  BY DEF TypeOK, StoreTypeOK, VectorRows
<1>3. CASE S = {}
  BY <1>3 DEF Moves, Entry, Ledger!ledgerVars
<1>4. CASE S # {} /\ v = "detected"
  <2>1. Ledger!Settle(S, "detected")
    BY <1>4 DEF Ledger!Settle, Moves, Entry
  <2>2. PICK w \in vectors : S \subseteq detects[w.pattern]
    BY <1>4
  <2>3. Ledger!Credit(S)
    BY <1>2, <2>1, <2>2 DEF Ledger!Credit, Moves
  <2> QED BY <2>3 DEF Ledger!LedgerNext, Moves
<1>5. CASE S # {} /\ v = "redundant"
  <2>1. Ledger!Settle(S, "redundant")
    BY <1>5 DEF Ledger!Settle, Moves, Entry
  <2>2. Ledger!Certify(S)
    BY <1>5, <2>1 DEF Ledger!Certify, Ledger!Undetectable, Moves, Testable
  <2> QED BY <2>2 DEF Ledger!LedgerNext, Moves
<1> QED BY <1>3, <1>4, <1>5

LEMMA StepKeepsLedger ==
  ASSUME DropSat, AtpgInv, AtpgInv', [Next]_vars
  PROVE  [Ledger!LedgerNext]_(Ledger!ledgerVars)
<1> USE DEF AtpgInv, TypeInv
<1>1. ASSUME UNCHANGED <<status, vectors, detects>>
      PROVE  [Ledger!LedgerNext]_(Ledger!ledgerVars)
  BY <1>1 DEF Ledger!ledgerVars
<1>2. CASE Enumerate
  <2>1. Moves({}, "detected")
    BY <1>2 DEF Enumerate, InsertFaultsIfEmpty, Rows, Moves, Entry, InScope
  <2> QED BY <2>1 DEF Moves, Entry, Ledger!ledgerVars
<1>3. CASE OpenRun
  <2>1. status' = status
    BY <1>3 DEF OpenRun, InvalidateStaleRedundant, CertificatesAreCurrent, TypeOK, StoreTypeOK
  <2> QED BY <1>1, <1>3, <2>1 DEF OpenRun
<1>4. CASE Preflight
  <2>1. PICK S \in SUBSET {f \in Faults : ~Testable(f)} : PrecertifyRedundant(S, Model)
    BY <1>4 DEF Preflight
  <2> DEFINE T == {f \in S \cap InScope : status[f] = "undetected"}
  <2>2. Moves(T, "redundant")
    BY <1>4, <2>1 DEF Preflight, PrecertifyRedundant, CertifyRedundant, Moves, Entry, InScope
  <2>3. \A f \in T : ~Testable(f)
    BY <2>1
  <2> QED BY <2>2, <2>3, MovesIsLedgerStep
<1>5. CASE GradeVector
  <2>1. \A f \in NewlyDetected : f \in InScope /\ status[f] = "undetected"
    BY DEF NewlyDetected, LiveRecords
  <2>2. Moves(NewlyDetected, "detected")
    BY <1>5, <2>1 DEF GradeVector, MarkFaultsDetected, Moves, Entry, InScope
  <2>3. \E w \in vectors : NewlyDetected \subseteq detects[w.pattern]
    BY Zenon, <1>5 DEF GradeVector, StoredInv, GradedVectorIsStored, NewlyDetected
  <2> QED BY <2>2, <2>3, MovesIsLedgerStep
<1>6. CASE Unsat
  <2>1. AtBody /\ Verdict("UNSAT") \in Answers /\ UNCHANGED <<vectors, detects>>
    BY <1>6 DEF Unsat, Visited
  <2>2. Target \in Active /\ ~Testable(Target)
    BY SMTT(30), <2>1, TargetIsSurvivor, TargetUnsat DEF AtBody, LoopInv, InSatLoop
  <2>3. Moves({Target}, "redundant")
    BY <1>6, <2>1, <2>2 DEF Unsat, MarkFaultRedundant, CertifyRedundant, Moves, Entry, Active, InScope
  <2> QED BY <2>2, <2>3, MovesIsLedgerStep
<1>7. CASE AppendVector
  <2>1. PICK p \in Patterns : p = cur.pattern
    BY <1>7 DEF AppendVector, ControlInv, Accepting
  <2>2. cur.index \in Nat
    BY DEF TypeOK
  <2> DEFINE row == [run |-> run, index |-> cur.index, pattern |-> p]
  <2>3. vectors' = vectors \cup {row} /\ row.pattern = p
    BY <1>7, <2>1, <2>2 DEF AppendVector, AppendVectors
  <2>4. {w.pattern : w \in vectors'} = {w.pattern : w \in vectors} \cup {p}
    <3> HIDE DEF row
    <3> QED BY <2>3
  <2>5. UNCHANGED <<status, detects>>
    BY <1>7 DEF AppendVector, faultCols
  <2>6. Ledger!Store(p)
    BY <2>4, <2>5 DEF Ledger!Store
  <2> QED BY SMTT(30), <2>6 DEF Ledger!LedgerNext
<1>8. CASE \/ RoundsExhausted \/ NothingLeft \/ BeginRound \/ NextRandom \/ RandomDone
           \/ CountVector \/ PlanRound \/ EndRound
  BY Zenon, <1>1, <1>8 DEF RoundsExhausted, NothingLeft, BeginRound, NextRandom, RandomDone,
    CountVector, PlanRound, EndRound, storeVars, faultCols
<1>9. CASE DispatchWave \/ WaveRaises
  BY <1>1, <1>9 DEF DispatchWave, WaveRaises, WaveReturns, storeVars
<1>10. CASE SatNoProgress \/ SatAccepted \/ Timeout \/ Unknown
  BY Zenon, <1>1, <1>10 DEF SatNoProgress, SatAccepted, Timeout, Unknown, GaveUp, Visited, storeVars
<1>11. CASE SolveRaises \/ CompleteRun \/ ZeroDenominator \/ Crash \/ PoolBreaks \/ UNCHANGED vars
  BY <1>1, <1>11 DEF SolveRaises, CompleteRun, ZeroDenominator, Crash, PoolBreaks, storeVars,
    faultCols, vars
<1> QED BY <1>2, <1>3, <1>4, <1>5, <1>6, <1>7, <1>8, <1>9, <1>10, <1>11 DEF Next, Step

\* With fault_drop_sat the loop implements the ledger: seen from outside, an
\* interrupted, parallel, resumed campaign only stores tests, credits faults to a
\* stored test that detects them and certifies untestable ones.
THEOREM NativeKeepsLedger ==
  ASSUME DropSat
  PROVE  Spec => KeepsLedger
<1>1. Init => Ledger!LedgerInit
  BY Zenon DEF Init, StoreInit, Ledger!LedgerInit, InScope
<1>2. AtpgInv /\ AtpgInv' /\ [Next]_vars => [Ledger!LedgerNext]_(Ledger!ledgerVars)
  BY StepKeepsLedger
<1> QED BY <1>1, <1>2, NativeInvariant, PTL DEF Spec, KeepsLedger, Ledger!LedgerSpec

\* What implementing the ledger amounts to: LedgerSound, and the types it needs, hold
\* initially and are kept by every abstract step.
THEOREM LedgerIsSound == Ledger!LedgerSpec => [](Ledger!LedgerTypeOK /\ Ledger!LedgerSound)
<1> DEFINE Inv == Ledger!LedgerTypeOK /\ Ledger!LedgerSound
<1>1. Ledger!LedgerInit => Inv
  BY DEF Ledger!LedgerInit, Ledger!LedgerTypeOK, Ledger!LedgerSound
<1>2. Inv /\ [Ledger!LedgerNext]_(Ledger!ledgerVars) => Inv'
  <2> SUFFICES ASSUME Inv, [Ledger!LedgerNext]_(Ledger!ledgerVars) PROVE Inv'
    OBVIOUS
  <2> USE DEF Ledger!LedgerTypeOK, Ledger!LedgerSound, Ledger!Undetectable
  <2>1. ASSUME NEW p \in Patterns, Ledger!Store(p) PROVE Inv'
    BY Zenon, <2>1 DEF Ledger!Store
  <2>2. ASSUME NEW S \in SUBSET InScope, Ledger!Credit(S) PROVE Inv'
    BY Zenon, <2>2 DEF Ledger!Credit, Ledger!Settle
  <2>3. ASSUME NEW S \in SUBSET InScope, Ledger!Certify(S) PROVE Inv'
    BY Zenon, <2>3 DEF Ledger!Certify, Ledger!Settle
  <2>4. CASE UNCHANGED Ledger!ledgerVars
    BY Zenon, <2>4 DEF Ledger!ledgerVars
  <2> QED BY Zenon, <2>1, <2>2, <2>3, <2>4 DEF Ledger!LedgerNext
<1> QED BY <1>1, <1>2, PTL DEF Ledger!LedgerSpec

\* So the coverage a campaign reports can be trusted at every moment, not only at its
\* end: the stored tests detect every fault counted, and no fault struck from the
\* denominator is testable.
COROLLARY NativeLedgerIsSound ==
  ASSUME DropSat
  PROVE  Spec => []Ledger!LedgerSound
BY NativeKeepsLedger, LedgerIsSound, PTL DEF KeepsLedger

-----------------------------------------------------------------------------
(* The walk, the waves and the tiers *)

\* The faults of active_ids[_wave_pos:] the next waves choose from.
Undispatched == IF DropSat THEN undispatched \cap remaining ELSE undispatched

\* Without a pool there are no cached verdicts; with one, the faults ahead of the walk
\* are those with a cached verdict and those a later wave will take.
WaveInv ==
  /\ InSatLoop /\ ~parallel => \A f \in Faults : results[f] = NoVerdict
  /\ InSatLoop /\ parallel =>
       /\ Undispatched \subseteq Survivors
       /\ \A f \in Survivors : f \in undispatched \/ results[f] # NoVerdict
       /\ \A f \in Faults : results[f] # NoVerdict => f \notin undispatched
  /\ pc = "solve" => parallel /\ results[Target] # NoVerdict

\* A charged timeout was an attempt at the tier it was charged for.
TierInv ==
  /\ InSatLoop => \A f \in Faults : results[f] # NoVerdict => TierOf(f) \in tried[f]
  /\ InSatLoop => \A f \in Faults : satOut[f] # "none" =>
       /\ timeouts[f] > 0
       /\ (IF timeouts[f] - 1 < Tiers THEN timeouts[f] - 1 ELSE Tiers - 1) \in tried[f]
  /\ pc # "finish" => terminal # "STALLED"

-----------------------------------------------------------------------------
(* The store's columns *)

\* Under the loop, as under any caller, the store's columns agree: certificates carry
\* their model, detections their evidence, and no detected fault is unresolved.
THEOREM NativeStoreInvariant == Spec => []StoreInv
<1>1. Init => StoreInv
  BY NoModelIsNull, InitType DEF Init, StoreInit, StoreInv, TypeInv, TypeOK, RedundantIsCertified,
    DetectionHasEvidence, UnresolvedNotDetected
<1>2. AtpgInv => TypeInv
  BY DEF AtpgInv
<1> QED BY <1>1, <1>2, NativeInvariant, NativeKeepsStore, PTL DEF Spec

\* Every detected fault of a native campaign, resumed or not, has the fault_detections
\* row that vouches for its detected_by_vector.
THEOREM NativeDetectionHasEvidence == Spec => []DetectionHasEvidence
<1>1. StoreInv => DetectionHasEvidence
  BY DEF StoreInv
<1> QED BY <1>1, NativeStoreInvariant, PTL

\* No step of a campaign, a crash or a resumption included, takes a detection back or
\* credits it to another vector.
THEOREM NativeDetectionIsFinal == Spec => DetectionIsFinal
<1> DEFINE Kept == \A f \in Faults : status[f] = "detected" =>
                     status'[f] = "detected" /\ detBy'[f] = detBy[f]
<1>1. TypeInv /\ [Next]_vars => [Kept]_storeVars
  <2> SUFFICES ASSUME TypeInv, [Next]_vars PROVE Kept
    OBVIOUS
  <2> USE DEF TypeInv, TypeOK, StoreTypeOK
  <2>1. CASE Enumerate
    BY <2>1 DEF Enumerate, InsertFaultsIfEmpty, Rows
  <2>2. CASE OpenRun
    BY <2>2 DEF OpenRun, InvalidateStaleRedundant
  <2>3. CASE Preflight
    BY <2>3 DEF Preflight, PrecertifyRedundant, CertifyRedundant
  <2>4. CASE GradeVector
    BY Zenon, <2>4 DEF GradeVector, MarkFaultsDetected
  <2>5. CASE Unsat
    BY <2>5 DEF Unsat, MarkFaultRedundant, CertifyRedundant
  <2>7. CASE \/ RoundsExhausted \/ NothingLeft \/ BeginRound \/ NextRandom \/ RandomDone
             \/ AppendVector \/ CountVector \/ PlanRound \/ EndRound
    BY ZenonT(30), <2>7 DEF RoundsExhausted, NothingLeft, BeginRound, NextRandom, RandomDone, AppendVector,
      CountVector, PlanRound, EndRound, storeVars, faultCols
  <2>8. CASE DispatchWave \/ WaveRaises \/ SatNoProgress \/ SatAccepted \/ Timeout \/ Unknown
    BY <2>8 DEF DispatchWave, WaveRaises, WaveReturns, SatNoProgress, SatAccepted, Timeout,
      Unknown, GaveUp, storeVars
  <2>9. CASE SolveRaises \/ CompleteRun \/ ZeroDenominator \/ Crash \/ PoolBreaks \/ UNCHANGED vars
    BY <2>9 DEF SolveRaises, CompleteRun, ZeroDenominator, Crash, PoolBreaks, storeVars,
      faultCols, vars
  <2> QED BY ZenonT(30), <2>1, <2>2, <2>3, <2>4, <2>5, <2>7, <2>8, <2>9 DEF Next, Step
<1>2. AtpgInv => TypeInv
  BY DEF AtpgInv
<1> QED BY <1>1, <1>2, NativeInvariant, PTL DEF Spec, DetectionIsFinal

\* With fault_drop_sat the solver is only ever forbidden patterns that do not detect its
\* fault, however seen_patterns, waves and refuted vectors interleave.
THEOREM NativeBlockedAreFruitless == Spec => []BlockedPatternsAreFruitless
<1>1. AtpgInv => BlockedPatternsAreFruitless
  BY DEF AtpgInv, SoundInv
<1> QED BY <1>1, NativeInvariant, PTL

-----------------------------------------------------------------------------
(* The walk over active_ids *)

\* The walk loses no fault: one that is still active when the round's loop is over got a
\* verdict of its own, whatever the visiting order, the waves and the dropping did.
THEOREM NativeSkipsNoActiveFault == Spec => []NoActiveFaultIsSkipped
<1>1. Init => VisitInv
  BY DEF Init, FreshMemory, VisitInv, InSatLoop, Accepting
<1>2. AtpgInv => TypeInv /\ LoopInv
  BY DEF AtpgInv
<1>3. VisitInv => NoActiveFaultIsSkipped
  BY DEF VisitInv, NoActiveFaultIsSkipped, InSatLoop, Accepting
<1> QED BY <1>1, <1>2, <1>3, NativeInvariant, VisitInductive, PTL DEF Spec

-----------------------------------------------------------------------------
(* Waves *)

\* The visiting order is a strict total order.
LEMMA BeforeIsOrder ==
  \A f, g, h \in Faults : /\ Before(f, g) /\ Before(g, h) => Before(f, h)
                          /\ f # g => Before(f, g) \/ Before(g, f)
                          /\ ~(Before(f, g) /\ Before(g, f))
BY FaultIdsAreOrdered DEF Before

\* What a wave leaves behind comes after all of it, and is left only by a full wave.
LEMMA WaveIsPrefix ==
  ASSUME NEW U \in SUBSET Faults, NEW k \in Nat \ {0}, NEW f \in U \ FirstK(U, k)
  PROVE  Cardinality(FirstK(U, k)) >= k /\ \A w \in FirstK(U, k) : Before(w, f)
<1> DEFINE W == FirstK(U, k)
           pred(g) == {h \in U : Before(h, g)}
<1>f. \A S \in SUBSET Faults : IsFiniteSet(S) /\ Cardinality(S) \in Nat
  BY FaultsAreFinite, FS_Subset, FS_CardinalityType
<1>m. \A S, T \in SUBSET Faults : S \subseteq T => Cardinality(S) <= Cardinality(T)
  BY <1>f, FS_Subset
<1>w. \A g \in U : g \in W <=> Cardinality(pred(g)) < k
  BY DEF FirstK
<1>c. W \in SUBSET Faults /\ f \in U /\ f \notin W
  BY DEF FirstK
<1>d. Cardinality(W) \in Nat
  BY <1>c, <1>f
<1>1. \A w \in W : Before(w, f)
  <2> SUFFICES ASSUME NEW w \in W, ~Before(w, f) PROVE FALSE
    OBVIOUS
  <2>1. w \in U /\ w # f
    BY DEF FirstK
  <2>2. Before(f, w)
    BY <2>1, BeforeIsOrder
  <2>3. pred(f) \subseteq pred(w)
    BY <2>1, <2>2, BeforeIsOrder
  <2>4. Cardinality(pred(f)) <= Cardinality(pred(w))
    <3>1. pred(f) \in SUBSET Faults /\ pred(w) \in SUBSET Faults
      OBVIOUS
    <3> HIDE DEF pred
    <3> QED BY <1>m, <2>3, <3>1
  <2>5. Cardinality(pred(f)) \in Nat /\ Cardinality(pred(w)) \in Nat
    BY <1>f
  <2> HIDE DEF pred, W
  <2> QED BY <1>c, <1>w, <2>1, <2>4, <2>5
<1>2. Cardinality(W) >= k
  <2> SUFFICES ASSUME Cardinality(W) < k PROVE FALSE
    BY <1>d
  <2> DEFINE R == U \ W
             m == First(R)
  <2>1. R \in SUBSET Faults /\ R # {}
    OBVIOUS
  <2>2. m \in R /\ \A g \in R \ {m} : Before(m, g)
    BY <2>1, FirstIsLeast
  <2>3. pred(m) \subseteq W
    BY <2>2, BeforeIsOrder
  <2>4. Cardinality(pred(m)) <= Cardinality(W)
    <3>1. pred(m) \in SUBSET Faults /\ W \in SUBSET Faults
      BY DEF FirstK
    <3> HIDE DEF pred, W, m
    <3> QED BY <1>m, <2>3, <3>1
  <2>5. Cardinality(pred(m)) \in Nat /\ Cardinality(W) \in Nat
    BY Zenon, <1>f DEF FirstK
  <2> HIDE DEF pred, W, m
  <2> QED BY <1>w, <2>2, <2>4, <2>5
<1> QED BY <1>1, <1>2

\* The first fault a wave may choose from is in it.
LEMMA WaveHasFirst ==
  ASSUME NEW U \in SUBSET Faults, NEW k \in Nat \ {0}, NEW f \in U,
         \A g \in U \ {f} : Before(f, g)
  PROVE  f \in FirstK(U, k)
<1>1. {g \in U : Before(g, f)} = {}
  BY BeforeIsOrder
<1> QED BY <1>1, FS_EmptySet DEF FirstK

LEMMA VerdictIsSome == \A v \in Verdicts : v # NoVerdict
BY DEF Verdicts, NoVerdict, Verdict

\* A visit acts on a verdict that was really asked for: the pool's when there is one.
LEMMA VerdictIsThere ==
  ASSUME TypeInv, WaveInv, AtBody
  PROVE  IF parallel THEN results[Target] # NoVerdict ELSE SolvesSerially
<1>1. Target \in Survivors /\ Target \in Faults
  BY TargetIsSurvivor
<1>2. CASE pc = "solve"
  BY <1>2 DEF WaveInv
<1>3. CASE pc = "loop" /\ ~parallel
  BY <1>3 DEF WaveInv, InSatLoop, SolvesSerially
<1>4. CASE pc = "loop" /\ parallel
  <2> SUFFICES ASSUME results[Target] = NoVerdict PROVE FALSE
    BY <1>4
  <2>1. Wave = {}
    BY <1>4 DEF AtBody, WaveDue
  <2>2. Target \in Undispatched
    BY <1>1, <1>4 DEF WaveInv, InSatLoop, Undispatched, Survivors
  <2>3. Undispatched \in SUBSET Faults
    BY DEF Undispatched, TypeInv, TypeOK
  <2>4. WaveSize \in Nat \ {0}
    BY Sizes
  <2>5. First(Undispatched) \in FirstK(Undispatched, WaveSize)
    BY <2>2, <2>3, <2>4, FirstIsLeast, WaveHasFirst
  <2> QED BY <2>1, <2>5 DEF Wave, Undispatched
<1> QED BY <1>2, <1>3, <1>4 DEF AtBody

\* A visit keeps the pool in step, whatever it does with the verdict.
LEMMA VisitKeepsWaves ==
  ASSUME TypeInv, WaveInv, Visited, pc' # "solve"
  PROVE  WaveInv'
<1>1. /\ AtBody /\ results' = [results EXCEPT ![Target] = NoVerdict]
      /\ UNCHANGED <<parallel, undispatched, remaining>>
  BY DEF Visited
<1>2. Survivors' = Survivors \ {Target} /\ Target \in Faults
  BY VisitPassesTarget
<1>3. /\ results'[Target] = NoVerdict
      /\ \A f \in Faults \ {Target} : results'[f] = results[f]
  BY <1>1, <1>2 DEF TypeInv, TypeOK
<1>4. InSatLoop
  BY <1>1 DEF AtBody, InSatLoop
<1>5. Survivors \subseteq Faults
  BY DEF Survivors, TypeInv, TypeOK
<1>6. CASE ~parallel
  BY <1>1, <1>3, <1>4, <1>6 DEF WaveInv
<1>7. CASE parallel
  <2>1. Target \notin undispatched
    BY <1>1, <1>2, <1>4, <1>7, VerdictIsThere DEF WaveInv
  <2>2. Undispatched' = Undispatched
    BY <1>1 DEF Undispatched
  <2>3. Undispatched' \subseteq Survivors'
    BY <1>2, <1>4, <1>7, <2>1, <2>2 DEF WaveInv, Undispatched
  <2> QED BY <1>1, <1>2, <1>3, <1>4, <1>5, <1>7, <2>3 DEF WaveInv
<1> QED BY <1>6, <1>7

LEMMA DispatchKeepsWaves ==
  ASSUME TypeInv, WaveInv, DispatchWave
  PROVE  WaveInv'
<1>1. /\ pc = "loop" /\ pc' = "solve" /\ parallel /\ parallel' /\ Survivors # {}
      /\ results[Target] = NoVerdict /\ undispatched' = AfterWave
      /\ UNCHANGED <<todo, remaining>>
  BY DEF DispatchWave, WaveDue, WaveReturns
<1>2. PICK v \in [Wave -> Verdicts] :
        results' = [f \in Faults |-> IF f \in Wave THEN v[f] ELSE results[f]]
  BY DEF DispatchWave, WaveReturns
<1>3. Undispatched \in SUBSET Faults /\ WaveSize \in Nat \ {0} /\ Survivors \in SUBSET Faults
  BY Sizes DEF Undispatched, Survivors, TypeInv, TypeOK
<1>4. Wave = FirstK(Undispatched, WaveSize) /\ Wave \subseteq Undispatched
  BY DEF Wave, Undispatched, FirstK
<1>5. \A f \in Faults : IF f \in Wave THEN results'[f] # NoVerdict ELSE results'[f] = results[f]
  BY <1>2, VerdictIsSome
<1>6. Survivors' = Survivors /\ Target' = Target
  BY <1>1 DEF Survivors, Target
<1>7. /\ Undispatched \subseteq Survivors
      /\ \A f \in Survivors : f \in undispatched \/ results[f] # NoVerdict
      /\ \A f \in Faults : results[f] # NoVerdict => f \notin undispatched
  BY <1>1 DEF WaveInv, InSatLoop
<1>8. AfterWave \subseteq undispatched /\ Undispatched \subseteq undispatched
  BY DEF AfterWave, Undispatched
<1>9. Undispatched' \subseteq Survivors'
  BY <1>1, <1>6, <1>7, <1>8 DEF Undispatched
<1>10. \A f \in Survivors : f \in AfterWave \/ results'[f] # NoVerdict
  <2> SUFFICES ASSUME NEW f \in Survivors, results'[f] = NoVerdict PROVE f \in AfterWave
    OBVIOUS
  <2>1. f \notin Wave /\ results[f] = NoVerdict
    BY <1>3, <1>5
  <2>2. f \in undispatched /\ f \in Undispatched
    BY SMTT(30), <1>7, <2>1 DEF Undispatched, Survivors
  <2>3. Cardinality(Wave) >= WaveSize /\ \A w \in Wave : Before(w, f)
    BY <1>3, <1>4, <2>1, <2>2, WaveIsPrefix
  <2>4. Cardinality(Wave) \in Nat
    <3>1. Wave \in SUBSET Faults
      BY <1>3, <1>4
    <3> QED BY <3>1, FaultsAreFinite, FS_Subset, FS_CardinalityType
  <2> QED BY <1>3, <2>2, <2>3, <2>4 DEF AfterWave
<1>11. \A f \in Faults : results'[f] # NoVerdict => f \notin AfterWave
  <2> SUFFICES ASSUME NEW f \in Faults, results'[f] # NoVerdict, f \in AfterWave PROVE FALSE
    OBVIOUS
  <2>1. CASE f \in Wave
    BY <2>1, BeforeIsOrder DEF AfterWave
  <2>2. CASE f \notin Wave
    BY <1>5, <1>7, <1>8, <2>2
  <2> QED BY <2>1, <2>2
<1>12. results'[Target] # NoVerdict
  <2>1. Target \in Survivors /\ \A g \in Survivors \ {Target} : Before(Target, g)
    BY <1>1, <1>3, FirstIsLeast DEF Target
  <2>2. Target \in Undispatched
    BY <1>1, <1>7, <2>1 DEF Undispatched, Survivors
  <2>3. Target \in Wave
    BY <1>3, <1>4, <1>7, <2>1, <2>2, WaveHasFirst
  <2> QED BY <1>3, <1>5, <2>1, <2>3
<1> QED BY SMTT(30), <1>1, <1>6, <1>9, <1>10, <1>11, <1>12 DEF WaveInv, InSatLoop

LEMMA WaveInductive ==
  ASSUME ~WaveErrors, TypeInv, TypeInv', WaveInv, [Next]_vars
  PROVE  WaveInv'
<1> USE DEF InSatLoop, Accepting
<1>1. CASE pc' \notin {"append", "grade", "count", "loop", "solve"}
  BY <1>1 DEF WaveInv
<1>2. CASE NextRandom
  BY <1>2 DEF NextRandom, WaveInv
<1>3. CASE AppendVector
  BY <1>3 DEF AppendVector, WaveInv, Survivors, Undispatched, memory
<1>4. CASE GradeVector
  <2>1. /\ pc = "grade" /\ pc' = "count" /\ UNCHANGED <<cur, parallel, results, undispatched, todo>>
        /\ remaining' \subseteq remaining
    BY <1>4 DEF GradeVector
  <2>2. Survivors \subseteq todo
    BY SMTT(30) DEF Survivors
  <2> QED BY <2>1, <2>2 DEF WaveInv, Survivors, Undispatched
<1>5. CASE CountVector
  BY <1>5 DEF CountVector, WaveInv, Survivors, Undispatched
<1>6. CASE PlanRound
  <2>1. /\ pc' = "loop" /\ todo' = Active /\ undispatched' = Active /\ remaining' = Active
        /\ results' = [f \in Faults |-> NoVerdict]
    BY <1>6 DEF PlanRound
  <2>2. Survivors' = Active /\ Undispatched' = Active
    BY <2>1 DEF Survivors, Undispatched
  <2> QED BY <2>1, <2>2 DEF WaveInv
<1>7. CASE DispatchWave
  BY <1>7, DispatchKeepsWaves
<1>8. CASE SatNoProgress \/ SatAccepted \/ Unsat \/ Timeout \/ Unknown
  <2>1. Visited /\ pc' # "solve"
    BY Zenon, <1>8 DEF SatNoProgress, SatAccepted, Unsat, Timeout, Unknown, GaveUp
  <2> QED BY <2>1, VisitKeepsWaves
<1>9. CASE UNCHANGED vars
  BY <1>9 DEF vars, memory, WaveInv, Survivors, Undispatched, Target
<1>10. CASE \/ Enumerate \/ OpenRun \/ Preflight \/ RoundsExhausted \/ NothingLeft \/ BeginRound
            \/ RandomDone \/ EndRound
  BY ZenonT(30), <1>1, <1>10 DEF Enumerate, OpenRun, Preflight, RoundsExhausted, NothingLeft, BeginRound,
    RandomDone, EndRound
<1>11. CASE SolveRaises \/ CompleteRun \/ ZeroDenominator \/ Crash \/ PoolBreaks
  BY <1>1, <1>11 DEF SolveRaises, CompleteRun, ZeroDenominator, Crash, PoolBreaks, Leave
<1>12. ~WaveRaises
  BY DEF WaveRaises
<1> QED BY SMTT(30), <1>2, <1>3, <1>4, <1>5, <1>6, <1>7, <1>8, <1>9, <1>10, <1>11, <1>12 DEF Next, Step

-----------------------------------------------------------------------------
(* Timeout tiers *)

\* A visit that does not give up leaves the charges as they were.
LEMMA VisitKeepsTiers ==
  ASSUME TypeInv, TierInv, Visited, UNCHANGED <<timeouts, satOut>>, pc' # "finish"
  PROVE  TierInv'
<1>1. /\ AtBody /\ results' = [results EXCEPT ![Target] = NoVerdict] /\ terminal' = terminal
      /\ tried' = tried \/ tried' = [tried EXCEPT ![Target] = @ \cup {TierOf(Target)}]
  BY DEF Visited
<1>2. Target \in Faults
  BY <1>1, TargetIsSurvivor
<1>3. /\ \A f \in Faults : tried[f] \subseteq tried'[f]
      /\ \A f \in Faults : results'[f] # NoVerdict => results[f] # NoVerdict
  <2>1. \A f \in Faults : tried[f] \subseteq tried'[f]
    <3>1. DOMAIN tried = Faults
      BY DEF TypeInv, TypeOK
    <3>2. CASE tried' = tried
      BY <3>2
    <3>3. CASE tried' = [tried EXCEPT ![Target] = @ \cup {TierOf(Target)}]
      BY <1>2, <3>1, <3>3
    <3> QED BY <1>1, <3>2, <3>3
  <2>2. \A f \in Faults : results'[f] # NoVerdict => results[f] # NoVerdict
    BY <1>1, <1>2 DEF TypeInv, TypeOK
  <2> QED BY <2>1, <2>2
<1>4. InSatLoop /\ pc # "finish"
  BY <1>1 DEF AtBody, InSatLoop
<1> QED BY Zenon, <1>1, <1>3, <1>4 DEF TierInv, TierOf

LEMMA TierInductive ==
  ASSUME ~WaveErrors, TypeInv, TypeInv', WaveInv, TierInv, [Next]_vars
  PROVE  TierInv'
<1> USE DEF InSatLoop, Accepting
<1>1. CASE pc' \notin {"append", "grade", "count", "loop", "solve"} /\ terminal' # "STALLED"
  BY <1>1 DEF TierInv
<1>2. CASE NextRandom
  BY ZenonT(30), <1>2 DEF NextRandom, TierInv
<1>3. CASE AppendVector
  BY ZenonT(30), <1>3 DEF AppendVector, TierInv, TierOf, memory
<1>4. CASE GradeVector
  BY ZenonT(30), <1>4 DEF GradeVector, TierInv, TierOf
<1>5. CASE CountVector
  BY SMTT(30), <1>5 DEF CountVector, TierInv, TierOf
<1>6. CASE PlanRound
  BY <1>6 DEF PlanRound, TierInv
<1>7. CASE DispatchWave
  <2>1. /\ pc = "loop" /\ pc' = "solve" /\ UNCHANGED <<timeouts, satOut, terminal>>
        /\ tried' = [f \in Faults |-> IF f \in Wave THEN tried[f] \cup {TierOf(f)} ELSE tried[f]]
        /\ \A f \in Faults : f \notin Wave => results'[f] = results[f]
    BY ZenonT(30), <1>7 DEF DispatchWave, WaveReturns
  <2> QED BY ZenonT(30), <2>1 DEF TierInv, TierOf
<1>8. CASE SatNoProgress \/ SatAccepted \/ Unsat
  <2>1. Visited /\ UNCHANGED <<timeouts, satOut>> /\ pc' # "finish"
    <3>1. CASE SatNoProgress
      BY <3>1 DEF SatNoProgress
    <3>2. CASE SatAccepted
      BY <3>2 DEF SatAccepted
    <3>3. CASE Unsat
      BY <3>3 DEF Unsat
    <3> QED BY <1>8, <3>1, <3>2, <3>3
  <2> QED BY SMTT(30), <2>1, VisitKeepsTiers
<1>9. CASE Timeout \/ Unknown
  <2>1. PICK row \in {"timeout", "unknown"} :
          /\ Visited /\ pc' = "loop" /\ terminal' = terminal
          /\ timeouts' = [timeouts EXCEPT ![Target] = @ + 1]
          /\ satOut' = [satOut EXCEPT ![Target] = row]
    BY <1>9 DEF Timeout, Unknown, GaveUp, Visited
  <2>2. /\ AtBody /\ results' = [results EXCEPT ![Target] = NoVerdict]
        /\ tried' = IF SolvesSerially THEN [tried EXCEPT ![Target] = @ \cup {TierOf(Target)}]
                    ELSE tried
    BY <2>1 DEF Visited
  <2>3. Target \in Faults /\ pc \in {"loop", "solve"}
    BY <2>2, TargetIsSurvivor DEF AtBody
  <2>4. /\ \A f \in Faults : tried[f] \subseteq tried'[f]
        /\ results'[Target] = NoVerdict
        /\ \A f \in Faults \ {Target} : /\ results'[f] = results[f] /\ timeouts'[f] = timeouts[f]
                                        /\ satOut'[f] = satOut[f]
        /\ timeouts'[Target] = timeouts[Target] + 1 /\ timeouts[Target] \in Nat
    BY <2>1, <2>2, <2>3 DEF TypeInv, TypeOK
  <2>5. TierOf(Target) \in tried'[Target]
    <3>1. CASE SolvesSerially
      BY <2>2, <2>3, <3>1 DEF TypeInv, TypeOK
    <3>2. CASE ~SolvesSerially
      BY <2>2, <2>3, <2>4, <3>2, VerdictIsThere DEF TierInv
    <3> QED BY Zenon, <3>1, <3>2
  <2>6. \A f \in Faults : results'[f] # NoVerdict => TierOf(f)' \in tried'[f]
    BY <2>3, <2>4 DEF TierInv, TierOf
  <2>7. \A f \in Faults : satOut'[f] # "none" =>
          /\ timeouts'[f] > 0
          /\ (IF timeouts'[f] - 1 < Tiers THEN timeouts'[f] - 1 ELSE Tiers - 1) \in tried'[f]
    <3> SUFFICES ASSUME NEW f \in Faults, satOut'[f] # "none"
                 PROVE  /\ timeouts'[f] > 0
                        /\ (IF timeouts'[f] - 1 < Tiers THEN timeouts'[f] - 1 ELSE Tiers - 1)
                              \in tried'[f]
      OBVIOUS
    <3>1. CASE f = Target
      BY <2>4, <2>5, <3>1 DEF TierOf
    <3>2. CASE f # Target
      BY SMTT(30), <2>3, <2>4, <3>2 DEF TierInv
    <3> QED BY <3>1, <3>2
  <2> QED BY SMTT(30), <2>1, <2>3, <2>6, <2>7 DEF TierInv
<1>10. CASE UNCHANGED vars
  BY <1>10 DEF vars, memory, TierInv, TierOf
<1>11. CASE \/ Enumerate \/ OpenRun \/ Preflight \/ RoundsExhausted \/ NothingLeft \/ BeginRound
            \/ RandomDone
  BY ZenonT(30), <1>11 DEF Enumerate, OpenRun, Preflight, RoundsExhausted, NothingLeft, BeginRound,
    RandomDone, TierInv, memory
<1>12. CASE EndRound
  BY ZenonT(30), <1>12 DEF EndRound, TierInv
<1>13. CASE SolveRaises \/ CompleteRun \/ ZeroDenominator \/ Crash \/ PoolBreaks
  BY <1>1, <1>13 DEF SolveRaises, CompleteRun, ZeroDenominator, Crash, PoolBreaks, Leave
<1>14. ~WaveRaises
  BY DEF WaveRaises
<1> QED BY <1>2, <1>3, <1>4, <1>5, <1>6, <1>7, <1>8, <1>9, <1>10, <1>11, <1>12, <1>13, <1>14
      DEF Next, Step

\* A stall names only faults that were given the longest tier, as long as no wave raises
\* midway: a wave that does leaves faults whose default verdict UNKNOWN is charged like a
\* timeout although no attempt was made.
THEOREM NativeStallsAtLongestTier ==
  ASSUME ~WaveErrors
  PROVE  Spec => []StallOnlyAtLongestTier
<1> DEFINE Inv == WaveInv /\ TierInv /\ StallOnlyAtLongestTier
<1>1. Init => VisitInv /\ Inv
  BY DEF Init, FreshMemory, VisitInv, WaveInv, TierInv, StallOnlyAtLongestTier, InSatLoop, Accepting
<1>2. AtpgInv => TypeInv /\ LoopInv
  BY DEF AtpgInv
<1>3. TypeInv /\ TypeInv' /\ VisitInv /\ Inv /\ [Next]_vars => Inv'
  <2> SUFFICES ASSUME TypeInv, TypeInv', VisitInv, Inv, [Next]_vars PROVE Inv'
    OBVIOUS
  <2>1. WaveInv' /\ TierInv'
    BY WaveInductive, TierInductive
  <2>2. StallOnlyAtLongestTier'
    <3>1. CASE EndRound
      <4> SUFFICES ASSUME terminal' = "STALLED", pc' = "finish", NEW f \in Active', timeouts'[f] > 0
                   PROVE  Tiers - 1 \in tried'[f]
        BY ZenonT(30) DEF StallOnlyAtLongestTier
      <4>1. pc = "loop" /\ Survivors = {} /\ Active' = Active /\ UNCHANGED <<timeouts, tried>>
        BY ZenonT(30), <3>1 DEF EndRound, Active, faultCols
      <4>2. ShouldStall /\ ~EscalationHeadroom
        BY ZenonT(30), <3>1, <4>1 DEF EndRound, TierInv
      <4>a. f \in Active /\ f \in Faults
        BY Zenon, <4>1 DEF Active, InScope
      <4>b. f \notin Survivors /\ ~Accepting /\ InSatLoop
        BY <4>1 DEF Accepting, InSatLoop
      <4>c. "protocol_no_progress" \notin outcomes
        BY <4>2 DEF ShouldStall
      <4>3. satOut[f] # "none" /\ f \in Faults
        BY <4>a, <4>b, <4>c DEF VisitInv
      <4>4. timeouts[f] \in Nat /\ timeouts[f] >= Tiers /\ Tiers \in Nat \ {0}
        <5>1. timeouts \in [Faults -> Nat]
          BY DEF TypeInv, TypeOK
        <5>2. timeouts[f] \in Nat /\ Tiers \in Nat \ {0}
          BY <4>3, <5>1, Sizes
        <5>3. timeouts[f] > 0 /\ ~(0 < timeouts[f] /\ timeouts[f] < Tiers)
          BY <4>1, <4>2, <4>a DEF EscalationHeadroom
        <5> QED BY <5>2, <5>3
      <4>5. (IF timeouts[f] - 1 < Tiers THEN timeouts[f] - 1 ELSE Tiers - 1) \in tried[f]
        BY Zenon, <4>1, <4>3 DEF TierInv, InSatLoop
      <4>6. (IF timeouts[f] - 1 < Tiers THEN timeouts[f] - 1 ELSE Tiers - 1) = Tiers - 1
        BY <4>4
      <4> QED BY ZenonT(30), <4>1, <4>5, <4>6
    <3>2. CASE pc' # "finish" \/ terminal' # "STALLED"
      BY SMTT(30), <3>2 DEF StallOnlyAtLongestTier
    <3>3. CASE UNCHANGED vars
      BY ZenonT(30), <3>3 DEF vars, memory, storeVars, StallOnlyAtLongestTier, Active
    <3>4. ASSUME ~EndRound, ~UNCHANGED vars PROVE pc' # "finish" \/ terminal' # "STALLED"
      <4>1. CASE \/ Enumerate \/ OpenRun \/ Preflight \/ RoundsExhausted \/ NothingLeft
                 \/ BeginRound \/ NextRandom \/ RandomDone
        BY ZenonT(30), <4>1 DEF Enumerate, OpenRun, Preflight, RoundsExhausted, NothingLeft, BeginRound,
          NextRandom, RandomDone, TierInv, memory
      <4>2. CASE \/ AppendVector \/ GradeVector \/ CountVector \/ PlanRound \/ DispatchWave
                 \/ WaveRaises
        BY <4>2 DEF AppendVector, GradeVector, CountVector, PlanRound, DispatchWave, WaveRaises,
          WaveReturns
      <4>3. CASE SatNoProgress \/ SatAccepted \/ Unsat \/ Timeout \/ Unknown
        BY ZenonT(30), <4>3 DEF SatNoProgress, SatAccepted, Unsat, Timeout, Unknown, GaveUp
      <4>4. CASE SolveRaises \/ CompleteRun \/ ZeroDenominator \/ Crash \/ PoolBreaks
        BY <4>4 DEF SolveRaises, CompleteRun, ZeroDenominator, Crash, PoolBreaks, Leave
      <4> QED BY <3>4, <4>1, <4>2, <4>3, <4>4 DEF Next, Step
    <3> QED BY <3>1, <3>2, <3>3, <3>4
  <2> QED BY <2>1, <2>2
<1> QED BY <1>1, <1>2, <1>3, NativeInvariant, VisitInductive, PTL DEF Spec

-----------------------------------------------------------------------------
(* The transition loop *)

Pairs == {drawn[k] : k \in DOMAIN drawn}
Batches == UNION {[1..n -> Patterns] : n \in 0..RandomVectors}

TwinInv ==
  /\ RandomStopPct = 0
  /\ drawn \in Batches
  /\ pc \in {"idle", "open", "preflight"} => ~switched
  /\ pc \in {"idle", "open", "preflight", "round"} /\ ~switched => seen = {} /\ tests = <<>>
  /\ InRandom => /\ ~switched
                 /\ seen = {tests[k] : k \in 1..Len(tests)}
                 /\ Pairs \subseteq seen
  /\ switched => Pairs \subseteq seen

-----------------------------------------------------------------------------
(* The batch without its repetitions *)

Rank(S, k) == Cardinality({j \in S : j < k})

\* Counting the smaller elements numbers a finite set of naturals from 0 on.
LEMMA RankNumbers ==
  ASSUME NEW S \in SUBSET Nat, IsFiniteSet(S)
  PROVE  /\ Cardinality(S) \in Nat
         /\ \A k \in S : Rank(S, k) \in 0..Cardinality(S) - 1
         /\ \A j, k \in S : j # k => Rank(S, j) # Rank(S, k)
         /\ \A i \in 1..Cardinality(S) : \E k \in S : Rank(S, k) = i - 1
<1> DEFINE n == Cardinality(S)
           below(k) == {j \in S : j < k}
           r == [k \in S |-> Rank(S, k)]
<1>1. n \in Nat
  BY FS_CardinalityType
<1>2. \A k \in S : IsFiniteSet(below(k)) /\ Rank(S, k) \in Nat
  <2> TAKE k \in S
  <2>1. below(k) \in SUBSET S
    OBVIOUS
  <2>2. IsFiniteSet(below(k))
    BY <2>1, FS_Subset
  <2> QED BY <2>2, FS_CardinalityType DEF Rank
<1>3. \A j, k \in S : j < k => Rank(S, j) < Rank(S, k)
  <2> SUFFICES ASSUME NEW j \in S, NEW k \in S, j < k PROVE Rank(S, j) < Rank(S, k)
    OBVIOUS
  <2>0. j \in Nat /\ k \in Nat /\ Rank(S, j) \in Nat /\ Rank(S, k) \in Nat
    BY ZenonT(30), <1>2
  <2>1. below(j) \cup {j} \in SUBSET below(k) /\ j \notin below(j)
    <3>1. \A i \in S : i < j => i < k
      BY <2>0
    <3>2. below(j) \cup {j} \subseteq below(k)
      BY ZenonT(30), <3>1
    <3>3. ~(j < j)
      BY <2>0
    <3> QED BY <3>2, <3>3
  <2>2. Cardinality(below(j) \cup {j}) = Rank(S, j) + 1
    BY <1>2, <2>1, FS_AddElement DEF Rank
  <2>3. Cardinality(below(j) \cup {j}) <= Rank(S, k)
    BY <1>2, <2>1, FS_Subset DEF Rank
  <2> QED BY <2>0, <2>2, <2>3
<1>4. \A k \in S : Rank(S, k) \in 0..n - 1
  <2> TAKE k \in S
  <2>1. below(k) \in SUBSET (S \ {k})
    OBVIOUS
  <2>2. IsFiniteSet(S \ {k}) /\ Cardinality(S \ {k}) = n - 1
    BY FS_RemoveElement
  <2>3. Cardinality(below(k)) <= n - 1
    BY <2>1, <2>2, FS_Subset
  <2> QED BY <1>1, <1>2, <2>3 DEF Rank
<1>5. \A j, k \in S : j # k => Rank(S, j) # Rank(S, k)
  <2> SUFFICES ASSUME NEW j \in S, NEW k \in S, j # k PROVE Rank(S, j) # Rank(S, k)
    OBVIOUS
  <2>1. j < k \/ k < j
    OBVIOUS
  <2>2. Rank(S, j) \in Nat /\ Rank(S, k) \in Nat
    BY ZenonT(30), <1>2
  <2>3. Rank(S, j) < Rank(S, k) \/ Rank(S, k) < Rank(S, j)
    BY <1>3, <2>1
  <2> QED BY <2>2, <2>3
<1>6. r \in Injection(S, 0..n - 1)
  <2>1. r \in [S -> 0..n - 1]
    BY <1>4
  <2>2. \A a, b \in DOMAIN r : r[a] = r[b] => a = b
    BY <1>5
  <2> QED BY <2>1, <2>2 DEF Injection, IsInjective
<1>7. IsFiniteSet(0..n - 1) /\ Cardinality(0..n - 1) = n
  <2>1. n - 1 \in Int /\ 0 \in Int /\ (0 > n - 1 => n = 0) /\ n - 1 - 0 + 1 = n
    BY <1>1
  <2> QED BY <2>1, FS_Interval
<1>8. r \in Surjection(S, 0..n - 1)
  BY <1>6, <1>7, FS_Injection
<1>9. \A i \in 1..n : \E k \in S : Rank(S, k) = i - 1
  <2> TAKE i \in 1..n
  <2>1. i - 1 \in 0..n - 1
    BY <1>1
  <2>2. PICK k \in S : r[k] = i - 1
    BY ZenonT(30), <1>8, <2>1 DEF Surjection
  <2> QED BY <2>2
<1> QED BY <1>1, <1>4, <1>5, <1>9

\* The positions _append_unique_pairs keeps.
New == {k \in DOMAIN drawn : /\ drawn[k] \notin seen
                             /\ \A j \in 1..k - 1 : drawn[j] # drawn[k]}

\* What _append_unique_pairs returns: each pair not seen before, once, and no more
\* pairs than were drawn.
LEMMA UnseenPairs ==
  ASSUME drawn \in Batches
  PROVE  /\ Unseen(drawn) \in RandomBatches
         /\ {Unseen(drawn)[k] : k \in DOMAIN Unseen(drawn)} = Pairs \ seen
<1> DEFINE m == Cardinality(New)
           u == Unseen(drawn)
           at(i) == CHOOSE k \in New : Rank(New, k) = i - 1
<1>1. PICK n \in 0..RandomVectors : drawn \in [1..n -> Patterns]
  BY DEF Batches
<1>2. n \in Nat /\ RandomVectors \in Nat /\ n <= RandomVectors
  BY Sizes
<1>3. New \in SUBSET (1..n) /\ New \in SUBSET Nat
  BY <1>1, <1>2 DEF New
<1>4. IsFiniteSet(New) /\ m <= n
  <2>1. IsFiniteSet(1..n) /\ Cardinality(1..n) = n
    BY <1>2, FS_Interval
  <2> QED BY ZenonT(30), <1>3, <2>1, FS_Subset
<1>5. /\ m \in Nat
      /\ \A k \in New : Rank(New, k) \in 0..m - 1
      /\ \A j, k \in New : j # k => Rank(New, j) # Rank(New, k)
      /\ \A i \in 1..m : \E k \in New : Rank(New, k) = i - 1
  BY <1>3, <1>4, RankNumbers
<1>6. u = [i \in 1..m |-> drawn[at(i)]]
  BY DEF Unseen, New, Rank
<1>7. \A i \in 1..m : at(i) \in New /\ Rank(New, at(i)) = i - 1
  BY <1>5
<1>8. \A k \in New : Rank(New, k) + 1 \in 1..m /\ at(Rank(New, k) + 1) = k
  <2> TAKE k \in New
  <2>1. Rank(New, k) + 1 \in 1..m /\ Rank(New, k) + 1 - 1 = Rank(New, k)
    BY <1>5
  <2> QED BY <1>5, <1>7, <2>1
<1> HIDE DEF m, u, at
<1>9. \A j, k \in New : j # k => drawn[j] # drawn[k]
  <2> SUFFICES ASSUME NEW j \in New, NEW k \in New, j < k PROVE drawn[j] # drawn[k]
    BY <1>3
  <2> QED BY <1>2, <1>3 DEF New
<1>10. u \in [1..m -> Patterns] /\ DOMAIN u = 1..m
  BY ZenonT(30), <1>1, <1>3, <1>6, <1>7
<1>11. \A i, j \in 1..m : i # j => u[i] # u[j]
  <2> SUFFICES ASSUME NEW i \in 1..m, NEW j \in 1..m, i # j PROVE u[i] # u[j]
    OBVIOUS
  <2>1. at(i) # at(j)
    BY <1>5, <1>7
  <2> QED BY <1>6, <1>7, <1>9, <2>1
<1>12. m \in 0..RandomVectors
  BY <1>2, <1>4, <1>5
<1>13. u \in RandomBatches
  BY <1>10, <1>11, <1>12 DEF RandomBatches
<1>14. ASSUME NEW k \in 1..m PROVE u[k] \in Pairs \ seen
  <2>1. u[k] = drawn[at(k)] /\ at(k) \in New
    BY <1>6, <1>7
  <2> QED BY <2>1 DEF New, Pairs
<1>15. ASSUME NEW p \in Pairs \ seen PROVE \E k \in 1..m : u[k] = p
  <2> DEFINE T == {k \in 1..n : drawn[k] = p}
  <2>1. T \in SUBSET Nat /\ T # {}
    BY <1>1, <1>2 DEF Pairs
  <2>2. PICK k \in T : \A j \in T \ {k} : k < j
    BY ZenonT(30), <2>1, LeastNatural
  <2>3. k \in 1..n /\ drawn[k] = p /\ \A j \in 1..k - 1 : drawn[j] # p
    BY <1>2, <2>2
  <2>4. k \in New
    BY <1>1, <2>3 DEF New
  <2> QED BY <1>6, <1>8, <2>3, <2>4
<1> QED BY <1>10, <1>13, <1>14, <1>15 DEF u

-----------------------------------------------------------------------------
(* Every step is a step of the native loop *)

\* No preflight is a preflight that certifies nothing.
LEMMA NoPreflightIsEmpty ==
  ASSUME TypeInv, TNoPreflight
  PROVE  Preflight
<1>1. PrecertifyRedundant({}, Model)
  BY DEF PrecertifyRedundant, CertifyRedundant, TNoPreflight, TypeInv, TypeOK, StoreTypeOK, storeVars
<1> QED BY <1>1 DEF TNoPreflight, Preflight, storeVars

\* The head of a round: the first batch is one of the native loop's, a later one is empty.
LEMMA RoundIsNative ==
  ASSUME TypeInv, TwinInv, TBeginRound
  PROVE  BeginRound
<1> DEFINE u == Unseen(drawn)
<1>1. u \in RandomBatches /\ {u[k] : k \in DOMAIN u} = Pairs \ seen
  BY SMTT(30), UnseenPairs DEF TwinInv
<1>2. PICK n \in 0..RandomVectors : u \in [1..n -> Patterns]
  BY <1>1 DEF RandomBatches
<1>3. u \in Seq(Patterns) /\ DOMAIN u = 1..n /\ n \in Nat
  BY <1>2, Sizes
<1>4. /\ tests' = tests \o u
      /\ seen' = seen \cup {u[k] : k \in DOMAIN u}
      /\ pc' = IF u = <<>> /\ switched THEN "plan" ELSE "random"
  BY DEF TBeginRound
<1>5. switched \in BOOLEAN /\ tests \in Seq(Patterns)
  BY SMTT(30) DEF TypeInv, TypeOK
<1>6. CASE switched
  <2>1. Pairs \ seen = {}
    BY <1>6 DEF TwinInv
  <2>2. DOMAIN u = {}
    BY ZenonT(30), <1>1, <2>1
  <2>3. u = <<>>
    BY <1>3, <2>2
  <2>4. tests' = tests /\ seen' = seen /\ pc' = "plan"
    BY <1>1, <1>4, <1>5, <1>6, <2>1, <2>3
  <2> QED BY ZenonT(30), <1>6, <2>4 DEF TBeginRound, BeginRound
<1>7. CASE ~switched
  <2>1. seen = {} /\ tests = <<>>
    BY <1>7 DEF TwinInv, TBeginRound
  <2>2. tests' = u /\ seen' = {u[k] : k \in DOMAIN u} /\ pc' = "random"
    BY <1>3, <1>4, <1>7, <2>1
  <2> HIDE DEF u
  <2> QED BY ZenonT(30), <1>1, <1>7, <2>2 DEF TBeginRound, BeginRound
<1> QED BY SMTT(30), <1>5, <1>6, <1>7

LEMMA StepIsNative == TypeInv /\ TwinInv /\ [TNext]_tvars => [Next]_vars
<1>1. CASE TNext
  BY <1>1, NoPreflightIsEmpty, RoundIsNative
    DEF TNext, TStep, TAccept, TWave, TVisit, TEndRound, TFinish, Next, Step
<1>2. CASE UNCHANGED tvars
  BY <1>2 DEF tvars
<1> QED BY <1>1, <1>2

-----------------------------------------------------------------------------
(* TwinInv is inductive *)

LEMMA InitTwin == TInit => TwinInv
BY DEF TInit, NoStuckAtFeatures, Init, FreshMemory, TwinInv, Batches, InRandom, Accepting

LEMMA TwinInductive == TypeInv /\ TwinInv /\ [TNext]_tvars => TwinInv'
<1> SUFFICES ASSUME TypeInv, TwinInv, [TNext]_tvars PROVE TwinInv'
  OBVIOUS
<1>1. drawn' = drawn /\ Pairs' = Pairs /\ drawn' \in Batches
  BY DEF TNext, tvars, TwinInv, Pairs, Batches
<1>2. CASE TBeginRound
  <2>1. /\ Unseen(drawn) \in RandomBatches
        /\ {Unseen(drawn)[k] : k \in DOMAIN Unseen(drawn)} = Pairs \ seen
    BY UnseenPairs DEF TwinInv
  <2>2. BeginRound
    BY SMTT(30), <1>2, RoundIsNative
  <2>3. switched' = switched /\ switched \in BOOLEAN /\ pc = "round"
    BY SMTT(30), <2>2 DEF BeginRound, TypeInv, TypeOK
  <2>4. CASE switched
    <3>1. pc' = "plan" /\ seen' = seen /\ tests' = tests
      BY <2>2, <2>4 DEF BeginRound
    <3> QED BY <1>1, <2>3, <2>4, <3>1 DEF TwinInv, InRandom, Accepting
  <2>5. CASE ~switched
    <3>1. pc' = "random" /\ seen' = {tests'[k] : k \in DOMAIN tests'} /\ tests' \in RandomBatches
      BY <2>2, <2>5 DEF BeginRound
    <3>2. PICK n \in 0..RandomVectors : tests' \in [1..n -> Patterns]
      BY <3>1 DEF RandomBatches
    <3>3. DOMAIN tests' = 1..Len(tests')
      BY <3>2, Sizes
    <3>4. seen' = Pairs
      BY <1>2, <2>1, <2>5 DEF TBeginRound, TwinInv
    <3> QED BY SMTT(30), <1>1, <2>3, <2>5, <3>1, <3>3, <3>4 DEF TwinInv, InRandom, Accepting
  <2> QED BY <2>3, <2>4, <2>5
<1>3. CASE RandomDone
  <2>1. graded = Len(tests) /\ tests \in Seq(Patterns)
    BY <1>3 DEF RandomDone, RandomStops, RandomStopReached, TypeInv, TypeOK, TwinInv
  <2>2. seen' = seen /\ switched' /\ pc' \in {"finish", "plan"} /\ Pairs \subseteq seen
    BY <1>3, <2>1 DEF RandomDone, GradedRandom, TwinInv, InRandom
  <2> QED BY <1>1, <2>2 DEF TwinInv, InRandom, Accepting
<1>4. CASE SatAccepted
  <2>1. AtBody /\ switched /\ switched' = switched
    BY ZenonT(30), <1>4 DEF SatAccepted, Visited, AtBody, TypeInv, ControlInv, InSatLoop
  <2>2. seen \subseteq seen' /\ pc' = "append" /\ cur'.fault = Target
    <3>1. PICK p \in Patterns :
            seen' = seen \cup {p} /\ cur' = [fault |-> Target, pattern |-> p, index |-> Len(tests) + 1]
      BY Zenon, <1>4 DEF SatAccepted
    <3>2. pc' = "append"
      BY Zenon, <1>4 DEF SatAccepted
    <3> QED BY <3>1, <3>2
  <2>3. Target \in Faults
    BY <2>1, TargetIsSurvivor
  <2> QED BY SMTT(30), <1>1, <2>1, <2>2, <2>3, Sentinels DEF TwinInv, InRandom, Accepting
<1>5. CASE Enumerate \/ OpenRun \/ TNoPreflight \/ RoundsExhausted \/ NothingLeft
  <2>1. CASE Enumerate
    BY <1>1, <2>1 DEF Enumerate, memory, TwinInv, InRandom, Accepting
  <2>2. CASE OpenRun
    BY <1>1, <2>2 DEF OpenRun, TwinInv, InRandom, Accepting
  <2>3. CASE TNoPreflight
    BY SMTT(30), <1>1, <2>3 DEF TNoPreflight, memory, TwinInv, InRandom, Accepting
  <2>4. CASE RoundsExhausted \/ NothingLeft
    BY SMTT(30), <1>1, <2>4 DEF RoundsExhausted, NothingLeft, memory, TwinInv, InRandom, Accepting
  <2> QED BY <1>5, <2>1, <2>2, <2>3, <2>4
<1>6. CASE NextRandom \/ AppendVector \/ GradeVector
  BY SMTT(30), <1>1, <1>6 DEF NextRandom, AppendVector, GradeVector, memory, TwinInv, InRandom, Accepting
<1>7. CASE CountVector
  BY SMTT(30), <1>1, <1>7 DEF CountVector, TwinInv, InRandom, Accepting, TypeInv, ControlInv, InSatLoop
<1>8. CASE PlanRound \/ DispatchWave \/ WaveRaises
  BY <1>1, <1>8 DEF PlanRound, DispatchWave, WaveRaises, WaveReturns, TwinInv, InRandom, Accepting
<1>9. CASE SatNoProgress \/ Unsat \/ Timeout \/ Unknown
  <2>1. CASE SatNoProgress
    BY ZenonT(30), <1>1, <2>1 DEF SatNoProgress, Visited, TwinInv, InRandom, Accepting
  <2>2. CASE Unsat
    BY <1>1, <2>2 DEF Unsat, Visited, TwinInv, InRandom, Accepting
  <2>3. CASE Timeout \/ Unknown
    BY <1>1, <2>3 DEF Timeout, Unknown, GaveUp, Visited, TwinInv, InRandom, Accepting
  <2> QED BY SMTT(30), <1>9, <2>1, <2>2, <2>3
<1>10. CASE EndRound
  BY SMTT(30), <1>1, <1>10 DEF EndRound, TypeInv, ControlInv, InSatLoop, TwinInv, InRandom, Accepting
<1>11. CASE CompleteRun \/ ZeroDenominator \/ Crash \/ PoolBreaks
  BY ZenonT(30), <1>1, <1>11 DEF CompleteRun, ZeroDenominator, Crash, PoolBreaks, Leave, TwinInv, InRandom, Accepting
<1>12. CASE UNCHANGED tvars
  BY <1>1, <1>12 DEF tvars, vars, memory, TwinInv, InRandom, Accepting
<1> QED BY <1>2, <1>3, <1>4, <1>5, <1>6, <1>7, <1>8, <1>9, <1>10, <1>11, <1>12
      DEF TNext, TStep, TAccept, TWave, TVisit, TEndRound, TFinish

-----------------------------------------------------------------------------
(* The refinement, and what it brings *)

\* Drawing the batch again in every round makes no difference: every behaviour of
\* run_progressive_transition_atpg is one of the loop that draws it once
\* (KeepsNativeLoop but for the fairness).
THEOREM TransitionIsNative == TSpec => Spec
<1>1. TInit => Init /\ TypeInv /\ TwinInv
  BY InitTwin, InitType DEF TInit
<1>2. TypeInv /\ TwinInv /\ [TNext]_tvars => [Next]_vars /\ (TypeInv /\ TwinInv)'
  BY StepIsNative, TwinInductive, TypeInductive
<1> QED BY <1>1, <1>2, PTL DEF TSpec, Spec

\* A pair of a later round is never graded or numbered twice: once the first batch has
\* been through, all of it is in seen_patterns, and drawing it again appends nothing.
THEOREM TransitionBatchIsSeen == TSpec => [](switched => Unseen(drawn) = <<>>)
<1>1. TInit => TypeInv /\ TwinInv
  BY InitTwin, InitType DEF TInit
<1>2. TypeInv /\ TwinInv /\ [TNext]_tvars => (TypeInv /\ TwinInv)'
  BY StepIsNative, TwinInductive, TypeInductive
<1>3. TypeInv /\ TwinInv => (switched => Unseen(drawn) = <<>>)
  <2> SUFFICES ASSUME TwinInv, switched PROVE Unseen(drawn) = <<>>
    BY SMTT(30)
  <2>1. /\ Unseen(drawn) \in RandomBatches
        /\ {Unseen(drawn)[k] : k \in DOMAIN Unseen(drawn)} = Pairs \ seen
    BY ZenonT(30), UnseenPairs DEF TwinInv
  <2>2. PICK n \in 0..RandomVectors : Unseen(drawn) \in [1..n -> Patterns]
    BY <2>1 DEF RandomBatches
  <2>3. DOMAIN Unseen(drawn) = {}
    BY <2>1 DEF TwinInv
  <2> HIDE DEF Unseen
  <2> QED BY <2>2, <2>3, Sizes
<1> QED BY <1>1, <1>2, <1>3, PTL DEF TSpec

\* A detection of a transition fault is backed by a stored pair that makes it, whatever
\* the crash point.
THEOREM TransitionDetectionIsBacked == TSpec => []DetectionIsBacked
BY TransitionIsNative, NativeDetectionIsBacked, PTL

\* No testable transition fault is certified redundant, and the campaign implements the
\* ledger, when fault_drop_sat is on.
THEOREM TransitionKeepsLedger ==
  ASSUME DropSat
  PROVE  TSpec => []RedundantIsUntestable /\ KeepsLedger
BY TransitionIsNative, NativeRedundantIsUntestable, NativeKeepsLedger, PTL

\* The transition loop loses no fault on its walk and never stops at a settled one.
THEOREM TransitionWalk == TSpec => [](LoopTargetsAreActive /\ NoActiveFaultIsSkipped)
BY TransitionIsNative, NativeTargetsActive, NativeSkipsNoActiveFault, PTL
=============================================================================
