--------------------------- MODULE NativeTypeProofs ---------------------------
(***************************************************************************)
(* The layers under the proofs about the native ATPG loop.                 *)
(*                                                                         *)
(* The store, under any callers: StoreInv holds for any set of faults,     *)
(* models and runs and any sequence of transactions.  It is inductive as   *)
(* it stands: each of its conjuncts relates columns that one UPDATE writes *)
(* together.                                                               *)
(*                                                                         *)
(* The loop's types: facts about the helpers, types, and what the control  *)
(* state says of the row being written.                                    *)
(*                                                                         *)
(* LoopInv, how the in-memory sets of a round relate to the store, and     *)
(* StoredInv, that a detection has its row.  VisitInv: the walk over       *)
(* active_ids loses no fault.  NativeAtpgProofs builds the soundness       *)
(* argument, and that of the waves and the budgets, on them.               *)
(***************************************************************************)
EXTENDS NativeAtpg, TLAPS, FiniteSetTheorems

-----------------------------------------------------------------------------
(* The store *)

StoreInv ==
  /\ StoreTypeOK
  /\ RedundantIsCertified
  /\ DetectionHasEvidence
  /\ UnresolvedNotDetected

\* The row append_vectors inserts for a single vector.
LEMMA AppendOne ==
  ASSUME NEW r, NEW i \in Nat, NEW p, AppendVectors(r, i, <<p>>)
  PROVE  vectors' = vectors \cup {[run |-> r, index |-> i, pattern |-> p]}
<1>1. DOMAIN <<p>> = {1} /\ <<p>>[1] = p /\ i + 1 - 1 = i
  OBVIOUS
<1> QED BY <1>1, Zenon DEF AppendVectors

\* A certificate, whichever of the two writers issues it, keeps the invariant.
LEMMA CertifyKeepsStoreInv ==
  ASSUME StoreInv, NEW S \in SUBSET Faults, NEW m \in Models, CertifyRedundant(S, m),
         UNCHANGED <<runs, vectors, detections, satOutcome>>
  PROVE  StoreInv'
<1> USE DEF StoreInv, CertifyRedundant
<1>1. StoreTypeOK'
  BY DEF StoreTypeOK, Statuses
<1>2. RedundantIsCertified'
  BY NoModelIsNull DEF RedundantIsCertified, StoreTypeOK
<1>3. DetectionHasEvidence'
  BY Zenon DEF DetectionHasEvidence, StoreTypeOK
<1>4. UnresolvedNotDetected'
  BY DEF UnresolvedNotDetected, StoreTypeOK
<1> QED BY <1>1, <1>2, <1>3, <1>4

\* A graded vector's detections keep the invariant.
LEMMA DetectKeepsStoreInv ==
  ASSUME StoreInv, NEW r \in Nat \ {0}, NEW i \in Nat \ {0}, NEW S \in SUBSET Faults,
         MarkFaultsDetected(r, i, S), UNCHANGED <<runs, vectors, satOutcome>>
  PROVE  StoreInv'
<1> USE DEF StoreInv, MarkFaultsDetected
<1>1. StoreTypeOK'
  <2>1. status' \in [Faults -> Statuses] /\ detBy' \in [Faults -> Nat]
    BY DEF StoreTypeOK, Statuses
  <2>2. unresolved' \in [Faults -> BOOLEAN]
    BY DEF StoreTypeOK
  <2>3. detections' \subseteq DetectionRows
    BY DEF StoreTypeOK, DetectionRows
  <2> QED BY <2>1, <2>2, <2>3 DEF StoreTypeOK
<1>2. RedundantIsCertified'
  BY DEF RedundantIsCertified, StoreTypeOK
<1>3. DetectionHasEvidence'
  <2> SUFFICES ASSUME NEW f \in Faults
               PROVE  /\ status'[f] = "detected" <=> detBy'[f] # 0
                      /\ status'[f] = "detected" =>
                           \E d \in detections' : d.fault = f /\ d.index = detBy'[f]
    BY DEF DetectionHasEvidence
  <2>1. CASE f \in S /\ status[f] = "undetected"
    <3>1. status'[f] = "detected" /\ detBy'[f] = i
      BY <2>1 DEF StoreTypeOK
    <3>2. [fault |-> f, run |-> r, index |-> i] \in detections'
      BY <2>1
    <3> QED BY Zenon, <3>1, <3>2
  <2>2. CASE ~(f \in S /\ status[f] = "undetected")
    <3>1. status'[f] = status[f] /\ detBy'[f] = detBy[f]
      BY <2>2 DEF StoreTypeOK
    <3>2. detections \subseteq detections'
      OBVIOUS
    <3> QED BY <3>1, <3>2 DEF DetectionHasEvidence
  <2> QED BY <2>1, <2>2
<1>4. UnresolvedNotDetected'
  BY Zenon DEF UnresolvedNotDetected, StoreTypeOK
<1> QED BY <1>1, <1>2, <1>3, <1>4

LEMMA StoreInvInductive == StoreInv /\ [StoreNext]_storeVars => StoreInv'
<1> SUFFICES ASSUME StoreInv, [StoreNext]_storeVars PROVE StoreInv'
  OBVIOUS
<1>1. CASE DoInsertFaults
  <2>1. CASE Rows # {}
    BY <1>1, <2>1 DEF DoInsertFaults, InsertFaultsIfEmpty, StoreInv, StoreTypeOK,
      RedundantIsCertified, DetectionHasEvidence, UnresolvedNotDetected
  <2>2. CASE Rows = {}
    <3>1. \A f \in Faults : status[f] = "absent"
      BY <2>2 DEF Rows
    <3> QED BY <1>1, <2>2, <3>1 DEF DoInsertFaults, InsertFaultsIfEmpty, StoreInv,
              StoreTypeOK, Statuses, RedundantIsCertified, DetectionHasEvidence,
              UnresolvedNotDetected
  <2> QED BY <2>1, <2>2
<1>2. CASE DoMarkDetected
  <2>1. PICK r \in DOMAIN runs, i \in 1..MaxIndex, S \in SUBSET Rows :
          /\ MarkFaultsDetected(r, i, S)
          /\ UNCHANGED <<runs, vectors, satOutcome>>
    BY <1>2 DEF DoMarkDetected
  <2>2. r \in Nat \ {0} /\ i \in Nat \ {0} /\ S \in SUBSET Faults
    BY BoundsAreNat DEF StoreInv, StoreTypeOK, Rows
  <2> QED BY <2>1, <2>2, DetectKeepsStoreInv
<1>3. CASE DoMarkRedundant
  <2>1. PICK f \in Rows, m \in Models :
          CertifyRedundant({f}, m) /\ UNCHANGED <<runs, vectors, detections, satOutcome>>
    BY <1>3 DEF DoMarkRedundant, MarkFaultRedundant
  <2> QED BY <2>1, CertifyKeepsStoreInv DEF Rows
<1>4. CASE DoPrecertify
  <2>1. PICK S \in SUBSET Rows, m \in Models :
          /\ CertifyRedundant(S \cap InScope, m)
          /\ UNCHANGED <<runs, vectors, detections, satOutcome>>
    BY <1>4 DEF DoPrecertify, PrecertifyRedundant
  <2>2. S \cap InScope \in SUBSET Faults
    BY DEF Rows
  <2> QED BY <2>1, <2>2, CertifyKeepsStoreInv
<1>5. CASE DoMarkUnresolved
  <2>1. PICK f \in Rows : /\ MarkFaultProtocolUnresolved(f)
                          /\ UNCHANGED <<runs, vectors, detections, satOutcome>>
    BY <1>5 DEF DoMarkUnresolved
  <2>2. UNCHANGED <<status, detBy, certModel>>
    BY <2>1 DEF MarkFaultProtocolUnresolved
  <2>3. unresolved' \in [Faults -> BOOLEAN]
    BY Zenon, <2>1 DEF MarkFaultProtocolUnresolved, StoreInv, StoreTypeOK
  <2>4. UnresolvedNotDetected'
    BY <2>1, <2>2 DEF MarkFaultProtocolUnresolved, StoreInv, StoreTypeOK,
      UnresolvedNotDetected
  <2> QED BY <2>1, <2>2, <2>3, <2>4 DEF StoreInv, StoreTypeOK, RedundantIsCertified,
            DetectionHasEvidence
<1>6. CASE DoInvalidate
  BY <1>6 DEF DoInvalidate, InvalidateStaleRedundant, StoreInv, StoreTypeOK, Statuses,
    RedundantIsCertified, DetectionHasEvidence, UnresolvedNotDetected
<1>7. CASE DoStartRun
  <2>1. NewRun \in Runs
    BY DEF NewRun, Runs, Terminals
  <2>2. runs' \in Seq(Runs)
    BY <1>7, <2>1 DEF DoStartRun, StartRun, StoreInv, StoreTypeOK
  <2> QED BY <1>7, <2>2 DEF DoStartRun, faultCols, StoreInv, StoreTypeOK,
            RedundantIsCertified, DetectionHasEvidence, UnresolvedNotDetected
<1>8. CASE UNCHANGED storeVars
  BY <1>8 DEF storeVars, StoreInv, StoreTypeOK, RedundantIsCertified,
    DetectionHasEvidence, UnresolvedNotDetected
<1> QED BY <1>1, <1>2, <1>3, <1>4, <1>5, <1>6, <1>7, <1>8 DEF StoreNext

\* Under any callers the store keeps its column types, every redundant fault
\* carries its certificate's model, every detected fault its evidence, and no
\* detected fault is protocol-unresolved.
THEOREM StoreInvariant == StoreSpec => []StoreInv
<1>1. StoreInit => StoreInv
  BY NoModelIsNull DEF StoreInit, StoreInv, StoreTypeOK, Statuses, VectorRows,
    DetectionRows, RedundantIsCertified, DetectionHasEvidence, UnresolvedNotDetected
<1> QED BY <1>1, StoreInvInductive, PTL DEF StoreSpec

\* Each detected fault is vouched for by a fault_detections row (mark_faults_detected).
THEOREM StoreEvidence == StoreSpec => []DetectionHasEvidence
<1>1. StoreInv => DetectionHasEvidence
  BY DEF StoreInv
<1> QED BY <1>1, StoreInvariant, PTL

\* No transaction undoes or re-attributes a detection: every UPDATE of a settled
\* column is guarded by status='undetected' or by status='redundant'.
THEOREM StoreDetectionIsFinal == StoreSpec => DetectionIsFinal
<1> DEFINE Kept == \A f \in Faults : status[f] = "detected" =>
                     status'[f] = "detected" /\ detBy'[f] = detBy[f]
<1>1. StoreInv /\ [StoreNext]_storeVars => [Kept]_storeVars
  <2> SUFFICES ASSUME StoreInv, StoreNext PROVE Kept
    OBVIOUS
  <2> USE DEF StoreInv, StoreTypeOK
  <2>1. CASE DoInsertFaults
    BY <2>1 DEF DoInsertFaults, InsertFaultsIfEmpty, Rows
  <2>2. CASE DoMarkDetected
    BY <2>2 DEF DoMarkDetected, MarkFaultsDetected
  <2>3. CASE DoMarkRedundant
    BY <2>3 DEF DoMarkRedundant, MarkFaultRedundant, CertifyRedundant
  <2>4. CASE DoPrecertify
    BY <2>4 DEF DoPrecertify, PrecertifyRedundant, CertifyRedundant
  <2>5. CASE DoMarkUnresolved
    BY <2>5 DEF DoMarkUnresolved, MarkFaultProtocolUnresolved
  <2>6. CASE DoInvalidate
    BY <2>6 DEF DoInvalidate, InvalidateStaleRedundant
  <2>7. CASE DoStartRun
    BY <2>7 DEF DoStartRun, faultCols
  <2> QED BY <2>1, <2>2, <2>3, <2>4, <2>5, <2>6, <2>7 DEF StoreNext
<1> QED BY <1>1, StoreInvariant, PTL DEF StoreSpec, DetectionIsFinal

-----------------------------------------------------------------------------
(* The native loop *)

\* What the control state says of the current vector, the run row and the batch.
ControlInv ==
  /\ pc \in {"idle", "open"} => seen = {}
  /\ pc \notin {"idle", "open"} => runs # <<>>
  /\ Accepting => cur.pattern \in Patterns /\ cur.index # 0
  /\ graded <= Len(tests)
  /\ Accepting /\ cur.fault = NoFault =>
       graded < Len(tests) /\ cur.pattern = tests[graded + 1]
  /\ pc = "solve" => Survivors # {}
  /\ InSatLoop \/ pc = "plan" => switched
  /\ pc \in {"idle", "open", "preflight", "round"} /\ ~switched => graded = 0

TypeInv == TypeOK /\ ControlInv

-----------------------------------------------------------------------------
(* Facts about the helpers *)

\* A nonempty set of naturals has a least element.
LEMMA LeastNatural ==
  ASSUME NEW T \in SUBSET Nat, T # {}
  PROVE  \E x \in T : \A y \in T \ {x} : x < y
<1>1. \E x \in T : \A y \in T : ~(<<y, x>> \in OpToRel(<, Nat))
  BY Zenon, WFMin, NatLessThanWellFounded
<1>2. \E x \in T : \A y \in T : ~(y < x)
  BY Zenon, <1>1 DEF OpToRel
<1> QED BY <1>2

\* The loop's next fault is one of the faults it chooses from: the visiting order is
\* total on fault ids.
LEMMA FirstIsMember == \A S \in SUBSET Faults : S # {} => First(S) \in S
<1> SUFFICES ASSUME NEW S \in SUBSET Faults, S # {}
             PROVE  \E f \in S : \A g \in S \ {f} : Before(f, g)
  BY DEF First
<1> DEFINE T == IF S \subseteq Reconv THEN S ELSE S \ Reconv
<1>1. T \in SUBSET Nat /\ T # {}
  BY Zenon, FaultIdsAreOrdered
<1>2. PICK f \in T : \A g \in T \ {f} : f < g
  BY Zenon, <1>1, LeastNatural
<1> QED BY <1>2 DEF Before

\* The loop never comes back to the fault it is at.
LEMMA AfterDropsTarget == \A S \in SUBSET Faults, f \in Faults : After(S, f) \subseteq S \ {f}
BY FaultIdsAreOrdered DEF After, Before

LEMMA CountsAreNat == FaultCounts \in Nat \X Nat /\ Denominator \in Nat
                        /\ Cardinality(DetectedFaults) \in Nat
<1>1. \A S \in SUBSET Faults : Cardinality(S) \in Nat
  BY FaultsAreFinite, FS_Subset, FS_CardinalityType
<1>2. DetectedFaults \in SUBSET Faults /\ RedundantFaults \in SUBSET Faults
        /\ InScope \ RedundantFaults \in SUBSET Faults
  BY DEF DetectedFaults, RedundantFaults, InScope
<1> QED BY <1>1, <1>2 DEF FaultCounts, Denominator

LEMMA TargetIsSurvivor ==
  ASSUME TypeInv, AtBody
  PROVE  Target \in Survivors /\ Target \in todo /\ Target \in Faults
<1>1. Survivors # {} /\ Survivors \subseteq todo /\ todo \subseteq Faults
  BY DEF AtBody, TypeInv, ControlInv, TypeOK, Survivors
<1> QED BY <1>1, FirstIsMember DEF Target

LEMMA TierInRange == ASSUME TypeInv, NEW f \in Faults PROVE TierOf(f) \in 0..Tiers - 1
BY SMTT(30), Sizes DEF TierOf, TypeInv, TypeOK

-----------------------------------------------------------------------------
(* Types *)

LEMMA InitType == Init => TypeInv
<1> SUFFICES ASSUME Init PROVE TypeInv
  OBVIOUS
<1>1. StoreTypeOK
  BY DEF Init, StoreInit, StoreTypeOK, Statuses, VectorRows, DetectionRows
<1>2. cur \in [fault: Faults \cup {NoFault}, pattern: Patterns \cup {NoPattern}, index: Nat]
  BY DEF Init, FreshMemory, NoCur
<1>3. tests \in Seq(Patterns) /\ Len(tests) = 0 /\ graded = 0
  BY DEF Init, FreshMemory
<1>4. prev \in Nat \X Nat /\ terminal \in Terminals /\ round \in 0..MaxRounds
  BY Sizes DEF Init, FreshMemory, Terminals
<1>5. results \in [Faults -> Verdicts \cup {NoVerdict}]
  BY DEF Init, FreshMemory
<1>6. /\ detects \in [Patterns -> SUBSET Faults]
      /\ pc = "idle"
      /\ parallel \in BOOLEAN /\ randomOnly \in BOOLEAN /\ switched \in BOOLEAN
      /\ seen \subseteq Patterns
      /\ rejected \in [Faults -> SUBSET Patterns]
      /\ timeouts \in [Faults -> Nat]
      /\ active \subseteq Faults /\ todo \subseteq Faults
      /\ remaining \subseteq Faults /\ undispatched \subseteq Faults
      /\ outcomes \subseteq {"SAT", "protocol_no_progress", "TIMEOUT", "UNKNOWN"}
      /\ satOut \in [Faults -> {"none", "timeout", "unknown"}]
      /\ tried \in [Faults -> SUBSET (0..Tiers - 1)]
  BY Zenon DEF Init, FreshMemory
<1>7. TypeOK
  BY <1>1, <1>2, <1>3, <1>4, <1>5, <1>6 DEF TypeOK
<1>8. ControlInv
  BY <1>3, <1>6 DEF Init, FreshMemory, ControlInv, Accepting, InSatLoop
<1> QED BY <1>7, <1>8 DEF TypeInv

\* The run row of this invocation exists from OpenRun on.
LEMMA RunIsRow ==
  TypeOK /\ ControlInv /\ pc \notin {"idle", "open"} => run \in DOMAIN runs /\ run \in Nat \ {0}
BY DEF TypeOK, StoreTypeOK, ControlInv, run

\* However an invocation ends, its memory is back to a fresh process's.
LEMMA LeaveType ==
  ASSUME TypeInv, Leave, StoreTypeOK', UNCHANGED detects
  PROVE  TypeInv'
<1>1. cur' \in [fault: Faults \cup {NoFault}, pattern: Patterns \cup {NoPattern}, index: Nat]
  BY DEF Leave, NoCur
<1>2. tests' \in Seq(Patterns) /\ Len(tests') = 0 /\ graded' = 0
  BY DEF Leave
<1>3. results' \in [Faults -> Verdicts \cup {NoVerdict}]
  BY DEF Leave
<1>4. prev' \in Nat \X Nat /\ terminal' \in Terminals /\ round' \in 0..MaxRounds
  BY Sizes DEF Leave, Terminals
<1>5. /\ pc' = "idle"
      /\ parallel' \in BOOLEAN /\ randomOnly' \in BOOLEAN /\ switched' \in BOOLEAN
      /\ seen' = {}
      /\ rejected' \in [Faults -> SUBSET Patterns]
      /\ timeouts' \in [Faults -> Nat]
      /\ active' \subseteq Faults /\ todo' \subseteq Faults
      /\ remaining' \subseteq Faults /\ undispatched' \subseteq Faults
      /\ outcomes' \subseteq {"SAT", "protocol_no_progress", "TIMEOUT", "UNKNOWN"}
      /\ satOut' \in [Faults -> {"none", "timeout", "unknown"}]
      /\ tried' \in [Faults -> SUBSET (0..Tiers - 1)]
  BY Zenon DEF Leave
<1>6. TypeOK'
  BY <1>1, <1>2, <1>3, <1>4, <1>5 DEF TypeInv, TypeOK
<1>7. ControlInv'
  BY <1>2, <1>5 DEF ControlInv, Accepting, InSatLoop
<1> QED BY <1>6, <1>7 DEF TypeInv

LEMMA TypeInductive == TypeInv /\ [Next]_vars => TypeInv'
<1> SUFFICES ASSUME TypeInv, [Next]_vars PROVE TypeInv'
  OBVIOUS
<1> USE DEF TypeInv
<1>1. CASE Enumerate
  BY <1>1, Sentinels DEF Enumerate, InsertFaultsIfEmpty, TypeOK, StoreTypeOK, Statuses, ControlInv,
    Accepting, InSatLoop, memory, Survivors
<1>2. CASE OpenRun
  <2>1. NewRun \in Runs
    BY DEF NewRun, Runs, Terminals
  <2>2. runs' \in Seq(Runs) /\ runs' # <<>>
    BY <1>2, <2>1 DEF OpenRun, StartRun, TypeOK, StoreTypeOK
  <2>3. StoreTypeOK'
    BY <1>2, <2>2 DEF OpenRun, InvalidateStaleRedundant, TypeOK, StoreTypeOK, Statuses
  <2>4. TypeOK'
    BY Zenon, <1>2, <2>3, Flags DEF OpenRun, TypeOK
  <2>5. ControlInv'
    BY <1>2, <2>2 DEF OpenRun, ControlInv, Accepting, InSatLoop, Survivors
  <2> QED BY <2>4, <2>5
<1>3. CASE Preflight
  <2>1. PICK S \in SUBSET Faults : CertifyRedundant(S \cap InScope, Model)
    BY <1>3 DEF Preflight, PrecertifyRedundant
  <2>2. StoreTypeOK'
    BY <1>3, <2>1, ModelIsKnown DEF Preflight, CertifyRedundant, TypeOK, StoreTypeOK, Statuses
  <2> QED BY <1>3, <2>2 DEF Preflight, memory, TypeOK, ControlInv, Accepting, InSatLoop, Survivors
<1>4. CASE RoundsExhausted
  BY <1>4 DEF RoundsExhausted, storeVars, memory, TypeOK, StoreTypeOK, ControlInv, Accepting,
    InSatLoop, Survivors
<1>5. CASE NothingLeft
  <2>1. round' \in 0..MaxRounds /\ prev' \in Nat \X Nat /\ terminal' \in Terminals
    BY <1>5, CountsAreNat, Sizes DEF NothingLeft, TypeOK, Terminals
  <2>2. TypeOK'
    BY <1>5, <2>1 DEF NothingLeft, storeVars, TypeOK, StoreTypeOK
  <2> QED BY Zenon, <1>5, <2>2 DEF NothingLeft, storeVars, ControlInv, Accepting, InSatLoop, Survivors
<1>6. CASE BeginRound
  <2>1. round' \in 0..MaxRounds /\ prev' \in Nat \X Nat /\ active' \subseteq Faults
    BY SMTT(30), <1>6, CountsAreNat, Sizes DEF BeginRound, TypeOK, Active, InScope
  <2>2. tests' \in Seq(Patterns) /\ seen' \subseteq Patterns /\ graded' <= Len(tests')
    <3>1. CASE switched
      BY <1>6, <3>1 DEF BeginRound, TypeOK, ControlInv
    <3>2. CASE ~switched
      <4>1. PICK b \in RandomBatches : tests' = b /\ seen' = {b[k] : k \in DOMAIN b}
        BY <1>6, <3>2 DEF BeginRound
      <4>2. PICK n \in 0..RandomVectors : b \in [1..n -> Patterns]
        BY <4>1 DEF RandomBatches
      <4>3. n \in Nat
        BY Sizes
      <4>4. b \in Seq(Patterns) /\ Len(b) = n
        BY <4>2, <4>3
      <4>5. graded' = 0
        BY <1>6, <3>2 DEF BeginRound, ControlInv
      <4> QED BY <4>1, <4>2, <4>3, <4>4, <4>5
    <3> QED BY <3>1, <3>2
  <2>3. TypeOK'
    BY ZenonT(30), <1>6, <2>1, <2>2 DEF BeginRound, storeVars, TypeOK, StoreTypeOK
  <2> QED BY <1>6, <2>2, <2>3 DEF BeginRound, storeVars, ControlInv, Accepting, InSatLoop, Survivors
<1>7. CASE NextRandom
  BY <1>7 DEF NextRandom, storeVars, TypeOK, StoreTypeOK, ControlInv, Accepting, InSatLoop, Survivors, RandomStops
<1>8. CASE RandomDone
  <2>1. tests' \in Seq(Patterns) /\ Len(tests') = graded /\ seen' \subseteq Patterns
    <3>1. \A k \in 1..graded : tests[k] \in Patterns
      BY DEF TypeOK, ControlInv
    <3> QED BY SMTT(30), <1>8, <3>1 DEF RandomDone, GradedRandom, TypeOK, ControlInv
  <2> QED BY SMTT(30), <1>8, <2>1 DEF RandomDone, storeVars, TypeOK, StoreTypeOK, ControlInv, Accepting,
    InSatLoop, Survivors, Terminals
<1>9. CASE AppendVector
  <2>1. run \in Nat \ {0}
    BY <1>9, RunIsRow DEF AppendVector
  <2>2. vectors' \subseteq VectorRows
    <3>1. cur.pattern \in Patterns /\ cur.index \in Nat \ {0}
      BY <1>9 DEF AppendVector, ControlInv, Accepting, TypeOK
    <3>2. vectors' = vectors \cup {[run |-> run, index |-> cur.index, pattern |-> cur.pattern]}
      BY ZenonT(30), <1>9, <3>1, AppendOne DEF AppendVector
    <3> QED BY <2>1, <3>1, <3>2 DEF TypeOK, StoreTypeOK, VectorRows
  <2> QED BY <1>9, <2>2 DEF AppendVector, faultCols, memory, TypeOK, StoreTypeOK, ControlInv,
            Accepting, InSatLoop, Survivors
<1>10. CASE GradeVector
  <2>1. run \in Nat \ {0} /\ cur.index \in Nat \ {0}
    BY <1>10, RunIsRow DEF GradeVector, TypeOK, ControlInv, Accepting
  <2>2. NewlyDetected \subseteq Faults
    BY SMTT(30) DEF NewlyDetected, LiveRecords, InScope
  <2>3. detections' \subseteq DetectionRows
    BY SMTT(30), <1>10, <2>1, <2>2 DEF GradeVector, MarkFaultsDetected, TypeOK, StoreTypeOK, DetectionRows
  <2>4. /\ status' \in [Faults -> Statuses] /\ detBy' \in [Faults -> Nat]
        /\ unresolved' \in [Faults -> BOOLEAN]
    BY Zenon, <1>10, <2>1 DEF GradeVector, MarkFaultsDetected, TypeOK, StoreTypeOK, Statuses
  <2>5. StoreTypeOK'
    BY Zenon, <1>10, <2>3, <2>4 DEF GradeVector, MarkFaultsDetected, TypeOK, StoreTypeOK
  <2> QED BY <1>10, <2>5 DEF GradeVector, TypeOK, ControlInv, Accepting, InSatLoop, Survivors
<1>11. CASE CountVector
  <2>1. run \in DOMAIN runs /\ cur.index \in Nat
    BY <1>11, RunIsRow DEF CountVector, TypeOK
  <2>2. runs' \in Seq(Runs) /\ runs' # <<>>
    <3>1. runs' = [runs EXCEPT ![run].count = cur.index]
      BY <1>11 DEF CountVector, UpdateRunVectorCount
    <3>2. runs \in Seq(Runs) /\ runs[run] \in Runs /\ runs # <<>>
      BY <1>11, <2>1 DEF CountVector, TypeOK, StoreTypeOK, ControlInv
    <3>3. [runs[run] EXCEPT !.count = cur.index] \in Runs
      BY Zenon, <2>1, <3>2 DEF Runs
    <3>4. runs' = [runs EXCEPT ![run] = [runs[run] EXCEPT !.count = cur.index]]
      BY <3>1
    <3> QED BY <2>1, <3>2, <3>3, <3>4
  <2>3. StoreTypeOK'
    BY <1>11, <2>2 DEF CountVector, faultCols, TypeOK, StoreTypeOK
  <2>4. graded' \in Nat /\ graded' <= Len(tests)
    BY <1>11 DEF CountVector, TypeOK, ControlInv, Accepting
  <2>5. cur' \in [fault: Faults \cup {NoFault}, pattern: Patterns \cup {NoPattern}, index: Nat]
    BY <1>11 DEF CountVector, NoCur
  <2>6. TypeOK'
    BY Zenon, <1>11, <2>3, <2>4, <2>5 DEF CountVector, TypeOK
  <2> QED BY <1>11, <2>2, <2>4, <2>6 DEF CountVector, ControlInv, Accepting, InSatLoop, Survivors
<1>12. CASE PlanRound
  BY <1>12 DEF PlanRound, storeVars, TypeOK, StoreTypeOK, ControlInv, Accepting, InSatLoop, Survivors, Active,
    InScope
<1>13. CASE DispatchWave \/ WaveRaises
  <2>1. PICK done \in SUBSET Wave : WaveReturns(done)
    BY <1>13 DEF DispatchWave, WaveRaises
  <2>2. Wave \subseteq Faults
    BY DEF Wave, FirstK, TypeOK
  <2>3. results' \in [Faults -> Verdicts \cup {NoVerdict}]
    BY <2>1, <2>2 DEF WaveReturns, TypeOK
  <2>4. undispatched' \subseteq Faults
    BY <2>1 DEF WaveReturns, AfterWave, TypeOK
  <2>5. tried' \in [Faults -> SUBSET (0..Tiers - 1)]
    BY <2>1, TierInRange DEF WaveReturns, TypeOK
  <2>6. TypeOK'
    BY <2>1, <2>3, <2>4, <2>5 DEF WaveReturns, storeVars, TypeOK, StoreTypeOK
  <2>7. pc = "loop" /\ Survivors # {}
    BY <1>13 DEF DispatchWave, WaveRaises
  <2> QED BY Zenon, <2>1, <2>6, <2>7 DEF WaveReturns, storeVars, ControlInv, Accepting, InSatLoop, Survivors, InSatLoop
<1>14. ASSUME Visited
       PROVE  /\ todo' \subseteq Faults
              /\ results' \in [Faults -> Verdicts \cup {NoVerdict}]
              /\ tried' \in [Faults -> SUBSET (0..Tiers - 1)]
              /\ UNCHANGED <<detects, parallel, randomOnly, round, switched, graded, prev, active,
                             remaining, undispatched, terminal>>
              /\ pc \in {"loop", "solve"}
              /\ Target \in Faults
  <2>1. Target \in Faults
    BY <1>14, TargetIsSurvivor DEF Visited
  <2> QED BY SMTT(30), <1>14, <2>1, TierInRange DEF Visited, AtBody, After, TypeOK
<1>15. CASE SatNoProgress
  <2>1. rejected' \in [Faults -> SUBSET Patterns]
    <3>1. PICK p \in Patterns : rejected' = [rejected EXCEPT ![Target] = @ \cup {p}]
      BY Zenon, <1>15 DEF SatNoProgress
    <3> QED BY Zenon, <3>1 DEF TypeOK
  <2>2. outcomes' \subseteq {"SAT", "protocol_no_progress", "TIMEOUT", "UNKNOWN"}
    BY SMTT(30), <1>15 DEF SatNoProgress, TypeOK
  <2>3. Visited
    BY <1>15 DEF SatNoProgress
  <2>4. TypeOK'
    BY SMTT(30), <1>14, <1>15, <2>1, <2>2, <2>3 DEF SatNoProgress, storeVars, TypeOK, StoreTypeOK
  <2> QED BY <1>14, <1>15, <2>3, <2>4 DEF SatNoProgress, storeVars, ControlInv, Accepting, InSatLoop
<1>16. CASE SatAccepted
  <2>1. Visited
    BY ZenonT(30), <1>16 DEF SatAccepted
  <2>2. PICK p \in Patterns :
          /\ seen' = seen \cup {p}
          /\ tests' = Append(tests, p)
          /\ cur' = [fault |-> Target, pattern |-> p, index |-> Len(tests) + 1]
    BY <1>16 DEF SatAccepted
  <2>3. /\ tests' \in Seq(Patterns) /\ Len(tests') = Len(tests) + 1
        /\ seen' \subseteq Patterns
        /\ cur' \in [fault: Faults \cup {NoFault}, pattern: Patterns \cup {NoPattern}, index: Nat]
        /\ cur'.fault # NoFault /\ cur'.pattern \in Patterns /\ cur'.index # 0
    BY <1>14, <2>1, <2>2, Sentinels DEF TypeOK
  <2>4. TypeOK'
    BY <1>14, <1>16, <2>1, <2>3 DEF SatAccepted, storeVars, TypeOK, StoreTypeOK
  <2>5. graded' <= Len(tests')
    BY <1>14, <2>1, <2>3 DEF ControlInv, TypeOK
  <2> QED BY Zenon, <1>14, <1>16, <2>1, <2>3, <2>4, <2>5 DEF SatAccepted, storeVars, ControlInv, Accepting,
            InSatLoop
<1>17. CASE Unsat
  <2>1. Visited
    BY <1>17 DEF Unsat
  <2>2. StoreTypeOK'
    BY <1>14, <1>17, <2>1, ModelIsKnown DEF Unsat, MarkFaultRedundant, CertifyRedundant, TypeOK,
      StoreTypeOK, Statuses
  <2>3. TypeOK'
    BY <1>14, <1>17, <2>1, <2>2 DEF Unsat, TypeOK
  <2> QED BY Zenon, <1>14, <1>17, <2>1, <2>3 DEF Unsat, ControlInv, Accepting, InSatLoop
<1>18. CASE Timeout \/ Unknown
  <2>1. PICK kind \in {"TIMEOUT", "UNKNOWN"}, row \in {"timeout", "unknown"} : GaveUp(kind, row)
    BY <1>18 DEF Timeout, Unknown
  <2>2. /\ Visited
        /\ timeouts' \in [Faults -> Nat]
        /\ outcomes' \subseteq {"SAT", "protocol_no_progress", "TIMEOUT", "UNKNOWN"}
        /\ satOut' \in [Faults -> {"none", "timeout", "unknown"}]
    <3>1. timeouts' \in [Faults -> Nat]
      <4>1. Visited /\ timeouts' = [timeouts EXCEPT ![Target] = @ + 1]
        BY <2>1 DEF GaveUp
      <4>2. Target \in Faults /\ timeouts \in [Faults -> Nat]
        BY <1>14, <4>1 DEF TypeOK
      <4> QED BY <4>1, <4>2
    <3>2. outcomes' \subseteq {"SAT", "protocol_no_progress", "TIMEOUT", "UNKNOWN"}
      BY <2>1 DEF GaveUp, TypeOK
    <3>3. satOut' \in [Faults -> {"none", "timeout", "unknown"}]
      BY Zenon, <2>1 DEF GaveUp, TypeOK
    <3> QED BY <2>1, <3>1, <3>2, <3>3 DEF GaveUp
  <2>3. TypeOK'
    BY <1>14, <2>1, <2>2 DEF GaveUp, storeVars, TypeOK, StoreTypeOK
  <2> QED BY <1>14, <2>1, <2>2, <2>3 DEF GaveUp, storeVars, ControlInv, Accepting, InSatLoop
<1>19. CASE EndRound
  <2>1. satOutcome' \in [Faults -> {"none", "timeout", "unknown"}]
    BY <1>19 DEF EndRound, RecordSatOutcomes, TypeOK, StoreTypeOK
  <2>2. terminal' \in Terminals /\ pc' \in {"finish", "round"}
    BY <1>19 DEF EndRound, Terminals, TypeOK
  <2>3. TypeOK'
    BY <1>19, <2>1, <2>2 DEF EndRound, faultCols, TypeOK, StoreTypeOK
  <2> QED BY Zenon, <1>19, <2>2, <2>3 DEF EndRound, ControlInv, Accepting, InSatLoop
<1>22. CASE CompleteRun
  <2>1. run \in DOMAIN runs /\ terminal \in Terminals
    BY <1>22, RunIsRow DEF CompleteRun, TypeOK
  <2>2. runs' \in Seq(Runs)
    <3> DEFINE row == [runs[run] EXCEPT !.status = "complete", !.terminal = terminal,
                                        !.detected = Cardinality(DetectedFaults),
                                        !.denominator = Denominator]
    <3>1. runs' = [runs EXCEPT ![run] = row]
      BY Zenon, <1>22 DEF CompleteRun, CompleteRunWithAtpg
    <3>2. runs \in Seq(Runs) /\ runs[run] \in Runs
      BY <2>1 DEF TypeOK, StoreTypeOK
    <3>3. row \in Runs
      BY Zenon, <2>1, <3>2, CountsAreNat DEF Runs
    <3> QED BY <2>1, <3>1, <3>2, <3>3
  <2>3. StoreTypeOK'
    BY <1>22, <2>2 DEF CompleteRun, faultCols, TypeOK, StoreTypeOK
  <2> QED BY <1>22, <2>3, LeaveType DEF CompleteRun
<1>20. CASE SolveRaises \/ ZeroDenominator \/ Crash \/ PoolBreaks
  BY ZenonT(30), <1>20, LeaveType DEF SolveRaises, ZeroDenominator, Crash, PoolBreaks, storeVars, TypeOK, StoreTypeOK
<1>21. CASE UNCHANGED vars
  BY <1>21 DEF vars, storeVars, memory, TypeOK, StoreTypeOK, ControlInv, Accepting, InSatLoop, Survivors
<1> QED BY <1>1, <1>2, <1>3, <1>4, <1>5, <1>6, <1>7, <1>8, <1>9, <1>10, <1>11, <1>12, <1>13, <1>15,
    <1>16, <1>17, <1>18, <1>19, <1>20, <1>21, <1>22 DEF Next, Step

-----------------------------------------------------------------------------
(* What the rest of the argument says of a round and of the evidence *)

\* The round's sets against the store.
LoopInv ==
  /\ InRandom => Active \subseteq active
  /\ InSatLoop => Survivors \subseteq Active
  /\ InSatLoop /\ DropSat => Active \subseteq remaining
  /\ Accepting => cur.fault \notin todo

\* The row of the vector being graded is already in the store.
GradedVectorIsStored ==
  pc = "grade" => \E v \in vectors : /\ v.run = run /\ v.index = cur.index
                                     /\ v.pattern = cur.pattern

StoredInv == GradedVectorIsStored /\ DetectionIsBacked

-----------------------------------------------------------------------------
(* The sets of a round *)

\* Grading a vector leaves exactly the faults it was graded against and misses.
LEMMA GradeEffect ==
  ASSUME TypeInv, GradeVector
  PROVE  Active' = {f \in Active : f \notin GradeIds \/ f \notin detects[cur.pattern]}
BY ZenonT(30) DEF GradeVector, MarkFaultsDetected, NewlyDetected, LiveRecords, Active, InScope, TypeInv, TypeOK,
  StoreTypeOK

LEMMA LoopInductive == TypeInv /\ TypeInv' /\ LoopInv /\ [Next]_vars => LoopInv'
<1> SUFFICES ASSUME TypeInv, TypeInv', LoopInv, [Next]_vars PROVE LoopInv'
  BY SMTT(30)
<1> USE DEF InRandom, InSatLoop, Accepting
<1>1. CASE pc' \notin {"random", "append", "grade", "count", "loop", "solve"}
  BY <1>1 DEF LoopInv
<1>2. CASE BeginRound
  BY ZenonT(30), <1>2 DEF BeginRound, LoopInv, Active, storeVars
<1>3. CASE NextRandom
  <2>1. cur'.fault = NoFault /\ todo' \subseteq Faults /\ pc = "random"
    BY ZenonT(30), <1>3 DEF NextRandom, TypeInv, TypeOK
  <2> QED BY <1>3, <2>1, Sentinels DEF NextRandom, LoopInv, Active, storeVars
<1>4. CASE AppendVector
  BY <1>4 DEF AppendVector, LoopInv, Active, Survivors, faultCols, memory
<1>5. CASE GradeVector
  <2>1. CASE cur.fault = NoFault
    BY <1>5, <2>1, GradeEffect DEF GradeVector, LoopInv
  <2>2. CASE cur.fault # NoFault /\ DropSat
    BY ZenonT(30), <1>5, <2>2, GradeEffect DEF GradeVector, GradeIds, LoopInv, Survivors, NewlyDetected,
      LiveRecords, Active
  <2>3. CASE cur.fault # NoFault /\ ~DropSat
    BY ZenonT(30), <1>5, <2>3, GradeEffect DEF GradeVector, GradeIds, LoopInv, Survivors
  <2> QED BY <2>1, <2>2, <2>3
<1>6. CASE CountVector
  <2>1. Active' = Active /\ Survivors' = Survivors
    BY ZenonT(30), <1>6 DEF CountVector, Active, Survivors, faultCols
  <2> QED BY ZenonT(30), <1>6, <2>1 DEF CountVector, LoopInv
<1>7. CASE PlanRound
  BY Zenon, <1>7 DEF PlanRound, LoopInv, Active, Survivors, storeVars
<1>8. CASE DispatchWave \/ WaveRaises
  BY <1>8 DEF DispatchWave, WaveRaises, WaveReturns, LoopInv, Active, Survivors, storeVars
<1>9. ASSUME Visited
      PROVE  /\ pc \in {"loop", "solve"}
             /\ Target \in Survivors /\ Target \in Active
             /\ todo' \subseteq todo \ {Target}
             /\ Survivors' \subseteq Survivors \ {Target}
             /\ remaining' = remaining
  <2>1. pc \in {"loop", "solve"} /\ Target \in Survivors /\ Target \in Faults
    BY <1>9, TargetIsSurvivor DEF Visited, AtBody
  <2>2. todo' \subseteq todo \ {Target}
    BY <1>9, <2>1, AfterDropsTarget DEF Visited, TypeInv, TypeOK
  <2> QED BY <1>9, <2>1, <2>2 DEF Visited, LoopInv, Survivors
<1>10. CASE SatNoProgress
  <2>1. Visited /\ pc' = "loop" /\ Active' = Active
    BY Zenon, <1>10 DEF SatNoProgress, Active, storeVars
  <2> QED BY <1>9, <2>1 DEF LoopInv
<1>11. CASE SatAccepted
  <2>1. Visited /\ pc' = "append" /\ Active' = Active /\ cur'.fault = Target
    BY <1>11 DEF SatAccepted, Active, storeVars
  <2>2. Target # NoFault
    BY <1>9, <2>1, Sentinels DEF Active, InScope
  <2> QED BY SMTT(30), <1>9, <2>1, <2>2 DEF LoopInv
<1>12. CASE Unsat
  <2>1. Visited /\ pc' = "loop"
    BY <1>12 DEF Unsat
  <2>2. Active' = Active \ {Target}
    BY <1>12 DEF Unsat, MarkFaultRedundant, CertifyRedundant, Active, InScope, TypeInv, TypeOK,
      StoreTypeOK
  <2> QED BY Zenon, <1>9, <2>1, <2>2 DEF LoopInv
<1>13. CASE Timeout \/ Unknown
  <2>1. Visited /\ pc' = "loop" /\ Active' = Active
    BY ZenonT(30), <1>13 DEF Timeout, Unknown, GaveUp, Active, storeVars
  <2> QED BY <1>9, <2>1 DEF LoopInv
<1>14. CASE UNCHANGED vars
  BY Zenon, <1>14 DEF vars, storeVars, memory, LoopInv, Active, Survivors
<1> QED
  BY Zenon, <1>1, <1>2, <1>3, <1>4, <1>5, <1>6, <1>7, <1>8, <1>10, <1>11, <1>12, <1>13, <1>14
  DEF Next, Step, Enumerate, OpenRun, Preflight, RoundsExhausted, NothingLeft, RandomDone, EndRound,
      SolveRaises, CompleteRun, ZeroDenominator, Crash, PoolBreaks, Leave

-----------------------------------------------------------------------------
(* Stored evidence: holds with and without fault_drop_sat *)

LEMMA StoredInductive == TypeInv /\ StoredInv /\ [Next]_vars => StoredInv'
<1> SUFFICES ASSUME TypeInv, StoredInv, [Next]_vars PROVE StoredInv'
  OBVIOUS
<1> DEFINE SameEvidence == /\ \A f \in InScope : status'[f] = "detected" => status[f] = "detected"
                           /\ UNCHANGED <<detections, vectors, detects>>
                           /\ pc' # "grade"
<1>1. SameEvidence => StoredInv'
  BY Zenon DEF StoredInv, GradedVectorIsStored, DetectionIsBacked
<1>2. CASE AppendVector
  <2>1. /\ vectors' = vectors \cup {[run |-> run, index |-> cur.index, pattern |-> cur.pattern]}
        /\ run' = run
    <3>1. cur.index \in Nat
      BY DEF TypeInv, TypeOK
    <3> QED BY <1>2, <3>1 DEF AppendVector, AppendVectors, run
  <2>2. GradedVectorIsStored'
    <3> DEFINE row == [run |-> run, index |-> cur.index, pattern |-> cur.pattern]
    <3>1. row \in vectors' /\ row.run = run /\ row.index = cur.index /\ row.pattern = cur.pattern
      BY <2>1
    <3>2. cur' = cur
      BY <1>2 DEF AppendVector, memory
    <3> HIDE DEF row
    <3> QED BY <2>1, <3>1, <3>2 DEF GradedVectorIsStored
  <2>3. DetectionIsBacked'
    BY <1>2, <2>1 DEF AppendVector, faultCols, StoredInv, DetectionIsBacked
  <2> QED BY <2>2, <2>3 DEF StoredInv
<1>3. CASE GradeVector
  <2>1. PICK v \in vectors : v.run = run /\ v.index = cur.index /\ v.pattern = cur.pattern
    BY ZenonT(30), <1>3 DEF GradeVector, StoredInv, GradedVectorIsStored
  <2>2. detections' = detections
          \cup {[fault |-> f, run |-> run, index |-> cur.index] : f \in NewlyDetected}
    BY <1>3 DEF GradeVector, MarkFaultsDetected
  <2>3. \A f \in NewlyDetected : f \in detects[v.pattern]
    BY <2>1 DEF NewlyDetected
  <2>4. \A f \in InScope : status'[f] = "detected" => status[f] = "detected" \/ f \in NewlyDetected
    BY <1>3 DEF GradeVector, MarkFaultsDetected, InScope
  <2>5. vectors' = vectors /\ detects' = detects /\ pc' = "count"
    BY <1>3 DEF GradeVector
  <2>6. \A f \in InScope : status'[f] = "detected" => \E d \in detections' : d.fault = f
    <3> SUFFICES ASSUME NEW f \in InScope, status'[f] = "detected"
                 PROVE  \E d \in detections' : d.fault = f
      OBVIOUS
    <3>1. CASE status[f] = "detected"
      BY <2>2, <3>1 DEF StoredInv, DetectionIsBacked
    <3>2. CASE f \in NewlyDetected
      <4>1. [fault |-> f, run |-> run, index |-> cur.index] \in detections'
        BY <2>2, <3>2
      <4>2. [fault |-> f, run |-> run, index |-> cur.index].fault = f
        OBVIOUS
      <4> QED BY <4>1, <4>2
    <3> QED BY <2>4, <3>1, <3>2
  <2>7. \A d \in detections' : \E w \in vectors :
          w.run = d.run /\ w.index = d.index /\ d.fault \in detects[w.pattern]
    BY <2>1, <2>2, <2>3 DEF StoredInv, DetectionIsBacked
  <2> QED BY <2>5, <2>6, <2>7 DEF StoredInv, GradedVectorIsStored, DetectionIsBacked
<1>4. CASE Enumerate \/ OpenRun \/ Preflight
  <2>1. \A f \in InScope : status'[f] = "detected" => status[f] = "detected"
    <3>1. CASE Enumerate
      BY <3>1 DEF Enumerate, InsertFaultsIfEmpty, InScope
    <3>2. CASE OpenRun
      BY <3>2 DEF OpenRun, InvalidateStaleRedundant, InScope
    <3>3. CASE Preflight
      BY Zenon, <3>3 DEF Preflight, PrecertifyRedundant, CertifyRedundant, InScope
    <3> QED BY <1>4, <3>1, <3>2, <3>3
  <2>2. UNCHANGED <<detections, vectors, detects>> /\ pc' # "grade"
    BY ZenonT(30), <1>4 DEF Enumerate, OpenRun, Preflight
  <2> QED BY <1>1, <2>1, <2>2
<1>5. CASE Unsat
  <2>1. SameEvidence
    BY Zenon, <1>5 DEF Unsat, Visited, MarkFaultRedundant, CertifyRedundant, InScope
  <2> QED BY Zenon, <1>1, <2>1
<1>6. CASE \/ RoundsExhausted \/ NothingLeft \/ BeginRound \/ NextRandom \/ RandomDone
           \/ CountVector \/ PlanRound \/ EndRound
  <2>1. SameEvidence
    BY Zenon, <1>6 DEF RoundsExhausted, NothingLeft, BeginRound, NextRandom, RandomDone, CountVector,
      PlanRound, EndRound, storeVars, faultCols
  <2> QED BY <1>1, <2>1
<1>7. CASE \/ DispatchWave \/ WaveRaises \/ SatNoProgress \/ SatAccepted \/ Timeout \/ Unknown
  <2>1. CASE DispatchWave \/ WaveRaises
    BY <1>1, <2>1 DEF DispatchWave, WaveRaises, WaveReturns, storeVars
  <2>2. CASE SatNoProgress \/ SatAccepted
    BY Zenon, <1>1, <2>2 DEF SatNoProgress, SatAccepted, Visited, storeVars
  <2>3. CASE Timeout \/ Unknown
    BY SMTT(30), <1>1, <2>3 DEF Timeout, Unknown, GaveUp, Visited, storeVars
  <2> QED BY <1>7, <2>1, <2>2, <2>3
<1>8. CASE SolveRaises \/ CompleteRun \/ ZeroDenominator \/ Crash \/ PoolBreaks
  <2>1. SameEvidence
    BY <1>8 DEF SolveRaises, CompleteRun, ZeroDenominator, Crash, PoolBreaks, Leave, storeVars,
      faultCols
  <2> QED BY <1>1, <2>1
<1>9. CASE UNCHANGED vars
  BY Zenon, <1>9 DEF vars, storeVars, memory, StoredInv, GradedVectorIsStored, DetectionIsBacked, run
<1> QED BY <1>2, <1>3, <1>4, <1>5, <1>6, <1>7, <1>8, <1>9 DEF Next, Step

-----------------------------------------------------------------------------
(* The store's columns, under the loop *)

\* The steps that write a fault's row are transactions of FaultStore.
LEMMA NativeKeepsStore == TypeInv /\ TypeInv' /\ StoreInv /\ [Next]_vars => StoreInv'
<1> SUFFICES ASSUME TypeInv, TypeInv', StoreInv, [Next]_vars PROVE StoreInv'
  OBVIOUS
<1>t. StoreTypeOK /\ StoreTypeOK'
  BY DEF TypeInv, TypeOK
<1>1. ASSUME UNCHANGED <<status, unresolved, detBy, certModel, detections>> PROVE StoreInv'
  BY Zenon, <1>t, <1>1 DEF StoreInv, RedundantIsCertified, DetectionHasEvidence, UnresolvedNotDetected
<1>2. CASE Enumerate
  BY <1>2, StoreInvInductive DEF Enumerate, StoreNext, DoInsertFaults
<1>3. CASE OpenRun
  <2>1. InvalidateStaleRedundant(Model) /\ UNCHANGED detections
    BY <1>3 DEF OpenRun
  <2> QED BY <1>t, <2>1, NoModelIsNull, ModelIsKnown DEF InvalidateStaleRedundant, StoreInv, StoreTypeOK,
        RedundantIsCertified, DetectionHasEvidence, UnresolvedNotDetected
<1>4. CASE Preflight
  <2>1. PICK S \in SUBSET Faults : CertifyRedundant(S \cap InScope, Model)
    BY <1>4 DEF Preflight, PrecertifyRedundant
  <2>2. S \cap InScope \in SUBSET Faults
    OBVIOUS
  <2> QED BY <1>4, <2>1, <2>2, ModelIsKnown, CertifyKeepsStoreInv DEF Preflight
<1>5. CASE GradeVector
  <2>1. run \in Nat \ {0} /\ cur.index \in Nat \ {0}
    BY Zenon, <1>5, RunIsRow DEF GradeVector, TypeInv, TypeOK, ControlInv, Accepting
  <2>2. NewlyDetected \in SUBSET Faults
    BY DEF NewlyDetected, LiveRecords, InScope
  <2> QED BY <1>5, <2>1, <2>2, DetectKeepsStoreInv DEF GradeVector
<1>6. CASE Unsat
  <2>1. Target \in Faults
    BY <1>6, TargetIsSurvivor DEF Unsat, Visited
  <2> QED BY <1>6, <2>1, ModelIsKnown, CertifyKeepsStoreInv DEF Unsat, MarkFaultRedundant
<1>7. CASE \/ RoundsExhausted \/ NothingLeft \/ BeginRound \/ NextRandom \/ RandomDone
           \/ AppendVector \/ CountVector \/ PlanRound \/ EndRound
  BY ZenonT(30), <1>1, <1>7 DEF RoundsExhausted, NothingLeft, BeginRound, NextRandom, RandomDone, AppendVector,
    CountVector, PlanRound, EndRound, storeVars, faultCols
<1>8. CASE DispatchWave \/ WaveRaises \/ SatNoProgress \/ SatAccepted \/ Timeout \/ Unknown
  BY <1>1, <1>8 DEF DispatchWave, WaveRaises, WaveReturns, SatNoProgress, SatAccepted, Timeout,
    Unknown, GaveUp, storeVars
<1>9. CASE SolveRaises \/ CompleteRun \/ ZeroDenominator \/ Crash \/ PoolBreaks \/ UNCHANGED vars
  BY <1>1, <1>9 DEF SolveRaises, CompleteRun, ZeroDenominator, Crash, PoolBreaks, storeVars,
    faultCols, vars
<1> QED BY <1>2, <1>3, <1>4, <1>5, <1>6, <1>7, <1>8, <1>9 DEF Next, Step

-----------------------------------------------------------------------------
(* The walk over active_ids *)

\* A fault of active_ids still active is ahead of the walk, or was visited in this
\* round with a verdict that says why it stays.
VisitInv ==
  /\ InSatLoop => \A f \in Active :
       \/ f \in Survivors
       \/ satOut[f] # "none"
       \/ rejected[f] # {} /\ "protocol_no_progress" \in outcomes
       \/ Accepting /\ f = cur.fault
  /\ Accepting /\ cur.fault # NoFault => cur.fault \in detects[cur.pattern]
  /\ pc = "count" /\ cur.fault # NoFault => cur.fault \notin Active

\* The loop's next fault comes before every other one it chooses from.
LEMMA FirstIsLeast ==
  ASSUME NEW S \in SUBSET Faults, S # {}
  PROVE  First(S) \in S /\ \A g \in S \ {First(S)} : Before(First(S), g)
<1> SUFFICES \E f \in S : \A g \in S \ {f} : Before(f, g)
  BY DEF First
<1> DEFINE T == IF S \subseteq Reconv THEN S ELSE S \ Reconv
<1>1. T \in SUBSET Nat /\ T # {}
  BY Zenon, FaultIdsAreOrdered
<1>2. PICK f \in T : \A g \in T \ {f} : f < g
  BY Zenon, <1>1, LeastNatural
<1> QED BY <1>2 DEF Before

\* A visit moves the walk past its target and past nothing else it would stop at.
LEMMA VisitPassesTarget ==
  ASSUME TypeInv, Visited
  PROVE  /\ Target \in Survivors /\ Target \in Faults
         /\ Survivors' = Survivors \ {Target}
<1>1. AtBody /\ todo' = After(todo, Target) /\ remaining' = remaining
  BY DEF Visited
<1>2. Target \in Survivors /\ Target \in Faults /\ Survivors \subseteq Faults
  BY <1>1, TargetIsSurvivor DEF Survivors, TypeInv, TypeOK
<1>3. \A g \in Survivors \ {Target} : Before(Target, g)
  BY <1>2, FirstIsLeast DEF Target
<1>4. Target \notin todo'
  BY <1>1, <1>2, AfterDropsTarget DEF TypeInv, TypeOK
<1> QED BY <1>1, <1>2, <1>3, <1>4 DEF Survivors, After

LEMMA VisitInductive ==
  TypeInv /\ TypeInv' /\ LoopInv /\ LoopInv' /\ VisitInv /\ [Next]_vars => VisitInv'
<1> SUFFICES ASSUME TypeInv, TypeInv', LoopInv, LoopInv', VisitInv, [Next]_vars PROVE VisitInv'
  OBVIOUS
<1> USE DEF InSatLoop, Accepting
<1>1. CASE pc' \notin {"append", "grade", "count", "loop", "solve"}
  BY <1>1 DEF VisitInv
<1>2. CASE NextRandom
  BY ZenonT(30), <1>2 DEF NextRandom, VisitInv
<1>3. CASE AppendVector
  BY <1>3 DEF AppendVector, VisitInv, Active, Survivors, faultCols, memory
<1>4. CASE GradeVector
  <2>1. CASE cur.fault = NoFault
    BY ZenonT(30), <1>4, <2>1 DEF GradeVector, VisitInv
  <2>2. CASE cur.fault # NoFault
    <3>1. Active' = {f \in Active : f \notin GradeIds \/ f \notin detects[cur.pattern]}
      BY <1>4, GradeEffect
    <3>2. cur.fault \in detects[cur.pattern] /\ UNCHANGED <<cur, detects, satOut, rejected, outcomes, todo>>
      BY ZenonT(30), <1>4, <2>2 DEF GradeVector, VisitInv
    <3>3. cur.fault \notin Active'
      BY ZenonT(30), <2>2, <3>1, <3>2, <1>4 DEF GradeIds, LoopInv, GradeVector
    <3>4. \A f \in Active' : f \in Survivors => f \in Survivors'
      BY ZenonT(30), <1>4, <2>2, <3>1 DEF Survivors, LoopInv, GradeVector
    <3>5. \A f \in Active' : \/ f \in Survivors' \/ satOut[f] # "none"
                             \/ rejected[f] # {} /\ "protocol_no_progress" \in outcomes
      BY ZenonT(30), <1>4, <2>2, <3>1, <3>3, <3>4 DEF VisitInv, GradeVector
    <3> QED BY Zenon, <1>4, <3>2, <3>3, <3>5 DEF VisitInv, GradeVector
  <2> QED BY <2>1, <2>2
<1>5. CASE CountVector
  <2>1. CASE cur.fault = NoFault
    BY ZenonT(30), <1>5, <2>1 DEF CountVector, VisitInv
  <2>2. CASE cur.fault # NoFault
    <3>1. /\ Active' = Active /\ Survivors' = Survivors /\ UNCHANGED <<satOut, rejected>>
          /\ outcomes \subseteq outcomes' /\ pc' = "loop" /\ cur.fault \notin Active
      BY ZenonT(30), <1>5, <2>2 DEF CountVector, Active, Survivors, faultCols, VisitInv
    <3> QED BY <1>5, <2>2, <3>1 DEF VisitInv, CountVector
  <2> QED BY <2>1, <2>2
<1>6. CASE PlanRound
  <2>1. Active' = Active /\ Survivors' = Active /\ pc' = "loop"
    BY <1>6 DEF PlanRound, Active, Survivors, storeVars
  <2> QED BY ZenonT(30), <2>1 DEF VisitInv
<1>7. CASE DispatchWave \/ WaveRaises
  <2>1. /\ Active' = Active /\ Survivors' = Survivors /\ pc' = "solve" /\ pc = "loop"
        /\ UNCHANGED <<satOut, rejected, outcomes>>
    BY ZenonT(30), <1>7 DEF DispatchWave, WaveRaises, WaveReturns, Active, Survivors, storeVars
  <2> QED BY Zenon, <2>1 DEF VisitInv
<1>8. CASE SatNoProgress
  <2>1. /\ Visited /\ pc' = "loop" /\ Active' = Active /\ satOut' = satOut
        /\ outcomes' = outcomes \cup {"protocol_no_progress"}
    BY ZenonT(30), <1>8 DEF SatNoProgress, Active, storeVars
  <2>2. PICK p \in Patterns : rejected' = [rejected EXCEPT ![Target] = @ \cup {p}]
    BY Zenon, <1>8 DEF SatNoProgress
  <2>3. Survivors' = Survivors \ {Target} /\ Target \in Faults /\ pc \in {"loop", "solve"}
    BY <2>1, VisitPassesTarget DEF Visited, AtBody
  <2>4. rejected'[Target] # {} /\ \A f \in Faults : rejected[f] \subseteq rejected'[f]
    BY <2>2, <2>3 DEF TypeInv, TypeOK
  <2>5. Active \subseteq Faults
    BY DEF Active, InScope
  <2> QED BY ZenonT(30), <2>1, <2>3, <2>4, <2>5 DEF VisitInv
<1>9. CASE SatAccepted
  <2>1. /\ Visited /\ pc' = "append" /\ Active' = Active
        /\ UNCHANGED <<satOut, rejected, outcomes, detects>>
    BY ZenonT(30), <1>9 DEF SatAccepted, Active, storeVars, Visited
  <2>2. cur'.fault = Target /\ Target \in detects[cur'.pattern]
    <3>1. PICK p \in Patterns : /\ Target \in detects[p]
                                /\ cur' = [fault |-> Target, pattern |-> p, index |-> Len(tests) + 1]
      BY ZenonT(30), <1>9 DEF SatAccepted
    <3>2. cur'.fault = Target /\ cur'.pattern = p
      BY <3>1
    <3> QED BY <3>1, <3>2
  <2>3. Survivors' = Survivors \ {Target} /\ Target \in Faults /\ pc \in {"loop", "solve"}
    BY <2>1, VisitPassesTarget DEF Visited, AtBody
  <2> QED BY ZenonT(30), <2>1, <2>2, <2>3 DEF VisitInv
<1>10. CASE Unsat
  <2>1. /\ Visited /\ pc' = "loop" /\ MarkFaultRedundant(Target, Model)
        /\ UNCHANGED <<satOut, rejected, outcomes>>
    BY <1>10 DEF Unsat
  <2>3. /\ Survivors' = Survivors \ {Target} /\ Target \in Faults /\ Target \in Survivors
        /\ pc \in {"loop", "solve"}
    BY <2>1, VisitPassesTarget DEF Visited, AtBody
  <2>4. Active' \subseteq Active \ {Target}
    BY ZenonT(30), <2>1, <2>3 DEF MarkFaultRedundant, CertifyRedundant, Active, InScope, TypeInv, TypeOK,
      StoreTypeOK, LoopInv
  <2> QED BY Zenon, <2>1, <2>3, <2>4 DEF VisitInv
<1>11. CASE Timeout \/ Unknown
  <2>1. PICK row \in {"timeout", "unknown"} :
          /\ Visited /\ pc' = "loop" /\ Active' = Active /\ rejected' = rejected
          /\ satOut' = [satOut EXCEPT ![Target] = row] /\ outcomes \subseteq outcomes'
    BY Zenon, <1>11 DEF Timeout, Unknown, GaveUp, Active, storeVars
  <2>2. Survivors' = Survivors \ {Target} /\ Target \in Faults /\ pc \in {"loop", "solve"}
    BY <2>1, VisitPassesTarget DEF Visited, AtBody
  <2>3. satOut'[Target] # "none" /\ \A f \in Faults \ {Target} : satOut'[f] = satOut[f]
    BY <2>1, <2>2 DEF TypeInv, TypeOK
  <2>4. Active \subseteq Faults
    BY ZenonT(30) DEF Active, InScope
  <2> QED BY ZenonT(30), <2>1, <2>2, <2>3, <2>4 DEF VisitInv
<1>12. CASE UNCHANGED vars
  BY ZenonT(30), <1>12 DEF vars, memory, storeVars, VisitInv, Active, Survivors
<1>13. CASE \/ Enumerate \/ OpenRun \/ Preflight \/ RoundsExhausted \/ NothingLeft \/ BeginRound
            \/ RandomDone \/ EndRound
  BY ZenonT(30), <1>1, <1>13 DEF Enumerate, OpenRun, Preflight, RoundsExhausted, NothingLeft, BeginRound,
    RandomDone, EndRound
<1>14. CASE SolveRaises \/ CompleteRun \/ ZeroDenominator \/ Crash \/ PoolBreaks
  BY <1>1, <1>14 DEF SolveRaises, CompleteRun, ZeroDenominator, Crash, PoolBreaks, Leave
<1> QED BY <1>2, <1>3, <1>4, <1>5, <1>6, <1>7, <1>8, <1>9, <1>10, <1>11, <1>12, <1>13, <1>14
      DEF Next, Step
=============================================================================
