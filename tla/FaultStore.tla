----------------------------- MODULE FaultStore -----------------------------
(***************************************************************************)
(* The SQLite campaign store: the tables faults, runs, vectors,            *)
(* fault_detections and fault_sat_outcomes of one campaign, and the        *)
(* transactions of src/core/db/sqlite_store.cpp (and of the two Python      *)
(* writers that share its tables) over them.  Every operator whose name is *)
(* a function of the store is ONE transaction: SQLite makes it atomic, so  *)
(* a crash falls between two of them, never inside one.                    *)
(*                                                                         *)
(* A column no property tells apart (names, net ids, timestamps) is left   *)
(* out.  A fault row that has not been inserted yet has status "absent".   *)
(***************************************************************************)
EXTENDS Integers, Sequences, FiniteSets

CONSTANTS
  Faults,     \* fault ids: every stuck-at fault the enumerator returns
  Excluded,   \* those with exclusion # 'none' (clock, reset, blackbox, ...)
  Collapsed,  \* those with collapsed_into set (a class representative stands for them)
  Patterns,   \* primary-input assignments
  Models,     \* redundancy model ids
  NoModel,    \* SQL NULL in redundancy_model_id
  MaxRuns,    \* bound on the rows of the runs table
  MaxIndex    \* bound on vector_index

ASSUME FaultSets == Excluded \subseteq Faults /\ Collapsed \subseteq Faults
ASSUME Disjoint == Excluded \cap Collapsed = {}
ASSUME NoModelIsNull == NoModel \notin Models
ASSUME BoundsAreNat == MaxRuns \in Nat /\ MaxIndex \in Nat

VARIABLES
  status,      \* faults.status
  unresolved,  \* faults.protocol_unresolved
  detBy,       \* faults.detected_by_vector, 0 for NULL
  certModel,   \* faults.redundancy_model_id
  runs,        \* the runs table, in rowid order
  vectors,     \* the vectors table: rows [run, index, pattern]
  detections,  \* the fault_detections table: rows [fault, run, index]
  satOutcome   \* fault_sat_outcomes.outcome, "none" for no row

faultCols == <<status, unresolved, detBy, certModel>>
storeVars == <<status, unresolved, detBy, certModel, runs, vectors,
               detections, satOutcome>>

Statuses == {"absent", "undetected", "detected", "redundant", "excluded"}
Terminals == {"none", "COMPLETE", "THRESHOLD_MET", "STALLED", "MAX_ROUNDS",
              "RANDOM_ONLY"}

\* A row of runs.  The stored percentage is kept as the fraction it came from.
Runs == [status: {"running", "complete", "aborted"}, count: Nat, terminal: Terminals,
         detected: Nat, denominator: Nat]

VectorRows == [run: Nat \ {0}, index: Nat \ {0}, pattern: Patterns]
DetectionRows == [fault: Faults, run: Nat \ {0}, index: Nat \ {0}]

-----------------------------------------------------------------------------
(* Queries *)

InScope == Faults \ (Excluded \cup Collapsed)

\* The rows that exist: an id reaches a transaction only from a row read before.
Rows == {f \in Faults : status[f] # "absent"}

\* _active_fault_rows: what the ATPG loops still have to target.
Active == {f \in InScope : status[f] = "undetected" /\ ~unresolved[f]}

\* load_active_fault_records, over the ids it is given and the LIVE rows.
LiveRecords(ids, skipUnresolved) ==
  {f \in ids : /\ f \in InScope
               /\ status[f] = "undetected"
               /\ ~(skipUnresolved /\ unresolved[f])}

\* _fault_counts and summary: detected, redundant, and the denominator of
\* test coverage (redundant faults leave it; unresolved ones do not).
DetectedFaults == {f \in InScope : status[f] = "detected"}
RedundantFaults == {f \in InScope : status[f] = "redundant"}
Denominator == Cardinality(InScope \ RedundantFaults)
FaultCounts == <<Cardinality(DetectedFaults), Cardinality(RedundantFaults)>>

\* coverage_percent >= pct, NULL (denominator 0) never being so.
CoverageReaches(pct) ==
  Denominator # 0 /\ 100 * Cardinality(DetectedFaults) >= pct * Denominator

-----------------------------------------------------------------------------
(* Transactions on the faults table *)

\* Mutant: a resumed campaign inserts its rows again.
InsertFaultsAlways ==
  /\ status' = [f \in Faults |-> IF f \in Excluded THEN "excluded" ELSE "undetected"]
  /\ UNCHANGED <<unresolved, detBy, certModel>>

\* insert_faults_if_empty: nothing if the campaign already has rows.
InsertFaultsIfEmpty ==
  /\ status' = IF Rows # {}
                 THEN status
                 ELSE [f \in Faults |->
                         IF f \in Excluded THEN "excluded" ELSE "undetected"]
  /\ UNCHANGED <<unresolved, detBy, certModel>>

\* Mutant: the detection row carries the index counted from 0.
MarkFaultsDetectedZeroBased(r, i, S) ==
  LET hit == {f \in S : status[f] = "undetected"} IN
  /\ status' = [f \in Faults |-> IF f \in hit THEN "detected" ELSE status[f]]
  /\ detBy' = [f \in Faults |-> IF f \in hit THEN i ELSE detBy[f]]
  /\ unresolved' = [f \in Faults |-> unresolved[f] /\ f \notin hit]
  /\ detections' = detections \cup {[fault |-> f, run |-> r, index |-> i - 1] : f \in S}
  /\ UNCHANGED certModel

\* mark_faults_detected: a guarded UPDATE per fault, then an unconditional
\* INSERT OR IGNORE of the detection row, all in one transaction.
MarkFaultsDetected(r, i, S) ==
  LET hit == {f \in S : status[f] = "undetected"} IN
  /\ status' = [f \in Faults |-> IF f \in hit THEN "detected" ELSE status[f]]
  /\ detBy' = [f \in Faults |-> IF f \in hit THEN i ELSE detBy[f]]
  /\ unresolved' = [f \in Faults |-> unresolved[f] /\ f \notin hit]
  /\ detections' = detections \cup {[fault |-> f, run |-> r, index |-> i] : f \in S}
  /\ UNCHANGED certModel

\* The UPDATE of mark_fault_redundant and of _precertify_redundant: S is the
\* set of ids it is run for, eligible the part its WHERE clause lets through.
CertifyRedundant(S, m) ==
  LET hit == {f \in S : status[f] = "undetected"} IN
  /\ status' = [f \in Faults |-> IF f \in hit THEN "redundant" ELSE status[f]]
  /\ certModel' = [f \in Faults |-> IF f \in hit THEN m ELSE certModel[f]]
  /\ detBy' = [f \in Faults |-> IF f \in hit THEN 0 ELSE detBy[f]]
  /\ UNCHANGED unresolved

MarkFaultRedundant(f, m) == CertifyRedundant({f}, m)

\* Phase B ids come from net ids over ALL campaign faults.
PrecertifyRedundant(S, m) == CertifyRedundant(S \cap InScope, m)

\* mark_fault_protocol_unresolved: anything but a detected fault.
MarkFaultProtocolUnresolved(f) ==
  /\ unresolved' = [unresolved EXCEPT ![f] = @ \/ status[f] # "detected"]
  /\ UNCHANGED <<status, detBy, certModel>>

\* Mutant: every certificate is dropped.
InvalidateAll(m) ==
  /\ status' = [f \in Faults |-> IF status[f] = "redundant" THEN "undetected" ELSE status[f]]
  /\ certModel' = [f \in Faults |-> NoModel]
  /\ UNCHANGED <<unresolved, detBy>>

\* invalidate_stale_redundant: certificates of another model, or of none.
InvalidateStaleRedundant(m) ==
  LET stale == {f \in Faults : status[f] = "redundant" /\ certModel[f] # m} IN
  /\ status' = [f \in Faults |-> IF f \in stale THEN "undetected" ELSE status[f]]
  /\ certModel' = [f \in Faults |-> IF f \in stale THEN NoModel ELSE certModel[f]]
  /\ UNCHANGED <<unresolved, detBy>>

-----------------------------------------------------------------------------
(* Transactions on the other tables *)

NewRun == [status |-> "running", count |-> 0, terminal |-> "none",
           detected |-> 0, denominator |-> 0]

StartRun == runs' = Append(runs, NewRun)

\* Mutant: the index is advanced twice.
AppendVectorsPlusOne(r, start, pats) ==
  vectors' = vectors \cup {[run |-> r, index |-> start + k, pattern |-> pats[k]]
                             : k \in DOMAIN pats}

AppendVectors(r, start, pats) ==
  vectors' = vectors \cup {[run |-> r, index |-> start + k - 1, pattern |-> pats[k]]
                             : k \in DOMAIN pats}

UpdateRunVectorCount(r, n) == runs' = [runs EXCEPT ![r].count = n]

CompleteRunWithAtpg(r, reason) ==
  runs' = [runs EXCEPT ![r].status = "complete",
                       ![r].terminal = reason,
                       ![r].detected = Cardinality(DetectedFaults),
                       ![r].denominator = Denominator]

\* record_sat_outcomes: UPSERT of this round's outcomes, older rows stay.
RecordSatOutcomes(out) ==
  satOutcome' = [f \in Faults |-> IF out[f] = "none" THEN satOutcome[f] ELSE out[f]]

-----------------------------------------------------------------------------
(* The store under arbitrary callers: any transaction, any argument. *)

StoreInit ==
  /\ status = [f \in Faults |-> "absent"]
  /\ unresolved = [f \in Faults |-> FALSE]
  /\ detBy = [f \in Faults |-> 0]
  /\ certModel = [f \in Faults |-> NoModel]
  /\ runs = <<>>
  /\ vectors = {}
  /\ detections = {}
  /\ satOutcome = [f \in Faults |-> "none"]

DoInsertFaults == InsertFaultsIfEmpty /\ UNCHANGED <<runs, vectors, detections, satOutcome>>

DoMarkDetected ==
  \E r \in DOMAIN runs, i \in 1..MaxIndex, S \in SUBSET Rows :
    /\ MarkFaultsDetected(r, i, S)
    /\ UNCHANGED <<runs, vectors, satOutcome>>

DoMarkRedundant ==
  \E f \in Rows, m \in Models :
    MarkFaultRedundant(f, m) /\ UNCHANGED <<runs, vectors, detections, satOutcome>>

DoPrecertify ==
  \E S \in SUBSET Rows, m \in Models :
    PrecertifyRedundant(S, m) /\ UNCHANGED <<runs, vectors, detections, satOutcome>>

DoMarkUnresolved ==
  \E f \in Rows :
    MarkFaultProtocolUnresolved(f) /\ UNCHANGED <<runs, vectors, detections, satOutcome>>

DoInvalidate ==
  \E m \in Models :
    InvalidateStaleRedundant(m) /\ UNCHANGED <<runs, vectors, detections, satOutcome>>

DoStartRun ==
  /\ Len(runs) < MaxRuns
  /\ StartRun
  /\ UNCHANGED <<faultCols, vectors, detections, satOutcome>>

StoreNext ==
  \/ DoInsertFaults \/ DoMarkDetected \/ DoMarkRedundant \/ DoPrecertify
  \/ DoMarkUnresolved \/ DoInvalidate \/ DoStartRun

StoreSpec == StoreInit /\ [][StoreNext]_storeVars

-----------------------------------------------------------------------------
(* Properties *)

\* Every column holds a value of its domain (bind_fault_insert, SCHEMA_V3).
StoreTypeOK ==
  /\ status \in [Faults -> Statuses]
  /\ unresolved \in [Faults -> BOOLEAN]
  /\ detBy \in [Faults -> Nat]
  /\ certModel \in [Faults -> Models \cup {NoModel}]
  /\ runs \in Seq(Runs)
  /\ vectors \subseteq VectorRows
  /\ detections \subseteq DetectionRows
  /\ satOutcome \in [Faults -> {"none", "timeout", "unknown"}]

\* A fault is redundant exactly while it carries the model id its certificate was
\* issued under, so invalidate_stale_redundant can judge every certificate.
RedundantIsCertified ==
  \A f \in Faults : status[f] = "redundant" <=> certModel[f] # NoModel

\* detected_by_vector is set exactly on the detected faults, and a row of
\* fault_detections of some run vouches for that very vector index.
DetectionHasEvidence ==
  \A f \in Faults :
    /\ status[f] = "detected" <=> detBy[f] # 0
    /\ status[f] = "detected" =>
         \E d \in detections : d.fault = f /\ d.index = detBy[f]

\* protocol_unresolved never marks a detected fault: whichever of the two updates
\* comes last, mark_faults_detected clears the flag and
\* mark_fault_protocol_unresolved refuses a detected row.
UnresolvedNotDetected ==
  \A f \in Faults : unresolved[f] => status[f] # "detected"

\* No transaction, however late, takes a detection back or rewrites which vector
\* made it (the guard comment of mark_fault_redundant).
DetectionIsFinal ==
  [][\A f \in Faults : status[f] = "detected" =>
       status'[f] = "detected" /\ detBy'[f] = detBy[f]]_storeVars
=============================================================================
