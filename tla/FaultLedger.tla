---------------------------- MODULE FaultLedger ----------------------------
(***************************************************************************)
(* What an ATPG campaign promises: a ledger of in-scope faults that only   *)
(* ever moves a fault from open to detected, on the strength of a stored   *)
(* test that detects it, or from open to redundant, when no pattern at all *)
(* detects it.  Nothing is said of how tests are found, in which order, by *)
(* how many processes, or how often the campaign is interrupted.           *)
(***************************************************************************)
CONSTANTS Faults, Patterns

VARIABLES detects,  \* the netlist: the faults each pattern detects
          ledger,   \* the verdict on each fault
          stored    \* the patterns of the test set

ledgerVars == <<detects, ledger, stored>>

Undetectable(f) == \A p \in Patterns : f \notin detects[p]

LedgerInit ==
  /\ detects \in [Patterns -> SUBSET Faults]
  /\ ledger = [f \in Faults |-> "open"]
  /\ stored = {}

Store(p) == stored' = stored \cup {p} /\ UNCHANGED <<detects, ledger>>

\* Any number of open faults at once: one vector is graded against many.
Settle(S, verdict) ==
  /\ S # {}
  /\ \A f \in S : ledger[f] = "open"
  /\ ledger' = [f \in Faults |-> IF f \in S THEN verdict ELSE ledger[f]]
  /\ UNCHANGED <<detects, stored>>

Credit(S) ==
  /\ \E p \in stored : S \subseteq detects[p]
  /\ Settle(S, "detected")

Certify(S) ==
  /\ \A f \in S : Undetectable(f)
  /\ Settle(S, "redundant")

LedgerNext ==
  \/ \E p \in Patterns : Store(p)
  \/ \E S \in SUBSET Faults : Credit(S) \/ Certify(S)

LedgerSpec == LedgerInit /\ [][LedgerNext]_ledgerVars

-----------------------------------------------------------------------------
(* What the promise amounts to *)

LedgerTypeOK ==
  /\ detects \in [Patterns -> SUBSET Faults]
  /\ ledger \in [Faults -> {"open", "detected", "redundant"}]
  /\ stored \subseteq Patterns

\* Coverage can be trusted: the stored test set really detects every fault
\* counted as detected, and no fault taken out of the denominator is testable.
LedgerSound ==
  \A f \in Faults :
    /\ ledger[f] = "detected" => \E p \in stored : f \in detects[p]
    /\ ledger[f] = "redundant" => Undetectable(f)
=============================================================================
