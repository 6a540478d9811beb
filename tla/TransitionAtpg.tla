--------------------------- MODULE TransitionAtpg ---------------------------
(***************************************************************************)
(* run_progressive_transition_atpg: the broadside two-pattern twin of the  *)
(* stuck-at loop.  A pattern of NativeAtpg stands for a (launch, capture)  *)
(* pair, keyed by launch||capture.  The twin has no preflight and no       *)
(* random stop, visits faults in id order, and draws its random batch, from *)
(* the same seed, in EVERY round: it has no switched_to_sat.  What the two *)
(* loops do alike is taken from NativeAtpg; the refinement at the end says *)
(* that the rest makes no difference.                                      *)
(***************************************************************************)
EXTENDS NativeAtpg

\* No reconvergence seed, no random stop, no wrapper-stimulus keys.
NoStuckAtFeatures == Reconv = {} /\ RandomStopPct = 0 /\ ~ExtraKeys

VARIABLE drawn   \* atpg_random_vector_pairs for ATPGRANDOM_SEED: always the same list

tvars == <<vars, drawn>>

TInit ==
  /\ NoStuckAtFeatures
  /\ Init
  /\ drawn \in UNION {[1..n -> Patterns] : n \in 0..RandomVectors}

\* _append_unique_pairs: the first occurrence of each pair not seen before.
Unseen(batch) ==
  LET new == {k \in DOMAIN batch : /\ batch[k] \notin seen
                                   /\ \A j \in 1..k - 1 : batch[j] # batch[k]} IN
  [i \in 1..Cardinality(new) |->
     batch[CHOOSE k \in new : Cardinality({j \in new : j < k}) = i - 1]]

\* There is no preflight to wait for.
TNoPreflight ==
  /\ pc = "preflight"
  /\ pc' = "round"
  /\ UNCHANGED <<storeVars, detects, memory>>

\* Mutant: the batch is not compared with the pairs of earlier rounds.
TBeginRoundAgain ==
  /\ pc = "round" /\ round < MaxRounds /\ Active # {}
  /\ round' = round + 1
  /\ prev' = FaultCounts
  /\ active' = Active
  /\ outcomes' = {}
  /\ tests' = tests \o drawn
  /\ seen' = seen \cup {drawn[k] : k \in DOMAIN drawn}
  /\ pc' = "random"
  /\ UNCHANGED <<storeVars, detects, parallel, randomOnly, switched, graded, rejected, timeouts,
                 todo, remaining, undispatched, results, satOut, cur, terminal, tried>>

\* The head of every round draws the batch again; switched says only that the first
\* round has been through it.
TBeginRound ==
  /\ pc = "round" /\ round < MaxRounds /\ Active # {}
  /\ round' = round + 1
  /\ prev' = FaultCounts
  /\ active' = Active
  /\ outcomes' = {}
  /\ LET new == Unseen(drawn) IN
       /\ tests' = tests \o new
       /\ seen' = seen \cup {new[k] : k \in DOMAIN new}
       /\ pc' = IF new = <<>> /\ switched THEN "plan" ELSE "random"
  /\ UNCHANGED <<storeVars, detects, parallel, randomOnly, switched, graded, rejected, timeouts,
                 todo, remaining, undispatched, results, satOut, cur, terminal, tried>>

\* _accept_and_simulate_transition: the same three transactions.
TAccept == AppendVector \/ GradeVector \/ CountVector

TWave == DispatchWave \/ WaveRaises

TVisit == SatNoProgress \/ SatAccepted \/ Unsat \/ Timeout \/ Unknown

TEndRound == EndRound

TFinish == CompleteRun \/ ZeroDenominator

TStep ==
  \/ OpenRun \/ TNoPreflight \/ RoundsExhausted \/ NothingLeft
  \/ TBeginRound \/ NextRandom \/ RandomDone
  \/ TAccept \/ PlanRound \/ TWave \/ TVisit \/ TEndRound \/ TFinish

TNext == (Enumerate \/ TStep \/ Crash \/ PoolBreaks) /\ UNCHANGED drawn

TSpec == TInit /\ [][TNext]_tvars

TFairSpec == TSpec /\ WF_tvars(TStep /\ UNCHANGED drawn)

-----------------------------------------------------------------------------
(* Properties *)

\* The twin is the stuck-at loop, run as fairly: a batch drawn again is wholly in
\* seen_patterns, so from the second round on nothing is appended, graded or numbered,
\* and every step is a step of NativeAtpg.  What is proved of that loop holds of this
\* one, and every transition invocation ends, as that loop's do.
KeepsNativeLoop == FairSpec
=============================================================================
