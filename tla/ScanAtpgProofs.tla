--------------------------- MODULE ScanAtpgProofs ---------------------------
(***************************************************************************)
(* Scan campaigns, for every netlist, number of faults, patterns, rounds   *)
(* and runs, every interleaving of failed gates, waves that raise and      *)
(* crashes, stuck-at and transition alike.                                 *)
(*                                                                         *)
(* Bookkeeping.  The inductive invariant ScanInv adds to the types         *)
(* ControlInv (the run row, the candidate in hand, the reason to stop),    *)
(* RowInv (which fault may carry which verdict) and LoopInv (the round's   *)
(* sets against the store).  AtomicInv counts, run by run, what the commit *)
(* transaction writes to the candidate and vector tables.  Nothing of this *)
(* assumes that the two engines agree.                                     *)
(*                                                                         *)
(* Certificates and blocked patterns.  BlockedInv and SoundInv say what    *)
(* the patterns the loop has seen, rejected or blocked do not expose, as   *)
(* the tester applies them, provided the bit-parallel engine agrees with   *)
(* the golden one.                                                         *)
(***************************************************************************)
EXTENDS ScanAtpg, TLAPS, FiniteSetTheorems

CandidateRows == [run : Nat \ {0}, id : Nat \ {0}, pattern : Patterns, target : Faults \cup {NoFault},
                  status : {"pending", "accepted", "rejected", "aborted"}]
BlockedRows == [fault : Faults, pattern : Patterns]

\* The local variables of an invocation.
Mems ==
  [randomOnly : BOOLEAN, round : Nat, switched : BOOLEAN,
   batch : Seq(Patterns), graded : Nat, seen : SUBSET Patterns,
   rejected : [Faults -> SUBSET Patterns], timeouts : [Faults -> Nat], prev : Nat \X Nat,
   active : SUBSET InScope, todo : SUBSET InScope, current : SUBSET InScope,
   blockedNow : SUBSET BlockedRows, results : [Faults -> Verdicts \cup {NoVerdict}],
   outcomes : SUBSET {"SAT", "protocol_no_progress", "TIMEOUT", "UNKNOWN"},
   satOut : [Faults -> {"none", "timeout", "unknown"}],
   tests : Seq(Patterns), counter : Nat,
   cur : [fault : Faults \cup {NoFault}, pattern : Patterns \cup {NoPattern}],
   terminal : Terminals]

Labels == {"idle", "enumerate", "map", "invalidate", "run", "preflight", "round", "random",
           "pending", "gate", "plan", "wave", "loop", "sweep", "finish"}

NetlistType ==
  /\ QStems \subseteq Faults
  /\ reduced \in [Patterns -> SUBSET InScope]
  /\ captured \in [Patterns -> SUBSET QStems] /\ protocol \in [Patterns -> SUBSET QStems]
  /\ Transition => \A p \in Patterns : captured[p] = {}

ScanTypeOK ==
  /\ StoreTypeOK
  /\ candidates \subseteq CandidateRows
  /\ blocked \subseteq BlockedRows
  /\ NetlistType
  /\ pc \in Labels
  /\ mem \in Mems

\* The invocation has not inserted its run row yet, or holds a candidate.
Opening == pc \in {"idle", "enumerate", "map", "invalidate", "run"}
Holding == pc \in {"pending", "gate"}
InSatLoop == pc \in {"wave", "loop"} \/ (Holding /\ IsSat)
InRandom == pc = "random" \/ (Holding /\ ~IsSat)

ControlInv ==
  /\ IF Opening THEN mem = Fresh ELSE runs # <<>>
  /\ mem.graded <= Len(mem.batch)
  /\ pc \in {"preflight", "round"} /\ ~mem.switched => mem.seen = {} /\ mem.graded = 0
  /\ pc = "plan" \/ InSatLoop => mem.switched
  /\ Holding => /\ mem.cur.pattern \in Patterns /\ mem.counter # 0
                /\ ~IsSat => mem.graded # 0 /\ mem.cur.pattern = mem.batch[mem.graded]
  /\ ~Holding => mem.cur = NoCur
  /\ pc \notin {"sweep", "finish"} => mem.terminal = "MAX_ROUNDS"
  /\ pc = "sweep" => mem.terminal \in {"MAX_ROUNDS", "STALLED"}

-----------------------------------------------------------------------------

\* Which fault may carry which verdict.
Settled(f) == status[f] = "detected" \/ unresolved[f]
RowInv ==
  /\ (\A f \in Faults : status[f] = "absent") \/ (\A f \in Faults : status[f] # "absent")
  /\ pc \notin {"idle", "enumerate"} => \A f \in Faults : status[f] # "absent"
  /\ \A f \in Faults : status[f] = "excluded" => f \in Excluded
  /\ \A f \in Faults : status[f] = "detected" => f \in InScope
  /\ \A f \in Faults : status[f] = "redundant" => /\ f \in InScope \ QStems
                                                  /\ certModel[f] = Model
  /\ pc = "finish" /\ mem.terminal \in {"MAX_ROUNDS", "STALLED"} =>
       \A f \in InScope \cap QStems : Settled(f)
  /\ SweptRunSettlesQStems

\* The round's sets against the store.
LoopInv ==
  /\ InRandom \/ InSatLoop => Active \subseteq mem.active
  /\ InSatLoop => mem.todo \cap mem.current \subseteq Active
  /\ Holding /\ IsSat => mem.cur.fault \in Active /\ mem.cur.fault \notin mem.todo

-----------------------------------------------------------------------------
(* Types *)

LEMMA CountsAreNat ==
  Cardinality(DetectedFaults) \in Nat /\ FaultCounts \in Nat \X Nat /\ Denominator \in Nat
<1>1. DetectedFaults \subseteq Faults /\ RedundantFaults \subseteq Faults
      /\ InScope \ RedundantFaults \subseteq Faults
  BY DEF DetectedFaults, RedundantFaults, InScope
<1> QED BY <1>1, ScanFaultsAreCounted DEF FaultCounts, Denominator

LEMMA FreshIsMem == Fresh \in Mems
<1>1. NoVerdict \in Verdicts \cup {NoVerdict} /\ "MAX_ROUNDS" \in Terminals
  BY DEF Terminals
<1>2. NoCur \in [fault : Faults \cup {NoFault}, pattern : Patterns \cup {NoPattern}]
  BY DEF NoCur
<1> HIDE DEF NoCur
<1> QED BY <1>1, <1>2 DEF Fresh, Mems

LEMMA FreshResults == \A f \in Faults : Fresh.results[f].kind = "none"
<1>1. Fresh.results = [f \in Faults |-> NoVerdict]
  BY DEF Fresh
<1>2. NoVerdict.kind = "none"
  BY DEF NoVerdict, Verdict
<1> QED BY <1>1, <1>2

LEMMA ActiveIsInScope == Active \subseteq InScope /\ InScope \subseteq Faults
BY DEF Active, InScope

LEMMA BatchIsSeq ==
  ASSUME NEW b \in RandomBatches
  PROVE  b \in Seq(Patterns) /\ \A k \in DOMAIN b : b[k] \in Patterns
<1>1. PICK n \in 0 .. RandomVectors : b \in [1 .. n -> Patterns]
  BY DEF RandomBatches
<1>2. n \in Nat
  BY <1>1
<1> QED BY <1>1, <1>2

\* Appends and increments that keep a field's type.
LEMMA FieldTypes ==
  ASSUME mem \in Mems
  PROVE  /\ mem.round + 1 \in Nat /\ mem.counter + 1 \in Nat /\ mem.graded + 1 \in Nat
         /\ \A p \in Patterns : Append(mem.tests, p) \in Seq(Patterns)
         /\ \A f \in Faults : mem.timeouts[f] + 1 \in Nat
         /\ \A k \in 1 .. Len(mem.batch) : mem.batch[k] \in Patterns
         /\ NoCur \in [fault : Faults \cup {NoFault}, pattern : Patterns \cup {NoPattern}]
<1>1. mem.batch \in Seq(Patterns) /\ mem.tests \in Seq(Patterns)
  BY DEF Mems
<1>2. mem.round \in Nat /\ mem.counter \in Nat /\ mem.graded \in Nat
      /\ mem.timeouts \in [Faults -> Nat]
  BY DEF Mems
<1>3. NoCur \in [fault : Faults \cup {NoFault}, pattern : Patterns \cup {NoPattern}]
  BY DEF NoCur
<1>4. \A p \in Patterns : Append(mem.tests, p) \in Seq(Patterns)
  BY <1>1
<1> QED BY <1>1, <1>2, <1>3, <1>4

\* The candidate in hand, and the faults the loop may visit.
Hands == [fault : Faults \cup {NoFault}, pattern : Patterns \cup {NoPattern}]
LEMMA TargetsAreTodo == mem \in Mems => Targets \subseteq mem.todo \cap mem.current /\ mem.todo \subseteq Faults
BY DEF Targets, Survivors, Mems, InScope

LEMMA RoundMem ==
  ASSUME mem \in Mems, BeginRound
  PROVE  mem' \in Mems
<1> DEFINE begun == [mem EXCEPT !.round = @ + 1, !.prev = FaultCounts,
                            !.active = Active, !.outcomes = {}]
<1>1. begun \in Mems
  <2>1. Active \in SUBSET InScope /\ FaultCounts \in Nat \X Nat /\ mem.round + 1 \in Nat
    BY CountsAreNat, ActiveIsInScope, FieldTypes
  <2> QED BY Zenon, <2>1 DEF Mems
<1>2. CASE mem.switched
  BY <1>1, <1>2 DEF BeginRound, Goto
<1>3. CASE ~mem.switched
  <2>1. PICK b \in RandomBatches :
          mem' = [begun EXCEPT !.batch = b, !.seen = {b[k] : k \in DOMAIN b}]
    BY Zenon, <1>3 DEF BeginRound, Goto
  <2>2. b \in Seq(Patterns) /\ {b[k] : k \in DOMAIN b} \in SUBSET Patterns
    BY BatchIsSeq
  <2> HIDE DEF begun
  <2> QED BY ZenonT(30), <1>1, <2>1, <2>2 DEF Mems
<1> QED BY <1>2, <1>3

LEMMA RandomMem ==
  ASSUME mem \in Mems, mem.graded <= Len(mem.batch), NextRandom \/ RandomDone
  PROVE  mem' \in Mems
<1>0. mem.graded \in Nat /\ Len(mem.batch) \in Nat
  BY DEF Mems
<1>1. CASE NextRandom
  <2> DEFINE c == [fault |-> NoFault, pattern |-> mem.batch[mem.graded + 1]]
  <2>1. mem.graded + 1 \in 1 .. Len(mem.batch)
    BY <1>0, <1>1 DEF NextRandom, RandomStops
  <2>2. c \in Hands /\ mem.counter + 1 \in Nat /\ mem.graded + 1 \in Nat
    BY <2>1, FieldTypes DEF Hands
  <2>3. mem' = [mem EXCEPT !.counter = @ + 1, !.graded = @ + 1, !.cur = c]
    BY <1>1 DEF NextRandom, Goto
  <2> HIDE DEF c
  <2> QED BY Zenon, <2>2, <2>3 DEF Mems, Hands
<1>2. CASE RandomDone
  <2> DEFINE s == {mem.batch[k] : k \in 1 .. mem.graded}
             done == [mem EXCEPT !.switched = TRUE, !.seen = s]
  <2>1. s \in SUBSET Patterns
    BY <1>0, FieldTypes
  <2>2. mem' = done \/ mem' = [done EXCEPT !.terminal = "RANDOM_ONLY"]
    BY <1>2 DEF RandomDone, Goto
  <2> HIDE DEF s
  <2>3. done \in Mems
    BY Zenon, <2>1 DEF Mems
  <2> HIDE DEF done
  <2>4. [done EXCEPT !.terminal = "RANDOM_ONLY"] \in Mems
    BY Zenon, <2>3 DEF Mems, Terminals
  <2> QED BY <2>2, <2>3, <2>4
<1> QED BY <1>1, <1>2

LEMMA RejectedMem ==
  ASSUME NEW m \in Mems, NEW f \in Faults, NEW p \in Patterns
  PROVE  [m EXCEPT !.rejected[f] = @ \cup {p}, !.outcomes = @ \cup {"protocol_no_progress"}] \in Mems
BY ZenonT(30) DEF Mems

LEMMA CandidateMem ==
  ASSUME mem \in Mems, mem.cur.pattern \in Patterns,
         AfterReject \/ (pc = "gate" /\ Accept)
  PROVE  mem' \in Mems
<1>1. IsSat => mem.cur.fault \in Faults
  BY DEF IsSat, Mems
<1>2. CASE AfterReject /\ IsSat
  <2>1. mem' = [mem EXCEPT !.cur = NoCur, !.rejected[mem.cur.fault] = @ \cup {mem.cur.pattern},
                  !.outcomes = @ \cup {"protocol_no_progress"}]
    BY <1>2 DEF AfterReject, Goto
  <2> DEFINE f == mem.cur.fault
             p == mem.cur.pattern
  <2>2. mem' = [mem EXCEPT !.cur = NoCur, !.rejected[f] = @ \cup {p},
                  !.outcomes = @ \cup {"protocol_no_progress"}]
    BY <2>1
  <2>3. f \in Faults /\ p \in Patterns /\ NoCur \in Hands
    BY <1>1, <1>2, FieldTypes DEF Hands
  <2> HIDE DEF f, p
  <2> DEFINE m == [mem EXCEPT !.cur = NoCur]
  <2>4. m \in Mems
    BY Zenon, <2>3 DEF Mems, Hands
  <2>5. mem' = [m EXCEPT !.rejected[f] = @ \cup {p}, !.outcomes = @ \cup {"protocol_no_progress"}]
    BY <2>2 DEF Mems
  <2> HIDE DEF m
  <2> QED BY Zenon, <2>3, <2>4, <2>5, RejectedMem
<1>3. CASE AfterReject /\ ~IsSat
  <2>1. mem' = [mem EXCEPT !.cur = NoCur] /\ NoCur \in Hands
    BY <1>3, FieldTypes DEF AfterReject, Goto, Hands
  <2> QED BY Zenon, <2>1 DEF Mems, Hands
<1>4. CASE Accept
  <2> DEFINE kept == [mem EXCEPT !.tests = Append(@, mem.cur.pattern), !.cur = NoCur]
  <2>1. kept \in Mems
    BY Zenon, FieldTypes DEF Mems
  <2>2. CASE IsSat
    <3>1. mem' = [kept EXCEPT !.seen = @ \cup {mem.cur.pattern}, !.outcomes = @ \cup {"SAT"},
                              !.current = Active']
      BY <1>4, <2>2 DEF Accept, Goto
    <3>2. Active' \in SUBSET InScope
      BY DEF Active, InScope
    <3> HIDE DEF kept
    <3> QED BY ZenonT(30), <2>1, <3>1, <3>2 DEF Mems
  <2>3. CASE ~IsSat
    BY <1>4, <2>1, <2>3 DEF Accept, Goto
  <2> QED BY <2>2, <2>3
<1> QED BY <1>2, <1>3, <1>4

LEMMA PlanMem ==
  ASSUME mem \in Mems, blocked \subseteq BlockedRows, PlanRound \/ PreSolve
  PROVE  mem' \in Mems
<1>1. CASE PlanRound
  <2> DEFINE t == [f \in Faults |-> IF f \in Active \cap Reconv /\ mem.timeouts[f] = 0
                                       THEN 1 ELSE mem.timeouts[f]]
             nothing == [f \in Faults |-> NoVerdict]
             none == [f \in Faults |-> "none"]
  <2>1. t \in [Faults -> Nat]
    BY DEF Mems
  <2>2. nothing \in [Faults -> Verdicts \cup {NoVerdict}]
        /\ none \in [Faults -> {"none", "timeout", "unknown"}]
    OBVIOUS
  <2>3. mem' = [mem EXCEPT !.active = Active, !.todo = Active, !.current = Active,
                   !.blockedNow = blocked, !.timeouts = t, !.results = nothing, !.satOut = none]
    BY <1>1 DEF PlanRound, Goto, Fresh
  <2> HIDE DEF t, nothing, none
  <2> QED BY ZenonT(30), <2>1, <2>2, <2>3, ActiveIsInScope DEF Mems
<1>2. CASE PreSolve
  <2>1. PICK done \in SUBSET mem.todo : \E w \in [done -> Verdicts] :
          mem' = [mem EXCEPT !.results = [f \in Faults |-> IF f \in done THEN w[f] ELSE NoVerdict]]
    BY Zenon, <1>2 DEF PreSolve, Goto
  <2>4. PICK v \in [done -> Verdicts] :
          mem' = [mem EXCEPT !.results = [f \in Faults |-> IF f \in done THEN v[f] ELSE NoVerdict]]
    BY Zenon, <2>1
  <2> DEFINE r == [f \in Faults |-> IF f \in done THEN v[f] ELSE NoVerdict]
  <2>2. r \in [Faults -> Verdicts \cup {NoVerdict}]
    OBVIOUS
  <2>3. mem' = [mem EXCEPT !.results = r]
    BY <2>4
  <2> HIDE DEF r
  <2> QED BY Zenon, <2>2, <2>3 DEF Mems
<1> QED BY <1>1, <1>2

LEMMA VisitMem ==
  ASSUME mem \in Mems, SatSeen \/ SatCandidate \/ Unsat \/ Timeout \/ Unknown
  PROVE  mem' \in Mems
<1>0. ASSUME NEW f PROVE Visited(f) \in Mems
  <2>1. mem.todo \ {f} \in SUBSET InScope
    BY DEF Mems
  <2> QED BY ZenonT(30), <2>1 DEF Visited, Mems
<1>1. CASE SatSeen
  <2>1. PICK f \in Targets, p \in mem.seen :
          mem' = [Visited(f) EXCEPT !.rejected[f] = @ \cup {p},
                                    !.outcomes = @ \cup {"protocol_no_progress"}]
    BY Zenon, <1>1 DEF SatSeen, Goto
  <2>2. f \in Faults /\ p \in Patterns
    BY TargetsAreTodo DEF Mems
  <2> DEFINE m == Visited(f)
  <2>3. m \in Mems /\ mem' = [m EXCEPT !.rejected[f] = @ \cup {p},
                                  !.outcomes = @ \cup {"protocol_no_progress"}]
    BY <1>0, <2>1
  <2> HIDE DEF m
  <2> QED BY Zenon, <2>2, <2>3, RejectedMem
<1>2. CASE SatCandidate
  <2>1. PICK f \in Targets, p \in Patterns \ mem.seen :
          mem' = [Visited(f) EXCEPT !.counter = @ + 1, !.cur = [fault |-> f, pattern |-> p]]
    BY Zenon, <1>2 DEF SatCandidate, Goto
  <2>2. [fault |-> f, pattern |-> p] \in Hands
    BY TargetsAreTodo DEF Hands
  <2>3. Visited(f).counter = mem.counter
    BY DEF Visited, Mems
  <2>4. Visited(f).counter + 1 \in Nat
    BY <2>3, FieldTypes
  <2> DEFINE m == Visited(f)
             c == [fault |-> f, pattern |-> p]
  <2>5. m \in Mems /\ m.counter + 1 \in Nat /\ c \in Hands
        /\ mem' = [m EXCEPT !.counter = @ + 1, !.cur = c]
    BY <1>0, <2>1, <2>2, <2>4
  <2> HIDE DEF m, c
  <2> DEFINE k == m.counter + 1
  <2>6. k \in Nat /\ mem' = [m EXCEPT !.counter = k, !.cur = c]
    BY <2>5
  <2> HIDE DEF k
  <2> QED BY ZenonT(30), <2>5, <2>6 DEF Mems, Hands
<1>3. CASE Unsat
  BY <1>0, <1>3 DEF Unsat, Goto
<1>4. ASSUME NEW kind \in {"TIMEOUT", "UNKNOWN"}, NEW row \in {"timeout", "unknown"}, GaveUp(kind, row)
      PROVE  mem' \in Mems
  <2>1. PICK f \in Targets :
          mem' = [Visited(f) EXCEPT !.timeouts[f] = @ + 1, !.satOut[f] = row,
                                    !.outcomes = @ \cup {kind}]
    BY Zenon, <1>4 DEF GaveUp, Goto
  <2>2. f \in Faults
    BY TargetsAreTodo
  <2> DEFINE m == Visited(f)
             t == [m.timeouts EXCEPT ![f] = @ + 1]
             o == [m.satOut EXCEPT ![f] = row]
             u == m.outcomes \cup {kind}
  <2>3. m.timeouts \in [Faults -> Nat] /\ m.satOut \in [Faults -> {"none", "timeout", "unknown"}]
        /\ m.outcomes \in SUBSET {"SAT", "protocol_no_progress", "TIMEOUT", "UNKNOWN"}
    BY Zenon, <1>0 DEF Mems
  <2> HIDE DEF m
  <2>4. t \in [Faults -> Nat] /\ o \in [Faults -> {"none", "timeout", "unknown"}]
    BY <2>2, <2>3
  <2>5. u \in SUBSET {"SAT", "protocol_no_progress", "TIMEOUT", "UNKNOWN"}
    BY <2>3
  <2>6. mem' = [m EXCEPT !.timeouts = t, !.satOut = o, !.outcomes = u]
    BY <2>1 DEF m
  <2>7. m \in Mems
    BY <1>0 DEF m
  <2> HIDE DEF t, o, u
  <2> QED BY ZenonT(30), <2>4, <2>5, <2>6, <2>7 DEF Mems
<1>5. CASE Timeout
  BY <1>4, <1>5 DEF Timeout
<1>6. CASE Unknown
  BY <1>4, <1>6 DEF Unknown
<1> QED BY <1>1, <1>2, <1>3, <1>5, <1>6

-----------------------------------------------------------------------------
(* What each step leaves of the local variables *)

SameRandom == /\ mem'.batch = mem.batch /\ mem'.graded = mem.graded
              /\ mem'.seen = mem.seen /\ mem'.switched = mem.switched
SameLoop == mem'.active = mem.active /\ mem'.todo = mem.todo /\ mem'.current = mem.current
SameBlocks == /\ mem'.blockedNow = mem.blockedNow /\ mem'.rejected = mem.rejected
              /\ mem'.results = mem.results
SameCount == mem'.tests = mem.tests /\ mem'.counter = mem.counter

LEMMA OpeningFrame ==
  ASSUME mem \in Mems, OpenRun
  PROVE  /\ pc' \in {"round", "preflight"}
         /\ SameRandom /\ SameLoop /\ SameBlocks /\ SameCount
         /\ mem'.cur = mem.cur /\ mem'.terminal = mem.terminal /\ mem' \in Mems
<1>1. PICK ro \in RandomOnlyModes : mem' = [mem EXCEPT !.randomOnly = ro]
  BY DEF OpenRun, Goto
<1>2. pc' \in {"round", "preflight"}
  BY DEF OpenRun, Goto
<1>3. mem' \in Mems
  BY Zenon, <1>1, ScanModes DEF Mems
<1> QED BY Zenon, <1>1, <1>2, <1>3 DEF Mems, SameRandom, SameLoop, SameBlocks, SameCount

LEMMA NothingLeftFrame ==
  ASSUME mem \in Mems, NothingLeft
  PROVE  /\ SameRandom /\ SameLoop /\ SameBlocks /\ SameCount /\ mem'.cur = mem.cur
         /\ mem'.terminal = "COMPLETE" /\ mem' \in Mems
<1>1. mem' = [mem EXCEPT !.terminal = "COMPLETE"]
  BY DEF NothingLeft, Goto
<1>2. "COMPLETE" \in Terminals
  BY DEF Terminals
<1> QED BY Zenon, <1>1, <1>2 DEF Mems, SameRandom, SameLoop, SameBlocks, SameCount

LEMMA BeginRoundFrame ==
  ASSUME mem \in Mems, BeginRound
  PROVE  /\ mem'.active = Active /\ mem'.graded = mem.graded /\ mem'.switched = mem.switched
         /\ SameBlocks /\ SameCount /\ mem'.cur = mem.cur /\ mem'.terminal = mem.terminal
         /\ \/ pc' = "plan" /\ SameRandom /\ mem.switched
            \/ pc' = "random" /\ ~mem.switched
<1> DEFINE begun == [mem EXCEPT !.round = @ + 1, !.prev = FaultCounts,
                            !.active = Active, !.outcomes = {}]
<1>1. CASE mem.switched
  <2>1. mem' = begun /\ pc' = "plan"
    BY <1>1 DEF BeginRound, Goto
  <2> QED BY Zenon, <1>1, <2>1 DEF Mems, SameRandom, SameBlocks, SameCount
<1>2. CASE ~mem.switched
  <2>1. PICK b \in RandomBatches :
          pc' = "random" /\ mem' = [begun EXCEPT !.batch = b, !.seen = {b[k] : k \in DOMAIN b}]
    BY Zenon, <1>2 DEF BeginRound, Goto
  <2> QED BY <1>2, <2>1 DEF Mems, SameBlocks, SameCount
<1> QED BY <1>1, <1>2

LEMMA NextRandomFrame ==
  ASSUME mem \in Mems, NextRandom
  PROVE  /\ mem'.counter = mem.counter + 1 /\ mem'.graded = mem.graded + 1
         /\ mem'.cur = [fault |-> NoFault, pattern |-> mem.batch[mem.graded + 1]]
         /\ mem'.batch = mem.batch /\ mem'.seen = mem.seen /\ mem'.switched = mem.switched
         /\ SameLoop /\ SameBlocks /\ mem'.tests = mem.tests /\ mem'.terminal = mem.terminal
<1> DEFINE c == [fault |-> NoFault, pattern |-> mem.batch[mem.graded + 1]]
<1>1. mem' = [mem EXCEPT !.counter = @ + 1, !.graded = @ + 1, !.cur = c]
  BY DEF NextRandom, Goto
<1> HIDE DEF c
<1>2. mem'.cur = c
  BY <1>1 DEF Mems
<1>3. /\ mem'.counter = mem.counter + 1 /\ mem'.graded = mem.graded + 1
      /\ mem'.batch = mem.batch /\ mem'.seen = mem.seen /\ mem'.switched = mem.switched
      /\ SameLoop /\ SameBlocks /\ mem'.tests = mem.tests /\ mem'.terminal = mem.terminal
  BY <1>1 DEF Mems, SameLoop, SameBlocks
<1> QED BY <1>2, <1>3 DEF c

LEMMA RandomDoneFrame ==
  ASSUME mem \in Mems, RandomDone
  PROVE  /\ mem'.seen = {mem.batch[k] : k \in 1 .. mem.graded} /\ mem'.switched
         /\ mem'.batch = mem.batch /\ mem'.graded = mem.graded
         /\ SameLoop /\ SameBlocks /\ SameCount /\ mem'.cur = mem.cur
         /\ \/ pc' = "finish" /\ mem'.terminal = "RANDOM_ONLY"
            \/ pc' = "plan" /\ mem'.terminal = mem.terminal
<1> DEFINE s == {mem.batch[k] : k \in 1 .. mem.graded}
           done == [mem EXCEPT !.switched = TRUE, !.seen = s]
<1>1. \/ pc' = "finish" /\ mem' = [done EXCEPT !.terminal = "RANDOM_ONLY"]
      \/ pc' = "plan" /\ mem' = done
  BY DEF RandomDone, Goto
<1> HIDE DEF s
<1>2. mem'.seen = s /\ mem'.switched
  BY ZenonT(30), <1>1 DEF Mems
<1>3. /\ mem'.batch = mem.batch /\ mem'.graded = mem.graded
      /\ SameLoop /\ SameBlocks /\ SameCount /\ mem'.cur = mem.cur
      /\ \/ pc' = "finish" /\ mem'.terminal = "RANDOM_ONLY"
         \/ pc' = "plan" /\ mem'.terminal = mem.terminal
  <2>1. CASE pc' = "finish" /\ mem' = [done EXCEPT !.terminal = "RANDOM_ONLY"]
    BY <2>1 DEF Mems, SameLoop, SameBlocks, SameCount
  <2>2. CASE pc' = "plan" /\ mem' = done
    BY <2>2 DEF Mems, SameLoop, SameBlocks, SameCount
  <2> QED BY <1>1, <2>1, <2>2
<1> QED BY <1>2, <1>3 DEF s

LEMMA RejectFrame ==
  ASSUME mem \in Mems, AfterReject
  PROVE  /\ SameRandom /\ SameLoop /\ SameCount /\ mem'.terminal = mem.terminal
         /\ mem'.blockedNow = mem.blockedNow /\ mem'.results = mem.results /\ mem'.cur = NoCur
         /\ IF IsSat THEN /\ pc' = "loop"
                          /\ mem'.rejected = [mem.rejected EXCEPT ![mem.cur.fault] = @ \cup {mem.cur.pattern}]
                     ELSE pc' = "random" /\ mem'.rejected = mem.rejected
<1>1. CASE IsSat
  <2>1. /\ pc' = "loop"
        /\ mem' = [mem EXCEPT !.cur = NoCur, !.rejected[mem.cur.fault] = @ \cup {mem.cur.pattern},
                              !.outcomes = @ \cup {"protocol_no_progress"}]
    BY <1>1 DEF AfterReject, Goto
  <2> QED BY <1>1, <2>1 DEF Mems, SameRandom, SameLoop, SameCount
<1>2. CASE ~IsSat
  <2>1. pc' = "random" /\ mem' = [mem EXCEPT !.cur = NoCur]
    BY <1>2 DEF AfterReject, Goto
  <2> QED BY <1>2, <2>1 DEF Mems, SameRandom, SameLoop, SameCount
<1> QED BY <1>1, <1>2

LEMMA AcceptFrame ==
  ASSUME mem \in Mems, Accept
  PROVE  /\ mem'.tests = Append(mem.tests, mem.cur.pattern) /\ mem'.counter = mem.counter
         /\ mem'.batch = mem.batch /\ mem'.graded = mem.graded /\ mem'.switched = mem.switched
         /\ mem'.active = mem.active /\ mem'.todo = mem.todo /\ SameBlocks
         /\ mem'.cur = NoCur /\ mem'.terminal = mem.terminal
         /\ IF IsSat THEN /\ pc' = "loop" /\ mem'.current = Active'
                          /\ mem'.seen = mem.seen \cup {mem.cur.pattern}
                     ELSE pc' = "random" /\ mem'.current = mem.current /\ mem'.seen = mem.seen
<1> DEFINE t == Append(mem.tests, mem.cur.pattern)
           kept == [mem EXCEPT !.tests = t, !.cur = NoCur]
<1>1. IF IsSat THEN /\ pc' = "loop"
                    /\ mem' = [kept EXCEPT !.seen = @ \cup {mem.cur.pattern},
                                           !.outcomes = @ \cup {"SAT"}, !.current = Active']
               ELSE pc' = "random" /\ mem' = kept
  BY DEF Accept, Goto
<1> HIDE DEF t
<1>2. CASE IsSat
  <2>1. mem'.tests = t
    BY Zenon, <1>1, <1>2 DEF Mems
  <2>2. /\ mem'.counter = mem.counter
        /\ mem'.batch = mem.batch /\ mem'.graded = mem.graded /\ mem'.switched = mem.switched
        /\ mem'.active = mem.active /\ mem'.todo = mem.todo /\ SameBlocks
        /\ mem'.cur = NoCur /\ mem'.terminal = mem.terminal
        /\ pc' = "loop" /\ mem'.current = Active' /\ mem'.seen = mem.seen \cup {mem.cur.pattern}
    <3> DEFINE a == Active'
               p == mem.cur.pattern
    <3>1. pc' = "loop" /\ mem' = [kept EXCEPT !.seen = @ \cup {p}, !.outcomes = @ \cup {"SAT"},
                                             !.current = a]
      BY <1>1, <1>2
    <3> HIDE DEF a, p
    <3>2. mem'.current = a /\ mem'.seen = mem.seen \cup {p} /\ mem'.cur = NoCur
      BY <3>1 DEF Mems
    <3>3. /\ mem'.counter = mem.counter
          /\ mem'.batch = mem.batch /\ mem'.graded = mem.graded /\ mem'.switched = mem.switched
          /\ mem'.active = mem.active /\ mem'.todo = mem.todo /\ SameBlocks
          /\ mem'.terminal = mem.terminal
      BY <3>1 DEF Mems, SameBlocks
    <3> QED BY <3>1, <3>2, <3>3 DEF a, p
  <2> QED BY <1>2, <2>1, <2>2 DEF t
<1>3. CASE ~IsSat
  <2>1. mem'.tests = t
    BY Zenon, <1>1, <1>3 DEF Mems
  <2>2. /\ mem'.counter = mem.counter
        /\ mem'.batch = mem.batch /\ mem'.graded = mem.graded /\ mem'.switched = mem.switched
        /\ mem'.active = mem.active /\ mem'.todo = mem.todo /\ SameBlocks
        /\ mem'.cur = NoCur /\ mem'.terminal = mem.terminal
        /\ pc' = "random" /\ mem'.current = mem.current /\ mem'.seen = mem.seen
    <3>1. pc' = "random" /\ mem' = kept
      BY <1>1, <1>3
    <3>2. /\ mem'.counter = mem.counter
          /\ mem'.batch = mem.batch /\ mem'.graded = mem.graded /\ mem'.switched = mem.switched
          /\ mem'.active = mem.active /\ mem'.todo = mem.todo
      BY <3>1 DEF Mems
    <3>3. SameBlocks
      BY <3>1 DEF Mems, SameBlocks
    <3>4. /\ mem'.cur = NoCur /\ mem'.terminal = mem.terminal
          /\ mem'.current = mem.current /\ mem'.seen = mem.seen
      BY <3>1 DEF Mems
    <3> QED BY <3>1, <3>2, <3>3, <3>4
  <2> QED BY <1>3, <2>1, <2>2 DEF t
<1> QED BY <1>2, <1>3

LEMMA PlanFrame ==
  ASSUME mem \in Mems, PlanRound
  PROVE  /\ pc' \in {"wave", "loop"}
         /\ mem'.active = Active /\ mem'.todo = Active /\ mem'.current = Active
         /\ mem'.blockedNow = blocked /\ mem'.results = Fresh.results /\ mem'.rejected = mem.rejected
         /\ SameRandom /\ SameCount /\ mem'.cur = mem.cur /\ mem'.terminal = mem.terminal
<1> DEFINE t == [f \in Faults |-> IF f \in Active \cap Reconv /\ mem.timeouts[f] = 0
                                     THEN 1 ELSE mem.timeouts[f]]
           a == Active
           r == Fresh.results
           o == Fresh.satOut
<1>1. pc' \in {"wave", "loop"}
  BY DEF PlanRound, Goto
<1>2. mem' = [mem EXCEPT !.active = a, !.todo = a, !.current = a, !.blockedNow = blocked,
                         !.timeouts = t, !.results = r, !.satOut = o]
  BY DEF PlanRound, Goto
<1> HIDE DEF t, a, r, o
<1>3. /\ mem'.active = a /\ mem'.todo = a /\ mem'.current = a
      /\ mem'.blockedNow = blocked /\ mem'.results = r /\ mem'.rejected = mem.rejected
      /\ SameRandom /\ SameCount /\ mem'.cur = mem.cur /\ mem'.terminal = mem.terminal
  BY <1>2 DEF Mems, SameRandom, SameCount
<1> QED BY <1>1, <1>3 DEF a, r

LEMMA PreSolveFrame ==
  ASSUME mem \in Mems, PreSolve
  PROVE  /\ pc' = "loop"
         /\ SameRandom /\ SameLoop /\ SameCount /\ mem'.cur = mem.cur /\ mem'.terminal = mem.terminal
         /\ mem'.blockedNow = mem.blockedNow /\ mem'.rejected = mem.rejected
         /\ \A f \in Faults : mem'.results[f] = NoVerdict \/ mem'.results[f] \in SolverVerdicts(f)
<1>1. PICK done \in SUBSET mem.todo : \E w \in [done -> Verdicts] :
        /\ \A f \in done : w[f] \in SolverVerdicts(f)
        /\ Goto("loop", [mem EXCEPT !.results = [f \in Faults |-> IF f \in done THEN w[f] ELSE NoVerdict]])
  BY Zenon DEF PreSolve
<1>2. PICK v \in [done -> Verdicts] :
        /\ \A f \in done : v[f] \in SolverVerdicts(f)
        /\ Goto("loop", [mem EXCEPT !.results = [f \in Faults |-> IF f \in done THEN v[f] ELSE NoVerdict]])
  BY Zenon, <1>1
<1> DEFINE r == [f \in Faults |-> IF f \in done THEN v[f] ELSE NoVerdict]
<1>3. pc' = "loop" /\ mem' = [mem EXCEPT !.results = r]
  BY <1>2 DEF Goto
<1>4. \A f \in Faults : r[f] = NoVerdict \/ r[f] \in SolverVerdicts(f)
  BY <1>2
<1> HIDE DEF r
<1> QED BY <1>3, <1>4 DEF Mems, SameRandom, SameLoop, SameCount

LEMMA VisitedFrame ==
  ASSUME mem \in Mems, NEW f
  PROVE  LET m == Visited(f) IN
         /\ DOMAIN m = DOMAIN mem /\ m.todo = mem.todo \ {f}
         /\ m.batch = mem.batch /\ m.graded = mem.graded /\ m.seen = mem.seen /\ m.switched = mem.switched
         /\ m.active = mem.active /\ m.current = mem.current
         /\ m.blockedNow = mem.blockedNow /\ m.rejected = mem.rejected /\ m.results = mem.results
         /\ m.tests = mem.tests /\ m.counter = mem.counter /\ m.cur = mem.cur /\ m.terminal = mem.terminal
BY DEF Visited, Mems

\* A visit takes one target off the list and touches little else.
VisitKeeps(f) ==
  /\ mem'.todo = mem.todo \ {f} /\ mem'.active = mem.active /\ mem'.current = mem.current
  /\ SameRandom /\ mem'.blockedNow = mem.blockedNow /\ mem'.results = mem.results
  /\ mem'.tests = mem.tests /\ mem'.terminal = mem.terminal

LEMMA VisitFrame ==
  ASSUME mem \in Mems
  PROVE  /\ SatSeen => \E f \in Targets, p \in mem.seen :
              /\ pc' = "loop" /\ VisitKeeps(f) /\ mem'.cur = mem.cur /\ mem'.counter = mem.counter
              /\ mem'.rejected = [mem.rejected EXCEPT ![f] = @ \cup {p}]
         /\ SatCandidate => \E f \in Targets, p \in Patterns :
              /\ pc' = "pending" /\ VisitKeeps(f) /\ mem'.counter = mem.counter + 1
              /\ mem'.cur = [fault |-> f, pattern |-> p] /\ mem'.rejected = mem.rejected
         /\ Timeout \/ Unknown => \E f \in Targets :
              /\ pc' = "loop" /\ VisitKeeps(f) /\ mem'.cur = mem.cur /\ mem'.counter = mem.counter
              /\ mem'.rejected = mem.rejected
<1>0. DOMAIN mem = {"randomOnly", "round", "switched", "batch", "graded", "seen", "rejected",
        "timeouts", "prev", "active", "todo", "current", "blockedNow", "results", "outcomes",
        "satOut", "tests", "counter", "cur", "terminal"}
  BY DEF Mems
<1>1. ASSUME SatSeen
      PROVE  \E f \in Targets, p \in mem.seen :
              /\ pc' = "loop" /\ VisitKeeps(f) /\ mem'.cur = mem.cur /\ mem'.counter = mem.counter
              /\ mem'.rejected = [mem.rejected EXCEPT ![f] = @ \cup {p}]
  <2>1. PICK f \in Targets, p \in mem.seen :
          /\ pc' = "loop"
          /\ mem' = [Visited(f) EXCEPT !.rejected[f] = @ \cup {p},
                                       !.outcomes = @ \cup {"protocol_no_progress"}]
    BY Zenon, <1>1 DEF SatSeen, Goto
  <2> DEFINE m == Visited(f)
  <2>2. mem' = [m EXCEPT !.rejected[f] = @ \cup {p}, !.outcomes = @ \cup {"protocol_no_progress"}]
    BY <2>1
  <2> HIDE DEF m
  <2>3. /\ DOMAIN m = DOMAIN mem /\ m.todo = mem.todo \ {f}
        /\ m.batch = mem.batch /\ m.graded = mem.graded /\ m.seen = mem.seen /\ m.switched = mem.switched
        /\ m.active = mem.active /\ m.current = mem.current
        /\ m.blockedNow = mem.blockedNow /\ m.rejected = mem.rejected /\ m.results = mem.results
        /\ m.tests = mem.tests /\ m.counter = mem.counter /\ m.cur = mem.cur /\ m.terminal = mem.terminal
    BY VisitedFrame DEF m
  <2>4. VisitKeeps(f) /\ mem'.cur = mem.cur /\ mem'.counter = mem.counter
        /\ mem'.rejected = [mem.rejected EXCEPT ![f] = @ \cup {p}]
    BY <1>0, <2>2, <2>3 DEF VisitKeeps, SameRandom
  <2> QED BY Zenon, <2>1, <2>4
<1>2. ASSUME SatCandidate
      PROVE  \E f \in Targets, p \in Patterns :
              /\ pc' = "pending" /\ VisitKeeps(f) /\ mem'.counter = mem.counter + 1
              /\ mem'.cur = [fault |-> f, pattern |-> p] /\ mem'.rejected = mem.rejected
  <2>1. PICK f \in Targets, p \in Patterns :
          /\ pc' = "pending"
          /\ mem' = [Visited(f) EXCEPT !.counter = @ + 1, !.cur = [fault |-> f, pattern |-> p]]
    BY Zenon, <1>2 DEF SatCandidate, Goto
  <2> DEFINE m == Visited(f)
             c == [fault |-> f, pattern |-> p]
  <2>2. mem' = [m EXCEPT !.counter = @ + 1, !.cur = c]
    BY <2>1
  <2> HIDE DEF m, c
  <2>3. /\ DOMAIN m = DOMAIN mem /\ m.todo = mem.todo \ {f}
        /\ m.batch = mem.batch /\ m.graded = mem.graded /\ m.seen = mem.seen /\ m.switched = mem.switched
        /\ m.active = mem.active /\ m.current = mem.current
        /\ m.blockedNow = mem.blockedNow /\ m.rejected = mem.rejected /\ m.results = mem.results
        /\ m.tests = mem.tests /\ m.counter = mem.counter /\ m.cur = mem.cur /\ m.terminal = mem.terminal
    BY VisitedFrame DEF m
  <2>4. VisitKeeps(f) /\ mem'.rejected = mem.rejected
    BY <1>0, <2>2, <2>3 DEF VisitKeeps, SameRandom
  <2>5. mem'.counter = mem.counter + 1 /\ mem'.cur = c
    BY <1>0, <2>2, <2>3
  <2> QED BY <2>1, <2>4, <2>5 DEF c
<1>3. ASSUME NEW kind, NEW row, GaveUp(kind, row)
      PROVE  \E f \in Targets :
              /\ pc' = "loop" /\ VisitKeeps(f) /\ mem'.cur = mem.cur /\ mem'.counter = mem.counter
              /\ mem'.rejected = mem.rejected
  <2>1. PICK f \in Targets :
          /\ pc' = "loop"
          /\ mem' = [Visited(f) EXCEPT !.timeouts[f] = @ + 1, !.satOut[f] = row,
                                       !.outcomes = @ \cup {kind}]
    BY Zenon, <1>3 DEF GaveUp, Goto
  <2> DEFINE m == Visited(f)
             t == [m.timeouts EXCEPT ![f] = @ + 1]
             o == [m.satOut EXCEPT ![f] = row]
             u == m.outcomes \cup {kind}
  <2>2. mem' = [m EXCEPT !.timeouts = t, !.satOut = o, !.outcomes = u]
    BY <2>1
  <2> HIDE DEF m, t, o, u
  <2>3. /\ DOMAIN m = DOMAIN mem /\ m.todo = mem.todo \ {f}
        /\ m.batch = mem.batch /\ m.graded = mem.graded /\ m.seen = mem.seen /\ m.switched = mem.switched
        /\ m.active = mem.active /\ m.current = mem.current
        /\ m.blockedNow = mem.blockedNow /\ m.rejected = mem.rejected /\ m.results = mem.results
        /\ m.tests = mem.tests /\ m.counter = mem.counter /\ m.cur = mem.cur /\ m.terminal = mem.terminal
    BY VisitedFrame DEF m
  <2>4. VisitKeeps(f) /\ mem'.cur = mem.cur /\ mem'.counter = mem.counter /\ mem'.rejected = mem.rejected
    BY <1>0, <2>2, <2>3 DEF VisitKeeps, SameRandom
  <2> QED BY <2>1, <2>4
<1> QED BY Zenon, <1>1, <1>2, <1>3 DEF Timeout, Unknown

\* So does a visit the solver answers with UNSAT: the fault's row is all it changes.
LEMMA UnsatFrame ==
  ASSUME mem \in Mems, Unsat
  PROVE  /\ pc = "loop" /\ pc' = "loop" /\ SameRandom /\ SameBlocks
         /\ mem'.active = mem.active /\ mem'.current = mem.current /\ SameCount
<1>1. PICK f \in Targets : pc = "loop" /\ pc' = "loop" /\ mem' = Visited(f)
  BY Zenon DEF Unsat, Goto
<1> DEFINE m == Visited(f)
<1>2. /\ m.batch = mem.batch /\ m.graded = mem.graded /\ m.seen = mem.seen /\ m.switched = mem.switched
      /\ m.active = mem.active /\ m.current = mem.current
      /\ m.blockedNow = mem.blockedNow /\ m.rejected = mem.rejected /\ m.results = mem.results
      /\ m.tests = mem.tests /\ m.counter = mem.counter
  BY VisitedFrame
<1>3. mem' = m
  BY <1>1
<1> HIDE DEF m
<1> QED BY <1>1, <1>2, <1>3 DEF SameRandom, SameBlocks, SameCount

LEMMA EndFrame ==
  ASSUME mem \in Mems, EndRound
  PROVE  /\ SameRandom /\ SameLoop /\ SameBlocks /\ SameCount /\ mem'.cur = mem.cur /\ mem' \in Mems
         /\ \/ pc' = "finish" /\ mem'.terminal \in {"COMPLETE", "THRESHOLD_MET"}
            \/ pc' = "sweep" /\ mem'.terminal = "STALLED"
            \/ pc' = "round" /\ mem'.terminal = mem.terminal
<1>0. {"COMPLETE", "THRESHOLD_MET", "STALLED"} \subseteq Terminals
  BY DEF Terminals
<1>1. \/ pc' = "finish" /\ \E t \in {"COMPLETE", "THRESHOLD_MET"} : mem' = [mem EXCEPT !.terminal = t]
      \/ pc' = "sweep" /\ mem' = [mem EXCEPT !.terminal = "STALLED"]
      \/ pc' = "round" /\ mem' = mem
  BY DEF EndRound, RoundEnds, Goto
<1>2. ASSUME NEW t \in {"COMPLETE", "THRESHOLD_MET", "STALLED"}, mem' = [mem EXCEPT !.terminal = t]
      PROVE  /\ SameRandom /\ SameLoop /\ SameBlocks /\ SameCount /\ mem'.cur = mem.cur
             /\ mem' \in Mems /\ mem'.terminal = t
  BY Zenon, <1>0, <1>2 DEF Mems, SameRandom, SameLoop, SameBlocks, SameCount
<1>3. mem' = mem => SameRandom /\ SameLoop /\ SameBlocks /\ SameCount
  BY DEF SameRandom, SameLoop, SameBlocks, SameCount
<1> QED BY <1>1, <1>2, <1>3

-----------------------------------------------------------------------------
(* Types and control are inductive *)

\* Steps that write no table.
Quiet ==
  \/ RoundsExhausted \/ NothingLeft \/ BeginRound \/ NextRandom \/ RandomDone
  \/ PlanRound \/ PreSolve \/ SatSeen \/ SatCandidate \/ Timeout \/ Unknown
  \/ ZeroDenominator \/ Crash \/ UNCHANGED vars

Rejecting == RejectUnverified \/ RejectEmpty \/ RejectFruitless

LEMMA QuietWritesNothing == Quiet => UNCHANGED <<storeVars, scanTables, netlist>>
BY Zenon DEF Quiet, RoundsExhausted, NothingLeft, BeginRound, NextRandom, RandomDone, PlanRound,
  PreSolve, SatSeen, SatCandidate, Timeout, Unknown, GaveUp, ZeroDenominator, Crash, vars

LEMMA RejectingFacts ==
  Rejecting => /\ pc = "gate" /\ AfterReject /\ UNCHANGED <<storeVars, netlist>>
               /\ \E why, block : CommitCandidate("rejected", why, block)
<1>1. RejectUnverified => /\ pc = "gate" /\ AfterReject /\ UNCHANGED <<storeVars, netlist>>
               /\ \E why, block : CommitCandidate("rejected", why, block)
  BY DEF RejectUnverified, Reject
<1>2. RejectEmpty => /\ pc = "gate" /\ AfterReject /\ UNCHANGED <<storeVars, netlist>>
               /\ \E why, block : CommitCandidate("rejected", why, block)
  BY DEF RejectEmpty, Reject, Gated
<1>3. RejectFruitless => /\ pc = "gate" /\ AfterReject /\ UNCHANGED <<storeVars, netlist>>
               /\ \E why, block : CommitCandidate("rejected", why, block)
  BY DEF RejectFruitless, Reject, Gated
<1> QED BY <1>1, <1>2, <1>3 DEF Rejecting

\* The steps by what they write.
LEMMA Steps ==
  [Next]_vars => \/ Quiet \/ Open \/ Enumerate \/ ApplyScanExecutionMap \/ Invalidate \/ OpenRun
                 \/ Preflight \/ InsertPending \/ GoldenFails \/ Rejecting \/ Accept \/ Unsat
                 \/ EndRound \/ Sweep \/ CompleteRun
BY DEF Next, Step, Quiet, Rejecting

LEMMA MemInductive ==
  ASSUME ScanTypeOK, ControlInv, [Next]_vars
  PROVE  mem' \in Mems
<1> USE DEF ScanTypeOK
<1>1. CASE mem' = mem \/ mem' = Fresh
  BY <1>1, FreshIsMem
<1>2. CASE Open \/ Enumerate \/ ApplyScanExecutionMap \/ Invalidate \/ Preflight
  BY <1>1, <1>2 DEF Open, Enumerate, ApplyScanExecutionMap, Invalidate, Preflight, Goto
<1>3. CASE RoundsExhausted \/ InsertPending \/ Sweep \/ UNCHANGED vars
  BY <1>1, <1>3 DEF RoundsExhausted, InsertPending, Sweep, Goto, vars
<1>4. CASE GoldenFails \/ CompleteRun \/ ZeroDenominator \/ Crash
  BY <1>1, <1>4 DEF GoldenFails, CompleteRun, ZeroDenominator, Crash, Leave
<1>5. CASE Rejecting \/ Accept
  <2>1. pc = "gate"
    BY <1>5, RejectingFacts DEF Accept, Gated
  <2>2. mem.cur.pattern \in Patterns
    BY <2>1 DEF ControlInv, Holding
  <2> QED BY <1>5, <2>1, <2>2, RejectingFacts, CandidateMem
<1>6. CASE NextRandom \/ RandomDone
  BY <1>6, RandomMem DEF ControlInv
<1>7. CASE OpenRun \/ NothingLeft \/ EndRound
  BY <1>7, OpeningFrame, NothingLeftFrame, EndFrame
<1>8. CASE BeginRound
  BY <1>8, RoundMem
<1>9. CASE PlanRound \/ PreSolve
  BY <1>9, PlanMem
<1>10. CASE SatSeen \/ SatCandidate \/ Unsat \/ Timeout \/ Unknown
  BY <1>10, VisitMem
<1> QED BY <1>2, <1>3, <1>4, <1>5, <1>6, <1>7, <1>8, <1>9, <1>10, Steps DEF Quiet

\* What a gate may credit is active, in scope and really exposed.
LEMMA PassedIsExposed ==
  ASSUME ScanTypeOK, NEW h \in Patterns, NEW t \in Tentatives(h)
  PROVE  /\ t \subseteq mem.active \cap reduced[h]
         /\ Passed(t, h) \subseteq mem.active /\ Passed(t, h) \subseteq Exposes(h)
         /\ Passed(t, h) \subseteq Faults /\ Failed(t, h) \subseteq QStems
<1>1. t \subseteq mem.active \cap reduced[h]
  BY DEF Tentatives
<1>2. mem.active \subseteq Faults
  BY DEF ScanTypeOK, Mems, InScope
<1>3. CASE Transition
  BY <1>1, <1>2, <1>3 DEF Passed, Trusted, ProtocolSimulated, Residual, ActiveQStems, Exposes, Failed
<1>4. CASE ~Transition
  BY <1>1, <1>2, <1>4 DEF Passed, Trusted, ProtocolSimulated, Residual, ActiveQStems, Exposes, Failed
<1> QED BY <1>1, <1>2, <1>3, <1>4

LEMMA HeldIsPattern ==
  mem.cur.pattern \in Patterns => Held \in Patterns /\ TrackKey(mem.cur.pattern) \in Patterns
BY HoldIsIdempotent DEF Held, TrackKey

\* What acceptance does to the store.
LEMMA AcceptFacts ==
  ASSUME mem \in Mems, Accept
  PROVE  /\ pc = "gate" /\ UNCHANGED <<satOutcome, netlist>> /\ NextIndex \in Nat \ {0}
         /\ \E t \in Tentatives(Held) :
              /\ vectors' = vectors \cup {[run |-> run, index |-> NextIndex, pattern |-> Held]}
              /\ CommitDetections(Passed(t, Held), NextIndex)
              /\ CommitCandidate("accepted", ProtocolReasons(t), Failed(t, Held))
              /\ UpdateRunVectorCount(run, NextIndex)
<1>1. pc = "gate" /\ UNCHANGED <<satOutcome, netlist>>
  BY DEF Accept, Gated
<1>2. PICK t \in Tentatives(Held) :
         /\ AppendVectors(run, NextIndex, <<StoredPattern>>)
         /\ CommitDetections(Passed(t, Held), NextIndex)
         /\ CommitCandidate("accepted", ProtocolReasons(t), Failed(t, Held))
         /\ UpdateRunVectorCount(run, NextIndex)
  BY DEF Accept
<1>3. NextIndex \in Nat \ {0}
  BY DEF NextIndex, Mems
<1>4. ASSUME NEW r, NEW i \in Nat, NEW h
      PROVE  {[run |-> r, index |-> i + k - 1, pattern |-> <<h>>[k]] : k \in DOMAIN <<h>>}
               = {[run |-> r, index |-> i, pattern |-> h]}
  <2>1. DOMAIN <<h>> = {1} /\ <<h>>[1] = h /\ i + 1 - 1 = i
    OBVIOUS
  <2> QED BY <2>1
<1>5. vectors' = vectors \cup {[run |-> run, index |-> NextIndex, pattern |-> Held]}
  BY <1>2, <1>3, <1>4 DEF AppendVectors, StoredPattern
<1> QED BY <1>1, <1>2, <1>3, <1>5

LEMMA RunUpdates ==
  ASSUME runs \in Seq(Runs), runs # <<>>, NEW n \in Nat, NEW t \in Terminals
  PROVE  /\ run \in DOMAIN runs /\ run \in Nat \ {0}
         /\ [runs EXCEPT ![run].count = n] \in Seq(Runs)
         /\ [runs EXCEPT ![run].status = "aborted"] \in Seq(Runs)
         /\ CompleteRunWithAtpg(run, t) => runs' \in Seq(Runs)
<1>1. run \in DOMAIN runs /\ run \in Nat \ {0} /\ runs[run] \in Runs
  BY DEF run
<1>2. [runs[run] EXCEPT !.count = n] \in Runs /\ [runs[run] EXCEPT !.status = "aborted"] \in Runs
  BY Zenon, <1>1 DEF Runs
<1>3. ASSUME NEW x \in Runs PROVE [runs EXCEPT ![run] = x] \in Seq(Runs)
  BY <1>1
<1>4. ASSUME CompleteRunWithAtpg(run, t) PROVE runs' \in Seq(Runs)
  <2> DEFINE d == Cardinality(DetectedFaults)
             w == [[[[runs[run] EXCEPT !.status = "complete"] EXCEPT !.terminal = t]
                       EXCEPT !.detected = d] EXCEPT !.denominator = Denominator]
  <2>1. d \in Nat /\ Denominator \in Nat
    BY CountsAreNat
  <2> HIDE DEF d
  <2>2. w \in Runs
    BY Zenon, <1>1, <2>1 DEF Runs
  <2>3. runs' = [runs EXCEPT ![run] = w]
    BY Zenon, <1>1, <1>4 DEF CompleteRunWithAtpg, Runs, d
  <2> QED BY <1>3, <2>2, <2>3
<1>5. [runs EXCEPT ![run].count = n] \in Seq(Runs) /\ [runs EXCEPT ![run].status = "aborted"] \in Seq(Runs)
  BY <1>2, <1>3
<1> QED BY <1>1, <1>4, <1>5

LEMMA StoreTypeInductive ==
  ASSUME ScanTypeOK, ControlInv, [Next]_vars
  PROVE  StoreTypeOK'
<1> USE DEF ScanTypeOK
<1>0. pc = "gate" \/ pc = "finish" => runs # <<>>
  BY DEF ControlInv, Opening
<1>1. CASE Quiet \/ Open \/ InsertPending \/ Rejecting
  <2>1. UNCHANGED storeVars
    BY <1>1, QuietWritesNothing, RejectingFacts DEF Open, InsertPending
  <2> QED BY <2>1 DEF StoreTypeOK, storeVars
<1>2. CASE Enumerate
  BY <1>2 DEF Enumerate, StoreTypeOK, Statuses
<1>3. CASE ApplyScanExecutionMap
  BY <1>3 DEF ApplyScanExecutionMap, StoreTypeOK, Statuses
<1>4. CASE Invalidate
  BY <1>4 DEF Invalidate, InvalidateStaleRedundant, StoreTypeOK, Statuses
<1>5. CASE OpenRun
  <2>1. NewRun \in Runs
    BY DEF NewRun, Runs, Terminals
  <2> QED BY <1>5, <2>1 DEF OpenRun, StartRun, StoreTypeOK, faultCols
<1>6. CASE Preflight
  <2>1. PICK S \in SUBSET InScope :
          LET stems == {f \in S : status[f] = "undetected"} IN
          /\ status' = [f \in Faults |-> IF f \in stems \ QStems THEN "redundant" ELSE status[f]]
          /\ certModel' = [f \in Faults |-> IF f \in stems \ QStems THEN Model ELSE certModel[f]]
          /\ unresolved' = [f \in Faults |-> unresolved[f] \/ f \in stems \cap QStems]
    BY <1>6 DEF Preflight
  <2>2. unresolved' \in [Faults -> BOOLEAN]
    BY <2>1 DEF StoreTypeOK
  <2>3. status' \in [Faults -> Statuses] /\ certModel' \in [Faults -> Models \cup {NoModel}]
    BY <2>1, ScanModel DEF StoreTypeOK, Statuses
  <2> QED BY <1>6, <2>2, <2>3 DEF Preflight, StoreTypeOK
<1>7. CASE GoldenFails
  BY Zenon, <1>0, <1>7, RunUpdates DEF GoldenFails, StoreTypeOK, faultCols, Terminals
<1>8. CASE Accept
  <2>1. PICK t \in Tentatives(Held) :
              /\ vectors' = vectors \cup {[run |-> run, index |-> NextIndex, pattern |-> Held]}
              /\ CommitDetections(Passed(t, Held), NextIndex)
              /\ UpdateRunVectorCount(run, NextIndex)
    BY <1>8, AcceptFacts
  <2>2. NextIndex \in Nat \ {0} /\ Held \in Patterns /\ satOutcome' = satOutcome /\ runs # <<>>
    BY <1>0, <1>8, AcceptFacts, HeldIsPattern DEF ControlInv, Holding
  <2>3. Passed(t, Held) \subseteq Faults
    BY <2>2, PassedIsExposed
  <2>4. run \in Nat \ {0} /\ runs' \in Seq(Runs)
    BY <2>1, <2>2, RunUpdates DEF UpdateRunVectorCount, StoreTypeOK, Terminals
  <2>5. vectors' \subseteq VectorRows
    BY <2>1, <2>2, <2>4 DEF StoreTypeOK, VectorRows
  <2>6. detections' \subseteq DetectionRows
    BY <2>1, <2>2, <2>3, <2>4 DEF StoreTypeOK, DetectionRows, CommitDetections
  <2>7. unresolved' \in [Faults -> BOOLEAN]
    BY <2>1 DEF StoreTypeOK, CommitDetections
  <2>8. status' \in [Faults -> Statuses]
    BY <2>1 DEF StoreTypeOK, CommitDetections, Statuses
  <2> QED BY <2>1, <2>2, <2>4, <2>5, <2>6, <2>7, <2>8 DEF StoreTypeOK, CommitDetections
<1>9. CASE Unsat
  <2>1. PICK f \in Targets : IF NeedsProtocol(f) THEN MarkFaultProtocolUnresolved(f)
                                                 ELSE MarkFaultRedundant(f, Model)
    BY <1>9 DEF Unsat
  <2>2. UNCHANGED <<runs, vectors, detections, satOutcome>>
    BY <1>9 DEF Unsat
  <2>3. CASE MarkFaultProtocolUnresolved(f)
    <3>1. unresolved' \in [Faults -> BOOLEAN]
      BY Zenon, <2>3 DEF MarkFaultProtocolUnresolved, StoreTypeOK
    <3> QED BY <2>2, <2>3, <3>1 DEF MarkFaultProtocolUnresolved, StoreTypeOK
  <2>4. CASE MarkFaultRedundant(f, Model)
    BY <2>2, <2>4, ScanModel DEF MarkFaultRedundant, CertifyRedundant, StoreTypeOK, Statuses
  <2> QED BY <2>1, <2>3, <2>4
<1>10. CASE EndRound
  <2>1. mem.satOut \in [Faults -> {"none", "timeout", "unknown"}]
    BY DEF Mems
  <2> QED BY Zenon, <1>10, <2>1 DEF EndRound, RecordSatOutcomes, StoreTypeOK, faultCols
<1>11. CASE Sweep
  <2>1. unresolved' \in [Faults -> BOOLEAN]
    BY <1>11 DEF Sweep, SweepQStems, StoreTypeOK
  <2> QED BY <1>11, <2>1 DEF Sweep, SweepQStems, StoreTypeOK
<1>12. CASE CompleteRun
  <2>1. mem.terminal \in Terminals
    BY DEF Mems
  <2> QED BY Zenon, <1>0, <1>12, <2>1, RunUpdates DEF CompleteRun, StoreTypeOK, faultCols
<1> QED BY <1>1, <1>2, <1>3, <1>4, <1>5, <1>6, <1>7, <1>8, <1>9, <1>10, <1>11, <1>12, Steps

\* Every outcome of a gate only rewrites the status of rows and adds blocked rows.
LEMMA CommitTypes ==
  ASSUME ScanTypeOK, mem.cur.pattern \in Patterns, NEW why, NEW block \in SUBSET Faults,
         NEW outcome \in {"accepted", "rejected", "aborted"}, CommitCandidate(outcome, why, block)
  PROVE  candidates' \subseteq CandidateRows /\ blocked' \subseteq BlockedRows
<1>1. \A c \in CandidateRows : [c EXCEPT !.status = outcome] \in CandidateRows
  BY DEF CandidateRows
<1>2. candidates' \subseteq CandidateRows
  BY <1>1 DEF CommitCandidate, ScanTypeOK
<1>3. blocked' \subseteq BlockedRows
  BY HeldIsPattern DEF CommitCandidate, ScanTypeOK, BlockedRows
<1> QED BY <1>2, <1>3

LEMMA NetlistFixed == mem \in Mems /\ [Next]_vars => UNCHANGED netlist
BY Steps, QuietWritesNothing, RejectingFacts, AcceptFacts
   DEF Open, Enumerate, ApplyScanExecutionMap, Invalidate, OpenRun, Preflight,
   InsertPending, GoldenFails, Unsat, EndRound, Sweep, CompleteRun

LEMMA TypeInductive ==
  ASSUME ScanTypeOK, ControlInv, [Next]_vars
  PROVE  ScanTypeOK'
<1>1. mem' \in Mems /\ StoreTypeOK'
  BY MemInductive, StoreTypeInductive
<1>2. pc' \in Labels
  <2>1. pc' \in Labels \/ pc' = pc
    BY Zenon, Steps, OpeningFrame, RejectFrame, AcceptFrame, RejectingFacts, AcceptFacts, BeginRoundFrame,
      RandomDoneFrame, PlanFrame, PreSolveFrame, VisitFrame, EndFrame
      DEF ScanTypeOK, Labels, Quiet, RoundsExhausted, NothingLeft, NextRandom, ZeroDenominator, Crash,
      Leave, Goto, vars, Open, Enumerate, ApplyScanExecutionMap, Invalidate, Preflight, InsertPending,
      GoldenFails, Unsat, Sweep, CompleteRun
  <2> QED BY <2>1 DEF ScanTypeOK
<1>3. UNCHANGED netlist
  BY NetlistFixed DEF ScanTypeOK
<1>4. NetlistType'
  BY <1>3 DEF netlist, ScanTypeOK, NetlistType, Transition
<1>5. candidates' \subseteq CandidateRows /\ blocked' \subseteq BlockedRows
  <2>0. pc = "gate" => mem.cur.pattern \in Patterns
    BY DEF ControlInv, Holding
  <2>1. CASE UNCHANGED scanTables
    BY <2>1 DEF scanTables, ScanTypeOK
  <2>2. CASE Open
    <3>1. \A c \in CandidateRows : [c EXCEPT !.status = "aborted"] \in CandidateRows
      BY DEF CandidateRows
    <3> QED BY <2>2, <3>1 DEF Open, AbortPendingCandidates, ScanTypeOK
  <2>3. CASE InsertPending
    <3>1. run \in Nat \ {0} /\ mem.counter \in Nat \ {0} /\ mem.cur.fault \in Faults \cup {NoFault}
      BY <2>3 DEF InsertPending, ControlInv, Opening, Holding, ScanTypeOK, StoreTypeOK, run, Mems
    <3>2. TrackKey(mem.cur.pattern) \in Patterns
      BY <2>3, HeldIsPattern DEF InsertPending, ControlInv, Holding
    <3> QED BY <2>3, <3>1, <3>2 DEF InsertPending, InsertPendingCandidate, ScanTypeOK, CandidateRows
  <2>4. CASE GoldenFails
    BY <2>0, <2>4, CommitTypes DEF GoldenFails
  <2>5. CASE RejectUnverified
    BY <2>0, <2>5, CommitTypes DEF RejectUnverified, Reject
  <2>6. CASE RejectEmpty
    BY <2>0, <2>6, CommitTypes DEF RejectEmpty, Reject, Gated
  <2>7. CASE RejectFruitless
    <3>1. PICK t \in Tentatives(Held) : CommitCandidate("rejected", ProtocolReasons(t), Failed(t, Held))
      BY <2>7 DEF RejectFruitless, Reject
    <3>2. Failed(t, Held) \subseteq Faults /\ mem.cur.pattern \in Patterns
      BY <2>0, <2>7, PassedIsExposed, HeldIsPattern DEF RejectFruitless, Gated, ScanTypeOK, NetlistType
    <3> QED BY <3>1, <3>2, CommitTypes
  <2>8. CASE Accept
    <3>0. mem \in Mems
      BY DEF ScanTypeOK
    <3>1. PICK t \in Tentatives(Held) : CommitCandidate("accepted", ProtocolReasons(t), Failed(t, Held))
      BY <2>8, <3>0, AcceptFacts
    <3>2. Failed(t, Held) \subseteq Faults /\ mem.cur.pattern \in Patterns
      BY <2>0, <2>8, <3>0, PassedIsExposed, HeldIsPattern, AcceptFacts DEF ScanTypeOK, NetlistType
    <3> QED BY <3>1, <3>2, CommitTypes
  <2> QED BY <2>1, <2>2, <2>3, <2>4, <2>5, <2>6, <2>7, <2>8, Steps, QuietWritesNothing
          DEF Rejecting, Enumerate, ApplyScanExecutionMap, Invalidate, OpenRun, Preflight, Unsat,
          EndRound, Sweep, CompleteRun
<1> QED BY <1>1, <1>2, <1>4, <1>5 DEF ScanTypeOK

LEMMA ControlInductive ==
  ASSUME ScanTypeOK, ControlInv, [Next]_vars
  PROVE  ControlInv'
<1>0. mem \in Mems /\ mem.graded \in Nat /\ Len(mem.batch) \in Nat /\ mem.counter \in Nat
  BY DEF ScanTypeOK, Mems
<1>1. Fresh.graded <= Len(Fresh.batch) /\ Fresh.cur = NoCur /\ Fresh.terminal = "MAX_ROUNDS"
      /\ Fresh.seen = {} /\ Fresh.graded = 0 /\ ~Fresh.switched
  BY DEF Fresh
<1> USE DEF ControlInv, Opening, Holding, InSatLoop
<1>2. CASE UNCHANGED vars
  <2>1. pc' = pc /\ mem' = mem /\ runs' = runs
    BY <1>2 DEF vars, storeVars
  <2> QED BY <2>1 DEF IsSat
<1>3. CASE Open \/ Enumerate \/ ApplyScanExecutionMap \/ Invalidate
  <2>1. Opening /\ Opening' /\ mem' = mem
    BY <1>3 DEF Open, Enumerate, ApplyScanExecutionMap, Invalidate, Goto
  <2> QED BY <2>1
<1>4. CASE Preflight \/ RoundsExhausted \/ Sweep
  <2>1. mem' = mem /\ runs' = runs
    BY <1>4 DEF Preflight, RoundsExhausted, Sweep, Goto, storeVars
  <2>2. \/ pc = "preflight" /\ pc' = "round"
        \/ pc = "round" /\ pc' = "sweep"
        \/ pc = "sweep" /\ pc' = "finish"
    BY <1>4 DEF Preflight, RoundsExhausted, Sweep, Goto
  <2> QED BY <2>1, <2>2
<1>5. CASE InsertPending
  BY <1>5 DEF InsertPending, Goto, storeVars, IsSat
<1>6. CASE GoldenFails \/ CompleteRun \/ ZeroDenominator \/ Crash
  <2>1. pc' = "idle" /\ mem' = Fresh
    BY <1>6 DEF GoldenFails, CompleteRun, ZeroDenominator, Crash, Leave
  <2> QED BY <1>1, <2>1
<1>7. CASE OpenRun
  <2>1. runs' # <<>>
    BY <1>7 DEF OpenRun, StartRun, ScanTypeOK, StoreTypeOK
  <2> QED BY <1>0, <1>1, <1>7, <2>1, OpeningFrame DEF OpenRun, SameRandom
<1>8. CASE NothingLeft
  BY <1>0, <1>8, NothingLeftFrame DEF NothingLeft, SameRandom, storeVars, Goto
<1>9. CASE BeginRound
  <2>1. pc = "round" /\ runs' = runs
    BY Zenon, <1>9 DEF BeginRound, storeVars
  <2>2. mem'.graded <= Len(mem'.batch)
    <3>1. CASE SameRandom
      BY <3>1 DEF SameRandom
    <3>2. CASE pc' = "random" /\ ~mem.switched
      <4>1. mem'.graded = 0
        BY <1>0, <1>9, <2>1, <3>2, BeginRoundFrame
      <4>2. mem'.batch \in Seq(Patterns)
        BY MemInductive DEF Mems
      <4> QED BY <4>1, <4>2
    <3> QED BY <1>0, <1>9, <3>1, <3>2, BeginRoundFrame
  <2> QED BY <1>0, <1>9, <2>1, <2>2, BeginRoundFrame
<1>10. CASE NextRandom
  <2>1. pc = "random" /\ pc' = "pending" /\ runs' = runs /\ mem.graded # Len(mem.batch)
    BY <1>10 DEF NextRandom, storeVars, Goto, RandomStops
  <2>2. /\ mem'.graded = mem.graded + 1 /\ mem'.counter = mem.counter + 1 /\ mem'.batch = mem.batch
        /\ mem'.cur.fault = NoFault /\ mem'.cur.pattern = mem'.batch[mem'.graded]
        /\ mem'.terminal = mem.terminal
    BY <1>0, <1>10, NextRandomFrame
  <2>3. mem'.graded \in 1 .. Len(mem'.batch) /\ mem'.counter # 0
    BY <1>0, <2>1, <2>2
  <2>4. mem'.batch[mem'.graded] \in Patterns
    BY <1>0, <2>2, <2>3, FieldTypes
  <2> QED BY <1>0, <2>1, <2>2, <2>3, <2>4 DEF IsSat
<1>11. CASE RandomDone
  <2>1. pc = "random" /\ runs' = runs
    BY <1>11 DEF RandomDone, storeVars
  <2> QED BY <1>0, <1>11, <2>1, RandomDoneFrame
<1>12. CASE Rejecting
  <2>1. pc = "gate" /\ runs' = runs /\ AfterReject
    BY <1>12, RejectingFacts DEF storeVars
  <2> QED BY <1>0, <2>1, RejectFrame DEF SameRandom
<1>13. CASE Accept
  <2>1. pc = "gate" /\ runs' # <<>>
    BY <1>0, <1>13, AcceptFacts DEF UpdateRunVectorCount
  <2> QED BY <1>0, <1>13, <2>1, AcceptFrame
<1>14. CASE PlanRound
  <2>1. pc = "plan" /\ runs' = runs
    BY <1>14 DEF PlanRound, storeVars
  <2> QED BY <1>0, <1>14, <2>1, PlanFrame DEF SameRandom
<1>15. CASE PreSolve
  <2>1. pc = "wave" /\ runs' = runs
    BY <1>15 DEF PreSolve, storeVars
  <2> QED BY <1>0, <1>15, <2>1, PreSolveFrame DEF SameRandom
<1>16. CASE SatSeen \/ Timeout \/ Unknown
  <2>1. pc = "loop" /\ runs' = runs
    BY Zenon, <1>16 DEF SatSeen, Timeout, Unknown, GaveUp, storeVars
  <2> QED BY Zenon, <1>0, <1>16, <2>1, VisitFrame DEF VisitKeeps, SameRandom
<1>17. CASE SatCandidate
  <2>1. pc = "loop" /\ runs' = runs
    BY <1>17 DEF SatCandidate, storeVars
  <2>2. PICK f \in Targets, p \in Patterns :
          /\ pc' = "pending" /\ VisitKeeps(f) /\ mem'.counter = mem.counter + 1
          /\ mem'.cur = [fault |-> f, pattern |-> p]
    BY ZenonT(30), <1>0, <1>17, VisitFrame
  <2>3. f # NoFault
    BY <1>0, TargetsAreTodo, ScanSentinels
  <2>4. IsSat' /\ mem'.cur.pattern \in Patterns /\ mem'.counter # 0
    BY <1>0, <2>2, <2>3 DEF IsSat
  <2> QED BY <1>0, <2>1, <2>2, <2>4 DEF VisitKeeps, SameRandom
<1>18. CASE Unsat
  <2>1. pc = "loop" /\ runs' = runs /\ pc' = "loop" /\ \E f : mem' = Visited(f)
    BY <1>18 DEF Unsat, Goto
  <2> QED BY <1>0, <2>1, VisitedFrame
<1>19. CASE EndRound
  <2>1. pc = "loop" /\ runs' = runs
    BY <1>19 DEF EndRound
  <2> QED BY <1>0, <1>19, <2>1, EndFrame DEF SameRandom
<1> QED BY ZenonT(30), <1>2, <1>3, <1>4, <1>5, <1>6, <1>7, <1>8, <1>9, <1>10, <1>11, <1>12, <1>13, <1>14,
           <1>15, <1>16, <1>17, <1>18, <1>19, Steps DEF Quiet

-----------------------------------------------------------------------------
(* Which fault may carry which verdict *)

\* Steps that leave the fault columns alone.
LEMMA RowUntouched ==
  ASSUME ScanTypeOK, RowInv, UNCHANGED <<status, unresolved, certModel, QStems>>,
         pc' \in {"idle", "enumerate"} \/ pc \notin {"idle", "enumerate"},
         pc' = "finish" => pc # "sweep" /\ mem'.terminal \notin {"MAX_ROUNDS", "STALLED"},
         runs' = runs \/ runs' = Append(runs, NewRun)
           \/ (run \in DOMAIN runs /\ \E n : runs' = [runs EXCEPT ![run].count = n])
           \/ (run \in DOMAIN runs /\ runs' = [runs EXCEPT ![run].status = "aborted"])
  PROVE  RowInv'
<1>1. \A r \in DOMAIN runs' : runs'[r].terminal = "none" \/ (r \in DOMAIN runs /\ runs'[r].terminal = runs[r].terminal)
  <2>0. runs \in Seq(Runs)
    BY DEF ScanTypeOK, StoreTypeOK
  <2>1. CASE runs' = Append(runs, NewRun)
    BY <2>0, <2>1 DEF NewRun
  <2>2. CASE run \in DOMAIN runs /\ \E n : runs' = [runs EXCEPT ![run].count = n]
    BY <2>0, <2>2 DEF Runs
  <2>3. CASE run \in DOMAIN runs /\ runs' = [runs EXCEPT ![run].status = "aborted"]
    BY <2>0, <2>3 DEF Runs
  <2> QED BY <2>1, <2>2, <2>3
<1>2. SweptRunSettlesQStems'
  BY <1>1 DEF RowInv, SweptRunSettlesQStems
<1> QED BY <1>2 DEF RowInv, Settled

LEMMA RowInductive ==
  ASSUME ScanTypeOK, ControlInv, RowInv, [Next]_vars
  PROVE  RowInv'
<1>0. mem \in Mems /\ runs \in Seq(Runs) /\ status \in [Faults -> Statuses]
      /\ unresolved \in [Faults -> BOOLEAN] /\ certModel \in [Faults -> Models \cup {NoModel}]
  BY DEF ScanTypeOK, StoreTypeOK
<1>1. CASE UNCHANGED vars
  <2>1. UNCHANGED <<status, unresolved, certModel, QStems, runs, pc, mem>>
    BY <1>1 DEF vars, storeVars, netlist
  <2> QED BY <2>1 DEF RowInv, Settled, SweptRunSettlesQStems
<1>2. CASE Quiet /\ ~UNCHANGED vars
  <2>1. UNCHANGED <<status, unresolved, certModel, QStems, runs>>
    BY <1>2, QuietWritesNothing DEF storeVars, netlist
  <2>2. pc' \in {"idle", "enumerate"} \/ pc \notin {"idle", "enumerate"}
    BY Zenon, <1>2 DEF Quiet, RoundsExhausted, NothingLeft, BeginRound, NextRandom, RandomDone, PlanRound,
       PreSolve, SatSeen, SatCandidate, Timeout, Unknown, GaveUp, ZeroDenominator, Crash, Leave
  <2>3. pc' = "finish" => pc # "sweep" /\ mem'.terminal \notin {"MAX_ROUNDS", "STALLED"}
    <3>1. CASE RoundsExhausted \/ NextRandom \/ ZeroDenominator \/ Crash
      BY <3>1 DEF RoundsExhausted, NextRandom, ZeroDenominator, Crash, Leave, Goto
    <3>2. CASE NothingLeft \/ BeginRound \/ RandomDone
      BY <1>0, <3>2, NothingLeftFrame, BeginRoundFrame, RandomDoneFrame DEF NothingLeft, RandomDone
    <3>3. CASE PlanRound \/ PreSolve \/ SatSeen \/ SatCandidate \/ Timeout \/ Unknown
      BY <1>0, <3>3, PlanFrame, PreSolveFrame, VisitFrame
    <3> QED BY <1>2, <3>1, <3>2, <3>3 DEF Quiet
  <2> QED BY <2>1, <2>2, <2>3, RowUntouched
<1>3. CASE Open \/ InsertPending \/ Rejecting
  <2>1. UNCHANGED <<status, unresolved, certModel, QStems, runs>>
    BY <1>3, RejectingFacts DEF Open, InsertPending, storeVars, netlist
  <2>2. CASE Open \/ InsertPending
    BY <2>1, <2>2, RowUntouched DEF Open, InsertPending, Goto
  <2>3. CASE Rejecting
    BY <1>0, <2>1, <2>3, RejectingFacts, RejectFrame, RowUntouched
  <2> QED BY <1>3, <2>2, <2>3
<1>4. CASE OpenRun
  BY <1>0, <1>4, OpeningFrame, RowUntouched DEF OpenRun, StartRun, faultCols, netlist
<1>5. CASE GoldenFails
  <2>1. run \in DOMAIN runs
    BY <1>0, <1>5 DEF GoldenFails, ControlInv, Opening, run
  <2> QED BY <1>5, <2>1, RowUntouched DEF GoldenFails, faultCols, netlist, Leave
<1>6. CASE EndRound
  BY <1>0, <1>6, EndFrame, RowUntouched DEF EndRound, faultCols, netlist
<1>7. CASE Enumerate
  <2>1. /\ UNCHANGED <<unresolved, certModel, QStems, runs, mem>> /\ pc = "enumerate" /\ pc' = "map"
        /\ status' = IF Rows # {} THEN status
                     ELSE [f \in Faults |-> IF f \in Excluded \ ScanExcluded THEN "excluded" ELSE "undetected"]
    BY <1>7 DEF Enumerate, Goto, netlist
  <2>2. CASE Rows # {}
    BY <2>1, <2>2 DEF RowInv, Settled, SweptRunSettlesQStems, Rows
  <2>3. CASE Rows = {}
    <3>1. \A f \in Faults : status[f] = "absent"
      BY <2>3 DEF Rows
    <3>2. SweptRunSettlesQStems'
      BY <2>1, <3>1 DEF RowInv, SweptRunSettlesQStems, InScope
    <3> QED BY <2>1, <2>3, <3>2 DEF RowInv, Settled
  <2> QED BY <2>2, <2>3
<1>8. CASE ApplyScanExecutionMap
  <2>1. /\ UNCHANGED <<unresolved, certModel, QStems, runs, mem>> /\ pc = "map" /\ pc' = "invalidate"
        /\ \A f \in Faults : status'[f] = IF f \in ScanExcluded THEN "excluded" ELSE status[f]
    BY <1>8 DEF ApplyScanExecutionMap, Goto, netlist
  <2>2. \A f \in InScope : f \notin ScanExcluded
    BY ScanFaults DEF InScope
  <2>3. SweptRunSettlesQStems'
    BY ZenonT(30), <2>1, <2>2 DEF RowInv, SweptRunSettlesQStems, InScope
  <2> QED BY <2>1, <2>2, <2>3, ScanFaults DEF RowInv, Settled, InScope
<1>9. CASE Invalidate
  <2>1. UNCHANGED <<unresolved, QStems, runs, mem>> /\ pc = "invalidate" /\ pc' = "run"
    BY <1>9 DEF Invalidate, InvalidateStaleRedundant, Goto, netlist
  <2>2. \A f \in Faults : status'[f] = status[f] /\ certModel'[f] = certModel[f]
    BY SMTT(30), <1>0, <1>9 DEF Invalidate, InvalidateStaleRedundant, RowInv
  <2>3. SweptRunSettlesQStems'
    BY <2>1, <2>2 DEF RowInv, SweptRunSettlesQStems, InScope
  <2> QED BY Zenon, <2>1, <2>2, <2>3 DEF RowInv
<1>10. CASE Preflight
  <2>1. /\ UNCHANGED <<QStems, runs, mem>> /\ pc = "preflight" /\ pc' = "round"
        /\ \A f \in Faults :
             \/ status'[f] = status[f] /\ certModel'[f] = certModel[f]
             \/ /\ status[f] = "undetected" /\ status'[f] = "redundant" /\ certModel'[f] = Model
                /\ f \in InScope \ QStems
        /\ \A f \in Faults : unresolved[f] => unresolved'[f]
    BY Zenon, <1>0, <1>10 DEF Preflight, Goto, netlist
  <2>2. SweptRunSettlesQStems'
    BY <2>1 DEF RowInv, SweptRunSettlesQStems, InScope
  <2> QED BY ZenonT(30), <2>1, <2>2 DEF RowInv
<1>11. CASE Accept
  <2>0. mem.cur.pattern \in Patterns /\ pc = "gate" /\ runs # <<>>
    BY Zenon, <1>0, <1>11, AcceptFacts DEF ControlInv, Holding, Opening
  <2>1. PICK t \in Tentatives(Held) :
              /\ CommitDetections(Passed(t, Held), NextIndex)
              /\ UpdateRunVectorCount(run, NextIndex)
    BY <1>0, <1>11, AcceptFacts
  <2>2. Passed(t, Held) \subseteq InScope
    BY ZenonT(30), <2>0, PassedIsExposed, HeldIsPattern DEF ScanTypeOK, Mems
  <2>3. /\ UNCHANGED <<certModel, QStems>> /\ pc' \in {"loop", "random"}
        /\ \A f \in Faults : \/ status'[f] = "detected" /\ f \in InScope
                             \/ status'[f] = status[f] /\ unresolved'[f] = unresolved[f]
    <3>1. UNCHANGED QStems /\ pc' \in {"loop", "random"}
      BY ZenonT(30), <1>0, <1>11, AcceptFacts, AcceptFrame DEF netlist
    <3>2. ASSUME NEW f \in Faults
          PROVE  \/ status'[f] = "detected" /\ f \in InScope
                 \/ status'[f] = status[f] /\ unresolved'[f] = unresolved[f]
      BY Zenon, <1>0, <2>1, <2>2 DEF CommitDetections
    <3> QED BY ZenonT(30), <2>1, <3>1, <3>2 DEF CommitDetections
  <2>4. DOMAIN runs' = DOMAIN runs /\ \A r \in DOMAIN runs : runs'[r].terminal = runs[r].terminal
    BY <1>0, <2>1 DEF UpdateRunVectorCount, Runs
  <2>5. SweptRunSettlesQStems'
    BY Zenon, <2>3, <2>4 DEF RowInv, SweptRunSettlesQStems, InScope
  <2> QED BY <2>0, <2>3, <2>5 DEF RowInv
<1>12. CASE Unsat
  <2>1. PICK f \in Targets : IF NeedsProtocol(f) THEN MarkFaultProtocolUnresolved(f)
                                                 ELSE MarkFaultRedundant(f, Model)
    BY <1>12 DEF Unsat
  <2>2. f \in InScope
    BY <1>0 DEF Targets, Survivors, Mems
  <2>3. UNCHANGED <<QStems, runs>> /\ pc = "loop" /\ pc' = "loop"
    BY <1>12 DEF Unsat, Goto, netlist
  <2>4. CASE NeedsProtocol(f)
    <3>1. UNCHANGED <<status, certModel>> /\ \A g \in Faults : unresolved[g] => unresolved'[g]
      BY <1>0, <2>1, <2>4 DEF MarkFaultProtocolUnresolved
    <3> QED BY Zenon, <2>3, <3>1 DEF RowInv, SweptRunSettlesQStems, InScope
  <2>5. CASE ~NeedsProtocol(f)
    <3>1. /\ unresolved' = unresolved
          /\ \A g \in Faults :
             \/ status'[g] = status[g] /\ certModel'[g] = certModel[g]
             \/ /\ status[g] = "undetected" /\ status'[g] = "redundant" /\ certModel'[g] = Model
                /\ g \in InScope \ QStems
      BY <1>0, <2>1, <2>2, <2>5 DEF MarkFaultRedundant, CertifyRedundant, NeedsProtocol
    <3>2. SweptRunSettlesQStems'
      BY <2>3, <3>1 DEF RowInv, SweptRunSettlesQStems, InScope
    <3> QED BY Zenon, <2>3, <3>1, <3>2 DEF RowInv
  <2> QED BY <2>4, <2>5
<1>13. CASE Sweep
  <2>1. /\ UNCHANGED <<status, certModel, QStems, runs, mem>> /\ pc = "sweep" /\ pc' = "finish"
        /\ \A f \in Faults : unresolved'[f] <=>
             unresolved[f] \/ (f \in QStems \cap InScope /\ status[f] = "undetected")
    BY ZenonT(30), <1>0, <1>13 DEF Sweep, SweepQStems, Goto, netlist
  <2>2. ASSUME NEW f \in InScope \cap QStems PROVE Settled(f)'
    <3>1. f \in Faults /\ status[f] \in Statuses
      BY SMTT(30), <1>0 DEF InScope
    <3> QED BY <2>1, <3>1 DEF RowInv, Settled, Statuses, InScope
  <2>3. SweptRunSettlesQStems'
    BY <2>1, <2>2 DEF Settled, SweptRunSettlesQStems
  <2> QED BY <2>1, <2>2, <2>3 DEF RowInv
<1>14. CASE CompleteRun
  <2>1. /\ UNCHANGED <<status, unresolved, certModel, QStems>> /\ pc = "finish" /\ pc' = "idle"
        /\ CompleteRunWithAtpg(run, mem.terminal)
    BY <1>14 DEF CompleteRun, Leave, faultCols, netlist
  <2>2. DOMAIN runs' = DOMAIN runs
        /\ \A r \in DOMAIN runs : runs'[r].terminal = mem.terminal \/ runs'[r].terminal = runs[r].terminal
    BY <1>0, <2>1 DEF CompleteRunWithAtpg, Runs
  <2>3. SweptRunSettlesQStems'
    BY <2>1, <2>2 DEF RowInv, SweptRunSettlesQStems, Settled
  <2> QED BY Zenon, <2>1, <2>3 DEF RowInv
<1> QED BY <1>1, <1>2, <1>3, <1>4, <1>5, <1>6, <1>7, <1>8, <1>9, <1>10, <1>11, <1>12, <1>13, <1>14, Steps

-----------------------------------------------------------------------------
(* Evidence *)

LEMMA BackedInductive ==
  ASSUME ScanTypeOK, ControlInv, RowInv, ScanDetectionIsBacked, [Next]_vars
  PROVE  ScanDetectionIsBacked'
<1>0. mem \in Mems /\ status \in [Faults -> Statuses]
  BY DEF ScanTypeOK, StoreTypeOK
<1>1. UNCHANGED netlist
  BY NetlistFixed DEF ScanTypeOK
<1>2. \A h : Exposes(h)' = Exposes(h)
  BY <1>1 DEF Exposes, netlist, Transition
<1>3. ASSUME vectors \subseteq vectors', detections' = detections,
             \A f \in InScope : status'[f] = "detected" => status[f] = "detected"
      PROVE  ScanDetectionIsBacked'
  BY <1>2, <1>3 DEF ScanDetectionIsBacked
<1>4. CASE Accept
  <2>1. PICK t \in Tentatives(Held) :
              /\ vectors' = vectors \cup {[run |-> run, index |-> NextIndex, pattern |-> Held]}
              /\ CommitDetections(Passed(t, Held), NextIndex)
    BY <1>0, <1>4, AcceptFacts
  <2>2. mem.cur.pattern \in Patterns
    BY <1>0, <1>4, AcceptFacts DEF ControlInv, Holding
  <2>3. Passed(t, Held) \subseteq Exposes(Held)
    BY <2>2, HeldIsPattern, PassedIsExposed
  <2>4. /\ detections' = detections \cup {[fault |-> f, run |-> run, index |-> NextIndex] : f \in Passed(t, Held)}
        /\ \A f \in Faults : status'[f] = "detected" => f \in Passed(t, Held) \/ status[f] = "detected"
    BY <1>0, <2>1 DEF CommitDetections
  <2>5. ASSUME NEW f \in InScope, status'[f] = "detected"
        PROVE  \E d \in detections' : d.fault = f
    <3>1. CASE f \in Passed(t, Held)
      <4>1. [fault |-> f, run |-> run, index |-> NextIndex] \in detections'
        BY Zenon, <2>4, <3>1
      <4> QED BY <4>1
    <3>2. CASE status[f] = "detected"
      BY Zenon, <2>4, <3>2 DEF ScanDetectionIsBacked
    <3> QED BY Zenon, <2>4, <2>5, <3>1, <3>2 DEF InScope
  <2>6. ASSUME NEW d \in detections'
        PROVE  \E v \in vectors' : v.run = d.run /\ v.index = d.index /\ d.fault \in Exposes(v.pattern)
    <3>1. CASE d \in detections
      BY <2>1, <3>1 DEF ScanDetectionIsBacked
    <3>2. CASE d \notin detections
      <4>1. PICK f \in Passed(t, Held) : d = [fault |-> f, run |-> run, index |-> NextIndex]
        BY Zenon, <2>4, <2>6, <3>2
      <4> DEFINE v == [run |-> run, index |-> NextIndex, pattern |-> Held]
      <4>2. v \in vectors' /\ v.run = d.run /\ v.index = d.index /\ d.fault \in Exposes(v.pattern)
        BY <2>1, <2>3, <4>1
      <4> QED BY <4>2
    <3> QED BY <3>1, <3>2
  <2> QED BY SMTT(30), <1>2, <2>5, <2>6 DEF ScanDetectionIsBacked
<1>5. CASE Quiet \/ Open \/ InsertPending \/ Rejecting \/ OpenRun \/ GoldenFails \/ EndRound \/ CompleteRun
  BY <1>3, <1>5, QuietWritesNothing, RejectingFacts DEF Open, InsertPending, OpenRun, GoldenFails,
     EndRound, CompleteRun, storeVars, faultCols
<1>6. CASE Enumerate
  BY <1>3, <1>6 DEF Enumerate, InScope
<1>7. CASE ApplyScanExecutionMap
  BY <1>3, <1>7 DEF ApplyScanExecutionMap, InScope
<1>8. CASE Invalidate
  BY <1>3, <1>8 DEF Invalidate, InvalidateStaleRedundant, InScope
<1>9. CASE Preflight
  BY <1>3, <1>9 DEF Preflight, InScope
<1>10. CASE Unsat
  <2>1. \A f \in Faults : status'[f] = "detected" => status[f] = "detected"
    BY <1>0, <1>10 DEF Unsat, MarkFaultProtocolUnresolved, MarkFaultRedundant, CertifyRedundant
  <2> QED BY <1>3, <1>10, <2>1 DEF Unsat, InScope
<1>11. CASE Sweep
  BY <1>3, <1>11 DEF Sweep, SweepQStems
<1> QED BY <1>4, <1>5, <1>6, <1>7, <1>8, <1>9, <1>10, <1>11, Steps

-----------------------------------------------------------------------------
(* The round's sets against the store *)

LEMMA QuietActive == Quiet \/ Rejecting \/ InsertPending \/ EndRound => Active' = Active
<1>1. Quiet \/ Rejecting \/ InsertPending \/ EndRound => UNCHANGED <<status, unresolved>>
  BY QuietWritesNothing, RejectingFacts DEF InsertPending, EndRound, storeVars, faultCols
<1> QED BY <1>1 DEF Active

\* A visit settles or takes aside its target and no other fault.
LEMMA UnsatActive ==
  ASSUME ScanTypeOK, Unsat
  PROVE  \E f \in Targets : mem' = Visited(f) /\ Active \ {f} \subseteq Active' /\ Active' \subseteq Active
<1>1. PICK f \in Targets : /\ IF NeedsProtocol(f) THEN MarkFaultProtocolUnresolved(f)
                                                  ELSE MarkFaultRedundant(f, Model)
                           /\ mem' = Visited(f)
  BY DEF Unsat, Goto
<1>2. /\ \A g \in Faults : g # f => status'[g] = status[g] /\ unresolved'[g] = unresolved[g]
      /\ status'[f] = "undetected" /\ ~unresolved'[f] => status[f] = "undetected" /\ ~unresolved[f]
  <2>1. f \in Faults
    BY TargetsAreTodo DEF ScanTypeOK
  <2>2. CASE NeedsProtocol(f)
    BY <1>1, <2>1, <2>2 DEF MarkFaultProtocolUnresolved, ScanTypeOK, StoreTypeOK
  <2>3. CASE ~NeedsProtocol(f)
    BY <1>1, <2>1, <2>3 DEF MarkFaultRedundant, CertifyRedundant, ScanTypeOK, StoreTypeOK
  <2> QED BY <2>2, <2>3
<1> QED BY Zenon, <1>1, <1>2 DEF Active, InScope

LEMMA AcceptActive ==
  ASSUME ScanTypeOK, mem.cur.pattern \in Patterns, NEW t \in Tentatives(Held),
         CommitDetections(Passed(t, Held), NextIndex)
  PROVE  Active' = Active \ Passed(t, Held)
<1>1. \A f \in Faults : /\ f \in Passed(t, Held) => status'[f] = "detected"
                        /\ f \notin Passed(t, Held) => status'[f] = status[f] /\ unresolved'[f] = unresolved[f]
  BY DEF CommitDetections, ScanTypeOK, StoreTypeOK
<1> QED BY <1>1 DEF Active, InScope

LEMMA LoopInductive ==
  ASSUME ScanTypeOK, ControlInv, LoopInv, [Next]_vars
  PROVE  LoopInv'
<1>0. mem \in Mems
  BY DEF ScanTypeOK
<1> USE DEF LoopInv, InRandom, InSatLoop, Holding
<1>1. CASE UNCHANGED vars
  <2>1. Active' = Active /\ pc' = pc /\ mem' = mem
    BY <1>1, QuietActive DEF vars, Quiet
  <2> QED BY <2>1 DEF IsSat
<1>3. CASE BeginRound
  <2>1. Active' = Active
    BY <1>3, QuietActive DEF Quiet
  <2> QED BY <1>0, <1>3, <2>1, BeginRoundFrame
<1>4. CASE NextRandom
  <2>1. Active' = Active
    BY <1>4, QuietActive DEF Quiet
  <2>2. pc = "random" /\ pc' = "pending" /\ ~IsSat' /\ mem'.active = mem.active
    BY <1>0, <1>4, NextRandomFrame DEF NextRandom, Goto, IsSat, SameLoop
  <2> QED BY <2>1, <2>2
<1>5. CASE InsertPending
  <2>1. Active' = Active
    BY <1>5, QuietActive
  <2> QED BY <1>5, <2>1 DEF InsertPending, Goto, IsSat
<1>6. CASE Rejecting
  <2>1. Active' = Active /\ pc = "gate"
    BY <1>6, QuietActive, RejectingFacts
  <2> QED BY <1>0, <1>6, <2>1, RejectFrame, RejectingFacts DEF SameLoop
<1>7. CASE Accept
  <2>1. PICK t \in Tentatives(Held) : CommitDetections(Passed(t, Held), NextIndex)
    BY ZenonT(30), <1>0, <1>7, AcceptFacts
  <2>2. pc = "gate" /\ mem.cur.pattern \in Patterns
    BY <1>0, <1>7, AcceptFacts DEF ControlInv
  <2>3. Active' \subseteq Active
    BY <2>1, <2>2, AcceptActive
  <2> QED BY <1>0, <1>7, <2>2, <2>3, AcceptFrame
<1>8. CASE PlanRound
  <2>1. Active' = Active
    BY <1>8, QuietActive DEF Quiet
  <2> QED BY <1>0, <1>8, <2>1, PlanFrame
<1>9. CASE PreSolve
  <2>1. Active' = Active /\ pc = "wave"
    BY Zenon, <1>9, QuietActive DEF Quiet, PreSolve
  <2> QED BY <1>0, <1>9, <2>1, PreSolveFrame DEF SameLoop
<1>10. CASE SatSeen \/ Timeout \/ Unknown
  <2>1. Active' = Active /\ pc = "loop"
    BY Zenon, <1>10, QuietActive DEF Quiet, SatSeen, Timeout, Unknown, GaveUp
  <2> QED BY ZenonT(30), <1>0, <1>10, <2>1, VisitFrame DEF VisitKeeps
<1>11. CASE SatCandidate
  <2>1. Active' = Active /\ pc = "loop"
    BY ZenonT(30), <1>11, QuietActive DEF Quiet, SatCandidate
  <2>2. PICK f \in Targets, p \in Patterns :
              /\ pc' = "pending" /\ VisitKeeps(f) /\ mem'.cur = [fault |-> f, pattern |-> p]
    BY Zenon, <1>0, <1>11, VisitFrame
  <2>3. f \in mem.todo \cap mem.current
    BY Zenon, <1>0, <2>2, TargetsAreTodo DEF ScanTypeOK
  <2>4. f \in Active
    BY <1>0, <2>1, <2>3 DEF LoopInv, InSatLoop
  <2>5. mem'.cur.fault = f
    BY <2>2
  <2> QED BY ZenonT(30), <2>1, <2>2, <2>4, <2>5 DEF VisitKeeps
<1>12. CASE Unsat
  <2>1. PICK f \in Targets : mem' = Visited(f) /\ Active \ {f} \subseteq Active' /\ Active' \subseteq Active
    BY <1>12, UnsatActive
  <2>2. pc = "loop" /\ pc' = "loop"
    BY <1>12 DEF Unsat, Goto
  <2>3. mem'.todo = mem.todo \ {f} /\ mem'.active = mem.active /\ mem'.current = mem.current
    BY <1>0, <2>1, VisitedFrame
  <2> QED BY <2>1, <2>2, <2>3
<1>13. CASE Open \/ Enumerate \/ ApplyScanExecutionMap \/ Invalidate \/ OpenRun \/ Preflight \/ GoldenFails
            \/ EndRound \/ Sweep \/ CompleteRun
  <2>1. pc' \in {"enumerate", "map", "invalidate", "run", "round", "preflight", "idle", "finish", "sweep"}
    BY <1>0, <1>13, OpeningFrame, EndFrame DEF Open, Enumerate, ApplyScanExecutionMap, Invalidate,
      Preflight, GoldenFails, Sweep, CompleteRun, Goto, Leave
  <2> QED BY <2>1
<1>14. CASE RoundsExhausted \/ NothingLeft \/ RandomDone \/ ZeroDenominator \/ Crash
  <2>1. pc' \in {"sweep", "finish", "plan", "idle"}
    BY <1>0, <1>14, RandomDoneFrame DEF RoundsExhausted, NothingLeft, ZeroDenominator, Crash, Goto, Leave
  <2> QED BY <2>1
<1> QED BY Zenon, <1>1, <1>3, <1>4, <1>5, <1>6, <1>7, <1>8, <1>9, <1>10, <1>11, <1>12, <1>13, <1>14, Steps DEF Quiet

-----------------------------------------------------------------------------
(* Theorems *)

ScanInv == ScanTypeOK /\ ControlInv /\ RowInv /\ LoopInv /\ ScanDetectionIsBacked

LEMMA InitScan == Init => ScanInv
<1> SUFFICES ASSUME Init PROVE ScanInv
  OBVIOUS
<1>0. /\ pc = "idle" /\ mem = Fresh /\ candidates = {} /\ blocked = {} /\ vectors = {} /\ detections = {}
      /\ runs = <<>> /\ status = [f \in Faults |-> "absent"]
  BY DEF Init, StoreInit
<1>1. StoreTypeOK
  <2>1. status \in [Faults -> Statuses]
    BY <1>0 DEF Statuses
  <2>2. /\ unresolved \in [Faults -> BOOLEAN] /\ detBy \in [Faults -> Nat]
        /\ certModel \in [Faults -> Models \cup {NoModel}]
        /\ satOutcome \in [Faults -> {"none", "timeout", "unknown"}]
    BY DEF Init, StoreInit
  <2>3. runs \in Seq(Runs) /\ vectors \subseteq VectorRows /\ detections \subseteq DetectionRows
    BY <1>0
  <2> QED BY <2>1, <2>2, <2>3 DEF StoreTypeOK
<1>2. NetlistType
  <2>1. QStems \subseteq Faults /\ reduced \in [Patterns -> SUBSET InScope] /\ protocol \in [Patterns -> SUBSET QStems]
    BY ScanFaults DEF Init
  <2>2. captured \in [Patterns -> SUBSET QStems] /\ (Transition => \A p \in Patterns : captured[p] = {})
    <3>1. CASE Transition
      BY <3>1 DEF Init
    <3>2. CASE ~Transition
      BY <3>2 DEF Init
    <3> QED BY <3>1, <3>2
  <2> QED BY <2>1, <2>2 DEF NetlistType
<1>3. ScanTypeOK
  BY <1>0, <1>1, <1>2, FreshIsMem DEF ScanTypeOK, Labels
<1>4. /\ Fresh.graded = 0 /\ Fresh.batch = <<>> /\ Fresh.cur = NoCur /\ Fresh.terminal = "MAX_ROUNDS"
  BY DEF Fresh
<1>5. ControlInv
  BY <1>0, <1>4 DEF ControlInv, Opening, Holding, InSatLoop
<1>6. RowInv /\ ScanDetectionIsBacked
  BY <1>0 DEF RowInv, SweptRunSettlesQStems, ScanDetectionIsBacked, InScope
<1>7. LoopInv
  BY <1>0 DEF LoopInv, InRandom, InSatLoop, Holding
<1> QED BY <1>3, <1>5, <1>6, <1>7 DEF ScanInv

LEMMA ScanInvInductive == ScanInv /\ [Next]_vars => ScanInv'
BY TypeInductive, ControlInductive, RowInductive, LoopInductive, BackedInductive DEF ScanInv

\* The local variables and the tables of a scan campaign keep their shape and their
\* bookkeeping, whatever fails and wherever the process dies.
THEOREM ScanInvariant == Spec => []ScanInv
BY InitScan, ScanInvInductive, PTL DEF Spec

\* Every scan detection names a stored vector that exposes the fault through the engine
\* trusted for it.
THEOREM ScanEvidence == Spec => []ScanDetectionIsBacked
<1>1. ScanInv => ScanDetectionIsBacked
  BY DEF ScanInv
<1> QED BY <1>1, ScanInvariant, PTL

\* _termination_sweep_q_stems leaves no Q stem open after STALLED or MAX_ROUNDS, for good.
THEOREM ScanSweepSettles == Spec => []SweptRunSettlesQStems
<1>1. ScanInv => SweptRunSettlesQStems
  BY DEF ScanInv, RowInv
<1> QED BY <1>1, ScanInvariant, PTL


-----------------------------------------------------------------------------
(* The candidate and vector tables *)

Accepted(r) == {c \in candidates : c.run = r /\ c.status = "accepted"}
VectorsOf(r) == {v \in vectors : v.run = r}

\* The candidate and vector tables: ids are unique in a run, and the candidate in hand is
\* the newest row.
AtomicInv ==
  /\ IsFiniteSet(candidates) /\ IsFiniteSet(vectors)
  /\ \A c, d \in candidates : c.run = d.run /\ c.id = d.id => c = d
  /\ \A c \in candidates : c.run \in DOMAIN runs
  /\ \A v \in vectors : v.run \in DOMAIN runs
  /\ ~Opening => /\ \A c \in candidates : c.run = run => c.id <= mem.counter
                 /\ runs[run].count = Len(mem.tests)
  /\ pc = "pending" => \A c \in candidates : c.run = run => c.id # mem.counter
  /\ pc = "gate" => \E c \in candidates : /\ c.run = run /\ c.id = mem.counter
                                          /\ c.status = "pending"
  /\ AcceptanceIsAtomic

\* Rewriting the status of some rows, the accepted ones and their number aside.
Restatus(S, outcome) ==
  {IF c \in S THEN [c EXCEPT !.status = outcome] ELSE c : c \in candidates}

LEMMA RestatusKeepsIds ==
  ASSUME candidates \subseteq CandidateRows, IsFiniteSet(candidates), NEW S, NEW outcome,
         \A c, d \in candidates : c.run = d.run /\ c.id = d.id => c = d,
         candidates' = Restatus(S, outcome)
  PROVE  /\ IsFiniteSet(candidates')
         /\ \A c \in candidates' : \E b \in candidates : c.run = b.run /\ c.id = b.id
         /\ \A c, d \in candidates' : c.run = d.run /\ c.id = d.id => c = d
<1> DEFINE F(c) == IF c \in S THEN [c EXCEPT !.status = outcome] ELSE c
<1>1. candidates' = {F(c) : c \in candidates}
  BY DEF Restatus
<1>2. IsFiniteSet(candidates')
  <2> DEFINE g == [c \in candidates |-> F(c)]
  <2>1. g \in [candidates -> candidates'] /\ \A d \in candidates' : \E c \in candidates : g[c] = d
    BY <1>1
  <2> HIDE DEF g
  <2>2. g \in Surjection(candidates, candidates')
    BY <2>1 DEF Surjection
  <2> QED BY <2>2, FS_Surjection
<1>3. \A c \in candidates : F(c).run = c.run /\ F(c).id = c.id
  BY DEF CandidateRows
<1> HIDE DEF F
<1>4. \A c, d \in candidates' : c.run = d.run /\ c.id = d.id => c = d
  BY <1>1, <1>3
<1>5. \A c \in candidates' : \E b \in candidates : c.run = b.run /\ c.id = b.id
  BY <1>1, <1>3
<1> QED BY <1>2, <1>4, <1>5

LEMMA RestatusOfPending ==
  ASSUME candidates \subseteq CandidateRows, NEW S \in SUBSET Pending,
         NEW outcome \in {"rejected", "aborted"}, candidates' = Restatus(S, outcome), NEW r
  PROVE  Accepted(r)' = Accepted(r) /\ Pending' = Pending \ S
<1>1. \A c \in candidates : c \in S => c.status = "pending" /\ [c EXCEPT !.status = outcome].status = outcome
  BY DEF CandidateRows, Pending
<1>2. \A c : c \in candidates' <=> \E b \in candidates : c = IF b \in S THEN [b EXCEPT !.status = outcome] ELSE b
  BY DEF Restatus
<1>3. \A c \in Accepted(r) : c \in candidates' /\ c.run = r /\ c.status = "accepted"
  BY <1>1, <1>2 DEF Accepted
<1>4. \A c \in candidates' : c.status \in {"accepted", "pending"} => c \in candidates /\ c \notin S
  BY Zenon, <1>1, <1>2
<1>5. Accepted(r)' = Accepted(r)
  BY <1>3, <1>4 DEF Accepted
<1>6. \A c \in Pending \ S : c \in candidates'
  BY <1>2 DEF Pending
<1>7. Pending' = Pending \ S
  BY <1>4, <1>6 DEF Pending
<1> QED BY <1>5, <1>7

LEMMA RestatusToAccepted ==
  ASSUME candidates \subseteq CandidateRows, NEW c0 \in candidates, c0.status = "pending",
         candidates' = Restatus({c0}, "accepted"), NEW r
  PROVE  /\ Accepted(r)' = IF r = c0.run THEN Accepted(r) \cup {[c0 EXCEPT !.status = "accepted"]}
                                         ELSE Accepted(r)
         /\ Pending' = Pending \ {c0}
<1> DEFINE c1 == [c0 EXCEPT !.status = "accepted"]
<1>1. c1.status = "accepted" /\ c1.run = c0.run
  BY DEF CandidateRows
<1>2. \A c : c \in candidates' <=> c = c1 \/ (c \in candidates /\ c # c0)
  BY DEF Restatus
<1> HIDE DEF c1
<1>3. Pending' = Pending \ {c0}
  BY <1>1, <1>2 DEF Pending
<1>4. \A c : c \in Accepted(r)' <=> c \in Accepted(r) \/ (c = c1 /\ r = c0.run)
  BY <1>1, <1>2 DEF Accepted
<1>5. Accepted(r)' = IF r = c0.run THEN Accepted(r) \cup {c1} ELSE Accepted(r)
  BY <1>4
<1> QED BY <1>3, <1>5 DEF c1

\* At the gate the commit addresses exactly the candidate in hand.
LEMMA CommitIsRestatus ==
  ASSUME ScanTypeOK, AtomicInv, pc = "gate", NEW outcome, NEW why, NEW block,
         CommitCandidate(outcome, why, block)
  PROVE  \E c0 \in candidates : /\ c0.run = run /\ c0.id = mem.counter /\ c0.status = "pending"
                                /\ Pending = {c0} /\ candidates' = Restatus({c0}, outcome)
<1>1. PICK c0 \in candidates : c0.run = run /\ c0.id = mem.counter /\ c0.status = "pending"
  BY DEF AtomicInv
<1>2. \A c \in candidates : c.run = run /\ c.id = mem.counter <=> c \in {c0}
  BY <1>1 DEF AtomicInv
<1>3. candidates' = Restatus({c0}, outcome)
  BY <1>2 DEF CommitCandidate, Restatus
<1>4. Pending \subseteq {c0}
  BY <1>2 DEF AtomicInv, AcceptanceIsAtomic, Pending
<1>5. Pending = {c0}
  BY <1>1, <1>4 DEF Pending
<1> QED BY Zenon, <1>1, <1>3, <1>5

\* The tables of runs are unchanged: so is what AcceptanceIsAtomic says of each run.
RunAgrees(r) ==
  /\ Cardinality(Accepted(r)) = runs[r].count
  /\ {v.index : v \in VectorsOf(r)} = 1 .. runs[r].count
  /\ Cardinality(VectorsOf(r)) = runs[r].count

LEMMA AtomicIs ==
  AcceptanceIsAtomic <=>
    /\ pc # "idle" => \A c \in Pending : pc = "gate" /\ c.run = run /\ c.id = mem.counter
    /\ \A r \in DOMAIN runs : RunAgrees(r)
BY Zenon DEF AcceptanceIsAtomic, RunAgrees, Accepted, VectorsOf, Pending

\* Steps that leave the candidates, the vectors and the run rows alone.
LEMMA AtomicUntouched ==
  ASSUME ScanTypeOK, AtomicInv, UNCHANGED <<candidates, vectors, runs>>,
         pc = "idle" => pc' = "idle", pc # "gate" \/ pc' = "idle", pc' # "gate",
         Opening => Opening', pc' = "pending" => mem'.counter = mem.counter + 1 /\ mem'.tests = mem.tests,
         ~Opening' /\ pc' # "pending" => SameCount
  PROVE  AtomicInv'
<1>1. AcceptanceIsAtomic'
  <2>1. \A r \in DOMAIN runs' : RunAgrees(r)'
    BY Zenon, AtomicIs DEF AtomicInv, RunAgrees, Accepted, VectorsOf
  <2>2. pc' # "idle" => Pending = {}
    BY Zenon, AtomicIs DEF AtomicInv
  <2>3. pc' # "idle" => Pending' = {}
    BY <2>2 DEF Pending
  <2> QED BY Zenon, <2>1, <2>3, AtomicIs DEF AtomicInv, AcceptanceIsAtomic, RunAgrees, Accepted, VectorsOf, Pending
<1>2. mem.counter \in Nat /\ \A c \in candidates : c.id \in Nat
  BY DEF ScanTypeOK, Mems, CandidateRows
<1>3. ~Opening' => /\ \A c \in candidates : c.run = run => c.id <= mem'.counter
                   /\ runs[run].count = Len(mem'.tests)
                   /\ pc' = "pending" => \A c \in candidates : c.run = run => c.id # mem'.counter
  BY <1>2 DEF AtomicInv, SameCount, Opening
<1> QED BY <1>1, <1>3 DEF AtomicInv, run, Opening

LEMMA AtomicInductive ==
  ASSUME ScanTypeOK, ControlInv, AtomicInv, [Next]_vars
  PROVE  AtomicInv'
<1>0. mem \in Mems /\ runs \in Seq(Runs) /\ candidates \subseteq CandidateRows
  BY DEF ScanTypeOK, StoreTypeOK
<1>1. CASE UNCHANGED vars
  BY Zenon, <1>1 DEF vars, storeVars, scanTables, AtomicInv, AcceptanceIsAtomic, Opening, run, Pending
<1>2. CASE Quiet /\ ~UNCHANGED vars
  <2>1. UNCHANGED <<candidates, vectors, runs>>
    BY <1>2, QuietWritesNothing DEF storeVars, scanTables
  <2>2. CASE ZeroDenominator \/ Crash
    BY <2>1, <2>2, AtomicUntouched DEF ZeroDenominator, Crash, Leave, Opening
  <2>3. CASE RoundsExhausted \/ NothingLeft \/ BeginRound
    <3>1. pc = "round" /\ pc' \in {"sweep", "finish", "plan", "random"}
      BY Zenon, <1>0, <2>3, BeginRoundFrame DEF RoundsExhausted, NothingLeft, BeginRound, Goto
    <3>2. SameCount
      BY <1>0, <2>3, NothingLeftFrame, BeginRoundFrame DEF RoundsExhausted, Goto, SameCount
    <3> QED BY <2>1, <3>1, <3>2, AtomicUntouched DEF Opening
  <2>4. CASE NextRandom
    <3>1. pc = "random" /\ pc' = "pending" /\ mem'.counter = mem.counter + 1 /\ mem'.tests = mem.tests
      BY <1>0, <2>4, NextRandomFrame DEF NextRandom, Goto
    <3> QED BY <2>1, <3>1, AtomicUntouched DEF Opening
  <2>5. CASE RandomDone \/ PlanRound \/ PreSolve
    <3>1. pc \in {"random", "plan", "wave"} /\ pc' \in {"finish", "plan", "wave", "loop"} /\ SameCount
      BY ZenonT(30), <1>0, <2>5, RandomDoneFrame, PlanFrame, PreSolveFrame DEF RandomDone, PlanRound, PreSolve
    <3> QED BY <2>1, <3>1, AtomicUntouched DEF Opening
  <2>6. CASE SatSeen \/ Timeout \/ Unknown
    <3>1. pc = "loop" /\ pc' = "loop" /\ SameCount
      BY Zenon, <1>0, <2>6, VisitFrame DEF SatSeen, Timeout, Unknown, GaveUp, VisitKeeps, SameCount
    <3> QED BY <2>1, <3>1, AtomicUntouched DEF Opening
  <2>7. CASE SatCandidate
    <3>1. pc = "loop" /\ pc' = "pending" /\ mem'.counter = mem.counter + 1 /\ mem'.tests = mem.tests
      BY Zenon, <1>0, <2>7, VisitFrame DEF SatCandidate, VisitKeeps
    <3> QED BY <2>1, <3>1, AtomicUntouched DEF Opening
  <2> QED BY <1>2, <2>2, <2>3, <2>4, <2>5, <2>6, <2>7 DEF Quiet
<1>3. CASE Enumerate \/ ApplyScanExecutionMap \/ Invalidate
  <2>1. /\ pc \in {"enumerate", "map", "invalidate"} /\ pc' \in {"map", "invalidate", "run"}
        /\ UNCHANGED <<candidates, vectors, runs>>
    BY <1>3 DEF Enumerate, ApplyScanExecutionMap, Invalidate, Goto, scanTables
  <2> QED BY <2>1, AtomicUntouched DEF Opening
<1>4. CASE Preflight \/ Unsat \/ EndRound \/ Sweep
  <2>1. UNCHANGED <<candidates, vectors, runs>>
    BY ZenonT(30), <1>4 DEF Preflight, Unsat, EndRound, Sweep, scanTables
  <2>2. pc \in {"preflight", "loop", "sweep"} /\ pc' \in {"round", "loop", "finish", "sweep"}
    BY ZenonT(30), <1>0, <1>4, EndFrame DEF Preflight, Unsat, EndRound, Sweep, Goto
  <2>3. SameCount
    BY ZenonT(30), <1>0, <1>4, EndFrame, VisitedFrame DEF Preflight, Unsat, Sweep, Goto, SameCount
  <2> QED BY <2>1, <2>2, <2>3, AtomicUntouched DEF Opening
<1>5. CASE Open
  <2>1. candidates' = Restatus(Pending, "aborted") /\ UNCHANGED <<vectors, runs>>
    BY <1>5 DEF Open, AbortPendingCandidates, Restatus, Pending, storeVars
  <2>2. /\ IsFiniteSet(candidates')
        /\ \A c \in candidates' : \E b \in candidates : c.run = b.run /\ c.id = b.id
        /\ \A c, d \in candidates' : c.run = d.run /\ c.id = d.id => c = d
    BY Zenon, <1>0, <2>1, RestatusKeepsIds DEF AtomicInv
  <2>3. Pending' = {} /\ \A r : Accepted(r)' = Accepted(r)
    BY <1>0, <2>1, RestatusOfPending
  <2>4. \A r \in DOMAIN runs' : RunAgrees(r)'
    BY Zenon, <2>1, <2>3, AtomicIs DEF AtomicInv, RunAgrees, VectorsOf
  <2>5. Opening' /\ pc' = "enumerate"
    BY <1>5 DEF Open, Opening, Goto
  <2>6. AcceptanceIsAtomic'
    BY Zenon, <2>3, <2>4 DEF AcceptanceIsAtomic, RunAgrees, Accepted, VectorsOf
  <2> QED BY Zenon, <2>1, <2>2, <2>5, <2>6 DEF AtomicInv
<1>6. CASE OpenRun
  <2>1. /\ runs' = Append(runs, NewRun) /\ UNCHANGED <<candidates, vectors>> /\ pc = "run"
        /\ pc' \in {"round", "preflight"} /\ mem'.tests = <<>>
    <3>1. runs' = Append(runs, NewRun) /\ UNCHANGED <<candidates, vectors>> /\ pc = "run"
      BY SMTT(30), <1>6 DEF OpenRun, StartRun, scanTables
    <3>2. mem.tests = <<>>
      BY <3>1 DEF ControlInv, Opening, Fresh
    <3> QED BY <1>0, <1>6, <3>1, <3>2, OpeningFrame DEF SameCount
  <2>2. /\ DOMAIN runs' = DOMAIN runs \cup {run'} /\ run' = run + 1 /\ run' \notin DOMAIN runs
        /\ \A r \in DOMAIN runs : runs'[r] = runs[r]
        /\ runs'[run'] = NewRun
    BY <1>0, <2>1 DEF run
  <2>3. Pending' = {}
    BY Zenon, <2>1, AtomicIs DEF AtomicInv, Pending
  <2>4. \A r \in DOMAIN runs : RunAgrees(r)'
    BY Zenon, <2>1, <2>2, AtomicIs DEF AtomicInv, RunAgrees, VectorsOf, Accepted
  <2>5. ASSUME NEW r, r = run' PROVE RunAgrees(r)'
    <3>1. Accepted(r)' = {} /\ VectorsOf(r)' = {} /\ runs'[r].count = 0
      <4>1. r \notin DOMAIN runs /\ runs'[r].count = 0
        BY <1>0, <2>2, <2>5 DEF NewRun
      <4>2. (\A c \in candidates' : c.run # r) /\ (\A v \in vectors' : v.run # r)
        BY <2>1, <4>1 DEF AtomicInv
      <4> QED BY <4>1, <4>2 DEF Accepted, VectorsOf
    <3> QED BY <3>1, FS_EmptySet DEF RunAgrees
  <2>6. AcceptanceIsAtomic'
    <3>1. \A r \in DOMAIN runs' : RunAgrees(r)'
      BY <2>2, <2>4, <2>5
    <3> QED BY Zenon, <2>3, <3>1 DEF AcceptanceIsAtomic, RunAgrees, Accepted, VectorsOf
  <2>7. /\ \A c \in candidates' : c.run # run' /\ c.run \in DOMAIN runs'
        /\ \A v \in vectors' : v.run \in DOMAIN runs'
        /\ runs'[run'].count = Len(mem'.tests)
    <3>1. NewRun.count = Len(mem'.tests)
      BY <2>1 DEF NewRun
    <3>2. (\A c \in candidates : c.run \in DOMAIN runs) /\ (\A v \in vectors : v.run \in DOMAIN runs)
      BY DEF AtomicInv
    <3>3. candidates' = candidates /\ vectors' = vectors
      BY <2>1
    <3> QED BY <2>2, <3>1, <3>2, <3>3, Zenon
  <2> QED BY Zenon, <2>1, <2>6, <2>7 DEF AtomicInv
<1>7. CASE InsertPending
  <2> DEFINE c0 == [run |-> run, id |-> mem.counter, pattern |-> TrackKey(mem.cur.pattern),
                    target |-> mem.cur.fault, status |-> "pending"]
  <2>1. /\ candidates' = candidates \cup {c0} /\ UNCHANGED <<vectors, runs, mem>>
        /\ pc = "pending" /\ pc' = "gate"
    BY <1>7 DEF InsertPending, InsertPendingCandidate, storeVars, Goto
  <2>2. c0.run = run /\ c0.id = mem.counter /\ c0.status = "pending"
    OBVIOUS
  <2> HIDE DEF c0
  <2>3. run \in DOMAIN runs /\ mem.counter \in Nat
    BY SMTT(30), <1>0, <2>1 DEF ControlInv, Opening, run, Mems
  <2>4. IsFiniteSet(candidates')
    BY <2>1, FS_AddElement DEF AtomicInv
  <2>5. Pending' = {c0}
    BY <2>1, <2>2, AtomicIs DEF AtomicInv, Pending
  <2>6. \A r \in DOMAIN runs : RunAgrees(r)'
    <3>1. \A r : Accepted(r)' = Accepted(r)
      BY <2>1, <2>2 DEF Accepted
    <3> QED BY Zenon, <2>1, <3>1, AtomicIs DEF AtomicInv, RunAgrees, VectorsOf
  <2>7. AcceptanceIsAtomic'
    BY Zenon, <2>1, <2>2, <2>5, <2>6 DEF AcceptanceIsAtomic, RunAgrees, Accepted, VectorsOf, run
  <2>8. \A c, d \in candidates' : c.run = d.run /\ c.id = d.id => c = d
    BY <2>1, <2>2 DEF AtomicInv
  <2>9. /\ \A c \in candidates' : c.run \in DOMAIN runs /\ (c.run = run => c.id <= mem.counter)
        /\ \A v \in vectors : v.run \in DOMAIN runs
        /\ runs[run].count = Len(mem.tests) /\ IsFiniteSet(vectors)
    BY <2>1, <2>2, <2>3 DEF AtomicInv, Opening
  <2>10. UNCHANGED <<vectors, runs, run, mem>>
    BY <2>1 DEF run
  <2>11. c0 \in candidates'
    BY <2>1
  <2> QED BY <2>1, <2>2, <2>4, <2>7, <2>8, <2>9, <2>10, <2>11 DEF AtomicInv
<1>8. CASE Rejecting
  <2>1. /\ pc = "gate" /\ AfterReject /\ UNCHANGED <<vectors, runs>>
        /\ \E why, block : CommitCandidate("rejected", why, block)
    BY <1>8, RejectingFacts DEF storeVars
  <2>2. PICK c0 \in candidates : Pending = {c0} /\ candidates' = Restatus({c0}, "rejected")
    BY <2>1, CommitIsRestatus
  <2>3. /\ IsFiniteSet(candidates')
        /\ \A c \in candidates' : \E b \in candidates : c.run = b.run /\ c.id = b.id
        /\ \A c, d \in candidates' : c.run = d.run /\ c.id = d.id => c = d
    BY Zenon, <1>0, <2>2, RestatusKeepsIds DEF AtomicInv
  <2>4. Pending' = {} /\ \A r : Accepted(r)' = Accepted(r)
    BY <1>0, <2>2, RestatusOfPending
  <2>5. \A r \in DOMAIN runs' : RunAgrees(r)'
    BY Zenon, <2>1, <2>4, AtomicIs DEF AtomicInv, RunAgrees, VectorsOf
  <2>6. AcceptanceIsAtomic'
    BY SMTT(30), <2>4, <2>5 DEF AcceptanceIsAtomic, RunAgrees, Accepted, VectorsOf
  <2>7. SameCount /\ pc' \in {"loop", "random"}
    BY <1>0, <2>1, RejectFrame
  <2> QED BY <2>1, <2>3, <2>6, <2>7 DEF AtomicInv, SameCount, Opening, run
<1>9. CASE GoldenFails
  <2>1. /\ pc = "gate" /\ pc' = "idle" /\ CommitCandidate("aborted", {}, {}) /\ vectors' = vectors
        /\ runs' = [runs EXCEPT ![run].status = "aborted"]
    BY <1>9 DEF GoldenFails, Leave
  <2>2. PICK c0 \in candidates : Pending = {c0} /\ candidates' = Restatus({c0}, "aborted")
    BY <2>1, CommitIsRestatus
  <2>3. /\ IsFiniteSet(candidates')
        /\ \A c \in candidates' : \E b \in candidates : c.run = b.run /\ c.id = b.id
        /\ \A c, d \in candidates' : c.run = d.run /\ c.id = d.id => c = d
    BY Zenon, <1>0, <2>2, RestatusKeepsIds DEF AtomicInv
  <2>4. \A r : Accepted(r)' = Accepted(r)
    BY <1>0, <2>2, RestatusOfPending
  <2>5. DOMAIN runs' = DOMAIN runs /\ \A r \in DOMAIN runs : runs'[r].count = runs[r].count
    BY <1>0, <2>1 DEF Runs
  <2>6. \A r \in DOMAIN runs' : RunAgrees(r)'
    BY ZenonT(30), <2>1, <2>4, <2>5, AtomicIs DEF AtomicInv, RunAgrees, VectorsOf
  <2>7. AcceptanceIsAtomic'
    BY Zenon, <2>1, <2>6 DEF AcceptanceIsAtomic, RunAgrees, Accepted, VectorsOf
  <2> QED BY <2>1, <2>3, <2>5, <2>7 DEF AtomicInv, Opening
<1>10. CASE CompleteRun
  <2>1. /\ pc = "finish" /\ pc' = "idle" /\ UNCHANGED <<vectors, candidates>>
        /\ CompleteRunWithAtpg(run, mem.terminal)
    BY <1>10 DEF CompleteRun, Leave, scanTables
  <2>2. DOMAIN runs' = DOMAIN runs /\ \A r \in DOMAIN runs : runs'[r].count = runs[r].count
    BY <1>0, <2>1 DEF Runs, CompleteRunWithAtpg
  <2>3. \A r \in DOMAIN runs' : RunAgrees(r)'
    BY Zenon, <2>1, <2>2, AtomicIs DEF AtomicInv, RunAgrees, VectorsOf, Accepted
  <2>4. AcceptanceIsAtomic'
    BY ZenonT(30), <2>1, <2>3 DEF AcceptanceIsAtomic, RunAgrees, Accepted, VectorsOf
  <2> QED BY <2>1, <2>2, <2>4 DEF AtomicInv, Opening
<1>11. CASE Accept
  <2>1. PICK t \in Tentatives(Held) :
              /\ vectors' = vectors \cup {[run |-> run, index |-> NextIndex, pattern |-> Held]}
              /\ CommitCandidate("accepted", ProtocolReasons(t), Failed(t, Held))
              /\ UpdateRunVectorCount(run, NextIndex)
    BY ZenonT(30), <1>0, <1>11, AcceptFacts
  <2>2. pc = "gate" /\ NextIndex \in Nat \ {0}
    BY Zenon, <1>0, <1>11, AcceptFacts
  <2>3. PICK c0 \in candidates : /\ c0.run = run /\ c0.id = mem.counter /\ c0.status = "pending"
                                 /\ Pending = {c0} /\ candidates' = Restatus({c0}, "accepted")
    BY Zenon, <2>1, <2>2, CommitIsRestatus
  <2>4. /\ IsFiniteSet(candidates')
        /\ \A c \in candidates' : \E b \in candidates : c.run = b.run /\ c.id = b.id
        /\ \A c, d \in candidates' : c.run = d.run /\ c.id = d.id => c = d
    BY Zenon, <1>0, <2>3, RestatusKeepsIds DEF AtomicInv
  <2> DEFINE c1 == [c0 EXCEPT !.status = "accepted"]
             v1 == [run |-> run, index |-> NextIndex, pattern |-> Held]
  <2>5. /\ Pending' = {}
        /\ \A r : Accepted(r)' = IF r = run THEN Accepted(r) \cup {c1} ELSE Accepted(r)
    BY <1>0, <2>3, RestatusToAccepted
  <2>6. run \in DOMAIN runs /\ runs[run].count = Len(mem.tests) /\ RunAgrees(run) /\ Len(mem.tests) \in Nat
    BY <1>0, <2>2, AtomicIs DEF AtomicInv, ControlInv, Opening, run, Mems
  <2>7. DOMAIN runs' = DOMAIN runs /\ run' = run /\ runs'[run].count = NextIndex
        /\ \A r \in DOMAIN runs : r # run => runs'[r] = runs[r]
    <3>1. runs' = [runs EXCEPT ![run].count = NextIndex] /\ runs[run] \in Runs
      BY <1>0, <2>1, <2>6 DEF UpdateRunVectorCount
    <3>2. DOMAIN runs' = DOMAIN runs /\ runs'[run].count = NextIndex
          /\ \A r \in DOMAIN runs : r # run => runs'[r] = runs[r]
      BY <1>0, <2>6, <3>1 DEF Runs
    <3>3. runs' \in Seq(Runs)
      BY TypeInductive DEF ScanTypeOK, StoreTypeOK
    <3>4. run' = run
      <4>1. \A s, r \in Seq(Runs) : DOMAIN s = DOMAIN r => Len(s) = Len(r)
        OBVIOUS
      <4> QED BY <1>0, <3>2, <3>3, <4>1 DEF run
    <3> QED BY Zenon, <3>2, <3>4
  <2>8. v1.run = run /\ v1.index = NextIndex /\ vectors' = vectors \cup {v1}
    BY <2>1
  <2>9. c1 \notin Accepted(run)
    <3>1. c1.run = run /\ c1.id = mem.counter /\ c1.status = "accepted"
      BY SMTT(30), <1>0, <2>3 DEF CandidateRows
    <3> HIDE DEF c1
    <3>2. c1 \in candidates => c1 = c0
      BY ZenonT(30), <2>3, <3>1 DEF AtomicInv
    <3> QED BY <2>3, <3>1, <3>2 DEF Accepted
  <2> HIDE DEF c1, v1
  <2>10. \A r \in DOMAIN runs : r # run => RunAgrees(r)'
    <3>1. ASSUME NEW r \in DOMAIN runs, r # run PROVE RunAgrees(r)'
      <4>1. VectorsOf(r)' = VectorsOf(r)
        BY <2>8, <3>1 DEF VectorsOf
      <4> QED BY <2>5, <2>7, <3>1, <4>1, AtomicIs DEF AtomicInv, RunAgrees
    <3> QED BY SMTT(30), <3>1
  <2>11. RunAgrees(run)'
    <3>1. VectorsOf(run)' = VectorsOf(run) \cup {v1}
      BY <2>7, <2>8 DEF VectorsOf
    <3>0. /\ {v.index : v \in VectorsOf(run)} = 1 .. Len(mem.tests)
          /\ Cardinality(VectorsOf(run)) = Len(mem.tests) /\ Cardinality(Accepted(run)) = Len(mem.tests)
          /\ NextIndex = Len(mem.tests) + 1
      BY <2>6 DEF RunAgrees, NextIndex
    <3>2. v1 \notin VectorsOf(run)
      <4>1. NextIndex \notin 1 .. Len(mem.tests)
        BY SMTT(30), <2>6, <3>0
      <4> QED BY <2>8, <3>0, <4>1
    <3>3. IsFiniteSet(VectorsOf(run)) /\ IsFiniteSet(Accepted(run))
      BY SMTT(30), FS_Subset DEF AtomicInv, VectorsOf, Accepted
    <3>4. Accepted(run)' = Accepted(run) \cup {c1}
      BY SMTT(30), <2>5, <2>7
    <3>5. Cardinality(VectorsOf(run)') = NextIndex /\ Cardinality(Accepted(run)') = NextIndex
      <4>1. /\ Cardinality(VectorsOf(run) \cup {v1}) = Cardinality(VectorsOf(run)) + 1
            /\ Cardinality(Accepted(run) \cup {c1}) = Cardinality(Accepted(run)) + 1
        BY Zenon, <2>9, <3>2, <3>3, FS_AddElement
      <4> QED BY <3>0, <3>1, <3>4, <4>1
    <3>6. {v.index : v \in VectorsOf(run)'} = {v.index : v \in VectorsOf(run)} \cup {NextIndex}
      BY <2>8, <3>1
    <3>7. {v.index : v \in VectorsOf(run)'} = 1 .. NextIndex
      <4>1. \A n \in Nat : (1 .. n) \cup {n + 1} = 1 .. (n + 1)
        OBVIOUS
      <4>2. (1 .. Len(mem.tests)) \cup {Len(mem.tests) + 1} = 1 .. (Len(mem.tests) + 1)
        BY <2>6, <4>1
      <4> QED BY Zenon, <3>0, <3>6, <4>2
    <3> QED BY <2>7, <3>5, <3>7 DEF RunAgrees
  <2>12. AcceptanceIsAtomic'
    BY Zenon, <2>5, <2>7, <2>10, <2>11 DEF AcceptanceIsAtomic, RunAgrees, Accepted, VectorsOf
  <2>13. IsFiniteSet(vectors')
    BY <2>8, FS_AddElement DEF AtomicInv
  <2>14. mem'.counter = mem.counter /\ Len(mem'.tests) = NextIndex /\ pc' \in {"loop", "random"}
    <3>1. /\ mem'.tests = Append(mem.tests, mem.cur.pattern) /\ mem'.counter = mem.counter
          /\ pc' \in {"loop", "random"}
      BY <1>0, <1>11, AcceptFrame
    <3>2. mem.tests \in Seq(Patterns) /\ mem.cur.pattern \in Patterns \cup {NoPattern}
      BY <1>0 DEF Mems
    <3>3. Len(Append(mem.tests, mem.cur.pattern)) = Len(mem.tests) + 1
      <4>1. \A s \in Seq(Patterns), x \in Patterns \cup {NoPattern} : Len(Append(s, x)) = Len(s) + 1
        OBVIOUS
      <4> QED BY <3>2, <4>1
    <3> QED BY <3>1, <3>3 DEF NextIndex
  <2> QED BY <2>2, <2>4, <2>6, <2>7, <2>8, <2>12, <2>13, <2>14 DEF AtomicInv, Opening
<1> QED BY <1>1, <1>2, <1>3, <1>4, <1>5, <1>6, <1>7, <1>8, <1>9, <1>10, <1>11, Steps

\* One transaction per acceptance: accepted candidates, stored vectors and vector_count of
\* every run agree, and nothing a dead run left pending survives the next opening.
THEOREM ScanAcceptanceIsAtomic == Spec => []AcceptanceIsAtomic
<1>1. Init => AtomicInv
  <2>1. pc = "idle" /\ candidates = {} /\ vectors = {} /\ runs = <<>> /\ Init => AtomicInv
    BY FS_EmptySet DEF AtomicInv, AcceptanceIsAtomic, Opening
  <2> QED BY ZenonT(30), <2>1 DEF Init, StoreInit
<1>2. ScanInv /\ AtomicInv /\ [Next]_vars => AtomicInv'
  BY AtomicInductive DEF ScanInv
<1>3. AtomicInv => AcceptanceIsAtomic
  BY DEF AtomicInv
<1> QED BY <1>1, <1>2, <1>3, ScanInvariant, PTL DEF Spec

-----------------------------------------------------------------------------
(* Certificates and blocked patterns *)

\* The patterns of seen_patterns that went through a commit.
SeenAndGraded ==
  IF InRandom THEN {mem.batch[k] : k \in 1 .. (IF Holding THEN mem.graded - 1 ELSE mem.graded)}
              ELSE mem.seen

BlockedInv ==
  /\ \A b \in blocked : b.fault \in QStems
  /\ mem.blockedNow \subseteq blocked
  /\ BlockedRowsAreFruitless

SoundInv ==
  /\ \A p \in SeenAndGraded, f \in Active \ QStems : f \notin reduced[Hold[p]]
  /\ \A f \in Faults \ QStems : \A p \in mem.rejected[f] : f \notin reduced[Hold[p]]
  /\ \A f \in Faults \ QStems : mem.results[f].kind = "UNSAT" =>
       \A p \in Patterns : f \in reduced[p] => p \in mem.rejected[f]
  /\ ScanRedundantIsUntestable

-----------------------------------------------------------------------------
(* What the loop may conclude, when the engines agree *)

\* A gate credits every active logic fault its pattern exposes.
LEMMA GateExhausts ==
  ASSUME EnginesAgree, NEW t \in Tentatives(Held), NEW f \in Active \ QStems,
         Active \subseteq mem.active, f \in reduced[Held]
  PROVE  f \in t /\ f \in Trusted(t) /\ f \in Passed(t, Held)
<1>1. f \in t
  BY DEF Tentatives
<1>2. f \in Trusted(t)
  BY <1>1 DEF Trusted
<1> QED BY <1>1, <1>2 DEF Passed

LEMMA RejectExhausts ==
  ASSUME EnginesAgree, ControlInv, LoopInv, Rejecting
  PROVE  /\ ~IsSat => \A f \in Active \ QStems : f \notin reduced[Held]
         /\ IsSat /\ mem.cur.fault \notin QStems => mem.cur.fault \notin reduced[Held]
<1>1. pc = "gate"
  BY RejectingFacts
<1>2. Active \subseteq mem.active /\ (IsSat => mem.cur.fault \in Active)
  BY <1>1 DEF LoopInv, InRandom, InSatLoop, Holding
<1>3. CASE RejectUnverified
  BY <1>3 DEF RejectUnverified, Verified
<1>4. CASE RejectEmpty
  <2>1. PICK t \in Tentatives(Held) : Trusted(t) = {}
    BY <1>4 DEF RejectEmpty
  <2> QED BY <1>2, <2>1, GateExhausts
<1>5. CASE RejectFruitless
  <2>1. PICK t \in Tentatives(Held) : Passed(t, Held) = {}
    BY <1>5 DEF RejectFruitless
  <2> QED BY <1>2, <2>1, GateExhausts
<1> QED BY <1>3, <1>4, <1>5 DEF Rejecting

\* A protocol failure is a Q stem's, and says what Exposes says.
LEMMA FailedIsFruitless ==
  ASSUME EnginesAgree, ScanTypeOK, ControlInv, LoopInv, Gated,
         NEW t \in Tentatives(Held), NEW f \in Failed(t, Held)
  PROVE  f \in QStems /\ f \notin Exposes(Hold[TrackKey(mem.cur.pattern)])
<1>1. mem.cur.pattern \in Patterns
  BY DEF Gated, ControlInv, Holding
<1>2. Hold[TrackKey(mem.cur.pattern)] = Held /\ Held \in Patterns
  BY SMTT(30), <1>1, HoldIsIdempotent DEF TrackKey, Held
<1>3. f \in QStems
  BY <1>2, PassedIsExposed
<1>4. CASE Transition
  BY <1>2, <1>3, <1>4 DEF Failed, Exposes
<1>5. CASE ~Transition
  <2>1. f \in ActiveQStems \ t /\ f = mem.cur.fault
    BY <1>5 DEF Failed, ProtocolSimulated, Residual
  <2>2. IsSat
    BY <1>3, <2>1, ScanSentinels DEF IsSat, ScanTypeOK, NetlistType
  <2>3. f \in reduced[Held] /\ f \in mem.active
    BY <2>1, <2>2 DEF Gated, Verified, ActiveQStems
  <2>4. f \in t
    BY <2>3 DEF Tentatives
  <2> QED BY <2>1, <2>4
<1> QED BY SMTT(30), <1>2, <1>3, <1>4, <1>5

LEMMA BlockedInductive ==
  ASSUME EnginesAgree, ScanTypeOK, ControlInv, LoopInv, BlockedInv, [Next]_vars
  PROVE  BlockedInv'
<1>0. mem \in Mems
  BY DEF ScanTypeOK
<1>1. UNCHANGED netlist
  BY <1>0, NetlistFixed
<1>2. \A h : Exposes(h)' = Exposes(h)
  BY <1>1 DEF Exposes, netlist, Transition
<1>3. QStems' = QStems
  BY <1>1 DEF netlist
<1>4. mem'.blockedNow \in {mem.blockedNow, blocked, {}}
  <2>1. CASE mem' = mem \/ mem' = Fresh
    BY <2>1 DEF Fresh
  <2>2. CASE Open \/ Enumerate \/ ApplyScanExecutionMap \/ Invalidate \/ Preflight
    BY Zenon, <2>1, <2>2 DEF Open, Enumerate, ApplyScanExecutionMap, Invalidate, Preflight, Goto
  <2>3. CASE RoundsExhausted \/ InsertPending \/ Sweep \/ UNCHANGED vars
    BY Zenon, <2>1, <2>3 DEF RoundsExhausted, InsertPending, Sweep, Goto, vars
  <2>4. CASE GoldenFails \/ CompleteRun \/ ZeroDenominator \/ Crash
    BY <2>1, <2>4 DEF GoldenFails, CompleteRun, ZeroDenominator, Crash, Leave
  <2>5. CASE Rejecting \/ Accept
    BY ZenonT(30), <1>0, <2>5, RejectingFacts, RejectFrame, AcceptFrame DEF SameBlocks
  <2>6. CASE OpenRun \/ NothingLeft \/ EndRound \/ BeginRound \/ NextRandom \/ RandomDone
    BY ZenonT(30), <1>0, <2>6, OpeningFrame, NothingLeftFrame, EndFrame, BeginRoundFrame, NextRandomFrame,
       RandomDoneFrame DEF SameBlocks
  <2>7. CASE PlanRound \/ PreSolve
    BY Zenon, <1>0, <2>7, PlanFrame, PreSolveFrame
  <2>8. CASE SatSeen \/ SatCandidate \/ Timeout \/ Unknown
    BY Zenon, <1>0, <2>8, VisitFrame DEF VisitKeeps
  <2>9. CASE Unsat
    BY SMTT(30), <1>0, <2>9, UnsatFrame DEF SameBlocks
  <2> QED BY SMTT(30), <2>2, <2>3, <2>4, <2>5, <2>6, <2>7, <2>8, <2>9, Steps DEF Quiet
<1>5. blocked \subseteq blocked' /\ \A b \in blocked' \ blocked :
        b.fault \in QStems /\ b.fault \notin Exposes(Hold[b.pattern])
  <2>1. CASE blocked' = blocked
    BY <2>1
  <2>2. ASSUME NEW t \in Tentatives(Held), Gated, NEW outcome, NEW why,
               CommitCandidate(outcome, why, Failed(t, Held))
        PROVE  blocked \subseteq blocked' /\ \A b \in blocked' \ blocked :
                 b.fault \in QStems /\ b.fault \notin Exposes(Hold[b.pattern])
    <3>1. blocked' = blocked \cup {[fault |-> f, pattern |-> TrackKey(mem.cur.pattern)] : f \in Failed(t, Held)}
      BY SMTT(30), <2>2 DEF CommitCandidate
    <3>2. ASSUME NEW b \in blocked' \ blocked
          PROVE  b.fault \in QStems /\ b.fault \notin Exposes(Hold[b.pattern])
      <4>1. PICK f \in Failed(t, Held) : b = [fault |-> f, pattern |-> TrackKey(mem.cur.pattern)]
        BY <3>1, <3>2
      <4>2. b.fault = f /\ b.pattern = TrackKey(mem.cur.pattern)
        BY <4>1
      <4> QED BY ZenonT(30), <2>2, <4>2, FailedIsFruitless
    <3> QED BY <3>1, <3>2
  <2>3. CASE Accept
    BY SMTT(30), <2>2, <2>3 DEF Accept
  <2>4. CASE RejectFruitless
    BY <2>2, <2>4 DEF RejectFruitless, Reject
  <2>5. CASE RejectUnverified \/ RejectEmpty \/ GoldenFails
    BY <2>1, <2>5 DEF RejectUnverified, RejectEmpty, Reject, GoldenFails, CommitCandidate
  <2>6. CASE Quiet \/ Open \/ Enumerate \/ ApplyScanExecutionMap \/ Invalidate \/ OpenRun
             \/ Preflight \/ InsertPending \/ Unsat \/ EndRound \/ Sweep \/ CompleteRun
    BY SMTT(30), <2>1, <2>6, QuietWritesNothing DEF scanTables, Open, Enumerate, ApplyScanExecutionMap, Invalidate,
       OpenRun, Preflight, InsertPending, Unsat, EndRound, Sweep, CompleteRun
  <2> QED BY <2>3, <2>4, <2>5, <2>6, Steps DEF Rejecting
<1> QED BY <1>2, <1>3, <1>4, <1>5 DEF BlockedInv, BlockedRowsAreFruitless

LEMMA SeenInductive ==
  ASSUME EnginesAgree, ScanTypeOK, ControlInv, LoopInv, SoundInv, [Next]_vars
  PROVE  (\A p \in SeenAndGraded, f \in Active \ QStems : f \notin reduced[Hold[p]])'
<1>0. mem \in Mems /\ mem.graded \in Nat
  BY Zenon DEF ScanTypeOK, Mems
<1>1. reduced' = reduced /\ QStems' = QStems
  BY <1>0, NetlistFixed DEF netlist
<1>2. SeenAndGraded' = {} \/ (SeenAndGraded' \subseteq SeenAndGraded /\ Active' \subseteq Active)
      => (\A p \in SeenAndGraded, f \in Active \ QStems : f \notin reduced[Hold[p]])'
  BY <1>1 DEF SoundInv
<1> USE DEF InRandom, Holding
<1>3. ASSUME ~InRandom', mem'.seen = {} PROVE SeenAndGraded' = {}
  BY <1>3 DEF SeenAndGraded
<1>4. ASSUME ~InRandom, ~InRandom', mem'.seen = mem.seen PROVE SeenAndGraded' = SeenAndGraded
  BY SMTT(30), <1>4 DEF SeenAndGraded
<1>5. Fresh.seen = {}
  BY DEF Fresh
<1>6. CASE UNCHANGED vars
  BY Zenon, <1>2, <1>6 DEF vars, SeenAndGraded, storeVars, Active, IsSat
<1>7. CASE Open \/ Enumerate \/ ApplyScanExecutionMap \/ Invalidate \/ OpenRun
  <2>1. mem.seen = {} /\ mem'.seen = mem.seen
    BY <1>0, <1>5, <1>7, OpeningFrame DEF Open, Enumerate, ApplyScanExecutionMap, Invalidate, OpenRun,
       Goto, ControlInv, Opening, SameRandom
  <2>2. ~InRandom'
    BY <1>0, <1>7, OpeningFrame DEF Open, Enumerate, ApplyScanExecutionMap, Invalidate, Goto
  <2> QED BY <1>2, <1>3, <2>1, <2>2
<1>8. CASE GoldenFails \/ CompleteRun \/ ZeroDenominator \/ Crash
  <2>1. ~InRandom' /\ mem'.seen = {}
    BY <1>5, <1>8 DEF GoldenFails, CompleteRun, ZeroDenominator, Crash, Leave
  <2> QED BY <1>2, <1>3, <2>1
<1>9. CASE Preflight \/ Sweep
  <2>1. ~InRandom /\ ~InRandom' /\ mem' = mem
    BY <1>9 DEF Preflight, Sweep, Goto
  <2>2. Active' \subseteq Active
    <3>1. ASSUME NEW f \in Faults, status'[f] = "undetected", ~unresolved'[f]
          PROVE  status[f] = "undetected" /\ ~unresolved[f]
      <4>1. CASE Preflight
        <5>1. /\ status'[f] \in {"redundant", status[f]}
              /\ unresolved[f] => unresolved'[f]
          BY <4>1 DEF Preflight, ScanTypeOK, StoreTypeOK
        <5> QED BY SMTT(30), <3>1, <5>1
      <4>2. CASE Sweep
        BY SMTT(30), <3>1, <4>2 DEF Sweep, SweepQStems, ScanTypeOK, StoreTypeOK
      <4> QED BY <1>9, <4>1, <4>2
    <3> QED BY <3>1 DEF Active, InScope
  <2> QED BY SMTT(30), <1>2, <1>4, <2>1, <2>2
<1>10. CASE RoundsExhausted \/ NothingLeft \/ PlanRound \/ PreSolve \/ EndRound
  <2>1. Active' = Active
    BY <1>10, QuietActive DEF Quiet
  <2>2. ~InRandom /\ ~InRandom'
    BY SMTT(30), <1>0, <1>10, PlanFrame, PreSolveFrame, EndFrame DEF RoundsExhausted, NothingLeft, PlanRound,
       PreSolve, EndRound, Goto
  <2>3. mem'.seen = mem.seen
    BY <1>0, <1>10, NothingLeftFrame, PlanFrame, PreSolveFrame, EndFrame DEF RoundsExhausted, Goto, SameRandom
  <2> QED BY <1>2, <1>4, <2>1, <2>2, <2>3
<1>11. CASE BeginRound
  <2>1. Active' = Active /\ pc = "round"
    BY Zenon, <1>11, QuietActive DEF Quiet, BeginRound
  <2>2. CASE pc' = "plan" /\ SameRandom
    BY <1>2, <1>4, <2>1, <2>2 DEF SameRandom
  <2>3. CASE pc' = "random" /\ ~mem.switched
    <3>1. mem'.graded = 0
      BY <1>0, <1>11, <2>1, <2>3, BeginRoundFrame DEF ControlInv
    <3>2. SeenAndGraded' = {}
      BY <2>3, <3>1 DEF SeenAndGraded
    <3> QED BY <1>2, <3>2
  <2> QED BY <1>0, <1>11, <2>2, <2>3, BeginRoundFrame
<1>12. CASE NextRandom
  <2>1. Active' = Active /\ pc = "random" /\ pc' = "pending"
    BY <1>12, QuietActive DEF Quiet, NextRandom, Goto
  <2>2. mem'.graded - 1 = mem.graded /\ mem'.batch = mem.batch /\ ~IsSat'
    BY <1>0, <1>12, NextRandomFrame DEF IsSat
  <2>3. SeenAndGraded' = SeenAndGraded
    BY <2>1, <2>2 DEF SeenAndGraded
  <2> QED BY <1>2, <2>1, <2>3
<1>13. CASE RandomDone
  <2>1. Active' = Active /\ pc = "random"
    BY <1>13, QuietActive DEF Quiet, RandomDone
  <2>2. SeenAndGraded' = SeenAndGraded
    BY <1>0, <1>13, <2>1, RandomDoneFrame DEF SeenAndGraded
  <2> QED BY <1>2, <2>1, <2>2
<1>14. CASE InsertPending
  <2>1. Active' = Active
    BY <1>14, QuietActive
  <2>2. SeenAndGraded' = SeenAndGraded
    BY <1>14 DEF InsertPending, Goto, SeenAndGraded, IsSat
  <2> QED BY <1>2, <2>1, <2>2
<1>15. CASE SatSeen \/ SatCandidate \/ Timeout \/ Unknown
  <2>1. Active' = Active /\ pc = "loop"
    BY Zenon, <1>15, QuietActive DEF Quiet, SatSeen, SatCandidate, Timeout, Unknown, GaveUp
  <2>2. mem'.seen = mem.seen
    BY Zenon, <1>0, <1>15, VisitFrame DEF VisitKeeps, SameRandom
  <2>3. ~InRandom'
    <3>1. CASE SatCandidate
      <4>1. PICK f \in Targets, p \in Patterns : pc' = "pending" /\ mem'.cur = [fault |-> f, pattern |-> p]
        BY SMTT(30), <1>0, <3>1, VisitFrame
      <4>2. IsSat'
        BY <1>0, <4>1, TargetsAreTodo, ScanSentinels DEF IsSat
      <4> QED BY <4>1, <4>2
    <3>2. CASE SatSeen \/ Timeout \/ Unknown
      BY Zenon, <1>0, <3>2, VisitFrame
    <3> QED BY <1>15, <3>1, <3>2
  <2> QED BY <1>2, <1>4, <2>1, <2>2, <2>3
<1>16. CASE Unsat
  <2>1. Active' \subseteq Active
    BY <1>16, UnsatActive
  <2>2. pc = "loop" /\ pc' = "loop" /\ mem'.seen = mem.seen
    BY <1>0, <1>16, UnsatFrame DEF SameRandom
  <2> QED BY <1>2, <1>4, <2>1, <2>2
<1>17. CASE Rejecting \/ Accept
  <2>0. pc = "gate" /\ mem.cur.pattern \in Patterns
    BY Zenon, <1>0, <1>17, RejectingFacts, AcceptFacts DEF ControlInv
  <2>1. Active' \subseteq Active /\ ((Rejecting /\ IsSat) \/ \A f \in Active' \ QStems : f \notin reduced[Held])
    <3>1. CASE Rejecting
      BY <3>1, QuietActive, RejectExhausts
    <3>2. CASE Accept
      <4>1. PICK t \in Tentatives(Held) : CommitDetections(Passed(t, Held), NextIndex)
        BY Zenon, <1>0, <3>2, AcceptFacts
      <4>2. Active' = Active \ Passed(t, Held)
        BY <2>0, <4>1, AcceptActive
      <4>3. Active \subseteq mem.active
        BY <2>0 DEF LoopInv, InSatLoop
      <4> QED BY <4>2, <4>3, GateExhausts
    <3> QED BY <1>17, <3>1, <3>2
  <2>2. CASE ~IsSat
    <3>1. pc' = "random" /\ mem'.batch = mem.batch /\ mem'.graded = mem.graded
      BY SMTT(30), <1>0, <1>17, <2>2, RejectingFacts, RejectFrame, AcceptFrame DEF SameRandom
    <3>2. /\ SeenAndGraded' = {mem.batch[k] : k \in 1 .. mem.graded}
          /\ SeenAndGraded = {mem.batch[k] : k \in 1 .. (mem.graded - 1)}
      BY SMTT(30), <2>0, <2>2, <3>1 DEF SeenAndGraded
    <3>3. mem.graded # 0 /\ mem.cur.pattern = mem.batch[mem.graded]
      BY <2>0, <2>2 DEF ControlInv
    <3>4. \A p \in SeenAndGraded' : p = mem.cur.pattern \/ p \in SeenAndGraded
      <4>1. \A k \in 1 .. mem.graded : k = mem.graded \/ k \in 1 .. (mem.graded - 1)
        BY <1>0
      <4> QED BY <3>2, <3>3, <4>1
    <3> QED BY SMTT(30), <1>1, <2>1, <2>2, <3>4 DEF SoundInv, Held
  <2>3. CASE IsSat /\ Rejecting
    <3>1. pc' = "loop" /\ mem'.seen = mem.seen
      BY <1>0, <2>3, RejectingFacts, RejectFrame DEF SameRandom
    <3> QED BY SMTT(30), <1>2, <1>4, <2>0, <2>1, <2>3, <3>1
  <2>4. CASE IsSat /\ Accept
    <3>1. pc' = "loop" /\ mem'.seen = mem.seen \cup {mem.cur.pattern}
      BY <1>0, <2>4, AcceptFrame
    <3>2. SeenAndGraded' = SeenAndGraded \cup {mem.cur.pattern}
      BY <2>0, <2>4, <3>1 DEF SeenAndGraded
    <3>3. \A f \in Active' \ QStems : f \notin reduced[Held]
      <4>1. PICK t \in Tentatives(Held) : CommitDetections(Passed(t, Held), NextIndex)
        BY ZenonT(30), <1>0, <2>4, AcceptFacts
      <4>2. Active' = Active \ Passed(t, Held)
        BY <2>0, <4>1, AcceptActive
      <4>3. Active \subseteq mem.active
        BY <2>0 DEF LoopInv, InSatLoop
      <4> QED BY <4>2, <4>3, GateExhausts
    <3> QED BY <1>1, <2>1, <3>2, <3>3 DEF SoundInv, Held
  <2> QED BY Zenon, <1>17, <2>2, <2>3, <2>4
<1> QED BY <1>6, <1>7, <1>8, <1>9, <1>10, <1>11, <1>12, <1>13, <1>14, <1>15, <1>16, <1>17, Steps DEF Quiet

\* A solver that finds nothing for a logic fault has only tried patterns away that are
\* fruitless as applied.
LEMMA SolverUnsat ==
  ASSUME BlockedInv, NEW f \in Faults \ QStems, NEW v \in SolverVerdicts(f), v.kind = "UNSAT"
  PROVE  \A p \in Patterns : f \in reduced[p] => p \in mem.rejected[f]
<1>1. Witnesses(f) = {}
  BY DEF SolverVerdicts, SatVerdict, Verdict
<1>2. Blocks(f, mem.blockedNow) = {}
  BY DEF Blocks, BlockedInv
<1> QED BY <1>1, <1>2 DEF Witnesses

LEMMA UnsatIsReal ==
  ASSUME ScanTypeOK, BlockedInv, SoundInv, NEW f \in Faults \ QStems, Verdict("UNSAT") \in Answers(f)
  PROVE  \A p \in Patterns : f \notin reduced[Hold[p]]
<1>1. \A p \in Patterns : f \in reduced[p] => p \in mem.rejected[f]
  <2>1. Verdict("UNSAT").kind = "UNSAT" /\ Verdict("UNKNOWN").kind = "UNKNOWN"
    BY DEF Verdict
  <2>2. CASE SolvesSerially
    BY <2>1, <2>2, SolverUnsat DEF Answers
  <2>3. CASE ~SolvesSerially
    <3>1. mem.results[f].kind = "UNSAT"
      BY <2>1, <2>3 DEF Answers
    <3> QED BY <3>1 DEF SoundInv
  <2> QED BY <2>2, <2>3
<1> QED BY <1>1, HoldIsIdempotent DEF SoundInv

LEMMA SoundInductive ==
  ASSUME EnginesAgree, ScanTypeOK, ControlInv, LoopInv, BlockedInv, SoundInv, [Next]_vars
  PROVE  SoundInv'
<1>0. mem \in Mems /\ status \in [Faults -> Statuses] /\ mem.rejected \in [Faults -> SUBSET Patterns]
  BY Zenon DEF ScanTypeOK, StoreTypeOK, Mems
<1>1. UNCHANGED netlist
  BY <1>0, NetlistFixed
<1>2. reduced' = reduced /\ QStems' = QStems /\ \A h : Exposes(h)' = Exposes(h)
  BY <1>1 DEF netlist, Exposes, Transition
<1>3. (\A p \in SeenAndGraded, f \in Active \ QStems : f \notin reduced[Hold[p]])'
  BY SeenInductive
<1> DEFINE RejectedOK == \A f \in Faults \ QStems : \A p \in mem'.rejected[f] : f \notin reduced[Hold[p]]
           ResultsOK == \A f \in Faults \ QStems : mem'.results[f].kind = "UNSAT" =>
                          \A p \in Patterns : f \in reduced[p] => p \in mem'.rejected[f]
<1>4. RejectedOK /\ ResultsOK
  <2>1. CASE mem'.rejected = mem.rejected /\ mem'.results = mem.results
    BY <2>1 DEF SoundInv
  <2>2. ASSUME NEW f \in Faults, NEW q, f \in QStems \/ f \notin reduced[Hold[q]],
               mem'.rejected = [mem.rejected EXCEPT ![f] = @ \cup {q}], mem'.results = mem.results
        PROVE  RejectedOK /\ ResultsOK
    <3>1. \A g \in Faults : mem'.rejected[g] = IF g = f THEN mem.rejected[g] \cup {q} ELSE mem.rejected[g]
      BY <1>0, <2>2
    <3>2. RejectedOK
      BY <2>2, <3>1 DEF SoundInv
    <3>3. ResultsOK
      BY SMTT(30), <2>2, <3>1 DEF SoundInv
    <3> QED BY <3>2, <3>3
  <2>3. CASE mem' = mem \/ mem' = Fresh
    <3>1. CASE mem' = mem
      BY <2>1, <3>1
    <3>2. CASE mem' = Fresh
      <4>1. \A f \in Faults : Fresh.rejected[f] = {} /\ Fresh.results[f].kind = "none"
        BY ZenonT(30) DEF Fresh, NoVerdict, Verdict
      <4> QED BY <3>2, <4>1
    <3> QED BY <2>3, <3>1, <3>2
  <2>4. CASE Open \/ Enumerate \/ ApplyScanExecutionMap \/ Invalidate \/ Preflight \/ RoundsExhausted
             \/ InsertPending \/ Sweep \/ UNCHANGED vars
    <3>1. mem' = mem
      BY ZenonT(30), <2>4 DEF Open, Enumerate, ApplyScanExecutionMap, Invalidate, Preflight, RoundsExhausted,
         InsertPending, Sweep, Goto, vars
    <3> QED BY <2>3, <3>1
  <2>5. CASE GoldenFails \/ CompleteRun \/ ZeroDenominator \/ Crash
    <3>1. mem' = Fresh
      BY <2>5 DEF GoldenFails, CompleteRun, ZeroDenominator, Crash, Leave
    <3> QED BY <2>3, <3>1
  <2>6. CASE OpenRun \/ NothingLeft \/ EndRound \/ BeginRound \/ NextRandom \/ RandomDone \/ Accept
    <3>1. SameBlocks
      BY ZenonT(30), <1>0, <2>6, OpeningFrame, NothingLeftFrame, EndFrame, BeginRoundFrame, NextRandomFrame,
         RandomDoneFrame, AcceptFrame
    <3> QED BY <2>1, <3>1 DEF SameBlocks
  <2>7. CASE SatCandidate \/ Timeout \/ Unknown
    <3>1. mem'.rejected = mem.rejected /\ mem'.results = mem.results
      BY Zenon, <1>0, <2>7, VisitFrame DEF VisitKeeps
    <3> QED BY Zenon, <2>1, <3>1
  <2>8. CASE Unsat
    <3>1. mem'.rejected = mem.rejected /\ mem'.results = mem.results
      BY <1>0, <2>8, UnsatFrame DEF SameBlocks
    <3> QED BY <2>1, <3>1
  <2>9. CASE PlanRound
    <3>1. mem'.rejected = mem.rejected /\ mem'.results = Fresh.results
      BY <1>0, <2>9, PlanFrame
    <3>2. \A f \in Faults : mem'.results[f].kind = "none"
      BY <3>1, FreshResults
    <3> QED BY Zenon, <3>1, <3>2 DEF SoundInv
  <2>10. CASE PreSolve
    <3>1. /\ mem'.rejected = mem.rejected
          /\ \A f \in Faults : mem'.results[f] = NoVerdict \/ mem'.results[f] \in SolverVerdicts(f)
      BY <1>0, <2>10, PreSolveFrame
    <3>2. NoVerdict.kind = "none"
      BY DEF NoVerdict, Verdict
    <3> QED BY Zenon, <3>1, <3>2, SolverUnsat DEF SoundInv
  <2>11. CASE SatSeen
    <3>1. PICK f \in Targets, p \in mem.seen :
              VisitKeeps(f) /\ mem'.rejected = [mem.rejected EXCEPT ![f] = @ \cup {p}]
      BY Zenon, <1>0, <2>11, VisitFrame
    <3>2. pc = "loop"
      BY <2>11 DEF SatSeen
    <3>3. f \in Active /\ f \in Faults
      BY <1>0, <3>2, TargetsAreTodo DEF LoopInv, InSatLoop
    <3>4. p \in SeenAndGraded
      BY <3>2 DEF SeenAndGraded, InRandom, Holding
    <3>5. f \in QStems \/ f \notin reduced[Hold[p]]
      BY <3>3, <3>4 DEF SoundInv
    <3> QED BY <2>2, <3>1, <3>3, <3>5 DEF VisitKeeps
  <2>12. CASE Rejecting
    <3>1. CASE ~IsSat
      BY ZenonT(30), <1>0, <2>1, <2>12, <3>1, RejectingFacts, RejectFrame
    <3>2. CASE IsSat
      <4> DEFINE f == mem.cur.fault
                 q == mem.cur.pattern
      <4>1. f \in Faults /\ mem'.results = mem.results
            /\ mem'.rejected = [mem.rejected EXCEPT ![f] = @ \cup {q}]
        BY Zenon, <1>0, <2>12, <3>2, RejectingFacts, RejectFrame DEF IsSat, Mems
      <4>2. f \in QStems \/ f \notin reduced[Hold[q]]
        BY <2>12, <3>2, RejectExhausts DEF Held
      <4> HIDE DEF f, q
      <4> QED BY <2>2, <4>1, <4>2
    <3> QED BY <3>1, <3>2
  <2> QED BY ZenonT(30), <2>4, <2>5, <2>6, <2>7, <2>8, <2>9, <2>10, <2>11, <2>12, Steps DEF Quiet
<1>5. ScanRedundantIsUntestable'
  <2>1. ASSUME \A f \in InScope : status'[f] = "redundant" =>
                 \/ status[f] = "redundant"
                 \/ f \notin QStems /\ \A p \in Patterns : f \notin reduced[Hold[p]]
        PROVE  ScanRedundantIsUntestable'
    <3>1. \A f \in InScope : f \notin QStems /\ (\A p \in Patterns : f \notin reduced[Hold[p]]) =>
            \A p \in Patterns : f \notin Exposes(Hold[p])
      BY HoldIsIdempotent DEF Exposes, ScanTypeOK, NetlistType
    <3> QED BY <1>2, <2>1, <3>1 DEF SoundInv, ScanRedundantIsUntestable
  <2>2. CASE UNCHANGED status
    BY <2>1, <2>2
  <2>3. CASE Quiet \/ Open \/ InsertPending \/ Rejecting \/ OpenRun \/ GoldenFails \/ EndRound \/ CompleteRun \/ Sweep
    BY <2>2, <2>3, QuietWritesNothing, RejectingFacts DEF Open, InsertPending, OpenRun, GoldenFails,
       EndRound, CompleteRun, Sweep, SweepQStems, storeVars, faultCols
  <2>4. CASE Enumerate
    BY <2>1, <2>4 DEF Enumerate, InScope
  <2>5. CASE ApplyScanExecutionMap
    BY <2>1, <2>5 DEF ApplyScanExecutionMap, InScope
  <2>6. CASE Invalidate
    BY <2>1, <2>6 DEF Invalidate, InvalidateStaleRedundant, InScope
  <2>7. CASE Preflight
    <3>0. PICK S \in SUBSET {f \in InScope : \A p \in Patterns : f \notin reduced[p]} :
            status' = [f \in Faults |-> IF f \in {g \in S : status[g] = "undetected"} \ QStems
                                          THEN "redundant" ELSE status[f]]
      BY Zenon, <2>7 DEF Preflight
    <3>1. \A f \in InScope : status'[f] = "redundant" =>
                 \/ status[f] = "redundant"
                 \/ f \notin QStems /\ \A p \in Patterns : f \notin reduced[p]
      BY <3>0 DEF InScope
    <3> QED BY <2>1, <3>1, HoldIsIdempotent
  <2>8. CASE Accept
    <3>1. \A f \in InScope : status'[f] = "redundant" => status[f] = "redundant"
      BY Zenon, <1>0, <2>8, AcceptFacts DEF CommitDetections, InScope
    <3> QED BY <2>1, <3>1
  <2>9. CASE Unsat
    <3>1. PICK f \in Targets : /\ Verdict("UNSAT") \in Answers(f)
                               /\ IF NeedsProtocol(f) THEN MarkFaultProtocolUnresolved(f)
                                                      ELSE MarkFaultRedundant(f, Model)
      BY <2>9 DEF Unsat
    <3>2. f \in Faults
      BY <1>0, TargetsAreTodo
    <3>3. CASE f \in QStems
      BY SMTT(30), <2>2, <3>1, <3>3 DEF NeedsProtocol, MarkFaultProtocolUnresolved
    <3>4. CASE f \notin QStems
      <4>1. \A g \in InScope : status'[g] = "redundant" => status[g] = "redundant" \/ g = f
        BY <3>1, <3>4 DEF NeedsProtocol, MarkFaultRedundant, CertifyRedundant, InScope
      <4>2. \A p \in Patterns : f \notin reduced[Hold[p]]
        BY Zenon, <3>1, <3>2, <3>4, UnsatIsReal
      <4> QED BY SMTT(30), <2>1, <3>4, <4>1, <4>2
    <3> QED BY <3>3, <3>4
  <2> QED BY SMTT(30), <2>3, <2>4, <2>5, <2>6, <2>7, <2>8, <2>9, Steps
<1> QED BY <1>2, <1>3, <1>4, <1>5 DEF SoundInv

-----------------------------------------------------------------------------
(* Theorems *)

SoundnessInv == ScanInv /\ BlockedInv /\ SoundInv

LEMMA InitSound == Init => BlockedInv /\ SoundInv
<1> SUFFICES ASSUME Init PROVE BlockedInv /\ SoundInv
  BY SMTT(30)
<1>0. pc = "idle" /\ mem = Fresh /\ blocked = {} /\ status = [f \in Faults |-> "absent"]
  BY ZenonT(30) DEF Init, StoreInit
<1>1. /\ Fresh.seen = {} /\ Fresh.blockedNow = {}
      /\ \A f \in Faults : Fresh.rejected[f] = {} /\ Fresh.results[f].kind = "none"
  BY Zenon DEF Fresh, NoVerdict, Verdict
<1>2. BlockedInv
  BY <1>0, <1>1 DEF BlockedInv, BlockedRowsAreFruitless
<1>3. SoundInv
  BY <1>0, <1>1 DEF SoundInv, SeenAndGraded, InRandom, Holding, ScanRedundantIsUntestable, InScope
<1> QED BY <1>2, <1>3

LEMMA SoundAlways ==
  ASSUME EnginesAgree
  PROVE  Spec => []SoundnessInv
<1>1. Init => SoundnessInv
  BY InitScan, InitSound DEF SoundnessInv
<1>2. SoundnessInv /\ [Next]_vars => SoundnessInv'
  BY ScanInvInductive, BlockedInductive, SoundInductive DEF SoundnessInv, ScanInv
<1> QED BY <1>1, <1>2, PTL DEF Spec

\* When the bit-parallel and the golden engine agree, a row of blocked_patterns never keeps
\* the solver away from a pattern that would detect its fault.
THEOREM ScanBlockedAreFruitless == ASSUME EnginesAgree PROVE Spec => []BlockedRowsAreFruitless
<1>1. SoundnessInv => BlockedRowsAreFruitless
  BY DEF SoundnessInv, BlockedInv
<1> QED BY <1>1, SoundAlways, PTL

\* When the engines agree, a certificate is true of every pattern as the tester applies it,
\* although solver, blocked patterns and pre-solved verdicts work on unheld patterns.
THEOREM ScanRedundancyIsSound == ASSUME EnginesAgree PROVE Spec => []ScanRedundantIsUntestable
<1>1. SoundnessInv => ScanRedundantIsUntestable
  BY Zenon DEF SoundnessInv, SoundInv
<1> QED BY <1>1, SoundAlways, PTL

\* When the engines agree, no transaction of a scan campaign overwrites a detection, a
\* certificate or an exclusion, the unguarded UPDATE of a commit over stale rows included.
THEOREM ScanCommitOverwritesNothing == ASSUME EnginesAgree PROVE Spec => CommitOverwritesNothing
<1> DEFINE Kept == \A f \in Faults : status[f] \in {"detected", "redundant", "excluded"} =>
                     status'[f] = status[f]
<1>1. ASSUME ScanInv, SoundInv, Next PROVE Kept
  <2> USE <1>1
  <2>0. mem \in Mems /\ status \in [Faults -> Statuses] /\ ScanTypeOK
    BY DEF ScanInv, ScanTypeOK, StoreTypeOK
  <2>1. CASE Quiet \/ Open \/ InsertPending \/ Rejecting \/ OpenRun \/ GoldenFails \/ EndRound \/ CompleteRun \/ Sweep
    BY <2>1, QuietWritesNothing, RejectingFacts DEF Open, InsertPending, OpenRun, GoldenFails,
       EndRound, CompleteRun, Sweep, SweepQStems, storeVars, faultCols
  <2>2. CASE Enumerate
    BY <2>2 DEF Enumerate, Rows
  <2>3. CASE ApplyScanExecutionMap
    <3>1. \A f \in Faults : status[f] \in {"detected", "redundant"} => f \notin ScanExcluded
      BY ScanFaults DEF ScanInv, RowInv, InScope
    <3> QED BY <2>3, <3>1 DEF ApplyScanExecutionMap
  <2>4. CASE Invalidate
    BY <2>0, <2>4 DEF Invalidate, InvalidateStaleRedundant, ScanInv, RowInv
  <2>5. CASE Preflight
    BY Zenon, <2>0, <2>5 DEF Preflight
  <2>6. CASE Unsat
    BY SMTT(30), <2>0, <2>6 DEF Unsat, MarkFaultProtocolUnresolved, MarkFaultRedundant, CertifyRedundant
  <2>7. CASE Accept
    <3>1. PICK t \in Tentatives(Held) : CommitDetections(Passed(t, Held), NextIndex)
      BY Zenon, <2>0, <2>7, AcceptFacts
    <3>2. mem.cur.pattern \in Patterns /\ Held \in Patterns
      BY ZenonT(30), <2>0, <2>7, AcceptFacts, HeldIsPattern DEF ScanInv, ControlInv, Holding
    <3>3. Passed(t, Held) \subseteq InScope \cap Exposes(Held)
      BY ZenonT(30), <2>0, <3>2, PassedIsExposed DEF Mems
    <3>4. \A f \in Passed(t, Held) : status[f] \notin {"redundant", "excluded"}
      BY Zenon, <3>2, <3>3 DEF ScanInv, RowInv, SoundInv, ScanRedundantIsUntestable, InScope, Held
    <3> QED BY ZenonT(30), <2>0, <3>1, <3>4 DEF CommitDetections
  <2> QED BY <2>1, <2>2, <2>3, <2>4, <2>5, <2>6, <2>7, Steps
<1>2. SoundnessInv /\ [Next]_vars => [Kept]_vars
  BY <1>1 DEF SoundnessInv
<1> QED BY <1>2, SoundAlways, PTL DEF Spec, CommitOverwritesNothing
==============================================================================
