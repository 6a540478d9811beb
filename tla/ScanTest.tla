------------------------------- MODULE ScanTest -------------------------------
(***************************************************************************)
(* One scan test from the solver's verdict to the faults it is credited     *)
(* with.  The solver looks for a vector of the combinational view; the      *)
(* candidate is applied to the scan netlist pulse by pulse (load, launch,   *)
(* capture, unload) on the golden simulator and, with every fault in a lane *)
(* of its own, on the bit-parallel one; grading then compares the golden    *)
(* response with the view's and decides which faults the vector detects.    *)
(*                                                                          *)
(* The code hands the protocol simulator only the faults it cannot grade on *)
(* the view.  Here it always carries the whole fault list, so that what the *)
(* view credits can be held against what the tester would see.              *)
(***************************************************************************)
EXTENDS FaultSolver

CONSTANTS Designs,     \* name |-> scan design
          Modes,       \* [design, launch, resetFaults, collapse] a run may have
          BatchSize,   \* faults per word (63 in the code)
          FupBudget,   \* nets of the fast untestability proof's region
          MaxGroups,   \* kMaxGroups: solves of one stuck-at fault
          MaxBlocked   \* patterns blocked for one target

ASSUME BoundsAssumption ==
  BatchSize \in Nat \ {0} /\ FupBudget \in Nat /\ MaxGroups \in Nat \ {0} /\ MaxBlocked \in Nat

VARIABLES mode,      \* the run's configuration, an element of Modes
          scan_ctx,  \* what the run derives from it once: graphs, view, map, fault list
          phase,     \* where the candidate is
          target,    \* the fault being solved, a set of at most one
          blocked,   \* patterns the solver may not return
          solve,     \* [k, size, done] of the observable groups
          verdict,   \* the solver's answer
          cand,      \* the candidate [vec, heads]
          count,     \* pulses applied in this phase
          sims,      \* one bit-parallel machine per batch
          gold,      \* golden machines, 0 the good one and one per fault
          samples,   \* what the sampled cycles showed
          credit     \* faults credited, by the way they were

vars == <<mode, scan_ctx, phase, target, blocked, solve, verdict, cand, count, sims, gold, samples, credit>>

(***************************************************************************)
(* What a run derives from its design and configuration: the compiled scan  *)
(* netlist, the view and the compiled view, the execution map and the fault *)
(* list.  Clock and, unless asked for, reset nets are not enumerated, the   *)
(* chain's own nets are not graded, collapsed faults are not eligible.  The *)
(* last two fields tabulate the view's fault-free response to each vector   *)
(* and each net's out-cone in breadth-first order.                          *)
(***************************************************************************)
CompileScan(des) == Compile([des.nl EXCEPT !.obs = @ \cup Range(des.scanOut)])

ExecutionMap(des, gr, vw, vgr) ==
  Table([s \in Range(gr.nets) |-> ExecutionSite(des, vw, Range(vgr.nets), s)])

ExcludedNets(m, des) == {des.clock} \cup (IF m.resetFaults THEN {} ELSE ResetPis(des))

FaultList(m, des, gr) ==
  LET enumerated == EnumerateFaults(gr, ExcludedNets(m, des))
      collapsed  == IF m.launch # "none" \/ ~m.collapse THEN {}
                    ELSE CollapsePrimitiveFaults(gr, enumerated)
      graded     == {f \in enumerated : ~ScanExcluded(des, gr.nets[f.net])}
      eligible   == {f \in graded : ~\E p \in collapsed : p[1] = f}
      seq        == Listed(graded)
      batch(b)   == SubSeq(seq, (b - 1) * BatchSize + 1, Min({b * BatchSize, Len(seq)}))
  IN  [collapsed |-> collapsed, graded |-> graded, eligible |-> eligible,
       seq |-> seq, active |-> Listed(eligible),
       batches |-> Values([b \in 1..((Len(seq) + BatchSize - 1) \div BatchSize) |-> batch(b)])]

\* The designs a campaign starts from: levelised, every output and scan-out a net of the
\* compiled graph, every graded fault in the list.
ASSUME DesignsAssumption ==
  \A m \in Modes :
    LET des == Designs[m.design]
        gr  == CompileScan(des)
    IN  /\ Levelised(gr)
        /\ \A o \in des.nl.obs : gr.id[o] \in 1..Len(gr.nets)
        /\ \A c \in 1..Len(des.chains) : gr.id[des.scanOut[c]] \in 1..Len(gr.nets)
        /\ FaultList(m, des, gr).seq \in Seq(FaultList(m, des, gr).graded)

ScanContext(m, des) ==
  LET gr  == CompileScan(des)
      vw  == BuildScanAtpgView(des)
      vgr == Compile(vw)
  IN  [design |-> des, graph |-> gr, view |-> vw, viewGraph |-> vgr,
       execution |-> ExecutionMap(des, gr, vw, vgr), faults |-> FaultList(m, des, gr),
       good  |-> Table([v \in [vw.pis -> BOOLEAN] |->
                          FaultFree(vgr, [n \in vgr.pis |-> v[vgr.nets[n]]])]),
       cones |-> Values([n \in 1..Len(vgr.nets) |-> BfsFrom(vgr, n)])]

\* The views: without flip-flops, every boundary site and scanned flop in them, and the
\* breadth-first orders what their name says.
ASSUME ViewsAssumption ==
  \A m \in Modes :
    LET des == Designs[m.design]
        ctx == ScanContext(m, des)
        vgr == ctx.viewGraph
    IN  /\ Levelised(vgr) /\ Len(vgr.ffs) = 0 /\ vgr.obs \subseteq 1..Len(vgr.nets)
        /\ \A k \in 1..Len(ctx.graph.nets) : \A t \in ctx.execution[ctx.graph.nets[k]] :
             vgr.id[t] \in 1..Len(vgr.nets)
        /\ \A x \in ScanFlops(des) : Ppo(x) \in ctx.view.obs
        /\ \A c \in 1..Len(des.chains) :
             Len(des.chains[c]) \in Nat /\ \A p \in 1..Len(des.chains[c]) : Ppi(des.chains[c][p]) \in ctx.view.pis
        /\ \A n \in 1..Len(vgr.nets) :
             LET order == BfsFrom(vgr, n)
             IN  /\ order \in Seq(1..Len(vgr.nets)) /\ order # <<>> /\ order[1] = n
                 /\ \A x \in Range(order) : FanoutTargets(vgr, x) \subseteq Range(order)
                 /\ ReachedObservables(vgr, order) \in Seq(Range(order) \cap vgr.obs)
                 /\ Range(order) \cap vgr.obs \subseteq Range(ReachedObservables(vgr, order))

(* Before that there is only the design itself. *)
NoContext(m) == [design |-> Designs[m.design], execution |-> <<>>]

d == scan_ctx.design
g == scan_ctx.graph
vg == scan_ctx.viewGraph
view == scan_ctx.view
transition == mode.launch # "none"
Collapsed == scan_ctx.faults.collapsed
Graded == scan_ctx.faults.graded
Eligible == scan_ctx.faults.eligible
FaultSeq == scan_ctx.faults.seq
Batches == scan_ctx.faults.batches
Site(f) == g.nets[f.net]
QStem(f) == \E x \in Range(g.ffs) : x.out = f.net
ViewFault(f) == [net |-> vg.id[CHOOSE s \in scan_ctx.execution[Site(f)] : TRUE], sa |-> f.sa]

Vectors == [view.pis -> BOOLEAN]
Heads == IF mode.launch = "los" THEN [1..Len(d.chains) -> BOOLEAN]
         ELSE {[c \in 1..Len(d.chains) |-> FALSE]}
ByIndex(gr, vec) == [n \in gr.pis |-> vec[gr.nets[n]]]

NoCandidate == [vec |-> <<>>, heads |-> <<>>]
NoCredit == [reduced |-> {}, captured |-> {}, protocol |-> {}]
NoSolve == [k |-> 0, size |-> 1, done |-> 0]

Init == /\ mode \in Modes /\ scan_ctx = NoContext(mode)
        /\ phase = "start" /\ target = {} /\ blocked = {} /\ solve = NoSolve /\ verdict = "none"
        /\ cand = NoCandidate /\ count = 0 /\ sims = <<>> /\ gold = <<>> /\ samples = <<>>
        /\ credit = NoCredit

solverVars == <<target, blocked, solve, verdict>>
protocolVars == <<count, sims, gold, samples>>

(* The context is built; an eligible fault without a view site ends the run. *)
BuildScanPipelineContext ==
  /\ phase = "start"
  /\ scan_ctx' = ScanContext(mode, d)
  /\ phase' = IF \E f \in scan_ctx'.faults.eligible :
                   scan_ctx'.execution[scan_ctx'.graph.nets[f.net]] = {}
              THEN "boundary_map_missing" ELSE "idle"
  /\ UNCHANGED <<mode, cand, credit, solverVars, protocolVars>>

(***************************************************************************)
(* The solver.  A limit may end any of its solves without an answer.        *)
(***************************************************************************)
Good(vec) == scan_ctx.good[vec]
OutputsOf(nv) == [n \in view.obs |-> 0 \in nv[vg.id[n]]]

CaptureVector(vec, heads) ==
  IF mode.launch = "los" THEN DeriveLosCapture(d, vec, heads)
  ELSE DeriveLocCapture(d, vec, OutputsOf(Good(vec)))

Order(f) == scan_ctx.cones[ViewFault(f).net]
Reached(f) == ReachedObservables(vg, Order(f))
DifferencesOf(f, vec) == Differences(vg, Range(Order(f)), Good(vec), ViewFault(f))

SatVectors(f, nets) ==
  {v \in Vectors : [vec |-> v, heads |-> <<>>] \notin blocked
                     /\ DifferencesOf(f, v) \cap nets # {}}

\* Mutant: the launch frame need not hold the value before the edge.
TwoFrameUnlaunched(f, v, h) ==
  LET capture == CaptureVector(v, h)
  IN  /\ (0 \in Good(capture)[ViewFault(f).net]) <=> (f.sa = 0)
      /\ DifferencesOf(f, capture) \cap vg.obs # {}

TwoFrameSatisfied(f, v, h) ==
  LET vf      == ViewFault(f)
      capture == CaptureVector(v, h)
  IN  /\ (0 \in Good(v)[vf.net]) <=> (vf.sa = 1)
      /\ (0 \in Good(capture)[vf.net]) <=> (vf.sa = 0)
      /\ DifferencesOf(f, capture) \cap vg.obs # {}

(* Transition faults have one formula; stuck-at faults the plain or the incremental solver. *)
SolverEntry(f) ==
  IF transition THEN {"frames"}
  ELSE {"whole", IF FupApplies(Order(f), FupBudget) THEN "fup" ELSE "groups"}

StartSolve ==
  /\ phase = "idle"
  /\ \E f \in Eligible :
       /\ target' = {f}
       /\ \/ Reached(f) = <<>> /\ phase' = "solved" /\ verdict' = "UNSAT"
          \/ Reached(f) # <<>> /\ phase' \in SolverEntry(f) /\ verdict' = "none"
  /\ UNCHANGED <<mode, scan_ctx, blocked, solve, cand, credit, protocolVars>>

Answer(v, pattern) ==
  /\ phase' = "solved" /\ verdict' = v /\ cand' = pattern
  /\ UNCHANGED <<mode, scan_ctx, target, blocked, solve, credit, protocolVars>>

SolverLimit ==
  /\ phase \in {"whole", "fup", "groups", "frames"}
  /\ Answer("UNKNOWN", NoCandidate)

SolveStuckAtFault ==
  /\ phase = "whole"
  /\ LET sat == SatVectors(CHOOSE f \in target : TRUE, Range(Reached(CHOOSE f \in target : TRUE)))
     IN  IF sat = {} THEN Answer("UNSAT", NoCandidate)
         ELSE \E v \in sat : Answer("SAT", [vec |-> v, heads |-> <<>>])

FastUntestabilityProof ==
  /\ phase = "fup"
  /\ LET f   == CHOOSE f \in target : TRUE
         cut == FupCut(vg, Order(f), FupBudget)
     IN  IF cut # {} /\ SatVectors(f, cut) = {} THEN Answer("UNSAT", NoCandidate)
         ELSE /\ phase' = "groups"
              /\ UNCHANGED <<mode, scan_ctx, cand, credit, solverVars, protocolVars>>

SolveGroup ==
  /\ phase = "groups"
  /\ LET f   == CHOOSE f \in target : TRUE
         all == Reached(f)
         end == GroupEnd(Len(all), solve.k, solve.size, solve.done, MaxGroups)
         sat == SatVectors(f, Range(SubSeq(all, 1, end)))
     IN  IF sat # {} THEN \E v \in sat : Answer("SAT", [vec |-> v, heads |-> <<>>])
         ELSE IF end = Len(all) THEN Answer("UNSAT", NoCandidate)
         ELSE /\ solve' = [k |-> end, size |-> 2 * solve.size, done |-> solve.done + 1]
              /\ UNCHANGED <<mode, scan_ctx, phase, target, blocked, verdict, cand, credit, protocolVars>>

SolveTwoFrameTransition ==
  /\ phase = "frames"
  /\ LET f   == CHOOSE f \in target : TRUE
         sat == {p \in [vec : Vectors, heads : Heads] :
                   p \notin blocked /\ TwoFrameSatisfied(f, p.vec, p.heads)}
     IN  IF sat = {} THEN Answer("UNSAT", NoCandidate) ELSE \E p \in sat : Answer("SAT", p)

(* The caller blocks a pattern it could not use and asks again, or is done. *)
BlockPattern ==
  /\ phase = "solved" /\ verdict = "SAT" /\ Cardinality(blocked) < MaxBlocked
  /\ blocked' = blocked \cup {cand}
  /\ \E f \in target : phase' \in SolverEntry(f)
  /\ cand' = NoCandidate /\ verdict' = "none" /\ solve' = NoSolve
  /\ UNCHANGED <<mode, scan_ctx, target, credit, protocolVars>>

FinishTarget ==
  /\ phase = "solved"
  /\ phase' = "idle" /\ target' = {} /\ blocked' = {} /\ verdict' = "none"
  /\ solve' = NoSolve /\ cand' = NoCandidate
  /\ UNCHANGED <<mode, scan_ctx, credit, protocolVars>>

(***************************************************************************)
(* The scan protocol.  A pulse is two cycles, clock off and clock on; a     *)
(* sampled pulse records what the outputs show while the clock is off.  An  *)
(* asynchronous control is held off unless its faults are being graded.     *)
(***************************************************************************)
Held(vec) == IF mode.resetFaults THEN vec
             ELSE [n \in DOMAIN vec |-> IF n \in ResetPis(d) THEN TRUE ELSE vec[n]]
Applied == Held(cand.vec)

PulseInputs(se, si, clk) ==
  [n \in g.pis |->
     LET net == g.nets[n]
     IN  CASE net = d.clock -> clk
           [] net = d.scanEnable -> se
           [] \E c \in 1..Len(d.chains) : net = d.scanIn[c] ->
                si[CHOOSE c \in 1..Len(d.chains) : net = d.scanIn[c]]
           [] OTHER -> Applied[net]]

Lanes(b) == 0..Len(Batches[b])
BatchMasks(active) ==
  [b \in DOMAIN sims |-> IF active THEN FaultMasks(g, 1..Len(Batches[b]), Batches[b]) ELSE NoFaults(g)]
ReferenceMasks(active) ==
  [i \in DOMAIN gold |-> IF active /\ i > 0 THEN FaultMasks(g, {0}, [l \in {0} |-> FaultSeq[i]])
                         ELSE NoFaults(g)]

ParallelCycles(ms, inputs, masks) ==
  Values([b \in DOMAIN ms |-> ParallelCycle(g, ms[b], inputs, masks[b], Lanes(b))])
GoldenCycles(ms, inputs, masks) ==
  Table([i \in DOMAIN ms |-> GoldenCycle(g, ms[i], inputs, masks[i])])

Pulse(se, si, active, sampled) ==
  /\ \E off \in {PulseInputs(se, si, FALSE)}, on \in {PulseInputs(se, si, TRUE)},
        masks \in {BatchMasks(active)}, refs \in {ReferenceMasks(active)} :
       \E pOff \in {ParallelCycles(sims, off, masks)}, gOff \in {GoldenCycles(gold, off, refs)} :
         /\ sims' = ParallelCycles(pOff, on, masks)
         /\ gold' = GoldenCycles(gOff, on, refs)
         /\ samples' = IF ~sampled THEN samples
                       ELSE Append(samples, [words |-> [b \in DOMAIN pOff |-> pOff[b].nv],
                                             golden |-> [i \in DOMAIN gOff |-> gOff[i].nv]])
  /\ UNCHANGED <<mode, scan_ctx, cand, credit, solverVars>>

NoScanIn == [c \in 1..Len(d.chains) |-> FALSE]
Advance(last, next) ==
  IF count + 1 = last THEN count' = 0 /\ phase' = next ELSE count' = count + 1 /\ UNCHANGED phase

(* A vector of the solver, or a random one *)
Submit ==
  /\ phase = "idle"
  /\ \E v \in Vectors, h \in Heads : cand' = [vec |-> v, heads |-> h]
  /\ phase' = "load" /\ count' = 0 /\ samples' = <<>>
  /\ sims' = Values([b \in 1..Len(Batches) |-> PowerUp(g)])
  /\ gold' = Table([i \in 0..Len(FaultSeq) |-> PowerUp(g)])
  /\ UNCHANGED <<mode, scan_ctx, credit, solverVars>>

LoadPulse ==
  /\ phase = "load"
  /\ Pulse(TRUE, [c \in 1..Len(d.chains) |-> LoadSequence(d, c, Applied)[count + 1]], FALSE, FALSE)
  /\ Advance(MaxChainLength(d), IF transition THEN "launch" ELSE "capture")

LaunchPulse ==
  /\ phase = "launch" /\ mode.launch = "loc"
  /\ Pulse(FALSE, NoScanIn, FALSE, TRUE)
  /\ Advance(1, "capture")

LaunchShift ==
  /\ phase = "launch" /\ mode.launch = "los"
  /\ Pulse(TRUE, cand.heads, FALSE, TRUE)
  /\ Advance(1, "capture")

CapturePulse ==
  /\ phase = "capture"
  /\ Pulse(FALSE, NoScanIn, TRUE, TRUE)
  /\ Advance(1, "unload")

(* A delay fault acts between launch and capture only, a stuck-at in the unload too. *)
UnloadPulse ==
  /\ phase = "unload"
  /\ Pulse(TRUE, NoScanIn, ~transition, TRUE)
  /\ Advance(MaxChainLength(d), "grade")

(***************************************************************************)
(* Observations: the functional outputs at the capture sample and the       *)
(* scan-outs at the unload samples, of one lane of a word.                  *)
(***************************************************************************)
CaptureSample == IF transition THEN 2 ELSE 1
Observations(words, lane) ==
  [po     |-> [o \in d.nl.obs |-> lane \in words[CaptureSample][g.id[o]]],
   unload |-> [c \in 1..Len(d.chains) |-> [i \in 1..MaxChainLength(d) |->
                 lane \in words[CaptureSample + i][g.id[d.scanOut[c]]]]]]

GoldenObservations(i) == Observations([s \in 1..Len(samples) |-> samples[s].golden[i]], 0)
LaneObservations(b, l) == Observations([s \in 1..Len(samples) |-> samples[s].words[b]], l)

(* The transition qualifier reads the good lane at the fault's own net. *)
Qualified(b, l) ==
  LET f == Batches[b][l]
      good(s) == 0 \in samples[s].words[b][f.net]
  IN  transition => (good(1) <=> (f.sa = 1)) /\ (good(2) <=> (f.sa = 0))

ProtocolDetected ==
  UNION {{Batches[b][l] : l \in {k \in 1..Len(Batches[b]) :
            LaneObservations(b, k) # GoldenObservations(0) /\ Qualified(b, k)}} :
         b \in 1..Len(Batches)}

(***************************************************************************)
(* Grading.  The golden response must be the one the view predicts.  A SAT  *)
(* candidate must detect its own target on the view.  The view's detections *)
(* are then trusted, a stuck Q stem it missed is credited from the captured *)
(* value its own bit unloads, and transition Q stems are left to the        *)
(* protocol simulator.                                                      *)
(***************************************************************************)
ReducedVector == IF transition THEN CaptureVector(Applied, cand.heads) ELSE Applied
ReducedExpectation == OutputsOf(Good(ReducedVector))

ReducedProtocolMatches ==
  LET seen == GoldenObservations(0)
  IN  /\ \A o \in d.nl.obs : seen.po[o] = ReducedExpectation[view.ports[o]]
      /\ \A c \in 1..Len(d.chains) : seen.unload[c] = UnloadSequence(d, c, ReducedExpectation)

(* The faults of a sequence that the view simulation of a vector detects. *)
ViewDetected(fs, vec, heads) ==
  LET vfs == [i \in 1..Len(fs) |-> ViewFault(fs[i])]
  IN  {fs[l] : l \in IF transition
                     THEN SimulateTransitionBatch(vg, ByIndex(vg, vec),
                                                  ByIndex(vg, CaptureVector(vec, heads)), vfs)
                     ELSE SimulateBatch(vg, ByIndex(vg, vec), vfs)}

Tentative == ViewDetected(scan_ctx.faults.active, Applied, cand.heads)

CapturedValue(f) == ReducedExpectation[Ppo((CHOOSE x \in Range(g.ffs) : x.out = f.net).inst)]

(* Faults whose formula the candidate, as the solver returned it, satisfies *)
SolvedBy(p) ==
  {f \in Eligible : IF transition THEN TwoFrameSatisfied(f, p.vec, p.heads)
                    ELSE DifferencesOf(f, p.vec) \cap vg.obs # {}}

\* Mutant: the captured value credits the other polarity.
CreditsInverted(t, tentative, seen) ==
  LET qStems   == {f \in Eligible : QStem(f)}
      missed   == qStems \ tentative
      captured == {f \in missed : CapturedValue(f) <=> (f.sa = 1)}
  IN  IF ~(t \subseteq tentative) THEN NoCredit
      ELSE IF transition
      THEN [reduced |-> tentative \ qStems, captured |-> {},
            protocol |-> qStems \cap seen]
      ELSE [reduced |-> tentative, captured |-> captured,
            protocol |-> ((t \cap missed) \ captured) \cap seen]

Credits(t, tentative, seen) ==
  LET qStems   == {f \in Eligible : QStem(f)}
      missed   == qStems \ tentative
      captured == {f \in missed : CapturedValue(f) <=> (f.sa = 0)}
  IN  IF ~(t \subseteq tentative) THEN NoCredit
      ELSE IF transition
      THEN [reduced |-> tentative \ qStems, captured |-> {},
            protocol |-> qStems \cap seen]
      ELSE [reduced |-> tentative, captured |-> captured,
            protocol |-> ((t \cap missed) \ captured) \cap seen]

(* A SAT candidate has the target it was solved for, a random one none. *)
ProcessScanCandidate ==
  /\ phase = "grade"
  /\ IF ~ReducedProtocolMatches THEN phase' = "aborted" /\ UNCHANGED credit
     ELSE /\ phase' = "graded"
          /\ \E t \in {{}} \cup {{f} : f \in SolvedBy(cand)},
                tentative \in {Tentative}, seen \in {ProtocolDetected} :
               credit' = Credits(t, tentative, seen)
  /\ UNCHANGED <<mode, scan_ctx, cand, solverVars, protocolVars>>

NextCandidate ==
  /\ phase = "graded"
  /\ phase' = "idle" /\ cand' = NoCandidate /\ credit' = NoCredit
  /\ count' = 0 /\ sims' = <<>> /\ gold' = <<>> /\ samples' = <<>>
  /\ UNCHANGED <<mode, scan_ctx, solverVars>>

Next ==
  \/ BuildScanPipelineContext
  \/ StartSolve \/ SolverLimit \/ SolveStuckAtFault \/ FastUntestabilityProof \/ SolveGroup
  \/ SolveTwoFrameTransition \/ BlockPattern \/ FinishTarget
  \/ Submit \/ LoadPulse \/ LaunchPulse \/ LaunchShift \/ CapturePulse \/ UnloadPulse
  \/ ProcessScanCandidate \/ NextCandidate

Spec == Init /\ [][Next]_vars

(***************************************************************************)
(* Properties                                                               *)
(***************************************************************************)

(* What each lane of the bit-parallel simulator shows at the outputs over a  *)
(* whole scan test is what the golden simulator shows for that lane's fault, *)
(* and lane 0 shows the fault-free response: packing 63 faults in a word     *)
(* changes nothing that is observed.                                         *)
LanesMatchGolden ==
  phase = "grade" =>
    \A b \in 1..Len(Batches) :
      /\ LaneObservations(b, 0) = GoldenObservations(0)
      /\ \A l \in 1..Len(Batches[b]) :
           LaneObservations(b, l) = GoldenObservations((b - 1) * BatchSize + l)

(* A scan campaign on a well-formed design is never refused by its own       *)
(* checks: every fault to be graded has a site in the view                   *)
(* (boundary_map_missing), and the view predicts the golden response of      *)
(* every vector, launch and control setting (golden_sequence_failed).        *)
ViewPredictsProtocol == phase \notin {"boundary_map_missing", "aborted"}

(* Every fault credited to a vector is one the tester sees: applying the     *)
(* vector to the scan netlist with that fault changes an output or an        *)
(* unloaded bit, and for a transition the net makes its edge.  Stuck Q stems *)
(* the view detects are the exception ReducedCreditIsObserved is about, and  *)
(* a launch by shift with the control asserted is left out: the shift        *)
(* ignores the control, the view's launch frame does not.                    *)
ControlAsserted == \E r \in ResetPis(d) : ~Applied[r]
CreditIsObserved ==
  phase = "graded" /\ ~(mode.launch = "los" /\ ControlAsserted) =>
    {f \in credit.reduced : ~QStem(f)} \cup credit.captured \cup credit.protocol
      \subseteq ProtocolDetected

(* The solver's verdict is the truth about the view, with the cone            *)
(* restriction, the untestability cut, the growing groups of observables and  *)
(* blocked patterns all in play: SAT returns an unblocked vector the fault    *)
(* simulator confirms, UNSAT means no unblocked vector exists.                *)
Detects(f, p) == f \in ViewDetected(<<f>>, p.vec, p.heads)
VerdictIsExact ==
  phase = "solved" =>
    \A f \in target :
      /\ verdict = "SAT" => cand \notin blocked /\ Detects(f, cand)
      /\ verdict = "UNSAT" =>
           \A v \in Vectors, h \in IF transition THEN Heads ELSE {<<>>} :
             [vec |-> v, heads |-> h] \in blocked \/ ~Detects(f, [vec |-> v, heads |-> h])

(* A fault that was collapsed away loses nothing: whenever the tester sees   *)
(* the fault it was collapsed into, it sees the collapsed one too (Q stems   *)
(* aside, whose effect the chain itself may mask).                           *)
CollapsedIsCovered ==
  phase = "graded" =>
    \A p \in Collapsed :
      {p[1], p[2]} \subseteq Graded /\ ~QStem(p[1]) /\ p[2] \in ProtocolDetected
        => p[1] \in ProtocolDetected

(* The comment above the grading of a candidate: the view "grades a fault    *)
(* exactly as the full load+capture+unload scan protocol would", "for FF     *)
(* Q-stem faults too".                                                       *)
ReducedCreditIsObserved == phase = "graded" => credit.reduced \subseteq ProtocolDetected
===============================================================================
