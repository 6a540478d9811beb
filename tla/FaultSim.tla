------------------------------- MODULE FaultSim -------------------------------
(***************************************************************************)
(* The two simulators of the core on one compiled graph.  The bit-parallel  *)
(* one carries 64 machines in the bits of a word, lane 0 the good one and   *)
(* lane k the k-th fault of the batch; the golden reference carries one     *)
(* machine.  They share the order of a cycle and nothing else: the parallel *)
(* one injects on every faulty net before it evaluates and updates          *)
(* flip-flops with masks, the golden one faults a net only where it is      *)
(* driven and updates flip-flops case by case.                              *)
(*                                                                          *)
(* A machine is [nv, ff]: the word of every net, which is also the previous *)
(* value the next cycle's clock edge is taken from, and of every flop.      *)
(***************************************************************************)
EXTENDS Netlist

PowerUp(g) == [nv |-> [n \in 1..Len(g.nets) |-> {}], ff |-> [i \in 1..Len(g.ffs) |-> {}]]

(* The lanes each net is stuck at 0 and at 1 in, lane l carrying faults[l]. *)
FaultMasks(g, lanes, faults) ==
  Values([n \in 1..Len(g.nets) |->
     [z |-> {l \in lanes : faults[l].net = n /\ faults[l].sa = 0},
      o |-> {l \in lanes : faults[l].net = n /\ faults[l].sa = 1}]])

NoFaults(g) == FaultMasks(g, {}, <<>>)

InjectFaults(masks, n, word) == (word \cup masks[n].o) \ masks[n].z

BroadcastInputs(g, nv, inputs, ones) ==
  Values([n \in DOMAIN nv |-> IF n \in g.pis THEN (IF inputs[n] THEN ones ELSE {}) ELSE nv[n]])

(* One rank of gates, and the nets after each of the first r ranks. *)
EvaluateRank(g, nv, masks, ones, r) ==
  LET rank == g.ranks[r]
      word(x) == EvalFunction(g.fn[x.type], [k \in DOMAIN x.ins |-> nv[x.ins[k]]], ones)
  IN  Values([n \in DOMAIN nv |->
         IF n \in DOMAIN rank THEN InjectFaults(masks, n, word(rank[n])) ELSE nv[n]])

Evaluated(g, nv, masks, ones) ==
  LET after[r \in 0..Len(g.ranks)] ==
        IF r = 0 THEN nv ELSE EvaluateRank(g, after[r - 1], masks, ones, r)
  IN  after

\* The test has TLC evaluate nv before it goes through the ranks.
EvaluateCombinational(g, nv, masks, ones) ==
  IF nv = <<>> THEN nv ELSE Evaluated(g, nv, masks, ones)[Len(g.ranks)]

SeedFFOutputs(g, nv, ff, masks) ==
  Values([n \in DOMAIN nv |->
     IF \E i \in 1..Len(g.ffs) : g.ffs[i].out = n
     THEN InjectFaults(masks, n, ff[CHOOSE i \in 1..Len(g.ffs) : g.ffs[i].out = n])
     ELSE nv[n]])

(* Flip-flop input slots *)
D == 1
CK == 2
SDI == 3
SE == 4
CTL == 5

(***************************************************************************)
(* What the simulators rely on in a compiled graph: every net is an input,  *)
(* a flop's output or driven by one gate, and a gate reads nothing that is  *)
(* driven in its own rank or later.                                         *)
(***************************************************************************)
Sources(g) == g.pis \cup {g.ffs[i].out : i \in 1..Len(g.ffs)}
Driven(g, r) == Sources(g) \cup UNION {DOMAIN g.ranks[q] : q \in 1..r}
SlotsRead(x) == {D, CK, SDI, SE} \cup IF x.ctl = "none" THEN {} ELSE {CTL}

Levelised(g) ==
  /\ {Len(g.nets), Len(g.ranks), Len(g.ffs)} \subseteq Nat
  /\ Driven(g, Len(g.ranks)) = 1..Len(g.nets)
  /\ \A r \in 1..Len(g.ranks) : \A n \in DOMAIN g.ranks[r] :
       /\ n \notin Driven(g, r - 1) /\ g.ranks[r][n].out = n
       /\ \A k \in DOMAIN g.ranks[r][n].ins : g.ranks[r][n].ins[k] \in Driven(g, r - 1)
  /\ \A i \in 1..Len(g.ffs) : /\ g.ffs[i].ctl \in {"none", "reset", "set"}
                              /\ {g.ffs[i].ins[k] : k \in SlotsRead(g.ffs[i])} \subseteq 1..Len(g.nets)

(***************************************************************************)
(* Flip-flop update, as masks over the lanes.  An asserted scan enable      *)
(* turns the asynchronous control off; otherwise the control forces the     *)
(* flop whatever the clock does.                                            *)
(***************************************************************************)
\* Mutant: an asserted scan enable does not turn the control off.
UpdateFFUngated(x, nv, prev, state, ones) ==
  LET scan    == nv[x.ins[SE]]
      control == IF x.ctl = "none" THEN {} ELSE ones \ nv[x.ins[CTL]]
      edge    == (nv[x.ins[CK]] \ prev[x.ins[CK]]) \ control
      capture == (nv[x.ins[D]] \ scan) \cup (nv[x.ins[SDI]] \cap scan)
      forced  == IF x.ctl = "set" THEN state \cup control ELSE state \ control
  IN  (forced \ edge) \cup (capture \cap edge)

UpdateFFWord(x, nv, prev, state, ones) ==
  LET scan    == nv[x.ins[SE]]
      control == IF x.ctl = "none" THEN {} ELSE (ones \ nv[x.ins[CTL]]) \ scan
      edge    == (nv[x.ins[CK]] \ prev[x.ins[CK]]) \ control
      capture == (nv[x.ins[D]] \ scan) \cup (nv[x.ins[SDI]] \cap scan)
      forced  == IF x.ctl = "set" THEN state \cup control ELSE state \ control
  IN  (forced \ edge) \cup (capture \cap edge)

(* One cycle: settle, let the flops see the clock, settle on their new state. *)
ParallelCycle(g, m, inputs, masks, ones) ==
  LET driven  == BroadcastInputs(g, m.nv, inputs, ones)
      faulted == Values([n \in DOMAIN driven |-> InjectFaults(masks, n, driven[n])])
      settled == EvaluateCombinational(g, SeedFFOutputs(g, faulted, m.ff, masks), masks, ones)
      ff      == Values([i \in 1..Len(g.ffs) |->
                   UpdateFFWord(g.ffs[i], settled, m.nv, m.ff[i], ones)])
  IN  [nv |-> EvaluateCombinational(g, SeedFFOutputs(g, settled, ff, masks), masks, ones),
       ff |-> ff]

(***************************************************************************)
(* The golden reference: lane 0 only, the flop's cases in the code's order. *)
(***************************************************************************)
GoldenUpdateFF(x, nv, prev, state) ==
  LET high(k) == nv[x.ins[k]] # {}
      scan    == high(SE)
      control == x.ctl # "none" /\ ~scan /\ ~high(CTL)
  IN  CASE control /\ x.ctl = "reset" -> {}
        [] control /\ x.ctl = "set"   -> {0}
        [] ~control /\ prev[x.ins[CK]] = {} /\ high(CK) -> nv[x.ins[IF scan THEN SDI ELSE D]]
        [] OTHER -> state

GoldenCycle(g, m, inputs, masks) ==
  LET driven  == BroadcastInputs(g, m.nv, inputs, {0})
      faulted == Values([n \in DOMAIN driven |->
                    IF n \in g.pis THEN InjectFaults(masks, n, driven[n]) ELSE driven[n]])
      settled == EvaluateCombinational(g, SeedFFOutputs(g, faulted, m.ff, masks), masks, {0})
      ff      == Values([i \in 1..Len(g.ffs) |->
                   GoldenUpdateFF(g.ffs[i], settled, m.nv, m.ff[i])])
  IN  [nv |-> EvaluateCombinational(g, SeedFFOutputs(g, settled, ff, masks), masks, {0}),
       ff |-> ff]

(***************************************************************************)
(* Grading on a graph without flip-flops: the lanes that differ from lane 0 *)
(* at an observed net, in one frame or in the second of two.  A transition  *)
(* also needs the good machine to hold the value before the edge in the     *)
(* first frame.                                                             *)
(***************************************************************************)
Propagated(g, nv, ones) ==
  UNION {IF 0 \in nv[o] THEN ones \ nv[o] ELSE nv[o] : o \in g.obs}

SimulateBatch(g, vec, faults) ==
  LET ones == 0..Len(faults)
      m    == ParallelCycle(g, PowerUp(g), vec, FaultMasks(g, 1..Len(faults), faults), ones)
  IN  Propagated(g, m.nv, ones)

SimulateTransitionBatch(g, launch, capture, faults) ==
  LET ones  == 0..Len(faults)
      init  == ParallelCycle(g, PowerUp(g), launch, NoFaults(g), ones)
      final == ParallelCycle(g, init, capture, FaultMasks(g, 1..Len(faults), faults), ones)
  IN  {l \in Propagated(g, final.nv, ones) :
         (0 \in init.nv[faults[l].net]) <=> (faults[l].sa = 1)}

FaultFree(g, vec) == GoldenCycle(g, PowerUp(g), vec, NoFaults(g)).nv
===============================================================================
