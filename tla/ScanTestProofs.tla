--------------------------- MODULE ScanTestProofs ---------------------------
(***************************************************************************)
(* A scan test, for every design, launch style, word width and vector: the  *)
(* lanes of every batch are the golden machines of their faults from        *)
(* power-up to the last unload (LaneInv), and the solver's answers are      *)
(* exact (VerdictInv, which uses LaneInv for the context the run derived).  *)
(***************************************************************************)
EXTENDS ScanTest, SimulatorProofs

-----------------------------------------------------------------------------
(* The batches of a fault list *)

\* The golden machine of lane l of batch b.
Reference(b, l) == IF l = 0 THEN 0 ELSE (b - 1) * BatchSize + l
LanesOf(fl, b) == 0..Len(fl.batches[b])

Batched(fl) ==
  /\ Len(fl.seq) \in Nat /\ Len(fl.batches) \in Nat
  /\ \A b \in 1..Len(fl.batches) :
       /\ Len(fl.batches[b]) \in Nat
       /\ \A l \in 1..Len(fl.batches[b]) : /\ (b - 1) * BatchSize + l \in 1..Len(fl.seq)
                                           /\ fl.batches[b][l] = fl.seq[(b - 1) * BatchSize + l]

Slice(seq, p, q) == SubSeq(seq, p + 1, Min({q, Len(seq)}))

LEMMA SliceIs ==
  ASSUME NEW S, NEW seq \in Seq(S), NEW p \in Nat, NEW q \in Nat
  PROVE  /\ Len(Slice(seq, p, q)) \in Nat
         /\ \A l \in 1..Len(Slice(seq, p, q)) : p + l \in 1..Len(seq) /\ Slice(seq, p, q)[l] = seq[p + l]
<1> DEFINE n == Min({q, Len(seq)})
           s == SubSeq(seq, p + 1, n)
<1>1. n \in Nat /\ n <= Len(seq)
  <2>1. \E x \in {q, Len(seq)} : \A y \in {q, Len(seq)} : x <= y
    OBVIOUS
  <2> QED BY <2>1 DEF Min
<1> HIDE DEF n
<1>5. Slice(seq, p, q) = s
  BY DEF Slice, n
<1>3. CASE p + 1 > n
  <2>1. s = <<>>
    BY <1>1, <1>3
  <2> HIDE DEF s
  <2>2. Len(s) = 0
    BY <2>1
  <2>3. \A l \in 1..Len(s) : FALSE
    BY <2>2
  <2> QED BY <1>5, <2>2, <2>3
<1>4. CASE p + 1 <= n
  <2>1. s \in Seq(S) /\ Len(s) = n - p /\ \A l \in 1..n - p : s[l] = seq[p + l]
    BY <1>1, <1>4
  <2> HIDE DEF s
  <2>2. \A l \in 1..n - p : p + l \in 1..Len(seq)
    BY <1>1, <1>4
  <2> QED BY <1>1, <1>4, <1>5, <2>1, <2>2
<1> QED BY <1>1, <1>3, <1>4

LEMMA FaultsAreBatched ==
  ASSUME NEW m, NEW des, NEW gr, FaultList(m, des, gr).seq \in Seq(FaultList(m, des, gr).graded)
  PROVE  Batched(FaultList(m, des, gr))
<1> DEFINE fl == FaultList(m, des, gr)
           seq == fl.seq
           batch(b) == Slice(seq, (b - 1) * BatchSize, b * BatchSize)
           K == (Len(seq) + BatchSize - 1) \div BatchSize
           B == [b \in 1..K |-> batch(b)]
<1>0. fl.batches = Values(B)
  BY DEF FaultList, Slice
<1> HIDE DEF fl
<1>1. seq \in Seq(fl.graded) /\ Len(seq) \in Nat
  BY DEF fl
<1> HIDE DEF seq
<1>2. K \in Nat
  BY <1>1, BoundsAssumption
<1>3. ASSUME NEW b \in 1..K
      PROVE  /\ Len(batch(b)) \in Nat
             /\ \A l \in 1..Len(batch(b)) : /\ (b - 1) * BatchSize + l \in 1..Len(seq)
                                            /\ batch(b)[l] = seq[(b - 1) * BatchSize + l]
  <2>1. (b - 1) * BatchSize \in Nat /\ b * BatchSize \in Nat
    <3>1. b - 1 \in Nat /\ b \in Nat /\ BatchSize \in Nat
      BY <1>2, <1>3, BoundsAssumption
    <3> QED BY <3>1
  <2> QED BY <1>1, <2>1, SliceIs
<1> HIDE DEF batch, K
<1>4. B \in [1..K -> {batch(b) : b \in 1..K}]
  OBVIOUS
<1>5. Values(B) = B /\ Len(B) = K /\ \A b \in 1..K : B[b] = batch(b)
  <2>1. \A b \in 1..K : B[b] = batch(b)
    OBVIOUS
  <2> DEFINE S == {batch(b) : b \in 1..K}
  <2> HIDE DEF B, S
  <2>2. B \in [1..K -> S]
    BY <1>4 DEF S
  <2>3. Len(B) = K
    BY <1>2, <2>2
  <2>4. Values(B) = B
    BY ZenonT(30), <1>2, <2>2, ValuesIs
  <2> QED BY <2>1, <2>3, <2>4
<1> HIDE DEF B
<1>6. fl.seq = seq
  BY DEF seq
<1>7. Len(fl.batches) = K /\ \A b \in 1..K : fl.batches[b] = batch(b)
  BY <1>0, <1>5
<1> QED BY <1>1, <1>2, <1>3, <1>6, <1>7 DEF Batched, fl

-----------------------------------------------------------------------------
(* All batches, one pulse *)

LaneStates(gr, fl, ms, gs) ==
  /\ DOMAIN ms = 1..Len(fl.batches) /\ DOMAIN gs = 0..Len(fl.seq)
  /\ \A i \in 0..Len(fl.seq) : gs[i] \in Machines(gr, {0})
  /\ \A b \in 1..Len(fl.batches) : /\ ms[b] \in Machines(gr, LanesOf(fl, b))
                                   /\ \A l \in LanesOf(fl, b) : SameLane(gr, ms[b], l, gs[Reference(b, l)])

WordMasks(gr, fl, active, b) ==
  IF active THEN FaultMasks(gr, 1..Len(fl.batches[b]), fl.batches[b]) ELSE NoFaults(gr)
BitMasks(gr, fl, active, i) == IF active /\ i > 0 THEN OneFault(gr, fl.seq[i]) ELSE NoFaults(gr)

WordCycles(gr, fl, ms, inputs, active) ==
  Values([b \in DOMAIN ms |-> ParallelCycle(gr, ms[b], inputs, WordMasks(gr, fl, active, b), LanesOf(fl, b))])
BitCycles(gr, fl, gs, inputs, active) ==
  Table([i \in DOMAIN gs |-> GoldenCycle(gr, gs[i], inputs, BitMasks(gr, fl, active, i))])

LEMMA TableIs == ASSUME NEW f PROVE Table(f) = f
BY DEF Table

LEMMA ReferenceIs ==
  ASSUME NEW fl, Batched(fl), NEW b \in 1..Len(fl.batches), NEW l \in LanesOf(fl, b)
  PROVE  /\ Reference(b, l) \in 0..Len(fl.seq)
         /\ l = 0 => Reference(b, l) = 0
         /\ l # 0 => /\ l \in 1..Len(fl.batches[b]) /\ Reference(b, l) > 0
                     /\ fl.seq[Reference(b, l)] = fl.batches[b][l]
<1>1. Len(fl.seq) \in Nat /\ Len(fl.batches[b]) \in Nat
  BY DEF Batched
<1>2. l \in Nat /\ (l = 0 \/ l \in 1..Len(fl.batches[b]))
  BY <1>1 DEF LanesOf
<1>3. CASE l = 0
  BY <1>1, <1>3 DEF Reference
<1>4. CASE l # 0
  <2>1. l \in 1..Len(fl.batches[b]) /\ Reference(b, l) = (b - 1) * BatchSize + l
    BY <1>2, <1>4 DEF Reference
  <2>2. Reference(b, l) \in 1..Len(fl.seq) /\ fl.batches[b][l] = fl.seq[Reference(b, l)]
    BY <2>1 DEF Batched
  <2> QED BY <1>1, <1>4, <2>1, <2>2
<1> QED BY <1>3, <1>4

LEMMA MasksMatch ==
  ASSUME NEW gr, Len(gr.nets) \in Nat, NEW fl, Batched(fl), NEW active,
         NEW b \in 1..Len(fl.batches), NEW l \in LanesOf(fl, b)
  PROVE  /\ WordMasks(gr, fl, active, b) \in Masks(gr, LanesOf(fl, b))
         /\ SameMasks(gr, WordMasks(gr, fl, active, b), l, BitMasks(gr, fl, active, Reference(b, l)))
<1> DEFINE faults == fl.batches[b]
<1>0. Len(faults) \in Nat /\ LanesOf(fl, b) = 0..Len(faults)
  BY DEF Batched, LanesOf
<1>1. /\ Reference(b, l) \in Nat
      /\ l = 0 => Reference(b, l) = 0
      /\ l # 0 => l \in 1..Len(faults) /\ Reference(b, l) > 0 /\ fl.seq[Reference(b, l)] = faults[l]
  <2>1. Len(fl.seq) \in Nat
    BY DEF Batched
  <2> QED BY <2>1, ReferenceIs
<1>2. /\ FaultMasks(gr, 1..Len(faults), faults) \in Masks(gr, 0..Len(faults)) /\ NoFaults(gr) \in Masks(gr, 0..Len(faults))
      /\ SameMasks(gr, FaultMasks(gr, 1..Len(faults), faults), 0, NoFaults(gr))
      /\ \A k \in 1..Len(faults) : SameMasks(gr, FaultMasks(gr, 1..Len(faults), faults), k, OneFault(gr, faults[k]))
  BY ZenonT(30), <1>0, BatchMasksLane
<1>3. CASE ~active
  <2>1. WordMasks(gr, fl, active, b) = NoFaults(gr) /\ BitMasks(gr, fl, active, Reference(b, l)) = NoFaults(gr)
    BY <1>3 DEF WordMasks, BitMasks
  <2> QED BY <1>0, <1>2, <2>1, NoFaultsLane
<1>4. CASE active
  <2>1. WordMasks(gr, fl, active, b) = FaultMasks(gr, 1..Len(faults), faults)
    BY <1>4 DEF WordMasks
  <2>2. CASE l = 0
    <3>1. BitMasks(gr, fl, active, Reference(b, l)) = NoFaults(gr)
      BY <1>1, <2>2 DEF BitMasks
    <3> QED BY <1>0, <1>2, <2>1, <2>2, <3>1
  <2>3. CASE l # 0
    <3>1. BitMasks(gr, fl, active, Reference(b, l)) = OneFault(gr, faults[l])
      BY <1>1, <1>4, <2>3 DEF BitMasks
    <3> QED BY <1>0, <1>1, <1>2, <2>1, <2>3, <3>1
  <2> QED BY <2>2, <2>3
<1> QED BY <1>3, <1>4

LEMMA BitMasksAre ==
  ASSUME NEW gr, Len(gr.nets) \in Nat, NEW fl, NEW active, NEW i
  PROVE  BitMasks(gr, fl, active, i) \in Masks(gr, {0})
<1>1. FaultMasks(gr, {0}, [k \in {0} |-> fl.seq[i]]) \in Masks(gr, {0}) /\ FaultMasks(gr, {}, <<>>) \in Masks(gr, {0})
  BY ZenonT(30), MasksAre
<1> QED BY <1>1 DEF BitMasks, OneFault, NoFaults

\* A golden machine stays one, with whatever fault it carries.
LEMMA GoldenStays ==
  ASSUME NEW gr, Levelised(gr), NEW inputs, NEW refs \in Masks(gr, {0}), NEW ref \in Machines(gr, {0})
  PROVE  GoldenCycle(gr, ref, inputs, refs) \in Machines(gr, {0})
<1>1. SameMasks(gr, refs, 0, refs) /\ SameLane(gr, ref, 0, ref)
  BY DEF SameMasks, SameLane, SameAt
<1> QED BY ZenonT(30), <1>1, CycleIsGolden

LEMMA CyclesKeepLanes ==
  ASSUME NEW gr, Levelised(gr), NEW fl, Batched(fl), NEW ms, NEW gs, LaneStates(gr, fl, ms, gs),
         NEW inputs, NEW active
  PROVE  LaneStates(gr, fl, WordCycles(gr, fl, ms, inputs, active), BitCycles(gr, fl, gs, inputs, active))
<1> DEFINE B == 1..Len(fl.batches)
           I == 0..Len(fl.seq)
           word(b) == ParallelCycle(gr, ms[b], inputs, WordMasks(gr, fl, active, b), LanesOf(fl, b))
           bit(i) == GoldenCycle(gr, gs[i], inputs, BitMasks(gr, fl, active, i))
           W == [b \in B |-> word(b)]
           G == [i \in I |-> bit(i)]
<1>0. Len(gr.nets) \in Nat /\ Len(fl.batches) \in Nat /\ DOMAIN ms = B /\ DOMAIN gs = I
  BY DEF Levelised, Batched, LaneStates
<1>1. WordCycles(gr, fl, ms, inputs, active) = Values(W) /\ BitCycles(gr, fl, gs, inputs, active) = Table(G)
  BY <1>0 DEF WordCycles, BitCycles
<1>2. ASSUME NEW i \in I PROVE bit(i) \in Machines(gr, {0})
  <2>1. gs[i] \in Machines(gr, {0}) /\ BitMasks(gr, fl, active, i) \in Masks(gr, {0})
    BY <1>0, BitMasksAre DEF LaneStates
  <2> QED BY <2>1, GoldenStays
<1>3. ASSUME NEW b \in B, NEW l \in LanesOf(fl, b)
      PROVE  word(b) \in Machines(gr, LanesOf(fl, b)) /\ SameLane(gr, word(b), l, bit(Reference(b, l)))
  <2> DEFINE r == Reference(b, l)
  <2>1. r \in I
    BY ReferenceIs
  <2>2. /\ ms[b] \in Machines(gr, LanesOf(fl, b)) /\ gs[r] \in Machines(gr, {0}) /\ SameLane(gr, ms[b], l, gs[r])
    BY <2>1 DEF LaneStates
  <2>3. /\ WordMasks(gr, fl, active, b) \in Masks(gr, LanesOf(fl, b))
        /\ SameMasks(gr, WordMasks(gr, fl, active, b), l, BitMasks(gr, fl, active, r))
    BY <1>0, MasksMatch
  <2>4. BitMasks(gr, fl, active, r) \in Masks(gr, {0})
    BY <1>0, BitMasksAre
  <2> HIDE DEF r
  <2>5. word(b) \in Machines(gr, LanesOf(fl, b)) /\ SameLane(gr, word(b), l, bit(r))
    BY <2>2, <2>3, <2>4, CycleIsGolden
  <2> QED BY <2>5 DEF r
<1>4. \A b \in B : 0 \in LanesOf(fl, b)
  BY DEF LanesOf, Batched
<1> HIDE DEF word, bit
<1>5. Values(W) = W /\ Table(G) = G
  <2>1. W \in [1..Len(fl.batches) -> {word(b) : b \in B}] /\ DOMAIN G = I /\ G = [x \in I |-> G[x]]
    OBVIOUS
  <2> HIDE DEF W, G
  <2> QED BY ZenonT(30), <1>0, <2>1, ValuesIs, TableIs
<1>6. DOMAIN W = B /\ DOMAIN G = I /\ (\A b \in B : W[b] = word(b)) /\ \A i \in I : G[i] = bit(i)
  OBVIOUS
<1> HIDE DEF W, G
<1>7. \A b \in B : W[b] \in Machines(gr, LanesOf(fl, b)) /\ \A l \in LanesOf(fl, b) : SameLane(gr, W[b], l, G[Reference(b, l)])
  <2>1. \A b \in B : \A l \in LanesOf(fl, b) : G[Reference(b, l)] = bit(Reference(b, l))
    BY <1>6, ReferenceIs
  <2> QED BY <1>3, <1>4, <1>6, <2>1
<1> QED BY <1>1, <1>2, <1>5, <1>6, <1>7 DEF LaneStates

-----------------------------------------------------------------------------
(* The scan test *)

\* What a sampled cycle recorded: the nets of every batch and of every golden machine.
SampleSet(gr, fl) ==
  {x \in [words : [1..Len(fl.batches) -> Words(gr, Nat)], golden : [0..Len(fl.seq) -> Words(gr, {0})]] :
     \A b \in 1..Len(fl.batches) : \A l \in LanesOf(fl, b) :
       SameAt(Nets(gr), x.words[b], l, x.golden[Reference(b, l)])}

Sample(ms, gs) == [words |-> [b \in DOMAIN ms |-> ms[b].nv], golden |-> [i \in DOMAIN gs |-> gs[i].nv]]

Testing == {"load", "launch", "capture", "unload", "grade"}

SampleCount ==
  /\ phase \in {"load", "launch"} => Len(samples) = 0
  /\ phase = "capture" => Len(samples) = CaptureSample - 1
  /\ phase \in {"launch", "capture"} => count = 0
  /\ phase = "unload" => Len(samples) = CaptureSample + count
  /\ phase = "grade" => MaxChainLength(d) \in Nat /\ Len(samples) = CaptureSample + MaxChainLength(d)

LaneInv ==
  /\ mode \in Modes
  /\ scan_ctx = IF phase = "start" THEN NoContext(mode) ELSE ScanContext(mode, Designs[mode.design])
  /\ phase \in Testing =>
       /\ LaneStates(g, scan_ctx.faults, sims, gold)
       /\ samples \in Seq(SampleSet(g, scan_ctx.faults))
       /\ count \in Nat /\ SampleCount

LEMMA SampleIs ==
  ASSUME NEW gr, NEW fl, Batched(fl), NEW ms, NEW gs, LaneStates(gr, fl, ms, gs)
  PROVE  Sample(ms, gs) \in SampleSet(gr, fl)
<1> DEFINE B == 1..Len(fl.batches)
           I == 0..Len(fl.seq)
           W == [b \in B |-> ms[b].nv]
           G == [i \in I |-> gs[i].nv]
<1>1. Sample(ms, gs) = [words |-> W, golden |-> G]
  BY DEF Sample, LaneStates
<1>2. ASSUME NEW b \in B PROVE ms[b].nv \in Words(gr, Nat)
  <2>1. ms[b].nv \in Words(gr, LanesOf(fl, b))
    BY DEF LaneStates, Machines
  <2>2. LanesOf(fl, b) \subseteq Nat
    BY DEF LanesOf, Batched
  <2> QED BY <2>1, <2>2 DEF Words
<1>3. \A i \in I : gs[i].nv \in Words(gr, {0})
  BY DEF LaneStates, Machines
<1>4. W \in [B -> Words(gr, Nat)] /\ G \in [I -> Words(gr, {0})]
  BY <1>2, <1>3
<1>5. ASSUME NEW b \in B, NEW l \in LanesOf(fl, b) PROVE SameAt(Nets(gr), W[b], l, G[Reference(b, l)])
  <2>1. Reference(b, l) \in I
    BY ReferenceIs
  <2>2. SameAt(Nets(gr), ms[b].nv, l, gs[Reference(b, l)].nv)
    BY DEF LaneStates, SameLane
  <2>3. W[b] = ms[b].nv /\ G[Reference(b, l)] = gs[Reference(b, l)].nv
    BY <2>1
  <2> QED BY <2>2, <2>3
<1> HIDE DEF W, G
<1> QED BY <1>1, <1>4, <1>5 DEF SampleSet

LEMMA ContextIs ==
  ASSUME LaneInv, phase # "start"
  PROVE  /\ d = Designs[mode.design] /\ Levelised(g) /\ Batched(scan_ctx.faults)
         /\ \A o \in d.nl.obs : g.id[o] \in Nets(g)
         /\ \A c \in 1..Len(d.chains) : g.id[d.scanOut[c]] \in Nets(g)
<1> DEFINE des == Designs[mode.design]
           gr == CompileScan(des)
<1>1. /\ scan_ctx = ScanContext(mode, des) /\ mode \in Modes
  BY DEF LaneInv
<1>2. scan_ctx.design = des /\ scan_ctx.graph = gr /\ scan_ctx.faults = FaultList(mode, des, gr)
  BY <1>1 DEF ScanContext
<1>3. /\ Levelised(gr)
      /\ \A o \in des.nl.obs : gr.id[o] \in 1..Len(gr.nets)
      /\ \A c \in 1..Len(des.chains) : gr.id[des.scanOut[c]] \in 1..Len(gr.nets)
      /\ FaultList(mode, des, gr).seq \in Seq(FaultList(mode, des, gr).graded)
  BY <1>1, DesignsAssumption
<1> HIDE DEF des, gr
<1>4. Batched(FaultList(mode, des, gr))
  BY <1>3, FaultsAreBatched
<1>5. d = des /\ g = gr
  BY <1>2 DEF d, g
<1> QED BY <1>2, <1>3, <1>4, <1>5 DEF Nets, des

LEMMA PulseKeepsLanes ==
  ASSUME NEW STATE se, NEW STATE si, NEW STATE active, NEW sampled \in BOOLEAN,
         LaneInv, phase \in Testing, Pulse(se, si, active, sampled)
  PROVE  /\ mode' = mode /\ scan_ctx' = scan_ctx
         /\ LaneStates(g, scan_ctx.faults, sims', gold')
         /\ ~sampled => samples' = samples
         /\ sampled => \E x \in SampleSet(g, scan_ctx.faults) : samples' = Append(samples, x)
<1> DEFINE fl == scan_ctx.faults
<1>1. Levelised(g) /\ Batched(fl) /\ LaneStates(g, fl, sims, gold)
  BY ContextIs DEF LaneInv, Testing
<1>2. PICK off, on :
        \E pOff \in {ParallelCycles(sims, off, BatchMasks(active))}, gOff \in {GoldenCycles(gold, off, ReferenceMasks(active))} :
          /\ sims' = ParallelCycles(pOff, on, BatchMasks(active))
          /\ gold' = GoldenCycles(gOff, on, ReferenceMasks(active))
          /\ samples' = IF ~sampled THEN samples ELSE Append(samples, Sample(pOff, gOff))
  BY ZenonT(30) DEF Pulse, Sample
<1>3. ASSUME NEW ms, NEW gs, LaneStates(g, fl, ms, gs), NEW inputs
      PROVE  /\ ParallelCycles(ms, inputs, BatchMasks(active)) = WordCycles(g, fl, ms, inputs, active)
             /\ GoldenCycles(gs, inputs, ReferenceMasks(active)) = BitCycles(g, fl, gs, inputs, active)
  <2>1. DOMAIN ms = DOMAIN sims /\ DOMAIN gs = DOMAIN gold
    BY <1>1, <1>3 DEF LaneStates
  <2>2. \A b \in DOMAIN ms : BatchMasks(active)[b] = WordMasks(g, fl, active, b) /\ Lanes(b) = LanesOf(fl, b)
    BY <2>1 DEF BatchMasks, WordMasks, Batches, Lanes, LanesOf
  <2>3. \A i \in DOMAIN gs : ReferenceMasks(active)[i] = BitMasks(g, fl, active, i)
    BY <2>1 DEF ReferenceMasks, BitMasks, OneFault, FaultSeq
  <2> QED BY <2>2, <2>3 DEF ParallelCycles, WordCycles, GoldenCycles, BitCycles
<1> HIDE DEF fl
<1> DEFINE pOff == WordCycles(g, fl, sims, off, active)
           gOff == BitCycles(g, fl, gold, off, active)
<1>4. LaneStates(g, fl, pOff, gOff)
  BY <1>1, CyclesKeepLanes
<1>5. /\ sims' = WordCycles(g, fl, pOff, on, active) /\ gold' = BitCycles(g, fl, gOff, on, active)
      /\ samples' = IF ~sampled THEN samples ELSE Append(samples, Sample(pOff, gOff))
  BY <1>1, <1>2, <1>3, <1>4
<1> HIDE DEF pOff, gOff
<1>6. LaneStates(g, fl, sims', gold')
  BY <1>1, <1>4, <1>5, CyclesKeepLanes
<1>7. Sample(pOff, gOff) \in SampleSet(g, fl)
  BY <1>1, <1>4, SampleIs
<1>8. mode' = mode /\ scan_ctx' = scan_ctx
  BY DEF Pulse
<1> QED BY <1>5, <1>6, <1>7, <1>8 DEF fl

\* The steps that leave the simulators alone.
LEMMA OutsideTest ==
  ASSUME LaneInv, phase # "start", mode' = mode, scan_ctx' = scan_ctx, phase' # "start", phase' \notin Testing
  PROVE  LaneInv'
BY DEF LaneInv

LEMMA InsideTest ==
  ASSUME LaneInv, phase # "start", phase' \in Testing, mode' = mode, scan_ctx' = scan_ctx,
         LaneStates(g, scan_ctx.faults, sims', gold'), samples' \in Seq(SampleSet(g, scan_ctx.faults)),
         count' \in Nat, SampleCount'
  PROVE  LaneInv'
BY DEF LaneInv, Testing, g

LEMMA LaneInit == Init => LaneInv
BY DEF Init, LaneInv, Testing

LEMMA BuildKeepsLanes == LaneInv /\ BuildScanPipelineContext => LaneInv'
<1> SUFFICES ASSUME LaneInv, BuildScanPipelineContext PROVE LaneInv'
  OBVIOUS
<1>1. phase = "start" /\ scan_ctx' = ScanContext(mode, d) /\ mode' = mode /\ phase' \in {"boundary_map_missing", "idle"}
  BY DEF BuildScanPipelineContext
<1>2. d = Designs[mode.design]
  BY <1>1 DEF LaneInv, NoContext, d
<1> QED BY <1>1, <1>2 DEF LaneInv, Testing

SolverStep ==
  \/ StartSolve \/ SolverLimit \/ SolveStuckAtFault \/ FastUntestabilityProof \/ SolveGroup
  \/ SolveTwoFrameTransition \/ BlockPattern \/ FinishTarget

LEMMA SolverKeepsLanes == LaneInv /\ SolverStep => LaneInv'
<1> SUFFICES ASSUME LaneInv, SolverStep PROVE LaneInv'
  OBVIOUS
<1> DEFINE Solving == {"idle", "whole", "fup", "groups", "frames", "solved"}
           Facts == phase \in Solving /\ phase' \in Solving /\ mode' = mode /\ scan_ctx' = scan_ctx
<1>1. ASSUME NEW f PROVE SolverEntry(f) \subseteq Solving
  BY DEF SolverEntry
<1>2. CASE StartSolve
  <2>1. Facts
    BY <1>1, <1>2 DEF StartSolve
  <2> QED BY <2>1, OutsideTest DEF Testing
<1>3. CASE SolverLimit
  <2>1. Facts
    BY <1>3 DEF SolverLimit, Answer
  <2> QED BY <2>1, OutsideTest DEF Testing
<1>4. CASE SolveStuckAtFault
  <2>1. Facts
    BY <1>4 DEF SolveStuckAtFault, Answer
  <2> QED BY <2>1, OutsideTest DEF Testing
<1>5. CASE FastUntestabilityProof
  <2>1. Facts
    BY <1>5 DEF FastUntestabilityProof, Answer
  <2> QED BY <2>1, OutsideTest DEF Testing
<1>6. CASE SolveGroup
  <2>1. Facts
    BY ZenonT(30), <1>6 DEF SolveGroup, Answer
  <2> QED BY <2>1, OutsideTest DEF Testing
<1>7. CASE SolveTwoFrameTransition
  <2>1. Facts
    BY <1>7 DEF SolveTwoFrameTransition, Answer
  <2> QED BY <2>1, OutsideTest DEF Testing
<1>8. CASE BlockPattern
  <2>1. Facts
    BY <1>1, <1>8 DEF BlockPattern
  <2> QED BY <2>1, OutsideTest DEF Testing
<1>9. CASE FinishTarget
  <2>1. Facts
    BY <1>9 DEF FinishTarget
  <2> QED BY <2>1, OutsideTest DEF Testing
<1> QED BY <1>2, <1>3, <1>4, <1>5, <1>6, <1>7, <1>8, <1>9 DEF SolverStep

LEMMA SubmitStartsLanes == LaneInv /\ Submit => LaneInv'
<1> SUFFICES ASSUME LaneInv, Submit PROVE LaneInv'
  OBVIOUS
<1> DEFINE fl == scan_ctx.faults
           m == PowerUp(g)
<1>1. /\ phase = "idle" /\ phase' = "load" /\ count' = 0 /\ samples' = <<>> /\ mode' = mode /\ scan_ctx' = scan_ctx
      /\ sims' = Values([b \in 1..Len(fl.batches) |-> m]) /\ gold' = Table([i \in 0..Len(fl.seq) |-> m])
  BY DEF Submit, Batches, FaultSeq
<1>2. Batched(fl)
  BY <1>1, ContextIs
<1>3. (\A ones : m \in Machines(g, ones)) /\ \A l : SameLane(g, m, l, m)
  BY PowerUpIs
<1> HIDE DEF fl, m
<1>4. sims' = [b \in 1..Len(fl.batches) |-> m] /\ gold' = [i \in 0..Len(fl.seq) |-> m]
  <2>1. [b \in 1..Len(fl.batches) |-> m] \in [1..Len(fl.batches) -> {m}] /\ Len(fl.batches) \in Nat
    BY <1>2 DEF Batched
  <2> QED BY ZenonT(30), <1>1, <2>1, ValuesIs, TableIs
<1>5. LaneStates(g, fl, sims', gold')
  <2>1. \A b \in 1..Len(fl.batches) : \A l \in LanesOf(fl, b) : Reference(b, l) \in 0..Len(fl.seq)
    BY <1>2, ReferenceIs
  <2> QED BY <1>3, <1>4, <2>1 DEF LaneStates
<1>6. samples' \in Seq(SampleSet(g, fl)) /\ Len(samples') = 0 /\ count' \in Nat
  BY <1>1
<1>7. SampleCount'
  BY <1>1, <1>6 DEF SampleCount
<1> QED BY <1>1, <1>5, <1>6, <1>7, InsideTest DEF fl, Testing

LEMMA AppendIs == ASSUME NEW S, NEW s \in Seq(S), NEW x \in S PROVE Append(s, x) \in Seq(S) /\ Len(Append(s, x)) = Len(s) + 1
OBVIOUS

LEMMA PulseStep ==
  ASSUME NEW STATE se, NEW STATE si, NEW STATE active, NEW sampled \in BOOLEAN,
         LaneInv, phase \in Testing, Pulse(se, si, active, sampled), phase' \in Testing, count' \in Nat,
         Len(samples') = (IF sampled THEN Len(samples) + 1 ELSE Len(samples)) => SampleCount'
  PROVE  LaneInv'
<1> DEFINE S == SampleSet(g, scan_ctx.faults)
<1>1. /\ mode' = mode /\ scan_ctx' = scan_ctx
      /\ LaneStates(g, scan_ctx.faults, sims', gold')
      /\ ~sampled => samples' = samples
      /\ sampled => \E x \in S : samples' = Append(samples, x)
  BY PulseKeepsLanes
<1>2. samples \in Seq(S)
  BY DEF LaneInv
<1> HIDE DEF S
<1>3. samples' \in Seq(S) /\ Len(samples') = IF sampled THEN Len(samples) + 1 ELSE Len(samples)
  BY <1>1, <1>2, AppendIs
<1>4. phase # "start"
  BY DEF Testing
<1> QED BY <1>1, <1>3, <1>4, InsideTest DEF S

\* The number of samples after a pulse, by the phase the pulse leads to.
LEMMA CountAfter ==
  ASSUME scan_ctx' = scan_ctx, mode' = mode, CaptureSample \in Nat, count \in Nat,
         \/ phase' = "load" /\ Len(samples') = 0
         \/ phase' = "launch" /\ Len(samples') = 0 /\ count' = 0
         \/ phase' = "capture" /\ Len(samples') = CaptureSample - 1 /\ count' = 0
         \/ phase' = "unload" /\ Len(samples') = CaptureSample + count'
         \/ phase' = "grade" /\ MaxChainLength(d) \in Nat /\ Len(samples') = CaptureSample + MaxChainLength(d)
  PROVE  SampleCount'
<1>1. CaptureSample' = CaptureSample /\ MaxChainLength(d)' = MaxChainLength(d)
  BY DEF CaptureSample, transition, d
<1> HIDE DEF CaptureSample
<1> QED BY <1>1 DEF SampleCount

LEMMA PulsesKeepLanes == LaneInv /\ (LoadPulse \/ LaunchPulse \/ LaunchShift \/ CapturePulse \/ UnloadPulse) => LaneInv'
<1> SUFFICES ASSUME LaneInv, LoadPulse \/ LaunchPulse \/ LaunchShift \/ CapturePulse \/ UnloadPulse PROVE LaneInv'
  OBVIOUS
<1>0. phase \in Testing /\ count \in Nat /\ SampleCount
  BY Zenon DEF LaneInv, Testing, LoadPulse, LaunchPulse, LaunchShift, CapturePulse, UnloadPulse
<1>a. /\ mode.launch = "none" => CaptureSample = 1 /\ ~transition
      /\ mode.launch # "none" => CaptureSample = 2 /\ transition
      /\ CaptureSample \in Nat
  BY DEF CaptureSample, transition
<1>b. scan_ctx' = scan_ctx /\ mode' = mode
  BY Zenon DEF LoadPulse, LaunchPulse, LaunchShift, CapturePulse, UnloadPulse, Pulse
<1>1. CASE LoadPulse
  <2>1. phase = "load" /\ Len(samples) = 0
    BY <1>0, <1>1 DEF LoadPulse, SampleCount
  <2>2. Advance(MaxChainLength(d), IF transition THEN "launch" ELSE "capture")
    BY <1>1 DEF LoadPulse
  <2>3. /\ count' \in Nat
        /\ \/ phase' = "load"
           \/ count' = 0 /\ phase' = "launch"
           \/ count' = 0 /\ phase' = "capture" /\ CaptureSample = 1
    <3>1. CASE mode.launch = "none"
      BY <1>0, <1>a, <2>1, <2>2, <3>1 DEF Advance
    <3>2. CASE mode.launch # "none"
      BY <1>0, <1>a, <2>1, <2>2, <3>2 DEF Advance
    <3> QED BY <3>1, <3>2
  <2>4. ASSUME Len(samples') = Len(samples) PROVE SampleCount'
    <3>1. \/ phase' = "load" /\ Len(samples') = 0
          \/ phase' = "launch" /\ Len(samples') = 0 /\ count' = 0
          \/ phase' = "capture" /\ Len(samples') = CaptureSample - 1 /\ count' = 0
      BY <2>1, <2>3, <2>4
    <3> QED BY <1>0, <1>a, <1>b, <3>1, CountAfter
  <2>5. Pulse(TRUE, [c \in 1..Len(d.chains) |-> LoadSequence(d, c, Applied)[count + 1]], FALSE, FALSE)
    BY ZenonT(30), <1>1 DEF LoadPulse
  <2> QED BY ZenonT(30), <1>0, <2>3, <2>4, <2>5, PulseStep DEF Testing
<1>2. CASE LaunchPulse \/ LaunchShift
  <2>1. phase = "launch" /\ mode.launch # "none" /\ Advance(1, "capture")
    BY ZenonT(30), <1>2 DEF LaunchPulse, LaunchShift
  <2>2. Len(samples) = 0 /\ count = 0
    BY <1>0, <2>1 DEF SampleCount
  <2>3. count' = 0 /\ phase' = "capture"
    BY <2>1, <2>2 DEF Advance
  <2>4. Len(samples') = Len(samples) + 1 => SampleCount'
    BY <1>0, <1>a, <1>b, <2>1, <2>2, <2>3, CountAfter
  <2>5. Pulse(FALSE, NoScanIn, FALSE, TRUE) \/ Pulse(TRUE, cand.heads, FALSE, TRUE)
    BY ZenonT(30), <1>2 DEF LaunchPulse, LaunchShift
  <2> QED BY ZenonT(30), <1>0, <2>3, <2>4, <2>5, PulseStep DEF Testing
<1>3. CASE CapturePulse
  <2>1. phase = "capture" /\ Advance(1, "unload") /\ Pulse(FALSE, NoScanIn, TRUE, TRUE)
    BY ZenonT(30), <1>3 DEF CapturePulse
  <2>2. Len(samples) = CaptureSample - 1 /\ count = 0
    BY <1>0, <2>1 DEF SampleCount
  <2>3. count' = 0 /\ phase' = "unload"
    BY <2>1, <2>2 DEF Advance
  <2>4. Len(samples') = Len(samples) + 1 => SampleCount'
    BY <1>0, <1>a, <1>b, <2>2, <2>3, CountAfter
  <2> QED BY ZenonT(30), <1>0, <2>1, <2>3, <2>4, PulseStep DEF Testing
<1>4. CASE UnloadPulse
  <2>1. phase = "unload" /\ Advance(MaxChainLength(d), "grade") /\ Pulse(TRUE, NoScanIn, ~transition, TRUE)
    BY ZenonT(30), <1>4 DEF UnloadPulse
  <2>2. Len(samples) = CaptureSample + count
    BY <1>0, <2>1 DEF SampleCount
  <2>3. \/ phase' = "unload" /\ count' = count + 1
        \/ phase' = "grade" /\ count' = 0 /\ count + 1 = MaxChainLength(d)
    BY <2>1 DEF Advance
  <2>4. Len(samples') = Len(samples) + 1 => SampleCount'
    <3>1. CASE phase' = "unload" /\ count' = count + 1
      BY <1>0, <1>a, <1>b, <2>2, <3>1, CountAfter
    <3>2. CASE phase' = "grade" /\ count' = 0 /\ count + 1 = MaxChainLength(d)
      <4>1. CaptureSample + count + 1 = CaptureSample + MaxChainLength(d) /\ MaxChainLength(d) \in Nat
        BY <1>0, <1>a, <3>2
      <4> QED BY <1>0, <1>a, <1>b, <2>2, <3>2, <4>1, CountAfter
    <3> QED BY <2>3, <3>1, <3>2
  <2>5. count' \in Nat /\ phase' \in Testing
    BY <1>0, <2>3 DEF Testing
  <2> QED BY ZenonT(30), <1>0, <2>1, <2>4, <2>5, PulseStep
<1> QED BY <1>1, <1>2, <1>3, <1>4

LEMMA LaneInductive == LaneInv /\ [Next]_vars => LaneInv'
<1> SUFFICES ASSUME LaneInv, [Next]_vars PROVE LaneInv'
  OBVIOUS
<1>1. CASE ProcessScanCandidate \/ NextCandidate
  <2>1. /\ phase \in {"grade", "graded"} /\ phase' \in {"aborted", "graded", "idle"}
        /\ mode' = mode /\ scan_ctx' = scan_ctx
    BY <1>1 DEF ProcessScanCandidate, NextCandidate
  <2> QED BY <2>1, OutsideTest DEF Testing
<1>2. CASE UNCHANGED vars
  BY <1>2 DEF vars, LaneInv, SampleCount, CaptureSample, transition, g, d
<1> QED BY <1>1, <1>2, BuildKeepsLanes, SolverKeepsLanes, SubmitStartsLanes, PulsesKeepLanes DEF Next, SolverStep

LEMMA LanesHold == Spec => []LaneInv
BY LaneInit, LaneInductive, PTL DEF Spec

\* Two lanes that agree on every sampled net show the same at the outputs.
LEMMA SameObservations ==
  ASSUME NEW words, NEW l, NEW bits, NEW k,
         \A o \in d.nl.obs : l \in words[CaptureSample][g.id[o]] <=> k \in bits[CaptureSample][g.id[o]],
         \A c \in 1..Len(d.chains) : \A i \in 1..MaxChainLength(d) :
           l \in words[CaptureSample + i][g.id[d.scanOut[c]]] <=> k \in bits[CaptureSample + i][g.id[d.scanOut[c]]]
  PROVE  Observations(words, l) = Observations(bits, k)
<1>1. [o \in d.nl.obs |-> l \in words[CaptureSample][g.id[o]]] = [o \in d.nl.obs |-> k \in bits[CaptureSample][g.id[o]]]
  OBVIOUS
<1>2. \A c \in 1..Len(d.chains) :
        [i \in 1..MaxChainLength(d) |-> l \in words[CaptureSample + i][g.id[d.scanOut[c]]]]
          = [i \in 1..MaxChainLength(d) |-> k \in bits[CaptureSample + i][g.id[d.scanOut[c]]]]
  OBVIOUS
<1>3. [c \in 1..Len(d.chains) |-> [i \in 1..MaxChainLength(d) |-> l \in words[CaptureSample + i][g.id[d.scanOut[c]]]]]
        = [c \in 1..Len(d.chains) |-> [i \in 1..MaxChainLength(d) |-> k \in bits[CaptureSample + i][g.id[d.scanOut[c]]]]]
  BY <1>2
<1> QED BY ZenonT(30), <1>1, <1>3 DEF Observations

LEMMA LanesAgree ==
  ASSUME LaneInv, phase = "grade", NEW b \in 1..Len(Batches), NEW l \in 0..Len(Batches[b])
  PROVE  LaneObservations(b, l) = GoldenObservations(Reference(b, l))
<1> DEFINE fl == scan_ctx.faults
           S == 1..Len(samples)
           words == [s \in S |-> samples[s].words[b]]
           bits == [s \in S |-> samples[s].golden[Reference(b, l)]]
<1>1. /\ \A o \in d.nl.obs : g.id[o] \in Nets(g)
      /\ \A c \in 1..Len(d.chains) : g.id[d.scanOut[c]] \in Nets(g)
  BY ContextIs
<1>2. samples \in Seq(SampleSet(g, fl)) /\ SampleCount
  BY DEF LaneInv, Testing
<1>3. b \in 1..Len(fl.batches) /\ l \in LanesOf(fl, b)
  BY DEF Batches, LanesOf
<1>4. \A s \in S : SameAt(Nets(g), words[s], l, bits[s])
  <2>1. \A s \in S : samples[s] \in SampleSet(g, fl)
    BY <1>2
  <2>2. \A x \in SampleSet(g, fl) : SameAt(Nets(g), x.words[b], l, x.golden[Reference(b, l)])
    BY <1>3 DEF SampleSet
  <2> QED BY <2>1, <2>2
<1>5. LaneObservations(b, l) = Observations(words, l) /\ GoldenObservations(Reference(b, l)) = Observations(bits, 0)
  BY DEF LaneObservations, GoldenObservations
<1> HIDE DEF words, bits
<1>6. CaptureSample \in S /\ \A i \in 1..MaxChainLength(d) : CaptureSample + i \in S
  <2>1. MaxChainLength(d) \in Nat /\ Len(samples) = CaptureSample + MaxChainLength(d)
    BY <1>2 DEF SampleCount
  <2>2. CaptureSample \in {1, 2}
    BY DEF CaptureSample
  <2> QED BY <2>1, <2>2
<1>7. \A o \in d.nl.obs : l \in words[CaptureSample][g.id[o]] <=> 0 \in bits[CaptureSample][g.id[o]]
  BY <1>1, <1>4, <1>6 DEF SameAt
<1>8. \A c \in 1..Len(d.chains) : \A i \in 1..MaxChainLength(d) :
        l \in words[CaptureSample + i][g.id[d.scanOut[c]]] <=> 0 \in bits[CaptureSample + i][g.id[d.scanOut[c]]]
  BY <1>1, <1>4, <1>6 DEF SameAt
<1> QED BY <1>5, <1>7, <1>8, SameObservations

\* LanesMatchGolden for every design, launch style, vector and batch size: over a whole scan test
\* a lane of the bit-parallel simulator shows what the golden simulator shows for its fault.
THEOREM ScanLanesAreGolden == Spec => []LanesMatchGolden
<1>1. LaneInv => LanesMatchGolden
  <2> SUFFICES ASSUME LaneInv, phase = "grade", NEW b \in 1..Len(Batches)
               PROVE  /\ LaneObservations(b, 0) = GoldenObservations(0)
                      /\ \A l \in 1..Len(Batches[b]) : LaneObservations(b, l) = GoldenObservations((b - 1) * BatchSize + l)
    BY DEF LanesMatchGolden
  <2>1. Len(Batches[b]) \in Nat
    BY ContextIs DEF Batched, Batches
  <2>2. 0 \in 0..Len(Batches[b]) /\ Reference(b, 0) = 0
    BY <2>1 DEF Reference
  <2>3. \A l \in 1..Len(Batches[b]) : l \in 0..Len(Batches[b]) /\ Reference(b, l) = (b - 1) * BatchSize + l
    BY <2>1 DEF Reference
  <2> QED BY <2>2, <2>3, LanesAgree
<1> QED BY <1>1, LanesHold, PTL

-----------------------------------------------------------------------------
(* What a run's context says of a fault and its view *)

Sited(ctx) == \A f \in ctx.faults.eligible : ctx.execution[ctx.graph.nets[f.net]] # {}

ViewSite(ctx, f) == [net |-> ctx.viewGraph.id[CHOOSE s \in ctx.execution[ctx.graph.nets[f.net]] : TRUE], sa |-> f.sa]
ViewOrder(ctx, f) == ctx.cones[ViewSite(ctx, f).net]
ViewVectors(ctx) == [ctx.view.pis -> BOOLEAN]
ViewDifferences(ctx, f, vec) == Differences(ctx.viewGraph, Range(ViewOrder(ctx, f)), ctx.good[vec], ViewSite(ctx, f))

LEMMA ViewIs ==
  ASSUME NEW m \in Modes, NEW ctx, ctx = ScanContext(m, Designs[m.design])
  PROVE  /\ Levelised(ctx.viewGraph) /\ Len(ctx.viewGraph.ffs) = 0 /\ ctx.viewGraph.obs \subseteq Nets(ctx.viewGraph)
         /\ \A v \in ViewVectors(ctx) : ctx.good[v] = FaultFree(ctx.viewGraph, ByIndex(ctx.viewGraph, v))
<1> DEFINE vgr == ctx.viewGraph
           G == [v \in [ctx.view.pis -> BOOLEAN] |-> FaultFree(vgr, [n \in vgr.pis |-> v[vgr.nets[n]]])]
<1>1. Levelised(vgr) /\ Len(vgr.ffs) = 0 /\ vgr.obs \subseteq 1..Len(vgr.nets)
  BY ZenonT(30), ViewsAssumption
<1>2. ctx.good = Table(G)
  BY DEF ScanContext
<1>3. ctx.good = G
  BY ZenonT(30), <1>2, TableIs
<1>4. \A v \in ViewVectors(ctx) : ctx.good[v] = FaultFree(vgr, ByIndex(vgr, v))
  BY ZenonT(30), <1>3 DEF ByIndex, ViewVectors
<1> QED BY <1>1, <1>4 DEF Nets

LEMMA EligibleIs ==
  ASSUME NEW m, NEW des, NEW gr
  PROVE  FaultList(m, des, gr).eligible \subseteq EnumerateFaults(gr, ExcludedNets(m, des))
<1> DEFINE enumerated == EnumerateFaults(gr, ExcludedNets(m, des))
           collapsed == IF m.launch # "none" \/ ~m.collapse THEN {} ELSE CollapsePrimitiveFaults(gr, enumerated)
           graded == {f \in enumerated : ~ScanExcluded(des, gr.nets[f.net])}
           eligible == {f \in graded : ~\E p \in collapsed : p[1] = f}
<1>1. FaultList(m, des, gr).eligible = eligible
  BY DEF FaultList
<1>2. eligible \subseteq graded /\ graded \subseteq enumerated
  OBVIOUS
<1> HIDE DEF eligible, graded, enumerated
<1> QED BY <1>1, <1>2 DEF enumerated

LEMMA SiteIs ==
  ASSUME NEW m \in Modes, NEW ctx, ctx = ScanContext(m, Designs[m.design]), Sited(ctx), NEW f \in ctx.faults.eligible
  PROVE  ViewSite(ctx, f).net \in Nets(ctx.viewGraph) /\ ViewSite(ctx, f).sa \in {0, 1}
<1> DEFINE des == Designs[m.design]
           gr == CompileScan(des)
           t == CHOOSE s \in ctx.execution[ctx.graph.nets[f.net]] : TRUE
<1>1. ctx.graph = gr /\ ctx.faults = FaultList(m, des, gr)
  BY Zenon DEF ScanContext
<1>2. f \in EnumerateFaults(gr, ExcludedNets(m, des))
  BY <1>1, EligibleIs
<1>3. f.net \in 1..Len(gr.nets) /\ f.sa \in {0, 1}
  BY <1>2 DEF EnumerateFaults
<1>4. t \in ctx.execution[ctx.graph.nets[f.net]]
  BY ZenonT(30) DEF Sited
<1>5. \A k \in 1..Len(ctx.graph.nets) : \A s \in ctx.execution[ctx.graph.nets[k]] : ctx.viewGraph.id[s] \in 1..Len(ctx.viewGraph.nets)
  BY ZenonT(30), ViewsAssumption
<1>6. ctx.viewGraph.id[t] \in 1..Len(ctx.viewGraph.nets)
  BY ZenonT(30), <1>1, <1>3, <1>4, <1>5
<1> QED BY ZenonT(30), <1>3, <1>6 DEF ViewSite, Nets

\* The order is a cone: it starts at its net and leads out of no net of it.
IsCone(gr, n, order) ==
  /\ order \in Seq(Nets(gr)) /\ order # <<>> /\ order[1] = n
  /\ \A x \in Range(order) : FanoutTargets(gr, x) \subseteq Range(order)
  /\ ReachedObservables(gr, order) \in Seq(Range(order) \cap gr.obs)
  /\ Range(order) \cap gr.obs \subseteq Range(ReachedObservables(gr, order))

LEMMA ConesAre ==
  ASSUME NEW m \in Modes, NEW ctx, ctx = ScanContext(m, Designs[m.design])
  PROVE  \A n \in Nets(ctx.viewGraph) : IsCone(ctx.viewGraph, n, ctx.cones[n])
<1> DEFINE vgr == ctx.viewGraph
           C == [n \in 1..Len(vgr.nets) |-> BfsFrom(vgr, n)]
<1>1. \A n \in Nets(vgr) : IsCone(vgr, n, BfsFrom(vgr, n))
  BY ZenonT(30), ViewsAssumption DEF IsCone, Nets
<1>2. ctx.cones = Values(C)
  BY DEF ScanContext
<1>3. Len(vgr.nets) \in Nat
  BY ViewIs DEF Levelised
<1>4. C \in [1..Len(vgr.nets) -> Seq(Nets(vgr))]
  BY ZenonT(30), <1>1 DEF IsCone, Nets
<1>5. \A n \in Nets(vgr) : C[n] = BfsFrom(vgr, n)
  BY DEF Nets
<1> HIDE DEF C
<1>6. Values(C) = C
  BY ZenonT(30), <1>3, <1>4, ValuesIs
<1> QED BY <1>1, <1>2, <1>5, <1>6

-----------------------------------------------------------------------------
(* What the simulator says of one fault, and what the solver's formulas say *)

Captured(m, ctx, vec, heads) ==
  IF m.launch = "los" THEN DeriveLosCapture(ctx.design, vec, heads)
  ELSE DeriveLocCapture(ctx.design, vec, [n \in ctx.view.obs |-> 0 \in ctx.good[vec][ctx.viewGraph.id[n]]])

LaunchHeads(m, ctx) ==
  IF m.launch = "los" THEN [1..Len(ctx.design.chains) -> BOOLEAN] ELSE {[c \in 1..Len(ctx.design.chains) |-> FALSE]}

Lane1(ctx, f) == [i \in 1..Len(<<f>>) |-> ViewSite(ctx, <<f>>[i])]

DetectedBy(m, ctx, f, p) ==
  f \in {<<f>>[l] : l \in IF m.launch # "none"
                          THEN SimulateTransitionBatch(ctx.viewGraph, ByIndex(ctx.viewGraph, p.vec),
                                                       ByIndex(ctx.viewGraph, Captured(m, ctx, p.vec, p.heads)), Lane1(ctx, f))
                          ELSE SimulateBatch(ctx.viewGraph, ByIndex(ctx.viewGraph, p.vec), Lane1(ctx, f))}

TwoFrame(m, ctx, f, v, h) ==
  LET capture == Captured(m, ctx, v, h)
  IN  /\ (0 \in ctx.good[v][ViewSite(ctx, f).net]) <=> (ViewSite(ctx, f).sa = 1)
      /\ (0 \in ctx.good[capture][ViewSite(ctx, f).net]) <=> (ViewSite(ctx, f).sa = 0)
      /\ ViewDifferences(ctx, f, capture) \cap ctx.viewGraph.obs # {}

LEMMA Lane1Is == ASSUME NEW ctx, NEW f PROVE Len(Lane1(ctx, f)) = 1 /\ Lane1(ctx, f)[1] = ViewSite(ctx, f)
<1>1. Len(<<f>>) = 1 /\ <<f>>[1] = f
  OBVIOUS
<1>2. Lane1(ctx, f) = [i \in 1..1 |-> ViewSite(ctx, <<f>>[i])]
  BY <1>1 DEF Lane1
<1> QED BY <1>1, <1>2

LEMMA OneOfOne == ASSUME NEW f, NEW S, S \subseteq 1..1 PROVE f \in {<<f>>[l] : l \in S} <=> 1 \in S
OBVIOUS

LEMMA FaultIsSeen ==
  ASSUME NEW m \in Modes, NEW ctx, ctx = ScanContext(m, Designs[m.design]), Sited(ctx), NEW f \in ctx.faults.eligible,
         NEW v \in ViewVectors(ctx)
  PROVE  ViewDifferences(ctx, f, v) \cap ctx.viewGraph.obs # {}
           <=> \E o \in ctx.viewGraph.obs : FaultyResponse(ctx.viewGraph, ByIndex(ctx.viewGraph, v), ViewSite(ctx, f))[o]
                                              # FaultFree(ctx.viewGraph, ByIndex(ctx.viewGraph, v))[o]
<1> DEFINE vgr == ctx.viewGraph
           vf == ViewSite(ctx, f)
           cone == Range(ViewOrder(ctx, f))
           vec == ByIndex(vgr, v)
<1>1. /\ Levelised(vgr) /\ Len(vgr.ffs) = 0 /\ vgr.obs \subseteq Nets(vgr) /\ ctx.good[v] = FaultFree(vgr, vec)
  BY SMTT(30), ViewIs
<1>2. vf.net \in Nets(vgr) /\ vf.sa \in {0, 1}
  BY SiteIs
<1>3. IsCone(vgr, vf.net, ViewOrder(ctx, f))
  BY <1>2, ConesAre DEF ViewOrder
<1>4. vf.net \in cone /\ \A x \in cone : FanoutTargets(vgr, x) \subseteq cone
  <2>1. 1 \in DOMAIN ViewOrder(ctx, f) /\ ViewOrder(ctx, f)[1] = vf.net
    BY <1>3 DEF IsCone
  <2>2. vf.net \in cone
    BY <2>1 DEF Range
  <2> QED BY <1>3, <2>2 DEF IsCone
<1>5. ViewDifferences(ctx, f, v) = Differences(vgr, cone, FaultFree(vgr, vec), vf)
  BY <1>1 DEF ViewDifferences
<1> HIDE DEF vgr, vf, cone, vec
<1>6. Differences(vgr, cone, FaultFree(vgr, vec), vf) \cap vgr.obs # {}
        <=> \E o \in vgr.obs : FaultyResponse(vgr, vec, vf)[o] # FaultFree(vgr, vec)[o]
  BY SMTT(30), <1>1, <1>2, <1>4, DifferencesAreSeen
<1>7. ViewDifferences(ctx, f, v) \cap vgr.obs # {} <=> \E o \in vgr.obs : FaultyResponse(vgr, vec, vf)[o] # FaultFree(vgr, vec)[o]
  BY <1>5, <1>6
<1> QED BY <1>7 DEF vgr, vf, vec

\* A stuck-at fault is detected by exactly the vectors whose faulty machine differs at an observed net.
LEMMA StuckIsDetected ==
  ASSUME NEW m \in Modes, NEW ctx, ctx = ScanContext(m, Designs[m.design]), Sited(ctx), NEW f \in ctx.faults.eligible,
         m.launch = "none", NEW v \in ViewVectors(ctx), NEW h
  PROVE  DetectedBy(m, ctx, f, [vec |-> v, heads |-> h]) <=> ViewDifferences(ctx, f, v) \cap ctx.viewGraph.obs # {}
<1> DEFINE vgr == ctx.viewGraph
           vec == ByIndex(vgr, v)
           S == SimulateBatch(vgr, vec, Lane1(ctx, f))
<1>1. Levelised(vgr) /\ vgr.obs \subseteq 1..Len(vgr.nets)
  BY ViewIs DEF Nets
<1>2. Len(Lane1(ctx, f)) = 1 /\ Lane1(ctx, f)[1] = ViewSite(ctx, f)
  BY Lane1Is
<1>3. DetectedBy(m, ctx, f, [vec |-> v, heads |-> h]) <=> f \in {<<f>>[l] : l \in S}
  BY DEF DetectedBy
<1>4. S \subseteq 1..1 /\ (1 \in S <=> \E o \in vgr.obs : FaultyResponse(vgr, vec, ViewSite(ctx, f))[o] # FaultFree(vgr, vec)[o])
  <2>0. 1 \in Nat /\ 1 \in 1..1
    OBVIOUS
  <2> HIDE DEF vgr, vec
  <2> QED BY <1>1, <1>2, <2>0, BatchIsExact
<1> HIDE DEF S
<1>5. f \in {<<f>>[l] : l \in S} <=> 1 \in S
  BY SMTT(30), <1>4, OneOfOne
<1>6. ViewDifferences(ctx, f, v) \cap vgr.obs # {} <=> \E o \in vgr.obs : FaultyResponse(vgr, vec, ViewSite(ctx, f))[o] # FaultFree(vgr, vec)[o]
  BY FaultIsSeen
<1> QED BY <1>3, <1>4, <1>5, <1>6

LEMMA CapturedIsVector ==
  ASSUME NEW m \in Modes, NEW ctx, ctx = ScanContext(m, Designs[m.design]),
         NEW v \in ViewVectors(ctx), NEW h \in LaunchHeads(m, ctx)
  PROVE  Captured(m, ctx, v, h) \in ViewVectors(ctx)
<1> DEFINE des == ctx.design
           out == [n \in ctx.view.obs |-> 0 \in ctx.good[v][ctx.viewGraph.id[n]]]
<1>1. /\ \A x \in ScanFlops(des) : Ppo(x) \in ctx.view.obs
      /\ \A c \in 1..Len(des.chains) :
           Len(des.chains[c]) \in Nat /\ \A p \in 1..Len(des.chains[c]) : Ppi(des.chains[c][p]) \in ctx.view.pis
  <2>1. ctx.design = Designs[m.design]
    BY Zenon DEF ScanContext
  <2> QED BY ZenonT(30), <2>1, ViewsAssumption
<1>2. DOMAIN v = ctx.view.pis /\ \A n \in ctx.view.pis : v[n] \in BOOLEAN
  BY DEF ViewVectors
<1>3. CASE m.launch = "los"
  <2> DEFINE chain(n) == CHOOSE c \in 1..Len(des.chains) : \E p \in 1..Len(des.chains[c]) : n = Ppi(des.chains[c][p])
             place(n) == CHOOSE p \in 1..Len(des.chains[chain(n)]) : n = Ppi(des.chains[chain(n)][p])
             scanned(n) == \E c \in 1..Len(des.chains) : \E p \in 1..Len(des.chains[c]) : n = Ppi(des.chains[c][p])
             val(n) == IF scanned(n) THEN IF place(n) = 1 THEN h[chain(n)] ELSE v[Ppi(des.chains[chain(n)][place(n) - 1])] ELSE v[n]
  <2>1. Captured(m, ctx, v, h) = [n \in DOMAIN v |-> val(n)]
    BY <1>3 DEF Captured, DeriveLosCapture
  <2>2. \A n : scanned(n) => chain(n) \in 1..Len(des.chains) /\ place(n) \in 1..Len(des.chains[chain(n)])
    <3> TAKE n
    <3> HAVE scanned(n)
    <3>1. chain(n) \in 1..Len(des.chains) /\ \E p \in 1..Len(des.chains[chain(n)]) : n = Ppi(des.chains[chain(n)][p])
      BY ZenonT(30)
    <3> HIDE DEF chain
    <3> QED BY ZenonT(30), <3>1
  <2>3. h \in [1..Len(des.chains) -> BOOLEAN]
    BY <1>3 DEF LaunchHeads
  <2> HIDE DEF chain, place, scanned, des
  <2>4. ASSUME NEW n \in ctx.view.pis PROVE val(n) \in BOOLEAN
    <3>1. CASE ~scanned(n)
      BY <1>2, <3>1
    <3>2. CASE scanned(n) /\ place(n) = 1
      BY <2>2, <2>3, <3>2
    <3>3. CASE scanned(n) /\ place(n) # 1
      <4>1. place(n) - 1 \in 1..Len(des.chains[chain(n)])
        BY <1>1, <2>2, <3>3
      <4>2. v[Ppi(des.chains[chain(n)][place(n) - 1])] \in BOOLEAN
        BY SMTT(30), <1>1, <1>2, <2>2, <3>3, <4>1
      <4> QED BY <3>3, <4>2
    <3> QED BY <3>1, <3>2, <3>3
  <2> HIDE DEF val
  <2> QED BY <1>2, <2>1, <2>4 DEF ViewVectors
<1>4. CASE m.launch # "los"
  <2> DEFINE flop(n) == CHOOSE x \in ScanFlops(des) : n = Ppi(x)
             scanned(n) == \E x \in ScanFlops(des) : n = Ppi(x)
             val(n) == IF scanned(n) THEN out[Ppo(flop(n))] ELSE v[n]
  <2>1. Captured(m, ctx, v, h) = [n \in DOMAIN v |-> val(n)]
    BY <1>4 DEF Captured, DeriveLocCapture
  <2>2. \A n : scanned(n) => flop(n) \in ScanFlops(des)
    OBVIOUS
  <2>3. ASSUME NEW o \in ctx.view.obs PROVE out[o] \in BOOLEAN
    <3>1. out[o] = (0 \in ctx.good[v][ctx.viewGraph.id[o]])
      BY Zenon
    <3>2. (0 \in ctx.good[v][ctx.viewGraph.id[o]]) \in BOOLEAN
      OBVIOUS
    <3> HIDE DEF out
    <3> QED BY ZenonT(30), <3>1, <3>2
  <2> HIDE DEF flop, scanned, des, out
  <2>4. ASSUME NEW n \in ctx.view.pis PROVE val(n) \in BOOLEAN
    <3>1. CASE ~scanned(n)
      BY <1>2, <3>1
    <3>2. CASE scanned(n)
      BY <1>1, <2>2, <2>3, <3>2
    <3> QED BY <3>1, <3>2
  <2> HIDE DEF val
  <2> QED BY <1>2, <2>1, <2>4 DEF ViewVectors
<1> QED BY <1>3, <1>4

\* A transition is detected by exactly the patterns that satisfy the two-frame formula.
LEMMA TransitionIsDetected ==
  ASSUME NEW m \in Modes, NEW ctx, ctx = ScanContext(m, Designs[m.design]), Sited(ctx), NEW f \in ctx.faults.eligible,
         m.launch # "none", NEW v \in ViewVectors(ctx), NEW h \in LaunchHeads(m, ctx)
  PROVE  DetectedBy(m, ctx, f, [vec |-> v, heads |-> h]) <=> TwoFrame(m, ctx, f, v, h)
<1> DEFINE vgr == ctx.viewGraph
           vf == ViewSite(ctx, f)
           next == Captured(m, ctx, v, h)
           S == SimulateTransitionBatch(vgr, ByIndex(vgr, v), ByIndex(vgr, next), Lane1(ctx, f))
           seen == \E o \in vgr.obs : FaultyResponse(vgr, ByIndex(vgr, next), vf)[o] # FaultFree(vgr, ByIndex(vgr, next))[o]
<1>0. next \in ViewVectors(ctx)
  BY CapturedIsVector
<1>1. /\ Levelised(vgr) /\ Len(vgr.ffs) = 0 /\ vgr.obs \subseteq 1..Len(vgr.nets)
      /\ ctx.good[v] = FaultFree(vgr, ByIndex(vgr, v)) /\ ctx.good[next] = FaultFree(vgr, ByIndex(vgr, next))
  <2> HIDE DEF next
  <2> QED BY <1>0, ViewIs DEF Nets
<1>2. Len(Lane1(ctx, f)) = 1 /\ Lane1(ctx, f)[1] = vf
  BY Lane1Is
<1>3. DetectedBy(m, ctx, f, [vec |-> v, heads |-> h]) <=> f \in {<<f>>[l] : l \in S}
  BY DEF DetectedBy
<1>4. vf.net \in Nets(vgr) /\ vf.sa \in {0, 1}
  BY SMTT(30), SiteIs
<1>5. ViewDifferences(ctx, f, next) \cap vgr.obs # {} <=> seen
  <2> HIDE DEF next
  <2> QED BY <1>0, FaultIsSeen
<1>6. TwoFrame(m, ctx, f, v, h) <=> /\ (0 \in ctx.good[v][vf.net]) <=> (vf.sa = 1)
                                    /\ (0 \in ctx.good[next][vf.net]) <=> (vf.sa = 0)
                                    /\ ViewDifferences(ctx, f, next) \cap vgr.obs # {}
  BY DEF TwoFrame
<1> HIDE DEF next, vgr, vf
<1>7. S \subseteq 1..1 /\ (1 \in S <=> ((0 \in FaultFree(vgr, ByIndex(vgr, v))[vf.net]) <=> (vf.sa = 1)) /\ seen)
  <2>0. 1 \in Nat /\ 1 \in 1..1 /\ \A l \in 1..1 : l = 1
    OBVIOUS
  <2>1. \A l \in 1..Len(Lane1(ctx, f)) : Lane1(ctx, f)[l].net \in 1..Len(vgr.nets)
    BY <1>2, <1>4, <2>0 DEF Nets
  <2> DEFINE one == Lane1(ctx, f)
             from == ByIndex(vgr, v)
             to == ByIndex(vgr, next)
  <2>2. Len(one) = 1 /\ one[1] = vf /\ \A l \in 1..Len(one) : one[l].net \in 1..Len(vgr.nets)
    BY <1>2, <2>1
  <2>3. S = SimulateTransitionBatch(vgr, from, to, one)
    OBVIOUS
  <2>4. seen <=> \E o \in vgr.obs : FaultyResponse(vgr, to, vf)[o] # FaultFree(vgr, to)[o]
    OBVIOUS
  <2> HIDE DEF one, from, to, S, seen
  <2>5. /\ S \subseteq 1..Len(one)
        /\ \A l \in 1..Len(one) : l \in S
             <=> /\ 0 \in FaultFree(vgr, from)[one[l].net] <=> one[l].sa = 1
                 /\ \E o \in vgr.obs : CaptureResponse(vgr, from, to, OneFault(vgr, one[l]))[o]
                                         # CaptureResponse(vgr, from, to, NoFaults(vgr))[o]
    <3>1. /\ Levelised(vgr) /\ vgr.obs \subseteq 1..Len(vgr.nets) /\ Len(one) \in Nat
          /\ \A l \in 1..Len(one) : one[l].net \in 1..Len(vgr.nets)
      BY <1>1, <2>2
    <3>2. /\ SimulateTransitionBatch(vgr, from, to, one) \subseteq 1..Len(one)
          /\ \A l \in 1..Len(one) : l \in SimulateTransitionBatch(vgr, from, to, one)
               <=> /\ 0 \in FaultFree(vgr, from)[one[l].net] <=> one[l].sa = 1
                   /\ \E o \in vgr.obs : CaptureResponse(vgr, from, to, OneFault(vgr, one[l]))[o]
                                           # CaptureResponse(vgr, from, to, NoFaults(vgr))[o]
      BY SMTT(30), <3>1, TransitionBatchIsExact
    <3> QED BY ZenonT(30), <2>3, <3>2
  <2>6. /\ CaptureResponse(vgr, from, to, OneFault(vgr, vf)) = FaultyResponse(vgr, to, vf)
        /\ CaptureResponse(vgr, from, to, NoFaults(vgr)) = FaultFree(vgr, to)
    BY ZenonT(30), <1>1, CaptureIsFresh
  <2>7. 1 \in S <=> /\ 0 \in FaultFree(vgr, from)[vf.net] <=> vf.sa = 1
                    /\ \E o \in vgr.obs : FaultyResponse(vgr, to, vf)[o] # FaultFree(vgr, to)[o]
    <3>1. 1 \in 1..Len(one)
      BY <2>2
    <3>2. 1 \in S <=> /\ 0 \in FaultFree(vgr, from)[one[1].net] <=> one[1].sa = 1
                      /\ \E o \in vgr.obs : CaptureResponse(vgr, from, to, OneFault(vgr, one[1]))[o]
                                              # CaptureResponse(vgr, from, to, NoFaults(vgr))[o]
      BY ZenonT(30), <2>5, <3>1
    <3> QED BY ZenonT(30), <2>2, <2>6, <3>2
  <2>8. S \subseteq 1..1
    BY <2>2, <2>5
  <2> QED BY <2>4, <2>7, <2>8 DEF from
<1> HIDE DEF S
<1>8. f \in {<<f>>[l] : l \in S} <=> 1 \in S
  BY SMTT(30), <1>7, OneOfOne
<1>9. seen => ((0 \in FaultFree(vgr, ByIndex(vgr, next))[vf.net]) <=> (vf.sa = 0))
  BY SMTT(30), <1>1, <1>4, SeenIsExcited
<1> HIDE DEF seen
<1> QED BY SMTT(30), <1>1, <1>3, <1>5, <1>6, <1>7, <1>8, <1>9

-----------------------------------------------------------------------------
(* The solver's verdict *)

\* What the solver answers for is exact: the pattern of a SAT detects the fault and is not
\* blocked, and after an UNSAT every pattern is blocked or detects nothing.
Exact(m, ctx, blk, tgt, answer, pattern) ==
  \A f \in tgt :
    /\ answer = "SAT" => pattern \notin blk /\ DetectedBy(m, ctx, f, pattern)
    /\ answer = "UNSAT" =>
         \A v \in ViewVectors(ctx), h \in IF m.launch # "none" THEN LaunchHeads(m, ctx) ELSE {<<>>} :
           [vec |-> v, heads |-> h] \in blk \/ ~DetectedBy(m, ctx, f, [vec |-> v, heads |-> h])

\* The fault a solver phase is about, and which solver runs for it.
Solves(m, ctx, ph, tgt) ==
  ph \in {"whole", "fup", "groups", "frames", "solved"} =>
    \E f \in ctx.faults.eligible :
      /\ tgt = {f}
      /\ ph \in {"whole", "fup", "groups"} => m.launch = "none"
      /\ ph = "frames" => m.launch # "none"
      /\ ph = "fup" => FupApplies(ViewOrder(ctx, f), FupBudget)

VerdictInv ==
  /\ phase \notin {"start", "boundary_map_missing"} => Sited(scan_ctx)
  /\ solve \in [k : Nat, size : Nat, done : Nat]
  /\ Solves(mode, scan_ctx, phase, target)
  /\ phase = "solved" => Exact(mode, scan_ctx, blocked, target, verdict, cand)

LEMMA ReachedSees ==
  ASSUME NEW m \in Modes, NEW ctx, ctx = ScanContext(m, Designs[m.design]), Sited(ctx), NEW f \in ctx.faults.eligible
  PROVE  LET all == ReachedObservables(ctx.viewGraph, ViewOrder(ctx, f))
         IN  /\ all \in Seq(ctx.viewGraph.obs)
             /\ \A v : ViewDifferences(ctx, f, v) \cap ctx.viewGraph.obs # {} => ViewDifferences(ctx, f, v) \cap Range(all) # {}
<1> DEFINE vgr == ctx.viewGraph
           order == ViewOrder(ctx, f)
           all == ReachedObservables(vgr, order)
<1>1. IsCone(vgr, ViewSite(ctx, f).net, order)
  BY SiteIs, ConesAre DEF ViewOrder
<1>2. \A v : ViewDifferences(ctx, f, v) \subseteq Range(order)
  BY DEF ViewDifferences, Differences
<1>3. all \in Seq(Range(order) \cap vgr.obs) /\ Range(order) \cap vgr.obs \subseteq Range(all)
  BY <1>1 DEF IsCone
<1> HIDE DEF all, order, vgr
<1>4. all \in Seq(vgr.obs)
  BY <1>3
<1>5. \A v : ViewDifferences(ctx, f, v) \cap vgr.obs # {} => ViewDifferences(ctx, f, v) \cap Range(all) # {}
  BY <1>2, <1>3
<1> QED BY <1>4, <1>5 DEF all, order, vgr

LEMMA SatAnswer ==
  ASSUME NEW m \in Modes, NEW ctx, ctx = ScanContext(m, Designs[m.design]), Sited(ctx), NEW f \in ctx.faults.eligible,
         m.launch = "none", NEW nets, nets \subseteq ctx.viewGraph.obs,
         NEW v \in ViewVectors(ctx), ViewDifferences(ctx, f, v) \cap nets # {},
         NEW blk, [vec |-> v, heads |-> <<>>] \notin blk
  PROVE  Exact(m, ctx, blk, {f}, "SAT", [vec |-> v, heads |-> <<>>])
<1>1. ViewDifferences(ctx, f, v) \cap ctx.viewGraph.obs # {}
  OBVIOUS
<1>2. DetectedBy(m, ctx, f, [vec |-> v, heads |-> <<>>])
  BY ZenonT(30), <1>1, StuckIsDetected
<1> QED BY SMTT(30), <1>2 DEF Exact

LEMMA UnsatAnswer ==
  ASSUME NEW m \in Modes, NEW ctx, ctx = ScanContext(m, Designs[m.design]), Sited(ctx), NEW f \in ctx.faults.eligible,
         m.launch = "none", NEW nets,
         \A v \in ViewVectors(ctx) : ViewDifferences(ctx, f, v) \cap ctx.viewGraph.obs # {} => ViewDifferences(ctx, f, v) \cap nets # {},
         NEW blk, \A v \in ViewVectors(ctx) : [vec |-> v, heads |-> <<>>] \in blk \/ ViewDifferences(ctx, f, v) \cap nets = {},
         NEW pattern
  PROVE  Exact(m, ctx, blk, {f}, "UNSAT", pattern)
<1>1. ASSUME NEW v \in ViewVectors(ctx) PROVE [vec |-> v, heads |-> <<>>] \in blk \/ ~DetectedBy(m, ctx, f, [vec |-> v, heads |-> <<>>])
  <2>1. DetectedBy(m, ctx, f, [vec |-> v, heads |-> <<>>]) <=> ViewDifferences(ctx, f, v) \cap ctx.viewGraph.obs # {}
    BY ZenonT(30), StuckIsDetected
  <2> QED BY <2>1
<1> QED BY SMTT(30), <1>1 DEF Exact

LEMMA CutAnswer ==
  ASSUME NEW m \in Modes, NEW ctx, ctx = ScanContext(m, Designs[m.design]), Sited(ctx), NEW f \in ctx.faults.eligible,
         FupApplies(ViewOrder(ctx, f), FupBudget), NEW v \in ViewVectors(ctx), ViewDifferences(ctx, f, v) \cap ctx.viewGraph.obs # {}
  PROVE  ViewDifferences(ctx, f, v) \cap FupCut(ctx.viewGraph, ViewOrder(ctx, f), FupBudget) # {}
<1> DEFINE vgr == ctx.viewGraph
           vf == ViewSite(ctx, f)
           order == ViewOrder(ctx, f)
           vec == ByIndex(vgr, v)
<1>1. /\ Levelised(vgr) /\ Len(vgr.ffs) = 0 /\ vgr.obs \subseteq Nets(vgr) /\ ctx.good[v] = FaultFree(vgr, vec)
  BY ZenonT(30), ViewIs
<1>2. vf.net \in Nets(vgr)
  BY SMTT(30), SiteIs
<1>3. order \in Seq(Nets(vgr)) /\ order # <<>> /\ order[1] = vf.net
  <2>1. IsCone(vgr, vf.net, order)
    BY ZenonT(30), <1>2, ConesAre DEF ViewOrder
  <2> QED BY <2>1 DEF IsCone
<1>4. ViewDifferences(ctx, f, v) = Differences(vgr, Range(order), FaultFree(vgr, vec), vf)
  BY ZenonT(30), <1>1 DEF ViewDifferences
<1>5. FupBudget \in Nat
  BY BoundsAssumption
<1> HIDE DEF vgr, vf, order, vec
<1>6. Differences(vgr, Range(order), FaultFree(vgr, vec), vf) \cap vgr.obs # {} /\ FupApplies(order, FupBudget)
  BY ZenonT(30), <1>4 DEF vgr, order
<1>7. Differences(vgr, Range(order), FaultFree(vgr, vec), vf) \cap FupCut(vgr, order, FupBudget) # {}
  BY ZenonT(30), <1>1, <1>2, <1>3, <1>5, <1>6, CutIsEnough
<1> QED BY ZenonT(30), <1>4, <1>7 DEF vgr, order

LEMMA TransitionAnswer ==
  ASSUME NEW m \in Modes, NEW ctx, ctx = ScanContext(m, Designs[m.design]), Sited(ctx), NEW f \in ctx.faults.eligible,
         m.launch # "none", NEW blk
  PROVE  /\ \A v \in ViewVectors(ctx), h \in LaunchHeads(m, ctx) :
              [vec |-> v, heads |-> h] \notin blk /\ TwoFrame(m, ctx, f, v, h) => Exact(m, ctx, blk, {f}, "SAT", [vec |-> v, heads |-> h])
         /\ (\A v \in ViewVectors(ctx), h \in LaunchHeads(m, ctx) : [vec |-> v, heads |-> h] \in blk \/ ~TwoFrame(m, ctx, f, v, h))
              => \A pattern : Exact(m, ctx, blk, {f}, "UNSAT", pattern)
<1>1. \A v \in ViewVectors(ctx), h \in LaunchHeads(m, ctx) : DetectedBy(m, ctx, f, [vec |-> v, heads |-> h]) <=> TwoFrame(m, ctx, f, v, h)
  BY ZenonT(30), TransitionIsDetected
<1> QED BY ZenonT(30), <1>1 DEF Exact

LEMMA GroupEndIs ==
  ASSUME NEW total \in Nat, NEW k \in Nat, NEW size \in Nat, NEW done \in Nat
  PROVE  GroupEnd(total, k, size, done, MaxGroups) \in Nat /\ GroupEnd(total, k, size, done, MaxGroups) <= total
BY BoundsAssumption DEF GroupEnd

LEMMA PrefixIs ==
  ASSUME NEW S, NEW s \in Seq(S), NEW n \in Nat, n <= Len(s)
  PROVE  Range(SubSeq(s, 1, n)) \subseteq S /\ (n = Len(s) => Range(SubSeq(s, 1, n)) = Range(s))
<1>1. DOMAIN SubSeq(s, 1, n) = 1..n /\ \A i \in 1..n : SubSeq(s, 1, n)[i] = s[i]
  OBVIOUS
<1>2. \A i \in 1..n : i \in DOMAIN s /\ s[i] \in S
  OBVIOUS
<1>3. DOMAIN s = 1..Len(s)
  OBVIOUS
<1> QED BY <1>1, <1>2, <1>3 DEF Range

LEMMA SolverTerms ==
  /\ Vectors = ViewVectors(scan_ctx) /\ Heads = LaunchHeads(mode, scan_ctx) /\ Eligible = scan_ctx.faults.eligible
  /\ vg = scan_ctx.viewGraph
  /\ \A f : Order(f) = ViewOrder(scan_ctx, f) /\ Reached(f) = ReachedObservables(scan_ctx.viewGraph, ViewOrder(scan_ctx, f))
  /\ \A f, v : DifferencesOf(f, v) = ViewDifferences(scan_ctx, f, v)
<1>1. /\ Vectors = ViewVectors(scan_ctx) /\ Heads = LaunchHeads(mode, scan_ctx) /\ Eligible = scan_ctx.faults.eligible
      /\ vg = scan_ctx.viewGraph
  BY DEF Vectors, ViewVectors, view, Heads, LaunchHeads, d, Eligible, vg
<1>2. \A f : ViewFault(f) = ViewSite(scan_ctx, f)
  BY DEF ViewFault, ViewSite, vg, Site, g
<1>3. \A f : Order(f) = ViewOrder(scan_ctx, f)
  BY <1>2 DEF Order, ViewOrder
<1>4. \A f : Reached(f) = ReachedObservables(scan_ctx.viewGraph, ViewOrder(scan_ctx, f))
  BY <1>1, <1>3 DEF Reached
<1>5. \A f, v : DifferencesOf(f, v) = ViewDifferences(scan_ctx, f, v)
  BY <1>1, <1>2, <1>3 DEF DifferencesOf, ViewDifferences, Good
<1> QED BY <1>1, <1>3, <1>4, <1>5

LEMMA TwoFrameIs == \A f, v, h : TwoFrameSatisfied(f, v, h) <=> TwoFrame(mode, scan_ctx, f, v, h)
<1>1. \A f : ViewFault(f) = ViewSite(scan_ctx, f)
  BY DEF ViewFault, ViewSite, vg, Site, g
<1>2. \A v, h : CaptureVector(v, h) = Captured(mode, scan_ctx, v, h)
  BY DEF CaptureVector, Captured, d, OutputsOf, Good, view, vg
<1> QED BY ZenonT(30), <1>1, <1>2, SolverTerms DEF TwoFrameSatisfied, TwoFrame, Good

LEMMA DetectsIs == \A f, p : Detects(f, p) <=> DetectedBy(mode, scan_ctx, f, p)
<1>1. \A f : ViewFault(f) = ViewSite(scan_ctx, f)
  BY DEF ViewFault, ViewSite, vg, Site, g
<1>2. \A v, h : CaptureVector(v, h) = Captured(mode, scan_ctx, v, h)
  BY DEF CaptureVector, Captured, d, OutputsOf, Good, view, vg
<1>3. \A f : [i \in 1..Len(<<f>>) |-> ViewFault(<<f>>[i])] = Lane1(scan_ctx, f)
  BY <1>1 DEF Lane1
<1> QED BY <1>2, <1>3 DEF Detects, ViewDetected, DetectedBy, transition, vg

LEMMA VerdictIs == VerdictInv => VerdictIsExact
BY SMTT(30), DetectsIs, SolverTerms DEF VerdictInv, VerdictIsExact, Exact, transition

LEMMA VerdictInit == Init => VerdictInv
BY SMTT(30) DEF Init, VerdictInv, Solves, NoSolve

\* The fault being solved, in its context.
LEMMA Solving ==
  ASSUME LaneInv, VerdictInv, phase \in {"whole", "fup", "groups", "frames", "solved"}
  PROVE  /\ mode \in Modes /\ scan_ctx = ScanContext(mode, Designs[mode.design]) /\ Sited(scan_ctx)
         /\ \E f \in scan_ctx.faults.eligible :
              /\ target = {f} /\ (CHOOSE x \in target : TRUE) = f
              /\ phase \in {"whole", "fup", "groups"} => mode.launch = "none"
              /\ phase = "frames" => mode.launch # "none"
              /\ phase = "fup" => FupApplies(ViewOrder(scan_ctx, f), FupBudget)
<1>1. mode \in Modes /\ scan_ctx = ScanContext(mode, Designs[mode.design]) /\ Sited(scan_ctx)
  BY DEF LaneInv, VerdictInv
<1>2. PICK f \in scan_ctx.faults.eligible :
        /\ target = {f}
        /\ phase \in {"whole", "fup", "groups"} => mode.launch = "none"
        /\ phase = "frames" => mode.launch # "none"
        /\ phase = "fup" => FupApplies(ViewOrder(scan_ctx, f), FupBudget)
  BY DEF VerdictInv, Solves
<1>3. (CHOOSE x \in target : TRUE) = f
  BY <1>2
<1> QED BY <1>1, <1>2, <1>3

\* An answer that is exact leaves the invariant in force.
LEMMA AnswerKeepsVerdict ==
  ASSUME VerdictInv, phase \in {"whole", "fup", "groups", "frames"}, NEW a, NEW pattern, Answer(a, pattern),
         Exact(mode, scan_ctx, blocked, target, a, pattern)
  PROVE  VerdictInv'
<1>1. /\ phase' = "solved" /\ verdict' = a /\ cand' = pattern
      /\ mode' = mode /\ scan_ctx' = scan_ctx /\ target' = target /\ blocked' = blocked /\ solve' = solve
  BY DEF Answer
<1>2. Exact(mode', scan_ctx', blocked', target', verdict', cand')
  BY <1>1
<1>3. Sited(scan_ctx') /\ solve' \in [k : Nat, size : Nat, done : Nat]
  BY <1>1 DEF VerdictInv
<1>4. Solves(mode', scan_ctx', phase', target')
  BY <1>1 DEF VerdictInv, Solves
<1> QED BY <1>2, <1>3, <1>4 DEF VerdictInv

LEMMA UnknownIsExact == ASSUME NEW m, NEW ctx, NEW blk, NEW tgt, NEW pattern PROVE Exact(m, ctx, blk, tgt, "UNKNOWN", pattern)
BY DEF Exact

LEMMA BuildKeepsVerdict == LaneInv /\ VerdictInv /\ BuildScanPipelineContext => VerdictInv'
<1> SUFFICES ASSUME LaneInv, VerdictInv, BuildScanPipelineContext PROVE VerdictInv'
  OBVIOUS
<1>1. phase' \in {"boundary_map_missing", "idle"} /\ (phase' # "boundary_map_missing" => Sited(scan_ctx')) /\ solve' = solve
  BY DEF BuildScanPipelineContext, Sited, solverVars
<1> QED BY <1>1 DEF VerdictInv, Solves

LEMMA StartKeepsVerdict == LaneInv /\ VerdictInv /\ StartSolve => VerdictInv'
<1> SUFFICES ASSUME LaneInv, VerdictInv, StartSolve PROVE VerdictInv'
  OBVIOUS
<1>1. /\ phase = "idle" /\ mode' = mode /\ scan_ctx' = scan_ctx /\ blocked' = blocked /\ solve' = solve
  BY DEF StartSolve
<1>2. mode \in Modes /\ scan_ctx = ScanContext(mode, Designs[mode.design]) /\ Sited(scan_ctx)
  BY <1>1 DEF LaneInv, VerdictInv
<1>3. PICK f \in scan_ctx.faults.eligible :
        /\ target' = {f}
        /\ \/ Reached(f) = <<>> /\ phase' = "solved" /\ verdict' = "UNSAT"
           \/ Reached(f) # <<>> /\ phase' \in SolverEntry(f) /\ verdict' = "none"
  BY DEF StartSolve, Eligible
<1>4. CASE Reached(f) = <<>> /\ phase' = "solved" /\ verdict' = "UNSAT"
  <2>1. \A v \in ViewVectors(scan_ctx) : ViewDifferences(scan_ctx, f, v) \cap scan_ctx.viewGraph.obs = {}
    <3>1. Range(<<>>) = {}
      BY DEF Range
    <3> QED BY ZenonT(30), <1>2, <1>4, <3>1, ReachedSees, SolverTerms
  <2>2. \A m, blk, pattern : m = mode /\ mode.launch = "none" => Exact(m, scan_ctx, blk, {f}, "UNSAT", pattern)
    BY ZenonT(30), <1>2, <2>1, UnsatAnswer
  <2>3. \A blk, pattern : mode.launch # "none" => Exact(mode, scan_ctx, blk, {f}, "UNSAT", pattern)
    <3> SUFFICES ASSUME NEW blk, NEW pattern, mode.launch # "none" PROVE Exact(mode, scan_ctx, blk, {f}, "UNSAT", pattern)
      OBVIOUS
    <3>1. ASSUME NEW v \in ViewVectors(scan_ctx), NEW h \in LaunchHeads(mode, scan_ctx) PROVE ~TwoFrame(mode, scan_ctx, f, v, h)
      BY ZenonT(30), <1>2, <2>1, CapturedIsVector DEF TwoFrame
    <3> QED BY ZenonT(30), <1>2, <3>1, TransitionAnswer
  <2>4. Exact(mode', scan_ctx', blocked', target', verdict', cand')
    BY ZenonT(30), <1>1, <1>3, <1>4, <2>2, <2>3
  <2> QED BY <1>1, <1>2, <1>3, <1>4, <2>4 DEF VerdictInv, Solves
<1>5. CASE Reached(f) # <<>> /\ phase' \in SolverEntry(f) /\ verdict' = "none"
  <2>1. Solves(mode', scan_ctx', phase', target')
    BY <1>1, <1>3, <1>5, SolverTerms DEF Solves, SolverEntry, transition
  <2>2. phase' # "solved"
    BY <1>5 DEF SolverEntry
  <2> QED BY SMTT(30), <1>1, <1>2, <2>1, <2>2 DEF VerdictInv
<1> QED BY <1>3, <1>4, <1>5

LEMMA LimitKeepsVerdict == LaneInv /\ VerdictInv /\ SolverLimit => VerdictInv'
<1> SUFFICES ASSUME VerdictInv, SolverLimit PROVE VerdictInv'
  OBVIOUS
<1> QED BY UnknownIsExact, AnswerKeepsVerdict DEF SolverLimit

LEMMA SatVectorsAre ==
  \A f, nets : SatVectors(f, nets) = {v \in ViewVectors(scan_ctx) : [vec |-> v, heads |-> <<>>] \notin blocked
                                                                       /\ ViewDifferences(scan_ctx, f, v) \cap nets # {}}
BY SolverTerms DEF SatVectors

LEMMA WholeKeepsVerdict == LaneInv /\ VerdictInv /\ SolveStuckAtFault => VerdictInv'
<1> SUFFICES ASSUME LaneInv, VerdictInv, SolveStuckAtFault PROVE VerdictInv'
  OBVIOUS
<1>1. phase = "whole"
  BY DEF SolveStuckAtFault
<1>2. mode \in Modes /\ scan_ctx = ScanContext(mode, Designs[mode.design]) /\ Sited(scan_ctx)
  BY <1>1, Solving
<1>3. PICK f \in scan_ctx.faults.eligible : target = {f} /\ (CHOOSE x \in target : TRUE) = f /\ mode.launch = "none"
  BY <1>1, Solving
<1> DEFINE all == ReachedObservables(scan_ctx.viewGraph, ViewOrder(scan_ctx, f))
           sat == SatVectors(f, Range(all))
<1>4. \/ sat = {} /\ Answer("UNSAT", NoCandidate)
      \/ \E v \in sat : Answer("SAT", [vec |-> v, heads |-> <<>>])
  BY ZenonT(30), <1>3, SolverTerms DEF SolveStuckAtFault
<1>5. /\ all \in Seq(scan_ctx.viewGraph.obs)
      /\ \A v : ViewDifferences(scan_ctx, f, v) \cap scan_ctx.viewGraph.obs # {} => ViewDifferences(scan_ctx, f, v) \cap Range(all) # {}
  BY ZenonT(30), <1>2, ReachedSees
<1>6. sat = {v \in ViewVectors(scan_ctx) : [vec |-> v, heads |-> <<>>] \notin blocked /\ ViewDifferences(scan_ctx, f, v) \cap Range(all) # {}}
  BY SatVectorsAre
<1> HIDE DEF sat, all
<1>7. Range(all) \subseteq scan_ctx.viewGraph.obs
  BY <1>5 DEF Range
<1>8. CASE sat = {} /\ Answer("UNSAT", NoCandidate)
  <2>1. Exact(mode, scan_ctx, blocked, target, "UNSAT", NoCandidate)
    BY ZenonT(30), <1>2, <1>3, <1>5, <1>6, <1>8, UnsatAnswer
  <2> QED BY <1>1, <1>8, <2>1, AnswerKeepsVerdict
<1>9. ASSUME NEW v \in sat, Answer("SAT", [vec |-> v, heads |-> <<>>]) PROVE VerdictInv'
  <2>1. Exact(mode, scan_ctx, blocked, target, "SAT", [vec |-> v, heads |-> <<>>])
    BY ZenonT(30), <1>2, <1>3, <1>6, <1>7, <1>9, SatAnswer
  <2> QED BY ZenonT(30), <1>1, <1>9, <2>1, AnswerKeepsVerdict
<1> QED BY ZenonT(30), <1>4, <1>8, <1>9

LEMMA FupKeepsVerdict == LaneInv /\ VerdictInv /\ FastUntestabilityProof => VerdictInv'
<1> SUFFICES ASSUME LaneInv, VerdictInv, FastUntestabilityProof PROVE VerdictInv'
  OBVIOUS
<1>1. phase = "fup"
  BY DEF FastUntestabilityProof
<1>2. mode \in Modes /\ scan_ctx = ScanContext(mode, Designs[mode.design]) /\ Sited(scan_ctx)
  BY <1>1, Solving
<1>3. PICK f \in scan_ctx.faults.eligible : /\ target = {f} /\ (CHOOSE x \in target : TRUE) = f /\ mode.launch = "none"
                                            /\ FupApplies(ViewOrder(scan_ctx, f), FupBudget)
  BY <1>1, Solving
<1> DEFINE cut == FupCut(scan_ctx.viewGraph, ViewOrder(scan_ctx, f), FupBudget)
           sat == SatVectors(f, cut)
<1>4. \/ sat = {} /\ Answer("UNSAT", NoCandidate)
      \/ phase' = "groups" /\ UNCHANGED <<mode, scan_ctx, cand, credit, solverVars, protocolVars>>
  BY ZenonT(30), <1>3, SolverTerms DEF FastUntestabilityProof
<1>5. \A v \in ViewVectors(scan_ctx) : ViewDifferences(scan_ctx, f, v) \cap scan_ctx.viewGraph.obs # {} => ViewDifferences(scan_ctx, f, v) \cap cut # {}
  BY <1>2, <1>3, CutAnswer
<1>6. sat = {v \in ViewVectors(scan_ctx) : [vec |-> v, heads |-> <<>>] \notin blocked /\ ViewDifferences(scan_ctx, f, v) \cap cut # {}}
  BY SatVectorsAre
<1> HIDE DEF sat, cut
<1>7. CASE sat = {} /\ Answer("UNSAT", NoCandidate)
  <2>1. Exact(mode, scan_ctx, blocked, target, "UNSAT", NoCandidate)
    BY ZenonT(30), <1>2, <1>3, <1>5, <1>6, <1>7, UnsatAnswer
  <2> QED BY <1>1, <1>7, <2>1, AnswerKeepsVerdict
<1>8. CASE phase' = "groups" /\ UNCHANGED <<mode, scan_ctx, cand, credit, solverVars, protocolVars>>
  <2>1. mode' = mode /\ scan_ctx' = scan_ctx /\ target' = target /\ solve' = solve
    BY <1>8 DEF solverVars
  <2> QED BY <1>2, <1>3, <1>8, <2>1 DEF VerdictInv, Solves
<1> QED BY <1>4, <1>7, <1>8

LEMMA GroupKeepsVerdict == LaneInv /\ VerdictInv /\ SolveGroup => VerdictInv'
<1> SUFFICES ASSUME LaneInv, VerdictInv, SolveGroup PROVE VerdictInv'
  OBVIOUS
<1>1. phase = "groups"
  BY DEF SolveGroup
<1>2. mode \in Modes /\ scan_ctx = ScanContext(mode, Designs[mode.design]) /\ Sited(scan_ctx)
  BY <1>1, Solving
<1>3. PICK f \in scan_ctx.faults.eligible : target = {f} /\ (CHOOSE x \in target : TRUE) = f /\ mode.launch = "none"
  BY <1>1, Solving
<1> DEFINE all == ReachedObservables(scan_ctx.viewGraph, ViewOrder(scan_ctx, f))
           end == GroupEnd(Len(all), solve.k, solve.size, solve.done, MaxGroups)
           group == Range(SubSeq(all, 1, end))
           sat == SatVectors(f, group)
<1>4. \/ \E v \in sat : Answer("SAT", [vec |-> v, heads |-> <<>>])
      \/ sat = {} /\ end = Len(all) /\ Answer("UNSAT", NoCandidate)
      \/ /\ solve' = [k |-> end, size |-> 2 * solve.size, done |-> solve.done + 1]
         /\ UNCHANGED <<mode, scan_ctx, phase, target, blocked, verdict, cand, credit, protocolVars>>
  BY ZenonT(30), <1>3, SolverTerms DEF SolveGroup
<1>5. /\ all \in Seq(scan_ctx.viewGraph.obs)
      /\ \A v : ViewDifferences(scan_ctx, f, v) \cap scan_ctx.viewGraph.obs # {} => ViewDifferences(scan_ctx, f, v) \cap Range(all) # {}
  BY ZenonT(30), <1>2, ReachedSees
<1>6. sat = {v \in ViewVectors(scan_ctx) : [vec |-> v, heads |-> <<>>] \notin blocked /\ ViewDifferences(scan_ctx, f, v) \cap group # {}}
  BY SatVectorsAre
<1> HIDE DEF sat, all
<1>7. solve.k \in Nat /\ solve.size \in Nat /\ solve.done \in Nat /\ Len(all) \in Nat
  BY <1>5 DEF VerdictInv
<1>8. end \in Nat /\ end <= Len(all)
  BY ZenonT(30), <1>7, GroupEndIs
<1> HIDE DEF end
<1>9. group \subseteq scan_ctx.viewGraph.obs /\ (end = Len(all) => group = Range(all))
  BY <1>5, <1>8, PrefixIs
<1> HIDE DEF group
<1>10. ASSUME NEW v \in sat, Answer("SAT", [vec |-> v, heads |-> <<>>]) PROVE VerdictInv'
  <2>1. Exact(mode, scan_ctx, blocked, target, "SAT", [vec |-> v, heads |-> <<>>])
    BY ZenonT(30), <1>2, <1>3, <1>6, <1>9, <1>10, SatAnswer
  <2> QED BY <1>1, <1>10, <2>1, AnswerKeepsVerdict
<1>11. CASE sat = {} /\ end = Len(all) /\ Answer("UNSAT", NoCandidate)
  <2>1. Exact(mode, scan_ctx, blocked, target, "UNSAT", NoCandidate)
    BY ZenonT(30), <1>2, <1>3, <1>5, <1>6, <1>9, <1>11, UnsatAnswer
  <2> QED BY <1>1, <1>11, <2>1, AnswerKeepsVerdict
<1>12. CASE /\ solve' = [k |-> end, size |-> 2 * solve.size, done |-> solve.done + 1]
            /\ UNCHANGED <<mode, scan_ctx, phase, target, blocked, verdict, cand, credit, protocolVars>>
  <2>1. solve' \in [k : Nat, size : Nat, done : Nat]
    BY <1>7, <1>8, <1>12
  <2> QED BY <1>1, <1>12, <2>1 DEF VerdictInv
<1> QED BY ZenonT(30), <1>4, <1>10, <1>11, <1>12

LEMMA FramesKeepVerdict == LaneInv /\ VerdictInv /\ SolveTwoFrameTransition => VerdictInv'
<1> SUFFICES ASSUME LaneInv, VerdictInv, SolveTwoFrameTransition PROVE VerdictInv'
  OBVIOUS
<1>1. phase = "frames"
  BY DEF SolveTwoFrameTransition
<1>2. mode \in Modes /\ scan_ctx = ScanContext(mode, Designs[mode.design]) /\ Sited(scan_ctx)
  BY <1>1, Solving
<1>3. PICK f \in scan_ctx.faults.eligible : target = {f} /\ (CHOOSE x \in target : TRUE) = f /\ mode.launch # "none"
  BY <1>1, Solving
<1> DEFINE P == [vec : ViewVectors(scan_ctx), heads : LaunchHeads(mode, scan_ctx)]
           sat == {p \in P : p \notin blocked /\ TwoFrame(mode, scan_ctx, f, p.vec, p.heads)}
<1>4. \/ sat = {} /\ Answer("UNSAT", NoCandidate)
      \/ \E p \in sat : Answer("SAT", p)
  BY ZenonT(30), <1>3, SolverTerms, TwoFrameIs DEF SolveTwoFrameTransition
<1>5. CASE sat = {} /\ Answer("UNSAT", NoCandidate)
  <2>1. ASSUME NEW v \in ViewVectors(scan_ctx), NEW h \in LaunchHeads(mode, scan_ctx)
        PROVE  [vec |-> v, heads |-> h] \in blocked \/ ~TwoFrame(mode, scan_ctx, f, v, h)
    BY <1>5
  <2>2. Exact(mode, scan_ctx, blocked, target, "UNSAT", NoCandidate)
    BY ZenonT(30), <1>2, <1>3, <2>1, TransitionAnswer
  <2> QED BY <1>1, <1>5, <2>2, AnswerKeepsVerdict
<1>6. ASSUME NEW p \in sat, Answer("SAT", p) PROVE VerdictInv'
  <2>1. p = [vec |-> p.vec, heads |-> p.heads] /\ p.vec \in ViewVectors(scan_ctx) /\ p.heads \in LaunchHeads(mode, scan_ctx)
    BY <1>6
  <2>2. p \notin blocked /\ TwoFrame(mode, scan_ctx, f, p.vec, p.heads)
    BY <1>6
  <2>3. Exact(mode, scan_ctx, blocked, target, "SAT", p)
    <3> DEFINE v == p.vec
               h == p.heads
    <3>1. v \in ViewVectors(scan_ctx) /\ h \in LaunchHeads(mode, scan_ctx) /\ p = [vec |-> v, heads |-> h]
      BY <2>1
    <3>2. [vec |-> v, heads |-> h] \notin blocked /\ TwoFrame(mode, scan_ctx, f, v, h)
      BY <2>1, <2>2
    <3> HIDE DEF v, h
    <3>3. Exact(mode, scan_ctx, blocked, {f}, "SAT", [vec |-> v, heads |-> h])
      BY ZenonT(30), <1>2, <1>3, <3>1, <3>2, TransitionAnswer
    <3> QED BY <1>3, <3>1, <3>3
  <2> QED BY SMTT(30), <1>1, <1>6, <2>3, AnswerKeepsVerdict
<1> QED BY <1>4, <1>5, <1>6

LEMMA BlockKeepsVerdict == LaneInv /\ VerdictInv /\ BlockPattern => VerdictInv'
<1> SUFFICES ASSUME LaneInv, VerdictInv, BlockPattern PROVE VerdictInv'
  OBVIOUS
<1>1. /\ phase = "solved" /\ mode' = mode /\ scan_ctx' = scan_ctx /\ target' = target /\ solve' = NoSolve
      /\ \E f \in target : phase' \in SolverEntry(f)
  BY DEF BlockPattern
<1>2. PICK f \in scan_ctx.faults.eligible : target = {f}
  BY <1>1, Solving
<1>3. phase' \in SolverEntry(f)
  BY <1>1, <1>2
<1>4. Solves(mode', scan_ctx', phase', target')
  BY <1>1, <1>2, <1>3, SolverTerms DEF Solves, SolverEntry, transition
<1>5. phase' # "solved"
  BY <1>3 DEF SolverEntry
<1>6. Sited(scan_ctx') /\ solve' \in [k : Nat, size : Nat, done : Nat]
  BY <1>1 DEF VerdictInv, NoSolve
<1> QED BY <1>4, <1>5, <1>6 DEF VerdictInv

\* The protocol and the grading stay out of the solver's phases.
LEMMA ProtocolKeepsVerdict ==
  LaneInv /\ VerdictInv /\ (FinishTarget \/ Submit \/ LoadPulse \/ LaunchPulse \/ LaunchShift \/ CapturePulse \/ UnloadPulse
                              \/ ProcessScanCandidate \/ NextCandidate) => VerdictInv'
<1> SUFFICES ASSUME VerdictInv, FinishTarget \/ Submit \/ LoadPulse \/ LaunchPulse \/ LaunchShift \/ CapturePulse \/ UnloadPulse
                                   \/ ProcessScanCandidate \/ NextCandidate
             PROVE  VerdictInv'
  OBVIOUS
<1>1. phase' \notin {"whole", "fup", "groups", "frames", "solved"} /\ phase \notin {"start", "boundary_map_missing"}
  BY Zenon DEF FinishTarget, Submit, LoadPulse, LaunchPulse, LaunchShift, CapturePulse, UnloadPulse, ProcessScanCandidate, NextCandidate, Advance
<1>2. scan_ctx' = scan_ctx /\ (solve' = solve \/ solve' = NoSolve)
  BY Zenon DEF FinishTarget, Submit, LoadPulse, LaunchPulse, LaunchShift, CapturePulse, UnloadPulse, ProcessScanCandidate, NextCandidate, Pulse, solverVars
<1> QED BY <1>1, <1>2 DEF VerdictInv, Solves, NoSolve

LEMMA VerdictInductive == LaneInv /\ VerdictInv /\ [Next]_vars => VerdictInv'
<1> SUFFICES ASSUME LaneInv, VerdictInv, [Next]_vars PROVE VerdictInv'
  OBVIOUS
<1>1. CASE UNCHANGED vars
  BY <1>1 DEF vars, VerdictInv
<1>2. CASE Next
  BY <1>2, BuildKeepsVerdict, StartKeepsVerdict, LimitKeepsVerdict, WholeKeepsVerdict, FupKeepsVerdict, GroupKeepsVerdict,
     FramesKeepVerdict, BlockKeepsVerdict, ProtocolKeepsVerdict DEF Next
<1> QED BY <1>1, <1>2

\* VerdictIsExact for every design, launch style, region budget, number of groups and of blocked
\* patterns: whichever solver answers, SAT is a pattern the fault simulator confirms and UNSAT
\* leaves no pattern it would.
THEOREM SolverIsExact == Spec => []VerdictIsExact
<1>1. Init => VerdictInv
  BY VerdictInit
<1>2. LaneInv /\ VerdictInv /\ [Next]_vars => VerdictInv'
  BY VerdictInductive
<1>3. VerdictInv => VerdictIsExact
  BY VerdictIs
<1> QED BY <1>1, <1>2, <1>3, LanesHold, PTL DEF Spec
=============================================================================
