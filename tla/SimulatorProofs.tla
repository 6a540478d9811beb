--------------------------- MODULE SimulatorProofs ---------------------------
(***************************************************************************)
(* The bit-parallel simulator and the solver's faulty machine, for every    *)
(* levelised graph, word width, set of faults and input vector.             *)
(*                                                                          *)
(* A lane of a word does what the golden simulator does with that lane's    *)
(* fault (CycleIsGolden), so grading a batch reports exactly the faults     *)
(* whose golden response differs (BatchIsExact, TransitionBatchIsExact).    *)
(* On a graph without flip-flops the golden response is the one assignment  *)
(* that satisfies every gate; two assignments that differ differ first at   *)
(* a gate whose inputs agree, which is what makes the out-cone and the      *)
(* untestability cut enough (DifferencesAreSeen, CutIsEnough).              *)
(***************************************************************************)
EXTENDS FaultSolver, TLAPS, WellFoundedInduction, NaturalsInduction

LEMMA ValuesIs == ASSUME NEW n \in Nat, NEW S, NEW f \in [1..n -> S] PROVE Values(f) = f
<1>1. f \in Seq(S) /\ Len(f) = n
  OBVIOUS
<1>2. DOMAIN (<<>> \o f) = 1..n /\ \A k \in 1..n : (<<>> \o f)[k] = f[k]
  BY <1>1
<1> QED BY <1>1, <1>2 DEF Values

-----------------------------------------------------------------------------
(* A graph, and the words and bits on it *)

Nets(gr) == 1..Len(gr.nets)
FlopSet(gr) == 1..Len(gr.ffs)
Words(gr, ones) == [Nets(gr) -> SUBSET ones]
States(gr, ones) == [FlopSet(gr) -> SUBSET ones]
Masks(gr, ones) == [Nets(gr) -> [z : SUBSET ones, o : SUBSET ones]]

\* Lane l of a word is what the golden machine has on the net.
SameAt(S, nv, l, bits) == \A n \in S : l \in nv[n] <=> 0 \in bits[n]
SameMasks(gr, masks, l, refs) ==
  \A n \in Nets(gr) : (l \in masks[n].z <=> 0 \in refs[n].z) /\ (l \in masks[n].o <=> 0 \in refs[n].o)

-----------------------------------------------------------------------------
(* Gates *)

LEMMA EvalLane ==
  ASSUME NEW fn, NEW ones, NEW l \in ones, NEW K, NEW ins, NEW bits,
         DOMAIN ins = K, DOMAIN bits = K, \A k \in K : l \in ins[k] <=> 0 \in bits[k]
  PROVE  l \in EvalFunction(fn, ins, ones) <=> 0 \in EvalFunction(fn, bits, {0})
<1>1. \A k : Literal(ins, k, l) = Literal(bits, k, 0)
  BY DEF Literal, Pick
<1> QED BY <1>1 DEF EvalFunction

LEMMA EvalInWord == ASSUME NEW fn, NEW ins, NEW ones PROVE EvalFunction(fn, ins, ones) \subseteq ones
BY DEF EvalFunction

LEMMA InjectInWord ==
  ASSUME NEW gr, NEW ones, NEW masks \in Masks(gr, ones), NEW n \in Nets(gr), NEW word \in SUBSET ones
  PROVE  InjectFaults(masks, n, word) \in SUBSET ones
BY DEF InjectFaults, Masks

LEMMA InjectLane ==
  ASSUME NEW gr, NEW masks, NEW l, NEW refs, SameMasks(gr, masks, l, refs), NEW n \in Nets(gr),
         NEW word, NEW bit, l \in word <=> 0 \in bit
  PROVE  l \in InjectFaults(masks, n, word) <=> 0 \in InjectFaults(refs, n, bit)
BY DEF InjectFaults, SameMasks

\* The word of the gate that drives n in rank r.
GateWord(gr, nv, ones, r, n) ==
  EvalFunction(gr.fn[gr.ranks[r][n].type],
               [k \in DOMAIN gr.ranks[r][n].ins |-> nv[gr.ranks[r][n].ins[k]]], ones)

\* One rank, as a function of the nets before it.
LEMMA RankIs ==
  ASSUME NEW gr, Len(gr.nets) \in Nat, NEW ones, NEW masks \in Masks(gr, ones), NEW nv \in Words(gr, ones), NEW r
  PROVE  /\ EvaluateRank(gr, nv, masks, ones, r) \in Words(gr, ones)
         /\ \A n \in Nets(gr) : EvaluateRank(gr, nv, masks, ones, r)[n]
              = IF n \in DOMAIN gr.ranks[r] THEN InjectFaults(masks, n, GateWord(gr, nv, ones, r, n)) ELSE nv[n]
<1> DEFINE word(n) == GateWord(gr, nv, ones, r, n)
           next == [n \in Nets(gr) |-> IF n \in DOMAIN gr.ranks[r] THEN InjectFaults(masks, n, word(n)) ELSE nv[n]]
<1>1. DOMAIN nv = Nets(gr) /\ \A n \in Nets(gr) : nv[n] \in SUBSET ones
  BY DEF Words
<1>2. \A n : word(n) \in SUBSET ones
  BY EvalInWord DEF GateWord
<1> HIDE DEF word
<1>3. \A n \in Nets(gr) : InjectFaults(masks, n, word(n)) \in SUBSET ones
  BY <1>2, InjectInWord
<1>4. next \in [1..Len(gr.nets) -> SUBSET ones]
  BY <1>1, <1>3 DEF Nets
<1>5. Values(next) = next
  <2> HIDE DEF next
  <2> QED BY Zenon, <1>4, ValuesIs
<1>6. EvaluateRank(gr, nv, masks, ones, r) = Values(next)
  BY <1>1 DEF EvaluateRank, word, GateWord
<1>7. EvaluateRank(gr, nv, masks, ones, r) = next
  BY <1>5, <1>6
<1>8. \A n \in Nets(gr) : next[n] = IF n \in DOMAIN gr.ranks[r] THEN InjectFaults(masks, n, word(n)) ELSE nv[n]
  OBVIOUS
<1> HIDE DEF next
<1> QED BY <1>4, <1>7, <1>8 DEF Words, Nets, word

-----------------------------------------------------------------------------
(* The ranks one after the other *)

\* What fails somewhere fails somewhere first.
LEMMA LeastFailure ==
  ASSUME NEW T \in SUBSET Nat, T # {}
  PROVE  \E k \in T : \A j \in Nat : j < k => j \notin T
<1>1. \E k \in T : \A j \in T : ~(<<j, k>> \in OpToRel(<, Nat))
  BY Zenon, WFMin, NatLessThanWellFounded
<1>2. \E k \in T : \A j \in T : ~(j < k)
  BY Zenon, <1>1 DEF OpToRel
<1> QED BY <1>2

\* f holds the nets after each of the first m ranks.
Stages(gr, nv, masks, ones, m, f) ==
  /\ f = [r \in 0..m |-> f[r]]
  /\ f[0] = nv
  /\ \A r \in 1..m : f[r] = EvaluateRank(gr, f[r - 1], masks, ones, r)

\* The recursion over the ranks is well defined.
LEMMA StagesExist ==
  ASSUME NEW gr, NEW nv, NEW masks, NEW ones, NEW m \in Nat
  PROVE  \E f : Stages(gr, nv, masks, ones, m, f)
<1> DEFINE T == {k \in 0..m : ~\E f : Stages(gr, nv, masks, ones, k, f)}
<1> SUFFICES ASSUME T # {} PROVE FALSE
  OBVIOUS
<1>1. PICK k \in T : \A j \in Nat : j < k => j \notin T
  <2>1. T \in SUBSET Nat
    OBVIOUS
  <2> HIDE DEF T
  <2> QED BY <2>1, LeastFailure
<1>2. CASE k = 0
  <2>1. Stages(gr, nv, masks, ones, 0, [r \in 0..0 |-> nv])
    BY DEF Stages
  <2> QED BY <1>1, <1>2, <2>1
<1>3. CASE k # 0
  <2>1. k \in 1..m /\ k - 1 \in 0..m /\ k - 1 < k
    BY <1>1, <1>3
  <2>2. PICK f : Stages(gr, nv, masks, ones, k - 1, f)
    BY <1>1, <2>1
  <2> DEFINE h == [r \in 0..k |-> IF r = k THEN EvaluateRank(gr, f[k - 1], masks, ones, k) ELSE f[r]]
  <2>3. h = [r \in 0..k |-> h[r]] /\ h[0] = nv
    BY <2>1, <2>2 DEF Stages
  <2>4. \A r \in 1..k : h[r] = EvaluateRank(gr, h[r - 1], masks, ones, r)
    <3> TAKE r \in 1..k
    <3>1. r - 1 \in 0..k /\ r - 1 # k /\ r \in 0..k
      BY <2>1
    <3>2. h[r - 1] = f[r - 1]
      BY <3>1
    <3>3. CASE r = k
      BY <3>1, <3>2, <3>3
    <3>4. CASE r # k
      <4>1. r \in 1..k - 1 /\ h[r] = f[r]
        BY <2>1, <3>1, <3>4
      <4> QED BY Zenon, <2>2, <3>2, <4>1 DEF Stages
    <3> QED BY <3>3, <3>4
  <2>5. Stages(gr, nv, masks, ones, k, h)
    <3> HIDE DEF h
    <3> QED BY Zenon, <2>3, <2>4 DEF Stages
  <2> HIDE DEF h
  <2> QED BY <1>1, <2>5
<1> QED BY <1>2, <1>3

LEMMA EvaluatedIs ==
  ASSUME NEW gr, Len(gr.ranks) \in Nat, NEW nv, NEW masks, NEW ones
  PROVE  /\ Evaluated(gr, nv, masks, ones)[0] = nv
         /\ \A r \in 1..Len(gr.ranks) : Evaluated(gr, nv, masks, ones)[r]
              = EvaluateRank(gr, Evaluated(gr, nv, masks, ones)[r - 1], masks, ones, r)
<1> DEFINE R == Len(gr.ranks)
           Body(f) == [r \in 0..R |-> IF r = 0 THEN nv ELSE EvaluateRank(gr, f[r - 1], masks, ones, r)]
           E == Evaluated(gr, nv, masks, ones)
<1>1. PICK f : Stages(gr, nv, masks, ones, R, f)
  BY StagesExist
<1>2. f = Body(f)
  <2>1. f = [r \in 0..R |-> f[r]] /\ f[0] = nv
    BY <1>1 DEF Stages
  <2>2. \A r \in 1..R : f[r] = EvaluateRank(gr, f[r - 1], masks, ones, r)
    BY Zenon, <1>1 DEF Stages
  <2>3. \A r \in 0..R : r = 0 \/ r \in 1..R
    OBVIOUS
  <2>4. \A r \in 0..R : f[r] = IF r = 0 THEN nv ELSE EvaluateRank(gr, f[r - 1], masks, ones, r)
    BY <2>1, <2>2, <2>3
  <2>5. Body(f) = [r \in 0..R |-> f[r]]
    BY <2>4
  <2> QED BY <2>1, <2>5
<1>3. E = CHOOSE x : x = Body(x)
  BY DEF Evaluated
<1>4. E = Body(E)
  <2> HIDE DEF E, Body
  <2> QED BY <1>2, <1>3
<1> HIDE DEF E
<1>5. E[0] = nv /\ \A r \in 1..R : E[r] = EvaluateRank(gr, E[r - 1], masks, ones, r)
  <2>1. \A r \in 0..R : E[r] = IF r = 0 THEN nv ELSE EvaluateRank(gr, E[r - 1], masks, ones, r)
    <3> DEFINE B == Body(E)
    <3>1. \A r \in 0..R : B[r] = IF r = 0 THEN nv ELSE EvaluateRank(gr, E[r - 1], masks, ones, r)
      OBVIOUS
    <3> HIDE DEF B
    <3> QED BY <1>4, <3>1 DEF B
  <2> QED BY <2>1
<1> QED BY <1>5 DEF E

LEMMA StagesAreWords ==
  ASSUME NEW gr, Len(gr.nets) \in Nat, Len(gr.ranks) \in Nat, NEW ones, NEW masks \in Masks(gr, ones),
         NEW nv \in Words(gr, ones)
  PROVE  \A r \in 0..Len(gr.ranks) : Evaluated(gr, nv, masks, ones)[r] \in Words(gr, ones)
<1> DEFINE R == Len(gr.ranks)
           E == Evaluated(gr, nv, masks, ones)
           T == {r \in 0..R : E[r] \notin Words(gr, ones)}
<1>1. E[0] = nv /\ \A r \in 1..R : E[r] = EvaluateRank(gr, E[r - 1], masks, ones, r)
  BY EvaluatedIs
<1> HIDE DEF E
<1> SUFFICES ASSUME T # {} PROVE FALSE
  BY DEF E
<1>2. PICK k \in T : \A j \in Nat : j < k => j \notin T
  <2>1. T \in SUBSET Nat
    OBVIOUS
  <2> HIDE DEF T
  <2> QED BY <2>1, LeastFailure
<1>3. k # 0 /\ k \in 1..R /\ k - 1 \in 0..R /\ k - 1 \in Nat /\ k - 1 < k
  BY <1>1, <1>2
<1>4. E[k - 1] \in Words(gr, ones)
  BY <1>2, <1>3
<1>5. E[k] \in Words(gr, ones)
  BY <1>1, <1>3, <1>4, RankIs
<1> QED BY <1>2, <1>5

\* Evaluating the ranks in order gives every net of a lane its golden value, whatever the
\* nets that are still to be driven held before.
LEMMA StagesLane ==
  ASSUME NEW gr, Levelised(gr), NEW ones, NEW l \in ones,
         NEW masks \in Masks(gr, ones), NEW refs \in Masks(gr, {0}), SameMasks(gr, masks, l, refs),
         NEW nv \in Words(gr, ones), NEW bits \in Words(gr, {0}), SameAt(Sources(gr), nv, l, bits)
  PROVE  \A r \in 0..Len(gr.ranks) :
           SameAt(Driven(gr, r), Evaluated(gr, nv, masks, ones)[r], l, Evaluated(gr, bits, refs, {0})[r])
<1> DEFINE R == Len(gr.ranks)
           E == Evaluated(gr, nv, masks, ones)
           G == Evaluated(gr, bits, refs, {0})
           T == {r \in 0..R : ~SameAt(Driven(gr, r), E[r], l, G[r])}
<1>0. Len(gr.nets) \in Nat /\ R \in Nat
  BY DEF Levelised
<1>1. /\ E[0] = nv /\ \A r \in 1..R : E[r] = EvaluateRank(gr, E[r - 1], masks, ones, r)
      /\ G[0] = bits /\ \A r \in 1..R : G[r] = EvaluateRank(gr, G[r - 1], refs, {0}, r)
  BY <1>0, EvaluatedIs
<1>2. \A r \in 0..R : E[r] \in Words(gr, ones) /\ G[r] \in Words(gr, {0})
  BY <1>0, StagesAreWords
<1> HIDE DEF E, G
<1> SUFFICES ASSUME T # {} PROVE FALSE
  BY DEF E, G
<1>3. PICK k \in T : \A j \in Nat : j < k => j \notin T
  <2>1. T \in SUBSET Nat
    BY <1>0
  <2> HIDE DEF T
  <2> QED BY <2>1, LeastFailure
<1>4. k # 0
  <2>1. Driven(gr, 0) = Sources(gr)
    BY DEF Driven
  <2> QED BY <1>1, <1>3, <2>1
<1>5. k \in 1..R /\ k - 1 \in 0..R /\ k - 1 \in Nat /\ k - 1 < k
  BY <1>0, <1>3, <1>4
<1>6. SameAt(Driven(gr, k - 1), E[k - 1], l, G[k - 1])
  BY <1>3, <1>5
<1> DEFINE word(n) == GateWord(gr, E[k - 1], ones, k, n)
           bit(n) == GateWord(gr, G[k - 1], {0}, k, n)
<1>7. /\ \A n \in Nets(gr) : E[k][n] = IF n \in DOMAIN gr.ranks[k] THEN InjectFaults(masks, n, word(n)) ELSE E[k - 1][n]
      /\ \A n \in Nets(gr) : G[k][n] = IF n \in DOMAIN gr.ranks[k] THEN InjectFaults(refs, n, bit(n)) ELSE G[k - 1][n]
  <2>1. E[k - 1] \in Words(gr, ones) /\ G[k - 1] \in Words(gr, {0})
    BY <1>2, <1>5
  <2>2. E[k] = EvaluateRank(gr, E[k - 1], masks, ones, k) /\ G[k] = EvaluateRank(gr, G[k - 1], refs, {0}, k)
    BY <1>1, <1>5
  <2> QED BY <1>0, <2>1, <2>2, RankIs
<1>8. Driven(gr, k) \subseteq Nets(gr) /\ Driven(gr, k) = Driven(gr, k - 1) \cup DOMAIN gr.ranks[k]
  <2>1. 1..k \subseteq 1..R /\ 1..k = (1..k - 1) \cup {k}
    BY <1>0, <1>5
  <2> QED BY SMTT(30), <2>1 DEF Driven, Levelised, Nets
<1>9. ASSUME NEW n \in DOMAIN gr.ranks[k]
      PROVE  l \in word(n) <=> 0 \in bit(n)
  <2> DEFINE K == DOMAIN gr.ranks[k][n].ins
             a == [i \in K |-> E[k - 1][gr.ranks[k][n].ins[i]]]
             b == [i \in K |-> G[k - 1][gr.ranks[k][n].ins[i]]]
  <2>1. \A i \in K : gr.ranks[k][n].ins[i] \in Driven(gr, k - 1)
    BY <1>5, <1>9 DEF Levelised
  <2>2. \A i \in K : l \in a[i] <=> 0 \in b[i]
    BY Zenon, <1>6, <2>1 DEF SameAt
  <2>3. DOMAIN a = K /\ DOMAIN b = K
    OBVIOUS
  <2> HIDE DEF a, b, K
  <2>4. l \in EvalFunction(gr.fn[gr.ranks[k][n].type], a, ones) <=> 0 \in EvalFunction(gr.fn[gr.ranks[k][n].type], b, {0})
    BY <2>2, <2>3, EvalLane
  <2> QED BY Zenon, <2>4 DEF a, b, K, GateWord
<1> HIDE DEF word, bit
<1>10. ASSUME NEW n \in Driven(gr, k) PROVE l \in E[k][n] <=> 0 \in G[k][n]
  <2>1. CASE n \in DOMAIN gr.ranks[k]
    <3>1. E[k][n] = InjectFaults(masks, n, word(n)) /\ G[k][n] = InjectFaults(refs, n, bit(n)) /\ n \in Nets(gr)
      BY <1>7, <1>8, <1>10, <2>1
    <3> QED BY <1>9, <2>1, <3>1, InjectLane
  <2>2. CASE n \notin DOMAIN gr.ranks[k]
    <3>1. E[k][n] = E[k - 1][n] /\ G[k][n] = G[k - 1][n] /\ n \in Driven(gr, k - 1)
      BY <1>7, <1>8, <1>10, <2>2
    <3> QED BY <1>6, <3>1 DEF SameAt
  <2> QED BY <2>1, <2>2
<1> QED BY <1>3, <1>10 DEF SameAt

LEMMA CombinationalLane ==
  ASSUME NEW gr, Levelised(gr), NEW ones, NEW l \in ones,
         NEW masks \in Masks(gr, ones), NEW refs \in Masks(gr, {0}), SameMasks(gr, masks, l, refs),
         NEW nv \in Words(gr, ones), NEW bits \in Words(gr, {0}), SameAt(Sources(gr), nv, l, bits)
  PROVE  /\ EvaluateCombinational(gr, nv, masks, ones) \in Words(gr, ones)
         /\ EvaluateCombinational(gr, bits, refs, {0}) \in Words(gr, {0})
         /\ SameAt(Nets(gr), EvaluateCombinational(gr, nv, masks, ones), l,
                             EvaluateCombinational(gr, bits, refs, {0}))
<1> DEFINE R == Len(gr.ranks)
<1>1. Len(gr.nets) \in Nat /\ R \in 0..R /\ Driven(gr, R) = Nets(gr)
  BY DEF Levelised, Nets
<1>2. /\ Evaluated(gr, nv, masks, ones)[R] \in Words(gr, ones)
      /\ Evaluated(gr, bits, refs, {0})[R] \in Words(gr, {0})
  BY <1>1, StagesAreWords DEF Levelised
<1>3. SameAt(Nets(gr), Evaluated(gr, nv, masks, ones)[R], l, Evaluated(gr, bits, refs, {0})[R])
  BY <1>1, StagesLane
<1>4. DOMAIN nv = Nets(gr) /\ DOMAIN bits = Nets(gr)
  BY DEF Words
<1>5. CASE Nets(gr) = {}
  <2>1. /\ EvaluateCombinational(gr, nv, masks, ones) \in {nv, Evaluated(gr, nv, masks, ones)[R]}
        /\ EvaluateCombinational(gr, bits, refs, {0}) \in {bits, Evaluated(gr, bits, refs, {0})[R]}
    BY DEF EvaluateCombinational
  <2> QED BY <1>2, <1>5, <2>1 DEF SameAt
<1>6. CASE Nets(gr) # {}
  <2>1. nv # <<>> /\ bits # <<>>
    BY <1>4, <1>6
  <2>2. /\ EvaluateCombinational(gr, nv, masks, ones) = Evaluated(gr, nv, masks, ones)[R]
        /\ EvaluateCombinational(gr, bits, refs, {0}) = Evaluated(gr, bits, refs, {0})[R]
    BY <2>1 DEF EvaluateCombinational
  <2> QED BY <1>2, <1>3, <2>2
<1> QED BY <1>5, <1>6

-----------------------------------------------------------------------------
(* One cycle *)

\* The nets once the inputs are driven and before the flops are: the word injects its faults
\* on every net, the reference only on the inputs.
WordDriven(gr, nv, inputs, masks, ones) ==
  LET driven == BroadcastInputs(gr, nv, inputs, ones)
  IN  Values([n \in DOMAIN driven |-> InjectFaults(masks, n, driven[n])])
BitDriven(gr, nv, inputs, masks) ==
  LET driven == BroadcastInputs(gr, nv, inputs, {0})
  IN  Values([n \in DOMAIN driven |-> IF n \in gr.pis THEN InjectFaults(masks, n, driven[n]) ELSE driven[n]])

LEMMA BroadcastIs ==
  ASSUME NEW gr, Len(gr.nets) \in Nat, NEW ones, NEW nv \in Words(gr, ones), NEW inputs
  PROVE  /\ BroadcastInputs(gr, nv, inputs, ones) \in Words(gr, ones)
         /\ \A n \in Nets(gr) : BroadcastInputs(gr, nv, inputs, ones)[n]
              = IF n \in gr.pis THEN (IF inputs[n] THEN ones ELSE {}) ELSE nv[n]
<1> DEFINE next == [n \in Nets(gr) |-> IF n \in gr.pis THEN (IF inputs[n] THEN ones ELSE {}) ELSE nv[n]]
<1>1. DOMAIN nv = Nets(gr) /\ \A n \in Nets(gr) : nv[n] \in SUBSET ones
  BY DEF Words
<1>2. next \in [1..Len(gr.nets) -> SUBSET ones]
  BY <1>1 DEF Nets
<1>3. BroadcastInputs(gr, nv, inputs, ones) = Values(next)
  BY <1>1 DEF BroadcastInputs
<1>4. \A n \in Nets(gr) : next[n] = IF n \in gr.pis THEN (IF inputs[n] THEN ones ELSE {}) ELSE nv[n]
  OBVIOUS
<1> HIDE DEF next
<1> QED BY Zenon, <1>2, <1>3, <1>4, ValuesIs DEF Words, Nets

LEMMA DrivenLane ==
  ASSUME NEW gr, Len(gr.nets) \in Nat, gr.pis \subseteq Nets(gr), NEW ones, NEW l \in ones,
         NEW masks \in Masks(gr, ones), NEW refs \in Masks(gr, {0}), SameMasks(gr, masks, l, refs),
         NEW nv \in Words(gr, ones), NEW bits \in Words(gr, {0}), NEW inputs
  PROVE  /\ WordDriven(gr, nv, inputs, masks, ones) \in Words(gr, ones)
         /\ BitDriven(gr, bits, inputs, refs) \in Words(gr, {0})
         /\ SameAt(gr.pis, WordDriven(gr, nv, inputs, masks, ones), l, BitDriven(gr, bits, inputs, refs))
<1> DEFINE W == BroadcastInputs(gr, nv, inputs, ones)
           B == BroadcastInputs(gr, bits, inputs, {0})
           fw == [n \in Nets(gr) |-> InjectFaults(masks, n, W[n])]
           fb == [n \in Nets(gr) |-> IF n \in gr.pis THEN InjectFaults(refs, n, B[n]) ELSE B[n]]
<1>1. /\ W \in Words(gr, ones) /\ B \in Words(gr, {0})
      /\ \A n \in gr.pis : W[n] = (IF inputs[n] THEN ones ELSE {}) /\ B[n] = (IF inputs[n] THEN {0} ELSE {})
  BY BroadcastIs
<1> HIDE DEF W, B
<1>2. DOMAIN W = Nets(gr) /\ DOMAIN B = Nets(gr) /\ \A n \in Nets(gr) : W[n] \in SUBSET ones /\ B[n] \in SUBSET {0}
  BY <1>1 DEF Words
<1>3. \A n \in Nets(gr) : InjectFaults(masks, n, W[n]) \in SUBSET ones /\ InjectFaults(refs, n, B[n]) \in SUBSET {0}
  BY <1>2, InjectInWord
<1>4. fw \in [1..Len(gr.nets) -> SUBSET ones] /\ fb \in [1..Len(gr.nets) -> SUBSET {0}]
  BY <1>2, <1>3 DEF Nets
<1>5. WordDriven(gr, nv, inputs, masks, ones) = Values(fw) /\ BitDriven(gr, bits, inputs, refs) = Values(fb)
  BY <1>2 DEF WordDriven, BitDriven, W, B
<1>6. \A n \in gr.pis : fw[n] = InjectFaults(masks, n, W[n]) /\ fb[n] = InjectFaults(refs, n, B[n])
  OBVIOUS
<1> HIDE DEF fw, fb
<1>7. WordDriven(gr, nv, inputs, masks, ones) = fw /\ BitDriven(gr, bits, inputs, refs) = fb
  BY Zenon, <1>4, <1>5, ValuesIs
<1>8. \A n \in gr.pis : l \in W[n] <=> 0 \in B[n]
  BY <1>1
<1>9. \A n \in gr.pis : l \in fw[n] <=> 0 \in fb[n]
  BY <1>6, <1>8, InjectLane
<1> QED BY <1>4, <1>7, <1>9 DEF Words, Nets, SameAt

IsQ(gr, n) == \E i \in FlopSet(gr) : gr.ffs[i].out = n
FlopAt(gr, n) == CHOOSE i \in FlopSet(gr) : gr.ffs[i].out = n

\* Seeding the flops' outputs.
LEMMA SeedIs ==
  ASSUME NEW gr, Len(gr.nets) \in Nat, NEW ones, NEW masks \in Masks(gr, ones),
         NEW nv \in Words(gr, ones), NEW ff \in States(gr, ones)
  PROVE  /\ SeedFFOutputs(gr, nv, ff, masks) \in Words(gr, ones)
         /\ \A n \in Nets(gr) :
              IF IsQ(gr, n)
              THEN /\ FlopAt(gr, n) \in FlopSet(gr)
                   /\ SeedFFOutputs(gr, nv, ff, masks)[n] = InjectFaults(masks, n, ff[FlopAt(gr, n)])
              ELSE SeedFFOutputs(gr, nv, ff, masks)[n] = nv[n]
<1> DEFINE at(n) == FlopAt(gr, n)
           next == [n \in Nets(gr) |-> IF IsQ(gr, n)
                                       THEN InjectFaults(masks, n, ff[at(n)]) ELSE nv[n]]
<1>1. DOMAIN nv = Nets(gr) /\ \A n \in Nets(gr) : nv[n] \in SUBSET ones
  BY DEF Words
<1>2. SeedFFOutputs(gr, nv, ff, masks) = Values(next)
  BY <1>1 DEF SeedFFOutputs, FlopSet, FlopAt, IsQ
<1>3. \A n \in Nets(gr) : IsQ(gr, n) => at(n) \in FlopSet(gr)
  BY DEF FlopAt, IsQ
<1> HIDE DEF at
<1>4. \A n \in Nets(gr) : IsQ(gr, n) => InjectFaults(masks, n, ff[at(n)]) \in SUBSET ones
  BY <1>3, InjectInWord DEF States
<1>5. next \in [1..Len(gr.nets) -> SUBSET ones]
  BY <1>1, <1>4 DEF Nets
<1>6. \A n \in Nets(gr) : IF IsQ(gr, n) THEN at(n) \in FlopSet(gr) /\ next[n] = InjectFaults(masks, n, ff[at(n)])
                          ELSE next[n] = nv[n]
  BY <1>3
<1> HIDE DEF next
<1>7. SeedFFOutputs(gr, nv, ff, masks) = next
  BY Zenon, <1>2, <1>5, ValuesIs
<1> QED BY <1>5, <1>6, <1>7 DEF Words, Nets, at

LEMMA SeedLane ==
  ASSUME NEW gr, Levelised(gr), NEW ones, NEW l \in ones,
         NEW masks \in Masks(gr, ones), NEW refs \in Masks(gr, {0}), SameMasks(gr, masks, l, refs),
         NEW nv \in Words(gr, ones), NEW bits \in Words(gr, {0}), SameAt(gr.pis, nv, l, bits),
         NEW ff \in States(gr, ones), NEW st \in States(gr, {0}), SameAt(FlopSet(gr), ff, l, st)
  PROVE  /\ SeedFFOutputs(gr, nv, ff, masks) \in Words(gr, ones)
         /\ SeedFFOutputs(gr, bits, st, refs) \in Words(gr, {0})
         /\ SameAt(Sources(gr), SeedFFOutputs(gr, nv, ff, masks), l, SeedFFOutputs(gr, bits, st, refs))
<1> DEFINE W == SeedFFOutputs(gr, nv, ff, masks)
           B == SeedFFOutputs(gr, bits, st, refs)
<1>0. Len(gr.nets) \in Nat /\ Sources(gr) \subseteq Nets(gr)
  BY DEF Levelised, Driven, Nets
<1>1. /\ W \in Words(gr, ones) /\ B \in Words(gr, {0})
      /\ \A n \in Nets(gr) :
           IF IsQ(gr, n)
           THEN /\ FlopAt(gr, n) \in FlopSet(gr)
                /\ W[n] = InjectFaults(masks, n, ff[FlopAt(gr, n)]) /\ B[n] = InjectFaults(refs, n, st[FlopAt(gr, n)])
           ELSE W[n] = nv[n] /\ B[n] = bits[n]
  BY <1>0, SeedIs
<1> HIDE DEF W, B
<1>3. ASSUME NEW n \in Sources(gr) PROVE l \in W[n] <=> 0 \in B[n]
  <2>0. n \in Nets(gr)
    BY <1>0
  <2>1. CASE IsQ(gr, n)
    <3>1. /\ FlopAt(gr, n) \in FlopSet(gr)
          /\ W[n] = InjectFaults(masks, n, ff[FlopAt(gr, n)]) /\ B[n] = InjectFaults(refs, n, st[FlopAt(gr, n)])
      BY <1>1, <2>0, <2>1
    <3>2. l \in ff[FlopAt(gr, n)] <=> 0 \in st[FlopAt(gr, n)]
      BY <3>1 DEF SameAt
    <3> QED BY <2>0, <3>1, <3>2, InjectLane
  <2>2. CASE ~IsQ(gr, n)
    <3>1. W[n] = nv[n] /\ B[n] = bits[n]
      BY <1>1, <2>0, <2>2
    <3>2. n \in gr.pis
      BY <2>2 DEF Sources, FlopSet, IsQ
    <3> QED BY <3>1, <3>2 DEF SameAt
  <2> QED BY <2>1, <2>2
<1> QED BY <1>1, <1>3 DEF SameAt, W, B

\* Updating a flop: with masks over the lanes, and case by case.
LEMMA FlopLane ==
  ASSUME NEW gr, Levelised(gr), NEW i \in FlopSet(gr), NEW ones, NEW l \in ones,
         NEW nv \in Words(gr, ones), NEW bits \in Words(gr, {0}), SameAt(Nets(gr), nv, l, bits),
         NEW prev \in Words(gr, ones), NEW before \in Words(gr, {0}), SameAt(Nets(gr), prev, l, before),
         NEW ff \in States(gr, ones), NEW st \in States(gr, {0}), SameAt(FlopSet(gr), ff, l, st)
  PROVE  /\ UpdateFFWord(gr.ffs[i], nv, prev, ff[i], ones) \in SUBSET ones
         /\ GoldenUpdateFF(gr.ffs[i], bits, before, st[i]) \in SUBSET {0}
         /\ l \in UpdateFFWord(gr.ffs[i], nv, prev, ff[i], ones) <=> 0 \in GoldenUpdateFF(gr.ffs[i], bits, before, st[i])
<1> DEFINE x == gr.ffs[i]
           N == Nets(gr)
           word == ff[i]
           bit == st[i]
<1>1. /\ x.ctl \in {"none", "reset", "set"}
      /\ x.ins[D] \in N /\ x.ins[CK] \in N /\ x.ins[SDI] \in N /\ x.ins[SE] \in N /\ (x.ctl # "none" => x.ins[CTL] \in N)
  BY DEF SlotsRead, Levelised, FlopSet, Nets
<1>2. \A n \in N : bits[n] \in SUBSET {0} /\ before[n] \in SUBSET {0} /\ nv[n] \in SUBSET ones
  BY DEF Words
<1>3. \A n \in N : (l \in nv[n] <=> bits[n] # {}) /\ (l \in prev[n] <=> before[n] # {})
                   /\ (bits[n] # {} <=> 0 \in bits[n])
  BY <1>2 DEF SameAt
<1>4. word \in SUBSET ones /\ bit \in SUBSET {0} /\ (l \in word <=> 0 \in bit)
  BY DEF States, SameAt
<1> HIDE DEF x, N, word, bit
<1>5. UpdateFFWord(x, nv, prev, word, ones) \in SUBSET ones
  BY <1>1, <1>2, <1>4 DEF UpdateFFWord
<1>6. GoldenUpdateFF(x, bits, before, bit) \in SUBSET {0}
  BY <1>1, <1>2, <1>4 DEF GoldenUpdateFF
<1>7. l \in UpdateFFWord(x, nv, prev, word, ones) <=> 0 \in GoldenUpdateFF(x, bits, before, bit)
  <2>1. CASE x.ctl = "none"
    BY <1>1, <1>3, <1>4, <2>1 DEF UpdateFFWord, GoldenUpdateFF
  <2>2. CASE x.ctl = "reset"
    BY <1>1, <1>3, <1>4, <2>2 DEF UpdateFFWord, GoldenUpdateFF
  <2>3. CASE x.ctl = "set"
    BY <1>1, <1>3, <1>4, <2>3 DEF UpdateFFWord, GoldenUpdateFF
  <2> QED BY <1>1, <2>1, <2>2, <2>3
<1> QED BY <1>5, <1>6, <1>7 DEF x, word, bit

Machines(gr, ones) == [nv : Words(gr, ones), ff : States(gr, ones)]

\* Lane l of a bit-parallel machine is a golden machine.
SameLane(gr, m, l, ref) == SameAt(Nets(gr), m.nv, l, ref.nv) /\ SameAt(FlopSet(gr), m.ff, l, ref.ff)

\* One cycle keeps every lane equal to the golden machine that carries the lane's fault,
\* whatever the other lanes carry.
THEOREM CycleIsGolden ==
  ASSUME NEW gr, Levelised(gr), NEW ones, NEW l \in ones, NEW inputs,
         NEW masks \in Masks(gr, ones), NEW refs \in Masks(gr, {0}), SameMasks(gr, masks, l, refs),
         NEW m \in Machines(gr, ones), NEW ref \in Machines(gr, {0}), SameLane(gr, m, l, ref)
  PROVE  /\ ParallelCycle(gr, m, inputs, masks, ones) \in Machines(gr, ones)
         /\ GoldenCycle(gr, ref, inputs, refs) \in Machines(gr, {0})
         /\ SameLane(gr, ParallelCycle(gr, m, inputs, masks, ones), l, GoldenCycle(gr, ref, inputs, refs))
<1> DEFINE wF == WordDriven(gr, m.nv, inputs, masks, ones)
           bF == BitDriven(gr, ref.nv, inputs, refs)
           wS == EvaluateCombinational(gr, SeedFFOutputs(gr, wF, m.ff, masks), masks, ones)
           bS == EvaluateCombinational(gr, SeedFFOutputs(gr, bF, ref.ff, refs), refs, {0})
           wU == [i \in FlopSet(gr) |-> UpdateFFWord(gr.ffs[i], wS, m.nv, m.ff[i], ones)]
           bU == [i \in FlopSet(gr) |-> GoldenUpdateFF(gr.ffs[i], bS, ref.nv, ref.ff[i])]
           wE == EvaluateCombinational(gr, SeedFFOutputs(gr, wS, Values(wU), masks), masks, ones)
           bE == EvaluateCombinational(gr, SeedFFOutputs(gr, bS, Values(bU), refs), refs, {0})
<1>0. /\ ParallelCycle(gr, m, inputs, masks, ones) = [nv |-> wE, ff |-> Values(wU)]
      /\ GoldenCycle(gr, ref, inputs, refs) = [nv |-> bE, ff |-> Values(bU)]
  BY DEF ParallelCycle, GoldenCycle, WordDriven, BitDriven, FlopSet
<1>1. /\ m.nv \in Words(gr, ones) /\ m.ff \in States(gr, ones)
      /\ ref.nv \in Words(gr, {0}) /\ ref.ff \in States(gr, {0})
      /\ SameAt(Nets(gr), m.nv, l, ref.nv) /\ SameAt(FlopSet(gr), m.ff, l, ref.ff)
  BY DEF Machines, SameLane
<1>2. Len(gr.nets) \in Nat /\ Len(gr.ffs) \in Nat /\ gr.pis \subseteq Nets(gr)
  BY DEF Levelised, Driven, Sources, Nets
<1>3. wF \in Words(gr, ones) /\ bF \in Words(gr, {0}) /\ SameAt(gr.pis, wF, l, bF)
  BY <1>1, <1>2, DrivenLane
<1> HIDE DEF wF, bF
<1>4. wS \in Words(gr, ones) /\ bS \in Words(gr, {0}) /\ SameAt(Nets(gr), wS, l, bS)
  <2>1. /\ SeedFFOutputs(gr, wF, m.ff, masks) \in Words(gr, ones)
        /\ SeedFFOutputs(gr, bF, ref.ff, refs) \in Words(gr, {0})
        /\ SameAt(Sources(gr), SeedFFOutputs(gr, wF, m.ff, masks), l, SeedFFOutputs(gr, bF, ref.ff, refs))
    BY <1>1, <1>3, SeedLane
  <2> QED BY <2>1, CombinationalLane
<1> HIDE DEF wS, bS
<1>5. ASSUME NEW i \in FlopSet(gr)
      PROVE  /\ UpdateFFWord(gr.ffs[i], wS, m.nv, m.ff[i], ones) \in SUBSET ones
             /\ GoldenUpdateFF(gr.ffs[i], bS, ref.nv, ref.ff[i]) \in SUBSET {0}
             /\ l \in UpdateFFWord(gr.ffs[i], wS, m.nv, m.ff[i], ones)
                  <=> 0 \in GoldenUpdateFF(gr.ffs[i], bS, ref.nv, ref.ff[i])
  BY <1>1, <1>4, FlopLane
<1>6. wU \in [1..Len(gr.ffs) -> SUBSET ones] /\ bU \in [1..Len(gr.ffs) -> SUBSET {0}] /\ SameAt(FlopSet(gr), wU, l, bU)
  BY <1>5 DEF FlopSet, SameAt
<1> HIDE DEF wU, bU
<1>7. Values(wU) = wU /\ Values(bU) = bU
  BY Zenon, <1>2, <1>6, ValuesIs
<1>8. wU \in States(gr, ones) /\ bU \in States(gr, {0})
  BY <1>6 DEF States, FlopSet
<1>9. SameAt(gr.pis, wS, l, bS)
  BY <1>2, <1>4 DEF SameAt
<1>10. wE \in Words(gr, ones) /\ bE \in Words(gr, {0}) /\ SameAt(Nets(gr), wE, l, bE)
  <2>1. /\ SeedFFOutputs(gr, wS, wU, masks) \in Words(gr, ones)
        /\ SeedFFOutputs(gr, bS, bU, refs) \in Words(gr, {0})
        /\ SameAt(Sources(gr), SeedFFOutputs(gr, wS, wU, masks), l, SeedFFOutputs(gr, bS, bU, refs))
    BY <1>4, <1>6, <1>8, <1>9, SeedLane
  <2> QED BY <1>7, <2>1, CombinationalLane
<1> HIDE DEF wE, bE
<1> QED BY <1>0, <1>6, <1>7, <1>8, <1>10 DEF Machines, SameLane

-----------------------------------------------------------------------------
(* Fault masks, and grading a batch *)

\* The reference that carries lane l of a batch of faults, and the one without a fault.
OneFault(gr, f) == FaultMasks(gr, {0}, [k \in {0} |-> f])

StuckLanes(lanes, faults, n, v) == {l \in lanes : faults[l].net = n /\ faults[l].sa = v}

LEMMA MasksAre ==
  ASSUME NEW gr, Len(gr.nets) \in Nat, NEW lanes, NEW ones, lanes \subseteq ones, NEW faults
  PROVE  /\ FaultMasks(gr, lanes, faults) \in Masks(gr, ones)
         /\ \A n \in Nets(gr) : /\ FaultMasks(gr, lanes, faults)[n].z = StuckLanes(lanes, faults, n, 0)
                                /\ FaultMasks(gr, lanes, faults)[n].o = StuckLanes(lanes, faults, n, 1)
<1> DEFINE z(n) == StuckLanes(lanes, faults, n, 0)
           o(n) == StuckLanes(lanes, faults, n, 1)
           M == [n \in Nets(gr) |-> [z |-> z(n), o |-> o(n)]]
<1>1. FaultMasks(gr, lanes, faults) = Values(M)
  BY DEF FaultMasks, Nets, StuckLanes
<1>2. \A n : z(n) \in SUBSET ones /\ o(n) \in SUBSET ones
  BY DEF StuckLanes
<1> HIDE DEF z, o
<1>3. M \in [1..Len(gr.nets) -> [z : SUBSET ones, o : SUBSET ones]]
  BY <1>2 DEF Nets
<1>4. \A n \in Nets(gr) : M[n].z = z(n) /\ M[n].o = o(n)
  OBVIOUS
<1> HIDE DEF M
<1>5. FaultMasks(gr, lanes, faults) = M
  BY Zenon, <1>1, <1>3, ValuesIs
<1> QED BY <1>3, <1>4, <1>5 DEF Masks, Nets, z, o

LEMMA MaskBits ==
  ASSUME NEW gr, Len(gr.nets) \in Nat, NEW lanes, NEW faults
  PROVE  \A n \in Nets(gr) : /\ FaultMasks(gr, lanes, faults)[n].z = StuckLanes(lanes, faults, n, 0)
                             /\ FaultMasks(gr, lanes, faults)[n].o = StuckLanes(lanes, faults, n, 1)
<1>1. lanes \subseteq lanes
  OBVIOUS
<1> QED BY Zenon, <1>1, MasksAre

LEMMA MasksLane ==
  ASSUME NEW gr, Len(gr.nets) \in Nat, NEW lanes, NEW faults, NEW l
  PROVE  /\ l \in lanes => SameMasks(gr, FaultMasks(gr, lanes, faults), l, OneFault(gr, faults[l]))
         /\ l \notin lanes => SameMasks(gr, FaultMasks(gr, lanes, faults), l, NoFaults(gr))
<1> DEFINE M == FaultMasks(gr, lanes, faults)
           one == [k \in {0} |-> faults[l]]
           none == <<>>
           R == FaultMasks(gr, {0}, one)
           N == FaultMasks(gr, {}, none)
<1>0. one[0] = faults[l] /\ OneFault(gr, faults[l]) = R /\ NoFaults(gr) = N
  BY DEF OneFault, NoFaults
<1> HIDE DEF one, none
<1>1. \A n \in Nets(gr) : M[n].z = StuckLanes(lanes, faults, n, 0) /\ M[n].o = StuckLanes(lanes, faults, n, 1)
  BY MaskBits
<1>2. \A n \in Nets(gr) : R[n].z = StuckLanes({0}, one, n, 0) /\ R[n].o = StuckLanes({0}, one, n, 1)
  BY MaskBits
<1>3. \A n \in Nets(gr) : N[n].z = StuckLanes({}, none, n, 0) /\ N[n].o = StuckLanes({}, none, n, 1)
  BY MaskBits
<1> HIDE DEF M, R, N
<1>5. ASSUME l \in lanes PROVE SameMasks(gr, M, l, R)
  BY <1>0, <1>1, <1>2, <1>5 DEF SameMasks, StuckLanes
<1>6. ASSUME l \notin lanes PROVE SameMasks(gr, M, l, N)
  BY <1>1, <1>3, <1>6 DEF SameMasks, StuckLanes
<1> QED BY <1>0, <1>5, <1>6 DEF M

LEMMA NoFaultsLane == ASSUME NEW gr, Len(gr.nets) \in Nat, NEW l PROVE SameMasks(gr, NoFaults(gr), l, NoFaults(gr))
<1>1. SameMasks(gr, FaultMasks(gr, {}, <<>>), l, NoFaults(gr))
  BY MasksLane
<1> QED BY <1>1 DEF NoFaults

LEMMA PowerUpIs ==
  ASSUME NEW gr
  PROVE  /\ \A ones : PowerUp(gr) \in Machines(gr, ones)
         /\ \A l : SameLane(gr, PowerUp(gr), l, PowerUp(gr))
BY DEF PowerUp, Machines, SameLane, SameAt, Words, States, Nets, FlopSet

LEMMA BitsDiffer ==
  ASSUME NEW A \in SUBSET {0}, NEW B \in SUBSET {0} PROVE A # B <=> ~(0 \in A <=> 0 \in B)
<1>1. \A x : (x \in A => x = 0) /\ (x \in B => x = 0)
  OBVIOUS
<1>2. ASSUME 0 \in A <=> 0 \in B PROVE A = B
  <2>1. \A x : x \in A <=> x \in B
    BY <1>1, <1>2
  <2> QED BY <2>1
<1> QED BY <1>2

Differ(gr, F, G) == \E o \in gr.obs : F.nv[o] # G.nv[o]

\* What is propagated: the lanes whose golden machine differs at an observed net.
LEMMA PropagatedIs ==
  ASSUME NEW gr, gr.obs \subseteq Nets(gr), NEW ones, NEW P, NEW G \in Machines(gr, {0}), SameLane(gr, P, 0, G),
         NEW l \in ones, NEW F \in Machines(gr, {0}), SameLane(gr, P, l, F)
  PROVE  l \in Propagated(gr, P.nv, ones) <=> Differ(gr, F, G)
<1>1. \A o \in gr.obs : /\ 0 \in P.nv[o] <=> 0 \in G.nv[o]
                        /\ l \in P.nv[o] <=> 0 \in F.nv[o]
  BY DEF SameLane, SameAt
<1>2. \A o \in gr.obs : F.nv[o] \in SUBSET {0} /\ G.nv[o] \in SUBSET {0}
  BY DEF Machines, Words
<1>3. \A o \in gr.obs : F.nv[o] # G.nv[o] <=> ~(0 \in F.nv[o] <=> 0 \in G.nv[o])
  BY <1>2, BitsDiffer
<1>4. l \in Propagated(gr, P.nv, ones) <=> \E o \in gr.obs : ~(l \in P.nv[o] <=> 0 \in P.nv[o])
  BY DEF Propagated
<1> QED BY <1>1, <1>3, <1>4 DEF Differ

LEMMA PropagatedInWord ==
  ASSUME NEW gr, gr.obs \subseteq Nets(gr), NEW ones, NEW P \in Machines(gr, ones)
  PROVE  Propagated(gr, P.nv, ones) \subseteq ones
BY DEF Propagated, Machines, Words

LEMMA BatchMasksLane ==
  ASSUME NEW gr, Len(gr.nets) \in Nat, NEW faults, Len(faults) \in Nat
  PROVE  /\ FaultMasks(gr, 1..Len(faults), faults) \in Masks(gr, 0..Len(faults))
         /\ NoFaults(gr) \in Masks(gr, {0}) /\ NoFaults(gr) \in Masks(gr, 0..Len(faults))
         /\ SameMasks(gr, FaultMasks(gr, 1..Len(faults), faults), 0, NoFaults(gr))
         /\ \A l \in 1..Len(faults) : /\ OneFault(gr, faults[l]) \in Masks(gr, {0})
                                      /\ SameMasks(gr, FaultMasks(gr, 1..Len(faults), faults), l, OneFault(gr, faults[l]))
<1>1. 1..Len(faults) \subseteq 0..Len(faults) /\ 0 \notin 1..Len(faults)
  OBVIOUS
<1>2. \A l : FaultMasks(gr, {0}, [k \in {0} |-> faults[l]]) \in Masks(gr, {0})
  BY Zenon, MasksAre
<1>3. FaultMasks(gr, {}, <<>>) \in Masks(gr, {0}) /\ FaultMasks(gr, {}, <<>>) \in Masks(gr, 0..Len(faults))
  BY Zenon, MasksAre
<1>4. FaultMasks(gr, 1..Len(faults), faults) \in Masks(gr, 0..Len(faults))
  BY Zenon, <1>1, MasksAre
<1> QED BY <1>1, <1>2, <1>3, <1>4, MasksLane DEF NoFaults, OneFault

\* The response of the golden machine that carries fault f alone.
FaultyResponse(gr, vec, f) == GoldenCycle(gr, PowerUp(gr), vec, OneFault(gr, f)).nv

\* Grading a batch on a graph without flip-flops is exact for every fault of it: its lane is
\* reported when, and only when, the golden machine with that fault alone differs from the
\* fault-free one at an observed net.  Neither the good lane nor an unused one is reported.
THEOREM BatchIsExact ==
  ASSUME NEW gr, Levelised(gr), gr.obs \subseteq 1..Len(gr.nets), NEW vec, NEW faults, Len(faults) \in Nat
  PROVE  /\ SimulateBatch(gr, vec, faults) \subseteq 1..Len(faults)
         /\ \A l \in 1..Len(faults) : l \in SimulateBatch(gr, vec, faults)
              <=> \E o \in gr.obs : FaultyResponse(gr, vec, faults[l])[o] # FaultFree(gr, vec)[o]
<1> DEFINE ones == 0..Len(faults)
           M == FaultMasks(gr, 1..Len(faults), faults)
           P == ParallelCycle(gr, PowerUp(gr), vec, M, ones)
           G == GoldenCycle(gr, PowerUp(gr), vec, NoFaults(gr))
           F(l) == GoldenCycle(gr, PowerUp(gr), vec, OneFault(gr, faults[l]))
<1>0. /\ Len(gr.nets) \in Nat /\ gr.obs \subseteq Nets(gr)
      /\ 0 \in ones /\ 1..Len(faults) \subseteq ones
  BY DEF Levelised, Nets
<1>1. /\ M \in Masks(gr, ones) /\ NoFaults(gr) \in Masks(gr, {0}) /\ SameMasks(gr, M, 0, NoFaults(gr))
      /\ \A l \in 1..Len(faults) : OneFault(gr, faults[l]) \in Masks(gr, {0}) /\ SameMasks(gr, M, l, OneFault(gr, faults[l]))
  BY <1>0, BatchMasksLane
<1> HIDE DEF M, ones
<1>2. /\ SameLane(gr, P, 0, G) /\ P \in Machines(gr, ones) /\ G \in Machines(gr, {0})
      /\ \A l \in 1..Len(faults) : SameLane(gr, P, l, F(l)) /\ F(l) \in Machines(gr, {0})
  BY <1>0, <1>1, PowerUpIs, CycleIsGolden
<1> HIDE DEF P, G, F
<1>3. SimulateBatch(gr, vec, faults) = Propagated(gr, P.nv, ones)
  BY DEF SimulateBatch, P, M, ones
<1>4. Propagated(gr, P.nv, ones) \subseteq 1..Len(faults)
  <2>1. 0 \notin Propagated(gr, P.nv, ones)
    BY Zenon, <1>0, <1>2, PropagatedIs DEF Differ
  <2>2. Propagated(gr, P.nv, ones) \subseteq ones
    BY <1>0, <1>2, PropagatedInWord
  <2> QED BY <2>1, <2>2 DEF ones
<1>5. ASSUME NEW l \in 1..Len(faults) PROVE l \in Propagated(gr, P.nv, ones) <=> Differ(gr, F(l), G)
  <2>1. l \in ones /\ SameLane(gr, P, l, F(l)) /\ F(l) \in Machines(gr, {0})
    BY <1>0, <1>2
  <2> QED BY <1>0, <1>2, <2>1, PropagatedIs
<1>6. FaultFree(gr, vec) = G.nv /\ \A l \in 1..Len(faults) : FaultyResponse(gr, vec, faults[l]) = F(l).nv
  BY DEF FaultyResponse, FaultFree, F, G
<1> QED BY <1>3, <1>4, <1>5, <1>6 DEF Differ

\* The golden machine after a fault-free launch and a capture with the given masks.
Launched(gr, launch) == GoldenCycle(gr, PowerUp(gr), launch, NoFaults(gr))
CaptureResponse(gr, launch, capture, refs) == GoldenCycle(gr, Launched(gr, launch), capture, refs).nv

\* Grading transitions is exact in the same sense: a lane is reported when, and only when, the
\* good machine holds the value before the edge at the fault's net in the launch frame and the
\* golden machine that is stuck there in the capture frame differs at an observed net.
THEOREM TransitionBatchIsExact ==
  ASSUME NEW gr, Levelised(gr), gr.obs \subseteq 1..Len(gr.nets), NEW launch, NEW capture,
         NEW faults, Len(faults) \in Nat, \A l \in 1..Len(faults) : faults[l].net \in 1..Len(gr.nets)
  PROVE  /\ SimulateTransitionBatch(gr, launch, capture, faults) \subseteq 1..Len(faults)
         /\ \A l \in 1..Len(faults) : l \in SimulateTransitionBatch(gr, launch, capture, faults)
              <=> /\ 0 \in FaultFree(gr, launch)[faults[l].net] <=> faults[l].sa = 1
                  /\ \E o \in gr.obs : CaptureResponse(gr, launch, capture, OneFault(gr, faults[l]))[o]
                                         # CaptureResponse(gr, launch, capture, NoFaults(gr))[o]
<1> DEFINE ones == 0..Len(faults)
           M == FaultMasks(gr, 1..Len(faults), faults)
           I == ParallelCycle(gr, PowerUp(gr), launch, NoFaults(gr), ones)
           L == Launched(gr, launch)
           P == ParallelCycle(gr, I, capture, M, ones)
           G == GoldenCycle(gr, L, capture, NoFaults(gr))
           F(l) == GoldenCycle(gr, L, capture, OneFault(gr, faults[l]))
<1>0. /\ Len(gr.nets) \in Nat /\ gr.obs \subseteq Nets(gr)
      /\ 0 \in ones /\ 1..Len(faults) \subseteq ones /\ \A l \in 1..Len(faults) : faults[l].net \in Nets(gr)
  BY DEF Levelised, Nets
<1>1. /\ M \in Masks(gr, ones) /\ NoFaults(gr) \in Masks(gr, ones)
      /\ NoFaults(gr) \in Masks(gr, {0}) /\ SameMasks(gr, M, 0, NoFaults(gr))
      /\ \A l \in 1..Len(faults) : OneFault(gr, faults[l]) \in Masks(gr, {0}) /\ SameMasks(gr, M, l, OneFault(gr, faults[l]))
  BY <1>0, BatchMasksLane
<1> HIDE DEF M, ones
<1>2. I \in Machines(gr, ones) /\ L \in Machines(gr, {0}) /\ \A l \in ones : SameLane(gr, I, l, L)
  <2>1. \A l \in ones : SameMasks(gr, NoFaults(gr), l, NoFaults(gr))
    BY <1>0, NoFaultsLane
  <2> QED BY Zenon, <1>0, <1>1, <2>1, PowerUpIs, CycleIsGolden DEF Launched
<1> HIDE DEF I, L
<1>3. /\ SameLane(gr, P, 0, G) /\ P \in Machines(gr, ones) /\ G \in Machines(gr, {0})
      /\ \A l \in 1..Len(faults) : SameLane(gr, P, l, F(l)) /\ F(l) \in Machines(gr, {0})
  BY <1>0, <1>1, <1>2, CycleIsGolden
<1> HIDE DEF P, G, F
<1>4. Propagated(gr, P.nv, ones) \subseteq 1..Len(faults)
  <2>1. 0 \notin Propagated(gr, P.nv, ones)
    BY Zenon, <1>0, <1>3, PropagatedIs DEF Differ
  <2>2. Propagated(gr, P.nv, ones) \subseteq ones
    BY <1>0, <1>3, PropagatedInWord
  <2> QED BY <2>1, <2>2 DEF ones
<1>5. ASSUME NEW l \in 1..Len(faults) PROVE l \in Propagated(gr, P.nv, ones) <=> Differ(gr, F(l), G)
  <2>1. l \in ones /\ SameLane(gr, P, l, F(l)) /\ F(l) \in Machines(gr, {0})
    BY <1>0, <1>3
  <2> QED BY <1>0, <1>3, <2>1, PropagatedIs
<1>6. SimulateTransitionBatch(gr, launch, capture, faults)
        = {l \in Propagated(gr, P.nv, ones) : (0 \in I.nv[faults[l].net]) <=> (faults[l].sa = 1)}
  BY DEF SimulateTransitionBatch, P, I, M, ones
<1>7. \A l \in 1..Len(faults) : 0 \in I.nv[faults[l].net] <=> 0 \in L.nv[faults[l].net]
  BY <1>0, <1>2 DEF SameLane, SameAt
<1>8. /\ FaultFree(gr, launch) = L.nv /\ CaptureResponse(gr, launch, capture, NoFaults(gr)) = G.nv
      /\ \A l \in 1..Len(faults) : CaptureResponse(gr, launch, capture, OneFault(gr, faults[l])) = F(l).nv
  BY DEF FaultFree, CaptureResponse, Launched, F, G, L
<1> QED BY <1>4, <1>5, <1>6, <1>7, <1>8 DEF Differ

-----------------------------------------------------------------------------
(* What the ranks settle to *)

Inputs(gr, r, n) == {gr.ranks[r][n].ins[k] : k \in DOMAIN gr.ranks[r][n].ins}

\* No net is driven twice, and none after it was read.
Ordered(gr) ==
  /\ Len(gr.nets) \in Nat /\ Len(gr.ranks) \in Nat
  /\ \A r \in 1..Len(gr.ranks) : \A n \in DOMAIN gr.ranks[r] :
       /\ n \in Nets(gr) /\ Inputs(gr, r, n) \subseteq Nets(gr)
       /\ \A q \in r..Len(gr.ranks) : Inputs(gr, r, n) \cap DOMAIN gr.ranks[q] = {}
       /\ \A q \in (r + 1)..Len(gr.ranks) : n \notin DOMAIN gr.ranks[q]

LEMMA DrivenGrows ==
  ASSUME NEW gr, NEW r \in Nat, NEW q \in Nat, r <= q
  PROVE  Driven(gr, r) \subseteq Driven(gr, q) /\ (r # 0 => DOMAIN gr.ranks[r] \subseteq Driven(gr, q))
<1>1. 1..r \subseteq 1..q /\ (r # 0 => r \in 1..q)
  OBVIOUS
<1> QED BY <1>1 DEF Driven

LEMMA LevelisedIsOrdered == ASSUME NEW gr, Levelised(gr) PROVE Ordered(gr)
<1> DEFINE R == Len(gr.ranks)
<1>0. Len(gr.nets) \in Nat /\ R \in Nat /\ Driven(gr, R) = Nets(gr)
  BY DEF Levelised, Nets
<1>1. ASSUME NEW r \in 1..R, NEW n \in DOMAIN gr.ranks[r]
      PROVE  /\ n \in Nets(gr) /\ Inputs(gr, r, n) \subseteq Nets(gr)
             /\ \A q \in r..R : Inputs(gr, r, n) \cap DOMAIN gr.ranks[q] = {}
             /\ \A q \in (r + 1)..R : n \notin DOMAIN gr.ranks[q]
  <2>1. Inputs(gr, r, n) \subseteq Driven(gr, r - 1)
    BY <1>1 DEF Levelised, Inputs
  <2>2. \A q \in 1..R : \A x \in DOMAIN gr.ranks[q] : x \notin Driven(gr, q - 1)
    BY DEF Levelised
  <2>3. n \in Nets(gr) /\ Inputs(gr, r, n) \subseteq Nets(gr)
    <3>1. r \in Nat /\ r - 1 \in Nat /\ r <= R /\ r - 1 <= R /\ r # 0
      BY <1>0, <1>1
    <3> QED BY <1>0, <1>1, <2>1, <3>1, DrivenGrows
  <2>4. ASSUME NEW q \in r..R PROVE Inputs(gr, r, n) \cap DOMAIN gr.ranks[q] = {}
    <3>1. q \in 1..R /\ r - 1 \in Nat /\ q - 1 \in Nat /\ r - 1 <= q - 1
      BY <1>0, <1>1, <2>4
    <3>2. Driven(gr, r - 1) \subseteq Driven(gr, q - 1)
      BY <3>1, DrivenGrows
    <3> QED BY <2>1, <2>2, <3>1, <3>2
  <2>5. ASSUME NEW q \in (r + 1)..R PROVE n \notin DOMAIN gr.ranks[q]
    <3>1. q \in 1..R /\ r \in Nat /\ q - 1 \in Nat /\ r <= q - 1 /\ r # 0
      BY <1>0, <1>1, <2>5
    <3>2. n \in Driven(gr, q - 1)
      BY <1>1, <3>1, DrivenGrows
    <3> QED BY <2>2, <3>1, <3>2
  <2> QED BY <2>3, <2>4, <2>5
<1> QED BY <1>0, <1>1 DEF Ordered

\* A net keeps its value while no rank drives it.
LEMMA StageKeeps ==
  ASSUME NEW gr, Len(gr.nets) \in Nat, Len(gr.ranks) \in Nat, NEW ones, NEW masks \in Masks(gr, ones),
         NEW nv \in Words(gr, ones), NEW n \in Nets(gr), NEW r \in 0..Len(gr.ranks),
         \A p \in (r + 1)..Len(gr.ranks) : n \notin DOMAIN gr.ranks[p]
  PROVE  Evaluated(gr, nv, masks, ones)[Len(gr.ranks)][n] = Evaluated(gr, nv, masks, ones)[r][n]
<1> DEFINE R == Len(gr.ranks)
           E == Evaluated(gr, nv, masks, ones)
           T == {q \in r..R : E[q][n] # E[r][n]}
<1>1. \A q \in 1..R : E[q] = EvaluateRank(gr, E[q - 1], masks, ones, q)
  BY EvaluatedIs
<1>2. \A q \in 0..R : E[q] \in Words(gr, ones)
  BY StagesAreWords
<1> HIDE DEF E
<1> SUFFICES ASSUME T # {} PROVE FALSE
  <2>1. R \in r..R
    OBVIOUS
  <2> QED BY <2>1 DEF E
<1>3. PICK q \in T : \A j \in Nat : j < q => j \notin T
  <2>1. T \in SUBSET Nat
    OBVIOUS
  <2> HIDE DEF T
  <2> QED BY <2>1, LeastFailure
<1>4. q # r /\ q \in (r + 1)..R /\ q \in 1..R /\ q - 1 \in r..R /\ q - 1 \in 0..R /\ q - 1 \in Nat /\ q - 1 < q
  BY <1>3
<1>5. E[q - 1][n] = E[r][n]
  BY <1>3, <1>4
<1>6. E[q][n] = E[q - 1][n]
  <2>1. E[q] = EvaluateRank(gr, E[q - 1], masks, ones, q) /\ E[q - 1] \in Words(gr, ones) /\ n \notin DOMAIN gr.ranks[q]
    BY <1>1, <1>2, <1>4
  <2> QED BY <2>1, RankIs
<1> QED BY <1>3, <1>5, <1>6

\* A gate's word depends on its inputs only.
LEMMA SameGate ==
  ASSUME NEW gr, NEW ones, NEW r, NEW n, NEW V, NEW U, \A x \in Inputs(gr, r, n) : V[x] = U[x]
  PROVE  GateWord(gr, V, ones, r, n) = GateWord(gr, U, ones, r, n)
<1>1. \A k \in DOMAIN gr.ranks[r][n].ins : V[gr.ranks[r][n].ins[k]] = U[gr.ranks[r][n].ins[k]]
  BY DEF Inputs
<1> QED BY <1>1 DEF GateWord

\* After the last rank every gate's net has the gate's value on the nets there are then.
LEMMA SettledIs ==
  ASSUME NEW gr, Ordered(gr), NEW ones, NEW masks \in Masks(gr, ones), NEW nv \in Words(gr, ones),
         NEW V, V = EvaluateCombinational(gr, nv, masks, ones)
  PROVE  /\ V \in Words(gr, ones)
         /\ \A r \in 1..Len(gr.ranks) : \A n \in DOMAIN gr.ranks[r] :
              V[n] = InjectFaults(masks, n, GateWord(gr, V, ones, r, n))
         /\ \A n \in Nets(gr) : (\A r \in 1..Len(gr.ranks) : n \notin DOMAIN gr.ranks[r]) => V[n] = nv[n]
<1> DEFINE R == Len(gr.ranks)
           E == Evaluated(gr, nv, masks, ones)
<1>0. Len(gr.nets) \in Nat /\ R \in Nat /\ R \in 0..R /\ 0 \in 0..R
  BY DEF Ordered
<1>1. E[0] = nv /\ \A q \in 1..R : E[q] = EvaluateRank(gr, E[q - 1], masks, ones, q)
  BY <1>0, EvaluatedIs
<1>2. \A q \in 0..R : E[q] \in Words(gr, ones)
  BY <1>0, StagesAreWords
<1>3. ASSUME NEW n \in Nets(gr), NEW r \in 0..R, \A p \in (r + 1)..R : n \notin DOMAIN gr.ranks[p]
      PROVE  E[R][n] = E[r][n]
  BY <1>0, <1>3, StageKeeps
<1> HIDE DEF E
<1>4. CASE nv = <<>>
  <2>1. Nets(gr) = {}
    BY <1>4 DEF Words
  <2>2. \A r \in 1..R : DOMAIN gr.ranks[r] = {}
    BY <2>1 DEF Ordered
  <2>3. V = nv
    BY <1>4 DEF EvaluateCombinational
  <2> QED BY <2>1, <2>2, <2>3
<1>5. CASE nv # <<>>
  <2>1. V = E[R] /\ V \in Words(gr, ones)
    BY <1>0, <1>2, <1>5 DEF EvaluateCombinational, E
  <2>2. ASSUME NEW r \in 1..R, NEW n \in DOMAIN gr.ranks[r]
        PROVE  V[n] = InjectFaults(masks, n, GateWord(gr, V, ones, r, n))
    <3>1. /\ n \in Nets(gr) /\ Inputs(gr, r, n) \subseteq Nets(gr)
          /\ \A q \in r..R : Inputs(gr, r, n) \cap DOMAIN gr.ranks[q] = {}
          /\ \A q \in (r + 1)..R : n \notin DOMAIN gr.ranks[q]
      BY <2>2 DEF Ordered
    <3>2. r \in 0..R /\ r - 1 \in 0..R /\ (r - 1) + 1 = r
      BY <1>0, <2>2
    <3>3. V[n] = E[r][n]
      BY <1>3, <2>1, <3>1, <3>2
    <3>4. E[r][n] = InjectFaults(masks, n, GateWord(gr, E[r - 1], ones, r, n))
      <4>1. E[r] = EvaluateRank(gr, E[r - 1], masks, ones, r) /\ E[r - 1] \in Words(gr, ones)
        BY <1>1, <1>2, <2>2, <3>2
      <4> QED BY <1>0, <2>2, <3>1, <4>1, RankIs
    <3>5. \A x \in Inputs(gr, r, n) : V[x] = E[r - 1][x]
      BY <1>3, <2>1, <3>1, <3>2
    <3>6. GateWord(gr, V, ones, r, n) = GateWord(gr, E[r - 1], ones, r, n)
      BY <3>5, SameGate
    <3> QED BY <3>3, <3>4, <3>6
  <2>3. ASSUME NEW n \in Nets(gr), \A r \in 1..R : n \notin DOMAIN gr.ranks[r] PROVE V[n] = nv[n]
    <3>1. \A p \in (0 + 1)..R : n \notin DOMAIN gr.ranks[p]
      BY <2>3
    <3> QED BY <1>0, <1>1, <1>3, <2>1, <3>1
  <2> QED BY <2>1, <2>2, <2>3
<1> QED BY <1>4, <1>5

-----------------------------------------------------------------------------
(* The golden machine of a graph without flip-flops *)

StuckAt(f) == IF f.sa = 1 THEN {0} ELSE {}
Bit(b) == IF b THEN {0} ELSE {}

LEMMA InjectNone ==
  ASSUME NEW gr, Len(gr.nets) \in Nat, NEW n \in Nets(gr), NEW w PROVE InjectFaults(NoFaults(gr), n, w) = w
<1> DEFINE none == <<>>
           M == FaultMasks(gr, {}, none)
<1>0. NoFaults(gr) = M
  BY DEF NoFaults
<1> HIDE DEF none
<1>1. \A k \in Nets(gr) : M[k].z = StuckLanes({}, none, k, 0) /\ M[k].o = StuckLanes({}, none, k, 1)
  BY MaskBits
<1> HIDE DEF M
<1> QED BY <1>0, <1>1 DEF InjectFaults, StuckLanes

LEMMA OneMask ==
  ASSUME NEW gr, Len(gr.nets) \in Nat, NEW f
  PROVE  \A n \in Nets(gr) : /\ OneFault(gr, f)[n].z = IF f.net = n /\ f.sa = 0 THEN {0} ELSE {}
                             /\ OneFault(gr, f)[n].o = IF f.net = n /\ f.sa = 1 THEN {0} ELSE {}
<1> DEFINE one == [k \in {0} |-> f]
           M == FaultMasks(gr, {0}, one)
<1>0. one[0] = f /\ OneFault(gr, f) = M
  BY DEF OneFault
<1> HIDE DEF one
<1>1. \A n \in Nets(gr) : M[n].z = StuckLanes({0}, one, n, 0) /\ M[n].o = StuckLanes({0}, one, n, 1)
  BY MaskBits
<1> HIDE DEF M
<1>2. \A n : /\ StuckLanes({0}, one, n, 0) = IF f.net = n /\ f.sa = 0 THEN {0} ELSE {}
             /\ StuckLanes({0}, one, n, 1) = IF f.net = n /\ f.sa = 1 THEN {0} ELSE {}
  BY <1>0 DEF StuckLanes
<1> QED BY Zenon, <1>0, <1>1, <1>2

LEMMA InjectOne ==
  ASSUME NEW gr, Len(gr.nets) \in Nat, NEW n \in Nets(gr), NEW f, f.sa \in {0, 1}, NEW w \in SUBSET {0}
  PROVE  InjectFaults(OneFault(gr, f), n, w) = IF n = f.net THEN StuckAt(f) ELSE w
<1> DEFINE M == OneFault(gr, f)
<1>1. /\ M[n].z = IF f.net = n /\ f.sa = 0 THEN {0} ELSE {}
      /\ M[n].o = IF f.net = n /\ f.sa = 1 THEN {0} ELSE {}
  BY OneMask
<1> HIDE DEF M
<1>2. CASE n # f.net
  BY <1>1, <1>2 DEF InjectFaults, M
<1>3. CASE n = f.net /\ f.sa = 0
  <2>1. M[n].z = {0} /\ M[n].o = {} /\ StuckAt(f) = {}
    BY <1>1, <1>3 DEF StuckAt
  <2>2. (w \cup {}) \ {0} = {}
    OBVIOUS
  <2> QED BY <1>3, <2>1, <2>2 DEF InjectFaults, M
<1>4. CASE n = f.net /\ f.sa = 1
  <2>1. M[n].z = {} /\ M[n].o = {0} /\ StuckAt(f) = {0}
    BY <1>1, <1>4 DEF StuckAt
  <2>2. (w \cup {0}) \ {} = {0}
    OBVIOUS
  <2> QED BY <1>4, <2>1, <2>2 DEF InjectFaults, M
<1> QED BY <1>2, <1>3, <1>4

\* The nets of a graph without flip-flops, with the inputs and the faults of refs on them.
Settled(gr, V, inputs, refs) ==
  /\ V \in Words(gr, {0})
  /\ \A n \in gr.pis : V[n] = InjectFaults(refs, n, Bit(inputs[n]))
  /\ \A r \in 1..Len(gr.ranks) : \A n \in DOMAIN gr.ranks[r] : V[n] = InjectFaults(refs, n, GateWord(gr, V, {0}, r, n))

LEMMA GoldenSettles ==
  ASSUME NEW gr, Levelised(gr), Len(gr.ffs) = 0, NEW inputs, NEW refs \in Masks(gr, {0}), NEW m \in Machines(gr, {0})
  PROVE  Settled(gr, GoldenCycle(gr, m, inputs, refs).nv, inputs, refs)
<1> DEFINE drv == BitDriven(gr, m.nv, inputs, refs)
           ini == SeedFFOutputs(gr, drv, m.ff, refs)
           fst == EvaluateCombinational(gr, ini, refs, {0})
           U == Values([i \in 1..Len(gr.ffs) |-> GoldenUpdateFF(gr.ffs[i], fst, m.nv, m.ff[i])])
           sec == SeedFFOutputs(gr, fst, U, refs)
           V == EvaluateCombinational(gr, sec, refs, {0})
<1>0. GoldenCycle(gr, m, inputs, refs).nv = V
  BY DEF GoldenCycle, BitDriven
<1>1. /\ Len(gr.nets) \in Nat /\ Ordered(gr) /\ gr.pis \subseteq Nets(gr) /\ FlopSet(gr) = {}
      /\ \A n \in gr.pis : \A r \in 1..Len(gr.ranks) : n \notin DOMAIN gr.ranks[r]
  <2>1. Ordered(gr)
    BY LevelisedIsOrdered
  <2>2. gr.pis \subseteq Nets(gr) /\ Len(gr.nets) \in Nat
    BY DEF Levelised, Driven, Sources, Nets
  <2>3. \A n \in gr.pis : \A r \in 1..Len(gr.ranks) : n \notin DOMAIN gr.ranks[r]
    BY DEF Levelised, Driven, Sources
  <2> QED BY <2>1, <2>2, <2>3 DEF FlopSet
<1>2. m.nv \in Words(gr, {0}) /\ m.ff \in States(gr, {0})
  BY DEF Machines
<1>3. drv \in Words(gr, {0}) /\ \A n \in gr.pis : drv[n] = InjectFaults(refs, n, Bit(inputs[n]))
  <2> DEFINE B == BroadcastInputs(gr, m.nv, inputs, {0})
             fb == [n \in Nets(gr) |-> IF n \in gr.pis THEN InjectFaults(refs, n, B[n]) ELSE B[n]]
  <2>1. B \in Words(gr, {0}) /\ \A n \in gr.pis : B[n] = Bit(inputs[n])
    BY <1>1, <1>2, BroadcastIs DEF Bit
  <2> HIDE DEF B
  <2>2. DOMAIN B = Nets(gr) /\ \A n \in Nets(gr) : B[n] \in SUBSET {0}
    BY <2>1 DEF Words
  <2>3. \A n \in Nets(gr) : InjectFaults(refs, n, B[n]) \in SUBSET {0}
    BY <2>2, InjectInWord
  <2>4. fb \in [1..Len(gr.nets) -> SUBSET {0}]
    BY <2>2, <2>3 DEF Nets
  <2>5. drv = Values(fb)
    BY <2>2 DEF BitDriven, B
  <2>6. \A n \in gr.pis : fb[n] = InjectFaults(refs, n, B[n])
    BY <1>1
  <2> HIDE DEF fb
  <2>7. drv = fb
    BY ZenonT(30), <1>1, <2>4, <2>5, ValuesIs
  <2> QED BY <2>1, <2>4, <2>6, <2>7 DEF Words, Nets
<1> HIDE DEF drv
<1>4. ini \in Words(gr, {0}) /\ \A n \in Nets(gr) : ini[n] = drv[n]
  BY <1>1, <1>2, <1>3, SeedIs DEF IsQ
<1> HIDE DEF ini
<1>5. fst \in Words(gr, {0}) /\ \A n \in gr.pis : fst[n] = ini[n]
  BY <1>1, <1>4, SettledIs
<1> HIDE DEF fst
<1>6. U \in States(gr, {0})
  <2>1. [i \in 1..Len(gr.ffs) |-> GoldenUpdateFF(gr.ffs[i], fst, m.nv, m.ff[i])] \in [1..0 -> SUBSET {0}]
    OBVIOUS
  <2>2. U = [i \in 1..Len(gr.ffs) |-> GoldenUpdateFF(gr.ffs[i], fst, m.nv, m.ff[i])]
    <3> DEFINE W == [i \in 1..Len(gr.ffs) |-> GoldenUpdateFF(gr.ffs[i], fst, m.nv, m.ff[i])]
    <3>1. W \in [1..0 -> SUBSET {0}] /\ 0 \in Nat
      BY <2>1
    <3> HIDE DEF W
    <3>2. Values(W) = W
      BY Zenon, <3>1, ValuesIs
    <3> QED BY <3>2 DEF W, U
  <2> QED BY Zenon, <2>1, <2>2 DEF States, FlopSet
<1> HIDE DEF U
<1>7. sec \in Words(gr, {0}) /\ \A n \in Nets(gr) : sec[n] = fst[n]
  BY <1>1, <1>5, <1>6, SeedIs DEF IsQ
<1> HIDE DEF sec
<1>8. /\ V \in Words(gr, {0}) /\ \A n \in gr.pis : V[n] = sec[n]
      /\ \A r \in 1..Len(gr.ranks) : \A n \in DOMAIN gr.ranks[r] : V[n] = InjectFaults(refs, n, GateWord(gr, V, {0}, r, n))
  BY <1>1, <1>7, SettledIs
<1> HIDE DEF V
<1>9. \A n \in gr.pis : V[n] = InjectFaults(refs, n, Bit(inputs[n]))
  BY <1>1, <1>3, <1>4, <1>5, <1>7, <1>8
<1> QED BY <1>0, <1>8, <1>9 DEF Settled

\* A net of a graph without flip-flops is an input or driven in some rank.
LEMMA RankOf ==
  ASSUME NEW gr, Levelised(gr), Len(gr.ffs) = 0, NEW n \in Nets(gr)
  PROVE  n \in gr.pis \/ \E r \in 1..Len(gr.ranks) : n \in DOMAIN gr.ranks[r]
<1>1. n \in Driven(gr, Len(gr.ranks)) /\ 1..Len(gr.ffs) = {}
  BY DEF Levelised, Nets
<1> QED BY <1>1 DEF Driven, Sources

\* What differs somewhere differs first at an input, or at a gate all of whose inputs agree.
LEMMA FirstDifference ==
  ASSUME NEW gr, Levelised(gr), Len(gr.ffs) = 0, NEW Bad \in SUBSET Nets(gr), Bad # {}
  PROVE  \E n \in Bad : \/ n \in gr.pis
                        \/ \E r \in 1..Len(gr.ranks) : n \in DOMAIN gr.ranks[r] /\ Inputs(gr, r, n) \cap Bad = {}
<1> DEFINE R == Len(gr.ranks)
           T == {r \in 1..R : \E n \in Bad : n \in DOMAIN gr.ranks[r]}
<1>1. SUFFICES ASSUME Bad \cap gr.pis = {}
               PROVE  \E n \in Bad : \E r \in 1..R : n \in DOMAIN gr.ranks[r] /\ Inputs(gr, r, n) \cap Bad = {}
  OBVIOUS
<1>2. T # {}
  BY <1>1, RankOf
<1>3. PICK k \in T : \A j \in Nat : j < k => j \notin T
  <2>1. T \in SUBSET Nat
    BY DEF Levelised
  <2> HIDE DEF T
  <2> QED BY <1>2, <2>1, LeastFailure
<1>4. PICK n \in Bad : n \in DOMAIN gr.ranks[k]
  BY <1>3
<1>5. ASSUME NEW x \in Inputs(gr, k, n) PROVE x \notin Bad
  <2>1. k \in 1..R /\ R \in Nat
    BY <1>3 DEF Levelised
  <2>2. x \in Driven(gr, k - 1)
    BY <1>4, <1>5, <2>1 DEF Levelised, Inputs
  <2>3. x \in gr.pis \/ \E q \in 1..k - 1 : x \in DOMAIN gr.ranks[q]
    <3>1. 1..Len(gr.ffs) = {}
      OBVIOUS
    <3> QED BY <2>2, <3>1 DEF Driven, Sources
  <2>4. CASE x \in gr.pis
    BY <1>1, <2>4
  <2>5. ASSUME NEW q \in 1..k - 1, x \in DOMAIN gr.ranks[q] PROVE x \notin Bad
    <3>1. q \in Nat /\ q < k /\ q \in 1..R
      BY <2>1, <2>5
    <3>2. q \notin T
      BY <1>3, <3>1
    <3> QED BY <2>5, <3>1, <3>2
  <2> QED BY <2>3, <2>4, <2>5
<1> QED BY <1>3, <1>4, <1>5

\* The golden machine of a graph without flip-flops does not depend on what it held before.
LEMMA OneSettled ==
  ASSUME NEW gr, Levelised(gr), Len(gr.ffs) = 0, NEW inputs, NEW refs, NEW V, NEW U,
         Settled(gr, V, inputs, refs), Settled(gr, U, inputs, refs)
  PROVE  V = U
<1> DEFINE Bad == {n \in Nets(gr) : V[n] # U[n]}
<1>1. V \in Words(gr, {0}) /\ U \in Words(gr, {0})
  BY DEF Settled
<1>2. Bad = {}
  <2> SUFFICES ASSUME Bad # {} PROVE FALSE
    OBVIOUS
  <2>1. PICK n \in Bad : \/ n \in gr.pis
                         \/ \E r \in 1..Len(gr.ranks) : n \in DOMAIN gr.ranks[r] /\ Inputs(gr, r, n) \cap Bad = {}
    <3>1. Bad \in SUBSET Nets(gr)
      OBVIOUS
    <3> HIDE DEF Bad
    <3> QED BY <3>1, FirstDifference
  <2>2. CASE n \in gr.pis
    BY <2>1, <2>2 DEF Settled
  <2>3. ASSUME NEW r \in 1..Len(gr.ranks), n \in DOMAIN gr.ranks[r], Inputs(gr, r, n) \cap Bad = {} PROVE FALSE
    <3>1. Inputs(gr, r, n) \subseteq Nets(gr)
      BY <2>3, LevelisedIsOrdered DEF Ordered
    <3>2. GateWord(gr, V, {0}, r, n) = GateWord(gr, U, {0}, r, n)
      BY <2>3, <3>1, SameGate
    <3> QED BY <2>1, <2>3, <3>2 DEF Settled
  <2> QED BY <2>1, <2>2, <2>3
<1>3. \A n \in Nets(gr) : V[n] = U[n]
  BY <1>2
<1> QED BY <1>1, <1>3 DEF Words

-----------------------------------------------------------------------------
(* The solver's faulty machine *)

\* U is the faulty machine of f over the good one: stuck at the fault, recomputed in the rest
\* of the cone, good everywhere else.
ConeSettled(gr, cone, good, f, U) ==
  /\ U \in Words(gr, {0}) /\ U[f.net] = StuckAt(f)
  /\ \A n \in Nets(gr) : n # f.net /\ (n \notin cone \/ n \in gr.pis) => U[n] = good[n]
  /\ \A r \in 1..Len(gr.ranks) : \A n \in DOMAIN gr.ranks[r] :
       n \in cone \ {f.net} => U[n] = GateWord(gr, U, {0}, r, n)

LEMMA WithinIs ==
  ASSUME NEW gr, Len(gr.ranks) \in Nat, NEW S
  PROVE  /\ Within(gr, S).nets = gr.nets /\ Within(gr, S).fn = gr.fn
         /\ Len(Within(gr, S).ranks) = Len(gr.ranks)
         /\ \A r \in 1..Len(gr.ranks) : /\ DOMAIN Within(gr, S).ranks[r] = DOMAIN gr.ranks[r] \cap S
                                        /\ \A n \in DOMAIN gr.ranks[r] \cap S : Within(gr, S).ranks[r][n] = gr.ranks[r][n]
<1> DEFINE part(r) == Restrict(gr.ranks[r], DOMAIN gr.ranks[r] \cap S)
           P == [r \in 1..Len(gr.ranks) |-> part(r)]
           T == {part(r) : r \in 1..Len(gr.ranks)}
<1>1. \A r : DOMAIN part(r) = DOMAIN gr.ranks[r] \cap S /\ \A n \in DOMAIN gr.ranks[r] \cap S : part(r)[n] = gr.ranks[r][n]
  BY DEF Restrict
<1>2. Within(gr, S) = [nets |-> gr.nets, fn |-> gr.fn, ranks |-> Values(P)]
  BY DEF Within
<1> HIDE DEF part
<1>3. P \in [1..Len(gr.ranks) -> T] /\ P \in Seq(T) /\ \A r \in 1..Len(gr.ranks) : P[r] = part(r)
  OBVIOUS
<1>4. Len(P) = Len(gr.ranks)
  OBVIOUS
<1> HIDE DEF P, T
<1>5. Values(P) = P
  BY <1>3, ValuesIs
<1>6. /\ Within(gr, S).nets = gr.nets /\ Within(gr, S).fn = gr.fn /\ Within(gr, S).ranks = P
  BY <1>2, <1>5
<1> HIDE DEF part
<1> QED BY Zenon, <1>1, <1>3, <1>4, <1>6

LEMMA WithinGate ==
  ASSUME NEW gr, Len(gr.ranks) \in Nat, NEW S, NEW r \in 1..Len(gr.ranks), NEW n \in DOMAIN gr.ranks[r], n \in S, NEW V, NEW ones
  PROVE  /\ GateWord(Within(gr, S), V, ones, r, n) = GateWord(gr, V, ones, r, n)
         /\ Inputs(Within(gr, S), r, n) = Inputs(gr, r, n)
<1>1. Within(gr, S).fn = gr.fn /\ Within(gr, S).ranks[r][n] = gr.ranks[r][n]
  BY WithinIs
<1> QED BY <1>1 DEF GateWord, Inputs

LEMMA WithinIsOrdered == ASSUME NEW gr, Ordered(gr), NEW S PROVE Ordered(Within(gr, S)) /\ Nets(Within(gr, S)) = Nets(gr)
<1> DEFINE R == Len(gr.ranks)
           wr == Within(gr, S)
<1>0. R \in Nat /\ Len(gr.nets) \in Nat
  BY DEF Ordered
<1>1. /\ wr.nets = gr.nets /\ Len(wr.ranks) = R
      /\ \A r \in 1..R : DOMAIN wr.ranks[r] = DOMAIN gr.ranks[r] \cap S
  BY <1>0, WithinIs
<1>2. \A r \in 1..R : \A n \in DOMAIN wr.ranks[r] : Inputs(wr, r, n) = Inputs(gr, r, n)
  BY Zenon, <1>0, <1>1, WithinGate
<1> HIDE DEF wr
<1>3. Nets(wr) = Nets(gr)
  BY <1>1 DEF Nets
<1>4. ASSUME NEW r \in 1..R, NEW n \in DOMAIN wr.ranks[r]
      PROVE  /\ n \in Nets(gr) /\ Inputs(wr, r, n) \subseteq Nets(gr)
             /\ \A q \in r..R : Inputs(wr, r, n) \cap DOMAIN wr.ranks[q] = {}
             /\ \A q \in (r + 1)..R : n \notin DOMAIN wr.ranks[q]
  <2>1. n \in DOMAIN gr.ranks[r] /\ Inputs(wr, r, n) = Inputs(gr, r, n)
    BY <1>1, <1>2, <1>4
  <2>2. /\ n \in Nets(gr) /\ Inputs(gr, r, n) \subseteq Nets(gr)
        /\ \A q \in r..R : Inputs(gr, r, n) \cap DOMAIN gr.ranks[q] = {}
        /\ \A q \in (r + 1)..R : n \notin DOMAIN gr.ranks[q]
    BY <2>1 DEF Ordered
  <2>3. \A q \in r..R : q \in 1..R /\ \A q1 \in (r + 1)..R : q1 \in 1..R
    BY <1>0
  <2> QED BY <1>0, <1>1, <2>1, <2>2, <2>3
<1>5. Ordered(wr)
  BY <1>0, <1>1, <1>3, <1>4 DEF Ordered
<1> QED BY <1>3, <1>5 DEF wr

LEMMA FaultyMachineIs ==
  ASSUME NEW gr, Levelised(gr), NEW cone, NEW good \in Words(gr, {0}), NEW f, f.net \in Nets(gr)
  PROVE  ConeSettled(gr, cone, good, f, FaultyMachine(gr, cone, good, f))
<1> DEFINE S == cone \ {f.net}
           wr == Within(gr, S)
           stuck == [good EXCEPT ![f.net] = StuckAt(f)]
           U == EvaluateCombinational(wr, stuck, NoFaults(gr), {0})
           R == Len(gr.ranks)
<1>0. FaultyMachine(gr, cone, good, f) = U
  BY DEF FaultyMachine, StuckAt
<1>1. Ordered(gr) /\ R \in Nat /\ Len(gr.nets) \in Nat
  BY LevelisedIsOrdered DEF Ordered
<1>2. Ordered(wr) /\ Nets(wr) = Nets(gr) /\ Len(wr.ranks) = R
  BY <1>1, WithinIsOrdered, WithinIs
<1>3. /\ \A r \in 1..R : DOMAIN wr.ranks[r] = DOMAIN gr.ranks[r] \cap S
      /\ \A r \in 1..R : \A n \in DOMAIN gr.ranks[r] : n \in S => \A V : GateWord(wr, V, {0}, r, n) = GateWord(gr, V, {0}, r, n)
  BY <1>1, WithinIs, WithinGate
<1>4. NoFaults(gr) \in Masks(gr, {0})
  BY Zenon, <1>1, MasksAre DEF NoFaults
<1>5. stuck \in Words(gr, {0}) /\ stuck[f.net] = StuckAt(f) /\ \A n \in Nets(gr) : n # f.net => stuck[n] = good[n]
  BY DEF Words, StuckAt
<1> HIDE DEF stuck, wr
<1>6. /\ U \in Words(wr, {0})
      /\ \A r \in 1..R : \A n \in DOMAIN wr.ranks[r] : U[n] = InjectFaults(NoFaults(gr), n, GateWord(wr, U, {0}, r, n))
      /\ \A n \in Nets(gr) : (\A r \in 1..R : n \notin DOMAIN wr.ranks[r]) => U[n] = stuck[n]
  <2>1. stuck \in Words(wr, {0}) /\ NoFaults(gr) \in Masks(wr, {0})
    BY <1>2, <1>4, <1>5 DEF Words, Masks
  <2> QED BY <1>2, <2>1, SettledIs
<1> HIDE DEF U
<1>7. U \in Words(gr, {0})
  BY <1>2, <1>6 DEF Words
<1>8. U[f.net] = StuckAt(f)
  BY <1>3, <1>5, <1>6
<1>9. ASSUME NEW n \in Nets(gr), n # f.net, n \notin cone \/ n \in gr.pis PROVE U[n] = good[n]
  <2>1. \A r \in 1..R : n \notin DOMAIN wr.ranks[r]
    <3>1. CASE n \notin cone
      BY <1>3, <3>1
    <3>2. CASE n \in gr.pis
      BY <1>3, <3>2 DEF Levelised, Driven, Sources
    <3> QED BY <1>9, <3>1, <3>2
  <2> QED BY <1>5, <1>6, <1>9, <2>1
<1>10. ASSUME NEW r \in 1..R, NEW n \in DOMAIN gr.ranks[r], n \in S PROVE U[n] = GateWord(gr, U, {0}, r, n)
  <2>1. n \in DOMAIN wr.ranks[r] /\ n \in Nets(gr) /\ GateWord(wr, U, {0}, r, n) = GateWord(gr, U, {0}, r, n)
    BY <1>1, <1>3, <1>10 DEF Ordered
  <2>2. U[n] = InjectFaults(NoFaults(gr), n, GateWord(gr, U, {0}, r, n))
    BY <1>6, <2>1
  <2> QED BY <1>1, <2>1, <2>2, InjectNone
<1> QED BY <1>0, <1>7, <1>8, <1>9, <1>10 DEF ConeSettled

LEMMA BitInWord == \A b : Bit(b) \in SUBSET {0}
BY DEF Bit

LEMMA GateInWord == \A gr, V, r, n : GateWord(gr, V, {0}, r, n) \in SUBSET {0}
BY EvalInWord DEF GateWord

LEMMA GoodIs ==
  ASSUME NEW gr, Levelised(gr), NEW good, NEW inputs, Settled(gr, good, inputs, NoFaults(gr))
  PROVE  /\ good \in Words(gr, {0}) /\ \A n \in gr.pis : good[n] = Bit(inputs[n])
         /\ \A r \in 1..Len(gr.ranks) : \A n \in DOMAIN gr.ranks[r] : good[n] = GateWord(gr, good, {0}, r, n)
<1>1. /\ Len(gr.nets) \in Nat /\ gr.pis \subseteq Nets(gr)
      /\ \A r \in 1..Len(gr.ranks) : \A n \in DOMAIN gr.ranks[r] : n \in Nets(gr)
  BY LevelisedIsOrdered DEF Levelised, Driven, Sources, Nets, Ordered
<1> QED BY <1>1, InjectNone DEF Settled

LEMMA BadIs ==
  ASSUME NEW gr, Levelised(gr), Len(gr.ffs) = 0, NEW f, f.net \in Nets(gr), f.sa \in {0, 1},
         NEW bad, NEW inputs, Settled(gr, bad, inputs, OneFault(gr, f))
  PROVE  /\ bad \in Words(gr, {0}) /\ bad[f.net] = StuckAt(f)
         /\ \A n \in gr.pis : n # f.net => bad[n] = Bit(inputs[n])
         /\ \A r \in 1..Len(gr.ranks) : \A n \in DOMAIN gr.ranks[r] : n # f.net => bad[n] = GateWord(gr, bad, {0}, r, n)
<1>1. /\ Len(gr.nets) \in Nat /\ gr.pis \subseteq Nets(gr)
      /\ \A r \in 1..Len(gr.ranks) : \A n \in DOMAIN gr.ranks[r] : n \in Nets(gr)
  BY LevelisedIsOrdered DEF Levelised, Driven, Sources, Nets, Ordered
<1>2. bad \in Words(gr, {0})
  BY DEF Settled
<1>3. \A n \in gr.pis : bad[n] = IF n = f.net THEN StuckAt(f) ELSE Bit(inputs[n])
  BY <1>1, BitInWord, InjectOne DEF Settled
<1>4. ASSUME NEW r \in 1..Len(gr.ranks), NEW n \in DOMAIN gr.ranks[r]
      PROVE  bad[n] = IF n = f.net THEN StuckAt(f) ELSE GateWord(gr, bad, {0}, r, n)
  BY <1>1, GateInWord, InjectOne DEF Settled
<1>5. bad[f.net] = StuckAt(f)
  BY <1>3, <1>4, RankOf
<1> QED BY <1>2, <1>3, <1>4, <1>5

LEMMA FeedsInto ==
  ASSUME NEW gr, Levelised(gr), NEW r \in 1..Len(gr.ranks), NEW n \in DOMAIN gr.ranks[r], NEW x \in Inputs(gr, r, n)
  PROVE  n \in FanoutTargets(gr, x)
<1> DEFINE y == gr.ranks[r][n]
<1>1. y \in Nodes(gr)
  <2>1. y \in Range(gr.ranks[r])
    BY DEF Range
  <2> QED BY <2>1 DEF Nodes
<1>2. y.out = n
  BY DEF Levelised
<1>3. x \in Range(y.ins)
  BY DEF Inputs, Range
<1> QED BY <1>1, <1>2, <1>3 DEF FanoutTargets

\* Outside the cone of the fault nothing changes.
LEMMA OutsideCone ==
  ASSUME NEW gr, Levelised(gr), Len(gr.ffs) = 0, NEW f, f.net \in Nets(gr), f.sa \in {0, 1},
         NEW cone, f.net \in cone, \A x \in cone : FanoutTargets(gr, x) \subseteq cone,
         NEW inputs, NEW good, Settled(gr, good, inputs, NoFaults(gr)), NEW bad, Settled(gr, bad, inputs, OneFault(gr, f)),
         NEW n \in Nets(gr), n \notin cone
  PROVE  bad[n] = good[n]
<1> DEFINE Bad == {k \in Nets(gr) : k \notin cone /\ bad[k] # good[k]}
<1> SUFFICES ASSUME Bad # {} PROVE FALSE
  OBVIOUS
<1>1. PICK k \in Bad : \/ k \in gr.pis
                       \/ \E r \in 1..Len(gr.ranks) : k \in DOMAIN gr.ranks[r] /\ Inputs(gr, r, k) \cap Bad = {}
  <2>1. Bad \in SUBSET Nets(gr)
    OBVIOUS
  <2> HIDE DEF Bad
  <2> QED BY <2>1, FirstDifference
<1>2. k # f.net /\ k \notin cone /\ bad[k] # good[k]
  BY <1>1
<1>3. CASE k \in gr.pis
  BY <1>2, <1>3, GoodIs, BadIs
<1>4. ASSUME NEW r \in 1..Len(gr.ranks), k \in DOMAIN gr.ranks[r], Inputs(gr, r, k) \cap Bad = {} PROVE FALSE
  <2>1. Inputs(gr, r, k) \subseteq Nets(gr)
    BY <1>4, LevelisedIsOrdered DEF Ordered
  <2>2. \A x \in Inputs(gr, r, k) : x \notin cone
    BY <1>2, <1>4, FeedsInto
  <2>3. \A x \in Inputs(gr, r, k) : bad[x] = good[x]
    BY <1>4, <2>1, <2>2
  <2>4. GateWord(gr, bad, {0}, r, k) = GateWord(gr, good, {0}, r, k)
    BY <2>3, SameGate
  <2>5. bad[k] = GateWord(gr, bad, {0}, r, k) /\ good[k] = GateWord(gr, good, {0}, r, k)
    BY <1>2, <1>4, GoodIs, BadIs
  <2> QED BY <1>2, <2>4, <2>5
<1> QED BY <1>1, <1>3, <1>4

\* The solver's faulty machine is the golden machine with the fault.
LEMMA ConeIsEnough ==
  ASSUME NEW gr, Levelised(gr), Len(gr.ffs) = 0, NEW f, f.net \in Nets(gr), f.sa \in {0, 1},
         NEW cone, f.net \in cone, \A x \in cone : FanoutTargets(gr, x) \subseteq cone,
         NEW inputs, NEW good, Settled(gr, good, inputs, NoFaults(gr)), NEW bad, Settled(gr, bad, inputs, OneFault(gr, f)),
         NEW U, ConeSettled(gr, cone, good, f, U),
         NEW n \in Nets(gr)
  PROVE  bad[n] = U[n]
<1> DEFINE Bad == {k \in Nets(gr) : bad[k] # U[k]}
<1> SUFFICES ASSUME Bad # {} PROVE FALSE
  OBVIOUS
<1>1. PICK k \in Bad : \/ k \in gr.pis
                       \/ \E r \in 1..Len(gr.ranks) : k \in DOMAIN gr.ranks[r] /\ Inputs(gr, r, k) \cap Bad = {}
  <2>1. Bad \in SUBSET Nets(gr)
    OBVIOUS
  <2> HIDE DEF Bad
  <2> QED BY <2>1, FirstDifference
<1>2. k # f.net
  BY <1>1, BadIs DEF ConeSettled
<1>3. k \in cone
  <2> SUFFICES ASSUME k \notin cone PROVE FALSE
    OBVIOUS
  <2>1. bad[k] = good[k]
    BY <1>1, OutsideCone
  <2> QED BY <1>1, <1>2, <2>1 DEF ConeSettled
<1>4. CASE k \in gr.pis
  <2>1. bad[k] = Bit(inputs[k]) /\ good[k] = Bit(inputs[k])
    BY <1>2, <1>4, GoodIs, BadIs
  <2> QED BY <1>1, <1>2, <1>4, <2>1 DEF ConeSettled
<1>5. ASSUME NEW r \in 1..Len(gr.ranks), k \in DOMAIN gr.ranks[r], Inputs(gr, r, k) \cap Bad = {} PROVE FALSE
  <2>1. Inputs(gr, r, k) \subseteq Nets(gr)
    BY <1>5, LevelisedIsOrdered DEF Ordered
  <2>2. \A x \in Inputs(gr, r, k) : bad[x] = U[x]
    BY <1>5, <2>1
  <2>3. GateWord(gr, bad, {0}, r, k) = GateWord(gr, U, {0}, r, k)
    BY <2>2, SameGate
  <2>4. bad[k] = GateWord(gr, bad, {0}, r, k)
    BY <1>2, <1>5, BadIs
  <2>5. U[k] = GateWord(gr, U, {0}, r, k)
    BY <1>2, <1>3, <1>5 DEF ConeSettled
  <2> QED BY <1>1, <2>3, <2>4, <2>5
<1> QED BY <1>1, <1>4, <1>5

\* An effect that is observed crosses the cut of every region around the fault.
LEMMA CutCatches ==
  ASSUME NEW gr, Levelised(gr), Len(gr.ffs) = 0, NEW f, NEW cone,
         NEW inputs, NEW good, Settled(gr, good, inputs, NoFaults(gr)), NEW U, ConeSettled(gr, cone, good, f, U),
         NEW region, f.net \in region,
         NEW o \in gr.obs, o \in Nets(gr), U[o] # good[o]
  PROVE  \E n \in region : /\ n \in gr.obs \/ FanoutTargets(gr, n) \ region # {}
                           /\ U[n] # good[n]
<1> DEFINE Bad == {k \in Nets(gr) : k \notin region /\ U[k] # good[k]}
<1> SUFFICES ASSUME \A n \in region : n \in gr.obs \/ FanoutTargets(gr, n) \ region # {} => U[n] = good[n]
             PROVE  FALSE
  OBVIOUS
<1>0. Bad # {}
  OBVIOUS
<1>1. PICK k \in Bad : \/ k \in gr.pis
                       \/ \E r \in 1..Len(gr.ranks) : k \in DOMAIN gr.ranks[r] /\ Inputs(gr, r, k) \cap Bad = {}
  <2>1. Bad \in SUBSET Nets(gr)
    OBVIOUS
  <2> HIDE DEF Bad
  <2> QED BY <1>0, <2>1, FirstDifference
<1>2. k # f.net /\ k \notin region /\ U[k] # good[k] /\ k \in Nets(gr)
  BY <1>1
<1>3. k \in cone /\ k \notin gr.pis
  BY <1>2 DEF ConeSettled
<1>5. ASSUME NEW r \in 1..Len(gr.ranks), k \in DOMAIN gr.ranks[r], Inputs(gr, r, k) \cap Bad = {} PROVE FALSE
  <2>1. Inputs(gr, r, k) \subseteq Nets(gr)
    BY <1>5, LevelisedIsOrdered DEF Ordered
  <2>2. ASSUME NEW x \in Inputs(gr, r, k) PROVE U[x] = good[x]
    <3>1. k \in FanoutTargets(gr, x)
      BY <1>5, <2>2, FeedsInto
    <3> QED BY <1>2, <1>5, <2>1, <2>2, <3>1
  <2>3. GateWord(gr, good, {0}, r, k) = GateWord(gr, U, {0}, r, k)
    BY <2>2, SameGate
  <2>4. good[k] = GateWord(gr, good, {0}, r, k)
    BY <1>5, GoodIs
  <2>5. U[k] = GateWord(gr, U, {0}, r, k)
    BY <1>2, <1>3, <1>5 DEF ConeSettled
  <2> QED BY <1>2, <2>3, <2>4, <2>5
<1> QED BY <1>1, <1>3, <1>5

\* A vector that puts the stuck value on the net excites nothing.
LEMMA NotExcited ==
  ASSUME NEW gr, Levelised(gr), Len(gr.ffs) = 0, NEW f, f.net \in Nets(gr), f.sa \in {0, 1},
         NEW inputs, NEW good, Settled(gr, good, inputs, NoFaults(gr)), NEW bad, Settled(gr, bad, inputs, OneFault(gr, f)),
         good[f.net] = StuckAt(f)
  PROVE  bad = good
<1>1. /\ Len(gr.nets) \in Nat /\ gr.pis \subseteq Nets(gr)
      /\ \A r \in 1..Len(gr.ranks) : \A n \in DOMAIN gr.ranks[r] : n \in Nets(gr)
  BY LevelisedIsOrdered DEF Levelised, Driven, Sources, Nets, Ordered
<1>2. \A n \in gr.pis : good[n] = InjectFaults(OneFault(gr, f), n, Bit(inputs[n]))
  BY <1>1, BitInWord, InjectOne, GoodIs
<1>3. ASSUME NEW r \in 1..Len(gr.ranks), NEW n \in DOMAIN gr.ranks[r]
      PROVE  good[n] = InjectFaults(OneFault(gr, f), n, GateWord(gr, good, {0}, r, n))
  BY <1>1, GateInWord, InjectOne, GoodIs
<1>4. Settled(gr, good, inputs, OneFault(gr, f))
  BY <1>2, <1>3, GoodIs DEF Settled
<1> QED BY <1>4, OneSettled

LEMMA ResponsesSettle ==
  ASSUME NEW gr, Levelised(gr), Len(gr.ffs) = 0, NEW vec, NEW f
  PROVE  /\ Settled(gr, FaultFree(gr, vec), vec, NoFaults(gr))
         /\ Settled(gr, FaultyResponse(gr, vec, f), vec, OneFault(gr, f))
<1>1. Len(gr.nets) \in Nat
  BY DEF Levelised
<1>2. NoFaults(gr) \in Masks(gr, {0})
  BY Zenon, <1>1, MasksAre DEF NoFaults
<1>3. OneFault(gr, f) \in Masks(gr, {0})
  BY Zenon, <1>1, MasksAre DEF OneFault
<1>4. PowerUp(gr) \in Machines(gr, {0})
  BY PowerUpIs
<1> QED BY <1>2, <1>3, <1>4, GoldenSettles DEF FaultFree, FaultyResponse

\* Before the capture of a transition the machine may hold anything.
LEMMA CaptureIsFresh ==
  ASSUME NEW gr, Levelised(gr), Len(gr.ffs) = 0, NEW launch, NEW capture, NEW f
  PROVE  /\ CaptureResponse(gr, launch, capture, NoFaults(gr)) = FaultFree(gr, capture)
         /\ CaptureResponse(gr, launch, capture, OneFault(gr, f)) = FaultyResponse(gr, capture, f)
<1>1. Len(gr.nets) \in Nat
  BY DEF Levelised
<1>2. NoFaults(gr) \in Masks(gr, {0}) /\ SameMasks(gr, NoFaults(gr), 0, NoFaults(gr))
  BY Zenon, <1>1, MasksAre, NoFaultsLane DEF NoFaults
<1>3. OneFault(gr, f) \in Masks(gr, {0})
  BY Zenon, <1>1, MasksAre DEF OneFault
<1>4. Launched(gr, launch) \in Machines(gr, {0})
  <2>1. PowerUp(gr) \in Machines(gr, {0}) /\ SameLane(gr, PowerUp(gr), 0, PowerUp(gr)) /\ 0 \in {0}
    BY PowerUpIs
  <2> QED BY <1>2, <2>1, CycleIsGolden DEF Launched
<1>5. /\ Settled(gr, CaptureResponse(gr, launch, capture, NoFaults(gr)), capture, NoFaults(gr))
      /\ Settled(gr, CaptureResponse(gr, launch, capture, OneFault(gr, f)), capture, OneFault(gr, f))
  BY <1>2, <1>3, <1>4, GoldenSettles DEF CaptureResponse
<1> QED BY <1>5, ResponsesSettle, OneSettled

\* What the solver asks of a vector at the observed nets is what the simulator reports.
LEMMA DifferencesAreSeen ==
  ASSUME NEW gr, Levelised(gr), Len(gr.ffs) = 0, gr.obs \subseteq Nets(gr), NEW f, f.net \in Nets(gr), f.sa \in {0, 1},
         NEW cone, f.net \in cone, \A x \in cone : FanoutTargets(gr, x) \subseteq cone, NEW vec
  PROVE  Differences(gr, cone, FaultFree(gr, vec), f) \cap gr.obs # {}
           <=> \E o \in gr.obs : FaultyResponse(gr, vec, f)[o] # FaultFree(gr, vec)[o]
<1> DEFINE good == FaultFree(gr, vec)
           bad == FaultyResponse(gr, vec, f)
           U == FaultyMachine(gr, cone, good, f)
<1>1. Settled(gr, good, vec, NoFaults(gr)) /\ Settled(gr, bad, vec, OneFault(gr, f))
  BY ResponsesSettle
<1>2. Differences(gr, cone, good, f) = {n \in cone : U[n] # good[n]}
  BY DEF Differences
<1>3. ConeSettled(gr, cone, good, f, U)
  BY <1>1, FaultyMachineIs DEF Settled
<1> HIDE DEF good, bad, U
<1>4. \A n \in Nets(gr) : bad[n] = U[n]
  BY <1>1, <1>3, ConeIsEnough
<1>5. \A n \in Nets(gr) : n \notin cone => bad[n] = good[n]
  BY <1>1, OutsideCone
<1>6. Differences(gr, cone, good, f) \cap gr.obs # {} <=> \E o \in gr.obs : bad[o] # good[o]
  BY <1>2, <1>4, <1>5
<1> QED BY <1>6 DEF good, bad

\* The cut of the fast untestability proof misses nothing.
LEMMA CutIsEnough ==
  ASSUME NEW gr, Levelised(gr), Len(gr.ffs) = 0, gr.obs \subseteq Nets(gr), NEW f, f.net \in Nets(gr),
         NEW order \in Seq(Nets(gr)), order # <<>>, order[1] = f.net, NEW budget \in Nat, FupApplies(order, budget),
         NEW vec, Differences(gr, Range(order), FaultFree(gr, vec), f) \cap gr.obs # {}
  PROVE  Differences(gr, Range(order), FaultFree(gr, vec), f) \cap FupCut(gr, order, budget) # {}
<1> DEFINE good == FaultFree(gr, vec)
           cone == Range(order)
           U == FaultyMachine(gr, cone, good, f)
           region == FupRegion(order, budget)
<1>1. Settled(gr, good, vec, NoFaults(gr))
  BY ResponsesSettle
<1>2. Differences(gr, cone, good, f) = {n \in cone : U[n] # good[n]}
  BY DEF Differences
<1>3. ConeSettled(gr, cone, good, f, U)
  BY <1>1, FaultyMachineIs DEF Settled
<1>4. f.net \in region /\ region \subseteq cone
  <2>1. budget > 0 /\ Len(order) > budget
    BY DEF FupApplies
  <2>2. /\ SubSeq(order, 1, budget) \in Seq(Nets(gr)) /\ DOMAIN SubSeq(order, 1, budget) = 1..budget
        /\ \A i \in 1..budget : SubSeq(order, 1, budget)[i] = order[i]
    BY <2>1
  <2>3. 1 \in 1..budget /\ \A i \in 1..budget : i \in DOMAIN order
    BY <2>1
  <2> QED BY ZenonT(30), <2>2, <2>3 DEF FupRegion, Range
<1>5. FupCut(gr, order, budget) = {n \in region : n \in gr.obs \/ FanoutTargets(gr, n) \ region # {}}
  BY DEF FupCut
<1> HIDE DEF good, cone, U, region
<1>6. PICK o \in gr.obs : o \in Nets(gr) /\ U[o] # good[o]
  BY <1>2 DEF good, cone
<1>7. PICK n \in region : (n \in gr.obs \/ FanoutTargets(gr, n) \ region # {}) /\ U[n] # good[n]
  BY <1>1, <1>3, <1>4, <1>6, CutCatches
<1>8. n \in Differences(gr, cone, good, f) /\ n \in FupCut(gr, order, budget)
  BY <1>2, <1>4, <1>5, <1>7
<1> QED BY <1>8 DEF good, cone

\* An observed effect starts from the opposite value at the fault.
LEMMA SeenIsExcited ==
  ASSUME NEW gr, Levelised(gr), Len(gr.ffs) = 0, NEW f, f.net \in Nets(gr), f.sa \in {0, 1}, NEW vec,
         NEW o, FaultyResponse(gr, vec, f)[o] # FaultFree(gr, vec)[o]
  PROVE  0 \in FaultFree(gr, vec)[f.net] <=> f.sa = 0
<1>1. Settled(gr, FaultFree(gr, vec), vec, NoFaults(gr)) /\ Settled(gr, FaultyResponse(gr, vec, f), vec, OneFault(gr, f))
  BY ResponsesSettle
<1>2. FaultFree(gr, vec)[f.net] # StuckAt(f)
  BY <1>1, NotExcited
<1>3. FaultFree(gr, vec)[f.net] \in SUBSET {0} /\ StuckAt(f) \in SUBSET {0}
  BY <1>1 DEF Settled, Words, StuckAt
<1>4. ~(0 \in FaultFree(gr, vec)[f.net] <=> 0 \in StuckAt(f))
  BY <1>2, <1>3, BitsDiffer
<1> QED BY <1>4 DEF StuckAt
==============================================================================
