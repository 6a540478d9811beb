------------------------------- MODULE Netlist -------------------------------
(***************************************************************************)
(* The compiled netlist every engine of the core runs on: gate functions,   *)
(* levels, the split of a fanout stem into one site per reading pin, the    *)
(* stuck-at faults of those sites and their collapsing.                     *)
(*                                                                          *)
(* A netlist is [pis, obs, nodes]: primary-input nets, observed nets, and a *)
(* sequence of cells [inst, type, ins, out], ins being the sequence of      *)
(* <<pin, net>> in the cell's input order.  A flip-flop is a cell of type   *)
(* "DFF" with a field ctl ("none", "reset" or "set") and the pins D, CK,    *)
(* SDI, SE and, for the last two, the active-low control.  Nets and         *)
(* instances are tuples: of the design <<name>>, added by the scan view     *)
(* <<role, flop>>; the branch of a stem into one pin is                     *)
(* <<stem, instance, pin>>.                                                 *)
(***************************************************************************)
EXTENDS Integers, Sequences, FiniteSets, FiniteSetsExt

(* A set in some order: SetToSeq, in a form that does not enumerate functions. *)
Listed(S) ==
  LET of[T \in SUBSET S] == IF T = {} THEN <<>>
                            ELSE LET x == CHOOSE x \in T : TRUE IN <<x>> \o of[T \ {x}]
  IN  of[S]

(***************************************************************************)
(* A gate function is a sum of products of signed inputs, or its inverse:   *)
(* SumOf({{1,-3},{2,3}}) is (in1 and not in3) or (in2 and in3).  A product *)
(* of sums is the inverse of the sum of the inverted products.              *)
(***************************************************************************)
SumOf(terms) == [terms |-> terms, inv |-> FALSE]
Not(fn) == [fn EXCEPT !.inv = ~@]
ProductOf(sums) == Not(SumOf({{-k : k \in t} : t \in sums}))

And(S) == SumOf({S})
Or(S) == SumOf({{k} : k \in S})
Xor2 == SumOf({{1, -2}, {-1, 2}})
Xor3 == SumOf({{1, -2, -3}, {-1, 2, -3}, {-1, -2, 3}, {1, 2, 3}})

GateFunction ==
  [ CONST0 |-> SumOf({}), CONST1 |-> Not(SumOf({})), INV |-> Not(And({1})),
    BUF |-> And({1}), INPUT |-> And({1}), WBR_IN |-> And({1}), WBR_OUT |-> And({1}),
    AND2 |-> And({1, 2}), AND3 |-> And(1..3), AND4 |-> And(1..4),
    AND2B |-> And({1, -2}), AND3B |-> And({-1, 2, 3}), AND4B |-> And({-1, 2, 3, 4}),
    AND4BB |-> And({-1, -2, 3, 4}),
    NAND2 |-> Not(And({1, 2})), NAND3 |-> Not(And(1..3)), NAND4 |-> Not(And(1..4)),
    NAND2B |-> Or({1, -2}), NAND3B |-> Or({1, -2, -3}), NAND4B |-> Or({1, -2, -3, -4}),
    NAND4BB |-> Or({1, 2, -3, -4}),
    OR2 |-> Or({1, 2}), OR3 |-> Or(1..3), OR4 |-> Or(1..4),
    OR2B |-> Or({1, -2}), OR3B |-> Or({1, 2, -3}), OR4B |-> Or({1, 2, 3, -4}),
    OR4BB |-> Or({1, 2, -3, -4}),
    NOR2 |-> Not(Or({1, 2})), NOR3 |-> Not(Or(1..3)), NOR4 |-> Not(Or(1..4)),
    NOR2B |-> And({-1, 2}), NOR3B |-> And({-1, -2, 3}), NOR4B |-> And({-1, -2, -3, 4}),
    NOR4BB |-> And({-1, -2, 3, 4}),
    XOR2 |-> Xor2, XOR3 |-> Xor3, XNOR2 |-> Not(Xor2), XNOR3 |-> Not(Xor3),
    ADDF_S |-> Xor3, ADDF_CO |-> SumOf({{1, 2}, {2, 3}, {1, 3}}),
    ADDH_S |-> Xor2, ADDH_CO |-> And({1, 2}),
    MUX2 |-> Not(SumOf({{3, 1}, {-3, 2}})), MUX2_NI |-> SumOf({{-3, 1}, {3, 2}}),
    MUX2I |-> Not(SumOf({{-3, 1}, {3, 2}})),
    MUX4 |-> SumOf({{-5, -6, 1}, {5, -6, 2}, {-5, 6, 3}, {5, 6, 4}}),
    AOI21 |-> Not(SumOf({{1, 2}, {3}})), AOI22 |-> Not(SumOf({{1, 2}, {3, 4}})),
    OAI21 |-> Not(ProductOf({{1, 2}, {3}})), OAI22 |-> Not(ProductOf({{1, 2}, {3, 4}})),
    A21O |-> SumOf({{1, 2}, {3}}), A21OI |-> Not(SumOf({{1, 2}, {3}})),
    A21BO |-> SumOf({{1, 2}, {-3}}), A21BOI |-> Not(SumOf({{1, 2}, {-3}})),
    A22O |-> SumOf({{1, 2}, {3, 4}}), A22OI |-> Not(SumOf({{1, 2}, {3, 4}})),
    A211O |-> SumOf({{1, 2}, {3}, {4}}), A211OI |-> Not(SumOf({{1, 2}, {3}, {4}})),
    A2111O |-> SumOf({{1, 2}, {3}, {4}, {5}}), A2111OI |-> Not(SumOf({{1, 2}, {3}, {4}, {5}})),
    A221O |-> SumOf({{1, 2}, {3, 4}, {5}}), A221OI |-> Not(SumOf({{1, 2}, {3, 4}, {5}})),
    A222OI |-> Not(SumOf({{1, 2}, {3, 4}, {5, 6}})),
    A2BB2O |-> SumOf({{-1, -2}, {3, 4}}), A2BB2OI |-> ProductOf({{1, 2}, {-3, -4}}),
    A31O |-> SumOf({1..3, {4}}), A31OI |-> Not(SumOf({1..3, {4}})),
    A311O |-> SumOf({1..3, {4}, {5}}), A311OI |-> Not(SumOf({1..3, {4}, {5}})),
    A32O |-> SumOf({1..3, {4, 5}}), A32OI |-> Not(SumOf({1..3, {4, 5}})),
    A41O |-> SumOf({1..4, {5}}), A41OI |-> Not(SumOf({1..4, {5}})),
    O21A |-> ProductOf({{1, 2}, {3}}), O21AI |-> Not(ProductOf({{1, 2}, {3}})),
    O21BA |-> ProductOf({{1, 2}, {-3}}), O21BAI |-> Not(ProductOf({{1, 2}, {-3}})),
    O22A |-> ProductOf({{1, 2}, {3, 4}}), O22AI |-> Not(ProductOf({{1, 2}, {3, 4}})),
    O211A |-> ProductOf({{1, 2}, {3}, {4}}), O211AI |-> Not(ProductOf({{1, 2}, {3}, {4}})),
    O2111A |-> ProductOf({{1, 2}, {3}, {4}, {5}}),
    O2111AI |-> Not(ProductOf({{1, 2}, {3}, {4}, {5}})),
    O221A |-> ProductOf({{1, 2}, {3, 4}, {5}}), O221AI |-> Not(ProductOf({{1, 2}, {3, 4}, {5}})),
    O2BB2A |-> ProductOf({{-1, -2}, {3, 4}}), O2BB2AI |-> SumOf({{1, 2}, {-3, -4}}),
    O31A |-> ProductOf({1..3, {4}}), O31AI |-> Not(ProductOf({1..3, {4}})),
    O311A |-> ProductOf({1..3, {4}, {5}}), O311AI |-> Not(ProductOf({1..3, {4}, {5}})),
    O32A |-> ProductOf({1..3, {4, 5}}), O32AI |-> Not(ProductOf({1..3, {4, 5}})),
    O41A |-> ProductOf({1..4, {5}}), O41AI |-> Not(ProductOf({1..4, {5}})) ]

(* The same function or sequence, evaluated once: TLC keeps the value, not the expression. *)
Table(f) == IF f = <<>> THEN <<>> ELSE f
Values(s) == <<>> \o s

(***************************************************************************)
(* The input slot each pin of a cell is wired to: <<gate types, the pin     *)
(* names of slot 1, 2, ...>>.  The slot follows from the name of a pin, not *)
(* from its place in the cell library; a pin with no slot is left out, and  *)
(* a slot beyond the wired ones reads 0.  No cell has two pins of one slot. *)
(***************************************************************************)
PrimitivePins ==
  { <<{"INV", "BUF"}, <<{"A"}>>>>,
    <<{"WBR_IN"}, <<{"FROM_SYS"}, {"CTO"}>>>>, <<{"WBR_OUT"}, <<{"FROM_CORE"}, {"CTO"}>>>>,
    <<{"AND2", "AND2B", "OR2", "NAND2", "NOR2", "XOR2", "XNOR2", "NAND2B", "NOR2B"},
      <<{"A", "A_N"}, {"B", "B_N", "SLEEP"}>>>>,
    <<{"AND3", "OR3", "XOR3", "XNOR3", "NAND3B", "NOR3B", "OR3B"},
      <<{"A", "A_N"}, {"B"}, {"C", "C_N"}>>>>,
    <<{"AND4", "OR4", "NAND4", "NOR4", "NAND4B", "NOR4B", "OR4B"},
      <<{"A", "A_N"}, {"B"}, {"C"}, {"D", "D_N"}>>>>,
    <<{"NAND3", "NOR3", "AOI21", "OAI21", "ADDF_S", "ADDF_CO"}, <<{"A"}, {"B"}, {"C"}>>>>,
    <<{"AOI22", "OAI22"}, <<{"A"}, {"B"}, {"C"}, {"D"}>>>>,
    <<{"MUX2"}, <<{"A"}, {"B"}, {"S"}>>>>, <<{"MUX2_NI", "MUX2I"}, <<{"A0"}, {"A1"}, {"S"}>>>>,
    <<{"ADDH_S", "ADDH_CO"}, <<{"A"}, {"B"}>>>> }

CompoundPins ==
  { <<{"A21O", "A21OI", "A21BO", "A21BOI", "O21A", "O21AI", "O21BA", "O21BAI"},
      <<{"A1"}, {"A2"}, {"B1", "B1_N"}>>>>,
    <<{"A22O", "A22OI", "O22A", "O22AI"}, <<{"A1"}, {"A2"}, {"B1"}, {"B2"}>>>>,
    <<{"A211O", "A211OI", "O211A", "O211AI"}, <<{"A1"}, {"A2"}, {"B1"}, {"C1"}>>>>,
    <<{"A2111O", "A2111OI", "O2111A", "O2111AI"}, <<{"A1"}, {"A2"}, {"B1"}, {"C1"}, {"D1"}>>>>,
    <<{"A221O", "A221OI", "O221A", "O221AI"}, <<{"A1"}, {"A2"}, {"B1"}, {"B2"}, {"C1"}>>>>,
    <<{"A31O", "A31OI", "O31A", "O31AI"}, <<{"A1"}, {"A2"}, {"A3"}, {"B1"}>>>>,
    <<{"A32O", "A32OI", "O32A", "O32AI"}, <<{"A1"}, {"A2"}, {"A3"}, {"B1"}, {"B2"}>>>>,
    <<{"A41O", "A41OI", "O41A", "O41AI"}, <<{"A1"}, {"A2"}, {"A3"}, {"A4"}, {"B1"}>>>>,
    <<{"A311O", "A311OI", "O311A", "O311AI"}, <<{"A1"}, {"A2"}, {"A3"}, {"B1"}, {"C1"}>>>>,
    <<{"A222OI"}, <<{"A1"}, {"A2"}, {"B1"}, {"B2"}, {"C1"}, {"C2"}>>>>,
    <<{"A2BB2O", "A2BB2OI", "O2BB2A", "O2BB2AI"}, <<{"A1_N"}, {"A2_N"}, {"B1"}, {"B2"}>>>>,
    <<{"AND3B"}, <<{"A_N"}, {"B"}, {"C"}>>>>, <<{"AND4B"}, <<{"A_N"}, {"B"}, {"C"}, {"D"}>>>>,
    <<{"NOR4BB", "OR4BB"}, <<{"A"}, {"B"}, {"C_N"}, {"D_N"}>>>>,
    <<{"NAND4BB", "AND4BB"}, <<{"A_N"}, {"B_N"}, {"C"}, {"D"}>>>>,
    <<{"OR2B"}, <<{"A"}, {"B_N"}>>>>,
    <<{"MUX4"}, <<{"A0"}, {"A1"}, {"A2"}, {"A3"}, {"S0"}, {"S1"}>>>> }

Slots(type) == (CHOOSE g \in PrimitivePins \cup CompoundPins : type \in g[1])[2]

(* The sequences one after the other. *)
Joined(seqs) ==
  LET upto[k \in 0..Len(seqs)] == IF k = 0 THEN <<>> ELSE upto[k - 1] \o seqs[k] IN upto[Len(seqs)]

(* pins: a set of <<pin, net>> *)
WireInputs(type, pins) ==
  Joined([k \in 1..Len(Slots(type)) |-> Listed({p \in pins : p[1] \in Slots(type)[k]})])

(* A machine word is the set of lanes whose bit is 1; ones is ~0. *)
Pick(ins, k, l) == k \in DOMAIN ins /\ l \in ins[k]
Literal(ins, k, l) == (k > 0) = Pick(ins, IF k > 0 THEN k ELSE -k, l)

EvalFunction(fn, ins, ones) ==
  LET sum == UNION {{l \in ones : \A k \in t : Literal(ins, k, l)} : t \in fn.terms}
  IN  IF fn.inv THEN ones \ sum ELSE sum

EvalGate(type, ins, ones) == EvalFunction(GateFunction[type], ins, ones)

(***************************************************************************)
(* Levels: inputs, constants and flip-flops are at level 0, every other     *)
(* cell one above the highest cell driving it.                              *)
(***************************************************************************)
IsFF(cell) == cell.type = "DFF"

Drivers(nl, cell) == {i \in 1..Len(nl.nodes) :
                        \E k \in 1..Len(cell.ins) : cell.ins[k][2] = nl.nodes[i].out}

MaxLevel(S) == IF S = {} THEN 0 ELSE Max(S)

IsFed(nl, cell) == \E k \in 1..Len(cell.ins) :
  cell.ins[k][2] \in nl.pis \cup {nl.nodes[j].out : j \in 1..Len(nl.nodes)}

CellLevel(nl, i) ==
  LET level[k \in 1..Len(nl.nodes)] ==
        LET cell == nl.nodes[k]
        IN  IF IsFF(cell) \/ ~IsFed(nl, cell) THEN 0
            ELSE 1 + MaxLevel({level[j] : j \in Drivers(nl, cell)})
  IN  level[i]

(***************************************************************************)
(* A net read by more than one cell pin becomes a stem with one BUF, and so *)
(* one fault site, per (instance, pin); a net wired to two pins of one      *)
(* instance takes the first of them.  The BUF sits one level below its      *)
(* reader, at level 0 for a flip-flop's pin, behind the cells of its level. *)
(***************************************************************************)
Edges(nl, net) == {e \in (1..Len(nl.nodes)) \X (1..6) :
                     e[2] <= Len(nl.nodes[e[1]].ins) /\ nl.nodes[e[1]].ins[e[2]][2] = net}

BranchPin(cell, net) ==
  LET k == CHOOSE k \in 1..Len(cell.ins) :
             /\ cell.ins[k][2] = net
             /\ \A j \in 1..Len(cell.ins) : cell.ins[j][2] = net => k <= j
  IN  cell.ins[k][1]

Branch(cell, net) == <<net, cell.inst, BranchPin(cell, net)>>

Branches(nl) ==
  UNION {{[stem |-> net, site |-> Branch(nl.nodes[e[1]], net), reader |-> e[1]] :
            e \in Edges(nl, net)} :
         net \in {n \in UNION {{c.ins[k][2] : k \in 1..Len(c.ins)} :
                                 c \in {nl.nodes[i] : i \in 1..Len(nl.nodes)}} :
                    Cardinality(Edges(nl, n)) > 1}}

BranchBuf(nl, b) ==
  [inst |-> <<>>, type |-> "BUF", ins |-> <<<<"A", b.stem>>>>, out |-> b.site,
   level |-> IF CellLevel(nl, b.reader) = 0 THEN 0 ELSE CellLevel(nl, b.reader) - 1]

Rewired(nl, i) ==
  LET cell == nl.nodes[i]
  IN  [cell EXCEPT !.ins = [k \in 1..Len(cell.ins) |->
         IF Cardinality(Edges(nl, cell.ins[k][2])) > 1
         THEN <<cell.ins[k][1], Branch(cell, cell.ins[k][2])>> ELSE cell.ins[k]]]

(***************************************************************************)
(* The compiled graph: nets are numbered by their place in nets; the gates  *)
(* are in ranks evaluated one after the other, the cells of a level and     *)
(* then the branches of that level, a rank mapping the nets it drives to    *)
(* their gates; ffs are the flip-flops; fn gives the functions of the gate  *)
(* types in use.                                                            *)
(***************************************************************************)
Rank(nl, r) ==
  LET level == (r - 1) \div 2
  IN  IF r % 2 = 1
      THEN {Rewired(nl, i) : i \in {j \in 1..Len(nl.nodes) :
                                      ~IsFF(nl.nodes[j]) /\ CellLevel(nl, j) = level}}
      ELSE {c \in {BranchBuf(nl, b) : b \in Branches(nl)} : c.level = level}

AllNets(nl) == nl.pis \cup {nl.nodes[i].out : i \in 1..Len(nl.nodes)}
                 \cup {b.site : b \in Branches(nl)} \cup nl.obs

Compile(nl) ==
  LET nets  == Listed(AllNets(nl))
      id(n) == CHOOSE k \in 1..Len(nets) : nets[k] = n
      top   == MaxLevel({CellLevel(nl, i) : i \in 1..Len(nl.nodes)})
      node(c) == [inst |-> c.inst, type |-> c.type, out |-> id(c.out),
                  ins |-> Values([k \in 1..Len(c.ins) |-> id(c.ins[k][2])]),
                  ctl |-> IF IsFF(c) THEN c.ctl ELSE "none"]
      rank(r) == {node(c) : c \in Rank(nl, r)}
      flops == {i \in 1..Len(nl.nodes) : IsFF(nl.nodes[i])}
  IN  [nets |-> nets, id |-> Table([n \in Range(nets) |-> id(n)]),
       pis |-> {id(n) : n \in nl.pis}, obs |-> {id(n) : n \in nl.obs},
       ranks |-> Values([r \in 1..(2 * top + 2) |->
                   Table([o \in {x.out : x \in rank(r)} |-> CHOOSE x \in rank(r) : x.out = o])]),
       ffs |-> Listed({node(Rewired(nl, i)) : i \in flops}),
       fn |-> Table([t \in {"BUF"} \cup {nl.nodes[i].type : i \in (1..Len(nl.nodes)) \ flops} |->
                       GateFunction[t]])]

Nodes(g) == UNION {Range(g.ranks[r]) : r \in 1..Len(g.ranks)} \cup Range(g.ffs)

(* The fanout lists the collapser and the cones walk: one entry per pin. *)
Fanout(g, n) == {e \in Nodes(g) \X (1..6) : e[2] <= Len(e[1].ins) /\ e[1].ins[e[2]] = n}
FanoutTargets(g, n) == {x.out : x \in {y \in Nodes(g) : n \in Range(y.ins)}}

(***************************************************************************)
(* Stuck-at faults [net, sa] of every compiled net whose design net is not  *)
(* excluded, and their collapsing: a fault on a fanout-free input of a gate *)
(* goes into the equivalent fault of the gate's output, or of the first     *)
(* input of its class.                                                      *)
(***************************************************************************)
Stem(net) == IF Len(net) = 3 THEN net[1] ELSE net

EnumerateFaults(g, excluded) ==
  {[net |-> n, sa |-> v] : n \in {k \in 1..Len(g.nets) : Stem(g.nets[k]) \notin excluded},
                           v \in {0, 1}}

(* input polarity |-> equivalent output polarity *)
EquivRule ==
  LET and  == {<<0, 0>>}
      or   == {<<1, 1>>}
      nand == {<<0, 1>>}
      nor  == {<<1, 0>>}
  IN  [ INV |-> {<<0, 1>>, <<1, 0>>}, BUF |-> {<<0, 0>>, <<1, 1>>},
        AND2 |-> and, AND3 |-> and, AND4 |-> and, OR2 |-> or, OR3 |-> or, OR4 |-> or,
        NAND2 |-> nand, NAND3 |-> nand, NAND4 |-> nand, NOR2 |-> nor, NOR3 |-> nor, NOR4 |-> nor ]

(* Classes of <<input (0 for the output), polarity>>, the representative first. *)
CompoundClasses ==
  LET pair(i, j, v) == <<<<i, v>>, <<j, v>>>>
  IN  [ A21OI |-> {pair(1, 2, 0), <<<<0, 0>>, <<3, 1>>>>},
        O21AI |-> {pair(1, 2, 1), <<<<0, 1>>, <<3, 0>>>>},
        A21O  |-> {pair(1, 2, 0), <<<<0, 1>>, <<3, 1>>>>},
        O21A  |-> {pair(1, 2, 1), <<<<0, 0>>, <<3, 0>>>>},
        A22OI |-> {pair(1, 2, 0), pair(3, 4, 0)}, A22O |-> {pair(1, 2, 0), pair(3, 4, 0)},
        O22AI |-> {pair(1, 2, 1), pair(3, 4, 1)}, O22A |-> {pair(1, 2, 1), pair(3, 4, 1)} ]

(***************************************************************************)
(* The rules are equivalences of the gate functions: the members of a class *)
(* turn a gate into the same function of its inputs.  What each rule says   *)
(* of a gate is a fact about the two tables, evaluated with every run.      *)
(***************************************************************************)
Arity(type) == Max(UNION {{IF k < 0 THEN -k ELSE k : k \in t} : t \in GateFunction[type].terms})

StuckFunction(type, m) ==
  [a \in [1..Arity(type) -> {{}, {0}}] |->
     LET stuck == IF m[2] = 1 THEN {0} ELSE {}
     IN  IF m[1] = 0 THEN stuck
         ELSE EvalGate(type, [k \in 1..Arity(type) |-> IF k = m[1] THEN stuck ELSE a[k]], {0})]

ASSUME RulesAreEquivalences ==
  /\ \A type \in DOMAIN EquivRule : \A k \in 1..Arity(type), r \in EquivRule[type] :
       StuckFunction(type, <<k, r[1]>>) = StuckFunction(type, <<0, r[2]>>)
  /\ \A type \in DOMAIN CompoundClasses : \A c \in CompoundClasses[type] :
       \A j \in 1..Len(c) : StuckFunction(type, c[j]) = StuckFunction(type, c[1])

(* Every gate function reads slots that some pin is wired to, and no type is  *)
(* listed twice.                                                              *)
ASSUME FunctionsReadWiredSlots ==
  \A type \in DOMAIN GateFunction \ {"CONST0", "CONST1", "INPUT"} :
    /\ Cardinality({g \in PrimitivePins \cup CompoundPins : type \in g[1]}) = 1
    /\ Arity(type) <= Len(Slots(type))

\* Mutant: a stem collapses into each of its branches.
PrimitivePairsAnyFanout(g) ==
  UNION {{<<[net |-> x.ins[k], sa |-> r[1]], [net |-> x.out, sa |-> r[2]]>> :
            k \in 1..Len(x.ins), r \in EquivRule[x.type]} :
         x \in {y \in Nodes(g) : y.type \in DOMAIN EquivRule}}

PrimitivePairs(g) ==
  UNION {{<<[net |-> x.ins[k], sa |-> r[1]], [net |-> x.out, sa |-> r[2]]>> :
            k \in {j \in 1..Len(x.ins) : Cardinality(Fanout(g, x.ins[j])) = 1},
            r \in EquivRule[x.type]} :
         x \in {y \in Nodes(g) : y.type \in DOMAIN EquivRule}}

CompoundPairs(g) ==
  LET site(x, m) == [net |-> IF m[1] = 0 THEN x.out ELSE x.ins[m[1]], sa |-> m[2]]
      free(x, c) == \A m \in Range(c) :
                      m[1] # 0 => Cardinality(Fanout(g, x.ins[m[1]])) = 1
  IN  UNION {UNION {{<<site(x, c[j]), site(x, c[1])>> : j \in 2..Len(c)} :
                      c \in {d \in CompoundClasses[x.type] : free(x, d)}} :
             x \in {y \in Nodes(g) : y.type \in DOMAIN CompoundClasses}}

(* <<fault, collapsed_into>>, neither of them excluded *)
CollapsePrimitiveFaults(g, faults) ==
  {p \in PrimitivePairs(g) \cup CompoundPairs(g) : p[1] \in faults /\ p[2] \in faults}
==============================================================================
