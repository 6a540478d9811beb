----------------------------- MODULE YosysModule -----------------------------
(***************************************************************************)
(* The top module of a Yosys JSON netlist as the Python passes rewrite it,  *)
(* and what its cells do under a clock.                                     *)
(*                                                                          *)
(* A module is [ports, cells]: ports is the sequence of [name, dir, net] in *)
(* file order, cells maps an instance to [type, pins, bit], pins mapping a  *)
(* connected pin to its net and bit being the wrapper position of a         *)
(* boundary cell (-1 elsewhere).  Nets are the file's numbers; the literals *)
(* "0" and "1" are the nets -1 and -2 the core gives them.  Every port has  *)
(* one bit.  Names and instances are tuples: <<"u", k>> for the k-th cell   *)
(* in name order, <<"wi", port>> and the like for the cells a pass adds.    *)
(***************************************************************************)
EXTENDS Integers, Sequences, FiniteSets, SequencesExt, FiniteSetsExt

Zero == -1
One == -2
Open == -3
Concrete(net) == net >= 0

Cell(type, pins) == [type |-> type, pins |-> pins, bit |-> -1]
Port(name, dir, net) == [name |-> name, dir |-> dir, net |-> net]

Conn(cell, pin) == IF pin \in DOMAIN cell.pins THEN cell.pins[pin] ELSE Open
PortNames(m) == {m.ports[i].name : i \in 1..Len(m.ports)}
PortNets(m, dir) == {m.ports[i].net : i \in {j \in 1..Len(m.ports) : m.ports[j].dir = dir}}
PortOf(m, name) == m.ports[CHOOSE i \in 1..Len(m.ports) : m.ports[i].name = name]

CellNets(m) == UNION {Range(m.cells[i].pins) : i \in DOMAIN m.cells}
Nets(m) == {n \in CellNets(m) \cup {m.ports[i].net : i \in 1..Len(m.ports)} : Concrete(n)}
NextNetId(m) == 1 + Max({-1} \cup Nets(m))

CONSTANTS GateInputs, GateOutput, \* the cell map: a gate's input pins and its output pin
          FFMeta                  \* and what its ff entry says of a flip-flop

(***************************************************************************)
(* The cells.  A gate has one output; a boundary cell passes its functional *)
(* input through.                                                           *)
(***************************************************************************)
GateValue(type, ins) ==
  CASE type = "inv" -> ~ins[1]
    [] type = "and" -> ins[1] /\ ins[2]
    [] type = "or"  -> ins[1] \/ ins[2]
    [] type = "xor" -> ins[1] # ins[2]
    [] OTHER        -> ins[1]

WrapperInTypes == {"wbc_in", "wbc_in_scan"}
WrapperOutTypes == {"wbc_out", "wbc_out_scan"}
WrapperScanTypes == {"wbc_in_scan", "wbc_out_scan"}
ScanCellTypes == {"scanff", "scanff_r", "scanff_s"}

IsGate(c) == c.type \in DOMAIN GateOutput
IsFF(c) == c.type \in DOMAIN FFMeta
StateInstances(m) == {i \in DOMAIN m.cells : IsFF(m.cells[i])}

(***************************************************************************)
(* The value of every net: inputs and flip-flop outputs are given by src,   *)
(* gates follow, a net nobody drives is 0.                                  *)
(***************************************************************************)
Drivers(m, n) == {i \in DOMAIN m.cells :
                    IsGate(m.cells[i]) /\ Conn(m.cells[i], GateOutput[m.cells[i].type]) = n}

RECURSIVE NetValue(_, _, _)
NetValue(m, src, n) ==
  IF n \in DOMAIN src THEN src[n]
  ELSE IF ~Concrete(n) \/ Drivers(m, n) = {} THEN n = One
  ELSE LET c == m.cells[CHOOSE i \in Drivers(m, n) : TRUE]
           pins == GateInputs[c.type]
       IN  GateValue(c.type, [k \in 1..Len(pins) |-> NetValue(m, src, Conn(c, pins[k]))])

OutputNet(c) == Conn(c, FFMeta[c.type].output)
Sources(m, state, inputs) ==
  [n \in DOMAIN inputs \cup {OutputNet(m.cells[i]) : i \in StateInstances(m)} |->
     IF \E i \in StateInstances(m) : OutputNet(m.cells[i]) = n
     THEN state[CHOOSE i \in StateInstances(m) : OutputNet(m.cells[i]) = n] ELSE inputs[n]]

Settle(m, state, inputs) ==
  LET src == Sources(m, state, inputs) @@ <<>>
  IN  [n \in Nets(m) \cup {Zero, One, Open} |-> NetValue(m, src, n)] @@ <<>>

(* One flip-flop: an asserted scan enable turns the controls off and wins over the enable. *)
NextState(c, q, val, prev) ==
  LET meta == FFMeta[c.type]
      v(pin) == val[Conn(c, pin)]
      scanning == meta.se # "" /\ v(meta.se)
      clear == ~scanning /\ meta.clear # "" /\ ~v(meta.clear)
      preset == ~scanning /\ meta.preset # "" /\ ~v(meta.preset)
      edge == IF meta.trigger = "POSEDGE" THEN v(meta.clock) /\ ~prev[Conn(c, meta.clock)]
              ELSE ~v(meta.clock) /\ prev[Conn(c, meta.clock)]
  IN  IF clear THEN FALSE
      ELSE IF preset THEN TRUE
      ELSE IF ~edge THEN q
      ELSE IF scanning THEN v(meta.si)
      ELSE IF meta.enable # "" /\ v(meta.enable) # (meta.level = "HIGH") THEN q
      ELSE v(meta.data)

UpdateStates(m, state, val, prev) ==
  [i \in StateInstances(m) |-> NextState(m.cells[i], state[i], val, prev)] @@ <<>>

(***************************************************************************)
(* One clock pulse, the two cycles of a sequence: inputs with the clocks    *)
(* low, then high.  The pulse gives the new state and the settled nets.     *)
(***************************************************************************)
Clocked(inputs, clocks, level) == [n \in DOMAIN inputs |-> IF n \in clocks THEN level ELSE inputs[n]]

Shown(m, state, inputs) == [state |-> state, nets |-> Settle(m, state, inputs)]
Rise(m, state, low, high) ==
  Shown(m, UpdateStates(m, state, Settle(m, state, high), Settle(m, state, low)), high)
Idle(m, state, val) == UpdateStates(m, state, val, val)

Pulse(m, state, inputs, clocks) ==
  LET low == Clocked(inputs, clocks, FALSE)
  IN  Rise(m, Idle(m, state, Settle(m, state, low)), low, Clocked(inputs, clocks, TRUE))

ZeroState(m) == [i \in StateInstances(m) |-> FALSE]
States(m) == [StateInstances(m) -> BOOLEAN]
==============================================================================
