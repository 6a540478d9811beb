-------------------------------- MODULE Wrapper --------------------------------
(***************************************************************************)
(* The IEEE 1500 wrapper of a block: boundary cells put on its ports, and   *)
(* the combinational views in which the boundary, not the ports, is driven  *)
(* and observed: the block's inside (INTEST) or what surrounds it (EXTEST). *)
(***************************************************************************)
EXTENDS DomainReach

ClockPort == <<"CLK">>
WbrPorts == {WbrSe, WbrSi, WbrSo}
WrapIn(name)  == <<"wi", name>>
WrapOut(name) == <<"wo", name>>

(* A pass over the ports: [m, next, prev, pos] is the module so far, the next free   *)
(* net, the chain net the next cell is loaded from and its position.                 *)
EnsurePort(w, name) ==
  IF name \in PortNames(w.m) THEN w
  ELSE [w EXCEPT !.m.ports = Append(@, Port(name, "input", w.next)), !.next = @ + 1]

Rewired(m, original, from, to) ==
  [m EXCEPT !.cells = [i \in DOMAIN m.cells |->
     IF i \notin original THEN m.cells[i]
     ELSE [m.cells[i] EXCEPT !.pins = [p \in DOMAIN m.cells[i].pins |->
             IF m.cells[i].pins[p] = from THEN to ELSE m.cells[i].pins[p]]]]]

AddCell(m, inst, c) == [m EXCEPT !.cells = @ @@ (inst :> c)]
BoundaryCell(w, type, pins, cto) ==
  IF type \in WrapperScanTypes
  THEN [type |-> type, bit |-> w.pos,
        pins |-> pins @@ [CLK |-> PortOf(w.m, ClockPort).net, CTI |-> w.prev,
                          SE |-> PortOf(w.m, WbrSe).net, CTO |-> cto]]
  ELSE Cell(type, pins)
Chained(w, scan, cto) == IF scan THEN [w EXCEPT !.prev = cto, !.pos = @ + 1, !.next = cto + 1]
                         ELSE [w EXCEPT !.next = cto]

(* The wrapper goes into the path of an input: every original reader moves to the core net. *)
WrapInput(w, original, p, scan) ==
  LET core == w.next
      c == BoundaryCell(w, IF scan THEN "wbc_in_scan" ELSE "wbc_in",
                        [FROM_SYS |-> p.net, TO_CORE |-> core], core + 1)
  IN  Chained([w EXCEPT !.m = AddCell(Rewired(w.m, original, p.net, core), WrapIn(p.name), c)],
              scan, core + 1)

(* The port moves to a new net behind the wrapper; a constant output is not wrapped. *)
WrapOutput(w, p, scan) ==
  LET sys == w.next
      k   == CHOOSE j \in 1..Len(w.m.ports) : w.m.ports[j].name = p.name
      c   == BoundaryCell(w, IF scan THEN "wbc_out_scan" ELSE "wbc_out",
                          [FROM_CORE |-> p.net, TO_SYS |-> sys], sys + 1)
  IN  IF ~Concrete(p.net) THEN w
      ELSE Chained([w EXCEPT !.m = AddCell([w.m EXCEPT !.ports[k].net = sys], WrapOut(p.name), c)],
                   scan, sys + 1)

RECURSIVE WrapEach(_, _, _, _, _)
WrapEach(w, original, ports, targets, scan) ==
  IF ports = <<>> THEN w
  ELSE LET p == Head(ports)
           v == CASE p.name = ClockPort \/ (scan /\ p.name \in WbrPorts) \/ p.name \notin targets -> w
                  [] p.dir = "input" -> WrapInput(w, original, p, scan)
                  [] OTHER -> WrapOutput(w, p, scan)
       IN  WrapEach(v, original, Tail(ports), targets, scan)

(* The scan model ends the chain at its scan-out port; without a cell it is an error. *)
WrapPorts(m, targets, scan) ==
  LET w0 == [m |-> m, next |-> NextNetId(m), prev |-> Open, pos |-> 0]
      w1 == IF scan THEN EnsurePort(EnsurePort(EnsurePort(w0, ClockPort), WbrSe), WbrSi) ELSE w0
      w2 == IF scan THEN [w1 EXCEPT !.prev = PortOf(w1.m, WbrSi).net] ELSE w1
      w  == WrapEach(w2, DOMAIN m.cells, w2.m.ports, targets, scan)
  IN  [why |-> IF scan /\ w.pos = 0 THEN "no_wrapper_cells" ELSE "",
       m |-> IF scan THEN [w.m EXCEPT !.ports = Append(@, Port(WbrSo, "output", w.prev))] ELSE w.m]

(***************************************************************************)
(* The scan-reduced view the boundary is fused into: every flop of a chain  *)
(* is replaced by an input on its Q and an observed copy of its D, and the  *)
(* scan and clock ports are gone.  (How a flop's branches and controls are  *)
(* kept apart in the view is the subject of ScanView.)                      *)
(***************************************************************************)
Ppi(i) == <<"ppi", i>>
Ppo(i) == <<"ppo", i>>
Position(S, x) == Cardinality({y \in S : y < x})

WithoutPorts(m, nets) == [m EXCEPT !.ports = SelectSeq(@, LAMBDA p : p.net \notin nets)]
WithPorts(m, ports) == [m EXCEPT !.ports = @ \o ports]
WithCells(m, gone, new) == [m EXCEPT !.cells = [i \in DOMAIN m.cells \ gone |-> m.cells[i]] @@ new]
ObserveBuf(from, to) == Cell("buf", [A |-> from, Y |-> to])

(* The ports a manifest names: those of its chains, for a chip without any of its wrapper *)
(* chain.  One that nothing reads any more is dropped, like the clock's.                  *)
ListedChains(man) == IF man.chains = <<>> THEN man.wrapper_chains ELSE man.chains
IsScanIn(p, man) == p.name = man.scan_enable \/ p.net \in man.clock_nets
                    \/ \E c \in 1..Len(ListedChains(man)) : p.name = ListedChains(man)[c].scan_in
IsScanOut(p, man) == \E c \in 1..Len(ListedChains(man)) : p.name = ListedChains(man)[c].scan_out
DropDanglingScanPorts(m, man, ffs) ==
  [m EXCEPT !.ports = SelectSeq(@, LAMBDA p :
     \/ ~(IsScanIn(p, man) \/ IsScanOut(p, man))
     \/ p.net \in CellNets(WithCells(m, ffs, <<>>)) /\ (IsScanOut(p, man) => man.chains = <<>>))]

ScanReducedView(json, man) ==
  LET ffs    == Ascending({i[2] : i \in ManifestFFs(man)})
      cell(k) == json.cells[CHOOSE i \in ManifestFFs(man) : i[2] = ffs[k]]
      base   == NextNetId(json)
  IN  WithPorts(WithCells(DropDanglingScanPorts(json, man, ManifestFFs(man)), ManifestFFs(man),
                          [i \in {<<"observe", ffs[k]>> : k \in 1..Len(ffs)} |->
                             LET k == CHOOSE k \in 1..Len(ffs) : ffs[k] = i[2]
                             IN  ObserveBuf(Conn(cell(k), "D"), base + k)]),
                [k \in 1..Len(ffs) |-> Port(Ppi(ffs[k]), "input", Conn(cell(k), "Q"))]
                \o [k \in 1..Len(ffs) |-> Port(Ppo(ffs[k]), "output", base + k)])

(***************************************************************************)
(* Fusing the boundary.  A boundary cell on a constant has no record.       *)
(***************************************************************************)
IsInputCell(c) == c.type \in WrapperInTypes
CoreNet(c) == IF IsInputCell(c) THEN Conn(c, "TO_CORE") ELSE Conn(c, "FROM_CORE")
SysNet(c)  == IF IsInputCell(c) THEN Conn(c, "FROM_SYS") ELSE Conn(c, "TO_SYS")
BoundaryCells(m) == CellsOf(m, WrapperInTypes \cup WrapperOutTypes)
ExtractWbrCells(m) == {i \in BoundaryCells(m) : Concrete(CoreNet(m.cells[i]))}
InputCells(m)  == {i \in ExtractWbrCells(m) : IsInputCell(m.cells[i])}
OutputCells(m) == ExtractWbrCells(m) \ InputCells(m)

WbrChainNets(c) == IF c.type \in WrapperScanTypes
                   THEN {n \in {Conn(c, "CTI"), Conn(c, "SE"), Conn(c, "CTO")} : Concrete(n)} ELSE {}

(* The new net observing a boundary cell, numbered by its system net. *)
ObserveNet(m, cells, i) == NextNetId(m) + Position({SysNet(m.cells[j]) : j \in cells}, SysNet(m.cells[i]))
InOrder(m, cells) ==
  LET nets == Ascending({SysNet(m.cells[i]) : i \in cells})
  IN  [k \in 1..Len(nets) |-> CHOOSE i \in cells : SysNet(m.cells[i]) = nets[k]]

Wbi(i) == <<"wbi", i>>
Wbo(i) == <<"wbo", i>>

\* Mutant: the observation taps the system side of an output cell.
FuseIntestSysSide(m) ==
  LET ins   == InOrder(m, InputCells(m))
      outs  == InOrder(m, OutputCells(m))
      gone  == {i \in BoundaryCells(m) : IsInputCell(m.cells[i]) => i \in InputCells(m)}
      drop  == UNION {WbrChainNets(m.cells[i]) \cup {SysNet(m.cells[i])} : i \in gone}
  IN  WithoutPorts(
        WithPorts(WithCells(m, gone, [b \in {<<"wbobserve", i>> : i \in OutputCells(m)} |->
                                        ObserveBuf(SysNet(m.cells[b[2]]), ObserveNet(m, OutputCells(m), b[2]))]),
                  [k \in 1..Len(ins) |-> Port(Wbi(ins[k]), "input", CoreNet(m.cells[ins[k]]))]
                  \o [k \in 1..Len(outs) |-> Port(Wbo(outs[k]), "output", ObserveNet(m, OutputCells(m), outs[k]))]),
        drop)

(* Inside: core inputs are driven, core outputs observed, the system side is dropped. *)
FuseIntest(m) ==
  LET ins   == InOrder(m, InputCells(m))
      outs  == InOrder(m, OutputCells(m))
      gone  == {i \in BoundaryCells(m) : IsInputCell(m.cells[i]) => i \in InputCells(m)}
      drop  == UNION {WbrChainNets(m.cells[i]) \cup {SysNet(m.cells[i])} : i \in gone}
  IN  WithoutPorts(
        WithPorts(WithCells(m, gone, [b \in {<<"wbobserve", i>> : i \in OutputCells(m)} |->
                                        ObserveBuf(CoreNet(m.cells[b[2]]), ObserveNet(m, OutputCells(m), b[2]))]),
                  [k \in 1..Len(ins) |-> Port(Wbi(ins[k]), "input", CoreNet(m.cells[ins[k]]))]
                  \o [k \in 1..Len(outs) |-> Port(Wbo(outs[k]), "output", ObserveNet(m, OutputCells(m), outs[k]))]),
        drop)

(* Outside: an input cell observes its system net and leaves the core at 0, an output *)
(* cell's system net is driven; flops are no longer observed, top ports stay.          *)
RECURSIVE Listing(_)
Listing(S) == IF S = {} THEN <<>> ELSE LET x == CHOOSE x \in S : TRUE IN <<x>> \o Listing(S \ {x})

DropPpoPortsAndObservers(m) ==
  LET isPpo(p) == p.dir = "output" /\ p.name[1] = "ppo"
      nets == {m.ports[k].net : k \in {j \in 1..Len(m.ports) : isPpo(m.ports[j])}}
  IN  WithCells([m EXCEPT !.ports = SelectSeq(@, LAMBDA p : ~isPpo(p))],
                {i \in DOMAIN m.cells : Conn(m.cells[i], "Y") \in nets}, <<>>)

\* Mutant: the observation taps the core side of an input cell.
FusedCoreSide(m, ins, outs, base, gone) ==
  WithPorts(WithCells(m, gone,
                      [b \in {<<"wbobserve", ins[k]>> : k \in 1..Len(ins)} |->
                         ObserveBuf(CoreNet(m.cells[b[2]]), base + CHOOSE k \in 1..Len(ins) : ins[k] = b[2])]
                      @@ [b \in {<<"wbsafe0", ins[k]>> : k \in 1..Len(ins)} |->
                            ObserveBuf(Zero, CoreNet(m.cells[b[2]]))]),
            [k \in 1..Len(ins) |-> Port(Wbi(ins[k]), "output", base + k)]
            \o [k \in 1..Len(outs) |-> Port(Wbo(outs[k]), "input", SysNet(m.cells[outs[k]]))])

Fused(m, ins, outs, base, gone) ==
  WithPorts(WithCells(m, gone,
                      [b \in {<<"wbobserve", ins[k]>> : k \in 1..Len(ins)} |->
                         ObserveBuf(SysNet(m.cells[b[2]]), base + CHOOSE k \in 1..Len(ins) : ins[k] = b[2])]
                      @@ [b \in {<<"wbsafe0", ins[k]>> : k \in 1..Len(ins)} |->
                            ObserveBuf(Zero, CoreNet(m.cells[b[2]]))]),
            [k \in 1..Len(ins) |-> Port(Wbi(ins[k]), "output", base + k)]
            \o [k \in 1..Len(outs) |-> Port(Wbo(outs[k]), "input", SysNet(m.cells[outs[k]]))])

FuseExtest(m) ==
  WithoutPorts(DropPpoPortsAndObservers(
                 Fused(m, Listing(InputCells(m)), Listing(OutputCells(m)), NextNetId(m), ExtractWbrCells(m))),
               UNION {WbrChainNets(m.cells[i]) : i \in ExtractWbrCells(m)})

(* The generic netlist's port for each fused port: the one on the cell's system net. *)
GenericName(json, i) ==
  json.ports[CHOOSE k \in 1..Len(json.ports) : json.ports[k].net = SysNet(json.cells[i])].name
ProtocolPorts(json, man) ==
  ScanPortNames(man) \cup {json.ports[k].name : k \in {j \in 1..Len(json.ports) : json.ports[j].net \in man.clock_nets}}

BuildWbrGenericNameMap(json, man) ==
  LET driven == {i \in InputCells(json) : GenericName(json, i) \notin ProtocolPorts(json, man)}
  IN  [stimulus |-> [p \in {Wbi(i) : i \in driven} |-> GenericName(json, p[2])],
       observe |-> [p \in {Wbo(i) : i \in OutputCells(json)} |-> GenericName(json, p[2])],
       decoupled |-> {SysNet(json.cells[i]) : i \in ExtractWbrCells(json)}]

(***************************************************************************)
(* What a chain promises.                                                   *)
(***************************************************************************)
Inputs(m) == [PortNets(m, "input") -> BOOLEAN]

(* One pulse of all clocks with the enable held moves a chain on by one cell. *)
Shifts(json, chain, se, clocks) ==
  \A st \in States(json) : \A inputs \in Inputs(json) :
    inputs[se] /\ (\A n \in clocks \cap DOMAIN inputs : ~inputs[n]) =>
      LET cells == chain.cells
          low   == Settle(json, st, inputs)
          next  == Pulse(json, st, inputs, clocks).state
      IN  /\ next[cells[1]] = inputs[PortOf(json, chain.scan_in).net]
          /\ \A p \in 2..Len(cells) : next[cells[p]] = st[cells[p - 1]]
          /\ low[PortOf(json, chain.scan_out).net] = st[Last(cells)]
================================================================================
