------------------------------ MODULE ScanChecks ------------------------------
(***************************************************************************)
(* What `check_scan` looks at before it lets a scan netlist be simulated:   *)
(* the chains re-derived from the netlist's wiring, and the netlist's       *)
(* behaviour outside scan mode against the netlist it was made from.        *)
(***************************************************************************)
EXTENDS ScanStitch

ChainIn(c)  == IF c.type \in WrapperScanTypes THEN "CTI" ELSE "SDI"
ChainOut(c) == IF c.type \in WrapperScanTypes THEN "CTO" ELSE "Q"
CellsOf(m, types) == {i \in DOMAIN m.cells : m.cells[i].type \in types}
InNet(m, i)  == Conn(m.cells[i], ChainIn(m.cells[i]))
OutNet(m, i) == Conn(m.cells[i], ChainOut(m.cells[i]))
SeNet(m, i)  == Conn(m.cells[i], "SE")
HasPort(m, name, dir) == \E k \in 1..Len(m.ports) : m.ports[k].name = name /\ m.ports[k].dir = dir

(* Every chain pin is one net, and no two cells are loaded from the same one. *)
CollectedCleanly(m, cells) ==
  /\ \A i \in cells : \A pin \in {ChainIn(m.cells[i]), ChainOut(m.cells[i]), "SE", "CLK"} :
       Concrete(Conn(m.cells[i], pin))
  /\ \A i, j \in cells : InNet(m, i) = InNet(m, j) => i = j

(* The cells met from a net on; the walk stops at a cell it has met. *)
RECURSIVE Derived(_, _, _, _)
Derived(m, cells, net, met) ==
  LET next == {i \in cells : InNet(m, i) = net}
  IN  IF next = {} THEN [cells |-> met, last |-> net, cycle |-> FALSE]
      ELSE LET i == CHOOSE i \in next : TRUE
           IN  IF i \in Range(met) THEN [cells |-> met, last |-> net, cycle |-> TRUE]
               ELSE Derived(m, cells, OutNet(m, i), Append(met, i))

\* Mutant: where the chain ends is not compared with the scan-out port.
ValidChainAnyEnd(m, cells, chain) ==
  /\ HasPort(m, chain.scan_in, "input") /\ HasPort(m, chain.scan_out, "output")
  /\ LET walk == Derived(m, cells, PortOf(m, chain.scan_in).net, <<>>)
     IN  ~walk.cycle /\ walk.cells = chain.cells

ValidChain(m, cells, chain) ==
  /\ HasPort(m, chain.scan_in, "input") /\ HasPort(m, chain.scan_out, "output")
  /\ LET walk == Derived(m, cells, PortOf(m, chain.scan_in).net, <<>>)
     IN  ~walk.cycle /\ walk.last = PortOf(m, chain.scan_out).net /\ walk.cells = chain.cells

(* Every chain as listed, every cell of the kind in exactly one of them. *)
ValidChains(m, cells, chains) ==
  /\ \A c \in 1..Len(chains) : ValidChain(m, cells, chains[c])
  /\ \A b, c \in 1..Len(chains) : b # c => Range(chains[b].cells) \cap Range(chains[c].cells) = {}
  /\ UNION {Range(chains[c].cells) : c \in 1..Len(chains)} = cells

CheckScanStructure(man, json) ==
  LET ffs   == CellsOf(json, ScanCellTypes)
      wbrs  == CellsOf(json, WrapperScanTypes)
      se    == PortOf(json, man.scan_enable).net
      wbrSe == {SeNet(json, i) : i \in wbrs}
  IN  /\ json = man.hash
      /\ HasPort(json, man.scan_enable, "input")
      /\ CollectedCleanly(json, ffs) /\ CollectedCleanly(json, wbrs)
      /\ \A i \in ffs : SeNet(json, i) = se
      /\ Cardinality(wbrSe) <= 1
      /\ (wbrs # {} /\ ffs = {}) => wbrSe = {se}
      /\ ffs \cup wbrs # {}
      /\ ValidChains(json, ffs, man.chains)
      /\ ValidChains(json, wbrs, man.wrapper_chains)

(* Boundary scan cells are on the wrapper chain; any other flop left out blocks full scan. *)
FullScanBlockers(man) == {f.instance : f \in {g \in man.ineligible : g.reason # "wbr_scan_cell"}}

(***************************************************************************)
(* Normal mode: one clock pulse from the all-zero state for each vector, on *)
(* the source and, with the scan ports at 0, on the scan netlist; the       *)
(* source's outputs must agree.  A vector gives the source's inputs.        *)
(***************************************************************************)
ScanPortNames(man) == {man.chains[c].scan_in : c \in 1..Len(man.chains)} \cup {man.scan_enable}
PortVector(m, byName, man) ==
  [n \in PortNets(m, "input") |->
     LET p == m.ports[CHOOSE k \in 1..Len(m.ports) : m.ports[k].dir = "input" /\ m.ports[k].net = n]
     IN  p.name \in DOMAIN byName /\ byName[p.name] /\ p.name \notin ScanPortNames(man)]

InputNames(m) == {m.ports[k].name : k \in {j \in 1..Len(m.ports) : m.ports[j].dir = "input"}}
OutputNames(m) == {m.ports[k].name : k \in {j \in 1..Len(m.ports) : m.ports[j].dir = "output"}}

SequenceOutputs(m, vec, outputs, clocks, man) ==
  LET nets == Pulse(m, ZeroState(m), PortVector(m, vec, man), clocks).nets
  IN  [o \in outputs |-> nets[PortOf(m, o).net]]

(* The check's own vectors when it finds no pattern file: alternating inputs. *)
SmokeVectors(m) ==
  {[name \in InputNames(m) |->
      (k + (CHOOSE p \in 1..Len(m.ports) : m.ports[p].name = name)) % 2 = 1] : k \in {0, 1}}

NormalModeCheck(man, json, vectors) ==
  /\ OutputNames(man.source) # {}
  /\ man.clock_nets \subseteq PortNets(man.source, "input")
  /\ \A v \in vectors :
       SequenceOutputs(man.source, v, OutputNames(man.source), man.clock_nets, man)
         = SequenceOutputs(json, v, OutputNames(man.source), man.clock_nets, man)
===============================================================================
