----------------------------- MODULE SocAssembly -----------------------------
(***************************************************************************)
(* The chip put together from its glue and its blocks' frozen netlists: net *)
(* numbers of a block are replaced by those of the glue at its ports and by *)
(* fresh ones inside, its cells spliced in place of its instance.  For      *)
(* EXTEST only the boundary cells are kept, and the wrapper chain is traced *)
(* through the glue.                                                        *)
(*                                                                          *)
(* In the glue a block is the cell Instance(k), of type "block", whose pins *)
(* are the block's port names; a spliced cell is <<"sub", k, its name>> and *)
(* a boundary cell among them is tagged with its block and name.            *)
(***************************************************************************)
EXTENDS Wrapper

Instance(k) == <<"inst", k>>
Sub(k, i) == <<"sub", k, i>>

(***************************************************************************)
(* _build_remap: a port's net takes the number of the net the instance has  *)
(* there; a port left open or tied to a constant, like an inner net, takes  *)
(* a fresh one.                                                             *)
(***************************************************************************)
PortsOn(block, inst, n) ==
  {k \in 1..Len(block.ports) : block.ports[k].net = n /\ Concrete(Conn(inst, block.ports[k].name))}

\* Mutant: a block's inner nets are numbered from the glue's first free net each time.
RemapFromGlue(glue, block, inst, next) ==
  LET inner == {n \in Nets(block) : PortsOn(block, inst, n) = {}}
  IN  [n \in Nets(block) |-> IF n \in inner THEN NextNetId(glue) + Position(inner, n)
                             ELSE Conn(inst, block.ports[Max(PortsOn(block, inst, n))].name)]

Remap(glue, block, inst, next) ==
  LET inner == {n \in Nets(block) : PortsOn(block, inst, n) = {}}
  IN  [n \in Nets(block) |-> IF n \in inner THEN next + Position(inner, n)
                             ELSE Conn(inst, block.ports[Max(PortsOn(block, inst, n))].name)]
NextFree(block, inst, next) == next + Cardinality({n \in Nets(block) : PortsOn(block, inst, n) = {}})

RemapBits(pins, remap) == [p \in DOMAIN pins |-> IF Concrete(pins[p]) THEN remap[pins[p]] ELSE pins[p]]
IsBoundary(c) == c.type \in WrapperInTypes \cup WrapperOutTypes

SpliceCells(block, k, name, remap, graybox) ==
  [s \in {Sub(k, i) : i \in {j \in DOMAIN block.cells : graybox => IsBoundary(block.cells[j])}} |->
     LET c == block.cells[s[3]]
         new == [type |-> c.type, bit |-> c.bit, pins |-> RemapBits(c.pins, remap)]
     IN  IF IsBoundary(c) THEN new @@ [tag |-> [block |-> name, wbc |-> s[3]]] ELSE new]

(* The blocks in the manifest's order, each numbered behind the ones before it. *)
RECURSIVE SpliceBlocks(_, _, _, _, _, _, _)
SpliceBlocks(glue, m, blocks, names, graybox, k, next) ==
  IF k > Len(blocks) THEN m
  ELSE LET inst == glue.cells[Instance(k)]
       IN  SpliceBlocks(glue,
             WithCells(m, {Instance(k)},
                       SpliceCells(blocks[k], k, names[k], Remap(glue, blocks[k], inst, next) @@ <<>>, graybox)),
             blocks, names, graybox, k + 1, NextFree(blocks[k], inst, next))

ComposeSoc(glue, blocks, names, graybox) ==
  SpliceBlocks(glue, glue, blocks, names, graybox, 1, NextNetId(glue))

(***************************************************************************)
(* The wrapper chain of the chip, from its scan-in port along CTI and CTO,  *)
(* and the manifest made of it, whose check is recorded as passed.          *)
(***************************************************************************)
WrapperScanCells(m) == CellsOf(m, WrapperScanTypes)

TraceWrapperChain(m, si) ==
  LET cells == WrapperScanCells(m)
      walk  == Derived(m, cells, si, <<>>)
  IN  [why |-> CASE \E i \in cells : ~Concrete(InNet(m, i)) \/ ~Concrete(OutNet(m, i)) -> "open_chain_pin"
                 [] \E i, j \in cells : i # j /\ InNet(m, i) = InNet(m, j) -> "shared_cti"
                 [] walk.cycle -> "cycle"
                 [] Range(walk.cells) # cells -> "unreached"
                 [] cells = {} -> "no_cells"
                 [] OTHER -> "",
       cells |-> walk.cells]

(* ports: the names of the chip's scan-in, scan-out, scan enable and clock. *)
PortsPresent(m, ports) ==
  /\ \A name \in {ports.si, ports.se, ports.clk} : HasPort(m, name, "input") /\ Concrete(PortOf(m, name).net)
  /\ HasPort(m, ports.so, "output") /\ Concrete(PortOf(m, ports.so).net)
PinsConcrete(m) ==
  \A i \in WrapperScanCells(m) : \A pin \in {"CLK", "SE", IF IsInputCell(m.cells[i]) THEN "FROM_SYS" ELSE "FROM_CORE"} :
    Concrete(Conn(m.cells[i], pin))

BuildSocScanManifest(m, ports) ==
  IF ~PortsPresent(m, ports) THEN [why |-> "missing_port"]
  ELSE LET trace == TraceWrapperChain(m, PortOf(m, ports.si).net)
       IN  IF trace.why # "" THEN [why |-> trace.why]
           ELSE IF ~PinsConcrete(m) THEN [why |-> "open_pin"]
           ELSE [why |-> "", source |-> m, hash |-> m, chains |-> <<>>,
                 wrapper_chains |-> <<[scan_in |-> ports.si, scan_out |-> ports.so, cells |-> trace.cells]>>,
                 scan_enable |-> ports.se, clock_nets |-> {PortOf(m, ports.clk).net},
                 ineligible |-> {}, latest_check |-> "PASS"]

ExtestView(m, man) == FuseExtest(ScanReducedView(m, man))
==============================================================================
