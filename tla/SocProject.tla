------------------------------ MODULE SocProject ------------------------------
(***************************************************************************)
(* The project run of ProjectRun over the netlists of its blocks.  A        *)
(* project is [mode, top, names, tops, blocks, glue, ports, supplied]: each *)
(* version of a block's file is [json, manifest], top and ports are the     *)
(* assembly's; supplied is the assembly of a "comb" project and the order   *)
(* of its boundary cells.                                                   *)
(***************************************************************************)
EXTENDS Aggregate, ProjectRun

Block(k, version) == project.blocks[k][version]
Ordinary == [scope |-> 0]

(***************************************************************************)
(* The fault rows of a campaign.  What its runs made of them is not computed *)
(* here: a row that reaches no observed net is redundant, any other is       *)
(* detected, except for one among all scopes, the odd one, on a boundary     *)
(* net: left undetected, proved redundant or collapsed into another.         *)
(***************************************************************************)
Composed(versions) ==
  ComposeSoc(project.glue, [k \in Blocks |-> Block(k, versions[k]).json], project.names, TRUE)

RECURSIVE Observable(_, _)
Observable(m, nets) ==
  LET more == UNION {{Conn(m.cells[i], pin) : pin \in Range(GateInputs[m.cells[i].type])} :
                       i \in {j \in DOMAIN m.cells : IsGate(m.cells[j])
                                /\ Conn(m.cells[j], GateOutput[m.cells[j].type]) \in nets}}
  IN  IF more \subseteq nets THEN nets ELSE Observable(m, nets \cup more)

(* build_scan_execution_map: what a block's INTEST campaign leaves out. *)
BlockExclusion(json, man, n) ==
  LET chainIns == {PortOf(json, man.chains[c].scan_in).net : c \in 1..Len(man.chains)}
  IN  CASE n \in {SysNet(json.cells[i]) : i \in ExtractWbrCells(json)} -> "wbr_decoupled"
        [] n \in chainIns -> "scan_chain"
        [] n = PortOf(json, man.scan_enable).net -> "scan_internal"
        [] n \in UNION {WbrChainNets(json.cells[i]) : i \in BoundaryCells(json)} -> "scan_chain"
        [] n \in man.clock_nets -> "clock"
        [] OTHER -> "none"

Status(odd, seen, n, sa) ==
  IF odd # Ordinary /\ odd.net = n /\ odd.sa = sa THEN odd.status
  ELSE IF n \in seen THEN "detected" ELSE "redundant"

Rows(m, view, exclusion(_), odd) ==
  {[net |-> n, sa |-> sa, exclusion |-> exclusion(n),
    status |-> Status(odd, Observable(view, PortNets(view, "output")), n, sa)] :
     n \in Nets(m), sa \in BOOLEAN}

BlockScope(k, b, odd) ==
  [name |-> project.names[k], role |-> "block",
   rows |-> Rows(b.json, FuseIntest(ScanReducedView(b.json, b.manifest)),
                 LAMBDA n : BlockExclusion(b.json, b.manifest, n), odd),
   index |-> WbcPinIndex(b.json, Listing(BoundaryCells(b.json)), project.names[k])]

ScanScope(m, view, odd) ==
  [name |-> project.top, role |-> "assembly", rows |-> Rows(view, view, LAMBDA n : "none", odd),
   index |-> WbcPinIndexExtest(m, project.top)]
CombScope(m, order, odd) ==
  [name |-> project.top, role |-> "assembly", rows |-> Rows(m, m, LAMBDA n : "none", odd),
   index |-> WbcPinIndex(m, order, project.top)]

(* The scopes as the aggregation reads them: the database beside the staged netlist. *)
SocManifest(m) == BuildSocScanManifest(m, project.ports)
AssemblyScope(m, odd) ==
  IF project.mode = "scan" THEN ScanScope(m, ExtestView(m, SocManifest(m)), odd)
  ELSE CombScope(project.supplied.m, project.supplied.order, odd)
StagedBlock(s) == LET of == staged[Workspace(s)] IN Block(of[1], of[2])
OddIn(odd, s) == IF odd.scope = s THEN odd ELSE Ordinary
Scopes(odd) ==
  [s \in 1..Assembly |->
     IF s \in Blocks THEN BlockScope(s, StagedBlock(s), OddIn(odd, s))
     ELSE AssemblyScope(Composed(staged[Workspace(Assembly)]), OddIn(odd, s))]

BoundaryNets(m) == {n \in UNION {{SysNet(m.cells[i]), CoreNet(m.cells[i])} : i \in BoundaryCells(m)} : Concrete(n)}
OddNets(s) ==
  IF s \in Blocks THEN BoundaryNets(StagedBlock(s).json)
  ELSE IF project.mode = "comb" THEN BoundaryNets(project.supplied.m)
  ELSE LET m == Composed(staged[Workspace(s)]) IN BoundaryNets(m) \cup DOMAIN WbcPinIndexExtest(m, project.top)
OddOnes == {Ordinary} \cup UNION {[scope : {s}, net : OddNets(s), sa : {FALSE},
                                   status : {"undetected", "redundant", "collapsed"}] : s \in 1..Assembly}

(***************************************************************************)
(* The steps of a run that read the netlists.                               *)
(***************************************************************************)
ComposeFiles ==
  /\ Composing
  /\ \E m \in {Composed(files)} : \E man \in {SocManifest(m)} : Compose(m, man)

(* The tables, not how they came about, decide: odd rows are tried in the first run. *)
AggregateProjectRun ==
  /\ run.phase = "aggregate"
  /\ \E odd \in IF run.left = MaxRuns - 1 THEN OddOnes ELSE {Ordinary} : \E scopes \in {Scopes(odd) \o <<>>} :
       AggregateRun(scopes, AggregateProject(scopes))

Next ==
  \/ \E clean \in BOOLEAN : StartProject(clean)
  \/ StageBlock
  \/ UseSupplied
  \/ ComposeFiles
  \/ SimScope
  \/ AggregateProjectRun
  \/ Crash
  \/ \E k \in Blocks : \E version \in 1..Len(project.blocks[k]) : UpdateBlock(k, version)
  \/ \E a \in Accesses : RetargetPattern(a)

Spec == Init /\ [][Next]_vars
-------------------------------------------------------------------------------
(* The rows of a scope on a net that it counts, and those it counts or accounts for. *)
On(scope, net, sa, classes) == {r \in scope.rows : r.net = net /\ r.sa = sa /\ Class(scope, r) \in classes}
CountedOn(scope, net, sa) == On(scope, net, sa, {"owned"})
SettledOn(scope, net, sa) == On(scope, net, sa, {"owned", "by_design"})

(* The net of the assembly's fault table a block's outward pin is, and its core pin. *)
AssemblyCells(m, k, i) == {j \in BoundaryCells(m) : m.cells[j].tag = [block |-> project.names[k], wbc |-> i]}
OutwardNets(m, k, i) ==
  IF project.mode = "comb" THEN {SysNet(m.cells[j]) : j \in AssemblyCells(m, k, i)}
  ELSE {p.net : p \in {q \in BoundaryPorts(FuseExtest(m)) : q.name[2] \in AssemblyCells(m, k, i)}}
AssemblyNetlist == IF project.mode = "comb" THEN project.supplied.m ELSE Composed(staged[Workspace(Assembly)])

(* A chip number counts every boundary fault in one scope: a fault on the core side of a *)
(* boundary cell is settled by its block, one on the system side by the assembly, and    *)
(* the other scope does not count it.  (A core net of the EXTEST view that the campaign  *)
(* did not get to prove redundant is counted there as well.)  And a scan project whose   *)
(* files stay as they are is never refused a number.                                     *)
ChipCountsOnce ==
  report.op = "chip" =>
    IF report.result.why # "" THEN project.mode = "scan" => run.touched
    ELSE \E m \in {AssemblyNetlist} : \A k \in Blocks :
           LET json == StagedBlock(k).json
               own  == report.scopes[k]
               top  == report.scopes[Assembly]
           IN  \A i \in BoundaryCells(json), sa \in BOOLEAN :
                 /\ SettledOn(own, CoreNet(json.cells[i]), sa) # {}
                 /\ CountedOn(own, SysNet(json.cells[i]), sa) = {}
                 /\ \E n \in OutwardNets(m, k, i) : SettledOn(top, n, sa) # {}
                 /\ \A j \in AssemblyCells(m, k, i) :
                      \A r \in CountedOn(top, CoreNet(m.cells[j]), sa) : project.mode = "scan" /\ r.status = "undetected"

(* The blocks follow one another in the glue's wrapper chain, from its scan-in on. *)
Pin(k, name) == Conn(project.glue.cells[Instance(k)], name)
ChainedThrough(order) ==
  /\ Pin(order[1], WbrSi) = PortOf(project.glue, project.ports.si).net
  /\ \A p \in 2..N : Pin(order[p], WbrSi) = Pin(order[p - 1], WbrSo)
Orders == {f \in [Blocks -> Blocks] : \A a, b \in Blocks : a # b => f[a] # f[b]}

(* The chip's wrapper chain is found exactly when the glue daisy-chains the blocks from  *)
(* the scan-in port, in whatever order; it then holds every boundary cell of every block *)
(* once, and if the glue ends it at the scan-out port and gives all blocks the enable    *)
(* and the clock, it shifts from every state under every input.                          *)
TracedChainShifts ==
  report.op = "compose" =>
    LET m == report.m
        man == report.manifest
        chain == man.wrapper_chains[1]
    IN  /\ (man.why = "") <=> \E order \in Orders : ChainedThrough(order)
        /\ man.why = "" =>
             /\ Range(chain.cells) = UNION {{Sub(k, i) : i \in BoundaryCells(Block(k, files[k]).json)} : k \in Blocks}
             /\ Len(chain.cells) = Cardinality(Range(chain.cells))
             /\ (/\ \E k \in Blocks : /\ chain.cells[Len(chain.cells)][2] = k
                                      /\ Pin(k, WbrSo) = PortOf(project.glue, project.ports.so).net
                 /\ \A k \in Blocks : /\ Pin(k, WbrSe) = PortOf(project.glue, project.ports.se).net
                                       /\ Pin(k, ClockPort) = PortOf(project.glue, project.ports.clk).net)
                => Shifts(m, chain, PortOf(m, project.ports.se).net, man.clock_nets)

(* The EXTEST view is the glue: whatever is put on the chip's inputs and on the outputs  *)
(* of the blocks, an observed boundary cell has the value the glue gives the input of    *)
(* the block it stands for, and an output of the chip its own; every boundary cell is    *)
(* driven or observed.  (An input tied to a constant or left open is no part of this.)   *)
GlueInputs(view, v) ==
  LET ctl == {p \in BoundaryPorts(view) : p.dir = "input"}
      net(p) == Pin(p.name[2][2], p.name[2][3][2])
  IN  [n \in PortNets(project.glue, "input") \cup {net(p) : p \in ctl} |->
         IF \E p \in ctl : net(p) = n THEN v[(CHOOSE p \in ctl : net(p) = n).net]
         ELSE n \in DOMAIN v /\ v[n]]
ExtestSeesInterconnect ==
  report.op = "compose" /\ report.manifest.why = "" =>
    \E view \in {ExtestView(report.m, report.manifest)} :
      /\ {p.name[2] : p \in BoundaryPorts(view)} = BoundaryCells(report.m)
      /\ \A v \in Inputs(view) :
           \E seen \in {Settle(view, <<>>, v)} :
             \E glue \in {Settle(project.glue, <<>>, GlueInputs(view, v))} :
               /\ \A p \in BoundaryPorts(view) :
                    p.dir = "output" /\ Concrete(Pin(p.name[2][2], p.name[2][3][2]))
                      => seen[p.net] = glue[Pin(p.name[2][2], p.name[2][3][2])]
               /\ \A k \in 1..Len(view.ports) :
                    view.ports[k].dir = "output" /\ view.ports[k].name \in PortNames(project.glue)
                      => seen[view.ports[k].net] = glue[PortOf(project.glue, view.ports[k].name).net]

===============================================================================
