------------------------------- MODULE BlockFlow -------------------------------
(***************************************************************************)
(* The commands that prepare a block for test: its ports are wrapped, scan  *)
(* is inserted, the scan netlist is checked, and the views the campaigns    *)
(* work on are derived from it.  The scan workspace (scan netlist and       *)
(* manifest) is on disk: between two commands another tool may rewire the   *)
(* netlist, and a project run may stage it with a passing check record.     *)
(***************************************************************************)
EXTENDS Wrapper

CONSTANTS Designs,       \* the netlists a flow starts from
          ChainOptions,  \* the values of --chains
          LengthOptions, \* the values of --max-chain-length, 0 for none
          StitchLimit,   \* designs with more flops are only planned (scan --dry-run)
          WrapLimit      \* designs with more ports are not wrapped

ASSUME OptionsAssumption == ChainOptions \subseteq Nat \ {0} /\ LengthOptions \subseteq Nat

VARIABLES netlist,  \* the block's netlist
          ws,       \* the scan workspace: [exists] or [exists, json, manifest]
          edited,   \* another tool has rewired the scan netlist
          report    \* what the last command said

vars == <<netlist, ws, edited, report>>

Silent == [op |-> "none"]
NoWorkspace == [exists |-> FALSE]

Init == netlist \in Designs /\ ws = NoWorkspace /\ edited = FALSE /\ report = Silent

(* The wrapping of all ports, or of one. *)
Targets(m) == {PortNames(m)} \cup {{name} : name \in PortNames(m)}

Wrap(targets, scan) ==
  LET wrapped == WrapPorts(netlist, targets, scan)
  IN  /\ ~ws.exists /\ BoundaryCells(netlist) = {} /\ Len(netlist.ports) <= WrapLimit
      /\ netlist' = IF wrapped.why = "" THEN wrapped.m ELSE netlist
      /\ report' = Silent
      /\ UNCHANGED <<ws, edited>>

DryRun(chains, maxLen) ==
  /\ ~ws.exists
  /\ report' = [op |-> "dry_run", chains |-> chains, maxLen |-> maxLen,
                sizes |-> DomainSizes(netlist), plan |-> PlanLengths(DomainSizes(netlist), chains, maxLen)]
  /\ UNCHANGED <<netlist, ws, edited>>

(* Once, as a second scan of the same netlist writes the same files. *)
Written(plan, json) ==
  [exists |-> TRUE, json |-> json, manifest |-> ManifestFromResult(netlist, plan, json)]
Scan(chains, maxLen) ==
  /\ ~ws.exists /\ Cardinality(EligibleFFs(netlist)) <= StitchLimit
  /\ \E plan \in {BuildPlan(netlist, chains, maxLen)} :
       \/ /\ plan.why # ""
          /\ report' = [op |-> "refused", why |-> plan.why]
          /\ UNCHANGED ws
       \/ /\ plan.why = ""
          /\ ws' = Written(plan, StitchScanJson(netlist, plan))
          /\ report' = [op |-> "scan"]
  /\ UNCHANGED <<netlist, edited>>

(* Another tool moves one chain pin of a scan cell, or a scan output, to another net. *)
ChainPins(c) == DOMAIN c.pins \cap {"SDI", "CTI", "SE"}
EditPin(i, pin, net) ==
  /\ ws.json.cells[i].pins[pin] # net
  /\ ws' = [ws EXCEPT !.json.cells[i].pins[pin] = net]
  /\ edited' = TRUE /\ report' = Silent
  /\ UNCHANGED netlist
EditScanOut(k, net) ==
  /\ ws.json.ports[k].net # net
  /\ ws' = [ws EXCEPT !.json.ports[k].net = net]
  /\ edited' = TRUE /\ report' = Silent
  /\ UNCHANGED netlist

Edit ==
  /\ ws.exists /\ ~edited
  /\ \E net \in Nets(ws.json) :
       \/ \E i \in CellsOf(ws.json, ScanCellTypes \cup WrapperScanTypes) :
            \E pin \in ChainPins(ws.json.cells[i]) : EditPin(i, pin, net)
       \/ \E k \in 1..Len(ws.json.ports) : ws.json.ports[k].name[1] = "scan_out" /\ EditScanOut(k, net)

(* A project run copies the netlist, hashes the copy and records a check that passed. *)
Stage ==
  /\ ws.exists
  /\ ws' = [ws EXCEPT !.manifest.hash = ws.json, !.manifest.latest_check = "PASS"]
  /\ report' = Silent
  /\ UNCHANGED <<netlist, edited>>

(* Structure, full scan and, unless only the structure is asked for, normal mode. *)
CheckPasses(man, json, structuralOnly) ==
  /\ CheckScanStructure(man, json)
  /\ FullScanBlockers(man) = {}
  /\ structuralOnly \/ NormalModeCheck(man, json, SmokeVectors(man.source))

ScanCheck(structuralOnly) ==
  LET pass == CheckPasses(ws.manifest, ws.json, structuralOnly)
  IN  /\ ws.exists
      /\ ws' = [ws EXCEPT !.manifest.latest_check = IF pass THEN "PASS" ELSE "FAIL"]
      /\ report' = [op |-> "check", pass |-> pass, structural |-> structuralOnly]
      /\ UNCHANGED <<netlist, edited>>

(* What _preflight_sim_scan asks of the workspace. *)
Preflight ==
  /\ ws.exists
  /\ ws.json = ws.manifest.hash
  /\ ws.manifest.latest_check = "PASS"
  /\ FullScanBlockers(ws.manifest) = {}

Intest ==
  /\ Preflight
  /\ BoundaryCells(ws.json) # {}
  /\ report' = [op |-> "intest", view |-> FuseIntest(ScanReducedView(ws.json, ws.manifest)),
                names |-> BuildWbrGenericNameMap(ws.json, ws.manifest)]
  /\ UNCHANGED <<netlist, ws, edited>>

TagCrossDomain ==
  /\ Preflight
  /\ report' = [op |-> "cross_domain", nets |-> CrossDomainNetIds(ws.json, ws.manifest)]
  /\ UNCHANGED <<netlist, ws, edited>>

Next ==
  \/ \E scan \in BOOLEAN : \E targets \in Targets(netlist) : Wrap(targets, scan)
  \/ \E chains \in ChainOptions, maxLen \in LengthOptions : DryRun(chains, maxLen)
  \/ \E chains \in ChainOptions, maxLen \in LengthOptions : Scan(chains, maxLen)
  \/ Edit
  \/ Stage
  \/ \E structuralOnly \in BOOLEAN : ScanCheck(structuralOnly)
  \/ Intest
  \/ TagCrossDomain

Spec == Init /\ [][Next]_vars

-------------------------------------------------------------------------------
(* The source's inputs given to the scan netlist, whose own ports stay at 0. *)
Widen(m, inputs) == [n \in PortNets(m, "input") |-> n \in DOMAIN inputs /\ inputs[n]]

(* The inputs a flop's clock depends on. *)
ClockInputs(man) ==
  PortNets(man.source, "input") \cap Backward(man.source, [chains |-> <<>>], man.clock_nets)

(* stitch_scan_json changes nothing outside scan mode: from every state, under every     *)
(* input and every set of clocks pulsed, with the scan ports at 0, every flop the source *)
(* had takes the value it takes there and every output of the source shows the same.     *)
StitchKeepsFunction ==
  report.op = "scan" =>
    LET src == ws.manifest.source
    IN  \A st \in States(src), clocks \in SUBSET ClockInputs(ws.manifest) :
          \A inputs \in Inputs(src) :
            LET a == Pulse(src, st, inputs, clocks)
                b == Pulse(ws.json, st, Widen(ws.json, inputs), clocks)
            IN  /\ a.state = b.state
                /\ \A n \in PortNets(src, "output") : a.nets[n] = b.nets[n]

(* The ways of dividing a domain of n flops over k chains are those of at most n chains; *)
(* the longest chain of the best division of all domains over k chains.                  *)
ChainSplits(sizes, k) == {f \in [1..Len(sizes) -> 1..k] :
                            /\ \A x \in 1..Len(sizes) : f[x] <= sizes[x]
                            /\ Total(f) = k}
LongestOf(sizes, f) == Max({Ceil(sizes[x], f[x]) : x \in 1..Len(sizes)})

(* --chains and --max-chain-length are honoured: a plan has the chains asked for, no     *)
(* chain mixes two clock domains or exceeds the limit, and its longest chain is as short *)
(* as any division of the flops allows; a plan is refused only when none exists.         *)
ChainsAreShortest ==
  report.op = "dry_run" /\ report.sizes # <<>> =>
    LET sizes  == report.sizes
        plan   == report.plan
        maxLen == report.maxLen
        auto   == maxLen > 0 /\ report.chains = 1
        needed == Total([x \in 1..Len(sizes) |-> Ceil(sizes[x], maxLen)])
        k      == IF auto THEN needed ELSE report.chains
        splits == ChainSplits(sizes, k)
        best   == Min({LongestOf(sizes, f) : f \in splits})
    IN  IF plan.why = ""
        THEN /\ splits # {} /\ Len(plan.lengths) = k
             /\ Total(plan.lengths) = Total(sizes)
             /\ PrefixSums(sizes) \subseteq PrefixSums(plan.lengths)
             /\ Max(Range(plan.lengths)) = best
             /\ maxLen = 0 \/ best <= maxLen
        ELSE splits = {} \/ (maxLen > 0 /\ best > maxLen)

(* Every listed chain shifts by one cell on a pulse with scan enable high, from every     *)
(* state under every input, and its scan-out shows the last cell.  (The wrapper chain    *)
(* under the enable its cells share, when that is an input.)                             *)
ChainsShift(json, man) ==
  LET clocks == {Conn(json.cells[i], "CLK") : i \in CellsOf(json, ScanCellTypes \cup WrapperScanTypes)}
  IN  /\ \A c \in 1..Len(man.chains) :
           Shifts(json, man.chains[c], PortOf(json, man.scan_enable).net, clocks)
      /\ \A c \in 1..Len(man.wrapper_chains) :
           LET se == SeNet(json, man.wrapper_chains[c].cells[1])
           IN  se \in PortNets(json, "input") => Shifts(json, man.wrapper_chains[c], se, clocks)

(* The verdict of `scan-check` is worth what the campaigns take it for.  A pass: whatever *)
(* was done to the netlist before, its chains shift.  A failure on the netlist as `scan`  *)
(* wrote it: only for flops that could not be scanned, for want of an output to compare,  *)
(* or for a clock that is not a port.                                                    *)
ScanCheckIsRight ==
  report.op = "check" =>
    /\ report.pass /\ ~report.structural => ChainsShift(ws.json, ws.manifest)
    /\ ~report.pass /\ ~edited =>
         \/ FullScanBlockers(ws.manifest) # {}
         \/ OutputNames(ws.manifest.source) = {}
         \/ ~(ws.manifest.clock_nets \subseteq PortNets(ws.manifest.source, "input"))

(* The nets with one of them forced. *)
SettleForced(m, state, inputs, net, v) ==
  LET src == (net :> v) @@ Sources(m, state, inputs) @@ <<>>
  IN  [n \in Nets(m) \cup {Zero, One, Open} |-> NetValue(m, src, n)] @@ <<>>

(* A net tagged cross-domain is given up as untestable, and rightly: with the inputs     *)
(* held and the flops of one clock domain changing between the frames, no launch makes   *)
(* the net change so that keeping its old value shows at that domain's flops or at an    *)
(* output.  (Asked of the netlist as stitched: chain pins play no part in the tagging.)  *)
CrossDomainIsUntestable ==
  report.op = "cross_domain" /\ ~edited =>
    \A n \in report.nets, clk \in ws.manifest.clock_nets :
      LET m == ws.json
          seen == PortNets(m, "output")
                  \cup {Conn(m.cells[i], "D") : i \in DomainCells(m, ws.manifest, clk)}
      IN  \A s1, s2 \in States(m) :
            (\A i \in StateInstances(m) \ DomainCells(m, ws.manifest, clk) : s1[i] = s2[i]) =>
              \A inputs \in {Widen(m, Clocked(in, ws.manifest.clock_nets, FALSE)) :
                              in \in Inputs(ws.manifest.source)} :
                LET v1 == Settle(m, s1, inputs)
                    v2 == Settle(m, s2, inputs)
                IN  v1[n] # v2[n] =>
                      LET late == SettleForced(m, s2, inputs, n, v1[n])
                      IN  \A o \in seen : late[o] = v2[o]

(* The INTEST view speaks of the wrapped block: under every value of its inputs, an      *)
(* observed boundary or a D in the view has the value that the generic netlist gives the *)
(* port or the D when the same values are put at the ports the name map gives and in the *)
(* flops; and no port of a wrapped pin is left to be driven or observed twice.           *)
FusedViewMatchesWrapped ==
  report.op = "intest" =>
    LET view  == report.view
        names == report.names
        json  == ws.json
        stim(p) == IF p.name \in DOMAIN names.stimulus THEN names.stimulus[p.name] ELSE p.name
        obs(p)  == IF p.name \in DOMAIN names.observe THEN names.observe[p.name] ELSE p.name
        ins   == {view.ports[k] : k \in {j \in 1..Len(view.ports) : view.ports[j].dir = "input"}}
        outs  == {view.ports[k] : k \in {j \in 1..Len(view.ports) : view.ports[j].dir = "output"}}
    IN  /\ \A p, q \in ins : p # q => stim(p) # stim(q)
        /\ \A p, q \in outs : p # q => obs(p) # obs(q)
        /\ \A v \in [ins -> BOOLEAN] :
             LET inView == Settle(view, [i \in {} |-> FALSE],
                                  [n \in {p.net : p \in ins} |-> v[CHOOSE p \in ins : p.net = n]])
                 state  == [i \in StateInstances(json) |->
                              i[1] = "u" /\ \E p \in ins : p.name = Ppi(i[2]) /\ v[p]]
                 driven == [n \in PortNets(json, "input") |->
                              \E p \in ins : stim(p) \in InputNames(json)
                                             /\ PortOf(json, stim(p)).net = n /\ v[p]]
                 real   == Settle(json, state, driven)
             IN  \A p \in outs :
                   inView[p.net] = IF p.name[1] = "ppo"
                                   THEN real[Conn(json.cells[<<"u", p.name[2]>>], "D")]
                                   ELSE real[PortOf(json, obs(p)).net]
================================================================================
