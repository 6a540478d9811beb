------------------------------ MODULE DomainReach ------------------------------
(***************************************************************************)
(* Which nets of a scan netlist with several clock domains no transition    *)
(* test can reach within one domain: launched from the domain's flip-flops  *)
(* and captured by them or at an output, both through gates only.           *)
(***************************************************************************)
EXTENDS ScanChecks

ScanControlPins == {"CLK", "SE", "SCE", "SDI", "SI"}
OutputPins(c) == (IF IsGate(c) THEN {GateOutput[c.type]} ELSE {})
                 \cup (IF IsFF(c) THEN {FFMeta[c.type].output} ELSE {})

(* The flops of the manifest's chains; boundary cells count as gates. *)
ManifestFFs(man) == UNION {Range(man.chains[c].cells) : c \in 1..Len(man.chains)}
ThroughCells(m, man) == DOMAIN m.cells \ ManifestFFs(man)

InputsOf(c) == {c.pins[p] : p \in DOMAIN c.pins \ OutputPins(c)}
OutputsOf(c) == {c.pins[p] : p \in DOMAIN c.pins \cap OutputPins(c)}

RECURSIVE Forward(_, _, _)
Forward(m, man, nets) ==
  LET more == nets \cup UNION {OutputsOf(m.cells[i]) :
                                 i \in {j \in ThroughCells(m, man) : InputsOf(m.cells[j]) \cap nets # {}}}
  IN  IF more = nets THEN nets ELSE Forward(m, man, more)

RECURSIVE Backward(_, _, _)
Backward(m, man, nets) ==
  LET more == nets \cup UNION {InputsOf(m.cells[i]) :
                                 i \in {j \in ThroughCells(m, man) : OutputsOf(m.cells[j]) \cap nets # {}}}
  IN  IF more = nets THEN nets ELSE Backward(m, man, more)

DomainCells(m, man, clk) == {i \in ManifestFFs(man) : Conn(m.cells[i], "CLK") = clk}
LaunchNets(m, man, clk) == {Conn(m.cells[i], "Q") : i \in DomainCells(m, man, clk)}

\* Mutant: only the captures of the domain's own flip-flops count.
CaptureNetsWithoutOutputs(m, man, clk) ==
  UNION {{m.cells[i].pins[p] : p \in DOMAIN m.cells[i].pins \ (ScanControlPins \cup {"Q"})} :
           i \in DomainCells(m, man, clk)}

CaptureNets(m, man, clk) ==
  PortNets(m, "output") \cup
  UNION {{m.cells[i].pins[p] : p \in DOMAIN m.cells[i].pins \ (ScanControlPins \cup {"Q"})} :
           i \in DomainCells(m, man, clk)}

CrossDomainNetIds(m, man) ==
  IF Cardinality(man.clock_nets) <= 1 THEN {}
  ELSE Nets(m) \ (PortNets(m, "input")
         \cup UNION {Forward(m, man, LaunchNets(m, man, clk)) \cap Backward(m, man, CaptureNets(m, man, clk)) :
                       clk \in man.clock_nets})
================================================================================
