------------------------------- MODULE ScanView -------------------------------
(***************************************************************************)
(* The combinational view scan ATPG works on, and where in it each fault of *)
(* the scan netlist is graded.                                              *)
(*                                                                          *)
(* A design is [nl, chains, scanIn, scanOut, scanEnable, clock]: the scan   *)
(* netlist, the flops of each chain from scan-in to scan-out, and the nets  *)
(* of the scan ports.  nl.obs are the functional outputs; a chain's last Q  *)
(* is its scan-out.  Every flop is removed from the view: its Q becomes an  *)
(* input (the PPI) and its D an output (the PPO), with the asynchronous     *)
(* control forcing both.  Which pins count as branches is decided on the    *)
(* untouched netlist, so the view does not depend on the order of flops:    *)
(* rewiring them one by one is one substitution of Q nets.                  *)
(***************************************************************************)
EXTENDS FaultSim

Flops(d) == {c \in Range(d.nl.nodes) : IsFF(c)}
Gates(d) == SelectSeq(d.nl.nodes, LAMBDA c : ~IsFF(c))
Made(role, f) == <<role, f.inst[1]>>
Pin(c, k) == c.ins[k][1]
Net(c, k) == c.ins[k][2]

ScanPorts(d) == Range(d.scanIn) \cup {d.scanEnable, d.clock}
FunctionalPis(d) == d.nl.pis \ ScanPorts(d)

QDrive(f) == IF f.ctl = "none" THEN Made("ppi", f) ELSE Made("qmux", f)
RewireQ(d, net) ==
  IF \E f \in Flops(d) : f.out = net
  THEN QDrive(CHOOSE f \in Flops(d) : f.out = net) ELSE net

(* Cell pins on a net, its driver's included *)
ConsumerCount(d, net) ==
  Cardinality(Edges(d.nl, net)) + Cardinality({c \in Range(d.nl.nodes) : c.out = net})

Buf(inst, from, to) == [inst |-> inst, type |-> "BUF", ins |-> <<<<"A", from>>>>, out |-> to]
Inv(inst, from, to) == [inst |-> inst, type |-> "INV", ins |-> <<<<"A", from>>>>, out |-> to]
Gate2(inst, type, a, b, to) ==
  [inst |-> inst, type |-> type, ins |-> <<<<"A", a>>, <<"B", b>>>>, out |-> to]

(* control asserted ? its value : data, on the output (side "q") or the capture (side "d") *)
CtrlMux(f, data, inv, mux) ==
  IF f.ctl = "reset"
  THEN <<Gate2(Made(mux, f), "AND2", data, Made("ctl", f), Made(mux, f))>>
  ELSE <<Inv(Made(inv, f), Made("ctl", f), Made(inv, f)),
         Gate2(Made(mux, f), "OR2", data, Made(inv, f), Made(mux, f))>>

Shared(d, f) == ConsumerCount(d, Net(f, D)) > 1
DObserve(d, f) == IF Shared(d, f) THEN Made("dbr", f) ELSE RewireQ(d, Net(f, D))

FlopCells(d, f) ==
  LET dRead == RewireQ(d, Net(f, D))
  IN  (IF f.ctl = "none" THEN <<>>
       ELSE <<Buf(Made("ctl", f), RewireQ(d, Net(f, CTL)), Made("ctl", f))>>
              \o CtrlMux(f, Made("ppi", f), "qinv", "qmux"))
      \o (IF Shared(d, f) THEN <<Buf(Made("dbr", f), dRead, Made("dbr", f))>> ELSE <<>>)
      \o (IF f.ctl = "none" THEN <<>> ELSE CtrlMux(f, DObserve(d, f), "dinv", "dmux"))
      \o <<Buf(Made("ppo", f), IF f.ctl = "none" THEN DObserve(d, f) ELSE Made("dmux", f),
               Made("ppo", f))>>

RewiredGates(d) ==
  LET gs == Gates(d)
  IN  [i \in 1..Len(gs) |->
         [gs[i] EXCEPT !.ins = [k \in 1..Len(gs[i].ins) |->
                                  <<Pin(gs[i], k), RewireQ(d, Net(gs[i], k))>>]]]

(* The flop outputs with one reader that also drive a primary output. *)
Readers(nodes, net) ==
  {e \in (1..Len(nodes)) \X (1..6) : e[2] <= Len(nodes[e[1]].ins) /\ nodes[e[1]].ins[e[2]][2] = net}
BranchedOutputs(d, nodes) ==
  {f \in Flops(d) : f.out \in d.nl.obs /\ Cardinality(Readers(nodes, QDrive(f))) = 1}

BuildScanAtpgView(d) ==
  LET nodes    == RewiredGates(d) \o Joined([i \in 1..Cardinality(Flops(d)) |->
                                               FlopCells(d, Listed(Flops(d))[i])])
      branched == BranchedOutputs(d, nodes)
      port(net) == IF \E f \in branched : f.out = net
                   THEN Made("qpo", CHOOSE f \in branched : f.out = net) ELSE RewireQ(d, net)
      qpo(f)   == Buf(Made("qpo", f), QDrive(f), Made("qpo", f))
  IN  [pis   |-> FunctionalPis(d) \cup {Made("ppi", f) : f \in Flops(d)},
       obs   |-> {port(o) : o \in d.nl.obs} \cup {Made("ppo", f) : f \in Flops(d)},
       nodes |-> nodes \o Listed({qpo(f) : f \in branched}),
       ports |-> [o \in d.nl.obs |-> port(o)]]

(***************************************************************************)
(* The execution map: for each site of the scan netlist the view site it is *)
(* graded at.  view is the view netlist, sites its compiled nets.           *)
(***************************************************************************)
IsBranch(site) == Len(site) = 3

ScanExcluded(d, site) ==
  \/ Stem(site) \in Range(d.scanIn) \cup {d.scanEnable}
  \/ IsBranch(site) /\ site[3] = "SDI"

DBoundary(d, site) == {Made("dbr", f) : f \in {g \in Flops(d) :
                         Shared(d, g) /\ site = <<Net(g, D), g.inst, "D">>}}
ControlBoundary(d, site) == {Made("ctl", f) : f \in {g \in Flops(d) :
                         g.ctl # "none" /\ site = <<Net(g, CTL), g.inst, Pin(g, CTL)>>}}

(* The Q rule: the stem at the PPI, a reader's branch at its branch of the   *)
(* net that now drives it, or at that net when nothing else sees it.         *)
QBoundary(d, view, sites, f, site) ==
  LET drive      == QDrive(f)
      translated == <<drive, site[2], site[3]>>
      fansOut    == \E s \in sites : IsBranch(s) /\ Stem(s) = drive
  IN  IF ~IsBranch(site) THEN {Made("ppi", f)}
      ELSE IF translated \in sites THEN {translated}
      ELSE IF fansOut \/ drive \in view.obs THEN {} ELSE {drive}

(* The view site of a scan-netlist site: a set, empty when it stays unmapped. *)
ExecutionSite(d, view, sites, site) ==
  IF site \in sites THEN {site}
  ELSE IF IsBranch(site) /\ DBoundary(d, site) \cup ControlBoundary(d, site) # {}
       THEN DBoundary(d, site) \cup ControlBoundary(d, site)
  ELSE UNION {QBoundary(d, view, sites, f, site) : f \in {g \in Flops(d) : g.out = Stem(site)}}

(***************************************************************************)
(* Scan patterns.  A vector gives the view's inputs; loading feeds the      *)
(* highest position first, unloading shows it first.  A short chain is      *)
(* padded in front of its load and behind its unload.                       *)
(***************************************************************************)
MaxChainLength(d) == Max({Len(d.chains[c]) : c \in 1..Len(d.chains)})
Ppi(inst) == <<"ppi", inst[1]>>
Ppo(inst) == <<"ppo", inst[1]>>

Padding(d, c) == [i \in 1..(MaxChainLength(d) - Len(d.chains[c])) |-> FALSE]

(* The flop at the far end of a chain is loaded and unloaded first. *)
FromEnd(chain, i) == chain[Len(chain) + 1 - i]

\* Mutant: a short chain is padded behind its load.
LoadSequenceLate(d, c, vec) == [i \in 1..Len(d.chains[c]) |-> vec[Ppi(FromEnd(d.chains[c], i))]]
                               \o Padding(d, c)

LoadSequence(d, c, vec)   == Padding(d, c) \o [i \in 1..Len(d.chains[c]) |->
                               vec[Ppi(FromEnd(d.chains[c], i))]]
UnloadSequence(d, c, out) == [i \in 1..Len(d.chains[c]) |-> out[Ppo(FromEnd(d.chains[c], i))]]
                               \o Padding(d, c)

(***************************************************************************)
(* Launch to capture: LOC clocks the functional logic once, LOS shifts the  *)
(* chain once more with a fresh bit at its head; other inputs hold.         *)
(***************************************************************************)
ScanFlops(d) == UNION {Range(d.chains[c]) : c \in 1..Len(d.chains)}

DeriveLocCapture(d, vec, out) ==
  [n \in DOMAIN vec |-> IF \E f \in ScanFlops(d) : n = Ppi(f)
                        THEN out[Ppo(CHOOSE f \in ScanFlops(d) : n = Ppi(f))] ELSE vec[n]]

DeriveLosCapture(d, vec, heads) ==
  [n \in DOMAIN vec |->
     IF \E c \in 1..Len(d.chains) : \E p \in 1..Len(d.chains[c]) : n = Ppi(d.chains[c][p])
     THEN LET c == CHOOSE c \in 1..Len(d.chains) : \E p \in 1..Len(d.chains[c]) : n = Ppi(d.chains[c][p])
              p == CHOOSE p \in 1..Len(d.chains[c]) : n = Ppi(d.chains[c][p])
          IN  IF p = 1 THEN heads[c] ELSE vec[Ppi(d.chains[c][p - 1])]
     ELSE vec[n]]

(* The asynchronous controls driven by an input, held off during a scan test. *)
ResetPis(d) == {Net(f, CTL) : f \in {g \in Flops(d) : g.ctl # "none"}} \cap d.nl.pis
===============================================================================
