------------------------------ MODULE ScanStitch ------------------------------
(***************************************************************************)
(* Scan insertion: which flip-flops are scannable, how they are divided     *)
(* into chains, and the rewriting of the netlist.  A plan that cannot be    *)
(* made is the reason it was refused, a string in place of the chains.      *)
(***************************************************************************)
EXTENDS YosysModule

ScanIn(k)  == <<"scan_in", k>>
ScanOut(k) == <<"scan_out", k>>
ScanEnable == <<"scan_en">>
WbrSi == <<"wbr_si">>
WbrSo == <<"wbr_so">>
WbrSe == <<"wbr_se">>

RECURSIVE Ascending(_)
Ascending(S) == IF S = {} THEN <<>> ELSE <<Min(S)>> \o Ascending(S \ {Min(S)})

Total(s) == LET sum[n \in 0..Len(s)] == IF n = 0 THEN 0 ELSE sum[n - 1] + s[n] IN sum[Len(s)]
Ceil(n, k) == (n + k - 1) \div k

(***************************************************************************)
(* Eligibility.  One asynchronous control is kept by a scan cell that has   *)
(* it, an enable by a multiplexer in front of D; both controls at once, a   *)
(* falling edge, an unknown type or a pin without a net are not scannable.  *)
(***************************************************************************)
AsyncControl(meta) ==
  CASE meta.clear # ""  -> [kind |-> "reset", pin |-> meta.clear]
    [] meta.preset # "" -> [kind |-> "set", pin |-> meta.preset]
    [] OTHER            -> [kind |-> "none", pin |-> ""]

ReasonForFF(c) ==
  LET meta  == FFMeta[c.type]
      async == AsyncControl(meta)
  IN  CASE meta.si # ""                                              -> "existing_scan_cell"
        [] meta.clear # "" /\ meta.preset # ""                       -> "has_async_reset_set"
        [] async.kind # "none" /\ ~Concrete(Conn(c, async.pin))      -> "unsupported_ff_shape"
        [] meta.enable # "" /\ Conn(c, meta.enable) = Open           -> "unsupported_ff_shape"
        [] meta.trigger = "NEGEDGE"                                  -> "negedge_clock"
        [] ~Concrete(Conn(c, meta.clock))                            -> "no_clock_pin"
        [] Conn(c, meta.data) = Open                                 -> "no_data_pin"
        [] ~Concrete(Conn(c, meta.output))                           -> "no_output_pin"
        [] OTHER                                                     -> "eligible"

(* A type outside the cell map is reported when its name looks like a flip-flop's. *)
FFishTypes == {"mydff"}

Eligibility(c) ==
  CASE c.type \in ScanCellTypes -> "existing_scan_cell"
    [] c.bit >= 0               -> "wbr_scan_cell"
    [] c.type \in FFishTypes    -> "unknown_cell_type"
    [] IsFF(c)                  -> ReasonForFF(c)
    [] OTHER                    -> "not_ff"

EligibleFFs(m) == {i \in DOMAIN m.cells : Eligibility(m.cells[i]) = "eligible"}
IneligibleFFs(m) ==
  {[instance |-> i, reason |-> Eligibility(m.cells[i])] :
     i \in {j \in DOMAIN m.cells : Eligibility(m.cells[j]) \notin {"eligible", "not_ff"}}}

ClockOf(m, i) == Conn(m.cells[i], FFMeta[m.cells[i].type].clock)
ClockNets(m) == Ascending({ClockOf(m, i) : i \in EligibleFFs(m)})

(* The flip-flops of a domain in name order, and all of them domain after domain. *)
DomainFFs(m, clk) ==
  LET ffs == {i \in EligibleFFs(m) : ClockOf(m, i) = clk}
      order == Ascending({i[2] : i \in ffs})
  IN  [k \in 1..Len(order) |-> CHOOSE i \in ffs : i[2] = order[k]]
OrderedFFs(m) == FlattenSeq([k \in 1..Len(ClockNets(m)) |-> DomainFFs(m, ClockNets(m)[k])])
DomainSizes(m) == [k \in 1..Len(ClockNets(m)) |-> Len(DomainFFs(m, ClockNets(m)[k]))]

(***************************************************************************)
(* Chain lengths.  maxLen = 0 stands for no limit.                          *)
(***************************************************************************)
BalancedChainLengths(n, k) == [i \in 1..k |-> n \div k + (IF i <= n % k THEN 1 ELSE 0)]

\* Mutant: each further chain goes to the largest domain, not to the one with the longest chains.
RECURSIVE ToLargestDomain(_, _, _)
ToLargestDomain(sizes, counts, left) ==
  IF left = 0 THEN counts
  ELSE LET open == {x \in 1..Len(sizes) : counts[x] < sizes[x]}
           w == CHOOSE x \in open : \A y \in open : sizes[y] < sizes[x] \/ (sizes[y] = sizes[x] /\ x <= y)
       IN  ToLargestDomain(sizes, [counts EXCEPT ![w] = @ + 1], left - 1)

RECURSIVE Widened(_, _, _)
Widened(sizes, counts, left) ==
  IF left = 0 THEN counts
  ELSE LET open == {x \in 1..Len(sizes) : counts[x] < sizes[x]}
           shorter(y, x) == sizes[y] * counts[x] < sizes[x] * counts[y]
           equal(y, x) == sizes[y] * counts[x] = sizes[x] * counts[y]
           w == CHOOSE x \in open : \A y \in open : shorter(y, x) \/ (equal(y, x) /\ x <= y)
       IN  Widened(sizes, [counts EXCEPT ![w] = @ + 1], left - 1)

ChainsPerDomain(sizes, k) == Widened(sizes, [x \in 1..Len(sizes) |-> 1], k - Len(sizes))

PrefixSums(s) == {Total(SubSeq(s, 1, i)) : i \in 1..Len(s)}

ChainLengths(sizes, k) ==
  LET balanced == BalancedChainLengths(Total(sizes), k)
      counts   == ChainsPerDomain(sizes, k)
  IN  IF PrefixSums(sizes) \subseteq PrefixSums(balanced) THEN balanced
      ELSE FlattenSeq([x \in 1..Len(sizes) |-> BalancedChainLengths(sizes[x], counts[x])])

ChainCountFromOptions(sizes, chains, maxLen) ==
  IF maxLen > 0 /\ chains = 1
  THEN Max({1, Total([x \in 1..Len(sizes) |-> Ceil(sizes[x], maxLen)])}) ELSE chains

(* The lengths _build_plan settles on for domains of these sizes, or why it refuses. *)
Refusal(why) == [why |-> why, lengths |-> <<>>]
WithinLimit(lengths, maxLen) ==
  IF maxLen > 0 /\ \E l \in Range(lengths) : l > maxLen THEN Refusal("chain_too_long")
  ELSE [why |-> "", lengths |-> lengths]
LengthsFor(sizes, k, maxLen) ==
  CASE sizes = <<>>     -> Refusal("no_eligible_ffs")
    [] k < Len(sizes)   -> Refusal("fewer_chains_than_domains")
    [] k > Total(sizes) -> Refusal("more_chains_than_ffs")
    [] OTHER            -> WithinLimit(ChainLengths(sizes, k), maxLen)
PlanLengths(sizes, chains, maxLen) ==
  LengthsFor(sizes, ChainCountFromOptions(sizes, chains, maxLen), maxLen)

(***************************************************************************)
(* The plan: consecutive flip-flops fill one chain after the other.  The    *)
(* scan-in nets, the scan enable and then the multiplexers' nets are        *)
(* numbered from the module's first free net.                               *)
(***************************************************************************)
ChainFFs(m, lengths, c) ==
  LET before == Total(SubSeq(lengths, 1, c - 1))
  IN  SubSeq(OrderedFFs(m), before + 1, before + lengths[c])

(* A chain: its ports, its cells from scan-in to scan-out, the net each is loaded from. *)
ChainRecord(m, ffs, c) ==
  [scan_in |-> ScanIn(c), scan_out |-> ScanOut(c), cells |-> ffs,
   nets |-> [p \in 1..Len(ffs) |->
               IF p = 1 THEN NextNetId(m) + c - 1 ELSE OutputNet(m.cells[ffs[p - 1]])],
   out |-> OutputNet(m.cells[Last(ffs)])]

PlannedChains(m, lengths) == [c \in 1..Len(lengths) |-> ChainRecord(m, ChainFFs(m, lengths, c), c)]
ScanNames(k) == {ScanIn(c) : c \in 1..k} \cup {ScanOut(c) : c \in 1..k} \cup {ScanEnable}

Plan(m, why, chains) ==
  [why |-> why, clock_nets |-> ClockNets(m), se |-> NextNetId(m) + Len(chains),
   chains |-> IF why = "" THEN chains ELSE <<>>]
Planned(m, why, chains) ==
  CASE why # "" -> Plan(m, why, <<>>)
    [] ScanNames(Len(chains)) \cap PortNames(m) # {} -> Plan(m, "name_exists", <<>>)
    [] \E c \in 1..Len(chains) : Cardinality({ClockOf(m, i) : i \in Range(chains[c].cells)}) > 1
         -> Plan(m, "spans_domains", <<>>)
    [] OTHER -> Plan(m, "", chains)

PlanOf(m, sized) == Planned(m, sized.why, PlannedChains(m, sized.lengths) \o <<>>)
BuildPlan(m, chains, maxLen) == PlanOf(m, PlanLengths(DomainSizes(m), chains, maxLen))

(***************************************************************************)
(* The wrapper chain: the boundary cells in the order of their positions,   *)
(* between the ports that wrap_ports made.                                  *)
(***************************************************************************)
WrapperCells(m) == {i \in DOMAIN m.cells : m.cells[i].bit >= 0}

WrapperOrder(m) ==
  LET bits == Ascending({m.cells[i].bit : i \in WrapperCells(m)})
  IN  [p \in 1..Len(bits) |-> CHOOSE i \in WrapperCells(m) : m.cells[i].bit = bits[p]]

BuildWrapperChains(m) ==
  IF WrapperCells(m) = {} THEN <<>>
  ELSE <<[scan_in |-> WbrSi, scan_out |-> WbrSo, cells |-> WrapperOrder(m)]>>

(***************************************************************************)
(* The rewritten netlist.  A scan cell has no enable of its own: an enabled *)
(* flip-flop loads its D while the enable is active and its own Q           *)
(* otherwise, through three gates and an inverter on four new nets.         *)
(***************************************************************************)
MuxedFFs(m) == SelectSeq(OrderedFFs(m), LAMBDA i :
                 LET c == m.cells[i] IN FFMeta[c.type].enable # "" /\ Concrete(Conn(c, FFMeta[c.type].enable)))
MuxBase(m, plan, i) ==
  plan.se + 1 + 4 * ((CHOOSE k \in 1..Len(MuxedFFs(m)) : MuxedFFs(m)[k] = i) - 1)

\* Mutant: the level of the enable is ignored.
HoldMuxAlwaysHigh(c, i, base) ==
  LET enable == Conn(c, FFMeta[c.type].enable)
  IN  <<"en_inv", i[2]>> :> Cell("inv", [A |-> enable, Y |-> base])
      @@ <<"en_d", i[2]>> :> Cell("and", [A |-> Conn(c, "D"), B |-> enable, Y |-> base + 1])
      @@ <<"en_q", i[2]>> :> Cell("and", [A |-> OutputNet(c), B |-> base, Y |-> base + 2])
      @@ <<"en_or", i[2]>> :> Cell("or", [A |-> base + 1, B |-> base + 2, Y |-> base + 3])

HoldMux(c, i, base) ==
  LET enable == Conn(c, FFMeta[c.type].enable)
      high   == FFMeta[c.type].level = "HIGH"
  IN  <<"en_inv", i[2]>> :> Cell("inv", [A |-> enable, Y |-> base])
      @@ <<"en_d", i[2]>> :> Cell("and", [A |-> Conn(c, "D"), B |-> IF high THEN enable ELSE base,
                                          Y |-> base + 1])
      @@ <<"en_q", i[2]>> :> Cell("and", [A |-> OutputNet(c), B |-> IF high THEN base ELSE enable,
                                          Y |-> base + 2])
      @@ <<"en_or", i[2]>> :> Cell("or", [A |-> base + 1, B |-> base + 2, Y |-> base + 3])

ScanData(m, plan, i) ==
  LET c      == m.cells[i]
      meta   == FFMeta[c.type]
      enable == Conn(c, meta.enable)
  IN  CASE i \in Range(MuxedFFs(m)) -> MuxBase(m, plan, i) + 3
        [] meta.enable # "" /\ (enable = One) # (meta.level = "HIGH") -> OutputNet(c)
        [] OTHER -> Conn(c, meta.data)

ScanCell(m, plan, i, si) ==
  LET c     == m.cells[i]
      async == AsyncControl(FFMeta[c.type])
      pins  == [CLK |-> ClockOf(m, i), D |-> ScanData(m, plan, i), SDI |-> si, SE |-> plan.se,
                Q |-> OutputNet(c)]
  IN  CASE async.kind = "reset" -> Cell("scanff_r", pins @@ [RESET_B |-> Conn(c, async.pin)])
        [] async.kind = "set"   -> Cell("scanff_s", pins @@ [SET_B |-> Conn(c, async.pin)])
        [] OTHER                -> Cell("scanff", pins)

StitchedCells(m, plan) ==
  LET place(i) == CHOOSE cp \in (1..Len(plan.chains)) \X (1..Len(OrderedFFs(m))) :
                    cp[2] <= Len(plan.chains[cp[1]].cells) /\ plan.chains[cp[1]].cells[cp[2]] = i
      si(i)    == plan.chains[place(i)[1]].nets[place(i)[2]]
  IN  FoldSeq(LAMBDA i, cells : cells @@ HoldMux(m.cells[i], i, MuxBase(m, plan, i)),
              [i \in DOMAIN m.cells |->
                 IF i \in EligibleFFs(m) THEN ScanCell(m, plan, i, si(i)) ELSE m.cells[i]],
              MuxedFFs(m))

StitchScanJson(m, plan) ==
  [ports |-> m.ports
             \o [c \in 1..Len(plan.chains) |-> Port(plan.chains[c].scan_in, "input", plan.chains[c].nets[1])]
             \o <<Port(ScanEnable, "input", plan.se)>>
             \o [c \in 1..Len(plan.chains) |-> Port(plan.chains[c].scan_out, "output", plan.chains[c].out)],
   cells |-> StitchedCells(m, plan) @@ <<>>]

ChainCells(chains) == [c \in 1..Len(chains) |->
  [scan_in |-> chains[c].scan_in, scan_out |-> chains[c].scan_out, cells |-> chains[c].cells]]

(* What the manifest records.  A file's hash stands for its contents. *)
ManifestFromResult(m, plan, json) ==
  [source |-> m, hash |-> json, chains |-> ChainCells(plan.chains), wrapper_chains |-> BuildWrapperChains(m),
   scan_enable |-> ScanEnable, clock_nets |-> Range(plan.clock_nets),
   ineligible |-> IneligibleFFs(m), latest_check |-> "not-run"]
===============================================================================
