------------------------------ MODULE FaultSolver ------------------------------
(***************************************************************************)
(* The SAT formulas of the ATPG solver, as the sets of input vectors that   *)
(* satisfy them.  The faulty machine exists only inside the fault's out-    *)
(* cone and reads the good one outside it; the miter asks for a difference  *)
(* at one of a chosen set of nets.                                          *)
(***************************************************************************)
EXTENDS ScanView

(* The out-cone in breadth-first order, from the fault net. *)
BfsFrom(g, net) ==
  LET walk[q \in Seq(1..Len(g.nets)) \X Nat] ==
        LET order == q[1] head == q[2]
        IN  IF head > Len(order) THEN order
            ELSE walk[<<order \o Listed(FanoutTargets(g, order[head]) \ Range(order)), head + 1>>]
  IN  walk[<<<<net>>, 1>>]

ReachedObservables(g, order) == SelectSeq(order, LAMBDA n : n \in g.obs)

(* Faulty copies of the nets of the out-cone over the good values of the rest. *)
Within(g, nets) ==
  [nets |-> g.nets, fn |-> g.fn,
   ranks |-> Values([r \in 1..Len(g.ranks) |-> Restrict(g.ranks[r], DOMAIN g.ranks[r] \cap nets)])]

FaultyMachine(g, cone, good, f) ==
  LET stuck == [good EXCEPT ![f.net] = IF f.sa = 1 THEN {0} ELSE {}]
  IN  EvaluateCombinational(Within(g, cone \ {f.net}), stuck, NoFaults(g), {0})

(* The nets of the cone at which a vector tells the faulty machine from the good one. *)
Differences(g, cone, good, f) ==
  LET bad == FaultyMachine(g, cone, good, f) IN {n \in cone : bad[n] # good[n]}

(***************************************************************************)
(* The fast untestability proof looks at the first budget nets of the       *)
(* breadth-first order only: those that are observed or feed a net outside  *)
(* are a cut every effect of the fault has to cross.                        *)
(***************************************************************************)
FupRegion(order, budget) == Range(SubSeq(order, 1, budget))
FupApplies(order, budget) == budget > 0 /\ Len(order) > budget

FupCut(g, order, budget) ==
  LET region == FupRegion(order, budget)
  IN  {n \in region : n \in g.obs \/ FanoutTargets(g, n) \ region # {}}

(* Where the group of observables after the first k ends. *)
GroupEnd(total, k, size, done, maxGroups) ==
  IF done >= maxGroups - 1 THEN total ELSE IF k + size < total THEN k + size ELSE total
================================================================================
