------------------------------ MODULE MCScanTest ------------------------------
(* Instances of ScanTest: a design with two chains of different length, both *)
(* kinds of asynchronous control, a direct flop-to-flop stage, a redundant   *)
(* gate and a flop output that is also a primary output; and a short chain   *)
(* whose last flop captures a function of its own output.                    *)
EXTENDS ScanTest

N(n) == <<n>>
Cell(i, t, pins, out) == [inst |-> <<i>>, type |-> t, ins |-> WireInputs(t, pins), out |-> <<out>>]
P(p, n) == <<p, <<n>>>>
FF(i, dn, si, q) == [inst |-> <<i>>, type |-> "DFF", ctl |-> "none", out |-> <<q>>,
   ins |-> <<P("D", dn), P("CK", "ck"), P("SDI", si), P("SE", "se")>>]
FFC(i, kind, pin, dn, si, q) == [inst |-> <<i>>, type |-> "DFF", ctl |-> kind, out |-> <<q>>,
   ins |-> <<P("D", dn), P("CK", "ck"), P("SDI", si), P("SE", "se"), P(pin, "rst")>>]
Main == [nl |-> [pis |-> {N("ck"), N("se"), N("s0"), N("s1"), N("rst"), N("a")},
                 obs |-> {N("y"), N("q1")},
                 nodes |-> << FFC("f1", "reset", "RESET_B", "d1", "s0", "q1"), FF("f2", "q1", "q1", "q2"),
                     FFC("f3", "set", "SET_B", "d3", "s1", "q3"),
                     Cell("g1", "AND2", {P("A","q1"),P("B","a")}, "x"),
                     Cell("g2", "XOR2", {P("A","x"),P("B","q2")}, "r"),
                     Cell("g3", "OR2", {P("A","x"),P("B","r")}, "y"),
                     Cell("g4", "XOR2", {P("A","x"),P("B","q3")}, "d3"),
                     Cell("g5", "A21OI", {P("A1","q2"),P("A2","a"), P("B1","q3")}, "d1") >>],
         chains |-> <<<<N("f1"), N("f2")>>, <<N("f3")>>>>, scanIn |-> <<N("s0"), N("s1")>>,
         scanOut |-> <<N("q2"), N("q3")>>, scanEnable |-> N("se"), clock |-> N("ck")]

Feedback ==
  [nl |-> [pis |-> {N("ck"), N("se"), N("s0"), N("a")}, obs |-> {N("q1")},
           nodes |-> << FF("f1", "a", "s0", "q1"), FF("f2", "d2", "q1", "q2"),
                        Cell("g1", "INV", {P("A", "q1")}, "n"),
                        Cell("g2", "XOR2", {P("A", "q2"), P("B", "n")}, "d2"),
                        Cell("g3", "INV", {P("A", "a")}, "u") >>],
   chains |-> <<<<N("f1"), N("f2")>>>>, scanIn |-> <<N("s0")>>, scanOut |-> <<N("q2")>>,
   scanEnable |-> N("se"), clock |-> N("ck")]

MCDesigns == [main |-> Main, feedback |-> Feedback]
Mode(design, launch, resetFaults, collapse) ==
  [design |-> design, launch |-> launch, resetFaults |-> resetFaults, collapse |-> collapse]
EngineModes == {Mode("main", "none", TRUE, TRUE), Mode("main", "loc", FALSE, FALSE),
                Mode("main", "los", TRUE, FALSE), Mode("feedback", "none", FALSE, TRUE),
                Mode("feedback", "loc", FALSE, FALSE)}
FeedbackModes == {Mode("feedback", "none", FALSE, FALSE)}
===============================================================================
