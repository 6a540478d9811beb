------------------------------ MODULE MCBlockFlow ------------------------------
(***************************************************************************)
(* The designs of the model: small enough to try every state and input, and *)
(* between them with every kind of flip-flop, enable and clock the passes   *)
(* tell apart.  Net 2 is the clock, 3 a second clock or control, 4 and 5    *)
(* data inputs; flops and gates drive the nets from 6 on.                   *)
(***************************************************************************)
EXTENDS BlockFlow, CellMap

U(k) == <<"u", k>>
Clk == Port(ClockPort, "input", 2)
In(name, net)  == Port(<<name>>, "input", net)
Out(name, net) == Port(<<name>>, "output", net)
Gate(type, a, b, y) == Cell(type, [A |-> a, B |-> b, Y |-> y])
FF(type, clk, d, q, more) == Cell(type, [CLK |-> clk, D |-> d, Q |-> q] @@ more)
Module(ports, cells) == [ports |-> ports, cells |-> [i \in {U(k) : k \in DOMAIN cells} |-> cells[i[2]]]]

(* A flop held by an enable of either level, and one with a reset. *)
Enables == Module(<<Clk, In("c", 3), In("a", 4), Out("y", 9)>>,
  <<FF("edfxtp", 2, 8, 6, [DE |-> 3]), FF("edfxtl", 2, 6, 7, [DE |-> 3]),
    Gate("xor", 4, 7, 8), Gate("or", 6, 7, 9)>>)

Resets == Module(<<Clk, In("c", 3), In("a", 4), Out("y", 9)>>,
  <<FF("dfrtp", 2, 4, 6, [RESET_B |-> 3]), FF("dfstp", 2, 6, 7, [SET_B |-> 8]),
    Gate("or", 3, 4, 8), Gate("xor", 6, 7, 9)>>)

(* Enables tied to a constant, a constant D. *)
Constants == Module(<<Clk, In("a", 4), Out("y", 9), Out("z", One)>>,
  <<FF("edfxtp", 2, 4, 6, [DE |-> One]), FF("edfxtp", 2, 4, 7, [DE |-> Zero]),
    FF("edfxtl", 2, One, 8, [DE |-> Zero]), Gate("xor", 6, 7, 9)>>)

(* Two clock domains: 8 is launched in one and captured in the other only. *)
TwoClocks == Module(<<Clk, In("k", 3), In("a", 4), Out("y", 11)>>,
  <<FF("dfxtp", 2, 4, 6, <<>>), FF("dfxtp", 3, 8, 7, <<>>), FF("dfxtp", 2, 10, 9, <<>>),
    Gate("inv", 6, 6, 8), Gate("and", 7, 9, 10), Gate("or", 9, 4, 11)>>)

(* One scannable flop beside those that are not. *)
Mixed(type, more) == Module(<<Clk, In("c", 3), In("a", 4), Out("y", 8)>>,
  <<FF("dfxtp", 2, 4, 6, <<>>), FF(type, 2, 6, 7, more), Gate("xor", 6, 7, 8)>>)

(* A gated clock; no output. *)
Gated == Module(<<Clk, In("c", 3), In("a", 4), Out("y", 7)>>,
  <<Gate("and", 2, 3, 6), FF("dfxtp", 6, 4, 7, <<>>)>>)
Unobserved == Module(<<Clk, In("a", 4)>>, <<FF("dfxtp", 2, 4, 6, <<>>)>>)

(* A block small enough to wrap. *)
Block == Module(<<Clk, In("a", 4), Out("y", 7)>>,
  <<FF("dfxtp", 2, 8, 6, <<>>), Gate("inv", 6, 6, 7), Gate("and", 4, 6, 8)>>)

Small == {Enables, Resets, Constants, TwoClocks, Gated, Unobserved, Block,
          Mixed("dfbbp", [RESET_B |-> 3, SET_B |-> 3]), Mixed("dfxtn", <<>>), Mixed("mydff", <<>>),
          Mixed("sdfxtp", [SCD |-> 4, SCE |-> 3]), Mixed("edfxtp", <<>>)}

(* Up to three domains of these sizes, for the planning of chains. *)
Wide(a, b, c) ==
  Module(<<In("a", 1), In("k1", 2), In("k2", 3), In("k3", 4)>>,
         [k \in 1..(a + b + c) |->
            FF("dfxtp", IF k <= a THEN 2 ELSE IF k <= a + b THEN 3 ELSE 4, 1, 10 + k, <<>>)])

MCDesigns == Small \cup {Wide(n[1], n[2], n[3]) :
                           n \in {x \in (1..5) \X (0..4) \X (0..3) : x[1] + x[2] + x[3] > 3}}
===============================================================================
