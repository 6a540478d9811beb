----------------------------- MODULE MCSocProject -----------------------------
(***************************************************************************)
(* Projects of two blocks, in two versions each, and the glues between      *)
(* them; the assemblies of comb projects; patterns over small chains.       *)
(***************************************************************************)
EXTENDS SocProject, CellMap

U(k) == <<"u", k>>
In(name, net)  == Port(<<name>>, "input", net)
Out(name, net) == Port(<<name>>, "output", net)
Gate(type, a, b, y) == Cell(type, [A |-> a, B |-> b, Y |-> y])
FF(clk, d, q) == Cell("dfxtp", [CLK |-> clk, D |-> d, Q |-> q])
Cells(cells) == [i \in {U(k) : k \in DOMAIN cells} |-> cells[i[2]]]
Module(ports, cells) == [ports |-> ports, cells |-> Cells(cells)]

(* A core with one output, and one with two. *)
Core == Module(<<Port(ClockPort, "input", 2), In("a", 4), Out("y", 7)>>,
  <<FF(2, 8, 6), Gate("inv", 6, 6, 7), Gate("and", 4, 6, 8)>>)
WideCore == Module(<<Port(ClockPort, "input", 2), In("a", 4), Out("y", 6), Out("z", 7)>>,
  <<FF(2, 4, 6), Gate("xor", 4, 6, 7)>>)

Written(m, plan, json) == [json |-> json, manifest |-> ManifestFromResult(m, plan, json)]
Followed(m, plan) == Written(m, plan, StitchScanJson(m, plan))
Stitched(m) == Followed(m, BuildPlan(m, 1, 0))
Prepared(core) == Stitched(WrapPorts(core, PortNames(core), TRUE).m)

(* An instance in the glue: clock 2, enable 5, and the nets of its other pins. *)
Inst(se, si, so, a, y) ==
  Cell("block", (ClockPort :> 2) @@ (WbrSe :> se) @@ (WbrSi :> si) @@ (WbrSo :> so) @@ (<<"a">> :> a) @@ (<<"y">> :> y))
Glue(y, so, gates, b1, b2) ==
  [ports |-> <<Port(ClockPort, "input", 2), In("a", 3), In("si", 4), In("se", 5), Out("so", so), Out("y", y)>>,
   cells |-> Cells(gates) @@ (Instance(1) :> b1) @@ (Instance(2) :> b2)]

(* Gates before and between the blocks. *)
Gates == Glue(13, 11, <<Gate("inv", 3, 3, 6), Gate("and", 7, 3, 8)>>,
              Inst(5, 4, 10, 6, 7), Inst(5, 10, 11, 8, 13))
(* A loop over both blocks, the second first in the chain. *)
Loop == Glue(8, 11, <<Gate("or", 8, 3, 6)>>, Inst(5, 10, 11, 6, 7), Inst(5, 4, 10, 7, 8))
(* One input for both, an output left open. *)
Broadcast == Glue(7, 11, <<>>, Inst(5, 4, 10, 3, 7), Inst(5, 10, 11, 3, Open))
(* A block outside the chain; a scan-out in its middle, an input tied to a constant. *)
Broken == Glue(8, 11, <<>>, Inst(5, 4, 10, 3, 7), Inst(5, 3, 11, 7, 8))
Early == Glue(8, 10, <<>>, Inst(5, 4, 10, One, 7), Inst(3, 10, 11, 7, 8))

Names == <<<<"b1">>, <<"b2">>>>
Tops == <<<<"t1">>, <<"t2">>>>
SocPorts == [si |-> <<"si">>, so |-> <<"so">>, se |-> <<"se">>, clk |-> ClockPort]
Versions(small, wide) == <<<<small, wide>>, <<wide, small>>>>

ScanProject(glue, blocks, names, tops) ==
  [mode |-> "scan", top |-> <<"soc">>, names |-> names, tops |-> tops, blocks |-> blocks, glue |-> glue, ports |-> SocPorts,
   supplied |-> [m |-> <<>>, order |-> <<>>]]

(* A comb assembly has the boundary cells as buffers, in some order, perhaps not all. *)
Buffered(c) == [c EXCEPT !.type = IF IsInputCell(c) THEN "wbc_in" ELSE "wbc_out",
                         !.pins = [p \in DOMAIN c.pins \cap {"FROM_SYS", "TO_CORE", "FROM_CORE", "TO_SYS"} |-> c.pins[p]]]
AsBuffers(m, gone) ==
  [m EXCEPT !.cells = [i \in DOMAIN m.cells \ gone |->
                         IF IsBoundary(m.cells[i]) THEN Buffered(m.cells[i]) ELSE m.cells[i]]]
Supplied(m, reversed) ==
  [m |-> m, order |-> IF reversed THEN Reverse(Listing(BoundaryCells(m))) ELSE Listing(BoundaryCells(m))]
CombProject(glue, blocks, names, tops, gone, reversed) ==
  [mode |-> "comb", top |-> <<"soc">>, names |-> names, tops |-> tops, blocks |-> blocks, glue |-> glue, ports |-> SocPorts,
   supplied |-> Supplied(AsBuffers(ComposeSoc(glue, <<blocks[1][1].json, blocks[2][1].json>>, names, TRUE), gone), reversed)]

ProjectsOf(blocks) ==
  {ScanProject(glue, blocks, Names, Tops) : glue \in {Gates, Loop, Broadcast, Broken, Early}}
  \cup {CombProject(Gates, blocks, Names, Tops, {}, FALSE), CombProject(Gates, blocks, Names, Tops, {}, TRUE),
        CombProject(Broadcast, blocks, Names, Tops, {}, FALSE),
        CombProject(Gates, blocks, Names, Tops, {Sub(2, WrapOut(<<"y">>))}, FALSE)}
  \cup {ScanProject(Gates, blocks, <<<<"b">>, <<"b">>>>, tops) : tops \in {<<<<"t">>, <<"t">>>>, Tops}}
MCProjects == ProjectsOf(Versions(Prepared(Core), Prepared(WideCore)))

(* A block with chains of two and one cells, beside another block and a bypass. *)
Seg(block, chain, offset, length) == [block |-> block, chain |-> chain, offset |-> offset, length |-> length]
Chain(segments, length) == [length |-> length, segments |-> segments]
AccessManifests ==
  {[max |-> 4, chains |-> <<Chain(<<Seg("c", 1, 3, 1), Seg("b", 1, 1, 2), Seg("c", 2, 0, 1)>>, 4),
                            Chain(<<Seg("b", 0, 0, 1), Seg("b", 2, 1, 1)>>, 2)>>],
   [max |-> 4, chains |-> <<Chain(<<Seg("b", 2, 0, 1), Seg("b", 1, 1, 2)>>, 3)>>],
   [max |-> 2, chains |-> <<Chain(<<Seg("b", 2, 0, 1), Seg("b", 1, 1, 2)>>, 3)>>],
   [max |-> 3, chains |-> <<Chain(<<Seg("b", 1, 0, 2), Seg("c", 2, 2, 1)>>, 3)>>],
   [max |-> 3, chains |-> <<Chain(<<Seg("b", 1, 0, 2), Seg("b", 2, 1, 1)>>, 3)>>]}
Values == {<<<<x, y>>, <<z>>>> : x, y, z \in BOOLEAN}
MCAccesses == [access : AccessManifests, block : {"b"}, load : Values, unload : Values, longest : {2}]
===============================================================================
