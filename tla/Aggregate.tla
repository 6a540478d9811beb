------------------------------- MODULE Aggregate -------------------------------
(***************************************************************************)
(* The chip's coverage from the fault tables of its scopes: each block      *)
(* tested inside (INTEST), and the assembly of their boundaries tested      *)
(* outside (EXTEST).  A fault on a boundary pin is known by the pin, not by *)
(* its net, and is counted by one scope only.                               *)
(*                                                                          *)
(* A scope is [name, role, rows, index]: its fault rows and the boundary    *)
(* pin each net is, if any, as [block, wbc, pin].  A branch has its stem's  *)
(* net and so its key and class: there is one row for a net and a value.    *)
(***************************************************************************)
EXTENDS SocAssembly

InwardPins  == {"TO_CORE", "FROM_CORE"}
OutwardPins == {"FROM_SYS", "TO_SYS"}
OutwardPin(c) == IF IsInputCell(c) THEN "FROM_SYS" ELSE "TO_SYS"

(* The boundary pin a cell stands for: an assembly's cell names its block. *)
Boundary(c, i, scope) == IF "tag" \in DOMAIN c THEN c.tag ELSE [block |-> scope, wbc |-> i]
PinOf(c, i, pin, scope) == [pin |-> pin] @@ Boundary(c, i, scope)

(* The cells in file order; where two claim a net the later one is remembered. *)
RECURSIVE WbcPinIndex(_, _, _)
WbcPinIndex(m, cells, scope) ==
  IF cells = <<>> THEN <<>>
  ELSE LET c == m.cells[Last(cells)]
       IN  [n \in {Conn(c, pin) : pin \in {p \in DOMAIN c.pins : Concrete(c.pins[p])}} |->
              PinOf(c, Last(cells), CHOOSE pin \in DOMAIN c.pins : c.pins[pin] = n, scope)]
           @@ WbcPinIndex(m, Front(cells), scope)

(* A chip's EXTEST view has nets of its own: its boundary ports, traced to their cells. *)
BoundaryPorts(view) == {view.ports[k] : k \in {j \in 1..Len(view.ports) : view.ports[j].name[1] \in {"wbi", "wbo"}}}
IndexOfPorts(m, ports, scope) ==
  [n \in {p.net : p \in ports} |->
     LET i == (CHOOSE p \in ports : p.net = n).name[2] IN PinOf(m.cells[i], i, OutwardPin(m.cells[i]), scope)]
WbcPinIndexExtest(m, scope) == IndexOfPorts(m, BoundaryPorts(FuseExtest(m)), scope)

Key(scope, r) ==
  IF r.net \in DOMAIN scope.index THEN <<"wbc", scope.index[r.net], r.sa>> ELSE <<"local", scope.name, r.net, r.sa>>

OwningRole(scope, r) ==
  IF r.net \notin DOMAIN scope.index THEN scope.role
  ELSE LET pin == scope.index[r.net].pin
       IN  IF pin \in InwardPins THEN "block" ELSE IF pin \in OutwardPins THEN "assembly" ELSE scope.role

InDenominator(r) == r.exclusion = "none" /\ r.status \notin {"redundant", "collapsed"}

Class(scope, r) ==
  IF InDenominator(r) THEN IF OwningRole(scope, r) = scope.role THEN "owned" ELSE "foreign"
  ELSE IF r.exclusion = "wbr_decoupled" THEN "handoff" ELSE "by_design"

RowsOf(scope, class) == {r \in scope.rows : Class(scope, r) = class}
KeysOf(scope, class) == {Key(scope, r) : r \in RowsOf(scope, class)}
BoundaryKeys(keys) == {k \in keys : k[1] = "wbc"}

OwnedKeys(scope)     == KeysOf(scope, "owned")
HandoffKeys(scope)   == KeysOf(scope, "foreign") \cup BoundaryKeys(KeysOf(scope, "handoff"))
AccountedKeys(scope) == BoundaryKeys(KeysOf(scope, "by_design"))
OfAll(scopes, f(_)) == UNION {f(scopes[s]) : s \in 1..Len(scopes)}

(***************************************************************************)
(* aggregate_project: no key counted by two scopes, every key handed over   *)
(* counted or accounted for by another, and something to count.  Its first  *)
(* guard, tops that differ, holds of every project that load_project takes. *)
(***************************************************************************)
DoubleCounted(scopes) ==
  \E s, t \in 1..Len(scopes) : /\ scopes[s].name # scopes[t].name
                               /\ OwnedKeys(scopes[s]) \cap OwnedKeys(scopes[t]) # {}
Unowned(scopes) ==
  OfAll(scopes, HandoffKeys) \ (OfAll(scopes, OwnedKeys) \cup OfAll(scopes, AccountedKeys))
Counted(scopes) == {<<s, r>> \in (1..Len(scopes)) \X UNION {scopes[s].rows : s \in 1..Len(scopes)} :
                      r \in RowsOf(scopes[s], "owned")}

\* Mutant: a key handed over is not looked for.
AggregateUnguarded(scopes) ==
  [why |-> IF DoubleCounted(scopes) THEN "double_count" ELSE IF Counted(scopes) = {} THEN "empty" ELSE "",
   counted |-> Counted(scopes)]

AggregateProject(scopes) ==
  [why |-> IF DoubleCounted(scopes) THEN "double_count"
           ELSE IF Unowned(scopes) # {} THEN "unowned"
           ELSE IF Counted(scopes) = {} THEN "empty" ELSE "",
   counted |-> Counted(scopes)]
================================================================================
