------------------------------ MODULE ProjectRun ------------------------------
(***************************************************************************)
(* The control of a hierarchical project: every block is tested inside in a *)
(* workspace of its own, the chip around them is composed of their          *)
(* boundaries and tested outside, and the results are added up.  The        *)
(* blocks' files belong to other flows and may change at any time; a run    *)
(* may die between any two steps and the next one finds the databases it    *)
(* left.  What composing and adding up compute are parameters of the steps: *)
(* SocProject computes them from the netlists.                              *)
(*                                                                          *)
(* A project is [mode, top, names, tops, blocks, ...]: blocks[k] are the     *)
(* versions of block k's file, the assembly is scope Len(blocks) + 1, and a  *)
(* scope's workspace is named after the scope.                              *)
(***************************************************************************)
EXTENDS Retarget

CONSTANTS Projects,
          MaxRuns,     \* runs of a project
          MaxUpdates,  \* changes of a block's file
          Accesses     \* access manifests and the pattern retargeted over them

(* Every block has a top. *)
ASSUME ProjectsAreDescribed ==
  \A p \in Projects : Len(p.blocks) \in Nat /\ DOMAIN p.tops = 1..Len(p.blocks)

ASSUME RunsAreCounted == MaxRuns \in Nat

(* The pattern is one of the block the manifest describes: a segment is as long as the   *)
(* block's chain it holds, which the code takes on trust.                                *)
ASSUME AccessesFit ==
  \A a \in Accesses :
    /\ a.access.max \in Nat /\ a.longest \in Nat
    /\ \A c \in 1..Len(a.access.chains) :
         /\ a.access.chains[c].length \in Nat
         /\ \A s \in OwnSegments(a.access.chains[c], a.block) :
              /\ s.offset \in Nat /\ s.length \in 0..a.longest
              /\ s.chain \in DOMAIN a.load \cap DOMAIN a.unload
              /\ {a.load[s.chain], a.unload[s.chain]} \subseteq Seq(BOOLEAN)
              /\ Len(a.load[s.chain]) = s.length /\ Len(a.unload[s.chain]) = s.length

VARIABLES project,
          files,   \* the version each block's file has
          staged,  \* what each workspace holds: <<block, version>>, or the assembly's versions
          db,      \* the netlist of each workspace's campaign: [exists] or [exists, of]
          run,     \* the run under way: [phase, scope, clean, touched, left]
          updates,
          report   \* what the last step told

vars == <<project, files, staged, db, run, updates, report>>

N == Len(project.blocks)
Blocks == 1..N
Assembly == N + 1
Workspace(s) == IF s = Assembly THEN <<<<"_interconnect">>, project.top>> ELSE <<project.names[s], project.tops[s]>>

Silent == [op |-> "none"]
NoCampaign == [exists |-> FALSE]
Idling == [phase |-> "idle", scope |-> 0, clean |-> FALSE, touched |-> FALSE, left |-> MaxRuns]

Init ==
  /\ project \in Projects
  /\ files = [k \in Blocks |-> 1]
  /\ staged = [w \in {Workspace(s) : s \in 1..Assembly} |-> <<>>]
  /\ db = [w \in {Workspace(s) : s \in 1..Assembly} |-> NoCampaign]
  /\ run = Idling /\ updates = 0 /\ report = Silent

(* Blocks have tops of their own, and the assembly another. *)
LoadProject ==
  /\ \A a, b \in Blocks : a # b => project.tops[a] # project.tops[b]
  /\ project.top \notin Range(project.tops)

StartProject(clean) ==
  /\ run.phase = "idle" /\ run.left > 0 /\ LoadProject
  /\ run' = [phase |-> "stage", scope |-> 1, clean |-> clean, touched |-> FALSE, left |-> run.left - 1]
  /\ report' = Silent
  /\ UNCHANGED <<project, files, staged, db, updates>>

Stop == run' = [run EXCEPT !.phase = "idle"]
Goto(phase, scope) == run' = [run EXCEPT !.phase = phase, !.scope = scope]

(* The block's files are copied, with a check recorded as passed. *)
StageBlock ==
  /\ run.phase = "stage" /\ run.scope \in Blocks
  /\ staged' = [staged EXCEPT ![Workspace(run.scope)] = <<run.scope, files[run.scope]>>]
  /\ Goto("campaign", run.scope)
  /\ report' = Silent
  /\ UNCHANGED <<project, files, db, updates>>

(* A comb project brings its assembly, a scan project's is composed of the blocks' files. *)
UseSupplied ==
  /\ run.phase = "stage" /\ run.scope = Assembly /\ project.mode = "comb"
  /\ Goto("campaign", Assembly)
  /\ report' = Silent
  /\ UNCHANGED <<project, files, staged, db, updates>>

Composing == run.phase = "stage" /\ run.scope = Assembly /\ project.mode = "scan"

(* The composed netlist m, and what tracing its wrapper chain made of it. *)
Compose(m, man) ==
  /\ Composing
  /\ staged' = [staged EXCEPT ![Workspace(Assembly)] = files]
  /\ report' = [op |-> "compose", m |-> m, manifest |-> man]
  /\ IF man.why = "" THEN Goto("campaign", Assembly) ELSE Stop
  /\ UNCHANGED <<project, files, db, updates>>

Done(s) == IF s = Assembly THEN Goto("aggregate", 0) ELSE Goto("stage", s + 1)

\* Mutant: a campaign of another netlist is resumed.
RunAtpgResumed(w, s) ==
  /\ db' = [db EXCEPT ![w] = IF run.clean \/ ~@.exists THEN [exists |-> TRUE, of |-> staged[w]] ELSE @]
  /\ Done(s)

(* --clean empties the workspace; a campaign of another netlist is refused. *)
RunAtpg(w, s) ==
  \/ /\ run.clean \/ ~db[w].exists
     /\ db' = [db EXCEPT ![w] = [exists |-> TRUE, of |-> staged[w]]]
     /\ Done(s)
  \/ /\ ~run.clean /\ db[w].exists
     /\ IF db[w].of = staged[w] THEN Done(s) ELSE Stop
     /\ UNCHANGED db

SimScope ==
  /\ run.phase = "campaign"
  /\ RunAtpg(Workspace(run.scope), run.scope)
  /\ report' = Silent
  /\ UNCHANGED <<project, files, staged, updates>>

(* The scopes as they were read, and what adding them up gave. *)
AggregateRun(scopes, result) ==
  /\ run.phase = "aggregate"
  /\ report' = [op |-> "chip", scopes |-> scopes, result |-> result]
  /\ Stop
  /\ UNCHANGED <<project, files, staged, db, updates>>

Crash ==
  /\ run.phase # "idle"
  /\ Stop /\ report' = Silent
  /\ UNCHANGED <<project, files, staged, db, updates>>

(* A block's own flow writes its files anew. *)
UpdateBlock(k, version) ==
  /\ updates < MaxUpdates /\ version # files[k]
  /\ files' = [files EXCEPT ![k] = version]
  /\ updates' = updates + 1
  /\ run' = [run EXCEPT !.touched = TRUE]
  /\ report' = Silent
  /\ UNCHANGED <<project, staged, db>>

(* The retargeting of a block's pattern and its replay on the chip. *)
RetargetPattern(a) ==
  /\ run = Idling /\ report = Silent /\ ParseSocAccess(a.access)
  /\ report' = [op |-> "retarget", access |-> a.access, block |-> a.block, want |-> a.load, after |-> a.unload,
                pattern |-> RetargetBlockPattern(SerializeVector(a.load, a.unload, a.longest), a.access, a.block)]
  /\ UNCHANGED <<project, files, staged, db, run, updates>>

(* The run, whatever composing and adding up come to. *)
RunNext ==
  \/ \E clean \in BOOLEAN : StartProject(clean)
  \/ StageBlock
  \/ UseSupplied
  \/ \E m, man : Compose(m, man)
  \/ SimScope
  \/ \E scopes, result : AggregateRun(scopes, result)
  \/ Crash
  \/ \E k \in Blocks : \E version \in 1..Len(project.blocks[k]) : UpdateBlock(k, version)
  \/ \E a \in Accesses : RetargetPattern(a)

RunSpec == Init /\ [][RunNext]_vars
-------------------------------------------------------------------------------
(* The chip's report is of the files the project names: unless one was replaced while    *)
(* the run was under way, every block's campaign graded the file as it is and the        *)
(* assembly's the boundaries of those files, whatever earlier runs left behind and      *)
(* whichever scopes share a name.                                                        *)
AggregateIsCurrent ==
  report.op = "chip" /\ ~run.touched =>
    /\ \A k \in Blocks : db[Workspace(k)].of = <<k, files[k]>>
    /\ project.mode = "scan" => db[Workspace(Assembly)].of = files

(* A retargeted pattern does on the chip what it did on the block: shifted in, it leaves *)
(* in the block's chains the values wanted there, whatever they held; and shifted out    *)
(* after the capture, it passes when the block's chains hold what is expected and fails  *)
(* when one of them differs, whatever the rest of the chip holds.                        *)
Positions(chain) == 1..chain.length
Wanted(vals, chain, block, p) ==
  LET s == SegmentAt(chain, block, p - 1) IN vals[s.chain][p - s.offset]
RetargetedPatternLoads ==
  report.op = "retarget" /\ report.pattern.why = "" =>
    LET chains == report.access.chains
        own(c, p) == Owned(chains[c], report.block, p - 1)
    IN  \A c \in 1..Len(chains) : \A before \in [Positions(chains[c]) -> BOOLEAN] :
          /\ LET loaded == Loaded(before, report.pattern.load[c])
             IN  \A p \in Positions(chains[c]) : own(c, p) => loaded[p] = Wanted(report.want, chains[c], report.block, p)
          /\ VerifySoc([mask |-> <<report.pattern.mask[c]>>, unload |-> <<report.pattern.unload[c]>>],
                       <<Unloaded(before, report.access.max)>>)
               <=> \A p \in Positions(chains[c]) : own(c, p) => before[p] = Wanted(report.after, chains[c], report.block, p)
===============================================================================
