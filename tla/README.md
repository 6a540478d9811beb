# A TLA+ model of faultflow

faultflow generates and grades manufacturing tests. A Python control plane (`faultflow/`)
drives a C++ core (`src/core/`): netlists are compiled to a levelled graph, faults are
enumerated and collapsed, a SAT solver looks for a test of each fault, simulators grade
the tests, and a SQLite database remembers what was detected, what was proved untestable
and which vectors to keep. Campaigns are long, run in parallel, get killed and are
resumed; what a user finally reads is one number, the coverage. These modules are about
what has to be true for that number to mean something.

Paths below are relative to the repository root. "Model-checked" means checked by TLC on
the bounded instance named; "proved" means proved by TLAPS for every value of the
constants.

## 1. The system

| Part | State | Operations | Interacts with |
|---|---|---|---|
| Campaign store (`src/core/db/sqlite_store.cpp`, `faultflow/db/`) | rows of `faults`, `runs`, `vectors`, `fault_detections`, `atpg_candidates`, `candidate_rejections`, `blocked_patterns`, `campaigns` | one transaction per function | every loop |
| Native ATPG loop (`runner/progressive_atpg.py`, `core/atpg/progressive_atpg.cpp`, `runner/parallel_solve.py`) | round, seen and rejected patterns, remaining faults, wave results, timeout counters | random phase, waves of solves, grading, verdicts, stall test | store, solver, simulator, worker pool |
| Transition loop (same file) | the same over pairs | the same, random pairs in every round | the same |
| Scan pipeline (`scan/detection_pipeline.py`) | the same, plus the pending candidate | golden gate, Tier-A check, view grading, protocol grading, Q-stem sweep | store, solver, both simulators |
| Compaction (`runner/compaction.py`, `core/atpg/compaction.cpp`) | targets, kept vectors, open cubes | reverse-order selection, cube packing, writing a new run | store, simulator |
| Shell session (`shell/session.py`, `service/flow.py`) | flags, checkpoint, netlists, manifest, campaign fingerprints, test-point stack | one per command | files, store |
| Netlist, faults (`core/ir`, `core/fault`) | compiled graph, fault list | compile, split branches, enumerate, collapse | engines |
| Simulators (`core/sim`, `core/scan`) | net words, flop words | evaluate, clock, sample | netlist |
| Solver (`core/atpg/fault_solver.cpp`, `cnf_encoder.cpp`) | blocking clauses, observable groups | stuck-at, incremental, two-frame solve, fast untestability proof | netlist |
| Scan view (`scan/atpg_view.py`, `protocol.py`, `site_resolution.py`, `verify.py`) | pseudo ports, site map | build view, serialise vector, compare | netlist, simulators |
| Scan insertion and checks (`scan/stitch.py`, `checks.py`, `domain_reach.py`, `wrap/ports.py`) | netlist, manifest, verdict with the hash it is for | wrap, plan and stitch chains, scan-check, cross-domain tagging | files, scan view |
| Wrapper views (`scan/wbr_view.py`) | reduced view with boundary ports | fuse for INTEST or EXTEST, map ports back | scan view, SoC projects |
| SoC projects (`project/`) | workspaces of the blocks and of the assembly, chip report | stage, compose, trace the chain, one campaign per scope, aggregate | block files, store, runner |
| Retargeting (`retarget/`, `cli.py`) | block pattern, access manifest | place, pad and mask, replay | pattern files |
| Rule check, test points, reports, CLI | files | see section 7 | store, files |

The behaviours that are hard to test, each with its line, are the `hazards` of
`PROJECT.json`. The main families:

- **verdicts used late.** A wave is solved against one state of the store and consumed
  against another.
- **blocking.** A pattern withheld from the solver turns "no other test" into "no test".
- **several transactions for one fact.** A vector, its detections and the run's count are
  written separately in the native loop and together in the scan pipeline; the process may
  die in between and the campaign is resumed.
- **two engines for one question.** A cheap view credits most faults, the protocol
  simulator the others, a golden simulator stands by.
- **session state in four places** (memory, checkpoint, manifest, database) written one
  after the other.
- **netlists rewritten in place.** Stitching, wrapping, fusing and composing renumber nets and
  move readers; one net too many or one reader left behind is a different circuit.
- **one fault in two tables.** A pin between a block and the chip around it is seen by two
  campaigns and may be counted twice, or by nobody.
- **files of other flows.** A project grades copies of files that may change between two of
  its steps.
- **termination** of loops that retry, escalate, refuse and block.

## 2. Modules

| Module | Models | Built on |
|---|---|---|
| `FaultStore` | the tables and each transaction over them | |
| `FaultLedger` | abstract: what a campaign promises about verdicts | |
| `NativeAtpg` | `run_progressive_native_atpg` | `FaultStore`, implements `FaultLedger` |
| `TransitionAtpg` | `run_progressive_transition_atpg` | `NativeAtpg`, implements it |
| `ScanAtpg` | `run_progressive_scan_atpg`, `_process_scan_candidate` | `FaultStore` |
| `Compaction` | `compact_run`, `compact_run_dynamic` | `FaultStore` |
| `Session` | the shell's commands | |
| `Netlist` | gates, pin wiring, compile, branches, enumeration, collapsing | |
| `FaultSim` | bit-parallel and golden simulation | `Netlist` |
| `ScanView` | pseudo-port view, sites, load and unload sequences | `FaultSim` |
| `FaultSolver` | what each SAT encoding is satisfied by | `ScanView` |
| `ScanTest` | one test from solve to credit, pulse by pulse | `FaultSolver` |
| `YosysModule` | a netlist as Yosys writes it: ports, cells, nets, and its evaluation | |
| `CellMap` | the cell map's gates, flops, scan and boundary cells | |
| `ScanStitch` | `plan_scan_json`, `stitch_scan_json` | `YosysModule` |
| `ScanChecks` | `check_scan` | `ScanStitch` |
| `DomainReach` | `compute_cross_domain_net_ids` | `ScanChecks` |
| `Wrapper` | `wrap_ports`, the reduced view, INTEST and EXTEST fusion | `DomainReach` |
| `BlockFlow` | the commands on one block: wrap, scan, edit, check, stage, tag, INTEST | `Wrapper` |
| `SocAssembly` | `compose_soc`, `trace_wrapper_chain`, the chip's manifest | `Wrapper` |
| `Aggregate` | pin index, canonical keys, ownership, the guards of `aggregate_project` | `SocAssembly` |
| `Retarget` | access manifest, `retarget_block_pattern`, `verify_soc` | |
| `ProjectRun` | the control of `run_project` and `retarget`, with crashes and block updates | `Retarget` |
| `SocProject` | the same with what its steps compute from the netlists | `Aggregate`, `ProjectRun` |
| `NativeTypeProofs`, `NativeAtpgProofs` | proofs about the store, the ledger, the native and the transition loop | `NativeAtpg`, `TransitionAtpg` |
| `ScanAtpgProofs` | proofs about scan campaigns | `ScanAtpg` |
| `CompactionProofs`, `SessionProofs` | proofs about compaction and the session | `Compaction`, `Session` |
| `SimulatorProofs`, `ScanTestProofs` | proofs about simulators and solver, and about a scan test | `FaultSolver`, `ScanTest` |
| `ProjectProofs` | proofs about project runs and retargeting | `ProjectRun` |
| `MC*` | instances for TLC | |

There are three layers. The *campaign* modules treat the netlist as a relation between
patterns and faults, chosen arbitrarily in the initial state, and keep all control: an
answer of the solver is any answer that relation allows. The *engine* modules compute the
relation on concrete small designs and check that solver, view, protocol and the two
simulators agree on it. What the first layer assumes of the engines is what the second
checks. The *netlist* modules are about what is done to a design before a campaign sees it,
and to the results of several campaigns afterwards; they evaluate the rewritten netlist and
compare it with the one it came from, state by state and input by input.

### Campaign layer

`FaultStore` has a variable per column family: `status`, `detBy`, `certModel`,
`unresolved` for `faults`, and `runs`, `vectors`, `detections`, `satOutcome`. Its operators
carry the name of the function they translate, with its `WHERE` clause as the guard; a
composed module uses one of them per step, so an interleaving point is a commit.

`NativeAtpg` keeps a program counter and the loop's local variables. A step is what the
loop does between two points at which it can be interrupted: `AppendVector`, `GradeVector`
and `CountVector` are the three transactions of `_accept_and_simulate`; `DispatchWave`
solves the next survivors and caches the verdicts; `SatAccepted`, `SatNoProgress`, `Unsat`,
`Timeout`, `Unknown` consume one. `Crash` forgets memory and keeps the store; `PoolBreaks`,
`WaveRaises` and `SolveRaises` are the error paths. `remaining`, `seen` and `rejected` are
the code's sets, `timeouts` its `prior_timeout_count`. `tried` is a history variable: the
tiers a fault was really given. `WaveSize` stands for workers times `SAT_WAVE_FACTOR`, and
fault order, which the code computes from cone sizes, is by id with reconvergent sites last.

`ScanAtpg` adds the candidate tables. The netlist is three relations: what the view
observes, which Q stems a captured bit exposes, which the protocol passes. `Hold` is the
overwriting of reset inputs; the model keeps the raw pattern and the held one apart, as the
code does. `EnginesAgree = FALSE` lets the bit-parallel grading miss what the golden check
saw.

`Compaction` starts after an ATPG run, whose caller gets the candidates as they were before
set and reset were held (`Held`), and models the reverse pass, the packing passes, the
choice of the best one and the two separate writes of the compacted run. `OrdersOf` is the set
of orders a pass may take: the stable sorts are the one permutation that is sorted and keeps
ties in place, a shuffle is any.

`Session` treats a content as its hash. Commands that write several files are several
steps; `Raise` leaves the session running with the flags it had, `Crash` forces a resume
from the checkpoint, `CrashInManifest` tears the manifest.

### Engine layer

A word of the simulator is the set of lanes that hold 1. `Netlist` models pin wiring by
name (`wire_inputs`, all 93 gate types of the table), gate functions, splitting of fanout
branches and the level each buffer gets, and the classes of the collapser. `FaultSim` has
both engines: the parallel one evaluates rank by rank with faults injected per lane, the
golden one evaluates one fault at a time. `ScanView` builds the reduced view, including the
set/reset mux before a pseudo output. `ScanTest` composes them: solve (with blocked
patterns, the fast untestability proof, growing observable groups), load, launch, capture,
unload in both simulators, and the crediting of `_process_scan_candidate`. The model always
carries every fault through the protocol, which the code does only for the faults it cannot
grade on the view; that is the oracle the credits are compared with.

### Netlist layer

Net names are numbers, as in the JSON; instance and port names are tuples that say what they
are (`<<"wbi", i>>`, `<<"sub", k, i>>`), so that uniqueness is by construction where the code
makes names unique and is not where it does not. A constant or missing connection is a value
of its own. Two netlists are compared by `Settle`, the values of all nets under given flop
states and inputs.

`ScanStitch` plans chains per clock domain within the count and length limits, replaces the
flops, rebuilds enables as hold muxes and chains the wrapper cells. `ScanChecks` is the
checker that reads netlist and manifest afterwards, rule by rule. `BlockFlow` has one action
per command; `Edit` is a change of the scanned netlist by someone else (a chain pin rewired, a
scan-out moved), which is what scan-check is there for.

`ProjectRun` has the steps of a project run: one scope's staging, composing or campaign, the
aggregation, crashes and updates. What composing and aggregating compute are parameters of
its steps; `SocProject` extends it and computes them from the netlists, so each of its steps
is one of `ProjectRun`. In `SocProject` a campaign is the
netlist its database is of and a table of rows: which rows are detected, excluded or redundant
follows from the view, except for one *odd* row on a boundary net that is left undetected,
proved redundant or collapsed. One row stands for a net and a value; branches share the key
and class of their stem. `UpdateBlock` is another flow rewriting a block's files,
`run.touched` a history variable for it. Of the manifest's validation `LoadProject` has the
checks on tops; the others are about the form of the file.

`Retarget` keeps sequences in the order they are shifted and contents in chain order; `Loaded`
and `Unloaded` are the shift register the tester sees.

## 3. Runs

Twelve runs, ten that pass and two that exhibit a disagreement. Bounds are in the `.cfg`
files.

| Run | Question | Instance |
|---|---|---|
| `native_serial` | after any crash and resume, are verdicts, evidence, numbering and terminal reasons right, and is the loop a fault ledger? | 3 faults (one excluded, one reconvergent), every detection relation over 2 patterns, 2 runs, 3 rounds, 2 timeout tiers |
| `native_waves` | are late verdicts about active faults, is what is blocked fruitless, does the run end? | 3 faults, 2 workers, waves of 2, all failures |
| `transition_loop` | does re-drawing the pairs each round change anything? | 2 faults, 2 draws, 2 runs |
| `scan_campaigns` | is acceptance atomic, is each fault credited by the engine trusted for it, do certificates and blocked rows stay true? | a logic fault, a Q stem, an excluded fault; 2 patterns, one of them held to the other; 3 launch styles; 2 runs |
| `scan_ends` | does a scan run end whatever is refused? | 2 faults, engines may disagree |
| `compact_dynamic` | does compaction keep what the raw run detects? | every netlist of 2 inputs and 2 faults, 3 tests, 2 runs |
| `session` | can any order of commands grade an unchecked or outdated netlist, or mix designs in a campaign? | Verilog design, one wrap, one test point, good and bad chain counts |
| `scan_engine` | do solver, view, protocol and both simulators agree fault by fault? | 2 designs, every vector, stuck-at, LOC and LOS |
| `scan_insertion` | does stitching keep the function, are chains as short as allowed, does scan-check's verdict mean that chains shift, are cross-domain faults untestable, is the INTEST view the wrapped block? | twelve designs of up to three flops, all states and inputs; one edit; ninety divisions of flops into clock domains |
| `soc_project` | is the chip's number of the files named, with each boundary fault counted once; does the composed chain shift, is the EXTEST view the interconnect, does a retargeted pattern load and unload as on the block? | eleven projects of two blocks (gates, loop, broadcast, broken and early chains, a missing boundary cell, equal names), two runs, one update, a crash anywhere |
| `compact_scan` | violation, section 4 | |
| `scan_qstem` | violation, section 4 | |

Why the bounds suffice for what is asked. A wrong redundancy verdict needs two faults
competing for one pattern and a second pattern that does not help: two patterns and two
faults in scope. A late verdict needs a wave with at least two faults and one after it:
three faults, waves of two. A crash is interesting once per transaction, a resume once: two
runs. Retry needs two tiers and a stall a round after progress: three rounds. In the engine
designs the chains have different lengths (so that padding matters), both asynchronous
controls, a direct flop-to-flop stage, a redundant gate, a compound cell, and a flop
feeding itself; 20 faults per word instead of 63 makes several batches. The netlist designs
have one instance of each case the rewriting distinguishes (enables of either level, set and
reset, falling edge, constant data, a gated clock, two domains, flops that cannot be scanned,
both wrapper models): rewriting is local to a flop, a port or a pair of neighbours in a chain. Two blocks make an order, a chain
between them and a shared net; a second run and one update are what stale workspaces need.

`CHECK_DEADLOCK FALSE` is set where the system may stop: when `MaxRuns` invocations are
over, or in `soc_project` when the last run is. The session, scan insertion and engine runs
check deadlock.

**Fairness.** `FairSpec` is weak fairness of `Step`, the disjunction of everything an
invocation does once started. A sequential program keeps executing, and the solver has a
conflict limit and a time limit, so each call returns; that is all the fairness assumes.
Nothing obliges a user to start an invocation, and neither crashes nor failures are fair.

Each property of a passing run has a mutant of a mapped definition, kept next to the
definition, that violates it.

## 4. Where code and documentation disagree

Shown by a run:

- `compact_scan`. Compaction of a stuck-at scan campaign simulates the view, which does not
  see Q stems credited from a captured value, and drops the vectors only they need, although
  `compact_run` says that coverage is unchanged.
- `scan_qstem`. A comment says the view grades Q-stem faults exactly as the protocol would.
  A stuck Q seen only through the flop's own captured bit is unloaded through the stuck
  output itself, and the tester may see the fault-free response.

Met while modelling, without a run of their own:

- With `fault_drop_sat = false` an accepted vector is graded against its own target only
  (`progressive_atpg.py:1087`), but later counts as seen for every fault (`1054-1058`); a fault
  whose only test it is gets that test blocked and is then certified redundant. TLC finds it
  with `DropSat = FALSE` in `NativeSerial.cfg`. A test asserts that both settings find the same
  redundant set.
- `docs/architecture/cell_libraries.md:61-64` calls the ordered `inputs` of the library
  authoritative; `wire_inputs` (`graph_compiler.cpp:81`) goes by pin name. sky130 `and2b`
  evaluates `A_N & ~B`, the full adder's `CIN` and the OSU035 `MX2X1`'s `S0` have no slot and
  read 0.
- `aggregate.py:211-213` calls the core side of the EXTEST view "safed/dangling with no live
  fault site". Its nets do have rows; one the campaign did not get to prove redundant is
  counted by the assembly and again by the block. `ChipCountsOnce` names this exception.
- Two blocks may have one name (`manifest.py:158` compares tops): their boundary pins then have
  equal keys, the guard against double counting skips scopes of one name, and a comb project
  that lacks one of the cells passes the guard on handed-over keys.
- A block pin that the glue ties to a constant or leaves open becomes a net nobody drives
  (`assemble.py:272-346`); `ExtestSeesInterconnect` leaves such pins out.
- `soc_scan.py:56-57` says that a trace that succeeds is one `check_scan` accepts. The last CTO
  is not compared with the scan-out port, nor the cells' enables with each other;
  `TracedChainShifts` states what the trace does give.
- In a comb project a net shared by two boundary cells (a broadcast, or blocks wired directly)
  has one entry in the pin index, and the run is refused for an unowned key.
- Retargeting checks neither that chain indices count from 0 nor that a segment is as long as
  the block's chain.

- `add_tp` reuses the database of the baseline, whose campaign has another `netlist_hash`;
  `ensure_campaign` (`db/campaign.py:111`) refuses, so the documented iteration
  (`docs/user_guide/testpoints.md:59-60`) does not get past its first point. `Session` has
  this as `AddTpRefused`.
- `reject_tp` restores the netlist and keeps the scan flags (`session.py:361`;
  `docs/user_guide/tcl_shell.md:90`), and `add_tp` never makes the new netlist the session's
  source (`session.py:344`; `tcl_shell.md:89`).
- A refused `add_tp` leaves the netlist it wrote in `tp/iter<k>`. A session that reads that file
  and calls `add_tp` again overwrites its own source, and its scan flags are then about a netlist
  that is gone; `Session` ends the undisturbed history (`smooth`) there.
- Launch on shift with an asserted reset: the shift gates the reset, the view's launch frame
  does not, and the view qualifies transitions the protocol does not. `CreditIsObserved`
  names this exception; without it TLC refutes the property.
- A wave whose first result raises leaves no results, and the loop solves serially instead
  of treating the faults as UNKNOWN (`progressive_atpg.py:1003` and `1012`).
- Wrapper-stimulus keys make a blocked pattern longer than the solver's input list, and the
  next solve of that fault throws (`fault_solver.cpp:676-686`, `720-724`); `ExtraKeys` in
  `NativeAtpg`.
- `_escalation_headroom` says its counter equals the tiers attempted; reconvergent faults
  start at 1 and UNKNOWN counts too (`progressive_atpg.py:518`, `876`, `1131`). The longest
  tier is still always tried before a stall (`StallOnlyAtLongestTier`), unless a wave raises
  midway: the faults it leaves get the default verdict UNKNOWN, which is charged like an
  attempt.
- The vectors a scan run returns are the raw candidates, not the held ones it stored
  (`detection_pipeline.py:1403`, `1692`, `578-591`), and compaction selects among those and
  stores them. With `ResetHolds <- HoldB` and no Q stems in `CompactScan.cfg` TLC refutes
  `CoveragePreserved`.
- `docs/collapsing_rules.md:3-5` promises identical detecting sets; for a net that is both
  observed and the only input of a gate the collapsed fault is detected by more vectors than
  its representative. What counting needs, and `CollapsedIsCovered` checks, is one direction.
- A crash between the two writes of a compacted run leaves a complete run without vectors
  (`compaction.py:187-189`). Detections name the raw run, so evidence is not lost.

## 5. Proofs

All theorems hold for every value of the constants that satisfies the assumptions at the end
of this section: any number of faults, patterns, rounds, tiers, workers, runs, inputs,
orders, profiles and files, every detection relation, and every crash point.

Hardly any of the properties is inductive. Each component has an inductive invariant, proved
conjunct by conjunct with one step per action; lemmas named `...Frame` say what an action
leaves alone and are all that the other layers see of it.

### The store and the ledger

`NativeTypeProofs`, about `StoreSpec`, the store under arbitrary callers:

- `StoreInvariant`: types, every redundant fault carries its model, every detected fault
  its evidence, no detected fault is unresolved.
- `StoreEvidence`, `StoreDetectionIsFinal`: no transaction undoes or re-attributes a
  detection.

About `FaultLedger`, as the loop instantiates it: `LedgerIsSound`, a detected fault has a
stored test that detects it and a redundant one has none (in `NativeAtpgProofs`).

### The native loop

`NativeAtpgProofs`:

- `NativeTypeOK`, `NativeTargetsActive`, `NativeDetectionIsBacked`: with and without
  `fault_drop_sat`;
- `NativeRedundantIsUntestable` and `NativeKeepsLedger` (the refinement of `FaultLedger`):
  assuming `DropSat`, which is needed (section 4).

`NativeInvariant` proves `AtpgInv`, in layers:

1. `TypeInv`: types and what the control state says of the current row;
2. `LoopInv`: in the SAT loop the survivors are active and, with fault dropping, every
   active fault is in `remaining`. So a vector is graded against all that is active.
3. `SoundInv`: hence no seen pattern detects an active fault, hence blocking a seen pattern
   withholds nothing, hence a cached UNSAT stays true, hence a redundant fault is
   untestable. Each of the four needs the one before it.
4. `StoredInv`: the vector being graded is already stored, so a crash after grading leaves
   its evidence.
5. `CertificatesAreCurrent`: one campaign has one redundancy model (the fingerprint refuses
   another), so invalidation on resume reopens nothing.

What the loop owes to the faults it leaves undecided, in the same module:

- `NativeStoreInvariant`, `NativeDetectionHasEvidence`, `NativeDetectionIsFinal`: the store's
  invariant and the finality of detections, under this caller;
- `NativeBlockedAreFruitless`: from `SoundInv`;
- `NativeSkipsNoActiveFault`: from `VisitInv`, an active fault is ahead of the walk or has a
  verdict of this round;
- `NativeStallsAtLongestTier`: from `TierInv` (a fault is charged only after an attempt at the
  tier it is charged for) and `WaveInv` (waves stay in step with the walk, so that a fault the
  walk reaches has a verdict or gets one from the next wave). It assumes `~WaveErrors`, which
  is needed (section 4).

### The transition loop

`TransitionIsNative`: every behaviour of `TransitionAtpg` is, without its batch, one of
`NativeAtpg`. The step in question is the head of a round, where the transition loop draws its
pairs again. `TwinInv` says that before the first round nothing has been seen, and that once
the batch has been through all of it is in `seen_patterns`; so the first draw is the native
loop's, less its repetitions (`UnseenPairs`), and a later one adds nothing
(`TransitionBatchIsSeen`). The invariants of the native loop then hold of the transition loop:
`TransitionDetectionIsBacked`, `TransitionKeepsLedger`, `TransitionWalk`. This is
`KeepsNativeLoop` without its fairness, which run `transition_loop` checks. `TInit` says that
the features the transition loop lacks are off; the argument needs that of the random stop.

### Scan campaigns

`ScanAtpgProofs` proves `ScanInvariant`, without any assumption on the engines: types;
`ControlInv`, the run row, the candidate in hand and the reason to stop; `RowInv`, which fault
may carry which verdict; `LoopInv`, the round's sets against the store; and that detections are
backed. `ScanEvidence` and `ScanSweepSettles` (no Q stem is open after a stalled or exhausted
run, and none is reopened) follow.

Three further invariants stand on it:

- `ScanAcceptanceIsAtomic`: `AtomicInv` counts, for every run, accepted candidates against
  vectors. Candidate ids are unique in a run and the candidate in hand is pending, so changing
  its status moves exactly one row from one count to the other.
- `ScanBlockedAreFruitless`, `ScanRedundancyIsSound`, `ScanCommitOverwritesNothing` assume
  `EnginesAgree`. `SoundInv` says of logic faults that no pattern seen detects an active one,
  and none rejected its fault, *as held*, and that a cached UNSAT was right up to the rejected
  ones; `BlockedInv` says that rows of `blocked_patterns` are about Q stems and withhold no
  test. If the engines disagree a rejected pattern may be a test, and the three are not claimed.

### Compaction

`CompactionProofs` proves `CompactionInvariant`: `SelectInv` (the reverse walk leaves in
`remaining` only what no vector it passed detects, and the contributions are the rest),
`PackInv` (queue and open cubes together hold what was selected, and each open cube's vector
detects its faults) and `OutInv` (the vectors to be written detect what the raw ones do).
`PlaceLosesNothing` and `OrderKeepsCubes` are the lemmas on merging and reordering.

- `CompactionPackingLosesNothing` and `CompactionEvidence` hold for every campaign.
- `NativeCompactionPreservesCoverage` assumes no Q stems and no held inputs, as in native
  campaigns; run `compact_scan` refutes the property without. Its invariant `LineageInv`
  speaks of every pair of raw and compacted runs in the database: the second either still
  lacks its vectors and shows it by its count, or sees what the first sees.

### The session

`SessionProofs` proves `SessionInvariant`: types, `PathsExist` (every path that a session, a
checkpoint, the stack or a running command names is a file), `CheckpointNamesSource`,
`PassedIsSound`, and `FlagsInv` (in an undisturbed session, what memory and checkpoint claim
about the scanned netlist, the manifest and the scan campaign is so, except while a command is
rewriting them). `SessionGradesCurrentNetlist`, `SessionCampaignIsOfOneDesign` and
`SessionStaleCampaignIsKnown` follow.

### Simulators and solver

`SimulatorProofs` is about any levelised graph (`Levelised`: every net is an input, a flop's
output or driven by one gate, and a gate reads only nets of lower ranks), any set of faults in
a word and any input.

- `CycleIsGolden`: one clock pulse of the bit-parallel engine does, in each lane, what the golden
  simulator does with that lane's fault alone. The argument goes rank by rank: gate functions
  and fault masks act on lanes separately (`EvalLane`), and so do the flops' clears, sets, scan
  and data inputs.
- `BatchIsExact`, `TransitionBatchIsExact`: hence grading a batch reports exactly the faults
  whose response alone differs from the good one (and, for a transition, whose net makes the
  edge), and no lane outside the batch.
- The lemmas about the solver: on a graph without flip-flops the golden values are the only
  assignment that satisfies every gate (`GoldenSettles`, `ResponsesSettle`). Two such assignments
  that differ do so first at a gate whose inputs agree (`FirstDifference`); so a difference is excited at the fault,
  stays in its out-cone (`OutsideCone`, `ConeIsEnough`), is seen at the observables reached from it
  (`DifferencesAreSeen`), and cannot leave a region without crossing its cut (`CutIsEnough`).

`ScanTestProofs`, for any designs that satisfy the assumptions below, any batch size, budget and
number of groups:

- `ScanLanesAreGolden` (`LanesMatchGolden`). `LaneInv` says that from power-up on every lane of
  every batch is in the state of the golden machine of its fault, and that the samples taken so
  far agree; the split of the fault list into batches (`Batched`) links a lane to its machine.
- `SolverIsExact` (`VerdictIsExact`). `VerdictInv` says of each solver phase which fault it is about
  and which conditions brought it there, and of a verdict that it is `Exact`. What the four ways
  to an answer need is in `SatAnswer`, `UnsatAnswer`, `CutAnswer` and `TransitionAnswer`: a
  satisfying vector is one the simulator detects the fault by, since the simulator's lane is the
  settled faulty machine; the groups of the sweep together are all reached observables
  (`GroupEndIs`, `PrefixIs`); an unsatisfiable cut leaves no vector; and the two-frame formula is
  the launch condition and the stuck-at condition on the captured vector.

### Project runs and retargeting

`ProjectProofs` is about `RunSpec`, the project run whatever composing and aggregating compute:

- `ReportIsCurrent` (`AggregateIsCurrent`). The invariant follows a run scope by scope: what is
  staged for the scopes passed is the files as they are, unless one was touched, and the
  campaigns run so far are of what is staged. Scopes that share a name still have workspaces of
  their own because `LoadProject` asks for distinct tops.
- `RetargetingIsRight` (`RetargetedPatternLoads`): for every pattern and access manifest that fit.
  The register after k shifts is the last k bits shifted in over the first of the former content
  (an induction over the shifts); padding in front of the load and behind the unload then puts
  each owned position at its bit, and the mask is true exactly there.

The steps of `SocProject` are steps of `ProjectRun` by its text, so both hold of it; that
instance is what run `soc_project` checks.

### Assumptions

Fault ids are a finite set (in the native loop, of naturals; `ScanFaultsAreCounted` asks of scan
campaigns that sets of faults have a size), `Excluded` and `Collapsed` are disjoint subsets of
it, sizes are positive, options are Booleans (`ScanModes`), sentinels are not values
(`NoneIsNothing`, `TornIsNoManifest`), held inputs have levels (`HoldsAreLevels`), patterns of
the compaction are assignments. Of the designs of a scan test `DesignsAssumption` asks that the
compiled graph is levelised and knows outputs and scan-outs and that the fault list lists
graded faults; `ViewsAssumption` that the view's graph is levelised and has no flip-flops, that
boundary sites and scanned flops are in it, and that the breadth-first order from a net is
closed under fanout and lists the reached observables. They are what compilation and the
recursive walk give; TLAPS cannot compute either. `AccessesFit` asks that segments are as long
as the block's chains and inside the pattern, which the code does not check (section 4);
`ProjectsAreDescribed` that every block has a top. TLC evaluates all of these on the runs'
instances. In the campaign modules the solver is assumed exact about the detection relation (or
to give up); `SolverIsExact` proves that of the encodings, with the SAT search itself external.
Preflight certificates come from the external `opentest` analysis and are
assumed to name untestable faults.

### Only model-checked

- `ViewPredictsProtocol`, `CreditIsObserved` and `CollapsedIsCovered`: they compare the view with the
  netlist it is built from, and the construction is a recursion over the netlist.
- Scan insertion and checks, composing and aggregating (the properties of `scan_insertion`, and
  `ChipCountsOnce`, `TracedChainShifts`, `ExtestSeesInterconnect`), which evaluate netlists with
  recursive operators.
- All liveness: `EveryRunEnds`, `EveryScanRunEnds`, the fairness of `KeepsNativeLoop`.

Recursive operators and fairness are out of TLAPS's reach here, and induction theorems that take
a predicate cannot be instantiated. Where a proof needs an induction over numbers (the ranks of a
graph, the shifts of a register) it is over a recursive function and by a least counterexample
(`LeastFailure`, from `WFMin`); recursion over netlists and sequences stays with TLC.

## 6. Plan

1. Proofs: the disjointness that the keys and guards of `Aggregate` give, for any scopes;
   `CollapsedIsCovered` from a statement of the gate equivalences lane by lane.
2. Wrapper modes in the engine: `build_mode_config` and the mode-aware paths of both
   simulators, which the comb EXTEST campaign uses.
3. The per-domain capture of multi-clock scan protocols.

## 7. Not modelled

- CaDiCaL, Yosys, opentest and SQLite are external: an answer within their contract, or a
  failure. A SQLite transaction is atomic and durable.
- JSON and Verilog parsing, pattern and report formats, logging, progress, configuration
  syntax, help, line editing.
- Rule checks, which are stateless lint; the coverage report, which reads the store and formats
  it; and the graph cache, a map keyed by paths, sizes and modification times, where a stale
  entry is a question of the file system's clock.
- Verilog elaboration of a project's glue and the mapping of scan cells to a library, both done
  by Yosys; export of patterns to STIL and testbenches.
- In the engine: black boxes, wrapper modes, several clock domains, thread scheduling inside
  a batch simulation. Undriven nets do not occur in the designs; the encoder leaves them free
  while the simulator reads 0.
- The per-domain partition of multi-clock scan runs.
- In `Session`: options outside the fingerprint. Its `add_scan`, `check_scan` and `wrap` are the
  writes and flags; what they write is `BlockFlow`'s.
- In `SocProject`: the verdicts of a campaign beyond one odd row, and projects of more than two
  blocks.
