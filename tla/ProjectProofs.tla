---------------------------- MODULE ProjectProofs ----------------------------
(***************************************************************************)
(* What a project run owes to its report, for every project, number of      *)
(* blocks, runs and file changes and every crash point, whatever the        *)
(* netlists compose to; and what retargeting owes to a block's pattern, for *)
(* every access manifest, chain length and chain contents.                  *)
(***************************************************************************)
EXTENDS ProjectRun, TLAPS, WellFoundedInduction, NaturalsInduction

-------------------------------------------------------------------------------
(* The project run *)

Phases == {"idle", "stage", "campaign", "aggregate"}
Runs == [phase : Phases, scope : Nat, clean : BOOLEAN, touched : BOOLEAN, left : Int]
Workspaces == {Workspace(s) : s \in 1..Assembly}

(* A scope's campaign is of the files as they are, and so is what it was staged from. *)
Is(what, s) ==
  IF s \in Blocks THEN what = <<s, files[s]>> ELSE project.mode = "scan" => what = files
Current(s) == Is(db[Workspace(s)].of, s)
Staged(s) == Is(staged[Workspace(s)], s)

(* An untouched run leaves current campaigns behind it, whatever it found. *)
RunInv ==
  /\ project \in Projects
  /\ DOMAIN staged = Workspaces /\ DOMAIN db = Workspaces
  /\ run \in Runs
  /\ run.phase \in {"stage", "campaign"} => run.scope \in 1..Assembly
  /\ run.phase # "idle" => LoadProject
  /\ ~run.touched =>
       /\ run.phase \in {"stage", "campaign"} => \A s \in 1..run.scope - 1 : Current(s)
       /\ run.phase = "campaign" => Staged(run.scope)
       /\ run.phase = "aggregate" \/ report.op = "chip" => \A s \in 1..Assembly : Current(s)

(* Tops tell workspaces apart, even those of blocks of the same name. *)
LEMMA WorkspacesDiffer ==
  ASSUME project \in Projects, LoadProject, NEW s \in 1..Assembly, NEW t \in 1..Assembly, s # t
  PROVE  Workspace(s) # Workspace(t)
<1>1. N \in Nat /\ DOMAIN project.tops = 1..N
  BY ProjectsAreDescribed DEF N
<1>2. \A k \in 1..N : project.tops[k] # project.top
  BY <1>1 DEF LoadProject, Range
<1>3. \A k \in 1..Assembly : k # Assembly => k \in Blocks
  BY <1>1 DEF Assembly, Blocks
<1> QED BY <1>1, <1>2, <1>3 DEF LoadProject, Workspace, Blocks

LEMMA InitRun == Init => RunInv
<1> SUFFICES ASSUME Init PROVE RunInv
  OBVIOUS
<1>1. run = [phase |-> "idle", scope |-> 0, clean |-> FALSE, touched |-> FALSE, left |-> MaxRuns]
  BY DEF Init, Idling
<1>2. run \in Runs /\ run.phase = "idle"
  BY <1>1, RunsAreCounted DEF Runs, Phases
<1>3. report.op = "none"
  BY DEF Init, Silent
<1> QED BY <1>2, <1>3 DEF Init, RunInv, Workspaces

(* The project never changes, and neither do its scopes. *)
LEMMA SameProject ==
  ASSUME project' = project
  PROVE  /\ Blocks' = Blocks /\ Assembly' = Assembly /\ LoadProject' = LoadProject
         /\ Workspaces' = Workspaces
         /\ \A s : Workspace(s)' = Workspace(s)
BY DEF N, Blocks, Assembly, LoadProject, Workspaces, Workspace

LEMMA SameFiles ==
  ASSUME project' = project, files' = files
  PROVE  \A what, s : Is(what, s)' <=> Is(what, s)
BY SameProject DEF Is

(* A run that stops, and forgets what it told or tells something else than a chip report. *)
LEMMA StopKeepsRun ==
  ASSUME RunInv, Stop, UNCHANGED <<project, files, db>>, DOMAIN staged' = Workspaces, report'.op # "chip"
  PROVE  RunInv'
<1>1. run' \in Runs /\ run'.phase = "idle" /\ run'.touched = run.touched
  BY DEF Stop, RunInv, Runs, Phases
<1> QED BY <1>1, SameProject DEF RunInv

(* A run that moves on. *)
LEMMA GotoEffect ==
  ASSUME RunInv, NEW phase \in Phases, NEW scope \in Nat, Goto(phase, scope)
  PROVE  /\ run' \in Runs /\ run'.phase = phase /\ run'.scope = scope
         /\ run'.touched = run.touched
BY DEF Goto, RunInv, Runs

LEMMA ScopesAreNat == RunInv => N \in Nat /\ Assembly \in Nat /\ Assembly = N + 1 /\ Blocks = 1..N
BY ProjectsAreDescribed DEF RunInv, N, Assembly, Blocks

(* The end of a scope's campaign, which is now of what was staged. *)
LEMMA DoneKeepsRun ==
  ASSUME RunInv, run.phase = "campaign", Done(run.scope), DOMAIN db' = Workspaces,
         UNCHANGED <<project, files, staged>>, report'.op # "chip",
         db'[Workspace(run.scope)].of = staged[Workspace(run.scope)],
         \A w \in Workspaces : w # Workspace(run.scope) => db'[w] = db[w]
  PROVE  RunInv'
<1> DEFINE s == run.scope
<1>1. s \in 1..Assembly /\ LoadProject /\ N \in Nat /\ Assembly = N + 1 /\ run.touched \in BOOLEAN
  BY ScopesAreNat DEF RunInv, Runs
<1>2. ASSUME ~run.touched, NEW t \in 1..s PROVE Current(t)'
  <2>1. CASE t = s
    <3>1. Is(staged[Workspace(s)], s)
      BY <1>2 DEF RunInv, Staged
    <3> QED BY <2>1, <3>1, SameProject, SameFiles DEF Current
  <2>2. CASE t # s
    <3>1. t \in 1..Assembly /\ t \in 1..s - 1
      BY <1>1, <1>2, <2>2
    <3>2. Workspace(t) # Workspace(s) /\ Workspace(t) \in Workspaces
      BY <1>1, <2>2, <3>1, WorkspacesDiffer DEF RunInv, Workspaces
    <3>3. Current(t)
      BY <1>2, <3>1 DEF RunInv
    <3> QED BY <3>2, <3>3, SameProject, SameFiles DEF Current
  <2> QED BY <2>1, <2>2
<1>3. CASE s = Assembly
  <2>1. run' \in Runs /\ run'.phase = "aggregate" /\ run'.scope = 0 /\ run'.touched = run.touched
    <3>1. Goto("aggregate", 0)
      BY <1>3 DEF Done
    <3> QED BY <3>1, GotoEffect DEF Phases
  <2> QED BY <1>1, <1>2, <1>3, <2>1, SameProject DEF RunInv
<1>4. CASE s # Assembly
  <2>1. s + 1 \in 1..Assembly /\ s + 1 - 1 = s /\ s + 1 \in Nat
    BY <1>1, <1>4
  <2>2. run' \in Runs /\ run'.phase = "stage" /\ run'.scope = s + 1 /\ run'.touched = run.touched
    <3>1. Goto("stage", s + 1)
      BY <1>4 DEF Done
    <3> QED BY <2>1, <3>1, GotoEffect DEF Phases
  <2> QED BY <1>1, <1>2, <2>1, <2>2, SameProject DEF RunInv
<1> QED BY <1>3, <1>4

LEMMA RunInductive == RunInv /\ [RunNext]_vars => RunInv'
<1> SUFFICES ASSUME RunInv, [RunNext]_vars PROVE RunInv'
  OBVIOUS
<1>0. /\ N \in Nat /\ Assembly = N + 1 /\ Assembly \in Nat /\ Blocks = 1..N
      /\ run \in Runs /\ run.touched \in BOOLEAN /\ run.scope \in Nat
  BY ScopesAreNat DEF RunInv, Runs
<1>1. ASSUME NEW clean \in BOOLEAN, StartProject(clean) PROVE RunInv'
  <2>1. /\ run'.phase = "stage" /\ run'.scope = 1 /\ LoadProject
        /\ run' \in Runs
    BY <1>0, <1>1 DEF StartProject, Runs, Phases
  <2>2. UNCHANGED <<project, files, staged, db>> /\ report'.op = "none"
    BY <1>1 DEF StartProject, Silent
  <2>3. 1 \in 1..Assembly /\ 1..1 - 1 = {}
    BY <1>0
  <2> QED BY <2>1, <2>2, <2>3, SameProject DEF RunInv
<1>2. CASE StageBlock
  <2>1. run' \in Runs /\ run'.phase = "campaign" /\ run'.scope = run.scope /\ run'.touched = run.touched
    BY <1>0, <1>2, GotoEffect DEF StageBlock, Phases
  <2>2. UNCHANGED <<project, files, db>> /\ report'.op = "none" /\ run.phase = "stage" /\ run.scope \in Blocks
    BY <1>2 DEF StageBlock, Silent
  <2>3. Workspace(run.scope) \in Workspaces
    BY <1>0, <2>2 DEF Workspaces
  <2>4. DOMAIN staged' = Workspaces /\ staged'[Workspace(run.scope)] = <<run.scope, files[run.scope]>>
    BY <1>2, <2>3 DEF StageBlock, RunInv
  <2>5. Staged(run.scope)'
    BY <2>2, <2>4, <2>1 DEF Staged, Is, Workspace, Assembly, Blocks, N
  <2>6. \A s : Current(s)' <=> Current(s)
    BY <2>2, SameFiles, SameProject DEF Current
  <2> QED BY <1>0, <2>1, <2>2, <2>4, <2>5, <2>6, SameProject DEF RunInv
<1>3. CASE UseSupplied
  <2>1. run' \in Runs /\ run'.phase = "campaign" /\ run'.scope = run.scope /\ run'.touched = run.touched
    BY <1>0, <1>3, GotoEffect DEF UseSupplied, Phases
  <2>2. /\ UNCHANGED <<project, files, staged, db>> /\ report'.op = "none" /\ run.phase = "stage"
        /\ run.scope = Assembly /\ project.mode = "comb"
    BY <1>3 DEF UseSupplied, Silent
  <2>3. Staged(run.scope)'
    BY <1>0, <2>2, <2>1 DEF Staged, Is, Workspace, Assembly, Blocks, N
  <2>4. \A s : Current(s)' <=> Current(s)
    BY <2>2, SameFiles, SameProject DEF Current
  <2> QED BY <1>0, <2>1, <2>2, <2>3, <2>4, SameProject DEF RunInv
<1>4. ASSUME NEW m, NEW man, Compose(m, man) PROVE RunInv'
  <2>1. /\ UNCHANGED <<project, files, db>> /\ report'.op = "compose" /\ run.phase = "stage"
        /\ run.scope = Assembly
    BY <1>4 DEF Compose, Composing
  <2>2. Workspace(Assembly) \in Workspaces
    BY <1>0 DEF Workspaces
  <2>3. DOMAIN staged' = Workspaces /\ staged'[Workspace(Assembly)] = files
    BY <1>4, <2>2 DEF Compose, RunInv
  <2>4. CASE man.why = ""
    <3>1. run' \in Runs /\ run'.phase = "campaign" /\ run'.scope = run.scope /\ run'.touched = run.touched
      BY <1>0, <1>4, <2>1, <2>4, GotoEffect DEF Compose, Phases
    <3>2. Staged(run.scope)'
      BY <1>0, <2>1, <2>3, <3>1 DEF Staged, Is, Workspace, Assembly, Blocks, N
    <3>3. \A s : Current(s)' <=> Current(s)
      BY <2>1, SameFiles, SameProject DEF Current
    <3> QED BY <1>0, <2>1, <2>3, <3>1, <3>2, <3>3, SameProject DEF RunInv
  <2>5. CASE man.why # ""
    BY <1>4, <2>1, <2>3, <2>5, StopKeepsRun DEF Compose
  <2> QED BY <2>4, <2>5
<1>5. CASE SimScope
  <2> DEFINE w == Workspace(run.scope)
  <2>1. /\ run.phase = "campaign" /\ RunAtpg(w, run.scope) /\ UNCHANGED <<project, files, staged>>
        /\ report'.op = "none"
    BY <1>5 DEF SimScope, Silent
  <2>2. w \in Workspaces /\ DOMAIN db = Workspaces
    BY <2>1 DEF Workspaces, RunInv
  <2>3. CASE db' = [db EXCEPT ![w] = [exists |-> TRUE, of |-> staged[w]]] /\ Done(run.scope)
    BY <2>1, <2>2, <2>3, DoneKeepsRun
  <2>4. CASE db' = db /\ db[w].of = staged[w] /\ Done(run.scope)
    BY <2>1, <2>2, <2>4, DoneKeepsRun
  <2>5. CASE db' = db /\ Stop
    BY <2>1, <2>5, StopKeepsRun DEF RunInv
  <2> QED BY <2>1, <2>3, <2>4, <2>5 DEF RunAtpg
<1>6. ASSUME NEW scopes, NEW result, AggregateRun(scopes, result) PROVE RunInv'
  <2>1. /\ run.phase = "aggregate" /\ UNCHANGED <<project, files, staged, db>>
        /\ run' \in Runs /\ run'.phase = "idle" /\ run'.touched = run.touched
    BY <1>0, <1>6 DEF AggregateRun, Stop, Runs, Phases
  <2>2. \A s : Current(s)' <=> Current(s)
    BY <2>1, SameFiles, SameProject DEF Current
  <2> QED BY <2>1, <2>2, SameProject DEF RunInv
<1>7. CASE Crash
  <2>1. report'.op = "none"
    BY <1>7 DEF Crash, Silent
  <2> QED BY <1>7, <2>1, StopKeepsRun DEF Crash, RunInv
<1>8. ASSUME NEW k, NEW version, UpdateBlock(k, version) PROVE RunInv'
  <2>1. /\ run' \in Runs /\ run'.phase = run.phase /\ run'.scope = run.scope /\ run'.touched
        /\ UNCHANGED <<project, staged, db>>
    BY <1>0, <1>8 DEF UpdateBlock, Runs
  <2> QED BY <2>1, SameProject DEF RunInv
<1>9. ASSUME NEW a \in Accesses, RetargetPattern(a) PROVE RunInv'
  <2>1. UNCHANGED <<project, files, staged, db, run>> /\ report'.op = "retarget" /\ run = Idling
    BY <1>9 DEF RetargetPattern
  <2>2. run.phase = "idle"
    BY <2>1 DEF Idling
  <2> QED BY <2>1, <2>2, SameProject DEF RunInv
<1>10. CASE UNCHANGED vars
  <2>1. UNCHANGED <<project, files, staged, db, run, report>>
    BY <1>10 DEF vars
  <2>2. \A s : Current(s)' <=> Current(s)
    BY <2>1, SameFiles, SameProject DEF Current
  <2>3. Staged(run.scope)' <=> Staged(run.scope)
    BY <2>1 DEF Staged, Is, Workspace, Assembly, Blocks, N
  <2> QED BY <2>1, <2>2, <2>3, SameProject DEF RunInv
<1> QED BY <1>1, <1>2, <1>3, <1>4, <1>5, <1>6, <1>7, <1>8, <1>9, <1>10 DEF RunNext

(* A chip report is of the files as they are unless one was replaced during the run,     *)
(* whatever crashed runs left in the workspaces and whatever the netlists compose to.    *)
THEOREM ReportIsCurrent == RunSpec => []AggregateIsCurrent
<1>1. RunInv => AggregateIsCurrent
  <2> SUFFICES ASSUME RunInv, report.op = "chip", ~run.touched
               PROVE  /\ \A k \in Blocks : db[Workspace(k)].of = <<k, files[k]>>
                      /\ project.mode = "scan" => db[Workspace(Assembly)].of = files
    BY DEF AggregateIsCurrent
  <2>1. N \in Nat /\ Assembly = N + 1 /\ Blocks = 1..N
    BY ScopesAreNat
  <2>2. \A s \in 1..Assembly : Current(s)
    BY DEF RunInv
  <2>3. \A k \in Blocks : k \in 1..Assembly
    BY <2>1
  <2>4. Assembly \in 1..Assembly /\ Assembly \notin Blocks
    BY <2>1
  <2> QED BY <2>2, <2>3, <2>4 DEF Current, Is
<1> QED BY <1>1, InitRun, RunInductive, PTL DEF RunSpec

-------------------------------------------------------------------------------
(* The shift register *)

(* One shift moves every value a position on. *)
LEMMA ShiftMoves ==
  ASSUME NEW L \in Nat \ {0}, NEW reg \in [1..L -> BOOLEAN], NEW bit \in BOOLEAN
  PROVE  Shifted(reg, bit) = [p \in 1..L |-> IF p = 1 THEN bit ELSE reg[p - 1]]
<1>1. reg \in Seq(BOOLEAN) /\ Len(reg) = L
  OBVIOUS
<1> DEFINE rest == SubSeq(reg, 1, L - 1)
<1>2. rest \in Seq(BOOLEAN) /\ Len(rest) = L - 1 /\ \A q \in 1..L - 1 : rest[q] = reg[q]
  BY <1>1
<1> HIDE DEF rest
<1>3. <<bit>> \in Seq(BOOLEAN) /\ Len(<<bit>>) = 1 /\ <<bit>>[1] = bit
  OBVIOUS
<1>4. Len(<<bit>> \o rest) = L /\ <<bit>> \o rest \in Seq(BOOLEAN)
  BY <1>2, <1>3
<1>5. \A p \in 1..L : (<<bit>> \o rest)[p] = IF p = 1 THEN bit ELSE rest[p - 1]
  BY <1>2, <1>3
<1>6. Shifted(reg, bit) = <<bit>> \o rest
  BY <1>1 DEF Shifted, rest
<1>7. DOMAIN (<<bit>> \o rest) = 1..L
  BY <1>4
<1> QED BY <1>2, <1>4, <1>5, <1>6, <1>7

LEMMA FirstPosition ==
  ASSUME NEW T \in SUBSET Nat, T # {}
  PROVE  \E x \in T : \A y \in T : x <= y
<1>1. \E x \in T : \A y \in T : ~(<<y, x>> \in OpToRel(<, Nat))
  BY WFMin, NatLessThanWellFounded
<1>2. \E x \in T : \A y \in T : ~(y < x)
  BY <1>1 DEF OpToRel
<1> QED BY <1>2

(* The contents after j shifts: the last j bits fed, newest first, then what was there. *)
ContentsAfter(reg, bits, L, j) == [p \in 1..L |-> IF p <= j THEN bits[j - p + 1] ELSE reg[p - j]]

LEMMA ShiftedInIs ==
  ASSUME NEW L \in Nat \ {0}, NEW reg \in [1..L -> BOOLEAN], NEW bits \in Seq(BOOLEAN)
  PROVE  \A j \in 0..Len(bits) : ShiftedIn(reg, bits)[j] = ContentsAfter(reg, bits, L, j)
<1> DEFINE n == Len(bits)
           Body(f) == [j \in 0..n |-> IF j = 0 THEN reg ELSE Shifted(f[j - 1], bits[j])]
           c == [j \in 0..n |-> ContentsAfter(reg, bits, L, j)]
           at == ShiftedIn(reg, bits)
<1>0. n \in Nat /\ \A k \in 1..n : bits[k] \in BOOLEAN
  OBVIOUS
<1>1. at = CHOOSE f : f = Body(f)
  BY DEF ShiftedIn
<1>2. \A j \in 0..n : ContentsAfter(reg, bits, L, j) \in [1..L -> BOOLEAN]
  <2> TAKE j \in 0..n
  <2>1. \A p \in 1..L : (IF p <= j THEN bits[j - p + 1] ELSE reg[p - j]) \in BOOLEAN
    <3> TAKE p \in 1..L
    <3>1. CASE p <= j
      <4>1. j - p + 1 \in 1..n
        BY <1>0, <3>1
      <4> QED BY <1>0, <3>1, <4>1
    <3>2. CASE ~(p <= j)
      <4>1. p - j \in 1..L
        BY <1>0, <3>2
      <4> QED BY <3>2, <4>1
    <3> QED BY <3>1, <3>2
  <2> QED BY <2>1 DEF ContentsAfter
<1>3. ContentsAfter(reg, bits, L, 0) = reg
  <2>1. \A p \in 1..L : ~(p <= 0) /\ p - 0 = p
    OBVIOUS
  <2> QED BY <2>1 DEF ContentsAfter
<1>4. \A j \in 1..n : Shifted(ContentsAfter(reg, bits, L, j - 1), bits[j]) = ContentsAfter(reg, bits, L, j)
  <2> TAKE j \in 1..n
  <2> DEFINE a == ContentsAfter(reg, bits, L, j - 1)
  <2>1. j - 1 \in 0..n /\ bits[j] \in BOOLEAN
    BY <1>0
  <2>2. a \in [1..L -> BOOLEAN]
    BY <1>2, <2>1
  <2>3. Shifted(a, bits[j]) = [p \in 1..L |-> IF p = 1 THEN bits[j] ELSE a[p - 1]]
    BY <2>1, <2>2, ShiftMoves
  <2>4. \A p \in 1..L : (IF p = 1 THEN bits[j] ELSE a[p - 1]) = (IF p <= j THEN bits[j - p + 1] ELSE reg[p - j])
    <3> TAKE p \in 1..L
    <3>1. CASE p = 1
      BY <1>0, <3>1
    <3>2. CASE p # 1
      <4>1. p - 1 \in 1..L /\ (p - 1 <= j - 1 <=> p <= j) /\ j - 1 - (p - 1) + 1 = j - p + 1 /\ p - 1 - (j - 1) = p - j
        BY <1>0, <3>2
      <4>2. a[p - 1] = IF p - 1 <= j - 1 THEN bits[j - 1 - (p - 1) + 1] ELSE reg[p - 1 - (j - 1)]
        BY <4>1 DEF ContentsAfter
      <4> QED BY <3>2, <4>1, <4>2
    <3> QED BY <3>1, <3>2
  <2> QED BY <2>3, <2>4 DEF ContentsAfter
<1>5. c = Body(c)
  <2> HIDE DEF n
  <2>1. \A j \in 0..n : c[j] = IF j = 0 THEN reg ELSE Shifted(c[j - 1], bits[j])
    <3> TAKE j \in 0..n
    <3>1. CASE j = 0
      BY <1>3, <3>1
    <3>2. CASE j # 0
      <4>1. j \in 1..n /\ j - 1 \in 0..n
        BY <1>0, <3>2
      <4> QED BY <1>4, <3>2, <4>1
    <3> QED BY <3>1, <3>2
  <2> QED BY <2>1
<1>6. at = Body(at)
  <2> HIDE DEF c, at, n
  <2> QED BY <1>1, <1>5
<1> HIDE DEF at, n
<1>7. \A j \in 0..n : at[j] = IF j = 0 THEN reg ELSE Shifted(at[j - 1], bits[j])
  BY <1>6
<1>8. ASSUME NEW i \in 0..n, at[i] # ContentsAfter(reg, bits, L, i) PROVE FALSE
  <2> DEFINE T == {k \in 0..n : at[k] # ContentsAfter(reg, bits, L, k)}
  <2>1. T \in SUBSET Nat /\ T # {}
    BY <1>0, <1>8
  <2>2. PICK k \in T : \A y \in T : k <= y
    BY <2>1, FirstPosition
  <2>3. k \in 0..n /\ at[k] # ContentsAfter(reg, bits, L, k)
    OBVIOUS
  <2>4. k # 0
    BY <1>3, <1>7, <2>3
  <2>5. k \in 1..n /\ k - 1 \in 0..n /\ ~(k <= k - 1)
    BY <1>0, <2>3, <2>4
  <2>6. at[k - 1] = ContentsAfter(reg, bits, L, k - 1)
    BY <2>2, <2>5
  <2> QED BY <1>4, <1>7, <2>3, <2>4, <2>5, <2>6
<1> QED BY <1>8 DEF at, n

-------------------------------------------------------------------------------
(* The padding of a block's patterns *)

LEMMA PadIs == \A n \in Nat : Pad(n) \in Seq(BOOLEAN) /\ Len(Pad(n)) = n /\ \A k \in 1..n : Pad(n)[k] = FALSE
BY DEF Pad

LEMMA ReverseIs ==
  ASSUME NEW v \in Seq(BOOLEAN)
  PROVE  /\ Reverse(v) \in Seq(BOOLEAN) /\ Len(Reverse(v)) = Len(v)
         /\ \A i \in 1..Len(v) : Reverse(v)[i] = v[Len(v) - i + 1]
<1> DEFINE n == Len(v)
<1>1. n \in Nat /\ \A k \in 1..n : v[k] \in BOOLEAN
  OBVIOUS
<1> HIDE DEF n
<1>2. \A i \in 1..n : n - i + 1 \in 1..n
  BY <1>1
<1>3. Reverse(v) = [i \in 1..n |-> v[n - i + 1]]
  BY DEF Reverse, n
<1>4. Reverse(v) \in [1..n -> BOOLEAN]
  BY <1>1, <1>2, <1>3
<1>5. Reverse(v) \in Seq(BOOLEAN) /\ Len(Reverse(v)) = n
  BY <1>1, <1>4
<1> QED BY <1>3, <1>5 DEF n

(* Two sequences end to end. *)
LEMMA JoinedIs ==
  ASSUME NEW a \in Seq(BOOLEAN), NEW b \in Seq(BOOLEAN)
  PROVE  /\ a \o b \in Seq(BOOLEAN) /\ Len(a \o b) = Len(a) + Len(b)
         /\ \A i \in 1..Len(a) : (a \o b)[i] = a[i]
         /\ \A i \in 1..Len(b) : (a \o b)[Len(a) + i] = b[i]
OBVIOUS

(* Stripping a block's padding gives back what was padded, in front or behind. *)
LEMMA StripFront ==
  ASSUME NEW r \in Seq(BOOLEAN), NEW d \in Nat
  PROVE  LET seq == StripBlockLevelPadding(Pad(d) \o r, Len(r), TRUE)
         IN  Len(seq) = Len(r) /\ \A i \in 1..Len(r) : seq[i] = r[i]
<1> DEFINE n == Len(r)
           s == Pad(d) \o r
<1>1. n \in Nat
  OBVIOUS
<1>2. s \in Seq(BOOLEAN) /\ Len(s) = d + n /\ \A i \in 1..n : s[d + i] = r[i]
  <2>1. Pad(d) \in Seq(BOOLEAN) /\ Len(Pad(d)) = d
    BY PadIs
  <2> HIDE DEF n
  <2>2. /\ s \in Seq(BOOLEAN) /\ Len(s) = Len(Pad(d)) + n
        /\ \A i \in 1..n : s[Len(Pad(d)) + i] = r[i]
    BY <2>1, JoinedIs DEF n
  <2> HIDE DEF s
  <2> QED BY <2>1, <2>2
<1> HIDE DEF s, n
<1>3. CASE d = 0
  <2>1. Len(s) <= n
    BY <1>1, <1>2, <1>3
  <2>2. StripBlockLevelPadding(s, n, TRUE) = s
    BY <2>1 DEF StripBlockLevelPadding
  <2>3. \A i \in 1..n : d + i = i
    BY <1>1, <1>3
  <2>4. Len(s) = n /\ \A i \in 1..n : s[i] = r[i]
    BY <1>1, <1>2, <1>3, <2>3
  <2> QED BY <2>2, <2>4 DEF s, n
<1>4. CASE d # 0
  <2>1. ~(Len(s) <= n) /\ Len(s) - n + 1 = d + 1
    BY <1>1, <1>2, <1>4
  <2>2. StripBlockLevelPadding(s, n, TRUE) = SubSeq(s, d + 1, d + n)
    BY <1>2, <2>1 DEF StripBlockLevelPadding
  <2>3. Len(SubSeq(s, d + 1, d + n)) = n /\ \A i \in 1..n : SubSeq(s, d + 1, d + n)[i] = s[d + i]
    BY <1>1, <1>2
  <2> QED BY <1>2, <2>2, <2>3 DEF s, n
<1> QED BY <1>3, <1>4

LEMMA StripBack ==
  ASSUME NEW r \in Seq(BOOLEAN), NEW d \in Nat
  PROVE  LET seq == StripBlockLevelPadding(r \o Pad(d), Len(r), FALSE)
         IN  Len(seq) = Len(r) /\ \A i \in 1..Len(r) : seq[i] = r[i]
<1> DEFINE n == Len(r)
           s == r \o Pad(d)
<1>1. n \in Nat
  OBVIOUS
<1>2. s \in Seq(BOOLEAN) /\ Len(s) = n + d /\ \A i \in 1..n : s[i] = r[i]
  BY PadIs, JoinedIs
<1> HIDE DEF s, n
<1>3. CASE d = 0
  <2>1. Len(s) <= n
    BY <1>1, <1>2, <1>3
  <2>2. StripBlockLevelPadding(s, n, FALSE) = s
    BY <2>1 DEF StripBlockLevelPadding
  <2>3. Len(s) = n
    BY <1>1, <1>2, <1>3
  <2> QED BY <1>2, <2>2, <2>3 DEF s, n
<1>4. CASE d # 0
  <2>1. ~(Len(s) <= n)
    BY <1>1, <1>2, <1>4
  <2>2. StripBlockLevelPadding(s, n, FALSE) = SubSeq(s, 1, n)
    BY <2>1 DEF StripBlockLevelPadding
  <2>3. Len(SubSeq(s, 1, n)) = n /\ \A i \in 1..n : SubSeq(s, 1, n)[i] = s[i]
    BY <1>1, <1>2
  <2> QED BY <1>2, <2>2, <2>3 DEF s, n
<1> QED BY <1>3, <1>4

(* What a chip chain is to the block's values: its segments hold whole chains of them. *)
Holds(vals, chain, block, longest) ==
  \A s \in OwnSegments(chain, block) :
    /\ s.offset \in Nat /\ s.length \in 0..longest
    /\ s.chain \in DOMAIN vals /\ vals[s.chain] \in Seq(BOOLEAN) /\ Len(vals[s.chain]) = s.length

(* A stripped, reversed sequence holds at the shift of a position the value wanted there. *)
LEMMA ValueOfReversed ==
  ASSUME NEW v \in Seq(BOOLEAN), NEW seq, NEW pos \in 0..Len(v) - 1,
         Len(seq) = Len(v), \A i \in 1..Len(v) : seq[i] = Reverse(v)[i]
  PROVE  BlockValueAt(seq, Len(v), pos) <=> v[pos + 1]
<1> DEFINE n == Len(v)
<1>1. n \in Nat
  OBVIOUS
<1>2. \A i \in 1..n : seq[i] = v[n - i + 1]
  BY ReverseIs
<1> HIDE DEF n
<1>3. n - pos \in 1..n /\ n - (n - pos) + 1 = pos + 1
  BY <1>1 DEF n
<1>4. seq[n - pos] = v[pos + 1]
  BY <1>2, <1>3
<1>5. pos + 1 \in 1..n
  BY <1>1 DEF n
<1>6. v[pos + 1] \in BOOLEAN
  BY <1>5 DEF n
<1> QED BY <1>3, <1>4, <1>6 DEF BlockValueAt, n

LEMMA SegmentHere ==
  ASSUME NEW vals, NEW chain, NEW block, NEW longest \in Nat, NEW p \in Nat,
         Holds(vals, chain, block, longest), Owned(chain, block, p - 1)
  PROVE  LET s == SegmentAt(chain, block, p - 1)
         IN  /\ s.chain \in DOMAIN vals /\ vals[s.chain] \in Seq(BOOLEAN)
             /\ Len(vals[s.chain]) = s.length /\ s.length \in Nat /\ s.length <= longest
             /\ s.offset \in Nat /\ p - 1 - s.offset \in 0..s.length - 1
<1> DEFINE s == SegmentAt(chain, block, p - 1)
<1>1. s \in OwnSegments(chain, block) /\ Covers(s, p - 1)
  BY DEF Owned, SegmentAt
<1> HIDE DEF s
<1>2. /\ s.offset \in Nat /\ s.length \in 0..longest
      /\ s.chain \in DOMAIN vals /\ vals[s.chain] \in Seq(BOOLEAN) /\ Len(vals[s.chain]) = s.length
  BY <1>1 DEF Holds
<1>3. p - 1 - s.offset \in 0..s.length - 1
  BY <1>1, <1>2 DEF Covers
<1> QED BY <1>2, <1>3 DEF s

(* A wanted value is a bit. *)
LEMMA WantedIsBit ==
  ASSUME NEW vals, NEW chain, NEW block, NEW longest \in Nat, NEW p \in Nat,
         Holds(vals, chain, block, longest), Owned(chain, block, p - 1)
  PROVE  Wanted(vals, chain, block, p) \in BOOLEAN
<1> DEFINE s == SegmentAt(chain, block, p - 1)
<1>1. /\ vals[s.chain] \in Seq(BOOLEAN)
      /\ Len(vals[s.chain]) = s.length /\ s.length \in Nat
      /\ s.offset \in Nat /\ p - 1 - s.offset \in 0..s.length - 1
  BY SegmentHere
<1>2. Wanted(vals, chain, block, p) = vals[s.chain][p - s.offset]
  BY DEF Wanted
<1> HIDE DEF s
<1>3. p - s.offset \in 1..Len(vals[s.chain])
  BY <1>1
<1> QED BY <1>1, <1>2, <1>3

(* The load and the unload put on a position what is wanted there. *)
LEMMA LoadPlaces ==
  ASSUME NEW load, NEW unload, NEW chain, NEW block, NEW longest \in Nat, NEW p \in Nat,
         Holds(load, chain, block, longest), Owned(chain, block, p - 1)
  PROVE  Placed(SerializeVector(load, unload, longest).load, chain, block, p - 1, TRUE)
           <=> Wanted(load, chain, block, p)
<1> DEFINE s == SegmentAt(chain, block, p - 1)
           v == load[s.chain]
           seqs == SerializeVector(load, unload, longest).load
           stripped == StripBlockLevelPadding(seqs[s.chain], s.length, TRUE)
<1>1. /\ s.chain \in DOMAIN load /\ v \in Seq(BOOLEAN)
      /\ Len(v) = s.length /\ s.length \in Nat /\ s.length <= longest
      /\ s.offset \in Nat /\ p - 1 - s.offset \in 0..s.length - 1
  BY SegmentHere
<1>2. s.chain \in DOMAIN seqs /\ seqs[s.chain] = Pad(longest - Len(v)) \o Reverse(v)
  BY <1>1 DEF SerializeVector
<1>3. Placed(seqs, chain, block, p - 1, TRUE) <=> BlockValueAt(stripped, s.length, p - 1 - s.offset)
  BY <1>2 DEF Placed
<1>4. Wanted(load, chain, block, p) = v[p - s.offset]
  BY DEF Wanted
<1> HIDE DEF s, v, seqs
<1>5. longest - Len(v) \in Nat
  BY <1>1
<1>6. Reverse(v) \in Seq(BOOLEAN) /\ Len(Reverse(v)) = Len(v)
  BY <1>1, ReverseIs
<1>7. Len(stripped) = Len(v) /\ \A i \in 1..Len(v) : stripped[i] = Reverse(v)[i]
  <2>1. stripped = StripBlockLevelPadding(Pad(longest - Len(v)) \o Reverse(v), Len(Reverse(v)), TRUE)
    BY <1>1, <1>2, <1>6
  <2> HIDE DEF stripped
  <2>2. /\ Len(stripped) = Len(Reverse(v))
        /\ \A i \in 1..Len(Reverse(v)) : stripped[i] = Reverse(v)[i]
    BY <1>5, <1>6, <2>1, StripFront
  <2> QED BY <1>6, <2>2
<1> HIDE DEF stripped
<1>8. p - 1 - s.offset + 1 = p - s.offset
  BY <1>1
<1>9. BlockValueAt(stripped, s.length, p - 1 - s.offset) <=> v[p - s.offset]
  BY <1>1, <1>7, <1>8, ValueOfReversed
<1> QED BY <1>3, <1>4, <1>9 DEF seqs

LEMMA UnloadPlaces ==
  ASSUME NEW load, NEW unload, NEW chain, NEW block, NEW longest \in Nat, NEW p \in Nat,
         Holds(unload, chain, block, longest), Owned(chain, block, p - 1)
  PROVE  Placed(SerializeVector(load, unload, longest).unload, chain, block, p - 1, FALSE)
           <=> Wanted(unload, chain, block, p)
<1> DEFINE s == SegmentAt(chain, block, p - 1)
           v == unload[s.chain]
           seqs == SerializeVector(load, unload, longest).unload
           stripped == StripBlockLevelPadding(seqs[s.chain], s.length, FALSE)
<1>1. /\ s.chain \in DOMAIN unload /\ v \in Seq(BOOLEAN)
      /\ Len(v) = s.length /\ s.length \in Nat /\ s.length <= longest
      /\ s.offset \in Nat /\ p - 1 - s.offset \in 0..s.length - 1
  BY SegmentHere
<1>2. s.chain \in DOMAIN seqs /\ seqs[s.chain] = Reverse(v) \o Pad(longest - Len(v))
  BY <1>1 DEF SerializeVector
<1>3. Placed(seqs, chain, block, p - 1, FALSE) <=> BlockValueAt(stripped, s.length, p - 1 - s.offset)
  BY <1>2 DEF Placed
<1>4. Wanted(unload, chain, block, p) = v[p - s.offset]
  BY DEF Wanted
<1> HIDE DEF s, v, seqs
<1>5. longest - Len(v) \in Nat
  BY <1>1
<1>6. Reverse(v) \in Seq(BOOLEAN) /\ Len(Reverse(v)) = Len(v)
  BY <1>1, ReverseIs
<1>7. Len(stripped) = Len(v) /\ \A i \in 1..Len(v) : stripped[i] = Reverse(v)[i]
  <2>1. stripped = StripBlockLevelPadding(Reverse(v) \o Pad(longest - Len(v)), Len(Reverse(v)), FALSE)
    BY <1>1, <1>2, <1>6
  <2> HIDE DEF stripped
  <2>2. /\ Len(stripped) = Len(Reverse(v))
        /\ \A i \in 1..Len(Reverse(v)) : stripped[i] = Reverse(v)[i]
    BY <1>5, <1>6, <2>1, StripBack
  <2> QED BY <1>6, <2>2
<1> HIDE DEF stripped
<1>8. p - 1 - s.offset + 1 = p - s.offset
  BY <1>1
<1>9. BlockValueAt(stripped, s.length, p - 1 - s.offset) <=> v[p - s.offset]
  BY <1>1, <1>7, <1>8, ValueOfReversed
<1> QED BY <1>3, <1>4, <1>9 DEF seqs

-------------------------------------------------------------------------------
(* The chip's pattern *)

LEMMA SpreadIs ==
  ASSUME NEW L \in Nat, NEW b \in [1..L -> BOOLEAN]
  PROVE  b \in Seq(BOOLEAN) /\ Len(b) = L
OBVIOUS

(* Padded in front to max shifts, a chain's load leaves the value of each position in it. *)
LEMMA FrontPaddedLoads ==
  ASSUME NEW max \in Nat, NEW L \in 1..max, NEW b \in [1..L -> BOOLEAN],
         NEW before \in [1..L -> BOOLEAN], NEW p \in 1..L
  PROVE  Loaded(before, Pad(max - L) \o b)[p] = b[L - p + 1]
<1> DEFINE bits == Pad(max - L) \o b
<1>1. L \in Nat \ {0} /\ max - L \in Nat /\ L <= max
  OBVIOUS
<1>2. b \in Seq(BOOLEAN) /\ Len(b) = L
  BY <1>1, SpreadIs
<1>3. Pad(max - L) \in Seq(BOOLEAN) /\ Len(Pad(max - L)) = max - L
  BY <1>1, PadIs
<1>4. /\ bits \in Seq(BOOLEAN) /\ Len(bits) = Len(Pad(max - L)) + Len(b)
      /\ \A i \in 1..Len(b) : bits[Len(Pad(max - L)) + i] = b[i]
  BY <1>2, <1>3, JoinedIs
<1> HIDE DEF bits
<1>5. Len(bits) = max /\ \A i \in 1..L : bits[max - L + i] = b[i]
  <2>1. Len(bits) = max - L + L
    BY <1>2, <1>3, <1>4
  <2>2. \A i \in 1..L : bits[max - L + i] = b[i]
    BY <1>2, <1>3, <1>4
  <2> QED BY <1>1, <2>1, <2>2
<1>6. ShiftedIn(before, bits)[max] = ContentsAfter(before, bits, L, max)
  BY <1>1, <1>4, <1>5, ShiftedInIs
<1>7. p <= max /\ L - p + 1 \in 1..L /\ max - L + (L - p + 1) = max - p + 1
  BY <1>1
<1>8. ContentsAfter(before, bits, L, max)[p] = bits[max - p + 1]
  BY <1>7 DEF ContentsAfter
<1>9. bits[max - p + 1] = b[L - p + 1]
  BY <1>5, <1>7
<1> QED BY <1>5, <1>6, <1>8, <1>9 DEF Loaded, bits

(* Shifting out reads the chain from its last position on. *)
LEMMA UnloadReads ==
  ASSUME NEW max \in Nat, NEW L \in 1..max, NEW before \in [1..L -> BOOLEAN], NEW k \in 1..L
  PROVE  Unloaded(before, max)[k] = before[L - k + 1]
<1>1. L \in Nat \ {0} /\ k \in 1..max /\ k - 1 \in 0..max /\ L <= max
  OBVIOUS
<1>2. Pad(max) \in Seq(BOOLEAN) /\ Len(Pad(max)) = max
  BY PadIs
<1>3. ShiftedIn(before, Pad(max))[k - 1] = ContentsAfter(before, Pad(max), L, k - 1)
  BY <1>1, <1>2, ShiftedInIs
<1> DEFINE c == ContentsAfter(before, Pad(max), L, k - 1)
<1>4. c = [p \in 1..L |-> IF p <= k - 1 THEN Pad(max)[k - 1 - p + 1] ELSE before[p - (k - 1)]]
  BY DEF ContentsAfter
<1>5. ~(L <= k - 1) /\ L - (k - 1) = L - k + 1 /\ L \in 1..L
  BY <1>1
<1>6. DOMAIN c = 1..L /\ c[L] = before[L - k + 1]
  BY <1>4, <1>5
<1>7. Len(c) = L
  <2> HIDE DEF c
  <2> QED BY <1>1, <1>4
<1>8. Last(c) = before[L - k + 1]
  BY <1>6, <1>7 DEF Last
<1>9. Unloaded(before, max)[k] = Last(ShiftedIn(before, Pad(max))[k - 1])
  BY <1>1 DEF Unloaded
<1> QED BY <1>3, <1>8, <1>9

(* Everything retargeting owes to one chip chain. *)
LEMMA ChainIsRetargeted ==
  ASSUME NEW load, NEW unload, NEW chain, NEW block, NEW longest \in Nat, NEW max \in Nat,
         chain.length \in 0..max,
         Holds(load, chain, block, longest), Holds(unload, chain, block, longest),
         NEW before \in [Positions(chain) -> BOOLEAN]
  PROVE  LET bp == SerializeVector(load, unload, longest)
             got == Unloaded(before, max)
             mask == MaskSeq(chain, block, max)
             out == UnloadSeq(bp, chain, block, max)
         IN  /\ \A p \in Positions(chain) : Owned(chain, block, p - 1) =>
                  Loaded(before, LoadSeq(bp, chain, block, max))[p] = Wanted(load, chain, block, p)
             /\ (\A k \in 1..max : mask[k] => got[k] = out[k])
                  <=> \A p \in Positions(chain) : Owned(chain, block, p - 1) =>
                        before[p] = Wanted(unload, chain, block, p)
<1> DEFINE L == chain.length
           bp == SerializeVector(load, unload, longest)
           in == [k \in 1..L |-> Placed(bp.load, chain, block, L - k, TRUE)]
           out == [k \in 1..L |-> Placed(bp.unload, chain, block, L - k, FALSE)]
           own == [k \in 1..L |-> Owned(chain, block, L - k)]
<1>1. L \in Nat /\ max - L \in Nat /\ L <= max /\ Positions(chain) = 1..L
  BY DEF Positions
<1>2. /\ LoadSeq(bp, chain, block, max) = Pad(max - L) \o in
      /\ UnloadSeq(bp, chain, block, max) = out \o Pad(max - L)
      /\ MaskSeq(chain, block, max) = own \o Pad(max - L)
  BY DEF LoadSeq, UnloadSeq, MaskSeq
<1>3. in \in [1..L -> BOOLEAN] /\ out \in [1..L -> BOOLEAN] /\ own \in [1..L -> BOOLEAN]
  BY DEF Placed, Owned
<1>4. \A p \in 1..L : L - p + 1 \in 1..L /\ L - (L - p + 1) = p - 1 /\ L - (L - p + 1) + 1 = p
  BY <1>1
<1>5. ASSUME NEW p \in 1..L, Owned(chain, block, p - 1)
      PROVE  /\ in[L - p + 1] <=> Wanted(load, chain, block, p)
             /\ out[L - p + 1] <=> Wanted(unload, chain, block, p)
             /\ Wanted(load, chain, block, p) \in BOOLEAN
             /\ Wanted(unload, chain, block, p) \in BOOLEAN
  <2>1. p \in Nat /\ L - p + 1 \in 1..L /\ L - (L - p + 1) = p - 1
    BY <1>4
  <2>2. /\ in[L - p + 1] <=> Placed(bp.load, chain, block, p - 1, TRUE)
        /\ out[L - p + 1] <=> Placed(bp.unload, chain, block, p - 1, FALSE)
    BY <2>1
  <2>3. /\ Placed(bp.load, chain, block, p - 1, TRUE) <=> Wanted(load, chain, block, p)
        /\ Placed(bp.unload, chain, block, p - 1, FALSE) <=> Wanted(unload, chain, block, p)
    BY <1>5, <2>1, LoadPlaces, UnloadPlaces
  <2>4. Wanted(load, chain, block, p) \in BOOLEAN /\ Wanted(unload, chain, block, p) \in BOOLEAN
    BY <1>5, <2>1, WantedIsBit
  <2> QED BY <2>2, <2>3, <2>4
<1> HIDE DEF L, bp, in, out
<1>6. ASSUME NEW p \in 1..L, Owned(chain, block, p - 1)
      PROVE  Loaded(before, Pad(max - L) \o in)[p] = Wanted(load, chain, block, p)
  <2>1. L \in 1..max /\ before \in [1..L -> BOOLEAN] /\ in[L - p + 1] \in BOOLEAN
    BY <1>1, <1>3, <1>4
  <2>2. Loaded(before, Pad(max - L) \o in)[p] = in[L - p + 1]
    BY <1>1, <1>3, <2>1, FrontPaddedLoads
  <2> QED BY <1>5, <1>6, <2>1, <2>2
<1>7. \A k \in 1..L : (own \o Pad(max - L))[k] = own[k] /\ (out \o Pad(max - L))[k] = out[k]
  <2>1. own \in Seq(BOOLEAN) /\ Len(own) = L /\ out \in Seq(BOOLEAN) /\ Len(out) = L
    BY <1>1, <1>3, SpreadIs
  <2>2. Pad(max - L) \in Seq(BOOLEAN)
    BY <1>1, PadIs
  <2> HIDE DEF own
  <2> QED BY <2>1, <2>2, JoinedIs
<1>8. \A k \in 1..max : k \notin 1..L => (own \o Pad(max - L))[k] = FALSE
  <2> SUFFICES ASSUME NEW k \in 1..max, k \notin 1..L PROVE (own \o Pad(max - L))[k] = FALSE
    OBVIOUS
  <2>1. own \in Seq(BOOLEAN) /\ Len(own) = L
    BY <1>1, <1>3, SpreadIs
  <2>2. Pad(max - L) \in Seq(BOOLEAN) /\ Len(Pad(max - L)) = max - L
    BY <1>1, PadIs
  <2>3. k - L \in 1..max - L /\ L + (k - L) = k
    BY <1>1
  <2> HIDE DEF own
  <2>4. (own \o Pad(max - L))[L + (k - L)] = Pad(max - L)[k - L]
    BY <2>1, <2>2, <2>3, JoinedIs
  <2>5. Pad(max - L)[k - L] = FALSE
    BY <1>1, <2>3, PadIs
  <2> QED BY <2>3, <2>4, <2>5
<1>9. \A k \in 1..L : Unloaded(before, max)[k] = before[L - k + 1]
  <2> TAKE k \in 1..L
  <2>1. L \in 1..max /\ before \in [1..L -> BOOLEAN]
    BY <1>1
  <2> QED BY <2>1, UnloadReads
<1>10. \A k \in 1..L : own[k] = Owned(chain, block, L - k)
  OBVIOUS
<1> HIDE DEF own
<1>11. ASSUME \A k \in 1..max : (own \o Pad(max - L))[k] => Unloaded(before, max)[k] = (out \o Pad(max - L))[k],
              NEW p \in 1..L, Owned(chain, block, p - 1)
       PROVE  before[p] = Wanted(unload, chain, block, p)
  <2> DEFINE k == L - p + 1
  <2>1. k \in 1..L /\ k \in 1..max /\ L - k = p - 1 /\ L - k + 1 = p
    BY <1>1
  <2> HIDE DEF k
  <2>2. own[k]
    BY <1>10, <1>11, <2>1
  <2>3. Unloaded(before, max)[k] = out[k]
    BY <1>7, <1>11, <2>1, <2>2
  <2>4. before[p] = out[k]
    BY <1>9, <2>1, <2>3
  <2>5. (out[k] <=> Wanted(unload, chain, block, p)) /\ Wanted(unload, chain, block, p) \in BOOLEAN
    BY <1>5, <1>11 DEF k
  <2>6. out[k] \in BOOLEAN
    BY <1>3, <2>1
  <2> QED BY <2>4, <2>5, <2>6
<1>12. ASSUME \A p \in 1..L : Owned(chain, block, p - 1) => before[p] = Wanted(unload, chain, block, p),
              NEW k \in 1..max, (own \o Pad(max - L))[k]
       PROVE  Unloaded(before, max)[k] = (out \o Pad(max - L))[k]
  <2>1. k \in 1..L
    BY <1>8, <1>12
  <2> DEFINE p == L - k + 1
  <2>2. p \in 1..L /\ L - k = p - 1 /\ L - p + 1 = k
    BY <1>1, <2>1
  <2> HIDE DEF p
  <2>3. own[k]
    BY <1>7, <1>12, <2>1
  <2>4. Owned(chain, block, p - 1)
    BY <1>10, <2>1, <2>2, <2>3
  <2>5. before[p] = Wanted(unload, chain, block, p)
    BY <1>12, <2>2, <2>4
  <2>6. (out[L - p + 1] <=> Wanted(unload, chain, block, p)) /\ Wanted(unload, chain, block, p) \in BOOLEAN
    BY <1>5, <2>2, <2>4
  <2>7. out[k] \in BOOLEAN
    BY <1>3, <2>1
  <2>8. out[k] = before[p]
    BY <2>2, <2>5, <2>6, <2>7
  <2>9. Unloaded(before, max)[k] = before[p]
    BY <1>9, <2>1 DEF p
  <2> QED BY <1>7, <2>1, <2>8, <2>9
<1> QED BY <1>1, <1>2, <1>6, <1>11, <1>12 DEF bp

-------------------------------------------------------------------------------
(* A retarget report is one of a pattern and its access manifest *)

Retargeted(a) ==
  [op |-> "retarget", access |-> a.access, block |-> a.block, want |-> a.load, after |-> a.unload,
   pattern |-> RetargetBlockPattern(SerializeVector(a.load, a.unload, a.longest), a.access, a.block)]

ReportInv == report.op = "retarget" => \E a \in Accesses : report = Retargeted(a)

LEMMA ReportInductive == ReportInv /\ [RunNext]_vars => ReportInv'
<1> SUFFICES ASSUME ReportInv, [RunNext]_vars PROVE ReportInv'
  OBVIOUS
<1>1. ASSUME NEW a \in Accesses, RetargetPattern(a) PROVE ReportInv'
  <2>1. report' = Retargeted(a)
    BY <1>1 DEF RetargetPattern, Retargeted
  <2> QED BY <2>1 DEF ReportInv
<1>2. CASE UNCHANGED vars
  BY <1>2 DEF vars, ReportInv
<1>3. CASE report' = Silent
  BY <1>3 DEF Silent, ReportInv
<1>4. CASE \E m, man : report' = [op |-> "compose", m |-> m, manifest |-> man]
  BY <1>4 DEF ReportInv
<1>5. CASE \E scopes, result : report' = [op |-> "chip", scopes |-> scopes, result |-> result]
  BY <1>5 DEF ReportInv
<1> QED BY <1>1, <1>2, <1>3, <1>4, <1>5
      DEF RunNext, StartProject, StageBlock, UseSupplied, Compose, SimScope, AggregateRun, Crash, UpdateBlock

(* A pattern that was not refused fits the chains of the chip. *)
LEMMA PatternFits ==
  ASSUME NEW bp, NEW access, NEW block, RetargetBlockPattern(bp, access, block).why = ""
  PROVE  \A c \in 1..Len(access.chains) : ~(access.chains[c].length > access.max)
<1> DEFINE long == \E d \in 1..Len(access.chains) : access.chains[d].length > access.max
           lost == ~(DOMAIN bp.load \subseteq PlacedChains(access, block))
<1>1. RetargetBlockPattern(bp, access, block).why
        = CASE long -> "too_long" [] lost -> "no_segment" [] OTHER -> ""
  BY DEF RetargetBlockPattern
<1>2. ~long
  <2> HIDE DEF long, lost
  <2> QED BY <1>1
<1> QED BY <1>2

LEMMA VerifyOne ==
  ASSUME NEW mask, NEW out, NEW got
  PROVE  VerifySoc([mask |-> <<mask>>, unload |-> <<out>>], <<got>>)
           <=> \A k \in 1..Len(got) : mask[k] => got[k] = out[k]
<1>1. Len(<<got>>) = 1 /\ <<got>>[1] = got /\ <<mask>>[1] = mask /\ <<out>>[1] = out /\ 1..1 = {1}
  OBVIOUS
<1> QED BY <1>1 DEF VerifySoc

LEMMA UnloadedLen == \A reg, n : n \in Nat => Len(Unloaded(reg, n)) = n
BY DEF Unloaded

(* The two promises a pattern makes of one chip chain. *)
Places(load, chain, block, before, shifted) ==
  \A p \in Positions(chain) : Owned(chain, block, p - 1) =>
    Loaded(before, shifted)[p] = Wanted(load, chain, block, p)
Decides(unload, chain, block, max, before, mask, out) ==
  VerifySoc([mask |-> <<mask>>, unload |-> <<out>>], <<Unloaded(before, max)>>)
    <=> \A p \in Positions(chain) : Owned(chain, block, p - 1) => before[p] = Wanted(unload, chain, block, p)

LEMMA ChainIsVerified ==
  ASSUME NEW load, NEW unload, NEW chain, NEW block, NEW longest \in Nat, NEW max \in Nat,
         chain.length \in Nat, ~(chain.length > max),
         Holds(load, chain, block, longest), Holds(unload, chain, block, longest),
         NEW before \in [Positions(chain) -> BOOLEAN]
  PROVE  /\ Places(load, chain, block, before,
                   LoadSeq(SerializeVector(load, unload, longest), chain, block, max))
         /\ Decides(unload, chain, block, max, before, MaskSeq(chain, block, max),
                    UnloadSeq(SerializeVector(load, unload, longest), chain, block, max))
<1> DEFINE bp == SerializeVector(load, unload, longest)
           got == Unloaded(before, max)
           mask == MaskSeq(chain, block, max)
           out == UnloadSeq(bp, chain, block, max)
<1>1. chain.length \in 0..max
  OBVIOUS
<1>2. /\ \A p \in Positions(chain) : Owned(chain, block, p - 1) =>
           Loaded(before, LoadSeq(bp, chain, block, max))[p] = Wanted(load, chain, block, p)
      /\ (\A k \in 1..max : mask[k] => got[k] = out[k])
           <=> \A p \in Positions(chain) : Owned(chain, block, p - 1) =>
                 before[p] = Wanted(unload, chain, block, p)
  BY <1>1, ChainIsRetargeted
<1>3. Len(got) = max
  BY UnloadedLen
<1> HIDE DEF bp, got, mask, out
<1>4. VerifySoc([mask |-> <<mask>>, unload |-> <<out>>], <<got>>)
         <=> \A k \in 1..max : mask[k] => got[k] = out[k]
  BY <1>3, VerifyOne
<1>5. Places(load, chain, block, before, LoadSeq(bp, chain, block, max))
  BY <1>2 DEF Places
<1>6. Decides(unload, chain, block, max, before, mask, out)
  BY <1>2, <1>4 DEF Decides, got
<1> QED BY <1>5, <1>6 DEF bp, mask, out

LEMMA PatternIsRight ==
  ASSUME NEW load, NEW unload, NEW longest \in Nat, NEW access, NEW block, access.max \in Nat,
         NEW c \in 1..Len(access.chains), access.chains[c].length \in Nat,
         Holds(load, access.chains[c], block, longest), Holds(unload, access.chains[c], block, longest),
         RetargetBlockPattern(SerializeVector(load, unload, longest), access, block).why = "",
         NEW before \in [Positions(access.chains[c]) -> BOOLEAN]
  PROVE  /\ Places(load, access.chains[c], block, before,
                   RetargetBlockPattern(SerializeVector(load, unload, longest), access, block).load[c])
         /\ Decides(unload, access.chains[c], block, access.max, before,
                    RetargetBlockPattern(SerializeVector(load, unload, longest), access, block).mask[c],
                    RetargetBlockPattern(SerializeVector(load, unload, longest), access, block).unload[c])
<1> DEFINE bp == SerializeVector(load, unload, longest)
           chain == access.chains[c]
           max == access.max
           pattern == RetargetBlockPattern(bp, access, block)
<1>1. /\ ~(chain.length > max)
      /\ pattern.load[c] = LoadSeq(bp, chain, block, max)
      /\ pattern.unload[c] = UnloadSeq(bp, chain, block, max)
      /\ pattern.mask[c] = MaskSeq(chain, block, max)
  <2>1. RetargetBlockPattern(bp, access, block).why = ""
    OBVIOUS
  <2> HIDE DEF bp
  <2>2. \A d \in 1..Len(access.chains) : ~(access.chains[d].length > access.max)
    BY <2>1, PatternFits
  <2>3. ~(chain.length > max)
    BY <2>2
  <2>4. pattern.load[c] = LoadSeq(bp, chain, block, max)
    BY DEF RetargetBlockPattern
  <2>5. pattern.unload[c] = UnloadSeq(bp, chain, block, max)
    BY DEF RetargetBlockPattern
  <2>6. pattern.mask[c] = MaskSeq(chain, block, max)
    BY DEF RetargetBlockPattern
  <2> HIDE DEF pattern, chain, max
  <2> QED BY <2>3, <2>4, <2>5, <2>6
<1>2. /\ Places(load, chain, block, before, LoadSeq(bp, chain, block, max))
      /\ Decides(unload, chain, block, max, before, MaskSeq(chain, block, max), UnloadSeq(bp, chain, block, max))
  BY <1>1, ChainIsVerified
<1> HIDE DEF bp, chain, max, pattern
<1>3. /\ Places(load, chain, block, before, pattern.load[c])
      /\ Decides(unload, chain, block, max, before, pattern.mask[c], pattern.unload[c])
  BY <1>1, <1>2
<1> QED BY <1>3 DEF bp, chain, max, pattern

LEMMA AccessIsRight ==
  ASSUME NEW a \in Accesses, NEW c \in 1..Len(a.access.chains)
  PROVE  /\ a.access.max \in Nat /\ a.longest \in Nat /\ a.access.chains[c].length \in Nat
         /\ Holds(a.load, a.access.chains[c], a.block, a.longest)
         /\ Holds(a.unload, a.access.chains[c], a.block, a.longest)
BY AccessesFit DEF Holds

LEMMA ReportIsRight ==
  ASSUME NEW a \in Accesses, report = Retargeted(a)
  PROVE  RetargetedPatternLoads
<1>1. /\ report.access = a.access /\ report.block = a.block /\ report.want = a.load
      /\ report.after = a.unload
      /\ report.pattern = RetargetBlockPattern(SerializeVector(a.load, a.unload, a.longest), a.access, a.block)
  BY DEF Retargeted
<1>2. ASSUME RetargetBlockPattern(SerializeVector(a.load, a.unload, a.longest), a.access, a.block).why = "",
             NEW c \in 1..Len(a.access.chains), NEW before \in [Positions(a.access.chains[c]) -> BOOLEAN]
      PROVE  /\ Places(a.load, a.access.chains[c], a.block, before,
                  RetargetBlockPattern(SerializeVector(a.load, a.unload, a.longest), a.access, a.block).load[c])
             /\ Decides(a.unload, a.access.chains[c], a.block, a.access.max, before,
                  RetargetBlockPattern(SerializeVector(a.load, a.unload, a.longest), a.access, a.block).mask[c],
                  RetargetBlockPattern(SerializeVector(a.load, a.unload, a.longest), a.access, a.block).unload[c])
  BY <1>2, AccessIsRight, PatternIsRight
<1>3. ASSUME report.pattern.why = "", NEW c \in 1..Len(report.access.chains),
             NEW before \in [Positions(report.access.chains[c]) -> BOOLEAN]
      PROVE  /\ Places(report.want, report.access.chains[c], report.block, before, report.pattern.load[c])
             /\ Decides(report.after, report.access.chains[c], report.block, report.access.max, before,
                        report.pattern.mask[c], report.pattern.unload[c])
  BY <1>1, <1>2, <1>3
<1> QED BY <1>3 DEF RetargetedPatternLoads, Places, Decides

(* Shifting a retargeted pattern in leaves in the block's chains the values wanted there, *)
(* and comparing what is shifted out tells exactly whether they hold the values expected, *)
(* for every access manifest, pattern, chain length and chain contents.                   *)
THEOREM RetargetingIsRight == RunSpec => []RetargetedPatternLoads
<1>1. Init => ReportInv
  BY DEF Init, Silent, ReportInv
<1>2. ReportInv => RetargetedPatternLoads
  BY ReportIsRight DEF ReportInv, RetargetedPatternLoads
<1> QED BY <1>1, <1>2, ReportInductive, PTL DEF RunSpec
===============================================================================
