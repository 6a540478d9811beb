------------------------------ MODULE Session ------------------------------
(***************************************************************************)
(* The interactive shell's project session: the flags ProjectSession keeps *)
(* in memory (synthesized, scan_inserted, scan_checked,                    *)
(* scan_campaign_stale), its checkpoint session.json, and what its commands*)
(* leave on disk for one top: netlists, the scanned netlist and its        *)
(* manifest, the campaign rows of the database, the test-point stack.      *)
(*                                                                         *)
(* A command that writes several files is several steps.  Between two of   *)
(* them the command may raise (the session goes on with its old flags) or  *)
(* the process may die (a later session resumes from the checkpoint).      *)
(* A hash of a file is the file's content; a netlist's content counts the  *)
(* wrappings and test-point insertions it went through.                    *)
(***************************************************************************)
EXTENDS Naturals, Sequences, FiniteSets

CONSTANTS
  Libs,          \* technology profiles
  Options,       \* values of the options and declarations that config_hash covers
  Modes,         \* values of set_testmode, a subset of {"functional", "intest", "extest"}
  Chains,        \* values of add_scan -chains
  Broken,        \* chain counts whose stitched netlist the structural check rejects
  Inequivalent,  \* chain counts whose stitched netlist only the normal-mode check rejects
  Verilog,       \* the design is given as Verilog, not as a netlist
  MaxEdits,      \* bound on the wrappings and test-point insertions of one netlist
  MaxPoints,     \* bound on the test-point insertions, 0 when opentest is not configured
  Failures,      \* a command may raise between two of its writes
  Crashes,       \* the process may die between two writes, or while it writes the manifest
  None,          \* nothing: no file, no profile, no campaign
  Torn           \* a manifest whose write was cut off: not JSON

ASSUME ModesAreTestModes == Modes # {} /\ Modes \subseteq {"functional", "intest", "extest"}
ASSUME ChecksAreOfChains == Broken \subseteq Chains /\ Inequivalent \subseteq Chains
ASSUME SessionBounds == MaxEdits \in Nat /\ MaxPoints \in Nat /\ Options # {}

VARIABLES
  sess,    \* ProjectSession
  ckpt,    \* session.json
  files,   \* netlists on disk: path -> content
  scan,    \* the scanned netlist and scan_manifest.json
  db,      \* the campaigns table: campaign type -> fingerprint
  runs,    \* every ATPG run the database holds, with what it graded
  tps,     \* TestpointVersionStack, oldest first
  pc,      \* the command in progress
  smooth   \* history: no command was cut short, no test point rejected and no source
           \* overwritten by its own test-point netlist, so far

vars == <<sess, ckpt, files, scan, db, runs, tps, pc, smooth>>

-----------------------------------------------------------------------------
(* Files *)

\* A path is a directory and a name: the user's directory, intermediate/, and tp/iter<k>/.
User == 0
Work == 1
PointDir(k) == Work + k
Paths == (User .. PointDir(MaxPoints)) \X {"rtl", "json", "wrapped"}
Contents == [wraps : 0 .. MaxEdits, points : 0 .. MaxEdits]
Plain == [wraps |-> 0, points |-> 0]

RtlPath == <<User, "rtl">>
SynthPath == <<Work, "json">>
WrappedPath(p) == <<p[1], "wrapped">>
PointPath(k) == <<PointDir(k), "json">>
IsVerilog(p) == p[2] = "rtl"

\* A scanned netlist, and the manifest that describes it.
Generics == [net : Contents, chains : Chains]
Checks == {"none", "PASS", "FAIL"}
Manifests == [hash : Generics, check : Checks, checked : Generics \cup {None}]

Types == {"comb", "scan", "scan_extest"}
Fingerprints == [on : Contents \cup Generics, path : Paths, lib : Libs \cup {None}, opts : Options,
                 mode : Modes]
Sessions == [source : Paths \cup {None}, lib : Libs \cup {None}, synthesized : BOOLEAN,
             inserted : BOOLEAN, checked : BOOLEAN, stale : BOOLEAN, opts : Options, mode : Modes]

ASSUME NoneIsNothing == None \notin Paths \cup Manifests \cup Fingerprints \cup Sessions
ASSUME TornIsNoManifest == Torn \notin Manifests

Idle == [op |-> "idle"]

Blank ==
  [source |-> None, lib |-> None, synthesized |-> FALSE, inserted |-> FALSE, checked |-> FALSE,
   stale |-> FALSE, opts |-> CHOOSE o \in Options : TRUE,
   mode |-> IF "functional" \in Modes THEN "functional" ELSE CHOOSE m \in Modes : TRUE]

Init ==
  /\ sess = Blank
  /\ ckpt = None
  /\ files = [p \in {IF Verilog THEN RtlPath ELSE <<User, "json">>} |-> Plain]
  /\ scan = [generic |-> None, manifest |-> None]
  /\ db = [t \in Types |-> None]
  /\ runs = {}
  /\ tps = << >>
  /\ pc = Idle
  /\ smooth = TRUE

-----------------------------------------------------------------------------
(* Helpers of the commands *)

disk == <<files, scan, db, runs, tps>>
Loaded == sess.source # None
Configured == Loaded /\ sess.lib # None
Source == files[sess.source]

WriteFile(p, c) == files' = [q \in DOMAIN files \cup {p} |-> IF q = p THEN c ELSE files[q]]

\* The new session is checkpointed, once a design is loaded.
Save(s) == sess' = s /\ ckpt' = IF s.source # None THEN s ELSE ckpt

\* _scan_check_is_fresh: a readable manifest whose last check passed on what the file now is.
CheckIsFresh ==
  /\ scan.manifest \in Manifests
  /\ scan.manifest.check = "PASS"
  /\ scan.manifest.checked = scan.generic

\* has_campaign: the scan campaign of the database is not of the current manifest.
HasCampaign ==
  /\ db["scan"] # None
  /\ scan.manifest \in Manifests => db["scan"].on # scan.manifest.hash

Fingerprint(s, on) == [on |-> on, path |-> s.source, lib |-> s.lib, opts |-> s.opts, mode |-> s.mode]

\* Mutant of Matches: the netlist hash is not a fingerprint field.
MatchesConfigOnly(type, fp) ==
  db[type] # None => db[type].lib = fp.lib /\ db[type].opts = fp.opts /\ db[type].mode = fp.mode

\* ensure_campaign: a new row, or the latest one when no field of it changed.
Matches(type, fp) == db[type] \in {None, fp}
EnsureCampaign(type, fp) == Matches(type, fp) /\ db' = [db EXCEPT ![type] = fp]

-----------------------------------------------------------------------------
(* Commands that only touch the session *)

ReadNetlist(p) ==
  /\ pc = Idle /\ ~Loaded
  /\ p \in DOMAIN files
  /\ Save([sess EXCEPT !.source = p, !.synthesized = ~IsVerilog(p)])
  /\ UNCHANGED <<disk, pc, smooth>>

UseLibCells(l) ==
  /\ pc = Idle
  /\ Save([sess EXCEPT !.lib = l, !.checked = @ /\ ~Loaded])
  /\ UNCHANGED <<disk, pc, smooth>>

SetOption(o) ==
  /\ pc = Idle
  /\ Save([sess EXCEPT !.opts = o])
  /\ UNCHANGED <<disk, pc, smooth>>

SetTestmode(m) ==
  /\ pc = Idle
  /\ Save([sess EXCEPT !.mode = m])
  /\ UNCHANGED <<disk, pc, smooth>>

SaveSession ==
  /\ pc = Idle /\ Loaded
  /\ Save(sess)
  /\ UNCHANGED <<disk, pc, smooth>>

Reset ==
  /\ pc = Idle
  /\ sess' = Blank
  /\ UNCHANGED <<ckpt, disk, pc, smooth>>

\* What load_session takes from a checkpoint, before a resume validates it.
Restored(resume) ==
  [ckpt EXCEPT !.synthesized = IF resume THEN @ ELSE ~IsVerilog(ckpt.source),
               !.inserted = @ /\ resume, !.checked = @ /\ resume, !.stale = @ /\ resume]

Validated(s) ==
  [s EXCEPT !.inserted = @ /\ scan.manifest # None,
            !.checked = @ /\ (s.inserted => CheckIsFresh)]

\* A checkpoint of a session without a profile names no profile: get_profile raises.
LoadSession(resume) ==
  /\ pc = Idle /\ ~Loaded
  /\ ckpt # None
  /\ ckpt.source \in DOMAIN files
  /\ ckpt.lib # None
  /\ sess' = IF resume THEN Validated(Restored(TRUE)) ELSE Restored(FALSE)
  /\ UNCHANGED <<ckpt, disk, pc, smooth>>

-----------------------------------------------------------------------------
(* synth and wrap: the netlist is written, then the session moves to it *)

\* On a JSON source nothing is written; on Verilog, Yosys writes intermediate/<top>.json.
Synthesize ==
  /\ pc = Idle /\ Configured
  /\ pc' = [op |-> "synth", to |-> IF IsVerilog(sess.source) THEN SynthPath ELSE sess.source]
  /\ IF IsVerilog(sess.source) THEN WriteFile(SynthPath, Plain) ELSE UNCHANGED files
  /\ UNCHANGED <<sess, ckpt, scan, db, runs, tps, smooth>>

SynthesizeDone ==
  /\ pc.op = "synth"
  /\ Save([sess EXCEPT !.source = pc.to, !.synthesized = TRUE, !.inserted = FALSE, !.checked = FALSE])
  /\ pc' = Idle
  /\ UNCHANGED <<disk, smooth>>

\* The wrapped netlist goes next to the source: a second wrap overwrites its own source.
Wrap ==
  /\ pc = Idle /\ Loaded
  /\ ~IsVerilog(sess.source)
  /\ Source.wraps + Source.points < MaxEdits
  /\ WriteFile(WrappedPath(sess.source), [Source EXCEPT !.wraps = @ + 1])
  /\ pc' = [op |-> "wrap", to |-> WrappedPath(sess.source)]
  /\ UNCHANGED <<sess, ckpt, scan, db, runs, tps, smooth>>

\* Mutant of WrapDone: the scan flags survive.
WrapDoneKeepsScan ==
  /\ pc.op = "wrap"
  /\ Save([sess EXCEPT !.source = pc.to, !.stale = FALSE])
  /\ pc' = Idle
  /\ UNCHANGED <<disk, smooth>>

WrapDone ==
  /\ pc.op = "wrap"
  /\ Save([sess EXCEPT !.source = pc.to, !.inserted = FALSE, !.checked = FALSE, !.stale = FALSE])
  /\ pc' = Idle
  /\ UNCHANGED <<disk, smooth>>

-----------------------------------------------------------------------------
(* add_scan and check_scan *)

\* stitch_scan_json writes the scanned netlist.
AddScan(c) ==
  /\ pc = Idle /\ Configured /\ sess.synthesized
  /\ scan' = [scan EXCEPT !.generic = [net |-> Source, chains |-> c]]
  /\ pc' = [op |-> "stitched"]
  /\ UNCHANGED <<sess, ckpt, files, db, runs, tps, smooth>>

\* manifest_from_result hashes it; no check has run yet.
AddScanManifest ==
  /\ pc.op = "stitched"
  /\ scan' = [scan EXCEPT !.manifest = [hash |-> scan.generic, check |-> "none", checked |-> None]]
  /\ pc' = [op |-> "inserted"]
  /\ UNCHANGED <<sess, ckpt, files, db, runs, tps, smooth>>

\* Mutant of AddScanDone: the campaign is not compared with the new manifest.
AddScanDoneUnaware ==
  /\ pc.op = "inserted"
  /\ Save([sess EXCEPT !.inserted = TRUE, !.checked = FALSE])
  /\ pc' = Idle
  /\ UNCHANGED <<disk, smooth>>

AddScanDone ==
  /\ pc.op = "inserted"
  /\ Save([sess EXCEPT !.inserted = TRUE, !.checked = FALSE, !.stale = HasCampaign])
  /\ pc' = Idle
  /\ UNCHANGED <<disk, smooth>>

\* What scan_check finds wrong with the scanned netlist the manifest names.
CheckFails(structural) ==
  \/ scan.generic # scan.manifest.hash
  \/ scan.generic.chains \in Broken
  \/ ~structural /\ scan.generic.chains \in Inequivalent

\* The verdict goes into the manifest; a failed check raises and leaves scan_checked as it was.
CheckScan(structural) ==
  /\ pc = Idle /\ Configured /\ sess.inserted
  /\ scan.manifest \in Manifests
  /\ LET verdict == IF CheckFails(structural) THEN "FAIL" ELSE "PASS" IN
     /\ scan' = [scan EXCEPT !.manifest.check = verdict, !.manifest.checked = scan.generic]
     /\ pc' = IF verdict = "PASS" THEN [op |-> "checked"] ELSE Idle
  /\ UNCHANGED <<sess, ckpt, files, db, runs, tps, smooth>>

CheckScanDone ==
  /\ pc.op = "checked"
  /\ Save([sess EXCEPT !.checked = TRUE])
  /\ pc' = Idle
  /\ UNCHANGED <<disk, smooth>>

-----------------------------------------------------------------------------
(* run_atpg and clean *)

\* The campaign a run belongs to.
TypeOf(isScan) ==
  IF ~isScan THEN "comb" ELSE IF sess.mode = "extest" THEN "scan_extest" ELSE "scan"

\* _preflight_sim_scan, the runner's own check of the manifest.
PreflightPasses ==
  /\ scan.manifest \in Manifests
  /\ scan.generic = scan.manifest.hash
  /\ scan.manifest.check = "PASS"
  /\ scan.manifest.checked = scan.generic

\* run_atpg's preconditions, in order, up to the freshness of the check.
Admitted(isScan) ==
  /\ Loaded /\ sess.synthesized
  /\ isScan => sess.inserted /\ sess.checked /\ ~sess.stale

\* SCAN_CHECK_STALE: the flag is dropped in memory only.
RefuseStaleCheck ==
  /\ pc = Idle /\ Admitted(TRUE) /\ Configured /\ ~CheckIsFresh
  /\ sess' = [sess EXCEPT !.checked = FALSE]
  /\ UNCHANGED <<ckpt, disk, pc, smooth>>

\* The runner takes over: its preflight, then the campaign of the run.
StartRun(isScan) ==
  /\ pc = Idle /\ Admitted(isScan) /\ Configured
  /\ isScan => CheckIsFresh
  /\ LET type == TypeOf(isScan)
         fp == Fingerprint(sess, IF isScan THEN scan.generic ELSE Source)
         next == IF isScan /\ ~PreflightPasses THEN "preflight"
                 ELSE IF Matches(type, fp) THEN "grading" ELSE "mismatch" IN
     /\ pc' = [op |-> next, type |-> type, fp |-> fp]
     /\ IF next = "grading" THEN EnsureCampaign(type, fp) ELSE UNCHANGED db
  /\ UNCHANGED <<sess, ckpt, files, scan, runs, tps, smooth>>

\* The command ends: a run is recorded, or the runner's error is reported.
EndRun ==
  /\ pc.op \in {"preflight", "mismatch", "grading"}
  /\ runs' = runs \cup IF pc.op = "grading" THEN {[type |-> pc.type, fp |-> pc.fp]} ELSE {}
  /\ pc' = Idle
  /\ UNCHANGED <<sess, ckpt, files, scan, db, tps, smooth>>

\* clean_campaigns unlinks the database; the session then forgets that it was stale.
Clean ==
  /\ pc = Idle /\ Configured
  /\ db' = [t \in Types |-> None]
  /\ runs' = {}
  /\ pc' = [op |-> "cleaned"]
  /\ UNCHANGED <<sess, ckpt, files, scan, tps, smooth>>

CleanDone ==
  /\ pc.op = "cleaned"
  /\ Save([sess EXCEPT !.stale = FALSE])
  /\ pc' = Idle
  /\ UNCHANGED <<disk, smooth>>

-----------------------------------------------------------------------------
(* add_tp and reject_tp *)

\* The stack add_tp works on: the first call pushes the current source as the baseline.
WithBaseline == IF tps = << >> THEN <<sess.source>> ELSE tps

\* opentest writes the netlist with test points, once a combinational campaign exists.  A
\* refused add_tp leaves its file behind; a session that reads that file overwrites it.
AddTp ==
  /\ pc = Idle /\ Configured /\ sess.synthesized
  /\ db["comb"] # None
  /\ Len(WithBaseline) <= MaxPoints /\ Source.wraps + Source.points < MaxEdits
  /\ tps' = WithBaseline
  /\ WriteFile(PointPath(Len(WithBaseline)), [Source EXCEPT !.points = @ + 1])
  /\ pc' = [op |-> "points", to |-> PointPath(Len(WithBaseline))]
  /\ smooth' = (smooth /\ sess.source # PointPath(Len(WithBaseline)))
  /\ UNCHANGED <<sess, ckpt, scan, db, runs>>

\* initialize and run_atpg on it, in the same database.
AddTpRun ==
  /\ pc.op = "points"
  /\ LET fp == Fingerprint([sess EXCEPT !.source = pc.to], files[pc.to]) IN
     IF Matches("comb", fp)
     THEN /\ pc' = [op |-> "compare", to |-> pc.to]
          /\ EnsureCampaign("comb", fp)
          /\ runs' = runs \cup {[type |-> "comb", fp |-> fp]}
     ELSE pc' = [op |-> "no campaign"] /\ UNCHANGED <<db, runs>>
  /\ UNCHANGED <<sess, ckpt, files, scan, tps, smooth>>

\* The fingerprint error is reported.
AddTpRefused ==
  /\ pc.op = "no campaign"
  /\ pc' = Idle
  /\ UNCHANGED <<sess, ckpt, disk, smooth>>

AddTpDone ==
  /\ pc.op = "compare"
  /\ tps' = Append(tps, pc.to)
  /\ Save(sess)
  /\ pc' = Idle
  /\ UNCHANGED <<files, scan, db, runs, smooth>>

RejectTp ==
  /\ pc = Idle /\ Loaded
  /\ Len(tps) > 1
  /\ tps' = SubSeq(tps, 1, Len(tps) - 1)
  /\ Save([sess EXCEPT !.source = tps[Len(tps) - 1]])
  /\ smooth' = FALSE
  /\ UNCHANGED <<files, scan, db, runs, pc>>

-----------------------------------------------------------------------------
(* Failures *)

\* An exception between two writes reaches the prompt; the session keeps its flags.
Raise ==
  /\ Failures /\ pc # Idle
  /\ pc' = Idle
  /\ smooth' = FALSE
  /\ UNCHANGED <<sess, ckpt, disk>>

Crash ==
  /\ Crashes /\ pc # Idle
  /\ sess' = Blank
  /\ pc' = Idle
  /\ smooth' = FALSE
  /\ UNCHANGED <<ckpt, disk>>

\* write_manifest is not atomic: it may be cut off in add_scan and in check_scan.
CrashInManifest ==
  /\ Crashes /\ pc.op \in {"stitched", "checked"}
  /\ scan' = [scan EXCEPT !.manifest = Torn]
  /\ sess' = Blank
  /\ pc' = Idle
  /\ smooth' = FALSE
  /\ UNCHANGED <<ckpt, files, db, runs, tps>>

Next ==
  \/ \E p \in Paths : ReadNetlist(p)
  \/ \E l \in Libs : UseLibCells(l)
  \/ \E o \in Options : SetOption(o)
  \/ \E m \in Modes : SetTestmode(m)
  \/ SaveSession \/ Reset
  \/ \E resume \in BOOLEAN : LoadSession(resume)
  \/ Synthesize \/ SynthesizeDone
  \/ Wrap \/ WrapDone
  \/ \E c \in Chains : AddScan(c)
  \/ AddScanManifest \/ AddScanDone
  \/ \E structural \in BOOLEAN : CheckScan(structural)
  \/ CheckScanDone
  \/ RefuseStaleCheck
  \/ \E isScan \in BOOLEAN : StartRun(isScan)
  \/ EndRun
  \/ Clean \/ CleanDone
  \/ AddTp \/ AddTpRun \/ AddTpRefused \/ AddTpDone \/ RejectTp
  \/ Raise \/ Crash \/ CrashInManifest

Spec == Init /\ [][Next]_vars

-----------------------------------------------------------------------------
(* Properties *)

GradingScan == pc.op = "grading" /\ pc.type # "comb"

\* run_atpg -scan only grades a scanned netlist that is, byte for byte, one the structural
\* check accepts, whatever commands were interrupted, repeated or resumed before; and as
\* long as none was cut short, no test point rejected and no test-point netlist written
\* over its own source, it is the scanned form of the session's current source, not of
\* the one before synth, wrap, reset or a resume.
GradesCurrentNetlist ==
  GradingScan =>
    /\ pc.fp.on = scan.generic /\ pc.fp.on.chains \notin Broken
    /\ smooth => pc.fp.on.net = Source

\* All runs of a campaign graded the same netlist under the same profile, options and test
\* mode: ensure_campaign resumes a campaign only when no fingerprint field changed.
CampaignIsOfOneDesign == \A r \in runs : db[r.type] = r.fp

\* As long as no command was cut short the session knows when the scan campaign belongs to
\* a previous scan configuration: no scan run it admits is refused because the campaign's
\* manifest hash differs.
StaleCampaignIsKnown ==
  smooth /\ pc.op = "mismatch" /\ pc.type = "scan" => db["scan"].on = pc.fp.on
=============================================================================
