---------------------------- MODULE SessionProofs ----------------------------
(***************************************************************************)
(* The shell session's flags, files and campaigns, for any number of       *)
(* profiles, options, chain counts, wrappings and test-point insertions,   *)
(* and any interleaving of failures, crashes and resumptions.              *)
(*                                                                         *)
(* SessionInv adds to the properties what the flags promise between two    *)
(* commands: the session and its checkpoint name one source, a session     *)
(* that says "inserted" has a scanned form of that source on disk, and one *)
(* that does not say "stale" has a scan campaign of the current manifest.  *)
(***************************************************************************)
EXTENDS Session, TLAPS

\* A command in progress, by what its next step needs.
Commands ==
  {Idle}
    \cup [op : {"synth", "wrap", "points", "compare"}, to : Paths]
    \cup [op : {"stitched", "inserted", "checked", "cleaned", "no campaign"}]
    \cup [op : {"preflight", "mismatch", "grading"}, type : Types, fp : Fingerprints]

SessionType ==
  /\ sess \in Sessions
  /\ ckpt \in Sessions \cup {None}
  /\ DOMAIN files \subseteq Paths /\ \A p \in DOMAIN files : files[p] \in Contents
  /\ scan \in [generic : Generics \cup {None}, manifest : Manifests \cup {None, Torn}]
  /\ db \in [Types -> Fingerprints \cup {None}]
  /\ runs \subseteq [type : Types, fp : Fingerprints]
  /\ tps \in Seq(Paths)
  /\ pc \in Commands
  /\ smooth \in BOOLEAN

\* Every path the session, its checkpoint, the stack or the command in progress names is
\* a file.
PathsExist ==
  /\ Loaded => sess.source \in DOMAIN files
  /\ ckpt # None => ckpt.source \in DOMAIN files
  /\ \A k \in 1 .. Len(tps) : tps[k] \in DOMAIN files
  /\ pc.op \in {"synth", "wrap", "points", "compare"} => pc.to \in DOMAIN files
  /\ pc.op = "stitched" => scan.generic \in Generics

\* A loaded session was checkpointed under its source; an unloaded one claims nothing.
CheckpointNamesSource ==
  /\ Loaded => ckpt # None /\ ckpt.source = sess.source
  /\ ~Loaded => ~sess.inserted
  /\ pc # Idle => Loaded

\* A passed check was of a netlist the structural check accepts.
PassedIsSound ==
  scan.manifest \in Manifests /\ scan.manifest.check = "PASS" =>
    scan.manifest.checked \in Generics /\ scan.manifest.checked.chains \notin Broken

\* What a session's flags say of the disk: the scanned netlist is of its source, the
\* manifest describes it, and the scan campaign is of that manifest unless "stale".
FlagsHold(s) ==
  s.inserted =>
    /\ scan.generic \in Generics /\ scan.generic.net = files[s.source]
    /\ scan.manifest \in Manifests /\ scan.manifest.hash = scan.generic
    /\ ~s.stale /\ db["scan"] # None => db["scan"].on = scan.manifest.hash

\* The commands that are rewriting what the flags are about.
Rewriting == pc.op \in {"synth", "wrap", "stitched", "inserted"}

FlagsInv ==
  /\ smooth /\ ~Rewriting => FlagsHold(sess) /\ (ckpt # None => FlagsHold(ckpt))
  /\ pc.op = "stitched" => scan.generic.net = Source
  /\ pc.op = "inserted" => /\ scan.generic \in Generics /\ scan.generic.net = Source
                           /\ scan.manifest \in Manifests
                           /\ scan.manifest.hash = scan.generic
  /\ pc.op = "cleaned" => db["scan"] = None

\* A campaign row exists as long as a run of it does, or is being graded.
RunsHaveCampaigns ==
  /\ \A r \in runs : db[r.type] = r.fp
  /\ pc.op = "grading" => db[pc.type] = pc.fp

SessionInv ==
  /\ SessionType /\ PathsExist /\ CheckpointNamesSource /\ PassedIsSound
  /\ FlagsInv /\ RunsHaveCampaigns
  /\ GradesCurrentNetlist /\ StaleCampaignIsKnown

-----------------------------------------------------------------------------
(* Types, paths and the checkpoint *)

BaseInv == SessionType /\ PathsExist /\ CheckpointNamesSource /\ PassedIsSound

LEMMA BlankIsSession == Blank \in Sessions /\ Blank.source = None /\ ~Blank.inserted
BY SessionBounds, ModesAreTestModes DEF Blank, Sessions

LEMMA PlainIsContent == Plain \in Contents
BY SessionBounds DEF Plain, Contents

\* The paths the commands write.
LEMMA PathTypes ==
  /\ RtlPath \in Paths /\ SynthPath \in Paths /\ <<User, "json">> \in Paths
  /\ \A p \in Paths : WrappedPath(p) \in Paths
  /\ \A k \in 0 .. MaxPoints : PointPath(k) \in Paths
BY SessionBounds DEF RtlPath, SynthPath, User, Work, Paths, WrappedPath, PointPath, PointDir

LEMMA IdleIsCommand == Idle \in Commands /\ Idle.op = "idle"
BY DEF Idle, Commands

\* A session is saved under the source it names, and an unloaded one is not saved.
LEMMA SaveKeeps ==
  ASSUME BaseInv, NEW s \in Sessions, Save(s),
         s.source = None => ~s.inserted /\ ~Loaded,
         s.source # None => s.source \in DOMAIN files
  PROVE  /\ sess' \in Sessions /\ ckpt' \in Sessions \cup {None}
         /\ Loaded' => sess'.source \in DOMAIN files /\ ckpt' # None /\ ckpt'.source = sess'.source
         /\ ~Loaded' => ~sess'.inserted
         /\ ckpt' # None => ckpt'.source \in DOMAIN files
BY NoneIsNothing DEF BaseInv, SessionType, PathsExist, Save, Loaded, CheckpointNamesSource

\* A written file is a netlist, and no file goes away.
LEMMA WriteKeeps ==
  ASSUME SessionType, NEW p \in Paths, NEW c \in Contents, WriteFile(p, c)
  PROVE  /\ DOMAIN files \subseteq DOMAIN files' /\ p \in DOMAIN files'
         /\ DOMAIN files' \subseteq Paths /\ \A q \in DOMAIN files' : files'[q] \in Contents
         /\ files'[p] = c /\ \A q \in DOMAIN files : q # p => files'[q] = files[q]
BY DEF SessionType, WriteFile

\* What a checkpoint gives back is a session of its source.
LEMMA RestoredIsSession ==
  ASSUME ckpt \in Sessions, NEW resume \in BOOLEAN
  PROVE  Restored(resume) \in Sessions /\ Restored(resume).source = ckpt.source
BY DEF Restored, Sessions, IsVerilog

LEMMA BaseInductive == BaseInv /\ [Next]_vars => BaseInv'
<1> SUFFICES ASSUME BaseInv, [Next]_vars PROVE BaseInv'
  OBVIOUS
<1> USE NoneIsNothing, TornIsNoManifest, BlankIsSession, IdleIsCommand DEF BaseInv, Loaded, Configured, Source, disk
<1>1. ASSUME NEW p \in Paths, ReadNetlist(p) PROVE BaseInv'
  <2> DEFINE s == [sess EXCEPT !.source = p, !.synthesized = ~IsVerilog(p)]
  <2>1. s \in Sessions /\ s.source = p /\ p \in DOMAIN files /\ Save(s)
    BY <1>1 DEF ReadNetlist, SessionType, Sessions
  <2> HIDE DEF s
  <2> QED BY <1>1, <2>1, SaveKeeps DEF ReadNetlist, SessionType, PathsExist, CheckpointNamesSource,
    PassedIsSound
<1>2. ASSUME NEW l \in Libs, UseLibCells(l) PROVE BaseInv'
  <2> DEFINE s == [sess EXCEPT !.lib = l, !.checked = @ /\ ~Loaded]
  <2>1. s \in Sessions /\ s.source = sess.source /\ s.inserted = sess.inserted /\ Save(s)
    BY <1>2 DEF UseLibCells, SessionType, Sessions
  <2> HIDE DEF s
  <2> QED BY <1>2, <2>1, SaveKeeps DEF UseLibCells, SessionType, PathsExist, CheckpointNamesSource,
    PassedIsSound
<1>3. ASSUME NEW o \in Options, SetOption(o) PROVE BaseInv'
  <2> DEFINE s == [sess EXCEPT !.opts = o]
  <2>1. s \in Sessions /\ s.source = sess.source /\ s.inserted = sess.inserted /\ Save(s)
    BY <1>3 DEF SetOption, SessionType, Sessions
  <2> HIDE DEF s
  <2> QED BY <1>3, <2>1, SaveKeeps DEF SetOption, SessionType, PathsExist, CheckpointNamesSource,
    PassedIsSound
<1>4. ASSUME NEW m \in Modes, SetTestmode(m) PROVE BaseInv'
  <2> DEFINE s == [sess EXCEPT !.mode = m]
  <2>1. s \in Sessions /\ s.source = sess.source /\ s.inserted = sess.inserted /\ Save(s)
    BY <1>4 DEF SetTestmode, SessionType, Sessions
  <2> HIDE DEF s
  <2> QED BY <1>4, <2>1, SaveKeeps DEF SetTestmode, SessionType, PathsExist, CheckpointNamesSource,
    PassedIsSound
<1>5. CASE SaveSession
  BY <1>5, SaveKeeps DEF SaveSession, SessionType, PathsExist, CheckpointNamesSource,
    PassedIsSound
<1>6. CASE Reset
  BY <1>6 DEF Reset, SessionType, PathsExist, CheckpointNamesSource,
    PassedIsSound
<1>7. ASSUME NEW resume \in BOOLEAN, LoadSession(resume) PROVE BaseInv'
  <2>1. sess' \in Sessions /\ sess'.source = ckpt.source
    <3>1. ckpt \in Sessions
      BY <1>7 DEF LoadSession, SessionType
    <3>2. Restored(resume) \in Sessions /\ Restored(resume).source = ckpt.source
      BY <3>1, RestoredIsSession
    <3>3. /\ Validated(Restored(resume)) \in Sessions
          /\ Validated(Restored(resume)).source = ckpt.source
      BY <3>2 DEF Validated, Sessions, CheckIsFresh
    <3> QED BY <1>7, <3>2, <3>3 DEF LoadSession
  <2> QED BY <1>7, <2>1 DEF LoadSession, SessionType, PathsExist, CheckpointNamesSource,
    PassedIsSound
<1>8. CASE Synthesize
  <2>1. sess.source \in Paths /\ sess.source \in DOMAIN files
    BY <1>8 DEF Synthesize, SessionType, PathsExist
  <2>2. pc' \in Commands /\ pc'.op = "synth" /\ pc'.to \in {SynthPath, sess.source}
    BY <1>8, <2>1, PathTypes DEF Synthesize, Commands
  <2>3. CASE IsVerilog(sess.source)
    <3>1. WriteFile(SynthPath, Plain) /\ pc'.to = SynthPath
      BY <1>8, <2>3 DEF Synthesize
    <3> QED BY <1>8, <2>1, <2>2, <3>1, WriteKeeps, PlainIsContent, PathTypes
          DEF Synthesize, SessionType, PathsExist, CheckpointNamesSource,
    PassedIsSound
  <2>4. CASE ~IsVerilog(sess.source)
    BY <1>8, <2>1, <2>2, <2>4 DEF Synthesize, SessionType, PathsExist, CheckpointNamesSource,
    PassedIsSound
  <2> QED BY <2>3, <2>4
<1>9. CASE SynthesizeDone
  <2> DEFINE s == [sess EXCEPT !.source = pc.to, !.synthesized = TRUE, !.inserted = FALSE,
                            !.checked = FALSE]
  <2>1. pc.to \in DOMAIN files /\ pc.to \in Paths
    BY <1>9 DEF SynthesizeDone, PathsExist, SessionType, CheckpointNamesSource
  <2>2. s \in Sessions /\ s.source = pc.to /\ Save(s)
    BY <1>9, <2>1 DEF SynthesizeDone, SessionType, Sessions
  <2> HIDE DEF s
  <2> QED BY <1>9, <2>1, <2>2, SaveKeeps DEF SynthesizeDone, SessionType, PathsExist, CheckpointNamesSource,
    PassedIsSound
<1>10. CASE Wrap
  <2>1. sess.source \in Paths /\ sess.source \in DOMAIN files
    BY <1>10 DEF Wrap, SessionType, PathsExist
  <2>2. [Source EXCEPT !.wraps = @ + 1] \in Contents
    BY <1>10, <2>1, SessionBounds DEF Wrap, SessionType, Contents
  <2>3. WrappedPath(sess.source) \in Paths
    BY <2>1, PathTypes
  <2>4. pc' \in Commands /\ pc'.op = "wrap" /\ pc'.to = WrappedPath(sess.source)
    BY <1>10, <2>3 DEF Wrap, Commands
  <2> QED BY <1>10, <2>1, <2>2, <2>3, <2>4, WriteKeeps
        DEF Wrap, SessionType, PathsExist, CheckpointNamesSource,
    PassedIsSound
<1>11. CASE WrapDone
  <2> DEFINE s == [sess EXCEPT !.source = pc.to, !.inserted = FALSE, !.checked = FALSE, !.stale = FALSE]
  <2>1. pc.to \in DOMAIN files /\ pc.to \in Paths
    BY <1>11 DEF WrapDone, PathsExist, SessionType, CheckpointNamesSource
  <2>2. s \in Sessions /\ s.source = pc.to /\ Save(s)
    BY <1>11, <2>1 DEF WrapDone, SessionType, Sessions
  <2> HIDE DEF s
  <2> QED BY <1>11, <2>1, <2>2, SaveKeeps DEF WrapDone, SessionType, PathsExist, CheckpointNamesSource,
    PassedIsSound
<1>12. ASSUME NEW c \in Chains, AddScan(c) PROVE BaseInv'
  <2>1. [net |-> Source, chains |-> c] \in Generics
    BY <1>12 DEF AddScan, SessionType, PathsExist, Generics
  <2>2. pc' \in Commands /\ pc'.op = "stitched"
    BY <1>12 DEF AddScan, Commands
  <2> QED BY <1>12, <2>1, <2>2 DEF AddScan, SessionType, PathsExist, CheckpointNamesSource,
    PassedIsSound
<1>13. CASE AddScanManifest
  <2>1. scan.generic \in Generics
    BY <1>13 DEF AddScanManifest, PathsExist
  <2>2. [hash |-> scan.generic, check |-> "none", checked |-> None] \in Manifests
    BY <2>1 DEF Manifests, Checks
  <2>3. pc' \in Commands /\ pc'.op = "inserted"
    BY <1>13 DEF AddScanManifest, Commands
  <2> QED BY <1>13, <2>2, <2>3 DEF AddScanManifest, SessionType, PathsExist, CheckpointNamesSource,
    PassedIsSound
<1>14. CASE AddScanDone
  <2> DEFINE s == [sess EXCEPT !.inserted = TRUE, !.checked = FALSE, !.stale = HasCampaign]
  <2>1. Loaded /\ sess.source \in DOMAIN files
    BY <1>14 DEF AddScanDone, PathsExist, SessionType, CheckpointNamesSource
  <2>2. s \in Sessions /\ s.source = sess.source /\ Save(s)
    BY <1>14, <2>1 DEF AddScanDone, SessionType, Sessions, HasCampaign
  <2> HIDE DEF s
  <2> QED BY <1>14, <2>1, <2>2, SaveKeeps DEF AddScanDone, SessionType, PathsExist, CheckpointNamesSource,
    PassedIsSound
<1>15. ASSUME NEW structural \in BOOLEAN, CheckScan(structural) PROVE BaseInv'
  <2>1. PICK v \in {"PASS", "FAIL"} :
          /\ scan' = [scan EXCEPT !.manifest.check = v, !.manifest.checked = scan.generic]
          /\ v = "PASS" => scan.generic = scan.manifest.hash /\ scan.generic.chains \notin Broken
    BY <1>15 DEF CheckScan, CheckFails
  <2> DEFINE m == [scan.manifest EXCEPT !.check = v, !.checked = scan.generic]
  <2>2. scan.manifest \in Manifests /\ scan.generic \in Generics \cup {None}
    BY <1>15 DEF CheckScan, SessionType
  <2>4. m \in Manifests /\ m.check = v /\ m.checked = scan.generic
    BY <2>2 DEF Manifests, Checks
  <2>5. scan' = [generic |-> scan.generic, manifest |-> m]
    BY <2>1 DEF SessionType
  <2>6. v = "PASS" => scan.generic \in Generics
    BY <2>1, <2>2 DEF Manifests
  <2>3. pc' \in Commands /\ pc'.op \in {"checked", "idle"}
    BY <1>15 DEF CheckScan, Commands
  <2> HIDE DEF m
  <2>7. scan'.manifest = m /\ scan'.generic = scan.generic
    BY <2>5
  <2>8. PassedIsSound'
    BY <2>1, <2>4, <2>6, <2>7 DEF PassedIsSound
  <2>9. scan' \in [generic : Generics \cup {None}, manifest : Manifests \cup {None, Torn}]
    BY <2>2, <2>4, <2>5
  <2> QED BY <1>15, <2>3, <2>8, <2>9 DEF CheckScan, SessionType, PathsExist, CheckpointNamesSource
<1>16. CASE CheckScanDone
  <2> DEFINE s == [sess EXCEPT !.checked = TRUE]
  <2>1. Loaded /\ sess.source \in DOMAIN files
    BY <1>16 DEF CheckScanDone, PathsExist, SessionType, CheckpointNamesSource
  <2>2. s \in Sessions /\ s.source = sess.source /\ Save(s)
    BY <1>16, <2>1 DEF CheckScanDone, SessionType, Sessions
  <2> HIDE DEF s
  <2> QED BY <1>16, <2>1, <2>2, SaveKeeps DEF CheckScanDone, SessionType, PathsExist, CheckpointNamesSource,
    PassedIsSound
<1>17. CASE RefuseStaleCheck
  <2>1. sess' \in Sessions /\ sess'.source = sess.source
    BY <1>17 DEF RefuseStaleCheck, SessionType, Sessions
  <2> QED BY <1>17, <2>1 DEF RefuseStaleCheck, SessionType, PathsExist, CheckpointNamesSource,
    PassedIsSound
<1>18. ASSUME NEW isScan \in BOOLEAN, StartRun(isScan) PROVE BaseInv'
  <2> DEFINE on == IF isScan THEN scan.generic ELSE Source
             fp == Fingerprint(sess, on)
             type == TypeOf(isScan)
  <2>1. on \in Contents \cup Generics
    BY <1>18 DEF StartRun, CheckIsFresh, SessionType, PathsExist, PassedIsSound
  <2>2. fp \in Fingerprints
    BY <1>18, <2>1 DEF StartRun, SessionType, Sessions, Fingerprint, Fingerprints
  <2>3. type \in Types
    BY DEF TypeOf, Types
  <2>4. PICK next \in {"preflight", "mismatch", "grading"} :
          /\ pc' = [op |-> next, type |-> type, fp |-> fp]
          /\ db' \in {db, [db EXCEPT ![type] = fp]}
    BY <1>18 DEF StartRun, EnsureCampaign
  <2> HIDE DEF fp, type
  <2>5. pc' \in Commands
    <3>1. pc' \in [op : {"preflight", "mismatch", "grading"}, type : Types, fp : Fingerprints]
      BY <2>2, <2>3, <2>4
    <3> QED BY <3>1 DEF Commands
  <2>6. db' \in [Types -> Fingerprints \cup {None}]
    BY <2>2, <2>3, <2>4 DEF SessionType
  <2> QED BY <1>18, <2>4, <2>5, <2>6 DEF StartRun, SessionType, PathsExist, CheckpointNamesSource,
    PassedIsSound
<1>19. CASE EndRun
  <2>1. pc.type \in Types /\ pc.fp \in Fingerprints
    BY <1>19 DEF EndRun, SessionType, Commands, Idle
  <2> QED BY <1>19, <2>1 DEF EndRun, SessionType, PathsExist, CheckpointNamesSource,
    PassedIsSound
<1>20. CASE Clean
  <2>1. pc' \in Commands /\ pc'.op = "cleaned"
    BY <1>20 DEF Clean, Commands
  <2> QED BY <1>20, <2>1 DEF Clean, SessionType, PathsExist, CheckpointNamesSource,
    PassedIsSound
<1>21. CASE CleanDone
  <2> DEFINE s == [sess EXCEPT !.stale = FALSE]
  <2>1. Loaded /\ sess.source \in DOMAIN files
    BY <1>21 DEF CleanDone, PathsExist, SessionType, CheckpointNamesSource
  <2>2. s \in Sessions /\ s.source = sess.source /\ Save(s)
    BY <1>21, <2>1 DEF CleanDone, SessionType, Sessions
  <2> HIDE DEF s
  <2> QED BY <1>21, <2>1, <2>2, SaveKeeps DEF CleanDone, SessionType, PathsExist, CheckpointNamesSource,
    PassedIsSound
<1>22. CASE AddTp
  <2> DEFINE to == PointPath(Len(WithBaseline))
  <2>1. sess.source \in Paths /\ sess.source \in DOMAIN files
    BY <1>22 DEF AddTp, SessionType, PathsExist
  <2>2. [Source EXCEPT !.points = @ + 1] \in Contents
    BY <1>22, <2>1, SessionBounds DEF AddTp, SessionType, Contents
  <2>3. /\ WithBaseline \in Seq(Paths)
        /\ \A k \in 1 .. Len(WithBaseline) : WithBaseline[k] \in DOMAIN files
    BY <2>1 DEF WithBaseline, SessionType, PathsExist
  <2>4. to \in Paths
    BY <1>22, <2>3, PathTypes DEF AddTp
  <2>5. pc' = [op |-> "points", to |-> to] /\ WriteFile(to, [Source EXCEPT !.points = @ + 1])
    BY <1>22 DEF AddTp
  <2> HIDE DEF to
  <2>6. pc' \in Commands
    BY <2>4, <2>5 DEF Commands
  <2> QED BY <1>22, <2>1, <2>2, <2>3, <2>4, <2>5, <2>6, WriteKeeps
        DEF AddTp, SessionType, PathsExist, CheckpointNamesSource,
    PassedIsSound
<1>23. CASE AddTpRun
  <2> DEFINE fp == Fingerprint([sess EXCEPT !.source = pc.to], files[pc.to])
  <2>1. pc.to \in DOMAIN files /\ pc.to \in Paths /\ Loaded
    BY <1>23 DEF AddTpRun, SessionType, PathsExist, CheckpointNamesSource,
    PassedIsSound
  <2>2. fp \in Fingerprints
    BY <2>1 DEF SessionType, Sessions, Fingerprint, Fingerprints
  <2>3. \/ /\ pc' = [op |-> "compare", to |-> pc.to]
           /\ db' = [db EXCEPT !["comb"] = fp] /\ runs' = runs \cup {[type |-> "comb", fp |-> fp]}
        \/ pc' = [op |-> "no campaign"] /\ UNCHANGED <<db, runs>>
    BY <1>23 DEF AddTpRun, EnsureCampaign
  <2> HIDE DEF fp
  <2>4. pc' \in Commands
    <3>1. CASE pc' = [op |-> "compare", to |-> pc.to]
      BY <2>1, <3>1 DEF Commands
    <3>2. CASE pc' = [op |-> "no campaign"]
      BY <3>2 DEF Commands
    <3> QED BY <2>3, <3>1, <3>2
  <2>5. db' \in [Types -> Fingerprints \cup {None}]
    BY <2>2, <2>3 DEF SessionType
  <2>6. runs' \subseteq [type : Types, fp : Fingerprints]
    <3>1. [type |-> "comb", fp |-> fp] \in [type : Types, fp : Fingerprints]
      BY <2>2 DEF Types
    <3> QED BY <2>3, <3>1 DEF SessionType
  <2>7. (pc'.op = "compare" /\ pc'.to = pc.to) \/ pc'.op = "no campaign"
    <3>1. CASE pc' = [op |-> "compare", to |-> pc.to]
      BY <3>1
    <3>2. CASE pc' = [op |-> "no campaign"]
      BY <3>2
    <3> QED BY <2>3, <3>1, <3>2
  <2> QED BY <1>23, <2>1, <2>4, <2>5, <2>6, <2>7
        DEF AddTpRun, SessionType, PathsExist, CheckpointNamesSource, PassedIsSound
<1>24. CASE AddTpRefused
  BY <1>24 DEF AddTpRefused, SessionType, PathsExist, CheckpointNamesSource,
    PassedIsSound
<1>25. CASE AddTpDone
  <2>1. Loaded /\ sess.source \in DOMAIN files /\ pc.to \in DOMAIN files /\ pc.to \in Paths
    BY <1>25 DEF AddTpDone, SessionType, PathsExist, CheckpointNamesSource,
    PassedIsSound
  <2>2. tps' \in Seq(Paths) /\ \A k \in 1 .. Len(tps') : tps'[k] \in DOMAIN files
    BY <1>25, <2>1 DEF AddTpDone, SessionType, PathsExist
  <2> QED BY <1>25, <2>1, <2>2, SaveKeeps DEF AddTpDone, SessionType, PathsExist, CheckpointNamesSource,
    PassedIsSound
<1>26. CASE RejectTp
  <2> DEFINE s == [sess EXCEPT !.source = tps[Len(tps) - 1]]
  <2>1. /\ tps[Len(tps) - 1] \in DOMAIN files /\ tps[Len(tps) - 1] \in Paths
        /\ tps' \in Seq(Paths) /\ \A k \in 1 .. Len(tps') : tps'[k] \in DOMAIN files
    BY <1>26 DEF RejectTp, SessionType, PathsExist
  <2>2. s \in Sessions /\ s.source = tps[Len(tps) - 1] /\ Save(s)
    BY <1>26, <2>1 DEF RejectTp, SessionType, Sessions
  <2> HIDE DEF s
  <2> QED BY <1>26, <2>1, <2>2, SaveKeeps DEF RejectTp, SessionType, PathsExist, CheckpointNamesSource,
    PassedIsSound
<1>27. CASE Raise
  BY <1>27 DEF Raise, SessionType, PathsExist, CheckpointNamesSource,
    PassedIsSound
<1>28. CASE Crash
  BY <1>28 DEF Crash, SessionType, PathsExist, CheckpointNamesSource,
    PassedIsSound
<1>29. CASE CrashInManifest
  BY <1>29 DEF CrashInManifest, SessionType, PathsExist, CheckpointNamesSource,
    PassedIsSound
<1>30. CASE UNCHANGED vars
  BY <1>30 DEF vars, SessionType, PathsExist, CheckpointNamesSource,
    PassedIsSound
<1> QED
  BY <1>1, <1>2, <1>3, <1>4, <1>5, <1>6, <1>7, <1>8, <1>9, <1>10, <1>11, <1>12, <1>13, <1>14, <1>15,
    <1>16, <1>17, <1>18, <1>19, <1>20, <1>21, <1>22, <1>23, <1>24, <1>25, <1>26, <1>27, <1>28, <1>29,
    <1>30 DEF Next

-----------------------------------------------------------------------------
(* Campaigns *)

LEMMA RunsInductive == BaseInv /\ RunsHaveCampaigns /\ [Next]_vars => RunsHaveCampaigns'
<1> SUFFICES ASSUME BaseInv, RunsHaveCampaigns, [Next]_vars PROVE RunsHaveCampaigns'
  OBVIOUS
<1> USE NoneIsNothing, IdleIsCommand DEF BaseInv
<1>2. ASSUME NEW isScan \in BOOLEAN, StartRun(isScan) PROVE RunsHaveCampaigns'
  <2> DEFINE fp == Fingerprint(sess, IF isScan THEN scan.generic ELSE Source)
             type == TypeOf(isScan)
  <2>1. PICK next \in {"preflight", "mismatch", "grading"} :
          /\ pc' = [op |-> next, type |-> type, fp |-> fp] /\ runs' = runs
          /\ IF next = "grading" THEN EnsureCampaign(type, fp) ELSE UNCHANGED db
    BY <1>2 DEF StartRun
  <2>2. type \in Types
    BY DEF TypeOf, Types
  <2> HIDE DEF fp, type
  <2>3. CASE next = "grading"
    <3>1. db' = [db EXCEPT ![type] = fp]
      BY <2>1, <2>3 DEF EnsureCampaign
    <3>2. db'[type] = fp
      BY <2>2, <3>1 DEF SessionType
    <3>3. \A r \in runs : db'[r.type] = r.fp
      BY <2>1, <2>2, <2>3, <3>1 DEF EnsureCampaign, Matches, RunsHaveCampaigns, SessionType
    <3> QED BY <2>1, <3>2, <3>3 DEF RunsHaveCampaigns
  <2>4. CASE next # "grading"
    BY <2>1, <2>4 DEF RunsHaveCampaigns
  <2> QED BY <2>3, <2>4
<1>3. CASE EndRun
  BY <1>3 DEF EndRun, RunsHaveCampaigns
<1>4. CASE Clean
  BY <1>4 DEF Clean, RunsHaveCampaigns
<1>5. CASE AddTpRun
  <2> DEFINE fp == Fingerprint([sess EXCEPT !.source = pc.to], files[pc.to])
  <2>1. CASE /\ Matches("comb", fp) /\ EnsureCampaign("comb", fp)
             /\ runs' = runs \cup {[type |-> "comb", fp |-> fp]}
             /\ pc' = [op |-> "compare", to |-> pc.to]
    <3> HIDE DEF fp
    <3>1. db' = [db EXCEPT !["comb"] = fp]
      BY <2>1 DEF EnsureCampaign
    <3>2. db'["comb"] = fp
      BY <3>1 DEF SessionType, Types
    <3>3. \A r \in runs : db'[r.type] = r.fp
      BY <2>1, <3>1 DEF Matches, RunsHaveCampaigns, SessionType
    <3> QED BY <2>1, <3>2, <3>3 DEF RunsHaveCampaigns
  <2>2. CASE pc' = [op |-> "no campaign"] /\ UNCHANGED <<db, runs>>
    BY <2>2 DEF RunsHaveCampaigns
  <2> QED BY <1>5, <2>1, <2>2 DEF AddTpRun
<1>6. CASE UNCHANGED <<db, runs>> /\ (pc'.op # "grading" \/ pc' = pc)
  BY <1>6 DEF RunsHaveCampaigns
<1>7. ASSUME NEW structural \in BOOLEAN, CheckScan(structural)
      PROVE  UNCHANGED <<db, runs>> /\ pc'.op # "grading"
  BY <1>7 DEF CheckScan
<1>8. ASSUME ~(\E isScan \in BOOLEAN : StartRun(isScan)), ~EndRun, ~Clean, ~AddTpRun,
             ~(\E structural \in BOOLEAN : CheckScan(structural))
      PROVE  UNCHANGED <<db, runs>> /\ (pc'.op # "grading" \/ pc' = pc)
  <2> USE <1>8 DEF disk
  <2>1. CASE UNCHANGED vars
    BY <2>1 DEF vars
  <2>2. CASE (\E l \in Paths : ReadNetlist(l)) \/ (\E l \in Libs : UseLibCells(l))
    BY <2>2 DEF ReadNetlist, UseLibCells
  <2>3. CASE (\E o \in Options : SetOption(o)) \/ (\E m \in Modes : SetTestmode(m))
    BY <2>3 DEF SetOption, SetTestmode
  <2>4. CASE SaveSession \/ Reset \/ (\E resume \in BOOLEAN : LoadSession(resume))
    BY <2>4 DEF SaveSession, Reset, LoadSession
  <2>5. CASE Synthesize \/ SynthesizeDone \/ Wrap \/ WrapDone
    BY <2>5 DEF Synthesize, SynthesizeDone, Wrap, WrapDone
  <2>6. CASE (\E c \in Chains : AddScan(c)) \/ AddScanManifest \/ AddScanDone
    BY <2>6 DEF AddScan, AddScanManifest, AddScanDone
  <2>7. CASE CheckScanDone \/ RefuseStaleCheck \/ CleanDone
    BY <2>7 DEF CheckScanDone, RefuseStaleCheck, CleanDone
  <2>8. CASE AddTpRefused \/ AddTpDone \/ RejectTp
    BY <2>8 DEF AddTpRefused, AddTpDone, RejectTp
  <2>10. CASE AddTp
    BY <2>10 DEF AddTp
  <2>9. CASE Raise \/ Crash \/ CrashInManifest
    BY <2>9 DEF Raise, Crash, CrashInManifest
  <2> QED BY <2>1, <2>2, <2>3, <2>4, <2>5, <2>6, <2>7, <2>8, <2>9, <2>10 DEF Next
<1> QED BY <1>2, <1>3, <1>4, <1>5, <1>6, <1>7, <1>8

-----------------------------------------------------------------------------
(* What the flags say of the disk *)

\* A saved session whose flags hold leaves flags that hold in memory and on disk.
LEMMA SaveKeepsFlags ==
  ASSUME BaseInv, NEW s \in Sessions, Save(s), UNCHANGED <<files, scan, db>>, smooth' = smooth,
         smooth => FlagsHold(s), smooth /\ s.source = None => (ckpt # None => FlagsHold(ckpt)),
         pc'.op = "idle"
  PROVE  FlagsInv'
BY DEF FlagsInv, FlagsHold, Save, Rewriting

\* A step that leaves the files, the scanned netlist and the campaigns alone keeps the flags of
\* every session with the same source and at most the same claims.
LEMMA SameClaims ==
  ASSUME NEW s \in Sessions, NEW t \in Sessions, FlagsHold(s),
         t.source = s.source, t.inserted => s.inserted, t.stale = s.stale
  PROVE  FlagsHold(t)
BY DEF FlagsHold

LEMMA FlagsInductive == BaseInv /\ BaseInv' /\ FlagsInv /\ [Next]_vars => FlagsInv'
<1> SUFFICES ASSUME BaseInv, BaseInv', FlagsInv, [Next]_vars PROVE FlagsInv'
  OBVIOUS
<1> USE NoneIsNothing, IdleIsCommand DEF BaseInv, Loaded, Configured, disk, Rewriting
<1>s. sess \in Sessions /\ sess' \in Sessions /\ ckpt \in Sessions \cup {None}
  BY DEF SessionType
<1>i. pc = Idle => (smooth => FlagsHold(sess) /\ (ckpt # None => FlagsHold(ckpt)))
  BY DEF FlagsInv
\* Commands that save the session with its source and scan flags as they were.
<1>1. ASSUME pc = Idle \/ pc.op \in {"checked", "compare"}, Save(sess'),
             UNCHANGED <<files, scan, db, smooth>>, pc' = Idle,
             sess'.source = sess.source, sess'.inserted = sess.inserted, sess'.stale = sess.stale
      PROVE  FlagsInv'
  <2>1. smooth => FlagsHold(sess) /\ (ckpt # None => FlagsHold(ckpt))
    BY <1>1 DEF FlagsInv
  <2>2. smooth => FlagsHold(sess')
    BY <1>s, <1>1, <2>1, SameClaims
  <2> QED BY <1>s, <1>1, <2>1, <2>2, SaveKeepsFlags
<1>2. ASSUME NEW p \in Paths, ReadNetlist(p) PROVE FlagsInv'
  <2>1. /\ Save(sess') /\ ~sess'.inserted /\ sess'.source = p /\ p # None
        /\ UNCHANGED <<files, scan, db, smooth>> /\ pc'.op = "idle"
    BY <1>2, <1>s DEF ReadNetlist, Save, Sessions, CheckpointNamesSource
  <2> QED BY <1>s, <2>1, SaveKeepsFlags DEF FlagsHold
<1>3. ASSUME NEW l \in Libs, UseLibCells(l) PROVE FlagsInv'
  BY <1>s, <1>1, <1>3 DEF UseLibCells, Save, Sessions
<1>4. ASSUME NEW o \in Options, SetOption(o) PROVE FlagsInv'
  BY <1>s, <1>1, <1>4 DEF SetOption, Save, Sessions
<1>5. ASSUME NEW m \in Modes, SetTestmode(m) PROVE FlagsInv'
  BY <1>s, <1>1, <1>5 DEF SetTestmode, Save, Sessions
<1>6. CASE SaveSession
  BY <1>s, <1>1, <1>6 DEF SaveSession, Save
<1>7. CASE CheckScanDone
  BY <1>s, <1>1, <1>7 DEF CheckScanDone, Save, Sessions
<1>8. CASE AddTpDone
  BY <1>s, <1>1, <1>8 DEF AddTpDone, Save
<1>9. CASE Reset
  BY <1>9, <1>i, BlankIsSession DEF Reset, FlagsInv, FlagsHold
<1>10. CASE RefuseStaleCheck
  <2>1. sess'.source = sess.source /\ sess'.inserted = sess.inserted /\ sess'.stale = sess.stale
    BY <1>s, <1>10 DEF RefuseStaleCheck, Sessions
  <2> QED BY <1>i, <1>10, <2>1 DEF RefuseStaleCheck, FlagsInv, FlagsHold
<1>11. ASSUME NEW resume \in BOOLEAN, LoadSession(resume) PROVE FlagsInv'
  <2>1. sess'.source = ckpt.source /\ (sess'.inserted => ckpt.inserted /\ sess'.stale = ckpt.stale)
    <3>1. CASE resume
      BY <1>s, <1>11, <3>1 DEF LoadSession, Restored, Validated, Sessions
    <3>2. CASE ~resume
      BY <1>s, <1>11, <3>2 DEF LoadSession, Restored, Sessions
    <3> QED BY <3>1, <3>2
  <2> QED BY <1>i, <1>11, <2>1 DEF LoadSession, FlagsInv, FlagsHold
<1>12. CASE Synthesize
  <2>1. pc'.op = "synth"
    BY <1>12 DEF Synthesize
  <2> QED BY <2>1 DEF FlagsInv
<1>13. CASE SynthesizeDone
  <2>1. pc.to \in Paths
    BY <1>13 DEF SynthesizeDone, SessionType, PathsExist
  <2>2. /\ Save(sess') /\ ~sess'.inserted /\ sess'.source # None
        /\ UNCHANGED <<files, scan, db, smooth>> /\ pc'.op = "idle"
    BY <1>13, <1>s, <2>1 DEF SynthesizeDone, Save, Sessions
  <2> QED BY <1>s, <2>2, SaveKeepsFlags DEF FlagsHold
<1>14. CASE Wrap
  <2>1. pc'.op = "wrap"
    BY <1>14 DEF Wrap
  <2> QED BY <2>1 DEF FlagsInv
<1>15. CASE WrapDone
  <2>1. pc.to \in Paths
    BY <1>15 DEF WrapDone, SessionType, PathsExist
  <2>2. /\ Save(sess') /\ ~sess'.inserted /\ sess'.source # None
        /\ UNCHANGED <<files, scan, db, smooth>> /\ pc'.op = "idle"
    BY <1>15, <1>s, <2>1 DEF WrapDone, Save, Sessions
  <2> QED BY <1>s, <2>2, SaveKeepsFlags DEF FlagsHold
<1>16. ASSUME NEW c \in Chains, AddScan(c) PROVE FlagsInv'
  <2>1. pc'.op = "stitched" /\ scan'.generic.net = Source /\ UNCHANGED <<sess, files>>
    BY <1>16 DEF AddScan, SessionType
  <2> QED BY <2>1 DEF FlagsInv, Source
<1>17. CASE AddScanManifest
  <2>1. /\ pc.op = "stitched" /\ pc'.op = "inserted" /\ UNCHANGED <<sess, files>>
        /\ scan'.generic = scan.generic
        /\ scan'.manifest = [hash |-> scan.generic, check |-> "none", checked |-> None]
    BY <1>17 DEF AddScanManifest, SessionType
  <2>2. scan.generic \in Generics
    BY <2>1 DEF PathsExist
  <2>3. scan'.manifest \in Manifests /\ scan'.manifest.hash = scan.generic
    BY <2>1, <2>2 DEF Manifests, Checks
  <2> QED BY <2>1, <2>2, <2>3 DEF FlagsInv, Source
<1>18. CASE AddScanDone
  <2>1. sess.source # None
    BY <1>18 DEF AddScanDone, CheckpointNamesSource
  <2>2. /\ Save(sess') /\ sess'.source = sess.source /\ sess'.stale = HasCampaign
        /\ UNCHANGED <<files, scan, db, smooth>> /\ pc'.op = "idle"
    BY <1>18, <1>s DEF AddScanDone, Save, Sessions
  <2>3. FlagsHold(sess')
    BY <1>18, <2>2 DEF AddScanDone, FlagsInv, FlagsHold, HasCampaign, Source
  <2> QED BY <1>s, <2>1, <2>2, <2>3, SaveKeepsFlags
<1>19. ASSUME NEW structural \in BOOLEAN, CheckScan(structural) PROVE FlagsInv'
  <2>1. PICK v \in {"PASS", "FAIL"} :
          scan' = [scan EXCEPT !.manifest.check = v, !.manifest.checked = scan.generic]
    BY <1>19 DEF CheckScan
  <2>2. scan.manifest \in Manifests
    BY <1>19 DEF CheckScan
  <2>3. scan'.generic = scan.generic /\ scan'.manifest.hash = scan.manifest.hash
    BY <2>1, <2>2 DEF SessionType, Manifests
  <2>4. scan'.manifest \in Manifests
    BY <2>1, <2>2 DEF SessionType, Manifests, Checks
  <2>5. pc'.op \in {"checked", "idle"}
    BY <1>19 DEF CheckScan
  <2> QED BY <1>i, <1>19, <2>3, <2>4, <2>5 DEF CheckScan, FlagsInv, FlagsHold
<1>20. ASSUME NEW isScan \in BOOLEAN, StartRun(isScan) PROVE FlagsInv'
  <2> DEFINE fp == Fingerprint(sess, IF isScan THEN scan.generic ELSE Source)
             type == TypeOf(isScan)
  <2>1. PICK next \in {"preflight", "mismatch", "grading"} :
          /\ pc' = [op |-> next, type |-> type, fp |-> fp]
          /\ IF next = "grading" THEN EnsureCampaign(type, fp) ELSE UNCHANGED db
          /\ isScan /\ next = "grading" => PreflightPasses
    BY <1>20 DEF StartRun
  <2>2. /\ db' = [db EXCEPT ![type] = fp] \/ db' = db
        /\ pc'.op \in {"preflight", "mismatch", "grading"}
    BY <2>1 DEF EnsureCampaign
  <2>3. db'["scan"] = db["scan"] \/ db'["scan"].on = scan.manifest.hash
    <3>1. CASE type = "scan" /\ next = "grading"
      <4>1. isScan
        BY <3>1 DEF TypeOf
      <4>2. fp.on = scan.manifest.hash
        BY <2>1, <3>1, <4>1 DEF PreflightPasses, Fingerprint
      <4> HIDE DEF fp
      <4> QED BY <2>1, <3>1, <4>2 DEF EnsureCampaign, SessionType, Types
    <3>2. CASE type # "scan"
      <4> HIDE DEF fp, type
      <4> QED BY <2>2, <3>2 DEF SessionType, Types
    <3>3. CASE next # "grading"
      BY <2>1, <3>3
    <3> QED BY <3>1, <3>2, <3>3
  <2> HIDE DEF fp, type
  <2> QED BY <1>i, <1>20, <2>2, <2>3 DEF StartRun, FlagsInv, FlagsHold
<1>21. CASE EndRun
  BY <1>21 DEF EndRun, FlagsInv, FlagsHold
<1>22. CASE Clean
  <2>1. pc'.op = "cleaned" /\ db'["scan"] = None
    BY <1>22 DEF Clean, Types
  <2> QED BY <1>i, <1>22, <2>1 DEF Clean, FlagsInv, FlagsHold
<1>23. CASE CleanDone
  <2>1. sess.source # None
    BY <1>23 DEF CleanDone, CheckpointNamesSource
  <2>2. /\ Save(sess') /\ sess'.source = sess.source /\ sess'.inserted = sess.inserted
        /\ UNCHANGED <<files, scan, db, smooth>> /\ pc'.op = "idle"
    BY <1>23, <1>s DEF CleanDone, Save, Sessions
  <2>3. smooth => FlagsHold(sess')
    BY <1>23, <2>2 DEF CleanDone, FlagsInv, FlagsHold
  <2> QED BY <1>s, <2>1, <2>2, <2>3, SaveKeepsFlags
<1>24. CASE AddTp
  <2> DEFINE to == PointPath(Len(WithBaseline))
             c == [Source EXCEPT !.points = @ + 1]
  <2>1. /\ WriteFile(to, c) /\ pc' = [op |-> "points", to |-> to]
        /\ smooth' = (smooth /\ sess.source # to)
    BY <1>24 DEF AddTp
  <2>2. /\ sess.source \in DOMAIN files
        /\ ckpt # None /\ ckpt.source = sess.source
    BY <1>24 DEF AddTp, PathsExist, CheckpointNamesSource
  <2> HIDE DEF to, c
  <2>3. smooth' => smooth /\ files'[sess.source] = files[sess.source]
    BY <2>1, <2>2 DEF WriteFile
  <2>4. pc'.op = "points"
    BY <2>1
  <2> QED BY <1>i, <1>24, <2>2, <2>3, <2>4 DEF AddTp, FlagsInv, FlagsHold
<1>25. CASE AddTpRun
  <2> DEFINE fp == Fingerprint([sess EXCEPT !.source = pc.to], files[pc.to])
  <2>1. db'["scan"] = db["scan"]
    <3>1. db' = [db EXCEPT !["comb"] = fp] \/ db' = db
      BY <1>25 DEF AddTpRun, EnsureCampaign
    <3> HIDE DEF fp
    <3> QED BY <3>1 DEF SessionType, Types
  <2>2. pc'.op \in {"compare", "no campaign"}
    <3>1. CASE pc' = [op |-> "compare", to |-> pc.to]
      BY <3>1
    <3>2. CASE pc' = [op |-> "no campaign"]
      BY <3>2
    <3> QED BY <1>25, <3>1, <3>2 DEF AddTpRun
  <2> HIDE DEF fp
  <2> QED BY <1>25, <2>1, <2>2 DEF AddTpRun, FlagsInv, FlagsHold
<1>26. CASE AddTpRefused
  BY <1>26 DEF AddTpRefused, FlagsInv, FlagsHold
<1>27. CASE RejectTp
  BY <1>27 DEF RejectTp, FlagsInv
<1>28. CASE Raise \/ Crash \/ CrashInManifest
  BY <1>28 DEF Raise, Crash, CrashInManifest, FlagsInv
<1>29. CASE UNCHANGED vars
  BY <1>29 DEF vars, FlagsInv, FlagsHold, Source
<1> QED
  BY <1>2, <1>3, <1>4, <1>5, <1>6, <1>7, <1>8, <1>9, <1>10, <1>11, <1>12, <1>13, <1>14, <1>15, <1>16,
    <1>17, <1>18, <1>19, <1>20, <1>21, <1>22, <1>23, <1>24, <1>25, <1>26, <1>27, <1>28, <1>29 DEF Next

-----------------------------------------------------------------------------
(* What a run grades *)

\* A command that is not a run of run_atpg reaches neither of the two control states the
\* properties speak of, and none touches the disk while one is in progress.
LEMMA OnlyStartRunStarts ==
  ASSUME BaseInv, [Next]_vars, ~(\E isScan \in BOOLEAN : StartRun(isScan))
  PROVE  pc'.op \notin {"grading", "mismatch"} \/ UNCHANGED vars
<1> USE IdleIsCommand DEF BaseInv
<1>1. CASE (\E p \in Paths : ReadNetlist(p)) \/ (\E l \in Libs : UseLibCells(l))
  BY <1>1 DEF ReadNetlist, UseLibCells
<1>2. CASE (\E o \in Options : SetOption(o)) \/ (\E m \in Modes : SetTestmode(m))
  BY <1>2 DEF SetOption, SetTestmode
<1>3. CASE SaveSession \/ Reset \/ (\E resume \in BOOLEAN : LoadSession(resume))
  BY <1>3 DEF SaveSession, Reset, LoadSession
<1>4. CASE Synthesize \/ SynthesizeDone \/ Wrap \/ WrapDone
  BY <1>4 DEF Synthesize, SynthesizeDone, Wrap, WrapDone
<1>5. CASE (\E c \in Chains : AddScan(c)) \/ AddScanManifest \/ AddScanDone
  BY <1>5 DEF AddScan, AddScanManifest, AddScanDone
<1>6. CASE (\E structural \in BOOLEAN : CheckScan(structural))
  BY <1>6 DEF CheckScan
<1>7. CASE CheckScanDone \/ EndRun \/ CleanDone
  BY <1>7 DEF CheckScanDone, EndRun, CleanDone
<1>12. CASE RefuseStaleCheck
  BY <1>12 DEF RefuseStaleCheck
<1>13. CASE Clean
  BY <1>13 DEF Clean
<1>8. CASE AddTp
  BY <1>8 DEF AddTp
<1>9. CASE AddTpRun
  <2>1. CASE pc' = [op |-> "compare", to |-> pc.to]
    BY <2>1
  <2>2. CASE pc' = [op |-> "no campaign"]
    BY <2>2
  <2> QED BY <1>9, <2>1, <2>2 DEF AddTpRun
<1>10. CASE AddTpRefused \/ AddTpDone \/ RejectTp
  BY <1>10 DEF AddTpRefused, AddTpDone, RejectTp
<1>11. CASE Raise \/ Crash \/ CrashInManifest
  BY <1>11 DEF Raise, Crash, CrashInManifest
<1> QED BY <1>1, <1>2, <1>3, <1>4, <1>5, <1>6, <1>7, <1>8, <1>9, <1>10, <1>11, <1>12,
  <1>13 DEF Next

LEMMA GradingInductive ==
  ASSUME BaseInv, FlagsInv, GradesCurrentNetlist, StaleCampaignIsKnown, [Next]_vars
  PROVE  GradesCurrentNetlist' /\ StaleCampaignIsKnown'
<1>1. ASSUME NEW isScan \in BOOLEAN, StartRun(isScan)
      PROVE  GradesCurrentNetlist' /\ StaleCampaignIsKnown'
  <2> DEFINE fp == Fingerprint(sess, IF isScan THEN scan.generic ELSE Source)
             type == TypeOf(isScan)
  <2>1. PICK next \in {"preflight", "mismatch", "grading"} :
          /\ pc' = [op |-> next, type |-> type, fp |-> fp]
          /\ isScan /\ next # "preflight" => PreflightPasses
          /\ next = "mismatch" => ~Matches(type, fp) /\ db' = db
          /\ UNCHANGED <<sess, files, scan, smooth>>
    BY <1>1 DEF StartRun
  <2>2. type # "comb" => isScan
    BY DEF TypeOf
  <2>3. isScan => fp.on = scan.generic
    BY DEF Fingerprint
  <2>4. isScan /\ next # "preflight" =>
          scan.generic \in Generics /\ scan.generic.chains \notin Broken
    BY <2>1 DEF PreflightPasses, BaseInv, PassedIsSound
  <2>5. isScan => sess.inserted /\ ~sess.stale /\ pc = Idle
    BY <1>1 DEF StartRun, Admitted
  <2>6. isScan /\ smooth => FlagsHold(sess)
    BY <2>5, IdleIsCommand DEF FlagsInv, Rewriting
  <2> HIDE DEF fp, type
  <2>7. pc'.op = next /\ pc'.type = type /\ pc'.fp = fp
    BY <2>1
  <2>8. GradesCurrentNetlist'
    BY <2>1, <2>2, <2>3, <2>4, <2>5, <2>6, <2>7
      DEF GradesCurrentNetlist, GradingScan, FlagsHold, Source
  <2>9. StaleCampaignIsKnown'
    <3>1. SUFFICES ASSUME smooth, next = "mismatch", type = "scan" PROVE db["scan"].on = fp.on
      BY <2>1, <2>7 DEF StaleCampaignIsKnown
    <3>2. db["scan"] # None
      BY <2>1, <3>1 DEF Matches
    <3> QED BY <2>2, <2>3, <2>5, <2>6, <3>1, <3>2 DEF FlagsHold
  <2> QED BY <2>8, <2>9
<1>2. CASE pc'.op \notin {"grading", "mismatch"}
  BY <1>2 DEF GradesCurrentNetlist, GradingScan, StaleCampaignIsKnown
<1>3. CASE UNCHANGED vars
  BY <1>3 DEF vars, GradesCurrentNetlist, GradingScan, StaleCampaignIsKnown, Source
<1> QED BY <1>1, <1>2, <1>3, OnlyStartRunStarts

-----------------------------------------------------------------------------
(* Theorems *)

LEMMA InitSession == Init => SessionInv
<1> SUFFICES ASSUME Init PROVE SessionInv
  OBVIOUS
<1> USE BlankIsSession, IdleIsCommand, PlainIsContent, PathTypes, NoneIsNothing DEF Init
<1>1. SessionType
  BY DEF SessionType
<1>2. PathsExist /\ CheckpointNamesSource /\ PassedIsSound
  BY DEF PathsExist, CheckpointNamesSource, PassedIsSound, Loaded
<1>3. FlagsInv /\ RunsHaveCampaigns /\ GradesCurrentNetlist /\ StaleCampaignIsKnown
  BY DEF FlagsInv, FlagsHold, RunsHaveCampaigns, GradesCurrentNetlist, GradingScan,
    StaleCampaignIsKnown
<1> QED BY <1>1, <1>2, <1>3 DEF SessionInv

\* The flags of the session and of its checkpoint tell the truth about the disk: SessionInv
\* holds in every state, whatever commands, failures, crashes and resumptions led to it.
THEOREM SessionInvariant == Spec => []SessionInv
<1>1. SessionInv /\ [Next]_vars => SessionInv'
  <2> SUFFICES ASSUME SessionInv, [Next]_vars PROVE SessionInv'
    OBVIOUS
  <2>1. BaseInv /\ BaseInv'
    BY BaseInductive DEF SessionInv, BaseInv
  <2>2. RunsHaveCampaigns' /\ FlagsInv'
    BY <2>1, RunsInductive, FlagsInductive DEF SessionInv
  <2>3. GradesCurrentNetlist' /\ StaleCampaignIsKnown'
    BY <2>1, GradingInductive DEF SessionInv
  <2> QED BY <2>1, <2>2, <2>3 DEF SessionInv, BaseInv
<1> QED BY InitSession, <1>1, PTL DEF Spec

\* run_atpg -scan grades the netlist the structural check accepted, and on an undisturbed
\* session the scanned form of the current source: GradesCurrentNetlist, for every bound.
THEOREM SessionGradesCurrentNetlist == Spec => []GradesCurrentNetlist
BY SessionInvariant, PTL DEF SessionInv

\* All runs of a campaign are of one fingerprint: CampaignIsOfOneDesign, for every bound.
THEOREM SessionCampaignIsOfOneDesign == Spec => []CampaignIsOfOneDesign
<1>1. SessionInv => CampaignIsOfOneDesign
  BY DEF SessionInv, RunsHaveCampaigns, CampaignIsOfOneDesign
<1> QED BY SessionInvariant, <1>1, PTL

\* An undisturbed session is never refused a scan run because the campaign is of another
\* manifest: StaleCampaignIsKnown, for every bound.
THEOREM SessionStaleCampaignIsKnown == Spec => []StaleCampaignIsKnown
BY SessionInvariant, PTL DEF SessionInv
=============================================================================
