---------------------------- MODULE MCCompaction ----------------------------
(* Instances of Compaction: patterns over two named inputs. *)
EXTENDS Compaction

TwoInputs == [{"a", "b"} -> BOOLEAN]
NoHolds == <<>>
HoldB == "b" :> TRUE
=============================================================================
