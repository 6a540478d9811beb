------------------------------- MODULE Retarget -------------------------------
(***************************************************************************)
(* A block's scan patterns on the chains of the chip.  A block pattern      *)
(* gives each chain of the block a load and an expected unload in shift     *)
(* order, padded to the block's longest chain; the access manifest says     *)
(* which positions of which chip chain that block chain occupies.           *)
(*                                                                          *)
(* Positions count from 0 at scan-in; a chain's contents are the sequence   *)
(* of its positions' values.  An access manifest is [max, chains], a chain  *)
(* [length, segments] at the place of its index, a segment                  *)
(* [block, chain, offset, length] with chain 0 for one that is bypassed.    *)
(***************************************************************************)
EXTENDS Integers, Sequences, FiniteSets, SequencesExt, FiniteSetsExt

LOCAL Lengths(segs, j) == LET sum[i \in 0..j] == IF i = 0 THEN 0 ELSE sum[i - 1] + segs[i].length IN sum[j]
Pad(n) == [k \in 1..n |-> FALSE]

(* What serialize_vector makes of the values wanted in a block's chains. *)
SerializeVector(load, unload, longest) ==
  [load   |-> [c \in DOMAIN load |-> Pad(longest - Len(load[c])) \o Reverse(load[c])],
   unload |-> [c \in DOMAIN unload |-> Reverse(unload[c]) \o Pad(longest - Len(unload[c]))]]

(* The segments of a chain, sorted by offset, must tile it. *)
SortedSegments(chain) == SortSeq(chain.segments, LAMBDA a, b : a.offset < b.offset)
ParseChain(chain) ==
  LET segs == SortedSegments(chain)
  IN  /\ Len(segs) > 0
      /\ \A j \in 1..Len(segs) : segs[j].offset = Lengths(segs, j - 1)
      /\ Lengths(segs, Len(segs)) = chain.length
ParseSocAccess(access) == Len(access.chains) > 0 /\ \A c \in 1..Len(access.chains) : ParseChain(access.chains[c])

BlockValueAt(seq, length, p) == length - p \in 1..Len(seq) /\ seq[length - p]

StripBlockLevelPadding(seq, length, front) ==
  IF Len(seq) <= length THEN seq
  ELSE IF front THEN SubSeq(seq, Len(seq) - length + 1, Len(seq)) ELSE SubSeq(seq, 1, length)

(* The segment of the block a position of a chip chain lies in, if any. *)
OwnSegments(chain, block) == {s \in Range(chain.segments) : s.block = block /\ s.chain # 0}
Covers(s, pos) == pos \in s.offset..(s.offset + s.length - 1)
Owned(chain, block, pos) == \E s \in OwnSegments(chain, block) : Covers(s, pos)
SegmentAt(chain, block, pos) == CHOOSE s \in OwnSegments(chain, block) : Covers(s, pos)

Placed(seqs, chain, block, pos, front) ==
  /\ Owned(chain, block, pos)
  /\ LET s == SegmentAt(chain, block, pos)
     IN  /\ s.chain \in DOMAIN seqs
         /\ BlockValueAt(StripBlockLevelPadding(seqs[s.chain], s.length, front), s.length, pos - s.offset)

\* Mutant: a short chain's load is padded behind the payload.
LoadSeqPaddedAfter(bp, chain, block, max) ==
  [k \in 1..chain.length |-> Placed(bp.load, chain, block, chain.length - k, TRUE)] \o Pad(max - chain.length)

(* The last position goes in first; only the last bits fed stay in a short chain. *)
LoadSeq(bp, chain, block, max) ==
  Pad(max - chain.length) \o [k \in 1..chain.length |-> Placed(bp.load, chain, block, chain.length - k, TRUE)]
UnloadSeq(bp, chain, block, max) ==
  [k \in 1..chain.length |-> Placed(bp.unload, chain, block, chain.length - k, FALSE)] \o Pad(max - chain.length)
MaskSeq(chain, block, max) ==
  [k \in 1..chain.length |-> Owned(chain, block, chain.length - k)] \o Pad(max - chain.length)

PlacedChains(access, block) ==
  UNION {{s.chain : s \in OwnSegments(access.chains[c], block)} : c \in 1..Len(access.chains)}

RetargetBlockPattern(bp, access, block) ==
  LET chains == access.chains
  IN  [why |-> CASE \E c \in 1..Len(chains) : chains[c].length > access.max -> "too_long"
                 [] ~(DOMAIN bp.load \subseteq PlacedChains(access, block)) -> "no_segment"
                 [] OTHER -> "",
       load |-> [c \in 1..Len(chains) |-> LoadSeq(bp, chains[c], block, access.max)],
       unload |-> [c \in 1..Len(chains) |-> UnloadSeq(bp, chains[c], block, access.max)],
       mask |-> [c \in 1..Len(chains) |-> MaskSeq(chains[c], block, access.max)]]

(***************************************************************************)
(* The replay on the chip: as many shifts in as the longest chain has       *)
(* positions, a capture, and as many shifts out.                            *)
(***************************************************************************)
Shifted(reg, bit) == <<bit>> \o SubSeq(reg, 1, Len(reg) - 1)

(* The contents before each of the shifts, and after the last. *)
ShiftedIn(reg, bits) ==
  LET at[j \in 0..Len(bits)] == IF j = 0 THEN reg ELSE Shifted(at[j - 1], bits[j]) IN at

Loaded(reg, bits) == ShiftedIn(reg, bits)[Len(bits)]
Unloaded(reg, n) == [k \in 1..n |-> Last(ShiftedIn(reg, Pad(n))[k - 1])]

(* Only the block's own bits are compared. *)
VerifySoc(pattern, got) ==
  \A c \in 1..Len(got) : \A k \in 1..Len(got[c]) : pattern.mask[c][k] => got[c][k] = pattern.unload[c][k]
===============================================================================
