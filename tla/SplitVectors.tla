---------------------------- MODULE SplitVectors ----------------------------
(***************************************************************************)
(* Macroblocks whose subblocks have vectors of their own (SPLITMV), in a   *)
(* frame of another encoder that is encoded again with the same vectors:   *)
(* update_macroblock of src/encoder/reencode.cc, encode_prediction_modes   *)
(* and write_subblock_inter_prediction of src/encoder/serializer.cc, and   *)
(* decode_prediction_modes and read_subblock_inter_prediction of           *)
(* src/decoder/macroblock.cc.  A vector is its x component; vectors of     *)
(* chroma are the sums they are made from (Reconstruction divides them).   *)
(***************************************************************************)
EXTENDS MotionVectors

CONSTANTS
  SplitModes,             \* modes of the partitions, in turn, and
  SplitDifferences,       \* differences new vectors are coded as, and
  MaxSplitMacroblocks     \* macroblocks of the frame, bounds of the model

VARIABLES
  split_columns,          \* macroblocks in a row
  prediction_frame                \* the frame as decoded, in raster order

splitVars == <<split_columns, prediction_frame>>

LEFT4X4 == 10
ABOVE4X4 == 11
ZERO4X4 == 12
NEW4X4 == 13

ASSUME SplitVectorsAssumption ==
  /\ SplitModes \subseteq [0 .. 3 -> LEFT4X4 .. NEW4X4]
  /\ \A d \in SplitDifferences : d \in -2046 .. 2046 /\ d % 2 = 0
  /\ MaxSplitMacroblocks \in Nat

(* Subblocks of luma and of chroma in a macroblock, in raster order.       *)
LumaBlocks == 0 .. 15
ChromaBlocks == 0 .. 3

(* mv_partitions: halves above each other, side by side, quarters, all.    *)
PartitionOf(id, s) == <<s \div 8, (s % 4) \div 2, 2 * (s \div 8) + (s % 4) \div 2, s>>[id + 1]
Partitions == [id \in 0 .. 3 |-> {PartitionOf(id, s) : s \in LumaBlocks}]
FirstSubblock ==
  [id \in 0 .. 3 |-> [p \in Partitions[id] |->
     CHOOSE s \in LumaBlocks : PartitionOf(id, s) = p /\ \A t \in LumaBlocks : PartitionOf(id, t) = p => s <= t]]
InOrder(id) == [k \in 1 .. Cardinality(Partitions[id]) |-> k - 1]

(* Modes and vectors are those of all subblocks, or of each partition.     *)
Block(mode, mv) == [mode |-> mode, mv |-> mv]

(* A macroblock as a frame is made with.                                   *)
NewMacroblock ==
  [inter |-> FALSE, mode |-> 0, partition |-> 0, blocks |-> <<Block(0, 0)>>, chroma |-> [c \in ChromaBlocks |-> 0]]

BlockAt(mb, s) == IF mb.mode = SPLITMV THEN mb.blocks[PartitionOf(mb.partition, s) + 1] ELSE mb.blocks[1]

SplitTypeOK ==
  /\ split_columns \in 1 .. MaxSplitMacroblocks
  /\ Len(prediction_frame) <= MaxSplitMacroblocks
  /\ \A i \in DOMAIN prediction_frame :
       /\ prediction_frame[i].mode \in {0} \cup NEARESTMV .. SPLITMV
       /\ prediction_frame[i].partition \in 0 .. 3
       /\ \A s \in LumaBlocks : BlockAt(prediction_frame[i], s).mode \in {0} \cup LEFT4X4 .. NEW4X4

SplitInit == split_columns = 1 /\ prediction_frame = << >>
-----------------------------------------------------------------------------
(* Vectors, in macroblock i of mbs.                                        *)

LeftVector(mbs, i, s) ==
  IF s % 4 > 0 THEN BlockAt(mbs[i], s - 1).mv
  ELSE IF (i - 1) % split_columns > 0 THEN BlockAt(mbs[i - 1], s + 3).mv ELSE 0

AboveVector(mbs, i, s) ==
  IF s > 3 THEN BlockAt(mbs[i], s - 4).mv
  ELSE IF i > split_columns THEN BlockAt(mbs[i - split_columns], s + 12).mv ELSE 0

(* submv_ref_index                                                         *)
VectorContext(left, above) ==
  IF left = above THEN (IF left = 0 THEN 4 ELSE 3)
  ELSE IF above = 0 THEN 2 ELSE IF left = 0 THEN 1 ELSE 0

ContextOf(mbs, i, s) == VectorContext(LeftVector(mbs, i, s), AboveVector(mbs, i, s))

(* base_motion_vector is that of the last subblock.                        *)
BaseVectors(mbs) ==
  [j \in DOMAIN mbs |-> [inter |-> mbs[j].inter, mode |-> mbs[j].mode, mv |-> BlockAt(mbs[j], 15).mv]]
CensusOf(mbs, i) == Census(NeighboursIn(split_columns, i, BaseVectors(mbs)))
WithinFrame(mv, i) == ClampedIn(split_columns, mv, (i - 1) % split_columns)

WithVector(mb, mv) == [mb EXCEPT !.blocks = <<Block(0, mv)>>]

(* The vector of the first subblock of partition p, and of the others.     *)
VectorBy(mbs, i, s, mode, new) ==
  CASE mode = LEFT4X4 -> LeftVector(mbs, i, s)
    [] mode = ABOVE4X4 -> AboveVector(mbs, i, s)
    [] mode = ZERO4X4 -> 0
    [] mode = NEW4X4 -> new

(* The blocks of the partitions before p are there.                        *)
WithPartition(mbs, i, p, mode, new) ==
  LET first == FirstSubblock[mbs[i].partition][p]
  IN  [mbs EXCEPT ![i].blocks = Append(@, Block(mode, VectorBy(mbs, i, first, mode, new)))]

(* Chroma's vectors come from four of luma, once all of them are known.    *)
WithChroma(mb) ==
  LET Corner(c) == 8 * (c \div 2) + 2 * (c % 2)
      Sum(s) == BlockAt(mb, s).mv + BlockAt(mb, s + 1).mv + BlockAt(mb, s + 4).mv + BlockAt(mb, s + 5).mv
  IN  IF mb.inter THEN [mb EXCEPT !.chroma = [c \in ChromaBlocks |-> Sum(Corner(c))]] ELSE mb
-----------------------------------------------------------------------------
(* The frame another encoder made: any that can be decoded.                *)

Appended(mb) == Append(prediction_frame, mb)
Whole(mode, mv) == WithVector([NewMacroblock EXCEPT !.inter = TRUE, !.mode = mode], mv)
SplitBy(id) == [NewMacroblock EXCEPT !.inter = TRUE, !.mode = SPLITMV, !.partition = id, !.blocks = << >>]

WholeMacroblocks(i) ==
  LET s == CensusOf(Appended(NewMacroblock), i)
  IN  {NewMacroblock, Whole(NEARESTMV, WithinFrame(Nearest(s), i))}
      \cup {Whole(NEWMV, d + WithinFrame(Best(s), i)) : d \in SplitDifferences}

SplitMacroblock(i, id, modes, d) ==
  LET new == d + WithinFrame(Best(CensusOf(Appended(NewMacroblock), i)), i)
      With(mbs, p) == WithPartition(mbs, i, p, modes[p % 4], new)
  IN  FoldLeft(With, Appended(SplitBy(id)), InOrder(id))[i]

DecodePrediction ==
  LET i == Len(prediction_frame) + 1
  IN  /\ i <= MaxSplitMacroblocks
      /\ \E mb \in WholeMacroblocks(i) \cup {SplitMacroblock(i, id, modes, d) :
                     id \in 0 .. 3, modes \in SplitModes, d \in SplitDifferences} :
           prediction_frame' = Appended(WithChroma(mb))
      /\ UNCHANGED split_columns

StartFrame ==
  /\ prediction_frame = << >> /\ split_columns < MaxSplitMacroblocks
  /\ split_columns' = split_columns + 1
  /\ UNCHANGED prediction_frame

SplitNext == StartFrame \/ DecodePrediction
-----------------------------------------------------------------------------
(* The encoder.                                                            *)

(* update_macroblock, of a macroblock of a frame.                          *)
Updated(mb, from) ==
  LET header == [mb EXCEPT !.inter = from.inter, !.partition = from.partition, !.mode = from.mode]
  IN  WithChroma(IF from.mode = SPLITMV THEN [header EXCEPT !.blocks = from.blocks]
                 ELSE IF from.inter THEN WithVector(header, BlockAt(from, 15).mv) ELSE header)

(* The frame is one that has been used before.                             *)
MutantRewritten == [i \in DOMAIN prediction_frame |-> Updated(WithVector(NewMacroblock, 8), prediction_frame[i])]

(* update_residues, which makes a new frame.                               *)
Rewritten == [i \in DOMAIN prediction_frame |-> Updated(NewMacroblock, prediction_frame[i])]

submv_ref_tree == TreeOf(<<-LEFT4X4, 2, -ABOVE4X4, 4, -ZERO4X4, -NEW4X4>>)
split_mv_tree == TreeOf(<<-3, 2, -2, 4, 0, -1>>)
SubNodes(context) == [node \in 0 .. 2 |-> <<"submv_ref", context, node>>]
SplitNodes == [node \in 0 .. 2 |-> <<"split_mv", node>>]

(* write_subblock_inter_prediction.                                        *)
PutSubblock(mbs, i, s, base) ==
  PutTree(submv_ref_tree, BlockAt(mbs[i], s).mode, SubNodes(ContextOf(mbs, i, s)))
  \o (IF BlockAt(mbs[i], s).mode = NEW4X4 THEN PutComponent(BlockAt(mbs[i], s).mv - base) ELSE << >>)

PutPartitions(mbs, i, base) ==
  LET id == mbs[i].partition
      order == InOrder(id)
  IN  PutTree(split_mv_tree, id, SplitNodes)
      \o FlattenSeq([k \in DOMAIN order |-> PutSubblock(mbs, i, FirstSubblock[id][order[k]], base)])

PutVectors(mbs, i) ==
  LET s == CensusOf(mbs, i)
      base == WithinFrame(Best(s), i)
  IN  <<Symbol(mbs[i].inter, <<"is_inter_mb">>)>>
      \o (IF mbs[i].inter THEN PutTree(mv_ref_tree, mbs[i].mode, ModeNodes(s)) ELSE << >>)
      \o (IF mbs[i].mode = NEWMV THEN PutComponent(BlockAt(mbs[i], 15).mv - base) ELSE << >>)
      \o (IF mbs[i].mode = SPLITMV THEN PutPartitions(mbs, i, base) ELSE << >>)

PutSplitFrame(mbs) == FlattenSeq([i \in DOMAIN mbs |-> PutVectors(mbs, i)])
-----------------------------------------------------------------------------
(* The decoder: r.read are the macroblocks parsed, the last of them so far.*)

(* read_subblock_inter_prediction, and the rest of the partition.  What  *)
(* follows something wrong does not matter.                                *)
AskPartition(r, p, base) ==
  LET i == Len(r.read)
      mode == AskTree(r.d, submv_ref_tree, SubNodes(ContextOf(r.read, i, FirstSubblock[r.read[i].partition][p])))
      d == IF mode.value = NEW4X4 THEN AskComponent(mode) ELSE mode
  IN  IF r.d.wrong THEN [r EXCEPT !.read = WithPartition(@, i, p, ZERO4X4, 0)]
      ELSE [d |-> d, read |-> WithPartition(r.read, i, p, mode.value, d.value + base)]

AskPartitions(r, d, base) ==
  LET id == AskTree(d, split_mv_tree, SplitNodes)
      With(q, p) == AskPartition(q, p, base)
  IN  FoldLeft(With, [d |-> id, read |-> Append(r.read, SplitBy(id.value))], InOrder(id.value))

AskVectorBy(r, s, i, mode) ==
  LET base == WithinFrame(Best(s), i)
      Of(d, mv) == [d |-> d, read |-> Append(r.read, Whole(mode.value, mv))]
      New(d) == Of(d, d.value + base)
  IN  CASE mode.value = NEARESTMV -> Of(mode, WithinFrame(Nearest(s), i))
        [] mode.value = NEARMV -> Of(mode, WithinFrame(Near(s), i))
        [] mode.value = ZEROMV -> Of(mode, 0)
        [] mode.value = NEWMV -> New(AskComponent(mode))
        [] mode.value = SPLITMV -> AskPartitions(r, mode, base)

AskVectors(r, i) ==
  LET s == CensusOf(Append(r.read, NewMacroblock), i)
      inter == Ask(r.d, <<"is_inter_mb">>)
      parsed == IF inter.bit THEN AskVectorBy(r, s, i, AskTree(inter, mv_ref_tree, ModeNodes(s)))
                ELSE [d |-> inter, read |-> Append(r.read, NewMacroblock)]
  IN  [parsed EXCEPT !.read[i] = WithChroma(@)]

AskSplitFrame(symbols, count) ==
  FoldLeft(AskVectors, [d |-> Reader(symbols), read |-> << >>], [i \in 1 .. count |-> i])
-----------------------------------------------------------------------------

(* A frame that is encoded again has every vector it had: those of the     *)
(* subblocks are written once for each partition, in contexts and against  *)
(* vectors of other partitions and macroblocks, of which some have been    *)
(* copied and those that are not inter coded have none.                    *)
SplitsRoundTrip ==
  Len(prediction_frame) = MaxSplitMacroblocks =>
    HasRead(AskSplitFrame(PutSplitFrame(Rewritten), MaxSplitMacroblocks), prediction_frame)
=============================================================================
