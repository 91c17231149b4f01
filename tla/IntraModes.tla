----------------------------- MODULE IntraModes -----------------------------
(***************************************************************************)
(* How macroblocks that are predicted from the picture itself get their    *)
(* modes: luma_mb_best_prediction_mode and luma_mb_apply_intra_prediction  *)
(* of src/encoder/encode_intra.cc, encode_prediction_modes of              *)
(* src/encoder/serializer.cc and decode_prediction_modes of                *)
(* src/decoder/macroblock.cc.  The encoder works in the objects of a frame *)
(* from a pool (src/decoder/frame_pool.cc), in which older frames, and a   *)
(* trial of B_PRED that another mode won against, have left their traces;  *)
(* the decoder works in new ones.  Macroblocks have 2 by 2 subblocks       *)
(* instead of 4 by 4; how an inter mode is coded is in MotionVectors.      *)
(***************************************************************************)
EXTENDS MotionVectors

CONSTANTS
  TrialModes,             \* subblock modes a trial of B_PRED may end with, and
  WholeModes,             \* modes of a macroblock but B_PRED, bounds of the model
  MaxIntraFrames          \* frames encoded in the same objects

VARIABLES
  frame_kind,             \* "none", "key", "inter", or "realtime" for inter frames at REALTIME_QUALITY
  mode_columns,           \* macroblocks in a row
  objects,                \* the macroblocks of the frame object, in raster order
  encoded,                \* how many this frame has encoded so far
  frames_encoded

intraVars == <<frame_kind, mode_columns, objects, encoded, frames_encoded>>

DC_PRED == 0
B_PRED == 4
B_DC_PRED == 0
Subblocks == 0 .. 3
MacroblockCount == 2

ASSUME IntraModesAssumption ==
  /\ TrialModes \subseteq [Subblocks -> 0 .. 9]
  /\ WholeModes \subseteq DC_PRED .. B_PRED - 1
  /\ MaxIntraFrames \in Nat

ModeObjects ==
  [inter : BOOLEAN, y_mode : 0 .. ZEROMV, coded : BOOLEAN, y2_nonzero : BOOLEAN, uv_mode : 0 .. 3,
   mode : [Subblocks -> 0 .. 9], type : {"Y_after_Y2", "Y_without_Y2"}]

IntraModesTypeOK ==
  /\ frame_kind \in {"none", "key", "inter", "realtime"}
  /\ mode_columns \in 1 .. MacroblockCount
  /\ frame_kind # "none" => objects \in [1 .. MacroblockCount -> ModeObjects]
  /\ encoded \in 0 .. MacroblockCount
  /\ frames_encoded \in 0 .. MaxIntraFrames

(* KeyFrameMacroblock::implied_subblock_mode: DC, V, H and TM.             *)
ImpliedMode(y_mode) == <<0, 2, 3, 1>>[y_mode + 1]
Implied(y_mode) == [s \in Subblocks |-> ImpliedMode(y_mode)]

(* A frame object is made by parsing zeros: the first leaf of each tree.   *)
NewObject(kind) ==
  [inter |-> FALSE, y_mode |-> IF kind = "key" THEN B_PRED ELSE DC_PRED, coded |-> kind # "key",
   y2_nonzero |-> FALSE, uv_mode |-> DC_PRED, mode |-> [s \in Subblocks |-> B_DC_PRED],
   type |-> IF kind = "key" THEN "Y_without_Y2" ELSE "Y_after_Y2"]

IntraModesInit ==
  /\ frame_kind = "none" /\ mode_columns = 1
  /\ objects = << >> /\ encoded = 0 /\ frames_encoded = 0
-----------------------------------------------------------------------------
(* The encoder.                                                            *)

(* luma_mb_best_prediction_mode: B_PRED is tried first, in the subblocks of*)
(* the frame, but not in inter frames at REALTIME_QUALITY.                 *)
Tried(object, trial) ==
  IF frame_kind = "realtime" THEN object ELSE [object EXCEPT !.mode = trial, !.type = "Y_without_Y2"]

(* Leaves the subblocks as the trial left them.                            *)
MutantAppliedIntra(object, y_mode, nonzero) ==
  IF y_mode = B_PRED THEN [object EXCEPT !.inter = FALSE, !.y_mode = y_mode, !.coded = FALSE]
  ELSE [object EXCEPT !.inter = FALSE, !.y_mode = y_mode, !.coded = TRUE, !.y2_nonzero = nonzero,
                      !.type = "Y_after_Y2"]

(* luma_mb_apply_intra_prediction.                                         *)
AppliedIntra(object, y_mode, nonzero) ==
  IF y_mode = B_PRED THEN [object EXCEPT !.inter = FALSE, !.y_mode = y_mode, !.coded = FALSE]
  ELSE [object EXCEPT !.inter = FALSE, !.y_mode = y_mode, !.coded = TRUE, !.y2_nonzero = nonzero,
                      !.mode = Implied(y_mode), !.type = "Y_after_Y2"]

(* luma_mb_apply_inter_prediction, without SPLITMV.                        *)
AppliedInter(object, nonzero) ==
  [object EXCEPT !.inter = TRUE, !.y_mode = ZEROMV, !.coded = TRUE, !.y2_nonzero = nonzero,
                 !.type = "Y_after_Y2"]

(* The mode of chroma is chosen after those of luma.                       *)
WithUV(object, uv_mode) == [object EXCEPT !.uv_mode = uv_mode]

ModeOutcomes(object, trial, nonzero) ==
  {WithUV(AppliedIntra(Tried(object, trial), y_mode, nonzero), uv_mode) :
     y_mode \in WholeModes \cup (IF frame_kind = "realtime" THEN {} ELSE {B_PRED}), uv_mode \in WholeModes}
  \cup IF frame_kind = "key" THEN {} ELSE {AppliedInter(Tried(object, trial), nonzero)}

(* The object of the next macroblock, in its frame's object.               *)
EncodeModes ==
  /\ frame_kind # "none" /\ encoded < MacroblockCount
  /\ encoded' = encoded + 1
  /\ \E trial \in TrialModes, nonzero \in BOOLEAN :
       \E object \in ModeOutcomes(objects[encoded'], trial, nonzero) :
         objects' = [objects EXCEPT ![encoded'] = object]
  /\ UNCHANGED <<frame_kind, mode_columns, frames_encoded>>

(* The first frame is encoded in a new object.                             *)
MakeFrameObject(kind, columns) ==
  /\ frame_kind = "none"
  /\ frame_kind' = kind /\ mode_columns' = columns
  /\ objects' = [i \in 1 .. MacroblockCount |-> NewObject(kind)]
  /\ UNCHANGED <<encoded, frames_encoded>>

(* The object is used again, for another quantizer or another picture.     *)
ReuseFrameObject ==
  /\ encoded = MacroblockCount /\ frames_encoded < MaxIntraFrames
  /\ encoded' = 0 /\ frames_encoded' = frames_encoded + 1
  /\ UNCHANGED <<frame_kind, mode_columns, objects>>

IntraModesNext ==
  \/ \E kind \in {"key", "inter", "realtime"}, columns \in 1 .. MacroblockCount : MakeFrameObject(kind, columns)
  \/ EncodeModes
  \/ ReuseFrameObject
-----------------------------------------------------------------------------
(* Contexts, of macroblock i, or its subblock s, in mbs.                   *)

MacroblockAbove(i) == IF i > mode_columns THEN i - mode_columns ELSE 0
MacroblockLeft(i) == IF (i - 1) % mode_columns = 0 THEN 0 ELSE i - 1
ModeAt(mbs, i, s) == IF i = 0 THEN B_DC_PRED ELSE mbs[i].mode[s]
AboveMode(mbs, i, s) == IF s >= 2 THEN ModeAt(mbs, i, s - 2) ELSE ModeAt(mbs, MacroblockAbove(i), s + 2)
LeftMode(mbs, i, s) == IF s % 2 = 1 THEN ModeAt(mbs, i, s - 1) ELSE ModeAt(mbs, MacroblockLeft(i), s + 1)

(* relink_y2_blocks, and the context of tokens of Y2.                      *)
Y2Context(mbs, i) ==
  LET Nonzero(S) == LET coded == {j \in S : mbs[j].coded}
                    IN  coded # {} /\ mbs[CHOOSE j \in coded : \A k \in coded : k <= j].y2_nonzero
  IN  Bit(Nonzero({j \in 1 .. i - 1 : (i - j) % mode_columns = 0}))
      + Bit(Nonzero({j \in 1 .. i - 1 : (j - 1) \div mode_columns = (i - 1) \div mode_columns}))
-----------------------------------------------------------------------------
(* Writing and reading.                                                    *)

kf_y_mode_tree == TreeOf(<<-4, 2, 4, 6, 0, -1, -2, -3>>)
y_mode_tree == TreeOf(<<0, 2, 4, 6, -1, -2, -3, -4>>)
uv_mode_tree == TreeOf(<<0, 2, -1, 4, -2, -3>>)
b_mode_tree == TreeOf(<<0, 2, -1, 4, -2, 6, 8, 12, -3, 10, -5, -6, -4, 14, -7, 16, -8, -9>>)

NodesOf(name) == [node \in 0 .. 8 |-> <<name, node>>]
YTree == IF frame_kind = "key" THEN kf_y_mode_tree ELSE y_mode_tree

(* In key frames only, the modes around a subblock choose its table.       *)
BNodes(above, left) ==
  [node \in 0 .. 8 |-> IF frame_kind = "key" THEN <<"b_mode", node, above, left>> ELSE <<"b_mode", node>>]

PutSubblockMode(mbs, i, s) == PutTree(b_mode_tree, mbs[i].mode[s], BNodes(AboveMode(mbs, i, s), LeftMode(mbs, i, s)))

PutIntraModes(mbs, i) ==
  PutTree(YTree, mbs[i].y_mode, NodesOf("y_mode"))
  \o (IF mbs[i].y_mode = B_PRED THEN FlattenSeq([k \in 1 .. 4 |-> PutSubblockMode(mbs, i, k - 1)]) ELSE << >>)
  \o PutTree(uv_mode_tree, mbs[i].uv_mode, NodesOf("uv_mode"))

(* encode_prediction_modes, and the tokens of Y2, of which one is enough.  *)
PutObject(mbs, i) ==
  (IF frame_kind = "key" THEN << >> ELSE <<Symbol(mbs[i].inter, <<"is_inter_mb">>)>>)
  \o (IF mbs[i].inter THEN << >> ELSE PutIntraModes(mbs, i))

PutY2(mbs, i) == IF mbs[i].coded THEN <<Symbol(mbs[i].y2_nonzero, <<"Y2", Y2Context(mbs, i)>>)>> ELSE << >>

PutObjects(mbs) ==
  FlattenSeq([i \in DOMAIN mbs |-> PutObject(mbs, i)]) \o FlattenSeq([i \in DOMAIN mbs |-> PutY2(mbs, i)])

(* decode_prediction_modes, on an object of which only the fields given are*)
(* not what Block and Macroblock start with.                               *)
Parsed(inter, y_mode, uv_mode, mode) ==
  [inter |-> inter, y_mode |-> y_mode, coded |-> y_mode # B_PRED, y2_nonzero |-> FALSE, uv_mode |-> uv_mode,
   mode |-> mode, type |-> IF y_mode = B_PRED THEN "Y_without_Y2" ELSE "Y_after_Y2"]

(* The subblocks of the macroblock read last.                              *)
AskSubblock(r, s) ==
  LET i == Len(r.read)
      b == AskTree(r.d, b_mode_tree, BNodes(AboveMode(r.read, i, s), LeftMode(r.read, i, s)))
  IN  [d |-> b, read |-> [r.read EXCEPT ![i].mode = [@ EXCEPT ![s] = b.value]]]

AskSubblocks(r) == FoldLeft(AskSubblock, r, [k \in 1 .. 4 |-> k - 1])

AskUV(r) ==
  LET uv == AskTree(r.d, uv_mode_tree, NodesOf("uv_mode"))
  IN  [d |-> uv, read |-> [r.read EXCEPT ![Len(r.read)].uv_mode = uv.value]]

AskIntra(r, d) ==
  LET y == AskTree(d, YTree, NodesOf("y_mode"))
      With(mode) == [d |-> y, read |-> Append(r.read, Parsed(FALSE, y.value, DC_PRED, mode))]
  IN  IF y.value = B_PRED THEN AskUV(AskSubblocks(With([s \in Subblocks |-> B_DC_PRED])))
      ELSE AskUV(With(Implied(y.value)))

AskObject(r, i) ==
  LET inter == IF frame_kind = "key" THEN [r.d EXCEPT !.bit = FALSE] ELSE Ask(r.d, <<"is_inter_mb">>)
  IN  IF inter.bit
      THEN [d |-> inter, read |-> Append(r.read, Parsed(TRUE, ZEROMV, DC_PRED, [s \in Subblocks |-> B_DC_PRED]))]
      ELSE AskIntra(r, inter)

AskY2Of(r, i) ==
  LET y2 == Ask(r.d, <<"Y2", Y2Context(r.read, i)>>)
  IN  IF r.read[i].coded THEN [d |-> y2, read |-> [r.read EXCEPT ![i].y2_nonzero = y2.bit]] ELSE r

AskObjects(symbols) ==
  LET order == [i \in 1 .. MacroblockCount |-> i]
  IN  FoldLeft(AskY2Of, FoldLeft(AskObject, [d |-> Reader(symbols), read |-> << >>], order), order)
-----------------------------------------------------------------------------

(* What the picture is made from: reconstruct_intra, reconstruct_inter and *)
(* loopfilter do not look at the rest.                                     *)
InUse(mb) ==
  [inter |-> mb.inter, y_mode |-> mb.y_mode, coded |-> mb.coded, type |-> mb.type,
   uv_mode |-> IF mb.inter THEN DC_PRED ELSE mb.uv_mode,
   mode |-> IF mb.y_mode = B_PRED THEN mb.mode ELSE << >>,
   y2_nonzero |-> mb.coded /\ mb.y2_nonzero]

(* The decoder, with new objects, finds the modes the encoder has in its   *)
(* used ones: subblock modes are written for one macroblock in a table     *)
(* chosen by those of others, which were implied, or tried and overwritten,*)
(* and the tokens of Y2 in a context that a macroblock without it, where an*)
(* older frame left one, takes no part in.                                 *)
ModesRoundTrip ==
  encoded = MacroblockCount =>
    LET parsed == AskObjects(PutObjects(objects))
    IN  /\ IsRead(parsed.d)
        /\ [i \in DOMAIN parsed.read |-> InUse(parsed.read[i])] = [i \in DOMAIN objects |-> InUse(objects[i])]
=============================================================================
