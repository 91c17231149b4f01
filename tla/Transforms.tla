------------------------------ MODULE Transforms -------------------------------
(***************************************************************************)
(* From the residue of a macroblock to coefficients and back: dct.cc,      *)
(* transform.cc and quantization.cc of src/decoder, as the first pass of   *)
(* src/encoder/encode_intra.cc and apply_walsh of src/decoder/macroblock.cc*)
(* use them: what the C functions do, which assembly replaces in a build   *)
(* with SSE2.  A block is a sequence of four rows.                         *)
(***************************************************************************)
EXTENDS Integers, Sequences

CONSTANTS
  Originals,           \* macroblocks to encode: sequences of 16 blocks of pixels
  FlatPredictions,     \* the pixels that a prediction consists of
  YacIndices         \* values of y_ac_qi, without other indices

VARIABLES
  transformStage,               \* "idle", "predicted", "quantized", "reconstructed"
  job,                 \* {} or {[original, predicted, kind, y_ac_qi], of which "kind" is of Kind}
  yCoefficients,       \* the blocks' coefficients, quantized
  y2Coefficients,      \* {}, or that of Y2
  rebuilt              \* the blocks that a decoder sees

transformVars == <<transformStage, job, yCoefficients, y2Coefficients, rebuilt>>

Kind == {"whole", "subblocks", "chroma"}
Job == [original : Originals, predicted : FlatPredictions, kind : Kind, y_ac_qi : YacIndices]

TransformsTypeOK ==
  /\ transformStage \in {"idle", "predicted", "quantized", "reconstructed"}
  /\ job \subseteq Job
  /\ Len(yCoefficients) \in {0, 4, 16} /\ Len(rebuilt) \in {0, 4, 16}
  /\ \A b \in 1 .. Len(rebuilt), r \in 1 .. 4, c \in 1 .. 4 : rebuilt[b][r][c] \in 0 .. 255

TransformsInit ==
  /\ transformStage = "idle" /\ job = {}
  /\ yCoefficients = <<>> /\ y2Coefficients = {} /\ rebuilt = <<>>
-----------------------------------------------------------------------------
(* Arithmetic.                                                             *)

Wrapped16(n) == ((n + 32768) % 65536) - 32768

Clamp255(n) == IF n < 0 THEN 0 ELSE IF n > 255 THEN 255 ELSE n

ToZero(a, q) == IF a >= 0 THEN a \div q ELSE -((-a) \div q)

OneIf(condition) == IF condition THEN 1 ELSE 0

BlockColumn(block, c) == <<block[1][c], block[2][c], block[3][c], block[4][c]>>
Turned(block) == <<BlockColumn(block, 1), BlockColumn(block, 2), BlockColumn(block, 3), BlockColumn(block, 4)>>

EachRow(Op(_), block) == <<Op(block[1]), Op(block[2]), Op(block[3]), Op(block[4])>>
EachColumn(Op(_), block) == Turned(EachRow(Op, Turned(block)))
Stored(v) == <<Wrapped16(v[1]), Wrapped16(v[2]), Wrapped16(v[3]), Wrapped16(v[4])>>

(* subtract_dct: a pass over the rows of the residue, then one over the    *)
(* columns of what that stored.                                            *)
DctRow(v) ==
  LET a1 == (v[1] + v[4]) * 8
      b1 == (v[2] + v[3]) * 8
      c1 == (v[2] - v[3]) * 8
      d1 == (v[1] - v[4]) * 8
  IN  Stored(<<a1 + b1, (c1 * 2217 + d1 * 5352 + 14500) \div 4096,
               a1 - b1, (d1 * 2217 - c1 * 5352 + 7500) \div 4096>>)

DctColumn(v) ==
  LET a1 == v[1] + v[4]
      b1 == v[2] + v[3]
      c1 == v[2] - v[3]
      d1 == v[1] - v[4]
  IN  Stored(<<(a1 + b1 + 7) \div 16, (c1 * 2217 + d1 * 5352 + 12000) \div 65536 + OneIf(d1 # 0),
               (a1 - b1 + 7) \div 16, (d1 * 2217 - c1 * 5352 + 51000) \div 65536>>)

SubtractDct(original, predicted) ==
  LET Less(v) == <<v[1] - predicted, v[2] - predicted, v[3] - predicted, v[4] - predicted>>
  IN  EachColumn(DctColumn, EachRow(DctRow, EachRow(Less, original)))

WalshRow(v) ==
  LET a1 == (v[1] + v[3]) * 4
      d1 == (v[2] + v[4]) * 4
      c1 == (v[2] - v[4]) * 4
      b1 == (v[1] - v[3]) * 4
  IN  Stored(<<a1 + d1 + OneIf(a1 # 0), b1 + c1, b1 - c1, a1 - d1>>)

WalshColumn(v) ==
  LET a1 == v[1] + v[3]
      d1 == v[2] + v[4]
      c1 == v[2] - v[4]
      b1 == v[1] - v[3]
      Rounded(n) == (n + OneIf(n < 0) + 3) \div 8
  IN  Stored(<<Rounded(a1 + d1), Rounded(b1 + c1), Rounded(b1 - c1), Rounded(a1 - d1)>>)

Walsh(block) == EachColumn(WalshColumn, EachRow(WalshRow, block))

InverseWalshPass(v) ==
  LET a1 == v[1] + v[4]
      b1 == v[2] + v[3]
      c1 == v[2] - v[3]
      d1 == v[1] - v[4]
  IN  <<a1 + b1, c1 + d1, a1 - b1, d1 - c1>>

InverseWalsh(block) ==
  LET Down(v) == Stored(InverseWalshPass(v))
      Across(v) == LET n == InverseWalshPass(v)
                   IN  Stored(<<(n[1] + 3) \div 8, (n[2] + 3) \div 8, (n[3] + 3) \div 8, (n[4] + 3) \div 8>>)
  IN  EachRow(Across, EachColumn(Down, block))

MUL_20091(a) == (a * 20091) \div 65536 + a
MUL_35468(a) == (a * 35468) \div 65536

InverseDctPass(v) ==
  LET t0 == v[1] + v[3]
      t1 == v[1] - v[3]
      t2 == MUL_35468(v[2]) - MUL_20091(v[4])
      t3 == MUL_20091(v[2]) + MUL_35468(v[4])
  IN  <<t0 + t3, t1 + t2, t1 - t2, t0 - t3>>

(* idct_add, on a block that the prediction filled with one value.         *)
InverseDctAdd(coefficients, predicted) ==
  LET Down(v) == Stored(InverseDctPass(v))
      Add(n) == Clamp255(predicted + (n + 4) \div 8)
      Across(v) == LET n == InverseDctPass(v) IN <<Add(n[1]), Add(n[2]), Add(n[3]), Add(n[4])>>
  IN  EachRow(Across, EachColumn(Down, coefficients))
-----------------------------------------------------------------------------
(* Quantization.                                                           *)

dc_qlookup ==
  <<4, 5, 6, 7, 8, 9, 10, 10, 11, 12, 13, 14, 15, 16, 17, 17, 18, 19, 20, 20, 21, 21, 22, 22, 23, 23, 24, 25, 25, 26, 27, 28,
    29, 30, 31, 32, 33, 34, 35, 36, 37, 37, 38, 39, 40, 41, 42, 43, 44, 45, 46, 46, 47, 48, 49, 50, 51, 52, 53, 54, 55, 56, 57, 58,
    59, 60, 61, 62, 63, 64, 65, 66, 67, 68, 69, 70, 71, 72, 73, 74, 75, 76, 76, 77, 78, 79, 80, 81, 82, 83, 84, 85, 86, 87, 88, 89,
    91, 93, 95, 96, 98, 100, 101, 102, 104, 106, 108, 110, 112, 114, 116, 118, 122, 124, 126, 128, 130, 132, 134, 136, 138, 140,
    143, 145, 148, 151, 154, 157>>

ac_qlookup ==
  <<4, 5, 6, 7, 8, 9, 10, 11, 12, 13, 14, 15, 16, 17, 18, 19, 20, 21, 22, 23, 24, 25, 26, 27, 28, 29, 30, 31, 32, 33, 34, 35,
    36, 37, 38, 39, 40, 41, 42, 43, 44, 45, 46, 47, 48, 49, 50, 51, 52, 53, 54, 55, 56, 57, 58, 60, 62, 64, 66, 68, 70, 72, 74, 76,
    78, 80, 82, 84, 86, 88, 90, 92, 94, 96, 98, 100, 102, 104, 106, 108, 110, 112, 114, 116, 119, 122, 125, 128, 131, 134, 137, 140,
    143, 146, 149, 152, 155, 158, 161, 164, 167, 170, 173, 177, 181, 185, 189, 193, 197, 201, 205, 209, 213, 217, 221, 225, 229,
    234, 239, 245, 249, 254, 259, 264, 269, 274, 279, 284>>

ClampQ(q) == IF q < 0 THEN 0 ELSE IF q > 127 THEN 127 ELSE q

(* Quantizer: factors <<of the first coefficient, of the others>>.         *)
Quantizer(y_ac_qi) ==
  LET dc == dc_qlookup[ClampQ(y_ac_qi) + 1]
      ac == ac_qlookup[ClampQ(y_ac_qi) + 1]
      y2_ac == (ac * 155) \div 100
  IN  [y |-> <<dc, ac>>, y2 |-> <<dc * 2, IF y2_ac < 8 THEN 8 ELSE y2_ac>>, uv |-> <<IF dc > 132 THEN 132 ELSE dc, ac>>]

Quantized(block, factors) ==
  LET Row(v) == <<ToZero(v[1], factors[2]), ToZero(v[2], factors[2]), ToZero(v[3], factors[2]), ToZero(v[4], factors[2])>>
  IN  [EachRow(Row, block) EXCEPT ![1][1] = ToZero(block[1][1], factors[1])]

Dequantized(block, factors) ==
  LET Row(v) == Stored(<<v[1] * factors[2], v[2] * factors[2], v[3] * factors[2], v[4] * factors[2]>>)
  IN  [EachRow(Row, block) EXCEPT ![1][1] = Wrapped16(block[1][1] * factors[1])]

WithDc(block, dc) == [block EXCEPT ![1][1] = dc]
-----------------------------------------------------------------------------

(* luma_sb_apply_intra_prediction, and chroma_mb_apply_intra_prediction.   *)
Residue(blocks, predicted, factors) ==
  [b \in DOMAIN blocks |-> Quantized(SubtractDct(blocks[b], predicted), factors)]

(* luma_mb_apply_intra_prediction: Y2 has what the others begin with.      *)
WholeResidue(blocks, predicted, quantizer) ==
  LET transformed == [b \in DOMAIN blocks |-> SubtractDct(blocks[b], predicted)]
      Dc(b) == transformed[b][1][1]
      walsh_input == <<<<Dc(1), Dc(2), Dc(3), Dc(4)>>, <<Dc(5), Dc(6), Dc(7), Dc(8)>>,
                       <<Dc(9), Dc(10), Dc(11), Dc(12)>>, <<Dc(13), Dc(14), Dc(15), Dc(16)>>>>
  IN  [y |-> [b \in DOMAIN blocks |-> Quantized(WithDc(transformed[b], 0), quantizer.y)],
       y2 |-> Quantized(Walsh(walsh_input), quantizer.y2)]

(* Takes the rows of Y2 for its columns.                                   *)
MutantWithWalsh(coefficients, y2, quantizer) ==
  LET dc == InverseWalsh(Dequantized(y2, quantizer.y2))
  IN  [b \in DOMAIN coefficients |->
         WithDc(Dequantized(coefficients[b], quantizer.y), dc[((b - 1) % 4) + 1][(b - 1) \div 4 + 1])]

(* apply_walsh.                                                            *)
WithWalsh(coefficients, y2, quantizer) ==
  LET dc == InverseWalsh(Dequantized(y2, quantizer.y2))
  IN  [b \in DOMAIN coefficients |->
         WithDc(Dequantized(coefficients[b], quantizer.y), dc[(b - 1) \div 4 + 1][((b - 1) % 4) + 1])]

PredictBlocks ==
  /\ transformStage = "idle" /\ transformStage' = "predicted" /\ \E j \in Job : job' = {j}
  /\ UNCHANGED <<yCoefficients, y2Coefficients, rebuilt>>

EncodeWhole(j) ==
  LET residue == WholeResidue(j.original, j.predicted, Quantizer(j.y_ac_qi))
  IN  /\ transformStage = "predicted" /\ j.kind = "whole" /\ transformStage' = "quantized"
      /\ yCoefficients' = residue.y /\ y2Coefficients' = {residue.y2}
      /\ UNCHANGED <<job, rebuilt>>

EncodeSubblocks(j) ==
  /\ transformStage = "predicted" /\ j.kind = "subblocks" /\ transformStage' = "quantized"
  /\ yCoefficients' = Residue(j.original, j.predicted, Quantizer(j.y_ac_qi).y)
  /\ UNCHANGED <<job, y2Coefficients, rebuilt>>

(* One of the two planes, which has four blocks.                           *)
EncodeChroma(j) ==
  /\ transformStage = "predicted" /\ j.kind = "chroma" /\ transformStage' = "quantized"
  /\ yCoefficients' = Residue(SubSeq(j.original, 1, 4), j.predicted, Quantizer(j.y_ac_qi).uv)
  /\ UNCHANGED <<job, y2Coefficients, rebuilt>>

(* reconstruct_intra, of a macroblock that has coefficients.               *)
ReconstructBlocks(j) ==
  LET quantizer == Quantizer(j.y_ac_qi)
      factors == IF j.kind = "chroma" THEN quantizer.uv ELSE quantizer.y
      dequantized == IF j.kind = "whole" THEN WithWalsh(yCoefficients, CHOOSE y2 \in y2Coefficients : TRUE, quantizer)
                     ELSE [b \in DOMAIN yCoefficients |-> Dequantized(yCoefficients[b], factors)]
  IN  /\ transformStage = "quantized" /\ transformStage' = "reconstructed"
      /\ rebuilt' = [b \in DOMAIN dequantized |-> InverseDctAdd(dequantized[b], j.predicted)]
      /\ UNCHANGED <<job, yCoefficients, y2Coefficients>>

NextBlocks ==
  /\ transformStage = "reconstructed" /\ transformStage' = "idle"
  /\ job' = {} /\ yCoefficients' = <<>> /\ y2Coefficients' = {} /\ rebuilt' = <<>>

TransformsNext ==
  \/ PredictBlocks \/ NextBlocks
  \/ \E j \in job : EncodeWhole(j) \/ EncodeSubblocks(j) \/ EncodeChroma(j) \/ ReconstructBlocks(j)
-----------------------------------------------------------------------------

(* What an error of one in each coefficient of a block, and of Y2, can add *)
(* up to in a pixel: 15 / 8 of the factor, and a quarter of that of Y2.    *)
Tolerance(j) ==
  LET quantizer == Quantizer(j.y_ac_qi)
  IN  2 * quantizer.y[2] + 2
        + IF j.kind # "whole" THEN 0
          ELSE (IF quantizer.y2[1] > quantizer.y2[2] THEN quantizer.y2[1] ELSE quantizer.y2[2]) \div 4

Coefficients == {block[r][c] : block \in {yCoefficients[b] : b \in DOMAIN yCoefficients} \cup y2Coefficients,
                               r \in 1 .. 4, c \in 1 .. 4}

(* Whatever the picture, what the decoder rebuilds is as near to it as the *)
(* quantizer allows, so no store of 16 bits wrapped around; a coefficient  *)
(* is never more than the longest token, DCT_CAT6, can hold; and where the *)
(* prediction is right nothing is coded.                                   *)
RebuiltIsClose ==
  /\ \A j \in job, b \in DOMAIN rebuilt, r \in 1 .. 4, c \in 1 .. 4 :
       rebuilt[b][r][c] - j.original[b][r][c] \in -Tolerance(j) .. Tolerance(j)
  /\ \A n \in Coefficients : n \in -(67 + 2047) .. 67 + 2047
  /\ \A j \in job : (\A b \in DOMAIN yCoefficients, r \in 1 .. 4, c \in 1 .. 4 : j.original[b][r][c] = j.predicted)
                     => Coefficients \subseteq {0}
=============================================================================
