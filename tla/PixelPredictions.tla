--------------------------- MODULE PixelPredictions ----------------------------
(***************************************************************************)
(* What a prediction makes of the pixels it reads: intra_predict,          *)
(* inter_predict and the six-tap filters of src/decoder/prediction.cc, and *)
(* the extended copy of src/decoder/safe_raster.cc that the encoder's      *)
(* search reads.  Which pixels these are, Reconstruction tells.  Blocks    *)
(* are sequences of rows, of 4 x 4 pixels where the code is for any size.  *)
(* Functions that assembly replaces in a build with SSE2 are modelled by   *)
(* those in C.                                                             *)
(***************************************************************************)
EXTENDS Integers, Sequences

CONSTANTS
  Edges,               \* the pixels around blocks: [left, above, corner, plane], "above" goes on to the right
  ReferencePictures,   \* [width, height, plane, rows]
  SourceBlocks         \* [column, row, x, y]: blocks of 4 x 4 and their vectors, in eighths of a pixel

(* A plane, {} or {<<base, dx, dy>>}, is what the pixels were drawn from:  *)
(* base at the upper left of the block, or of the picture, and dx, dy more *)
(* from one pixel to the next.                                             *)
PlaneAt(plane, x, y) == plane[1] + plane[2] * x + plane[3] * y

VARIABLE predictedBlock  \* {}, or that of the last prediction and what it was made from

BlockModes == {"B_DC_PRED", "B_TM_PRED", "B_VE_PRED", "B_HE_PRED", "B_LD_PRED", "B_RD_PRED",
               "B_VR_PRED", "B_VL_PRED", "B_HD_PRED", "B_HU_PRED"}
WholeModes4 == {"DC_PRED", "V_PRED", "H_PRED", "TM_PRED"}

Pixels4 == {<<x, y>> : x \in 0 .. 3, y \in 0 .. 3}
At4(block, p) == block[p[2] + 1][p[1] + 1]

PredictionsTypeOK ==
  \A p \in predictedBlock :
    /\ p.kind \in {"intra", "inter"}
    /\ \A output \in {p.output, p.other} : \A q \in Pixels4 : At4(output, q) \in 0 .. 255

PredictionsInit == predictedBlock = {}

Block4(Pixel(_, _)) ==
  <<<<Pixel(0, 0), Pixel(1, 0), Pixel(2, 0), Pixel(3, 0)>>, <<Pixel(0, 1), Pixel(1, 1), Pixel(2, 1), Pixel(3, 1)>>,
    <<Pixel(0, 2), Pixel(1, 2), Pixel(2, 2), Pixel(3, 2)>>, <<Pixel(0, 3), Pixel(1, 3), Pixel(2, 3), Pixel(3, 3)>>>>
-----------------------------------------------------------------------------
(* Intra prediction.                                                       *)

ClampToByte(n) == IF n < 0 THEN 0 ELSE IF n > 255 THEN 255 ELSE n

Avg3(x, y, z) == (x + 2 * y + z + 2) \div 4
Avg2(x, y) == (x + y + 1) \div 2

LeftBy(e, i) == e.left[i + 1]
AboveBy(e, i) == IF i = -1 THEN e.corner ELSE e.above[i + 1]

(* From the lower left around the corner.                                  *)
East(e, i) == IF i <= 3 THEN LeftBy(e, 3 - i) ELSE AboveBy(e, i - 5)

SumOf4(pixels) == pixels[1] + pixels[2] + pixels[3] + pixels[4]

DcSimple(e) == (SumOf4(e.above) + SumOf4(e.left) + 4) \div 8

(* dc_predict, which has to do without what the picture does not have.     *)
Dc(e, column, row) ==
  IF column > 0 /\ row > 0 THEN DcSimple(e)
  ELSE IF row > 0 THEN (SumOf4(e.above) + 2) \div 4
  ELSE IF column > 0 THEN (SumOf4(e.left) + 2) \div 4
  ELSE 128

TrueMotion(e, x, y) == ClampToByte(LeftBy(e, y) + AboveBy(e, x) - e.corner)

WholePrediction(mode, e, column, row) ==
  LET Pixel(x, y) == CASE mode = "DC_PRED" -> Dc(e, column, row)
                       [] mode = "V_PRED" -> AboveBy(e, x)
                       [] mode = "H_PRED" -> LeftBy(e, y)
                       [] mode = "TM_PRED" -> TrueMotion(e, x, y)
  IN  Block4(Pixel)

(* Three in a row, from the first.                                         *)
AboveAvg3(e, i) == Avg3(AboveBy(e, i), AboveBy(e, i + 1), AboveBy(e, i + 2))
AboveAvg2(e, i) == Avg2(AboveBy(e, i), AboveBy(e, i + 1))
EastAvg3(e, i) == Avg3(East(e, i), East(e, i + 1), East(e, i + 2))
EastAvg2(e, i) == Avg2(East(e, i), East(e, i + 1))

VerticalSmoothed(e, x) == AboveAvg3(e, x - 1)

(* The last row has nothing below it.                                      *)
HorizontalSmoothed(e, y) == IF y = 3 THEN Avg3(LeftBy(e, 2), LeftBy(e, 3), LeftBy(e, 3)) ELSE EastAvg3(e, 2 - y)

LeftDown(e, x, y) == IF x + y = 6 THEN Avg3(AboveBy(e, 6), AboveBy(e, 7), AboveBy(e, 7)) ELSE AboveAvg3(e, x + y)

RightDown(e, x, y) == EastAvg3(e, 3 - y + x)

(* Starts every second row one pixel too far.                              *)
MutantVerticalRight(e, x, y) ==
  IF x < y \div 2 THEN EastAvg3(e, 4 - y)
  ELSE IF y % 2 = 0 THEN EastAvg2(e, 4 + x - y \div 2) ELSE EastAvg3(e, 4 + x - y \div 2)

VerticalRight(e, x, y) ==
  IF x < y \div 2 THEN EastAvg3(e, 4 - y)
  ELSE IF y % 2 = 0 THEN EastAvg2(e, 4 + x - y \div 2) ELSE EastAvg3(e, 3 + x - y \div 2)

(* Two of the last column go on to the right instead of down.              *)
VerticalLeft(e, x, y) ==
  IF x = 3 /\ y >= 2 THEN AboveAvg3(e, y + 2)
  ELSE IF y % 2 = 0 THEN AboveAvg2(e, x + y \div 2) ELSE AboveAvg3(e, x + y \div 2)

HorizontalDown(e, x, y) ==
  IF y < x \div 2 THEN EastAvg3(e, 2 + x)
  ELSE IF x % 2 = 0 THEN EastAvg2(e, 3 - y + x \div 2) ELSE EastAvg3(e, 3 - y + x \div 2)

HorizontalUp(e, x, y) ==
  LET i == y + x \div 2
  IN  CASE x + 2 * y > 5 -> LeftBy(e, 3)
        [] x + 2 * y = 5 -> Avg3(LeftBy(e, 2), LeftBy(e, 3), LeftBy(e, 3))
        [] x + 2 * y < 5 /\ x % 2 = 0 -> Avg2(LeftBy(e, i), LeftBy(e, i + 1))
        [] OTHER -> Avg3(LeftBy(e, i), LeftBy(e, i + 1), LeftBy(e, i + 2))

SubblockPrediction(mode, e) ==
  LET Pixel(x, y) == CASE mode = "B_DC_PRED" -> DcSimple(e)
                       [] mode = "B_TM_PRED" -> TrueMotion(e, x, y)
                       [] mode = "B_VE_PRED" -> VerticalSmoothed(e, x)
                       [] mode = "B_HE_PRED" -> HorizontalSmoothed(e, y)
                       [] mode = "B_LD_PRED" -> LeftDown(e, x, y)
                       [] mode = "B_RD_PRED" -> RightDown(e, x, y)
                       [] mode = "B_VR_PRED" -> VerticalRight(e, x, y)
                       [] mode = "B_VL_PRED" -> VerticalLeft(e, x, y)
                       [] mode = "B_HD_PRED" -> HorizontalDown(e, x, y)
                       [] mode = "B_HU_PRED" -> HorizontalUp(e, x, y)
  IN  Block4(Pixel)
-----------------------------------------------------------------------------
(* Inter prediction.                                                       *)

sixtap_filters ==
  <<<<0, 0, 128, 0, 0, 0>>, <<0, -6, 123, 12, -1, 0>>, <<2, -11, 108, 36, -8, 1>>, <<0, -9, 93, 50, -6, 0>>,
    <<3, -16, 77, 77, -16, 3>>, <<0, -6, 50, 93, -9, 0>>, <<1, -8, 36, 108, -11, 2>>, <<0, -1, 12, 123, -6, 0>>>>

SixTaps(n, a, b, c, d, e, f) ==
  LET taps == sixtap_filters[n + 1]
  IN  ClampToByte((a * taps[1] + b * taps[2] + c * taps[3] + d * taps[4] + e * taps[5] + f * taps[6] + 64) \div 128)

PictureAt(picture, x, y) == picture.rows[y + 1][x + 1]

BoundedBy(n, length) == IF n < 0 THEN 0 ELSE IF n > length - 1 THEN length - 1 ELSE n

EdgeExtended(picture, x, y) == PictureAt(picture, BoundedBy(x, picture.width), BoundedBy(y, picture.height))

(* copy_raster: nine areas, of which the picture is the middle.            *)
InSafeRaster(picture, x, y) ==
  LET x_area == CASE x < 0 -> 0 [] x >= picture.width -> picture.width - 1 [] OTHER -> x
      y_area == CASE y < 0 -> 0 [] y >= picture.height -> picture.height - 1 [] OTHER -> y
  IN  PictureAt(picture, x_area, y_area)

(* Rows of four pixels filtered across, and blocks of rows filtered down.  *)
AcrossRow(Pixel(_, _), n, x, y) ==
  LET Filter(c) == SixTaps(n, Pixel(c - 2, y), Pixel(c - 1, y), Pixel(c, y), Pixel(c + 1, y), Pixel(c + 2, y), Pixel(c + 3, y))
  IN  <<Filter(x), Filter(x + 1), Filter(x + 2), Filter(x + 3)>>

DownRows(rows, n) ==
  LET Pixel(c, r) == SixTaps(n, rows[r + 1][c + 1], rows[r + 2][c + 1], rows[r + 3][c + 1],
                                rows[r + 4][c + 1], rows[r + 5][c + 1], rows[r + 6][c + 1])
  IN  Block4(Pixel)

(* A row above the first to one below the last, from two above to three.   *)
NineRows(Row(_), y) ==
  <<Row(y - 2), Row(y - 1), Row(y), Row(y + 1), Row(y + 2), Row(y + 3), Row(y + 4), Row(y + 5), Row(y + 6)>>

SourceX(block) == 4 * block.column + block.x \div 8
SourceY(block) == 4 * block.row + block.y \div 8

(* safe_inter_predict, of the decoder, near an edge; and what              *)
(* unsafe_inter_predict does in C.                                         *)
SafePrediction(picture, block) ==
  LET x == SourceX(block)
      y == SourceY(block)
      Pixel(c, r) == EdgeExtended(picture, c, r)
      Whole(c, r) == Pixel(x + c, y + r)
      Row(r) == AcrossRow(Pixel, block.x % 8, x, r)
  IN  IF block.x % 8 = 0 /\ block.y % 8 = 0 THEN Block4(Whole) ELSE DownRows(NineRows(Row, y), block.y % 8)

(* inter_predict from a SafeRaster, of the encoder's search: it filters    *)
(* only across, or only down, where that is enough.                        *)
SearchPrediction(picture, block) ==
  LET x == SourceX(block)
      y == SourceY(block)
      Pixel(c, r) == InSafeRaster(picture, c, r)
      Whole(c, r) == Pixel(x + c, y + r)
      Row(r) == AcrossRow(Pixel, block.x % 8, x, r)
      Unfiltered(r) == <<Pixel(x, r), Pixel(x + 1, r), Pixel(x + 2, r), Pixel(x + 3, r)>>
  IN  IF block.x % 8 = 0 /\ block.y % 8 = 0 THEN Block4(Whole)
      ELSE IF block.y % 8 = 0 THEN <<Row(y), Row(y + 1), Row(y + 2), Row(y + 3)>>
      ELSE IF block.x % 8 = 0 THEN DownRows(NineRows(Unfiltered, y), block.y % 8)
      ELSE DownRows(NineRows(Row, y), block.y % 8)
-----------------------------------------------------------------------------

(* What is predicted next has nothing to do with what was.                 *)
Forget == predictedBlock # {} /\ predictedBlock' = {}

(* The same pixels, with rows for columns.                                 *)
Mirrored(e) ==
  [e EXCEPT !.left = SubSeq(e.above, 1, 4), !.above = e.left \o <<e.left[4], e.left[4], e.left[4], e.left[4]>>]

MirrorMode(mode) ==
  CASE mode = "B_VR_PRED" -> "B_HD_PRED" [] mode = "B_HD_PRED" -> "B_VR_PRED"
    [] mode = "V_PRED" -> "H_PRED" [] mode = "H_PRED" -> "V_PRED" [] OTHER -> mode

(* Block4::intra_predict; "other" is the prediction of the mirrored block. *)
PredictSubblock4 ==
  /\ predictedBlock = {}
  /\ \E mode \in BlockModes, e \in Edges :
       predictedBlock' = {[kind |-> "intra", mode |-> mode, edges |-> e, output |-> SubblockPrediction(mode, e),
                           other |-> SubblockPrediction(MirrorMode(mode), Mirrored(e))]}

(* predictors(), at the left or at the top of the picture or inside it.    *)
EdgesAt(e, column, row) ==
  [left |-> IF column > 0 THEN e.left ELSE <<129, 129, 129, 129>>,
   above |-> IF row > 0 THEN e.above ELSE <<127, 127, 127, 127, 127, 127, 127, 127>>,
   corner |-> IF column > 0 /\ row > 0 THEN e.corner ELSE IF row > 0 THEN 129 ELSE 127,
   plane |-> IF column > 0 /\ row > 0 THEN e.plane ELSE {}]

(* Block8 and Block16::intra_predict.                                      *)
PredictWhole ==
  /\ predictedBlock = {}
  /\ \E mode \in WholeModes4, column \in {0, 1}, row \in {0, 1} : \E e \in {EdgesAt(around, column, row) : around \in Edges} :
       predictedBlock' = {[kind |-> "intra", mode |-> mode, edges |-> e,
                           output |-> WholePrediction(mode, e, column, row),
                           other |-> WholePrediction(MirrorMode(mode), Mirrored(e), row, column)]}

(* inter_predict; "other" is what the encoder's search saw.                *)
PredictInter ==
  /\ predictedBlock = {}
  /\ \E picture \in ReferencePictures, block \in SourceBlocks :
       predictedBlock' = {[kind |-> "inter", picture |-> picture, block |-> block,
                           output |-> SafePrediction(picture, block), other |-> SearchPrediction(picture, block)]}

PredictionsNext == PredictSubblock4 \/ PredictWhole \/ PredictInter \/ Forget
-----------------------------------------------------------------------------

(* By how much dx and dy change along the direction of a mode is zero.     *)
Follows(mode, dx, dy) ==
  CASE mode = "B_TM_PRED" \/ mode = "TM_PRED" -> TRUE
    [] mode = "B_VE_PRED" \/ mode = "V_PRED" -> dy = 0
    [] mode = "B_HE_PRED" \/ mode = "H_PRED" -> dx = 0
    [] mode = "B_LD_PRED" -> dx = dy
    [] mode = "B_RD_PRED" -> dx + dy = 0
    [] mode = "B_VR_PRED" -> dx + 2 * dy = 0
    [] mode = "B_VL_PRED" -> dx = 2 * dy
    [] mode = "B_HD_PRED" -> 2 * dx + dy = 0
    [] mode = "B_HU_PRED" -> 2 * dx = dy
    [] OTHER -> dx = 0 /\ dy = 0

(* Pixels for which the mode has no more neighbours, or is irregular.      *)
Exempt(mode) ==
  CASE mode = "B_HE_PRED" -> {0, 1, 2, 3} \X {3}
    [] mode = "B_LD_PRED" -> {<<3, 3>>}
    [] mode = "B_VL_PRED" -> {<<3, 2>>, <<3, 3>>}
    [] mode = "B_HU_PRED" -> {q \in Pixels4 : q[1] + 2 * q[2] > 4}
    [] OTHER -> {}

(* A mode continues the picture in its direction, to within a rounding,    *)
(* never leaves the range of its neighbours, unless it is TM_PRED, and     *)
(* treats rows and columns alike.                                          *)
IntraIsRight(p) ==
  LET neighbours == {p.edges.left[i] : i \in 1 .. 4} \cup {p.edges.above[i] : i \in 1 .. 8} \cup {p.edges.corner, 128}
  IN  /\ \A plane \in p.edges.plane : Follows(p.mode, plane[2], plane[3]) /\ p.mode # "DC_PRED" =>
           \A q \in Pixels4 \ Exempt(p.mode) : At4(p.output, q) - PlaneAt(plane, q[1], q[2]) \in -1 .. 1
      /\ p.mode \notin {"B_TM_PRED", "TM_PRED"} =>
           \A q \in Pixels4 : (\E n \in neighbours : n <= At4(p.output, q)) /\ (\E n \in neighbours : n >= At4(p.output, q))
      /\ p.mode \notin {"B_VE_PRED", "B_HE_PRED", "B_LD_PRED", "B_VL_PRED", "B_HU_PRED"} =>
           \A q \in Pixels4 : At4(p.output, q) = At4(p.other, <<q[2], q[1]>>)

(* The encoder's search sees what the decoder will predict, for every      *)
(* vector, also outside the picture; and a vector moves the picture by the *)
(* eighths of a pixel it says, to within a rounding.                       *)
InterIsRight(p) ==
  LET x == SourceX(p.block)
      y == SourceY(p.block)
      Inside == x >= 2 /\ y >= 2 /\ x + 7 <= p.picture.width /\ y + 7 <= p.picture.height
  IN  /\ p.output = p.other
      /\ \A plane \in p.picture.plane : Inside =>
           \A q \in Pixels4 :
             8 * At4(p.output, q) - (8 * PlaneAt(plane, 4 * p.block.column + q[1], 4 * p.block.row + q[2])
                                      + plane[2] * p.block.x + plane[3] * p.block.y) \in -8 .. 8

PredictionsAreRight == \A p \in predictedBlock : IF p.kind = "intra" THEN IntraIsRight(p) ELSE InterIsRight(p)
=============================================================================
