---------------------------- MODULE Reconstruction -----------------------------
(***************************************************************************)
(* Which pixels are read while a frame is decoded: decode and loopfilter of*)
(* src/decoder/frame.cc, reconstruct_intra and reconstruct_inter of        *)
(* src/decoder/macroblock.cc, the predictors and inter_predict of          *)
(* src/decoder/prediction.cc, EdgeExtendedRaster and SafeRaster of         *)
(* src/decoder/vp8_raster.hh and the filter of src/decoder/loopfilter.cc.  *)
(* The picture is made in a raster of a pool, in which an older picture is *)
(* left.  Pixel values are left out; planes U and V are one, "UV".         *)
(***************************************************************************)
EXTENDS Integers, FiniteSets

CONSTANTS
  PictureColumns, PictureRows,  \* macroblocks, bounds of the model
  Vectors                       \* motion vectors, <<x, y>> in eighths of a pixel

ASSUME ReconstructionAssumption ==
  /\ PictureColumns \in Nat \ {0} /\ PictureRows \in Nat \ {0}
  /\ Vectors \subseteq Int \X Int
  /\ \A mv \in Vectors : \A k \in 1 .. 2 : -32768 <= mv[k] /\ mv[k] <= 32767

VARIABLES
  stage,          \* "predict", "B_PRED", "SPLITMV" or "filter"
  macroblock,     \* the macroblock that is decoded, from 0
  subblock,       \* the next subblock, or quarter, of one decoded in parts
  written,        \* per plane, the 4x4 blocks this frame has written
  predictors,     \* pixels of this picture the last prediction read, each with its plane
  window          \* windows the last step read, of any plane

reconstructionVars == <<stage, macroblock, subblock, written, predictors, window>>

Planes == {"Y", "UV"}
Widest(plane) == (IF plane = "Y" THEN 16 ELSE 8) * PictureColumns
Highest(plane) == (IF plane = "Y" THEN 16 ELSE 8) * PictureRows
MARGIN_WIDTH == 256

(* Pixels first[1] .. last[1] of rows first[2] .. last[2].                 *)
PixelWindow(plane, first, last) == [plane |-> plane, first |-> first, last |-> last]

ReconstructionTypeOK ==
  /\ stage \in {"predict", "B_PRED", "SPLITMV", "filter"}
  /\ macroblock \in 0 .. PictureColumns * PictureRows
  /\ subblock \in 0 .. 15 /\ (stage \in {"predict", "filter"} => subblock = 0)
  /\ \A plane \in Planes : \A block \in written[plane] :
       4 * block[1] < Widest(plane) /\ 4 * block[2] < Highest(plane)
  /\ stage = "filter" => \A plane \in Planes : 16 * Cardinality(written[plane]) = Widest(plane) * Highest(plane)

ReconstructionInit ==
  /\ stage = "predict" /\ macroblock = 0 /\ subblock = 0
  /\ written = [plane \in Planes |-> {}]
  /\ predictors = {} /\ window = {}

Column == macroblock % PictureColumns
Row == macroblock \div PictureColumns

(* The 4x4 blocks of a block of that size.                                 *)
Blocks4(size, column, row) ==
  LET n == size \div 4 IN (n * column .. n * column + n - 1) \X (n * row .. n * row + n - 1)
-----------------------------------------------------------------------------
(* predictors().                                                           *)

PixelsLeft(size, column, row) ==
  IF column > 0 THEN {size * column - 1} \X (size * row .. size * row + size - 1) ELSE {}
PixelsAbove(size, column, row) ==
  IF row > 0 THEN (size * column .. size * column + size - 1) \X {size * row - 1} ELSE {}
PixelAboveLeft(size, column, row) ==
  IF column > 0 /\ row > 0 THEN {<<size * column - 1, size * row - 1>>} ELSE {}

(* Takes those to the right of every subblock from the row above it.       *)
MutantAboveRight(column, row) ==
  IF row = 0 \/ 4 * (column + 1) >= Widest("Y") THEN {}
  ELSE (4 * (column + 1) .. 4 * (column + 1) + 3) \X {4 * row - 1}

(* Of 4x4 subblocks only.  At the right of a macroblock, or of the picture,*)
(* they are of the row above the macroblock.                               *)
AboveRight(column, row) ==
  LET above_macroblock == (4 * ((row \div 4) * 4)) - 1
      next == 4 * (column + 1) .. 4 * (column + 1) + 3
  IN  IF row = 0 THEN {}
      ELSE IF 4 * (column + 1) >= Widest("Y")
           THEN IF row >= 4 THEN {<<4 * (column + 1) - 1, above_macroblock>>} ELSE {}
      ELSE IF column % 4 = 3 /\ row % 4 # 0
           THEN IF row >= 4 THEN next \X {above_macroblock} ELSE {}
      ELSE next \X {4 * row - 1}

Predictors(plane, size, column, row) ==
  {plane} \X (PixelsLeft(size, column, row) \cup PixelsAbove(size, column, row) \cup PixelAboveLeft(size, column, row)
              \cup IF size = 4 THEN AboveRight(column, row) ELSE {})
-----------------------------------------------------------------------------
(* inter_predict.                                                          *)

Bounded(n, size) == IF n < 0 THEN 0 ELSE IF n > size - 1 THEN size - 1 ELSE n

(* Along one side of the picture.                                          *)
NearEdge(source, size, length) == source - 2 < 0 \/ source + size + 3 > length

(* What a block at source is predicted from, with six taps unless the      *)
(* vector is a whole number of pixels.  (With SSE2, a direction whose part *)
(* is whole takes fewer.)                                                  *)
Taps(plane, size, source, mv) ==
  IF mv[1] % 8 = 0 /\ mv[2] % 8 = 0
  THEN PixelWindow(plane, source, <<source[1] + size - 1, source[2] + size - 1>>)
  ELSE PixelWindow(plane, <<source[1] - 2, source[2] - 2>>, <<source[1] + size + 2, source[2] + size + 2>>)

Source(size, column, row, mv) == <<column * size + (mv[1] \div 8), row * size + (mv[2] \div 8)>>

InterPredict(plane, size, column, row, mv) ==
  LET source == Source(size, column, row, mv)
      taps == Taps(plane, size, source, mv)
      Extended(p) == <<Bounded(p[1], Widest(plane)), Bounded(p[2], Highest(plane))>>
  IN  IF NearEdge(source[1], size, Widest(plane)) \/ NearEdge(source[2], size, Highest(plane))
      THEN [taps EXCEPT !.first = Extended(@), !.last = Extended(@)]
      ELSE taps

Int16(n) == ((n + 32768) % 65536) - 32768

(* luma_to_chroma, of one component: a 16-bit sum, rounded away from zero. *)
Chroma(sum) == LET x == Int16(sum) IN IF x >= 0 THEN (x + 4) \div 8 ELSE -((-x + 4) \div 8)

LumaToChroma(v) ==
  <<Chroma(v[1][1] + v[2][1] + v[3][1] + v[4][1]), Chroma(v[1][2] + v[2][2] + v[3][2] + v[4][2])>>
-----------------------------------------------------------------------------

Finished == IF macroblock + 1 = PictureColumns * PictureRows THEN "filter" ELSE "predict"

NextMacroblock ==
  /\ macroblock' = (macroblock + 1) % (PictureColumns * PictureRows)
  /\ stage' = Finished /\ subblock' = 0

WriteBlocks(luma, chroma) == written' = [written EXCEPT !["Y"] = @ \cup luma, !["UV"] = @ \cup chroma]

(* reconstruct_intra, of a macroblock predicted as a whole.                *)
ReconstructIntra ==
  /\ stage = "predict"
  /\ predictors' = Predictors("UV", 8, Column, Row) \cup Predictors("Y", 16, Column, Row)
  /\ WriteBlocks(Blocks4(16, Column, Row), Blocks4(8, Column, Row))
  /\ window' = {}
  /\ NextMacroblock

(* The chroma of one whose subblocks are predicted one by one.             *)
StartSubblocks ==
  /\ stage = "predict"
  /\ predictors' = Predictors("UV", 8, Column, Row)
  /\ WriteBlocks({}, Blocks4(8, Column, Row))
  /\ stage' = "B_PRED"
  /\ window' = {}
  /\ UNCHANGED <<macroblock, subblock>>

PredictSubblock ==
  LET column == 4 * Column + (subblock % 4)
      row == 4 * Row + (subblock \div 4)
  IN  /\ stage = "B_PRED"
      /\ predictors' = Predictors("Y", 4, column, row)
      /\ WriteBlocks({<<column, row>>}, {})
      /\ window' = {}
      /\ IF subblock = 15 THEN NextMacroblock
         ELSE subblock' = subblock + 1 /\ UNCHANGED <<stage, macroblock>>

(* reconstruct_inter, with one vector.                                     *)
ReconstructInter(mv) ==
  /\ stage = "predict"
  /\ window' = {InterPredict("Y", 16, Column, Row, mv),
                InterPredict("UV", 8, Column, Row, LumaToChroma([i \in 1 .. 4 |-> mv]))}
  /\ WriteBlocks(Blocks4(16, Column, Row), Blocks4(8, Column, Row))
  /\ predictors' = {}
  /\ NextMacroblock

StartSplit ==
  /\ stage = "predict" /\ stage' = "SPLITMV"
  /\ UNCHANGED <<macroblock, subblock, written, predictors, window>>

(* Four subblocks of luma and the one of chroma they cover.                *)
PredictQuarter(v) ==
  LET column == 2 * Column + (subblock % 2)
      row == 2 * Row + (subblock \div 2)
  IN  /\ stage = "SPLITMV"
      /\ window' = {InterPredict("UV", 4, column, row, LumaToChroma(v))}
                   \cup {InterPredict("Y", 4, 2 * column + ((i - 1) % 2), 2 * row + ((i - 1) \div 2), v[i]) : i \in 1 .. 4}
      /\ WriteBlocks(Blocks4(8, column, row), {<<column, row>>})
      /\ predictors' = {}
      /\ IF subblock = 3 THEN NextMacroblock
         ELSE subblock' = subblock + 1 /\ UNCHANGED <<stage, macroblock>>

(* diamond_search looks at a vector in a raster with a margin around it;   *)
(* Scorer::clamp.                                                          *)
SearchAt(mv) ==
  LET Within(n, at, length) == LET low == -at * 128 - 128
                                   high == (length - 1 - at) * 128 + 128
                               IN  IF n < low THEN low ELSE IF n > high THEN high ELSE n
      this_mv == <<Within(mv[1], Column, PictureColumns), Within(mv[2], Row, PictureRows)>>
  IN  /\ stage = "predict"
      /\ window' = {Taps("margin", 16, Source(16, Column, Row, this_mv), this_mv)}
      /\ predictors' = {}
      /\ UNCHANGED <<stage, macroblock, subblock, written>>

(* NormalLoopFilter::filter: four pixels on each side of an edge.          *)
EdgeWindows(plane, size, skip_subblock_edges) ==
  LET x == size * Column
      y == size * Row
      inside == IF skip_subblock_edges THEN {} ELSE {n \in 4 .. size - 1 : n % 4 = 0}
      Vertical(n) == PixelWindow(plane, <<x + n - 4, y>>, <<x + n + 3, y + size - 1>>)
      Horizontal(n) == PixelWindow(plane, <<x, y + n - 4>>, <<x + size - 1, y + n + 3>>)
  IN  {Vertical(n) : n \in inside \cup IF Column > 0 THEN {0} ELSE {}}
      \cup {Horizontal(n) : n \in inside \cup IF Row > 0 THEN {0} ELSE {}}

FilterMacroblock(filter_level, skip_subblock_edges) ==
  /\ stage = "filter"
  /\ window' = IF filter_level = 0 THEN {}
               ELSE EdgeWindows("Y", 16, skip_subblock_edges) \cup EdgeWindows("UV", 8, skip_subblock_edges)
  /\ macroblock' = macroblock + 1
  /\ stage' = IF macroblock' = PictureColumns * PictureRows THEN "predict" ELSE stage
  /\ predictors' = {}
  /\ UNCHANGED <<subblock, written>>

(* The picture is a reference now; the next frame has another raster.      *)
NextFrame ==
  /\ stage = "predict" /\ macroblock = PictureColumns * PictureRows
  /\ macroblock' = 0 /\ written' = [plane \in Planes |-> {}]
  /\ predictors' = {} /\ window' = {}
  /\ UNCHANGED <<stage, subblock>>

DecodeNext ==
  /\ macroblock < PictureColumns * PictureRows
  /\ \/ ReconstructIntra \/ StartSubblocks \/ PredictSubblock \/ StartSplit
     \/ \E mv \in Vectors : ReconstructInter(mv) \/ SearchAt(mv)
     \/ \E v \in [1 .. 4 -> Vectors] : PredictQuarter(v)

ReconstructionNext ==
  \/ DecodeNext \/ NextFrame
  \/ \E filter_level \in {0, 1}, skip \in BOOLEAN : FilterMacroblock(filter_level, skip)
-----------------------------------------------------------------------------

(* What is predicted from this picture is predicted from what this frame   *)
(* has written, and never from the older picture in the same raster: the   *)
(* decoders at the two ends, whose rasters come from pools, would differ.  *)
(* A frame that is decoded to the end has written the whole picture.       *)
PredictsFromWritten ==
  [][\A read \in predictors' :
       <<read[2][1] \div 4, read[2][2] \div 4>> \in written[read[1]]]_reconstructionVars

InsidePlane(w) ==
  LET margin == IF w.plane = "margin" THEN MARGIN_WIDTH ELSE 0
      plane == IF w.plane = "margin" THEN "Y" ELSE w.plane
  IN  /\ \A k \in 1 .. 2 : -margin <= w.first[k] /\ w.first[k] <= w.last[k]
      /\ w.last[1] < Widest(plane) + margin /\ w.last[2] < Highest(plane) + margin

(* No window of a reference, of the raster with a margin that is searched, *)
(* or of the loop filter goes beyond the plane, whatever the vector, though*)
(* the fast paths do not look.                                             *)
ReadsInsidePlanes == \A w \in window : InsidePlane(w)

(* Every prediction reads pixels that exist and belong to the picture they *)
(* should.                                                                 *)
PredictsFromThisPicture == PredictsFromWritten /\ []ReadsInsidePlanes
=============================================================================
