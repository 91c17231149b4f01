------------------------------ MODULE LoopFilter -------------------------------
(***************************************************************************)
(* The in-loop deblocking filter: loopfilter of src/decoder/frame.cc and of*)
(* src/decoder/macroblock.cc, src/decoder/loopfilter.cc and the arithmetic *)
(* of src/decoder/loopfilter_filters.hh, on one plane of chroma, whose     *)
(* macroblocks have 8 x 8 pixels: what the functions named _c do, which    *)
(* assembly replaces in a build with SSE2.                                 *)
(***************************************************************************)
EXTENDS Integers, Sequences, SequencesExt

CONSTANTS
  FilterHeaders,       \* frame headers, with the segmentation and the adjustments of the state
  FilteredMacroblocks, \* what macroblocks tell the filter
  FlatPictures         \* pictures to filter: [0 .. 1 -> [0 .. 1 -> [0 .. 1 -> pixel]]], of row, column and half

VARIABLES
  filterHeader,
  unfiltered,          \* the picture's flat halves of macroblocks
  filteredPixels,      \* {} before the first frame, or {[row -> [column -> pixel]]}
  filteredBlocks,      \* the macroblocks filtered so far
  filterOutcome        \* "filtering" or "Unsupported"

loopFilterVars == <<filterHeader, unfiltered, filteredPixels, filteredBlocks, filterOutcome>>

Byte == 0 .. 255
BlockDimension == 8
Side == 0 .. 2 * BlockDimension - 1

LoopFilterTypeOK ==
  /\ filterHeader \in FilterHeaders
  /\ unfiltered \in FlatPictures
  /\ \A pixels \in filteredPixels : \A y \in Side, x \in Side : pixels[y][x] \in Byte
  /\ Len(filteredBlocks) <= 4 /\ ToSet(filteredBlocks) \subseteq FilteredMacroblocks
  /\ filterOutcome \in {"filtering", "Unsupported"}

(* Every half of a macroblock is flat, as after a prediction from its DC.  *)
Drawn(blocks) ==
  [y \in Side |-> [x \in Side |->
     blocks[y \div BlockDimension][x \div BlockDimension][(x % BlockDimension) \div 4]]]

LoopFilterInit ==
  /\ filterHeader = (CHOOSE h \in FilterHeaders : TRUE)
  /\ unfiltered = (CHOOSE p \in FlatPictures : TRUE)
  /\ filteredPixels = {}
  /\ filteredBlocks = <<>> /\ filterOutcome = "filtering"
-----------------------------------------------------------------------------
(* The level of a macroblock.                                              *)

SegmentLevel(header, segment_id) ==
  IF header.segmentation = {} THEN header.loop_filter_level
  ELSE LET s == CHOOSE s \in header.segmentation : TRUE
       IN  s.adjustments[segment_id] + IF s.absolute THEN 0 ELSE header.loop_filter_level

(* mode_adjustment.                                                        *)
ModeAdjustment(adjustments, mb) ==
  CASE mb.reference = "CURRENT_FRAME" -> IF mb.mode = "B_PRED" THEN adjustments[0] ELSE 0
    [] mb.reference # "CURRENT_FRAME" /\ mb.mode = "ZEROMV" -> adjustments[1]
    [] mb.reference # "CURRENT_FRAME" /\ mb.mode = "SPLITMV" -> adjustments[3]
    [] OTHER -> adjustments[2]

MacroblockLevel(header, mb) ==
  SegmentLevel(header, mb.segment_id)
    + IF header.adjustments = {} THEN 0
      ELSE LET a == CHOOSE a \in header.adjustments : TRUE
           IN  a.ref[mb.reference] + ModeAdjustment(a.mode, mb)

Clamp63(level) == IF level > 63 THEN 63 ELSE IF level < 0 THEN 0 ELSE level

(* SimpleLoopFilter and NormalLoopFilter: what a level means.  The limits  *)
(* are bytes.                                                              *)
FilterLimits(header, unclamped) ==
  LET level == Clamp63(unclamped)
      sharp == header.sharpness_level
      shifted == IF sharp = 0 THEN level ELSE IF sharp > 4 THEN level \div 4 ELSE level \div 2
      sharpened == IF sharp > 0 /\ shifted > 9 - sharp THEN 9 - sharp ELSE shifted
      interior == IF sharpened < 1 THEN 1 ELSE sharpened
  IN  [interior |-> interior,
       macroblock |-> ((level + 2) * 2 + interior) % 256,
       subblock |-> (level * 2 + interior) % 256,
       hev |-> (IF level >= 15 THEN 1 ELSE 0) + (IF level >= 40 THEN 1 ELSE 0)
               + (IF level >= 20 /\ ~header.key_frame THEN 1 ELSE 0)]
-----------------------------------------------------------------------------
(* One line of pixels across an edge: p3 .. p0 are line[1] .. line[4], and *)
(* q0 .. q3 are line[5] .. line[8].                                        *)

Apart(a, b) == IF a > b THEN a - b ELSE b - a

Int8(n) == ((n + 128) % 256) - 128

(* Lets a difference of pixels wrap around.                                *)
MutantSignedCharClamp(t) == Int8(t)

SignedCharClamp(t) == Int8(IF t < -128 THEN -128 ELSE IF t > 127 THEN 127 ELSE t)

FilterMask(limit, blimit, line) ==
  /\ \A k \in {1, 2, 3, 5, 6, 7} : Apart(line[k], line[k + 1]) <= limit
  /\ Apart(line[4], line[5]) * 2 + Apart(line[3], line[6]) \div 2 <= blimit

HighEdgeVariance(thresh, line) == Apart(line[3], line[4]) > thresh \/ Apart(line[6], line[5]) > thresh

Signed(line, k) == line[k] - 128
Moved(line, k, by) == SignedCharClamp(Signed(line, k) + by) + 128

(* vp8_filter, where the mask is set; where it is not, nothing changes.    *)
SubblockEdge(hev, line) ==
  LET outer == IF hev THEN SignedCharClamp(Signed(line, 3) - Signed(line, 6)) ELSE 0
      value == SignedCharClamp(outer + 3 * (Signed(line, 5) - Signed(line, 4)))
      Filter1 == SignedCharClamp(value + 4) \div 8
      Filter2 == SignedCharClamp(value + 3) \div 8
      tap == IF hev THEN 0 ELSE (Filter1 + 1) \div 2
  IN  [line EXCEPT ![3] = Moved(line, 3, tap), ![4] = Moved(line, 4, Filter2),
                   ![5] = Moved(line, 5, -Filter1), ![6] = Moved(line, 6, -tap)]

(* vp8_mbfilter: three pixels on each side, or one at a real edge.         *)
MacroblockEdge(hev, line) ==
  LET value == SignedCharClamp(SignedCharClamp(Signed(line, 3) - Signed(line, 6))
                               + 3 * (Signed(line, 5) - Signed(line, 4)))
      Filter1 == SignedCharClamp(value + 4) \div 8
      Filter2 == SignedCharClamp(value + 3) \div 8
      Part(weight) == SignedCharClamp((63 + value * weight) \div 128)
  IN  IF hev
      THEN [line EXCEPT ![4] = Moved(line, 4, Filter2), ![5] = Moved(line, 5, -Filter1)]
      ELSE [line EXCEPT ![2] = Moved(line, 2, Part(9)), ![3] = Moved(line, 3, Part(18)), ![4] = Moved(line, 4, Part(27)),
                        ![5] = Moved(line, 5, -Part(27)), ![6] = Moved(line, 6, -Part(18)), ![7] = Moved(line, 7, -Part(9))]
-----------------------------------------------------------------------------
(* NormalLoopFilter::filter: the four passes over a macroblock, each of    *)
(* which reads what those before it wrote.                                 *)

FilteredLine(limits, whole, line) ==
  LET hev == HighEdgeVariance(limits.hev, line)
  IN  IF whole THEN MacroblockEdge(hev, line) ELSE SubblockEdge(hev, line)

AcrossEdge(limits, whole, line) ==
  FilterMask(limits.interior, IF whole THEN limits.macroblock ELSE limits.subblock, line)

(* A line from the left to the right across the edge at column x.          *)
RowAcross(p, limits, whole, x, y) ==
  LET line == <<p[y][x - 4], p[y][x - 3], p[y][x - 2], p[y][x - 1], p[y][x], p[y][x + 1], p[y][x + 2], p[y][x + 3]>>
      new == FilteredLine(limits, whole, line)
  IN  IF ~AcrossEdge(limits, whole, line) THEN p
      ELSE [p EXCEPT ![y][x - 3] = new[2], ![y][x - 2] = new[3], ![y][x - 1] = new[4],
                     ![y][x] = new[5], ![y][x + 1] = new[6], ![y][x + 2] = new[7]]

(* One from the top to the bottom across the edge at row y.                *)
ColumnAcross(p, limits, whole, x, y) ==
  LET line == <<p[y - 4][x], p[y - 3][x], p[y - 2][x], p[y - 1][x], p[y][x], p[y + 1][x], p[y + 2][x], p[y + 3][x]>>
      new == FilteredLine(limits, whole, line)
  IN  IF ~AcrossEdge(limits, whole, line) THEN p
      ELSE [p EXCEPT ![y - 3][x] = new[2], ![y - 2][x] = new[3], ![y - 1][x] = new[4],
                     ![y][x] = new[5], ![y + 1][x] = new[6], ![y + 2][x] = new[7]]

Lines == [k \in 1 .. BlockDimension |-> k - 1]

LeftEdge(pixels, limits, x, y) == FoldLeft(LAMBDA p, k : RowAcross(p, limits, TRUE, x, y + k), pixels, Lines)
TopEdge(pixels, limits, x, y) == FoldLeft(LAMBDA p, k : ColumnAcross(p, limits, TRUE, x + k, y), pixels, Lines)
VerticalSubblockEdges(pixels, limits, x, y) ==
  FoldLeft(LAMBDA p, k : RowAcross(p, limits, FALSE, x + 4, y + k), pixels, Lines)
HorizontalSubblockEdges(pixels, limits, x, y) ==
  FoldLeft(LAMBDA p, k : ColumnAcross(p, limits, FALSE, x + k, y + 4), pixels, Lines)

FilteredBlock(pixels, limits, column, row, skip_subblock_edges) ==
  LET x == BlockDimension * column
      y == BlockDimension * row
      one == IF column > 0 THEN LeftEdge(pixels, limits, x, y) ELSE pixels
      two == IF skip_subblock_edges THEN one ELSE VerticalSubblockEdges(one, limits, x, y)
      three == IF row > 0 THEN TopEdge(two, limits, x, y) ELSE two
  IN  IF skip_subblock_edges THEN three ELSE HorizontalSubblockEdges(three, limits, x, y)

SkipsSubblockEdges(mb) == mb.coded /\ ~mb.has_nonzero

(* The next macroblock of the picture, in the order of rows.               *)
FilterBlock(mb) ==
  LET n == Len(filteredBlocks)
      level == MacroblockLevel(filterHeader, mb)
  IN  /\ filteredPixels # {} /\ filterOutcome = "filtering" /\ n < 4 /\ filterHeader.loop_filter_level > 0
      /\ filteredBlocks' = Append(filteredBlocks, mb)
      /\ filterOutcome' = IF level > 0 /\ filterHeader.simple THEN "Unsupported" ELSE "filtering"
      /\ filteredPixels' =
           IF level <= 0 \/ filterHeader.simple THEN filteredPixels
           ELSE {FilteredBlock(pixels, FilterLimits(filterHeader, level), n % 2, n \div 2, SkipsSubblockEdges(mb)) :
                   pixels \in filteredPixels}
      /\ UNCHANGED <<filterHeader, unfiltered>>

(* The next frame; loop_filter_level 0 leaves a frame as it is.            *)
NextFilteredFrame ==
  /\ filteredPixels = {} \/ Len(filteredBlocks) = 4 \/ filterHeader.loop_filter_level = 0 \/ filterOutcome = "Unsupported"
  /\ filterHeader' \in FilterHeaders /\ unfiltered' \in FlatPictures
  /\ filteredPixels' = {Drawn(unfiltered')}
  /\ filteredBlocks' = <<>> /\ filterOutcome' = "filtering"

LoopFilterNext == NextFilteredFrame \/ \E mb \in FilteredMacroblocks : FilterBlock(mb)
-----------------------------------------------------------------------------

(* The row of pixels across the edge between two flat macroblocks.         *)
RampAt(pixels, row) == SubSeq([k \in 1 .. 16 |-> pixels[row][k - 1]], 5, 12)

Flat(block) == block[0] = block[1]

(* Between two flat macroblocks, away from their corners and where no other*)
(* edge is filtered, the filter makes a ramp of the step, or leaves it: it *)
(* never goes beyond the two sides, never turns back, and a filtered step  *)
(* gets smaller.                                                           *)
StepsBecomeRamps ==
  \A pixels \in filteredPixels, right \in {2, 4} : Len(filteredBlocks) >= right =>
    LET row == (right \div 2) - 1
        blocks == unfiltered[row]
        ramp == RampAt(pixels, BlockDimension * row + 4)
        level == MacroblockLevel(filterHeader, filteredBlocks[right])
        limits == FilterLimits(filterHeader, level)
        step == Apart(blocks[0][0], blocks[1][0])
    IN  /\ Flat(blocks[0]) /\ Flat(blocks[1]) /\ filterOutcome = "filtering"
        /\ SkipsSubblockEdges(filteredBlocks[right - 1]) /\ SkipsSubblockEdges(filteredBlocks[right])
        => /\ \/ \A k \in 1 .. 7 : ramp[k] <= ramp[k + 1]
              \/ \A k \in 1 .. 7 : ramp[k] >= ramp[k + 1]
           /\ ramp[1] = blocks[0][0] /\ ramp[8] = blocks[1][0]
           /\ IF level > 0 /\ 2 * step + step \div 2 <= limits.macroblock
              THEN step > 1 => Apart(ramp[4], ramp[5]) < step
              ELSE Apart(ramp[4], ramp[5]) = step

(* Filtering a macroblock leaves alone what is more than three pixels above*)
(* or to the left of it, and all that comes after it: those rows and       *)
(* columns are settled.                                                    *)
FiltersNearby ==
  [][filteredBlocks' # <<>> =>
       LET n == Len(filteredBlocks)
           x == BlockDimension * (n % 2)
           y == BlockDimension * (n \div 2)
       IN  \A before \in filteredPixels, after \in filteredPixels' : \A r \in Side, c \in Side :
             after[r][c] # before[r][c]
               => r \in y - 3 .. y + BlockDimension - 1 /\ c \in x - 3 .. x + BlockDimension - 1]_loopFilterVars

LoopFilterIsGentle == []StepsBecomeRamps /\ FiltersNearby
=============================================================================
