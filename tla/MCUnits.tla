------------------------------- MODULE MCUnits --------------------------------
(* One instance of each of the components that do not interact with others *)
(* through state: in a behaviour one of them runs, and the others stay as  *)
(* they start.                                                             *)
EXTENDS ImageFiles, Monax, FrameBudget, BoolCoder, CodecState, Residues,
        MotionVectors, FrameHeaders, FrameLayout, EncoderSearch, IvfFile,
        ChunkStates, Reconstruction, IntraModes, SplitVectors, LoopFilter,
        Transforms, PixelPredictions

VARIABLE unit

MCFirstValues == {0, -3}
MCDeltas == {0, -3}
MCVectors == {<<-138, 2>>, <<8, 8192>>, <<9002, -1150>>}
MCSplitModes ==
  {[p \in 0 .. 3 |-> modes[p + 1]] :
     modes \in {<<13, 10, 11, 12>>, <<10, 13, 13, 11>>, <<13, 12, 10, 10>>, <<11, 13, 12, 13>>, <<12, 11, 13, 10>>, <<13, 13, 11, 11>>}}
MCSplitDifferences == {6, -130}
MCTrialModes == {[s \in 0 .. 3 |-> <<0, 9, 1, 4>>[s + 1]], [s \in 0 .. 3 |-> <<5, 0, 2, 8>>[s + 1]]}
MCFlatPictures ==
  {[row \in 0 .. 1 |-> [column \in 0 .. 1 |-> [half \in 0 .. 1 |-> pixels[4 * row + 2 * column + half + 1]]]] :
     pixels \in {<<0, 0, 70, 70, 60, 60, 255, 255>>, <<100, 90, 96, 130, 100, 100, 110, 101>>, <<255, 255, 170, 170, 30, 37, 40, 20>>}}

(* What fits: nothing, the coarser half, all, and what an estimate that    *)
(* wavers lets through.  The level of the loop filter is best at an end, or*)
(* they are equal, or have several maxima, or plateaus on the way up.      *)
MCPictures ==
  {[fits |-> {}, quality |-> [l \in 0 .. 63 |-> l]],
   [fits |-> 60 .. 127, quality |-> [l \in 0 .. 63 |-> 63 - l]],
   [fits |-> 0 .. 127, quality |-> [l \in 0 .. 63 |-> 7]],
   [fits |-> {q \in 0 .. 127 : q % 5 \in {1, 2}}, quality |-> [l \in 0 .. 63 |-> l + 5 * (l % 4)]],
   [fits |-> {5, 90}, quality |-> [l \in 0 .. 63 |-> l - (l % 3)]]}

FilterHeader(filter_level, sharpness, is_key, is_simple) ==
  [loop_filter_level |-> filter_level, sharpness_level |-> sharpness, key_frame |-> is_key, simple |-> is_simple,
   segmentation |-> {}, adjustments |-> {}]

MCFilterHeaders ==
  {FilterHeader(0, 0, TRUE, FALSE), FilterHeader(63, 0, TRUE, FALSE), FilterHeader(12, 0, TRUE, TRUE),
   [FilterHeader(20, 5, FALSE, FALSE) EXCEPT
      !.segmentation = {[absolute |-> FALSE, adjustments |-> [s \in 0 .. 3 |-> IF s = 0 THEN 50 ELSE -30]]}],
   [FilterHeader(40, 1, FALSE, FALSE) EXCEPT
      !.adjustments = {[ref |-> [r \in {"CURRENT_FRAME", "LAST_FRAME"} |-> IF r = "LAST_FRAME" THEN -20 ELSE 10],
                        mode |-> [m \in 0 .. 3 |-> 20 * m - 30]]}]}

FilteredAs(reference, mode, segment_id, coded, has_nonzero) ==
  [reference |-> reference, mode |-> mode, segment_id |-> segment_id, coded |-> coded, has_nonzero |-> has_nonzero]

MCFilteredMacroblocks ==
  {FilteredAs("CURRENT_FRAME", "DC_PRED", 0, TRUE, FALSE), FilteredAs("CURRENT_FRAME", "B_PRED", 1, FALSE, FALSE),
   FilteredAs("LAST_FRAME", "ZEROMV", 0, TRUE, FALSE), FilteredAs("LAST_FRAME", "SPLITMV", 0, FALSE, TRUE)}

(* Blocks of a macroblock: flat, stripes, checkers, a ramp, tiles, a dot   *)
(* and noise.                                                              *)
BlocksOf(Pixel(_, _, _)) ==
  [b \in 1 .. 16 |->
     <<<<Pixel(b, 0, 0), Pixel(b, 0, 1), Pixel(b, 0, 2), Pixel(b, 0, 3)>>, <<Pixel(b, 1, 0), Pixel(b, 1, 1), Pixel(b, 1, 2), Pixel(b, 1, 3)>>,
       <<Pixel(b, 2, 0), Pixel(b, 2, 1), Pixel(b, 2, 2), Pixel(b, 2, 3)>>, <<Pixel(b, 3, 0), Pixel(b, 3, 1), Pixel(b, 3, 2), Pixel(b, 3, 3)>>>>]

MCOriginals ==
  {BlocksOf(LAMBDA b, r, c : 255), BlocksOf(LAMBDA b, r, c : 0), BlocksOf(LAMBDA b, r, c : 128),
   BlocksOf(LAMBDA b, r, c : 255 * (c % 2)), BlocksOf(LAMBDA b, r, c : 255 * ((r \div 2) % 2)),
   BlocksOf(LAMBDA b, r, c : 255 * ((r + c) % 2)), BlocksOf(LAMBDA b, r, c : 16 * (4 * ((b - 1) % 4) + c)),
   BlocksOf(LAMBDA b, r, c : 255 * ((b + (b - 1) \div 4) % 2)),
   BlocksOf(LAMBDA b, r, c : IF b = 6 /\ r = 2 /\ c = 1 THEN 255 ELSE 0),
   BlocksOf(LAMBDA b, r, c : (b * b * 37 + r * 91 + c * c * 53 + b * r * c * 29) % 256)}

(* The pixels around a block, of a plane or not.                           *)
EdgesOf(plane) ==
  [left |-> [i \in 1 .. 4 |-> PlaneAt(plane, -1, i - 1)], above |-> [i \in 1 .. 8 |-> PlaneAt(plane, i - 1, -1)],
   corner |-> PlaneAt(plane, -1, -1), plane |-> {plane}]

MCEdges ==
  {EdgesOf(<<128, slope[1], slope[2]>>) :
     slope \in {<<0, 0>>, <<4, 0>>, <<0, -4>>, <<3, 3>>, <<5, -5>>, <<4, -2>>, <<-4, 2>>, <<4, 2>>, <<-2, 4>>, <<2, 4>>, <<-2, -4>>, <<3, -7>>}}
  \cup {[left |-> <<0, 255, 13, 200>>, above |-> <<255, 0, 17, 90, 255, 255, 3, 77>>, corner |-> 255, plane |-> {}],
        [left |-> <<129, 129, 129, 129>>, above |-> <<10, 240, 99, 98, 127, 127, 127, 127>>, corner |-> 0, plane |-> {}]}

PictureOf(Pixel(_, _), planes) ==
  [width |-> 16, height |-> 16, plane |-> planes, rows |-> [y \in 1 .. 16 |-> [x \in 1 .. 16 |-> Pixel(x - 1, y - 1)]]]

MCReferencePictures ==
  {PictureOf(LAMBDA x, y : PlaneAt(plane, x, y), {plane}) : plane \in {<<100, 0, 0>>, <<60, 8, -3>>, <<200, -5, -6>>}}
  \cup {PictureOf(LAMBDA x, y : (x * x * 37 + y * 91 * x + y * y * 53) % 256, {}),
        PictureOf(LAMBDA x, y : IF (x + y) % 5 < 2 THEN 255 ELSE 0, {})}

MCSourceBlocks == [column : {0, 1, 3}, row : {1, 2}, x : {-45, 0, 3, 8, 14}, y : {-300, -8, 0, 2, 5, 7}]

Unit == {"images", "monax", "budget", "coder", "codec", "residues", "vectors",
         "headers", "layout", "search", "ivf", "chunks", "pixels",
         "modes", "splits", "filter", "transforms", "predictions"}

(* Those that start in one state only.                                     *)
OthersInit ==
  /\ ImagesInit /\ MonaxInit /\ BudgetInit /\ CoderInit /\ CodecInit
  /\ ResiduesInit /\ MotionVectorsInit /\ HeadersInit
  /\ IvfInit /\ ChunkInit /\ ReconstructionInit /\ IntraModesInit /\ SplitInit /\ LoopFilterInit
  /\ TransformsInit /\ PredictionsInit

UnitsInit ==
  /\ unit \in Unit
  /\ OthersInit
  /\ IF unit = "layout" THEN LayoutInit
     ELSE /\ frame = (CHOOSE f \in Frames : TRUE) /\ received = 0
          /\ accept_partial = FALSE
  /\ IF unit = "search" THEN SearchInit
     ELSE /\ realtime = (CHOOSE r \in Realtime : TRUE) /\ picture = (CHOOSE p \in Pictures : TRUE)
          /\ last_y_ac_qi_ = {} /\ loop_filter_level_ = {}

UnitsNext ==
  /\ UNCHANGED unit
  /\ IF unit = "images" THEN ImagesNext ELSE UNCHANGED imageVars
  /\ IF unit = "monax" THEN MonaxNext ELSE UNCHANGED monaxVars
  /\ IF unit = "budget" THEN BudgetNext ELSE UNCHANGED budgetVars
  /\ IF unit = "coder" THEN CoderNext ELSE UNCHANGED coderVars
  /\ IF unit = "codec" THEN CodecNext ELSE UNCHANGED codecVars
  /\ IF unit = "residues" THEN ResiduesNext ELSE UNCHANGED residueVars
  /\ IF unit = "vectors" THEN MotionVectorsNext ELSE UNCHANGED mvVars
  /\ IF unit = "headers" THEN HeadersNext ELSE UNCHANGED headerVars
  /\ IF unit = "layout" THEN LayoutNext ELSE UNCHANGED layoutVars
  /\ IF unit = "search" THEN SearchNext ELSE UNCHANGED searchVars
  /\ IF unit = "ivf" THEN IvfNext ELSE UNCHANGED ivfVars
  /\ IF unit = "chunks" THEN ChunkNext ELSE UNCHANGED chunkVars
  /\ IF unit = "pixels" THEN ReconstructionNext ELSE UNCHANGED reconstructionVars
  /\ IF unit = "modes" THEN IntraModesNext ELSE UNCHANGED intraVars
  /\ IF unit = "splits" THEN SplitNext ELSE UNCHANGED splitVars
  /\ IF unit = "filter" THEN LoopFilterNext ELSE UNCHANGED loopFilterVars
  /\ IF unit = "transforms" THEN TransformsNext ELSE UNCHANGED transformVars
  /\ IF unit = "predictions" THEN PredictionsNext ELSE UNCHANGED predictedBlock

Spec == UnitsInit /\ [][UnitsNext]_<<unit, imageVars, monaxVars, budgetVars, coderVars, codecVars,
                                     residueVars, mvVars, headerVars, layoutVars, searchVars, ivfVars, chunkVars,
                                     reconstructionVars, intraVars, splitVars, loopFilterVars, transformVars,
                                     predictedBlock>>

(* Every component keeps its own types.                                    *)
UnitsTypeOK ==
  CASE unit = "images" -> ImagesTypeOK
    [] unit = "monax" -> MonaxTypeOK
    [] unit = "budget" -> BudgetTypeOK
    [] unit = "coder" -> CoderTypeOK
    [] unit = "codec" -> CodecTypeOK
    [] unit = "residues" -> ResiduesTypeOK
    [] unit = "vectors" -> MotionVectorsTypeOK
    [] unit = "headers" -> HeadersTypeOK
    [] unit = "layout" -> LayoutTypeOK
    [] unit = "search" -> SearchTypeOK
    [] unit = "ivf" -> IvfTypeOK
    [] unit = "chunks" -> ChunkTypeOK
    [] unit = "pixels" -> ReconstructionTypeOK
    [] unit = "modes" -> IntraModesTypeOK
    [] unit = "splits" -> SplitTypeOK
    [] unit = "filter" -> LoopFilterTypeOK
    [] unit = "transforms" -> TransformsTypeOK
    [] unit = "predictions" -> PredictionsTypeOK

(* The decoder finds the modes and the vectors that the encoder chose.     *)
PredictionsRoundTrip == VectorsRoundTrip /\ ModesRoundTrip /\ SplitsRoundTrip

(* A frame is made of the pixels it should be: predictions read this frame *)
(* and continue it, the encoder's search sees them, the residue brings them*)
(* near the picture, and the loop filter stays between the pixels it had.  *)
PixelsAreRight ==
  /\ PredictsFromThisPicture
  /\ [](PredictionsAreRight /\ RebuiltIsClose)
  /\ LoopFilterIsGentle
===============================================================================
