--------------------------- MODULE MotionVectors ----------------------------
(***************************************************************************)
(* How the motion vectors of an inter frame are chosen, written and read:  *)
(* diamond_search and luma_mb_inter_predict of src/encoder/encode_inter.cc,*)
(* encode_prediction_modes of src/encoder/serializer.cc, the census of     *)
(* src/decoder/scorer.hh, and decode_prediction_modes and read_component of*)
(* src/decoder/macroblock.cc.  A motion vector is its x component; the y   *)
(* component is handled alike.  This encoder writes SPLITMV only when it   *)
(* encodes again what another has encoded: that is in SplitVectors, and    *)
(* here it is a flag of the census.                                        *)
(***************************************************************************)
EXTENDS BoolStream, FiniteSets

CONSTANTS
  MVColumns, MVRows,      \* macroblocks of a frame, bounds of the model
  SearchResults,          \* what a search may end at, a bound of the model
  CensusVectors           \* vectors of the neighbours in a census

VARIABLES
  component,              \* a difference whose coding is checked
  census,                 \* the neighbours of a macroblock: above, left, above left
  chosen                  \* what the encoder chose, per macroblock in raster order

mvVars == <<component, census, chosen>>

ASSUME MotionVectorsAssumption ==
  /\ MVColumns \in Nat \ {0} /\ MVRows \in Nat \ {0}
  /\ CensusVectors \subseteq Int
  /\ \A mv \in SearchResults : mv \in -1023 .. 1023 /\ mv % 2 = 0

(* A macroblock which is not there, or is not inter coded, has no inter.   *)
Neighbour == [inter : {TRUE}, mv : CensusVectors, flipped : BOOLEAN, split : BOOLEAN]
NoNeighbour == [inter |-> FALSE, mv |-> 0, flipped |-> FALSE, split |-> FALSE]

NEARESTMV == 5
NEARMV == 6
ZEROMV == 7
NEWMV == 8
SPLITMV == 9

IntraCoded == [inter |-> FALSE, mode |-> 0, mv |-> 0]
InterCoded(mode, mv) == [inter |-> TRUE, mode |-> mode, mv |-> mv]

MotionVectorsTypeOK ==
  /\ component \in -1022 .. 1022
  /\ census \in [1 .. 3 -> Neighbour \cup {NoNeighbour}]
  /\ Len(chosen) <= MVColumns * MVRows
  /\ \A i \in DOMAIN chosen :
       /\ chosen[i].mode \in {0} \cup NEARESTMV .. NEWMV
       /\ chosen[i].mv \in -32768 .. 32767

MotionVectorsInit ==
  /\ component = 0
  /\ census = [i \in 1 .. 3 |-> NoNeighbour]
  /\ chosen = << >>
-----------------------------------------------------------------------------
(* Scorer: scores and vectors are indexed from 0; the vectors beyond index *)
(* are zero.                                                               *)

EmptyScores == [score |-> [i \in 0 .. 3 |-> 0], vector |-> [i \in 0 .. 3 |-> 0], index |-> 0, split |-> 0]

(* A vector equal to the last one added is counted with it.                *)
Count(s, points, mv) ==
  LET new == Bit(mv # s.vector[s.index])
      at == s.index + new
  IN  IF mv = 0 THEN [s EXCEPT !.score[0] = @ + points]
      ELSE [s EXCEPT !.index = at, !.vector[at] = mv, !.score[at] = @ + points]

Counted(s, points, neighbour, flipped) ==
  LET mv == IF neighbour.flipped # flipped THEN -neighbour.mv ELSE neighbour.mv
  IN  IF ~neighbour.inter THEN s
      ELSE [Count(s, points, mv) EXCEPT !.split = @ + IF neighbour.split THEN points ELSE 0]

Merged(s) ==
  IF s.score[3] > 0 /\ s.vector[s.index] = s.vector[1]
  THEN [s EXCEPT !.score[1] = @ + s.score[3]] ELSE s

Ordered(s) ==
  IF s.score[2] > s.score[1]
  THEN [s EXCEPT !.score[1] = s.score[2], !.score[2] = s.score[1],
                 !.vector[1] = s.vector[2], !.vector[2] = s.vector[1]] ELSE s

WithBest(s) == IF s.score[1] >= s.score[0] THEN [s EXCEPT !.vector[0] = s.vector[1]] ELSE s

(* motion_vector_census, of a macroblock whose vectors are not flipped.    *)
Census(neighbours) ==
  LET above == Counted(EmptyScores, 2, neighbours[1], FALSE)
      left == Counted(above, 2, neighbours[2], FALSE)
  IN  WithBest(Ordered(Merged(Counted(left, 1, neighbours[3], FALSE))))

Best(s) == s.vector[0]
Nearest(s) == s.vector[1]
Near(s) == s.vector[2]
ModeContexts(s) == <<s.score[0], s.score[1], s.score[2], s.split>>

AtMost(a, b) == IF a < b THEN a ELSE b
AtLeast(a, b) == IF a > b THEN a ELSE b

(* Scorer::clamp, of the x component, in a frame of that many columns.     *)
ClampedIn(columns, mv, column) ==
  LET to_left == AtLeast(-column * 128 - 128, -32768)
      to_right == AtMost((columns - 1 - column) * 128 + 128, 32767)
  IN  AtMost(AtLeast(mv, to_left), to_right)

ClampedTo(mv, column) == ClampedIn(MVColumns, mv, column)

(* The neighbours of macroblock i, 1 being the first, in a frame.          *)
NeighboursIn(columns, i, mbs) ==
  LET At(there, j) == IF there /\ mbs[j].inter
                      THEN [inter |-> TRUE, mv |-> mbs[j].mv, flipped |-> FALSE, split |-> mbs[j].mode = SPLITMV]
                      ELSE NoNeighbour
      is_left == (i - 1) % columns = 0
  IN  <<At(i > columns, i - columns), At(~is_left, i - 1),
        At(i > columns /\ ~is_left, i - columns - 1)>>

NeighboursOf(i, mbs) == NeighboursIn(MVColumns, i, mbs)

ColumnOf(i) == (i - 1) % MVColumns
-----------------------------------------------------------------------------
(* Writing and reading.                                                    *)

small_mv_tree == TreeOf(<<2, 8, 4, 6, 0, -1, -2, -3, 10, 12, -4, -5, -6, -7>>)
mv_ref_tree == TreeOf(<<-ZEROMV, 2, -NEARESTMV, 4, -NEARMV, 6, -NEWMV, -SPLITMV>>)

Shift(n, i) == n \div 2^i
IsShort == <<"is_short">>
IsNegative == <<"sign">>
ShortNodes == [i \in 0 .. 6 |-> <<"short", i>>]
LongBit(i) == <<"long", i>>

(* Bit 3 is written when a higher one is set; it is implied otherwise.     *)
BitThree(x) == IF x > 15 THEN <<Symbol(Shift(x, 3) % 2 = 1, LongBit(3))>> ELSE << >>

PutBits(x, from) == [k \in DOMAIN from |-> Symbol(Shift(x, from[k]) % 2 = 1, LongBit(from[k]))]

PutComponent(num) ==
  LET half == num \div 2
      x == Magnitude(half)
  IN  (IF x < 8 THEN <<Symbol(FALSE, IsShort)>> \o PutTree(small_mv_tree, x, ShortNodes)
       ELSE <<Symbol(TRUE, IsShort)>> \o PutBits(x, <<0, 1, 2, 9, 8, 7, 6, 5, 4>>) \o BitThree(x))
      \o (IF x # 0 THEN <<Symbol(half < 0, IsNegative)>> ELSE << >>)

AskBits(d, from) ==
  FoldLeft(LAMBDA e, i : LET a == Ask(e, LongBit(i)) IN [a EXCEPT !.value = @ + Bit(a.bit) * 2^i],
           [d EXCEPT !.value = 0], from)

AskLong(d) ==
  LET read == AskBits(d, <<0, 1, 2, 9, 8, 7, 6, 5, 4>>)
      three == IF read.value < 16 THEN [read EXCEPT !.bit = TRUE] ELSE Ask(read, LongBit(3))
  IN  [three EXCEPT !.value = @ + IF three.bit THEN 8 ELSE 0]

(* MotionVector::read_component.                                           *)
WithSign(sign) == [sign EXCEPT !.value = 2 * (IF sign.bit THEN -@ ELSE @)]
AskSignOf(x) == WithSign(IF x.value # 0 THEN Ask(x, IsNegative) ELSE [x EXCEPT !.bit = FALSE])

AskComponent(d) ==
  LET is_long == Ask(d, IsShort)
  IN  AskSignOf(IF is_long.bit THEN AskLong(is_long) ELSE AskTree(is_long, small_mv_tree, ShortNodes))

(* The probabilities of the mode are looked up with the contexts.          *)
ModeNodes(s) == [node \in 0 .. 3 |-> <<"mode", node, ModeContexts(s)[node + 1]>>]

(* The difference is taken to the vector before it is clamped.             *)
MutantBase(s, column) == Best(s)

(* What a new vector is written against.                                   *)
Base(s, column) == ClampedTo(Best(s), column)

(* InterFrameMacroblock::encode_prediction_modes, after is_inter_mb.       *)
PutModes(i, mbs) ==
  LET s == Census(NeighboursOf(i, mbs))
  IN  <<Symbol(mbs[i].inter, <<"is_inter_mb">>)>>
      \o (IF mbs[i].inter THEN PutTree(mv_ref_tree, mbs[i].mode, ModeNodes(s)) ELSE << >>)
      \o (IF mbs[i].mode = NEWMV THEN PutComponent(mbs[i].mv - Base(s, ColumnOf(i))) ELSE << >>)

PutFrame(mbs) == FlattenSeq([i \in DOMAIN mbs |-> PutModes(i, mbs)])

(* InterFrameMacroblock::decode_prediction_modes.                          *)
Chosen(r, d, mb) == [d |-> d, read |-> Append(r.read, mb)]

AskVector(r, s, column, mode) ==
  LET Of(vector) == InterCoded(mode.value, vector)
      New(new) == Chosen(r, new, Of(new.value + ClampedTo(Best(s), column)))
  IN  CASE mode.value = NEARESTMV -> Chosen(r, mode, Of(ClampedTo(Nearest(s), column)))
        [] mode.value = NEARMV -> Chosen(r, mode, Of(ClampedTo(Near(s), column)))
        [] mode.value = NEWMV -> New(AskComponent(mode))
        [] OTHER -> Chosen(r, mode, Of(0))

AskMode(r, s, column, inter) ==
  IF inter.bit
  THEN AskVector(r, s, column, AskTree(inter, mv_ref_tree, ModeNodes(s)))
  ELSE Chosen(r, inter, IntraCoded)

AskModes(r, i) == AskMode(r, Census(NeighboursOf(i, r.read)), ColumnOf(i), Ask(r.d, <<"is_inter_mb">>))

DecodedFrame(symbols, count) ==
  FoldLeft(AskModes, [d |-> Reader(symbols), read |-> << >>], [i \in 1 .. count |-> i])
-----------------------------------------------------------------------------

(* diamond_search moves by steps of 512 down to 2 and stays within bounds. *)
NextComponent ==
  /\ chosen = << >> /\ census = [i \in 1 .. 3 |-> NoNeighbour]
  /\ component < 1022
  /\ component' = IF component > 0 THEN -component ELSE 2 - component
  /\ UNCHANGED <<census, chosen>>

TakeCensus ==
  /\ component = 0 /\ chosen = << >>
  /\ \E i \in 1 .. 3, neighbour \in Neighbour :
       /\ \A j \in i .. 3 : ~census[j].inter
       /\ census' = [census EXCEPT ![i] = neighbour]
  /\ UNCHANGED <<component, chosen>>

(* luma_mb_inter_predict: a mode whose vector would be zero is not tried.  *)
Candidates(i, mbs) ==
  LET s == Census(NeighboursOf(i, Append(mbs, IntraCoded)))
      Moving(mode, mv) == IF mv = 0 THEN {} ELSE {InterCoded(mode, mv)}
  IN  {IntraCoded, InterCoded(ZEROMV, 0)}
      \cup Moving(NEARESTMV, ClampedTo(Nearest(s), ColumnOf(i)))
      \cup Moving(NEARMV, ClampedTo(Near(s), ColumnOf(i)))
      \cup UNION {Moving(NEWMV, found + ClampedTo(Best(s), ColumnOf(i))) : found \in SearchResults}

ChooseMode ==
  /\ component = 0 /\ census = [i \in 1 .. 3 |-> NoNeighbour]
  /\ Len(chosen) < MVColumns * MVRows
  /\ \E mb \in Candidates(Len(chosen) + 1, chosen) : chosen' = Append(chosen, mb)
  /\ UNCHANGED <<component, census>>

MotionVectorsNext == NextComponent \/ TakeCensus \/ ChooseMode
-----------------------------------------------------------------------------

(* Every difference the search can end at is read back as it was written:  *)
(* ten bits, the fourth of which is sometimes implied.                     *)
ComponentsRoundTrip ==
  LET read == AskComponent(Reader(PutComponent(component)))
  IN  read.value = component /\ IsRead(read)

(* Whatever the neighbours, nearest is a vector with the most points, near *)
(* one with the most among the others, and their points, which index a     *)
(* table of six rows of mode probabilities, are those of all neighbours.   *)
CensusRanks ==
  LET s == Census(census)
      Signed(n) == IF n.flipped THEN -n.mv ELSE n.mv
      Points(mv) == LET P(i) == IF census[i].inter /\ Signed(census[i]) = mv THEN IF i < 3 THEN 2 ELSE 1 ELSE 0
                    IN  P(1) + P(2) + P(3)
      moving == {Signed(census[i]) : i \in 1 .. 3} \ {0}
      others == moving \ {Nearest(s)}
  IN  /\ moving # {} => Nearest(s) \in moving /\ s.score[1] = Points(Nearest(s))
      /\ \A mv \in moving : Points(mv) <= Points(Nearest(s))
      /\ others # {} => Near(s) \in others /\ s.score[2] = Points(Near(s))
      /\ \A mv \in others : Points(mv) <= Points(Near(s))
      /\ \A k \in 1 .. 4 : ModeContexts(s)[k] <= 5

(* The decoder finds the modes and the motion vectors the encoder chose,   *)
(* though it is sent differences to vectors it has to find out, clamped to *)
(* where the macroblock is, from macroblocks decoded before.               *)
VectorsRoundTrip ==
  /\ ComponentsRoundTrip
  /\ CensusRanks
  /\ HasRead(DecodedFrame(PutFrame(chosen), Len(chosen)), chosen)
=============================================================================
