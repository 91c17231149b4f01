------------------------------ MODULE Residues ------------------------------
(***************************************************************************)
(* The residues of a frame: serialize_tokens of src/encoder/serializer.cc, *)
(* calculate_has_nonzero of src/encoder/encoder.cc, parse_tokens of        *)
(* src/decoder/tokens.cc and macroblock.cc, and relink_y2_blocks of        *)
(* src/decoder/frame.cc.  One luma block stands for all blocks but Y2;     *)
(* blocks have N coefficients instead of 16.                               *)
(***************************************************************************)
EXTENDS BoolStream, FiniteSets

CONSTANTS
  N,                    \* coefficients of a block
  FirstValues,          \* values of the first coefficient, and
  OtherValues,          \* of the others, bounds of the model
  Columns, Rows         \* macroblocks of a frame

(* The largest value that can be coded: the encoder throws at a larger one.*)
MaxLevel == 67 + 2^11 - 1

ASSUME ResiduesAssumption ==
  /\ N \in Nat /\ N >= 2
  /\ Columns \in Nat \ {0} /\ Rows \in Nat \ {0}
  /\ FirstValues \cup OtherValues \subseteq Int
  /\ \A value \in FirstValues \cup OtherValues : Magnitude(value) <= MaxLevel
  /\ 0 \in FirstValues /\ 0 \in OtherValues

VARIABLES
  level,                \* a value whose coding is checked, 0 for none
  macroblocks           \* those encoded so far, in raster order

residueVars == <<level, macroblocks>>

Positions == 0 .. N - 1
Zeros == [i \in Positions |-> 0]
Blocks ==
  {block \in [Positions -> FirstValues \cup OtherValues] :
     \A i \in Positions : block[i] \in IF i = 0 THEN FirstValues ELSE OtherValues}
AfterY2 == {block \in Blocks : block[0] = 0}

(* A macroblock without Y2 has zeros in it.  If it has one, the first      *)
(* coefficient of its other blocks is in there.                            *)
Macroblocks ==
  [coded : {TRUE}, Y2 : Blocks, Y : AfterY2] \cup [coded : {FALSE}, Y2 : {Zeros}, Y : Blocks]

ResiduesTypeOK ==
  /\ level \in 0 .. MaxLevel
  /\ macroblocks \in Seq(Macroblocks) /\ Len(macroblocks) <= Columns * Rows

ResiduesInit == level = 0 /\ macroblocks = << >>

HasNonzero(block) == block # Zeros
FirstIndex(type) == IF type = "Y_after_Y2" THEN 1 ELSE 0
YType(mb) == IF mb.coded THEN "Y_after_Y2" ELSE "Y_without_Y2"

-----------------------------------------------------------------------------
(* Neighbours, known by their index in raster order, 0 if there is none.   *)

Above(i) == IF i <= Columns THEN 0 ELSE i - Columns
LeftOf(i) == IF i % Columns = 1 \/ Columns = 1 THEN 0 ELSE i - 1

LastCoded(S, mbs) ==
  LET coded == {j \in S : mbs[j].coded}
  IN  IF coded = {} THEN 0 ELSE CHOOSE j \in coded : \A k \in coded : k <= j

(* relink_y2_blocks: the last macroblock above, or to the left, with Y2.   *)
Y2Above(i, mbs) == LastCoded({j \in 1 .. i - 1 : j % Columns = i % Columns}, mbs)
Y2Left(i, mbs) == LastCoded({j \in 1 .. i - 1 : (j - 1) \div Columns = (i - 1) \div Columns}, mbs)

NonzeroAt(i, flags) == Bit(i # 0 /\ flags[i])

-----------------------------------------------------------------------------
(* The encoder.                                                            *)

Label(type, index, context, node) == <<type, index, context, node>>
Tree(path) == [i \in DOMAIN path |-> Symbol(path[i][2], <<path[i][1]>>)]
Sign == <<0, 0>>
Nodes == 0 .. 10        \* pairs of entries of the token tree

(* TokenDecoder::encode: the increment, its highest bit first.             *)
Extra(base, length, value) ==
  [i \in 1 .. length |->
     Symbol(((value - base) \div 2^(length - i)) % 2 = 1, <<base, i>>)]

(* The token of a value, after the node that says it is not zero.          *)
Token(value) ==
  CASE value = 1 -> Tree(<<<<2, FALSE>>>>)
    [] value = 2 -> Tree(<<<<2, TRUE>>, <<3, FALSE>>, <<4, FALSE>>>>)
    [] value \in 3 .. 4 -> Tree(<<<<2, TRUE>>, <<3, FALSE>>, <<4, TRUE>>, <<5, value = 4>>>>)
    [] value \in 5 .. 6 ->
         Tree(<<<<2, TRUE>>, <<3, TRUE>>, <<6, FALSE>>, <<7, FALSE>>>>) \o Extra(5, 1, value)
    [] value \in 7 .. 10 ->
         Tree(<<<<2, TRUE>>, <<3, TRUE>>, <<6, FALSE>>, <<7, TRUE>>>>) \o Extra(7, 2, value)
    [] value \in 11 .. 18 ->
         Tree(<<<<2, TRUE>>, <<3, TRUE>>, <<6, TRUE>>, <<8, FALSE>>, <<9, FALSE>>>>) \o Extra(11, 3, value)
    [] value \in 19 .. 34 ->
         Tree(<<<<2, TRUE>>, <<3, TRUE>>, <<6, TRUE>>, <<8, FALSE>>, <<9, TRUE>>>>) \o Extra(19, 4, value)
    [] value \in 35 .. 66 ->
         Tree(<<<<2, TRUE>>, <<3, TRUE>>, <<6, TRUE>>, <<8, TRUE>>, <<10, FALSE>>>>) \o Extra(35, 5, value)
    [] value \in 67 .. MaxLevel ->
         Tree(<<<<2, TRUE>>, <<3, TRUE>>, <<6, TRUE>>, <<8, TRUE>>, <<10, TRUE>>>>) \o Extra(67, 11, value)

ContextAfter(value) == IF value > 2 THEN 2 ELSE value

(* Node labels of the tree depend on where the coefficient is; the others, *)
(* which are fixed, do not.                                                *)
Placed(symbols, type, index, context) ==
  [k \in DOMAIN symbols |->
     IF Len(symbols[k].label) = 1
     THEN [symbols[k] EXCEPT !.label = Label(type, index, context, @[1])] ELSE symbols[k]]

(* One coefficient, in the loop of serialize_tokens.                       *)
PutCoefficient(s, index, block, type) ==
  LET value == Magnitude(block[index])
      open == IF s.last_was_zero THEN << >> ELSE <<Symbol(TRUE, <<0>>)>>
      token == IF value = 0 THEN <<Symbol(FALSE, <<1>>)>>
               ELSE <<Symbol(TRUE, <<1>>)>> \o Token(value) \o <<Symbol(block[index] < 0, Sign)>>
  IN  [out |-> s.out \o Placed(open \o token, type, index, s.context),
       context |-> ContextAfter(value), last_was_zero |-> (value = 0)]

CodedLength(block, type) ==
  LET nonzero == {i \in FirstIndex(type) .. N - 1 : block[i] # 0}
  IN  IF nonzero = {} THEN 0 ELSE 1 + CHOOSE i \in nonzero : \A j \in nonzero : j <= i

(* Block::serialize_tokens.                                                *)
BlockTokens(block, type, context) ==
  LET length == CodedLength(block, type)
      first == FirstIndex(type)
      coded[k \in 0 .. N] ==
        IF k <= first THEN [out |-> << >>, context |-> context, last_was_zero |-> FALSE]
        ELSE PutCoefficient(coded[k - 1], k - 1, block, type)
      end == IF length > first THEN length ELSE first
  IN  coded[end].out \o (IF length < N
                         THEN Placed(<<Symbol(FALSE, <<0>>)>>, type, end, coded[end].context) ELSE << >>)

(* Y2 is left out of the test.                                             *)
MutantIsSkipped(mb) == ~HasNonzero(mb.Y)

IsSkipped(mb) == ~HasNonzero(mb.Y2) /\ ~HasNonzero(mb.Y)

(* Macroblock::serialize_tokens.                                           *)
MacroblockTokens(i, mbs) ==
  LET mb == mbs[i]
      y2 == [j \in DOMAIN mbs |-> HasNonzero(mbs[j].Y2)]
      y == [j \in DOMAIN mbs |-> HasNonzero(mbs[j].Y)]
  IN  IF IsSkipped(mb) THEN << >>
      ELSE (IF mb.coded
            THEN BlockTokens(mb.Y2, "Y2", NonzeroAt(Y2Above(i, mbs), y2) + NonzeroAt(Y2Left(i, mbs), y2))
            ELSE << >>)
           \o BlockTokens(mb.Y, YType(mb), NonzeroAt(Above(i), y) + NonzeroAt(LeftOf(i), y))

FrameTokens(mbs) ==
  LET written[i \in 0 .. Len(mbs)] == IF i = 0 THEN << >> ELSE written[i - 1] \o MacroblockTokens(i, mbs)
  IN  written[Len(mbs)]
-----------------------------------------------------------------------------
(* The decoder.                                                            *)

(* TokenDecoder::decode.                                                   *)
AskExtra(d, base, length) ==
  LET read[i \in 0 .. length] ==
        IF i = 0 THEN [d EXCEPT !.value = 0]
        ELSE LET a == Ask(read[i - 1], <<base, i>>) IN [a EXCEPT !.value = 2 * @ + Bit(a.bit)]
  IN  [read[length] EXCEPT !.value = @ + base]

(* The unfolded token tree of parse_tokens: below node 6,                  *)
AskCategory(d, labels) ==
  LET six == Ask(d, labels[6])
      next == Ask(six, labels[IF six.bit THEN 8 ELSE 7])
      last == Ask(next, labels[IF next.bit THEN 10 ELSE 9])
  IN  CASE ~six.bit /\ ~next.bit -> AskExtra(next, 5, 1)
        [] ~six.bit /\ next.bit -> AskExtra(next, 7, 2)
        [] six.bit /\ ~next.bit -> IF last.bit THEN AskExtra(last, 19, 4) ELSE AskExtra(last, 11, 3)
        [] six.bit /\ next.bit -> IF last.bit THEN AskExtra(last, 67, 11) ELSE AskExtra(last, 35, 5)

(* below node 4,                                                           *)
AskSmall(d, labels) ==
  LET four == Ask(d, labels[4])
      five == Ask(four, labels[5])
  IN  IF four.bit THEN [five EXCEPT !.value = 3 + Bit(five.bit)] ELSE [four EXCEPT !.value = 2]

(* and from node 2 on.                                                     *)
AskToken(d, labels) ==
  LET two == Ask(d, labels[2])
      three == Ask(two, labels[3])
  IN  CASE ~two.bit -> [two EXCEPT !.value = 1]
        [] two.bit /\ ~three.bit -> AskSmall(three, labels)
        [] two.bit /\ three.bit -> AskCategory(three, labels)

(* A coefficient that is not zero: its value, and its sign.                *)
CoefficientRead(s, index, token, sign) ==
  [s EXCEPT !.d = sign, !.last_was_zero = FALSE, !.context = ContextAfter(token.value),
            !.block = [@ EXCEPT ![index] = IF sign.bit THEN -token.value ELSE token.value]]

AskSign(s, index, token) == CoefficientRead(s, index, token, Ask(token, Sign))

(* One turn of the loop of parse_tokens.                                   *)
AskCoefficient(s, index, type) ==
  LET labels == [node \in Nodes |-> Label(type, index, s.context, node)]
      open == IF s.last_was_zero THEN [s.d EXCEPT !.bit = TRUE] ELSE Ask(s.d, labels[0])
      nonzero == Ask(open, labels[1])
  IN  IF s.ended THEN s
      ELSE IF ~open.bit THEN [s EXCEPT !.d = open, !.ended = TRUE]
      ELSE IF ~nonzero.bit THEN [s EXCEPT !.d = nonzero, !.last_was_zero = TRUE, !.context = 0]
      ELSE AskSign(s, index, AskToken(nonzero, labels))

AskBlock(d, type, context) ==
  LET asked[k \in 0 .. N] ==
        IF k <= FirstIndex(type)
        THEN [d |-> d, block |-> Zeros, context |-> context, last_was_zero |-> FALSE, ended |-> FALSE]
        ELSE AskCoefficient(asked[k - 1], k - 1, type)
  IN  asked[N]

(* Macroblock::parse_tokens: the headers, with coded and the skip flag,    *)
(* have been read, and the neighbours relinked.                            *)
AskY2(s, i, mbs) ==
  LET y2 == [j \in 1 .. i - 1 |-> HasNonzero(s.read[j].Y2)]
  IN  IF mbs[i].coded
      THEN AskBlock(s.d, "Y2", NonzeroAt(Y2Above(i, mbs), y2) + NonzeroAt(Y2Left(i, mbs), y2))
      ELSE [d |-> s.d, block |-> Zeros]

AskY(s, d, i, mbs) ==
  LET y == [j \in 1 .. i - 1 |-> HasNonzero(s.read[j].Y)]
  IN  AskBlock(d, YType(mbs[i]), NonzeroAt(Above(i), y) + NonzeroAt(LeftOf(i), y))

WithBlocks(s, coded, Y2, Y) ==
  [d |-> Y.d, read |-> Append(s.read, [coded |-> coded, Y2 |-> Y2.block, Y |-> Y.block])]

AskAfterY2(s, i, mbs, Y2) == WithBlocks(s, mbs[i].coded, Y2, AskY(s, Y2.d, i, mbs))

AskMacroblock(s, i, mbs) ==
  IF IsSkipped(mbs[i])
  THEN [s EXCEPT !.read = Append(@, [coded |-> mbs[i].coded, Y2 |-> Zeros, Y |-> Zeros])]
  ELSE AskAfterY2(s, i, mbs, AskY2(s, i, mbs))

ParsedFrame(symbols, mbs) ==
  LET parsed[i \in 0 .. Len(mbs)] ==
        IF i = 0 THEN [d |-> Reader(symbols), read |-> << >>] ELSE AskMacroblock(parsed[i - 1], i, mbs)
  IN  parsed[Len(mbs)]

-----------------------------------------------------------------------------

NextLevel ==
  /\ macroblocks = << >> /\ level < MaxLevel
  /\ level' = level + 1
  /\ UNCHANGED macroblocks

AddMacroblock ==
  /\ level = 0 /\ Len(macroblocks) < Columns * Rows
  /\ \E mb \in Macroblocks : macroblocks' = Append(macroblocks, mb)
  /\ UNCHANGED level

ResiduesNext == NextLevel \/ AddMacroblock

-----------------------------------------------------------------------------

(* The decoder reads back every magnitude a token can code, no more and no *)
(* less than was written, and the coefficients of a frame, asking for each *)
(* bool with the probability it was written with: encoder and decoder agree*)
(* on the contexts, across macroblocks that are skipped or have no Y2.     *)
ResiduesRoundTrip ==
  /\ level > 0 =>
       LET read == AskToken(Reader(Token(level)), [node \in Nodes |-> <<node>>])
       IN  read.value = level /\ IsRead(read)
  /\ HasRead(ParsedFrame(FrameTokens(macroblocks), macroblocks), macroblocks)
=============================================================================
