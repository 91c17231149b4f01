---------------------------- MODULE FrameLayout -----------------------------
(***************************************************************************)
(* A compressed frame and its partitions: make_frame of                    *)
(* src/encoder/serializer.cc, UncompressedChunk of                         *)
(* src/decoder/uncompressed_chunk.cc, and the bounds checks of             *)
(* src/util/chunk.hh.  Of the octets of a frame only those that say where  *)
(* its parts are are kept; a partition is the range of its octets, first   *)
(* and length.                                                             *)
(***************************************************************************)
EXTENDS Integers, Sequences

CONSTANTS
  FirstLengths,           \* lengths of a first partition, and
  DctLengths,             \* of a DCT partition, bounds of the model
  DctCounts,              \* how many DCT partitions there are
  Cuts                    \* octets a frame may lack, or have left when it is cut short

ASSUME FrameLayoutAssumption ==
  /\ FirstLengths \subseteq Nat \ {0}
  /\ DctLengths \subseteq Nat \ {0} /\ \A n \in DctLengths : n < 2^24
  /\ DctCounts \subseteq Nat \ {0}
  /\ Cuts \subseteq Nat

VARIABLES
  frame,                  \* what make_frame was given
  received,               \* how many octets of it there are
  accept_partial          \* error concealment is on

layoutVars == <<frame, received, accept_partial>>

Levels == {"NO_CORRUPTION", "CORRUPTED_FIRST_PARTITION", "CORRUPTED_FRAME", "Invalid"}

Frames == [key : BOOLEAN, show : BOOLEAN, first : FirstLengths,
           dct : UNION {[1 .. num -> DctLengths] : num \in DctCounts}]

-----------------------------------------------------------------------------
(* make_frame.                                                             *)

HeaderLength(key) == IF key THEN 10 ELSE 3
Flag(b, value) == IF b THEN value ELSE 0

(* The three octets of the tag; three of the length's bits are in the      *)
(* first, and there are 19.                                                *)
Tag(f) ==
  << Flag(~f.key, 1) + Flag(f.show, 16) + (f.first % 8) * 32,
     (f.first \div 8) % 256,
     (f.first \div 2048) % 256 >>

LengthOctets(n) == <<n % 256, (n \div 256) % 256, (n \div 65536) % 256>>

(* All partitions but the last have their length before the partitions.    *)
DctStart(f) == HeaderLength(f.key) + f.first + 3 * (Len(f.dct) - 1)

(* The octets of the first k partitions, by k.                             *)
Sums(lengths) ==
  LET sum[k \in 0 .. Len(lengths)] == IF k = 0 THEN 0 ELSE sum[k - 1] + lengths[k] IN sum

Size(f) == DctStart(f) + Sums(f.dct)[Len(f.dct)]

WrittenDct(f) == [k \in DOMAIN f.dct |-> [first |-> DctStart(f) + Sums(f.dct)[k - 1], length |-> f.dct[k]]]

(* An octet, by its place, of those that are not inside a partition.       *)
Octet(f, place) ==
  LET after == place - HeaderLength(f.key) - f.first
  IN  IF place < 3 THEN Tag(f)[place + 1]
      ELSE IF after >= 0 /\ after < 3 * (Len(f.dct) - 1)
      THEN LengthOctets(f.dct[(after \div 3) + 1])[(after % 3) + 1]
      ELSE 0
-----------------------------------------------------------------------------
(* UncompressedChunk.                                                      *)

Key(f) == Octet(f, 0) % 2 = 0
Show(f) == (Octet(f, 0) \div 16) % 2 = 1
FirstLength(f) == (Octet(f, 0) + 256 * Octet(f, 1) + 65536 * Octet(f, 2)) \div 32
Offset(f) == HeaderLength(Key(f))

(* A frame with just its first partition is taken for a whole one.         *)
MutantLacksData(f) == received < Offset(f) + FirstLength(f)

LacksData(f) == received <= Offset(f) + FirstLength(f)

(* Reading past the end throws out_of_range, which the constructor catches.*)
Level(f) ==
  IF received < 3 \/ received < Offset(f)
  THEN IF accept_partial THEN "CORRUPTED_FRAME" ELSE "Invalid"
  ELSE IF LacksData(f)
  THEN IF accept_partial THEN "CORRUPTED_FIRST_PARTITION" ELSE "Invalid"
  ELSE "NO_CORRUPTION"

FirstPartition(f) ==
  IF Level(f) = "CORRUPTED_FRAME" THEN [first |-> 0, length |-> 0]
  ELSE [first |-> Offset(f),
        length |-> IF Level(f) = "CORRUPTED_FIRST_PARTITION" THEN received - Offset(f) ELSE FirstLength(f)]

(* What follows it, nothing unless the first partition is whole.           *)
RestOfFrame(f) ==
  LET start == Offset(f) + FirstLength(f)
  IN  IF Level(f) = "NO_CORRUPTION" THEN [first |-> start, length |-> received - start]
      ELSE [first |-> 0, length |-> 0]

(* The lengths between the first partition and the others.                 *)
PartitionLengths(f, num) ==
  LET end(k) == RestOfFrame(f).first + 3 * k
  IN  [k \in 1 .. num - 1 |-> Octet(f, end(k) - 3) + 256 * Octet(f, end(k) - 2) + 65536 * Octet(f, end(k) - 1)]

(* dct_partitions( num ), {} if it throws.                                 *)
DctPartitions(f, num) ==
  LET lengths == PartitionLengths(f, num)
      start == RestOfFrame(f).first + 3 * (num - 1)
      end == RestOfFrame(f).first + RestOfFrame(f).length
      at(k) == start + Sums(lengths)[k - 1]
      parts == [k \in 1 .. num |-> [first |-> at(k), length |-> IF k < num THEN lengths[k] ELSE end - at(k)]]
  IN  IF start > end \/ at(num) > end THEN {} ELSE {parts}

Corrupted(f) == Level(f) \in {"CORRUPTED_FIRST_PARTITION", "CORRUPTED_FRAME"}
KeyFrame(f) == Key(f) /\ Level(f) # "CORRUPTED_FRAME"
-----------------------------------------------------------------------------
(* The macroblock headers are read from a BoolDecoder, which reads zeros   *)
(* when it has been asked for more octets than the first partition has.    *)

BeyondEnd(f, asked) == asked > FirstPartition(f).length

(* What parse_and_apply tells the BoolDecoder and the macroblocks.         *)
CompleteChunk(f) == Corrupted(f)
ErrorConcealment(f) == ~KeyFrame(f) /\ Corrupted(f)

(* BoolDecoder::valid.                                                     *)
Valid(f, asked) == ~BeyondEnd(f, asked) \/ CompleteChunk(f)

(* The macroblock is taken from the last frame.                            *)
Concealed(f, asked) == ErrorConcealment(f) /\ ~Valid(f, asked)
-----------------------------------------------------------------------------

LayoutTypeOK ==
  /\ frame \in Frames
  /\ received \in 0 .. Size(frame)
  /\ accept_partial \in BOOLEAN
  /\ Level(frame) \in Levels

LayoutInit ==
  /\ frame \in Frames
  /\ received = Size(frame)
  /\ accept_partial \in BOOLEAN

(* The end of the frame is lost.                                           *)
LoseEnd ==
  /\ received = Size(frame)
  /\ \E n \in Cuts : received' \in {n, received - n} \cap 0 .. Size(frame)
  /\ UNCHANGED <<frame, accept_partial>>

LayoutNext == LoseEnd

LayoutSpec == LayoutInit /\ [][LayoutNext]_layoutVars

-----------------------------------------------------------------------------

(* A whole frame is taken apart where it was put together.  19 bits say how*)
(* long its first partition is: of a longer one make_frame writes the rest *)
(* modulo 2^19 without a word, and the parser takes the frame, with a first*)
(* partition that is too short, for a whole one.                           *)
WholeFramesAreRead ==
  received = Size(frame) =>
    /\ Key(frame) = frame.key /\ Show(frame) = frame.show
    /\ Level(frame) = "NO_CORRUPTION"
    /\ FirstPartition(frame) = [first |-> HeaderLength(frame.key), length |-> frame.first % 2^19]
    /\ frame.first < 2^19 => DctPartitions(frame, Len(frame.dct)) = {WrittenDct(frame)}

(* A frame that ends before its last DCT partition is never read as a whole*)
(* one, and no partition reaches beyond what was received; a shorter last  *)
(* DCT partition is all the decoder sees of a frame cut later.             *)
CutIsNoticed ==
  received >= 3 /\ frame.first < 2^19 =>
    LET whole == Level(frame) = "NO_CORRUPTION"
        dct == DctPartitions(frame, Len(frame.dct))
        last == WrittenDct(frame)[Len(frame.dct)].first
    IN  /\ whole => received > HeaderLength(frame.key) + frame.first
        /\ whole /\ received < last => dct = {}
        /\ \A parts \in dct : whole =>
             \A k \in DOMAIN parts : parts[k].first + parts[k].length <= received
        /\ Level(frame) = "CORRUPTED_FIRST_PARTITION" => FirstPartition(frame).length <= frame.first

(* The parser finds what make_frame wrote, and notices what a lost fragment*)
(* has cut off.                                                            *)
LayoutRoundTrip == WholeFramesAreRead /\ CutIsNoticed

(* "when the error concealment is on, in the case of the missing header    *)
(* information this constructor will create a macroblock that is           *)
(* inter-predicted based on the LAST reference" (macroblock.cc:467): a     *)
(* macroblock whose header was in the octets that are lost is concealed.   *)
(* It is not, since parse_and_apply tells the decoder of a partition that  *)
(* was cut that it is complete.                                            *)
LostHeadersAreConcealed ==
  accept_partial /\ ~KeyFrame(frame) =>
    \A asked \in 1 .. frame.first : BeyondEnd(frame, asked) => Concealed(frame, asked)
=============================================================================
