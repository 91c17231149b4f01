------------------------------ MODULE BoolCoder ------------------------------
(***************************************************************************)
(* The arithmetic coder of src/encoder/bool_encoder.hh and its inverse,    *)
(* src/decoder/bool_decoder.hh.  The code has octets of 8 bits and a       *)
(* register of four of them; here an octet has W bits.                     *)
(***************************************************************************)
EXTENDS Integers, Sequences

CONSTANTS
  W,                    \* bits of an octet
  Probabilities,        \* probabilities that are used
  Mixed,                \* how many bools use them, a bound of the model: even
                        \* chances follow
  MaxBools              \* bools coded, a bound of the model

ASSUME CoderAssumption ==
  /\ W \in Nat /\ W >= 2 /\ Mixed \in Nat /\ MaxBools \in Nat
  /\ Probabilities \subseteq 1 .. 2^W - 1

VARIABLES
  bools,                \* Seq([bit, probability]) put so far
  bool_encoder          \* [output, range, bottom, bit_count, overflowed], the last
                        \* a carry out of the first octet

coderVars == <<bools, bool_encoder>>

Octets == 0 .. 2^W - 1
Half == 2^(W - 1)
Bool(b, p) == [bit |-> b, probability |-> p]

CoderTypeOK ==
  /\ bools \in Seq([bit : BOOLEAN, probability : Probabilities \cup {Half}])
  /\ bool_encoder.output \in Seq(Octets)
  /\ bool_encoder.range \in Half .. 2^W - 1
  /\ bool_encoder.bottom \in 0 .. 2^(4 * W) - 1
  /\ bool_encoder.bit_count \in -3 * W .. -1

NewBoolEncoder ==
  [output |-> << >>, range |-> 2^W - 1, bottom |-> 0, bit_count |-> -3 * W,
   overflowed |-> FALSE]

CoderInit == bools = << >> /\ bool_encoder = NewBoolEncoder

-----------------------------------------------------------------------------

(* The part of the range that stands for a false bit.                      *)
Split(range, p) == 1 + (((range - 1) * p) \div 2^W)

(* The table vp8_norm: doublings until the range has its top bit.          *)
Norm(range) == CHOOSE s \in 0 .. W - 1 : range * 2^s \in Half .. 2^W - 1

(* Carries into the last octet only.                                       *)
MutantAddOne(output) == [output EXCEPT ![Len(output)] = (@ + 1) % (2^W)]

NotFull(output) == {i \in DOMAIN output : output[i] # 2^W - 1}

(* add_one_to_output: the last octet that is not full grows, those after it*)
(* wrap.                                                                   *)
AddOne(output) ==
  [i \in DOMAIN output |-> IF \E j \in NotFull(output) : j > i THEN output[i] ELSE (output[i] + 1) % 2^W]

(* The upper part of the interval for a true bit, the lower part for false.*)
PartRange(e, bool) ==
  LET split == Split(e.range, bool.probability) IN IF bool.bit THEN e.range - split ELSE split
PartBottom(e, bool) == IF bool.bit THEN e.bottom + Split(e.range, bool.probability) ELSE e.bottom

(* Moves a whole octet out of the register, and what it carries.           *)
ShiftOut(e, range, bottom, count) ==
  LET offset == -e.bit_count
      carry == ((bottom * 2^(offset - 1)) \div 2^(4 * W - 1)) % 2 = 1
  IN  [output |-> Append(IF carry THEN AddOne(e.output) ELSE e.output, (bottom \div 2^(3 * W - offset)) % 2^W),
       range |-> range, bottom |-> ((bottom * 2^offset) % 2^(3 * W)) * 2^count, bit_count |-> count - W,
       overflowed |-> e.overflowed \/ (carry /\ NotFull(e.output) = {})]

(* BoolEncoder::put.                                                       *)
Put(e, bool) ==
  LET range == PartRange(e, bool)
      bottom == PartBottom(e, bool)
      shift == Norm(range)
      count == e.bit_count + shift
  IN  IF count >= 0 THEN ShiftOut(e, range * 2^shift, bottom, count)
      ELSE [output |-> e.output, range |-> range * 2^shift, bottom |-> bottom * 2^shift, bit_count |-> count,
            overflowed |-> e.overflowed]

(* flush puts as many falses as the register has bits.                     *)
Flushed == 4 * W

Flush(e) ==
  LET after[k \in 0 .. Flushed] == IF k = 0 THEN e ELSE Put(after[k - 1], Bool(FALSE, Half))
  IN  after[Flushed]

Finish(e) == Flush(e).output

-----------------------------------------------------------------------------

(* load_octet: past the end of a complete chunk there are zeros.           *)
LoadOctet(d) ==
  IF d.chunk = << >> THEN d
  ELSE [d EXCEPT !.value = @ + Head(d.chunk), !.chunk = Tail(d.chunk)]

NewBoolDecoder(chunk) ==
  LET d == LoadOctet([chunk |-> chunk, value |-> 0, range |-> 2^W - 1, bit_count |-> 0, read |-> << >>])
  IN  LoadOctet([d EXCEPT !.value = @ * 2^W])

Doubled(d) ==
  LET e == [d EXCEPT !.value = @ * 2, !.range = @ * 2, !.bit_count = (@ + 1) % W]
  IN  IF e.bit_count = 0 THEN LoadOctet(e) ELSE e

(* BoolDecoder::get, whose loop doubles the range until it has its top bit.*)
Get(d, p) ==
  LET split == Split(d.range, p)
      bit == d.value >= split * 2^W
      part == IF bit THEN [d EXCEPT !.range = @ - split, !.value = @ - split * 2^W]
              ELSE [d EXCEPT !.range = split]
      after[k \in 0 .. W - 1] == IF k = 0 THEN [part EXCEPT !.read = Append(@, bit)] ELSE Doubled(after[k - 1])
  IN  after[Norm(part.range)]

DecodedBools(chunk, probabilities) ==
  LET after[k \in 0 .. Len(probabilities)] ==
        IF k = 0 THEN NewBoolDecoder(chunk) ELSE Get(after[k - 1], probabilities[k])
  IN  after[Len(probabilities)].read

-----------------------------------------------------------------------------

PutBool ==
  /\ Len(bools) < MaxBools
  /\ \E b \in BOOLEAN, p \in IF Len(bools) < Mixed THEN Probabilities ELSE {Half} :
       /\ bools' = Append(bools, Bool(b, p))
       /\ bool_encoder' = Put(bool_encoder, Bool(b, p))

CoderNext == PutBool

-----------------------------------------------------------------------------

(* Whatever was put can be read back with the same probabilities, wherever *)
(* the frame ends: carries reach the octets already written, and the octets*)
(* that finish() appends are enough.  A carry always finds an octet that is*)
(* not full (the assertion of add_one_to_output), also while flushing.     *)
BoolsRoundTrip ==
  bools # << >> =>
    /\ DecodedBools(Finish(bool_encoder), [i \in DOMAIN bools |-> bools[i].probability])
         = [i \in DOMAIN bools |-> bools[i].bit]
    /\ ~Flush(bool_encoder).overflowed
=============================================================================
