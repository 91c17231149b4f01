---------------------------- MODULE FrameHeaders ----------------------------
(***************************************************************************)
(* The header of an inter frame: what src/encoder/serializer.cc writes,    *)
(* what src/decoder/frame_header.hh reads, and how encode_raster,          *)
(* reencode_as_interframe, update_residues and xc-terminate-chunk make one.*)
(* Nothing in a frame says how long its header is: if one field too many   *)
(* or too few is written, all that follows is read wrong.                  *)
(* One element stands for each array, and one field for several of a kind  *)
(* that follow each other.                                                 *)
(***************************************************************************)
EXTENDS BoolStream

CONSTANTS
  Quantizers,             \* values of y_ac_qi, and
  Deltas,                 \* of signed fields, bounds of the model
  Probs                   \* eight bit probabilities

ASSUME FrameHeadersAssumption ==
  /\ Quantizers \subseteq 0 .. 127
  /\ \A n \in Deltas : Magnitude(n) \in 0 .. 15
  /\ Probs \subseteq 1 .. 255

VARIABLES
  header,                 \* of the frame written last, and reused
  original                \* of a frame that was decoded

headerVars == <<header, original>>

-----------------------------------------------------------------------------
(* A field holds {} or {n}.  "plain" fields are always initialized; the    *)
(* others are Optional or Flagged, and have width 0 if they hold other     *)
(* fields.  A field inside another is there when that one is initialized.  *)

Field(name, inside, kind, width, label) ==
  [name |-> name, inside |-> inside, kind |-> kind, width |-> width, signed |-> FALSE, label |-> label]
SignedField(name, inside, width) == [Field(name, inside, "flagged", width, "even") EXCEPT !.signed = TRUE]

UpdateSegmentation ==
  << Field("update_segmentation", "", "flagged", 0, "even"),
     Field("update_mb_segmentation_map", "update_segmentation", "plain", 1, "even"),
     Field("segment_feature_data", "update_segmentation", "flagged", 0, "even"),
     Field("segment_feature_mode", "segment_feature_data", "plain", 1, "even"),
     SignedField("quantizer_update", "segment_feature_data", 7),
     Field("mb_segmentation_map", "update_segmentation", "optional", 0, "even"),
     Field("tree_prob", "mb_segmentation_map", "flagged", 8, "even") >>

LoopFilter ==
  << Field("loop_filter_level", "", "plain", 6, "even"),
     Field("mode_lf_adjustments", "", "flagged", 0, "even"),
     Field("delta_update", "mode_lf_adjustments", "flagged", 0, "even"),
     SignedField("ref_update", "delta_update", 6) >>

QuantIndices == << Field("y_ac_qi", "", "plain", 7, "even"), SignedField("y_dc", "", 4) >>

Buffers ==
  << Field("refresh_golden_frame", "", "plain", 1, "even"), Field("refresh_alternate_frame", "", "plain", 1, "even"),
     Field("copy_buffer_to_golden", "", "optional", 2, "even"), Field("copy_buffer_to_alternate", "", "optional", 2, "even") >>

ProbabilityFields ==
  << Field("refresh_entropy_probs", "", "plain", 1, "even"), Field("refresh_last", "", "plain", 1, "even"),
     Field("token_prob_update", "", "flagged", 8, "token"), Field("prob_skip_false", "", "flagged", 8, "even"),
     Field("prob_inter", "", "plain", 8, "even"), Field("intra_16x16_prob", "", "flagged", 8, "even"),
     Field("mv_prob_update", "", "flagged", 7, "mv") >>

(* The order of encode( BoolEncoder &, const InterFrameHeader & ).         *)
Written == UpdateSegmentation \o LoopFilter \o QuantIndices \o Buffers \o ProbabilityFields

(* The order of the members of InterFrameHeader.                           *)
Members ==
  UpdateSegmentation \o LoopFilter \o QuantIndices \o Buffers \o ProbabilityFields

FieldNames == {Members[i].name : i \in DOMAIN Members}
Unset == [name \in FieldNames |-> {}]
Has(h, name) == name = "" \/ h[name] # {}

PutUnsigned(width, n) == [i \in 1 .. width |-> Symbol((n \div 2^(width - i)) % 2 = 1, "even")]

PutNumber(f, n) ==
  PutUnsigned(f.width, Magnitude(n)) \o (IF f.signed THEN <<Symbol(n < 0, "even")>> ELSE << >>)

(* encode, of Flagged, Optional and plain fields.                          *)
PutField(f, h) ==
  (IF f.kind = "flagged" THEN <<Symbol(h[f.name] # {}, f.label)>> ELSE << >>)
  \o (IF h[f.name] = {} THEN << >> ELSE PutNumber(f, CHOOSE n \in h[f.name] : TRUE))

PutHeader(h) ==
  FlattenSeq([i \in DOMAIN Written |-> IF Has(h, Written[i].inside) THEN PutField(Written[i], h) ELSE << >>])

AskNumber(d, f) ==
  LET n == FoldLeft(LAMBDA e, i : LET a == Ask(e, "even") IN [a EXCEPT !.value = 2 * @ + Bit(a.bit)],
                    [d EXCEPT !.value = 0], [i \in 1 .. f.width |-> i])
      sign == Ask(n, "even")
  IN  IF ~f.signed THEN n ELSE [sign EXCEPT !.value = IF sign.bit THEN -@ ELSE @]

(* Whether an Optional member is read.                                     *)
MustAsk(h, name) ==
  CASE name = "copy_buffer_to_golden" -> h["refresh_golden_frame"] = {0}
    [] name = "copy_buffer_to_alternate" -> h["refresh_alternate_frame"] = {0}
    [] name = "mb_segmentation_map" -> h["update_mb_segmentation_map"] = {1}

AskField(r, f) ==
  LET flag == IF f.kind = "flagged" THEN Ask(r.d, f.label) ELSE [r.d EXCEPT !.bit = TRUE]
      there == CASE f.kind = "flagged" -> flag.bit
                 [] f.kind = "optional" -> MustAsk(r.header, f.name)
                 [] f.kind = "plain" -> TRUE
      n == AskNumber(flag, f)
  IN  IF r.d.wrong \/ ~Has(r.header, f.inside) THEN r
      ELSE IF there THEN [d |-> n, header |-> [r.header EXCEPT ![f.name] = {n.value}]]
      ELSE [r EXCEPT !.d = flag]

(* The constructor of InterFrameHeader.                                    *)
AskHeader(symbols) == FoldLeft(AskField, [d |-> Reader(symbols), header |-> Unset], Members)
-----------------------------------------------------------------------------
(* An empty frame is one decoded from zeros: all it has is what is always  *)
(* read, among it two copies that do nothing.                              *)
Empty ==
  [name \in FieldNames |->
     IF \E i \in DOMAIN Members :
          Members[i].name = name /\ Members[i].inside = ""
          /\ (Members[i].kind = "plain" \/ name \in {"copy_buffer_to_golden", "copy_buffer_to_alternate"})
     THEN {0} ELSE {}]

HeadersTypeOK ==
  /\ header \in [FieldNames -> SUBSET (-15 .. 255)]
  /\ original \in [FieldNames -> SUBSET (-15 .. 255)]

HeadersInit == header = Empty /\ original = Empty

Set(h, values) == [name \in FieldNames |-> IF name \in DOMAIN values THEN values[name] ELSE h[name]]

(* Refreshes everything, and leaves the copies.                            *)
MutantRefreshAll(h) == Set(h, [refresh_last |-> {1}, refresh_golden_frame |-> {1}, refresh_alternate_frame |-> {1}])

RefreshAll(h) ==
  Set(h, [refresh_last |-> {1}, refresh_golden_frame |-> {1}, refresh_alternate_frame |-> {1},
          copy_buffer_to_golden |-> {}, copy_buffer_to_alternate |-> {}])

(* optimize_prob_skip, optimize_interframe_probs and                       *)
(* optimize_probability_tables: an update that is not needed is not taken  *)
(* back from a header that has it.                                         *)
Optimized(h) ==
  {Set(h, [prob_skip_false |-> {skip}, prob_inter |-> IF inter = 0 THEN h["prob_inter"] ELSE {inter},
           token_prob_update |-> IF update = 0 THEN h["token_prob_update"] ELSE {update}]) :
     skip, inter, update \in {0} \cup Probs}

(* apply_best_loopfilter_settings.                                         *)
Filtered(h, level) ==
  Set(h, [loop_filter_level |-> {level}, mode_lf_adjustments |-> {0}, delta_update |-> {0}, ref_update |-> {0}])

(* encode_raster: the frame is reused, and its header with it.             *)
EncodeRaster ==
  /\ \E q \in Quantizers, h \in Optimized(header) :
       header' = Filtered(Set(h, [y_ac_qi |-> {q}, y_dc |-> {}, refresh_entropy_probs |-> {1}, refresh_last |-> {1}]),
                          q % 64)
  /\ UNCHANGED original

(* reencode_as_interframe, of a frame whose header is like this one's.     *)
ReencodeAsInterframe ==
  /\ original["update_segmentation"] = {}
  /\ \E q \in Quantizers, p \in Probs :
       LET new == Set(Empty, [y_ac_qi |-> {q}, y_dc |-> original["y_dc"], refresh_entropy_probs |-> {1},
                              intra_16x16_prob |-> {p}])
       IN  \E h \in Optimized(RefreshAll(new)) : header' = Filtered(h, q % 64)
  /\ UNCHANGED original

Kept == {Members[i].name : i \in 1 .. Len(UpdateSegmentation) + Len(LoopFilter)}
          \cup {"refresh_entropy_probs"}
BufferNames == {"refresh_last"} \cup {Buffers[i].name : i \in DOMAIN Buffers}

(* update_residues.                                                        *)
UpdateResidues(last_frame) ==
  LET kept == Set(Empty, [name \in Kept \cup (IF last_frame THEN {} ELSE BufferNames) |-> original[name]])
      whole == IF last_frame THEN RefreshAll(kept) ELSE kept
  IN  /\ \E q \in Quantizers :
           header' \in Optimized(Set(whole, [y_ac_qi |-> {q}, y_dc |-> original["y_dc"]]))
      /\ UNCHANGED original

(* The frame just written is decoded.                                      *)
DecodeWritten ==
  /\ original' = AskHeader(PutHeader(header)).header
  /\ UNCHANGED header

(* A frame of another encoder is decoded.                                  *)
DecodeAnother ==
  /\ original = Empty
  /\ \E golden, alternate \in 0 .. 1, copy \in 0 .. 2, map \in 0 .. 1, delta \in Deltas :
       original' = Set(Empty,
         [refresh_golden_frame |-> {golden}, refresh_alternate_frame |-> {alternate},
          copy_buffer_to_golden |-> IF golden = 1 THEN {} ELSE {copy},
          copy_buffer_to_alternate |-> IF alternate = 1 THEN {} ELSE {copy},
          update_segmentation |-> IF delta = 0 THEN {} ELSE {0},
          update_mb_segmentation_map |-> IF delta = 0 THEN {} ELSE {map},
          mb_segmentation_map |-> IF delta = 0 \/ map = 0 THEN {} ELSE {0},
          segment_feature_data |-> IF delta = 0 THEN {} ELSE {0},
          segment_feature_mode |-> IF delta = 0 THEN {} ELSE {1},
          quantizer_update |-> IF delta = 0 THEN {} ELSE {delta}, y_dc |-> {delta}])
  /\ UNCHANGED header

(* xc-terminate-chunk rewrites the last frame.                             *)
TerminateChunk ==
  /\ header' = RefreshAll(original)
  /\ UNCHANGED original

HeadersNext ==
  \/ EncodeRaster \/ ReencodeAsInterframe \/ DecodeWritten \/ DecodeAnother \/ TerminateChunk
  \/ \E last_frame \in BOOLEAN : UpdateResidues(last_frame)

-----------------------------------------------------------------------------

(* Whatever headers a frame's was made of, the decoder reads back every    *)
(* field of it and stops where the header ends.                            *)
HeadersRoundTrip ==
  header # Empty =>
    LET r == AskHeader(PutHeader(header))
    IN  r.header = header /\ IsRead(r.d)
=============================================================================
