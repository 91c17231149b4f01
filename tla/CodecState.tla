----------------------------- MODULE CodecState -----------------------------
(***************************************************************************)
(* The state an encoder and a decoder share: DecoderState and References of*)
(* src/decoder/decoder.hh, what a frame's header does to them in the       *)
(* decoder (decoder_state.hh) and in the encoder (encoder.cc,              *)
(* encode_intra.cc, encode_inter.cc, reencode.cc), and the hash that stands*)
(* for them on the network.  One coefficient probability stands for all the*)
(* tables, 1 being its default, and one adjustment by mode for the loop    *)
(* filter's adjustments; a raster is known by its contents.  An optional   *)
(* value is a set of at most one.                                          *)
(***************************************************************************)
EXTENDS Integers, References

VARIABLES
  encoding,             \* the encoder has been made
  encoder,              \* its DecoderState, References and reused frames
  decoder,              \* a decoder that gets every frame
  viewer,               \* one that misses frames, and decodes those whose
                        \* source has its hash, as long as none is borrowed
  segmented,            \* the encoder has met segmentation, a history variable
  borrowed              \* the encoder's state has seen headers it did not make, a
                        \* history variable

codecVars == <<encoding, encoder, decoder, viewer, segmented, borrowed>>

Absent == {}
Optional(S) == {Absent} \cup {{s} : s \in S}
Contents == 1 .. 2
Garbled == 0            \* the contents of a raster decoded on another state
NoUpdate == 0
TableValues == 1 .. 2
Adjustments == 0 .. 1
Segments == {"segments"}

(* DecoderState( width, height ) and References( width, height ).          *)
NewState == [probability_tables |-> 1, segmentation |-> Absent, filter_adjustments |-> Absent]
NewDecoder == [state |-> NewState, references |-> AllReferences(Garbled)]

(* Encoder( width, height ): its frames have no updates yet.  The key frame*)
(* is used once only.                                                      *)
NewEncoder ==
  [state |-> NewState, references |-> AllReferences(Garbled), has_state |-> FALSE,
   inter_frame |-> NoUpdate]

States ==
  [probability_tables : TableValues, segmentation : Optional(Segments),
   filter_adjustments : Optional(Adjustments)]
RasterReferences == [ReferenceNames -> Contents \cup {Garbled}]

CodecTypeOK ==
  /\ encoding \in BOOLEAN
  /\ encoder \in
       [state : States, references : RasterReferences, has_state : BOOLEAN,
        inter_frame : TableValues \cup {NoUpdate}]
  /\ decoder \in [state : States, references : RasterReferences]
  /\ viewer \in [state : States, references : RasterReferences]
  /\ segmented \in BOOLEAN /\ borrowed \in BOOLEAN

CodecInit ==
  /\ encoding = FALSE /\ encoder = NewEncoder
  /\ decoder = NewDecoder /\ viewer = NewDecoder
  /\ segmented = FALSE /\ borrowed = FALSE

-----------------------------------------------------------------------------

(* What of a header has an effect on the state.  The adjustments may be    *)
(* given, {{1}}, kept, {{}}, or switched off, {}.                          *)
Updates ==
  [key_frame : BOOLEAN, refresh_entropy_probs : BOOLEAN,
   token_prob_update : {NoUpdate, 2},
   mode_lf_adjustments : Optional(Optional({1})),
   update_segmentation : Optional(Segments)]

WithReferences(updates, last, both, copy) ==
  [key_frame |-> updates.key_frame,
   refresh_entropy_probs |-> updates.refresh_entropy_probs,
   token_prob_update |-> updates.token_prob_update,
   mode_lf_adjustments |-> updates.mode_lf_adjustments,
   update_segmentation |-> updates.update_segmentation,
   show_frame |-> TRUE, refresh_last |-> last, refresh_golden_frame |-> both,
   refresh_alternate_frame |-> both, copy_buffer_to_golden |-> copy,
   copy_buffer_to_alternate |-> 0]

Headers ==
  {WithReferences(u, TRUE, b, 0) : u \in Updates, b \in BOOLEAN}
    \cup {WithReferences(u, FALSE, FALSE, 1) : u \in {v \in Updates : ~v.key_frame}}

Tables(tables, header) ==
  IF header.token_prob_update = NoUpdate THEN tables ELSE header.token_prob_update

(* FilterAdjustments::update, on a new object if there was none.           *)
UpdatedAdjustments(old, header) ==
  CASE header.mode_lf_adjustments = Absent -> Absent
    [] header.mode_lf_adjustments = {Absent} -> IF old = Absent THEN {0} ELSE old
    [] OTHER -> UNION header.mode_lf_adjustments

(* parse_and_apply, for both kinds of frames.  A key frame starts from     *)
(* default values.                                                         *)
Applied(state, header) ==
  LET old == IF header.key_frame THEN NewState ELSE state
  IN  [probability_tables |->
         IF header.refresh_entropy_probs THEN Tables(old.probability_tables, header)
         ELSE old.probability_tables,
       segmentation |-> header.update_segmentation,
       filter_adjustments |-> UpdatedAdjustments(old.filter_adjustments, header)]

(* Leaves adjustments on when the header switches them off.                *)
MutantEncoderApplied(state, header) ==
  IF header.mode_lf_adjustments = Absent /\ ~header.key_frame
  THEN [Applied(state, header) EXCEPT !.filter_adjustments = state.filter_adjustments]
  ELSE Applied(state, header)

(* Encoder::update_decoder_state.  On an inter frame segmentation is left  *)
(* as it was inherited.                                                    *)
EncoderApplied(state, header) ==
  IF header.key_frame THEN Applied(state, header)
  ELSE [Applied(state, header) EXCEPT !.segmentation = state.segmentation]

(* What the pixels of a frame depend on besides its bits: the tables they  *)
(* are coded with, the state they are decoded in, and the references.      *)
Inputs(tables, state, references, header) ==
  <<Tables(tables, header), state.segmentation, state.filter_adjustments,
    IF header.key_frame THEN Absent ELSE references>>

(* parse_frame and decode_frame of the frame written by an encoder, which  *)
(* serializes it with tables it has updated before.                        *)
Decoded(party, writer, header, contents) ==
  LET state == Applied(party.state, header)
      written == EncoderApplied(writer.state, header)
      tables == IF header.key_frame THEN 1 ELSE party.state.probability_tables
      same == Inputs(tables, state, party.references, header)
                = Inputs(written.probability_tables, written, writer.references, header)
  IN  [state |-> state,
       references |-> CopyTo(party.references, header, IF same THEN contents ELSE Garbled)]

(* DecoderHash: the adjustments by mode are left out, because the range    *)
(* that should cover them ends where it begins.                            *)
Hash(party) ==
  [tables |-> party.state.probability_tables, segmentation |-> party.state.segmentation,
   adjusted |-> party.state.filter_adjustments # Absent,
   references |-> party.references]

-----------------------------------------------------------------------------

(* Frames of another encoder are decoded.                                  *)
DecodeForeign(header, contents) ==
  /\ ~encoding
  /\ decoder' = [state |-> Applied(decoder.state, header),
                 references |-> CopyTo(decoder.references, header, contents)]
  /\ UNCHANGED <<encoding, encoder, viewer, segmented, borrowed>>

(* An encoder starts from nothing, or from the state of a decoder.         *)
MakeEncoder(inherits) ==
  /\ ~encoding /\ encoding' = TRUE
  /\ encoder' = IF inherits
                THEN [NewEncoder EXCEPT !.state = decoder.state, !.has_state = TRUE,
                                        !.references = decoder.references]
                ELSE NewEncoder
  /\ decoder' = IF inherits THEN decoder ELSE NewDecoder
  /\ UNCHANGED viewer
  /\ segmented' = (encoder'.state.segmentation # Absent)
  /\ borrowed' = inherits

(* The copy constructor copies the state and makes new frames.             *)
CopyEncoder ==
  /\ encoding
  /\ encoder' = [encoder EXCEPT !.inter_frame = NoUpdate]
  /\ UNCHANGED <<encoding, decoder, viewer, segmented, borrowed>>

(* optimize_probability_tables: nothing is reset in a frame that is used   *)
(* again, so an update stays if the best value is the current one.         *)
OptimizedTables(update, best, tables) ==
  IF best # NoUpdate /\ best # tables THEN best ELSE update

(* write_frame, and the decoder and perhaps the viewer getting the frame.  *)
WriteFrame(header, contents, inter_frame, missed) ==
  /\ encoding
  /\ encoder' = [state |-> EncoderApplied(encoder.state, header), has_state |-> TRUE,
                 references |-> CopyTo(encoder.references, header, contents),
                 inter_frame |-> inter_frame]
  /\ decoder' = Decoded(decoder, encoder, header, contents)
  /\ viewer' = IF borrowed' \/ missed \/ Hash(viewer) # Hash(encoder) THEN viewer
               ELSE Decoded(viewer, encoder, header, contents)
  /\ UNCHANGED encoding

(* encode_with_...: one frame, whose updates may have been optimized for   *)
(* two quantizers one after the other.  The first frame is a key frame.    *)
Encode(one, two, contents, missed) ==
  LET key == ~encoder.has_state
      tables == IF key THEN 1 ELSE encoder.state.probability_tables
      reused == IF key THEN NoUpdate ELSE encoder.inter_frame
      update == OptimizedTables(OptimizedTables(reused, one, tables), two, tables)
      updates == [key_frame |-> key, refresh_entropy_probs |-> TRUE,
                  token_prob_update |-> update, mode_lf_adjustments |-> {{0}},
                  update_segmentation |-> Absent]
  IN  /\ UNCHANGED <<segmented, borrowed>>
      /\ WriteFrame(WithReferences(updates, TRUE, FALSE, 0), contents,
                    IF key THEN encoder.inter_frame ELSE update, missed)

(* reencode: the header of another stream's frame is written with residues *)
(* made for this encoder's references.                                     *)
Rewrite(header, contents) ==
  /\ encoder.has_state
  /\ segmented' = (segmented \/ header.update_segmentation # Absent)
  /\ borrowed' = TRUE
  /\ WriteFrame(header, contents, encoder.inter_frame, FALSE)

CodecNext ==
  \/ \E header \in Headers : DecodeForeign(header, 1) \/ Rewrite(header, 1)
  \/ \E inherits \in BOOLEAN : MakeEncoder(inherits)
  \/ CopyEncoder
  \/ \E one, two \in TableValues \cup {NoUpdate}, contents \in Contents, missed \in BOOLEAN :
       Encode(one, two, contents, missed)

-----------------------------------------------------------------------------

(* Without segmentation, an encoder's idea of the decoder's state is that  *)
(* state after every frame, whatever updates its reused frames still carry *)
(* and whatever headers it rewrites.  If it started from nothing and makes *)
(* its frames itself, a decoder that has missed some of them and has the   *)
(* hash of its state has that state; borrowed headers may differ in what   *)
(* the hash leaves out.                                                    *)
EncoderFollowsDecoder ==
  encoding /\ ~segmented =>
    /\ encoder.state = decoder.state /\ encoder.references = decoder.references
    /\ ~borrowed /\ Hash(viewer) = Hash(encoder) => viewer.state = encoder.state
=============================================================================
