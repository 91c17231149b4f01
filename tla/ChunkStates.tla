----------------------------- MODULE ChunkStates -----------------------------
(***************************************************************************)
(* A video encoded in chunks: the state of a decoder at the end of one     *)
(* chunk is written to a file (serialize in src/decoder/decoder.cc and     *)
(* src/decoder/probability_tables.cc, with                                 *)
(* src/decoder/enc_state_serializer.hh), by src/frontend/xc-dump.cc or     *)
(* xc-terminate-chunk.cc; src/frontend/xc-enc.cc starts the next chunk from*)
(* the file and puts the hash of what it restored into the IVF header;     *)
(* src/frontend/decode-bundle.cc plays the chunks one after the other with *)
(* one decoder, and compares the hash.  A state file is a sequence of items*)
(* whose octets are counted.                                               *)
(***************************************************************************)
EXTENDS Integers, Sequences, SequencesExt, References

VARIABLES
  player,               \* a decoder at this place in the first chunk
  state_file,           \* the items in the state file, << >> if there is none
  chunk_encoder,        \* what the second chunk is encoded from, {} or {decoder}
  terminated_chunk      \* the first chunk has been terminated, and the state
                        \* dumped there: a history variable

chunkVars == <<player, state_file, chunk_encoder, terminated_chunk>>

(* One value stands for the probability tables; a segmentation is absolute *)
(* or not; filter adjustments are those by mode, which the hash leaves out.*)
(* Frames leave one of three states behind.                                *)
ChunkRasters == 0 .. 1
NewSavedState == [probability_tables |-> 1, segmentation |-> {}, filter_adjustments |-> {}]
SavedStates ==
  { NewSavedState,
    [NewSavedState EXCEPT !.segmentation = {[absolute |-> FALSE, values |-> 0]}, !.filter_adjustments = {1}],
    [probability_tables |-> 2, segmentation |-> {[absolute |-> TRUE, values |-> 1]}, filter_adjustments |-> {0}],
    [probability_tables |-> 2, segmentation |-> {[absolute |-> TRUE, values |-> 1]}, filter_adjustments |-> {1}] }
Decoders == [state : SavedStates, references : [ReferenceNames -> ChunkRasters]]

ChunkInit ==
  /\ player = [state |-> NewSavedState, references |-> AllReferences(0)]
  /\ state_file = << >> /\ chunk_encoder = {} /\ terminated_chunk = FALSE

-----------------------------------------------------------------------------
(* EncoderStateSerializer.                                                 *)

(* The octets of pictures of one macroblock and of the arrays.             *)
TablesLength == 4 * 8 * 3 * 11 + 4 + 3 + 2 * 19
SegmentationLength == 4 + 4 + 4 + 1
AdjustmentsLength == 4 + 4
RasterLength == 16 * 16 + 2 * 8 * 8

Item(octets, tag, value) == [octets |-> octets, tag |-> tag, value |-> value]
OctetsOf(items) == FoldLeft(LAMBDA sum, item : sum + item.octets, 0, items)

(* What serialize puts, and what it returns: a tag, a length, the rest.    *)
SavedPart(tag, length, items) ==
  [items |-> <<Item(1, tag, 0), Item(4, "length", length)>> \o items, returned |-> length + 5]

(* Of the parts of an optional member, of which there is one at most.      *)
OptionalPart(parts) ==
  IF parts = {} THEN [items |-> <<Item(1, "OPT_EMPTY", 0)>>, returned |-> 0]
  ELSE LET part == CHOOSE part \in parts : TRUE
       IN  [items |-> <<Item(1, "OPT_FULL", 0)>> \o part.items, returned |-> part.returned]

Dimensions == <<Item(2, "width", 0), Item(2, "height", 0)>>

TablesPart(tables) == SavedPart("PROB_TABLE", TablesLength, <<Item(TablesLength, "octets", tables)>>)
SegmentationPart(s) ==
  SavedPart(IF s.absolute THEN "SEGM_ABS" ELSE "SEGM_REL", SegmentationLength,
       Dimensions \o <<Item(SegmentationLength - 4, "octets", s.values)>>)
AdjustmentsPart(a) == SavedPart("FILT_ADJ", AdjustmentsLength, <<Item(AdjustmentsLength, "octets", a)>>)

(* The tag of an optional part is counted here.                            *)
CountedLength(part) == part.returned + 1

StatePart(state) ==
  LET tables == TablesPart(state.probability_tables)
      segmentation == OptionalPart({SegmentationPart(s) : s \in state.segmentation})
      adjustments == OptionalPart({AdjustmentsPart(a) : a \in state.filter_adjustments})
  IN  SavedPart("DECODER_STATE", 4 + tables.returned + CountedLength(segmentation) + CountedLength(adjustments),
           Dimensions \o tables.items \o segmentation.items \o adjustments.items)

(* The last reference only.                                                *)
ReferencesPart(references) ==
  LET last == SavedPart("REF_LAST", RasterLength, <<Item(RasterLength, "octets", references.last)>>)
  IN  SavedPart("REFERENCES", 4 + last.returned, Dimensions \o last.items)

Serialized(decoder) ==
  LET state == StatePart(decoder.state)
      references == ReferencesPart(decoder.references)
  IN  SavedPart("DECODER", state.returned + references.returned, state.items \o references.items).items

-----------------------------------------------------------------------------
(* EncoderStateDeserializer.  fails is set where an assertion fails.       *)

Take(r) == [r EXCEPT !.in = Tail(@), !.item = Head(r.in)]

Remaining(r) == OctetsOf(r.in)

(* A tag and a length, which an assertion compares.                        *)
Opened(r, tags, lengths) ==
  LET tag == Take(r)
      length == Take(tag)
  IN  [length EXCEPT !.tag = tag.item.tag,
                     !.fails = @ \/ tag.item.tag \notin tags \/ length.item.value \notin lengths]

(* An optional member is there or not.                                     *)
RestoredOptional(r, restored) ==
  IF Head(r.in).tag = "OPT_FULL" THEN restored ELSE [Take(r) EXCEPT !.value = {}]

RestoredSegmentation(r) ==
  LET s == Opened(r, {"SEGM_ABS", "SEGM_REL"}, {SegmentationLength})
      octets == Take(Take(Take(s)))
  IN  [octets EXCEPT !.value = {[absolute |-> s.tag = "SEGM_ABS", values |-> octets.item.value]}]

RestoredAdjustments(r) ==
  LET octets == Take(Opened(r, {"FILT_ADJ"}, {AdjustmentsLength}))
  IN  [octets EXCEPT !.value = {octets.item.value}]

(* Decoder::deserialize: the other references are the last one.            *)
Deserialized(items) ==
  LET r == [in |-> items, item |-> Head(items), tag |-> "", value |-> {}, fails |-> FALSE]
      decoder == Opened(r, {"DECODER"}, {Remaining(r) - 5})
      state == Opened(decoder, {"DECODER_STATE"}, 0 .. Remaining(decoder) - 5)
      tables == Take(Opened(Take(Take(state)), {"PROB_TABLE"}, {TablesLength}))
      segmentation == RestoredOptional(tables, RestoredSegmentation(Take(tables)))
      adjustments == RestoredOptional(segmentation, RestoredAdjustments(Take(segmentation)))
      references == Opened(adjustments, {"REFERENCES"}, 0 .. Remaining(adjustments) - 5)
      last == Take(Opened(Take(Take(references)), {"REF_LAST"}, {RasterLength}))
  IN  [decoder |-> [state |-> [probability_tables |-> tables.item.value,
                               segmentation |-> segmentation.value,
                               filter_adjustments |-> adjustments.value],
                    references |-> AllReferences(last.item.value)],
       fails |-> last.fails \/ last.in # << >>]

-----------------------------------------------------------------------------

(* minihash, which leaves the adjustments by mode out.                     *)
MiniHash(decoder) ==
  [state |-> [decoder.state EXCEPT !.filter_adjustments = IF @ = {} THEN {} ELSE {0}],
   references |-> decoder.references]

(* A frame of the first chunk.                                             *)
PlayFrame(state, raster, header) ==
  /\ player' = [state |-> state, references |-> CopyTo(player.references, header, raster)]
  /\ terminated_chunk' = FALSE
  /\ UNCHANGED <<state_file, chunk_encoder>>

DumpState(decoder) == state_file' = Serialized(decoder) /\ UNCHANGED chunk_encoder

(* xc-dump: at any frame.                                                  *)
Dump == DumpState(player) /\ UNCHANGED <<player, terminated_chunk>>

(* Forgets one of the references.                                          *)
MutantTerminates(header) ==
  [header EXCEPT !.refresh_last = TRUE, !.refresh_golden_frame = TRUE, !.copy_buffer_to_golden = 0]

Terminates(header) ==
  [header EXCEPT !.refresh_last = TRUE, !.refresh_golden_frame = TRUE, !.refresh_alternate_frame = TRUE,
                 !.copy_buffer_to_golden = 0, !.copy_buffer_to_alternate = 0]

(* xc-terminate-chunk: the last frame of the chunk is rewritten, decoded,  *)
(* and the state dumped.                                                   *)
TerminateChunkWith(state, raster, header) ==
  /\ player' = [state |-> state,
                references |-> CopyTo(player.references, IF header.key_frame THEN header ELSE Terminates(header), raster)]
  /\ terminated_chunk' = TRUE
  /\ DumpState(player')

(* xc-enc --input-state: the next chunk, whose header has the hash.        *)
EncodeChunk ==
  /\ state_file # << >>
  /\ chunk_encoder' = {Deserialized(state_file).decoder}
  /\ UNCHANGED <<player, state_file, terminated_chunk>>

ChunkHeaders ==
  {header \in ReferenceHeader :
     /\ header.show_frame /\ WellFormed(header)
     /\ header.key_frame => header.refresh_last /\ header.refresh_golden_frame /\ header.refresh_alternate_frame}

ChunkNext ==
  \/ \E state \in SavedStates, header \in ChunkHeaders :
       LET raster == 1 - player.references.last
       IN  PlayFrame(state, raster, header) \/ TerminateChunkWith(state, raster, header)
  \/ Dump \/ EncodeChunk

-----------------------------------------------------------------------------

ChunkTypeOK ==
  /\ player \in Decoders
  /\ chunk_encoder = {} \/ \E d \in chunk_encoder : chunk_encoder = {d} /\ d \in Decoders
  /\ terminated_chunk \in BOOLEAN

(* Every length in a state file is that of what follows, so no assertion of*)
(* the deserializer fails; and what it makes is the decoder that was saved,*)
(* but for two references.  (There is a file: the chunk has been dumped.)  *)
StateFileRestores ==
  state_file # << >> =>
    LET read == Deserialized(Serialized(player))
    IN  /\ ~read.fails
        /\ read.decoder = [player EXCEPT !.references = AllReferences(player.references.last)]

(* A chunk that decode-bundle plays after the first one is played from the *)
(* state it was encoded from, though references are lost on the way; it is *)
(* always played after a chunk that was terminated.                        *)
ChunksFit ==
  /\ StateFileRestores
  /\ \A next \in chunk_encoder :
    /\ MiniHash(next) = MiniHash(player) =>
         /\ next.references = player.references
         /\ next.state.probability_tables = player.state.probability_tables
         /\ next.state.segmentation = player.state.segmentation
    /\ terminated_chunk /\ next = Deserialized(state_file).decoder => MiniHash(next) = MiniHash(player)
=============================================================================
