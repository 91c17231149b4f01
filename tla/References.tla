----------------------------- MODULE References -----------------------------
(***************************************************************************)
(* The three reference rasters of a decoder and how a frame's header       *)
(* replaces them: struct References of src/decoder/decoder.hh and copy_to  *)
(* of src/decoder/frame.cc.                                                *)
(***************************************************************************)
EXTENDS Integers

ReferenceNames == {"last", "golden", "alternative"}

(* What a header says of the references.  A copy of 0 copies nothing: the  *)
(* field is absent when the buffer is refreshed anyway.                    *)
ReferenceHeader ==
  [key_frame : BOOLEAN, show_frame : BOOLEAN, refresh_last : BOOLEAN,
   refresh_golden_frame : BOOLEAN, refresh_alternate_frame : BOOLEAN,
   copy_buffer_to_golden : 0 .. 2, copy_buffer_to_alternate : 0 .. 2]

WellFormed(header) ==
  /\ header.refresh_golden_frame => header.copy_buffer_to_golden = 0
  /\ header.refresh_alternate_frame => header.copy_buffer_to_alternate = 0

(* The constructor from one raster.                                        *)
AllReferences(raster) == [name \in ReferenceNames |-> raster]

CopiedAlternative(refs, header) ==
  CASE header.copy_buffer_to_alternate = 1 -> refs.last
    [] header.copy_buffer_to_alternate = 2 -> refs.golden
    [] OTHER -> refs.alternative

(* The golden buffer is copied after the other one, from what that now is. *)
CopiedGolden(refs, header) ==
  CASE header.copy_buffer_to_golden = 1 -> refs.last
    [] header.copy_buffer_to_golden = 2 -> CopiedAlternative(refs, header)
    [] OTHER -> refs.golden

(* The raster takes the places that are refreshed, after the copies.       *)
CopyTo(refs, header, raster) ==
  IF header.key_frame THEN AllReferences(raster)
  ELSE [last |-> IF header.refresh_last THEN raster ELSE refs.last,
        golden |-> IF header.refresh_golden_frame THEN raster
                   ELSE CopiedGolden(refs, header),
        alternative |-> IF header.refresh_alternate_frame THEN raster
                        ELSE CopiedAlternative(refs, header)]
=============================================================================
