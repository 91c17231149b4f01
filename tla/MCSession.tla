----------------------------- MODULE MCSession -----------------------------
(* Instances of SalsifySession for TLC: the datagrams from elsewhere.      *)
EXTENDS SalsifySession

NoStrays == {}

(* A malformed header, and well-formed packets of another session.         *)
MCStrayPackets ==
  [own : {TRUE}, frame_no : {0}, fragment_no : {1}, fragments : {1},
   source_state : {0}, target_state : {1}]
  \cup
  [own : {FALSE}, frame_no : 0 .. 1, fragment_no : {0}, fragments : {1},
   source_state : {0}, target_state : {1}]

MCStrayAcks ==
  [own : {FALSE}, frame_no : {0}, fragment_no : {0}, current_state : {Corrupt},
   complete_states : {<< >>}]
=============================================================================
