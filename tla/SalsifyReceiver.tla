-------------------------- MODULE SalsifyReceiver --------------------------
(***************************************************************************)
(* The receiver of a Salsify session (salsify-receiver.cc): it collects    *)
(* the fragments of one frame at a time, decodes the frame, keeps a copy   *)
(* of the decoder after each frame that led where the sender said it would *)
(* and acknowledges every packet with the state it is in.                  *)
(*                                                                         *)
(* The callback that handles one packet is HandlePacket; its cases are the *)
(* paths through the callback.                                             *)
(*                                                                         *)
(* A definition named Mutant... is the definition after it with a mistake  *)
(* a programmer could make, as in SalsifySender.                           *)
(***************************************************************************)
EXTENDS DecoderHashes

VARIABLES
  receiver,           (* "running", or the exception that ended the program *)
  next_frame_no,      (* the frame being collected                          *)
  fragmented_frames,  (* frame number => fragments received so far          *)
  current_state,      (* hash of the player's decoder                       *)
  complete_states,    (* hashes of the saved decoders, oldest first         *)
  decoders            (* keys of the map hash => saved decoder              *)

receiver_vars == <<receiver, next_frame_no, fragmented_frames, current_state,
                   complete_states, decoders>>

DataPacket == [own : BOOLEAN, frame_no : Nat, fragment_no : Nat, fragments : Nat,
               source_state : Hash, target_state : Hash]

FragmentedFrame == [source_state : Hash, target_state : Hash,
                    fragments : Nat, valid : SUBSET Nat]

ReceiverTypeOK ==
  /\ receiver \in {"running", "out_of_range", "invalid_packet"}
  /\ next_frame_no \in Nat
  /\ DOMAIN fragmented_frames \in SUBSET Nat
  /\ \A i \in DOMAIN fragmented_frames :
       /\ fragmented_frames[i] \in FragmentedFrame
       /\ fragmented_frames[i].valid \subseteq 0 .. fragmented_frames[i].fragments - 1
  /\ current_state \in Hash \cup {Corrupt}
  /\ complete_states \in Seq(Hash)
  /\ decoders \in SUBSET Hash

ReceiverInit ==
  /\ receiver = "running"
  /\ next_frame_no = 0
  /\ fragmented_frames = << >>
  /\ current_state = Initial
  /\ complete_states = << >>
  /\ decoders = {Initial}

-----------------------------------------------------------------------------
(***************************************************************************)
(* Packets that change nothing, and packets that end the program.          *)
(***************************************************************************)

IsLate(p) == p.frame_no < next_frame_no

(* The constructor of Packet rejects such a header.                        *)
IsMalformed(p) == p.fragment_no >= p.fragments

(* A packet of a later frame makes the receiver give up the frames before  *)
(* it.  The loss rate of the frame being collected is computed first, from *)
(* a fragment of it that must have been received.                          *)
Overtakes(p) == p.frame_no > next_frame_no
MissesWholeFrame(p) == Overtakes(p) /\ next_frame_no \notin DOMAIN fragmented_frames

(* FragmentedFrame.sanity_check: of the same session, and the same header  *)
(* fields as the first packet of this frame.                               *)
IsMismatched(p) ==
  \/ ~p.own
  \/ /\ p.frame_no \in DOMAIN fragmented_frames
     /\ LET f == fragmented_frames[p.frame_no] IN
        \/ f.source_state # p.source_state
        \/ f.target_state # p.target_state
        \/ f.fragments # p.fragments

IsAccepted(p) ==
  ~IsMalformed(p) /\ ~IsLate(p) /\ ~MissesWholeFrame(p) /\ ~IsMismatched(p)

Fail(exception) ==
  /\ receiver' = exception
  /\ UNCHANGED <<next_frame_no, fragmented_frames, current_state,
                 complete_states, decoders>>

RejectMalformed(p) == IsMalformed(p) /\ Fail("invalid_packet")

IgnoreLate(p) == ~IsMalformed(p) /\ IsLate(p) /\ UNCHANGED receiver_vars

MissWholeFrame(p) == ~IsMalformed(p) /\ MissesWholeFrame(p) /\ Fail("out_of_range")

RejectMismatched(p) ==
  /\ ~IsMalformed(p) /\ ~IsLate(p) /\ ~MissesWholeFrame(p)
  /\ IsMismatched(p)
  /\ Fail("invalid_packet")

-----------------------------------------------------------------------------
(***************************************************************************)
(* Packets that are stored.                                                *)
(***************************************************************************)

(* Starts after the frame being collected.                                 *)
MutantGivenUp(p) == {i \in DOMAIN fragmented_frames : next_frame_no < i /\ i < p.frame_no}

(* The frames given up: each one's leading fragments are decoded, if there *)
(* are any, which leaves the decoder in a state no encoder was in.         *)
GivenUp(p) == {i \in DOMAIN fragmented_frames : next_frame_no <= i /\ i < p.frame_no}

StateAfterGivingUp(p) ==
  IF \E i \in GivenUp(p) : 0 \in fragmented_frames[i].valid
  THEN Corrupt ELSE current_state

(* The fragments of p's frame, with p among them.                          *)
Collected(p) ==
  [source_state |-> p.source_state, target_state |-> p.target_state,
   fragments |-> p.fragments,
   valid |-> {p.fragment_no} \cup
             (IF p.frame_no \in DOMAIN fragmented_frames
              THEN fragmented_frames[p.frame_no].valid ELSE {})]

(* Does not wait for fragment 0.                                           *)
MutantCompletes(p) == Collected(p).valid = 1 .. p.fragments - 1

Completes(p) == Collected(p).valid = 0 .. p.fragments - 1

(* A frame that is still incomplete.                                       *)
StoreFragment(p) ==
  /\ IsAccepted(p) /\ ~Completes(p)
  /\ next_frame_no' = p.frame_no
  /\ current_state' = StateAfterGivingUp(p)
  /\ fragmented_frames' =
       [i \in (DOMAIN fragmented_frames \ GivenUp(p)) \cup {p.frame_no} |->
          IF i = p.frame_no THEN Collected(p) ELSE fragmented_frames[i]]
  /\ UNCHANGED <<receiver, complete_states, decoders>>

(* Takes it for granted that the source was saved.                         *)
MutantLoadsUnsaved(p) == p.source_state

(* The state the frame is decoded on: its source, when it was saved.       *)
LoadedState(p) ==
  IF p.source_state \in decoders THEN p.source_state ELSE StateAfterGivingUp(p)

(* Everything saved before the frame's source is thrown away, unless the   *)
(* source is the initial state.                                            *)
PruneStopsAfter(p, k) ==
  IF LoadedState(p) = p.source_state /\ p.source_state # Initial
  THEN StopsAfter(complete_states, {p.source_state}, k)
  ELSE k = 0

(* Erases nothing from the map.                                            *)
MutantErasesNothing(k) == {}

(* Erases the source as well.                                              *)
MutantErasesSource(k) ==
  Range(SubSeq(complete_states, 1, IF k < Len(complete_states) THEN k + 1 ELSE k))

(* The saved decoders erased with the first k states.                      *)
ErasedDecoders(k) == Range(SubSeq(complete_states, 1, k))

(* Decoding on the source leads to the target; on anything else, nowhere.  *)
DecodedState(p) ==
  IF LoadedState(p) = p.source_state THEN p.target_state ELSE Corrupt

(* Does not list a state again that is saved already.                      *)
MutantSavesOnce(p) ==
  /\ DecodedState(p) = p.target_state /\ p.target_state # Initial
  /\ p.target_state \notin decoders

IsSaved(p) == DecodedState(p) = p.target_state /\ p.target_state # Initial

(* The last missing fragment of a frame: decode it, and save the decoder.  *)
ApplyFrame(p) ==
  /\ IsAccepted(p) /\ Completes(p)
  /\ next_frame_no' = p.frame_no + 1
  /\ fragmented_frames' =
       [i \in DOMAIN fragmented_frames \ (GivenUp(p) \cup {p.frame_no}) |->
          fragmented_frames[i]]
  /\ current_state' = DecodedState(p)
  /\ \E k \in 0 .. Len(complete_states) :
       LET kept == SubSeq(complete_states, k + 1, Len(complete_states))
       IN /\ PruneStopsAfter(p, k)
          /\ complete_states' = IF IsSaved(p) THEN Append(kept, p.target_state) ELSE kept
          /\ decoders' = (decoders \ ErasedDecoders(k)) \cup
                         (IF IsSaved(p) THEN {p.target_state} ELSE {})
  /\ UNCHANGED receiver

HandlePacket(p) ==
  /\ receiver = "running"
  /\ \/ RejectMalformed(p)
     \/ IgnoreLate(p)
     \/ MissWholeFrame(p)
     \/ RejectMismatched(p)
     \/ StoreFragment(p)
     \/ ApplyFrame(p)

(* The acknowledgement that ends the callback, from the new values of the  *)
(* receiver's variables; a packet that is not accepted is not acknowledged.*)
AckFor(p) ==
  [own |-> TRUE, frame_no |-> p.frame_no, fragment_no |-> p.fragment_no,
   current_state |-> current_state', complete_states |-> complete_states']

-----------------------------------------------------------------------------
(***************************************************************************)
(* What the receiver's bookkeeping guarantees whatever packets arrive.     *)
(***************************************************************************)

(* Fragments are held of the frame being collected and of no other one: a  *)
(* packet that is ahead moves the receiver to its frame, so the map cannot *)
(* grow although nothing bounds it.                                        *)
CollectsOneFrame == DOMAIN fragmented_frames \subseteq {next_frame_no}

(* A saved decoder is listed, so an ack names every state the receiver can *)
(* go back to, and the search for a source that is saved finds it: the     *)
(* assertion it != complete_states.end().                                  *)
SavedIsListed == decoders \subseteq {Initial} \cup Range(complete_states)

(* A state that is neither initial nor corrupt is the newest saved one:    *)
(* what an ack calls current is never a state the receiver has pruned.     *)
CurrentIsNewest ==
  current_state \in {Initial, Corrupt, Back(complete_states, Initial)}

(* The converse of SavedIsListed: the receiver can go back to every state  *)
(* its acks list.                                                          *)
ListedIsSaved == Range(complete_states) \subseteq decoders
=============================================================================
