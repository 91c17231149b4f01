--------------------------- MODULE SalsifySender ---------------------------
(***************************************************************************)
(* The sender of a Salsify session (salsify-sender.cc): it keeps one       *)
(* encoder for each decoder state the receiver may be in, picks from the   *)
(* acknowledgements the state to encode the next camera frame against, and *)
(* hands the fragments of the encoded frame to the network.                *)
(*                                                                         *)
(* Every action is one callback of the sender's event loop, which runs     *)
(* them one at a time.  The actions do not say where packets go or where   *)
(* acks come from: SalsifySession does.                                    *)
(*                                                                         *)
(* A definition named Mutant... is the definition after it with a mistake  *)
(* a programmer could make; nothing uses it, it is there to be put in the  *)
(* place of that definition to see that a property notices.                *)
(***************************************************************************)
EXTENDS DecoderHashes

CONSTANTS
  MaxFrames,     (* bound of the model: frames sent in a session            *)
  MaxFragments,  (* bound of the model: packets a frame is split into       *)
  MaxSkipped,    (* MAX_SKIPPED: frames that may be skipped in a row        *)
  StillPicture   (* TRUE when the camera may show the same picture twice    *)

ASSUME SenderAssumption ==
  /\ MaxFrames \in Nat
  /\ MaxFragments \in Nat \ {0}
  /\ MaxSkipped \in Nat
  /\ StillPicture \in BOOLEAN

VARIABLES
  sender,                     (* which callback is due, or "out_of_range"   *)
  job_source,                 (* hash of the encoder copied into encode_jobs*)
  skipped_count,              (* frames skipped since the last one sent     *)
  cumulative_fpf,             (* fragments sent up to and with each frame   *)
  encoder_states,             (* hashes of the stored encoders, oldest first*)
  encoders,                   (* keys of the map hash => encoder            *)
  receiver_assumed_state,     (* target of the last frame sent              *)
  receiver_last_acked_state,  (* current_state of the last ack accepted     *)
  receiver_complete_states,   (* complete_states of the last ack accepted   *)
  last_acked,                 (* sequence number of the last ack accepted   *)
  conservative,               (* now < conservative_until                   *)
  encodings                   (* history: <<source, target>> of each frame  *)

acked_vars == <<receiver_last_acked_state, receiver_complete_states, last_acked>>
encoder_vars == <<encoder_states, encoders>>
sent_vars == <<cumulative_fpf, receiver_assumed_state, encodings>>
sender_vars == <<sender, job_source, skipped_count, conservative,
                 acked_vars, encoder_vars, sent_vars>>

(* frame_no grows by one with every element pushed on cumulative_fpf.      *)
frame_no == Len(cumulative_fpf)

AckPacket == [own : BOOLEAN, frame_no : Nat, fragment_no : Nat,
              current_state : Hash \cup {Corrupt}, complete_states : Seq(Hash)]

SenderTypeOK ==
  /\ sender \in {"fetch", "encode", "out_of_range"}
  /\ job_source \in Hash \cup {None}
  /\ skipped_count \in 0 .. MaxSkipped
  /\ cumulative_fpf \in Seq(Nat)
  /\ encoder_states \in Seq(Hash)
  /\ encoders \in SUBSET Hash
  /\ receiver_assumed_state \in Hash \cup {None}
  /\ receiver_last_acked_state \in Hash \cup {Corrupt, None}
  /\ receiver_complete_states \in Seq(Hash)
  /\ last_acked \in Nat \cup {None}
  /\ conservative \in BOOLEAN
  /\ encodings \in SUBSET (Hash \X Hash)

SenderInit ==
  /\ sender = "fetch"
  /\ job_source = None
  /\ skipped_count = 0
  /\ cumulative_fpf = << >>
  /\ encoder_states = << >>
  /\ encoders = {Initial}
  /\ receiver_assumed_state = None
  /\ receiver_last_acked_state = None
  /\ receiver_complete_states = << >>
  /\ last_acked = None
  /\ conservative = FALSE
  /\ encodings = {}

-----------------------------------------------------------------------------
(***************************************************************************)
(* Fetching a raster and starting the encoding jobs.                       *)
(***************************************************************************)

(* The stored encoders are pruned when the receiver reported a state that  *)
(* one of them has.                                                        *)
CleanupDue ==
  /\ receiver_last_acked_state \notin {None, Initial}
  /\ receiver_last_acked_state \in encoders

(* Waits for no ack: prunes up to the assumed state.                       *)
MutantCleanupToAssumed(k) == StopsAfter(encoder_states, {receiver_assumed_state}, k)

(* Pops the element it stops at as well.                                   *)
MutantCleanupTooFar(k) ==
  IF CleanupDue
  THEN k > 0 /\ StopsAfter(encoder_states,
                           {receiver_last_acked_state, receiver_assumed_state}, k - 1)
  ELSE k = 0

(* Pruning stops at the acked or at the assumed state, whichever is first. *)
CleanupStopsAfter(k) ==
  IF CleanupDue
  THEN StopsAfter(encoder_states, {receiver_last_acked_state, receiver_assumed_state}, k)
  ELSE k = 0

(* Erases the encoder of every state it pops.                              *)
MutantErasesRepeated(k) == Range(SubSeq(encoder_states, 1, k))

(* The encoders erased with the first k states: a state that comes again   *)
(* further on keeps its encoder.                                           *)
ErasedEncoders(k) ==
  Range(SubSeq(encoder_states, 1, k)) \
  Range(SubSeq(encoder_states, k + 1, Len(encoder_states)))

(* The acked state is that of no stored encoder.                           *)
ReceiverIsInvalid(stored) ==
  /\ receiver_last_acked_state # None
  /\ receiver_last_acked_state \notin stored

(* The newest state the receiver said it has.                              *)
KnownState == Back(receiver_complete_states, Initial)

(* Is conservative for one frame only.                                     *)
MutantSelectedSource(stored) ==
  IF ReceiverIsInvalid(stored) THEN KnownState
  ELSE IF receiver_assumed_state = None THEN Initial
  ELSE receiver_assumed_state

(* The state to encode the frame against.                                  *)
SelectedSource(stored) ==
  IF conservative \/ ReceiverIsInvalid(stored) THEN KnownState
  ELSE IF receiver_assumed_state = None THEN Initial
  ELSE receiver_assumed_state

(* encoders.at throws when the selected encoder is not stored, which ends  *)
(* the program.                                                            *)
StartEncode ==
  /\ sender = "fetch"
  /\ frame_no < MaxFrames
  /\ \E k \in 0 .. Len(encoder_states) :
       /\ CleanupStopsAfter(k)
       /\ encoder_states' = SubSeq(encoder_states, k + 1, Len(encoder_states))
       /\ encoders' = encoders \ ErasedEncoders(k)
  /\ conservative' = (conservative \/ ReceiverIsInvalid(encoders'))
  /\ \/ /\ SelectedSource(encoders') \in encoders'
        /\ sender' = "encode"
        /\ job_source' = SelectedSource(encoders')
     \/ /\ SelectedSource(encoders') \notin encoders'
        /\ sender' = "out_of_range"
        /\ UNCHANGED job_source
  /\ UNCHANGED <<skipped_count, acked_vars, sent_vars>>

-----------------------------------------------------------------------------
(***************************************************************************)
(* The encoding jobs have finished.                                        *)
(***************************************************************************)

(* Skips one frame too many.                                               *)
MutantMaySkipOneMore == last_acked # None /\ skipped_count <= MaxSkipped

(* Never before the first ack: until then there is no estimate of what the *)
(* network can take and every frame fits.                                  *)
MaySkip == last_acked # None /\ skipped_count < MaxSkipped

(* Forgets to count.                                                       *)
MutantSkipUncounted ==
  /\ sender = "encode"
  /\ MaySkip
  /\ sender' = "fetch"
  /\ job_source' = None
  /\ UNCHANGED <<skipped_count, conservative, acked_vars, encoder_vars, sent_vars>>

(* Both outputs are larger than the network can take.                      *)
SkipFrame ==
  /\ sender = "encode"
  /\ MaySkip
  /\ skipped_count' = skipped_count + 1
  /\ sender' = "fetch"
  /\ job_source' = None
  /\ UNCHANGED <<conservative, acked_vars, encoder_vars, sent_vars>>

(* The state the encoder may be in after a frame: a new one, named by the  *)
(* number of the frame; with a still picture the frame may leave the state *)
(* as it was, or repeat an earlier encoding of the same source.            *)
Targets(source) ==
  {frame_no + 1} \cup
  (IF StillPicture
   THEN {t \in 1 .. frame_no : t = source \/ <<source, t>> \in encodings}
   ELSE {})

(* The packets of the frame about to be sent, in the order they leave.     *)
FramePackets(target, fragments) ==
  [i \in 1 .. fragments |->
     [own |-> TRUE, frame_no |-> frame_no, fragment_no |-> i - 1,
      fragments |-> fragments, source_state |-> job_source, target_state |-> target]]

SendFrame(target, fragments) ==
  /\ sender = "encode"
  /\ target \in Targets(job_source)
  /\ cumulative_fpf' = Append(cumulative_fpf, Back(cumulative_fpf, 0) + fragments)
  /\ receiver_assumed_state' = target
  /\ encoders' = encoders \cup {target}
  /\ encoder_states' = Append(encoder_states, target)
  /\ encodings' = encodings \cup {<<job_source, target>>}
  /\ skipped_count' = 0
  /\ sender' = "fetch"
  /\ job_source' = None
  /\ UNCHANGED <<conservative, acked_vars>>

-----------------------------------------------------------------------------
(***************************************************************************)
(* Acknowledgements, and the end of conservative mode.                     *)
(***************************************************************************)

(* Takes the total up to and with the frame for the total before it.       *)
MutantAckSeqNo(ack) == cumulative_fpf[ack.frame_no + 1] + ack.fragment_no

(* Packets are numbered in the order they are sent, from 0.                *)
AckSeqNo(ack) ==
  (IF ack.frame_no > 0 THEN cumulative_fpf[ack.frame_no] ELSE 0) + ack.fragment_no

(* Accepts acks in any order.                                              *)
MutantAnyAck(ack) == ~ack.own

(* An ack of another session, or with a smaller sequence number than the   *)
(* last one accepted, is ignored.                                          *)
AckIsIgnored(ack) ==
  \/ ~ack.own
  \/ last_acked # None /\ AckSeqNo(ack) < last_acked

ReceiveAck(ack) ==
  /\ sender # "out_of_range"
  /\ IF AckIsIgnored(ack)
     THEN UNCHANGED acked_vars
     ELSE /\ last_acked' = AckSeqNo(ack)
          /\ receiver_last_acked_state' = ack.current_state
          /\ receiver_complete_states' = ack.complete_states
  /\ UNCHANGED <<sender, job_source, skipped_count, conservative,
                 encoder_vars, sent_vars>>

(* conservative_for has passed since the receiver was found invalid.       *)
ConservativeExpires ==
  /\ sender # "out_of_range"
  /\ conservative
  /\ conservative' = FALSE
  /\ UNCHANGED <<sender, job_source, skipped_count, acked_vars, encoder_vars, sent_vars>>

-----------------------------------------------------------------------------
(***************************************************************************)
(* What the sender's bookkeeping guarantees whatever the acks say.         *)
(***************************************************************************)

(* A state stays listed exactly as long as its encoder is stored, although *)
(* the cleanup erases from the map while it pops from the deque and a      *)
(* state may be listed twice.                                              *)
StoredIsListed == encoders = {Initial} \cup Range(encoder_states)

(* The cleanup never pops the newest state, which is the one the sender    *)
(* assumes the receiver to reach: encoders.at(receiver_assumed_state)      *)
(* cannot throw.                                                           *)
AssumedIsNewest == receiver_assumed_state = Back(encoder_states, None)
=============================================================================
