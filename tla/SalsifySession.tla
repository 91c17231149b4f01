--------------------------- MODULE SalsifySession --------------------------
(***************************************************************************)
(* A Salsify session: the sender, the receiver, and the UDP network that   *)
(* carries fragments one way and acknowledgements the other.  Both event   *)
(* loops run concurrently, and a datagram may wait in the network while    *)
(* either takes any number of steps.                                       *)
(***************************************************************************)
EXTENDS SalsifySender, SalsifyReceiver

CONSTANTS
  DataLink,        (* what the network does to packets ...                  *)
  AckLink,         (* ... and to acks: an element of Links                  *)
  StrayPackets,    (* packets from elsewhere that reach the receiver's port *)
  StrayAcks,       (* acks from elsewhere that reach the sender's           *)
  MaxDuplicates,   (* bound of the model: datagrams the network duplicates  *)
  MaxExpirations   (* bound of the model: times conservative mode runs out  *)

(* "reliable": in order, nothing lost.  "lossy": in order, with losses.    *)
(* "datagram": UDP; lost, reordered and duplicated.                        *)
Links == {"reliable", "lossy", "datagram"}

ASSUME SessionAssumption ==
  /\ DataLink \in Links /\ AckLink \in Links
  /\ MaxDuplicates \in Nat /\ MaxExpirations \in Nat

(* What comes from elsewhere is of another session, or malformed.          *)
ASSUME StraysAssumption ==
  /\ StrayPackets \subseteq DataPacket
  /\ \A p \in StrayPackets : p.own => IsMalformed(p)
  /\ StrayAcks \subseteq AckPacket
  /\ \A a \in StrayAcks : ~a.own

VARIABLES
  data,         (* packets in the network, in the order they were sent      *)
  acks,         (* acknowledgements in the network                          *)
  duplicates,   (* datagrams duplicated so far                              *)
  expirations   (* times conservative mode has run out                      *)

network_vars == <<data, acks, duplicates>>
vars == <<sender_vars, receiver_vars, network_vars, expirations>>

SessionTypeOK ==
  /\ SenderTypeOK
  /\ ReceiverTypeOK
  /\ data \in Seq(DataPacket)
  /\ acks \in Seq(AckPacket)
  /\ duplicates \in 0 .. MaxDuplicates
  /\ expirations \in 0 .. MaxExpirations

Init ==
  /\ SenderInit
  /\ ReceiverInit
  /\ data = << >> /\ acks = << >>
  /\ duplicates = 0
  /\ expirations = 0

(* The positions from which a link may deliver.                            *)
Arrivals(link, channel) ==
  IF link = "reliable" THEN 1 .. (IF channel = << >> THEN 0 ELSE 1)
  ELSE 1 .. Len(channel)

(* What stays in the channel after delivery from position i.  On a lossy   *)
(* link everything sent earlier is lost with that; a datagram that is lost *)
(* simply stays behind.                                                    *)
Remaining(link, channel, i) ==
  IF link = "datagram"
  THEN SubSeq(channel, 1, i - 1) \o SubSeq(channel, i + 1, Len(channel))
  ELSE SubSeq(channel, i + 1, Len(channel))

SenderStarts ==
  /\ StartEncode
  /\ UNCHANGED <<receiver_vars, network_vars, expirations>>

SenderSkips ==
  /\ SkipFrame
  /\ UNCHANGED <<receiver_vars, network_vars, expirations>>

SenderSends ==
  /\ \E target \in Targets(job_source), fragments \in 1 .. MaxFragments :
       /\ SendFrame(target, fragments)
       /\ data' = data \o FramePackets(target, fragments)
  /\ UNCHANGED <<receiver_vars, acks, duplicates, expirations>>

SenderExpires ==
  /\ expirations < MaxExpirations
  /\ ConservativeExpires
  /\ expirations' = expirations + 1
  /\ UNCHANGED <<receiver_vars, network_vars>>

DeliverData(i) ==
  /\ HandlePacket(data[i])
  /\ data' = Remaining(DataLink, data, i)
  /\ acks' = IF IsAccepted(data[i]) THEN Append(acks, AckFor(data[i])) ELSE acks
  /\ UNCHANGED <<sender_vars, duplicates, expirations>>

DeliverAck(i) ==
  /\ ReceiveAck(acks[i])
  /\ acks' = Remaining(AckLink, acks, i)
  /\ UNCHANGED <<receiver_vars, data, duplicates, expirations>>

(* A stray packet that is accepted would be acknowledged like any other,   *)
(* but none is.                                                            *)
DeliverStrayPacket ==
  /\ \E p \in StrayPackets : HandlePacket(p)
  /\ UNCHANGED <<sender_vars, network_vars, expirations>>

DeliverStrayAck ==
  /\ \E a \in StrayAcks : ReceiveAck(a)
  /\ UNCHANGED <<receiver_vars, network_vars, expirations>>

DuplicateData(i) ==
  /\ DataLink = "datagram" /\ duplicates < MaxDuplicates
  /\ data' = Append(data, data[i])
  /\ duplicates' = duplicates + 1
  /\ UNCHANGED <<sender_vars, receiver_vars, acks, expirations>>

DuplicateAck(i) ==
  /\ AckLink = "datagram" /\ duplicates < MaxDuplicates
  /\ acks' = Append(acks, acks[i])
  /\ duplicates' = duplicates + 1
  /\ UNCHANGED <<sender_vars, receiver_vars, data, expirations>>

Next ==
  \/ SenderStarts
  \/ SenderSkips
  \/ SenderSends
  \/ SenderExpires
  \/ \E i \in Arrivals(DataLink, data) : DeliverData(i)
  \/ \E i \in Arrivals(AckLink, acks) : DeliverAck(i)
  \/ DeliverStrayPacket
  \/ DeliverStrayAck
  \/ \E i \in DOMAIN data : DuplicateData(i)
  \/ \E i \in DOMAIN acks : DuplicateAck(i)

Spec == Init /\ [][Next]_vars

(* Both event loops keep running: the sender takes every raster the camera *)
(* delivers and every encoding ends, and a link that loses nothing         *)
(* delivers what is sent.  Nothing is assumed of links that lose packets,  *)
(* of the timer, or of the choice between skipping a frame and sending it. *)
FairSender == WF_vars(SenderStarts) /\ WF_vars(SenderSends)
FairDelivery == WF_vars(\E i \in Arrivals(DataLink, data) : DeliverData(i))
FairSpec == Spec /\ FairSender /\ FairDelivery

-----------------------------------------------------------------------------
(***************************************************************************)
(* Properties.                                                             *)
(***************************************************************************)

(* The encoder the sender selects is one it still has, so encoders.at does *)
(* not throw: what the acks say the receiver has saved is not pruned at    *)
(* the sender before the sender has seen an ack that is newer.             *)
SenderFindsEncoder == sender # "out_of_range"

(* The receiver goes on when a frame was lost on the way.                  *)
ReceiverSurvivesLoss == receiver # "out_of_range"

(* The packet last acknowledged is one that was sent: the number of        *)
(* packets in flight, an unsigned difference in target_size, is positive.  *)
AckedWasSent == last_acked # None => last_acked < Back(cumulative_fpf, 0)

(* The ack that is accepted is newer than the one accepted before: what    *)
(* the receiver is known to have never goes back to an older state.  (New  *)
(* states are numbered in the order they are made.)                        *)
AcksNeverGoBack ==
  [][KnownState' >= KnownState]_vars

(* In conservative mode a frame is encoded against a state the receiver    *)
(* has at that moment.                                                     *)
ConservativeSourceIsHeld ==
  [][ sender = "fetch" /\ sender' = "encode" /\ conservative' /\ receiver = "running"
      => job_source' \in decoders ]_vars

(* A frame encoded against a state other than the target of the frame      *)
(* before it is a conservative one (or the first); while it is on its way  *)
(* the receiver keeps the decoder it starts from, so it will be decoded.   *)
(* (With new states only, frame n ends in state n + 1.)                    *)
ConservativeFrameIsDecodable ==
  receiver = "running" =>
    \A i \in DOMAIN data :
      \/ data[i].source_state = data[i].frame_no
      \/ IsLate(data[i])
      \/ data[i].source_state \in decoders

(* Over a network that loses nothing the receiver never leaves the chain   *)
(* of states the sender made, and the sender never doubts it.              *)
InSync ==
  /\ sender # "out_of_range" /\ receiver = "running"
  /\ current_state # Corrupt
  /\ ~conservative

(* Every frame is eventually sent, whatever the acks say and however often *)
(* frames are skipped.                                                     *)
AllFramesSent == <>(frame_no = MaxFrames)

(* Over a network that loses nothing the receiver decodes the last frame   *)
(* and ends in the state the sender assumes it to be in.                   *)
LastFrameDecoded ==
  <>[](next_frame_no = MaxFrames /\ current_state = Back(encoder_states, Initial))

(* A session implements the promise of a functional codec.                 *)
Chain == INSTANCE CodecChain
           WITH steps <- encodings, held <- decoders, viewing <- current_state,
                MaxSteps <- MaxFrames
ImplementsChain == Chain!ChainSpec
=============================================================================
