---------------------- MODULE ConservativeSessionProofs ---------------------
(***************************************************************************)
(* Theorems about conservative mode: in a session whose frames all end in  *)
(* new states and whose packets arrive in order or not at all, every frame *)
(* the sender encodes while the mode lasts is one the receiver can decode. *)
(* And one about a network that loses nothing and keeps the order, whatever*)
(* the camera shows: the receiver never leaves the chain of states the     *)
(* sender made, and the sender never doubts it, so the mode never begins.  *)
(***************************************************************************)
EXTENDS OrderedSessionProofs

(* Each of the frames up to the one that made state n was encoded against  *)
(* the target of the frame before it.                                      *)
ChainedUpTo(n) == \A step \in encodings : step[2] <= n => step[1] + 1 = step[2]

(* A receiver that left the chain has nothing saved of the frames given up.*)
CorruptIsBehind ==
  current_state = Corrupt => /\ next_frame_no > 0
                             /\ Back(complete_states, Initial) < next_frame_no

(* Until a frame arrives that does not follow the one before it, the       *)
(* receiver stays corrupt, and the newest state it has saved is the one its*)
(* acks report and the sender goes by.                                     *)
CorruptIsKnown ==
  ChainedUpTo(next_frame_no) =>
    /\ \A a \in Range(acks) :
         a.current_state = Corrupt =>
           current_state = Corrupt /\ Newest(a) = Back(complete_states, Initial)
    /\ receiver_last_acked_state = Corrupt \/ conservative =>
         current_state = Corrupt /\ KnownState = Back(complete_states, Initial)

(* Frames follow one another before conservative mode begins; from then on *)
(* the receiver has every state the sender may choose for a source.        *)
SourcesAreHeld ==
  /\ ~conservative => ChainedUpTo(frame_no) /\ (sender = "encode" => job_source = frame_no)
  /\ conservative =>
       /\ KnownState \in decoders
       /\ sender = "encode" => job_source \in decoders /\ job_source <= KnownState
       /\ \A a \in Range(acks) : Newer(a) => Newest(a) \in decoders

(* The source of a packet that may not follow the one before it: no source *)
(* of a later frame is older, so the receiver has it when the frame comes. *)
LateSourcesAreHeld ==
  \A i \in 1 .. Len(data) :
    ChainedUpTo(data[i].target_state)
    \/ /\ data[i].source_state <= KnownState
       /\ sender = "encode" => data[i].source_state <= job_source
       /\ \A j \in i .. Len(data) : data[i].source_state <= data[j].source_state
       /\ ~IsLate(data[i]) => data[i].source_state \in decoders

(* The inductive invariant of the conservative mode.                       *)
ConservativeInv ==
  /\ OrderedInv
  /\ CorruptIsBehind
  /\ CorruptIsKnown
  /\ SourcesAreHeld
  /\ LateSourcesAreHeld

-----------------------------------------------------------------------------
(* What OrderedInv says of the states the sender and the receiver hold.    *)
LEMMA OrderedStates ==
  OrderedInv =>
    /\ KnownState \in 0 .. frame_no
    /\ KnownState \in encoders /\ Initial \in encoders
    /\ receiver_assumed_state \in {None, frame_no}
    /\ receiver_assumed_state = None => frame_no = 0
<1> SUFFICES ASSUME OrderedInv
             PROVE  /\ KnownState \in 0 .. frame_no
                    /\ KnownState \in encoders /\ Initial \in encoders
                    /\ receiver_assumed_state \in {None, frame_no}
                    /\ receiver_assumed_state = None => frame_no = 0
  OBVIOUS
<1> USE DEF OrderedInv, NumberedInv, SessionInv
<1>1. KnownState \in 0 .. frame_no
  BY OrderedTypes, SavedStatesWereSent DEF AcksAgree
<1>2. /\ KnownState \in encoders
      /\ encoder_states = << >> => frame_no = 0
      /\ encoder_states # << >> => Back(encoder_states, None) = frame_no
  BY <1>1, KnownHasEncoder
<1>3. receiver_assumed_state = Back(encoder_states, None) /\ Initial \in encoders
  BY DEF SenderInv, AssumedIsNewest, StoredIsListed
<1>4. frame_no # None
  BY CountsAreNat DEF None
<1>5. QED
  BY <1>1, <1>2, <1>3, <1>4 DEF Back

(* No saved state is newer than the newest.                                *)
LEMMA SavedAreOlder ==
  ASSUME NumberedInv, NEW s \in decoders
  PROVE  s \in Nat /\ s <= Back(complete_states, Initial)
<1> USE DEF NumberedInv, SessionInv
<1>1. complete_states \in Seq(Hash) /\ Len(complete_states) \in Nat /\ s \in Nat
  BY LenProperties DEF ReceiverInv, ReceiverTypeOK, Hash
<1>2. CASE s = Initial
  BY <1>2, OrderedTypes DEF Initial
<1>3. CASE s # Initial
  <2>1. s \in Range(complete_states)
    BY <1>3 DEF ReceiverInv, SavedIsListed
  <2>2. PICK m \in 1 .. Len(complete_states) : complete_states[m] = s
    BY <1>1, <2>1, ElementsOf
  <2>3. /\ Len(complete_states) > 0 /\ m <= Len(complete_states)
        /\ Back(complete_states, Initial) = complete_states[Len(complete_states)]
    BY <1>1, <2>2 DEF Back
  <2>4. m < Len(complete_states) => complete_states[m] < complete_states[Len(complete_states)]
    BY <1>1, <2>2, <2>3 DEF ReceiverNumbers
  <2>5. complete_states[Len(complete_states)] \in Nat
    BY <1>1, <2>3, ElementOfSeq DEF Hash
  <2>6. QED
    BY <1>1, <2>2, <2>3, <2>4, <2>5
<1>4. QED
  BY <1>2, <1>3

(* The chain up to a state is a chain up to an earlier one.                *)
LEMMA ChainedEarlier ==
  ASSUME NumberedInv, NEW n \in Nat, NEW m \in Nat, m <= n, ChainedUpTo(n)
  PROVE  ChainedUpTo(m)
<1>1. \A step \in encodings : step[2] \in Nat
  BY CountsAreNat DEF NumberedInv, SessionInv, SenderNumbers
<1>2. QED
  BY <1>1 DEF ChainedUpTo

(* A packet in the network when all frames follow one another.             *)
LEMMA PacketTypes ==
  ASSUME NumberedInv, NEW p \in NumberedPackets
  PROVE  /\ p.frame_no \in Nat /\ p.source_state \in Nat
         /\ p.target_state = p.frame_no + 1 /\ p.target_state \in Nat
         /\ frame_no \in Nat /\ p.target_state <= frame_no
         /\ ChainedUpTo(p.target_state) => p.source_state = p.frame_no
         /\ ChainedUpTo(frame_no) => ChainedUpTo(p.target_state)
<1>1. /\ p.frame_no \in Nat /\ p.source_state \in Nat /\ p.frame_no < frame_no
      /\ p.target_state = p.frame_no + 1
      /\ <<p.source_state, p.target_state>> \in encodings
  BY DEF NumberedPackets, SentPackets, DataPacket, Hash
<1>2. frame_no \in Nat
  BY CountsAreNat DEF NumberedInv, SessionInv
<1>3. p.target_state \in Nat /\ p.target_state <= frame_no
  BY <1>1, <1>2
<1>4. ChainedUpTo(p.target_state) => p.source_state = p.frame_no
  <2> SUFFICES ASSUME ChainedUpTo(p.target_state) PROVE p.source_state = p.frame_no
    OBVIOUS
  <2>1. <<p.source_state, p.target_state>>[1] + 1 = <<p.source_state, p.target_state>>[2]
    BY <1>1, <1>3 DEF ChainedUpTo
  <2>2. QED
    BY <1>1, <2>1
<1>5. QED
  BY <1>1, <1>2, <1>3, <1>4, ChainedEarlier

(* The types and bounds that the proofs below need of the parts.           *)
LEMMA ConservativeTypes ==
  ASSUME ConservativeInv
  PROVE  /\ next_frame_no \in Nat /\ frame_no \in Nat /\ next_frame_no <= frame_no
         /\ KnownState \in 0 .. frame_no
         /\ Back(complete_states, Initial) \in 0 .. next_frame_no
         /\ Back(complete_states, Initial) \in decoders
         /\ \A i \in 1 .. Len(data) : data[i] \in NumberedPackets
         /\ Len(data) \in Nat
         /\ \A a \in Range(acks) : AckSeqNo(a) \in Nat /\ Newest(a) \in Nat
         /\ last_acked \in Nat \cup {None}
         /\ ChainedUpTo(frame_no) => ChainedUpTo(next_frame_no)
<1> USE DEF ConservativeInv, OrderedInv
<1>1. /\ next_frame_no \in Nat /\ frame_no \in Nat /\ next_frame_no <= frame_no
      /\ Back(complete_states, Initial) \in 0 .. next_frame_no
      /\ Back(complete_states, Initial) \in decoders
  BY SavedStatesWereSent
<1>2. KnownState \in 0 .. frame_no
  BY OrderedStates
<1>3. \A i \in 1 .. Len(data) : data[i] \in NumberedPackets
  BY ElementOfSeq DEF NumberedInv, SenderNumbers
<1>4. SessionInv
  BY DEF NumberedInv
<1>5. QED
  BY <1>1, <1>2, <1>3, <1>4, OrderedTypes, ChainedEarlier

(* The sender starts out not conservative.                                 *)
LEMMA ConservativeInitially ==
  ASSUME Init
  PROVE  ConservativeInv
<1>1. /\ Len(data) = 0 /\ Range(acks) = {} /\ encodings = {} /\ ~conservative
      /\ current_state = Initial /\ receiver_last_acked_state = None /\ sender = "fetch"
  BY EmptyDeque DEF Init, SenderInit, ReceiverInit
<1>2. QED
  BY <1>1, OrderedInitially DEF ConservativeInv, CorruptIsBehind, CorruptIsKnown,
     SourcesAreHeld, LateSourcesAreHeld, ChainedUpTo, Initial, Corrupt, None

(* The choice of a source.                                                 *)
LEMMA ConservativeStarts ==
  ASSUME ConservativeInv, OrderedInv', SenderStarts
  PROVE  ConservativeInv'
<1> USE DEF ConservativeInv
<1>1. StartEncode /\ UNCHANGED <<receiver_vars, network_vars, sent_vars, acked_vars>>
  BY DEF SenderStarts, StartEncode
<1>2. /\ data' = data /\ acks' = acks /\ complete_states' = complete_states
      /\ decoders' = decoders /\ current_state' = current_state /\ next_frame_no' = next_frame_no
      /\ encodings' = encodings /\ frame_no' = frame_no
      /\ last_acked' = last_acked /\ receiver_last_acked_state' = receiver_last_acked_state
      /\ KnownState' = KnownState
  BY <1>1 DEF network_vars, receiver_vars, acked_vars, sent_vars, frame_no, KnownState
<1>3. /\ \A a : Newest(a)' = Newest(a) /\ Newer(a)' = Newer(a)
      /\ \A n : ChainedUpTo(n)' = ChainedUpTo(n)
  BY <1>1, <1>2, SeqNosUnchanged DEF Newest, Newer, ChainedUpTo
<1>4. /\ KnownState \in encoders' /\ Initial \in encoders'
      /\ receiver_assumed_state \in {None, frame_no}
      /\ receiver_assumed_state = None => frame_no = 0
  <2>1. (OrderedInv => KnownState \in encoders /\ Initial \in encoders)'
    BY OrderedStates, PTL
  <2>2. QED
    BY <1>2, <2>1, OrderedStates
<1>5. ReceiverIsInvalid(encoders') => receiver_last_acked_state = Corrupt
  BY <1>4 DEF ReceiverIsInvalid, OrderedInv, AcksAgree
<1>6. /\ conservative' => conservative \/ receiver_last_acked_state = Corrupt
      /\ conservative => conservative'
      /\ sender' = "encode" =>
           job_source' = IF conservative' THEN KnownState ELSE frame_no
  BY <1>1, <1>4, <1>5 DEF StartEncode, SelectedSource, Initial
<1>7. CorruptIsBehind'
  BY <1>2 DEF CorruptIsBehind
<1>8. ChainedUpTo(next_frame_no)' = ChainedUpTo(next_frame_no)
  BY <1>2, <1>3
<1>9. CorruptIsKnown'
  BY <1>2, <1>3, <1>6, <1>8 DEF CorruptIsKnown
<1>10. CASE ~conservative
  <2>1. ChainedUpTo(frame_no) /\ ChainedUpTo(next_frame_no)
    BY <1>10, ConservativeTypes DEF SourcesAreHeld
  <2>2. \A i \in 1 .. Len(data) : ChainedUpTo(data[i].target_state)
    BY <2>1, ConservativeTypes, PacketTypes DEF OrderedInv
  <2>3. LateSourcesAreHeld'
    <3>1. \A i \in 1 .. Len(data) : ChainedUpTo(data[i].target_state)'
      BY <1>2, <1>3, <2>2
    <3>2. QED
      BY <1>2, <3>1 DEF LateSourcesAreHeld
  <2>4. ChainedUpTo(frame_no)'
    BY <1>2, <1>3, <2>1
  <2>5. ASSUME conservative'
        PROVE  /\ KnownState \in decoders
               /\ \A a \in Range(acks) : Newer(a) => Newest(a) \in decoders
    <3>1. KnownState = Back(complete_states, Initial)
      BY <1>6, <1>10, <2>1, <2>5 DEF CorruptIsKnown
    <3>2. \A a \in Range(acks) : Newer(a) => Newest(a) = Back(complete_states, Initial)
      BY <3>1, ConservativeTypes DEF OrderedInv, AcksAgree
    <3>3. QED
      BY <3>1, <3>2, ConservativeTypes
  <2>6. SourcesAreHeld'
    BY <1>2, <1>3, <1>6, <2>4, <2>5, ConservativeTypes DEF SourcesAreHeld
  <2>7. QED
    BY <1>7, <1>9, <2>3, <2>6
<1>11. CASE conservative
  <2>1. SourcesAreHeld'
    BY <1>2, <1>3, <1>6, <1>11, ConservativeTypes DEF SourcesAreHeld
  <2>2. LateSourcesAreHeld'
    <3>1. \A i \in 1 .. Len(data) :
            /\ ChainedUpTo(data[i].target_state)' = ChainedUpTo(data[i].target_state)
            /\ IsLate(data[i])' = IsLate(data[i])
      BY <1>2, <1>3 DEF IsLate
    <3>2. QED
      BY <1>2, <1>6, <1>11, <3>1 DEF LateSourcesAreHeld
  <2>3. QED
    BY <1>7, <1>9, <2>1, <2>2
<1>12. QED
  BY <1>10, <1>11

(* A frame that is sent after the last one.                                *)
LEMMA ChainGrows ==
  ASSUME ~StillPicture, NumberedInv, sender = "encode",
         NEW target \in Targets(job_source), NEW fragments \in 1 .. MaxFragments,
         SendFrame(target, fragments)
  PROVE  /\ frame_no \in Nat /\ frame_no' = frame_no + 1
         /\ target = frame_no + 1
         /\ \A m \in 0 .. frame_no : ChainedUpTo(m)' = ChainedUpTo(m)
         /\ ChainedUpTo(frame_no) /\ job_source = frame_no => ChainedUpTo(frame_no)'
<1> USE DEF NumberedInv, SessionInv
<1>1. frame_no \in Nat /\ frame_no' = frame_no + 1 /\ target = frame_no + 1
  BY CountsAreNat, SendFramePushes DEF Targets
<1>2. encodings' = encodings \cup {<<job_source, frame_no + 1>>}
  BY <1>1 DEF SendFrame
<1>3. \A step \in encodings : step[2] \in 1 .. frame_no
  BY DEF SenderNumbers
<1>4. <<job_source, frame_no + 1>>[1] = job_source /\ <<job_source, frame_no + 1>>[2] = frame_no + 1
  OBVIOUS
<1>5. ASSUME NEW m \in 0 .. frame_no
      PROVE  ChainedUpTo(m)' = ChainedUpTo(m)
  <2>1. \A step \in encodings' : step[2] <= m => step \in encodings
    BY <1>1, <1>2, <1>4
  <2>2. encodings \subseteq encodings'
    BY <1>2
  <2>3. QED
    BY <2>1, <2>2 DEF ChainedUpTo
<1>6. ASSUME ChainedUpTo(frame_no), job_source = frame_no
      PROVE  ChainedUpTo(frame_no)'
  <2>1. \A step \in encodings : step[1] + 1 = step[2]
    BY <1>1, <1>3, <1>6 DEF ChainedUpTo
  <2>2. \A step \in encodings' : step[1] + 1 = step[2]
    BY <1>2, <1>4, <1>6, <2>1
  <2>3. QED
    BY <2>2 DEF ChainedUpTo
<1>7. QED
  BY <1>1, <1>5, <1>6

(* A frame is sent.                                                        *)
LEMMA ConservativeSends ==
  ASSUME ~StillPicture, ConservativeInv, OrderedInv', SenderSends
  PROVE  ConservativeInv'
<1> USE DEF ConservativeInv
<1>1. NumberedInv /\ SessionInv
  BY DEF OrderedInv, NumberedInv
<1>2. PICK target \in Targets(job_source), fragments \in 1 .. MaxFragments :
         /\ SendFrame(target, fragments)
         /\ data' = data \o FramePackets(target, fragments)
  BY DEF SenderSends
<1>3. PICK n, total :
        /\ n = Len(data) /\ total = Before(frame_no)
        /\ n \in Nat /\ total \in Nat /\ fragments \in Nat
        /\ Len(data') = n + fragments
        /\ \A j \in 1 .. n : data'[j] = data[j] /\ AckSeqNo(data[j])' = AckSeqNo(data[j])
        /\ \A m \in 1 .. fragments :
             /\ AckSeqNo(data[n + m])' = total + m - 1
             /\ data'[n + m] =
                  [own |-> TRUE, frame_no |-> frame_no, fragment_no |-> m - 1,
                   fragments |-> fragments, source_state |-> job_source,
                   target_state |-> target]
        /\ \A a \in SentAcks : AckSeqNo(a)' = AckSeqNo(a)
  BY <1>1, <1>2, Zenon, SendingAppends
<1>4. /\ sender = "encode" /\ sender' = "fetch" /\ conservative' = conservative
      /\ UNCHANGED acked_vars
  BY <1>2 DEF SendFrame
<1>5. /\ next_frame_no' = next_frame_no /\ current_state' = current_state
      /\ complete_states' = complete_states /\ decoders' = decoders
      /\ acks' = acks
      /\ KnownState' = KnownState /\ last_acked' = last_acked
      /\ receiver_last_acked_state' = receiver_last_acked_state
  BY <1>4 DEF SenderSends, receiver_vars, acked_vars, KnownState
<1>6. /\ frame_no \in Nat /\ frame_no' = frame_no + 1
      /\ target = frame_no + 1
      /\ \A m \in 0 .. frame_no : ChainedUpTo(m)' = ChainedUpTo(m)
      /\ ChainedUpTo(frame_no) /\ job_source = frame_no => ChainedUpTo(frame_no)'
  BY <1>1, <1>2, <1>4, ChainGrows
<1>7. next_frame_no \in 0 .. frame_no
  BY ConservativeTypes
<1>8. \A a \in Range(acks) : Newer(a)' = Newer(a) /\ Newest(a)' = Newest(a)
  BY <1>1, <1>3, <1>5, OrderedTypes DEF Newer, Newest
<1>9. CorruptIsBehind'
  BY <1>5 DEF CorruptIsBehind
<1>10. CorruptIsKnown'
  <2>1. ChainedUpTo(next_frame_no)' = ChainedUpTo(next_frame_no)
    BY <1>5, <1>6, <1>7 DEF ChainedUpTo
  <2>2. QED
    BY <1>4, <1>5, <1>8, <2>1 DEF CorruptIsKnown
<1>11. ~conservative => ChainedUpTo(frame_no)'
  BY <1>4, <1>6 DEF SourcesAreHeld
<1>12. SourcesAreHeld'
  BY <1>4, <1>5, <1>6, <1>8, <1>11 DEF SourcesAreHeld
<1>13. LateSourcesAreHeld'
  <2>1. \A j \in 1 .. n : data'[j] = data[j]
    BY <1>3
  <2>2. \A j \in 1 .. n + fragments : j \notin 1 .. n =>
          data'[j].source_state = job_source /\ data'[j].target_state = target
    <3> SUFFICES ASSUME NEW j \in 1 .. n + fragments, j \notin 1 .. n
                 PROVE  data'[j].source_state = job_source /\ data'[j].target_state = target
      OBVIOUS
    <3>1. j - n \in 1 .. fragments /\ n + (j - n) = j
      BY <1>3
    <3>2. PICK m \in 1 .. fragments : n + m = j
      BY <3>1
    <3>3. data'[n + m] =
                  [own |-> TRUE, frame_no |-> frame_no, fragment_no |-> m - 1,
                   fragments |-> fragments, source_state |-> job_source,
                   target_state |-> target]
      BY <1>3
    <3>4. QED
      BY <3>2, <3>3
  <2> SUFFICES ASSUME NEW i \in 1 .. n + fragments
               PROVE  ChainedUpTo(data[i].target_state)'
                      \/ /\ data'[i].source_state <= KnownState
                         /\ \A j \in i .. n + fragments :
                              data'[i].source_state <= data'[j].source_state
                         /\ ~IsLate(data[i])' => data'[i].source_state \in decoders
    BY <1>3, <1>4, <1>5 DEF LateSourcesAreHeld
  <2>3. CASE i \in 1 .. n
    <3>1. data'[i] = data[i] /\ IsLate(data[i])' = IsLate(data[i])
      BY <1>5, <2>1, <2>3 DEF IsLate
    <3>2. data[i].target_state \in 0 .. frame_no
      BY <1>1, <1>3, <2>3, ConservativeTypes, PacketTypes
    <3>3. ChainedUpTo(data[i].target_state)' = ChainedUpTo(data[i].target_state)
      <4>1. PICK m \in 0 .. frame_no : m = data[i].target_state
        BY <3>2
      <4>2. ChainedUpTo(data[i].target_state)' = ChainedUpTo(m)'
        BY <3>1, <4>1 DEF ChainedUpTo
      <4>3. QED
        BY <1>6, <4>1, <4>2
    <3>4. CASE ChainedUpTo(data[i].target_state)
      BY <3>3, <3>4
    <3>5. CASE ~ChainedUpTo(data[i].target_state)
      <4>1. /\ data[i].source_state <= KnownState
            /\ data[i].source_state <= job_source
            /\ \A j \in i .. n : data[i].source_state <= data[j].source_state
            /\ ~IsLate(data[i]) => data[i].source_state \in decoders
        BY <1>3, <1>4, <2>3, <3>5 DEF LateSourcesAreHeld
      <4>2. ASSUME NEW j \in i .. n + fragments
            PROVE  data'[i].source_state <= data'[j].source_state
        <5>1. CASE j \in 1 .. n
          <6>1. j \in i .. n
            BY <5>1, <1>3
          <6>2. QED
            BY <2>1, <3>1, <4>1, <5>1, <6>1
        <5>2. CASE j \notin 1 .. n
          <6>1. j \in 1 .. n + fragments
            BY <1>3, <2>3
          <6>2. QED
            BY <2>2, <3>1, <4>1, <5>2, <6>1
        <5>3. QED
          BY <5>1, <5>2
      <4>3. QED
        BY <3>1, <4>1, <4>2
    <3>6. QED
      BY <3>4, <3>5
  <2>4. CASE i \notin 1 .. n
    <3>1. data'[i].source_state = job_source /\ data'[i].target_state = frame_no + 1
      BY <1>6, <2>2, <2>4
    <3>2. CASE ~conservative
      BY <1>6, <1>11, <3>1, <3>2 DEF ChainedUpTo
    <3>3. CASE conservative
      <4>1. job_source \in decoders /\ job_source <= KnownState /\ job_source \in Nat
        BY <1>1, <1>4, <3>3 DEF SourcesAreHeld, SessionInv, ReceiverInv, ReceiverTypeOK, Hash
      <4>2. \A j \in i .. n + fragments : data'[j].source_state = job_source
        <5> TAKE j \in i .. n + fragments
        <5>1. j \in 1 .. n + fragments /\ j \notin 1 .. n
          BY <1>3, <2>4
        <5>2. QED
          BY <2>2, <5>1
      <4>3. QED
        BY <3>1, <4>1, <4>2
    <3>4. QED
      BY <3>2, <3>3
  <2>5. QED
    BY <2>3, <2>4
<1>14. QED
  BY <1>9, <1>10, <1>12, <1>13

(* When a frame that follows the one before it is decoded, the receiver is *)
(* on the chain, and the sender has no reason to think otherwise.          *)
LEMMA OnTheChain ==
  ASSUME ConservativeInv, NEW p \in NumberedPackets, IsAccepted(p), SavesTarget(p),
         ChainedUpTo(p.target_state)
  PROVE  /\ ~conservative /\ receiver_last_acked_state # Corrupt
         /\ \A a \in Range(acks) : a.current_state # Corrupt
         /\ ChainedUpTo(frame_no)
<1> USE DEF ConservativeInv
<1>1. NumberedInv
  BY DEF OrderedInv
<1>2. /\ p.frame_no \in Nat /\ p.source_state = p.frame_no
      /\ p.target_state = p.frame_no + 1
  BY <1>1, PacketTypes
<1>3. /\ next_frame_no \in Nat
      /\ Back(complete_states, Initial) \in 0 .. next_frame_no
  BY ConservativeTypes
<1>4. p.frame_no >= next_frame_no
  BY <1>2, <1>3 DEF IsAccepted, IsLate
<1>5. p.source_state <= Back(complete_states, Initial)
  BY <1>1, SavedAreOlder DEF SavesTarget
<1>6. Back(complete_states, Initial) = next_frame_no /\ p.frame_no = next_frame_no
  BY <1>2, <1>3, <1>4, <1>5
<1>7. current_state # Corrupt
  BY <1>3, <1>6 DEF CorruptIsBehind
<1>8. ChainedUpTo(next_frame_no)
  BY <1>1, <1>2, <1>6, ChainedEarlier
<1>9. /\ ~conservative /\ receiver_last_acked_state # Corrupt
      /\ \A a \in Range(acks) : a.current_state # Corrupt
  BY <1>7, <1>8 DEF CorruptIsKnown
<1>10. QED
  BY <1>9 DEF SourcesAreHeld

(* A packet arrives.                                                       *)
LEMMA ConservativeDelivers ==
  ASSUME DataLink # "datagram", ConservativeInv, OrderedInv',
         NEW i \in Arrivals(DataLink, data), DeliverData(i)
  PROVE  ConservativeInv'
<1> USE DEF ConservativeInv
<1> DEFINE p == data[i]
           n == Len(data)
           newest == Back(complete_states, Initial)
<1>1. /\ HandlePacket(p) /\ data' = Remaining(DataLink, data, i)
      /\ acks' = IF IsAccepted(p) THEN Append(acks, AckFor(p)) ELSE acks
      /\ UNCHANGED sender_vars
  BY DEF DeliverData
<1>2. /\ UNCHANGED <<sent_vars, frame_no>>
      /\ sender' = sender /\ job_source' = job_source /\ conservative' = conservative
      /\ last_acked' = last_acked /\ receiver_last_acked_state' = receiver_last_acked_state
      /\ KnownState' = KnownState
      /\ encodings' = encodings
  BY <1>1 DEF sender_vars, sent_vars, acked_vars, frame_no, KnownState
<1>3. /\ \A a : Newest(a)' = Newest(a) /\ Newer(a)' = Newer(a)
      /\ \A m : ChainedUpTo(m)' <=> ChainedUpTo(m)
  BY <1>2, SeqNosUnchanged DEF Newest, Newer, ChainedUpTo
<1>4. NumberedInv /\ SessionInv
  BY DEF OrderedInv, NumberedInv
<1>5. p \in NumberedPackets /\ data \in Seq(NumberedPackets)
  BY <1>4, RemainingIsSent, SessionAssumption DEF NumberedInv, SenderNumbers
<1>6. /\ i \in 1 .. n /\ n \in Nat
      /\ Len(data') = n - i
      /\ \A j \in 1 .. n - i : i + j \in 1 .. n /\ data'[j] = data[i + j]
  BY <1>1, <1>5, RemainingIsLater, SessionAssumption
<1>7. /\ IsAccepted(p) => SavesNothing(p) \/ SavesTarget(p)
      /\ ~IsAccepted(p) => UNCHANGED <<next_frame_no, current_state, complete_states, decoders>>
  BY <1>1, <1>2, <1>4, <1>5, HandlingByNumbers
<1>8. /\ Range(acks') \subseteq Range(acks) \cup {AckFor(p)}
      /\ ~IsAccepted(p) => acks' = acks
  <2>1. SessionInv'
    BY DEF OrderedInv, NumberedInv
  <2>2. acks \in Seq(SentAcks) /\ AckFor(p) \in SentAcks
    BY <1>4, <1>5, <2>1, OrderedTypes, AckIsSent DEF NumberedPackets, SessionInv
  <2>3. Range(Append(acks, AckFor(p))) = Range(acks) \cup {AckFor(p)}
    BY <2>2, PushBack
  <2>4. QED
    BY <1>1, <2>3
<1>9. Newest(AckFor(p)) = newest' /\ AckFor(p).current_state = current_state'
  BY DEF AckFor, Newest
<1>10. /\ p.frame_no \in Nat /\ p.source_state \in Nat
       /\ p.target_state = p.frame_no + 1 /\ p.target_state # Corrupt
       /\ next_frame_no \in Nat /\ frame_no \in Nat
       /\ newest \in 0 .. next_frame_no /\ newest \in decoders
       /\ KnownState \in Nat
  BY <1>4, <1>5, PacketTypes, ConservativeTypes DEF Corrupt
<1>11. IsAccepted(p) => p.frame_no >= next_frame_no
  BY <1>10 DEF IsAccepted, IsLate
<1>12. next_frame_no <= next_frame_no' /\ next_frame_no' \in Nat
  BY <1>7, <1>10, <1>11 DEF SavesNothing, SavesTarget
<1>13. /\ \A a \in Range(acks) : Newer(a) => KnownState <= Newest(a)
       /\ \A a \in Range(acks) : Newest(a) \in Nat
  BY <1>4, OrderedTypes DEF OrderedInv, AcksAgree
<1>14. SavesTarget(p) /\ IsAccepted(p) /\ ~ChainedUpTo(p.target_state) =>
         /\ p.source_state <= KnownState
         /\ sender = "encode" => p.source_state <= job_source
         /\ \A j \in i .. n : p.source_state <= data[j].source_state
  BY <1>6 DEF LateSourcesAreHeld
<1>15. SavesTarget(p) /\ IsAccepted(p) /\ ChainedUpTo(p.target_state) =>
         /\ ~conservative /\ receiver_last_acked_state # Corrupt
         /\ \A a \in Range(acks) : a.current_state # Corrupt
         /\ ChainedUpTo(frame_no)
  BY <1>5, OnTheChain
<1>16. \A j \in 1 .. n : data[j].source_state \in Nat /\ (ChainedUpTo(frame_no) => ChainedUpTo(data[j].target_state))
  BY <1>4, ConservativeTypes, PacketTypes
<1> HIDE DEF p, n, newest, ConservativeInv
<1>17. CorruptIsBehind'
  <2>1. CorruptIsBehind /\ newest' \in Nat \cup {newest'}
    BY DEF ConservativeInv
  <2>2. CASE ~IsAccepted(p)
    BY <1>7, <2>1, <2>2 DEF CorruptIsBehind
  <2>3. CASE IsAccepted(p) /\ SavesNothing(p)
    <3>1. newest' = newest
      BY <2>3 DEF SavesNothing, newest
    <3>2. QED
      BY <1>10, <1>12, <2>1, <2>3, <3>1 DEF CorruptIsBehind, SavesNothing, newest
  <2>4. CASE IsAccepted(p) /\ SavesTarget(p)
    BY <1>10, <2>4 DEF CorruptIsBehind, SavesTarget
  <2>5. QED
    BY <1>7, <2>2, <2>3, <2>4
<1>18. CorruptIsKnown'
  <2> SUFFICES ASSUME ChainedUpTo(next_frame_no')
               PROVE  /\ \A a \in Range(acks') :
                           a.current_state = Corrupt => current_state' = Corrupt /\ Newest(a) = newest'
                      /\ receiver_last_acked_state = Corrupt \/ conservative =>
                           current_state' = Corrupt /\ KnownState = newest'
    BY <1>2, <1>3 DEF CorruptIsKnown, newest, ChainedUpTo
  <2>1. ChainedUpTo(next_frame_no)
    BY <1>4, <1>10, <1>12, ChainedEarlier
  <2>2. /\ \A a \in Range(acks) :
             a.current_state = Corrupt => current_state = Corrupt /\ Newest(a) = newest
        /\ receiver_last_acked_state = Corrupt \/ conservative =>
             current_state = Corrupt /\ KnownState = newest
    BY <2>1 DEF ConservativeInv, CorruptIsKnown, newest
  <2>3. CASE ~IsAccepted(p)
    BY <1>7, <1>8, <2>2, <2>3 DEF newest
  <2>4. CASE IsAccepted(p) /\ SavesNothing(p)
    <3>1. newest' = newest /\ current_state' \in {current_state, Corrupt}
      BY <2>4 DEF SavesNothing, newest
    <3>2. QED
      BY <1>8, <1>9, <2>2, <3>1
  <2>5. CASE IsAccepted(p) /\ SavesTarget(p)
    <3>1. next_frame_no' = p.target_state /\ current_state' # Corrupt
      BY <1>10, <2>5 DEF SavesTarget
    <3>2. QED
      BY <1>8, <1>9, <1>15, <2>5, <3>1
  <2>6. QED
    BY <1>7, <2>3, <2>4, <2>5
<1>19. SavesTarget(p) => /\ \A s \in decoders : s >= p.source_state => s \in decoders'
                         /\ newest' \in decoders'
  BY DEF SavesTarget, newest
<1>20. SourcesAreHeld'
  <2>1. SourcesAreHeld
    BY DEF ConservativeInv
  <2>2. CASE ~conservative
    BY <1>2, <1>3, <2>1, <2>2 DEF SourcesAreHeld
  <2>3. CASE conservative
    <3> SUFFICES /\ KnownState \in decoders'
                 /\ sender = "encode" => job_source \in decoders' /\ job_source <= KnownState
                 /\ \A a \in Range(acks') : Newer(a) => Newest(a) \in decoders'
      BY <1>2, <1>3, <2>3 DEF SourcesAreHeld
    <3>1. /\ KnownState \in decoders
          /\ sender = "encode" => job_source \in decoders /\ job_source <= KnownState
          /\ \A a \in Range(acks) : Newer(a) => Newest(a) \in decoders
      BY <2>1, <2>3 DEF SourcesAreHeld
    <3>2. CASE ~IsAccepted(p)
      BY <1>7, <1>8, <3>1, <3>2
    <3>3. CASE IsAccepted(p) /\ SavesNothing(p)
      <4>1. newest' = newest /\ decoders' = decoders
        BY <3>3 DEF SavesNothing, newest
      <4>2. QED
        BY <1>8, <1>9, <1>10, <3>1, <4>1
    <3>4. CASE IsAccepted(p) /\ SavesTarget(p)
      <4>1. /\ p.source_state <= KnownState
            /\ sender = "encode" => p.source_state <= job_source
        BY <1>14, <1>15, <2>3, <3>4
      <4>2. sender = "encode" => job_source \in Nat
        BY <1>4, <3>1 DEF SessionInv, ReceiverInv, ReceiverTypeOK, Hash
      <4>3. \A a \in Range(acks) : Newer(a) => Newest(a) >= p.source_state
        BY <1>10, <1>13, <4>1
      <4>4. QED
        BY <1>8, <1>9, <1>10, <1>19, <3>1, <3>4, <4>1, <4>2, <4>3
    <3>5. QED
      BY <1>7, <3>2, <3>3, <3>4
  <2>4. QED
    BY <2>2, <2>3
<1>21. LateSourcesAreHeld'
  <2> SUFFICES ASSUME NEW j \in 1 .. n - i, ~ChainedUpTo(data[i + j].target_state)
               PROVE  /\ data[i + j].source_state <= KnownState
                      /\ sender = "encode" => data[i + j].source_state <= job_source
                      /\ \A m \in j .. n - i : data[i + j].source_state <= data[i + m].source_state
                      /\ ~IsLate(data[j])' => data[i + j].source_state \in decoders'
    <3>1. \A j \in 1 .. n - i : ChainedUpTo(data[j].target_state)' <=> ChainedUpTo(data[i + j].target_state)
      BY <1>2, <1>6 DEF ChainedUpTo
    <3>2. \A j \in 1 .. n - i : \A m \in j .. n - i : data'[m] = data[i + m]
      BY <1>6
    <3>3. \A j \in 1 .. n - i : data'[j] = data[i + j]
      BY <1>6
    <3>4. Len(data') = n - i
      BY <1>6
    <3>5. LateSourcesAreHeld' <=>
            \A j \in 1 .. Len(data') :
              ChainedUpTo(data[j].target_state)'
              \/ /\ data'[j].source_state <= KnownState'
                 /\ sender' = "encode" => data'[j].source_state <= job_source'
                 /\ \A m \in j .. Len(data') : data'[j].source_state <= data'[m].source_state
                 /\ ~IsLate(data[j])' => data'[j].source_state \in decoders'
      BY DEF LateSourcesAreHeld
    <3>6. QED
      BY <1>2, <3>1, <3>2, <3>3, <3>4, <3>5
  <2>1. i + j \in 1 .. n
    BY <1>6
  <2>2. /\ data[i + j].source_state <= KnownState
        /\ sender = "encode" => data[i + j].source_state <= job_source
        /\ \A m \in i + j .. n : data[i + j].source_state <= data[m].source_state
        /\ ~IsLate(data[i + j]) => data[i + j].source_state \in decoders
    BY <2>1 DEF ConservativeInv, LateSourcesAreHeld, n
  <2>3. \A m \in j .. n - i : i + m \in i + j .. n
    BY <1>6
  <2>4. ~IsLate(data[j])' => ~IsLate(data[i + j])
    <3>1. data[i + j].frame_no \in Nat /\ data'[j] = data[i + j]
      BY <1>4, <1>6, <2>1, ConservativeTypes, PacketTypes DEF n
    <3>2. QED
      BY <1>10, <1>12, <3>1 DEF IsLate
  <2>5. ASSUME data[i + j].source_state \in decoders
        PROVE  data[i + j].source_state \in decoders'
    <3>1. CASE ~IsAccepted(p) \/ SavesNothing(p)
      BY <1>7, <2>5, <3>1 DEF SavesNothing
    <3>2. CASE IsAccepted(p) /\ SavesTarget(p)
      <4>1. ~ChainedUpTo(p.target_state)
        BY <1>15, <1>16, <2>1, <3>2
      <4>2. i + j \in i .. n
        BY <1>6, <2>1
      <4>3. p.source_state <= data[i + j].source_state
        BY <1>14, <3>2, <4>1, <4>2
      <4>4. QED
        BY <1>10, <1>16, <1>19, <2>1, <2>5, <3>2, <4>3
    <3>3. QED
      BY <1>7, <3>1, <3>2
  <2>6. QED
    BY <2>2, <2>3, <2>4, <2>5
<1>22. QED
  BY <1>17, <1>18, <1>20, <1>21 DEF ConservativeInv

(* Steps that change none of the states the sender and the receiver hold.  *)
LEMMA ConservativeUnchanged ==
  ASSUME ConservativeInv, OrderedInv', Range(acks') \subseteq Range(acks),
         UNCHANGED <<sent_vars, acked_vars, conservative, data,
                     next_frame_no, current_state, complete_states, decoders>>,
         sender' = "encode" => sender = "encode" /\ job_source' = job_source
  PROVE  ConservativeInv'
<1> USE DEF ConservativeInv
<1>1. /\ last_acked' = last_acked /\ receiver_last_acked_state' = receiver_last_acked_state
      /\ KnownState' = KnownState /\ encodings' = encodings /\ frame_no' = frame_no
  BY DEF acked_vars, KnownState, sent_vars, frame_no
<1>2. /\ \A a : Newest(a)' = Newest(a) /\ Newer(a)' = Newer(a)
      /\ \A m : ChainedUpTo(m)' <=> ChainedUpTo(m)
  BY <1>1, SeqNosUnchanged DEF Newest, Newer, ChainedUpTo
<1>3. /\ ChainedUpTo(next_frame_no)' <=> ChainedUpTo(next_frame_no)
      /\ ChainedUpTo(frame_no)' <=> ChainedUpTo(frame_no)
      /\ \A i \in 1 .. Len(data) :
           /\ ChainedUpTo(data[i].target_state)' <=> ChainedUpTo(data[i].target_state)
           /\ IsLate(data[i])' <=> IsLate(data[i])
  BY <1>1 DEF ChainedUpTo, IsLate
<1>4. CorruptIsBehind'
  BY DEF CorruptIsBehind
<1>5. CorruptIsKnown'
  BY <1>1, <1>2, <1>3 DEF CorruptIsKnown
<1>6. SourcesAreHeld'
  BY <1>1, <1>2, <1>3 DEF SourcesAreHeld
<1>7. LateSourcesAreHeld'
  BY <1>1, <1>3 DEF LateSourcesAreHeld
<1>8. QED
  BY <1>4, <1>5, <1>6, <1>7

(* An ack that arrives, of this session or not.                            *)
LEMMA ConservativeAcks ==
  ASSUME ConservativeInv, OrderedInv', NEW a \in AckPacket, a.own => a \in Range(acks),
         ReceiveAck(a), Range(acks') \subseteq Range(acks), UNCHANGED <<receiver_vars, data>>
  PROVE  ConservativeInv'
<1>1. /\ UNCHANGED <<sender, job_source, conservative, sent_vars, data,
                     next_frame_no, current_state, complete_states, decoders>>
      /\ encodings' = encodings /\ frame_no' = frame_no
  BY DEF ReceiveAck, receiver_vars, sent_vars, frame_no
<1>2. CASE AckIsIgnored(a)
  <2>1. UNCHANGED acked_vars
    BY <1>2 DEF ReceiveAck
  <2>2. QED
    BY <1>1, <2>1, ConservativeUnchanged
<1>3. CASE ~AckIsIgnored(a)
  <2> USE DEF ConservativeInv
  <2>1. SessionInv
    BY DEF OrderedInv, NumberedInv
  <2>2. a \in Range(acks) /\ Newer(a)
    <3>1. a.own /\ ~(last_acked # None /\ AckSeqNo(a) < last_acked)
      BY <1>3 DEF AckIsIgnored
    <3>2. QED
      BY <2>1, <3>1, OrderedTypes DEF Newer
  <2>3. /\ last_acked' = AckSeqNo(a) /\ receiver_last_acked_state' = a.current_state
        /\ KnownState' = Newest(a)
    BY <1>3 DEF ReceiveAck, KnownState, Newest
  <2>4. /\ KnownState \in Nat /\ Newest(a) \in Nat /\ AckSeqNo(a) \in Nat
        /\ last_acked \in Nat \cup {None}
        /\ KnownState <= Newest(a) /\ Newest(a) <= Back(complete_states, Initial)
        /\ Back(complete_states, Initial) \in Nat
    BY <2>1, <2>2, OrderedTypes DEF OrderedInv, AcksAgree
  <2>5. \A b \in Range(acks') : Newer(b)' => Newer(b)
    <3> SUFFICES ASSUME NEW b \in Range(acks), Newer(b)' PROVE Newer(b)
      OBVIOUS
    <3>1. AckSeqNo(b)' = AckSeqNo(b) /\ AckSeqNo(b) \in Nat
      BY <1>1, <2>1, SeqNosUnchanged, OrderedTypes
    <3>2. AckSeqNo(a) <= AckSeqNo(b)
      BY <2>3, <2>4, <3>1 DEF Newer, None
    <3>3. QED
      BY <2>2, <2>4, <3>1, <3>2 DEF Newer
  <2>6. \A b : Newest(b)' = Newest(b)
    BY DEF Newest
  <2>7. /\ ChainedUpTo(next_frame_no)' <=> ChainedUpTo(next_frame_no)
        /\ ChainedUpTo(frame_no)' <=> ChainedUpTo(frame_no)
        /\ \A i \in 1 .. Len(data) :
             /\ ChainedUpTo(data[i].target_state)' <=> ChainedUpTo(data[i].target_state)
             /\ IsLate(data[i])' <=> IsLate(data[i])
    BY <1>1 DEF ChainedUpTo, IsLate
  <2>8. CorruptIsBehind'
    BY <1>1 DEF CorruptIsBehind
  <2>9. CorruptIsKnown'
    BY <1>1, <2>2, <2>3, <2>4, <2>6, <2>7 DEF CorruptIsKnown
  <2>10. SourcesAreHeld'
    <3>1. sender = "encode" /\ conservative => job_source \in Nat
      BY <2>1 DEF SourcesAreHeld, SessionInv, ReceiverInv, ReceiverTypeOK, Hash
    <3>2. QED
      BY <1>1, <2>2, <2>3, <2>4, <2>5, <2>6, <2>7, <3>1 DEF SourcesAreHeld
  <2>11. LateSourcesAreHeld'
    <3>1. \A i \in 1 .. Len(data) : data[i].source_state \in Nat
      BY ConservativeTypes, PacketTypes DEF OrderedInv
    <3>2. \A i \in 1 .. Len(data) : data[i].source_state <= KnownState => data[i].source_state <= KnownState'
      BY <2>3, <2>4, <3>1
    <3>3. QED
      BY <1>1, <2>7, <3>2 DEF LateSourcesAreHeld
  <2>12. QED
    BY <2>8, <2>9, <2>10, <2>11
<1>4. QED
  BY <1>2, <1>3

(* Every step of such a session.                                           *)
LEMMA ConservativeNext ==
  ASSUME ~StillPicture, DataLink # "datagram", MaxExpirations = 0,
         ConservativeInv, [Next]_vars
  PROVE  ConservativeInv'
<1>1. OrderedInv' /\ SessionInv
  BY OrderedNext DEF ConservativeInv, OrderedInv, NumberedInv
<1>2. CASE SenderStarts
  BY <1>1, <1>2, ConservativeStarts
<1>3. CASE SenderSends
  BY <1>1, <1>3, ConservativeSends
<1>4. CASE \E i \in Arrivals(DataLink, data) : DeliverData(i)
  BY <1>1, <1>4, ConservativeDelivers
<1>5. CASE \E i \in Arrivals(AckLink, acks) : DeliverAck(i)
  <2> PICK i \in Arrivals(AckLink, acks) : DeliverAck(i)
    BY <1>5
  <2>1. acks \in Seq(SentAcks) /\ AckLink \in Links
    BY <1>1, OrderedTypes, SessionAssumption
  <2>2. /\ acks[i] \in SentAcks /\ acks[i] \in Range(acks)
        /\ Range(acks') \subseteq Range(acks)
    BY <2>1, RemainingIsSent, RemainingWithin DEF DeliverAck
  <2>3. acks[i] \in AckPacket /\ ReceiveAck(acks[i]) /\ UNCHANGED <<receiver_vars, data>>
    BY <2>2 DEF DeliverAck, SentAcks
  <2>4. QED
    BY <1>1, <2>2, <2>3, ConservativeAcks
<1>6. CASE DeliverStrayAck
  <2> PICK a \in StrayAcks : ReceiveAck(a)
    BY <1>6 DEF DeliverStrayAck
  <2>1. a \in AckPacket /\ ~a.own /\ UNCHANGED <<receiver_vars, data, acks>>
    BY <1>6, StraysAssumption DEF DeliverStrayAck, network_vars
  <2>2. QED
    BY <1>1, <2>1, ConservativeAcks
<1>7. CASE \/ SenderSkips \/ DeliverStrayPacket
           \/ \E i \in DOMAIN acks : DuplicateAck(i)
           \/ UNCHANGED vars
  <2>1. UNCHANGED <<sent_vars, acked_vars, conservative, data>>
    BY <1>7 DEF SenderSkips, SkipFrame, DeliverStrayPacket, DuplicateAck, vars, sender_vars,
       network_vars
  <2>2. sender' = "encode" => sender = "encode" /\ job_source' = job_source
    BY <1>7 DEF SenderSkips, SkipFrame, DeliverStrayPacket, DuplicateAck, vars, sender_vars
  <2>3. UNCHANGED <<next_frame_no, current_state, complete_states, decoders>>
    <3>1. CASE DeliverStrayPacket
      <4>1. PICK p \in StrayPackets : HandlePacket(p)
        BY <3>1 DEF DeliverStrayPacket
      <4>2. ~IsAccepted(p)
        BY StraysAssumption DEF IsAccepted, IsMismatched
      <4>3. QED
        BY <4>1, <4>2 DEF HandlePacket, RejectMalformed, IgnoreLate, MissWholeFrame,
           RejectMismatched, Fail, receiver_vars, StoreFragment, ApplyFrame
    <3>2. CASE ~DeliverStrayPacket
      BY <1>7, <3>2 DEF SenderSkips, DuplicateAck, vars, receiver_vars
    <3>3. QED
      BY <3>1, <3>2
  <2>4. Range(acks') \subseteq Range(acks)
    <3>1. CASE \E i \in DOMAIN acks : DuplicateAck(i)
      <4>1. PICK i \in DOMAIN acks : acks' = Append(acks, acks[i])
        BY <3>1 DEF DuplicateAck
      <4>2. acks \in Seq(SentAcks) /\ DOMAIN acks = 1 .. Len(acks)
        BY <1>1, OrderedTypes, LenProperties
      <4>3. acks[i] \in SentAcks /\ acks[i] \in Range(acks)
        BY <4>2, ElementsOf, ElementOfSeq
      <4>4. Range(Append(acks, acks[i])) = Range(acks) \cup {acks[i]}
        BY <4>2, <4>3, PushBack
      <4>5. QED
        BY <4>1, <4>3, <4>4
    <3>2. CASE ~\E i \in DOMAIN acks : DuplicateAck(i)
      BY <1>7, <3>2 DEF SenderSkips, DeliverStrayPacket, vars, network_vars
    <3>3. QED
      BY <3>1, <3>2
  <2>5. QED
    BY <1>1, <2>1, <2>2, <2>3, <2>4, ConservativeUnchanged
<1>8. CASE SenderExpires \/ \E i \in DOMAIN data : DuplicateData(i)
  <2>1. expirations \in 0 .. MaxExpirations
    BY <1>1 DEF SessionInv, NetworkInv
  <2>2. QED
    BY <1>8, <2>1 DEF SenderExpires, DuplicateData
<1>9. QED
  BY <1>2, <1>3, <1>4, <1>5, <1>6, <1>7, <1>8 DEF Next

(* ConservativeInv is an inductive invariant of such a session, as long as *)
(* conservative mode, once entered, lasts to its end.                      *)
THEOREM ConservativeInvariant ==
  ASSUME ~StillPicture, DataLink # "datagram", MaxExpirations = 0
  PROVE  Spec => []ConservativeInv
<1>1. Init => ConservativeInv
  BY ConservativeInitially
<1>2. ConservativeInv /\ [Next]_vars => ConservativeInv'
  BY ConservativeNext
<1>3. QED
  BY <1>1, <1>2, PTL DEF Spec

(* A frame on its way to the receiver continues the chain, or comes too    *)
(* late, or starts from a state the receiver has and will still have when  *)
(* it arrives: frames in flight prune the saved decoders only up to their  *)
(* own source, and no later source is older.                               *)
THEOREM ConservativeFramesAreDecodable ==
  ASSUME ~StillPicture, DataLink # "datagram", MaxExpirations = 0
  PROVE  Spec => []ConservativeFrameIsDecodable
<1>1. ConservativeInv => ConservativeFrameIsDecodable
  <2> SUFFICES ASSUME ConservativeInv, NEW i \in DOMAIN data
               PROVE  \/ data[i].source_state = data[i].frame_no
                      \/ IsLate(data[i])
                      \/ data[i].source_state \in decoders
    BY DEF ConservativeFrameIsDecodable
  <2>1. i \in 1 .. Len(data)
    BY OrderedTypes, LenProperties DEF ConservativeInv, OrderedInv, NumberedInv
  <2>2. CASE ChainedUpTo(data[i].target_state)
    BY <2>1, <2>2, ConservativeTypes, PacketTypes DEF ConservativeInv, OrderedInv
  <2>3. CASE ~ChainedUpTo(data[i].target_state)
    BY <2>1, <2>3 DEF ConservativeInv, LateSourcesAreHeld
  <2>4. QED
    BY <2>2, <2>3
<1>2. QED
  BY <1>1, ConservativeInvariant, PTL

(* When the sender starts a conservative frame the receiver has the source *)
(* it chose, although the ack that names it may be old: nothing sent since *)
(* has pruned it.                                                          *)
THEOREM ConservativeSourcesAreHeld ==
  ASSUME ~StillPicture, DataLink # "datagram", MaxExpirations = 0
  PROVE  Spec => ConservativeSourceIsHeld
<1>1. ConservativeInv /\ ConservativeInv' /\ [Next]_vars =>
        [sender = "fetch" /\ sender' = "encode" /\ conservative' /\ receiver = "running"
           => job_source' \in decoders]_vars
  <2> SUFFICES ASSUME ConservativeInv', [Next]_vars, sender = "fetch", sender' = "encode",
                      conservative'
               PROVE  job_source' \in decoders
    OBVIOUS
  <2>1. job_source' \in decoders'
    BY DEF ConservativeInv, SourcesAreHeld
  <2>2. decoders' = decoders
    BY DEF Next, SenderStarts, SenderSkips, SkipFrame, SenderSends, SenderExpires,
       ConservativeExpires, DeliverData, DeliverAck, DeliverStrayPacket, DeliverStrayAck,
       ReceiveAck, DuplicateData, DuplicateAck, vars, sender_vars, receiver_vars
  <2>3. QED
    BY <2>1, <2>2
<1>2. QED
  BY <1>1, ConservativeInvariant, PTL DEF Spec, ConservativeSourceIsHeld

-----------------------------------------------------------------------------
(* A network that loses nothing.                                           *)

(* The state in which frame n begins, if its encoder is still stored.      *)
StateAfter(n) == IF n = 0 THEN Initial ELSE encoder_states[n - Dropped]

(* A packet leaves right after the one before it.                          *)
Follows(p, q) ==
  \/ /\ q.frame_no = p.frame_no /\ q.fragment_no = p.fragment_no + 1
     /\ p.fragment_no + 1 < p.fragments
  \/ /\ q.frame_no = p.frame_no + 1 /\ q.fragment_no = 0
     /\ p.fragment_no + 1 = p.fragments

(* No packet is missing between the frame being collected and the last one.*)
PacketsInSequence ==
  /\ data = << >> => next_frame_no = frame_no
  /\ data # << >> => /\ data[1].frame_no = next_frame_no
                     /\ data[Len(data)].frame_no + 1 = frame_no
                     /\ data[Len(data)].fragment_no + 1 = data[Len(data)].fragments
  /\ \A i \in 1 .. Len(data) - 1 : Follows(data[i], data[i + 1])
  /\ \A i, j \in 1 .. Len(data) : i <= j => data[i].frame_no <= data[j].frame_no

(* The fragments held are those sent before the next packet.               *)
NextIsCollected ==
  /\ DOMAIN fragmented_frames = {} =>
       (data # << >> => data[1].fragment_no = 0)
  /\ DOMAIN fragmented_frames # {} =>
       /\ data # << >>
       /\ data[1].fragment_no > 0
       /\ fragmented_frames[next_frame_no] =
            [source_state |-> data[1].source_state, target_state |-> data[1].target_state,
             fragments |-> data[1].fragments, valid |-> 0 .. data[1].fragment_no - 1]

(* Every frame takes the receiver from one state of the sender to the next.*)
PacketsOnChain ==
  \A i \in 1 .. Len(data) :
    /\ data[i].source_state = StateAfter(data[i].frame_no)
    /\ data[i].target_state = StateAfter(data[i].frame_no + 1)

(* The frames decoded when an ack was sent.                                *)
Applied(ack) ==
  IF AckSeqNo(ack) + 1 = cumulative_fpf[ack.frame_no + 1]
  THEN ack.frame_no + 1 ELSE ack.frame_no

(* The acks report states of that chain, and never go back along it.       *)
AcksOnChain ==
  /\ \A i \in 1 .. Len(acks) :
       /\ Applied(acks[i]) <= next_frame_no
       /\ acks[i].current_state = StateAfter(Applied(acks[i]))
  /\ \A i, j \in 1 .. Len(acks) : i < j => Applied(acks[i]) <= Applied(acks[j])

(* The cleanup has not reached the state last acknowledged, nor one that is*)
(* going to be.                                                            *)
AckedIsStored ==
  \E n \in 0 .. next_frame_no :
    /\ Dropped = 0 \/ Dropped < n
    /\ receiver_last_acked_state \in {None, StateAfter(n)}
    /\ \A i \in 1 .. Len(acks) : n <= Applied(acks[i])

(* Both ends agree on the states they are in.                              *)
EndsAgree ==
  /\ sender # "out_of_range" /\ receiver = "running" /\ ~conservative
  /\ current_state = StateAfter(next_frame_no)
  /\ sender = "encode" => job_source = StateAfter(frame_no)

(* The inductive invariant of links that lose nothing.                     *)
InSyncInv ==
  /\ SessionInv
  /\ Dropped \in Nat
  /\ EndsAgree
  /\ PacketsInSequence
  /\ NextIsCollected
  /\ PacketsOnChain
  /\ AcksOnChain
  /\ AckedIsStored

-----------------------------------------------------------------------------
(* What InSyncInv compares, and the frames whose states are still stored.  *)
LEMMA InSyncTypes ==
  ASSUME InSyncInv
  PROVE  /\ next_frame_no \in Nat /\ frame_no \in Nat /\ next_frame_no <= frame_no
         /\ data \in Seq(SentPackets) /\ Len(data) \in Nat
         /\ (data = << >> <=> Len(data) = 0)
         /\ acks \in Seq(SentAcks) /\ Len(acks) \in Nat
         /\ \A i \in 1 .. Len(acks) : acks[i] \in SentAcks
         /\ encoder_states \in Seq(Hash) /\ Len(encoder_states) \in Nat
         /\ Dropped \in Nat /\ frame_no = Dropped + Len(encoder_states)
<1> USE DEF InSyncInv, SessionInv
<1>1. /\ frame_no \in Nat /\ encoder_states \in Seq(Hash) /\ Len(encoder_states) \in Nat
      /\ frame_no = Dropped + Len(encoder_states)
  BY CountsAreNat DEF Dropped
<1>2. /\ data \in Seq(SentPackets) /\ Len(data) \in Nat /\ (data = << >> <=> Len(data) = 0)
      /\ acks \in Seq(SentAcks) /\ Len(acks) \in Nat
  BY LenProperties, EmptySeq DEF NetworkInv
<1>3. \A i \in 1 .. Len(acks) : acks[i] \in SentAcks
  BY <1>2, ElementOfSeq
<1>4. next_frame_no \in Nat
  BY DEF ReceiverInv, ReceiverTypeOK
<1>5. next_frame_no <= frame_no
  <2>1. CASE data = << >>
    BY <1>4, <2>1 DEF PacketsInSequence
  <2>2. CASE data # << >>
    <3>1. data[1] \in SentPackets
      BY <1>2, <2>2, ElementOfSeq
    <3>2. QED
      BY <1>1, <2>2, <3>1 DEF PacketsInSequence, SentPackets, DataPacket
  <2>3. QED
    BY <2>1, <2>2
<1>6. QED
  BY <1>1, <1>2, <1>3, <1>4, <1>5

(* The packets in the network are of the frames from next_frame_no on.     *)
LEMMA PacketsAreAhead ==
  ASSUME InSyncInv, NEW i \in 1 .. Len(data)
  PROVE  /\ data[i] \in SentPackets
         /\ data[i].frame_no \in next_frame_no .. frame_no - 1
<1> USE DEF InSyncInv, SessionInv
<1>1. data[i] \in SentPackets /\ data # << >>
  BY InSyncTypes, ElementOfSeq
<1>2. data[i].frame_no \in Nat /\ data[i].frame_no < frame_no
  BY <1>1 DEF SentPackets, DataPacket
<1>3. data[1].frame_no = next_frame_no
  BY <1>1 DEF PacketsInSequence
<1>4. data[1].frame_no <= data[i].frame_no
  <2>1. 1 \in 1 .. Len(data) /\ 1 <= i
    BY InSyncTypes
  <2>2. QED
    BY <2>1 DEF PacketsInSequence
<1>5. QED
  BY <1>1, <1>2, <1>3, <1>4, InSyncTypes

(* The states from the one last acknowledged on have their encoders.       *)
LEMMA StateAfterIsStored ==
  ASSUME SessionInv, Dropped \in Nat,
         NEW n \in 0 .. frame_no, Dropped = 0 \/ Dropped < n
  PROVE  /\ n > 0 => n - Dropped \in 1 .. Len(encoder_states)
         /\ StateAfter(n) \in Hash
         /\ StateAfter(n) \in encoders
<1> USE DEF SessionInv
<1>1. /\ frame_no \in Nat /\ encoder_states \in Seq(Hash) /\ Len(encoder_states) \in Nat
      /\ frame_no = Dropped + Len(encoder_states)
  BY CountsAreNat DEF Dropped
<1>2. CASE n = 0
  BY <1>2 DEF StateAfter, SenderInv, StoredIsListed, Initial, Hash
<1>3. CASE n > 0
  <2>1. n - Dropped \in 1 .. Len(encoder_states)
    BY <1>1, <1>3
  <2>2. StateAfter(n) = encoder_states[n - Dropped]
    BY <1>3 DEF StateAfter
  <2>3. encoder_states[n - Dropped] \in Hash /\ encoder_states[n - Dropped] \in Range(encoder_states)
    BY <1>1, <2>1, ElementsOf, ElementOfSeq
  <2>4. QED
    BY <2>1, <2>2, <2>3 DEF SenderInv, StoredIsListed
<1>4. QED
  BY <1>2, <1>3

(* The states the cleanup has not reached are stored.                      *)
LEMMA StoredStates ==
  SessionInv /\ Dropped \in Nat =>
    \A m \in 0 .. frame_no : Dropped = 0 \/ Dropped < m => StateAfter(m) \in encoders
BY StateAfterIsStored

(* The cleanup stops at the state last acknowledged, and the sender goes   *)
(* on from the last one it made.                                           *)
LEMMA StartsInSync ==
  ASSUME InSyncInv, SessionInv', StartEncode
  PROVE  /\ sender' = "encode" /\ ~conservative'
         /\ Dropped' \in Nat
         /\ job_source' = StateAfter(frame_no)'
         /\ \E n \in 0 .. next_frame_no :
              /\ Dropped' = 0 \/ Dropped' < n
              /\ receiver_last_acked_state \in {None, StateAfter(n)}
              /\ \A i \in 1 .. Len(acks) : n <= Applied(acks[i])
              /\ \A m \in n .. frame_no : StateAfter(m)' = StateAfter(m)
<1> USE DEF InSyncInv
<1>1. PICK k \in 0 .. Len(encoder_states) :
        /\ CleanupStopsAfter(k)
        /\ Len(encoder_states') = Len(encoder_states) - k
        /\ frame_no' = frame_no
        /\ Dropped' = Dropped + k
        /\ \A i \in 1 .. Len(encoder_states) - k : encoder_states'[i] = encoder_states[k + i]
  BY StartEncodePops DEF SessionInv
<1>2. PICK n \in 0 .. next_frame_no :
        /\ Dropped = 0 \/ Dropped < n
        /\ receiver_last_acked_state \in {None, StateAfter(n)}
        /\ \A i \in 1 .. Len(acks) : n <= Applied(acks[i])
  BY DEF AckedIsStored
<1>3. /\ next_frame_no \in Nat /\ frame_no \in Nat /\ next_frame_no <= frame_no
      /\ encoder_states \in Seq(Hash) /\ Len(encoder_states) \in Nat
      /\ Dropped \in Nat /\ frame_no = Dropped + Len(encoder_states)
  BY InSyncTypes
<1>4. n \in 0 .. frame_no
  BY <1>3
<1>5. Dropped' \in Nat /\ (Dropped' = 0 \/ Dropped' < n)
  <2>1. CASE ~CleanupDue
    <3>1. k = 0
      BY <1>1, <2>1 DEF CleanupStopsAfter
    <3>2. QED
      BY <1>1, <1>2, <1>3, <3>1
  <2>2. CASE CleanupDue
    <3>1. receiver_last_acked_state = StateAfter(n) /\ n # 0
      BY <1>2, <2>2 DEF CleanupDue, StateAfter
    <3>2. n - Dropped \in 1 .. Len(encoder_states)
      BY <1>2, <1>4, <3>1, StateAfterIsStored
    <3>3. receiver_last_acked_state = encoder_states[n - Dropped]
      BY <3>1 DEF StateAfter
    <3>4. \A i \in 1 .. k : encoder_states[i] # receiver_last_acked_state
      BY <1>1, <2>2 DEF CleanupStopsAfter, StopsAfter
    <3>5. k < n - Dropped
      BY <1>3, <3>2, <3>3, <3>4
    <3>6. QED
      BY <1>1, <1>3, <3>5
  <2>3. QED
    BY <2>1, <2>2
<1>6. ASSUME NEW m \in n .. frame_no
      PROVE  StateAfter(m)' = StateAfter(m)
  <2>1. CASE m = 0
    BY <2>1 DEF StateAfter
  <2>2. CASE m > 0
    <3>1. m - Dropped' \in 1 .. Len(encoder_states) - k /\ k + (m - Dropped') = m - Dropped
      BY <1>1, <1>3, <1>4, <1>5, <2>2
    <3>2. encoder_states'[m - Dropped'] = encoder_states[m - Dropped]
      BY <1>1, <3>1
    <3>3. QED
      BY <1>4, <2>2, <3>2 DEF StateAfter
  <2>3. QED
    BY <1>4, <2>1, <2>2
<1>7. frame_no' = frame_no /\ UNCHANGED <<receiver_last_acked_state, receiver_assumed_state>>
  BY <1>1 DEF StartEncode, acked_vars, sent_vars
<1>8. receiver_last_acked_state # None => receiver_last_acked_state \in encoders'
  <2>1. (SessionInv /\ Dropped \in Nat =>
           \A m \in 0 .. frame_no : Dropped = 0 \/ Dropped < m => StateAfter(m) \in encoders)'
    BY StoredStates, PTL
  <2>2. StateAfter(n)' = StateAfter(n)
    BY <1>3, <1>4, <1>6
  <2>3. StateAfter(n)' \in encoders'
    BY <1>4, <1>5, <1>7, <2>1
  <2>4. QED
    BY <1>2, <2>2, <2>3
<1>9. ~ReceiverIsInvalid(encoders') /\ ~conservative
  BY <1>8 DEF ReceiverIsInvalid, EndsAgree
<1>10. /\ receiver_assumed_state' = Back(encoder_states', None)
       /\ encoder_states' \in Seq(Hash)
       /\ encoders' = {Initial} \cup Range(encoder_states')
  BY DEF SessionInv, SenderInv, SenderTypeOK, AssumedIsNewest, StoredIsListed
<1>11. SelectedSource(encoders') = StateAfter(frame_no)' /\ SelectedSource(encoders') \in encoders'
  <2>1. SelectedSource(encoders') =
          IF receiver_assumed_state = None THEN Initial ELSE receiver_assumed_state
    BY <1>9 DEF SelectedSource
  <2>2. CASE encoder_states' = << >>
    <3>1. Len(encoder_states') = 0
      BY <2>2, EmptyDeque
    <3>2. frame_no = 0
      BY <1>1, <1>3, <1>4, <1>5, <3>1
    <3>3. receiver_assumed_state = None
      BY <1>7, <1>10, <2>2 DEF Back
    <3>4. QED
      BY <1>7, <1>10, <2>1, <3>2, <3>3 DEF StateAfter
  <2>3. CASE encoder_states' # << >>
    <3>1. /\ Len(encoder_states') > 0 /\ Len(encoder_states') \in 1 .. Len(encoder_states')
          /\ Back(encoder_states', None) = encoder_states'[Len(encoder_states')]
          /\ Back(encoder_states', None) \in Range(encoder_states')
      BY <1>10, <2>3, BackOfRest, LenProperties
    <3>2. Back(encoder_states', None) # None
      <4>1. encoder_states'[Len(encoder_states')] \in Hash
        BY <1>10, <3>1, ElementOfSeq
      <4>2. QED
        BY <3>1, <4>1 DEF Hash, None
    <3>3. frame_no' - Dropped' = Len(encoder_states') /\ frame_no' # 0
      BY <1>1, <1>3, <1>7, <3>1
    <3>4. StateAfter(frame_no)' = encoder_states'[Len(encoder_states')]
      BY <3>3 DEF StateAfter
    <3>5. QED
      BY <1>7, <1>10, <2>1, <3>1, <3>2, <3>4
  <2>4. QED
    BY <2>2, <2>3
<1>12. sender' = "encode" /\ ~conservative' /\ job_source' = StateAfter(frame_no)'
  BY <1>9, <1>11 DEF StartEncode
<1>13. QED
  BY <1>2, <1>5, <1>6, <1>12

(* An ack counts a frame or the one after it.                              *)
LEMMA AppliedIsNat ==
  ASSUME NEW a \in SentAcks
  PROVE  Applied(a) \in Nat /\ a.frame_no \in Nat /\ a.frame_no < frame_no
BY DEF SentAcks, AckPacket, Applied

(* The sender goes on from the state of the last frame.                    *)
LEMMA InSyncStarts ==
  ASSUME InSyncInv, SessionInv', SenderStarts
  PROVE  InSyncInv'
<1>1. StartEncode /\ UNCHANGED <<receiver_vars, network_vars, sent_vars>>
  BY DEF SenderStarts, StartEncode
<1>2. /\ data' = data /\ acks' = acks /\ frame_no' = frame_no
      /\ next_frame_no' = next_frame_no /\ fragmented_frames' = fragmented_frames
      /\ current_state' = current_state /\ receiver' = receiver
      /\ cumulative_fpf' = cumulative_fpf
      /\ receiver_last_acked_state' = receiver_last_acked_state
  BY <1>1 DEF network_vars, receiver_vars, sent_vars, frame_no, StartEncode, acked_vars
<1>3. PICK n \in 0 .. next_frame_no :
        /\ Dropped' = 0 \/ Dropped' < n
        /\ receiver_last_acked_state \in {None, StateAfter(n)}
        /\ \A i \in 1 .. Len(acks) : n <= Applied(acks[i])
        /\ \A m \in n .. frame_no : StateAfter(m)' = StateAfter(m)
  BY <1>1, StartsInSync
<1>4. /\ sender' = "encode" /\ ~conservative' /\ Dropped' \in Nat
      /\ job_source' = StateAfter(frame_no)'
  BY <1>1, StartsInSync
<1>5. /\ next_frame_no \in n .. frame_no /\ n \in 0 .. frame_no /\ frame_no \in Nat
  BY InSyncTypes
<1>6. EndsAgree'
  <2>1. StateAfter(next_frame_no)' = StateAfter(next_frame_no)
    BY <1>2, <1>3, <1>5 DEF StateAfter
  <2>2. QED
    BY <1>2, <1>4, <2>1 DEF InSyncInv, EndsAgree
<1>7. PacketsInSequence' /\ NextIsCollected'
  BY <1>2 DEF InSyncInv, PacketsInSequence, NextIsCollected, Follows
<1>8. PacketsOnChain'
  <2> SUFFICES ASSUME NEW i \in 1 .. Len(data)
               PROVE  /\ data[i].source_state = StateAfter(data[i].frame_no)'
                      /\ data[i].target_state = StateAfter(data[i].frame_no + 1)'
    BY <1>2 DEF PacketsOnChain
  <2>1. PICK m : m = data[i].frame_no
    OBVIOUS
  <2>2. m \in n .. frame_no /\ m + 1 \in n .. frame_no
    BY <1>5, <2>1, PacketsAreAhead
  <2>3. StateAfter(m)' = StateAfter(m) /\ StateAfter(m + 1)' = StateAfter(m + 1)
    BY <1>3, <2>2
  <2>4. /\ StateAfter(data[i].frame_no)' = StateAfter(m)'
        /\ StateAfter(data[i].frame_no + 1)' = StateAfter(m + 1)'
    BY <1>2, <2>1 DEF StateAfter
  <2>5. QED
    BY <2>1, <2>3, <2>4 DEF InSyncInv, PacketsOnChain
<1>9. \A i \in 1 .. Len(acks) : Applied(acks[i])' = Applied(acks[i])
  BY <1>2 DEF Applied, AckSeqNo
<1>10. AcksOnChain'
  <2>1. \A i \in 1 .. Len(acks) : StateAfter(Applied(acks[i]))' = StateAfter(Applied(acks[i]))
    <3> TAKE i \in 1 .. Len(acks)
    <3>1. PICK m : m = Applied(acks[i])
      OBVIOUS
    <3>2. m \in n .. frame_no
      BY <1>3, <1>5, <3>1, InSyncTypes, AppliedIsNat DEF InSyncInv, AcksOnChain
    <3>3. StateAfter(Applied(acks[i]))' = StateAfter(m)'
      BY <1>9, <3>1 DEF StateAfter
    <3>4. QED
      BY <1>3, <3>1, <3>2, <3>3
  <2>2. QED
    BY <1>2, <1>9, <2>1 DEF InSyncInv, AcksOnChain
<1>11. AckedIsStored'
  <2>1. StateAfter(n)' = StateAfter(n)
    BY <1>3, <1>5
  <2>2. QED
    BY <1>2, <1>3, <1>9, <2>1 DEF AckedIsStored
<1>12. QED
  BY <1>4, <1>6, <1>7, <1>8, <1>10, <1>11 DEF InSyncInv

(* A frame is sent from the state the sender is in.                        *)
LEMMA InSyncSends ==
  ASSUME InSyncInv, SessionInv', SenderSends
  PROVE  InSyncInv'
<1>1. PICK target \in Targets(job_source), fragments \in 1 .. MaxFragments :
         /\ SendFrame(target, fragments)
         /\ data' = data \o FramePackets(target, fragments)
  BY DEF SenderSends
<1>2. SessionInv /\ SenderInv
  BY DEF InSyncInv, SessionInv
<1>3. PICK n, total :
        /\ n = Len(data) /\ total = Before(frame_no)
        /\ n \in Nat /\ total \in Nat /\ fragments \in Nat
        /\ Len(data') = n + fragments
        /\ \A j \in 1 .. n : data'[j] = data[j] /\ AckSeqNo(data[j])' = AckSeqNo(data[j])
        /\ \A m \in 1 .. fragments :
             /\ AckSeqNo(data[n + m])' = total + m - 1
             /\ data'[n + m] =
                  [own |-> TRUE, frame_no |-> frame_no, fragment_no |-> m - 1,
                   fragments |-> fragments, source_state |-> job_source,
                   target_state |-> target]
        /\ \A a \in SentAcks : AckSeqNo(a)' = AckSeqNo(a)
  BY <1>1, <1>2, Zenon, SendingAppends
<1>4. /\ frame_no' = frame_no + 1
      /\ Dropped' = Dropped
      /\ Len(encoder_states') = Len(encoder_states) + 1
      /\ \A i \in 1 .. Len(encoder_states) : encoder_states'[i] = encoder_states[i]
      /\ encoder_states'[Len(encoder_states) + 1] = target
  BY <1>1, <1>2, SendFramePushes
<1>5. /\ acks' = acks
      /\ next_frame_no' = next_frame_no /\ fragmented_frames' = fragmented_frames
      /\ current_state' = current_state /\ receiver' = receiver
      /\ sender = "encode" /\ sender' = "fetch" /\ conservative' = conservative
      /\ receiver_last_acked_state' = receiver_last_acked_state
  BY <1>1 DEF SenderSends, SendFrame, receiver_vars, acked_vars
<1>6. /\ next_frame_no \in Nat /\ frame_no \in Nat /\ next_frame_no <= frame_no
      /\ (data = << >> <=> Len(data) = 0)
      /\ Len(encoder_states) \in Nat
      /\ Dropped \in Nat /\ frame_no = Dropped + Len(encoder_states)
      /\ acks \in Seq(SentAcks) /\ \A i \in 1 .. Len(acks) : acks[i] \in SentAcks
  BY InSyncTypes
<1>7. PICK z \in 0 .. next_frame_no :
        /\ Dropped = 0 \/ Dropped < z
        /\ receiver_last_acked_state \in {None, StateAfter(z)}
        /\ \A i \in 1 .. Len(acks) : z <= Applied(acks[i])
  BY DEF InSyncInv, AckedIsStored
<1>8. \A m \in z .. frame_no : StateAfter(m)' = StateAfter(m)
  <2> SUFFICES ASSUME NEW m \in z .. frame_no PROVE StateAfter(m)' = StateAfter(m)
    OBVIOUS
  <2>1. m > 0 => m - Dropped \in 1 .. Len(encoder_states)
    BY <1>6, <1>7
  <2>2. QED
    BY <1>4, <1>6, <1>7, <2>1 DEF StateAfter
<1>9. StateAfter(frame_no)' = target
  BY <1>4, <1>6 DEF StateAfter
<1>10. fragments > 0 /\ \A m \in 1 .. fragments :
          /\ data'[n + m].frame_no = frame_no
          /\ data'[n + m].fragment_no = m - 1
          /\ data'[n + m].fragments = fragments
          /\ data'[n + m].source_state = job_source
          /\ data'[n + m].target_state = target
  <2>1. fragments > 0
    BY SenderAssumption
  <2>2. ASSUME NEW m \in 1 .. fragments
        PROVE  /\ data'[n + m].frame_no = frame_no
               /\ data'[n + m].fragment_no = m - 1
               /\ data'[n + m].fragments = fragments
               /\ data'[n + m].source_state = job_source
               /\ data'[n + m].target_state = target
    <3>1. data'[n + m] =
                 [own |-> TRUE, frame_no |-> frame_no, fragment_no |-> m - 1,
                  fragments |-> fragments, source_state |-> job_source,
                  target_state |-> target]
      BY <1>3
    <3>2. QED
      BY <3>1
  <2>3. QED
    BY <2>1, <2>2
<1>11. \A j \in 1 .. n + fragments : j \notin 1 .. n =>
          /\ j - n \in 1 .. fragments
          /\ data'[j].frame_no = frame_no
          /\ data'[j].fragment_no = j - n - 1
          /\ data'[j].fragments = fragments
          /\ data'[j].source_state = job_source
          /\ data'[j].target_state = target
  <2> SUFFICES ASSUME NEW j \in 1 .. n + fragments, j \notin 1 .. n
               PROVE  /\ j - n \in 1 .. fragments
                      /\ data'[j].frame_no = frame_no
                      /\ data'[j].fragment_no = j - n - 1
                      /\ data'[j].fragments = fragments
                      /\ data'[j].source_state = job_source
                      /\ data'[j].target_state = target
    OBVIOUS
  <2>1. j - n \in 1 .. fragments /\ n + (j - n) = j
    BY <1>3
  <2>2. PICK m \in 1 .. fragments : n + m = j /\ m = j - n
    BY <2>1
  <2>3. QED
    BY <1>10, <2>1, <2>2
<1>12. /\ n \in Nat /\ fragments \in Nat /\ n = Len(data)
       /\ Len(data') = n + fragments
       /\ \A j \in 1 .. n : data'[j] = data[j]
  BY <1>3
<1>13. \A j \in 1 .. n : /\ data[j].frame_no \in next_frame_no .. frame_no - 1
                         /\ data[j] \in SentPackets
  BY <1>12, PacketsAreAhead
<1>14. data'[1].frame_no = next_frame_no
  <2>1. CASE n = 0
    <3>1. next_frame_no = frame_no
      BY <1>6, <1>12, <2>1 DEF InSyncInv, PacketsInSequence
    <3>2. 1 \in 1 .. n + fragments /\ 1 \notin 1 .. n
      BY <1>10, <1>12, <2>1
    <3>3. QED
      BY <1>11, <3>1, <3>2
  <2>2. CASE n # 0
    BY <1>6, <1>12, <2>2 DEF InSyncInv, PacketsInSequence
  <2>3. QED
    BY <2>1, <2>2
<1>15. PacketsInSequence'
  <2>1. ASSUME NEW i \in 1 .. n + fragments, NEW j \in 1 .. n + fragments, i <= j
        PROVE  data'[i].frame_no <= data'[j].frame_no
    <3>1. CASE j \in 1 .. n
      <4>1. i \in 1 .. n
        BY <1>12, <2>1, <3>1
      <4>2. QED
        BY <1>12, <2>1, <3>1, <4>1 DEF InSyncInv, PacketsInSequence
    <3>2. CASE j \notin 1 .. n
      <4>1. data'[j].frame_no = frame_no
        BY <1>11, <3>2
      <4>2. CASE i \in 1 .. n
        BY <1>6, <1>12, <1>13, <4>1, <4>2
      <4>3. CASE i \notin 1 .. n
        BY <1>6, <1>11, <4>1, <4>3
      <4>4. QED
        BY <4>2, <4>3
    <3>3. QED
      BY <3>1, <3>2
  <2>2. /\ data'[n + fragments].frame_no + 1 = frame_no + 1
        /\ data'[n + fragments].fragment_no + 1 = data'[n + fragments].fragments
    <3>1. n + fragments \in 1 .. n + fragments /\ n + fragments \notin 1 .. n
      BY <1>10, <1>12
    <3>2. data'[n + fragments].fragment_no = (n + fragments) - n - 1
      BY <1>11, <3>1
    <3>3. QED
      BY <1>11, <1>12, <3>1, <3>2
  <2>3. ASSUME NEW j \in 1 .. n + fragments - 1
        PROVE  Follows(data'[j], data'[j + 1])
    <3>1. CASE j \in 1 .. n /\ j + 1 \in 1 .. n
      <4>1. j \in 1 .. n - 1
        BY <1>12, <3>1
      <4>2. QED
        BY <1>12, <3>1, <4>1 DEF InSyncInv, PacketsInSequence
    <3>2. CASE j \in 1 .. n /\ j + 1 \notin 1 .. n
      <4>1. j = n /\ j + 1 \in 1 .. n + fragments
        BY <1>12, <3>2
      <4>2. data'[j + 1].frame_no = frame_no /\ data'[j + 1].fragment_no = j + 1 - n - 1
        BY <1>11, <3>2, <4>1
      <4>3. data[n].frame_no + 1 = frame_no /\ data[n].fragment_no + 1 = data[n].fragments
        BY <1>6, <1>12, <3>2 DEF InSyncInv, PacketsInSequence
      <4>4. QED
        BY <1>12, <3>2, <4>1, <4>2, <4>3 DEF Follows
    <3>3. CASE j \notin 1 .. n
      <4>1. j \in 1 .. n + fragments /\ j + 1 \in 1 .. n + fragments /\ j + 1 \notin 1 .. n
        BY <1>12, <3>3
      <4>2. /\ data'[j].frame_no = frame_no
            /\ data'[j].fragment_no = j - n - 1
            /\ data'[j].fragments = fragments
            /\ j - n \in 1 .. fragments
        BY <1>11, <3>3, <4>1
      <4>3. j + 1 \in 1 .. n + fragments /\ j + 1 \notin 1 .. n
        BY <4>1
      <4>5. /\ data'[j + 1].frame_no = frame_no
            /\ data'[j + 1].fragment_no = (j + 1) - n - 1
            /\ (j + 1) - n \in 1 .. fragments
        BY <1>11, <4>3, Zenon
      <4>6. (j + 1) - n - 1 = (j - n - 1) + 1 /\ (j - n - 1) + 1 < fragments
        BY <1>12, <4>5
      <4>7. /\ data'[j + 1].frame_no = data'[j].frame_no
            /\ data'[j + 1].fragment_no = data'[j].fragment_no + 1
            /\ data'[j].fragment_no + 1 < data'[j].fragments
        BY <4>2, <4>5, <4>6, Zenon
      <4>8. QED
        BY <4>7, Zenon DEF Follows
    <3>4. QED
      BY <3>1, <3>2, <3>3
  <2>4. data' # << >>
    <3>1. Len(data') # 0
      BY <1>10, <1>12
    <3>2. QED
      BY <3>1, EmptyDeque
  <2>5. QED
    BY <1>4, <1>5, <1>12, <1>14, <2>1, <2>2, <2>3, <2>4 DEF PacketsInSequence
<1>16. NextIsCollected'
  <2>1. CASE n = 0
    <3>1. DOMAIN fragmented_frames = {}
      BY <1>6, <1>12, <2>1 DEF InSyncInv, NextIsCollected
    <3>2. 1 \in 1 .. n + fragments /\ 1 \notin 1 .. n
      BY <1>10, <1>12, <2>1
    <3>3. data'[1].fragment_no = 1 - n - 1
      BY <1>11, <3>2
    <3>4. QED
      BY <1>5, <2>1, <3>1, <3>3 DEF NextIsCollected
  <2>2. CASE n # 0
    <3>1. data # << >> /\ data'[1] = data[1]
      BY <1>6, <1>12, <2>2
    <3>2. data' # << >>
      <4>1. Len(data') # 0
        BY <1>10, <1>12
      <4>2. QED
        BY <4>1, EmptyDeque
    <3>3. QED
      BY <1>5, <3>1, <3>2 DEF InSyncInv, NextIsCollected
  <2>3. QED
    BY <2>1, <2>2
<1>17. PacketsOnChain'
  <2> SUFFICES ASSUME NEW j \in 1 .. n + fragments
               PROVE  /\ data'[j].source_state = StateAfter(data[j].frame_no)'
                      /\ data'[j].target_state = StateAfter(data[j].frame_no + 1)'
    BY <1>12 DEF PacketsOnChain
  <2>1. CASE j \in 1 .. n
    <3>1. PICK m : m = data[j].frame_no
      OBVIOUS
    <3>2. m \in z .. frame_no /\ m + 1 \in z .. frame_no
      BY <1>6, <1>7, <1>13, <2>1, <3>1
    <3>3. StateAfter(m)' = StateAfter(m) /\ StateAfter(m + 1)' = StateAfter(m + 1)
      BY <1>8, <3>2
    <3>4. /\ StateAfter(data[j].frame_no)' = StateAfter(m)'
          /\ StateAfter(data[j].frame_no + 1)' = StateAfter(m + 1)'
          /\ data'[j] = data[j]
      BY <1>12, <2>1, <3>1 DEF StateAfter
    <3>5. QED
      BY <1>12, <2>1, <3>1, <3>3, <3>4 DEF InSyncInv, PacketsOnChain
  <2>2. CASE j \notin 1 .. n
    <3>1. PICK m : m = frame_no
      OBVIOUS
    <3>2. StateAfter(m)' = StateAfter(m) /\ m \in z .. frame_no
      BY <1>6, <1>7, <1>8, <3>1
    <3>3. StateAfter(data[j].frame_no)' = StateAfter(m)'
      BY <1>11, <2>2, <3>1 DEF StateAfter
    <3>4. StateAfter(data[j].frame_no + 1)' = StateAfter(frame_no)'
      BY <1>4, <1>11, <2>2 DEF StateAfter
    <3>5. job_source = StateAfter(frame_no)
      BY <1>5 DEF InSyncInv, EndsAgree
    <3>6. QED
      BY <1>9, <1>11, <2>2, <3>1, <3>2, <3>3, <3>4, <3>5
  <2>3. QED
    BY <2>1, <2>2
<1>18. \A i \in 1 .. Len(acks) : Applied(acks[i])' = Applied(acks[i])
  <2> TAKE i \in 1 .. Len(acks)
  <2>1. acks[i] \in SentAcks /\ acks[i].frame_no \in Nat /\ acks[i].frame_no < frame_no
    BY <1>6, AppliedIsNat
  <2>2. AckSeqNo(acks[i])' = AckSeqNo(acks[i])
    <3>1. PICK a \in SentAcks : a = acks[i]
      BY <2>1
    <3>2. AckSeqNo(acks[i])' = AckSeqNo(a)'
      BY <1>5, <3>1 DEF AckSeqNo
    <3>3. QED
      BY <1>3, <3>1, <3>2
  <2>3. cumulative_fpf'[acks[i].frame_no + 1] = cumulative_fpf[acks[i].frame_no + 1]
    <3>1. /\ cumulative_fpf \in Seq(Nat) /\ frame_no = Len(cumulative_fpf)
          /\ cumulative_fpf' = Append(cumulative_fpf, Back(cumulative_fpf, 0) + fragments)
      BY <1>1, <1>2 DEF SenderInv, SenderTypeOK, SendFrame, frame_no
    <3>2. Back(cumulative_fpf, 0) + fragments \in Nat
      BY <1>2, <1>12, SeqNosAreSmall
    <3>3. acks[i].frame_no + 1 \in 1 .. Len(cumulative_fpf)
      BY <1>6, <2>1, <3>1
    <3>4. QED
      BY <3>1, <3>2, <3>3, AppendProperties
  <2>4. QED
    BY <1>5, <2>2, <2>3 DEF Applied
<1>19. AcksOnChain'
  <2>1. \A i \in 1 .. Len(acks) : StateAfter(Applied(acks[i]))' = StateAfter(Applied(acks[i]))
    <3> TAKE i \in 1 .. Len(acks)
    <3>1. PICK m : m = Applied(acks[i])
      OBVIOUS
    <3>2. m \in z .. frame_no
      BY <1>6, <1>7, <3>1, AppliedIsNat DEF InSyncInv, AcksOnChain
    <3>3. StateAfter(Applied(acks[i]))' = StateAfter(m)'
      BY <1>18, <3>1 DEF StateAfter
    <3>4. QED
      BY <1>8, <3>1, <3>2, <3>3
  <2>2. QED
    BY <1>5, <1>18, <2>1 DEF InSyncInv, AcksOnChain
<1>20. AckedIsStored'
  <2>1. StateAfter(z)' = StateAfter(z)
    BY <1>6, <1>7, <1>8
  <2>2. QED
    BY <1>4, <1>5, <1>7, <1>18, <2>1 DEF AckedIsStored
<1>21. EndsAgree'
  <2>1. StateAfter(next_frame_no)' = StateAfter(next_frame_no)
    <3>1. PICK m : m = next_frame_no
      OBVIOUS
    <3>2. m \in z .. frame_no /\ StateAfter(next_frame_no)' = StateAfter(m)'
      BY <1>5, <1>6, <1>7, <3>1 DEF StateAfter
    <3>3. QED
      BY <1>8, <3>1, <3>2
  <2>2. QED
    BY <1>5, <2>1 DEF InSyncInv, EndsAgree
<1>22. QED
  BY <1>4, <1>15, <1>16, <1>17, <1>19, <1>20, <1>21 DEF InSyncInv

(* The next packet is the one the receiver waits for: it is accepted, and  *)
(* when it completes its frame that is decoded on its source.              *)
LEMMA HandlesInSync ==
  ASSUME InSyncInv, data # << >>, HandlePacket(data[1])
  PROVE  LET p == data[1] IN
         /\ IsAccepted(p) /\ receiver' = "running"
         /\ p.fragment_no + 1 = p.fragments =>
              /\ next_frame_no' = next_frame_no + 1
              /\ current_state' = p.target_state
              /\ DOMAIN fragmented_frames' = {}
         /\ p.fragment_no + 1 # p.fragments =>
              /\ next_frame_no' = next_frame_no
              /\ current_state' = current_state
              /\ DOMAIN fragmented_frames' # {}
              /\ fragmented_frames'[next_frame_no] =
                   [source_state |-> p.source_state, target_state |-> p.target_state,
                    fragments |-> p.fragments, valid |-> 0 .. p.fragment_no]
<1> DEFINE p == data[1]
<1> USE DEF InSyncInv, SessionInv
<1>1. /\ p.own /\ p.frame_no \in Nat /\ p.fragment_no \in Nat /\ p.fragments \in Nat
      /\ p.fragment_no < p.fragments
      /\ p.source_state \in Hash /\ p.target_state \in Hash
      /\ p \in DataPacket
  <2>1. p \in SentPackets
    BY InSyncTypes, ElementOfSeq
  <2>2. QED
    BY <2>1 DEF SentPackets, DataPacket
<1>2. p.frame_no = next_frame_no /\ next_frame_no \in Nat
  BY InSyncTypes DEF PacketsInSequence
<1>3. DOMAIN fragmented_frames \subseteq {next_frame_no}
  BY DEF ReceiverInv, CollectsOneFrame
<1>4. p.source_state = current_state
  <2>1. 1 \in 1 .. Len(data)
    BY InSyncTypes
  <2>2. QED
    BY <1>2, <2>1 DEF PacketsOnChain, EndsAgree
<1>5. next_frame_no \in DOMAIN fragmented_frames =>
        /\ p.fragment_no > 0
        /\ fragmented_frames[next_frame_no] =
             [source_state |-> p.source_state, target_state |-> p.target_state,
              fragments |-> p.fragments, valid |-> 0 .. p.fragment_no - 1]
  BY DEF NextIsCollected
<1>6. next_frame_no \notin DOMAIN fragmented_frames => p.fragment_no = 0
  BY <1>3 DEF NextIsCollected
<1> HIDE DEF InSyncInv, SessionInv, p
<1>7. IsAccepted(p) /\ ~IsMalformed(p) /\ ~IsLate(p) /\ ~MissesWholeFrame(p) /\ ~IsMismatched(p)
  <2>1. ~IsMalformed(p) /\ ~IsLate(p) /\ ~MissesWholeFrame(p)
    BY <1>1, <1>2 DEF IsMalformed, IsLate, MissesWholeFrame, Overtakes
  <2>2. ~IsMismatched(p)
    BY <1>1, <1>2, <1>5 DEF IsMismatched
  <2>3. QED
    BY <2>1, <2>2 DEF IsAccepted
<1>8. Collected(p) = [source_state |-> p.source_state, target_state |-> p.target_state,
                      fragments |-> p.fragments, valid |-> 0 .. p.fragment_no]
  <2>1. CASE next_frame_no \in DOMAIN fragmented_frames
    <3>1. fragmented_frames[p.frame_no].valid = 0 .. p.fragment_no - 1
      BY <1>2, <1>5, <2>1
    <3>2. {p.fragment_no} \cup 0 .. p.fragment_no - 1 = 0 .. p.fragment_no
      BY <1>1
    <3>3. QED
      BY <1>2, <2>1, <3>1, <3>2 DEF Collected
  <2>2. CASE next_frame_no \notin DOMAIN fragmented_frames
    <3>1. {p.fragment_no} \cup {} = 0 .. p.fragment_no
      BY <1>6, <2>2
    <3>2. QED
      BY <1>2, <2>2, <3>1 DEF Collected
  <2>3. QED
    BY <2>1, <2>2
<1>9. Completes(p) <=> p.fragment_no + 1 = p.fragments
  <2>1. Collected(p).valid = 0 .. p.fragment_no
    BY <1>8
  <2>2. CASE p.fragment_no + 1 = p.fragments
    BY <1>1, <2>1, <2>2 DEF Completes
  <2>3. CASE p.fragment_no + 1 # p.fragments
    <3>1. p.fragment_no + 1 \in 0 .. p.fragments - 1 /\ p.fragment_no + 1 \notin 0 .. p.fragment_no
      BY <1>1, <2>3
    <3>2. QED
      BY <2>1, <2>3, <3>1 DEF Completes
  <2>4. QED
    BY <2>2, <2>3
<1>10. GivenUp(p) = {}
  BY <1>2 DEF GivenUp
<1>11. StateAfterGivingUp(p) = current_state /\ LoadedState(p) = p.source_state
  BY <1>4, <1>10 DEF StateAfterGivingUp, LoadedState
<1>12. receiver = "running" /\ (StoreFragment(p) \/ ApplyFrame(p))
  BY <1>7 DEF p, HandlePacket, RejectMalformed, IgnoreLate, MissWholeFrame, RejectMismatched
<1>13. CASE p.fragment_no + 1 = p.fragments
  <2>1. ApplyFrame(p)
    BY <1>9, <1>12, <1>13 DEF StoreFragment
  <2>2. next_frame_no' = next_frame_no + 1 /\ current_state' = p.target_state
        /\ receiver' = "running"
    BY <1>2, <1>11, <1>12, <2>1 DEF ApplyFrame, DecodedState
  <2>3. DOMAIN fragmented_frames' = {}
    BY <1>2, <1>3, <2>1 DEF ApplyFrame
  <2>4. QED
    BY <1>7, <1>13, <2>2, <2>3 DEF p
<1>14. CASE p.fragment_no + 1 # p.fragments
  <2>1. StoreFragment(p)
    BY <1>9, <1>12, <1>14 DEF ApplyFrame
  <2>2. next_frame_no' = next_frame_no /\ current_state' = current_state
        /\ receiver' = "running"
    BY <1>2, <1>11, <1>12, <2>1 DEF StoreFragment
  <2>3. DOMAIN fragmented_frames' # {} /\ fragmented_frames'[next_frame_no] = Collected(p)
    BY <1>2, <2>1 DEF StoreFragment
  <2>4. QED
    BY <1>7, <1>8, <1>14, <2>2, <2>3 DEF p
<1>15. QED
  BY <1>13, <1>14

(* The next packet arrives.                                                *)
LEMMA InSyncDelivers ==
  ASSUME DataLink = "reliable", InSyncInv, SessionInv',
         NEW i \in Arrivals(DataLink, data), DeliverData(i)
  PROVE  InSyncInv'
<1> DEFINE p == data[1]
           n == Len(data)
<1>1. i = 1 /\ data # << >>
  BY DEF Arrivals
<1>2. /\ HandlePacket(p) /\ data' = Remaining(DataLink, data, 1)
      /\ acks' = IF IsAccepted(p) THEN Append(acks, AckFor(p)) ELSE acks
      /\ UNCHANGED sender_vars
  BY <1>1 DEF DeliverData
<1>3. /\ next_frame_no \in Nat /\ frame_no \in Nat /\ next_frame_no <= frame_no
      /\ data \in Seq(SentPackets) /\ n \in Nat /\ n # 0
      /\ acks \in Seq(SentAcks) /\ Len(acks) \in Nat
      /\ \A j \in 1 .. Len(acks) : acks[j] \in SentAcks
      /\ Dropped \in Nat
  BY <1>1, InSyncTypes
<1>4. /\ Len(data') = n - 1
      /\ \A j \in 1 .. n - 1 : j + 1 \in 1 .. n /\ data'[j] = data[j + 1]
  <2>1. /\ Len(Remaining(DataLink, data, 1)) = Len(data) - 1
        /\ \A j \in 1 .. Len(data) - 1 :
             /\ 1 + j \in 1 .. Len(data)
             /\ Remaining(DataLink, data, 1)[j] = data[1 + j]
    BY <1>1, <1>3, RemainingIsLater, SessionAssumption
  <2>2. \A j \in 1 .. n - 1 : 1 + j = j + 1
    BY <1>3
  <2>3. QED
    BY <1>2, <2>1, <2>2
<1>5. /\ IsAccepted(p) /\ receiver' = "running"
      /\ p.fragment_no + 1 = p.fragments =>
           /\ next_frame_no' = next_frame_no + 1
           /\ current_state' = p.target_state
           /\ DOMAIN fragmented_frames' = {}
      /\ p.fragment_no + 1 # p.fragments =>
           /\ next_frame_no' = next_frame_no
           /\ current_state' = current_state
           /\ DOMAIN fragmented_frames' # {}
           /\ fragmented_frames'[next_frame_no] =
                [source_state |-> p.source_state, target_state |-> p.target_state,
                 fragments |-> p.fragments, valid |-> 0 .. p.fragment_no]
  BY <1>1, <1>2, HandlesInSync
<1>6. /\ frame_no' = frame_no /\ Dropped' = Dropped /\ encoder_states' = encoder_states
      /\ sender' = sender /\ conservative' = conservative /\ job_source' = job_source
      /\ receiver_last_acked_state' = receiver_last_acked_state
      /\ cumulative_fpf' = cumulative_fpf
  BY <1>2 DEF sender_vars, sent_vars, encoder_vars, acked_vars, frame_no, Dropped
<1>7. \A m : StateAfter(m)' = StateAfter(m)
  BY <1>6 DEF StateAfter
<1>8. /\ p \in SentPackets /\ p.frame_no = next_frame_no /\ p.frame_no < frame_no
      /\ p.fragment_no \in Nat /\ p.fragments \in Nat /\ p.fragment_no < p.fragments
      /\ p.source_state = StateAfter(next_frame_no)
      /\ p.target_state = StateAfter(next_frame_no + 1)
  <2>1. 1 \in 1 .. n
    BY <1>3
  <2>2. p \in SentPackets /\ p.frame_no = next_frame_no
    BY <1>1, <2>1, PacketsAreAhead DEF InSyncInv, PacketsInSequence
  <2>3. QED
    BY <2>1, <2>2 DEF SentPackets, DataPacket, InSyncInv, PacketsOnChain
<1>9. p.fragment_no + 1 # p.fragments => n - 1 # 0
  BY <1>1, <1>3 DEF InSyncInv, PacketsInSequence
<1>10. n - 1 # 0 => /\ data'[1] = data[2] /\ 1 \in 1 .. n - 1
                    /\ Follows(p, data[2]) /\ data[2] \in SentPackets
  <2> SUFFICES ASSUME n - 1 # 0
               PROVE  /\ data'[1] = data[2] /\ 1 \in 1 .. n - 1
                      /\ Follows(p, data[2]) /\ data[2] \in SentPackets
    OBVIOUS
  <2>1. 1 \in 1 .. n - 1 /\ 2 \in 1 .. n /\ 1 + 1 = 2
    <3> HIDE DEF n
    <3>1. n \in Nat /\ n # 0 /\ n - 1 # 0
      BY <1>3
    <3>2. n >= 2
      BY <3>1
    <3>3. QED
      BY <3>1, <3>2
  <2>2. data'[1] = data[2]
    BY <1>4, <2>1
  <2>3. Follows(data[1], data[1 + 1])
    BY <2>1 DEF InSyncInv, PacketsInSequence
  <2>4. QED
    BY <1>3, <2>1, <2>2, <2>3, ElementOfSeq
<1>11. /\ (data' = << >> <=> n - 1 = 0)
       /\ next_frame_no' \in next_frame_no .. next_frame_no + 1
  <2>1. data' \in Seq(SentPackets)
    BY <1>1, <1>2, <1>3, RemainingIsSent, SessionAssumption
  <2>2. data' = << >> <=> Len(data') = 0
    BY <2>1, EmptySeq, EmptyDeque
  <2>3. QED
    BY <1>3, <1>4, <1>5, <2>2
<1> HIDE DEF p, n
<1>12. n - 1 # 0 =>
         /\ data'[1].frame_no = next_frame_no'
         /\ p.fragment_no + 1 = p.fragments => data'[1].fragment_no = 0
         /\ p.fragment_no + 1 # p.fragments => data'[1].fragment_no = p.fragment_no + 1
  BY <1>5, <1>8, <1>10 DEF Follows
<1>13. PacketsInSequence'
  <2>1. data' = << >> => next_frame_no' = frame_no'
    <3> SUFFICES ASSUME n = 1 PROVE next_frame_no' = frame_no
      BY <1>3, <1>6, <1>11
    <3>1. p.frame_no + 1 = frame_no
      BY <1>1 DEF p, n, InSyncInv, PacketsInSequence
    <3>2. QED
      BY <1>5, <1>8, <1>9, <3>1
  <2>2. ASSUME n - 1 # 0
        PROVE  /\ data'[1].frame_no = next_frame_no'
               /\ data'[n - 1].frame_no + 1 = frame_no
               /\ data'[n - 1].fragment_no + 1 = data'[n - 1].fragments
    <3>1. n - 1 \in 1 .. n - 1 /\ (n - 1) + 1 = n
      BY <1>3, <2>2
    <3>2. data'[n - 1] = data[n]
      BY <1>4, <3>1
    <3>3. QED
      BY <1>1, <1>12, <2>2, <3>2 DEF n, InSyncInv, PacketsInSequence
  <2>3. ASSUME NEW j \in 1 .. n - 1 - 1
        PROVE  Follows(data'[j], data'[j + 1])
    <3>1. j \in 1 .. n - 1 /\ j + 1 \in 1 .. n - 1
      BY <1>3
    <3>2. data'[j] = data[j + 1] /\ data'[j + 1] = data[j + 1 + 1]
      BY <1>4, <3>1
    <3>3. Follows(data[j + 1], data[j + 1 + 1])
      BY <3>1 DEF n, InSyncInv, PacketsInSequence
    <3>4. QED
      BY <3>2, <3>3
  <2>4. ASSUME NEW j \in 1 .. n - 1, NEW m \in 1 .. n - 1, j <= m
        PROVE  data'[j].frame_no <= data'[m].frame_no
    <3>1. /\ j + 1 \in 1 .. n /\ data'[j] = data[j + 1]
          /\ m + 1 \in 1 .. n /\ data'[m] = data[m + 1]
      BY <1>4
    <3>2. j + 1 <= m + 1
      BY <1>3, <2>4
    <3>3. QED
      BY <3>1, <3>2 DEF n, InSyncInv, PacketsInSequence
  <2>5. QED
    BY <1>3, <1>4, <1>6, <1>11, <2>1, <2>2, <2>3, <2>4 DEF PacketsInSequence
<1>14. NextIsCollected'
  <2>1. CASE p.fragment_no + 1 = p.fragments
    <3>1. data' # << >> => data'[1].fragment_no = 0
      BY <1>11, <1>12, <2>1
    <3>2. QED
      BY <1>5, <2>1, <3>1 DEF NextIsCollected
  <2>2. CASE p.fragment_no + 1 # p.fragments
    <3>1. data' # << >> /\ data'[1].fragment_no = p.fragment_no + 1
          /\ data'[1].fragment_no > 0 /\ data'[1].fragment_no - 1 = p.fragment_no
      BY <1>8, <1>9, <1>11, <1>12, <2>2
    <3>2. /\ data'[1].source_state = p.source_state
          /\ data'[1].target_state = p.target_state
          /\ data'[1].fragments = p.fragments
      <4>1. data'[1] = data[2] /\ data[2] \in SentPackets /\ data[2].frame_no = p.frame_no
            /\ 2 \in 1 .. n
        BY <1>3, <1>5, <1>8, <1>9, <1>10, <1>12, <2>2
      <4>2. data[2].source_state = p.source_state /\ data[2].target_state = p.target_state
        BY <1>8, <4>1 DEF n, InSyncInv, PacketsOnChain
      <4>3. data[2].fragments = p.fragments
        <5>1. /\ Before(p.frame_no) + p.fragments = cumulative_fpf[p.frame_no + 1]
              /\ Before(p.frame_no) + data[2].fragments = cumulative_fpf[p.frame_no + 1]
              /\ data[2].fragments \in Nat
          BY <1>8, <4>1 DEF SentPackets, DataPacket
        <5>2. Before(p.frame_no) \in Nat
          <6>1. cumulative_fpf \in Seq(Nat) /\ frame_no = Len(cumulative_fpf)
            BY DEF InSyncInv, SessionInv, SenderInv, SenderTypeOK, frame_no
          <6>2. p.frame_no > 0 => p.frame_no \in 1 .. Len(cumulative_fpf)
            BY <1>3, <1>8, <6>1
          <6>3. QED
            BY <6>1, <6>2, ElementOfSeq DEF Before
        <5>3. QED
          BY <1>8, <5>1, <5>2
      <4>4. QED
        BY <4>1, <4>2, <4>3
    <3>3. QED
      BY <1>5, <2>2, <3>1, <3>2 DEF NextIsCollected
  <2>3. QED
    BY <2>1, <2>2
<1>15. PacketsOnChain'
  <2> SUFFICES ASSUME NEW j \in 1 .. n - 1
               PROVE  /\ data'[j].source_state = StateAfter(data[j].frame_no)'
                      /\ data'[j].target_state = StateAfter(data[j].frame_no + 1)'
    BY <1>4 DEF PacketsOnChain
  <2>1. j + 1 \in 1 .. n /\ data'[j] = data[j + 1]
    BY <1>4
  <2>2. /\ StateAfter(data[j].frame_no)' = StateAfter(data[j + 1].frame_no)
        /\ StateAfter(data[j].frame_no + 1)' = StateAfter(data[j + 1].frame_no + 1)
    BY <1>6, <2>1 DEF StateAfter
  <2>3. QED
    BY <2>1, <2>2 DEF n, InSyncInv, PacketsOnChain
<1>16. current_state' = StateAfter(next_frame_no')
  BY <1>5, <1>8 DEF InSyncInv, EndsAgree
<1>17. EndsAgree'
  <2>1. StateAfter(next_frame_no)' = StateAfter(next_frame_no')
    BY <1>6 DEF StateAfter
  <2>2. StateAfter(frame_no)' = StateAfter(frame_no)
    BY <1>6 DEF StateAfter
  <2>3. QED
    BY <1>5, <1>6, <1>16, <2>1, <2>2 DEF InSyncInv, EndsAgree
<1> DEFINE ack == AckFor(p)
           l == Len(acks)
<1>18. /\ ack.current_state = current_state'
       /\ Applied(ack) = next_frame_no'
  <2>1. /\ ack.frame_no = p.frame_no /\ ack.fragment_no = p.fragment_no
        /\ ack.current_state = current_state'
    BY DEF AckFor
  <2>2. AckSeqNo(ack) = Before(p.frame_no) + p.fragment_no
    BY <2>1 DEF AckSeqNo, Before
  <2>3. Before(p.frame_no) + p.fragments = cumulative_fpf[p.frame_no + 1]
    BY <1>8 DEF SentPackets
  <2>4. Before(p.frame_no) \in Nat
    <3>1. cumulative_fpf \in Seq(Nat) /\ frame_no = Len(cumulative_fpf)
      BY DEF InSyncInv, SessionInv, SenderInv, SenderTypeOK, frame_no
    <3>2. p.frame_no > 0 => p.frame_no \in 1 .. Len(cumulative_fpf)
      BY <1>3, <1>8, <3>1
    <3>3. QED
      BY <3>1, <3>2, ElementOfSeq DEF Before
  <2>5. AckSeqNo(ack) + 1 = cumulative_fpf[p.frame_no + 1] <=> p.fragment_no + 1 = p.fragments
    BY <1>8, <2>2, <2>3, <2>4
  <2>6. QED
    BY <1>5, <1>8, <2>1, <2>5 DEF Applied
<1>19. /\ acks' = Append(acks, ack)
       /\ ack \in SentAcks
  <2>1. ack \in SentAcks
    BY <1>8, AckIsSent DEF InSyncInv, SessionInv
  <2>2. QED
    BY <1>2, <1>5, <2>1
<1> HIDE DEF ack, l
<1>20. /\ Len(acks') = l + 1 /\ l \in Nat
       /\ \A j \in 1 .. l : acks'[j] = acks[j]
       /\ acks'[l + 1] = ack
  BY <1>3, <1>19, AppendProperties DEF l
<1>21. \A a : Applied(a)' = Applied(a)
  BY <1>6 DEF Applied, AckSeqNo
<1>22. \A j \in 1 .. l + 1 : Applied(acks[j])' = Applied(acks'[j])
  BY <1>6 DEF Applied, AckSeqNo
<1>23. AcksOnChain'
  <2>1. ASSUME NEW j \in 1 .. l + 1
        PROVE  /\ Applied(acks'[j]) <= next_frame_no'
               /\ acks'[j].current_state = StateAfter(Applied(acks'[j]))
               /\ j \in 1 .. l \/ j = l + 1
    <3>1. CASE j \in 1 .. l
      <4>1. Applied(acks[j]) \in Nat /\ Applied(acks[j]) <= next_frame_no
            /\ acks[j].current_state = StateAfter(Applied(acks[j]))
        BY <1>3, <3>1, AppliedIsNat DEF l, InSyncInv, AcksOnChain
      <4>2. Applied(acks[j]) <= next_frame_no'
        BY <1>3, <1>11, <4>1
      <4>3. QED
        BY <1>20, <3>1, <4>1, <4>2
    <3>2. CASE j = l + 1
      BY <1>3, <1>11, <1>16, <1>18, <1>20, <3>2
    <3>3. QED
      BY <1>20, <3>1, <3>2
  <2>2. ASSUME NEW j \in 1 .. l + 1, NEW m \in 1 .. l + 1, j < m
        PROVE  Applied(acks'[j]) <= Applied(acks'[m])
    <3>1. CASE m \in 1 .. l
      <4>1. j \in 1 .. l
        BY <1>20, <2>2, <3>1
      <4>2. Applied(acks[j]) <= Applied(acks[m])
        BY <2>2, <3>1, <4>1 DEF l, InSyncInv, AcksOnChain
      <4>3. QED
        BY <1>20, <3>1, <4>1, <4>2
    <3>2. CASE m = l + 1
      BY <1>18, <1>20, <2>1, <3>2
    <3>3. QED
      BY <2>1, <3>1, <3>2
  <2>3. \A j \in 1 .. l + 1 : StateAfter(Applied(acks[j]))' = StateAfter(Applied(acks'[j]))
    BY <1>6, <1>22 DEF StateAfter
  <2>4. QED
    BY <1>20, <1>22, <2>1, <2>2, <2>3 DEF AcksOnChain
<1>24. AckedIsStored'
  <2>1. PICK z \in 0 .. next_frame_no :
          /\ Dropped = 0 \/ Dropped < z
          /\ receiver_last_acked_state \in {None, StateAfter(z)}
          /\ \A j \in 1 .. l : z <= Applied(acks[j])
    BY DEF l, InSyncInv, AckedIsStored
  <2>2. z \in 0 .. next_frame_no'
    BY <1>3, <1>11
  <2>3. \A j \in 1 .. l + 1 : z <= Applied(acks'[j])
    <3> TAKE j \in 1 .. l + 1
    <3>1. CASE j \in 1 .. l
      BY <1>20, <2>1, <3>1
    <3>2. CASE j = l + 1
      BY <1>18, <1>20, <2>2, <3>2
    <3>3. QED
      BY <1>20, <3>1, <3>2
  <2>4. StateAfter(z)' = StateAfter(z)
    BY <1>7
  <2>5. QED
    BY <1>6, <1>20, <1>22, <2>1, <2>2, <2>3, <2>4 DEF AckedIsStored
<1>25. QED
  BY <1>3, <1>6, <1>13, <1>14, <1>15, <1>17, <1>23, <1>24 DEF InSyncInv

(* Steps that touch neither the states nor the datagrams.                  *)
LEMMA InSyncUnchanged ==
  ASSUME InSyncInv, SessionInv',
         UNCHANGED <<sent_vars, encoder_vars, receiver_vars, data, acks, acked_vars, conservative>>,
         sender' # "out_of_range",
         sender' = "encode" => sender = "encode" /\ job_source' = job_source
  PROVE  InSyncInv'
<1>1. /\ frame_no' = frame_no /\ Dropped' = Dropped /\ encoder_states' = encoder_states
      /\ cumulative_fpf' = cumulative_fpf /\ data' = data /\ acks' = acks
      /\ next_frame_no' = next_frame_no /\ fragmented_frames' = fragmented_frames
      /\ current_state' = current_state /\ receiver' = receiver
      /\ receiver_last_acked_state' = receiver_last_acked_state
      /\ conservative' = conservative
  BY DEF sent_vars, encoder_vars, receiver_vars, acked_vars, frame_no, Dropped
<1>2. /\ \A m : StateAfter(m)' = StateAfter(m)
      /\ StateAfter(next_frame_no)' = StateAfter(next_frame_no)
      /\ StateAfter(frame_no)' = StateAfter(frame_no)
      /\ \A i \in 1 .. Len(data) :
           /\ StateAfter(data[i].frame_no)' = StateAfter(data[i].frame_no)
           /\ StateAfter(data[i].frame_no + 1)' = StateAfter(data[i].frame_no + 1)
  BY <1>1 DEF StateAfter
<1>3. \A i \in 1 .. Len(acks) :
        /\ Applied(acks[i])' = Applied(acks[i])
        /\ StateAfter(Applied(acks[i]))' = StateAfter(Applied(acks[i]))
  BY <1>1 DEF StateAfter, Applied, AckSeqNo
<1> USE DEF InSyncInv
<1>4. EndsAgree'
  BY <1>1, <1>2 DEF EndsAgree
<1>5. PacketsInSequence' /\ NextIsCollected'
  BY <1>1 DEF PacketsInSequence, NextIsCollected, Follows
<1>6. PacketsOnChain'
  BY <1>1, <1>2 DEF PacketsOnChain
<1>7. AcksOnChain'
  BY <1>1, <1>3 DEF AcksOnChain
<1>8. AckedIsStored'
  BY <1>1, <1>2, <1>3 DEF AckedIsStored
<1>9. QED
  BY <1>1, <1>4, <1>5, <1>6, <1>7, <1>8

(* The oldest ack arrives.                                                 *)
LEMMA InSyncAcks ==
  ASSUME AckLink = "reliable", InSyncInv, SessionInv',
         NEW i \in Arrivals(AckLink, acks), DeliverAck(i)
  PROVE  InSyncInv'
<1> DEFINE a == acks[1]
           l == Len(acks)
<1>1. i = 1 /\ acks # << >>
  BY DEF Arrivals
<1>2. /\ ReceiveAck(a) /\ acks' = Remaining(AckLink, acks, 1)
      /\ UNCHANGED <<receiver_vars, data>>
  BY <1>1 DEF DeliverAck
<1>3. /\ acks \in Seq(SentAcks) /\ l \in Nat
      /\ \A j \in 1 .. l : acks[j] \in SentAcks
      /\ next_frame_no \in Nat
  BY InSyncTypes
<1>4. /\ Len(acks') = l - 1 /\ 1 \in 1 .. l
      /\ \A j \in 1 .. l - 1 : j + 1 \in 1 .. l /\ acks'[j] = acks[j + 1]
  <2>1. /\ 1 \in 1 .. Len(acks)
        /\ Len(Remaining(AckLink, acks, 1)) = Len(acks) - 1
        /\ \A j \in 1 .. Len(acks) - 1 :
             /\ 1 + j \in 1 .. Len(acks)
             /\ Remaining(AckLink, acks, 1)[j] = acks[1 + j]
    BY <1>1, <1>3, RemainingIsLater, SessionAssumption
  <2>2. \A j \in 1 .. l - 1 : 1 + j = j + 1
    BY <1>3
  <2>3. QED
    BY <1>2, <2>1, <2>2
<1>5. /\ frame_no' = frame_no /\ Dropped' = Dropped /\ encoder_states' = encoder_states
      /\ cumulative_fpf' = cumulative_fpf /\ data' = data
      /\ next_frame_no' = next_frame_no /\ fragmented_frames' = fragmented_frames
      /\ current_state' = current_state /\ receiver' = receiver
      /\ conservative' = conservative /\ sender' = sender /\ job_source' = job_source
  BY <1>2 DEF ReceiveAck, sent_vars, encoder_vars, receiver_vars, frame_no, Dropped
<1>6. receiver_last_acked_state' \in {receiver_last_acked_state, a.current_state}
  BY <1>2 DEF ReceiveAck, acked_vars
<1>7. /\ \A m : StateAfter(m)' = StateAfter(m)
      /\ StateAfter(next_frame_no)' = StateAfter(next_frame_no)
      /\ StateAfter(frame_no)' = StateAfter(frame_no)
      /\ \A j \in 1 .. Len(data) :
           /\ StateAfter(data[j].frame_no)' = StateAfter(data[j].frame_no)
           /\ StateAfter(data[j].frame_no + 1)' = StateAfter(data[j].frame_no + 1)
  BY <1>5 DEF StateAfter
<1>8. \A j \in 1 .. l - 1 :
        /\ Applied(acks[j])' = Applied(acks[j + 1])
        /\ StateAfter(Applied(acks[j]))' = StateAfter(Applied(acks[j + 1]))
  BY <1>4, <1>5 DEF StateAfter, Applied, AckSeqNo
<1> HIDE DEF a, l
<1> USE DEF InSyncInv
<1>9. EndsAgree'
  BY <1>5, <1>7 DEF EndsAgree
<1>10. PacketsInSequence' /\ NextIsCollected'
  BY <1>5 DEF PacketsInSequence, NextIsCollected, Follows
<1>11. PacketsOnChain'
  BY <1>5, <1>7 DEF PacketsOnChain
<1>12. AcksOnChain'
  <2>1. ASSUME NEW j \in 1 .. l - 1
        PROVE  /\ Applied(acks[j + 1]) <= next_frame_no
               /\ acks'[j].current_state = StateAfter(Applied(acks[j + 1]))
    BY <1>4 DEF l, AcksOnChain
  <2>2. ASSUME NEW j \in 1 .. l - 1, NEW m \in 1 .. l - 1, j < m
        PROVE  Applied(acks[j + 1]) <= Applied(acks[m + 1])
    <3>1. j + 1 \in 1 .. l /\ m + 1 \in 1 .. l /\ j + 1 < m + 1
      BY <1>3, <1>4, <2>2
    <3>2. QED
      BY <3>1 DEF l, AcksOnChain
  <2>3. \A j \in 1 .. l - 1 : /\ Applied(acks[j])' <= next_frame_no'
                               /\ acks'[j].current_state = StateAfter(Applied(acks[j]))'
    BY <1>5, <1>8, <2>1
  <2>4. \A j, m \in 1 .. l - 1 : j < m => Applied(acks[j])' <= Applied(acks[m])'
    BY <1>8, <2>2
  <2>5. QED
    BY <1>4, <2>3, <2>4 DEF AcksOnChain
<1>13. AckedIsStored'
  <2>1. PICK z \in 0 .. next_frame_no :
          /\ Dropped = 0 \/ Dropped < z
          /\ receiver_last_acked_state \in {None, StateAfter(z)}
          /\ \A j \in 1 .. l : z <= Applied(acks[j])
    BY DEF l, AckedIsStored
  <2>2. CASE receiver_last_acked_state' = receiver_last_acked_state
    <3>1. StateAfter(z)' = StateAfter(z) /\ \A j \in 1 .. l - 1 : z <= Applied(acks[j])'
      BY <1>4, <1>7, <1>8, <2>1
    <3>2. QED
      BY <1>4, <1>5, <2>1, <2>2, <3>1 DEF AckedIsStored
  <2>3. CASE receiver_last_acked_state' = a.current_state
    <3>1. PICK y : y = Applied(a)
      OBVIOUS
    <3>2. /\ y \in 0 .. next_frame_no /\ a.current_state = StateAfter(y)
          /\ z <= y
      <4>1. Applied(a) \in Nat /\ Applied(a) <= next_frame_no
            /\ a.current_state = StateAfter(Applied(a)) /\ z <= Applied(a)
        BY <1>3, <1>4, <2>1, AppliedIsNat DEF a, l, AcksOnChain
      <4>2. QED
        BY <1>3, <3>1, <4>1
    <3>3. Dropped = 0 \/ Dropped < y
      BY <2>1, <3>2
    <3>4. \A j \in 1 .. l - 1 : y <= Applied(acks[j])'
      <4> TAKE j \in 1 .. l - 1
      <4>1. 1 < j + 1 /\ j + 1 \in 1 .. l
        BY <1>3, <1>4
      <4>2. Applied(acks[1]) <= Applied(acks[j + 1])
        BY <1>4, <4>1 DEF l, AcksOnChain
      <4>3. QED
        BY <1>8, <3>1, <4>2 DEF a
    <3>5. StateAfter(y)' = StateAfter(y)
      BY <1>7
    <3>6. QED
      BY <1>4, <1>5, <2>3, <3>2, <3>3, <3>4, <3>5 DEF AckedIsStored
  <2>4. QED
    BY <1>6, <2>2, <2>3
<1>14. QED
  BY <1>5, <1>9, <1>10, <1>11, <1>12, <1>13

(* Every step over such a network.                                         *)
LEMMA InSyncNext ==
  ASSUME DataLink = "reliable", AckLink = "reliable", StrayPackets = {},
         InSyncInv, [Next]_vars
  PROVE  InSyncInv'
<1>1. SessionInv'
  BY NextPreserves DEF InSyncInv
<1>2. CASE SenderStarts
  BY <1>1, <1>2, InSyncStarts
<1>3. CASE SenderSends
  BY <1>1, <1>3, InSyncSends
<1>4. CASE \E i \in Arrivals(DataLink, data) : DeliverData(i)
  BY <1>1, <1>4, InSyncDelivers
<1>5. CASE \E i \in Arrivals(AckLink, acks) : DeliverAck(i)
  BY <1>1, <1>5, InSyncAcks
<1>6. CASE \/ SenderExpires \/ DeliverStrayPacket
           \/ \E i \in DOMAIN data : DuplicateData(i)
           \/ \E i \in DOMAIN acks : DuplicateAck(i)
  BY <1>6 DEF SenderExpires, ConservativeExpires, DeliverStrayPacket, DuplicateData,
     DuplicateAck, InSyncInv, EndsAgree
<1>7. CASE SenderSkips \/ DeliverStrayAck \/ UNCHANGED vars
  <2>1. UNCHANGED <<sent_vars, encoder_vars, receiver_vars, data, acks, acked_vars, conservative>>
    <3>1. CASE SenderSkips \/ UNCHANGED vars
      BY <3>1 DEF SenderSkips, SkipFrame, vars, sender_vars, network_vars
    <3>2. CASE DeliverStrayAck
      <4>1. PICK a \in StrayAcks : ReceiveAck(a)
        BY <3>2 DEF DeliverStrayAck
      <4>2. AckIsIgnored(a)
        BY StraysAssumption DEF AckIsIgnored
      <4>3. QED
        BY <3>2, <4>1, <4>2 DEF DeliverStrayAck, ReceiveAck, network_vars
    <3>3. QED
      BY <1>7, <3>1, <3>2
  <2>2. /\ sender' # "out_of_range"
        /\ sender' = "encode" => sender = "encode" /\ job_source' = job_source
    BY <1>7 DEF SenderSkips, SkipFrame, DeliverStrayAck, ReceiveAck, vars, sender_vars,
       InSyncInv, EndsAgree
  <2>3. QED
    BY <1>1, <2>1, <2>2, InSyncUnchanged
<1>8. QED
  BY <1>2, <1>3, <1>4, <1>5, <1>6, <1>7 DEF Next

(* Both ends start in the initial state.                                   *)
LEMMA InSyncInitially ==
  ASSUME Init
  PROVE  InSyncInv
<1>1. /\ Len(data) = 0 /\ data = << >> /\ Len(acks) = 0 /\ frame_no = 0 /\ next_frame_no = 0
      /\ Dropped = 0 /\ DOMAIN fragmented_frames = {}
      /\ receiver_last_acked_state = None /\ ~conservative
      /\ sender = "fetch" /\ receiver = "running" /\ current_state = Initial
  <2>1. DOMAIN << >> = 1 .. 0
    BY EmptyDeque, LenProperties
  <2>2. QED
    BY <2>1, EmptyDeque DEF Init, SenderInit, ReceiverInit, frame_no, Dropped
<1>2. EndsAgree
  BY <1>1 DEF EndsAgree, StateAfter
<1>3. PacketsInSequence /\ NextIsCollected /\ PacketsOnChain
  BY <1>1 DEF PacketsInSequence, NextIsCollected, PacketsOnChain
<1>4. AcksOnChain /\ AckedIsStored
  BY <1>1 DEF AcksOnChain, AckedIsStored
<1>5. QED
  BY <1>1, <1>2, <1>3, <1>4, SessionInvInitially DEF InSyncInv

(* InSyncInv is an inductive invariant of a session over a network that    *)
(* loses nothing and keeps the order of packets and of acks.               *)
THEOREM InSyncInvariant ==
  ASSUME DataLink = "reliable", AckLink = "reliable", StrayPackets = {}
  PROVE  Spec => []InSyncInv
<1>1. Init => InSyncInv
  BY InSyncInitially
<1>2. InSyncInv /\ [Next]_vars => InSyncInv'
  BY InSyncNext
<1>3. QED
  BY <1>1, <1>2, PTL DEF Spec

(* Over such a network no program throws, the receiver decodes every frame *)
(* on the state it is in, and no ack makes the sender conservative, even   *)
(* when a state comes again and although the cleanup runs at both ends.    *)
THEOREM EndsStayInSync ==
  ASSUME DataLink = "reliable", AckLink = "reliable", StrayPackets = {}
  PROVE  Spec => []InSync
<1>1. InSyncInv => InSync
  <2> SUFFICES ASSUME InSyncInv PROVE InSync
    OBVIOUS
  <2>1. PICK n \in 0 .. next_frame_no : Dropped = 0 \/ Dropped < n
    BY DEF InSyncInv, AckedIsStored
  <2>2. next_frame_no \in 0 .. frame_no /\ (Dropped = 0 \/ Dropped < next_frame_no)
    BY <2>1, InSyncTypes
  <2>3. StateAfter(next_frame_no) \in Hash
    BY <2>2, StateAfterIsStored DEF InSyncInv
  <2>4. current_state # Corrupt
    BY <2>3 DEF InSyncInv, EndsAgree, Hash, Corrupt
  <2>5. QED
    BY <2>4 DEF InSyncInv, EndsAgree, InSync
<1>2. QED
  BY <1>1, InSyncInvariant, PTL
=============================================================================
