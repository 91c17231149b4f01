------------------------ MODULE SalsifySessionProofs -----------------------
(***************************************************************************)
(* Theorems about a Salsify session, for every number of frames and        *)
(* fragments, every number of states held, and every network that loses,   *)
(* reorders and duplicates datagrams and delivers strays.                  *)
(*   - First what the callbacks of the sender and the packet handler of    *)
(*     the receiver preserve, one lemma for each callback and each path,   *)
(*     whatever the other end and the network do; before them, facts about *)
(*     the deques of hashes both keep: what popping from the front and     *)
(*     pushing at the back does to their elements and to their last one.   *)
(*   - Then the two ends and the network together.                         *)
(***************************************************************************)
EXTENDS SalsifySession, SequenceTheorems, TLAPS

-----------------------------------------------------------------------------
(***************************************************************************)
(* The sender and the receiver, each by itself.                            *)
(***************************************************************************)

(* The empty deque.                                                        *)
LEMMA EmptyDeque ==
  ASSUME NEW dflt
  PROVE  /\ \A S : << >> \in Seq(S)
         /\ Len(<< >>) = 0
         /\ Range(<< >>) = {}
         /\ Back(<< >>, dflt) = dflt
<1>1. << >> \in Seq(Nat) /\ Len(<< >>) = 0
  BY EmptySeq
<1>2. Range(<< >>) = {<< >>[i] : i \in 1 .. 0}
  BY <1>1, RangeEquality
<1>3. QED
  BY <1>1, <1>2, EmptySeq DEF Back

(* Splitting a deque after its first k elements.                           *)
LEMMA SplitSeq ==
  ASSUME NEW S, NEW s \in Seq(S), NEW k \in 0 .. Len(s)
  PROVE  /\ SubSeq(s, 1, k) \in Seq(S)
         /\ SubSeq(s, k + 1, Len(s)) \in Seq(S)
         /\ Len(SubSeq(s, k + 1, Len(s))) = Len(s) - k
         /\ \A i \in 1 .. Len(s) - k : SubSeq(s, k + 1, Len(s))[i] = s[k + i]
         /\ Range(s) = Range(SubSeq(s, 1, k)) \cup Range(SubSeq(s, k + 1, Len(s)))
<1> DEFINE front == SubSeq(s, 1, k)
           rest == SubSeq(s, k + 1, Len(s))
<1>1. /\ front \in Seq(S) /\ Len(front) = k
      /\ \A i \in 1 .. k : front[i] = s[i]
  BY SubSeqProperties
<1>2. /\ rest \in Seq(S) /\ Len(rest) = Len(s) - k
      /\ \A i \in 1 .. Len(s) - k : rest[i] = s[k + i]
  BY SubSeqProperties
<1>3. /\ Range(s) = {s[i] : i \in 1 .. Len(s)}
      /\ Range(front) = {front[i] : i \in 1 .. k}
      /\ Range(rest) = {rest[i] : i \in 1 .. Len(s) - k}
  BY <1>1, <1>2, RangeEquality
<1>4. Range(s) \subseteq Range(front) \cup Range(rest)
  <2> SUFFICES ASSUME NEW i \in 1 .. Len(s)
               PROVE  s[i] \in Range(front) \cup Range(rest)
    BY <1>3
  <2>1. CASE i <= k
    BY <2>1, <1>1, <1>3
  <2>2. CASE i > k
    <3>1. i - k \in 1 .. Len(s) - k /\ s[i] = rest[i - k]
      BY <2>2, <1>2
    <3>2. QED
      BY <3>1, <1>3
  <2>3. QED
    BY <2>1, <2>2
<1>5. Range(front) \subseteq Range(s) /\ Range(rest) \subseteq Range(s)
  BY <1>1, <1>2, <1>3
<1>6. QED
  BY <1>1, <1>2, <1>4, <1>5

(* Pushing an element at the back.                                         *)
LEMMA PushBack ==
  ASSUME NEW S, NEW s \in Seq(S), NEW e \in S, NEW dflt
  PROVE  /\ Append(s, e) \in Seq(S)
         /\ Range(Append(s, e)) = Range(s) \cup {e}
         /\ Back(Append(s, e), dflt) = e
<1>1. /\ Append(s, e) \in Seq(S) /\ Append(s, e) # << >>
      /\ Len(Append(s, e)) = Len(s) + 1
      /\ \A i \in 1 .. Len(s) : Append(s, e)[i] = s[i]
      /\ Append(s, e)[Len(s) + 1] = e
  BY AppendProperties
<1>2. /\ Range(s) = {s[i] : i \in 1 .. Len(s)}
      /\ Range(Append(s, e)) = {Append(s, e)[i] : i \in 1 .. Len(s) + 1}
  BY <1>1, RangeEquality
<1>3. QED
  BY <1>1, <1>2 DEF Back

(* The back of a deque is one of its elements, and popping a proper part   *)
(* of the front leaves it where it is.                                     *)
LEMMA BackOfRest ==
  ASSUME NEW S, NEW s \in Seq(S), NEW k \in 0 .. Len(s), NEW dflt
  PROVE  /\ s # << >> => Len(s) > 0 /\ Back(s, dflt) = s[Len(s)] /\ Back(s, dflt) \in Range(s)
         /\ s = << >> => Len(s) = 0 /\ Back(s, dflt) = dflt /\ Range(s) = {}
         /\ k < Len(s) => Back(SubSeq(s, k + 1, Len(s)), dflt) = Back(s, dflt)
         /\ k = 0 => SubSeq(s, k + 1, Len(s)) = s /\ Range(SubSeq(s, 1, k)) = {}
<1>1. Range(s) = {s[i] : i \in 1 .. Len(s)}
  BY RangeEquality
<1>2. s # << >> => Len(s) > 0 /\ Back(s, dflt) = s[Len(s)] /\ Back(s, dflt) \in Range(s)
  <2>1. Len(s) \in Nat /\ (s # << >> => Len(s) # 0)
    BY EmptySeq, LenProperties
  <2>2. s # << >> => Len(s) \in 1 .. Len(s)
    BY <2>1
  <2>3. QED
    BY <1>1, <2>1, <2>2 DEF Back
<1>3. s = << >> => Len(s) = 0 /\ Back(s, dflt) = dflt /\ Range(s) = {}
  BY <1>1, EmptySeq DEF Back
<1>4. ASSUME k < Len(s)
      PROVE  Back(SubSeq(s, k + 1, Len(s)), dflt) = Back(s, dflt)
  <2> DEFINE rest == SubSeq(s, k + 1, Len(s))
  <2>1. /\ rest \in Seq(S) /\ Len(rest) = Len(s) - k
        /\ \A i \in 1 .. Len(s) - k : rest[i] = s[k + i]
    BY SplitSeq
  <2>2. /\ Len(s) \in Nat /\ Len(s) - k # 0
        /\ Len(s) - k \in 1 .. Len(s) - k /\ k + (Len(s) - k) = Len(s)
    BY <1>4, LenProperties
  <2>3. rest[Len(rest)] = s[Len(s)]
    <3>1. rest[Len(s) - k] = s[k + (Len(s) - k)]
      BY <2>1, <2>2
    <3>2. QED
      BY <3>1, <2>1, <2>2
  <2>4. rest # << >>
    <3>1. Len(rest) # 0
      BY <2>1, <2>2
    <3> HIDE DEF rest
    <3>2. QED
      BY <3>1
  <2>5. s # << >>
    BY <1>4, EmptySeq
  <2>6. QED
    BY <2>3, <2>4, <2>5 DEF Back
<1>5. ASSUME k = 0
      PROVE  SubSeq(s, k + 1, Len(s)) = s /\ Range(SubSeq(s, 1, k)) = {}
  <2>1. SubSeq(s, k + 1, Len(s)) = s
    BY <1>5, SubSeqFull
  <2>2. SubSeq(s, 1, k) \in Seq(S) /\ Len(SubSeq(s, 1, k)) = 0
    BY <1>5, SubSeqProperties
  <2>3. SubSeq(s, 1, k) = << >>
    BY <2>2, EmptySeq
  <2>4. QED
    BY <2>1, <2>3, EmptyDeque
<1>6. QED
  BY <1>2, <1>3, <1>4, <1>5

-----------------------------------------------------------------------------
(***************************************************************************)
(* The sender.                                                             *)
(***************************************************************************)

(* What the types need: an encoding job has an encoder to start from, and  *)
(* it is started only when there is a frame left to send.                  *)
JobHasSource ==
  sender = "encode" => job_source \in Hash /\ frame_no < MaxFrames

(* No running total of fragments exceeds the last one.                     *)
TotalsGrow ==
  \A i \in 1 .. Len(cumulative_fpf) : cumulative_fpf[i] <= Back(cumulative_fpf, 0)

(* The packet last acknowledged is one that was sent.                      *)
LastAckedWasSent == last_acked # None => last_acked < Back(cumulative_fpf, 0)

(* The initial encoder is in the map but never in the deque, so the        *)
(* cleanup cannot erase it.                                                *)
InitialIsKept == Initial \notin Range(encoder_states)

(* A state that an encoder has, or had when the job was started, is the    *)
(* initial one or the target of a frame that was sent.                     *)
Reached == {Initial} \cup {step[2] : step \in encodings}
SourcesAreReached ==
  /\ encoders \subseteq Reached
  /\ sender = "encode" => job_source \in Reached
  /\ encodings \subseteq (0 .. MaxFrames) \X (0 .. MaxFrames)

SenderInv ==
  /\ SenderTypeOK
  /\ JobHasSource
  /\ TotalsGrow
  /\ LastAckedWasSent
  /\ StoredIsListed
  /\ AssumedIsNewest
  /\ InitialIsKept
  /\ SourcesAreReached

-----------------------------------------------------------------------------
(* The conjuncts of SenderInv speak of these variables only.               *)
LEMMA SenderInvUnchanged ==
  ASSUME SenderInv, UNCHANGED sender_vars
  PROVE  SenderInv'
BY DEF SenderInv, sender_vars, acked_vars, encoder_vars, sent_vars, SenderTypeOK,
       JobHasSource, frame_no, TotalsGrow, LastAckedWasSent, StoredIsListed,
       AssumedIsNewest, InitialIsKept, SourcesAreReached, Reached

LEMMA SenderInvInitially ==
  ASSUME SenderInit
  PROVE  SenderInv
<1> USE SenderAssumption DEF SenderInit, Hash, Initial, None, Corrupt
<1>1. SenderTypeOK
  <2>1. /\ cumulative_fpf \in Seq(Nat)
        /\ encoder_states \in Seq(Hash) /\ receiver_complete_states \in Seq(Hash)
    BY EmptyDeque
  <2>2. encoders \in SUBSET Hash /\ encodings \in SUBSET (Hash \X Hash)
    OBVIOUS
  <2>3. skipped_count \in 0 .. MaxSkipped
    OBVIOUS
  <2>4. QED
    BY <2>1, <2>2, <2>3 DEF SenderTypeOK
<1>2. Range(encoder_states) = {}
  BY EmptyDeque
<1>3. Len(cumulative_fpf) = 0
  BY EmptyDeque
<1>4. JobHasSource /\ TotalsGrow /\ LastAckedWasSent
  BY <1>3 DEF JobHasSource, TotalsGrow, LastAckedWasSent
<1>5. StoredIsListed /\ AssumedIsNewest /\ InitialIsKept
  BY <1>2 DEF StoredIsListed, AssumedIsNewest, InitialIsKept, Back
<1>6. SourcesAreReached
  BY DEF SourcesAreReached, Reached
<1>7. QED
  BY <1>1, <1>4, <1>5, <1>6 DEF SenderInv

(* StartEncode: the cleanup pops in step from the deque and from the map,  *)
(* and stops before the newest state.                                      *)
LEMMA StartEncodePreserves ==
  ASSUME SenderInv, StartEncode
  PROVE  SenderInv'
<1> USE DEF SenderInv
<1> PICK k \in 0 .. Len(encoder_states) :
         /\ CleanupStopsAfter(k)
         /\ encoder_states' = SubSeq(encoder_states, k + 1, Len(encoder_states))
         /\ encoders' = encoders \ ErasedEncoders(k)
  BY DEF StartEncode
<1>1. encoder_states \in Seq(Hash)
  BY DEF SenderTypeOK
<1> DEFINE popped == SubSeq(encoder_states, 1, k)
           rest == SubSeq(encoder_states, k + 1, Len(encoder_states))
<1>2. /\ rest \in Seq(Hash)
      /\ Range(encoder_states) = Range(popped) \cup Range(rest)
  BY <1>1, SplitSeq
<1>3. /\ UNCHANGED <<skipped_count, acked_vars, sent_vars>>
      /\ \/ /\ sender' = "encode" /\ frame_no < MaxFrames
            /\ job_source' \in encoders'
         \/ sender' = "out_of_range" /\ job_source' = job_source
      /\ conservative' \in BOOLEAN
  <2>1. conservative' = (conservative \/ ReceiverIsInvalid(encoders'))
    BY DEF StartEncode
  <2>2. conservative' \in BOOLEAN
    BY <2>1 DEF SenderTypeOK, ReceiverIsInvalid
  <2>3. QED
    BY <2>2 DEF StartEncode
<1>4. /\ cumulative_fpf' = cumulative_fpf /\ encodings' = encodings
      /\ receiver_assumed_state' = receiver_assumed_state
      /\ last_acked' = last_acked
      /\ receiver_last_acked_state' = receiver_last_acked_state
      /\ receiver_complete_states' = receiver_complete_states
      /\ skipped_count' = skipped_count
  BY <1>3 DEF acked_vars, sent_vars
<1>5. encoders' \subseteq encoders /\ encoders' \subseteq Hash
  BY DEF SenderTypeOK
<1>6. SenderTypeOK'
  BY <1>2, <1>3, <1>4, <1>5 DEF SenderTypeOK
<1>7. JobHasSource' /\ TotalsGrow' /\ LastAckedWasSent'
  BY <1>3, <1>4, <1>5 DEF JobHasSource, TotalsGrow, LastAckedWasSent, frame_no
<1>8. StoredIsListed' /\ InitialIsKept'
  BY <1>2 DEF StoredIsListed, InitialIsKept, ErasedEncoders
<1>9. AssumedIsNewest'
  <2>1. CASE encoder_states = << >>
    <3>1. k = 0
      BY <2>1, EmptySeq
    <3>2. QED
      BY <3>1, <1>1, <1>4, BackOfRest DEF AssumedIsNewest
  <2>2. CASE encoder_states # << >>
    <3>1. /\ Len(encoder_states) \in Nat /\ Len(encoder_states) > 0
          /\ receiver_assumed_state = encoder_states[Len(encoder_states)]
      BY <2>2, <1>1, BackOfRest, LenProperties DEF AssumedIsNewest
    <3>2. k < Len(encoder_states)
      BY <3>1 DEF CleanupStopsAfter, StopsAfter
    <3>3. QED
      BY <3>2, <1>1, <1>4, BackOfRest DEF AssumedIsNewest
  <2>3. QED
    BY <2>1, <2>2
<1>10. SourcesAreReached'
  BY <1>3, <1>4, <1>5 DEF SourcesAreReached, Reached
<1>11. QED
  BY <1>6, <1>7, <1>8, <1>9, <1>10

(* SkipFrame: a job ends without a frame, and it is counted.               *)
LEMMA SkipFramePreserves ==
  ASSUME SenderInv, SkipFrame
  PROVE  SenderInv'
<1> USE DEF SenderInv
<1>1. skipped_count' \in 0 .. MaxSkipped
  BY SenderAssumption DEF SkipFrame, MaySkip, SenderTypeOK
<1>2. SenderTypeOK'
  BY <1>1 DEF SkipFrame, SenderTypeOK, None, acked_vars, encoder_vars, sent_vars
<1>3. QED
  BY <1>2 DEF SkipFrame, acked_vars, encoder_vars, sent_vars, JobHasSource, TotalsGrow,
     LastAckedWasSent, StoredIsListed, AssumedIsNewest, InitialIsKept,
     SourcesAreReached, Reached

(* SendFrame: the target is pushed on the deque and stored in the map.     *)
LEMMA SendFramePreserves ==
  ASSUME SenderInv,
         NEW target \in Targets(job_source), NEW fragments \in 1 .. MaxFragments,
         SendFrame(target, fragments)
  PROVE  SenderInv'
<1> USE SenderAssumption DEF SenderInv
<1> DEFINE total == Back(cumulative_fpf, 0)
<1>1. /\ cumulative_fpf \in Seq(Nat) /\ encoder_states \in Seq(Hash)
      /\ Len(cumulative_fpf) \in Nat
  BY LenProperties DEF SenderTypeOK
<1>2. /\ job_source \in Hash /\ job_source \in Reached
      /\ frame_no < MaxFrames
  BY DEF SendFrame, JobHasSource, SourcesAreReached
<1>3. target \in Nat /\ target # 0 /\ target <= MaxFrames
  BY <1>1, <1>2 DEF Targets, frame_no
<1>4. total \in Nat /\ total + fragments \in Nat
  <2>1. total \in Nat
    <3>1. CASE cumulative_fpf = << >>
      BY <3>1 DEF Back
    <3>2. CASE cumulative_fpf # << >>
      <4>1. Len(cumulative_fpf) \in 1 .. Len(cumulative_fpf) /\ total = cumulative_fpf[Len(cumulative_fpf)]
        BY <3>2, <1>1, BackOfRest
      <4>2. QED
        BY <4>1, <1>1, ElementOfSeq
    <3>3. QED
      BY <3>1, <3>2
  <2>2. QED
    BY <2>1
<1>5. /\ cumulative_fpf' \in Seq(Nat)
      /\ Back(cumulative_fpf', 0) = total + fragments
      /\ Len(cumulative_fpf') = Len(cumulative_fpf) + 1
      /\ \A i \in 1 .. Len(cumulative_fpf) : cumulative_fpf'[i] = cumulative_fpf[i]
      /\ cumulative_fpf'[Len(cumulative_fpf) + 1] = total + fragments
  <2> DEFINE pushed == Append(cumulative_fpf, total + fragments)
  <2>1. cumulative_fpf' = pushed
    BY DEF SendFrame
  <2>2. pushed \in Seq(Nat) /\ Back(pushed, 0) = total + fragments
    BY <1>1, <1>4, PushBack
  <2>3. /\ Len(pushed) = Len(cumulative_fpf) + 1
        /\ \A i \in 1 .. Len(cumulative_fpf) : pushed[i] = cumulative_fpf[i]
        /\ pushed[Len(cumulative_fpf) + 1] = total + fragments
    BY <1>1, <1>4, AppendProperties
  <2>4. QED
    BY <2>1, <2>2, <2>3
<1>6. /\ encoder_states' \in Seq(Hash)
      /\ Range(encoder_states') = Range(encoder_states) \cup {target}
      /\ Back(encoder_states', None) = target
  <2>1. encoder_states' = Append(encoder_states, target)
    BY DEF SendFrame
  <2>2. target \in Hash
    BY <1>3 DEF Hash
  <2>3. /\ Append(encoder_states, target) \in Seq(Hash)
        /\ Range(Append(encoder_states, target)) = Range(encoder_states) \cup {target}
        /\ Back(Append(encoder_states, target), None) = target
    BY <1>1, <2>2, PushBack
  <2>4. QED
    BY <2>1, <2>3
<1>7. SenderTypeOK'
  <2>1. /\ receiver_last_acked_state' = receiver_last_acked_state
        /\ receiver_complete_states' = receiver_complete_states
        /\ last_acked' = last_acked /\ conservative' = conservative
    BY DEF SendFrame, acked_vars
  <2>2. /\ encodings' \in SUBSET (Hash \X Hash)
        /\ encoders' \in SUBSET Hash
        /\ receiver_assumed_state' \in Hash
    BY <1>2, <1>3 DEF SendFrame, SenderTypeOK, Hash
  <2>3. /\ sender' = "fetch" /\ job_source' = None
        /\ skipped_count' \in 0 .. MaxSkipped
    BY DEF SendFrame
  <2>4. QED
    BY <1>5, <1>6, <2>1, <2>2, <2>3 DEF SenderTypeOK
<1>8. TotalsGrow'
  <2>1. \A i \in 1 .. Len(cumulative_fpf) : cumulative_fpf'[i] <= total + fragments
    <3>1. \A i \in 1 .. Len(cumulative_fpf) :
             cumulative_fpf[i] \in Nat /\ cumulative_fpf[i] <= total
      BY <1>1, ElementOfSeq DEF TotalsGrow
    <3>2. QED
      BY <3>1, <1>4, <1>5
  <2>2. \A i \in 1 .. Len(cumulative_fpf) + 1 : cumulative_fpf'[i] <= total + fragments
    <3> TAKE i \in 1 .. Len(cumulative_fpf) + 1
    <3>1. CASE i = Len(cumulative_fpf) + 1
      BY <3>1, <1>4, <1>5
    <3>2. CASE i # Len(cumulative_fpf) + 1
      BY <3>2, <2>1, <1>1
    <3>3. QED
      BY <3>1, <3>2
  <2>3. QED
    BY <2>2, <1>5 DEF TotalsGrow
<1>9. LastAckedWasSent'
  BY <1>4, <1>5 DEF LastAckedWasSent, SendFrame, acked_vars, SenderTypeOK
<1>10. JobHasSource'
  BY DEF SendFrame, JobHasSource
<1>11. StoredIsListed' /\ AssumedIsNewest' /\ InitialIsKept'
  BY <1>3, <1>6 DEF SendFrame, StoredIsListed, AssumedIsNewest, InitialIsKept, Initial
<1>12. SourcesAreReached'
  <2>1. Reached' = Reached \cup {target}
    <3>1. encodings' = encodings \cup {<<job_source, target>>}
      BY DEF SendFrame
    <3>2. <<job_source, target>>[2] = target
      OBVIOUS
    <3>3. {step[2] : step \in encodings'} = {step[2] : step \in encodings} \cup {target}
      BY <3>1, <3>2
    <3>4. QED
      BY <3>3 DEF Reached
  <2>2. job_source \in 0 .. MaxFrames
    BY <1>2 DEF SourcesAreReached, Reached, Initial
  <2>3. QED
    BY <1>3, <2>1, <2>2 DEF SourcesAreReached, SendFrame
<1>13. QED
  BY <1>7, <1>8, <1>9, <1>10, <1>11, <1>12

(* ReceiveAck: an ack of this session acknowledges a packet that was sent. *)
LEMMA ReceiveAckPreserves ==
  ASSUME SenderInv,
         NEW ack \in AckPacket,
         ack.own => /\ ack.frame_no < frame_no
                    /\ AckSeqNo(ack) \in Nat
                    /\ AckSeqNo(ack) < cumulative_fpf[ack.frame_no + 1],
         ReceiveAck(ack)
  PROVE  SenderInv'
<1> USE DEF SenderInv
<1>1. CASE AckIsIgnored(ack)
  <2>1. UNCHANGED sender_vars
    BY <1>1 DEF ReceiveAck, sender_vars
  <2>2. QED
    BY <2>1, SenderInvUnchanged
<1>2. CASE ~AckIsIgnored(ack)
  <2>1. /\ last_acked' = AckSeqNo(ack)
        /\ receiver_last_acked_state' = ack.current_state
        /\ receiver_complete_states' = ack.complete_states
        /\ UNCHANGED <<sender, job_source, skipped_count, conservative,
                       encoder_vars, sent_vars>>
    BY <1>2 DEF ReceiveAck
  <2>2. ack.own
    BY <1>2 DEF AckIsIgnored
  <2>3. /\ ack.current_state \in Hash \cup {Corrupt}
        /\ ack.complete_states \in Seq(Hash) /\ ack.frame_no \in Nat
    BY DEF AckPacket
  <2>4. SenderTypeOK'
    BY <2>1, <2>2, <2>3 DEF SenderTypeOK, encoder_vars, sent_vars
  <2>5. LastAckedWasSent'
    <3>1. /\ cumulative_fpf \in Seq(Nat) /\ Len(cumulative_fpf) \in Nat
          /\ ack.frame_no + 1 \in 1 .. Len(cumulative_fpf)
      BY <2>2, <2>3, LenProperties DEF SenderTypeOK, frame_no
    <3>2. /\ cumulative_fpf[ack.frame_no + 1] \in Nat
          /\ cumulative_fpf[ack.frame_no + 1] <= Back(cumulative_fpf, 0)
      BY <3>1, ElementOfSeq DEF TotalsGrow
    <3>3. Back(cumulative_fpf, 0) \in Nat
      <4>1. Back(cumulative_fpf, 0) = cumulative_fpf[Len(cumulative_fpf)]
        BY <3>1, BackOfRest
      <4>2. QED
        BY <4>1, <3>1, ElementOfSeq
    <3>4. AckSeqNo(ack) < Back(cumulative_fpf, 0)
      BY <2>2, <3>2, <3>3
    <3>5. QED
      BY <2>1, <3>4 DEF LastAckedWasSent, sent_vars
  <2>6. QED
    BY <2>1, <2>4, <2>5 DEF encoder_vars, sent_vars, JobHasSource, frame_no, TotalsGrow,
       StoredIsListed, AssumedIsNewest, InitialIsKept, SourcesAreReached, Reached
<1>3. QED
  BY <1>1, <1>2

(* ConservativeExpires only resets a flag.                                 *)
LEMMA ConservativeExpiresPreserves ==
  ASSUME SenderInv, ConservativeExpires
  PROVE  SenderInv'
BY DEF SenderInv, ConservativeExpires, acked_vars, encoder_vars, sent_vars, SenderTypeOK,
       JobHasSource, frame_no, TotalsGrow, LastAckedWasSent, StoredIsListed,
       AssumedIsNewest, InitialIsKept, SourcesAreReached, Reached

-----------------------------------------------------------------------------
(***************************************************************************)
(* The receiver.                                                           *)
(***************************************************************************)

(* The player shows a state it can go back to, or none an encoder was in.  *)
CurrentIsSaved == current_state \in decoders \cup {Corrupt}

ReceiverInv ==
  /\ ReceiverTypeOK
  /\ CollectsOneFrame
  /\ SavedIsListed
  /\ CurrentIsNewest
  /\ CurrentIsSaved

-----------------------------------------------------------------------------
(* The conjuncts of ReceiverInv speak of these variables only.             *)
LEMMA ReceiverInvUnchanged ==
  ASSUME ReceiverInv, UNCHANGED receiver_vars
  PROVE  ReceiverInv'
BY DEF ReceiverInv, receiver_vars, ReceiverTypeOK, CollectsOneFrame, SavedIsListed,
       CurrentIsNewest, CurrentIsSaved

LEMMA ReceiverInvInitially ==
  ASSUME ReceiverInit
  PROVE  ReceiverInv
<1> USE DEF ReceiverInit, Hash, Initial
<1>1. complete_states \in Seq(Hash) /\ Back(complete_states, Initial) = Initial
  BY EmptyDeque
<1>2. DOMAIN fragmented_frames = {}
  <2>1. DOMAIN << >> = 1 .. 0
    BY EmptyDeque, LenProperties
  <2>2. QED
    BY <2>1
<1>3. ReceiverTypeOK
  BY <1>1, <1>2 DEF ReceiverTypeOK
<1>4. QED
  BY <1>1, <1>2, <1>3 DEF ReceiverInv, CollectsOneFrame, SavedIsListed, CurrentIsNewest,
     CurrentIsSaved

(* A callback that throws, or returns at once.                             *)
LEMMA FailPreserves ==
  ASSUME ReceiverInv, NEW exception \in {"out_of_range", "invalid_packet"}, Fail(exception)
  PROVE  ReceiverInv'
BY DEF ReceiverInv, Fail, ReceiverTypeOK, CollectsOneFrame, SavedIsListed,
       CurrentIsNewest, CurrentIsSaved

(* An accepted packet belongs to the frame being collected or to a later   *)
(* one, and it gives up every frame that is held but its own.              *)
LEMMA AcceptedPacket ==
  ASSUME ReceiverInv, NEW p \in DataPacket, IsAccepted(p)
  PROVE  /\ p.own
         /\ p.frame_no >= next_frame_no
         /\ DOMAIN fragmented_frames \ GivenUp(p) \subseteq {p.frame_no}
         /\ Collected(p) \in FragmentedFrame
         /\ Collected(p).fragments = p.fragments
         /\ Collected(p).valid \subseteq 0 .. p.fragments - 1
         /\ StateAfterGivingUp(p) \in {current_state, Corrupt}
<1> USE DEF ReceiverInv
<1>1. /\ p.frame_no \in Nat /\ p.fragment_no \in Nat /\ p.fragments \in Nat
      /\ p.source_state \in Hash /\ p.target_state \in Hash /\ p.own \in BOOLEAN
      /\ next_frame_no \in Nat
  BY DEF DataPacket, ReceiverTypeOK
<1>2. p.own
  BY DEF IsAccepted, IsMismatched
<1>3. p.frame_no >= next_frame_no
  BY <1>1 DEF IsAccepted, IsLate
<1>4. DOMAIN fragmented_frames \ GivenUp(p) \subseteq {p.frame_no}
  BY <1>1, <1>3 DEF CollectsOneFrame, GivenUp
<1>5. p.fragment_no \in 0 .. p.fragments - 1
  BY <1>1 DEF IsAccepted, IsMalformed
<1>6. p.frame_no \in DOMAIN fragmented_frames =>
        fragmented_frames[p.frame_no].valid \subseteq 0 .. p.fragments - 1
  <2> SUFFICES ASSUME p.frame_no \in DOMAIN fragmented_frames
               PROVE  fragmented_frames[p.frame_no].valid \subseteq 0 .. p.fragments - 1
    OBVIOUS
  <2>1. fragmented_frames[p.frame_no].fragments = p.fragments
    BY DEF IsAccepted, IsMismatched
  <2>2. QED
    BY <2>1 DEF ReceiverTypeOK
<1>7. /\ Collected(p).fragments = p.fragments
      /\ Collected(p).valid \subseteq 0 .. p.fragments - 1
  BY <1>5, <1>6 DEF Collected
<1>8. Collected(p) \in FragmentedFrame
  <2>1. Collected(p).valid \subseteq Nat
    BY <1>1, <1>7
  <2>2. QED
    BY <1>1, <2>1 DEF Collected, FragmentedFrame
<1>9. StateAfterGivingUp(p) \in {current_state, Corrupt}
  BY DEF StateAfterGivingUp
<1>10. QED
  BY <1>2, <1>3, <1>4, <1>7, <1>8, <1>9

(* StoreFragment: the frames before p's are given up.                      *)
LEMMA StoreFragmentPreserves ==
  ASSUME ReceiverInv, NEW p \in DataPacket, StoreFragment(p)
  PROVE  ReceiverInv'
<1> USE DEF ReceiverInv
<1>1. /\ p.own
      /\ p.frame_no >= next_frame_no
      /\ DOMAIN fragmented_frames \ GivenUp(p) \subseteq {p.frame_no}
      /\ Collected(p) \in FragmentedFrame
      /\ Collected(p).fragments = p.fragments
      /\ Collected(p).valid \subseteq 0 .. p.fragments - 1
      /\ StateAfterGivingUp(p) \in {current_state, Corrupt}
  BY AcceptedPacket DEF StoreFragment
<1>2. p.frame_no \in Nat
  BY DEF DataPacket
<1>3. /\ DOMAIN fragmented_frames' = {p.frame_no}
      /\ fragmented_frames'[p.frame_no] = Collected(p)
      /\ next_frame_no' = p.frame_no
      /\ current_state' = StateAfterGivingUp(p)
      /\ receiver' = receiver /\ complete_states' = complete_states /\ decoders' = decoders
  BY <1>1 DEF StoreFragment
<1>4. ReceiverTypeOK'
  BY <1>1, <1>2, <1>3 DEF ReceiverTypeOK
<1>5. QED
  BY <1>1, <1>3, <1>4 DEF CollectsOneFrame, SavedIsListed, CurrentIsNewest, CurrentIsSaved

(* Decoding ends in the target, or in no state an encoder was in.          *)
LEMMA DecodedStateIs ==
  ASSUME NEW p \in DataPacket
  PROVE  /\ DecodedState(p) \in {p.target_state, Corrupt}
         /\ DecodedState(p) = p.target_state <=> LoadedState(p) = p.source_state
BY DEF DecodedState, DataPacket, Hash, Corrupt

(* ApplyFrame: the deque and the map are pruned and extended together.     *)
LEMMA ApplyFramePreserves ==
  ASSUME ReceiverInv, NEW p \in DataPacket, p.target_state # Initial, ApplyFrame(p)
  PROVE  ReceiverInv'
<1> USE DEF ReceiverInv
<1>1. /\ p.frame_no >= next_frame_no
      /\ DOMAIN fragmented_frames \ GivenUp(p) \subseteq {p.frame_no}
  BY AcceptedPacket DEF ApplyFrame
<1>2. /\ p.frame_no \in Nat /\ p.target_state \in Hash
      /\ complete_states \in Seq(Hash)
  BY DEF DataPacket, ReceiverTypeOK
<1> PICK k \in 0 .. Len(complete_states) :
      LET kept == SubSeq(complete_states, k + 1, Len(complete_states))
      IN /\ PruneStopsAfter(p, k)
         /\ complete_states' = IF IsSaved(p) THEN Append(kept, p.target_state) ELSE kept
         /\ decoders' = (decoders \ ErasedDecoders(k)) \cup
                        (IF IsSaved(p) THEN {p.target_state} ELSE {})
  BY DEF ApplyFrame
<1> DEFINE popped == SubSeq(complete_states, 1, k)
           kept == SubSeq(complete_states, k + 1, Len(complete_states))
<1>3. /\ kept \in Seq(Hash)
      /\ Range(complete_states) = Range(popped) \cup Range(kept)
  BY <1>2, SplitSeq
<1>4. /\ DOMAIN fragmented_frames' = {}
      /\ next_frame_no' = p.frame_no + 1
      /\ current_state' = DecodedState(p)
      /\ receiver' = receiver
  BY <1>1 DEF ApplyFrame
<1>5. CASE IsSaved(p)
  <2>1. /\ complete_states' = Append(kept, p.target_state)
        /\ decoders' = (decoders \ Range(popped)) \cup {p.target_state}
        /\ current_state' = p.target_state
    BY <1>4, <1>5 DEF ErasedDecoders, IsSaved
  <2>2. /\ complete_states' \in Seq(Hash)
        /\ Range(complete_states') = Range(kept) \cup {p.target_state}
        /\ Back(complete_states', Initial) = p.target_state
    <3>1. /\ Append(kept, p.target_state) \in Seq(Hash)
          /\ Range(Append(kept, p.target_state)) = Range(kept) \cup {p.target_state}
          /\ Back(Append(kept, p.target_state), Initial) = p.target_state
      <4> HIDE DEF kept
      <4>1. QED
        BY <1>2, <1>3, PushBack
    <3>2. QED
      BY <2>1, <3>1
  <2>3. ReceiverTypeOK'
    BY <1>2, <1>4, <2>1, <2>2 DEF ReceiverTypeOK
  <2>4. QED
    BY <1>3, <1>4, <2>1, <2>2, <2>3
       DEF CollectsOneFrame, SavedIsListed, CurrentIsNewest, CurrentIsSaved
<1>6. CASE ~IsSaved(p)
  <2>1. /\ complete_states' = kept
        /\ decoders' = decoders \ Range(popped)
        /\ current_state' = Corrupt
    <3>1. DecodedState(p) = Corrupt
      BY <1>6, DecodedStateIs DEF IsSaved
    <3>2. QED
      BY <1>4, <1>6, <3>1 DEF ErasedDecoders
  <2>2. ReceiverTypeOK'
    BY <1>2, <1>3, <1>4, <2>1 DEF ReceiverTypeOK
  <2>3. QED
    BY <1>3, <1>4, <2>1, <2>2
       DEF CollectsOneFrame, SavedIsListed, CurrentIsNewest, CurrentIsSaved
<1>7. QED
  BY <1>5, <1>6

(* The whole handler.                                                      *)
LEMMA HandlePacketPreserves ==
  ASSUME ReceiverInv, NEW p \in DataPacket, IsAccepted(p) => p.target_state # Initial,
         HandlePacket(p)
  PROVE  ReceiverInv'
<1>1. CASE RejectMalformed(p)
  BY <1>1, FailPreserves DEF RejectMalformed
<1>2. CASE IgnoreLate(p)
  BY <1>2, ReceiverInvUnchanged DEF IgnoreLate
<1>3. CASE MissWholeFrame(p)
  BY <1>3, FailPreserves DEF MissWholeFrame
<1>4. CASE RejectMismatched(p)
  BY <1>4, FailPreserves DEF RejectMismatched
<1>5. CASE StoreFragment(p)
  BY <1>5, StoreFragmentPreserves
<1>6. CASE ApplyFrame(p)
  BY <1>6, ApplyFramePreserves DEF ApplyFrame
<1>7. QED
  BY <1>1, <1>2, <1>3, <1>4, <1>5, <1>6 DEF HandlePacket

-----------------------------------------------------------------------------
(***************************************************************************)
(* The session.                                                            *)
(***************************************************************************)

(* The fragments sent before frame n.                                      *)
Before(n) == IF n > 0 THEN cumulative_fpf[n] ELSE 0

(* A packet in the network is a fragment of a frame that was sent.         *)
SentPackets ==
  {p \in DataPacket :
     /\ p.own
     /\ p.frame_no < frame_no
     /\ p.fragment_no < p.fragments
     /\ Before(p.frame_no) + p.fragments = cumulative_fpf[p.frame_no + 1]
     /\ <<p.source_state, p.target_state>> \in encodings
     /\ p.target_state # Initial}

(* An ack in the network acknowledges such a packet.                       *)
SentAcks ==
  {a \in AckPacket :
     /\ a.own
     /\ a.frame_no < frame_no
     /\ AckSeqNo(a) \in Nat
     /\ AckSeqNo(a) < cumulative_fpf[a.frame_no + 1]}

NetworkInv ==
  /\ data \in Seq(SentPackets)
  /\ acks \in Seq(SentAcks)
  /\ duplicates \in 0 .. MaxDuplicates
  /\ expirations \in 0 .. MaxExpirations

SessionInv == SenderInv /\ ReceiverInv /\ NetworkInv

-----------------------------------------------------------------------------
(* A channel holds what it held before, or less, after a delivery.         *)
LEMMA RemainingIsSent ==
  ASSUME NEW S, NEW link \in Links, NEW channel \in Seq(S),
         NEW i \in Arrivals(link, channel)
  PROVE  /\ i \in 1 .. Len(channel)
         /\ channel[i] \in S
         /\ Remaining(link, channel, i) \in Seq(S)
<1>1. i \in 1 .. Len(channel) /\ Len(channel) \in Nat
  <2>1. Len(channel) \in Nat /\ (channel # << >> => Len(channel) > 0)
    BY EmptySeq, LenProperties
  <2>2. QED
    BY <2>1 DEF Arrivals
<1>2. channel[i] \in S
  BY <1>1, ElementOfSeq
<1>3. SubSeq(channel, i + 1, Len(channel)) \in Seq(S)
  BY <1>1, SubSeqProperties
<1>4. SubSeq(channel, 1, i - 1) \in Seq(S)
  BY <1>1, SubSeqProperties
<1>5. SubSeq(channel, 1, i - 1) \o SubSeq(channel, i + 1, Len(channel)) \in Seq(S)
  BY <1>3, <1>4, ConcatProperties
<1>6. QED
  BY <1>1, <1>2, <1>3, <1>5 DEF Remaining

(* A sequence of elements of a set is one of elements of a larger set.     *)
LEMMA SeqMonotone ==
  ASSUME NEW S, NEW T, S \subseteq T
  PROVE  Seq(S) \subseteq Seq(T)
<1> SUFFICES ASSUME NEW s \in Seq(S)
             PROVE  s \in Seq(T)
  OBVIOUS
<1>1. /\ Len(s) \in Nat /\ s \in [1 .. Len(s) -> S]
  BY LenProperties
<1>2. s \in [1 .. Len(s) -> T]
  BY <1>1
<1>3. QED
  BY <1>1, <1>2, SeqDef

(* While the record of sent frames stays, sent datagrams stay so.          *)
LEMMA SentUnchanged ==
  ASSUME UNCHANGED sent_vars
  PROVE  SentPackets' = SentPackets /\ SentAcks' = SentAcks
BY DEF sent_vars, SentPackets, SentAcks, Before, AckSeqNo, frame_no

(* A frame that is sent adds to that record.                               *)
LEMMA SentGrows ==
  ASSUME SenderInv,
         NEW target \in Targets(job_source), NEW fragments \in 1 .. MaxFragments,
         SendFrame(target, fragments)
  PROVE  SentPackets \subseteq SentPackets' /\ SentAcks \subseteq SentAcks'
<1>1. cumulative_fpf \in Seq(Nat) /\ Len(cumulative_fpf) \in Nat
  BY LenProperties DEF SenderInv, SenderTypeOK
<1>2. /\ Len(cumulative_fpf') = Len(cumulative_fpf) + 1
      /\ \A i \in 1 .. Len(cumulative_fpf) : cumulative_fpf'[i] = cumulative_fpf[i]
      /\ encodings \subseteq encodings'
  BY <1>1, AppendProperties DEF SendFrame
<1>3. ASSUME NEW p \in SentPackets
      PROVE  p \in SentPackets'
  <2>1. /\ p.frame_no \in Nat /\ p.frame_no < Len(cumulative_fpf)
        /\ p.frame_no + 1 \in 1 .. Len(cumulative_fpf)
    BY <1>1 DEF SentPackets, frame_no, DataPacket
  <2>2. /\ cumulative_fpf'[p.frame_no + 1] = cumulative_fpf[p.frame_no + 1]
        /\ Before(p.frame_no)' = Before(p.frame_no)
    BY <1>2, <2>1 DEF Before
  <2>3. QED
    BY <1>1, <1>2, <2>1, <2>2 DEF SentPackets, frame_no
<1>4. ASSUME NEW a \in SentAcks
      PROVE  a \in SentAcks'
  <2>1. /\ a.frame_no \in Nat /\ a.frame_no < Len(cumulative_fpf)
        /\ a.frame_no + 1 \in 1 .. Len(cumulative_fpf)
    BY <1>1 DEF SentAcks, frame_no, AckPacket
  <2>2. /\ cumulative_fpf'[a.frame_no + 1] = cumulative_fpf[a.frame_no + 1]
        /\ AckSeqNo(a)' = AckSeqNo(a)
    BY <1>2, <2>1 DEF AckSeqNo
  <2>3. QED
    BY <1>1, <1>2, <2>1, <2>2 DEF SentAcks, frame_no
<1>5. QED
  BY <1>3, <1>4

(* The packets of a new frame are fragments of a frame that was sent.      *)
LEMMA FramePacketsAreSent ==
  ASSUME SenderInv,
         NEW target \in Targets(job_source), NEW fragments \in 1 .. MaxFragments,
         SendFrame(target, fragments)
  PROVE  FramePackets(target, fragments) \in Seq(SentPackets')
<1> USE SenderAssumption
<1>1. /\ cumulative_fpf \in Seq(Nat) /\ Len(cumulative_fpf) \in Nat
      /\ frame_no = Len(cumulative_fpf) /\ frame_no' = Len(cumulative_fpf')
  BY LenProperties DEF SenderInv, SenderTypeOK, frame_no
<1>2. job_source \in Nat /\ target \in Nat /\ target # 0 /\ fragments \in Nat
  BY <1>1 DEF SenderInv, JobHasSource, SendFrame, Targets, Hash
<1>3. /\ Back(cumulative_fpf, 0) \in Nat
      /\ Back(cumulative_fpf, 0) = Before(frame_no)
  <2>1. CASE cumulative_fpf = << >>
    BY <2>1, <1>1, EmptyDeque DEF Back, Before
  <2>2. CASE cumulative_fpf # << >>
    <3>1. /\ Len(cumulative_fpf) \in 1 .. Len(cumulative_fpf) /\ Len(cumulative_fpf) > 0
          /\ Back(cumulative_fpf, 0) = cumulative_fpf[Len(cumulative_fpf)]
      BY <2>2, <1>1, BackOfRest
    <3>2. cumulative_fpf[Len(cumulative_fpf)] \in Nat
      BY <3>1, <1>1, ElementOfSeq
    <3>3. QED
      BY <3>1, <3>2, <1>1 DEF Before
  <2>3. QED
    BY <2>1, <2>2
<1>4. /\ Len(cumulative_fpf') = frame_no + 1
      /\ \A i \in 1 .. frame_no : cumulative_fpf'[i] = cumulative_fpf[i]
      /\ cumulative_fpf'[frame_no + 1] = Before(frame_no) + fragments
      /\ <<job_source, target>> \in encodings'
  <2>1. Back(cumulative_fpf, 0) + fragments \in Nat
    BY <1>2, <1>3
  <2>2. QED
    BY <1>1, <1>3, <2>1, AppendProperties DEF SendFrame
<1>5. frame_no \in Nat
  BY <1>1
<1> DEFINE n == frame_no
           packet(i) == [own |-> TRUE, frame_no |-> n, fragment_no |-> i - 1,
                         fragments |-> fragments, source_state |-> job_source,
                         target_state |-> target]
<1>6. ASSUME NEW i \in 1 .. fragments
      PROVE  packet(i) \in SentPackets'
  <2>1. packet(i) \in DataPacket
    BY <1>2, <1>5 DEF DataPacket, Hash
  <2>2. Before(n) = IF n > 0 THEN cumulative_fpf'[n] ELSE 0
    BY <1>4, <1>5 DEF Before
  <2>3. QED
    BY <1>1, <1>2, <1>4, <1>5, <2>1, <2>2 DEF SentPackets, Before, Initial
<1>7. FramePackets(target, fragments) = [i \in 1 .. fragments |-> packet(i)]
  BY DEF FramePackets
<1>8. [i \in 1 .. fragments |-> packet(i)] \in [1 .. fragments -> SentPackets']
  <2> HIDE DEF packet
  <2>1. QED
    BY <1>6
<1>9. QED
  BY <1>2, <1>7, <1>8, SeqDef

(* An ack is sent for a packet that was sent.                              *)
LEMMA AckIsSent ==
  ASSUME SenderInv, ReceiverInv', NEW p \in SentPackets
  PROVE  AckFor(p) \in SentAcks
<1>1. /\ p.frame_no \in Nat /\ p.fragment_no \in Nat /\ p.fragments \in Nat
      /\ p.frame_no < frame_no /\ p.fragment_no < p.fragments
      /\ Before(p.frame_no) + p.fragments = cumulative_fpf[p.frame_no + 1]
  BY DEF SentPackets, DataPacket
<1>2. AckFor(p) \in AckPacket
  BY <1>1 DEF AckFor, AckPacket, ReceiverInv, ReceiverTypeOK
<1>3. /\ AckFor(p).own /\ AckFor(p).frame_no = p.frame_no
      /\ AckSeqNo(AckFor(p)) = Before(p.frame_no) + p.fragment_no
  BY DEF AckFor, AckSeqNo, Before
<1>4. Before(p.frame_no) \in Nat
  <2>1. cumulative_fpf \in Seq(Nat) /\ Len(cumulative_fpf) \in Nat
    BY LenProperties DEF SenderInv, SenderTypeOK
  <2>2. p.frame_no > 0 => p.frame_no \in 1 .. Len(cumulative_fpf)
    BY <1>1, <2>1 DEF frame_no
  <2>3. QED
    BY <2>1, <2>2, ElementOfSeq DEF Before
<1>5. QED
  BY <1>1, <1>2, <1>3, <1>4 DEF SentAcks

-----------------------------------------------------------------------------
(***************************************************************************)
(* The invariant, action by action.                                        *)
(***************************************************************************)

LEMMA SessionInvInitially ==
  ASSUME Init
  PROVE  SessionInv
<1>1. data \in Seq(SentPackets) /\ acks \in Seq(SentAcks)
  BY EmptyDeque DEF Init
<1>2. NetworkInv
  BY <1>1, SessionAssumption DEF NetworkInv, Init
<1>3. QED
  BY <1>2, SenderInvInitially, ReceiverInvInitially DEF Init, SessionInv

(* A callback of the sender that sends no frame.                           *)
LEMMA NetworkUnchanged ==
  ASSUME NetworkInv, UNCHANGED <<network_vars, sent_vars>>,
         expirations' \in 0 .. MaxExpirations
  PROVE  NetworkInv'
BY SentUnchanged DEF NetworkInv, network_vars

LEMMA SenderStepPreserves ==
  ASSUME SessionInv, SenderStarts \/ SenderSkips \/ SenderExpires
  PROVE  SessionInv'
<1> USE DEF SessionInv
<1>1. UNCHANGED <<receiver_vars, network_vars>>
  BY DEF SenderStarts, SenderSkips, SenderExpires
<1>2. SenderInv'
  BY StartEncodePreserves, SkipFramePreserves, ConservativeExpiresPreserves
     DEF SenderStarts, SenderSkips, SenderExpires
<1>3. ReceiverInv'
  BY <1>1, ReceiverInvUnchanged
<1>4. UNCHANGED sent_vars
  BY DEF SenderStarts, SenderSkips, SenderExpires, StartEncode, SkipFrame,
         ConservativeExpires
<1>5. expirations' \in 0 .. MaxExpirations
  BY SessionAssumption DEF SenderStarts, SenderSkips, SenderExpires, NetworkInv
<1>6. QED
  BY <1>1, <1>2, <1>3, <1>4, <1>5, NetworkUnchanged

LEMMA SenderSendsPreserves ==
  ASSUME SessionInv, SenderSends
  PROVE  SessionInv'
<1> USE DEF SessionInv
<1> PICK target \in Targets(job_source), fragments \in 1 .. MaxFragments :
         /\ SendFrame(target, fragments)
         /\ data' = data \o FramePackets(target, fragments)
  BY DEF SenderSends
<1>1. UNCHANGED <<receiver_vars, acks, duplicates, expirations>>
  BY DEF SenderSends
<1>2. SenderInv'
  BY SendFramePreserves
<1>3. ReceiverInv'
  BY <1>1, ReceiverInvUnchanged
<1>4. Seq(SentPackets) \subseteq Seq(SentPackets') /\ Seq(SentAcks) \subseteq Seq(SentAcks')
  BY SentGrows, SeqMonotone
<1>5. data \in Seq(SentPackets') /\ acks \in Seq(SentAcks')
  BY <1>4 DEF NetworkInv
<1>6. data' \in Seq(SentPackets')
  BY <1>5, FramePacketsAreSent, ConcatProperties
<1>7. NetworkInv'
  BY <1>1, <1>5, <1>6 DEF NetworkInv
<1>8. QED
  BY <1>2, <1>3, <1>7

(* The sender does nothing while the network delivers a packet.            *)
LEMMA DeliverDataPreserves ==
  ASSUME SessionInv, NEW i \in Arrivals(DataLink, data), DeliverData(i)
  PROVE  SessionInv'
<1> USE DEF SessionInv
<1>1. data \in Seq(SentPackets) /\ DataLink \in Links
  BY SessionAssumption DEF NetworkInv
<1>2. data[i] \in SentPackets /\ Remaining(DataLink, data, i) \in Seq(SentPackets)
  BY <1>1, RemainingIsSent
<1>3. /\ HandlePacket(data[i])
      /\ data' = Remaining(DataLink, data, i)
      /\ acks' = IF IsAccepted(data[i]) THEN Append(acks, AckFor(data[i])) ELSE acks
      /\ UNCHANGED <<sender_vars, duplicates, expirations>>
  BY DEF DeliverData
<1>4. SenderInv'
  BY <1>3, SenderInvUnchanged
<1>5. ReceiverInv'
  BY <1>2, <1>3, HandlePacketPreserves DEF SentPackets
<1>6. UNCHANGED sent_vars
  BY <1>3 DEF sender_vars
<1>7. SentPackets' = SentPackets /\ SentAcks' = SentAcks
  BY <1>6, SentUnchanged
<1>8. acks' \in Seq(SentAcks)
  <2>1. AckFor(data[i]) \in SentAcks
    BY <1>2, <1>5, AckIsSent
  <2>2. Append(acks, AckFor(data[i])) \in Seq(SentAcks)
    <3> HIDE DEF SessionInv
    <3>1. acks \in Seq(SentAcks)
      BY DEF SessionInv, NetworkInv
    <3>2. QED
      BY <2>1, <3>1, AppendProperties
  <2>3. QED
    BY <1>3, <2>2 DEF NetworkInv
<1>9. NetworkInv'
  BY <1>2, <1>3, <1>7, <1>8 DEF NetworkInv
<1>10. QED
  BY <1>4, <1>5, <1>9

LEMMA DeliverAckPreserves ==
  ASSUME SessionInv, NEW i \in Arrivals(AckLink, acks), DeliverAck(i)
  PROVE  SessionInv'
<1> USE DEF SessionInv
<1>1. acks \in Seq(SentAcks) /\ AckLink \in Links
  BY SessionAssumption DEF NetworkInv
<1>2. acks[i] \in SentAcks /\ Remaining(AckLink, acks, i) \in Seq(SentAcks)
  BY <1>1, RemainingIsSent
<1>3. /\ ReceiveAck(acks[i])
      /\ acks' = Remaining(AckLink, acks, i)
      /\ UNCHANGED <<receiver_vars, data, duplicates, expirations>>
  BY DEF DeliverAck
<1>4. SenderInv'
  BY <1>2, <1>3, ReceiveAckPreserves DEF SentAcks
<1>5. ReceiverInv'
  BY <1>3, ReceiverInvUnchanged
<1>6. UNCHANGED sent_vars
  BY <1>3 DEF ReceiveAck
<1>7. SentPackets' = SentPackets /\ SentAcks' = SentAcks
  BY <1>6, SentUnchanged
<1>8. NetworkInv'
  BY <1>2, <1>3, <1>7 DEF NetworkInv
<1>9. QED
  BY <1>4, <1>5, <1>8

(* Strays are never accepted.                                              *)
LEMMA DeliverStrayPreserves ==
  ASSUME SessionInv, DeliverStrayPacket \/ DeliverStrayAck
  PROVE  SessionInv'
<1> USE DEF SessionInv
<1>1. CASE DeliverStrayPacket
  <2> PICK p \in StrayPackets : HandlePacket(p)
    BY <1>1 DEF DeliverStrayPacket
  <2>1. p \in DataPacket /\ ~IsAccepted(p)
    BY StraysAssumption DEF IsAccepted, IsMismatched
  <2>2. UNCHANGED <<sender_vars, network_vars, expirations>>
    BY <1>1 DEF DeliverStrayPacket
  <2>3. SenderInv' /\ ReceiverInv'
    BY <2>1, <2>2, SenderInvUnchanged, HandlePacketPreserves
  <2>4. UNCHANGED sent_vars
    BY <2>2 DEF sender_vars
  <2>5. QED
    BY <2>2, <2>3, <2>4, NetworkUnchanged DEF NetworkInv
<1>2. CASE DeliverStrayAck
  <2> PICK a \in StrayAcks : ReceiveAck(a)
    BY <1>2 DEF DeliverStrayAck
  <2>1. a \in AckPacket /\ ~a.own
    BY StraysAssumption
  <2>2. UNCHANGED <<receiver_vars, network_vars, expirations>>
    BY <1>2 DEF DeliverStrayAck
  <2>3. SenderInv' /\ ReceiverInv'
    BY <2>1, <2>2, ReceiveAckPreserves, ReceiverInvUnchanged
  <2>4. UNCHANGED sent_vars
    BY DEF ReceiveAck
  <2>5. QED
    BY <2>2, <2>3, <2>4, NetworkUnchanged DEF NetworkInv
<1>3. QED
  BY <1>1, <1>2

LEMMA DuplicatePreserves ==
  ASSUME SessionInv,
         \/ \E i \in DOMAIN data : DuplicateData(i)
         \/ \E i \in DOMAIN acks : DuplicateAck(i)
  PROVE  SessionInv'
<1> USE DEF SessionInv
<1>1. UNCHANGED <<sender_vars, receiver_vars, expirations>>
  BY DEF DuplicateData, DuplicateAck
<1>2. SenderInv' /\ ReceiverInv' /\ UNCHANGED sent_vars
  BY <1>1, SenderInvUnchanged, ReceiverInvUnchanged DEF sender_vars
<1>3. SentPackets' = SentPackets /\ SentAcks' = SentAcks
  BY <1>2, SentUnchanged
<1>4. duplicates' \in 0 .. MaxDuplicates
  BY SessionAssumption DEF DuplicateData, DuplicateAck, NetworkInv
<1>5. data' \in Seq(SentPackets) /\ acks' \in Seq(SentAcks)
  <2>1. /\ data \in Seq(SentPackets) /\ DOMAIN data = 1 .. Len(data)
        /\ acks \in Seq(SentAcks) /\ DOMAIN acks = 1 .. Len(acks)
    BY LenProperties DEF NetworkInv
  <2>2. ASSUME NEW i \in DOMAIN data
        PROVE  Append(data, data[i]) \in Seq(SentPackets)
    BY <2>1, ElementOfSeq, AppendProperties
  <2>3. ASSUME NEW i \in DOMAIN acks
        PROVE  Append(acks, acks[i]) \in Seq(SentAcks)
    BY <2>1, ElementOfSeq, AppendProperties
  <2>4. QED
    BY <2>1, <2>2, <2>3 DEF DuplicateData, DuplicateAck
<1>6. NetworkInv'
  BY <1>1, <1>3, <1>4, <1>5 DEF NetworkInv
<1>7. QED
  BY <1>2, <1>6

LEMMA StutterPreserves ==
  ASSUME SessionInv, UNCHANGED vars
  PROVE  SessionInv'
<1>1. UNCHANGED <<sender_vars, receiver_vars, network_vars, expirations>>
  BY DEF vars
<1>2. SenderInv' /\ ReceiverInv' /\ UNCHANGED sent_vars
  BY <1>1, SenderInvUnchanged, ReceiverInvUnchanged DEF sender_vars, SessionInv
<1>3. QED
  BY <1>1, <1>2, NetworkUnchanged DEF SessionInv, NetworkInv

LEMMA NextPreserves ==
  ASSUME SessionInv, [Next]_vars
  PROVE  SessionInv'
<1>1. CASE SenderStarts \/ SenderSkips \/ SenderExpires
  BY <1>1, SenderStepPreserves
<1>2. CASE SenderSends
  BY <1>2, SenderSendsPreserves
<1>3. CASE \E i \in Arrivals(DataLink, data) : DeliverData(i)
  BY <1>3, DeliverDataPreserves
<1>4. CASE \E i \in Arrivals(AckLink, acks) : DeliverAck(i)
  BY <1>4, DeliverAckPreserves
<1>5. CASE DeliverStrayPacket \/ DeliverStrayAck
  BY <1>5, DeliverStrayPreserves
<1>6. CASE \/ \E i \in DOMAIN data : DuplicateData(i)
           \/ \E i \in DOMAIN acks : DuplicateAck(i)
  BY <1>6, DuplicatePreserves
<1>7. CASE UNCHANGED vars
  BY <1>7, StutterPreserves
<1>8. QED
  BY <1>1, <1>2, <1>3, <1>4, <1>5, <1>6, <1>7 DEF Next

-----------------------------------------------------------------------------
(***************************************************************************)
(* What holds in every session.                                            *)
(***************************************************************************)

(* SessionInv is an inductive invariant of a session.                      *)
THEOREM SessionInvariant == Spec => []SessionInv
<1>1. Init => SessionInv
  BY SessionInvInitially
<1>2. SessionInv /\ [Next]_vars => SessionInv'
  BY NextPreserves
<1>3. QED
  BY <1>1, <1>2, PTL DEF Spec

(* Every variable of the two programs and of the network keeps its type.   *)
THEOREM TypesAreKept == Spec => []SessionTypeOK
<1>1. SessionInv => SessionTypeOK
  <2> SUFFICES ASSUME SessionInv PROVE SessionTypeOK
    OBVIOUS
  <2>1. SentPackets \subseteq DataPacket /\ SentAcks \subseteq AckPacket
    BY DEF SentPackets, SentAcks
  <2>2. Seq(SentPackets) \subseteq Seq(DataPacket) /\ Seq(SentAcks) \subseteq Seq(AckPacket)
    BY <2>1, SeqMonotone
  <2>3. QED
    BY <2>2 DEF SessionInv, SenderInv, ReceiverInv, NetworkInv, SessionTypeOK
<1>2. QED
  BY <1>1, SessionInvariant, PTL

(* The ack the sender goes by is of a packet it sent: the difference       *)
(* target_size takes for the packets in flight cannot wrap around.         *)
THEOREM InFlightIsPositive == Spec => []AckedWasSent
<1>1. SessionInv => AckedWasSent
  BY DEF SessionInv, SenderInv, LastAckedWasSent, AckedWasSent
<1>2. QED
  BY <1>1, SessionInvariant, PTL

(* The map of encoders has the initial encoder and one for each state in   *)
(* the deque, although a state may be listed more than once.               *)
THEOREM SenderKeepsStates == Spec => []StoredIsListed
<1>1. SessionInv => StoredIsListed
  BY DEF SessionInv, SenderInv
<1>2. QED
  BY <1>1, SessionInvariant, PTL

(* The encoder of the state the sender assumes the receiver to reach is    *)
(* never erased.                                                           *)
THEOREM SenderKeepsAssumed == Spec => []AssumedIsNewest
<1>1. SessionInv => AssumedIsNewest
  BY DEF SessionInv, SenderInv
<1>2. QED
  BY <1>1, SessionInvariant, PTL

(* The receiver's map of fragments cannot grow.                            *)
THEOREM ReceiverKeepsOneFrame == Spec => []CollectsOneFrame
<1>1. SessionInv => CollectsOneFrame
  BY DEF SessionInv, ReceiverInv
<1>2. QED
  BY <1>1, SessionInvariant, PTL

(* The search for a saved source in the deque finds it.                    *)
THEOREM ReceiverListsSaved == Spec => []SavedIsListed
<1>1. SessionInv => SavedIsListed
  BY DEF SessionInv, ReceiverInv
<1>2. QED
  BY <1>1, SessionInvariant, PTL

(* The state an ack calls current has not been pruned.                     *)
THEOREM ReceiverShowsNewest == Spec => []CurrentIsNewest
<1>1. SessionInv => CurrentIsNewest
  BY DEF SessionInv, ReceiverInv
<1>2. QED
  BY <1>1, SessionInvariant, PTL

-----------------------------------------------------------------------------
(***************************************************************************)
(* A session implements the promise of a functional codec.                 *)
(***************************************************************************)

(* A frame that is sent publishes a step from a state already reached.     *)
LEMMA SendingPublishes ==
  ASSUME SessionInv, SessionInv', SenderSends
  PROVE  Chain!ChainNext
<1> PICK target \in Targets(job_source), fragments \in 1 .. MaxFragments :
         SendFrame(target, fragments)
  BY DEF SenderSends
<1>1. encodings' = encodings \cup {<<job_source, target>>} /\ sender = "encode"
  BY DEF SendFrame
<1>2. job_source \in Reached
  BY <1>1 DEF SessionInv, SenderInv, SourcesAreReached
<1>3. <<job_source, target>> \in (0 .. MaxFrames) \X (0 .. MaxFrames)
  BY <1>1 DEF SessionInv, SenderInv, SourcesAreReached
<1>4. decoders' = decoders /\ current_state' = current_state
  BY DEF SenderSends, receiver_vars
<1>5. Chain!Publish(job_source, target)
  BY <1>1, <1>2, <1>4 DEF Chain!Publish, Reached, Initial, Chain!Initial
<1>6. job_source \in 0 .. MaxFrames /\ target \in 0 .. MaxFrames
  BY <1>3
<1>7. QED
  BY <1>5, <1>6 DEF Chain!ChainNext

(* A frame that is decoded where the sender meant it to be follows a step. *)
LEMMA ApplyingFollows ==
  ASSUME SessionInv, NEW p \in SentPackets, ApplyFrame(p), encodings' = encodings
  PROVE  Chain!ChainNext
<1>1. /\ p \in DataPacket /\ <<p.source_state, p.target_state>> \in encodings
      /\ p.target_state # Initial /\ p.source_state \in Hash
  BY DEF SentPackets, DataPacket
<1>2. /\ complete_states \in Seq(Hash) /\ current_state \in decoders \cup {Corrupt}
      /\ Len(complete_states) \in Nat
  BY LenProperties DEF SessionInv, ReceiverInv, ReceiverTypeOK, CurrentIsSaved
<1>3. current_state' = DecodedState(p)
  BY DEF ApplyFrame
<1>4. PICK k \in 0 .. Len(complete_states) :
        /\ PruneStopsAfter(p, k)
        /\ decoders' = (decoders \ ErasedDecoders(k)) \cup
                       (IF IsSaved(p) THEN {p.target_state} ELSE {})
  BY DEF ApplyFrame
<1>5. CASE LoadedState(p) = p.source_state
  <2>1. DecodedState(p) = p.target_state /\ IsSaved(p)
    BY <1>1, <1>5 DEF DecodedState, IsSaved
  <2>2. p.source_state \in decoders
    <3>1. StateAfterGivingUp(p) \in {current_state, Corrupt}
      BY DEF StateAfterGivingUp
    <3>2. p.source_state # Corrupt
      BY <1>1 DEF Hash, Corrupt
    <3>3. QED
      BY <1>2, <1>5, <3>1, <3>2 DEF LoadedState
  <2>3. Chain!Follow(p.source_state, p.target_state)
    BY <1>1, <1>3, <1>4, <2>1, <2>2 DEF Chain!Follow
  <2>4. QED
    <3> DEFINE step == <<p.source_state, p.target_state>>
    <3>1. step[1] = p.source_state /\ step[2] = p.target_state
      OBVIOUS
    <3>2. Chain!Follow(step[1], step[2])
      BY <2>3, <3>1
    <3>3. QED
      BY <1>1, <3>2 DEF Chain!ChainNext
<1>6. CASE LoadedState(p) # p.source_state
  <2>1. DecodedState(p) = Corrupt
    BY <1>6 DEF DecodedState
  <2>2. ~IsSaved(p)
    BY <1>1, <2>1 DEF IsSaved, DataPacket, Hash, Corrupt
  <2>3. k = 0
    BY <1>4, <1>6 DEF PruneStopsAfter
  <2>4. Range(SubSeq(complete_states, 1, k)) = {}
    BY <1>2, <2>3, BackOfRest
  <2>5. decoders' = decoders
    BY <1>4, <2>2, <2>3, <2>4 DEF ErasedDecoders
  <2>6. Chain!LoseChain
    BY <1>3, <2>1, <2>5 DEF Chain!LoseChain, Corrupt, Chain!Corrupt
  <2>7. QED
    BY <2>6 DEF Chain!ChainNext
<1>7. QED
  BY <1>5, <1>6

(* Whatever packet arrives, the viewer moves as the chain allows.          *)
LEMMA HandlingFollows ==
  ASSUME SessionInv, NEW p \in DataPacket, IsAccepted(p) => p \in SentPackets,
         HandlePacket(p), encodings' = encodings
  PROVE  [Chain!ChainNext]_(Chain!chain_vars)
<1>1. CASE RejectMalformed(p) \/ IgnoreLate(p) \/ MissWholeFrame(p) \/ RejectMismatched(p)
  BY <1>1 DEF RejectMalformed, IgnoreLate, MissWholeFrame, RejectMismatched, Fail,
     receiver_vars, Chain!chain_vars
<1>2. CASE StoreFragment(p)
  <2>1. /\ decoders' = decoders
        /\ current_state' = Corrupt \/ current_state' = current_state
    BY <1>2 DEF StoreFragment, StateAfterGivingUp
  <2>2. current_state' = Corrupt => Chain!LoseChain
    BY <2>1 DEF Chain!LoseChain, Corrupt, Chain!Corrupt
  <2>3. QED
    BY <2>1, <2>2 DEF Chain!ChainNext, Chain!chain_vars
<1>3. CASE ApplyFrame(p)
  <2>1. p \in SentPackets
    BY <1>3 DEF ApplyFrame
  <2>2. QED
    BY <1>3, <2>1, ApplyingFollows
<1>4. QED
  BY <1>1, <1>2, <1>3 DEF HandlePacket

(* Every step of a session is a step of the chain, or none.                *)
LEMMA NextFollows ==
  ASSUME SessionInv, SessionInv', [Next]_vars
  PROVE  [Chain!ChainNext]_(Chain!chain_vars)
<1>1. CASE SenderSends
  BY <1>1, SendingPublishes
<1>2. CASE \E i \in Arrivals(DataLink, data) : DeliverData(i)
  <2> PICK i \in Arrivals(DataLink, data) : DeliverData(i)
    BY <1>2
  <2>1. data[i] \in SentPackets
    BY SessionAssumption, RemainingIsSent DEF SessionInv, NetworkInv
  <2>2. HandlePacket(data[i]) /\ encodings' = encodings
    BY DEF DeliverData, sender_vars, sent_vars
  <2>3. data[i] \in DataPacket
    BY <2>1 DEF SentPackets
  <2>4. QED
    BY <2>1, <2>2, <2>3, HandlingFollows
<1>3. CASE DeliverStrayPacket
  <2> PICK p \in StrayPackets : HandlePacket(p)
    BY <1>3 DEF DeliverStrayPacket
  <2>1. p \in DataPacket /\ ~IsAccepted(p)
    BY StraysAssumption DEF IsAccepted, IsMismatched
  <2>2. encodings' = encodings
    BY <1>3 DEF DeliverStrayPacket, sender_vars, sent_vars
  <2>3. QED
    BY <2>1, <2>2, HandlingFollows
<1>4. CASE \/ SenderStarts \/ SenderSkips \/ SenderExpires \/ DeliverStrayAck
           \/ \E i \in Arrivals(AckLink, acks) : DeliverAck(i)
           \/ \E i \in DOMAIN data : DuplicateData(i)
           \/ \E i \in DOMAIN acks : DuplicateAck(i)
           \/ UNCHANGED vars
  <2>1. UNCHANGED receiver_vars /\ encodings' = encodings
    BY <1>4 DEF SenderStarts, StartEncode, SenderSkips, SkipFrame, SenderExpires,
       ConservativeExpires, DeliverStrayAck, DeliverAck, ReceiveAck, DuplicateData,
       DuplicateAck, vars, sender_vars, sent_vars
  <2>2. QED
    BY <2>1 DEF receiver_vars, Chain!chain_vars
<1>5. QED
  BY <1>1, <1>2, <1>3, <1>4 DEF Next

(* The refinement: whatever the network does, the viewer moves only along  *)
(* steps the sender published, each from a state the viewer still has; and *)
(* it lets go of older states only when it follows one.                    *)
THEOREM SessionImplementsChain == Spec => ImplementsChain
<1>1. Init => Chain!ChainInit
  BY DEF Init, SenderInit, ReceiverInit, Chain!ChainInit, Initial, Chain!Initial
<1>2. SessionInv /\ SessionInv' /\ [Next]_vars => [Chain!ChainNext]_(Chain!chain_vars)
  BY NextFollows
<1>3. QED
  BY <1>1, <1>2, SessionInvariant, PTL DEF Spec, ImplementsChain, Chain!ChainSpec
=============================================================================
