------------------------ MODULE OrderedSessionProofs -----------------------
(***************************************************************************)
(* Theorems about sessions in which every frame ends in a new state, so    *)
(* that states are numbered in the order in which they are made.  First    *)
(* over any network; then over one that loses packets but keeps those it   *)
(* delivers in order, while the acknowledgements may still be lost,        *)
(* reordered and duplicated.                                               *)
(***************************************************************************)
EXTENDS SalsifySessionProofs

(* The states the cleanup has popped from the sender's deque.              *)
Dropped == frame_no - Len(encoder_states)

(* Frame n ends in state n + 1.                                            *)
NumberedPackets == {p \in SentPackets : p.target_state = p.frame_no + 1}

(* The sender's deque holds consecutive states, up to the last one.        *)
SenderNumbers ==
  /\ Dropped \in Nat
  /\ \A i \in 1 .. Len(encoder_states) : encoder_states[i] = Dropped + i
  /\ \A step \in encodings : step[2] \in 1 .. frame_no
  /\ data \in Seq(NumberedPackets)

(* The receiver's deque holds an increasing sequence of them.              *)
ReceiverNumbers ==
  /\ next_frame_no <= frame_no
  /\ \A i \in 1 .. Len(complete_states) : complete_states[i] \in 1 .. next_frame_no
  /\ \A i, j \in 1 .. Len(complete_states) : i < j => complete_states[i] < complete_states[j]
  /\ Initial \in decoders
  /\ ListedIsSaved

(* The inductive invariant of the numbering.                               *)
NumberedInv == SessionInv /\ SenderNumbers /\ ReceiverNumbers

-----------------------------------------------------------------------------
(***************************************************************************)
(* What a packet does to the receiver when states are numbered.            *)
(***************************************************************************)

(* No decoder is saved or erased ...                                       *)
SavesNothing(p) ==
  /\ UNCHANGED <<complete_states, decoders>>
  /\ next_frame_no' \in next_frame_no .. p.frame_no + 1
  /\ current_state' \in {current_state, Corrupt}
  /\ current_state' = Corrupt => current_state = Corrupt \/ next_frame_no' > next_frame_no

(* ... or the frame is decoded, and the states before its source are gone. *)
SavesTarget(p) ==
  /\ p.source_state \in decoders
  /\ next_frame_no' = p.frame_no + 1
  /\ current_state' = p.target_state
  /\ Back(complete_states', Initial) = p.target_state
  /\ decoders' = {s \in decoders : s = Initial \/ s >= p.source_state} \cup {p.target_state}

(* The elements of a deque, and those of its parts.                        *)
LEMMA ElementsOf ==
  ASSUME NEW S, NEW s \in Seq(S), NEW x
  PROVE  x \in Range(s) <=> \E i \in 1 .. Len(s) : s[i] = x
BY RangeEquality

(* The elements of the front and of the rest of a sequence.                *)
LEMMA ElementsOfParts ==
  ASSUME NEW S, NEW s \in Seq(S), NEW k \in 0 .. Len(s), NEW x
  PROVE  /\ x \in Range(SubSeq(s, 1, k)) <=> \E i \in 1 .. k : s[i] = x
         /\ x \in Range(SubSeq(s, k + 1, Len(s))) <=> \E i \in k + 1 .. Len(s) : s[i] = x
<1> DEFINE front == SubSeq(s, 1, k)
           rest == SubSeq(s, k + 1, Len(s))
<1>1. /\ front \in Seq(S) /\ Len(front) = k
      /\ \A i \in 1 .. k : front[i] = s[i]
  BY SubSeqProperties
<1>2. /\ rest \in Seq(S) /\ Len(rest) = Len(s) - k /\ Len(s) \in Nat
      /\ \A i \in 1 .. Len(s) - k : rest[i] = s[k + i]
  BY SubSeqProperties, LenProperties
<1> HIDE DEF front, rest
<1>3. x \in Range(front) <=> \E i \in 1 .. k : front[i] = x
  BY <1>1, ElementsOf
<1>4. x \in Range(rest) <=> \E i \in 1 .. Len(s) - k : rest[i] = x
  BY <1>2, ElementsOf
<1>5. (\E i \in 1 .. Len(s) - k : s[k + i] = x) <=> \E i \in k + 1 .. Len(s) : s[i] = x
  <2>1. ASSUME NEW i \in 1 .. Len(s) - k, s[k + i] = x
        PROVE  \E j \in k + 1 .. Len(s) : s[j] = x
    <3>1. k + i \in k + 1 .. Len(s)
      BY <1>2
    <3>2. QED
      BY <2>1, <3>1
  <2>2. ASSUME NEW i \in k + 1 .. Len(s), s[i] = x
        PROVE  \E j \in 1 .. Len(s) - k : s[k + j] = x
    <3>1. i - k \in 1 .. Len(s) - k /\ k + (i - k) = i
      BY <1>2
    <3>2. QED
      BY <2>2, <3>1
  <2>3. QED
    BY <2>1, <2>2
<1>6. QED
  BY <1>1, <1>2, <1>3, <1>4, <1>5 DEF front, rest

(* Pruning up to an element of an increasing deque pops what is smaller.   *)
LEMMA PruneIncreasing ==
  ASSUME NEW s \in Seq(Nat), NEW e \in Nat, NEW k \in 0 .. Len(s),
         \A i, j \in 1 .. Len(s) : i < j => s[i] < s[j],
         e \in Range(s), StopsAfter(s, {e}, k)
  PROVE  Range(SubSeq(s, 1, k)) = {x \in Range(s) : x < e}
<1>1. /\ Len(s) \in Nat /\ Range(s) = {s[i] : i \in 1 .. Len(s)}
      /\ \A i \in 1 .. Len(s) : s[i] \in Nat
  BY LenProperties, RangeEquality, ElementOfSeq
<1>2. PICK m \in 1 .. Len(s) : s[m] = e
  BY <1>1
<1>3. k < m
  BY <1>2 DEF StopsAfter
<1>4. k < Len(s) /\ k + 1 \in 1 .. Len(s) /\ s[k + 1] = e
  BY <1>1, <1>3 DEF StopsAfter
<1>5. \A i \in 1 .. Len(s) : s[i] < e <=> i <= k
  <2> TAKE i \in 1 .. Len(s)
  <2>1. CASE i <= k
    BY <2>1, <1>1, <1>4
  <2>2. CASE i = k + 1
    BY <2>2, <1>1, <1>4
  <2>3. CASE i > k + 1
    <3>1. e < s[i]
      BY <2>3, <1>1, <1>4
    <3>2. QED
      BY <3>1, <2>3, <1>1
  <2>4. QED
    BY <2>1, <2>2, <2>3, <1>1
<1>6. \A x : x \in Range(SubSeq(s, 1, k)) <=> \E i \in 1 .. k : s[i] = x
  BY ElementsOfParts
<1>7. \A x : x \in Range(s) <=> \E i \in 1 .. Len(s) : s[i] = x
  BY ElementsOf
<1>8. QED
  BY <1>1, <1>5, <1>6, <1>7

(* What is left of an increasing deque, and a larger element pushed on it, *)
(* is increasing.                                                          *)
LEMMA PushIncreasing ==
  ASSUME NEW s \in Seq(Nat), NEW n \in Nat, NEW e \in Nat, NEW k \in 0 .. Len(s),
         \A i \in 1 .. Len(s) : s[i] \in 1 .. n,
         \A i, j \in 1 .. Len(s) : i < j => s[i] < s[j],
         e > n
  PROVE  LET t == Append(SubSeq(s, k + 1, Len(s)), e)
         IN  /\ \A i \in 1 .. Len(t) : t[i] \in 1 .. e
             /\ \A i, j \in 1 .. Len(t) : i < j => t[i] < t[j]
<1> DEFINE rest == SubSeq(s, k + 1, Len(s))
           t == Append(rest, e)
<1>1. /\ Len(s) \in Nat /\ rest \in Seq(Nat) /\ Len(rest) = Len(s) - k
      /\ \A i \in 1 .. Len(s) - k : rest[i] = s[k + i]
  BY SplitSeq, LenProperties
<1>2. /\ Len(t) = Len(s) - k + 1
      /\ \A i \in 1 .. Len(s) - k : t[i] = s[k + i]
      /\ t[Len(s) - k + 1] = e
  <2> HIDE DEF rest
  <2>1. QED
    BY <1>1, AppendProperties
<1> DEFINE m == Len(s) - k
<1>3. m \in Nat /\ \A i \in 1 .. m : k + i \in 1 .. Len(s)
  BY <1>1
<1>4. \A i \in 1 .. m : t[i] \in 1 .. n
  BY <1>2, <1>3
<1>5. \A i, j \in 1 .. m : i < j => t[i] < t[j]
  BY <1>2, <1>3
<1>6. Len(t) = m + 1 /\ t[m + 1] = e
  BY <1>2
<1> HIDE DEF t, m
<1>7. \A i \in 1 .. Len(t) : t[i] \in 1 .. e
  <2> TAKE i \in 1 .. Len(t)
  <2>1. CASE i = m + 1
    BY <2>1, <1>6
  <2>2. CASE i \in 1 .. m
    BY <2>2, <1>4
  <2>3. QED
    BY <2>1, <2>2, <1>3, <1>6
<1>8. \A i, j \in 1 .. Len(t) : i < j => t[i] < t[j]
  <2> TAKE i, j \in 1 .. Len(t)
  <2>1. CASE j = m + 1 /\ i < j
    <3>1. i \in 1 .. m
      BY <2>1, <1>3, <1>6
    <3>2. t[i] \in 1 .. n
      BY <3>1, <1>4
    <3>3. QED
      BY <2>1, <3>2, <1>6
  <2>2. CASE j \in 1 .. m /\ i < j
    <3>1. i \in 1 .. m
      BY <2>2, <1>3, <1>6
    <3>2. QED
      BY <2>2, <3>1, <1>5
  <2>3. QED
    BY <2>1, <2>2, <1>3, <1>6
<1>9. QED
  BY <1>7, <1>8 DEF t

(* The handler, for a packet of this session.                              *)
LEMMA HandlingByNumbers ==
  ASSUME NumberedInv, NEW p \in NumberedPackets, HandlePacket(p), UNCHANGED frame_no
  PROVE  /\ IsAccepted(p) => SavesNothing(p) \/ SavesTarget(p)
         /\ ~IsAccepted(p) =>
              UNCHANGED <<next_frame_no, current_state, complete_states, decoders>>
         /\ ReceiverNumbers'
<1>1. /\ p \in DataPacket /\ p.frame_no \in Nat /\ p.frame_no < frame_no
      /\ p.source_state \in Hash /\ p.target_state # Initial
      /\ p.target_state = p.frame_no + 1
      /\ frame_no \in Nat
  <2>1. frame_no \in Nat
    BY LenProperties DEF frame_no, NumberedInv, SessionInv, SenderInv, SenderTypeOK
  <2>2. QED
    BY <2>1 DEF NumberedPackets, SentPackets, DataPacket
<1>2. /\ complete_states \in Seq(Hash) /\ next_frame_no \in Nat
      /\ Len(complete_states) \in Nat
      /\ decoders \subseteq Hash
      /\ ReceiverInv
  BY LenProperties DEF NumberedInv, SessionInv, ReceiverInv, ReceiverTypeOK
<1>3. CASE ~(StoreFragment(p) \/ ApplyFrame(p))
  <2>1. UNCHANGED <<next_frame_no, current_state, complete_states, decoders>>
    BY <1>3 DEF HandlePacket, RejectMalformed, IgnoreLate, MissWholeFrame,
       RejectMismatched, Fail, receiver_vars
  <2>2. ~IsAccepted(p)
    BY <1>3 DEF HandlePacket, RejectMalformed, IgnoreLate, MissWholeFrame,
       RejectMismatched, IsAccepted
  <2>3. ReceiverNumbers'
    BY <2>1 DEF NumberedInv, ReceiverNumbers, ListedIsSaved
  <2>4. QED
    BY <2>1, <2>2, <2>3
<1>4. CASE StoreFragment(p)
  <2>1. /\ IsAccepted(p) /\ UNCHANGED <<complete_states, decoders>>
        /\ next_frame_no' = p.frame_no /\ current_state' = StateAfterGivingUp(p)
    BY <1>4 DEF StoreFragment
  <2>2. p.frame_no >= next_frame_no
    BY <1>2, <2>1, <1>1, AcceptedPacket
  <2>3. /\ current_state' \in {current_state, Corrupt}
        /\ current_state' = Corrupt => current_state = Corrupt \/ next_frame_no' > next_frame_no
    <3>1. GivenUp(p) # {} => p.frame_no > next_frame_no
      BY <1>1, <1>2, <2>2 DEF GivenUp, ReceiverInv, ReceiverTypeOK
    <3>2. QED
      BY <1>1, <1>2, <2>1, <2>2, <3>1 DEF StateAfterGivingUp
  <2>4. SavesNothing(p)
    BY <1>1, <1>2, <2>1, <2>2, <2>3 DEF SavesNothing
  <2>5. ReceiverNumbers'
    BY <1>1, <1>2, <2>1, <2>2 DEF NumberedInv, ReceiverNumbers, ListedIsSaved
  <2>6. QED
    BY <2>1, <2>4, <2>5
<1>5. CASE ApplyFrame(p)
  <2>1. /\ IsAccepted(p)
        /\ next_frame_no' = p.frame_no + 1 /\ current_state' = DecodedState(p)
    BY <1>5 DEF ApplyFrame
  <2>2. p.frame_no >= next_frame_no
    BY <1>1, <1>2, <2>1, AcceptedPacket
  <2>3. PICK k \in 0 .. Len(complete_states) :
          LET kept == SubSeq(complete_states, k + 1, Len(complete_states))
          IN /\ PruneStopsAfter(p, k)
             /\ complete_states' = IF IsSaved(p) THEN Append(kept, p.target_state) ELSE kept
             /\ decoders' = (decoders \ ErasedDecoders(k)) \cup
                            (IF IsSaved(p) THEN {p.target_state} ELSE {})
    BY <1>5 DEF ApplyFrame
  <2> DEFINE popped == SubSeq(complete_states, 1, k)
             kept == SubSeq(complete_states, k + 1, Len(complete_states))
  <2>4. CASE LoadedState(p) # p.source_state
    <3>1. DecodedState(p) = Corrupt /\ ~IsSaved(p)
      BY <1>1, <2>4, DecodedStateIs DEF IsSaved
    <3>2. k = 0
      BY <2>3, <2>4 DEF PruneStopsAfter
    <3>3. kept = complete_states /\ Range(popped) = {}
      BY <1>2, <3>2, BackOfRest
    <3>4. UNCHANGED <<complete_states, decoders>> /\ current_state' = Corrupt
      BY <2>1, <2>3, <3>1, <3>3 DEF ErasedDecoders
    <3>5. SavesNothing(p)
      BY <1>1, <1>2, <2>1, <2>2, <3>4 DEF SavesNothing
    <3>6. ReceiverNumbers'
      BY <1>1, <1>2, <2>1, <2>2, <3>4 DEF NumberedInv, ReceiverNumbers, ListedIsSaved
    <3>7. QED
      BY <2>1, <3>5, <3>6
  <2>5. CASE LoadedState(p) = p.source_state
    <3>1. DecodedState(p) = p.target_state /\ IsSaved(p)
      BY <1>1, <2>5 DEF DecodedState, IsSaved
    <3>2. p.source_state \in decoders
      <4>1. StateAfterGivingUp(p) \in {current_state, Corrupt}
        BY DEF StateAfterGivingUp
      <4>2. QED
        BY <1>1, <1>2, <2>5, <4>1 DEF LoadedState, ReceiverInv, CurrentIsSaved, Hash, Corrupt
    <3>3. /\ complete_states' = Append(kept, p.target_state)
          /\ decoders' = (decoders \ Range(popped)) \cup {p.target_state}
          /\ current_state' = p.target_state
      BY <2>1, <2>3, <3>1 DEF ErasedDecoders
    <3>4. /\ kept \in Seq(Hash)
          /\ Range(complete_states) = Range(popped) \cup Range(kept)
      BY <1>2, SplitSeq
    <3>5. /\ Range(complete_states') = Range(kept) \cup {p.target_state}
          /\ Back(complete_states', Initial) = p.target_state
      <4> HIDE DEF kept
      <4>1. p.target_state \in Hash
        BY <1>1 DEF Hash
      <4>2. QED
        BY <3>3, <3>4, <4>1, PushBack
    <3>6. /\ decoders = {Initial} \cup Range(complete_states)
          /\ Initial \notin Range(complete_states)
      <4>1. \A x \in Range(complete_states) : x \in 1 .. next_frame_no
        BY <1>2, ElementsOf DEF NumberedInv, ReceiverNumbers
      <4>2. Initial \notin Range(complete_states)
        BY <1>2, <4>1 DEF Initial
      <4>3. QED
        BY <1>2, <4>2 DEF NumberedInv, ReceiverNumbers, ListedIsSaved, ReceiverInv, SavedIsListed
    <3>7. Range(popped) = {s \in Range(complete_states) : s < p.source_state}
      <4>1. CASE p.source_state = Initial
        <5>1. k = 0
          BY <2>3, <4>1 DEF PruneStopsAfter
        <5>2. Range(popped) = {}
          BY <1>2, <5>1, BackOfRest
        <5>3. Range(complete_states) \subseteq Nat
          BY <1>2, <3>6 DEF Hash
        <5>4. QED
          BY <4>1, <5>2, <5>3 DEF Initial
      <4>2. CASE p.source_state # Initial
        <5>1. StopsAfter(complete_states, {p.source_state}, k)
          BY <2>3, <2>5, <4>2 DEF PruneStopsAfter
        <5>2. p.source_state \in Range(complete_states)
          BY <3>2, <3>6, <4>2
        <5>3. QED
          BY <1>1, <1>2, <5>1, <5>2, PruneIncreasing DEF Hash, NumberedInv, ReceiverNumbers
      <4>3. QED
        BY <4>1, <4>2
    <3>8. decoders' = {s \in decoders : s = Initial \/ s >= p.source_state} \cup {p.target_state}
      <4>1. decoders \ Range(popped) = {s \in decoders : s = Initial \/ s >= p.source_state}
        <5> HIDE DEF popped
        <5>1. QED
          BY <1>1, <1>2, <3>6, <3>7 DEF Hash
      <4>2. QED
        BY <3>3, <4>1
    <3>9. SavesTarget(p)
      BY <2>1, <3>2, <3>3, <3>5, <3>8 DEF SavesTarget
    <3>10. ListedIsSaved'
      <4>1. \A x \in Range(kept) : x \notin Range(popped)
        <5>1. \A x : /\ x \in Range(popped) <=> \E i \in 1 .. k : complete_states[i] = x
                     /\ x \in Range(kept) <=>
                          \E i \in k + 1 .. Len(complete_states) : complete_states[i] = x
          BY <1>2, ElementsOfParts
        <5>2. \A i \in 1 .. k, j \in k + 1 .. Len(complete_states) :
                 complete_states[i] # complete_states[j]
          <6> TAKE i \in 1 .. k, j \in k + 1 .. Len(complete_states)
          <6>1. i \in 1 .. Len(complete_states) /\ j \in 1 .. Len(complete_states) /\ i < j
            BY <1>2
          <6>2. complete_states[i] < complete_states[j]
                /\ complete_states[i] \in 1 .. next_frame_no
            BY <6>1 DEF NumberedInv, ReceiverNumbers
          <6>3. QED
            BY <6>2
        <5>3. QED
          BY <5>1, <5>2
      <4>2. QED
        BY <3>3, <3>4, <3>5, <3>6, <4>1 DEF ListedIsSaved
    <3>11. Initial \in decoders'
      BY <3>6, <3>8
    <3>12. /\ \A i \in 1 .. Len(complete_states') : complete_states'[i] \in 1 .. next_frame_no'
           /\ \A i, j \in 1 .. Len(complete_states') :
                i < j => complete_states'[i] < complete_states'[j]
      <4>1. p.target_state \in Nat /\ p.target_state > next_frame_no /\ next_frame_no' = p.target_state
        BY <1>1, <1>2, <2>1, <2>2
      <4>2. QED
        BY <1>2, <3>3, <4>1, PushIncreasing DEF Hash, NumberedInv, ReceiverNumbers
    <3>13. next_frame_no' <= frame_no'
      BY <1>1, <2>1
    <3>14. QED
      BY <2>1, <3>9, <3>10, <3>11, <3>12, <3>13 DEF ReceiverNumbers
  <2>6. QED
    BY <2>4, <2>5
<1>6. QED
  BY <1>3, <1>4, <1>5

-----------------------------------------------------------------------------
(***************************************************************************)
(* The numbering, action by action.                                        *)
(***************************************************************************)

(* The counters of the sender are natural numbers.                         *)
LEMMA CountsAreNat ==
  ASSUME SenderInv
  PROVE  /\ frame_no \in Nat /\ frame_no = Len(cumulative_fpf)
         /\ encoder_states \in Seq(Hash) /\ Len(encoder_states) \in Nat
BY LenProperties DEF frame_no, SenderInv, SenderTypeOK

(* The cleanup renumbers nothing.                                          *)
LEMMA StartEncodePops ==
  ASSUME SenderInv, StartEncode
  PROVE  \E k \in 0 .. Len(encoder_states) :
           /\ CleanupStopsAfter(k)
           /\ Len(encoder_states') = Len(encoder_states) - k
           /\ frame_no' = frame_no
           /\ Dropped' = Dropped + k
           /\ \A i \in 1 .. Len(encoder_states) - k : encoder_states'[i] = encoder_states[k + i]
<1> PICK k \in 0 .. Len(encoder_states) :
         /\ CleanupStopsAfter(k)
         /\ encoder_states' = SubSeq(encoder_states, k + 1, Len(encoder_states))
  BY DEF StartEncode
<1>1. /\ Len(encoder_states') = Len(encoder_states) - k
      /\ \A i \in 1 .. Len(encoder_states) - k : encoder_states'[i] = encoder_states[k + i]
  BY CountsAreNat, SplitSeq
<1>2. frame_no' = frame_no
  BY DEF StartEncode, sent_vars, frame_no
<1>3. Dropped' = Dropped + k
  BY <1>1, <1>2, CountsAreNat DEF Dropped
<1>4. QED
  BY <1>1, <1>2, <1>3

(* A frame that is sent pushes its target.                                 *)
LEMMA SendFramePushes ==
  ASSUME SenderInv,
         NEW target \in Targets(job_source), NEW fragments \in 1 .. MaxFragments,
         SendFrame(target, fragments)
  PROVE  /\ frame_no' = frame_no + 1
         /\ target \in Nat
         /\ Dropped' = Dropped
         /\ Len(encoder_states') = Len(encoder_states) + 1
         /\ \A i \in 1 .. Len(encoder_states) : encoder_states'[i] = encoder_states[i]
         /\ encoder_states'[Len(encoder_states) + 1] = target
<1>1. target \in Nat
  BY CountsAreNat DEF Targets
<1>2. Back(cumulative_fpf, 0) + fragments \in Nat
  <2>1. cumulative_fpf \in Seq(Nat)
    BY DEF SenderInv, SenderTypeOK
  <2>2. Back(cumulative_fpf, 0) \in Nat
    <3>1. CASE cumulative_fpf = << >>
      BY <3>1 DEF Back
    <3>2. CASE cumulative_fpf # << >>
      <4>1. Len(cumulative_fpf) \in 1 .. Len(cumulative_fpf) /\ Back(cumulative_fpf, 0) = cumulative_fpf[Len(cumulative_fpf)]
        BY <2>1, <3>2, BackOfRest, LenProperties
      <4>2. QED
        BY <2>1, <4>1, ElementOfSeq
    <3>3. QED
      BY <3>1, <3>2
  <2>3. QED
    BY <2>2, SenderAssumption
<1>3. frame_no' = frame_no + 1
  BY <1>2, AppendProperties DEF SendFrame, frame_no, SenderInv, SenderTypeOK
<1>4. /\ Len(encoder_states') = Len(encoder_states) + 1
      /\ \A i \in 1 .. Len(encoder_states) : encoder_states'[i] = encoder_states[i]
      /\ encoder_states'[Len(encoder_states) + 1] = target
  BY <1>1, CountsAreNat, AppendProperties DEF SendFrame, Hash
<1>5. QED
  BY <1>1, <1>3, <1>4, CountsAreNat DEF Dropped

(* No frame has been sent at first.                                        *)
LEMMA NumberedInitially ==
  ASSUME Init
  PROVE  NumberedInv
<1>1. SenderNumbers
  BY EmptyDeque DEF Init, SenderInit, SenderNumbers, Dropped, frame_no
<1>2. ReceiverNumbers
  BY EmptyDeque DEF Init, SenderInit, ReceiverInit, ReceiverNumbers, frame_no, ListedIsSaved
<1>3. QED
  BY <1>1, <1>2, SessionInvInitially DEF NumberedInv

(* While no frame is sent, the numbers of the frames stay.                 *)
LEMMA NumberedPacketsUnchanged ==
  ASSUME UNCHANGED sent_vars
  PROVE  NumberedPackets' = NumberedPackets
BY SentUnchanged DEF NumberedPackets

(* Starting to encode cleans up behind the acknowledged state only.        *)
LEMMA NumberedStarts ==
  ASSUME NumberedInv, SenderStarts
  PROVE  SenderNumbers'
<1>1. PICK k \in 0 .. Len(encoder_states) :
        /\ Len(encoder_states') = Len(encoder_states) - k
        /\ frame_no' = frame_no
        /\ Dropped' = Dropped + k
        /\ \A i \in 1 .. Len(encoder_states) - k : encoder_states'[i] = encoder_states[k + i]
  BY StartEncodePops DEF NumberedInv, SessionInv, SenderStarts
<1>2. UNCHANGED <<sent_vars, data>>
  BY DEF SenderStarts, StartEncode, network_vars
<1>3. encodings' = encodings /\ NumberedPackets' = NumberedPackets
  BY <1>2, NumberedPacketsUnchanged DEF sent_vars
<1>4. Len(encoder_states) \in Nat
  BY CountsAreNat DEF NumberedInv, SessionInv
<1>5. Dropped' \in Nat
  BY <1>1, <1>4 DEF NumberedInv, SenderNumbers
<1>6. ASSUME NEW i \in 1 .. Len(encoder_states')
      PROVE  encoder_states'[i] = Dropped' + i
  <2>1. k + i \in 1 .. Len(encoder_states) /\ encoder_states'[i] = encoder_states[k + i]
    BY <1>1, <1>4, <1>6
  <2>2. QED
    BY <1>1, <2>1 DEF NumberedInv, SenderNumbers
<1>7. QED
  BY <1>1, <1>2, <1>3, <1>5, <1>6 DEF NumberedInv, SenderNumbers

(* The state sent is numbered with its frame.                              *)
LEMMA NumberedSends ==
  ASSUME ~StillPicture, NumberedInv, SenderSends
  PROVE  SenderNumbers'
<1> USE DEF NumberedInv, SessionInv
<1> PICK target \in Targets(job_source), fragments \in 1 .. MaxFragments :
         /\ SendFrame(target, fragments)
         /\ data' = data \o FramePackets(target, fragments)
  BY DEF SenderSends
<1>1. /\ frame_no' = frame_no + 1
      /\ Dropped' = Dropped
      /\ Len(encoder_states') = Len(encoder_states) + 1
      /\ \A i \in 1 .. Len(encoder_states) : encoder_states'[i] = encoder_states[i]
      /\ encoder_states'[Len(encoder_states) + 1] = target
  BY SendFramePushes
<1>2. target = frame_no + 1
  BY DEF Targets
<1>3. frame_no \in Nat /\ Len(encoder_states) \in Nat
  BY CountsAreNat
<1>4. ASSUME NEW i \in 1 .. Len(encoder_states')
      PROVE  encoder_states'[i] = Dropped' + i
  <2>1. CASE i = Len(encoder_states) + 1
    BY <2>1, <1>1, <1>2, <1>3 DEF Dropped
  <2>2. CASE i # Len(encoder_states) + 1
    BY <2>2, <1>1, <1>3, <1>4 DEF SenderNumbers
  <2>3. QED
    BY <2>1, <2>2
<1>5. \A step \in encodings' : step[2] \in 1 .. frame_no'
  BY <1>1, <1>2, <1>3 DEF SendFrame, SenderNumbers
<1>6. NumberedPackets \subseteq NumberedPackets'
  BY SentGrows DEF NumberedPackets
<1>7. FramePackets(target, fragments) \in Seq(NumberedPackets')
  <2>1. FramePackets(target, fragments) \in Seq(SentPackets')
    BY FramePacketsAreSent
  <2>2. \A i \in 1 .. fragments : FramePackets(target, fragments)[i] \in NumberedPackets'
    <3> TAKE i \in 1 .. fragments
    <3>1. /\ FramePackets(target, fragments)[i].target_state = target
          /\ FramePackets(target, fragments)[i].frame_no = frame_no
      BY DEF FramePackets
    <3>2. DOMAIN FramePackets(target, fragments) = 1 .. fragments
      BY DEF FramePackets
    <3>3. FramePackets(target, fragments)[i] \in SentPackets'
      BY <2>1, <3>2, ElementOfSeq, LenProperties
    <3>4. QED
      BY <1>2, <3>1, <3>3 DEF NumberedPackets
  <2>3. FramePackets(target, fragments) \in [1 .. fragments -> NumberedPackets']
    BY <2>2 DEF FramePackets
  <2>4. QED
    BY <2>3, SenderAssumption, SeqDef
<1>8. data' \in Seq(NumberedPackets')
  BY <1>6, <1>7, SeqMonotone, ConcatProperties DEF SenderNumbers
<1>9. QED
  BY <1>1, <1>4, <1>5, <1>8 DEF SenderNumbers

(* The steps that touch neither the deques nor the frames sent.            *)
LEMMA SenderNumbersUnchanged ==
  ASSUME NumberedInv, UNCHANGED <<sent_vars, encoder_vars>>, data' \in Seq(NumberedPackets)
  PROVE  SenderNumbers'
BY NumberedPacketsUnchanged
   DEF NumberedInv, SenderNumbers, Dropped, frame_no, sent_vars, encoder_vars

(* What the receiver has done stays true as more frames are sent.          *)
LEMMA ReceiverNumbersUnchanged ==
  ASSUME NumberedInv, UNCHANGED receiver_vars, frame_no' \in {frame_no, frame_no + 1}
  PROVE  ReceiverNumbers'
<1>1. frame_no \in Nat /\ next_frame_no \in Nat
  BY CountsAreNat DEF NumberedInv, SessionInv, ReceiverInv, ReceiverTypeOK
<1>2. next_frame_no <= frame_no'
  BY <1>1 DEF NumberedInv, ReceiverNumbers
<1>3. QED
  BY <1>2 DEF NumberedInv, ReceiverNumbers, ListedIsSaved, receiver_vars

(* A packet that is delivered has the next number, or one the receiver skips*)
(* to.                                                                     *)
LEMMA NumberedDelivers ==
  ASSUME NumberedInv, NEW i \in Arrivals(DataLink, data), DeliverData(i)
  PROVE  SenderNumbers' /\ ReceiverNumbers'
<1>1. /\ data[i] \in NumberedPackets
      /\ Remaining(DataLink, data, i) \in Seq(NumberedPackets)
  BY RemainingIsSent, SessionAssumption DEF NumberedInv, SenderNumbers
<1>2. /\ HandlePacket(data[i]) /\ data' = Remaining(DataLink, data, i)
      /\ UNCHANGED sender_vars
  BY DEF DeliverData
<1>3. UNCHANGED <<sent_vars, encoder_vars, frame_no>>
  BY <1>2 DEF sender_vars, sent_vars, frame_no
<1>4. SenderNumbers'
  BY <1>1, <1>2, <1>3, SenderNumbersUnchanged
<1>5. ReceiverNumbers'
  BY <1>1, <1>2, <1>3, HandlingByNumbers
<1>6. QED
  BY <1>4, <1>5

(* A stray packet ends the receiver or is dropped.                         *)
LEMMA NumberedStrays ==
  ASSUME NumberedInv, DeliverStrayPacket
  PROVE  SenderNumbers' /\ ReceiverNumbers'
<1>1. PICK p \in StrayPackets : HandlePacket(p)
  BY DEF DeliverStrayPacket
<1>2. ~IsAccepted(p)
  BY StraysAssumption DEF IsAccepted, IsMismatched
<1>3. UNCHANGED <<next_frame_no, complete_states, decoders>>
  BY <1>1, <1>2 DEF HandlePacket, RejectMalformed, IgnoreLate, MissWholeFrame,
     RejectMismatched, Fail, receiver_vars, StoreFragment, ApplyFrame
<1>4. UNCHANGED <<sender_vars, data>>
  BY DEF DeliverStrayPacket, network_vars
<1>5. UNCHANGED <<sent_vars, encoder_vars, frame_no>>
  BY <1>4 DEF sender_vars, sent_vars, frame_no
<1>6. SenderNumbers'
  BY <1>4, <1>5, SenderNumbersUnchanged DEF NumberedInv, SenderNumbers
<1>7. QED
  BY <1>3, <1>5, <1>6 DEF NumberedInv, ReceiverNumbers, ListedIsSaved

(* Every step keeps the numbering.                                         *)
LEMMA NumberedNext ==
  ASSUME ~StillPicture, NumberedInv, [Next]_vars
  PROVE  NumberedInv'
<1>1. SessionInv'
  BY NextPreserves DEF NumberedInv
<1>2. CASE SenderStarts
  <2>1. UNCHANGED <<receiver_vars, frame_no>>
    BY <1>2 DEF SenderStarts, StartEncode, sent_vars, frame_no
  <2>2. QED
    BY <1>1, <1>2, <2>1, NumberedStarts, ReceiverNumbersUnchanged DEF NumberedInv
<1>3. CASE SenderSends
  <2>1. UNCHANGED receiver_vars
    BY <1>3 DEF SenderSends
  <2>2. frame_no' = frame_no + 1
    BY <1>3, SendFramePushes DEF SenderSends, NumberedInv, SessionInv
  <2>3. QED
    BY <1>1, <1>3, <2>1, <2>2, NumberedSends, ReceiverNumbersUnchanged DEF NumberedInv
<1>4. CASE \E i \in Arrivals(DataLink, data) : DeliverData(i)
  BY <1>1, <1>4, NumberedDelivers DEF NumberedInv
<1>5. CASE DeliverStrayPacket
  BY <1>1, <1>5, NumberedStrays DEF NumberedInv
<1>6. CASE \/ SenderSkips \/ SenderExpires \/ DeliverStrayAck
           \/ \E i \in Arrivals(AckLink, acks) : DeliverAck(i)
           \/ \E i \in DOMAIN data : DuplicateData(i)
           \/ \E i \in DOMAIN acks : DuplicateAck(i)
           \/ UNCHANGED vars
  <2>1. UNCHANGED <<sent_vars, encoder_vars, receiver_vars>>
    BY <1>6 DEF SenderSkips, SkipFrame, SenderExpires, ConservativeExpires, DeliverStrayAck,
       DeliverAck, ReceiveAck, DuplicateData, DuplicateAck, vars, sender_vars
  <2>2. data' \in Seq(NumberedPackets)
    <3>1. data \in Seq(NumberedPackets) /\ DOMAIN data = 1 .. Len(data)
      BY LenProperties DEF NumberedInv, SenderNumbers
    <3>2. CASE \E i \in DOMAIN data : DuplicateData(i)
      <4>1. PICK i \in DOMAIN data : data' = Append(data, data[i])
        BY <3>2 DEF DuplicateData
      <4>2. data[i] \in NumberedPackets
        BY <3>1, ElementOfSeq
      <4>3. QED
        BY <3>1, <4>1, <4>2, AppendProperties
    <3>3. CASE ~\E i \in DOMAIN data : DuplicateData(i)
      <4>1. data' = data
        BY <1>6, <3>3 DEF SenderSkips, SenderExpires, DeliverStrayAck, DeliverAck,
           DuplicateAck, vars, network_vars
      <4>2. QED
        BY <3>1, <4>1
    <3>4. QED
      BY <3>2, <3>3
  <2>3. frame_no' = frame_no
    BY <2>1 DEF sent_vars, frame_no
  <2>4. QED
    BY <1>1, <2>1, <2>2, <2>3, SenderNumbersUnchanged, ReceiverNumbersUnchanged DEF NumberedInv
<1>7. QED
  BY <1>2, <1>3, <1>4, <1>5, <1>6 DEF Next

(* NumberedInv is an inductive invariant of a session whose frames all end *)
(* in new states.                                                          *)
THEOREM NumberedInvariant ==
  ASSUME ~StillPicture
  PROVE  Spec => []NumberedInv
<1>1. Init => NumberedInv
  BY NumberedInitially
<1>2. NumberedInv /\ [Next]_vars => NumberedInv'
  BY NumberedNext
<1>3. QED
  BY <1>1, <1>2, PTL DEF Spec

(* The receiver has the decoder of every state its acks list, whatever the *)
(* network does, as long as no state comes again: the cleanup that pops a  *)
(* state from the deque erases its decoder, and the deque does not hold    *)
(* that state a second time.                                               *)
THEOREM ReceiverSavesListed ==
  ASSUME ~StillPicture
  PROVE  Spec => []ListedIsSaved
<1>1. NumberedInv => ListedIsSaved
  BY DEF NumberedInv, ReceiverNumbers
<1>2. QED
  BY <1>1, NumberedInvariant, PTL

-----------------------------------------------------------------------------
(***************************************************************************)
(* Packets that are not reordered.                                         *)
(***************************************************************************)

(* The newest state an ack says is saved.                                  *)
Newest(ack) == Back(ack.complete_states, Initial)

(* The sender accepts it.                                                  *)
Newer(ack) == last_acked = None \/ last_acked <= AckSeqNo(ack)

(* The packets on the way are in the order they were sent.                 *)
PacketsInOrder ==
  \A i, j \in 1 .. Len(data) : i < j => AckSeqNo(data[i]) < AckSeqNo(data[j])

(* What is acknowledged left the network before what is still in it.       *)
AcksBeforePackets ==
  \A j \in 1 .. Len(data) :
    /\ \A a \in Range(acks) : AckSeqNo(a) < AckSeqNo(data[j])
    /\ last_acked # None => last_acked < AckSeqNo(data[j])

(* The newest saved state grows with the packets acknowledged, and what the*)
(* sender knows lags behind.                                               *)
AcksAgree ==
  /\ \A a, b \in Range(acks) : AckSeqNo(a) <= AckSeqNo(b) => Newest(a) <= Newest(b)
  /\ \A a \in Range(acks) :
       /\ Newer(a) => KnownState <= Newest(a)
       /\ Newest(a) <= Back(complete_states, Initial)
       /\ a.current_state \in {Initial, Corrupt, Newest(a)}
  /\ KnownState <= Back(complete_states, Initial)
  /\ receiver_last_acked_state \in {None, Initial, Corrupt, KnownState}

(* The cleanup has not gone beyond the state the receiver is known to have.*)
KnownIsStored == Dropped = 0 \/ Dropped < KnownState

(* The inductive invariant of links that keep the order.                   *)
OrderedInv ==
  /\ NumberedInv
  /\ PacketsInOrder
  /\ AcksBeforePackets
  /\ AcksAgree
  /\ KnownIsStored
  /\ SenderFindsEncoder

-----------------------------------------------------------------------------
(* The newest saved state is a number.                                     *)
LEMMA BackIsNat ==
  ASSUME NEW s \in Seq(Nat)
  PROVE  Back(s, Initial) \in Nat
<1>1. CASE s = << >>
  BY <1>1 DEF Back, Initial
<1>2. CASE s # << >>
  <2>1. Len(s) \in 1 .. Len(s) /\ Back(s, Initial) = s[Len(s)]
    BY <1>2, BackOfRest, LenProperties
  <2>2. QED
    BY <2>1, ElementOfSeq
<1>3. QED
  BY <1>1, <1>2

(* The types of what OrderedInv compares.                                  *)
LEMMA OrderedTypes ==
  ASSUME SessionInv
  PROVE  /\ data \in Seq(SentPackets) /\ Len(data) \in Nat
         /\ \A i \in 1 .. Len(data) : data[i] \in SentPackets
         /\ acks \in Seq(SentAcks)
         /\ \A a \in Range(acks) : a \in SentAcks /\ AckSeqNo(a) \in Nat /\ Newest(a) \in Nat
         /\ last_acked \in Nat \cup {None}
         /\ KnownState \in Nat
         /\ Back(complete_states, Initial) \in Nat
<1>1. /\ data \in Seq(SentPackets) /\ acks \in Seq(SentAcks)
      /\ receiver_complete_states \in Seq(Nat) /\ complete_states \in Seq(Nat)
      /\ last_acked \in Nat \cup {None}
  BY DEF SessionInv, NetworkInv, SenderInv, SenderTypeOK, ReceiverInv, ReceiverTypeOK, Hash
<1>2. ASSUME NEW a \in Range(acks)
      PROVE  a \in SentAcks /\ AckSeqNo(a) \in Nat /\ Newest(a) \in Nat
  <2>1. PICK i \in 1 .. Len(acks) : acks[i] = a
    BY <1>1, ElementsOf
  <2>2. a \in SentAcks
    BY <1>1, <2>1, ElementOfSeq
  <2>3. a.complete_states \in Seq(Nat)
    BY <2>2 DEF SentAcks, AckPacket, Hash
  <2>4. QED
    BY <2>2, <2>3, BackIsNat DEF SentAcks, Newest
<1>3. QED
  BY <1>1, <1>2, BackIsNat, ElementOfSeq, LenProperties DEF KnownState

(* The number of packets sent exceeds the sequence number of each.         *)
LEMMA SeqNosAreSmall ==
  ASSUME SenderInv
  PROVE  /\ Before(frame_no) \in Nat
         /\ Back(cumulative_fpf, 0) = Before(frame_no)
         /\ \A p \in SentPackets : AckSeqNo(p) \in Nat /\ AckSeqNo(p) < Before(frame_no)
         /\ \A a \in SentAcks : AckSeqNo(a) < Before(frame_no)
<1>1. cumulative_fpf \in Seq(Nat) /\ Len(cumulative_fpf) \in Nat /\ frame_no = Len(cumulative_fpf)
  BY LenProperties DEF SenderInv, SenderTypeOK, frame_no
<1>2. /\ Before(frame_no) \in Nat
      /\ Back(cumulative_fpf, 0) = Before(frame_no)
  <2>1. CASE cumulative_fpf = << >>
    BY <2>1, <1>1, EmptyDeque DEF Back, Before
  <2>2. CASE cumulative_fpf # << >>
    <3>1. /\ Len(cumulative_fpf) \in 1 .. Len(cumulative_fpf) /\ Len(cumulative_fpf) > 0
          /\ Back(cumulative_fpf, 0) = cumulative_fpf[Len(cumulative_fpf)]
      BY <2>2, <1>1, BackOfRest
    <3>2. cumulative_fpf[Len(cumulative_fpf)] \in Nat
      BY <3>1, <1>1, ElementOfSeq
    <3>3. QED
      BY <3>1, <3>2, <1>1 DEF Before
  <2>3. QED
    BY <2>1, <2>2
<1>3. \A n \in 1 .. frame_no : cumulative_fpf[n] \in Nat /\ cumulative_fpf[n] <= Before(frame_no)
  BY <1>1, <1>2, ElementOfSeq DEF SenderInv, TotalsGrow
<1>4. ASSUME NEW p \in SentPackets
      PROVE  AckSeqNo(p) \in Nat /\ AckSeqNo(p) < Before(frame_no)
  <2>1. /\ p.frame_no \in Nat /\ p.fragment_no \in Nat /\ p.fragments \in Nat
        /\ p.frame_no < frame_no /\ p.fragment_no < p.fragments
        /\ Before(p.frame_no) + p.fragments = cumulative_fpf[p.frame_no + 1]
    BY DEF SentPackets, DataPacket
  <2>2. AckSeqNo(p) = Before(p.frame_no) + p.fragment_no
    BY DEF AckSeqNo, Before
  <2>3. p.frame_no + 1 \in 1 .. frame_no /\ (p.frame_no > 0 => p.frame_no \in 1 .. frame_no)
    BY <1>1, <2>1
  <2>4. Before(p.frame_no) \in Nat
    BY <1>3, <2>3 DEF Before
  <2>5. cumulative_fpf[p.frame_no + 1] <= Before(frame_no)
    BY <1>3, <2>3
  <2>6. QED
    BY <1>2, <2>1, <2>2, <2>4, <2>5
<1>5. ASSUME NEW a \in SentAcks
      PROVE  AckSeqNo(a) < Before(frame_no)
  <2>1. /\ a.frame_no \in Nat /\ a.frame_no < frame_no
        /\ AckSeqNo(a) \in Nat /\ AckSeqNo(a) < cumulative_fpf[a.frame_no + 1]
    BY DEF SentAcks, AckPacket
  <2>2. a.frame_no + 1 \in 1 .. frame_no
    BY <1>1, <2>1
  <2>3. cumulative_fpf[a.frame_no + 1] \in Nat /\ cumulative_fpf[a.frame_no + 1] <= Before(frame_no)
    BY <1>3, <2>2
  <2>4. QED
    BY <1>2, <2>1, <2>3
<1>6. QED
  BY <1>2, <1>4, <1>5

(* While no frame is sent the sequence numbers stay.                       *)
LEMMA SeqNosUnchanged ==
  ASSUME UNCHANGED sent_vars, NEW a
  PROVE  AckSeqNo(a)' = AckSeqNo(a)
BY DEF sent_vars, AckSeqNo

(* The packets of a new frame come last, numbered from the total on.       *)
LEMMA SendingAppends ==
  ASSUME SessionInv,
         NEW target \in Targets(job_source), NEW fragments \in 1 .. MaxFragments,
         SendFrame(target, fragments),
         data' = data \o FramePackets(target, fragments)
  PROVE  \E n, total :
           /\ n = Len(data) /\ total = Before(frame_no)
           /\ n \in Nat /\ total \in Nat /\ fragments \in Nat
           /\ Len(data') = n + fragments
           /\ \A j \in 1 .. n : data'[j] = data[j] /\ AckSeqNo(data[j])' = AckSeqNo(data[j])
           /\ \A m \in 1 .. fragments :
                /\ AckSeqNo(data[n + m])' = total + m - 1
                /\ data'[n + m] =
                     [own |-> TRUE, frame_no |-> frame_no, fragment_no |-> m - 1,
                      fragments |-> fragments, source_state |-> job_source,
                      target_state |-> target]
           /\ \A a \in SentAcks : AckSeqNo(a)' = AckSeqNo(a)
<1> USE DEF SessionInv
<1> PICK n, total : n = Len(data) /\ total = Before(frame_no)
  OBVIOUS
<1>1. n \in Nat /\ data \in Seq(SentPackets)
  BY OrderedTypes
<1>2. total \in Nat
  BY SeqNosAreSmall
<1>3. fragments \in Nat
  BY SenderAssumption
<1>4. /\ cumulative_fpf \in Seq(Nat) /\ Len(cumulative_fpf) \in Nat
      /\ frame_no = Len(cumulative_fpf)
      /\ cumulative_fpf' = Append(cumulative_fpf, Back(cumulative_fpf, 0) + fragments)
  BY LenProperties DEF SenderInv, SenderTypeOK, SendFrame, frame_no
<1>5. Back(cumulative_fpf, 0) + fragments \in Nat
  BY <1>3, SeqNosAreSmall
<1>6. \A i \in 1 .. frame_no : cumulative_fpf'[i] = cumulative_fpf[i]
  BY <1>4, <1>5, AppendProperties
<1>7. \A a : a.frame_no \in 0 .. frame_no => AckSeqNo(a)' = AckSeqNo(a)
  BY <1>4, <1>6 DEF AckSeqNo
<1>8. FramePackets(target, fragments) \in Seq(SentPackets')
  BY FramePacketsAreSent
<1>9. data \in Seq(SentPackets')
  BY <1>1, SentGrows, SeqMonotone
<1> DEFINE packet(m) == [own |-> TRUE, frame_no |-> frame_no, fragment_no |-> m - 1,
                         fragments |-> fragments, source_state |-> job_source,
                         target_state |-> target]
<1>10. /\ Len(FramePackets(target, fragments)) = fragments
       /\ \A m \in 1 .. fragments : FramePackets(target, fragments)[m] = packet(m)
  <2>1. DOMAIN FramePackets(target, fragments) = 1 .. fragments
    BY DEF FramePackets
  <2>2. Len(FramePackets(target, fragments)) \in Nat
        /\ DOMAIN FramePackets(target, fragments) = 1 .. Len(FramePackets(target, fragments))
    BY <1>8, LenProperties
  <2>3. Len(FramePackets(target, fragments)) = fragments
    BY <2>1, <2>2, <1>3
  <2>4. QED
    BY <2>3 DEF FramePackets
<1>11. /\ Len(data') = n + fragments
       /\ \A j \in 1 .. n : data'[j] = data[j]
       /\ \A m \in 1 .. fragments : data'[n + m] = packet(m)
  <2>1. /\ Len(data') = n + fragments
        /\ \A j \in 1 .. n + fragments :
             data'[j] = IF j <= n THEN data[j] ELSE FramePackets(target, fragments)[j - n]
    <3> HIDE DEF packet
    <3>1. data' = data \o FramePackets(target, fragments)
      OBVIOUS
    <3>2. /\ Len(data \o FramePackets(target, fragments)) = Len(data) + Len(FramePackets(target, fragments))
          /\ \A j \in 1 .. Len(data) + Len(FramePackets(target, fragments)) :
               (data \o FramePackets(target, fragments))[j] =
                 IF j <= Len(data) THEN data[j] ELSE FramePackets(target, fragments)[j - Len(data)]
      BY <1>8, <1>9, ConcatProperties
    <3>3. QED
      BY <3>1, <3>2, <1>10
  <2>2. ASSUME NEW j \in 1 .. n
        PROVE  data'[j] = data[j]
    <3>1. j \in 1 .. n + fragments /\ j <= n
      BY <1>1, <1>3
    <3>2. QED
      BY <2>1, <3>1
  <2>3. ASSUME NEW m \in 1 .. fragments
        PROVE  data'[n + m] = packet(m)
    <3>1. n + m \in 1 .. n + fragments /\ ~(n + m <= n) /\ (n + m) - n = m
      BY <1>1, <1>3
    <3>2. QED
      BY <2>1, <3>1, <1>10
  <2>4. QED
    BY <2>1, <2>2, <2>3
<1>12. ASSUME NEW j \in 1 .. n
       PROVE  AckSeqNo(data[j])' = AckSeqNo(data[j])
  <2>1. data[j].frame_no \in 0 .. frame_no
    <3>1. data[j] \in SentPackets
      BY OrderedTypes
    <3>2. QED
      BY <3>1, <1>4 DEF SentPackets, DataPacket
  <2>2. data'[j] = data[j]
    BY <1>11
  <2>3. QED
    BY <2>1, <2>2, <1>4, <1>6 DEF AckSeqNo
<1>13. ASSUME NEW m \in 1 .. fragments
       PROVE  AckSeqNo(data[n + m])' = total + m - 1
  <2>1. data'[n + m].frame_no = frame_no /\ data'[n + m].fragment_no = m - 1
    <3>1. data'[n + m] = packet(m)
      BY <1>11
    <3>2. packet(m).frame_no = frame_no /\ packet(m).fragment_no = m - 1
      OBVIOUS
    <3>3. QED
      BY <3>1, <3>2
  <2>2. total = IF frame_no > 0 THEN cumulative_fpf'[frame_no] ELSE 0
    BY <1>4, <1>6 DEF Before
  <2>3. QED
    BY <2>1, <2>2, <1>2 DEF AckSeqNo
<1>14. ASSUME NEW a \in SentAcks
       PROVE  AckSeqNo(a)' = AckSeqNo(a)
  <2>1. a.frame_no \in 0 .. frame_no
    BY <1>4 DEF SentAcks, AckPacket
  <2>2. QED
    BY <2>1, <1>7
<1>15. QED
  BY <1>1, <1>2, <1>3, <1>11, <1>12, <1>13, <1>14

(* What is left of a channel was in it.                                    *)
LEMMA RemainingWithin ==
  ASSUME NEW S, NEW link \in Links, NEW channel \in Seq(S),
         NEW i \in Arrivals(link, channel)
  PROVE  /\ channel[i] \in Range(channel)
         /\ Range(Remaining(link, channel, i)) \subseteq Range(channel)
<1>1. \A x : x \in Range(channel) <=> \E j \in 1 .. Len(channel) : channel[j] = x
  BY ElementsOf
<1>2. channel \in Seq(Range(channel))
  <2>1. Len(channel) \in Nat /\ channel \in [1 .. Len(channel) -> S]
    BY LenProperties
  <2>2. channel \in [1 .. Len(channel) -> Range(channel)]
    BY <1>1, <2>1
  <2>3. QED
    BY <2>1, <2>2, SeqDef
<1> DEFINE left == Remaining(link, channel, i)
<1>3. channel[i] \in Range(channel) /\ left \in Seq(Range(channel))
  BY <1>2, RemainingIsSent
<1> HIDE DEF left
<1>4. \A x : x \in Range(left) => x \in Range(channel)
  BY <1>3, ElementsOf, ElementOfSeq
<1>5. QED
  BY <1>3, <1>4 DEF left

(* Over a link that keeps the order, only what was sent later is left.     *)
LEMMA RemainingIsLater ==
  ASSUME NEW S, NEW link \in Links, link # "datagram", NEW channel \in Seq(S),
         NEW i \in Arrivals(link, channel)
  PROVE  /\ i \in 1 .. Len(channel) /\ Len(channel) \in Nat
         /\ Len(Remaining(link, channel, i)) = Len(channel) - i
         /\ \A j \in 1 .. Len(channel) - i :
              /\ i + j \in 1 .. Len(channel)
              /\ Remaining(link, channel, i)[j] = channel[i + j]
<1>1. i \in 1 .. Len(channel) /\ i \in 0 .. Len(channel) /\ Len(channel) \in Nat
  BY RemainingIsSent, LenProperties
<1>2. QED
  BY <1>1, SplitSeq DEF Remaining

-----------------------------------------------------------------------------
(***************************************************************************)
(* OrderedInv, action by action.                                           *)
(***************************************************************************)

(* Nothing is on the way at first.                                         *)
LEMMA OrderedInitially ==
  ASSUME Init
  PROVE  OrderedInv
<1>1. /\ Len(data) = 0 /\ Range(acks) = {} /\ Back(complete_states, Initial) = Initial
      /\ KnownState = Initial /\ last_acked = None /\ receiver_last_acked_state = None
      /\ sender = "fetch" /\ Dropped = 0
  BY EmptyDeque DEF Init, SenderInit, ReceiverInit, KnownState, Dropped, frame_no
<1>2. QED
  BY <1>1, NumberedInitially DEF OrderedInv, PacketsInOrder, AcksBeforePackets, AcksAgree,
     KnownIsStored, SenderFindsEncoder, Initial

(* When the receiver last reported the state it is known to have, the      *)
(* cleanup stops there; otherwise it does nothing.                         *)
LEMMA CleanupStopsAtKnown ==
  ASSUME OrderedInv, StartEncode
  PROVE  KnownIsStored' /\ UNCHANGED <<KnownState, frame_no>>
<1> USE DEF OrderedInv, NumberedInv, SessionInv
<1>1. PICK k \in 0 .. Len(encoder_states) :
        /\ CleanupStopsAfter(k)
        /\ Len(encoder_states') = Len(encoder_states) - k
        /\ frame_no' = frame_no
        /\ Dropped' = Dropped + k
  BY StartEncodePops
<1>2. /\ encoder_states \in Seq(Hash) /\ Len(encoder_states) \in Nat
      /\ Dropped \in Nat /\ KnownState \in Nat /\ frame_no \in Nat
  BY CountsAreNat, OrderedTypes DEF SenderNumbers
<1>3. KnownState' = KnownState
  BY DEF StartEncode, acked_vars, KnownState
<1>4. CASE ~CleanupDue
  <2>1. k = 0
    BY <1>1, <1>4 DEF CleanupStopsAfter
  <2>2. QED
    BY <1>1, <1>2, <1>3, <2>1 DEF KnownIsStored
<1>5. CASE CleanupDue
  <2>1. /\ receiver_last_acked_state = KnownState /\ KnownState # Initial
        /\ KnownState \in encoders
    BY <1>5 DEF CleanupDue, AcksAgree, SenderInv, SenderTypeOK, Hash, Corrupt
  <2>2. KnownState \in Range(encoder_states)
    BY <2>1 DEF SenderInv, StoredIsListed
  <2>3. PICK m \in 1 .. Len(encoder_states) : encoder_states[m] = KnownState
    BY <1>2, <2>2, ElementsOf
  <2>4. KnownState = Dropped + m
    BY <2>3 DEF SenderNumbers
  <2>5. \A i \in 1 .. k : encoder_states[i] # KnownState
    BY <1>1, <1>5, <2>1 DEF CleanupStopsAfter, StopsAfter
  <2>6. k < m
    BY <2>3, <2>5
  <2>7. QED
    BY <1>1, <1>2, <1>3, <2>4, <2>6 DEF KnownIsStored
<1>6. QED
  BY <1>4, <1>5

(* The encoder of the state the receiver is known to have is stored, and   *)
(* the deque is empty only before the first frame.                         *)
LEMMA KnownHasEncoder ==
  SenderInv /\ SenderNumbers /\ KnownIsStored /\ KnownState \in 0 .. frame_no =>
    /\ KnownState \in encoders
    /\ encoder_states = << >> => frame_no = 0
    /\ encoder_states # << >> => Back(encoder_states, None) = frame_no
<1> SUFFICES ASSUME SenderInv, SenderNumbers, KnownIsStored, KnownState \in 0 .. frame_no
             PROVE  /\ KnownState \in encoders
                    /\ encoder_states = << >> => frame_no = 0
                    /\ encoder_states # << >> => Back(encoder_states, None) = frame_no
  OBVIOUS
<1>1. /\ encoder_states \in Seq(Hash) /\ Len(encoder_states) \in Nat
      /\ Dropped \in Nat /\ frame_no \in Nat
      /\ frame_no = Dropped + Len(encoder_states)
  BY CountsAreNat DEF SenderNumbers, Dropped
<1>2. KnownState = Initial \/ KnownState - Dropped \in 1 .. Len(encoder_states)
  BY <1>1 DEF KnownIsStored, Initial
<1>3. KnownState \in encoders
  <2>1. CASE KnownState = Initial
    BY <2>1 DEF SenderInv, StoredIsListed
  <2>2. CASE KnownState - Dropped \in 1 .. Len(encoder_states)
    <3>1. encoder_states[KnownState - Dropped] = KnownState
      BY <1>1, <2>2 DEF SenderNumbers
    <3>2. KnownState \in Range(encoder_states)
      BY <1>1, <2>2, <3>1, ElementsOf
    <3>3. QED
      BY <3>2 DEF SenderInv, StoredIsListed
  <2>3. QED
    BY <1>2, <2>1, <2>2
<1>4. encoder_states = << >> => frame_no = 0
  <2> SUFFICES ASSUME encoder_states = << >> PROVE frame_no = 0
    OBVIOUS
  <2>1. Len(encoder_states) = 0
    BY EmptyDeque
  <2>2. QED
    BY <1>1, <2>1 DEF KnownIsStored
<1>5. encoder_states # << >> => Back(encoder_states, None) = frame_no
  <2> SUFFICES ASSUME encoder_states # << >> PROVE Back(encoder_states, None) = frame_no
    OBVIOUS
  <2>1. Len(encoder_states) > 0 /\ Back(encoder_states, None) = encoder_states[Len(encoder_states)]
    BY <1>1, BackOfRest
  <2>2. encoder_states[Len(encoder_states)] = Dropped + Len(encoder_states)
    BY <1>1, <2>1 DEF SenderNumbers
  <2>3. QED
    BY <1>1, <2>1, <2>2
<1>6. QED
  BY <1>3, <1>4, <1>5

(* The newest saved state is of a frame that was sent.                     *)
LEMMA SavedStatesWereSent ==
  ASSUME NumberedInv
  PROVE  /\ next_frame_no \in Nat /\ frame_no \in Nat /\ next_frame_no <= frame_no
         /\ Back(complete_states, Initial) \in 0 .. next_frame_no
         /\ Back(complete_states, Initial) \in decoders
<1>1. /\ complete_states \in Seq(Hash) /\ Len(complete_states) \in Nat
      /\ next_frame_no \in Nat /\ frame_no \in Nat
  BY CountsAreNat, LenProperties DEF NumberedInv, SessionInv, ReceiverInv, ReceiverTypeOK
<1>2. CASE complete_states = << >>
  BY <1>1, <1>2 DEF Back, Initial, NumberedInv, ReceiverNumbers
<1>3. CASE complete_states # << >>
  <2>1. /\ Back(complete_states, Initial) = complete_states[Len(complete_states)]
        /\ Back(complete_states, Initial) \in Range(complete_states)
        /\ Len(complete_states) \in 1 .. Len(complete_states)
    BY <1>1, <1>3, BackOfRest
  <2>2. complete_states[Len(complete_states)] \in 1 .. next_frame_no
    BY <2>1 DEF NumberedInv, ReceiverNumbers
  <2>3. QED
    BY <1>1, <2>1, <2>2 DEF NumberedInv, ReceiverNumbers, ListedIsSaved
<1>4. QED
  BY <1>2, <1>3

(* The cleanup keeps the state the receiver is known to have, which is the *)
(* one the encoder goes on from.                                           *)
LEMMA OrderedStarts ==
  ASSUME OrderedInv, NumberedInv', SenderStarts
  PROVE  OrderedInv'
<1> USE DEF OrderedInv
<1>1. StartEncode /\ UNCHANGED <<receiver_vars, network_vars, sent_vars, acked_vars>>
  BY DEF SenderStarts, StartEncode
<1>2. \A a : AckSeqNo(a)' = AckSeqNo(a)
  BY <1>1, SeqNosUnchanged
<1>3. data' = data /\ acks' = acks /\ complete_states' = complete_states
      /\ last_acked' = last_acked /\ receiver_last_acked_state' = receiver_last_acked_state
  BY <1>1 DEF network_vars, receiver_vars, acked_vars
<1>4. KnownIsStored' /\ KnownState' = KnownState /\ frame_no' = frame_no
  BY <1>1, CleanupStopsAtKnown
<1>5. PacketsInOrder' /\ AcksBeforePackets'
  <2>1. \A j \in 1 .. Len(data) : AckSeqNo(data[j])' = AckSeqNo(data[j])
    BY <1>2, <1>3
  <2>2. QED
    BY <1>2, <1>3, <2>1 DEF PacketsInOrder, AcksBeforePackets
<1>6. AcksAgree'
  BY <1>2, <1>3, <1>4 DEF AcksAgree, Newer, Newest
<1>7. SenderFindsEncoder'
  <2>1. KnownState' \in 0 .. frame_no'
    BY <1>4, OrderedTypes, SavedStatesWereSent DEF NumberedInv, AcksAgree
  <2>2. SenderInv' /\ SenderNumbers'
    BY DEF NumberedInv, SessionInv
  <2>3. KnownState' \in encoders'
    <3>1. (SenderInv /\ SenderNumbers /\ KnownIsStored /\ KnownState \in 0 .. frame_no =>
             KnownState \in encoders)'
      BY KnownHasEncoder, PTL
    <3>2. QED
      BY <1>4, <2>1, <2>2, <3>1
  <2>4. SelectedSource(encoders') \in encoders'
    <3>1. KnownState \in encoders'
      BY <1>4, <2>3
    <3>2. Initial \in encoders'
      BY <2>2 DEF SenderInv, StoredIsListed
    <3>3. receiver_assumed_state # None => receiver_assumed_state \in encoders'
      <4>1. receiver_assumed_state' = receiver_assumed_state
        BY <1>1 DEF sent_vars
      <4>2. /\ receiver_assumed_state = Back(encoder_states', None)
            /\ encoder_states' \in Seq(Hash)
            /\ encoders' = {Initial} \cup Range(encoder_states')
        BY <2>2, <4>1 DEF SenderInv, AssumedIsNewest, SenderTypeOK, StoredIsListed
      <4>3. CASE encoder_states' = << >>
        BY <4>2, <4>3 DEF Back
      <4>4. CASE encoder_states' # << >>
        BY <4>2, <4>4, BackOfRest, LenProperties
      <4>5. QED
        BY <4>3, <4>4
    <3>4. QED
      BY <3>1, <3>2, <3>3 DEF SelectedSource
  <2>5. QED
    BY <1>1, <2>4 DEF StartEncode, SenderFindsEncoder
<1>8. QED
  BY <1>4, <1>5, <1>6, <1>7

(* New packets join behind those on the way, with higher numbers.          *)
LEMMA OrderedSends ==
  ASSUME OrderedInv, NumberedInv', SenderSends
  PROVE  OrderedInv'
<1> USE DEF OrderedInv, NumberedInv, SessionInv
<1> PICK target \in Targets(job_source), fragments \in 1 .. MaxFragments :
         /\ SendFrame(target, fragments)
         /\ data' = data \o FramePackets(target, fragments)
  BY DEF SenderSends
<1>1. PICK n, total :
        /\ n = Len(data) /\ total = Before(frame_no)
        /\ n \in Nat /\ total \in Nat /\ fragments \in Nat
        /\ Len(data') = n + fragments
        /\ \A j \in 1 .. n : data'[j] = data[j] /\ AckSeqNo(data[j])' = AckSeqNo(data[j])
        /\ \A m \in 1 .. fragments :
             /\ AckSeqNo(data[n + m])' = total + m - 1
             /\ data'[n + m] =
                  [own |-> TRUE, frame_no |-> frame_no, fragment_no |-> m - 1,
                   fragments |-> fragments, source_state |-> job_source,
                   target_state |-> target]
        /\ \A a \in SentAcks : AckSeqNo(a)' = AckSeqNo(a)
  BY Zenon, SendingAppends
<1>2. /\ n \in Nat /\ total \in Nat /\ fragments \in Nat
      /\ Len(data') = n + fragments
      /\ \A j \in 1 .. n : AckSeqNo(data[j])' = AckSeqNo(data[j])
      /\ \A m \in 1 .. fragments : AckSeqNo(data[n + m])' = total + m - 1
      /\ \A a \in SentAcks : AckSeqNo(a)' = AckSeqNo(a)
  BY <1>1
<1>3. acks' = acks /\ complete_states' = complete_states
  BY DEF SenderSends, receiver_vars
<1>4. UNCHANGED acked_vars /\ sender' = "fetch"
  BY DEF SendFrame
<1>5. last_acked' = last_acked /\ receiver_last_acked_state' = receiver_last_acked_state
      /\ KnownState' = KnownState
  BY <1>4 DEF acked_vars, KnownState
<1>6. \A j \in 1 .. n : AckSeqNo(data[j]) \in Nat /\ AckSeqNo(data[j]) < total
  BY <1>1, OrderedTypes, SeqNosAreSmall
<1>7. \A a \in Range(acks) : AckSeqNo(a)' = AckSeqNo(a) /\ AckSeqNo(a) \in Nat /\ AckSeqNo(a) < total
  BY <1>1, <1>2, OrderedTypes, SeqNosAreSmall
<1>8. last_acked # None => last_acked \in Nat /\ last_acked < total
  BY <1>1, OrderedTypes, SeqNosAreSmall DEF SenderInv, LastAckedWasSent
<1>9. \A j \in 1 .. n + fragments :
        \/ j \in 1 .. n
        \/ j - n \in 1 .. fragments /\ AckSeqNo(data[j])' = total + (j - n) - 1
  <2> TAKE j \in 1 .. n + fragments
  <2>1. CASE j <= n
    BY <2>1, <1>2
  <2>2. CASE j > n
    <3>1. j - n \in 1 .. fragments /\ n + (j - n) = j
      BY <2>2, <1>2
    <3>2. PICK m \in 1 .. fragments : m = j - n /\ n + m = j
      BY <3>1
    <3>3. AckSeqNo(data[j])' = total + m - 1
      BY <3>2, <1>2
    <3>4. QED
      BY <3>1, <3>2, <3>3
  <2>3. QED
    BY <2>1, <2>2, <1>2
<1>10. PacketsInOrder'
  <2> SUFFICES ASSUME NEW i \in 1 .. n + fragments, NEW j \in 1 .. n + fragments, i < j
               PROVE  AckSeqNo(data[i])' < AckSeqNo(data[j])'
    BY <1>2 DEF PacketsInOrder
  <2>1. CASE j \in 1 .. n
    <3>1. i \in 1 .. n
      BY <2>1, <1>2
    <3>2. AckSeqNo(data[i]) < AckSeqNo(data[j])
      BY <2>1, <3>1, <1>1 DEF PacketsInOrder
    <3>3. QED
      BY <2>1, <3>1, <3>2, <1>2
  <2>2. CASE j \notin 1 .. n
    <3>1. AckSeqNo(data[j])' = total + (j - n) - 1 /\ j - n \in 1 .. fragments
      BY <2>2, <1>9
    <3>2. CASE i \in 1 .. n
      BY <3>1, <3>2, <1>2, <1>6
    <3>3. CASE i \notin 1 .. n
      <4>1. AckSeqNo(data[i])' = total + (i - n) - 1 /\ i - n \in 1 .. fragments
        BY <3>3, <1>9
      <4>2. QED
        BY <3>1, <4>1, <1>2
    <3>4. QED
      BY <3>2, <3>3
  <2>3. QED
    BY <2>1, <2>2
<1>11. AcksBeforePackets'
  <2> SUFFICES ASSUME NEW j \in 1 .. n + fragments
               PROVE  /\ \A a \in Range(acks) : AckSeqNo(a)' < AckSeqNo(data[j])'
                      /\ last_acked # None => last_acked < AckSeqNo(data[j])'
    BY <1>2, <1>3, <1>5 DEF AcksBeforePackets
  <2>1. CASE j \in 1 .. n
    BY <2>1, <1>1, <1>2, <1>7 DEF AcksBeforePackets
  <2>2. CASE j \notin 1 .. n
    <3>1. AckSeqNo(data[j])' = total + (j - n) - 1 /\ j - n \in 1 .. fragments
      BY <2>2, <1>9
    <3>2. AckSeqNo(data[j])' >= total /\ AckSeqNo(data[j])' \in Nat
      BY <3>1, <1>2
    <3>3. QED
      BY <3>2, <1>2, <1>7, <1>8
  <2>3. QED
    BY <2>1, <2>2
<1>12. AcksAgree'
  BY <1>3, <1>5, <1>7 DEF AcksAgree, Newer, Newest
<1>13. KnownIsStored'
  BY <1>5, SendFramePushes DEF KnownIsStored
<1>14. QED
  BY <1>4, <1>10, <1>11, <1>12, <1>13 DEF SenderFindsEncoder

(* What is acknowledged grows with every packet.                           *)
LEMMA NewestAdvances ==
  ASSUME NumberedInv, NEW p \in NumberedPackets, HandlePacket(p), UNCHANGED frame_no
  PROVE  Back(complete_states, Initial) <= Back(complete_states, Initial)'
<1>1. /\ Back(complete_states, Initial) \in 0 .. next_frame_no /\ next_frame_no \in Nat
      /\ p.frame_no \in Nat /\ p.target_state = p.frame_no + 1
  BY SavedStatesWereSent DEF NumberedPackets, SentPackets, DataPacket
<1>2. CASE UNCHANGED complete_states
  BY <1>1, <1>2
<1>3. CASE IsAccepted(p) /\ SavesTarget(p)
  <2>1. p.frame_no >= next_frame_no
    BY <1>1, <1>3 DEF IsAccepted, IsLate
  <2>2. Back(complete_states, Initial)' = p.target_state
    BY <1>3 DEF SavesTarget
  <2>3. QED
    BY <1>1, <2>1, <2>2
<1>4. QED
  BY <1>2, <1>3, HandlingByNumbers DEF SavesNothing

(* A packet delivered was the oldest on the way: what it acknowledges is   *)
(* newer than every acknowledgement before it.                             *)
LEMMA OrderedDelivers ==
  ASSUME DataLink # "datagram", OrderedInv, NumberedInv',
         NEW i \in Arrivals(DataLink, data), DeliverData(i)
  PROVE  OrderedInv'
<1> USE DEF OrderedInv, NumberedInv, SessionInv
<1> DEFINE p == data[i]
<1>1. /\ HandlePacket(p) /\ data' = Remaining(DataLink, data, i)
      /\ acks' = IF IsAccepted(p) THEN Append(acks, AckFor(p)) ELSE acks
      /\ UNCHANGED sender_vars
  BY DEF DeliverData
<1>2. UNCHANGED <<sent_vars, acked_vars, encoder_vars, sender, frame_no>>
  BY <1>1 DEF sender_vars, sent_vars, frame_no
<1>3. p \in NumberedPackets /\ data \in Seq(NumberedPackets)
  BY RemainingIsSent, SessionAssumption DEF SenderNumbers
<1>4. /\ i \in 1 .. Len(data) /\ Len(data) \in Nat
      /\ Len(data') = Len(data) - i
      /\ \A j \in 1 .. Len(data) - i : i + j \in 1 .. Len(data) /\ data'[j] = data[i + j]
  BY <1>1, <1>3, RemainingIsLater, SessionAssumption
<1>5. \A a : AckSeqNo(a)' = AckSeqNo(a)
  BY <1>2, SeqNosUnchanged
<1>6. \A j \in 1 .. Len(data) - i : AckSeqNo(data[j])' = AckSeqNo(data[i + j])
  <2> TAKE j \in 1 .. Len(data) - i
  <2>1. data'[j] = data[i + j]
    BY <1>4
  <2>2. cumulative_fpf' = cumulative_fpf
    BY <1>2 DEF sent_vars
  <2>3. QED
    BY <2>1, <2>2 DEF AckSeqNo
<1>7. Range(acks') \subseteq Range(acks) \cup {AckFor(p)}
  <2>1. acks \in Seq(SentAcks) /\ AckFor(p) \in SentAcks
    BY <1>3, OrderedTypes, AckIsSent DEF NumberedPackets
  <2>2. Range(Append(acks, AckFor(p))) = Range(acks) \cup {AckFor(p)}
    BY <2>1, PushBack
  <2>3. QED
    BY <1>1, <2>2
<1>8. /\ AckSeqNo(AckFor(p)) = AckSeqNo(p)
      /\ Newest(AckFor(p)) = Back(complete_states, Initial)'
      /\ AckFor(p).current_state = current_state'
  BY DEF AckFor, AckSeqNo, Newest
<1>9. last_acked' = last_acked /\ receiver_last_acked_state' = receiver_last_acked_state
      /\ KnownState' = KnownState
  BY <1>2 DEF acked_vars, KnownState
<1>10. PacketsInOrder'
  <2> SUFFICES ASSUME NEW j \in 1 .. Len(data) - i, NEW m \in 1 .. Len(data) - i, j < m
               PROVE  AckSeqNo(data[j])' < AckSeqNo(data[m])'
    BY <1>4 DEF PacketsInOrder
  <2>1. i + j \in 1 .. Len(data) /\ i + m \in 1 .. Len(data) /\ i + j < i + m
    BY <1>4
  <2>2. QED
    BY <2>1, <1>6 DEF PacketsInOrder
<1>11. AcksBeforePackets'
  <2> SUFFICES ASSUME NEW j \in 1 .. Len(data) - i
               PROVE  /\ \A a \in Range(acks') : AckSeqNo(a) < AckSeqNo(data[i + j])
                      /\ last_acked # None => last_acked < AckSeqNo(data[i + j])
    BY <1>4, <1>5, <1>6, <1>9 DEF AcksBeforePackets
  <2>1. i + j \in 1 .. Len(data) /\ i < i + j
    BY <1>4
  <2>2. AckSeqNo(p) < AckSeqNo(data[i + j])
    BY <2>1, <1>4 DEF PacketsInOrder
  <2>3. QED
    BY <2>1, <2>2, <1>7, <1>8 DEF AcksBeforePackets
<1>12. AcksAgree'
  <2> DEFINE newest == Back(complete_states, Initial)
  <2>1. newest <= newest' /\ newest \in Nat /\ newest' \in Nat
    <3>1. (SessionInv => Back(complete_states, Initial) \in Nat)'
      BY OrderedTypes, PTL
    <3>2. QED
      BY <1>1, <1>2, <1>3, <3>1, NewestAdvances, OrderedTypes
  <2>2. current_state' \in {Initial, Corrupt, newest'}
    BY DEF ReceiverInv, CurrentIsNewest
  <2>3. \A a \in Range(acks) :
          /\ AckSeqNo(a) \in Nat /\ Newest(a) \in Nat /\ AckSeqNo(a) < AckSeqNo(p)
          /\ Newest(a) <= newest
    BY <1>4, OrderedTypes DEF AcksBeforePackets, AcksAgree
  <2>4. AckSeqNo(p) \in Nat /\ KnownState \in Nat /\ KnownState <= newest
    BY <1>3, SeqNosAreSmall, OrderedTypes DEF NumberedPackets, AcksAgree
  <2> HIDE DEF newest, p
  <2>5. \A a, b \in Range(acks') : AckSeqNo(a) <= AckSeqNo(b) => Newest(a) <= Newest(b)
    <3> SUFFICES ASSUME NEW a \in Range(acks'), NEW b \in Range(acks'), AckSeqNo(a) <= AckSeqNo(b)
                 PROVE  Newest(a) <= Newest(b)
      OBVIOUS
    <3>1. CASE a \in Range(acks) /\ b \in Range(acks)
      BY <3>1 DEF AcksAgree
    <3>2. CASE a \in Range(acks) /\ b = AckFor(p)
      BY <3>2, <1>8, <2>1, <2>3 DEF newest
    <3>3. CASE a = AckFor(p) /\ b \in Range(acks)
      BY <3>3, <1>8, <2>3, <2>4
    <3>4. CASE a = AckFor(p) /\ b = AckFor(p)
      BY <3>4, <1>8, <2>1 DEF newest
    <3>5. QED
      BY <1>7, <3>1, <3>2, <3>3, <3>4
  <2>6. ASSUME NEW a \in Range(acks')
        PROVE  /\ Newer(a) => KnownState <= Newest(a)
               /\ Newest(a) <= newest'
               /\ a.current_state \in {Initial, Corrupt, Newest(a)}
    <3>1. CASE a \in Range(acks)
      <4>1. Newest(a) <= newest'
        BY <3>1, <2>1, <2>3
      <4>2. QED
        BY <3>1, <4>1 DEF AcksAgree
    <3>2. CASE a = AckFor(p)
      BY <3>2, <1>8, <2>1, <2>2, <2>4 DEF newest
    <3>3. QED
      BY <1>7, <3>1, <3>2
  <2>7. KnownState <= newest'
    BY <2>1, <2>4
  <2>8. \A a : Newest(a)' = Newest(a) /\ Newer(a)' = Newer(a)
    BY <1>5, <1>9 DEF Newest, Newer
  <2>9. QED
    BY <1>5, <1>9, <2>5, <2>6, <2>7, <2>8 DEF AcksAgree, newest
<1>13. KnownIsStored' /\ SenderFindsEncoder'
  BY <1>2, <1>9 DEF KnownIsStored, SenderFindsEncoder, Dropped, encoder_vars
<1>14. QED
  BY <1>10, <1>11, <1>12, <1>13

(* An ack that arrives, of this session or not.                            *)
LEMMA OrderedAcks ==
  ASSUME OrderedInv, NumberedInv', NEW a \in AckPacket, a.own => a \in Range(acks),
         ReceiveAck(a), Range(acks') \subseteq Range(acks), UNCHANGED <<receiver_vars, data>>
  PROVE  OrderedInv' /\ KnownState' >= KnownState
<1> USE DEF OrderedInv, NumberedInv, SessionInv
<1>1. UNCHANGED <<sender, encoder_vars, sent_vars, frame_no, Dropped>>
  BY DEF ReceiveAck, sent_vars, encoder_vars, frame_no, Dropped
<1>2. \A b : AckSeqNo(b)' = AckSeqNo(b) /\ Newest(b)' = Newest(b)
  BY <1>1, SeqNosUnchanged DEF Newest
<1>3. \A j \in 1 .. Len(data) : AckSeqNo(data[j])' = AckSeqNo(data[j])
  BY <1>2
<1>4. complete_states' = complete_states /\ data' = data
  BY DEF receiver_vars
<1>5. PacketsInOrder'
  BY <1>3, <1>4 DEF PacketsInOrder
<1>6. SenderFindsEncoder'
  BY <1>1 DEF SenderFindsEncoder
<1>7. CASE AckIsIgnored(a)
  <2>1. UNCHANGED acked_vars
    BY <1>7 DEF ReceiveAck
  <2>2. last_acked' = last_acked /\ receiver_last_acked_state' = receiver_last_acked_state
        /\ KnownState' = KnownState /\ KnownState \in Nat
    BY <2>1, OrderedTypes DEF acked_vars, KnownState
  <2>3. AcksBeforePackets'
    BY <1>2, <1>3, <1>4, <2>2 DEF AcksBeforePackets
  <2>4. AcksAgree'
    BY <1>2, <1>4, <2>2 DEF AcksAgree, Newer
  <2>5. KnownIsStored'
    BY <1>1, <2>2 DEF KnownIsStored
  <2>6. QED
    BY <1>5, <1>6, <2>2, <2>3, <2>4, <2>5
<1>8. CASE ~AckIsIgnored(a)
  <2>1. a \in Range(acks) /\ Newer(a)
    <3>1. a.own /\ ~(last_acked # None /\ AckSeqNo(a) < last_acked)
      BY <1>8 DEF AckIsIgnored
    <3>2. QED
      BY <3>1, OrderedTypes DEF Newer
  <2>2. /\ last_acked' = AckSeqNo(a) /\ receiver_last_acked_state' = a.current_state
        /\ KnownState' = Newest(a)
    BY <1>8 DEF ReceiveAck, KnownState, Newest
  <2>3. KnownState <= Newest(a) /\ KnownState \in Nat /\ Newest(a) \in Nat /\ AckSeqNo(a) \in Nat
    BY <2>1, OrderedTypes DEF AcksAgree
  <2>4. AcksBeforePackets'
    BY <1>2, <1>3, <1>4, <2>1, <2>2 DEF AcksBeforePackets
  <2>5. AcksAgree'
    <3>1. \A b \in Range(acks') : Newer(b)' => AckSeqNo(a) <= AckSeqNo(b)
      BY <1>2, <2>2, <2>3 DEF Newer, None
    <3>2. QED
      BY <1>2, <1>4, <2>1, <2>2, <3>1 DEF AcksAgree
  <2>6. KnownIsStored'
    BY <1>1, <2>2, <2>3 DEF KnownIsStored, SenderNumbers
  <2>7. QED
    BY <1>5, <1>6, <2>2, <2>3, <2>4, <2>5, <2>6
<1>9. QED
  BY <1>7, <1>8

(* Steps that change neither what was sent nor what was received.          *)
LEMMA OrderedUnchanged ==
  ASSUME OrderedInv, NumberedInv', Range(acks') = Range(acks),
         UNCHANGED <<sent_vars, acked_vars, encoder_vars, data, complete_states>>,
         sender' # "out_of_range"
  PROVE  OrderedInv'
<1> USE DEF OrderedInv
<1>1. /\ last_acked' = last_acked /\ receiver_last_acked_state' = receiver_last_acked_state
      /\ KnownState' = KnownState /\ Dropped' = Dropped
  BY DEF acked_vars, KnownState, Dropped, encoder_vars, sent_vars, frame_no
<1>2. \A b : AckSeqNo(b)' = AckSeqNo(b) /\ Newest(b)' = Newest(b) /\ Newer(b)' = Newer(b)
  BY <1>1, SeqNosUnchanged DEF Newest, Newer
<1>3. \A j \in 1 .. Len(data) : AckSeqNo(data[j])' = AckSeqNo(data[j])
  BY <1>2
<1>4. PacketsInOrder' /\ AcksBeforePackets'
  BY <1>1, <1>2, <1>3 DEF PacketsInOrder, AcksBeforePackets
<1>5. AcksAgree'
  BY <1>1, <1>2 DEF AcksAgree
<1>6. KnownIsStored' /\ SenderFindsEncoder'
  BY <1>1 DEF KnownIsStored, SenderFindsEncoder
<1>7. QED
  BY <1>4, <1>5, <1>6

(* Every step keeps the order.                                             *)
LEMMA OrderedNext ==
  ASSUME ~StillPicture, DataLink # "datagram", OrderedInv, [Next]_vars
  PROVE  OrderedInv' /\ KnownState' >= KnownState
<1>1. NumberedInv' /\ SessionInv /\ KnownState \in Nat
  BY NumberedNext, OrderedTypes DEF OrderedInv, NumberedInv
<1>2. CASE SenderStarts
  BY <1>1, <1>2, OrderedStarts, CleanupStopsAtKnown DEF SenderStarts
<1>3. CASE SenderSends
  <2>1. UNCHANGED KnownState
    BY <1>3 DEF SenderSends, SendFrame, acked_vars, KnownState
  <2>2. QED
    BY <1>1, <1>3, <2>1, OrderedSends
<1>4. CASE \E i \in Arrivals(DataLink, data) : DeliverData(i)
  <2>1. UNCHANGED KnownState
    BY <1>4 DEF DeliverData, sender_vars, acked_vars, KnownState
  <2>2. QED
    BY <1>1, <1>4, <2>1, OrderedDelivers
<1>5. CASE \E i \in Arrivals(AckLink, acks) : DeliverAck(i)
  <2> PICK i \in Arrivals(AckLink, acks) : DeliverAck(i)
    BY <1>5
  <2>1. acks \in Seq(SentAcks) /\ AckLink \in Links
    BY <1>1, OrderedTypes, SessionAssumption
  <2>2. /\ acks[i] \in SentAcks /\ acks[i] \in Range(acks)
        /\ Range(acks') \subseteq Range(acks)
    BY <2>1, RemainingIsSent, RemainingWithin DEF DeliverAck
  <2>3. acks[i] \in AckPacket /\ ReceiveAck(acks[i]) /\ UNCHANGED <<receiver_vars, data>>
    BY <2>2 DEF DeliverAck, SentAcks
  <2>4. QED
    BY <1>1, <2>2, <2>3, OrderedAcks
<1>6. CASE DeliverStrayAck
  <2> PICK a \in StrayAcks : ReceiveAck(a)
    BY <1>6 DEF DeliverStrayAck
  <2>1. a \in AckPacket /\ ~a.own /\ UNCHANGED <<receiver_vars, data, acks>>
    BY <1>6, StraysAssumption DEF DeliverStrayAck, network_vars
  <2>2. QED
    BY <1>1, <2>1, OrderedAcks
<1>7. CASE \/ SenderSkips \/ SenderExpires \/ DeliverStrayPacket
           \/ \E i \in DOMAIN data : DuplicateData(i)
           \/ \E i \in DOMAIN acks : DuplicateAck(i)
           \/ UNCHANGED vars
  <2>1. UNCHANGED <<sent_vars, acked_vars, encoder_vars>>
    BY <1>7 DEF SenderSkips, SkipFrame, SenderExpires, ConservativeExpires, DeliverStrayPacket,
       DuplicateData, DuplicateAck, vars, sender_vars
  <2>2. sender' # "out_of_range"
    BY <1>7 DEF OrderedInv, SenderFindsEncoder, SenderSkips, SkipFrame, SenderExpires,
       ConservativeExpires, DeliverStrayPacket, DuplicateData, DuplicateAck, vars, sender_vars
  <2>3. complete_states' = complete_states
    <3>1. CASE DeliverStrayPacket
      <4>1. PICK p \in StrayPackets : HandlePacket(p)
        BY <3>1 DEF DeliverStrayPacket
      <4>2. ~IsAccepted(p)
        BY StraysAssumption DEF IsAccepted, IsMismatched
      <4>3. QED
        BY <4>1, <4>2 DEF HandlePacket, RejectMalformed, IgnoreLate, MissWholeFrame,
           RejectMismatched, Fail, receiver_vars, StoreFragment, ApplyFrame
    <3>2. CASE ~DeliverStrayPacket
      BY <1>7, <3>2 DEF SenderSkips, SenderExpires, DuplicateData, DuplicateAck, vars, receiver_vars
    <3>3. QED
      BY <3>1, <3>2
  <2>4. data' = data
    BY <1>7 DEF SenderSkips, SenderExpires, DeliverStrayPacket, DuplicateData, DuplicateAck,
       vars, network_vars
  <2>5. Range(acks') = Range(acks)
    <3>1. CASE \E i \in DOMAIN acks : DuplicateAck(i)
      <4>1. PICK i \in DOMAIN acks : acks' = Append(acks, acks[i])
        BY <3>1 DEF DuplicateAck
      <4>2. acks \in Seq(SentAcks) /\ DOMAIN acks = 1 .. Len(acks)
        BY <1>1, OrderedTypes, LenProperties
      <4>3. acks[i] \in SentAcks /\ acks[i] \in Range(acks)
        BY <4>2, ElementsOf, ElementOfSeq
      <4>4. Range(Append(acks, acks[i])) = Range(acks) \cup {acks[i]}
        BY <4>2, <4>3, PushBack
      <4>5. QED
        BY <4>1, <4>3, <4>4
    <3>2. CASE ~\E i \in DOMAIN acks : DuplicateAck(i)
      BY <1>7, <3>2 DEF SenderSkips, SenderExpires, DeliverStrayPacket, DuplicateData, vars, network_vars
    <3>3. QED
      BY <3>1, <3>2
  <2>6. UNCHANGED KnownState
    BY <2>1 DEF acked_vars, KnownState
  <2>7. QED
    BY <1>1, <2>1, <2>2, <2>3, <2>4, <2>5, <2>6, OrderedUnchanged
<1>8. QED
  BY <1>2, <1>3, <1>4, <1>5, <1>6, <1>7 DEF Next

(* OrderedInv is an inductive invariant of a session whose frames all end  *)
(* in new states and whose packets arrive in the order they were sent, or  *)
(* not at all.                                                             *)
THEOREM OrderedInvariant ==
  ASSUME ~StillPicture, DataLink # "datagram"
  PROVE  Spec => []OrderedInv
<1>1. Init => OrderedInv
  BY OrderedInitially
<1>2. OrderedInv /\ [Next]_vars => OrderedInv'
  BY OrderedNext
<1>3. QED
  BY <1>1, <1>2, PTL DEF Spec

(* encoders.at finds the encoder of the state the receiver is known to     *)
(* have: the cleanup pops no state beyond it, whatever happens to the acks.*)
THEOREM SenderFindsItsEncoder ==
  ASSUME ~StillPicture, DataLink # "datagram"
  PROVE  Spec => []SenderFindsEncoder
<1>1. OrderedInv => SenderFindsEncoder
  BY DEF OrderedInv
<1>2. QED
  BY <1>1, OrderedInvariant, PTL

(* What the receiver is known to have never goes back, although acks are   *)
(* lost, reordered and duplicated: the sequence number tells which is newer*)
(* and a newer ack lists a newer state.                                    *)
THEOREM AcksOnlyAdvance ==
  ASSUME ~StillPicture, DataLink # "datagram"
  PROVE  Spec => AcksNeverGoBack
<1>1. OrderedInv /\ [Next]_vars => [KnownState' >= KnownState]_vars
  BY OrderedNext
<1>2. QED
  BY <1>1, OrderedInvariant, PTL DEF Spec, AcksNeverGoBack
=============================================================================
