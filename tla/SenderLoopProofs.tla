-------------------------- MODULE SenderLoopProofs --------------------------
(***************************************************************************)
(* The sender's event loop, for any number of frames, fragments, buffers   *)
(* and pictures, any clock and any pacing.                                 *)
(*   - The encode pipeline needs no lock: the token that goes round between*)
(*     the event loop and the encode thread protects what they share.      *)
(*   - The pacer: packets leave in order, none before it is due, and the   *)
(*     loop never asks to be woken at once for a packet that is not.       *)
(*   - The camera: the encoder gets each picture once, in order.           *)
(***************************************************************************)
EXTENDS SenderLoop, TLAPS

(* What the encode thread and the callbacks share has its type.            *)
SharedTypeOK ==
  /\ operation_mode \in OperationMode
  /\ encode_start_pipe \in 0 .. 1
  /\ encode_end_pipe \in 0 .. 1
  /\ encode_jobs \in 0 .. 2
  /\ encode_outputs \in Seq(FutureState)
  /\ worker \in {"none", "launch", "wait"}
  /\ pc \in {"poll_timeout", "interest", "polling", "callbacks", "camera"}
  /\ revents \subseteq Actions \cup {"error"}

(* Each place of the token says what the jobs and the outputs are.         *)
TokenMeans ==
  /\ encode_start_pipe = 1 => encode_jobs = 0
  /\ pc = "camera" => encode_jobs = 0
  /\ worker = "launch" => encode_jobs > 0
  /\ worker = "wait" => Len(encode_outputs) = encode_jobs /\ encode_jobs > 0
  /\ encode_end_pipe = 1 =>
       /\ Len(encode_outputs) = encode_jobs /\ encode_jobs > 0
       /\ \A i \in DOMAIN encode_outputs : encode_outputs[i] = "done"
  /\ worker # "wait" =>
       \A i \in DOMAIN encode_outputs : encode_outputs[i] \in {"done", "taken"}
  /\ worker = "wait" =>
       \A i \in DOMAIN encode_outputs : encode_outputs[i] # "taken"

(* A callback that is due finds its datagram.                              *)
ReadyStays ==
  /\ Running /\ pc = "callbacks" /\ "encoded" \in revents => encode_end_pipe = 1
  /\ Running /\ pc = "camera" => "encoded" \notin revents

(* The inductive invariant of the token.                                   *)
LoopInv == SharedTypeOK /\ OneToken /\ TokenMeans /\ ReadyStays

sharedVars == <<pc, revents, pipelineVars>>

-----------------------------------------------------------------------------
(* A function on 1 .. n with values in a set is a sequence of length n.    *)
LEMMA IsSequence ==
  ASSUME NEW S, NEW n \in Nat, NEW f \in [1 .. n -> S]
  PROVE  f \in Seq(S) /\ Len(f) = n /\ DOMAIN f = 1 .. n
OBVIOUS

(* A sequence is the function of its elements.                             *)
LEMMA SequenceIsFunction ==
  ASSUME NEW S, NEW s \in Seq(S)
  PROVE  Len(s) \in Nat /\ DOMAIN s = 1 .. Len(s) /\ s \in [1 .. Len(s) -> S]
OBVIOUS

(* The token starts with the event loop.                                   *)
LEMMA LoopInvInitially ==
  ASSUME LoopInit
  PROVE  LoopInv
BY DEF LoopInit, PipelineInit, LoopInv, SharedTypeOK, OneToken, TokenMeans, ReadyStays, Running, FutureState

(* Steps that leave the shared state alone keep the invariant.             *)
LEMMA LoopInvUnchanged ==
  ASSUME LoopInv, UNCHANGED sharedVars, Running' => Running
  PROVE  LoopInv'
BY DEF sharedVars, pipelineVars, LoopInv, SharedTypeOK, OneToken, TokenMeans, ReadyStays, Running

-----------------------------------------------------------------------------
(* The encode thread.                                                      *)

(* Each action of the encode thread and of the event loop keeps it.        *)
LEMMA WorkerLaunchesPreserves ==
  ASSUME LoopInv, WorkerLaunches, UNCHANGED <<pc, revents, outcome>>
  PROVE  LoopInv'
<1> DEFINE started == [i \in 1 .. encode_jobs |-> IF operation_mode = "s2" THEN "running" ELSE "deferred"]
<1> USE DEF LoopInv, SharedTypeOK, WorkerLaunches
<1>1. started \in [1 .. encode_jobs -> {"running", "deferred"}]
  OBVIOUS
<1>2. encode_jobs \in Nat /\ encode_jobs > 0
  BY DEF TokenMeans
<1>3. /\ started \in Seq({"running", "deferred"})
      /\ Len(started) = encode_jobs /\ DOMAIN started = 1 .. encode_jobs
  BY <1>1, <1>2, IsSequence
<1>4. started \in Seq(FutureState)
  BY <1>2, IsSequence DEF FutureState
<1>5. encode_outputs' = started
  OBVIOUS
<1> HIDE DEF started
<1>6. \A i \in DOMAIN started : started[i] \in {"running", "deferred"}
  BY <1>1, <1>3
<1>7. SharedTypeOK'
  BY <1>4, <1>5
<1>8. OneToken' /\ encode_start_pipe = 0 /\ encode_end_pipe = 0 /\ pc # "camera"
  BY DEF OneToken
<1>9. TokenMeans'
  BY <1>2, <1>3, <1>5, <1>6, <1>8 DEF TokenMeans
<1>10. QED
  BY <1>7, <1>8, <1>9 DEF ReadyStays, Running

LEMMA JobStepPreserves ==
  ASSUME LoopInv, JobStep, UNCHANGED <<pc, revents, outcome>>
  PROVE  LoopInv'
<1> USE DEF LoopInv, SharedTypeOK
<1>1. PICK i \in DOMAIN encode_outputs : JobEnds(i)
  BY DEF JobStep
<1>2. worker = "wait"
  BY <1>1 DEF JobEnds, TokenMeans
<1>3. encode_outputs' = [encode_outputs EXCEPT ![i] = "done"]
  BY <1>1 DEF JobEnds
<1>4. encode_outputs \in [1 .. Len(encode_outputs) -> FutureState] /\ Len(encode_outputs) \in Nat
      /\ DOMAIN encode_outputs = 1 .. Len(encode_outputs)
  BY SequenceIsFunction
<1>5. encode_outputs' \in [1 .. Len(encode_outputs) -> FutureState]
  BY <1>3, <1>4 DEF FutureState
<1>6. /\ encode_outputs' \in Seq(FutureState) /\ Len(encode_outputs') = Len(encode_outputs)
      /\ DOMAIN encode_outputs' = DOMAIN encode_outputs
  BY <1>4, <1>5, IsSequence
<1>7. \A j \in DOMAIN encode_outputs' : encode_outputs'[j] # "taken"
  BY <1>2, <1>3, <1>4, <1>6 DEF TokenMeans
<1>8. UNCHANGED <<operation_mode, encode_start_pipe, encode_end_pipe, encode_jobs, worker>>
  BY <1>1 DEF JobEnds
<1>9. OneToken' /\ encode_end_pipe = 0
  BY <1>2, <1>8 DEF OneToken
<1>10. TokenMeans'
  BY <1>2, <1>6, <1>7, <1>8, <1>9 DEF TokenMeans
<1>11. QED
  BY <1>6, <1>8, <1>9, <1>10 DEF ReadyStays, Running

LEMMA WorkerWritesPreserves ==
  ASSUME LoopInv, WorkerWrites, UNCHANGED <<pc, revents, outcome>>
  PROVE  LoopInv'
<1> USE DEF LoopInv, SharedTypeOK, WorkerWrites, AllWaited
<1>1. encode_start_pipe = 0 /\ encode_end_pipe = 0 /\ pc # "camera"
  BY DEF OneToken
<1>2. OneToken' /\ SharedTypeOK'
  BY <1>1 DEF OneToken
<1>3. TokenMeans'
  BY <1>1 DEF TokenMeans
<1>4. QED
  BY <1>1, <1>2, <1>3 DEF ReadyStays, Running
-----------------------------------------------------------------------------
(* The main thread.                                                        *)

LEMMA PollReturnsPreserves ==
  ASSUME LoopInv, PollReturns
  PROVE  LoopInv'
<1> USE DEF LoopInv, PollReturns
<1>1. "encoded" \in ReadyActions => encode_end_pipe > 0
  BY DEF ReadyActions, Ready
<1>2. revents' \subseteq Actions \cup {"error"}
  BY DEF ReadyActions, Ready, Actions
<1>3. encode_end_pipe > 0 => encode_end_pipe = 1
  BY DEF SharedTypeOK
<1>4. QED
  BY <1>1, <1>2, <1>3 DEF SharedTypeOK, OneToken, TokenMeans, ReadyStays, Running, pipelineVars

LEMMA FetchBeginsPreserves ==
  ASSUME LoopInv, FetchBegins
  PROVE  LoopInv'
<1> USE DEF LoopInv, FetchBegins, Calls, ReadStartPipe
<1>1. encode_start_pipe = 1 /\ encode_end_pipe = 0 /\ worker = "none" /\ pc # "camera"
  BY DEF SharedTypeOK, OneToken
<1>2. SharedTypeOK'
  BY <1>1 DEF SharedTypeOK
<1>3. OneToken'
  BY <1>1, <1>2 DEF OneToken
<1>4. TokenMeans'
  BY <1>1 DEF TokenMeans
<1>5. QED
  BY <1>1, <1>2, <1>3, <1>4 DEF ReadyStays, Running

LEMMA FetchEndsPreserves ==
  ASSUME LoopInv, FetchEnds
  PROVE  LoopInv'
<1> USE DEF LoopInv, FetchEnds, StartJobs, Returns
<1>1. encode_start_pipe = 0 /\ encode_end_pipe = 0 /\ worker = "none" /\ encode_jobs = 0
  BY DEF SharedTypeOK, OneToken, TokenMeans
<1>2. encode_jobs' \in 1 .. 2 /\ worker' = "launch" /\ UNCHANGED <<encode_start_pipe, encode_end_pipe, encode_outputs>>
  BY <1>1
<1>3. pc' \in {"poll_timeout", "callbacks"} /\ revents' \subseteq revents
  OBVIOUS
<1>4. SharedTypeOK'
  BY <1>2, <1>3 DEF SharedTypeOK
<1>5. OneToken'
  BY <1>1, <1>2, <1>3 DEF OneToken
<1>6. TokenMeans'
  BY <1>1, <1>2, <1>3 DEF TokenMeans
<1>7. QED
  BY <1>3, <1>4, <1>5, <1>6 DEF ReadyStays, Running

(* Whether it sends, skips or throws, the callback gives the token back.   *)
LEMMA CollectPreserves ==
  ASSUME LoopInv, Calls("encoded"), NEW sends, NEW k \in Nat, CollectOutputs(sends, k),
         pc' \in {"poll_timeout", "callbacks"}, revents' \subseteq revents,
         Running' => "encoded" \notin revents'
  PROVE  LoopInv'
<1> USE DEF LoopInv, CollectOutputs, TokensReturned
<1>1. encode_end_pipe = 1 /\ encode_start_pipe = 0 /\ worker = "none" /\ pc # "camera"
  BY DEF SharedTypeOK, OneToken
<1>2. /\ encode_outputs \in [1 .. Len(encode_outputs) -> FutureState] /\ Len(encode_outputs) \in Nat
      /\ DOMAIN encode_outputs = 1 .. Len(encode_outputs)
  BY SequenceIsFunction DEF SharedTypeOK
<1>3. encode_outputs' \in [1 .. Len(encode_outputs) -> {"done", "taken"}]
  BY <1>1, <1>2 DEF TokenMeans
<1>4. encode_outputs' \in Seq({"done", "taken"}) /\ DOMAIN encode_outputs' = 1 .. Len(encode_outputs)
  BY <1>2, <1>3, IsSequence
<1>5. encode_outputs' \in Seq(FutureState)
  BY <1>4 DEF FutureState
<1>6. encode_end_pipe' = 0 /\ encode_start_pipe' = 1 /\ encode_jobs' = 0 /\ worker' = "none"
      /\ operation_mode' = operation_mode
  BY <1>1
<1>7. SharedTypeOK' /\ OneToken'
  BY <1>5, <1>6 DEF SharedTypeOK, OneToken
<1>8. \A i \in DOMAIN encode_outputs' : encode_outputs'[i] \in {"done", "taken"}
  BY <1>3, <1>4
<1>9. TokenMeans'
  BY <1>6, <1>8 DEF TokenMeans
<1>10. QED
  BY <1>7, <1>9 DEF ReadyStays, Running

LEMMA EncodedPreserves ==
  ASSUME LoopInv, EncodedThrows \/ \E n \in 0 .. MaxFragments, delay \in Delays : EncodedSends(n, delay)
  PROVE  LoopInv'
<1>1. CASE EncodedThrows
  <2>1. PICK k \in DOMAIN encode_outputs : CollectOutputs(FALSE, k)
    BY <1>1 DEF EncodedThrows
  <2>2. k \in Nat
    BY SequenceIsFunction DEF LoopInv, SharedTypeOK
  <2>3. Calls("encoded") /\ pc' = "callbacks" /\ UNCHANGED revents /\ ~Running'
    BY <1>1 DEF EncodedThrows, Calls, Running
  <2>4. QED
    BY <2>1, <2>2, <2>3, CollectPreserves
<1>2. ASSUME NEW n \in 0 .. MaxFragments, NEW delay \in Delays, EncodedSends(n, delay)
      PROVE  LoopInv'
  <2>1. Calls("encoded") /\ CollectOutputs(n > 0, 0)
    BY <1>2 DEF EncodedSends
  <2>2. /\ pc' \in {"poll_timeout", "callbacks"} /\ revents' \subseteq revents
        /\ "encoded" \notin revents'
    BY <1>2 DEF EncodedSends, Returns
  <2>3. QED
    BY <2>1, <2>2, CollectPreserves
<1>3. QED
  BY <1>1, <1>2

(* So every step keeps it.                                                 *)
LEMMA LoopInvIsInductive ==
  ASSUME LoopInv, [LoopNext]_loopVars
  PROVE  LoopInv'
<1> USE DEF sharedVars, pipelineVars, pollVars, Running
<1>1. CASE ComputeTimeout
  <2>1. SharedTypeOK' /\ OneToken' /\ TokenMeans' /\ ReadyStays'
    BY <1>1 DEF ComputeTimeout, LoopInv, SharedTypeOK, OneToken, TokenMeans, ReadyStays
  <2>2. QED
    BY <2>1 DEF LoopInv
<1>2. CASE AskInterest
  <2>1. SharedTypeOK' /\ OneToken' /\ TokenMeans' /\ ReadyStays'
    BY <1>2 DEF AskInterest, LoopInv, SharedTypeOK, OneToken, TokenMeans, ReadyStays
  <2>2. QED
    BY <2>1 DEF LoopInv
<1>3. CASE PollReturns
  BY <1>3, PollReturnsPreserves
<1>4. CASE PollTimesOut
  <2>1. SharedTypeOK' /\ OneToken' /\ TokenMeans' /\ ReadyStays'
    BY <1>4 DEF PollTimesOut, LoopInv, SharedTypeOK, OneToken, TokenMeans, ReadyStays
  <2>2. QED
    BY <2>1 DEF LoopInv
<1>5. CASE ConnectionError
  BY <1>5, LoopInvUnchanged DEF ConnectionError
<1>6. CASE FetchBegins
  BY <1>6, FetchBeginsPreserves
<1>7. CASE FetchEnds
  BY <1>7, FetchEndsPreserves
<1>8. CASE EncodedThrows \/ \E n \in 0 .. MaxFragments, delay \in Delays : EncodedSends(n, delay)
  BY <1>8, EncodedPreserves
<1>9. CASE ReadAck
  <2>1. pc = "callbacks" /\ pc' \in {"poll_timeout", "callbacks"} /\ revents' \subseteq revents
        /\ UNCHANGED pipelineVars /\ Running
    BY <1>9 DEF ReadAck, Returns, Calls
  <2>2. SharedTypeOK' /\ OneToken' /\ TokenMeans' /\ ReadyStays'
    BY <2>1 DEF LoopInv, SharedTypeOK, OneToken, TokenMeans, ReadyStays
  <2>3. QED
    BY <2>2 DEF LoopInv
<1>10. CASE SendDue
  <2>1. pc = "callbacks" /\ pc' \in {"poll_timeout", "callbacks"} /\ revents' \subseteq revents
        /\ UNCHANGED pipelineVars /\ Running
    BY <1>10 DEF SendDue, Returns, Calls
  <2>2. SharedTypeOK' /\ OneToken' /\ TokenMeans' /\ ReadyStays'
    BY <2>1 DEF LoopInv, SharedTypeOK, OneToken, TokenMeans, ReadyStays
  <2>3. QED
    BY <2>2 DEF LoopInv
<1>11. CASE EncodeThread
  <2>1. UNCHANGED <<pc, revents, outcome>> /\ (WorkerLaunches \/ WorkerWrites \/ JobStep)
    BY <1>11 DEF EncodeThread, WorkerStep
  <2>2. QED
    BY <2>1, WorkerLaunchesPreserves, WorkerWritesPreserves, JobStepPreserves
<1>12. CASE Environment
  <2>1. UNCHANGED <<pc, revents, outcome, pipelineVars>>
    BY <1>12 DEF Environment, CameraDriver, Tick, AckArrives, PortUnreachable
  <2>2. QED
    BY <2>1, LoopInvUnchanged
<1>13. CASE UNCHANGED loopVars
  BY <1>13, LoopInvUnchanged DEF loopVars
<1>14. QED
  BY <1>1, <1>2, <1>3, <1>4, <1>5, <1>6, <1>7, <1>8, <1>9, <1>10, <1>11, <1>12, <1>13
  DEF LoopNext, MainThread

(* At any time the token is in one place, the jobs and the outputs are as  *)
(* that place says, and a callback that is due finds the datagram it reads.*)
THEOREM LoopInvHolds == LoopSpec => []LoopInv
BY LoopInvInitially, LoopInvIsInductive, PTL DEF LoopSpec

-----------------------------------------------------------------------------
(* One token goes round between the socket pairs, the camera callback and  *)
(* the encode thread, whatever the callbacks do in between.                *)
THEOREM OneTokenHolds == LoopSpec => []OneToken
<1>1. LoopInv => OneToken
  BY DEF LoopInv
<1>2. QED
  BY <1>1, LoopInvHolds, PTL

(* The main thread and the encode thread never use the jobs at once, and   *)
(* the callback that collects the outputs finds every job done.            *)
THEOREM JobsAreHandedOverHolds == LoopSpec => []JobsAreHandedOver
<1>1. LoopInv => NoRaceOnJobs
  BY DEF LoopInv, SharedTypeOK, OneToken, TokenMeans, NoRaceOnJobs
<1>2. LoopInv => CollectsWhatIsDone
  <2> SUFFICES ASSUME LoopInv, Calls("encoded") PROVE CollectsWhatIsDone
    BY DEF CollectsWhatIsDone
  <2>1. encode_end_pipe = 1
    BY DEF LoopInv, ReadyStays, Calls
  <2>2. worker = "none"
    BY <2>1 DEF LoopInv, SharedTypeOK, OneToken
  <2>3. QED
    BY <2>1, <2>2 DEF LoopInv, TokenMeans, CollectsWhatIsDone
<1>3. LoopInv => JobsAreHandedOver
  BY <1>1, <1>2 DEF JobsAreHandedOver
<1>4. QED
  BY <1>3, LoopInvHolds, PTL

-----------------------------------------------------------------------------
(***************************************************************************)
(* The packets.                                                            *)
(***************************************************************************)

(* A packet of the pacer: the time it is due, and its number.              *)
Packet == [when : Int, what : Nat]

(* The queue of the pacer holds the packets pushed and not yet sent.       *)
PacketInv ==
  /\ queue \in Seq(Packet)
  /\ pushed \in Nat /\ sent \in Nat
  /\ PacketsInOrder

(* r is the queue q followed by n packets of consecutive numbers.          *)
Appends(r, q, first, n) ==
  /\ r \in Seq(Packet)
  /\ Len(r) = Len(q) + n
  /\ \A i \in 1 .. Len(q) : r[i] = q[i]
  /\ \A i \in 1 .. n : r[Len(q) + i].what = first + i - 1

(* What PushAll appends: n packets with consecutive numbers.               *)
LEMMA PushAllAppends ==
  ASSUME NEW q \in Seq(Packet), NEW first \in Nat, NEW n \in Nat, NEW delay \in Nat
  PROVE  Appends(PushAll(q, first, n, delay), q, first, n)
<1> DEFINE new == [i \in 1 .. n |-> [when |-> Scheduled(q, i, delay), what |-> first + i - 1]]
<1>1. \A i \in 1 .. n : Scheduled(q, i, delay) \in Int
  <2> TAKE i \in 1 .. n
  <2>1. CASE q = << >>
    <3>1. (i - 1) * delay \in Int
      OBVIOUS
    <3>2. QED
      BY <2>1, <3>1 DEF Scheduled
  <2>2. CASE q # << >>
    <3>1. Len(q) \in 1 .. Len(q) /\ q[Len(q)] \in Packet
      BY <2>2
    <3>2. Last(q).when \in Int /\ i * delay \in Int
      BY <3>1 DEF Last, Packet
    <3>3. QED
      BY <2>2, <3>2 DEF Scheduled
  <2>3. QED
    BY <2>1, <2>2
<1>2. new \in [1 .. n -> Packet]
  BY <1>1 DEF Packet
<1>3. new \in Seq(Packet) /\ Len(new) = n
  BY <1>2, IsSequence
<1>4. \A i \in 1 .. n : new[i].what = first + i - 1
  OBVIOUS
<1>5. PushAll(q, first, n, delay) = q \o new
  BY DEF PushAll
<1> HIDE DEF new
<1>6. q \o new \in Seq(Packet) /\ Len(q \o new) = Len(q) + n
  BY <1>3
<1>7. \A i \in 1 .. Len(q) : (q \o new)[i] = q[i]
  BY <1>3
<1>8. \A i \in 1 .. n : (q \o new)[Len(q) + i] = new[i]
  BY <1>3
<1>9. QED
  BY <1>4, <1>5, <1>6, <1>7, <1>8 DEF Appends

(* The queue is empty at first.                                            *)
LEMMA PacketInvInitially ==
  ASSUME LoopInit
  PROVE  PacketInv
BY DEF LoopInit, PacketInv, PacketsInOrder

(* The packets of a frame join the queue in order, SendDue takes them off  *)
(* its front, and the clock and the other actions leave it as it is.       *)
LEMMA EncodedKeepsOrder ==
  ASSUME PacketInv, NEW n \in 0 .. MaxFragments, NEW delay \in Delays, EncodedSends(n, delay)
  PROVE  PacketInv'
<1>1. n \in Nat /\ delay \in Nat /\ pushed + 1 \in Nat
  BY LoopAssumption DEF PacketInv
<1>2. queue' = PushAll(queue, pushed + 1, n, delay) /\ pushed' = pushed + n /\ sent' = sent
  BY DEF EncodedSends
<1>3. /\ queue' \in Seq(Packet) /\ Len(queue') = Len(queue) + n
      /\ \A i \in 1 .. Len(queue) : queue'[i] = queue[i]
      /\ \A i \in 1 .. n : queue'[Len(queue) + i].what = pushed + 1 + i - 1
  <2>1. queue \in Seq(Packet)
    BY DEF PacketInv
  <2>2. Appends(PushAll(queue, pushed + 1, n, delay), queue, pushed + 1, n)
    BY <1>1, <2>1, PushAllAppends
  <2>3. Appends(queue', queue, pushed + 1, n)
    BY <1>2, <2>2
  <2>4. QED
    BY <2>3 DEF Appends
<1>4. Len(queue) \in Nat /\ Len(queue) = pushed - sent /\ DOMAIN queue' = 1 .. Len(queue) + n
      /\ DOMAIN queue = 1 .. Len(queue) /\ pushed \in Nat /\ sent \in Nat
  BY <1>3 DEF PacketInv, PacketsInOrder
<1>5. ASSUME NEW i \in DOMAIN queue' PROVE queue'[i].what = sent' + i
  <2>1. CASE i <= Len(queue)
    <3>1. queue'[i] = queue[i] /\ queue[i].what = sent + i
      BY <1>3, <1>4, <2>1 DEF PacketInv, PacketsInOrder
    <3>2. QED
      BY <1>2, <3>1
  <2>2. CASE i > Len(queue)
    <3>1. i - Len(queue) \in 1 .. n /\ Len(queue) + (i - Len(queue)) = i
      BY <1>1, <1>4, <2>2
    <3>2. queue'[Len(queue) + (i - Len(queue))].what = pushed + 1 + (i - Len(queue)) - 1
      BY <1>3, <3>1
    <3>3. pushed + 1 + (i - Len(queue)) - 1 = sent + i
      BY <1>4, <3>1
    <3>4. QED
      BY <1>2, <3>1, <3>2, <3>3
  <2>3. QED
    BY <1>4, <2>1, <2>2
<1>6. QED
  BY <1>1, <1>2, <1>3, <1>4, <1>5 DEF PacketInv, PacketsInOrder

LEMMA SendKeepsOrder ==
  ASSUME PacketInv, SendDue
  PROVE  PacketInv'
<1>1. PICK k \in 0 .. Len(queue) : queue' = SubSeq(queue, k + 1, Len(queue)) /\ sent' = sent + k
  BY DEF SendDue
<1>2. pushed' = pushed
  BY DEF SendDue
<1>3. /\ queue' \in Seq(Packet) /\ Len(queue') = Len(queue) - k
      /\ \A i \in 1 .. Len(queue') : queue'[i] = queue[k + i]
  BY <1>1 DEF PacketInv
<1>4. QED
  BY <1>1, <1>2, <1>3 DEF PacketInv, PacketsInOrder

LEMMA TickKeepsOrder ==
  ASSUME PacketInv, Tick
  PROVE  PacketInv'
<1>1. queue' = Elapsed(queue) /\ UNCHANGED <<pushed, sent>>
  BY DEF Tick
<1>2. Len(queue) \in Nat /\ DOMAIN queue = 1 .. Len(queue) /\ \A i \in DOMAIN queue : queue[i] \in Packet
  BY DEF PacketInv
<1>3. ASSUME NEW i \in DOMAIN queue
      PROVE  queue'[i] \in Packet /\ queue'[i].what = queue[i].what
  <2>1. queue[i] \in Packet /\ queue'[i] = [queue[i] EXCEPT !.when = Elapse(queue[i].when)]
    BY <1>1, <1>2 DEF Elapsed
  <2>2. Elapse(queue[i].when) \in Int
    BY <2>1 DEF Elapse, Packet
  <2> HIDE DEF Elapse
  <2>3. QED
    BY <2>1, <2>2 DEF Packet
<1>4. queue' \in [1 .. Len(queue) -> Packet]
  <2>1. queue' = [i \in 1 .. Len(queue) |-> queue'[i]]
    BY <1>1, <1>2 DEF Elapsed
  <2>2. QED
    BY <1>2, <1>3, <2>1
<1>5. queue' \in Seq(Packet) /\ Len(queue') = Len(queue) /\ DOMAIN queue' = DOMAIN queue
  BY <1>2, <1>4, IsSequence
<1>6. QED
  BY <1>1, <1>2, <1>3, <1>5 DEF PacketInv, PacketsInOrder

LEMMA OthersKeepOrder ==
  ASSUME PacketInv, UNCHANGED <<queue, pushed, sent>>
  PROVE  PacketInv'
BY DEF PacketInv, PacketsInOrder

(* Every packet that is pushed waits or has left, in order and once.       *)
THEOREM PacketsInOrderHolds == LoopSpec => []PacketsInOrder
<1>1. ASSUME PacketInv, [LoopNext]_loopVars PROVE PacketInv'
  <2>1. CASE \E n \in 0 .. MaxFragments, delay \in Delays : EncodedSends(n, delay)
    BY <1>1, <2>1, EncodedKeepsOrder
  <2>2. CASE SendDue
    BY <1>1, <2>2, SendKeepsOrder
  <2>3. CASE Tick
    BY <1>1, <2>3, TickKeepsOrder
  <2>4. CASE ComputeTimeout \/ AskInterest \/ PollReturns \/ PollTimesOut \/ ConnectionError
             \/ FetchBegins \/ FetchEnds \/ EncodedThrows \/ ReadAck
    BY <1>1, <2>4, OthersKeepOrder DEF ComputeTimeout, AskInterest, PollReturns, PollTimesOut,
       ConnectionError, FetchBegins, FetchEnds, EncodedThrows, ReadAck, sendVars
  <2>5. CASE EncodeThread \/ CameraDriver \/ AckArrives \/ PortUnreachable \/ UNCHANGED loopVars
    BY <1>1, <2>5, OthersKeepOrder DEF EncodeThread, CameraDriver, AckArrives, PortUnreachable,
       loopVars, sendVars
  <2>6. QED
    BY <1>1, <2>1, <2>2, <2>3, <2>4, <2>5 DEF LoopNext, MainThread, Environment
<1>2. PacketInv => PacketsInOrder
  BY DEF PacketInv
<1>3. QED
  BY <1>1, <1>2, PacketInvInitially, PTL DEF LoopSpec

-----------------------------------------------------------------------------
(***************************************************************************)
(* The packets are due when they leave.                                    *)
(***************************************************************************)

(* The number of whole milliseconds is 0 for less than one, and only then. *)
LEMMA LessThanAMillisecond ==
  ASSUME NEW when \in Int
  PROVE  /\ Milliseconds(when) \in Int
         /\ when >= 0 => Milliseconds(when) >= 0
         /\ when >= 0 => (Milliseconds(when) = 0 <=> when < Millisecond)
<1>1. Millisecond \in Nat /\ Millisecond > 0
  BY PacerAssumption
<1>2. ASSUME NEW t \in Nat
      PROVE  t \div Millisecond \in Nat /\ (t \div Millisecond = 0 <=> t < Millisecond)
  <2>1. Millisecond \in Int /\ t \in Int /\ t >= 0
    BY <1>1
  <2>2. t \div Millisecond \in Int /\ t \div Millisecond >= 0
    BY <1>1, <2>1
  <2>3. t < Millisecond => t \div Millisecond = 0
    BY <1>1, <2>1
  <2>4. t \div Millisecond = 0 => t < Millisecond
    BY <1>1, <2>1
  <2> QED
    BY <2>2, <2>3, <2>4
<1>3. QED
  BY <1>1, <1>2 DEF Milliseconds

(* A packet is due if its time comes in less than a millisecond.           *)
LEMMA DueMeans ==
  ASSUME NEW q \in Seq(Packet)
  PROVE  /\ MsUntilDue(q) \in Nat
         /\ MsUntilDue(q) = 0 <=> q # << >> /\ q[1].when < Millisecond
<1>1. CASE q = << >>
  BY <1>1, PacerAssumption DEF MsUntilDue
<1>2. CASE q # << >>
  <2>1. Head(q) = q[1] /\ q[1] \in Packet /\ q[1].when \in Int
    <3>1. Head(q) = q[1] /\ 1 \in 1 .. Len(q)
      BY <1>2
    <3>2. q[1] \in Packet
      BY <3>1
    <3>3. QED
      BY <3>1, <3>2 DEF Packet
  <2>2. MsUntilDue(q) = IF q[1].when < 0 THEN 0 ELSE Milliseconds(q[1].when)
    BY <1>2, <2>1 DEF MsUntilDue
  <2>3. Millisecond \in Nat /\ Millisecond > 0
    BY PacerAssumption
  <2> DEFINE w == q[1].when
  <2> HIDE DEF w
  <2>4. w \in Int /\ MsUntilDue(q) = IF w < 0 THEN 0 ELSE Milliseconds(w)
    BY <2>1, <2>2 DEF w
  <2>5. /\ Milliseconds(w) \in Int
        /\ w >= 0 => Milliseconds(w) >= 0
        /\ w >= 0 => (Milliseconds(w) = 0 <=> w < Millisecond)
    BY <2>4, LessThanAMillisecond
  <2>6. MsUntilDue(q) \in Nat /\ (MsUntilDue(q) = 0 <=> w < Millisecond)
    BY <2>3, <2>4, <2>5
  <2>7. QED
    BY <1>2, <2>6 DEF w
<1>3. QED
  BY <1>1, <1>2

(* What the loop found due when it asked stays so until it is sent: the    *)
(* callbacks that run first only push behind it, and time only passes.     *)
DueStays ==
  /\ pc = "polling" /\ "send" \in events => IsDue
  /\ "send" \in revents => IsDue

(* The inductive invariant of the pacer.                                   *)
SendInv == PacketInv /\ DueStays /\ NeverBusyWaits

(* A queue whose front packet is the same, or earlier, is still due.       *)
LEMMA EarlierIsDue ==
  ASSUME NEW q \in Seq(Packet), NEW r \in Seq(Packet), MsUntilDue(q) = 0,
         r # << >>, r[1].when <= q[1].when
  PROVE  MsUntilDue(r) = 0
<1>1. q # << >> /\ q[1].when < Millisecond
  BY DueMeans
<1>2. q[1] \in Packet /\ r[1] \in Packet
  BY <1>1
<1>3. q[1].when \in Int /\ r[1].when \in Int /\ Millisecond \in Int
  BY <1>2, PacerAssumption DEF Packet
<1>4. r[1].when < Millisecond
  BY <1>1, <1>3
<1>5. QED
  BY <1>4, DueMeans

(* Packets pushed go behind those that wait.                               *)
LEMMA PushedBehindIsDue ==
  ASSUME NEW q \in Seq(Packet), NEW first \in Nat, NEW n \in Nat, NEW delay \in Nat,
         MsUntilDue(q) = 0
  PROVE  MsUntilDue(PushAll(q, first, n, delay)) = 0
<1> DEFINE r == PushAll(q, first, n, delay)
<1>1. Appends(r, q, first, n)
  BY PushAllAppends
<1> HIDE DEF r
<1>2. r \in Seq(Packet) /\ Len(r) = Len(q) + n /\ \A i \in 1 .. Len(q) : r[i] = q[i]
  BY <1>1 DEF Appends
<1>3. q # << >>
  BY DueMeans
<1>4. Len(q) >= 1 /\ 1 \in 1 .. Len(q)
  BY <1>3
<1>5. r[1] = q[1] /\ r # << >>
  BY <1>2, <1>4
<1>6. q[1].when \in Int
  <2>1. q[1] \in Packet
    BY <1>4
  <2>2. QED
    BY <2>1 DEF Packet
<1>7. r[1].when <= q[1].when
  BY <1>5, <1>6
<1>8. MsUntilDue(r) = 0
  BY <1>2, <1>5, <1>7, EarlierIsDue
<1>9. QED
  BY <1>8 DEF r

(* A tick makes no packet later.                                           *)
LEMMA ElapsedIsDue ==
  ASSUME NEW q \in Seq(Packet), MsUntilDue(q) = 0, Elapsed(q) \in Seq(Packet)
  PROVE  MsUntilDue(Elapsed(q)) = 0
<1>1. q # << >> /\ DOMAIN q = 1 .. Len(q)
  BY DueMeans
<1>2. 1 \in DOMAIN q /\ q[1] \in Packet
  BY <1>1
<1>3. q[1].when \in Int
  BY <1>2 DEF Packet
<1>4. DOMAIN Elapsed(q) = DOMAIN q /\ Elapsed(q)[1] = [q[1] EXCEPT !.when = Elapse(q[1].when)]
  BY <1>1, <1>2 DEF Elapsed
<1>5. Elapse(q[1].when) <= q[1].when
  BY <1>3 DEF Elapse
<1>6. Elapsed(q)[1].when = Elapse(q[1].when)
  BY <1>2, <1>4 DEF Packet
<1>7. Elapsed(q) # << >>
  BY <1>2, <1>4
<1>8. QED
  BY <1>5, <1>6, <1>7, EarlierIsDue

(* New packets join behind those that are due.                             *)
LEMMA EncodedKeepsDue ==
  ASSUME SendInv, NEW n \in 0 .. MaxFragments, NEW delay \in Delays, EncodedSends(n, delay)
  PROVE  SendInv'
<1>1. PacketInv'
  BY EncodedKeepsOrder DEF SendInv
<1>2. n \in Nat /\ delay \in Nat /\ pushed + 1 \in Nat /\ queue \in Seq(Packet)
  BY LoopAssumption DEF SendInv, PacketInv
<1>3. queue' = PushAll(queue, pushed + 1, n, delay)
  BY DEF EncodedSends
<1>4. IsDue => IsDue'
  BY <1>2, <1>3, PushedBehindIsDue DEF IsDue
<1>5. revents' \subseteq revents /\ pc' # "polling" /\ NeverBusyWaits'
  BY DEF EncodedSends, Returns, NeverBusyWaits
<1>6. QED
  BY <1>1, <1>4, <1>5 DEF SendInv, DueStays

(* What is due stays due as time goes by.                                  *)
LEMMA TickKeepsDue ==
  ASSUME SendInv, Tick
  PROVE  SendInv'
<1>1. PacketInv'
  BY TickKeepsOrder DEF SendInv
<1>2. queue' = Elapsed(queue) /\ queue \in Seq(Packet) /\ queue' \in Seq(Packet)
  BY <1>1 DEF Tick, SendInv, PacketInv
<1>3. IsDue => IsDue'
  BY <1>2, ElapsedIsDue DEF IsDue
<1>4. UNCHANGED <<pc, events, revents, outcome>>
  BY DEF Tick
<1>5. QED
  BY <1>1, <1>3, <1>4 DEF SendInv, DueStays, NeverBusyWaits

(* The packet callback finds its packet due, so it sends at least one.     *)
LEMMA SendIsServiced ==
  ASSUME SendInv, SendDue
  PROVE  SendInv'
<1>1. PacketInv'
  BY SendKeepsOrder DEF SendInv
<1>2. IsDue /\ queue \in Seq(Packet)
  BY DEF SendInv, DueStays, SendDue, Calls, PacketInv
<1>3. PICK k \in 0 .. Len(queue) : SendsWhileDue(k) /\ Returns("send", k > 0)
  BY DEF SendDue
<1>4. k # 0
  <2>1. SubSeq(queue, 1, Len(queue)) = queue
    BY <1>2
  <2>2. k = 0 => SendsWhileDue(0)
    BY <1>3
  <2>3. SendsWhileDue(0) => MsUntilDue(SubSeq(queue, 1, Len(queue))) # 0
    BY DEF SendsWhileDue
  <2>4. k = 0 => MsUntilDue(queue) # 0
    BY <2>1, <2>2, <2>3
  <2>5. QED
    BY <1>2, <2>4 DEF IsDue
<1>5. outcome' = "running" /\ "send" \notin revents' /\ pc' # "polling"
  <2>1. k > 0
    BY <1>4
  <2>2. QED
    BY <1>3, <2>1 DEF Returns
<1>6. QED
  BY <1>1, <1>5 DEF SendInv, DueStays, NeverBusyWaits

(* What neither touches the queue nor asks again.                          *)
LEMMA OthersKeepDue ==
  ASSUME SendInv, UNCHANGED <<queue, pushed, sent>>, outcome' # "busy_wait",
         revents' \subseteq revents \/ (pc = "polling" /\ revents' \subseteq events \cup {"error"}),
         pc' = "polling" => (pc = "polling" /\ events' = events) \/ events' = Interested
  PROVE  SendInv'
<1>1. PacketInv'
  BY OthersKeepOrder DEF SendInv
<1>2. IsDue' <=> IsDue
  BY DEF IsDue
<1>3. "send" \in Interested => IsDue
  BY DEF Interested
<1>4. QED
  BY <1>1, <1>2, <1>3 DEF SendInv, DueStays, NeverBusyWaits

(* Every step of the loop, the encode thread and the environment keeps the *)
(* invariant of the pacer.                                                 *)
LEMMA SendInvIsInductive ==
  ASSUME SendInv, [LoopNext]_loopVars
  PROVE  SendInv'
<1> USE DEF sendVars, pollVars
<1>1. CASE \E n \in 0 .. MaxFragments, delay \in Delays : EncodedSends(n, delay)
  BY <1>1, EncodedKeepsDue
<1>2. CASE SendDue
  BY <1>2, SendIsServiced
<1>3. CASE Tick
  BY <1>3, TickKeepsDue
<1>4. CASE ComputeTimeout
  BY <1>4, OthersKeepDue DEF ComputeTimeout, SendInv, NeverBusyWaits
<1>5. CASE AskInterest
  BY <1>5, OthersKeepDue DEF AskInterest, SendInv, NeverBusyWaits
<1>6. CASE PollReturns
  <2>1. revents' \subseteq events \cup {"error"}
    BY <1>6 DEF PollReturns, ReadyActions
  <2>2. QED
    BY <1>6, <2>1, OthersKeepDue DEF PollReturns, SendInv, NeverBusyWaits
<1>7. CASE PollTimesOut \/ ConnectionError \/ EncodedThrows
  BY <1>7, OthersKeepDue DEF PollTimesOut, ConnectionError, EncodedThrows, Calls, SendInv, NeverBusyWaits
<1>8. CASE FetchBegins
  BY <1>8, OthersKeepDue DEF FetchBegins, SendInv, NeverBusyWaits
<1>9. CASE FetchEnds \/ ReadAck
  BY <1>9, OthersKeepDue DEF FetchEnds, ReadAck, Returns
<1>10. CASE EncodeThread \/ CameraDriver \/ AckArrives \/ PortUnreachable \/ UNCHANGED loopVars
  BY <1>10, OthersKeepDue DEF EncodeThread, CameraDriver, AckArrives, PortUnreachable, loopVars,
     SendInv, NeverBusyWaits
<1>11. QED
  BY <1>1, <1>2, <1>3, <1>4, <1>5, <1>6, <1>7, <1>8, <1>9, <1>10 DEF LoopNext, MainThread, Environment

(* It holds at first: no packet is queued and no timeout computed.         *)
LEMMA SendInvInitially ==
  ASSUME LoopInit
  PROVE  SendInv
BY PacketInvInitially DEF LoopInit, SendInv, DueStays, NeverBusyWaits

(* The inductive invariant of the packets: they are in order, and the one  *)
(* that poll found due is still due when its callback runs.                *)
THEOREM SendInvHolds == LoopSpec => []SendInv
BY SendInvInitially, SendInvIsInductive, PTL DEF LoopSpec

(* The packet callback sends a packet whenever it is called, although poll *)
(* asked the pacer before the other callbacks ran: the poller never throws.*)
THEOREM NeverBusyWaitsHolds == LoopSpec => []NeverBusyWaits
<1>1. SendInv => NeverBusyWaits
  BY DEF SendInv
<1>2. QED
  BY <1>1, SendInvHolds, PTL

(* No packet leaves a millisecond or more before its time: every packet    *)
(* the callback pops was at the front, and due, when it was popped.        *)
THEOREM NoPacketEarlyHolds == LoopSpec => NoPacketEarly
<1> DEFINE Early == \A i \in 1 .. sent' - sent : queue[i].when < Millisecond
<1>1. ASSUME SendInv, [LoopNext]_loopVars, sent' # sent PROVE Early
  <2>1. PICK k \in 0 .. Len(queue) : SendsWhileDue(k) /\ sent' = sent + k
    BY <1>1 DEF LoopNext, MainThread, Environment, EncodeThread, CameraDriver, AckArrives,
       PortUnreachable, Tick, ComputeTimeout, AskInterest, PollReturns, PollTimesOut,
       ConnectionError, FetchBegins, FetchEnds, EncodedSends, EncodedThrows, ReadAck, SendDue,
       loopVars, sendVars
  <2>2. queue \in Seq(Packet) /\ sent \in Nat /\ k \in Nat /\ Len(queue) \in Nat
    BY <1>1 DEF SendInv, PacketInv
  <2>3. sent' - sent = k
    BY <2>1, <2>2
  <2>4. ASSUME NEW i \in 1 .. k PROVE queue[i].when < Millisecond
    <3>1. MsUntilDue(SubSeq(queue, i, Len(queue))) = 0
      BY <2>1 DEF SendsWhileDue
    <3>2. i \in 1 .. Len(queue)
      BY <2>2
    <3>3. SubSeq(queue, i, Len(queue)) \in Seq(Packet) /\ SubSeq(queue, i, Len(queue))[1] = queue[i]
      BY <2>2, <3>2
    <3>4. SubSeq(queue, i, Len(queue))[1].when < Millisecond
      BY <3>1, <3>3, DueMeans
    <3>5. QED
      BY <3>3, <3>4
  <2>5. QED
    BY <2>3, <2>4
<1>2. ASSUME SendInv, sent' = sent PROVE Early
  <2>1. sent' - sent = 0
    BY <1>2 DEF SendInv, PacketInv
  <2>2. QED
    BY <2>1
<1>3. SendInv /\ [LoopNext]_loopVars => [Early]_loopVars
  BY <1>1, <1>2
<1>4. QED
  BY <1>3, SendInvHolds, PTL DEF LoopSpec, NoPacketEarly

-----------------------------------------------------------------------------
(***************************************************************************)
(* The pictures.                                                           *)
(***************************************************************************)

(* What is left of x when it passes n, for the counts that start again.    *)
Wrapped(x, n) == IF x < n THEN x ELSE x - n

(* The picture that get_next_frame is to return next.                      *)
FollowingPicture ==
  IF last_raster = NoPicture THEN 0 ELSE (last_raster + 1) % Pictures

(* The buffers are filled, then queued, in the order of the ring, from the *)
(* one whose turn it is by the camera's own count; ...                     *)
RingInOrder ==
  /\ Len(filled) + Len(queued) = NumBuffers
  /\ \A i \in 1 .. Len(filled) : filled[i] = Wrapped(next_buffer_index + i - 1, NumBuffers)
  /\ \A i \in 1 .. Len(queued) :
       queued[i] = Wrapped(next_buffer_index + Len(filled) + i - 1, NumBuffers)

(* ... those that are filled hold consecutive pictures, the first of them  *)
(* the one that follows the picture returned last.                         *)
PicturesFollow ==
  /\ \A i \in 1 .. Len(filled) :
       kernel_v4l2_buffers[filled[i]] = Wrapped(FollowingPicture + i - 1, Pictures)
  /\ pictures = Wrapped(FollowingPicture + Len(filled), Pictures)

(* The inductive invariant of the camera.                                  *)
CameraInv == CameraTypeOK /\ RingInOrder /\ PicturesFollow

(* The remainder of a count that has just passed its end, or not yet.      *)
LEMMA NextWraps ==
  ASSUME NEW n \in Nat, NEW x \in 0 .. n - 1
  PROVE  (x + 1) % n = Wrapped(x + 1, n)
<1>1. n \in Int /\ n > 0 /\ x + 1 \in Int /\ 0 <= x + 1 /\ x + 1 <= n
  OBVIOUS
<1>2. x + 1 < n => (x + 1) % n = x + 1
  BY <1>1
<1>3. x + 1 = n => (x + 1) % n = 0
  BY <1>1
<1>4. QED
  BY <1>1, <1>2, <1>3 DEF Wrapped

(* Places less than a turn apart are different.                            *)
LEMMA WrappedDiffer ==
  ASSUME NEW n \in Nat, NEW b \in 0 .. n - 1, NEW i \in 0 .. n - 1, NEW j \in 0 .. n - 1, i # j
  PROVE  Wrapped(b + i, n) # Wrapped(b + j, n)
BY DEF Wrapped

(* The picture that is due is one of the source's.                         *)
LEMMA FollowingIsPicture ==
  ASSUME CameraTypeOK
  PROVE  FollowingPicture \in Picture
<1>1. Pictures \in Nat /\ Pictures > 0
  BY CameraAssumption
<1>2. CASE last_raster = NoPicture
  BY <1>1, <1>2 DEF FollowingPicture, Picture
<1>3. CASE last_raster # NoPicture
  <2>1. last_raster \in 0 .. Pictures - 1
    BY <1>3 DEF CameraTypeOK, Picture
  <2>2. FollowingPicture = Wrapped(last_raster + 1, Pictures)
    BY <1>1, <1>3, <2>1, NextWraps DEF FollowingPicture
  <2>3. QED
    BY <1>1, <2>1, <2>2 DEF Wrapped, Picture
<1>4. QED
  BY <1>2, <1>3

(* Before the first picture every buffer waits to be filled.               *)
LEMMA CameraInvInitially ==
  ASSUME CameraInit
  PROVE  CameraInv
<1>1. NumBuffers \in Nat /\ NumBuffers > 0 /\ Pictures \in Nat /\ Pictures > NumBuffers
  BY CameraAssumption
<1> DEFINE q == [i \in 1 .. NumBuffers |-> i - 1]
<1>2. q \in [1 .. NumBuffers -> Buffers]
  BY <1>1 DEF Buffers
<1>3. q \in Seq(Buffers) /\ Len(q) = NumBuffers
  BY <1>1, <1>2, IsSequence
<1>4. \A i \in 1 .. NumBuffers : q[i] = i - 1
  OBVIOUS
<1>5. queued = q /\ filled = << >> /\ next_buffer_index = 0 /\ pictures = 0
      /\ last_raster = NoPicture
  BY DEF CameraInit
<1> HIDE DEF q
<1>6. kernel_v4l2_buffers \in [Buffers -> Picture \cup {NoPicture}]
  BY DEF CameraInit
<1>7. CameraTypeOK
  BY <1>1, <1>3, <1>5, <1>6 DEF CameraTypeOK, Buffers, Picture
<1>8. RingInOrder
  BY <1>1, <1>3, <1>4, <1>5 DEF RingInOrder, Wrapped
<1>9. FollowingPicture = 0
  BY <1>5 DEF FollowingPicture
<1>10. PicturesFollow
  BY <1>1, <1>5, <1>9 DEF PicturesFollow, Wrapped
<1>11. QED
  BY <1>7, <1>8, <1>10 DEF CameraInv

(* The driver fills the buffer after the filled ones with the picture after*)
(* theirs.                                                                 *)
LEMMA CaptureKeepsOrder ==
  ASSUME CameraInv, Capture
  PROVE  CameraInv'
<1>1. NumBuffers \in Nat /\ NumBuffers > 0 /\ Pictures \in Nat /\ Pictures > NumBuffers
  BY CameraAssumption
<1> DEFINE n == Len(filled)
           m == Len(queued)
           b == next_buffer_index
           f == FollowingPicture
           h == queued[1]
<1>2. /\ filled \in Seq(Buffers) /\ queued \in Seq(Buffers) /\ b \in Buffers
      /\ pictures \in Picture /\ f \in Picture
      /\ kernel_v4l2_buffers \in [Buffers -> Picture \cup {NoPicture}]
      /\ last_raster \in Picture \cup {NoPicture}
  BY FollowingIsPicture DEF CameraInv, CameraTypeOK
<1>3. n \in Nat /\ m \in Nat /\ m >= 1 /\ n + m = NumBuffers
  BY <1>2 DEF Capture, CameraInv, RingInOrder
<1>4. h \in Buffers /\ h = Wrapped(b + n, NumBuffers)
  BY <1>2, <1>3 DEF CameraInv, RingInOrder, Buffers
<1>5. /\ queued' = Tail(queued) /\ filled' = Append(filled, h)
      /\ kernel_v4l2_buffers' = [kernel_v4l2_buffers EXCEPT ![h] = pictures]
      /\ pictures' = (pictures + 1) % Pictures
      /\ UNCHANGED <<next_buffer_index, last_raster>>
  <2>1. Head(queued) = h
    BY <1>2, <1>3
  <2>2. QED
    BY <2>1 DEF Capture
<1>6. /\ filled' \in Seq(Buffers) /\ Len(filled') = n + 1 /\ filled'[n + 1] = h
      /\ \A i \in 1 .. n : filled'[i] = filled[i]
  BY <1>2, <1>4, <1>5
<1>7. /\ queued' \in Seq(Buffers) /\ Len(queued') = m - 1
      /\ \A i \in 1 .. m - 1 : queued'[i] = queued[i + 1]
  BY <1>2, <1>3, <1>5
<1>8. FollowingPicture' = f
  BY <1>5 DEF FollowingPicture
<1>9. pictures' = Wrapped(pictures + 1, Pictures)
  BY <1>1, <1>2, <1>5, NextWraps DEF Picture
<1>10. \A i \in 1 .. n : filled[i] = Wrapped(b + i - 1, NumBuffers) /\ filled[i] \in Buffers
  BY <1>2 DEF CameraInv, RingInOrder
<1>11. CameraTypeOK'
  <2>1. pictures' \in Picture
    BY <1>1, <1>2, <1>9 DEF Wrapped, Picture
  <2>2. kernel_v4l2_buffers' \in [Buffers -> Picture \cup {NoPicture}]
    BY <1>2, <1>4, <1>5
  <2>3. QED
    BY <1>2, <1>5, <1>6, <1>7, <2>1, <2>2 DEF CameraTypeOK
<1>12. RingInOrder'
  <2>1. \A i \in 1 .. n + 1 : filled'[i] = Wrapped(b + i - 1, NumBuffers)
    BY <1>3, <1>4, <1>6, <1>10
  <2>2. \A i \in 1 .. m - 1 : queued'[i] = Wrapped(b + (n + 1) + i - 1, NumBuffers)
    <3> TAKE i \in 1 .. m - 1
    <3>1. i + 1 \in 1 .. m /\ queued'[i] = queued[i + 1]
      BY <1>3, <1>7
    <3>2. queued[i + 1] = Wrapped(b + n + (i + 1) - 1, NumBuffers)
      BY <3>1 DEF CameraInv, RingInOrder
    <3>3. b + n + (i + 1) - 1 = b + (n + 1) + i - 1
      BY <1>2, <1>3 DEF Buffers
    <3>4. QED
      BY <3>1, <3>2, <3>3
  <2>3. QED
    BY <1>3, <1>5, <1>6, <1>7, <2>1, <2>2 DEF RingInOrder
<1>13. PicturesFollow'
  <2>1. \A i \in 1 .. n : filled'[i] # h
    <3> TAKE i \in 1 .. n
    <3>1. Wrapped(b + (i - 1), NumBuffers) # Wrapped(b + n, NumBuffers)
      <4>1. /\ b \in 0 .. NumBuffers - 1 /\ i - 1 \in 0 .. NumBuffers - 1
            /\ n \in 0 .. NumBuffers - 1 /\ i - 1 # n
        BY <1>1, <1>2, <1>3 DEF Buffers
      <4> HIDE DEF b, n
      <4>2. QED
        BY <1>1, <4>1, WrappedDiffer
    <3>2. b + (i - 1) = b + i - 1
      BY <1>2, <1>3 DEF Buffers
    <3>3. QED
      BY <1>4, <1>6, <1>10, <3>1, <3>2
  <2>2. \A i \in 1 .. n : kernel_v4l2_buffers'[filled'[i]] = Wrapped(f + i - 1, Pictures)
    <3> TAKE i \in 1 .. n
    <3>1. filled'[i] = filled[i] /\ filled[i] # h /\ filled[i] \in Buffers
      BY <1>6, <1>10, <2>1
    <3>2. kernel_v4l2_buffers'[filled[i]] = kernel_v4l2_buffers[filled[i]]
      BY <1>2, <1>5, <3>1
    <3>3. QED
      BY <3>1, <3>2 DEF CameraInv, PicturesFollow
  <2>3. kernel_v4l2_buffers'[filled'[n + 1]] = Wrapped(f + (n + 1) - 1, Pictures)
    <3>1. kernel_v4l2_buffers'[h] = pictures
      BY <1>2, <1>4, <1>5
    <3>2. f + (n + 1) - 1 = f + n
      BY <1>2, <1>3 DEF Picture
    <3>3. QED
      BY <1>6, <3>1, <3>2 DEF CameraInv, PicturesFollow
  <2>4. \A i \in 1 .. n + 1 : kernel_v4l2_buffers'[filled'[i]] = Wrapped(f + i - 1, Pictures)
    BY <1>3, <2>2, <2>3
  <2>5. pictures' = Wrapped(f + (n + 1), Pictures)
    <3>1. pictures = Wrapped(f + n, Pictures)
      BY DEF CameraInv, PicturesFollow
    <3>2. QED
      BY <1>1, <1>2, <1>3, <1>9, <3>1 DEF Wrapped, Picture
  <2>6. QED
    BY <1>6, <1>8, <2>4, <2>5 DEF PicturesFollow
<1>14. QED
  BY <1>11, <1>12, <1>13 DEF CameraInv

(* The camera reads the buffer that was filled first, which is the one it  *)
(* counts on, and queues it behind the others.                             *)
LEMMA FetchKeepsOrder ==
  ASSUME CameraInv, GetNextFrame
  PROVE  CameraInv' /\ last_raster' = FollowingPicture
<1>1. NumBuffers \in Nat /\ NumBuffers > 0 /\ Pictures \in Nat /\ Pictures > NumBuffers
  BY CameraAssumption
<1> DEFINE n == Len(filled)
           m == Len(queued)
           b == next_buffer_index
           f == FollowingPicture
           h == filled[1]
<1>2. /\ filled \in Seq(Buffers) /\ queued \in Seq(Buffers) /\ b \in 0 .. NumBuffers - 1
      /\ pictures \in Picture /\ f \in 0 .. Pictures - 1
      /\ kernel_v4l2_buffers \in [Buffers -> Picture \cup {NoPicture}]
      /\ last_raster \in Picture \cup {NoPicture}
  BY FollowingIsPicture DEF CameraInv, CameraTypeOK, Buffers, Picture
<1>3. n \in Nat /\ m \in Nat /\ n >= 1 /\ n + m = NumBuffers
  BY <1>2 DEF GetNextFrame, CameraInv, RingInOrder
<1>4. h \in Buffers /\ h = b
  <2>1. h \in Buffers /\ h = Wrapped(b + 1 - 1, NumBuffers)
    BY <1>2, <1>3 DEF CameraInv, RingInOrder
  <2>2. Wrapped(b + 1 - 1, NumBuffers) = b
    BY <1>1, <1>2 DEF Wrapped
  <2>3. QED
    BY <2>1, <2>2
<1>5. kernel_v4l2_buffers[b] = f
  <2>1. kernel_v4l2_buffers[h] = Wrapped(f + 1 - 1, Pictures)
    BY <1>3 DEF CameraInv, PicturesFollow
  <2>2. Wrapped(f + 1 - 1, Pictures) = f
    BY <1>1, <1>2 DEF Wrapped
  <2>3. QED
    BY <1>4, <2>1, <2>2
<1>6. /\ queued' = Append(queued, h) /\ filled' = Tail(filled)
      /\ kernel_v4l2_buffers' = [kernel_v4l2_buffers EXCEPT ![h] = NoPicture]
      /\ next_buffer_index' = (b + 1) % NumBuffers
      /\ last_raster' = f
      /\ pictures' = pictures
  <2>1. Head(filled) = h
    BY <1>2, <1>3
  <2>2. QED
    BY <1>5, <2>1 DEF GetNextFrame, NextIndex
<1>7. /\ filled' \in Seq(Buffers) /\ Len(filled') = n - 1
      /\ \A i \in 1 .. n - 1 : filled'[i] = filled[i + 1]
  BY <1>2, <1>3, <1>6
<1>8. /\ queued' \in Seq(Buffers) /\ Len(queued') = m + 1 /\ queued'[m + 1] = h
      /\ \A i \in 1 .. m : queued'[i] = queued[i]
  BY <1>2, <1>4, <1>6
<1>9. next_buffer_index' = Wrapped(b + 1, NumBuffers)
  BY <1>1, <1>2, <1>6, NextWraps
<1>10. FollowingPicture' = Wrapped(f + 1, Pictures)
  <2>1. last_raster' # NoPicture
    BY <1>1, <1>2, <1>6 DEF NoPicture
  <2>2. FollowingPicture' = (f + 1) % Pictures
    BY <1>6, <2>1 DEF FollowingPicture
  <2>3. QED
    BY <1>1, <1>2, <2>2, NextWraps
<1>11. CameraTypeOK'
  <2>1. next_buffer_index' \in Buffers /\ last_raster' \in Picture
    BY <1>1, <1>2, <1>6, <1>9 DEF Wrapped, Buffers, Picture
  <2>2. kernel_v4l2_buffers' \in [Buffers -> Picture \cup {NoPicture}]
    BY <1>2, <1>4, <1>6
  <2>3. QED
    BY <1>2, <1>6, <1>7, <1>8, <2>1, <2>2 DEF CameraTypeOK
<1>12. RingInOrder'
  <2>1. \A i \in 1 .. n - 1 : filled'[i] = Wrapped(next_buffer_index' + i - 1, NumBuffers)
    <3> TAKE i \in 1 .. n - 1
    <3>1. i + 1 \in 1 .. n /\ filled'[i] = filled[i + 1]
      BY <1>3, <1>7
    <3>2. filled[i + 1] = Wrapped(b + (i + 1) - 1, NumBuffers)
      BY <3>1 DEF CameraInv, RingInOrder
    <3>3. Wrapped(b + (i + 1) - 1, NumBuffers) = Wrapped(Wrapped(b + 1, NumBuffers) + i - 1, NumBuffers)
      BY <1>1, <1>2, <1>3 DEF Wrapped
    <3>4. QED
      BY <1>9, <3>1, <3>2, <3>3
  <2>2. \A i \in 1 .. m : queued'[i] = Wrapped(next_buffer_index' + (n - 1) + i - 1, NumBuffers)
    <3> TAKE i \in 1 .. m
    <3>1. queued'[i] = Wrapped(b + n + i - 1, NumBuffers)
      BY <1>8 DEF CameraInv, RingInOrder
    <3>2. Wrapped(b + n + i - 1, NumBuffers)
            = Wrapped(Wrapped(b + 1, NumBuffers) + (n - 1) + i - 1, NumBuffers)
      BY <1>1, <1>2, <1>3 DEF Wrapped
    <3>3. QED
      BY <1>9, <3>1, <3>2
  <2>3. queued'[m + 1] = Wrapped(next_buffer_index' + (n - 1) + (m + 1) - 1, NumBuffers)
    <3>1. b = Wrapped(Wrapped(b + 1, NumBuffers) + (n - 1) + (m + 1) - 1, NumBuffers)
      BY <1>1, <1>2, <1>3 DEF Wrapped
    <3>2. QED
      BY <1>4, <1>8, <1>9, <3>1
  <2>4. \A i \in 1 .. m + 1 : queued'[i] = Wrapped(next_buffer_index' + (n - 1) + i - 1, NumBuffers)
    BY <1>3, <2>2, <2>3
  <2>5. QED
    BY <1>3, <1>7, <1>8, <2>1, <2>4 DEF RingInOrder
<1>13. PicturesFollow'
  <2>1. \A i \in 1 .. n - 1 : kernel_v4l2_buffers'[filled'[i]] = Wrapped(Wrapped(f + 1, Pictures) + i - 1, Pictures)
    <3> TAKE i \in 1 .. n - 1
    <3>1. i + 1 \in 1 .. n /\ filled'[i] = filled[i + 1] /\ filled[i + 1] \in Buffers
      BY <1>2, <1>3, <1>7
    <3>2. filled[i + 1] # h
      <4>1. filled[i + 1] = Wrapped(b + (i + 1) - 1, NumBuffers)
        BY <3>1 DEF CameraInv, RingInOrder
      <4>2. Wrapped(b + (i + 1) - 1, NumBuffers) # b
        BY <1>1, <1>2, <1>3 DEF Wrapped
      <4>3. QED
        BY <1>4, <4>1, <4>2
    <3>3. kernel_v4l2_buffers'[filled[i + 1]] = kernel_v4l2_buffers[filled[i + 1]]
      BY <1>2, <1>6, <3>1, <3>2
    <3>4. kernel_v4l2_buffers[filled[i + 1]] = Wrapped(f + (i + 1) - 1, Pictures)
      BY <3>1 DEF CameraInv, PicturesFollow
    <3>5. Wrapped(f + (i + 1) - 1, Pictures) = Wrapped(Wrapped(f + 1, Pictures) + i - 1, Pictures)
      BY <1>1, <1>2, <1>3 DEF Wrapped
    <3>6. QED
      BY <3>1, <3>3, <3>4, <3>5
  <2>2. pictures' = Wrapped(Wrapped(f + 1, Pictures) + (n - 1), Pictures)
    <3>1. pictures = Wrapped(f + n, Pictures)
      BY DEF CameraInv, PicturesFollow
    <3>2. Wrapped(f + n, Pictures) = Wrapped(Wrapped(f + 1, Pictures) + (n - 1), Pictures)
      BY <1>1, <1>2, <1>3 DEF Wrapped
    <3>3. QED
      BY <1>6, <3>1, <3>2
  <2>3. QED
    BY <1>7, <1>10, <2>1, <2>2 DEF PicturesFollow
<1>14. QED
  BY <1>6, <1>11, <1>12, <1>13 DEF CameraInv

(* Steps that leave the camera alone keep the invariant.                   *)
LEMMA CameraInvUnchanged ==
  ASSUME CameraInv, UNCHANGED cameraVars
  PROVE  CameraInv'
BY DEF CameraInv, CameraTypeOK, RingInOrder, PicturesFollow, FollowingPicture, cameraVars

(* What the main thread and the driver do to the buffers.                  *)
LEMMA CameraInvIsInductive ==
  ASSUME CameraInv, [LoopNext]_loopVars
  PROVE  CameraInv' /\ (pc = "camera" /\ pc' # "camera" => last_raster' = FollowingPicture)
<1>1. CASE FetchEnds
  BY <1>1, FetchKeepsOrder DEF FetchEnds
<1>2. CASE CameraDriver
  BY <1>2, CaptureKeepsOrder DEF CameraDriver, pollVars
<1>3. CASE ComputeTimeout \/ AskInterest \/ PollReturns \/ PollTimesOut \/ ConnectionError
           \/ FetchBegins \/ EncodedThrows \/ ReadAck \/ SendDue
           \/ \E n \in 0 .. MaxFragments, delay \in Delays : EncodedSends(n, delay)
  <2>1. UNCHANGED cameraVars /\ pc # "camera"
    BY <1>3 DEF ComputeTimeout, AskInterest, PollReturns, PollTimesOut, ConnectionError,
       FetchBegins, EncodedThrows, ReadAck, SendDue, EncodedSends, Calls
  <2>2. QED
    BY <2>1, CameraInvUnchanged
<1>4. CASE EncodeThread \/ Tick \/ AckArrives \/ PortUnreachable \/ UNCHANGED loopVars
  <2>1. UNCHANGED cameraVars /\ pc' = pc
    BY <1>4 DEF EncodeThread, Tick, AckArrives, PortUnreachable, loopVars, pollVars
  <2>2. QED
    BY <2>1, CameraInvUnchanged
<1>5. QED
  BY <1>1, <1>2, <1>3, <1>4 DEF LoopNext, MainThread, Environment

(* The inductive invariant of the camera: its buffers are in the order of  *)
(* the ring, and what is in them follows the picture returned last.        *)
THEOREM CameraInvHolds == LoopSpec => []CameraInv
<1>1. LoopInit => CameraInv
  BY CameraInvInitially DEF LoopInit
<1>2. CameraInv /\ [LoopNext]_loopVars => CameraInv'
  BY CameraInvIsInductive
<1>3. QED
  BY <1>1, <1>2, PTL DEF LoopSpec

(* Every picture is the one after the picture before it, without gaps, out *)
(* of a buffer the driver does not write to, for any number of buffers.    *)
THEOREM PicturesInOrderHolds == LoopSpec => PicturesInOrder
<1> DEFINE Follows == pc = "camera" /\ pc' # "camera" =>
             last_raster' = IF last_raster = NoPicture THEN 0
                            ELSE (last_raster + 1) % Pictures
<1>1. CameraInv /\ [LoopNext]_loopVars => [Follows]_loopVars
  BY CameraInvIsInductive DEF FollowingPicture
<1>2. QED
  BY <1>1, CameraInvHolds, PTL DEF LoopSpec, PicturesInOrder

-----------------------------------------------------------------------------
(***************************************************************************)
(* Types.                                                                  *)
(***************************************************************************)

(* The types of what only the main thread and the socket use.              *)
OwnTypeOK ==
  /\ events \subseteq Actions
  /\ timeout \in Nat
  /\ outcome \in {"running", "exit", "busy_wait", "exception"}
  /\ frame_no \in Nat
  /\ ack_waiting \in BOOLEAN /\ socket_error \in BOOLEAN

(* The timeout is counted down only while it is positive.                  *)
LEMMA OwnTypesAreKept ==
  ASSUME OwnTypeOK, PacketInv, [LoopNext]_loopVars
  PROVE  OwnTypeOK'
<1> USE DEF OwnTypeOK, sendVars, socketVars, pollVars
<1>1. CASE ComputeTimeout
  <2>1. MsUntilDue(queue) \in Nat
    BY DueMeans DEF PacketInv
  <2>2. MsUntilDue(queue) * Millisecond \in Nat
    BY <2>1, PacerAssumption
  <2>3. QED
    BY <1>1, <2>2 DEF ComputeTimeout
<1>2. CASE AskInterest
  BY <1>2 DEF AskInterest, Interested
<1>3. CASE PollReturns \/ PollTimesOut \/ ConnectionError \/ FetchBegins \/ EncodedThrows
  BY <1>3 DEF PollReturns, PollTimesOut, ConnectionError, FetchBegins, EncodedThrows
<1>4. CASE FetchEnds
  BY <1>4 DEF FetchEnds, Returns
<1>5. CASE ReadAck
  BY <1>5 DEF ReadAck, Returns
<1>6. CASE SendDue
  BY <1>6 DEF SendDue, Returns
<1>7. CASE \E n \in 0 .. MaxFragments, delay \in Delays : EncodedSends(n, delay)
  <2>1. frame_no' \in Nat
    BY <1>7 DEF EncodedSends
  <2>2. outcome' = "running" /\ UNCHANGED <<events, timeout, ack_waiting, socket_error>>
    BY <1>7 DEF EncodedSends, Returns
  <2>3. QED
    BY <2>1, <2>2
<1>8. CASE Tick
  <2>1. timeout' \in Nat
    BY <1>8 DEF Tick, Calls
  <2>2. QED
    BY <1>8, <2>1 DEF Tick
<1>9. CASE EncodeThread \/ CameraDriver \/ AckArrives \/ PortUnreachable \/ UNCHANGED loopVars
  BY <1>9 DEF EncodeThread, CameraDriver, AckArrives, PortUnreachable, loopVars
<1>10. QED
  BY <1>1, <1>2, <1>3, <1>4, <1>5, <1>6, <1>7, <1>8, <1>9 DEF LoopNext, MainThread, Environment

(* Every variable of the loop, of the encode thread, of the pacer and of   *)
(* the camera keeps its type.                                              *)
THEOREM LoopTypeOKHolds == LoopSpec => []LoopTypeOK
<1>1. LoopInit => OwnTypeOK
  <2> SUFFICES ASSUME LoopInit PROVE OwnTypeOK
    OBVIOUS
  <2>1. events = {} /\ timeout = 0 /\ outcome = "running" /\ frame_no = 0
    BY DEF LoopInit
  <2>2. ack_waiting = FALSE /\ socket_error = FALSE
    BY DEF LoopInit
  <2>3. ack_waiting \in BOOLEAN /\ socket_error \in BOOLEAN
    BY <2>2
  <2>4. timeout \in Nat /\ frame_no \in Nat
    BY <2>1
  <2>5. QED
    BY <2>1, <2>3, <2>4, Zenon DEF OwnTypeOK
<1>2. OwnTypeOK /\ SendInv /\ [LoopNext]_loopVars => OwnTypeOK'
  BY OwnTypesAreKept DEF SendInv
<1>3. LoopInv /\ SendInv /\ CameraInv /\ OwnTypeOK => LoopTypeOK
  <2> SUFFICES ASSUME LoopInv, SendInv, CameraInv, OwnTypeOK PROVE LoopTypeOK
    OBVIOUS
  <2>1. PipelineTypeOK
    BY DEF LoopInv, SharedTypeOK, PipelineTypeOK
  <2>2. QED
    BY <2>1 DEF LoopInv, SharedTypeOK, SendInv, PacketInv, Packet, CameraInv, OwnTypeOK, LoopTypeOK
<1>4. QED
  BY <1>1, <1>2, <1>3, LoopInvHolds, SendInvHolds, CameraInvHolds, PTL DEF LoopSpec
=============================================================================
