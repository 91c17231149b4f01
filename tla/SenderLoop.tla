----------------------------- MODULE SenderLoop -----------------------------
(***************************************************************************)
(* The sender's event loop: Poller::poll of src/net/poller.cc, the four    *)
(* actions that src/salsify/salsify-sender.cc gives it, and what they      *)
(* share with the encode thread, the camera and the network.  The callbacks*)
(* run one at a time, in the order in which they were added, on readiness  *)
(* that poll sampled before the first of them.                             *)
(***************************************************************************)
EXTENDS EncodePipeline, Pacer, CameraRing

CONSTANTS
  MaxFrames,        \* frames sent, a bound of the model
  MaxFragments,     \* fragments of a frame
  Delays            \* values of inter_send_delay

ASSUME LoopAssumption ==
  /\ MaxFrames \in Nat /\ MaxFragments \in Nat \ {0}
  /\ Delays \subseteq Nat

VARIABLES
  pc,               \* where the main thread is
  events,           \* the actions whose descriptors poll watches
  timeout,          \* ticks until poll gives up
  revents,          \* the actions found ready whose callbacks are still to run
  outcome,          \* "running", or what has ended the program
  frame_no,         \* frames sent
  pushed,           \* packets pushed on the pacer, a history variable
  sent,             \* packets sent, a history variable
  ack_waiting,      \* an ack is in the socket
  socket_error      \* the socket reports POLLERR

socketVars == <<ack_waiting, socket_error>>
pollVars == <<pc, events, timeout, revents, outcome>>
sendVars == <<queue, frame_no, pushed, sent>>

loopVars == <<pollVars, sendVars, socketVars, pipelineVars, cameraVars>>

Actions == {"fetch", "encoded", "ack", "send"}

(* The order in which they were added.  An error of the socket is found    *)
(* when the loop comes to the first action that uses the socket.           *)
Place == [fetch |-> 1, encoded |-> 2, ack |-> 3, error |-> 3, send |-> 4]

Running == outcome = "running"

LoopTypeOK ==
  /\ PipelineTypeOK
  /\ CameraTypeOK
  /\ queue \in Seq([when : Int, what : Nat])
  /\ pc \in {"poll_timeout", "interest", "polling", "callbacks", "camera"}
  /\ events \subseteq Actions
  /\ timeout \in Nat
  /\ revents \subseteq Actions \cup {"error"}
  /\ outcome \in {"running", "exit", "busy_wait", "exception"}
  /\ frame_no \in Nat /\ pushed \in Nat /\ sent \in Nat
  /\ ack_waiting \in BOOLEAN /\ socket_error \in BOOLEAN

LoopInit ==
  /\ PipelineInit
  /\ CameraInit
  /\ queue = << >>
  /\ pc = "poll_timeout"
  /\ events = {}
  /\ timeout = 0
  /\ revents = {}
  /\ outcome = "running"
  /\ frame_no = 0 /\ pushed = 0 /\ sent = 0
  /\ ack_waiting = FALSE /\ socket_error = FALSE

-----------------------------------------------------------------------------
(***************************************************************************)
(* Poller::poll.                                                           *)
(***************************************************************************)

(* The main loop asks the pacer how long poll may wait ...                 *)
ComputeTimeout ==
  /\ Running /\ pc = "poll_timeout"
  /\ timeout' = MsUntilDue(queue) * Millisecond
  /\ pc' = "interest"
  /\ UNCHANGED <<events, revents, outcome, sendVars, socketVars, pipelineVars, cameraVars>>

(* Always watches the socket for room.                                     *)
MutantInterested == Actions

Interested == {a \in Actions : a = "send" => IsDue}

(* ... and poll asks each action whether it is interested, a little later. *)
AskInterest ==
  /\ Running /\ pc = "interest"
  /\ events' = Interested
  /\ pc' = "polling"
  /\ UNCHANGED <<timeout, revents, outcome, sendVars, socketVars, pipelineVars, cameraVars>>

Ready(a) ==
  \/ a = "fetch" /\ encode_start_pipe > 0
  \/ a = "encoded" /\ encode_end_pipe > 0
  \/ a = "ack" /\ ack_waiting
  \/ a = "send"

(* An error is reported whatever was asked for, and ends the program before*)
(* the actions that use the socket.                                        *)
ReadyActions ==
  LET found == {a \in events : Ready(a)}
  IN  IF socket_error THEN (found \cap {"fetch", "encoded"}) \cup {"error"} ELSE found

PollReturns ==
  /\ Running /\ pc = "polling"
  /\ ReadyActions # {}
  /\ revents' = ReadyActions
  /\ pc' = "callbacks"
  /\ UNCHANGED <<events, timeout, outcome, sendVars, socketVars, pipelineVars, cameraVars>>

PollTimesOut ==
  /\ Running /\ pc = "polling"
  /\ ReadyActions = {}
  /\ timeout = 0
  /\ pc' = "poll_timeout"
  /\ UNCHANGED <<events, timeout, revents, outcome, sendVars, socketVars, pipelineVars,
                 cameraVars>>

(* The callback of an action is the next to run.                           *)
Calls(a) ==
  /\ Running /\ pc = "callbacks"
  /\ a \in revents
  /\ \A b \in revents : Place[a] <= Place[b]

(* An error ends the program.                                              *)
ConnectionError ==
  /\ Calls("error")
  /\ outcome' = "exit"
  /\ UNCHANGED <<pc, events, timeout, revents, sendVars, socketVars, pipelineVars, cameraVars>>

(* The callback returns, after reading or writing its descriptor or not.   *)
Returns(a, serviced) ==
  /\ revents' = revents \ {a}
  /\ outcome' = IF serviced THEN "running" ELSE "busy_wait"
  /\ pc' = IF revents' = {} THEN "poll_timeout" ELSE "callbacks"
  /\ UNCHANGED <<events, timeout>>

-----------------------------------------------------------------------------
(***************************************************************************)
(* The callbacks.                                                          *)
(***************************************************************************)

(* The token is read, then the loop stands still until the camera has a    *)
(* picture.                                                                *)
FetchBegins ==
  /\ Calls("fetch")
  /\ ReadStartPipe
  /\ pc' = "camera"
  /\ UNCHANGED <<events, timeout, revents, outcome, sendVars, socketVars, cameraVars>>

FetchEnds ==
  /\ Running /\ pc = "camera"
  /\ GetNextFrame
  /\ StartJobs
  /\ Returns("fetch", TRUE)
  /\ UNCHANGED <<sendVars, socketVars>>

(* The outputs are collected, and a frame of n fragments is sent; n is 0   *)
(* if the frame is skipped.  A first packet is pushed with any delay.      *)
EncodedSends(n, delay) ==
  /\ Calls("encoded")
  /\ CollectOutputs(n > 0, 0)
  /\ n > 0 => frame_no < MaxFrames
  /\ queue' = PushAll(queue, pushed + 1, n, delay)
  /\ pushed' = pushed + n
  /\ frame_no' = IF n > 0 THEN frame_no + 1 ELSE frame_no
  /\ Returns("encoded", TRUE)
  /\ UNCHANGED <<sent, socketVars, cameraVars>>

(* A job has thrown: so does the callback, and nothing catches it.         *)
EncodedThrows ==
  /\ Calls("encoded")
  /\ \E k \in DOMAIN encode_outputs :
       encode_outputs[k] # "taken" /\ CollectOutputs(FALSE, k)
  /\ outcome' = "exception"
  /\ UNCHANGED <<pc, events, timeout, revents, sendVars, socketVars, cameraVars>>

ReadAck ==
  /\ Calls("ack")
  /\ ack_waiting
  /\ ack_waiting' = FALSE
  /\ Returns("ack", TRUE)
  /\ UNCHANGED <<sendVars, socket_error, pipelineVars, cameraVars>>

(* All packets that are due leave.  The socket always has room for one.    *)
SendDue ==
  /\ Calls("send")
  /\ \E k \in 0 .. Len(queue) :
       /\ SendsWhileDue(k)
       /\ queue' = SubSeq(queue, k + 1, Len(queue))
       /\ sent' = sent + k
       /\ Returns("send", k > 0)
  /\ UNCHANGED <<frame_no, pushed, socketVars, pipelineVars, cameraVars>>

-----------------------------------------------------------------------------
(***************************************************************************)
(* What goes on meanwhile.  What only poll can see happens while the main  *)
(* thread is in it, pictures are taken while it looks for one, and time    *)
(* passes where the clock is read next.                                    *)
(***************************************************************************)

EncodeThread ==
  /\ Running
  /\ WorkerStep \/ JobStep
  /\ UNCHANGED <<pollVars, sendVars, socketVars, cameraVars>>

CameraDriver ==
  /\ Running /\ pc = "camera"
  /\ Capture
  /\ UNCHANGED <<pollVars, sendVars, socketVars, pipelineVars>>

(* Time passes; a poll that has waited long enough returns at once.        *)
Tick ==
  /\ Running
  /\ \/ pc \in {"poll_timeout", "interest"}
     \/ pc = "polling" /\ ReadyActions = {} /\ timeout > 0
     \/ Calls("encoded") \/ Calls("send")
  /\ queue' = Elapsed(queue)
  /\ timeout' = IF pc = "polling" THEN timeout - 1 ELSE timeout
  /\ UNCHANGED <<pc, events, revents, outcome, frame_no, pushed, sent, socketVars,
                 pipelineVars, cameraVars>>

AckArrives ==
  /\ Running /\ pc = "polling" /\ sent > 0 /\ ~ack_waiting
  /\ ack_waiting' = TRUE
  /\ UNCHANGED <<pollVars, sendVars, socket_error, pipelineVars, cameraVars>>

(* The receiver's host says that nobody listens.                           *)
PortUnreachable ==
  /\ Running /\ pc = "polling" /\ sent > 0 /\ ~socket_error
  /\ socket_error' = TRUE
  /\ UNCHANGED <<pollVars, sendVars, ack_waiting, pipelineVars, cameraVars>>

-----------------------------------------------------------------------------

MainThread ==
  \/ ComputeTimeout
  \/ AskInterest
  \/ PollReturns
  \/ PollTimesOut
  \/ ConnectionError
  \/ FetchBegins
  \/ FetchEnds
  \/ \E n \in 0 .. MaxFragments, delay \in Delays : EncodedSends(n, delay)
  \/ EncodedThrows
  \/ ReadAck
  \/ SendDue

Environment == CameraDriver \/ Tick \/ AckArrives \/ PortUnreachable

LoopNext == MainThread \/ EncodeThread \/ Environment

LoopSpec == LoopInit /\ [][LoopNext]_loopVars

(* The scheduler runs both threads, jobs end, the camera takes pictures    *)
(* and time passes.  Fairness of Tick is strong because the model lets time*)
(* pass in some places only.                                               *)
FairLoop ==
  /\ LoopSpec
  /\ WF_loopVars(MainThread)
  /\ WF_loopVars(EncodeThread)
  /\ WF_loopVars(CameraDriver)
  /\ SF_loopVars(Tick)

-----------------------------------------------------------------------------
(***************************************************************************)
(* Properties.                                                             *)
(***************************************************************************)

(* One token goes round: a datagram in one of the socket pairs, the camera *)
(* callback between reading one and starting the thread, or the thread.    *)
(* Two would have the sender encode twice at once, none would stop it.     *)
OneToken ==
  encode_start_pipe + encode_end_pipe + (IF pc = "camera" THEN 1 ELSE 0)
    + (IF worker = "none" THEN 0 ELSE 1) = 1

(* The vectors are shared with the detached thread and have no lock: while *)
(* the main thread is in a callback that uses them the thread does not run,*)
(* and while the thread runs the jobs are those it was started with.       *)
NoRaceOnJobs ==
  /\ pc = "camera" => worker = "none" /\ encode_jobs = 0
  /\ worker # "none" => encode_jobs > 0

(* When the callback collects the outputs every job has ended: future::get *)
(* does not stop the event loop, and no picture is lost for want of a valid*)
(* future ("All encoding jobs got killed").                                *)
CollectsWhatIsDone ==
  Calls("encoded") =>
    /\ worker = "none"
    /\ Len(encode_outputs) = encode_jobs /\ encode_jobs > 0
    /\ \A i \in DOMAIN encode_outputs : encode_outputs[i] = "done"

(* The jobs, and their outputs, belong to one thread after the other.      *)
JobsAreHandedOver == NoRaceOnJobs /\ CollectsWhatIsDone

(* The poller throws when a callback neither reads nor writes: the packet  *)
(* callback relies on its packet being due although the pacer was asked    *)
(* before the other callbacks had run.                                     *)
NeverBusyWaits == outcome # "busy_wait"

(* Every packet pushed is in the queue or has left, in the order in which  *)
(* packets were pushed, once.                                              *)
PacketsInOrder ==
  /\ Len(queue) = pushed - sent
  /\ \A i \in DOMAIN queue : queue[i].what = sent + i

(* No packet leaves a millisecond or more before its time.                 *)
NoPacketEarly ==
  [][\A i \in 1 .. sent' - sent : queue[i].when < Millisecond]_loopVars

(* The buffer that is read is the one that was dequeued: the driver is not *)
(* writing to it, and pictures come in the order in which they were taken, *)
(* without gaps, although the camera counts buffers by itself.             *)
PicturesInOrder ==
  [][pc = "camera" /\ pc' # "camera" =>
       last_raster' = IF last_raster = NoPicture THEN 0
                      ELSE (last_raster + 1) % Pictures]_loopVars

(* The frames that are sent leave, to the last packet, unless the program  *)
(* ends.                                                                   *)
PacketsLeave == pushed > sent ~> (pushed = sent \/ ~Running)

(* Pacing neither lets packets go too early nor holds them back for good.  *)
PacketsLeaveOnTime == NoPacketEarly /\ PacketsLeave

(* The sender never stops encoding, unless the program ends.               *)
KeepsEncoding == []<>(worker = "wait" \/ ~Running)

(* Pictures go on being encoded, each later than the one before.           *)
PicturesFlow == PicturesInOrder /\ KeepsEncoding
=============================================================================
