------------------------------ MODULE MCThreads ------------------------------
(* An instance of each of the two programs as a set of threads, for TLC: in*)
(* a behaviour one of them runs, and the other stays as it starts.         *)
EXTENDS SenderLoop, ReceiverThreads

VARIABLE program

(* A millisecond.                                                          *)
MCDelays == {2}

Inter == [key_frame |-> FALSE, show_frame |-> TRUE, refresh_last |-> TRUE,
          refresh_golden_frame |-> FALSE, refresh_alternate_frame |-> FALSE,
          copy_buffer_to_golden |-> 0, copy_buffer_to_alternate |-> 0]

(* A frame as the encoder makes them, and a hidden frame for later that    *)
(* moves the golden one aside.                                             *)
MCHeaders ==
  {[Inter EXCEPT !.refresh_golden_frame = TRUE, !.refresh_alternate_frame = TRUE],
   [Inter EXCEPT !.show_frame = FALSE, !.refresh_last = FALSE, !.refresh_golden_frame = TRUE,
                 !.copy_buffer_to_alternate = 2]}

(* The sender has ended, of a socket error say.                            *)
LoopHasEnded ==
  /\ PipelineInit /\ CameraInit
  /\ operation_mode = CHOOSE mode \in OperationMode : TRUE
  /\ queue = << >> /\ frame_no = 0 /\ pushed = 0 /\ sent = 0
  /\ pc = "poll_timeout" /\ events = {} /\ timeout = 0 /\ revents = {}
  /\ outcome = "exit"
  /\ ack_waiting = FALSE /\ socket_error = FALSE

(* The receiver still waits for its first packet.                          *)
ThreadsWait == ThreadsInit /\ header = CHOOSE h \in Headers : TRUE

ProgramsInit ==
  \/ program = "salsify-sender" /\ LoopInit /\ ThreadsWait
  \/ program = "salsify-receiver" /\ ThreadsInit /\ LoopHasEnded

(* What one program does, or the other.                                    *)
Either(sends, receives) ==
  \/ program = "salsify-sender" /\ sends
  \/ program = "salsify-receiver" /\ receives

ProgramsNext ==
  /\ Either(LoopNext /\ UNCHANGED threadsVars, ThreadsNext /\ UNCHANGED loopVars)
  /\ UNCHANGED program

programVars == <<loopVars, threadsVars>>

(* The conjuncts of FairLoop in the one program, those of FairThreads in   *)
(* the other.                                                              *)
FairPrograms ==
  /\ ProgramsInit /\ [][ProgramsNext]_<<program, programVars>>
  /\ WF_programVars(Either(MainThread /\ UNCHANGED threadsVars, Display /\ UNCHANGED loopVars))
  /\ WF_programVars(Either(EncodeThread /\ UNCHANGED threadsVars,
                           (FinishDecoding \/ HashState \/ SaveDecoder) /\ UNCHANGED loopVars))
  /\ WF_loopVars(program = "salsify-sender" /\ CameraDriver)
  /\ SF_programVars(Either(Tick /\ UNCHANGED threadsVars, PushFrame /\ UNCHANGED loopVars))
===============================================================================
