--------------------------- MODULE EncodePipeline ---------------------------
(***************************************************************************)
(* How the sender has a picture encoded: two socket pairs, a detached      *)
(* thread for each picture, a future for each job.  The main thread starts *)
(* the jobs when it finds a datagram in encode_start_pipe and collects     *)
(* their outputs when it finds one in encode_end_pipe.                     *)
(***************************************************************************)
EXTENDS Integers, Sequences, FiniteSets, SequencesExt

VARIABLES
  operation_mode,
  encode_start_pipe,    \* datagrams waiting in the socket pair
  encode_end_pipe,
  encode_jobs,          \* size of the vector
  encode_outputs,       \* the state of each future
  worker                \* what the detached thread does next, or "none"

pipelineVars ==
  <<operation_mode, encode_start_pipe, encode_end_pipe, encode_jobs,
    encode_outputs, worker>>

OperationMode == {"s1", "s2", "conventional"}

FutureState == {"deferred", "running", "done", "taken"}

PipelineTypeOK ==
  /\ operation_mode \in OperationMode
  /\ encode_start_pipe \in Nat
  /\ encode_end_pipe \in Nat
  /\ encode_jobs \in 0 .. 2
  /\ encode_outputs \in Seq(FutureState)
  /\ worker \in {"none", "launch", "wait"}

(* The first picture is asked for before the loop is entered.              *)
PipelineInit ==
  /\ operation_mode \in OperationMode
  /\ encode_start_pipe = 1
  /\ encode_end_pipe = 0
  /\ encode_jobs = 0
  /\ encode_outputs = << >>
  /\ worker = "none"

-----------------------------------------------------------------------------
(***************************************************************************)
(* The detached thread.                                                    *)
(***************************************************************************)

(* The futures of the frame before are dropped.  async runs a job in a     *)
(* thread of its own in mode s2, and puts it off until somebody waits for  *)
(* it in the others.                                                       *)
WorkerLaunches ==
  /\ worker = "launch"
  /\ encode_outputs' =
       [i \in 1 .. encode_jobs |-> IF operation_mode = "s2" THEN "running" ELSE "deferred"]
  /\ worker' = "wait"
  /\ UNCHANGED <<operation_mode, encode_start_pipe, encode_end_pipe, encode_jobs>>

(* do_encode_job ends.  Whether it has thrown is seen when its future is   *)
(* asked for the output.                                                   *)
JobEnds(i) ==
  /\ \/ encode_outputs[i] = "running"
     \/ /\ worker = "wait"
        /\ encode_outputs[i] = "deferred"
        /\ \A j \in 1 .. i - 1 : encode_outputs[j] = "done"
  /\ encode_outputs' = [encode_outputs EXCEPT ![i] = "done"]
  /\ UNCHANGED <<operation_mode, encode_start_pipe, encode_end_pipe, encode_jobs, worker>>

(* Waits for the first job only.                                           *)
MutantAllWaited == encode_outputs[1] = "done"

AllWaited == \A i \in DOMAIN encode_outputs : encode_outputs[i] = "done"

(* The loop of wait() calls ends, and the thread with it.                  *)
WorkerWrites ==
  /\ worker = "wait"
  /\ AllWaited
  /\ encode_end_pipe' = encode_end_pipe + 1
  /\ worker' = "none"
  /\ UNCHANGED <<operation_mode, encode_start_pipe, encode_jobs, encode_outputs>>

WorkerStep == WorkerLaunches \/ WorkerWrites

JobStep == \E i \in DOMAIN encode_outputs : JobEnds(i)

-----------------------------------------------------------------------------
(***************************************************************************)
(* The callbacks of the main thread.                                       *)
(***************************************************************************)

(* The camera callback reads the token before it waits for a picture.      *)
ReadStartPipe ==
  /\ encode_start_pipe > 0
  /\ encode_start_pipe' = encode_start_pipe - 1
  /\ UNCHANGED <<operation_mode, encode_end_pipe, encode_jobs, encode_outputs, worker>>

(* It returns if a frame is being encoded; otherwise it chooses an encoder, *)
(* adds the jobs and starts the thread.                                    *)
StartJobs ==
  LET busy == encode_jobs > 0
      jobs == IF operation_mode = "conventional" THEN 1 ELSE 2
  IN  /\ encode_jobs' = IF busy THEN encode_jobs ELSE jobs
      /\ worker' = IF busy THEN worker ELSE "launch"
      /\ UNCHANGED <<operation_mode, encode_start_pipe, encode_end_pipe, encode_outputs>>

(* future::get blocks until the job has ended.                             *)
CanCollect ==
  \A i \in DOMAIN encode_outputs : encode_outputs[i] \notin {"running", "deferred"}

(* Asks for the next picture when a frame is sent, not when it is skipped. *)
MutantTokensReturned(sends) == IF sends THEN 1 ELSE 0

(* The finally block asks for the next picture whatever happens.           *)
TokensReturned(sends) == 1

(* The other callback collects the outputs; whether it sends one of them,  *)
(* skips the frame or passes on what future k has thrown, the finally block *)
(* comes last.  k is 0 if none has.                                        *)
CollectOutputs(sends, k) ==
  /\ encode_end_pipe > 0
  /\ CanCollect
  /\ encode_end_pipe' = encode_end_pipe - 1
  /\ encode_outputs' =
       [i \in DOMAIN encode_outputs |->
          IF k = 0 \/ i <= k THEN "taken" ELSE encode_outputs[i]]
  /\ encode_jobs' = 0
  /\ encode_start_pipe' = encode_start_pipe + TokensReturned(sends)
  /\ UNCHANGED <<operation_mode, worker>>
=============================================================================
