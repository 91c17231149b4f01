----------------------------- MODULE CameraRing -----------------------------
(***************************************************************************)
(* Camera::get_next_frame of src/input/camera.cc and the ring of buffers   *)
(* it shares with the video driver.  The driver fills the buffers that are *)
(* queued, in the order in which they were queued; a picture taken while   *)
(* none is queued is lost.  Pictures that are not lost are numbered,       *)
(* modulo Pictures.                                                        *)
(***************************************************************************)
EXTENDS Integers, Sequences

CONSTANTS
  NumBuffers,       \* NUM_BUFFERS: 4
  Pictures          \* pictures are numbered modulo this

ASSUME CameraAssumption ==
  /\ NumBuffers \in Nat \ {0}
  /\ Pictures \in Nat /\ Pictures > NumBuffers

NoPicture == Pictures

VARIABLES
  next_buffer_index,
  kernel_v4l2_buffers,  \* what each buffer holds for the program to read
  queued,               \* indices of the buffers the driver may fill
  filled,               \* indices of the buffers the driver has filled
  pictures,             \* the number of the next picture
  last_raster           \* what get_next_frame returned last

cameraVars ==
  <<next_buffer_index, kernel_v4l2_buffers, queued, filled, pictures, last_raster>>

Buffers == 0 .. NumBuffers - 1
Picture == 0 .. Pictures - 1

CameraTypeOK ==
  /\ next_buffer_index \in Buffers
  /\ kernel_v4l2_buffers \in [Buffers -> Picture \cup {NoPicture}]
  /\ queued \in Seq(Buffers)
  /\ filled \in Seq(Buffers)
  /\ pictures \in Picture
  /\ last_raster \in Picture \cup {NoPicture}

(* The constructor queues every buffer and starts the stream.              *)
CameraInit ==
  /\ next_buffer_index = 0
  /\ kernel_v4l2_buffers = [b \in Buffers |-> NoPicture]
  /\ queued = [i \in 1 .. NumBuffers |-> i - 1]
  /\ filled = << >>
  /\ pictures = 0
  /\ last_raster = NoPicture

(* The driver takes a picture.                                             *)
Capture ==
  /\ queued # << >>
  /\ kernel_v4l2_buffers' = [kernel_v4l2_buffers EXCEPT ![Head(queued)] = pictures]
  /\ filled' = Append(filled, Head(queued))
  /\ queued' = Tail(queued)
  /\ pictures' = (pictures + 1) % Pictures
  /\ UNCHANGED <<next_buffer_index, last_raster>>

(* Forgets that the ring ends.                                             *)
MutantNoRing == next_buffer_index + 1

(* Stays at the last buffer.                                               *)
MutantNextIndex ==
  IF next_buffer_index = NumBuffers - 1 THEN next_buffer_index ELSE next_buffer_index + 1

NextIndex == (next_buffer_index + 1) % NumBuffers

(* VIDIOC_DQBUF blocks until a buffer is filled and says which one it is,  *)
(* and that one is given back; the picture is read from the buffer whose   *)
(* turn it is by the camera's own count.                                   *)
GetNextFrame ==
  /\ filled # << >>
  /\ last_raster' = kernel_v4l2_buffers[next_buffer_index]
  /\ filled' = Tail(filled)
  /\ queued' = Append(queued, Head(filled))
  /\ kernel_v4l2_buffers' = [kernel_v4l2_buffers EXCEPT ![Head(filled)] = NoPicture]
  /\ next_buffer_index' = NextIndex
  /\ UNCHANGED pictures
=============================================================================
