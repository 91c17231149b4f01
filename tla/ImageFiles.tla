----------------------------- MODULE ImageFiles -----------------------------
(***************************************************************************)
(* The images that the receiver saves and serves: VideoDisplay::saveImage  *)
(* of src/display/display.cc, which a detached thread runs for each frame  *)
(* drawn, and the web socket monitor of src/salsify/salsify-receiver.cc,   *)
(* which sends an image when the next one exists.                          *)
(***************************************************************************)
EXTENDS Integers

CONSTANT MaxImages      \* frames drawn, a bound of the model

ASSUME ImagesAssumption == MaxImages \in Nat \ {0}

VARIABLES
  img_id,               \* the static variable of saveImage
  saver,                \* what each thread does next, by frame drawn
  saver_id,             \* the number each thread has read
  images,               \* the file of each number
  web_img_id,           \* the global variable of the monitor
  terminated,           \* an exception has ended the receiver
  overlapped            \* two threads have saved at once, a history variable

imageVars ==
  <<img_id, saver, saver_id, images, web_img_id, terminated, overlapped>>

Images == 1 .. MaxImages

NoImage == [frame |-> 0, whole |-> FALSE]

ImagesTypeOK ==
  /\ img_id \in 1 .. MaxImages + 1
  /\ saver \in [Images -> {"none", "started", "read", "named", "writing", "done"}]
  /\ saver_id \in [Images -> 0 .. MaxImages]
  /\ images \in [1 .. MaxImages + 1 -> [frame : 0 .. MaxImages, whole : BOOLEAN]]
  /\ web_img_id \in Images
  /\ terminated \in BOOLEAN /\ overlapped \in BOOLEAN

ImagesInit ==
  /\ img_id = 1
  /\ saver = [k \in Images |-> "none"]
  /\ saver_id = [k \in Images |-> 0]
  /\ images = [i \in 1 .. MaxImages + 1 |-> NoImage]
  /\ web_img_id = 1
  /\ terminated = FALSE
  /\ overlapped = FALSE

(* Frame k is drawn, and its pixels are handed to a thread.                *)
StartSaver(k) ==
  /\ saver[k] = "none"
  /\ \A j \in 1 .. k - 1 : saver[j] # "none"
  /\ saver' = [saver EXCEPT ![k] = "started"]
  /\ overlapped' = (overlapped \/ \E j \in Images : saver[j] \notin {"none", "done"})
  /\ UNCHANGED <<img_id, saver_id, images, web_img_id, terminated>>

Moves(k, from, to) ==
  /\ saver[k] = from
  /\ saver' = [saver EXCEPT ![k] = to]
  /\ UNCHANGED <<web_img_id, terminated, overlapped>>

(* img_id++ reads and writes the variable without a lock.                  *)
ReadsId(k) ==
  /\ Moves(k, "started", "read")
  /\ saver_id' = [saver_id EXCEPT ![k] = img_id]
  /\ UNCHANGED <<img_id, images>>

NextId(k) == saver_id[k] + 1

WritesId(k) ==
  /\ Moves(k, "read", "named")
  /\ img_id' = NextId(k)
  /\ UNCHANGED <<saver_id, images>>

(* imwrite opens the file, and closes it when the image is written.        *)
OpensFile(k) ==
  /\ Moves(k, "named", "writing")
  /\ images' = [images EXCEPT ![saver_id[k]] = [frame |-> k, whole |-> FALSE]]
  /\ UNCHANGED <<img_id, saver_id>>

ClosesFile(k) ==
  /\ Moves(k, "writing", "done")
  /\ images' = [images EXCEPT ![saver_id[k]] = [frame |-> k, whole |-> TRUE]]
  /\ UNCHANGED <<img_id, saver_id>>

Save(k) == ReadsId(k) \/ WritesId(k) \/ OpensFile(k) \/ ClosesFile(k)

Exists(i) == images[i].frame # 0

(* Sends an image as soon as it exists.                                    *)
MutantImageReady == Exists(web_img_id)

ImageReady == Exists(web_img_id + 1)

(* The browser asks for an image.  ReadImage makes a buffer of the file's  *)
(* length, which is -1 if there is no file: an exception nobody catches.   *)
SendPicture ==
  /\ ImageReady
  /\ IF Exists(web_img_id)
     THEN web_img_id' = web_img_id + 1 /\ UNCHANGED terminated
     ELSE terminated' = TRUE /\ UNCHANGED web_img_id
  /\ UNCHANGED <<img_id, saver, saver_id, images, overlapped>>

ImagesNext ==
  /\ ~terminated
  /\ (\E k \in Images : StartSaver(k) \/ Save(k)) \/ SendPicture

-----------------------------------------------------------------------------

(* As long as no two threads save at the same time, the pictures sent to   *)
(* the browser are complete and in the order drawn, and the monitor finds  *)
(* the file it reads.  When they do, two threads may take one number, and a*)
(* file may exist before the one with the number below.                    *)
ImagesInOrderUnlessOverlapping ==
  [][~overlapped' =>
       /\ ~terminated'
       /\ web_img_id' # web_img_id =>
            images[web_img_id] = [frame |-> web_img_id, whole |-> TRUE]]_imageVars
=============================================================================
