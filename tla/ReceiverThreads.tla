--------------------------- MODULE ReceiverThreads ---------------------------
(***************************************************************************)
(* The main and the display thread of src/salsify/salsify-receiver.cc and  *)
(* the rasters they share.  The main thread decodes frames and puts them on*)
(* display_queue (enqueue_frame, with a task whose future it waits for),   *)
(* the display thread draws them (display_task).                           *)
(***************************************************************************)
EXTENDS RasterPool, References, FiniteSets

CONSTANT Headers        \* headers of the frames that may arrive

ASSUME ThreadsAssumption ==
  /\ Headers \subseteq ReferenceHeader
  /\ \A h \in Headers : WellFormed(h)

VARIABLES
  main,                 \* where the main thread is in enqueue_frame
  header,               \* of the frame being decoded
  raster,               \* the raster of that frame
  references,           \* of the player's decoder
  decoders,             \* the references of the decoders saved
  decoded,              \* frames decoded
  display,              \* where the display thread is
  display_queue,        \* Seq([raster, number]), the number a history variable
  shown,                \* frames pushed, a history variable
  drawn                 \* frames drawn, a history variable

mainVars == <<main, header, raster, references, decoders, decoded>>
displayVars == <<display, display_queue, shown, drawn>>
threadsVars == <<mainVars, displayVars, poolVars>>

Refs == [ReferenceNames -> Rasters]

ThreadsTypeOK ==
  /\ PoolTypeOK
  /\ main \in {"waiting", "decoding", "pushing", "hashing", "saving"}
  /\ header \in Headers
  /\ raster \in Rasters \cup {NoRaster}
  /\ references \in Refs
  /\ decoders \subseteq Refs
  /\ decoded \in 0 .. MaxDecoded
  /\ display \in {"starting", "locking", "checking", "sleeping", "drawing"}
  /\ display_queue \in Seq([raster : Rasters, number : 1 .. MaxDecoded])
  /\ shown \in 0 .. MaxDecoded /\ drawn \in 0 .. MaxDecoded

(* The first decoder is saved and its hash known before any packet comes.  *)
ThreadsInit ==
  /\ PoolInit
  /\ main = "waiting"
  /\ header \in Headers
  /\ raster = NoRaster
  /\ references = AllReferences(0)
  /\ decoders = {AllReferences(0)}
  /\ decoded = 0
  /\ display = "starting"
  /\ display_queue = << >>
  /\ shown = 0 /\ drawn = 0

-----------------------------------------------------------------------------
(***************************************************************************)
(* Who holds what.                                                         *)
(***************************************************************************)

(* Does not count the handles on the display queue.                        *)
MutantHeld(r) ==
  r = raster \/ \E refs \in decoders \cup {references} : r \in Range(refs)

(* The mutable handle of a frame being decoded and its Optional, the       *)
(* references of every decoder, and the display queue hold rasters.        *)
Held(r) ==
  \/ r = raster
  \/ \E refs \in decoders \cup {references} : r \in Range(refs)
  \/ \E i \in DOMAIN display_queue : r = display_queue[i].raster

(* A raster whose last handle is gone, and whose deleter is running.       *)
Dying(r) == r \in Allocated /\ r \notin Unused /\ ~Held(r)

(* The mutex mtx is held by the display thread while it draws.             *)
MutexIsFree == display \notin {"checking", "drawing"}

-----------------------------------------------------------------------------
(***************************************************************************)
(* The main thread.                                                        *)
(***************************************************************************)

(* A frame comes whose source is a decoder that was saved.                 *)
SetDecoder ==
  /\ main = "waiting"
  /\ \E refs \in decoders : references' = refs
  /\ UNCHANGED <<main, header, raster, decoders, decoded, displayVars, poolVars>>

(* A decoder is pruned that no sender refers to any more.                  *)
EraseDecoder ==
  /\ main = "waiting"
  /\ \E refs \in decoders : decoders' = decoders \ {refs}
  /\ UNCHANGED <<main, header, raster, references, decoded, displayVars, poolVars>>

(* Decoder::decode_frame takes a raster ...                                *)
StartDecoding ==
  /\ main = "waiting"
  /\ decoded < MaxDecoded
  /\ header' \in Headers
  /\ \E r \in Rasters : MakeRaster(r) /\ raster' = r
  /\ main' = "decoding"
  /\ UNCHANGED <<references, decoders, decoded, displayVars>>

(* ... decodes into it, and shares it with the references; the frame is    *)
(* shown or not.                                                           *)
FinishDecoding ==
  /\ main = "decoding"
  /\ decoded' = decoded + 1
  /\ FinishRaster(raster, decoded')
  /\ references' = CopyTo(references, header, raster)
  /\ main' = "pushing"
  /\ UNCHANGED <<header, raster, decoders, displayVars>>

(* Does not notify.                                                        *)
MutantNotified == display

Notified == IF display = "sleeping" THEN "locking" ELSE display

(* Pushes the Optional that was moved from.                                *)
MutantPushed == Append(display_queue, [raster |-> NoRaster, number |-> decoded])

Pushed == Append(display_queue, [raster |-> raster, number |-> decoded])

(* The task pushes the frame if it is shown; async's future waits for it in*)
(* its destructor, and the Optional is dropped.                            *)
PushFrame ==
  /\ main = "pushing"
  /\ IF header.show_frame
     THEN /\ MutexIsFree
          /\ display_queue' = Pushed
          /\ display' = Notified
          /\ shown' = shown + 1
     ELSE UNCHANGED <<display_queue, display, shown>>
  /\ raster' = NoRaster
  /\ main' = "hashing"
  /\ UNCHANGED <<header, references, decoders, decoded, drawn, poolVars>>

(* The new state is the hash of the references, among others.              *)
HashState ==
  /\ main = "hashing"
  /\ HashRasters(Range(references))
  /\ main' = "saving"
  /\ UNCHANGED <<header, raster, references, decoders, decoded, displayVars>>

(* A full state is saved, another is not.                                  *)
SaveDecoder ==
  /\ main = "saving"
  /\ decoders' \in {decoders, decoders \cup {references}}
  /\ main' = "waiting"
  /\ UNCHANGED <<header, raster, references, decoded, displayVars, poolVars>>

Main ==
  \/ SetDecoder \/ EraseDecoder
  \/ StartDecoding \/ FinishDecoding \/ PushFrame \/ HashState \/ SaveDecoder

-----------------------------------------------------------------------------
(***************************************************************************)
(* The display thread, and the deleters.                                   *)
(***************************************************************************)

DisplayMoves(from, to) ==
  /\ display = from
  /\ display' = to
  /\ UNCHANGED <<display_queue, shown, drawn, mainVars, poolVars>>

(* The window is made, and the mutex locked.                               *)
OpenWindow == DisplayMoves("starting", "locking")
LockMutex == DisplayMoves("locking", "checking")

MaySleep == display_queue = << >>

(* condition_variable::wait unlocks the mutex if there is nothing to draw. *)
WaitForFrame == MaySleep /\ DisplayMoves("checking", "sleeping")
StartDrawing == ~MaySleep /\ DisplayMoves("checking", "drawing")

(* A wait may end although nobody has notified.                            *)
WakeSpuriously == DisplayMoves("sleeping", "locking")

(* A frame is drawn and popped.                                            *)
DrawFrame ==
  /\ display = "drawing"
  /\ display_queue # << >>
  /\ drawn' = drawn + 1
  /\ display_queue' = Tail(display_queue)
  /\ UNCHANGED <<display, shown, mainVars, poolVars>>

(* The mutex is unlocked at the end of the loop's body.                    *)
StopDrawing == display_queue = << >> /\ DisplayMoves("drawing", "locking")

Display ==
  OpenWindow \/ LockMutex \/ WaitForFrame \/ StartDrawing \/ DrawFrame \/ StopDrawing

Delete ==
  /\ \E r \in Rasters : Dying(r) /\ (ResetCache(r) \/ FreeRaster(r))
  /\ UNCHANGED <<mainVars, displayVars>>

ThreadsNext == Main \/ Display \/ WakeSpuriously \/ Delete

ThreadsSpec == ThreadsInit /\ [][ThreadsNext]_threadsVars

(* The scheduler runs each thread.  The mutex is not fair, but the main    *)
(* thread leaves it alone while it waits for packets.                      *)
FairThreads ==
  /\ ThreadsSpec
  /\ WF_threadsVars(Display)
  /\ WF_threadsVars(FinishDecoding \/ HashState \/ SaveDecoder)
  /\ SF_threadsVars(PushFrame)

-----------------------------------------------------------------------------
(***************************************************************************)
(* Properties.                                                             *)
(***************************************************************************)

(* A raster is used by those who hold it, deleted, or unused, once: no     *)
(* decoder writes to a raster that another thread still draws, none is     *)
(* freed twice.                                                            *)
NoRasterIsReused ==
  /\ Cardinality(Unused) = Len(unused_rasters)
  /\ \A r \in Unused : ~Held(r)
  /\ raster # NoRaster /\ main = "decoding" =>
       \A i \in DOMAIN display_queue : display_queue[i].raster # raster

(* Until it is drawn, a frame on the queue shows what was decoded.         *)
QueuedIsIntact ==
  \A i \in DOMAIN display_queue :
    contents[display_queue[i].raster] = display_queue[i].number

(* The hash that a handle caches is that of what the raster shows now, and *)
(* a raster taken from the pool has none: the states that both programs    *)
(* compare are made of these hashes.                                       *)
HashIsCurrent ==
  \A r \in Allocated :
    /\ Held(r) => frozen_hash[r] \in {NoHash, contents[r]}
    /\ r = raster => frozen_hash[r] = NoHash

(* What a thread holds is what it was when it took hold of it.             *)
RastersAreSafe == NoRasterIsReused /\ QueuedIsIntact /\ HashIsCurrent

(* Every frame that is pushed is drawn: no wakeup is lost.                 *)
FramesAreDrawn ==
  display_queue # << >> ~> display_queue = << >>

(* The display never stops the main thread for good, which waits for the   *)
(* mutex inside a packet's callback.                                       *)
MainGoesOn == main = "pushing" ~> main = "waiting"

(* Neither of the two threads that share the queue holds the other up.     *)
ThreadsGoOn == FramesAreDrawn /\ MainGoesOn
=============================================================================
