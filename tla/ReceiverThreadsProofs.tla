------------------------ MODULE ReceiverThreadsProofs -------------------------
(***************************************************************************)
(* The receiver's threads never disturb a raster that another one holds,   *)
(* for any number of frames, any headers, and any order of decoding,       *)
(* drawing, pruning and deleting.                                          *)
(***************************************************************************)
EXTENDS ReceiverThreads, FiniteSetTheorems, FunctionTheorems, TLAPS

(* Unused rasters are known once, nobody holds them, and their cached hash *)
(* is forgotten.                                                           *)
UnusedAreFree ==
  /\ \A i, j \in 1 .. Len(unused_rasters) : i # j => unused_rasters[i] # unused_rasters[j]
  /\ \A i \in 1 .. Len(unused_rasters) :
       /\ unused_rasters[i] \in Allocated
       /\ ~Held(unused_rasters[i])
       /\ frozen_hash[unused_rasters[i]] = NoHash

HeldAreAllocated ==
  \A r \in Rasters :
    /\ Held(r) => r \in Allocated /\ frozen_hash[r] \in {NoHash, contents[r]}
    /\ r \notin Allocated => frozen_hash[r] = NoHash

PoolSafe == UnusedAreFree /\ HeldAreAllocated

(* The frame in the main thread's hands, and the numbers of frames.        *)
MainSafe ==
  /\ main \in {"decoding", "pushing"} <=> raster # NoRaster
  /\ raster # NoRaster => frozen_hash[raster] = NoHash
  /\ main = "decoding" =>
       /\ decoded < MaxDecoded
       /\ \A i \in 1 .. Len(display_queue) : display_queue[i].raster # raster
  /\ main = "pushing" => contents[raster] = decoded /\ shown < decoded
  /\ shown <= decoded
  /\ drawn + Len(display_queue) = shown
  /\ \A i \in 1 .. Len(display_queue) : contents[display_queue[i].raster] = display_queue[i].number

ThreadsInv == ThreadsTypeOK /\ PoolSafe /\ MainSafe

-----------------------------------------------------------------------------
(***************************************************************************)
(* What is held.                                                           *)
(***************************************************************************)

LEMMA RangeOfReferences ==
  ASSUME NEW refs \in Refs
  PROVE  Range(refs) = {refs["last"], refs["golden"], refs["alternative"]}
         /\ refs["last"] \in Rasters /\ refs["golden"] \in Rasters /\ refs["alternative"] \in Rasters
BY DEF Refs, ReferenceNames, Range

(* The decoded raster takes some of the places, old ones the others.       *)
LEMMA CopyToKeepsRasters ==
  ASSUME NEW refs \in Refs, NEW h, NEW r \in Rasters
  PROVE  CopyTo(refs, h, r) \in Refs /\ Range(CopyTo(refs, h, r)) \subseteq Range(refs) \cup {r}
<1> DEFINE copied == CopyTo(refs, h, r)
<1> DEFINE old == {refs["last"], refs["golden"], refs["alternative"]}
<1>1. Range(refs) = old /\ old \subseteq Rasters
  BY RangeOfReferences
<1>2. CopiedAlternative(refs, h) \in old
  BY DEF CopiedAlternative
<1>3. CopiedGolden(refs, h) \in old
  BY <1>2 DEF CopiedGolden
<1>4. copied \in [ReferenceNames -> old \cup {r}]
  <2>1. CASE h.key_frame
    BY <2>1 DEF CopyTo, AllReferences
  <2>2. CASE ~h.key_frame
    BY <1>2, <1>3, <2>2 DEF CopyTo, ReferenceNames
  <2>3. QED
    BY <2>1, <2>2
<1> HIDE DEF copied, old
<1>5. old \cup {r} \subseteq Rasters
  BY <1>1
<1>6. copied \in Refs
  BY <1>4, <1>5 DEF Refs
<1>7. Range(copied) \subseteq old \cup {r}
  BY <1>4 DEF Range
<1>8. QED
  BY <1>1, <1>6, <1>7 DEF copied

(* Rasters are only let go of, and the pool is left alone.                 *)
LEMMA LettingGoIsSafe ==
  ASSUME ThreadsTypeOK, PoolSafe, UNCHANGED poolVars, \A r \in Rasters : Held(r)' => Held(r)
  PROVE  PoolSafe'
<1>1. \A i \in 1 .. Len(unused_rasters) : unused_rasters[i] \in Rasters
  BY DEF ThreadsTypeOK, PoolTypeOK
<1>2. UNCHANGED <<unused_rasters, created, contents, frozen_hash>>
  BY DEF poolVars
<1>3. UnusedAreFree'
  BY <1>1, <1>2 DEF PoolSafe, UnusedAreFree, Allocated
<1>4. HeldAreAllocated'
  BY <1>2 DEF PoolSafe, HeldAreAllocated, Allocated
<1>5. QED
  BY <1>3, <1>4 DEF PoolSafe

LEMMA SequenceElements ==
  ASSUME NEW S, NEW s \in Seq(S)
  PROVE  Len(s) \in Nat /\ DOMAIN s = 1 .. Len(s) /\ \A i \in 1 .. Len(s) : s[i] \in S
OBVIOUS

QueueEntry == [raster : Rasters, number : 1 .. MaxDecoded]

LEMMA QueuedAreHeld ==
  ASSUME ThreadsTypeOK
  PROVE  /\ Len(display_queue) \in Nat
         /\ \A i \in 1 .. Len(display_queue) :
              /\ display_queue[i] \in QueueEntry
              /\ display_queue[i].raster \in Rasters /\ Held(display_queue[i].raster)
              /\ display_queue[i].number \in 1 .. MaxDecoded
<1>1. display_queue \in Seq(QueueEntry)
  BY DEF ThreadsTypeOK, QueueEntry
<1>2. /\ Len(display_queue) \in Nat /\ DOMAIN display_queue = 1 .. Len(display_queue)
      /\ \A i \in 1 .. Len(display_queue) : display_queue[i] \in QueueEntry
  BY <1>1, SequenceElements
<1>3. \A i \in 1 .. Len(display_queue) : Held(display_queue[i].raster)
  BY <1>2 DEF Held
<1>4. \A e \in QueueEntry : e.raster \in Rasters /\ e.number \in 1 .. MaxDecoded
  BY DEF QueueEntry
<1>5. QED
  BY <1>2, <1>3, <1>4

(* A step that changes no variable.                                        *)
LEMMA StutteringIsSafe ==
  ASSUME ThreadsInv, UNCHANGED threadsVars
  PROVE  ThreadsInv'
<1>1. UNCHANGED <<main, header, raster, references, decoders, decoded,
                  display, display_queue, shown, drawn, poolVars>>
  BY DEF threadsVars, mainVars, displayVars
<1>2. \A r \in Rasters : Held(r)' => Held(r)
  BY <1>1 DEF Held
<1>3. PoolSafe'
  BY <1>1, <1>2, LettingGoIsSafe DEF ThreadsInv
<1>4. ThreadsTypeOK' /\ MainSafe'
  BY <1>1 DEF ThreadsInv, ThreadsTypeOK, PoolTypeOK, MainSafe, poolVars
<1>5. QED
  BY <1>3, <1>4 DEF ThreadsInv

-----------------------------------------------------------------------------
(***************************************************************************)
(* The main thread.                                                        *)
(***************************************************************************)

LEMMA SetDecoderIsSafe ==
  ASSUME ThreadsInv, SetDecoder
  PROVE  ThreadsInv'
<1>1. references' \in decoders
      /\ UNCHANGED <<main, header, raster, decoders, decoded, display, display_queue, shown, drawn, poolVars>>
  BY DEF SetDecoder, displayVars
<1>2. \A r \in Rasters : Held(r)' => Held(r)
  BY <1>1 DEF Held
<1>3. PoolSafe'
  BY <1>1, <1>2, LettingGoIsSafe DEF ThreadsInv
<1>4. ThreadsTypeOK' /\ MainSafe'
  BY <1>1 DEF ThreadsInv, ThreadsTypeOK, PoolTypeOK, MainSafe, poolVars
<1>5. QED
  BY <1>3, <1>4 DEF ThreadsInv

LEMMA EraseDecoderIsSafe ==
  ASSUME ThreadsInv, EraseDecoder
  PROVE  ThreadsInv'
<1>1. decoders' \subseteq decoders
      /\ UNCHANGED <<main, header, raster, references, decoded, display, display_queue, shown, drawn, poolVars>>
  BY DEF EraseDecoder, displayVars
<1>2. \A r \in Rasters : Held(r)' => Held(r)
  BY <1>1 DEF Held
<1>3. PoolSafe'
  BY <1>1, <1>2, LettingGoIsSafe DEF ThreadsInv
<1>4. ThreadsTypeOK' /\ MainSafe'
  BY <1>1 DEF ThreadsInv, ThreadsTypeOK, PoolTypeOK, MainSafe, poolVars
<1>5. QED
  BY <1>3, <1>4 DEF ThreadsInv

LEMMA SaveDecoderIsSafe ==
  ASSUME ThreadsInv, SaveDecoder
  PROVE  ThreadsInv'
<1>1. decoders' \subseteq decoders \cup {references} /\ main = "saving" /\ main' = "waiting"
      /\ UNCHANGED <<header, raster, references, decoded, display, display_queue, shown, drawn, poolVars>>
  BY DEF SaveDecoder, displayVars
<1>2. \A r \in Rasters : Held(r)' => Held(r)
  BY <1>1 DEF Held
<1>3. PoolSafe'
  BY <1>1, <1>2, LettingGoIsSafe DEF ThreadsInv
<1>4. ThreadsTypeOK' /\ MainSafe'
  BY <1>1 DEF ThreadsInv, ThreadsTypeOK, PoolTypeOK, MainSafe, poolVars
<1>5. QED
  BY <1>3, <1>4 DEF ThreadsInv

(* A raster that is taken from the pool, or made, is nobody's.             *)
LEMMA TakenRasterIsFree ==
  ASSUME ThreadsTypeOK, PoolSafe, NEW r \in Rasters, MakeRaster(r)
  PROVE  /\ r \in Allocated' /\ Allocated \subseteq Allocated' /\ ~Held(r) /\ frozen_hash[r] = NoHash
         /\ \A i \in 1 .. Len(unused_rasters') :
              /\ i + 1 \in 1 .. Len(unused_rasters)
              /\ unused_rasters'[i] = unused_rasters[i + 1] /\ unused_rasters'[i] # r
         /\ PoolTypeOK'
<1> USE PoolAssumption
<1>1. /\ unused_rasters \in Seq(Rasters) /\ created \in 1 .. MaxDecoded + 1
      /\ contents \in [Rasters -> Contents] /\ frozen_hash \in [Rasters -> Contents \cup {NoHash}]
  BY DEF ThreadsTypeOK, PoolTypeOK
<1>2. contents' \in [Rasters -> Contents] /\ frozen_hash' = frozen_hash
  BY <1>1 DEF MakeRaster, Contents, HalfDecoded
<1>3. CASE unused_rasters = << >>
  <2>1. r = created /\ created' = created + 1 /\ unused_rasters' = << >>
    BY <1>3 DEF MakeRaster
  <2>2. r \notin Allocated /\ r \in Allocated' /\ Allocated \subseteq Allocated'
    BY <1>1, <2>1 DEF Allocated
  <2>3. created' \in 1 .. MaxDecoded + 1
    BY <1>1, <2>1 DEF Rasters
  <2>4. ~Held(r) /\ frozen_hash[r] = NoHash
    BY <2>2 DEF PoolSafe, HeldAreAllocated
  <2>5. unused_rasters' \in Seq(Rasters) /\ Len(unused_rasters') = 0
    BY <2>1
  <2>6. PoolTypeOK'
    BY <1>1, <1>2, <2>3, <2>5 DEF PoolTypeOK, Rasters, Contents, NoHash
  <2>7. QED
    BY <2>2, <2>4, <2>5, <2>6
<1>4. CASE unused_rasters # << >>
  <2>1. r = Head(unused_rasters) /\ unused_rasters' = Tail(unused_rasters) /\ created' = created
    BY <1>4 DEF MakeRaster
  <2>2. /\ Len(unused_rasters) \in Nat /\ Len(unused_rasters) > 0 /\ r = unused_rasters[1]
        /\ unused_rasters' \in Seq(Rasters) /\ Len(unused_rasters') = Len(unused_rasters) - 1
        /\ \A i \in 1 .. Len(unused_rasters) - 1 : unused_rasters'[i] = unused_rasters[i + 1]
    BY <1>1, <1>4, <2>1
  <2>3. r \in Allocated /\ ~Held(r) /\ frozen_hash[r] = NoHash
    BY <2>2 DEF PoolSafe, UnusedAreFree
  <2>4. Allocated' = Allocated
    BY <2>1 DEF Allocated
  <2>5. ASSUME NEW i \in 1 .. Len(unused_rasters')
        PROVE  /\ i + 1 \in 1 .. Len(unused_rasters)
               /\ unused_rasters'[i] = unused_rasters[i + 1] /\ unused_rasters'[i] # r
    <3>1. i \in 1 .. Len(unused_rasters) - 1 /\ i + 1 \in 1 .. Len(unused_rasters) /\ i + 1 # 1
          /\ 1 \in 1 .. Len(unused_rasters)
      BY <2>2
    <3>2. unused_rasters[i + 1] # unused_rasters[1]
      BY <3>1 DEF PoolSafe, UnusedAreFree
    <3>3. QED
      BY <2>2, <3>1, <3>2
  <2>6. PoolTypeOK'
    BY <1>1, <1>2, <2>1, <2>2 DEF PoolTypeOK, Rasters, Contents, NoHash
  <2>7. QED
    BY <2>3, <2>4, <2>5, <2>6
<1>5. QED
  BY <1>3, <1>4

LEMMA StartDecodingIsSafe ==
  ASSUME ThreadsInv, StartDecoding
  PROVE  ThreadsInv'
<1>1. PICK r \in Rasters : MakeRaster(r) /\ raster' = r
  BY DEF StartDecoding
<1>2. /\ main = "waiting" /\ main' = "decoding" /\ decoded < MaxDecoded /\ header' \in Headers
      /\ UNCHANGED <<references, decoders, decoded, display, display_queue, shown, drawn>>
  BY DEF StartDecoding, displayVars
<1>3. ThreadsTypeOK /\ PoolSafe /\ MainSafe
  BY DEF ThreadsInv
<1>4. /\ r \in Allocated' /\ Allocated \subseteq Allocated' /\ ~Held(r) /\ frozen_hash[r] = NoHash
      /\ \A i \in 1 .. Len(unused_rasters') :
           /\ i + 1 \in 1 .. Len(unused_rasters)
           /\ unused_rasters'[i] = unused_rasters[i + 1] /\ unused_rasters'[i] # r
      /\ PoolTypeOK'
  BY <1>1, <1>3, TakenRasterIsFree
<1>5. /\ frozen_hash' = frozen_hash /\ contents \in [Rasters -> Contents]
      /\ contents' = [contents EXCEPT ![r] = HalfDecoded]
  BY <1>1, <1>3 DEF MakeRaster, ThreadsTypeOK, PoolTypeOK
<1>6. \A s \in Rasters : s # r => contents'[s] = contents[s]
  BY <1>5
<1>7. \A s \in Rasters : Held(s)' => Held(s) \/ s = r
  BY <1>1, <1>2 DEF Held
<1>8. \A i \in 1 .. Len(unused_rasters') : unused_rasters'[i] \in Rasters
  BY <1>4 DEF PoolTypeOK
<1>9. UnusedAreFree'
  <2>1. ASSUME NEW i \in 1 .. Len(unused_rasters'), NEW j \in 1 .. Len(unused_rasters'), i # j
        PROVE  unused_rasters'[i] # unused_rasters'[j]
    <3>1. i + 1 \in 1 .. Len(unused_rasters) /\ j + 1 \in 1 .. Len(unused_rasters) /\ i + 1 # j + 1
      BY <1>4, <2>1
    <3>2. unused_rasters[i + 1] # unused_rasters[j + 1]
      BY <1>3, <3>1 DEF PoolSafe, UnusedAreFree
    <3>3. QED
      BY <1>4, <3>2
  <2>2. ASSUME NEW i \in 1 .. Len(unused_rasters'), NEW u \in Rasters, u = unused_rasters'[i]
        PROVE  u \in Allocated' /\ ~Held(u)' /\ frozen_hash'[u] = NoHash
    <3>1. u = unused_rasters[i + 1] /\ i + 1 \in 1 .. Len(unused_rasters) /\ u # r
      BY <1>4, <2>2
    <3>2. u \in Allocated /\ ~Held(u) /\ frozen_hash[u] = NoHash
      BY <1>3, <3>1 DEF PoolSafe, UnusedAreFree
    <3>3. QED
      BY <1>4, <1>5, <1>7, <3>1, <3>2
  <2>3. QED
    BY <1>8, <2>1, <2>2 DEF UnusedAreFree, NoHash
<1>10. HeldAreAllocated'
  <2>1. ASSUME NEW s \in Rasters
        PROVE  /\ Held(s)' => s \in Allocated' /\ frozen_hash'[s] \in {NoHash, contents'[s]}
               /\ s \notin Allocated' => frozen_hash'[s] = NoHash
    <3>1. CASE s = r
      BY <1>4, <1>5, <3>1
    <3>2. CASE s # r
      BY <1>3, <1>4, <1>5, <1>6, <1>7, <3>2 DEF PoolSafe, HeldAreAllocated
    <3>3. QED
      BY <3>1, <3>2
  <2>2. QED
    BY <2>1 DEF HeldAreAllocated, Rasters, NoHash
<1>11. \A i \in 1 .. Len(display_queue) : display_queue[i].raster # r /\ display_queue[i].raster \in Rasters
  BY <1>3, <1>4, QueuedAreHeld
<1>12. MainSafe'
  <2>1. r # NoRaster
    BY PoolAssumption DEF Rasters, NoRaster
  <2>2. QED
    BY <1>1, <1>2, <1>3, <1>4, <1>5, <1>6, <1>11, <2>1 DEF MainSafe, NoRaster, NoHash
<1>13. ThreadsTypeOK'
  BY <1>1, <1>2, <1>3, <1>4 DEF ThreadsTypeOK, Rasters, Refs, NoRaster
<1>14. QED
  BY <1>9, <1>10, <1>12, <1>13 DEF ThreadsInv, PoolSafe

LEMMA FinishDecodingIsSafe ==
  ASSUME ThreadsInv, FinishDecoding
  PROVE  ThreadsInv'
<1> USE PoolAssumption
<1>1. ThreadsTypeOK /\ PoolSafe /\ MainSafe
  BY DEF ThreadsInv
<1>2. /\ main = "decoding" /\ main' = "pushing" /\ decoded' = decoded + 1
      /\ contents' = [contents EXCEPT ![raster] = decoded'] /\ references' = CopyTo(references, header, raster)
      /\ UNCHANGED <<unused_rasters, created, frozen_hash, header, raster, decoders,
                     display, display_queue, shown, drawn>>
  BY DEF FinishDecoding, FinishRaster, displayVars
<1>3. raster \in Rasters /\ raster # NoRaster /\ frozen_hash[raster] = NoHash /\ decoded \in 0 .. MaxDecoded
      /\ decoded < MaxDecoded
  BY <1>1, <1>2 DEF MainSafe, ThreadsTypeOK
<1>4. references' \in Refs /\ Range(references') \subseteq Range(references) \cup {raster}
  BY <1>1, <1>2, <1>3, CopyToKeepsRasters DEF ThreadsTypeOK
<1>5. \A r \in Rasters : Held(r)' => Held(r)
  BY <1>2, <1>4 DEF Held
<1>6. contents \in [Rasters -> Contents] /\ decoded' \in 1 .. MaxDecoded
  BY <1>1, <1>2, <1>3 DEF ThreadsTypeOK, PoolTypeOK
<1>7. contents' \in [Rasters -> Contents] /\ contents'[raster] = decoded'
      /\ \A r \in Rasters : r # raster => contents'[r] = contents[r]
  BY <1>2, <1>3, <1>6 DEF Contents
<1>8. \A i \in 1 .. Len(unused_rasters) : unused_rasters[i] \in Rasters
  BY <1>1 DEF ThreadsTypeOK, PoolTypeOK
<1>9. UnusedAreFree'
  BY <1>1, <1>2, <1>5, <1>8 DEF PoolSafe, UnusedAreFree, Allocated
<1>10. HeldAreAllocated'
  <2>1. ASSUME NEW r \in Rasters
        PROVE  /\ Held(r)' => r \in Allocated' /\ frozen_hash'[r] \in {NoHash, contents'[r]}
               /\ r \notin Allocated' => frozen_hash'[r] = NoHash
    <3>1. Allocated' = Allocated
      BY <1>2 DEF Allocated
    <3>2. /\ Held(r) => r \in Allocated /\ frozen_hash[r] \in {NoHash, contents[r]}
          /\ r \notin Allocated => frozen_hash[r] = NoHash
      BY <1>1 DEF PoolSafe, HeldAreAllocated
    <3>3. QED
      BY <1>2, <1>3, <1>5, <1>7, <3>1, <3>2
  <2>2. QED
    BY <2>1 DEF HeldAreAllocated, Rasters, NoHash
<1>11. ThreadsTypeOK'
  BY <1>1, <1>2, <1>4, <1>6, <1>7 DEF ThreadsTypeOK, PoolTypeOK
<1>12. MainSafe'
  <2>1. \A i \in 1 .. Len(display_queue) : display_queue[i].raster \in Rasters /\ display_queue[i].raster # raster
    BY <1>1, <1>2, QueuedAreHeld DEF MainSafe
  <2>2. \A i \in 1 .. Len(display_queue) : contents'[display_queue[i].raster] = display_queue[i].number
    BY <1>1, <1>7, <2>1 DEF MainSafe
  <2>3. shown \in Nat /\ shown <= decoded /\ drawn + Len(display_queue) = shown
    BY <1>1 DEF MainSafe, ThreadsTypeOK
  <2>4. QED
    BY <1>2, <1>3, <1>7, <2>2, <2>3 DEF MainSafe, NoRaster, NoHash
<1>13. QED
  BY <1>9, <1>10, <1>11, <1>12 DEF ThreadsInv, PoolSafe

(* A frame that is shown goes on the queue.                                *)
LEMMA PushedIsQueued ==
  ASSUME ThreadsTypeOK, MainSafe, main = "pushing"
  PROVE  /\ Pushed \in Seq(QueueEntry) /\ Len(Pushed) = Len(display_queue) + 1
         /\ \A i \in 1 .. Len(display_queue) : Pushed[i] = display_queue[i]
         /\ Pushed[Len(display_queue) + 1] = [raster |-> raster, number |-> decoded]
<1> DEFINE e == [raster |-> raster, number |-> decoded]
<1>1. raster \in Rasters /\ decoded \in 1 .. MaxDecoded
  BY PoolAssumption DEF MainSafe, ThreadsTypeOK
<1>2. e \in QueueEntry /\ display_queue \in Seq(QueueEntry)
  BY <1>1 DEF QueueEntry, ThreadsTypeOK
<1>3. Pushed = Append(display_queue, e)
  BY DEF Pushed
<1> HIDE DEF e
<1>4. /\ Append(display_queue, e) \in Seq(QueueEntry)
      /\ Len(Append(display_queue, e)) = Len(display_queue) + 1
      /\ \A i \in 1 .. Len(display_queue) : Append(display_queue, e)[i] = display_queue[i]
      /\ Append(display_queue, e)[Len(display_queue) + 1] = e
  BY <1>2
<1>5. QED
  BY <1>3, <1>4 DEF e

LEMMA PushFrameIsSafe ==
  ASSUME ThreadsInv, PushFrame
  PROVE  ThreadsInv'
<1> USE PoolAssumption
<1>1. ThreadsTypeOK /\ PoolSafe /\ MainSafe
  BY DEF ThreadsInv
<1>2. /\ main = "pushing" /\ main' = "hashing" /\ raster' = NoRaster
      /\ UNCHANGED <<header, references, decoders, decoded, drawn, poolVars>>
  BY DEF PushFrame
<1>3. contents[raster] = decoded /\ shown < decoded /\ raster \in Rasters /\ raster # NoRaster
  BY <1>1, <1>2 DEF MainSafe, ThreadsTypeOK
<1>4. shown \in 0 .. MaxDecoded /\ decoded \in 0 .. MaxDecoded /\ Len(display_queue) \in Nat
      /\ drawn + Len(display_queue) = shown /\ drawn \in Nat
  BY <1>1, QueuedAreHeld DEF MainSafe, ThreadsTypeOK
<1>5. CASE header.show_frame
  <2>1. display_queue' = Pushed /\ display' = Notified /\ shown' = shown + 1
    BY <1>5 DEF PushFrame
  <2>2. /\ Pushed \in Seq(QueueEntry) /\ Len(Pushed) = Len(display_queue) + 1
        /\ \A i \in 1 .. Len(display_queue) : Pushed[i] = display_queue[i]
        /\ Pushed[Len(display_queue) + 1] = [raster |-> raster, number |-> decoded]
    BY <1>1, <1>2, PushedIsQueued
  <2>3. DOMAIN display_queue' = 1 .. Len(display_queue) + 1 /\ DOMAIN display_queue = 1 .. Len(display_queue)
    BY <1>1, <2>1, <2>2, SequenceElements DEF ThreadsTypeOK
  <2>4. \A i \in 1 .. Len(display_queue) + 1 :
          display_queue'[i] = IF i = Len(display_queue) + 1 THEN [raster |-> raster, number |-> decoded]
                              ELSE display_queue[i]
    BY <1>4, <2>1, <2>2
  <2>5. \A i \in 1 .. Len(display_queue) + 1 : i = Len(display_queue) + 1 \/ i \in 1 .. Len(display_queue)
    BY <1>4
  <2>6. ASSUME NEW r \in Rasters, Held(r)' PROVE Held(r)
    <3>1. CASE \E i \in DOMAIN display_queue' : r = display_queue'[i].raster
      BY <2>3, <2>4, <2>5, <3>1 DEF Held
    <3>2. CASE r = raster' \/ \E refs \in decoders' \cup {references'} : r \in Range(refs)
      BY <1>2, <3>2 DEF Held, Rasters, NoRaster
    <3>3. QED
      BY <2>6, <3>1, <3>2 DEF Held
  <2>7. PoolSafe'
    BY <1>1, <1>2, <2>6, LettingGoIsSafe
  <2>8. shown' \in 0 .. MaxDecoded /\ display' \in {"starting", "locking", "checking", "sleeping", "drawing"}
    BY <1>1, <1>3, <1>4, <2>1 DEF Notified, ThreadsTypeOK
  <2>9. ThreadsTypeOK'
    BY <1>1, <1>2, <2>1, <2>2, <2>8 DEF ThreadsTypeOK, QueueEntry, PoolTypeOK, poolVars
  <2>10. \A i \in 1 .. Len(display_queue) + 1 : contents[display_queue'[i].raster] = display_queue'[i].number
    BY <1>1, <1>3, <2>4, <2>5 DEF MainSafe
  <2>11. MainSafe'
    BY <1>2, <1>3, <1>4, <2>1, <2>2, <2>10 DEF MainSafe, poolVars
  <2>12. QED
    BY <2>7, <2>9, <2>11 DEF ThreadsInv
<1>6. CASE ~header.show_frame
  <2>1. UNCHANGED <<display_queue, display, shown>>
    BY <1>6 DEF PushFrame
  <2>2. \A r \in Rasters : Held(r)' => Held(r)
    BY <1>2, <2>1 DEF Held, Rasters, NoRaster
  <2>3. PoolSafe'
    BY <1>1, <1>2, <2>2, LettingGoIsSafe
  <2>4. ThreadsTypeOK'
    BY <1>1, <1>2, <2>1 DEF ThreadsTypeOK, PoolTypeOK, poolVars
  <2>5. MainSafe'
    BY <1>1, <1>2, <1>3, <1>4, <2>1 DEF MainSafe, poolVars
  <2>6. QED
    BY <2>3, <2>4, <2>5 DEF ThreadsInv
<1>7. QED
  BY <1>5, <1>6

LEMMA HashStateIsSafe ==
  ASSUME ThreadsInv, HashState
  PROVE  ThreadsInv'
<1>1. ThreadsTypeOK /\ PoolSafe /\ MainSafe
  BY DEF ThreadsInv
<1>2. /\ main = "hashing" /\ main' = "saving"
      /\ frozen_hash' = [r \in Rasters |-> IF r \in Range(references) /\ frozen_hash[r] = NoHash
                                          THEN contents[r] ELSE frozen_hash[r]]
      /\ UNCHANGED <<unused_rasters, created, contents, header, raster, references, decoders, decoded,
                     display, display_queue, shown, drawn>>
  BY DEF HashState, HashRasters, displayVars
<1>3. \A r \in Rasters : /\ Held(r)' <=> Held(r)
                         /\ r \in Range(references) => Held(r)
  BY <1>2 DEF Held
<1>4. /\ contents \in [Rasters -> Contents] /\ frozen_hash \in [Rasters -> Contents \cup {NoHash}]
      /\ \A i \in 1 .. Len(unused_rasters) : unused_rasters[i] \in Rasters
  BY <1>1 DEF ThreadsTypeOK, PoolTypeOK
<1>5. /\ frozen_hash' \in [Rasters -> Contents \cup {NoHash}]
      /\ \A r \in Rasters : \/ frozen_hash'[r] = frozen_hash[r]
                            \/ r \in Range(references) /\ frozen_hash'[r] = contents[r]
  BY <1>2, <1>4
<1>6. Allocated' = Allocated
  BY <1>2 DEF Allocated
<1>7. UnusedAreFree'
  <2>1. ASSUME NEW i \in 1 .. Len(unused_rasters), NEW u \in Rasters, u = unused_rasters[i]
        PROVE  u \in Allocated /\ ~Held(u)' /\ frozen_hash'[u] = NoHash
    <3>1. u \in Allocated /\ ~Held(u) /\ frozen_hash[u] = NoHash
      BY <1>1, <2>1 DEF PoolSafe, UnusedAreFree
    <3>2. frozen_hash'[u] = frozen_hash[u]
      BY <1>3, <1>5, <3>1
    <3>3. QED
      BY <1>3, <3>1, <3>2
  <2>2. QED
    BY <1>1, <1>2, <1>4, <1>6, <2>1 DEF PoolSafe, UnusedAreFree, NoHash
<1>8. HeldAreAllocated'
  <2>1. ASSUME NEW r \in Rasters
        PROVE  /\ Held(r)' => r \in Allocated /\ frozen_hash'[r] \in {NoHash, contents[r]}
               /\ r \notin Allocated => frozen_hash'[r] = NoHash
    BY <1>1, <1>3, <1>5 DEF PoolSafe, HeldAreAllocated
  <2>2. QED
    BY <1>2, <1>6, <2>1 DEF HeldAreAllocated, Rasters, NoHash
<1>9. ThreadsTypeOK'
  BY <1>1, <1>2, <1>5 DEF ThreadsTypeOK, PoolTypeOK
<1>10. MainSafe'
  BY <1>1, <1>2 DEF MainSafe
<1>11. QED
  BY <1>7, <1>8, <1>9, <1>10 DEF ThreadsInv, PoolSafe

-----------------------------------------------------------------------------
(***************************************************************************)
(* The display thread.                                                     *)
(***************************************************************************)

LEMMA DisplayMovesIsSafe ==
  ASSUME ThreadsInv, NEW from, NEW to \in {"starting", "locking", "checking", "sleeping", "drawing"},
         DisplayMoves(from, to)
  PROVE  ThreadsInv'
<1>1. display' = to
      /\ UNCHANGED <<main, header, raster, references, decoders, decoded, display_queue, shown, drawn, poolVars>>
  BY DEF DisplayMoves, mainVars
<1>2. \A r \in Rasters : Held(r)' => Held(r)
  BY <1>1 DEF Held
<1>3. PoolSafe'
  BY <1>1, <1>2, LettingGoIsSafe DEF ThreadsInv
<1>4. ThreadsTypeOK' /\ MainSafe'
  BY <1>1 DEF ThreadsInv, ThreadsTypeOK, PoolTypeOK, MainSafe, poolVars
<1>5. QED
  BY <1>3, <1>4 DEF ThreadsInv

LEMMA DrawFrameIsSafe ==
  ASSUME ThreadsInv, DrawFrame
  PROVE  ThreadsInv'
<1>1. ThreadsTypeOK /\ PoolSafe /\ MainSafe
  BY DEF ThreadsInv
<1>2. /\ display_queue # << >> /\ drawn' = drawn + 1 /\ display_queue' = Tail(display_queue)
      /\ UNCHANGED <<display, shown, main, header, raster, references, decoders, decoded, poolVars>>
  BY DEF DrawFrame, mainVars
<1>3. display_queue \in Seq(QueueEntry) /\ DOMAIN display_queue = 1 .. Len(display_queue)
  BY <1>1, SequenceElements DEF ThreadsTypeOK, QueueEntry
<1>4. /\ Len(display_queue) \in Nat /\ Len(display_queue) > 0
      /\ display_queue' \in Seq(QueueEntry) /\ Len(display_queue') = Len(display_queue) - 1
      /\ \A i \in 1 .. Len(display_queue) - 1 : display_queue'[i] = display_queue[i + 1]
  BY <1>2, <1>3
<1>5. \A i \in 1 .. Len(display_queue') :
        i + 1 \in 1 .. Len(display_queue) /\ display_queue'[i] = display_queue[i + 1]
  BY <1>4
<1>6. DOMAIN display_queue' = 1 .. Len(display_queue')
  BY <1>4, SequenceElements
<1>7. \A r \in Rasters : Held(r)' => Held(r)
  BY <1>2, <1>3, <1>5, <1>6 DEF Held
<1>8. PoolSafe'
  BY <1>1, <1>2, <1>7, LettingGoIsSafe
<1>9. drawn' \in 0 .. MaxDecoded
  <2>1. /\ drawn \in 0 .. MaxDecoded /\ shown \in 0 .. MaxDecoded
        /\ drawn + Len(display_queue) = shown
    BY <1>1 DEF MainSafe, ThreadsTypeOK
  <2>2. QED
    BY <1>2, <1>4, <2>1, PoolAssumption
<1>10. ThreadsTypeOK'
  BY <1>1, <1>2, <1>4, <1>9 DEF ThreadsTypeOK, PoolTypeOK, poolVars, QueueEntry
<1>11. MainSafe'
  <2>1. drawn' + Len(display_queue') = shown
    BY <1>1, <1>2, <1>4 DEF MainSafe, ThreadsTypeOK
  <2>2. \A i \in 1 .. Len(display_queue') : contents[display_queue'[i].raster] = display_queue'[i].number
    BY <1>1, <1>5 DEF MainSafe
  <2>3. main = "decoding" =>
          \A i \in 1 .. Len(display_queue') : display_queue'[i].raster # raster
    BY <1>1, <1>5 DEF MainSafe
  <2>4. QED
    BY <1>1, <1>2, <2>1, <2>2, <2>3 DEF MainSafe, poolVars
<1>12. QED
  BY <1>8, <1>10, <1>11 DEF ThreadsInv

-----------------------------------------------------------------------------
(***************************************************************************)
(* The deleter.                                                            *)
(***************************************************************************)

LEMMA ResetCacheIsSafe ==
  ASSUME ThreadsInv, NEW d \in Rasters, Dying(d), ResetCache(d), UNCHANGED <<mainVars, displayVars>>
  PROVE  ThreadsInv'
<1>1. ThreadsTypeOK /\ PoolSafe /\ MainSafe
  BY DEF ThreadsInv
<1>2. /\ frozen_hash' = [frozen_hash EXCEPT ![d] = NoHash]
      /\ UNCHANGED <<unused_rasters, created, contents, main, header, raster, references, decoders, decoded,
                     display, display_queue, shown, drawn>>
  BY DEF ResetCache, mainVars, displayVars
<1>3. \A r \in Rasters : Held(r)' <=> Held(r)
  BY <1>2 DEF Held
<1>4. frozen_hash \in [Rasters -> Contents \cup {NoHash}]
      /\ \A i \in 1 .. Len(unused_rasters) : unused_rasters[i] \in Rasters
  BY <1>1 DEF ThreadsTypeOK, PoolTypeOK
<1>5. frozen_hash' \in [Rasters -> Contents \cup {NoHash}]
      /\ \A r \in Rasters : frozen_hash'[r] = NoHash \/ frozen_hash'[r] = frozen_hash[r]
  BY <1>2, <1>4
<1>6. Allocated' = Allocated
  BY <1>2 DEF Allocated
<1>7. UnusedAreFree'
  <2>1. ASSUME NEW i \in 1 .. Len(unused_rasters), NEW u \in Rasters, u = unused_rasters[i]
        PROVE  u \in Allocated /\ ~Held(u)' /\ frozen_hash'[u] = NoHash
    <3>1. u \in Allocated /\ ~Held(u) /\ frozen_hash[u] = NoHash
      BY <1>1, <2>1 DEF PoolSafe, UnusedAreFree
    <3>2. QED
      BY <1>3, <1>5, <3>1
  <2>2. QED
    BY <1>1, <1>2, <1>4, <1>6, <2>1 DEF PoolSafe, UnusedAreFree, NoHash
<1>8. HeldAreAllocated'
  <2>1. ASSUME NEW r \in Rasters
        PROVE  /\ Held(r)' => r \in Allocated /\ frozen_hash'[r] \in {NoHash, contents[r]}
               /\ r \notin Allocated => frozen_hash'[r] = NoHash
    BY <1>1, <1>3, <1>5 DEF PoolSafe, HeldAreAllocated
  <2>2. QED
    BY <1>2, <1>6, <2>1 DEF HeldAreAllocated, Rasters, NoHash
<1>9. ThreadsTypeOK'
  BY <1>1, <1>2, <1>5 DEF ThreadsTypeOK, PoolTypeOK
<1>10. MainSafe'
  <2>1. raster # NoRaster => raster \in Rasters
    BY <1>1 DEF ThreadsTypeOK
  <2>2. raster # NoRaster => frozen_hash'[raster] = NoHash
    BY <1>1, <1>5, <2>1 DEF MainSafe
  <2>3. QED
    BY <1>1, <1>2, <2>2 DEF MainSafe, NoRaster, NoHash
<1>11. QED
  BY <1>7, <1>8, <1>9, <1>10 DEF ThreadsInv, PoolSafe

LEMMA FreeRasterIsSafe ==
  ASSUME ThreadsInv, NEW d \in Rasters, Dying(d), FreeRaster(d), UNCHANGED <<mainVars, displayVars>>
  PROVE  ThreadsInv'
<1>1. ThreadsTypeOK /\ PoolSafe /\ MainSafe
  BY DEF ThreadsInv
<1>2. /\ frozen_hash[d] = NoHash /\ unused_rasters' = Append(unused_rasters, d)
      /\ UNCHANGED <<created, contents, frozen_hash, main, header, raster, references, decoders, decoded,
                     display, display_queue, shown, drawn>>
  BY DEF FreeRaster, ReadyToFree, mainVars, displayVars
<1>3. d \in Allocated /\ d \notin Unused /\ ~Held(d)
  BY DEF Dying
<1>4. \A r \in Rasters : Held(r)' <=> Held(r)
  BY <1>2 DEF Held
<1>5. unused_rasters \in Seq(Rasters)
  BY <1>1 DEF ThreadsTypeOK, PoolTypeOK
<1>6. /\ Len(unused_rasters) \in Nat /\ DOMAIN unused_rasters = 1 .. Len(unused_rasters)
      /\ \A i \in 1 .. Len(unused_rasters) : unused_rasters[i] \in Rasters
  BY <1>5, SequenceElements
<1>7. /\ unused_rasters' \in Seq(Rasters) /\ Len(unused_rasters') = Len(unused_rasters) + 1
      /\ \A i \in 1 .. Len(unused_rasters) : unused_rasters'[i] = unused_rasters[i]
      /\ unused_rasters'[Len(unused_rasters) + 1] = d
  BY <1>2, <1>5
<1>8. \A i \in 1 .. Len(unused_rasters) : unused_rasters[i] # d
  BY <1>3, <1>6 DEF Unused, Range
<1>9. \A i \in 1 .. Len(unused_rasters') : i \in 1 .. Len(unused_rasters) \/ i = Len(unused_rasters) + 1
  BY <1>6, <1>7
<1>10. Allocated' = Allocated
  BY <1>2 DEF Allocated
<1>11. UnusedAreFree'
  <2>1. ASSUME NEW i \in 1 .. Len(unused_rasters'), NEW j \in 1 .. Len(unused_rasters'), i # j
        PROVE  unused_rasters'[i] # unused_rasters'[j]
    BY <1>1, <1>7, <1>8, <1>9, <2>1 DEF PoolSafe, UnusedAreFree
  <2>2. ASSUME NEW i \in 1 .. Len(unused_rasters'), NEW u \in Rasters, u = unused_rasters'[i]
        PROVE  u \in Allocated /\ ~Held(u)' /\ frozen_hash[u] = NoHash
    <3>1. CASE u = d
      BY <1>2, <1>3, <1>4, <3>1
    <3>2. CASE u # d
      <4>1. i \in 1 .. Len(unused_rasters) /\ u = unused_rasters[i]
        BY <1>7, <1>9, <2>2, <3>2
      <4>2. u \in Allocated /\ ~Held(u) /\ frozen_hash[u] = NoHash
        BY <1>1, <4>1 DEF PoolSafe, UnusedAreFree
      <4>3. QED
        BY <1>4, <4>2
    <3>3. QED
      BY <3>1, <3>2
  <2>3. \A i \in 1 .. Len(unused_rasters') : unused_rasters'[i] \in Rasters
    BY <1>6, <1>7, <1>9
  <2>4. QED
    BY <1>2, <1>10, <2>1, <2>2, <2>3 DEF UnusedAreFree, NoHash
<1>12. HeldAreAllocated'
  BY <1>1, <1>2, <1>4, <1>10 DEF PoolSafe, HeldAreAllocated, Rasters, NoHash
<1>13. ThreadsTypeOK'
  BY <1>1, <1>2, <1>7 DEF ThreadsTypeOK, PoolTypeOK
<1>14. MainSafe'
  BY <1>1, <1>2 DEF MainSafe
<1>15. QED
  BY <1>11, <1>12, <1>13, <1>14 DEF ThreadsInv, PoolSafe

-----------------------------------------------------------------------------
(***************************************************************************)
(* The invariant is inductive.                                             *)
(***************************************************************************)

LEMMA ThreadsInvHoldsAtFirst ==
  ThreadsInit => ThreadsInv
<1> SUFFICES ASSUME ThreadsInit PROVE ThreadsInv
  OBVIOUS
<1> USE PoolAssumption
<1>1. /\ unused_rasters = << >> /\ created = 1 /\ contents = [r \in Rasters |-> Blank]
      /\ frozen_hash = [r \in Rasters |-> NoHash]
      /\ main = "waiting" /\ header \in Headers /\ raster = NoRaster
      /\ references = AllReferences(0) /\ decoders = {AllReferences(0)} /\ decoded = 0
      /\ display = "starting" /\ display_queue = << >> /\ shown = 0 /\ drawn = 0
  BY DEF ThreadsInit, PoolInit
<1>2. 0 \in Rasters /\ Allocated = {0} /\ NoRaster \notin Rasters
  BY <1>1 DEF Rasters, Allocated, NoRaster
<1>3. AllReferences(0) \in Refs /\ Range(AllReferences(0)) = {0}
  <2>1. AllReferences(0) \in Refs /\ \A name \in ReferenceNames : AllReferences(0)[name] = 0
    BY <1>2 DEF AllReferences, Refs
  <2>2. QED
    BY <2>1, RangeOfReferences DEF ReferenceNames
<1>4. ThreadsTypeOK
  <2>1. contents \in [Rasters -> Contents] /\ frozen_hash \in [Rasters -> Contents \cup {NoHash}]
    BY <1>1 DEF Contents, Blank
  <2>2. PoolTypeOK
    BY <1>1, <2>1 DEF PoolTypeOK
  <2>3. QED
    BY <1>1, <1>3, <2>2 DEF ThreadsTypeOK
<1>5. \A r \in Rasters : Held(r) => r = 0
  BY <1>1, <1>2, <1>3 DEF Held
<1>6. PoolSafe
  BY <1>1, <1>2, <1>5 DEF PoolSafe, UnusedAreFree, HeldAreAllocated
<1>7. MainSafe
  BY <1>1 DEF MainSafe
<1>8. QED
  BY <1>4, <1>6, <1>7 DEF ThreadsInv

LEMMA ThreadsInvIsInductive ==
  ThreadsInv /\ [ThreadsNext]_threadsVars => ThreadsInv'
<1> SUFFICES ASSUME ThreadsInv, [ThreadsNext]_threadsVars PROVE ThreadsInv'
  OBVIOUS
<1>1. CASE Main
  <2>1. CASE SetDecoder
    BY <2>1, SetDecoderIsSafe
  <2>2. CASE EraseDecoder
    BY <2>2, EraseDecoderIsSafe
  <2>3. CASE StartDecoding
    BY <2>3, StartDecodingIsSafe
  <2>4. CASE FinishDecoding
    BY <2>4, FinishDecodingIsSafe
  <2>5. CASE PushFrame
    BY <2>5, PushFrameIsSafe
  <2>6. CASE HashState
    BY <2>6, HashStateIsSafe
  <2>7. CASE SaveDecoder
    BY <2>7, SaveDecoderIsSafe
  <2>8. QED
    BY <1>1, <2>1, <2>2, <2>3, <2>4, <2>5, <2>6, <2>7 DEF Main
<1>2. CASE Display
  <2>1. CASE OpenWindow
    BY <2>1, DisplayMovesIsSafe DEF OpenWindow
  <2>2. CASE LockMutex
    BY <2>2, DisplayMovesIsSafe DEF LockMutex
  <2>3. CASE WaitForFrame
    BY <2>3, DisplayMovesIsSafe DEF WaitForFrame
  <2>4. CASE StartDrawing
    BY <2>4, DisplayMovesIsSafe DEF StartDrawing
  <2>5. CASE DrawFrame
    BY <2>5, DrawFrameIsSafe
  <2>6. CASE StopDrawing
    BY <2>6, DisplayMovesIsSafe DEF StopDrawing
  <2>7. QED
    BY <1>2, <2>1, <2>2, <2>3, <2>4, <2>5, <2>6 DEF Display
<1>3. CASE WakeSpuriously
  BY <1>3, DisplayMovesIsSafe DEF WakeSpuriously
<1>4. CASE Delete
  <2>1. PICK d \in Rasters : Dying(d) /\ (ResetCache(d) \/ FreeRaster(d))
    BY <1>4 DEF Delete
  <2>2. UNCHANGED <<mainVars, displayVars>>
    BY <1>4 DEF Delete
  <2>3. CASE ResetCache(d)
    BY <2>1, <2>2, <2>3, ResetCacheIsSafe
  <2>4. CASE FreeRaster(d)
    BY <2>1, <2>2, <2>4, FreeRasterIsSafe
  <2>5. QED
    BY <2>1, <2>3, <2>4
<1>5. CASE UNCHANGED threadsVars
  BY <1>5, StutteringIsSafe
<1>6. QED
  BY <1>1, <1>2, <1>3, <1>4, <1>5 DEF ThreadsNext

-----------------------------------------------------------------------------
(***************************************************************************)
(* What it implies.                                                        *)
(***************************************************************************)

(* A sequence that does not repeat itself has as many elements as entries. *)
LEMMA UnrepeatedAreCounted ==
  ASSUME NEW S, NEW s \in Seq(S),
         \A i, j \in 1 .. Len(s) : i # j => s[i] # s[j]
  PROVE  Cardinality(Range(s)) = Len(s)
<1> DEFINE n == Len(s)
<1> DEFINE T == Range(s)
<1>1. n \in Nat /\ DOMAIN s = 1 .. n
  BY SequenceElements
<1>2. s \in [1 .. n -> T]
  BY <1>1 DEF Range
<1>3. \A t \in T : \E i \in 1 .. n : s[i] = t
  BY <1>1 DEF Range
<1>4. \A i, j \in 1 .. n : s[i] = s[j] => i = j
  OBVIOUS
<1> HIDE DEF n, T
<1>5. s \in Bijection(1 .. n, T)
  BY <1>2, <1>3, <1>4, Fun_IsBij
<1>6. Cardinality(T) = n
  BY <1>1, <1>5, FS_CountingElements DEF ExistsBijection
<1>7. QED
  BY <1>6 DEF n, T

LEMMA ThreadsInvImpliesSafety ==
  ThreadsInv => RastersAreSafe
<1> SUFFICES ASSUME ThreadsInv PROVE RastersAreSafe
  OBVIOUS
<1>1. ThreadsTypeOK /\ UnusedAreFree /\ HeldAreAllocated /\ MainSafe
  BY DEF ThreadsInv, PoolSafe
<1>2. unused_rasters \in Seq(Rasters) /\ DOMAIN unused_rasters = 1 .. Len(unused_rasters)
  BY <1>1, SequenceElements DEF ThreadsTypeOK, PoolTypeOK
<1>3. DOMAIN display_queue = 1 .. Len(display_queue)
  BY <1>1, SequenceElements DEF ThreadsTypeOK
<1>4. NoRasterIsReused
  <2>1. Cardinality(Unused) = Len(unused_rasters)
    BY <1>1, <1>2, UnrepeatedAreCounted DEF UnusedAreFree, Unused
  <2>2. \A r \in Unused : ~Held(r)
    BY <1>1, <1>2 DEF UnusedAreFree, Unused, Range
  <2>3. QED
    BY <1>1, <1>3, <2>1, <2>2 DEF NoRasterIsReused, MainSafe
<1>5. QueuedIsIntact
  BY <1>1, <1>3 DEF QueuedIsIntact, MainSafe
<1>6. HashIsCurrent
  <2>1. ASSUME NEW r \in Allocated PROVE r \in Rasters
    BY <1>1, PoolAssumption DEF ThreadsTypeOK, PoolTypeOK, Allocated, Rasters
  <2>2. ASSUME NEW r \in Allocated, Held(r) PROVE frozen_hash[r] \in {NoHash, contents[r]}
    BY <1>1, <2>1, <2>2 DEF HeldAreAllocated
  <2>3. ASSUME NEW r \in Allocated, r = raster PROVE frozen_hash[r] = NoHash
    BY <1>1, <2>1, <2>3, PoolAssumption DEF MainSafe, Rasters, NoRaster
  <2>4. QED
    BY <2>2, <2>3 DEF HashIsCurrent
<1>7. QED
  BY <1>4, <1>5, <1>6 DEF RastersAreSafe

(* The state of the two threads and of the pool they share keeps its type. *)
THEOREM ThreadsTypeOKHolds ==
  ThreadsSpec => []ThreadsTypeOK
<1>1. ThreadsInv => ThreadsTypeOK
  BY DEF ThreadsInv
<1>2. QED
  BY <1>1, ThreadsInvHoldsAtFirst, ThreadsInvIsInductive, PTL DEF ThreadsSpec

(* Whatever the order in which the main thread decodes, hashes, saves and  *)
(* prunes, the display thread draws and the deleters of raster_handle.cc   *)
(* run: no raster is given out while a decoder or the queue holds it, or   *)
(* twice; a queued frame still shows what was decoded; and the hash cached *)
(* for a held raster is that of what it shows.                             *)
THEOREM RastersAreSafeHolds ==
  ThreadsSpec => []RastersAreSafe
<1>1. QED
  BY ThreadsInvHoldsAtFirst, ThreadsInvIsInductive, ThreadsInvImpliesSafety, PTL DEF ThreadsSpec
=============================================================================
