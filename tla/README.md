# Salsify in TLA+

Salsify sends live video. Its codec is *functional*: an encoder is a value that can be copied, and
encoding a frame takes an encoder in one state to an encoder in another. The sender keeps the
encoder of every state the receiver may be in, learns from acknowledgements which those are, and
encodes each camera frame against one of them. The receiver keeps the decoder of every state the
sender may still refer to. Each program prunes its collection by what it believes of the other, over
UDP. Most of what can go wrong in this repository is in that exchange. The rest is in what each
program does besides: threads that share vectors, rasters and pipes without locks, a clock, and a
codec whose two ends must compute the same thing from what is between them.

All paths are relative to the repository; `sender.cc` and `receiver.cc` stand for
`src/salsify/salsify-sender.cc` and `src/salsify/salsify-receiver.cc` (below the source
directory `src/`).

## The system

| Part | State | Operations | Talks to |
|---|---|---|---|
| Sender (`sender.cc`) | stored encoders (deque of hashes, map), acknowledged and assumed state of the receiver, running totals of fragments, skipped frames, conservative mode | callbacks of one event loop: fetch a raster and start encoding; encoding finished; ack arrived; packet due | camera, encode thread, pacer, receiver |
| Encode thread (`sender.cc:630`) | two jobs, two futures | encode at two quantizers, write the token | sender, through two socket pairs |
| Receiver (`receiver.cc`) | fragments of frames, player's decoder, saved decoders (deque, map) | packet arrived | sender, display thread |
| Packets (`src/net/packet.cc`) | fragments of one frame | split, parse, check, collect, join | both programs |
| Pacer (`src/net/pacer.hh`) | queue of (time, packet) | push, time until due, pop | sender |
| Poller (`src/net/poller.cc`) | actions | poll once, run the callbacks that are ready | both programs |
| Rate control (`sender.cc`, `src/net/monax.cc`) | averages, step sizes, histories | target size, send period | sender |
| Display (`receiver.cc:229`) | queue, mutex, condition variable | enqueue from the packet callback, draw | receiver |
| Raster pool (`src/decoder/raster_handle.cc`) | unused rasters | take, give back | encoder, decoder, display |
| Camera (`src/input/camera.cc`) | ring of kernel buffers | dequeue, convert, enqueue | sender |
| Codec (`src/decoder`, `src/encoder`) | probability tables, references, segmentation | decode, encode, hash | both programs |
| Saved images, monitor (`src/display/display.cc`, `receiver.cc`) | numbered files | save in a thread each, send the next | browser |
| Tools (`src/frontend`), IVF files and saved states | files | write, open, dump, restore, terminate a chunk | each other |
| Vendored code | | | |

What makes each part correct:

* *Sender*: the encoder it selects is stored; deque and map agree; an old ack does not undo a newer
  one; a frame gets through however often frames are skipped.
* *Receiver*: fragments of one frame at a time; a frame is decoded on the state it was encoded
  against or the result is not saved; what it reports having, it has; it survives losses.
* *Session*: the viewer only moves along steps the sender made; conservative mode does what it is
  for; without losses the two never diverge.
* *Encode thread, poller*: the token is never lost and never doubled; no callback runs without
  reading or writing its descriptor.
* *Pacer, rate control*: order is kept, nothing leaves early, no division by zero, no wrap-around.
* *Display, raster pool, camera*: no raster is used by two owners, no buffer is lost, no deadlock.
* *Codec*: what is written is read back - bools, coefficients, vectors, headers, partitions - and the
  encoder and every decoder of its frames reach the same state, from which the hash is made. A frame
  is predicted from pixels that are defined.
* *Files*: a file can be opened whenever the writer died, and a chunk is played from the state it
  was encoded from.

The behaviours that are hard to test are listed, each at its line, under `hazards` in
`PROJECT.json`.

## Modules

**The session**: both programs and the network between them.

| Module | What it is |
|---|---|
| `DecoderHashes` | names of decoder states; popping a deque |
| `SalsifySender` | the sender's callbacks |
| `SalsifyReceiver` | the receiver's packet callback, one operator for each path through it |
| `SalsifySession` | both programs and the network; properties of the whole |
| `CodecChain` | abstract: what a functional codec promises a viewer |
| `MCSession` | strays for TLC; every `session_` run and the violations of sessions use this module |
| `SalsifySessionProofs` | lemmas about deques; for each action of the sender and the receiver, what it preserves; theorems for any network |
| `OrderedSessionProofs` | theorems for sessions without repeated states, and for packets that keep their order |
| `ConservativeSessionProofs` | theorems about conservative mode, and one for networks that lose nothing, where it never begins |

**Inside the sender**: one event loop, the encode thread, the camera and time.

| Module | What it is |
|---|---|
| `Pacer` | the queue of packets and its clock |
| `CameraRing` | the ring of buffers shared with the video driver |
| `EncodePipeline` | the token, the two socket pairs, the detached thread, jobs and futures |
| `SenderLoop` | `Poller::poll` and the sender's four callbacks, composed of the three above |
| `SenderLoopProofs` | the theorems |

**Inside the receiver**: two threads and the rasters they share.

| Module | What it is |
|---|---|
| `RasterPool` | unused rasters, cached hashes, the deleter |
| `References` | the three references of a decoder, and `copy_to` |
| `ReceiverThreads` | the main and the display thread, composed with the two above |
| `MCThreads` | the sender's loop or these threads, for TLC: one of the two programs runs, the other has ended or still waits |
| `ReceiverThreadsProofs` | the theorems |

**Parts that share no state** with others, each a state machine of its own. `MCUnits` puts one
instance of each side by side for TLC.

| Module | What it is |
|---|---|
| `Monax` | the rate controller of `src/net/monax.cc` |
| `FrameBudget` | `target_size`, the choice of an output, quantizers |
| `ImageFiles` | threads that save images, the monitor that sends them |
| `BoolCoder` | the arithmetic coder and its inverse |
| `BoolStream` | bools with the probabilities they are coded with; trees |
| `Residues` | coefficients: tokens, contexts, skipped macroblocks |
| `MotionVectors` | the census, choice, writing and reading of motion vectors |
| `SplitVectors` | vectors of subblocks, in a frame of another encoder that is encoded again |
| `IntraModes` | prediction modes in frame objects that are used again, and their contexts |
| `FrameHeaders` | the header of an inter frame, as made, rewritten, written and read |
| `FrameLayout` | partitions of a frame, cut anywhere |
| `CodecState` | the state of encoder and decoder, frame by frame, and its hash |
| `EncoderSearch` | the searches for a quantizer and a loop filter level |
| `Reconstruction` | which pixels of which picture a prediction reads |
| `PixelPredictions` | what predictions make of the pixels they read, in the decoder and in the encoder's search |
| `Transforms` | a residue's way to quantized coefficients, and what a decoder rebuilds from them |
| `LoopFilter` | the filter of a frame: levels, limits, edges and their order |
| `IvfFile` | a video file while it is written, after a crash, and as a reader opens it meanwhile |
| `ChunkStates` | saved decoder states and chunks encoded from them |
| `UnitProofs` | theorems about `Monax`, `FrameBudget`, `ImageFiles`, `CodecState`, `IvfFile`, `EncoderSearch` and `Reconstruction` |
| `BitstreamProofs` | induction over data; theorems about `BoolCoder` and `FrameLayout` |
| `ResiduesProofs` | a theorem about `Residues` |

### How state and actions correspond to the code

Variables have the names of the code's variables. Exceptions:

* `sender` says which callback the token is due at: `"fetch"` (in `encode_start_pipe`) or `"encode"`
  (in the thread or in `encode_end_pipe`), or that `encoders.at` has thrown. `job_source` is the
  state of the encoder that `encode_jobs` copied. `frame_no` is the length of `cumulative_fpf`.
* `conservative` is `now < conservative_until`; the clock itself is not modelled. The mode ends at
  any moment (`ConservativeExpires`), at most `MaxExpirations` times.
* `encoders`, `decoders` are the key sets of the maps: two values with the same key are equal.
* `fragmented_frames[i].valid` is the set of fragment numbers received.
* `receiver` is `"running"` or the exception that has ended the program.
* `encodings` is a history variable: the steps published, of which the code keeps no record.

| Action | Code |
|---|---|
| `StartEncode` | fetch callback, `sender.cc:469`: clean up, select, start the jobs |
| `SkipFrame`, `SendFrame` | encoded callback, `sender.cc:658` |
| `ReceiveAck` | ack callback, `sender.cc:831` |
| `HandlePacket` | packet callback, `receiver.cc:361`; its cases are `RejectMalformed`, `IgnoreLate`, `MissWholeFrame`, `RejectMismatched`, `StoreFragment` and `ApplyFrame` |

In the session, the cleanup loops are written declaratively: `StopsAfter(s, keep, k)` says that a loop that pops the
front of `s` until it meets an element of `keep` pops `k` elements.

A hash is a number. `Initial` is 0; the state after frame *n* (counted from 0) is *n* + 1, unless
`StillPicture` holds: then encoding may also leave the state as it is or repeat an earlier encoding,
since the codec is a function of state and picture. `Corrupt` stands for every state no encoder was
in.

The network holds packets and acks in two sequences. `DataLink` and `AckLink` say what it may do:
`"reliable"` delivers the first; `"lossy"` delivers any and drops what was sent before it;
`"datagram"` delivers any (one that is never delivered is lost) and duplicates. The pacer keeps the
order of packets and is part of the network's delay here. `StrayPackets` and `StrayAcks` arrive at
any time from elsewhere.

#### The sender's loop

`pc` is where the main thread is: computing the poller's timeout, asking each action whether it is
interested, in `poll`, in a callback, or in the camera's `ioctl` in the middle of one. Readiness
(`revents`) is sampled once, and the callbacks run in the order in which they were added
(`sender.cc:469`, 649, 829, 867), whatever the ones before them changed.

| Action | Code |
|---|---|
| `ComputeTimeout`, `AskInterest`, `PollReturns`, `PollTimesOut`, `ConnectionError`, `Returns` | `src/net/poller.cc:36`: timeout, interest, `poll`, POLLERR, the check that a callback read or wrote something |
| `FetchBegins`, `FetchEnds` | camera callback: the token is read; a picture is waited for; jobs are started |
| `EncodedSends`, `EncodedThrows` | encode callback with its `finally` block; a frame of 0 fragments is a skipped one |
| `ReadAck`, `SendDue` | ack callback, packet callback |
| `EncodeThread` | the detached thread (`sender.cc:630`) and the jobs' threads |
| `CameraDriver`, `AckArrives`, `PortUnreachable`, `Tick` | driver, network, clock |

Times are in ticks from the present moment, two to a millisecond, so the truncation in
`ms_until_due` can make a packet leave early. Time passes only where the program next reads a clock
or waits.

#### The receiver's threads

`main` follows `enqueue_frame`: decoding into a raster, pushing it, hashing the new state, saving the
decoder. The detached task of `async` is part of `PushFrame`, for its future waits in its
destructor. `display` follows `display_task`. A handle is not a variable: `Held` says who has a
raster, and `Delete` is the deleter of one that nobody has any more, in its two steps.

#### The rate controller, the codec and the files

Floating-point results (`prediction`, `better`, `mean`) are inputs of `TakeAction`; histories, steps
and the interval are computed as in the code. In `FrameBudget` the sizes of outputs are free.

The codec's modules keep what both ends must agree on and drop the numbers: in `BoolStream` a bool
carries a label for its probability, and a reader that asks with another label is wrong, as is one
that asks for too much or too little. `BoolCoder` does the arithmetic underneath. `Residues` and
`MotionVectors` have an encoder (`MacroblockTokens`, `PutModes`) and a parser (`AskMacroblock`,
`AskModes`) that computes contexts from what it has read itself. `FrameHeaders` has one sequence of
fields for the writer and one for the reader, and one for each place that makes a header.
`IntraModes` has the objects of a frame as the encoder leaves them (a mode tried before another one
won, the flags of an older frame) and as a parser makes them, and compares what a picture is made
from (`InUse`). Its macroblocks have 2 by 2 subblocks, enough for one with and one without a
neighbour in its own macroblock in each direction. `SplitVectors` starts from any frame a parser can
have made, rewrites it as `update_macroblock` does and parses that; a vector shared by the subblocks
of a partition is kept once.
`CodecState` has an encoder that updates itself with its own code, a decoder that follows it, and
another that is made or copied later. In `FrameLayout` only the octets that say where parts are
count; `EncoderSearch` knows a picture by the answers it
gives to a search, which may be any: estimated sizes need not grow as quantizers get finer, and the
similarity may have equal values at neighbouring levels and several maxima; `Reconstruction` knows a
pixel by the picture that wrote it last and the stage it was in. `PixelPredictions`, `Transforms` and
`LoopFilter` have the pixels' values and compute with them as the C functions do, with integers of
their widths; in a build with SSE2 assembly takes the place of these functions. A prediction is of 4
by 4 pixels (the code has one template for three sizes) and, for a transform, one value everywhere; a
picture that is filtered consists of blocks of one value each. `IvfFile` writes any number of
octets at a time, in the order of the code's `write` calls, while a reader maps what is there, reads
the header and then the frames' headers: the region it has mapped does not grow, but the count it
reads in the shared mapping may have; `ChunkStates` counts the octets of the items in a state file.

Definitions called `Mutant...` are mistakes, used nowhere: each is a variant of the definition that
follows it, to show that a property fails when it takes that definition's place.

### Assumptions

* Two states have the same hash only if they are equal.
* Decoding a truncated frame, or a frame on a state other than its source, never ends in a state an
  encoder was in. (A truncated frame whose missing bytes decode like the zeros put in their place
  would.) With error concealment on, such a decoding does not throw.
* `NDEBUG` is defined (`configure.ac:45`), so assertions do nothing; `SavedIsListed` is the one at
  `receiver.cc:460`.
* Skipping is a free choice where the code allows it: sizes and delays are not modelled. It is
  possible only after an ack, as in the code. Conventional mode is the case in which it is never
  chosen.
* Frame and fragment numbers do not reach the width of their fields.
* The sender's loop: the socket can always take a packet, `poll` is not interrupted by signals, and
  the camera fills its buffers in the order in which they were queued.
* `Reconstruction`, `Residues` and `MotionVectors`: planes and blocks that are treated alike are
  represented by one; a motion vector's components are treated alike.

## Runs

| Run | Network | Bounds | Shows |
|---|---|---|---|
| `session_lossy` | packets lost; acks lost, reordered | 5 frames, 2 fragments, 1 skip, 1 expiry | types; selected encoder is stored; listed decoders are saved; acks are of sent packets and accepted ones never go back; all frames are sent |
| `session_still` | loses, both directions | 5 frames, 2 fragments, still picture, 1 expiry | deques and maps agree in both programs though states come again |
| `session_datagram` | everything, and strays | 3 frames, 2 fragments, still picture, 1 duplicate, 1 expiry | assumed state is stored last; one frame is collected; refinement of `CodecChain` |
| `session_conservative` | loses | 6 frames, 2 fragments, mode does not end | conservative frames start where the receiver is when they are encoded and when they arrive |
| `session_reliable` | loses nothing | 5 frames, 2 fragments, 1 skip, still picture | no divergence; the last frame is decoded |
| `lost_frame` | loses | 3 frames of 1 packet | **violation**: receiver throws |
| `stale_ack` | reorders both | 4 frames, 2 fragments | **violation**: sender throws |
| `conservative_expires` | loses | 7 frames, 2 fragments, 1 expiry | **violation**: encodes against a pruned state |
| `repeated_state` | loses | 5 frames, still picture | **violation**: reports a state it cannot go back to |
| `lost_headers` | - | first partitions of 7 or 8 octets, cut at 4 places | **violation**: a lost macroblock header is not concealed |
| `threads` | sends acks, refuses | sender: 2 frames of up to 2 packets, all three modes, 2 camera buffers, 2 ticks to a millisecond, packets 1 ms apart; receiver: 3 frames, shown or hidden, references moved aside | sender: one token; the jobs belong to one thread at a time; no callback runs for nothing; packets leave in order, less than a millisecond early, and all of them; pictures come in order and encoding never stops. Receiver: no raster is written, hashed or freed while another thread has it; every frame pushed is drawn and the display never stops the main thread |
| `units` | - | see below | each of the parts that share no state |

Deadlock is not checked: the models stop after `MaxFrames` frames (or pictures, macroblocks,
images...), and the programs stop when they throw. In `threads` a deadlock
would break the liveness properties. `threads` runs the sender in some behaviours and the receiver in
the others, under the fairness of each.

`units` has one property per part:

| Property | Part and bounds | Shows |
|---|---|---|
| `UnitsTypeOK` | all | types, among them: step sizes stay in bounds though a confidence may be infinite |
| `MonaxIsConsistent` | `Monax`: 4 actions, histories of 4 | histories compare the same actions; the interval goes the way of the decision; the last model is used once |
| `FramesFitTheDelay` | `FrameBudget`: 8 packets, 5 delays, integers of 20 bits | a frame is sent if it fits what the network takes in `max_delay`, or coarse |
| `ImagesInOrderUnlessOverlapping` | `ImageFiles`: 3 images | the monitor sends whole images in order while no two threads save at once; when they do, it may not |
| `BoolsRoundTrip` | `BoolCoder`: octets of 3 bits, 13 bools | everything is read back, carries included |
| `ResiduesRoundTrip` | `Residues`: all levels 1 to 2114; 4 macroblocks of 2 coefficients | tokens and contexts |
| `PredictionsRoundTrip` | `MotionVectors`: all differences in -1022 to 1022, all censuses of 3 vectors, 3 by 2 macroblocks; `IntraModes`: 2 frames of 2 macroblocks, side by side or not, 2 trials, 2 whole modes; `SplitVectors`: 2 macroblocks, all partitions, 6 patterns of modes | parser and encoder find the same vectors and modes |
| `HeadersRoundTrip` | `FrameHeaders`: every header the four makers make | the reader asks for the fields written |
| `LayoutRoundTrip` | `FrameLayout`: lengths at each boundary of their fields and one octet beyond 19 bits, 1 or 2 DCT partitions, cut at 10 places | a cut is noticed, partitions lie inside; a first partition of 2^19 octets or more is read short, and nobody notices |
| `EncoderFollowsDecoder` | `CodecState`: 1 coefficient probability, 2 rasters' contents | encoder and decoder reach the same state, whichever way the encoder was made |
| `SearchesFind` | `EncoderSearch`: 5 pictures, with nothing, all or scattered quantizers that fit, and similarities that rise, fall, are flat, have plateaus or many maxima | a search for a size ends in its window, at a quantizer that fits or at the largest, and the next finer one does not fit; the filter's level is one no neighbour of which is better, or gets better with the next frame. Neither need be the best of all |
| `PixelsAreRight` | `Reconstruction`: 2 by 2 macroblocks, vectors far outside; `PixelPredictions`: all modes, edges of 12 slopes and 2 irregular ones, 5 pictures of 16 by 16 and vectors in, across and outside them; `Transforms`: 4 quantizers, 3 predictions, 10 macroblocks (flat, striped, chequered, sloped, one pixel, noise); `LoopFilter`: 2 by 2 macroblocks of flat halves, 5 headers | no stale or unfiltered pixel is read; a mode continues the picture in its direction, rows and columns alike; the search sees what the decoder will predict; what is rebuilt is as near to the original as the quantizer allows and no 16-bit store wraps; a small step between macroblocks becomes a ramp between the same two values, a large one stays, and nothing further away changes |
| `IvfIsWhole` | `IvfFile`: 2 frames of 1 or 13 octets, a reader that opens the file at any time | a file can be opened after any partial write and while it grows; only a frame that is counted after the file was mapped can make that fail |
| `ChunksFit` | `ChunkStates`: 4 states, 2 rasters | what is restored is what was saved but for two references; chunks that are played fit |

**Why the bounds are enough.** Two fragments are the fewest with which a frame can be incomplete,
completed out of order, and overtaken. A frame has to be sent, its successor lost, an ack of the one
and of a later one received, and a cleanup to happen before anything can be asked for that is gone:
that takes four frames (`stale_ack` finds its violation there), and five leave room for a second
round. A state can be repeated from the second frame on, and five frames let the clean-up of either
program pass one of its two occurrences. The violation of `conservative_expires` needs seven; `session_conservative` has also been run
with eight. One duplicate, one expiry and one skip each reach the code that handles them, and the
counter of skipped frames reaches its limit. In `threads` a second frame is pushed while packets of the
first still wait, and a second buffer is filled while the first is read; the receiver
needs three rasters for one to be drawn, one referenced and one reused, and reaches four. Octets of
three bits (`BoolCoder`) let a carry run through two full octets within thirteen bools; the
positions of the register scale with the octet. The widths of `FrameLayout`, of levels and of vector
differences are those of the code. Two coefficients in a block show the token after a zero, which is
coded without its first node, and the end of a block before and after its last place; two macroblocks
in each direction have every kind of neighbour. `MAX_SKIPPED` is 3 in the code and 1 or 0 here: only
whether the limit is reached matters.

**What the runs say of acks.** An ack is ordered by the fragment it acknowledges. This is the order
in which acks are sent if packets arrive in order, whether or not the acks are reordered
(`session_lossy`). If the packets of a frame are reordered as well, it is not
(`stale_ack`), and then the sender can be sent back to an encoder it no longer has. The clean-up
criterion and the order of acks are each harmless alone.

**What the runs say of conservative mode.** While it lasts, it does what its comment says
(`session_conservative`): the sender then uses the newest state of the newest ack, the receiver
prunes only up to the source of a frame it decodes, and no later source is older. When it ends by
its timer and begins again, frames based on assumed states are under way, and the last ack may say
less than the receiver has pruned (`conservative_expires`). The consequence is one more lost frame,
not a failure: frames that cannot be decoded are acknowledged with a state the sender does not know.

**What the runs say of concealment.** The receiver decodes what has arrived of a frame, and the
comment at `macroblock.cc:467` says that a macroblock whose header is missing is taken from the last
frame. That needs a decoder of bools that knows that it has read past the end, and it knows only if
it was told that its octets are not complete. `parse_and_apply` (`decoder_state.hh:119`) tells it
that they are complete exactly when they are not, so zeros are read as headers (`lost_headers`).

### Fairness

`FairSpec` assumes weak fairness of `SenderStarts`, `SenderSends`, and delivery of packets.
`SenderStarts`: the `finally` block (`sender.cc:662`) returns the token to the camera callback
whatever happens, and the camera delivers frames. `SenderSends`: encoding jobs end, and while a
frame may be skipped no fairness favours sending it; `AllFramesSent` therefore rests on the counter.
Delivery is assumed of a link; on a lossy link it may still skip over everything but the last
packet. Nothing is assumed of acks or of the timer.

`FairLoop`: weak fairness of the main thread, of the encode thread and of the driver - the system
runs each, jobs are finite computations, the camera streams. Strong fairness of `Tick`, because time
always passes but the model allows it in some places only. Nothing is assumed of acks.

`FairThreads`: weak fairness of the display thread and of the main thread's computations, strong
fairness of `PushFrame`: the mutex is not fair, but the display thread releases it again and again
and does not take it while it sleeps. Nothing is assumed of deleters, spurious wakeups or arriving
frames.

## Theorems

Every theorem is checked by TLAPS, for all values of the constants that satisfy the named assumptions
and the hypotheses given here.

**Any session** (`SalsifySessionProofs`), for every number of frames and fragments, every kind of
link, every set of strays of another session, and any number of duplicates and expiries:

* `TypesAreKept` - `SessionTypeOK`;
* `InFlightIsPositive` - `AckedWasSent`: the unsigned difference in `target_size` does not wrap;
* `SenderKeepsStates`, `SenderKeepsAssumed` - `StoredIsListed`, `AssumedIsNewest`;
* `ReceiverKeepsOneFrame`, `ReceiverListsSaved`, `ReceiverShowsNewest` - `CollectsOneFrame`,
  `SavedIsListed`, `CurrentIsNewest`;
* `SessionImplementsChain` - a session implements `CodecChain`.

They follow from one inductive invariant, `SessionInv` (`SessionInvariant`), which adds to the
properties what they need to be inductive:

* `JobHasSource`: a job has an encoder and a frame to send. Without it packets have no type.
* `SentPackets`, `SentAcks`: what is in the network was sent - its frame number is below `frame_no`,
  its fragment number below the difference of two totals, its step among the published ones. Without
  it `ack_seq_no` could read past the table of totals.
* `TotalsGrow`: no total exceeds the last. With `SentAcks` it bounds the number of an ack.
* `InitialIsKept`: the initial state is never in the deque, so the cleanup cannot erase its encoder.
* `SourcesAreReached`: every stored encoder is in a state that was published.
* `CurrentIsSaved`: the player is in a state that is saved, or in no encoder's.

There is one lemma for each action. The sender's and the receiver's are the first
part of `SalsifySessionProofs` and speak of no network. The assumptions are the named ones
of the modules (`SenderAssumption`, `SessionAssumption`, `StraysAssumption`): types of the
parameters, and that strays are of another session or malformed. TLC has also checked `SessionInv` on
an instance like that of `session_datagram`, without the duplicate.

**Sessions without repeated states, any network** (`OrderedSessionProofs`). If every frame ends in a
state of its own (`~StillPicture`: each picture differs from those before it), states can be numbered
by the frames that made them. `NumberedInv` (`NumberedInvariant`) says that the sender's deque holds
*consecutive* states up to the last one (`SenderNumbers`; `Dropped` counts those popped) and that the
receiver's deque is *increasing* (`ReceiverNumbers`).

* `ReceiverSavesListed` - `ListedIsSaved`. The receiver erases the decoder of each state it pops; an
  increasing deque does not hold that state again. `repeated_state` shows that the hypothesis is
  needed.

**Packets that keep their order** (the same module; `DataLink # "datagram"`: packets may be lost, not
reordered or duplicated; acks may be all three).

* `SenderFindsItsEncoder` - `SenderFindsEncoder`: `encoders.at` does not throw.
* `AcksOnlyAdvance` - `AcksNeverGoBack`.

The invariant is `OrderedInv` (`OrderedInvariant`), where `KnownState` is the state the sender
believes the receiver to have saved last:

* `PacketsInOrder`: packets are in the network in the order of their sequence numbers.
* `AcksBeforePackets`: an ack, in the network or accepted, is of an earlier packet than any still on
  its way. Hence an ack made from now on is the newest of all, whatever became of the others.
* `AcksAgree`: of two acks the one of the later packet lists the later state; an ack the sender
  would accept lists no older state than the one it knows; none lists more than the receiver has.
  It makes `last_acked` a sound criterion of what is newer.
* `KnownIsStored`: the cleanup has stopped short of the known state. It does because it pops only what
  precedes the newest state an accepted ack lists, and by `AcksAgree` that state is never older than
  the one known before.

`stale_ack` shows that the order is needed: there a packet is acknowledged before one that was sent
earlier, so `AcksBeforePackets` is false.

**Conservative mode** (`ConservativeSessionProofs`; besides, `MaxExpirations = 0`: once entered, the
mode lasts as long as the session is looked at). The invariant is `ConservativeInv`
(`ConservativeInvariant`), `OrderedInv` and

* `CorruptIsBehind`, `CorruptIsKnown`: while frames follow one another, a receiver that has missed one
  saves nothing, so the newest state it has saved is still the one its acks list when they make
  the sender conservative.
* `SourcesAreHeld`: before the mode begins, each frame follows the one before it; from then on the
  receiver holds the known state, the source of the frame being encoded, and whatever the next
  accepted ack lists.
* `LateSourcesAreHeld`: a frame on its way which does not follow the one before it has a source that
  the receiver holds and that is no newer than the source of any later frame. The receiver prunes up
  to the source of what it decodes, so no frame takes away the source of one behind it.

They imply `ConservativeFramesAreDecodable` - `ConservativeFrameIsDecodable`, and
`ConservativeSourcesAreHeld` - `ConservativeSourceIsHeld`. `conservative_expires` shows that the last
hypothesis is needed. There is no obvious weaker one: when the mode expires and begins again, frames and
acks of corrupt states from before may still be on their way, and the state the sender then knows of
may have been pruned.

**Networks that lose nothing** (the second part of `ConservativeSessionProofs`; both links
`"reliable"`, no stray packets; states may come again, and frames may be skipped). `EndsStayInSync` -
`InSync`. The invariant `InSyncInv` (`InSyncInvariant`) does not number states, since they may repeat,
but frames: `StateAfter(n)` is the state after `n` frames, read off the sender's deque.

* `PacketsInSequence`, `NextIsCollected`: the packets in the network and the fragments held are
  together the frames the receiver lacks, each fragment once.
* `PacketsOnChain`, `EndsAgree`: each leads from `StateAfter(n)` to `StateAfter(n + 1)`, and the
  receiver is in the state after the frames it has decoded.
* `AcksOnChain`, `AckedIsStored`: acks report states of that chain and never go back along it, and
  none of those states has been popped. So the sender finds what is acknowledged in its deque, and has
  no reason to become conservative.

TLC has checked `OrderedInv` on the instance of `session_lossy` without skips, `ConservativeInv` on
the same without the expiry, and `InSyncInv` on that of `session_reliable` with 4 frames.

**The sender's loop** (`SenderLoopProofs`), for any number of frames, packets, buffers and pictures,
any delays and any clock:

* `OneTokenHolds` - `OneToken`, and `JobsAreHandedOverHolds` - `JobsAreHandedOver`. The invariant is
  `LoopInv` (`LoopInvHolds`). `TokenMeans` says for each place of the token what the vectors are: no
  jobs before they are started, as many futures as jobs while the thread waits, all done once it has
  written. `ReadyStays` says that a callback found ready still finds its datagram when its turn
  comes, for no other callback reads from that pipe.
* `PacketsInOrderHolds` - `PacketsInOrder`, from the types of the queue and its counters.
* `NeverBusyWaitsHolds` - `NeverBusyWaits`, and `NoPacketEarlyHolds` - `NoPacketEarly`, the safety part
  of `PacketsLeaveOnTime`. The pacer is asked before the poll, the packet callback runs after the
  others. `SendInv` (`SendInvHolds`) adds `DueStays`: what was due when the loop asked is due until it
  is sent, since new packets go behind it and time only passes.
* `PicturesInOrderHolds` - `PicturesInOrder`, the safety part of `PicturesFlow`. `CameraInv`
  (`CameraInvHolds`) says that filled and queued buffers are together the ring, in order from the one
  the camera counts as next (`RingInOrder`), and that the filled ones hold consecutive pictures from
  the one that is due (`PicturesFollow`).
* `LoopTypeOKHolds` - `LoopTypeOK`, from the three invariants.

**The receiver's threads** (`ReceiverThreadsProofs`), for any number of frames and any headers, and
every order in which the two threads and the deleters run: `ThreadsTypeOKHolds` - `ThreadsTypeOK`, and
`RastersAreSafeHolds` - `RastersAreSafe`. The invariant is `ThreadsInv`: unused rasters are listed
once, held by nobody and without a cached hash (`UnusedAreFree`); what is held was allocated, and its
cached hash is that of its contents (`HeldAreAllocated`); and `MainSafe`, which says for each place of
the main thread what its handle is: a raster nobody else has while it is decoded into, a finished one
without a hash until it is pushed. Without the last part, the raster that is decoded into could be one
on the queue.

**Parts that share no state** (`UnitProofs`), whatever their constants:

* `MonaxIsConsistentHolds` - `MonaxIsConsistent`, whatever the floating-point arithmetic gives.
  `MonaxInv` says of which action each entry of the three histories is (`HistoriesAligned`: the labels
  are one action behind and one entry shorter until all are full, which is why comparing by places
  from the front is right), that models come in turn, and that samples without an action are only
  recorded before the first one.
* `FramesFitTheDelayHolds` - `FramesFitTheDelay`, for integers of any width of which `max_delay` and
  the packets sent fill at most half. The types (`BudgetTypesHold`) are inductive; the
  proof shows that under that assumption the unsigned difference converted to a signed one is the
  difference meant (`SignedIsSame`), and that rounding up to packets cannot exceed the room left
  (`FittingLeavesRoom`).
* `ImagesInOrderHolds` - `ImagesInOrderUnlessOverlapping`. `ImagesInv`: as long as no two threads have
  saved at once there is a frame `m` such that all before it are complete files with their own
  numbers, those after it have not begun, and its own thread accounts for `img_id`.
* `EncoderFollowsDecoderHolds` - `EncoderFollowsDecoder`. `CodecInv`: without segmentation the states
  are the same between frames as well, and without borrowed headers all adjustments are those an
  encoder makes itself, so the hash, which leaves them out, cannot hide a difference.
* `IvfIsWholeHolds` - `IvfIsWhole`. `IvfInv`: frames lie one behind the other (`FramesInOrder`),
  `file_size_` is where the writer's place in `append_frame` says (`WrittenSoFar`), what the header
  counts is whole (`CountedAreWhole`), and the reader has found the frames before its position
  (`ReadSoFar`). That each frame lies before *every* later one is part of it, so that the reader's
  position belongs to one frame only.
* `SearchesFindHolds` - `SearchesFind`, whatever quantizers fit and however the similarity depends on
  the level: nothing is assumed to be monotone or to have one maximum, and what is claimed is what a
  search without such an assumption can reach, no more than the neighbours. `Searched` is what the
  search for a size knows after any number of turns, and `HalveKeeps` that a turn also halves its
  window, so eight are enough; `ClimbStops` says where the climb to a filter level ends. What is remembered is a quantizer and a
  level, and only in realtime (`SearchInv`).
* `PredictsFromThisPictureHolds` - `PredictsFromThisPicture`, the part of `PixelsAreRight` about
  `Reconstruction`, and `ReconstructionTypeCorrect`, for pictures of every size and all motion
  vectors. `ReconstructionInv`: the decoder is at a block of the picture (`DecodedTyped`); all blocks
  before it in the order of decoding are written, within a macroblock by subblocks or quarters
  (`InOrderWritten`); what was read last is among them (`ReadFrom`), and no window of another picture
  leaves its plane (`ReadsInsidePlanes`). That the neighbours of a block come before it - all but
  those above and to the right, which the code replaces - is what `InOrderWritten` is needed for.

**What is written is what is read** (`BitstreamProofs`, `ResiduesProofs`), for data of any length. The
library's induction theorems take a predicate as a parameter, which no prover here can instantiate.
`SetInduction` is induction over a set of numbers instead: the numbers outside a set that holds 0 and
is closed under successor would have a least one (`WFMin`, `NatLessThanWellFounded`). From it follows
that a function defined by recursion over numbers exists (`IterationUpTo`, `IterationExists`), which is
how the loops of the code are modelled, and what holds at each of its values.

* `BoolsRoundTripHolds` - `BoolsRoundTrip`, and `CoderTypeCorrect` - `CoderTypeOK`, for octets of eight
  bits as in the code (the run has octets of three), any number of bools and any probabilities. The
  octets and the register of an encoder are read as one number, `Low`, the lower end of an interval of
  length `range`; each put keeps one part of the interval and scales it (`Encloses`, pulled back through
  a put by `EnclosedBefore`). The upper end stays below 255/256 of the whole, so a carry always finds
  an octet that is not full; `bottom + range` stays within two units of the top bits, so the register
  does not overflow. Flushing pushes the end point out to the last bit. The decoder keeps the distance
  of the number in the octets from the low end (`Follows`), so it compares with the split the encoder
  used. The invariant `CoderInv` says that the encoder is what the bools so far lead to.
* `LayoutRoundTripHolds` - `LayoutRoundTrip`, for first partitions below 2^19 octets, DCT partitions
  of any length their 24 bits can say and any number of them: the partitions a reader finds start at
  the sums of the lengths before them, and a frame cut anywhere is noticed or has a shorter last
  partition. Of a longer first partition it says that its length is read modulo 2^19
  (`TagIsReadModulo`) and that the frame is taken for a whole one.
* `ResiduesRoundTripHolds` - `ResiduesRoundTrip`, for any number of macroblocks in any number of columns,
  blocks of any length, and any coefficients a token can code. `TokenReads` follows the unfolded tree
  of `parse_tokens` for each of the ranges of values, `ExtraReads` the bits of an increment.
  `CoefficientReads` says that one turn of the decoder's loop undoes one of the encoder's, with the
  same next context, and that both leave out the first node after a zero; `InStep` keeps that up to
  the last coefficient, after which the decoder does ask, since that one is not zero (`RunEnd`).
  `SameContexts` is the step to frames: all neighbours a macroblock takes its contexts from come
  before it in raster order, so the decoder, which has only those, has the flags the encoder used.

The assumptions on constants are the named ones of the modules, which say their types. There is no
other unproved fact.

**Model-checked only.** *Liveness*: `AllFramesSent`, `LastFrameDecoded`, `PacketsLeave` and
`KeepsEncoding` (in `PacketsLeaveOnTime` and `PicturesFlow`), `ThreadsGoOn`; fairness needs `ENABLED`,
which the prover does not reason about. *Not proved so far*: `PredictionsRoundTrip`, `HeadersRoundTrip`
and `ChunksFit`, whose induction would go like that of `ResiduesRoundTrip`, and the parts of
`PixelsAreRight` about `PixelPredictions`, `Transforms` and `LoopFilter`: they compare what the filters
and transforms compute for given pictures, and how near a rebuilt picture is has no inductive
argument short of bounding the rounding of both transforms. `UnitsTypeOK` has the types of all parts; those of
`Monax`, `FrameBudget`, `IvfFile`, `BoolCoder` and `Reconstruction` are proved.

## Not modelled

* *Codec*: rate-distortion costs, the order in which the search tries modes and vectors, trellis
  quantization (an option of `xc-enc`), SSIM, colour conversion, scheduling of several DCT
  partitions, the coding of segment maps. `Transforms` and `PixelPredictions` are the C functions,
  not the assembly for SSE2 that the usual build takes instead.
* *Sender*: conventional mode's rate, the moving averages (floating point), the widths of telemetry,
  the memory log, the command line. A mean gap of 0 in conventional mode would be an integer
  division by zero (`sender.cc:588`), which `target_size` avoids by taking 1 for 0.
* *Receiver*: throughput counters; `main` returning while the display thread runs.
* *Display*: OpenGL.
* *Devices and files*: setting up the camera, the first frame of an MJPEG camera, sockets, mmap, y4m,
  jpeg, subprocesses.
* *Tools* that decode and print or compare.
* *Third-party code*: uWebSockets and its bundled libraries, jsoncpp, jsonxx. The gRPC service is
  generated and its client commented out.

Third-party code is about half of the lines of code in the repository, and tables of constants,
pixel arithmetic and platform set-up are most of the rest: the share of all lines that a model of the
program's behaviour can stand for is therefore small.

## Plan

Done: the session, the sender's loop with the encode thread, camera and pacer, the receiver's
threads and raster pool, the rate controller, the state, the syntax and the pixels of the codec,
files. Left:

1. Proofs: `HeadersRoundTrip` and `PredictionsRoundTrip`, with the lemmas of `ResiduesProofs` about
   reading what was said; how long conservative mode must last for its frames to be decodable, in
   place of `MaxExpirations = 0`, which needs a bound on how long packets are on their way; the
   receiver's display queue as a refinement of a queue.
2. The costs the encoder's search compares: that the estimate for a vector or a block is the sum of
   the bits that `MotionVectors` and `Residues` write for it.
3. Fixed-point versions of the moving averages and of conventional mode's rate.
