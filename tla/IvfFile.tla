------------------------------- MODULE IvfFile -------------------------------
(***************************************************************************)
(* An IVF file while it is written and when it is opened: IVFWriter of     *)
(* src/util/ivf_writer.cc, FileDescriptor::write of                        *)
(* src/util/file_descriptor.hh, IVF of src/util/ivf.cc and File of         *)
(* src/util/file.cc.  A write may put any number of octets into the file,  *)
(* the writer may die anywhere, and a reader may open the file at any time:*)
(* what it has mapped does not grow, but the count in the header does.     *)
(***************************************************************************)
EXTENDS Integers, Sequences

CONSTANTS
  IvfSizes,             \* sizes of the frames, and
  MaxIvfFrames          \* frames appended, bounds of the model

ASSUME IvfAssumption == IvfSizes \subseteq Nat \ {0} /\ MaxIvfFrames \in Nat

VARIABLES
  appended,             \* the frames given to append_frame: where each begins, and its size
  writer,               \* what the writer does next
  file_size_,           \* of the writer
  file_octets,          \* octets in the file
  header_count,         \* the frame count in its header
  reader,               \* what the reader does next, or how it has ended
  region,               \* octets it has mapped
  frame_count_,         \* the count it has read, and
  frame_index_,         \* the frames it has found: where each is, and its length
  counted               \* header_count when the region was mapped: a history variable

writerVars == <<appended, writer, file_size_, file_octets, header_count>>
readerVars == <<reader, region, frame_count_, frame_index_, counted>>
ivfVars == <<appended, writer, file_size_, file_octets, header_count,
             reader, region, frame_count_, frame_index_, counted>>

supported_header_len == 32
frame_header_len == 12

FrameInFile == [start : Nat, size : IvfSizes]

IvfTypeOK ==
  /\ appended \in Seq(FrameInFile) /\ Len(appended) <= MaxIvfFrames
  /\ writer \in {"header", "idle", "frame_header", "frame", "count", "dead"}
  /\ file_size_ \in Nat /\ file_octets \in Nat
  /\ header_count \in 0 .. Len(appended)
  /\ reader \in {"closed", "header", "index", "open", "invalid"}
  /\ region \in 0 .. file_octets
  /\ frame_count_ \in 0 .. header_count /\ counted \in 0 .. header_count
  /\ frame_index_ \in Seq(Nat \X IvfSizes)

IvfInit ==
  /\ appended = << >> /\ writer = "header" /\ file_size_ = 0
  /\ file_octets = 0 /\ header_count = 0
  /\ reader = "closed" /\ region = 0 /\ frame_count_ = 0 /\ frame_index_ = << >> /\ counted = 0

-----------------------------------------------------------------------------
(* IVFWriter.                                                              *)

(* Writes until the file has that many octets more than file_size_, which  *)
(* is brought up to date then.                                             *)
WritesAll(octets, this, next) ==
  /\ writer = this /\ file_octets < file_size_ + octets
  /\ file_octets' \in file_octets + 1 .. file_size_ + octets
  /\ IF file_octets' = file_size_ + octets
     THEN writer' = next /\ file_size_' = file_octets'
     ELSE UNCHANGED <<writer, file_size_>>
  /\ UNCHANGED <<appended, header_count>>

WriteFileHeader == WritesAll(supported_header_len, "header", "idle")

(* Counts the frame before it is there.                                    *)
MutantAppendFrame(size) ==
  /\ writer = "idle" /\ Len(appended) < MaxIvfFrames
  /\ appended' = Append(appended, [start |-> file_size_, size |-> size])
  /\ header_count' = Len(appended')
  /\ writer' = "frame_header"
  /\ UNCHANGED <<file_size_, file_octets>>

(* append_frame: the frame's header, the frame, then the count.            *)
AppendFrame(size) ==
  /\ writer = "idle" /\ Len(appended) < MaxIvfFrames
  /\ appended' = Append(appended, [start |-> file_size_, size |-> size])
  /\ writer' = "frame_header"
  /\ UNCHANGED <<file_size_, file_octets, header_count>>

WriteFrameHeader == WritesAll(frame_header_len, "frame_header", "frame")

WriteFrameOctets ==
  writer = "frame" /\ WritesAll(appended[Len(appended)].size, "frame", "count")

WriteCount ==
  /\ writer = "count"
  /\ header_count' = Len(appended)
  /\ writer' = "idle"
  /\ UNCHANGED <<appended, file_size_, file_octets>>

Die ==
  /\ writer # "dead" /\ writer' = "dead"
  /\ UNCHANGED <<appended, file_size_, file_octets, header_count>>

Writes ==
  /\ \/ WriteFileHeader
     \/ \E size \in IvfSizes : AppendFrame(size)
     \/ WriteFrameHeader \/ WriteFrameOctets \/ WriteCount
     \/ Die
  /\ UNCHANGED readerVars

-----------------------------------------------------------------------------
(* File, and the constructor of IVF.                                       *)

OpenFile ==
  /\ reader = "closed" /\ reader' = "header"
  /\ region' = file_octets /\ counted' = header_count
  /\ UNCHANGED <<frame_count_, frame_index_>>

(* Reading beyond the region throws out_of_range, which becomes Invalid.   *)
ReadFileHeader ==
  /\ reader = "header"
  /\ IF region < supported_header_len THEN reader' = "invalid" /\ UNCHANGED frame_count_
     ELSE reader' = "index" /\ frame_count_' = header_count
  /\ UNCHANGED <<region, frame_index_, counted>>

(* Where the next frame is expected to begin.                              *)
position ==
  IF frame_index_ = << >> THEN supported_header_len
  ELSE LET last == frame_index_[Len(frame_index_)] IN last[1] + last[2]

(* The length in a frame header at a position.                             *)
LengthAt(place) == LET i == CHOOSE i \in DOMAIN appended : appended[i].start = place IN appended[i].size

IndexFrame ==
  /\ reader = "index" /\ Len(frame_index_) < frame_count_
  /\ IF position + frame_header_len > region THEN reader' = "invalid" /\ UNCHANGED frame_index_
     ELSE frame_index_' = Append(frame_index_, <<position + frame_header_len, LengthAt(position)>>) /\ UNCHANGED reader
  /\ UNCHANGED <<region, frame_count_, counted>>

FinishIndex ==
  /\ reader = "index" /\ Len(frame_index_) = frame_count_ /\ reader' = "open"
  /\ UNCHANGED <<region, frame_count_, frame_index_, counted>>

Reads == (OpenFile \/ ReadFileHeader \/ IndexFrame \/ FinishIndex) /\ UNCHANGED writerVars

IvfNext == Writes \/ Reads
-----------------------------------------------------------------------------

(* append_frame asserts that file_size_ is the size of the file and that   *)
(* the header has the count: nothing is left half written between frames.  *)
AppendsAtTheEnd == writer = "idle" => file_octets = file_size_ /\ header_count = Len(appended)

(* Whoever opens the file, while it is written or after the writer has died*)
(* anywhere, finds the frames it indexes where they were put; those counted*)
(* when it opened the file are whole, and they are all that were appended  *)
(* but for the last.  It only fails if there is no header yet, or if a     *)
(* frame is counted that has come since.                                   *)
IvfIsWhole ==
  /\ AppendsAtTheEnd
  /\ header_count >= Len(appended) - 1
  /\ \A i \in DOMAIN frame_index_ :
       /\ frame_index_[i] = <<appended[i].start + frame_header_len, appended[i].size>>
       /\ i <= counted => frame_index_[i][1] + frame_index_[i][2] <= region
  /\ reader = "open" => Len(frame_index_) >= counted
  /\ reader = "invalid" => region < supported_header_len \/ Len(frame_index_) >= counted
=============================================================================
