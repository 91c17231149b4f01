----------------------------- MODULE RasterPool -----------------------------
(***************************************************************************)
(* The pool of rasters of src/decoder/raster_handle.cc.  Handles are       *)
(* counted; the thread that drops the last handle of a raster runs its     *)
(* deleter, which forgets the cached hash and then, with the pool's lock,  *)
(* puts the raster among the unused ones.  What holds a raster is up to    *)
(* the module that extends this one.  The pool of frames of frame_pool.cc  *)
(* has the same shape, without the hash.                                   *)
(***************************************************************************)
EXTENDS Integers, Sequences, SequencesExt

CONSTANT MaxDecoded     \* frames decoded, a bound of the model

ASSUME PoolAssumption == MaxDecoded \in Nat \ {0}

VARIABLES
  unused_rasters,
  created,              \* rasters that have been allocated
  contents,             \* the frame each raster shows
  frozen_hash

poolVars == <<unused_rasters, created, contents, frozen_hash>>

(* A raster for each frame, and the one that a decoder begins with.        *)
Rasters == 0 .. MaxDecoded
NoRaster == MaxDecoded + 1

(* What a raster shows: a frame, the blank picture, or half a frame.       *)
Blank == 0
HalfDecoded == MaxDecoded + 1
Contents == 0 .. MaxDecoded + 1
NoHash == MaxDecoded + 2

PoolTypeOK ==
  /\ unused_rasters \in Seq(Rasters)
  /\ created \in 1 .. MaxDecoded + 1
  /\ contents \in [Rasters -> Contents]
  /\ frozen_hash \in [Rasters -> Contents \cup {NoHash}]

(* The constructor of a decoder takes the first raster.                    *)
PoolInit ==
  /\ unused_rasters = << >>
  /\ created = 1
  /\ contents = [r \in Rasters |-> Blank]
  /\ frozen_hash = [r \in Rasters |-> NoHash]

(* A raster for a new frame, which is decoded into it: the first unused one*)
(* or else a new one.                                                      *)
MakeRaster(r) ==
  /\ IF unused_rasters = << >>
     THEN r = created /\ created' = created + 1 /\ UNCHANGED unused_rasters
     ELSE r = Head(unused_rasters) /\ unused_rasters' = Tail(unused_rasters)
          /\ UNCHANGED created
  /\ contents' = [contents EXCEPT ![r] = HalfDecoded]
  /\ UNCHANGED frozen_hash

FinishRaster(r, frame) ==
  /\ contents' = [contents EXCEPT ![r] = frame]
  /\ UNCHANGED <<unused_rasters, created, frozen_hash>>

(* The hash is computed once for each use of a raster.                     *)
HashRasters(R) ==
  /\ frozen_hash' =
       [r \in Rasters |-> IF r \in R /\ frozen_hash[r] = NoHash THEN contents[r]
                          ELSE frozen_hash[r]]
  /\ UNCHANGED <<unused_rasters, created, contents>>

(* The deleter, whose two steps only see a raster that nobody holds.       *)
ResetCache(r) ==
  /\ frozen_hash[r] # NoHash
  /\ frozen_hash' = [frozen_hash EXCEPT ![r] = NoHash]
  /\ UNCHANGED <<unused_rasters, created, contents>>

ReadyToFree(r) == frozen_hash[r] = NoHash

FreeRaster(r) ==
  /\ ReadyToFree(r)
  /\ unused_rasters' = Append(unused_rasters, r)
  /\ UNCHANGED <<created, contents, frozen_hash>>

Allocated == 0 .. created - 1
Unused == Range(unused_rasters)
=============================================================================
