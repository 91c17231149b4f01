--------------------------- MODULE DecoderHashes ---------------------------
(***************************************************************************)
(* The 32-bit "minihash" by which sender and receiver name the state of a  *)
(* VP8 decoder.  Both programs look at a hash in one way only: they test   *)
(* it for equality with another hash.  So a hash is modelled by a number:  *)
(* 0 for the state of a decoder that has decoded nothing, n > 0 for a      *)
(* state an encoder reached by encoding a frame.  Two different states are *)
(* assumed to have different hashes (collisions are not modelled).         *)
(***************************************************************************)
EXTENDS Integers, Sequences, Functions

(* The hashes an encoder can compute.                                      *)
Hash == Nat

(* The hash of a freshly constructed encoder or decoder (initial_state).   *)
Initial == 0

(* The hash of any state no encoder was ever in: what is left after        *)
(* decoding a truncated frame, or a frame on top of the wrong state.       *)
Corrupt == -1

(* An Optional that is not initialized, and the maximum value of an        *)
(* unsigned counter where the code uses it to say "nothing yet".           *)
None == -2

(* Both programs throw away the front of a deque up to the first element   *)
(* they still need: dropping k elements from s is what that loop does when *)
(* it stops at an element of keep (or runs to the end of the deque).       *)
StopsAfter(s, keep, k) ==
  /\ k \in 0 .. Len(s)
  /\ \A i \in 1 .. k : s[i] \notin keep
  /\ k < Len(s) => s[k + 1] \in keep

(* The last element of a deque (back()), or dflt when it is empty.         *)
Back(s, dflt) == IF s = << >> THEN dflt ELSE s[Len(s)]
=============================================================================
