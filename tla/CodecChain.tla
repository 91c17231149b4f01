----------------------------- MODULE CodecChain ----------------------------
(***************************************************************************)
(* What a functional video codec lets a session promise, whatever the      *)
(* network does.  The encoder publishes steps from one decoder state to    *)
(* another.  The viewer only ever moves along a published step that starts *)
(* at a state it has; otherwise it has lost the chain, and the one thing   *)
(* it can do is to wait for a step that starts where it has been.          *)
(***************************************************************************)
EXTENDS DecoderHashes

CONSTANT MaxSteps   (* bound of the model: published steps *)

VARIABLES
  steps,    (* the published steps, <<source, target>>                      *)
  held,     (* the states the viewer can go back to                         *)
  viewing   (* the state the viewer is in, or Corrupt                       *)

chain_vars == <<steps, held, viewing>>

ChainInit ==
  /\ steps = {}
  /\ held = {Initial}
  /\ viewing = Initial

Publish(source, target) ==
  /\ source = Initial \/ \E step \in steps : step[2] = source
  /\ steps' = steps \cup {<<source, target>>}
  /\ UNCHANGED <<held, viewing>>

(* Moving to the target of a step; older states may be let go.             *)
Follow(source, target) ==
  /\ <<source, target>> \in steps
  /\ source \in held
  /\ viewing' = target
  /\ target \in held'
  /\ held' \subseteq held \cup {target}
  /\ UNCHANGED steps

(* Decoding anything else.                                                 *)
LoseChain ==
  /\ viewing' = Corrupt
  /\ UNCHANGED <<steps, held>>

ChainNext ==
  \/ \E source, target \in 0 .. MaxSteps : Publish(source, target)
  \/ \E step \in steps : Follow(step[1], step[2])
  \/ LoseChain

ChainSpec == ChainInit /\ [][ChainNext]_chain_vars
=============================================================================
