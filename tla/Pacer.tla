------------------------------- MODULE Pacer -------------------------------
(***************************************************************************)
(* The pacer of src/net/pacer.hh: packets wait in a queue, each until a    *)
(* time of its own.  Times are counted in ticks from the present moment:   *)
(* 0 is now, and a packet whose time is not positive is overdue.           *)
(***************************************************************************)
EXTENDS Integers, Sequences, SequencesExt

CONSTANTS
  Millisecond,      \* ticks in a millisecond
  EmptyTimeout,     \* what ms_until_due returns for an empty queue: 1000
  MaxOverdue        \* the model forgets how much longer a packet is overdue

ASSUME PacerAssumption ==
  /\ Millisecond \in Nat \ {0}
  /\ EmptyTimeout \in Nat \ {0}
  /\ MaxOverdue \in Nat

VARIABLE queue      \* Seq([when, what])

(* Whole milliseconds, truncated towards zero.                             *)
Milliseconds(ticks) ==
  IF ticks >= 0 THEN ticks \div Millisecond ELSE -((- ticks) \div Millisecond)

(* Counts in units of two milliseconds.                                    *)
MutantCoarseClock(q) ==
  IF q = << >> THEN EmptyTimeout
  ELSE IF Head(q).when < 0 THEN 0 ELSE 2 * (Milliseconds(Head(q).when) \div 2)

(* The milliseconds until the packet at the front is due: 0 means less     *)
(* than one.                                                               *)
MsUntilDue(q) ==
  IF q = << >> THEN EmptyTimeout
  ELSE IF Head(q).when < 0 THEN 0 ELSE Milliseconds(Head(q).when)

IsDue == MsUntilDue(queue) = 0

(* The times of n packets pushed one after the other: each follows the one *)
(* before it at a distance, the first one of an empty queue is due at once. *)
Scheduled(q, i, delay) ==
  IF q = << >> THEN (i - 1) * delay ELSE Last(q).when + i * delay

(* Puts a new frame before the packets that wait.                          *)
MutantPushAll(q, first, n, delay) ==
  [i \in 1 .. n |-> [when |-> Scheduled(q, i, delay), what |-> first + i - 1]] \o q

(* n packets of consecutive numbers are pushed.                            *)
PushAll(q, first, n, delay) ==
  q \o [i \in 1 .. n |-> [when |-> Scheduled(q, i, delay), what |-> first + i - 1]]

(* The pops of one callback: it goes on while the packet at the front is   *)
(* due, k packets in all.                                                  *)
SendsWhileDue(k) ==
  /\ \A i \in 1 .. k : MsUntilDue(SubSeq(queue, i, Len(queue))) = 0
  /\ MsUntilDue(SubSeq(queue, k + 1, Len(queue))) # 0

(* A tick of the clock.                                                    *)
Elapse(when) == IF when > - MaxOverdue THEN when - 1 ELSE when

Elapsed(q) == [i \in DOMAIN q |-> [q[i] EXCEPT !.when = Elapse(@)]]
=============================================================================
