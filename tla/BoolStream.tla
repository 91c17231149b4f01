----------------------------- MODULE BoolStream -----------------------------
(***************************************************************************)
(* What is written with a BoolEncoder, above the arithmetic coding that    *)
(* module BoolCoder is about: a sequence of bools, each with a label for   *)
(* the probability it is coded with.  A decoder that asks with another     *)
(* probability reads something else.                                       *)
(***************************************************************************)
EXTENDS Integers, Sequences, SequencesExt

Bit(b) == IF b THEN 1 ELSE 0
Magnitude(n) == IF n < 0 THEN -n ELSE n
Symbol(bit, label) == [bit |-> bit, label |-> label]

(* wrong is set when what is asked for is not what was written, or nothing *)
(* is left.                                                                *)
Reader(symbols) == [in |-> symbols, wrong |-> FALSE, bit |-> FALSE, value |-> 0]

Ask(d, label) ==
  IF d.in = << >> \/ Head(d.in).label # label THEN [d EXCEPT !.wrong = TRUE, !.bit = FALSE]
  ELSE [d EXCEPT !.in = Tail(@), !.bit = Head(d.in).bit]

IsRead(d) == d.in = << >> /\ ~d.wrong

(* A reader has ended with what was written.                               *)
HasRead(parsed, written) == parsed.read = written /\ IsRead(parsed.d)

-----------------------------------------------------------------------------
(* Trees are arrays: an entry above 0 is the index of a pair of entries,   *)
(* the others are the negated values.                                      *)

TreeOf(entries) == [i \in 0 .. Len(entries) - 1 |-> entries[i + 1]]

(* The path to a value, as encode_tree.cc finds it: up from its entry.     *)
TreePath(nodes, value) ==
  LET IndexOf(entry) == CHOOSE i \in DOMAIN nodes : nodes[i] = entry
      up[i \in DOMAIN nodes] == IF i <= 1 THEN <<i>> ELSE Append(up[IndexOf(i - (i % 2))], i)
  IN  up[IndexOf(-value)]

(* The bool at each pair of entries has its label, in labels.              *)
PutTree(nodes, value, labels) ==
  LET path == TreePath(nodes, value)
  IN  [k \in DOMAIN path |-> Symbol(path[k] % 2 = 1, labels[path[k] \div 2])]

(* BoolDecoder::tree.                                                      *)
AskTree(d, nodes, labels) ==
  LET Down(s) == LET a == Ask(s.d, labels[s.node \div 2])
                     next == nodes[s.node + Bit(a.bit)]
                 IN  [d |-> [a EXCEPT !.value = -next], node |-> next, leaf |-> next <= 0]
      walk == FoldLeft(LAMBDA s, turn : IF s.leaf THEN s ELSE Down(s),
                       [d |-> d, node |-> 0, leaf |-> FALSE], [k \in DOMAIN nodes \ {0} |-> k])
  IN  walk.d
=============================================================================
