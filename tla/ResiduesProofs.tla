---------------------------- MODULE ResiduesProofs ---------------------------
(***************************************************************************)
(* The residues that are read are those that were written: any coefficients*)
(* of any number of macroblocks.  What is read is q, the symbols of all of *)
(* the frame; what the decoder does is followed along q, from a symbol to a*)
(* token, a coefficient, a block, a macroblock and the frame.  After each  *)
(* coefficient encoder and decoder have the same context, after each       *)
(* macroblock the same flags of its blocks, and the decoder has read       *)
(* exactly what was written.                                               *)
(***************************************************************************)
EXTENDS Residues, BitstreamProofs

-----------------------------------------------------------------------------
(***************************************************************************)
(* Reading is following what q says from some place on.  First one symbol, *)
(***************************************************************************)

BlockTypes == {"Y2", "Y_after_Y2", "Y_without_Y2"}

(* Labels of the tree, of the increments and the sign, and of a node where *)
(* it is used.                                                             *)
NodeLabels == {<<n>> : n \in Nodes}
FixedLabels == {<<base, i>> : base \in Nat, i \in Nat}
PlacedLabels == {Label(type, index, context, n) : type \in BlockTypes, index \in Nat, context \in Nat, n \in Nodes}
TokenSymbols == [bit : BOOLEAN, label : NodeLabels \cup FixedLabels]
Symbols == [bit : BOOLEAN, label : NodeLabels \cup FixedLabels \cup PlacedLabels]
Readers == [in : Seq(Symbols), wrong : BOOLEAN, bit : BOOLEAN, value : Int]

(* What is left of q after k symbols, and a decoder that has read them.    *)
Rest(q, k) == SubSeq(q, k + 1, Len(q))
Reads(d, q, k) == d \in Readers /\ d.in = Rest(q, k) /\ ~d.wrong

(* q says p after k symbols.                                               *)
Says(q, k, p) == k + Len(p) <= Len(q) /\ \A i \in 1 .. Len(p) : q[k + i] = p[i]

(* Reading the next symbol leaves the rest after it.                       *)
LEMMA RestFacts ==
  ASSUME NEW q \in Seq(Symbols), NEW k \in Nat, k < Len(q)
  PROVE  /\ Rest(q, k) \in Seq(Symbols) /\ Rest(q, k) # << >> /\ Head(Rest(q, k)) = q[k + 1]
         /\ Tail(Rest(q, k)) = Rest(q, k + 1) /\ Rest(q, k + 1) \in Seq(Symbols) /\ q[k + 1] \in Symbols
<1> DEFINE r == Rest(q, k)
           t == Rest(q, k + 1)
           n == Len(q)
<1>1. r \in Seq(Symbols) /\ Len(r) = n - k /\ \A i \in 1 .. n - k : r[i] = q[k + i]
  BY DEF Rest
<1>2. t \in Seq(Symbols) /\ Len(t) = n - (k + 1) /\ \A i \in 1 .. n - (k + 1) : t[i] = q[(k + 1) + i]
  BY DEF Rest
<1>3. n \in Nat /\ k < n
  OBVIOUS
<1>4. q[k + 1] \in Symbols
  BY <1>3
<1> HIDE DEF r, t, n
<1>5. r # << >> /\ Head(r) = q[k + 1]
  BY <1>1, <1>3
<1>6. Tail(r) \in Seq(Symbols) /\ Len(Tail(r)) = n - (k + 1) /\ \A i \in 1 .. n - (k + 1) : Tail(r)[i] = r[i + 1]
  BY <1>1, <1>3, <1>5
<1>7. \A i \in 1 .. n - (k + 1) : Tail(r)[i] = t[i]
  BY <1>1, <1>2, <1>3, <1>6
<1>8. Tail(r) = t
  BY <1>2, <1>6, <1>7
<1>9. QED
  BY <1>1, <1>2, <1>4, <1>5, <1>8 DEF r, t

(* Any symbol.                                                             *)
LEMMA AskTyped ==
  ASSUME NEW d \in Readers, NEW label
  PROVE  Ask(d, label) \in Readers
<1>1. CASE d.in = << >> \/ Head(d.in).label # label
  BY <1>1 DEF Ask, Readers
<1>2. CASE ~(d.in = << >> \/ Head(d.in).label # label)
  <2>1. Head(d.in) \in Symbols /\ Tail(d.in) \in Seq(Symbols)
    BY <1>2 DEF Readers
  <2>2. Head(d.in).bit \in BOOLEAN
    BY <2>1 DEF Symbols
  <2>3. Ask(d, label) = [d EXCEPT !.in = Tail(d.in), !.bit = Head(d.in).bit]
    BY <1>2 DEF Ask
  <2>4. QED
    BY <2>1, <2>2, <2>3 DEF Readers
<1>3. QED
  BY <1>1, <1>2

(* The symbol that is there.                                               *)
LEMMA AskReads ==
  ASSUME NEW q \in Seq(Symbols), NEW k \in Nat, k < Len(q), NEW d, Reads(d, q, k),
         NEW label, q[k + 1].label = label
  PROVE  /\ Reads(Ask(d, label), q, k + 1)
         /\ Ask(d, label).bit = q[k + 1].bit /\ Ask(d, label).value = d.value
<1>1. /\ d \in Readers /\ ~d.wrong /\ d.in # << >> /\ Head(d.in) = q[k + 1] /\ Tail(d.in) = Rest(q, k + 1)
  BY RestFacts DEF Reads
<1>2. Ask(d, label) = [d EXCEPT !.in = Rest(q, k + 1), !.bit = q[k + 1].bit]
  BY <1>1 DEF Ask
<1>3. Ask(d, label) \in Readers
  BY <1>1, AskTyped
<1>4. QED
  BY <1>1, <1>2, <1>3 DEF Reads, Readers

(* What says two parts says each of them.                                  *)
LEMMA SaysParts ==
  ASSUME NEW q \in Seq(Symbols), NEW k \in Nat, NEW a \in Seq(Symbols), NEW b \in Seq(Symbols), Says(q, k, a \o b)
  PROVE  Says(q, k, a) /\ Says(q, k + Len(a), b) /\ Len(a \o b) = Len(a) + Len(b) /\ a \o b \in Seq(Symbols)
<1> DEFINE m == Len(a)
           n == Len(b)
           c == a \o b
<1>1. m \in Nat /\ n \in Nat /\ Len(c) = m + n /\ c \in Seq(Symbols)
  OBVIOUS
<1>2. \A i \in 1 .. m : i \in 1 .. m + n /\ c[i] = a[i]
  OBVIOUS
<1>3. \A i \in 1 .. n : m + i \in 1 .. m + n /\ c[m + i] = b[i]
  OBVIOUS
<1>4. k + (m + n) <= Len(q) /\ \A i \in 1 .. m + n : q[k + i] = c[i]
  BY <1>1 DEF Says
<1> HIDE DEF c, m, n
<1>5. \A i \in 1 .. m : q[k + i] = a[i]
  BY <1>2, <1>4
<1>6. \A i \in 1 .. n : q[(k + m) + i] = b[i]
  <2>1. \A i \in 1 .. n : (k + m) + i = k + (m + i)
    BY <1>1
  <2>2. QED
    BY <1>3, <1>4, <2>1
<1>7. k + m <= Len(q) /\ (k + m) + n <= Len(q)
  BY <1>1, <1>4
<1>8. QED
  BY <1>1, <1>5, <1>6, <1>7 DEF Says, m, n, c

(* The symbol that is said.                                                *)
LEMMA SaysOne ==
  ASSUME NEW q \in Seq(Symbols), NEW k \in Nat, NEW x, Says(q, k, <<x>>)
  PROVE  k < Len(q) /\ q[k + 1] = x
BY DEF Says

-----------------------------------------------------------------------------
(***************************************************************************)
(* an increment, bit by bit,                                               *)
(***************************************************************************)

(* The bits of a number come from halving it.                              *)
LEMMA HalvesAgain ==
  ASSUME NEW n \in Nat, NEW j \in Nat, j <= 10
  PROVE  /\ n \div 2^j = 2 * (n \div 2^(j + 1)) + ((n \div 2^j) % 2)
         /\ n \div 2^j \in Nat /\ n \div 2^(j + 1) \in Nat
<1>0. CASE j = 0
  <2>1. 2^j = 1 /\ 2^(j + 1) = 2
    BY <1>0, SMT
  <2>2. QED
    BY <2>1, SMT
<1>1. CASE j = 1
  <2>1. 2^j = 2 /\ 2^(j + 1) = 4
    BY <1>1, SMT
  <2>2. QED
    BY <2>1, SMT
<1>2. CASE j = 2
  <2>1. 2^j = 4 /\ 2^(j + 1) = 8
    BY <1>2, SMT
  <2>2. QED
    BY <2>1, SMT
<1>3. CASE j = 3
  <2>1. 2^j = 8 /\ 2^(j + 1) = 16
    BY <1>3, SMT
  <2>2. QED
    BY <2>1, SMT
<1>4. CASE j = 4
  <2>1. 2^j = 16 /\ 2^(j + 1) = 32
    BY <1>4, SMT
  <2>2. QED
    BY <2>1, SMT
<1>5. CASE j = 5
  <2>1. 2^j = 32 /\ 2^(j + 1) = 64
    BY <1>5, SMT
  <2>2. QED
    BY <2>1, SMT
<1>6. CASE j = 6
  <2>1. 2^j = 64 /\ 2^(j + 1) = 128
    BY <1>6, SMT
  <2>2. QED
    BY <2>1, SMT
<1>7. CASE j = 7
  <2>1. 2^j = 128 /\ 2^(j + 1) = 256
    BY <1>7, SMT
  <2>2. QED
    BY <2>1, SMT
<1>8. CASE j = 8
  <2>1. 2^j = 256 /\ 2^(j + 1) = 512
    BY <1>8, SMT
  <2>2. QED
    BY <2>1, SMT
<1>9. CASE j = 9
  <2>1. 2^j = 512 /\ 2^(j + 1) = 1024
    BY <1>9, SMT
  <2>2. QED
    BY <2>1, SMT
<1>10. CASE j = 10
  <2>1. 2^j = 1024 /\ 2^(j + 1) = 2048
    BY <1>10, SMT
  <2>2. QED
    BY <2>1, SMT
<1>11. QED
  BY <1>0, <1>1, <1>2, <1>3, <1>4, <1>5, <1>6, <1>7, <1>8, <1>9, <1>10

(* A symbol has two parts.                                                 *)
LEMMA SymbolParts ==
  \A x, bit, label : x = [bit |-> bit, label |-> label] => x.bit = bit /\ x.label = label
OBVIOUS

(* One bit of an increment.                                                *)
AskBit(d, base, i) == LET a == Ask(d, <<base, i>>) IN [a EXCEPT !.value = 2 * @ + Bit(a.bit)]

(* It leaves a reader.                                                     *)
LEMMA AskBitTyped ==
  ASSUME NEW d \in Readers, NEW base, NEW i
  PROVE  AskBit(d, base, i) \in Readers
<1> DEFINE a == Ask(d, <<base, i>>)
<1>1. a \in Readers
  BY AskTyped
<1> HIDE DEF a
<1>2. Bit(a.bit) \in Int /\ a.value \in Int
  BY <1>1 DEF Bit, Readers
<1>3. [a EXCEPT !.value = 2 * a.value + Bit(a.bit)] \in Readers
  BY <1>1, <1>2 DEF Readers
<1>4. QED
  BY <1>3 DEF AskBit, a

(* The states in which the bits are read, one after another.               *)
ExtraRun(f, d, base, length) ==
  /\ f[0] = [d EXCEPT !.value = 0] /\ f[0] \in Readers
  /\ \A i \in 1 .. length : f[i] = AskBit(f[i - 1], base, i)
  /\ AskExtra(d, base, length) = [f[length] EXCEPT !.value = @ + base]

(* The loop of TokenDecoder::decode has these states.                      *)
LEMMA ExtraIterates ==
  ASSUME NEW d \in Readers, NEW base, NEW length \in Nat
  PROVE  \E f : ExtraRun(f, d, base, length)
<1> DEFINE a == [d EXCEPT !.value = 0]
           step == [p \in Readers \X Nat |-> AskBit(p[1], base, p[2])]
           Def(f) == f = [i \in 0 .. length |-> IF i = 0 THEN a ELSE
                            LET b == Ask(f[i - 1], <<base, i>>) IN [b EXCEPT !.value = 2 * @ + Bit(b.bit)]]
<1>1. a \in Readers
  BY DEF Readers
<1>2. step \in [Readers \X Nat -> Readers]
  BY AskBitTyped
<1>3. \E h \in [0 .. length -> Readers] : IteratesUpTo(h, length, a, step)
  <2> HIDE DEF step, a
  <2>1. \A n \in Nat : \E h \in [0 .. n -> Readers] : IteratesUpTo(h, n, a, step)
    BY <1>1, <1>2, IterationUpTo
  <2>2. QED
    BY <2>1
<1>4. PICK h \in [0 .. length -> Readers] : IteratesUpTo(h, length, a, step)
  BY <1>3, Zenon
<1>5. Def(h)
  <2>1. ASSUME NEW i \in 0 .. length PROVE h[i] = IF i = 0 THEN a ELSE AskBit(h[i - 1], base, i)
    <3>1. CASE i = 0
      BY <3>1, <1>4 DEF IteratesUpTo
    <3>2. CASE i # 0
      <4>1. i \in 1 .. length /\ i - 1 \in 0 .. length /\ i \in Nat
        BY <3>2
      <4>2. h[i] = step[<<h[i - 1], i>>]
        BY <1>4, <4>1, Zenon DEF IteratesUpTo
      <4>3. h[i - 1] \in Readers
        BY <4>1
      <4>4. step[<<h[i - 1], i>>] = AskBit(h[i - 1], base, i)
        BY <4>1, <4>3
      <4>5. QED
        BY <3>2, <4>2, <4>4, Zenon
    <3>3. QED
      BY <3>1, <3>2
  <2>2. h = [i \in 0 .. length |-> h[i]]
    OBVIOUS
  <2>3. QED
    BY <2>1, <2>2 DEF AskBit
<1> DEFINE f == CHOOSE f : Def(f)
<1>6. Def(f)
  <2> HIDE DEF Def
  <2>1. QED
    BY <1>5, Zenon
<1>7. AskExtra(d, base, length) = [f[length] EXCEPT !.value = @ + base]
  BY DEF AskExtra
<1>8. \A i \in 0 .. length : f[i] = IF i = 0 THEN a ELSE AskBit(f[i - 1], base, i)
  <2> HIDE DEF f
  <2>1. QED
    BY <1>6 DEF AskBit
<1> HIDE DEF f, a
<1>9. f[0] = a /\ \A i \in 1 .. length : f[i] = AskBit(f[i - 1], base, i)
  <2>1. 0 \in 0 .. length /\ \A i \in 1 .. length : i \in 0 .. length /\ i # 0
    OBVIOUS
  <2>2. QED
    BY <1>8, <2>1, Zenon
<1>10. ExtraRun(f, d, base, length)
  BY <1>1, <1>7, <1>9 DEF ExtraRun, a
<1>11. QED
  BY <1>10, Zenon

(* An increment of that length leads to v.                                 *)
Reaches(base, length, v) ==
  base \in Nat /\ length \in Nat /\ length <= 11 /\ v - base \in Nat /\ v - base < 2^length /\ v \in Nat

(* The value of an increment, from its highest bit on.                     *)
LEMMA ExtraReads ==
  ASSUME NEW q \in Seq(Symbols), NEW k \in Nat, NEW base, NEW length, NEW v, Reaches(base, length, v),
         Says(q, k, Extra(base, length, v)), NEW d, Reads(d, q, k)
  PROVE  /\ Reads(AskExtra(d, base, length), q, k + length) /\ AskExtra(d, base, length).value = v
<1> DEFINE n == v - base
<1>01. base \in Nat /\ length \in Nat /\ length <= 11 /\ n \in Nat /\ n < 2^length /\ v = base + n
  BY DEF Reaches
<1> HIDE DEF n
<1> USE <1>01
<1>0. d \in Readers
  BY DEF Reads
<1>1. PICK f : ExtraRun(f, d, base, length)
  BY <1>0, ExtraIterates
<1>2. /\ k + length <= Len(q)
      /\ \A i \in 1 .. length : /\ q[k + i].bit = ((n \div 2^(length - i)) % 2 = 1)
                                /\ q[k + i].label = <<base, i>>
  <2>1. Len(Extra(base, length, base + n)) = length
    BY DEF Extra
  <2>2. (base + n) - base = n
    OBVIOUS
  <2>3. \A i \in 1 .. length : Extra(base, length, base + n)[i] = Symbol((n \div 2^(length - i)) % 2 = 1, <<base, i>>)
    BY <2>2 DEF Extra
  <2>4. k + length <= Len(q) /\ \A i \in 1 .. length : q[k + i] = Extra(base, length, base + n)[i]
    <3>1. Says(q, k, Extra(base, length, base + n))
      BY Zenon
    <3>2. QED
      BY <2>1, <3>1, Zenon DEF Says
  <2>5. \A i \in 1 .. length : q[k + i] = [bit |-> (n \div 2^(length - i)) % 2 = 1, label |-> <<base, i>>]
    BY <2>3, <2>4, Zenon DEF Symbol
  <2> DEFINE set(i) == (n \div 2^(length - i)) % 2 = 1
  <2> HIDE DEF set
  <2>6. \A i \in 1 .. length : q[k + i] = [bit |-> set(i), label |-> <<base, i>>]
    BY <2>5, Zenon DEF set
  <2>7. \A i \in 1 .. length : q[k + i].bit = set(i) /\ q[k + i].label = <<base, i>>
    <3> SUFFICES ASSUME NEW i \in 1 .. length PROVE q[k + i].bit = set(i) /\ q[k + i].label = <<base, i>>
      BY Zenon
    <3> DEFINE l == <<base, i>>
    <3>1. q[k + i] = [bit |-> set(i), label |-> l]
      BY <2>6, Zenon
    <3> HIDE DEF l
    <3>2. q[k + i].bit = set(i) /\ q[k + i].label = l
      BY <3>1, SymbolParts, Zenon
    <3>3. QED
      BY <3>2, Zenon DEF l
  <2>8. QED
    BY <2>4, <2>7, Zenon DEF set
<1> DEFINE P(i) == Reads(f[i], q, k + i) /\ f[i].value = n \div 2^(length - i)
           read == {i \in Nat : i <= length => P(i)}
<1>3. 0 \in read
  <2>1. f[0].in = d.in /\ f[0].wrong = d.wrong /\ f[0].value = 0
    BY <1>1 DEF ExtraRun, Reads, Readers
  <2>2. n \div 2^length = 0
    <3>1. length \in 0 .. 11
      OBVIOUS
    <3>2. 2^length \in Nat \ {0}
      BY <3>1, SMT
    <3>3. QED
      BY <3>2, SMT
  <2>3. Reads(f[0], q, k + 0)
    BY <1>1, <2>1 DEF ExtraRun, Reads
  <2>4. QED
    BY <2>1, <2>2, <2>3
<1>4. ASSUME NEW i \in Nat, i \in read PROVE i + 1 \in read
  <2> SUFFICES ASSUME i + 1 <= length PROVE P(i + 1)
    OBVIOUS
  <2> DEFINE a == Ask(f[i], <<base, i + 1>>)
             j == length - (i + 1)
             e == f[i]
             h == n \div 2^(j + 1)
  <2>1. Reads(e, q, k + i) /\ e.value = h
    <3>1. length - i = j + 1
      OBVIOUS
    <3>2. QED
      BY <1>4, <3>1
  <2>2. k + i \in Nat /\ k + i < Len(q) /\ (k + i) + 1 = k + (i + 1) /\ i + 1 \in 1 .. length /\ (i + 1) - 1 = i
    BY <1>2
  <2>3. q[(k + i) + 1].bit = ((n \div 2^j) % 2 = 1) /\ q[(k + i) + 1].label = <<base, i + 1>>
    BY <1>2, <2>2
  <2>4. f[i + 1] = [a EXCEPT !.value = 2 * @ + Bit(a.bit)]
    BY <1>1, <2>2, Zenon DEF AskBit, ExtraRun
  <2>5. j \in Nat /\ j <= 10
    OBVIOUS
  <2> HIDE DEF e, h, j
  <2>6. Reads(a, q, (k + i) + 1) /\ a.bit = ((n \div 2^j) % 2 = 1) /\ a.value = h
    <3> DEFINE l == <<base, i + 1>>
    <3>1. q[(k + i) + 1].label = l
      BY <2>3
    <3> HIDE DEF l
    <3>2. Reads(Ask(e, l), q, (k + i) + 1) /\ Ask(e, l).bit = q[(k + i) + 1].bit /\ Ask(e, l).value = e.value
      <4> DEFINE m == k + i
      <4>1. m \in Nat /\ m < Len(q) /\ Reads(e, q, m) /\ q[m + 1].label = l
        BY <2>1, <2>2, <3>1
      <4> HIDE DEF m
      <4>2. Reads(Ask(e, l), q, m + 1) /\ Ask(e, l).bit = q[m + 1].bit /\ Ask(e, l).value = e.value
        BY ONLY q \in Seq(Symbols), <4>1, AskReads
      <4>3. QED
        BY <4>2, Zenon DEF m
    <3>3. a = Ask(e, l)
      BY DEF a, e, l
    <3>4. QED
      BY <2>1, <2>3, <3>2, <3>3, Zenon
  <2>7. n \div 2^j = 2 * h + ((n \div 2^j) % 2) /\ n \div 2^j \in Nat /\ h \in Nat
    BY <2>5, HalvesAgain DEF h
  <2>8. 2 * h + Bit(a.bit) = n \div 2^j
    <3>1. (n \div 2^j) % 2 = 0 \/ (n \div 2^j) % 2 = 1
      BY <2>7
    <3>2. QED
      BY <2>6, <2>7, <3>1 DEF Bit
  <2> HIDE DEF a
  <2>9. f[i + 1] = [a EXCEPT !.value = n \div 2^j]
    BY <2>4, <2>6, <2>8
  <2>10. Reads(f[i + 1], q, k + (i + 1)) /\ f[i + 1].value = n \div 2^j
    <3>1. n \div 2^j \in Int
      BY <2>7
    <3>2. QED
      BY <2>2, <2>6, <2>9, <3>1 DEF Reads, Readers
  <2>11. QED
    BY <2>10 DEF j
<1>5. P(length)
  <2>1. \A i \in Nat : i \in read
    <3> HIDE DEF read
    <3>1. QED
      BY <1>3, <1>4, SetInduction
  <2>2. length \in read
    <3> HIDE DEF read
    <3>1. QED
      BY <2>1
  <2>3. length <= length
    OBVIOUS
  <2> HIDE DEF P
  <2>4. QED
    BY <2>2, <2>3
<1>6. Reads(f[length], q, k + length) /\ f[length].value = n
  <2>1. n \div 2^(length - length) = n
    <3>1. length - length = 0
      OBVIOUS
    <3>2. n \div 2^0 = n
      BY SMT
    <3>3. QED
      BY <3>1, <3>2
  <2>2. QED
    BY <1>5, <2>1
<1> DEFINE e == f[length]
<1>7. e \in Readers /\ e.value = n /\ AskExtra(d, base, length) = [e EXCEPT !.value = e.value + base]
  BY <1>1, <1>6, Zenon DEF ExtraRun, Reads
<1>8. e.in = Rest(q, k + length) /\ ~e.wrong
  BY <1>6 DEF Reads
<1> HIDE DEF e
<1>9. AskExtra(d, base, length) = [e EXCEPT !.value = base + n]
  BY <1>7
<1>10. base + n \in Int
  OBVIOUS
<1> DEFINE r == AskExtra(d, base, length)
<1> HIDE DEF r
<1>11. r \in Readers /\ r.in = e.in /\ r.wrong = e.wrong /\ r.value = base + n
  BY <1>7, <1>9, <1>10 DEF Readers, r
<1>12. QED
  BY <1>8, <1>11 DEF Reads, r

-----------------------------------------------------------------------------
(***************************************************************************)
(* and a path in the token tree with what is behind it.                    *)
(***************************************************************************)

(* One sequence behind another.                                            *)
LEMMA ConcatParts ==
  ASSUME NEW S, NEW a \in Seq(S), NEW b \in Seq(S)
  PROVE  /\ a \o b \in Seq(S) /\ Len(a \o b) = Len(a) + Len(b)
         /\ \A i \in 1 .. Len(a) : (a \o b)[i] = a[i]
         /\ \A i \in 1 .. Len(b) : (a \o b)[Len(a) + i] = b[i]
OBVIOUS

FixedSymbols == [bit : BOOLEAN, label : FixedLabels]

(* q says the symbols of a token after k symbols, those of the tree with   *)
(* the labels they have where the token is used.                           *)
SaysToken(q, k, s, labels) ==
  /\ k + Len(s) <= Len(q)
  /\ \A i \in 1 .. Len(s) :
       /\ q[k + i].bit = s[i].bit
       /\ q[k + i].label = IF Len(s[i].label) = 1 THEN labels[s[i].label[1]] ELSE s[i].label

(* The symbol after k others is one of a node of the tree.                 *)
AtNode(q, k, labels, n) == k < Len(q) /\ q[k + 1].label = labels[n]

(* The decoder asks at a node and gets the bool that was written there.    *)
LEMMA NodeReads ==
  ASSUME NEW q \in Seq(Symbols), NEW k \in Nat, NEW d, Reads(d, q, k),
         NEW labels, NEW n, AtNode(q, k, labels, n)
  PROVE  Reads(Ask(d, labels[n]), q, k + 1) /\ Ask(d, labels[n]).bit = q[k + 1].bit
<1>1. k < Len(q) /\ q[k + 1].label = labels[n]
  BY DEF AtNode
<1> DEFINE l == labels[n]
<1> HIDE DEF l
<1>2. q[k + 1].label = l
  BY <1>1 DEF l
<1>3. Reads(Ask(d, l), q, k + 1) /\ Ask(d, l).bit = q[k + 1].bit
  BY <1>1, <1>2, AskReads
<1>4. QED
  BY <1>3, Zenon DEF l

(* The increments, to which no label of a node belongs.                    *)
LEMMA ExtraTyped ==
  ASSUME NEW base \in Nat, NEW length \in Nat, NEW value \in Int
  PROVE  Extra(base, length, value) \in Seq(FixedSymbols) /\ Len(Extra(base, length, value)) = length
<1>1. \A i \in 1 .. length : Symbol(((value - base) \div 2^(length - i)) % 2 = 1, <<base, i>>) \in FixedSymbols
  <2> SUFFICES ASSUME NEW i \in 1 .. length, NEW b \in BOOLEAN PROVE Symbol(b, <<base, i>>) \in FixedSymbols
    OBVIOUS
  <2>1. <<base, i>> \in FixedLabels
    BY DEF FixedLabels
  <2>2. QED
    BY <2>1 DEF FixedSymbols, Symbol
<1>2. QED
  BY <1>1 DEF Extra

(* Labels of increments and of the sign have two parts, those of nodes     *)
(* one.                                                                    *)
LEMMA FixedLength ==
  \A s \in FixedSymbols : Len(s.label) = 2 /\ s.label \in FixedLabels /\ s.bit \in BOOLEAN
BY DEF FixedSymbols, FixedLabels

(* A symbol is its bool and its label.                                     *)
LEMMA SameSymbol ==
  \A x \in Symbols, y \in FixedSymbols : x.bit = y.bit /\ x.label = y.label => x = y
BY DEF Symbols, FixedSymbols

(* The symbols of a path in the token tree.                                *)
LEMMA TreeTyped ==
  ASSUME NEW path \in Seq(Nodes \X BOOLEAN)
  PROVE  /\ Tree(path) \in Seq(TokenSymbols) /\ Len(Tree(path)) = Len(path)
         /\ \A i \in 1 .. Len(path) : /\ Tree(path)[i].bit = path[i][2] /\ Tree(path)[i].label = <<path[i][1]>>
                                      /\ path[i][1] \in Nodes
<1>1. \A i \in 1 .. Len(path) : path[i] \in Nodes \X BOOLEAN /\ path[i][1] \in Nodes /\ path[i][2] \in BOOLEAN
  OBVIOUS
<1>2. \A i \in 1 .. Len(path) : Symbol(path[i][2], <<path[i][1]>>) \in TokenSymbols
  <2> SUFFICES ASSUME NEW n \in Nodes, NEW b \in BOOLEAN PROVE Symbol(b, <<n>>) \in TokenSymbols
    BY <1>1
  <2>1. <<n>> \in NodeLabels
    BY DEF NodeLabels
  <2>2. QED
    BY <2>1 DEF TokenSymbols, Symbol
<1>3. Tree(path) = [i \in 1 .. Len(path) |-> Symbol(path[i][2], <<path[i][1]>>)] /\ Len(path) \in Nat
  BY DEF Tree
<1>4. Tree(path) \in [1 .. Len(path) -> TokenSymbols]
  BY <1>2, <1>3
<1>5. Tree(path) \in Seq(TokenSymbols) /\ Len(Tree(path)) = Len(path)
  <2> DEFINE t == Tree(path)
             n == Len(path)
  <2>1. t \in [1 .. n -> TokenSymbols] /\ n \in Nat
    BY <1>3, <1>4
  <2> HIDE DEF t, n
  <2>2. t \in Seq(TokenSymbols) /\ Len(t) = n
    BY ONLY <2>1
  <2>3. QED
    BY <2>2 DEF t, n
<1>6. \A i \in 1 .. Len(path) : Tree(path)[i] = [bit |-> path[i][2], label |-> <<path[i][1]>>]
  BY <1>3 DEF Symbol
<1>7. \A i \in 1 .. Len(path) : Tree(path)[i].bit = path[i][2] /\ Tree(path)[i].label = <<path[i][1]>>
  <2> SUFFICES ASSUME NEW i \in 1 .. Len(path)
               PROVE Tree(path)[i].bit = path[i][2] /\ Tree(path)[i].label = <<path[i][1]>>
    OBVIOUS
  <2> DEFINE x == Tree(path)[i]
             b == path[i][2]
             l == <<path[i][1]>>
  <2>1. x = [bit |-> b, label |-> l]
    BY <1>6, Zenon
  <2> HIDE DEF x, b, l
  <2>2. x.bit = b /\ x.label = l
    BY <2>1, SymbolParts, Zenon
  <2>3. QED
    BY <2>2, Zenon DEF x, b, l
<1>8. QED
  BY <1>1, <1>5, <1>7

(* A path in the tree and an increment.                                    *)
LEMMA PathSaid ==
  ASSUME NEW q \in Seq(Symbols), NEW k \in Nat, NEW labels,
         NEW path \in Seq(Nodes \X BOOLEAN), NEW e \in Seq(FixedSymbols),
         SaysToken(q, k, Tree(path) \o e, labels)
  PROVE  /\ \A i \in 1 .. Len(path) : AtNode(q, k + (i - 1), labels, path[i][1]) /\ q[k + i].bit = path[i][2]
         /\ Says(q, k + Len(path), e)
         /\ Len(Tree(path) \o e) = Len(path) + Len(e) /\ k + (Len(path) + Len(e)) <= Len(q)
<1> DEFINE t == Tree(path)
           m == Len(path)
           n == Len(e)
           s == t \o e
<1>1. /\ t \in Seq(TokenSymbols) /\ Len(t) = m
      /\ \A i \in 1 .. m : t[i].bit = path[i][2] /\ t[i].label = <<path[i][1]>>
  BY TreeTyped
<1>2. m \in Nat /\ n \in Nat
  OBVIOUS
<1>3. Len(s) = m + n /\ (\A i \in 1 .. m : s[i] = t[i]) /\ (\A i \in 1 .. n : s[m + i] = e[i])
  <2> HIDE DEF t, m
  <2>1. e \in Seq(TokenSymbols)
    <3>1. FixedSymbols \subseteq TokenSymbols
      BY DEF FixedSymbols, TokenSymbols
    <3>2. QED
      BY <3>1
  <2>2. t \in Seq(TokenSymbols)
    BY <1>1
  <2>3. Len(t \o e) = Len(t) + Len(e)
    BY ONLY <2>1, <2>2, ConcatParts
  <2>4. \A i \in 1 .. Len(t) : (t \o e)[i] = t[i]
    BY ONLY <2>1, <2>2, ConcatParts
  <2>5. \A i \in 1 .. Len(e) : (t \o e)[Len(t) + i] = e[i]
    BY ONLY <2>1, <2>2, ConcatParts
  <2>6. QED
    BY <1>1, <2>3, <2>4, <2>5
<1> HIDE DEF s, t, m, n
<1>4. k + (m + n) <= Len(q)
      /\ \A i \in 1 .. m + n : /\ q[k + i].bit = s[i].bit
                               /\ q[k + i].label = IF Len(s[i].label) = 1 THEN labels[s[i].label[1]] ELSE s[i].label
  BY <1>3, Zenon DEF SaysToken, s, t
<1>5. ASSUME NEW i \in 1 .. m PROVE AtNode(q, k + (i - 1), labels, path[i][1]) /\ q[k + i].bit = path[i][2]
  <2>1. i \in 1 .. m + n /\ (k + (i - 1)) + 1 = k + i /\ k + (i - 1) < Len(q)
    BY <1>2, <1>4
  <2>2. s[i].bit = path[i][2] /\ s[i].label = <<path[i][1]>>
    BY <1>1, <1>3
  <2>3. Len(s[i].label) = 1 /\ s[i].label[1] = path[i][1]
    BY <2>2
  <2>4. q[k + i].bit = path[i][2] /\ q[k + i].label = labels[path[i][1]]
    BY <1>4, <2>1, <2>2, <2>3
  <2>5. QED
    BY <2>1, <2>4 DEF AtNode
<1>6. ASSUME NEW i \in 1 .. n PROVE q[(k + m) + i] = e[i]
  <2>1. m + i \in 1 .. m + n /\ (k + m) + i = k + (m + i) /\ k + (m + i) \in 1 .. Len(q)
    BY <1>2, <1>4
  <2>2. s[m + i] = e[i] /\ e[i] \in FixedSymbols
    BY <1>3 DEF n
  <2>3. Len(e[i].label) = 2
    BY <2>2, FixedLength
  <2>4. q[k + (m + i)].bit = e[i].bit /\ q[k + (m + i)].label = e[i].label
    <3> DEFINE x == s[m + i]
    <3>1. q[k + (m + i)].bit = x.bit /\ q[k + (m + i)].label = IF Len(x.label) = 1 THEN labels[x.label[1]] ELSE x.label
      BY <1>4, <2>1, Zenon
    <3>2. x = e[i] /\ Len(x.label) # 1
      BY <2>2, <2>3
    <3> HIDE DEF x
    <3>3. QED
      BY <3>1, <3>2, Zenon
  <2>5. q[k + (m + i)] \in Symbols
    BY <2>1
  <2>6. QED
    BY <2>1, <2>2, <2>4, <2>5, SameSymbol, Zenon
<1>7. Says(q, k + m, e)
  BY <1>2, <1>4, <1>6 DEF Says, n
<1>8. QED
  BY <1>3, <1>4, <1>5, <1>7 DEF m, n, s, t

-----------------------------------------------------------------------------
(***************************************************************************)
(* The token of a value: where AskToken goes,                              *)
(***************************************************************************)

(* What a decoder has after k symbols of q and a token of length l.        *)
TokenRead(r, q, k, l, v) == r \in Readers /\ Reads(r, q, k + l) /\ r.value = v /\ k + l <= Len(q)

(* A token above 1 leads to node 3, and from there to one of two parts.    *)
LEMMA ToNodeThree ==
  ASSUME NEW q \in Seq(Symbols), NEW k \in Nat, NEW d, Reads(d, q, k), NEW labels,
         AtNode(q, k, labels, 2), q[k + 1].bit, AtNode(q, k + 1, labels, 3)
  PROVE  \E t : /\ Reads(t, q, k + 2)
                /\ AskToken(d, labels) = IF q[k + 2].bit THEN AskCategory(t, labels) ELSE AskSmall(t, labels)
<1> DEFINE two == Ask(d, labels[2])
           three == Ask(two, labels[3])
<1>1. Reads(two, q, k + 1) /\ two.bit = q[k + 1].bit
  BY NodeReads
<1> HIDE DEF two
<1>2. Reads(three, q, (k + 1) + 1) /\ three.bit = q[(k + 1) + 1].bit
  BY <1>1, NodeReads
<1>3. (k + 1) + 1 = k + 2
  OBVIOUS
<1>4. AskToken(d, labels) = CASE ~two.bit -> [two EXCEPT !.value = 1]
                              [] two.bit /\ ~three.bit -> AskSmall(three, labels)
                              [] two.bit /\ three.bit -> AskCategory(three, labels)
  BY Zenon DEF AskToken, two
<1> HIDE DEF three
<1>5. AskToken(d, labels) = IF q[k + 2].bit THEN AskCategory(three, labels) ELSE AskSmall(three, labels)
  <2>1. two.bit /\ three.bit = q[k + 2].bit
    BY <1>1, <1>2, <1>3
  <2>2. three.bit \in BOOLEAN
    BY <1>2 DEF Reads, Readers
  <2>3. QED
    BY <1>4, <2>1, <2>2
<1>6. QED
  BY <1>2, <1>3, <1>5, Zenon

(* Below node 6, the two short increments,                                 *)
LEMMA LowCategory ==
  ASSUME NEW q \in Seq(Symbols), NEW k \in Nat, NEW d, Reads(d, q, k), NEW labels,
         AtNode(q, k, labels, 6), ~q[k + 1].bit, AtNode(q, k + 1, labels, 7)
  PROVE  \E t : /\ Reads(t, q, k + 2)
                /\ AskCategory(d, labels) = IF q[k + 2].bit THEN AskExtra(t, 7, 2) ELSE AskExtra(t, 5, 1)
<1> DEFINE six == Ask(d, labels[6])
           next == Ask(six, labels[7])
           last == Ask(next, labels[IF next.bit THEN 10 ELSE 9])
<1>1. Reads(six, q, k + 1) /\ six.bit = q[k + 1].bit
  BY NodeReads
<1>0. six.bit \in BOOLEAN /\ ~six.bit
  BY <1>1 DEF Reads, Readers
<1>2. AskCategory(d, labels) = CASE ~six.bit /\ ~next.bit -> AskExtra(next, 5, 1)
        [] ~six.bit /\ next.bit -> AskExtra(next, 7, 2)
        [] six.bit /\ ~next.bit -> IF last.bit THEN AskExtra(last, 19, 4) ELSE AskExtra(last, 11, 3)
        [] six.bit /\ next.bit -> IF last.bit THEN AskExtra(last, 67, 11) ELSE AskExtra(last, 35, 5)
  <2> HIDE DEF six
  <2>1. labels[IF six.bit THEN 8 ELSE 7] = labels[7]
    BY <1>0
  <2>2. Ask(six, labels[IF six.bit THEN 8 ELSE 7]) = next
    BY <2>1, Zenon
  <2>3. QED
    BY <2>2, Zenon DEF AskCategory, six
<1> HIDE DEF six
<1>3. Reads(next, q, (k + 1) + 1) /\ next.bit = q[(k + 1) + 1].bit
  BY <1>1, NodeReads
<1>4. (k + 1) + 1 = k + 2
  OBVIOUS
<1> HIDE DEF next, last
<1>5. AskCategory(d, labels) = IF q[k + 2].bit THEN AskExtra(next, 7, 2) ELSE AskExtra(next, 5, 1)
  <2>1. next.bit = q[k + 2].bit
    BY <1>3, <1>4
  <2>2. next.bit \in BOOLEAN
    BY <1>3 DEF Reads, Readers
  <2>3. QED
    BY <1>0, <1>2, <2>1, <2>2
<1>6. QED
  BY <1>3, <1>4, <1>5, Zenon

(* and the four long ones.                                                 *)
LEMMA HighCategory ==
  ASSUME NEW q \in Seq(Symbols), NEW k \in Nat, NEW d, Reads(d, q, k), NEW labels,
         AtNode(q, k, labels, 6), q[k + 1].bit, AtNode(q, k + 1, labels, 8),
         AtNode(q, k + 2, labels, IF q[k + 2].bit THEN 10 ELSE 9)
  PROVE  \E t : /\ Reads(t, q, k + 3)
                /\ AskCategory(d, labels) =
                     IF q[k + 2].bit THEN IF q[k + 3].bit THEN AskExtra(t, 67, 11) ELSE AskExtra(t, 35, 5)
                     ELSE IF q[k + 3].bit THEN AskExtra(t, 19, 4) ELSE AskExtra(t, 11, 3)
<1> DEFINE six == Ask(d, labels[6])
           next == Ask(six, labels[8])
           last == Ask(next, labels[IF next.bit THEN 10 ELSE 9])
<1>1. Reads(six, q, k + 1) /\ six.bit = q[k + 1].bit
  BY NodeReads
<1>0. six.bit \in BOOLEAN /\ six.bit
  BY <1>1 DEF Reads, Readers
<1>2. AskCategory(d, labels) = CASE ~six.bit /\ ~next.bit -> AskExtra(next, 5, 1)
        [] ~six.bit /\ next.bit -> AskExtra(next, 7, 2)
        [] six.bit /\ ~next.bit -> IF last.bit THEN AskExtra(last, 19, 4) ELSE AskExtra(last, 11, 3)
        [] six.bit /\ next.bit -> IF last.bit THEN AskExtra(last, 67, 11) ELSE AskExtra(last, 35, 5)
  <2> HIDE DEF six
  <2>1. labels[IF six.bit THEN 8 ELSE 7] = labels[8]
    BY <1>0
  <2>2. Ask(six, labels[IF six.bit THEN 8 ELSE 7]) = next
    BY <2>1, Zenon
  <2>3. QED
    BY <2>2, Zenon DEF AskCategory, six
<1> HIDE DEF six
<1>3. Reads(next, q, (k + 1) + 1) /\ next.bit = q[(k + 1) + 1].bit
  BY <1>1, NodeReads
<1>4. (k + 1) + 1 = k + 2 /\ (k + 2) + 1 = k + 3 /\ k + 2 \in Nat
  OBVIOUS
<1>5. Reads(next, q, k + 2) /\ next.bit = q[k + 2].bit /\ next.bit \in BOOLEAN
  BY <1>3, <1>4 DEF Reads, Readers
<1> HIDE DEF next
<1>6. AtNode(q, k + 2, labels, IF next.bit THEN 10 ELSE 9)
  BY <1>5
<1>7. Reads(last, q, (k + 2) + 1) /\ last.bit = q[(k + 2) + 1].bit
  <2> DEFINE n == IF next.bit THEN 10 ELSE 9
             j == k + 2
  <2>1. j \in Nat /\ AtNode(q, j, labels, n) /\ Reads(next, q, j)
    BY <1>4, <1>5, <1>6
  <2> HIDE DEF n, j
  <2>2. Reads(Ask(next, labels[n]), q, j + 1) /\ Ask(next, labels[n]).bit = q[j + 1].bit
    BY <2>1, NodeReads
  <2>3. QED
    BY <2>2, Zenon DEF n, j
<1> HIDE DEF last
<1>8. last.bit = q[k + 3].bit /\ last.bit \in BOOLEAN /\ Reads(last, q, k + 3)
  BY <1>4, <1>7 DEF Reads, Readers
<1>9. AskCategory(d, labels) =
                     IF q[k + 2].bit THEN IF q[k + 3].bit THEN AskExtra(last, 67, 11) ELSE AskExtra(last, 35, 5)
                     ELSE IF q[k + 3].bit THEN AskExtra(last, 19, 4) ELSE AskExtra(last, 11, 3)
  BY <1>0, <1>2, <1>5, <1>8
<1>10. QED
  BY <1>8, <1>9, Zenon

(* A token whose value is read with an increment.                          *)
LEMMA ExtraEnds ==
  ASSUME NEW q \in Seq(Symbols), NEW k \in Nat, NEW labels, NEW path \in Seq(Nodes \X BOOLEAN),
         NEW base, NEW length, NEW v, Reaches(base, length, v),
         SaysToken(q, k, Tree(path) \o Extra(base, length, v), labels),
         NEW t, Reads(t, q, k + Len(path))
  PROVE  TokenRead(AskExtra(t, base, length), q, k, Len(Tree(path) \o Extra(base, length, v)), v)
<1> DEFINE e == Extra(base, length, v)
           m == Len(path)
           r == AskExtra(t, base, length)
<1>0. base \in Nat /\ length \in Nat /\ v \in Nat
  BY DEF Reaches
<1>1. e \in Seq(FixedSymbols) /\ Len(e) = length /\ m \in Nat
  BY <1>0, ExtraTyped
<1>2. Says(q, k + m, e) /\ Len(Tree(path) \o e) = m + length /\ k + (m + length) <= Len(q)
  <2> HIDE DEF e
  <2>1. SaysToken(q, k, Tree(path) \o e, labels)
    BY DEF e
  <2>2. QED
    BY <1>1, <2>1, PathSaid
<1> HIDE DEF m
<1>3. Reads(t, q, k + m) /\ k + m \in Nat
  BY <1>1 DEF m
<1>5. Reads(r, q, (k + m) + length) /\ r.value = v
  BY <1>2, <1>3, ExtraReads
<1> HIDE DEF r, e
<1>6. (k + m) + length = k + (m + length)
  BY <1>0, <1>1
<1>7. TokenRead(r, q, k, Len(Tree(path) \o e), v)
  BY <1>1, <1>2, <1>5, <1>6 DEF TokenRead, Reads
<1>8. QED
  BY <1>7, Zenon DEF r, e

(* The symbols of a path.                                                  *)
LEMMA PathNodes ==
  ASSUME NEW q \in Seq(Symbols), NEW k \in Nat, NEW labels,
         NEW path \in Seq(Nodes \X BOOLEAN), NEW e \in Seq(FixedSymbols),
         SaysToken(q, k, Tree(path) \o e, labels)
  PROVE  \A i \in 1 .. Len(path) : /\ path[i][2] \in BOOLEAN /\ q[k + i].bit = path[i][2]
                                   /\ AtNode(q, k + (i - 1), labels, path[i][1])
<1>1. \A i \in 1 .. Len(path) : path[i][2] \in BOOLEAN
  OBVIOUS
<1>2. QED
  BY <1>1, PathSaid

(* Paths of four nodes,                                                    *)
LEMMA FourInSeq ==
  \A S : \A a, b, c, d \in S : <<a, b, c, d>> \in Seq(S) /\ Len(<<a, b, c, d>>) = 4
OBVIOUS

(* and of five.                                                            *)
LEMMA FiveInSeq ==
  \A S : \A a, b, c, d, e \in S : <<a, b, c, d, e>> \in Seq(S) /\ Len(<<a, b, c, d, e>>) = 5
OBVIOUS

(* Tokens with an increment.                                               *)
LEMMA LowToken ==
  ASSUME NEW q \in Seq(Symbols), NEW k \in Nat, NEW d, Reads(d, q, k), NEW labels, NEW b \in BOOLEAN,
         NEW base, NEW length, NEW v, Reaches(base, length, v),
         base = (IF b THEN 7 ELSE 5), length = (IF b THEN 2 ELSE 1),
         NEW s, s = Tree(<<<<2, TRUE>>, <<3, TRUE>>, <<6, FALSE>>, <<7, b>>>>) \o Extra(base, length, v),
         SaysToken(q, k, s, labels)
  PROVE  TokenRead(AskToken(d, labels), q, k, Len(s), v)
<1> DEFINE path == <<<<2, TRUE>>, <<3, TRUE>>, <<6, FALSE>>, <<7, b>>>>
           e == Extra(base, length, v)
<1>1. path \in Seq(Nodes \X BOOLEAN) /\ Len(path) = 4
  <2>1. /\ <<2, TRUE>> \in Nodes \X BOOLEAN /\ <<3, TRUE>> \in Nodes \X BOOLEAN
        /\ <<6, FALSE>> \in Nodes \X BOOLEAN /\ <<7, b>> \in Nodes \X BOOLEAN
    <3>1. 2 \in Nodes /\ 3 \in Nodes /\ 6 \in Nodes /\ 7 \in Nodes
      BY DEF Nodes
    <3>2. TRUE \in BOOLEAN /\ FALSE \in BOOLEAN
      OBVIOUS
    <3>3. QED
      BY <3>1, <3>2, Zenon
  <2>2. QED
    BY ONLY <2>1, FourInSeq
<1>2. /\ path[1][1] = 2 /\ path[1][2] /\ path[2][1] = 3 /\ path[2][2]
      /\ path[3][1] = 6 /\ ~path[3][2] /\ path[4][1] = 7 /\ path[4][2] = b
  OBVIOUS
<1>3. e \in Seq(FixedSymbols) /\ s = Tree(path) \o e
  <2>1. base \in Nat /\ length \in Nat /\ v \in Int
    BY DEF Reaches
  <2>2. Extra(base, length, v) \in Seq(FixedSymbols)
    BY ONLY <2>1, ExtraTyped
  <2>3. QED
    BY <2>2
<1> HIDE DEF path, e
<1>4. \A i \in 1 .. Len(path) : /\ path[i][2] \in BOOLEAN /\ q[k + i].bit = path[i][2]
                                /\ AtNode(q, k + (i - 1), labels, path[i][1])
  BY <1>1, <1>3, PathNodes
<1>5. /\ AtNode(q, k, labels, 2) /\ q[k + 1].bit /\ AtNode(q, k + 1, labels, 3) /\ q[k + 2].bit
      /\ AtNode(q, k + 2, labels, 6) /\ ~q[k + 3].bit /\ AtNode(q, k + 3, labels, 7) /\ q[k + 4].bit = b
  <2>1. 1 \in 1 .. Len(path) /\ 2 \in 1 .. Len(path) /\ 3 \in 1 .. Len(path) /\ 4 \in 1 .. Len(path)
    BY <1>1
  <2>2. k + (1 - 1) = k /\ k + (2 - 1) = k + 1 /\ k + (3 - 1) = k + 2 /\ k + (4 - 1) = k + 3
    OBVIOUS
  <2>3. q[k + 1].bit = path[1][2] /\ AtNode(q, k + (1 - 1), labels, path[1][1])
    BY <1>4, <2>1
  <2>4. q[k + 2].bit = path[2][2] /\ AtNode(q, k + (2 - 1), labels, path[2][1])
    BY <1>4, <2>1
  <2>5. q[k + 3].bit = path[3][2] /\ AtNode(q, k + (3 - 1), labels, path[3][1])
    BY <1>4, <2>1
  <2>6. q[k + 4].bit = path[4][2] /\ AtNode(q, k + (4 - 1), labels, path[4][1])
    BY <1>4, <2>1
  <2>7. QED
    BY <1>2, <2>2, <2>3, <2>4, <2>5, <2>6
<1>6. PICK t : Reads(t, q, k + 2) /\ AskToken(d, labels) = AskCategory(t, labels)
  <2>1. \E t : /\ Reads(t, q, k + 2)
               /\ AskToken(d, labels) = IF q[k + 2].bit THEN AskCategory(t, labels) ELSE AskSmall(t, labels)
    BY <1>5, ToNodeThree, Zenon
  <2>2. QED
    BY <1>5, <2>1
<1>7. PICK u : Reads(u, q, k + 4) /\ AskCategory(t, labels) = IF b THEN AskExtra(u, 7, 2) ELSE AskExtra(u, 5, 1)
  <2> DEFINE j == k + 2
  <2>1. j \in Nat /\ j + 1 = k + 3 /\ j + 2 = k + 4
    OBVIOUS
  <2> HIDE DEF j
  <2>2. Reads(t, q, j) /\ AtNode(q, j, labels, 6) /\ ~q[j + 1].bit /\ AtNode(q, j + 1, labels, 7)
    BY <1>5, <1>6, <2>1 DEF j
  <2>3. \E u : Reads(u, q, j + 2) /\ AskCategory(t, labels) = IF q[j + 2].bit THEN AskExtra(u, 7, 2) ELSE AskExtra(u, 5, 1)
    BY <2>1, <2>2, LowCategory
  <2>4. QED
    BY <1>5, <2>1, <2>3
<1>8. AskToken(d, labels) = AskExtra(u, base, length)
  BY <1>6, <1>7
<1>9. Reads(u, q, k + Len(path))
  BY <1>1, <1>7
<1>10. TokenRead(AskExtra(u, base, length), q, k, Len(Tree(path) \o Extra(base, length, v)), v)
  <2>1. SaysToken(q, k, Tree(path) \o Extra(base, length, v), labels)
    BY <1>3, Zenon DEF e
  <2>2. QED
    BY ONLY q \in Seq(Symbols), k \in Nat, <1>1, <1>9, <2>1, Reaches(base, length, v), ExtraEnds
<1>11. QED
  BY <1>3, <1>8, <1>10, Zenon DEF e

HighReaches(h, b, n, base, length, v) ==
  /\ Reaches(base, length, v) /\ n = (IF h THEN 10 ELSE 9)
  /\ base = (IF h THEN IF b THEN 67 ELSE 35 ELSE IF b THEN 19 ELSE 11)
  /\ length = (IF h THEN IF b THEN 11 ELSE 5 ELSE IF b THEN 4 ELSE 3)

(* The same for the longer ones.                                           *)
LEMMA HighToken ==
  ASSUME NEW q \in Seq(Symbols), NEW k \in Nat, NEW d, Reads(d, q, k), NEW labels,
         NEW h \in BOOLEAN, NEW b \in BOOLEAN,
         NEW n, NEW base, NEW length, NEW v, HighReaches(h, b, n, base, length, v),
         NEW s, s = Tree(<<<<2, TRUE>>, <<3, TRUE>>, <<6, TRUE>>, <<8, h>>, <<n, b>>>>) \o Extra(base, length, v),
         SaysToken(q, k, s, labels)
  PROVE  TokenRead(AskToken(d, labels), q, k, Len(s), v)
<1> DEFINE path == <<<<2, TRUE>>, <<3, TRUE>>, <<6, TRUE>>, <<8, h>>, <<n, b>>>>
           e == Extra(base, length, v)
<1>0. /\ Reaches(base, length, v) /\ n = (IF h THEN 10 ELSE 9)
      /\ base = (IF h THEN IF b THEN 67 ELSE 35 ELSE IF b THEN 19 ELSE 11)
      /\ length = (IF h THEN IF b THEN 11 ELSE 5 ELSE IF b THEN 4 ELSE 3)
  BY DEF HighReaches
<1> USE <1>0
<1>1. path \in Seq(Nodes \X BOOLEAN) /\ Len(path) = 5
  <2>1. /\ <<2, TRUE>> \in Nodes \X BOOLEAN /\ <<3, TRUE>> \in Nodes \X BOOLEAN
        /\ <<6, TRUE>> \in Nodes \X BOOLEAN /\ <<8, h>> \in Nodes \X BOOLEAN /\ <<n, b>> \in Nodes \X BOOLEAN
    <3>1. 2 \in Nodes /\ 3 \in Nodes /\ 6 \in Nodes /\ 8 \in Nodes /\ n \in Nodes
      BY DEF Nodes
    <3>2. TRUE \in BOOLEAN
      OBVIOUS
    <3>3. QED
      BY <3>1, <3>2, Zenon
  <2>2. QED
    BY ONLY <2>1, FiveInSeq
<1>2. /\ path[1][1] = 2 /\ path[1][2] /\ path[2][1] = 3 /\ path[2][2]
      /\ path[3][1] = 6 /\ path[3][2] /\ path[4][1] = 8 /\ path[4][2] = h
      /\ path[5][1] = n /\ path[5][2] = b
  OBVIOUS
<1>3. e \in Seq(FixedSymbols) /\ s = Tree(path) \o e
  <2>1. base \in Nat /\ length \in Nat /\ v \in Int
    BY DEF Reaches
  <2>2. Extra(base, length, v) \in Seq(FixedSymbols)
    BY ONLY <2>1, ExtraTyped
  <2>3. QED
    BY <2>2
<1> HIDE DEF path, e
<1>4. \A i \in 1 .. Len(path) : /\ path[i][2] \in BOOLEAN /\ q[k + i].bit = path[i][2]
                                /\ AtNode(q, k + (i - 1), labels, path[i][1])
  BY <1>1, <1>3, PathNodes
<1>5. /\ AtNode(q, k, labels, 2) /\ q[k + 1].bit /\ AtNode(q, k + 1, labels, 3) /\ q[k + 2].bit
      /\ AtNode(q, k + 2, labels, 6) /\ q[k + 3].bit /\ AtNode(q, k + 3, labels, 8) /\ q[k + 4].bit = h
      /\ AtNode(q, k + 4, labels, n) /\ q[k + 5].bit = b
  <2>1. 1 \in 1 .. Len(path) /\ 2 \in 1 .. Len(path) /\ 3 \in 1 .. Len(path) /\ 4 \in 1 .. Len(path) /\ 5 \in 1 .. Len(path)
    BY <1>1
  <2>2. k + (1 - 1) = k /\ k + (2 - 1) = k + 1 /\ k + (3 - 1) = k + 2 /\ k + (4 - 1) = k + 3 /\ k + (5 - 1) = k + 4
    OBVIOUS
  <2>3. q[k + 1].bit = path[1][2] /\ AtNode(q, k + (1 - 1), labels, path[1][1])
    BY <1>4, <2>1
  <2>4. q[k + 2].bit = path[2][2] /\ AtNode(q, k + (2 - 1), labels, path[2][1])
    BY <1>4, <2>1
  <2>5. q[k + 3].bit = path[3][2] /\ AtNode(q, k + (3 - 1), labels, path[3][1])
    BY <1>4, <2>1
  <2>6. q[k + 4].bit = path[4][2] /\ AtNode(q, k + (4 - 1), labels, path[4][1])
    BY <1>4, <2>1
  <2>7. q[k + 5].bit = path[5][2] /\ AtNode(q, k + (5 - 1), labels, path[5][1])
    BY <1>4, <2>1
  <2>8. QED
    BY <1>2, <2>2, <2>3, <2>4, <2>5, <2>6, <2>7
<1>6. PICK t : Reads(t, q, k + 2) /\ AskToken(d, labels) = AskCategory(t, labels)
  <2>1. \E t : /\ Reads(t, q, k + 2)
               /\ AskToken(d, labels) = IF q[k + 2].bit THEN AskCategory(t, labels) ELSE AskSmall(t, labels)
    BY <1>5, ToNodeThree, Zenon
  <2>2. QED
    BY <1>5, <2>1
<1>7. PICK u : Reads(u, q, k + 5) /\ AskCategory(t, labels) =
                     IF h THEN IF b THEN AskExtra(u, 67, 11) ELSE AskExtra(u, 35, 5)
                     ELSE IF b THEN AskExtra(u, 19, 4) ELSE AskExtra(u, 11, 3)
  <2> DEFINE j == k + 2
  <2>1. j \in Nat /\ j + 1 = k + 3 /\ j + 2 = k + 4 /\ j + 3 = k + 5
    OBVIOUS
  <2> HIDE DEF j
  <2>2. /\ Reads(t, q, j) /\ AtNode(q, j, labels, 6) /\ q[j + 1].bit /\ AtNode(q, j + 1, labels, 8)
        /\ AtNode(q, j + 2, labels, IF q[j + 2].bit THEN 10 ELSE 9)
    BY <1>5, <1>6, <2>1 DEF j
  <2>3. \E u : /\ Reads(u, q, j + 3)
               /\ AskCategory(t, labels) =
                     IF q[j + 2].bit THEN IF q[j + 3].bit THEN AskExtra(u, 67, 11) ELSE AskExtra(u, 35, 5)
                     ELSE IF q[j + 3].bit THEN AskExtra(u, 19, 4) ELSE AskExtra(u, 11, 3)
    BY <2>1, <2>2, HighCategory
  <2>4. QED
    BY <1>5, <2>1, <2>3
<1>8. AskToken(d, labels) = AskExtra(u, base, length)
  BY <1>6, <1>7
<1>9. Reads(u, q, k + Len(path))
  BY <1>1, <1>7
<1>10. TokenRead(AskExtra(u, base, length), q, k, Len(Tree(path) \o Extra(base, length, v)), v)
  <2>1. SaysToken(q, k, Tree(path) \o Extra(base, length, v), labels)
    BY <1>3, Zenon DEF e
  <2>2. QED
    BY ONLY q \in Seq(Symbols), k \in Nat, <1>1, <1>9, <2>1, Reaches(base, length, v), ExtraEnds
<1>11. QED
  BY <1>3, <1>8, <1>10, Zenon DEF e

(* A path without an increment.                                            *)
LEMMA TreeNodes ==
  ASSUME NEW q \in Seq(Symbols), NEW k \in Nat, NEW labels,
         NEW path \in Seq(Nodes \X BOOLEAN), SaysToken(q, k, Tree(path), labels)
  PROVE  /\ Len(Tree(path)) = Len(path) /\ k + Len(path) <= Len(q)
         /\ \A i \in 1 .. Len(path) : /\ path[i][2] \in BOOLEAN /\ q[k + i].bit = path[i][2]
                                      /\ AtNode(q, k + (i - 1), labels, path[i][1])
<1> DEFINE e == << >>
<1>1. Tree(path) \in Seq(TokenSymbols) /\ Len(Tree(path)) = Len(path)
  BY TreeTyped
<1>2. e \in Seq(FixedSymbols) /\ Tree(path) \o e = Tree(path) /\ Len(e) = 0
  <2>1. Tree(path) \o << >> = Tree(path)
    BY <1>1
  <2>2. QED
    BY <2>1
<1> HIDE DEF e
<1>3. SaysToken(q, k, Tree(path) \o e, labels)
  BY <1>2, Zenon
<1>4. k + (Len(path) + Len(e)) <= Len(q)
  BY <1>2, <1>3, PathSaid
<1>5. \A i \in 1 .. Len(path) : /\ path[i][2] \in BOOLEAN /\ q[k + i].bit = path[i][2]
                                /\ AtNode(q, k + (i - 1), labels, path[i][1])
  BY <1>2, <1>3, PathNodes
<1>6. k + Len(path) <= Len(q)
  BY <1>2, <1>4
<1>7. QED
  BY <1>1, <1>5, <1>6

(* A value that is set where a token ends.                                 *)
LEMMA ValueSet ==
  ASSUME NEW q \in Seq(Symbols), NEW k \in Nat, NEW l \in Nat, k + l <= Len(q), NEW d, Reads(d, q, k + l), NEW v \in Int
  PROVE  TokenRead([d EXCEPT !.value = v], q, k, l, v)
<1>1. d \in Readers /\ d.in = Rest(q, k + l) /\ ~d.wrong
  BY DEF Reads
<1> DEFINE r == [d EXCEPT !.value = v]
<1>2. r \in Readers /\ r.in = d.in /\ r.wrong = d.wrong /\ r.value = v
  BY <1>1 DEF Readers
<1> HIDE DEF r
<1>3. TokenRead(r, q, k, l, v)
  BY <1>1, <1>2 DEF TokenRead, Reads
<1>4. QED
  BY <1>3, Zenon DEF r

(* The token of 1,                                                         *)
LEMMA TokenOfOne ==
  ASSUME NEW q \in Seq(Symbols), NEW k \in Nat, NEW d, Reads(d, q, k), NEW labels,
         NEW s, s = Tree(<<<<2, FALSE>>>>), SaysToken(q, k, s, labels)
  PROVE  TokenRead(AskToken(d, labels), q, k, Len(s), 1)
<1> DEFINE path == <<<<2, FALSE>>>>
<1>1. path \in Seq(Nodes \X BOOLEAN) /\ Len(path) = 1
  <2>1. <<2, FALSE>> \in Nodes \X BOOLEAN
    <3>1. 2 \in Nodes
      BY DEF Nodes
    <3>2. QED
      BY <3>1, Zenon
  <2>2. QED
    BY ONLY <2>1
<1>2. path[1][1] = 2 /\ ~path[1][2]
  OBVIOUS
<1>3. s = Tree(path)
  OBVIOUS
<1> HIDE DEF path
<1>4. /\ Len(s) = Len(path) /\ k + Len(path) <= Len(q)
      /\ \A i \in 1 .. Len(path) : /\ path[i][2] \in BOOLEAN /\ q[k + i].bit = path[i][2]
                                   /\ AtNode(q, k + (i - 1), labels, path[i][1])
  BY <1>1, <1>3, TreeNodes
<1>5. AtNode(q, k, labels, 2) /\ ~q[k + 1].bit
  <2>1. 1 \in 1 .. Len(path) /\ k + (1 - 1) = k
    BY <1>1
  <2>2. q[k + 1].bit = path[1][2] /\ AtNode(q, k + (1 - 1), labels, path[1][1])
    BY <1>4, <2>1
  <2>3. QED
    BY <1>2, <2>1, <2>2
<1> DEFINE two == Ask(d, labels[2])
           three == Ask(two, labels[3])
<1>6. Reads(two, q, k + 1) /\ two.bit = q[k + 1].bit
  BY <1>5, NodeReads
<1>7. AskToken(d, labels) = CASE ~two.bit -> [two EXCEPT !.value = 1]
                              [] two.bit /\ ~three.bit -> AskSmall(three, labels)
                              [] two.bit /\ three.bit -> AskCategory(three, labels)
  BY Zenon DEF AskToken
<1> HIDE DEF two, three
<1>8. AskToken(d, labels) = [two EXCEPT !.value = 1]
  <2>1. two.bit \in BOOLEAN /\ ~two.bit
    BY <1>5, <1>6 DEF Reads, Readers
  <2>2. QED
    BY <1>7, <2>1
<1>9. Len(s) = 1 /\ k + 1 <= Len(q)
  BY <1>1, <1>4
<1>10. TokenRead([two EXCEPT !.value = 1], q, k, 1, 1)
  BY <1>6, <1>9, ValueSet
<1>11. QED
  BY <1>8, <1>9, <1>10, Zenon

(* and those of 2, 3 and 4.                                                *)
LEMMA SmallToken ==
  ASSUME NEW q \in Seq(Symbols), NEW k \in Nat, NEW d, Reads(d, q, k), NEW labels,
         NEW b \in BOOLEAN, NEW c \in BOOLEAN, NEW v, v = (IF b THEN IF c THEN 4 ELSE 3 ELSE 2),
         NEW path \in Seq(Nodes \X BOOLEAN), NEW s, s = Tree(path), SaysToken(q, k, s, labels),
         Len(path) = (IF b THEN 4 ELSE 3), path[1] = <<2, TRUE>>, path[2] = <<3, FALSE>>, path[3] = <<4, b>>,
         b => path[4] = <<5, c>>
  PROVE  TokenRead(AskToken(d, labels), q, k, Len(s), v)
<1>2. /\ path[1][1] = 2 /\ path[1][2] /\ path[2][1] = 3 /\ ~path[2][2] /\ path[3][1] = 4 /\ path[3][2] = b
      /\ b => path[4][1] = 5 /\ path[4][2] = c
  OBVIOUS
<1>4. /\ Len(s) = Len(path) /\ k + Len(path) <= Len(q)
      /\ \A i \in 1 .. Len(path) : /\ path[i][2] \in BOOLEAN /\ q[k + i].bit = path[i][2]
                                   /\ AtNode(q, k + (i - 1), labels, path[i][1])
  BY TreeNodes
<1>5. /\ AtNode(q, k, labels, 2) /\ q[k + 1].bit /\ AtNode(q, k + 1, labels, 3) /\ ~q[k + 2].bit
      /\ AtNode(q, k + 2, labels, 4) /\ q[k + 3].bit = b
  <2>1. 1 \in 1 .. Len(path) /\ 2 \in 1 .. Len(path) /\ 3 \in 1 .. Len(path)
    OBVIOUS
  <2>2. k + (1 - 1) = k /\ k + (2 - 1) = k + 1 /\ k + (3 - 1) = k + 2
    OBVIOUS
  <2>3. q[k + 1].bit = path[1][2] /\ AtNode(q, k + (1 - 1), labels, path[1][1])
    BY <1>4, <2>1
  <2>4. q[k + 2].bit = path[2][2] /\ AtNode(q, k + (2 - 1), labels, path[2][1])
    BY <1>4, <2>1
  <2>5. q[k + 3].bit = path[3][2] /\ AtNode(q, k + (3 - 1), labels, path[3][1])
    BY <1>4, <2>1
  <2>6. QED
    BY <1>2, <2>2, <2>3, <2>4, <2>5
<1>6. PICK t : Reads(t, q, k + 2) /\ AskToken(d, labels) = AskSmall(t, labels)
  <2>1. \E t : /\ Reads(t, q, k + 2)
               /\ AskToken(d, labels) = IF q[k + 2].bit THEN AskCategory(t, labels) ELSE AskSmall(t, labels)
    BY <1>5, ToNodeThree
  <2>2. QED
    BY <1>5, <2>1
<1> DEFINE four == Ask(t, labels[4])
           five == Ask(four, labels[5])
<1>7. Reads(four, q, k + 3) /\ four.bit = b
  <2> DEFINE j == k + 2
  <2>1. j \in Nat /\ AtNode(q, j, labels, 4) /\ Reads(t, q, j) /\ q[j + 1].bit = b /\ j + 1 = k + 3
    BY <1>5, <1>6
  <2> HIDE DEF j
  <2>2. Reads(four, q, j + 1) /\ four.bit = q[j + 1].bit
    BY <2>1, NodeReads
  <2>3. QED
    BY <2>1, <2>2
<1>8. AskSmall(t, labels) = IF four.bit THEN [five EXCEPT !.value = 3 + Bit(five.bit)] ELSE [four EXCEPT !.value = 2]
  BY Zenon DEF AskSmall
<1> HIDE DEF four
<1>9. CASE ~b
  <2>1. AskToken(d, labels) = [four EXCEPT !.value = 2] /\ v = 2 /\ Len(s) = 3 /\ k + 3 <= Len(q)
    BY <1>4, <1>6, <1>7, <1>8, <1>9
  <2>2. TokenRead([four EXCEPT !.value = 2], q, k, 3, 2)
    <3>1. 2 \in Int /\ 3 \in Nat
      OBVIOUS
    <3>2. QED
      BY <1>7, <2>1, <3>1, ValueSet, Zenon
  <2>3. QED
    BY <2>1, <2>2, Zenon
<1>10. CASE b
  <2>1. 4 \in 1 .. Len(path)
    BY <1>10
  <2>2. q[k + 4].bit = path[4][2] /\ AtNode(q, k + (4 - 1), labels, path[4][1])
    BY <1>4, <2>1
  <2>3. q[k + 4].bit = c /\ AtNode(q, k + 3, labels, 5)
    <3>1. k + (4 - 1) = k + 3 /\ path[4][1] = 5 /\ path[4][2] = c
      BY <1>2, <1>10
    <3>2. QED
      BY <2>2, <3>1, Zenon
  <2>4. Reads(five, q, k + 4) /\ five.bit = c
    <3> DEFINE j == k + 3
    <3>1. j \in Nat /\ AtNode(q, j, labels, 5) /\ Reads(four, q, j) /\ q[j + 1].bit = c /\ j + 1 = k + 4
      BY <1>7, <2>3
    <3> HIDE DEF j
    <3>2. Reads(five, q, j + 1) /\ five.bit = q[j + 1].bit
      BY <3>1, NodeReads
    <3>3. QED
      BY <3>1, <3>2
  <2> HIDE DEF five
  <2>5. 3 + Bit(five.bit) = v /\ v \in Int
    BY <1>10, <2>4 DEF Bit
  <2>6. AskToken(d, labels) = [five EXCEPT !.value = v] /\ Len(s) = 4 /\ k + 4 <= Len(q)
    BY <1>4, <1>6, <1>7, <1>8, <1>10, <2>5
  <2>7. TokenRead([five EXCEPT !.value = v], q, k, 4, v)
    BY <2>4, <2>5, <2>6, ValueSet
  <2>8. QED
    BY <2>6, <2>7, Zenon
<1>11. QED
  BY <1>9, <1>10

(* The token of each range of values.                                      *)
LEMMA TokenForms ==
  ASSUME NEW v \in 1 .. MaxLevel
  PROVE  /\ v = 1 => Token(v) = Tree(<<<<2, FALSE>>>>)
         /\ v = 2 => Token(v) = Tree(<<<<2, TRUE>>, <<3, FALSE>>, <<4, FALSE>>>>)
         /\ 3 <= v /\ v <= 4 => Token(v) = Tree(<<<<2, TRUE>>, <<3, FALSE>>, <<4, TRUE>>, <<5, v = 4>>>>)
         /\ 5 <= v /\ v <= 6 =>
              Token(v) = Tree(<<<<2, TRUE>>, <<3, TRUE>>, <<6, FALSE>>, <<7, FALSE>>>>) \o Extra(5, 1, v)
         /\ 7 <= v /\ v <= 10 =>
              Token(v) = Tree(<<<<2, TRUE>>, <<3, TRUE>>, <<6, FALSE>>, <<7, TRUE>>>>) \o Extra(7, 2, v)
         /\ 11 <= v /\ v <= 18 =>
              Token(v) = Tree(<<<<2, TRUE>>, <<3, TRUE>>, <<6, TRUE>>, <<8, FALSE>>, <<9, FALSE>>>>) \o Extra(11, 3, v)
         /\ 19 <= v /\ v <= 34 =>
              Token(v) = Tree(<<<<2, TRUE>>, <<3, TRUE>>, <<6, TRUE>>, <<8, FALSE>>, <<9, TRUE>>>>) \o Extra(19, 4, v)
         /\ 35 <= v /\ v <= 66 =>
              Token(v) = Tree(<<<<2, TRUE>>, <<3, TRUE>>, <<6, TRUE>>, <<8, TRUE>>, <<10, FALSE>>>>) \o Extra(35, 5, v)
         /\ 67 <= v =>
              Token(v) = Tree(<<<<2, TRUE>>, <<3, TRUE>>, <<6, TRUE>>, <<8, TRUE>>, <<10, TRUE>>>>) \o Extra(67, 11, v)
<1> DEFINE t1 == Tree(<<<<2, FALSE>>>>)
           t2 == Tree(<<<<2, TRUE>>, <<3, FALSE>>, <<4, FALSE>>>>)
           t3 == Tree(<<<<2, TRUE>>, <<3, FALSE>>, <<4, TRUE>>, <<5, v = 4>>>>)
           t5 == Tree(<<<<2, TRUE>>, <<3, TRUE>>, <<6, FALSE>>, <<7, FALSE>>>>) \o Extra(5, 1, v)
           t7 == Tree(<<<<2, TRUE>>, <<3, TRUE>>, <<6, FALSE>>, <<7, TRUE>>>>) \o Extra(7, 2, v)
           t11 == Tree(<<<<2, TRUE>>, <<3, TRUE>>, <<6, TRUE>>, <<8, FALSE>>, <<9, FALSE>>>>) \o Extra(11, 3, v)
           t19 == Tree(<<<<2, TRUE>>, <<3, TRUE>>, <<6, TRUE>>, <<8, FALSE>>, <<9, TRUE>>>>) \o Extra(19, 4, v)
           t35 == Tree(<<<<2, TRUE>>, <<3, TRUE>>, <<6, TRUE>>, <<8, TRUE>>, <<10, FALSE>>>>) \o Extra(35, 5, v)
           t67 == Tree(<<<<2, TRUE>>, <<3, TRUE>>, <<6, TRUE>>, <<8, TRUE>>, <<10, TRUE>>>>) \o Extra(67, 11, v)
           top == MaxLevel
<1>1. v \in 1 .. top
  OBVIOUS
<1>2. Token(v) = CASE v = 1 -> t1 [] v = 2 -> t2 [] v \in 3 .. 4 -> t3 [] v \in 5 .. 6 -> t5 [] v \in 7 .. 10 -> t7
                   [] v \in 11 .. 18 -> t11 [] v \in 19 .. 34 -> t19 [] v \in 35 .. 66 -> t35 [] v \in 67 .. top -> t67
  BY Zenon DEF Token
<1> HIDE DEF t1, t2, t3, t5, t7, t11, t19, t35, t67, top
<1> DEFINE low(a, b) == v \in a .. b
<1>3. /\ low(3, 4) <=> 3 <= v /\ v <= 4
      /\ low(5, 6) <=> 5 <= v /\ v <= 6
      /\ low(7, 10) <=> 7 <= v /\ v <= 10
      /\ low(11, 18) <=> 11 <= v /\ v <= 18
      /\ low(19, 34) <=> 19 <= v /\ v <= 34
      /\ low(35, 66) <=> 35 <= v /\ v <= 66
      /\ low(67, top) <=> 67 <= v
      /\ v \in Nat
  BY <1>1 
<1>4. Token(v) = CASE v = 1 -> t1 [] v = 2 -> t2 [] low(3, 4) -> t3 [] low(5, 6) -> t5 [] low(7, 10) -> t7
                   [] low(11, 18) -> t11 [] low(19, 34) -> t19 [] low(35, 66) -> t35 [] low(67, top) -> t67
  BY <1>2, Zenon
<1> HIDE DEF low
<1>5. /\ v = 1 => Token(v) = t1
      /\ v = 2 => Token(v) = t2
      /\ 3 <= v /\ v <= 4 => Token(v) = t3
      /\ 5 <= v /\ v <= 6 => Token(v) = t5
      /\ 7 <= v /\ v <= 10 => Token(v) = t7
      /\ 11 <= v /\ v <= 18 => Token(v) = t11
      /\ 19 <= v /\ v <= 34 => Token(v) = t19
      /\ 35 <= v /\ v <= 66 => Token(v) = t35
      /\ 67 <= v => Token(v) = t67
  BY <1>3, <1>4
<1>6. QED
  BY <1>5, Zenon DEF t1, t2, t3, t5, t7, t11, t19, t35, t67

(* Symbols of increments are symbols of tokens.                            *)
LEMMA FixedAreTokens == \A e : e \in Seq(FixedSymbols) => e \in Seq(TokenSymbols)
<1>1. FixedSymbols \subseteq TokenSymbols
  BY DEF FixedSymbols, TokenSymbols
<1>2. QED
  BY <1>1

(* So is a path with an increment behind it.                               *)
LEMMA TokenWithExtra ==
  ASSUME NEW path \in Seq(Nodes \X BOOLEAN), NEW base, NEW length, NEW v, Reaches(base, length, v)
  PROVE  Tree(path) \o Extra(base, length, v) \in Seq(TokenSymbols)
<1>1. Tree(path) \in Seq(TokenSymbols)
  BY TreeTyped
<1>2. Extra(base, length, v) \in Seq(FixedSymbols)
  <2>1. base \in Nat /\ length \in Nat /\ v \in Int
    BY DEF Reaches
  <2>2. QED
    BY <2>1, ExtraTyped
<1>3. Extra(base, length, v) \in Seq(TokenSymbols)
  BY <1>2, FixedAreTokens
<1>4. QED
  BY <1>1, <1>3, ConcatParts

NodePaths == Seq(Nodes \X BOOLEAN)

(* Values from 5 to 10 have a short increment,                             *)
LEMMA LowForm ==
  ASSUME NEW v \in 1 .. MaxLevel, 5 <= v, v <= 10
  PROVE  \E b, base, length :
           /\ b \in BOOLEAN /\ Reaches(base, length, v) /\ base = (IF b THEN 7 ELSE 5) /\ length = (IF b THEN 2 ELSE 1)
           /\ Token(v) = Tree(<<<<2, TRUE>>, <<3, TRUE>>, <<6, FALSE>>, <<7, b>>>>) \o Extra(base, length, v)
<1> DEFINE b == 7 <= v
           base == IF b THEN 7 ELSE 5
           length == IF b THEN 2 ELSE 1
<1>1. b \in BOOLEAN
  OBVIOUS
<1>2. Reaches(base, length, v)
  <2>1. v \in Nat /\ 2^1 = 2 /\ 2^2 = 4
    BY SMT
  <2>2. CASE b
    <3>1. Reaches(7, 2, v)
      BY ONLY <2>1, <2>2, v <= 10 DEF Reaches
    <3>2. QED
      BY <2>2, <3>1
  <2>3. CASE ~b
    <3>1. Reaches(5, 1, v)
      BY ONLY <2>1, <2>3, 5 <= v, v <= 10 DEF Reaches
    <3>2. QED
      BY <2>3, <3>1
  <2>4. QED
    BY <2>2, <2>3
<1>3. Token(v) = Tree(<<<<2, TRUE>>, <<3, TRUE>>, <<6, FALSE>>, <<7, b>>>>) \o Extra(base, length, v)
  <2>1. CASE b
    <3>1. Token(v) = Tree(<<<<2, TRUE>>, <<3, TRUE>>, <<6, FALSE>>, <<7, TRUE>>>>) \o Extra(7, 2, v)
      BY <2>1, TokenForms
    <3>2. b = TRUE /\ base = 7 /\ length = 2
      BY <2>1
    <3> HIDE DEF b, base, length
    <3>3. QED
      BY <3>1, <3>2, Zenon
  <2>2. CASE ~b
    <3>1. Token(v) = Tree(<<<<2, TRUE>>, <<3, TRUE>>, <<6, FALSE>>, <<7, FALSE>>>>) \o Extra(5, 1, v)
      <4>1. v <= 6
        BY <2>2
      <4>2. QED
        BY <4>1, TokenForms
    <3>2. b = FALSE /\ base = 5 /\ length = 1
      BY <2>2
    <3> HIDE DEF b, base, length
    <3>3. QED
      BY <3>1, <3>2, Zenon
  <2>3. QED
    BY <2>1, <2>2
<1>4. base = (IF b THEN 7 ELSE 5) /\ length = (IF b THEN 2 ELSE 1)
  OBVIOUS
<1> HIDE DEF b, base, length
<1>5. QED
  BY <1>1, <1>2, <1>3, <1>4, Zenon

HighTokenIs(h, b, n, base, length, v) ==
  Token(v) = Tree(<<<<2, TRUE>>, <<3, TRUE>>, <<6, TRUE>>, <<8, h>>, <<n, b>>>>) \o Extra(base, length, v)

(* those from 11 on a long one,                                            *)
LEMMA HighForm ==
  ASSUME NEW v \in 1 .. MaxLevel, 11 <= v
  PROVE  \E h, b, n, base, length :
           /\ h \in BOOLEAN /\ b \in BOOLEAN
           /\ HighReaches(h, b, n, base, length, v) /\ HighTokenIs(h, b, n, base, length, v)
<1>0. v \in Nat /\ v <= 2114
  <2>1. MaxLevel = 2114
    BY SMT DEF MaxLevel
  <2>2. QED
    BY <2>1
<1>1. CASE v <= 18
  <2>1. HighReaches(FALSE, FALSE, 9, 11, 3, v)
    <3>1. 2^3 = 8
      BY SMT
    <3>2. Reaches(11, 3, v)
      BY ONLY <1>0, <1>1, 11 <= v, <3>1 DEF Reaches
    <3>3. QED
      BY <3>2 DEF HighReaches
  <2>2. HighTokenIs(FALSE, FALSE, 9, 11, 3, v)
    BY <1>1, TokenForms, Zenon DEF HighTokenIs
  <2>3. FALSE \in BOOLEAN
    OBVIOUS
  <2>4. QED
    BY <2>1, <2>2, <2>3, Zenon
<1>2. CASE 19 <= v /\ v <= 34
  <2>1. HighReaches(FALSE, TRUE, 9, 19, 4, v)
    <3>1. 2^4 = 16
      BY SMT
    <3>2. Reaches(19, 4, v)
      BY ONLY <1>0, <1>2, <3>1 DEF Reaches
    <3>3. QED
      BY <3>2 DEF HighReaches
  <2>2. HighTokenIs(FALSE, TRUE, 9, 19, 4, v)
    BY <1>2, TokenForms, Zenon DEF HighTokenIs
  <2>3. FALSE \in BOOLEAN /\ TRUE \in BOOLEAN
    OBVIOUS
  <2>4. QED
    BY <2>1, <2>2, <2>3, Zenon
<1>3. CASE 35 <= v /\ v <= 66
  <2>1. HighReaches(TRUE, FALSE, 10, 35, 5, v)
    <3>1. 2^5 = 32
      BY SMT
    <3>2. Reaches(35, 5, v)
      BY ONLY <1>0, <1>3, <3>1 DEF Reaches
    <3>3. QED
      BY <3>2 DEF HighReaches
  <2>2. HighTokenIs(TRUE, FALSE, 10, 35, 5, v)
    BY <1>3, TokenForms, Zenon DEF HighTokenIs
  <2>3. FALSE \in BOOLEAN /\ TRUE \in BOOLEAN
    OBVIOUS
  <2>4. QED
    BY <2>1, <2>2, <2>3, Zenon
<1>4. CASE 67 <= v
  <2>1. HighReaches(TRUE, TRUE, 10, 67, 11, v)
    <3>1. 2^11 = 2048
      BY SMT
    <3>2. Reaches(67, 11, v)
      BY ONLY <1>0, <1>4, <3>1 DEF Reaches
    <3>3. QED
      BY <3>2 DEF HighReaches
  <2>2. HighTokenIs(TRUE, TRUE, 10, 67, 11, v)
    BY <1>4, TokenForms, Zenon DEF HighTokenIs
  <2>3. TRUE \in BOOLEAN
    OBVIOUS
  <2>4. QED
    BY <2>1, <2>2, <2>3, Zenon
<1>5. QED
  BY <1>0, <1>1, <1>2, <1>3, <1>4

(* and those from 2 to 4 none.                                             *)
LEMMA SmallForm ==
  ASSUME NEW v \in 1 .. MaxLevel, 2 <= v, v <= 4
  PROVE  \E b, c \in BOOLEAN, path \in NodePaths :
           /\ Len(path) = (IF b THEN 4 ELSE 3) /\ path[1] = <<2, TRUE>> /\ path[2] = <<3, FALSE>> /\ path[3] = <<4, b>>
           /\ b => path[4] = <<5, c>>
           /\ v = (IF b THEN IF c THEN 4 ELSE 3 ELSE 2) /\ Token(v) = Tree(path)
<1>1. 2 \in Nodes /\ 3 \in Nodes /\ 4 \in Nodes /\ 5 \in Nodes
  BY DEF Nodes
<1>2. CASE v = 2
  <2> DEFINE path == <<<<2, TRUE>>, <<3, FALSE>>, <<4, FALSE>>>>
             no == FALSE
  <2>1. path \in NodePaths
    <3>1. <<2, TRUE>> \in Nodes \X BOOLEAN /\ <<3, FALSE>> \in Nodes \X BOOLEAN /\ <<4, FALSE>> \in Nodes \X BOOLEAN
      BY <1>1, Zenon
    <3>2. QED
      BY ONLY <3>1 DEF NodePaths
  <2>2. Token(v) = Tree(path)
    BY <1>2, TokenForms
  <2>3. Len(path) = 3 /\ path[1] = <<2, TRUE>> /\ path[2] = <<3, FALSE>> /\ path[3] = <<4, no>>
    OBVIOUS
  <2>4. no \in BOOLEAN /\ ~no
    OBVIOUS
  <2> HIDE DEF path, no
  <2>5. Len(path) = (IF no THEN 4 ELSE 3) /\ v = (IF no THEN IF no THEN 4 ELSE 3 ELSE 2) /\ (no => path[4] = <<5, no>>)
    BY <1>2, <2>3, <2>4
  <2>6. QED
    BY <2>1, <2>2, <2>3, <2>4, <2>5, Zenon
<1>3. CASE v # 2
  <2> DEFINE c == v = 4
             path == <<<<2, TRUE>>, <<3, FALSE>>, <<4, TRUE>>, <<5, c>>>>
             yes == TRUE
  <2>1. path \in NodePaths
    <3>0. c \in BOOLEAN
      OBVIOUS
    <3> HIDE DEF c
    <3>1. /\ <<2, TRUE>> \in Nodes \X BOOLEAN /\ <<3, FALSE>> \in Nodes \X BOOLEAN /\ <<4, TRUE>> \in Nodes \X BOOLEAN
          /\ <<5, c>> \in Nodes \X BOOLEAN
      BY <1>1, <3>0, Zenon
    <3>2. QED
      BY ONLY <3>1, FourInSeq DEF NodePaths
  <2>2. Token(v) = Tree(path)
    <3>1. 3 <= v /\ v <= 4
      BY <1>3
    <3>2. QED
      BY <3>1, TokenForms
  <2>3. v = (IF c THEN 4 ELSE 3) /\ c \in BOOLEAN
    BY <1>3
  <2> HIDE DEF c
  <2>4. Len(path) = 4 /\ path[1] = <<2, TRUE>> /\ path[2] = <<3, FALSE>> /\ path[3] = <<4, yes>> /\ path[4] = <<5, c>>
    OBVIOUS
  <2>5. yes \in BOOLEAN /\ yes
    OBVIOUS
  <2> HIDE DEF path, yes
  <2>6. Len(path) = (IF yes THEN 4 ELSE 3) /\ v = (IF yes THEN IF c THEN 4 ELSE 3 ELSE 2) /\ (yes => path[4] = <<5, c>>)
    BY <2>3, <2>4, <2>5
  <2>7. QED
    BY <2>1, <2>2, <2>3, <2>4, <2>5, <2>6, Zenon
<1>4. QED
  BY <1>2, <1>3

(* The path of a short increment,                                          *)
LEMMA LowPath ==
  ASSUME NEW b \in BOOLEAN
  PROVE  <<<<2, TRUE>>, <<3, TRUE>>, <<6, FALSE>>, <<7, b>>>> \in NodePaths
<1>1. 2 \in Nodes /\ 3 \in Nodes /\ 6 \in Nodes /\ 7 \in Nodes
  BY DEF Nodes
<1>2. /\ <<2, TRUE>> \in Nodes \X BOOLEAN /\ <<3, TRUE>> \in Nodes \X BOOLEAN
      /\ <<6, FALSE>> \in Nodes \X BOOLEAN /\ <<7, b>> \in Nodes \X BOOLEAN
  BY <1>1, Zenon
<1>3. QED
  BY ONLY <1>2, FourInSeq DEF NodePaths

(* and of a long one.                                                      *)
LEMMA HighPath ==
  ASSUME NEW h \in BOOLEAN, NEW b \in BOOLEAN, NEW n \in {9, 10}
  PROVE  <<<<2, TRUE>>, <<3, TRUE>>, <<6, TRUE>>, <<8, h>>, <<n, b>>>> \in NodePaths
<1>1. 2 \in Nodes /\ 3 \in Nodes /\ 6 \in Nodes /\ 8 \in Nodes /\ n \in Nodes
  BY DEF Nodes
<1>2. /\ <<2, TRUE>> \in Nodes \X BOOLEAN /\ <<3, TRUE>> \in Nodes \X BOOLEAN /\ <<6, TRUE>> \in Nodes \X BOOLEAN
      /\ <<8, h>> \in Nodes \X BOOLEAN /\ <<n, b>> \in Nodes \X BOOLEAN
  BY <1>1, Zenon
<1>3. QED
  BY ONLY <1>2, FiveInSeq DEF NodePaths

(* The decoder reads the token of every value it can have.                 *)
LEMMA TokenReads ==
  ASSUME NEW q \in Seq(Symbols), NEW k \in Nat, NEW labels, NEW v \in 1 .. MaxLevel,
         SaysToken(q, k, Token(v), labels), NEW d, Reads(d, q, k)
  PROVE  TokenRead(AskToken(d, labels), q, k, Len(Token(v)), v)
<1> DEFINE s == Token(v)
<1>0. v \in Nat
  BY SMT
<1>1. CASE v = 1
  <2>1. s = Tree(<<<<2, FALSE>>>>)
    BY <1>1, TokenForms
  <2>2. TokenRead(AskToken(d, labels), q, k, Len(s), 1)
    <3> HIDE DEF s
    <3>1. SaysToken(q, k, s, labels)
      BY DEF s
    <3>2. QED
      BY <2>1, <3>1, TokenOfOne
  <2>3. QED
    BY <1>1, <2>2, Zenon
<1>2. CASE 2 <= v /\ v <= 4
  <2>1. PICK b \in BOOLEAN, c \in BOOLEAN, path \in NodePaths :
           /\ Len(path) = (IF b THEN 4 ELSE 3) /\ path[1] = <<2, TRUE>> /\ path[2] = <<3, FALSE>> /\ path[3] = <<4, b>>
           /\ b => path[4] = <<5, c>>
           /\ v = (IF b THEN IF c THEN 4 ELSE 3 ELSE 2) /\ s = Tree(path)
    BY <1>2, SmallForm, Zenon
  <2>2. SaysToken(q, k, s, labels) /\ path \in Seq(Nodes \X BOOLEAN)
    BY Zenon DEF NodePaths
  <2> HIDE DEF s
  <2>3. TokenRead(AskToken(d, labels), q, k, Len(s), v)
    BY <2>1, <2>2, SmallToken, Zenon
  <2>4. QED
    BY <2>3 DEF s
<1>3. CASE 5 <= v /\ v <= 10
  <2>1. PICK b, base, length :
           /\ b \in BOOLEAN /\ Reaches(base, length, v) /\ base = (IF b THEN 7 ELSE 5) /\ length = (IF b THEN 2 ELSE 1)
           /\ s = Tree(<<<<2, TRUE>>, <<3, TRUE>>, <<6, FALSE>>, <<7, b>>>>) \o Extra(base, length, v)
    BY <1>3, LowForm, Zenon
  <2>2. SaysToken(q, k, s, labels)
    BY Zenon
  <2> HIDE DEF s
  <2>3. TokenRead(AskToken(d, labels), q, k, Len(s), v)
    BY <2>1, <2>2, LowToken, Zenon
  <2>4. QED
    BY <2>3 DEF s
<1>4. CASE 11 <= v
  <2>1. PICK h, b, n, base, length :
           /\ h \in BOOLEAN /\ b \in BOOLEAN
           /\ HighReaches(h, b, n, base, length, v) /\ HighTokenIs(h, b, n, base, length, v)
    BY <1>4, HighForm, Zenon
  <2>2. SaysToken(q, k, s, labels)
    BY Zenon
  <2>3. s = Tree(<<<<2, TRUE>>, <<3, TRUE>>, <<6, TRUE>>, <<8, h>>, <<n, b>>>>) \o Extra(base, length, v)
    BY <2>1, Zenon DEF HighTokenIs
  <2> HIDE DEF s
  <2>4. TokenRead(AskToken(d, labels), q, k, Len(s), v)
    <3>1. HighReaches(h, b, n, base, length, v) /\ h \in BOOLEAN /\ b \in BOOLEAN
      BY <2>1
    <3>2. QED
      BY ONLY q \in Seq(Symbols), k \in Nat, Reads(d, q, k), <2>2, <2>3, <3>1, HighToken
  <2>5. QED
    BY <2>4 DEF s
<1>5. QED
  BY <1>0, <1>1, <1>2, <1>3, <1>4

(* A token is made of such symbols.                                        *)
LEMMA TokenTyped ==
  ASSUME NEW v \in 1 .. MaxLevel
  PROVE  Token(v) \in Seq(TokenSymbols)
<1>0. v \in Nat
  BY SMT
<1>1. CASE v = 1
  <2>1. Token(v) = Tree(<<<<2, FALSE>>>>)
    BY <1>1, TokenForms
  <2>2. <<<<2, FALSE>>>> \in Seq(Nodes \X BOOLEAN)
    <3>1. <<2, FALSE>> \in Nodes \X BOOLEAN
      <4>1. 2 \in Nodes
        BY DEF Nodes
      <4>2. QED
        BY <4>1, Zenon
    <3>2. QED
      BY ONLY <3>1
  <2>3. QED
    BY <2>1, <2>2, TreeTyped, Zenon
<1>2. CASE 2 <= v /\ v <= 4
  <2>1. PICK path \in NodePaths : Token(v) = Tree(path)
    BY <1>2, SmallForm, Zenon
  <2>2. QED
    BY <2>1, TreeTyped, Zenon DEF NodePaths
<1>3. CASE 5 <= v /\ v <= 10
  <2>1. PICK b, base, length :
           /\ b \in BOOLEAN /\ Reaches(base, length, v)
           /\ Token(v) = Tree(<<<<2, TRUE>>, <<3, TRUE>>, <<6, FALSE>>, <<7, b>>>>) \o Extra(base, length, v)
    BY <1>3, LowForm, Zenon
  <2>2. QED
    BY <2>1, LowPath, TokenWithExtra, Zenon DEF NodePaths
<1>4. CASE 11 <= v
  <2>1. PICK h, b, n, base, length :
           /\ h \in BOOLEAN /\ b \in BOOLEAN
           /\ HighReaches(h, b, n, base, length, v) /\ HighTokenIs(h, b, n, base, length, v)
    BY <1>4, HighForm, Zenon
  <2>2. n \in {9, 10} /\ h \in BOOLEAN /\ b \in BOOLEAN /\ Reaches(base, length, v)
    BY <2>1 DEF HighReaches
  <2>3. <<<<2, TRUE>>, <<3, TRUE>>, <<6, TRUE>>, <<8, h>>, <<n, b>>>> \in Seq(Nodes \X BOOLEAN)
    BY <2>2, HighPath, Zenon DEF NodePaths
  <2>4. Tree(<<<<2, TRUE>>, <<3, TRUE>>, <<6, TRUE>>, <<8, h>>, <<n, b>>>>) \o Extra(base, length, v) \in Seq(TokenSymbols)
    BY <2>2, <2>3, TokenWithExtra, Zenon
  <2>5. QED
    BY <2>1, <2>4, Zenon DEF HighTokenIs
<1>5. QED
  BY <1>0, <1>1, <1>2, <1>3, <1>4

-----------------------------------------------------------------------------
(***************************************************************************)
(* The decoder leaves a reader whatever it is given, so its loops, which   *)
(* the model defines by recursion, exist.                                  *)
(***************************************************************************)

(* Whatever is asked for, a decoder stays one.                             *)
LEMMA ValueTyped ==
  ASSUME NEW d \in Readers, NEW v \in Int
  PROVE  [d EXCEPT !.value = v] \in Readers
BY DEF Readers

(* Whatever is in the input, the loop over an increment leaves a reader,   *)
LEMMA AskExtraTyped ==
  ASSUME NEW d \in Readers, NEW base \in Nat, NEW length \in Nat
  PROVE  AskExtra(d, base, length) \in Readers
<1>1. PICK f : ExtraRun(f, d, base, length)
  BY ExtraIterates
<1> DEFINE typed == {i \in Nat : i <= length => f[i] \in Readers}
<1>2. 0 \in typed
  BY <1>1 DEF ExtraRun
<1>3. ASSUME NEW i \in Nat, i \in typed PROVE i + 1 \in typed
  <2> SUFFICES ASSUME i + 1 <= length PROVE f[i + 1] \in Readers
    OBVIOUS
  <2>1. f[i] \in Readers
    BY <1>3
  <2>2. i + 1 \in 1 .. length /\ (i + 1) - 1 = i
    OBVIOUS
  <2>3. f[i + 1] = AskBit(f[i], base, i + 1)
    BY <1>1, <2>2, Zenon DEF ExtraRun
  <2>4. QED
    BY <2>1, <2>3, AskBitTyped
<1>4. f[length] \in Readers
  <2>1. \A i \in Nat : i \in typed
    <3> HIDE DEF typed
    <3>1. QED
      BY <1>2, <1>3, SetInduction
  <2>2. QED
    BY <2>1
<1> DEFINE e == f[length]
<1>5. AskExtra(d, base, length) = [e EXCEPT !.value = e.value + base]
  BY <1>1, Zenon DEF ExtraRun
<1>6. e \in Readers /\ e.value + base \in Int
  BY <1>4 DEF Readers
<1> HIDE DEF e
<1>7. [e EXCEPT !.value = e.value + base] \in Readers
  BY <1>6, ValueTyped
<1>8. QED
  BY <1>5, <1>7, Zenon

(* so does what is below node 6,                                           *)
LEMMA AskCategoryTyped ==
  ASSUME NEW d \in Readers, NEW labels
  PROVE  AskCategory(d, labels) \in Readers
<1> DEFINE six == Ask(d, labels[6])
           next == Ask(six, labels[IF six.bit THEN 8 ELSE 7])
           last == Ask(next, labels[IF next.bit THEN 10 ELSE 9])
<1>1. six \in Readers
  BY AskTyped
<1>2. AskCategory(d, labels) = CASE ~six.bit /\ ~next.bit -> AskExtra(next, 5, 1)
        [] ~six.bit /\ next.bit -> AskExtra(next, 7, 2)
        [] six.bit /\ ~next.bit -> IF last.bit THEN AskExtra(last, 19, 4) ELSE AskExtra(last, 11, 3)
        [] six.bit /\ next.bit -> IF last.bit THEN AskExtra(last, 67, 11) ELSE AskExtra(last, 35, 5)
  BY Zenon DEF AskCategory
<1> HIDE DEF six
<1>3. next \in Readers
  BY <1>1, AskTyped
<1> HIDE DEF next
<1>4. last \in Readers
  BY <1>3, AskTyped
<1> HIDE DEF last
<1>5. /\ AskExtra(next, 5, 1) \in Readers /\ AskExtra(next, 7, 2) \in Readers
      /\ AskExtra(last, 19, 4) \in Readers /\ AskExtra(last, 11, 3) \in Readers
      /\ AskExtra(last, 67, 11) \in Readers /\ AskExtra(last, 35, 5) \in Readers
  BY <1>3, <1>4, AskExtraTyped
<1>6. six.bit \in BOOLEAN /\ next.bit \in BOOLEAN
  BY <1>1, <1>3 DEF Readers
<1>7. QED
  BY <1>2, <1>5, <1>6

(* the tree from node 2 on,                                                *)
LEMMA AskTokenTyped ==
  ASSUME NEW d \in Readers, NEW labels
  PROVE  AskToken(d, labels) \in Readers
<1> DEFINE two == Ask(d, labels[2])
           three == Ask(two, labels[3])
           four == Ask(three, labels[4])
           five == Ask(four, labels[5])
<1>1. two \in Readers
  BY AskTyped
<1>2. AskToken(d, labels) = CASE ~two.bit -> [two EXCEPT !.value = 1]
                              [] two.bit /\ ~three.bit -> AskSmall(three, labels)
                              [] two.bit /\ three.bit -> AskCategory(three, labels)
  BY Zenon DEF AskToken
<1> HIDE DEF two
<1>3. three \in Readers
  BY <1>1, AskTyped
<1>4. AskSmall(three, labels) = IF four.bit THEN [five EXCEPT !.value = 3 + Bit(five.bit)] ELSE [four EXCEPT !.value = 2]
  BY Zenon DEF AskSmall
<1> HIDE DEF three
<1>5. four \in Readers
  BY <1>3, AskTyped
<1> HIDE DEF four
<1>6. five \in Readers
  BY <1>5, AskTyped
<1> HIDE DEF five
<1>7. AskCategory(three, labels) \in Readers
  BY <1>3, AskCategoryTyped
<1>8. AskSmall(three, labels) \in Readers
  <2>1. 3 + Bit(five.bit) \in Int
    BY DEF Bit
  <2>2. [five EXCEPT !.value = 3 + Bit(five.bit)] \in Readers
    BY <1>6, <2>1, ValueTyped
  <2>3. [four EXCEPT !.value = 2] \in Readers
    BY <1>5, ValueTyped
  <2>4. QED
    BY <1>4, <2>2, <2>3
<1>9. [two EXCEPT !.value = 1] \in Readers
  BY <1>1, ValueTyped
<1>10. two.bit \in BOOLEAN /\ three.bit \in BOOLEAN
  BY <1>1, <1>3 DEF Readers
<1>11. QED
  BY <1>2, <1>7, <1>8, <1>9, <1>10

(* The state of the loop of parse_tokens.                                  *)
Parsers == [d : Readers, block : [Positions -> Int], context : Int, last_was_zero : BOOLEAN, ended : BOOLEAN]

(* and a turn of the loop of parse_tokens.                                 *)
LEMMA AskCoefficientTyped ==
  ASSUME NEW s \in Parsers, NEW index, NEW type
  PROVE  AskCoefficient(s, index, type) \in Parsers
<1> DEFINE labels == [node \in Nodes |-> Label(type, index, s.context, node)]
           open == IF s.last_was_zero THEN [s.d EXCEPT !.bit = TRUE] ELSE Ask(s.d, labels[0])
           nonzero == Ask(open, labels[1])
           token == AskToken(nonzero, labels)
           sign == Ask(token, Sign)
<1>1. s.d \in Readers /\ s.block \in [Positions -> Int]
  BY DEF Parsers
<1>2. open \in Readers
  <2>1. [s.d EXCEPT !.bit = TRUE] \in Readers
    BY <1>1 DEF Readers
  <2>2. Ask(s.d, labels[0]) \in Readers
    BY <1>1, AskTyped
  <2>3. QED
    BY <2>1, <2>2
<1>3. AskCoefficient(s, index, type) =
        IF s.ended THEN s
        ELSE IF ~open.bit THEN [s EXCEPT !.d = open, !.ended = TRUE]
        ELSE IF ~nonzero.bit THEN [s EXCEPT !.d = nonzero, !.last_was_zero = TRUE, !.context = 0]
        ELSE AskSign(s, index, token)
  BY Zenon DEF AskCoefficient
<1> HIDE DEF open, labels
<1>4. nonzero \in Readers
  BY <1>2, AskTyped
<1> HIDE DEF nonzero
<1>5. token \in Readers
  BY <1>4, AskTokenTyped
<1>6. sign \in Readers
  BY <1>5, AskTyped
<1>7. AskSign(s, index, token) = CoefficientRead(s, index, token, sign)
  BY DEF AskSign
<1> HIDE DEF token, sign
<1>8. CoefficientRead(s, index, token, sign) \in Parsers
  <2> DEFINE v == IF sign.bit THEN -token.value ELSE token.value
             b == [s.block EXCEPT ![index] = v]
             c == ContextAfter(token.value)
  <2>1. v \in Int /\ c \in Int
    BY <1>5 DEF Readers, ContextAfter
  <2>2. b \in [Positions -> Int]
    <3> HIDE DEF v
    <3>1. QED
      BY <1>1, <2>1
  <2>3. CoefficientRead(s, index, token, sign) =
          [s EXCEPT !.d = sign, !.last_was_zero = FALSE, !.context = c, !.block = b]
    BY Zenon DEF CoefficientRead
  <2> HIDE DEF v, b, c
  <2>4. QED
    BY <1>6, <2>1, <2>2, <2>3 DEF Parsers
<1>9. [s EXCEPT !.d = open, !.ended = TRUE] \in Parsers
  BY <1>2 DEF Parsers
<1>10. [s EXCEPT !.d = nonzero, !.last_was_zero = TRUE, !.context = 0] \in Parsers
  <2> DEFINE yes == TRUE
             none == 0
  <2>1. yes \in BOOLEAN /\ none \in Int
    OBVIOUS
  <2> HIDE DEF yes, none
  <2>2. [s EXCEPT !.d = nonzero, !.last_was_zero = yes, !.context = none] \in Parsers
    BY <1>4, <2>1 DEF Parsers
  <2>3. QED
    BY <2>2 DEF yes, none
<1>11. QED
  BY <1>3, <1>7, <1>8, <1>9, <1>10

-----------------------------------------------------------------------------
(***************************************************************************)
(* A coefficient: the symbol that says that the block goes on, unless it   *)
(* follows a zero, the token and the sign.                                 *)
(***************************************************************************)

(* What says two parts of a coefficient says each of them.                 *)
LEMMA SaysTokenParts ==
  ASSUME NEW q, NEW k \in Nat, NEW labels, NEW a \in Seq(TokenSymbols), NEW b \in Seq(TokenSymbols),
         SaysToken(q, k, a \o b, labels), Len(q) \in Nat
  PROVE  SaysToken(q, k, a, labels) /\ SaysToken(q, k + Len(a), b, labels) /\ Len(a \o b) = Len(a) + Len(b)
<1> DEFINE m == Len(a)
           n == Len(b)
           c == a \o b
           lab(x) == IF Len(x.label) = 1 THEN labels[x.label[1]] ELSE x.label
<1>1. m \in Nat /\ n \in Nat /\ Len(c) = m + n
  BY ConcatParts
<1>2. \A i \in 1 .. m : c[i] = a[i]
  BY ConcatParts
<1>3. \A i \in 1 .. n : c[m + i] = b[i]
  BY ConcatParts
<1>4. /\ k + (m + n) <= Len(q)
      /\ \A i \in 1 .. m + n : q[k + i].bit = c[i].bit /\ q[k + i].label = lab(c[i])
  <2>1. k + Len(c) <= Len(q) /\ \A i \in 1 .. Len(c) : q[k + i].bit = c[i].bit /\ q[k + i].label = lab(c[i])
    BY Zenon DEF SaysToken
  <2> HIDE DEF c, lab, m, n
  <2>2. QED
    BY <1>1, <2>1
<1> HIDE DEF c, lab, m, n
<1>5. k + m <= Len(q) /\ (k + m) + n <= Len(q)
  BY <1>1, <1>4
<1>6. \A i \in 1 .. m : q[k + i].bit = a[i].bit /\ q[k + i].label = lab(a[i])
  <2> SUFFICES ASSUME NEW i \in 1 .. m PROVE q[k + i].bit = a[i].bit /\ q[k + i].label = lab(a[i])
    BY Zenon
  <2>1. i \in 1 .. m + n /\ c[i] = a[i]
    BY <1>1, <1>2
  <2>2. q[k + i].bit = c[i].bit /\ q[k + i].label = lab(c[i])
    BY <1>4, <2>1, Zenon
  <2>3. QED
    BY <2>1, <2>2, Zenon
<1>7. \A i \in 1 .. n : q[(k + m) + i].bit = b[i].bit /\ q[(k + m) + i].label = lab(b[i])
  <2> SUFFICES ASSUME NEW i \in 1 .. n PROVE q[(k + m) + i].bit = b[i].bit /\ q[(k + m) + i].label = lab(b[i])
    BY Zenon
  <2>1. m + i \in 1 .. m + n /\ c[m + i] = b[i] /\ (k + m) + i = k + (m + i)
    BY <1>1, <1>3
  <2>2. q[k + (m + i)].bit = c[m + i].bit /\ q[k + (m + i)].label = lab(c[m + i])
    BY <1>4, <2>1, Zenon
  <2>3. QED
    BY <2>1, <2>2, Zenon
<1>8. SaysToken(q, k, a, labels)
  BY <1>5, <1>6, Zenon DEF SaysToken, lab, m
<1>9. SaysToken(q, k + m, b, labels)
  BY <1>5, <1>7, Zenon DEF SaysToken, lab, n
<1>10. QED
  BY <1>1, <1>8, <1>9, Zenon DEF c, m, n

(* One symbol of a node,                                                   *)
LEMMA SaysOneNode ==
  ASSUME NEW q, NEW k \in Nat, Len(q) \in Nat, NEW labels, NEW b \in BOOLEAN, NEW n,
         SaysToken(q, k, <<Symbol(b, <<n>>)>>, labels)
  PROVE  AtNode(q, k, labels, n) /\ q[k + 1].bit = b
<1> DEFINE x == Symbol(b, <<n>>)
           l == <<n>>
<1>1. x.bit = b /\ x.label = l
  <2> HIDE DEF l
  <2>1. Symbol(b, l).bit = b /\ Symbol(b, l).label = l
    BY DEF Symbol
  <2>2. QED
    BY <2>1, Zenon DEF l
<1>2. Len(l) = 1 /\ l[1] = n
  OBVIOUS
<1> HIDE DEF x, l
<1>3. SaysToken(q, k, <<x>>, labels)
  BY DEF x
<1>4. k + 1 <= Len(q) /\ q[k + 1].bit = x.bit /\ q[k + 1].label = IF Len(x.label) = 1 THEN labels[x.label[1]] ELSE x.label
  BY <1>3 DEF SaysToken
<1>5. QED
  BY <1>1, <1>2, <1>4 DEF AtNode

(* or the sign.                                                            *)
LEMMA SaysSign ==
  ASSUME NEW q, NEW k \in Nat, Len(q) \in Nat, NEW labels, NEW b \in BOOLEAN,
         SaysToken(q, k, <<Symbol(b, Sign)>>, labels)
  PROVE  k < Len(q) /\ q[k + 1].label = Sign /\ q[k + 1].bit = b
<1> DEFINE x == Symbol(b, Sign)
           l == Sign
<1>2. Len(l) = 2
  BY DEF Sign
<1> HIDE DEF l
<1>1. x.bit = b /\ x.label = l
  <2>1. Symbol(b, l).bit = b /\ Symbol(b, l).label = l
    BY DEF Symbol
  <2>2. QED
    BY <2>1, Zenon DEF l
<1> HIDE DEF x
<1>3. SaysToken(q, k, <<x>>, labels)
  BY DEF x
<1>4. k + 1 <= Len(q) /\ q[k + 1].bit = x.bit /\ q[k + 1].label = IF Len(x.label) = 1 THEN labels[x.label[1]] ELSE x.label
  BY <1>3 DEF SaysToken
<1>5. q[k + 1].label = l
  <2>1. Len(x.label) # 1
    BY <1>1, <1>2
  <2>2. q[k + 1].label = x.label
    BY <1>4, <2>1, Zenon
  <2>3. QED
    BY <1>1, <2>2, Zenon
<1>6. k < Len(q)
  BY <1>4
<1>7. QED
  BY <1>1, <1>4, <1>5, <1>6, Zenon DEF l

(* Labels where a token is used.                                           *)
LabelsAt(type, index, context) == [node \in Nodes |-> Label(type, index, context, node)]

(* Placing symbols changes the labels of nodes, and nothing else;          *)
LEMMA PlacedSymbols ==
  ASSUME NEW s \in Seq(TokenSymbols), NEW type \in BlockTypes, NEW index \in Nat, NEW context \in Nat
  PROVE  /\ Placed(s, type, index, context) \in Seq(Symbols)
         /\ Len(Placed(s, type, index, context)) = Len(s)
         /\ \A i \in 1 .. Len(s) :
              /\ Placed(s, type, index, context)[i].bit = s[i].bit
              /\ Placed(s, type, index, context)[i].label =
                   IF Len(s[i].label) = 1 THEN LabelsAt(type, index, context)[s[i].label[1]] ELSE s[i].label
<1> DEFINE place(x) == IF Len(x.label) = 1 THEN [x EXCEPT !.label = Label(type, index, context, @[1])] ELSE x
           p == Placed(s, type, index, context)
           labels == LabelsAt(type, index, context)
<1>1. ASSUME NEW x \in TokenSymbols
      PROVE  /\ place(x) \in Symbols /\ place(x).bit = x.bit
             /\ place(x).label = IF Len(x.label) = 1 THEN labels[x.label[1]] ELSE x.label
  <2>1. x.label \in NodeLabels \/ x.label \in FixedLabels
    BY DEF TokenSymbols
  <2>2. CASE x.label \in NodeLabels
    <3>1. PICK n \in Nodes : x.label = <<n>>
      BY <2>2 DEF NodeLabels
    <3> DEFINE l == Label(type, index, context, n)
    <3>2. l \in PlacedLabels
      BY DEF PlacedLabels
    <3>3. Len(x.label) = 1 /\ x.label[1] = n
      BY <3>1
    <3>4. labels[n] = l
      BY DEF LabelsAt
    <3> HIDE DEF l
    <3>5. place(x) = [x EXCEPT !.label = l]
      BY <3>3 DEF l
    <3>6. [x EXCEPT !.label = l] \in Symbols /\ [x EXCEPT !.label = l].bit = x.bit /\ [x EXCEPT !.label = l].label = l
      BY <3>2 DEF TokenSymbols, Symbols
    <3> HIDE DEF place, labels
    <3>7. QED
      BY <3>3, <3>4, <3>5, <3>6
  <2>3. CASE x.label \in FixedLabels
    <3>1. Len(x.label) = 2
      BY <2>3 DEF FixedLabels
    <3>2. place(x) = x
      BY <3>1
    <3>3. x \in Symbols
      BY <2>3 DEF TokenSymbols, Symbols
    <3> HIDE DEF place
    <3>4. QED
      BY <3>1, <3>2, <3>3
  <2>4. QED
    BY <2>1, <2>2, <2>3
<1>2. p = [i \in 1 .. Len(s) |-> place(s[i])] /\ Len(s) \in Nat /\ \A i \in 1 .. Len(s) : s[i] \in TokenSymbols
  BY DEF Placed
<1> HIDE DEF place, p, labels
<1>3. \A i \in 1 .. Len(s) : p[i] = place(s[i]) /\ place(s[i]) \in Symbols
  BY <1>1, <1>2
<1>4. p \in [1 .. Len(s) -> Symbols]
  BY <1>2, <1>3
<1>5. p \in Seq(Symbols) /\ Len(p) = Len(s)
  BY <1>2, <1>4
<1>6. \A i \in 1 .. Len(s) : p[i].bit = s[i].bit /\ p[i].label = IF Len(s[i].label) = 1 THEN labels[s[i].label[1]] ELSE s[i].label
  BY <1>1, <1>2, <1>3
<1>7. QED
  BY <1>5, <1>6, Zenon DEF p, labels

(* what says them placed says the coefficient with the labels of its       *)
(* place.                                                                  *)
LEMMA PlacedSaid ==
  ASSUME NEW q, NEW k \in Nat, NEW s \in Seq(TokenSymbols),
         NEW type \in BlockTypes, NEW index \in Nat, NEW context \in Nat,
         Says(q, k, Placed(s, type, index, context))
  PROVE  SaysToken(q, k, s, LabelsAt(type, index, context))
<1> DEFINE p == Placed(s, type, index, context)
           labels == LabelsAt(type, index, context)
<1>1. /\ Len(p) = Len(s)
      /\ \A i \in 1 .. Len(s) : /\ p[i].bit = s[i].bit
                                /\ p[i].label = IF Len(s[i].label) = 1 THEN labels[s[i].label[1]] ELSE s[i].label
  <2> HIDE DEF p, labels
  <2>1. /\ Len(Placed(s, type, index, context)) = Len(s)
        /\ \A i \in 1 .. Len(s) :
             /\ Placed(s, type, index, context)[i].bit = s[i].bit
             /\ Placed(s, type, index, context)[i].label =
                  IF Len(s[i].label) = 1 THEN LabelsAt(type, index, context)[s[i].label[1]] ELSE s[i].label
    BY PlacedSymbols
  <2>2. QED
    BY <2>1, Zenon DEF p, labels
<1>2. k + Len(p) <= Len(q) /\ \A i \in 1 .. Len(p) : q[k + i] = p[i]
  BY Zenon DEF Says
<1> HIDE DEF p, labels
<1>3. SaysToken(q, k, s, labels)
  BY <1>1, <1>2, Zenon DEF SaysToken
<1>4. QED
  BY <1>3, Zenon DEF labels

(* The symbols of a coefficient.                                           *)
Opening(last_was_zero) == IF last_was_zero THEN << >> ELSE <<Symbol(TRUE, <<0>>)>>
LevelSymbols(value) ==
  IF Magnitude(value) = 0 THEN <<Symbol(FALSE, <<1>>)>>
  ELSE <<Symbol(TRUE, <<1>>)>> \o Token(Magnitude(value)) \o <<Symbol(value < 0, Sign)>>
CoefficientSymbols(last_was_zero, value) == Opening(last_was_zero) \o LevelSymbols(value)

(* A symbol of a node,                                                     *)
LEMMA NodeSymbolTyped ==
  ASSUME NEW b \in BOOLEAN, NEW n \in Nodes
  PROVE  <<Symbol(b, <<n>>)>> \in Seq(TokenSymbols) /\ Len(<<Symbol(b, <<n>>)>>) = 1
<1>1. <<n>> \in NodeLabels
  BY DEF NodeLabels
<1>2. Symbol(b, <<n>>) \in TokenSymbols
  BY <1>1 DEF Symbol, TokenSymbols
<1>3. QED
  BY <1>2

(* and one of the sign.                                                    *)
LEMMA SignSymbolTyped ==
  ASSUME NEW b \in BOOLEAN
  PROVE  <<Symbol(b, Sign)>> \in Seq(TokenSymbols) /\ Len(<<Symbol(b, Sign)>>) = 1
<1>1. Sign \in FixedLabels
  BY DEF Sign, FixedLabels
<1>2. Symbol(b, Sign) \in TokenSymbols
  BY <1>1 DEF Symbol, TokenSymbols
<1>3. QED
  BY <1>2

(* A value is its magnitude and its sign.                                  *)
LEMMA MagnitudeFacts ==
  ASSUME NEW value \in Int
  PROVE  /\ Magnitude(value) \in Nat /\ (Magnitude(value) = 0 <=> value = 0)
         /\ value = IF value < 0 THEN -Magnitude(value) ELSE Magnitude(value)
         /\ (value < 0) \in BOOLEAN
BY DEF Magnitude

(* The symbol that says the block goes on, left out after a zero.          *)
LEMMA OpeningTyped ==
  ASSUME NEW last_was_zero \in BOOLEAN
  PROVE  Opening(last_was_zero) \in Seq(TokenSymbols)
<1>1. 0 \in Nodes /\ TRUE \in BOOLEAN
  BY DEF Nodes
<1>2. <<Symbol(TRUE, <<0>>)>> \in Seq(TokenSymbols)
  BY <1>1, NodeSymbolTyped, Zenon
<1>3. << >> \in Seq(TokenSymbols)
  OBVIOUS
<1>4. QED
  BY <1>2, <1>3 DEF Opening

(* The symbols of a level that is not zero.                                *)
LEMMA NonzeroTyped ==
  ASSUME NEW v \in 1 .. MaxLevel, NEW b \in BOOLEAN
  PROVE  /\ <<Symbol(TRUE, <<1>>)>> \o Token(v) \in Seq(TokenSymbols)
         /\ (<<Symbol(TRUE, <<1>>)>> \o Token(v)) \o <<Symbol(b, Sign)>> \in Seq(TokenSymbols)
<1>1. 1 \in Nodes /\ TRUE \in BOOLEAN
  BY DEF Nodes
<1>2. <<Symbol(TRUE, <<1>>)>> \in Seq(TokenSymbols)
  BY <1>1, NodeSymbolTyped, Zenon
<1>3. Token(v) \in Seq(TokenSymbols)
  BY TokenTyped
<1>4. <<Symbol(TRUE, <<1>>)>> \o Token(v) \in Seq(TokenSymbols)
  BY <1>2, <1>3, ConcatParts
<1>5. <<Symbol(b, Sign)>> \in Seq(TokenSymbols)
  BY SignSymbolTyped
<1>6. QED
  BY <1>4, <1>5, ConcatParts

(* The symbols of a value that can be coded.                               *)
LEMMA LevelTyped ==
  ASSUME NEW value \in Int, Magnitude(value) <= MaxLevel
  PROVE  LevelSymbols(value) \in Seq(TokenSymbols)
<1>1. CASE Magnitude(value) = 0
  <2>1. 1 \in Nodes /\ FALSE \in BOOLEAN
    BY DEF Nodes
  <2>2. <<Symbol(FALSE, <<1>>)>> \in Seq(TokenSymbols)
    BY <2>1, NodeSymbolTyped, Zenon
  <2>3. QED
    BY <1>1, <2>2, Zenon DEF LevelSymbols
<1>2. CASE Magnitude(value) # 0
  <2> DEFINE v == Magnitude(value)
             b == value < 0
             top == MaxLevel
  <2>1. v \in 1 .. MaxLevel
    <3>1. v \in Nat /\ v # 0 /\ v <= top
      BY <1>2, MagnitudeFacts
    <3>2. top \in Nat
      BY SMT DEF MaxLevel
    <3> HIDE DEF top, v
    <3>3. v \in 1 .. top
      BY <3>1, <3>2
    <3>4. QED
      BY <3>3 DEF top
  <2>2. b \in BOOLEAN
    OBVIOUS
  <2>3. LevelSymbols(value) = (<<Symbol(TRUE, <<1>>)>> \o Token(v)) \o <<Symbol(b, Sign)>>
    BY <1>2, Zenon DEF LevelSymbols
  <2> HIDE DEF v, b
  <2>4. QED
    BY <2>1, <2>2, <2>3, NonzeroTyped
<1>3. QED
  BY <1>1, <1>2

(* Those of a coefficient.                                                 *)
LEMMA CoefficientTyped ==
  ASSUME NEW last_was_zero \in BOOLEAN, NEW value \in Int, Magnitude(value) <= MaxLevel
  PROVE  /\ CoefficientSymbols(last_was_zero, value) \in Seq(TokenSymbols)
         /\ Len(CoefficientSymbols(last_was_zero, value)) = Len(Opening(last_was_zero)) + Len(LevelSymbols(value))
<1>1. Opening(last_was_zero) \in Seq(TokenSymbols) /\ LevelSymbols(value) \in Seq(TokenSymbols)
  BY OpeningTyped, LevelTyped
<1>2. QED
  BY <1>1, ConcatParts DEF CoefficientSymbols

(* What has been read after a coefficient.                                 *)
CoefficientKnown(r, s, q, k, index, value) ==
  /\ Reads(r.d, q, k) /\ ~r.ended /\ r.last_was_zero = (value = 0) /\ r.context = ContextAfter(Magnitude(value))
  /\ r.block = IF value = 0 THEN s.block ELSE [s.block EXCEPT ![index] = value]

(* The decoder finds that the block goes on, and like the encoder does not *)
(* ask after a zero.                                                       *)
LEMMA OpeningReads ==
  ASSUME NEW q \in Seq(Symbols), NEW k \in Nat, NEW s \in Parsers, Reads(s.d, q, k),
         NEW labels, SaysToken(q, k, Opening(s.last_was_zero), labels)
  PROVE  LET open == IF s.last_was_zero THEN [s.d EXCEPT !.bit = TRUE] ELSE Ask(s.d, labels[0])
         IN  Reads(open, q, k + Len(Opening(s.last_was_zero))) /\ open.bit
<1> DEFINE open == IF s.last_was_zero THEN [s.d EXCEPT !.bit = TRUE] ELSE Ask(s.d, labels[0])
<1>0. s.last_was_zero \in BOOLEAN /\ Len(q) \in Nat
  BY DEF Parsers
<1>1. CASE s.last_was_zero
  <2> DEFINE e == [s.d EXCEPT !.bit = TRUE]
             d == s.d
  <2>1. d \in Readers /\ d.in = Rest(q, k) /\ ~d.wrong
    BY DEF Reads
  <2>2. e \in Readers /\ e.in = d.in /\ e.wrong = d.wrong /\ e.bit
    <3> HIDE DEF d
    <3>1. [d EXCEPT !.bit = TRUE] \in Readers /\ [d EXCEPT !.bit = TRUE].in = d.in /\ [d EXCEPT !.bit = TRUE].wrong = d.wrong
          /\ [d EXCEPT !.bit = TRUE].bit
      BY <2>1 DEF Readers
    <3>2. QED
      BY <3>1 DEF d
  <2>3. open = e /\ Len(Opening(s.last_was_zero)) = 0
    BY <1>1 DEF Opening
  <2> HIDE DEF e, d, open
  <2>4. Reads(e, q, k + 0)
    BY <2>1, <2>2 DEF Reads
  <2>5. Reads(open, q, k + Len(Opening(s.last_was_zero))) /\ open.bit
    BY <2>2, <2>3, <2>4
  <2>6. QED
    BY <2>5, Zenon DEF open
<1>2. CASE ~s.last_was_zero
  <2>1. Opening(s.last_was_zero) = <<Symbol(TRUE, <<0>>)>>
    BY <1>2, Zenon DEF Opening
  <2>2. Len(<<Symbol(TRUE, <<0>>)>>) = 1
    OBVIOUS
  <2>3. AtNode(q, k, labels, 0) /\ q[k + 1].bit
    <3> DEFINE yes == TRUE
    <3>1. yes \in BOOLEAN /\ SaysToken(q, k, <<Symbol(yes, <<0>>)>>, labels)
      BY <2>1, Zenon
    <3> HIDE DEF yes
    <3>2. AtNode(q, k, labels, 0) /\ q[k + 1].bit = yes
      BY <1>0, <3>1, SaysOneNode
    <3>3. QED
      BY <3>2 DEF yes
  <2>4. Reads(Ask(s.d, labels[0]), q, k + 1) /\ Ask(s.d, labels[0]).bit = q[k + 1].bit
    BY <2>3, NodeReads
  <2>5. open = Ask(s.d, labels[0])
    BY <1>2
  <2> HIDE DEF open
  <2>6. Reads(open, q, k + Len(Opening(s.last_was_zero))) /\ open.bit
    BY <2>1, <2>2, <2>3, <2>4, <2>5
  <2>7. QED
    BY <2>6, Zenon DEF open
<1>3. QED
  BY <1>0, <1>1, <1>2

NonzeroSymbols(v, b) == (<<Symbol(TRUE, <<1>>)>> \o Token(v)) \o <<Symbol(b, Sign)>>

(* A level that is not zero: its first bool, its token, its sign.          *)
LEMMA NonzeroReads ==
  ASSUME NEW q \in Seq(Symbols), NEW k \in Nat, NEW open, Reads(open, q, k), NEW labels,
         NEW v \in 1 .. MaxLevel, NEW b \in BOOLEAN,
         SaysToken(q, k, NonzeroSymbols(v, b), labels)
  PROVE  LET nonzero == Ask(open, labels[1])
             token == AskToken(nonzero, labels)
             sign == Ask(token, Sign)
         IN  /\ nonzero.bit /\ token.value = v /\ sign.bit = b
             /\ Reads(sign, q, k + Len(NonzeroSymbols(v, b)))
<1> DEFINE yes == TRUE
           x == <<Symbol(yes, <<1>>)>>
           t == Token(v)
           y == <<Symbol(b, Sign)>>
<1>0. Len(q) \in Nat /\ 1 \in Nodes
  BY DEF Nodes
<1>1. x \in Seq(TokenSymbols) /\ Len(x) = 1
  BY <1>0, TRUE \in BOOLEAN, NodeSymbolTyped, Zenon
<1>2. t \in Seq(TokenSymbols)
  BY TokenTyped
<1>3. y \in Seq(TokenSymbols) /\ Len(y) = 1
  BY SignSymbolTyped
<1>4. SaysToken(q, k, (x \o t) \o y, labels)
  BY Zenon DEF NonzeroSymbols
<1>5. x \o t \in Seq(TokenSymbols)
  BY NonzeroTyped, Zenon
<1> HIDE DEF t
<1>6. SaysToken(q, k, x \o t, labels) /\ SaysToken(q, k + Len(x \o t), y, labels) /\ Len((x \o t) \o y) = Len(x \o t) + Len(y)
  <2> DEFINE w == x \o t
  <2>1. w \in Seq(TokenSymbols) /\ SaysToken(q, k, w \o y, labels)
    BY <1>4, <1>5
  <2> HIDE DEF w, x, y
  <2>2. SaysToken(q, k, w, labels) /\ SaysToken(q, k + Len(w), y, labels) /\ Len(w \o y) = Len(w) + Len(y)
    <3>1. y \in Seq(TokenSymbols)
      BY <1>3
    <3>2. QED
      BY ONLY k \in Nat, <1>0, <2>1, <3>1, SaysTokenParts
  <2>3. QED
    BY <2>2, Zenon DEF w
<1>7. SaysToken(q, k, x, labels) /\ SaysToken(q, k + Len(x), t, labels) /\ Len(x \o t) = Len(x) + Len(t)
  <2> HIDE DEF x, y
  <2>1. SaysToken(q, k, x \o t, labels)
    BY <1>6
  <2>2. QED
    <3>1. x \in Seq(TokenSymbols)
      BY <1>1
    <3>2. QED
      BY ONLY k \in Nat, <1>0, <1>2, <2>1, <3>1, SaysTokenParts
<1> DEFINE nonzero == Ask(open, labels[1])
           token == AskToken(nonzero, labels)
           sign == Ask(token, Sign)
<1>8. Reads(nonzero, q, k + 1) /\ nonzero.bit
  <2>0. yes \in BOOLEAN
    OBVIOUS
  <2> HIDE DEF yes
  <2>1. AtNode(q, k, labels, 1) /\ q[k + 1].bit = yes
    BY <1>0, <1>7, <2>0, SaysOneNode
  <2>2. Reads(nonzero, q, k + 1) /\ nonzero.bit = q[k + 1].bit
    BY <2>1, NodeReads
  <2>3. QED
    BY <2>1, <2>2 DEF yes
<1> HIDE DEF nonzero, x
<1>9. TokenRead(token, q, k + 1, Len(t), v)
  <2>1. SaysToken(q, k + 1, t, labels) /\ k + 1 \in Nat
    BY <1>1, <1>7
  <2>2. QED
    BY <1>8, <2>1, TokenReads, Zenon DEF t
<1> HIDE DEF token
<1> DEFINE j == k + Len(x \o t)
<1>10. j \in Nat /\ Reads(token, q, j) /\ token.value = v /\ k + Len((x \o t) \o y) = j + 1
  <2>1. Len(t) \in Nat
    BY <1>2
  <2>2. (k + 1) + Len(t) = j /\ j \in Nat /\ k + Len((x \o t) \o y) = j + 1
    <3>1. Len((x \o t) \o y) = Len(x \o t) + 1 /\ Len(x \o t) = 1 + Len(t)
      BY <1>1, <1>3, <1>6, <1>7
    <3> DEFINE a == Len((x \o t) \o y)
               c == Len(x \o t)
               n == Len(t)
    <3>2. a = c + 1 /\ c = 1 + n /\ n \in Nat
      BY <2>1, <3>1
    <3> HIDE DEF a, c, n
    <3>3. (k + 1) + n = k + c /\ k + c \in Nat /\ k + a = (k + c) + 1
      BY <3>2
    <3>4. QED
      BY <3>3 DEF a, c, n
  <2> HIDE DEF j, y
  <2>3. QED
    BY <1>9, <2>2, Zenon DEF TokenRead
<1>11. j < Len(q) /\ q[j + 1].label = Sign /\ q[j + 1].bit = b
  <2>1. SaysToken(q, j, <<Symbol(b, Sign)>>, labels)
    BY <1>6
  <2> HIDE DEF j
  <2>2. QED
    BY <1>0, <1>10, <2>1, SaysSign
<1> HIDE DEF j
<1>12. Reads(sign, q, j + 1) /\ sign.bit = b
  BY <1>10, <1>11, AskReads
<1> HIDE DEF sign
<1>13. nonzero.bit /\ token.value = v /\ sign.bit = b /\ Reads(sign, q, k + Len((x \o t) \o y))
  BY <1>8, <1>10, <1>12
<1>14. QED
  BY <1>13, Zenon DEF nonzero, token, sign, x, t, yes, NonzeroSymbols

(* One turn of the loop of parse_tokens reads what one turn of the loop of *)
(* serialize_tokens wrote: the value, the context after it and whether it  *)
(* was zero.                                                               *)
LEMMA CoefficientReads ==
  ASSUME NEW q \in Seq(Symbols), NEW k \in Nat, NEW s \in Parsers, ~s.ended, Reads(s.d, q, k),
         NEW index, NEW type, NEW value \in Int, Magnitude(value) <= MaxLevel,
         SaysToken(q, k, CoefficientSymbols(s.last_was_zero, value), LabelsAt(type, index, s.context))
  PROVE  CoefficientKnown(AskCoefficient(s, index, type), s, q,
                          k + Len(CoefficientSymbols(s.last_was_zero, value)), index, value)
<1> DEFINE labels == LabelsAt(type, index, s.context)
           open == IF s.last_was_zero THEN [s.d EXCEPT !.bit = TRUE] ELSE Ask(s.d, labels[0])
           nonzero == Ask(open, labels[1])
           token == AskToken(nonzero, labels)
           sign == Ask(token, Sign)
           r == AskCoefficient(s, index, type)
           o == Len(Opening(s.last_was_zero))
           l == Len(LevelSymbols(value))
<1>0. s.last_was_zero \in BOOLEAN /\ Len(q) \in Nat /\ s.ended \in BOOLEAN
  BY DEF Parsers
<1>1. r = IF s.ended THEN s
          ELSE IF ~open.bit THEN [s EXCEPT !.d = open, !.ended = TRUE]
          ELSE IF ~nonzero.bit THEN [s EXCEPT !.d = nonzero, !.last_was_zero = TRUE, !.context = 0]
          ELSE CoefficientRead(s, index, token, sign)
  BY Zenon DEF AskCoefficient, AskSign, LabelsAt
<1>2. /\ SaysToken(q, k, Opening(s.last_was_zero), labels) /\ SaysToken(q, k + o, LevelSymbols(value), labels)
      /\ Len(CoefficientSymbols(s.last_was_zero, value)) = o + l /\ o \in Nat /\ l \in Nat
  <2>1. Opening(s.last_was_zero) \in Seq(TokenSymbols)
    BY <1>0, OpeningTyped
  <2>2. LevelSymbols(value) \in Seq(TokenSymbols)
    BY LevelTyped
  <2> HIDE DEF labels
  <2>3. SaysToken(q, k, Opening(s.last_was_zero) \o LevelSymbols(value), labels)
    BY Zenon DEF CoefficientSymbols, labels
  <2>4. o \in Nat /\ l \in Nat
    BY <2>1, <2>2
  <2>5. /\ SaysToken(q, k, Opening(s.last_was_zero), labels) /\ SaysToken(q, k + o, LevelSymbols(value), labels)
        /\ Len(Opening(s.last_was_zero) \o LevelSymbols(value)) = o + l
    BY <1>0, <2>1, <2>2, <2>3, SaysTokenParts
  <2>6. QED
    BY <2>4, <2>5, Zenon DEF CoefficientSymbols
<1> HIDE DEF labels
<1>3. Reads(open, q, k + o) /\ open.bit
  BY <1>2, OpeningReads, Zenon
<1> HIDE DEF open
<1> DEFINE j == k + o
<1>4. j \in Nat /\ k + (o + l) = j + l
  BY <1>2
<1>5. /\ SaysToken(q, j, LevelSymbols(value), labels) /\ Reads(open, q, j)
      /\ Len(CoefficientSymbols(s.last_was_zero, value)) = o + l
  BY <1>2, <1>3
<1> HIDE DEF j, o
<1>6. CASE value = 0
  <2>1. LevelSymbols(value) = <<Symbol(FALSE, <<1>>)>>
    BY <1>6, MagnitudeFacts, Zenon DEF LevelSymbols
  <2>2. l = 1
    BY <2>1
  <2> DEFINE no == FALSE
  <2>3. no \in BOOLEAN /\ SaysToken(q, j, <<Symbol(no, <<1>>)>>, labels)
    BY <1>5, <2>1, Zenon
  <2> HIDE DEF no
  <2>4. AtNode(q, j, labels, 1) /\ q[j + 1].bit = no
    BY <1>0, <1>4, <2>3, SaysOneNode
  <2>5. Reads(nonzero, q, j + 1) /\ nonzero.bit = q[j + 1].bit
    BY <1>4, <1>5, <2>4, NodeReads
  <2> HIDE DEF nonzero, token, sign
  <2>6. r = [s EXCEPT !.d = nonzero, !.last_was_zero = TRUE, !.context = 0]
    BY <1>0, <1>1, <1>3, <2>4, <2>5 DEF no
  <2> HIDE DEF r
  <2>7. r.d = nonzero /\ r.last_was_zero /\ r.context = 0 /\ r.block = s.block /\ r.ended = s.ended
    BY <2>6 DEF Parsers
  <2>8. ContextAfter(Magnitude(value)) = 0
    BY <1>6, MagnitudeFacts DEF ContextAfter
  <2>9. Reads(r.d, q, j + l)
    BY <2>2, <2>5, <2>7
  <2>10. CoefficientKnown(r, s, q, j + l, index, value)
    BY <1>6, <2>7, <2>8, <2>9 DEF CoefficientKnown
  <2>11. QED
    BY <1>4, <1>5, <2>10, Zenon DEF r
<1>7. CASE value # 0
  <2> DEFINE v == Magnitude(value)
             b == value < 0
             top == MaxLevel
  <2>1. v \in 1 .. MaxLevel
    <3>1. v \in Nat /\ v # 0 /\ v <= top
      BY <1>7, MagnitudeFacts
    <3>2. top \in Nat
      BY SMT DEF MaxLevel
    <3> HIDE DEF top, v
    <3>3. v \in 1 .. top
      BY <3>1, <3>2
    <3>4. QED
      BY <3>3 DEF top
  <2>2. b \in BOOLEAN /\ value = (IF b THEN -v ELSE v)
    BY MagnitudeFacts
  <2>3. LevelSymbols(value) = NonzeroSymbols(v, b)
    BY <1>7, MagnitudeFacts, Zenon DEF LevelSymbols, NonzeroSymbols
  <2> HIDE DEF v, b
  <2>4. SaysToken(q, j, NonzeroSymbols(v, b), labels)
    BY <1>5, <2>3, Zenon
  <2>5. nonzero.bit /\ token.value = v /\ sign.bit = b /\ Reads(sign, q, j + Len(NonzeroSymbols(v, b)))
    <3>1. b \in BOOLEAN /\ j \in Nat /\ Reads(open, q, j)
      BY <1>4, <1>5, <2>2
    <3>2. QED
      BY ONLY q \in Seq(Symbols), <2>1, <2>4, <3>1, NonzeroReads
  <2>6. Reads(sign, q, j + l)
    BY <2>3, <2>5, Zenon
  <2> HIDE DEF nonzero, token, sign
  <2>7. r = CoefficientRead(s, index, token, sign)
    BY <1>0, <1>1, <1>3, <2>5
  <2>8. r = [s EXCEPT !.d = sign, !.last_was_zero = FALSE, !.context = ContextAfter(v), !.block = [s.block EXCEPT ![index] = value]]
    <3>1. (IF sign.bit THEN -token.value ELSE token.value) = value
      BY <2>2, <2>5
    <3>2. CoefficientRead(s, index, token, sign) =
            [s EXCEPT !.d = sign, !.last_was_zero = FALSE, !.context = ContextAfter(token.value),
                      !.block = [s.block EXCEPT ![index] = IF sign.bit THEN -token.value ELSE token.value]]
      BY Zenon DEF CoefficientRead
    <3>3. QED
      BY <2>5, <2>7, <3>1, <3>2, Zenon
  <2> HIDE DEF r
  <2> DEFINE c == ContextAfter(v)
             new == [s.block EXCEPT ![index] = value]
  <2>9. r = [s EXCEPT !.d = sign, !.last_was_zero = FALSE, !.context = c, !.block = new]
    BY <2>8
  <2> HIDE DEF c, new
  <2>10. r.d = sign /\ ~r.last_was_zero /\ r.context = c /\ r.block = new /\ r.ended = s.ended
    BY <2>9 DEF Parsers
  <2>11. CoefficientKnown(r, s, q, j + l, index, value)
    <3>1. r.last_was_zero = FALSE
      BY <2>9 DEF Parsers
    <3>2. r.last_was_zero = (value = 0)
      BY <1>7, <3>1
    <3>3. Reads(r.d, q, j + l)
      BY <2>6, <2>10
    <3>4. r.context = ContextAfter(Magnitude(value))
      BY <2>10, Zenon DEF c, v
    <3>5. r.block = IF value = 0 THEN s.block ELSE [s.block EXCEPT ![index] = value]
      BY <1>7, <2>10, Zenon DEF new
    <3>6. QED
      BY <2>10, <3>2, <3>3, <3>4, <3>5, Zenon DEF CoefficientKnown
  <2>12. QED
    BY <1>4, <1>5, <2>11, Zenon DEF r
<1>8. QED
  BY <1>6, <1>7

-----------------------------------------------------------------------------
(***************************************************************************)
(* A block: the loops of encoder and decoder go through the same states.   *)
(***************************************************************************)

(* Blocks whose coefficients a token can code.                             *)
Codable == {block \in [Positions -> Int] : \A i \in Positions : Magnitude(block[i]) <= MaxLevel}

(* The state of the loop of serialize_tokens.                              *)
Putters == [out : Seq(Symbols), context : Nat, last_was_zero : BOOLEAN]
FirstPutter(context) == [out |-> << >>, context |-> context, last_was_zero |-> FALSE]

(* The context after a value.                                              *)
LEMMA ContextTyped ==
  ASSUME NEW value \in Nat
  PROVE  ContextAfter(value) \in Nat
BY DEF ContextAfter

(* One turn of the loop of serialize_tokens,                               *)
LEMMA PutForm ==
  ASSUME NEW s, NEW index, NEW block, NEW type
  PROVE  PutCoefficient(s, index, block, type) =
           [out |-> s.out \o Placed(CoefficientSymbols(s.last_was_zero, block[index]), type, index, s.context),
            context |-> ContextAfter(Magnitude(block[index])), last_was_zero |-> (Magnitude(block[index]) = 0)]
BY Zenon DEF PutCoefficient, CoefficientSymbols, Opening, LevelSymbols

(* which keeps the type of its state.                                      *)
LEMMA PutTyped ==
  ASSUME NEW s \in Putters, NEW index \in Positions, NEW block \in Codable, NEW type \in BlockTypes
  PROVE  PutCoefficient(s, index, block, type) \in Putters
<1> DEFINE value == block[index]
           x == CoefficientSymbols(s.last_was_zero, value)
           p == Placed(x, type, index, s.context)
           c == ContextAfter(Magnitude(value))
           z == Magnitude(value) = 0
<1>1. value \in Int /\ Magnitude(value) <= MaxLevel
  BY DEF Codable
<1>2. s.out \in Seq(Symbols) /\ s.context \in Nat /\ s.last_was_zero \in BOOLEAN
  BY DEF Putters
<1>3. index \in Nat
  BY DEF Positions
<1> HIDE DEF value
<1>4. x \in Seq(TokenSymbols)
  BY <1>1, <1>2, CoefficientTyped
<1> HIDE DEF x
<1>5. p \in Seq(Symbols)
  BY <1>2, <1>3, <1>4, PlacedSymbols
<1>6. c \in Nat /\ z \in BOOLEAN
  BY <1>1, MagnitudeFacts, ContextTyped
<1> HIDE DEF p, c, z
<1>7. s.out \o p \in Seq(Symbols)
  BY <1>2, <1>5, ConcatParts
<1>8. [out |-> s.out \o p, context |-> c, last_was_zero |-> z] \in Putters
  BY <1>6, <1>7 DEF Putters
<1>9. QED
  BY <1>8, PutForm, Zenon DEF p, c, z, x, value

(* The states of the encoder in a block, one after another.                *)
PutRun(f, block, type, context) ==
  /\ \A k \in 0 .. N : f[k] \in Putters
  /\ \A k \in 0 .. N : k <= FirstIndex(type) => f[k] = FirstPutter(context)
  /\ \A k \in 1 .. N : k > FirstIndex(type) => f[k] = PutCoefficient(f[k - 1], k - 1, block, type)

EndOf(block, type) ==
  IF CodedLength(block, type) > FirstIndex(type) THEN CodedLength(block, type) ELSE FirstIndex(type)
EndSymbols(block, type, context) ==
  IF CodedLength(block, type) < N THEN Placed(<<Symbol(FALSE, <<0>>)>>, type, EndOf(block, type), context) ELSE << >>

(* Block::serialize_tokens has these states, and ends with the symbols of  *)
(* the end.                                                                *)
LEMMA PutsIterate ==
  ASSUME NEW block \in Codable, NEW type \in BlockTypes, NEW context \in Nat
  PROVE  \E f : /\ PutRun(f, block, type, context)
                /\ BlockTokens(block, type, context) =
                     f[EndOf(block, type)].out \o EndSymbols(block, type, f[EndOf(block, type)].context)
<1> DEFINE a == FirstPutter(context)
           first == FirstIndex(type)
           turn(p, k) == IF k <= first THEN a ELSE PutCoefficient(p, k - 1, block, type)
           step == [p \in Putters \X Nat |-> IF p[2] \in 1 .. N THEN turn(p[1], p[2]) ELSE a]
           Def(f) == f = [k \in 0 .. N |-> IF k <= first THEN a ELSE PutCoefficient(f[k - 1], k - 1, block, type)]
<1>0. N \in Nat /\ first \in Nat
  BY ResiduesAssumption DEF FirstIndex
<1>1. a \in Putters
  BY DEF Putters, FirstPutter
<1>2. step \in [Putters \X Nat -> Putters]
  <2> SUFFICES ASSUME NEW p \in Putters, NEW k \in 1 .. N PROVE turn(p, k) \in Putters
    BY <1>1, Zenon
  <2>1. k - 1 \in Positions
    BY <1>0 DEF Positions
  <2>2. PutCoefficient(p, k - 1, block, type) \in Putters
    BY <2>1, PutTyped
  <2> HIDE DEF a
  <2>3. QED
    BY <1>1, <2>2
<1>3. \E h \in [0 .. N -> Putters] : IteratesUpTo(h, N, a, step)
  <2> HIDE DEF step, a
  <2>1. \A n \in Nat : \E h \in [0 .. n -> Putters] : IteratesUpTo(h, n, a, step)
    BY <1>1, <1>2, IterationUpTo
  <2>2. QED
    BY <1>0, <2>1
<1>4. PICK h \in [0 .. N -> Putters] : IteratesUpTo(h, N, a, step)
  BY <1>3, Zenon
<1>5. Def(h)
  <2>1. ASSUME NEW k \in 0 .. N PROVE h[k] = turn(h[k - 1], k)
    <3>1. CASE k = 0
      <4> HIDE DEF first
      <4>1. 0 <= first
        BY ONLY <1>0
      <4>2. h[0] = a
        BY <1>4 DEF IteratesUpTo
      <4> HIDE DEF a, first
      <4>3. QED
        BY <3>1, <4>1, <4>2
    <3>2. CASE k # 0
      <4>1. k \in 1 .. N /\ k - 1 \in 0 .. N /\ k \in Nat
        BY <1>0, <3>2
      <4>2. h[k] = step[<<h[k - 1], k>>]
        BY <1>4, <4>1, Zenon DEF IteratesUpTo
      <4>3. h[k - 1] \in Putters
        BY <4>1
      <4> HIDE DEF turn, a
      <4>4. step[<<h[k - 1], k>>] = turn(h[k - 1], k)
        BY <4>1, <4>3
      <4>5. QED
        BY <4>2, <4>4, Zenon
    <3>3. QED
      BY <3>1, <3>2
  <2>2. h = [k \in 0 .. N |-> h[k]]
    OBVIOUS
  <2> HIDE DEF a, first
  <2>3. QED
    BY <2>1, <2>2
<1> DEFINE f == CHOOSE f : Def(f)
<1>6. Def(f)
  <2> HIDE DEF Def
  <2>1. QED
    BY <1>5, Zenon
<1>7. BlockTokens(block, type, context) = f[EndOf(block, type)].out \o EndSymbols(block, type, f[EndOf(block, type)].context)
  BY Zenon DEF BlockTokens, EndOf, EndSymbols, FirstPutter
<1> HIDE DEF f
<1>8. \A k \in 0 .. N : f[k] = turn(f[k - 1], k)
  <2> HIDE DEF a, first
  <2>1. QED
    BY <1>6
<1>9. \A k \in 0 .. N : k <= first => f[k] = a
  BY <1>8, Zenon
<1>10. \A k \in 1 .. N : k > first => f[k] = PutCoefficient(f[k - 1], k - 1, block, type)
  <2> SUFFICES ASSUME NEW k \in 1 .. N, k > first PROVE f[k] = PutCoefficient(f[k - 1], k - 1, block, type)
    BY Zenon
  <2> HIDE DEF first
  <2>1. k \in 0 .. N /\ ~(k <= first)
    BY <1>0
  <2>2. QED
    BY <1>8, <2>1, Zenon
<1>11. \A k \in 0 .. N : f[k] \in Putters
  <2> DEFINE typed == {k \in Nat : k <= N => f[k] \in Putters}
  <2>1. 0 \in typed
    <3> HIDE DEF first
    <3>1. 0 \in 0 .. N /\ 0 <= first
      BY ONLY <1>0
    <3>2. f[0] \in Putters
      BY <1>1, <1>9, <3>1, Zenon
    <3>3. QED
      BY <3>2
  <2>2. ASSUME NEW k \in Nat, k \in typed PROVE k + 1 \in typed
    <3> SUFFICES ASSUME k + 1 <= N PROVE f[k + 1] \in Putters
      OBVIOUS
    <3>1. f[k] \in Putters /\ k + 1 \in 0 .. N /\ k \in Positions /\ (k + 1) - 1 = k
      BY <1>0, <2>2 DEF Positions
    <3>2. PutCoefficient(f[k], k, block, type) \in Putters
      BY <3>1, PutTyped
    <3>3. f[k + 1] = IF k + 1 <= first THEN a ELSE PutCoefficient(f[(k + 1) - 1], (k + 1) - 1, block, type)
      BY <1>8, <3>1, Zenon
    <3> HIDE DEF a
    <3>4. QED
      BY <1>1, <3>1, <3>2, <3>3
  <2>3. \A k \in Nat : k \in typed
    <3> HIDE DEF typed
    <3>1. QED
      BY <2>1, <2>2, SetInduction
  <2>4. QED
    BY <1>0, <2>3
<1>12. PutRun(f, block, type, context)
  BY <1>9, <1>10, <1>11, Zenon DEF PutRun
<1>13. QED
  BY <1>7, <1>12, Zenon

FirstParser(d, context) ==
  [d |-> d, block |-> Zeros, context |-> context, last_was_zero |-> FALSE, ended |-> FALSE]

(* The states of the decoder in a block, one after another.                *)
AskRun(f, d, type, context) ==
  /\ \A k \in 0 .. N : f[k] \in Parsers
  /\ \A k \in 0 .. N : k <= FirstIndex(type) => f[k] = FirstParser(d, context)
  /\ \A k \in 1 .. N : k > FirstIndex(type) => f[k] = AskCoefficient(f[k - 1], k - 1, type)

(* The loop of parse_tokens has these states.                              *)
LEMMA AsksIterate ==
  ASSUME NEW d \in Readers, NEW type \in BlockTypes, NEW context \in Nat
  PROVE  \E f : AskRun(f, d, type, context) /\ AskBlock(d, type, context) = f[N]
<1> DEFINE a == FirstParser(d, context)
           first == FirstIndex(type)
           turn(p, k) == IF k <= first THEN a ELSE AskCoefficient(p, k - 1, type)
           step == [p \in Parsers \X Nat |-> IF p[2] \in 1 .. N THEN turn(p[1], p[2]) ELSE a]
           Def(f) == f = [k \in 0 .. N |-> IF k <= first THEN a ELSE AskCoefficient(f[k - 1], k - 1, type)]
<1>0. N \in Nat /\ first \in Nat
  BY ResiduesAssumption DEF FirstIndex
<1>1. a \in Parsers
  <2>1. Zeros \in [Positions -> Int]
    BY DEF Zeros
  <2> DEFINE no == FALSE
  <2>2. no \in BOOLEAN
    OBVIOUS
  <2> HIDE DEF no
  <2>3. [d |-> d, block |-> Zeros, context |-> context, last_was_zero |-> no, ended |-> no] \in Parsers
    BY <2>1, <2>2 DEF Parsers
  <2>4. QED
    BY <2>3 DEF FirstParser, no
<1>2. step \in [Parsers \X Nat -> Parsers]
  <2> SUFFICES ASSUME NEW p \in Parsers, NEW k \in 1 .. N PROVE turn(p, k) \in Parsers
    BY <1>1, Zenon
  <2>2. AskCoefficient(p, k - 1, type) \in Parsers
    BY AskCoefficientTyped
  <2> HIDE DEF a
  <2>3. QED
    BY <1>1, <2>2
<1>3. \E h \in [0 .. N -> Parsers] : IteratesUpTo(h, N, a, step)
  <2> HIDE DEF step, a
  <2>1. \A n \in Nat : \E h \in [0 .. n -> Parsers] : IteratesUpTo(h, n, a, step)
    BY <1>1, <1>2, IterationUpTo
  <2>2. QED
    BY <1>0, <2>1
<1>4. PICK h \in [0 .. N -> Parsers] : IteratesUpTo(h, N, a, step)
  BY <1>3, Zenon
<1>5. Def(h)
  <2>1. ASSUME NEW k \in 0 .. N PROVE h[k] = turn(h[k - 1], k)
    <3>1. CASE k = 0
      <4> HIDE DEF first
      <4>1. 0 <= first
        BY ONLY <1>0
      <4>2. h[0] = a
        BY <1>4 DEF IteratesUpTo
      <4> HIDE DEF a, first
      <4>3. QED
        BY <3>1, <4>1, <4>2
    <3>2. CASE k # 0
      <4>1. k \in 1 .. N /\ k - 1 \in 0 .. N /\ k \in Nat
        BY <1>0, <3>2
      <4>2. h[k] = step[<<h[k - 1], k>>]
        BY <1>4, <4>1, Zenon DEF IteratesUpTo
      <4>3. h[k - 1] \in Parsers
        BY <4>1
      <4> HIDE DEF turn, a
      <4>4. step[<<h[k - 1], k>>] = turn(h[k - 1], k)
        BY <4>1, <4>3
      <4>5. QED
        BY <4>2, <4>4, Zenon
    <3>3. QED
      BY <3>1, <3>2
  <2>2. h = [k \in 0 .. N |-> h[k]]
    OBVIOUS
  <2> HIDE DEF a, first
  <2>3. QED
    BY <2>1, <2>2
<1> DEFINE f == CHOOSE f : Def(f)
<1>6. Def(f)
  <2> HIDE DEF Def
  <2>1. QED
    BY <1>5, Zenon
<1>7. AskBlock(d, type, context) = f[N]
  BY Zenon DEF AskBlock, FirstParser
<1> HIDE DEF f
<1>8. \A k \in 0 .. N : f[k] = turn(f[k - 1], k)
  <2> HIDE DEF a, first
  <2>1. QED
    BY <1>6
<1>9. \A k \in 0 .. N : k <= first => f[k] = a
  BY <1>8, Zenon
<1>10. \A k \in 1 .. N : k > first => f[k] = AskCoefficient(f[k - 1], k - 1, type)
  <2> SUFFICES ASSUME NEW k \in 1 .. N, k > first PROVE f[k] = AskCoefficient(f[k - 1], k - 1, type)
    BY Zenon
  <2> HIDE DEF first
  <2>1. k \in 0 .. N /\ ~(k <= first)
    BY <1>0
  <2>2. QED
    BY <1>8, <2>1, Zenon
<1>11. \A k \in 0 .. N : f[k] \in Parsers
  <2> DEFINE typed == {k \in Nat : k <= N => f[k] \in Parsers}
  <2>1. 0 \in typed
    <3> HIDE DEF first
    <3>1. 0 \in 0 .. N /\ 0 <= first
      BY ONLY <1>0
    <3>2. f[0] \in Parsers
      BY <1>1, <1>9, <3>1, Zenon
    <3>3. QED
      BY <3>2
  <2>2. ASSUME NEW k \in Nat, k \in typed PROVE k + 1 \in typed
    <3> SUFFICES ASSUME k + 1 <= N PROVE f[k + 1] \in Parsers
      OBVIOUS
    <3>1. f[k] \in Parsers /\ k + 1 \in 0 .. N /\ (k + 1) - 1 = k
      BY <1>0, <2>2
    <3>2. AskCoefficient(f[k], k, type) \in Parsers
      BY <3>1, AskCoefficientTyped
    <3>3. f[k + 1] = IF k + 1 <= first THEN a ELSE AskCoefficient(f[(k + 1) - 1], (k + 1) - 1, type)
      BY <1>8, <3>1, Zenon
    <3> HIDE DEF a
    <3>4. QED
      BY <1>1, <3>1, <3>2, <3>3
  <2>3. \A k \in Nat : k \in typed
    <3> HIDE DEF typed
    <3>1. QED
      BY <2>1, <2>2, SetInduction
  <2>4. QED
    BY <1>0, <2>3
<1>12. AskRun(f, d, type, context)
  BY <1>9, <1>10, <1>11, Zenon DEF AskRun
<1>13. QED
  BY <1>7, <1>12, Zenon

(* A set of numbers up to n has a greatest.                                *)
LEMMA GreatestExists ==
  ASSUME NEW n \in Nat, NEW S, S \subseteq 0 .. n, S # {}
  PROVE  \E i \in S : \A j \in S : j <= i
<1> DEFINE Greatest(T) == \E i \in T : \A j \in T : j <= i
           fine == {m \in Nat : \A T \in SUBSET (0 .. m) : T # {} => Greatest(T)}
<1>1. 0 \in fine
  <2> SUFFICES ASSUME NEW T \in SUBSET (0 .. 0), T # {} PROVE Greatest(T)
    OBVIOUS
  <2>1. PICK i : i \in T
    OBVIOUS
  <2>2. \A j \in T : j = 0
    OBVIOUS
  <2>3. i = 0 /\ \A j \in T : j <= i
    BY <2>1, <2>2
  <2>4. QED
    BY <2>1, <2>3
<1>2. ASSUME NEW m \in Nat, m \in fine PROVE m + 1 \in fine
  <2> SUFFICES ASSUME NEW T \in SUBSET (0 .. m + 1), T # {} PROVE Greatest(T)
    OBVIOUS
  <2>1. CASE m + 1 \in T
    <3>1. \A j \in T : j <= m + 1
      OBVIOUS
    <3>2. QED
      BY <2>1, <3>1
  <2>2. CASE m + 1 \notin T
    <3>1. T \in SUBSET (0 .. m)
      BY <2>2
    <3>2. QED
      BY <1>2, <3>1
  <2>3. QED
    BY <2>1, <2>2
<1>3. \A m \in Nat : m \in fine
  <2> HIDE DEF fine
  <2>1. QED
    BY <1>1, <1>2, SetInduction
<1>4. Greatest(S)
  <2>1. S \in SUBSET (0 .. n)
    OBVIOUS
  <2> HIDE DEF Greatest
  <2>2. QED
    BY <1>3, <2>1
<1>5. QED
  BY <1>4

(* Where the coefficients of a block end.                                  *)
LEMMA LengthFacts ==
  ASSUME NEW block \in [Positions -> Int], NEW type
  PROVE  /\ CodedLength(block, type) \in 0 .. N /\ EndOf(block, type) \in FirstIndex(type) .. N
         /\ FirstIndex(type) \in {0, 1} /\ CodedLength(block, type) <= EndOf(block, type)
         /\ CodedLength(block, type) < N => EndOf(block, type) < N
         /\ EndOf(block, type) > FirstIndex(type) => block[EndOf(block, type) - 1] # 0
         /\ \A i \in EndOf(block, type) .. N - 1 : block[i] = 0
<1> DEFINE first == FirstIndex(type)
           length == CodedLength(block, type)
           end == EndOf(block, type)
           nonzero == {i \in first .. N - 1 : block[i] # 0}
           last == CHOOSE i \in nonzero : \A j \in nonzero : j <= i
<1>0. N \in Nat /\ N >= 2 /\ first \in {0, 1}
  BY ResiduesAssumption DEF FirstIndex
<1>1. length = IF nonzero = {} THEN 0 ELSE 1 + last
  BY DEF CodedLength
<1>2. end = IF length > first THEN length ELSE first
  BY DEF EndOf
<1>3. CASE nonzero = {}
  <2>1. length = 0
    BY <1>1, <1>3
  <2>2. \A i \in first .. N - 1 : block[i] = 0
    BY <1>3
  <2> HIDE DEF first, length, end
  <2>3. end = first
    BY <1>0, <1>2, <2>1
  <2>4. QED
    BY <1>0, <2>1, <2>2, <2>3 DEF first, length, end
<1>4. CASE nonzero # {}
  <2>1. \E i \in nonzero : \A j \in nonzero : j <= i
    <3> HIDE DEF first
    <3>1. nonzero \subseteq 0 .. N - 1 /\ N - 1 \in Nat
      BY <1>0
    <3> HIDE DEF nonzero
    <3>2. QED
      BY <1>4, <3>1, GreatestExists
  <2>2. last \in nonzero /\ \A j \in nonzero : j <= last
    <3> HIDE DEF nonzero
    <3>1. QED
      BY <2>1, Zenon
  <2>3. length = 1 + last
    BY <1>1, <1>4
  <2> HIDE DEF last, first, length, end
  <2>4. last \in first .. N - 1 /\ block[last] # 0 /\ length - 1 = last
    BY <1>0, <2>2, <2>3
  <2>5. end = length /\ length \in 1 .. N /\ length > first
    BY <1>0, <1>2, <2>3, <2>4
  <2>6. \A i \in end .. N - 1 : block[i] = 0
    <3> SUFFICES ASSUME NEW i \in end .. N - 1, block[i] # 0 PROVE FALSE
      OBVIOUS
    <3>1. i \in first .. N - 1
      BY <1>0, <2>5
    <3>2. i \in nonzero
      BY <3>1
    <3>3. i <= last
      BY <2>2, <3>2
    <3>4. QED
      BY <1>0, <2>4, <2>5, <3>3
  <2>7. QED
    BY <1>0, <2>4, <2>5, <2>6 DEF first, length, end
<1>5. QED
  BY <1>3, <1>4

(* One turn of the encoder's loop.                                         *)
PutsMore(f, k, block, type) ==
  LET x == CoefficientSymbols(f[k].last_was_zero, block[k])
      p == Placed(x, type, k, f[k].context)
  IN  /\ f[k] \in Putters /\ x \in Seq(TokenSymbols) /\ p \in Seq(Symbols) /\ Len(p) = Len(x)
      /\ f[k + 1].out = f[k].out \o p /\ f[k + 1].context = ContextAfter(Magnitude(block[k]))
      /\ f[k + 1].last_was_zero = (Magnitude(block[k]) = 0)

(* Each turn writes behind what there is.                                  *)
LEMMA PutGrows ==
  ASSUME NEW block \in Codable, NEW type \in BlockTypes, NEW context \in Nat, NEW f, PutRun(f, block, type, context),
         NEW k \in Nat, k >= FirstIndex(type), k < N
  PROVE  PutsMore(f, k, block, type)
<1> DEFINE s == f[k]
           x == CoefficientSymbols(s.last_was_zero, block[k])
           p == Placed(x, type, k, s.context)
           first == FirstIndex(type)
<1>0. N \in Nat /\ first \in Nat /\ k >= first
  BY ResiduesAssumption DEF FirstIndex
<1>1. k \in 0 .. N /\ k + 1 \in 1 .. N /\ k + 1 > first /\ (k + 1) - 1 = k /\ k \in 0 .. N - 1
  <2> HIDE DEF first
  <2>1. QED
    BY <1>0
<1>2. s \in Putters /\ f[k + 1] = PutCoefficient(s, k, block, type)
  <2>1. \A i \in 0 .. N : f[i] \in Putters
    BY Zenon DEF PutRun
  <2>2. \A i \in 1 .. N : i > first => f[i] = PutCoefficient(f[i - 1], i - 1, block, type)
    BY Zenon DEF PutRun
  <2>3. f[k + 1] = PutCoefficient(f[(k + 1) - 1], (k + 1) - 1, block, type)
    BY <1>1, <2>2, Zenon
  <2>4. QED
    BY <1>1, <2>1, <2>3, Zenon
<1> HIDE DEF s
<1>3. block[k] \in Int /\ Magnitude(block[k]) <= MaxLevel /\ s.last_was_zero \in BOOLEAN /\ s.context \in Nat
  <2>1. k \in Positions
    BY <1>1 DEF Positions
  <2>2. QED
    BY <1>2, <2>1 DEF Codable, Putters
<1>4. x \in Seq(TokenSymbols)
  BY <1>3, CoefficientTyped
<1>5. f[k + 1] = [out |-> s.out \o p, context |-> ContextAfter(Magnitude(block[k])), last_was_zero |-> (Magnitude(block[k]) = 0)]
  BY <1>2, PutForm, Zenon
<1> HIDE DEF x
<1>6. p \in Seq(Symbols) /\ Len(p) = Len(x)
  BY <1>3, <1>4, PlacedSymbols
<1> DEFINE o == s.out \o p
           c == ContextAfter(Magnitude(block[k]))
           z == Magnitude(block[k]) = 0
           r == f[k + 1]
<1>7. r.out = o /\ r.context = c /\ r.last_was_zero = z
  <2>1. r = [out |-> o, context |-> c, last_was_zero |-> z]
    BY <1>5
  <2> HIDE DEF o, c, z, r
  <2>2. QED
    BY <2>1
<1>8. QED
  BY <1>2, <1>4, <1>6, <1>7, Zenon DEF x, s, PutsMore

(* What is said of a block is said of its first coefficients.              *)
LEMMA FirstsSaid ==
  ASSUME NEW q \in Seq(Symbols), NEW k0 \in Nat, NEW block \in Codable, NEW type \in BlockTypes, NEW context \in Nat,
         NEW f, PutRun(f, block, type, context), NEW end \in FirstIndex(type) .. N, Says(q, k0, f[end].out)
  PROVE  \A k \in FirstIndex(type) .. end : Says(q, k0, f[k].out)
<1> DEFINE first == FirstIndex(type)
           said == {m \in Nat : end - m >= first => Says(q, k0, f[end - m].out)}
<1>0. N \in Nat /\ first \in Nat /\ end \in first .. N
  BY ResiduesAssumption DEF FirstIndex
<1>1. 0 \in said
  <2>1. end - 0 = end
    <3> HIDE DEF first
    <3>1. QED
      BY <1>0
  <2>2. QED
    BY <2>1
<1>2. ASSUME NEW m \in Nat, m \in said PROVE m + 1 \in said
  <2> SUFFICES ASSUME end - (m + 1) >= first PROVE Says(q, k0, f[end - (m + 1)].out)
    OBVIOUS
  <2> DEFINE k == end - (m + 1)
             p == Placed(CoefficientSymbols(f[k].last_was_zero, block[k]), type, k, f[k].context)
  <2>1. end - m = k + 1 /\ k \in Nat /\ k >= first /\ k < N /\ end - m >= first
    <3> HIDE DEF first
    <3>1. QED
      BY <1>0
  <2>2. Says(q, k0, f[k + 1].out)
    <3>1. Says(q, k0, f[end - m].out)
      BY <1>2, <2>1
    <3>2. QED
      BY <2>1, <3>1, Zenon
  <2> HIDE DEF k
  <2>3. f[k] \in Putters /\ p \in Seq(Symbols) /\ f[k + 1].out = f[k].out \o p
    <3>1. PutsMore(f, k, block, type)
      BY <2>1, PutGrows
    <3>2. QED
      BY <3>1, Zenon DEF PutsMore
  <2> HIDE DEF p
  <2>4. f[k].out \in Seq(Symbols)
    BY <2>3 DEF Putters
  <2>5. Says(q, k0, f[k].out \o p)
    BY <2>2, <2>3, Zenon
  <2>6. Says(q, k0, f[k].out)
    <3> DEFINE o == f[k].out
    <3> HIDE DEF o
    <3>1. o \in Seq(Symbols) /\ Says(q, k0, o \o p)
      BY <2>4, <2>5 DEF o
    <3>2. Says(q, k0, o)
      BY <2>3, <3>1, SaysParts
    <3>3. QED
      BY <3>2 DEF o
  <2>7. QED
    BY <2>6 DEF k
<1>3. \A m \in Nat : m \in said
  <2> HIDE DEF said
  <2>1. QED
    BY <1>1, <1>2, SetInduction
<1>4. ASSUME NEW k \in first .. end PROVE Says(q, k0, f[k].out)
  <2> HIDE DEF first
  <2>1. end - k \in Nat /\ end - (end - k) = k /\ k >= first
    BY <1>0
  <2>2. end - k \in said
    BY <1>3, <2>1, Zenon
  <2>3. end - (end - k) >= first => Says(q, k0, f[end - (end - k)].out)
    BY <2>2
  <2>4. QED
    BY <2>1, <2>3, Zenon
<1>5. QED
  BY <1>4

(* Encoder and decoder before coefficient n.                               *)
InStep(p, s, q, k, block, n) ==
  /\ Reads(s.d, q, k + Len(p.out)) /\ ~s.ended /\ s.context = p.context /\ s.last_was_zero = p.last_was_zero
  /\ s.block = [i \in Positions |-> IF i < n THEN block[i] ELSE 0]

(* A turn of each keeps them in step.                                      *)
LEMMA StaysInStep ==
  ASSUME NEW q \in Seq(Symbols), NEW k0 \in Nat, NEW block \in Codable, NEW type \in BlockTypes, NEW context \in Nat,
         NEW f, PutRun(f, block, type, context), NEW d, NEW g, AskRun(g, d, type, context),
         NEW k \in Nat, k >= FirstIndex(type), k < N, InStep(f[k], g[k], q, k0, block, k),
         Says(q, k0, f[k + 1].out)
  PROVE  InStep(f[k + 1], g[k + 1], q, k0, block, k + 1)
<1> DEFINE first == FirstIndex(type)
           s == g[k]
           r == g[k + 1]
           value == block[k]
           o == f[k].out
           z == f[k].last_was_zero
           c == f[k].context
           x == CoefficientSymbols(z, value)
           p == Placed(x, type, k, c)
<1>0. N \in Nat /\ first \in Nat /\ k >= first
  BY ResiduesAssumption DEF FirstIndex
<1>1. k \in 0 .. N /\ k + 1 \in 1 .. N /\ k + 1 > first /\ (k + 1) - 1 = k /\ k \in 0 .. N - 1
  <2> HIDE DEF first
  <2>1. QED
    BY <1>0
<1>2. s \in Parsers /\ r = AskCoefficient(s, k, type)
  <2>1. \A i \in 0 .. N : g[i] \in Parsers
    BY Zenon DEF AskRun
  <2>2. \A i \in 1 .. N : i > first => g[i] = AskCoefficient(g[i - 1], i - 1, type)
    BY Zenon DEF AskRun
  <2>3. g[k + 1] = AskCoefficient(g[(k + 1) - 1], (k + 1) - 1, type)
    BY <1>1, <2>2, Zenon
  <2>4. QED
    BY <1>1, <2>1, <2>3, Zenon
<1>3. value \in Int /\ Magnitude(value) <= MaxLevel /\ k \in Positions
  <2>1. k \in Positions
    BY <1>1 DEF Positions
  <2>2. QED
    BY <2>1 DEF Codable
<1>4. /\ f[k] \in Putters /\ x \in Seq(TokenSymbols) /\ p \in Seq(Symbols) /\ Len(p) = Len(x)
      /\ f[k + 1].out = o \o p /\ f[k + 1].context = ContextAfter(Magnitude(value))
      /\ f[k + 1].last_was_zero = (Magnitude(value) = 0)
  <2>1. PutsMore(f, k, block, type)
    BY PutGrows
  <2>2. QED
    BY <2>1, Zenon DEF PutsMore
<1>5. o \in Seq(Symbols) /\ c \in Nat /\ z \in BOOLEAN
  BY <1>4 DEF Putters
<1>6. /\ Reads(s.d, q, k0 + Len(o)) /\ ~s.ended /\ s.context = c /\ s.last_was_zero = z
      /\ s.block = [i \in Positions |-> IF i < k THEN block[i] ELSE 0]
  BY Zenon DEF InStep
<1> HIDE DEF s, r, value, o, c, z, p
<1>7. Says(q, k0 + Len(o), p) /\ Len(o \o p) = Len(o) + Len(p)
  <2>1. Says(q, k0, o \o p)
    BY <1>4, Zenon
  <2>2. p \in Seq(Symbols)
    BY <1>4
  <2>3. QED
    BY ONLY q \in Seq(Symbols), k0 \in Nat, <1>5, <2>1, <2>2, SaysParts
<1> DEFINE j == k0 + Len(o)
<1>8. j \in Nat /\ k0 + Len(o \o p) = j + Len(x)
  <2>1. Len(o) \in Nat /\ Len(x) \in Nat
    BY <1>4, <1>5
  <2> DEFINE l == Len(x)
             m == Len(o \o p)
             n == Len(o)
  <2>2. m = n + l /\ n \in Nat /\ l \in Nat
    BY <1>4, <1>7, <2>1
  <2> HIDE DEF l, m, n, x
  <2>3. k0 + n \in Nat /\ k0 + m = (k0 + n) + l
    BY <2>2
  <2>4. QED
    BY <2>3, Zenon DEF l, m, n
<1>9. Reads(s.d, q, j) /\ Says(q, j, p)
  BY <1>6, <1>7
<1> HIDE DEF j
<1>10. SaysToken(q, j, x, LabelsAt(type, k, c))
  <2> HIDE DEF x
  <2>1. Says(q, j, Placed(x, type, k, c))
    BY <1>9 DEF p
  <2>2. QED
    BY <1>4, <1>5, <1>8, <2>1, PlacedSaid
<1>11. CoefficientKnown(r, s, q, j + Len(x), k, value)
  <2>1. x = CoefficientSymbols(s.last_was_zero, value)
    BY <1>6, Zenon
  <2>2. SaysToken(q, j, CoefficientSymbols(s.last_was_zero, value), LabelsAt(type, k, s.context))
    BY <1>6, <1>10, <2>1, Zenon
  <2>3. CoefficientKnown(AskCoefficient(s, k, type), s, q,
                         j + Len(CoefficientSymbols(s.last_was_zero, value)), k, value)
    BY <1>2, <1>3, <1>6, <1>8, <1>9, <2>2, CoefficientReads
  <2>4. QED
    BY <1>2, <2>1, <2>3, Zenon
<1> HIDE DEF x
<1>12. /\ Reads(r.d, q, j + Len(x)) /\ ~r.ended /\ r.last_was_zero = (value = 0)
       /\ r.context = ContextAfter(Magnitude(value))
       /\ r.block = IF value = 0 THEN s.block ELSE [s.block EXCEPT ![k] = value]
  BY <1>11, Zenon DEF CoefficientKnown
<1>13. r.block = [i \in Positions |-> IF i < k + 1 THEN block[i] ELSE 0]
  <2> DEFINE old == [i \in Positions |-> IF i < k THEN block[i] ELSE 0]
             new == [i \in Positions |-> IF i < k + 1 THEN block[i] ELSE 0]
  <2>1. ASSUME NEW i \in Positions PROVE new[i] = IF i = k THEN value ELSE old[i]
    <3>1. i \in Nat
      BY DEF Positions
    <3>2. QED
      BY <3>1 DEF value
  <2>2. CASE value = 0
    <3>1. old[k] = 0
      BY <1>3
    <3>2. \A i \in Positions : new[i] = old[i]
      BY <2>1, <2>2, <3>1
    <3>3. new = old
      BY <3>2
    <3>4. r.block = old
      BY <1>6, <1>12, <2>2
    <3>5. QED
      BY <3>3, <3>4
  <2>3. CASE value # 0
    <3>1. r.block = [old EXCEPT ![k] = value]
      BY <1>6, <1>12, <2>3
    <3>2. \A i \in Positions : [old EXCEPT ![k] = value][i] = IF i = k THEN value ELSE old[i]
      OBVIOUS
    <3>3. \A i \in Positions : [old EXCEPT ![k] = value][i] = new[i]
      BY <2>1, <3>2
    <3>4. [old EXCEPT ![k] = value] = new
      BY <3>3
    <3>5. QED
      BY <3>1, <3>4
  <2>4. QED
    BY <2>2, <2>3
<1>14. f[k + 1].last_was_zero = (value = 0)
  BY <1>3, <1>4, MagnitudeFacts
<1>15. Reads(r.d, q, k0 + Len(f[k + 1].out))
  <2>1. k0 + Len(f[k + 1].out) = j + Len(x)
    BY <1>4, <1>8, Zenon
  <2>2. QED
    BY <1>12, <2>1, Zenon
<1>16. r.last_was_zero = f[k + 1].last_was_zero
  BY <1>12, <1>14
<1>17. QED
  BY <1>4, <1>12, <1>13, <1>15, <1>16, Zenon DEF InStep, r

(* A block that is not full ends with one symbol, a full one with none.    *)
LEMMA EndTyped ==
  ASSUME NEW block \in Codable, NEW type \in BlockTypes, NEW context \in Nat
  PROVE  /\ EndSymbols(block, type, context) \in Seq(Symbols)
         /\ CodedLength(block, type) < N =>
              /\ Len(EndSymbols(block, type, context)) = 1
              /\ EndSymbols(block, type, context) = Placed(<<Symbol(FALSE, <<0>>)>>, type, EndOf(block, type), context)
              /\ <<Symbol(FALSE, <<0>>)>> \in Seq(TokenSymbols)
         /\ ~(CodedLength(block, type) < N) => EndSymbols(block, type, context) = << >>
<1> DEFINE y == <<Symbol(FALSE, <<0>>)>>
           end == EndOf(block, type)
           short == CodedLength(block, type) < N
<1>1. y \in Seq(TokenSymbols) /\ Len(y) = 1
  <2>1. 0 \in Nodes /\ FALSE \in BOOLEAN
    BY DEF Nodes
  <2>2. QED
    BY <2>1, NodeSymbolTyped, Zenon
<1>2. end \in Nat
  <2> DEFINE first == FirstIndex(type)
  <2>1. end \in first .. N /\ first \in {0, 1}
    BY LengthFacts DEF Codable
  <2>2. N \in Nat
    BY ResiduesAssumption
  <2> HIDE DEF end, first
  <2>3. QED
    BY ONLY <2>1, <2>2
<1>3. EndSymbols(block, type, context) = IF short THEN Placed(y, type, end, context) ELSE << >>
  BY Zenon DEF EndSymbols
<1> HIDE DEF y, end, short
<1>4. Placed(y, type, end, context) \in Seq(Symbols) /\ Len(Placed(y, type, end, context)) = Len(y)
  BY <1>1, <1>2, PlacedSymbols
<1>5. << >> \in Seq(Symbols)
  OBVIOUS
<1>6. /\ EndSymbols(block, type, context) \in Seq(Symbols)
      /\ short => Len(EndSymbols(block, type, context)) = 1 /\ EndSymbols(block, type, context) = Placed(y, type, end, context)
      /\ ~short => EndSymbols(block, type, context) = << >>
  <2> DEFINE p == Placed(y, type, end, context)
             e == EndSymbols(block, type, context)
  <2>1. e = IF short THEN p ELSE << >>
    BY <1>3
  <2>2. p \in Seq(Symbols) /\ Len(p) = 1
    <3> HIDE DEF p, e
    <3>1. p \in Seq(Symbols) /\ Len(p) = Len(y)
      BY <1>4 DEF p
    <3>2. QED
      BY <1>1, <3>1, Zenon
  <2> HIDE DEF p, e
  <2>3. short => e = p
    BY <2>1, Zenon
  <2>4. ~short => e = << >>
    BY <2>1, Zenon
  <2>5. e \in Seq(Symbols) /\ (short => Len(e) = 1 /\ e = p) /\ (~short => e = << >>)
    BY <1>5, <2>2, <2>3, <2>4, Zenon
  <2>6. QED
    BY <2>5, Zenon DEF p, e
<1>7. QED
  BY <1>1, <1>6, Zenon DEF y, end, short

(* The last coefficient written is not zero, so the decoder asks whether   *)
(* the block goes on.                                                      *)
LEMMA RunEnd ==
  ASSUME NEW block \in Codable, NEW type \in BlockTypes, NEW context \in Nat, NEW f, PutRun(f, block, type, context)
  PROVE  LET p == f[EndOf(block, type)] IN p \in Putters /\ ~p.last_was_zero
<1> DEFINE first == FirstIndex(type)
           end == EndOf(block, type)
           p == f[end]
<1>1. end \in first .. N /\ first \in {0, 1} /\ (end > first => block[end - 1] # 0)
  BY LengthFacts DEF Codable
<1>0. N \in Nat /\ N >= 2
  BY ResiduesAssumption
<1>2. \A k \in 0 .. N : f[k] \in Putters
  BY Zenon DEF PutRun
<1>3. \A k \in 0 .. N : k <= first => f[k] = FirstPutter(context)
  BY Zenon DEF PutRun
<1> HIDE DEF end, first
<1>4. end \in 0 .. N
  BY <1>0, <1>1
<1>5. CASE end = first
  <2>1. p = FirstPutter(context)
    <3>1. end <= first
      BY <1>0, <1>1, <1>5
    <3>2. QED
      BY <1>3, <1>4, <3>1
  <2>2. ~FirstPutter(context).last_was_zero
    BY DEF FirstPutter
  <2>3. QED
    BY <1>2, <1>4, <2>1, <2>2 DEF end
<1>6. CASE end # first
  <2> DEFINE k == end - 1
  <2>1. k \in Nat /\ k >= first /\ k < N /\ k + 1 = end /\ end > first /\ k \in 0 .. N - 1
    BY <1>0, <1>1, <1>6
  <2>2. block[k] # 0
    BY <1>1, <2>1
  <2> HIDE DEF k
  <2>3. PutsMore(f, k, block, type)
    BY <2>1, PutGrows DEF first
  <2>4. f[k + 1].last_was_zero = (Magnitude(block[k]) = 0)
    BY <2>3, Zenon DEF PutsMore
  <2>5. block[k] \in Int
    <3>1. k \in Positions
      BY <2>1 DEF Positions
    <3>2. QED
      BY <3>1 DEF Codable
  <2>6. Magnitude(block[k]) # 0
    BY <2>2, <2>5, MagnitudeFacts
  <2>7. ~p.last_was_zero
    BY <2>1, <2>4, <2>6
  <2>8. QED
    BY <1>2, <1>4, <2>7 DEF end
<1>7. QED
  BY <1>5, <1>6

(* What is written of a block.                                             *)
LEMMA BlockTyped ==
  ASSUME NEW block \in Codable, NEW type \in BlockTypes, NEW context \in Nat
  PROVE  BlockTokens(block, type, context) \in Seq(Symbols)
<1>1. PICK f : /\ PutRun(f, block, type, context)
               /\ BlockTokens(block, type, context) =
                    f[EndOf(block, type)].out \o EndSymbols(block, type, f[EndOf(block, type)].context)
  BY PutsIterate, Zenon
<1> DEFINE p == f[EndOf(block, type)]
<1>2. p \in Putters
  BY <1>1, RunEnd
<1> HIDE DEF p
<1>3. p.out \in Seq(Symbols) /\ p.context \in Nat
  BY <1>2 DEF Putters
<1>4. EndSymbols(block, type, p.context) \in Seq(Symbols)
  BY <1>3, EndTyped
<1>5. p.out \o EndSymbols(block, type, p.context) \in Seq(Symbols)
  BY <1>3, <1>4, ConcatParts
<1>6. QED
  BY <1>1, <1>5, Zenon DEF p

(* Up to the end of the coefficients, encoder and decoder are in step.     *)
LEMMA InStepToEnd ==
  ASSUME NEW q \in Seq(Symbols), NEW k0 \in Nat, NEW block \in Codable, NEW type \in BlockTypes, NEW context \in Nat,
         FirstIndex(type) = 1 => block[0] = 0,
         NEW f, PutRun(f, block, type, context), NEW d, Reads(d, q, k0), NEW g, AskRun(g, d, type, context),
         NEW end, end = EndOf(block, type), Says(q, k0, f[end].out)
  PROVE  InStep(f[end], g[end], q, k0, block, end)
<1> DEFINE first == FirstIndex(type)
           Agree(k) == InStep(f[k], g[k], q, k0, block, k)
           agree == {m \in Nat : first + m <= end => Agree(first + m)}
<1>0. N \in Nat /\ first \in {0, 1} /\ end \in first .. N /\ 0 \in Positions /\ N >= 2
  <2>1. N \in Nat /\ N >= 2
    BY ResiduesAssumption
  <2>2. first \in {0, 1} /\ end \in first .. N
    BY LengthFacts DEF Codable
  <2>3. QED
    BY <2>1, <2>2 DEF Positions
<1>1. \A k \in first .. end : Says(q, k0, f[k].out)
  BY <1>0, FirstsSaid
<1>2. 0 \in agree
  <2>1. first + 0 = first /\ first \in 0 .. N /\ first <= first
    <3> HIDE DEF first
    <3>1. QED
      BY <1>0
  <2>2. f[first] = FirstPutter(context)
    <3>1. \A k \in 0 .. N : k <= first => f[k] = FirstPutter(context)
      BY Zenon DEF PutRun
    <3>2. QED
      BY <2>1, <3>1, Zenon
  <2>3. g[first] = FirstParser(d, context)
    <3>1. \A k \in 0 .. N : k <= first => g[k] = FirstParser(d, context)
      BY Zenon DEF AskRun
    <3>2. QED
      BY <2>1, <3>1, Zenon
  <2>4. Zeros = [i \in Positions |-> IF i < first THEN block[i] ELSE 0]
    <3>1. ASSUME NEW i \in Positions, i < first PROVE block[i] = 0
      <4>1. i \in Nat
        BY DEF Positions
      <4>2. first = 1 /\ i = 0
        <5> HIDE DEF first
        <5>1. QED
          BY <1>0, <3>1, <4>1
      <4>3. QED
        BY <4>2
    <3> HIDE DEF first
    <3>2. \A i \in Positions : (IF i < first THEN block[i] ELSE 0) = 0
      BY <3>1
    <3>3. QED
      BY <3>2 DEF Zeros
  <2>5. FirstPutter(context).out = << >> /\ FirstPutter(context).context = context /\ FirstPutter(context).last_was_zero = FALSE
    BY DEF FirstPutter
  <2>6. /\ FirstParser(d, context).d = d /\ FirstParser(d, context).block = Zeros /\ FirstParser(d, context).context = context
        /\ FirstParser(d, context).last_was_zero = FALSE /\ FirstParser(d, context).ended = FALSE
    BY DEF FirstParser
  <2>7. Reads(d, q, k0 + Len(FirstPutter(context).out))
    <3>1. k0 + Len(<< >>) = k0
      OBVIOUS
    <3>2. QED
      BY <2>5, <3>1
  <2> DEFINE p == FirstPutter(context)
             s == FirstParser(d, context)
             z == [i \in Positions |-> IF i < first THEN block[i] ELSE 0]
  <2>8. /\ Reads(s.d, q, k0 + Len(p.out)) /\ ~s.ended /\ s.context = p.context /\ s.last_was_zero = p.last_was_zero
        /\ s.block = z
    BY <2>4, <2>5, <2>6, <2>7
  <2>9. InStep(p, s, q, k0, block, first)
    <3> HIDE DEF p, s
    <3>1. QED
      BY <2>8, Zenon DEF InStep
  <2>10. Agree(first)
    BY <2>2, <2>3, <2>9, Zenon
  <2> HIDE DEF Agree
  <2>11. QED
    BY <2>1, <2>10
<1>3. ASSUME NEW m \in Nat, m \in agree PROVE m + 1 \in agree
  <2> SUFFICES ASSUME first + (m + 1) <= end PROVE Agree(first + (m + 1))
    OBVIOUS
  <2> DEFINE k == first + m
  <2>1. k \in Nat /\ k >= first /\ k < N /\ k <= end /\ k + 1 \in first .. end /\ first + (m + 1) = k + 1
    <3> HIDE DEF first
    <3>1. QED
      BY <1>0
  <2>2. Agree(k)
    <3> HIDE DEF Agree
    <3>1. QED
      BY <1>3, <2>1
  <2>3. Says(q, k0, f[k + 1].out)
    BY <1>1, <2>1
  <2> HIDE DEF k
  <2>4. InStep(f[k + 1], g[k + 1], q, k0, block, k + 1)
    BY <2>1, <2>2, <2>3, StaysInStep
  <2>5. QED
    BY <2>1, <2>4, Zenon
<1>4. \A m \in Nat : m \in agree
  <2> HIDE DEF agree
  <2>1. QED
    BY <1>2, <1>3, SetInduction
<1>5. end - first \in Nat /\ first + (end - first) = end /\ end <= end
  <2> HIDE DEF first
  <2>1. QED
    BY <1>0
<1>6. end - first \in agree
  BY <1>4, <1>5, Zenon
<1>7. Agree(first + (end - first))
  <2> HIDE DEF Agree
  <2>1. QED
    BY <1>5, <1>6
<1>8. QED
  BY <1>5, <1>7, Zenon

(* The symbol that ends a block.                                           *)
LEMMA EndReads ==
  ASSUME NEW q \in Seq(Symbols), NEW j \in Nat, NEW s \in Parsers, ~s.ended, ~s.last_was_zero, Reads(s.d, q, j),
         NEW index, NEW type, SaysToken(q, j, <<Symbol(FALSE, << 0 >>)>>, LabelsAt(type, index, s.context)),
         NEW r, r = AskCoefficient(s, index, type)
  PROVE  r.ended /\ Reads(r.d, q, j + 1) /\ r.block = s.block
<1> DEFINE labels == LabelsAt(type, index, s.context)
           open == IF s.last_was_zero THEN [s.d EXCEPT !.bit = TRUE] ELSE Ask(s.d, labels[0])
           nonzero == Ask(open, labels[1])
           token == AskToken(nonzero, labels)
           sign == Ask(token, Sign)
           no == FALSE
<1>1. r = IF s.ended THEN s
          ELSE IF ~open.bit THEN [s EXCEPT !.d = open, !.ended = TRUE]
          ELSE IF ~nonzero.bit THEN [s EXCEPT !.d = nonzero, !.last_was_zero = TRUE, !.context = 0]
          ELSE CoefficientRead(s, index, token, sign)
  BY Zenon DEF AskCoefficient, AskSign, LabelsAt
<1>2. s.ended \in BOOLEAN /\ s.last_was_zero \in BOOLEAN /\ Len(q) \in Nat /\ no \in BOOLEAN
  BY DEF Parsers
<1>3. SaysToken(q, j, <<Symbol(no, <<0>>)>>, labels)
  BY Zenon
<1> HIDE DEF no, labels
<1>4. AtNode(q, j, labels, 0) /\ q[j + 1].bit = no
  BY <1>2, <1>3, SaysOneNode
<1>5. open = Ask(s.d, labels[0])
  BY <1>2, Zenon
<1>6. Reads(open, q, j + 1) /\ open.bit = q[j + 1].bit
  BY <1>4, <1>5, NodeReads
<1> HIDE DEF open, nonzero, token, sign
<1>7. r = [s EXCEPT !.d = open, !.ended = TRUE]
  BY <1>1, <1>2, <1>4, <1>6, Zenon DEF no
<1>8. QED
  BY <1>6, <1>7 DEF Parsers

(* After it nothing is read.                                               *)
LEMMA StaysEnded ==
  ASSUME NEW d, NEW type, NEW context, NEW g, AskRun(g, d, type, context),
         NEW k \in FirstIndex(type) .. N, g[k].ended
  PROVE  g[N] = g[k]
<1> DEFINE first == FirstIndex(type)
           same == {m \in Nat : k + m <= N => g[k + m] = g[k]}
<1>0. N \in Nat /\ first \in Nat /\ k \in first .. N
  BY ResiduesAssumption DEF FirstIndex
<1>1. 0 \in same
  <2>1. k + 0 = k
    <3> HIDE DEF first
    <3>1. QED
      BY <1>0
  <2>2. QED
    BY <2>1
<1>2. ASSUME NEW m \in Nat, m \in same PROVE m + 1 \in same
  <2> SUFFICES ASSUME k + (m + 1) <= N PROVE g[k + (m + 1)] = g[k]
    OBVIOUS
  <2> DEFINE j == k + m
  <2>1. k + (m + 1) = j + 1 /\ j + 1 \in 1 .. N /\ j + 1 > first /\ (j + 1) - 1 = j /\ j <= N
    <3> HIDE DEF first
    <3>1. QED
      BY <1>0
  <2>2. g[j] = g[k]
    BY <1>2, <2>1
  <2> HIDE DEF j
  <2>3. g[j + 1] = AskCoefficient(g[j], j, type)
    <3>1. \A i \in 1 .. N : i > first => g[i] = AskCoefficient(g[i - 1], i - 1, type)
      BY Zenon DEF AskRun
    <3>2. g[j + 1] = AskCoefficient(g[(j + 1) - 1], (j + 1) - 1, type)
      BY <2>1, <3>1, Zenon
    <3>3. QED
      BY <2>1, <3>2, Zenon
  <2>4. g[j].ended
    BY <2>2, Zenon
  <2>5. AskCoefficient(g[j], j, type) = g[j]
    BY <2>4, Zenon DEF AskCoefficient
  <2>6. QED
    BY <2>1, <2>2, <2>3, <2>5, Zenon
<1>3. \A m \in Nat : m \in same
  <2> HIDE DEF same
  <2>1. QED
    BY <1>1, <1>2, SetInduction
<1>4. N - k \in Nat /\ k + (N - k) = N /\ N <= N
  <2> HIDE DEF first
  <2>1. QED
    BY <1>0
<1>5. N - k \in same
  BY <1>3, <1>4, Zenon
<1>6. QED
  BY <1>4, <1>5

(* Block::serialize_tokens and BlockParser: the decoder reads the block    *)
(* back, and reads no more of q than was written.                          *)
BlockRead(r, q, k, block) == Reads(r.d, q, k) /\ r.block = block

(* Encoder and decoder of a block with the same context.                   *)
LEMMA BlockReads ==
  ASSUME NEW q \in Seq(Symbols), NEW k0 \in Nat, NEW block \in Codable, NEW type \in BlockTypes, NEW context \in Nat,
         FirstIndex(type) = 1 => block[0] = 0, NEW d, Reads(d, q, k0),
         Says(q, k0, BlockTokens(block, type, context))
  PROVE  BlockRead(AskBlock(d, type, context), q, k0 + Len(BlockTokens(block, type, context)), block)
<1> DEFINE end == EndOf(block, type)
           first == FirstIndex(type)
           r == AskBlock(d, type, context)
<1>1. PICK f : /\ PutRun(f, block, type, context)
               /\ BlockTokens(block, type, context) = f[end].out \o EndSymbols(block, type, f[end].context)
  BY PutsIterate, Zenon
<1>2. PICK g : AskRun(g, d, type, context) /\ r = g[N]
  <2>1. d \in Readers
    BY DEF Reads
  <2>2. QED
    BY <2>1, AsksIterate, Zenon
<1> DEFINE o == f[end].out
           c == f[end].context
           e == EndSymbols(block, type, c)
           y == <<Symbol(FALSE, <<0>>)>>
           short == CodedLength(block, type) < N
<1>3. f[end] \in Putters /\ ~f[end].last_was_zero
  BY <1>1, RunEnd
<1>4. o \in Seq(Symbols) /\ c \in Nat
  BY <1>3 DEF Putters
<1>5. /\ e \in Seq(Symbols)
      /\ short => Len(e) = 1 /\ e = Placed(y, type, end, c) /\ y \in Seq(TokenSymbols)
      /\ ~short => e = << >>
  <2> HIDE DEF c
  <2>1. c \in Nat
    BY <1>4
  <2>2. QED
    BY <2>1, EndTyped
<1>6. /\ end \in first .. N /\ CodedLength(block, type) \in 0 .. N /\ (short => end < N) /\ (~short => end = N)
      /\ first \in {0, 1} /\ \A i \in end .. N - 1 : block[i] = 0
  <2>1. block \in [Positions -> Int]
    BY DEF Codable
  <2>2. /\ CodedLength(block, type) \in 0 .. N /\ end \in first .. N
        /\ first \in {0, 1} /\ CodedLength(block, type) <= end
        /\ CodedLength(block, type) < N => end < N
        /\ \A i \in end .. N - 1 : block[i] = 0
    BY <2>1, LengthFacts
  <2>3. N \in Nat
    BY ResiduesAssumption
  <2> DEFINE l == CodedLength(block, type)
  <2> HIDE DEF end, first, l
  <2>4. l \in 0 .. N /\ end \in first .. N /\ first \in {0, 1} /\ l <= end /\ (l < N => end < N)
    BY <2>2 DEF l
  <2>5. ~(l < N) => end = N
    BY <2>3, <2>4
  <2>6. QED
    BY <2>2, <2>5 DEF l
<1>7. N \in Nat /\ N >= 2
  BY ResiduesAssumption
<1>8. BlockTokens(block, type, context) = o \o e
  BY <1>1
<1> HIDE DEF o, e
<1>9. Says(q, k0, o) /\ Says(q, k0 + Len(o), e) /\ Len(o \o e) = Len(o) + Len(e)
  <2>1. Says(q, k0, o \o e)
    BY <1>8, Zenon
  <2>2. o \in Seq(Symbols) /\ e \in Seq(Symbols)
    BY <1>4, <1>5
  <2>3. QED
    BY ONLY q \in Seq(Symbols), k0 \in Nat, <2>1, <2>2, SaysParts
<1> DEFINE s == g[end]
           j == k0 + Len(o)
<1>10. InStep(f[end], s, q, k0, block, end)
  <2>1. Says(q, k0, f[end].out)
    BY <1>9 DEF o
  <2>2. QED
    BY <1>1, <1>2, <2>1, InStepToEnd
<1>11. /\ Reads(s.d, q, j) /\ ~s.ended /\ s.context = c /\ s.last_was_zero = f[end].last_was_zero
       /\ s.block = [i \in Positions |-> IF i < end THEN block[i] ELSE 0]
  BY <1>10, Zenon DEF InStep, o
<1>12. s.block = block
  <2>1. \A i \in Positions : (IF i < end THEN block[i] ELSE 0) = block[i]
    <3> SUFFICES ASSUME NEW i \in Positions PROVE (IF i < end THEN block[i] ELSE 0) = block[i]
      BY Zenon
    <3>1. i \in 0 .. N - 1
      BY DEF Positions
    <3> HIDE DEF end, first
    <3>2. i < end \/ i \in end .. N - 1
      BY <1>6, <1>7, <3>1
    <3>3. QED
      BY <1>6, <3>2
  <2>2. block = [i \in Positions |-> block[i]]
    BY DEF Codable
  <2> HIDE DEF end
  <2>3. [i \in Positions |-> IF i < end THEN block[i] ELSE 0] = [i \in Positions |-> block[i]]
    BY <2>1
  <2>4. QED
    BY <1>11, <2>2, <2>3
<1>13. s \in Parsers
  <2>1. end \in 0 .. N
    <3> HIDE DEF end, first
    <3>1. QED
      BY <1>6, <1>7
  <2>2. \A k \in 0 .. N : g[k] \in Parsers
    BY <1>2, Zenon DEF AskRun
  <2>3. QED
    BY <2>1, <2>2, Zenon
<1>14. j \in Nat /\ Len(o) \in Nat /\ k0 + (Len(o) + 1) = j + 1 /\ k0 + (Len(o) + 0) = j
  <2>1. Len(o) \in Nat
    BY <1>4
  <2> DEFINE n == Len(o)
  <2> HIDE DEF n
  <2>2. QED
    BY <2>1 DEF n
<1>15. CASE short
  <2>1. SaysToken(q, j, y, LabelsAt(type, end, s.context))
    <3> HIDE DEF end, y, s, c
    <3>1. end \in Nat /\ c \in Nat /\ y \in Seq(TokenSymbols)
      <4> HIDE DEF first
      <4>1. QED
        BY <1>4, <1>5, <1>6, <1>15
    <3>2. Says(q, j, Placed(y, type, end, c))
      BY <1>5, <1>9, <1>15, Zenon
    <3> HIDE DEF j
    <3>3. SaysToken(q, j, y, LabelsAt(type, end, c))
      BY <1>14, <3>1, <3>2, PlacedSaid
    <3>4. QED
      BY <1>11, <3>3, Zenon
  <2>2. g[end + 1] = AskCoefficient(s, end, type) /\ end + 1 \in first .. N
    <3> HIDE DEF end, first, s
    <3>1. end + 1 \in 1 .. N /\ end + 1 > first /\ (end + 1) - 1 = end /\ end + 1 \in first .. N
      BY <1>6, <1>7, <1>15
    <3>2. \A i \in 1 .. N : i > first => g[i] = AskCoefficient(g[i - 1], i - 1, type)
      BY <1>2, Zenon DEF AskRun, first
    <3>3. g[end + 1] = AskCoefficient(g[(end + 1) - 1], (end + 1) - 1, type)
      BY <3>1, <3>2, Zenon
    <3>4. QED
      BY <3>1, <3>3, Zenon DEF s
  <2> DEFINE t == g[end + 1]
  <2>3. t.ended /\ Reads(t.d, q, j + 1) /\ t.block = s.block
    <3> HIDE DEF s, j, end
    <3>1. ~s.ended /\ ~s.last_was_zero
      BY <1>3, <1>11, Zenon
    <3>2. t = AskCoefficient(s, end, type) /\ Reads(s.d, q, j) /\ j \in Nat
      BY <1>11, <1>14, <2>2, Zenon
    <3> HIDE DEF t
    <3>3. QED
      BY <1>13, <2>1, <3>1, <3>2, EndReads, Zenon
  <2>4. g[N] = t
    BY <1>2, <2>2, <2>3, StaysEnded
  <2>5. Len(e) = 1
    BY <1>5, <1>15
  <2>6. k0 + Len(BlockTokens(block, type, context)) = j + 1
    BY <1>8, <1>9, <1>14, <2>5, Zenon
  <2>7. QED
    BY <1>2, <1>12, <2>3, <2>4, <2>6, Zenon DEF BlockRead
<1>16. CASE ~short
  <2>1. end = N /\ e = << >>
    BY <1>5, <1>6, <1>16
  <2>2. Len(e) = 0
    BY <2>1
  <2>3. k0 + Len(BlockTokens(block, type, context)) = j
    BY <1>8, <1>9, <1>14, <2>2, Zenon
  <2>4. QED
    BY <1>2, <1>11, <1>12, <2>1, <2>3, Zenon DEF BlockRead
<1>17. QED
  BY <1>15, <1>16

-----------------------------------------------------------------------------
(***************************************************************************)
(* A frame: contexts come from neighbours, all of them before the          *)
(* macroblock in raster order and known to both sides.                     *)
(***************************************************************************)

(* The blocks of a macroblock can be coded; without Y2 it has zeros there, *)
(* and with Y2 its other blocks start with a zero.                         *)
LEMMA MacroblockFacts ==
  ASSUME NEW mb \in Macroblocks
  PROVE  /\ mb.coded \in BOOLEAN /\ mb.Y2 \in Codable /\ mb.Y \in Codable
         /\ ~mb.coded => mb.Y2 = Zeros
         /\ mb = [coded |-> mb.coded, Y2 |-> mb.Y2, Y |-> mb.Y]
         /\ YType(mb) \in BlockTypes /\ (FirstIndex(YType(mb)) = 1 => mb.Y[0] = 0)
<1>1. ASSUME NEW block \in Blocks PROVE block \in Codable
  <2>1. block \in [Positions -> FirstValues \cup OtherValues]
    BY DEF Blocks
  <2>2. \A v \in FirstValues \cup OtherValues : v \in Int /\ Magnitude(v) <= MaxLevel
    BY ResiduesAssumption
  <2>3. QED
    BY <2>1, <2>2 DEF Codable
<1>2. Zeros \in Blocks
  <2>1. 0 \in FirstValues /\ 0 \in OtherValues
    BY ResiduesAssumption
  <2>2. QED
    BY <2>1 DEF Zeros, Blocks
<1>3. AfterY2 \subseteq Blocks /\ \A block \in AfterY2 : block[0] = 0
  BY DEF AfterY2
<1>4. \/ mb \in [coded : {TRUE}, Y2 : Blocks, Y : AfterY2]
      \/ mb \in [coded : {FALSE}, Y2 : {Zeros}, Y : Blocks]
  BY DEF Macroblocks
<1>5. CASE mb \in [coded : {TRUE}, Y2 : Blocks, Y : AfterY2]
  <2>1. mb.coded = TRUE /\ mb.Y2 \in Blocks /\ mb.Y \in AfterY2 /\ mb = [coded |-> mb.coded, Y2 |-> mb.Y2, Y |-> mb.Y]
    BY <1>5
  <2>2. YType(mb) = "Y_after_Y2"
    BY <2>1 DEF YType
  <2>3. YType(mb) \in BlockTypes
    BY <2>2 DEF BlockTypes
  <2>4. mb.Y[0] = 0
    BY <1>3, <2>1
  <2>5. mb.Y2 \in Codable /\ mb.Y \in Codable
    BY <1>1, <1>3, <2>1
  <2>6. QED
    BY <2>1, <2>3, <2>4, <2>5
<1>6. CASE mb \in [coded : {FALSE}, Y2 : {Zeros}, Y : Blocks]
  <2>1. mb.coded = FALSE /\ mb.Y2 = Zeros /\ mb.Y \in Blocks /\ mb = [coded |-> mb.coded, Y2 |-> mb.Y2, Y |-> mb.Y]
    BY <1>6
  <2>2. YType(mb) = "Y_without_Y2"
    BY <2>1 DEF YType
  <2>3. YType(mb) \in BlockTypes /\ FirstIndex(YType(mb)) = 0
    BY <2>2 DEF FirstIndex, BlockTypes
  <2>4. mb.Y2 \in Codable /\ mb.Y \in Codable
    BY <1>1, <1>2, <2>1
  <2>5. FirstIndex(YType(mb)) = 1 => mb.Y[0] = 0
    BY <2>3
  <2>6. QED
    BY <2>1, <2>3, <2>4, <2>5, Zenon
<1>7. QED
  BY <1>4, <1>5, <1>6

(* Neighbours come before a macroblock.                                    *)
LEMMA LastCodedBefore ==
  ASSUME NEW n \in Nat, NEW S, S \subseteq 1 .. n, NEW mbs
  PROVE  LastCoded(S, mbs) \in 0 .. n
<1> DEFINE coded == {j \in S : mbs[j].coded}
<1>1. CASE coded = {}
  BY <1>1 DEF LastCoded
<1>2. CASE coded # {}
  <2>1. coded \subseteq 0 .. n /\ coded \subseteq 1 .. n
    <3>1. coded \subseteq 1 .. n
      BY Zenon
    <3> HIDE DEF coded
    <3>2. QED
      BY <3>1
  <2> DEFINE last == CHOOSE j \in coded : \A k \in coded : k <= j
  <2>2. LastCoded(S, mbs) = last
    BY <1>2 DEF LastCoded
  <2> HIDE DEF coded
  <2>3. \E j \in coded : \A k \in coded : k <= j
    BY <1>2, <2>1, GreatestExists
  <2>4. last \in coded
    BY <2>3, Zenon
  <2>5. QED
    BY <2>1, <2>2, <2>4
<1>3. QED
  BY <1>1, <1>2

(* The neighbours a macroblock takes its contexts from, 0 for none.        *)
LEMMA NeighboursBefore ==
  ASSUME NEW i \in Nat \ {0}, NEW mbs
  PROVE  /\ Above(i) \in 0 .. i - 1 /\ LeftOf(i) \in 0 .. i - 1
         /\ Y2Above(i, mbs) \in 0 .. i - 1 /\ Y2Left(i, mbs) \in 0 .. i - 1
<1>1. Columns \in Nat \ {0}
  BY ResiduesAssumption
<1>2. Above(i) \in 0 .. i - 1
  BY <1>1 DEF Above
<1>3. LeftOf(i) \in 0 .. i - 1
  <2>1. LeftOf(i) = 0 \/ LeftOf(i) = i - 1
    BY Zenon DEF LeftOf
  <2>2. QED
    BY <2>1
<1>4. i - 1 \in Nat
  OBVIOUS
<1> DEFINE column == {j \in 1 .. i - 1 : j % Columns = i % Columns}
           row == {j \in 1 .. i - 1 : (j - 1) \div Columns = (i - 1) \div Columns}
<1>5. column \subseteq 1 .. i - 1 /\ row \subseteq 1 .. i - 1
  BY Zenon
<1>6. Y2Above(i, mbs) = LastCoded(column, mbs) /\ Y2Left(i, mbs) = LastCoded(row, mbs)
  BY Zenon DEF Y2Above, Y2Left
<1> HIDE DEF column, row
<1>7. QED
  BY <1>2, <1>3, <1>4, <1>5, <1>6, LastCodedBefore

(* The contexts of the first coefficients.                                 *)
Y2ContextAt(i, mbs, y2) == NonzeroAt(Y2Above(i, mbs), y2) + NonzeroAt(Y2Left(i, mbs), y2)
YContextAt(i, y) == NonzeroAt(Above(i), y) + NonzeroAt(LeftOf(i), y)
Y2Written(mbs) == [j \in DOMAIN mbs |-> HasNonzero(mbs[j].Y2)]
YWritten(mbs) == [j \in DOMAIN mbs |-> HasNonzero(mbs[j].Y)]
Y2Read(i, read) == [j \in 1 .. i - 1 |-> HasNonzero(read[j].Y2)]
YRead(i, read) == [j \in 1 .. i - 1 |-> HasNonzero(read[j].Y)]

(* A flag of a neighbour that both know.                                   *)
LEMMA SameFlag ==
  ASSUME NEW i \in Nat, NEW flags, NEW others, \A j \in 1 .. i - 1 : flags[j] = others[j], NEW n \in 0 .. i - 1
  PROVE  NonzeroAt(n, flags) = NonzeroAt(n, others) /\ NonzeroAt(n, flags) \in Nat
<1>1. NonzeroAt(n, flags) \in Nat
  BY DEF NonzeroAt, Bit
<1>2. CASE n = 0
  BY <1>1, <1>2 DEF NonzeroAt, Bit
<1>3. CASE n # 0
  <2>1. n \in 1 .. i - 1
    BY <1>3
  <2>2. flags[n] = others[n]
    BY <2>1
  <2>3. QED
    BY <1>1, <2>2, Zenon DEF NonzeroAt
<1>4. QED
  BY <1>2, <1>3

(* Encoder, which has the whole frame, and decoder, which has what it has  *)
(* read, take the same contexts.                                           *)
LEMMA SameContexts ==
  ASSUME NEW mbs \in Seq(Macroblocks), NEW i \in 1 .. Len(mbs), NEW read, \A j \in 1 .. i - 1 : read[j] = mbs[j]
  PROVE  /\ Y2ContextAt(i, mbs, Y2Written(mbs)) \in Nat /\ YContextAt(i, YWritten(mbs)) \in Nat
         /\ Y2ContextAt(i, mbs, Y2Read(i, read)) = Y2ContextAt(i, mbs, Y2Written(mbs))
         /\ YContextAt(i, YRead(i, read)) = YContextAt(i, YWritten(mbs))
<1> DEFINE a == Y2Written(mbs)
           b == Y2Read(i, read)
           c == YWritten(mbs)
           d == YRead(i, read)
<1>1. i \in Nat /\ i \in Nat \ {0}
  OBVIOUS
<1>2. \A j \in 1 .. i - 1 : j \in DOMAIN mbs
  OBVIOUS
<1>3. \A j \in 1 .. i - 1 : a[j] = b[j] /\ c[j] = d[j]
  <2> SUFFICES ASSUME NEW j \in 1 .. i - 1 PROVE a[j] = b[j] /\ c[j] = d[j]
    BY Zenon
  <2>1. j \in DOMAIN mbs /\ read[j] = mbs[j]
    BY <1>2
  <2>2. /\ a[j] = HasNonzero(mbs[j].Y2) /\ b[j] = HasNonzero(read[j].Y2)
        /\ c[j] = HasNonzero(mbs[j].Y) /\ d[j] = HasNonzero(read[j].Y)
    BY <2>1, Zenon DEF Y2Written, Y2Read, YWritten, YRead
  <2>3. QED
    BY <2>1, <2>2, Zenon
<1> HIDE DEF a, b, c, d
<1>4. /\ Above(i) \in 0 .. i - 1 /\ LeftOf(i) \in 0 .. i - 1
      /\ Y2Above(i, mbs) \in 0 .. i - 1 /\ Y2Left(i, mbs) \in 0 .. i - 1
  BY <1>1, NeighboursBefore
<1>5. \A n \in 0 .. i - 1 : NonzeroAt(n, a) = NonzeroAt(n, b) /\ NonzeroAt(n, a) \in Nat
  BY <1>1, <1>3, SameFlag
<1>6. \A n \in 0 .. i - 1 : NonzeroAt(n, c) = NonzeroAt(n, d) /\ NonzeroAt(n, c) \in Nat
  BY <1>1, <1>3, SameFlag
<1>7. Y2ContextAt(i, mbs, a) \in Nat /\ Y2ContextAt(i, mbs, b) = Y2ContextAt(i, mbs, a)
  BY <1>4, <1>5 DEF Y2ContextAt
<1>8. YContextAt(i, c) \in Nat /\ YContextAt(i, d) = YContextAt(i, c)
  BY <1>4, <1>6 DEF YContextAt
<1>9. QED
  BY <1>7, <1>8 DEF a, b, c, d

(* What is written of a macroblock.                                        *)
Y2Tokens(i, mbs) ==
  IF mbs[i].coded THEN BlockTokens(mbs[i].Y2, "Y2", Y2ContextAt(i, mbs, Y2Written(mbs))) ELSE << >>
YTokens(i, mbs) == BlockTokens(mbs[i].Y, YType(mbs[i]), YContextAt(i, YWritten(mbs)))

(* Macroblock::serialize_tokens, in its parts.                             *)
LEMMA MacroblockForm ==
  ASSUME NEW i, NEW mbs
  PROVE  MacroblockTokens(i, mbs) = IF IsSkipped(mbs[i]) THEN << >> ELSE Y2Tokens(i, mbs) \o YTokens(i, mbs)
BY Zenon DEF MacroblockTokens, Y2Tokens, YTokens, Y2ContextAt, YContextAt, Y2Written, YWritten

(* What is written of a macroblock.                                        *)
LEMMA MacroblockTyped ==
  ASSUME NEW mbs \in Seq(Macroblocks), NEW i \in 1 .. Len(mbs)
  PROVE  /\ Y2Tokens(i, mbs) \in Seq(Symbols) /\ YTokens(i, mbs) \in Seq(Symbols)
         /\ MacroblockTokens(i, mbs) \in Seq(Symbols)
<1> DEFINE mb == mbs[i]
           y2 == "Y2"
<1>1. mb \in Macroblocks
  OBVIOUS
<1>2. Y2ContextAt(i, mbs, Y2Written(mbs)) \in Nat /\ YContextAt(i, YWritten(mbs)) \in Nat
  BY SameContexts
<1> HIDE DEF mb
<1>3. mb.Y2 \in Codable /\ mb.Y \in Codable /\ YType(mb) \in BlockTypes /\ y2 \in BlockTypes
  BY <1>1, MacroblockFacts DEF BlockTypes
<1> HIDE DEF y2
<1>4. BlockTokens(mb.Y2, y2, Y2ContextAt(i, mbs, Y2Written(mbs))) \in Seq(Symbols)
  BY <1>2, <1>3, BlockTyped
<1>5. << >> \in Seq(Symbols)
  OBVIOUS
<1>6. Y2Tokens(i, mbs) \in Seq(Symbols)
  <2>1. Y2Tokens(i, mbs) = IF mb.coded THEN BlockTokens(mb.Y2, y2, Y2ContextAt(i, mbs, Y2Written(mbs))) ELSE << >>
    BY Zenon DEF Y2Tokens, mb, y2
  <2>2. QED
    BY <1>4, <1>5, <2>1, Zenon
<1>7. YTokens(i, mbs) \in Seq(Symbols)
  <2>1. YTokens(i, mbs) = BlockTokens(mb.Y, YType(mb), YContextAt(i, YWritten(mbs)))
    BY Zenon DEF YTokens, mb
  <2>2. BlockTokens(mb.Y, YType(mb), YContextAt(i, YWritten(mbs))) \in Seq(Symbols)
    BY <1>2, <1>3, BlockTyped
  <2>3. QED
    BY <2>1, <2>2, Zenon
<1>8. Y2Tokens(i, mbs) \o YTokens(i, mbs) \in Seq(Symbols)
  BY <1>6, <1>7, ConcatParts
<1>9. MacroblockTokens(i, mbs) \in Seq(Symbols)
  BY <1>5, <1>8, MacroblockForm, Zenon
<1>10. QED
  BY <1>6, <1>7, <1>9

(* The state of the decoder between macroblocks.                           *)
ReadMacroblocks == [coded : BOOLEAN, Y2 : [Positions -> Int], Y : [Positions -> Int]]
FrameParsers == [d : Readers, read : Seq(ReadMacroblocks)]

(* Whatever is in the input, reading a block leaves a reader and a block.  *)
LEMMA AskBlockTyped ==
  ASSUME NEW d \in Readers, NEW type \in BlockTypes, NEW context \in Nat
  PROVE  AskBlock(d, type, context).d \in Readers /\ AskBlock(d, type, context).block \in [Positions -> Int]
<1>1. PICK f : AskRun(f, d, type, context) /\ AskBlock(d, type, context) = f[N]
  BY AsksIterate, Zenon
<1>2. N \in 0 .. N
  BY ResiduesAssumption
<1>3. f[N] \in Parsers
  BY <1>1, <1>2, Zenon DEF AskRun
<1>4. QED
  BY <1>1, <1>3 DEF Parsers

(* Contexts are numbers, whatever the flags.                               *)
LEMMA ContextsTyped ==
  ASSUME NEW i, NEW mbs, NEW flags
  PROVE  Y2ContextAt(i, mbs, flags) \in Nat /\ YContextAt(i, flags) \in Nat
<1>1. \A n : NonzeroAt(n, flags) \in Nat
  BY DEF NonzeroAt, Bit
<1>2. QED
  BY <1>1 DEF Y2ContextAt, YContextAt

(* A block of zeros.                                                       *)
LEMMA ZerosTyped == Zeros \in [Positions -> Int]
BY DEF Zeros

Y2Asked(s, i, mbs) ==
  IF mbs[i].coded THEN AskBlock(s.d, "Y2", Y2ContextAt(i, mbs, Y2Read(i, s.read))) ELSE [d |-> s.d, block |-> Zeros]
YAsked(s, d, i, mbs) == AskBlock(d, YType(mbs[i]), YContextAt(i, YRead(i, s.read)))

(* Macroblock::parse_tokens, in its parts.                                 *)
LEMMA AskForm ==
  ASSUME NEW s, NEW i, NEW mbs
  PROVE  AskMacroblock(s, i, mbs) =
           IF IsSkipped(mbs[i])
           THEN [s EXCEPT !.read = Append(s.read, [coded |-> mbs[i].coded, Y2 |-> Zeros, Y |-> Zeros])]
           ELSE WithBlocks(s, mbs[i].coded, Y2Asked(s, i, mbs), YAsked(s, Y2Asked(s, i, mbs).d, i, mbs))
<1>1. AskY2(s, i, mbs) = Y2Asked(s, i, mbs)
  BY Zenon DEF AskY2, Y2Asked, Y2ContextAt, Y2Read
<1>2. \A d : AskY(s, d, i, mbs) = YAsked(s, d, i, mbs)
  BY Zenon DEF AskY, YAsked, YContextAt, YRead
<1>3. QED
  BY <1>1, <1>2, Zenon DEF AskMacroblock, AskAfterY2

(* It keeps the type of the state of the decoder.                          *)
LEMMA AskMacroblockTyped ==
  ASSUME NEW s \in FrameParsers, NEW mbs \in Seq(Macroblocks), NEW i \in 1 .. Len(mbs)
  PROVE  AskMacroblock(s, i, mbs) \in FrameParsers
<1> DEFINE mb == mbs[i]
           a == Y2Asked(s, i, mbs)
           b == YAsked(s, a.d, i, mbs)
           type == "Y2"
<1>1. mb.coded \in BOOLEAN /\ YType(mb) \in BlockTypes /\ type \in BlockTypes
  <2>1. mb \in Macroblocks
    OBVIOUS
  <2> HIDE DEF mb
  <2>2. QED
    BY <2>1, MacroblockFacts DEF BlockTypes
<1>2. s.d \in Readers /\ s.read \in Seq(ReadMacroblocks)
  BY DEF FrameParsers
<1> HIDE DEF type
<1>3. a.d \in Readers /\ a.block \in [Positions -> Int]
  <2> DEFINE c == Y2ContextAt(i, mbs, Y2Read(i, s.read))
             x == AskBlock(s.d, type, c)
             y == [d |-> s.d, block |-> Zeros]
  <2>1. c \in Nat
    BY ContextsTyped
  <2> HIDE DEF c
  <2>2. x.d \in Readers /\ x.block \in [Positions -> Int]
    BY <1>1, <1>2, <2>1, AskBlockTyped
  <2>3. y.d \in Readers /\ y.block \in [Positions -> Int]
    BY <1>2, ZerosTyped
  <2>4. a = IF mb.coded THEN x ELSE y
    BY Zenon DEF Y2Asked, c, type
  <2> HIDE DEF a, x, y, mb
  <2>5. QED
    BY <2>2, <2>3, <2>4, Zenon
<1> HIDE DEF a
<1>4. b.d \in Readers /\ b.block \in [Positions -> Int]
  <2> DEFINE c == YContextAt(i, YRead(i, s.read))
  <2>1. c \in Nat
    BY ContextsTyped
  <2> HIDE DEF c
  <2>2. b = AskBlock(a.d, YType(mb), c)
    BY Zenon DEF YAsked, c
  <2> HIDE DEF b, mb
  <2>3. QED
    BY <1>1, <1>3, <2>1, <2>2, AskBlockTyped
<1>5. AskMacroblock(s, i, mbs) =
        IF IsSkipped(mb) THEN [s EXCEPT !.read = Append(s.read, [coded |-> mb.coded, Y2 |-> Zeros, Y |-> Zeros])]
        ELSE [d |-> b.d, read |-> Append(s.read, [coded |-> mb.coded, Y2 |-> a.block, Y |-> b.block])]
  BY AskForm, Zenon DEF WithBlocks, a
<1> HIDE DEF b, mb
<1>6. [coded |-> mb.coded, Y2 |-> Zeros, Y |-> Zeros] \in ReadMacroblocks
  BY <1>1, ZerosTyped DEF ReadMacroblocks
<1>7. [coded |-> mb.coded, Y2 |-> a.block, Y |-> b.block] \in ReadMacroblocks
  BY <1>1, <1>3, <1>4 DEF ReadMacroblocks
<1>8. \A x \in ReadMacroblocks : Append(s.read, x) \in Seq(ReadMacroblocks)
  BY <1>2
<1>9. [s EXCEPT !.read = Append(s.read, [coded |-> mb.coded, Y2 |-> Zeros, Y |-> Zeros])] \in FrameParsers
  <2> DEFINE x == Append(s.read, [coded |-> mb.coded, Y2 |-> Zeros, Y |-> Zeros])
  <2>1. x \in Seq(ReadMacroblocks)
    BY <1>6, <1>8, Zenon
  <2> HIDE DEF x
  <2>2. [s EXCEPT !.read = x] \in FrameParsers
    BY <2>1 DEF FrameParsers
  <2>3. QED
    BY <2>2 DEF x
<1>10. [d |-> b.d, read |-> Append(s.read, [coded |-> mb.coded, Y2 |-> a.block, Y |-> b.block])] \in FrameParsers
  <2> DEFINE x == Append(s.read, [coded |-> mb.coded, Y2 |-> a.block, Y |-> b.block])
  <2>1. x \in Seq(ReadMacroblocks)
    BY <1>7, <1>8, Zenon
  <2> HIDE DEF x
  <2>2. [d |-> b.d, read |-> x] \in FrameParsers
    BY <1>4, <2>1 DEF FrameParsers
  <2>3. QED
    BY <2>2 DEF x
<1>11. QED
  BY <1>5, <1>9, <1>10, Zenon

(* After n macroblocks.                                                    *)
InFrame(s, q, k, mbs, n) ==
  Reads(s.d, q, k) /\ s.read \in Seq(Macroblocks) /\ Len(s.read) = n /\ \A j \in 1 .. n : s.read[j] = mbs[j]

(* A macroblock that was written is read, whether skipped, with Y2 or      *)
(* without.                                                                *)
LEMMA MacroblockReads ==
  ASSUME NEW q \in Seq(Symbols), NEW k \in Nat, NEW mbs \in Seq(Macroblocks), NEW i \in 1 .. Len(mbs),
         NEW s, InFrame(s, q, k, mbs, i - 1), s \in FrameParsers, Says(q, k, MacroblockTokens(i, mbs))
  PROVE  InFrame(AskMacroblock(s, i, mbs), q, k + Len(MacroblockTokens(i, mbs)), mbs, i)
<1> DEFINE mb == mbs[i]
           a == Y2Asked(s, i, mbs)
           b == YAsked(s, a.d, i, mbs)
           r == AskMacroblock(s, i, mbs)
           x == Y2Tokens(i, mbs)
           y == YTokens(i, mbs)
           y2 == "Y2"
<1>0. /\ Reads(s.d, q, k) /\ s.read \in Seq(Macroblocks) /\ Len(s.read) = i - 1
      /\ \A j \in 1 .. i - 1 : s.read[j] = mbs[j]
  BY Zenon DEF InFrame
<1>1. mb \in Macroblocks
  OBVIOUS
<1>2. Append(s.read, mb) \in Seq(Macroblocks) /\ Len(Append(s.read, mb)) = i
      /\ \A j \in 1 .. i : Append(s.read, mb)[j] = mbs[j]
  <2> DEFINE t == s.read
  <2>1. t \in Seq(Macroblocks) /\ Len(t) = i - 1 /\ \A j \in 1 .. i - 1 : t[j] = mbs[j]
    BY <1>0
  <2> HIDE DEF t
  <2>2. Append(t, mb) \in Seq(Macroblocks) /\ Len(Append(t, mb)) = i
    BY <1>1, <2>1
  <2>3. ASSUME NEW j \in 1 .. i PROVE Append(t, mb)[j] = mbs[j]
    <3>1. CASE j = i
      BY <1>1, <2>1, <3>1
    <3>2. CASE j # i
      <4>1. j \in 1 .. i - 1
        BY <3>2
      <4>2. QED
        BY <2>1, <4>1
    <3>3. QED
      BY <3>1, <3>2
  <2>4. QED
    BY <2>2, <2>3 DEF t
<1>3. /\ mb.coded \in BOOLEAN /\ mb.Y2 \in Codable /\ mb.Y \in Codable
      /\ ~mb.coded => mb.Y2 = Zeros
      /\ mb = [coded |-> mb.coded, Y2 |-> mb.Y2, Y |-> mb.Y]
      /\ YType(mb) \in BlockTypes /\ (FirstIndex(YType(mb)) = 1 => mb.Y[0] = 0)
  <2> HIDE DEF mb
  <2>1. QED
    BY <1>1, MacroblockFacts
<1>4. r = IF IsSkipped(mb) THEN [s EXCEPT !.read = Append(s.read, [coded |-> mb.coded, Y2 |-> Zeros, Y |-> Zeros])]
          ELSE [d |-> b.d, read |-> Append(s.read, [coded |-> mb.coded, Y2 |-> a.block, Y |-> b.block])]
  BY AskForm, Zenon DEF WithBlocks, a
<1>5. MacroblockTokens(i, mbs) = IF IsSkipped(mb) THEN << >> ELSE x \o y
  BY MacroblockForm
<1>6. CASE IsSkipped(mb)
  <2>1. mb.Y2 = Zeros /\ mb.Y = Zeros
    BY <1>6, Zenon DEF IsSkipped, HasNonzero
  <2>2. [coded |-> mb.coded, Y2 |-> Zeros, Y |-> Zeros] = mb
    BY <1>3, <2>1, Zenon
  <2>3. r = [s EXCEPT !.read = Append(s.read, mb)]
    BY <1>4, <1>6, <2>2, Zenon
  <2> DEFINE t == Append(s.read, mb)
  <2>4. r = [s EXCEPT !.read = t]
    BY <2>3
  <2> HIDE DEF t, r, mb
  <2>5. r.d = s.d /\ r.read = t
    BY <2>4 DEF FrameParsers
  <2>6. k + Len(MacroblockTokens(i, mbs)) = k
    BY <1>5, <1>6
  <2>7. Reads(r.d, q, k + Len(MacroblockTokens(i, mbs)))
    BY <1>0, <2>5, <2>6, Zenon
  <2>8. QED
    BY <1>2, <2>5, <2>7, Zenon DEF InFrame, t, r
<1>7. CASE ~IsSkipped(mb)
  <2>1. x \in Seq(Symbols) /\ y \in Seq(Symbols)
    BY MacroblockTyped
  <2>2. MacroblockTokens(i, mbs) = x \o y
    BY <1>5, <1>7
  <2> DEFINE j == k + Len(x)
  <2>3. Says(q, k, x) /\ Says(q, j, y) /\ Len(x \o y) = Len(x) + Len(y)
    <3> HIDE DEF x, y
    <3>1. Says(q, k, x \o y)
      BY <2>2, Zenon
    <3>2. QED
      BY ONLY q \in Seq(Symbols), k \in Nat, <2>1, <3>1, SaysParts
  <2>4. /\ Y2ContextAt(i, mbs, Y2Written(mbs)) \in Nat /\ YContextAt(i, YWritten(mbs)) \in Nat
        /\ Y2ContextAt(i, mbs, Y2Read(i, s.read)) = Y2ContextAt(i, mbs, Y2Written(mbs))
        /\ YContextAt(i, YRead(i, s.read)) = YContextAt(i, YWritten(mbs))
    BY <1>0, SameContexts
  <2>5. j \in Nat /\ k + Len(x \o y) = j + Len(y)
    <3> HIDE DEF x, y
    <3> DEFINE m == Len(x)
               n == Len(y)
               l == Len(x \o y)
    <3>1. m \in Nat /\ n \in Nat /\ l = m + n
      BY <2>1, <2>3
    <3> HIDE DEF m, n, l
    <3>2. k + m \in Nat /\ k + l = (k + m) + n
      BY <3>1
    <3>3. QED
      BY <3>2 DEF m, n, l
  <2> HIDE DEF j
  <2>6. a.block = mb.Y2 /\ Reads(a.d, q, j)
    <3> DEFINE c == Y2ContextAt(i, mbs, Y2Written(mbs))
    <3>1. CASE mb.coded
      <4>1. a = AskBlock(s.d, y2, c)
        BY <2>4, <3>1, Zenon DEF Y2Asked
      <4>2. x = BlockTokens(mb.Y2, y2, c)
        BY <3>1, Zenon DEF Y2Tokens
      <4>3. y2 \in BlockTypes /\ FirstIndex(y2) # 1
        BY DEF BlockTypes, FirstIndex
      <4>4. c \in Nat
        BY <2>4
      <4> DEFINE e == s.d
                 block == mb.Y2
      <4>5. Reads(e, q, k) /\ block \in Codable /\ Says(q, k, BlockTokens(block, y2, c)) /\ a = AskBlock(e, y2, c)
        BY <1>0, <1>3, <2>3, <4>1, <4>2, Zenon
      <4> HIDE DEF a, x, c, y2, e, block
      <4>6. BlockRead(AskBlock(e, y2, c), q, k + Len(BlockTokens(block, y2, c)), block)
        BY <4>3, <4>4, <4>5, BlockReads
      <4>7. BlockRead(a, q, j, mb.Y2)
        BY <4>2, <4>5, <4>6, Zenon DEF j, block
      <4>8. QED
        BY <4>7, Zenon DEF BlockRead
    <3>2. CASE ~mb.coded
      <4>1. a = [d |-> s.d, block |-> Zeros] /\ x = << >>
        BY <3>2, Zenon DEF Y2Asked, Y2Tokens
      <4>2. mb.Y2 = Zeros
        BY <1>3, <3>2
      <4> HIDE DEF a, x, mb
      <4>3. j = k
        BY <4>1 DEF j
      <4>4. a.d = s.d /\ a.block = Zeros
        BY <4>1
      <4>5. QED
        BY <1>0, <4>2, <4>3, <4>4, Zenon
    <3>3. QED
      BY <3>1, <3>2
  <2>7. b.block = mb.Y /\ Reads(b.d, q, j + Len(y))
    <3> DEFINE c == YContextAt(i, YWritten(mbs))
               type == YType(mb)
               block == mb.Y
               e == a.d
    <3>1. b = AskBlock(e, type, c)
      BY <2>4, Zenon DEF YAsked
    <3>2. y = BlockTokens(block, type, c)
      BY Zenon DEF YTokens
    <3>3. c \in Nat /\ type \in BlockTypes /\ block \in Codable /\ (FirstIndex(type) = 1 => block[0] = 0)
      BY <1>3, <2>4
    <3>4. Says(q, j, BlockTokens(block, type, c)) /\ Reads(e, q, j)
      BY <2>3, <2>6, <3>2, Zenon
    <3> HIDE DEF b, y, c, type, block, e
    <3>5. BlockRead(AskBlock(e, type, c), q, j + Len(BlockTokens(block, type, c)), block)
      BY <2>5, <3>3, <3>4, BlockReads
    <3>6. QED
      BY <3>1, <3>2, <3>5, Zenon DEF BlockRead, block
  <2>8. r = [d |-> b.d, read |-> Append(s.read, mb)]
    <3>1. [coded |-> mb.coded, Y2 |-> a.block, Y |-> b.block] = mb
      BY <1>3, <2>6, <2>7, Zenon
    <3>2. QED
      BY <1>4, <1>7, <3>1, Zenon
  <2> DEFINE t == Append(s.read, mb)
             e == b.d
  <2>9. r = [d |-> e, read |-> t]
    BY <2>8
  <2> HIDE DEF t, r, e
  <2>10. r.d = e /\ r.read = t
    BY <2>9
  <2>11. Reads(r.d, q, k + Len(MacroblockTokens(i, mbs)))
    BY <2>2, <2>5, <2>7, <2>10, Zenon DEF e
  <2>12. QED
    BY <1>2, <2>10, <2>11, Zenon DEF InFrame, t, r
<1>8. QED
  BY <1>6, <1>7

(* What has been written after each macroblock of a frame,                 *)
WriteRun(f, mbs) ==
  /\ \A i \in 0 .. Len(mbs) : f[i] \in Seq(Symbols)
  /\ f[0] = << >> /\ \A i \in 1 .. Len(mbs) : f[i] = f[i - 1] \o MacroblockTokens(i, mbs)

(* and the state of its decoder.                                           *)
ParseRun(g, symbols, mbs) ==
  /\ \A i \in 0 .. Len(mbs) : g[i] \in FrameParsers
  /\ g[0] = [d |-> Reader(symbols), read |-> << >>]
  /\ \A i \in 1 .. Len(mbs) : g[i] = AskMacroblock(g[i - 1], i, mbs)

(* The encoder of a frame has these states,                                *)
LEMMA WritesIterate ==
  ASSUME NEW mbs \in Seq(Macroblocks)
  PROVE  \E f : WriteRun(f, mbs) /\ FrameTokens(mbs) = f[Len(mbs)]
<1> DEFINE S == Seq(Symbols)
           a == << >>
           n == Len(mbs)
           step == [p \in S \X Nat |-> IF p[2] \in 1 .. n THEN p[1] \o MacroblockTokens(p[2], mbs) ELSE a]
           Def(f) == f = [i \in 0 .. n |-> IF i = 0 THEN a ELSE f[i - 1] \o MacroblockTokens(i, mbs)]
<1>0. n \in Nat /\ a \in S
  OBVIOUS
<1>1. \A p \in S, i \in 1 .. n : p \o MacroblockTokens(i, mbs) \in S
  BY MacroblockTyped, ConcatParts
<1> HIDE DEF S, a, n
<1>2. step \in [S \X Nat -> S]
  BY <1>0, <1>1
<1>3. \E h \in [0 .. n -> S] : IteratesUpTo(h, n, a, step)
  <2> HIDE DEF step
  <2>1. \A m \in Nat : \E h \in [0 .. m -> S] : IteratesUpTo(h, m, a, step)
    BY <1>0, <1>2, IterationUpTo
  <2>2. QED
    BY <1>0, <2>1
<1>4. PICK h \in [0 .. n -> S] : IteratesUpTo(h, n, a, step)
  BY <1>3, Zenon
<1>5. Def(h)
  <2>1. ASSUME NEW i \in 0 .. n PROVE h[i] = IF i = 0 THEN a ELSE h[i - 1] \o MacroblockTokens(i, mbs)
    <3>1. CASE i = 0
      BY <1>4, <3>1, Zenon DEF IteratesUpTo
    <3>2. CASE i # 0
      <4>1. i \in 1 .. n /\ i - 1 \in 0 .. n /\ i \in Nat
        BY <1>0, <3>2
      <4>2. h[i] = step[<<h[i - 1], i>>]
        BY <1>4, <4>1, Zenon DEF IteratesUpTo
      <4>3. h[i - 1] \in S
        BY <4>1
      <4>4. step[<<h[i - 1], i>>] = h[i - 1] \o MacroblockTokens(i, mbs)
        BY <4>1, <4>3
      <4>5. QED
        BY <3>2, <4>2, <4>4, Zenon
    <3>3. QED
      BY <3>1, <3>2
  <2>2. h = [i \in 0 .. n |-> h[i]]
    OBVIOUS
  <2>3. QED
    BY <2>1, <2>2
<1> DEFINE f == CHOOSE f : Def(f)
<1>6. Def(f)
  <2> HIDE DEF Def
  <2>1. QED
    BY <1>5, Zenon
<1>7. FrameTokens(mbs) = f[n]
  BY Zenon DEF FrameTokens, n, a
<1> HIDE DEF f
<1>8. \A i \in 0 .. n : f[i] = IF i = 0 THEN a ELSE f[i - 1] \o MacroblockTokens(i, mbs)
  BY <1>6
<1>9. f[0] = a /\ \A i \in 1 .. n : f[i] = f[i - 1] \o MacroblockTokens(i, mbs)
  <2>1. 0 \in 0 .. n /\ \A i \in 1 .. n : i \in 0 .. n /\ i # 0
    BY <1>0
  <2>2. QED
    BY <1>8, <2>1, Zenon
<1>10. \A i \in 0 .. n : f[i] \in S
  <2> DEFINE typed == {i \in Nat : i <= n => f[i] \in S}
  <2>1. 0 \in typed
    BY <1>0, <1>9
  <2>2. ASSUME NEW i \in Nat, i \in typed PROVE i + 1 \in typed
    <3> SUFFICES ASSUME i + 1 <= n PROVE f[i + 1] \in S
      OBVIOUS
    <3>1. f[i] \in S /\ i + 1 \in 1 .. n /\ (i + 1) - 1 = i
      BY <1>0, <2>2
    <3>2. f[i + 1] = f[(i + 1) - 1] \o MacroblockTokens(i + 1, mbs)
      BY <1>9, <3>1, Zenon
    <3>3. QED
      BY <1>1, <3>1, <3>2, Zenon
  <2>3. \A i \in Nat : i \in typed
    <3> HIDE DEF typed
    <3>1. QED
      BY <2>1, <2>2, SetInduction
  <2>4. QED
    BY <1>0, <2>3
<1>11. WriteRun(f, mbs)
  BY <1>9, <1>10, Zenon DEF WriteRun, S, a, n
<1>12. QED
  BY <1>7, <1>11, Zenon DEF n

(* A decoder starts with all of it before it.                              *)
LEMMA ReaderTyped ==
  ASSUME NEW q \in Seq(Symbols)
  PROVE  Reads(Reader(q), q, 0) /\ [d |-> Reader(q), read |-> << >>] \in FrameParsers
<1>1. Reader(q) \in Readers /\ Reader(q).in = q /\ ~Reader(q).wrong
  <2> DEFINE no == FALSE
  <2>1. no \in BOOLEAN
    OBVIOUS
  <2> HIDE DEF no
  <2>2. [in |-> q, wrong |-> no, bit |-> no, value |-> 0] \in Readers
    BY <2>1 DEF Readers
  <2>3. Reader(q) = [in |-> q, wrong |-> no, bit |-> no, value |-> 0]
    BY Zenon DEF Reader, no
  <2> DEFINE r == Reader(q)
  <2> HIDE DEF r
  <2>4. r = [in |-> q, wrong |-> no, bit |-> no, value |-> 0]
    BY <2>3 DEF r
  <2>5. r.in = q /\ r.wrong = no
    BY <2>4
  <2>6. QED
    BY <2>2, <2>4, <2>5, Zenon DEF r, no
<1>2. Rest(q, 0) = q
  BY DEF Rest
<1> DEFINE r == Reader(q)
           a == << >>
<1>3. a \in Seq(ReadMacroblocks)
  OBVIOUS
<1> HIDE DEF r, a
<1>4. r \in Readers
  BY <1>1 DEF r
<1>5. [d |-> r, read |-> a] \in FrameParsers
  BY <1>3, <1>4 DEF FrameParsers
<1>6. QED
  BY <1>1, <1>2, <1>5, Zenon DEF Reads, r, a

(* and its decoder has these.                                              *)
LEMMA ParsesIterate ==
  ASSUME NEW mbs \in Seq(Macroblocks), NEW symbols \in Seq(Symbols)
  PROVE  \E g : ParseRun(g, symbols, mbs) /\ ParsedFrame(symbols, mbs) = g[Len(mbs)]
<1> DEFINE S == FrameParsers
           a == [d |-> Reader(symbols), read |-> << >>]
           n == Len(mbs)
           step == [p \in S \X Nat |-> IF p[2] \in 1 .. n THEN AskMacroblock(p[1], p[2], mbs) ELSE a]
           Def(f) == f = [i \in 0 .. n |-> IF i = 0 THEN a ELSE AskMacroblock(f[i - 1], i, mbs)]
<1>0. n \in Nat /\ a \in S
  BY ReaderTyped
<1>1. \A p \in S, i \in 1 .. n : AskMacroblock(p, i, mbs) \in S
  BY AskMacroblockTyped
<1> HIDE DEF S, a, n
<1>2. step \in [S \X Nat -> S]
  BY <1>0, <1>1
<1>3. \E h \in [0 .. n -> S] : IteratesUpTo(h, n, a, step)
  <2> HIDE DEF step
  <2>1. \A m \in Nat : \E h \in [0 .. m -> S] : IteratesUpTo(h, m, a, step)
    BY <1>0, <1>2, IterationUpTo
  <2>2. QED
    BY <1>0, <2>1
<1>4. PICK h \in [0 .. n -> S] : IteratesUpTo(h, n, a, step)
  BY <1>3, Zenon
<1>5. Def(h)
  <2>1. ASSUME NEW i \in 0 .. n PROVE h[i] = IF i = 0 THEN a ELSE AskMacroblock(h[i - 1], i, mbs)
    <3>1. CASE i = 0
      BY <1>4, <3>1, Zenon DEF IteratesUpTo
    <3>2. CASE i # 0
      <4>1. i \in 1 .. n /\ i - 1 \in 0 .. n /\ i \in Nat
        BY <1>0, <3>2
      <4>2. h[i] = step[<<h[i - 1], i>>]
        BY <1>4, <4>1, Zenon DEF IteratesUpTo
      <4>3. h[i - 1] \in S
        BY <4>1
      <4>4. step[<<h[i - 1], i>>] = AskMacroblock(h[i - 1], i, mbs)
        BY <4>1, <4>3
      <4>5. QED
        BY <3>2, <4>2, <4>4, Zenon
    <3>3. QED
      BY <3>1, <3>2
  <2>2. h = [i \in 0 .. n |-> h[i]]
    OBVIOUS
  <2>3. QED
    BY <2>1, <2>2
<1> DEFINE f == CHOOSE f : Def(f)
<1>6. Def(f)
  <2> HIDE DEF Def
  <2>1. QED
    BY <1>5, Zenon
<1>7. ParsedFrame(symbols, mbs) = f[n]
  BY Zenon DEF ParsedFrame, n, a
<1> HIDE DEF f
<1>8. \A i \in 0 .. n : f[i] = IF i = 0 THEN a ELSE AskMacroblock(f[i - 1], i, mbs)
  BY <1>6
<1>9. f[0] = a /\ \A i \in 1 .. n : f[i] = AskMacroblock(f[i - 1], i, mbs)
  <2>1. 0 \in 0 .. n /\ \A i \in 1 .. n : i \in 0 .. n /\ i # 0
    BY <1>0
  <2>2. QED
    BY <1>8, <2>1, Zenon
<1>10. \A i \in 0 .. n : f[i] \in S
  <2> DEFINE typed == {i \in Nat : i <= n => f[i] \in S}
  <2>1. 0 \in typed
    BY <1>0, <1>9
  <2>2. ASSUME NEW i \in Nat, i \in typed PROVE i + 1 \in typed
    <3> SUFFICES ASSUME i + 1 <= n PROVE f[i + 1] \in S
      OBVIOUS
    <3>1. f[i] \in S /\ i + 1 \in 1 .. n /\ (i + 1) - 1 = i
      BY <1>0, <2>2
    <3>2. f[i + 1] = AskMacroblock(f[(i + 1) - 1], i + 1, mbs)
      BY <1>9, <3>1, Zenon
    <3>3. QED
      BY <1>1, <3>1, <3>2, Zenon
  <2>3. \A i \in Nat : i \in typed
    <3> HIDE DEF typed
    <3>1. QED
      BY <2>1, <2>2, SetInduction
  <2>4. QED
    BY <1>0, <2>3
<1>11. ParseRun(f, symbols, mbs)
  BY <1>9, <1>10, Zenon DEF ParseRun, S, a, n
<1>12. QED
  BY <1>7, <1>11, Zenon DEF n

(* A sequence says itself, and what it begins with.                        *)
LEMMA FirstMacroblocksSaid ==
  ASSUME NEW mbs \in Seq(Macroblocks), NEW f, WriteRun(f, mbs), NEW q, q = f[Len(mbs)]
  PROVE  \A i \in 0 .. Len(mbs) : Says(q, 0, f[i])
<1> DEFINE n == Len(mbs)
           said == {m \in Nat : n - m >= 0 => Says(q, 0, f[n - m])}
<1>0. n \in Nat
  OBVIOUS
<1> HIDE DEF n
<1>1. /\ \A i \in 0 .. n : f[i] \in Seq(Symbols)
      /\ \A i \in 1 .. n : f[i] = f[i - 1] \o MacroblockTokens(i, mbs)
  BY Zenon DEF WriteRun, n
<1>2. q \in Seq(Symbols) /\ q = f[n]
  BY <1>0, <1>1 DEF n
<1>3. 0 \in said
  <2>1. n - 0 = n
    BY <1>0
  <2>2. Says(q, 0, q)
    BY <1>2 DEF Says
  <2>3. QED
    BY <1>2, <2>1, <2>2
<1>4. ASSUME NEW m \in Nat, m \in said PROVE m + 1 \in said
  <2> SUFFICES ASSUME n - (m + 1) >= 0 PROVE Says(q, 0, f[n - (m + 1)])
    OBVIOUS
  <2> DEFINE i == n - (m + 1)
             a == f[i]
             b == MacroblockTokens(i + 1, mbs)
  <2>1. n - m = i + 1 /\ i \in 0 .. n /\ i + 1 \in 1 .. n /\ (i + 1) - 1 = i /\ n - m >= 0
    BY <1>0
  <2>2. Says(q, 0, f[i + 1])
    BY <1>4, <2>1
  <2> HIDE DEF i
  <2>3. f[i + 1] = f[(i + 1) - 1] \o MacroblockTokens(i + 1, mbs)
    BY <1>1, <2>1, Zenon
  <2>4. a \in Seq(Symbols)
    BY <1>1, <2>1, Zenon
  <2>5. b \in Seq(Symbols)
    BY <2>1, MacroblockTyped DEF n
  <2>6. Says(q, 0, a \o b)
    BY <2>1, <2>2, <2>3, Zenon
  <2> HIDE DEF a, b
  <2>7. Says(q, 0, a)
    BY <1>2, <2>4, <2>5, <2>6, SaysParts
  <2>8. QED
    BY <2>7 DEF a, i
<1>5. \A m \in Nat : m \in said
  <2> HIDE DEF said
  <2>1. QED
    BY <1>3, <1>4, SetInduction
<1>6. ASSUME NEW i \in 0 .. n PROVE Says(q, 0, f[i])
  <2>1. n - i \in Nat /\ n - (n - i) = i /\ i >= 0
    BY <1>0
  <2>2. n - i \in said
    BY <1>5, <2>1, Zenon
  <2>3. n - (n - i) >= 0 => Says(q, 0, f[n - (n - i)])
    BY <2>2
  <2>4. QED
    BY <2>1, <2>3, Zenon
<1>7. QED
  BY <1>6 DEF n

(* The residues of a frame are read back.                                  *)
LEMMA FrameReads ==
  ASSUME NEW mbs \in Seq(Macroblocks)
  PROVE  HasRead(ParsedFrame(FrameTokens(mbs), mbs), mbs)
<1> DEFINE n == Len(mbs)
           q == FrameTokens(mbs)
<1>1. PICK f : WriteRun(f, mbs) /\ q = f[n]
  BY WritesIterate
<1>2. /\ \A i \in 0 .. n : f[i] \in Seq(Symbols)
      /\ f[0] = << >> /\ \A i \in 1 .. n : f[i] = f[i - 1] \o MacroblockTokens(i, mbs)
  BY <1>1, Zenon DEF WriteRun
<1>0. n \in Nat
  OBVIOUS
<1>3. q \in Seq(Symbols)
  BY <1>0, <1>1, <1>2
<1>4. PICK g : ParseRun(g, q, mbs) /\ ParsedFrame(q, mbs) = g[n]
  BY <1>3, ParsesIterate
<1>5. /\ \A i \in 0 .. n : g[i] \in FrameParsers
      /\ g[0] = [d |-> Reader(q), read |-> << >>]
      /\ \A i \in 1 .. n : g[i] = AskMacroblock(g[i - 1], i, mbs)
  BY <1>4, Zenon DEF ParseRun
<1>6. \A i \in 0 .. n : Says(q, 0, f[i])
  BY <1>1, FirstMacroblocksSaid
<1> HIDE DEF n, q
<1> DEFINE Agree(i) == InFrame(g[i], q, Len(f[i]), mbs, i)
           agree == {i \in Nat : i <= n => Agree(i)}
<1>7. 0 \in agree
  <2> DEFINE r == g[0]
             e == Reader(q)
             a == << >>
  <2>1. Reads(e, q, 0)
    BY <1>3, ReaderTyped
  <2>2. r = [d |-> e, read |-> a]
    BY <1>5
  <2>3. a \in Seq(Macroblocks) /\ Len(a) = 0
    OBVIOUS
  <2>4. Len(f[0]) = 0
    BY <1>2
  <2> HIDE DEF r, e, a
  <2>5. r.d = e /\ r.read = a
    BY <2>2
  <2>6. \A j \in 1 .. 0 : r.read[j] = mbs[j]
    OBVIOUS
  <2>7. InFrame(r, q, 0, mbs, 0)
    BY <2>1, <2>3, <2>5, <2>6, Zenon DEF InFrame
  <2>8. Agree(0)
    BY <2>4, <2>7, Zenon DEF r
  <2> HIDE DEF Agree
  <2>9. QED
    BY <2>8
<1>8. ASSUME NEW m \in Nat, m \in agree PROVE m + 1 \in agree
  <2> SUFFICES ASSUME m + 1 <= n PROVE Agree(m + 1)
    OBVIOUS
  <2> DEFINE i == m + 1
             a == f[m]
             b == MacroblockTokens(i, mbs)
             s == g[m]
  <2>1. i \in 1 .. n /\ i - 1 = m /\ m \in 0 .. n /\ i \in 0 .. n /\ m <= n
    BY <1>0
  <2>2. Agree(m)
    <3> HIDE DEF Agree
    <3>1. QED
      BY <1>8, <2>1
  <2> HIDE DEF i
  <2>3. f[i] = a \o b /\ g[i] = AskMacroblock(s, i, mbs)
    <3>1. f[i] = f[i - 1] \o b /\ g[i] = AskMacroblock(g[i - 1], i, mbs)
      BY <1>2, <1>5, <2>1, Zenon
    <3>2. QED
      BY <2>1, <3>1, Zenon
  <2>4. a \in Seq(Symbols) /\ s \in FrameParsers
    BY <1>2, <1>5, <2>1, Zenon
  <2>5. b \in Seq(Symbols)
    BY <2>1, MacroblockTyped DEF n
  <2>6. Says(q, 0, a \o b)
    BY <1>6, <2>1, <2>3, Zenon
  <2>7. InFrame(s, q, Len(a), mbs, i - 1)
    BY <2>1, <2>2, Zenon
  <2> HIDE DEF a, b, s
  <2>8. Says(q, 0 + Len(a), b) /\ Len(a \o b) = Len(a) + Len(b) /\ Len(a) \in Nat
    <3>1. Len(a) \in Nat
      BY <2>4
    <3>2. Says(q, 0 + Len(a), b) /\ Len(a \o b) = Len(a) + Len(b)
      BY <1>3, <2>4, <2>5, <2>6, SaysParts
    <3>3. QED
      BY <3>1, <3>2
  <2> DEFINE k == Len(a)
  <2>9. 0 + k = k /\ k \in Nat
    BY <2>8
  <2> HIDE DEF k
  <2>10. Says(q, k, b) /\ InFrame(s, q, k, mbs, i - 1)
    BY <2>7, <2>8, <2>9 DEF k
  <2>11. i \in 1 .. Len(mbs)
    BY <2>1 DEF n
  <2>12. InFrame(AskMacroblock(s, i, mbs), q, k + Len(b), mbs, i)
    <3>1. Says(q, k, MacroblockTokens(i, mbs))
      BY <2>10 DEF b
    <3>2. InFrame(AskMacroblock(s, i, mbs), q, k + Len(MacroblockTokens(i, mbs)), mbs, i)
      BY <1>3, <2>4, <2>9, <2>10, <2>11, <3>1, MacroblockReads
    <3>3. QED
      BY <3>2 DEF b
  <2>13. Len(f[i]) = k + Len(b)
    BY <2>3, <2>8, Zenon DEF k
  <2>14. Agree(i)
    BY <2>3, <2>12, <2>13, Zenon
  <2> HIDE DEF Agree
  <2>15. QED
    BY <2>14 DEF i
<1>9. \A m \in Nat : m \in agree
  <2> HIDE DEF agree
  <2>1. QED
    BY <1>7, <1>8, SetInduction
<1>10. Agree(n)
  <2>1. n \in agree /\ n <= n
    BY <1>0, <1>9
  <2> HIDE DEF Agree
  <2>2. QED
    BY <2>1
<1> DEFINE r == g[n]
<1>11. /\ Reads(r.d, q, Len(q)) /\ r.read \in Seq(Macroblocks) /\ Len(r.read) = n
       /\ \A j \in 1 .. n : r.read[j] = mbs[j]
  BY <1>1, <1>10, Zenon DEF InFrame, n, q
<1> HIDE DEF r
<1>12. r.read = mbs
  <2> DEFINE t == r.read
  <2> HIDE DEF t
  <2>1. t \in Seq(Macroblocks) /\ Len(t) = Len(mbs) /\ \A j \in 1 .. Len(mbs) : t[j] = mbs[j]
    BY <1>11 DEF t, n
  <2>2. t = mbs
    BY <2>1
  <2>3. QED
    BY <2>2 DEF t
<1>13. IsRead(r.d)
  <2>1. Rest(q, Len(q)) = << >>
    BY <1>3 DEF Rest
  <2>2. r.d.in = Rest(q, Len(q)) /\ ~r.d.wrong
    BY <1>11, Zenon DEF Reads
  <2>3. QED
    BY <2>1, <2>2, Zenon DEF IsRead
<1>14. QED
  BY <1>4, <1>12, <1>13, Zenon DEF HasRead, r, n, q

(* The value of every token is read back.                                  *)
LEMMA LevelReads ==
  ASSUME NEW v \in 1 .. MaxLevel
  PROVE  LET read == AskToken(Reader(Token(v)), [node \in Nodes |-> <<node>>])
         IN  read.value = v /\ IsRead(read)
<1> DEFINE q == Token(v)
           labels == [node \in Nodes |-> <<node>>]
           read == AskToken(Reader(q), labels)
<1>1. q \in Seq(TokenSymbols)
  BY TokenTyped
<1>2. TokenSymbols \subseteq Symbols
  BY DEF TokenSymbols, Symbols
<1> HIDE DEF q
<1>3. q \in Seq(Symbols) /\ Len(q) \in Nat
  BY <1>1, <1>2
<1>4. Reads(Reader(q), q, 0)
  BY <1>3, ReaderTyped
<1>5. SaysToken(q, 0, q, labels)
  <2>1. ASSUME NEW i \in 1 .. Len(q) PROVE q[i].label = IF Len(q[i].label) = 1 THEN labels[q[i].label[1]] ELSE q[i].label
    <3> DEFINE l == q[i].label
    <3>1. q[i] \in TokenSymbols
      BY <1>1
    <3>2. l \in NodeLabels \cup FixedLabels
      BY <3>1 DEF TokenSymbols
    <3> HIDE DEF l
    <3>3. CASE l \in NodeLabels
      <4>1. PICK n \in Nodes : l = <<n>>
        BY <3>3 DEF NodeLabels
      <4>2. l[1] = n /\ labels[n] = <<n>>
        BY <4>1
      <4>3. labels[l[1]] = l
        BY <4>1, <4>2, Zenon
      <4> HIDE DEF labels
      <4>4. QED
        BY <4>3, Zenon DEF l
    <3>4. CASE l \in FixedLabels
      <4>1. Len(l) # 1
        BY <3>4 DEF FixedLabels
      <4>2. QED
        BY <4>1, Zenon DEF l
    <3>5. QED
      BY <3>2, <3>3, <3>4
  <2>2. 0 + Len(q) <= Len(q) /\ \A i \in 1 .. Len(q) : 0 + i = i
    BY <1>3
  <2> HIDE DEF labels
  <2>3. QED
    BY <2>1, <2>2 DEF SaysToken
<1> HIDE DEF labels
<1>6. TokenRead(AskToken(Reader(q), labels), q, 0, Len(Token(v)), v)
  <2>1. SaysToken(q, 0, Token(v), labels)
    BY <1>5, Zenon DEF q
  <2>2. QED
    BY <1>3, <1>4, <2>1, TokenReads
<1>7. read.value = v /\ Reads(read, q, 0 + Len(q))
  BY <1>6, Zenon DEF TokenRead, q
<1>8. IsRead(read)
  <2>1. 0 + Len(q) = Len(q) /\ Rest(q, Len(q)) = << >>
    BY <1>3 DEF Rest
  <2>2. read.in = Rest(q, 0 + Len(q)) /\ ~read.wrong
    BY <1>7, Zenon DEF Reads
  <2>3. QED
    BY <2>1, <2>2, Zenon DEF IsRead
<1>9. QED
  BY <1>7, <1>8, Zenon DEF q, labels

ResiduesInv == level \in 0 .. MaxLevel /\ macroblocks \in Seq(Macroblocks)

(* Residues: what Macroblock::parse_tokens reads is what                   *)
(* Macroblock::serialize_tokens wrote, whatever the frame: any number of   *)
(* macroblocks in any number of columns, blocks of any length with any     *)
(* coefficients the tokens can code, macroblocks skipped, with Y2 or       *)
(* without; and every bool is asked for with the label, that is the        *)
(* probability, it was written with. TokenDecoder::decode returns every    *)
(* value from 1 to MaxLevel that TokenDecoder::encode is given.            *)
THEOREM ResiduesRoundTripHolds ==
  ResiduesInit /\ [][ResiduesNext]_residueVars => []ResiduesRoundTrip
<1> DEFINE top == MaxLevel
<1>0. top \in Nat
  BY SMT DEF MaxLevel
<1> HIDE DEF top
<1>1. ResiduesInit => ResiduesInv
  <2>1. 0 \in 0 .. top
    BY <1>0
  <2>2. << >> \in Seq(Macroblocks)
    OBVIOUS
  <2>3. QED
    BY <2>1, <2>2, Zenon DEF ResiduesInit, ResiduesInv, top
<1>2. ResiduesInv /\ [ResiduesNext]_residueVars => ResiduesInv'
  <2> SUFFICES ASSUME ResiduesInv, [ResiduesNext]_residueVars PROVE ResiduesInv'
    OBVIOUS
  <2>0. level \in 0 .. top /\ macroblocks \in Seq(Macroblocks)
    BY Zenon DEF ResiduesInv, top
  <2>1. CASE NextLevel
    <3>1. level < top /\ level' = level + 1 /\ macroblocks' = macroblocks
      BY <2>1, Zenon DEF NextLevel, top
    <3>2. level' \in 0 .. top
      BY <1>0, <2>0, <3>1
    <3>3. QED
      BY <2>0, <3>1, <3>2, Zenon DEF ResiduesInv, top
  <2>2. CASE AddMacroblock
    <3>1. PICK mb \in Macroblocks : macroblocks' = Append(macroblocks, mb)
      BY <2>2, Zenon DEF AddMacroblock
    <3>2. macroblocks' \in Seq(Macroblocks)
      BY <2>0, <3>1
    <3>3. level' = level
      BY <2>2, Zenon DEF AddMacroblock
    <3>4. QED
      BY <2>0, <3>2, <3>3, Zenon DEF ResiduesInv, top
  <2>3. CASE UNCHANGED residueVars
    <3>1. level' = level /\ macroblocks' = macroblocks
      BY <2>3 DEF residueVars
    <3>2. QED
      BY <2>0, <3>1, Zenon DEF ResiduesInv, top
  <2>4. QED
    BY <2>1, <2>2, <2>3 DEF ResiduesNext
<1>3. ResiduesInv => ResiduesRoundTrip
  <2> SUFFICES ASSUME ResiduesInv PROVE ResiduesRoundTrip
    OBVIOUS
  <2>0. level \in 0 .. top /\ macroblocks \in Seq(Macroblocks)
    BY Zenon DEF ResiduesInv, top
  <2> DEFINE read == AskToken(Reader(Token(level)), [node \in Nodes |-> <<node>>])
  <2>1. level > 0 => read.value = level /\ IsRead(read)
    <3> SUFFICES ASSUME level > 0 PROVE read.value = level /\ IsRead(read)
      BY Zenon
    <3>1. level \in 1 .. top
      BY <1>0, <2>0
    <3>2. level \in 1 .. MaxLevel
      BY <3>1, Zenon DEF top
    <3>3. QED
      BY <3>2, LevelReads, Zenon
  <2>2. HasRead(ParsedFrame(FrameTokens(macroblocks), macroblocks), macroblocks)
    BY <2>0, FrameReads
  <2>3. QED
    BY <2>1, <2>2, Zenon DEF ResiduesRoundTrip
<1>4. QED
  BY <1>1, <1>2, <1>3, PTL
=============================================================================
