--------------------------- MODULE BitstreamProofs --------------------------
(***************************************************************************)
(* What is written is what is read, for data of any length.                *)
(* - BoolCoder: any number of bools with any probabilities.  The encoder   *)
(* keeps an interval, [Low, Low + range) at the scale of its register,     *)
(* whose end stays below 1, so that a carry finds an octet to stop at.     *)
(* Each put takes a part of it.  The octets that finish() leaves say a     *)
(* number in the last interval, hence in every one before it; and the      *)
(* decoder, which keeps the distance of that number from the low end,      *)
(* finds in which part of each interval it lies.                           *)
(* - FrameLayout: any lengths and any number of DCT partitions.            *)
(***************************************************************************)
EXTENDS BoolCoder, FrameLayout, WellFoundedInduction, TLAPS

-----------------------------------------------------------------------------
(***************************************************************************)
(* Induction over data.  A set of numbers that holds 0 and the successor   *)
(* of each of its members holds all of them; from it, that the functions   *)
(* the models define by recursion exist.                                   *)
(***************************************************************************)

(* Induction, over a set instead of a predicate: the numbers that are not  *)
(* in it would have a least one.                                           *)
LEMMA SetInduction ==
  ASSUME NEW S, 0 \in S, \A n \in Nat : n \in S => n + 1 \in S
  PROVE  \A n \in Nat : n \in S
<1> SUFFICES ASSUME NEW k \in Nat, k \notin S PROVE FALSE
  OBVIOUS
<1> DEFINE less == OpToRel(<, Nat)
           others == Nat \ S
<1>1. IsWellFoundedOn(less, Nat)
  BY NatLessThanWellFounded
<1>2. others \subseteq Nat /\ others # {}
  OBVIOUS
<1>3. \E x \in others : \A y \in others : ~(<<y, x>> \in less)
  <2> HIDE DEF less, others
  <2>1. QED
    BY <1>1, <1>2, WFMin
<1>4. PICK x \in others : \A y \in others : ~(<<y, x>> \in less)
  BY <1>3, Zenon
<1>5. x \in Nat /\ x \notin S
  OBVIOUS
<1>6. x # 0 /\ x - 1 \in Nat
  BY ONLY <1>5, 0 \in S
<1>7. x - 1 \notin S
  BY ONLY \A n \in Nat : n \in S => n + 1 \in S, <1>5, <1>6
<1>8. <<x - 1, x>> \in less
  BY <1>5, <1>6 DEF OpToRel
<1>9. x - 1 \in others
  BY <1>6, <1>7
<1>10. QED
  BY <1>4, <1>8, <1>9, Zenon

(* f[k] comes from f[k - 1], up to n.                                      *)
IteratesUpTo(f, n, a, step) == f[0] = a /\ \A k \in 1 .. n : f[k] = step[<<f[k - 1], k>>]

(* There is only one such function.                                        *)
LEMMA IteratesOnce ==
  ASSUME NEW n \in Nat, NEW a, NEW step, NEW f, NEW g,
         IteratesUpTo(f, n, a, step), IteratesUpTo(g, n, a, step)
  PROVE  \A k \in 0 .. n : f[k] = g[k]
<1> DEFINE same == {k \in Nat : k <= n => f[k] = g[k]}
<1>1. 0 \in same
  BY DEF IteratesUpTo
<1>2. ASSUME NEW k \in Nat, k \in same PROVE k + 1 \in same
  <2> SUFFICES ASSUME k + 1 <= n PROVE f[k + 1] = g[k + 1]
    OBVIOUS
  <2>1. f[k] = g[k]
    BY <1>2
  <2>2. k + 1 \in 1 .. n /\ (k + 1) - 1 = k
    OBVIOUS
  <2>3. f[k + 1] = step[<<f[(k + 1) - 1], k + 1>>] /\ g[k + 1] = step[<<g[(k + 1) - 1], k + 1>>]
    BY <2>2, Zenon DEF IteratesUpTo
  <2>4. QED
    BY <2>1, <2>2, <2>3
<1>3. \A k \in Nat : k \in same
  <2> HIDE DEF same
  <2>1. QED
    BY <1>1, <1>2, SetInduction
<1>4. QED
  BY <1>3

(* Any step taken up to n times from a: the functions [k \in 0 .. n |->    *)
(* ...] of the models exist.                                               *)
LEMMA IterationUpTo ==
  ASSUME NEW S, NEW a \in S, NEW step \in [S \X Nat -> S]
  PROVE  \A n \in Nat : \E f \in [0 .. n -> S] : IteratesUpTo(f, n, a, step)
<1> DEFINE reached == {n \in Nat : \E f \in [0 .. n -> S] : IteratesUpTo(f, n, a, step)}
<1>1. 0 \in reached
  <2> DEFINE f == [k \in 0 .. 0 |-> a]
  <2>1. f \in [0 .. 0 -> S] /\ IteratesUpTo(f, 0, a, step)
    BY DEF IteratesUpTo
  <2>2. QED
    BY <2>1
<1>2. ASSUME NEW n \in Nat, n \in reached PROVE n + 1 \in reached
  <2>1. PICK f \in [0 .. n -> S] : IteratesUpTo(f, n, a, step)
    BY <1>2
  <2> DEFINE g == [k \in 0 .. n + 1 |-> IF k <= n THEN f[k] ELSE step[<<f[n], n + 1>>]]
  <2>2. step[<<f[n], n + 1>>] \in S
    <3>1. <<f[n], n + 1>> \in S \X Nat
      OBVIOUS
    <3>2. QED
      BY <3>1
  <2>3. g \in [0 .. n + 1 -> S]
    BY <2>2
  <2>4. g[0] = a
    BY <2>1 DEF IteratesUpTo
  <2>5. ASSUME NEW k \in 1 .. n + 1 PROVE g[k] = step[<<g[k - 1], k>>]
    <3>1. CASE k = n + 1
      BY <3>1
    <3>2. CASE k \in 1 .. n
      <4>1. g[k] = f[k] /\ g[k - 1] = f[k - 1]
        BY <3>2
      <4>2. f[k] = step[<<f[k - 1], k>>]
        BY <3>2, <2>1, Zenon DEF IteratesUpTo
      <4>3. QED
        BY <4>1, <4>2, Zenon
    <3>3. QED
      BY <3>1, <3>2
  <2>6. IteratesUpTo(g, n + 1, a, step)
    <3> HIDE DEF g
    <3>1. QED
      BY <2>4, <2>5, Zenon DEF IteratesUpTo
  <2>7. QED
    <3> HIDE DEF g
    <3>1. QED
      BY <2>3, <2>6
<1>3. \A n \in Nat : n \in reached
  <2> HIDE DEF reached
  <2>1. QED
    BY <1>1, <1>2, SetInduction
<1>4. QED
  BY <1>3

(* f[k] comes from f[k - 1], for every k.                                  *)
Iterates(f, a, step) == f[0] = a /\ \A k \in Nat \ {0} : f[k] = step[<<f[k - 1], k>>]

(* The same without an end.                                                *)
LEMMA IterationExists ==
  ASSUME NEW S, NEW a \in S, NEW step \in [S \X Nat -> S]
  PROVE  \E f \in [Nat -> S] : Iterates(f, a, step)
<1> DEFINE To(n) == CHOOSE f \in [0 .. n -> S] : IteratesUpTo(f, n, a, step)
           g == [n \in Nat |-> To(n)[n]]
<1>1. ASSUME NEW n \in Nat PROVE To(n) \in [0 .. n -> S] /\ IteratesUpTo(To(n), n, a, step)
  BY IterationUpTo, Zenon
<1>2. ASSUME NEW n \in Nat \ {0}
      PROVE  To(n)[n] = step[<<To(n)[n - 1], n>>] /\ To(n)[n - 1] = To(n - 1)[n - 1]
  <2> HIDE DEF To
  <2>1. n \in 1 .. n /\ n - 1 \in Nat /\ n - 1 \in 0 .. n - 1
    OBVIOUS
  <2>2. IteratesUpTo(To(n), n, a, step) /\ IteratesUpTo(To(n - 1), n - 1, a, step)
    BY <1>1, <2>1
  <2>3. IteratesUpTo(To(n), n - 1, a, step)
    <3>1. \A k \in 1 .. n - 1 : k \in 1 .. n
      OBVIOUS
    <3>2. QED
      BY <2>2, <3>1, Zenon DEF IteratesUpTo
  <2>4. To(n)[n - 1] = To(n - 1)[n - 1]
    BY <2>1, <2>2, <2>3, IteratesOnce
  <2>5. To(n)[n] = step[<<To(n)[n - 1], n>>]
    BY <2>1, <2>2, Zenon DEF IteratesUpTo
  <2>6. QED
    BY <2>4, <2>5
<1> HIDE DEF To
<1>3. \A n \in Nat : To(n)[n] \in S
  <2> SUFFICES ASSUME NEW n \in Nat PROVE To(n)[n] \in S
    OBVIOUS
  <2>1. To(n) \in [0 .. n -> S] /\ n \in 0 .. n
    BY <1>1
  <2>2. QED
    BY <2>1
<1>4. g \in [Nat -> S]
  BY <1>3
<1>5. g[0] = a
  <2>1. IteratesUpTo(To(0), 0, a, step)
    BY <1>1
  <2>2. QED
    BY <2>1 DEF IteratesUpTo
<1>6. ASSUME NEW k \in Nat \ {0} PROVE g[k] = step[<<g[k - 1], k>>]
  <2>1. k \in Nat /\ k - 1 \in Nat
    OBVIOUS
  <2>2. g[k] = To(k)[k] /\ g[k - 1] = To(k - 1)[k - 1]
    BY <2>1
  <2>3. QED
    BY <2>2, <1>2
<1>7. QED
  <2> HIDE DEF g
  <2>1. QED
    BY <1>4, <1>5, <1>6 DEF Iterates

-----------------------------------------------------------------------------
(***************************************************************************)
(* The bool coder (BoolCoder).                                             *)
(***************************************************************************)

(* The powers of two the coder is built from, for octets of eight bits.    *)
LEMMA Powers ==
  ASSUME W = 8
  PROVE  /\ 2^W = 256 /\ 2^(W - 1) = 128 /\ 2^(4 * W) = 4294967296 /\ 2^(4 * W - 1) = 2147483648
         /\ 2^(3 * W) = 16777216
         /\ 2^0 = 1 /\ 2^1 = 2 /\ 2^2 = 4 /\ 2^3 = 8 /\ 2^4 = 16 /\ 2^5 = 32 /\ 2^6 = 64 /\ 2^7 = 128
<1>1. 2^8 = 256 /\ 2^7 = 128 /\ 2^32 = 4294967296 /\ 2^31 = 2147483648 /\ 2^24 = 16777216
  OBVIOUS
<1>2. 2^0 = 1 /\ 2^1 = 2 /\ 2^2 = 4 /\ 2^3 = 8 /\ 2^4 = 16 /\ 2^5 = 32 /\ 2^6 = 64 /\ 2^7 = 128
  OBVIOUS
<1>3. W - 1 = 7 /\ 4 * W = 32 /\ 4 * W - 1 = 31 /\ 3 * W = 24
  OBVIOUS
<1>4. QED
  BY <1>1, <1>2, <1>3

(* Flushing puts the same bool Flushed times.                              *)
LEMMA FlushIterates ==
  ASSUME W = 8, NEW S, NEW e \in S, \A s \in S : Put(s, Bool(FALSE, Half)) \in S
  PROVE \E f :
           /\ f[0] = e /\ \A k \in 1 .. Flushed : f[k] = Put(f[k - 1], Bool(FALSE, Half))
           /\ Flush(e) = f[Flushed]
<1> DEFINE step == [p \in S \X Nat |-> Put(p[1], Bool(FALSE, Half))]
           Def(f) == f = [k \in 0 .. Flushed |-> IF k = 0 THEN e ELSE Put(f[k - 1], Bool(FALSE, Half))]
<1>0. Flushed \in Nat
  BY DEF Flushed
<1>1. step \in [S \X Nat -> S]
  OBVIOUS
<1>2. \E h \in [0 .. Flushed -> S] : IteratesUpTo(h, Flushed, e, step)
  <2> HIDE DEF step
  <2>1. \A n \in Nat : \E h \in [0 .. n -> S] : IteratesUpTo(h, n, e, step)
    BY <1>1, IterationUpTo
  <2>2. QED
    BY <1>0, <2>1
<1>3. PICK h \in [0 .. Flushed -> S] : IteratesUpTo(h, Flushed, e, step)
  BY <1>2, Zenon
<1>4. Def(h)
  <2>1. ASSUME NEW k \in 0 .. Flushed PROVE h[k] = IF k = 0 THEN e ELSE Put(h[k - 1], Bool(FALSE, Half))
    <3>1. h[k] = IF k = 0 THEN e ELSE step[<<h[k - 1], k>>]
      <4> HIDE DEF step
      <4>1. QED
        BY <1>3 DEF IteratesUpTo
    <3>2. CASE k = 0
      BY <3>1, <3>2
    <3>3. CASE k # 0
      <4>1. k \in Nat /\ k - 1 \in 0 .. Flushed
        BY <1>0, <3>3
      <4>2. h[k - 1] \in S
        BY <4>1
      <4>3. step[<<h[k - 1], k>>] = Put(h[k - 1], Bool(FALSE, Half))
        BY <4>1, <4>2
      <4>4. QED
        BY <3>1, <3>3, <4>3, Zenon
    <3>4. QED
      BY <3>2, <3>3
  <2>2. h = [k \in 0 .. Flushed |-> h[k]]
    OBVIOUS
  <2>3. QED
    BY <2>1, <2>2
<1> DEFINE after == CHOOSE f : Def(f)
<1>5. Def(after)
  <2> HIDE DEF Def
  <2>1. QED
    BY <1>4, Zenon
<1>6. Flush(e) = after[Flushed]
  BY DEF Flush
<1>7. \A k \in 0 .. Flushed : after[k] = IF k = 0 THEN e ELSE Put(after[k - 1], Bool(FALSE, Half))
  <2> HIDE DEF after
  <2>1. QED
    BY <1>5
<1> HIDE DEF after
<1>8. after[0] = e /\ \A k \in 1 .. Flushed : after[k] = Put(after[k - 1], Bool(FALSE, Half))
  <2>1. 0 \in 0 .. Flushed /\ \A k \in 1 .. Flushed : k \in 0 .. Flushed /\ k # 0
    BY <1>0
  <2>2. QED
    BY <1>7, <2>1, Zenon
<1>9. QED
  BY <1>6, <1>8

(* What the encoder outputs and the decoder is given.                      *)
IsOctet(n) == n \in Nat /\ n <= 255
OctetSeqs == {o \in Seq(Nat) : \A i \in 1 .. Len(o) : IsOctet(o[i])}

(* An encoder between two puts: the range is normal, and the register      *)
(* waits for 1 to 24 bits.                                                 *)
EncoderStates ==
  {e \in [output : OctetSeqs, range : Nat, bottom : Nat, bit_count : Int, overflowed : BOOLEAN] :
     /\ 128 <= e.range /\ e.range <= 255
     /\ -24 <= e.bit_count /\ e.bit_count <= -1}

(* A bool and its probability, which is never 0.                           *)
Bools == {bool \in [bit : BOOLEAN, probability : Nat] : 1 <= bool.probability /\ bool.probability <= 255}

(* Both parts of a range have room.                                        *)
LEMMA SplitInside ==
  ASSUME W = 8, NEW range \in Nat, 128 <= range, range <= 255, NEW p \in Nat, 1 <= p, p <= 255
  PROVE  Split(range, p) \in Nat /\ 1 <= Split(range, p) /\ Split(range, p) < range
<1> DEFINE n == (range - 1) * p
<1>1. n \in Nat /\ n <= (range - 1) * 255
  OBVIOUS
<1>2. n < (range - 1) * 256
  BY <1>1
<1>3. Split(range, p) = 1 + n \div 256
  BY Powers, SMT DEF Split
<1> HIDE DEF n
<1>4. QED
  BY <1>1, <1>2, <1>3

(* The part of the interval a bool chooses lies in the interval.           *)
LEMMA PartInside ==
  ASSUME W = 8, NEW e \in EncoderStates, NEW bool \in Bools
  PROVE  /\ PartBottom(e, bool) \in Nat /\ PartRange(e, bool) \in Nat /\ 1 <= PartRange(e, bool)
         /\ e.bottom <= PartBottom(e, bool)
         /\ PartBottom(e, bool) + PartRange(e, bool) <= e.bottom + e.range
<1> DEFINE split == Split(e.range, bool.probability)
<1>1. e.range \in Nat /\ 128 <= e.range /\ e.range <= 255 /\ e.bottom \in Nat
  BY DEF EncoderStates
<1>2. bool.probability \in Nat /\ 1 <= bool.probability /\ bool.probability <= 255
  BY DEF Bools
<1>3. split \in Nat /\ 1 <= split /\ split < e.range
  BY <1>1, <1>2, SplitInside
<1>4. PartRange(e, bool) = IF bool.bit THEN e.range - split ELSE split
  BY DEF PartRange
<1>5. PartBottom(e, bool) = IF bool.bit THEN e.bottom + split ELSE e.bottom
  BY DEF PartBottom
<1> HIDE DEF split
<1>6. QED
  BY <1>1, <1>3, <1>4, <1>5

(* Powers of two up to the width of the register.                          *)
LEMMA PowersDouble ==
  ASSUME NEW n \in Nat, n <= 31
  PROVE  2^n \in Nat /\ 2^n >= 1 /\ 2^(n + 1) = 2 * 2^n
<1>1. CASE n = 0
  BY <1>1
<1>2. CASE n = 1
  BY <1>2
<1>3. CASE n = 2
  BY <1>3
<1>4. CASE n = 3
  BY <1>4
<1>5. CASE n = 4
  BY <1>5
<1>6. CASE n = 5
  BY <1>6
<1>7. CASE n = 6
  BY <1>7
<1>8. CASE n = 7
  BY <1>8
<1>9. CASE n = 8
  BY <1>9
<1>10. CASE n = 9
  BY <1>10
<1>11. CASE n = 10
  BY <1>11
<1>12. CASE n = 11
  BY <1>12
<1>13. CASE n = 12
  BY <1>13
<1>14. CASE n = 13
  BY <1>14
<1>15. CASE n = 14
  BY <1>15
<1>16. CASE n = 15
  BY <1>16
<1>17. CASE n = 16
  BY <1>17
<1>18. CASE n = 17
  BY <1>18
<1>19. CASE n = 18
  BY <1>19
<1>20. CASE n = 19
  BY <1>20
<1>21. CASE n = 20
  BY <1>21
<1>22. CASE n = 21
  BY <1>22
<1>23. CASE n = 22
  BY <1>23
<1>24. CASE n = 23
  BY <1>24
<1>25. CASE n = 24
  BY <1>25
<1>26. CASE n = 25
  BY <1>26
<1>27. CASE n = 26
  BY <1>27
<1>28. CASE n = 27
  BY <1>28
<1>29. CASE n = 28
  BY <1>29
<1>30. CASE n = 29
  BY <1>30
<1>31. CASE n = 30
  BY <1>31
<1>32. CASE n = 31
  BY <1>32
<1>33. QED
  <2>1. CASE n <= 15
    BY <2>1, <1>1, <1>2, <1>3, <1>4, <1>5, <1>6, <1>7, <1>8, <1>9, <1>10, <1>11, <1>12, <1>13, <1>14, <1>15, <1>16
  <2>2. CASE n >= 16
    BY <2>2, <1>17, <1>18, <1>19, <1>20, <1>21, <1>22, <1>23, <1>24, <1>25, <1>26, <1>27, <1>28, <1>29, <1>30, <1>31, <1>32
  <2>3. QED
    BY <2>1, <2>2

(* They grow.                                                              *)
LEMMA PowersGrow ==
  \A n \in Nat : n <= 31 => 2^n <= 2^31 /\ 2^n \in Nat
<1> DEFINE below == {k \in Nat : k <= 31 => 2^(31 - k) <= 2^31 /\ 2^(31 - k) \in Nat}
<1>1. 0 \in below
  BY SMT
<1>2. ASSUME NEW k \in Nat, k \in below PROVE k + 1 \in below
  <2> SUFFICES ASSUME k + 1 <= 31 PROVE 2^(31 - (k + 1)) <= 2^31 /\ 2^(31 - (k + 1)) \in Nat
    OBVIOUS
  <2> DEFINE m == 31 - (k + 1)
  <2>1. m \in Nat /\ m <= 31 /\ m + 1 = 31 - k
    OBVIOUS
  <2>2. 2^(m + 1) <= 2^31 /\ 2^(m + 1) \in Nat
    BY <1>2, <2>1
  <2> HIDE DEF m
  <2>3. 2^m \in Nat /\ 2^(m + 1) = 2 * 2^m
    BY <2>1, PowersDouble
  <2>4. 2^m <= 2^31
    BY <2>2, <2>3
  <2>5. QED
    BY <2>3, <2>4 DEF m
<1>3. \A k \in Nat : k \in below
  <2> HIDE DEF below
  <2>1. QED
    BY <1>1, <1>2, SetInduction
<1>4. QED
  <2> SUFFICES ASSUME NEW n \in Nat, n <= 31 PROVE 2^n <= 2^31 /\ 2^n \in Nat
    OBVIOUS
  <2>1. 31 - n \in Nat /\ 31 - n <= 31 /\ 31 - (31 - n) = n
    OBVIOUS
  <2>2. QED
    BY <1>3, <2>1

(* The same, some bits further.                                            *)
LEMMA PowersMultiply ==
  ASSUME NEW n \in Nat, NEW s \in Nat, s <= 7, n + s <= 31
  PROVE  2^(n + s) = 2^s * 2^n /\ 2^n \in Nat /\ 2^s \in Nat /\ 2^n >= 1 /\ 2^s >= 1
<1>1. \A m \in Nat : m <= 31 => 2^m \in Nat /\ 2^m >= 1 /\ 2^(m + 1) = 2 * 2^m
  BY PowersDouble
<1>2. 2^n \in Nat /\ 2^n >= 1 /\ 2^s \in Nat /\ 2^s >= 1
  BY <1>1
<1>3. /\ 2^(n + 1) = 2 * 2^n
      /\ s >= 2 => 2^((n + 1) + 1) = 2 * 2^(n + 1)
      /\ s >= 3 => 2^((n + 2) + 1) = 2 * 2^(n + 2)
      /\ s >= 4 => 2^((n + 3) + 1) = 2 * 2^(n + 3)
      /\ s >= 5 => 2^((n + 4) + 1) = 2 * 2^(n + 4)
      /\ s >= 6 => 2^((n + 5) + 1) = 2 * 2^(n + 5)
      /\ s >= 7 => 2^((n + 6) + 1) = 2 * 2^(n + 6)
  BY <1>1
<1>4. CASE s = 0
  BY <1>2, <1>4
<1>5. CASE s = 1
  BY <1>2, <1>3, <1>5
<1>6. CASE s = 2
  BY <1>2, <1>3, <1>6
<1>7. CASE s = 3
  BY <1>2, <1>3, <1>7
<1>8. CASE s = 4
  BY <1>2, <1>3, <1>8
<1>9. CASE s = 5
  BY <1>2, <1>3, <1>9
<1>10. CASE s = 6
  BY <1>2, <1>3, <1>10
<1>11. CASE s = 7
  BY <1>2, <1>3, <1>11
<1>12. QED
  BY <1>4, <1>5, <1>6, <1>7, <1>8, <1>9, <1>10, <1>11

-----------------------------------------------------------------------------
(***************************************************************************)
(* Octets as numbers.                                                      *)
(***************************************************************************)

(* An octet by its place, zeros follow the last.                           *)
OctetAt(o, i) == IF i \in 1 .. Len(o) THEN o[i] ELSE 0

(* What the first k octets say as a number, by k.                          *)
IsValue(v, o) == v[0] = 0 /\ \A k \in Nat \ {0} : v[k] = 256 * v[k - 1] + OctetAt(o, k)

(* What the first octets say, as a number.                                 *)
Value(o) == CHOOSE v \in [Nat -> Nat] : IsValue(v, o)

(* The numbers k octets can say are below this one.                        *)
IsPower256(p) == p[0] = 1 /\ \A k \in Nat \ {0} : p[k] = 256 * p[k - 1]
Power256 == CHOOSE p \in [Nat -> Nat] : IsPower256(p)

(* An octet is an octet.                                                   *)
LEMMA OctetAtType ==
  ASSUME NEW o \in OctetSeqs, NEW i
  PROVE  OctetAt(o, i) \in Nat /\ OctetAt(o, i) <= 255
BY DEF OctetAt, OctetSeqs, IsOctet

(* The values of the prefixes exist, by IterationExists.                   *)
LEMMA ValueExists ==
  ASSUME NEW o \in OctetSeqs
  PROVE  Value(o) \in [Nat -> Nat] /\ IsValue(Value(o), o)
<1> DEFINE step == [q \in Nat \X Nat |-> 256 * q[1] + OctetAt(o, q[2])]
<1>1. step \in [Nat \X Nat -> Nat]
  BY OctetAtType
<1>2. \E f \in [Nat -> Nat] : Iterates(f, 0, step)
  <2> HIDE DEF step
  <2>1. 0 \in Nat
    OBVIOUS
  <2>2. QED
    BY <1>1, <2>1, IterationExists
<1>3. PICK f \in [Nat -> Nat] : Iterates(f, 0, step)
  BY <1>2, Zenon
<1>4. \A k \in Nat \ {0} : step[<<f[k - 1], k>>] = 256 * f[k - 1] + OctetAt(o, k)
  OBVIOUS
<1>5. IsValue(f, o)
  <2> HIDE DEF step
  <2>1. QED
    BY <1>3, <1>4 DEF IsValue, Iterates
<1>6. QED
  BY <1>5, Zenon DEF Value

(* The powers of 256 exist, by IterationExists.                            *)
LEMMA Power256Exists == Power256 \in [Nat -> Nat] /\ IsPower256(Power256)
<1> DEFINE step == [q \in Nat \X Nat |-> 256 * q[1]]
<1>1. step \in [Nat \X Nat -> Nat]
  OBVIOUS
<1>2. \E f \in [Nat -> Nat] : Iterates(f, 1, step)
  <2> HIDE DEF step
  <2>1. 1 \in Nat
    OBVIOUS
  <2>2. QED
    BY <1>1, <2>1, IterationExists
<1>3. PICK f \in [Nat -> Nat] : Iterates(f, 1, step)
  BY <1>2, Zenon
<1>4. \A k \in Nat \ {0} : step[<<f[k - 1], k>>] = 256 * f[k - 1]
  OBVIOUS
<1>5. IsPower256(f)
  <2> HIDE DEF step
  <2>1. QED
    BY <1>3, <1>4 DEF IsPower256, Iterates
<1>6. QED
  BY <1>5, Zenon DEF Power256

(* One octet more.                                                         *)
LEMMA ValueGoesOn ==
  ASSUME NEW o \in OctetSeqs, NEW k \in Nat
  PROVE  Value(o)[k] \in Nat /\ Value(o)[k + 1] = 256 * Value(o)[k] + OctetAt(o, k + 1)
<1>1. Value(o) \in [Nat -> Nat] /\ IsValue(Value(o), o)
  BY ValueExists
<1>2. k + 1 \in Nat \ {0} /\ (k + 1) - 1 = k
  OBVIOUS
<1>3. QED
  BY <1>1, <1>2 DEF IsValue

(* No octets are worth nothing.                                            *)
LEMMA ValueStarts ==
  ASSUME NEW o \in OctetSeqs
  PROVE  Value(o)[0] = 0
BY ValueExists DEF IsValue

(* One octet of room more.                                                 *)
LEMMA Power256GoesOn ==
  ASSUME NEW k \in Nat
  PROVE  Power256[k] \in Nat /\ Power256[k + 1] = 256 * Power256[k]
<1>1. k + 1 \in Nat \ {0} /\ (k + 1) - 1 = k
  OBVIOUS
<1>2. QED
  BY <1>1, Power256Exists DEF IsPower256

(* There is always room.                                                   *)
LEMMA Power256Positive ==
  \A k \in Nat : Power256[k] >= 1
<1> DEFINE positive == {k \in Nat : Power256[k] >= 1}
<1>1. 0 \in positive
  BY Power256Exists DEF IsPower256
<1>2. \A k \in Nat : k \in positive => k + 1 \in positive
  BY Power256GoesOn
<1>3. \A k \in Nat : k \in positive
  <2> HIDE DEF positive
  <2>1. QED
    BY <1>1, <1>2, SetInduction
<1>4. QED
  BY <1>3

(* The first octets say the same in a longer output.                       *)
LEMMA SamePrefixSameValue ==
  ASSUME NEW o \in OctetSeqs, NEW p \in OctetSeqs, NEW n \in Nat,
         \A i \in 1 .. n : OctetAt(p, i) = OctetAt(o, i)
  PROVE  \A k \in 0 .. n : Value(p)[k] = Value(o)[k]
<1> DEFINE same == {k \in Nat : k <= n => Value(p)[k] = Value(o)[k]}
<1>1. 0 \in same
  BY ValueStarts
<1>2. ASSUME NEW k \in Nat, k \in same PROVE k + 1 \in same
  <2> SUFFICES ASSUME k + 1 <= n PROVE Value(p)[k + 1] = Value(o)[k + 1]
    OBVIOUS
  <2>1. OctetAt(p, k + 1) = OctetAt(o, k + 1) /\ Value(p)[k] = Value(o)[k]
    BY <1>2
  <2>2. QED
    BY <2>1, ValueGoesOn
<1>3. \A k \in Nat : k \in same
  <2> HIDE DEF same
  <2>1. QED
    BY <1>1, <1>2, SetInduction
<1>4. QED
  BY <1>3

(* An octet at the end.                                                    *)
LEMMA ValueOfAppended ==
  ASSUME NEW o \in OctetSeqs, NEW x \in Nat, x <= 255
  PROVE  /\ Append(o, x) \in OctetSeqs /\ Len(Append(o, x)) = Len(o) + 1
         /\ Value(Append(o, x))[Len(o) + 1] = 256 * Value(o)[Len(o)] + x
         /\ \A i \in 1 .. Len(o) : OctetAt(Append(o, x), i) = OctetAt(o, i)
<1>1. /\ Append(o, x) \in Seq(Nat) /\ Len(Append(o, x)) = Len(o) + 1 /\ Len(o) \in Nat
      /\ \A i \in 1 .. Len(o) + 1 : Append(o, x)[i] = IF i = Len(o) + 1 THEN x ELSE o[i]
  BY DEF OctetSeqs
<1>2. Append(o, x) \in OctetSeqs
  <2>1. \A i \in 1 .. Len(o) : o[i] \in Nat /\ o[i] <= 255
    BY DEF OctetSeqs, IsOctet
  <2>2. \A i \in 1 .. Len(o) + 1 : Append(o, x)[i] \in Nat /\ Append(o, x)[i] <= 255
    BY <1>1, <2>1
  <2>3. QED
    BY <1>1, <2>2 DEF OctetSeqs, IsOctet
<1>3. \A i \in 1 .. Len(o) : OctetAt(Append(o, x), i) = OctetAt(o, i)
  BY <1>1 DEF OctetAt
<1>4. OctetAt(Append(o, x), Len(o) + 1) = x
  BY <1>1 DEF OctetAt
<1> DEFINE p == Append(o, x)
<1> HIDE DEF p
<1>5. Value(p)[Len(o)] = Value(o)[Len(o)]
  <2>1. \A k \in 0 .. Len(o) : Value(p)[k] = Value(o)[k]
    BY <1>1, <1>2, <1>3, SamePrefixSameValue DEF p
  <2>2. QED
    BY <1>1, <2>1
<1>6. Value(p)[Len(o) + 1] = 256 * Value(p)[Len(o)] + OctetAt(p, Len(o) + 1)
  BY <1>1, <1>2, ValueGoesOn DEF p
<1>7. QED
  BY <1>1, <1>2, <1>3, <1>4, <1>5, <1>6 DEF p

(* A carry adds one, unless all octets are full.                           *)
LEMMA ValueOfCarried ==
  ASSUME W = 8, NEW o \in OctetSeqs, NotFull(o) # {}
  PROVE  /\ AddOne(o) \in OctetSeqs /\ Len(AddOne(o)) = Len(o)
         /\ Value(AddOne(o))[Len(o)] = Value(o)[Len(o)] + 1
<1> DEFINE p == AddOne(o)
           Later(k) == \E j \in NotFull(o) : j > k
           Grown(k) == Value(o)[k] + (IF Later(k) THEN 0 ELSE 1)
<1>0. 2^W = 256 /\ 2^W - 1 = 255
  BY Powers, SMT
<1>1. /\ Len(o) \in Nat /\ DOMAIN o = 1 .. Len(o) /\ \A i \in 1 .. Len(o) : o[i] \in Nat /\ o[i] <= 255
  BY DEF OctetSeqs, IsOctet
<1>2. p = [i \in 1 .. Len(o) |-> IF Later(i) THEN o[i] ELSE (o[i] + 1) % 256]
  BY <1>0, <1>1 DEF AddOne
<1>3. \A i \in 1 .. Len(o) : p[i] \in Nat /\ p[i] <= 255
  <2> HIDE DEF Later
  <2>1. QED
    BY <1>1, <1>2
<1>4. p \in Seq(Nat) /\ Len(p) = Len(o)
  <2>1. p \in [1 .. Len(o) -> Nat]
    <3> HIDE DEF Later
    <3>1. QED
      BY <1>2, <1>3
  <2>2. QED
    BY <1>1, <2>1
<1>5. p \in OctetSeqs
  BY <1>3, <1>4 DEF OctetSeqs, IsOctet
<1>6. NotFull(o) = {i \in 1 .. Len(o) : o[i] # 255}
  BY <1>0, <1>1 DEF NotFull
<1> DEFINE right == {k \in Nat : k <= Len(o) => Value(p)[k] = Grown(k)}
<1>7. 0 \in right
  <2>1. Later(0)
    BY <1>6
  <2>2. Value(p)[0] = 0 /\ Value(o)[0] = 0
    BY <1>5, ValueStarts
  <2>3. QED
    BY <2>1, <2>2
<1>8. ASSUME NEW k \in Nat, k \in right PROVE k + 1 \in right
  <2> SUFFICES ASSUME k + 1 <= Len(o) PROVE Value(p)[k + 1] = Grown(k + 1)
    OBVIOUS
  <2>1. Value(p)[k] = Grown(k)
    BY <1>8, <1>1
  <2>2. /\ Value(p)[k + 1] = 256 * Value(p)[k] + OctetAt(p, k + 1)
        /\ Value(o)[k + 1] = 256 * Value(o)[k] + OctetAt(o, k + 1)
        /\ Value(o)[k] \in Nat
    <3> HIDE DEF p
    <3>1. QED
      BY ONLY k \in Nat, o \in OctetSeqs, p \in OctetSeqs, <1>5, ValueGoesOn
  <2>3. k + 1 \in 1 .. Len(o)
    BY <1>1
  <2>4. OctetAt(p, k + 1) = p[k + 1] /\ OctetAt(o, k + 1) = o[k + 1]
    BY <1>4, <2>3 DEF OctetAt
  <2>5. p[k + 1] = IF Later(k + 1) THEN o[k + 1] ELSE (o[k + 1] + 1) % 256
    <3> HIDE DEF Later, p
    <3>1. QED
      BY <1>2, <2>3
  <2>6. o[k + 1] \in Nat /\ o[k + 1] <= 255
    BY <1>1, <2>3
  <2>7. Later(k + 1) => Later(k)
    BY <1>6
  <2>8. o[k + 1] # 255 => Later(k)
    BY <1>6, <2>3
  <2>9. ~Later(k + 1) /\ o[k + 1] = 255 => ~Later(k)
    <3>1. SUFFICES ASSUME Later(k), o[k + 1] = 255 PROVE Later(k + 1)
      OBVIOUS
    <3>2. PICK j \in NotFull(o) : j > k
      BY <3>1
    <3>3. j \in Nat /\ j # k + 1
      BY <1>6, <3>1, <3>2
    <3>4. QED
      BY <3>2, <3>3
  <2> HIDE DEF Later, p
  <2>10. CASE Later(k + 1)
    <3>1. Grown(k) = Value(o)[k] /\ Grown(k + 1) = Value(o)[k + 1]
      <4>1. Value(o)[k + 1] \in Nat
        <5>1. k + 1 \in Nat
          OBVIOUS
        <5>2. QED
          BY <5>1, ValueGoesOn
      <4>2. Later(k)
        BY <2>7, <2>10
      <4>3. QED
        BY <2>2, <2>10, <4>1, <4>2
    <3>2. p[k + 1] = o[k + 1]
      BY <2>5, <2>10
    <3> HIDE DEF Grown
    <3>3. QED
      BY <2>1, <2>2, <2>4, <3>1, <3>2
  <2>11. CASE ~Later(k + 1) /\ o[k + 1] # 255
    <3>1. (o[k + 1] + 1) % 256 = o[k + 1] + 1
      BY <2>6, <2>11
    <3>2. QED
      BY <2>1, <2>2, <2>4, <2>5, <2>6, <2>8, <2>11, <3>1
  <2>12. CASE ~Later(k + 1) /\ o[k + 1] = 255
    BY <2>1, <2>2, <2>4, <2>5, <2>9, <2>12
  <2>13. QED
    BY <2>10, <2>11, <2>12
<1>9. \A k \in Nat : k \in right
  <2> HIDE DEF right
  <2>1. QED
    BY <1>7, <1>8, SetInduction
<1>10. ~Later(Len(o))
  BY <1>1, <1>6
<1>11. Value(p)[Len(o)] = Value(o)[Len(o)] + 1
  <2> HIDE DEF Later, p
  <2>1. QED
    BY <1>1, <1>9, <1>10
<1>12. QED
  BY <1>4, <1>5, <1>11

(* Octets that are all full are one less than a power.                     *)
LEMMA ValueOfFull ==
  ASSUME W = 8, NEW o \in OctetSeqs, NotFull(o) = {}
  PROVE  Value(o)[Len(o)] = Power256[Len(o)] - 1
<1> DEFINE full == {k \in Nat : k <= Len(o) => Value(o)[k] = Power256[k] - 1}
<1>0. 2^W - 1 = 255
  BY Powers, SMT
<1>1. Len(o) \in Nat /\ \A i \in 1 .. Len(o) : OctetAt(o, i) = 255
  BY <1>0 DEF NotFull, OctetSeqs, OctetAt
<1>2. 0 \in full
  <2>1. Value(o)[0] = 0 /\ Power256[0] = 1
    BY ValueStarts, Power256Exists DEF IsPower256
  <2>2. QED
    BY <2>1
<1>3. \A k \in Nat : k \in full => k + 1 \in full
  <2> SUFFICES ASSUME NEW k \in Nat, k \in full, k + 1 <= Len(o)
               PROVE  Value(o)[k + 1] = Power256[k + 1] - 1
    OBVIOUS
  <2>1. Value(o)[k] = Power256[k] - 1 /\ OctetAt(o, k + 1) = 255
    BY <1>1
  <2>2. Value(o)[k + 1] = 256 * Value(o)[k] + OctetAt(o, k + 1)
    BY ValueGoesOn
  <2>3. Power256[k] \in Nat /\ Power256[k + 1] = 256 * Power256[k]
    BY Power256GoesOn
  <2>4. QED
    BY <2>1, <2>2, <2>3
<1>4. \A k \in Nat : k \in full
  <2> HIDE DEF full
  <2>1. QED
    BY <1>2, <1>3, SetInduction
<1>5. QED
  BY <1>1, <1>4

-----------------------------------------------------------------------------
(***************************************************************************)
(* The encoder: its interval, and what a put does to it.                   *)
(***************************************************************************)

(* The limits of the register: where a carry shows, and below three        *)
(* octets.                                                                 *)
Two31 == 2147483648
Two24 == 16777216

(* What ShiftOut takes from the register: the carry, an octet, and what it *)
(* leaves.                                                                 *)
CarryOf(b, offset) == ((b * 2^(offset - 1)) \div Two31) % 2
OctetOf(b, offset) == (b \div 2^(24 - offset)) % 256
RestOf(b, offset) == (b * 2^offset) % Two24

(* The register comes apart into what it carries, an octet and what stays. *)
LEMMA RegisterComesApart ==
  ASSUME NEW b \in Nat, NEW offset \in Nat, 1 <= offset, offset <= 7, b < 2 * 2^(32 - offset)
  PROVE  /\ CarryOf(b, offset) \in Nat /\ OctetOf(b, offset) \in Nat /\ RestOf(b, offset) \in Nat
         /\ OctetOf(b, offset) <= 255 /\ RestOf(b, offset) < Two24
         /\ CarryOf(b, offset) = IF b >= 2^(32 - offset) THEN 1 ELSE 0
         /\ b * 2^offset = 256 * Two24 * CarryOf(b, offset) + Two24 * OctetOf(b, offset) + RestOf(b, offset)
<1> USE DEF Two31, Two24
<1>1. CASE offset = 1
  <2>1. /\ 2^(offset - 1) = 1 /\ 2^offset = 2 /\ 2^(24 - offset) = 8388608 /\ 2^(32 - offset) = 2147483648
    BY <1>1, SMT
  <2>2. QED
    BY <2>1, SMT DEF CarryOf, OctetOf, RestOf
<1>2. CASE offset = 2
  <2>1. /\ 2^(offset - 1) = 2 /\ 2^offset = 4 /\ 2^(24 - offset) = 4194304 /\ 2^(32 - offset) = 1073741824
    BY <1>2, SMT
  <2>2. QED
    BY <2>1, SMT DEF CarryOf, OctetOf, RestOf
<1>3. CASE offset = 3
  <2>1. /\ 2^(offset - 1) = 4 /\ 2^offset = 8 /\ 2^(24 - offset) = 2097152 /\ 2^(32 - offset) = 536870912
    BY <1>3, SMT
  <2>2. QED
    BY <2>1, SMT DEF CarryOf, OctetOf, RestOf
<1>4. CASE offset = 4
  <2>1. /\ 2^(offset - 1) = 8 /\ 2^offset = 16 /\ 2^(24 - offset) = 1048576 /\ 2^(32 - offset) = 268435456
    BY <1>4, SMT
  <2>2. QED
    BY <2>1, SMT DEF CarryOf, OctetOf, RestOf
<1>5. CASE offset = 5
  <2>1. /\ 2^(offset - 1) = 16 /\ 2^offset = 32 /\ 2^(24 - offset) = 524288 /\ 2^(32 - offset) = 134217728
    BY <1>5, SMT
  <2>2. QED
    BY <2>1, SMT DEF CarryOf, OctetOf, RestOf
<1>6. CASE offset = 6
  <2>1. /\ 2^(offset - 1) = 32 /\ 2^offset = 64 /\ 2^(24 - offset) = 262144 /\ 2^(32 - offset) = 67108864
    BY <1>6, SMT
  <2>2. QED
    BY <2>1, SMT DEF CarryOf, OctetOf, RestOf
<1>7. CASE offset = 7
  <2>1. /\ 2^(offset - 1) = 64 /\ 2^offset = 128 /\ 2^(24 - offset) = 131072 /\ 2^(32 - offset) = 33554432
    BY <1>7, SMT
  <2>2. QED
    BY <2>1, SMT DEF CarryOf, OctetOf, RestOf
<1>8. QED
  BY <1>1, <1>2, <1>3, <1>4, <1>5, <1>6, <1>7

(* The interval the encoder keeps, [Low, Low + range), at the scale of its *)
(* register: what its octets say and what the register adds.  Room is 1 at *)
(* that scale.  Bits is how often the interval has been doubled.           *)
Scale(e) == 2^(32 + e.bit_count)
LastValue(e) == Value(e.output)[Len(e.output)]
Low(e) == LastValue(e) * Scale(e) + e.bottom
PartLow(e, bool) == LastValue(e) * Scale(e) + PartBottom(e, bool)
Bits(e) == 8 * Len(e.output) + 24 + e.bit_count
Room(e) == Power256[Len(e.output)] * Scale(e)

(* Nothing has overflowed, the register holds one bit more than it waits   *)
(* for, and the interval ends at 255/256 or below.                         *)
EncoderOK(e) ==
  /\ e \in EncoderStates
  /\ ~e.overflowed
  /\ e.bottom + e.range <= 2 * Scale(e)
  /\ 256 * (Low(e) + e.range) <= 255 * Room(e)

(* Normalising a range doubles it at most seven times.                     *)
LEMMA NormInside ==
  ASSUME W = 8, NEW range \in Nat, 1 <= range, range <= 255
  PROVE  Norm(range) \in Nat /\ Norm(range) <= 7 /\ 128 <= range * 2^Norm(range) /\ range * 2^Norm(range) <= 255
<1> DEFINE Fits(s) == s \in 0 .. W - 1 /\ range * 2^s \in Half .. 2^W - 1
<1>1. Half = 128 /\ 2^W - 1 = 255
  BY Powers, SMT DEF Half
<1>2. /\ 2^0 = 1 /\ 2^1 = 2 /\ 2^2 = 4 /\ 2^3 = 8 /\ 2^4 = 16 /\ 2^5 = 32 /\ 2^6 = 64 /\ 2^7 = 128
  BY SMT
<1>3. \E s : Fits(s)
  <2>1. CASE range >= 128
    <3>1. Fits(0)
      BY <1>1, <1>2, <2>1
    <3>2. QED
      BY <3>1, Zenon
  <2>2. CASE range >= 64 /\ range < 128
    <3>1. Fits(1)
      BY <1>1, <1>2, <2>2
    <3>2. QED
      BY <3>1, Zenon
  <2>3. CASE range >= 32 /\ range < 64
    <3>1. Fits(2)
      BY <1>1, <1>2, <2>3
    <3>2. QED
      BY <3>1, Zenon
  <2>4. CASE range >= 16 /\ range < 32
    <3>1. Fits(3)
      BY <1>1, <1>2, <2>4
    <3>2. QED
      BY <3>1, Zenon
  <2>5. CASE range >= 8 /\ range < 16
    <3>1. Fits(4)
      BY <1>1, <1>2, <2>5
    <3>2. QED
      BY <3>1, Zenon
  <2>6. CASE range >= 4 /\ range < 8
    <3>1. Fits(5)
      BY <1>1, <1>2, <2>6
    <3>2. QED
      BY <3>1, Zenon
  <2>7. CASE range >= 2 /\ range < 4
    <3>1. Fits(6)
      BY <1>1, <1>2, <2>7
    <3>2. QED
      BY <3>1, Zenon
  <2>8. CASE range = 1
    <3>1. Fits(7)
      BY <1>1, <1>2, <2>8
    <3>2. QED
      BY <3>1, Zenon
  <2> HIDE DEF Fits
  <2>9. QED
    BY <2>1, <2>2, <2>3, <2>4, <2>5, <2>6, <2>7, <2>8
<1>4. Fits(Norm(range))
  BY <1>3, Zenon DEF Norm
<1> DEFINE m == W - 1
<1>5. m = 7 /\ Norm(range) \in 0 .. m /\ range * 2^Norm(range) \in Half .. 2^W - 1
  BY <1>4
<1> HIDE DEF m
<1>6. QED
  BY <1>1, <1>5

(* The types of the parts of the interval.                                 *)
LEMMA EncoderFacts ==
  ASSUME NEW e \in EncoderStates
  PROVE  /\ Scale(e) \in Nat /\ 1 <= Scale(e)
         /\ LastValue(e) \in Nat /\ Low(e) \in Nat /\ Len(e.output) \in Nat
         /\ Power256[Len(e.output)] \in Nat /\ 1 <= Power256[Len(e.output)] /\ Room(e) \in Nat
<1>1. /\ 32 + e.bit_count \in Nat /\ 32 + e.bit_count <= 31 /\ e.bottom \in Nat
      /\ e.output \in OctetSeqs /\ Len(e.output) \in Nat
  BY DEF EncoderStates, OctetSeqs
<1>2. Scale(e) \in Nat /\ 1 <= Scale(e)
  BY <1>1, PowersDouble DEF Scale
<1>3. LastValue(e) \in Nat
  BY <1>1, ValueGoesOn DEF LastValue
<1>4. Power256[Len(e.output)] \in Nat /\ 1 <= Power256[Len(e.output)]
  BY <1>1, Power256GoesOn, Power256Positive
<1>5. QED
  BY <1>1, <1>2, <1>3, <1>4 DEF Low, Room

(* The products of the next lemmas, which the solvers do not take apart.   *)
LEMMA Distributes ==
  ASSUME NEW v \in Nat, NEW q \in Nat, NEW b \in Nat, NEW n \in Nat
  PROVE  v * (n * q) + b * n = (v * q + b) * n
OBVIOUS

(* A factor on both sides.                                                 *)
LEMMA Multiplies ==
  ASSUME NEW a \in Int, NEW b \in Int, a <= b, NEW n \in Nat
  PROVE  a * n <= b * n
OBVIOUS

(* A bool that does not fill an octet.                                     *)
LEMMA PutInRegister ==
  ASSUME W = 8, NEW e, EncoderOK(e), NEW bool \in Bools,
         e.bit_count + Norm(PartRange(e, bool)) < 0
  PROVE  /\ EncoderOK(Put(e, bool))
         /\ Low(Put(e, bool)) = PartLow(e, bool) * 2^Norm(PartRange(e, bool))
         /\ Put(e, bool).range = PartRange(e, bool) * 2^Norm(PartRange(e, bool))
         /\ Bits(Put(e, bool)) = Bits(e) + Norm(PartRange(e, bool))
         /\ Put(e, bool).bit_count = e.bit_count + Norm(PartRange(e, bool))
         /\ Put(e, bool).bottom = PartBottom(e, bool) * 2^Norm(PartRange(e, bool))
         /\ Scale(Put(e, bool)) = Scale(e) * 2^Norm(PartRange(e, bool))
<1> DEFINE s == Norm(PartRange(e, bool))
           n == 2^s
           r == PartRange(e, bool)
           b == PartBottom(e, bool)
           f == [output |-> e.output, range |-> r * n, bottom |-> b * n, bit_count |-> e.bit_count + s,
                 overflowed |-> e.overflowed]
<1>1. e \in EncoderStates
  BY DEF EncoderOK
<1>2. /\ b \in Nat /\ r \in Nat /\ 1 <= r /\ e.bottom <= b /\ b + r <= e.bottom + e.range
  BY <1>1, PartInside
<1>3. /\ e.range \in Nat /\ 128 <= e.range /\ e.range <= 255 /\ e.bit_count \in Int /\ -24 <= e.bit_count /\ e.bit_count <= -1
      /\ e.bottom \in Nat /\ e.output \in OctetSeqs /\ e.overflowed \in BOOLEAN
  BY <1>1 DEF EncoderStates
<1>4. s \in Nat /\ s <= 7 /\ 128 <= r * n /\ r * n <= 255
  <2>1. r <= 255
    BY <1>2, <1>3
  <2> HIDE DEF r
  <2>2. QED
    BY <1>2, <2>1, NormInside DEF r
<1>5. Put(e, bool) = f
  <2>1. ~(e.bit_count + s >= 0)
    BY <1>3, <1>4
  <2>2. QED
    BY <2>1, Zenon DEF Put
<1> DEFINE c == 32 + e.bit_count
<1>6. c \in Nat /\ c + s <= 31
  BY <1>3, <1>4
<1>7. 2^(c + s) = n * 2^c /\ n \in Nat /\ n >= 1
  <2> HIDE DEF s, c
  <2>1. QED
    BY <1>4, <1>6, PowersMultiply
<1>8. Scale(f) = n * Scale(e)
  <2>1. 32 + (e.bit_count + s) = c + s
    BY <1>3, <1>4
  <2>2. f.bit_count = e.bit_count + s
    OBVIOUS
  <2> HIDE DEF f, s
  <2>3. QED
    BY <1>7, <2>1, <2>2 DEF Scale
<1>9. f \in EncoderStates
  <2> HIDE DEF s, n, r, b
  <2>1. e.bit_count + s \in Int /\ -24 <= e.bit_count + s /\ e.bit_count + s <= -1
    BY <1>3, <1>4 DEF s
  <2>2. r * n \in Nat /\ b * n \in Nat
    BY <1>2, <1>7
  <2>3. QED
    BY <1>3, <1>4, <2>1, <2>2 DEF EncoderStates
<1>10. LastValue(f) = LastValue(e) /\ f.bottom = b * n /\ f.range = r * n /\ f.overflowed = e.overflowed
  BY DEF LastValue
<1>11. /\ Scale(e) \in Nat /\ LastValue(e) \in Nat /\ Len(e.output) \in Nat
       /\ Power256[Len(e.output)] \in Nat
  BY <1>1, EncoderFacts
<1>12. Low(f) = PartLow(e, bool) * n
  <2> HIDE DEF n, b, f
  <2>1. Low(f) = LastValue(e) * (n * Scale(e)) + b * n
    BY <1>8, <1>10 DEF Low
  <2>2. PartLow(e, bool) = LastValue(e) * Scale(e) + b
    BY DEF PartLow, b
  <2>3. QED
    BY <1>2, <1>7, <1>11, <2>1, <2>2, Distributes
<1>13. Bits(f) = Bits(e) + s
  BY <1>3, <1>4, <1>11 DEF Bits
<1>14. f.bottom + f.range <= 2 * Scale(f)
  <2>1. e.bottom + e.range <= 2 * Scale(e)
    BY DEF EncoderOK
  <2> HIDE DEF n, b, r, f
  <2>2. b + r <= 2 * Scale(e)
    BY <1>2, <1>3, <1>11, <2>1
  <2>3. (b + r) * n <= (2 * Scale(e)) * n
    <3>1. b + r \in Int /\ 2 * Scale(e) \in Int
      BY <1>2, <1>11
    <3>2. QED
      BY <1>7, <2>2, <3>1, Multiplies
  <2>4. QED
    BY <1>2, <1>7, <1>8, <1>10, <1>11, <2>3
<1>15. 256 * (Low(f) + f.range) <= 255 * Room(f)
  <2>1. 256 * (Low(e) + e.range) <= 255 * Room(e)
    BY DEF EncoderOK
  <2>2. Low(e) = LastValue(e) * Scale(e) + e.bottom /\ PartLow(e, bool) = LastValue(e) * Scale(e) + b
    BY DEF Low, PartLow
  <2>3. Room(f) = Power256[Len(e.output)] * Scale(f) /\ Room(e) = Power256[Len(e.output)] * Scale(e)
    BY DEF Room
  <2> HIDE DEF n, b, r, f
  <2>4. LastValue(e) * Scale(e) \in Nat /\ Power256[Len(e.output)] * Scale(e) \in Nat
    BY <1>11
  <2> DEFINE z == LastValue(e) * Scale(e)
             y == Power256[Len(e.output)] * Scale(e)
  <2>5. 256 * (PartLow(e, bool) + r) <= 255 * y /\ PartLow(e, bool) \in Nat
    <3>1. Low(e) = z + e.bottom /\ PartLow(e, bool) = z + b /\ Room(e) = y /\ z \in Nat /\ y \in Nat
      BY <2>2, <2>3, <2>4
    <3> HIDE DEF z, y
    <3>2. QED
      BY <1>2, <1>3, <2>1, <3>1
  <2>6. Room(f) = y * n
    BY <1>7, <1>8, <1>11, <2>3
  <2> HIDE DEF z, y
  <2>7. y \in Nat
    BY <2>4 DEF y
  <2>8. (256 * (PartLow(e, bool) + r)) * n <= (255 * y) * n
    <3>1. 256 * (PartLow(e, bool) + r) \in Int /\ 255 * y \in Int
      BY <1>2, <2>5, <2>7
    <3>2. QED
      BY <1>7, <2>5, <3>1, Multiplies
  <2>9. QED
    BY <1>2, <1>7, <1>10, <1>12, <2>5, <2>6, <2>7, <2>8
<1>16. QED
  <2>1. EncoderOK(f)
    <3> HIDE DEF f
    <3>1. QED
      BY <1>9, <1>10, <1>14, <1>15, Zenon DEF EncoderOK
  <2>2. n * Scale(e) = Scale(e) * n
    <3> HIDE DEF n
    <3>1. QED
      BY <1>7, <1>11
  <2>3. f.bit_count = e.bit_count + s
    OBVIOUS
  <2> HIDE DEF f
  <2>4. QED
    BY <1>5, <1>8, <1>10, <1>12, <1>13, <2>1, <2>2, <2>3, Zenon

(* What is above the register and what it is moved by fill it.             *)
LEMMA OffsetFillsRegister ==
  ASSUME NEW offset \in Nat, 1 <= offset, offset <= 7
  PROVE  2^(32 - offset) * 2^offset = 256 * Two24
<1>1. CASE offset = 1
  <2>1. 2^offset = 2 /\ 2^(32 - offset) = 2147483648
    BY <1>1, SMT
  <2>2. QED
    BY <2>1, SMT DEF Two24
<1>2. CASE offset = 2
  <2>1. 2^offset = 4 /\ 2^(32 - offset) = 1073741824
    BY <1>2, SMT
  <2>2. QED
    BY <2>1, SMT DEF Two24
<1>3. CASE offset = 3
  <2>1. 2^offset = 8 /\ 2^(32 - offset) = 536870912
    BY <1>3, SMT
  <2>2. QED
    BY <2>1, SMT DEF Two24
<1>4. CASE offset = 4
  <2>1. 2^offset = 16 /\ 2^(32 - offset) = 268435456
    BY <1>4, SMT
  <2>2. QED
    BY <2>1, SMT DEF Two24
<1>5. CASE offset = 5
  <2>1. 2^offset = 32 /\ 2^(32 - offset) = 134217728
    BY <1>5, SMT
  <2>2. QED
    BY <2>1, SMT DEF Two24
<1>6. CASE offset = 6
  <2>1. 2^offset = 64 /\ 2^(32 - offset) = 67108864
    BY <1>6, SMT
  <2>2. QED
    BY <2>1, SMT DEF Two24
<1>7. CASE offset = 7
  <2>1. 2^offset = 128 /\ 2^(32 - offset) = 33554432
    BY <1>7, SMT
  <2>2. QED
    BY <2>1, SMT DEF Two24
<1>8. QED
  BY <1>1, <1>2, <1>3, <1>4, <1>5, <1>6, <1>7

(* What is left in the register after an octet has gone.                   *)
LEMMA ThreeOctetsShifted ==
  ASSUME NEW count \in Nat, count <= 7
  PROVE  2^(24 + count) = 2^count * Two24
<1>0. CASE count = 0
  BY <1>0, SMT DEF Two24
<1>1. CASE count = 1
  BY <1>1, SMT DEF Two24
<1>2. CASE count = 2
  BY <1>2, SMT DEF Two24
<1>3. CASE count = 3
  BY <1>3, SMT DEF Two24
<1>4. CASE count = 4
  BY <1>4, SMT DEF Two24
<1>5. CASE count = 5
  BY <1>5, SMT DEF Two24
<1>6. CASE count = 6
  BY <1>6, SMT DEF Two24
<1>7. CASE count = 7
  BY <1>7, SMT DEF Two24
<1>8. QED
  BY <1>0, <1>1, <1>2, <1>3, <1>4, <1>5, <1>6, <1>7

(* An octet and its carry moved to the output leave the low end where it   *)
(* was.                                                                    *)
LEMMA OctetShifted ==
  ASSUME NEW v \in Nat, NEW q \in Nat, NEW b \in Nat, NEW k \in Nat, NEW m \in Nat, NEW x \in Nat,
         NEW carry \in Nat, NEW octet \in Nat, NEW rest \in Nat,
         q * k = 256 * x, b * k = 256 * x * carry + x * octet + rest
  PROVE  (v * q + b) * (m * k) = (256 * (v + carry) + octet) * (m * x) + rest * m
<1>1. (v * q + b) * k = (256 * (v + carry) + octet) * x + rest
  <2>1. (v * q + b) * k = v * (q * k) + b * k
    OBVIOUS
  <2>2. v * (256 * x) + (256 * x * carry + x * octet + rest) = (256 * (v + carry) + octet) * x + rest
    OBVIOUS
  <2>3. QED
    BY <2>1, <2>2
<1>2. (v * q + b) * (m * k) = m * ((v * q + b) * k)
  OBVIOUS
<1>3. m * ((256 * (v + carry) + octet) * x + rest) = (256 * (v + carry) + octet) * (m * x) + rest * m
  OBVIOUS
<1>4. QED
  BY <1>1, <1>2, <1>3

(* p is o and the octet x.                                                 *)
IsAppended(p, o, x) ==
  /\ p \in OctetSeqs /\ Len(p) = Len(o) + 1
  /\ Value(p)[Len(o) + 1] = 256 * Value(o)[Len(o)] + x

(* Append does that.                                                       *)
LEMMA AppendedIsAppended ==
  \A o \in OctetSeqs : \A x \in Nat : x <= 255 => IsAppended(Append(o, x), o, x)
<1> SUFFICES ASSUME NEW o \in OctetSeqs, NEW x \in Nat, x <= 255 PROVE IsAppended(Append(o, x), o, x)
  OBVIOUS
<1>1. QED
  BY ValueOfAppended DEF IsAppended

(* A bool that fills an octet.  The interval ends below 1, so a carry      *)
(* always finds an octet that is not full.                                 *)
LEMMA PutOctet ==
  ASSUME W = 8, NEW e, EncoderOK(e), NEW bool \in Bools,
         e.bit_count + Norm(PartRange(e, bool)) >= 0
  PROVE  /\ EncoderOK(Put(e, bool))
         /\ Low(Put(e, bool)) = PartLow(e, bool) * 2^Norm(PartRange(e, bool))
         /\ Put(e, bool).range = PartRange(e, bool) * 2^Norm(PartRange(e, bool))
         /\ Bits(Put(e, bool)) = Bits(e) + Norm(PartRange(e, bool))
         /\ Put(e, bool).bit_count = (e.bit_count + Norm(PartRange(e, bool))) - 8
         /\ Put(e, bool).bottom < Scale(Put(e, bool))
<1> DEFINE s == Norm(PartRange(e, bool))
           n == 2^s
           r == PartRange(e, bool)
           b == PartBottom(e, bool)
           offset == -e.bit_count
           count == e.bit_count + s
           m == 2^count
           k == 2^offset
           q == Scale(e)
           carry == CarryOf(b, offset)
           octet == OctetOf(b, offset)
           rest == RestOf(b, offset)
           carried == IF carry = 1 THEN AddOne(e.output) ELSE e.output
           f == [output |-> Append(carried, octet), range |-> r * n, bottom |-> rest * m, bit_count |-> count - 8,
                 overflowed |-> e.overflowed \/ (carry = 1 /\ NotFull(e.output) = {})]
<1>1. e \in EncoderStates
  BY DEF EncoderOK
<1>2. /\ b \in Nat /\ r \in Nat /\ 1 <= r /\ e.bottom <= b /\ b + r <= e.bottom + e.range
  BY <1>1, PartInside
<1>3. /\ e.range \in Nat /\ 128 <= e.range /\ e.range <= 255 /\ e.bit_count \in Int /\ -24 <= e.bit_count /\ e.bit_count <= -1
      /\ e.bottom \in Nat /\ e.output \in OctetSeqs /\ e.overflowed \in BOOLEAN
  BY <1>1 DEF EncoderStates
<1>4. s \in Nat /\ s <= 7 /\ 128 <= r * n /\ r * n <= 255
  <2>1. r <= 255
    BY <1>2, <1>3
  <2> HIDE DEF r
  <2>2. QED
    BY <1>2, <2>1, NormInside DEF r
<1>5. offset \in Nat /\ 1 <= offset /\ offset <= 7 /\ count \in Nat /\ count <= 6 /\ s = count + offset
  BY <1>3, <1>4
<1>6. Put(e, bool) = f
  <2>1. Put(e, bool) = ShiftOut(e, r * n, b, count)
    <3>1. e.bit_count + s >= 0
      OBVIOUS
    <3>2. QED
      BY <3>1, Zenon DEF Put
  <2>2. /\ 4 * W - 1 = 31 /\ 3 * W - offset = 24 - offset /\ 2^W = 256 /\ 2^(4 * W - 1) = Two31 /\ 2^(3 * W) = Two24
        /\ count - W = count - 8
    <3>1. 2^W = 256 /\ 2^(4 * W - 1) = Two31 /\ 2^(3 * W) = Two24
      BY Powers, SMT DEF Two31, Two24
    <3>2. QED
      BY <1>3, <3>1
  <2> HIDE DEF b, r, n, s, offset, count
  <2>3. ShiftOut(e, r * n, b, count) = f
    BY <2>2, Zenon DEF ShiftOut, CarryOf, OctetOf, RestOf, offset
  <2>4. QED
    BY <2>1, <2>3, Zenon
<1>7. /\ q \in Nat /\ 1 <= q /\ LastValue(e) \in Nat /\ Low(e) \in Nat /\ Len(e.output) \in Nat
      /\ Power256[Len(e.output)] \in Nat /\ 1 <= Power256[Len(e.output)] /\ Room(e) \in Nat
  BY <1>1, EncoderFacts
<1>8. q = 2^(32 - offset)
  <2>1. 32 - offset = 32 + e.bit_count
    BY <1>3
  <2>2. QED
    BY <2>1 DEF Scale
<1>9. b + r <= 2 * q
  <2>1. e.bottom + e.range <= 2 * q
    BY DEF EncoderOK
  <2> HIDE DEF b, r, q
  <2>2. QED
    BY <1>2, <1>3, <1>7, <2>1
<1>10. /\ carry \in Nat /\ octet \in Nat /\ rest \in Nat /\ octet <= 255 /\ rest < Two24
       /\ carry = IF b >= q THEN 1 ELSE 0
       /\ b * k = 256 * Two24 * carry + Two24 * octet + rest
  <2> HIDE DEF b, r, offset, q
  <2>1. b < 2 * 2^(32 - offset)
    BY <1>2, <1>7, <1>8, <1>9
  <2>2. QED
    BY <1>2, <1>5, <1>8, <2>1, RegisterComesApart
<1>11. q * k = 256 * Two24 /\ Two24 \in Nat /\ 1 <= Two24
  <2> HIDE DEF offset, q
  <2>1. 2^(32 - offset) * 2^offset = 256 * Two24
    BY <1>5, OffsetFillsRegister
  <2>2. QED
    BY <1>8, <2>1 DEF Two24
<1>12. n = m * k /\ m \in Nat /\ 1 <= m /\ k \in Nat /\ 1 <= k
  <2> HIDE DEF offset, s, count
  <2>1. 2^(offset + count) = 2^count * 2^offset /\ 2^count \in Nat /\ 2^count >= 1 /\ 2^offset \in Nat /\ 2^offset >= 1
    BY <1>5, PowersMultiply
  <2>2. s = offset + count
    BY <1>5
  <2>3. QED
    BY <2>1, <2>2
<1>13. Scale(f) = m * Two24
  <2> HIDE DEF offset, s, count
  <2>1. 2^(24 + count) = 2^count * Two24
    BY <1>5, ThreeOctetsShifted
  <2>2. 32 + (count - 8) = 24 + count
    BY <1>5
  <2>3. f.bit_count = count - 8
    OBVIOUS
  <2> HIDE DEF f
  <2>4. QED
    BY <2>1, <2>2, <2>3, Zenon DEF Scale
<1>14. 256 * (PartLow(e, bool) + r) <= 255 * Room(e) /\ PartLow(e, bool) \in Nat
  <2>1. 256 * (Low(e) + e.range) <= 255 * Room(e)
    BY DEF EncoderOK
  <2> DEFINE z == LastValue(e) * q
  <2>2. Low(e) = z + e.bottom /\ PartLow(e, bool) = z + b /\ z \in Nat
    <3> HIDE DEF b
    <3>1. QED
      BY <1>7 DEF Low, PartLow, b
  <2>3. b + r <= e.bottom + e.range /\ b \in Nat /\ r \in Nat
    BY <1>2
  <2> HIDE DEF z, b, r, q
  <2>4. Low(e) + e.range >= PartLow(e, bool) + r /\ PartLow(e, bool) + r \in Nat /\ PartLow(e, bool) \in Nat
    BY <1>3, <2>2, <2>3
  <2>5. Low(e) + e.range \in Nat /\ Room(e) \in Nat
    BY <1>3, <1>7
  <2>6. QED
    BY <2>1, <2>4, <2>5
(* The interval ends below 1, so a carry finds an octet that is not full.  *)
<1>15. ~(carry = 1 /\ NotFull(e.output) = {})
  <2> SUFFICES ASSUME carry = 1, NotFull(e.output) = {} PROVE FALSE
    OBVIOUS
  <2>1. LastValue(e) = Power256[Len(e.output)] - 1
    BY <1>3, ValueOfFull DEF LastValue
  <2>2. b >= q
    BY <1>10
  <2>3. PartLow(e, bool) = LastValue(e) * q + b /\ Room(e) = Power256[Len(e.output)] * q
    BY DEF PartLow, Room
  <2> HIDE DEF b, q, r
  <2>4. (Power256[Len(e.output)] - 1) * q + q = Power256[Len(e.output)] * q
    BY <1>7
  <2>5. PartLow(e, bool) >= Room(e)
    BY <1>2, <1>7, <2>1, <2>2, <2>3, <2>4
  <2>6. QED
    BY <1>2, <1>7, <1>14, <2>5
<1>16. /\ carried \in OctetSeqs /\ Len(carried) = Len(e.output)
       /\ Value(carried)[Len(carried)] = LastValue(e) + carry
  <2>1. CASE carry = 1
    <3>1. NotFull(e.output) # {}
      BY <1>15, <2>1
    <3>2. /\ AddOne(e.output) \in OctetSeqs /\ Len(AddOne(e.output)) = Len(e.output)
          /\ Value(AddOne(e.output))[Len(e.output)] = LastValue(e) + 1
      BY <1>3, <3>1, ValueOfCarried DEF LastValue
    <3>3. carried = AddOne(e.output)
      BY <2>1
    <3>4. QED
      BY <2>1, <3>2, <3>3, Zenon
  <2>2. CASE carry = 0
    <3>1. carried = e.output
      BY <2>2
    <3>2. LastValue(e) + 0 = LastValue(e)
      BY <1>7
    <3>3. QED
      BY <1>3, <2>2, <3>1, <3>2, Zenon DEF LastValue
  <2>3. QED
    BY <1>10, <2>1, <2>2
<1>17. /\ f.output \in OctetSeqs /\ Len(f.output) = Len(e.output) + 1
       /\ LastValue(f) = 256 * (LastValue(e) + carry) + octet
  <2>1. f.output = Append(carried, octet)
    OBVIOUS
  <2> HIDE DEF carried, octet, carry, f
  <2>2. /\ Append(carried, octet) \in OctetSeqs /\ Len(Append(carried, octet)) = Len(carried) + 1
        /\ Value(Append(carried, octet))[Len(carried) + 1] = 256 * Value(carried)[Len(carried)] + octet
    <3>1. carried \in OctetSeqs /\ octet \in Nat /\ octet <= 255
      BY <1>10, <1>16
    <3>2. IsAppended(Append(carried, octet), carried, octet)
      BY <3>1, AppendedIsAppended, Zenon
    <3>3. QED
      BY <3>2, Zenon DEF IsAppended
  <2>3. QED
    BY <1>16, <2>1, <2>2 DEF LastValue
<1>18. f.bottom = rest * m /\ f.range = r * n /\ f.bit_count = count - 8 /\ ~f.overflowed
  <2>1. ~e.overflowed
    BY DEF EncoderOK
  <2>2. QED
    BY <1>15, <2>1
<1>19. Low(f) = PartLow(e, bool) * n
  <2>1. PartLow(e, bool) = LastValue(e) * q + b
    BY DEF PartLow
  <2> HIDE DEF n, b, f, q, k, m, carry, octet, rest
  <2>2. Low(f) = (256 * (LastValue(e) + carry) + octet) * (m * Two24) + rest * m
    BY <1>13, <1>17, <1>18 DEF Low
  <2>3. (LastValue(e) * q + b) * (m * k) = (256 * (LastValue(e) + carry) + octet) * (m * Two24) + rest * m
    <3>1. /\ LastValue(e) \in Nat /\ q \in Nat /\ b \in Nat /\ k \in Nat /\ m \in Nat /\ Two24 \in Nat
          /\ carry \in Nat /\ octet \in Nat /\ rest \in Nat
          /\ q * k = 256 * Two24 /\ b * k = 256 * Two24 * carry + Two24 * octet + rest
      BY <1>2, <1>7, <1>10, <1>11, <1>12
    <3> DEFINE v == LastValue(e)
    <3> HIDE DEF v
    <3>2. (v * q + b) * (m * k) = (256 * (v + carry) + octet) * (m * Two24) + rest * m
      <4>1. v \in Nat
        BY <3>1 DEF v
      <4>2. QED
        BY <3>1, <4>1, OctetShifted
    <3>3. QED
      BY <3>2 DEF v
  <2>4. QED
    BY <1>12, <2>1, <2>2, <2>3, Zenon
<1>20. f.bottom < Scale(f) /\ f.bottom \in Nat
  <2> HIDE DEF f, m, rest
  <2>1. rest * m < Two24 * m
    BY <1>10, <1>11, <1>12
  <2>2. rest * m \in Nat
    BY <1>10, <1>12
  <2>3. Two24 * m = m * Two24
    BY <1>11, <1>12
  <2>4. QED
    BY <1>13, <1>18, <2>1, <2>2, <2>3
<1>21. f \in EncoderStates
  <2>1. f = [output |-> f.output, range |-> f.range, bottom |-> f.bottom, bit_count |-> f.bit_count,
             overflowed |-> f.overflowed]
    OBVIOUS
  <2>2. f.overflowed \in BOOLEAN
    OBVIOUS
  <2>3. f.bit_count \in Int /\ -24 <= f.bit_count /\ f.bit_count <= -1
    BY <1>5, <1>18
  <2>4. f.range \in Nat /\ 128 <= f.range /\ f.range <= 255
    <3>1. r * n \in Nat
      <4> HIDE DEF r, n, m, k
      <4>1. QED
        BY <1>2, <1>12
    <3> HIDE DEF r, n, f
    <3>2. QED
      BY <1>4, <1>18, <3>1
  <2> HIDE DEF f
  <2>5. QED
    BY <1>17, <1>20, <2>1, <2>2, <2>3, <2>4 DEF EncoderStates
<1>22. Bits(f) = Bits(e) + s
  <2>1. f.bit_count = (e.bit_count + s) - 8 /\ Len(f.output) = Len(e.output) + 1
    BY <1>17
  <2>2. s \in Int /\ e.bit_count \in Int /\ Len(e.output) \in Int
    BY <1>3, <1>4, <1>7
  <2> HIDE DEF f, s
  <2>3. QED
    BY <2>1, <2>2 DEF Bits
<1>23. f.bottom + f.range <= 2 * Scale(f)
  <2>1. Scale(f) \in Nat /\ Scale(f) >= 255
    <3>1. m * Two24 >= Two24
      <4> HIDE DEF m, count
      <4>1. QED
        BY <1>11, <1>12
    <3>2. m * Two24 \in Nat /\ Two24 >= 255
      <4> HIDE DEF m, count
      <4>1. Two24 >= 255
        BY SMT DEF Two24
      <4>2. QED
        BY <1>11, <1>12, <4>1
    <3> HIDE DEF m, f
    <3>3. QED
      BY <1>11, <1>13, <3>1, <3>2
  <2>2. f.range \in Nat /\ f.range <= 255
    BY <1>21 DEF EncoderStates
  <2> HIDE DEF f
  <2>3. QED
    BY <1>20, <2>1, <2>2
<1>24. 256 * (Low(f) + f.range) <= 255 * Room(f)
  <2>1. Power256[Len(e.output) + 1] = 256 * Power256[Len(e.output)]
    BY <1>7, Power256GoesOn
  <2>2. Room(e) = Power256[Len(e.output)] * q
    BY DEF Room
  <2> HIDE DEF n, b, f, q, k, m, r
  <2>3. Room(f) = (256 * Power256[Len(e.output)]) * (m * Two24)
    BY <1>13, <1>17, <2>1 DEF Room
  <2>4. Room(f) = Room(e) * n
    <3>1. (256 * Power256[Len(e.output)]) * (m * Two24) = Power256[Len(e.output)] * m * (256 * Two24)
      BY <1>7, <1>11, <1>12
    <3>2. (Power256[Len(e.output)] * q) * (m * k) = Power256[Len(e.output)] * m * (q * k)
      BY <1>7, <1>11, <1>12
    <3>3. QED
      BY <1>11, <1>12, <2>2, <2>3, <3>1, <3>2
  <2>5. n \in Nat
    BY <1>12
  <2>6. (256 * (PartLow(e, bool) + r)) * n <= (255 * Room(e)) * n
    <3>1. 256 * (PartLow(e, bool) + r) \in Int /\ 255 * Room(e) \in Int
      BY <1>2, <1>7, <1>14
    <3>2. QED
      BY <1>14, <2>5, <3>1, Multiplies
  <2>7. QED
    BY <1>2, <1>7, <1>14, <1>18, <1>19, <2>4, <2>5, <2>6
<1>25. EncoderOK(f)
  <2> HIDE DEF f
  <2>1. QED
    BY <1>18, <1>21, <1>23, <1>24, Zenon DEF EncoderOK
<1>26. f.bit_count = (e.bit_count + s) - 8
  OBVIOUS
<1>27. QED
  <2> HIDE DEF f
  <2>1. EncoderOK(Put(e, bool)) /\ Low(Put(e, bool)) = PartLow(e, bool) * n
    BY <1>6, <1>19, <1>25, Zenon
  <2>2. Put(e, bool).range = r * n
    BY <1>6, <1>18, Zenon
  <2>3. Bits(Put(e, bool)) = Bits(e) + s
    BY <1>6, <1>22, Zenon
  <2>4. Put(e, bool).bit_count = (e.bit_count + s) - 8
    BY <1>6, <1>26, Zenon
  <2>5. Put(e, bool).bottom < Scale(Put(e, bool))
    BY <1>6, <1>20, Zenon
  <2>6. QED
    BY <2>1, <2>2, <2>3, <2>4, <2>5, Zenon

(* Both cases of a put.                                                    *)
LEMMA PutKeeps ==
  ASSUME W = 8, NEW e, EncoderOK(e), NEW bool \in Bools
  PROVE  /\ EncoderOK(Put(e, bool))
         /\ Low(Put(e, bool)) = PartLow(e, bool) * 2^Norm(PartRange(e, bool))
         /\ Put(e, bool).range = PartRange(e, bool) * 2^Norm(PartRange(e, bool))
         /\ Bits(Put(e, bool)) = Bits(e) + Norm(PartRange(e, bool))
<1> DEFINE count == e.bit_count + Norm(PartRange(e, bool))
<1>1. count \in Int
  <2>1. e \in EncoderStates /\ e.bit_count \in Int
    BY DEF EncoderOK, EncoderStates
  <2>2. /\ PartRange(e, bool) \in Nat /\ 1 <= PartRange(e, bool)
        /\ PartBottom(e, bool) + PartRange(e, bool) <= e.bottom + e.range /\ e.bottom <= PartBottom(e, bool)
        /\ PartBottom(e, bool) \in Nat
    BY <2>1, PartInside
  <2>3. PartRange(e, bool) <= 255
    BY <2>1, <2>2 DEF EncoderStates
  <2>4. Norm(PartRange(e, bool)) \in Nat
    BY <2>2, <2>3, NormInside
  <2>5. QED
    BY <2>1, <2>4
<1>2. CASE count < 0
  BY <1>2, PutInRegister
<1>3. CASE count >= 0
  BY <1>3, PutOctet
<1> HIDE DEF count
<1>4. QED
  BY <1>1, <1>2, <1>3

(* The interval the encoder starts with.                                   *)
LEMMA NewEncoderOK ==
  ASSUME W = 8
  PROVE  EncoderOK(NewBoolEncoder) /\ Low(NewBoolEncoder) = 0 /\ NewBoolEncoder.range = 255 /\ Bits(NewBoolEncoder) = 0
<1> DEFINE f == [output |-> << >>, range |-> 255, bottom |-> 0, bit_count |-> -24, overflowed |-> FALSE]
<1>1. NewBoolEncoder = f
  <2>1. 2^W - 1 = 255 /\ -3 * W = -24
    BY Powers, SMT
  <2>2. QED
    BY <2>1, Zenon DEF NewBoolEncoder
<1>2. << >> \in OctetSeqs /\ Len(<< >>) = 0
  BY DEF OctetSeqs
<1>3. f \in EncoderStates
  BY <1>2 DEF EncoderStates
<1>4. Value(<< >>)[0] = 0
  BY <1>2, ValueStarts
<1>5. Scale(f) = 256
  <2>1. 32 + -24 = 8 /\ 2^8 = 256
    BY SMT
  <2>2. QED
    BY <2>1, Zenon DEF Scale
<1>6. LastValue(f) = 0
  BY <1>2, <1>4 DEF LastValue
<1>7. Power256[0] = 1
  BY Power256Exists DEF IsPower256
<1>8. Room(f) = 256
  BY <1>2, <1>5, <1>7 DEF Room
<1>9. Low(f) = 0
  BY <1>5, <1>6 DEF Low
<1>10. Bits(f) = 0
  BY <1>2 DEF Bits
<1>11. EncoderOK(f)
  BY <1>3, <1>5, <1>8, <1>9 DEF EncoderOK
<1>12. QED
  <2>1. f.range = 255
    OBVIOUS
  <2> HIDE DEF f
  <2>2. QED
    BY <1>1, <1>9, <1>10, <1>11, <2>1, Zenon
(* The decoder's window: what T doublings have shifted into it.            *)
Z(X, T) == Value(X)[2 + T \div 8] * 2^(T % 8)

(* A doubling of the window brings in an octet every eighth time.          *)
LEMMA WindowDoubles ==
  ASSUME NEW X \in OctetSeqs, NEW T \in Nat
  PROVE  /\ Z(X, T) \in Nat /\ Z(X, T + 1) \in Nat
         /\ Z(X, T + 1) = 2 * Z(X, T) + (IF (T + 1) % 8 = 0 THEN OctetAt(X, 3 + T \div 8) ELSE 0)
         /\ (T + 1) % 8 = 0 => \E v \in Nat : Z(X, T) = 128 * v
<1> DEFINE c == 2 + T \div 8
           j == T % 8
<1>1. c \in Nat /\ j \in Nat /\ j <= 7
  OBVIOUS
<1>2. Value(X)[c] \in Nat /\ Value(X)[c + 1] = 256 * Value(X)[c] + OctetAt(X, c + 1)
  <2> HIDE DEF c
  <2>1. QED
    BY <1>1, ValueGoesOn
<1>3. OctetAt(X, c + 1) \in Nat
  BY OctetAtType
<1>4. 2^j \in Nat /\ 2^(j + 1) = 2 * 2^j
  <2> HIDE DEF j
  <2>1. QED
    BY <1>1, PowersDouble
<1>5. Z(X, T) = Value(X)[c] * 2^j /\ Z(X, T) \in Nat
  <2>1. Z(X, T) = Value(X)[c] * 2^j
    BY DEF Z
  <2> HIDE DEF c, j
  <2>2. QED
    BY <1>2, <1>4, <2>1
<1>6. CASE j = 7
  <2>1. (T + 1) \div 8 = T \div 8 + 1 /\ (T + 1) % 8 = 0
    BY <1>6
  <2>2. 2 + (T + 1) \div 8 = c + 1
    BY <2>1
  <2>3. 2^j = 128 /\ 2^((T + 1) % 8) = 1
    <3>1. 2^7 = 128 /\ 2^0 = 1
      OBVIOUS
    <3>2. QED
      BY <1>6, <2>1, <3>1
  <2>4. Z(X, T + 1) = Value(X)[c + 1] * 2^((T + 1) % 8)
    BY <2>2, Zenon DEF Z
  <2>5. 3 + T \div 8 = c + 1
    OBVIOUS
  <2> HIDE DEF c, j
  <2>6. Z(X, T + 1) = 256 * Value(X)[c] + OctetAt(X, c + 1) /\ Z(X, T) = 128 * Value(X)[c]
    BY <1>2, <1>3, <1>5, <2>3, <2>4
  <2>7. QED
    BY <1>2, <1>3, <1>5, <2>1, <2>5, <2>6
<1>7. CASE j # 7
  <2>1. (T + 1) \div 8 = T \div 8 /\ (T + 1) % 8 = j + 1 /\ (T + 1) % 8 # 0
    BY <1>7
  <2>2. 2 + (T + 1) \div 8 = c
    BY <2>1
  <2>3. Z(X, T + 1) = Value(X)[c] * 2^(j + 1)
    BY <2>1, <2>2, Zenon DEF Z
  <2> HIDE DEF c, j
  <2>4. Z(X, T + 1) = 2 * (Value(X)[c] * 2^j)
    BY <1>2, <1>4, <2>3
  <2>5. QED
    BY <1>5, <2>1, <2>4
<1>8. QED
  BY <1>6, <1>7

(* The window after T doublings lies in an interval, whose ends lack the   *)
(* eight bits below the window.                                            *)
Between(X, T, low, high) == 256 * low <= Z(X, T) /\ Z(X, T) < 256 * high

(* An interval that is whole before a doubling encloses what it enclosed   *)
(* after it.                                                               *)
LEMMA BetweenHalves ==
  ASSUME NEW X \in OctetSeqs, NEW T \in Nat, NEW low \in Nat, NEW high \in Nat,
         Between(X, T + 1, 2 * low, 2 * high)
  PROVE  Between(X, T, low, high)
<1> DEFINE o == OctetAt(X, 3 + T \div 8)
           z == Z(X, T)
           y == Z(X, T + 1)
<1>1. o \in Nat /\ o <= 255
  BY OctetAtType
<1>2. /\ z \in Nat /\ y \in Nat /\ y = 2 * z + (IF (T + 1) % 8 = 0 THEN o ELSE 0)
      /\ (T + 1) % 8 = 0 => \E v \in Nat : z = 128 * v
  BY WindowDoubles
<1>3. 256 * (2 * low) <= y /\ y < 256 * (2 * high)
  BY DEF Between
<1> HIDE DEF o, z, y
<1>4. 256 * low <= z /\ z < 256 * high
  BY <1>1, <1>2, <1>3
<1>5. QED
  BY <1>4 DEF Between, z

(* Several doublings back.                                                 *)
LEMMA BetweenBefore ==
  ASSUME NEW X \in OctetSeqs, NEW T \in Nat, NEW low \in Nat, NEW high \in Nat
  PROVE  \A s \in Nat : s <= 7 /\ Between(X, T + s, low * 2^s, high * 2^s) => Between(X, T, low, high)
<1> DEFINE goes == {s \in Nat : s <= 7 /\ Between(X, T + s, low * 2^s, high * 2^s) => Between(X, T, low, high)}
<1>1. 0 \in goes
  <2>1. 2^0 = 1 /\ T + 0 = T /\ low * 1 = low /\ high * 1 = high
    OBVIOUS
  <2>2. QED
    BY <2>1
<1>2. ASSUME NEW s \in Nat, s \in goes PROVE s + 1 \in goes
  <2> SUFFICES ASSUME s + 1 <= 7, Between(X, T + (s + 1), low * 2^(s + 1), high * 2^(s + 1))
               PROVE  Between(X, T, low, high)
    OBVIOUS
  <2>1. 2^s \in Nat /\ 2^(s + 1) = 2 * 2^s
    BY PowersDouble
  <2>2. low * 2^(s + 1) = 2 * (low * 2^s) /\ high * 2^(s + 1) = 2 * (high * 2^s) /\ low * 2^s \in Nat /\ high * 2^s \in Nat
    BY <2>1
  <2>3. T + (s + 1) = (T + s) + 1 /\ T + s \in Nat
    OBVIOUS
  <2>4. Between(X, (T + s) + 1, 2 * (low * 2^s), 2 * (high * 2^s))
    BY <2>2, <2>3
  <2>5. Between(X, T + s, low * 2^s, high * 2^s)
    BY <2>2, <2>3, <2>4, BetweenHalves
  <2>6. QED
    BY <1>2, <2>5
<1>3. \A s \in Nat : s \in goes
  <2> HIDE DEF goes
  <2>1. QED
    BY <1>1, <1>2, SetInduction
<1>4. QED
  BY <1>3

(* Between puts, and in the middle of one.                                 *)
Encloses(X, e) == Between(X, Bits(e), Low(e), Low(e) + e.range)
EnclosesPart(X, e, bool) == Between(X, Bits(e), PartLow(e, bool), PartLow(e, bool) + PartRange(e, bool))

(* What encloses the window after a put enclosed it before, and so did the *)
(* part the bool chose.                                                    *)
LEMMA EnclosedBefore ==
  ASSUME W = 8, NEW X \in OctetSeqs, NEW e, EncoderOK(e), NEW bool \in Bools, Encloses(X, Put(e, bool))
  PROVE  EnclosesPart(X, e, bool) /\ Encloses(X, e)
<1> DEFINE s == Norm(PartRange(e, bool))
           r == PartRange(e, bool)
           b == PartBottom(e, bool)
           l == PartLow(e, bool)
           T == Bits(e)
<1>1. e \in EncoderStates
  BY DEF EncoderOK
<1>2. /\ b \in Nat /\ r \in Nat /\ 1 <= r /\ e.bottom <= b /\ b + r <= e.bottom + e.range
  BY <1>1, PartInside
<1>3. /\ e.range \in Nat /\ 128 <= e.range /\ e.range <= 255 /\ e.bit_count \in Int /\ -24 <= e.bit_count /\ e.bit_count <= -1
      /\ e.bottom \in Nat
  BY <1>1 DEF EncoderStates
<1>4. s \in Nat /\ s <= 7
  <2>1. r <= 255
    BY <1>2, <1>3
  <2> HIDE DEF r
  <2>2. QED
    BY <1>2, <2>1, NormInside DEF r
<1>5. /\ Scale(e) \in Nat /\ LastValue(e) \in Nat /\ Len(e.output) \in Nat
  BY <1>1, EncoderFacts
<1>6. T \in Nat
  BY <1>3, <1>5 DEF Bits
<1>7. l \in Nat /\ Low(e) \in Nat /\ Low(e) <= l /\ l + r <= Low(e) + e.range
  <2> DEFINE y == LastValue(e) * Scale(e)
  <2>1. y \in Nat /\ Low(e) = y + e.bottom /\ l = y + b
    <3> HIDE DEF b
    <3>1. QED
      BY <1>5 DEF Low, PartLow, b
  <2> HIDE DEF y, b, l, r
  <2>2. QED
    BY <1>2, <1>3, <2>1
<1>8. 2^s \in Nat
  <2> HIDE DEF s
  <2>1. QED
    BY <1>4, PowersDouble
<1>9. Between(X, T + s, l * 2^s, (l + r) * 2^s)
  <2>1. /\ Low(Put(e, bool)) = l * 2^s /\ Put(e, bool).range = r * 2^s /\ Bits(Put(e, bool)) = T + s
    BY PutKeeps
  <2>2. l * 2^s + r * 2^s = (l + r) * 2^s
    <3> HIDE DEF l, r, s
    <3>1. QED
      BY <1>2, <1>7, <1>8
  <2>3. QED
    BY <2>1, <2>2, Zenon DEF Encloses
<1>10. Between(X, T, l, l + r)
  <2> HIDE DEF s, l, r, T
  <2>1. l + r \in Nat
    BY <1>2, <1>7
  <2>2. QED
    BY <1>4, <1>6, <1>7, <1>9, <2>1, BetweenBefore
<1>11. Encloses(X, e)
  <2>1. Z(X, T) \in Nat
    <3> HIDE DEF T
    <3>1. QED
      BY <1>6, WindowDoubles
  <2>2. 256 * l <= Z(X, T) /\ Z(X, T) < 256 * (l + r)
    <3> HIDE DEF l, r, T
    <3>1. QED
      BY <1>10 DEF Between
  <2> DEFINE z == Z(X, T)
  <2> HIDE DEF l, r, z
  <2>3. 256 * Low(e) <= z /\ z < 256 * (Low(e) + e.range)
    <3>1. z \in Nat /\ 256 * l <= z /\ z < 256 * (l + r)
      BY <2>1, <2>2 DEF z
    <3>2. QED
      BY <1>2, <1>3, <1>7, <3>1
  <2>4. QED
    BY <2>3 DEF Encloses, Between, z
<1>12. QED
  BY <1>10, <1>11 DEF EnclosesPart

-----------------------------------------------------------------------------
(***************************************************************************)
(* The decoder, and how it follows the encoder.                            *)
(***************************************************************************)

(* A decoder, with any range, and between two bools.                       *)
DecoderRecords == [chunk : OctetSeqs, value : Int, range : Nat, bit_count : Nat, read : Seq(BOOLEAN)]
DecoderStates == {d \in DecoderRecords : 128 <= d.range /\ d.range <= 255}

(* The chunk after its first n octets.                                     *)
IsRest(chunk, X, n) == \A i \in Nat \ {0} : OctetAt(chunk, i) = OctetAt(X, n + i)

(* The decoder after T doublings, low taken from its window.               *)
Follows(d, X, T, low) ==
  /\ d.bit_count = T % 8
  /\ d.value = Z(X, T) - 256 * low
  /\ IsRest(d.chunk, X, 2 + T \div 8)

(* load_octet takes the next octet, or zero after the last.                *)
LEMMA LoadOctetReads ==
  ASSUME NEW d \in DecoderRecords
  PROVE  /\ LoadOctet(d) \in DecoderRecords
         /\ LoadOctet(d).value = d.value + OctetAt(d.chunk, 1)
         /\ LoadOctet(d).range = d.range /\ LoadOctet(d).bit_count = d.bit_count /\ LoadOctet(d).read = d.read
         /\ \A i \in Nat \ {0} : OctetAt(LoadOctet(d).chunk, i) = OctetAt(d.chunk, i + 1)
<1>1. d.chunk \in Seq(Nat) /\ d.value \in Int /\ d.chunk \in OctetSeqs /\ Len(d.chunk) \in Nat
  BY DEF DecoderRecords, OctetSeqs
<1>2. CASE d.chunk = << >>
  <2>1. LoadOctet(d) = d
    BY <1>2 DEF LoadOctet
  <2>2. \A i \in Nat : OctetAt(d.chunk, i) = 0
    BY <1>2 DEF OctetAt
  <2>3. QED
    BY <1>1, <2>1, <2>2
<1>3. CASE d.chunk # << >>
  <2> DEFINE x == Head(d.chunk)
             t == Tail(d.chunk)
  <2>1. LoadOctet(d) = [d EXCEPT !.value = @ + x, !.chunk = t]
    BY <1>3, Zenon DEF LoadOctet
  <2>2. /\ x \in Nat /\ x = OctetAt(d.chunk, 1)
    BY <1>1, <1>3 DEF OctetAt
  <2>3. t \in Seq(Nat) /\ Len(t) = Len(d.chunk) - 1 /\ \A i \in 1 .. Len(d.chunk) - 1 : t[i] = d.chunk[i + 1]
    BY <1>1, <1>3
  <2>4. t \in OctetSeqs
    <3>1. \A i \in 1 .. Len(d.chunk) : IsOctet(d.chunk[i])
      BY <1>1 DEF OctetSeqs
    <3> HIDE DEF t
    <3>2. \A i \in 1 .. Len(t) : i + 1 \in 1 .. Len(d.chunk) /\ t[i] = d.chunk[i + 1]
      BY <1>1, <2>3
    <3>3. \A i \in 1 .. Len(t) : IsOctet(t[i])
      BY <3>1, <3>2
    <3>4. QED
      BY <2>3, <3>3, Zenon DEF OctetSeqs
  <2>5. \A i \in Nat \ {0} : OctetAt(t, i) = OctetAt(d.chunk, i + 1)
    <3> HIDE DEF t
    <3>1. QED
      BY <1>1, <2>3 DEF OctetAt
  <2> HIDE DEF x, t
  <2>6. LoadOctet(d).value = d.value + x /\ LoadOctet(d).chunk = t
    BY <2>1 DEF DecoderRecords
  <2>7. LoadOctet(d).range = d.range /\ LoadOctet(d).bit_count = d.bit_count /\ LoadOctet(d).read = d.read
    BY <2>1 DEF DecoderRecords
  <2>8. LoadOctet(d) \in DecoderRecords
    <3>1. d.value + x \in Int
      BY <1>1, <2>2
    <3>2. QED
      BY <2>1, <2>4, <3>1 DEF DecoderRecords
  <2>9. QED
    BY <2>2, <2>5, <2>6, <2>7, <2>8, Zenon
<1>4. QED
  BY <1>2, <1>3

(* A doubling of the decoder follows the window.                           *)
LEMMA DoubledFollows ==
  ASSUME W = 8, NEW X \in OctetSeqs, NEW d \in DecoderRecords, NEW T \in Nat, NEW low \in Nat, Follows(d, X, T, low)
  PROVE  /\ Doubled(d) \in DecoderRecords /\ Follows(Doubled(d), X, T + 1, 2 * low)
         /\ Doubled(d).range = 2 * d.range /\ Doubled(d).read = d.read
<1> DEFINE e == [d EXCEPT !.value = @ * 2, !.range = @ * 2, !.bit_count = (@ + 1) % W]
<1>1. d.value \in Int /\ d.range \in Nat /\ d.bit_count \in Nat /\ d.chunk \in OctetSeqs /\ d.read \in Seq(BOOLEAN)
  BY DEF DecoderRecords
<1>2. /\ e.value = d.value * 2 /\ e.range = d.range * 2 /\ e.bit_count = (d.bit_count + 1) % 8 /\ e.chunk = d.chunk
      /\ e.read = d.read
  BY DEF DecoderRecords
<1>3. e \in DecoderRecords
  <2>1. d.value * 2 \in Int /\ d.range * 2 \in Nat /\ (d.bit_count + 1) % W \in Nat
    BY ONLY <1>1, W = 8
  <2>2. QED
    BY <2>1 DEF DecoderRecords
<1>4. Doubled(d) = IF e.bit_count = 0 THEN LoadOctet(e) ELSE e
  BY Zenon DEF Doubled
<1> HIDE DEF e
<1>5. /\ Z(X, T) \in Nat /\ Z(X, T + 1) \in Nat
      /\ Z(X, T + 1) = 2 * Z(X, T) + (IF (T + 1) % 8 = 0 THEN OctetAt(X, 3 + T \div 8) ELSE 0)
  BY WindowDoubles
<1>6. d.bit_count = T % 8 /\ d.value = Z(X, T) - 256 * low /\ IsRest(d.chunk, X, 2 + T \div 8)
  BY DEF Follows
<1>7. e.bit_count = (T + 1) % 8
  BY <1>2, <1>6
<1>8. CASE (T + 1) % 8 = 0
  <2>1. Doubled(d) = LoadOctet(e)
    BY <1>4, <1>7, <1>8
  <2>2. /\ LoadOctet(e) \in DecoderRecords
        /\ LoadOctet(e).value = e.value + OctetAt(d.chunk, 1)
        /\ LoadOctet(e).range = e.range /\ LoadOctet(e).bit_count = e.bit_count /\ LoadOctet(e).read = e.read
        /\ \A i \in Nat \ {0} : OctetAt(LoadOctet(e).chunk, i) = OctetAt(d.chunk, i + 1)
    BY <1>2, <1>3, LoadOctetReads
  <2>3. (T + 1) \div 8 = T \div 8 + 1 /\ T \div 8 \in Nat
    BY <1>8
  <2> DEFINE c == 2 + T \div 8
  <2>4. c \in Nat /\ 2 + (T + 1) \div 8 = c + 1 /\ 3 + T \div 8 = c + 1
    BY <2>3
  <2>5. IsRest(d.chunk, X, c)
    BY <1>6
  <2> HIDE DEF c
  <2>6. OctetAt(d.chunk, 1) = OctetAt(X, c + 1) /\ OctetAt(X, c + 1) \in Nat
    BY <2>5, OctetAtType DEF IsRest
  <2>7. IsRest(LoadOctet(e).chunk, X, c + 1)
    <3>1. \A i \in Nat \ {0} : i + 1 \in Nat \ {0} /\ c + (i + 1) = (c + 1) + i
      BY <2>4
    <3>2. QED
      BY <2>2, <2>5, <3>1 DEF IsRest
  <2>8. LoadOctet(e).value = Z(X, T + 1) - 256 * (2 * low)
    <3>1. Z(X, T + 1) = 2 * Z(X, T) + OctetAt(X, c + 1)
      BY <1>5, <1>8, <2>4
    <3>2. LoadOctet(e).value = d.value * 2 + OctetAt(X, c + 1) /\ d.value = Z(X, T) - 256 * low
      BY <1>2, <1>6, <2>2, <2>6
    <3>3. QED
      BY <1>5, <2>6, <3>1, <3>2
  <2>9. Follows(Doubled(d), X, T + 1, 2 * low)
    BY <1>7, <2>1, <2>2, <2>4, <2>7, <2>8 DEF Follows
  <2>10. QED
    BY <1>1, <1>2, <2>1, <2>2, <2>9
<1>9. CASE (T + 1) % 8 # 0
  <2>1. Doubled(d) = e
    BY <1>4, <1>7, <1>9
  <2>2. (T + 1) \div 8 = T \div 8
    BY <1>9
  <2>3. IsRest(e.chunk, X, 2 + (T + 1) \div 8)
    BY <1>2, <1>6, <2>2
  <2>4. e.value = Z(X, T + 1) - 256 * (2 * low)
    <3>1. Z(X, T + 1) = 2 * Z(X, T)
      BY <1>5, <1>9
    <3>2. e.value = d.value * 2 /\ d.value = Z(X, T) - 256 * low
      BY <1>2, <1>6
    <3>3. QED
      BY <1>5, <3>1, <3>2
  <2>5. Follows(e, X, T + 1, 2 * low)
    BY <1>7, <2>3, <2>4 DEF Follows
  <2>6. QED
    BY <1>1, <1>2, <1>3, <2>1, <2>5
<1>10. QED
  BY <1>8, <1>9

(* It doubles the range.                                                   *)
LEMMA DoubledRange ==
  ASSUME W = 8, NEW d \in DecoderRecords
  PROVE  Doubled(d) \in DecoderRecords /\ Doubled(d).range = 2 * d.range
<1> DEFINE e == [d EXCEPT !.value = @ * 2, !.range = @ * 2, !.bit_count = (@ + 1) % W]
<1>1. d.value \in Int /\ d.range \in Nat /\ d.bit_count \in Nat /\ d.chunk \in OctetSeqs /\ d.read \in Seq(BOOLEAN)
  BY DEF DecoderRecords
<1>2. e \in DecoderRecords
  <2>1. d.value * 2 \in Int /\ d.range * 2 \in Nat /\ (d.bit_count + 1) % W \in Nat
    BY <1>1
  <2>2. QED
    BY <2>1 DEF DecoderRecords
<1>3. Doubled(d) = IF e.bit_count = 0 THEN LoadOctet(e) ELSE e
  BY Zenon DEF Doubled
<1>4. e.range = 2 * d.range
  BY <1>1 DEF DecoderRecords
<1> HIDE DEF e
<1>5. QED
  BY <1>2, <1>3, <1>4, LoadOctetReads

(* The parts of get: the bit, the part of the range it chooses, and the    *)
(* state the doublings start from.                                         *)
GetBit(d, p) == d.value >= Split(d.range, p) * 2^W
GetPart(d, p) ==
  IF GetBit(d, p) THEN [d EXCEPT !.range = @ - Split(d.range, p), !.value = @ - Split(d.range, p) * 2^W]
  ELSE [d EXCEPT !.range = Split(d.range, p)]
GetFirst(d, p) == [GetPart(d, p) EXCEPT !.read = Append(@, GetBit(d, p))]

(* The doublings of get, one after another.                                *)
LEMMA GetIterates ==
  ASSUME W = 8, NEW d, NEW p, GetFirst(d, p) \in DecoderRecords, Norm(GetPart(d, p).range) \in Nat,
         Norm(GetPart(d, p).range) <= 7
  PROVE \E f :
           /\ f[0] = GetFirst(d, p) /\ \A k \in 1 .. W - 1 : f[k] = Doubled(f[k - 1])
           /\ Get(d, p) = f[Norm(GetPart(d, p).range)]
<1> DEFINE step == [q \in DecoderRecords \X Nat |-> Doubled(q[1])]
           n == W - 1
           a == GetFirst(d, p)
           Def(f) == f = [k \in 0 .. n |-> IF k = 0 THEN a ELSE Doubled(f[k - 1])]
<1>0. n \in Nat
  OBVIOUS
<1>1. step \in [DecoderRecords \X Nat -> DecoderRecords]
  BY DoubledRange
<1>2. \E h \in [0 .. n -> DecoderRecords] : IteratesUpTo(h, n, a, step)
  <2> HIDE DEF step, n, a
  <2>1. \A m \in Nat : \E h \in [0 .. m -> DecoderRecords] : IteratesUpTo(h, m, a, step)
    <3>1. a \in DecoderRecords
      BY DEF a
    <3>2. QED
      BY <1>1, <3>1, IterationUpTo
  <2>2. QED
    BY <1>0, <2>1
<1>3. PICK h \in [0 .. n -> DecoderRecords] : IteratesUpTo(h, n, a, step)
  BY <1>2, Zenon
<1>4. Def(h)
  <2> HIDE DEF n, a
  <2>1. ASSUME NEW k \in 0 .. n PROVE h[k] = IF k = 0 THEN a ELSE Doubled(h[k - 1])
    <3>1. h[k] = IF k = 0 THEN a ELSE step[<<h[k - 1], k>>]
      <4> HIDE DEF step
      <4>1. QED
        BY <1>3 DEF IteratesUpTo
    <3>2. CASE k = 0
      BY <3>1, <3>2
    <3>3. CASE k # 0
      <4>1. k \in Nat /\ k - 1 \in 0 .. n
        BY <1>0, <3>3
      <4>2. h[k - 1] \in DecoderRecords
        BY <4>1
      <4>3. step[<<h[k - 1], k>>] = Doubled(h[k - 1])
        BY <4>1, <4>2
      <4>4. QED
        BY <3>1, <3>3, <4>3, Zenon
    <3>4. QED
      BY <3>2, <3>3
  <2>2. h = [k \in 0 .. n |-> h[k]]
    OBVIOUS
  <2>3. QED
    BY <2>1, <2>2
<1> DEFINE after == CHOOSE f : Def(f)
<1>5. Def(after)
  <2> HIDE DEF Def
  <2>1. QED
    BY <1>4, Zenon
<1>6. Get(d, p) = after[Norm(GetPart(d, p).range)]
  BY DEF Get, GetBit, GetPart, GetFirst
<1>7. \A k \in 0 .. n : after[k] = IF k = 0 THEN a ELSE Doubled(after[k - 1])
  <2> HIDE DEF after, n, a
  <2>1. QED
    BY <1>5
<1> HIDE DEF after, a
<1>8. after[0] = a /\ \A k \in 1 .. n : after[k] = Doubled(after[k - 1])
  <2> HIDE DEF n
  <2>1. 0 \in 0 .. n /\ \A k \in 1 .. n : k \in 0 .. n /\ k # 0
    BY <1>0
  <2>2. QED
    BY <1>7, <2>1, Zenon
<1>9. QED
  BY <1>6, <1>8 DEF a

(* What get does before it doubles.                                        *)
GetFirstIs(d, p) ==
  /\ GetFirst(d, p) \in DecoderRecords
  /\ GetPart(d, p).range \in Nat /\ 1 <= GetPart(d, p).range /\ GetPart(d, p).range <= 255
  /\ Split(d.range, p) \in Nat
  /\ GetBit(d, p) = (d.value >= Split(d.range, p) * 256)
  /\ GetPart(d, p).range = IF GetBit(d, p) THEN d.range - Split(d.range, p) ELSE Split(d.range, p)
  /\ GetFirst(d, p).range = GetPart(d, p).range
  /\ GetFirst(d, p).value = IF GetBit(d, p) THEN d.value - Split(d.range, p) * 256 ELSE d.value
  /\ GetFirst(d, p).bit_count = d.bit_count /\ GetFirst(d, p).chunk = d.chunk
  /\ GetFirst(d, p).read = Append(d.read, GetBit(d, p))

(* It does that for every decoder between two bools.                       *)
LEMMA GetFirstFacts ==
  ASSUME W = 8, NEW d \in DecoderStates, NEW p \in Nat, 1 <= p, p <= 255
  PROVE  GetFirstIs(d, p)
<1> DEFINE split == Split(d.range, p)
           bit == GetBit(d, p)
           part == GetPart(d, p)
           first == GetFirst(d, p)
<1>1. /\ d \in DecoderRecords /\ d.value \in Int /\ d.range \in Nat /\ 128 <= d.range /\ d.range <= 255
      /\ d.bit_count \in Nat /\ d.chunk \in OctetSeqs /\ d.read \in Seq(BOOLEAN)
  BY DEF DecoderStates, DecoderRecords
<1>2. split \in Nat /\ 1 <= split /\ split < d.range
  BY <1>1, SplitInside
<1>3. bit = (d.value >= split * 256) /\ bit \in BOOLEAN
  <2>1. 2^W = 256
    BY Powers, SMT
  <2> HIDE DEF split
  <2>2. QED
    BY <2>1 DEF GetBit, split
<1>4. part = IF bit THEN [d EXCEPT !.range = @ - split, !.value = @ - split * 256] ELSE [d EXCEPT !.range = split]
  <2>1. 2^W = 256
    BY Powers, SMT
  <2>2. QED
    BY <2>1, Zenon DEF GetPart
<1> HIDE DEF split, bit, part
<1>5. /\ part \in DecoderRecords
      /\ part.range = IF bit THEN d.range - split ELSE split
      /\ part.value = IF bit THEN d.value - split * 256 ELSE d.value
      /\ part.bit_count = d.bit_count /\ part.chunk = d.chunk /\ part.read = d.read
  <2>1. CASE bit
    <3>1. part = [d EXCEPT !.range = @ - split, !.value = @ - split * 256]
      BY <1>4, <2>1
    <3>2. d.range - split \in Nat /\ d.value - split * 256 \in Int
      BY <1>1, <1>2
    <3>3. /\ part.range = d.range - split /\ part.value = d.value - split * 256
          /\ part.bit_count = d.bit_count /\ part.chunk = d.chunk /\ part.read = d.read
      BY <1>1, <3>1 DEF DecoderRecords
    <3>4. part \in DecoderRecords
      BY <1>1, <3>1, <3>2 DEF DecoderRecords
    <3>5. QED
      BY <2>1, <3>3, <3>4
  <2>2. CASE ~bit
    <3>1. part = [d EXCEPT !.range = split]
      BY <1>4, <2>2
    <3>2. /\ part.range = split /\ part.value = d.value
          /\ part.bit_count = d.bit_count /\ part.chunk = d.chunk /\ part.read = d.read
      BY <1>1, <3>1 DEF DecoderRecords
    <3>3. part \in DecoderRecords
      BY <1>1, <1>2, <3>1 DEF DecoderRecords
    <3>4. QED
      BY <2>2, <3>2, <3>3
  <2>3. QED
    BY <2>1, <2>2
<1>6. first = [part EXCEPT !.read = Append(@, bit)]
  BY Zenon DEF GetFirst, part, bit
<1>7. Append(d.read, bit) \in Seq(BOOLEAN)
  BY <1>1, <1>3
<1> HIDE DEF first
<1>8. first \in DecoderRecords
  BY <1>5, <1>6, <1>7 DEF DecoderRecords
<1>9. /\ first.range = part.range /\ first.value = part.value /\ first.bit_count = part.bit_count
      /\ first.chunk = part.chunk /\ first.read = Append(part.read, bit)
  BY <1>5, <1>6 DEF DecoderRecords
<1>10. part.range \in Nat /\ 1 <= part.range /\ part.range <= 255
  BY <1>1, <1>2, <1>3, <1>5
<1>11. QED
  BY <1>2, <1>3, <1>5, <1>8, <1>9, <1>10, Zenon DEF split, bit, part, first, GetFirstIs

(* The doublings follow the window, as far as they go.                     *)
LEMMA DoublingsFollow ==
  ASSUME W = 8, NEW X \in OctetSeqs, NEW f, NEW T \in Nat, NEW low \in Nat,
         f[0] \in DecoderRecords, Follows(f[0], X, T, low),
         \A k \in 1 .. W - 1 : f[k] = Doubled(f[k - 1])
  PROVE  \A k \in Nat : k <= 7 =>
           /\ f[k] \in DecoderRecords /\ Follows(f[k], X, T + k, low * 2^k)
           /\ f[k].range = f[0].range * 2^k /\ f[k].read = f[0].read
<1> DEFINE P(k) == /\ f[k] \in DecoderRecords /\ Follows(f[k], X, T + k, low * 2^k)
                   /\ f[k].range = f[0].range * 2^k /\ f[k].read = f[0].read
           good == {k \in Nat : k <= 7 => P(k)}
<1>1. 0 \in good
  <2>1. 2^0 = 1 /\ T + 0 = T /\ low * 1 = low
    OBVIOUS
  <2>2. f[0].range * 1 = f[0].range
    BY DEF DecoderRecords
  <2>3. QED
    BY <2>1, <2>2
<1>2. ASSUME NEW k \in Nat, k \in good PROVE k + 1 \in good
  <2> SUFFICES ASSUME k + 1 <= 7 PROVE P(k + 1)
    OBVIOUS
  <2>1. P(k)
    BY <1>2
  <2>2. f[k + 1] = Doubled(f[k])
    <3>1. k + 1 \in 1 .. W - 1 /\ (k + 1) - 1 = k
      OBVIOUS
    <3>2. QED
      BY <3>1, Zenon
  <2>3. 2^k \in Nat /\ 2^(k + 1) = 2 * 2^k
    BY PowersDouble
  <2>4. low * 2^k \in Nat /\ T + k \in Nat /\ low * 2^(k + 1) = 2 * (low * 2^k) /\ T + (k + 1) = (T + k) + 1
    BY <2>3
  <2>5. /\ Doubled(f[k]) \in DecoderRecords /\ Follows(Doubled(f[k]), X, (T + k) + 1, 2 * (low * 2^k))
        /\ Doubled(f[k]).range = 2 * f[k].range /\ Doubled(f[k]).read = f[k].read
    BY <2>1, <2>4, DoubledFollows
  <2>6. f[0].range * 2^(k + 1) = 2 * (f[0].range * 2^k)
    <3>1. f[0].range \in Nat
      BY DEF DecoderRecords
    <3>2. QED
      BY <2>3, <3>1
  <2>7. QED
    BY <2>1, <2>2, <2>4, <2>5, <2>6
<1>3. \A k \in Nat : k \in good
  <2> HIDE DEF good
  <2>1. QED
    BY <1>1, <1>2, SetInduction
<1>4. QED
  <2>1. \A k \in Nat : k <= 7 => P(k)
    <3> HIDE DEF P
    <3>1. QED
      BY <1>3
  <2>2. QED
    BY <2>1

(* They double the range each time.                                        *)
LEMMA DoublingsKeep ==
  ASSUME W = 8, NEW f, f[0] \in DecoderRecords, \A k \in 1 .. W - 1 : f[k] = Doubled(f[k - 1])
  PROVE  \A k \in Nat : k <= 7 => f[k] \in DecoderRecords /\ f[k].range = f[0].range * 2^k
<1> DEFINE P(k) == f[k] \in DecoderRecords /\ f[k].range = f[0].range * 2^k
           good == {k \in Nat : k <= 7 => P(k)}
<1>1. 0 \in good
  <2>1. 2^0 = 1
    OBVIOUS
  <2>2. f[0].range * 1 = f[0].range
    BY DEF DecoderRecords
  <2>3. QED
    BY <2>1, <2>2
<1>2. ASSUME NEW k \in Nat, k \in good PROVE k + 1 \in good
  <2> SUFFICES ASSUME k + 1 <= 7 PROVE P(k + 1)
    OBVIOUS
  <2>1. P(k)
    BY <1>2
  <2>2. f[k + 1] = Doubled(f[k])
    <3>1. k + 1 \in 1 .. W - 1 /\ (k + 1) - 1 = k
      OBVIOUS
    <3>2. QED
      BY <3>1, Zenon
  <2>3. 2^k \in Nat /\ 2^(k + 1) = 2 * 2^k
    BY PowersDouble
  <2>5. Doubled(f[k]) \in DecoderRecords /\ Doubled(f[k]).range = 2 * f[k].range
    BY <2>1, DoubledRange
  <2>6. f[0].range * 2^(k + 1) = 2 * (f[0].range * 2^k)
    <3>1. f[0].range \in Nat
      BY DEF DecoderRecords
    <3>2. QED
      BY <2>3, <3>1
  <2>7. QED
    BY <2>1, <2>2, <2>5, <2>6
<1>3. \A k \in Nat : k \in good
  <2> HIDE DEF good
  <2>1. QED
    BY <1>1, <1>2, SetInduction
<1>4. QED
  <2>1. \A k \in Nat : k <= 7 => P(k)
    <3> HIDE DEF P
    <3>1. QED
      BY <1>3
  <2>2. QED
    BY <2>1

(* A get leads from one state between two bools to the next.               *)
LEMMA GetState ==
  ASSUME W = 8, NEW d \in DecoderStates, NEW p \in Nat, 1 <= p, p <= 255
  PROVE  Get(d, p) \in DecoderStates
<1> DEFINE s == Norm(GetPart(d, p).range)
<1>1. /\ GetFirst(d, p) \in DecoderRecords /\ GetFirst(d, p).range = GetPart(d, p).range
      /\ GetPart(d, p).range \in Nat /\ 1 <= GetPart(d, p).range /\ GetPart(d, p).range <= 255
  BY GetFirstFacts DEF GetFirstIs
<1>2. s \in Nat /\ s <= 7 /\ 128 <= GetPart(d, p).range * 2^s /\ GetPart(d, p).range * 2^s <= 255
  BY <1>1, NormInside
<1>3. \E f : /\ f[0] = GetFirst(d, p) /\ \A k \in 1 .. W - 1 : f[k] = Doubled(f[k - 1])
             /\ Get(d, p) = f[s]
  BY <1>1, <1>2, GetIterates
<1>4. PICK f : /\ f[0] = GetFirst(d, p) /\ \A k \in 1 .. W - 1 : f[k] = Doubled(f[k - 1])
               /\ Get(d, p) = f[s]
  BY <1>3, Zenon
<1>5. \A k \in Nat : k <= 7 => f[k] \in DecoderRecords /\ f[k].range = f[0].range * 2^k
  <2>1. f[0] \in DecoderRecords
    BY <1>1, <1>4
  <2>2. QED
    BY <1>4, <2>1, DoublingsKeep
<1> HIDE DEF s
<1>6. Get(d, p) \in DecoderRecords /\ Get(d, p).range = GetPart(d, p).range * 2^s
  BY <1>1, <1>2, <1>4, <1>5
<1>7. QED
  BY <1>2, <1>6 DEF DecoderStates

(* get reads the bit whose part encloses the window, and follows the       *)
(* encoder to its next interval.                                           *)
LEMMA GetReads ==
  ASSUME W = 8, NEW X \in OctetSeqs, NEW e, EncoderOK(e), NEW bool \in Bools, EnclosesPart(X, e, bool),
         NEW d \in DecoderStates, Follows(d, X, Bits(e), Low(e)), d.range = e.range
  PROVE  /\ Get(d, bool.probability) \in DecoderStates
         /\ Follows(Get(d, bool.probability), X, Bits(Put(e, bool)), Low(Put(e, bool)))
         /\ Get(d, bool.probability).range = Put(e, bool).range
         /\ Get(d, bool.probability).read = Append(d.read, bool.bit)
<1> DEFINE p == bool.probability
           split == Split(d.range, p)
           T == Bits(e)
           part == GetPart(d, p)
           first == GetFirst(d, p)
           s == Norm(part.range)
<1>0. p \in Nat /\ 1 <= p /\ p <= 255 /\ bool.bit \in BOOLEAN
  BY DEF Bools
<1>1. /\ first \in DecoderRecords /\ first.range = part.range
      /\ part.range \in Nat /\ 1 <= part.range /\ part.range <= 255
      /\ split \in Nat /\ GetBit(d, p) = (d.value >= split * 256)
      /\ part.range = IF GetBit(d, p) THEN d.range - split ELSE split
      /\ first.value = IF GetBit(d, p) THEN d.value - split * 256 ELSE d.value
      /\ first.bit_count = d.bit_count /\ first.chunk = d.chunk /\ first.read = Append(d.read, GetBit(d, p))
  <2>1. GetFirstIs(d, p)
    <3> HIDE DEF p
    <3>1. QED
      BY <1>0, GetFirstFacts
  <2>2. QED
    BY <2>1, Zenon DEF GetFirstIs
<1>2. /\ e \in EncoderStates /\ e.range \in Nat /\ e.bottom \in Nat
      /\ e.bit_count \in Int /\ -24 <= e.bit_count
  BY DEF EncoderOK, EncoderStates
<1>3. /\ Scale(e) \in Nat /\ LastValue(e) \in Nat /\ Len(e.output) \in Nat /\ Low(e) \in Nat
  BY <1>2, EncoderFacts
<1>4. T \in Nat
  BY <1>2, <1>3 DEF Bits
<1>5. /\ PartLow(e, bool) = IF bool.bit THEN Low(e) + split ELSE Low(e)
      /\ PartRange(e, bool) = IF bool.bit THEN d.range - split ELSE split
  <2> DEFINE y == LastValue(e) * Scale(e)
  <2>1. PartRange(e, bool) = IF bool.bit THEN d.range - split ELSE split
    BY Zenon DEF PartRange
  <2>2. PartBottom(e, bool) = IF bool.bit THEN e.bottom + split ELSE e.bottom
    BY Zenon DEF PartBottom
  <2>3. y \in Nat /\ PartLow(e, bool) = y + PartBottom(e, bool) /\ Low(e) = y + e.bottom
    BY <1>3 DEF PartLow, Low
  <2> HIDE DEF y, split
  <2>4. PartLow(e, bool) = IF bool.bit THEN Low(e) + split ELSE Low(e)
    BY <1>0, <1>1, <1>2, <2>2, <2>3
  <2>5. QED
    BY <2>1, <2>4
<1>6. d.value = Z(X, T) - 256 * Low(e) /\ d.bit_count = T % 8 /\ IsRest(d.chunk, X, 2 + T \div 8)
  BY DEF Follows
<1>7. 256 * PartLow(e, bool) <= Z(X, T) /\ Z(X, T) < 256 * (PartLow(e, bool) + PartRange(e, bool))
  BY DEF EnclosesPart, Between
<1>8. Z(X, T) \in Nat
  <2> HIDE DEF T
  <2>1. QED
    BY <1>4, WindowDoubles
<1> HIDE DEF split, p, T, part, first
<1>9. GetBit(d, p) = bool.bit
  <2>1. d.range \in Nat
    BY DEF DecoderStates, DecoderRecords
  <2> DEFINE z == Z(X, T)
  <2> HIDE DEF z
  <2>2. z \in Nat
    BY <1>8 DEF z
  <2>3. CASE bool.bit
    <3>1. 256 * (Low(e) + split) <= z
      BY <1>5, <1>7, <2>3 DEF z
    <3>2. d.value = z - 256 * Low(e)
      BY <1>6 DEF z
    <3>3. d.value >= split * 256
      BY <1>1, <1>3, <2>2, <3>1, <3>2
    <3>4. QED
      BY <1>0, <1>1, <2>3, <3>3
  <2>4. CASE ~bool.bit
    <3>1. z < 256 * (Low(e) + split)
      BY <1>5, <1>7, <2>4 DEF z
    <3>2. d.value = z - 256 * Low(e)
      BY <1>6 DEF z
    <3>3. ~(d.value >= split * 256)
      BY <1>1, <1>3, <2>2, <3>1, <3>2
    <3>4. QED
      BY <1>0, <1>1, <2>4, <3>3
  <2>5. QED
    BY <2>3, <2>4
<1>10. part.range = PartRange(e, bool)
  BY <1>1, <1>5, <1>9
<1>11. PartLow(e, bool) \in Nat
  BY <1>0, <1>1, <1>3, <1>5
<1>12. Follows(first, X, T, PartLow(e, bool))
  <2>1. first.value = Z(X, T) - 256 * PartLow(e, bool)
    <3>1. CASE bool.bit
      <4>1. first.value = (Z(X, T) - 256 * Low(e)) - split * 256 /\ PartLow(e, bool) = Low(e) + split
        BY <1>1, <1>5, <1>6, <1>9, <3>1
      <4>2. QED
        BY <1>1, <1>3, <1>8, <4>1
    <3>2. CASE ~bool.bit
      BY <1>1, <1>5, <1>6, <1>9, <3>2
    <3>3. QED
      BY <3>1, <3>2
  <2>2. QED
    BY <1>1, <1>6, <2>1, Zenon DEF Follows
<1>13. s \in Nat /\ s <= 7 /\ 128 <= part.range * 2^s /\ part.range * 2^s <= 255
  BY <1>1, NormInside
<1>14. \E f : /\ f[0] = first /\ \A k \in 1 .. W - 1 : f[k] = Doubled(f[k - 1]) /\ Get(d, p) = f[s]
  BY <1>1, <1>13, GetIterates DEF first, part
<1>15. PICK f : /\ f[0] = first /\ \A k \in 1 .. W - 1 : f[k] = Doubled(f[k - 1]) /\ Get(d, p) = f[s]
  BY <1>14, Zenon
<1>16. \A k \in Nat : k <= 7 =>
           /\ f[k] \in DecoderRecords /\ Follows(f[k], X, T + k, PartLow(e, bool) * 2^k)
           /\ f[k].range = f[0].range * 2^k /\ f[k].read = f[0].read
  <2>1. f[0] \in DecoderRecords /\ Follows(f[0], X, T, PartLow(e, bool))
    BY <1>1, <1>12, <1>15
  <2>2. QED
    BY <1>4, <1>11, <1>15, <2>1, DoublingsFollow
<1> HIDE DEF s
<1>17. /\ Get(d, p) \in DecoderRecords /\ Follows(Get(d, p), X, T + s, PartLow(e, bool) * 2^s)
       /\ Get(d, p).range = part.range * 2^s /\ Get(d, p).read = first.read
  <2>1. /\ f[s] \in DecoderRecords /\ Follows(f[s], X, T + s, PartLow(e, bool) * 2^s)
        /\ f[s].range = f[0].range * 2^s /\ f[s].read = f[0].read
    BY <1>13, <1>16
  <2>2. f[0] = first /\ Get(d, p) = f[s] /\ first.range = part.range
    BY <1>1, <1>15
  <2>3. QED
    BY <2>1, <2>2, Zenon
<1>18. Get(d, p) \in DecoderStates
  BY <1>0, GetState
<1>19. /\ Low(Put(e, bool)) = PartLow(e, bool) * 2^s /\ Put(e, bool).range = part.range * 2^s
       /\ Bits(Put(e, bool)) = T + s
  BY <1>10, PutKeeps DEF s, T
<1>20. QED
  BY <1>1, <1>9, <1>17, <1>18, <1>19, Zenon DEF p

-----------------------------------------------------------------------------
(***************************************************************************)
(* Puts one after another, flushing, and reading back.                     *)
(***************************************************************************)

(* Puts one after another.                                                 *)
Puts(E, n, bs) == \A k \in 1 .. n : bs[k] \in Bools /\ E[k] = Put(E[k - 1], bs[k])

(* An encoder stays in order over any number of puts.                      *)
LEMMA PutsKeep ==
  ASSUME W = 8, NEW E, NEW n \in Nat, NEW bs, EncoderOK(E[0]), Puts(E, n, bs)
  PROVE  \A k \in 0 .. n : EncoderOK(E[k])
<1> DEFINE good == {k \in Nat : k <= n => EncoderOK(E[k])}
<1>1. 0 \in good
  OBVIOUS
<1>2. ASSUME NEW k \in Nat, k \in good PROVE k + 1 \in good
  <2> SUFFICES ASSUME k + 1 <= n PROVE EncoderOK(E[k + 1])
    OBVIOUS
  <2>1. EncoderOK(E[k])
    BY <1>2
  <2>2. k + 1 \in 1 .. n /\ (k + 1) - 1 = k
    OBVIOUS
  <2>3. bs[k + 1] \in Bools /\ E[k + 1] = Put(E[k], bs[k + 1])
    BY <2>2, Zenon DEF Puts
  <2>4. EncoderOK(Put(E[k], bs[k + 1]))
    BY <2>1, <2>3, PutKeeps
  <2>5. QED
    BY <2>3, <2>4
<1>3. \A k \in Nat : k \in good
  <2> HIDE DEF good
  <2>1. QED
    BY <1>1, <1>2, SetInduction
<1>4. QED
  BY <1>3

(* What the last interval encloses, every interval and every part before   *)
(* it enclosed: induction backwards over the puts.                         *)
LEMMA PutsEnclose ==
  ASSUME W = 8, NEW E, NEW n \in Nat, NEW bs, EncoderOK(E[0]), Puts(E, n, bs),
         NEW X \in OctetSeqs, Encloses(X, E[n])
  PROVE  /\ Encloses(X, E[0])
         /\ \A k \in 1 .. n : EnclosesPart(X, E[k - 1], bs[k])
<1>0. \A k \in 0 .. n : EncoderOK(E[k])
  BY PutsKeep
<1>1. ASSUME NEW k \in 1 .. n, Encloses(X, E[k]) PROVE EnclosesPart(X, E[k - 1], bs[k]) /\ Encloses(X, E[k - 1])
  <2>1. k - 1 \in 0 .. n
    OBVIOUS
  <2>2. EncoderOK(E[k - 1])
    BY <1>0, <2>1
  <2>3. bs[k] \in Bools /\ E[k] = Put(E[k - 1], bs[k])
    BY DEF Puts
  <2>4. Encloses(X, Put(E[k - 1], bs[k]))
    BY <1>1, <2>3
  <2>5. QED
    BY <2>2, <2>3, <2>4, EnclosedBefore
<1> DEFINE good == {j \in Nat : j <= n => Encloses(X, E[n - j])}
<1>2. 0 \in good
  <2>1. n - 0 = n
    OBVIOUS
  <2>2. QED
    BY <2>1
<1>3. ASSUME NEW j \in Nat, j \in good PROVE j + 1 \in good
  <2> SUFFICES ASSUME j + 1 <= n PROVE Encloses(X, E[n - (j + 1)])
    OBVIOUS
  <2>1. Encloses(X, E[n - j]) /\ n - j \in 1 .. n /\ n - (j + 1) = (n - j) - 1
    BY <1>3
  <2>2. Encloses(X, E[(n - j) - 1])
    BY <1>1, <2>1
  <2>3. QED
    BY <2>1, <2>2
<1>4. \A j \in Nat : j \in good
  <2> HIDE DEF good
  <2>1. QED
    BY <1>2, <1>3, SetInduction
<1>5. \A k \in 0 .. n : Encloses(X, E[k])
  <2> SUFFICES ASSUME NEW k \in 0 .. n PROVE Encloses(X, E[k])
    OBVIOUS
  <2>1. n - k \in Nat /\ n - k <= n /\ n - (n - k) = k
    OBVIOUS
  <2>2. Encloses(X, E[n - (n - k)])
    BY <1>4, <2>1
  <2>3. QED
    BY <2>1, <2>2
<1>6. QED
  BY <1>1, <1>5

(* The range is even after a put of probability one half, so that the next *)
(* one doubles it exactly once; an octet has been written when the         *)
(* register waits for at most eight bits.                                  *)
Even(e) == \E h \in Nat : e.range = 2 * h
Written(e) == e.bottom < Scale(e) /\ -8 <= e.bit_count

(* The bool that flushes.                                                  *)
LEMMA FlushBool ==
  ASSUME W = 8
  PROVE  Bool(FALSE, Half) \in Bools /\ Bool(FALSE, Half).probability = 128 /\ Bool(FALSE, Half).bit = FALSE
<1>1. Half = 128
  BY Powers, SMT DEF Half
<1>2. QED
  BY <1>1 DEF Bool, Bools

(* It takes the lower half and leaves the low end alone.                   *)
LEMMA FlushPart ==
  ASSUME W = 8, NEW e, EncoderOK(e)
  PROVE  /\ PartRange(e, Bool(FALSE, Half)) = 1 + (e.range - 1) \div 2
         /\ PartLow(e, Bool(FALSE, Half)) = Low(e) /\ PartBottom(e, Bool(FALSE, Half)) = e.bottom
         /\ e.range \in Nat /\ 128 <= e.range /\ e.range <= 255
<1> DEFINE bool == Bool(FALSE, Half)
<1>1. bool.probability = 128 /\ bool.bit = FALSE
  BY FlushBool
<1>2. e.range \in Nat /\ 128 <= e.range /\ e.range <= 255
  BY DEF EncoderOK, EncoderStates
<1>3. Split(e.range, bool.probability) = 1 + (e.range - 1) \div 2
  <2>1. Split(e.range, bool.probability) = 1 + ((e.range - 1) * 128) \div 256
    <3>1. 2^W = 256
      BY Powers, SMT
    <3>2. QED
      BY <1>1, <3>1, Zenon DEF Split
  <2> DEFINE x == e.range - 1
  <2>2. x \in Nat
    BY <1>2
  <2> HIDE DEF x
  <2>3. (x * 128) \div 256 = x \div 2
    BY <2>2
  <2>4. QED
    BY <2>1, <2>3 DEF x
<1> HIDE DEF bool
<1>4. PartRange(e, bool) = Split(e.range, bool.probability) /\ PartBottom(e, bool) = e.bottom
  BY <1>1 DEF PartRange, PartBottom
<1>5. PartLow(e, bool) = Low(e)
  BY <1>4 DEF PartLow, Low
<1>6. QED
  BY <1>2, <1>3, <1>4, <1>5 DEF bool

(* It doubles once if the range is even, and leaves the range even.        *)
LEMMA FlushNorm ==
  ASSUME W = 8, NEW e, EncoderOK(e)
  PROVE  LET f == Put(e, Bool(FALSE, Half)) IN
         /\ EncoderOK(f) /\ Even(f)
         /\ Even(e) => Norm(PartRange(e, Bool(FALSE, Half))) = 1
<1> DEFINE bool == Bool(FALSE, Half)
           f == Put(e, bool)
           r == PartRange(e, bool)
           s == Norm(r)
<1>1. r = 1 + (e.range - 1) \div 2 /\ e.range \in Nat /\ 128 <= e.range /\ e.range <= 255
  BY FlushPart
<1> HIDE DEF r
<1>2. r \in Nat /\ 64 <= r /\ r <= 128 /\ (r = 128 => e.range = 255)
  BY <1>1
<1>3. s \in Nat /\ s <= 7 /\ 128 <= r * 2^s /\ r * 2^s <= 255
  BY <1>2, NormInside
<1> HIDE DEF s
<1>4. s = 0 \/ s = 1
  <2>1. s = 0 \/ s = 1 \/ s = 2 \/ s = 3 \/ s = 4 \/ s = 5 \/ s = 6 \/ s = 7
    BY <1>3
  <2>2. 2^2 = 4 /\ 2^3 = 8 /\ 2^4 = 16 /\ 2^5 = 32 /\ 2^6 = 64 /\ 2^7 = 128
    BY SMT
  <2>3. CASE s = 2
    BY <1>2, <1>3, <2>2, <2>3
  <2>4. CASE s = 3
    BY <1>2, <1>3, <2>2, <2>4
  <2>5. CASE s = 4
    BY <1>2, <1>3, <2>2, <2>5
  <2>6. CASE s = 5
    BY <1>2, <1>3, <2>2, <2>6
  <2>7. CASE s = 6
    BY <1>2, <1>3, <2>2, <2>7
  <2>8. CASE s = 7
    BY <1>2, <1>3, <2>2, <2>8
  <2>9. QED
    BY <2>1, <2>3, <2>4, <2>5, <2>6, <2>7, <2>8
<1>5. 2^0 = 1 /\ 2^1 = 2
  BY SMT
<1>6. EncoderOK(f) /\ f.range = r * 2^s
  <2>1. bool \in Bools
    BY FlushBool
  <2> HIDE DEF bool
  <2>2. QED
    BY <2>1, PutKeeps DEF r, s
<1> HIDE DEF f
<1>7. CASE s = 0
  <2>1. r = 128 /\ f.range = 2 * 64
    BY <1>2, <1>3, <1>5, <1>6, <1>7
  <2>2. Even(f)
    BY <2>1 DEF Even
  <2>3. ~Even(e)
    BY <1>2, <2>1 DEF Even
  <2>4. QED
    BY <1>6, <2>2, <2>3 DEF f
<1>8. CASE s = 1
  <2>1. f.range = 2 * r
    BY <1>2, <1>5, <1>6, <1>8
  <2>2. Even(f)
    BY <1>2, <2>1 DEF Even
  <2>3. QED
    BY <1>6, <1>8, <2>2 DEF f, s, r
<1>9. QED
  BY <1>4, <1>7, <1>8

(* Each of them, after the first, doubles the low end.                     *)
LEMMA FlushDoubles ==
  ASSUME W = 8, NEW e, EncoderOK(e), Even(e)
  PROVE  LET f == Put(e, Bool(FALSE, Half)) IN
         /\ Low(f) = Low(e) * 2
         /\ Written(f) \/ f.bit_count = e.bit_count + 1
         /\ Written(e) => Written(f)
<1> DEFINE bool == Bool(FALSE, Half)
           f == Put(e, bool)
           s == Norm(PartRange(e, bool))
<1>1. s = 1 /\ bool \in Bools /\ PartLow(e, bool) = Low(e) /\ PartBottom(e, bool) = e.bottom
  BY FlushNorm, FlushBool, FlushPart
<1>2. 2^1 = 2
  BY SMT
<1> HIDE DEF bool
<1>3. Low(f) = Low(e) * 2 /\ EncoderOK(f)
  <2>1. Low(f) = PartLow(e, bool) * 2^s /\ EncoderOK(f)
    BY <1>1, PutKeeps
  <2>2. QED
    BY <1>1, <1>2, <2>1, Zenon
<1>4. e \in EncoderStates /\ e.bit_count \in Int /\ -24 <= e.bit_count /\ e.bit_count <= -1 /\ e.bottom \in Nat
  BY DEF EncoderOK, EncoderStates
<1>5. CASE e.bit_count + s < 0
  <2>1. f.bit_count = e.bit_count + s /\ f.bottom = PartBottom(e, bool) * 2^s /\ Scale(f) = Scale(e) * 2^s
    BY <1>1, <1>5, PutInRegister
  <2>2. f.bit_count = e.bit_count + 1 /\ f.bottom = e.bottom * 2 /\ Scale(f) = Scale(e) * 2
    BY <1>1, <1>2, <2>1, Zenon
  <2>3. Scale(e) \in Nat
    BY <1>4, EncoderFacts
  <2> HIDE DEF f
  <2>4. Written(e) => Written(f)
    BY <1>4, <2>2, <2>3 DEF Written
  <2>5. QED
    BY <1>3, <2>2, <2>4 DEF f, bool
<1>6. CASE e.bit_count + s >= 0
  <2>1. f.bit_count = (e.bit_count + s) - 8 /\ f.bottom < Scale(f)
    BY <1>1, <1>6, PutOctet
  <2> HIDE DEF f, s
  <2>2. f.bit_count = -8
    BY <1>1, <1>4, <1>6, <2>1
  <2>3. Written(f)
    BY <2>1, <2>2 DEF Written
  <2>4. Written(e) => Written(f)
    BY <2>3
  <2>5. QED
    BY <1>3, <2>3, <2>4 DEF f, bool
<1>7. QED
  <2>1. e.bit_count + s < 0 \/ e.bit_count + s >= 0
    <3> HIDE DEF s
    <3>1. QED
      BY <1>1, <1>4
  <2>2. QED
    BY <1>5, <1>6, <2>1

(* Zeros follow the last octet.                                            *)
LEMMA ValuePadded ==
  ASSUME NEW X \in OctetSeqs
  PROVE  LET L == Len(X) IN
         /\ L \in Nat /\ Value(X)[L] \in Nat
         /\ Value(X)[L + 4] = (256 * Two24) * Value(X)[L]
<1> DEFINE L == Len(X)
<1>1. L \in Nat
  BY DEF OctetSeqs
<1>2. \A i \in Nat : i > L => OctetAt(X, i) = 0
  BY <1>1 DEF OctetAt
<1> HIDE DEF L
<1>3. \A k \in Nat : Value(X)[k] \in Nat /\ Value(X)[k + 1] = 256 * Value(X)[k] + OctetAt(X, k + 1)
  BY ValueGoesOn
<1>4. /\ Value(X)[L] \in Nat /\ Value(X)[L + 1] \in Nat /\ Value(X)[L + 2] \in Nat /\ Value(X)[L + 3] \in Nat
      /\ Value(X)[L + 1] = 256 * Value(X)[L]
      /\ Value(X)[(L + 1) + 1] = 256 * Value(X)[L + 1]
      /\ Value(X)[(L + 2) + 1] = 256 * Value(X)[L + 2]
      /\ Value(X)[(L + 3) + 1] = 256 * Value(X)[L + 3]
  <2>1. L + 1 \in Nat /\ L + 2 \in Nat /\ L + 3 \in Nat
    BY <1>1
  <2>2. /\ OctetAt(X, L + 1) = 0 /\ OctetAt(X, (L + 1) + 1) = 0 /\ OctetAt(X, (L + 2) + 1) = 0
        /\ OctetAt(X, (L + 3) + 1) = 0
    BY <1>1, <1>2
  <2>3. QED
    BY <1>1, <1>3, <2>1, <2>2
<1>5. (L + 1) + 1 = L + 2 /\ (L + 2) + 1 = L + 3 /\ (L + 3) + 1 = L + 4
  BY <1>1
<1>6. Value(X)[L + 4] = 4294967296 * Value(X)[L]
  BY <1>4, <1>5, SMT
<1>7. 256 * Two24 = 4294967296
  BY SMT DEF Two24
<1>8. QED
  BY <1>1, <1>4, <1>6, <1>7, SMT DEF L

(* A multiple below its divisor is 0.                                      *)
LEMMA MultipleBelow ==
  ASSUME NEW b \in Nat, NEW q \in Nat, NEW x \in Int, b = q * x, b < q
  PROVE  b = 0
OBVIOUS

(* The scale divides 2^31 once an octet is written.                        *)
LEMMA ScaleDivides ==
  ASSUME NEW c \in Int, -8 <= c, c <= -1
  PROVE  2^(32 + c) * 2^(-1 - c) = Two31 /\ 2^(-1 - c) \in Nat /\ 2^(32 + c) \in Nat
<1>1. CASE c = -1
  <2>1. 2^(32 + c) = 2147483648 /\ 2^(-1 - c) = 1
    BY <1>1, SMT
  <2>2. QED
    BY <2>1, SMT DEF Two31
<1>2. CASE c = -2
  <2>1. 2^(32 + c) = 1073741824 /\ 2^(-1 - c) = 2
    BY <1>2, SMT
  <2>2. QED
    BY <2>1, SMT DEF Two31
<1>3. CASE c = -3
  <2>1. 2^(32 + c) = 536870912 /\ 2^(-1 - c) = 4
    BY <1>3, SMT
  <2>2. QED
    BY <2>1, SMT DEF Two31
<1>4. CASE c = -4
  <2>1. 2^(32 + c) = 268435456 /\ 2^(-1 - c) = 8
    BY <1>4, SMT
  <2>2. QED
    BY <2>1, SMT DEF Two31
<1>5. CASE c = -5
  <2>1. 2^(32 + c) = 134217728 /\ 2^(-1 - c) = 16
    BY <1>5, SMT
  <2>2. QED
    BY <2>1, SMT DEF Two31
<1>6. CASE c = -6
  <2>1. 2^(32 + c) = 67108864 /\ 2^(-1 - c) = 32
    BY <1>6, SMT
  <2>2. QED
    BY <2>1, SMT DEF Two31
<1>7. CASE c = -7
  <2>1. 2^(32 + c) = 33554432 /\ 2^(-1 - c) = 64
    BY <1>7, SMT
  <2>2. QED
    BY <2>1, SMT DEF Two31
<1>8. CASE c = -8
  <2>1. 2^(32 + c) = 16777216 /\ 2^(-1 - c) = 128
    BY <1>8, SMT
  <2>2. QED
    BY <2>1, SMT DEF Two31
<1>9. QED
  BY <1>1, <1>2, <1>3, <1>4, <1>5, <1>6, <1>7, <1>8

(* Once the low end is a multiple of 2^31, nothing is left in the register *)
(* and the octets say it exactly.                                          *)
LEMMA FlushedEncloses ==
  ASSUME W = 8, NEW f, EncoderOK(f), Written(f), NEW a \in Nat, Low(f) = a * Two31
  PROVE  f.output \in OctetSeqs /\ Encloses(f.output, f)
<1> DEFINE X == f.output
           L == Len(X)
           v == Value(X)[L]
           c == f.bit_count
           q == Scale(f)
<1>1. /\ f \in EncoderStates /\ X \in OctetSeqs /\ f.range \in Nat /\ 128 <= f.range
      /\ c \in Int /\ -8 <= c /\ c <= -1 /\ f.bottom \in Nat /\ f.bottom < q
  BY DEF EncoderOK, EncoderStates, Written
<1>2. L \in Nat /\ v \in Nat /\ Value(X)[L + 4] = (256 * Two24) * v
  BY <1>1, ValuePadded
<1>3. q * 2^(-1 - c) = Two31 /\ 2^(-1 - c) \in Nat /\ q \in Nat
  <2> HIDE DEF c
  <2>1. 2^(32 + c) * 2^(-1 - c) = Two31 /\ 2^(-1 - c) \in Nat /\ 2^(32 + c) \in Nat
    BY <1>1, ScaleDivides
  <2>2. q = 2^(32 + c)
    BY DEF Scale, c
  <2> HIDE DEF q
  <2>3. QED
    BY <2>1, <2>2
<1>4. Low(f) = v * q + f.bottom
  BY DEF Low, LastValue
<1>5. f.bottom = 0
  <2> DEFINE y == 2^(-1 - c)
             b == f.bottom
  <2>1. y \in Nat /\ q * y = Two31 /\ b \in Nat /\ b < q /\ v * q + b = a * Two31 /\ q \in Nat /\ v \in Nat
    BY <1>1, <1>2, <1>3, <1>4
  <2> HIDE DEF y, b, q, v
  <2>2. b = q * (a * y - v)
    <3>1. a * (q * y) = q * (a * y)
      BY <2>1
    <3>2. b = q * (a * y) - v * q
      BY <2>1, <3>1
    <3>3. a * y \in Nat
      BY <2>1
    <3>4. QED
      BY <2>1, <3>2, <3>3
  <2>3. a * y - v \in Int
    BY <2>1
  <2>4. b = 0
    BY <2>1, <2>2, <2>3, MultipleBelow
  <2>5. QED
    BY <2>4 DEF b
<1>6. Z(X, Bits(f)) = Value(X)[L + 4] * 2^(8 + c)
  <2> DEFINE T == Bits(f)
  <2>1. T = 8 * L + 24 + c
    BY DEF Bits
  <2> HIDE DEF T, L, c, X
  <2>2. T \div 8 = L + 2 /\ T % 8 = 8 + c
    BY <1>1, <1>2, <2>1
  <2>3. 2 + T \div 8 = L + 4
    BY <1>2, <2>2
  <2>4. Z(X, T) = Value(X)[L + 4] * 2^(8 + c)
    BY <2>2, <2>3, Zenon DEF Z
  <2>5. QED
    BY <2>4 DEF T
<1>7. q = 2^(8 + c) * Two24 /\ 2^(8 + c) \in Nat /\ Two24 \in Nat
  <2> DEFINE n == 8 + c
  <2>1. n \in Nat /\ n <= 7 /\ 24 + n = 32 + c
    BY <1>1
  <2> HIDE DEF n
  <2>2. 2^(24 + n) = 2^n * Two24
    BY <2>1, ThreeOctetsShifted
  <2>3. 2^n \in Nat
    BY <2>1, PowersDouble
  <2>4. q = 2^(32 + c)
    BY DEF Scale
  <2>5. Two24 \in Nat
    BY SMT DEF Two24
  <2>6. QED
    BY <2>1, <2>2, <2>3, <2>4, <2>5, Zenon DEF n
<1>8. Z(X, Bits(f)) = 256 * Low(f) /\ Low(f) \in Nat
  <2> DEFINE y == 2^(8 + c)
             z == Z(X, Bits(f))
  <2>1. Low(f) = v * q
    <3> HIDE DEF v, q
    <3>1. v * q + 0 = v * q
      BY <1>2, <1>3
    <3>2. QED
      BY <1>4, <1>5, <3>1
  <2>2. z = ((256 * Two24) * v) * y
    BY <1>2, <1>6, Zenon
  <2>3. y \in Nat /\ q = y * Two24 /\ Two24 \in Nat /\ v \in Nat /\ q \in Nat
    BY <1>2, <1>3, <1>7
  <2> HIDE DEF y, z, v, q
  <2>4. z = 256 * (v * (y * Two24))
    BY <2>2, <2>3
  <2>5. v * q \in Nat
    BY <2>3
  <2>6. QED
    BY <2>1, <2>3, <2>4, <2>5 DEF z
<1>9. Encloses(X, f)
  <2> DEFINE z == Z(X, Bits(f))
             l == Low(f)
  <2>1. z = 256 * l /\ l \in Nat /\ f.range \in Nat /\ 128 <= f.range
    BY <1>1, <1>8
  <2> HIDE DEF z, l
  <2>2. 256 * l <= z /\ z < 256 * (l + f.range)
    BY <2>1
  <2>3. QED
    BY <2>2 DEF Encloses, Between, z, l
<1>10. QED
  BY <1>1, <1>9

(* Flushing: after the first bool 31 more double the low end, so what      *)
(* finish() returns is in the interval; and no carry leaves the first      *)
(* octet.                                                                  *)
LEMMA FlushEncloses ==
  ASSUME W = 8, NEW e, EncoderOK(e)
  PROVE  /\ Finish(e) \in OctetSeqs /\ Encloses(Finish(e), e) /\ ~Flush(e).overflowed
<1> DEFINE S == {s \in EncoderStates : EncoderOK(s)}
           bool == Bool(FALSE, Half)
<1>0. Flushed = 32 /\ bool \in Bools
  <2>1. Flushed = 32
    BY SMT DEF Flushed
  <2>2. QED
    BY <2>1, FlushBool
<1>1. \A s \in S : Put(s, bool) \in S
  <2> SUFFICES ASSUME NEW s \in S PROVE Put(s, bool) \in S
    OBVIOUS
  <2>1. EncoderOK(s)
    OBVIOUS
  <2> HIDE DEF bool
  <2>2. EncoderOK(Put(s, bool))
    BY <1>0, <2>1, PutKeeps
  <2>3. QED
    BY <2>2 DEF EncoderOK
<1>2. e \in S
  BY DEF EncoderOK
<1>3. \E f : /\ f[0] = e /\ \A k \in 1 .. Flushed : f[k] = Put(f[k - 1], bool)
             /\ Flush(e) = f[Flushed]
  <2> HIDE DEF S
  <2>1. QED
    BY <1>1, <1>2, FlushIterates
<1>4. PICK f : /\ f[0] = e /\ \A k \in 1 .. Flushed : f[k] = Put(f[k - 1], bool)
               /\ Flush(e) = f[Flushed]
  BY <1>3, Zenon
<1> DEFINE m == 32
           bs == [k \in 1 .. m |-> bool]
<1>5. Puts(f, m, bs)
  <2> HIDE DEF m
  <2>1. \A k \in 1 .. m : f[k] = Put(f[k - 1], bool)
    BY <1>0, <1>4 DEF m
  <2>2. QED
    BY <1>0, <2>1 DEF Puts
<1>6. m \in Nat /\ EncoderOK(f[0])
  BY <1>4
<1>7. \A k \in 0 .. m : EncoderOK(f[k])
  <2> HIDE DEF m, bs
  <2>1. QED
    BY <1>5, <1>6, PutsKeep
<1>8. \A k \in Nat : k < m => EncoderOK(f[k]) /\ f[k + 1] = Put(f[k], bool)
  <2> SUFFICES ASSUME NEW k \in Nat, k < m PROVE EncoderOK(f[k]) /\ f[k + 1] = Put(f[k], bool)
    OBVIOUS
  <2>1. k \in 0 .. m
    OBVIOUS
  <2>2. k + 1 \in 1 .. Flushed /\ (k + 1) - 1 = k
    BY <1>0
  <2> HIDE DEF m
  <2>3. f[k + 1] = Put(f[k], bool)
    BY <1>4, <2>2, Zenon
  <2>4. QED
    BY <1>7, <2>1, <2>3
<1>9. Even(f[1]) /\ EncoderOK(f[1])
  <2>1. f[1] = Put(e, bool)
    <3>1. 1 \in 1 .. Flushed /\ 1 - 1 = 0
      BY <1>0
    <3>2. QED
      BY <1>4, <3>1, Zenon
  <2>2. QED
    BY <2>1, FlushNorm
(* Every put after the first doubles.                                      *)
<1> DEFINE P(k) == /\ Even(f[k + 1]) /\ Low(f[k + 1]) = Low(f[1]) * 2^k
                   /\ Written(f[k + 1]) \/ f[k + 1].bit_count >= k - 24
           good == {k \in Nat : k < m => P(k)}
<1>10. 0 \in good
  <2>1. f[1].bit_count \in Int /\ -24 <= f[1].bit_count /\ f[1] \in EncoderStates
    BY <1>9 DEF EncoderOK, EncoderStates
  <2>2. Low(f[1]) \in Nat
    BY <2>1, EncoderFacts
  <2>3. Low(f[1]) * 2^0 = Low(f[1])
    BY <2>2
  <2>4. 0 + 1 = 1 /\ f[1].bit_count >= 0 - 24
    BY <2>1
  <2>5. P(0)
    BY <1>9, <2>3, <2>4
  <2>6. QED
    BY <2>5
<1>11. ASSUME NEW k \in Nat, k \in good PROVE k + 1 \in good
  <2> SUFFICES ASSUME k + 1 < m PROVE P(k + 1)
    OBVIOUS
  <2>1. P(k)
    BY <1>11
  <2>2. EncoderOK(f[k + 1]) /\ f[(k + 1) + 1] = Put(f[k + 1], bool)
    <3> HIDE DEF m
    <3>1. k + 1 \in Nat
      OBVIOUS
    <3>2. QED
      BY <1>8, <3>1
  <2>3. Even(f[(k + 1) + 1])
    BY <2>2, FlushNorm
  <2>4. /\ Low(f[(k + 1) + 1]) = Low(f[k + 1]) * 2
        /\ Written(f[(k + 1) + 1]) \/ f[(k + 1) + 1].bit_count = f[k + 1].bit_count + 1
        /\ Written(f[k + 1]) => Written(f[(k + 1) + 1])
    BY <2>1, <2>2, FlushDoubles
  <2>5. 2^k \in Nat /\ 2^(k + 1) = 2 * 2^k
    <3>1. k <= 31
      OBVIOUS
    <3>2. QED
      BY <3>1, PowersDouble
  <2>6. Low(f[1]) \in Nat
    <3>1. f[1] \in EncoderStates
      BY <1>9 DEF EncoderOK
    <3>2. QED
      BY <3>1, EncoderFacts
  <2>7. Low(f[(k + 1) + 1]) = Low(f[1]) * 2^(k + 1)
    BY <2>1, <2>4, <2>5, <2>6
  <2>8. Written(f[(k + 1) + 1]) \/ f[(k + 1) + 1].bit_count >= (k + 1) - 24
    <3>1. f[k + 1].bit_count \in Int
      BY <2>2 DEF EncoderOK, EncoderStates
    <3>2. QED
      BY <2>1, <2>4, <3>1
  <2>9. QED
    BY <2>3, <2>7, <2>8
<1>12. \A k \in Nat : k \in good
  <2> HIDE DEF good
  <2>1. QED
    BY <1>10, <1>11, SetInduction
<1>13. Written(f[32]) /\ Low(f[32]) = Low(f[1]) * Two31 /\ Low(f[1]) \in Nat
  <2>1. P(31)
    <3>1. 31 \in Nat /\ 31 < m
      OBVIOUS
    <3> HIDE DEF P
    <3>2. QED
      BY <1>12, <3>1
  <2>2. 31 + 1 = 32 /\ 2^31 = Two31
    BY SMT DEF Two31
  <2>3. f[32].bit_count \in Int /\ f[32].bit_count <= -1
    <3>1. EncoderOK(f[32])
      BY <1>7
    <3>2. QED
      BY <3>1 DEF EncoderOK, EncoderStates
  <2>4. Low(f[1]) \in Nat
    <3>1. f[1] \in EncoderStates
      BY <1>9 DEF EncoderOK
    <3>2. QED
      BY <3>1, EncoderFacts
  <2>5. Low(f[32]) = Low(f[1]) * Two31
    <3>1. Low(f[31 + 1]) = Low(f[1]) * 2^31
      BY <2>1
    <3>2. QED
      BY <2>2, <3>1, Zenon
  <2>6. Written(f[32]) \/ f[32].bit_count >= 31 - 24
    <3>1. Written(f[31 + 1]) \/ f[31 + 1].bit_count >= 31 - 24
      BY <2>1
    <3>2. QED
      BY <2>2, <3>1, Zenon
  <2>7. QED
    BY <2>3, <2>4, <2>5, <2>6
<1>14. EncoderOK(f[32])
  BY <1>7
<1>15. f[32].output \in OctetSeqs /\ Encloses(f[32].output, f[32])
  BY <1>13, <1>14, FlushedEncloses
<1>16. Finish(e) = f[32].output /\ Flush(e) = f[32]
  BY <1>0, <1>4 DEF Finish
<1>17. Encloses(f[32].output, f[0])
  <2>1. Encloses(f[32].output, f[m])
    BY <1>15
  <2> HIDE DEF m, bs
  <2>2. QED
    BY <1>5, <1>6, <1>15, <2>1, PutsEnclose
<1>18. ~f[32].overflowed
  BY <1>14 DEF EncoderOK
<1>19. QED
  BY <1>4, <1>15, <1>16, <1>17, <1>18

(* The decoder starts at the beginning of the window.                      *)
LEMMA NewDecoderFollows ==
  ASSUME W = 8, NEW X \in OctetSeqs
  PROVE  /\ NewBoolDecoder(X) \in DecoderStates /\ Follows(NewBoolDecoder(X), X, 0, 0)
         /\ NewBoolDecoder(X).range = 255 /\ NewBoolDecoder(X).read = << >>
<1> DEFINE a == [chunk |-> X, value |-> 0, range |-> 255, bit_count |-> 0, read |-> << >>]
           b == LoadOctet(a)
           c == [b EXCEPT !.value = @ * 256]
           d == LoadOctet(c)
<1>1. NewBoolDecoder(X) = d
  <2>1. 2^W = 256 /\ 2^W - 1 = 255
    BY Powers, SMT
  <2>2. QED
    BY <2>1, Zenon DEF NewBoolDecoder
<1>2. a \in DecoderRecords
  BY DEF DecoderRecords
<1>3. /\ b \in DecoderRecords /\ b.value = 0 + OctetAt(X, 1) /\ b.range = 255 /\ b.bit_count = 0 /\ b.read = << >>
      /\ \A i \in Nat \ {0} : OctetAt(b.chunk, i) = OctetAt(X, i + 1)
  <2>1. a.chunk = X /\ a.value = 0 /\ a.range = 255 /\ a.bit_count = 0 /\ a.read = << >>
    OBVIOUS
  <2> HIDE DEF a
  <2>2. QED
    BY <1>2, <2>1, LoadOctetReads
<1> HIDE DEF b
<1>4. /\ c \in DecoderRecords /\ c.value = b.value * 256 /\ c.range = 255 /\ c.bit_count = 0 /\ c.read = << >>
      /\ c.chunk = b.chunk
  <2>1. b.value * 256 \in Int
    BY <1>3, OctetAtType
  <2>2. QED
    BY <1>3, <2>1 DEF DecoderRecords
<1> HIDE DEF c
<1>5. /\ d \in DecoderRecords /\ d.value = c.value + OctetAt(b.chunk, 1) /\ d.range = 255 /\ d.bit_count = 0
      /\ d.read = << >> /\ \A i \in Nat \ {0} : OctetAt(d.chunk, i) = OctetAt(b.chunk, i + 1)
  BY <1>4, LoadOctetReads
<1> HIDE DEF d
<1>6. IsRest(d.chunk, X, 2)
  <2>1. \A i \in Nat \ {0} : i + 1 \in Nat \ {0} /\ (i + 1) + 1 = 2 + i
    OBVIOUS
  <2>2. QED
    BY <1>3, <1>5, <2>1 DEF IsRest
<1>7. d.value = 256 * OctetAt(X, 1) + OctetAt(X, 2)
  <2>1. OctetAt(b.chunk, 1) = OctetAt(X, 2)
    <3>1. OctetAt(b.chunk, 1) = OctetAt(X, 1 + 1)
      BY <1>3
    <3>2. 1 + 1 = 2
      OBVIOUS
    <3>3. QED
      BY <3>1, <3>2, Zenon
  <2>2. OctetAt(X, 1) \in Nat /\ OctetAt(X, 2) \in Nat
    BY OctetAtType
  <2>3. QED
    BY <1>3, <1>4, <1>5, <2>1, <2>2
<1>8. Z(X, 0) = 256 * OctetAt(X, 1) + OctetAt(X, 2)
  <2>1. /\ Value(X)[0] = 0 /\ Value(X)[0 + 1] = 256 * Value(X)[0] + OctetAt(X, 0 + 1)
        /\ Value(X)[1 + 1] = 256 * Value(X)[1] + OctetAt(X, 1 + 1)
    BY ValueStarts, ValueGoesOn
  <2>2. OctetAt(X, 1) \in Nat /\ OctetAt(X, 2) \in Nat
    BY OctetAtType
  <2>3. Value(X)[2] = 256 * OctetAt(X, 1) + OctetAt(X, 2)
    BY <2>1, <2>2
  <2>4. 2 + 0 \div 8 = 2 /\ 2^(0 % 8) = 1
    <3>1. 0 \div 8 = 0 /\ 0 % 8 = 0 /\ 2^0 = 1
      BY SMT
    <3>2. QED
      BY <3>1
  <2>5. Z(X, 0) = Value(X)[2] * 1
    BY <2>4, Zenon DEF Z
  <2>6. QED
    BY <2>2, <2>3, <2>5
<1>9. Follows(d, X, 0, 0)
  <2>1. 0 % 8 = 0 /\ 2 + 0 \div 8 = 2
    BY SMT
  <2>2. Z(X, 0) - 256 * 0 = Z(X, 0)
    BY <1>8, OctetAtType
  <2>3. d.value = Z(X, 0) - 256 * 0
    BY <1>7, <1>8, <2>2, Zenon
  <2>4. d.bit_count = 0 % 8 /\ IsRest(d.chunk, X, 2 + 0 \div 8)
    BY <1>5, <1>6, <2>1, Zenon
  <2>5. QED
    BY <2>3, <2>4, Zenon DEF Follows
<1>10. d \in DecoderStates
  BY <1>5 DEF DecoderStates
<1>11. QED
  BY <1>1, <1>5, <1>9, <1>10, Zenon

(* Decoding gets one bool after another.                                   *)
LEMMA DecodedIterates ==
  ASSUME W = 8, NEW X \in OctetSeqs, NEW ps, NEW n \in Nat, Len(ps) = n,
         \A k \in 1 .. n : ps[k] \in Nat /\ 1 <= ps[k] /\ ps[k] <= 255
  PROVE \E f :
           /\ f[0] = NewBoolDecoder(X) /\ \A k \in 1 .. n : f[k] = Get(f[k - 1], ps[k])
           /\ DecodedBools(X, ps) = f[n].read
<1> DEFINE S == DecoderStates
           a == NewBoolDecoder(X)
           step == [q \in S \X Nat |-> IF q[2] \in 1 .. n THEN Get(q[1], ps[q[2]]) ELSE q[1]]
           Def(f) == f = [k \in 0 .. n |-> IF k = 0 THEN a ELSE Get(f[k - 1], ps[k])]
<1>1. step \in [S \X Nat -> S]
  <2> SUFFICES ASSUME NEW d \in S, NEW k \in Nat PROVE (IF k \in 1 .. n THEN Get(d, ps[k]) ELSE d) \in S
    OBVIOUS
  <2>1. CASE k \in 1 .. n
    <3>1. ps[k] \in Nat /\ 1 <= ps[k] /\ ps[k] <= 255
      BY <2>1
    <3>2. Get(d, ps[k]) \in S
      BY <3>1, GetState
    <3>3. QED
      BY <2>1, <3>2
  <2>2. CASE k \notin 1 .. n
    BY <2>2
  <2>3. QED
    BY <2>1, <2>2
<1>2. a \in S
  BY NewDecoderFollows
<1>3. \E h \in [0 .. n -> S] : IteratesUpTo(h, n, a, step)
  <2> HIDE DEF step, a, S
  <2>1. QED
    BY <1>1, <1>2, IterationUpTo
<1>4. PICK h \in [0 .. n -> S] : IteratesUpTo(h, n, a, step)
  BY <1>3, Zenon
<1>5. Def(h)
  <2> HIDE DEF a, S
  <2>1. ASSUME NEW k \in 0 .. n PROVE h[k] = IF k = 0 THEN a ELSE Get(h[k - 1], ps[k])
    <3>1. h[k] = IF k = 0 THEN a ELSE step[<<h[k - 1], k>>]
      <4> HIDE DEF step
      <4>1. QED
        BY <1>4 DEF IteratesUpTo
    <3>2. CASE k = 0
      BY <3>1, <3>2
    <3>3. CASE k # 0
      <4>1. k \in Nat /\ k - 1 \in 0 .. n /\ k \in 1 .. n
        BY <3>3
      <4>2. h[k - 1] \in S
        BY <4>1
      <4>3. step[<<h[k - 1], k>>] = Get(h[k - 1], ps[k])
        BY <4>1, <4>2
      <4>4. QED
        BY <3>1, <3>3, <4>3, Zenon
    <3>4. QED
      BY <3>2, <3>3
  <2>2. h = [k \in 0 .. n |-> h[k]]
    OBVIOUS
  <2>3. QED
    BY <2>1, <2>2
<1> DEFINE after == CHOOSE f : Def(f)
<1>6. Def(after)
  <2> HIDE DEF Def
  <2>1. QED
    BY <1>5, Zenon
<1>7. DecodedBools(X, ps) = after[n].read
  BY Zenon DEF DecodedBools
<1>8. \A k \in 0 .. n : after[k] = IF k = 0 THEN a ELSE Get(after[k - 1], ps[k])
  <2> HIDE DEF after, a
  <2>1. QED
    BY <1>6
<1> HIDE DEF after, a
<1>9. after[0] = a /\ \A k \in 1 .. n : after[k] = Get(after[k - 1], ps[k])
  <2>1. 0 \in 0 .. n /\ \A k \in 1 .. n : k \in 0 .. n /\ k # 0
    OBVIOUS
  <2>2. QED
    BY <1>8, <2>1, Zenon
<1>10. QED
  BY <1>7, <1>9 DEF a

(* What was put is read back from octets that the last interval encloses:  *)
(* induction forwards over the gets.                                       *)
LEMMA DecodedIsCoded ==
  ASSUME W = 8, NEW E, NEW n \in Nat, NEW bs, E[0] = NewBoolEncoder, Puts(E, n, bs),
         NEW X \in OctetSeqs, Encloses(X, E[n]),
         NEW ps, Len(ps) = n, \A k \in 1 .. n : ps[k] = bs[k].probability
  PROVE  DecodedBools(X, ps) \in Seq(BOOLEAN) /\ Len(DecodedBools(X, ps)) = n
         /\ \A i \in 1 .. n : DecodedBools(X, ps)[i] = bs[i].bit
<1>1. EncoderOK(E[0]) /\ Low(E[0]) = 0 /\ E[0].range = 255 /\ Bits(E[0]) = 0
  BY NewEncoderOK
<1>2. \A k \in 0 .. n : EncoderOK(E[k])
  BY <1>1, PutsKeep
<1>3. \A k \in 1 .. n : EnclosesPart(X, E[k - 1], bs[k])
  BY <1>1, PutsEnclose
<1>4. \A k \in 1 .. n : bs[k] \in Bools /\ E[k] = Put(E[k - 1], bs[k])
  BY DEF Puts
<1>5. \E f :
           /\ f[0] = NewBoolDecoder(X) /\ \A k \in 1 .. n : f[k] = Get(f[k - 1], ps[k])
           /\ DecodedBools(X, ps) = f[n].read
  <2>1. \A k \in 1 .. n : ps[k] \in Nat /\ 1 <= ps[k] /\ ps[k] <= 255
    BY <1>4 DEF Bools
  <2>2. QED
    BY ONLY W = 8, X \in OctetSeqs, n \in Nat, Len(ps) = n, <2>1, DecodedIterates, SMTT(60)
<1>6. PICK f :
           /\ f[0] = NewBoolDecoder(X) /\ \A k \in 1 .. n : f[k] = Get(f[k - 1], ps[k])
           /\ DecodedBools(X, ps) = f[n].read
  BY <1>5, Zenon
<1> DEFINE Right(k) == /\ f[k] \in DecoderStates /\ Follows(f[k], X, Bits(E[k]), Low(E[k])) /\ f[k].range = E[k].range
                       /\ f[k].read \in Seq(BOOLEAN) /\ Len(f[k].read) = k
                       /\ \A i \in 1 .. k : f[k].read[i] = bs[i].bit
           good == {k \in Nat : k <= n => Right(k)}
<1>7. 0 \in good
  <2>1. /\ f[0] \in DecoderStates /\ Follows(f[0], X, 0, 0) /\ f[0].range = 255 /\ f[0].read = << >>
    BY <1>6, NewDecoderFollows
  <2>2. << >> \in Seq(BOOLEAN) /\ Len(<< >>) = 0
    OBVIOUS
  <2>3. Right(0)
    BY <1>1, <2>1, <2>2
  <2>4. QED
    BY <2>3
<1>8. ASSUME NEW k \in Nat, k \in good PROVE k + 1 \in good
  <2> SUFFICES ASSUME k + 1 <= n PROVE Right(k + 1)
    OBVIOUS
  <2>1. Right(k)
    BY <1>8
  <2>2. k + 1 \in 1 .. n /\ (k + 1) - 1 = k /\ k \in 0 .. n
    OBVIOUS
  <2> DEFINE e == E[k]
             bool == bs[k + 1]
             d == f[k]
             p == bool.probability
  <2>3. /\ EncoderOK(e) /\ bool \in Bools /\ EnclosesPart(X, e, bool) /\ E[k + 1] = Put(e, bool)
        /\ f[k + 1] = Get(d, p)
    <3>1. EnclosesPart(X, E[(k + 1) - 1], bs[k + 1]) /\ E[k + 1] = Put(E[(k + 1) - 1], bs[k + 1])
      BY <1>3, <1>4, <2>2, Zenon
    <3>2. f[k + 1] = Get(f[(k + 1) - 1], ps[k + 1]) /\ ps[k + 1] = bs[k + 1].probability
      BY <1>6, <2>2, Zenon
    <3>3. EncoderOK(E[k]) /\ bs[k + 1] \in Bools
      BY <1>2, <1>4, <2>2
    <3>4. QED
      BY <2>2, <3>1, <3>2, <3>3, Zenon
  <2>4. d \in DecoderStates /\ Follows(d, X, Bits(e), Low(e)) /\ d.range = e.range
    BY <2>1
  <2>5. bool.bit \in BOOLEAN
    BY <2>3 DEF Bools
  <2>6. /\ Get(d, p) \in DecoderStates
        /\ Follows(Get(d, p), X, Bits(Put(e, bool)), Low(Put(e, bool)))
        /\ Get(d, p).range = Put(e, bool).range
        /\ Get(d, p).read = Append(d.read, bool.bit)
    <3> HIDE DEF d, e, bool, Right, good
    <3>1. QED
      BY <2>3, <2>4, GetReads
  <2>7. /\ d.read \in Seq(BOOLEAN) /\ Len(d.read) = k /\ \A i \in 1 .. k : d.read[i] = bs[i].bit
    BY <2>1
  <2>8. /\ Append(d.read, bool.bit) \in Seq(BOOLEAN) /\ Len(Append(d.read, bool.bit)) = k + 1
        /\ \A i \in 1 .. k + 1 : Append(d.read, bool.bit)[i] = bs[i].bit
    <3>1. \A i \in 1 .. k + 1 : i = k + 1 \/ i \in 1 .. k
      OBVIOUS
    <3>2. Append(d.read, bool.bit)[k + 1] = bool.bit
      BY <2>7
    <3>3. \A i \in 1 .. k : Append(d.read, bool.bit)[i] = d.read[i]
      BY <2>7
    <3>4. Append(d.read, bool.bit) \in Seq(BOOLEAN) /\ Len(Append(d.read, bool.bit)) = k + 1
      BY <2>5, <2>7
    <3>5. \A i \in 1 .. k + 1 : Append(d.read, bool.bit)[i] = bs[i].bit
      BY <2>7, <3>1, <3>2, <3>3, Zenon
    <3>6. QED
      BY <3>4, <3>5
  <2>9. QED
    <3>1. f[k + 1] = Get(d, p) /\ E[k + 1] = Put(e, bool)
      BY <2>3
    <3>2. f[k + 1].read = Append(d.read, bool.bit)
      BY <2>6, <3>1, Zenon
    <3>3. /\ f[k + 1].read \in Seq(BOOLEAN) /\ Len(f[k + 1].read) = k + 1
          /\ \A i \in 1 .. k + 1 : f[k + 1].read[i] = bs[i].bit
      BY <2>8, <3>2, Zenon
    <3>4. f[k + 1] \in DecoderStates /\ Follows(f[k + 1], X, Bits(E[k + 1]), Low(E[k + 1])) /\ f[k + 1].range = E[k + 1].range
      BY <2>6, <3>1, Zenon
    <3>5. QED
      BY <3>3, <3>4, Zenon
<1>9. \A k \in Nat : k \in good
  <2> HIDE DEF good
  <2>1. QED
    BY <1>7, <1>8, SetInduction
<1>10. Right(n)
  <2> HIDE DEF Right
  <2>1. QED
    BY <1>9
<1>11. QED
  <2>1. DecodedBools(X, ps) = f[n].read
    BY <1>6
  <2>2. f[n].read \in Seq(BOOLEAN) /\ Len(f[n].read) = n /\ \A i \in 1 .. n : f[n].read[i] = bs[i].bit
    BY <1>10
  <2>3. QED
    BY <2>1, <2>2, Zenon

(* The bools put so far led to this encoder.                               *)
Coded(bs, e) ==
  \E E : E[0] = NewBoolEncoder /\ Puts(E, Len(bs), bs) /\ E[Len(bs)] = e

(* What is known of the encoder between two bools: which bools it was      *)
(* given.                                                                  *)
CoderInv == bools \in Seq(Bools) /\ Coded(bools, bool_encoder)

(* In every such state the encoder is in order.                            *)
LEMMA CodedEncoder ==
  ASSUME W = 8, CoderInv
  PROVE  EncoderOK(bool_encoder)
<1> DEFINE n == Len(bools)
<1>1. n \in Nat
  BY DEF CoderInv
<1>2. PICK E : E[0] = NewBoolEncoder /\ Puts(E, n, bools) /\ E[n] = bool_encoder
  BY Zenon DEF CoderInv, Coded
<1>3. EncoderOK(E[0])
  BY <1>2, NewEncoderOK
<1>4. \A k \in 0 .. n : EncoderOK(E[k])
  <2> HIDE DEF n
  <2>1. QED
    BY <1>1, <1>2, <1>3, PutsKeep
<1>5. QED
  BY <1>1, <1>2, <1>4

(* In every such state flushing and decoding returns the bools.            *)
LEMMA CodedRoundTrips ==
  ASSUME W = 8, CoderInv
  PROVE  BoolsRoundTrip
<1> DEFINE n == Len(bools)
           ps == [i \in DOMAIN bools |-> bools[i].probability]
           bits == [i \in DOMAIN bools |-> bools[i].bit]
           X == Finish(bool_encoder)
<1>1. bools \in Seq(Bools) /\ n \in Nat /\ DOMAIN bools = 1 .. n /\ \A i \in 1 .. n : bools[i] \in Bools
  BY DEF CoderInv
<1>2. PICK E : E[0] = NewBoolEncoder /\ Puts(E, n, bools) /\ E[n] = bool_encoder
  BY Zenon DEF CoderInv, Coded
<1>3. ps \in Seq(Nat) /\ Len(ps) = n /\ \A k \in 1 .. n : ps[k] = bools[k].probability
  <2>1. ps \in [1 .. n -> Nat]
    BY <1>1 DEF Bools
  <2>2. QED
    BY <1>1, <2>1
<1>4. EncoderOK(bool_encoder)
  BY CodedEncoder
<1>5. X \in OctetSeqs /\ Encloses(X, bool_encoder) /\ ~Flush(bool_encoder).overflowed
  BY <1>4, FlushEncloses
<1>6. /\ DecodedBools(X, ps) \in Seq(BOOLEAN) /\ Len(DecodedBools(X, ps)) = n
      /\ \A i \in 1 .. n : DecodedBools(X, ps)[i] = bools[i].bit
  <2> HIDE DEF n, X, ps
  <2>1. n \in Nat
    BY <1>1
  <2>2. Encloses(X, E[n])
    BY <1>2, <1>5, Zenon
  <2>3. QED
    BY ONLY W = 8, <2>1, <2>2, <1>2, <1>3, <1>5, DecodedIsCoded, SMTT(60)
<1>7. DecodedBools(X, ps) = bits
  <2> DEFINE g == DecodedBools(X, ps)
  <2>1. g \in Seq(BOOLEAN) /\ Len(g) = n /\ \A i \in 1 .. n : g[i] = bools[i].bit
    BY <1>6
  <2> HIDE DEF g, n
  <2>2. g = [i \in 1 .. n |-> g[i]]
    BY <2>1
  <2>3. bits = [i \in 1 .. n |-> bools[i].bit]
    BY <1>1
  <2>4. g = bits
    BY <2>1, <2>2, <2>3
  <2>5. QED
    BY <2>4 DEF g
<1>8. QED
  BY <1>5, <1>7, Zenon DEF BoolsRoundTrip

(* One bool more.                                                          *)
LEMMA PutBoolCodes ==
  ASSUME W = 8, CoderInv, CoderNext
  PROVE  CoderInv'
<1> DEFINE n == Len(bools)
<1>1. PICK b \in BOOLEAN, p \in Probabilities \cup {Half} :
        bools' = Append(bools, Bool(b, p)) /\ bool_encoder' = Put(bool_encoder, Bool(b, p))
  BY DEF CoderNext, PutBool
<1> DEFINE bool == Bool(b, p)
<1>2. bool \in Bools
  <2>1. 2^W - 1 = 255 /\ Half = 128
    BY Powers, SMT DEF Half
  <2>2. p \in Nat /\ 1 <= p /\ p <= 255
    BY <2>1, CoderAssumption
  <2>3. QED
    BY <2>2 DEF Bool, Bools
<1>3. bools \in Seq(Bools) /\ n \in Nat
  BY DEF CoderInv
<1>4. PICK E : E[0] = NewBoolEncoder /\ Puts(E, n, bools) /\ E[n] = bool_encoder
  BY Zenon DEF CoderInv, Coded
<1> HIDE DEF bool
<1>5. bools' \in Seq(Bools) /\ Len(bools') = n + 1 /\ bools'[n + 1] = bool /\ \A i \in 1 .. n : bools'[i] = bools[i]
  BY <1>1, <1>2, <1>3 DEF bool
<1> DEFINE F == [k \in 0 .. n + 1 |-> IF k = n + 1 THEN Put(bool_encoder, bool) ELSE E[k]]
<1>6. F[0] = NewBoolEncoder /\ F[n + 1] = bool_encoder'
  BY <1>1, <1>3, <1>4 DEF bool
<1>7. Puts(F, n + 1, bools')
  <2> SUFFICES ASSUME NEW k \in 1 .. n + 1 PROVE bools'[k] \in Bools /\ F[k] = Put(F[k - 1], bools'[k])
    BY Zenon DEF Puts
  <2>1. CASE k = n + 1
    <3>1. F[n] = bool_encoder /\ F[n + 1] = Put(bool_encoder, bool) /\ (n + 1) - 1 = n
      BY <1>3, <1>4
    <3> HIDE DEF F
    <3>2. QED
      BY <1>2, <1>5, <2>1, <3>1
  <2>2. CASE k \in 1 .. n
    <3>1. F[k] = E[k] /\ F[k - 1] = E[k - 1]
      BY <1>3, <2>2
    <3>2. bools[k] \in Bools /\ E[k] = Put(E[k - 1], bools[k])
      BY <1>4, <2>2, Zenon DEF Puts
    <3> HIDE DEF F
    <3>3. QED
      BY <1>5, <2>2, <3>1, <3>2
  <2>3. QED
    BY <1>3, <2>1, <2>2
<1>8. Coded(bools', bool_encoder')
  <2> HIDE DEF F
  <2>1. F[0] = NewBoolEncoder /\ Puts(F, Len(bools'), bools') /\ F[Len(bools')] = bool_encoder'
    BY <1>5, <1>6, <1>7
  <2>2. QED
    BY <2>1, Zenon DEF Coded
<1>9. QED
  BY <1>5, <1>8 DEF CoderInv, Coded, Puts, NewBoolEncoder, Bools

(* The bools that the steps put.                                           *)
PutBools == Seq([bit : BOOLEAN, probability : Probabilities \cup {Half}])

(* The encoder starts with no bools.                                       *)
LEMMA NothingCoded ==
  ASSUME W = 8, CoderInit
  PROVE  CoderInv /\ bools \in PutBools
<1>1. bools = << >> /\ bool_encoder = NewBoolEncoder
  BY DEF CoderInit
<1> DEFINE E == [k \in 0 .. 0 |-> NewBoolEncoder]
<1>2. E[0] = NewBoolEncoder /\ Puts(E, Len(bools), bools) /\ E[Len(bools)] = bool_encoder
  BY <1>1 DEF Puts
<1> HIDE DEF E
<1>3. Coded(bools, bool_encoder)
  BY <1>2, Zenon DEF Coded
<1>4. QED
  BY <1>1, <1>3 DEF CoderInv, PutBools

(* Any step.                                                               *)
LEMMA CoderStep ==
  ASSUME W = 8, CoderInv, bools \in PutBools, [CoderNext]_coderVars
  PROVE  CoderInv' /\ bools' \in PutBools
<1>1. CASE CoderNext
  <2>1. bools' \in PutBools
    BY <1>1 DEF CoderNext, PutBool, PutBools, Bool
  <2>2. QED
    BY <1>1, <2>1, PutBoolCodes
<1>2. CASE UNCHANGED coderVars
  <2>1. bools' = bools /\ bool_encoder' = bool_encoder
    BY <1>2 DEF coderVars
  <2>2. QED
    BY <2>1 DEF CoderInv, Coded, Puts, NewBoolEncoder, Bools
<1>3. QED
  BY <1>1, <1>2

(* What the encoder keeps is in the types of its members.                  *)
LEMMA EncoderTyped ==
  ASSUME W = 8, CoderInv, bools \in PutBools
  PROVE  CoderTypeOK
<1> DEFINE e == bool_encoder
<1>1. EncoderOK(e)
  BY CodedEncoder
<1>2. /\ e.output \in OctetSeqs /\ e.range \in Nat /\ 128 <= e.range /\ e.range <= 255
      /\ e.bottom \in Nat /\ e.bit_count \in Int /\ -24 <= e.bit_count /\ e.bit_count <= -1
      /\ e.bottom + e.range <= 2 * Scale(e) /\ Scale(e) \in Nat
  BY <1>1, EncoderFacts DEF EncoderOK, EncoderStates
<1>3. Scale(e) <= Two31
  <2>1. (-1 - e.bit_count) \in Nat /\ 32 + e.bit_count \in Nat /\ 32 + e.bit_count <= 31
    BY <1>2
  <2>2. 2^31 = Two31
    BY SMT DEF Two31
  <2>3. QED
    BY <2>1, <2>2, PowersGrow DEF Scale
<1>4. e.bottom < 4294967296
  BY <1>2, <1>3, SMT DEF Two31
<1>5. e.output \in Seq(Octets)
  <2>1. 2^W - 1 = 255
    BY Powers, SMT
  <2>2. \A i \in 1 .. Len(e.output) : e.output[i] \in Octets
    BY <1>2, <2>1 DEF OctetSeqs, IsOctet, Octets
  <2>3. e.output \in Seq(Nat)
    BY <1>2 DEF OctetSeqs
  <2> HIDE DEF e
  <2>4. QED
    BY <2>2, <2>3
<1> HIDE DEF e
<1>6. e.range \in Half .. 2^W - 1 /\ e.bit_count \in -3 * W .. -1 /\ e.bottom \in 0 .. 2^(4 * W) - 1
  BY <1>2, <1>4, Powers, SMT DEF Half
<1>7. QED
  BY <1>5, <1>6 DEF CoderTypeOK, PutBools, e

(* The encoder keeps the types of its members however many bools are put:  *)
(* octets are octets, and the register never needs more than the 32 bits it*)
(* has (BoolEncoder's bottom_; octets of eight bits).                      *)
THEOREM CoderTypeCorrect ==
  W = 8 => (CoderInit /\ [][CoderNext]_coderVars => []CoderTypeOK)
<1> SUFFICES ASSUME W = 8 PROVE CoderInit /\ [][CoderNext]_coderVars => []CoderTypeOK
  OBVIOUS
<1> DEFINE Inv == CoderInv /\ bools \in PutBools
<1>1. CoderInit => Inv
  BY NothingCoded
<1>2. Inv /\ [CoderNext]_coderVars => Inv'
  <2>1. PutBools' = PutBools
    BY DEF PutBools
  <2>2. QED
    BY <2>1, CoderStep
<1>3. Inv => CoderTypeOK
  BY EncoderTyped
<1>4. QED
  BY <1>1, <1>2, <1>3, PTL

(* Whatever bools are put, with whatever probabilities and however many,   *)
(* the decoder reads them back from the octets the encoder has after       *)
(* flushing, in order, and no carry has left the first octet (BoolEncoder, *)
(* BoolDecoder; octets of eight bits).                                     *)
THEOREM BoolsRoundTripHolds ==
  W = 8 => (CoderInit /\ [][CoderNext]_coderVars => []BoolsRoundTrip)
<1> SUFFICES ASSUME W = 8 PROVE CoderInit /\ [][CoderNext]_coderVars => []BoolsRoundTrip
  OBVIOUS
<1> DEFINE Inv == CoderInv /\ bools \in PutBools
<1>1. CoderInit => Inv
  BY NothingCoded
<1>2. Inv /\ [CoderNext]_coderVars => Inv'
  <2>1. PutBools' = PutBools
    BY DEF PutBools
  <2>2. QED
    BY <2>1, CoderStep
<1>3. Inv => BoolsRoundTrip
  BY CodedRoundTrips
<1>4. QED
  BY <1>1, <1>2, <1>3, PTL

-----------------------------------------------------------------------------
(***************************************************************************)
(* The layout of a frame (FrameLayout).                                    *)
(***************************************************************************)

(* The length of the first partition has 19 bits, the others 24.           *)
Two19 == 524288

(* The sums of the first k lengths.                                        *)
AreSums(s, lengths) ==
  /\ s[0] = 0
  /\ \A k \in 1 .. Len(lengths) : s[k] = s[k - 1] + lengths[k]
  /\ \A k \in 0 .. Len(lengths) : s[k] \in Nat

(* The model's function of sums is defined for every number of partitions. *)
LEMMA SumsAreSums ==
  ASSUME NEW lengths \in Seq(Nat)
  PROVE  AreSums(Sums(lengths), lengths)
<1> DEFINE n == Len(lengths)
           step == [q \in Nat \X Nat |-> q[1] + (IF q[2] \in 1 .. n THEN lengths[q[2]] ELSE 0)]
           Def(f) == f = [k \in 0 .. n |-> IF k = 0 THEN 0 ELSE f[k - 1] + lengths[k]]
<1>1. n \in Nat /\ \A k \in 1 .. n : lengths[k] \in Nat
  OBVIOUS
<1>2. step \in [Nat \X Nat -> Nat]
  <2> SUFFICES ASSUME NEW a \in Nat, NEW k \in Nat PROVE a + (IF k \in 1 .. n THEN lengths[k] ELSE 0) \in Nat
    OBVIOUS
  <2> HIDE DEF n
  <2>1. CASE k \in 1 .. n
    BY <1>1, <2>1
  <2>2. CASE k \notin 1 .. n
    BY <2>2
  <2>3. QED
    BY <2>1, <2>2
<1>3. \E h \in [0 .. n -> Nat] : IteratesUpTo(h, n, 0, step)
  <2> HIDE DEF step, n
  <2>1. 0 \in Nat
    OBVIOUS
  <2>2. QED
    BY <1>1, <1>2, <2>1, IterationUpTo
<1>4. PICK h \in [0 .. n -> Nat] : IteratesUpTo(h, n, 0, step)
  BY <1>3, Zenon
<1>5. Def(h)
  <2> HIDE DEF n
  <2>1. ASSUME NEW k \in 0 .. n PROVE h[k] = IF k = 0 THEN 0 ELSE h[k - 1] + lengths[k]
    <3>1. h[k] = IF k = 0 THEN 0 ELSE step[<<h[k - 1], k>>]
      <4> HIDE DEF step
      <4>1. QED
        BY <1>4 DEF IteratesUpTo
    <3>2. CASE k = 0
      BY <3>1, <3>2
    <3>3. CASE k # 0
      <4>1. k \in Nat /\ k - 1 \in 0 .. n /\ k \in 1 .. n
        BY <1>1, <3>3
      <4>2. h[k - 1] \in Nat
        BY <4>1
      <4>3. step[<<h[k - 1], k>>] = h[k - 1] + lengths[k]
        BY <4>1, <4>2
      <4>4. QED
        BY <3>1, <3>3, <4>3, Zenon
    <3>4. QED
      BY <3>2, <3>3
  <2>2. h = [k \in 0 .. n |-> h[k]]
    OBVIOUS
  <2>3. QED
    BY <2>1, <2>2
<1> DEFINE sum == CHOOSE f : Def(f)
<1>6. Def(sum)
  <2> HIDE DEF Def
  <2>1. QED
    BY <1>5, Zenon
<1>7. Sums(lengths) = sum
  BY Zenon DEF Sums
<1> HIDE DEF sum
<1>8. \A k \in 0 .. n : sum[k] = IF k = 0 THEN 0 ELSE sum[k - 1] + lengths[k]
  <2> HIDE DEF n
  <2>1. QED
    BY <1>6
<1>9. sum[0] = 0 /\ \A k \in 1 .. n : sum[k] = sum[k - 1] + lengths[k]
  BY <1>1, <1>8
<1> DEFINE typed == {k \in Nat : k <= n => sum[k] \in Nat}
<1>10. 0 \in typed
  BY <1>9
<1>11. \A k \in Nat : k \in typed => k + 1 \in typed
  <2> SUFFICES ASSUME NEW k \in Nat, k \in typed, k + 1 <= n PROVE sum[k + 1] \in Nat
    OBVIOUS
  <2> HIDE DEF n
  <2>1. k + 1 \in 1 .. n /\ (k + 1) - 1 = k /\ sum[k] \in Nat
    BY <1>1
  <2>2. sum[k + 1] = sum[k] + lengths[k + 1] /\ lengths[k + 1] \in Nat
    BY <1>1, <1>9, <2>1
  <2>3. QED
    BY <2>1, <2>2
<1>12. \A k \in Nat : k \in typed
  <2> HIDE DEF typed
  <2>1. QED
    BY <1>10, <1>11, SetInduction
<1>13. QED
  BY <1>7, <1>9, <1>12 DEF AreSums

(* The sums grow.                                                          *)
LEMMA SumsGrow ==
  ASSUME NEW lengths \in Seq(Nat)
  PROVE  \A k, m \in 0 .. Len(lengths) : k <= m => Sums(lengths)[k] <= Sums(lengths)[m]
<1> DEFINE n == Len(lengths)
           s == Sums(lengths)
           grows == {m \in Nat : m <= n => \A k \in 0 .. m : s[k] <= s[m]}
<1>1. /\ s[0] = 0 /\ \A k \in 1 .. n : s[k] = s[k - 1] + lengths[k]
      /\ \A k \in 0 .. n : s[k] \in Nat
  BY SumsAreSums DEF AreSums
<1>2. n \in Nat /\ \A k \in 1 .. n : lengths[k] \in Nat
  OBVIOUS
<1> HIDE DEF s, n
<1>3. 0 \in grows
  <2>1. \A k \in 0 .. 0 : k = 0
    OBVIOUS
  <2>2. QED
    BY <1>1, <2>1
<1>4. ASSUME NEW m \in Nat, m \in grows PROVE m + 1 \in grows
  <2> SUFFICES ASSUME m + 1 <= n, NEW k \in 0 .. m + 1 PROVE s[k] <= s[m + 1]
    OBVIOUS
  <2>1. m + 1 \in 1 .. n /\ (m + 1) - 1 = m /\ m \in 0 .. n /\ m + 1 \in 0 .. n /\ k \in 0 .. n
    BY <1>2
  <2>2. s[m + 1] = s[m] + lengths[m + 1] /\ lengths[m + 1] \in Nat /\ s[m] \in Nat /\ s[m + 1] \in Nat /\ s[k] \in Nat
    BY <1>1, <1>2, <2>1
  <2>3. CASE k = m + 1
    BY <2>2, <2>3
  <2>4. CASE k \in 0 .. m
    <3>1. s[k] <= s[m]
      BY <1>2, <1>4, <2>4
    <3>2. QED
      BY <2>2, <3>1
  <2>5. QED
    BY <2>3, <2>4
<1>5. \A m \in Nat : m \in grows
  <2> HIDE DEF grows
  <2>1. QED
    BY <1>3, <1>4, SetInduction
<1>6. QED
  BY <1>5 DEF s, n

(* The sums of the lengths that are read are those of the lengths that     *)
(* were written.                                                           *)
LEMMA SumsOfPrefix ==
  ASSUME NEW lengths \in Seq(Nat), NEW prefix \in Seq(Nat), Len(prefix) <= Len(lengths),
         \A i \in 1 .. Len(prefix) : prefix[i] = lengths[i]
  PROVE  \A k \in 0 .. Len(prefix) : Sums(prefix)[k] = Sums(lengths)[k]
<1> DEFINE m == Len(prefix)
           s == Sums(lengths)
           t == Sums(prefix)
           same == {k \in Nat : k <= m => t[k] = s[k]}
<1>1. s[0] = 0 /\ \A k \in 1 .. Len(lengths) : s[k] = s[k - 1] + lengths[k]
  BY SumsAreSums DEF AreSums
<1>2. t[0] = 0 /\ \A k \in 1 .. m : t[k] = t[k - 1] + prefix[k]
  BY SumsAreSums DEF AreSums
<1>3. m \in Nat /\ Len(lengths) \in Nat /\ m <= Len(lengths)
  OBVIOUS
<1> HIDE DEF s, t, m
<1>4. 0 \in same
  BY <1>1, <1>2
<1>5. ASSUME NEW k \in Nat, k \in same PROVE k + 1 \in same
  <2> SUFFICES ASSUME k + 1 <= m PROVE t[k + 1] = s[k + 1]
    OBVIOUS
  <2>1. k + 1 \in 1 .. m /\ k + 1 \in 1 .. Len(lengths) /\ (k + 1) - 1 = k /\ t[k] = s[k]
    BY <1>3, <1>5
  <2>2. t[k + 1] = t[k] + prefix[k + 1] /\ s[k + 1] = s[k] + lengths[k + 1]
    BY <1>1, <1>2, <2>1
  <2>3. prefix[k + 1] = lengths[k + 1]
    BY <2>1 DEF m
  <2>4. QED
    BY <2>1, <2>2, <2>3
<1>6. \A k \in Nat : k \in same
  <2> HIDE DEF same
  <2>1. QED
    BY <1>4, <1>5, SetInduction
<1>7. QED
  BY <1>3, <1>6 DEF s, t, m

(* The parts of a frame.                                                   *)
LEMMA FrameFacts ==
  ASSUME NEW f \in Frames
  PROVE  /\ f.key \in BOOLEAN /\ f.show \in BOOLEAN /\ f.first \in Nat /\ f.first >= 1
         /\ f.dct \in Seq(Nat) /\ Len(f.dct) \in Nat /\ Len(f.dct) >= 1 /\ DOMAIN f.dct = 1 .. Len(f.dct)
         /\ \A k \in 1 .. Len(f.dct) : f.dct[k] \in Nat /\ f.dct[k] >= 1 /\ f.dct[k] < Two24
         /\ HeaderLength(f.key) \in Nat /\ HeaderLength(f.key) >= 3 /\ HeaderLength(f.key) = IF f.key THEN 10 ELSE 3
<1>1. /\ f.key \in BOOLEAN /\ f.show \in BOOLEAN /\ f.first \in FirstLengths
      /\ f.dct \in UNION {[1 .. num -> DctLengths] : num \in DctCounts}
  BY DEF Frames
<1>2. PICK num \in DctCounts : f.dct \in [1 .. num -> DctLengths]
  BY <1>1
<1>3. num \in Nat /\ num >= 1
  BY FrameLayoutAssumption
<1>4. 2^24 = Two24
  BY SMT DEF Two24
<1>5. \A n \in DctLengths : n \in Nat /\ n >= 1 /\ n < Two24
  <2> SUFFICES ASSUME NEW n \in DctLengths PROVE n \in Nat /\ n >= 1 /\ n < Two24
    OBVIOUS
  <2>1. n \in Nat \ {0} /\ n < 2^24
    BY FrameLayoutAssumption, Zenon
  <2>2. QED
    BY <1>4, <2>1
<1>6. \A k \in 1 .. num : f.dct[k] \in Nat /\ f.dct[k] >= 1 /\ f.dct[k] < Two24
  BY <1>2, <1>5
<1>7. f.dct \in [1 .. num -> Nat]
  BY <1>2, <1>6
<1>8. f.dct \in Seq(Nat) /\ Len(f.dct) = num /\ DOMAIN f.dct = 1 .. num
  BY <1>3, <1>7
<1>9. f.first \in Nat /\ f.first >= 1
  <2>1. f.first \in Nat \ {0}
    BY <1>1, FrameLayoutAssumption, Zenon
  <2>2. QED
    BY <2>1
<1>10. HeaderLength(f.key) = IF f.key THEN 10 ELSE 3
  BY DEF HeaderLength
<1>11. QED
  BY <1>1, <1>3, <1>6, <1>8, <1>9, <1>10

(* The three octets of the tag say what was written, the length modulo its *)
(* 19 bits.                                                                *)
LEMMA TagIsReadModulo ==
  ASSUME NEW f \in Frames
  PROVE  Key(f) = f.key /\ Show(f) = f.show /\ FirstLength(f) = f.first % Two19 /\ Offset(f) = HeaderLength(f.key)
<1> DEFINE n == f.first
           a == IF f.key THEN 0 ELSE 1
           b == IF f.show THEN 16 ELSE 0
<1>1. /\ f.key \in BOOLEAN /\ f.show \in BOOLEAN /\ n \in Nat
  BY FrameFacts
<1>2. /\ Octet(f, 0) = a + b + (n % 8) * 32 /\ Octet(f, 1) = (n \div 8) % 256 /\ Octet(f, 2) = (n \div 2048) % 256
  BY DEF Octet, Tag, Flag
<1>3. a \in 0 .. 1 /\ b \in {0, 16} /\ (f.key <=> a = 0) /\ (f.show <=> b = 16)
  BY <1>1
<1> HIDE DEF a, b, n
<1>4. Octet(f, 0) % 2 = a
  BY <1>1, <1>2, <1>3
<1>5. (Octet(f, 0) \div 16) % 2 = b \div 16
  BY <1>1, <1>2, <1>3
<1>6. (Octet(f, 0) + 256 * Octet(f, 1) + 65536 * Octet(f, 2)) \div 32 = n % Two19
  <2>1. n % Two19 = (n % 8) + 8 * ((n \div 8) % 256) + 2048 * ((n \div 2048) % 256)
    BY <1>1, SMT DEF Two19
  <2> DEFINE x == n % 8
             y == (n \div 8) % 256
             z == (n \div 2048) % 256
  <2>2. x \in Nat /\ y \in Nat /\ z \in Nat
    BY <1>1
  <2>3. n % Two19 = x + 8 * y + 2048 * z /\ Octet(f, 0) = a + b + x * 32 /\ Octet(f, 1) = y /\ Octet(f, 2) = z
    BY <1>2, <2>1
  <2> HIDE DEF x, y, z
  <2> DEFINE w == x + 8 * y + 2048 * z
             c == a + b
  <2>4. Octet(f, 0) + 256 * Octet(f, 1) + 65536 * Octet(f, 2) = c + 32 * w
    BY <1>3, <2>2, <2>3, SMT
  <2>5. w \in Nat /\ c \in Nat /\ c < 32 /\ n % Two19 = w
    BY <1>3, <2>2, <2>3, SMT
  <2> HIDE DEF w, c
  <2>6. (c + 32 * w) \div 32 = w
    BY <2>5, SMT
  <2> DEFINE t == Octet(f, 0) + 256 * Octet(f, 1) + 65536 * Octet(f, 2)
  <2>7. t \div 32 = n % Two19
    <3>1. t = c + 32 * w
      BY <2>4
    <3> HIDE DEF t
    <3>2. QED
      BY <2>5, <2>6, <3>1
  <2>8. QED
    BY <2>7
<1>7. Key(f) = f.key
  BY <1>1, <1>3, <1>4 DEF Key
<1>8. Show(f) = f.show
  BY <1>1, <1>3, <1>5 DEF Show
<1>9. QED
  BY <1>6, <1>7, <1>8 DEF FirstLength, Offset, n

(* A length that fits in 19 bits is read as it was written.                *)
LEMMA TagIsRead ==
  ASSUME NEW f \in Frames, f.first < Two19
  PROVE  Key(f) = f.key /\ Show(f) = f.show /\ FirstLength(f) = f.first /\ Offset(f) = HeaderLength(f.key)
<1>1. f.first \in Nat
  BY FrameFacts
<1>2. f.first % Two19 = f.first
  BY <1>1 DEF Two19
<1>3. QED
  BY <1>2, TagIsReadModulo

(* So do the three octets before each partition but the last.              *)
LEMMA LengthIsRead ==
  ASSUME NEW f \in Frames, NEW k \in 1 .. Len(f.dct), k < Len(f.dct)
  PROVE  LET at == HeaderLength(f.key) + f.first + 3 * k IN
         Octet(f, at - 3) + 256 * Octet(f, at - 2) + 65536 * Octet(f, at - 1) = f.dct[k]
<1> DEFINE n == f.dct[k]
           rest == HeaderLength(f.key) + f.first
           at == rest + 3 * k
<1>1. n \in Nat /\ n < Two24 /\ Len(f.dct) \in Nat /\ k \in Nat /\ k >= 1 /\ rest \in Nat /\ rest >= 3
      /\ HeaderLength(f.key) \in Nat /\ f.first \in Nat
  BY FrameFacts
<1>2. ASSUME NEW i \in {0, 1, 2} PROVE Octet(f, (at - 3) + i) = LengthOctets(n)[i + 1]
  <2> DEFINE place == (at - 3) + i
             after == place - HeaderLength(f.key) - f.first
  <2>0. i \in Int /\ 0 <= i /\ i <= 2
    OBVIOUS
  <2>1. after = 3 * (k - 1) + i /\ place >= 3 /\ place \in Int
    <3>1. after = ((at - 3) + i) - HeaderLength(f.key) - f.first /\ at = (HeaderLength(f.key) + f.first) + 3 * k
      OBVIOUS
    <3>2. place = (at - 3) + i /\ at = rest + 3 * k
      OBVIOUS
    <3>3. rest \in Nat /\ rest >= 3 /\ HeaderLength(f.key) \in Nat /\ f.first \in Nat /\ k \in Nat /\ k >= 1
      BY <1>1
    <3> HIDE DEF place, after, at, rest
    <3>4. at \in Int /\ place \in Int /\ place >= 3
      BY <2>0, <3>2, <3>3
    <3>5. after = 3 * (k - 1) + i
      BY <2>0, <3>1, <3>3
    <3>6. QED
      BY <3>4, <3>5
  <2>2. after >= 0 /\ after < 3 * (Len(f.dct) - 1) /\ (after \div 3) + 1 = k /\ (after % 3) + 1 = i + 1
    <3>1. k \in Int /\ k >= 1 /\ k < Len(f.dct) /\ Len(f.dct) \in Int
      BY <1>1
    <3> HIDE DEF after
    <3>2. QED
      BY <2>0, <2>1, <3>1
  <2>3. Octet(f, place) = IF place < 3 THEN Tag(f)[place + 1]
      ELSE IF after >= 0 /\ after < 3 * (Len(f.dct) - 1)
      THEN LengthOctets(f.dct[(after \div 3) + 1])[(after % 3) + 1]
      ELSE 0
    BY DEF Octet
  <2> HIDE DEF place, after
  <2>4. Octet(f, place) = LengthOctets(f.dct[(after \div 3) + 1])[(after % 3) + 1]
    BY <2>1, <2>2, <2>3
  <2>5. Octet(f, place) = LengthOctets(f.dct[k])[i + 1]
    BY <2>2, <2>4, Zenon
  <2>6. QED
    BY <2>5 DEF place
<1>3. (at - 3) + 0 = at - 3 /\ (at - 3) + 1 = at - 2 /\ (at - 3) + 2 = at - 1
  BY <1>1
<1>4. Octet(f, at - 3) = LengthOctets(n)[1] /\ Octet(f, at - 2) = LengthOctets(n)[2] /\ Octet(f, at - 1) = LengthOctets(n)[3]
  <2> HIDE DEF at, n
  <2>1. Octet(f, (at - 3) + 0) = LengthOctets(n)[0 + 1] /\ Octet(f, (at - 3) + 1) = LengthOctets(n)[1 + 1]
        /\ Octet(f, (at - 3) + 2) = LengthOctets(n)[2 + 1]
    BY <1>2
  <2>2. QED
    BY <1>3, <2>1
<1>5. LengthOctets(n)[1] = n % 256 /\ LengthOctets(n)[2] = (n \div 256) % 256 /\ LengthOctets(n)[3] = (n \div 65536) % 256
  BY DEF LengthOctets
<1>6. (n % 256) + 256 * ((n \div 256) % 256) + 65536 * ((n \div 65536) % 256) = n
  <2> HIDE DEF n
  <2>1. QED
    BY <1>1, SMT DEF Two24
<1>7. QED
  <2> HIDE DEF n
  <2>1. Octet(f, at - 3) + 256 * Octet(f, at - 2) + 65536 * Octet(f, at - 1) = n
    <3> HIDE DEF at
    <3>1. QED
      BY <1>4, <1>5, <1>6, SMT
  <2>2. QED
    BY <2>1 DEF n

(* A frame that was written, and what has arrived of it.                   *)
LayoutInv ==
  /\ frame \in Frames
  /\ received \in Nat /\ received <= Size(frame)

(* Where the last partition starts and ends.                               *)
LEMMA SizeFacts ==
  ASSUME NEW f \in Frames
  PROVE  LET n == Len(f.dct) IN
         /\ DctStart(f) = HeaderLength(f.key) + f.first + 3 * (n - 1) /\ DctStart(f) \in Nat
         /\ Size(f) = DctStart(f) + Sums(f.dct)[n - 1] + f.dct[n]
         /\ Size(f) \in Nat /\ Sums(f.dct)[n - 1] \in Nat /\ f.dct[n] \in Nat /\ f.dct[n] >= 1
<1> DEFINE n == Len(f.dct)
           s == Sums(f.dct)
<1>1. f.dct \in Seq(Nat) /\ n \in Nat /\ n >= 1 /\ f.first \in Nat /\ HeaderLength(f.key) \in Nat
      /\ f.dct[n] \in Nat /\ f.dct[n] >= 1
  BY FrameFacts
<1>2. AreSums(s, f.dct)
  BY <1>1, SumsAreSums
<1> HIDE DEF s, n
<1>3. n \in 1 .. n /\ n - 1 \in 0 .. n /\ n \in 0 .. n
  BY <1>1
<1>4. s[n] = s[n - 1] + f.dct[n] /\ s[n - 1] \in Nat /\ s[n] \in Nat
  BY <1>2, <1>3 DEF AreSums, n
<1>5. DctStart(f) = HeaderLength(f.key) + f.first + 3 * (n - 1)
  BY DEF DctStart, n
<1>6. DctStart(f) \in Nat
  BY <1>1, <1>5
<1>7. Size(f) = DctStart(f) + s[n]
  BY DEF Size, s, n
<1>8. Size(f) = DctStart(f) + s[n - 1] + f.dct[n] /\ Size(f) \in Nat
  BY <1>1, <1>4, <1>6, <1>7, SMTT(60)
<1>9. QED
  BY <1>1, <1>4, <1>5, <1>6, <1>8 DEF s, n

(* What the parser makes of the partitions.                                *)
ReadPart(f, k) ==
  [first |-> DctStart(f) + Sums(f.dct)[k - 1],
   length |-> IF k < Len(f.dct) THEN f.dct[k] ELSE received - (DctStart(f) + Sums(f.dct)[k - 1])]

(* The lengths the parser finds.                                           *)
LEMMA LengthsRead ==
  ASSUME NEW f \in Frames, f.first < Two19, Level(f) = "NO_CORRUPTION"
  PROVE  LET n == Len(f.dct) IN
         /\ PartitionLengths(f, n) \in Seq(Nat) /\ Len(PartitionLengths(f, n)) = n - 1
         /\ \A k \in 1 .. n - 1 : PartitionLengths(f, n)[k] = f.dct[k]
<1> DEFINE n == Len(f.dct)
           m == n - 1
           at(k) == RestOfFrame(f).first + 3 * k
           lengths == PartitionLengths(f, n)
<1>1. RestOfFrame(f).first = HeaderLength(f.key) + f.first
  BY TagIsRead DEF RestOfFrame
<1>2. n \in Nat /\ n >= 1 /\ \A k \in 1 .. n : f.dct[k] \in Nat
  BY FrameFacts
<1>3. ASSUME NEW k \in 1 .. n - 1
      PROVE  Octet(f, at(k) - 3) + 256 * Octet(f, at(k) - 2) + 65536 * Octet(f, at(k) - 1) = f.dct[k]
  <2>1. k \in 1 .. Len(f.dct) /\ k < Len(f.dct)
    BY <1>2
  <2> DEFINE end == HeaderLength(f.key) + f.first + 3 * k
  <2>2. Octet(f, end - 3) + 256 * Octet(f, end - 2) + 65536 * Octet(f, end - 1) = f.dct[k]
    BY <2>1, LengthIsRead
  <2>3. at(k) = end
    BY <1>1
  <2> HIDE DEF at, end
  <2>4. QED
    BY <2>2, <2>3
<1>4. lengths = [k \in 1 .. m |-> f.dct[k]]
  <2>1. lengths = [k \in 1 .. m |-> Octet(f, at(k) - 3) + 256 * Octet(f, at(k) - 2) + 65536 * Octet(f, at(k) - 1)]
    BY DEF PartitionLengths
  <2> HIDE DEF at, lengths, n
  <2>2. QED
    BY <1>3, <2>1
<1>5. m \in Nat /\ \A k \in 1 .. m : f.dct[k] \in Nat
  BY <1>2
<1> HIDE DEF lengths, m
<1>6. lengths \in Seq(Nat) /\ Len(lengths) = m /\ \A k \in 1 .. m : lengths[k] = f.dct[k]
  <2>1. lengths \in [1 .. m -> Nat]
    BY <1>4, <1>5
  <2>2. QED
    BY <1>4, <1>5, <2>1
<1>7. QED
  BY <1>6 DEF lengths, m

(* The partitions it makes of them.                                        *)
LEMMA PartitionsRead ==
  ASSUME NEW f \in Frames, f.first < Two19, Level(f) = "NO_CORRUPTION", received \in Nat
  PROVE  LET n == Len(f.dct)
             last == DctStart(f) + Sums(f.dct)[n - 1]
         IN  DctPartitions(f, n) =
               IF DctStart(f) > received \/ last > received THEN {} ELSE {[k \in 1 .. n |-> ReadPart(f, k)]}
<1> DEFINE n == Len(f.dct)
           lengths == PartitionLengths(f, n)
           start == RestOfFrame(f).first + 3 * (n - 1)
           end == RestOfFrame(f).first + RestOfFrame(f).length
           s == Sums(f.dct)
           t == Sums(lengths)
           at(k) == start + t[k - 1]
           parts == [k \in 1 .. n |-> [first |-> at(k), length |-> IF k < n THEN lengths[k] ELSE received - at(k)]]
<1>0. RestOfFrame(f).first = HeaderLength(f.key) + f.first /\ end = received
  <2>1. Offset(f) = HeaderLength(f.key) /\ FirstLength(f) = f.first
    BY TagIsRead
  <2>2. RestOfFrame(f) = [first |-> HeaderLength(f.key) + f.first, length |-> received - (HeaderLength(f.key) + f.first)]
    BY <2>1 DEF RestOfFrame
  <2>3. HeaderLength(f.key) \in Nat /\ f.first \in Nat
    BY FrameFacts
  <2>4. QED
    BY <2>2, <2>3
<1>1. DctPartitions(f, n) = IF start > received \/ at(n) > received THEN {} ELSE {parts}
  <2>1. DctPartitions(f, n) =
          IF start > end \/ at(n) > end THEN {}
          ELSE {[k \in 1 .. n |-> [first |-> at(k), length |-> IF k < n THEN lengths[k] ELSE end - at(k)]]}
    BY Zenon DEF DctPartitions
  <2> HIDE DEF end, at, start, lengths, n
  <2>2. QED
    BY <1>0, <2>1, Zenon
<1>2. f.dct \in Seq(Nat) /\ n \in Nat /\ n >= 1
  BY FrameFacts
<1>3. start = DctStart(f)
  BY <1>0 DEF DctStart
<1>4. lengths \in Seq(Nat) /\ Len(lengths) = n - 1 /\ \A k \in 1 .. n - 1 : lengths[k] = f.dct[k]
  BY LengthsRead
<1> HIDE DEF lengths, start
<1>5. \A k \in 0 .. n - 1 : t[k] = s[k]
  <2>1. Len(lengths) <= Len(f.dct) /\ \A i \in 1 .. Len(lengths) : lengths[i] = f.dct[i]
    BY <1>2, <1>4
  <2>2. \A k \in 0 .. Len(lengths) : t[k] = s[k]
    BY <1>2, <1>4, <2>1, SumsOfPrefix
  <2> HIDE DEF t, s, n
  <2>3. QED
    BY <1>4, <2>2
<1>6. ASSUME NEW k \in 1 .. n
      PROVE  at(k) = DctStart(f) + s[k - 1]
  <2> HIDE DEF t, s, n
  <2>1. k - 1 \in 0 .. n - 1
    BY <1>2
  <2>2. QED
    BY <1>3, <1>5, <2>1
<1>7. ASSUME NEW k \in 1 .. n
      PROVE  [first |-> at(k), length |-> IF k < n THEN lengths[k] ELSE received - at(k)] = ReadPart(f, k)
  <2>1. at(k) = DctStart(f) + s[k - 1]
    BY <1>6
  <2>2. k < n => lengths[k] = f.dct[k]
    <3> HIDE DEF n
    <3>1. QED
      BY <1>2, <1>4
  <2>3. ReadPart(f, k) = [first |-> DctStart(f) + s[k - 1], length |-> IF k < n THEN f.dct[k] ELSE received - (DctStart(f) + s[k - 1])]
    BY Zenon DEF ReadPart
  <2> HIDE DEF at, s, n
  <2>4. (IF k < n THEN lengths[k] ELSE received - at(k)) = (IF k < n THEN f.dct[k] ELSE received - (DctStart(f) + s[k - 1]))
    BY <2>1, <2>2, Zenon
  <2>5. QED
    BY <2>1, <2>3, <2>4, Zenon
<1>8. parts = [k \in 1 .. n |-> ReadPart(f, k)]
  <2> HIDE DEF at, n
  <2>1. QED
    BY <1>7, Zenon
<1>9. at(n) = DctStart(f) + s[n - 1]
  <2>1. n \in 1 .. n
    BY <1>2
  <2> HIDE DEF at, s, n
  <2>2. QED
    BY <1>6, <2>1
<1> HIDE DEF parts, at, s
<1>10. QED
  BY <1>1, <1>3, <1>8, <1>9, Zenon DEF s

(* A frame that has arrived whole.                                         *)
LEMMA WholeRead ==
  ASSUME LayoutInv
  PROVE  WholeFramesAreRead
<1> SUFFICES ASSUME received = Size(frame)
             PROVE  /\ Key(frame) = frame.key /\ Show(frame) = frame.show
                    /\ Level(frame) = "NO_CORRUPTION"
                    /\ FirstPartition(frame) = [first |-> HeaderLength(frame.key), length |-> frame.first % 2^19]
                    /\ frame.first < 2^19 => DctPartitions(frame, Len(frame.dct)) = {WrittenDct(frame)}
  BY Zenon DEF WholeFramesAreRead
<1> DEFINE f == frame
           n == Len(f.dct)
           s == Sums(f.dct)
<1>1. f \in Frames
  BY DEF LayoutInv
<1>2. 2^19 = Two19
  BY SMT DEF Two19
<1>3. Key(f) = f.key /\ Show(f) = f.show /\ FirstLength(f) = f.first % Two19 /\ Offset(f) = HeaderLength(f.key)
  BY <1>1, TagIsReadModulo
<1>4. /\ f.first \in Nat /\ n \in Nat /\ n >= 1 /\ f.dct \in Seq(Nat) /\ HeaderLength(f.key) \in Nat /\ HeaderLength(f.key) >= 3
      /\ DOMAIN f.dct = 1 .. n
  BY <1>1, FrameFacts
<1>5. /\ DctStart(f) = HeaderLength(f.key) + f.first + 3 * (n - 1) /\ DctStart(f) \in Nat
      /\ received = DctStart(f) + s[n - 1] + f.dct[n]
      /\ received \in Nat /\ s[n - 1] \in Nat /\ f.dct[n] \in Nat /\ f.dct[n] >= 1
  BY <1>1, SizeFacts
<1>6. received > HeaderLength(f.key) + f.first /\ ~(DctStart(f) > received) /\ ~(DctStart(f) + s[n - 1] > received)
  <2> HIDE DEF n, s
  <2>1. QED
    BY <1>4, <1>5, SMTT(60)
<1>7. ~(received < 3 \/ received < Offset(f)) /\ ~LacksData(f)
  <2>1. \A length \in Nat : length % Two19 \in Nat /\ length % Two19 <= length
    BY SMT DEF Two19
  <2>2. f.first % Two19 \in Nat /\ f.first % Two19 <= f.first
    BY <1>4, <2>1, Zenon
  <2> DEFINE read == FirstLength(f)
             start == Offset(f)
  <2> HIDE DEF f, n, s
  <2>3. received > start + read /\ received >= 3 /\ received >= start
    <3>1. read \in Nat /\ read <= f.first /\ f.first \in Nat
      BY <1>3, <1>4, <2>2
    <3>2. start \in Nat /\ start >= 3 /\ received > start + f.first
      BY <1>3, <1>4, <1>6
    <3> HIDE DEF read, start
    <3>3. QED
      BY <1>5, <3>1, <3>2
  <2>4. FirstLength(f) \in Nat /\ Offset(f) \in Nat /\ received \in Nat
    BY <1>3, <1>4, <1>5, <2>2
  <2>5. QED
    BY <2>3, <2>4 DEF LacksData
<1>8. Level(f) = "NO_CORRUPTION"
  BY <1>7 DEF Level
<1>9. FirstPartition(f) = [first |-> HeaderLength(f.key), length |-> f.first % 2^19]
  BY <1>2, <1>3, <1>8 DEF FirstPartition
<1>10. f.first < 2^19 => DctPartitions(f, n) = {[k \in 1 .. n |-> ReadPart(f, k)]}
  <2> SUFFICES ASSUME f.first < 2^19 PROVE DctPartitions(f, n) = {[k \in 1 .. n |-> ReadPart(f, k)]}
    OBVIOUS
  <2>1. f.first < Two19
    BY <1>2, Zenon
  <2>2. DctPartitions(f, n) =
          IF DctStart(f) > received \/ DctStart(f) + s[n - 1] > received THEN {} ELSE {[k \in 1 .. n |-> ReadPart(f, k)]}
    BY <1>1, <1>5, <1>8, <2>1, PartitionsRead
  <2>3. QED
    BY <1>6, <2>2
<1>11. \A k \in 1 .. n : ReadPart(f, k) = [first |-> DctStart(f) + s[k - 1], length |-> f.dct[k]]
  <2> SUFFICES ASSUME NEW k \in 1 .. n PROVE ReadPart(f, k) = [first |-> DctStart(f) + s[k - 1], length |-> f.dct[k]]
    OBVIOUS
  <2>1. ReadPart(f, k) = [first |-> DctStart(f) + s[k - 1], length |-> IF k < n THEN f.dct[k] ELSE received - (DctStart(f) + s[k - 1])]
    BY Zenon DEF ReadPart
  <2> HIDE DEF f, n, s
  <2>2. k < n \/ k = n
    BY <1>4
  <2>3. k = n => received - (DctStart(f) + s[k - 1]) = f.dct[k]
    BY <1>5
  <2>4. k < n => ~(k = n)
    BY <1>4
  <2>5. (IF k < n THEN f.dct[k] ELSE received - (DctStart(f) + s[k - 1])) = f.dct[k]
    BY <2>2, <2>3
  <2>6. QED
    BY <2>1, <2>5, Zenon
<1>12. WrittenDct(f) = [k \in 1 .. n |-> [first |-> DctStart(f) + s[k - 1], length |-> f.dct[k]]]
  BY <1>4, Zenon DEF WrittenDct
<1>13. [k \in 1 .. n |-> ReadPart(f, k)] = WrittenDct(f)
  BY <1>11, <1>12
<1>14. QED
  BY <1>3, <1>8, <1>9, <1>10, <1>13, Zenon

(* A frame that has lost its end.                                          *)
LEMMA CutNoticed ==
  ASSUME LayoutInv
  PROVE  CutIsNoticed
<1> SUFFICES ASSUME received >= 3, frame.first < 2^19
             PROVE  LET whole == Level(frame) = "NO_CORRUPTION"
                        dct == DctPartitions(frame, Len(frame.dct))
                        last == WrittenDct(frame)[Len(frame.dct)].first
                    IN  /\ whole => received > HeaderLength(frame.key) + frame.first
                        /\ whole /\ received < last => dct = {}
                        /\ \A parts \in dct : whole =>
                             \A k \in DOMAIN parts : parts[k].first + parts[k].length <= received
                        /\ Level(frame) = "CORRUPTED_FIRST_PARTITION" => FirstPartition(frame).length <= frame.first
  BY Zenon DEF CutIsNoticed
<1> DEFINE f == frame
           n == Len(f.dct)
           s == Sums(f.dct)
           last == DctStart(f) + s[n - 1]
<1>1. f \in Frames /\ received \in Nat
  BY DEF LayoutInv
<1>2. f.first < Two19
  <2>1. 2^19 = Two19
    BY SMT DEF Two19
  <2>2. QED
    BY <2>1, Zenon
<1>3. Key(f) = f.key /\ Show(f) = f.show /\ FirstLength(f) = f.first /\ Offset(f) = HeaderLength(f.key)
  BY <1>1, <1>2, TagIsRead
<1>4. /\ f.first \in Nat /\ n \in Nat /\ n >= 1 /\ f.dct \in Seq(Nat) /\ HeaderLength(f.key) \in Nat /\ HeaderLength(f.key) >= 3
      /\ DOMAIN f.dct = 1 .. n /\ \A k \in 1 .. n : f.dct[k] \in Nat
  BY <1>1, FrameFacts
<1>5. DctStart(f) \in Nat /\ s[n - 1] \in Nat
  BY <1>1, SizeFacts
<1>6. Level(f) = "NO_CORRUPTION" => received > HeaderLength(f.key) + f.first
  <2>1. Level(f) = "NO_CORRUPTION" => ~LacksData(f)
    BY DEF Level
  <2>2. QED
    BY <1>1, <1>3, <1>4, <2>1 DEF LacksData
<1>7. WrittenDct(f)[n].first = last
  <2>1. WrittenDct(f) = [k \in 1 .. n |-> [first |-> DctStart(f) + s[k - 1], length |-> f.dct[k]]]
    BY <1>4, Zenon DEF WrittenDct
  <2>2. n \in 1 .. n
    BY <1>4
  <2> HIDE DEF n, s
  <2>3. WrittenDct(f)[n] = [first |-> DctStart(f) + s[n - 1], length |-> f.dct[n]]
    BY <2>1, <2>2
  <2>4. QED
    BY <2>3
<1>8. Level(f) = "NO_CORRUPTION" => DctPartitions(f, n) =
        IF DctStart(f) > received \/ last > received THEN {} ELSE {[k \in 1 .. n |-> ReadPart(f, k)]}
  BY <1>1, <1>2, PartitionsRead
<1>9. Level(f) = "NO_CORRUPTION" /\ received < last => DctPartitions(f, n) = {}
  <2> HIDE DEF last, n
  <2>1. last \in Nat
    BY <1>5 DEF last
  <2>2. QED
    BY <1>1, <1>8, <2>1
<1>10. ASSUME NEW parts \in DctPartitions(f, n), Level(f) = "NO_CORRUPTION", NEW k \in DOMAIN parts
       PROVE  parts[k].first + parts[k].length <= received
  <2>1. ~(last > received) /\ parts = [j \in 1 .. n |-> ReadPart(f, j)]
    BY <1>8, <1>10
  <2>2. k \in 1 .. n /\ parts[k] = ReadPart(f, k)
    BY <2>1
  <2> DEFINE at == DctStart(f) + s[k - 1]
  <2>3. parts[k].first = at /\ parts[k].length = IF k < n THEN f.dct[k] ELSE received - at
    BY <2>2 DEF ReadPart
  <2>4. AreSums(s, f.dct)
    BY <1>4, SumsAreSums
  <2>5. \A i, j \in 0 .. n : i <= j => s[i] <= s[j]
    BY <1>4, SumsGrow
  <2>6. s[k - 1] \in Nat /\ s[k] \in Nat /\ s[k] = s[k - 1] + f.dct[k] /\ f.dct[k] \in Nat
    <3>1. k \in 1 .. n /\ k - 1 \in 0 .. n /\ k \in 0 .. n
      BY <1>4, <2>2
    <3>2. QED
      BY <1>4, <2>4, <3>1 DEF AreSums
  <2> HIDE DEF at, s, n, last
  <2>7. CASE k < n
    <3>1. s[k] <= s[n - 1]
      <4>1. k \in 0 .. n /\ n - 1 \in 0 .. n /\ k <= n - 1
        BY <1>4, <2>2, <2>7
      <4>2. QED
        BY <2>5, <4>1
    <3>2. last \in Nat /\ last = DctStart(f) + s[n - 1] /\ at = DctStart(f) + s[k - 1]
      BY <1>5 DEF last, at
    <3>3. parts[k].first = at /\ parts[k].length = f.dct[k]
      BY <2>3, <2>7
    <3>4. at + f.dct[k] = DctStart(f) + s[k]
      BY <1>5, <2>6, <3>2
    <3>5. at + f.dct[k] <= received
      BY <1>1, <1>5, <2>1, <2>6, <3>1, <3>2, <3>4
    <3>6. QED
      BY <3>3, <3>5
  <2>8. CASE ~(k < n)
    <3>1. parts[k].first = at /\ parts[k].length = received - at
      BY <2>3, <2>8
    <3>2. at \in Nat
      BY <1>5, <2>6 DEF at
    <3>3. QED
      BY <1>1, <3>1, <3>2
  <2>9. QED
    BY <2>7, <2>8
<1>11. Level(f) = "CORRUPTED_FIRST_PARTITION" => FirstPartition(f).length <= f.first
  <2> SUFFICES ASSUME Level(f) = "CORRUPTED_FIRST_PARTITION" PROVE FirstPartition(f).length <= f.first
    OBVIOUS
  <2>1. LacksData(f)
    BY DEF Level
  <2>2. FirstPartition(f).length = received - Offset(f)
    BY DEF FirstPartition
  <2>3. QED
    BY <1>1, <1>3, <1>4, <2>1, <2>2 DEF LacksData
<1>12. QED
  <2> HIDE DEF last, s
  <2>1. QED
    BY <1>6, <1>7, <1>9, <1>10, <1>11

(* A parser finds in every frame that arrives whole what the serializer    *)
(* laid out, for any number of DCT partitions and first partitions below   *)
(* 2^19 octets (of a longer one it finds the length modulo 2^19, and sees  *)
(* nothing wrong), and a frame with such a first partition that has lost   *)
(* its end is rejected or has a last partition that is shorter (make_frame,*)
(* UncompressedChunk).                                                     *)
THEOREM LayoutRoundTripHolds ==
  LayoutInit /\ [][LayoutNext]_layoutVars => []LayoutRoundTrip
<1>1. LayoutInit => LayoutInv
  <2> SUFFICES ASSUME LayoutInit PROVE LayoutInv
    OBVIOUS
  <2>1. frame \in Frames /\ received = Size(frame)
    BY DEF LayoutInit
  <2>2. Size(frame) \in Nat
    BY <2>1, SizeFacts
  <2>3. QED
    BY <2>1, <2>2 DEF LayoutInv
<1>2. LayoutInv /\ [LayoutNext]_layoutVars => LayoutInv'
  <2> SUFFICES ASSUME LayoutInv, [LayoutNext]_layoutVars PROVE LayoutInv'
    OBVIOUS
  <2>1. CASE LoseEnd
    <3>1. frame' = frame /\ received' \in 0 .. Size(frame)
      BY <2>1 DEF LoseEnd
    <3>2. Size(frame) \in Nat /\ Size(frame') = Size(frame)
      BY <3>1, SizeFacts DEF LayoutInv
    <3>3. QED
      BY <3>1, <3>2 DEF LayoutInv
  <2>2. CASE UNCHANGED layoutVars
    <3>1. frame' = frame /\ received' = received /\ Size(frame') = Size(frame)
      BY <2>2 DEF layoutVars
    <3>2. QED
      BY <3>1 DEF LayoutInv
  <2>3. QED
    BY <2>1, <2>2 DEF LayoutNext
<1>3. LayoutInv => LayoutRoundTrip
  BY WholeRead, CutNoticed DEF LayoutRoundTrip
<1>4. QED
  BY <1>1, <1>2, <1>3, PTL
=============================================================================
