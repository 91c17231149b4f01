----------------------------- MODULE FrameBudget -----------------------------
(***************************************************************************)
(* How large a frame may be: target_size, the choice among the outputs of  *)
(* the encode jobs, and the quantizers and the interval between packets    *)
(* that follow from it, in src/salsify/salsify-sender.cc (the mode in which*)
(* two quantizers are tried, without Monax).  The sizes of the outputs are *)
(* chosen freely.                                                          *)
(***************************************************************************)
EXTENDS Integers

CONSTANTS
  MaxDelay,             \* max_delay, in microseconds
  MaxSkippedFrames,     \* MAX_SKIPPED
  DelayValues,          \* what the receiver may measure, and
  FrameSizes,           \* sizes of an output, and
  MaxPackets,           \* packets sent, bounds of the model
  Bits                  \* of the integers in target_size

ASSUME FrameBudgetAssumption ==
  /\ Bits \in Nat \ {0} /\ MaxDelay \in 1 .. 2^(Bits - 1) - 1
  /\ MaxPackets \in 0 .. 2^(Bits - 1) - 1
  /\ MaxSkippedFrames \in Nat
  /\ DelayValues \subseteq Nat /\ FrameSizes \subseteq Nat \ {0}

VARIABLES
  avg_delay,            \* {} before the first acknowledgement, or {n}
  packets_acked,        \* last_acked
  packets_sent,         \* cumulative_fpf.back()
  skipped,              \* skipped_count
  last_quantizer

budgetVars == <<avg_delay, packets_acked, packets_sent, skipped, last_quantizer>>

PayloadSize == 1400

BudgetTypeOK ==
  /\ avg_delay = {} \/ \E d \in DelayValues : avg_delay = {d}
  /\ packets_sent \in 0 .. MaxPackets
  /\ packets_acked \in 0 .. packets_sent
  /\ skipped \in 0 .. MaxSkippedFrames
  /\ last_quantizer \in 3 .. 127

BudgetInit ==
  /\ avg_delay = {}
  /\ packets_acked = 0 /\ packets_sent = 0
  /\ skipped = 0
  /\ last_quantizer = 64

-----------------------------------------------------------------------------

(* A difference of unsigned integers, converted to a signed one.           *)
AsSigned(n) ==
  LET half == 2^(Bits - 1)
      wrapped == n % (2 * half)
  IN  IF wrapped < half THEN wrapped ELSE wrapped - 2 * half

(* Packets acknowledged meanwhile are counted as if they were on the way.  *)
MutantTargetSize(delay, acked, sent) ==
  LET packets == AsSigned(MaxDelay \div (IF delay = 0 THEN 1 ELSE delay))
  IN  PayloadSize * (IF packets > 0 THEN packets ELSE 0)

(* target_size: the packets the network delivers within max_delay, less    *)
(* those on the way.                                                       *)
TargetSize(delay, acked, sent) ==
  LET packets == AsSigned(MaxDelay \div (IF delay = 0 THEN 1 ELSE delay) - (sent - acked))
  IN  PayloadSize * (IF packets > 0 THEN packets ELSE 0)

(* Before the first acknowledgement any size will do.                      *)
Fitting(sizes) ==
  {i \in 1 .. 2 : \A d \in avg_delay : sizes[i] <= TargetSize(d, packets_acked, packets_sent)}

Increment(q, inc) == IF q + inc < 3 THEN 3 ELSE IF q + inc > 127 THEN 127 ELSE q + inc

(* The jobs improve and fail-small.                                        *)
JobQuantizers == <<Increment(last_quantizer, -17), Increment(last_quantizer, 23)>>

Fragments(size) == (size + PayloadSize - 1) \div PayloadSize

(* The first output whose size is nearest to the target.                   *)
BestOf(fitting, sizes) ==
  CHOOSE i \in fitting : \A j \in fitting : sizes[i] > sizes[j] \/ (sizes[i] = sizes[j] /\ i <= j)

Send(sizes, i) ==
  /\ packets_sent + Fragments(sizes[i]) <= MaxPackets
  /\ packets_sent' = packets_sent + Fragments(sizes[i])
  /\ last_quantizer' = JobQuantizers[i]
  /\ skipped' = 0

(* All encode jobs have finished.                                          *)
ChooseOutput(sizes) ==
  /\ CASE Fitting(sizes) # {} -> Send(sizes, BestOf(Fitting(sizes), sizes))
       [] Fitting(sizes) = {} /\ skipped < MaxSkippedFrames ->
            skipped' = skipped + 1 /\ UNCHANGED <<packets_sent, last_quantizer>>
       [] Fitting(sizes) = {} /\ skipped = MaxSkippedFrames -> Send(sizes, 2)
  /\ UNCHANGED <<avg_delay, packets_acked>>

ReceiveDelay(delay, acked) ==
  /\ packets_sent > 0
  /\ avg_delay' = {delay}
  /\ packets_acked' = acked
  /\ UNCHANGED <<packets_sent, skipped, last_quantizer>>

BudgetNext ==
  \/ \E improve, small \in FrameSizes : ChooseOutput(<<improve, small>>)
  \/ \E delay \in DelayValues, acked \in packets_acked .. packets_sent - 1 : ReceiveDelay(delay, acked)

(* inter_send_delay.                                                       *)
Interval(delay) == LET n == delay \div 5 IN IF n < 500 THEN 500 ELSE IF n > 2000 THEN 2000 ELSE n

-----------------------------------------------------------------------------

(* A frame that is not forced out after too many skipped ones leaves no    *)
(* more packets on the way than the network delivers within max_delay,     *)
(* whatever the unsigned arithmetic wraps around at.  Unless the network   *)
(* delivers them faster than the pacer lets them go, its packets have left *)
(* within max_delay too.                                                   *)
SentFramesFit ==
  [][packets_sent' > packets_sent /\ skipped < MaxSkippedFrames =>
       \A d \in avg_delay :
         /\ (packets_sent' - packets_acked) * d <= MaxDelay
         /\ d >= 500 => (packets_sent' - packets_sent) * Interval(d) <= MaxDelay]_budgetVars

(* The quantizer falls only with a frame that leaves room: what is sent    *)
(* when nothing fits is always coarser than the frame before, or as coarse *)
(* as it gets.                                                             *)
ForcedFramesAreCoarser ==
  [][packets_sent' > packets_sent
       /\ (\E d \in avg_delay : (packets_sent' - packets_acked) * d > MaxDelay) =>
       skipped = MaxSkippedFrames /\ (last_quantizer' > last_quantizer \/ last_quantizer' = 127)]_budgetVars

(* A frame is small enough or, if it has to be sent anyway, coarse.        *)
FramesFitTheDelay == SentFramesFit /\ ForcedFramesAreCoarser
=============================================================================
