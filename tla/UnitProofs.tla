----------------------------- MODULE UnitProofs -----------------------------
(***************************************************************************)
(* Parts of the system that stand on their own, those that MCUnits steps   *)
(* through together.                                                       *)
(*   - Monax: the histories of the rate controller stay aligned however    *)
(*     many actions it takes and however long they are, its steps and its  *)
(*     interval stay in their bounds, and the interval goes the way of the *)
(*     decision recorded.                                                  *)
(*   - FrameBudget: a frame fits in the delay it is allowed, or is coarser *)
(*     than the one before.                                                *)
(*   - ImageFiles: the monitor shows the images in order.                  *)
(*   - CodecState: encoder and decoder come to the same state.             *)
(*   - IvfFile: a file that is opened while it is written is in order.     *)
(*   - EncoderSearch: the searches find what they search for.              *)
(*   - Reconstruction: predictions read what this frame has written, and   *)
(*     no window reaches beyond its plane.                                 *)
(***************************************************************************)
EXTENDS Monax, FrameBudget, ImageFiles, CodecState, IvfFile, EncoderSearch, Reconstruction,
        FiniteSetTheorems, WellFoundedInduction, TLAPS

-----------------------------------------------------------------------------
(***************************************************************************)
(* Monax.                                                                  *)
(***************************************************************************)

(* The entries of a history are about consecutive actions, the last one    *)
(* about action k.                                                         *)
Numbered(h, k) == \A i \in 1 .. Len(h) : h[i].of = k - (Len(h) - i)

Shorter(m, n) == IF m < n THEN m ELSE n

(* A label is made one action later than the decision it is about; the     *)
(* first action makes up an entry of each other history.                   *)
HistoriesAligned ==
  LET length == IF actions = 0 THEN 0 ELSE Shorter(actions + 1, SaveHistory)
  IN  /\ Len(history_prediction) = length /\ Numbered(history_prediction, actions)
      /\ Len(history_decision) = length /\ Numbered(history_decision, actions)
      /\ Len(history_label) = Shorter(actions, SaveHistory)
      /\ Numbered(history_label, actions - 1)

(* The last model used is the one in use until all have been used.         *)
ModelsInTurn ==
  /\ accuracies = used_model
  /\ ~AllUsed => current_model = used_model

(* Samples are only recorded without an action before the first one.       *)
ActsOnceMonitored == monitored < MonitorLen - 1 => actions = 0

(* The inductive invariant of the rate controller.                         *)
MonaxInv == MonaxTypeOK /\ HistoriesAligned /\ ModelsInTurn /\ ActsOnceMonitored

-----------------------------------------------------------------------------
(***************************************************************************)
(* Histories.                                                              *)
(***************************************************************************)

(* A history that loses its first entry and gains a last one.              *)
LEMMA ShiftKeepsNumbers ==
  ASSUME NEW h \in Seq(Entries), NEW s \in Seq(Entries), Len(h) > 0, Len(s) = Len(h),
         NEW k \in Int, Numbered(h, k), s[Len(h)].of = k + 1,
         \A i \in 1 .. Len(h) - 1 : s[i] = h[i + 1]
  PROVE  Numbered(s, k + 1)
<1>1. ASSUME NEW i \in 1 .. Len(s) PROVE s[i].of = k + 1 - (Len(s) - i)
  <2>1. CASE i = Len(h)
    BY <2>1
  <2>2. CASE i \in 1 .. Len(h) - 1
    <3>1. i + 1 \in 1 .. Len(h) /\ s[i] = h[i + 1]
      BY <2>2
    <3>2. h[i + 1].of = k - (Len(h) - (i + 1))
      BY <3>1 DEF Numbered
    <3>3. QED
      BY <2>2, <3>1, <3>2
  <2>3. QED
    BY <2>1, <2>2
<1>2. QED
  BY <1>1 DEF Numbered

(* A history that an entry is pushed on.                                   *)
LEMMA PushKeepsNumbers ==
  ASSUME NEW h \in Seq(Entries), Len(h) <= SaveHistory, NEW k \in Int, Numbered(h, k),
         NEW e \in Entries, e.of = k + 1
  PROVE  /\ Push(h, e) \in Seq(Entries)
         /\ Len(Push(h, e)) = Shorter(Len(h) + 1, SaveHistory)
         /\ Numbered(Push(h, e), k + 1)
         /\ LastOf(Push(h, e)) = e
<1> USE MonaxAssumption
<1>1. CASE Len(h) < SaveHistory
  <2>1. Push(h, e) = Append(h, e)
    BY <1>1 DEF Push
  <2>2. Append(h, e) \in Seq(Entries) /\ Len(Append(h, e)) = Len(h) + 1
    OBVIOUS
  <2>3. \A i \in 1 .. Len(h) : Append(h, e)[i] = h[i]
    OBVIOUS
  <2>4. Append(h, e)[Len(h) + 1] = e
    OBVIOUS
  <2>5. Numbered(Append(h, e), k + 1)
    BY <2>2, <2>3, <2>4 DEF Numbered
  <2>6. QED
    BY <1>1, <2>1, <2>2, <2>4, <2>5 DEF Shorter, LastOf
<1>2. CASE Len(h) = SaveHistory
  <2> DEFINE t == Tail(h)
  <2> DEFINE s == Append(t, e)
  <2>1. Push(h, e) = s
    BY <1>2 DEF Push
  <2>2. h # << >> /\ Len(h) \in Nat
    BY <1>2
  <2>3. /\ t \in Seq(Entries) /\ Len(t) = Len(h) - 1
        /\ \A i \in 1 .. Len(h) - 1 : t[i] = h[i + 1]
    BY <2>2
  <2> HIDE DEF t
  <2>4. s \in Seq(Entries) /\ Len(s) = Len(h)
    BY <2>2, <2>3
  <2>5. \A i \in 1 .. Len(h) - 1 : s[i] = h[i + 1]
    BY <2>2, <2>3
  <2>6. s[Len(h)] = e
    BY <2>2, <2>3
  <2> HIDE DEF s
  <2>7. s[Len(h)].of = k + 1
    BY <2>6
  <2>8. Numbered(s, k + 1)
    BY <2>2, <2>4, <2>5, <2>7, ShiftKeepsNumbers
  <2>9. QED
    BY <1>2, <2>1, <2>2, <2>4, <2>6, <2>8 DEF Shorter, LastOf
<1>3. QED
  BY <1>1, <1>2

(* What the invariant says of a history that is not empty.                 *)
LEMMA LastIsNumbered ==
  ASSUME NEW h \in Seq(Entries), NEW k \in Int, Numbered(h, k), Len(h) > 0
  PROVE  LastOf(h) \in Entries /\ LastOf(h).of = k
<1>1. Len(h) \in 1 .. Len(h)
  OBVIOUS
<1>2. h[Len(h)] \in Entries
  BY <1>1
<1>3. h[Len(h)].of = k - (Len(h) - Len(h))
  BY <1>1 DEF Numbered
<1>4. QED
  BY <1>1, <1>2, <1>3 DEF LastOf

(* The same, unless the first action makes the history up.                 *)
LEMMA OrMadeIsNumbered ==
  ASSUME NEW h \in Seq(Entries), actions \in 0 .. MaxActions, Numbered(h, actions),
         Len(h) = IF actions = 0 THEN 0 ELSE Shorter(actions + 1, SaveHistory)
  PROVE  /\ OrMade(h) \in Seq(Entries)
         /\ Len(OrMade(h)) = Shorter(actions + 1, SaveHistory)
         /\ Numbered(OrMade(h), actions)
         /\ actions > 0 => OrMade(h) = h
<1>1. Made \in Entries /\ Made.of = 0
  BY MonaxAssumption DEF Made, Entries
<1>2. CASE actions = 0
  <2>1. <<Made>> \in Seq(Entries) /\ Len(<<Made>>) = 1 /\ <<Made>>[1] = Made
    BY <1>1
  <2>2. OrMade(h) = <<Made>>
    BY <1>2 DEF OrMade
  <2>3. Numbered(<<Made>>, 0)
    BY <1>1, <2>1 DEF Numbered
  <2>4. QED
    BY <1>2, <2>1, <2>2, <2>3, MonaxAssumption DEF Shorter
<1>3. CASE actions # 0
  BY <1>3 DEF OrMade
<1>4. QED
  BY <1>2, <1>3


(***************************************************************************)
(* Steps and the interval.                                                 *)
(***************************************************************************)

StepSizes == [{"speedup", "slowdown"} -> StepMin .. StepMax]

(* The two step sizes are numbers.                                         *)
LEMMA StepSizesAreInts ==
  ASSUME NEW st \in StepSizes
  PROVE  /\ st.speedup \in Int /\ st.speedup >= StepMin /\ st.speedup <= StepMax
         /\ st.slowdown \in Int /\ st.slowdown >= StepMin /\ st.slowdown <= StepMax
<1>1. st["speedup"] \in 50 .. 300 /\ st["slowdown"] \in 50 .. 300
  BY DEF StepSizes, StepMin, StepMax
<1>2. QED
  BY <1>1 DEF StepMin, StepMax

(* Within moves a number into its range.                                   *)
LEMMA WithinIsBetween ==
  ASSUME NEW low \in Int, NEW high \in Int, low <= high, NEW n \in Int, NEW m \in low .. high
  PROVE  /\ Within(low, high, n) \in low .. high
         /\ n <= m => Within(low, high, n) <= m
         /\ n >= m => Within(low, high, n) >= m
BY DEF Within

(* A step that was confirmed keeps to its bounds.                          *)
LEMMA ConfirmedIsAStep ==
  ASSUME NEW decisions \in Seq(Entries), NEW direction \in {0, 1}, NEW step \in StepMin .. StepMax
  PROVE  Confirmed(decisions, direction, step) \in StepMin .. StepMax
<1>1. step \in Int /\ step >= 50 /\ step <= 300
  BY DEF StepMin, StepMax
<1>2. Within(0, 300, step + 50) \in 50 .. 300
  BY <1>1 DEF Within
<1>3. QED
  BY <1>1, <1>2 DEF Confirmed, StepMin, StepMax, StepChangeRate

(* Among the last four entries at most four are ones.                      *)
LEMMA OnesAreFew ==
  ASSUME NEW h \in Seq(Entries), Len(h) > 3
  PROVE  Ones(h, Len(h)) \in 0 .. 4
<1>1. \A i \in 1 .. Len(h) : h[i] \in Entries
  OBVIOUS
<1>2. \A e \in Entries : e.is \in {0, 1}
  BY DEF Entries
<1> DEFINE n == Len(h)
<1>3. n - 3 \in 1 .. n /\ n - 2 \in 1 .. n /\ n - 1 \in 1 .. n /\ n \in 1 .. n
  OBVIOUS
<1>4. h[n - 3].is \in {0, 1} /\ h[n - 2].is \in {0, 1} /\ h[n - 1].is \in {0, 1} /\ h[n].is \in {0, 1}
  BY <1>1, <1>2, <1>3
<1>5. QED
  BY <1>4 DEF Ones

(* Scaling gives a number.                                                 *)
LEMMA ScaledIsInt ==
  ASSUME NEW step \in Int, NEW predicted \in Int, NEW labelled \in 0 .. 4
  PROVE  Scaled(step, predicted, labelled) \subseteq Int
<1>1. CASE labelled = 0
  BY <1>1 DEF Scaled, StepMin, StepMax
<1>2. CASE labelled # 0
  <2> DEFINE n == step * (labelled + 2 * predicted)
  <2> DEFINE d == 2 * labelled
  <2>1. n \in Int
    OBVIOUS
  <2>2. d \in Int /\ d > 0
    BY <1>2
  <2>3. Scaled(step, predicted, labelled) \subseteq {n \div d, n \div d - 1}
    BY <1>2 DEF Scaled
  <2> HIDE DEF n, d
  <2>4. n \div d \in Int
    BY <2>1, <2>2
  <2>5. QED
    BY <2>3, <2>4
<1>3. QED
  BY <1>1, <1>2

(* A step that is out of its bounds is moved to the nearest of them.       *)
LEMMA ClampedIsBounded ==
  ASSUME NEW n \in Int
  PROVE  Clamped(n) \in StepMin .. StepMax
BY DEF Clamped, Within, StepMin, StepMax

(* The scaled steps keep to their bounds, whatever was predicted.          *)
LEMMA ScaledStepsAreBounded ==
  ASSUME steps \in StepSizes, NEW predictions \in Seq(Entries), NEW labels \in Seq(Entries),
         Len(predictions) = Len(labels), NEW st \in ScaledSteps(predictions, labels)
  PROVE  st \in StepSizes
<1>1. CASE Len(labels) <= 3
  BY <1>1 DEF ScaledSteps
<1>2. CASE ~(Len(labels) <= 3)
  <2> DEFINE n == Len(labels)
  <2>1. Ones(predictions, n) \in 0 .. 4 /\ Ones(labels, n) \in 0 .. 4
    BY <1>2, OnesAreFew
  <2>2. 4 - Ones(predictions, n) \in 0 .. 4 /\ 4 - Ones(labels, n) \in 0 .. 4
    BY <2>1
  <2>3. steps.speedup \in Int /\ steps.slowdown \in Int
    BY StepSizesAreInts
  <2>4. PICK up \in Scaled(steps.speedup, Ones(predictions, n), Ones(labels, n)),
             down \in Scaled(steps.slowdown, 4 - Ones(predictions, n), 4 - Ones(labels, n)) :
               st = [speedup |-> Clamped(up), slowdown |-> Clamped(down)]
    BY <1>2 DEF ScaledSteps
  <2>5. up \in Int /\ down \in Int
    BY <2>1, <2>2, <2>3, ScaledIsInt
  <2>6. Clamped(up) \in StepMin .. StepMax /\ Clamped(down) \in StepMin .. StepMax
    BY <2>5, ClampedIsBounded
  <2>7. QED
    BY <2>4, <2>6 DEF StepSizes
<1>3. QED
  BY <1>1, <1>2

(* The interval goes the way of the probability that is left.              *)
LEMMA RateControlKeepsBounds ==
  ASSUME SndPeriod \in IntervalMin .. IntervalMax, NEW st \in StepSizes,
         NEW decisions \in Seq(Entries), NEW result \in {"above", "below", "half"},
         RateControl(result, decisions, st)
  PROVE  /\ steps' \in StepSizes
         /\ SndPeriod' \in IntervalMin .. IntervalMax
         /\ SndPeriod' < SndPeriod => result = "above"
         /\ SndPeriod' > SndPeriod => result = "below"
<1> DEFINE up == Confirmed(decisions, 1, st.speedup)
<1> DEFINE down == Confirmed(decisions, 0, st.slowdown)
<1>1. st.speedup \in StepMin .. StepMax /\ st.slowdown \in StepMin .. StepMax
  BY DEF StepSizes
<1>2. up \in StepMin .. StepMax /\ down \in StepMin .. StepMax
  BY <1>1, ConfirmedIsAStep
<1> HIDE DEF up, down
<1> DEFINE slower == Within(IntervalMin, IntervalMax, SndPeriod + down)
<1> DEFINE faster == Within(IntervalMin, IntervalMax, SndPeriod - up)
<1>3. /\ IntervalMin \in Int /\ IntervalMax \in Int /\ IntervalMin <= IntervalMax
      /\ SndPeriod + down \in Int /\ SndPeriod + down >= SndPeriod
      /\ SndPeriod - up \in Int /\ SndPeriod - up <= SndPeriod
  BY <1>2, MonaxAssumption DEF IntervalMin, StepMin, StepMax
<1>4. slower \in IntervalMin .. IntervalMax /\ slower >= SndPeriod
  <2> DEFINE n == SndPeriod + down
  <2>1. n \in Int /\ n >= SndPeriod
    BY <1>3
  <2>2. slower = Within(IntervalMin, IntervalMax, n)
    OBVIOUS
  <2> HIDE DEF n, slower
  <2>3. QED
    BY <1>3, <2>1, <2>2, WithinIsBetween
<1>5. faster \in IntervalMin .. IntervalMax /\ faster <= SndPeriod
  <2> DEFINE n == SndPeriod - up
  <2>1. n \in Int /\ n <= SndPeriod
    BY <1>3
  <2>2. faster = Within(IntervalMin, IntervalMax, n)
    OBVIOUS
  <2> HIDE DEF n, faster
  <2>3. QED
    BY <1>3, <2>1, <2>2, WithinIsBetween
<1>6. \A n \in IntervalMin .. IntervalMax : n \in Int
  OBVIOUS
<1> HIDE DEF slower, faster
<1>7. CASE result = "above"
  <2>1. steps' = [st EXCEPT !.speedup = up] /\ SndPeriod' = faster
    BY <1>7 DEF RateControl, up, faster
  <2>2. steps' \in StepSizes
    BY <1>2, <2>1 DEF StepSizes
  <2>3. QED
    BY <1>5, <1>6, <1>7, <2>1, <2>2
<1>8. CASE result = "below"
  <2>1. steps' = [st EXCEPT !.slowdown = down] /\ SndPeriod' = slower
    BY <1>8 DEF RateControl, down, slower
  <2>2. steps' \in StepSizes
    BY <1>2, <2>1 DEF StepSizes
  <2>3. QED
    BY <1>4, <1>6, <1>8, <2>1, <2>2
<1>9. CASE result = "half"
  <2>1. steps' = st /\ SndPeriod' = SndPeriod
    BY <1>9 DEF RateControl
  <2>2. QED
    BY <1>6, <2>1
<1>10. QED
  BY <1>7, <1>8, <1>9

(* A model that is not undecided is followed, or contradicted, by the      *)
(* decision that is recorded.                                              *)
LEMMA ResultFollowsDecision ==
  ASSUME NEW prediction \in {0, 1}, NEW undecided \in BOOLEAN, NEW decision \in {0, 1}
  PROVE  /\ Result(prediction, undecided, decision) \in {"above", "below", "half"}
         /\ Result(prediction, undecided, decision) = "above" => decision = 1
         /\ Result(prediction, undecided, decision) = "below" => decision = 0
BY DEF Result

-----------------------------------------------------------------------------
(***************************************************************************)
(* The steps.                                                              *)
(***************************************************************************)

(* It holds before the first sample.                                       *)
LEMMA MonaxInit_MonaxInv ==
  MonaxInit => MonaxInv
<1> SUFFICES ASSUME MonaxInit PROVE MonaxInv
  OBVIOUS
<1> USE MonaxAssumption DEF MonaxInit
<1>1. << >> \in Seq(Entries) /\ Len(<< >>) = 0
  OBVIOUS
<1>2. \A k \in Int : Numbered(<< >>, k)
  BY DEF Numbered
<1>3. steps \in [{"speedup", "slowdown"} -> StepMin .. StepMax]
  BY DEF StepMin, StepMax
<1>4. MonaxTypeOK
  BY <1>1, <1>3 DEF MonaxTypeOK, MonitorLen, IntervalMin
<1>5. HistoriesAligned
  BY <1>1, <1>2 DEF HistoriesAligned, Shorter
<1>6. ModelsInTurn
  BY DEF ModelsInTurn
<1>7. ActsOnceMonitored
  BY DEF ActsOnceMonitored
<1>8. QED
  BY <1>4, <1>5, <1>6, <1>7 DEF MonaxInv

(* What an action makes of the histories.                                  *)
LEMMA TakeActionKeepsHistories ==
  ASSUME MonaxInv, NEW better \in BOOLEAN, NEW undecided \in BOOLEAN, NEW prediction \in {0, 1},
         NEW mean \in {"low", "equal", "high"}, TakeAction(better, prediction, undecided, mean)
  PROVE  /\ history_prediction' \in Seq(Entries) /\ Len(history_prediction') <= SaveHistory
         /\ history_decision' \in Seq(Entries) /\ Len(history_decision') <= SaveHistory
         /\ history_label' \in Seq(Entries) /\ Len(history_label') <= SaveHistory
         /\ HistoriesAligned'
         /\ LastOf(history_decision').is = Decision(mean, prediction)
         /\ OrMade(history_prediction) \in Seq(Entries)
         /\ Len(OrMade(history_prediction)) = Len(history_label')
         /\ Numbered(OrMade(history_prediction), actions) /\ Numbered(history_label', actions)
         /\ actions > 0 => OrMade(history_prediction) = history_prediction
<1> USE MonaxAssumption
<1> DEFINE decision == Decision(mean, prediction)
<1> DEFINE predicted == [of |-> actions + 1, is |-> prediction]
<1> DEFINE decided == [of |-> actions + 1, is |-> decision]
<1>1. /\ actions \in 0 .. MaxActions /\ actions < MaxActions /\ actions' = actions + 1
      /\ history_prediction \in Seq(Entries) /\ history_decision \in Seq(Entries)
      /\ history_label \in Seq(Entries)
  BY DEF MonaxInv, MonaxTypeOK, TakeAction
<1>2. decision \in {0, 1}
  BY DEF Decision
<1>3. predicted \in Entries /\ predicted.of = actions + 1
  BY <1>1 DEF Entries
<1>4. decided \in Entries /\ decided.of = actions + 1 /\ decided.is = decision
  BY <1>1, <1>2 DEF Entries
<1>5. /\ OrMade(history_prediction) \in Seq(Entries)
      /\ Len(OrMade(history_prediction)) = Shorter(actions + 1, SaveHistory)
      /\ Numbered(OrMade(history_prediction), actions)
      /\ actions > 0 => OrMade(history_prediction) = history_prediction
  BY <1>1, OrMadeIsNumbered DEF MonaxInv, HistoriesAligned
<1>6. /\ OrMade(history_decision) \in Seq(Entries)
      /\ Len(OrMade(history_decision)) = Shorter(actions + 1, SaveHistory)
      /\ Numbered(OrMade(history_decision), actions)
  BY <1>1, OrMadeIsNumbered DEF MonaxInv, HistoriesAligned
<1>7. /\ history_prediction' = Push(OrMade(history_prediction), predicted)
      /\ history_decision' = Push(OrMade(history_decision), decided)
      /\ history_label' = Push(history_label, NewLabel(better))
  BY DEF TakeAction
<1>8. NewLabel(better) \in Entries /\ NewLabel(better).of = actions
  <2>1. CASE actions = 0
    BY <2>1 DEF NewLabel, Made, Entries
  <2>2. CASE actions # 0
    <3>1. Len(history_decision) > 0 /\ Numbered(history_decision, actions)
      BY <1>1, <2>2 DEF MonaxInv, HistoriesAligned, Shorter
    <3>2. LastOf(history_decision) \in Entries /\ LastOf(history_decision).of = actions
      BY <1>1, <3>1, LastIsNumbered
    <3>3. LastOf(history_decision).of \in 0 .. MaxActions /\ LastOf(history_decision).is \in {0, 1}
      BY <3>2 DEF Entries
    <3>4. NewLabel(better) = [of |-> LastOf(history_decision).of,
                              is |-> IF better THEN LastOf(history_decision).is
                                     ELSE 1 - LastOf(history_decision).is]
      BY <2>2 DEF NewLabel
    <3>5. QED
      BY <3>2, <3>3, <3>4 DEF Entries
  <2>3. QED
    BY <2>1, <2>2
<1> HIDE DEF decision, predicted, decided
<1>9. /\ history_prediction' \in Seq(Entries)
      /\ Len(history_prediction') = Shorter(Shorter(actions + 1, SaveHistory) + 1, SaveHistory)
      /\ Numbered(history_prediction', actions + 1)
  <2>1. Len(OrMade(history_prediction)) <= SaveHistory /\ actions \in Int
    BY <1>1, <1>5 DEF Shorter
  <2>2. QED
    BY <1>3, <1>5, <1>7, <2>1, PushKeepsNumbers
<1>10. /\ history_decision' \in Seq(Entries)
       /\ Len(history_decision') = Shorter(Shorter(actions + 1, SaveHistory) + 1, SaveHistory)
       /\ Numbered(history_decision', actions + 1)
       /\ LastOf(history_decision') = decided
  <2>1. Len(OrMade(history_decision)) <= SaveHistory /\ actions \in Int
    BY <1>1, <1>6 DEF Shorter
  <2>2. QED
    BY <1>4, <1>6, <1>7, <2>1, PushKeepsNumbers
<1>11. /\ history_label' \in Seq(Entries)
       /\ Len(history_label') = Shorter(actions + 1, SaveHistory)
       /\ Numbered(history_label', actions)
  <2>1. /\ Len(history_label) = Shorter(actions, SaveHistory) /\ Numbered(history_label, actions - 1)
    BY DEF MonaxInv, HistoriesAligned
  <2>2. /\ Len(history_label) <= SaveHistory /\ actions - 1 \in Int
        /\ NewLabel(better).of = (actions - 1) + 1 /\ (actions - 1) + 1 = actions
    BY <1>1, <1>8, <2>1 DEF Shorter
  <2>3. /\ history_label' \in Seq(Entries)
        /\ Len(history_label') = Shorter(Len(history_label) + 1, SaveHistory)
        /\ Numbered(history_label', (actions - 1) + 1)
    BY <1>1, <1>7, <1>8, <2>1, <2>2, PushKeepsNumbers
  <2>4. Shorter(Len(history_label) + 1, SaveHistory) = Shorter(actions + 1, SaveHistory)
    BY <1>1, <2>1 DEF Shorter
  <2>5. QED
    BY <2>2, <2>3, <2>4
<1>12. Shorter(Shorter(actions + 1, SaveHistory) + 1, SaveHistory) = Shorter(actions' + 1, SaveHistory)
       /\ Shorter(actions' + 1, SaveHistory) <= SaveHistory /\ Shorter(actions', SaveHistory) <= SaveHistory
       /\ actions' # 0 /\ actions' - 1 = actions
  BY <1>1 DEF Shorter
<1>13. HistoriesAligned'
  BY <1>1, <1>9, <1>10, <1>11, <1>12 DEF HistoriesAligned
<1>14. LastOf(history_decision').is = Decision(mean, prediction)
  BY <1>4, <1>10 DEF decision
<1>15. QED
  BY <1>1, <1>5, <1>9, <1>10, <1>11, <1>12, <1>13, <1>14

(* What an action makes of the steps and the interval.                     *)
LEMMA TakeActionKeepsBounds ==
  ASSUME MonaxInv, NEW better \in BOOLEAN, NEW undecided \in BOOLEAN, NEW prediction \in {0, 1},
         NEW mean \in {"low", "equal", "high"}, TakeAction(better, prediction, undecided, mean)
  PROVE  /\ steps' \in StepSizes /\ SndPeriod' \in IntervalMin .. IntervalMax
         /\ SndPeriod' # SndPeriod => (SndPeriod' < SndPeriod <=> LastOf(history_decision').is = 1)
<1> DEFINE decision == Decision(mean, prediction)
<1> DEFINE result == Result(prediction, undecided, decision)
<1>1. decision \in {0, 1}
  BY DEF Decision
<1>2. /\ result \in {"above", "below", "half"}
      /\ result = "above" => decision = 1
      /\ result = "below" => decision = 0
  BY <1>1, ResultFollowsDecision
<1>3. PICK st \in ScaledSteps(OrMade(history_prediction), history_label') :
        RateControl(result, history_decision', st)
  BY DEF TakeAction
<1>4. /\ history_decision' \in Seq(Entries) /\ history_label' \in Seq(Entries)
      /\ LastOf(history_decision').is = decision
      /\ OrMade(history_prediction) \in Seq(Entries)
      /\ Len(OrMade(history_prediction)) = Len(history_label')
  BY TakeActionKeepsHistories
<1>5. steps \in StepSizes /\ SndPeriod \in IntervalMin .. IntervalMax
  BY DEF MonaxInv, MonaxTypeOK, StepSizes
<1> HIDE DEF decision, result
<1>6. st \in StepSizes
  BY <1>3, <1>4, <1>5, ScaledStepsAreBounded
<1>7. /\ steps' \in StepSizes /\ SndPeriod' \in IntervalMin .. IntervalMax
      /\ SndPeriod' < SndPeriod => result = "above"
      /\ SndPeriod' > SndPeriod => result = "below"
  BY <1>2, <1>3, <1>4, <1>5, <1>6, RateControlKeepsBounds
<1>8. SndPeriod \in Int /\ SndPeriod' \in Int
  BY <1>5, <1>7, MonaxAssumption DEF IntervalMin
<1>9. QED
  BY <1>2, <1>4, <1>7, <1>8

(* What an action makes of the model in use.                               *)
LEMMA ModelsKeepTheirTurns ==
  ASSUME MonaxInv, ChangeModel \/ KeepModel
  PROVE  /\ current_model' \in 0 .. ModelNum - 1
         /\ used_model' \in 0 .. ModelNum - 1 /\ accuracies' \in 0 .. ModelNum - 1
         /\ ModelsInTurn'
         /\ current_model' # current_model =>
               IF used_model < ModelNum - 1 THEN current_model' = used_model + 1
               ELSE current_model' # ModelNum - 1
<1> USE MonaxAssumption DEF MonaxInv, MonaxTypeOK, ModelsInTurn, AllUsed
<1>1. CASE ChangeModel /\ ~AllUsed
  BY <1>1 DEF ChangeModel
<1>2. CASE ChangeModel /\ AllUsed
  BY <1>2 DEF ChangeModel, Rated
<1>3. CASE KeepModel
  BY <1>3 DEF KeepModel
<1>4. QED
  BY <1>1, <1>2, <1>3

(* An action keeps the invariant.                                          *)
LEMMA TakeActionKeepsMonaxInv ==
  ASSUME MonaxInv, NEW better \in BOOLEAN, NEW undecided \in BOOLEAN, NEW prediction \in {0, 1},
         NEW mean \in {"low", "equal", "high"}, TakeAction(better, prediction, undecided, mean)
  PROVE  MonaxInv'
<1>1. actions \in 0 .. MaxActions /\ actions < MaxActions /\ actions' = actions + 1
      /\ monitored' = MonitorLen /\ (ChangeModel \/ KeepModel)
  BY DEF MonaxInv, MonaxTypeOK, TakeAction
<1>2. actions' \in 0 .. MaxActions /\ monitored' \in 0 .. MonitorLen
  BY <1>1, MonaxAssumption DEF MonitorLen
<1>3. /\ history_prediction' \in Seq(Entries) /\ Len(history_prediction') <= SaveHistory
      /\ history_decision' \in Seq(Entries) /\ Len(history_decision') <= SaveHistory
      /\ history_label' \in Seq(Entries) /\ Len(history_label') <= SaveHistory
      /\ HistoriesAligned'
  BY TakeActionKeepsHistories
<1>4. steps' \in [{"speedup", "slowdown"} -> StepMin .. StepMax]
      /\ SndPeriod' \in IntervalMin .. IntervalMax
  BY TakeActionKeepsBounds DEF StepSizes
<1>5. /\ current_model' \in 0 .. ModelNum - 1
      /\ used_model' \in 0 .. ModelNum - 1 /\ accuracies' \in 0 .. ModelNum - 1
      /\ ModelsInTurn'
  BY <1>1, ModelsKeepTheirTurns
<1>6. MonaxTypeOK'
  BY <1>2, <1>3, <1>4, <1>5 DEF MonaxTypeOK
<1>7. ActsOnceMonitored'
  BY <1>1 DEF ActsOnceMonitored, MonitorLen
<1>8. QED
  BY <1>3, <1>5, <1>6, <1>7 DEF MonaxInv

(* A sample that is only recorded keeps it.                                *)
LEMMA RecordSampleKeepsMonaxInv ==
  ASSUME MonaxInv, RecordSample
  PROVE  MonaxInv'
<1>1. UNCHANGED <<actions, SndPeriod, steps, history_prediction, history_label,
                  history_decision, current_model, used_model, accuracies>>
  BY DEF RecordSample
<1>2. monitored' \in 0 .. MonitorLen
  BY DEF MonaxInv, MonaxTypeOK, RecordSample, MonitorLen
<1>3. MonaxTypeOK'
  BY <1>1, <1>2 DEF MonaxInv, MonaxTypeOK
<1>4. HistoriesAligned'
  BY <1>1 DEF MonaxInv, HistoriesAligned, Numbered
<1>5. ModelsInTurn'
  BY <1>1 DEF MonaxInv, ModelsInTurn, AllUsed
<1>6. ActsOnceMonitored'
  BY <1>1 DEF MonaxInv, ActsOnceMonitored, RecordSample
<1>7. QED
  BY <1>3, <1>4, <1>5, <1>6 DEF MonaxInv

(* Every step keeps it.                                                    *)
LEMMA MonaxInv_Next ==
  MonaxInv /\ [MonaxNext]_monaxVars => MonaxInv'
<1> SUFFICES ASSUME MonaxInv, [MonaxNext]_monaxVars PROVE MonaxInv'
  OBVIOUS
<1>1. CASE RecordSample
  BY <1>1, RecordSampleKeepsMonaxInv
<1>2. ASSUME NEW better \in BOOLEAN, NEW undecided \in BOOLEAN, NEW prediction \in {0, 1},
             NEW mean \in {"low", "equal", "high"}, TakeAction(better, prediction, undecided, mean)
      PROVE  MonaxInv'
  BY <1>2, TakeActionKeepsMonaxInv
<1>3. CASE UNCHANGED monaxVars
  BY <1>3 DEF monaxVars, MonaxInv, MonaxTypeOK, HistoriesAligned, Numbered, ModelsInTurn, AllUsed,
              ActsOnceMonitored
<1>4. QED
  BY <1>1, <1>2, <1>3 DEF MonaxNext

-----------------------------------------------------------------------------
(***************************************************************************)
(* Theorems.                                                               *)
(***************************************************************************)

(* What is compared in a step, or nothing is.                              *)
LEMMA StepsCompareLikeWithLike ==
  ASSUME MonaxInv, [MonaxNext]_monaxVars
  PROVE  [\A n \in 4 .. Len(history_label') : actions > 0 =>
            \A i \in n - 3 .. n : history_prediction[i].of = history_label'[i].of]_monaxVars
<1>1. CASE RecordSample
  <2>1. actions = 0
    BY <1>1 DEF RecordSample, MonaxInv, ActsOnceMonitored
  <2>2. QED
    BY <2>1
<1>2. ASSUME NEW better \in BOOLEAN, NEW undecided \in BOOLEAN, NEW prediction \in {0, 1},
             NEW mean \in {"low", "equal", "high"}, TakeAction(better, prediction, undecided, mean),
             NEW n \in 4 .. Len(history_label'), actions > 0, NEW i \in n - 3 .. n
      PROVE  history_prediction[i].of = history_label'[i].of
  <2>1. /\ Len(history_prediction) = Len(history_label')
        /\ Numbered(history_prediction, actions) /\ Numbered(history_label', actions)
        /\ history_label' \in Seq(Entries)
    BY <1>2, TakeActionKeepsHistories
  <2>2. i \in 1 .. Len(history_label')
    BY <1>2, <2>1
  <2>3. QED
    BY <2>1, <2>2 DEF Numbered
<1>3. CASE UNCHANGED monaxVars
  BY <1>3
<1>4. QED
  BY <1>1, <1>2, <1>3 DEF MonaxNext

(* The interval goes the way of the decision recorded with it.             *)
LEMMA StepsFollowTheDecision ==
  ASSUME MonaxInv, [MonaxNext]_monaxVars
  PROVE  [SndPeriod' # SndPeriod =>
            (SndPeriod' < SndPeriod <=> LastOf(history_decision').is = 1)]_monaxVars
<1>1. CASE RecordSample
  BY <1>1 DEF RecordSample
<1>2. ASSUME NEW better \in BOOLEAN, NEW undecided \in BOOLEAN, NEW prediction \in {0, 1},
             NEW mean \in {"low", "equal", "high"}, TakeAction(better, prediction, undecided, mean)
      PROVE  SndPeriod' # SndPeriod => (SndPeriod' < SndPeriod <=> LastOf(history_decision').is = 1)
  BY <1>2, TakeActionKeepsBounds
<1>3. QED
  BY <1>1, <1>2 DEF MonaxNext

(* Models are used in turn, and the last one never again.                  *)
LEMMA StepsUseTheLastModelOnce ==
  ASSUME MonaxInv, [MonaxNext]_monaxVars
  PROVE  [current_model' # current_model =>
            IF used_model < ModelNum - 1 THEN current_model' = used_model + 1
            ELSE current_model' # ModelNum - 1]_monaxVars
<1>1. CASE RecordSample
  BY <1>1 DEF RecordSample
<1>2. ASSUME NEW better \in BOOLEAN, NEW undecided \in BOOLEAN, NEW prediction \in {0, 1},
             NEW mean \in {"low", "equal", "high"}, TakeAction(better, prediction, undecided, mean)
      PROVE  current_model' # current_model =>
               IF used_model < ModelNum - 1 THEN current_model' = used_model + 1
               ELSE current_model' # ModelNum - 1
  <2>1. ChangeModel \/ KeepModel
    BY <1>2 DEF TakeAction
  <2>2. QED
    BY <2>1, ModelsKeepTheirTurns
<1>3. QED
  BY <1>1, <1>2 DEF MonaxNext

(* However long the histories, however many models and whatever the floating-*)
(* point arithmetic gives, the controller stays consistent.                *)
THEOREM MonaxIsConsistentHolds == MonaxSpec => MonaxIsConsistent
<1>1. MonaxInv => MonaxTypeOK
  BY DEF MonaxInv
<1>2. QED
  BY <1>1, MonaxInit_MonaxInv, MonaxInv_Next, StepsCompareLikeWithLike, StepsFollowTheDecision,
     StepsUseTheLastModelOnce, PTL
     DEF MonaxSpec, MonaxIsConsistent, ComparesLikeWithLike, DelaysDecide, LastModelIsUsedOnce

-----------------------------------------------------------------------------
(***************************************************************************)
(* The size of a frame.                                                    *)
(***************************************************************************)

(* Half of the range of the unsigned numbers.                              *)
Half == 2^(Bits - 1)

(* What the constants say about the numbers.                               *)
LEMMA BudgetNumbers ==
  /\ Half \in Nat /\ MaxDelay \in Nat /\ MaxPackets \in Nat
  /\ MaxDelay >= 1 /\ MaxDelay < Half /\ MaxPackets < Half
  /\ DelayValues \subseteq Nat /\ FrameSizes \subseteq Nat \ {0} /\ MaxSkippedFrames \in Nat
<1>1. Bits - 1 \in Nat
  BY FrameBudgetAssumption
<1>2. 2^(Bits - 1) \in Int
  BY <1>1
<1>3. MaxDelay \in 1 .. 2^(Bits - 1) - 1 /\ MaxPackets \in 0 .. 2^(Bits - 1) - 1
  BY FrameBudgetAssumption
<1>4. QED
  BY <1>2, <1>3, FrameBudgetAssumption DEF Half

(* Within half of the range the conversion changes nothing.                *)
LEMMA SignedIsSame ==
  ASSUME NEW n \in Int, - Half <= n, n < Half
  PROVE  AsSigned(n) = n
<1>1. Half \in Int /\ Half > 0
  BY BudgetNumbers
<1> DEFINE h == Half
           w == n % (2 * h)
<1>2. AsSigned(n) = IF w < h THEN w ELSE w - 2 * h
  BY DEF AsSigned, Half
<1> HIDE DEF h
<1>3. h \in Int /\ h > 0 /\ - h <= n /\ n < h
  BY <1>1 DEF h
<1>4. w = IF n < 0 THEN n + 2 * h ELSE n
  BY <1>3
<1> HIDE DEF w
<1>5. QED
  BY <1>2, <1>3, <1>4

(* The packets delivered within max_delay.                                 *)
Delivered(d) == MaxDelay \div (IF d = 0 THEN 1 ELSE d)

(* That many packets take no longer than max_delay.                        *)
LEMMA DeliveredInTime ==
  ASSUME NEW d \in Nat
  PROVE  /\ Delivered(d) \in 0 .. MaxDelay
         /\ \A p \in Nat : p <= Delivered(d) => p * d <= MaxDelay
<1>1. MaxDelay \in Nat
  BY BudgetNumbers
<1>2. CASE d = 0
  <2>1. Delivered(d) = MaxDelay
    BY <1>1, <1>2 DEF Delivered
  <2>2. \A p \in Nat : p * d = 0
    BY <1>2
  <2>3. QED
    BY <1>1, <2>1, <2>2
<1>3. CASE d # 0
  <2> DEFINE q == MaxDelay \div d
  <2>1. Delivered(d) = q
    BY <1>3 DEF Delivered
  <2>2. q \in Int /\ q >= 0 /\ q <= MaxDelay
    BY <1>1, <1>3
  <2>3. q * d <= MaxDelay
    BY <1>1, <1>3
  <2> HIDE DEF q
  <2>4. ASSUME NEW p \in Nat, p <= q PROVE p * d <= MaxDelay
    <3>1. p * d <= q * d
      BY <2>2, <2>4
    <3>2. p * d \in Int /\ q * d \in Int
      BY <2>2
    <3>3. QED
      BY <1>1, <2>3, <3>1, <3>2
  <2>5. QED
    BY <1>1, <2>1, <2>2, <2>4
<1>4. QED
  BY <1>2, <1>3

(* The packets of a frame that fits are those the network still has room   *)
(* for: nothing wraps around.                                              *)
LEMMA FittingLeavesRoom ==
  ASSUME BudgetTypeOK, NEW d \in Nat, NEW size \in Nat \ {0},
         size <= TargetSize(d, packets_acked, packets_sent)
  PROVE  /\ Fragments(size) \in Nat
         /\ (packets_sent + Fragments(size)) - packets_acked <= Delivered(d)
<1> DEFINE n == packets_sent - packets_acked
           r == Delivered(d) - n
<1>1. n \in Nat /\ n < Half /\ packets_sent \in Nat /\ packets_acked \in Nat
  BY BudgetNumbers DEF BudgetTypeOK
<1>2. Delivered(d) \in Nat /\ Delivered(d) < Half /\ Half \in Int
  BY BudgetNumbers, DeliveredInTime
<1>3. r \in Int /\ - Half <= r /\ r < Half
  BY <1>1, <1>2
<1>4. AsSigned(r) = r
  BY <1>3, SignedIsSame
<1>5. TargetSize(d, packets_acked, packets_sent) = PayloadSize * (IF r > 0 THEN r ELSE 0)
  BY <1>4 DEF TargetSize, Delivered
<1> HIDE DEF n, r
<1>6. r > 0 /\ size <= 1400 * r
  <2>1. CASE r > 0
    BY <1>3, <1>5, <2>1 DEF PayloadSize
  <2>2. CASE ~(r > 0)
    <3>1. TargetSize(d, packets_acked, packets_sent) = 0
      BY <1>5, <2>2 DEF PayloadSize
    <3>2. QED
      BY <3>1
  <2>3. QED
    BY <2>1, <2>2
<1>7. (size + 1399) \div 1400 \in Nat /\ (size + 1399) \div 1400 <= r
  BY <1>3, <1>6
<1>8. Fragments(size) = (size + 1399) \div 1400
  BY DEF Fragments, PayloadSize
<1>9. QED
  BY <1>1, <1>2, <1>3, <1>7, <1>8 DEF n, r

(* Among outputs that fit there is a best one.                             *)
LEMMA BestFits ==
  ASSUME NEW sizes \in FrameSizes \X FrameSizes, Fitting(sizes) # {}
  PROVE  BestOf(Fitting(sizes), sizes) \in Fitting(sizes)
<1> DEFINE fitting == Fitting(sizes)
           Best(i) == \A j \in fitting : sizes[i] > sizes[j] \/ (sizes[i] = sizes[j] /\ i <= j)
<1>1. sizes[1] \in Nat /\ sizes[2] \in Nat
  BY BudgetNumbers
<1>2. fitting \subseteq {1, 2}
  BY DEF Fitting
<1> HIDE DEF fitting
<1>3. \E i \in fitting : Best(i)
  <2>1. CASE 1 \in fitting /\ (2 \notin fitting \/ sizes[1] >= sizes[2])
    <3>1. Best(1)
      BY <1>1, <1>2, <2>1
    <3>2. QED
      BY <2>1, <3>1
  <2>2. CASE 2 \in fitting /\ (1 \notin fitting \/ sizes[2] > sizes[1])
    <3>1. Best(2)
      BY <1>1, <1>2, <2>2
    <3>2. QED
      BY <2>2, <3>1
  <2>3. QED
    BY <1>1, <1>2, <2>1, <2>2 DEF fitting
<1>4. BestOf(fitting, sizes) = CHOOSE i \in fitting : Best(i)
  BY DEF BestOf
<1>5. (CHOOSE i \in fitting : Best(i)) \in fitting
  BY <1>3
<1>6. QED
  BY <1>4, <1>5 DEF fitting

(* The types hold before the first frame.                                  *)
LEMMA BudgetTypesInitially ==
  ASSUME BudgetInit
  PROVE  BudgetTypeOK
BY BudgetNumbers DEF BudgetInit, BudgetTypeOK

(* What happens to the outputs of the jobs: one that fits is sent, the     *)
(* frame is skipped, or the small one is sent all the same.                *)
LEMMA OutputIsSentOrSkipped ==
  ASSUME BudgetTypeOK, NEW sizes \in FrameSizes \X FrameSizes, ChooseOutput(sizes)
  PROVE  /\ UNCHANGED <<avg_delay, packets_acked>>
         /\ \/ \E i \in Fitting(sizes) : Send(sizes, i)
            \/ /\ skipped < MaxSkippedFrames /\ skipped' = skipped + 1
               /\ UNCHANGED <<packets_sent, last_quantizer>>
            \/ skipped = MaxSkippedFrames /\ Send(sizes, 2)
<1>1. UNCHANGED <<avg_delay, packets_acked>>
  BY DEF ChooseOutput
<1>2. CASE Fitting(sizes) # {}
  <2>1. Send(sizes, BestOf(Fitting(sizes), sizes))
    BY <1>2 DEF ChooseOutput
  <2>2. QED
    BY <1>1, <1>2, <2>1, BestFits
<1>3. CASE Fitting(sizes) = {}
  <2>1. skipped < MaxSkippedFrames \/ skipped = MaxSkippedFrames
    BY BudgetNumbers DEF BudgetTypeOK
  <2>2. CASE skipped < MaxSkippedFrames
    <3>1. skipped # MaxSkippedFrames
      BY <2>2, BudgetNumbers DEF BudgetTypeOK
    <3>2. QED
      BY <1>1, <1>3, <2>2, <3>1 DEF ChooseOutput
  <2>3. CASE skipped = MaxSkippedFrames
    <3>1. ~(skipped < MaxSkippedFrames)
      BY <2>3, BudgetNumbers DEF BudgetTypeOK
    <3>2. QED
      BY <1>1, <1>3, <2>3, <3>1 DEF ChooseOutput
  <2>4. QED
    BY <2>1, <2>2, <2>3
<1>4. QED
  BY <1>2, <1>3

(* What sending does.                                                      *)
LEMMA SendSends ==
  ASSUME BudgetTypeOK, NEW sizes \in FrameSizes \X FrameSizes, NEW i \in 1 .. 2,
         Send(sizes, i)
  PROVE  /\ sizes[i] \in Nat \ {0}
         /\ Fragments(sizes[i]) \in Nat
         /\ packets_sent' = packets_sent + Fragments(sizes[i])
         /\ packets_sent' <= MaxPackets
         /\ last_quantizer' \in 3 .. 127
         /\ i = 2 => last_quantizer' > last_quantizer \/ last_quantizer' = 127
         /\ skipped' = 0
<1> DEFINE size == sizes[i]
<1>1. size \in Nat \ {0}
  <2>1. sizes[1] \in FrameSizes /\ sizes[2] \in FrameSizes
    OBVIOUS
  <2>2. i = 1 \/ i = 2
    OBVIOUS
  <2>3. QED
    BY <2>1, <2>2, BudgetNumbers, Zenon
<1>2. Send(sizes, i) <=>
        /\ packets_sent + Fragments(size) <= MaxPackets
        /\ packets_sent' = packets_sent + Fragments(size)
        /\ last_quantizer' = JobQuantizers[i]
        /\ skipped' = 0
  BY DEF Send
<1> HIDE DEF size
<1>3. Fragments(size) \in Nat
  BY <1>1 DEF Fragments, PayloadSize
<1>4. JobQuantizers[i] \in 3 .. 127 /\ (i = 2 => JobQuantizers[i] > last_quantizer \/ JobQuantizers[i] = 127)
  BY DEF JobQuantizers, Increment, BudgetTypeOK
<1>5. QED
  BY <1>1, <1>2, <1>3, <1>4 DEF size

(* They are kept by the choice of an output and by an acknowledgement.     *)
LEMMA BudgetTypesAreKept ==
  ASSUME BudgetTypeOK, [BudgetNext]_budgetVars
  PROVE  BudgetTypeOK'
<1>1. ASSUME NEW sizes \in FrameSizes \X FrameSizes, ChooseOutput(sizes)
      PROVE  BudgetTypeOK'
  <2>1. UNCHANGED <<avg_delay, packets_acked>>
    BY <1>1, OutputIsSentOrSkipped
  <2>2. ASSUME NEW i \in 1 .. 2, Send(sizes, i) PROVE BudgetTypeOK'
    <3>1. /\ packets_sent' \in packets_sent .. MaxPackets /\ last_quantizer' \in 3 .. 127
          /\ skipped' = 0
      BY <2>2, SendSends, BudgetNumbers DEF BudgetTypeOK
    <3>2. QED
      BY <2>1, <3>1, BudgetNumbers DEF BudgetTypeOK
  <2>3. ASSUME skipped < MaxSkippedFrames, skipped' = skipped + 1,
               UNCHANGED <<packets_sent, last_quantizer>>
        PROVE  BudgetTypeOK'
    BY <2>1, <2>3, BudgetNumbers DEF BudgetTypeOK
  <2>4. \A i \in Fitting(sizes) : i \in 1 .. 2
    BY DEF Fitting
  <2>5. QED
    BY <1>1, <2>2, <2>3, <2>4, OutputIsSentOrSkipped
<1>2. ASSUME NEW delay \in DelayValues, NEW acked \in packets_acked .. packets_sent - 1, ReceiveDelay(delay, acked)
      PROVE  BudgetTypeOK'
  <2>1. avg_delay' = {delay} /\ packets_acked' = acked /\ UNCHANGED <<packets_sent, skipped, last_quantizer>>
    BY <1>2 DEF ReceiveDelay
  <2>2. acked \in 0 .. packets_sent
    BY DEF BudgetTypeOK
  <2>3. QED
    BY <2>1, <2>2 DEF BudgetTypeOK
<1>3. CASE UNCHANGED budgetVars
  BY <1>3 DEF budgetVars, BudgetTypeOK
<1>4. QED
  BY <1>1, <1>2, <1>3 DEF BudgetNext

(* The packets on the way never outnumber those sent, and the quantizer    *)
(* and the skipped frames keep their bounds.                               *)
THEOREM BudgetTypesHold == BudgetInit /\ [][BudgetNext]_budgetVars => []BudgetTypeOK
BY BudgetTypesInitially, BudgetTypesAreKept, PTL

(* Differences between a count and an earlier one.                         *)
LEMMA LaterIsNumber ==
  ASSUME NEW x \in Int, NEW y \in Int
  PROVE  x - y \in Int
OBVIOUS

LEMMA LaterLess ==
  ASSUME NEW x \in Nat, NEW y \in Nat, NEW z \in 0 .. y, x > y
  PROVE  x - z \in Nat /\ x - y \in Nat /\ x - y <= x - z
OBVIOUS

(* Packets only leave with an output that fits, or after too many skipped  *)
(* frames with the coarser one.                                            *)
LEMMA SendingStep ==
  ASSUME BudgetTypeOK, BudgetNext, packets_sent' > packets_sent
  PROVE  /\ UNCHANGED <<avg_delay, packets_acked>> /\ packets_sent' \in Nat
         /\ \/ \A d \in avg_delay : packets_sent' - packets_acked <= Delivered(d)
            \/ skipped = MaxSkippedFrames
               /\ (last_quantizer' > last_quantizer \/ last_quantizer' = 127)
<1>1. \A d \in avg_delay : d \in Nat
  BY BudgetNumbers DEF BudgetTypeOK
<1>2. packets_sent \in Nat
  BY BudgetNumbers DEF BudgetTypeOK
<1>3. PICK sizes \in FrameSizes \X FrameSizes : ChooseOutput(sizes)
  <2>1. PICK one \in FrameSizes, two \in FrameSizes : ChooseOutput(<<one, two>>)
    BY <1>2 DEF BudgetNext, ReceiveDelay
  <2>2. <<one, two>> \in FrameSizes \X FrameSizes
    BY <2>1
  <2>3. QED
    BY <2>1, <2>2
<1>4. UNCHANGED <<avg_delay, packets_acked>>
  BY <1>3, OutputIsSentOrSkipped
<1>5. ASSUME NEW i \in Fitting(sizes), Send(sizes, i)
      PROVE  packets_sent' \in Nat /\ \A d \in avg_delay : packets_sent' - packets_acked <= Delivered(d)
  <2>1. i \in 1 .. 2 /\ \A d \in avg_delay : sizes[i] <= TargetSize(d, packets_acked, packets_sent)
    BY <1>5 DEF Fitting
  <2>2. /\ sizes[i] \in Nat \ {0} /\ Fragments(sizes[i]) \in Nat
        /\ packets_sent' = packets_sent + Fragments(sizes[i])
    BY <1>3, <1>5, <2>1, SendSends
  <2>3. ASSUME NEW d \in avg_delay PROVE packets_sent' - packets_acked <= Delivered(d)
    <3> DEFINE size == sizes[i]
    <3> HIDE DEF size
    <3>1. size \in Nat \ {0} /\ size <= TargetSize(d, packets_acked, packets_sent) /\ d \in Nat
      BY <1>1, <2>1, <2>2 DEF size
    <3>2. (packets_sent + Fragments(size)) - packets_acked <= Delivered(d)
      BY <3>1, FittingLeavesRoom
    <3> DEFINE n == packets_sent + Fragments(size)
    <3>3. n = packets_sent'
      BY <2>2 DEF size
    <3>4. n - packets_acked <= Delivered(d)
      BY <3>2
    <3> HIDE DEF n
    <3>5. QED
      BY <3>3, <3>4, Zenon
  <2>4. QED
    BY <1>2, <2>2, <2>3
<1>6. ASSUME skipped = MaxSkippedFrames, Send(sizes, 2)
      PROVE  packets_sent' \in Nat /\ (last_quantizer' > last_quantizer \/ last_quantizer' = 127)
  BY <1>2, <1>6, SendSends
<1>7. ~(UNCHANGED <<packets_sent, last_quantizer>>)
  BY <1>2
<1>8. QED
  BY <1>3, <1>4, <1>5, <1>6, <1>7, OutputIsSentOrSkipped

(* The pacer lets packets go at least as fast as the network delivers them *)
(* when that takes half a millisecond each.                                *)
LEMMA IntervalIsShort ==
  ASSUME NEW d \in Nat, d >= 500
  PROVE  Interval(d) \in Nat /\ Interval(d) <= d
<1>1. d \div 5 \in Nat /\ d \div 5 <= d /\ (d \div 5 > 2000 => d >= 2000)
  OBVIOUS
<1>2. QED
  BY <1>1 DEF Interval

(* A frame that is not forced out leaves no more packets on the way than   *)
(* the network delivers within max_delay, whatever the unsigned arithmetic *)
(* wraps around at; one that is forced out is coarser than the one before. *)
THEOREM FramesFitTheDelayHolds == BudgetInit /\ [][BudgetNext]_budgetVars => FramesFitTheDelay
<1> DEFINE FitsTheDelay ==
      packets_sent' > packets_sent /\ skipped < MaxSkippedFrames =>
        \A d \in avg_delay :
          /\ (packets_sent' - packets_acked) * d <= MaxDelay
          /\ d >= 500 => (packets_sent' - packets_sent) * Interval(d) <= MaxDelay
<1> DEFINE Coarser ==
      packets_sent' > packets_sent
        /\ (\E d \in avg_delay : (packets_sent' - packets_acked) * d > MaxDelay) =>
        skipped = MaxSkippedFrames /\ (last_quantizer' > last_quantizer \/ last_quantizer' = 127)
<1>1. ASSUME BudgetTypeOK, BudgetNext, packets_sent' > packets_sent, NEW d \in avg_delay,
             packets_sent' - packets_acked <= Delivered(d)
      PROVE  /\ (packets_sent' - packets_acked) * d <= MaxDelay
             /\ d >= 500 => (packets_sent' - packets_sent) * Interval(d) <= MaxDelay
  <2>1. d \in Nat /\ MaxDelay \in Nat
    BY <1>1, BudgetNumbers DEF BudgetTypeOK
  <2>2. packets_sent \in Nat /\ packets_sent' \in Nat /\ packets_acked \in 0 .. packets_sent
    BY <1>1, SendingStep, BudgetNumbers DEF BudgetTypeOK
  <2> DEFINE p == packets_sent' - packets_acked
             s == packets_sent' - packets_sent
  <2>3. p \in Nat /\ s \in Nat /\ s <= p
    <3>1. packets_sent' > packets_sent
      BY <1>1
    <3>2. QED
      BY <2>2, <3>1, LaterLess
  <2>4. p <= Delivered(d)
    BY <1>1
  <2> HIDE DEF p, s
  <2>5. p * d <= MaxDelay
    BY <2>1, <2>3, <2>4, DeliveredInTime
  <2>6. ASSUME d >= 500 PROVE s * Interval(d) <= MaxDelay
    <3>1. Interval(d) \in Nat /\ Interval(d) <= d
      BY <2>1, <2>6, IntervalIsShort
    <3>2. s * Interval(d) <= p * d
      <4>1. s * Interval(d) <= p * Interval(d)
        BY <2>3, <3>1
      <4>2. p * Interval(d) <= p * d
        BY <2>1, <2>3, <3>1
      <4>3. s * Interval(d) \in Int /\ p * Interval(d) \in Int /\ p * d \in Int
        BY <2>1, <2>3, <3>1
      <4>4. QED
        BY <4>1, <4>2, <4>3
    <3>3. s * Interval(d) \in Int /\ p * d \in Int
      BY <2>1, <2>3, <3>1
    <3>4. QED
      BY <2>1, <2>5, <3>2, <3>3
  <2>7. QED
    BY <2>5, <2>6 DEF p, s
<1>2. BudgetTypeOK /\ [BudgetNext]_budgetVars => [FitsTheDelay]_budgetVars
  <2> SUFFICES ASSUME BudgetTypeOK, BudgetNext, packets_sent' > packets_sent, skipped < MaxSkippedFrames,
                      NEW d \in avg_delay
               PROVE  /\ (packets_sent' - packets_acked) * d <= MaxDelay
                      /\ d >= 500 => (packets_sent' - packets_sent) * Interval(d) <= MaxDelay
    OBVIOUS
  <2>1. skipped # MaxSkippedFrames
    BY BudgetNumbers DEF BudgetTypeOK
  <2>2. packets_sent' - packets_acked <= Delivered(d)
    BY <2>1, SendingStep
  <2>3. QED
    BY <1>1, <2>2
<1>3. BudgetTypeOK /\ [BudgetNext]_budgetVars => [Coarser]_budgetVars
  <2> SUFFICES ASSUME BudgetTypeOK, BudgetNext, packets_sent' > packets_sent,
                      NEW d \in avg_delay, (packets_sent' - packets_acked) * d > MaxDelay
               PROVE  skipped = MaxSkippedFrames /\ (last_quantizer' > last_quantizer \/ last_quantizer' = 127)
    OBVIOUS
  <2>1. d \in Nat /\ MaxDelay \in Nat /\ packets_acked \in Nat /\ packets_sent' \in Nat
    BY SendingStep, BudgetNumbers DEF BudgetTypeOK
  <2> DEFINE load == (packets_sent' - packets_acked) * d
  <2>2. load \in Int /\ load > MaxDelay
    <3>1. packets_sent' - packets_acked \in Int
      BY <2>1, LaterIsNumber
    <3>2. packets_sent' - packets_acked \in Int /\ d \in Int => load \in Int
      OBVIOUS
    <3>3. load > MaxDelay
      BY Zenon
    <3> HIDE DEF load
    <3>4. QED
      BY <2>1, <3>1, <3>2, <3>3
  <2> HIDE DEF load
  <2>3. ~(load <= MaxDelay)
    BY <2>1, <2>2
  <2>4. ~(packets_sent' - packets_acked <= Delivered(d))
    BY <1>1, <2>3 DEF load
  <2>5. QED
    BY <2>4, SendingStep
<1>4. QED
  BY <1>2, <1>3, BudgetTypesHold, PTL DEF FramesFitTheDelay, SentFramesFit, ForcedFramesAreCoarser

-----------------------------------------------------------------------------
(***************************************************************************)
(* The images that are saved and served.                                   *)
(***************************************************************************)

(* Where the thread that saves a frame is.                                 *)
SaverState == {"none", "started", "read", "named", "writing", "done"}

(* Frame m was drawn last, the threads of those before it are done, and    *)
(* every number went to the frame drawn with it.                           *)
SavedUpTo(m) ==
  /\ saver \in [Images -> SaverState] /\ saver_id \in [Images -> Nat]
  /\ \A k \in Images : k < m => saver[k] = "done"
  /\ \A k \in Images : k > m => saver[k] = "none"
  /\ m > 0 => saver[m] # "none"
  /\ img_id = IF m = 0 THEN 1 ELSE IF saver[m] \in {"started", "read"} THEN m ELSE m + 1
  /\ m > 0 /\ saver[m] # "started" => saver_id[m] = m

(* The files of the frames before frame m are complete, its own is there   *)
(* when its thread has opened it, and there are no others.                 *)
FilesUpTo(m) ==
  /\ DOMAIN images = 1 .. MaxImages + 1
  /\ \A i \in 1 .. MaxImages + 1 : i < m => images[i] = [frame |-> i, whole |-> TRUE]
  /\ \A i \in 1 .. MaxImages + 1 : i > m => images[i] = NoImage
  /\ m > 0 /\ saver[m] = "done" => images[m] = [frame |-> m, whole |-> TRUE]
  /\ m > 0 /\ saver[m] = "writing" => images[m] = [frame |-> m, whole |-> FALSE]
  /\ m > 0 /\ saver[m] \in {"started", "read", "named"} => images[m] = NoImage

(* Frame m is the only one that may still be being saved.                  *)
OneSaver(m) == SavedUpTo(m) /\ FilesUpTo(m)

(* As long as no two threads have saved at once there is such a frame, and *)
(* the monitor has found every file it has read.                           *)
ImagesInv ==
  ~overlapped =>
    /\ ~terminated
    /\ web_img_id \in Images
    /\ \E m \in 0 .. MaxImages : OneSaver(m)

(* Nothing is drawn at first, and there is no image 1 yet to show.         *)
LEMMA ImagesInvInitially ==
  ASSUME ImagesInit
  PROVE  ImagesInv
<1>1. MaxImages \in Nat /\ MaxImages > 0
  BY ImagesAssumption
<1>2. saver \in [Images -> SaverState] /\ \A k \in Images : saver[k] = "none"
  BY DEF ImagesInit, SaverState
<1>3. saver_id \in [Images -> Nat]
  BY DEF ImagesInit
<1>4. SavedUpTo(0)
  BY <1>1, <1>2, <1>3 DEF SavedUpTo, Images, ImagesInit
<1>5. DOMAIN images = 1 .. MaxImages + 1 /\ \A i \in 1 .. MaxImages + 1 : images[i] = NoImage
  BY DEF ImagesInit
<1>6. FilesUpTo(0)
  BY <1>1, <1>5 DEF FilesUpTo
<1>7. QED
  BY <1>1, <1>4, <1>6 DEF OneSaver, ImagesInv, ImagesInit, Images

(* A frame is drawn when no thread is saving.                              *)
LEMMA StartSaverPreserves ==
  ASSUME ImagesInv, NEW k \in Images, StartSaver(k)
  PROVE  ImagesInv'
<1> SUFFICES ASSUME ~overlapped' PROVE ImagesInv'
  BY DEF ImagesInv
<1>1. ~overlapped /\ \A j \in Images : saver[j] \in {"none", "done"}
  BY DEF StartSaver
<1>2. PICK m \in 0 .. MaxImages : OneSaver(m)
  BY <1>1 DEF ImagesInv
<1>3. MaxImages \in Nat /\ m \in Nat /\ k \in 1 .. MaxImages
  BY ImagesAssumption DEF Images
<1>4. k = m + 1
  <2>1. k > m
    BY <1>2, <1>3 DEF OneSaver, SavedUpTo, StartSaver, Images
  <2>2. ~(m + 1 < k)
    <3>1. m + 1 < k => m + 1 \in 1 .. k - 1 /\ m + 1 \in Images
      BY <1>3 DEF Images
    <3>2. m + 1 < k => saver[m + 1] # "none"
      BY <3>1 DEF StartSaver
    <3>3. m + 1 < k => saver[m + 1] = "none"
      BY <1>2, <1>3, <3>1 DEF OneSaver, SavedUpTo
    <3>4. QED
      BY <3>2, <3>3
  <2>3. QED
    BY <1>3, <2>1, <2>2
<1>5. m > 0 => saver[m] = "done"
  <2>1. m > 0 => m \in Images
    BY <1>3 DEF Images
  <2>2. QED
    BY <1>1, <1>2, <2>1 DEF OneSaver, SavedUpTo
<1>6. saver' = [saver EXCEPT ![k] = "started"] /\ UNCHANGED <<img_id, saver_id, images, web_img_id, terminated>>
  BY DEF StartSaver
<1>7. SavedUpTo(k)'
  <2>1. saver' \in [Images -> SaverState] /\ saver'[k] = "started"
    BY <1>2, <1>6 DEF OneSaver, SavedUpTo, SaverState
  <2>2. \A j \in Images : j # k => saver'[j] = saver[j]
    BY <1>2, <1>6 DEF OneSaver, SavedUpTo
  <2>3. \A j \in Images : j < k => saver'[j] = "done"
    BY <1>2, <1>3, <1>4, <1>5, <2>2 DEF OneSaver, SavedUpTo, Images
  <2>4. \A j \in Images : j > k => saver'[j] = "none"
    BY <1>2, <1>3, <1>4, <2>2 DEF OneSaver, SavedUpTo, Images
  <2>5. img_id' = k
    BY <1>2, <1>3, <1>4, <1>5, <1>6 DEF OneSaver, SavedUpTo
  <2>6. QED
    BY <1>2, <1>3, <1>6, <2>1, <2>3, <2>4, <2>5 DEF OneSaver, SavedUpTo
<1>8. FilesUpTo(k)'
  <2>1. saver'[k] = "started"
    BY <1>2, <1>6 DEF OneSaver, SavedUpTo
  <2>2. \A i \in 1 .. MaxImages + 1 : i < k => images[i] = [frame |-> i, whole |-> TRUE]
    BY <1>2, <1>3, <1>4, <1>5 DEF OneSaver, FilesUpTo
  <2>3. \A i \in 1 .. MaxImages + 1 : i >= k => images[i] = NoImage
    BY <1>2, <1>3, <1>4 DEF OneSaver, FilesUpTo
  <2>4. QED
    BY <1>2, <1>3, <1>6, <2>1, <2>2, <2>3 DEF OneSaver, FilesUpTo
<1>9. QED
  BY <1>1, <1>3, <1>6, <1>7, <1>8 DEF OneSaver, ImagesInv

(* The only thread that is saving moves on.                                *)
LEMMA SavePreserves ==
  ASSUME ImagesInv, NEW k \in Images, Save(k)
  PROVE  ImagesInv'
<1> USE DEF Moves
<1>1. UNCHANGED <<web_img_id, terminated, overlapped>> /\ saver[k] \notin {"none", "done"}
  BY DEF Save, ReadsId, WritesId, OpensFile, ClosesFile
<1> SUFFICES ASSUME ~overlapped PROVE ImagesInv'
  BY <1>1 DEF ImagesInv
<1>2. PICK m \in 0 .. MaxImages : OneSaver(m)
  BY DEF ImagesInv
<1>3. MaxImages \in Nat /\ m \in Nat /\ k \in 1 .. MaxImages
  BY ImagesAssumption DEF Images
<1>4. k = m
  BY <1>1, <1>2, <1>3 DEF OneSaver, SavedUpTo
<1>5. saver \in [Images -> SaverState] /\ saver_id \in [Images -> Nat] /\ DOMAIN images = 1 .. MaxImages + 1
  BY <1>2 DEF OneSaver, SavedUpTo, FilesUpTo
<1> DEFINE Others ==
             /\ saver' \in [Images -> SaverState]
             /\ \A j \in Images : j < k => saver'[j] = "done"
             /\ \A j \in Images : j > k => saver'[j] = "none"
<1>6. Others
  BY <1>2, <1>3, <1>4, <1>5 DEF OneSaver, SavedUpTo, SaverState, Save, ReadsId, WritesId, OpensFile, ClosesFile
<1>7. CASE ReadsId(k)
  <2>1. saver[k] = "started" /\ saver'[k] = "read" /\ UNCHANGED <<img_id, images>>
    BY <1>5, <1>7 DEF ReadsId
  <2>2. saver_id' \in [Images -> Nat] /\ saver_id'[k] = k
    BY <1>2, <1>3, <1>4, <1>5, <1>7, <2>1 DEF ReadsId, OneSaver, SavedUpTo
  <2>3. SavedUpTo(m)'
    BY <1>2, <1>3, <1>4, <1>6, <2>1, <2>2 DEF OneSaver, SavedUpTo
  <2>4. FilesUpTo(m)'
    BY <1>2, <1>3, <1>4, <2>1 DEF OneSaver, FilesUpTo
  <2>5. QED
    BY <1>1, <2>3, <2>4 DEF OneSaver, ImagesInv
<1>8. CASE WritesId(k)
  <2>1. saver[k] = "read" /\ saver'[k] = "named" /\ UNCHANGED <<saver_id, images>>
    BY <1>5, <1>8 DEF WritesId
  <2>2. img_id' = k + 1
    BY <1>2, <1>3, <1>4, <1>8, <2>1 DEF WritesId, NextId, OneSaver, SavedUpTo
  <2>3. SavedUpTo(m)'
    BY <1>2, <1>3, <1>4, <1>6, <2>1, <2>2 DEF OneSaver, SavedUpTo
  <2>4. FilesUpTo(m)'
    BY <1>2, <1>3, <1>4, <2>1 DEF OneSaver, FilesUpTo
  <2>5. QED
    BY <1>1, <2>3, <2>4 DEF OneSaver, ImagesInv
<1>9. CASE OpensFile(k) \/ ClosesFile(k)
  <2>1. saver[k] \in {"named", "writing"} /\ UNCHANGED <<img_id, saver_id>>
    BY <1>9 DEF OpensFile, ClosesFile
  <2>2. saver_id[k] = k
    BY <1>2, <1>3, <1>4, <2>1 DEF OneSaver, SavedUpTo
  <2>3. \/ saver'[k] = "writing" /\ images' = [images EXCEPT ![k] = [frame |-> k, whole |-> FALSE]]
        \/ saver'[k] = "done" /\ images' = [images EXCEPT ![k] = [frame |-> k, whole |-> TRUE]]
    BY <1>5, <1>9, <2>2 DEF OpensFile, ClosesFile
  <2>4. SavedUpTo(m)'
    BY <1>2, <1>3, <1>4, <1>6, <2>1, <2>2, <2>3 DEF OneSaver, SavedUpTo
  <2>5. /\ DOMAIN images' = 1 .. MaxImages + 1
        /\ \A i \in 1 .. MaxImages + 1 : i # k => images'[i] = images[i]
    BY <1>5, <2>3
  <2>6. \/ saver'[k] = "writing" /\ images'[k] = [frame |-> k, whole |-> FALSE]
        \/ saver'[k] = "done" /\ images'[k] = [frame |-> k, whole |-> TRUE]
    <3>1. k \in DOMAIN images
      BY <1>3, <1>5
    <3>2. QED
      BY <2>3, <3>1, Zenon
  <2>7. FilesUpTo(m)'
    BY <1>2, <1>3, <1>4, <2>5, <2>6 DEF OneSaver, FilesUpTo
  <2>8. QED
    BY <1>1, <2>4, <2>7 DEF OneSaver, ImagesInv
<1>10. QED
  BY <1>7, <1>8, <1>9 DEF Save

(* The image after the one that is sent exists, so the one sent was saved  *)
(* before it and is complete.                                              *)
LEMMA SendPicturePreserves ==
  ASSUME ImagesInv, SendPicture
  PROVE  /\ ImagesInv'
         /\ ~overlapped => ~terminated' /\ images[web_img_id] = [frame |-> web_img_id, whole |-> TRUE]
<1>1. UNCHANGED <<img_id, saver, saver_id, images, overlapped>>
  BY DEF SendPicture
<1> SUFFICES ASSUME ~overlapped
             PROVE  ImagesInv' /\ ~terminated' /\ images[web_img_id] = [frame |-> web_img_id, whole |-> TRUE]
  BY <1>1 DEF ImagesInv
<1>2. PICK m \in 0 .. MaxImages : OneSaver(m)
  BY DEF ImagesInv
<1>3. MaxImages \in Nat /\ m \in Nat /\ web_img_id \in 1 .. MaxImages
  BY ImagesAssumption DEF Images, ImagesInv
<1>4. images[web_img_id + 1] # NoImage
  BY DEF SendPicture, ImageReady, Exists, NoImage
<1>5. web_img_id < m
  BY <1>2, <1>3, <1>4 DEF OneSaver, FilesUpTo
<1>6. images[web_img_id] = [frame |-> web_img_id, whole |-> TRUE]
  <2>1. web_img_id \in 1 .. MaxImages + 1
    BY <1>3
  <2>2. QED
    BY <1>2, <1>5, <2>1, Zenon DEF OneSaver, FilesUpTo
<1>7. Exists(web_img_id)
  BY <1>3, <1>6 DEF Exists
<1>8. web_img_id' = web_img_id + 1 /\ ~terminated'
  BY <1>7 DEF SendPicture, ImagesInv
<1>9. OneSaver(m)'
  BY <1>1, <1>2 DEF OneSaver, SavedUpTo, FilesUpTo
<1>10. QED
  BY <1>3, <1>5, <1>6, <1>8, <1>9 DEF ImagesInv, Images

(* Every step of the saving threads and the monitor keeps the invariant.   *)
LEMMA ImagesInvIsInductive ==
  ASSUME ImagesInv, [ImagesNext]_imageVars
  PROVE  ImagesInv'
<1>1. CASE \E k \in Images : StartSaver(k)
  BY <1>1, StartSaverPreserves
<1>2. CASE \E k \in Images : Save(k)
  BY <1>2, SavePreserves
<1>3. CASE SendPicture
  BY <1>3, SendPicturePreserves
<1>4. CASE UNCHANGED imageVars
  BY <1>4 DEF imageVars, ImagesInv, OneSaver, SavedUpTo, FilesUpTo
<1>5. QED
  BY <1>1, <1>2, <1>3, <1>4 DEF ImagesNext

(* For any number of frames drawn: as long as no two threads save at once, *)
(* the monitor finds every file, and the pictures the browser gets are     *)
(* complete and in the order drawn.                                        *)
THEOREM ImagesInOrderHolds ==
  ImagesInit /\ [][ImagesNext]_imageVars => ImagesInOrderUnlessOverlapping
<1> DEFINE InOrder ==
      ~overlapped' =>
        /\ ~terminated'
        /\ web_img_id' # web_img_id => images[web_img_id] = [frame |-> web_img_id, whole |-> TRUE]
<1>1. ImagesInv /\ [ImagesNext]_imageVars => [InOrder]_imageVars
  <2> SUFFICES ASSUME ImagesInv, ImagesNext, ~overlapped'
               PROVE  /\ ~terminated'
                      /\ web_img_id' # web_img_id => images[web_img_id] = [frame |-> web_img_id, whole |-> TRUE]
    OBVIOUS
  <2>1. ASSUME NEW k \in Images, StartSaver(k) \/ Save(k) PROVE web_img_id' = web_img_id
    BY <2>1 DEF StartSaver, Save, ReadsId, WritesId, OpensFile, ClosesFile, Moves
  <2>2. CASE SendPicture
    <3>1. ~overlapped
      BY <2>2 DEF SendPicture
    <3>2. QED
      BY <2>2, <3>1, SendPicturePreserves
  <2>3. ~terminated'
    BY ImagesInvIsInductive DEF ImagesInv
  <2>4. QED
    BY <2>1, <2>2, <2>3 DEF ImagesNext
<1>2. QED
  BY <1>1, ImagesInvInitially, ImagesInvIsInductive, PTL DEF ImagesInOrderUnlessOverlapping

-----------------------------------------------------------------------------
(***************************************************************************)
(* The state that encoder and decoder share.                               *)
(***************************************************************************)

(* A state has its three parts and no others.                              *)
IsState(state) ==
  state = [probability_tables |-> state.probability_tables, segmentation |-> state.segmentation,
           filter_adjustments |-> state.filter_adjustments]

(* Adjustments that an encoder makes itself.                               *)
OwnAdjustments == {Absent, {0}}

(* Everyone has a state; without segmentation the encoder's is that of the *)
(* decoder, rasters included; and without borrowed headers nobody's        *)
(* adjustments can differ unseen by the hash.                              *)
CodecInv ==
  /\ encoder = [state |-> encoder.state, references |-> encoder.references,
                has_state |-> encoder.has_state, inter_frame |-> encoder.inter_frame]
  /\ IsState(encoder.state) /\ IsState(decoder.state) /\ IsState(viewer.state)
  /\ ~encoding => viewer = NewDecoder
  /\ encoding /\ ~segmented =>
       /\ encoder.state = decoder.state /\ encoder.references = decoder.references
       /\ encoder.state.segmentation = Absent
  /\ encoding /\ ~borrowed =>
       encoder.state.filter_adjustments \in OwnAdjustments
       /\ viewer.state.filter_adjustments \in OwnAdjustments

(* A frame's header leaves a state.                                        *)
LEMMA AppliedIsState ==
  ASSUME NEW state, NEW header
  PROVE  IsState(Applied(state, header)) /\ IsState(EncoderApplied(state, header))
BY DEF Applied, EncoderApplied, IsState

(* If the encoder goes on from the decoder's state, and neither that nor   *)
(* the header has a segmentation, both come to the same state, and the     *)
(* decoder to the raster the encoder meant.                                *)
LEMMA DecodedFollows ==
  ASSUME NEW header, NEW contents,
         encoder.state = decoder.state, encoder.references = decoder.references,
         encoder.state.segmentation = Absent, header.update_segmentation = Absent
  PROVE  /\ Decoded(decoder, encoder, header, contents)
              = [state |-> EncoderApplied(encoder.state, header),
                 references |-> CopyTo(encoder.references, header, contents)]
         /\ EncoderApplied(encoder.state, header).segmentation = Absent
<1> DEFINE s == decoder.state
           h == header
<1>1. EncoderApplied(s, h) = Applied(s, h) /\ Applied(s, h).segmentation = Absent
  BY DEF EncoderApplied, Applied
<1>2. Tables(Applied(s, h).probability_tables, h)
        = Tables(IF h.key_frame THEN 1 ELSE s.probability_tables, h)
  BY DEF Applied, Tables, NewState
<1>3. QED
  BY <1>1, <1>2 DEF Decoded, Inputs

(* The invariant holds before the first frame.                             *)
LEMMA CodecInvInitially ==
  ASSUME CodecInit
  PROVE  CodecInv
<1>1. IsState(NewState) /\ NewState.segmentation = Absent
  BY DEF IsState, NewState
<1>2. QED
  BY <1>1 DEF CodecInit, CodecInv, NewEncoder, NewDecoder

(* A decoder may have any past before an encoder goes on from it.          *)
LEMMA DecodeForeignPreserves ==
  ASSUME CodecInv, NEW header, NEW contents, DecodeForeign(header, contents)
  PROVE  CodecInv'
<1>1. ~encoding' /\ UNCHANGED <<encoding, encoder, viewer, segmented, borrowed>>
  BY DEF DecodeForeign
<1>2. IsState(decoder.state)'
  BY AppliedIsState DEF DecodeForeign
<1>3. IsState(encoder.state)' /\ IsState(viewer.state)'
  BY <1>1 DEF CodecInv
<1>4. QED
  BY <1>1, <1>2, <1>3 DEF CodecInv

(* An encoder that inherits a state with segmentation counts as segmented. *)
LEMMA MakeEncoderPreserves ==
  ASSUME CodecInv, NEW inherits, MakeEncoder(inherits)
  PROVE  CodecInv'
<1> USE DEF MakeEncoder
<1>1. IsState(NewState) /\ NewState.segmentation = Absent /\ NewState.filter_adjustments = Absent
  BY DEF IsState, NewState
<1>2. viewer' = NewDecoder /\ IsState(viewer.state)' /\ viewer'.state = NewState
  <2>1. viewer' = NewDecoder
    BY DEF CodecInv
  <2>2. QED
    BY <1>1, <2>1 DEF NewDecoder
<1>3. CASE inherits
  <2>1. encoder' = [state |-> decoder.state, references |-> decoder.references,
                    has_state |-> TRUE, inter_frame |-> NoUpdate]
    BY <1>3 DEF NewEncoder
  <2>2. encoder'.state = decoder.state /\ encoder'.references = decoder.references
    BY <2>1
  <2>3. encoder' = [state |-> encoder'.state, references |-> encoder'.references,
                    has_state |-> encoder'.has_state, inter_frame |-> encoder'.inter_frame]
    BY <2>1
  <2>4. IsState(encoder.state)' /\ IsState(decoder.state)'
    BY <1>3, <2>2 DEF CodecInv
  <2>5. encoding' /\ borrowed' /\ decoder' = decoder
        /\ (~segmented' => decoder.state.segmentation = Absent)
    BY <1>3, <2>2
  <2>6. QED
    BY <1>2, <2>2, <2>3, <2>4, <2>5 DEF CodecInv
<1>4. CASE ~inherits
  <2>1. encoder' = NewEncoder /\ decoder' = NewDecoder /\ encoding'
    BY <1>4
  <2>2. encoder'.state = NewState /\ decoder'.state = NewState
        /\ encoder'.references = decoder'.references
    BY <2>1 DEF NewEncoder, NewDecoder
  <2>3. encoder' = [state |-> encoder'.state, references |-> encoder'.references,
                    has_state |-> encoder'.has_state, inter_frame |-> encoder'.inter_frame]
    BY <2>1 DEF NewEncoder
  <2>4. IsState(encoder.state)' /\ IsState(decoder.state)'
    BY <1>1, <2>2
  <2>5. QED
    BY <1>1, <1>2, <2>1, <2>2, <2>3, <2>4 DEF CodecInv, OwnAdjustments
<1>5. QED
  BY <1>3, <1>4

(* A copy of the encoder has the same state.                               *)
LEMMA CopyEncoderPreserves ==
  ASSUME CodecInv, CopyEncoder
  PROVE  CodecInv'
<1>1. encoder' = [encoder EXCEPT !.inter_frame = NoUpdate]
      /\ UNCHANGED <<encoding, decoder, viewer, segmented, borrowed>>
  BY DEF CopyEncoder
<1>2. encoder' = [state |-> encoder.state, references |-> encoder.references,
                  has_state |-> encoder.has_state, inter_frame |-> NoUpdate]
  BY <1>1 DEF CodecInv
<1>3. encoder'.state = encoder.state /\ encoder'.references = encoder.references
  BY <1>2
<1>4. encoder' = [state |-> encoder'.state, references |-> encoder'.references,
                  has_state |-> encoder'.has_state, inter_frame |-> encoder'.inter_frame]
  BY <1>2
<1>5. IsState(encoder.state)' /\ IsState(decoder.state)' /\ IsState(viewer.state)'
  BY <1>1, <1>3 DEF CodecInv
<1>6. QED
  BY <1>1, <1>3, <1>4, <1>5 DEF CodecInv

(* A frame is written, and decoded.                                        *)
LEMMA WriteFramePreserves ==
  ASSUME CodecInv, NEW header, NEW contents, NEW inter_frame, NEW missed,
         WriteFrame(header, contents, inter_frame, missed),
         ~segmented' => ~segmented /\ header.update_segmentation = Absent,
         ~borrowed' => ~borrowed /\ header.mode_lf_adjustments = {{0}}
  PROVE  CodecInv'
<1> USE DEF WriteFrame
<1>1. encoder' = [state |-> EncoderApplied(encoder.state, header), has_state |-> TRUE,
                  references |-> CopyTo(encoder.references, header, contents),
                  inter_frame |-> inter_frame]
  OBVIOUS
<1>2. /\ encoder'.state = EncoderApplied(encoder.state, header)
      /\ encoder'.references = CopyTo(encoder.references, header, contents)
      /\ encoder' = [state |-> encoder'.state, references |-> encoder'.references,
                     has_state |-> encoder'.has_state, inter_frame |-> encoder'.inter_frame]
  BY <1>1
<1>3. IsState(encoder.state)'
  BY <1>2, AppliedIsState
<1>4. IsState(decoder.state)'
  <2>1. decoder'.state = Applied(decoder.state, header)
    BY DEF Decoded
  <2>2. QED
    BY <2>1, AppliedIsState
<1>5. \/ viewer' = viewer
      \/ ~borrowed' /\ viewer'.state = Applied(viewer.state, header)
  BY DEF Decoded
<1>6. IsState(viewer.state)'
  BY <1>5, AppliedIsState DEF CodecInv
<1>7. ASSUME ~segmented'
      PROVE  /\ encoder'.state = decoder'.state /\ encoder'.references = decoder'.references
             /\ encoder'.state.segmentation = Absent
  <2>1. /\ encoder.state = decoder.state /\ encoder.references = decoder.references
        /\ encoder.state.segmentation = Absent /\ header.update_segmentation = Absent
    BY <1>7 DEF CodecInv
  <2>2. decoder' = [state |-> EncoderApplied(encoder.state, header),
                    references |-> CopyTo(encoder.references, header, contents)]
        /\ EncoderApplied(encoder.state, header).segmentation = Absent
    <3>1. decoder' = Decoded(decoder, encoder, header, contents)
      OBVIOUS
    <3>2. QED
      BY <2>1, <3>1, DecodedFollows
  <2>3. QED
    BY <1>2, <2>2
<1>8. ASSUME ~borrowed'
      PROVE  encoder'.state.filter_adjustments \in OwnAdjustments
             /\ viewer'.state.filter_adjustments \in OwnAdjustments
  <2>1. header.mode_lf_adjustments = {{0}} /\ viewer.state.filter_adjustments \in OwnAdjustments
    BY <1>8 DEF CodecInv
  <2>2. \A old : UpdatedAdjustments(old, header) = {0}
    <3>1. {{0}} # Absent /\ {{0}} # {Absent} /\ UNION {{0}} = {0}
      BY DEF Absent
    <3>2. QED
      BY <2>1, <3>1 DEF UpdatedAdjustments
  <2>3. \A state : Applied(state, header).filter_adjustments = {0}
                   /\ EncoderApplied(state, header).filter_adjustments = {0}
    BY <2>2 DEF Applied, EncoderApplied
  <2>4. QED
    BY <1>2, <1>5, <2>1, <2>3 DEF OwnAdjustments
<1>9. encoding'
  OBVIOUS
<1>10. QED
  BY <1>2, <1>3, <1>4, <1>6, <1>7, <1>8, <1>9 DEF CodecInv

(* Every operation of the encoder and the decoders keeps the invariant.    *)
LEMMA CodecInvIsInductive ==
  ASSUME CodecInv, [CodecNext]_codecVars
  PROVE  CodecInv'
<1>1. ASSUME NEW header \in Headers, DecodeForeign(header, 1) PROVE CodecInv'
  BY <1>1, DecodeForeignPreserves
<1>2. ASSUME NEW header \in Headers, Rewrite(header, 1) PROVE CodecInv'
  <2>1. WriteFrame(header, 1, encoder.inter_frame, FALSE) /\ borrowed'
        /\ (~segmented' => ~segmented /\ header.update_segmentation = Absent)
    BY <1>2 DEF Rewrite
  <2>2. QED
    BY <2>1, WriteFramePreserves
<1>3. ASSUME NEW inherits \in BOOLEAN, MakeEncoder(inherits) PROVE CodecInv'
  BY <1>3, MakeEncoderPreserves
<1>4. CASE CopyEncoder
  BY <1>4, CopyEncoderPreserves
<1>5. ASSUME NEW one, NEW two, NEW contents, NEW missed, Encode(one, two, contents, missed)
      PROVE  CodecInv'
  <2>1. PICK key, update, frame :
          LET header == WithReferences(
                [key_frame |-> key, refresh_entropy_probs |-> TRUE, token_prob_update |-> update,
                 mode_lf_adjustments |-> {{0}}, update_segmentation |-> Absent], TRUE, FALSE, 0)
          IN  WriteFrame(header, contents, frame, missed)
    BY <1>5 DEF Encode
  <2> DEFINE header == WithReferences(
               [key_frame |-> key, refresh_entropy_probs |-> TRUE, token_prob_update |-> update,
                mode_lf_adjustments |-> {{0}}, update_segmentation |-> Absent], TRUE, FALSE, 0)
  <2>2. WriteFrame(header, contents, frame, missed)
    BY <2>1
  <2>3. header.mode_lf_adjustments = {{0}} /\ header.update_segmentation = Absent
    BY DEF WithReferences
  <2>4. UNCHANGED <<segmented, borrowed>>
    BY <1>5 DEF Encode
  <2> HIDE DEF header
  <2>5. ~segmented' => ~segmented /\ header.update_segmentation = Absent
    BY <2>3, <2>4
  <2>6. QED
    BY <2>2, <2>3, <2>4, <2>5, WriteFramePreserves
<1>6. CASE UNCHANGED codecVars
  BY <1>6 DEF codecVars, CodecInv
<1>7. QED
  BY <1>1, <1>2, <1>3, <1>4, <1>5, <1>6 DEF CodecNext

(* Without segmentation the encoder's idea of the decoder's state stays    *)
(* that state, whatever updates its reused frames carry, and a viewer that *)
(* has the encoder's hash has its state unless it met borrowed headers.    *)
THEOREM EncoderFollowsDecoderHolds == CodecInit /\ [][CodecNext]_codecVars => []EncoderFollowsDecoder
<1>1. CodecInv => EncoderFollowsDecoder
  <2> SUFFICES ASSUME CodecInv, encoding, ~segmented, ~borrowed, Hash(viewer) = Hash(encoder)
               PROVE  viewer.state = encoder.state
    BY DEF CodecInv, EncoderFollowsDecoder
  <2> DEFINE v == viewer.state
             e == encoder.state
  <2>1. /\ v.probability_tables = e.probability_tables /\ v.segmentation = e.segmentation
        /\ (v.filter_adjustments # Absent) = (e.filter_adjustments # Absent)
    BY DEF Hash
  <2>2. v.filter_adjustments \in OwnAdjustments /\ e.filter_adjustments \in OwnAdjustments
    BY DEF CodecInv
  <2>3. v.filter_adjustments = e.filter_adjustments
    BY <2>1, <2>2 DEF OwnAdjustments
  <2>4. QED
    BY <2>1, <2>3 DEF CodecInv, IsState
<1>2. QED
  BY <1>1, CodecInvInitially, CodecInvIsInductive, PTL

-----------------------------------------------------------------------------
(***************************************************************************)
(* IvfFile.                                                                *)
(***************************************************************************)

(* Where a frame ends.                                                     *)
EndOf(frame) == frame.start + frame_header_len + frame.size

LastFrame == appended[Len(appended)]

(* The frames lie one after the other behind the header.  That a frame lies*)
(* before every later one follows by induction from the next one, which    *)
(* the provers cannot do: it is part of the invariant.                     *)
FramesInOrder ==
  /\ appended # << >> => appended[1].start = supported_header_len
  /\ \A i \in 1 .. Len(appended) - 1 : appended[i + 1].start = EndOf(appended[i])
  /\ \A i, j \in 1 .. Len(appended) : i < j => EndOf(appended[i]) <= appended[j].start

(* What the writer has written, by what it does next.                      *)
WrittenSoFar ==
  /\ writer = "header" => appended = << >> /\ file_size_ = 0 /\ file_octets < supported_header_len
  /\ writer = "idle" =>
       /\ file_octets = file_size_ /\ header_count = Len(appended)
       /\ file_size_ = IF appended = << >> THEN supported_header_len ELSE EndOf(LastFrame)
  /\ writer \in {"frame_header", "frame", "count"} => appended # << >> /\ header_count = Len(appended) - 1
  /\ writer = "frame_header" =>
       file_size_ = LastFrame.start /\ file_size_ <= file_octets /\ file_octets < file_size_ + frame_header_len
  /\ writer = "frame" =>
       /\ file_size_ = LastFrame.start + frame_header_len
       /\ file_size_ <= file_octets /\ file_octets < file_size_ + LastFrame.size
  /\ writer = "count" => file_octets = file_size_ /\ file_size_ = EndOf(LastFrame)

(* The frames counted in the header are whole.                             *)
CountedAreWhole ==
  /\ header_count >= Len(appended) - 1
  /\ \A i \in 1 .. header_count : EndOf(appended[i]) <= file_octets

(* What the reader has mapped, read and found.                             *)
ReadSoFar ==
  /\ \A i \in 1 .. counted : EndOf(appended[i]) <= region
  /\ reader \in {"closed", "header"} => frame_count_ = 0
  /\ reader \in {"index", "open"} => counted <= frame_count_
  /\ Len(frame_index_) <= frame_count_
  /\ \A i \in 1 .. Len(frame_index_) :
       frame_index_[i] = <<appended[i].start + frame_header_len, appended[i].size>>
  /\ reader = "open" => Len(frame_index_) = frame_count_
  /\ reader = "invalid" => region < supported_header_len \/ Len(frame_index_) >= counted

IvfInv == IvfTypeOK /\ FramesInOrder /\ WrittenSoFar /\ CountedAreWhole /\ ReadSoFar

(* The invariant holds at the start.                                       *)
LEMMA IvfStarts == IvfInit => IvfInv
<1> SUFFICES ASSUME IvfInit PROVE IvfInv
  OBVIOUS
<1>1. appended = << >> /\ Len(appended) = 0 /\ frame_index_ = << >> /\ Len(frame_index_) = 0
  BY DEF IvfInit
<1>2. appended \in Seq(FrameInFile) /\ frame_index_ \in Seq(Nat \X IvfSizes)
  BY <1>1
<1>3. IvfTypeOK
  BY <1>1, <1>2, IvfAssumption DEF IvfInit, IvfTypeOK
<1>4. FramesInOrder /\ WrittenSoFar /\ CountedAreWhole /\ ReadSoFar
  BY <1>1 DEF IvfInit, FramesInOrder, WrittenSoFar, CountedAreWhole, ReadSoFar, supported_header_len
<1>5. QED
  BY <1>3, <1>4 DEF IvfInv

(* What the frames and the octets of the file are.                         *)
LEMMA FramesTyped ==
  ASSUME IvfTypeOK
  PROVE  /\ \A i \in 1 .. Len(appended) :
              appended[i].start \in Nat /\ appended[i].size \in Nat /\ appended[i].size > 0
              /\ appended[i].size \in IvfSizes
         /\ Len(appended) \in Nat /\ Len(frame_index_) \in Nat
         /\ appended # << >> <=> Len(appended) > 0
<1>1. \A i \in 1 .. Len(appended) : appended[i] \in FrameInFile
  BY DEF IvfTypeOK
<1>2. \A f \in FrameInFile : f.start \in Nat /\ f.size \in IvfSizes /\ f.size \in Nat /\ f.size > 0
  <2>1. \A size \in IvfSizes : size \in Nat /\ size > 0
    BY IvfAssumption
  <2>2. \A f \in FrameInFile : f.start \in Nat /\ f.size \in IvfSizes
    BY DEF FrameInFile
  <2>3. QED
    BY <2>1, <2>2
<1>3. QED
  BY <1>1, <1>2 DEF IvfTypeOK

(* While the writer only adds octets to the file, or counts what it has    *)
(* put there, the frames stay where they are, and so does what the reader  *)
(* knows.                                                                  *)
LEMMA FramesStay ==
  ASSUME IvfInv, UNCHANGED appended, UNCHANGED readerVars,
         file_octets' \in Nat, file_octets' >= file_octets, file_size_' \in Nat,
         header_count' \in header_count .. Len(appended),
         writer' \in {"header", "idle", "frame_header", "frame", "count", "dead"}
  PROVE  IvfTypeOK' /\ FramesInOrder' /\ ReadSoFar'
<1>1. IvfTypeOK'
  BY DEF IvfInv, IvfTypeOK, readerVars
<1>2. FramesInOrder'
  BY DEF IvfInv, FramesInOrder, EndOf
<1>3. ReadSoFar'
  BY DEF IvfInv, ReadSoFar, EndOf, readerVars
<1>4. QED
  BY <1>1, <1>2, <1>3

(* The frames counted stay whole while octets are added.                   *)
LEMMA CountedStayWhole ==
  ASSUME IvfInv, UNCHANGED <<appended, header_count>>, file_octets' \in Nat, file_octets' >= file_octets
  PROVE  CountedAreWhole'
<1>1. \A i \in 1 .. header_count : EndOf(appended[i]) \in Nat
  BY FramesTyped DEF IvfInv, IvfTypeOK, EndOf, frame_header_len
<1>2. \A i \in 1 .. header_count : EndOf(appended[i])' <= file_octets'
  BY <1>1 DEF IvfInv, IvfTypeOK, CountedAreWhole, EndOf
<1>3. QED
  BY <1>2 DEF IvfInv, CountedAreWhole

(* Octets written to the file, some of those asked for or all.             *)
LEMMA OctetsAdded ==
  ASSUME IvfInv, NEW octets \in Nat, NEW this, NEW next,
         next \in {"header", "idle", "frame_header", "frame", "count", "dead"},
         WritesAll(octets, this, next), UNCHANGED readerVars
  PROVE  /\ IvfTypeOK' /\ FramesInOrder' /\ ReadSoFar' /\ CountedAreWhole'
         /\ writer = this /\ UNCHANGED <<appended, header_count>>
         /\ \/ writer' = writer /\ file_size_' = file_size_
               /\ file_octets < file_octets' /\ file_octets' < file_size_ + octets
            \/ writer' = next /\ file_size_' = file_size_ + octets /\ file_octets' = file_size_ + octets
<1>1. /\ file_octets' \in Nat /\ file_octets' > file_octets /\ file_octets' <= file_size_ + octets
      /\ UNCHANGED <<appended, header_count>> /\ writer = this
  BY DEF IvfInv, IvfTypeOK, WritesAll
<1>2. \/ writer' = writer /\ file_size_' = file_size_
         /\ file_octets < file_octets' /\ file_octets' < file_size_ + octets
      \/ writer' = next /\ file_size_' = file_size_ + octets /\ file_octets' = file_size_ + octets
  BY <1>1 DEF IvfInv, IvfTypeOK, WritesAll
<1>3. file_size_' \in Nat
  BY <1>2 DEF IvfInv, IvfTypeOK
<1>4. writer' \in {"header", "idle", "frame_header", "frame", "count", "dead"}
  BY <1>2 DEF IvfInv, IvfTypeOK
<1>5. header_count' \in header_count .. Len(appended)
  BY <1>1 DEF IvfInv, IvfTypeOK
<1>6. UNCHANGED appended /\ UNCHANGED header_count /\ file_octets' >= file_octets
  BY <1>1 DEF IvfInv, IvfTypeOK
<1>7. IvfTypeOK' /\ FramesInOrder' /\ ReadSoFar' /\ CountedAreWhole'
  BY <1>1, <1>3, <1>4, <1>5, <1>6, FramesStay, CountedStayWhole
<1>8. QED
  BY <1>1, <1>2, <1>7

(* The constructor of IVFWriter keeps the invariant.                       *)
LEMMA WriteFileHeaderKeeps ==
  ASSUME IvfInv, WriteFileHeader, UNCHANGED readerVars
  PROVE  IvfInv'
<1>1. WritesAll(supported_header_len, "header", "idle") /\ supported_header_len \in Nat
  BY DEF WriteFileHeader, supported_header_len
<1>2. /\ IvfTypeOK' /\ FramesInOrder' /\ ReadSoFar' /\ CountedAreWhole'
      /\ writer = "header" /\ UNCHANGED <<appended, header_count>>
      /\ \/ writer' = writer /\ file_size_' = file_size_
            /\ file_octets < file_octets' /\ file_octets' < file_size_ + supported_header_len
         \/ writer' = "idle" /\ file_size_' = file_size_ + supported_header_len
            /\ file_octets' = file_size_ + supported_header_len
  BY <1>1, OctetsAdded
<1>3. appended = << >> /\ Len(appended) = 0 /\ file_size_ = 0 /\ header_count = 0
  BY <1>2 DEF IvfInv, WrittenSoFar, IvfTypeOK
<1>4. WrittenSoFar'
  BY <1>2, <1>3 DEF WrittenSoFar, supported_header_len
<1>5. QED
  BY <1>2, <1>4 DEF IvfInv

(* append_frame keeps it while it writes the header of the frame, and      *)
LEMMA WriteFrameHeaderKeeps ==
  ASSUME IvfInv, WriteFrameHeader, UNCHANGED readerVars
  PROVE  IvfInv'
<1>1. WritesAll(frame_header_len, "frame_header", "frame") /\ frame_header_len \in Nat
  BY DEF WriteFrameHeader, frame_header_len
<1>2. /\ IvfTypeOK' /\ FramesInOrder' /\ ReadSoFar' /\ CountedAreWhole'
      /\ writer = "frame_header" /\ UNCHANGED <<appended, header_count>>
      /\ \/ writer' = writer /\ file_size_' = file_size_
            /\ file_octets < file_octets' /\ file_octets' < file_size_ + frame_header_len
         \/ writer' = "frame" /\ file_size_' = file_size_ + frame_header_len
            /\ file_octets' = file_size_ + frame_header_len
  BY <1>1, OctetsAdded
<1>3. /\ appended # << >> /\ header_count = Len(appended) - 1 /\ file_size_ = LastFrame.start
      /\ file_size_ <= file_octets
  BY <1>2 DEF IvfInv, WrittenSoFar
<1>4. LastFrame' = LastFrame /\ LastFrame.size \in Nat /\ LastFrame.size > 0 /\ LastFrame.start \in Nat
  BY <1>2, <1>3, FramesTyped DEF LastFrame, IvfInv
<1>5. file_size_ \in Nat /\ file_octets \in Nat /\ file_octets' \in Nat
  BY <1>2 DEF IvfTypeOK, IvfInv
<1>6. WrittenSoFar'
  BY <1>2, <1>3, <1>4, <1>5 DEF WrittenSoFar, frame_header_len
<1>7. QED
  BY <1>2, <1>6 DEF IvfInv

(* the frame.                                                              *)
LEMMA WriteFrameOctetsKeeps ==
  ASSUME IvfInv, WriteFrameOctets, UNCHANGED readerVars
  PROVE  IvfInv'
<1>1. WritesAll(LastFrame.size, "frame", "count") /\ writer = "frame"
  BY DEF WriteFrameOctets, LastFrame
<1>2. /\ appended # << >> /\ header_count = Len(appended) - 1
      /\ file_size_ = LastFrame.start + frame_header_len /\ file_size_ <= file_octets
  BY <1>1 DEF IvfInv, WrittenSoFar
<1>3. LastFrame.size \in Nat /\ LastFrame.size > 0 /\ LastFrame.start \in Nat
  BY <1>2, FramesTyped DEF LastFrame, IvfInv
<1>4. /\ IvfTypeOK' /\ FramesInOrder' /\ ReadSoFar' /\ CountedAreWhole'
      /\ UNCHANGED <<appended, header_count>>
      /\ \/ writer' = writer /\ file_size_' = file_size_
            /\ file_octets < file_octets' /\ file_octets' < file_size_ + LastFrame.size
         \/ writer' = "count" /\ file_size_' = file_size_ + LastFrame.size
            /\ file_octets' = file_size_ + LastFrame.size
  BY <1>1, <1>3, OctetsAdded
<1>5. LastFrame' = LastFrame
  BY <1>4 DEF LastFrame
<1>6. file_size_ \in Nat /\ file_octets \in Nat /\ file_octets' \in Nat
  BY <1>4 DEF IvfTypeOK, IvfInv
<1>7. WrittenSoFar'
  BY <1>1, <1>2, <1>3, <1>4, <1>5, <1>6 DEF WrittenSoFar, frame_header_len, EndOf
<1>8. QED
  BY <1>4, <1>7 DEF IvfInv

(* The frame is counted when it is whole.                                  *)
LEMMA WriteCountKeeps ==
  ASSUME IvfInv, WriteCount, UNCHANGED readerVars
  PROVE  IvfInv'
<1>1. /\ writer = "count" /\ header_count' = Len(appended) /\ writer' = "idle"
      /\ UNCHANGED <<appended, file_size_, file_octets>>
  BY DEF WriteCount
<1>2. /\ appended # << >> /\ header_count = Len(appended) - 1
      /\ file_octets = file_size_ /\ file_size_ = EndOf(LastFrame)
  BY <1>1 DEF IvfInv, WrittenSoFar
<1>3. Len(appended) \in Nat /\ Len(appended) > 0 /\ file_octets \in Nat /\ file_size_ \in Nat
  BY <1>2, FramesTyped DEF IvfInv, IvfTypeOK
<1>4. IvfTypeOK' /\ FramesInOrder' /\ ReadSoFar'
  BY <1>1, <1>2, <1>3, FramesStay
<1>5. CountedAreWhole'
  <2>1. ASSUME NEW i \in 1 .. Len(appended)
        PROVE  EndOf(appended[i]) <= file_octets
    <3>1. CASE i = Len(appended)
      BY <3>1, <1>2, <1>3 DEF LastFrame
    <3>2. CASE i # Len(appended)
      BY <3>2, <1>2, <1>3 DEF IvfInv, CountedAreWhole
    <3>3. QED
      BY <3>1, <3>2
  <2>2. \A i \in 1 .. header_count' : EndOf(appended[i])' <= file_octets'
    BY <1>1, <2>1 DEF EndOf
  <2>3. QED
    BY <1>1, <1>3, <2>2 DEF CountedAreWhole
<1>6. WrittenSoFar'
  BY <1>1, <1>2, <1>3 DEF WrittenSoFar, LastFrame, EndOf
<1>7. QED
  BY <1>4, <1>5, <1>6 DEF IvfInv

(* The writer dies where it is.                                            *)
LEMMA DieKeeps ==
  ASSUME IvfInv, Die, UNCHANGED readerVars
  PROVE  IvfInv'
<1>1. writer' = "dead" /\ UNCHANGED <<appended, file_size_, file_octets, header_count>>
  BY DEF Die
<1>2. /\ file_octets' \in Nat /\ file_octets' >= file_octets /\ file_size_' \in Nat
      /\ header_count' \in header_count .. Len(appended)
  BY <1>1 DEF IvfInv, IvfTypeOK
<1>3. IvfTypeOK' /\ FramesInOrder' /\ ReadSoFar'
  BY <1>1, <1>2, FramesStay
<1>4. CountedAreWhole'
  BY <1>1, <1>2, CountedStayWhole
<1>5. WrittenSoFar'
  BY <1>1 DEF WrittenSoFar
<1>6. QED
  BY <1>3, <1>4, <1>5 DEF IvfInv

(* append_frame begins a frame where the last one ends.                    *)
LEMMA AppendFrameKeeps ==
  ASSUME IvfInv, NEW size \in IvfSizes, AppendFrame(size), UNCHANGED readerVars
  PROVE  IvfInv'
<1> DEFINE frame == [start |-> file_size_, size |-> size]
<1>1. /\ writer = "idle" /\ Len(appended) < MaxIvfFrames /\ appended' = Append(appended, frame)
      /\ writer' = "frame_header" /\ UNCHANGED <<file_size_, file_octets, header_count>>
  BY DEF AppendFrame
<1>2. /\ file_octets = file_size_ /\ header_count = Len(appended)
      /\ file_size_ = IF appended = << >> THEN supported_header_len ELSE EndOf(LastFrame)
  BY <1>1 DEF IvfInv, WrittenSoFar
<1>3. /\ frame \in FrameInFile /\ frame.start = file_size_ /\ frame.size = size
      /\ size \in Nat /\ size > 0 /\ file_size_ \in Nat
  BY IvfAssumption DEF IvfInv, IvfTypeOK, FrameInFile
<1> HIDE DEF frame
<1>4. /\ appended' \in Seq(FrameInFile) /\ Len(appended') = Len(appended) + 1
      /\ \A i \in 1 .. Len(appended) : appended'[i] = appended[i]
      /\ appended'[Len(appended) + 1] = frame
      /\ Len(appended) \in Nat /\ appended \in Seq(FrameInFile)
  BY <1>1, <1>3 DEF IvfInv, IvfTypeOK
<1>5. IvfTypeOK'
  <2>1. UNCHANGED <<reader, region, frame_count_, frame_index_, counted>>
    BY DEF readerVars
  <2>2. Len(appended') <= MaxIvfFrames
    BY <1>1, <1>4, IvfAssumption
  <2>3. header_count' \in 0 .. Len(appended')
    BY <1>1, <1>2, <1>4
  <2>4. QED
    BY <2>1, <2>2, <2>3, <1>1, <1>4 DEF IvfInv, IvfTypeOK
<1>6. \A i \in 1 .. Len(appended) : EndOf(appended[i]) <= file_size_
  BY <1>2 DEF IvfInv, CountedAreWhole
<1>7. FramesInOrder'
  <2>1. appended'[1].start = supported_header_len
    <3>1. CASE appended = << >>
      BY <3>1, <1>2, <1>3, <1>4
    <3>2. CASE appended # << >>
      BY <3>2, <1>4 DEF IvfInv, FramesInOrder
    <3>3. QED
      BY <3>1, <3>2
  <2>2. ASSUME NEW i \in 1 .. Len(appended') - 1
        PROVE  appended'[i + 1].start = EndOf(appended'[i])
    <3>1. CASE i = Len(appended)
      <4>1. appended # << >> /\ LastFrame = appended[i] /\ appended'[i] = appended[i]
        BY <3>1, <1>4 DEF LastFrame
      <4>2. QED
        BY <4>1, <3>1, <1>2, <1>3, <1>4
    <3>2. CASE i # Len(appended)
      <4>1. i \in 1 .. Len(appended) - 1 /\ i \in 1 .. Len(appended) /\ i + 1 \in 1 .. Len(appended)
        BY <3>2, <1>4
      <4>2. QED
        BY <4>1, <1>4 DEF IvfInv, FramesInOrder
    <3>3. QED
      BY <3>1, <3>2
  <2>3. ASSUME NEW i \in 1 .. Len(appended'), NEW j \in 1 .. Len(appended'), i < j
        PROVE  EndOf(appended'[i]) <= appended'[j].start
    <3>1. i \in 1 .. Len(appended) /\ appended'[i] = appended[i]
      BY <2>3, <1>4
    <3>2. CASE j = Len(appended) + 1
      BY <3>1, <3>2, <1>3, <1>4, <1>6
    <3>3. CASE j # Len(appended) + 1
      <4>1. j \in 1 .. Len(appended) /\ appended'[j] = appended[j]
        BY <3>3, <1>4
      <4>2. QED
        BY <4>1, <3>1, <2>3 DEF IvfInv, FramesInOrder
    <3>4. QED
      BY <3>2, <3>3
  <2>4. QED
    BY <2>1, <2>2, <2>3 DEF FramesInOrder, EndOf
<1>8. WrittenSoFar'
  <2>1. appended' # << >> /\ LastFrame' = frame
    BY <1>4 DEF LastFrame
  <2>2. QED
    BY <2>1, <1>1, <1>2, <1>3, <1>4 DEF WrittenSoFar, frame_header_len
<1>9. CountedAreWhole'
  <2>1. \A i \in 1 .. header_count : EndOf(appended'[i]) <= file_octets
    BY <1>2, <1>4, <1>6
  <2>2. QED
    BY <2>1, <1>1, <1>2, <1>4 DEF CountedAreWhole, EndOf
<1>10. ReadSoFar'
  <2>1. UNCHANGED <<reader, region, frame_count_, frame_index_, counted>>
    BY DEF readerVars
  <2>2. /\ counted \in Nat /\ counted <= Len(appended)
        /\ Len(frame_index_) \in Nat /\ Len(frame_index_) <= Len(appended)
    BY DEF IvfInv, IvfTypeOK, ReadSoFar
  <2>3. \A i \in 1 .. counted : EndOf(appended'[i]) <= region
    <3>1. \A i \in 1 .. counted : appended'[i] = appended[i]
      BY <2>2, <1>4
    <3>2. QED
      BY <3>1 DEF IvfInv, ReadSoFar
  <2>4. \A i \in 1 .. Len(frame_index_) :
          frame_index_[i] = <<appended'[i].start + frame_header_len, appended'[i].size>>
    <3>1. \A i \in 1 .. Len(frame_index_) : appended'[i] = appended[i]
      BY <2>2, <1>4
    <3>2. QED
      BY <3>1, Zenon DEF IvfInv, ReadSoFar
  <2>5. QED
    BY <2>1, <2>3, <2>4 DEF IvfInv, ReadSoFar, EndOf
<1>11. QED
  BY <1>5, <1>7, <1>8, <1>9, <1>10 DEF IvfInv

(* Every step of the writer keeps the invariant.                           *)
LEMMA WritesKeeps ==
  ASSUME IvfInv, Writes
  PROVE  IvfInv'
BY WriteFileHeaderKeeps, AppendFrameKeeps, WriteFrameHeaderKeeps, WriteFrameOctetsKeeps, WriteCountKeeps, DieKeeps
   DEF Writes

(* A reader changes nothing that is the writer's.                          *)
LEMMA WriterStays ==
  ASSUME IvfInv, UNCHANGED writerVars
  PROVE  FramesInOrder' /\ WrittenSoFar' /\ CountedAreWhole'
<1>1. FramesInOrder'
  BY DEF IvfInv, FramesInOrder, EndOf, writerVars
<1>2. WrittenSoFar'
  BY DEF IvfInv, WrittenSoFar, LastFrame, EndOf, writerVars
<1>3. CountedAreWhole'
  BY DEF IvfInv, CountedAreWhole, EndOf, writerVars
<1>4. QED
  BY <1>1, <1>2, <1>3

(* Opening the file, when the frames counted in its header are whole.      *)
LEMMA OpenFileKeeps ==
  ASSUME IvfInv, OpenFile, UNCHANGED writerVars
  PROVE  IvfInv'
<1>1. /\ reader = "closed" /\ reader' = "header" /\ region' = file_octets /\ counted' = header_count
      /\ UNCHANGED <<frame_count_, frame_index_, appended, file_octets, header_count>>
  BY DEF OpenFile, writerVars
<1>2. IvfTypeOK'
  BY <1>1 DEF IvfInv, IvfTypeOK, writerVars
<1>3. \A i \in 1 .. counted' : EndOf(appended[i])' <= region'
  BY <1>1 DEF IvfInv, CountedAreWhole, EndOf
<1>4. ReadSoFar'
  BY <1>1, <1>3 DEF IvfInv, ReadSoFar
<1>5. QED
  BY <1>2, <1>4, WriterStays DEF IvfInv

(* Reading the header: the count may have grown since.                     *)
LEMMA ReadFileHeaderKeeps ==
  ASSUME IvfInv, ReadFileHeader, UNCHANGED writerVars
  PROVE  IvfInv'
<1>1. /\ reader = "header" /\ frame_count_ = 0 /\ Len(frame_index_) = 0
      /\ UNCHANGED <<region, frame_index_, counted, appended, file_octets, header_count>>
      /\ \/ region < supported_header_len /\ reader' = "invalid" /\ frame_count_' = frame_count_
         \/ reader' = "index" /\ frame_count_' = header_count
  <2>1. reader = "header" /\ frame_count_ = 0 /\ Len(frame_index_) <= 0
    BY DEF IvfInv, ReadSoFar, ReadFileHeader
  <2>2. Len(frame_index_) = 0
    BY <2>1, FramesTyped DEF IvfInv
  <2>3. QED
    BY <2>1, <2>2 DEF ReadFileHeader, writerVars
<1>2. IvfTypeOK'
  BY <1>1 DEF IvfInv, IvfTypeOK, writerVars
<1>3. counted <= header_count /\ header_count \in Nat
  BY DEF IvfInv, IvfTypeOK
<1>4. ReadSoFar'
  BY <1>1, <1>3 DEF IvfInv, ReadSoFar, EndOf
<1>5. QED
  BY <1>2, <1>4, WriterStays DEF IvfInv

(* The reader expects the next frame where it is, and finds its length.    *)
LEMMA FindsFrame ==
  ASSUME IvfInv, Len(frame_index_) < frame_count_
  PROVE  LET next == Len(frame_index_) + 1
         IN  /\ next \in 1 .. Len(appended)
             /\ position = appended[next].start
             /\ LengthAt(position) = appended[next].size
<1> DEFINE next == Len(frame_index_) + 1
<1>1. next \in 1 .. Len(appended) /\ Len(frame_index_) \in Nat /\ Len(appended) \in Nat
  BY FramesTyped DEF IvfInv, IvfTypeOK
<1>2. position = appended[next].start
  <2>1. CASE frame_index_ = << >>
    <3>1. next = 1 /\ appended # << >>
      BY <2>1, <1>1, FramesTyped DEF IvfInv
    <3>2. QED
      BY <2>1, <3>1 DEF IvfInv, FramesInOrder, position
  <2>2. CASE frame_index_ # << >>
    <3> DEFINE last == Len(frame_index_)
    <3>1. last \in 1 .. Len(frame_index_) /\ last \in 1 .. Len(appended) - 1 /\ last \in 1 .. Len(appended)
      BY <2>2, <1>1 DEF IvfInv, IvfTypeOK
    <3>2. frame_index_[last] = <<appended[last].start + frame_header_len, appended[last].size>>
      BY <3>1 DEF IvfInv, ReadSoFar
    <3>3. position = appended[last].start + frame_header_len + appended[last].size
      BY <2>2, <3>2 DEF position
    <3>4. appended[last + 1].start = EndOf(appended[last])
      BY <3>1 DEF IvfInv, FramesInOrder
    <3>5. QED
      BY <3>3, <3>4 DEF EndOf
  <2>3. QED
    BY <2>1, <2>2
<1>3. ASSUME NEW i \in 1 .. Len(appended), appended[i].start = appended[next].start
      PROVE  i = next
  <2>1. /\ \A k \in 1 .. Len(appended) : appended[k].start < EndOf(appended[k])
        /\ \A k \in 1 .. Len(appended) : appended[k].start \in Nat /\ EndOf(appended[k]) \in Nat
    BY FramesTyped DEF IvfInv, EndOf, frame_header_len
  <2>2. ~(i < next) /\ ~(next < i)
    BY <2>1, <1>1, <1>3 DEF IvfInv, FramesInOrder
  <2>3. QED
    BY <2>2, <1>1
<1>4. DOMAIN appended = 1 .. Len(appended)
  BY DEF IvfInv, IvfTypeOK
<1>5. LengthAt(position) = appended[next].size
  <2> DEFINE found == CHOOSE i \in DOMAIN appended : appended[i].start = position
  <2>1. next \in DOMAIN appended /\ appended[next].start = position
    BY <1>1, <1>2, <1>4
  <2>2. found \in DOMAIN appended /\ appended[found].start = position
    BY <2>1, Zenon
  <2>3. found = next
    BY <2>2, <1>2, <1>3, <1>4
  <2>4. LengthAt(position) = appended[found].size
    BY DEF LengthAt
  <2>5. QED
    BY <2>3, <2>4
<1>6. QED
  BY <1>1, <1>2, <1>5

(* Indexing a frame that is in the region, or failing where it should be.  *)
LEMMA IndexFrameKeeps ==
  ASSUME IvfInv, IndexFrame, UNCHANGED writerVars
  PROVE  IvfInv'
<1> DEFINE next == Len(frame_index_) + 1
           entry == <<appended[next].start + frame_header_len, appended[next].size>>
<1>1. /\ reader = "index" /\ Len(frame_index_) < frame_count_
      /\ UNCHANGED <<region, frame_count_, counted, appended, file_octets, header_count>>
  BY DEF IndexFrame, writerVars
<1>2. /\ next \in 1 .. Len(appended) /\ position = appended[next].start
      /\ LengthAt(position) = appended[next].size
  BY <1>1, FindsFrame
<1>3. /\ appended[next].start \in Nat /\ appended[next].size \in IvfSizes /\ appended[next].size \in Nat
      /\ Len(frame_index_) \in Nat /\ region \in Nat /\ counted \in Nat /\ counted <= frame_count_
      /\ frame_count_ \in Nat
  <2>1. /\ appended[next].start \in Nat /\ appended[next].size \in IvfSizes /\ appended[next].size \in Nat
        /\ Len(frame_index_) \in Nat
    BY <1>2, FramesTyped DEF IvfInv
  <2>2. region \in Nat /\ counted \in Nat /\ counted <= frame_count_ /\ frame_count_ \in Nat
    BY <1>1 DEF IvfInv, IvfTypeOK, ReadSoFar
  <2>3. QED
    BY <2>1, <2>2
<1>4. CASE position + frame_header_len > region
  <2>1. reader' = "invalid" /\ UNCHANGED frame_index_
    BY <1>4 DEF IndexFrame
  <2>2. ~(next <= counted)
    <3>1. ASSUME next <= counted PROVE FALSE
      <4>1. EndOf(appended[next]) <= region
        BY <3>1, <1>3 DEF IvfInv, ReadSoFar
      <4>2. QED
        BY <4>1, <1>2, <1>3, <1>4 DEF EndOf, frame_header_len
    <3>2. QED
      BY <3>1
  <2>3. Len(frame_index_) >= counted
    BY <2>2, <1>3
  <2>4. IvfTypeOK'
    BY <2>1, <1>1 DEF IvfInv, IvfTypeOK, writerVars
  <2>5. ReadSoFar'
    BY <2>1, <2>3, <1>1 DEF IvfInv, ReadSoFar, EndOf
  <2>6. QED
    BY <2>4, <2>5, WriterStays DEF IvfInv
<1>5. CASE ~(position + frame_header_len > region)
  <2>1. frame_index_' = Append(frame_index_, entry) /\ UNCHANGED reader
    BY <1>5, <1>2 DEF IndexFrame
  <2>2. entry \in Nat \X IvfSizes
    BY <1>3 DEF frame_header_len
  <2> HIDE DEF entry
  <2>3. /\ frame_index_' \in Seq(Nat \X IvfSizes) /\ Len(frame_index_') = Len(frame_index_) + 1
        /\ \A i \in 1 .. Len(frame_index_) : frame_index_'[i] = frame_index_[i]
        /\ frame_index_'[next] = entry
    BY <2>1, <2>2, <1>3 DEF IvfInv, IvfTypeOK
  <2>4. IvfTypeOK'
    BY <2>1, <2>3, <1>1 DEF IvfInv, IvfTypeOK, writerVars
  <2>5. ASSUME NEW i \in 1 .. Len(frame_index_')
        PROVE  frame_index_'[i] = <<appended[i].start + frame_header_len, appended[i].size>>
    <3>1. CASE i = next
      BY <3>1, <2>3 DEF entry
    <3>2. CASE i # next
      <4>1. i \in 1 .. Len(frame_index_)
        BY <3>2, <2>3, <1>3
      <4>2. frame_index_'[i] = frame_index_[i]
        BY <4>1, <2>3
      <4>3. QED
        BY <4>1, <4>2, Zenon DEF IvfInv, ReadSoFar
    <3>3. QED
      BY <3>1, <3>2
  <2>6. Len(frame_index_') <= frame_count_
    BY <2>3, <1>1, <1>3
  <2>7. ReadSoFar'
    BY <2>1, <2>5, <2>6, <1>1 DEF IvfInv, ReadSoFar, EndOf
  <2>8. QED
    BY <2>4, <2>7, WriterStays DEF IvfInv
<1>6. QED
  BY <1>4, <1>5

(* The index has all the frames that were read from the header.            *)
LEMMA FinishIndexKeeps ==
  ASSUME IvfInv, FinishIndex, UNCHANGED writerVars
  PROVE  IvfInv'
<1>1. /\ reader = "index" /\ Len(frame_index_) = frame_count_ /\ reader' = "open"
      /\ UNCHANGED <<region, frame_count_, frame_index_, counted, appended, file_octets, header_count>>
  BY DEF FinishIndex, writerVars
<1>2. IvfTypeOK'
  BY <1>1 DEF IvfInv, IvfTypeOK, writerVars
<1>3. ReadSoFar'
  BY <1>1 DEF IvfInv, ReadSoFar, EndOf
<1>4. QED
  BY <1>2, <1>3, WriterStays DEF IvfInv

(* Every step of the reader keeps the invariant.                           *)
LEMMA ReadsKeeps ==
  ASSUME IvfInv, Reads
  PROVE  IvfInv'
BY OpenFileKeeps, ReadFileHeaderKeeps, IndexFrameKeeps, FinishIndexKeeps DEF Reads

(* The invariant says what the property asks.                              *)
LEMMA IvfInvSuffices == IvfInv => IvfIsWhole
<1> SUFFICES ASSUME IvfInv PROVE IvfIsWhole
  OBVIOUS
<1>1. AppendsAtTheEnd /\ header_count >= Len(appended) - 1
  BY DEF IvfInv, WrittenSoFar, CountedAreWhole, AppendsAtTheEnd
<1>2. DOMAIN frame_index_ = 1 .. Len(frame_index_)
  BY DEF IvfInv, IvfTypeOK
<1>3. ASSUME NEW i \in DOMAIN frame_index_
      PROVE  /\ frame_index_[i] = <<appended[i].start + frame_header_len, appended[i].size>>
             /\ i <= counted => frame_index_[i][1] + frame_index_[i][2] <= region
  <2>1. frame_index_[i] = <<appended[i].start + frame_header_len, appended[i].size>>
    BY <1>2 DEF IvfInv, ReadSoFar
  <2>2. i <= counted => EndOf(appended[i]) <= region
    <3>1. i \in Nat /\ i >= 1 /\ counted \in Nat
      BY <1>2, FramesTyped DEF IvfInv, IvfTypeOK
    <3>2. i <= counted => i \in 1 .. counted
      BY <3>1
    <3>3. QED
      BY <3>2 DEF IvfInv, ReadSoFar
  <2>3. frame_index_[i][1] + frame_index_[i][2] = EndOf(appended[i])
    BY <2>1 DEF EndOf
  <2>4. QED
    BY <2>1, <2>2, <2>3
<1>4. reader = "open" => Len(frame_index_) >= counted
  BY FramesTyped DEF IvfInv, ReadSoFar, IvfTypeOK
<1>5. reader = "invalid" => region < supported_header_len \/ Len(frame_index_) >= counted
  BY DEF IvfInv, ReadSoFar
<1>6. QED
  BY <1>1, <1>3, <1>4, <1>5 DEF IvfIsWhole

(* A file that is opened while IVFWriter writes it, or after it has died   *)
(* anywhere, has the frames where they were put, those counted whole.      *)
THEOREM IvfIsWholeHolds == IvfInit /\ [][IvfNext]_ivfVars => []IvfIsWhole
<1>1. IvfInit => IvfInv
  BY IvfStarts
<1>2. IvfInv /\ [IvfNext]_ivfVars => IvfInv'
  <2> SUFFICES ASSUME IvfInv, [IvfNext]_ivfVars PROVE IvfInv'
    OBVIOUS
  <2>1. CASE Writes
    BY <2>1, WritesKeeps
  <2>2. CASE Reads
    BY <2>2, ReadsKeeps
  <2>3. CASE UNCHANGED ivfVars
    <3>1. UNCHANGED writerVars /\ UNCHANGED <<reader, region, frame_count_, frame_index_, counted>>
      BY <2>3 DEF ivfVars, writerVars
    <3>2. IvfTypeOK' /\ ReadSoFar'
      BY <3>1 DEF IvfInv, IvfTypeOK, ReadSoFar, EndOf, writerVars
    <3>3. QED
      BY <3>1, <3>2, WriterStays DEF IvfInv
  <2>4. QED
    BY <2>1, <2>2, <2>3 DEF IvfNext
<1>3. QED
  BY <1>1, <1>2, IvfInvSuffices, PTL

-----------------------------------------------------------------------------
(***************************************************************************)
(* EncoderSearch.                                                          *)
(***************************************************************************)

(* What is remembered is a quantizer and a level, and only in realtime.    *)
SearchInv ==
  /\ realtime \in BOOLEAN /\ picture \in Pictures
  /\ last_y_ac_qi_ = {} \/ \E q \in 0 .. 127 : last_y_ac_qi_ = {q}
  /\ loop_filter_level_ = {} \/ \E level \in 0 .. 63 : loop_filter_level_ = {level}
  /\ ~realtime => loop_filter_level_ = {}

(* Where the search for a size in low .. high has come to: what is just    *)
(* below its candidates does not fit, and the best one so far is just above*)
(* them.                                                                   *)
Searched(s, low, high, fits) ==
  /\ s \in [min : Int, max : Int, best : Int]
  /\ low <= s.min /\ s.max <= high /\ s.min <= s.max + 1
  /\ s.min > low => s.min - 1 \notin fits
  /\ s.best = 255 => s.min <= s.max /\ s.max = high
  /\ s.best # 255 => s.max = s.best - 1 /\ s.best <= high /\ (s.best \in fits \/ s.best = high)


(* What Window and Halve make of a window.                                 *)
LEMMA MiddleHalves ==
  ASSUME NEW low \in Nat, NEW high \in Nat, low <= high, NEW k \in Nat, high - low < k
  PROVE  LET q == (low + high) \div 2
         IN  /\ q \in Nat /\ low <= q /\ q <= high
             /\ q = high => low = high
             /\ q - 1 - low < k \div 2 /\ high - q - 1 < k \div 2
OBVIOUS

(* The two ways to change a search.                                        *)
LEMMA TakenFields ==
  ASSUME NEW s \in [min : Int, max : Int, best : Int], NEW q \in Int, NEW p \in Int, NEW t,
         t = [s EXCEPT !.best = q, !.max = p]
  PROVE  t \in [min : Int, max : Int, best : Int] /\ t.min = s.min /\ t.max = p /\ t.best = q
OBVIOUS

LEMMA NotTakenFields ==
  ASSUME NEW s \in [min : Int, max : Int, best : Int], NEW q \in Int, NEW t, t = [s EXCEPT !.min = q + 1]
  PROVE  t \in [min : Int, max : Int, best : Int] /\ t.min = q + 1 /\ t.max = s.max /\ t.best = s.best
OBVIOUS

(* A turn of the search keeps what is known, and halves the window.        *)
LEMMA HalveKeeps ==
  ASSUME NEW low \in Nat, NEW high \in Nat, high <= 127, NEW fits,
         NEW s, Searched(s, low, high, fits), NEW k \in Nat, s.max - s.min < k
  PROVE  LET t == Halve(s, fits) IN Searched(t, low, high, fits) /\ t.max - t.min < k \div 2
<1> DEFINE q == (s.min + s.max) \div 2
           t == Halve(s, fits)
<1>1. /\ s \in [min : Int, max : Int, best : Int] /\ s.min \in Int /\ s.max \in Int /\ s.best \in Int
      /\ low <= s.min /\ s.max <= high /\ s.min <= s.max + 1
      /\ s.min > low => s.min - 1 \notin fits
      /\ s.best = 255 => s.min <= s.max /\ s.max = high
      /\ s.best # 255 => s.max = s.best - 1 /\ s.best <= high /\ (s.best \in fits \/ s.best = high)
  BY DEF Searched
<1>2. CASE s.min > s.max
  <2>1. t = s
    BY <1>2 DEF Halve
  <2>2. k \div 2 >= 0 /\ s.max - s.min < 0
    BY <1>1, <1>2
  <2>3. s.max - s.min < k \div 2
    BY <2>2, <1>1
  <2>4. QED
    BY <2>1, <2>3
<1>3. CASE ~(s.min > s.max)
  <2>1. /\ q \in Nat /\ s.min <= q /\ q <= s.max
        /\ q = s.max => s.min = s.max
        /\ q - 1 - s.min < k \div 2 /\ s.max - q - 1 < k \div 2
    <3>1. s.min \in Nat /\ s.max \in Nat /\ s.min <= s.max
      BY <1>1, <1>3
    <3>2. QED
      BY <3>1, MiddleHalves
  <2>2. CASE Taken(s, q, q \in fits)
    <3>1. t = [s EXCEPT !.best = q, !.max = q - 1]
      BY <1>3, <2>2 DEF Halve
    <3>2. (q \in fits \/ (s.min = s.max /\ s.best = 255)) /\ q \in Int
      BY <2>1, <2>2 DEF Taken
    <3> HIDE DEF q, t
    <3>3. t \in [min : Int, max : Int, best : Int] /\ t.min = s.min /\ t.max = q - 1 /\ t.best = q
      <4>1. q \in Int /\ q - 1 \in Int
        BY <3>2
      <4>2. s \in [min : Int, max : Int, best : Int]
        BY <1>1
      <4>3. QED
        BY ONLY <4>1, <4>2, <3>1, TakenFields
    <3>4. Searched(t, low, high, fits)
      BY <3>2, <3>3, <1>1, <2>1 DEF Searched
    <3>5. QED
      BY <3>3, <3>4, <2>1 DEF t
  <2>3. CASE ~Taken(s, q, q \in fits)
    <3>1. t = [s EXCEPT !.min = q + 1]
      BY <1>3, <2>3 DEF Halve
    <3>2. ~(q \in fits) /\ ~(s.min = s.max /\ s.best = 255) /\ q \in Int
      BY <2>1, <2>3 DEF Taken
    <3> HIDE DEF q, t
    <3>3. t \in [min : Int, max : Int, best : Int] /\ t.min = q + 1 /\ t.max = s.max /\ t.best = s.best
      BY <3>1, <1>1, <2>1, NotTakenFields
    <3>4. t.min <= t.max + 1 /\ t.min - 1 \notin fits /\ (t.best = 255 => t.min <= t.max)
      BY <3>2, <3>3, <1>1, <2>1
    <3>5. Searched(t, low, high, fits)
      BY <3>3, <3>4, <1>1, <2>1 DEF Searched
    <3>6. t.max - t.min < k \div 2
      BY <3>3, <2>1, <1>1
    <3>7. QED
      BY <3>5, <3>6 DEF t
  <2>4. QED
    BY <2>2, <2>3
<1>4. QED
  BY <1>2, <1>3

(* And so do four turns.                                                   *)
LEMMA FourHalvesKeep ==
  ASSUME NEW low \in Nat, NEW high \in Nat, high <= 127, NEW fits,
         NEW s, Searched(s, low, high, fits), NEW k \in Nat, s.max - s.min < k
  PROVE  LET t == FourHalves(s, fits)
         IN  Searched(t, low, high, fits) /\ t.max - t.min < (((k \div 2) \div 2) \div 2) \div 2
<1> DEFINE s1 == Halve(s, fits)
           s2 == Halve(s1, fits)
           s3 == Halve(s2, fits)
           s4 == Halve(s3, fits)
           k1 == k \div 2
           k2 == k1 \div 2
           k3 == k2 \div 2
<1>1. k1 \in Nat /\ k2 \in Nat /\ k3 \in Nat
  OBVIOUS
<1>2. Searched(s1, low, high, fits) /\ s1.max - s1.min < k1
  BY HalveKeeps
<1> HIDE DEF s1, k1
<1>3. Searched(s2, low, high, fits) /\ s2.max - s2.min < k2
  BY <1>1, <1>2, HalveKeeps
<1> HIDE DEF s2, k2
<1>4. Searched(s3, low, high, fits) /\ s3.max - s3.min < k3
  BY <1>1, <1>3, HalveKeeps
<1> HIDE DEF s3, k3
<1>5. Searched(s4, low, high, fits) /\ s4.max - s4.min < k3 \div 2
  BY <1>1, <1>4, HalveKeeps
<1>6. s4 = FourHalves(s, fits)
  BY DEF FourHalves, s1, s2, s3
<1>7. QED
  BY <1>5, <1>6 DEF k1, k2, k3

(* The window of a search.                                                 *)
LEMMA WindowIsSearched ==
  ASSUME NEW last, last = {} \/ \E q \in 0 .. 127 : last = {q}, NEW fits
  PROVE  LET s == Window(last)
         IN  /\ s.min \in Nat /\ s.max \in Nat /\ s.max <= 127 /\ s.min <= s.max
             /\ s.max - s.min < 124
             /\ Searched(s, s.min, s.max, fits)
<1> DEFINE s == Window(last)
<1>1. s \in [min : Int, max : Int, best : Int] /\ s.best = 255
      /\ s.min \in Nat /\ s.min >= 4 /\ s.max \in Nat /\ s.max <= 127 /\ s.min <= s.max
  <2>1. CASE last = {}
    BY <2>1 DEF Window
  <2>2. ASSUME NEW q \in 0 .. 127, last = {q}
        PROVE  s \in [min : Int, max : Int, best : Int] /\ s.best = 255
               /\ s.min \in Nat /\ s.min >= 4 /\ s.max \in Nat /\ s.max <= 127 /\ s.min <= s.max
    <3>1. (CHOOSE p \in last : TRUE) = q /\ last # {}
      BY <2>2
    <3>2. s = [min |-> IF q - 16 >= 4 THEN q - 16 ELSE 4, max |-> Lower(127, q + 16), best |-> 255]
      BY <3>1 DEF Window
    <3>3. QED
      BY <3>2 DEF Lower
  <2>3. QED
    BY <2>1, <2>2
<1>2. Searched(s, s.min, s.max, fits)
  BY <1>1 DEF Searched
<1>3. QED
  BY <1>1, <1>2

(* The search for a size ends with one that fits, or with the largest, and *)
(* where the next finer one does not.                                      *)
LEMMA SizeSearchIsRight ==
  ASSUME NEW last, last = {} \/ \E q \in 0 .. 127 : last = {q}, NEW fits
  PROVE  LET found == SizeSearch(last, fits)
             searched == Window(last)
         IN  /\ found.min > found.max
             /\ found.best \in searched.min .. searched.max
             /\ found.best \in fits \/ found.best = searched.max
             /\ found.best = searched.min \/ found.best - 1 \notin fits
             /\ found.best \in 0 .. 127
<1> DEFINE searched == Window(last)
           half == FourHalves(searched, fits)
           found == FourHalves(half, fits)
<1>1. /\ searched.min \in Nat /\ searched.max \in Nat /\ searched.max <= 127 /\ searched.min <= searched.max
      /\ searched.max - searched.min < 124
      /\ Searched(searched, searched.min, searched.max, fits)
  BY WindowIsSearched
<1>2. SizeSearch(last, fits) = found
  BY DEF SizeSearch
<1> HIDE DEF searched
<1>3. Searched(half, searched.min, searched.max, fits) /\ half.max - half.min < 7
  <2>1. Searched(half, searched.min, searched.max, fits)
        /\ half.max - half.min < (((124 \div 2) \div 2) \div 2) \div 2
    BY <1>1, FourHalvesKeep
  <2>2. (((124 \div 2) \div 2) \div 2) \div 2 = 7
    OBVIOUS
  <2>3. QED
    BY <2>1, <2>2
<1> HIDE DEF half
<1>4. Searched(found, searched.min, searched.max, fits) /\ found.max - found.min < 0
  <2>1. Searched(found, searched.min, searched.max, fits)
        /\ found.max - found.min < (((7 \div 2) \div 2) \div 2) \div 2
    BY <1>1, <1>3, FourHalvesKeep
  <2>2. (((7 \div 2) \div 2) \div 2) \div 2 = 0
    OBVIOUS
  <2>3. QED
    BY <2>1, <2>2
<1> HIDE DEF found
<1>5. found.min \in Int /\ found.max \in Int /\ found.best \in Int /\ found.min > found.max
  BY <1>4 DEF Searched
<1>6. found.best # 255 /\ found.min = found.best
  BY <1>4, <1>5 DEF Searched
<1>7. /\ searched.min <= found.best /\ found.best <= searched.max
      /\ found.best > searched.min => found.best - 1 \notin fits
      /\ found.best \in fits \/ found.best = searched.max
  BY <1>4, <1>5, <1>6 DEF Searched
<1>8. /\ found.best \in searched.min .. searched.max /\ found.best \in 0 .. 127
      /\ found.best = searched.min \/ found.best - 1 \notin fits
  BY <1>1, <1>5, <1>7
<1>9. QED
  BY <1>2, <1>5, <1>7, <1>8 DEF searched

(* Where the search for a structural similarity has come to.               *)
SsimSearched(s) ==
  /\ s \in [min : Int, max : Int, best : SUBSET (0 .. 127), done : BOOLEAN]
  /\ 0 <= s.min /\ s.max <= 127
  /\ s.best = {} \/ \E q \in 0 .. 127 : s.best = {q}

(* A turn of that search stays among the quantizers.                       *)
LEMMA SsimTurnKeeps ==
  ASSUME NEW s, SsimSearched(s), NEW minimum \in Int
  PROVE  SsimSearched(SsimTurn(s, minimum))
<1> DEFINE q == (s.min + s.max) \div 2
           good == Measured >= minimum
           taken == IF good \/ (s.min = s.max /\ s.best = {}) THEN [s EXCEPT !.best = {q}] ELSE s
           t == SsimTurn(s, minimum)
<1>1. t = IF s.min > s.max \/ s.done THEN s
          ELSE IF s.min = s.max THEN [taken EXCEPT !.done = TRUE]
          ELSE IF good THEN [taken EXCEPT !.min = q + 1] ELSE [taken EXCEPT !.max = q - 1]
  BY DEF SsimTurn
<1>2. /\ s \in [min : Int, max : Int, best : SUBSET (0 .. 127), done : BOOLEAN]
      /\ s.min \in Int /\ s.max \in Int /\ 0 <= s.min /\ s.max <= 127
      /\ s.best = {} \/ \E p \in 0 .. 127 : s.best = {p}
  BY DEF SsimSearched
<1>3. CASE s.min > s.max \/ s.done
  BY <1>1, <1>3
<1>4. CASE ~(s.min > s.max \/ s.done)
  <2>1. s.min \in Nat /\ s.max \in Nat /\ s.min <= s.max
    BY <1>2, <1>4
  <2>2. q \in 0 .. 127
    <3>1. s.max - s.min < 128
      BY <2>1, <1>2
    <3>2. q \in Nat /\ q <= s.max
      BY <2>1, <3>1, MiddleHalves
    <3>3. QED
      BY <3>2, <1>2
  <2>3. t = IF s.min = s.max THEN [taken EXCEPT !.done = TRUE]
            ELSE IF good THEN [taken EXCEPT !.min = q + 1] ELSE [taken EXCEPT !.max = q - 1]
    BY <1>1, <1>4
  <2> HIDE DEF q, good, t
  <2>4. SsimSearched(taken)
    <3>1. CASE good \/ (s.min = s.max /\ s.best = {})
      <4>1. taken = [s EXCEPT !.best = {q}] /\ {q} \in SUBSET (0 .. 127)
        BY <3>1, <2>2
      <4>2. /\ taken \in [min : Int, max : Int, best : SUBSET (0 .. 127), done : BOOLEAN]
            /\ taken.min = s.min /\ taken.max = s.max /\ taken.best = {q}
        BY <4>1, <1>2
      <4>3. QED
        BY <4>2, <1>2, <2>2 DEF SsimSearched
    <3>2. CASE ~(good \/ (s.min = s.max /\ s.best = {}))
      BY <3>2
    <3>3. QED
      BY <3>1, <3>2
  <2> HIDE DEF taken
  <2>5. taken \in [min : Int, max : Int, best : SUBSET (0 .. 127), done : BOOLEAN]
    BY <2>4 DEF SsimSearched
  <2>6. /\ t \in [min : Int, max : Int, best : SUBSET (0 .. 127), done : BOOLEAN]
        /\ t.best = taken.best /\ t.min \in {taken.min, q + 1} /\ t.max \in {taken.max, q - 1}
    <3>1. CASE t = [taken EXCEPT !.done = TRUE]
      BY <3>1, <2>5
    <3>2. CASE t = [taken EXCEPT !.min = q + 1]
      BY <3>2, <2>5, <2>2
    <3>3. CASE t = [taken EXCEPT !.max = q - 1]
      BY <3>3, <2>5, <2>2
    <3>4. QED
      BY <3>1, <3>2, <3>3, <2>3
  <2>7. SsimSearched(t)
    BY <2>2, <2>4, <2>6 DEF SsimSearched
  <2>8. QED
    BY <2>7 DEF t
<1>5. QED
  BY <1>3, <1>4

(* What it returns is a quantizer.                                         *)
LEMMA SsimSearchIsTyped ==
  ASSUME NEW minimum \in Int
  PROVE  SsimSearch(minimum) \in 0 .. 127
<1> DEFINE start == [min |-> 0, max |-> 127, best |-> {}, done |-> FALSE]
           end == ThreeSsimTurns(ThreeSsimTurns(ThreeSsimTurns(start, minimum), minimum), minimum)
<1>1. SsimSearched(start)
  BY DEF SsimSearched
<1>2. ASSUME NEW s, SsimSearched(s)
      PROVE  SsimSearched(ThreeSsimTurns(s, minimum))
  BY <1>2, SsimTurnKeeps DEF ThreeSsimTurns
<1> HIDE DEF start
<1>3. SsimSearched(end)
  BY <1>1, <1>2
<1>4. SsimSearch(minimum) = IF end.best = {} THEN 0 ELSE CHOOSE q \in end.best : TRUE
  BY DEF SsimSearch, start
<1> HIDE DEF end
<1>5. QED
  BY <1>3, <1>4 DEF SsimSearched

(* The similarities of a picture.                                          *)
LEMMA PictureTyped ==
  ASSUME SearchInv
  PROVE  picture.quality \in [0 .. 63 -> Nat]
<1>1. picture \in [fits : SUBSET (0 .. 127), quality : [0 .. 63 -> Nat]]
  BY EncoderSearchAssumption, Zenon DEF SearchInv
<1>2. QED
  BY <1>1

(* The climb through the filter levels stops at the first one after which  *)
(* the picture gets no better; up to there it got better with each level.  *)
LEMMA ClimbStops ==
  ASSUME NEW low \in 0 .. 63, NEW high \in 0 .. 63, low <= high, NEW quality \in [0 .. 63 -> Nat],
         NEW top, top = Min({l \in low .. high : l + 1 \notin low .. high \/ quality[l + 1] <= quality[l]})
  PROVE  /\ top \in low .. high
         /\ top + 1 \notin low .. high \/ quality[top + 1] <= quality[top]
         /\ \A l \in low .. high : l < top => quality[l + 1] > quality[l]
<1> DEFINE stops == {l \in low .. high : l + 1 \notin low .. high \/ quality[l + 1] <= quality[l]}
<1>1. high \in stops /\ stops \subseteq Nat
  OBVIOUS
<1>2. PICK first \in stops : \A n \in Nat : n < first => n \notin stops
  <2> HIDE DEF stops
  <2>1. PICK first \in stops : \A n \in stops : ~(<<n, first>> \in OpToRel(<, Nat))
    BY <1>1, WFMin, NatLessThanWellFounded, Zenon
  <2>2. QED
    BY <2>1, <1>1 DEF OpToRel
<1>3. top \in stops /\ \A l \in stops : top <= l
  <2>1. top = Min(stops)
    OBVIOUS
  <2> HIDE DEF stops
  <2>2. \E x \in stops : \A y \in stops : x =< y
    BY <1>1, <1>2
  <2>3. QED
    BY <2>1, <2>2 DEF Min
<1>4. ASSUME NEW l \in low .. high, l < top
      PROVE  quality[l + 1] > quality[l]
  <2>1. l \in Nat /\ top \in Nat
    <3> HIDE DEF stops
    <3>1. QED
      BY <1>1, <1>3
  <2>2. l \notin stops
    <3> HIDE DEF stops
    <3>1. QED
      BY <1>3, <1>4, <2>1
  <2>3. l + 1 \in low .. high /\ ~(quality[l + 1] <= quality[l])
    BY <2>2
  <2>4. quality[l + 1] \in Nat /\ quality[l] \in Nat
    BY <2>3
  <2>5. QED
    BY <2>3, <2>4
<1>5. top \in low .. high /\ (top + 1 \notin low .. high \/ quality[top + 1] <= quality[top])
  <2>1. top \in stops
    BY <1>3, Zenon
  <2>2. QED
    BY ONLY <2>1
<1>6. QED
  BY <1>4, <1>5, Zenon

(* The search for a level from the last one: one better, or one as good    *)
(* with less filtering, or the same one if no neighbour is better.         *)
LEMMA FilterSearchSteps ==
  ASSUME SearchInv, NEW old \in 0 .. 63
  PROVE  LET new == FilterSearch({old}, picture.quality)
         IN  /\ new \in 0 .. 63 /\ Distance(new, old) <= 1
             /\ Improves(old, new) \/ (new = old /\ SettlesAt(old))
<1> DEFINE low == Lowest(old)
           high == Lower(63, old + 1)
           quality == picture.quality
           levels == low .. high
           Stops(l) == l + 1 \notin levels \/ quality[l + 1] <= quality[l]
           new == Min({l \in levels : Stops(l)})
<1>1. (CHOOSE l \in {old} : TRUE) = old /\ {old} # {}
  OBVIOUS
<1>2. FilterSearch({old}, quality) = new
  BY <1>1 DEF FilterSearch
<1>3. /\ low \in 0 .. 63 /\ high \in 0 .. 63 /\ low <= old /\ old <= high
      /\ old - 1 <= low /\ high <= old + 1 /\ (old > 0 => low = old - 1) /\ (old < 63 => high = old + 1)
  BY DEF Lowest, Lower
<1>4. quality \in [0 .. 63 -> Nat]
  BY PictureTyped
<1> HIDE DEF low, high, quality
<1>5. new = Min({l \in low .. high : l + 1 \notin low .. high \/ quality[l + 1] <= quality[l]})
  OBVIOUS
<1> HIDE DEF new
<1>6. /\ new \in levels /\ Stops(new)
      /\ \A l \in levels : l < new => quality[l + 1] > quality[l]
  <2>1. low \in 0 .. 63 /\ high \in 0 .. 63 /\ low <= high
    BY <1>3
  <2>2. QED
    BY ONLY <2>1, <1>4, <1>5, ClimbStops
<1>7. new \in 0 .. 63 /\ new \in {old - 1, old, old + 1}
  BY <1>3, <1>6
<1>8. Distance(new, old) <= 1
  BY <1>7 DEF Distance, Upper, Lower
<1>9. CASE new = old - 1
  <2>1. new + 1 = old /\ old \in levels
    BY <1>3, <1>7, <1>9
  <2>2. quality[old] <= quality[new]
    BY <2>1, <1>6
  <2>3. quality[old] \in Nat /\ quality[new] \in Nat
    BY <1>4, <1>7
  <2>4. Improves(old, new)
    BY <2>2, <2>3, <1>9, <1>7 DEF Improves, quality
  <2>5. QED
    BY <2>4, <1>2, <1>7, <1>8 DEF quality
<1>10. CASE new = old + 1
  <2>1. old \in levels /\ old < new
    BY <1>3, <1>10
  <2>2. quality[old + 1] > quality[old]
    BY <2>1, <1>6
  <2>3. Improves(old, new)
    BY <2>2, <1>10 DEF Improves, quality
  <2>4. QED
    BY <2>3, <1>2, <1>7, <1>8 DEF quality
<1>11. CASE new = old
  <2>1. ASSUME NEW near \in {old - 1, old + 1} \cap 0 .. 63
        PROVE  quality[near] <= quality[old]
    <3>1. quality[near] \in Nat /\ quality[old] \in Nat
      BY <1>4
    <3>2. CASE near = old - 1
      <4>1. near \in levels /\ near < new /\ near + 1 = old
        BY <1>3, <1>11, <3>2
      <4>2. quality[near + 1] > quality[near]
        BY <4>1, <1>6
      <4>3. QED
        BY <4>1, <4>2, <3>1
    <3>3. CASE near = old + 1
      <4>1. new + 1 \in levels /\ near = new + 1
        BY <1>3, <1>11, <3>3
      <4>2. QED
        BY <4>1, <1>6, <1>11
    <3>4. QED
      BY <3>2, <3>3
  <2>2. SettlesAt(old)
    BY <2>1 DEF SettlesAt, quality
  <2>3. QED
    BY <2>2, <1>2, <1>7, <1>8, <1>11 DEF quality
<1>12. QED
  BY <1>7, <1>9, <1>10, <1>11

(* The search for the first level stops where no neighbour is better.      *)
LEMMA FirstFilterSearch ==
  ASSUME SearchInv
  PROVE  FilterSearch({}, picture.quality) \in 0 .. 63 /\ SettlesAt(FilterSearch({}, picture.quality))
<1> DEFINE quality == picture.quality
           levels == 0 .. 63
           Stops(l) == l + 1 \notin levels \/ quality[l + 1] <= quality[l]
           new == Min({l \in levels : Stops(l)})
<1>1. FilterSearch({}, quality) = new
  BY DEF FilterSearch
<1>2. quality \in [0 .. 63 -> Nat]
  BY PictureTyped
<1> HIDE DEF quality
<1>3. new = Min({l \in 0 .. 63 : l + 1 \notin 0 .. 63 \/ quality[l + 1] <= quality[l]})
  OBVIOUS
<1> HIDE DEF new
<1>4. /\ new \in levels /\ Stops(new)
      /\ \A l \in levels : l < new => quality[l + 1] > quality[l]
  <2>1. 0 \in 0 .. 63 /\ 63 \in 0 .. 63 /\ 0 <= 63
    OBVIOUS
  <2>2. QED
    BY ONLY <2>1, <1>2, <1>3, ClimbStops
<1>5. ASSUME NEW near \in {new - 1, new + 1} \cap 0 .. 63
      PROVE  quality[near] <= quality[new]
  <2>1. quality[near] \in Nat /\ quality[new] \in Nat /\ new \in 0 .. 63
    BY <1>2, <1>4
  <2>2. CASE near = new - 1
    <3>1. near \in levels /\ near < new /\ near + 1 = new
      BY <2>1, <2>2
    <3>2. quality[near + 1] > quality[near]
      BY <3>1, <1>4
    <3>3. QED
      BY <3>1, <3>2, <2>1
  <2>3. CASE near = new + 1
    BY <2>3, <1>4
  <2>4. QED
    BY <2>2, <2>3
<1>6. SettlesAt(new)
  BY <1>5 DEF SettlesAt, quality
<1>7. QED
  BY <1>1, <1>4, <1>6 DEF quality

(* What is remembered is of the right type, and the level settles.         *)
LEMMA RememberKeeps ==
  ASSUME SearchInv, NEW q \in 0 .. 127, Remember(q)
  PROVE  SearchInv' /\ LevelSettles
<1> DEFINE found == FilterSearch(loop_filter_level_, picture.quality)
<1>1. /\ last_y_ac_qi_' = IF realtime THEN {q} ELSE last_y_ac_qi_
      /\ loop_filter_level_' = IF realtime THEN {found} ELSE loop_filter_level_
      /\ UNCHANGED <<realtime, picture>>
  BY DEF Remember
<1>2. found \in 0 .. 63
  <2>1. CASE loop_filter_level_ = {}
    BY <2>1, FirstFilterSearch
  <2>2. ASSUME NEW level \in 0 .. 63, loop_filter_level_ = {level}
        PROVE  found \in 0 .. 63
    BY <2>2, FilterSearchSteps
  <2>3. QED
    BY <2>1, <2>2 DEF SearchInv
<1>3. ASSUME NEW new \in loop_filter_level_'
      PROVE  /\ loop_filter_level_ = {} => SettlesAt(new)
             /\ \A old \in loop_filter_level_ :
                  /\ Distance(new, old) <= 1
                  /\ Improves(old, new) \/ (new = old /\ SettlesAt(old))
  <2>1. realtime
    BY <1>1, <1>3 DEF SearchInv
  <2>2. new = FilterSearch(loop_filter_level_, picture.quality)
    BY <1>1, <1>3, <2>1
  <2>3. CASE loop_filter_level_ = {}
    BY <2>2, <2>3, FirstFilterSearch
  <2>4. ASSUME NEW old \in loop_filter_level_
        PROVE  /\ loop_filter_level_ # {}
               /\ Distance(new, old) <= 1
               /\ Improves(old, new) \/ (new = old /\ SettlesAt(old))
    <3>1. loop_filter_level_ = {old} /\ old \in 0 .. 63
      BY <2>4 DEF SearchInv
    <3>2. QED
      BY <2>2, <3>1, FilterSearchSteps
  <2>5. QED
    BY <2>3, <2>4
<1>4. LevelSettles
  BY <1>3 DEF LevelSettles
<1>5. SearchInv'
  <2> HIDE DEF found
  <2>1. QED
    BY <1>1, <1>2 DEF SearchInv
<1>6. QED
  BY <1>4, <1>5

(* Every step keeps the types, and does what the property asks.            *)
LEMMA SearchStepsFind ==
  ASSUME SearchInv, SearchNext
  PROVE  SearchInv' /\ SizeSearchFinds /\ (picture' = picture => LevelSettles)
<1>1. SizeSearchFinds
  BY SizeSearchIsRight DEF SearchInv, SizeSearchFinds
<1>2. CASE EncodeWithTargetSize
  <2>1. SizeSearch(last_y_ac_qi_, picture.fits).best \in 0 .. 127
    BY SizeSearchIsRight DEF SearchInv
  <2>2. QED
    BY <1>1, <1>2, <2>1, RememberKeeps DEF EncodeWithTargetSize
<1>3. CASE EncodeWithQuantizer
  <2>1. PICK q \in last_y_ac_qi_ : \E near \in {Upper(0, q - 19), Lower(127, q + 19)} : Remember(near)
    BY <1>3 DEF EncodeWithQuantizer
  <2>2. q \in 0 .. 127
    BY DEF SearchInv
  <2>3. Upper(0, q - 19) \in 0 .. 127 /\ Lower(127, q + 19) \in 0 .. 127
    BY <2>2 DEF Upper, Lower
  <2>4. QED
    BY <1>1, <2>1, <2>3, RememberKeeps
<1>4. CASE EncodeWithMinimumSsim
  <2>1. PICK minimum \in {0, 1} : Remember(SsimSearch(minimum))
    BY <1>4 DEF EncodeWithMinimumSsim
  <2>2. SsimSearch(minimum) \in 0 .. 127
    BY SsimSearchIsTyped
  <2>3. QED
    BY <1>1, <2>1, <2>2, RememberKeeps
<1>5. CASE NextPicture
  <2>1. picture' \in Pictures /\ picture' # picture /\ UNCHANGED <<realtime, last_y_ac_qi_, loop_filter_level_>>
    BY <1>5 DEF NextPicture
  <2>2. SearchInv'
    BY <2>1 DEF SearchInv
  <2>3. QED
    BY <1>1, <2>1, <2>2
<1>6. QED
  BY <1>2, <1>3, <1>4, <1>5 DEF SearchNext

(* Whatever fits, encode_with_target_size ends with a quantizer of its     *)
(* window that fits, or with the largest, where the next finer one does not*)
(* fit.  However the similarity depends on the level,                      *)
(* apply_best_loopfilter_settings goes from the level it remembered to one *)
(* that is better, or as good and lower, and stays only where neither      *)
(* neighbour is better.                                                    *)
THEOREM SearchesFindHolds == SearchInit /\ [][SearchNext]_searchVars => SearchesFind
<1> DEFINE Finds == SizeSearchFinds /\ (picture' = picture => LevelSettles)
<1>1. SearchInit => SearchInv
  BY EncoderSearchAssumption DEF SearchInit, SearchInv
<1>2. SearchInv /\ [SearchNext]_searchVars => SearchInv' /\ [Finds]_searchVars
  <2> SUFFICES ASSUME SearchInv, [SearchNext]_searchVars
               PROVE  SearchInv' /\ [Finds]_searchVars
    OBVIOUS
  <2>1. CASE SearchNext
    BY <2>1, SearchStepsFind
  <2>2. CASE UNCHANGED searchVars
    BY <2>2 DEF searchVars, SearchInv
  <2>3. QED
    BY <2>1, <2>2
<1>3. QED
  BY <1>1, <1>2, PTL DEF SearchesFind

-----------------------------------------------------------------------------
(***************************************************************************)
(* Reconstruction.                                                         *)
(***************************************************************************)

(* 4x4 blocks along a side of a macroblock, of the picture, and the picture.*)
BlockSide(plane) == IF plane = "Y" THEN 4 ELSE 2
BlockColumns(plane) == 0 .. BlockSide(plane) * PictureColumns - 1
PictureBlocks(plane) == BlockColumns(plane) \X (0 .. BlockSide(plane) * PictureRows - 1)

(* The macroblocks before that one are in w, and that one.                 *)
EarlierIn(w, column, row) ==
  \A plane \in Planes : \A c \in BlockColumns(plane), r \in Nat :
    (\/ r < BlockSide(plane) * row
     \/ r < BlockSide(plane) * row + BlockSide(plane) /\ c < BlockSide(plane) * column)
      => <<c, r>> \in w[plane]
MacroblockIn(w, column, row) ==
  \A plane \in Planes : \A a, b \in 0 .. BlockSide(plane) - 1 :
    <<BlockSide(plane) * column + a, BlockSide(plane) * row + b>> \in w[plane]

(* Of a macroblock that is decoded in parts, those before subblock n.      *)
SubblocksIn(w, n) ==
  /\ \A a, b \in 0 .. 1 : <<2 * Column + a, 2 * Row + b>> \in w["UV"]
  /\ \A a, b \in 0 .. 3 : 4 * b + a < n => <<4 * Column + a, 4 * Row + b>> \in w["Y"]
QuartersIn(w, n) ==
  \A a, b \in 0 .. 1 : 2 * b + a < n =>
    /\ <<2 * Column + a, 2 * Row + b>> \in w["UV"]
    /\ \A i, j \in 0 .. 1 : <<4 * Column + 2 * a + i, 4 * Row + 2 * b + j>> \in w["Y"]

(* The invariant: where the decoder is,                                    *)
DecodedTyped ==
  /\ stage \in {"predict", "B_PRED", "SPLITMV", "filter"}
  /\ macroblock \in 0 .. PictureColumns * PictureRows
  /\ stage # "predict" => macroblock < PictureColumns * PictureRows
  /\ subblock \in 0 .. (IF stage = "B_PRED" THEN 15 ELSE IF stage = "SPLITMV" THEN 3 ELSE 0)
  /\ written \in [Planes -> SUBSET (Int \X Int)]
  /\ \A plane \in Planes : written[plane] \subseteq PictureBlocks(plane)

(* what it has written when it is there,                                   *)
InOrderWritten ==
  IF stage = "filter" THEN \A plane \in Planes : written[plane] = PictureBlocks(plane)
  ELSE macroblock < PictureColumns * PictureRows =>
    /\ EarlierIn(written, Column, Row)
    /\ stage = "B_PRED" => SubblocksIn(written, subblock)
    /\ stage = "SPLITMV" => QuartersIn(written, subblock)

(* and what it read last, which is still there when a macroblock starts    *)
(* whose vectors are read first.                                           *)
ReadFrom(reads, w) ==
  \A read \in reads : read[1] \in Planes /\ <<read[2][1] \div 4, read[2][2] \div 4>> \in w[read[1]]

ReconstructionInv == DecodedTyped /\ InOrderWritten /\ ReadFrom(predictors, written) /\ ReadsInsidePlanes

(* Where a macroblock can be.                                              *)
PositionAt(column, row) == column \in 0 .. PictureColumns - 1 /\ row \in 0 .. PictureRows - 1

(* A macroblock that is still to be decoded has a place in the picture.    *)
LEMMA MacroblockIsInPicture ==
  ASSUME macroblock \in 0 .. PictureColumns * PictureRows, macroblock < PictureColumns * PictureRows
  PROVE  /\ PositionAt(Column, Row)
         /\ macroblock = PictureColumns * Row + Column
<1>1. PictureColumns \in Nat \ {0} /\ PictureRows \in Nat \ {0}
  BY ReconstructionAssumption
<1>2. /\ Column \in 0 .. PictureColumns - 1 /\ Row \in Int
      /\ macroblock = PictureColumns * Row + Column
  BY <1>1 DEF Column, Row
<1>3. Row >= 0
  BY <1>1 DEF Row
<1>4. Row < PictureRows
  BY <1>1, <1>2
<1>5. QED
  BY <1>1, <1>2, <1>3, <1>4 DEF PositionAt

(* The macroblock after one is to its right, or starts the next row.       *)
LEMMA NextPosition ==
  ASSUME macroblock \in 0 .. PictureColumns * PictureRows, macroblock + 1 < PictureColumns * PictureRows,
         macroblock' = macroblock + 1
  PROVE  IF Column + 1 < PictureColumns THEN Column' = Column + 1 /\ Row' = Row
         ELSE Column + 1 = PictureColumns /\ Column' = 0 /\ Row' = Row + 1
<1> DEFINE P == PictureColumns
           m == macroblock
           c == macroblock % P
           r == macroblock \div P
<1>1. P \in Nat \ {0}
  BY ReconstructionAssumption
<1>2. c \in 0 .. P - 1 /\ r \in Int /\ m = P * r + c /\ m \in Int
  BY <1>1
<1>3. Column = c /\ Row = r /\ Column' = (m + 1) % P /\ Row' = (m + 1) \div P
  BY DEF Column, Row
<1>4. CASE c + 1 < P
  <2>1. (m + 1) % P = c + 1 /\ (m + 1) \div P = r
    <3> HIDE DEF P, m, c, r
    <3>1. m + 1 = P * r + (c + 1) /\ c + 1 \in 0 .. P - 1
      BY <1>1, <1>2, <1>4
    <3>2. QED
      BY <1>1, <1>2, <3>1
  <2>2. QED
    BY <1>2, <1>3, <1>4, <2>1
<1>5. CASE ~(c + 1 < P)
  <2>1. c + 1 = P
    BY <1>1, <1>2, <1>5
  <2>2. (m + 1) % P = 0 /\ (m + 1) \div P = r + 1
    <3> HIDE DEF P, m, c, r
    <3>1. m + 1 = P * (r + 1) + 0
      BY <1>1, <1>2, <2>1
    <3>2. QED
      BY <1>1, <1>2, <3>1
  <2>3. QED
    BY <1>2, <1>3, <1>5, <2>1, <2>2
<1>6. QED
  BY <1>4, <1>5

(* The last macroblock is the last of the last row.                        *)
LEMMA LastPosition ==
  ASSUME macroblock \in 0 .. PictureColumns * PictureRows, macroblock + 1 = PictureColumns * PictureRows
  PROVE  Column + 1 = PictureColumns /\ Row + 1 = PictureRows
<1>1. PictureColumns \in Nat \ {0} /\ PictureRows \in Nat \ {0}
  BY ReconstructionAssumption
<1>2. PositionAt(Column, Row) /\ macroblock = PictureColumns * Row + Column
  BY <1>1, MacroblockIsInPicture
<1> DEFINE c == Column
           r == Row
           P == PictureColumns
           R == PictureRows
<1>3. c \in 0 .. P - 1 /\ r \in 0 .. R - 1 /\ P * r + c + 1 = P * R
  BY <1>2 DEF PositionAt
<1>4. P \in Nat \ {0} /\ R \in Nat \ {0}
  BY <1>1
<1> HIDE DEF c, r, P, R
<1>5. r = R - 1
  <2>1. SUFFICES ASSUME r + 1 <= R - 1 PROVE FALSE
    BY <1>3, <1>4
  <2>2. P * (r + 1) <= P * (R - 1)
    BY <1>3, <1>4, <2>1
  <2>3. P * (r + 1) = P * r + P /\ P * (R - 1) = P * R - P
    BY <1>3, <1>4
  <2>4. QED
    BY <1>3, <1>4, <2>2, <2>3
<1>6. P * R = P * r + P
  BY <1>3, <1>4, <1>5
<1>7. c + 1 = P /\ r + 1 = R
  BY <1>3, <1>4, <1>5, <1>6
<1>8. QED
  BY <1>7 DEF c, r, P, R

(* With that macroblock, those before the next one have been written.      *)
LEMMA NextMacroblockIn ==
  ASSUME NEW w, NEW column \in 0 .. PictureColumns - 1, NEW row \in Nat,
         EarlierIn(w, column, row), MacroblockIn(w, column, row)
  PROVE  /\ EarlierIn(w, column + 1, row)
         /\ column + 1 = PictureColumns => EarlierIn(w, 0, row + 1)
<1>1. ASSUME NEW plane \in Planes, NEW c \in BlockColumns(plane), NEW r \in Nat,
             \/ r < BlockSide(plane) * row
             \/ r < BlockSide(plane) * row + BlockSide(plane) /\ c < BlockSide(plane) * (column + 1)
      PROVE  <<c, r>> \in w[plane]
  <2>0. BlockSide(plane) \in {2, 4} /\ PictureColumns \in Nat \ {0}
    BY ReconstructionAssumption DEF BlockSide
  <2>1. CASE r < BlockSide(plane) * row \/ c < BlockSide(plane) * column
    BY <1>1, <2>1, <2>0 DEF EarlierIn
  <2>2. CASE ~(r < BlockSide(plane) * row) /\ ~(c < BlockSide(plane) * column)
    <3> DEFINE a == c - BlockSide(plane) * column
               b == r - BlockSide(plane) * row
    <3>1. a \in 0 .. BlockSide(plane) - 1 /\ b \in 0 .. BlockSide(plane) - 1
      BY <1>1, <2>0, <2>2 DEF BlockColumns
    <3>2. <<BlockSide(plane) * column + a, BlockSide(plane) * row + b>> \in w[plane]
      BY <3>1 DEF MacroblockIn
    <3>3. BlockSide(plane) * column + a = c /\ BlockSide(plane) * row + b = r
      BY <2>0 DEF BlockColumns
    <3>4. QED
      BY <3>2, <3>3
  <2>3. QED
    BY <2>1, <2>2
<1>2. EarlierIn(w, column + 1, row)
  BY <1>1 DEF EarlierIn
<1>3. ASSUME column + 1 = PictureColumns PROVE EarlierIn(w, 0, row + 1)
  <2>1. ASSUME NEW plane \in Planes, NEW c \in BlockColumns(plane), NEW r \in Nat,
               \/ r < BlockSide(plane) * (row + 1)
               \/ r < BlockSide(plane) * (row + 1) + BlockSide(plane) /\ c < BlockSide(plane) * 0
        PROVE  <<c, r>> \in w[plane]
    <3>0. BlockSide(plane) \in {2, 4} /\ PictureColumns \in Nat \ {0}
      BY ReconstructionAssumption DEF BlockSide
    <3>1. r < BlockSide(plane) * row + BlockSide(plane) /\ c < BlockSide(plane) * (column + 1)
      BY <1>3, <2>1, <3>0 DEF BlockColumns
    <3>2. QED
      BY <1>1, <3>1
  <2>2. QED
    BY <2>1 DEF EarlierIn
<1>4. QED
  BY <1>2, <1>3

(* Those before the row after the last one are the whole picture.          *)
LEMMA WholePictureIn ==
  ASSUME NEW w, EarlierIn(w, 0, PictureRows)
  PROVE  \A plane \in Planes : PictureBlocks(plane) \subseteq w[plane]
<1>1. ASSUME NEW plane \in Planes, NEW c \in BlockColumns(plane), NEW r \in 0 .. BlockSide(plane) * PictureRows - 1
      PROVE  <<c, r>> \in w[plane]
  <2>1. BlockSide(plane) \in {2, 4} /\ PictureRows \in Nat \ {0}
    BY ReconstructionAssumption DEF BlockSide
  <2>2. QED
    BY <2>1 DEF EarlierIn
<1>2. QED
  BY <1>1 DEF PictureBlocks

-----------------------------------------------------------------------------

(* Reads are of what was written if each pixel of them is.                 *)
LEMMA ReadsOfPlane ==
  ASSUME NEW w, NEW plane \in Planes, NEW S,
         \A p \in S : <<p[1] \div 4, p[2] \div 4>> \in w[plane]
  PROVE  ReadFrom({plane} \X S, w)
<1>1. ASSUME NEW read \in {plane} \X S PROVE read[1] = plane /\ read[2] \in S
  BY <1>1
<1>2. QED
  BY <1>1, Zenon DEF ReadFrom

(* predictors(), for a block of a whole macroblock: to its left and above  *)
(* it there are only macroblocks before it.                                *)
LEMMA WholePredictorsIn ==
  ASSUME NEW w, NEW plane \in Planes, NEW size, size = 4 * BlockSide(plane),
         NEW column, NEW row, PositionAt(column, row), EarlierIn(w, column, row)
  PROVE  ReadFrom(Predictors(plane, size, column, row), w)
<1>0. /\ column \in 0 .. PictureColumns - 1 /\ row \in 0 .. PictureRows - 1
      /\ PictureColumns \in Nat \ {0} /\ PictureRows \in Nat \ {0}
  BY ReconstructionAssumption DEF PositionAt
<1>1. BlockSide(plane) \in {2, 4} /\ size \in {8, 16}
  BY DEF BlockSide
<1>2. ASSUME NEW c \in Int, NEW r \in Int, 0 <= c, c < BlockSide(plane) * PictureColumns, 0 <= r,
             \/ r < BlockSide(plane) * row
             \/ r < BlockSide(plane) * row + BlockSide(plane) /\ c < BlockSide(plane) * column
      PROVE  <<c, r>> \in w[plane]
  <2>1. c \in BlockColumns(plane) /\ r \in Nat
    BY <1>0, <1>1, <1>2 DEF BlockColumns
  <2>2. QED
    BY <1>2, <2>1 DEF EarlierIn
<1>3. ASSUME NEW p \in PixelsLeft(size, column, row) PROVE <<p[1] \div 4, p[2] \div 4>> \in w[plane]
  <2>1. column > 0 /\ p \in {size * column - 1} \X (size * row .. size * row + size - 1)
    BY <1>3 DEF PixelsLeft
  <2>2. PICK x, y : p = <<x, y>> /\ x = size * column - 1 /\ y \in size * row .. size * row + size - 1
    BY <2>1
  <2>3. x \div 4 \in Int /\ y \div 4 \in Int /\ 0 <= x \div 4 /\ x \div 4 < BlockSide(plane) * column
        /\ 0 <= y \div 4 /\ y \div 4 < BlockSide(plane) * row + BlockSide(plane)
    BY <1>0, <1>1, <2>1, <2>2
  <2>4. x \div 4 < BlockSide(plane) * PictureColumns
    BY <1>0, <1>1, <2>3
  <2>5. <<x \div 4, y \div 4>> \in w[plane]
    BY <1>2, <2>3, <2>4
  <2>6. QED
    BY <2>2, <2>5
<1>4. ASSUME NEW p \in PixelsAbove(size, column, row) PROVE <<p[1] \div 4, p[2] \div 4>> \in w[plane]
  <2>1. row > 0 /\ p \in (size * column .. size * column + size - 1) \X {size * row - 1}
    BY <1>4 DEF PixelsAbove
  <2>2. PICK x, y : p = <<x, y>> /\ x \in size * column .. size * column + size - 1 /\ y = size * row - 1
    BY <2>1
  <2>3. x \div 4 \in Int /\ y \div 4 \in Int /\ 0 <= x \div 4 /\ x \div 4 < BlockSide(plane) * PictureColumns
        /\ 0 <= y \div 4 /\ y \div 4 < BlockSide(plane) * row
    BY <1>0, <1>1, <2>1, <2>2
  <2>4. <<x \div 4, y \div 4>> \in w[plane]
    BY <1>2, <2>3
  <2>5. QED
    BY <2>2, <2>4
<1>5. ASSUME NEW p \in PixelAboveLeft(size, column, row) PROVE <<p[1] \div 4, p[2] \div 4>> \in w[plane]
  <2>1. column > 0 /\ row > 0 /\ p = <<size * column - 1, size * row - 1>>
    BY <1>5 DEF PixelAboveLeft
  <2> DEFINE x == size * column - 1
             y == size * row - 1
  <2>2. x \div 4 \in Int /\ y \div 4 \in Int /\ 0 <= x \div 4 /\ x \div 4 < BlockSide(plane) * PictureColumns
        /\ 0 <= y \div 4 /\ y \div 4 < BlockSide(plane) * row
    BY <1>0, <1>1, <2>1
  <2>3. <<x \div 4, y \div 4>> \in w[plane]
    BY <1>2, <2>2
  <2>4. QED
    BY <2>1, <2>3
<1>6. Predictors(plane, size, column, row)
        = {plane} \X (PixelsLeft(size, column, row) \cup PixelsAbove(size, column, row)
                       \cup PixelAboveLeft(size, column, row) \cup {})
  BY <1>1 DEF Predictors
<1> DEFINE S == PixelsLeft(size, column, row) \cup PixelsAbove(size, column, row)
                \cup PixelAboveLeft(size, column, row) \cup {}
<1>7. \A p \in S : <<p[1] \div 4, p[2] \div 4>> \in w[plane]
  BY <1>3, <1>4, <1>5, Zenon
<1>8. ReadFrom({plane} \X S, w)
  <2> HIDE DEF S
  <2> QED
    BY <1>7, ReadsOfPlane
<1>9. QED
  BY <1>6, <1>8, Zenon

(* predictors(), for a subblock: to its left and above it there are the    *)
(* subblocks before it, or macroblocks before its own; what is to the      *)
(* right above it has been written too, since it is taken from above the   *)
(* macroblock where a later subblock, or a later macroblock, would be      *)
(* read.                                                                   *)
LEMMA SubblockPredictorsIn ==
  ASSUME NEW w, NEW column, NEW row, PositionAt(column, row), EarlierIn(w, column, row),
         NEW a \in 0 .. 3, NEW b \in 0 .. 3,
         \A i, j \in 0 .. 3 : 4 * j + i < 4 * b + a => <<4 * column + i, 4 * row + j>> \in w["Y"]
  PROVE  ReadFrom(Predictors("Y", 4, 4 * column + a, 4 * row + b), w)
<1>0. /\ column \in 0 .. PictureColumns - 1 /\ row \in 0 .. PictureRows - 1
      /\ PictureColumns \in Nat \ {0} /\ PictureRows \in Nat \ {0}
  BY ReconstructionAssumption DEF PositionAt
<1> DEFINE c4 == 4 * column + a
           r4 == 4 * row + b
<1>1. c4 \in Nat /\ r4 \in Nat /\ c4 < 4 * PictureColumns
  BY <1>0
<1>2. ASSUME NEW c \in Int, NEW r \in Int, 0 <= c, c < 4 * PictureColumns, 0 <= r,
             r < 4 * row \/ (r < 4 * row + 4 /\ c < 4 * column)
      PROVE  <<c, r>> \in w["Y"]
  <2>1. "Y" \in Planes /\ BlockSide("Y") = 4
    BY DEF Planes, BlockSide
  <2>2. QED
    BY <1>0, <1>2, <2>1 DEF EarlierIn, BlockColumns
<1>3. ASSUME NEW c \in Int, NEW r \in Int, 0 <= c, c < 4 * PictureColumns, 0 <= r,
             \/ r < r4 /\ r < 4 * row
             \/ r < r4 /\ c <= c4 + 1 /\ (c4 % 4 # 3 \/ c <= c4)
             \/ r = r4 /\ c < c4
      PROVE  <<c, r>> \in w["Y"]
  <2>1. CASE r < 4 * row \/ c < 4 * column
    BY <1>0, <1>2, <1>3, <2>1
  <2>2. CASE ~(r < 4 * row) /\ ~(c < 4 * column)
    <3> DEFINE i == c - 4 * column
               j == r - 4 * row
    <3>1. i \in 0 .. 3 /\ j \in 0 .. 3 /\ 4 * j + i < 4 * b + a
      BY <1>0, <1>3, <2>2
    <3>2. <<4 * column + i, 4 * row + j>> \in w["Y"]
      BY <3>1
    <3>3. 4 * column + i = c /\ 4 * row + j = r
      BY <1>0
    <3>4. QED
      BY <3>2, <3>3
  <2>3. QED
    BY <2>1, <2>2
<1> DEFINE S == PixelsLeft(4, c4, r4) \cup PixelsAbove(4, c4, r4) \cup PixelAboveLeft(4, c4, r4)
                \cup (IF 4 = 4 THEN AboveRight(c4, r4) ELSE {})
<1>4. ASSUME NEW x \in Int, NEW y \in Int, 0 <= x, x < 16 * PictureColumns, 0 <= y,
             \/ y < 4 * r4 /\ y < 16 * row
             \/ y < 4 * r4 /\ x < 4 * c4 + 8 /\ (c4 % 4 # 3 \/ x < 4 * c4 + 4)
             \/ y < 4 * r4 + 4 /\ x < 4 * c4
      PROVE  <<x \div 4, y \div 4>> \in w["Y"]
  <2>1. x \div 4 \in Int /\ y \div 4 \in Int /\ 0 <= x \div 4 /\ x \div 4 < 4 * PictureColumns /\ 0 <= y \div 4
    BY <1>0, <1>4
  <2>2. \/ y \div 4 < r4 /\ y \div 4 < 4 * row
        \/ y \div 4 < r4 /\ x \div 4 <= c4 + 1 /\ (c4 % 4 # 3 \/ x \div 4 <= c4)
        \/ y \div 4 = r4 /\ x \div 4 < c4
        \/ y \div 4 < r4 /\ x \div 4 <= c4
    BY <1>0, <1>1, <1>4
  <2>3. QED
    BY <1>3, <2>1, <2>2, <1>1
<1>5. ASSUME NEW p \in PixelsLeft(4, c4, r4) PROVE <<p[1] \div 4, p[2] \div 4>> \in w["Y"]
  <2>1. PICK x, y : p = <<x, y>> /\ c4 > 0 /\ x = 4 * c4 - 1 /\ y \in 4 * r4 .. 4 * r4 + 4 - 1
    <3>1. c4 > 0 /\ p \in {4 * c4 - 1} \X (4 * r4 .. 4 * r4 + 4 - 1)
      BY <1>5 DEF PixelsLeft
    <3>2. QED
      BY <3>1
  <2>2. /\ x \in Int /\ 0 <= x /\ x < 16 * PictureColumns /\ x < 4 * c4
        /\ y \in Int /\ 0 <= y /\ y < 4 * r4 + 4
    <3> HIDE DEF c4, r4
    <3> QED
      BY <1>0, <1>1, <2>1
  <2>3. <<x \div 4, y \div 4>> \in w["Y"]
    <3> HIDE DEF c4, r4
    <3> QED
      BY <1>4, <2>2
  <2>4. QED
    BY <2>1, <2>3
<1>6. ASSUME NEW p \in PixelsAbove(4, c4, r4) PROVE <<p[1] \div 4, p[2] \div 4>> \in w["Y"]
  <2>1. PICK x, y : p = <<x, y>> /\ r4 > 0 /\ x \in 4 * c4 .. 4 * c4 + 4 - 1 /\ y = 4 * r4 - 1
    <3>1. r4 > 0 /\ p \in (4 * c4 .. 4 * c4 + 4 - 1) \X {4 * r4 - 1}
      BY <1>6 DEF PixelsAbove
    <3>2. QED
      BY <3>1
  <2>2. /\ x \in Int /\ 0 <= x /\ x < 16 * PictureColumns /\ x < 4 * c4 + 8
        /\ c4 % 4 # 3 \/ x < 4 * c4 + 4
        /\ y \in Int /\ 0 <= y /\ y < 4 * r4
    <3> HIDE DEF c4, r4
    <3> QED
      BY <1>0, <1>1, <2>1
  <2>3. <<x \div 4, y \div 4>> \in w["Y"]
    <3> HIDE DEF c4, r4
    <3> QED
      BY <1>4, <2>2
  <2>4. QED
    BY <2>1, <2>3
<1>7. ASSUME NEW p \in PixelAboveLeft(4, c4, r4) PROVE <<p[1] \div 4, p[2] \div 4>> \in w["Y"]
  <2>1. c4 > 0 /\ r4 > 0 /\ p = <<4 * c4 - 1, 4 * r4 - 1>>
    BY <1>7 DEF PixelAboveLeft
  <2> DEFINE x == 4 * c4 - 1
             y == 4 * r4 - 1
  <2>2. /\ x \in Int /\ 0 <= x /\ x < 16 * PictureColumns /\ x < 4 * c4
        /\ y \in Int /\ 0 <= y /\ y < 4 * r4 + 4
    <3> HIDE DEF c4, r4
    <3> QED
      BY <1>0, <1>1, <2>1
  <2>3. <<x \div 4, y \div 4>> \in w["Y"]
    <3> HIDE DEF x, y, c4, r4
    <3> QED
      BY <1>4, <2>2
  <2>4. QED
    BY <2>1, <2>3
<1>8. ASSUME NEW p \in AboveRight(c4, r4) PROVE <<p[1] \div 4, p[2] \div 4>> \in w["Y"]
  <2> DEFINE above == (4 * ((r4 \div 4) * 4)) - 1
             next == 4 * (c4 + 1) .. 4 * (c4 + 1) + 3
  <2>1. r4 \div 4 = row /\ c4 % 4 = a /\ r4 % 4 = b
    BY <1>0
  <2>2. above = 16 * row - 1 /\ Widest("Y") = 16 * PictureColumns
    BY <1>0, <2>1 DEF Widest
  <2>3. r4 # 0
    BY <1>8 DEF AboveRight
  <2>4. CASE 4 * (c4 + 1) >= Widest("Y")
    <3>1. r4 >= 4 /\ p = <<4 * (c4 + 1) - 1, above>>
      BY <1>8, <2>3, <2>4 DEF AboveRight
    <3>2. row > 0
      BY <1>0, <3>1
    <3> DEFINE x == 4 * (c4 + 1) - 1
    <3>3. /\ x \in Int /\ 0 <= x /\ x < 16 * PictureColumns
          /\ above \in Int /\ 0 <= above /\ above < 4 * r4 /\ above < 16 * row
      BY <1>0, <1>1, <2>2, <3>2
    <3>4. <<x \div 4, above \div 4>> \in w["Y"]
      <4> HIDE DEF x, above, r4, c4
      <4> QED
        BY <1>4, <3>3
    <3>5. QED
      BY <3>1, <3>4
  <2>5. CASE ~(4 * (c4 + 1) >= Widest("Y")) /\ c4 % 4 = 3 /\ r4 % 4 # 0
    <3>1. r4 >= 4 /\ p \in next \X {above}
      BY <1>8, <2>3, <2>5 DEF AboveRight
    <3>2. PICK x, y : p = <<x, y>> /\ x \in next /\ y = above
      BY <3>1
    <3>3. row > 0 /\ c4 + 1 < 4 * PictureColumns
      BY <1>0, <1>1, <2>2, <2>5, <3>1
    <3>4. <<x \div 4, y \div 4>> \in w["Y"]
      BY <1>0, <1>1, <1>4, <2>2, <3>2, <3>3
    <3>5. QED
      BY <3>2, <3>4
  <2>6. CASE ~(4 * (c4 + 1) >= Widest("Y")) /\ ~(c4 % 4 = 3 /\ r4 % 4 # 0)
    <3>1. p \in next \X {4 * r4 - 1}
      BY <1>8, <2>3, <2>6 DEF AboveRight
    <3>2. PICK x, y : p = <<x, y>> /\ x \in next /\ y = 4 * r4 - 1
      BY <3>1
    <3>3. r4 > 0 /\ c4 + 1 < 4 * PictureColumns
      BY <1>0, <1>1, <2>2, <2>3, <2>6
    <3>4. c4 % 4 # 3 \/ r4 = 4 * row
      BY <1>0, <2>1, <2>6
    <3>5. <<x \div 4, y \div 4>> \in w["Y"]
      BY <1>0, <1>1, <1>4, <3>2, <3>3, <3>4
    <3>6. QED
      BY <3>2, <3>5
  <2>7. QED
    BY <2>4, <2>5, <2>6
<1>9. \A p \in S : <<p[1] \div 4, p[2] \div 4>> \in w["Y"]
  BY <1>5, <1>6, <1>7, <1>8, Zenon
<1>10. ReadFrom({"Y"} \X S, w)
  <2> HIDE DEF S
  <2>1. "Y" \in Planes
    BY DEF Planes
  <2> QED
    BY <1>9, <2>1, ReadsOfPlane
<1>11. QED
  BY <1>10, Zenon DEF Predictors

-----------------------------------------------------------------------------

(* A plane has at least the 8 by 8 pixels of a block of chroma.            *)
LEMMA PlaneSizes ==
  ASSUME NEW plane \in Planes
  PROVE  /\ Widest(plane) \in Nat /\ Widest(plane) >= 8
         /\ Highest(plane) \in Nat /\ Highest(plane) >= 8
BY ReconstructionAssumption DEF Widest, Highest

(* A window between two corners that are in the plane is inside it.        *)
LEMMA WindowsInside ==
  ASSUME NEW plane \in Planes, NEW x1 \in Int, NEW y1 \in Int, NEW x2 \in Int, NEW y2 \in Int,
         0 <= x1, x1 <= x2, x2 < Widest(plane), 0 <= y1, y1 <= y2, y2 < Highest(plane)
  PROVE  InsidePlane(PixelWindow(plane, <<x1, y1>>, <<x2, y2>>))
<1>1. plane # "margin"
  BY DEF Planes
<1> DEFINE w == PixelWindow(plane, <<x1, y1>>, <<x2, y2>>)
<1>2. w.plane = plane /\ w.first[1] = x1 /\ w.first[2] = y1 /\ w.last[1] = x2 /\ w.last[2] = y2
  BY DEF PixelWindow
<1>3. Widest(plane) \in Nat /\ Highest(plane) \in Nat
  BY PlaneSizes
<1>4. InsidePlane(w)
  <2> HIDE DEF w
  <2> QED
    BY <1>1, <1>2, <1>3 DEF InsidePlane
<1>5. QED
  BY <1>4

(* EdgeExtendedRaster: a place is moved into the plane, and the order of   *)
(* two places is kept.                                                     *)
LEMMA BoundedKeepsOrder ==
  ASSUME NEW m \in Int, NEW n \in Int, m <= n, NEW size \in Nat, size > 0
  PROVE  /\ Bounded(m, size) \in Int /\ Bounded(n, size) \in Int
         /\ 0 <= Bounded(m, size) /\ Bounded(m, size) <= Bounded(n, size) /\ Bounded(n, size) < size
BY DEF Bounded

(* inter_predict reads inside the plane, wherever the vector leads: either *)
(* the taps are far from its edges, or each is moved into it.              *)
LEMMA InterPredictInside ==
  ASSUME NEW plane \in Planes, NEW size \in {4, 8, 16}, NEW column \in Int, NEW row \in Int,
         NEW mv, mv[1] \in Int, mv[2] \in Int
  PROVE  InsidePlane(InterPredict(plane, size, column, row, mv))
<1> DEFINE x == column * size + (mv[1] \div 8)
           y == row * size + (mv[2] \div 8)
           width == Widest(plane)
           height == Highest(plane)
           taps == Taps(plane, size, <<x, y>>, mv)
           inter == InterPredict(plane, size, column, row, mv)
<1>1. x \in Int /\ y \in Int
  OBVIOUS
<1>2. PICK x1 \in Int, y1 \in Int, x2 \in Int, y2 \in Int :
        /\ taps = PixelWindow(plane, <<x1, y1>>, <<x2, y2>>)
        /\ x - 2 <= x1 /\ x1 <= x2 /\ x2 <= x + size + 2
        /\ y - 2 <= y1 /\ y1 <= y2 /\ y2 <= y + size + 2
  <2> HIDE DEF x, y
  <2>1. CASE mv[1] % 8 = 0 /\ mv[2] % 8 = 0
    <3>1. taps = PixelWindow(plane, <<x, y>>, <<x + size - 1, y + size - 1>>)
      BY <2>1 DEF Taps
    <3>2. /\ x \in Int /\ y \in Int /\ x + size - 1 \in Int /\ y + size - 1 \in Int
          /\ x - 2 <= x /\ x <= x + size - 1 /\ x + size - 1 <= x + size + 2
          /\ y - 2 <= y /\ y <= y + size - 1 /\ y + size - 1 <= y + size + 2
      BY <1>1
    <3>3. QED
      BY <3>1, <3>2, Zenon
  <2>2. CASE ~(mv[1] % 8 = 0 /\ mv[2] % 8 = 0)
    <3>1. taps = PixelWindow(plane, <<x - 2, y - 2>>, <<x + size + 2, y + size + 2>>)
      BY <2>2 DEF Taps
    <3>2. /\ x - 2 \in Int /\ y - 2 \in Int /\ x + size + 2 \in Int /\ y + size + 2 \in Int
          /\ x - 2 <= x - 2 /\ x - 2 <= x + size + 2 /\ x + size + 2 <= x + size + 2
          /\ y - 2 <= y - 2 /\ y - 2 <= y + size + 2 /\ y + size + 2 <= y + size + 2
      BY <1>1
    <3>3. QED
      BY <3>1, <3>2, Zenon
  <2>3. QED
    BY <2>1, <2>2
<1>3. width \in Nat /\ width >= 8 /\ height \in Nat /\ height >= 8
  BY PlaneSizes
<1>4. CASE NearEdge(x, size, width) \/ NearEdge(y, size, height)
  <2> DEFINE Extended(p) == <<Bounded(p[1], width), Bounded(p[2], height)>>
  <2>1. inter = [taps EXCEPT !.first = Extended(@), !.last = Extended(@)]
    BY <1>4 DEF InterPredict, Source
  <2>2. taps.plane = plane /\ taps.first = <<x1, y1>> /\ taps.last = <<x2, y2>>
        /\ taps = [plane |-> plane, first |-> <<x1, y1>>, last |-> <<x2, y2>>]
    BY <1>2 DEF PixelWindow
  <2>3. inter = [plane |-> plane, first |-> Extended(<<x1, y1>>), last |-> Extended(<<x2, y2>>)]
    <3> HIDE DEF inter, taps, Extended
    <3>1. inter = [[plane |-> plane, first |-> <<x1, y1>>, last |-> <<x2, y2>>]
                     EXCEPT !.first = Extended(@), !.last = Extended(@)]
      BY <2>1, <2>2
    <3>2. QED
      BY <3>1
  <2>4. inter = PixelWindow(plane, Extended(<<x1, y1>>), Extended(<<x2, y2>>))
    BY <2>3 DEF PixelWindow
  <2>5. /\ Bounded(x1, width) \in Int /\ Bounded(x2, width) \in Int
        /\ 0 <= Bounded(x1, width) /\ Bounded(x1, width) <= Bounded(x2, width) /\ Bounded(x2, width) < width
    <3>1. x1 <= x2 /\ width \in Nat /\ width > 0
      BY <1>2, <1>3
    <3>2. QED
      BY <3>1, BoundedKeepsOrder, Zenon
  <2>6. /\ Bounded(y1, height) \in Int /\ Bounded(y2, height) \in Int
        /\ 0 <= Bounded(y1, height) /\ Bounded(y1, height) <= Bounded(y2, height) /\ Bounded(y2, height) < height
    <3>1. y1 <= y2 /\ height \in Nat /\ height > 0
      BY <1>2, <1>3
    <3>2. QED
      BY <3>1, BoundedKeepsOrder, Zenon
  <2>7. QED
    <3>1. InsidePlane(PixelWindow(plane, Extended(<<x1, y1>>), Extended(<<x2, y2>>)))
      BY <2>5, <2>6, WindowsInside, Zenon
    <3>2. QED
      BY <2>4, <3>1, Zenon
<1>5. CASE ~(NearEdge(x, size, width) \/ NearEdge(y, size, height))
  <2>1. inter = taps
    BY <1>5 DEF InterPredict, Source
  <2>2. x - 2 >= 0 /\ x + size + 3 <= width /\ y - 2 >= 0 /\ y + size + 3 <= height
    <3> HIDE DEF x, y, width, height
    <3> QED
      BY <1>1, <1>3, <1>5 DEF NearEdge
  <2>3. 0 <= x1 /\ x2 < width /\ 0 <= y1 /\ y2 < height
    <3> HIDE DEF x, y, width, height
    <3> QED
      BY <1>1, <1>2, <1>3, <2>2
  <2>4. QED
    <3>1. InsidePlane(PixelWindow(plane, <<x1, y1>>, <<x2, y2>>))
      BY <1>2, <2>3, WindowsInside
    <3>2. QED
      BY <1>2, <2>1, <3>1, Zenon
<1>6. QED
  BY <1>4, <1>5

(* luma_to_chroma makes a vector of vectors.                               *)
LEMMA ChromaIsInteger ==
  ASSUME NEW v, \A i \in 1 .. 4 : v[i][1] \in Int /\ v[i][2] \in Int
  PROVE  LumaToChroma(v)[1] \in Int /\ LumaToChroma(v)[2] \in Int
<1>1. ASSUME NEW sum \in Int PROVE Chroma(sum) \in Int
  BY DEF Chroma, Int16
<1>2. v[1][1] + v[2][1] + v[3][1] + v[4][1] \in Int /\ v[1][2] + v[2][2] + v[3][2] + v[4][2] \in Int
  OBVIOUS
<1>3. QED
  BY <1>1, <1>2 DEF LumaToChroma

(* A vector has two components.                                            *)
LEMMA VectorsAreIntegers ==
  ASSUME NEW mv \in Vectors
  PROVE  mv[1] \in Int /\ mv[2] \in Int
<1>1. mv \in Int \X Int
  BY ReconstructionAssumption
<1>2. QED
  BY <1>1

(* Scorer::clamp: a block is searched for one macroblock beyond the        *)
(* picture at most, along one side of it.                                  *)
LEMMA SearchStaysInMargin ==
  ASSUME NEW n \in Int, NEW length \in Nat, NEW at \in 0 .. length - 1, NEW within \in Int,
         within = (LET low == -at * 128 - 128
                       high == (length - 1 - at) * 128 + 128
                   IN  IF n < low THEN low ELSE IF n > high THEN high ELSE n)
  PROVE  -16 <= at * 16 + (within \div 8) /\ at * 16 + (within \div 8) <= 16 * length
<1>1. -at * 128 - 128 <= within /\ within <= (length - 1 - at) * 128 + 128
  OBVIOUS
<1>2. QED
  BY <1>1

(* NormalLoopFilter::filter reads four pixels beyond an edge, and filters  *)
(* the edges of a macroblock only where there is one on the other side.    *)
LEMMA EdgeWindowsInside ==
  ASSUME NEW plane \in Planes, NEW size, size = 4 * BlockSide(plane), PositionAt(Column, Row),
         NEW skip \in BOOLEAN, NEW w \in EdgeWindows(plane, size, skip)
  PROVE  InsidePlane(w)
<1>0. /\ Column \in 0 .. PictureColumns - 1 /\ Row \in 0 .. PictureRows - 1
      /\ PictureColumns \in Nat \ {0} /\ PictureRows \in Nat \ {0}
  BY ReconstructionAssumption DEF PositionAt
<1>1. /\ size \in {8, 16} /\ Widest(plane) = size * PictureColumns /\ Highest(plane) = size * PictureRows
  BY DEF BlockSide, Planes, Widest, Highest
<1> DEFINE x == size * Column
           y == size * Row
           inside == IF skip THEN {} ELSE {n \in 4 .. size - 1 : n % 4 = 0}
           Vertical(n) == PixelWindow(plane, <<x + n - 4, y>>, <<x + n + 3, y + size - 1>>)
           Horizontal(n) == PixelWindow(plane, <<x, y + n - 4>>, <<x + size - 1, y + n + 3>>)
<1>2. /\ x \in Nat /\ y \in Nat /\ x + size <= Widest(plane) /\ y + size <= Highest(plane)
      /\ Column > 0 => x >= 8
      /\ Row > 0 => y >= 8
  BY <1>0, <1>1
<1>3. Widest(plane) \in Nat /\ Highest(plane) \in Nat
  BY PlaneSizes
<1>4. \A n \in inside : n \in 4 .. size - 4
  BY <1>1
<1>5. ASSUME NEW n \in inside \cup IF Column > 0 THEN {0} ELSE {} PROVE InsidePlane(Vertical(n))
  <2>1. n \in Int /\ x + n - 4 >= 0 /\ n + 4 <= size
    BY <1>1, <1>2, <1>4, <1>5
  <2>2. /\ x + n - 4 \in Int /\ x + n + 3 \in Int /\ y + size - 1 \in Int /\ 0 <= y
        /\ x + n - 4 <= x + n + 3 /\ x + n + 3 < Widest(plane) /\ y <= y + size - 1 /\ y + size - 1 < Highest(plane)
    <3> HIDE DEF x, y
    <3> QED
      BY <1>1, <1>2, <1>3, <2>1
  <2>3. QED
    <3> HIDE DEF x, y
    <3> QED
      BY <1>2, <2>1, <2>2, WindowsInside
<1>6. ASSUME NEW n \in inside \cup IF Row > 0 THEN {0} ELSE {} PROVE InsidePlane(Horizontal(n))
  <2>1. n \in Int /\ y + n - 4 >= 0 /\ n + 4 <= size
    BY <1>1, <1>2, <1>4, <1>6
  <2>2. /\ y + n - 4 \in Int /\ y + n + 3 \in Int /\ x + size - 1 \in Int /\ 0 <= x
        /\ y + n - 4 <= y + n + 3 /\ y + n + 3 < Highest(plane) /\ x <= x + size - 1 /\ x + size - 1 < Widest(plane)
    <3> HIDE DEF x, y
    <3> QED
      BY <1>1, <1>2, <1>3, <2>1
  <2>3. QED
    <3> HIDE DEF x, y
    <3> QED
      BY <1>2, <2>1, <2>2, WindowsInside
<1>7. w \in {Vertical(n) : n \in inside \cup IF Column > 0 THEN {0} ELSE {}}
            \cup {Horizontal(n) : n \in inside \cup IF Row > 0 THEN {0} ELSE {}}
  BY Zenon DEF EdgeWindows
<1>8. QED
  <2> HIDE DEF Vertical, Horizontal, inside
  <2> QED
    BY <1>5, <1>6, <1>7

-----------------------------------------------------------------------------

(* Blocks are added to what is written, of both planes.                    *)
LEMMA BlocksAreWritten ==
  ASSUME written \in [Planes -> SUBSET (Int \X Int)],
         \A plane \in Planes : written[plane] \subseteq PictureBlocks(plane),
         NEW luma \in SUBSET PictureBlocks("Y"), NEW chroma \in SUBSET PictureBlocks("UV"), WriteBlocks(luma, chroma)
  PROVE  /\ written'["Y"] = written["Y"] \cup luma /\ written'["UV"] = written["UV"] \cup chroma
         /\ written' \in [Planes -> SUBSET (Int \X Int)]
         /\ \A plane \in Planes : written'[plane] \subseteq PictureBlocks(plane)
         /\ \A plane \in Planes : written[plane] \subseteq written'[plane]
<1>1. written' = [written EXCEPT !["Y"] = @ \cup luma, !["UV"] = @ \cup chroma]
  BY DEF WriteBlocks
<1>2. written' = [plane \in Planes |-> IF plane = "Y" THEN written["Y"] \cup luma ELSE written["UV"] \cup chroma]
  BY <1>1 DEF Planes
<1>3. written'["Y"] = written["Y"] \cup luma /\ written'["UV"] = written["UV"] \cup chroma
  BY <1>2 DEF Planes
<1>4. \A plane \in Planes : written'[plane] \subseteq PictureBlocks(plane)
  BY <1>3, Zenon DEF Planes
<1>5. \A plane \in Planes : written[plane] \subseteq written'[plane]
  BY <1>3, Zenon DEF Planes
<1>6. PictureBlocks("Y") \subseteq Int \X Int /\ PictureBlocks("UV") \subseteq Int \X Int
  BY ReconstructionAssumption DEF PictureBlocks, BlockColumns, BlockSide
<1>7. written' \in [Planes -> SUBSET (Int \X Int)]
  <2>1. ASSUME NEW plane \in Planes PROVE PictureBlocks(plane) \subseteq Int \X Int
    BY <1>6, Zenon DEF Planes
  <2>2. \A plane \in Planes : written'[plane] \in SUBSET (Int \X Int)
    BY <1>4, <2>1, Zenon
  <2>3. written' = [plane \in Planes |-> written'[plane]]
    BY <1>2
  <2>4. QED
    BY <2>2, <2>3, Zenon
<1>8. QED
  BY <1>3, <1>4, <1>5, <1>7

(* What has been written stays written.                                    *)
LEMMA WrittenGrows ==
  ASSUME NEW w, NEW v, \A plane \in Planes : w[plane] \subseteq v[plane]
  PROVE  /\ \A column, row : EarlierIn(w, column, row) => EarlierIn(v, column, row)
         /\ \A reads : ReadFrom(reads, w) => ReadFrom(reads, v)
<1>1. ASSUME NEW column, NEW row, EarlierIn(w, column, row) PROVE EarlierIn(v, column, row)
  BY <1>1, Zenon DEF EarlierIn
<1>2. ASSUME NEW reads, ReadFrom(reads, w) PROVE ReadFrom(reads, v)
  BY <1>2, Zenon DEF ReadFrom
<1>3. QED
  BY <1>1, <1>2

(* The blocks of a macroblock, of one of its quarters and of a subblock    *)
(* are blocks of the picture.                                              *)
LEMMA BlocksInPicture ==
  ASSUME NEW column, NEW row, PositionAt(column, row)
  PROVE  /\ Blocks4(16, column, row) \in SUBSET PictureBlocks("Y")
         /\ Blocks4(8, column, row) \in SUBSET PictureBlocks("UV")
         /\ \A a, b \in 0 .. 1 : /\ Blocks4(8, 2 * column + a, 2 * row + b) \in SUBSET PictureBlocks("Y")
                                 /\ {<<2 * column + a, 2 * row + b>>} \in SUBSET PictureBlocks("UV")
         /\ \A a, b \in 0 .. 3 : {<<4 * column + a, 4 * row + b>>} \in SUBSET PictureBlocks("Y")
<1>0. /\ column \in 0 .. PictureColumns - 1 /\ row \in 0 .. PictureRows - 1
      /\ PictureColumns \in Nat \ {0} /\ PictureRows \in Nat \ {0}
  BY ReconstructionAssumption DEF PositionAt
<1>1. /\ PictureBlocks("Y") = (0 .. 4 * PictureColumns - 1) \X (0 .. 4 * PictureRows - 1)
      /\ PictureBlocks("UV") = (0 .. 2 * PictureColumns - 1) \X (0 .. 2 * PictureRows - 1)
  BY DEF PictureBlocks, BlockColumns, BlockSide
<1>2. Blocks4(16, column, row) = (4 * column .. 4 * column + 3) \X (4 * row .. 4 * row + 3)
  BY <1>0 DEF Blocks4
<1>3. \A c, r \in Int : Blocks4(8, c, r) = (2 * c .. 2 * c + 1) \X (2 * r .. 2 * r + 1)
  BY DEF Blocks4
<1>4. Blocks4(16, column, row) \in SUBSET PictureBlocks("Y")
  BY <1>0, <1>1, <1>2
<1>5. Blocks4(8, column, row) \in SUBSET PictureBlocks("UV")
  BY <1>0, <1>1, <1>3
<1>6. ASSUME NEW a \in 0 .. 1, NEW b \in 0 .. 1
      PROVE  /\ Blocks4(8, 2 * column + a, 2 * row + b) \in SUBSET PictureBlocks("Y")
             /\ {<<2 * column + a, 2 * row + b>>} \in SUBSET PictureBlocks("UV")
  <2>1. Blocks4(8, 2 * column + a, 2 * row + b)
          = (2 * (2 * column + a) .. 2 * (2 * column + a) + 1) \X (2 * (2 * row + b) .. 2 * (2 * row + b) + 1)
    BY <1>0, <1>3
  <2>2. Blocks4(8, 2 * column + a, 2 * row + b) \in SUBSET PictureBlocks("Y")
    BY <1>0, <1>1, <2>1
  <2>3. {<<2 * column + a, 2 * row + b>>} \in SUBSET PictureBlocks("UV")
    BY <1>0, <1>1
  <2>4. QED
    BY <2>2, <2>3
<1>7. ASSUME NEW a \in 0 .. 3, NEW b \in 0 .. 3
      PROVE  {<<4 * column + a, 4 * row + b>>} \in SUBSET PictureBlocks("Y")
  BY <1>0, <1>1
<1>8. QED
  BY <1>4, <1>5, <1>6, <1>7

(* The last step of a macroblock leads to the next one, or to the loop     *)
(* filter with the whole picture written.                                  *)
LEMMA MacroblockFinished ==
  ASSUME DecodedTyped, macroblock < PictureColumns * PictureRows, NextMacroblock,
         written' \in [Planes -> SUBSET (Int \X Int)],
         \A plane \in Planes : written'[plane] \subseteq PictureBlocks(plane),
         EarlierIn(written', Column, Row), MacroblockIn(written', Column, Row)
  PROVE  DecodedTyped' /\ InOrderWritten'
<1>0. /\ macroblock \in 0 .. PictureColumns * PictureRows
      /\ PictureColumns \in Nat \ {0} /\ PictureRows \in Nat \ {0}
  BY ReconstructionAssumption DEF DecodedTyped
<1>1. PositionAt(Column, Row)
  BY <1>0, MacroblockIsInPicture
<1>2. Column \in 0 .. PictureColumns - 1 /\ Row \in Nat
  BY <1>0, <1>1 DEF PositionAt
<1>3. /\ EarlierIn(written', Column + 1, Row)
      /\ Column + 1 = PictureColumns => EarlierIn(written', 0, Row + 1)
  BY <1>2, NextMacroblockIn
<1> DEFINE N == PictureColumns * PictureRows
<1>4. N \in Nat /\ N > 0
  BY <1>0
<1>5. macroblock' = (macroblock + 1) % N /\ stage' = Finished /\ subblock' = 0
  BY DEF NextMacroblock
<1>6. CASE macroblock + 1 < N
  <2>1. macroblock' = macroblock + 1 /\ stage' = "predict"
    <3>1. (macroblock + 1) % N = macroblock + 1
      <4> HIDE DEF N
      <4> QED
        BY <1>0, <1>4, <1>6
    <3>2. Finished = "predict"
      BY <1>4, <1>6, <1>0 DEF Finished
    <3>3. QED
      BY <1>5, <3>1, <3>2
  <2>2. EarlierIn(written', Column', Row')
    <3>1. IF Column + 1 < PictureColumns THEN Column' = Column + 1 /\ Row' = Row
          ELSE Column + 1 = PictureColumns /\ Column' = 0 /\ Row' = Row + 1
      BY <1>0, <1>6, <2>1, NextPosition
    <3>2. QED
      BY <1>3, <3>1, Zenon
  <2>3. macroblock' \in 0 .. N
    <3> HIDE DEF N
    <3> QED
      BY <1>0, <1>4, <1>6, <2>1
  <2>4. DecodedTyped'
    BY <1>5, <2>1, <2>3 DEF DecodedTyped
  <2>5. InOrderWritten'
    BY <2>1, <2>2, Zenon DEF InOrderWritten
  <2>6. QED
    BY <2>4, <2>5
<1>7. CASE ~(macroblock + 1 < N)
  <2>1. macroblock + 1 = N
    <3> HIDE DEF N
    <3> QED
      BY <1>4, <1>7, <1>0 DEF N
  <2>2. macroblock' = 0 /\ stage' = "filter"
    <3>1. (macroblock + 1) % N = 0
      <4> HIDE DEF N
      <4> QED
        BY <1>4, <2>1
    <3>2. Finished = "filter"
      BY <2>1 DEF Finished
    <3>3. QED
      BY <1>5, <3>1, <3>2
  <2>3. EarlierIn(written', 0, PictureRows)
    <3>1. Column + 1 = PictureColumns /\ Row + 1 = PictureRows
      BY <1>0, <2>1, LastPosition
    <3>2. QED
      BY <1>3, <3>1, Zenon
  <2>4. \A plane \in Planes : written'[plane] = PictureBlocks(plane)
    BY <2>3, WholePictureIn, Zenon
  <2>5. DecodedTyped'
    BY <1>4, <1>5, <2>2 DEF DecodedTyped
  <2>6. InOrderWritten'
    <3>1. ASSUME NEW plane \in Planes PROVE (written[plane] = PictureBlocks(plane))'
      BY <2>4
    <3>2. QED
      BY <2>2, <3>1 DEF InOrderWritten
  <2>7. QED
    BY <2>5, <2>6
<1>8. QED
  BY <1>6, <1>7

(* A macroblock that is written in one step.                               *)
LEMMA WholeMacroblock ==
  ASSUME DecodedTyped, InOrderWritten, stage = "predict", macroblock < PictureColumns * PictureRows,
         WriteBlocks(Blocks4(16, Column, Row), Blocks4(8, Column, Row)), NextMacroblock
  PROVE  /\ DecodedTyped' /\ InOrderWritten'
         /\ \A plane \in Planes : written[plane] \subseteq written'[plane]
<1>1. PositionAt(Column, Row)
  BY MacroblockIsInPicture DEF DecodedTyped
<1>2. /\ written'["Y"] = written["Y"] \cup Blocks4(16, Column, Row)
      /\ written'["UV"] = written["UV"] \cup Blocks4(8, Column, Row)
      /\ written' \in [Planes -> SUBSET (Int \X Int)]
      /\ \A plane \in Planes : written'[plane] \subseteq PictureBlocks(plane)
      /\ \A plane \in Planes : written[plane] \subseteq written'[plane]
  <2>1. /\ Blocks4(16, Column, Row) \in SUBSET PictureBlocks("Y")
        /\ Blocks4(8, Column, Row) \in SUBSET PictureBlocks("UV")
    BY <1>1, BlocksInPicture, Zenon
  <2>2. /\ written \in [Planes -> SUBSET (Int \X Int)]
        /\ \A plane \in Planes : written[plane] \subseteq PictureBlocks(plane)
    BY DEF DecodedTyped
  <2>3. QED
    BY <2>1, <2>2, BlocksAreWritten, Zenon
<1>3. EarlierIn(written, Column, Row)
  BY DEF InOrderWritten
<1>4. EarlierIn(written', Column, Row)
  BY <1>2, <1>3, WrittenGrows, Zenon
<1>5. Column \in Nat /\ Row \in Nat
  BY <1>1, ReconstructionAssumption DEF PositionAt
<1>6. MacroblockIn(written', Column, Row)
  <2>1. ASSUME NEW a \in 0 .. 3, NEW b \in 0 .. 3
        PROVE  <<4 * Column + a, 4 * Row + b>> \in Blocks4(16, Column, Row)
    BY <1>5 DEF Blocks4
  <2>2. ASSUME NEW a \in 0 .. 1, NEW b \in 0 .. 1
        PROVE  <<2 * Column + a, 2 * Row + b>> \in Blocks4(8, Column, Row)
    BY <1>5 DEF Blocks4
  <2>3. ASSUME NEW a \in 0 .. 3, NEW b \in 0 .. 3 PROVE <<4 * Column + a, 4 * Row + b>> \in written'["Y"]
    BY <1>2, <2>1, Zenon
  <2>4. ASSUME NEW a \in 0 .. 1, NEW b \in 0 .. 1 PROVE <<2 * Column + a, 2 * Row + b>> \in written'["UV"]
    BY <1>2, <2>2, Zenon
  <2>5. QED
    BY <2>3, <2>4 DEF MacroblockIn, BlockSide, Planes
<1>7. QED
  BY <1>2, <1>4, <1>6, MacroblockFinished

(* The chroma of a macroblock whose subblocks are predicted one by one.    *)
LEMMA ChromaStarted ==
  ASSUME DecodedTyped, InOrderWritten, macroblock < PictureColumns * PictureRows, StartSubblocks
  PROVE  /\ DecodedTyped' /\ InOrderWritten'
         /\ \A plane \in Planes : written[plane] \subseteq written'[plane]
<1>1. /\ stage = "predict" /\ stage' = "B_PRED" /\ macroblock' = macroblock /\ subblock' = subblock
      /\ WriteBlocks({}, Blocks4(8, Column, Row))
  BY DEF StartSubblocks
<1>2. PositionAt(Column, Row)
  BY MacroblockIsInPicture DEF DecodedTyped
<1>3. /\ written'["UV"] = written["UV"] \cup Blocks4(8, Column, Row)
      /\ written' \in [Planes -> SUBSET (Int \X Int)]
      /\ \A plane \in Planes : written'[plane] \subseteq PictureBlocks(plane)
      /\ \A plane \in Planes : written[plane] \subseteq written'[plane]
  <2>1. /\ Blocks4(8, Column, Row) \in SUBSET PictureBlocks("UV")
        /\ {} \in SUBSET PictureBlocks("Y")
    BY <1>2, BlocksInPicture, Zenon
  <2>2. /\ written \in [Planes -> SUBSET (Int \X Int)]
        /\ \A plane \in Planes : written[plane] \subseteq PictureBlocks(plane)
    BY DEF DecodedTyped
  <2>3. QED
    BY <1>1, <2>1, <2>2, BlocksAreWritten, Zenon
<1>4. EarlierIn(written, Column, Row) /\ subblock = 0
  BY <1>1 DEF InOrderWritten, DecodedTyped
<1>5. EarlierIn(written', Column, Row)
  BY <1>3, <1>4, WrittenGrows, Zenon
<1>6. Column' = Column /\ Row' = Row
  BY <1>1 DEF Column, Row
<1>7. SubblocksIn(written, subblock)'
  <2>1. ASSUME NEW a \in 0 .. 1, NEW b \in 0 .. 1 PROVE <<2 * Column + a, 2 * Row + b>> \in written'["UV"]
    <3>1. <<2 * Column + a, 2 * Row + b>> \in Blocks4(8, Column, Row)
      BY <1>2, ReconstructionAssumption DEF PositionAt, Blocks4
    <3>2. QED
      BY <1>3, <3>1, Zenon
  <2>2. \A a, b \in 0 .. 3 : ~(4 * b + a < subblock')
    BY <1>1, <1>4
  <2>3. QED
    BY <1>6, <2>1, <2>2 DEF SubblocksIn
<1>8. DecodedTyped'
  BY <1>1, <1>3, <1>4 DEF DecodedTyped
<1>9. InOrderWritten'
  <2>1. EarlierIn(written', Column', Row')
    BY <1>5, <1>6, Zenon
  <2>2. QED
    BY <1>1, <1>7, <2>1 DEF InOrderWritten
<1>10. QED
  BY <1>3, <1>8, <1>9

(* A subblock, from the subblocks before it.                               *)
LEMMA SubblockPredicted ==
  ASSUME DecodedTyped, InOrderWritten, macroblock < PictureColumns * PictureRows, PredictSubblock
  PROVE  /\ DecodedTyped' /\ InOrderWritten'
         /\ \A plane \in Planes : written[plane] \subseteq written'[plane]
         /\ ReadFrom(predictors', written)
<1> DEFINE a == subblock % 4
           b == subblock \div 4
<1>1. /\ stage = "B_PRED" /\ predictors' = Predictors("Y", 4, 4 * Column + a, 4 * Row + b)
      /\ WriteBlocks({<<4 * Column + a, 4 * Row + b>>}, {})
      /\ IF subblock = 15 THEN NextMacroblock ELSE subblock' = subblock + 1 /\ UNCHANGED <<stage, macroblock>>
  BY DEF PredictSubblock
<1>2. subblock \in 0 .. 15 /\ a \in 0 .. 3 /\ b \in 0 .. 3 /\ subblock = 4 * b + a
  BY <1>1 DEF DecodedTyped
<1>3. PositionAt(Column, Row) /\ Column \in Nat /\ Row \in Nat
  <2>1. PositionAt(Column, Row)
    BY MacroblockIsInPicture DEF DecodedTyped
  <2>2. QED
    BY <2>1, ReconstructionAssumption DEF PositionAt
<1>4. /\ EarlierIn(written, Column, Row)
      /\ \A i, j \in 0 .. 1 : <<2 * Column + i, 2 * Row + j>> \in written["UV"]
      /\ \A i, j \in 0 .. 3 : 4 * j + i < subblock => <<4 * Column + i, 4 * Row + j>> \in written["Y"]
  BY <1>1 DEF InOrderWritten, SubblocksIn
<1>5. ReadFrom(predictors', written)
  <2>1. \A i, j \in 0 .. 3 : 4 * j + i < 4 * b + a => <<4 * Column + i, 4 * Row + j>> \in written["Y"]
    BY <1>2, <1>4
  <2>2. ReadFrom(Predictors("Y", 4, 4 * Column + a, 4 * Row + b), written)
    <3> HIDE DEF a, b
    <3> QED
      BY <1>2, <1>3, <1>4, <2>1, SubblockPredictorsIn
  <2>3. QED
    BY <1>1, <2>2, Zenon
<1>6. /\ written'["Y"] = written["Y"] \cup {<<4 * Column + a, 4 * Row + b>>}
      /\ written' \in [Planes -> SUBSET (Int \X Int)]
      /\ \A plane \in Planes : written'[plane] \subseteq PictureBlocks(plane)
      /\ \A plane \in Planes : written[plane] \subseteq written'[plane]
  <2>1. {<<4 * Column + a, 4 * Row + b>>} \in SUBSET PictureBlocks("Y")
    <3> HIDE DEF a, b
    <3> QED
      BY <1>2, <1>3, BlocksInPicture
  <2>2. {} \in SUBSET PictureBlocks("UV")
    OBVIOUS
  <2>3. QED
    <3> HIDE DEF a, b
    <3> QED
      BY <1>1, <2>1, <2>2, BlocksAreWritten DEF DecodedTyped
<1>7. EarlierIn(written', Column, Row)
  BY <1>4, <1>6, WrittenGrows, Zenon
<1>8. ASSUME NEW i \in 0 .. 1, NEW j \in 0 .. 1 PROVE <<2 * Column + i, 2 * Row + j>> \in written'["UV"]
  <2>1. written["UV"] \subseteq written'["UV"]
    BY <1>6 DEF Planes
  <2>2. QED
    BY <1>4, <2>1
<1>9. ASSUME NEW i \in 0 .. 3, NEW j \in 0 .. 3, 4 * j + i < subblock + 1
      PROVE  <<4 * Column + i, 4 * Row + j>> \in written'["Y"]
  <2>1. CASE 4 * j + i < subblock
    BY <1>4, <1>6, <2>1
  <2>2. CASE ~(4 * j + i < subblock)
    <3>1. i = a /\ j = b
      BY <1>2, <1>9, <2>2
    <3>2. QED
      BY <1>6, <3>1
  <2>3. QED
    BY <2>1, <2>2
<1>10. CASE subblock = 15
  <2>1. MacroblockIn(written', Column, Row)
    <3>1. ASSUME NEW i \in 0 .. 3, NEW j \in 0 .. 3 PROVE <<4 * Column + i, 4 * Row + j>> \in written'["Y"]
      BY <1>9, <1>10
    <3>2. QED
      BY <1>8, <3>1 DEF MacroblockIn, BlockSide, Planes
  <2>2. DecodedTyped' /\ InOrderWritten'
    BY <1>1, <1>6, <1>7, <1>10, <2>1, MacroblockFinished
  <2>3. QED
    BY <1>5, <1>6, <2>2
<1>11. CASE subblock # 15
  <2>1. subblock' = subblock + 1 /\ stage' = "B_PRED" /\ macroblock' = macroblock
    BY <1>1, <1>11
  <2>2. Column' = Column /\ Row' = Row
    BY <2>1 DEF Column, Row
  <2>3. DecodedTyped'
    BY <1>1, <1>2, <1>6, <1>11, <2>1 DEF DecodedTyped
  <2>4. SubblocksIn(written, subblock)'
    BY <1>8, <1>9, <2>1, <2>2 DEF SubblocksIn
  <2>5. EarlierIn(written', Column', Row')
    BY <1>7, <2>2, Zenon
  <2>6. InOrderWritten'
    BY <2>1, <2>4, <2>5 DEF InOrderWritten
  <2>7. QED
    BY <1>5, <1>6, <2>3, <2>6
<1>12. QED
  BY <1>10, <1>11

(* A place of a subblock is that of its quarter and one in the quarter.    *)
LEMMA TwoBits ==
  ASSUME NEW i \in 0 .. 3
  PROVE  \E p \in 0 .. 1, k \in 0 .. 1 : i = 2 * p + k
<1>1. CASE i < 2
  <2>1. 0 \in 0 .. 1 /\ i \in 0 .. 1 /\ i = 2 * 0 + i
    BY <1>1
  <2>2. QED
    BY <2>1, Zenon
<1>2. CASE ~(i < 2)
  <2>1. 1 \in 0 .. 1 /\ i - 2 \in 0 .. 1 /\ i = 2 * 1 + (i - 2)
    BY <1>2
  <2>2. QED
    BY <2>1, Zenon
<1>3. QED
  BY <1>1, <1>2

(* A quarter of a macroblock with four or more vectors, from another       *)
(* picture.                                                                *)
LEMMA QuarterPredicted ==
  ASSUME DecodedTyped, InOrderWritten, macroblock < PictureColumns * PictureRows,
         NEW v \in [1 .. 4 -> Vectors], PredictQuarter(v)
  PROVE  /\ DecodedTyped' /\ InOrderWritten'
         /\ \A w \in window' : InsidePlane(w)
         /\ predictors' = {}
<1> DEFINE a == subblock % 2
           b == subblock \div 2
           column == 2 * Column + a
           row == 2 * Row + b
<1>1. /\ stage = "SPLITMV" /\ predictors' = {}
      /\ WriteBlocks(Blocks4(8, column, row), {<<column, row>>})
      /\ IF subblock = 3 THEN NextMacroblock ELSE subblock' = subblock + 1 /\ UNCHANGED <<stage, macroblock>>
  BY DEF PredictQuarter
<1>2. subblock \in 0 .. 3 /\ a \in 0 .. 1 /\ b \in 0 .. 1 /\ subblock = 2 * b + a
  BY <1>1 DEF DecodedTyped
<1>3. PositionAt(Column, Row) /\ Column \in Nat /\ Row \in Nat
  <2>1. PositionAt(Column, Row)
    BY MacroblockIsInPicture DEF DecodedTyped
  <2>2. QED
    BY <2>1, ReconstructionAssumption DEF PositionAt
<1>4. EarlierIn(written, Column, Row) /\ QuartersIn(written, subblock)
  BY <1>1 DEF InOrderWritten
<1>5. column \in Nat /\ row \in Nat
  BY <1>2, <1>3
<1>6. \A w \in window' : InsidePlane(w)
  <2>1. window' = {InterPredict("UV", 4, column, row, LumaToChroma(v))}
                  \cup {InterPredict("Y", 4, 2 * column + ((i - 1) % 2), 2 * row + ((i - 1) \div 2), v[i]) :
                          i \in 1 .. 4}
    BY DEF PredictQuarter
  <2>2. \A i \in 1 .. 4 : v[i][1] \in Int /\ v[i][2] \in Int
    BY VectorsAreIntegers
  <2>3. InsidePlane(InterPredict("UV", 4, column, row, LumaToChroma(v)))
    <3>1. LumaToChroma(v)[1] \in Int /\ LumaToChroma(v)[2] \in Int
      BY <2>2, ChromaIsInteger
    <3>2. column \in Int /\ row \in Int /\ "UV" \in Planes /\ 4 \in {4, 8, 16}
      BY <1>5 DEF Planes
    <3>3. QED
      BY <3>1, <3>2, InterPredictInside, Zenon
  <2>4. ASSUME NEW i \in 1 .. 4
        PROVE  InsidePlane(InterPredict("Y", 4, 2 * column + ((i - 1) % 2), 2 * row + ((i - 1) \div 2), v[i]))
    <3>1. /\ 2 * column + ((i - 1) % 2) \in Int /\ 2 * row + ((i - 1) \div 2) \in Int
          /\ "Y" \in Planes /\ 4 \in {4, 8, 16} /\ v[i][1] \in Int /\ v[i][2] \in Int
      BY <1>5, <2>2 DEF Planes
    <3>2. QED
      BY <3>1, InterPredictInside, Zenon
  <2>5. QED
    <3> HIDE DEF column, row
    <3> QED
      BY <2>1, <2>3, <2>4
<1>7. /\ written'["Y"] = written["Y"] \cup Blocks4(8, column, row)
      /\ written'["UV"] = written["UV"] \cup {<<column, row>>}
      /\ written' \in [Planes -> SUBSET (Int \X Int)]
      /\ \A plane \in Planes : written'[plane] \subseteq PictureBlocks(plane)
      /\ \A plane \in Planes : written[plane] \subseteq written'[plane]
  <2>1. Blocks4(8, column, row) \in SUBSET PictureBlocks("Y") /\ {<<column, row>>} \in SUBSET PictureBlocks("UV")
    <3> HIDE DEF a, b
    <3> QED
      BY <1>2, <1>3, BlocksInPicture
  <2>2. QED
    <3> HIDE DEF column, row
    <3> QED
      BY <1>1, <2>1, BlocksAreWritten DEF DecodedTyped
<1>8. EarlierIn(written', Column, Row)
  BY <1>4, <1>7, WrittenGrows, Zenon
<1>9. ASSUME NEW i \in 0 .. 1, NEW j \in 0 .. 1, 2 * j + i < subblock + 1
      PROVE  /\ <<2 * Column + i, 2 * Row + j>> \in written'["UV"]
             /\ \A k, l \in 0 .. 1 : <<4 * Column + 2 * i + k, 4 * Row + 2 * j + l>> \in written'["Y"]
  <2>1. CASE 2 * j + i < subblock
    BY <1>4, <1>7, <2>1 DEF QuartersIn
  <2>2. CASE ~(2 * j + i < subblock)
    <3>1. i = a /\ j = b
      BY <1>2, <1>9, <2>2
    <3>2. <<2 * Column + i, 2 * Row + j>> = <<column, row>>
      BY <3>1
    <3>3. ASSUME NEW k \in 0 .. 1, NEW l \in 0 .. 1
          PROVE  <<4 * Column + 2 * i + k, 4 * Row + 2 * j + l>> \in Blocks4(8, column, row)
      <4>1. Blocks4(8, column, row) = (2 * column .. 2 * column + 1) \X (2 * row .. 2 * row + 1)
        <5> HIDE DEF column, row
        <5> QED
          BY <1>5 DEF Blocks4
      <4>2. 4 * Column + 2 * i + k \in 2 * column .. 2 * column + 1 /\ 4 * Row + 2 * j + l \in 2 * row .. 2 * row + 1
        <5> HIDE DEF a, b
        <5> QED
          BY <1>2, <1>3, <3>1
      <4>3. QED
        BY <4>1, <4>2
    <3>4. QED
      BY <1>7, <3>2, <3>3, Zenon
  <2>3. QED
    BY <2>1, <2>2
<1>10. CASE subblock = 3
  <2>1. ASSUME NEW i \in 0 .. 1, NEW j \in 0 .. 1
        PROVE  /\ <<2 * Column + i, 2 * Row + j>> \in written'["UV"]
               /\ \A k, l \in 0 .. 1 : <<4 * Column + 2 * i + k, 4 * Row + 2 * j + l>> \in written'["Y"]
    BY <1>9, <1>10
  <2>2. ASSUME NEW i \in 0 .. 3, NEW j \in 0 .. 3 PROVE <<4 * Column + i, 4 * Row + j>> \in written'["Y"]
    <3>1. PICK p \in 0 .. 1, k \in 0 .. 1 : i = 2 * p + k
      BY TwoBits
    <3>2. PICK q \in 0 .. 1, l \in 0 .. 1 : j = 2 * q + l
      BY TwoBits
    <3>3. <<4 * Column + 2 * p + k, 4 * Row + 2 * q + l>> \in written'["Y"]
      BY <2>1, Zenon
    <3>4. 4 * Column + 2 * p + k = 4 * Column + i /\ 4 * Row + 2 * q + l = 4 * Row + j
      BY <1>3, <3>1, <3>2
    <3>5. QED
      BY <3>3, <3>4
  <2>3. \A i, j \in 0 .. 1 : <<2 * Column + i, 2 * Row + j>> \in written'["UV"]
    BY <2>1, Zenon
  <2>4. MacroblockIn(written', Column, Row)
    BY <2>2, <2>3 DEF MacroblockIn, BlockSide, Planes
  <2>5. DecodedTyped' /\ InOrderWritten'
    BY <1>1, <1>7, <1>8, <1>10, <2>4, MacroblockFinished
  <2>6. QED
    BY <1>1, <1>6, <2>5
<1>11. CASE subblock # 3
  <2>1. subblock' = subblock + 1 /\ stage' = "SPLITMV" /\ macroblock' = macroblock
    BY <1>1, <1>11
  <2>2. Column' = Column /\ Row' = Row
    BY <2>1 DEF Column, Row
  <2>3. DecodedTyped'
    BY <1>1, <1>2, <1>7, <1>11, <2>1 DEF DecodedTyped
  <2>4. QuartersIn(written, subblock)'
    BY <1>9, <2>1, <2>2 DEF QuartersIn
  <2>5. EarlierIn(written', Column', Row')
    BY <1>8, <2>2, Zenon
  <2>6. InOrderWritten'
    BY <2>1, <2>4, <2>5 DEF InOrderWritten
  <2>7. QED
    BY <1>1, <1>6, <2>3, <2>6
<1>12. QED
  BY <1>10, <1>11

(* A macroblock predicted as a whole, from this picture or from another.   *)
LEMMA WholePredicted ==
  ASSUME DecodedTyped, InOrderWritten, macroblock < PictureColumns * PictureRows,
         ReconstructIntra \/ (\E mv \in Vectors : ReconstructInter(mv))
  PROVE  /\ DecodedTyped' /\ InOrderWritten'
         /\ \A plane \in Planes : written[plane] \subseteq written'[plane]
         /\ ReadFrom(predictors', written)
         /\ \A w \in window' : InsidePlane(w)
<1>0. /\ stage = "predict" /\ NextMacroblock
      /\ WriteBlocks(Blocks4(16, Column, Row), Blocks4(8, Column, Row))
  BY DEF ReconstructIntra, ReconstructInter
<1>1. PositionAt(Column, Row)
  BY MacroblockIsInPicture DEF DecodedTyped
<1>2. EarlierIn(written, Column, Row)
  BY <1>0 DEF InOrderWritten
<1>3. /\ DecodedTyped' /\ InOrderWritten'
      /\ \A plane \in Planes : written[plane] \subseteq written'[plane]
  BY <1>0, WholeMacroblock
<1>4. CASE ReconstructIntra
  <2>1. predictors' = Predictors("UV", 8, Column, Row) \cup Predictors("Y", 16, Column, Row) /\ window' = {}
    BY <1>4 DEF ReconstructIntra
  <2>2. ReadFrom(Predictors("UV", 8, Column, Row), written) /\ ReadFrom(Predictors("Y", 16, Column, Row), written)
    <3>1. /\ "UV" \in Planes /\ 8 = 4 * BlockSide("UV")
          /\ "Y" \in Planes /\ 16 = 4 * BlockSide("Y")
      BY DEF Planes, BlockSide
    <3>2. QED
      BY <1>1, <1>2, <3>1, WholePredictorsIn, Zenon
  <2>3. ReadFrom(predictors', written)
    BY <2>1, <2>2, Zenon DEF ReadFrom
  <2>4. QED
    BY <1>3, <2>1, <2>3
<1>5. CASE \E mv \in Vectors : ReconstructInter(mv)
  <2>1. PICK mv \in Vectors : ReconstructInter(mv)
    BY <1>5
  <2>2. /\ predictors' = {}
        /\ window' = {InterPredict("Y", 16, Column, Row, mv),
                      InterPredict("UV", 8, Column, Row, LumaToChroma([i \in 1 .. 4 |-> mv]))}
    BY <2>1 DEF ReconstructInter
  <2>3. Column \in Int /\ Row \in Int
    BY <1>1, ReconstructionAssumption DEF PositionAt
  <2>4. mv[1] \in Int /\ mv[2] \in Int
    BY VectorsAreIntegers
  <2>5. InsidePlane(InterPredict("Y", 16, Column, Row, mv))
    <3>1. "Y" \in Planes /\ 16 \in {4, 8, 16}
      BY DEF Planes
    <3>2. QED
      BY <2>3, <2>4, <3>1, InterPredictInside, Zenon
  <2>6. InsidePlane(InterPredict("UV", 8, Column, Row, LumaToChroma([i \in 1 .. 4 |-> mv])))
    <3> DEFINE v == [i \in 1 .. 4 |-> mv]
    <3>1. "UV" \in Planes /\ 8 \in {4, 8, 16}
      BY DEF Planes
    <3>2. \A i \in 1 .. 4 : v[i][1] \in Int /\ v[i][2] \in Int
      BY <2>4
    <3>3. LumaToChroma(v)[1] \in Int /\ LumaToChroma(v)[2] \in Int
      <4> HIDE DEF v
      <4> QED
        BY <3>2, ChromaIsInteger
    <3>4. QED
      BY <2>3, <3>1, <3>3, InterPredictInside, Zenon
  <2>7. ReadFrom(predictors', written)
    BY <2>2 DEF ReadFrom
  <2>8. QED
    BY <1>3, <2>2, <2>5, <2>6, <2>7
<1>6. QED
  BY <1>4, <1>5

(* The search never looks beyond the margin of the raster it searches.     *)
LEMMA SearchLooksInside ==
  ASSUME DecodedTyped, macroblock < PictureColumns * PictureRows, NEW mv \in Vectors, SearchAt(mv)
  PROVE  \A w \in window' : InsidePlane(w)
<1> DEFINE InMargin(n, at, length) == LET low == -at * 128 - 128
                                        high == (length - 1 - at) * 128 + 128
                                    IN  IF n < low THEN low ELSE IF n > high THEN high ELSE n
           mx == InMargin(mv[1], Column, PictureColumns)
           my == InMargin(mv[2], Row, PictureRows)
           x == Column * 16 + (mx \div 8)
           y == Row * 16 + (my \div 8)
<1>0. /\ Column \in 0 .. PictureColumns - 1 /\ Row \in 0 .. PictureRows - 1
      /\ PictureColumns \in Nat \ {0} /\ PictureRows \in Nat \ {0}
      /\ mv[1] \in Int /\ mv[2] \in Int
  BY MacroblockIsInPicture, ReconstructionAssumption, VectorsAreIntegers DEF PositionAt, DecodedTyped
<1>1. mx \in Int /\ my \in Int
  BY <1>0
<1>2. -16 <= x /\ x <= 16 * PictureColumns /\ x \in Int
  BY <1>0, <1>1, SearchStaysInMargin
<1>3. -16 <= y /\ y <= 16 * PictureRows /\ y \in Int
  BY <1>0, <1>1, SearchStaysInMargin
<1>4. window' = {Taps("margin", 16, <<x, y>>, <<mx, my>>)}
  BY DEF SearchAt, Source
<1>5. InsidePlane(Taps("margin", 16, <<x, y>>, <<mx, my>>))
  <2> DEFINE taps == Taps("margin", 16, <<x, y>>, <<mx, my>>)
  <2>1. \/ taps = PixelWindow("margin", <<x, y>>, <<x + 15, y + 15>>)
        \/ taps = PixelWindow("margin", <<x - 2, y - 2>>, <<x + 18, y + 18>>)
    <3> HIDE DEF x, y, mx, my
    <3> QED
      BY <1>2, <1>3 DEF Taps
  <2>2. /\ taps.plane = "margin"
        /\ -18 <= taps.first[1] /\ taps.first[1] <= taps.last[1] /\ taps.last[1] <= 16 * PictureColumns + 18
        /\ -18 <= taps.first[2] /\ taps.first[2] <= taps.last[2] /\ taps.last[2] <= 16 * PictureRows + 18
        /\ taps.first[1] \in Int /\ taps.last[1] \in Int /\ taps.first[2] \in Int /\ taps.last[2] \in Int
    <3> HIDE DEF x, y, mx, my, taps
    <3> QED
      BY <1>0, <1>2, <1>3, <2>1 DEF PixelWindow
  <2>3. Widest("Y") = 16 * PictureColumns /\ Highest("Y") = 16 * PictureRows
    BY DEF Widest, Highest
  <2>4. InsidePlane(taps)
    <3> HIDE DEF taps
    <3> QED
      BY <1>0, <2>2, <2>3 DEF InsidePlane, MARGIN_WIDTH
  <2>5. QED
    BY <2>4
<1>6. QED
  BY <1>4, <1>5, Zenon

(* The loop filter never looks beyond the planes.                          *)
LEMMA FilterStaysInside ==
  ASSUME DecodedTyped, stage = "filter", NEW filter_level, NEW skip \in BOOLEAN, FilterMacroblock(filter_level, skip)
  PROVE  \A w \in window' : InsidePlane(w)
<1>1. PositionAt(Column, Row)
  BY MacroblockIsInPicture DEF DecodedTyped
<1>2. "Y" \in Planes /\ "UV" \in Planes /\ 16 = 4 * BlockSide("Y") /\ 8 = 4 * BlockSide("UV")
  BY DEF Planes, BlockSide
<1>3. window' \subseteq EdgeWindows("Y", 16, skip) \cup EdgeWindows("UV", 8, skip)
  BY DEF FilterMacroblock
<1>4. QED
  BY <1>1, <1>2, <1>3, EdgeWindowsInside, Zenon

(* The loop filter goes through the macroblocks of a picture that has been *)
(* written.                                                                *)
LEMMA FilterKeepsWritten ==
  ASSUME DecodedTyped, InOrderWritten, NEW filter_level, NEW skip, FilterMacroblock(filter_level, skip)
  PROVE  DecodedTyped' /\ InOrderWritten'
<1>1. /\ stage = "filter" /\ macroblock' = macroblock + 1 /\ written' = written /\ subblock' = subblock
      /\ stage' = IF macroblock' = PictureColumns * PictureRows THEN "predict" ELSE stage
  BY DEF FilterMacroblock
<1> DEFINE N == PictureColumns * PictureRows
<1>2. N \in Nat /\ macroblock \in 0 .. N /\ macroblock < N
  BY <1>1, ReconstructionAssumption DEF DecodedTyped
<1>3. /\ macroblock' \in 0 .. N
      /\ stage' \in {"predict", "filter"}
      /\ stage' # "predict" => macroblock' < N
  <2>1. stage' = IF macroblock' = N THEN "predict" ELSE stage
    BY <1>1
  <2> HIDE DEF N
  <2>2. QED
    BY <1>1, <1>2, <2>1
<1>4. DecodedTyped'
  BY <1>1, <1>3 DEF DecodedTyped
<1>5. InOrderWritten'
  <2>1. CASE macroblock' = N
    <3>1. stage' = "predict" /\ ~(macroblock' < N)
      <4>1. stage' = "predict"
        BY <1>1, <2>1
      <4> HIDE DEF N
      <4>2. QED
        BY <1>2, <2>1, <4>1
    <3>2. QED
      BY <3>1 DEF InOrderWritten
  <2>2. CASE macroblock' # N
    <3>1. stage' = "filter"
      BY <1>1, <2>2
    <3>2. \A plane \in Planes : written'[plane] = PictureBlocks(plane)
      BY <1>1 DEF InOrderWritten
    <3>3. ASSUME NEW plane \in Planes PROVE (written[plane] = PictureBlocks(plane))'
      BY <3>2
    <3>4. QED
      BY <3>1, <3>3 DEF InOrderWritten
  <2>3. QED
    BY <2>1, <2>2
<1>6. QED
  BY <1>4, <1>5

(* The next frame has another raster, of which nothing has been written.   *)
LEMMA NextFrameStartsEmpty ==
  ASSUME DecodedTyped, NextFrame
  PROVE  DecodedTyped' /\ InOrderWritten'
<1>1. /\ stage = "predict" /\ stage' = "predict" /\ subblock' = subblock /\ macroblock' = 0
      /\ written' = [plane \in Planes |-> {}]
  BY DEF NextFrame
<1>2. PictureColumns \in Nat \ {0} /\ PictureRows \in Nat \ {0} /\ PictureColumns * PictureRows \in Nat
  BY ReconstructionAssumption
<1>3. DecodedTyped'
  BY <1>1, <1>2 DEF DecodedTyped, Planes
<1>4. Column' = 0 /\ Row' = 0
  BY <1>1, <1>2 DEF Column, Row
<1>5. EarlierIn(written', 0, 0)
  <2>1. ASSUME NEW plane \in Planes, NEW c \in BlockColumns(plane), NEW r \in Nat
        PROVE  ~(\/ r < BlockSide(plane) * 0
                 \/ r < BlockSide(plane) * 0 + BlockSide(plane) /\ c < BlockSide(plane) * 0)
    BY DEF BlockColumns, BlockSide
  <2>2. QED
    BY <2>1, Zenon DEF EarlierIn
<1>6. InOrderWritten'
  BY <1>1, <1>4, <1>5 DEF InOrderWritten
<1>7. QED
  BY <1>3, <1>6

(* Nothing is written of a macroblock before its first quarter.            *)
LEMMA SplitStarted ==
  ASSUME DecodedTyped, InOrderWritten, macroblock < PictureColumns * PictureRows, StartSplit
  PROVE  DecodedTyped' /\ InOrderWritten'
<1>1. /\ stage = "predict" /\ stage' = "SPLITMV"
      /\ UNCHANGED <<macroblock, subblock, written>>
  BY DEF StartSplit
<1>2. subblock = 0 /\ EarlierIn(written, Column, Row)
  BY <1>1 DEF DecodedTyped, InOrderWritten
<1>3. DecodedTyped'
  BY <1>1, <1>2 DEF DecodedTyped
<1>4. Column' = Column /\ Row' = Row
  BY <1>1 DEF Column, Row
<1>5. QuartersIn(written, subblock)'
  BY <1>1, <1>2 DEF QuartersIn
<1>6. EarlierIn(written', Column', Row')
  BY <1>1, <1>2, <1>4, Zenon
<1>7. InOrderWritten'
  BY <1>1, <1>5, <1>6 DEF InOrderWritten
<1>8. QED
  BY <1>3, <1>7

(* SearchAt changes neither what is written nor where the decoder is.      *)
LEMMA UnchangedKeepsOrder ==
  ASSUME DecodedTyped, InOrderWritten, UNCHANGED <<stage, macroblock, subblock, written>>
  PROVE  DecodedTyped' /\ InOrderWritten'
<1>1. Column' = Column /\ Row' = Row
  BY DEF Column, Row
<1>2. DecodedTyped'
  BY DEF DecodedTyped
<1>3. /\ SubblocksIn(written, subblock)' = SubblocksIn(written, subblock)
      /\ QuartersIn(written, subblock)' = QuartersIn(written, subblock)
  BY <1>1 DEF SubblocksIn, QuartersIn
<1>4. InOrderWritten'
  BY <1>1, <1>3 DEF InOrderWritten
<1>5. QED
  BY <1>2, <1>4

(* Every step keeps the invariant, and reads what was written before it.   *)
LEMMA ReconstructionStep ==
  ASSUME ReconstructionInv, ReconstructionNext
  PROVE  ReconstructionInv' /\ ReadFrom(predictors', written)
<1> USE DEF ReconstructionInv
<1> SUFFICES /\ DecodedTyped' /\ InOrderWritten'
             /\ ReadFrom(predictors', written') /\ ReadFrom(predictors', written)
             /\ \A w \in window' : InsidePlane(w)
  BY DEF ReadsInsidePlanes
<1>0. \A w : ReadFrom({}, w)
  BY DEF ReadFrom
<1>1. CASE DecodeNext
  <2>1. macroblock < PictureColumns * PictureRows
    BY <1>1 DEF DecodeNext
  <2>2. CASE ReconstructIntra \/ (\E mv \in Vectors : ReconstructInter(mv))
    <3>1. /\ DecodedTyped' /\ InOrderWritten'
          /\ \A plane \in Planes : written[plane] \subseteq written'[plane]
          /\ ReadFrom(predictors', written)
          /\ \A w \in window' : InsidePlane(w)
      BY <2>1, <2>2, WholePredicted
    <3>2. QED
      BY <3>1, WrittenGrows, Zenon
  <2>3. CASE StartSubblocks
    <3>1. /\ DecodedTyped' /\ InOrderWritten'
          /\ \A plane \in Planes : written[plane] \subseteq written'[plane]
      BY <2>1, <2>3, ChromaStarted
    <3>2. predictors' = Predictors("UV", 8, Column, Row) /\ window' = {} /\ stage = "predict"
      BY <2>3 DEF StartSubblocks
    <3>3. PositionAt(Column, Row) /\ EarlierIn(written, Column, Row)
      BY <2>1, <3>2, MacroblockIsInPicture DEF DecodedTyped, InOrderWritten
    <3>4. "UV" \in Planes /\ 8 = 4 * BlockSide("UV")
      BY DEF Planes, BlockSide
    <3>5. ReadFrom(predictors', written)
      BY <3>2, <3>3, <3>4, WholePredictorsIn, Zenon
    <3>6. QED
      BY <3>1, <3>2, <3>5, WrittenGrows, Zenon
  <2>4. CASE PredictSubblock
    <3>1. /\ DecodedTyped' /\ InOrderWritten'
          /\ \A plane \in Planes : written[plane] \subseteq written'[plane]
          /\ ReadFrom(predictors', written)
      BY <2>1, <2>4, SubblockPredicted
    <3>2. window' = {}
      BY <2>4 DEF PredictSubblock
    <3>3. QED
      BY <3>1, <3>2, WrittenGrows, Zenon
  <2>5. CASE StartSplit
    <3>1. DecodedTyped' /\ InOrderWritten'
      BY <2>1, <2>5, SplitStarted
    <3>2. predictors' = predictors /\ window' = window /\ written' = written
      BY <2>5 DEF StartSplit
    <3>3. QED
      BY <3>1, <3>2 DEF ReadsInsidePlanes
  <2>6. CASE \E mv \in Vectors : SearchAt(mv)
    <3>1. PICK mv \in Vectors : SearchAt(mv)
      BY <2>6
    <3>2. predictors' = {} /\ UNCHANGED <<stage, macroblock, subblock, written>>
      BY <3>1 DEF SearchAt
    <3>3. DecodedTyped' /\ InOrderWritten'
      BY <3>2, UnchangedKeepsOrder
    <3>4. \A w \in window' : InsidePlane(w)
      BY <2>1, <3>1, SearchLooksInside
    <3>5. QED
      BY <1>0, <3>2, <3>3, <3>4
  <2>7. CASE \E v \in [1 .. 4 -> Vectors] : PredictQuarter(v)
    <3>1. PICK v \in [1 .. 4 -> Vectors] : PredictQuarter(v)
      BY <2>7
    <3>2. DecodedTyped' /\ InOrderWritten' /\ predictors' = {} /\ \A w \in window' : InsidePlane(w)
      BY <2>1, <3>1, QuarterPredicted
    <3>3. QED
      BY <1>0, <3>2
  <2>8. QED
    BY <1>1, <2>2, <2>3, <2>4, <2>5, <2>6, <2>7 DEF DecodeNext
<1>2. CASE NextFrame
  <2>1. DecodedTyped' /\ InOrderWritten'
    BY <1>2, NextFrameStartsEmpty
  <2>2. predictors' = {} /\ window' = {}
    BY <1>2 DEF NextFrame
  <2>3. QED
    BY <1>0, <2>1, <2>2
<1>3. CASE \E filter_level \in {0, 1}, skip \in BOOLEAN : FilterMacroblock(filter_level, skip)
  <2>1. PICK filter_level \in {0, 1}, skip \in BOOLEAN : FilterMacroblock(filter_level, skip)
    BY <1>3
  <2>2. stage = "filter" /\ predictors' = {}
    BY <2>1 DEF FilterMacroblock
  <2>3. DecodedTyped' /\ InOrderWritten'
    BY <2>1, FilterKeepsWritten
  <2>4. \A w \in window' : InsidePlane(w)
    BY <2>1, <2>2, FilterStaysInside
  <2>5. QED
    BY <1>0, <2>2, <2>3, <2>4
<1>4. QED
  BY <1>1, <1>2, <1>3 DEF ReconstructionNext

(* The decoder starts before the first macroblock, with nothing written.   *)
LEMMA ReconstructionStartsRight == ReconstructionInit => ReconstructionInv
<1> SUFFICES ASSUME ReconstructionInit PROVE ReconstructionInv
  OBVIOUS
<1>1. /\ stage = "predict" /\ macroblock = 0 /\ subblock = 0
      /\ written = [plane \in Planes |-> {}]
      /\ predictors = {} /\ window = {}
  BY DEF ReconstructionInit
<1>2. PictureColumns \in Nat \ {0} /\ PictureRows \in Nat \ {0} /\ PictureColumns * PictureRows \in Nat
  BY ReconstructionAssumption
<1>3. DecodedTyped
  BY <1>1, <1>2 DEF DecodedTyped, Planes
<1>4. Column = 0 /\ Row = 0
  BY <1>1, <1>2 DEF Column, Row
<1>5. EarlierIn(written, 0, 0)
  <2>1. ASSUME NEW plane \in Planes, NEW c \in BlockColumns(plane), NEW r \in Nat
        PROVE  ~(\/ r < BlockSide(plane) * 0
                 \/ r < BlockSide(plane) * 0 + BlockSide(plane) /\ c < BlockSide(plane) * 0)
    BY DEF BlockColumns, BlockSide
  <2>2. QED
    BY <2>1, Zenon DEF EarlierIn
<1>6. InOrderWritten
  BY <1>1, <1>4, <1>5 DEF InOrderWritten
<1>7. QED
  BY <1>1, <1>3, <1>6 DEF ReconstructionInv, ReadFrom, ReadsInsidePlanes

(* The invariant of Reconstruction is inductive.                           *)
LEMMA ReconstructionInductive ==
  ReconstructionInv /\ [ReconstructionNext]_reconstructionVars => ReconstructionInv'
<1> SUFFICES ASSUME ReconstructionInv, [ReconstructionNext]_reconstructionVars PROVE ReconstructionInv'
  OBVIOUS
<1>1. CASE ReconstructionNext
  BY <1>1, ReconstructionStep
<1>2. CASE UNCHANGED reconstructionVars
  <2>1. UNCHANGED <<stage, macroblock, subblock, written>> /\ predictors' = predictors /\ window' = window
    BY <1>2 DEF reconstructionVars
  <2>2. DecodedTyped' /\ InOrderWritten'
    BY <2>1, UnchangedKeepsOrder DEF ReconstructionInv
  <2>3. ReadFrom(predictors', written') /\ ReadsInsidePlanes'
    BY <2>1 DEF ReconstructionInv, ReadsInsidePlanes
  <2>4. QED
    BY <2>2, <2>3 DEF ReconstructionInv
<1>3. QED
  BY <1>1, <1>2

(* For pictures of every size and for every motion vector: a prediction    *)
(* from this picture reads only what this frame has written, never what an *)
(* older one has left in the raster, and no window of another picture, of  *)
(* the search or of the loop filter goes beyond the plane (decode,         *)
(* reconstruct_intra, reconstruct_inter, inter_predict and loopfilter).    *)
THEOREM PredictsFromThisPictureHolds ==
  ReconstructionInit /\ [][ReconstructionNext]_reconstructionVars => PredictsFromThisPicture
<1>1. ReconstructionInv /\ [ReconstructionNext]_reconstructionVars
        => [\A read \in predictors' :
              <<read[2][1] \div 4, read[2][2] \div 4>> \in written[read[1]]]_reconstructionVars
  <2> SUFFICES ASSUME ReconstructionInv, ReconstructionNext
               PROVE  \A read \in predictors' : <<read[2][1] \div 4, read[2][2] \div 4>> \in written[read[1]]
    OBVIOUS
  <2>1. ReadFrom(predictors', written)
    BY ReconstructionStep
  <2>2. QED
    BY <2>1, Zenon DEF ReadFrom
<1>2. ReconstructionInv => ReadsInsidePlanes
  BY DEF ReconstructionInv
<1>3. QED
  BY <1>1, <1>2, ReconstructionInductive, ReconstructionStartsRight, PTL
     DEF PredictsFromThisPicture, PredictsFromWritten

(* The 4 by 4 blocks of a picture are as many as fill its planes.          *)
LEMMA WholePictureCounted ==
  ASSUME NEW plane \in Planes
  PROVE  16 * Cardinality(PictureBlocks(plane)) = Widest(plane) * Highest(plane)
<1> DEFINE n == BlockSide(plane)
           P == PictureColumns
           R == PictureRows
<1>1. n \in {2, 4} /\ P \in Nat \ {0} /\ R \in Nat \ {0}
  BY ReconstructionAssumption DEF BlockSide
<1>2. Widest(plane) = 4 * n * P /\ Highest(plane) = 4 * n * R
  BY DEF Widest, Highest, BlockSide, Planes
<1>3. n * P \in Nat /\ n * R \in Nat /\ n * P > 0 /\ n * R > 0
  BY <1>1
<1>4. /\ IsFiniteSet(0 .. n * P - 1) /\ Cardinality(0 .. n * P - 1) = n * P
      /\ IsFiniteSet(0 .. n * R - 1) /\ Cardinality(0 .. n * R - 1) = n * R
  <2> DEFINE p == n * P
             r == n * R
  <2>1. p \in Nat /\ r \in Nat /\ p > 0 /\ r > 0
    BY <1>3
  <2> HIDE DEF p, r
  <2>2. /\ IsFiniteSet(0 .. p - 1) /\ Cardinality(0 .. p - 1) = p
        /\ IsFiniteSet(0 .. r - 1) /\ Cardinality(0 .. r - 1) = r
    <3>1. /\ 0 \in Int /\ p - 1 \in Int /\ ~(0 > p - 1) /\ p - 1 - 0 + 1 = p
          /\ r - 1 \in Int /\ ~(0 > r - 1) /\ r - 1 - 0 + 1 = r
      BY <2>1
    <3>2. QED
      BY <3>1, FS_Interval
  <2>3. QED
    BY <2>2 DEF p, r
<1>5. Cardinality(PictureBlocks(plane)) = (n * P) * (n * R)
  <2> DEFINE S == 0 .. n * P - 1
             T == 0 .. n * R - 1
  <2>1. PictureBlocks(plane) = S \X T
    BY DEF PictureBlocks, BlockColumns
  <2>2. Cardinality(S \X T) = Cardinality(S) * Cardinality(T)
    <3> HIDE DEF S, T
    <3> QED
      BY <1>4, FS_Product DEF S, T
  <2>3. QED
    BY <1>4, <2>1, <2>2
<1>6. 16 * ((n * P) * (n * R)) = (4 * n * P) * (4 * n * R)
  <2> HIDE DEF P, R, n
  <2>1. CASE n = 2
    BY <1>1, <2>1
  <2>2. CASE n = 4
    BY <1>1, <2>2
  <2>3. QED
    BY <1>1, <2>1, <2>2
<1>7. QED
  BY <1>2, <1>5, <1>6, Zenon

(* The decoder writes inside the planes, and the loop filter starts on a   *)
(* picture that has been written to the last block, for every size of      *)
(* picture.                                                                *)
THEOREM ReconstructionTypeCorrect ==
  ReconstructionInit /\ [][ReconstructionNext]_reconstructionVars => []ReconstructionTypeOK
<1>1. ReconstructionInv => ReconstructionTypeOK
  <2> SUFFICES ASSUME ReconstructionInv PROVE ReconstructionTypeOK
    OBVIOUS
  <2>1. DecodedTyped /\ InOrderWritten
    BY DEF ReconstructionInv
  <2>2. ASSUME NEW plane \in Planes, NEW block \in written[plane]
        PROVE  4 * block[1] < Widest(plane) /\ 4 * block[2] < Highest(plane)
    <3>1. block \in PictureBlocks(plane)
      BY <2>1, <2>2 DEF DecodedTyped
    <3>2. PICK c, r : block = <<c, r>> /\ c \in 0 .. BlockSide(plane) * PictureColumns - 1
                      /\ r \in 0 .. BlockSide(plane) * PictureRows - 1
      BY <3>1 DEF PictureBlocks, BlockColumns
    <3>3. PictureColumns \in Nat \ {0} /\ PictureRows \in Nat \ {0}
      BY ReconstructionAssumption
    <3>4. QED
      BY <3>2, <3>3 DEF Widest, Highest, BlockSide, Planes
  <2>3. stage = "filter" => \A plane \in Planes : 16 * Cardinality(written[plane]) = Widest(plane) * Highest(plane)
    <3>1. SUFFICES ASSUME stage = "filter", NEW plane \in Planes
                   PROVE  16 * Cardinality(written[plane]) = Widest(plane) * Highest(plane)
      OBVIOUS
    <3>2. written[plane] = PictureBlocks(plane)
      BY <2>1, <3>1 DEF InOrderWritten
    <3>3. QED
      BY <3>2, WholePictureCounted, Zenon
  <2>4. subblock \in 0 .. 15 /\ (stage \in {"predict", "filter"} => subblock = 0)
    BY <2>1 DEF DecodedTyped
  <2>5. QED
    BY <2>1, <2>2, <2>3, <2>4 DEF ReconstructionTypeOK, DecodedTyped
<1>2. QED
  BY <1>1, ReconstructionInductive, ReconstructionStartsRight, PTL
=============================================================================
