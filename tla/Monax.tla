-------------------------------- MODULE Monax --------------------------------
(***************************************************************************)
(* The rate controller of src/net/monax.cc, and how the sender uses it.    *)
(* A pool of linear models, of which one is in use, predicts for each frame*)
(* sent whether to send faster (1) or slower (0); the delays decide; the   *)
(* interval between packets moves by a step that the histories of          *)
(* predictions and labels scale.  What the floating-point arithmetic gives *)
(* (predictions, utilities, accuracies) is chosen freely; the histories, the*)
(* steps, the interval and the choice of the model are as in the code.     *)
(***************************************************************************)
EXTENDS Integers, Sequences

CONSTANTS
  ModelNum,             \* model_num
  SaveHistory,          \* SAVEHISTORY
  IntervalMax,          \* INTERVAL_MAX
  MaxActions            \* actions taken, a bound of the model

ASSUME MonaxAssumption ==
  /\ ModelNum \in Nat \ {0, 1} /\ MaxActions \in Nat
  /\ SaveHistory \in Nat /\ SaveHistory >= 4
  /\ IntervalMax \in Nat /\ IntervalMax >= 500

VARIABLES
  monitored,            \* samples in each vector of current_monitor_para
  actions,              \* actions taken
  SndPeriod,
  steps,                \* speedup_step and slowdown_step
  history_prediction, history_label, history_decision, \* Seq([of, is]), with
                        \* the action that each entry is about, a history variable
  current_model, used_model,
  accuracies            \* the size of model_accuracy

monaxVars ==
  <<monitored, actions, SndPeriod, steps, history_prediction, history_label,
    history_decision, current_model, used_model, accuracies>>

IntervalMin == 10
MonitorLen == 10
StepMax == 300
StepMin == 50
StepChangeRate == 50

Entries == [of : 0 .. MaxActions, is : {0, 1}]

MonaxTypeOK ==
  /\ monitored \in 0 .. MonitorLen
  /\ actions \in 0 .. MaxActions
  /\ SndPeriod \in IntervalMin .. IntervalMax
  /\ steps \in [{"speedup", "slowdown"} -> StepMin .. StepMax]
  /\ \A h \in {history_prediction, history_label, history_decision} :
       h \in Seq(Entries) /\ Len(h) <= SaveHistory
  /\ current_model \in 0 .. ModelNum - 1
  /\ used_model \in 0 .. ModelNum - 1 /\ accuracies \in 0 .. ModelNum - 1

(* Monax CC_Monax(5, 0.2, 1.0, 0.2, 0.2, 30.0, 500).                       *)
MonaxInit ==
  /\ monitored = 0
  /\ actions = 0
  /\ SndPeriod = 500
  /\ steps = [s \in {"speedup", "slowdown"} |-> 100]
  /\ history_prediction = << >> /\ history_label = << >> /\ history_decision = << >>
  /\ current_model = 0 /\ used_model = 0 /\ accuracies = 0

Within(low, high, n) == IF n < low THEN low ELSE IF n > high THEN high ELSE n

LastOf(h) == h[Len(h)]

(* A history keeps its last entries.                                       *)
Push(h, entry) == IF Len(h) < SaveHistory THEN Append(h, entry) ELSE Append(Tail(h), entry)

(* The first action (coldstart) makes an entry of each history up.         *)
Made == [of |-> 0, is |-> 0]
OrMade(h) == IF actions = 0 THEN <<Made>> ELSE h

(* Looks at the decision before the last one.                              *)
MutantNewLabel(better) ==
  IF actions = 0 THEN Made
  ELSE LET last == history_decision[Len(history_decision) - 1]
       IN  [of |-> last.of, is |-> IF better THEN last.is ELSE 1 - last.is]

(* A rising utility says that the last decision was right.                 *)
NewLabel(better) ==
  IF actions = 0 THEN Made
  ELSE LET last == LastOf(history_decision)
       IN  [of |-> last.of, is |-> IF better THEN last.is ELSE 1 - last.is]

-----------------------------------------------------------------------------

(* Ones among four entries of a history.                                   *)
Ones(h, n) == h[n - 3].is + h[n - 2].is + h[n - 1].is + h[n].is

(* int(step * (0.5 + predicted / labelled)).  The quotient is inexact for  *)
(* three labels.  A quotient by 0 is no int: the conversion may give the   *)
(* least or the greatest one.                                              *)
Scaled(step, predicted, labelled) ==
  IF labelled = 0 THEN {StepMin, StepMax}
  ELSE LET n == step * (labelled + 2 * predicted)
           d == 2 * labelled
       IN  {n \div d} \cup (IF labelled = 3 /\ n % d = 0 THEN {n \div d - 1} ELSE {})

(* Does not clamp the step.                                                *)
MutantClamped(n) == n

Clamped(n) == Within(StepMin, StepMax, n)

(* The steps, once there are four labels.                                  *)
ScaledSteps(predictions, labels) ==
  LET n == Len(labels)
      predicted == Ones(predictions, n)
      labelled == Ones(labels, n)
  IN  IF n <= 3 THEN {steps}
      ELSE {[speedup |-> Clamped(up), slowdown |-> Clamped(down)] :
              up \in Scaled(steps.speedup, predicted, labelled),
              down \in Scaled(steps.slowdown, 4 - predicted, 4 - labelled)}

(* The prediction of the model in use decides only when the mean delay is  *)
(* at the threshold: rand() % 100 / 100 is an integer, and 0.              *)
Decision(mean, prediction) ==
  CASE mean = "low" -> 1 [] mean = "high" -> 0 [] mean = "equal" -> prediction

(* A direction confirmed twice makes its step longer.                      *)
Confirmed(decisions, direction, step) ==
  LET n == Len(decisions)
  IN  IF decisions[n - 1].is = direction /\ decisions[n].is = direction
      THEN Within(0, StepMax, step + StepChangeRate) ELSE step

(* The probability that the decision is left with, above or below a half:  *)
(* the complement of the model's if they disagree.  It is a half if the    *)
(* model is of two minds, as each is until it has learnt.                  *)
Result(prediction, undecided, decision) ==
  CASE undecided -> "half"
    [] ~undecided /\ prediction = 1 -> IF decision = 1 THEN "above" ELSE "below"
    [] ~undecided /\ prediction = 0 -> IF decision = 0 THEN "below" ELSE "above"

(* rate_control.                                                           *)
RateControl(result, decisions, st) ==
  LET up == Confirmed(decisions, 1, st.speedup)
      down == Confirmed(decisions, 0, st.slowdown)
  IN  CASE result = "above" -> /\ steps' = [st EXCEPT !.speedup = up]
                               /\ SndPeriod' = Within(IntervalMin, IntervalMax, SndPeriod - up)
        [] result = "below" -> /\ steps' = [st EXCEPT !.slowdown = down]
                               /\ SndPeriod' = Within(IntervalMin, IntervalMax, SndPeriod + down)
        [] result = "half" -> steps' = st /\ UNCHANGED SndPeriod

AllUsed == used_model = ModelNum - 1

(* argmax only sees the entries that have been pushed.                     *)
Rated == 0 .. accuracies - 1

(* Three rises of the delay in a row: the next model, as long as there are *)
(* any; then the most accurate of those that have an entry in              *)
(* model_accuracy, which the last one (written past the end) has not.      *)
ChangeModel ==
  IF ~AllUsed
  THEN current_model' = current_model + 1 /\ used_model' = used_model + 1
       /\ accuracies' = accuracies + 1
  ELSE current_model' \in Rated /\ UNCHANGED <<used_model, accuracies>>

KeepModel == UNCHANGED <<current_model, used_model, accuracies>>

-----------------------------------------------------------------------------

(* A frame is sent: the delays are recorded, and nothing is decided before *)
(* there are enough.                                                       *)
RecordSample ==
  /\ monitored < MonitorLen - 1
  /\ monitored' = monitored + 1
  /\ UNCHANGED <<actions, SndPeriod, steps, history_prediction, history_label,
                 history_decision, current_model, used_model, accuracies>>

(* calcCCPara and action, which the sender runs for each frame it sends.   *)
TakeAction(better, prediction, undecided, mean) ==
  /\ monitored >= MonitorLen - 1
  /\ actions < MaxActions
  /\ undecided => prediction = 0
  /\ monitored' = MonitorLen
  /\ actions' = actions + 1
  /\ LET labels == Push(history_label, NewLabel(better))
         decision == Decision(mean, prediction)
     IN  /\ history_label' = labels
         /\ history_prediction' = Push(OrMade(history_prediction),
                                       [of |-> actions + 1, is |-> prediction])
         /\ history_decision' = Push(OrMade(history_decision),
                                     [of |-> actions + 1, is |-> decision])
         /\ \E st \in ScaledSteps(OrMade(history_prediction), labels) :
              RateControl(Result(prediction, undecided, decision), history_decision', st)
  /\ ChangeModel \/ KeepModel

MonaxNext ==
  \/ RecordSample
  \/ \E better, undecided \in BOOLEAN, prediction \in {0, 1}, mean \in {"low", "equal", "high"} :
       TakeAction(better, prediction, undecided, mean)

MonaxSpec == MonaxInit /\ [][MonaxNext]_monaxVars

-----------------------------------------------------------------------------

(* Where the last four predictions are compared with the last four labels, *)
(* by their places from the front, each is compared with the label of the  *)
(* same action, whatever has been erased.                                  *)
ComparesLikeWithLike ==
  [][\A n \in 4 .. Len(history_label') : actions > 0 =>
       \A i \in n - 3 .. n : history_prediction[i].of = history_label'[i].of]_monaxVars

(* The interval goes the way of the decision that is recorded, from which  *)
(* the next label is made, also when the model said the opposite.          *)
DelaysDecide ==
  [][SndPeriod' # SndPeriod =>
       (SndPeriod' < SndPeriod <=> LastOf(history_decision').is = 1)]_monaxVars

(* Every model is used once before one is used again, and the last model is*)
(* never used again: argmax only sees the entries that have been pushed.   *)
LastModelIsUsedOnce ==
  [][current_model' # current_model =>
       IF used_model < ModelNum - 1 THEN current_model' = used_model + 1
       ELSE current_model' # ModelNum - 1]_monaxVars

(* The steps and the interval stay in their bounds though confidences may  *)
(* be infinite, and the histories, the decisions and the models in use keep*)
(* step with each other.                                                   *)
MonaxIsConsistent ==
  []MonaxTypeOK /\ ComparesLikeWithLike /\ DelaysDecide /\ LastModelIsUsedOnce
=============================================================================
