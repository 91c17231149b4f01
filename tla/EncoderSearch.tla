--------------------------- MODULE EncoderSearch ----------------------------
(***************************************************************************)
(* How the encoder looks for a quantizer and a loop filter level:          *)
(* encode_with_quantizer, encode_with_minimum_ssim,                        *)
(* encode_with_target_size and apply_best_loopfilter_settings of           *)
(* src/encoder/encoder.cc.  Of a picture only what a search sees of it is  *)
(* kept: the quantizers whose frames are estimated to fit, which may be any*)
(* (an estimate need not grow with the quantizer), and the similarity      *)
(* measured after each level of the loop filter, which may have equal      *)
(* neighbours and several maxima.                                          *)
(***************************************************************************)
EXTENDS Integers, FiniteSets, FiniteSetsExt

CONSTANTS
  Pictures,               \* the quantizers whose frames are estimated to fit,
                          \* and the similarity, in any unit, by loop filter level
  Realtime                \* values of encode_quality_ = REALTIME_QUALITY

ASSUME EncoderSearchAssumption ==
  /\ Pictures \subseteq [fits : SUBSET (0 .. 127), quality : [0 .. 63 -> Nat]]
  /\ Realtime \subseteq BOOLEAN

VARIABLES
  realtime,
  last_y_ac_qi_,          \* {} or {q}
  loop_filter_level_,     \* {} or {level}
  picture

searchVars == <<realtime, last_y_ac_qi_, loop_filter_level_, picture>>

SearchTypeOK ==
  /\ realtime \in Realtime
  /\ last_y_ac_qi_ \subseteq 0 .. 127 /\ Cardinality(last_y_ac_qi_) <= 1
  /\ loop_filter_level_ \subseteq 0 .. 63 /\ Cardinality(loop_filter_level_) <= 1
  /\ picture \in Pictures

SearchInit ==
  /\ realtime \in Realtime
  /\ last_y_ac_qi_ = {} /\ loop_filter_level_ = {}
  /\ picture \in Pictures

Lower(a, b) == IF a < b THEN a ELSE b
Upper(a, b) == IF a > b THEN a ELSE b
Distance(a, b) == Upper(a, b) - Lower(a, b)

-----------------------------------------------------------------------------
(* encode_with_target_size.                                                *)

(* The window is the largest the first time, and then around the last one. *)
Window(last) ==
  [min |-> IF last = {} THEN 4 ELSE LET q == CHOOSE q \in last : TRUE IN IF q - 16 >= 4 THEN q - 16 ELSE 4,
   max |-> IF last = {} THEN 127 ELSE LET q == CHOOSE q \in last : TRUE IN Lower(127, q + 16),
   best |-> 255]

(* The window's last candidate is not taken when it does not fit.          *)
MutantTaken(s, q, is_fit) == is_fit

(* A candidate is taken if it fits, or if it is the last there is.         *)
Taken(s, q, is_fit) == is_fit \/ (s.min = s.max /\ s.best = 255)

Halve(s, fits) ==
  LET q == (s.min + s.max) \div 2
  IN  IF s.min > s.max THEN s
      ELSE IF Taken(s, q, q \in fits) THEN [s EXCEPT !.best = q, !.max = q - 1]
      ELSE [s EXCEPT !.min = q + 1]

(* Eight turns are enough for 124 candidates.                              *)
FourHalves(s, fits) == Halve(Halve(Halve(Halve(s, fits), fits), fits), fits)

SizeSearch(last, fits) == FourHalves(FourHalves(Window(last), fits), fits)

-----------------------------------------------------------------------------
(* encode_with_quantizer_search.  encode_raster is called without its last *)
(* argument, compute_ssim, and what it returns is 0 however close it came. *)

Measured == 0

SsimTurn(s, minimum) ==
  LET q == (s.min + s.max) \div 2
      good == Measured >= minimum
      taken == IF good \/ (s.min = s.max /\ s.best = {}) THEN [s EXCEPT !.best = {q}] ELSE s
  IN  IF s.min > s.max \/ s.done THEN s
      ELSE IF s.min = s.max THEN [taken EXCEPT !.done = TRUE]
      ELSE IF good THEN [taken EXCEPT !.min = q + 1] ELSE [taken EXCEPT !.max = q - 1]

(* Nine turns are enough for 128 candidates.                               *)
ThreeSsimTurns(s, minimum) == SsimTurn(SsimTurn(SsimTurn(s, minimum), minimum), minimum)

SsimSearch(minimum) ==
  LET start == [min |-> 0, max |-> 127, best |-> {}, done |-> FALSE]
      end == ThreeSsimTurns(ThreeSsimTurns(ThreeSsimTurns(start, minimum), minimum), minimum)
  IN  IF end.best = {} THEN 0 ELSE CHOOSE q \in end.best : TRUE

-----------------------------------------------------------------------------
(* apply_best_loopfilter_settings: up from the lowest level of the window, *)
(* as long as the picture gets better.                                     *)

Lowest(level) == IF level > 0 THEN level - 1 ELSE 0

FilterSearch(last, quality) ==
  LET levels == IF last = {} THEN 0 .. 63
                ELSE LET level == CHOOSE l \in last : TRUE IN Lowest(level) .. Lower(63, level + 1)
      Stops(l) == l + 1 \notin levels \/ quality[l + 1] <= quality[l]
  IN  Min({l \in levels : Stops(l)})

-----------------------------------------------------------------------------

(* write_frame: what was found is remembered in realtime.                  *)
Remember(q) ==
  /\ last_y_ac_qi_' = IF realtime THEN {q} ELSE last_y_ac_qi_
  /\ loop_filter_level_' = IF realtime THEN {FilterSearch(loop_filter_level_, picture.quality)} ELSE loop_filter_level_
  /\ UNCHANGED <<realtime, picture>>

EncodeWithTargetSize == Remember(SizeSearch(last_y_ac_qi_, picture.fits).best)

(* The quantizer is one derived from that of the last frame.               *)
EncodeWithQuantizer ==
  \E q \in last_y_ac_qi_ : \E near \in {Upper(0, q - 19), Lower(127, q + 19)} : Remember(near)

EncodeWithMinimumSsim == \E minimum \in {0, 1} : Remember(SsimSearch(minimum))

NextPicture ==
  /\ picture' \in Pictures \ {picture}
  /\ UNCHANGED <<realtime, last_y_ac_qi_, loop_filter_level_>>

SearchNext == EncodeWithTargetSize \/ EncodeWithQuantizer \/ EncodeWithMinimumSsim \/ NextPicture

-----------------------------------------------------------------------------

(* A search for a size always ends with a quantizer of its window.  Either *)
(* its frame fits, or it is the largest of the window and the frame is sent*)
(* although it is too big; and the next finer one does not fit.  So where  *)
(* what fits are the quantizers from one on, it is the least of these.     *)
SizeSearchFinds ==
  LET found == SizeSearch(last_y_ac_qi_, picture.fits)
      window == Window(last_y_ac_qi_)
  IN  /\ found.min > found.max
      /\ found.best \in window.min .. window.max
      /\ found.best \in picture.fits \/ found.best = window.max
      /\ found.best = window.min \/ found.best - 1 \notin picture.fits

(* The picture is not better one level lower or higher.                    *)
SettlesAt(level) ==
  \A near \in {level - 1, level + 1} \cap 0 .. 63 : picture.quality[near] <= picture.quality[level]

(* Another level is better, or as good with less filtering.                *)
Improves(old, new) ==
  \/ picture.quality[new] > picture.quality[old]
  \/ picture.quality[new] = picture.quality[old] /\ new < old

(* The first level found is one whose neighbours are not better, though    *)
(* another may be.  While the picture stays as it is, each frame moves the *)
(* level by one to a better one, or down among equal ones, and never       *)
(* leaves it where a neighbour is better; so levels never go round.        *)
LevelSettles ==
  \A new \in loop_filter_level_' :
    /\ loop_filter_level_ = {} => SettlesAt(new)
    /\ \A old \in loop_filter_level_ :
         /\ Distance(new, old) <= 1
         /\ Improves(old, new) \/ (new = old /\ SettlesAt(old))

(* Whatever the picture, the searches of the encoder, which keep what they *)
(* found for the next frame, end at the best they can see from there.      *)
SearchesFind ==
  [][SizeSearchFinds /\ (picture' = picture => LevelSettles)]_searchVars
=============================================================================
