---------------------------- MODULE ScoreKeeping -----------------------------
(***************************************************************************)
(* The score of a run and what players are told of it                      *)
(* (packages/simulation/src/score.ts, recomputeScore in engine.ts, the     *)
(* score events of packages/epistemics/src/bridge.ts).                     *)
(*                                                                         *)
(* Points are integers in thousandths; the code rounds to hundredths.  Of  *)
(* the nine categories two are means over the districts and have fractions *)
(* of a hundredth, "risk" and "infrastructure"; the other seven are whole  *)
(* hundredths and stand together as "counted".  How often a category was   *)
(* changed does not matter here, so the breakdown is kept as the sum of    *)
(* its entries for each category.                                          *)
(***************************************************************************)
EXTENDS Integers

CONSTANTS
  Mean,   \* values of the two means, in thousandths
  Count   \* values of the counted categories, in thousandths

ASSUME ScoreAssumption ==
  /\ Mean \subseteq Int
  /\ \A c \in Count : c \in Int /\ c % 10 = 0

VARIABLES
  value,        \* the categories' values when the score was last computed
  accumulated,  \* for each category the sum of its deltas in the breakdown
  adjustment,   \* the sum of the rounding adjustments in the breakdown
  total,        \* ScoreState.total
  shown,        \* the total of the last score event, what players see
  phase         \* "running" or "completed"

scoreVars == <<value, accumulated, adjustment, total, shown, phase>>

Points == [risk : Int, infrastructure : Int, counted : Int]
PointsOf(p) == p.risk + p.infrastructure + p.counted

(* Math.round(x * 100) / 100: halves go up, also below zero. *)
Round2(x) == 10 * ((x + 5) \div 10)
Above(x, bound) == x > bound \/ -x > bound

(* The deltas that are pushed: those above 0.009. *)
Delta(v, acc) == IF Above(Round2(v - acc), 9) THEN Round2(v - acc) ELSE 0
Deltas(v) ==
  [risk           |-> Delta(v.risk, accumulated.risk),
   infrastructure |-> Delta(v.infrastructure, accumulated.infrastructure),
   counted        |-> Delta(v.counted, accumulated.counted)]

Plus(p, q) ==
  [risk           |-> p.risk + q.risk,
   infrastructure |-> p.infrastructure + q.infrastructure,
   counted        |-> p.counted + q.counted]

\* Faulty: earlier adjustments are not counted among the entries.
DriftForgetful(v, breakdown) == Round2(Round2(PointsOf(v)) - PointsOf(breakdown))

(* What separates the rounded total from the breakdown as it stands. *)
Drift(v, breakdown) ==
  LET drift == Round2(Round2(PointsOf(v)) - (PointsOf(breakdown) + adjustment))
  IN  IF Above(drift, 9) THEN drift ELSE 0

\* Faulty: the events carry the total from before this computation.
ShownBefore(deltas, newTotal) ==
  IF deltas = [risk |-> 0, infrastructure |-> 0, counted |-> 0] THEN shown ELSE total

(* Each pushed delta is an event with the new total.  The adjustment is    *)
(* not an event: if no category moved, the total changes unseen.           *)
Shown(deltas, newTotal) ==
  IF deltas = [risk |-> 0, infrastructure |-> 0, counted |-> 0] THEN shown ELSE newTotal

(* computeScore, called at the end of every step and by every accepted     *)
(* command.                                                                *)
Recompute(v) ==
  LET deltas    == Deltas(v)
      breakdown == Plus(accumulated, deltas)
      drift     == Drift(v, breakdown)
      newTotal  == Round2(PointsOf(breakdown) + adjustment + drift)
  IN  /\ phase = "running"
      /\ value' = v
      /\ accumulated' = breakdown
      /\ adjustment' = adjustment + drift
      /\ total' = newTotal
      /\ shown' = Shown(deltas, newTotal)
      /\ UNCHANGED phase

(* finalizeRun: the completion carries the score itself. *)
Complete ==
  /\ phase = "running"
  /\ phase' = "completed"
  /\ shown' = total
  /\ UNCHANGED <<value, accumulated, adjustment, total>>

(* emptyScore *)
ScoreInit ==
  /\ value = [risk |-> 0, infrastructure |-> 0, counted |-> 0]
  /\ accumulated = value
  /\ adjustment = 0 /\ total = 0 /\ shown = 0
  /\ phase = "running"

ScoreNext ==
  \/ \E r, i \in Mean, c \in Count : Recompute([risk |-> r, infrastructure |-> i, counted |-> c])
  \/ Complete

ScoreSpec == ScoreInit /\ [][ScoreNext]_scoreVars

----------------------------------------------------------------------------
Within(x, bound) == -bound <= x /\ x <= bound

(* The total is the exact score rounded once, and it is the sum of the     *)
(* breakdown, whatever path of roundings led here (the promise of          *)
(* computeScore and docs/scoring.md).                                      *)
TotalIsExplained ==
  /\ total = Round2(PointsOf(value))
  /\ total = PointsOf(accumulated) + adjustment

(* Rounding errors do not add up: every category's entries in the          *)
(* breakdown stay within half a hundredth of its value, the counted ones   *)
(* match it, and all adjustments together stay within a hundredth.         *)
RoundingDoesNotDrift ==
  /\ Within(value.risk - accumulated.risk, 5)
  /\ Within(value.infrastructure - accumulated.infrastructure, 5)
  /\ value.counted = accumulated.counted
  /\ Within(adjustment, 10)

(* computeScore: both at every moment of every run.                        *)
ScoreIsExplained == TotalIsExplained /\ RoundingDoesNotDrift

(* Players learn the total from score events, which a change by adjustment *)
(* alone does not raise: what they see is at most two hundredths off, and  *)
(* right once the run is completed.                                        *)
PlayersSeeTheTotal ==
  /\ Within(shown - total, 20)
  /\ phase = "completed" => shown = total
==============================================================================
