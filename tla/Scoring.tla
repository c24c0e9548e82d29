------------------------------- MODULE Scoring -------------------------------
(***************************************************************************)
(* What the interview computes from the answers of a language model:       *)
(* interview/ambiguity.py and interview/risk.py, with the thresholds of    *)
(* orchestrator/config.py.                                                 *)
(*                                                                         *)
(* The code computes with floats, this module in units: a score that a     *)
(* model gives is in tenths, a weight in hundredths, and so every weighted *)
(* score and every threshold is in thousandths.                            *)
(***************************************************************************)
EXTENDS Integers

Modes == {"quick", "rtc"}

AmbiguityThreshold(mode) == IF mode = "rtc" THEN 150 ELSE 250
MaxRounds(mode)          == IF mode = "rtc" THEN 8 ELSE 5

\* Keyword dimensions looked for in the text.
Topics(mode) == IF mode = "rtc" THEN 9 ELSE 5

\* Stage 1: 1 - covered / topics > 0.6.
NeedsFollowup(mode, covered) == 10 * (Topics(mode) - covered) > 6 * Topics(mode)

\* Stage 3: goal, constraint, risk, environment and success, in this order.
Clarities == [1 .. 5 -> 0 .. 10]

Ambiguity(mode, c) ==
    1000 - (IF mode = "rtc"
            THEN 25 * c[1] + 20 * c[2] + 25 * c[3] + 15 * c[4] + 15 * c[5]
            ELSE 30 * c[1] + 20 * c[2] + 20 * c[3] + 15 * c[4] + 15 * c[5])

Clear(mode, ambiguity) == ambiguity <= AmbiguityThreshold(mode)

\* Risk: security, network, state and external API, in this order.
RiskVectors == [1 .. 4 -> 0 .. 10]

Risk(r) == 30 * r[1] + 30 * r[2] + 20 * r[3] + 20 * r[4]

\* Fifths of the scale.
Level(risk) == CASE risk < 200                -> 1
                 [] 200 <= risk /\ risk < 400 -> 2
                 [] 400 <= risk /\ risk < 600 -> 3
                 [] 600 <= risk /\ risk < 800 -> 4
                 [] 800 <= risk               -> 5

\* Faulty: a risk at the gate passes it.
GateAllows(mode, risk) == mode = "rtc" => risk <= 400

\* risk_gate is None in quick mode.
GatePassed(mode, risk) == mode = "rtc" => risk < 400

\* A reply that cannot be parsed counts as the worst one.
UnreadClarity == [i \in 1 .. 5 |-> 0]
UnreadRisk    == [i \in 1 .. 4 |-> 10]
=============================================================================
