----------------------------- MODULE EventStream -----------------------------
(***************************************************************************)
(* What the aggregator promises to whoever listens to its events            *)
(* (src/README.md, "Rising-edge semantics": alert events fire once per       *)
(* state transition, not every tick).                                       *)
(*                                                                         *)
(* Each published tick fixes which alert conditions hold and the baseline   *)
(* they are measured against.  The batch that announces the tick carries    *)
(* the tick itself, first; one round_settled exactly when the baseline has  *)
(* moved since the previous published tick; and one alert of each kind      *)
(* whose condition holds now and did not hold in the previous published     *)
(* tick.  No alert is repeated, swallowed or announced before its tick, and *)
(* a batch is out before the next one begins.                               *)
(***************************************************************************)
EXTENDS Integers, Sequences

CONSTANTS None, Baselines, Tolerance

VARIABLES
  holds,      \* alert kind -> does its condition hold in the published tick
  baseline,   \* the baseline of the published tick, or None
  pending     \* the types of the events still to be delivered, in order

streamVars == <<holds, baseline, pending>>

AlertKinds == {"round_triggered", "deviation_approach", "bb_breakout", "pre_trigger_alert"}

Init ==
  /\ holds = [k \in AlertKinds |-> FALSE]
  /\ baseline = None
  /\ pending = <<>>

Distance(a, b) == IF a < b THEN b - a ELSE a - b

Moved == baseline # None /\ Distance(baseline, baseline') > Tolerance

Once(condition, type) == IF condition THEN <<type>> ELSE <<>>

Rising(kind) == Once(holds'[kind] /\ ~ holds[kind], kind)

Publish ==
  /\ pending = <<>>
  /\ holds' \in [AlertKinds -> BOOLEAN]
  /\ ~ (holds'["round_triggered"] /\ holds'["deviation_approach"])
  /\ \/ baseline' \in Baselines
     \/ baseline = None /\ baseline' = None
  /\ baseline' = None => ~ (holds'["round_triggered"] \/ holds'["deviation_approach"]
                              \/ holds'["pre_trigger_alert"])
  /\ pending' = <<"tick">>
                  \o Once(Moved, "round_settled")
                  \o Rising("round_triggered")
                  \o Rising("deviation_approach")
                  \o Rising("bb_breakout")
                  \o Rising("pre_trigger_alert")

Deliver ==
  /\ pending # <<>>
  /\ pending' = Tail(pending)
  /\ UNCHANGED <<holds, baseline>>

Next == Publish \/ Deliver

Spec == Init /\ [][Next]_streamVars

(* A published batch is always delivered to the end.                        *)
FairSpec == Spec /\ WF_streamVars(Deliver)

=============================================================================
