------------------------------ MODULE MCAlerts ------------------------------
(* Model checking of Alerts: an instance that is down, and a quota whose    *)
(* message quotes a count.                                                  *)
EXTENDS Alerts, TLC

CONSTANTS down, quota, failed, count1, count2

OneReadingEach == down :> {failed} @@ quota :> {count1}

TwoCounts == down :> {failed} @@ quota :> {count1, count2}
=============================================================================
