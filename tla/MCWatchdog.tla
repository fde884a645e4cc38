----------------------------- MODULE MCWatchdog -----------------------------
(* Model checking of Watchdog: two containers of one tenant.               *)
EXTENDS Watchdog, TLC

CONSTANTS acme, box1, box2

OneTenant == box1 :> acme @@ box2 :> acme
=============================================================================
