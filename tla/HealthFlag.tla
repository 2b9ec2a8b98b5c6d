----------------------------- MODULE HealthFlag -----------------------------
(***************************************************************************)
(* What handlers may expect of a route's health flag: it has hysteresis.   *)
(* It turns false when FailThreshold pings in a row have failed, true when *)
(* RecoverThreshold in a row have succeeded, and at no other time.  Pings  *)
(* are their results here; module HealthCheck has the loop.                *)
(***************************************************************************)
EXTENDS Naturals

CONSTANTS FailThreshold, RecoverThreshold

VARIABLES
  healthy,  \* the flag
  last,     \* the last ping's result
  run       \* how many pings in a row had it, counted up to Enough

(* Runs longer than both thresholds need not be told apart. *)
Enough == FailThreshold + RecoverThreshold

Longer(n) == IF n < Enough THEN n + 1 ELSE n

Init == healthy = TRUE /\ last = TRUE /\ run = 0

Ping(ok) ==
  /\ last' = ok
  /\ run' = IF ok = last THEN Longer(run) ELSE 1
  /\ healthy' = \/ ok /\ run' >= RecoverThreshold
                \/ healthy /\ ~(~ok /\ run' >= FailThreshold)

Next == \E ok \in BOOLEAN : Ping(ok)

Spec == Init /\ [][Next]_<<healthy, last, run>>

=============================================================================
