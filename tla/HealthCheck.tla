---------------------------- MODULE HealthCheck ----------------------------
(***************************************************************************)
(* upstream_health_loop: one route's loop, its ping with a timeout on the  *)
(* connect and one on the answer, and an upstream that changes between any *)
(* two of its steps.                                                       *)
(***************************************************************************)
EXTENDS Naturals

CONSTANTS
  FailThreshold, RecoverThreshold,
  CounterMod   \* the counters wrap here: 2^32 in a release build

ASSUME HealthCheckAssumption ==
  /\ FailThreshold \in Nat \ {0}
  /\ RecoverThreshold \in Nat \ {0}
  /\ CounterMod \in Nat
  /\ FailThreshold < CounterMod
  /\ RecoverThreshold < CounterMod

VARIABLES
  upstream,                \* what the upstream does at the moment
  pc,                      \* where the loop is
  consecutive_successes, consecutive_failures,
  healthy,                 \* the Arc<AtomicBool> it was spawned with
  last, run                \* history: see HealthFlag

counters == <<consecutive_successes, consecutive_failures>>
vars == <<upstream, pc, counters, healthy, last, run>>

(* The abstract flag, with this loop's results. *)
Flag == INSTANCE HealthFlag

(* Answers GET /health with a 2xx, with anything else, not at all; or      *)
(* refuses connections.                                                    *)
Upstream == {"good", "bad", "hung", "down"}

TypeOK ==
  /\ upstream \in Upstream
  /\ pc \in {"skip", "tick", "connect", "send"}
  /\ consecutive_successes \in 0 .. CounterMod - 1
  /\ consecutive_failures \in 0 .. CounterMod - 1
  /\ healthy \in BOOLEAN
  /\ last \in BOOLEAN
  /\ run \in Nat

Init ==
  /\ upstream \in Upstream
  /\ pc = "skip"
  /\ consecutive_successes = 0 /\ consecutive_failures = 0
  /\ Flag!Init

UpstreamChanges ==
  /\ upstream' \in Upstream \ {upstream}
  /\ UNCHANGED <<pc, counters, healthy, last, run>>

(* The interval's first tick fires at once and is skipped; the others come *)
(* every ten seconds.                                                      *)
FirstTick ==
  /\ pc = "skip"
  /\ pc' = "tick"
  /\ UNCHANGED <<upstream, counters, healthy, last, run>>

Tick ==
  /\ pc = "tick"
  /\ pc' = "connect"
  /\ UNCHANGED <<upstream, counters, healthy, last, run>>

Succ(n) == (n + 1) % CounterMod

History(ok) ==
  /\ last' = ok
  /\ run' = IF ok = last THEN Flag!Longer(run) ELSE 1

\* Mutant: a success leaves the failures counted.
JudgeSuccessKeepsFailures ==
  /\ consecutive_successes' = Succ(consecutive_successes)
  /\ healthy' = (healthy \/ consecutive_successes' >= RecoverThreshold)
  /\ UNCHANGED consecutive_failures
  /\ History(TRUE)

JudgeSuccess ==
  /\ consecutive_failures' = 0
  /\ consecutive_successes' = Succ(consecutive_successes)
  /\ healthy' = (healthy \/ consecutive_successes' >= RecoverThreshold)
  /\ History(TRUE)

\* Mutant: the counter starts over at every tick.
JudgeFailureForgets ==
  /\ consecutive_successes' = 0
  /\ consecutive_failures' = 1
  /\ healthy' = (healthy /\ ~(consecutive_failures' >= FailThreshold))
  /\ History(FALSE)

JudgeFailure ==
  /\ consecutive_successes' = 0
  /\ consecutive_failures' = Succ(consecutive_failures)
  /\ healthy' = (healthy /\ ~(consecutive_failures' >= FailThreshold))
  /\ History(FALSE)

(* ping, up to the connection; an upstream that hangs may still have its   *)
(* kernel accept.                                                          *)
PingConnect ==
  /\ pc = "connect"
  /\ \/ /\ upstream # "down"
        /\ pc' = "send"
        /\ UNCHANGED <<counters, healthy, last, run>>
     \/ /\ upstream \in {"hung", "down"}
        /\ pc' = "tick"
        /\ JudgeFailure
  /\ UNCHANGED upstream

\* Mutant: no timeout on the answer; the request is lost with the upstream.
PingSendUntimed ==
  /\ pc = "send"
  /\ IF upstream = "hung"
     THEN pc' = "lost" /\ UNCHANGED <<counters, healthy, last, run>>
     ELSE pc' = "tick" /\ IF upstream = "good" THEN JudgeSuccess ELSE JudgeFailure
  /\ UNCHANGED upstream

(* ping, from the request on: a 2xx, another answer or an error, or the    *)
(* timeout.                                                                *)
PingSend ==
  /\ pc = "send"
  /\ pc' = "tick"
  /\ \/ upstream = "good" /\ JudgeSuccess
     \/ upstream # "good" /\ JudgeFailure
  /\ UNCHANGED upstream

Loop == FirstTick \/ Tick \/ PingConnect \/ PingSend

Next == UpstreamChanges \/ Loop

Spec == Init /\ [][Next]_vars

(* The interval ticks and both halves of ping end, by answer or timeout.   *)
FairSpec == Spec /\ WF_vars(Loop)

-----------------------------------------------------------------------------

(* The two wrapping counters and the flag they set behave as the flag with *)
(* hysteresis: it turns at the threshold, never earlier or later, whatever *)
(* the upstream does in the middle of a ping (health_check.rs:27-50).      *)
ImplementsFlag == Flag!Spec

(* An upstream that stops answering 2xx for good, in whatever way, ends up *)
(* and stays marked unhealthy (health_check.rs:38-48, :53-82).             *)
DeadEndsUnhealthy == <>[](upstream # "good") => <>[]~healthy

(* An upstream that answers again for good ends up and stays healthy       *)
(* (health_check.rs:31-37).                                                *)
RecoveredEndsHealthy == <>[](upstream = "good") => <>[]healthy

=============================================================================
