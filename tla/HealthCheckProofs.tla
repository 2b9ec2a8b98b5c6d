------------------------- MODULE HealthCheckProofs -------------------------
(***************************************************************************)
(* The health loop implements the flag with hysteresis, for every pair of  *)
(* thresholds below the counters' width.                                   *)
(***************************************************************************)
EXTENDS HealthCheck, TLAPS

(* Up to the threshold that would turn the flag, a counter is the length   *)
(* of the run; beyond it the flag has turned and the counter, which may    *)
(* have wrapped, does not matter any more.                                 *)
Counted(counter, threshold) == run < threshold => counter = run

Coupling ==
  /\ last  => /\ consecutive_failures = 0
              /\ Counted(consecutive_successes, RecoverThreshold)
              /\ run >= RecoverThreshold => healthy
  /\ ~last => /\ consecutive_successes = 0
              /\ Counted(consecutive_failures, FailThreshold)
              /\ run >= FailThreshold => ~healthy

IInv == TypeOK /\ Coupling

(* The wrapping increment stays in range, and is the increment while it    *)
(* does not wrap.                                                          *)
LEMMA SuccProperties ==
  ASSUME NEW n \in 0 .. CounterMod - 1
  PROVE  /\ Succ(n) \in 0 .. CounterMod - 1
         /\ n + 1 < CounterMod => Succ(n) = n + 1
  BY HealthCheckAssumption DEF Succ, HealthCheckAssumption

LEMMA InitIInv == Init => IInv
  BY HealthCheckAssumption
    DEF Init, IInv, TypeOK, Coupling, Counted, Flag!Init, HealthCheckAssumption,
        Upstream

-----------------------------------------------------------------------------
(* The two ways a ping can end.  Each keeps the coupling and is a step of  *)
(* the abstract flag (health_check.rs:31-50).                              *)

LEMMA SuccessStep ==
  ASSUME IInv, JudgeSuccess
  PROVE  /\ consecutive_successes' \in 0 .. CounterMod - 1
         /\ consecutive_failures' \in 0 .. CounterMod - 1
         /\ healthy' \in BOOLEAN /\ last' \in BOOLEAN /\ run' \in Nat
         /\ Coupling'
         /\ Flag!Ping(TRUE)
  <1> USE HealthCheckAssumption DEF HealthCheckAssumption
  <1>1. /\ last' = TRUE
        /\ run' = IF last THEN Flag!Longer(run) ELSE 1
        /\ consecutive_failures' = 0
        /\ consecutive_successes' = Succ(consecutive_successes)
        /\ healthy' = (healthy \/ consecutive_successes' >= RecoverThreshold)
    BY DEF JudgeSuccess, History, IInv, TypeOK
  <1>2. /\ run \in Nat /\ run' \in Nat
        /\ run' = 1 \/ run' = run + 1 \/ run' = run
        /\ run < RecoverThreshold => run' = 1 \/ run' = run + 1
        /\ last /\ run >= RecoverThreshold => run' >= RecoverThreshold
        /\ last /\ run < RecoverThreshold => run' = run + 1
        /\ ~last => run' = 1
    BY <1>1 DEF IInv, TypeOK, Flag!Longer, Flag!Enough
  <1>3. consecutive_successes \in 0 .. CounterMod - 1
    BY DEF IInv, TypeOK
  <1>4. /\ consecutive_successes' \in 0 .. CounterMod - 1
        /\ consecutive_failures' \in 0 .. CounterMod - 1
    BY <1>1, <1>3, SuccProperties
  <1>5. (last /\ run >= RecoverThreshold) \/ consecutive_successes' = run'
    BY <1>1, <1>2, <1>3, SuccProperties DEF IInv, Coupling, Counted
  <1>6. healthy' <=> (healthy \/ run' >= RecoverThreshold)
    BY <1>1, <1>2, <1>5 DEF IInv, Coupling
  <1>7. Coupling'
    <2>1. Counted(consecutive_successes, RecoverThreshold)'
      BY <1>2, <1>5 DEF Counted
    <2> QED BY <1>1, <1>6, <2>1 DEF Coupling
  <1>8. Flag!Ping(TRUE)
    <2>1. healthy' \in BOOLEAN /\ healthy \in BOOLEAN
      BY <1>1 DEF IInv, TypeOK
    <2>2. run' = IF TRUE = last THEN Flag!Longer(run) ELSE 1
      BY DEF JudgeSuccess, History
    <2> QED BY <1>1, <1>6, <2>1, <2>2 DEF Flag!Ping
  <1> QED BY <1>1, <1>2, <1>4, <1>7, <1>8

LEMMA FailureStep ==
  ASSUME IInv, JudgeFailure
  PROVE  /\ consecutive_successes' \in 0 .. CounterMod - 1
         /\ consecutive_failures' \in 0 .. CounterMod - 1
         /\ healthy' \in BOOLEAN /\ last' \in BOOLEAN /\ run' \in Nat
         /\ Coupling'
         /\ Flag!Ping(FALSE)
  <1> USE HealthCheckAssumption DEF HealthCheckAssumption
  <1>1. /\ last' = FALSE
        /\ run' = IF ~last THEN Flag!Longer(run) ELSE 1
        /\ consecutive_successes' = 0
        /\ consecutive_failures' = Succ(consecutive_failures)
        /\ healthy' = (healthy /\ ~(consecutive_failures' >= FailThreshold))
    BY DEF JudgeFailure, History, IInv, TypeOK
  <1>2. /\ run \in Nat /\ run' \in Nat
        /\ ~last /\ run >= FailThreshold => run' >= FailThreshold
        /\ ~last /\ run < FailThreshold => run' = run + 1
        /\ last => run' = 1
    BY <1>1 DEF IInv, TypeOK, Flag!Longer, Flag!Enough
  <1>3. consecutive_failures \in 0 .. CounterMod - 1
    BY DEF IInv, TypeOK
  <1>4. /\ consecutive_failures' \in 0 .. CounterMod - 1
        /\ consecutive_successes' \in 0 .. CounterMod - 1
    BY <1>1, <1>3, SuccProperties
  <1>5. (~last /\ run >= FailThreshold) \/ consecutive_failures' = run'
    BY <1>1, <1>2, <1>3, SuccProperties DEF IInv, Coupling, Counted
  <1>6. healthy' <=> (healthy /\ ~(run' >= FailThreshold))
    BY <1>1, <1>2, <1>5 DEF IInv, Coupling
  <1>7. Coupling'
    <2>1. Counted(consecutive_failures, FailThreshold)'
      BY <1>2, <1>5 DEF Counted
    <2> QED BY <1>1, <1>6, <2>1 DEF Coupling
  <1>8. Flag!Ping(FALSE)
    <2>1. healthy' \in BOOLEAN /\ healthy \in BOOLEAN
      BY <1>1 DEF IInv, TypeOK
    <2>2. run' = IF FALSE = last THEN Flag!Longer(run) ELSE 1
      BY DEF JudgeFailure, History
    <2> QED BY <1>1, <1>6, <2>1, <2>2 DEF Flag!Ping
  <1> QED BY <1>1, <1>2, <1>4, <1>7, <1>8

LEMMA NextStep ==
  ASSUME IInv, [Next]_vars
  PROVE  IInv' /\ [Flag!Next]_<<healthy, last, run>>
  <1>1. CASE UNCHANGED <<counters, healthy, last, run>>
    <2>1. upstream' \in Upstream /\ pc' \in {"skip", "tick", "connect", "send"}
      BY <1>1 DEF IInv, TypeOK, Next, Loop, UpstreamChanges, FirstTick, Tick,
                  PingConnect, PingSend, vars
    <2> QED BY <1>1, <2>1 DEF IInv, TypeOK, Coupling, Counted, counters
  <1>2. CASE /\ upstream' = upstream /\ pc' = "tick"
             /\ JudgeSuccess \/ JudgeFailure
    BY <1>2, SuccessStep, FailureStep DEF IInv, TypeOK, Flag!Next
  <1> QED
    BY <1>1, <1>2
      DEF Next, Loop, UpstreamChanges, FirstTick, Tick, PingConnect, PingSend, vars

(* The loop implements the flag with hysteresis: in particular a counter   *)
(* that wraps never turns the flag (health_check.rs:22-50).                *)
THEOREM HealthRefinement == Spec => ImplementsFlag
  <1>1. Init => Flag!Init
    BY DEF Init
  <1> QED
    BY <1>1, InitIInv, NextStep, PTL DEF Spec, ImplementsFlag, Flag!Spec

=============================================================================
