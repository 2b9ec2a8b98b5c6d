------------------------------ MODULE Delivery ------------------------------
(***************************************************************************)
(* What forwarding promises a request, without pool, connections or        *)
(* timers: the upstream is sent it at most twice, the second time only     *)
(* after the connection that took it first was lost with no answer read;   *)
(* an answer comes only to a request that was sent; and a request may fail *)
(* at any moment.                                                          *)
(***************************************************************************)
CONSTANT Requests

VARIABLE phase

Ended == {"ok", "failed"}

Init == phase = [r \in Requests |-> "new"]

Moves(r, from, to) == phase[r] = from /\ phase' = [phase EXCEPT ![r] = to]

(* The request goes out, once or, if that got lost, once more ...          *)
Write(r) == Moves(r, "new", "written") \/ Moves(r, "lost", "rewritten")

(* ... and is lost on its way or in the hands of the upstream.             *)
Lose(r) == Moves(r, "written", "lost") \/ Moves(r, "rewritten", "gone")

Answer(r) == Moves(r, "written", "answering") \/ Moves(r, "rewritten", "answering")

Succeed(r) == Moves(r, "answering", "ok")

Fail(r) == phase[r] \notin Ended /\ Moves(r, phase[r], "failed")

Next ==
  \E r \in Requests :
    Write(r) \/ Lose(r) \/ Answer(r) \/ Succeed(r) \/ Fail(r)

Spec == Init /\ [][Next]_phase

=============================================================================
