------------------------------ MODULE Metrics -------------------------------
(***************************************************************************)
(* metrics.rs: counters that every answered request increments one by one  *)
(* and every scrape of /metrics loads one by one.  All accesses are        *)
(* Relaxed, so the increments of one record, and the loads of one render,  *)
(* take effect in any order.                                               *)
(*                                                                         *)
(* The sum of response times moves with "total" and is not told apart.     *)
(***************************************************************************)
EXTENDS Naturals, FiniteSets

CONSTANT Requests

ASSUME RequestsFinite == IsFiniteSet(Requests)

Statuses == {"2xx", "3xx", "4xx", "5xx"}
Counters == {"total", "2xx", "4xx", "5xx", "blocked"}

VARIABLES
  counter,   \* the atomics
  todo,      \* request -> counters its record has yet to increment
  seen       \* request -> what its render has loaded so far

MetricsInit ==
  /\ counter = [k \in Counters |-> 0]
  /\ todo = [r \in Requests |-> {}]
  /\ seen = [r \in Requests |-> <<>>]

\* Mutant: a blocked request also counts as the 403 it gets.
RecordedInClassToo(status, blocked) ==
  {"total"} \cup (Counters \cap {status}) \cup {k \in {"blocked"} : blocked}

\* Mutant: every status has a counter.
RecordedInAny(status, blocked) ==
  {"total"} \cup (IF blocked THEN {"blocked"} ELSE {status})

(* Metrics::record: the counters that an answer moves.                     *)
RecordedIn(status, blocked) ==
  {"total"} \cup (IF blocked THEN {"blocked"} ELSE Counters \cap {status})

Record(r, status, blocked) ==
  todo' = [todo EXCEPT ![r] = RecordedIn(status, blocked)]

(* One fetch_add of it. *)
RecordOne(r) ==
  \E k \in todo[r] :
    /\ counter' = [counter EXCEPT ![k] = @ + 1]
    /\ todo' = [todo EXCEPT ![r] = @ \ {k}]
    /\ UNCHANGED seen

(* One load of Metrics::render.                                            *)
RenderOne(r) ==
  \E k \in Counters \ DOMAIN seen[r] :
    /\ seen' = [seen EXCEPT ![r] =
         [j \in DOMAIN seen[r] \cup {k} |-> IF j = k THEN counter[k] ELSE seen[r][j]]]
    /\ UNCHANGED <<counter, todo>>

Rendered(r) == DOMAIN seen'[r] = Counters

=============================================================================
