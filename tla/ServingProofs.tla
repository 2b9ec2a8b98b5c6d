--------------------------- MODULE ServingProofs ----------------------------
(***************************************************************************)
(* Theorems about Serving, for any finite set of requests, any number of   *)
(* workers and any states: the counters are exact, a scrape shows every    *)
(* answer that was out before it, and a request goes by one state.         *)
(***************************************************************************)
EXTENDS Serving, FiniteSetTheorems, TLAPS

(* From the answer on. *)
Late == {"record", "reply", "done", "gone"}

(* The requests that a counter has counted. *)
Counted(k) ==
  {r \in Requests : status[r] # "none" /\ Belongs(r, k) /\ k \notin todo[r]}

(* Why the counters are exact: there is a status only from the answer on,  *)
(* and what record has yet to add is part of what the answer belongs to.   *)
CountInv ==
  /\ pc \in [Requests -> Steps]
  /\ status \in [Requests -> Statuses \cup {"none"}]
  /\ blocked \in [Requests -> BOOLEAN]
  /\ counter \in [Counters -> Nat]
  /\ todo \in [Requests -> SUBSET Counters]
  /\ \A r \in Requests : status[r] # "none" => pc[r] \in Late
  /\ \A r \in Requests : pc[r] = "record" => status[r] # "none"
  /\ \A r \in Requests : todo[r] # {} => pc[r] = "record"
  /\ \A r \in Requests : \A k \in todo[r] : Belongs(r, k)
  /\ \A k \in Counters : counter[k] = Cardinality(Counted(k))

-----------------------------------------------------------------------------

(* The set behind a counter is finite. *)
LEMMA CountedFinite ==
  ASSUME NEW k
  PROVE  IsFiniteSet(Counted(k)) /\ Cardinality(Counted(k)) \in Nat
<1>1. Counted(k) \subseteq Requests
  BY DEF Counted
<1> QED  BY <1>1, RequestsFinite, FS_Subset, FS_CardinalityType

(* Steps that leave answers and counters alone, and neither enter nor      *)
(* leave record. *)
LEMMA QuietStep ==
  ASSUME CountInv,
         UNCHANGED <<status, blocked, counter, todo>>,
         pc' \in [Requests -> Steps],
         \A r \in Requests :
           \/ pc'[r] = pc[r]
           \/ /\ pc[r] # "record" /\ pc'[r] # "record"
              /\ pc[r] \in Late => pc'[r] \in Late
  PROVE  CountInv'
<1>1. \A k : Counted(k)' = Counted(k)
  BY DEF Counted, Belongs
<1>2. \A r \in Requests : \A k \in todo'[r] : Belongs(r, k)'
  BY DEF CountInv, Belongs
<1>3. \A k \in Counters : counter'[k] = Cardinality(Counted(k)')
  BY <1>1 DEF CountInv
<1>4. \A r \in Requests : status'[r] # "none" => pc'[r] \in Late
  BY DEF CountInv, Late
<1>5. \A r \in Requests : pc'[r] = "record" => status'[r] # "none"
  BY DEF CountInv
<1>6. \A r \in Requests : todo'[r] # {} => pc'[r] = "record"
  BY DEF CountInv
<1> QED  BY <1>2, <1>3, <1>4, <1>5, <1>6 DEF CountInv

(* A request's record covers exactly the counters its answer belongs to. *)
LEMMA RecordedIsBelongs ==
  ASSUME NEW s \in Statuses, NEW b \in BOOLEAN, NEW k \in Counters
  PROVE  k \in RecordedIn(s, b) <=> (k = "total" \/ (k = "blocked" /\ b) \/ (k = s /\ ~b))
BY DEF RecordedIn, Statuses, Counters

(* An answer changes no count: all it belongs to is still to be added. *)
LEMMA AnswerStep ==
  ASSUME CountInv, UNCHANGED counter,
         NEW r \in Requests, NEW s \in Statuses, NEW b \in BOOLEAN,
         pc[r] \notin Late, Answer(r, s, b)
  PROVE  CountInv'
<1> USE DEF CountInv
<1>1. /\ status' = [status EXCEPT ![r] = s]
      /\ blocked' = [blocked EXCEPT ![r] = b]
      /\ todo' = [todo EXCEPT ![r] = RecordedIn(s, b)]
      /\ pc' = [pc EXCEPT ![r] = "record"]
  BY DEF Answer, Record, GoTo
<1>2. status[r] = "none" /\ s # "none"
  BY DEF Statuses
<1>3. RecordedIn(s, b) \subseteq Counters
  BY DEF RecordedIn, Statuses, Counters
<1>4. ASSUME NEW k \in Counters  PROVE Counted(k)' = Counted(k)
  <2>1. r \notin Counted(k)
    BY <1>2 DEF Counted
  <2>2. Belongs(r, k)' => k \in todo'[r]
    <3>1. status'[r] = s /\ blocked'[r] = b /\ todo'[r] = RecordedIn(s, b)
      BY <1>1
    <3> QED  BY <3>1, RecordedIsBelongs DEF Belongs
  <2>3. r \notin Counted(k)'
    BY <2>2 DEF Counted
  <2>4. ASSUME NEW q \in Requests \ {r}  PROVE q \in Counted(k)' <=> q \in Counted(k)
    <3>1. status'[q] = status[q] /\ blocked'[q] = blocked[q] /\ todo'[q] = todo[q]
      BY <1>1
    <3> QED  BY <3>1 DEF Counted, Belongs
  <2> QED  BY <2>1, <2>3, <2>4 DEF Counted
<1>5. \A k \in Counters : counter'[k] = Cardinality(Counted(k)')
  BY <1>4
<1>6. ASSUME NEW q \in Requests, NEW k \in todo'[q]  PROVE Belongs(q, k)'
  <2>1. CASE q = r
    <3>1. status'[r] = s /\ blocked'[r] = b /\ todo'[r] = RecordedIn(s, b)
      BY <1>1
    <3> QED  BY <2>1, <3>1, <1>3, RecordedIsBelongs DEF Belongs
  <2>2. CASE q # r
    <3>1. status'[q] = status[q] /\ blocked'[q] = blocked[q] /\ todo'[q] = todo[q]
      BY <1>1, <2>2
    <3> QED  BY <3>1 DEF Belongs
  <2> QED  BY <2>1, <2>2
<1>7. /\ pc' \in [Requests -> Steps]
      /\ status' \in [Requests -> Statuses \cup {"none"}]
      /\ todo' \in [Requests -> SUBSET Counters]
  BY <1>1, <1>3 DEF Steps
<1>8. blocked' \in [Requests -> BOOLEAN]
  BY <1>1
<1>9. /\ \A q \in Requests : status'[q] # "none" => pc'[q] \in Late
      /\ \A q \in Requests : pc'[q] = "record" => status'[q] # "none"
      /\ \A q \in Requests : todo'[q] # {} => pc'[q] = "record"
  BY <1>1, <1>2 DEF Late
<1> QED  BY <1>5, <1>6, <1>7, <1>8, <1>9

(* One increment counts one request more, once. *)
LEMMA RecordStep ==
  ASSUME CountInv, NEW r \in Requests, Recording(r)
  PROVE  CountInv'
<1> USE DEF CountInv
<1>1. PICK k \in todo[r] : /\ counter' = [counter EXCEPT ![k] = @ + 1]
                           /\ todo' = [todo EXCEPT ![r] = @ \ {k}]
  BY DEF Recording, RecordOne
<1>2. k \in Counters
  OBVIOUS
<1>3. UNCHANGED <<status, blocked>>
  BY DEF Recording, request
<1>4. pc[r] = "record" /\ status[r] # "none"
  BY DEF Recording
<1>5. /\ pc' = IF todo'[r] = {} THEN [pc EXCEPT ![r] = "reply"] ELSE pc
      /\ pc' \in [Requests -> Steps]
  <2>1. pc' = IF todo'[r] = {} THEN [pc EXCEPT ![r] = "reply"] ELSE pc
    BY DEF Recording, GoTo
  <2> QED  BY <2>1 DEF Steps
<1>6. ASSUME NEW q \in Requests, NEW j
      PROVE  q \in Counted(j)' <=> (q \in Counted(j) \/ (q = r /\ j = k))
  <2>1. Belongs(q, j)' <=> Belongs(q, j)
    BY <1>3 DEF Belongs
  <2>2. j \notin todo'[q] <=> (j \notin todo[q] \/ (q = r /\ j = k))
    BY <1>1
  <2>3. Belongs(r, k)
    OBVIOUS
  <2> QED  BY <1>3, <1>4, <2>1, <2>2, <2>3 DEF Counted
<1>7. Counted(k)' = Counted(k) \cup {r} /\ r \notin Counted(k)
  BY <1>6 DEF Counted
<1>8. \A j \in Counters \ {k} : Counted(j)' = Counted(j)
  BY <1>6 DEF Counted
<1>9. counter'[k] = Cardinality(Counted(k)')
  <2>1. Cardinality(Counted(k) \cup {r}) = Cardinality(Counted(k)) + 1
    BY <1>7, CountedFinite, FS_AddElement
  <2> QED  BY <1>1, <1>2, <1>7, <2>1
<1>10. \A j \in Counters : counter'[j] = Cardinality(Counted(j)')
  BY <1>1, <1>8, <1>9
<1>11. counter' \in [Counters -> Nat] /\ todo' \in [Requests -> SUBSET Counters]
  BY <1>1
<1>12. \A q \in Requests : \A j \in todo'[q] : Belongs(q, j)'
  BY <1>1, <1>3 DEF Belongs
<1>13. /\ \A q \in Requests : status'[q] # "none" => pc'[q] \in Late
       /\ \A q \in Requests : pc'[q] = "record" => status'[q] # "none"
  BY <1>3, <1>4, <1>5 DEF Late
<1>14. \A q \in Requests : todo'[q] # {} => pc'[q] = "record"
  BY <1>1, <1>4, <1>5
<1> QED  BY <1>3, <1>5, <1>10, <1>11, <1>12, <1>13, <1>14

-----------------------------------------------------------------------------

LEMMA CountInit == Init => CountInv
<1> SUFFICES ASSUME Init PROVE CountInv
  OBVIOUS
<1> USE DEF Init, MetricsInit
<1>1. \A k : Counted(k) = {}
  BY DEF Counted
<1>2. Cardinality({}) = 0
  BY FS_EmptySet
<1>3. \A k \in Counters : counter[k] = Cardinality(Counted(k))
  BY <1>1, <1>2
<1>4. blocked \in [Requests -> BOOLEAN]
  OBVIOUS
<1> QED  BY <1>3, <1>4 DEF CountInv, Steps, Statuses

(* Every step is quiet, an answer or an increment. *)
LEMMA CountNext == CountInv /\ [Next]_vars => CountInv'
<1> SUFFICES ASSUME CountInv, [Next]_vars PROVE CountInv'
  OBVIOUS
<1> DEFINE Quiet ==
      /\ UNCHANGED <<status, blocked, counter, todo>>
      /\ pc' \in [Requests -> Steps]
      /\ \A r \in Requests :
           \/ pc'[r] = pc[r]
           \/ /\ pc[r] # "record" /\ pc'[r] # "record"
              /\ pc[r] \in Late => pc'[r] \in Late
<1>q. Quiet => CountInv'
  BY QuietStep
<1>t. pc \in [Requests -> Steps]
  BY DEF CountInv
<1>e. ASSUME NEW r \in Requests, NEW t \in {"done", "gone"}, pc[r] # "record", End(r, t)
      PROVE  CountInv'
  <2>1. Quiet
    BY <1>e, <1>t DEF End, GoTo, Steps, Late
  <2> QED  BY <2>1, <1>q
<1>1. CASE UNCHANGED vars
  <2>1. Quiet
    BY <1>1, <1>t DEF vars, request, metrics
  <2> QED  BY <2>1, <1>q
<1>2. CASE CtrlC \/ AcceptFails
  <2>1. Stop
    BY <1>2 DEF CtrlC, AcceptFails
  <2>2. Quiet
    BY <2>1, <1>t DEF Stop, request, metrics, Steps, Late
  <2> QED  BY <2>2, <1>q
<1>3. CASE Reload \/ Exit
  <2>1. Quiet
    BY <1>3, <1>t DEF Reload, Exit, request, metrics
  <2> QED  BY <2>1, <1>q
<1>4. ASSUME NEW r \in Requests,
             Connect(r) \/ Accept(r) \/ Handshake(r) \/ Receive(r) \/ Choose(r)
      PROVE  CountInv'
  <2>1. UNCHANGED <<status, blocked, counter, todo>>
    BY <1>4 DEF Connect, Accept, Handshake, Receive, Choose, request, metrics
  <2>2. \E t \in {"backlog", "spawned", "handshake", "open", "render", "route"} :
          pc' = [pc EXCEPT ![r] = t]
    BY <1>4 DEF Connect, Accept, Handshake, Receive, Choose, GoTo
  <2>3. pc[r] \in {"away", "backlog", "spawned", "handshake", "open"}
    BY <1>4 DEF Connect, Accept, Handshake, Receive, Choose
  <2>4. Quiet
    BY <2>1, <2>2, <2>3, <1>t DEF Steps, Late
  <2> QED  BY <2>4, <1>q
<1>5. ASSUME NEW r \in Requests, Route(r)  PROVE CountInv'
  <2>1. pc[r] = "route" /\ pc[r] \notin Late /\ UNCHANGED counter
    BY <1>5 DEF Route, Late
  <2>2. CASE \E s \in Statuses : Answer(r, s, FALSE)
    BY <2>1, <2>2, AnswerStep
  <2>3. CASE GoTo(r, "plugins") /\ UNCHANGED <<status, blocked, todo>>
    <3>1. Quiet
      BY <2>1, <2>3, <1>t DEF GoTo, Steps, Late
    <3> QED  BY <3>1, <1>q
  <2> QED  BY <1>5, <2>2, <2>3 DEF Route, Statuses
<1>6. ASSUME NEW r \in Requests, RunPlugins(r)  PROVE CountInv'
  <2>1. pc[r] = "plugins" /\ pc[r] \notin Late
    BY <1>6 DEF RunPlugins, Late
  <2>2. PICK v : Decide(r, v)
    BY <1>6 DEF RunPlugins
  <2>3. UNCHANGED counter
    BY <2>2 DEF Decide
  <2>4. CASE Answer(r, "4xx", TRUE) \/ Answer(r, "5xx", FALSE)
    <3>1. "4xx" \in Statuses /\ "5xx" \in Statuses /\ TRUE \in BOOLEAN /\ FALSE \in BOOLEAN
      BY DEF Statuses
    <3> QED  BY <2>1, <2>3, <2>4, <3>1, AnswerStep
  <2>5. CASE /\ pc' = [pc EXCEPT ![r] = "forward"] \/ pc' = [pc EXCEPT ![r] = "looping"]
             /\ UNCHANGED <<status, blocked, todo>>
    <3>1. Quiet
      BY <2>1, <2>3, <2>5, <1>t DEF Steps, Late
    <3> QED  BY <3>1, <1>q
  <2> QED  BY <2>2, <2>4, <2>5 DEF Decide, GoTo
<1>7. ASSUME NEW r \in Requests, ForwardReturns(r)  PROVE CountInv'
  <2>1. pc[r] \notin Late /\ UNCHANGED counter
    BY <1>7 DEF ForwardReturns, Late
  <2>2. PICK s \in Statuses : Answer(r, s, FALSE)
    BY <1>7 DEF ForwardReturns
  <2> QED  BY <2>1, <2>2, AnswerStep
<1>8. ASSUME NEW r \in Requests, Rendering(r)  PROVE CountInv'
  <2>1. UNCHANGED <<status, blocked, counter, todo>>
    BY <1>8 DEF Rendering, RenderOne, request
  <2>2. pc[r] = "render" /\ (pc' = [pc EXCEPT ![r] = "reply"] \/ pc' = pc)
    BY <1>8 DEF Rendering, GoTo
  <2>3. Quiet
    BY <2>1, <2>2, <1>t DEF Steps, Late
  <2> QED  BY <2>3, <1>q
<1>9. ASSUME NEW r \in Requests, Reply(r) \/ ClientLeaves(r) \/ DropTask(r)  PROVE CountInv'
  <2>1. \E t \in {"done", "gone"} : End(r, t)
    BY <1>9 DEF Reply, ClientLeaves, DropTask
  <2>2. pc[r] # "record"
    BY <1>9 DEF Reply, ClientLeaves, DropTask, Awaits
  <2> QED  BY <2>1, <2>2, <1>e
<1> QED
  BY <1>1, <1>2, <1>3, <1>4, <1>5, <1>6, <1>7, <1>8, <1>9, RecordStep DEF Next, Task

(* No increment is lost and none happens twice: every counter is, at every *)
(* moment, the number of answers of its kind that were recorded, whatever  *)
(* order the relaxed increments of concurrent requests take effect in      *)
(* (metrics.rs:20-33, handler.rs:40-73).                                   *)
THEOREM CountersCorrect == Spec => []CountersExact
<1>1. CountInv => CountersExact
  BY DEF CountInv, CountersExact, Counted
<1> QED  BY <1>1, CountInit, CountNext, PTL DEF Spec

-----------------------------------------------------------------------------

(* The answers out before a scrape that belong to a counter. *)
Earlier(r, k) == {q \in before[r] : Belongs(q, k)}

(* Why a scrape shows them: they were recorded, and their requests are     *)
(* done with; what was loaded had counted them.                            *)
ScrapeInv ==
  /\ seen = [r \in Requests |-> seen[r]]
  /\ before \in [Requests -> SUBSET Requests]
  /\ \A r \in Requests : \A q \in before[r] : pc[q] = "done" /\ status[q] # "none"
  /\ \A r \in Requests : DOMAIN seen[r] # {} => pc[r] \in {"render", "reply"}
  /\ \A r \in Requests : \A k \in DOMAIN seen[r] :
       seen[r][k] >= Cardinality(Earlier(r, k))

LEMMA ScrapeInit == Init => ScrapeInv
<1> SUFFICES ASSUME Init PROVE ScrapeInv
  OBVIOUS
<1>1. \A r \in Requests : seen[r] = <<>>
  BY DEF Init, MetricsInit
<1>2. DOMAIN <<>> = {}
  OBVIOUS
<1>3. before = [r \in Requests |-> {}] /\ seen = [r \in Requests |-> seen[r]]
  BY DEF Init, MetricsInit
<1> QED  BY <1>1, <1>2, <1>3 DEF ScrapeInv

(* Steps that leave what was loaded, and what was answered, alone, or      *)
(* start or end a scrape. *)
LEMMA ScrapeQuiet ==
  ASSUME ScrapeInv,
         seen' = [r \in Requests |-> seen'[r]],
         before' \in [Requests -> SUBSET Requests],
         \A q \in Requests : pc[q] = "done" =>
           pc'[q] = "done" /\ status'[q] = status[q] /\ blocked'[q] = blocked[q],
         \A r \in Requests :
           \/ /\ seen'[r] = seen[r] /\ before'[r] = before[r]
              /\ pc[r] \in {"render", "reply"} => pc'[r] = pc[r]
           \/ /\ DOMAIN seen'[r] = {}
              /\ \A q \in before'[r] : pc'[q] = "done" /\ status'[q] # "none"
  PROVE  ScrapeInv'
<1>1. \A r \in Requests : \A q \in before'[r] : pc'[q] = "done" /\ status'[q] # "none"
  BY DEF ScrapeInv
<1>2. \A r \in Requests : DOMAIN seen'[r] # {} => pc'[r] \in {"render", "reply"}
  BY DEF ScrapeInv
<1>3. ASSUME NEW r \in Requests, NEW k \in DOMAIN seen'[r]
      PROVE  seen'[r][k] >= Cardinality(Earlier(r, k)')
  <2>1. seen'[r] = seen[r] /\ before'[r] = before[r]
    OBVIOUS
  <2>2. \A q \in before[r] : status'[q] = status[q] /\ blocked'[q] = blocked[q]
    BY DEF ScrapeInv
  <2>3. \A q \in before[r] : Belongs(q, k)' <=> Belongs(q, k)
    BY <2>2 DEF Belongs
  <2>4. Earlier(r, k)' = Earlier(r, k)
    BY <2>1, <2>3 DEF Earlier
  <2> QED  BY <2>1, <2>4 DEF ScrapeInv
<1> QED  BY <1>1, <1>2, <1>3 DEF ScrapeInv

(* A load comes after the increments of all answers out before.            *)
LEMMA ScrapeLoads ==
  ASSUME CountInv, ScrapeInv, NEW r \in Requests, Rendering(r)
  PROVE  ScrapeInv'
<1>1. PICK k \in Counters \ DOMAIN seen[r] :
        seen' = [seen EXCEPT ![r] =
          [j \in DOMAIN seen[r] \cup {k} |-> IF j = k THEN counter[k] ELSE seen[r][j]]]
  BY DEF Rendering, RenderOne
<1>2. /\ UNCHANGED <<status, blocked, before>>
      /\ pc[r] = "render"
      /\ pc' = [pc EXCEPT ![r] = "reply"] \/ pc' = pc
  BY DEF Rendering, GoTo, request, history
<1>3. \A q \in Requests \ {r} : seen'[q] = seen[q]
  BY <1>1 DEF ScrapeInv
<1>4. /\ DOMAIN seen'[r] = DOMAIN seen[r] \cup {k}
      /\ \A j \in DOMAIN seen[r] : seen'[r][j] = seen[r][j]
      /\ seen'[r][k] = counter[k]
  <2>1. seen'[r] = [j \in DOMAIN seen[r] \cup {k} |-> IF j = k THEN counter[k] ELSE seen[r][j]]
    BY <1>1 DEF ScrapeInv
  <2> QED  BY <2>1, <1>1
<1>5. \A q \in Requests : \A j : Earlier(q, j)' = Earlier(q, j)
  BY <1>2 DEF Earlier, Belongs
<1>6. counter[k] >= Cardinality(Earlier(r, k))
  <2>1. Earlier(r, k) \subseteq Counted(k)
    BY DEF Earlier, Counted, CountInv, ScrapeInv
  <2>2. Cardinality(Earlier(r, k)) <= Cardinality(Counted(k))
    BY <2>1, CountedFinite, FS_Subset
  <2>3. Cardinality(Earlier(r, k)) \in Nat
    BY <2>1, CountedFinite, FS_Subset, FS_CardinalityType
  <2>4. counter[k] = Cardinality(Counted(k))
    BY DEF CountInv
  <2> QED  BY <2>2, <2>3, <2>4, CountedFinite
<1>7. ASSUME NEW q \in Requests, NEW j \in DOMAIN seen'[q]
      PROVE  seen'[q][j] >= Cardinality(Earlier(q, j)')
  BY <1>3, <1>4, <1>5, <1>6 DEF ScrapeInv
<1>8. seen' = [q \in Requests |-> seen'[q]]
  BY <1>1 DEF ScrapeInv
<1>9. /\ \A q \in Requests : DOMAIN seen'[q] # {} => pc'[q] \in {"render", "reply"}
      /\ \A q \in Requests : \A p \in before'[q] : pc'[p] = "done" /\ status'[p] # "none"
  BY <1>2, <1>3 DEF ScrapeInv, CountInv
<1> QED  BY <1>2, <1>7, <1>8, <1>9 DEF ScrapeInv

LEMMA ScrapeNext == CountInv /\ ScrapeInv /\ [Next]_vars => ScrapeInv'
<1> SUFFICES ASSUME CountInv, ScrapeInv, [Next]_vars PROVE ScrapeInv'
  OBVIOUS
<1> DEFINE Quiet ==
      /\ seen' = [r \in Requests |-> seen'[r]]
      /\ before' \in [Requests -> SUBSET Requests]
      /\ \A q \in Requests : pc[q] = "done" =>
           pc'[q] = "done" /\ status'[q] = status[q] /\ blocked'[q] = blocked[q]
      /\ \A r \in Requests :
           \/ /\ seen'[r] = seen[r] /\ before'[r] = before[r]
              /\ pc[r] \in {"render", "reply"} => pc'[r] = pc[r]
           \/ /\ DOMAIN seen'[r] = {}
              /\ \A q \in before'[r] : pc'[q] = "done" /\ status'[q] # "none"
<1>q. Quiet => ScrapeInv'
  BY ScrapeQuiet
<1>t. /\ pc \in [Requests -> Steps]
      /\ status \in [Requests -> Statuses \cup {"none"}]
      /\ before \in [Requests -> SUBSET Requests]
      /\ seen = [r \in Requests |-> seen[r]]
  BY DEF CountInv, ScrapeInv
<1>b. blocked \in [Requests -> BOOLEAN]
  BY DEF CountInv
(* A step of one request that is neither done nor scraping. *)
<1>m. ASSUME UNCHANGED <<seen, before>>, NEW r \in Requests, NEW t \in Steps,
             pc[r] \notin {"render", "reply", "done"},
             pc' = [pc EXCEPT ![r] = t],
             \A q \in Requests \ {r} : status'[q] = status[q] /\ blocked'[q] = blocked[q]
      PROVE  ScrapeInv'
  <2>1. Quiet
    BY <1>m, <1>t
  <2> QED  BY <2>1, <1>q
<1>a. ASSUME NEW r \in Requests, NEW s, NEW b, Answer(r, s, b),
             pc[r] \notin {"render", "reply", "done"}, UNCHANGED <<seen, before>>
      PROVE  ScrapeInv'
  <2>1. "record" \in Steps /\ pc' = [pc EXCEPT ![r] = "record"]
    BY <1>a DEF Answer, GoTo, Steps
  <2>2. \A q \in Requests \ {r} : status'[q] = status[q]
    BY <1>a, <1>t DEF Answer
  <2>3. \A q \in Requests \ {r} : blocked'[q] = blocked[q]
    BY <1>a, <1>b DEF Answer
  <2> QED  BY <1>a, <1>m, <2>1, <2>2, <2>3
<1>1. CASE UNCHANGED vars
  <2>1. Quiet
    BY <1>1, <1>t DEF vars, request, metrics, history
  <2> QED  BY <2>1, <1>q
<1>2. CASE CtrlC \/ AcceptFails
  <2>1. Stop
    BY <1>2 DEF CtrlC, AcceptFails
  <2>2. Quiet
    BY <2>1, <1>t DEF Stop, request, metrics, history
  <2> QED  BY <2>2, <1>q
<1>3. CASE Reload \/ Exit
  <2>1. Quiet
    BY <1>3, <1>t DEF Reload, Exit, request, metrics, history
  <2> QED  BY <2>1, <1>q
<1>4. ASSUME NEW r \in Requests, Connect(r) \/ Accept(r) \/ Handshake(r) \/ Choose(r)
      PROVE  ScrapeInv'
  <2>1. UNCHANGED <<status, blocked, seen, before>>
    BY <1>4 DEF Connect, Accept, Handshake, Choose, request, metrics, history
  <2>2. \E t \in Steps : pc' = [pc EXCEPT ![r] = t]
    BY <1>4 DEF Connect, Accept, Handshake, Choose, GoTo, Steps
  <2>3. pc[r] \notin {"render", "reply", "done"}
    BY <1>4 DEF Connect, Accept, Handshake, Choose
  <2> QED  BY <2>1, <2>2, <2>3, <1>m
<1>5. ASSUME NEW r \in Requests, Receive(r)  PROVE ScrapeInv'
  <2>1. UNCHANGED <<status, blocked, seen>> /\ pc[r] = "open"
    BY <1>5 DEF Receive, metrics
  <2>2. \E t \in Steps : pc' = [pc EXCEPT ![r] = t]
    BY <1>5 DEF Receive, GoTo, Steps
  <2>3. CASE UNCHANGED before
    BY <2>1, <2>2, <2>3, <1>m
  <2>4. CASE before' = [before EXCEPT ![r] =
               {q \in Requests : pc[q] = "done" /\ status[q] # "none"}]
    <3>1. DOMAIN seen[r] = {}
      BY <2>1 DEF ScrapeInv
    <3>2. Quiet
      BY <2>1, <2>2, <2>4, <3>1, <1>t
    <3> QED  BY <3>2, <1>q
  <2> QED  BY <1>5, <2>3, <2>4 DEF Receive
<1>6. ASSUME NEW r \in Requests, Route(r)  PROVE ScrapeInv'
  <2>1. pc[r] = "route" /\ UNCHANGED <<seen, before>>
    BY <1>6 DEF Route
  <2>2. CASE \E s : Answer(r, s, FALSE)
    BY <2>1, <2>2, <1>a
  <2>3. CASE GoTo(r, "plugins") /\ UNCHANGED <<status, blocked>>
    BY <2>1, <2>3, <1>m DEF GoTo, Steps
  <2> QED  BY <1>6, <2>2, <2>3 DEF Route
<1>7. ASSUME NEW r \in Requests, RunPlugins(r)  PROVE ScrapeInv'
  <2>1. pc[r] = "plugins"
    BY <1>7 DEF RunPlugins
  <2>2. PICK v : Decide(r, v)
    BY <1>7 DEF RunPlugins
  <2>3. UNCHANGED <<seen, before>>
    BY <2>2 DEF Decide
  <2>4. CASE Answer(r, "4xx", TRUE) \/ Answer(r, "5xx", FALSE)
    BY <2>1, <2>3, <2>4, <1>a
  <2>5. CASE /\ \E t \in Steps : pc' = [pc EXCEPT ![r] = t]
             /\ UNCHANGED <<status, blocked>>
    BY <2>1, <2>3, <2>5, <1>m
  <2> QED  BY <2>2, <2>4, <2>5 DEF Decide, GoTo, Steps
<1>8. ASSUME NEW r \in Requests, ForwardReturns(r)  PROVE ScrapeInv'
  <2>1. pc[r] = "forward" /\ UNCHANGED <<seen, before>>
    BY <1>8 DEF ForwardReturns
  <2>2. \E s : Answer(r, s, FALSE)
    BY <1>8 DEF ForwardReturns
  <2> QED  BY <2>1, <2>2, <1>a
<1>9. ASSUME NEW r \in Requests, Recording(r)  PROVE ScrapeInv'
  <2>1. UNCHANGED <<status, blocked, seen, before>> /\ pc[r] = "record"
    BY <1>9 DEF Recording, RecordOne, request, history
  <2>2. \E t \in Steps : pc' = [pc EXCEPT ![r] = t]
    <3>1. pc' = [pc EXCEPT ![r] = "reply"] \/ pc' = [pc EXCEPT ![r] = "record"]
      BY <1>9, <2>1, <1>t DEF Recording, GoTo
    <3> QED  BY <3>1 DEF Steps
  <2> QED  BY <2>1, <2>2, <1>m
<1>10. ASSUME NEW r \in Requests, Reply(r) \/ ClientLeaves(r) \/ DropTask(r)
       PROVE  ScrapeInv'
  <2>1. PICK t \in {"done", "gone"} : End(r, t)
    BY <1>10 DEF Reply, ClientLeaves, DropTask
  <2>2. pc[r] # "done"
    BY <1>10 DEF Reply, ClientLeaves, DropTask, Awaits
  <2>3. /\ pc' = [pc EXCEPT ![r] = t]
        /\ seen' = [seen EXCEPT ![r] = <<>>]
        /\ before' = [before EXCEPT ![r] = {}]
        /\ UNCHANGED <<status, blocked>>
    BY <2>1 DEF End, GoTo
  <2>4. DOMAIN seen'[r] = {} /\ before'[r] = {}
    BY <2>3, <1>t
  <2>5. Quiet
    BY <2>2, <2>3, <2>4, <1>t
  <2> QED  BY <2>5, <1>q
<1> QED
  BY <1>1, <1>2, <1>3, <1>4, <1>5, <1>6, <1>7, <1>8, <1>9, <1>10, ScrapeLoads
  DEF Next, Task

(* Whatever the relaxed loads of a scrape interleave with, each of them    *)
(* shows all the answers that clients had before the scrape was received   *)
(* (metrics.rs:36-65, handler.rs:31-48).                                   *)
THEOREM ScrapesCorrect == Spec => []ScrapeCountsAnswers
<1>1. ScrapeInv => ScrapeCountsAnswers
  BY DEF ScrapeInv, ScrapeCountsAnswers, Earlier
<1> QED
  BY <1>1, CountInit, CountNext, ScrapeInit, ScrapeNext, PTL DEF Spec

-----------------------------------------------------------------------------

(* A request holds the route that one state, live since it came, has for   *)
(* it. *)
HoldsFirstMatch(r) ==
  \E s \in lived[r] : \E rt \in FirstMatch(s, path[r]) : route[r] = {rt}

AllPass(rt) == \A i \in 1 .. Len(rt.plugins) : rt.plugins[i] = "pass"

(* Where a request has a history of live states. *)
Watching == {"backlog", "spawned", "handshake", "open", "route", "plugins", "forward"}

(* Why a request goes by one state: what is live is in its history while   *)
(* it may still load it, and what it has loaded stays in there.            *)
StateInv ==
  /\ live \in AppStates
  /\ pc \in [Requests -> Steps]
  /\ lived \in [Requests -> SUBSET AppStates]
  /\ tls = [r \in Requests |-> tls[r]]
  /\ path = [r \in Requests |-> path[r]]
  /\ route = [r \in Requests |-> route[r]]
  /\ \A r \in Requests : pc[r] \in Watching => live \in lived[r]
  /\ \A r \in Requests : pc[r] \in {"handshake", "open"} =>
       \E s \in lived[r] : s.tls = tls[r]
  /\ \A r \in Requests : pc[r] \in {"plugins", "forward"} => HoldsFirstMatch(r)
  /\ \A r \in Requests : pc[r] = "forward" => \A rt \in route[r] : AllPass(rt)

LEMMA StateInit == Init => StateInv
BY DEF Init, StateInv, Steps, Watching

(* There is at most one first match. *)
LEMMA FirstMatchUnique ==
  ASSUME NEW s \in AppStates, NEW p, NEW x \in FirstMatch(s, p)
  PROVE  FirstMatch(s, p) = {x}
<1>1. s.routes \in Seq(Routes) /\ Len(s.routes) \in Nat
  BY ServingAssumption
<1>2. ASSUME NEW i \in 1 .. Len(s.routes), NEW j \in 1 .. Len(s.routes),
             p \in s.routes[i].match, p \in s.routes[j].match,
             \A k \in 1 .. i - 1 : p \notin s.routes[k].match,
             \A k \in 1 .. j - 1 : p \notin s.routes[k].match
      PROVE  i = j
  BY <1>1, <1>2
<1> QED  BY <1>2 DEF FirstMatch

(* A step of one request, seen from the others: nothing of theirs changes. *)
LEMMA OneRequestStep ==
  ASSUME StateInv, UNCHANGED live, NEW r \in Requests, NEW t \in Steps,
         pc' = [pc EXCEPT ![r] = t],
         lived' \in [Requests -> SUBSET AppStates],
         tls' = [q \in Requests |-> tls'[q]],
         path' = [q \in Requests |-> path'[q]],
         route' = [q \in Requests |-> route'[q]],
         \A q \in Requests \ {r} :
           /\ lived'[q] = lived[q] /\ tls'[q] = tls[q]
           /\ path'[q] = path[q] /\ route'[q] = route[q],
         t \in Watching => live \in lived'[r],
         t \in {"handshake", "open"} => \E s \in lived'[r] : s.tls = tls'[r],
         t \in {"plugins", "forward"} => HoldsFirstMatch(r)',
         t = "forward" => \A rt \in route'[r] : AllPass(rt)
  PROVE  StateInv'
<1> USE DEF StateInv
<1>1. pc'[r] = t /\ pc' \in [Requests -> Steps] /\ \A q \in Requests \ {r} : pc'[q] = pc[q]
  OBVIOUS
<1>2. \A q \in Requests : pc'[q] \in Watching => live' \in lived'[q]
  BY <1>1
<1>3. \A q \in Requests : pc'[q] \in {"handshake", "open"} =>
        \E s \in lived'[q] : s.tls = tls'[q]
  BY <1>1
<1>4. ASSUME NEW q \in Requests \ {r}, HoldsFirstMatch(q)  PROVE HoldsFirstMatch(q)'
  <2>1. PICK s \in lived[q] : \E rt \in FirstMatch(s, path[q]) : route[q] = {rt}
    BY <1>4 DEF HoldsFirstMatch
  <2>2. FirstMatch(s, path[q])' = FirstMatch(s, path[q])
    BY DEF FirstMatch
  <2> QED  BY <2>1, <2>2 DEF HoldsFirstMatch
<1>5. \A q \in Requests : pc'[q] \in {"plugins", "forward"} => HoldsFirstMatch(q)'
  BY <1>1, <1>4
<1>6. \A q \in Requests : pc'[q] = "forward" => \A rt \in route'[q] : AllPass(rt)
  BY <1>1
<1> QED  BY <1>1, <1>2, <1>3, <1>5, <1>6

LEMMA StateNext == StateInv /\ [Next]_vars => StateInv'
<1> SUFFICES ASSUME StateInv, [Next]_vars PROVE StateInv'
  OBVIOUS
<1>t. /\ live \in AppStates
      /\ pc \in [Requests -> Steps]
      /\ lived \in [Requests -> SUBSET AppStates]
      /\ tls = [r \in Requests |-> tls[r]]
      /\ path = [r \in Requests |-> path[r]]
      /\ route = [r \in Requests |-> route[r]]
  BY DEF StateInv
(* An answer, or the end of a task: nothing is left to hold. *)
<1>a. ASSUME NEW r \in Requests, NEW s, NEW b, Answer(r, s, b), UNCHANGED <<live, tls>>
      PROVE  StateInv'
  <2>1. /\ "record" \in Steps /\ "record" \notin Watching
        /\ pc' = [pc EXCEPT ![r] = "record"]
        /\ lived' = [lived EXCEPT ![r] = {}]
        /\ path' = [path EXCEPT ![r] = None]
        /\ route' = [route EXCEPT ![r] = {}]
    BY <1>a DEF Answer, GoTo, Steps, Watching
  <2>2. /\ lived' \in [Requests -> SUBSET AppStates]
        /\ path' = [q \in Requests |-> path'[q]]
        /\ route' = [q \in Requests |-> route'[q]]
        /\ tls' = [q \in Requests |-> tls'[q]]
    BY <1>a, <2>1, <1>t
  <2>3. \A q \in Requests \ {r} :
           /\ lived'[q] = lived[q] /\ tls'[q] = tls[q]
           /\ path'[q] = path[q] /\ route'[q] = route[q]
    BY <1>a, <2>1, <1>t
  <2> QED  BY <1>a, <2>1, <2>2, <2>3, OneRequestStep
<1>e. ASSUME NEW r \in Requests, NEW t \in {"done", "gone"}, End(r, t)  PROVE StateInv'
  <2>1. /\ t \in Steps /\ t \notin Watching /\ t \notin {"handshake", "open", "plugins", "forward"}
        /\ pc' = [pc EXCEPT ![r] = t]
        /\ lived' = [lived EXCEPT ![r] = {}]
        /\ tls' = [tls EXCEPT ![r] = FALSE]
        /\ path' = [path EXCEPT ![r] = None]
        /\ route' = [route EXCEPT ![r] = {}]
        /\ UNCHANGED live
    BY <1>e DEF End, GoTo, Steps, Watching
  <2>2. /\ lived' \in [Requests -> SUBSET AppStates]
        /\ path' = [q \in Requests |-> path'[q]]
        /\ route' = [q \in Requests |-> route'[q]]
        /\ tls' = [q \in Requests |-> tls'[q]]
    BY <2>1, <1>t
  <2>3. \A q \in Requests \ {r} :
           /\ lived'[q] = lived[q] /\ tls'[q] = tls[q]
           /\ path'[q] = path[q] /\ route'[q] = route[q]
    BY <2>1, <1>t
  <2> QED  BY <2>1, <2>2, <2>3, OneRequestStep
<1>u. ASSUME UNCHANGED <<live, lived, tls, path, route>>, pc' \in [Requests -> Steps],
             \A r \in Requests : pc'[r] = pc[r] \/ pc'[r] \in {"reply", "gone", "looping"}
      PROVE  StateInv'
  <2>1. \A r \in Requests : HoldsFirstMatch(r)' <=> HoldsFirstMatch(r)
    BY <1>u DEF HoldsFirstMatch, FirstMatch
  <2> QED  BY <1>u, <2>1 DEF StateInv, Watching
<1>1. CASE UNCHANGED vars
  BY <1>1, <1>t, <1>u DEF vars, request, history
<1>2. CASE CtrlC \/ AcceptFails
  <2>1. Stop
    BY <1>2 DEF CtrlC, AcceptFails
  <2> QED  BY <2>1, <1>t, <1>u DEF Stop, request, history, Steps
<1>3. CASE Exit
  BY <1>3, <1>t, <1>u DEF Exit, request, history
<1>4. CASE Reload
  <2>1. /\ live' \in AppStates
        /\ lived' = [r \in Requests |-> IF lived[r] = {} THEN {} ELSE lived[r] \cup {live'}]
        /\ UNCHANGED <<pc, tls, path, route>>
    BY <1>4 DEF Reload, request
  <2>2. \A r \in Requests : lived[r] \subseteq lived'[r]
    BY <2>1
  <2>3. \A r \in Requests : pc'[r] \in Watching => live' \in lived'[r]
    BY <2>1 DEF StateInv
  <2>4. lived' \in [Requests -> SUBSET AppStates]
    BY <2>1, <1>t
  <2>5. \A r \in Requests : pc'[r] \in {"handshake", "open"} =>
          \E s \in lived'[r] : s.tls = tls'[r]
    BY <2>1, <2>2 DEF StateInv
  <2>6. ASSUME NEW r \in Requests, HoldsFirstMatch(r)  PROVE HoldsFirstMatch(r)'
    <3>1. \A s : FirstMatch(s, path'[r]) = FirstMatch(s, path[r])
      BY <2>1
    <3> QED  BY <2>1, <2>2, <2>6, <3>1 DEF HoldsFirstMatch
  <2> QED  BY <2>1, <2>3, <2>4, <2>5, <2>6 DEF StateInv
<1>5. ASSUME NEW r \in Requests, Connect(r) \/ Accept(r) \/ Handshake(r)  PROVE StateInv'
  <2>1. UNCHANGED <<live, tls, path, route>>
    BY <1>5 DEF Connect, Accept, Handshake, request
  <2>2. CASE Connect(r)
    <3>1. /\ pc' = [pc EXCEPT ![r] = "backlog"] /\ "backlog" \in Steps
          /\ lived' = [lived EXCEPT ![r] = {live}]
      BY <2>2 DEF Connect, GoTo, Steps
    <3> QED  BY <2>1, <3>1, <1>t, OneRequestStep
  <2>3. CASE Accept(r)
    <3>1. /\ pc' = [pc EXCEPT ![r] = "spawned"] /\ "spawned" \in Steps
          /\ live \in lived[r] /\ UNCHANGED lived
      BY <2>3 DEF Accept, GoTo, Steps, history, StateInv, Watching
    <3> QED  BY <2>1, <3>1, <1>t, OneRequestStep
  <2>4. CASE Handshake(r)
    <3>1. /\ pc' = [pc EXCEPT ![r] = "open"] /\ "open" \in Steps
          /\ live \in lived[r] /\ UNCHANGED lived
          /\ \E s \in lived[r] : s.tls = tls[r]
      BY <2>4 DEF Handshake, GoTo, Steps, history, StateInv, Watching
    <3> QED  BY <2>1, <3>1, <1>t, OneRequestStep
  <2> QED  BY <1>5, <2>2, <2>3, <2>4
<1>6. ASSUME NEW r \in Requests, Choose(r)  PROVE StateInv'
  <2>1. PICK t \in {"handshake", "open"} : pc' = [pc EXCEPT ![r] = t]
    BY <1>6 DEF Choose, GoTo
  <2>2. /\ t \in Steps /\ live \in lived[r] /\ UNCHANGED <<live, lived, path, route>>
        /\ tls' = [tls EXCEPT ![r] = live.tls]
    BY <1>6, <2>1 DEF Choose, history, StateInv, Watching, Steps
  <2>3. tls'[r] = live.tls /\ tls' = [q \in Requests |-> tls'[q]]
        /\ \A q \in Requests \ {r} : tls'[q] = tls[q]
    BY <2>2, <1>t
  <2> QED  BY <2>1, <2>2, <2>3, <1>t, OneRequestStep
<1>7. ASSUME NEW r \in Requests, Receive(r)  PROVE StateInv'
  <2>1. PICK t \in {"render", "route"}, n \in {{}, {live}}, p \in Paths \cup {"/health", path[r]} :
          /\ pc' = [pc EXCEPT ![r] = t]
          /\ lived' = [lived EXCEPT ![r] = n]
          /\ path' = [path EXCEPT ![r] = p]
          /\ t = "route" => n = {live}
    <3>1. CASE /\ pc' = [pc EXCEPT ![r] = "render"] /\ UNCHANGED path
               /\ lived' = [lived EXCEPT ![r] = {}]
      <4>1. path' = [path EXCEPT ![r] = path[r]]
        BY <3>1, <1>t
      <4> QED  BY <3>1, <4>1
    <3>2. CASE /\ pc' = [pc EXCEPT ![r] = "route"]
               /\ path' \in {[path EXCEPT ![r] = p] : p \in Paths \cup {"/health"}}
               /\ lived' = [lived EXCEPT ![r] = {live}]
      BY <3>2
    <3> QED  BY <1>7, <3>1, <3>2 DEF Receive, GoTo
  <2>2. tls' = [tls EXCEPT ![r] = FALSE] /\ UNCHANGED <<live, route>>
    BY <1>7 DEF Receive
  <2>3. /\ t \in Steps
        /\ t \in Watching => live \in lived'[r]
        /\ t \notin {"handshake", "open", "plugins", "forward"}
    BY <2>1, <1>t DEF Steps, Watching
  <2>4. /\ lived' \in [Requests -> SUBSET AppStates]
        /\ path' = [q \in Requests |-> path'[q]]
        /\ tls' = [q \in Requests |-> tls'[q]]
        /\ \A q \in Requests \ {r} :
             lived'[q] = lived[q] /\ tls'[q] = tls[q] /\ path'[q] = path[q]
    BY <2>1, <2>2, <1>t
  <2> QED  BY <2>1, <2>2, <2>3, <2>4, <1>t, OneRequestStep
<1>8. ASSUME NEW r \in Requests, Route(r)  PROVE StateInv'
  <2>1. pc[r] = "route" /\ UNCHANGED <<live, tls>>
    BY <1>8 DEF Route
  <2>2. CASE \E s : Answer(r, s, FALSE)
    BY <2>1, <2>2, <1>a
  <2>3. CASE /\ FirstMatch(live, path[r]) # {}
             /\ route' = [route EXCEPT ![r] = FirstMatch(live, path[r])]
             /\ GoTo(r, "plugins")
             /\ UNCHANGED <<path, lived>>
    <3>1. PICK rt \in FirstMatch(live, path[r]) : FirstMatch(live, path[r]) = {rt}
      BY <2>3, <1>t, FirstMatchUnique
    <3>2. /\ route'[r] = {rt}
          /\ route' = [q \in Requests |-> route'[q]]
          /\ \A q \in Requests \ {r} : route'[q] = route[q]
      BY <2>3, <3>1, <1>t
    <3>3. live \in lived[r]
      BY <2>1 DEF StateInv, Watching
    <3>4. HoldsFirstMatch(r)'
      <4>1. rt \in FirstMatch(live, path'[r]) /\ live \in lived'[r]
        BY <2>3, <3>1, <3>3
      <4> QED  BY <3>2, <4>1 DEF HoldsFirstMatch
    <3>5. pc' = [pc EXCEPT ![r] = "plugins"] /\ "plugins" \in Steps
      BY <2>3 DEF GoTo, Steps
    <3> QED  BY <2>1, <2>3, <3>2, <3>3, <3>4, <3>5, <1>t, OneRequestStep
  <2> QED  BY <1>8, <2>2, <2>3 DEF Route
<1>9. ASSUME NEW r \in Requests, RunPlugins(r)  PROVE StateInv'
  <2>1. pc[r] = "plugins"
    BY <1>9 DEF RunPlugins
  <2>2. PICK rt \in route[r], v \in Verdicts : RunOnRequest(rt.plugins, v) /\ Decide(r, v)
    BY <1>9 DEF RunPlugins
  <2>3. UNCHANGED <<live, tls>>
    BY <2>2 DEF Decide
  <2>4. HoldsFirstMatch(r) /\ live \in lived[r]
    BY <2>1 DEF StateInv, Watching
  <2>5. CASE Answer(r, "4xx", TRUE) \/ Answer(r, "5xx", FALSE)
    BY <2>3, <2>5, <1>a
  <2>6. CASE v = "pass" /\ GoTo(r, "forward") /\ UNCHANGED <<path, route, lived>>
    <3>1. AllPass(rt)
      BY <2>2, <2>6 DEF RunOnRequest, AllPass
    <3>2. \A x \in route'[r] : AllPass(x)
      BY <2>2, <2>4, <2>6, <3>1 DEF HoldsFirstMatch
    <3>3. HoldsFirstMatch(r)'
      <4>1. path'[r] = path[r] /\ lived'[r] = lived[r] /\ route'[r] = route[r]
        BY <2>6
      <4> QED  BY <2>4, <4>1 DEF HoldsFirstMatch, FirstMatch
    <3>4. pc' = [pc EXCEPT ![r] = "forward"] /\ "forward" \in Steps
      BY <2>6 DEF GoTo, Steps
    <3> QED  BY <2>3, <2>4, <2>6, <3>2, <3>3, <3>4, <1>t, OneRequestStep
  <2>7. CASE GoTo(r, "looping") /\ UNCHANGED <<path, route, lived>>
    BY <2>3, <2>7, <1>t, <1>u DEF GoTo, Steps
  <2> QED  BY <2>2, <2>5, <2>6, <2>7 DEF Decide
<1>10. ASSUME NEW r \in Requests, ForwardReturns(r)  PROVE StateInv'
  <2>1. UNCHANGED <<live, tls>> /\ \E s : Answer(r, s, FALSE)
    BY <1>10 DEF ForwardReturns
  <2> QED  BY <2>1, <1>a
<1>11. ASSUME NEW r \in Requests, Recording(r) \/ Rendering(r)  PROVE StateInv'
  <2>1. UNCHANGED <<live, lived, tls, path, route>>
    BY <1>11 DEF Recording, Rendering, request, history
  <2>2. pc' = [pc EXCEPT ![r] = "reply"] \/ pc' = pc
    BY <1>11 DEF Recording, Rendering, GoTo
  <2> QED  BY <2>1, <2>2, <1>t, <1>u DEF Steps
<1>12. ASSUME NEW r \in Requests, Reply(r) \/ ClientLeaves(r) \/ DropTask(r)
       PROVE  StateInv'
  <2>1. \E t \in {"done", "gone"} : End(r, t)
    BY <1>12 DEF Reply, ClientLeaves, DropTask
  <2> QED  BY <2>1, <1>e
<1> QED
  BY <1>1, <1>2, <1>3, <1>4, <1>5, <1>6, <1>7, <1>8, <1>9, <1>10, <1>11, <1>12
  DEF Next, Task

(* However many reloads fall between its match, its plugins and its        *)
(* forward, a request is forwarded by the first match of one state that    *)
(* was live since it came, and past all plugins of that very route         *)
(* (handler.rs:95-115).                                                    *)
THEOREM OneStateThroughout == Spec => []OneState
<1>1. StateInv => OneState
  <2> SUFFICES ASSUME StateInv, NEW r \in Requests, pc[r] = "forward"
               PROVE  \E s \in lived[r] : \E rt \in FirstMatch(s, path[r]) :
                        /\ route[r] = {rt}
                        /\ \A i \in 1 .. Len(rt.plugins) : rt.plugins[i] = "pass"
    BY DEF OneState
  <2>1. PICK s \in lived[r] : \E rt \in FirstMatch(s, path[r]) : route[r] = {rt}
    BY DEF StateInv, HoldsFirstMatch
  <2>2. PICK rt \in FirstMatch(s, path[r]) : route[r] = {rt}
    BY <2>1
  <2>3. AllPass(rt)
    BY <2>2 DEF StateInv
  <2> QED  BY <2>1, <2>2, <2>3 DEF AllPass
<1> QED  BY <1>1, StateInit, StateNext, PTL DEF Spec

(* TLS or plaintext is the choice of a state that was live after the       *)
(* connection came, for every sequence of reloads (server.rs:84-92).       *)
THEOREM TlsTimely == Spec => []TlsOfItsTime
<1>1. StateInv => TlsOfItsTime
  BY DEF StateInv, TlsOfItsTime
<1> QED  BY <1>1, StateInit, StateNext, PTL DEF Spec

-----------------------------------------------------------------------------

(* What the invariants above leave open of the types.  A request holds at  *)
(* most one route because the first match is unique.                       *)
OneRoute(rts) == rts \subseteq Routes /\ Cardinality(rts) <= 1

Loaded(f) == \A k \in DOMAIN f : k \in Counters /\ f[k] \in Nat

RestInv ==
  /\ phase \in {"serving", "stopping", "exited"}
  /\ tls \in [Requests -> BOOLEAN]
  /\ path \in [Requests -> Paths \cup {"/health", None}]
  /\ \A r \in Requests : OneRoute(route[r])
  /\ \A r \in Requests : Loaded(seen[r])

LEMMA NoRoute == OneRoute({})
<1>1. Cardinality({}) = 0
  BY FS_EmptySet
<1> QED  BY <1>1 DEF OneRoute

(* find stops at the first route that matches (handler.rs:98-102). *)
LEMMA FirstMatchType ==
  ASSUME NEW s \in AppStates, NEW p
  PROVE  OneRoute(FirstMatch(s, p))
<1>1. s.routes \in Seq(Routes)
  BY ServingAssumption
<1>2. FirstMatch(s, p) \subseteq Routes
  BY <1>1 DEF FirstMatch
<1>3. CASE FirstMatch(s, p) = {}
  BY <1>3, NoRoute
<1>4. CASE FirstMatch(s, p) # {}
  <2>1. PICK x \in FirstMatch(s, p) : TRUE
    BY <1>4
  <2>2. FirstMatch(s, p) = {x}
    BY <2>1, FirstMatchUnique
  <2>3. Cardinality({x}) = 1
    BY FS_Singleton
  <2> QED  BY <1>2, <2>2, <2>3 DEF OneRoute
<1> QED  BY <1>3, <1>4

LEMMA RestInit == Init => RestInv
<1> SUFFICES ASSUME Init PROVE RestInv
  OBVIOUS
<1>1. \A r \in Requests : OneRoute(route[r])
  BY NoRoute DEF Init
<1>2. \A r \in Requests : Loaded(seen[r])
  BY DEF Init, MetricsInit, Loaded
<1>3. tls \in [Requests -> BOOLEAN]
  BY DEF Init
<1> QED  BY <1>1, <1>2, <1>3 DEF Init, RestInv

LEMMA RestNext ==
  CountInv /\ ScrapeInv /\ StateInv /\ RestInv /\ [Next]_vars => RestInv'
<1> SUFFICES ASSUME CountInv, ScrapeInv, StateInv, RestInv, [Next]_vars PROVE RestInv'
  OBVIOUS
<1>t. /\ phase \in {"serving", "stopping", "exited"}
      /\ tls \in [Requests -> BOOLEAN]
      /\ path \in [Requests -> Paths \cup {"/health", None}]
      /\ route = [r \in Requests |-> route[r]]
      /\ seen = [r \in Requests |-> seen[r]]
      /\ counter \in [Counters -> Nat]
      /\ live \in AppStates
  BY DEF CountInv, ScrapeInv, StateInv, RestInv
<1>o. \A r \in Requests : OneRoute(route[r]) /\ Loaded(seen[r])
  BY DEF RestInv
(* Steps that change at most the phase. *)
<1>u. ASSUME UNCHANGED <<tls, path, route, seen>>,
             phase' \in {"serving", "stopping", "exited"}
      PROVE  RestInv'
  BY <1>u DEF RestInv
(* An answer, and the end of a task. *)
<1>a. ASSUME NEW r \in Requests, NEW s, NEW b, Answer(r, s, b),
             UNCHANGED <<phase, tls, seen>>
      PROVE  RestInv'
  <2>1. /\ path' = [path EXCEPT ![r] = None]
        /\ route' = [route EXCEPT ![r] = {}]
    BY <1>a DEF Answer
  <2>2. path' \in [Requests -> Paths \cup {"/health", None}]
    BY <2>1, <1>t
  <2>3. \A q \in Requests : OneRoute(route'[q])
    BY <2>1, <1>t, <1>o, NoRoute
  <2> QED  BY <1>a, <1>t, <1>o, <2>2, <2>3 DEF RestInv
<1>e. ASSUME NEW r \in Requests, NEW t, End(r, t)  PROVE RestInv'
  <2>1. /\ tls' = [tls EXCEPT ![r] = FALSE]
        /\ path' = [path EXCEPT ![r] = None]
        /\ route' = [route EXCEPT ![r] = {}]
        /\ seen' = [seen EXCEPT ![r] = <<>>]
        /\ UNCHANGED phase
    BY <1>e DEF End
  <2>2. path' \in [Requests -> Paths \cup {"/health", None}]
    BY <2>1, <1>t
  <2>3. \A q \in Requests : OneRoute(route'[q])
    BY <2>1, <1>t, <1>o, NoRoute
  <2>4. Loaded(<<>>)
    BY DEF Loaded
  <2>5. \A q \in Requests : Loaded(seen'[q])
    BY <2>1, <2>4, <1>t, <1>o
  <2>6. tls' \in [Requests -> BOOLEAN]
    BY <2>1, <1>t
  <2> QED  BY <1>t, <2>1, <2>2, <2>3, <2>5, <2>6 DEF RestInv
<1>1. CASE UNCHANGED vars
  BY <1>1, <1>t, <1>u DEF vars, request, metrics
<1>2. CASE CtrlC \/ AcceptFails
  <2>1. Stop
    BY <1>2 DEF CtrlC, AcceptFails
  <2> QED  BY <2>1, <1>u DEF Stop, request, metrics
<1>3. CASE Reload \/ Exit
  BY <1>3, <1>t, <1>u DEF Reload, Exit, request, metrics
<1>4. ASSUME NEW r \in Requests, Connect(r) \/ Accept(r) \/ Handshake(r)  PROVE RestInv'
  BY <1>4, <1>t, <1>u DEF Connect, Accept, Handshake, request, metrics
<1>5. ASSUME NEW r \in Requests, Choose(r)  PROVE RestInv'
  <2>1. tls' = [tls EXCEPT ![r] = live.tls] /\ UNCHANGED <<phase, path, route, seen>>
    BY <1>5 DEF Choose, metrics
  <2>2. live.tls \in BOOLEAN
    BY <1>t, ServingAssumption
  <2>3. tls' \in [Requests -> BOOLEAN]
    BY <2>1, <2>2, <1>t
  <2> QED  BY <2>1, <2>3 DEF RestInv
<1>6. ASSUME NEW r \in Requests, Receive(r)  PROVE RestInv'
  <2>1. tls' = [tls EXCEPT ![r] = FALSE] /\ UNCHANGED <<phase, route, seen>>
    BY <1>6 DEF Receive, metrics
  <2>2. tls' \in [Requests -> BOOLEAN]
    BY <2>1, <1>t
  <2>3. path' = path \/ \E p \in Paths \cup {"/health"} : path' = [path EXCEPT ![r] = p]
    BY <1>6 DEF Receive
  <2>4. path' \in [Requests -> Paths \cup {"/health", None}]
    BY <2>3, <1>t
  <2> QED  BY <2>1, <2>2, <2>4 DEF RestInv
<1>7. ASSUME NEW r \in Requests, Route(r)  PROVE RestInv'
  <2>1. UNCHANGED <<phase, tls, seen>>
    BY <1>7 DEF Route
  <2>2. CASE \E s : Answer(r, s, FALSE)
    BY <2>1, <2>2, <1>a
  <2>3. CASE /\ route' = [route EXCEPT ![r] = FirstMatch(live, path[r])]
             /\ UNCHANGED path
    <3>1. OneRoute(FirstMatch(live, path[r]))
      BY <1>t, FirstMatchType
    <3>2. \A q \in Requests : OneRoute(route'[q])
      BY <2>3, <3>1, <1>t, <1>o
    <3> QED  BY <2>1, <2>3, <3>2 DEF RestInv
  <2> QED  BY <1>7, <2>2, <2>3 DEF Route
<1>8. ASSUME NEW r \in Requests, RunPlugins(r)  PROVE RestInv'
  <2>1. PICK v : Decide(r, v)
    BY <1>8 DEF RunPlugins
  <2>2. UNCHANGED <<phase, tls, seen>>
    BY <2>1 DEF Decide
  <2>3. CASE Answer(r, "4xx", TRUE) \/ Answer(r, "5xx", FALSE)
    BY <2>2, <2>3, <1>a
  <2>4. CASE UNCHANGED <<path, route>>
    BY <2>2, <2>4, <1>t, <1>u
  <2> QED  BY <2>1, <2>3, <2>4 DEF Decide
<1>9. ASSUME NEW r \in Requests, ForwardReturns(r)  PROVE RestInv'
  <2>1. UNCHANGED <<phase, tls, seen>> /\ \E s : Answer(r, s, FALSE)
    BY <1>9 DEF ForwardReturns
  <2> QED  BY <2>1, <1>a
<1>10. ASSUME NEW r \in Requests, Recording(r)  PROVE RestInv'
  BY <1>10, <1>t, <1>u DEF Recording, RecordOne, request
<1>11. ASSUME NEW r \in Requests, Rendering(r)  PROVE RestInv'
  <2>1. UNCHANGED <<phase, tls, path, route>>
    BY <1>11 DEF Rendering, request
  <2>2. PICK k \in Counters :
          seen' = [seen EXCEPT ![r] =
            [j \in DOMAIN seen[r] \cup {k} |-> IF j = k THEN counter[k] ELSE seen[r][j]]]
    BY <1>11 DEF Rendering, RenderOne
  <2> DEFINE f == [j \in DOMAIN seen[r] \cup {k} |-> IF j = k THEN counter[k] ELSE seen[r][j]]
  <2>3. Loaded(f)
    <3>1. counter[k] \in Nat
      BY <1>t
    <3>2. Loaded(seen[r])
      BY <1>o
    <3> QED  BY <3>1, <3>2 DEF Loaded
  <2>4. \A q \in Requests : seen'[q] = IF q = r THEN f ELSE seen[q]
    BY <2>2, <1>t
  <2> HIDE DEF f
  <2>5. \A q \in Requests : Loaded(seen'[q])
    BY <2>3, <2>4, <1>o
  <2> QED  BY <2>1, <2>5 DEF RestInv
<1>12. ASSUME NEW r \in Requests, Reply(r) \/ ClientLeaves(r) \/ DropTask(r)
       PROVE  RestInv'
  BY <1>12, <1>e DEF Reply, ClientLeaves, DropTask
<1> QED
  BY <1>1, <1>2, <1>3, <1>4, <1>5, <1>6, <1>7, <1>8, <1>9, <1>10, <1>11, <1>12
  DEF Next, Task

(* A request holds one route at most and increments only while its record  *)
(* runs; every value is of its kind (handler.rs:40-115, metrics.rs:20-65). *)
THEOREM ServingTypeCorrect == Spec => []TypeOK
<1>1. CountInv /\ ScrapeInv /\ StateInv /\ RestInv => TypeOK
  <2> SUFFICES ASSUME CountInv, ScrapeInv, StateInv, RestInv PROVE TypeOK
    OBVIOUS
  <2>1. \A r \in Requests : route[r] \subseteq Routes /\ Cardinality(route[r]) <= 1
    BY DEF RestInv, OneRoute
  <2>2. \A r \in Requests : \A k \in DOMAIN seen[r] : k \in Counters /\ seen[r][k] \in Nat
    BY DEF RestInv, Loaded
  <2>3. blocked \in [Requests -> BOOLEAN] /\ tls \in [Requests -> BOOLEAN]
    BY DEF CountInv, RestInv
  <2> QED  BY <2>1, <2>2, <2>3 DEF CountInv, ScrapeInv, StateInv, RestInv, TypeOK
<1> QED
  BY <1>1, CountInit, CountNext, ScrapeInit, ScrapeNext, StateInit, StateNext,
     RestInit, RestNext, PTL DEF Spec

=============================================================================
