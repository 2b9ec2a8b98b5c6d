----------------------------- MODULE Forwarding -----------------------------
(***************************************************************************)
(* proxy::forward and the ConnectionPool: concurrent requests that take    *)
(* pooled connections, retry once on a fresh one, give the connection back *)
(* before they have read the answer's body, time out and are abandoned at  *)
(* any await, against upstreams that close connections whenever they like. *)
(*                                                                         *)
(* The connections are hyper's and the upstream's (external): a sender     *)
(* whose connection is closed, or still streaming an earlier answer, fails *)
(* at once without writing the request; dropping an answer before its end  *)
(* ends the connection or drains it.                                       *)
(***************************************************************************)
EXTENDS Naturals, Sequences, FiniteSets

CONSTANTS
  Requests, Upstreams,
  MaxIdle,     \* max_idle_per_host
  None

ASSUME ForwardingAssumption ==
  /\ MaxIdle \in Nat
  /\ None \notin Upstreams \cup (Requests \X {1, 2})

(* The connection that a request's first or second attempt opens.          *)
Conns == Requests \X {1, 2}

VARIABLES
  pc,         \* where each request is in forward_inner
  addr,       \* the upstream its route names
  attempt,    \* 1, or 2 once it retries
  using,      \* the connection it holds, then the one whose body it reads
  result,     \* what forward returns
  idle,       \* the pool: upstream -> stack of senders
  conn,       \* state of each connection (external)
  delivered   \* history: the connections each request was written to

vars == <<pc, addr, attempt, using, result, idle, conn, delivered>>

Steps == {"collect", "acquire", "connect", "send", "await", "release", "body", "done"}

(* An answer, 500, or any other end: 502, 504, or nobody left to answer.   *)
Results == {"none", "ok", "500", "other"}

(* ready: will take a request; busy: answer pending; body: the head has    *)
(* come, the body streams; drained: the body was read, hyper has yet to    *)
(* mark the connection ready.                                              *)
ConnStates == {"none", "ready", "busy", "body", "drained", "closed"}
Open == {"ready", "busy", "body", "drained"}

Pooled == UNION {{idle[a][i] : i \in 1 .. Len(idle[a])} : a \in Upstreams}

TypeOK ==
  /\ pc \in [Requests -> Steps]
  /\ addr \in [Requests -> Upstreams]
  /\ attempt \in [Requests -> {1, 2}]
  /\ using \in [Requests -> Conns \cup {None}]
  /\ result \in [Requests -> Results]
  /\ idle \in [Upstreams -> Seq(Conns)]
  /\ conn \in [Conns -> ConnStates]
  /\ delivered \in [Requests -> SUBSET Conns]

Init ==
  /\ pc = [r \in Requests |-> "collect"]
  /\ addr \in [Requests -> Upstreams]
  /\ attempt = [r \in Requests |-> 1]
  /\ using = [r \in Requests |-> None]
  /\ result = [r \in Requests |-> "none"]
  /\ idle = [a \in Upstreams |-> <<>>]
  /\ conn = [c \in Conns |-> "none"]
  /\ delivered = [r \in Requests |-> {}]

-----------------------------------------------------------------------------

GoTo(r, step) == pc' = [pc EXCEPT ![r] = step]

(* forward returns; its locals go. *)
Return(r, res) ==
  /\ GoTo(r, "done")
  /\ result' = [result EXCEPT ![r] = res]
  /\ attempt' = [attempt EXCEPT ![r] = 1]
  /\ using' = [using EXCEPT ![r] = None]
  /\ delivered' = [delivered EXCEPT ![r] = {}]

(* The whole request body is read first; it may fail under the client.     *)
Collect(r) ==
  /\ pc[r] = "collect"
  /\ \/ GoTo(r, "acquire") /\ UNCHANGED <<attempt, using, result, delivered>>
     \/ Return(r, "500")
  /\ UNCHANGED <<addr, idle, conn>>

(* ConnectionPool::acquire: the last sender pushed, whatever its state.    *)
Acquire(r) ==
  LET stack == idle[addr[r]] IN
  /\ pc[r] = "acquire"
  /\ \/ /\ stack # <<>>
        /\ using' = [using EXCEPT ![r] = stack[Len(stack)]]
        /\ idle' = [idle EXCEPT ![addr[r]] = SubSeq(stack, 1, Len(stack) - 1)]
        /\ GoTo(r, "send")
     \/ /\ stack = <<>>
        /\ GoTo(r, "connect")
        /\ UNCHANGED <<using, idle>>
  /\ UNCHANGED <<addr, attempt, result, conn, delivered>>

(* ConnectionPool::connect_fresh: the upstream accepts, or it does not.    *)
Connect(r) ==
  LET c == <<r, attempt[r]>> IN
  /\ pc[r] = "connect"
  /\ \/ /\ conn' = [conn EXCEPT ![c] = "ready"]
        /\ using' = [using EXCEPT ![r] = c]
        /\ GoTo(r, "send")
        /\ UNCHANGED <<attempt, result, delivered>>
     \/ Return(r, "other") /\ UNCHANGED conn
  /\ UNCHANGED <<addr, idle>>

\* Mutant: every failure is retried.
RetryAgain(r, step) ==
  /\ attempt' = [attempt EXCEPT ![r] = @ + 1]
  /\ GoTo(r, step)
  /\ UNCHANGED <<using, result, delivered>>

(* A second attempt from the given step on, or 500 after the second.       *)
RetryFrom(r, step) ==
  \/ /\ attempt[r] = 1
     /\ attempt' = [attempt EXCEPT ![r] = 2]
     /\ GoTo(r, step)
     /\ UNCHANGED <<using, result, delivered>>
  \/ attempt[r] = 2 /\ Return(r, "500")

\* Mutant: the retry takes whatever the pool has.
SendFailsPooled(r) == RetryFrom(r, "acquire")

(* send_request failed: the retry is on a fresh connection.                *)
SendFails(r) == RetryFrom(r, "connect")

\* Mutant: the sender goes back to the pool as soon as the request is sent.
SendReleases(r) ==
  LET c == using[r] IN
  /\ pc[r] = "send"
  /\ \/ /\ conn[c] = "ready"
        /\ conn' = [conn EXCEPT ![c] = "busy"]
        /\ idle' = [idle EXCEPT ![addr[r]] = Append(@, c)]
        /\ delivered' = [delivered EXCEPT ![r] = @ \cup {c}]
        /\ GoTo(r, "await")
        /\ UNCHANGED <<attempt, using, result>>
     \/ /\ conn[c] # "ready"
        /\ SendFails(r)
        /\ UNCHANGED <<idle, conn>>
  /\ UNCHANGED addr

(* send_request up to the write: a ready connection takes the request, any *)
(* other refuses it, and its sender is dropped.                            *)
Send(r) ==
  LET c == using[r] IN
  /\ pc[r] = "send"
  /\ \/ /\ conn[c] = "ready"
        /\ conn' = [conn EXCEPT ![c] = "busy"]
        /\ delivered' = [delivered EXCEPT ![r] = @ \cup {c}]
        /\ GoTo(r, "await")
        /\ UNCHANGED <<attempt, using, result>>
     \/ /\ conn[c] # "ready"
        /\ SendFails(r)
        /\ UNCHANGED conn
  /\ UNCHANGED <<addr, idle>>

\* Mutant: an answer may be judged bad and retried.
AwaitRetriesAnswers(r) ==
  LET c == using[r] IN
  /\ pc[r] = "await"
  /\ conn[c] = "busy"
  /\ conn' = [conn EXCEPT ![c] = "body"]
  /\ SendFails(r)
  /\ UNCHANGED <<addr, idle>>

(* send_request from the write on: the answer's head, or the connection    *)
(* breaks - the upstream may have served the request all the same.         *)
Await(r) ==
  LET c == using[r] IN
  /\ pc[r] = "await"
  /\ \/ /\ conn[c] = "busy"
        /\ conn' = [conn EXCEPT ![c] = "body"]
        /\ GoTo(r, "release")
        /\ UNCHANGED <<attempt, using, result, delivered>>
     \/ /\ conn[c] = "closed"
        /\ SendFails(r)
        /\ UNCHANGED conn
  /\ UNCHANGED <<addr, idle>>

\* Mutant: the pool has no limit.
ReleaseUnbounded(r) ==
  /\ pc[r] = "release"
  /\ idle' = [idle EXCEPT ![addr[r]] = Append(@, using[r])]
  /\ GoTo(r, "body")
  /\ UNCHANGED <<addr, attempt, using, result, conn, delivered>>

(* ConnectionPool::release, before the body is read; a full pool drops the *)
(* sender.                                                                 *)
Release(r) ==
  LET stack == idle[addr[r]] IN
  /\ pc[r] = "release"
  /\ idle' = IF Len(stack) < MaxIdle
             THEN [idle EXCEPT ![addr[r]] = Append(stack, using[r])]
             ELSE idle
  /\ GoTo(r, "body")
  /\ UNCHANGED <<addr, attempt, using, result, conn, delivered>>

(* The answer's body is collected whole, or breaks off. *)
ReadBody(r) ==
  LET c == using[r] IN
  /\ pc[r] = "body"
  /\ \/ /\ conn[c] = "body"
        /\ conn' = [conn EXCEPT ![c] = "drained"]
        /\ Return(r, "ok")
     \/ /\ conn[c] = "closed"
        /\ Return(r, "500")
        /\ UNCHANGED conn
  /\ UNCHANGED <<addr, idle>>

(* The future of forward_inner is dropped: a sender it holds goes, and the *)
(* connection with it; a body it was reading is drained or breaks off.     *)
Drop(r) ==
  LET c == using[r] IN
  \/ /\ pc[r] \in {"send", "await", "release"}
     /\ conn' = [conn EXCEPT ![c] = "closed"]
  \/ /\ pc[r] = "body"
     /\ \E s \in {"drained", "closed"} :
          conn' = [conn EXCEPT ![c] = IF @ = "body" THEN s ELSE @]
  \/ /\ pc[r] \in {"collect", "acquire", "connect"}
     /\ UNCHANGED conn

\* Mutant: the timeout covers the wait for the answer's head only.
CutHeadOnly(r) ==
  /\ pc[r] = "await"
  /\ Drop(r)
  /\ Return(r, "other")
  /\ UNCHANGED <<addr, idle>>

(* timeout_ms passes - it covers all of forward_inner - and forward        *)
(* returns 504; or the client goes away and hyper drops the handler.       *)
Cut(r) ==
  /\ Drop(r)
  /\ Return(r, "other")
  /\ UNCHANGED <<addr, idle>>

-----------------------------------------------------------------------------
(* The other side (external).                                              *)

UpstreamCloses(c) ==
  /\ conn[c] \in Open
  /\ conn' = [conn EXCEPT ![c] = "closed"]
  /\ UNCHANGED <<pc, addr, attempt, using, result, idle, delivered>>

(* The connection task sees the end of the body: it waits for the next     *)
(* request, or ends because no sender is left.                             *)
Settle(c) ==
  /\ conn[c] = "drained"
  /\ LET held == c \in Pooled \/ \E r \in Requests : pc[r] = "send" /\ using[r] = c
     IN  conn' = [conn EXCEPT ![c] = IF held THEN "ready" ELSE "closed"]
  /\ UNCHANGED <<pc, addr, attempt, using, result, idle, delivered>>

Proxy(r) ==
  \/ Collect(r) \/ Acquire(r) \/ Connect(r) \/ Send(r)
  \/ Await(r) \/ Release(r) \/ ReadBody(r)

Next ==
  \/ \E r \in Requests : Proxy(r) \/ Cut(r)
  \/ \E c \in Conns : UpstreamCloses(c) \/ Settle(c)

Spec == Init /\ [][Next]_vars

(* The timer fires; nothing else has to happen, the upstream's answers and *)
(* the client's body least of all.                                         *)
FairSpec == Spec /\ \A r \in Requests : WF_vars(Cut(r))

-----------------------------------------------------------------------------

(* The pool holds at most MaxIdle senders per upstream, each once, each of *)
(* a connection to that upstream, and none that a request still holds      *)
(* (pool.rs:25-43).                                                        *)
PoolBound ==
  \A a \in Upstreams :
    /\ Len(idle[a]) <= MaxIdle
    /\ \A i, j \in 1 .. Len(idle[a]) : idle[a][i] = idle[a][j] => i = j
    /\ \A i \in 1 .. Len(idle[a]) :
         /\ addr[idle[a][i][1]] = a
         /\ \A r \in Requests :
              pc[r] \in {"send", "await", "release"} => using[r] # idle[a][i]

(* A pooled sender has no unanswered request on it; if an answer is still  *)
(* streaming, the request it answers is there to read it, so the sender    *)
(* becomes usable or fails (proxy.rs:84, released before 101-106).         *)
PooledIsAnswered ==
  \A c \in Pooled :
    /\ conn[c] # "busy"
    /\ conn[c] = "body" => \E r \in Requests : pc[r] = "body" /\ using[r] = c

(* A pooled connection that has gone stale or still streams never shows:   *)
(* forward returns 500 only when the client's own body broke off, when the *)
(* answer's body did, or when the retry's fresh connection did             *)
(* (proxy.rs:80-99, :101-106).                                             *)
StaleNeverSurfaces ==
  [][\A r \in Requests : result[r] = "none" /\ result'[r] = "500" =>
       \/ pc[r] = "collect"
       \/ /\ conn[using[r]] = "closed"
          /\ pc[r] = "body" \/ using[r] = <<r, 2>>]_vars

(* A request reaches an upstream twice only if the connection that took it *)
(* first broke: an answer is never followed by a second attempt            *)
(* (proxy.rs:82-99).                                                       *)
TwiceOnlyIfLost ==
  \A r \in Requests : \A c \in delivered[r] :
    c # using[r] => conn[c] = "closed"

(* What each request amounts to, for module Delivery: how often it was     *)
(* written, and whether a connection that took it is still open.           *)
Phase(r) ==
  LET Lost == \A c \in delivered[r] : conn[c] = "closed"
      Once == Cardinality(delivered[r]) = 1
      Sent == IF Once THEN IF Lost THEN "lost" ELSE "written"
                      ELSE IF Lost THEN "gone" ELSE "rewritten"
  IN  CASE result[r] = "ok"               -> "ok"
        [] result[r] \in {"500", "other"} -> "failed"
        [] result[r] = "none"             ->
             IF pc[r] \in {"release", "body"} THEN "answering"
             ELSE IF delivered[r] = {} THEN "new" ELSE Sent

Phases == [r \in Requests |-> Phase(r)]

Promise == INSTANCE Delivery WITH phase <- Phases

(* Pool, retry and timeout implement that promise: no schedule of requests *)
(* that share connections sends one a third time, again after an answer,   *)
(* or to success without an answer (proxy.rs:80-113).                      *)
ImplementsDelivery == Promise!Spec

(* Whatever upstreams and clients do, forward returns (proxy.rs:29-39).    *)
ForwardReturns ==
  \A r \in Requests : <>(pc[r] = "done")

=============================================================================
