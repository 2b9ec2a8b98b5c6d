------------------------------ MODULE Serving -------------------------------
(***************************************************************************)
(* The life of a request, from run_accept_loop to the answer: accepted,    *)
(* TLS or plaintext as the live state says, /metrics, /health or a route,  *)
(* plugins, forward, metrics; against reloads of the live state, clients   *)
(* that leave, and the end of the server.                                  *)
(*                                                                         *)
(* Tasks run on the runtime's worker threads.  A plugin that loops never   *)
(* reaches an await and keeps its worker; with no worker left, no task     *)
(* runs and nobody polls the sockets and the signal.  Forwarding is module *)
(* Delivery's promise: an answer or a failure, some time (Forwarding).     *)
(* Each connection carries one request.                                    *)
(***************************************************************************)
EXTENDS Metrics, Sequences

CONSTANTS
  Workers,     \* worker threads
  AppStates,   \* the states ever live: their routes, and whether they have TLS
  Paths,       \* paths of requests, other than /health and /metrics
  None

(* A route has the paths that start with its prefix, and plugins, each as  *)
(* the verdict it comes to.                                                *)
Verdicts == {"pass", "block", "fail", "loop"}

Routes == [match : SUBSET Paths, plugins : Seq(Verdicts)]

ASSUME ServingAssumption ==
  /\ Workers \in Nat \ {0}
  /\ AppStates \subseteq [routes : Seq(Routes), tls : BOOLEAN]
  /\ Paths \cap {"/health", None} = {}

VARIABLES
  phase,     \* of the server
  live,      \* the ArcSwap
  pc,        \* step of each connection's task
  tls,       \* is_tls
  path,
  route,     \* route_state: one element at most, held with its state
  status,    \* of the answer; "none" before there is one
  blocked,   \* was_blocked
  lived,     \* history: states live since it connected, then since its request
  before     \* history: requests answered when this one was received

metrics == <<counter, todo, seen>>
request == <<tls, path, route, status, blocked>>
history == <<lived, before>>
vars == <<phase, live, pc, request, metrics, history>>

Steps == {"away", "backlog", "spawned", "handshake", "open", "route", "plugins",
          "looping", "forward", "record", "render", "reply", "done", "gone"}

(* No task, and none to come. *)
Ended == {"away", "done", "gone"}

(* Where a task waits, and may be dropped. *)
Awaits == {"spawned", "handshake", "open", "forward", "reply"}

(* The handler has the request and the next step is its own. *)
Working == {"route", "plugins", "forward", "record", "render"}

TypeOK ==
  /\ phase \in {"serving", "stopping", "exited"}
  /\ live \in AppStates
  /\ pc \in [Requests -> Steps]
  /\ tls \in [Requests -> BOOLEAN]
  /\ path \in [Requests -> Paths \cup {"/health", None}]
  /\ \A r \in Requests : route[r] \subseteq Routes /\ Cardinality(route[r]) <= 1
  /\ status \in [Requests -> Statuses \cup {"none"}]
  /\ blocked \in [Requests -> BOOLEAN]
  /\ counter \in [Counters -> Nat]
  /\ todo \in [Requests -> SUBSET Counters]
  /\ \A r \in Requests : todo[r] # {} => pc[r] = "record"
  /\ \A r \in Requests : \A k \in DOMAIN seen[r] : k \in Counters /\ seen[r][k] \in Nat
  /\ lived \in [Requests -> SUBSET AppStates]
  /\ before \in [Requests -> SUBSET Requests]

Init ==
  /\ phase = "serving"
  /\ live \in AppStates
  /\ pc = [r \in Requests |-> "away"]
  /\ tls = [r \in Requests |-> FALSE]
  /\ path = [r \in Requests |-> None]
  /\ route = [r \in Requests |-> {}]
  /\ status = [r \in Requests |-> "none"]
  /\ blocked = [r \in Requests |-> FALSE]
  /\ MetricsInit
  /\ lived = [r \in Requests |-> {}]
  /\ before = [r \in Requests |-> {}]

-----------------------------------------------------------------------------

GoTo(r, step) == pc' = [pc EXCEPT ![r] = step]

(* The task is over; with it go the locals, and the histories about it.    *)
End(r, step) ==
  /\ GoTo(r, step)
  /\ tls' = [tls EXCEPT ![r] = FALSE]
  /\ path' = [path EXCEPT ![r] = None]
  /\ route' = [route EXCEPT ![r] = {}]
  /\ seen' = [seen EXCEPT ![r] = <<>>]
  /\ lived' = [lived EXCEPT ![r] = {}]
  /\ before' = [before EXCEPT ![r] = {}]
  /\ UNCHANGED <<phase, live, status, blocked, counter, todo>>

(* A worker is free to run a task. *)
Free ==
  Cardinality({r \in Requests :
    pc[r] \in {"route", "plugins", "looping", "record", "render"}}) < Workers

(* A worker is not caught in a plugin for ever: sockets, timers and the    *)
(* signal are polled by workers.                                           *)
Alive == Cardinality({r \in Requests : pc[r] = "looping"}) < Workers

(* A client connects; the kernel queues it. *)
Connect(r) ==
  /\ phase = "serving"
  /\ pc[r] = "away"
  /\ GoTo(r, "backlog")
  /\ lived' = [lived EXCEPT ![r] = {live}]
  /\ UNCHANGED <<phase, live, request, metrics, before>>

(* The accept loop takes a connection and spawns its task.                 *)
Accept(r) ==
  /\ phase = "serving" /\ Alive
  /\ pc[r] = "backlog"
  /\ GoTo(r, "spawned")
  /\ UNCHANGED <<phase, live, request, metrics, history>>

(* run_accept_loop returns and drops the listener with its backlog: on     *)
(* Ctrl-C, or because accepting the next connection fails.                 *)
Stop ==
  /\ phase = "serving" /\ Alive
  /\ phase' = "stopping"
  /\ pc' = [r \in Requests |-> IF pc[r] = "backlog" THEN "gone" ELSE pc[r]]
  /\ UNCHANGED <<live, request, metrics, history>>

CtrlC == Stop

AcceptFails == (\E r \in Requests : pc[r] = "backlog") /\ Stop

\* Mutant: the accept loop keeps the acceptor of the state it started with.
ChooseAtConnect(r) ==
  /\ Free
  /\ pc[r] = "spawned"
  /\ \E s \in AppStates :
       /\ tls' = [tls EXCEPT ![r] = s.tls]
       /\ GoTo(r, IF s.tls THEN "handshake" ELSE "open")
  /\ UNCHANGED <<phase, live, path, route, status, blocked, metrics, history>>

(* The task looks at the live state once to serve TLS or plaintext.        *)
Choose(r) ==
  /\ Free
  /\ pc[r] = "spawned"
  /\ tls' = [tls EXCEPT ![r] = live.tls]
  /\ GoTo(r, IF live.tls THEN "handshake" ELSE "open")
  /\ UNCHANGED <<phase, live, path, route, status, blocked, metrics, history>>

(* The TLS handshake completes. *)
Handshake(r) ==
  /\ Free
  /\ pc[r] = "handshake"
  /\ GoTo(r, "open")
  /\ UNCHANGED <<phase, live, request, metrics, history>>

(* A request's head arrives; handle answers /metrics, and gives any other  *)
(* path to route.  From here to the next await the task runs on its        *)
(* worker, server stopping or not.  (is_tls is only for a header now.)     *)
Receive(r) ==
  /\ Free
  /\ pc[r] = "open"
  /\ \/ /\ GoTo(r, "render")
        /\ lived' = [lived EXCEPT ![r] = {}]
        /\ before' = [before EXCEPT ![r] =
             {q \in Requests : pc[q] = "done" /\ status[q] # "none"}]
        /\ UNCHANGED path
     \/ /\ GoTo(r, "route")
        /\ lived' = [lived EXCEPT ![r] = {live}]
        /\ path' \in {[path EXCEPT ![r] = p] : p \in Paths \cup {"/health"}}
        /\ UNCHANGED before
  /\ tls' = [tls EXCEPT ![r] = FALSE]
  /\ UNCHANGED <<phase, live, route, status, blocked, metrics>>

-----------------------------------------------------------------------------

(* handle gets its answer or error from route, and starts to record it.    *)
Answer(r, s, b) ==
  /\ status' = [status EXCEPT ![r] = s]
  /\ blocked' = [blocked EXCEPT ![r] = b]
  /\ path' = [path EXCEPT ![r] = None]
  /\ route' = [route EXCEPT ![r] = {}]
  /\ lived' = [lived EXCEPT ![r] = {}]
  /\ Record(r, s, b)
  /\ GoTo(r, "record")

(* The first route of a state that matches, if any. *)
FirstMatch(s, p) ==
  {s.routes[i] : i \in {j \in 1 .. Len(s.routes) :
     p \in s.routes[j].match /\ \A k \in 1 .. j - 1 : p \notin s.routes[k].match}}

(* route: /health answers itself; otherwise the state is loaded, the route *)
(* found (or 404) and its health flag read (503 if it is false).           *)
Route(r) ==
  LET found == FirstMatch(live, path[r]) IN
  /\ pc[r] = "route"
  /\ \/ path[r] = "/health" /\ Answer(r, "2xx", FALSE)
     \/ path[r] # "/health" /\ found = {} /\ Answer(r, "4xx", FALSE)
     \/ found # {} /\ Answer(r, "5xx", FALSE)
     \/ /\ found # {}
        /\ route' = [route EXCEPT ![r] = found]
        /\ GoTo(r, "plugins")
        /\ UNCHANGED <<path, status, blocked, todo, lived>>
  /\ UNCHANGED <<phase, live, tls, counter, seen, before>>

(* PluginRuntime::run_on_request: the first plugin that does not pass the  *)
(* request decides; it passes if there is none.                            *)
RunOnRequest(plugins, verdict) ==
  \/ verdict = "pass" /\ \A i \in 1 .. Len(plugins) : plugins[i] = "pass"
  \/ \E i \in 1 .. Len(plugins) :
       /\ plugins[i] = verdict /\ verdict # "pass"
       /\ \A j \in 1 .. i - 1 : plugins[j] = "pass"

(* What route makes of that: 403, 500, on to forward, or never an end.     *)
Decide(r, verdict) ==
  /\ \/ verdict = "block" /\ Answer(r, "4xx", TRUE)
     \/ verdict = "fail" /\ Answer(r, "5xx", FALSE)
     \/ /\ verdict \in {"pass", "loop"}
        /\ GoTo(r, IF verdict = "pass" THEN "forward" ELSE "looping")
        /\ UNCHANGED <<path, route, status, blocked, todo, lived>>
  /\ UNCHANGED <<phase, live, tls, counter, seen, before>>

\* Mutant: the plugins are those of the state that is live by now.
RunPluginsReloaded(r) ==
  /\ pc[r] = "plugins"
  /\ \E rt \in FirstMatch(live, path[r]), v \in Verdicts :
       RunOnRequest(rt.plugins, v) /\ Decide(r, v)

\* Mutant: a plugin that fails is run again.
RunPluginsRetry(r) ==
  /\ pc[r] = "plugins"
  /\ \E rt \in route[r], v \in Verdicts \ {"fail"} :
       RunOnRequest(rt.plugins, v) /\ Decide(r, v)

(* The plugins of the route run on the task's worker.                      *)
RunPlugins(r) ==
  /\ pc[r] = "plugins"
  /\ \E rt \in route[r], v \in Verdicts :
       RunOnRequest(rt.plugins, v) /\ Decide(r, v)

(* proxy::forward returns what the upstream answered, or an error.         *)
ForwardReturns(r) ==
  /\ Free
  /\ pc[r] = "forward"
  /\ \E s \in Statuses : Answer(r, s, FALSE)
  /\ UNCHANGED <<phase, live, tls, counter, seen, before>>

(* Metrics::record; the answer is handed to hyper when it is through.      *)
Recording(r) ==
  /\ pc[r] = "record"
  /\ RecordOne(r)
  /\ IF todo'[r] = {} THEN GoTo(r, "reply") ELSE UNCHANGED pc
  /\ UNCHANGED <<phase, live, request, history>>

(* /metrics: rendered, and not recorded itself.                            *)
Rendering(r) ==
  /\ pc[r] = "render"
  /\ RenderOne(r)
  /\ IF Rendered(r) THEN GoTo(r, "reply") ELSE UNCHANGED pc
  /\ UNCHANGED <<phase, live, request, history>>

\* Mutant: the answer is handed over first and recorded at leisure.
ReplyEarly(r) ==
  /\ Free
  /\ pc[r] \in {"record", "reply"}
  /\ End(r, "done")

(* The client has the answer and closes. *)
Reply(r) ==
  /\ Free
  /\ pc[r] = "reply"
  /\ End(r, "done")

-----------------------------------------------------------------------------

(* The client goes away, or its handshake fails. *)
ClientLeaves(r) ==
  /\ pc[r] = "backlog" \/ (Free /\ pc[r] \in Awaits \ {"spawned"})
  /\ End(r, "gone")

(* Poller or renewer store another state.                                  *)
Reload ==
  /\ phase = "serving" /\ Alive
  /\ live' \in AppStates \ {live}
  /\ lived' = [r \in Requests |-> IF lived[r] = {} THEN {} ELSE lived[r] \cup {live'}]
  /\ UNCHANGED <<phase, pc, request, metrics, before>>

\* Mutant: connections that have a request, or wait for one, are drained.
DropTaskDrains(r) ==
  /\ phase = "stopping" /\ Alive
  /\ pc[r] \in Awaits \ {"open", "forward", "reply"}
  /\ End(r, "gone")

(* main returns and the runtime is dropped: tasks are dropped where they   *)
(* wait, and each worker is joined once the task it runs comes to that.    *)
DropTask(r) ==
  /\ phase = "stopping" /\ Alive
  /\ pc[r] \in Awaits
  /\ End(r, "gone")

Exit ==
  /\ phase = "stopping"
  /\ \A r \in Requests : pc[r] \in Ended
  /\ phase' = "exited"
  /\ UNCHANGED <<live, pc, request, metrics, history>>

(* What a task does as soon as a worker runs it. *)
Task(r) ==
  \/ Choose(r) \/ Route(r) \/ RunPlugins(r) \/ Recording(r) \/ Rendering(r)

Next ==
  \/ CtrlC \/ AcceptFails \/ Reload \/ Exit
  \/ \E r \in Requests :
       \/ Connect(r) \/ Accept(r) \/ Handshake(r) \/ Receive(r) \/ Task(r)
       \/ ForwardReturns(r) \/ Reply(r) \/ ClientLeaves(r) \/ DropTask(r)

Spec == Init /\ [][Next]_vars

(* A task that is running goes on, forward returns and gets its turn on a  *)
(* worker, and the runtime is dropped; no client and no operator has to do *)
(* anything.                                                               *)
FairSpec ==
  /\ Spec
  /\ \A r \in Requests :
       WF_vars(Task(r)) /\ SF_vars(ForwardReturns(r)) /\ WF_vars(DropTask(r))
  /\ WF_vars(Exit)

-----------------------------------------------------------------------------

(* What each counter is documented to count. *)
Belongs(r, k) ==
  \/ k = "total"
  \/ k = "blocked" /\ blocked[r]
  \/ k = status[r] /\ ~blocked[r]

(* Every counter is the number of answers of its kind whose increment has  *)
(* happened: none lost among concurrent requests, none counted twice, and  *)
(* none for a request that was dropped or only scraped (metrics.rs:20-33,  *)
(* handler.rs:40-73).                                                      *)
CountersExact ==
  \A k \in Counters :
    counter[k] = Cardinality({r \in Requests :
                   status[r] # "none" /\ Belongs(r, k) /\ k \notin todo[r]})

(* A scrape shows every answer a client had before the scrape was sent,    *)
(* although nothing orders the counters (handler.rs:48, :63).              *)
ScrapeCountsAnswers ==
  \A r \in Requests : \A k \in DOMAIN seen[r] :
    seen[r][k] >= Cardinality({q \in before[r] : Belongs(q, k)})

(* A request is forwarded by the rules of one state, live at some moment   *)
(* since it came: that state's first match, all of whose plugins let it    *)
(* through, however many reloads there were (handler.rs:95-115).           *)
OneState ==
  \A r \in Requests : pc[r] = "forward" =>
    \E s \in lived[r] : \E rt \in FirstMatch(s, path[r]) :
      route[r] = {rt} /\ \A i \in 1 .. Len(rt.plugins) : rt.plugins[i] = "pass"

(* A connection is served in plaintext only if a state without TLS was     *)
(* live after it connected, and in TLS only if one with TLS was            *)
(* (server.rs:84-92).                                                      *)
TlsOfItsTime ==
  \A r \in Requests : pc[r] \in {"handshake", "open"} =>
    \E s \in lived[r] : s.tls = tls[r]

(* Each request the handler has is answered, dropped or caught in a plugin *)
(* of its own, unless plugins have caught every worker (plugin.rs:128,     *)
(* handler.rs:110).                                                        *)
Answered ==
  \A r \in Requests : pc[r] \in Working ~> (pc[r] \notin Working \/ ~Alive)

(* The process ends after Ctrl-C or a failed accept, whatever clients and  *)
(* requests are doing, unless a plugin loops (server.rs:78, :95;           *)
(* main.rs:25).                                                            *)
ShutdownEnds ==
  phase = "stopping" ~> (phase = "exited" \/ \E r \in Requests : pc[r] = "looping")

=============================================================================
