# A TLA+ model of prismproxy

prismproxy is a reverse proxy in Rust: it matches requests to routes by path
prefix, runs WASM plugins on them, forwards them over pooled connections,
reloads its config while it runs, provisions and renews its certificate over
ACME, and health-checks its upstreams. This directory holds TLA+ modules of
the parts of it that run concurrently, the TLC configurations that check them
on small instances, and theorems that TLAPS proves for all instances. Paths of
source files below are relative to the repository; `server.rs` is
`src/server.rs`.

## Inventory

| Part | State it keeps | Operations | Talks to |
|---|---|---|---|
| Startup (`server.rs` 106-206) | the config first read, the first `AppState` | read, validate, build; provision and build again; publish; spawn tasks | config, state, acme, all tasks |
| Live state (`state.rs`) | `ArcSwap<AppState>`: routes, plugins, health flags, TLS acceptor | `build_state`, `load_full`, `store` | everything |
| Config (`config.rs`) | none (a file) | `from_file`, `validate` | startup, poller, renewer |
| Poller (`reload_loop`) | `last_mtime` | stat, read and build, store; every second | live state |
| Renewer (`renewal_loop`) | the config it read | read, provision, build, store; every 24 hours | live state, provisioning |
| Provisioning (`acme.rs`) | `cert.pem`, `key.pem`, their `.tmp`, `.renewing`, `issued_at`, challenge tokens | lock, order, challenge, download, write, rename, stamp, unlock | file system, ACME server |
| Challenge and redirect servers | the challenge store | answer a token, redirect | provisioning, clients |
| Health check (`health_check.rs`) | two counters per loop, the shared flag | ping every 10 s, count, turn the flag | upstream, handler |
| Handler (`handler.rs`) | none | `/metrics`, `/health`, match, 503, plugins, forward, record | live state, pool, metrics |
| Forwarding (`proxy.rs`) | one request's locals | collect, send, retry once, collect the answer, time out | pool, upstream |
| Pool (`pool.rs`) | stacks of idle senders per upstream | acquire, release, connect | forwarding |
| Plugins (`plugin.rs`) | compiled modules | instantiate and call, first block wins | handler |
| Metrics (`metrics.rs`) | six relaxed counters | record, render | handler |
| Accept loop (`server.rs` 65-101) | none | accept, TLS or plaintext per connection, shutdown | live state, handler |

**What is hard.** Two tasks (poller, renewer) store whole states into one
`ArcSwap` while an operator edits the file both read; the health loops share
flags with a state that may be replaced; a certificate pair is two files that
are replaced one after the other by a process that may die; connections come
back to the pool before their answer was read, go stale while they wait there,
and are dropped at any await by a timeout; sends are retried; requests run
through states that reloads replace, and through plugins that may never return,
on a handful of worker threads that everything else needs too; two servers take
turns on one port while a CA looks for tokens there. `hazards` in
`PROJECT.json` lists each at its line, with the property that would catch it.

**What makes each part correct.** The live state is built from the newest file
that loads, keeps its acceptor, and is the one being health-checked; the pair
on disk loads, or is due to be replaced, and every failed provisioning gives back
what it took; the
health flag turns after exactly the thresholds; a connection that is not usable
never shows to a client; the pool keeps its bound; a request goes by one state
from match to forward, and its answer is counted once, before the client has it;
tokens are there when the CA is told to look; every wait ends.

## Modules

| Module | Code | What it is |
|---|---|---|
| `HotReload` | `server.rs`, `state.rs`, `config.rs`, `acme.rs` 379-453 | the tasks that race on the live state |
| `MCHotReload` | | the clock its runs use |
| `HotReloadProofs` | | theorems about it |
| `HealthFlag` | `health_check.rs` 11-13 | what a health flag promises |
| `HealthCheck` | `health_check.rs` | the loop, which implements `HealthFlag` |
| `HealthCheckProofs` | | that it does, for all thresholds |
| `Delivery` | `proxy.rs` 21-113 | what forwarding promises one request |
| `Forwarding` | `proxy.rs`, `pool.rs` | requests, pool, connections; implements `Delivery` |
| `ForwardingProofs` | | theorems about it, the refinement included |
| `CertProvision` | `acme.rs` 29-393 | the certificate's way into `cache_dir` |
| `CertProvisionProofs` | | theorems about it |
| `Challenges` | `acme.rs` 86-174, 457-502, `server.rs` 169-202, 306-378 | `CertProvision` composed with the servers that answer challenges |
| `ChallengesProofs` | | theorems about the composition |
| `Metrics` | `metrics.rs` | the counters |
| `Serving` | `server.rs` 65-101, 208-259, `handler.rs`, `plugin.rs`, `main.rs` | `Metrics` composed with the life of a request and of the server |
| `MCServing` | | the states its run switches between |
| `ServingProofs` | | theorems about `Serving` |

### HotReload

`disk` is the config file: which edit produced it, its mtime, whether it has
`[tls]`, and what loading it would run into (`missing`, `broken` for
`from_file`, `invalid` for `validate`, `plugin` for `build_state` until the
plugin file is there, `ok`). `app` is the `ArcSwap`, as the config it was built
from, the pair its acceptor serves and the index of its route's health flag in
`healthy`, the sequence of every `Arc<AtomicBool>` allocated so far. `pc` and
`boot` are the startup sequence, `rpc`, `rMtime`, `rState`, `lastMtime` the
poller's locals, `wpc`, `wCfg`, `wState` the renewer's.

One action per stretch without an await or without a read of shared state:
`Start` to `StartMtime`; `ReloadStat`, `ReloadRead`, `ReloadStore`;
`RenewalTick`, `RenewalProvision`, `RenewalRenameKey`, `RenewalStamp`,
`RenewalBuild`, `RenewalStore`. The tasks run on a multi-threaded runtime and the
operator is another process, so all of them interleave. One route and one `cache_dir` stand for all: routes share nothing
but the state that holds them, and a config that moves `cache_dir` is not
modelled. `HealthLoop` is the outcome of module `HealthCheck` for a steady
upstream: the flag the loop was given becomes the upstream's condition.

`cert` and `key` are the two files in `cache_dir`, each as the provisioning it
came from, `certOld` what `issued_at` says. A state with `[tls]` is built from
the pair if both files exist, and does not build if they do not match
(`Builds`; `state.rs` 48-58, `tls.rs`). What a renewal does up to the rename of
`cert.pem` is one step here that may fail (`CertProvision` has the rest of it);
the rename of `key.pem` and the write of `issued_at` are steps of their own, as
the poller may read the pair between them and as each may fail: the first leaves
the pair torn, the second leaves it replaced and still due. The two reads of
`build_state` are one step: reading one file before the renames and the other
after gives the same mismatch as reading both between them. At startup nobody
else looks at the pair, so `StartProvision` has the same outcomes in one step.
The first state of a run is any pair an earlier process may have left, torn or
without a key included.

### HealthFlag and HealthCheck

`HealthFlag` is the contract: the flag turns false at the `FailThreshold`th
failed ping in a row and true at the `RecoverThreshold`th success, and never
otherwise. `HealthCheck` is the code: the skipped first tick, a ping in two
halves (connect; request and answer) between which the upstream may change, two
counters that wrap at `CounterMod` (`u32` in a release build). `last` and `run`
are history variables for the refinement.

### Forwarding

Each request runs `forward_inner`: `Collect`, `Acquire` (or `Connect`), `Send`,
`Await`, `Release`, `ReadBody`, with one retry on a fresh connection, and `Cut`
at any of them for the timeout or a client that went away. `idle` is the pool.
`conn` is each connection as hyper's connection task sees it, modelled from how
the code uses it: a sender whose connection is not ready fails at once;
`UpstreamCloses` at any moment; after an answer was read the connection becomes
ready some time later (`Settle`). Two simplifications: hyper may have a small
answer in its buffer and be ready before the body was read, an interleaving left
out; and the HTTP/1 handshake of a new connection (`pool.rs` 50-52), which does
no I/O and cannot fail in hyper 1, is part of `Connect`.

`Delivery` is the contract, with one variable: a request is `new`, `written`,
`lost`, `rewritten`, `gone`, `answering`, `ok` or `failed`. `Phase` maps a
request of `Forwarding` to it by the connections it was written to and whether
one of them is still open, so a second write counts as a retry of a lost request
only if the first connection really is closed.

### CertProvision

The files are the serial number of the certificate they belong to. Each process
runs `provision` at startup and `provision_with_store` as a renewal through the
same steps; where the two differ (`via`), the action says so: the challenge
server stopped or the store cleared at the end, a deadline on the download, the
error of writing `issued_at`. Every file operation except a removal may fail (the
code ignores the result of a removal, so a failed one would leave its file), and `Die` may come between any two steps. `died` and `torn` are history
variables that the properties use to tell a clean error from a death.

### Challenges

Every step of `CertProvision` with what it does to the servers. `ServedChallenge`
binds the challenge server of a startup provisioning before the CA is told of
the order (or fails on a port that is not free); leaving the poll of the order,
by success, error or deadline, tells it to stop (`TellServer`), and its task does
so some time later (`ChallengeServerStops`). A process that goes live spawns the
redirect server, which tries to bind once (`RedirectBinds`). The CA fetches the
tokens at any moment while the order is pending (`Validates`); `TokenAnswered` is
what it finds. Another program may take and leave the port whenever it is free.

### Metrics and Serving

`Metrics` has the atomics, what each request's `record` has yet to add (`todo`)
and what each `render` has loaded (`seen`), both in any order, as `Relaxed`
allows. `Serving` runs requests through it: a connection waits in the backlog, is
accepted, looks at the live state once for TLS or plaintext (`Choose`), and its
request goes through `Receive`, `Route` (load of the live state, first match,
health flag), `RunPlugins`, `ForwardReturns`, `Recording`, `Reply`. A state is
its routes, each as the paths its prefix matches and the verdict each of its
plugins comes to, and whether it has TLS; `Reload` replaces it at any moment. The
health flag may read either way (`HotReload` says when it is right).

Between two awaits a task has a worker to itself: `Free` counts the workers, and a
request whose plugin loops keeps its worker for good. While a worker is left
(`Alive`), accepts, signals and reloads go on: the runtime is taken to move tasks
away from a worker that is stuck. Clients leave at any await. On Ctrl-C or a
failed accept the listener goes with its backlog, tasks are dropped at their
awaits (`DropTask`), and the process is over (`Exit`) when no worker runs a task
any more. A connection carries one request: a later one on the same connection
differs only in that its TLS was chosen longer ago. `lived` and `before` are
history variables.

## Runs

| Run | Shows | Bounds |
|---|---|---|
| `reload_poller` | without renewer: an up-to-date poller serves the file it thinks it serves, never goes back, loads every edit that stays; the boot state is monitored | 3 edits of any class, 1 pair |
| `reload_renewal` | all tasks, edits also during startup, renewals that fail at each of their steps: no plaintext while a pair exists, a torn pair stays due, only the renewer skips `validate`, newer files that load are loaded, renewed pairs go live or stay due | 2 edits, 2 pairs |
| `renewal_overwrites` | *violated*: the renewer stores the config it read before provisioning over a newer one | 1 edit suffices |
| `renewal_invalid` | *violated*: the renewer does not validate | 1 edit |
| `reload_unmonitored` | *violated*: after a reload nobody writes the flags that handlers read | 1 edit |
| `startup_gap` | *violated*: an edit between the startup read and `initial_mtime` is lost | 1 edit |
| `health_check` | the loop implements the flag, and converges | thresholds 3 and 2, counters wrap at 8 |
| `forwarding` | pool bound, no unanswered sender in the pool, no double delivery after an answer, stale connections never surface, `Delivery` is implemented, `forward` returns | 3 requests, 1 upstream, pool of 2 |
| `serving` | counters exact, a scrape shows what was answered before it; a request goes by one state; TLS as of its time; requests end, the process ends, unless plugins loop | 2 requests, 2 workers, 2 states, 3 paths |
| `cert_provision` (of `Challenges`) | success means a loading pair; an error leaves nothing behind; a torn pair only from between the renames; `issued_at` never too fresh; renewals end; the CA finds its tokens unless the redirect server has no port; the challenge server ends | 1 process, 4 certificates |
| `cert_torn_pair` | *violated*: a death or error between the renames leaves a pair on which startup fails | 2 certificates |
| `cert_stale_lock` | *violated*: a death leaves the lockfile for good | 2 certificates |

The violated ones are statements of the repository's documents that the code
does not keep; `findings` in `PROJECT.json` quotes each. Two more behaviours of
the models have no run of their own. A renewal that cannot write `issued_at`
returns an error with both files replaced (`WriteStamp`, `RenewalStamp`), where
the design document of M4 says of an error that the previous pair is untouched
(`:128`, the sentence that `cert_torn_pair` contradicts too). And the poller may
build a state before a renewal replaces the pair and store it after the renewer
stored its own: the certificate from before is live again until the next edit or
renewal.

**Why the bounds are enough.** The hazards of `HotReload` need one edit between
two steps of a task (two to have one before and one after a store); three edits
cover an edit at each of the poller's three steps. Two pairs give one
replacement of a live certificate. In `Forwarding`, two requests fill the pool
with a stale and a streaming connection while a third meets both; upstreams do
not share pool entries, so one is enough. In `CertProvision` and `Challenges`,
four certificates cover a first one, a torn renewal, a repair and one more. In
`Serving`, two requests are enough for two records that race, a scrape after or
during a record, and one or all of the workers lost; between them the two states
have every verdict, a path that matches two routes, one that matches none, and
TLS or not. In `HealthCheck`, the counters
wrap at 8, well past both thresholds: a wrapped counter meets a flag that has
turned.

**What a torn pair does to reloads.** After a renewal whose second rename failed
no config with `[tls]` builds, and the poller cannot pick one up until a renewal
replaces both files. `NewerLoaded` says so: a newer file goes live unless from
some time on it does not load. `TornStaysDue` is why that need not last:
`issued_at` is written last, so the next daily tick tries again. That it succeeds
is up to the CA and the file system, and no fairness is assumed of it. The run has
finitely many renewals (`MaxCerts`); with ever new ones weak fairness alone would
let each of the poller's reads fall between two renames. In the code the poller
reads every second and a renewal comes at most daily.
`RenewedGoesLive` starts when both files are in place and allows for the error of
writing `issued_at`, after which the pair is on disk, not live, and still due.

**Deadlock** is unchecked in `HotReload`, `Forwarding`, `Serving` and
`CertProvision`: a server whose config does not load exits, requests end, the
process exits, and one that finds a torn pair stays down.

**Fairness.** `HotReload`: the runtime runs every ready task, so startup's own
steps, the poller (an interval), the synchronous end of a renewal and the health
loop are weakly fair; edits, provisioning, ageing and the upstream are not.
`HealthCheck`: the interval ticks and both halves of a ping end, by answer or by
their 5 s timeout (the handshake between them is local). `Forwarding`: only the
timer is fair (`Cut`), no answer and no body ever has to come. `CertProvision`: a
process that is up goes on, and calls to the ACME server return (their client has
no deadline of its own); the order and the certificate may stay pending for
ever, which is what `Deadline` is for, and startup's download has none.
`Challenges` adds the tasks of the two servers; the CA need not look.
`Serving`: a task that has a worker goes on, `forward` returns
(`Forwarding`'s `ForwardReturns`) and gets a worker again and again until it runs
(strong fairness: the runtime's queues are fair), and the dropped runtime drops
its tasks; clients, handshakes, requests and reads of the answer need not happen,
and nothing in the code bounds them.

**mtimes.** The runs give every edit a newer mtime (`FineClock`). With edits
inside one clock tick the poller does lose them (`mtime <= last_mtime`); this is
a limit of polling mtimes that no document denies, and it is the assumption
`MtimeSteps \subseteq Nat \ {0}` in the theorem about the poller.

## Proofs

`HotReloadProofs`, about `Spec` for every value of the constants:

- `TypeCorrect`: `TypeOK`. The invariant is `Shape`, which adds that every
  state at hand (`boot`, `rState`, `wState`, `app`) refers to a flag that was
  allocated before.
- `TlsServed`: `TlsWhenCertExists`. Not inductive alone: a pair may appear while
  a state built without one is on its way to the `ArcSwap`. `TlsInv` says why it
  cannot: pairs appear only through a startup that then builds again, or a
  renewer that runs only if startup had `[tls]`, and then a pair has existed
  since before the server was up.
- `TornDue`: `TornStaysDue`. `TornInv` says that a `[tls]` server begins to serve
  with a pair that matches (or it would not have built a state), that a renewal is
  only under way while the pair is old, and that it makes the pair young only
  where both files are the new one's.
- `PollerCorrect` and `PollerMonotonic`: `PollerCurrent` and `NeverGoesBack`,
  assuming `PollerAlone`
  (no `[tls]` at startup, so no renewer; no edits until the server is up; newer
  mtimes). `PollerInv` says that what the poller has read is at least as new as
  the mtime it will remember for it. Both assumptions are needed:
  `renewal_overwrites` and `startup_gap` show what happens without them.
- `OnlyRenewerSkipsValidate`: `PollerValidates`, from `Candidates`: what startup
  or the poller is about to store was validated.

`HealthCheckProofs`, for all thresholds below the counters' width:

- `HealthRefinement`: `Spec => Flag!Spec`. `Coupling` says that below its
  threshold a counter is the length of the current run, and that beyond it the
  flag has turned, so that wrapping does no harm.

`ForwardingProofs`, for any requests, upstreams and `MaxIdle`:

- `ForwardingTypeCorrect`, `PoolBounded`, `PoolAnswered`, `NoSecondWithoutLoss`
  and `StaleHidden`: `TypeOK`, `PoolBound`, `PooledIsAnswered`, `TwiceOnlyIfLost`
  and `StaleNeverSurfaces`, from one invariant. None of them is inductive alone:
  that the pool holds no sender twice needs that no two requests own one
  (`ApartInv`), which needs that an attempt's connection is not there before the
  attempt opens it (`FreshInv`); that what is pooled was answered needs that a
  connection's state fits the step of the request that works on it (`WorkInv`).
  `SentInv` says where a request was written: on a first attempt to the
  connection it works on, on a second to that and to one that is closed. The
  first attempt may be on a pooled connection or a fresh one; what a retry works
  on is always its own fresh connection.
- `ForwardingRefinement`: `Spec => Promise!Spec`. `PhaseTable` reads the phase of
  a request off the invariant; then each action moves the phase of the request
  that takes it, or of those whose connection closes, by a step of `Delivery` or
  not at all. The proof is why `Phase` distinguishes cases by the result first:
  arms of a CASE that overlap leave the value open.

`CertProvisionProofs`, for any processes and any number of certificates:

- `CertTypeCorrect`: `TypeOK`, without further assumptions.
- `OkCorrect`, `LeftoversCorrect`, `TornCorrect` and `StampCorrect`:
  `OkMeansPair`, `LeftoversOnlyByDeath`, `TornOnlyBetweenRenames` and
  `StampNeverFresher` of every behaviour in which `Alone` holds throughout: no two
  processes are between the lockfile and the load of the new pair. This is what
  `.renewing` is for and does not ensure: it is looked for and created in two
  steps (`acme.rs` 60-65), and it is gone before the temporary files are swept.
  `WrittenInv` says that the pair in hand is the last one issued and the files
  are as far as the step of their writer, `OrderInv` that neither key nor stamp
  is ahead of the certificate, and that the pair differs only while a process is
  between the renames or after one was stopped there; `LeftInv` says who holds
  what is to be given back.
- `OneProcess`: with one process `Alone` holds by itself, and so do the four.

`ChallengesProofs`, for any processes:

- `ServedImplements`: every step of the composition is one of `CertProvision` or
  leaves its variables alone, so the theorems above hold of it.
- `FetchCorrect`: `FetchFindsToken`.
  `Waiting` says that while an order is polled its tokens are there, and at
  startup so is the server that answers for them. No `Alone` is needed: tokens
  and servers are each process's own.

`ServingProofs`, for any finite set of requests, any workers, paths and states:

- `CountersCorrect`: `CountersExact`. `CountInv` adds that there is a status only
  from the answer on, and that what a record has yet to add (`todo`) is among
  what its answer belongs to: then an answer changes no count, and an increment
  adds one request to the set behind one counter.
- `ScrapesCorrect`: `ScrapeCountsAnswers`, from `CountInv` and `ScrapeInv`: the
  answers out before a scrape belong to requests that are done, so all their
  increments are in whatever the scrape loads.
- `OneStateThroughout` and `TlsTimely`: `OneState` and `TlsOfItsTime`, from
  `StateInv`: while a request may still load the live state that state is in its
  history, and a state it has loaded stays there; the first match is unique
  (`FirstMatchUnique`), so the route it holds is the one its plugins ran for.

- `ServingTypeCorrect`: `TypeOK`, from those three and `RestInv`; that a request
  holds at most one route is again `FirstMatchUnique`.

Apart from what a theorem states, the only assumptions are the named `ASSUME`s of
the modules. Liveness
(`EditsLoaded`, `NewerLoaded`, `RenewedGoesLive`, `BootStateMonitored`,
`DeadEndsUnhealthy`, `RecoveredEndsHealthy`, `ForwardReturns`, `RenewalEnds`,
`ChallengeServerEnds`, `Answered`, `ShutdownEnds`) is checked by TLC only: the
prover does not handle fairness and ENABLED. Every invariant and every other
action property of a passing run is a theorem. No module has a RECURSIVE operator.

## Not modelled

Left out for good: what a plugin computes (a constant verdict), header rewriting
and bodies of answers, the sum of response times (it moves with the total), PEM
and TOML parsing and the single rules of `validate` beyond "loads or not", TLS and
HTTP themselves, several requests on one connection, logging, the command line,
and the entry points used by tests only. Of a snapshot of the counters relative
to each other nothing is claimed: `render` may show a 2xx whose total it has not
seen. Two processes on one `cache_dir` are expressible (`Procs`) but not run: the
lockfile's test and creation are two steps, and nothing else keeps them apart;
the theorems about provisioning that need them apart say so (`Alone`).
`docs/plugin-abi.md:29` says a plugin need not export a memory, and
`plugin.rs:107` refuses one that does not: a plain reading of one line, for which
no model is needed.

## Plan

1. Two processes on one `cache_dir`: which of the four properties of provisioning
   hold without `Alone`, and of the others the least that keeps them.
2. `PollerCurrent` with a renewer beside the poller: the weakest statement about
   the live config that the two of them keep.
