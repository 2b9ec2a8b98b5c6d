----------------------------- MODULE HotReload -----------------------------
(***************************************************************************)
(* The live AppState of prismproxy and the four tasks that race on it: the *)
(* startup sequence of run_with_listener_hot, the config poller            *)
(* (reload_loop), the certificate renewer (renewal_loop) and the upstream  *)
(* health loop, while an operator edits the config file and the upstream   *)
(* goes up and down.                                                       *)
(*                                                                         *)
(* A config file is its version (how many edits produced it), what loading *)
(* it would run into (its class) and whether it has a [tls] section.  A    *)
(* certificate and a key are the number of the provisioning they came      *)
(* from; how they get to disk in full is module CertProvision.  One route  *)
(* stands for all: routes share no state but the AppState that holds them. *)
(***************************************************************************)
EXTENDS Integers, Sequences

CONSTANTS
  MaxEdits,      \* bound on the edits of the config file
  MaxCerts,      \* bound on the certificates ever provisioned
  MtimeSteps,    \* what an edit adds to the file's mtime: 0 on a coarse clock
  StartupEdits,  \* may the file be edited before the server is up?
  TlsAtStart     \* may the config found at startup have a [tls] section?

ASSUME HotReloadAssumption ==
  /\ MaxEdits \in Nat
  /\ MaxCerts \in Nat
  /\ MtimeSteps \subseteq Int
  /\ StartupEdits \in BOOLEAN
  /\ TlsAtStart \subseteq BOOLEAN

VARIABLES
  disk,        \* the config file: [ver, cls, tls, mtime]
  cert, key,   \* cert.pem and key.pem in cache_dir, 0 for none
  certOld,     \* issued_at is missing or more than 60 days old
  pluginOk,    \* the plugin file that a config may name loads
  up,          \* the upstream answers GET /health
  pc,          \* startup sequence of run_with_listener_hot
  hasTls,      \* has_tls_config, fixed by the config first read
  boot,        \* initial_state while it is a local of the startup sequence
  app,         \* the AppState in the ArcSwap
  healthy,     \* every Arc<AtomicBool> build_state has allocated
  loopArc,     \* the one the health loops were given
  rpc, rMtime, rState, lastMtime,   \* locals of reload_loop
  wpc, wCfg, wState                 \* locals of renewal_loop

cache       == <<cert, key, certOld>>
startVars   == <<pc, hasTls, boot>>
reloadVars  == <<rpc, rMtime, rState, lastMtime>>
renewalVars == <<wpc, wCfg, wState>>
vars == <<disk, cache, pluginOk, up, app, healthy, loopArc,
          startVars, reloadVars, renewalVars>>

-----------------------------------------------------------------------------

(* What loading the file runs into: nothing, build_state (it names a       *)
(* plugin file, which may not be there yet), Config::validate, from_file,  *)
(* or the absence of the file.                                             *)
Class == {"ok", "plugin", "invalid", "broken", "missing"}

Config == [ver : Nat, cls : Class, tls : BOOLEAN]

(* AppState: the config it was built from, the certificate its acceptor    *)
(* serves (0 when tls is None) and its route's health flag.                *)
AppState == [ver : Nat, cls : Class, tls : BOOLEAN, cert : Nat, arc : Nat]

NoConfig == [ver |-> 0, cls |-> "missing", tls |-> FALSE]
NoState  == [ver |-> 0, cls |-> "missing", tls |-> FALSE, cert |-> 0, arc |-> 0]

Epoch == 0

DiskConfig == [ver |-> disk.ver, cls |-> disk.cls, tls |-> disk.tls]

Parses(c)    == c.cls \notin {"broken", "missing"}     \* Config::from_file
Validates(c) == Parses(c) /\ c.cls # "invalid"         \* Config::validate

(* build_state: all plugins load, and build_tls_state takes the pair, if   *)
(* there is one: it refuses a key that is not the certificate's.           *)
PairExists == cert > 0 /\ key > 0

Builds(c) ==
  /\ c.cls = "plugin" => pluginOk
  /\ c.tls /\ PairExists => cert = key

\* Mutant: validate is not called.
LoadsUnvalidated(c) == Parses(c) /\ Builds(c)

(* try_reload, and the same three calls at startup. *)
Loads(c) == Parses(c) /\ Validates(c) /\ Builds(c)

(* build_state: the certificate is read when the state is built, and its   *)
(* routes get a flag of their own, true.                                   *)
BuiltState(c) == [ver |-> c.ver, cls |-> c.cls, tls |-> c.tls,
                  cert |-> IF c.tls /\ PairExists THEN cert ELSE 0,
                  arc |-> Len(healthy) + 1]

\* Mutant: build_state does not give the routes flags of their own.
SharedFlag == UNCHANGED healthy

NewFlag == healthy' = Append(healthy, TRUE)

CertNeedsRenewal == cert = 0 \/ certOld

(* What handlers read: the flag of the live state's route. *)
LiveUnhealthy == app.arc > 0 /\ ~healthy[app.arc]

-----------------------------------------------------------------------------

TypeOK ==
  /\ disk \in [ver : Nat, cls : Class, tls : BOOLEAN, mtime : Nat]
  /\ cert \in Nat /\ key \in Nat /\ certOld \in BOOLEAN
  /\ pluginOk \in BOOLEAN
  /\ up \in BOOLEAN
  /\ pc \in {"start", "reread", "provision", "rebuild", "publish",
             "mtime", "serving", "exited"}
  /\ hasTls \in BOOLEAN
  /\ boot \in AppState
  /\ app \in AppState
  /\ healthy \in Seq(BOOLEAN)
  /\ loopArc \in Nat
  /\ rpc \in {"idle", "read", "store"}
  /\ rMtime \in Nat
  /\ rState \in AppState
  /\ lastMtime \in Nat
  /\ wpc \in {"idle", "provision", "renameKey", "stamp", "build", "store"}
  /\ wCfg \in Config
  /\ wState \in AppState
  /\ pc \in {"mtime", "serving"} => {app.arc, loopArc} \subseteq 1 .. Len(healthy)

Init ==
  /\ \E cls \in Class, tls \in TlsAtStart :
       disk = [ver |-> 0, cls |-> cls, tls |-> tls, mtime |-> 2]
  /\ cert \in 0 .. MaxCerts /\ key \in 0 .. cert   \* as an earlier process left them
  /\ certOld \in BOOLEAN
  /\ pluginOk = FALSE
  /\ up = TRUE
  /\ pc = "start" /\ hasTls = FALSE /\ boot = NoState
  /\ app = NoState /\ healthy = <<>> /\ loopArc = 0
  /\ rpc = "idle" /\ rMtime = Epoch /\ rState = NoState /\ lastMtime = Epoch
  /\ wpc = "idle" /\ wCfg = NoConfig /\ wState = NoState

-----------------------------------------------------------------------------
(* The environment: operator, clock, upstream.                             *)

(* The operator (or the editor, in the middle of a save) changes the file. *)
Edit(cls, tls, step) ==
  /\ pc = "serving" \/ (StartupEdits /\ pc # "exited")
  /\ disk.ver < MaxEdits
  /\ tls => cls \notin {"broken", "missing"}
  /\ disk.mtime + step > Epoch
  /\ disk' = [ver |-> disk.ver + 1, cls |-> cls, tls |-> tls,
              mtime |-> disk.mtime + step]
  /\ UNCHANGED <<cache, pluginOk, up, app, healthy, loopArc,
                 startVars, reloadVars, renewalVars>>

(* The missing plugin file is put in place; the config is not touched.     *)
PluginInstalled ==
  /\ ~pluginOk
  /\ pluginOk' = TRUE
  /\ UNCHANGED <<disk, cache, up, app, healthy, loopArc,
                 startVars, reloadVars, renewalVars>>

(* Sixty days pass. *)
CertAges ==
  /\ ~certOld /\ pc = "serving"
  /\ certOld' = TRUE
  /\ UNCHANGED <<disk, cert, key, pluginOk, up, app, healthy, loopArc,
                 startVars, reloadVars, renewalVars>>

UpstreamFlips ==
  /\ up' = ~up
  /\ UNCHANGED <<disk, cache, pluginOk, app, healthy, loopArc,
                 startVars, reloadVars, renewalVars>>

-----------------------------------------------------------------------------
(* run_with_listener_hot, up to the accept loop.                           *)

(* Read, validate and build; a [tls] config without a certificate goes on  *)
(* to provision one first.                                                 *)
Start ==
  /\ pc = "start"
  /\ \/ /\ ~Loads(DiskConfig)
        /\ pc' = "exited"
        /\ UNCHANGED <<hasTls, boot, healthy>>
     \/ /\ Loads(DiskConfig)
        /\ hasTls' = disk.tls
        /\ boot' = BuiltState(DiskConfig)
        /\ NewFlag
        /\ pc' = IF disk.tls /\ ~PairExists THEN "reread" ELSE "publish"
  /\ UNCHANGED <<disk, cache, pluginOk, up, app, loopArc, reloadVars, renewalVars>>

(* The config is read again, not validated, and its [tls] section is       *)
(* unwrapped: startup panics when an edit has just removed it.             *)
StartReread ==
  /\ pc = "reread"
  /\ pc' = IF Parses(DiskConfig) /\ disk.tls THEN "provision" ELSE "exited"
  /\ UNCHANGED <<disk, cache, pluginOk, up, hasTls, boot, app, healthy, loopArc,
                 reloadVars, renewalVars>>

(* acme::provision; nothing else looks at the pair yet.  An error of the   *)
(* second rename leaves the new certificate with the old key, one of       *)
(* writing issued_at is ignored.                                           *)
StartProvision ==
  /\ pc = "provision"
  /\ \/ /\ cert < MaxCerts
        /\ cert' = cert + 1
        /\ \/ /\ key' = cert'
              /\ certOld' = FALSE \/ UNCHANGED certOld
              /\ pc' = "rebuild"
           \/ UNCHANGED <<key, certOld>> /\ pc' = "exited"
     \/ UNCHANGED cache /\ pc' = "exited"
  /\ UNCHANGED <<disk, pluginOk, up, hasTls, boot, app, healthy, loopArc,
                 reloadVars, renewalVars>>

\* Mutant: the state built before provisioning is published.
StartRebuildSkipped ==
  /\ pc = "rebuild"
  /\ pc' = IF Loads(DiskConfig) THEN "publish" ELSE "exited"
  /\ UNCHANGED <<disk, cache, pluginOk, up, hasTls, boot, app, healthy,
                 loopArc, reloadVars, renewalVars>>

StartRebuild ==
  /\ pc = "rebuild"
  /\ \/ /\ ~Loads(DiskConfig)
        /\ pc' = "exited"
        /\ UNCHANGED <<boot, healthy>>
     \/ /\ Loads(DiskConfig)
        /\ boot' = BuiltState(DiskConfig)
        /\ NewFlag
        /\ pc' = "publish"
  /\ UNCHANGED <<disk, cache, pluginOk, up, hasTls, app, loopArc,
                 reloadVars, renewalVars>>

\* Mutant: the health loop is given a flag no route reads.
StartPublishOwnFlag ==
  /\ pc = "publish"
  /\ app' = boot
  /\ NewFlag
  /\ loopArc' = Len(healthy) + 1
  /\ pc' = "mtime"
  /\ UNCHANGED <<disk, cache, pluginOk, up, hasTls, boot,
                 reloadVars, renewalVars>>

(* The ArcSwap is made and the health loops get the flags of its routes.   *)
StartPublish ==
  /\ pc = "publish"
  /\ app' = boot
  /\ loopArc' = boot.arc
  /\ pc' = "mtime"
  /\ UNCHANGED <<disk, cache, pluginOk, up, hasTls, boot, healthy,
                 reloadVars, renewalVars>>

(* initial_mtime, taken after the config was read; then the tasks start.   *)
StartMtime ==
  /\ pc = "mtime"
  /\ lastMtime' = IF disk.cls = "missing" THEN Epoch ELSE disk.mtime
  /\ pc' = "serving"
  /\ UNCHANGED <<disk, cache, pluginOk, up, hasTls, boot, app, healthy, loopArc,
                 rpc, rMtime, rState, renewalVars>>

-----------------------------------------------------------------------------
(* reload_loop.  Other tasks and the operator act between its steps.       *)

\* Mutant: the mtime is remembered before the load succeeded.
ReloadStatEager ==
  /\ pc = "serving" /\ rpc = "idle"
  /\ disk.cls # "missing"
  /\ disk.mtime > lastMtime
  /\ rMtime' = disk.mtime
  /\ lastMtime' = disk.mtime
  /\ rpc' = "read"
  /\ UNCHANGED <<disk, cache, pluginOk, up, app, healthy, loopArc,
                 startVars, rState, renewalVars>>

ReloadStat ==
  /\ pc = "serving" /\ rpc = "idle"
  /\ disk.cls # "missing"
  /\ disk.mtime > lastMtime
  /\ rMtime' = disk.mtime
  /\ rpc' = "read"
  /\ UNCHANGED <<disk, cache, pluginOk, up, app, healthy, loopArc, startVars,
                 rState, lastMtime, renewalVars>>

\* Mutant: a file that does not load brings the startup state back.
ReloadReadReverts ==
  /\ rpc = "read"
  /\ rpc' = "store"
  /\ rState' = IF Loads(DiskConfig) THEN BuiltState(DiskConfig) ELSE boot
  /\ NewFlag
  /\ UNCHANGED <<disk, cache, pluginOk, up, app, loopArc, startVars,
                 rMtime, lastMtime, renewalVars>>

(* try_reload; on an error last_mtime stays, so the next tick tries again. *)
ReloadRead ==
  /\ rpc = "read"
  /\ \/ /\ ~Loads(DiskConfig)
        /\ rpc' = "idle"
        /\ UNCHANGED <<rState, healthy>>
     \/ /\ Loads(DiskConfig)
        /\ rState' = BuiltState(DiskConfig)
        /\ NewFlag
        /\ rpc' = "store"
  /\ UNCHANGED <<disk, cache, pluginOk, up, app, loopArc, startVars,
                 rMtime, lastMtime, renewalVars>>

\* Mutant: the mtime is taken after the file was read.
ReloadStoreStatsLate ==
  /\ rpc = "store"
  /\ app' = rState
  /\ lastMtime' = disk.mtime
  /\ rpc' = "idle"
  /\ rState' = NoState
  /\ UNCHANGED <<disk, cache, pluginOk, up, healthy, loopArc, startVars,
                 rMtime, renewalVars>>

ReloadStore ==
  /\ rpc = "store"
  /\ app' = rState
  /\ lastMtime' = rMtime
  /\ rpc' = "idle"
  /\ rState' = NoState
  /\ UNCHANGED <<disk, cache, pluginOk, up, healthy, loopArc, startVars,
                 rMtime, renewalVars>>

-----------------------------------------------------------------------------
(* renewal_loop, spawned only if the startup config had [tls].             *)

(* One tick that finds a certificate to renew: the config is parsed but    *)
(* not validated, and is kept until the state is rebuilt from it.          *)
RenewalTick ==
  /\ pc = "serving" /\ hasTls /\ wpc = "idle"
  /\ Parses(DiskConfig)
  /\ disk.tls
  /\ CertNeedsRenewal
  /\ wCfg' = DiskConfig
  /\ wpc' = "provision"
  /\ UNCHANGED <<disk, cache, pluginOk, up, app, healthy, loopArc, startVars,
                 reloadVars, wState>>

(* provision_with_store returned an error. *)
RenewalFails ==
  /\ wpc' = "idle"
  /\ wCfg' = NoConfig

\* Mutant: issued_at is written before the renames.
RenewalProvisionStamps ==
  /\ wpc = "provision"
  /\ cert < MaxCerts
  /\ cert' = cert + 1
  /\ certOld' = FALSE
  /\ wpc' = "renameKey"
  /\ UNCHANGED <<disk, key, pluginOk, up, app, healthy, loopArc, startVars, reloadVars,
                 wCfg, wState>>

(* provision_with_store takes minutes up to the rename of cert.pem, and    *)
(* may fail.                                                               *)
RenewalProvision ==
  /\ wpc = "provision"
  /\ \/ /\ cert < MaxCerts
        /\ cert' = cert + 1
        /\ wpc' = "renameKey"
        /\ UNCHANGED wCfg
     \/ RenewalFails /\ UNCHANGED cert
  /\ UNCHANGED <<disk, key, certOld, pluginOk, up, app, healthy, loopArc, startVars,
                 reloadVars, wState>>

(* The rename of key.pem: until then, or for good if it fails, the two     *)
(* files do not match.  (A build_state that reads one of them before and   *)
(* the other after the renames finds the same.)                            *)
RenewalRenameKey ==
  /\ wpc = "renameKey"
  /\ \/ key' = cert /\ wpc' = "stamp" /\ UNCHANGED wCfg
     \/ RenewalFails /\ UNCHANGED key
  /\ UNCHANGED <<disk, cert, certOld, pluginOk, up, app, healthy, loopArc, startVars,
                 reloadVars, wState>>

(* issued_at; that it cannot be written is an error with the pair in place.*)
RenewalStamp ==
  /\ wpc = "stamp"
  /\ \/ certOld' = FALSE /\ wpc' = "build" /\ UNCHANGED wCfg
     \/ RenewalFails /\ UNCHANGED certOld
  /\ UNCHANGED <<disk, cert, key, pluginOk, up, app, healthy, loopArc, startVars,
                 reloadVars, wState>>

\* Mutant: the new state keeps the acceptor that is live.
RenewalBuildKeepsAcceptor ==
  /\ wpc = "build"
  /\ wpc' = IF Builds(wCfg) THEN "store" ELSE "idle"
  /\ wState' = [BuiltState(wCfg) EXCEPT !.cert = app.cert]
  /\ wCfg' = NoConfig
  /\ NewFlag
  /\ UNCHANGED <<disk, cache, pluginOk, up, app, loopArc, startVars,
                 reloadVars>>

RenewalBuild ==
  /\ wpc = "build"
  /\ \/ /\ ~Builds(wCfg)
        /\ wpc' = "idle"
        /\ UNCHANGED <<wState, healthy>>
     \/ /\ Builds(wCfg)
        /\ wState' = BuiltState(wCfg)
        /\ NewFlag
        /\ wpc' = "store"
  /\ wCfg' = NoConfig
  /\ UNCHANGED <<disk, cache, pluginOk, up, app, loopArc, startVars,
                 reloadVars>>

RenewalStore ==
  /\ wpc = "store"
  /\ app' = wState
  /\ wpc' = "idle"
  /\ wState' = NoState
  /\ UNCHANGED <<disk, cache, pluginOk, up, healthy, loopArc, startVars,
                 reloadVars, wCfg>>

-----------------------------------------------------------------------------

(* upstream_health_loop, once enough consecutive pings agree: it stores    *)
(* into the flag it was spawned with.  Module HealthCheck has the counting.*)
HealthLoop ==
  /\ pc \in {"mtime", "serving"}
  /\ healthy[loopArc] # up
  /\ healthy' = [healthy EXCEPT ![loopArc] = up]
  /\ UNCHANGED <<disk, cache, pluginOk, up, app, loopArc, startVars, reloadVars,
                 renewalVars>>

-----------------------------------------------------------------------------

Environment ==
  \/ \E cls \in Class, tls \in BOOLEAN, step \in MtimeSteps : Edit(cls, tls, step)
  \/ PluginInstalled
  \/ CertAges
  \/ UpstreamFlips

Startup == Start \/ StartReread \/ StartProvision \/ StartRebuild
             \/ StartPublish \/ StartMtime

Reload == ReloadStat \/ ReloadRead \/ ReloadStore

(* The end of a renewal, without an await. *)
RenewalEnd == RenewalRenameKey \/ RenewalStamp \/ RenewalBuild \/ RenewalStore

Renewal == RenewalTick \/ RenewalProvision \/ RenewalEnd

Next == Environment \/ Startup \/ Reload \/ Renewal \/ HealthLoop

(* The runtime runs every task that is ready: the startup sequence, the    *)
(* poller at each tick, the synchronous end of a renewal and the health    *)
(* loop.  Nothing makes a provisioning end, an operator edit or a          *)
(* certificate age.                                                        *)
Fairness ==
  /\ WF_vars(Start \/ StartReread \/ StartRebuild \/ StartPublish \/ StartMtime)
  /\ WF_vars(Reload)
  /\ WF_vars(RenewalEnd)
  /\ WF_vars(HealthLoop)

Spec == Init /\ [][Next]_vars

FairSpec == Spec /\ Fairness

-----------------------------------------------------------------------------
(* Properties of the poller alone.                                         *)

(* When the poller believes it is up to date - its last_mtime is the       *)
(* file's - the live state was built from that file: no edit fell between  *)
(* the stat, the read and the store unseen (reload_loop; mtime read before *)
(* the content).                                                           *)
PollerCurrent ==
  (pc = "serving" /\ rpc = "idle" /\ lastMtime = disk.mtime)
    => app.ver = disk.ver

(* No store into the ArcSwap replaces a config by an older one. *)
NeverGoesBack == [][app'.ver >= app.ver]_vars

(* Every config that loads and stays on disk goes live (reload_loop).      *)
EditsLoaded ==
  \A v \in 0 .. MaxEdits :
    (pc = "serving" /\ disk.ver = v /\ Loads(DiskConfig))
       ~> (app.ver = v \/ disk.ver # v)

(* Of a file newer than what the poller remembers the same is true even    *)
(* next to a renewer, whose stores replace the live config and whose       *)
(* renames, done or failed, keep it from loading for a while: it goes live *)
(* unless, from some time on, it does not load (server.rs:266-292).        *)
NewerLoaded ==
  \A v \in 0 .. MaxEdits :
    (pc = "serving" /\ disk.ver = v /\ disk.mtime > lastMtime)
       ~> (app.ver = v \/ disk.ver # v \/ []~Loads(DiskConfig))

-----------------------------------------------------------------------------
(* Properties of the tasks together.                                       *)

(* A live state with [tls] never falls back to plaintext for want of an    *)
(* acceptor while a certificate pair lies in cache_dir (build_state's      *)
(* tls: None; startup provisions, then builds again).                      *)
TlsWhenCertExists == (app.tls /\ PairExists) => app.cert > 0

(* A config that fails validate only ever goes live through the renewer:   *)
(* startup and the poller keep it out (server.rs:113, :299).               *)
PollerValidates ==
  [][StartPublish \/ ReloadStore => app'.cls # "invalid"]_vars

(* A renewal that fails in the middle leaves the certificate due: whenever *)
(* certificate and key do not match, for the moment or for good, issued_at *)
(* still asks for the renewal that will replace both (acme.rs:379-388).    *)
TornStaysDue == (pc = "serving" /\ hasTls /\ cert # key) => certOld

(* Once both files are renewed the pair goes live, or the renewer is idle  *)
(* again with an error and the pair still due; provided that the config    *)
(* kept across the provisioning builds (acme.rs:381-388, :441-451).        *)
RenewedGoesLive ==
  \A n \in 1 .. MaxCerts :
    (wpc = "stamp" /\ cert = n /\ Builds(wCfg))
       ~> (app.cert >= n \/ (wpc = "idle" /\ certOld))

(* As long as the state the server started with stays live, an upstream    *)
(* that stays down ends up marked unhealthy (upstream_health_loop).        *)
BootStateMonitored ==
  <>[](pc = "serving" /\ ~up /\ app = boot) => <>[]LiveUnhealthy

-----------------------------------------------------------------------------
(* What the documents say, and the code does not do.                       *)

(* docs/superpowers/specs/2026-04-03-m3-design.md:124 - a config with an   *)
(* invalid address is never put live: the previous state is kept.          *)
LiveConfigValid == app.cls # "invalid"

(* README.md:32 - an upstream that stays down is marked unhealthy, on      *)
(* whatever state is live.                                                 *)
DeadUpstreamMarked ==
  <>[](pc = "serving" /\ ~up) => <>[]LiveUnhealthy

=============================================================================
