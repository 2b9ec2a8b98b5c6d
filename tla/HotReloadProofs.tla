-------------------------- MODULE HotReloadProofs --------------------------
(***************************************************************************)
(* What holds of the live AppState for every number of edits and of        *)
(* certificates, proved.  One inductive invariant per question: Shape for  *)
(* types and ownership of the health flags, TlsInv for the acceptor,       *)
(* TornInv for the pair on disk, PollerInv for the poller.                 *)
(***************************************************************************)
EXTENDS HotReload, TLAPS

Arcs == 1 .. Len(healthy)

(* Only the serving phase has a poller and a renewer, and a state that     *)
(* waits to be stored owns a flag that build_state allocated.              *)
Ownership ==
  /\ rpc # "idle" => pc = "serving"
  /\ wpc # "idle" => pc = "serving"
  /\ pc \in {"publish", "mtime", "serving"} => boot.arc \in Arcs
  /\ rpc = "store" => rState.arc \in Arcs
  /\ wpc = "store" => wState.arc \in Arcs

Shape == TypeOK /\ Ownership

-----------------------------------------------------------------------------

(* build_state returns an AppState whose flag is the one it allocated      *)
(* (state.rs:28-69), and every flag allocated before is still there.       *)
LEMMA BuiltStateOwnsFlag ==
  ASSUME TypeOK, NewFlag, NEW c \in Config
  PROVE  /\ BuiltState(c) \in AppState
         /\ BuiltState(c).arc \in Arcs'
         /\ Arcs \subseteq Arcs'
         /\ healthy' \in Seq(BOOLEAN)
  <1>1. healthy \in Seq(BOOLEAN) /\ healthy' = Append(healthy, TRUE)
    BY DEF TypeOK, NewFlag
  <1>2. healthy' \in Seq(BOOLEAN) /\ Len(healthy') = Len(healthy) + 1
    BY <1>1
  <1>3. Len(healthy) \in Nat
    BY <1>1
  <1>4. BuiltState(c).arc = Len(healthy) + 1
    BY DEF BuiltState
  <1>5. BuiltState(c).arc \in Arcs' /\ Arcs \subseteq Arcs'
    BY <1>2, <1>3, <1>4 DEF Arcs
  <1>6. cert \in Nat
    BY DEF TypeOK
  <1>7. BuiltState(c) \in AppState
    BY <1>3, <1>6 DEF Config, AppState, BuiltState
  <1> QED BY <1>2, <1>5, <1>7

LEMMA DiskConfigType == ASSUME TypeOK PROVE DiskConfig \in Config
  BY DEF TypeOK, DiskConfig, Config

LEMMA NoStateType == NoState \in AppState /\ NoConfig \in Config
  BY DEF NoState, NoConfig, AppState, Config, Class

LEMMA ShapeInit == Init => Shape
  <1> SUFFICES ASSUME Init PROVE Shape
    OBVIOUS
  <1>1. TypeOK
    <2>1. PICK cls \in Class, tls \in TlsAtStart :
            disk = [ver |-> 0, cls |-> cls, tls |-> tls, mtime |-> 2]
      BY DEF Init
    <2>2. disk \in [ver : Nat, cls : Class, tls : BOOLEAN, mtime : Nat]
      BY <2>1, HotReloadAssumption DEF HotReloadAssumption
    <2>3. cert \in Nat /\ key \in Nat
      BY HotReloadAssumption DEF Init, HotReloadAssumption
    <2>4. /\ healthy \in Seq(BOOLEAN)
          /\ rMtime \in Nat /\ lastMtime \in Nat /\ loopArc \in Nat
      BY DEF Init, Epoch
    <2> QED BY <2>2, <2>3, <2>4, NoStateType DEF Init, TypeOK
  <1>2. Ownership
    BY DEF Init, Ownership
  <1> QED BY <1>1, <1>2 DEF Shape

LEMMA ShapeStep == Shape /\ [Next]_vars => Shape'
  <1> SUFFICES ASSUME Shape, [Next]_vars PROVE Shape'
    OBVIOUS
  <1> USE DEF Shape
  <1>1. CASE Environment
    <2>1. ASSUME NEW cls \in Class, NEW tls \in BOOLEAN, NEW step \in MtimeSteps,
                 Edit(cls, tls, step)
          PROVE  Shape'
      BY <2>1, HotReloadAssumption, SMT
        DEF Edit, TypeOK, Ownership, Arcs, HotReloadAssumption, Epoch,
            cache, startVars, reloadVars, renewalVars
    <2>2. CASE PluginInstalled
      BY <2>2 DEF PluginInstalled, TypeOK, Ownership, Arcs,
                  cache, startVars, reloadVars, renewalVars
    <2>3. CASE CertAges
      BY <2>3 DEF CertAges, TypeOK, Ownership, Arcs,
                  cache, startVars, reloadVars, renewalVars
    <2>4. CASE UpstreamFlips
      BY <2>4 DEF UpstreamFlips, TypeOK, Ownership, Arcs,
                  cache, startVars, reloadVars, renewalVars
    <2> QED BY <1>1, <2>1, <2>2, <2>3, <2>4 DEF Environment
  <1>2. CASE Startup
    <2>1. CASE Start
      BY <2>1, BuiltStateOwnsFlag, DiskConfigType, SMT
        DEF Start, TypeOK, Ownership, cache, reloadVars, renewalVars
    <2>2. CASE StartReread
      BY <2>2 DEF StartReread, TypeOK, Ownership, Arcs, cache, reloadVars, renewalVars
    <2>3. CASE StartProvision
      <3>1. cert' \in Nat /\ key' \in Nat
        BY <2>3 DEF StartProvision, TypeOK, cache
      <3>2. certOld' \in BOOLEAN
        BY <2>3, Zenon DEF StartProvision, TypeOK, cache
      <3> QED
        BY <2>3, <3>1, <3>2
          DEF StartProvision, TypeOK, Ownership, Arcs, cache, reloadVars, renewalVars
    <2>4. CASE StartRebuild
      BY <2>4, BuiltStateOwnsFlag, DiskConfigType, SMT
        DEF StartRebuild, TypeOK, Ownership, cache, reloadVars, renewalVars
    <2>5. CASE StartPublish
      BY <2>5 DEF StartPublish, TypeOK, Ownership, Arcs, AppState,
                  cache, reloadVars, renewalVars
    <2>6. CASE StartMtime
      BY <2>6 DEF StartMtime, TypeOK, Ownership, Arcs, Epoch, cache, renewalVars
    <2> QED BY <1>2, <2>1, <2>2, <2>3, <2>4, <2>5, <2>6 DEF Startup
  <1>3. CASE Reload
    <2>1. CASE ReloadStat
      BY <2>1 DEF ReloadStat, TypeOK, Ownership, Arcs, cache, startVars, renewalVars
    <2>2. CASE ReloadRead
      <3>1. CASE ~Loads(DiskConfig)
        BY <2>2, <3>1 DEF ReloadRead, TypeOK, Ownership, Arcs, cache, startVars, renewalVars
      <3>2. CASE Loads(DiskConfig)
        <4>1. /\ rState' \in AppState /\ rState'.arc \in Arcs'
              /\ Arcs \subseteq Arcs' /\ healthy' \in Seq(BOOLEAN)
          BY <2>2, <3>2, BuiltStateOwnsFlag, DiskConfigType DEF ReloadRead
        <4>2. rpc' \in {"idle", "read", "store"}
          BY <2>2 DEF ReloadRead
        <4>3. TypeOK'
          BY <2>2, <4>1, <4>2
            DEF ReloadRead, TypeOK, Arcs, cache, startVars, renewalVars
        <4>4. Ownership'
          BY <2>2, <4>1 DEF ReloadRead, Ownership, cache, startVars, renewalVars
        <4> QED BY <4>3, <4>4
      <3> QED BY <3>1, <3>2
    <2>3. CASE ReloadStore
      BY <2>3, NoStateType
        DEF ReloadStore, TypeOK, Ownership, Arcs, cache, startVars, renewalVars
    <2> QED BY <1>3, <2>1, <2>2, <2>3 DEF Reload
  <1>4. CASE Renewal
    <2>1. CASE RenewalTick
      BY <2>1, DiskConfigType
        DEF RenewalTick, TypeOK, Ownership, Arcs, cache, startVars, reloadVars
    <2>2. CASE RenewalProvision \/ RenewalRenameKey \/ RenewalStamp
      <3>0. cert' \in Nat /\ key' \in Nat
        BY <2>2 DEF RenewalProvision, RenewalRenameKey, RenewalStamp, TypeOK
      <3>1. certOld' \in BOOLEAN
        BY <2>2, Zenon DEF RenewalProvision, RenewalRenameKey, RenewalStamp, TypeOK
      <3>2. /\ wCfg' \in Config
            /\ wpc' \in {"idle", "renameKey", "stamp", "build"}
        BY <2>2, NoStateType
          DEF RenewalProvision, RenewalRenameKey, RenewalStamp, RenewalFails, TypeOK
      <3>3. /\ UNCHANGED <<disk, pluginOk, up, app, healthy, loopArc, startVars,
                           reloadVars, wState>>
            /\ wpc # "idle"
        BY <2>2 DEF RenewalProvision, RenewalRenameKey, RenewalStamp
      <3>4. TypeOK'
        BY <3>0, <3>1, <3>2, <3>3 DEF TypeOK, startVars, reloadVars
      <3>5. Ownership'
        BY <3>2, <3>3 DEF Ownership, Arcs, startVars, reloadVars
      <3> QED BY <3>4, <3>5
    <2>3. CASE RenewalBuild
      <3>1. CASE ~Builds(wCfg)
        BY <2>3, <3>1, NoStateType
          DEF RenewalBuild, TypeOK, Ownership, Arcs, cache, startVars, reloadVars
      <3>2. CASE Builds(wCfg)
        <4>1. wCfg \in Config
          BY DEF TypeOK
        <4> QED
          BY <2>3, <3>2, <4>1, BuiltStateOwnsFlag, NoStateType
            DEF RenewalBuild, TypeOK, Ownership, Arcs, cache, startVars, reloadVars
      <3> QED BY <3>1, <3>2
    <2>4. CASE RenewalStore
      BY <2>4, NoStateType
        DEF RenewalStore, TypeOK, Ownership, Arcs, cache, startVars, reloadVars
    <2> QED BY <1>4, <2>1, <2>2, <2>3, <2>4 DEF Renewal, RenewalEnd
  <1>5. CASE HealthLoop
    BY <1>5 DEF HealthLoop, TypeOK, Ownership, Arcs,
                cache, startVars, reloadVars, renewalVars
  <1>6. CASE UNCHANGED vars
    BY <1>6 DEF vars, TypeOK, Ownership, Arcs, cache, startVars, reloadVars, renewalVars
  <1> QED BY <1>1, <1>2, <1>3, <1>4, <1>5, <1>6 DEF Next

(* Every variable keeps its type, and the flag that handlers read and the  *)
(* flag that the health loop writes are ones build_state allocated         *)
(* (state.rs:40, server.rs:144-146).                                       *)
THEOREM TypeCorrect == Spec => []TypeOK
  <1>1. Spec => []Shape
    BY ShapeInit, ShapeStep, PTL DEF Spec
  <1> QED BY <1>1, PTL DEF Shape

-----------------------------------------------------------------------------
(* The acceptor.  The pair that TlsWhenCertExists speaks of can appear     *)
(* while a state is on its way to the ArcSwap; the invariant says that it  *)
(* cannot: only a server that started with [tls] provisions, and it does   *)
(* not start to serve without a pair.                                      *)

HasAcceptor(st) == (st.tls /\ PairExists) => st.cert > 0

TlsInv ==
  /\ pc = "rebuild" => PairExists
  /\ (pc \in {"publish", "mtime", "serving"} /\ hasTls) => PairExists
  /\ pc \notin {"mtime", "serving"} => app = NoState
  /\ wpc # "idle" => hasTls
  /\ pc = "publish" => HasAcceptor(boot)
  /\ HasAcceptor(app)
  /\ rpc = "store" => HasAcceptor(rState)
  /\ wpc = "store" => HasAcceptor(wState)

(* build_state finds the pair that is on disk (state.rs:48-58).            *)
LEMMA BuiltStateHasAcceptor ==
  ASSUME NEW c
  PROVE  /\ BuiltState(c).tls = c.tls
         /\ HasAcceptor(BuiltState(c))
  BY DEF BuiltState, HasAcceptor, PairExists

LEMMA TlsInvStep == Shape /\ TlsInv /\ [Next]_vars => TlsInv'
  <1> SUFFICES ASSUME Shape, TlsInv, [Next]_vars PROVE TlsInv'
    OBVIOUS
  <1> USE DEF TlsInv, HasAcceptor
  <1>a. cert \in Nat /\ key \in Nat /\ NoState.tls = FALSE
    BY DEF Shape, TypeOK, NoState
  <1>o. (rpc # "idle" \/ wpc # "idle") => pc = "serving"
    BY DEF Shape, Ownership
  <1>c. UNCHANGED cache => (PairExists' <=> PairExists)
    BY DEF cache, PairExists
  <1>1. CASE Environment
    <2>1. UNCHANGED <<cert, key, app, pc, hasTls, boot, rpc, rState, wpc, wState>>
      BY <1>1 DEF Environment, Edit, PluginInstalled, CertAges, UpstreamFlips,
                  cache, startVars, reloadVars, renewalVars
    <2> QED BY <2>1 DEF PairExists
  <1>2. CASE Start
    <2>1. CASE ~Loads(DiskConfig)
      BY <1>2, <2>1, <1>o, <1>c DEF Start, reloadVars, renewalVars
    <2>2. CASE Loads(DiskConfig)
      <3>1. /\ pc = "start" /\ app' = app /\ UNCHANGED cache
            /\ rpc' = rpc /\ wpc' = wpc
            /\ hasTls' = disk.tls
            /\ boot' = BuiltState(DiskConfig)
            /\ pc' = IF disk.tls /\ ~PairExists THEN "reread" ELSE "publish"
        BY <1>2, <2>2 DEF Start, reloadVars, renewalVars
      <3>2. boot'.tls = disk.tls /\ HasAcceptor(boot')
        BY <3>1, BuiltStateHasAcceptor DEF DiskConfig
      <3>3. rpc = "idle" /\ wpc = "idle" /\ app = NoState
        BY <3>1, <1>o
      <3> QED BY <1>a, <1>c, <3>1, <3>2, <3>3
    <2> QED BY <2>1, <2>2
  <1>3. CASE StartReread
    BY <1>3, <1>o, <1>c DEF StartReread, reloadVars, renewalVars
  <1>4. CASE StartProvision
    <2>1. pc' = "exited" \/ (pc' = "rebuild" /\ PairExists')
      BY <1>4, <1>a DEF StartProvision, PairExists
    <2> QED BY <1>4, <1>a, <1>o, <2>1 DEF StartProvision, reloadVars, renewalVars
  <1>5. CASE StartRebuild
    <2>1. HasAcceptor(boot') \/ pc' = "exited"
      BY <1>5, BuiltStateHasAcceptor DEF StartRebuild
    <2> QED
      BY <1>5, <1>a, <1>c, <1>o, <2>1 DEF StartRebuild, reloadVars, renewalVars
  <1>6. CASE StartPublish
    BY <1>6, <1>o, <1>c DEF StartPublish, reloadVars, renewalVars
  <1>7. CASE StartMtime
    BY <1>7, <1>o, <1>c DEF StartMtime, renewalVars
  <1>8. CASE ReloadStat
    BY <1>8, <1>c DEF ReloadStat, startVars, renewalVars
  <1>9. CASE ReloadRead
    <2>1. rpc' = "store" => HasAcceptor(rState')
      BY <1>9, BuiltStateHasAcceptor DEF ReloadRead
    <2> QED BY <1>9, <1>c, <2>1 DEF ReloadRead, startVars, renewalVars
  <1>10. CASE ReloadStore
    BY <1>10, <1>o, <1>c DEF ReloadStore, startVars, renewalVars
  <1>11. CASE RenewalTick
    BY <1>11, <1>c DEF RenewalTick, startVars, reloadVars
  <1>12. CASE RenewalProvision \/ RenewalRenameKey \/ RenewalStamp
    <2>1. wpc # "idle" /\ PairExists
      BY <1>12, <1>o DEF RenewalProvision, RenewalRenameKey, RenewalStamp
    <2>2. PairExists'
      BY <1>12, <1>a, <2>1
        DEF RenewalProvision, RenewalRenameKey, RenewalStamp, PairExists
    <2>3. /\ UNCHANGED <<app, pc, hasTls, boot, rpc, rState, wState>>
          /\ wpc' # "store"
      BY <1>12 DEF RenewalProvision, RenewalRenameKey, RenewalStamp, RenewalFails,
                   startVars, reloadVars
    <2> QED BY <1>o, <2>1, <2>2, <2>3
  <1>13. CASE RenewalBuild
    <2>1. wpc' = "store" => HasAcceptor(wState')
      BY <1>13, BuiltStateHasAcceptor DEF RenewalBuild
    <2> QED BY <1>13, <1>c, <2>1 DEF RenewalBuild, startVars, reloadVars
  <1>14. CASE RenewalStore
    BY <1>14, <1>o, <1>c DEF RenewalStore, startVars, reloadVars
  <1>15. CASE HealthLoop
    BY <1>15, <1>c DEF HealthLoop, startVars, reloadVars, renewalVars
  <1>16. CASE UNCHANGED vars
    BY <1>16, <1>c DEF vars, startVars, reloadVars, renewalVars
  <1> QED
    BY <1>1, <1>2, <1>3, <1>4, <1>5, <1>6, <1>7, <1>8, <1>9, <1>10, <1>11,
       <1>12, <1>13, <1>14, <1>15, <1>16
      DEF Next, Startup, Reload, Renewal, RenewalEnd

(* A live [tls] state has an acceptor whenever a pair is on disk: no       *)
(* interleaving of startup, poller and renewer makes the port fall back to *)
(* plaintext (server.rs:123-136, state.rs:48-62).                          *)
THEOREM TlsServed == Spec => []TlsWhenCertExists
  <1>1. Init => TlsInv
    BY DEF Init, TlsInv, HasAcceptor, NoState
  <1>2. Spec => [](Shape /\ TlsInv)
    BY <1>1, ShapeInit, ShapeStep, TlsInvStep, PTL DEF Spec
  <1>3. TlsInv => TlsWhenCertExists
    BY DEF TlsInv, HasAcceptor, TlsWhenCertExists
  <1> QED BY <1>2, <1>3, PTL

-----------------------------------------------------------------------------
(* The pair on disk.  A [tls] server starts to serve with a pair that      *)
(* matches, and the renewer, which alone changes it from then on, renames  *)
(* only while issued_at is old and writes issued_at only after both.       *)

TornInv ==
  /\ pc = "rebuild" => cert = key
  /\ (pc \in {"publish", "mtime"} /\ hasTls) => cert = key
  /\ (pc = "serving" /\ hasTls) => PairExists /\ (cert = key \/ certOld)
  /\ wpc # "idle" => hasTls
  /\ wpc \in {"provision", "renameKey", "stamp"} => certOld
  /\ wpc = "stamp" => cert = key

LEMMA TornInvStep == Shape /\ TlsInv /\ TornInv /\ [Next]_vars => TornInv'
  <1> SUFFICES ASSUME Shape, TlsInv, TornInv, [Next]_vars PROVE TornInv'
    OBVIOUS
  <1> USE DEF TornInv
  <1>a. cert \in Nat /\ key \in Nat
    BY DEF Shape, TypeOK
  <1>o. wpc # "idle" => pc = "serving"
    BY DEF Shape, Ownership
  <1>p. (pc \in {"publish", "mtime", "serving"} /\ hasTls) => PairExists
    BY DEF TlsInv
  <1>c. UNCHANGED cache => UNCHANGED <<cert, key, certOld>> /\ (PairExists' <=> PairExists)
    BY DEF cache, PairExists
  <1>1. CASE Environment
    <2>1. /\ UNCHANGED <<cert, key, pc, hasTls, wpc>>
          /\ certOld => certOld'
      BY <1>1 DEF Environment, Edit, PluginInstalled, CertAges, UpstreamFlips,
                  cache, startVars, renewalVars
    <2> QED BY <2>1 DEF PairExists
  <1>2. CASE Start
    <2>1. pc' = "publish" /\ hasTls' => cert = key
      BY <1>2 DEF Start, Loads, Builds, DiskConfig
    <2> QED BY <1>2, <1>o, <1>c, <2>1 DEF Start, renewalVars
  <1>3. CASE StartProvision
    BY <1>3, <1>o DEF StartProvision, cache, renewalVars
  <1>4. CASE StartReread \/ StartRebuild
    BY <1>4, <1>o, <1>c DEF StartReread, StartRebuild, renewalVars
  <1>5. CASE StartPublish \/ StartMtime
    BY <1>5, <1>o, <1>p, <1>c DEF StartPublish, StartMtime, renewalVars
  <1>6. CASE Reload
    BY <1>6, <1>c DEF Reload, ReloadStat, ReloadRead, ReloadStore, startVars, renewalVars
  <1>7. CASE RenewalTick
    <2>1. cert > 0
      BY <1>7, <1>a DEF RenewalTick, PairExists
    <2> QED BY <1>7, <1>c, <2>1 DEF RenewalTick, CertNeedsRenewal, startVars
  <1>8. CASE RenewalProvision
    BY <1>8, <1>a, <1>o DEF RenewalProvision, RenewalFails, PairExists, startVars
  <1>9. CASE RenewalRenameKey
    BY <1>9, <1>a, <1>o DEF RenewalRenameKey, RenewalFails, PairExists, startVars
  <1>10. CASE RenewalStamp
    BY <1>10, <1>a, <1>o DEF RenewalStamp, RenewalFails, PairExists, startVars
  <1>11. CASE RenewalBuild \/ RenewalStore
    BY <1>11, <1>c DEF RenewalBuild, RenewalStore, startVars
  <1>12. CASE HealthLoop \/ UNCHANGED vars
    BY <1>12, <1>c DEF HealthLoop, vars, startVars, renewalVars
  <1> QED
    BY <1>1, <1>2, <1>3, <1>4, <1>5, <1>6, <1>7, <1>8, <1>9, <1>10, <1>11, <1>12
      DEF Next, Startup, Renewal, RenewalEnd

(* Whatever step of a renewal fails, and however the poller and the        *)
(* operator interleave with it, a pair that does not match is one that     *)
(* issued_at still calls due, so the next renewal replaces both files      *)
(* (acme.rs:379-388, cert_needs_renewal).                                  *)
THEOREM TornDue == Spec => []TornStaysDue
  <1>1. Init => TlsInv /\ TornInv
    BY DEF Init, TlsInv, TornInv, HasAcceptor, NoState
  <1>2. Spec => [](Shape /\ TlsInv /\ TornInv)
    BY <1>1, ShapeInit, ShapeStep, TlsInvStep, TornInvStep, PTL DEF Spec
  <1>3. TornInv => TornStaysDue
    BY DEF TornInv, TornStaysDue
  <1> QED BY <1>2, <1>3, PTL

-----------------------------------------------------------------------------
(* The poller.  Alone on the ArcSwap, with a clock that tells every edit   *)
(* from the one before and no edit during startup, it misses nothing.      *)
(* What it has in hand - the mtime it took, then the state it built - is   *)
(* never newer than the file, and as new only if the content is the file's.*)

PollerAlone ==
  /\ ~StartupEdits
  /\ TlsAtStart \subseteq {FALSE}
  /\ MtimeSteps \subseteq Nat \ {0}

(* A config version with an mtime under which it is remembered. *)
UpTo(ver, mtime) ==
  /\ ver <= disk.ver
  /\ mtime <= disk.mtime
  /\ mtime = disk.mtime => ver = disk.ver

PollerInv ==
  /\ ~hasTls /\ wpc = "idle"
  /\ pc \in {"start", "publish", "mtime", "serving", "exited"}
  /\ pc # "serving" => ~disk.tls
  /\ pc # "start" => disk.cls # "missing" \/ pc \in {"serving", "exited"}
  /\ pc \in {"start", "publish"} => app.ver = 0
  /\ pc = "publish" => boot.ver = disk.ver
  /\ pc = "mtime" => app.ver = disk.ver
  /\ pc = "serving" => UpTo(app.ver, lastMtime)
  /\ rpc # "idle" => rMtime <= disk.mtime
  /\ rpc = "store" => app.ver <= rState.ver /\ UpTo(rState.ver, rMtime)

(* The types the arithmetic of the poller needs. *)
LEMMA PollerTypes ==
  ASSUME Shape
  PROVE  /\ disk.ver \in Nat /\ disk.mtime \in Nat
         /\ disk = [ver |-> disk.ver, cls |-> disk.cls, tls |-> disk.tls,
                    mtime |-> disk.mtime]
         /\ app.ver \in Nat /\ boot.ver \in Nat /\ rState.ver \in Nat
         /\ lastMtime \in Nat /\ rMtime \in Nat
  BY DEF Shape, TypeOK, AppState

(* A state built from the file has the file's version (server.rs:297-301). *)
LEMMA BuiltStateVersion == BuiltState(DiskConfig).ver = disk.ver
  BY DEF BuiltState, DiskConfig

(* The conjuncts of PollerInv speak of these variables only.               *)
pollerVars == <<disk, app, startVars, reloadVars, wpc>>

LEMMA PollerInvStep ==
  ASSUME PollerAlone, Shape, PollerInv, [Next]_vars
  PROVE  PollerInv' /\ app'.ver >= app.ver
  <1> USE PollerTypes DEF PollerInv, UpTo
  <1>s. rpc # "idle" => pc = "serving"
    BY DEF Shape, Ownership
  <1>1. CASE UNCHANGED pollerVars
    BY <1>1 DEF pollerVars, startVars, reloadVars
  <1>2. ASSUME NEW cls \in Class, NEW tls \in BOOLEAN, NEW step \in MtimeSteps,
               Edit(cls, tls, step)
        PROVE  PollerInv' /\ app'.ver >= app.ver
    <2>1. /\ pc = "serving"
          /\ disk'.ver = disk.ver + 1
          /\ disk'.mtime = disk.mtime + step
          /\ UNCHANGED <<app, startVars, reloadVars, wpc>>
      BY <1>2 DEF Edit, PollerAlone, renewalVars
    <2>2. step \in Nat /\ step > 0
      BY DEF PollerAlone
    <2> QED BY <2>1, <2>2 DEF startVars, reloadVars
  <1>3. CASE PluginInstalled \/ CertAges \/ UpstreamFlips
    BY <1>1, <1>3
      DEF PluginInstalled, CertAges, UpstreamFlips, pollerVars, renewalVars
  <1>4. CASE Start
    <2>1. CASE ~Loads(DiskConfig)
      BY <1>4, <2>1, <1>s DEF Start, reloadVars, renewalVars
    <2>2. CASE Loads(DiskConfig)
      <3>1. disk.cls # "missing"
        BY <2>2 DEF Loads, Parses, DiskConfig
      <3>2. /\ boot'.ver = disk.ver /\ hasTls' = disk.tls /\ pc' = "publish"
            /\ UNCHANGED <<disk, app, reloadVars, wpc>> /\ pc = "start"
        BY <1>4, <2>2, BuiltStateVersion DEF Start, renewalVars
      <3> QED BY <3>1, <3>2, <1>s DEF reloadVars
    <2> QED BY <2>1, <2>2
  <1>5. CASE StartReread \/ StartProvision \/ StartRebuild
    BY <1>5 DEF StartReread, StartProvision, StartRebuild
  <1>6. CASE StartPublish
    BY <1>6, <1>s DEF StartPublish, reloadVars, renewalVars
  <1>7. CASE StartMtime
    <2>1. lastMtime' = disk.mtime
      BY <1>7 DEF StartMtime
    <2> QED BY <1>7, <1>s, <2>1 DEF StartMtime, renewalVars
  <1>8. CASE ReloadStat
    BY <1>8 DEF ReloadStat, startVars, renewalVars
  <1>9. CASE ReloadRead
    <2>1. UNCHANGED <<disk, app, startVars, rMtime, lastMtime, wpc>>
      BY <1>9 DEF ReloadRead, renewalVars
    <2>2. \/ rpc' = "idle"
          \/ rpc' = "store" /\ rState'.ver = disk.ver
      BY <1>9, BuiltStateVersion DEF ReloadRead
    <2>3. rpc = "read"
      BY <1>9 DEF ReloadRead
    <2> QED BY <2>1, <2>2, <2>3, <1>s DEF startVars
  <1>10. CASE ReloadStore
    BY <1>10, <1>s DEF ReloadStore, startVars, renewalVars
  <1>11. CASE Renewal
    BY <1>11 DEF Renewal, RenewalEnd, RenewalTick, RenewalProvision,
                 RenewalRenameKey, RenewalStamp, RenewalBuild, RenewalStore
  <1>12. CASE HealthLoop
    BY <1>1, <1>12 DEF HealthLoop, pollerVars, renewalVars
  <1>13. CASE UNCHANGED vars
    BY <1>1, <1>13 DEF vars, pollerVars, renewalVars
  <1> QED
    BY <1>2, <1>3, <1>4, <1>5, <1>6, <1>7, <1>8, <1>9, <1>10, <1>11, <1>12, <1>13
      DEF Next, Environment, Startup, Reload

LEMMA PollerInvAlways ==
  ASSUME PollerAlone
  PROVE  Spec => [](Shape /\ PollerInv)
  <1>1. Init => PollerInv
    <2> SUFFICES ASSUME Init PROVE PollerInv
      OBVIOUS
    <2>1. PICK cls \in Class, tls \in TlsAtStart :
            disk = [ver |-> 0, cls |-> cls, tls |-> tls, mtime |-> 2]
      BY DEF Init
    <2>2. tls = FALSE
      BY DEF PollerAlone
    <2>3. disk.tls = FALSE
      BY <2>1, <2>2
    <2> QED BY <2>3 DEF Init, PollerInv, NoState
  <1>2. Shape /\ PollerInv /\ [Next]_vars => PollerInv'
    BY PollerInvStep
  <1> QED BY <1>1, <1>2, ShapeInit, ShapeStep, PTL DEF Spec

(* A poller alone knows when it is up to date (server.rs:261-301; the      *)
(* mtime is taken before the content is read).                             *)
THEOREM PollerCorrect ==
  ASSUME PollerAlone
  PROVE  Spec => []PollerCurrent
  <1>1. PollerInv => PollerCurrent
    BY DEF PollerInv, UpTo, PollerCurrent
  <1> QED BY <1>1, PollerInvAlways, PTL

(* And it never goes back: with no renewer beside it, no store replaces    *)
(* the live config by an older one (server.rs:285-291).                    *)
THEOREM PollerMonotonic ==
  ASSUME PollerAlone
  PROVE  Spec => NeverGoesBack
  <1>1. Shape /\ PollerInv /\ [Next]_vars => app'.ver >= app.ver
    BY PollerInvStep
  <1> QED BY <1>1, PollerInvAlways, PTL DEF Spec, NeverGoesBack

-----------------------------------------------------------------------------
(* Startup and the poller publish what they loaded, and only that.         *)

Candidates ==
  /\ pc = "publish" => boot.cls # "invalid"
  /\ rpc = "store" => rState.cls # "invalid"

LEMMA LoadedIsValid ==
  Loads(DiskConfig) => BuiltState(DiskConfig).cls # "invalid"
  BY DEF Loads, Validates, BuiltState, DiskConfig

LEMMA CandidatesStep == Candidates /\ [Next]_vars => Candidates'
  <1> SUFFICES ASSUME Candidates, [Next]_vars PROVE Candidates'
    OBVIOUS
  <1> USE DEF Candidates
  <1>1. CASE UNCHANGED <<pc, boot, rpc, rState>>
    BY <1>1
  <1>2. CASE Environment \/ Renewal \/ HealthLoop \/ UNCHANGED vars
    BY <1>1, <1>2
      DEF Environment, Edit, PluginInstalled, CertAges, UpstreamFlips, HealthLoop,
          Renewal, RenewalTick, RenewalProvision, RenewalEnd, RenewalRenameKey,
          RenewalStamp, RenewalBuild, RenewalStore, vars, startVars, reloadVars
  <1>3. CASE Start
    BY <1>3, LoadedIsValid DEF Start, reloadVars
  <1>4. CASE StartRebuild
    BY <1>4, LoadedIsValid DEF StartRebuild, reloadVars
  <1>5. CASE StartReread \/ StartProvision \/ StartPublish \/ StartMtime
    BY <1>5 DEF StartReread, StartProvision, StartPublish, StartMtime, reloadVars
  <1>6. CASE ReloadStat \/ ReloadStore
    BY <1>6 DEF ReloadStat, ReloadStore, startVars
  <1>7. CASE ReloadRead
    BY <1>7, LoadedIsValid DEF ReloadRead, startVars
  <1> QED
    BY <1>2, <1>3, <1>4, <1>5, <1>6, <1>7
      DEF Next, Startup, Reload, Renewal

(* A config that validate rejects is never put live by startup or by the   *)
(* poller (server.rs:112-113, :132-133, :297-301).                         *)
THEOREM OnlyRenewerSkipsValidate == Spec => PollerValidates
  <1>1. Init => Candidates
    BY DEF Init, Candidates
  <1>2. Candidates /\ (StartPublish \/ ReloadStore) => app'.cls # "invalid"
    BY DEF Candidates, StartPublish, ReloadStore
  <1>3. Spec => []Candidates
    BY <1>1, CandidatesStep, PTL DEF Spec
  <1> QED BY <1>2, <1>3, PTL DEF Spec, PollerValidates

=============================================================================
