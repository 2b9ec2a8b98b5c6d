-------------------------- MODULE ChallengesProofs --------------------------
(***************************************************************************)
(* Theorems about Challenges, for any number of processes: the composition *)
(* implements CertProvision, and the CA finds every token that is being    *)
(* waited for.                                                             *)
(***************************************************************************)
EXTENDS Challenges, CertProvisionProofs

(* While an order is polled its tokens are there, and at startup so is the *)
(* server that answers for them.                                           *)
Waiting(p) ==
  pc[p] = "authorize" =>
    tokens[p] /\ (via[p] = "startup" => challengeServer[p] = "listening")

ServersInv == TypeOK /\ ServersTypeOK /\ \A p \in Procs : Waiting(p)

(* A step of the provisioning, with what the servers make of it ...        *)
Provisions(p) ==
  ServedProceeds(p) \/ ServedAuthorize(p) \/ OtherStep(p)

(* ... and a step of the servers alone.                                    *)
Serves(p) == ChallengeServerStops(p) \/ RedirectBinds(p) \/ Validates(p)

-----------------------------------------------------------------------------

LEMMA ProvisionsIsStep ==
  ASSUME NEW p \in Procs, Provisions(p)
  PROVE  ProcStep(p)
  BY DEF Provisions, ServedProceeds, ServedAuthorize, OtherStep, ServedChallenge,
         ProcStep, Proceeds

LEMMA ServedStep == [ServedNext]_servedVars => [Next]_vars
<1> SUFFICES ASSUME [ServedNext]_servedVars PROVE [Next]_vars
  OBVIOUS
<1>1. ASSUME NEW p \in Procs, Provisions(p)  PROVE Next
  BY <1>1, ProvisionsIsStep DEF Next, ProcStep
<1>2. ASSUME NEW p \in Procs, Serves(p)  PROVE UNCHANGED vars
  BY <1>2 DEF Serves, ChallengeServerStops, RedirectBinds, Validates
<1>3. CASE PortChanges
  BY <1>3 DEF PortChanges
<1>4. CASE UNCHANGED servedVars
  BY <1>4 DEF servedVars
<1> QED  BY <1>1, <1>2, <1>3, <1>4 DEF ServedNext, Provisions, Serves, Next

(* The servers add no step to the provisioning: what holds of              *)
(* CertProvision holds here (acme.rs with server.rs:305-345).              *)
THEOREM ServedImplements == ServedSpec => Spec
<1>1. ServedInit => Init
  BY DEF ServedInit
<1> QED  BY <1>1, ServedStep, PTL DEF ServedSpec, Spec

-----------------------------------------------------------------------------

LEMMA InitServers == ServedInit => ServersInv
<1> SUFFICES ASSUME ServedInit PROVE ServersInv
  OBVIOUS
<1>1. TypeOK /\ \A p \in Procs : live[p] = 0 /\ pc[p] = "down"
  BY InitInv DEF ServedInit, Inv, Init
<1>2. \A p \in Procs : ~(live[p] > 0)
  BY <1>1 DEF TypeOK
<1>3. ServersTypeOK
  BY <1>1, <1>2 DEF ServedInit, ServersTypeOK
<1> QED  BY <1>1, <1>3 DEF ServersInv, Waiting

(* The servers of the other processes stay as they are. *)
LEMMA ServersFrame ==
  ASSUME ServersInv, NEW p \in Procs, Provisions(p) \/ Serves(p), NEW q \in Procs \ {p}
  PROVE  /\ challengeServer'[q] = challengeServer[q] /\ redirect'[q] = redirect[q]
         /\ order'[q] = order[q]
  BY DEF ServersInv, ServersTypeOK, Provisions, Serves, ServedProceeds, ServedChallenge,
         ServedAuthorize, OtherStep, ChallengeServerStops, RedirectBinds, Validates,
         Follow, TellServer, SetServer, SpawnRedirect, KeepOrder

LEMMA ProvisionsServers ==
  ASSUME ServersInv, TypeOK', NEW p \in Procs, Provisions(p)
  PROVE  ServersInv'
<1>1. /\ TypeOK /\ pc \in [Procs -> Step] /\ live[p] \in Nat /\ live'[p] \in Nat
      /\ ServersTypeOK /\ Waiting(p)
  BY DEF ServersInv, TypeOK, Pair
<1>2. \A q \in Procs \ {p} :
        /\ pc'[q] = pc[q] /\ via'[q] = via[q] /\ tokens'[q] = tokens[q] /\ live'[q] = live[q]
        /\ challengeServer'[q] = challengeServer[q] /\ redirect'[q] = redirect[q]
        /\ order'[q] = order[q]
  BY <1>1, ProvisionsIsStep, ProcFrame, ServersFrame
<1>3. CASE ServedChallenge(p)
  <2>1. /\ pc[p] = "challenge" /\ pc'[p] \in {"authorize", "unlock"}
        /\ UNCHANGED <<via, live, redirect, portTaken>>
        /\ pc'[p] = "authorize" => tokens'[p]
    BY <1>1, <1>3 DEF ServedChallenge, Challenge, Fail, GoTo, TypeOK
  <2>2. order[p] = "none"
    BY <1>1, <2>1 DEF ServersTypeOK
  <2>3. /\ challengeServer' \in [Procs -> {"none", "listening", "stopping"}]
        /\ order' \in [Procs -> {"none", "pending", "valid", "invalid"}]
        /\ order'[p] # "none" <=> pc'[p] = "authorize"
        /\ pc'[p] = "authorize" /\ via'[p] = "startup" => challengeServer'[p] = "listening"
    BY <1>1, <1>3, <2>1, <2>2 DEF ServedChallenge, SetServer, ServersTypeOK
  <2> QED  BY <1>1, <1>2, <2>1, <2>3 DEF ServersInv, ServersTypeOK, Waiting
<1>4. CASE Follow(p) /\ ~ServedChallenge(p)
  <2>1. /\ challengeServer' \in [Procs -> {"none", "listening", "stopping"}]
        /\ redirect' \in [Procs -> {"none", "starting", "serving", "failed"}]
        /\ order' \in [Procs -> {"none", "pending", "valid", "invalid"}]
        /\ UNCHANGED portTaken
    BY <1>1, <1>4 DEF Follow, TellServer, SetServer, SpawnRedirect, KeepOrder, ServersTypeOK
  <2>2. pc'[p] # "authorize"
    BY <1>1, <1>4, GivesUpProperties
      DEF Provisions, ServedProceeds, ServedAuthorize, OtherStep, Authorize, Deadline, FileStep,
          Start, RenewalTick, Download, Die, Check, TakeLock, WriteCert, WriteKey, RenameCert,
          RenameKey, WriteStamp, Succeed, Unlock, Sweep, Load, Fail, GoTo
  <2>3. order'[p] = "none"
    BY <1>1, <1>4, <2>2 DEF Follow, KeepOrder, ServersTypeOK
  <2>4. redirect'[p] # "none" <=> live'[p] > 0
    <3>1. /\ live[p] > 0 <=> (pc[p] # "down" /\ via[p] = "renewal")
          /\ live'[p] > 0 <=> (pc'[p] # "down" /\ via'[p] = "renewal")
          /\ redirect[p] # "none" <=> live[p] > 0
      BY <1>1 DEF TypeOK, ServersTypeOK
    <3>2. redirect'[p] = CASE pc'[p] = "down" -> "none"
                           [] pc'[p] # "down" /\ live[p] = 0 /\ live'[p] > 0 -> "starting"
                           [] OTHER -> redirect[p]
      BY <1>1, <1>4 DEF Follow, SpawnRedirect, ServersTypeOK
    <3>3. pc[p] # "down" /\ via[p] = "renewal" /\ pc'[p] # "down" => via'[p] = "renewal"
      <4>1. CASE Start(p) \/ Die(p)
        BY <1>1, <4>1 DEF Start, Die, GoTo
      <4>2. CASE Load(p)
        BY <1>1, <4>2 DEF Load, TypeOK
      <4>3. CASE ~(Start(p) \/ Die(p) \/ Load(p))
        BY <4>3 DEF Provisions, ServedProceeds, ServedChallenge, ServedAuthorize, OtherStep,
             Challenge, Authorize, Deadline, FileStep, RenewalTick, Download, Check, TakeLock,
             WriteCert, WriteKey, RenameCert, RenameKey, WriteStamp, Succeed, Unlock, Sweep
      <4> QED  BY <4>1, <4>2, <4>3
    <3> QED  BY <1>1, <3>1, <3>2, <3>3
  <2> QED  BY <1>1, <1>2, <2>1, <2>2, <2>3, <2>4 DEF ServersInv, ServersTypeOK, Waiting
<1> QED  BY <1>3, <1>4 DEF Provisions, ServedProceeds, ServedAuthorize, OtherStep

LEMMA ServesServers ==
  ASSUME ServersInv, TypeOK', NEW p \in Procs, Serves(p)
  PROVE  ServersInv'
<1>1. UNCHANGED vars /\ ServersTypeOK /\ \A q \in Procs : Waiting(q)
  BY DEF ServersInv, Serves, ChallengeServerStops, RedirectBinds, Validates
<1>2. UNCHANGED <<pc, via, tokens, live>>
  BY <1>1 DEF vars, procs
<1>3. CASE ChallengeServerStops(p)
  BY <1>1, <1>2, <1>3 DEF ChallengeServerStops, SetServer, ServersInv, ServersTypeOK, Waiting
<1>4. CASE RedirectBinds(p)
  BY <1>1, <1>2, <1>4 DEF RedirectBinds, ServersInv, ServersTypeOK, Waiting
<1>5. CASE Validates(p)
  BY <1>1, <1>2, <1>5 DEF Validates, ServersInv, ServersTypeOK, Waiting
<1> QED  BY <1>3, <1>4, <1>5 DEF Serves

LEMMA NextServers == ServersInv /\ [ServedNext]_servedVars => ServersInv'
<1> SUFFICES ASSUME ServersInv, [ServedNext]_servedVars PROVE ServersInv'
  OBVIOUS
<1>1. TypeOK'
  BY ServedStep, TypeNext DEF ServersInv
<1>2. CASE UNCHANGED servedVars
  BY <1>1, <1>2 DEF servedVars, vars, procs, servers, ServersInv, ServersTypeOK, Waiting
<1>3. CASE SixtyDaysPass /\ UNCHANGED servers
  BY <1>1, <1>3 DEF SixtyDaysPass, procs, servers, ServersInv, ServersTypeOK, Waiting
<1>4. CASE PortChanges
  BY <1>1, <1>4 DEF PortChanges, vars, procs, ServersInv, ServersTypeOK, Waiting
<1> QED  BY <1>1, <1>2, <1>3, <1>4, ProvisionsServers, ServesServers
           DEF ServedNext, Provisions, Serves

LEMMA SpecServers == ServedSpec => []ServersInv
  BY InitServers, NextServers, PTL DEF ServedSpec

(* An order turns invalid only under a renewal whose process has no        *)
(* redirect server, whatever other processes and programs do with the port *)
(* (acme.rs:133-149, :308-321; server.rs:311-316).                         *)
THEOREM FetchCorrect == ServedSpec => FetchFindsToken
<1>1. ASSUME ServersInv, [ServedNext]_servedVars, NEW p \in Procs,
             order'[p] = "invalid", order[p] # "invalid"
      PROVE  via[p] = "renewal" /\ redirect[p] # "serving"
  <2>1. PICK q \in Procs : Provisions(q) \/ Serves(q)
    BY <1>1 DEF ServedNext, servedVars, servers, PortChanges, Provisions, Serves
  <2>2. q = p
    BY <1>1, <2>1, ServersFrame
  <2>3. order \in [Procs -> {"none", "pending", "valid", "invalid"}]
    BY <1>1 DEF ServersInv, ServersTypeOK
  <2>4. ~Provisions(p)
    BY <1>1, <2>3 DEF Provisions, ServedProceeds, ServedChallenge, ServedAuthorize, OtherStep,
                      Follow, KeepOrder
  <2>5. Validates(p)
    BY <1>1, <2>1, <2>2, <2>4 DEF Serves, ChallengeServerStops, RedirectBinds
  <2>6. ~TokenAnswered(p) /\ order[p] = "pending"
    BY <1>1, <2>3, <2>5 DEF Validates
  <2>7. pc[p] = "authorize" /\ Waiting(p) /\ via[p] \in {"startup", "renewal"}
    BY <1>1, <2>6 DEF ServersInv, ServersTypeOK, TypeOK
  <2> QED  BY <2>6, <2>7 DEF TokenAnswered, Waiting
<1>2. ServersInv /\ [ServedNext]_servedVars =>
        [\A p \in Procs : order'[p] = "invalid" /\ order[p] # "invalid" =>
           via[p] = "renewal" /\ redirect[p] # "serving"]_servedVars
  BY <1>1
<1> QED  BY <1>2, SpecServers, PTL DEF ServedSpec, FetchFindsToken

=============================================================================
