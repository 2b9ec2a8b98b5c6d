----------------------------- MODULE Challenges -----------------------------
(***************************************************************************)
(* CertProvision together with the servers that answer the CA's HTTP-01    *)
(* requests: the challenge server that a startup provisioning runs for     *)
(* itself (acme.rs), and the HTTP redirect server that answers from the    *)
(* store which renewals fill (server.rs).  Both bind http_challenge_listen *)
(* - one after the other, if no other program has it.                      *)
(***************************************************************************)
EXTENDS CertProvision

VARIABLES
  challengeServer,  \* none, listening, or stopping once told to
  redirect,         \* none, starting, serving, or failed to bind
  order,            \* at the CA: none, pending, valid, invalid
  portTaken         \* another program has the port (external)

servers    == <<challengeServer, redirect, order, portTaken>>
servedVars == <<vars, servers>>

ServersTypeOK ==
  /\ challengeServer \in [Procs -> {"none", "listening", "stopping"}]
  /\ redirect \in [Procs -> {"none", "starting", "serving", "failed"}]
  /\ order \in [Procs -> {"none", "pending", "valid", "invalid"}]
  /\ portTaken \in BOOLEAN
  /\ \A p \in Procs : redirect[p] # "none" <=> live[p] > 0
  /\ \A p \in Procs : order[p] # "none" <=> pc[p] = "authorize"

ServedInit ==
  /\ Init
  /\ challengeServer = [p \in Procs |-> "none"]
  /\ redirect = [p \in Procs |-> "none"]
  /\ order = [p \in Procs |-> "none"]
  /\ portTaken \in BOOLEAN

-----------------------------------------------------------------------------

PortFree ==
  /\ ~portTaken
  /\ \A p \in Procs : challengeServer[p] = "none" /\ redirect[p] # "serving"

SetServer(p, s) == challengeServer' = [challengeServer EXCEPT ![p] = s]

\* Mutant: the sender lives until provision_inner returns.
TellServerLate(p) ==
  SetServer(p, CASE pc'[p] = "down" -> "none"
                 [] pc'[p] = "unlock" /\ challengeServer[p] = "listening" -> "stopping"
                 [] OTHER -> challengeServer[p])

(* The shutdown sender is used, or dropped with provision_inner, when the  *)
(* order is settled; a process that ends takes the server with it.         *)
TellServer(p) ==
  SetServer(p, CASE pc'[p] = "down" -> "none"
                 [] pc'[p] \notin {"down", "authorize"} /\ challengeServer[p] = "listening" -> "stopping"
                 [] OTHER -> challengeServer[p])

(* run_with_listener_hot spawns the redirect server once there is a live   *)
(* state; it goes with the process.                                        *)
SpawnRedirect(p) ==
  redirect' = [redirect EXCEPT ![p] =
    CASE pc'[p] = "down" -> "none"
      [] pc'[p] # "down" /\ live[p] = 0 /\ live'[p] > 0 -> "starting"
      [] OTHER -> @]

(* An order matters while provision polls it. *)
KeepOrder(p) ==
  order' = [order EXCEPT ![p] = IF pc'[p] = "authorize" THEN @ ELSE "none"]

Follow(p) == TellServer(p) /\ SpawnRedirect(p) /\ KeepOrder(p) /\ UNCHANGED portTaken

\* Mutant: whether the challenge server could bind is not looked at.
ServedChallengeUnbound(p) ==
  /\ Challenge(p)
  /\ pc'[p] = "authorize"
  /\ SetServer(p, IF via[p] = "startup" /\ PortFree THEN "listening" ELSE "none")
  /\ order' = [order EXCEPT ![p] = "pending"]
  /\ UNCHANGED <<redirect, portTaken>>

(* Startup binds its challenge server, a renewal has its tokens in the     *)
(* store; then the CA is told, whose refusal stops that server again.      *)
ServedChallenge(p) ==
  /\ Challenge(p)
  /\ \/ /\ pc'[p] = "authorize"
        /\ via[p] = "startup" => PortFree
        /\ SetServer(p, IF via[p] = "startup" THEN "listening" ELSE challengeServer[p])
        /\ order' = [order EXCEPT ![p] = "pending"]
     \/ /\ pc'[p] # "authorize"
        /\ \/ via[p] = "startup" /\ PortFree /\ SetServer(p, "stopping")
           \/ UNCHANGED challengeServer
        /\ UNCHANGED order
  /\ UNCHANGED <<redirect, portTaken>>

(* The poll sees the order ready only after the CA found every token.      *)
ServedAuthorize(p) ==
  /\ Authorize(p) /\ Follow(p)
  /\ pc'[p] = "download" => order[p] = "valid"

OtherStep(p) ==
  /\ Start(p) \/ RenewalTick(p) \/ Download(p) \/ Die(p)
  /\ Follow(p)

(* run_challenge_server_with_listener breaks and closes its listener.      *)
ChallengeServerStops(p) ==
  /\ challengeServer[p] = "stopping"
  /\ SetServer(p, "none")
  /\ UNCHANGED <<vars, redirect, order, portTaken>>

(* run_http_redirect_server binds, once, or logs and returns.              *)
RedirectBinds(p) ==
  /\ redirect[p] = "starting"
  /\ redirect' = [redirect EXCEPT ![p] = IF PortFree THEN "serving" ELSE "failed"]
  /\ UNCHANGED <<vars, challengeServer, order, portTaken>>

(* What /.well-known/acme-challenge/<token> returns: the key authorization *)
(* from the map of the challenge server or from the store; else 404, a     *)
(* redirect, whatever has the port, or no connection.                      *)
TokenAnswered(p) ==
  /\ tokens[p]
  /\ IF via[p] = "startup" THEN challengeServer[p] = "listening"
                           ELSE redirect[p] = "serving"

(* The CA fetches the tokens of a pending order (external).                *)
Validates(p) ==
  /\ order[p] = "pending"
  /\ order' = [order EXCEPT ![p] = IF TokenAnswered(p) THEN "valid" ELSE "invalid"]
  /\ UNCHANGED <<vars, challengeServer, redirect, portTaken>>

(* Another program takes the port, or gives it back (external).            *)
PortChanges ==
  /\ portTaken \/ PortFree
  /\ portTaken' = ~portTaken
  /\ UNCHANGED <<vars, challengeServer, redirect, order>>

(* As Proceeds. *)
ServedProceeds(p) ==
  \/ ServedChallenge(p)
  \/ (Deadline(p) \/ FileStep(p)) /\ Follow(p)

ServedNext ==
  \/ SixtyDaysPass /\ UNCHANGED servers
  \/ PortChanges
  \/ \E p \in Procs :
       \/ ServedProceeds(p) \/ ServedAuthorize(p) \/ OtherStep(p)
       \/ ChallengeServerStops(p) \/ RedirectBinds(p) \/ Validates(p)

ServedSpec == ServedInit /\ [][ServedNext]_servedVars

(* As FairSpec; and the runtime runs the two servers' tasks.               *)
ServedFairSpec ==
  /\ ServedSpec
  /\ \A p \in Procs : /\ WF_servedVars(ServedProceeds(p))
                      /\ WF_servedVars(ChallengeServerStops(p))
                      /\ WF_servedVars(RedirectBinds(p))

-----------------------------------------------------------------------------

(* When the CA is told to look, the token is there to be found: an order   *)
(* turns invalid only under a renewal whose process has no redirect server *)
(* (acme.rs:133-149, :308-321; server.rs:311-316).                         *)
FetchFindsToken ==
  [][\A p \in Procs : order'[p] = "invalid" /\ order[p] # "invalid" =>
       via[p] = "renewal" /\ redirect[p] # "serving"]_servedVars

(* The challenge server of startup gives its port back, however long the   *)
(* certificate then takes (acme.rs:174, :136, :457-502).                   *)
ChallengeServerEnds ==
  \A p \in Procs : challengeServer[p] # "none" ~> challengeServer[p] = "none"

=============================================================================
