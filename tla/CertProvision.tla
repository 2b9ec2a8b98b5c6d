--------------------------- MODULE CertProvision ---------------------------
(***************************************************************************)
(* acme.rs: how a certificate pair gets into cache_dir.  Processes that    *)
(* share the directory provision at startup (provision) and renew while    *)
(* they serve (provision_with_store), under the .renewing lockfile, with   *)
(* temporary files and two renames; any file operation but a removal may   *)
(* fail and a process may die between any two.                             *)
(*                                                                         *)
(* A pair is the serial number of the order it came from; a file holds the *)
(* serial of the pair its content belongs to, 0 if it does not exist.      *)
(***************************************************************************)
EXTENDS Naturals

CONSTANTS
  Procs,
  MaxSerial   \* bound on the certificates ever downloaded

ASSUME CertProvisionAssumption == MaxSerial \in Nat

VARIABLES
  cert, key, certTmp, keyTmp,  \* cert.pem, key.pem and their .tmp
  lock,                        \* .renewing exists
  stamp,                       \* issued_at, as the serial it was written for
  aged,                        \* issued_at is missing or 60 days old
  serial,                      \* certificates downloaded so far
  pc, via,                     \* per process: its step, and which provision
  mine,                        \* the pair it holds in memory
  tokens,                      \* challenge tokens are being served
  live,                        \* the pair its acceptor serves
  died,                        \* history: a process died while provisioning
  torn                         \* history: a rename failed or never came

files == <<cert, key, certTmp, keyTmp, lock, stamp, aged>>
procs == <<pc, via, mine, tokens, live>>
vars  == <<files, serial, procs, died, torn>>

Step == {"down", "check", "lock", "challenge", "authorize", "download",
         "writeCert", "writeKey", "renameCert", "renameKey", "stamp", "done",
         "load", "unlock", "sweep", "serving"}

(* The lock is held, or is about to be taken or given back. *)
Provisioning == Step \ {"down", "check", "load", "serving"}

Pair == 0 .. serial

PairExists == cert > 0 /\ key > 0

(* build_tls_state refuses a certificate and a key that do not match.      *)
PairLoads == PairExists /\ cert = key

(* Types; and a process is past startup, in or out of a renewal, exactly   *)
(* when its acceptor serves a pair (server.rs:123-139).                    *)
TypeOK ==
  /\ {cert, key, certTmp, keyTmp, stamp} \subseteq Pair
  /\ lock \in BOOLEAN /\ aged \in BOOLEAN
  /\ serial \in Nat
  /\ pc \in [Procs -> Step]
  /\ via \in [Procs -> {"startup", "renewal"}]
  /\ mine \in [Procs -> Pair]
  /\ tokens \in [Procs -> BOOLEAN]
  /\ live \in [Procs -> Pair]
  /\ \A p \in Procs : live[p] > 0 <=> (pc[p] # "down" /\ via[p] = "renewal")
  /\ died \in BOOLEAN /\ torn \in BOOLEAN

Init ==
  /\ cert = 0 /\ key = 0 /\ certTmp = 0 /\ keyTmp = 0
  /\ lock = FALSE /\ stamp = 0 /\ aged = TRUE
  /\ serial = 0
  /\ pc = [p \in Procs |-> "down"]
  /\ via = [p \in Procs |-> "startup"]
  /\ mine = [p \in Procs |-> 0]
  /\ tokens = [p \in Procs |-> FALSE]
  /\ live = [p \in Procs |-> 0]
  /\ died = FALSE /\ torn = FALSE

-----------------------------------------------------------------------------

GoTo(p, step) == pc' = [pc EXCEPT ![p] = step]

(* Where provision leaves its caller on an error: startup exits with it,   *)
(* the renewal loop keeps the certificate it serves.                       *)
GivesUp(p) == IF via[p] = "startup" THEN "down" ELSE "serving"

\* Mutant: a missing pair is left to the renewal loop.
StartUnprovisioned(p) ==
  /\ pc[p] = "down"
  /\ PairLoads \/ ~PairExists
  /\ GoTo(p, "serving")
  /\ via' = [via EXCEPT ![p] = "renewal"]
  /\ live' = [live EXCEPT ![p] = IF PairLoads THEN cert ELSE 0]
  /\ UNCHANGED <<files, serial, mine, tokens, died, torn>>

(* run_with_listener_hot: use the pair, provision one if a file is         *)
(* missing, or exit because the two do not match (the guard).              *)
Start(p) ==
  /\ pc[p] = "down"
  /\ PairLoads \/ ~PairExists
  /\ IF PairLoads
     THEN /\ GoTo(p, "serving")
          /\ via' = [via EXCEPT ![p] = "renewal"]
          /\ live' = [live EXCEPT ![p] = cert]
     ELSE /\ GoTo(p, "check")
          /\ via' = [via EXCEPT ![p] = "startup"]
          /\ UNCHANGED live
  /\ UNCHANGED <<files, serial, mine, tokens, died, torn>>

(* renewal_loop's daily tick, when cert_needs_renewal: it looks at         *)
(* cert.pem and issued_at, not at key.pem.                                 *)
RenewalTick(p) ==
  /\ pc[p] = "serving"
  /\ cert = 0 \/ aged
  /\ GoTo(p, "check")
  /\ UNCHANGED <<files, serial, via, mine, tokens, live, died, torn>>

SixtyDaysPass ==
  /\ ~aged
  /\ aged' = TRUE
  /\ UNCHANGED <<cert, key, certTmp, keyTmp, lock, stamp, serial, procs, died, torn>>

(* The lockfile is looked for, and an error returned if it is there ...    *)
Check(p) ==
  /\ pc[p] = "check"
  /\ GoTo(p, IF lock THEN GivesUp(p) ELSE "lock")
  /\ UNCHANGED <<files, serial, via, mine, tokens, live, died, torn>>

(* ... then it is created, which fails for I/O only.                       *)
TakeLock(p) ==
  /\ pc[p] = "lock"
  /\ \/ lock' = TRUE /\ GoTo(p, "challenge")
     \/ UNCHANGED lock /\ GoTo(p, GivesUp(p))
  /\ UNCHANGED <<cert, key, certTmp, keyTmp, stamp, aged, serial,
                 via, mine, tokens, live, died, torn>>

-----------------------------------------------------------------------------
(* provision_inner and provision_inner_with_store.                         *)

\* Mutant: an error returns straight to the caller.
FailUnswept(p) ==
  /\ GoTo(p, GivesUp(p))
  /\ UNCHANGED tokens

(* An error from the inner function: it drops the challenge server of      *)
(* startup; the store of a renewal is cleared at the end.                  *)
Fail(p) ==
  /\ GoTo(p, "unlock")
  /\ tokens' = [tokens EXCEPT ![p] = @ /\ via[p] = "renewal"]

(* Account, order, and the challenge tokens made available; the CA may     *)
(* refuse to hear of them when a renewal has them in its store already.    *)
Challenge(p) ==
  /\ pc[p] = "challenge"
  /\ \/ tokens' = [tokens EXCEPT ![p] = TRUE] /\ GoTo(p, "authorize")
     \/ /\ via[p] = "renewal"
        /\ tokens' = [tokens EXCEPT ![p] = TRUE]
        /\ GoTo(p, "unlock")
     \/ Fail(p)
  /\ UNCHANGED <<files, serial, via, mine, live, died, torn>>

(* The order becomes ready or invalid.  Startup stops its challenge server *)
(* here, a renewal leaves its tokens in the store.                         *)
Authorize(p) ==
  /\ pc[p] = "authorize"
  /\ \/ /\ GoTo(p, "download")
        /\ tokens' = [tokens EXCEPT ![p] = @ /\ via[p] = "renewal"]
     \/ Fail(p)
  /\ UNCHANGED <<files, serial, via, mine, live, died, torn>>

(* Key, CSR and finalize; the chain is there at some poll, or an error.    *)
Download(p) ==
  /\ pc[p] = "download"
  /\ \/ /\ serial < MaxSerial
        /\ serial' = serial + 1
        /\ mine' = [mine EXCEPT ![p] = serial']
        /\ GoTo(p, "writeCert")
        /\ UNCHANGED tokens
     \/ Fail(p) /\ UNCHANGED <<serial, mine>>
  /\ UNCHANGED <<files, via, live, died, torn>>

\* Mutant: the download of a renewal polls without a deadline too.
DeadlineOfOrderOnly(p) ==
  /\ pc[p] = "authorize"
  /\ Fail(p)
  /\ UNCHANGED <<files, serial, via, mine, live, died, torn>>

(* 120 s for the order to become ready; 60 s for the certificate, in a     *)
(* renewal only: startup polls for it without end.                         *)
Deadline(p) ==
  /\ pc[p] = "authorize" \/ (pc[p] = "download" /\ via[p] = "renewal")
  /\ Fail(p)
  /\ UNCHANGED <<files, serial, via, mine, live, died, torn>>

WriteCert(p) ==
  /\ pc[p] = "writeCert"
  /\ \/ certTmp' = mine[p] /\ GoTo(p, "writeKey") /\ UNCHANGED tokens
     \/ UNCHANGED certTmp /\ Fail(p)
  /\ UNCHANGED <<cert, key, keyTmp, lock, stamp, aged, serial,
                 via, mine, live, died, torn>>

\* Mutant: issued_at is written together with the temporary files.
WriteKeyAndStamp(p) ==
  /\ pc[p] = "writeKey"
  /\ keyTmp' = mine[p]
  /\ stamp' = mine[p] /\ aged' = FALSE
  /\ GoTo(p, "renameCert")
  /\ UNCHANGED <<cert, key, certTmp, lock, serial,
                 via, mine, tokens, live, died, torn>>

WriteKey(p) ==
  /\ pc[p] = "writeKey"
  /\ \/ keyTmp' = mine[p] /\ GoTo(p, "renameCert") /\ UNCHANGED tokens
     \/ UNCHANGED keyTmp /\ Fail(p)
  /\ UNCHANGED <<cert, key, certTmp, lock, stamp, aged, serial,
                 via, mine, live, died, torn>>

RenameCert(p) ==
  /\ pc[p] = "renameCert"
  /\ \/ /\ certTmp > 0
        /\ cert' = certTmp /\ certTmp' = 0
        /\ GoTo(p, "renameKey")
        /\ UNCHANGED tokens
     \/ UNCHANGED <<cert, certTmp>> /\ Fail(p)
  /\ UNCHANGED <<key, keyTmp, lock, stamp, aged, serial,
                 via, mine, live, died, torn>>

\* Mutant: the result of the second rename is ignored.
RenameKeyIgnored(p) ==
  /\ pc[p] = "renameKey"
  /\ \/ key' = keyTmp /\ keyTmp' = 0
     \/ UNCHANGED <<key, keyTmp>>
  /\ GoTo(p, "stamp")
  /\ UNCHANGED <<cert, certTmp, lock, stamp, aged, serial,
                 via, mine, tokens, live, died, torn>>

RenameKey(p) ==
  /\ pc[p] = "renameKey"
  /\ \/ /\ keyTmp > 0
        /\ key' = keyTmp /\ keyTmp' = 0
        /\ GoTo(p, "stamp")
        /\ UNCHANGED <<tokens, torn>>
     \/ /\ Fail(p)
        /\ torn' = TRUE
        /\ UNCHANGED <<key, keyTmp>>
  /\ UNCHANGED <<cert, certTmp, lock, stamp, aged, serial,
                 via, mine, live, died>>

(* issued_at; that it cannot be written is an error of a renewal and       *)
(* ignored at startup.                                                     *)
WriteStamp(p) ==
  /\ pc[p] = "stamp"
  /\ \/ /\ stamp' = mine[p] /\ aged' = FALSE
        /\ GoTo(p, "done")
        /\ UNCHANGED tokens
     \/ /\ UNCHANGED <<stamp, aged>>
        /\ IF via[p] = "startup" THEN GoTo(p, "done") /\ UNCHANGED tokens
                                 ELSE Fail(p)
  /\ UNCHANGED <<cert, key, certTmp, keyTmp, lock, serial,
                 via, mine, live, died, torn>>

-----------------------------------------------------------------------------
(* provision and provision_with_store, after the inner function.           *)

Succeed(p) ==
  /\ pc[p] = "done"
  /\ lock' = FALSE
  /\ tokens' = [tokens EXCEPT ![p] = FALSE]
  /\ died' = FALSE
  /\ torn' = FALSE
  /\ GoTo(p, "load")
  /\ UNCHANGED <<cert, key, certTmp, keyTmp, stamp, aged, serial,
                 via, mine, live>>

Unlock(p) ==
  /\ pc[p] = "unlock"
  /\ lock' = FALSE
  /\ GoTo(p, "sweep")
  /\ UNCHANGED <<cert, key, certTmp, keyTmp, stamp, aged, serial,
                 via, mine, tokens, live, died, torn>>

(* The temporary files are removed and the store cleared. *)
Sweep(p) ==
  /\ pc[p] = "sweep"
  /\ certTmp' = 0 /\ keyTmp' = 0
  /\ tokens' = [tokens EXCEPT ![p] = FALSE]
  /\ mine' = [mine EXCEPT ![p] = 0]
  /\ died' = FALSE
  /\ GoTo(p, GivesUp(p))
  /\ UNCHANGED <<cert, key, lock, stamp, aged, serial, via, live, torn>>

(* build_state after a provisioning: what loads goes live; what does not   *)
(* ends startup, and leaves a renewal with the certificate it had.         *)
Load(p) ==
  /\ pc[p] = "load"
  /\ IF PairLoads
     THEN /\ GoTo(p, "serving")
          /\ live' = [live EXCEPT ![p] = cert]
          /\ via' = [via EXCEPT ![p] = "renewal"]
     ELSE /\ GoTo(p, GivesUp(p))
          /\ UNCHANGED <<live, via>>
  /\ mine' = [mine EXCEPT ![p] = 0]
  /\ UNCHANGED <<files, serial, tokens, died, torn>>

(* The process is killed, or shut down: the renewal task is dropped with   *)
(* the runtime at whatever await it is in.  Only its memory is lost.       *)
Die(p) ==
  /\ pc[p] # "down"
  /\ GoTo(p, "down")
  /\ died' = (died \/ pc[p] \in Provisioning)
  /\ torn' = (torn \/ pc[p] = "renameKey")
  /\ mine' = [mine EXCEPT ![p] = 0]
  /\ tokens' = [tokens EXCEPT ![p] = FALSE]
  /\ live' = [live EXCEPT ![p] = 0]
  /\ via' = [via EXCEPT ![p] = "startup"]
  /\ UNCHANGED <<files, serial>>

(* The steps that concern the directory only. *)
FileStep(p) ==
  \/ Check(p) \/ TakeLock(p)
  \/ WriteCert(p) \/ WriteKey(p) \/ RenameCert(p) \/ RenameKey(p)
  \/ WriteStamp(p) \/ Succeed(p) \/ Unlock(p) \/ Sweep(p) \/ Load(p)

(* The steps that end by themselves, given an ACME server that answers     *)
(* every call (with "pending" if it likes).                                *)
Proceeds(p) == Challenge(p) \/ Deadline(p) \/ FileStep(p)

Next ==
  \/ SixtyDaysPass
  \/ \E p \in Procs : \/ Start(p) \/ RenewalTick(p) \/ Authorize(p) \/ Download(p)
                      \/ Proceeds(p) \/ Die(p)

Spec == Init /\ [][Next]_vars

FairSpec == Spec /\ \A p \in Procs : WF_vars(Proceeds(p))

-----------------------------------------------------------------------------
(* One process on the directory.                                           *)

(* When provision returns Ok, cert.pem and key.pem are the new pair, and   *)
(* the state rebuilt from them will have an acceptor (acme.rs:204-231).    *)
OkMeansPair ==
  \A p \in Procs : pc[p] \in {"done", "load"} => PairLoads /\ cert = mine[p]

(* Every error path gives back what it took: outside a provisioning there  *)
(* is no lockfile, no temporary file and no challenge token unless a       *)
(* process died in the middle of one (acme.rs:70-77, :255-263).            *)
LeftoversOnlyByDeath ==
  (died \/ \E p \in Procs : pc[p] \in Provisioning)
    \/ (~lock /\ certTmp = 0 /\ keyTmp = 0 /\ \A p \in Procs : ~tokens[p])

(* The pair on disk can be torn only by what happens between the two       *)
(* renames, and then it is the new certificate with the old key            *)
(* (acme.rs:215-218, :379-382).                                            *)
TornOnlyBetweenRenames ==
  cert # key => /\ cert > key
                /\ torn \/ \E p \in Procs : pc[p] = "renameKey"

(* issued_at never makes the certificate on disk look younger than it is,  *)
(* so a renewal is never late (acme.rs:29-44, written last).               *)
StampNeverFresher == stamp <= cert

(* A renewal comes to an end: the loop is not stuck in it (acme.rs:323,    *)
(* :358).  A death ends it too.                                            *)
RenewalEnds ==
  \A p \in Procs :
    (via[p] = "renewal" /\ pc[p] \in Provisioning) ~> (pc[p] \notin Provisioning)

-----------------------------------------------------------------------------
(* What the documents say, and the code does not do.                       *)

(* docs/superpowers/specs/2026-04-04-m4-tls-http2-design.md:119-126 - the  *)
(* two-phase write keeps a crash from leaving a mismatched pair, on which  *)
(* the next startup fails.                                                 *)
PairNeverTorn ==
  (\A p \in Procs : pc[p] = "down") => (PairExists => PairLoads)

(* The same, :123 - the lockfile means that a process is renewing.         *)
LockMeansRenewing == lock => \E p \in Procs : pc[p] \in Provisioning

=============================================================================
