------------------------ MODULE CertProvisionProofs -------------------------
(***************************************************************************)
(* Theorems about CertProvision, for any number of processes on cache_dir: *)
(* types always, and what the files hold as long as the processes do not   *)
(* provision at the same time - with one process, always.                  *)
(***************************************************************************)
EXTENDS CertProvision, TLAPS

(* From the lockfile to the load of the new pair. *)
Busy == Provisioning \cup {"load"}

(* What .renewing is for; it does not ensure it, because it is looked for  *)
(* and created in two steps (acme.rs:60-65).                               *)
Alone == \A p, q \in Procs : pc[p] \in Busy /\ pc[q] \in Busy => p = q

(* The pair in memory is the last one issued, and the files are as far as  *)
(* the step of the process that writes them.                               *)
Written(p) ==
  /\ pc[p] \in {"writeCert", "writeKey", "renameCert", "renameKey", "stamp", "done", "load"}
       => mine[p] = serial /\ serial > 0
  /\ pc[p] \in {"writeKey", "renameCert"} => certTmp = serial
  /\ pc[p] \in {"renameCert", "renameKey"} => keyTmp = serial
  /\ pc[p] \in {"renameKey", "stamp", "done", "load"} => cert = serial /\ certTmp = 0
  /\ pc[p] \in {"stamp", "done", "load"} => key = serial /\ keyTmp = 0

WrittenInv == \A p \in Procs : Written(p)

(* The pair on disk only moves forward, certificate first, stamp last.     *)
OrderInv ==
  /\ key <= cert /\ stamp <= cert
  /\ cert # key => torn \/ \E p \in Procs : pc[p] = "renameKey"

Clean == ~lock /\ certTmp = 0 /\ keyTmp = 0

(* Who holds what is to be given back. *)
LeftInv ==
  /\ \A p \in Procs : tokens[p] => pc[p] \in Provisioning \ {"lock"}
  /\ \A p \in Procs : pc[p] \in {"lock", "sweep"} => ~lock
  /\ \A p \in Procs : pc[p] = "lock" => died \/ Clean
  /\ (\A p \in Procs : pc[p] \notin Provisioning) => died \/ Clean

Inv == TypeOK /\ WrittenInv /\ OrderInv /\ LeftInv

-----------------------------------------------------------------------------
(* Types.                                                                  *)

(* A step of one process changes the state of that process only. *)
ProcStep(p) ==
  \/ Start(p) \/ RenewalTick(p) \/ Authorize(p) \/ Download(p) \/ Proceeds(p) \/ Die(p)

LEMMA GivesUpProperties ==
  ASSUME TypeOK, NEW p \in Procs
  PROVE  /\ GivesUp(p) \in {"down", "serving"}
         /\ GivesUp(p) = "down" <=> via[p] = "startup"
  BY DEF TypeOK, GivesUp

LEMMA ProcFrame ==
  ASSUME TypeOK, NEW p \in Procs, ProcStep(p), NEW q \in Procs \ {p}
  PROVE  /\ pc'[q] = pc[q] /\ via'[q] = via[q] /\ mine'[q] = mine[q]
         /\ tokens'[q] = tokens[q] /\ live'[q] = live[q]
  BY DEF TypeOK, ProcStep, Start, RenewalTick, Authorize, Download, Proceeds, Die,
         Challenge, Deadline, FileStep, Check, TakeLock, WriteCert, WriteKey, RenameCert,
         RenameKey, WriteStamp, Succeed, Unlock, Sweep, Load, Fail, GoTo

LEMMA TypeNext == TypeOK /\ [Next]_vars => TypeOK'
<1> SUFFICES ASSUME TypeOK, [Next]_vars PROVE TypeOK'
  OBVIOUS
<1>1. CASE UNCHANGED vars
  BY <1>1 DEF vars, files, procs, TypeOK, Pair
<1>2. CASE SixtyDaysPass
  BY <1>2 DEF SixtyDaysPass, procs, TypeOK, Pair
<1>3. ASSUME NEW p \in Procs, ProcStep(p)  PROVE TypeOK'
  <2>1. serial' \in Nat /\ Pair \subseteq Pair'
    BY <1>3 DEF TypeOK, Pair, ProcStep, Start, RenewalTick, Authorize, Download, Proceeds,
        Die, Challenge, Deadline, FileStep, Check, TakeLock, WriteCert, WriteKey, RenameCert,
        RenameKey, WriteStamp, Succeed, Unlock, Sweep, Load
  <2>2. 0 \in Pair /\ cert \in Pair /\ serial' \in Pair' /\ GivesUp(p) \in Step
    BY <2>1, GivesUpProperties DEF TypeOK, Pair, Step
  <2>3. {cert, key, certTmp, keyTmp, stamp}' \subseteq Pair'
    BY <1>3, <2>1, <2>2
      DEF TypeOK, files, ProcStep, Start, RenewalTick, Authorize, Download, Proceeds, Die,
                Challenge, Deadline, FileStep, Check, TakeLock, WriteCert, WriteKey, RenameCert,
                RenameKey, WriteStamp, Succeed, Unlock, Sweep, Load
  <2>4. pc' \in [Procs -> Step] /\ via' \in [Procs -> {"startup", "renewal"}]
    BY <1>3, <2>2
      DEF TypeOK, Step, Fail, GoTo, ProcStep, Start, RenewalTick, Authorize, Download, Proceeds, Die,
                Challenge, Deadline, FileStep, Check, TakeLock, WriteCert, WriteKey, RenameCert,
                RenameKey, WriteStamp, Succeed, Unlock, Sweep, Load
  <2>5. mine' \in [Procs -> Pair'] /\ live' \in [Procs -> Pair']
    BY <1>3, <2>1, <2>2
      DEF TypeOK, ProcStep, Start, RenewalTick, Authorize, Download, Proceeds, Die,
                Challenge, Deadline, FileStep, Check, TakeLock, WriteCert, WriteKey, RenameCert,
                RenameKey, WriteStamp, Succeed, Unlock, Sweep, Load
  <2>6. lock' \in BOOLEAN /\ aged' \in BOOLEAN /\ died' \in BOOLEAN /\ torn' \in BOOLEAN
    BY <1>3
      DEF TypeOK, files, ProcStep, Start, RenewalTick, Authorize, Download, Proceeds, Die,
                Challenge, Deadline, FileStep, Check, TakeLock, WriteCert, WriteKey, RenameCert,
                RenameKey, WriteStamp, Succeed, Unlock, Sweep, Load
  <2>7. tokens' \in [Procs -> BOOLEAN]
    BY <1>3
      DEF TypeOK, Fail, ProcStep, Start, RenewalTick, Authorize, Download, Proceeds, Die,
                Challenge, Deadline, FileStep, Check, TakeLock, WriteCert, WriteKey, RenameCert,
                RenameKey, WriteStamp, Succeed, Unlock, Sweep, Load
  <2>8. live'[p] > 0 <=> (pc'[p] # "down" /\ via'[p] = "renewal")
    BY <1>3, GivesUpProperties
      DEF TypeOK, Pair, PairLoads, PairExists, Fail, GoTo, ProcStep, Start, RenewalTick, Authorize, Download, Proceeds, Die,
                Challenge, Deadline, FileStep, Check, TakeLock, WriteCert, WriteKey, RenameCert,
                RenameKey, WriteStamp, Succeed, Unlock, Sweep, Load
  <2>9. \A q \in Procs : live'[q] > 0 <=> (pc'[q] # "down" /\ via'[q] = "renewal")
    BY <1>3, <2>8, ProcFrame DEF TypeOK
  <2> QED  BY <2>1, <2>3, <2>4, <2>5, <2>6, <2>7, <2>9 DEF TypeOK
<1> QED  BY <1>1, <1>2, <1>3 DEF Next, ProcStep

LEMMA InitInv == Init => Inv
<1> SUFFICES ASSUME Init PROVE Inv
  OBVIOUS
<1>1. TypeOK
  <2>1. 0 \in Pair /\ serial \in Nat
    BY DEF Init, Pair
  <2>2. pc \in [Procs -> Step] /\ \A p \in Procs : pc[p] = "down" /\ live[p] = 0
    BY DEF Init, Step
  <2>3. {cert, key, certTmp, keyTmp, stamp} \subseteq Pair
    BY <2>1 DEF Init
  <2>4. mine \in [Procs -> Pair] /\ live \in [Procs -> Pair]
    BY <2>1 DEF Init
  <2>5. ASSUME NEW p \in Procs
        PROVE  live[p] > 0 <=> (pc[p] # "down" /\ via[p] = "renewal")
    <3>1. live[p] = 0 /\ pc[p] = "down" /\ ~(0 > 0)
      BY <2>2
    <3> QED  BY <3>1
  <2> QED  BY <2>1, <2>2, <2>3, <2>4, <2>5 DEF Init, TypeOK
<1>2. WrittenInv /\ OrderInv
  BY DEF Init, WrittenInv, Written, OrderInv
<1>3. LeftInv
  BY DEF Init, LeftInv, Clean
<1> QED  BY <1>1, <1>2, <1>3 DEF Inv

(* Types hold whatever the processes do (acme.rs, server.rs).              *)
THEOREM CertTypeCorrect == Spec => []TypeOK
<1>1. Init => TypeOK
  BY InitInv DEF Inv
<1> QED  BY <1>1, TypeNext, PTL DEF Spec

-----------------------------------------------------------------------------
(* One provisioning at a time.                                             *)

(* While one process is busy, the others do nothing to the files, and a    *)
(* process that is not does nothing to them either.                        *)
LEMMA OthersIdle ==
  ASSUME TypeOK, Alone, NEW p \in Procs, ProcStep(p), NEW q \in Procs \ {p}
  PROVE  \/ pc[q] \notin Busy /\ pc'[q] \notin Busy
         \/ UNCHANGED <<files, serial>>
<1>1. CASE pc[p] \in Busy
  BY <1>1, ProcFrame DEF Alone
<1>2. CASE pc[p] \notin Busy
  BY <1>2 DEF Busy, Provisioning, Step, ProcStep, Start, RenewalTick, Authorize, Download,
              Proceeds, Die, Challenge, Deadline, FileStep, Check, TakeLock, WriteCert,
              WriteKey, RenameCert, RenameKey, WriteStamp, Succeed, Unlock, Sweep, Load
<1> QED  BY <1>1, <1>2

LEMMA WrittenNext ==
  ASSUME Inv, Alone, NEW p \in Procs, ProcStep(p)
  PROVE  WrittenInv'
<1>1. ASSUME NEW q \in Procs \ {p}  PROVE Written(q)'
  <2>1. pc'[q] = pc[q] /\ mine'[q] = mine[q] /\ Written(q)
    BY ProcFrame DEF Inv, WrittenInv
  <2>2. CASE pc'[q] \notin Busy
    BY <2>2 DEF Written, Busy, Provisioning, Step
  <2>3. CASE UNCHANGED <<files, serial>>
    BY <2>1, <2>3 DEF Written, files
  <2> QED  BY <2>2, <2>3, OthersIdle DEF Inv
<1>2. Written(p)'
  <2> USE DEF GoTo, Written
  <2>1. /\ Written(p) /\ TypeOK /\ serial \in Nat /\ mine[p] \in Nat
        /\ pc \in [Procs -> Step] /\ mine \in [Procs -> Pair]
    BY DEF Inv, WrittenInv, TypeOK, Pair
  <2>2. GivesUp(p) \in {"down", "serving"}
    BY <2>1, GivesUpProperties
  <2>3. ASSUME Fail(p)  PROVE Written(p)'
    BY <2>1, <2>3 DEF Fail
  <2>4. CASE Start(p) \/ RenewalTick(p) \/ Die(p) \/ Check(p) \/ TakeLock(p)
    BY <2>1, <2>2, <2>4 DEF Start, RenewalTick, Die, Check, TakeLock
  <2>5. CASE Challenge(p) \/ Authorize(p) \/ Deadline(p)
    BY <2>1, <2>3, <2>5 DEF Challenge, Authorize, Deadline
  <2>6. CASE Download(p)
    BY <2>1, <2>3, <2>6 DEF Download
  <2>7. CASE WriteCert(p)
    BY <2>1, <2>3, <2>7 DEF WriteCert
  <2>8. CASE WriteKey(p)
    BY <2>1, <2>3, <2>8 DEF WriteKey
  <2>9. CASE RenameCert(p)
    BY <2>1, <2>3, <2>9 DEF RenameCert
  <2>10. CASE RenameKey(p)
    BY <2>1, <2>3, <2>10 DEF RenameKey
  <2>11. CASE WriteStamp(p)
    BY <2>1, <2>3, <2>11 DEF WriteStamp
  <2>12. CASE Succeed(p) \/ Unlock(p)
    BY <2>1, <2>12 DEF Succeed, Unlock
  <2>13. CASE Sweep(p) \/ Load(p)
    BY <2>1, <2>2, <2>13 DEF Sweep, Load
  <2> QED  BY <2>4, <2>5, <2>6, <2>7, <2>8, <2>9, <2>10, <2>11, <2>12, <2>13
             DEF ProcStep, Proceeds, FileStep
<1> QED  BY <1>1, <1>2 DEF WrittenInv

LEMMA OrderNext ==
  ASSUME Inv, Alone, NEW p \in Procs, ProcStep(p)
  PROVE  OrderInv'
<1>1. /\ {cert, key, certTmp, keyTmp, stamp, serial} \subseteq Nat
      /\ key <= serial /\ stamp <= serial
      /\ pc \in [Procs -> Step] /\ Written(p)
  BY DEF Inv, WrittenInv, TypeOK, Pair
<1>2. \A q \in Procs \ {p} : pc'[q] = pc[q]
  BY ProcFrame DEF Inv
<1>3. ASSUME UNCHANGED <<cert, key, stamp>>,
             torn => torn', pc[p] = "renameKey" => torn'
      PROVE  OrderInv'
  BY <1>2, <1>3 DEF Inv, OrderInv
<1>4. CASE RenameCert(p)
  <2>1. ASSUME pc' = [pc EXCEPT ![p] = "renameKey"], cert' = certTmp, pc[p] = "renameCert",
               UNCHANGED <<key, stamp>>
        PROVE  OrderInv'
    BY <1>1, <2>1 DEF OrderInv, Written
  <2> QED  BY <1>3, <1>4, <2>1 DEF RenameCert, GoTo
<1>5. CASE RenameKey(p)
  <2>1. ASSUME key' = keyTmp, UNCHANGED <<cert, stamp>>, pc[p] = "renameKey"
        PROVE  OrderInv'
    BY <1>1, <2>1 DEF Inv, OrderInv, Written
  <2> QED  BY <1>3, <1>5, <2>1 DEF RenameKey
<1>6. CASE WriteStamp(p)
  <2>1. ASSUME stamp' = mine[p], UNCHANGED <<cert, key, torn>>, pc[p] = "stamp"
        PROVE  OrderInv'
    BY <1>1, <2>1 DEF Inv, OrderInv, Written
  <2> QED  BY <1>3, <1>6, <2>1 DEF WriteStamp
<1>7. CASE Succeed(p)
  BY <1>1, <1>7 DEF Succeed, OrderInv, Inv, Written
<1>8. CASE Die(p)
  BY <1>3, <1>8 DEF Die, files
<1>9. CASE Start(p) \/ RenewalTick(p) \/ Check(p) \/ TakeLock(p) \/ Challenge(p)
           \/ Authorize(p) \/ Deadline(p) \/ Download(p) \/ WriteCert(p) \/ WriteKey(p)
           \/ Unlock(p) \/ Sweep(p) \/ Load(p)
  BY <1>3, <1>9 DEF files, Start, RenewalTick, Check, TakeLock, Challenge, Authorize,
       Deadline, Download, WriteCert, WriteKey, Unlock, Sweep, Load
<1> QED  BY <1>4, <1>5, <1>6, <1>7, <1>8, <1>9 DEF ProcStep, Proceeds, FileStep

LEMMA LeftNext ==
  ASSUME Inv, Alone, Alone', NEW p \in Procs, ProcStep(p)
  PROVE  LeftInv'
<1> USE DEF Clean
<1>1. /\ LeftInv /\ TypeOK /\ Written(p)
      /\ pc \in [Procs -> Step] /\ tokens \in [Procs -> BOOLEAN]
  BY DEF Inv, TypeOK, WrittenInv
<1>2. \A q \in Procs \ {p} : pc'[q] = pc[q] /\ tokens'[q] = tokens[q]
  BY ProcFrame DEF Inv
<1>3. pc[p] \in Provisioning => \A q \in Procs \ {p} : pc[q] \notin Provisioning
  BY DEF Alone, Busy
<1>4. GivesUp(p) \in {"down", "serving"}
  BY <1>1, GivesUpProperties
(* The process goes on provisioning. *)
<1>5. ASSUME pc[p] \in Provisioning, pc'[p] \in Provisioning \ {"lock"},
             pc'[p] = "sweep" => ~lock'
      PROVE  LeftInv'
  BY <1>1, <1>2, <1>3, <1>5 DEF LeftInv, Provisioning, Step
(* It leaves nothing behind. *)
<1>6. ASSUME pc'[p] \notin Provisioning, ~tokens'[p], pc[p] \in Provisioning,
             died' \/ Clean'
      PROVE  LeftInv'
  BY <1>1, <1>2, <1>3, <1>6 DEF LeftInv, Provisioning, Step
(* It was not provisioning and is not now. *)
<1>7. ASSUME pc[p] \notin Provisioning, pc'[p] \notin Provisioning, UNCHANGED files,
             tokens'[p] => tokens[p], died' = died
      PROVE  LeftInv'
  BY <1>1, <1>2, <1>7 DEF LeftInv, Provisioning, Step, files
<1>8. CASE Start(p) \/ RenewalTick(p) \/ Load(p)
  <2>1. /\ pc[p] \notin Provisioning /\ pc'[p] \notin Provisioning
        /\ UNCHANGED files /\ tokens' = tokens /\ died' = died
    BY <1>1, <1>4, <1>8 DEF Start, RenewalTick, Load, GoTo, Provisioning, Step
  <2> QED  BY <1>7, <2>1
<1>9. CASE Check(p)
  <2>1. CASE lock
    <3>1. /\ pc[p] \notin Provisioning /\ pc'[p] \notin Provisioning
          /\ UNCHANGED files /\ tokens' = tokens /\ died' = died
      BY <1>1, <1>4, <1>9, <2>1 DEF Check, GoTo, Provisioning, Step
    <3> QED  BY <1>7, <3>1
  <2>2. CASE ~lock
    <3>1. /\ pc[p] = "check" /\ pc'[p] = "lock" /\ ~tokens[p]
          /\ UNCHANGED files /\ tokens' = tokens /\ died' = died
      BY <1>1, <1>9, <2>2 DEF Check, GoTo, LeftInv, Provisioning, Step
    <3>2. \A q \in Procs : pc[q] \notin Provisioning
      BY <1>2, <3>1 DEF Alone, Busy, Provisioning, Step
    <3>3. died \/ Clean
      BY <1>1, <3>2 DEF LeftInv
    <3> QED  BY <1>1, <1>2, <2>2, <3>1, <3>2, <3>3 DEF LeftInv, Provisioning, Step, files
  <2> QED  BY <2>1, <2>2
<1>10. CASE TakeLock(p)
  <2>1. /\ pc[p] = "lock" /\ died' = died /\ tokens' = tokens /\ ~tokens[p]
        /\ UNCHANGED <<certTmp, keyTmp>> /\ (died \/ Clean)
    BY <1>1, <1>10 DEF TakeLock, LeftInv
  <2>2. CASE GoTo(p, "challenge")
    BY <1>1, <1>5, <2>1, <2>2 DEF GoTo, Provisioning, Step
  <2>3. CASE UNCHANGED lock /\ GoTo(p, GivesUp(p))
    BY <1>1, <1>4, <1>6, <2>1, <2>3 DEF GoTo, Provisioning, Step
  <2> QED  BY <1>10, <2>2, <2>3 DEF TakeLock
<1>11. CASE \/ Challenge(p) \/ Authorize(p) \/ Deadline(p) \/ Download(p) \/ WriteCert(p)
            \/ WriteKey(p) \/ RenameCert(p) \/ RenameKey(p) \/ WriteStamp(p)
  <2>1. pc[p] \in Provisioning /\ pc'[p] \in Provisioning \ {"lock", "sweep"}
    BY <1>1, <1>11 DEF Challenge, Authorize, Deadline, Download, WriteCert, WriteKey,
         RenameCert, RenameKey, WriteStamp, Fail, GoTo, Provisioning, Step
  <2> QED  BY <1>5, <2>1
<1>12. CASE Unlock(p)
  <2>1. pc[p] = "unlock" /\ pc'[p] = "sweep" /\ ~lock'
    BY <1>1, <1>12 DEF Unlock, GoTo
  <2> QED  BY <1>5, <2>1 DEF Provisioning, Step
<1>13. CASE Succeed(p) \/ Sweep(p)
  <2>1. /\ pc[p] \in {"done", "sweep"} /\ pc'[p] \in {"load", "down", "serving"}
        /\ ~tokens'[p] /\ Clean'
    BY <1>1, <1>4, <1>13 DEF Succeed, Sweep, GoTo, Written, LeftInv
  <2> QED  BY <1>6, <2>1 DEF Provisioning, Step
<1>14. CASE Die(p)
  <2>1. pc'[p] = "down" /\ ~tokens'[p] /\ UNCHANGED files
    BY <1>1, <1>14 DEF Die, GoTo
  <2>2. CASE pc[p] \in Provisioning
    <3>1. died'
      BY <1>14, <2>2 DEF Die
    <3> QED  BY <1>6, <2>1, <2>2, <3>1 DEF Provisioning
  <2>3. CASE pc[p] \notin Provisioning
    <3>1. died' = died
      BY <1>1, <1>14, <2>3 DEF Die, TypeOK
    <3> QED  BY <1>7, <2>1, <2>3, <3>1 DEF Provisioning
  <2> QED  BY <2>2, <2>3
<1> QED  BY <1>8, <1>9, <1>10, <1>11, <1>12, <1>13, <1>14 DEF ProcStep, Proceeds, FileStep

LEMMA NextInv == Inv /\ Alone /\ Alone' /\ [Next]_vars => Inv'
<1> SUFFICES ASSUME Inv, Alone, Alone', [Next]_vars PROVE Inv'
  OBVIOUS
<1>1. TypeOK'
  BY TypeNext DEF Inv
<1>2. CASE UNCHANGED <<cert, key, certTmp, keyTmp, lock, stamp, serial, procs, died, torn>>
  BY <1>1, <1>2 DEF procs, Inv, WrittenInv, Written, OrderInv, LeftInv, Clean
<1>3. ASSUME NEW p \in Procs, ProcStep(p)  PROVE Inv'
  BY <1>1, <1>3, WrittenNext, OrderNext, LeftNext DEF Inv
<1> QED  BY <1>2, <1>3 DEF Next, ProcStep, SixtyDaysPass, vars, files

LEMMA SpecInv == Spec /\ []Alone => []Inv
  BY InitInv, NextInv, PTL DEF Spec

(* When provision returns Ok the new pair is on disk and loads             *)
(* (acme.rs:204-231).                                                      *)
THEOREM OkCorrect == Spec /\ []Alone => []OkMeansPair
<1>1. Inv => OkMeansPair
  BY DEF Inv, WrittenInv, Written, OkMeansPair, PairLoads, PairExists
<1> QED  BY <1>1, SpecInv, PTL

(* Every error path gives back lockfile, temporary files and tokens; only  *)
(* a death leaves some (acme.rs:70-77, :255-263).                          *)
THEOREM LeftoversCorrect == Spec /\ []Alone => []LeftoversOnlyByDeath
<1>1. Inv => LeftoversOnlyByDeath
  BY DEF Inv, LeftInv, Clean, LeftoversOnlyByDeath
<1> QED  BY <1>1, SpecInv, PTL

(* A torn pair is the new certificate with the old key, left between the   *)
(* two renames (acme.rs:215-218, :379-382).                                *)
THEOREM TornCorrect == Spec /\ []Alone => []TornOnlyBetweenRenames
<1>1. Inv => TornOnlyBetweenRenames
  BY DEF Inv, TypeOK, Pair, OrderInv, TornOnlyBetweenRenames
<1> QED  BY <1>1, SpecInv, PTL

(* issued_at is never of a later pair than cert.pem, through any errors,   *)
(* deaths and restarts: no renewal is late (acme.rs:29-44).                *)
THEOREM StampCorrect == Spec /\ []Alone => []StampNeverFresher
<1>1. Inv => StampNeverFresher
  BY DEF Inv, OrderInv, StampNeverFresher
<1> QED  BY <1>1, SpecInv, PTL

(* With one process the assumption holds by itself. *)
THEOREM OneProcess ==
  ASSUME \A p, q \in Procs : p = q
  PROVE  Spec => [](OkMeansPair /\ LeftoversOnlyByDeath
                      /\ TornOnlyBetweenRenames /\ StampNeverFresher)
<1>1. Alone
  BY DEF Alone
<1> QED  BY <1>1, OkCorrect, LeftoversCorrect, TornCorrect, StampCorrect, PTL

=============================================================================
