---------------------------- MODULE Process_proofs ----------------------------
(***************************************************************************)
(* Proofs about the process: about KeyFile for any number of processes,    *)
(* keys and power losses and any set of operator's keys, and about         *)
(* Lifecycle for any number of callbacks and all time limits.              *)
(***************************************************************************)
EXTENDS KeyFile, Lifecycle, TLAPS

-----------------------------------------------------------------------------
(* The key file.                                                           *)

Generated == 1..MaxKeys

\* The stages of a process that is creating the file.
Creating == {"absent", "prepared", "writing", "written", "closed", "published"}

\* A process that is creating the file holds a generated key of its own, which
\* nobody has gone into service with, there is a directory for it, its temporary
\* file is whole on the disk when it is about to be published, and once published
\* it is the file until the power is lost.
CreatorsHold ==
  \A p \in Procs :
    /\ pc[p] \in Creating => key[p] \in Generated /\ key[p] <= made /\ key[p] \notin owned
    /\ pc[p] \in Creating \ {"absent"} => directory # "absent"
    /\ pc[p] = "closed" => temp[p] = File(key[p], "synced")
    /\ pc[p] = "published" => file = File(key[p], "synced")

\* Two processes never create the file with one key.
KeysDiffer ==
  \A p, q \in Procs : p # q /\ pc[p] \in Creating /\ pc[q] \in Creating => key[p] # key[q]

\* A generated key at the path is on the disk, in a directory, and its name is on
\* the disk, too, once its creator is in service.
FileHolds ==
  /\ file.key \in Generated => file.content = "synced"
  /\ file.key = NoKey => file = NoFile
  /\ file.key # NoKey => directory # "absent"
  /\ \A k \in owned : k \in Generated /\ k <= made /\ (file.key = k => entry = "synced")

KeyFileInv == KeyTypeOK /\ ServersAgree /\ CreatorsHold /\ KeysDiffer /\ FileHolds

\* The initial state satisfies the invariant.
LEMMA KeyInitInv == KeyInit => KeyFileInv
BY KeyFileAssumption, SMT
DEF KeyInit, KeyFileInv, KeyTypeOK, ServersAgree, CreatorsHold, KeysDiffer, FileHolds, Creating,
    Generated, Files, File, Contents, Keys, NoKey, NoFile, Stages, Readable

\* Every step preserves the invariant.
LEMMA KeyStepInv == KeyFileInv /\ [KeyNext]_keyVars => KeyFileInv'
<1> SUFFICES ASSUME KeyFileInv, [KeyNext]_keyVars PROVE KeyFileInv'
  OBVIOUS
<1> USE KeyFileAssumption
        DEF KeyFileInv, KeyTypeOK, ServersAgree, CreatorsHold, KeysDiffer, FileHolds, Creating,
            Generated, Files, File, Contents, Keys, NoKey, NoFile, Stages, Readable, disk
<1>1. ASSUME NEW p \in Procs, Start(p) PROVE KeyFileInv'
  BY <1>1, SMT DEF Start
<1>2. ASSUME NEW p \in Procs, ReadKey(p) PROVE KeyFileInv'
  <2>1. CASE Readable(file) /\ ServeKey(p, file.key)
    <3>1. /\ pc' = [pc EXCEPT ![p] = "serving"]
          /\ key' = [key EXCEPT ![p] = file.key]
          /\ served' = served \cup {file.key}
          /\ UNCHANGED <<directory, file, entry, temp, made, losses, owned>>
      BY <1>2, <2>1 DEF ReadKey, ServeKey
    <3>2. file.key \in Keys
      OBVIOUS
    <3>3. KeyTypeOK'
      <4> HIDE DEF Keys
      <4>1. served' \subseteq Keys
        BY <3>1, <3>2
      <4>2. key' \in [Procs -> Keys] /\ pc' \in [Procs -> Stages]
        BY <3>1, <3>2, SMT
      <4> QED  BY <3>1, <4>1, <4>2
    <3>4. ServersAgree'
      BY <2>1, <3>1, SMT
    <3>5. CreatorsHold' /\ KeysDiffer' /\ FileHolds'
      BY <3>1, SMT
    <3> QED  BY <3>3, <3>4, <3>5
  <2>2. CASE pc' = [pc EXCEPT ![p] = "failed"] /\ UNCHANGED <<key, served>>
    BY <1>2, <2>2, SMT DEF ReadKey
  <2> QED  BY <1>2, <2>1, <2>2 DEF ReadKey
<1>3. ASSUME NEW p \in Procs, GenerateKey(p) PROVE KeyFileInv'
  <2>1. /\ made' = made + 1 /\ key' = [key EXCEPT ![p] = made + 1] /\ made + 1 \in Generated
        /\ pc' = [pc EXCEPT ![p] = "absent"]
        /\ UNCHANGED <<directory, file, entry, temp, losses, served, owned>>
    BY <1>3, SMT DEF GenerateKey
  <2>2. KeyTypeOK'
    BY <2>1, SMT
  <2>3. ServersAgree'
    BY <2>1, SMT
  <2>4. CreatorsHold'
    BY <2>1, SMT
  <2>5. KeysDiffer'
    <3>1. \A q \in Procs : pc[q] \in Creating => key[q] # made + 1
      BY SMT
    <3> QED
      BY <2>1, <3>1, Zenon
  <2>6. FileHolds'
    BY <2>1, SMT
  <2> QED  BY <2>2, <2>3, <2>4, <2>5, <2>6
<1>4. ASSUME NEW p \in Procs, MakeDirectory(p) \/ CreateTemp(p) \/ WriteTemp(p) \/ SyncTemp(p)
      PROVE KeyFileInv'
  <2>1. CASE MakeDirectory(p)
    BY <2>1, SMT DEF MakeDirectory
  <2>2. CASE CreateTemp(p)
    BY <2>2, SMT DEF CreateTemp
  <2>3. CASE WriteTemp(p)
    BY <2>3, SMT DEF WriteTemp
  <2>4. CASE SyncTemp(p)
    BY <2>4, SMT DEF SyncTemp
  <2> QED  BY <1>4, <2>2, <2>3, <2>4, <2>1
<1>5. ASSUME NEW p \in Procs, Publish(p) PROVE KeyFileInv'
  <2>1. pc[p] = "closed" /\ temp[p] = File(key[p], "synced") /\ key[p] \in Generated
    BY <1>5 DEF Publish
  <2>2. CASE file = NoFile /\ file' = temp[p] /\ pc' = [pc EXCEPT ![p] = "published"]
    <3>1. KeyTypeOK'
      BY <1>5, <2>1, <2>2, SMT DEF Publish
    <3>2. ServersAgree'
      BY <1>5, <2>1, <2>2, SMT DEF Publish
    <3>3. CreatorsHold' /\ KeysDiffer' /\ FileHolds'
      BY <1>5, <2>1, <2>2, SMT DEF Publish
    <3> QED  BY <3>1, <3>2, <3>3
  <2>3. CASE pc' = [pc EXCEPT ![p] = "waiting"] /\ UNCHANGED file
    BY <1>5, <2>1, <2>3, SMT DEF Publish
  <2> QED  BY <1>5, <2>2, <2>3 DEF Publish
<1>6. ASSUME NEW p \in Procs, SyncDirectory(p) PROVE KeyFileInv'
  <2>1. file = File(key[p], "synced") /\ key[p] \in Generated /\ pc[p] = "published"
    BY <1>6 DEF SyncDirectory
  <2>2. /\ pc' = [pc EXCEPT ![p] = "serving"]
        /\ key' = [key EXCEPT ![p] = key[p]]
        /\ served' = served \cup {key[p]} /\ owned' = owned \cup {key[p]}
        /\ entry' = "synced"
        /\ UNCHANGED <<directory, file, temp, made, losses>>
    BY <1>6 DEF SyncDirectory, ServeKey
  <2>3. KeyTypeOK'
    <3>1. served' \subseteq Keys /\ owned' \subseteq Keys
      BY <2>1, <2>2
    <3>2. key' \in [Procs -> Keys] /\ pc' \in [Procs -> Stages]
      BY <2>1, <2>2, SMT
    <3> QED  BY <2>2, <3>1, <3>2
  <2>4. ServersAgree'
    BY <2>1, <2>2, SMT
  <2>5. CreatorsHold' /\ KeysDiffer' /\ FileHolds'
    BY <2>1, <2>2, SMT
  <2> QED  BY <2>3, <2>4, <2>5
<1>7. ASSUME NEW p \in Procs, StepFails(p) \/ Kill(p) PROVE KeyFileInv'
  <2>1. CASE StepFails(p)
    BY <2>1, SMT DEF StepFails
  <2>2. CASE Kill(p)
    BY <2>2, SMT DEF Kill
  <2> QED  BY <1>7, <2>1, <2>2
<1>8. ASSUME NEW k \in OperatorKeys, OperatorWrites(k) PROVE KeyFileInv'
  <2>1. file' = File(k, "partial") /\ k \in Keys /\ k \notin Generated /\ k # NoKey
    BY <1>8, SMT DEF OperatorWrites
  <2>2. k \notin owned /\ \A p \in Procs : pc[p] \notin {"serving", "published"}
    <3>1. file.key = NoKey /\ file.content = "none"
      BY <1>8 DEF OperatorWrites
    <3>2. k \notin owned
      BY <2>1
    <3>3. \A p \in Procs : pc[p] # "serving"
      BY <3>1
    <3>4. \A p \in Procs : pc[p] # "published"
      BY <3>1
    <3> QED  BY <3>2, <3>3, <3>4
  <2>3. KeyTypeOK'
    BY <1>8, <2>1, SMT DEF OperatorWrites
  <2>4. (ServersAgree /\ CreatorsHold /\ KeysDiffer /\ FileHolds)'
    BY <1>8, <2>1, <2>2, SMT DEF OperatorWrites
  <2> QED  BY <2>3, <2>4
<1>9. CASE OperatorFinishes
  <2>1. /\ file' = File(file.key, "whole") /\ file.key \in Keys
        /\ file.key \notin Generated /\ file.key # NoKey
    BY <1>9, SMT DEF OperatorFinishes
  <2>2. \A p \in Procs : pc[p] # "published"
    BY <2>1
  <2>3. KeyTypeOK'
    BY <1>9, <2>1, SMT DEF OperatorFinishes
  <2>4. (ServersAgree /\ CreatorsHold /\ KeysDiffer /\ FileHolds)'
    BY <1>9, <2>1, <2>2, SMT DEF OperatorFinishes
  <2> QED  BY <2>3, <2>4
<1>10. CASE PowerLoss
  <2>1. /\ file' \in {file, File(file.key, "partial"), NoFile}
        /\ file.content # "whole" => file' \in {file, NoFile}
        /\ directory' = "absent" => file' = NoFile
    <3> HIDE DEF File, NoFile
    <3> QED  BY <1>10 DEF PowerLoss, Remains
  <2>2. KeyTypeOK'
    BY <1>10, <2>1, SMT DEF PowerLoss
  <2>3. (ServersAgree /\ CreatorsHold /\ KeysDiffer)'
    BY <1>10, SMT DEF PowerLoss
  <2>4. FileHolds'
    BY <1>10, <2>1, SMT DEF PowerLoss
  <2> QED  BY <2>2, <2>3, <2>4
<1>11. CASE UNCHANGED keyVars
  BY <1>11, SMT DEF keyVars
<1> QED
  BY <1>1, <1>2, <1>3, <1>4, <1>5, <1>6, <1>7, <1>8, <1>9, <1>10, <1>11 DEF KeyNext, Proc

\* The invariant holds throughout.
LEMMA KeyAlwaysInv == KeySpec => []KeyFileInv
BY KeyInitInv, KeyStepInv, PTL DEF KeySpec

\* The variables have their types, for all constants.
THEOREM KeyFileTypes == KeySpec => []KeyTypeOK
<1>1. KeyFileInv => KeyTypeOK  BY DEF KeyFileInv
<1> QED  BY <1>1, KeyAlwaysInv, PTL

\* However many processes start at once, all in service hold the file's key.
THEOREM AllServersAgree == KeySpec => []ServersAgree
<1>1. KeyFileInv => ServersAgree  BY DEF KeyFileInv
<1> QED  BY <1>1, KeyAlwaysInv, PTL

\* A generated key at the path is whole, after any number of power losses.
THEOREM NoTornKey == KeySpec => []NeverTorn
<1>1. KeyFileInv => NeverTorn
  BY DEF KeyFileInv, FileHolds, NeverTorn, Generated, Readable
<1> QED  BY <1>1, KeyAlwaysInv, PTL

\* The key of a creator that went into service is never lost, for any number of
\* crashes and power losses, but with a directory that was not there before.
THEOREM OwnedKeysStay == KeySpec => OwnedKeyStays
<1> DEFINE Stays ==
      \A k \in owned : file.key = k =>
        file'.key = k \/ (directory = "unsynced" /\ directory' = "absent")
<1>1. KeyFileInv /\ [KeyNext]_keyVars => [Stays]_keyVars
  <2> SUFFICES ASSUME KeyFileInv, KeyNext, NEW k \in owned, file.key = k
               PROVE  file'.key = k \/ (directory = "unsynced" /\ directory' = "absent")
    BY DEF OwnedKeyStays
  <2>1. k \in Generated /\ entry = "synced" /\ directory # "absent"
    <3>1. k \in Generated /\ entry = "synced"
      BY DEF KeyFileInv, FileHolds
    <3>2. k # NoKey
      BY <3>1, KeyFileAssumption, SMT DEF Generated, NoKey
    <3> QED
      BY <3>1, <3>2 DEF KeyFileInv, FileHolds
  <2>2. file # NoFile
    BY <2>1, KeyFileAssumption, SMT DEF NoFile, File, Generated, NoKey
  <2>3. CASE PowerLoss
    <3>1. CASE directory' = "absent"
      BY <2>1, <2>3, <3>1 DEF PowerLoss, KeyFileInv, KeyTypeOK
    <3>2. CASE file' \in Remains
      BY <2>1, <3>2 DEF Remains, File
    <3> QED
      BY <2>3, <3>1, <3>2 DEF PowerLoss
  <2>4. CASE OperatorFinishes
    BY <2>4 DEF OperatorFinishes, File
  <2>5. CASE file' = file
    BY <2>5
  <2> QED
    BY <2>2, <2>3, <2>4, <2>5
    DEF KeyNext, Proc, Start, ReadKey, GenerateKey, MakeDirectory, CreateTemp, WriteTemp,
        SyncTemp, Publish, SyncDirectory, StepFails, Kill, OperatorWrites, disk
<1> QED
  BY <1>1, KeyAlwaysInv, PTL DEF KeySpec, OwnedKeyStays

\* No step but a power loss replaces or removes the key at the path.
THEOREM KeysAreNeverReplaced == KeySpec => NeverReplaced
<1> DEFINE Kept == file # NoFile /\ losses' = losses => file'.key = file.key
<1>1. KeyFileInv /\ [KeyNext]_keyVars => [Kept]_keyVars
  <2> SUFFICES ASSUME KeyFileInv, KeyNext PROVE Kept
    OBVIOUS
  <2>1. CASE OperatorFinishes
    BY <2>1, SMT DEF OperatorFinishes, File
  <2>2. CASE PowerLoss
    BY <2>2, SMT DEF PowerLoss, KeyFileInv, KeyTypeOK
  <2>3. ASSUME file' = file \/ file = NoFile PROVE Kept
    BY <2>3
  <2> QED
    BY <2>1, <2>2, <2>3
    DEF KeyNext, Proc, Start, ReadKey, GenerateKey, MakeDirectory, CreateTemp, WriteTemp, SyncTemp, Publish,
        SyncDirectory, StepFails, Kill, OperatorWrites, disk
<1> QED
  BY <1>1, KeyAlwaysInv, PTL DEF KeySpec, NeverReplaced

-----------------------------------------------------------------------------
(* The life of a process.                                                  *)

Calls == [stage : Running \cup Ended \cup {"none"}, left : Nat,
          write : 0..WriteTimeout, early : Nat, at : Running \cup Ended \cup {"none"}, due : Nat]

Processes == [phase : Phases, signal : BOOLEAN, left : Nat, status : {"none", "ok", "failed"}]

\* What one callback's record says beside the process's: the time since its headers
\* is what it has spent on the form and the key, and on the calls after them; and
\* while the process stops, no callback can still take longer than it could when the
\* signal came, less the time since then.  A wait for ZITADEL is never longer than
\* the client's timeout, nor was one that the signal found.
CallInv(p, r) ==
  /\ r \in Calls
  /\ p.phase = "starting" => r.stage = "none"
  /\ r.stage \in {"reading", "validating"} => r.write + r.early >= WriteTimeout
  /\ r.stage = "linking" => r.write + r.early + (PrelinkTimeout - r.left) >= WriteTimeout
  /\ r.stage = "relaying" =>
       r.write + r.early + PrelinkTimeout + (ClientTimeout - r.left) >= WriteTimeout
  /\ r.stage = "lost" => r.early >= WriteTimeout - PrelinkTimeout - ClientTimeout
  /\ p.phase = "stopping" /\ r.stage \in Running =>
       r.due + p.left >= Remaining(r) + ShutdownTimeout
  /\ r.stage = "cut" =>
       p.phase = "exited" /\ p.status = "failed" /\ r.due >= ShutdownTimeout
  /\ r.stage = "relaying" => r.left <= ClientTimeout
  /\ r.at = "relaying" => r.due <= ClientTimeout

LifecycleInv ==
  /\ process \in Processes
  /\ call \in [Callbacks -> Calls]
  /\ \A c \in Callbacks : CallInv(process, call[c])

\* The initial state satisfies the invariant.
LEMMA InitInv == Init => LifecycleInv
BY LifecycleAssumption, SMT
DEF Init, Main, LifecycleInv, CallInv, Calls, Processes, Phases, Running, Ended, NoCall

\* A callback enters a stage with its whole limit: time is not gained by it.
LEMMA EnterInv ==
  ASSUME LifecycleInv, NEW c \in Callbacks, NEW stage \in {"validating", "linking", "relaying"},
         Enter(c, stage),
         \/ call[c].stage = "reading"
         \/ call[c].stage = "validating" /\ stage # "validating"
         \/ call[c].stage = "linking" /\ stage = "relaying"
  PROVE  LifecycleInv'
<1> DEFINE new == At(call[c], stage, Limit(stage))
<1>1. process' = process /\ call' = [call EXCEPT ![c] = new]
  BY DEF Enter
<1>2. call[c] \in Calls /\ CallInv(process, call[c])
  BY DEF LifecycleInv
<1>3. CallInv(process, new)
  <2>1. new \in Calls
    BY <1>2, LifecycleAssumption, SMT DEF At, Calls, Running, Limit
  <2>2. /\ new.stage = stage /\ new.left = Limit(stage) /\ new.write = call[c].write
        /\ new.early = call[c].early /\ new.due = call[c].due /\ new.at = call[c].at
    BY DEF At
  <2> HIDE DEF new
  <2>3. /\ call[c].stage \in Running /\ process.phase # "starting"
        /\ new.stage \in {"validating", "linking", "relaying"}
    BY <1>2, <2>2 DEF CallInv, Running
  <2>4. /\ new.stage = "validating" => new.write + new.early >= WriteTimeout
        /\ new.stage = "linking" =>
             new.write + new.early + (PrelinkTimeout - new.left) >= WriteTimeout
        /\ new.stage = "relaying" =>
             new.write + new.early + PrelinkTimeout + (ClientTimeout - new.left) >= WriteTimeout
    BY <1>2, <2>2, LifecycleAssumption, SMT DEF CallInv, Calls, Limit
  <2>5. new.stage = "relaying" => new.left <= ClientTimeout
    BY <2>2, LifecycleAssumption, SMT DEF Limit
  <2>6. Remaining(call[c]) >= Remaining(new)
    <3>1. CASE call[c].stage = "reading"
      BY <1>2, <2>2, <3>1, LifecycleAssumption, SMT DEF Calls, Limit, Remaining
    <3>2. CASE call[c].stage = "validating"
      BY <1>2, <2>2, <3>2, LifecycleAssumption, SMT DEF Calls, Limit, Remaining
    <3>3. CASE call[c].stage = "linking"
      BY <1>2, <2>2, <3>3, LifecycleAssumption, SMT DEF Calls, Limit, Remaining
    <3> QED
      BY <3>1, <3>2, <3>3
  <2>7. process.phase = "stopping" => new.due + process.left >= Remaining(new) + ShutdownTimeout
    <3>1. Remaining(call[c]) \in Int /\ Remaining(new) \in Int /\ process.left \in Nat
      BY <1>2, <2>1, LifecycleAssumption, SMT DEF Calls, Remaining, LifecycleInv, Processes
    <3> QED
      BY <1>2, <2>2, <2>3, <2>6, <3>1, LifecycleAssumption, SMT DEF CallInv, Calls
  <2> QED
    BY <1>2, <2>1, <2>2, <2>3, <2>4, <2>7, <2>5 DEF CallInv
<1> HIDE DEF new
<1> QED
  BY <1>1, <1>3, SMT DEF LifecycleInv, CallInv

\* A callback that ends is no longer bound by anything but what its end says.
LEMMA EndInv ==
  ASSUME LifecycleInv, NEW c \in Callbacks, NEW stage \in Ended \ {"cut"}, End(c, stage),
         IsRunning(c),
         stage = "lost" => call[c].write = 0 /\ call[c].stage # "connected"
  PROVE  LifecycleInv'
<1> DEFINE new == At(call[c], stage, 0)
<1>1. process' = process /\ call' = [call EXCEPT ![c] = new]
  BY DEF End
<1>2. call[c] \in Calls /\ CallInv(process, call[c])
  BY DEF LifecycleInv
<1>3. CallInv(process, new)
  <2>1. new \in Calls
    BY <1>2, SMT DEF At, Calls
  <2>2. /\ new.stage = stage /\ new.left = 0 /\ new.write = call[c].write
        /\ new.early = call[c].early /\ new.due = call[c].due /\ new.at = call[c].at
    BY DEF At
  <2> HIDE DEF new
  <2>3. stage \notin Running /\ stage # "none" /\ stage # "cut"
    BY DEF Running, Ended
  <2>4. stage = "lost" => call[c].early >= WriteTimeout - PrelinkTimeout - ClientTimeout
    BY <1>2, LifecycleAssumption, SMT DEF CallInv, Calls, Running, IsRunning
  <2>5. process.phase # "starting"
    BY <1>2 DEF CallInv, Running, IsRunning
  <2> QED
    BY <1>2, <2>1, <2>2, <2>3, <2>4, <2>5, SMT DEF CallInv, Running
<1> HIDE DEF new
<1> QED
  BY <1>1, <1>3, SMT DEF LifecycleInv, CallInv

\* What a callback can still take is never negative.
LEMMA RemainingIsNat == ASSUME NEW r \in Calls PROVE Remaining(r) \in Nat
BY LifecycleAssumption, SMT DEF Calls, Remaining

\* An exit cuts off nobody who did not have the time of a stop, or more, to go.
LEMMA ExitInv ==
  ASSUME LifecycleInv, NEW status \in {"ok", "failed"}, NEW running \in {"cut", "killed"},
         Exit(status, running), process.phase # "exited",
         running = "cut" =>
           \A c \in Callbacks : IsRunning(c) =>
             status = "failed" /\ call[c].due >= ShutdownTimeout
  PROVE  LifecycleInv'
<1>1. process' \in Processes /\ process'.phase = "exited" /\ process'.status = status
  BY DEF Exit, LifecycleInv, Processes, Phases
<1>2. ASSUME NEW c \in Callbacks PROVE call'[c] \in Calls /\ CallInv(process', call'[c])
  <2>1. call[c] \in Calls /\ CallInv(process, call[c])
    BY DEF LifecycleInv
  <2>2. CASE ~IsRunning(c)
    <3>1. call'[c] = call[c] /\ call[c].stage # "cut"
      BY <2>1, <2>2 DEF Exit, CallInv
    <3> QED
      BY <1>1, <2>1, <2>2, <3>1 DEF CallInv, IsRunning
  <2>3. CASE IsRunning(c)
    <3> DEFINE new == At(call[c], running, 0)
    <3>1. call'[c] = new
      BY <2>3 DEF Exit
    <3>2. new \in Calls /\ new.stage = running /\ new.due = call[c].due /\ new.at = call[c].at
      BY <2>1, SMT DEF At, Calls, Ended
    <3> HIDE DEF new
    <3> QED
      BY <1>1, <2>1, <2>3, <3>1, <3>2 DEF CallInv, Running
  <2> QED
    BY <2>2, <2>3
<1>3. call' \in [Callbacks -> Calls]
  BY <1>2, Zenon DEF Exit
<1> QED
  BY <1>1, <1>2, <1>3 DEF LifecycleInv

\* The headers start the time to write the answer.
LEMMA HeadersInv ==
  ASSUME LifecycleInv, NEW c \in Callbacks, HeadersArrive(c)
  PROVE  LifecycleInv'
<1> DEFINE new == [stage |-> "reading",
                   left |-> call[c].left + (Limit("reading") - Limit("connected")),
                   write |-> WriteTimeout, early |-> call[c].early, at |-> call[c].at,
                   due |-> call[c].due]
<1>1. process' = process /\ call' = [call EXCEPT ![c] = new]
  BY DEF HeadersArrive
<1>2. call[c] \in Calls /\ CallInv(process, call[c]) /\ call[c].stage = "connected"
  BY DEF LifecycleInv, HeadersArrive
<1>3. CallInv(process, new)
  <2>1. /\ new \in Calls /\ new.stage = "reading" /\ new.write = WriteTimeout
        /\ new.due = call[c].due /\ new.at = call[c].at /\ new.early \in Nat
    BY <1>2, LifecycleAssumption, SMT DEF Calls, Running, Limit
  <2>2. new.left = call[c].left + (ReadTimeout - ReadHeaderTimeout)
    BY DEF Limit
  <2> HIDE DEF new
  <2>3. Remaining(new) = Remaining(call[c])
    BY <1>2, <2>1, <2>2, LifecycleAssumption, SMT DEF Calls, Remaining
  <2>4. process.phase # "starting"
    BY <1>2 DEF CallInv
  <2> QED
    BY <1>2, <2>1, <2>3, <2>4, LifecycleAssumption, SMT DEF CallInv, Calls, Running
<1> HIDE DEF new
<1> QED
  BY <1>1, <1>3, SMT DEF LifecycleInv, CallInv

\* A connection starts with nothing used.
LEMMA ConnectInv ==
  ASSUME LifecycleInv, NEW c \in Callbacks, Connect(c)
  PROVE  LifecycleInv'
<1> DEFINE new == At(call[c], "connected", Limit("connected"))
<1>1. process' = process /\ call' = [call EXCEPT ![c] = new] /\ process.phase = "serving"
  BY DEF Connect
<1>2. call[c] \in Calls /\ CallInv(process, call[c])
  BY DEF LifecycleInv
<1>3. CallInv(process, new)
  <2>1. new \in Calls /\ new.stage = "connected"
    BY <1>2, LifecycleAssumption, SMT DEF At, Calls, Running, Limit
  <2>2. new.at = call[c].at /\ new.due = call[c].due
    BY DEF At
  <2> HIDE DEF new
  <2> QED
    BY <1>1, <1>2, <2>1, <2>2 DEF CallInv
<1> HIDE DEF new
<1> QED
  BY <1>1, <1>3, SMT DEF LifecycleInv, CallInv

\* One unit of time later every callback has used one unit of what it had.
LEMMA TickInv ==
  ASSUME LifecycleInv, Tick
  PROVE  LifecycleInv'
<1>1. /\ process' \in Processes /\ process'.phase = process.phase
      /\ process.phase # "exited"
      /\ process.phase = "stopping" =>
           process.left \in Nat \ {0} /\ process'.left = process.left - 1
  <2>1. process \in Processes /\ Down(process.left) \in Nat
    BY SMT DEF LifecycleInv, Processes, Down
  <2>2. process' = Main(process.phase, Down(process.left), process.signal)
    BY DEF Tick
  <2> QED
    BY <2>1, <2>2, SMT DEF Main, Tick, ProcessDue, Processes, Down
<1>2. ASSUME NEW c \in Callbacks PROVE call'[c] \in Calls /\ CallInv(process', call'[c])
  <2>1. call[c] \in Calls /\ CallInv(process, call[c])
    BY DEF LifecycleInv
  <2>2. CASE ~IsRunning(c)
    <3>1. call'[c] = call[c]
      BY <2>2 DEF Tick
    <3> QED
      BY <1>1, <2>1, <2>2, <3>1 DEF CallInv, IsRunning
  <2>3. CASE IsRunning(c)
    <3> DEFINE r == call[c]
               new == After(r)
    <3>1. call'[c] = new /\ r.left \in Nat \ {0} /\ r.stage \in Running
      BY <2>1, <2>3 DEF Tick, IsRunning, Calls
    <3>2. /\ new.stage = r.stage /\ new.left = r.left - 1 /\ new.due = r.due /\ new.at = r.at
          /\ new.write \in 0..WriteTimeout /\ new.write >= r.write - 1
          /\ new.early \in Nat /\ new.early >= r.early
          /\ r.stage \in {"reading", "validating"} => new.early = r.early + 1
      BY <2>1, <3>1, LifecycleAssumption, SMT DEF After, Down, Calls
    <3>3. new \in Calls
      BY <2>1, <3>1, <3>2, SMT DEF After, Calls
    <3> HIDE DEF new
    <3>4. Remaining(new) = Remaining(r) - 1 /\ Remaining(r) \in Nat
      BY <2>1, <3>1, <3>2, LifecycleAssumption, SMT DEF Remaining, Running, Calls
    <3>5. process.phase = "stopping" =>
            new.due + process'.left >= Remaining(new) + ShutdownTimeout
      BY <1>1, <2>1, <3>1, <3>2, <3>4, LifecycleAssumption, SMT DEF CallInv, Calls
    <3>6. /\ new.stage \in {"reading", "validating"} => new.write + new.early >= WriteTimeout
          /\ new.stage = "linking" =>
               new.write + new.early + (PrelinkTimeout - new.left) >= WriteTimeout
          /\ new.stage = "relaying" =>
               new.write + new.early + PrelinkTimeout + (ClientTimeout - new.left) >= WriteTimeout
      BY <2>1, <3>1, <3>2, LifecycleAssumption, SMT DEF CallInv, Calls
    <3>7. /\ new.stage = "relaying" => new.left <= ClientTimeout
          /\ new.at = "relaying" => new.due <= ClientTimeout
      BY <2>1, <3>1, <3>2, LifecycleAssumption, SMT DEF CallInv, Calls
    <3>8. /\ new.stage \in Running /\ new.stage # "lost" /\ new.stage # "cut"
          /\ process.phase # "starting"
      BY <2>1, <3>1, <3>2 DEF CallInv, Running
    <3> QED
      BY <1>1, <3>1, <3>3, <3>5, <3>6, <3>8, <3>7, Zenon DEF CallInv
  <2> QED
    BY <2>2, <2>3
<1>3. call' \in [Callbacks -> Calls]
  BY <1>2, Zenon DEF Tick
<1> QED
  BY <1>1, <1>2, <1>3 DEF LifecycleInv

\* Every step of a callback keeps the invariant.
LEMMA HandleInv ==
  ASSUME LifecycleInv, NEW c \in Callbacks, Handle(c)
  PROVE  LifecycleInv'
<1>1. CASE Connect(c)
  BY <1>1, ConnectInv
<1>2. CASE HeadersArrive(c)
  BY <1>2, HeadersInv
<1>3. CASE FormArrives(c)
  <2>1. call[c].stage = "reading"
    BY <1>3 DEF FormArrives
  <2>2. \E stage \in {"validating", "linking", "relaying"} : Enter(c, stage)
    BY <1>3 DEF FormArrives, AfterValidation
  <2> QED
    BY <2>1, <2>2, EnterInv
<1>4. CASE KeyFound(c)
  <2>1. call[c].stage = "validating"
    BY <1>4 DEF KeyFound
  <2>2. \E stage \in {"linking", "relaying"} : Enter(c, stage)
    BY <1>4 DEF KeyFound, AfterValidation
  <2> QED
    BY <2>1, <2>2, EnterInv
<1>5. CASE Linked(c)
  BY <1>5, EnterInv DEF Linked
<1>6. ASSUME IsRunning(c), call[c].stage # "connected", Answer(c)
      PROVE  LifecycleInv'
  <2>1. call[c].write \in Nat
    BY LifecycleAssumption, SMT DEF LifecycleInv, Calls
  <2>2. PICK stage \in {"answered", "lost"} :
          End(c, stage) /\ (stage = "lost" => ~(call[c].write > 0))
    BY <1>6 DEF Answer
  <2>3. stage = "lost" => call[c].write = 0
    BY <2>1, <2>2
  <2>4. stage \in Ended \ {"cut"}
    BY DEF Ended
  <2> QED
    BY <1>6, <2>2, <2>3, <2>4, EndInv
<1>7. CASE Fails(c)
  BY <1>6, <1>7 DEF Fails, IsRunning
<1>8. CASE TimesOut(c)
  <2>1. CASE call[c].stage = "connected"
    <3>1. End(c, "dropped") /\ IsRunning(c) /\ "dropped" \in Ended \ {"cut"}
      BY <1>8, <2>1 DEF TimesOut, Ended
    <3> QED
      BY <3>1, EndInv
  <2>2. CASE call[c].stage # "connected"
    BY <1>6, <1>8, <2>2 DEF TimesOut
  <2> QED
    BY <2>1, <2>2
<1>9. CASE BrowserLeaves(c)
  <2>1. End(c, "gone") /\ IsRunning(c) /\ "gone" \in Ended \ {"cut"}
    BY <1>9 DEF BrowserLeaves, Ended
  <2> QED
    BY <2>1, EndInv
<1> QED
  BY <1>1, <1>2, <1>3, <1>4, <1>5, <1>7, <1>8, <1>9 DEF Handle

\* When the service starts, and when it starts only to stop, no callback runs.
LEMMA ServeInv ==
  ASSUME LifecycleInv, Serve
  PROVE  LifecycleInv'
<1>1. /\ process' \in Processes /\ process'.phase \in {"serving", "stopping"}
      /\ UNCHANGED call
  BY LifecycleAssumption, SMT DEF Serve, Main, Processes, Phases, TimeToStop
<1>2. ASSUME NEW c \in Callbacks PROVE CallInv(process', call[c])
  <2>1. CallInv(process, call[c]) /\ call[c] \in Calls /\ call[c].stage = "none"
    BY DEF Serve, LifecycleInv, CallInv
  <2> QED
    BY <1>1, <2>1 DEF CallInv, Running
<1> QED
  BY <1>1, <1>2 DEF LifecycleInv

\* The signal finds each callback with what it can still take, and gives it
\* ShutdownTimeout.
LEMMA InterruptInv ==
  ASSUME LifecycleInv, Interrupt
  PROVE  LifecycleInv'
<1>1. CASE process.phase = "serving"
  <2>1. /\ process' \in Processes /\ process'.phase = "stopping"
        /\ process'.left = ShutdownTimeout
    <3>1. process' = Main("stopping", ShutdownTimeout, TRUE)
      BY <1>1, Zenon DEF Interrupt, TimeToStop
    <3>2. Main("stopping", ShutdownTimeout, TRUE) \in Processes
      BY LifecycleAssumption, SMT DEF Main, Processes, Phases
    <3> QED
      BY <3>1, <3>2, SMT DEF Main
  <2>2. ASSUME NEW c \in Callbacks PROVE call'[c] \in Calls /\ CallInv(process', call'[c])
    <3> DEFINE r == call[c]
               new == [r EXCEPT !.at = r.stage, !.due = Remaining(r)]
    <3>1. r \in Calls /\ CallInv(process, r) /\ Remaining(r) \in Nat
      BY RemainingIsNat DEF LifecycleInv
    <3>2. call'[c] = new
      BY <1>1 DEF Interrupt
    <3>3. /\ new \in Calls /\ new.stage = r.stage /\ new.left = r.left
          /\ new.write = r.write /\ new.early = r.early /\ new.due = Remaining(r)
          /\ new.at = r.stage
      <4>1. r.stage \in Running \cup Ended \cup {"none"}
        BY <3>1 DEF Calls
      <4>2. new = [r EXCEPT !.at = r.stage, !.due = Remaining(r)]
        OBVIOUS
      <4> HIDE DEF r, new
      <4> DEFINE stages == Running \cup Ended \cup {"none"}
                 writes == 0..WriteTimeout
      <4>3. /\ r \in [stage : stages, left : Nat, write : writes, early : Nat, at : stages, due : Nat]
            /\ r.stage \in stages
        BY <3>1, <4>1 DEF Calls
      <4> HIDE DEF stages, writes
      <4>4. /\ new \in [stage : stages, left : Nat, write : writes, early : Nat, at : stages, due : Nat]
            /\ new.stage = r.stage /\ new.left = r.left
            /\ new.write = r.write /\ new.early = r.early /\ new.due = Remaining(r)
            /\ new.at = r.stage
        BY <3>1, <4>2, <4>3
      <4> QED
        BY <4>4 DEF Calls, stages, writes
    <3> HIDE DEF new
    <3>4. Remaining(new) = Remaining(r)
      BY <3>3 DEF Remaining
    <3>5. r.stage # "cut"
      BY <1>1, <3>1 DEF CallInv
    <3>6. new.due + process'.left >= Remaining(new) + ShutdownTimeout
      BY <2>1, <3>1, <3>3, <3>4, LifecycleAssumption
    <3>7. new.at = "relaying" => new.due <= ClientTimeout
      BY <3>1, <3>3 DEF CallInv, Remaining
    <3> QED
      BY <2>1, <3>1, <3>2, <3>3, <3>5, <3>6, <3>7 DEF CallInv
  <2>3. call' \in [Callbacks -> Calls]
    BY <1>1, <2>2, Zenon DEF Interrupt
  <2> QED
    BY <2>1, <2>2, <2>3 DEF LifecycleInv
<1>2. CASE process.phase # "serving"
  <2>1. /\ process' \in Processes /\ process'.phase = process.phase
        /\ process'.phase = "starting" /\ UNCHANGED call
    <3>1. process' = Main("starting", process.left, TRUE) /\ UNCHANGED call
      BY <1>2, Zenon DEF Interrupt
    <3>2. process.phase = "starting" /\ process.left \in Nat
      BY <1>2 DEF Interrupt, LifecycleInv, Processes
    <3>3. Main("starting", process.left, TRUE) \in Processes
      BY <3>2, SMT DEF Main, Processes, Phases
    <3> QED
      BY <3>1, <3>2, <3>3, SMT DEF Main
  <2> QED
    BY <2>1 DEF LifecycleInv, CallInv
<1> QED
  BY <1>1, <1>2

\* A stop ends when nobody runs, or when its time is over: then whoever runs could
\* have taken that time when the signal came.
LEMMA StopInv ==
  ASSUME LifecycleInv, ShutdownReturns \/ ShutdownExpires
  PROVE  LifecycleInv'
<1>1. CASE ShutdownReturns
  BY <1>1, ExitInv DEF ShutdownReturns
<1>2. CASE ShutdownExpires
  <2>1. ASSUME NEW c \in Callbacks, IsRunning(c) PROVE call[c].due >= ShutdownTimeout
    <3>1. call[c] \in Calls /\ CallInv(process, call[c]) /\ Remaining(call[c]) \in Nat
      BY RemainingIsNat DEF LifecycleInv
    <3>2. call[c].due + 0 >= Remaining(call[c]) + ShutdownTimeout
      BY <1>2, <2>1, <3>1 DEF CallInv, IsRunning, ShutdownExpires
    <3> QED
      BY <3>1, <3>2, LifecycleAssumption, SMT DEF Calls
  <2> QED
    BY <1>2, <2>1, ExitInv DEF ShutdownExpires
<1> QED
  BY <1>1, <1>2

\* Every step keeps the invariant.
LEMMA StepInv == LifecycleInv /\ [Next]_vars => LifecycleInv'
<1> SUFFICES ASSUME LifecycleInv, [Next]_vars PROVE LifecycleInv'
  OBVIOUS
<1>1. CASE \E c \in Callbacks : Handle(c)
  BY <1>1, HandleInv
<1>2. CASE StartFails
  BY <1>2, ExitInv DEF StartFails
<1>3. CASE Serve
  BY <1>3, ServeInv
<1>4. CASE ListenerFails
  BY <1>4, ExitInv DEF ListenerFails
<1>5. CASE Interrupt
  BY <1>5, InterruptInv
<1>6. CASE ShutdownReturns \/ ShutdownExpires
  BY <1>6, StopInv
<1>7. CASE Tick
  BY <1>7, TickInv
<1>8. CASE UNCHANGED vars
  BY <1>8 DEF vars, LifecycleInv, CallInv
<1> QED
  BY <1>1, <1>2, <1>3, <1>4, <1>5, <1>6, <1>7, <1>8 DEF Next

\* The invariant holds in every reachable state.
THEOREM Invariant == Spec => []LifecycleInv
<1> QED
  BY InitInv, StepInv, PTL DEF Spec

\* main and the limits on one callback: every variable keeps its type.
THEOREM Types == Spec => []TypeOK
<1>1. LifecycleInv => TypeOK
  BY DEF LifecycleInv, TypeOK, Processes, Calls
<1> QED
  BY <1>1, Invariant, PTL

\* main.go, the stop: one that succeeds has cut nobody off, and one that fails cuts
\* off only callbacks that could have taken ShutdownTimeout or more when it began,
\* among them none whose wait for ZITADEL had taken any time, for any number of
\* callbacks and all time limits that leave the client no longer than the stop.
THEOREM StopWaitsHolds == Spec => []StopWaits
<1>1. LifecycleInv => StopWaits
  <2> SUFFICES ASSUME LifecycleInv, NEW c \in Callbacks, call[c].stage = "cut"
               PROVE  /\ process.status = "failed" /\ call[c].due >= ShutdownTimeout
                      /\ call[c].at = "relaying" => call[c].due = ClientTimeout
    BY DEF StopWaits
  <2>1. call[c] \in Calls /\ CallInv(process, call[c])
    BY DEF LifecycleInv
  <2>2. process.status = "failed" /\ call[c].due >= ShutdownTimeout
    BY <2>1 DEF CallInv
  <2>3. call[c].at = "relaying" => call[c].due <= ClientTimeout
    BY <2>1 DEF CallInv
  <2> QED
    BY <2>1, <2>2, <2>3, LifecycleAssumption, StopAssumption, SMT DEF Calls
<1> QED
  BY <1>1, Invariant, PTL

\* handleTelegramAuth under http.Server's WriteTimeout: an answer is lost only to
\* the time that the form and the key have taken.
THEOREM AnswerArrivesHolds == Spec => []AnswerArrives
<1>1. LifecycleInv => AnswerArrives
  BY DEF LifecycleInv, CallInv, AnswerArrives
<1> QED
  BY <1>1, Invariant, PTL
=============================================================================
