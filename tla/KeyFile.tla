------------------------------- MODULE KeyFile -------------------------------
(***************************************************************************)
(* The signing key's file: processes that start, at the same time or one   *)
(* after another, on one volume, load the key at jwt.private_key_file or   *)
(* create it; an operator may put a key there too.  Processes are killed,  *)
(* steps fail and the machine loses power between any two system calls.    *)
(*                                                                         *)
(* The volume is what POSIX leaves of it: a name is in its directory at    *)
(* once for all processes, but survives a power loss for certain only      *)
(* after that directory was synced, and so for a file's content and the    *)
(* file's own sync.  The key's directory is itself a name in its parent.   *)
(***************************************************************************)
EXTENDS Integers, FiniteSets

CONSTANTS
  Procs,            \* processes of the service
  MaxKeys,          \* bound on the keys that are generated
  MaxPowerLosses,   \* bound on the power losses
  Directories,      \* whether the key's directory is there from the start
  OperatorKeys      \* keys an operator may put at the path

ASSUME KeyFileAssumption ==
  /\ MaxKeys \in Nat /\ MaxPowerLosses \in Nat
  /\ Directories \subseteq {"absent", "durable"}
  /\ OperatorKeys \subseteq Nat /\ OperatorKeys \cap (0..MaxKeys) = {}

VARIABLES
  directory, \* the key's directory: absent, made but not synced in its parent, or durable
  file,      \* the file at the path
  entry,     \* whether the directory was synced with that file in it
  pc,        \* how far each process has got
  temp,      \* each process's temporary file
  key,       \* the key each process holds
  made,      \* number of keys generated so far
  losses,
  served,    \* history: the keys some process has gone into service with
  owned      \* history: those that went into service with the process that made them

keyVars == <<directory, file, entry, pc, temp, key, made, losses, served, owned>>
disk == <<directory, file, entry>>

NoKey == 0

Keys == 0..MaxKeys \cup OperatorKeys

\* "partial" is anything that is not a whole RSA key, which includes a file of the
\* wrong type, mode or size; "synced" is whole on the disk, too.
Contents == {"none", "partial", "whole", "synced"}

File(k, content) == [key |-> k, content |-> content]

NoFile == File(NoKey, "none")

Files == [key : Keys, content : Contents]

Readable(f) == f.content \in {"whole", "synced"}

\* "absent" has found no key and "prepared" has a directory for one; "writing" holds an
\* empty temporary file, "written" a whole one, "closed" a synced one; "published" has
\* given it the path's name and "waiting" has found that name taken.
Stages == {"down", "reading", "absent", "prepared", "writing", "written", "closed",
           "published", "waiting", "serving", "failed"}

KeyInit ==
  /\ directory \in Directories
  /\ file = NoFile /\ entry = "unsynced"
  /\ pc = [p \in Procs |-> "down"]
  /\ temp = [p \in Procs |-> NoFile]
  /\ key = [p \in Procs |-> NoKey]
  /\ made = 0 /\ losses = 0
  /\ served = {} /\ owned = {}

-----------------------------------------------------------------------------
(* NewSigner.                                                              *)

Start(p) ==
  /\ pc[p] \in {"down", "failed"}
  /\ pc' = [pc EXCEPT ![p] = "reading"]
  /\ key' = [key EXCEPT ![p] = NoKey]
  /\ temp' = [temp EXCEPT ![p] = NoFile]
  /\ UNCHANGED <<disk, made, losses, served, owned>>

ServeKey(p, k) ==
  /\ pc' = [pc EXCEPT ![p] = "serving"]
  /\ key' = [key EXCEPT ![p] = k]
  /\ served' = served \cup {k}

\* readRSAPrivateKey, at the start or after the name was found taken: a file
\* that is not a whole key is an error, and not waited for.  The name is never
\* removed, so that the loop of waitForRSAPrivateKey makes one turn.
ReadKey(p) ==
  /\ pc[p] \in {"reading", "waiting"} /\ file # NoFile
  /\ IF Readable(file)
     THEN ServeKey(p, file.key)
     ELSE pc' = [pc EXCEPT ![p] = "failed"] /\ UNCHANGED <<key, served>>
  /\ UNCHANGED <<disk, temp, made, losses, owned>>

\* No file yet: a key is generated.
GenerateKey(p) ==
  /\ pc[p] = "reading" /\ file = NoFile
  /\ made < MaxKeys
  /\ made' = made + 1
  /\ key' = [key EXCEPT ![p] = made + 1]
  /\ pc' = [pc EXCEPT ![p] = "absent"]
  /\ UNCHANGED <<disk, temp, losses, served, owned>>

\* The steps of writeRSAPrivateKey up to the publication.  The directory is made
\* if it is not there; nobody syncs the one above it.
MakeDirectory(p) ==
  /\ pc[p] = "absent"
  /\ directory' = IF directory = "absent" THEN "unsynced" ELSE directory
  /\ pc' = [pc EXCEPT ![p] = "prepared"]
  /\ UNCHANGED <<file, entry, temp, key, made, losses, served, owned>>

CreateTemp(p) ==
  /\ pc[p] = "prepared"
  /\ temp' = [temp EXCEPT ![p] = File(key[p], "partial")]
  /\ pc' = [pc EXCEPT ![p] = "writing"]
  /\ UNCHANGED <<disk, key, made, losses, served, owned>>

WriteTemp(p) ==
  /\ pc[p] = "writing"
  /\ temp' = [temp EXCEPT ![p] = File(key[p], "whole")]
  /\ pc' = [pc EXCEPT ![p] = "written"]
  /\ UNCHANGED <<disk, key, made, losses, served, owned>>

\* Mutant: the temporary file is closed without a sync.
CloseTempUnsynced(p) ==
  /\ pc[p] = "written"
  /\ pc' = [pc EXCEPT ![p] = "closed"]
  /\ UNCHANGED <<disk, temp, key, made, losses, served, owned>>

SyncTemp(p) ==
  /\ pc[p] = "written"
  /\ temp' = [temp EXCEPT ![p] = File(key[p], "synced")]
  /\ pc' = [pc EXCEPT ![p] = "closed"]
  /\ UNCHANGED <<disk, key, made, losses, served, owned>>

\* Mutant: a rename that replaces what is there.
PublishReplacing(p) ==
  /\ pc[p] = "closed"
  /\ file' = temp[p]
  /\ pc' = [pc EXCEPT ![p] = "published"]
  /\ temp' = [temp EXCEPT ![p] = NoFile]
  /\ UNCHANGED <<directory, entry, key, made, losses, served, owned>>

\* publishPrivateKeyNoReplace, by rename or by link.
Publish(p) ==
  /\ pc[p] = "closed"
  /\ IF file = NoFile
     THEN file' = temp[p] /\ pc' = [pc EXCEPT ![p] = "published"]
     ELSE pc' = [pc EXCEPT ![p] = "waiting"] /\ UNCHANGED file
  /\ temp' = [temp EXCEPT ![p] = NoFile]
  /\ UNCHANGED <<directory, entry, key, made, losses, served, owned>>

\* Mutant: the directory is not synced.
ServeUnsynced(p) ==
  /\ pc[p] = "published"
  /\ ServeKey(p, key[p])
  /\ owned' = owned \cup {key[p]}
  /\ UNCHANGED <<disk, temp, made, losses>>

\* syncDirectory.
SyncDirectory(p) ==
  /\ pc[p] = "published"
  /\ entry' = "synced"
  /\ ServeKey(p, key[p])
  /\ owned' = owned \cup {key[p]}
  /\ UNCHANGED <<directory, file, temp, made, losses>>

\* Any step fails; the temporary file is removed, what is published stays.
StepFails(p) ==
  /\ pc[p] \in {"reading", "absent", "prepared", "writing", "written", "closed",
             "published", "waiting"}
  /\ pc' = [pc EXCEPT ![p] = "failed"]
  /\ temp' = [temp EXCEPT ![p] = NoFile]
  /\ UNCHANGED <<disk, key, made, losses, served, owned>>

-----------------------------------------------------------------------------
(* What surrounds it.                                                      *)

\* The process is killed, its temporary file stays.
Kill(p) ==
  /\ pc[p] # "down"
  /\ pc' = [pc EXCEPT ![p] = "down"]
  /\ UNCHANGED <<disk, temp, key, made, losses, served, owned>>

\* An operator writes a key to the free path, in a directory made for it if there
\* is none, which is not one step ...
OperatorWrites(k) ==
  /\ file = NoFile
  /\ k \notin served
  /\ directory' = IF directory = "absent" THEN "unsynced" ELSE directory
  /\ file' = File(k, "partial")
  /\ UNCHANGED <<entry, pc, temp, key, made, losses, served, owned>>

\* ... and finishes.
OperatorFinishes ==
  /\ file.key \in OperatorKeys /\ file.content = "partial"
  /\ file' = File(file.key, "whole")
  /\ UNCHANGED <<directory, entry, pc, temp, key, made, losses, served, owned>>

\* What a power loss may leave in the directory: the file, all of it if it was
\* synced, or nothing if the directory was not.
Remains ==
  {file} \cup (IF file.content = "whole" THEN {File(file.key, "partial")} ELSE {})
         \cup (IF entry = "synced" THEN {} ELSE {NoFile})

\* A directory that is not in its parent for certain may be gone with all that is
\* in it; what is found afterwards is on the disk.
PowerLoss ==
  /\ losses < MaxPowerLosses
  /\ losses' = losses + 1
  /\ pc' = [p \in Procs |-> "down"]
  /\ directory' \in IF directory = "unsynced" THEN {"absent", "durable"} ELSE {directory}
  /\ file' \in IF directory' = "absent" THEN {NoFile} ELSE Remains
  /\ entry' = IF file' = NoFile THEN "unsynced" ELSE "synced"
  /\ UNCHANGED <<temp, key, made, served, owned>>

Proc(p) ==
  \/ Start(p)
  \/ ReadKey(p)
  \/ GenerateKey(p)
  \/ MakeDirectory(p)
  \/ CreateTemp(p)
  \/ WriteTemp(p)
  \/ SyncTemp(p)
  \/ Publish(p)
  \/ SyncDirectory(p)
  \/ StepFails(p)
  \/ Kill(p)

KeyNext ==
  \/ \E p \in Procs : Proc(p)
  \/ \E k \in OperatorKeys : OperatorWrites(k)
  \/ OperatorFinishes
  \/ PowerLoss

KeySpec == KeyInit /\ [][KeyNext]_keyVars

-----------------------------------------------------------------------------
\* The variables have their types.
KeyTypeOK ==
  /\ directory \in {"absent", "unsynced", "durable"}
  /\ file \in Files /\ entry \in {"unsynced", "synced"}
  /\ pc \in [Procs -> Stages]
  /\ temp \in [Procs -> Files]
  /\ key \in [Procs -> Keys]
  /\ made \in 0..MaxKeys /\ losses \in Nat
  /\ served \subseteq Keys /\ owned \subseteq Keys

\* All processes in service sign with, and publish the JWKS of, the same key,
\* that of the file, however their starts, an operator's writing and the
\* failures of other starts interleave (README.md:84-85: "Do not let replicas
\* generate independent keys").
ServersAgree ==
  \A p \in Procs : pc[p] = "serving" => key[p] = file.key /\ Readable(file)

\* A key that is at the path is never replaced by another (README.md:79-80): it
\* can only be lost in a power loss.
NeverReplaced ==
  [][file # NoFile /\ losses' = losses => file'.key = file.key]_keyVars

\* What the service publishes is a whole key, also after a power loss: a torn file
\* would end every later start with a parse error.
NeverTorn == file.key \in 1..MaxKeys => Readable(file)

\* Once the process that made a key has gone into service, no crash and no power
\* loss takes the key from the path, unless it takes the directory with it.  That
\* can only happen to a directory that was made by MkdirAll or the operator since
\* the last power loss, and is the limit of the "directory durability guarantees"
\* of README.md:140-141: the directory above it is never synced.
OwnedKeyStays ==
  [][\A k \in owned : file.key = k =>
       file'.key = k \/ (directory = "unsynced" /\ directory' = "absent")]_keyVars

\* "reuses it on later starts" (README.md:80): a key that was in service stays.
ServedKeyStays == \A k \in served : file.key = k
=============================================================================
