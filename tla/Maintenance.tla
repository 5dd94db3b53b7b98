---------------------------- MODULE Maintenance ----------------------------
(* Cold backups of a deployment and their restore into a fresh one: the local *)
(* commands of deployment/operations.py and the archives of                   *)
(* deployment/archives.py.  A command is many calls of the container engine,  *)
(* any of which may fail, and may itself be killed between two of them.       *)
(*                                                                            *)
(* What a deployment holds is a moment of its history in each of its parts:   *)
(* all of them are of one moment as long as only its writers write.  Two      *)
(* assumptions are the operator's, for nothing in the code enforces them: one *)
(* command at a time for a deployment, and a target whose restore did not     *)
(* report success is set aside.                                               *)
EXTENDS Integers, Sequences

CONSTANTS
    Deployment,     \* compose projects: Main is in use at the start
    Main,
    Writers,        \* its services that write, of WRITERS
    Volume,         \* its volumes, of ARCHIVES
    Folder,         \* where backups are written
    Image,          \* images of the application
    Fits,           \* those whose migration head is the database's schema
    First,          \* the image Main runs at the start
    MaxMoments,     \* bound: writes
    MaxDamage       \* bound: backup files damaged

ASSUME MaintenanceAssumption ==
    /\ Main \in Deployment
    /\ Fits \subseteq Image /\ First \in Fits
    /\ MaxMoments \in Nat \ {0} /\ MaxDamage \in Nat
    /\ "postgres" \notin Volume

Database == "postgres"
Parts == Volume \union {Database}

\* Contents that are no moment.
Nothing == 0        \* the volume or the file does not exist
Torn == -1          \* some of what should be there
Damaged == -2       \* bytes other than those written

VARIABLES
    history,    \* per moment: the rows counted in the database, and whether a call is unresolved
    data,       \* per deployment and part: its moment
    running,    \* per deployment: the writers that run
    image,      \* per deployment: the image of its application containers, or "none"
    stores,     \* per deployment: its Redis and Qdrant
    aside,      \* per deployment: a restore into it began and was not completed
    command,    \* per deployment: the command under way
    folder,     \* per folder: its files and its manifest
    damage

maintenanceVars ==
    <<history, data, running, image, stores, aside, command, folder, damage>>

NoCommand ==
    [does |-> "nothing", folder |-> "none", image |-> "none", at |-> "none",
     counts |-> [rows |-> 0, open |-> FALSE]]
NoManifest == [signed |-> FALSE, counts |-> NoCommand.counts, sums |-> [n \in Parts |-> Nothing]]

MaintenanceInit ==
    /\ history = <<[rows |-> 0, open |-> FALSE]>>
    /\ data = [p \in Deployment |-> [q \in Parts |-> IF p = Main THEN 1 ELSE Nothing]]
    /\ running = [p \in Deployment |-> IF p = Main THEN Writers ELSE {}]
    /\ image = [p \in Deployment |-> IF p = Main THEN First ELSE "none"]
    /\ stores = [p \in Deployment |-> IF p = Main THEN "up" ELSE "none"]
    /\ aside = [p \in Deployment |-> FALSE]
    /\ command = [p \in Deployment |-> NoCommand]
    /\ folder = [f \in Folder |->
                   [made |-> FALSE, files |-> [n \in Parts |-> Nothing], manifest |-> NoManifest]]
    /\ damage = 0

\* What the database counts.
Counts(p) == history[data[p][Database]]

\* What the application does while a writer runs: rows may be added, a call may be left unresolved.
WriteData(p) ==
    /\ running[p] # {} /\ Len(history) < MaxMoments
    /\ \E more \in {0, 1}, open \in BOOLEAN :
         history' = Append(history, [rows |-> Counts(p).rows + more, open |-> open])
    /\ data' = [data EXCEPT ![p] = [q \in Parts |-> Len(history')]]
    /\ UNCHANGED <<running, image, stores, aside, command, folder, damage>>

-----------------------------------------------------------------------------
(* Commands.                                                                  *)

Runs(p, does, at) == command[p].does = does /\ command[p].at = at
Step(p, at) == command' = [command EXCEPT ![p].at = at]

\* Fault: only the service that takes requests is looked at.
OnlyRequestsStopped(p) == "api" \notin running[p]

Quiescent(p) == running[p] = {}

\* A backup is accepted if all its files are those its manifest was written for.
Verified(f) ==
    /\ folder[f].manifest.signed
    /\ folder[f].files = folder[f].manifest.sums

\* Stops the writers; a stop that fails leaves some of them running.
Enter(p) ==
    /\ command[p] = NoCommand /\ running[p] # {}
    /\ \E still \in SUBSET running[p] : running' = [running EXCEPT ![p] = still]
    /\ UNCHANGED <<history, data, image, stores, aside, command, folder, damage>>

\* A call of the engine fails, or the process is killed.  A backup that fails
\* once it has stopped the stores starts them again, if it can.
Ends(p) ==
    /\ command[p] # NoCommand
    /\ command' = [command EXCEPT ![p] = NoCommand]
    /\ \/ UNCHANGED stores
       \/ /\ command[p].does = "backup" /\ command[p].at \in {"pack", "verify"}
          /\ stores' = [stores EXCEPT ![p] = "up"]
    /\ UNCHANGED <<history, data, running, image, aside, folder, damage>>

-----------------------------------------------------------------------------
(* Backup.                                                                    *)

\* One that did not exist; which one makes no difference.
NewFolder == CHOOSE f \in Folder : ~folder[f].made

BeginBackup(p) ==
    /\ command[p] = NoCommand /\ stores[p] # "none"
    /\ Quiescent(p) /\ \E f \in Folder : ~folder[f].made
    /\ folder' = [folder EXCEPT ![NewFolder].made = TRUE]
    /\ command' = [command EXCEPT ![p] =
                     [NoCommand EXCEPT !.does = "backup", !.folder = NewFolder, !.at = "dump",
                                  !.counts = Counts(p)]]
    /\ UNCHANGED <<history, data, running, image, stores, aside, damage>>

Dump(p) ==
    /\ Runs(p, "backup", "dump") /\ Step(p, "stop")
    /\ folder' = [folder EXCEPT ![command[p].folder].files[Database] = data[p][Database]]
    /\ UNCHANGED <<history, data, running, image, stores, aside, damage>>

\* Redis and Qdrant stop, in order or killed; stores that stopped before stay as they are.
StopStores(p) ==
    /\ Runs(p, "backup", "stop") /\ Step(p, "pack")
    /\ \/ stores[p] = "up" /\ \E s \in {"stopped", "killed"} : stores' = [stores EXCEPT ![p] = s]
       \/ stores[p] # "up" /\ UNCHANGED stores
    /\ UNCHANGED <<history, data, running, image, aside, folder, damage>>

\* One volume after the other; stores that did not stop in order are refused.
Pack(p) ==
    /\ Runs(p, "backup", "pack") /\ stores[p] = "stopped"
    /\ \E v \in Volume :
         /\ folder[command[p].folder].files[v] = Nothing
         /\ folder' = [folder EXCEPT ![command[p].folder].files[v] = data[p][v]]
    /\ UNCHANGED <<history, data, running, image, stores, aside, command, damage>>

Sign(p) ==
    LET f == command[p].folder IN
    /\ Runs(p, "backup", "pack") /\ \A v \in Volume : folder[f].files[v] # Nothing
    /\ Step(p, "verify")
    /\ folder' = [folder EXCEPT ![f].manifest =
                    [signed |-> TRUE, counts |-> command[p].counts, sums |-> folder[f].files]]
    /\ UNCHANGED <<history, data, running, image, stores, aside, damage>>

EndBackup(p) ==
    /\ Runs(p, "backup", "verify") /\ Verified(command[p].folder)
    /\ command' = [command EXCEPT ![p] = NoCommand]
    /\ stores' = [stores EXCEPT ![p] = "up"]
    /\ UNCHANGED <<history, data, running, image, aside, folder, damage>>

\* A signed backup loses a file or some of its bytes.  The dump is not damaged
\* while a restore reads it: its checksum is compared only at the start.
Damage(f) ==
    /\ folder[f].manifest.signed /\ damage < MaxDamage /\ damage' = damage + 1
    /\ \E n \in Parts :
         /\ n = Database => \A p \in Deployment : command[p].does = "restore" => command[p].folder # f
         /\ folder' = [folder EXCEPT ![f].files[n] = Damaged]
    /\ UNCHANGED <<history, data, running, image, stores, aside, command>>

-----------------------------------------------------------------------------
(* Restore, into a deployment with no containers and no volumes.              *)

BeginRestore(p, f) ==
    /\ command[p] = NoCommand /\ Verified(f)
    /\ stores[p] = "none" /\ image[p] = "none" /\ \A q \in Parts : data[p][q] = Nothing
    /\ aside' = [aside EXCEPT ![p] = TRUE]
    /\ command' = [command EXCEPT ![p] = [NoCommand EXCEPT !.does = "restore", !.folder = f, !.at = "unpack"]]
    /\ UNCHANGED <<history, data, running, image, stores, folder, damage>>

Intact(f, v) == folder[f].files[v] = folder[f].manifest.sums[v]

\* What may be in a volume afterwards: all of the archive, or some.
Unpacked(f, v) == {Torn} \union {m \in {folder[f].files[v]} : Intact(f, v)}

\* A volume is created and filled by a container; the first that is not ends the restore.
Unpack(p) ==
    /\ Runs(p, "restore", "unpack")
    /\ \E v \in Volume : \E m \in Unpacked(command[p].folder, v) :
         /\ data[p][v] = Nothing /\ data' = [data EXCEPT ![p][v] = m]
         /\ command' = IF m = Torn THEN [command EXCEPT ![p] = NoCommand] ELSE command
    /\ UNCHANGED <<history, running, image, stores, aside, folder, damage>>

\* The database's own volume comes with its container, empty until it is loaded.
StartStores(p) ==
    /\ Runs(p, "restore", "unpack") /\ \A v \in Volume : data[p][v] # Nothing
    /\ Step(p, "load")
    /\ stores' = [stores EXCEPT ![p] = "up"]
    /\ data' = [data EXCEPT ![p][Database] = Torn]
    /\ UNCHANGED <<history, running, image, aside, folder, damage>>

Load(p) ==
    /\ Runs(p, "restore", "load") /\ Step(p, "compare")
    /\ data' = [data EXCEPT ![p][Database] = folder[command[p].folder].files[Database]]
    /\ UNCHANGED <<history, running, image, stores, aside, folder, damage>>

EndRestore(p) ==
    /\ Runs(p, "restore", "compare") /\ Quiescent(p)
    /\ Counts(p) = folder[command[p].folder].manifest.counts
    /\ aside' = [aside EXCEPT ![p] = FALSE]
    /\ command' = [command EXCEPT ![p] = NoCommand]
    /\ UNCHANGED <<history, data, running, image, stores, folder, damage>>

-----------------------------------------------------------------------------
(* Resume, with the image of the containers or, given a backup that counts    *)
(* the same rows, with another.                                               *)

Matches(p, f) == Verified(f) /\ folder[f].manifest.counts.rows = Counts(p).rows

BeginResume(p, i) ==
    /\ command[p] = NoCommand /\ stores[p] # "none"
    /\ Quiescent(p) /\ i \in Fits /\ ~Counts(p).open
    /\ i = image[p] \/ \E f \in Folder : Matches(p, f)
    /\ command' = [command EXCEPT ![p] = [NoCommand EXCEPT !.does = "resume", !.image = i, !.at = "start"]]
    /\ UNCHANGED <<history, data, running, image, stores, aside, folder, damage>>

\* The services start one by one, Redis and Qdrant before them.
StartWriter(p, w) ==
    /\ Runs(p, "resume", "start") /\ w \notin running[p]
    /\ stores' = [stores EXCEPT ![p] = "up"]
    /\ running' = [running EXCEPT ![p] = @ \union {w}]
    /\ image' = IF w = "api" THEN [image EXCEPT ![p] = command[p].image] ELSE image
    /\ UNCHANGED <<history, data, aside, command, folder, damage>>

\* All of them run and are healthy.
EndResume(p) ==
    /\ Runs(p, "resume", "start") /\ running[p] = Writers
    /\ command' = [command EXCEPT ![p] = NoCommand]
    /\ UNCHANGED <<history, data, running, image, stores, aside, folder, damage>>

\* The operator's, not the code's: which deployments commands are given to.
InService(p) == ~aside[p]

MaintenanceNext ==
    \/ \E p \in Deployment :
         \/ WriteData(p) \/ Enter(p) \/ Ends(p)
         \/ Dump(p) \/ StopStores(p) \/ Pack(p) \/ Sign(p) \/ EndBackup(p)
         \/ Unpack(p) \/ StartStores(p) \/ Load(p) \/ EndRestore(p) \/ EndResume(p)
         \/ \E f \in Folder : BeginRestore(p, f)
         \/ InService(p) /\ BeginBackup(p)
         \/ InService(p) /\ \E i \in Image : BeginResume(p, i)
         \/ \E w \in Writers : StartWriter(p, w)
    \/ \E f \in Folder : Damage(f)

MaintenanceSpec == MaintenanceInit /\ [][MaintenanceNext]_maintenanceVars

-----------------------------------------------------------------------------
\* Whatever a verification accepts as a backup holds the database and every
\* volume as they were at one moment, and the counters of that moment,
\* although they are copied one after the other and writers may have been
\* left running by a stop that failed; and writers run only on a deployment
\* whose parts are all of one moment, restored ones included.
BackupIsOneMoment ==
    /\ \A f \in Folder : Verified(f) =>
         \E m \in DOMAIN history :
           /\ \A n \in Parts : folder[f].files[n] = m
           /\ folder[f].manifest.counts = history[m]
    /\ \A p \in Deployment : running[p] # {} =>
         \E m \in DOMAIN history : \A q \in Parts : data[p][q] = m
=============================================================================
