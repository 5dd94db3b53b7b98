--------------------------- MODULE ReportsProofs ---------------------------
(***************************************************************************)
(* What is handed out as checked is what was checked: a backup of the      *)
(* deployment, a research report, and the accounts of a paid campaign.     *)
(***************************************************************************)
EXTENDS Maintenance, ResearchQuality, EvaluationCampaign, SequenceTheorems, FiniteSetTheorems, TLAPS

-----------------------------------------------------------------------------
(* Backups.  A deployment that is in use, or could be taken into use, holds   *)
(* one moment; a backup that is being made is of that moment, as far as it   *)
(* goes, because no command and no writer runs beside it; a signed manifest  *)
(* says so for good; and a restore that has come to an end holds what a      *)
(* signed manifest says.                                                     *)

Counters == [rows : Nat, open : BOOLEAN]
Contents == [Parts -> Int]
BackupPlaces == {"dump", "stop", "pack", "verify"}
RestorePlaces == {"unpack", "load", "compare"}
Commands ==
    [does : {"nothing", "backup", "restore", "resume"},
     folder : Folder \cup {"none"}, image : Image \cup {"none"},
     at : {"none", "start"} \cup BackupPlaces \cup RestorePlaces, counts : Counters]
Manifests == [signed : BOOLEAN, counts : Counters, sums : Contents]
Folders == [made : BOOLEAN, files : Contents, manifest : Manifests]

MaintenanceTypes ==
    /\ history \in Seq(Counters) /\ Len(history) > 0
    /\ data \in [Deployment -> Contents]
    /\ running \in [Deployment -> SUBSET Writers]
    /\ image \in [Deployment -> Image \cup {"none"}]
    /\ stores \in [Deployment -> {"none", "up", "stopped", "killed"}]
    /\ aside \in [Deployment -> BOOLEAN]
    /\ command \in [Deployment -> Commands]
    /\ folder \in [Folder -> Folders]

InUse(p) == stores[p] # "none" /\ ~aside[p]
Whole(p, m) == \A q \in Parts : data[p][q] = m

\* What may be used holds one moment.
Usable(p) ==
    /\ running[p] # {} \/ command[p].does \in {"backup", "resume"} => InUse(p)
    /\ InUse(p) => \E m \in DOMAIN history : Whole(p, m)

\* A folder while a backup of p goes into it.
BackingUp(p) ==
    LET c == command[p] f == folder[c.folder] IN
    c.does = "backup" =>
        /\ c.folder \in Folder /\ f.made /\ running[p] = {} /\ c.at \in BackupPlaces
        /\ c.counts = Counts(p)
        /\ c.at # "verify" =>
             ~f.manifest.signed /\ \A q \in Parts : f.files[q] \in {Nothing, data[p][q]}
        /\ c.at \in {"stop", "pack"} => f.files[Database] = data[p][Database]

\* Two backups do not share a folder.
Apart ==
    \A p, o \in Deployment :
        /\ command[p].does = "backup" /\ command[o].does = "backup"
        /\ command[p].folder = command[o].folder
        => p = o

\* A deployment while a backup is restored into it.
Restoring(p) ==
    LET c == command[p] f == folder[c.folder] IN
    c.does = "restore" =>
        /\ c.folder \in Folder /\ f.manifest.signed /\ running[p] = {} /\ aside[p]
        /\ c.at \in RestorePlaces
        /\ f.files[Database] = f.manifest.sums[Database]
        /\ \A v \in Volume :
             \/ data[p][v] = f.manifest.sums[v]
             \/ c.at = "unpack" /\ data[p][v] = Nothing
        /\ c.at = "compare" => data[p][Database] = f.manifest.sums[Database]

\* What a manifest says is true.
Truthful(f) ==
    /\ folder[f].manifest.signed =>
         \E m \in DOMAIN history :
           /\ \A n \in Parts : folder[f].manifest.sums[n] = m
           /\ folder[f].manifest.counts = history[m]
    /\ ~folder[f].made =>
         ~folder[f].manifest.signed /\ \A q \in Parts : folder[f].files[q] = Nothing

MaintenanceInv ==
    /\ MaintenanceTypes
    /\ \A p \in Deployment : Usable(p) /\ BackingUp(p) /\ Restoring(p)
    /\ Apart
    /\ \A f \in Folder : Truthful(f)

LEMMA NoCommandIs == NoCommand \in Commands /\ NoCommand.does = "nothing"
  BY DEF NoCommand, Commands, Counters

LEMMA PartsAre == Database \in Parts /\ Volume \subseteq Parts /\ Nothing \in Int /\ Torn \in Int /\ Damaged \in Int
  BY DEF Parts, Nothing, Torn, Damaged

LEMMA InvAtStart == MaintenanceInit => MaintenanceInv
<1> SUFFICES ASSUME MaintenanceInit PROVE MaintenanceInv
  OBVIOUS
<1> USE NoCommandIs, PartsAre
<1>1. history \in Seq(Counters) /\ Len(history) = 1 /\ 1 \in DOMAIN history
  BY DEF MaintenanceInit, Counters
<1>2. NoManifest \in Manifests /\ ~NoManifest.signed
  BY DEF NoManifest, Manifests, Contents, Counters, NoCommand
<1>3. folder \in [Folder -> Folders]
  BY <1>2 DEF MaintenanceInit, Folders, Contents
<1>4. MaintenanceTypes
  <2>1. data \in [Deployment -> Contents]
    BY DEF MaintenanceInit, Contents
  <2>2. running \in [Deployment -> SUBSET Writers] /\ image \in [Deployment -> Image \cup {"none"}]
    BY MaintenanceAssumption DEF MaintenanceInit
  <2>3. /\ stores \in [Deployment -> {"none", "up", "stopped", "killed"}]
        /\ aside \in [Deployment -> BOOLEAN] /\ command \in [Deployment -> Commands]
    BY DEF MaintenanceInit
  <2> QED  BY <1>1, <1>3, <2>1, <2>2, <2>3 DEF MaintenanceTypes
<1>5. ASSUME NEW p \in Deployment PROVE Usable(p) /\ BackingUp(p) /\ Restoring(p)
  BY <1>1 DEF MaintenanceInit, Usable, InUse, Whole, BackingUp, Restoring
<1>6. Apart
  BY DEF MaintenanceInit, Apart
<1>7. ASSUME NEW f \in Folder PROVE Truthful(f)
  BY <1>2 DEF MaintenanceInit, Truthful
<1> QED  BY <1>4, <1>5, <1>6, <1>7 DEF MaintenanceInv

\* Who is not touched, and whose folder is not, is as before.
LEMMA OthersKeep ==
    ASSUME NEW o, Usable(o), BackingUp(o), Restoring(o),
           history' = history, data'[o] = data[o], running'[o] = running[o],
           stores'[o] = stores[o], aside'[o] = aside[o], command'[o] = command[o],
           command[o].does \in {"backup", "restore"}
             => folder'[command[o].folder] = folder[command[o].folder]
    PROVE  Usable(o)' /\ BackingUp(o)' /\ Restoring(o)'
<1>1. Usable(o)'
  BY DEF Usable, InUse, Whole
<1>2. BackingUp(o)'
  BY DEF BackingUp, Counts
<1>3. Restoring(o)'
  BY DEF Restoring
<1> QED  BY <1>1, <1>2, <1>3

\* A step of one deployment's command: what is to be shown of it.
LEMMA OneStep ==
    ASSUME MaintenanceInv, NEW p \in Deployment, history' = history, MaintenanceTypes',
           \A o \in Deployment : o # p =>
             /\ data'[o] = data[o] /\ running'[o] = running[o] /\ stores'[o] = stores[o]
             /\ aside'[o] = aside[o] /\ command'[o] = command[o],
           \A f \in Folder : folder'[f] # folder[f] =>
             /\ Truthful(f)'
             /\ \A o \in Deployment : o # p /\ command[o].does \in {"backup", "restore"} =>
                  command[o].folder # f,
           command'[p].does = "backup" => \A o \in Deployment :
             o # p /\ command[o].does = "backup" => command[o].folder # command'[p].folder,
           Usable(p)' /\ BackingUp(p)' /\ Restoring(p)'
    PROVE  MaintenanceInv'
<1>1. ASSUME NEW o \in Deployment, o # p PROVE Usable(o)' /\ BackingUp(o)' /\ Restoring(o)'
  <2>1. Usable(o) /\ BackingUp(o) /\ Restoring(o)
    BY DEF MaintenanceInv
  <2>2. command[o].does \in {"backup", "restore"} => command[o].folder \in Folder
    BY <2>1 DEF BackingUp, Restoring
  <2> QED  BY <1>1, <2>1, <2>2, OthersKeep
<1>2. Apart'
  <2> SUFFICES ASSUME NEW q \in Deployment, NEW o \in Deployment, o # p, q # o,
                      command'[q].does = "backup", command'[o].does = "backup"
               PROVE  command'[q].folder # command'[o].folder
    BY DEF Apart
  <2>1. command'[o] = command[o] /\ (q = p \/ command'[q] = command[q])
    OBVIOUS
  <2> QED  BY <2>1 DEF Apart, MaintenanceInv
<1>3. ASSUME NEW f \in Folder PROVE Truthful(f)'
  <2>1. Truthful(f)
    BY DEF MaintenanceInv
  <2>2. CASE folder'[f] = folder[f]
    BY <2>1, <2>2 DEF Truthful
  <2> QED  BY <2>2
<1>4. Usable(p)' /\ BackingUp(p)' /\ Restoring(p)'
  OBVIOUS
<1>5. \A o \in Deployment : Usable(o)' /\ BackingUp(o)' /\ Restoring(o)'
  BY <1>1, <1>4
<1> QED  BY <1>2, <1>3, <1>5 DEF MaintenanceInv

\* The folder of a backup that is being made is nobody else's.
LEMMA OwnFolder ==
    ASSUME MaintenanceInv, NEW p \in Deployment, command[p].does = "backup",
           ~folder[command[p].folder].manifest.signed,
           NEW o \in Deployment, o # p, command[o].does \in {"backup", "restore"}
    PROVE  command[o].folder # command[p].folder
<1>1. Restoring(o)
  BY DEF MaintenanceInv
<1> QED  BY <1>1 DEF Restoring, Apart, MaintenanceInv

\* What is known of the backup that p is making.
LEMMA BackupIs ==
    ASSUME MaintenanceInv, NEW p \in Deployment, command[p].does = "backup"
    PROVE  /\ command[p] \in Commands /\ command[p].folder \in Folder
           /\ folder[command[p].folder] \in Folders /\ data[p] \in Contents
           /\ InUse(p) /\ running[p] = {} /\ BackingUp(p) /\ Usable(p)
           /\ Truthful(command[p].folder)
  BY DEF MaintenanceInv, MaintenanceTypes, BackingUp, Usable

\* A step that only writes into the folder of a backup, and goes on.
LEMMA BackupGoesOn ==
    ASSUME MaintenanceInv, NEW p \in Deployment, NEW g \in Folder, g = command[p].folder,
           command[p].does = "backup", ~folder[g].manifest.signed,
           NEW at \in {"dump", "stop", "pack", "verify"}, NEW F \in Folders,
           command' = [command EXCEPT ![p].at = at], folder' = [folder EXCEPT ![g] = F],
           UNCHANGED <<history, data, running, image, aside>>,
           stores' \in [Deployment -> {"none", "up", "stopped", "killed"}],
           stores'[p] # "none", \A o \in Deployment : o # p => stores'[o] = stores[o],
           F.made = folder[g].made,
           at # "verify" =>
             ~F.manifest.signed /\ \A q \in Parts : F.files[q] \in {Nothing, data[p][q]},
           at \in {"stop", "pack"} => F.files[Database] = data[p][Database],
           F.manifest.signed => \E m \in DOMAIN history :
             (\A n \in Parts : F.manifest.sums[n] = m) /\ F.manifest.counts = history[m]
    PROVE  MaintenanceInv'
<1>1. /\ command[p] \in Commands /\ folder[g] \in Folders /\ data[p] \in Contents
      /\ InUse(p) /\ running[p] = {} /\ BackingUp(p) /\ Usable(p) /\ folder[g].made
  BY BackupIs DEF BackingUp
<1>2. PICK c \in Commands : c = [command[p] EXCEPT !.at = at]
  BY <1>1 DEF Commands, BackupPlaces
<1>3. command' = [command EXCEPT ![p] = c]
  BY <1>2 DEF MaintenanceInv, MaintenanceTypes
<1>4. c.does = "backup" /\ c.folder = g /\ c.at = at /\ c.counts = command[p].counts
  BY <1>1, <1>2 DEF Commands
<1>5. MaintenanceTypes'
  <2>1. folder' \in [Folder -> Folders] /\ command' \in [Deployment -> Commands]
    BY <1>3 DEF MaintenanceInv, MaintenanceTypes
  <2>2. QED  BY <2>1 DEF MaintenanceInv, MaintenanceTypes
<1>6. command'[p] = c /\ folder'[g] = F
      /\ (\A o \in Deployment : o # p => command'[o] = command[o])
      /\ (\A f \in Folder : f # g => folder'[f] = folder[f])
  BY <1>3 DEF MaintenanceInv, MaintenanceTypes
<1>7. Usable(p)'
  BY <1>1, <1>4, <1>6 DEF Usable, InUse, Whole
<1>8. BackingUp(p)'
  <2>1. command[p].counts = Counts(p) /\ Counts(p)' = Counts(p)
    BY <1>1 DEF BackingUp, Counts
  <2>2. F.made /\ running'[p] = {} /\ data' = data /\ at \in BackupPlaces
    BY <1>1 DEF BackupPlaces
  <2>3. command'[p].folder = g /\ command'[p].at = at /\ command'[p].counts = Counts(p)'
    BY <1>4, <1>6, <2>1
  <2> QED  BY <1>6, <2>2, <2>3 DEF BackingUp
<1>9. Restoring(p)'
  BY <1>4, <1>6 DEF Restoring
<1>10. Truthful(g)'
  <2>1. F.made /\ history' = history
    BY <1>1
  <2> QED  BY <1>6, <2>1 DEF Truthful
<1>11. \A o \in Deployment : o # p /\ command[o].does \in {"backup", "restore"} => command[o].folder # g
  BY OwnFolder
<1>12. \A o \in Deployment : o # p /\ command[o].does = "backup" => command[o].folder # command'[p].folder
  BY <1>4, <1>6, <1>11
<1>13. ASSUME NEW f \in Folder, folder'[f] # folder[f]
       PROVE  /\ Truthful(f)'
              /\ \A o \in Deployment : o # p /\ command[o].does \in {"backup", "restore"} =>
                   command[o].folder # f
  BY <1>6, <1>10, <1>11, <1>13
<1> QED  BY <1>5, <1>6, <1>7, <1>8, <1>9, <1>12, <1>13, OneStep

LEMMA DumpKeeps == ASSUME MaintenanceInv, NEW p \in Deployment, Dump(p) PROVE MaintenanceInv'
<1> USE PartsAre
<1>1. command[p].does = "backup" /\ command[p].at = "dump"
  BY DEF Dump, Runs
<1>2. PICK g \in Folder : g = command[p].folder
  BY <1>1, BackupIs
<1>3. /\ folder[g] \in Folders /\ data[p] \in Contents /\ InUse(p) /\ BackingUp(p)
      /\ stores \in [Deployment -> {"none", "up", "stopped", "killed"}] /\ stores[p] # "none"
  BY <1>1, <1>2, BackupIs DEF MaintenanceInv, MaintenanceTypes, InUse
<1>4. PICK F \in Folders : F = [folder[g] EXCEPT !.files[Database] = data[p][Database]]
  BY <1>3 DEF Folders, Contents
<1>5. F.made = folder[g].made /\ F.manifest = folder[g].manifest
      /\ F.files[Database] = data[p][Database]
      /\ \A q \in Parts : q # Database => F.files[q] = folder[g].files[q]
  BY <1>3, <1>4 DEF Folders, Contents
<1>6. /\ command' = [command EXCEPT ![p].at = "stop"] /\ folder' = [folder EXCEPT ![g] = F]
      /\ UNCHANGED <<history, data, running, image, stores, aside>>
  BY <1>2, <1>4 DEF Dump, Step, MaintenanceInv, MaintenanceTypes
<1>7. ~folder[g].manifest.signed /\ \A q \in Parts : F.files[q] \in {Nothing, data[p][q]}
  BY <1>1, <1>2, <1>3, <1>5 DEF BackingUp
<1> QED  BY <1>1, <1>2, <1>3, <1>5, <1>6, <1>7, BackupGoesOn

LEMMA StopStoresKeeps == ASSUME MaintenanceInv, NEW p \in Deployment, StopStores(p) PROVE MaintenanceInv'
<1>1. command[p].does = "backup" /\ command[p].at = "stop"
  BY DEF StopStores, Runs
<1>2. PICK g \in Folder : g = command[p].folder
  BY <1>1, BackupIs
<1>3. /\ folder[g] \in Folders /\ InUse(p) /\ BackingUp(p)
      /\ stores \in [Deployment -> {"none", "up", "stopped", "killed"}] /\ stores[p] # "none"
  BY <1>1, <1>2, BackupIs DEF MaintenanceInv, MaintenanceTypes, InUse
<1>4. PICK F \in Folders : F = folder[g]
  BY <1>3
<1>5. /\ command' = [command EXCEPT ![p].at = "pack"] /\ folder' = [folder EXCEPT ![g] = F]
      /\ UNCHANGED <<history, data, running, image, aside>>
  BY <1>2, <1>4 DEF StopStores, Step, MaintenanceInv, MaintenanceTypes
<1>6. /\ stores' \in [Deployment -> {"none", "up", "stopped", "killed"}] /\ stores'[p] # "none"
      /\ \A o \in Deployment : o # p => stores'[o] = stores[o]
  BY <1>3 DEF StopStores
<1>7. /\ ~F.manifest.signed /\ F.files[Database] = data[p][Database]
      /\ \A q \in Parts : F.files[q] \in {Nothing, data[p][q]}
  BY <1>1, <1>2, <1>3, <1>4 DEF BackingUp
<1> QED  BY <1>1, <1>2, <1>4, <1>5, <1>6, <1>7, BackupGoesOn

LEMMA PackKeeps == ASSUME MaintenanceInv, NEW p \in Deployment, Pack(p) PROVE MaintenanceInv'
<1> USE PartsAre
<1>1. command[p].does = "backup" /\ command[p].at = "pack"
  BY DEF Pack, Runs
<1>2. PICK g \in Folder : g = command[p].folder
  BY <1>1, BackupIs
<1>3. /\ command[p] \in Commands /\ folder[g] \in Folders /\ data[p] \in Contents /\ InUse(p) /\ BackingUp(p)
      /\ stores \in [Deployment -> {"none", "up", "stopped", "killed"}] /\ stores[p] # "none"
  BY <1>1, <1>2, BackupIs DEF MaintenanceInv, MaintenanceTypes, InUse
<1>4. PICK v \in Volume : folder' = [folder EXCEPT ![g].files[v] = data[p][v]]
  BY <1>2 DEF Pack
<1>5. PICK F \in Folders : F = [folder[g] EXCEPT !.files[v] = data[p][v]]
  BY <1>3 DEF Folders, Contents
<1>6. F.made = folder[g].made /\ F.manifest = folder[g].manifest
      /\ F.files[v] = data[p][v]
      /\ \A q \in Parts : q # v => F.files[q] = folder[g].files[q]
  BY <1>3, <1>5 DEF Folders, Contents
<1>7. /\ command' = [command EXCEPT ![p].at = "pack"] /\ folder' = [folder EXCEPT ![g] = F]
      /\ UNCHANGED <<history, data, running, image, stores, aside>>
  <2>1. command[p] = [command[p] EXCEPT !.at = "pack"]
    BY <1>1, <1>3 DEF Commands
  <2>2. command = [command EXCEPT ![p].at = "pack"]
    BY <2>1 DEF MaintenanceInv, MaintenanceTypes
  <2> QED  BY <2>2, <1>4, <1>5 DEF Pack, MaintenanceInv, MaintenanceTypes
<1>8. /\ ~F.manifest.signed /\ F.files[Database] = data[p][Database]
      /\ \A q \in Parts : F.files[q] \in {Nothing, data[p][q]}
  BY <1>1, <1>2, <1>3, <1>6 DEF BackingUp
<1> QED  BY <1>1, <1>2, <1>3, <1>6, <1>7, <1>8, BackupGoesOn

LEMMA SignKeeps == ASSUME MaintenanceInv, NEW p \in Deployment, Sign(p) PROVE MaintenanceInv'
<1> USE PartsAre
<1>1. command[p].does = "backup" /\ command[p].at = "pack"
  BY DEF Sign, Runs
<1>2. PICK g \in Folder : g = command[p].folder
  BY <1>1, BackupIs
<1>3. /\ command[p] \in Commands /\ folder[g] \in Folders /\ data[p] \in Contents /\ InUse(p)
      /\ BackingUp(p) /\ Usable(p)
      /\ stores \in [Deployment -> {"none", "up", "stopped", "killed"}] /\ stores[p] # "none"
  BY <1>1, <1>2, BackupIs DEF MaintenanceInv, MaintenanceTypes, InUse
<1>4. PICK m \in DOMAIN history : Whole(p, m)
  BY <1>3 DEF Usable
<1>5. \A q \in Parts : folder[g].files[q] = m
  BY <1>1, <1>2, <1>3, <1>4 DEF Sign, BackingUp, Whole, Parts
<1>6. command[p].counts = history[m]
  BY <1>1, <1>3, <1>4 DEF BackingUp, Counts, Whole
<1>7. PICK M \in Manifests :
        M = [signed |-> TRUE, counts |-> command[p].counts, sums |-> folder[g].files]
  BY <1>3 DEF Manifests, Commands, Folders
<1>8. PICK F \in Folders : F = [folder[g] EXCEPT !.manifest = M]
  BY <1>3 DEF Folders
<1>9. /\ F.made = folder[g].made /\ F.manifest = M
      /\ \A n \in Parts : F.manifest.sums[n] = m
      /\ F.manifest.counts = history[m]
  BY <1>3, <1>5, <1>6, <1>7, <1>8 DEF Folders
<1>10. /\ command' = [command EXCEPT ![p].at = "verify"] /\ folder' = [folder EXCEPT ![g] = F]
       /\ UNCHANGED <<history, data, running, image, stores, aside>>
  BY <1>2, <1>7, <1>8 DEF Sign, Step, MaintenanceInv, MaintenanceTypes
<1>11. ~folder[g].manifest.signed
  BY <1>1, <1>2, <1>3 DEF BackingUp
<1> QED  BY <1>1, <1>2, <1>3, <1>4, <1>5, <1>6, <1>7, <1>9, <1>10, <1>11, BackupGoesOn

\* A step of a deployment that leaves the folders alone.
LEMMA FoldersStay ==
    ASSUME MaintenanceInv, NEW p \in Deployment, NEW c \in Commands,
           command' = [command EXCEPT ![p] = c], UNCHANGED <<history, folder>>,
           data' \in [Deployment -> Contents], running' \in [Deployment -> SUBSET Writers],
           image' \in [Deployment -> Image \cup {"none"}],
           stores' \in [Deployment -> {"none", "up", "stopped", "killed"}],
           aside' \in [Deployment -> BOOLEAN],
           \A o \in Deployment : o # p =>
             /\ data'[o] = data[o] /\ running'[o] = running[o] /\ stores'[o] = stores[o]
             /\ aside'[o] = aside[o],
           c.does = "backup" => command[p].does = "backup" /\ command[p].folder = c.folder,
           Usable(p)' /\ BackingUp(p)' /\ Restoring(p)'
    PROVE  MaintenanceInv'
<1>1. MaintenanceTypes'
  BY DEF MaintenanceInv, MaintenanceTypes
<1>2. command'[p] = c /\ \A o \in Deployment : o # p => command'[o] = command[o]
  BY DEF MaintenanceInv, MaintenanceTypes
<1>3. c.does = "backup" => \A o \in Deployment :
        o # p /\ command[o].does = "backup" => command[o].folder # c.folder
  BY DEF MaintenanceInv, Apart
<1> QED  BY <1>1, <1>2, <1>3, OneStep

\* A command that is over, or a killed one, leaves what it did.
LEMMA CommandIsOver ==
    ASSUME MaintenanceInv, NEW p \in Deployment, command' = [command EXCEPT ![p] = NoCommand],
           UNCHANGED <<history, data, running, image, aside, folder>>,
           \/ UNCHANGED stores
           \/ command[p].does = "backup" /\ stores' = [stores EXCEPT ![p] = "up"]
    PROVE  MaintenanceInv'
<1>1. command'[p] = NoCommand
  BY DEF MaintenanceInv, MaintenanceTypes
<1>2. Usable(p)
  BY DEF MaintenanceInv
<1>3. /\ stores' \in [Deployment -> {"none", "up", "stopped", "killed"}]
      /\ \A o \in Deployment : o # p => stores'[o] = stores[o]
      /\ InUse(p)' <=> InUse(p)
  BY <1>2 DEF MaintenanceInv, MaintenanceTypes, Usable, InUse
<1>4. Usable(p)'
  BY <1>1, <1>2, <1>3, NoCommandIs DEF Usable, Whole
<1>5. BackingUp(p)' /\ Restoring(p)'
  BY <1>1, NoCommandIs DEF BackingUp, Restoring
<1> QED  BY <1>3, <1>4, <1>5, NoCommandIs, FoldersStay DEF MaintenanceInv, MaintenanceTypes

LEMMA EndsKeeps == ASSUME MaintenanceInv, NEW p \in Deployment, Ends(p) PROVE MaintenanceInv'
  BY CommandIsOver DEF Ends

LEMMA EndBackupKeeps == ASSUME MaintenanceInv, NEW p \in Deployment, EndBackup(p) PROVE MaintenanceInv'
  BY CommandIsOver DEF EndBackup, Runs

LEMMA EndResumeKeeps == ASSUME MaintenanceInv, NEW p \in Deployment, EndResume(p) PROVE MaintenanceInv'
  BY CommandIsOver DEF EndResume

LEMMA EnterKeeps == ASSUME MaintenanceInv, NEW p \in Deployment, Enter(p) PROVE MaintenanceInv'
<1>1. command[p] = NoCommand /\ command' = [command EXCEPT ![p] = NoCommand]
  BY DEF Enter, MaintenanceInv, MaintenanceTypes
<1>2. PICK still \in SUBSET running[p] : running' = [running EXCEPT ![p] = still]
  BY DEF Enter
<1>3. /\ running' \in [Deployment -> SUBSET Writers] /\ running'[p] \subseteq running[p]
      /\ \A o \in Deployment : o # p => running'[o] = running[o]
  BY <1>2 DEF MaintenanceInv, MaintenanceTypes
<1>4. Usable(p)
  BY DEF MaintenanceInv
<1>5. UNCHANGED <<history, data, image, stores, aside, command, folder>>
  BY DEF Enter
<1>6. Usable(p)'
  BY <1>3, <1>4, <1>5 DEF Usable, InUse, Whole
<1>7. BackingUp(p)' /\ Restoring(p)'
  BY <1>1, <1>5, NoCommandIs DEF BackingUp, Restoring
<1> QED  BY <1>1, <1>3, <1>5, <1>6, <1>7, NoCommandIs, FoldersStay DEF MaintenanceInv, MaintenanceTypes

LEMMA WriteDataKeeps == ASSUME MaintenanceInv, NEW p \in Deployment, WriteData(p) PROVE MaintenanceInv'
<1> USE PartsAre
<1>1. running[p] # {} /\ Usable(p) /\ InUse(p) /\ history \in Seq(Counters) /\ Len(history) \in Nat
      /\ data \in [Deployment -> Contents]
  BY DEF WriteData, MaintenanceInv, MaintenanceTypes, Usable
<1>2. Counts(p) \in Counters
  BY <1>1 DEF Usable, Whole, Counts
<1>3. PICK r \in Counters : history' = Append(history, r)
  BY <1>2 DEF WriteData, Counters
<1>4. /\ history' \in Seq(Counters) /\ Len(history') = Len(history) + 1
      /\ Len(history') \in DOMAIN history'
      /\ \A m \in DOMAIN history : m \in DOMAIN history' /\ history'[m] = history[m]
  BY <1>1, <1>3
<1>5. PICK n \in Nat : n = Len(history) + 1
  BY <1>1
<1>6. PICK D \in Contents : D = [q \in Parts |-> n]
  <2>1. [q \in Parts |-> n] \in Contents
    BY <1>5 DEF Contents
  <2> QED  BY <2>1
<1>7. data' = [data EXCEPT ![p] = D] /\ UNCHANGED <<running, image, stores, aside, command, folder>>
  BY <1>4, <1>5, <1>6 DEF WriteData
<1>8. /\ data'[p] = D /\ data' \in [Deployment -> Contents]
      /\ \A o \in Deployment : o # p => data'[o] = data[o]
  BY <1>1, <1>7
<1>9. MaintenanceTypes'
  BY <1>1, <1>4, <1>7, <1>8 DEF MaintenanceInv, MaintenanceTypes
<1>10. ASSUME NEW o \in Deployment PROVE Usable(o)' /\ BackingUp(o)' /\ Restoring(o)'
  <2>1. Usable(o) /\ BackingUp(o) /\ Restoring(o)
    BY DEF MaintenanceInv
  <2>2. CASE o = p
    <3>1. command[p].does \notin {"backup", "restore"}
      BY <1>1, <2>1, <2>2 DEF BackingUp, Restoring
    <3>2. Whole(p, n)'
      BY <1>6, <1>8 DEF Whole
    <3> QED  BY <1>4, <1>5, <1>7, <2>1, <2>2, <3>1, <3>2 DEF Usable, InUse, BackingUp, Restoring
  <2>3. CASE o # p
    <3>1. Usable(o)'
      BY <1>4, <1>7, <1>8, <2>1, <2>3 DEF Usable, InUse, Whole
    <3>2. BackingUp(o)'
      <4>1. command[o].does = "backup" => Counts(o)' = Counts(o)
        BY <1>4, <1>8, <2>1, <2>3 DEF Usable, Whole, Counts
      <4> QED  BY <1>7, <1>8, <2>1, <2>3, <4>1 DEF BackingUp
    <3>3. Restoring(o)'
      BY <1>7, <1>8, <2>1, <2>3 DEF Restoring
    <3> QED  BY <3>1, <3>2, <3>3
  <2> QED  BY <2>2, <2>3
<1>11. Apart'
  BY <1>7 DEF MaintenanceInv, Apart
<1>12. ASSUME NEW f \in Folder PROVE Truthful(f)'
  <2>1. Truthful(f)
    BY DEF MaintenanceInv
  <2> QED  BY <1>4, <1>7, <2>1 DEF Truthful
<1> QED  BY <1>9, <1>10, <1>11, <1>12 DEF MaintenanceInv

LEMMA BeginBackupKeeps ==
    ASSUME MaintenanceInv, NEW p \in Deployment, InService(p), BeginBackup(p)
    PROVE  MaintenanceInv'
<1> USE PartsAre
<1>1. PICK g \in Folder : g = NewFolder /\ ~folder[g].made
  BY DEF BeginBackup, NewFolder
<1>2. /\ InUse(p) /\ running[p] = {} /\ folder[g] \in Folders /\ data[p] \in Contents /\ Truthful(g)
      /\ Usable(p)
  BY DEF InService, BeginBackup, Quiescent, InUse, MaintenanceInv, MaintenanceTypes
<1>3. PICK F \in Folders : F = [folder[g] EXCEPT !.made = TRUE]
  BY <1>2 DEF Folders
<1>4. Counts(p) \in Counters
  BY <1>2 DEF Usable, Whole, Counts, MaintenanceInv, MaintenanceTypes
<1>5. PICK c \in Commands :
        c = [NoCommand EXCEPT !.does = "backup", !.folder = g, !.at = "dump", !.counts = Counts(p)]
  BY <1>4, NoCommandIs DEF Commands, BackupPlaces
<1>6. /\ F.made /\ F.files = folder[g].files /\ F.manifest = folder[g].manifest
      /\ c.does = "backup" /\ c.folder = g /\ c.at = "dump" /\ c.counts = Counts(p)
  BY <1>2, <1>3, <1>5, NoCommandIs DEF Folders, Commands
<1>7. /\ command' = [command EXCEPT ![p] = c] /\ folder' = [folder EXCEPT ![g] = F]
      /\ UNCHANGED <<history, data, running, image, stores, aside>>
  BY <1>1, <1>3, <1>5 DEF BeginBackup, MaintenanceInv, MaintenanceTypes
<1>8. /\ command'[p] = c /\ folder'[g] = F
      /\ (\A o \in Deployment : o # p => command'[o] = command[o])
      /\ (\A f \in Folder : f # g => folder'[f] = folder[f])
  BY <1>7 DEF MaintenanceInv, MaintenanceTypes
<1>9. MaintenanceTypes'
  BY <1>7 DEF MaintenanceInv, MaintenanceTypes
<1>10. ~F.manifest.signed /\ \A q \in Parts : F.files[q] = Nothing
  BY <1>1, <1>2, <1>6 DEF Truthful
<1>11. \A o \in Deployment : command[o].does \in {"backup", "restore"} => command[o].folder # g
  <2>1. \A o \in Deployment : BackingUp(o) /\ Restoring(o)
    BY DEF MaintenanceInv
  <2> QED  BY <1>1, <1>6, <1>10, <2>1 DEF BackingUp, Restoring
<1>12. Usable(p)'
  BY <1>2, <1>6, <1>7, <1>8 DEF Usable, InUse, Whole
<1>13. BackingUp(p)'
  <2>1. Counts(p)' = Counts(p)
    BY <1>7 DEF Counts
  <2> QED  BY <1>2, <1>6, <1>7, <1>8, <1>10, <2>1 DEF BackingUp, BackupPlaces
<1>14. Restoring(p)'
  BY <1>6, <1>8 DEF Restoring
<1>15. Truthful(g)'
  BY <1>6, <1>8, <1>10 DEF Truthful
<1>16. ASSUME NEW f \in Folder, folder'[f] # folder[f]
       PROVE  /\ Truthful(f)'
              /\ \A o \in Deployment : o # p /\ command[o].does \in {"backup", "restore"} =>
                   command[o].folder # f
  BY <1>8, <1>11, <1>15, <1>16
<1> QED  BY <1>6, <1>7, <1>8, <1>9, <1>11, <1>12, <1>13, <1>14, <1>16, OneStep

LEMMA DamageKeeps == ASSUME MaintenanceInv, NEW f \in Folder, Damage(f) PROVE MaintenanceInv'
<1> USE PartsAre
<1>1. /\ folder[f].manifest.signed
      /\ UNCHANGED <<history, data, running, image, stores, aside, command>>
      /\ folder[f] \in Folders
  BY DEF Damage, MaintenanceInv, MaintenanceTypes
<1>2. PICK n \in Parts :
        /\ n = Database => \A p \in Deployment : command[p].does = "restore" => command[p].folder # f
        /\ folder' = [folder EXCEPT ![f].files[n] = Damaged]
  BY DEF Damage
<1>3. PICK F \in Folders : F = [folder[f] EXCEPT !.files[n] = Damaged]
  BY <1>1 DEF Folders, Contents
<1>4. /\ F.made = folder[f].made /\ F.manifest = folder[f].manifest
      /\ \A q \in Parts : q # n => F.files[q] = folder[f].files[q]
  BY <1>1, <1>3 DEF Folders, Contents
<1>5. /\ folder' = [folder EXCEPT ![f] = F] /\ folder'[f] = F
      /\ \A g \in Folder : g # f => folder'[g] = folder[g]
  BY <1>2, <1>3 DEF MaintenanceInv, MaintenanceTypes
<1>6. MaintenanceTypes'
  BY <1>1, <1>5 DEF MaintenanceInv, MaintenanceTypes
<1>7. ASSUME NEW p \in Deployment PROVE Usable(p)' /\ BackingUp(p)' /\ Restoring(p)'
  <2>1. Usable(p) /\ BackingUp(p) /\ Restoring(p)
    BY DEF MaintenanceInv
  <2>2. Usable(p)'
    BY <1>1, <2>1 DEF Usable, InUse, Whole
  <2>3. BackingUp(p)'
    <3>1. Counts(p)' = Counts(p)
      BY <1>1 DEF Counts
    <3>2. CASE command[p].folder = f
      BY <1>1, <1>4, <1>5, <2>1, <3>1, <3>2 DEF BackingUp, BackupPlaces
    <3>3. CASE command[p].folder # f
      BY <1>1, <1>5, <2>1, <3>1, <3>3 DEF BackingUp
    <3> QED  BY <3>2, <3>3
  <2>4. Restoring(p)'
    <3>1. CASE command[p].folder = f
      BY <1>1, <1>2, <1>4, <1>5, <2>1, <3>1 DEF Restoring
    <3>2. CASE command[p].folder # f
      BY <1>1, <1>5, <2>1, <3>2 DEF Restoring
    <3> QED  BY <3>1, <3>2
  <2> QED  BY <2>2, <2>3, <2>4
<1>8. Apart'
  BY <1>1 DEF MaintenanceInv, Apart
<1>9. ASSUME NEW g \in Folder PROVE Truthful(g)'
  <2>1. Truthful(g)
    BY DEF MaintenanceInv
  <2>2. CASE g = f
    BY <1>1, <1>4, <1>5, <2>1, <2>2 DEF Truthful
  <2>3. CASE g # f
    BY <1>1, <1>5, <2>1, <2>3 DEF Truthful
  <2> QED  BY <2>2, <2>3
<1> QED  BY <1>6, <1>7, <1>8, <1>9 DEF MaintenanceInv

\* What is known of the backup that is restored into p.
LEMMA RestoreIs ==
    ASSUME MaintenanceInv, NEW p \in Deployment, command[p].does = "restore"
    PROVE  /\ command[p] \in Commands /\ command[p].folder \in Folder
           /\ folder[command[p].folder] \in Folders /\ data[p] \in Contents
           /\ aside[p] /\ running[p] = {} /\ Restoring(p) /\ Usable(p)
           /\ Truthful(command[p].folder)
  BY DEF MaintenanceInv, MaintenanceTypes, Restoring

LEMMA BeginRestoreKeeps ==
    ASSUME MaintenanceInv, NEW p \in Deployment, NEW f \in Folder, BeginRestore(p, f)
    PROVE  MaintenanceInv'
<1> USE PartsAre
<1>1. /\ folder[f].manifest.signed /\ folder[f].files = folder[f].manifest.sums
      /\ stores[p] = "none" /\ \A q \in Parts : data[p][q] = Nothing
      /\ aside' = [aside EXCEPT ![p] = TRUE]
      /\ UNCHANGED <<history, data, running, image, stores, folder>>
  BY DEF BeginRestore, Verified
<1>2. PICK c \in Commands : c = [NoCommand EXCEPT !.does = "restore", !.folder = f, !.at = "unpack"]
  BY NoCommandIs DEF Commands, RestorePlaces
<1>3. c.does = "restore" /\ c.folder = f /\ c.at = "unpack"
  BY <1>2, NoCommandIs DEF Commands
<1>4. command' = [command EXCEPT ![p] = c] /\ command'[p] = c
  BY <1>2 DEF BeginRestore, MaintenanceInv, MaintenanceTypes
<1>5. /\ aside' \in [Deployment -> BOOLEAN] /\ aside'[p]
      /\ \A o \in Deployment : o # p => aside'[o] = aside[o]
  BY <1>1 DEF MaintenanceInv, MaintenanceTypes
<1>6. running[p] = {}
  BY <1>1 DEF MaintenanceInv, Usable, InUse
<1>7. Usable(p)'
  BY <1>1, <1>3, <1>4, <1>5, <1>6 DEF Usable, InUse
<1>8. BackingUp(p)'
  BY <1>3, <1>4 DEF BackingUp
<1>9. Restoring(p)'
  BY <1>1, <1>3, <1>4, <1>5, <1>6 DEF Restoring, RestorePlaces
<1> QED  BY <1>1, <1>3, <1>4, <1>5, <1>7, <1>8, <1>9, FoldersStay DEF MaintenanceInv, MaintenanceTypes

LEMMA UnpackKeeps == ASSUME MaintenanceInv, NEW p \in Deployment, Unpack(p) PROVE MaintenanceInv'
<1> USE PartsAre
<1>1. command[p].does = "restore" /\ command[p].at = "unpack"
  BY DEF Unpack, Runs
<1>2. PICK g \in Folder : g = command[p].folder
  BY <1>1, RestoreIs
<1>3. /\ command[p] \in Commands /\ folder[g] \in Folders /\ data[p] \in Contents
      /\ aside[p] /\ running[p] = {} /\ Restoring(p) /\ folder[g].manifest \in Manifests
  BY <1>1, <1>2, RestoreIs DEF Folders
<1>4. PICK v \in Volume : \E m \in Unpacked(g, v) :
        /\ data' = [data EXCEPT ![p][v] = m]
        /\ command' = IF m = Torn THEN [command EXCEPT ![p] = NoCommand] ELSE command
  BY <1>2 DEF Unpack
<1>5. PICK m \in Unpacked(g, v) :
        /\ data' = [data EXCEPT ![p][v] = m]
        /\ command' = IF m = Torn THEN [command EXCEPT ![p] = NoCommand] ELSE command
  BY <1>4
<1>6. m = Torn \/ m = folder[g].manifest.sums[v]
  BY <1>5 DEF Unpacked, Intact
<1>7. m \in Int /\ v \in Parts
  BY <1>3, <1>6 DEF Manifests, Contents
<1>8. PICK D \in Contents : D = [data[p] EXCEPT ![v] = m]
  BY <1>3, <1>7 DEF Contents
<1>9. /\ data' = [data EXCEPT ![p] = D] /\ data' \in [Deployment -> Contents] /\ data'[p] = D
      /\ \A o \in Deployment : o # p => data'[o] = data[o]
      /\ D[v] = m /\ \A q \in Parts : q # v => D[q] = data[p][q]
      /\ UNCHANGED <<history, running, image, stores, aside, folder>>
  BY <1>3, <1>5, <1>7, <1>8 DEF Unpack, MaintenanceInv, MaintenanceTypes, Contents
<1>10. CASE m = Torn
  <2>1. command' = [command EXCEPT ![p] = NoCommand] /\ command'[p] = NoCommand
    BY <1>5, <1>10 DEF MaintenanceInv, MaintenanceTypes
  <2>2. Usable(p)' /\ BackingUp(p)' /\ Restoring(p)'
    BY <1>3, <1>9, <2>1, NoCommandIs DEF Usable, InUse, BackingUp, Restoring
  <2> QED  BY <1>9, <2>1, <2>2, NoCommandIs, FoldersStay DEF MaintenanceInv, MaintenanceTypes
<1>11. CASE m # Torn
  <2>1. command' = command /\ command' = [command EXCEPT ![p] = command[p]]
    BY <1>5, <1>11 DEF MaintenanceInv, MaintenanceTypes
  <2>2. Usable(p)' /\ BackingUp(p)'
    BY <1>1, <1>3, <1>9, <2>1 DEF Usable, InUse, BackingUp
  <2>3. \A q \in Volume : D[q] = folder[g].manifest.sums[q] \/ D[q] = Nothing
    BY <1>1, <1>2, <1>3, <1>6, <1>9, <1>11 DEF Restoring
  <2>4. Restoring(p)'
    BY <1>1, <1>2, <1>3, <1>9, <2>1, <2>3 DEF Restoring
  <2> QED  BY <1>1, <1>3, <1>9, <2>1, <2>2, <2>4, FoldersStay DEF MaintenanceInv, MaintenanceTypes
<1> QED  BY <1>10, <1>11

\* A restore goes on: the volumes are what the manifest says.
LEMMA RestoreGoesOn ==
    ASSUME MaintenanceInv, NEW p \in Deployment, command[p].does = "restore",
           \A v \in Volume : data[p][v] = folder[command[p].folder].manifest.sums[v],
           NEW at \in {"load", "compare"}, NEW n \in Int,
           command' = [command EXCEPT ![p].at = at], data' = [data EXCEPT ![p][Database] = n],
           UNCHANGED <<history, running, image, aside, folder>>,
           stores' \in [Deployment -> {"none", "up", "stopped", "killed"}],
           \A o \in Deployment : o # p => stores'[o] = stores[o],
           at = "compare" => n = folder[command[p].folder].files[Database]
    PROVE  MaintenanceInv'
<1> USE PartsAre
<1>1. PICK g \in Folder : g = command[p].folder
  BY RestoreIs
<1>2. /\ command[p] \in Commands /\ folder[g] \in Folders /\ data[p] \in Contents
      /\ aside[p] /\ running[p] = {} /\ Restoring(p)
  BY <1>1, RestoreIs
<1>3. PICK c \in Commands : c = [command[p] EXCEPT !.at = at]
  BY <1>2 DEF Commands, RestorePlaces
<1>4. c.does = "restore" /\ c.folder = g /\ c.at = at
  BY <1>1, <1>2, <1>3 DEF Commands
<1>5. command' = [command EXCEPT ![p] = c] /\ command'[p] = c
  BY <1>3 DEF MaintenanceInv, MaintenanceTypes
<1>6. PICK D \in Contents : D = [data[p] EXCEPT ![Database] = n]
  BY <1>2 DEF Contents
<1>7. /\ data' = [data EXCEPT ![p] = D] /\ data' \in [Deployment -> Contents] /\ data'[p] = D
      /\ \A o \in Deployment : o # p => data'[o] = data[o]
      /\ D[Database] = n /\ \A q \in Parts : q # Database => D[q] = data[p][q]
  BY <1>2, <1>6 DEF MaintenanceInv, MaintenanceTypes, Contents
<1>8. \A v \in Volume : v # Database
  BY MaintenanceAssumption DEF Database
<1>9. Usable(p)' /\ BackingUp(p)'
  <2>1. command'[p].does = "restore" /\ running'[p] = {} /\ aside'[p]
    BY <1>2, <1>4, <1>5
  <2>2. ~InUse(p)'
    BY <2>1 DEF InUse
  <2>3. QED  BY <2>1, <2>2 DEF Usable, BackingUp
<1>10. \A v \in Volume : D[v] = folder[g].manifest.sums[v]
  BY <1>1, <1>7, <1>8
<1>11. at = "compare" => D[Database] = folder[g].manifest.sums[Database]
  BY <1>1, <1>2, <1>7 DEF Restoring
<1>12. Restoring(p)'
  <2>1. /\ folder[g].manifest.signed
        /\ folder[g].files[Database] = folder[g].manifest.sums[Database]
    BY <1>1, <1>2 DEF Restoring
  <2>2. /\ command'[p] = c /\ data'[p] = D /\ folder' = folder
        /\ running'[p] = {} /\ aside'[p] /\ c.at \in RestorePlaces
    BY <1>2, <1>4, <1>5, <1>7 DEF RestorePlaces
  <2>3. QED  BY ONLY <1>4, <1>10, <1>11, <2>1, <2>2, g \in Folder DEF Restoring
<1>13. MaintenanceTypes'
  BY <1>5, <1>7 DEF MaintenanceInv, MaintenanceTypes
<1> QED
  <2>1. /\ running' \in [Deployment -> SUBSET Writers] /\ image' \in [Deployment -> Image \cup {"none"}]
        /\ aside' \in [Deployment -> BOOLEAN] /\ data' \in [Deployment -> Contents]
        /\ stores' \in [Deployment -> {"none", "up", "stopped", "killed"}]
    BY <1>13 DEF MaintenanceTypes
  <2>2. \A o \in Deployment : o # p =>
          /\ data'[o] = data[o] /\ running'[o] = running[o] /\ stores'[o] = stores[o]
          /\ aside'[o] = aside[o]
    BY <1>7
  <2>3. QED  BY <1>4, <1>5, <1>9, <1>12, <2>1, <2>2, FoldersStay

LEMMA StartStoresKeeps == ASSUME MaintenanceInv, NEW p \in Deployment, StartStores(p) PROVE MaintenanceInv'
<1> USE PartsAre
<1>1. /\ command[p].does = "restore" /\ command[p].at = "unpack"
      /\ command' = [command EXCEPT ![p].at = "load"] /\ data' = [data EXCEPT ![p][Database] = Torn]
      /\ UNCHANGED <<history, running, image, aside, folder>>
      /\ \A v \in Volume : data[p][v] # Nothing
  BY DEF StartStores, Runs, Step
<1>2. \A v \in Volume : data[p][v] = folder[command[p].folder].manifest.sums[v]
  BY <1>1, RestoreIs DEF Restoring
<1>3. /\ stores' \in [Deployment -> {"none", "up", "stopped", "killed"}]
      /\ \A o \in Deployment : o # p => stores'[o] = stores[o]
  BY DEF StartStores, MaintenanceInv, MaintenanceTypes
<1> QED  BY <1>1, <1>2, <1>3, RestoreGoesOn

LEMMA LoadKeeps == ASSUME MaintenanceInv, NEW p \in Deployment, Load(p) PROVE MaintenanceInv'
<1> USE PartsAre
<1>1. /\ command[p].does = "restore" /\ command[p].at = "load"
      /\ command' = [command EXCEPT ![p].at = "compare"]
      /\ UNCHANGED <<history, running, image, stores, aside, folder>>
  BY DEF Load, Runs, Step
<1>2. \A v \in Volume : data[p][v] = folder[command[p].folder].manifest.sums[v]
  BY <1>1, RestoreIs DEF Restoring
<1>3. PICK n \in Int : n = folder[command[p].folder].files[Database]
  BY <1>1, RestoreIs DEF Folders, Contents
<1>4. data' = [data EXCEPT ![p][Database] = n]
  BY <1>3 DEF Load
<1>5. /\ stores' \in [Deployment -> {"none", "up", "stopped", "killed"}]
      /\ \A o \in Deployment : o # p => stores'[o] = stores[o]
  BY <1>1 DEF MaintenanceInv, MaintenanceTypes
<1> QED  BY <1>1, <1>2, <1>3, <1>4, <1>5, RestoreGoesOn

LEMMA EndRestoreKeeps == ASSUME MaintenanceInv, NEW p \in Deployment, EndRestore(p) PROVE MaintenanceInv'
<1> USE PartsAre
<1>1. /\ command[p].does = "restore" /\ command[p].at = "compare"
      /\ aside' = [aside EXCEPT ![p] = FALSE] /\ command' = [command EXCEPT ![p] = NoCommand]
      /\ UNCHANGED <<history, data, running, image, stores, folder>>
  BY DEF EndRestore, Runs
<1>2. PICK g \in Folder : g = command[p].folder
  BY <1>1, RestoreIs
<1>3. running[p] = {} /\ Restoring(p) /\ Truthful(g)
  BY <1>1, <1>2, RestoreIs
<1>4. \A q \in Parts : data[p][q] = folder[g].manifest.sums[q]
  <2>1. command[p].at = "compare" /\ command[p].folder = g
    BY <1>1, <1>2
  <2>2. data[p][Database] = folder[g].manifest.sums[Database]
    BY <1>1, <1>3, <2>1 DEF Restoring
  <2>3. \A v \in Volume : data[p][v] = folder[g].manifest.sums[v]
    BY <1>1, <1>3, <2>1 DEF Restoring
  <2>4. QED  BY <2>2, <2>3 DEF Parts
<1>5. PICK m \in DOMAIN history : Whole(p, m)
  <2>1. folder[g].manifest.signed
    BY <1>1, <1>2, <1>3 DEF Restoring
  <2>2. PICK m \in DOMAIN history : \A q \in Parts : folder[g].manifest.sums[q] = m
    BY <1>3, <2>1 DEF Truthful
  <2>3. QED  BY <1>4, <2>2 DEF Whole
<1>6. /\ command'[p] = NoCommand /\ aside' \in [Deployment -> BOOLEAN]
      /\ \A o \in Deployment : o # p => aside'[o] = aside[o]
  BY <1>1 DEF MaintenanceInv, MaintenanceTypes
<1>7. Usable(p)'
  BY <1>1, <1>3, <1>5, <1>6, NoCommandIs DEF Usable, Whole
<1>8. BackingUp(p)' /\ Restoring(p)'
  BY <1>6, NoCommandIs DEF BackingUp, Restoring
<1>9. MaintenanceTypes'
  BY <1>1, <1>6, NoCommandIs DEF MaintenanceInv, MaintenanceTypes
<1> QED
  <2>1. /\ running' \in [Deployment -> SUBSET Writers] /\ image' \in [Deployment -> Image \cup {"none"}]
        /\ aside' \in [Deployment -> BOOLEAN] /\ data' \in [Deployment -> Contents]
        /\ stores' \in [Deployment -> {"none", "up", "stopped", "killed"}]
    BY <1>9 DEF MaintenanceTypes
  <2>2. \A o \in Deployment : o # p =>
          /\ data'[o] = data[o] /\ running'[o] = running[o] /\ stores'[o] = stores[o]
          /\ aside'[o] = aside[o]
    BY <1>1, <1>6
  <2>3. QED  BY <1>1, <1>7, <1>8, <2>1, <2>2, NoCommandIs, FoldersStay

LEMMA BeginResumeKeeps ==
    ASSUME MaintenanceInv, NEW p \in Deployment, NEW i \in Image, InService(p), BeginResume(p, i)
    PROVE  MaintenanceInv'
<1>1. InUse(p) /\ UNCHANGED <<history, data, running, image, stores, aside, folder>>
  BY DEF InService, BeginResume, InUse
<1>2. PICK c \in Commands : c = [NoCommand EXCEPT !.does = "resume", !.image = i, !.at = "start"]
  BY NoCommandIs DEF Commands
<1>3. c.does = "resume"
  BY <1>2, NoCommandIs DEF Commands
<1>4. command' = [command EXCEPT ![p] = c] /\ command'[p] = c
  BY <1>2 DEF BeginResume, MaintenanceInv, MaintenanceTypes
<1>5. Usable(p)
  BY DEF MaintenanceInv
<1>6. Usable(p)' /\ BackingUp(p)' /\ Restoring(p)'
  BY <1>1, <1>3, <1>4, <1>5 DEF Usable, InUse, Whole, BackingUp, Restoring
<1> QED  BY <1>1, <1>3, <1>4, <1>6, FoldersStay DEF MaintenanceInv, MaintenanceTypes

LEMMA StartWriterKeeps ==
    ASSUME MaintenanceInv, NEW p \in Deployment, NEW w \in Writers, StartWriter(p, w)
    PROVE  MaintenanceInv'
<1>1. /\ command[p].does = "resume"
      /\ stores' = [stores EXCEPT ![p] = "up"]
      /\ running' = [running EXCEPT ![p] = running[p] \union {w}]
      /\ UNCHANGED <<history, data, aside, command, folder>>
  BY DEF StartWriter, Runs
<1>2. command[p] \in Commands /\ command' = [command EXCEPT ![p] = command[p]]
  BY <1>1 DEF MaintenanceInv, MaintenanceTypes
<1>3. image' \in [Deployment -> Image \cup {"none"}]
  <2>1. command[p].image \in Image \cup {"none"}
    BY <1>2 DEF Commands
  <2>2. [image EXCEPT ![p] = command[p].image] \in [Deployment -> Image \cup {"none"}]
    BY <2>1 DEF MaintenanceInv, MaintenanceTypes
  <2> QED  BY <2>2 DEF StartWriter, MaintenanceInv, MaintenanceTypes
<1>4. /\ running' \in [Deployment -> SUBSET Writers]
      /\ stores' \in [Deployment -> {"none", "up", "stopped", "killed"}] /\ stores'[p] = "up"
      /\ \A o \in Deployment : o # p => running'[o] = running[o] /\ stores'[o] = stores[o]
  BY <1>1 DEF MaintenanceInv, MaintenanceTypes
<1>5. Usable(p) /\ InUse(p)
  BY <1>1 DEF MaintenanceInv, Usable
<1>6. Usable(p)' /\ BackingUp(p)' /\ Restoring(p)'
  BY <1>1, <1>4, <1>5 DEF Usable, InUse, Whole, BackingUp, Restoring
<1> QED  BY <1>1, <1>2, <1>3, <1>4, <1>6, FoldersStay DEF MaintenanceInv, MaintenanceTypes

LEMMA MaintenanceStep == MaintenanceInv /\ [MaintenanceNext]_maintenanceVars => MaintenanceInv'
<1> SUFFICES ASSUME MaintenanceInv, [MaintenanceNext]_maintenanceVars PROVE MaintenanceInv'
  OBVIOUS
<1>1. CASE UNCHANGED maintenanceVars
  <2>1. UNCHANGED <<history, data, running, image, stores, aside, command, folder>>
    BY <1>1 DEF maintenanceVars
  <2>2. MaintenanceTypes' /\ Apart'
    BY <2>1 DEF MaintenanceInv, MaintenanceTypes, Apart
  <2>3. \A p \in Deployment : Usable(p)' /\ BackingUp(p)' /\ Restoring(p)'
    BY <2>1 DEF MaintenanceInv, Usable, InUse, Whole, BackingUp, Counts, Restoring
  <2>4. \A f \in Folder : Truthful(f)'
    BY <2>1 DEF MaintenanceInv, Truthful
  <2> QED  BY <2>2, <2>3, <2>4 DEF MaintenanceInv
<1>2. CASE MaintenanceNext
  <2>1. ASSUME NEW p \in Deployment,
               WriteData(p) \/ Enter(p) \/ Ends(p) \/ Dump(p) \/ StopStores(p) \/ Pack(p) \/ Sign(p)
        PROVE  MaintenanceInv'
    BY <2>1, WriteDataKeeps, EnterKeeps, EndsKeeps, DumpKeeps, StopStoresKeeps, PackKeeps, SignKeeps
  <2>2. ASSUME NEW p \in Deployment,
               \/ EndBackup(p) \/ Unpack(p) \/ StartStores(p) \/ Load(p) \/ EndRestore(p)
               \/ EndResume(p) \/ (InService(p) /\ BeginBackup(p))
        PROVE  MaintenanceInv'
    BY <2>2, EndBackupKeeps, UnpackKeeps, StartStoresKeeps, LoadKeeps, EndRestoreKeeps,
       EndResumeKeeps, BeginBackupKeeps
  <2>3. ASSUME NEW p \in Deployment, NEW f \in Folder, BeginRestore(p, f) PROVE MaintenanceInv'
    BY <2>3, BeginRestoreKeeps
  <2>4. ASSUME NEW p \in Deployment, NEW i \in Image, InService(p), BeginResume(p, i) PROVE MaintenanceInv'
    BY <2>4, BeginResumeKeeps
  <2>5. ASSUME NEW p \in Deployment, NEW w \in Writers, StartWriter(p, w) PROVE MaintenanceInv'
    BY <2>5, StartWriterKeeps
  <2>6. ASSUME NEW f \in Folder, Damage(f) PROVE MaintenanceInv'
    BY <2>6, DamageKeeps
  <2> QED  BY <1>2, <2>1, <2>2, <2>3, <2>4, <2>5, <2>6 DEF MaintenanceNext
<1> QED  BY <1>1, <1>2

\* A backup that a verification accepts, and a deployment whose writers run, hold
\* one moment, for every number of deployments, folders, volumes and damages, and
\* wherever commands fail or are killed (BACKUP and RESTORE of operations.py).
THEOREM BackupsHold == MaintenanceSpec => []BackupIsOneMoment
<1>1. MaintenanceInv => BackupIsOneMoment
  <2> SUFFICES ASSUME MaintenanceInv PROVE BackupIsOneMoment
    OBVIOUS
  <2>1. ASSUME NEW f \in Folder, Verified(f)
        PROVE  \E m \in DOMAIN history :
                 (\A n \in Parts : folder[f].files[n] = m) /\ folder[f].manifest.counts = history[m]
    BY <2>1 DEF MaintenanceInv, Truthful, Verified
  <2>2. ASSUME NEW p \in Deployment, running[p] # {}
        PROVE  \E m \in DOMAIN history : \A q \in Parts : data[p][q] = m
    BY <2>2 DEF MaintenanceInv, Usable, Whole
  <2> QED  BY <2>1, <2>2 DEF BackupIsOneMoment
<1> QED  BY <1>1, InvAtStart, MaintenanceStep, PTL DEF MaintenanceSpec

-----------------------------------------------------------------------------
(* Reports.  From one screening to the next the bundle stays what it was: a   *)
(* pass that changes materials or texts freezes them again and leads back to  *)
(* a screening, and freezing what is frozen changes nothing.  What a draft    *)
(* quotes is therefore still there when its review is accepted.  Of the calls *)
(* each pass leaves enough for what must follow it.                           *)

Phases ==
    {"collect", "screen", "read", "refine", "write", "check", "revise", "supplement", "done"}

QualityTypes ==
    /\ phase \in Phases
    /\ materials \in Seq(Source)
    /\ rounds \in Nat /\ supplements \in Nat /\ slips \in Nat
    /\ accepted \in BOOLEAN
    /\ DOMAIN draft \subseteq Claim
    /\ issues \in [flagged : SUBSET Claim, searches : Nat]
    /\ budget \in [calls : Nat, queries : Nat, replans : Nat]

\* The bundle is frozen, and was assessed as it is.
Frozen == bundle = [sources |-> materials, long |-> long] /\ long = Fitting(materials, long)
Unsearched == phase = "supplement" /\ supplements = 0

BundleFollows ==
    /\ phase \in {"screen", "refine", "write", "check", "revise", "done"} \/ Unsearched => Frozen
    /\ phase \in {"write", "check", "revise", "done"} \/ Unsearched => assessed = bundle
    /\ phase \in {"check", "done"} => \A x \in DOMAIN draft : Quotable(draft[x])
    /\ accepted => phase = "done"

\* Before the first review there is no draft but the one under review.
RoundsFollow ==
    /\ phase \in {"revise", "supplement"} => rounds > 0
    /\ phase \in {"collect", "screen", "read", "refine", "write"} /\ rounds = 0 => draft = NoDraft

\* What is left while every call was answered and kept.
CallsLast ==
    /\ slips = 0 /\ end = "none" =>
         /\ phase = "read" \/ (phase = "refine" /\ rounds = 0) => budget.calls >= 3
         /\ phase = "write" /\ rounds = 0 => budget.calls >= 2
         /\ phase = "check" => budget.calls >= 1
    /\ slips = 0 /\ end = "out_of_calls" => phase = "screen" \/ (rounds > 0 /\ phase # "check")

QualityInv == QualityTypes /\ BundleFollows /\ RoundsFollow /\ CallsLast

\* Freezing what is frozen changes nothing: fewer long texts leave no less room.
LEMMA FrozenOnce ==
    ASSUME NEW m \in Seq(Source), NEW l
    PROVE  Fitting(m, Fitting(m, l)) = Fitting(m, l)
<1> DEFINE Before(L, s) == {i \in DOMAIN m : m[i] \in L /\ \E j \in DOMAIN m : i < j /\ m[j] = s}
<1>1. ASSUME NEW L PROVE Fitting(m, L) = {s \in L : Cardinality(Before(L, s)) < Space - Len(m)}
  BY DEF Fitting
<1>2. IsFiniteSet(1 .. Len(m))
  BY FS_Interval
<1>3. ASSUME NEW L, NEW s PROVE IsFiniteSet(Before(L, s)) /\ Cardinality(Before(L, s)) \in Nat
  <2>1. Before(L, s) \subseteq 1 .. Len(m)
    OBVIOUS
  <2>2. IsFiniteSet(Before(L, s))
    BY <1>2, <2>1, FS_Subset
  <2> QED  BY <2>2, FS_CardinalityType
<1>4. ASSUME NEW L, NEW K \in SUBSET L, NEW s
      PROVE  Cardinality(Before(K, s)) <= Cardinality(Before(L, s))
  <2>1. Before(K, s) \subseteq Before(L, s)
    OBVIOUS
  <2> HIDE DEF Before
  <2>2. Before(K, s) \in SUBSET Before(L, s) /\ IsFiniteSet(Before(L, s))
    BY <1>3, <2>1
  <2> QED  BY <2>2, FS_Subset
<1> HIDE DEF Before
<1>5. Fitting(m, l) \subseteq l
  BY <1>1
<1>6. Space - Len(m) \in Int
  BY QualityAssumption
<1>7. ASSUME NEW s \in Fitting(m, l) PROVE s \in Fitting(m, Fitting(m, l))
  <2>1. Cardinality(Before(l, s)) < Space - Len(m)
    BY <1>1
  <2>2. Cardinality(Before(Fitting(m, l), s)) <= Cardinality(Before(l, s))
    BY <1>4, <1>5
  <2>3. Cardinality(Before(Fitting(m, l), s)) < Space - Len(m)
    BY <1>3, <1>6, <2>1, <2>2
  <2> QED  BY <1>1, <2>3
<1>8. Fitting(m, Fitting(m, l)) \subseteq Fitting(m, l)
  BY <1>1
<1> QED  BY <1>7, <1>8

LEMMA FreezeFreezes ==
    ASSUME NEW m \in Seq(Source), NEW l, Freeze(m, l)
    PROVE  Frozen' /\ materials' = m
<1>1. materials' = m /\ long' = Fitting(m, l) /\ bundle' = [sources |-> m, long |-> long']
  BY DEF Freeze
<1>2. Fitting(m, long') = long'
  BY <1>1, FrozenOnce
<1>3. Fitting(materials, long)' = Fitting(materials', long')
  BY DEF Fitting
<1> QED  BY <1>1, <1>2, <1>3 DEF Frozen

\* A finite set has a sequence of its elements.
LEMMA SequenceOf == ASSUME NEW S, IsFiniteSet(S) PROVE SetToSeq(S) \in Seq(S)
<1>1. Cardinality(S) \in Nat /\ ExistsBijection(1 .. Cardinality(S), S)
  BY FS_CardinalityType
<1>2. \E f \in [1 .. Cardinality(S) -> S] : IsInjective(f)
  BY <1>1 DEF ExistsBijection, Bijection, Injection
<1>3. SetToSeq(S) \in [1 .. Cardinality(S) -> S]
  BY <1>2 DEF SetToSeq
<1> QED  BY <1>1, <1>3

\* What a call costs.
LEMMA CallCosts ==
    ASSUME QualityTypes, MayCall
    PROVE  /\ end = "none" /\ phase \in DOMAIN Needed /\ budget.calls \in Nat
           /\ budget.calls >= Needed[phase] /\ Needed[phase] \in 1 .. 4
           /\ CallsLeft \in [calls : Nat, queries : Nat, replans : Nat]
           /\ CallsLeft.calls = budget.calls - 1 /\ CallsLeft.replans = budget.replans
<1>1. /\ end = "none" /\ phase \in DOMAIN Needed /\ budget.calls \in Nat
      /\ budget.calls >= Needed[phase] /\ Needed[phase] \in 1 .. 4
  BY DEF MayCall, Needed, QualityTypes
<1>2. PICK n \in Nat : n = budget.calls - 1
  BY <1>1
<1>3. CallsLeft = [budget EXCEPT !.calls = n]
  BY <1>2 DEF CallsLeft
<1> QED  BY <1>1, <1>2, <1>3 DEF QualityTypes

LEMMA QualityInitial == QualityInit => QualityInv
<1> SUFFICES ASSUME QualityInit PROVE QualityInv
  OBVIOUS
<1>1. budget \in [calls : Nat, queries : Nat, replans : Nat]
  BY QualityAssumption DEF QualityInit
<1>2. QualityTypes
  <2>1. materials \in Seq(Source) /\ DOMAIN draft \subseteq Claim
    BY DEF QualityInit, NoDraft
  <2>2. issues \in [flagged : SUBSET Claim, searches : Nat]
    BY DEF QualityInit, NoIssues
  <2> QED  BY <1>1, <2>1, <2>2 DEF QualityInit, QualityTypes, Phases
<1> QED  BY <1>2 DEF QualityInit, QualityInv, BundleFollows, Unsearched, RoundsFollow, CallsLast

LEMMA CollectKeeps == ASSUME QualityInv, Collect PROVE QualityInv'
<1> USE DEF QualityInv
<1>1. phase = "collect" /\ end = "none" /\ ~accepted
      /\ UNCHANGED <<kept, assessed, draft, issues, rounds, supplements, accepted, budget, slips>>
  BY DEF Collect, reportVars, BundleFollows
<1>2. CASE end' = "unverified" /\ UNCHANGED <<phase, materials, long, bundle>>
  <2>1. QualityTypes' /\ RoundsFollow' /\ CallsLast'
    BY <1>1, <1>2 DEF QualityTypes, RoundsFollow, CallsLast
  <2>2. BundleFollows'
    BY <1>1, <1>2 DEF BundleFollows, Unsearched
  <2> QED  BY <2>1, <2>2
<1>3. CASE \E found \in SUBSET Source :
             Freeze(SetToSeq(found), {}) /\ phase' = "screen" /\ UNCHANGED end
  <2>1. PICK found \in SUBSET Source : Freeze(SetToSeq(found), {}) /\ phase' = "screen" /\ end' = end
    BY <1>3
  <2>2. SetToSeq(found) \in Seq(Source)
    <3>1. IsFiniteSet(found)
      BY QualityAssumption, FS_Subset
    <3>2. SetToSeq(found) \in Seq(found)
      BY <3>1, SequenceOf
    <3> QED  BY <3>2
  <2>3. Frozen' /\ materials' \in Seq(Source)
    BY <2>1, <2>2, FreezeFreezes
  <2>4. QualityTypes' /\ RoundsFollow' /\ CallsLast'
    BY <1>1, <2>1, <2>3 DEF QualityTypes, RoundsFollow, CallsLast, Phases
  <2>5. BundleFollows'
    BY <1>1, <2>1, <2>3 DEF BundleFollows, Unsearched
  <2> QED  BY <2>4, <2>5
<1> QED  BY <1>2, <1>3 DEF Collect

\* What ends a task, or costs it an answer, leaves the report alone.
LEMMA ReportStays ==
    ASSUME QualityInv, UNCHANGED <<phase, screenVars, reportVars>>,
           budget' \in [calls : Nat, queries : Nat, replans : Nat], slips' \in Nat,
           \/ slips' > 0
           \/ end' \notin {"none", "out_of_calls"}
           \/ UNCHANGED <<budget, slips, end>>
           \/ slips' = slips /\ end = "none" /\ (slips = 0 => phase = "screen" \/ (rounds > 0 /\ phase # "check"))
                /\ end' = "out_of_calls"
    PROVE  QualityInv'
<1> USE DEF QualityInv, screenVars, reportVars
<1>1. QualityTypes' /\ RoundsFollow'
  BY DEF QualityTypes, RoundsFollow
<1>2. BundleFollows'
  BY DEF BundleFollows, Unsearched, Frozen, Quotable, Fitting
<1>3. CallsLast'
  BY DEF CallsLast, QualityTypes
<1> QED  BY <1>1, <1>2, <1>3

LEMMA RefusedKeeps == ASSUME QualityInv, Refused PROVE QualityInv'
<1>1. budget' \in [calls : Nat, queries : Nat, replans : Nat] /\ slips \in Nat /\ slips' = slips + 1
  BY CallCosts DEF Refused, QualityInv, QualityTypes
<1> QED  BY <1>1, ReportStays DEF Refused

LEMMA LoseAnswerKeeps == ASSUME QualityInv, LoseAnswer PROVE QualityInv'
<1>1. budget' \in [calls : Nat, queries : Nat, replans : Nat] /\ slips \in Nat /\ slips' = slips + 1
  BY CallCosts DEF LoseAnswer, QualityInv, QualityTypes
<1> QED  BY <1>1, ReportStays DEF LoseAnswer

LEMMA LoseSearchKeeps == ASSUME QualityInv, LoseSearch PROVE QualityInv'
<1>1. budget.queries > 0 /\ budget' = [budget EXCEPT !.queries = @ - 1] /\ slips \in Nat /\ slips' = slips + 1
  BY DEF LoseSearch, QualityInv, QualityTypes
<1>2. PICK n \in Nat : n = budget.queries - 1
  BY <1>1 DEF QualityInv, QualityTypes
<1>3. budget' \in [calls : Nat, queries : Nat, replans : Nat]
  BY <1>1, <1>2 DEF QualityInv, QualityTypes
<1> QED  BY <1>1, <1>3, ReportStays DEF LoseSearch

\* Without a slip, only a task that has not begun, or one whose draft was reviewed, runs out of calls.
LEMMA OutOfCallsKeeps == ASSUME QualityInv, OutOfCalls PROVE QualityInv'
<1>1. /\ end = "none" /\ phase \in DOMAIN Needed /\ budget.calls < Needed[phase]
      /\ end' = "out_of_calls" /\ UNCHANGED <<phase, screenVars, reportVars, budget, slips>>
  BY DEF OutOfCalls
<1>2. /\ budget \in [calls : Nat, queries : Nat, replans : Nat] /\ slips \in Nat /\ budget.calls \in Nat
      /\ rounds \in Nat
  BY DEF QualityInv, QualityTypes
<1>3. phase \in {"screen", "refine", "write", "revise", "check"}
  BY <1>1 DEF Needed
<1>4. ASSUME slips = 0 PROVE phase = "screen" \/ (rounds > 0 /\ phase # "check")
  <2>1. CASE phase = "refine"
    BY <1>1, <1>2, <1>4, <2>1 DEF QualityInv, CallsLast, Needed
  <2>2. CASE phase = "write"
    BY <1>1, <1>2, <1>4, <2>2 DEF QualityInv, CallsLast, Needed
  <2>3. CASE phase = "revise"
    BY <2>3 DEF QualityInv, RoundsFollow
  <2>4. CASE phase = "check"
    BY <1>1, <1>2, <1>4, <2>4 DEF QualityInv, CallsLast, Needed
  <2> QED  BY <1>3, <2>1, <2>2, <2>3, <2>4
<1> QED  BY <1>1, <1>2, <1>4, ReportStays

LEMMA FailKeeps == ASSUME QualityInv, Fail PROVE QualityInv'
<1>1. budget' \in [calls : Nat, queries : Nat, replans : Nat] /\ slips' \in Nat
  BY DEF Fail, QualityInv, QualityTypes
<1> QED  BY <1>1, ReportStays DEF Fail

LEMMA PersistKeeps == ASSUME QualityInv, NEW s \in Source, Persist(s) PROVE QualityInv'
<1>1. budget' \in [calls : Nat, queries : Nat, replans : Nat] /\ slips' \in Nat
  BY DEF Persist, QualityInv, QualityTypes
<1> QED  BY <1>1, ReportStays DEF Persist

LEMMA PublishKeeps == ASSUME QualityInv, Publish PROVE QualityInv'
<1>1. budget' \in [calls : Nat, queries : Nat, replans : Nat] /\ slips' \in Nat
  BY DEF Publish, QualityInv, QualityTypes
<1> QED  BY <1>1, ReportStays DEF Publish

LEMMA ScreenKeeps == ASSUME QualityInv, Screen PROVE QualityInv'
<1> USE DEF QualityInv
<1>1. /\ phase = "screen" /\ MayCall /\ budget' = CallsLeft
      /\ UNCHANGED <<slips, materials, long, bundle, kept, assessed, draft, issues, rounds, supplements, accepted>>
      /\ \/ phase' = "read" /\ UNCHANGED end
         \/ end' = "unverified" /\ UNCHANGED phase
  BY DEF Screen, Pass, reportVars
<1>2. budget.calls >= 4
  BY <1>1, CallCosts DEF Needed
<1>3. QualityTypes'
  BY <1>1, CallCosts DEF QualityTypes, Phases
<1>4. BundleFollows'
  BY <1>1 DEF BundleFollows, Unsearched, Frozen, Fitting
<1>5. RoundsFollow' /\ CallsLast'
  BY <1>1, <1>2, CallCosts DEF RoundsFollow, CallsLast
<1> QED  BY <1>3, <1>4, <1>5

LEMMA ReadKeeps == ASSUME QualityInv, NEW s \in Source, Read(s) PROVE QualityInv'
<1> USE DEF QualityInv
<1>1. /\ phase = "read" /\ end = "none"
      /\ UNCHANGED <<slips, end, kept, assessed, draft, issues, rounds, supplements, accepted>>
      /\ budget' = budget \/ (budget.queries > 0 /\ budget' = [budget EXCEPT !.queries = @ - 1])
  BY DEF Read, reportVars
<1>2. budget' \in [calls : Nat, queries : Nat, replans : Nat] /\ budget'.calls = budget.calls
  <2>1. CASE budget' = budget
    BY <2>1 DEF QualityTypes
  <2>2. CASE budget.queries > 0 /\ budget' = [budget EXCEPT !.queries = @ - 1]
    <3>1. PICK n \in Nat : n = budget.queries - 1
      BY <2>2 DEF QualityTypes
    <3> QED  BY <2>2, <3>1 DEF QualityTypes
  <2> QED  BY <1>1, <2>1, <2>2
<1>3. \/ phase' = "refine" /\ \E l : Freeze(materials, l)
      \/ phase' = "read" /\ UNCHANGED <<materials, bundle>>
  BY <1>1 DEF Read
<1>4. materials' \in Seq(Source) /\ (phase' = "refine" => Frozen')
  BY <1>3, FreezeFreezes DEF QualityTypes
<1>5. QualityTypes'
  BY <1>1, <1>2, <1>3, <1>4 DEF QualityTypes, Phases
<1>6. BundleFollows'
  BY <1>1, <1>3, <1>4 DEF BundleFollows, Unsearched
<1>7. RoundsFollow' /\ CallsLast'
  BY <1>1, <1>2, <1>3 DEF RoundsFollow, CallsLast
<1> QED  BY <1>5, <1>6, <1>7

LEMMA RefineKeeps == ASSUME QualityInv, Refine PROVE QualityInv'
<1> USE DEF QualityInv
<1>1. /\ phase = "refine" /\ MayCall /\ budget' = CallsLeft /\ assessed' = bundle
      /\ UNCHANGED <<slips, materials, long, bundle, draft, issues, rounds, supplements, accepted>>
      /\ \/ phase' = "write" /\ draft = NoDraft /\ UNCHANGED end
         \/ phase' = "revise" /\ draft # NoDraft /\ UNCHANGED end
         \/ end' = "unverified" /\ UNCHANGED phase
  BY DEF Refine, Pass, reportVars
<1>2. budget.calls >= 3
  BY <1>1, CallCosts DEF Needed
<1>3. QualityTypes'
  BY <1>1, CallCosts DEF QualityTypes, Phases
<1>4. BundleFollows'
  BY <1>1 DEF BundleFollows, Unsearched, Frozen, Fitting
<1>5. RoundsFollow'
  BY <1>1 DEF RoundsFollow, QualityTypes
<1>6. CallsLast'
  BY <1>1, <1>2, CallCosts DEF CallsLast
<1> QED  BY <1>3, <1>4, <1>5, <1>6

\* A draft quotes what is kept.
LEMMA DraftIs ==
    ASSUME NEW d \in Drafts
    PROVE  DOMAIN d \subseteq Claim /\ \A x \in DOMAIN d : Quotable(d[x])
  BY DEF Drafts

LEMMA DraftKeeps ==
    ASSUME QualityInv, phase \in {"write", "revise"}, Pass(phase), draft' \in Drafts, phase' = "check",
           UNCHANGED <<screenVars, issues, rounds, supplements, accepted, end>>
    PROVE  QualityInv'
<1> USE DEF QualityInv, screenVars
<1>1. MayCall /\ budget' = CallsLeft /\ UNCHANGED slips
  BY DEF Pass
<1>2. budget.calls >= 2
  BY <1>1, CallCosts DEF Needed
<1>3. PICK d \in Drafts : d = draft'
  OBVIOUS
<1>4. DOMAIN d \subseteq Claim /\ \A x \in DOMAIN d : Quotable(d[x])
  BY DraftIs
<1>5. QualityTypes'
  BY <1>1, <1>3, <1>4, CallCosts DEF QualityTypes, Phases
<1>6. BundleFollows'
  BY <1>3, <1>4 DEF BundleFollows, Unsearched, Frozen, Fitting, Quotable
<1>7. RoundsFollow' /\ CallsLast'
  BY <1>1, <1>2, CallCosts DEF RoundsFollow, CallsLast
<1> QED  BY <1>5, <1>6, <1>7

LEMMA AcceptKeeps == ASSUME QualityInv, Accept PROVE QualityInv'
<1> USE DEF QualityInv
<1>1. /\ phase = "check" /\ MayCall /\ budget' = CallsLeft /\ accepted' = TRUE /\ phase' = "done"
      /\ issues' = NoIssues
      /\ UNCHANGED <<slips, materials, long, bundle, kept, assessed, draft, rounds, supplements, end>>
  BY DEF Accept, Pass, screenVars
<1>2. QualityTypes'
  BY <1>1, CallCosts DEF QualityTypes, Phases, NoIssues
<1>3. BundleFollows'
  BY <1>1 DEF BundleFollows, Unsearched, Frozen, Fitting, Quotable
<1>4. RoundsFollow' /\ CallsLast'
  BY <1>1, CallCosts DEF RoundsFollow, CallsLast
<1> QED  BY <1>2, <1>3, <1>4

LEMMA ObjectKeeps == ASSUME QualityInv, Object PROVE QualityInv'
<1> USE DEF QualityInv
<1>1. /\ phase = "check" /\ MayCall
      /\ UNCHANGED <<slips, materials, long, bundle, kept, assessed, draft, supplements, accepted>>
  BY DEF Object, screenVars
<1>2. PICK f \in SUBSET DOMAIN draft, n \in 0 .. MaxSupplements :
         /\ issues' = [flagged |-> f, searches |-> n]
         /\ \/ end' \in {"unverified", "out_of_replans"} /\ budget' = CallsLeft /\ UNCHANGED <<phase, rounds>>
            \/ /\ budget.replans > 0 /\ budget' = [CallsLeft EXCEPT !.replans = @ - 1]
               /\ rounds' = rounds + 1 /\ phase' \in {"supplement", "revise"} /\ UNCHANGED end
  BY DEF Object
<1>3. issues' \in [flagged : SUBSET Claim, searches : Nat]
  BY <1>1, <1>2, QualityAssumption DEF QualityTypes
<1>4. CASE end' \in {"unverified", "out_of_replans"} /\ budget' = CallsLeft /\ UNCHANGED <<phase, rounds>>
  <2>1. QualityTypes' /\ RoundsFollow' /\ CallsLast'
    BY <1>1, <1>3, <1>4, CallCosts DEF QualityTypes, RoundsFollow, CallsLast
  <2>2. BundleFollows'
    BY <1>1, <1>4 DEF BundleFollows, Unsearched, Frozen, Fitting, Quotable
  <2> QED  BY <2>1, <2>2
<1>5. CASE /\ budget.replans > 0 /\ budget' = [CallsLeft EXCEPT !.replans = @ - 1]
           /\ rounds' = rounds + 1 /\ phase' \in {"supplement", "revise"} /\ UNCHANGED end
  <2>1. PICK r \in Nat : r = budget.replans - 1
    BY <1>5 DEF QualityTypes
  <2>2. budget' \in [calls : Nat, queries : Nat, replans : Nat]
    BY <1>1, <1>5, <2>1, CallCosts
  <2>3. rounds' \in Nat /\ rounds' > 0
    BY <1>5 DEF QualityTypes
  <2>4. QualityTypes' /\ RoundsFollow'
    BY <1>1, <1>3, <1>5, <2>2, <2>3 DEF QualityTypes, RoundsFollow, Phases
  <2>5. BundleFollows'
    BY <1>1, <1>5 DEF BundleFollows, Unsearched, Frozen, Fitting
  <2>6. CallsLast'
    BY <1>1, <1>5, <2>3, CallCosts DEF CallsLast
  <2> QED  BY <2>4, <2>5, <2>6
<1> QED  BY <1>2, <1>4, <1>5

\* The material is frozen again after the last search of a round; without a search that
\* changes nothing.
LEMMA SupplementKeeps == ASSUME QualityInv, Supplement PROVE QualityInv'
<1> USE DEF QualityInv
<1>1. /\ phase = "supplement" /\ end = "none" /\ rounds > 0 /\ ~accepted
      /\ UNCHANGED <<kept, assessed, draft, rounds, accepted, slips>>
      /\ phase' \in {"supplement", "refine", "revise"}
  BY DEF Supplement, AfterSupplement, RoundsFollow, BundleFollows
<1>2. PICK leave \in Nat : issues' = [issues EXCEPT !.searches = leave]
  <2>1. issues.searches \in Nat /\ issues.searches > 0 => issues.searches - 1 \in Nat
    BY DEF QualityTypes
  <2>2. issues.searches - 0 = issues.searches
    BY DEF QualityTypes
  <2> QED  BY <2>1, <2>2 DEF Supplement, QualityTypes
<1>3. issues' \in [flagged : SUBSET Claim, searches : Nat]
  BY <1>2 DEF QualityTypes
<1>4. QualityTypes' /\ BundleFollows'
  <2>1. CASE /\ budget.queries > 0 /\ budget' = [budget EXCEPT !.queries = @ - 1]
             /\ supplements' = supplements + 1 /\ UNCHANGED end
             /\ \E m \in {materials} \cup {Added(s) : s \in Source} :
                  \/ Freeze(m, long) /\ phase' = AfterSupplement
                  \/ materials' = m /\ phase' = phase
    <3>1. PICK q \in Nat : q = budget.queries - 1
      BY <2>1 DEF QualityTypes
    <3>2. budget' \in [calls : Nat, queries : Nat, replans : Nat]
      BY <2>1, <3>1 DEF QualityTypes
    <3>3. supplements' \in Nat /\ supplements' > 0
      BY <2>1 DEF QualityTypes
    <3>4. PICK m \in {materials} \cup {Added(s) : s \in Source} :
                  \/ Freeze(m, long) /\ phase' = AfterSupplement
                  \/ materials' = m /\ phase' = phase
      BY <2>1
    <3>5. m \in Seq(Source)
      <4>1. materials \in Seq(Source) /\ \A s \in Source : Append(materials, s) \in Seq(Source)
        BY DEF QualityTypes
      <4> QED  BY <3>4, <4>1 DEF Added
    <3>6. materials' \in Seq(Source) /\ (phase' = "supplement" \/ (phase' = "refine" /\ Frozen'))
      <4>1. CASE Freeze(m, long) /\ phase' = AfterSupplement
        BY <3>3, <3>5, <4>1, FreezeFreezes DEF AfterSupplement
      <4>2. CASE materials' = m /\ phase' = phase
        BY <1>1, <3>5, <4>2
      <4> QED  BY <3>4, <4>1, <4>2
    <3>7. QualityTypes'
      BY <1>1, <1>3, <3>2, <3>3, <3>6 DEF QualityTypes, Phases
    <3>8. BundleFollows'
      BY <1>1, <3>3, <3>6 DEF BundleFollows, Unsearched
    <3> QED  BY <3>7, <3>8
  <2>2. CASE /\ UNCHANGED <<budget, supplements>>
             /\ \/ Freeze(materials, long) /\ phase' = AfterSupplement
                \/ UNCHANGED <<materials, long, bundle, phase>>
    <3>1. materials' \in Seq(Source)
      BY <2>2, FreezeFreezes DEF QualityTypes
    <3>2. QualityTypes'
      BY <1>1, <1>3, <2>2, <3>1 DEF QualityTypes, Phases
    <3>3. CASE UNCHANGED <<materials, long, bundle, phase>>
      <4>1. Frozen' <=> Frozen
        BY <3>3 DEF Frozen, Fitting
      <4>2. Unsearched' <=> Unsearched
        BY <2>2, <3>3 DEF Unsearched
      <4>3. BundleFollows'
        BY <1>1, <3>3, <4>1, <4>2 DEF BundleFollows
      <4> QED  BY <3>2, <4>3
    <3>4. CASE Freeze(materials, long) /\ phase' = AfterSupplement
      <4>1. Frozen'
        BY <3>4, FreezeFreezes DEF QualityTypes
      <4>2. CASE supplements > 0
        <5>1. phase' = "refine"
          BY <2>2, <3>4, <4>2 DEF AfterSupplement
        <5>2. BundleFollows'
          BY <1>1, <4>1, <5>1 DEF BundleFollows, Unsearched
        <5> QED  BY <3>2, <5>2
      <4>3. CASE supplements = 0
        <5>1. bundle = [sources |-> materials, long |-> long] /\ long = Fitting(materials, long) /\ assessed = bundle
          BY <1>1, <4>3 DEF BundleFollows, Unsearched, Frozen
        <5>2. bundle' = bundle
          BY <3>4, <5>1 DEF Freeze
        <5>3. phase' = "revise"
          BY <2>2, <3>4, <4>3 DEF AfterSupplement
        <5>4. BundleFollows'
          BY <1>1, <4>1, <5>1, <5>2, <5>3 DEF BundleFollows, Unsearched
        <5> QED  BY <3>2, <5>4
      <4> QED  BY <4>2, <4>3 DEF QualityTypes
    <3> QED  BY <2>2, <3>2, <3>3, <3>4
  <2> QED  BY <2>1, <2>2 DEF Supplement
<1>5. RoundsFollow'
  BY <1>1, <1>4 DEF RoundsFollow, QualityTypes
<1>6. CallsLast'
  <2>1. end' # "out_of_calls"
    BY <1>1 DEF Supplement
  <2> QED  BY <1>1, <1>4, <2>1 DEF CallsLast, QualityTypes
<1> QED  BY <1>4, <1>5, <1>6

LEMMA QualityStep == QualityInv /\ [QualityNext]_qualityVars => QualityInv'
<1> SUFFICES ASSUME QualityInv, [QualityNext]_qualityVars PROVE QualityInv'
  OBVIOUS
<1>1. CASE UNCHANGED qualityVars
  <2>1. budget' \in [calls : Nat, queries : Nat, replans : Nat] /\ slips' \in Nat
    BY <1>1 DEF qualityVars, QualityInv, QualityTypes
  <2> QED  BY <1>1, <2>1, ReportStays DEF qualityVars
<1>2. CASE WriteDraft \/ Revise
  BY <1>2, DraftKeeps DEF WriteDraft, Revise, Pass
<1>3. CASE Collect \/ Screen \/ Refine \/ Accept \/ Object \/ Supplement
  BY <1>3, CollectKeeps, ScreenKeeps, RefineKeeps, AcceptKeeps, ObjectKeeps, SupplementKeeps
<1>4. CASE Refused \/ LoseAnswer \/ LoseSearch \/ OutOfCalls \/ Fail \/ Publish
  BY <1>4, RefusedKeeps, LoseAnswerKeeps, LoseSearchKeeps, OutOfCallsKeeps, FailKeeps, PublishKeeps
<1>5. CASE \E s \in Source : Read(s) \/ Persist(s)
  BY <1>5, ReadKeeps, PersistKeeps
<1> QED  BY <1>1, <1>2, <1>3, <1>4, <1>5 DEF QualityNext

\* An accepted report is supported by material that was assessed as it reads in the last bundle,
\* and calls are never spent on passes whose review cannot be paid, for every number of sources,
\* claims, rounds and searches, and whatever is refused or lost (advance, _freeze, _validate, _call).
THEOREM ReportsHold == QualitySpec => []ReportIsSupported
<1>1. QualityInv => ReportIsSupported
  BY DEF QualityInv, BundleFollows, Frozen, CallsLast, ReportIsSupported
<1> QED  BY <1>1, QualityInitial, QualityStep, PTL DEF QualitySpec

-----------------------------------------------------------------------------
(* Paid campaigns.  Of the processes that run a campaign only one holds its   *)
(* claim, and no two campaigns run at a time, since each waits for evidence   *)
(* that the one before it has ended; and that evidence does not change.  A   *)
(* request that reached the provider has its row, and a row that was         *)
(* settled had reached it; the tasks of rows go with those of records.        *)

Holding == {"claimed", "tasks", "works", "reserved", "sent", "ends"}
Opened == Holding \ {"claimed"}
Bookings ==
    [task : 1..Tasks, number : 1..PerTask,
     state : {"reserved", "ok", "status", "nousage", "lost"}]
Entries == [task : 1..Tasks, status : Reported \cup {"provider_error"}, accounted : BOOLEAN]
Ledgers ==
    [campaign : Campaign \cup {"none"}, rows : Seq(Bookings), records : Seq(Entries),
     done : {"no", "partial", "complete"}]
Executions ==
    [campaign : Campaign \cup {"none"}, grant : Grant \cup {NoGrant}, task : 0..Tasks,
     calls : 0..PerTask, failed : BOOLEAN, charged : BOOLEAN]

CampaignTypes ==
    /\ claim \in [Campaign -> Grant \cup {NoGrant}]
    /\ ledger \in [Grant -> Ledgers]
    /\ cpc \in [Process -> {"idle", "checked"} \cup Holding]
    /\ run \in [Process -> Executions]
    /\ sent \in [Request -> {0, 1}]

RequestOf(f, i) == <<Version(f.campaign), f.rows[i].task, f.rows[i].number>>

\* What a ledger says.
Consistent(f) ==
    LET next == FirstTask[f.campaign] + Len(f.records) IN
    /\ Len(f.rows) <= Allowance[f.campaign]
    /\ \A j \in DOMAIN f.records :
         /\ f.records[j].task = FirstTask[f.campaign] + j - 1
         /\ f.records[j].accounted => AllOk(f, RowsOf(f, f.records[j].task))
    /\ \A i \in DOMAIN f.rows :
         /\ f.rows[i].task \in FirstTask[f.campaign]..next
         /\ f.done # "no" => f.rows[i].task < next
         /\ f.rows[i].state # "reserved" => sent[RequestOf(f, i)] = 1
    /\ \A i, j \in DOMAIN f.rows :
         f.rows[i].task = f.rows[j].task /\ f.rows[i].number = f.rows[j].number => i = j
    /\ f.done = "complete" => Complete(f)

\* Whose it may be.
Kept(g) ==
    LET f == ledger[g] IN
    IF f.campaign = "none" THEN f = NoFile ELSE claim[f.campaign] = g /\ Consistent(f)

\* Where a process is in its campaign.
Placed(p) ==
    LET r == run[p] f == Mine(p) IN
    /\ cpc[p] # "idle" => r.campaign \in Campaign /\ r.grant \in Grant /\ Evidence(r.campaign)
    /\ cpc[p] \in Holding => claim[r.campaign] = r.grant
    /\ cpc[p] \in {"checked", "claimed"} => r.task = 0
    /\ cpc[p] = "claimed" => f.campaign # r.campaign
    /\ cpc[p] \in Opened => f.campaign = r.campaign /\ f.done = "no"
    /\ cpc[p] \in {"tasks", "ends"} =>
         /\ r.task = IF f.records = <<>> THEN 0 ELSE FirstTask[r.campaign] + Len(f.records) - 1
         /\ \A i \in DOMAIN f.rows : f.rows[i].task < FirstTask[r.campaign] + Len(f.records)
    /\ cpc[p] \in {"works", "reserved", "sent"} =>
         /\ r.task = FirstTask[r.campaign] + Len(f.records)
         /\ \A i \in RowsOf(f, r.task) : f.rows[i].number <= r.calls
    /\ cpc[p] \in {"reserved", "sent"} =>
         LET last == Len(f.rows) IN
         /\ last > 0 /\ r.calls > 0
         /\ f.rows[last] = [task |-> r.task, number |-> r.calls, state |-> "reserved"]
         /\ sent[RequestOf(f, last)] = IF cpc[p] = "sent" THEN 1 ELSE 0

\* Who holds a campaign holds it alone.
Single ==
    \A p, q \in Process :
        cpc[p] \in Holding /\ cpc[q] \in Holding /\ run[p].campaign = run[q].campaign => p = q

\* What reached the provider is on a ledger.
OnLedger ==
    \A r \in Request : sent[r] = 1 =>
        \E g \in Grant : \E i \in DOMAIN ledger[g].rows : r = RequestOf(ledger[g], i)

CampaignInv ==
    /\ CampaignTypes
    /\ \A c \in Campaign : claim[c] # NoGrant => Evidence(c)
    /\ \A g \in Grant : Kept(g)
    /\ \A p \in Process : Placed(p)
    /\ Single
    /\ OnLedger

\* The parts of Consistent(f) that do not depend on whether the campaign ended.
LEMMA ConsistentIs ==
    ASSUME NEW f, NEW c, f.campaign = c, Consistent(f)
    PROVE  /\ Len(f.rows) <= Allowance[c]
           /\ \A j \in DOMAIN f.records : f.records[j].task = FirstTask[c] + j - 1
           /\ \A j \in DOMAIN f.records : f.records[j].accounted => AllOk(f, RowsOf(f, f.records[j].task))
           /\ \A i \in DOMAIN f.rows : f.rows[i].task \in FirstTask[c]..(FirstTask[c] + Len(f.records))
           /\ \A i \in DOMAIN f.rows : f.rows[i].state # "reserved" => sent[RequestOf(f, i)] = 1
           /\ \A i, j \in DOMAIN f.rows :
                f.rows[i].task = f.rows[j].task /\ f.rows[i].number = f.rows[j].number => i = j
  BY DEF Consistent

LEMMA FirstTasks ==
    /\ \A c \in Campaign : FirstTask[c] \in 1..Tasks /\ FirstTask[c] \in Nat /\ FirstTask[c] \in Int
    /\ Tasks \in Nat /\ FirstTask["tail"] = FirstLeft /\ FirstLeft \in Nat
  BY CampaignAssumption DEF FirstTask, Campaign

LEMMA CampaignStarts == CampaignInit => CampaignInv
<1> SUFFICES ASSUME CampaignInit PROVE CampaignInv
  OBVIOUS
<1> USE CampaignAssumption
<1>1. NoFile \in Ledgers /\ NoRun \in Executions
  BY DEF NoFile, NoRun, Ledgers, Executions
<1>2. CampaignTypes
  BY <1>1 DEF CampaignInit, CampaignTypes
<1>3. \A g \in Grant : Kept(g)
  BY DEF CampaignInit, Kept, Consistent, NoFile
<1>4. \A p \in Process : Placed(p)
  BY DEF CampaignInit, Placed, Holding, Opened
<1>5. Single /\ OnLedger /\ \A c \in Campaign : claim[c] = NoGrant
  BY DEF CampaignInit, Single, OnLedger, Holding
<1> QED  BY <1>2, <1>3, <1>4, <1>5 DEF CampaignInv

\* A campaign in progress is none whose evidence another one rests on.
LEMMA OneHolds ==
    ASSUME CampaignInv, NEW p \in Process, NEW q \in Process, cpc[p] \in Holding, cpc[q] \in Holding
    PROVE  p = q
<1>1. ASSUME NEW o \in Process, cpc[o] \in Holding
      PROVE  /\ run[o].campaign \in Campaign /\ Evidence(run[o].campaign)
             /\ LET f == ledger[claim[run[o].campaign]] IN f.campaign # run[o].campaign \/ f.done = "no"
  <2>1. Placed(o) /\ cpc[o] # "idle"
    BY <1>1 DEF CampaignInv, Holding
  <2>2. claim[run[o].campaign] = run[o].grant
    BY <1>1, <2>1 DEF Placed
  <2>3. cpc[o] = "claimed" \/ cpc[o] \in Opened
    BY <1>1 DEF Opened, Holding
  <2>4. QED  BY <2>1, <2>2, <2>3 DEF Placed, Mine
<1>2. run[p].campaign = run[q].campaign
  BY <1>1 DEF Campaign, Evidence, PriorPilot, StoppedV2
<1> QED  BY <1>2 DEF CampaignInv, Single

\* Evidence is of ledgers that have ended.
LEMMA EvidenceStays ==
    ASSUME CampaignInv, NEW c \in Campaign, Evidence(c),
           \A d \in Campaign : claim[d] # NoGrant => claim'[d] = claim[d],
           \A g \in Grant : ledger[g].done # "no" => ledger'[g] = ledger[g]
    PROVE  Evidence(c)'
<1>1. /\ claim["v1"] \in Grant \cup {NoGrant} /\ claim["v2"] \in Grant \cup {NoGrant}
  BY DEF CampaignInv, CampaignTypes, Campaign
<1>2. PriorPilot => PriorPilot'
  BY <1>1 DEF PriorPilot, Campaign, AllOk
<1>3. StoppedV2 => StoppedV2'
  BY <1>1 DEF StoppedV2, Campaign, AllOk
<1> QED  BY <1>2, <1>3 DEF Evidence

\* A step of a process that leaves the ledgers and the provider alone.
LEMMA LedgersStay ==
    ASSUME CampaignInv, NEW p \in Process, NEW R \in Executions,
           NEW at \in {"idle", "checked"} \cup Holding,
           cpc' = [cpc EXCEPT ![p] = at], run' = [run EXCEPT ![p] = R], UNCHANGED <<ledger, sent>>,
           claim' \in [Campaign -> Grant \cup {NoGrant}],
           \A d \in Campaign : claim[d] # NoGrant => claim'[d] = claim[d],
           \A d \in Campaign : claim'[d] # claim[d] => Evidence(d),
           Placed(p)', Single'
    PROVE  CampaignInv'
<1>1. CampaignTypes'
  BY DEF CampaignInv, CampaignTypes
<1>2. \A c \in Campaign : Evidence(c) => Evidence(c)'
  BY EvidenceStays
<1>3. \A c \in Campaign : claim'[c] # NoGrant => Evidence(c)'
  BY <1>2 DEF CampaignInv
<1>4. ASSUME NEW g \in Grant PROVE Kept(g)'
  <2>1. ledger[g] \in Ledgers /\ Kept(g) /\ NoGrant \notin Grant
    BY CampaignAssumption DEF CampaignInv, CampaignTypes
  <2>2. ledger[g].campaign \in Campaign => (claim[ledger[g].campaign] = g => claim'[ledger[g].campaign] = g)
    BY <2>1
  <2>3. ledger[g].campaign \in Campaign \/ ledger[g].campaign = "none"
    BY <2>1 DEF Ledgers
  <2>4. QED  BY <2>1, <2>2, <2>3 DEF Kept, Consistent, AllOk, RowsOf, RequestOf, Complete
<1>5. ASSUME NEW q \in Process PROVE Placed(q)'
  <2>1. CASE q = p
    BY <2>1
  <2>2. CASE q # p
    <3>1. cpc'[q] = cpc[q] /\ run'[q] = run[q] /\ Placed(q) /\ NoGrant \notin Grant
      BY <2>2, CampaignAssumption DEF CampaignInv, CampaignTypes
    <3>2. run[q].campaign \in Campaign =>
            /\ Evidence(run[q].campaign) => Evidence(run[q].campaign)'
            /\ claim[run[q].campaign] = run[q].grant /\ run[q].grant \in Grant
                 => claim'[run[q].campaign] = run[q].grant
      BY <1>2, <3>1
    <3>3. cpc[q] \in Holding => cpc[q] # "idle"
      BY DEF Holding
    <3>4. Mine(q)' = Mine(q) /\ sent' = sent
      BY <3>1 DEF Mine
    <3>5. /\ \A t : RowsOf(Mine(q), t)' = RowsOf(Mine(q), t)
          /\ \A i : RequestOf(Mine(q), i)' = RequestOf(Mine(q), i)
      BY <3>1, <3>4 DEF RowsOf, RequestOf
    <3>6. cpc'[q] # "idle" =>
            /\ run'[q].campaign \in Campaign /\ run'[q].grant \in Grant /\ Evidence(run[q].campaign)'
            /\ cpc[q] \in Holding => claim'[run[q].campaign] = run[q].grant
      BY <3>1, <3>2 DEF Placed
    <3>7. QED  BY <3>1, <3>3, <3>4, <3>5, <3>6 DEF Placed, Evidence
  <2>3. QED  BY <2>1, <2>2
<1>6. OnLedger'
  BY DEF CampaignInv, OnLedger, RequestOf
<1>7. QED  BY <1>1, <1>3, <1>4, <1>5, <1>6 DEF CampaignInv

LEMMA NoRunIs == NoRun \in Executions /\ NoRun.task = 0
  BY CampaignAssumption DEF NoRun, Executions

LEMMA CheckKeeps ==
    ASSUME CampaignInv, NEW p \in Process, NEW c \in Campaign, NEW g \in Grant, Check(p, c, g)
    PROVE  CampaignInv'
<1>1. PICK R \in Executions : R = [NoRun EXCEPT !.campaign = c, !.grant = g]
  BY NoRunIs DEF Executions
<1>2. /\ cpc' = [cpc EXCEPT ![p] = "checked"] /\ run' = [run EXCEPT ![p] = R]
      /\ UNCHANGED <<claim, ledger, sent>> /\ Evidence(c)
  BY <1>1 DEF Check, Goto
<1>3. R.campaign = c /\ R.grant = g /\ R.task = 0
  BY <1>1, NoRunIs DEF Executions, NoRun
<1>4. /\ cpc'[p] = "checked" /\ run'[p] = R
      /\ \A q \in Process : q # p => cpc'[q] = cpc[q] /\ run'[q] = run[q]
  BY <1>2 DEF CampaignInv, CampaignTypes
<1>5. Evidence(c)' /\ claim' \in [Campaign -> Grant \cup {NoGrant}]
  BY <1>2, EvidenceStays DEF CampaignInv, CampaignTypes
<1>6. Placed(p)'
  BY <1>3, <1>4, <1>5 DEF Placed, Holding, Opened
<1>7. Single'
  BY <1>4 DEF CampaignInv, Single, Holding
<1> QED  BY <1>2, <1>5, <1>6, <1>7, LedgersStay

LEMMA TakeClaimKeeps == ASSUME CampaignInv, NEW p \in Process, TakeClaim(p) PROVE CampaignInv'
<1>1. PICK c \in Campaign, g \in Grant : c = run[p].campaign /\ g = run[p].grant
  BY DEF TakeClaim, CampaignInv, Placed
<1>2. /\ cpc[p] = "checked" /\ claim[c] = NoGrant /\ claim' = [claim EXCEPT ![c] = g]
      /\ cpc' = [cpc EXCEPT ![p] = "claimed"] /\ UNCHANGED <<ledger, run, sent>>
      /\ run[p] \in Executions /\ run' = [run EXCEPT ![p] = run[p]] /\ NoGrant \notin Grant
  BY <1>1, CampaignAssumption DEF TakeClaim, ClaimFree, Goto, CampaignInv, CampaignTypes
<1>3. Placed(p) /\ Kept(g) /\ ledger[g] \in Ledgers
  BY DEF CampaignInv, CampaignTypes
<1>4. /\ claim' \in [Campaign -> Grant \cup {NoGrant}] /\ claim'[c] = g
      /\ \A d \in Campaign : d # c => claim'[d] = claim[d]
      /\ cpc'[p] = "claimed" /\ \A q \in Process : q # p => cpc'[q] = cpc[q]
  BY <1>2 DEF CampaignInv, CampaignTypes
<1>5. Evidence(c) /\ \A d \in Campaign : claim[d] # NoGrant => claim'[d] = claim[d]
  BY <1>1, <1>2, <1>3, <1>4 DEF Placed
<1>6. Evidence(c)'
  BY <1>2, <1>5, EvidenceStays
<1>7. ledger[g].campaign # c
  BY <1>2, <1>3 DEF Kept, Consistent, Ledgers, Campaign
<1>8. Placed(p)'
  BY <1>1, <1>2, <1>3, <1>4, <1>6, <1>7 DEF Placed, Holding, Opened, Mine
<1>9. Single'
  <2>1. ASSUME NEW q \in Process, q # p, cpc[q] \in Holding PROVE run[q].campaign # c
    <3>1. Placed(q) /\ cpc[q] # "idle"
      BY <2>1 DEF CampaignInv, Holding
    <3>2. QED  BY <1>2, <2>1, <3>1 DEF Placed
  <2>2. QED  BY <1>1, <1>2, <1>4, <2>1 DEF CampaignInv, Single
<1>10. "claimed" \in {"idle", "checked"} \cup Holding /\ \A d \in Campaign : claim'[d] # claim[d] => Evidence(d)
  BY <1>4, <1>5 DEF Holding
<1> QED  BY <1>2, <1>4, <1>5, <1>8, <1>9, <1>10, LedgersStay

\* Another process had the claim, or this one died.
LEMMA LeaveKeeps ==
    ASSUME CampaignInv, NEW p \in Process, LeaveRun(p), UNCHANGED <<claim, ledger, sent>>
    PROVE  CampaignInv'
<1>1. /\ cpc' = [cpc EXCEPT ![p] = "idle"] /\ run' = [run EXCEPT ![p] = NoRun]
      /\ claim' \in [Campaign -> Grant \cup {NoGrant}]
  BY DEF LeaveRun, Goto, CampaignInv, CampaignTypes
<1>2. cpc'[p] = "idle" /\ \A q \in Process : q # p => cpc'[q] = cpc[q] /\ run'[q] = run[q]
  BY <1>1 DEF CampaignInv, CampaignTypes
<1>3. Placed(p)' /\ Single'
  BY <1>2 DEF Placed, Single, Holding, Opened, CampaignInv
<1> QED  BY <1>1, <1>3, NoRunIs, LedgersStay

LEMMA BookingIsRequest ==
    ASSUME NEW f \in Ledgers, NEW i \in DOMAIN f.rows PROVE RequestOf(f, i) \in Request
<1>1. f.rows \in Seq(Bookings)
  BY DEF Ledgers
<1>2. f.rows[i] \in Bookings
  BY <1>1
<1>3. f.rows[i].task \in 1..Tasks /\ f.rows[i].number \in 1..PerTask
  BY <1>2 DEF Bookings
<1>4. Version(f.campaign) \in {1, 2}
  BY DEF Version
<1> QED  BY <1>3, <1>4 DEF RequestOf, Request

\* A step of the process that has opened the ledger: it writes there, or asks the
\* provider for what it has booked last.
LEMMA LedgerMoves ==
    ASSUME CampaignInv, NEW p \in Process, NEW g \in Grant, NEW F \in Ledgers, NEW R \in Executions,
           NEW at \in {"idle"} \cup Opened,
           cpc[p] \in Holding, g = run[p].grant, ledger[g].done = "no",
           cpc' = [cpc EXCEPT ![p] = at], run' = [run EXCEPT ![p] = R],
           ledger' = [ledger EXCEPT ![g] = F], UNCHANGED claim,
           at = "idle" \/ (R.campaign = run[p].campaign /\ R.grant = g),
           F.campaign = run[p].campaign,
           sent' \in [Request -> {0, 1}],
           \A r \in Request : sent[r] = 1 => sent'[r] = 1,
           \A i \in DOMAIN ledger[g].rows : i \in DOMAIN F.rows /\ RequestOf(F, i) = RequestOf(ledger[g], i),
           \A r \in Request : sent'[r] = 1 /\ sent[r] # 1 =>
             \E i \in DOMAIN F.rows : r = RequestOf(F, i),
           Kept(g)', Placed(p)'
    PROVE  CampaignInv'
<1>1. /\ CampaignTypes /\ Placed(p) /\ cpc[p] \in Holding /\ ledger[g] \in Ledgers
      /\ cpc[p] # "idle"
      /\ run[p].campaign \in Campaign
  BY DEF CampaignInv, CampaignTypes, Opened, Holding, Placed, Mine
<1>2. CampaignTypes'
  BY <1>1 DEF CampaignTypes, Opened
<1>3. ledger'[g] = F /\ \A h \in Grant : h # g => ledger'[h] = ledger[h]
  BY <1>1 DEF CampaignTypes
<1>4. cpc'[p] = at /\ run'[p] = R /\ \A q \in Process : q # p => cpc'[q] = cpc[q] /\ run'[q] = run[q]
  BY <1>1 DEF CampaignTypes
<1>5. \A c \in Campaign : Evidence(c) => Evidence(c)'
  BY <1>1, <1>3, EvidenceStays
<1>6. ASSUME NEW h \in Grant PROVE Kept(h)'
  <2>1. CASE h = g
    BY <2>1
  <2>2. CASE h # g
    <3>1. Kept(h) /\ ledger'[h] = ledger[h] /\ claim' = claim /\ ledger[h] \in Ledgers
      BY <1>1, <1>3, <2>2 DEF CampaignInv, CampaignTypes
    <3>2. PICK f \in Ledgers : f = ledger[h] /\ f = ledger'[h]
      BY <3>1
    <3>3. CASE f.campaign = "none"
      BY <3>1, <3>2, <3>3 DEF Kept, Consistent
    <3>4. CASE f.campaign # "none"
      <4>1. ASSUME NEW i \in DOMAIN f.rows, sent[RequestOf(f, i)] = 1 PROVE sent'[RequestOf(f, i)] = 1
        BY <4>1, BookingIsRequest
      <4>2. claim[f.campaign] = h /\ Consistent(f)
        BY <3>1, <3>2, <3>4 DEF Kept
      <4>3. Consistent(f)'
        BY <4>1, <4>2 DEF Consistent, Complete, AllOk, RowsOf, RequestOf
      <4>4. QED  BY <3>1, <3>2, <3>4, <4>2, <4>3 DEF Kept
    <3>5. QED  BY <3>3, <3>4
  <2>3. QED  BY <2>1, <2>2
<1>7. ASSUME NEW q \in Process PROVE Placed(q)'
  <2>1. CASE q = p
    BY <2>1
  <2>2. CASE q # p
    <3>1. cpc'[q] = cpc[q] /\ run'[q] = run[q] /\ Placed(q)
      BY <1>4, <2>2 DEF CampaignInv
    <3>2. cpc[q] \notin Holding
      BY <1>1, <2>2, OneHolds
    <3>3. cpc[q] \in {"idle", "checked"}
      BY <1>1, <3>2 DEF CampaignTypes
    <3>4. QED  BY <1>5, <3>1, <3>3 DEF Placed, Opened, Holding
  <2>3. QED  BY <2>1, <2>2
<1>8. Single'
  <2>1. at \in Holding => R.campaign = run[p].campaign
    BY DEF Holding
  <2>2. QED  BY <1>1, <1>4, <2>1 DEF CampaignInv, Single
<1>9. OnLedger'
  <2>1. ASSUME NEW r \in Request, sent'[r] = 1
        PROVE  \E h \in Grant : \E i \in DOMAIN ledger'[h].rows : r = RequestOf(ledger'[h], i)
    <3>1. CASE sent[r] = 1
      <4>1. PICK h \in Grant : \E i \in DOMAIN ledger[h].rows : r = RequestOf(ledger[h], i)
        BY <3>1 DEF CampaignInv, OnLedger
      <4>2. QED  BY <1>3, <4>1
    <3>2. CASE sent[r] # 1
      BY <1>3, <2>1, <3>2
    <3>3. QED  BY <3>1, <3>2
  <2>2. QED  BY <2>1 DEF OnLedger, RequestOf
<1>10. \A c \in Campaign : claim'[c] # NoGrant => Evidence(c)'
  BY <1>5 DEF CampaignInv
<1> QED  BY <1>2, <1>6, <1>7, <1>8, <1>9, <1>10 DEF CampaignInv

LEMMA AllowanceIsNat == \A c \in Campaign : Allowance[c] \in Nat
  BY CampaignAssumption DEF Allowance, Campaign

LEMMA OpenLedgerKeeps == ASSUME CampaignInv, NEW p \in Process, OpenLedger(p) PROVE CampaignInv'
<1>1. /\ Placed(p) /\ cpc[p] = "claimed" /\ cpc[p] \in Holding /\ run[p] \in Executions
      /\ UNCHANGED <<claim, run, sent>>
  BY DEF OpenLedger, CampaignInv, CampaignTypes, Holding
<1>2. PICK g \in Grant, c \in Campaign, R \in Executions :
        g = run[p].grant /\ c = run[p].campaign /\ R = run[p]
  BY <1>1 DEF Placed
<1>3. PICK F \in Ledgers : F = [NoFile EXCEPT !.campaign = c]
  <2>1. NoFile \in Ledgers
    BY DEF NoFile, Ledgers
  <2>2. QED  BY <2>1 DEF Ledgers
<1>4. /\ ledger[g] = NoFile /\ ledger' = [ledger EXCEPT ![g] = F]
      /\ cpc' = [cpc EXCEPT ![p] = "tasks"] /\ run' = [run EXCEPT ![p] = R]
  BY <1>1, <1>2, <1>3 DEF OpenLedger, Mine, WriteLedger, NewLedger, Goto, CampaignInv, CampaignTypes
<1>5. /\ F.campaign = c /\ F.rows = <<>> /\ F.records = <<>> /\ F.done = "no"
      /\ NoFile.rows = <<>> /\ NoFile.done = "no"
  BY <1>3 DEF NoFile
<1>6. cpc'[p] = "tasks" /\ ledger'[g] = F /\ claim[c] = g /\ run[p].task = 0 /\ Evidence(c)
  BY <1>1, <1>2, <1>4 DEF CampaignInv, CampaignTypes, Placed
<1>7. Evidence(c)'
  BY <1>4, <1>5, <1>6, <1>1, EvidenceStays DEF CampaignInv, CampaignTypes
<1>8. Kept(g)'
  BY <1>1, <1>5, <1>6, AllowanceIsNat DEF Kept, Consistent, Campaign
<1>9. Placed(p)'
  BY <1>1, <1>2, <1>5, <1>6, <1>7 DEF Placed, Mine, Holding, Opened
<1>10. sent' \in [Request -> {0, 1}] /\ "tasks" \in {"idle"} \cup Opened
  BY <1>1 DEF CampaignInv, CampaignTypes, Opened, Holding
<1> QED
  <2>1. R.campaign = c /\ R.grant = g /\ ledger[g].done = "no" /\ sent' = sent /\ claim' = claim
    BY <1>1, <1>2, <1>4, <1>5
  <2>2. \A i \in DOMAIN ledger[g].rows : FALSE
    BY <1>4, <1>5
  <2>3. /\ \A r \in Request : sent[r] = 1 => sent'[r] = 1
        /\ \A r \in Request : ~(sent'[r] = 1 /\ sent[r] # 1)
    BY <2>1
  <2>4. \A i \in DOMAIN ledger[g].rows : i \in DOMAIN F.rows /\ RequestOf(F, i) = RequestOf(ledger[g], i)
    BY <2>2
  <2>5. \A r \in Request : sent'[r] = 1 /\ sent[r] # 1 => \E i \in DOMAIN F.rows : r = RequestOf(F, i)
    BY <2>3
  <2>6. cpc[p] \in Holding /\ F.campaign = run[p].campaign /\ R.campaign = run[p].campaign /\ R.grant = g
    BY <1>1, <1>2, <1>5
  <2>7. cpc' = [cpc EXCEPT ![p] = "tasks"] /\ run' = [run EXCEPT ![p] = R] /\ ledger' = [ledger EXCEPT ![g] = F]
    BY <1>4
  <2>8. QED
    BY <1>2, <1>8, <1>9, <1>10, <2>1, <2>3, <2>4, <2>5, <2>6, <2>7, LedgerMoves

\* What is known of the process that works on a campaign.
LEMMA OpenIs ==
    ASSUME CampaignInv, NEW p \in Process, cpc[p] \in Opened
    PROVE  /\ Placed(p) /\ cpc[p] \in Holding /\ run[p] \in Executions
           /\ run[p].grant \in Grant /\ run[p].campaign \in Campaign
           /\ ledger[run[p].grant] \in Ledgers /\ Kept(run[p].grant)
           /\ claim[run[p].campaign] = run[p].grant /\ Evidence(run[p].campaign)
           /\ ledger[run[p].grant].campaign = run[p].campaign /\ ledger[run[p].grant].done = "no"
<1>1. Placed(p) /\ cpc[p] \in Holding /\ cpc[p] # "idle"
  BY DEF CampaignInv, Opened, Holding
<1> QED  BY <1>1 DEF CampaignInv, CampaignTypes, Placed, Mine

LEMMA BetweenTasks ==
    ASSUME CampaignInv, NEW p \in Process, cpc[p] \in {"tasks", "ends"},
           NEW f \in Ledgers, f = ledger[run[p].grant]
    PROVE  LET next == FirstTask[run[p].campaign] + Len(f.records) IN
           /\ run[p].task = IF f.records = <<>> THEN 0 ELSE next - 1
           /\ \A i \in DOMAIN f.rows : f.rows[i].task < next
<1>1. Placed(p) /\ cpc[p] \in Opened
  BY DEF CampaignInv, Opened, Holding
<1>2. FirstTask[run[p].campaign] \in Nat /\ Len(f.records) \in Nat
  <2>1. run[p].campaign \in Campaign
    BY <1>1, OpenIs
  <2>2. QED  BY <2>1, FirstTasks DEF Ledgers
<1>3. run[p].task = IF f.records = <<>> THEN 0 ELSE FirstTask[run[p].campaign] + Len(f.records) - 1
  BY <1>1 DEF Placed, Mine
<1>4. \A i \in DOMAIN f.rows : f.rows[i].task < FirstTask[run[p].campaign] + Len(f.records)
  BY <1>1 DEF Placed, Mine
<1> QED  BY <1>2, <1>3, <1>4

LEMMA InATask ==
    ASSUME CampaignInv, NEW p \in Process, cpc[p] \in {"works", "reserved", "sent"},
           NEW f \in Ledgers, f = ledger[run[p].grant]
    PROVE  /\ run[p].task = FirstTask[run[p].campaign] + Len(f.records)
           /\ \A i \in RowsOf(f, run[p].task) : f.rows[i].number <= run[p].calls
<1>1. Placed(p)
  BY DEF CampaignInv
<1> QED  BY <1>1 DEF Placed, Mine

LEMMA BeginTaskKeeps == ASSUME CampaignInv, NEW p \in Process, BeginTask(p) PROVE CampaignInv'
<1>1. cpc[p] = "tasks" /\ cpc[p] \in Opened /\ Left(p) # {} /\ UNCHANGED <<claim, ledger, sent>>
  BY DEF BeginTask, Opened, Holding
<1>2. PICK g \in Grant, c \in Campaign, f \in Ledgers :
        g = run[p].grant /\ c = run[p].campaign /\ f = ledger[g]
  BY <1>1, OpenIs
<1>3. Placed(p) /\ Kept(g) /\ run[p] \in Executions /\ claim[c] = g /\ Evidence(c)
  BY <1>1, <1>2, OpenIs
<1>4. FirstTask[c] \in 1..Tasks /\ Tasks \in Nat /\ Len(f.records) \in Nat
  BY CampaignAssumption DEF FirstTask, Campaign, Ledgers
<1> DEFINE next == FirstTask[c] + Len(f.records)
<1>5. Left(p) = {t \in FirstTask[c]..Tasks : t > run[p].task}
  BY <1>2 DEF Left, Planned
<1>6. run[p].task = IF f.records = <<>> THEN 0 ELSE next - 1
  BY <1>1, <1>2, BetweenTasks
<1>7. f.records = <<>> <=> Len(f.records) = 0
  BY DEF Ledgers
<1>8. Left(p) = next..Tasks
  BY <1>4, <1>5, <1>6, <1>7
<1>9. next \in 1..Tasks /\ (CHOOSE t \in Left(p) : \A u \in Left(p) : t <= u) = next
  <2>1. next \in Left(p) /\ \A u \in Left(p) : next <= u
    BY <1>1, <1>4, <1>8
  <2>2. \A t \in Left(p) : (\A u \in Left(p) : t <= u) => t = next
    BY <1>4, <1>8, <2>1
  <2>3. QED  BY <1>4, <1>8, <2>1, <2>2
<1>10. PICK R \in Executions : R = [run[p] EXCEPT !.task = next, !.calls = 0, !.failed = FALSE,
                                                  !.charged = TRUE]
  <2>1. next \in 0..Tasks /\ 0 \in 0..PerTask
    BY <1>9, CampaignAssumption
  <2>2. QED  BY <1>3, <2>1 DEF Executions
<1>11. /\ cpc' = [cpc EXCEPT ![p] = "works"] /\ run' = [run EXCEPT ![p] = R]
       /\ ledger' = [ledger EXCEPT ![g] = f]
  BY <1>1, <1>2, <1>9, <1>10 DEF BeginTask, Goto, CampaignInv, CampaignTypes
<1>12. cpc'[p] = "works" /\ run'[p] = R /\ ledger' = ledger
  BY <1>1, <1>11 DEF CampaignInv, CampaignTypes
<1>13. R.campaign = c /\ R.grant = g /\ R.task = next
  BY <1>2, <1>3, <1>10 DEF Executions
<1>14. Kept(g)'
  BY <1>1, <1>3 DEF Kept, Consistent, Complete, AllOk, RowsOf
<1>15. RowsOf(f, next) = {}
  <2>1. \A i \in DOMAIN f.rows : f.rows[i].task < next
    BY <1>1, <1>2, BetweenTasks
  <2>2. QED  BY <1>9, <2>1 DEF RowsOf
<1>16. Evidence(c)'
  BY <1>1, <1>3, EvidenceStays
<1>17. Placed(p)'
  <2>1. ledger'[R.grant] = f /\ f.campaign = c /\ f.done = "no" /\ claim'[c] = g
    BY <1>1, <1>2, <1>3, <1>12, <1>13, OpenIs
  <2>2. QED  BY <1>12, <1>13, <1>15, <1>16, <2>1 DEF Placed, Mine, Holding, Opened
<1>18. sent' \in [Request -> {0, 1}] /\ "works" \in {"idle"} \cup Opened
  BY <1>1 DEF CampaignInv, CampaignTypes, Opened, Holding
<1> QED  BY <1>1, <1>2, <1>11, <1>13, <1>14, <1>17, <1>18, OpenIs, LedgerMoves

\* Two ledgers of one version are the stopped second version's and the continuation's.
LEMMA LedgersApart ==
    ASSUME CampaignInv, NEW g \in Grant, NEW h \in Grant, g # h,
           ledger[g].campaign # "none", ledger[h].campaign # "none",
           Version(ledger[g].campaign) = Version(ledger[h].campaign)
    PROVE  \E a, b \in {g, h} :
             /\ a # b /\ ledger[a].campaign = "v2" /\ ledger[b].campaign = "tail"
             /\ ledger[a].done = "partial"
             /\ \A i \in DOMAIN ledger[a].rows : ledger[a].rows[i].task < FirstLeft
<1>1. /\ ledger[g].campaign \in Campaign /\ claim[ledger[g].campaign] = g
      /\ ledger[h].campaign \in Campaign /\ claim[ledger[h].campaign] = h
  BY DEF CampaignInv, CampaignTypes, Ledgers, Kept, Consistent
<1>2. PICK a, b \in {g, h} : a # b /\ ledger[a].campaign = "v2" /\ ledger[b].campaign = "tail"
  BY <1>1 DEF Version, Campaign
<1>3. a \in Grant /\ claim["v2"] = a /\ claim["tail"] # NoGrant
  BY <1>1, <1>2, CampaignAssumption
<1>4. StoppedV2
  BY <1>3 DEF CampaignInv, Campaign, Evidence
<1>5. ledger[a].done = "partial" /\ Len(ledger[a].records) = FirstLeft - 1
  BY <1>3, <1>4 DEF StoppedV2
<1>6. Kept(a) /\ ledger[a] \in Ledgers /\ FirstTask["v2"] = 1 /\ FirstLeft \in Int
  BY <1>3, CampaignAssumption DEF CampaignInv, CampaignTypes, FirstTask
<1>7. \A i \in DOMAIN ledger[a].rows : ledger[a].rows[i].task < 1 + (FirstLeft - 1)
  BY <1>2, <1>5, <1>6 DEF Kept, Consistent
<1>8. QED  BY <1>2, <1>5, <1>6, <1>7

\* What a task has not booked was not sent for it.
LEMMA RequestIsNew ==
    ASSUME CampaignInv, NEW p \in Process, cpc[p] = "works",
           NEW n \in 1..PerTask, run[p].calls < n
    PROVE  sent[<<Version(run[p].campaign), run[p].task, n>>] # 1
<1>1. cpc[p] \in Opened
  BY DEF Opened, Holding
<1>2. PICK g \in Grant, c \in Campaign, f \in Ledgers :
        g = run[p].grant /\ c = run[p].campaign /\ f = ledger[g]
  BY <1>1, OpenIs
<1>3. Kept(g) /\ run[p] \in Executions /\ f.campaign = c /\ f.done = "no"
  BY <1>1, <1>2, OpenIs
<1>4. /\ run[p].task = FirstTask[c] + Len(f.records)
      /\ \A i \in RowsOf(f, run[p].task) : f.rows[i].number <= run[p].calls
  BY <1>2, InATask
<1>5. /\ run[p].task \in 1..Tasks /\ run[p].calls \in Int /\ Len(f.records) \in Nat
      /\ c = "tail" => run[p].task >= FirstLeft
  BY <1>3, <1>4, CampaignAssumption DEF Executions, Ledgers, FirstTask, Campaign
<1> SUFFICES ASSUME sent[<<Version(c), run[p].task, n>>] = 1 PROVE FALSE
  BY <1>2
<1>6. <<Version(c), run[p].task, n>> \in Request
  BY <1>5 DEF Request, Version
<1>7. PICK h \in Grant : \E i \in DOMAIN ledger[h].rows : <<Version(c), run[p].task, n>> = RequestOf(ledger[h], i)
  BY <1>6 DEF CampaignInv, OnLedger
<1>8. PICK i \in DOMAIN ledger[h].rows : <<Version(c), run[p].task, n>> = RequestOf(ledger[h], i)
  BY <1>7
<1>9. /\ Version(ledger[h].campaign) = Version(c)
      /\ ledger[h].rows[i].task = run[p].task /\ ledger[h].rows[i].number = n
  BY <1>8 DEF RequestOf
<1>10. ledger[h].campaign # "none"
  <2>1. Kept(h) /\ NoFile.rows = <<>>
    BY DEF CampaignInv, NoFile
  <2>2. QED  BY <2>1 DEF Kept, Consistent
<1>11. CASE h = g
  <2>1. i \in RowsOf(f, run[p].task) /\ f.rows[i].number = n
    BY <1>2, <1>9, <1>11 DEF RowsOf
  <2>2. QED  BY <1>4, <1>5, <2>1
<1>12. CASE h # g
  <2>1. ledger[g].campaign # "none" /\ ledger[g].campaign = c /\ ledger[g].done = "no"
    BY <1>2, <1>3 DEF Campaign
  <2>2. PICK a, b \in {g, h} :
             /\ a # b /\ ledger[a].campaign = "v2" /\ ledger[b].campaign = "tail"
             /\ ledger[a].done = "partial"
             /\ \A j \in DOMAIN ledger[a].rows : ledger[a].rows[j].task < FirstLeft
    BY <1>9, <1>10, <1>12, <2>1, LedgersApart
  <2>3. a = h /\ c = "tail"
    BY <2>1, <2>2
  <2>4. ledger[h].rows[i].task < FirstLeft
    BY <2>2, <2>3
  <2>5. run[p].task < FirstLeft /\ run[p].task >= FirstLeft
    BY <1>5, <1>9, <2>3, <2>4
  <2>6. QED  BY <1>5, <2>5, FirstTasks
<1> QED  BY <1>11, <1>12

LEMMA AppendIs ==
    ASSUME NEW S, NEW s \in Seq(S), NEW e \in S
    PROVE  /\ Append(s, e) \in Seq(S) /\ Len(Append(s, e)) = Len(s) + 1
           /\ DOMAIN Append(s, e) = DOMAIN s \cup {Len(s) + 1}
           /\ Len(s) \in Nat /\ DOMAIN s = 1..Len(s) /\ Len(s) + 1 \notin DOMAIN s
           /\ \A i \in DOMAIN s : Append(s, e)[i] = s[i]
           /\ Append(s, e)[Len(s) + 1] = e
           /\ Append(s, e) # <<>>
  OBVIOUS

LEMMA ReserveRequestKeeps == ASSUME CampaignInv, NEW p \in Process, ReserveRequest(p) PROVE CampaignInv'
<1>1. /\ cpc[p] = "works" /\ cpc[p] \in Opened /\ Reservable(p) /\ run[p].calls < PerTask
      /\ UNCHANGED <<claim, sent>>
  BY DEF ReserveRequest, Opened, Holding
<1>2. PICK g \in Grant, c \in Campaign, f \in Ledgers :
        g = run[p].grant /\ c = run[p].campaign /\ f = ledger[g]
  BY <1>1, OpenIs
<1>3. /\ Placed(p) /\ Kept(g) /\ run[p] \in Executions /\ claim[c] = g /\ Evidence(c)
      /\ f.campaign = c /\ f.done = "no" /\ cpc[p] \in Holding
  BY <1>1, <1>2, OpenIs
<1>4. PICK R \in Executions : R = [run[p] EXCEPT !.calls = run[p].calls + 1]
  <2>1. run[p].calls + 1 \in 0..PerTask
    BY <1>1, <1>3, CampaignAssumption DEF Executions
  <2>2. QED  BY <1>3, <2>1 DEF Executions
<1>5. /\ R.campaign = c /\ R.grant = g /\ R.task = run[p].task /\ R.calls = run[p].calls + 1
      /\ R.task = FirstTask[c] + Len(f.records) /\ R.calls \in 1..PerTask /\ R.task \in 1..Tasks
      /\ run[p].calls \in Nat
  <2>1. FirstTask[c] \in 1..Tasks /\ Len(f.records) \in Nat /\ run[p].task = FirstTask[c] + Len(f.records)
    <3>1. FirstTask[c] \in 1..Tasks
      BY CampaignAssumption DEF FirstTask, Campaign
    <3>2. run[p].task = FirstTask[c] + Len(f.records)
      BY <1>1, <1>2, InATask
    <3>3. QED  BY <3>1, <3>2 DEF Ledgers
  <2>2. /\ R.campaign = c /\ R.grant = g /\ R.task = run[p].task /\ R.calls = run[p].calls + 1
        /\ run[p].task \in 0..Tasks /\ run[p].calls \in 0..PerTask
    BY <1>2, <1>3, <1>4 DEF Executions
  <2>3. Tasks \in Nat /\ PerTask \in Nat
    BY CampaignAssumption
  <2>4. R.calls \in 1..PerTask /\ run[p].calls \in Nat
    BY <1>1, <2>2, <2>3
  <2>5. run[p].task \in 1..Tasks
    BY <2>1, <2>2, <2>3
  <2>6. QED  BY <2>1, <2>2, <2>4, <2>5
<1>6. PICK b \in Bookings : b = [task |-> R.task, number |-> R.calls, state |-> "reserved"]
  BY <1>5 DEF Bookings
<1>7. PICK F \in Ledgers : F = [f EXCEPT !.rows = Append(f.rows, b)]
  BY AppendIs DEF Ledgers
<1>8. /\ F.campaign = c /\ F.done = "no" /\ F.records = f.records /\ F.rows = Append(f.rows, b)
      /\ b.task = R.task /\ b.number = R.calls /\ b.state = "reserved"
  BY <1>3, <1>6, <1>7 DEF Ledgers
<1> DEFINE last == Len(f.rows) + 1
<1>9. /\ DOMAIN F.rows = DOMAIN f.rows \cup {last} /\ Len(F.rows) = last /\ last \notin DOMAIN f.rows
      /\ F.rows[last] = b /\ \A i \in DOMAIN f.rows : F.rows[i] = f.rows[i]
      /\ last > 0 /\ Len(f.rows) \in Nat
  BY <1>8, AppendIs DEF Ledgers
<1>10. /\ cpc' = [cpc EXCEPT ![p] = "reserved"] /\ run' = [run EXCEPT ![p] = R]
       /\ ledger' = [ledger EXCEPT ![g] = F]
  BY <1>1, <1>2, <1>4, <1>5, <1>6, <1>7 DEF ReserveRequest, Goto, WriteLedger, Booked, Mine
<1>11. cpc'[p] = "reserved" /\ run'[p] = R /\ ledger'[g] = F /\ claim' = claim /\ sent' = sent
  BY <1>1, <1>10 DEF CampaignInv, CampaignTypes
<1>12. RequestOf(F, last) = <<Version(c), R.task, R.calls>> /\ sent[RequestOf(F, last)] = 0
  <2>1. RequestOf(F, last) = <<Version(c), R.task, R.calls>>
    BY <1>8, <1>9 DEF RequestOf
  <2>2. sent[RequestOf(F, last)] # 1
    <3>1. R.calls \in 1..PerTask /\ run[p].calls < R.calls
      BY <1>5
    <3>2. sent[<<Version(run[p].campaign), run[p].task, R.calls>>] # 1
      BY <1>1, <3>1, RequestIsNew
    <3>3. QED  BY <1>2, <1>5, <2>1, <3>2
  <2>3. RequestOf(F, last) \in Request
    BY <1>9, BookingIsRequest
  <2>4. QED  BY <2>1, <2>2, <2>3 DEF CampaignInv, CampaignTypes
<1>13. \A i \in DOMAIN f.rows : RequestOf(F, i) = RequestOf(f, i)
  BY <1>3, <1>8, <1>9 DEF RequestOf
<1>14. /\ Len(f.rows) < Allowance[c] /\ Allowance[c] \in Nat
       /\ \A i \in DOMAIN f.rows : f.rows[i].task = R.task => f.rows[i].number < R.calls
  <2>1. \A i \in RowsOf(f, run[p].task) : f.rows[i].number <= run[p].calls
    BY <1>1, <1>2, InATask
  <2>2. ASSUME NEW i \in DOMAIN f.rows, f.rows[i].task = R.task PROVE f.rows[i].number < R.calls
    <3>1. f.rows[i] \in Bookings
      BY DEF Ledgers
    <3>2. f.rows[i].number \in Int /\ f.rows[i].number <= run[p].calls
      BY <1>5, <2>1, <2>2, <3>1 DEF RowsOf, Bookings
    <3>3. QED  BY <1>5, <3>2
  <2>3. QED  BY <1>1, <1>2, <2>2, AllowanceIsNat DEF Reservable, Mine
<1>15. Kept(g)'
  <2>1. F.campaign # "none" /\ claim'[F.campaign] = g /\ Len(F.rows) <= Allowance[F.campaign]
    BY <1>3, <1>8, <1>9, <1>11, <1>14 DEF Campaign
  <2>2. /\ \A j \in DOMAIN f.records : f.records[j].task = FirstTask[c] + j - 1
        /\ \A j \in DOMAIN f.records : f.records[j].accounted => AllOk(f, RowsOf(f, f.records[j].task))
        /\ \A i \in DOMAIN f.rows : f.rows[i].task \in FirstTask[c]..(FirstTask[c] + Len(f.records))
        /\ \A i \in DOMAIN f.rows : f.rows[i].state # "reserved" => sent[RequestOf(f, i)] = 1
        /\ \A i, j \in DOMAIN f.rows :
             f.rows[i].task = f.rows[j].task /\ f.rows[i].number = f.rows[j].number => i = j
    <3>1. Consistent(f)
      BY <1>2, <1>3 DEF Kept, Campaign
    <3>2. QED  BY <1>3, <3>1, ConsistentIs
  <2>3. ASSUME NEW j \in DOMAIN F.records
        PROVE  /\ F.records[j].task = FirstTask[F.campaign] + j - 1
               /\ F.records[j].accounted => AllOk(F, RowsOf(F, F.records[j].task))
    <3>1. j \in DOMAIN f.records /\ j \in 1..Len(f.records)
      BY <1>8, <2>3 DEF Ledgers
    <3>2. /\ f.records[j].task = FirstTask[c] + j - 1
          /\ f.records[j].accounted => AllOk(f, RowsOf(f, f.records[j].task))
      BY <2>2, <3>1
    <3>3. f.records[j].task # R.task
      <4>1. FirstTask[c] \in Int /\ Len(f.records) \in Nat
        BY <1>9, FirstTasks
      <4>2. R.task = FirstTask[c] + Len(f.records)
        BY <1>5
      <4>3. QED  BY ONLY <3>1, <3>2, <4>1, <4>2
    <3>4. RowsOf(F, f.records[j].task) = RowsOf(f, f.records[j].task)
      BY <1>8, <1>9, <3>3 DEF RowsOf
    <3>5. QED  BY <1>8, <1>9, <3>4, <3>2 DEF AllOk, RowsOf
  <2>4. ASSUME NEW i \in DOMAIN F.rows
        PROVE  /\ F.rows[i].task \in FirstTask[c]..(FirstTask[c] + Len(F.records))
               /\ F.rows[i].state # "reserved" => sent'[RequestOf(F, i)] = 1
    <3>1. CASE i = last
      <4>1. F.rows[i].task = FirstTask[c] + Len(F.records) /\ F.rows[i].state = "reserved"
        BY <1>5, <1>8, <1>9, <3>1
      <4>2. FirstTask[c] \in Int /\ Len(F.records) \in Nat
        BY FirstTasks DEF Ledgers
      <4>3. QED  BY <4>1, <4>2
    <3>2. CASE i \in DOMAIN f.rows
      BY <1>8, <1>9, <1>11, <1>13, <2>2, <3>2
    <3>3. QED  BY <1>9, <3>1, <3>2
  <2>5. ASSUME NEW i \in DOMAIN F.rows, NEW j \in DOMAIN F.rows,
               F.rows[i].task = F.rows[j].task, F.rows[i].number = F.rows[j].number
        PROVE  i = j
    <3>1. CASE i \in DOMAIN f.rows /\ j \in DOMAIN f.rows
      BY <1>9, <2>5, <2>2, <3>1
    <3>2. CASE i = last \/ j = last
      BY <1>5, <1>8, <1>9, <1>14, <2>5, <3>2
    <3>3. QED  BY <1>9, <3>1, <3>2
  <2>6. QED  BY <1>8, <1>11, <2>1, <2>3, <2>4, <2>5 DEF Kept, Consistent
<1>16. Evidence(c)'
  BY <1>1, <1>2, <1>3, <1>10, EvidenceStays DEF CampaignInv, CampaignTypes
<1>17. \A i \in RowsOf(F, R.task) : F.rows[i].number <= R.calls
  <2>1. ASSUME NEW i \in RowsOf(F, R.task) PROVE F.rows[i].number <= R.calls
    <3>1. CASE i = last
      BY <1>5, <1>8, <1>9, <3>1
    <3>2. CASE i \in DOMAIN f.rows
      <4>1. f.rows[i] \in Bookings /\ f.rows[i].task = R.task
        BY <1>9, <2>1, <3>2 DEF RowsOf, Ledgers
      <4>2. f.rows[i].number \in Int
        BY <4>1 DEF Bookings
      <4>3. QED  BY <1>5, <1>9, <1>14, <3>2, <4>1, <4>2
    <3>3. QED  BY <1>9, <2>1, <3>1, <3>2 DEF RowsOf
  <2>2. QED  BY <2>1
<1>18. Placed(p)'
  <2>1. ledger'[R.grant] = F /\ claim'[R.campaign] = R.grant
    BY <1>3, <1>5, <1>11
  <2>2. F.rows[Len(F.rows)] = [task |-> R.task, number |-> R.calls, state |-> "reserved"]
    BY <1>6, <1>9
  <2>3. sent'[RequestOf(F, Len(F.rows))] = 0 /\ Len(F.rows) > 0 /\ R.calls > 0
    BY <1>5, <1>9, <1>11, <1>12
  <2>4. QED  BY <1>5, <1>8, <1>11, <1>16, <1>17, <2>1, <2>2, <2>3 DEF Placed, Mine, Holding, Opened
<1> QED
  <2>1. run[p].campaign = c /\ ledger[g].done = "no" /\ ledger[g] = f
    BY <1>2, <1>3
  <2>2. \A i \in DOMAIN ledger[g].rows : i \in DOMAIN F.rows /\ RequestOf(F, i) = RequestOf(ledger[g], i)
    BY <1>9, <1>13, <2>1
  <2>3. sent' \in [Request -> {0, 1}] /\ "reserved" \in {"idle"} \cup Opened /\ sent' = sent
    BY <1>11 DEF CampaignInv, CampaignTypes, Opened, Holding
  <2>4. QED  BY <1>2, <1>3, <1>5, <1>8, <1>10, <1>11, <1>15, <1>18, <2>1, <2>2, <2>3, LedgerMoves

\* What is known of a request on its way.
LEMMA BookedIs ==
    ASSUME CampaignInv, NEW p \in Process, cpc[p] \in {"reserved", "sent"},
           NEW f \in Ledgers, f = ledger[run[p].grant]
    PROVE  LET last == Len(f.rows) IN
           /\ last \in DOMAIN f.rows /\ last > 0 /\ run[p].calls > 0
           /\ f.rows[last] = [task |-> run[p].task, number |-> run[p].calls, state |-> "reserved"]
           /\ RequestOf(f, last) = <<Version(run[p].campaign), run[p].task, run[p].calls>>
           /\ RequestOf(f, last) \in Request
           /\ sent[RequestOf(f, last)] = IF cpc[p] = "sent" THEN 1 ELSE 0
<1>1. Placed(p) /\ cpc[p] \in Opened
  BY DEF CampaignInv, Opened, Holding
<1>2. /\ Len(f.rows) > 0 /\ run[p].calls > 0
      /\ f.rows[Len(f.rows)] = [task |-> run[p].task, number |-> run[p].calls, state |-> "reserved"]
      /\ sent[RequestOf(f, Len(f.rows))] = IF cpc[p] = "sent" THEN 1 ELSE 0
  BY <1>1 DEF Placed, Mine
<1>3. Len(f.rows) \in DOMAIN f.rows
  BY <1>2 DEF Ledgers
<1>4. f.campaign = run[p].campaign
  BY <1>1, OpenIs
<1>5. RequestOf(f, Len(f.rows)) = <<Version(run[p].campaign), run[p].task, run[p].calls>>
  BY <1>2, <1>4 DEF RequestOf
<1>6. RequestOf(f, Len(f.rows)) \in Request
  BY <1>3, BookingIsRequest
<1> QED  BY <1>2, <1>3, <1>5, <1>6

LEMMA DispatchKeeps == ASSUME CampaignInv, NEW p \in Process, Dispatch(p) PROVE CampaignInv'
<1>1. /\ cpc[p] = "reserved" /\ cpc[p] \in Opened /\ UNCHANGED <<claim, ledger, run>>
  BY DEF Dispatch, Opened, Holding
<1>2. PICK g \in Grant, c \in Campaign, f \in Ledgers, R \in Executions :
        g = run[p].grant /\ c = run[p].campaign /\ f = ledger[g] /\ R = run[p]
  BY <1>1, OpenIs
<1>3. /\ Placed(p) /\ Kept(g) /\ claim[c] = g /\ Evidence(c)
      /\ f.campaign = c /\ f.done = "no" /\ cpc[p] \in Holding
  BY <1>1, <1>2, OpenIs
<1> DEFINE last == Len(f.rows)
<1>4. /\ last \in DOMAIN f.rows /\ last > 0 /\ R.calls > 0
      /\ f.rows[last] = [task |-> R.task, number |-> R.calls, state |-> "reserved"]
      /\ RequestOf(f, last) = <<Version(c), R.task, R.calls>> /\ sent[RequestOf(f, last)] = 0
      /\ RequestOf(f, last) \in Request
  BY <1>1, <1>2, BookedIs
<1>5. PICK r \in Request : r = RequestOf(f, last)
  BY <1>4
<1>6. /\ sent' = [sent EXCEPT ![r] = 1] /\ cpc' = [cpc EXCEPT ![p] = "sent"]
      /\ run' = [run EXCEPT ![p] = R] /\ ledger' = [ledger EXCEPT ![g] = f]
  BY <1>1, <1>2, <1>4, <1>5 DEF Dispatch, Goto, CampaignInv, CampaignTypes
<1>7. /\ cpc'[p] = "sent" /\ run'[p] = R /\ ledger' = ledger /\ sent'[r] = 1
      /\ \A q \in Request : q # r => sent'[q] = sent[q]
      /\ sent' \in [Request -> {0, 1}]
  BY <1>1, <1>6 DEF CampaignInv, CampaignTypes
<1>8. Kept(g)'
  <2>1. ASSUME NEW i \in DOMAIN f.rows, sent[RequestOf(f, i)] = 1 PROVE sent'[RequestOf(f, i)] = 1
    BY <1>7, <2>1, BookingIsRequest
  <2>2. ledger'[g] = f /\ claim' = claim
    BY <1>1, <1>2
  <2>3. Consistent(f)
    BY <1>2, <1>3 DEF Kept, Campaign
  <2>4. Consistent(f)'
    BY <2>1, <2>3 DEF Consistent, Complete, AllOk, RowsOf, RequestOf
  <2>5. QED  BY <1>2, <1>3, <2>2, <2>4 DEF Kept, Campaign
<1>9. Evidence(c)'
  BY <1>1, <1>3, EvidenceStays
<1>10. R.task = FirstTask[c] + Len(f.records) /\ \A i \in RowsOf(f, R.task) : f.rows[i].number <= R.calls
  BY <1>1, <1>2, InATask
<1>11. Placed(p)'
  <2>1. ledger'[R.grant] = f /\ claim'[R.campaign] = R.grant /\ R.campaign = c /\ R.grant = g
    BY <1>1, <1>2, <1>3
  <2>2. sent'[RequestOf(f, Len(f.rows))] = 1
    BY <1>5, <1>7
  <2>3. QED  BY <1>3, <1>4, <1>7, <1>9, <1>10, <2>1, <2>2 DEF Placed, Mine, Holding, Opened
<1> QED
  <2>1. /\ run[p].campaign = c /\ R.campaign = c /\ R.grant = g /\ ledger[g] = f /\ claim' = claim
        /\ "sent" \in {"idle"} \cup Opened
    BY <1>1, <1>2 DEF Opened, Holding
  <2>2. \A i \in DOMAIN ledger[g].rows : i \in DOMAIN f.rows /\ RequestOf(f, i) = RequestOf(ledger[g], i)
    BY <2>1
  <2>3. \A q \in Request : (sent[q] = 1 => sent'[q] = 1) /\ (sent'[q] = 1 /\ sent[q] # 1 => q = r)
    BY <1>7
  <2>4. \A q \in Request : sent'[q] = 1 /\ sent[q] # 1 => \E i \in DOMAIN f.rows : q = RequestOf(f, i)
    BY <1>4, <1>5, <2>3
  <2>5. QED  BY <1>2, <1>3, <1>6, <1>7, <1>8, <1>11, <2>1, <2>2, <2>3, <2>4, LedgerMoves

LEMMA SettleIs ==
    ASSUME NEW f \in Ledgers, Len(f.rows) > 0, NEW s \in {"ok", "status", "nousage", "lost"}
    PROVE  \E F \in Ledgers :
           /\ F = Settle(f, s) /\ F.campaign = f.campaign /\ F.records = f.records /\ F.done = f.done
           /\ DOMAIN F.rows = DOMAIN f.rows /\ Len(F.rows) = Len(f.rows)
           /\ \A i \in DOMAIN f.rows :
                /\ RequestOf(F, i) = RequestOf(f, i) /\ F.rows[i].task = f.rows[i].task
                /\ F.rows[i].number = f.rows[i].number
                /\ i # Len(f.rows) => F.rows[i] = f.rows[i]
           /\ F.rows[Len(f.rows)].state = s
<1>1. PICK last \in Nat : last = Len(f.rows)
  BY DEF Ledgers
<1>2. /\ f.rows \in Seq(Bookings) /\ last \in 1..Len(f.rows) /\ DOMAIN f.rows = 1..Len(f.rows)
      /\ f.rows[last] \in Bookings
  BY <1>1 DEF Ledgers
<1>3. PICK b \in Bookings : b = [f.rows[last] EXCEPT !.state = s]
  BY <1>2 DEF Bookings
<1>4. b.task = f.rows[last].task /\ b.number = f.rows[last].number /\ b.state = s
  BY <1>2, <1>3 DEF Bookings
<1>5. /\ [f.rows EXCEPT ![last] = b] \in Seq(Bookings)
      /\ Len([f.rows EXCEPT ![last] = b]) = last
      /\ \A j \in 1..last : [f.rows EXCEPT ![last] = b][j] = IF j = last THEN b ELSE f.rows[j]
  BY <1>1, <1>2, ExceptSeq
<1>6. PICK l \in Seq(Bookings) : l = [f.rows EXCEPT ![last] = b]
  BY <1>5
<1>7. DOMAIN l = DOMAIN f.rows /\ Len(l) = last /\ l[last] = b /\ \A i \in DOMAIN f.rows : i # last => l[i] = f.rows[i]
  BY <1>1, <1>2, <1>5, <1>6
<1>8. PICK F \in Ledgers : F = [f EXCEPT !.rows = l]
  BY DEF Ledgers
<1>9. F.campaign = f.campaign /\ F.records = f.records /\ F.done = f.done /\ F.rows = l
  BY <1>8 DEF Ledgers
<1>10. Settle(f, s) = F
  BY <1>1, <1>3, <1>6, <1>8 DEF Settle, Ledgers
<1>11. \A i \in DOMAIN f.rows : F.rows[i].task = f.rows[i].task /\ F.rows[i].number = f.rows[i].number
  BY <1>4, <1>7, <1>9
<1>12. \A i \in DOMAIN f.rows : RequestOf(F, i) = RequestOf(f, i)
  BY <1>9, <1>11 DEF RequestOf
<1>13. DOMAIN F.rows = DOMAIN f.rows /\ Len(F.rows) = Len(f.rows) /\ F.rows[Len(f.rows)].state = s
  BY <1>1, <1>4, <1>7, <1>9
<1>14. \A i \in DOMAIN f.rows : i # Len(f.rows) => F.rows[i] = f.rows[i]
  BY <1>1, <1>7, <1>9
<1> QED  BY <1>9, <1>10, <1>11, <1>12, <1>13, <1>14

\* A request that reached the provider may be settled.
LEMMA SettledIsConsistent ==
    ASSUME CampaignInv, NEW p \in Process, cpc[p] = "sent",
           NEW f \in Ledgers, f = ledger[run[p].grant],
           NEW s \in {"ok", "status", "nousage", "lost"}, NEW F \in Ledgers, F = Settle(f, s)
    PROVE  Consistent(F)
<1>1. cpc[p] \in Opened
  BY DEF Opened, Holding
<1>2. PICK c \in Campaign : c = run[p].campaign /\ c = f.campaign
  BY <1>1, OpenIs
<1>3. Consistent(f) /\ f.done = "no"
  BY <1>1, <1>2, OpenIs DEF Kept, Campaign
<1>4. PICK last \in DOMAIN f.rows :
        /\ last = Len(f.rows) /\ last > 0 /\ f.rows[last].task = run[p].task
        /\ sent[RequestOf(f, last)] = 1
  <2>1. cpc[p] \in {"reserved", "sent"}
    OBVIOUS
  <2>2. /\ Len(f.rows) \in DOMAIN f.rows /\ Len(f.rows) > 0 /\ sent[RequestOf(f, Len(f.rows))] = 1
        /\ f.rows[Len(f.rows)] = [task |-> run[p].task, number |-> run[p].calls, state |-> "reserved"]
    BY <2>1, BookedIs
  <2>3. QED  BY <2>2
<1>5. /\ F.campaign = c /\ F.records = f.records /\ F.done = "no"
      /\ DOMAIN F.rows = DOMAIN f.rows /\ Len(F.rows) = last
      /\ \A i \in DOMAIN f.rows :
           /\ RequestOf(F, i) = RequestOf(f, i) /\ F.rows[i].task = f.rows[i].task
           /\ F.rows[i].number = f.rows[i].number
           /\ i # last => F.rows[i] = f.rows[i]
  <2>1. Len(f.rows) > 0
    BY <1>4
  <2>2. PICK G \in Ledgers :
           /\ G = Settle(f, s) /\ G.campaign = f.campaign /\ G.records = f.records /\ G.done = f.done
           /\ DOMAIN G.rows = DOMAIN f.rows /\ Len(G.rows) = Len(f.rows)
           /\ \A i \in DOMAIN f.rows :
                /\ RequestOf(G, i) = RequestOf(f, i) /\ G.rows[i].task = f.rows[i].task
                /\ G.rows[i].number = f.rows[i].number
                /\ i # Len(f.rows) => G.rows[i] = f.rows[i]
           /\ G.rows[Len(f.rows)].state = s
    BY ONLY <2>1, SettleIs, f \in Ledgers, s \in {"ok", "status", "nousage", "lost"}
  <2>3. G = F
    BY <2>2
  <2>4. F.campaign = c /\ F.records = f.records /\ F.done = "no"
    BY <1>2, <1>3, <2>2, <2>3
  <2>5. /\ DOMAIN F.rows = DOMAIN f.rows /\ Len(F.rows) = last
        /\ \A i \in DOMAIN f.rows :
             /\ RequestOf(F, i) = RequestOf(f, i) /\ F.rows[i].task = f.rows[i].task
             /\ F.rows[i].number = f.rows[i].number
             /\ i # last => F.rows[i] = f.rows[i]
    BY ONLY <1>4, <2>2, <2>3
  <2>6. QED  BY ONLY <2>4, <2>5
<1>6. /\ FirstTask[c] \in Int /\ Len(f.records) \in Nat /\ DOMAIN f.records = 1..Len(f.records)
      /\ run[p].task = FirstTask[c] + Len(f.records)
  <2>1. FirstTask[c] \in Int
    BY CampaignAssumption DEF FirstTask, Campaign
  <2>2. run[p].task = FirstTask[c] + Len(f.records)
    BY <1>2, InATask
  <2>3. QED  BY <2>1, <2>2 DEF Ledgers
<1>7. /\ Len(f.rows) <= Allowance[c]
      /\ \A j \in DOMAIN f.records : f.records[j].task = FirstTask[c] + j - 1
      /\ \A j \in DOMAIN f.records : f.records[j].accounted => AllOk(f, RowsOf(f, f.records[j].task))
      /\ \A i \in DOMAIN f.rows : f.rows[i].task \in FirstTask[c]..(FirstTask[c] + Len(f.records))
      /\ \A i \in DOMAIN f.rows : f.rows[i].state # "reserved" => sent[RequestOf(f, i)] = 1
      /\ \A i, j \in DOMAIN f.rows :
           f.rows[i].task = f.rows[j].task /\ f.rows[i].number = f.rows[j].number => i = j
  BY ONLY <1>2, <1>3, ConsistentIs
<1>8. ASSUME NEW j \in DOMAIN F.records
      PROVE  /\ F.records[j].task = FirstTask[c] + j - 1
             /\ F.records[j].accounted => AllOk(F, RowsOf(F, F.records[j].task))
  <2>1. /\ f.records[j].task = FirstTask[c] + j - 1 /\ F.records[j] = f.records[j] /\ j \in 1..Len(f.records)
        /\ f.records[j].accounted => AllOk(f, RowsOf(f, f.records[j].task))
    BY ONLY <1>5, <1>6, <1>7, <1>8
  <2>2. f.records[j].task # run[p].task
    BY ONLY <1>6, <2>1
  <2>3. RowsOf(F, f.records[j].task) = RowsOf(f, f.records[j].task)
    BY ONLY <1>5 DEF RowsOf
  <2>4. \A i \in RowsOf(f, f.records[j].task) : F.rows[i] = f.rows[i]
    BY ONLY <1>4, <1>5, <2>2 DEF RowsOf
  <2>5. QED  BY ONLY <2>1, <2>3, <2>4 DEF AllOk
<1>9. ASSUME NEW i \in DOMAIN F.rows
      PROVE  /\ F.rows[i].task \in FirstTask[c]..(FirstTask[c] + Len(F.records))
             /\ F.rows[i].state # "reserved" => sent[RequestOf(F, i)] = 1
  <2>1. i \in DOMAIN f.rows /\ RequestOf(F, i) = RequestOf(f, i) /\ F.rows[i].task = f.rows[i].task
    BY ONLY <1>5, <1>9
  <2>2. F.rows[i].state # "reserved" => sent[RequestOf(f, i)] = 1
    BY ONLY <1>4, <1>5, <1>7, <2>1
  <2>3. QED  BY ONLY <1>5, <1>7, <2>1, <2>2
<1>10. \A i, j \in DOMAIN F.rows :
         F.rows[i].task = F.rows[j].task /\ F.rows[i].number = F.rows[j].number => i = j
  BY ONLY <1>5, <1>7
<1>11. Len(F.rows) <= Allowance[c]
  BY ONLY <1>4, <1>5, <1>7
<1> QED  BY ONLY <1>5, <1>8, <1>9, <1>10, <1>11 DEF Consistent

LEMMA RecordIs ==
    ASSUME NEW f \in Ledgers, NEW e \in Entries
    PROVE  [f EXCEPT !.records = Append(f.records, e)] \in Ledgers
<1>1. f.records \in Seq(Entries)
  BY DEF Ledgers
<1>2. Append(f.records, e) \in Seq(Entries)
  BY <1>1, AppendIs
<1> QED  BY <1>2 DEF Ledgers

\* A task ends: its record goes after the others.
LEMMA RecordedIs ==
    ASSUME NEW f \in Ledgers, NEW c \in Campaign, f.campaign = c, f.done = "no", Consistent(f),
           NEW e \in Entries, e.task = FirstTask[c] + Len(f.records),
           e.accounted => AllOk(f, RowsOf(f, e.task)),
           NEW F \in Ledgers, F = [f EXCEPT !.records = Append(f.records, e)]
    PROVE  /\ F.campaign = c /\ F.done = "no"
           /\ F.rows = f.rows /\ Len(F.records) = Len(f.records) + 1 /\ F.records # <<>>
           /\ Consistent(F)
           /\ \A i \in DOMAIN F.rows : F.rows[i].task < FirstTask[c] + Len(F.records)
<1>1. f.records \in Seq(Entries)
  BY DEF Ledgers
<1>2. PICK l \in Seq(Entries) : l = Append(f.records, e)
  BY <1>1, AppendIs
<1>3. /\ DOMAIN l = DOMAIN f.records \cup {Len(l)} /\ Len(l) = Len(f.records) + 1 /\ Len(f.records) \in Nat
      /\ DOMAIN f.records = 1..Len(f.records)
      /\ l[Len(l)] = e /\ \A i \in DOMAIN f.records : l[i] = f.records[i]
      /\ l # <<>>
  BY <1>1, <1>2, AppendIs
<1>4. F = [f EXCEPT !.records = l]
  BY <1>2
<1>5. F.campaign = c /\ F.done = "no" /\ F.rows = f.rows /\ F.records = l
  BY <1>4 DEF Ledgers
<1>6. FirstTask[c] \in Int
  BY CampaignAssumption DEF FirstTask, Campaign
<1>7. /\ Len(f.rows) <= Allowance[c]
      /\ \A j \in DOMAIN f.records : f.records[j].task = FirstTask[c] + j - 1
      /\ \A j \in DOMAIN f.records : f.records[j].accounted => AllOk(f, RowsOf(f, f.records[j].task))
      /\ \A i \in DOMAIN f.rows : f.rows[i].task \in FirstTask[c]..(FirstTask[c] + Len(f.records))
      /\ \A i \in DOMAIN f.rows : f.rows[i].state # "reserved" => sent[RequestOf(f, i)] = 1
      /\ \A i, j \in DOMAIN f.rows :
           f.rows[i].task = f.rows[j].task /\ f.rows[i].number = f.rows[j].number => i = j
  BY ONLY f.campaign = c, Consistent(f), ConsistentIs
<1>8. ASSUME NEW j \in DOMAIN F.records
      PROVE  /\ F.records[j].task = FirstTask[c] + j - 1
             /\ F.records[j].accounted => AllOk(F, RowsOf(F, F.records[j].task))
  <2>1. \A t : RowsOf(F, t) = RowsOf(f, t)
    BY ONLY <1>5 DEF RowsOf
  <2>2. \A t : AllOk(F, RowsOf(F, t)) <=> AllOk(f, RowsOf(f, t))
    BY ONLY <1>5, <2>1 DEF AllOk
  <2>3. CASE j \in DOMAIN f.records
    <3>1. F.records[j] = f.records[j]
      BY ONLY <1>3, <1>5, <2>3
    <3>2. /\ f.records[j].task = FirstTask[c] + j - 1
          /\ f.records[j].accounted => AllOk(f, RowsOf(f, f.records[j].task))
      BY ONLY <1>7, <2>3
    <3>3. QED  BY ONLY <2>2, <3>1, <3>2
  <2>4. CASE j = Len(l)
    <3>1. F.records[j] = e
      BY ONLY <1>3, <1>5, <2>4
    <3>2. e.task = FirstTask[c] + j - 1
      BY <1>3, <1>6, <2>4
    <3>3. QED  BY <2>2, <3>1, <3>2
  <2>5. QED  BY <1>3, <1>5, <1>8, <2>3, <2>4
<1>9. ASSUME NEW i \in DOMAIN F.rows
      PROVE  /\ F.rows[i].task \in FirstTask[c]..(FirstTask[c] + Len(F.records))
             /\ F.rows[i].task < FirstTask[c] + Len(F.records)
  <2>1. F.rows[i].task \in FirstTask[c]..(FirstTask[c] + Len(f.records))
    BY ONLY <1>5, <1>7, <1>9
  <2>2. Len(F.records) = Len(f.records) + 1 /\ Len(f.records) \in Int
    BY ONLY <1>3, <1>5
  <2>3. QED  BY ONLY <1>6, <2>1, <2>2
<1>10. ASSUME NEW i \in DOMAIN F.rows
       PROVE  /\ F.rows[i].task \in FirstTask[c]..(FirstTask[c] + Len(F.records))
              /\ F.rows[i].state # "reserved" => sent[RequestOf(F, i)] = 1
  <2>1. RequestOf(F, i) = RequestOf(f, i)
    BY <1>5 DEF RequestOf
  <2>2. QED  BY <1>5, <1>7, <1>9, <2>1
<1>11. \A i, j \in DOMAIN F.rows :
         F.rows[i].task = F.rows[j].task /\ F.rows[i].number = F.rows[j].number => i = j
  BY <1>5, <1>7
<1>12. Consistent(F)
  BY ONLY <1>5, <1>7, <1>8, <1>10, <1>11 DEF Consistent
<1> QED  BY <1>2, <1>3, <1>4, <1>5, <1>9, <1>12

\* What a step that ends or settles a request needs of it.
LEMMA WorkIs ==
    ASSUME CampaignInv, NEW p \in Process, cpc[p] \in {"works", "sent"}
    PROVE  \E g \in Grant, c \in Campaign, f \in Ledgers, R \in Executions :
           /\ g = run[p].grant /\ c = run[p].campaign /\ f = ledger[g] /\ R = run[p]
           /\ f.campaign = c /\ f.done = "no" /\ claim[c] = g /\ Evidence(c)
           /\ Consistent(f) /\ Mine(p) = f /\ cpc[p] \in Holding
           /\ R.task = FirstTask[c] + Len(f.records)
           /\ \A i \in RowsOf(f, R.task) : f.rows[i].number <= R.calls
           /\ R.task \in 1..Tasks
<1>1. cpc[p] \in Opened /\ cpc[p] \in {"works", "reserved", "sent"}
  BY DEF Opened, Holding
<1>2. PICK g \in Grant, c \in Campaign, f \in Ledgers, R \in Executions :
        g = run[p].grant /\ c = run[p].campaign /\ f = ledger[g] /\ R = run[p]
  BY <1>1, OpenIs
<1>3. /\ f.campaign = c /\ f.done = "no" /\ claim[c] = g /\ Evidence(c)
      /\ Kept(g) /\ cpc[p] \in Holding
  BY <1>1, <1>2, OpenIs
<1>4. R.task = FirstTask[c] + Len(f.records) /\ \A i \in RowsOf(f, R.task) : f.rows[i].number <= R.calls
  BY <1>1, <1>2, InATask
<1>5. R.task \in 1..Tasks
  BY <1>4, CampaignAssumption DEF Executions, FirstTask, Campaign, Ledgers
<1>6. Consistent(f) /\ Mine(p) = f
  BY <1>2, <1>3 DEF Kept, Campaign, Mine
<1> QED  BY <1>2, <1>3, <1>4, <1>5, <1>6

\* The process of a campaign writes to its ledger.
LEMMA WriteKeeps ==
    ASSUME CampaignInv, NEW p \in Process, cpc[p] \in {"works", "sent"},
           NEW F \in Ledgers, NEW R \in Executions, NEW at \in {"works", "tasks", "ends"},
           R.campaign = run[p].campaign, R.grant = run[p].grant, UNCHANGED <<claim, sent>>,
           cpc' = [cpc EXCEPT ![p] = at], run' = [run EXCEPT ![p] = R],
           ledger' = [ledger EXCEPT ![run[p].grant] = F],
           F.campaign = run[p].campaign, F.done = "no", Consistent(F),
           \A i \in DOMAIN Mine(p).rows : i \in DOMAIN F.rows /\ RequestOf(F, i) = RequestOf(Mine(p), i),
           at = "works" => /\ R.task = FirstTask[R.campaign] + Len(F.records)
                           /\ \A i \in RowsOf(F, R.task) : F.rows[i].number <= R.calls,
           at # "works" => /\ R.task = FirstTask[R.campaign] + Len(F.records) - 1 /\ F.records # <<>>
                           /\ \A i \in DOMAIN F.rows :
                                F.rows[i].task < FirstTask[R.campaign] + Len(F.records)
    PROVE  CampaignInv'
<1>1. PICK g \in Grant, c \in Campaign, f \in Ledgers :
        /\ g = run[p].grant /\ c = run[p].campaign /\ f = ledger[g]
        /\ f.campaign = c /\ f.done = "no" /\ claim[c] = g /\ Evidence(c)
        /\ Mine(p) = f /\ cpc[p] \in Holding
  BY WorkIs
<1>2. /\ cpc'[p] = at /\ run'[p] = R /\ ledger'[g] = F /\ claim' = claim /\ sent' = sent
      /\ \A h \in Grant : h # g => ledger'[h] = ledger[h]
  BY <1>1 DEF CampaignInv, CampaignTypes
<1>3. Evidence(c)'
  <2>1. \A h \in Grant : ledger[h].done # "no" => ledger'[h] = ledger[h]
    BY <1>1, <1>2
  <2>2. \A d \in Campaign : claim[d] # NoGrant => claim'[d] = claim[d]
    BY <1>2
  <2>3. QED  BY <1>1, <2>1, <2>2, EvidenceStays
<1>4. Kept(g)'
  <2>1. Consistent(F)'
    BY <1>2 DEF Consistent, RequestOf, Complete, AllOk, RowsOf
  <2>2. F.campaign = c /\ F.campaign # "none"
    BY <1>1 DEF Campaign
  <2>3. QED  BY <1>1, <1>2, <2>1, <2>2 DEF Kept
<1>5. Placed(p)'
  <2>1. ledger'[R.grant] = F /\ claim'[R.campaign] = R.grant /\ R.campaign = c /\ R.grant = g
    BY <1>1, <1>2
  <2>2. Evidence(R.campaign)'
    BY <1>3, <2>1
  <2>3. Mine(p)' = F /\ F.campaign = R.campaign
    BY <1>1, <1>2, <2>1 DEF Mine
  <2>4. CASE at = "works"
    BY <1>2, <2>1, <2>2, <2>3, <2>4 DEF Placed, Holding, Opened
  <2>5. CASE at # "works"
    BY <1>2, <2>1, <2>2, <2>3, <2>5 DEF Placed, Holding, Opened
  <2>6. QED  BY <2>4, <2>5
<1> QED
  <2>1. /\ ledger[g].done = "no" /\ at \in {"idle"} \cup Opened
        /\ (at = "idle" \/ (R.campaign = run[p].campaign /\ R.grant = g))
    BY <1>1 DEF Opened, Holding
  <2>2. sent' \in [Request -> {0, 1}] /\ \A r \in Request : sent[r] = 1 => sent'[r] = 1
    BY <1>2 DEF CampaignInv, CampaignTypes
  <2>3. \A r \in Request : sent'[r] = 1 /\ sent[r] # 1 => \E i \in DOMAIN F.rows : r = RequestOf(F, i)
    BY <1>2
  <2>4. \A i \in DOMAIN ledger[g].rows : i \in DOMAIN F.rows /\ RequestOf(F, i) = RequestOf(ledger[g], i)
    BY <1>1
  <2>5. ledger' = [ledger EXCEPT ![g] = F]
    BY <1>1
  <2>6. QED  BY <1>1, <1>4, <1>5, <2>1, <2>2, <2>3, <2>4, <2>5, LedgerMoves

Answers == {"ok", "unusable", "uncharged", "status", "nousage", "lost"}

LEMMA AnswerKeeps ==
    ASSUME CampaignInv, NEW p \in Process, NEW kind \in Answers, Answer(p, kind)
    PROVE  CampaignInv'
<1>1. cpc[p] = "sent" /\ cpc[p] \in {"works", "sent"} /\ UNCHANGED <<claim, sent>>
  BY DEF Answer
<1>2. PICK g \in Grant, c \in Campaign, f \in Ledgers, R \in Executions :
        /\ g = run[p].grant /\ c = run[p].campaign /\ f = ledger[g] /\ R = run[p]
        /\ f.campaign = c /\ f.done = "no" /\ Mine(p) = f
        /\ R.task = FirstTask[c] + Len(f.records)
        /\ \A i \in RowsOf(f, R.task) : f.rows[i].number <= R.calls
  BY <1>1, WorkIs
<1>3. PICK s \in {"ok", "status", "nousage", "lost"} :
        s = IF kind \in {"unusable", "uncharged"} THEN "ok" ELSE kind
  BY DEF Answers
<1>4. Len(f.rows) > 0
  BY <1>1, <1>2, BookedIs
<1>5. PICK F \in Ledgers :
           /\ F = Settle(f, s) /\ F.campaign = f.campaign /\ F.records = f.records /\ F.done = f.done
           /\ DOMAIN F.rows = DOMAIN f.rows /\ Len(F.rows) = Len(f.rows)
           /\ \A i \in DOMAIN f.rows :
                /\ RequestOf(F, i) = RequestOf(f, i) /\ F.rows[i].task = f.rows[i].task
                /\ F.rows[i].number = f.rows[i].number
                /\ i # Len(f.rows) => F.rows[i] = f.rows[i]
           /\ F.rows[Len(f.rows)].state = s
  BY ONLY <1>4, SettleIs, f \in Ledgers, s \in {"ok", "status", "nousage", "lost"}
<1>6. Consistent(F)
  BY <1>1, <1>2, <1>5, SettledIsConsistent
<1>7. PICK Q \in Executions : Q = [run[p] EXCEPT !.failed = kind # "ok", !.charged = kind # "uncharged"]
  BY <1>2 DEF Executions
<1>8. Q.campaign = c /\ Q.grant = g /\ Q.task = R.task /\ Q.calls = R.calls
  BY <1>2, <1>7 DEF Executions
<1>9. /\ cpc' = [cpc EXCEPT ![p] = "works"] /\ run' = [run EXCEPT ![p] = Q]
      /\ ledger' = [ledger EXCEPT ![run[p].grant] = F]
  BY <1>2, <1>3, <1>5, <1>7 DEF Answer, WriteLedger, Goto
<1>10. \A i \in RowsOf(F, Q.task) : F.rows[i].number <= Q.calls
  BY <1>2, <1>5, <1>8 DEF RowsOf
<1>11. \A i \in DOMAIN Mine(p).rows : i \in DOMAIN F.rows /\ RequestOf(F, i) = RequestOf(Mine(p), i)
  BY <1>2, <1>5
<1> QED
  <2>1. Q.campaign = run[p].campaign /\ Q.grant = run[p].grant /\ F.campaign = run[p].campaign /\ F.done = "no"
    BY <1>2, <1>5, <1>8
  <2>2. Q.task = FirstTask[Q.campaign] + Len(F.records) /\ "works" \in {"works", "tasks", "ends"}
    BY <1>2, <1>5, <1>8
  <2>3. QED  BY <1>1, <1>6, <1>9, <1>10, <1>11, <2>1, <2>2, WriteKeeps

LEMMA EndTaskKeeps ==
    ASSUME CampaignInv, NEW p \in Process, NEW status \in Reported, NEW clean \in BOOLEAN,
           EndTask(p, status, clean)
    PROVE  CampaignInv'
<1>1. cpc[p] = "works" /\ cpc[p] \in {"works", "sent"} /\ UNCHANGED <<claim, run, sent>>
  BY DEF EndTask
<1>2. PICK g \in Grant, c \in Campaign, f \in Ledgers, R \in Executions :
        /\ g = run[p].grant /\ c = run[p].campaign /\ f = ledger[g] /\ R = run[p]
        /\ f.campaign = c /\ f.done = "no" /\ Mine(p) = f /\ Consistent(f)
        /\ R.task = FirstTask[c] + Len(f.records) /\ R.task \in 1..Tasks
  BY <1>1, WorkIs
<1>3. PICK e \in Entries, at \in {"tasks", "ends"} :
        /\ e.task = R.task /\ (e.accounted => AllOk(f, RowsOf(f, R.task)))
        /\ ledger' = [ledger EXCEPT ![g] = [f EXCEPT !.records = Append(f.records, e)]]
        /\ cpc' = [cpc EXCEPT ![p] = at]
  <2> DEFINE ok == Accounted(f, R)
             final == IF R.campaign # "v1" /\ R.failed /\ R.calls > 0 /\ ok THEN "measured" ELSE Status(p, status)
             e == [task |-> R.task, status |-> final, accounted |-> ok]
             at == IF final = "measured" /\ ok /\ clean THEN "tasks" ELSE "ends"
  <2>1. ok \in BOOLEAN /\ (ok => AllOk(f, RowsOf(f, R.task)))
    BY <1>2 DEF Accounted, AllOk, Executions
  <2>2. final \in Reported \cup {"provider_error"}
    BY DEF Status, Reported
  <2>3. e \in Entries /\ e.task = R.task /\ (e.accounted => AllOk(f, RowsOf(f, R.task)))
    BY <1>2, <2>1, <2>2 DEF Entries
  <2>4. /\ ledger' = [ledger EXCEPT ![g] = [f EXCEPT !.records = Append(f.records, e)]]
        /\ cpc' = [cpc EXCEPT ![p] = at]
    BY <1>2 DEF EndTask, WriteLedger, Goto
  <2>5. at \in {"tasks", "ends"}
    OBVIOUS
  <2> HIDE DEF e, at
  <2>6. QED  BY <2>3, <2>4, <2>5
<1>4. PICK F \in Ledgers : F = [f EXCEPT !.records = Append(f.records, e)]
  BY RecordIs
<1>5. /\ F.campaign = c /\ F.done = "no"
           /\ F.rows = f.rows /\ Len(F.records) = Len(f.records) + 1 /\ F.records # <<>>
           /\ Consistent(F)
           /\ \A i \in DOMAIN F.rows : F.rows[i].task < FirstTask[c] + Len(F.records)
  <2>1. e.task = FirstTask[c] + Len(f.records) /\ (e.accounted => AllOk(f, RowsOf(f, e.task)))
    BY <1>2, <1>3
  <2>2. f.campaign = c /\ f.done = "no" /\ Consistent(f)
    BY <1>2
  <2>3. QED  BY <1>4, <2>1, <2>2, RecordedIs
<1>6. /\ cpc' = [cpc EXCEPT ![p] = at] /\ run' = [run EXCEPT ![p] = R]
      /\ ledger' = [ledger EXCEPT ![run[p].grant] = F]
  BY <1>1, <1>2, <1>3, <1>4, <1>5 DEF CampaignInv, CampaignTypes
<1>7. \A i \in DOMAIN Mine(p).rows : i \in DOMAIN F.rows /\ RequestOf(F, i) = RequestOf(Mine(p), i)
  BY <1>2, <1>4, <1>5 DEF RequestOf
<1> QED
  <2>1. R.campaign = run[p].campaign /\ R.grant = run[p].grant /\ F.campaign = run[p].campaign /\ F.done = "no"
    BY <1>2, <1>4, <1>5
  <2>2. R.task = FirstTask[R.campaign] + Len(F.records) - 1 /\ at # "works" /\ at \in {"works", "tasks", "ends"}
    <3>1. FirstTask[c] \in Int /\ Len(f.records) \in Int
      BY CampaignAssumption DEF FirstTask, Campaign, Ledgers
    <3>2. R.task = FirstTask[c] + Len(f.records) /\ Len(F.records) = Len(f.records) + 1
      BY ONLY <1>2, <1>5
    <3>3. R.task = FirstTask[c] + Len(F.records) - 1
      BY ONLY <3>1, <3>2
    <3>4. QED  BY <1>2, <3>3
  <2>3. \A i \in DOMAIN F.rows : F.rows[i].task < FirstTask[R.campaign] + Len(F.records)
    BY <1>2, <1>4, <1>5
  <2>4. QED  BY <1>1, <1>4, <1>5, <1>6, <1>7, <2>1, <2>2, <2>3, WriteKeeps

\* The request that was under way is settled as lost with the record.
LEMMA CutShortKeeps == ASSUME CampaignInv, NEW p \in Process, CutShort(p) PROVE CampaignInv'
<1>1. cpc[p] = "sent" /\ cpc[p] \in {"works", "sent"} /\ UNCHANGED <<claim, run, sent>>
  BY DEF CutShort
<1>2. PICK g \in Grant, c \in Campaign, f \in Ledgers, R \in Executions :
        /\ g = run[p].grant /\ c = run[p].campaign /\ f = ledger[g] /\ R = run[p]
        /\ f.campaign = c /\ f.done = "no" /\ Mine(p) = f
        /\ R.task = FirstTask[c] + Len(f.records) /\ R.task \in 1..Tasks
  BY <1>1, WorkIs
<1>3. Len(f.rows) > 0
  BY <1>1, <1>2, BookedIs
<1>4. PICK G \in Ledgers :
           /\ G = Settle(f, "lost") /\ G.campaign = f.campaign /\ G.records = f.records /\ G.done = f.done
           /\ DOMAIN G.rows = DOMAIN f.rows /\ Len(G.rows) = Len(f.rows)
           /\ \A i \in DOMAIN f.rows :
                /\ RequestOf(G, i) = RequestOf(f, i) /\ G.rows[i].task = f.rows[i].task
                /\ G.rows[i].number = f.rows[i].number
                /\ i # Len(f.rows) => G.rows[i] = f.rows[i]
           /\ G.rows[Len(f.rows)].state = "lost"
  <2>1. "lost" \in {"ok", "status", "nousage", "lost"}
    OBVIOUS
  <2>2. QED  BY ONLY <1>3, SettleIs, f \in Ledgers, <2>1
<1>5. Consistent(G)
  BY <1>1, <1>2, <1>4, SettledIsConsistent
<1>6. PICK e \in Entries : e = [task |-> R.task, status |-> "error", accounted |-> FALSE]
  BY <1>2 DEF Entries, Reported
<1>7. PICK F \in Ledgers : F = [G EXCEPT !.records = Append(G.records, e)]
  BY RecordIs
<1>8. /\ F.campaign = c /\ F.done = "no"
           /\ F.rows = G.rows /\ Len(F.records) = Len(G.records) + 1 /\ F.records # <<>>
           /\ Consistent(F)
           /\ \A i \in DOMAIN F.rows : F.rows[i].task < FirstTask[c] + Len(F.records)
  <2>1. /\ e.task = FirstTask[c] + Len(G.records) /\ (e.accounted => AllOk(G, RowsOf(G, e.task)))
        /\ G.campaign = c /\ G.done = "no"
    BY <1>2, <1>4, <1>6
  <2>2. QED  BY <1>5, <1>7, <2>1, RecordedIs
<1>9. /\ cpc' = [cpc EXCEPT ![p] = "ends"] /\ run' = [run EXCEPT ![p] = R]
      /\ ledger' = [ledger EXCEPT ![run[p].grant] = F]
  BY <1>1, <1>2, <1>4, <1>6, <1>7, <1>8 DEF CutShort, WriteLedger, Goto, CampaignInv, CampaignTypes
<1>10. \A i \in DOMAIN Mine(p).rows : i \in DOMAIN F.rows /\ RequestOf(F, i) = RequestOf(Mine(p), i)
  <2>1. \A i \in DOMAIN f.rows : RequestOf(F, i) = RequestOf(G, i)
    BY <1>2, <1>4, <1>7, <1>8 DEF RequestOf
  <2>2. QED  BY <1>2, <1>4, <1>7, <1>8, <2>1
<1> QED
  <2>1. R.campaign = run[p].campaign /\ R.grant = run[p].grant /\ F.campaign = run[p].campaign /\ F.done = "no"
    BY <1>2, <1>7, <1>8
  <2>2. R.task = FirstTask[R.campaign] + Len(F.records) - 1
    <3>1. FirstTask[c] \in Int /\ Len(f.records) \in Int
      BY CampaignAssumption DEF FirstTask, Campaign, Ledgers
    <3>2. Len(F.records) = Len(f.records) + 1
      BY ONLY <1>4, <1>7, <1>8
    <3>3. R.task = FirstTask[c] + Len(F.records) - 1
      BY ONLY <1>2, <3>1, <3>2
    <3>4. QED  BY <1>2, <3>3
  <2>3. \A i \in DOMAIN F.rows : F.rows[i].task < FirstTask[R.campaign] + Len(F.records)
    BY <1>2, <1>7, <1>8
  <2>4. "ends" # "works" /\ "ends" \in {"works", "tasks", "ends"}
    OBVIOUS
  <2>5. QED  BY <1>1, <1>7, <1>8, <1>9, <1>10, <2>1, <2>2, <2>3, <2>4, WriteKeeps

LEMMA FinishKeeps == ASSUME CampaignInv, NEW p \in Process, NEW valid \in BOOLEAN, Finish(p, valid) PROVE CampaignInv'
<1>1. cpc[p] \in {"tasks", "ends"} /\ cpc[p] \in Opened /\ LeaveRun(p) /\ UNCHANGED <<claim, sent>>
  BY DEF Finish, Opened, Holding
<1>2. PICK g \in Grant, c \in Campaign, f \in Ledgers :
        g = run[p].grant /\ c = run[p].campaign /\ f = ledger[g]
  BY <1>1, OpenIs
<1>3. /\ f.campaign = c /\ f.done = "no" /\ claim[c] = g /\ Kept(g) /\ cpc[p] \in Holding /\ Mine(p) = f
  BY <1>1, <1>2, OpenIs DEF Mine
<1>4. PICK d \in {"partial", "complete"} : d = IF Complete(f) /\ valid THEN "complete" ELSE "partial"
  OBVIOUS
<1>5. PICK F \in Ledgers : F = [f EXCEPT !.done = d]
  BY DEF Ledgers
<1>6. F.campaign = c /\ F.rows = f.rows /\ F.records = f.records /\ F.done = d /\ d # "no"
  BY <1>3, <1>4, <1>5 DEF Ledgers
<1>7. /\ cpc' = [cpc EXCEPT ![p] = "idle"] /\ run' = [run EXCEPT ![p] = NoRun]
      /\ ledger' = [ledger EXCEPT ![g] = F]
  BY <1>1, <1>2, <1>3, <1>4, <1>5 DEF Finish, LeaveRun, Goto, WriteLedger
<1>8. cpc'[p] = "idle" /\ ledger'[g] = F /\ sent' = sent /\ claim' = claim
  BY <1>1, <1>2, <1>7 DEF CampaignInv, CampaignTypes
<1>9. /\ \A i \in DOMAIN f.rows : RequestOf(F, i) = RequestOf(f, i)
      /\ \A t : RowsOf(F, t) = RowsOf(f, t)
      /\ \A places : AllOk(F, places) <=> AllOk(f, places)
  BY <1>3, <1>6 DEF RequestOf, RowsOf, AllOk
<1>10. d = "complete" => Complete(F)
  <2>1. Complete(f) => Complete(F)
    BY ONLY <1>3, <1>6, <1>9 DEF Complete
  <2>2. QED  BY <1>4, <2>1
<1>11. \A i \in DOMAIN f.rows : f.rows[i].task < FirstTask[c] + Len(f.records)
  BY <1>1, <1>2, BetweenTasks
<1>12. Consistent(F)
  <2>1. /\ Len(f.rows) <= Allowance[c]
        /\ \A j \in DOMAIN f.records : f.records[j].task = FirstTask[c] + j - 1
        /\ \A j \in DOMAIN f.records : f.records[j].accounted => AllOk(f, RowsOf(f, f.records[j].task))
        /\ \A i \in DOMAIN f.rows : f.rows[i].task \in FirstTask[c]..(FirstTask[c] + Len(f.records))
        /\ \A i \in DOMAIN f.rows : f.rows[i].state # "reserved" => sent[RequestOf(f, i)] = 1
        /\ \A i, j \in DOMAIN f.rows :
             f.rows[i].task = f.rows[j].task /\ f.rows[i].number = f.rows[j].number => i = j
    <3>1. Consistent(f)
      BY <1>2, <1>3 DEF Kept, Campaign
    <3>2. QED  BY ONLY <1>3, <3>1, ConsistentIs
  <2>2. /\ \A j \in DOMAIN F.records : F.records[j].task = FirstTask[c] + j - 1
        /\ \A j \in DOMAIN F.records : F.records[j].accounted => AllOk(F, RowsOf(F, F.records[j].task))
    BY ONLY <1>6, <1>9, <2>1
  <2>3. /\ \A i \in DOMAIN F.rows : F.rows[i].task \in FirstTask[c]..(FirstTask[c] + Len(F.records))
        /\ \A i \in DOMAIN F.rows : F.rows[i].state # "reserved" => sent[RequestOf(F, i)] = 1
        /\ \A i \in DOMAIN F.rows : F.rows[i].task < FirstTask[c] + Len(F.records)
    BY ONLY <1>6, <1>9, <1>11, <2>1
  <2>4. QED  BY ONLY <1>6, <1>10, <2>1, <2>2, <2>3 DEF Consistent
<1>13. Kept(g)'
  <2>1. Consistent(F)'
    BY <1>8, <1>12 DEF Consistent, RequestOf, Complete, AllOk, RowsOf
  <2>2. QED  BY <1>3, <1>6, <1>8, <2>1 DEF Kept, Campaign
<1>14. Placed(p)'
  BY <1>8 DEF Placed, Holding, Opened
<1> QED
  <2>1. ledger[g].done = "no" /\ "idle" \in {"idle"} \cup Opened /\ F.campaign = run[p].campaign
    BY <1>2, <1>3, <1>6
  <2>2. sent' \in [Request -> {0, 1}] /\ \A r \in Request : sent[r] = 1 => sent'[r] = 1
    BY <1>8 DEF CampaignInv, CampaignTypes
  <2>3. \A r \in Request : sent'[r] = 1 /\ sent[r] # 1 => \E i \in DOMAIN F.rows : r = RequestOf(F, i)
    BY <1>8
  <2>4. \A i \in DOMAIN ledger[g].rows : i \in DOMAIN F.rows /\ RequestOf(F, i) = RequestOf(ledger[g], i)
    BY <1>2, <1>6, <1>9
  <2>5. NoRun \in Executions
    BY NoRunIs
  <2>6. QED  BY <1>2, <1>3, <1>7, <1>8, <1>13, <1>14, <2>1, <2>2, <2>3, <2>4, <2>5, LedgerMoves

LEMMA CampaignMoves == CampaignInv /\ [CampaignNext]_campaignVars => CampaignInv'
<1> SUFFICES ASSUME CampaignInv, [CampaignNext]_campaignVars PROVE CampaignInv'
  OBVIOUS
<1>1. CASE UNCHANGED campaignVars
  <2>1. UNCHANGED <<claim, ledger, cpc, run, sent>>
    BY <1>1 DEF campaignVars
  <2>2. CampaignTypes' /\ Single' /\ OnLedger'
    BY <2>1 DEF CampaignInv, CampaignTypes, Single, OnLedger, RequestOf
  <2>3. \A c \in Campaign : Evidence(c)' <=> Evidence(c)
    BY <2>1 DEF Evidence, PriorPilot, StoppedV2, AllOk
  <2>4. ASSUME NEW g \in Grant PROVE Kept(g)'
    <3>1. PICK f \in Ledgers : f = ledger[g] /\ f = ledger'[g] /\ claim' = claim /\ sent' = sent
      BY <2>1 DEF CampaignInv, CampaignTypes
    <3>2. Consistent(f) => Consistent(f)'
      BY <3>1 DEF Consistent, Complete, RequestOf, AllOk, RowsOf
    <3>3. IF f.campaign = "none" THEN f = NoFile ELSE claim[f.campaign] = g /\ Consistent(f)
      BY <3>1 DEF CampaignInv, Kept
    <3>4. IF f.campaign = "none" THEN f = NoFile ELSE claim'[f.campaign] = g /\ Consistent(f)'
      BY ONLY <3>1, <3>2, <3>3
    <3>5. QED  BY ONLY <3>1, <3>4 DEF Kept
  <2>5. ASSUME NEW p \in Process PROVE Placed(p)'
    <3>1. Placed(p) /\ Mine(p)' = Mine(p)
      BY <2>1 DEF CampaignInv, Mine
    <3>2. /\ \A t : RowsOf(Mine(p), t)' = RowsOf(Mine(p), t)
          /\ \A i : RequestOf(Mine(p), i)' = RequestOf(Mine(p), i)
      BY <2>1, <3>1 DEF RowsOf, RequestOf
    <3>3. cpc'[p] # "idle" =>
            run'[p].campaign \in Campaign /\ run'[p].grant \in Grant /\ Evidence(run[p].campaign)'
      BY <2>1, <2>3, <3>1 DEF Placed
    <3>4. QED  BY <2>1, <3>1, <3>2, <3>3 DEF Placed, Evidence
  <2>6. QED  BY <2>1, <2>2, <2>3, <2>4, <2>5 DEF CampaignInv
<1>2. CASE CampaignNext
  <2>1. PICK p \in Process :
          \/ \E c \in Campaign, g \in Grant : Check(p, c, g)
          \/ TakeClaim(p) \/ ClaimTaken(p) \/ OpenLedger(p)
          \/ BeginTask(p) \/ ReserveRequest(p) \/ Dispatch(p)
          \/ \E kind \in Answers : Answer(p, kind)
          \/ \E status \in Reported, clean \in BOOLEAN : EndTask(p, status, clean)
          \/ CutShort(p)
          \/ \E valid \in BOOLEAN : Finish(p, valid)
          \/ Crash(p)
    BY <1>2 DEF CampaignNext, Answers
  <2>2. CASE ClaimTaken(p) \/ Crash(p)
    BY <2>2, LeaveKeeps DEF ClaimTaken, Crash
  <2>3. QED
    BY <2>1, <2>2, CheckKeeps, TakeClaimKeeps, OpenLedgerKeeps, BeginTaskKeeps, ReserveRequestKeeps,
       DispatchKeeps, AnswerKeeps, EndTaskKeeps, CutShortKeeps, FinishKeeps
<1> QED  BY <1>1, <1>2

\* The requests of a campaign, as its ledger has them.
RequestsOf(c) ==
    {r \in Request :
        /\ claim[c] \in Grant /\ ledger[claim[c]].campaign = c
        /\ \E i \in DOMAIN ledger[claim[c]].rows : r = RequestOf(ledger[claim[c]], i)}

LEMMA RequestsAreRows ==
    ASSUME CampaignInv, NEW c \in Campaign, NEW n \in Nat,
           claim[c] \in Grant /\ ledger[claim[c]].campaign = c => Len(ledger[claim[c]].rows) <= n
    PROVE  IsFiniteSet(RequestsOf(c)) /\ Cardinality(RequestsOf(c)) \in Nat /\ Cardinality(RequestsOf(c)) <= n
<1>1. CASE claim[c] \in Grant /\ ledger[claim[c]].campaign = c
  <2>1. PICK f \in Ledgers : f = ledger[claim[c]]
    BY <1>1 DEF CampaignInv, CampaignTypes
  <2>2. PICK m \in Nat : m = Len(f.rows) /\ DOMAIN f.rows = 1..m /\ m <= n
    BY <1>1, <2>1 DEF Ledgers
  <2> DEFINE M == [i \in 1..m |-> RequestOf(f, i)]
  <2>3. RequestsOf(c) = {r \in Request : \E i \in 1..m : r = RequestOf(f, i)}
    BY <1>1, <2>1, <2>2 DEF RequestsOf
  <2>4. \A i \in 1..m : RequestOf(f, i) \in RequestsOf(c)
    BY <2>2, <2>3, BookingIsRequest
  <2>5. M \in Surjection(1..m, RequestsOf(c))
    <3>1. M \in [1..m -> RequestsOf(c)] /\ \A i \in 1..m : M[i] = RequestOf(f, i)
      BY <2>4
    <3>2. \A r \in RequestsOf(c) : \E i \in 1..m : M[i] = r
      BY <2>3, <3>1
    <3> HIDE DEF M
    <3>3. QED  BY ONLY <3>1, <3>2 DEF Surjection
  <2>6. IsFiniteSet(1..m) /\ Cardinality(1..m) = m
    BY FS_Interval
  <2> HIDE DEF M
  <2>7. IsFiniteSet(RequestsOf(c)) /\ Cardinality(RequestsOf(c)) <= m
    BY <2>5, <2>6, FS_Surjection
  <2>8. Cardinality(RequestsOf(c)) \in Nat
    BY <2>7, FS_CardinalityType
  <2>9. QED  BY <2>2, <2>7, <2>8
<1>2. CASE ~(claim[c] \in Grant /\ ledger[claim[c]].campaign = c)
  <2>1. RequestsOf(c) = {}
    BY <1>2 DEF RequestsOf
  <2>2. QED  BY <2>1, FS_EmptySet
<1> QED  BY <1>1, <1>2

\* The campaigns share the allowance that was approved for the first.
LEMMA AllowanceIsShared ==
    ASSUME CampaignInv
    PROVE  \E a, b, d \in Nat :
           /\ a + b + d <= Total
           /\ claim["v1"] \in Grant /\ ledger[claim["v1"]].campaign = "v1" => Len(ledger[claim["v1"]].rows) <= a
           /\ claim["v2"] \in Grant /\ ledger[claim["v2"]].campaign = "v2" => Len(ledger[claim["v2"]].rows) <= b
           /\ claim["tail"] \in Grant /\ ledger[claim["tail"]].campaign = "tail" =>
                Len(ledger[claim["tail"]].rows) <= d
<1>1. ASSUME NEW c \in Campaign, claim[c] \in Grant, ledger[claim[c]].campaign = c
      PROVE  Len(ledger[claim[c]].rows) <= Allowance[c]
  <2>1. Kept(claim[c]) /\ c # "none"
    BY <1>1 DEF CampaignInv, Campaign
  <2>2. QED  BY <1>1, <2>1 DEF Kept, Consistent
<1>2. /\ Total \in Nat /\ Prior \in Nat /\ Stopped \in Nat /\ Prior <= Total /\ Prior + Stopped + Allowance["tail"] <= Total
      /\ Allowance["v1"] = Total /\ Allowance["v2"] = Total - Prior /\ Allowance["tail"] \in Nat
      /\ NoGrant \notin Grant /\ Total - Prior \in Nat
  BY CampaignAssumption, AllowanceIsNat DEF Allowance, Campaign
<1>3. /\ claim["v2"] \in Grant => Len(ledger[claim["v1"]].rows) = Prior
      /\ claim["tail"] \in Grant =>
           Len(ledger[claim["v1"]].rows) = Prior /\ Len(ledger[claim["v2"]].rows) = Stopped
  BY <1>2 DEF CampaignInv, Campaign, Evidence, PriorPilot, StoppedV2
<1>4. CASE claim["tail"] \in Grant
  <2>1. claim["tail"] \in Grant /\ ledger[claim["tail"]].campaign = "tail" =>
          Len(ledger[claim["tail"]].rows) <= Allowance["tail"]
    BY <1>1 DEF Campaign
  <2>2. Len(ledger[claim["v1"]].rows) <= Prior /\ Len(ledger[claim["v2"]].rows) <= Stopped
    BY <1>2, <1>3, <1>4
  <2>3. QED  BY <1>2, <2>1, <2>2
<1>5. CASE claim["tail"] \notin Grant /\ claim["v2"] \in Grant
  <2>1. claim["v2"] \in Grant /\ ledger[claim["v2"]].campaign = "v2" =>
          Len(ledger[claim["v2"]].rows) <= Total - Prior
    BY <1>1, <1>2 DEF Campaign
  <2>2. Len(ledger[claim["v1"]].rows) <= Prior
    BY <1>2, <1>3, <1>5
  <2>3. Prior + (Total - Prior) + 0 <= Total
    BY <1>2
  <2>4. QED  BY <1>2, <1>5, <2>1, <2>2, <2>3
<1>6. CASE claim["tail"] \notin Grant /\ claim["v2"] \notin Grant
  <2>1. claim["v1"] \in Grant /\ ledger[claim["v1"]].campaign = "v1" => Len(ledger[claim["v1"]].rows) <= Total
    BY <1>1, <1>2 DEF Campaign
  <2>2. Total + 0 + 0 <= Total
    BY <1>2
  <2>3. QED  BY <1>2, <1>6, <2>1, <2>2
<1> QED  BY <1>4, <1>5, <1>6

LEMMA SentStaysWithin ==
    ASSUME CampaignInv PROVE Cardinality({r \in Request : sent[r] > 0}) <= Total
<1> DEFINE S == {r \in Request : sent[r] > 0}
<1>1. S \subseteq RequestsOf("v1") \cup RequestsOf("v2") \cup RequestsOf("tail")
  <2>1. ASSUME NEW r \in S PROVE \E c \in Campaign : r \in RequestsOf(c)
    <3>1. r \in Request /\ sent[r] = 1
      BY DEF CampaignInv, CampaignTypes
    <3>2. PICK g \in Grant : \E i \in DOMAIN ledger[g].rows : r = RequestOf(ledger[g], i)
      BY <3>1 DEF CampaignInv, OnLedger
    <3>3. Kept(g) /\ ledger[g] \in Ledgers /\ NoFile.rows = <<>>
      BY DEF CampaignInv, CampaignTypes, NoFile
    <3>4. ledger[g].campaign \in Campaign /\ claim[ledger[g].campaign] = g
      BY <3>2, <3>3 DEF Kept, Ledgers
    <3>5. r \in RequestsOf(ledger[g].campaign)
      BY <3>1, <3>2, <3>4 DEF RequestsOf
    <3>6. QED  BY <3>4, <3>5
  <2>2. QED  BY <2>1 DEF Campaign
<1>2. PICK a \in Nat, b \in Nat, d \in Nat :
           /\ a + b + d <= Total
           /\ claim["v1"] \in Grant /\ ledger[claim["v1"]].campaign = "v1" => Len(ledger[claim["v1"]].rows) <= a
           /\ claim["v2"] \in Grant /\ ledger[claim["v2"]].campaign = "v2" => Len(ledger[claim["v2"]].rows) <= b
           /\ claim["tail"] \in Grant /\ ledger[claim["tail"]].campaign = "tail" =>
                Len(ledger[claim["tail"]].rows) <= d
  BY AllowanceIsShared
<1>3. {"v1", "v2", "tail"} \subseteq Campaign
  BY DEF Campaign
<1>4. IsFiniteSet(RequestsOf("v1")) /\ Cardinality(RequestsOf("v1")) \in Nat /\ Cardinality(RequestsOf("v1")) <= a
  BY <1>2, <1>3, RequestsAreRows
<1>5. IsFiniteSet(RequestsOf("v2")) /\ Cardinality(RequestsOf("v2")) \in Nat /\ Cardinality(RequestsOf("v2")) <= b
  BY <1>2, <1>3, RequestsAreRows
<1>6. IsFiniteSet(RequestsOf("tail")) /\ Cardinality(RequestsOf("tail")) \in Nat /\ Cardinality(RequestsOf("tail")) <= d
  BY <1>2, <1>3, RequestsAreRows
<1>7. PICK X : X = RequestsOf("v1") \cup RequestsOf("v2")
  OBVIOUS
<1>8. IsFiniteSet(X) /\ Cardinality(X) \in Nat /\ Cardinality(X) <= a + b
  <2>1. Cardinality(RequestsOf("v1") \cap RequestsOf("v2")) \in Nat
    BY <1>4, FS_Subset, FS_CardinalityType, RequestsOf("v1") \cap RequestsOf("v2") \in SUBSET RequestsOf("v1")
  <2>2. /\ IsFiniteSet(X)
        /\ Cardinality(X) = Cardinality(RequestsOf("v1")) + Cardinality(RequestsOf("v2"))
                              - Cardinality(RequestsOf("v1") \cap RequestsOf("v2"))
    BY <1>4, <1>5, <1>7, FS_Union
  <2>3. Cardinality(X) \in Nat
    BY <2>2, FS_CardinalityType
  <2>4. QED  BY <1>4, <1>5, <2>1, <2>2, <2>3
<1>9. PICK Y : Y = X \cup RequestsOf("tail")
  OBVIOUS
<1>10. IsFiniteSet(Y) /\ Cardinality(Y) \in Nat /\ Cardinality(Y) <= a + b + d
  <2>1. Cardinality(X \cap RequestsOf("tail")) \in Nat
    BY <1>8, FS_Subset, FS_CardinalityType, X \cap RequestsOf("tail") \in SUBSET X
  <2>2. /\ IsFiniteSet(Y)
        /\ Cardinality(Y) = Cardinality(X) + Cardinality(RequestsOf("tail"))
                              - Cardinality(X \cap RequestsOf("tail"))
    BY <1>6, <1>8, <1>9, FS_Union
  <2>3. Cardinality(Y) \in Nat
    BY <2>2, FS_CardinalityType
  <2>4. QED  BY <1>6, <1>8, <2>1, <2>2, <2>3
<1>11. S \in SUBSET Y
  BY <1>1, <1>7, <1>9
<1> HIDE DEF S
<1>12. Cardinality(S) <= Cardinality(Y) /\ IsFiniteSet(S)
  BY <1>10, <1>11, FS_Subset
<1>13. Cardinality(S) \in Nat /\ Total \in Nat
  BY <1>12, FS_CardinalityType, CampaignAssumption
<1>14. Cardinality(S) <= Total
  BY <1>2, <1>10, <1>12, <1>13
<1> QED  BY <1>14 DEF S

\* A campaign that is complete knows its requests.
LEMMA CompleteIsAnswered ==
    ASSUME CampaignInv, NEW g \in Grant, ledger[g].done = "complete",
           NEW t \in Planned(ledger[g].campaign), NEW f \in Ledgers, f = ledger[g]
    PROVE  /\ AllOk(f, RowsOf(f, t))
           /\ SentFor(Version(f.campaign), t) = {f.rows[i].number : i \in RowsOf(f, t)}
           /\ Cardinality(RowsOf(f, t)) = Cardinality(SentFor(Version(f.campaign), t))
<1>1. PICK c \in Campaign : c = f.campaign /\ Consistent(f) /\ Complete(f)
  <2>1. Kept(g) /\ NoFile.done = "no"
    BY DEF CampaignInv, NoFile
  <2>2. f.campaign # "none"
    BY <2>1 DEF Kept
  <2>3. f.campaign \in Campaign
    BY <2>2 DEF Ledgers
  <2>4. Consistent(f) /\ Complete(f)
    BY <2>1, <2>2 DEF Kept, Consistent
  <2>5. QED  BY <2>3, <2>4
<1>2. t \in FirstTask[c]..Tasks /\ t \in 1..Tasks /\ FirstTask[c] \in 1..Tasks /\ Tasks \in Nat
  BY <1>1, CampaignAssumption DEF Planned, FirstTask, Campaign
<1>3. /\ \A j \in DOMAIN f.records : f.records[j].accounted => AllOk(f, RowsOf(f, f.records[j].task))
      /\ \A i \in DOMAIN f.rows : f.rows[i].state # "reserved" => sent[RequestOf(f, i)] = 1
      /\ \A i, j \in DOMAIN f.rows :
           f.rows[i].task = f.rows[j].task /\ f.rows[i].number = f.rows[j].number => i = j
  BY ONLY <1>1, ConsistentIs
<1>4. /\ DOMAIN f.records = 1..(Tasks + 1 - FirstTask[c])
      /\ \A i \in DOMAIN f.records : f.records[i].task = FirstTask[c] + i - 1
      /\ \A i \in DOMAIN f.records : f.records[i].accounted
  BY ONLY <1>1 DEF Complete
<1>5. AllOk(f, RowsOf(f, t))
  <2>1. PICK j \in DOMAIN f.records : j = t + 1 - FirstTask[c]
    <3>1. t + 1 - FirstTask[c] \in 1..(Tasks + 1 - FirstTask[c])
      BY ONLY <1>2
    <3>2. QED  BY ONLY <1>4, <3>1
  <2>2. f.records[j].task = t
    <3>1. f.records[j].task = FirstTask[c] + (t + 1 - FirstTask[c]) - 1
      BY ONLY <1>4, <2>1
    <3>2. QED  BY ONLY <1>2, <3>1
  <2>3. QED  BY <1>3, <1>4, <2>2
<1>6. ASSUME NEW i \in RowsOf(f, t)
      PROVE  /\ i \in DOMAIN f.rows /\ f.rows[i].number \in 1..PerTask
             /\ f.rows[i].number \in SentFor(Version(c), t)
  <2>1. i \in DOMAIN f.rows /\ f.rows[i].task = t /\ f.rows[i].state = "ok"
    BY <1>5 DEF AllOk, RowsOf
  <2>2. f.rows[i].number \in 1..PerTask
    <3>1. f.rows \in Seq(Bookings) /\ i \in DOMAIN f.rows
      BY <2>1 DEF Ledgers
    <3>2. f.rows[i] \in Bookings
      BY ONLY <3>1
    <3>3. QED  BY <3>2 DEF Bookings
  <2>3. sent[<<Version(c), t, f.rows[i].number>>] = 1
    BY <1>1, <1>3, <2>1 DEF RequestOf
  <2>4. QED  BY <2>1, <2>2, <2>3 DEF SentFor
<1>7. ASSUME NEW n \in SentFor(Version(c), t)
      PROVE  \E i \in RowsOf(f, t) : f.rows[i].number = n
  <2>1. PICK r \in Request : r = <<Version(c), t, n>> /\ sent[r] = 1
    <3>1. n \in 1..PerTask /\ sent[<<Version(c), t, n>>] > 0
      BY DEF SentFor
    <3>2. <<Version(c), t, n>> \in Request
      BY <1>2, <3>1 DEF Request, Version
    <3>3. QED  BY <3>1, <3>2 DEF CampaignInv, CampaignTypes
  <2>2. PICK h \in Grant : \E i \in DOMAIN ledger[h].rows : r = RequestOf(ledger[h], i)
    BY <2>1 DEF CampaignInv, OnLedger
  <2>3. PICK i \in DOMAIN ledger[h].rows : r = RequestOf(ledger[h], i)
    BY <2>2
  <2>4. /\ Version(ledger[h].campaign) = Version(c)
        /\ ledger[h].rows[i].task = t /\ ledger[h].rows[i].number = n
    BY <2>1, <2>3 DEF RequestOf
  <2>5. h = g
    <3>1. SUFFICES ASSUME h # g PROVE FALSE
      OBVIOUS
    <3>2. ledger[h].campaign # "none" /\ ledger[g].campaign # "none" /\ ledger[g].campaign = c
      <4>1. Kept(h) /\ NoFile.rows = <<>>
        BY DEF CampaignInv, NoFile
      <4>2. QED  BY <1>1, <4>1 DEF Kept, Campaign
    <3>3. PICK a, b \in {g, h} :
             /\ a # b /\ ledger[a].campaign = "v2" /\ ledger[b].campaign = "tail"
             /\ ledger[a].done = "partial"
             /\ \A j \in DOMAIN ledger[a].rows : ledger[a].rows[j].task < FirstLeft
      BY <2>4, <3>1, <3>2, LedgersApart
    <3>4. a = h /\ c = "tail"
      BY <3>2, <3>3
    <3>5. t < FirstLeft /\ t >= FirstLeft
      BY <1>2, <2>4, <3>3, <3>4 DEF FirstTask
    <3>6. QED  BY <1>2, <3>5, CampaignAssumption
  <2>6. QED  BY <2>3, <2>4, <2>5 DEF RowsOf
<1>8. SentFor(Version(c), t) = {f.rows[i].number : i \in RowsOf(f, t)}
  BY <1>6, <1>7
<1>9. Cardinality(RowsOf(f, t)) = Cardinality(SentFor(Version(c), t))
  <2> DEFINE M == [i \in RowsOf(f, t) |-> f.rows[i].number]
  <2>1. IsFiniteSet(RowsOf(f, t))
    <3>1. IsFiniteSet(1..Len(f.rows)) /\ RowsOf(f, t) \in SUBSET (1..Len(f.rows))
      BY FS_Interval DEF RowsOf, Ledgers
    <3>2. QED  BY <3>1, FS_Subset
  <2>2. \A i, j \in RowsOf(f, t) : f.rows[i].number = f.rows[j].number => i = j
    BY <1>3 DEF RowsOf
  <2>3. M \in Bijection(RowsOf(f, t), SentFor(Version(c), t))
    <3>1. M \in [RowsOf(f, t) -> SentFor(Version(c), t)] /\ \A i \in RowsOf(f, t) : M[i] = f.rows[i].number
      BY <1>6
    <3>2. /\ \A n \in SentFor(Version(c), t) : \E i \in RowsOf(f, t) : M[i] = n
          /\ \A i, j \in RowsOf(f, t) : M[i] = M[j] => i = j
      BY <1>7, <2>2, <3>1
    <3> HIDE DEF M
    <3>3. QED  BY ONLY <3>1, <3>2 DEF Bijection, Injection, IsInjective, Surjection
  <2> HIDE DEF M
  <2>4. ExistsBijection(RowsOf(f, t), SentFor(Version(c), t))
    BY <2>3 DEF ExistsBijection
  <2>5. QED  BY <2>1, <2>4, FS_Bijection
<1> QED  BY <1>1, <1>5, <1>8, <1>9

LEMMA CampaignIsSafe == CampaignInv => CampaignIsAccounted
<1> SUFFICES ASSUME CampaignInv PROVE CampaignIsAccounted
  OBVIOUS
<1>1. \A r \in Request : sent[r] <= 1
  BY DEF CampaignInv, CampaignTypes
<1>2. ASSUME NEW g \in Grant, ledger[g].done = "complete", NEW t \in Planned(ledger[g].campaign)
      PROVE  LET f == ledger[g] IN
             /\ AllOk(f, RowsOf(f, t))
             /\ SentFor(Version(f.campaign), t) = {f.rows[i].number : i \in RowsOf(f, t)}
             /\ Cardinality(RowsOf(f, t)) = Cardinality(SentFor(Version(f.campaign), t))
  <2>1. PICK f \in Ledgers : f = ledger[g]
    BY DEF CampaignInv, CampaignTypes
  <2>2. QED  BY <1>2, <2>1, CompleteIsAnswered
<1> QED  BY <1>1, <1>2, SentStaysWithin DEF CampaignIsAccounted

\* Of every campaign, whatever processes are started and wherever they die, no
\* request is paid for twice, the three of them stay within the allowance that was
\* approved, and one that is complete has an answer for each request it made.
THEOREM CampaignStays == CampaignSpec => []CampaignIsAccounted
<1>1. CampaignInit => CampaignInv
  BY CampaignStarts
<1>2. CampaignInv /\ [CampaignNext]_campaignVars => CampaignInv'
  BY CampaignMoves
<1>3. CampaignInv => CampaignIsAccounted
  BY CampaignIsSafe
<1> QED  BY <1>1, <1>2, <1>3, PTL DEF CampaignSpec
=============================================================================
