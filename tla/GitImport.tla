------------------------------ MODULE GitImport ------------------------------
(* Clones of allowlisted repositories into a task's sources:                  *)
(* tool_platform/git_server.py and git_manager.py over                        *)
(* tool_platform/operations.py, next to a file written through the            *)
(* filesystem service.  The clone itself takes long and holds no lock; its    *)
(* publication renames a directory and writes file after file, and may break  *)
(* off anywhere.  A request delivered twice is the subject of ToolOperations. *)
EXTENDS Integers, FiniteSets

CONSTANTS
    Clone,          \* operations of the Git service
    Repo,           \* what they clone
    File,           \* the files of a repository
    Edit,           \* an operation of the filesystem service: one new file
    NoOperation,
    MaxFiles        \* what a task's sources may hold

ASSUME GitAssumption ==
    /\ {Edit, NoOperation} \cap Clone = {} /\ Edit # NoOperation
    /\ IsFiniteSet(File) /\ MaxFiles \in Nat

VARIABLES
    url,            \* per clone: its repository
    step,           \* per operation: where it is
    receipt,        \* per clone: "none", "running", "done" or "failed"
    stage,          \* the clones whose staging directory exists
    metadata,       \* repositories whose directory exists
    sources,        \* files of the task's sources
    wrote,          \* per clone: the files it wrote
    held,           \* who has the rows of the workflow and the task
    permitted       \* the task runs, under the claim of the operations

gitVars == <<url, step, receipt, stage, metadata, sources, wrote, held, permitted>>

Files(c) == {url[c]} \X File

GitInit ==
    /\ url \in [Clone -> Repo]
    /\ step = [o \in Clone \union {Edit} |-> "away"]
    /\ receipt = [c \in Clone |-> "none"]
    /\ stage = {} /\ metadata = {} /\ sources = {}
    /\ wrote = [c \in Clone |-> {}]
    /\ held = NoOperation /\ permitted = TRUE

CloneGoes(o, place) == step' = [step EXCEPT ![o] = place]
Unlock == held' = NoOperation

\* The task is cancelled, or its claim taken over.
Revoke ==
    /\ permitted /\ held = NoOperation /\ permitted' = FALSE
    /\ UNCHANGED <<url, step, receipt, stage, metadata, sources, wrote, held>>

-----------------------------------------------------------------------------
(* A clone.                                                                   *)

Reserve(c) ==
    /\ step[c] = "away" /\ permitted /\ held = NoOperation
    /\ receipt' = [receipt EXCEPT ![c] = "running"] /\ CloneGoes(c, "reserved")
    /\ UNCHANGED <<url, stage, metadata, sources, wrote, held, permitted>>

\* What is not allowlisted, or cloned already, is refused before anything is fetched.
StageClone(c) ==
    /\ step[c] = "reserved"
    /\ \/ url[c] \notin metadata /\ stage' = stage \union {c} /\ CloneGoes(c, "fetching")
       \/ UNCHANGED stage /\ CloneGoes(c, "rejecting")
    /\ UNCHANGED <<url, receipt, metadata, sources, wrote, held, permitted>>

\* How a run of git ends that does not succeed: beyond its limits of output,
\* size or time, or with an error, which is a refusal; or denied by the guard,
\* or out of time, of which nothing is recorded.
Failures == {"rejecting", "ended"}

\* A tree with anything but text files is refused, too.  The staging directory
\* of a clone that fails is removed.
Fetch(c) ==
    /\ step[c] = "fetching"
    /\ \/ UNCHANGED stage /\ CloneGoes(c, "fetched")
       \/ \E end \in Failures : stage' = stage \ {c} /\ CloneGoes(c, end)
    /\ UNCHANGED <<url, receipt, metadata, sources, wrote, held, permitted>>

\* The rows are locked until the receipt is written, or the operation fails;
\* one that is denied or out of time ends without a receipt.
Authorize(c) ==
    /\ step[c] \in {"fetched", "rejecting"} /\ held = NoOperation
    /\ \/ UNCHANGED held /\ CloneGoes(c, "cleaning")
       \/ permitted /\ held' = c /\ CloneGoes(c, IF step[c] = "fetched" THEN "publishing" ELSE "refusing")
    /\ UNCHANGED <<url, receipt, stage, metadata, sources, wrote, permitted>>

\* A repository cloned meanwhile, or too large for what the sources hold by
\* now, is refused with its receipt; otherwise its metadata is in place first.
Publish(c) ==
    LET fits == /\ Cardinality(sources) + Cardinality(Files(c)) <= MaxFiles
                /\ url[c] \notin metadata /\ Files(c) \cap sources = {}
    IN /\ step[c] = "publishing"
       /\ \/ fits /\ metadata' = metadata \union {url[c]} /\ CloneGoes(c, "writing") /\ UNCHANGED held
          \/ ~fits /\ Unlock /\ CloneGoes(c, "rejecting") /\ UNCHANGED metadata
       /\ UNCHANGED <<url, receipt, stage, sources, wrote, permitted>>

WriteFile(c) ==
    /\ step[c] = "writing"
    /\ \E f \in Files(c) \ sources :
         /\ sources' = sources \union {f}
         /\ wrote' = [wrote EXCEPT ![c] = @ \union {f}]
    /\ UNCHANGED <<url, step, receipt, stage, metadata, held, permitted>>

\* Fault: an error of the file system is taken for one of the policy.
TakenForRefusal == "rejecting"

\* Nothing is recorded of a publication that broke off.
AfterBrokenWrite == "cleaning"

WriteFails(c) ==
    /\ step[c] = "writing" /\ Unlock /\ CloneGoes(c, AfterBrokenWrite)
    /\ UNCHANGED <<url, receipt, stage, metadata, sources, wrote, permitted>>

\* The receipt is committed, or its transaction is lost.
FinishClone(c) ==
    /\ \/ step[c] = "writing" /\ Files(c) \subseteq sources
       \/ step[c] = "refusing"
    /\ \/ receipt' = [receipt EXCEPT ![c] = IF step[c] = "writing" THEN "done" ELSE "failed"]
       \/ UNCHANGED receipt
    /\ Unlock /\ CloneGoes(c, "cleaning")
    /\ UNCHANGED <<url, stage, metadata, sources, wrote, permitted>>

Clean(c) ==
    /\ step[c] = "cleaning" /\ stage' = stage \ {c} /\ CloneGoes(c, "ended")
    /\ UNCHANGED <<url, receipt, metadata, sources, wrote, held, permitted>>

\* The Git service dies; the database ends its transactions.
GitDies ==
    /\ step' = [o \in DOMAIN step |-> IF o \in Clone /\ step[o] \notin {"away", "ended"} THEN "dead" ELSE step[o]]
    /\ step' # step /\ held' = IF held \in Clone THEN NoOperation ELSE held
    /\ UNCHANGED <<url, receipt, stage, metadata, sources, wrote, permitted>>

-----------------------------------------------------------------------------
(* A file written through the filesystem service.                             *)

EditBegins ==
    /\ step[Edit] = "away" /\ permitted /\ held = NoOperation
    /\ held' = Edit /\ CloneGoes(Edit, "writing")
    /\ UNCHANGED <<url, receipt, stage, metadata, sources, wrote, permitted>>

EditEnds ==
    /\ step[Edit] = "writing"
    /\ \/ Cardinality(sources) < MaxFiles /\ sources' = sources \union {Edit}
       \/ UNCHANGED sources
    /\ Unlock /\ CloneGoes(Edit, "ended")
    /\ UNCHANGED <<url, receipt, stage, metadata, wrote, permitted>>

GitNext ==
    \/ Revoke \/ GitDies \/ EditBegins \/ EditEnds
    \/ \E c \in Clone :
         \/ Reserve(c) \/ StageClone(c) \/ Fetch(c) \/ Authorize(c) \/ Publish(c)
         \/ WriteFile(c) \/ WriteFails(c) \/ FinishClone(c) \/ Clean(c)

GitSpec == GitInit /\ [][GitNext]_gitVars

-----------------------------------------------------------------------------
\* Whatever broke off, a receipt tells what a clone did to the sources: all of
\* its files for done, none for failed; a repository is there in part only
\* under a receipt still open, which calls itself uncertain.  The sources stay
\* within their limit although two services write them, and only a clone that
\* died leaves its staging directory.
ClonesAreKnown ==
    /\ \A c \in Clone :
         /\ receipt[c] = "done" => Files(c) \subseteq sources /\ url[c] \in metadata
         /\ receipt[c] = "failed" => wrote[c] = {}
         /\ wrote[c] # {} => url[c] \in metadata /\ receipt[c] \in {"running", "done"}
         /\ step[c] = "ended" => c \notin stage
    /\ \A c, d \in Clone : c # d /\ url[c] = url[d] => wrote[c] = {} \/ wrote[d] = {}
    /\ Cardinality(sources) <= MaxFiles
=============================================================================
