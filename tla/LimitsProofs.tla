--------------------------- MODULE LimitsProofs ---------------------------
(***************************************************************************)
(* What the parts promise that one or a few may hold or spend, for every   *)
(* number of those who want it: the lease of a job, a slot, the sources of *)
(* a task, the pipe to an inference container, the objects of the sandbox, *)
(* the numbers of events, the budget of model calls.  Every part has an    *)
(* inductive invariant of its own, which follows its actors from place to  *)
(* place.                                                                  *)
(***************************************************************************)
EXTENDS LeaseTiming, RequestAdmission, SandboxRunner, ModelCalls, WorkflowEvents, NeuralWorker, GitImport,
        FiniteSetTheorems, TLAPS

-----------------------------------------------------------------------------
(* The lease of a job.  The invariant says how much of the lease is left at  *)
(* each point of the worker's loop.                                          *)

\* The types the arithmetic needs.
LeaseTypes ==
    /\ owner \in Worker \cup {Nobody} /\ lock \in Worker \cup {Nobody}
    /\ left \in Nat
    /\ pc \in [Worker -> {"idle", "claims", "runs", "beats", "stops"}]
    /\ timer \in [Worker -> Nat]
    /\ stamp \in [Worker -> Nat]
    /\ call \in [Worker -> {"none", "sent", "read", "written"}]
    /\ works \in [Worker -> BOOLEAN]

\* An open transaction holds the lock, and what it saw still holds.
RowLocked(w) ==
    /\ call[w] = "read" <=> lock = w
    /\ pc[w] = "claims" => call[w] \in {"read", "written"}
    /\ pc[w] = "claims" /\ call[w] = "read" => Claimable
    /\ pc[w] \in {"beats", "stops"} /\ call[w] = "read" => owner = w \/ owner = Nobody
    /\ pc[w] \in {"idle", "runs"} => call[w] = "none"

\* A job that is executed is the worker's own.
WorksMine(w) ==
    /\ works[w] => pc[w] \in {"runs", "beats"} /\ owner = w
    /\ pc[w] = "claims" /\ call[w] = "written" => owner = w
    /\ pc[w] = "runs" => works[w]

\* How much of the lease is left.
LeaseTimed(w) ==
    /\ pc[w] = "claims" =>
         /\ timer[w] <= ClaimWait
         /\ call[w] = "read" => stamp[w] + timer[w] >= Lease
         /\ call[w] = "written" => left + timer[w] >= Lease
    /\ pc[w] = "runs" => timer[w] <= Third /\ left + timer[w] >= 2 * Third + 1
    /\ pc[w] = "beats" =>
         /\ timer[w] <= Third
         /\ works[w] => left + timer[w] >= Third + 1
         /\ works[w] /\ call[w] = "read" => stamp[w] + timer[w] >= Lease
         /\ works[w] /\ call[w] = "written" => left + timer[w] >= Lease

LeaseInv == LeaseTypes /\ \A w \in Worker : RowLocked(w) /\ WorksMine(w) /\ LeaseTimed(w)

LEMMA LeaseInitial == Init => LeaseInv
  BY LeaseAssumption DEF Init, LeaseInv, LeaseTypes, RowLocked, WorksMine, LeaseTimed

\* The invariant leaves every execution some of its lease.
LEMMA LeaseLeft == LeaseInv => LeaseOutlivesWork
<1> SUFFICES ASSUME LeaseInv, NEW w \in Worker, works[w] PROVE owner = w /\ left > 0
  BY DEF LeaseOutlivesWork
<1>1. owner = w /\ pc[w] \in {"runs", "beats"}
  BY DEF LeaseInv, WorksMine
<1>2. timer[w] <= Third /\ left + timer[w] >= Third + 1 /\ timer[w] \in Nat /\ left \in Nat
  BY <1>1, LeaseAssumption DEF LeaseInv, LeaseTimed, LeaseTypes
<1> QED  BY <1>1, <1>2, LeaseAssumption

LEMMA LeaseUnchanged == LeaseInv /\ UNCHANGED vars => LeaseInv'
  BY DEF LeaseInv, vars, LeaseTypes, RowLocked, WorksMine, LeaseTimed, Claimable

\* Time passes only while nobody is due to act.
LEMMA TickKeeps == LeaseInv /\ Tick => LeaseInv'
<1> SUFFICES ASSUME LeaseInv, Tick PROVE LeaseInv'
  OBVIOUS
<1>1. LeaseTypes'
  BY DEF LeaseInv, LeaseTypes, Tick, Less
<1>2. ASSUME NEW w \in Worker PROVE RowLocked(w)'
  BY DEF LeaseInv, LeaseTypes, RowLocked, Tick, Claimable, Less
<1>3. ASSUME NEW w \in Worker PROVE WorksMine(w)'
  BY DEF LeaseInv, WorksMine, Tick
<1>4. ASSUME NEW w \in Worker PROVE LeaseTimed(w)'
  <2>1. Timely(w) /\ LeaseTimed(w) /\ RowLocked(w) /\ timer[w] \in Nat /\ stamp[w] \in Nat /\ left \in Nat
    BY DEF Tick, LeaseInv, LeaseTypes
  <2>2. /\ timer'[w] = IF pc[w] \in {"claims", "runs", "beats"} THEN timer[w] + 1 ELSE timer[w]
        /\ left' >= left - 1 /\ stamp'[w] >= stamp[w] - 1
        /\ left' \in Nat /\ stamp'[w] \in Nat
    BY <2>1 DEF Tick, Less, LeaseInv, LeaseTypes
  <2> QED  BY <2>1, <2>2, LeaseAssumption DEF Tick, LeaseTimed, Timely, BeatDue, GivesUp, Lease
<1> QED  BY <1>1, <1>2, <1>3, <1>4 DEF LeaseInv

\* The steps of one worker that leave the row and its lock alone.
LEMMA WorkerSteps ==
  ASSUME LeaseInv, NEW v \in Worker,
         ClaimAnswered(v) \/ BeatSent(v) \/ BeatAnswered(v) \/ Stops(v) \/ Returns(v)
  PROVE  LeaseInv'
<1> USE DEF Goto, Restart, row
<1>1. LeaseTypes'
  <2> USE LeaseAssumption DEF LeaseInv, LeaseTypes
  <2>1. CASE ClaimAnswered(v)  BY <2>1 DEF ClaimAnswered
  <2>2. CASE BeatSent(v)       BY <2>2 DEF BeatSent
  <2>3. CASE BeatAnswered(v)   BY <2>3 DEF BeatAnswered
  <2>4. CASE Stops(v)          BY <2>4 DEF Stops
  <2>5. CASE Returns(v)        BY <2>5 DEF Returns
  <2> QED  BY <2>1, <2>2, <2>3, <2>4, <2>5
<1>2. ASSUME NEW w \in Worker PROVE RowLocked(w)' /\ WorksMine(w)' /\ LeaseTimed(w)'
  <2> USE <1>2, LeaseAssumption DEF LeaseInv, LeaseTypes, RowLocked, WorksMine, LeaseTimed, Claimable, Lease
  <2>1. CASE ClaimAnswered(v)  BY <2>1 DEF ClaimAnswered
  <2>2. CASE BeatSent(v)       BY <2>2 DEF BeatSent, BeatDue
  <2>3. CASE BeatAnswered(v)   BY <2>3 DEF BeatAnswered
  <2>4. CASE Stops(v)          BY <2>4 DEF Stops
  <2>5. CASE Returns(v)        BY <2>5 DEF Returns
  <2> QED  BY <2>1, <2>2, <2>3, <2>4, <2>5
<1> QED  BY <1>1, <1>2 DEF LeaseInv

\* The steps that change the row, its lock or an open transaction.
LEMMA RowSteps ==
  ASSUME LeaseInv, NEW v \in Worker,
         \/ ClaimReads(v) \/ ClaimWrites(v) \/ BeatReads(v) \/ BeatWrites(v)
         \/ BeatDropped(v) \/ ExecutionEnds(v) \/ Crash(v)
  PROVE  LeaseInv'
<1> USE DEF Goto, Restart, ReadClock
<1>1. LeaseTypes'
  <2> USE LeaseAssumption DEF LeaseInv, LeaseTypes, Lease
  <2>1. CASE ClaimReads(v)     BY <2>1 DEF ClaimReads
  <2>2. CASE ClaimWrites(v)    BY <2>2 DEF ClaimWrites
  <2>3. CASE BeatReads(v)      BY <2>3 DEF BeatReads
  <2>4. CASE BeatWrites(v)     BY <2>4 DEF BeatWrites
  <2>5. CASE BeatDropped(v)    BY <2>5 DEF BeatDropped
  <2>6. CASE ExecutionEnds(v)  BY <2>6 DEF ExecutionEnds
  <2>7. CASE Crash(v)          BY <2>7 DEF Crash
  <2> QED  BY <2>1, <2>2, <2>3, <2>4, <2>5, <2>6, <2>7
<1>2. ASSUME NEW w \in Worker PROVE RowLocked(w)' /\ WorksMine(w)' /\ LeaseTimed(w)'
  <2> USE <1>2, LeaseAssumption DEF LeaseInv, LeaseTypes, RowLocked, WorksMine, LeaseTimed, Claimable, Lease
  <2>1. CASE ClaimReads(v)     BY <2>1 DEF ClaimReads
  <2>2. CASE ClaimWrites(v)    BY <2>2 DEF ClaimWrites
  <2>3. CASE BeatReads(v)      BY <2>3 DEF BeatReads, Fenced
  <2>4. CASE BeatWrites(v)     BY <2>4 DEF BeatWrites
  <2>5. CASE BeatDropped(v)    BY <2>5 DEF BeatDropped
  <2>6. CASE ExecutionEnds(v)  BY <2>6 DEF ExecutionEnds, Fenced
  <2>7. CASE Crash(v)          BY <2>7 DEF Crash
  <2> QED  BY <2>1, <2>2, <2>3, <2>4, <2>5, <2>6, <2>7
<1> QED  BY <1>1, <1>2 DEF LeaseInv

LEMMA LeaseInductive == LeaseInv /\ [Next]_vars => LeaseInv'
  BY LeaseUnchanged, TickKeeps, WorkerSteps, RowSteps DEF Next

\* The claim whose lease an execution relies on outlives it (durable.py:84-104).
THEOREM LeaseCoversExecution == Spec => []LeaseOutlivesWork
  BY LeaseInitial, LeaseInductive, LeaseLeft, PTL DEF Spec

\* Two workers never execute the same job at the same time.
THEOREM ExecutionIsUnique == Spec => []OneExecution
<1>1. LeaseOutlivesWork => OneExecution
  BY DEF LeaseOutlivesWork, OneExecution
<1> QED  BY <1>1, LeaseCoversExecution, PTL

-----------------------------------------------------------------------------
(* Clones.  The invariant follows a clone from place to place: what it has   *)
(* of the lock, of its receipt, of its staging and of the files.             *)

ClonePlaces ==
    {"away", "reserved", "fetching", "fetched", "rejecting", "publishing", "writing",
     "refusing", "cleaning", "ended", "dead"}

GitTypes ==
    /\ url \in [Clone -> Repo]
    /\ step \in [Clone \union {Edit} -> ClonePlaces]
    /\ receipt \in [Clone -> {"none", "running", "done", "failed"}]
    /\ wrote \in [Clone -> SUBSET (Repo \X File)]
    /\ IsFiniteSet(sources)

\* From the check of its claim to its receipt an operation has the rows.
RowsLocked ==
    /\ \A c \in Clone : step[c] \in {"publishing", "writing", "refusing"} => held = c
    /\ step[Edit] = "writing" => held = Edit

NothingWritten(c) == receipt[c] = "running" /\ wrote[c] = {}

\* What a clone has done, by where it is.
ClonePlaced(c) ==
    /\ step[c] = "away" => receipt[c] = "none" /\ wrote[c] = {}
    /\ step[c] \in {"reserved", "fetching", "fetched", "rejecting", "publishing", "refusing"} => NothingWritten(c)
    /\ step[c] = "writing" => receipt[c] = "running" /\ url[c] \in metadata
    /\ step[c] \in {"away", "reserved", "ended"} => c \notin stage

\* What there is of its files.
CloneWritten(c) ==
    /\ wrote[c] \subseteq sources
    /\ wrote[c] # {} => url[c] \in metadata /\ receipt[c] \in {"running", "done"}
    /\ receipt[c] = "done" => Files(c) \subseteq sources /\ url[c] \in metadata
    /\ receipt[c] = "failed" => wrote[c] = {}

\* One clone of a repository publishes it.
PublishesAlone(c, d) ==
    url[c] = url[d] =>
        /\ wrote[c] = {} \/ wrote[d] = {}
        /\ step[c] = "writing" => wrote[d] = {}

\* There is room for what a publication has still to write.
RoomLeft ==
    /\ Cardinality(sources) <= MaxFiles
    /\ \A c \in Clone : step[c] = "writing" => Cardinality(sources \cup Files(c)) <= MaxFiles

GitInv ==
    /\ GitTypes /\ RowsLocked /\ RoomLeft
    /\ \A c \in Clone : ClonePlaced(c) /\ CloneWritten(c)
    /\ \A c, d \in Clone : c # d => PublishesAlone(c, d)

LEMMA GitInitial == ASSUME GitInit PROVE GitInv
<1>1. Cardinality({}) = 0 /\ IsFiniteSet({})
  BY FS_EmptySet
<1>2. GitTypes
  BY <1>1 DEF GitInit, GitTypes, ClonePlaces
<1>3. RowsLocked /\ RoomLeft
  BY <1>1, GitAssumption DEF GitInit, RowsLocked, RoomLeft
<1>4. \A c \in Clone : ClonePlaced(c) /\ CloneWritten(c)
  BY DEF GitInit, ClonePlaced, CloneWritten
<1>5. \A c, d \in Clone : PublishesAlone(c, d)
  BY DEF GitInit, PublishesAlone
<1> QED  BY <1>2, <1>3, <1>4, <1>5 DEF GitInv

LEMMA GitSound == ASSUME GitInv PROVE ClonesAreKnown
<1>1. ASSUME NEW c \in Clone
      PROVE  /\ receipt[c] = "done" => Files(c) \subseteq sources /\ url[c] \in metadata
             /\ receipt[c] = "failed" => wrote[c] = {}
             /\ wrote[c] # {} => url[c] \in metadata /\ receipt[c] \in {"running", "done"}
             /\ step[c] = "ended" => c \notin stage
  <2>1. ClonePlaced(c) /\ CloneWritten(c)
    BY DEF GitInv
  <2> QED  BY <2>1 DEF ClonePlaced, CloneWritten
<1>2. \A c, d \in Clone : c # d /\ url[c] = url[d] => wrote[c] = {} \/ wrote[d] = {}
  BY DEF GitInv, PublishesAlone
<1>3. Cardinality(sources) <= MaxFiles
  BY DEF GitInv, RoomLeft
<1> QED  BY <1>1, <1>2, <1>3 DEF ClonesAreKnown

LEMMA GitUnchanged == ASSUME GitInv, UNCHANGED gitVars PROVE GitInv'
<1>1. GitTypes' /\ RowsLocked' /\ RoomLeft'
  BY DEF GitInv, gitVars, GitTypes, RowsLocked, RoomLeft, Files
<1>2. \A c \in Clone : ClonePlaced(c)' /\ CloneWritten(c)'
  BY DEF GitInv, gitVars, ClonePlaced, NothingWritten, CloneWritten, Files
<1>3. \A c, d \in Clone : c # d => PublishesAlone(c, d)'
  BY DEF GitInv, gitVars, PublishesAlone
<1> QED  BY <1>1, <1>2, <1>3 DEF GitInv

\* The files of a repository are finitely many.
LEMMA FilesFinite == ASSUME NEW c \in Clone PROVE IsFiniteSet(Files(c))
  BY FS_Singleton, FS_Product, GitAssumption DEF Files

\* An operation that writes nothing and moves none of the others.
CloneCalm(c) ==
    /\ UNCHANGED <<url, sources, wrote, metadata>>
    /\ \A o \in (Clone \union {Edit}) \ {c} : step'[o] = step[o]
    /\ \A d \in Clone \ {c} : receipt'[d] = receipt[d] /\ (d \in stage' <=> d \in stage)
    /\ step'[c] = "writing" => step[c] = "writing"

LEMMA CalmKeeps ==
  ASSUME GitInv, NEW c \in Clone, CloneCalm(c), GitTypes', RowsLocked', ClonePlaced(c)', CloneWritten(c)'
  PROVE  GitInv'
<1>1. RoomLeft'
  BY DEF GitInv, RoomLeft, CloneCalm, Files
<1>2. \A d \in Clone : ClonePlaced(d)' /\ CloneWritten(d)'
  BY DEF GitInv, ClonePlaced, CloneWritten, CloneCalm, Files, NothingWritten
<1>3. ASSUME NEW d \in Clone, NEW e \in Clone, d # e PROVE PublishesAlone(d, e)'
  BY <1>3 DEF GitInv, PublishesAlone, CloneCalm
<1> QED  BY <1>1, <1>2, <1>3 DEF GitInv

LEMMA FirstPartKeeps ==
  ASSUME GitInv, NEW c \in Clone, Reserve(c) \/ StageClone(c) \/ Fetch(c) \/ Authorize(c)
  PROVE  GitInv'
<1>1. GitTypes'
  BY DEF GitInv, GitTypes, ClonePlaces, Reserve, StageClone, Fetch, Authorize, CloneGoes, Failures
<1>2. RowsLocked'
  BY GitAssumption DEF GitInv, GitTypes, RowsLocked, Reserve, StageClone, Fetch, Authorize, CloneGoes, Failures
<1>3. ClonePlaced(c)' /\ CloneWritten(c)'
  BY DEF GitInv, GitTypes, ClonePlaced, CloneWritten, NothingWritten, Files, Reserve, StageClone, Fetch, Authorize, CloneGoes, Failures
<1>4. CloneCalm(c)
  BY DEF GitInv, GitTypes, CloneCalm, Reserve, StageClone, Fetch, Authorize, CloneGoes, Failures
<1> QED  BY <1>1, <1>2, <1>3, <1>4, CalmKeeps

LEMMA LastPartKeeps ==
  ASSUME GitInv, NEW c \in Clone, WriteFails(c) \/ FinishClone(c) \/ Clean(c)
  PROVE  GitInv'
<1>1. GitTypes'
  BY DEF GitInv, GitTypes, ClonePlaces, WriteFails, FinishClone, Clean, CloneGoes, AfterBrokenWrite
<1>2. RowsLocked'
  BY GitAssumption DEF GitInv, GitTypes, RowsLocked, WriteFails, FinishClone, Clean, CloneGoes, Unlock, AfterBrokenWrite
<1>3. ClonePlaced(c)' /\ CloneWritten(c)'
  BY DEF GitInv, GitTypes, ClonePlaced, CloneWritten, NothingWritten, Files, WriteFails, FinishClone, Clean, CloneGoes, AfterBrokenWrite
<1>4. CloneCalm(c)
  BY DEF GitInv, GitTypes, CloneCalm, WriteFails, FinishClone, Clean, CloneGoes, AfterBrokenWrite
<1> QED  BY <1>1, <1>2, <1>3, <1>4, CalmKeeps

LEMMA DieKeeps == ASSUME GitInv, GitDies PROVE GitInv'
<1>1. GitTypes'
  BY DEF GitInv, GitTypes, ClonePlaces, GitDies
<1>2. RowsLocked'
  BY GitAssumption DEF GitInv, GitTypes, RowsLocked, GitDies
<1>3. \A c \in Clone : step'[c] \in {step[c], "dead"}
  BY DEF GitInv, GitTypes, GitDies
<1>4. RoomLeft'
  BY <1>3 DEF GitInv, RoomLeft, GitDies, Files
<1>5. \A c \in Clone : ClonePlaced(c)' /\ CloneWritten(c)'
  BY <1>3 DEF GitInv, ClonePlaced, CloneWritten, NothingWritten, Files, GitDies
<1>6. \A c, d \in Clone : c # d => PublishesAlone(c, d)'
  BY <1>3 DEF GitInv, PublishesAlone, GitDies
<1> QED  BY <1>1, <1>2, <1>4, <1>5, <1>6 DEF GitInv

\* Nothing is written while somebody has the rows but the writer.
LEMMA PublishKeeps == ASSUME GitInv, NEW c \in Clone, Publish(c) PROVE GitInv'
<1> DEFINE fits == /\ Cardinality(sources) + Cardinality(Files(c)) <= MaxFiles
                   /\ url[c] \notin metadata /\ Files(c) \cap sources = {}
<1>1. CASE ~fits
  <2>1. held' = NoOperation /\ step' = [step EXCEPT ![c] = "rejecting"] /\ UNCHANGED metadata
    BY <1>1 DEF Publish, CloneGoes, Unlock
  <2>2. GitTypes'
    BY <2>1 DEF GitInv, GitTypes, ClonePlaces, Publish
  <2>3. RowsLocked'
    BY <2>1, GitAssumption DEF GitInv, GitTypes, RowsLocked, Publish
  <2>4. ClonePlaced(c)' /\ CloneWritten(c)'
    BY <2>1 DEF GitInv, GitTypes, ClonePlaced, CloneWritten, NothingWritten, Files, Publish
  <2>5. CloneCalm(c)
    BY <2>1 DEF GitInv, GitTypes, CloneCalm, Publish
  <2> QED  BY <2>2, <2>3, <2>4, <2>5, CalmKeeps
<1>2. CASE fits
  <2>1. /\ UNCHANGED held /\ step' = [step EXCEPT ![c] = "writing"]
        /\ metadata' = metadata \union {url[c]}
        /\ UNCHANGED <<url, receipt, stage, sources, wrote, permitted>>
    BY <1>2 DEF Publish, CloneGoes
  <2>2. step[c] = "publishing"
    BY DEF Publish
  <2>3. GitTypes'
    BY <2>1 DEF GitInv, GitTypes, ClonePlaces
  <2>4. RowsLocked'
    BY <2>1, <2>2, GitAssumption DEF GitInv, GitTypes, RowsLocked
  <2>5. RoomLeft'
    <3>1. Cardinality(sources \cup Files(c)) <= MaxFiles
      <4>1. IsFiniteSet(sources) /\ IsFiniteSet(Files(c)) /\ MaxFiles \in Nat
        BY FilesFinite, GitAssumption DEF GitInv, GitTypes
      <4>2. /\ Cardinality(sources \cup Files(c)) =
                 Cardinality(sources) + Cardinality(Files(c)) - Cardinality(sources \cap Files(c))
        BY <4>1, FS_Union
      <4>3. Cardinality(sources \cap Files(c)) = 0
        BY <1>2, FS_EmptySet
      <4>4. Cardinality(sources) \in Nat /\ Cardinality(Files(c)) \in Nat
        BY <4>1, FS_CardinalityType
      <4> HIDE DEF fits
      <4>5. Cardinality(sources) + Cardinality(Files(c)) <= MaxFiles
        BY <1>2 DEF fits
      <4> QED  BY <4>1, <4>2, <4>3, <4>4, <4>5
    <3>2. \A d \in Clone : step'[d] = "writing" => d = c \/ step[d] = "writing"
      BY <2>1 DEF GitInv, GitTypes
    <3> QED  BY <2>1, <3>1, <3>2 DEF GitInv, RoomLeft, Files
  <2>6. \A d \in Clone : ClonePlaced(d)' /\ CloneWritten(d)'
    BY <2>1, <2>2 DEF GitInv, GitTypes, ClonePlaced, CloneWritten, NothingWritten, Files
  <2>7. \A d \in Clone : url[d] = url[c] => wrote[d] = {}
    BY <1>2 DEF GitInv, CloneWritten
  <2>8. ASSUME NEW d \in Clone, NEW e \in Clone, d # e PROVE PublishesAlone(d, e)'
    BY <2>1, <2>7, <2>8 DEF GitInv, GitTypes, PublishesAlone
  <2> QED  BY <2>3, <2>4, <2>5, <2>6, <2>8 DEF GitInv
<1> QED  BY <1>1, <1>2

LEMMA WriteKeeps == ASSUME GitInv, NEW c \in Clone, WriteFile(c) PROVE GitInv'
<1>1. PICK f \in Files(c) \ sources :
        /\ sources' = sources \union {f}
        /\ wrote' = [wrote EXCEPT ![c] = @ \union {f}]
  BY DEF WriteFile
<1>2. step[c] = "writing" /\ held = c /\ UNCHANGED <<url, step, receipt, stage, metadata, held, permitted>>
  BY DEF WriteFile, GitInv, RowsLocked
<1>3. GitTypes'
  <2>1. IsFiniteSet(sources')
    BY <1>1, FS_AddElement DEF GitInv, GitTypes
  <2>2. f \in Repo \X File
    BY <1>1 DEF GitInv, GitTypes, Files
  <2> QED  BY <1>1, <1>2, <2>1, <2>2 DEF GitInv, GitTypes
<1>4. RowsLocked'
  BY <1>2 DEF GitInv, RowsLocked
<1>5. RoomLeft'
  <2>1. \A d \in Clone : step[d] = "writing" => d = c
    BY <1>2 DEF GitInv, RowsLocked
  <2>2. sources' \cup Files(c)' = sources \cup Files(c) /\ Files(c)' = Files(c)
    BY <1>1, <1>2 DEF Files
  <2>3. Cardinality(sources \cup Files(c)) <= MaxFiles
    BY <1>2 DEF GitInv, RoomLeft
  <2>4. Cardinality(sources') <= MaxFiles
    <3>1. IsFiniteSet(sources \cup Files(c)) /\ sources' \subseteq sources \cup Files(c)
      BY <1>1, FilesFinite, FS_Union DEF GitInv, GitTypes
    <3>2. /\ Cardinality(sources') <= Cardinality(sources \cup Files(c))
          /\ Cardinality(sources') \in Nat /\ Cardinality(sources \cup Files(c)) \in Nat
      BY <3>1, FS_Subset, FS_CardinalityType
    <3> QED  BY <2>3, <3>2, GitAssumption
  <2> QED  BY <1>2, <2>1, <2>2, <2>3, <2>4 DEF RoomLeft
<1>6. \A d \in Clone : ClonePlaced(d)' /\ CloneWritten(d)'
  BY <1>1, <1>2 DEF GitInv, GitTypes, ClonePlaced, CloneWritten, NothingWritten, Files
<1>7. \A d \in Clone : d # c /\ url[d] = url[c] => wrote[d] = {}
  BY <1>2 DEF GitInv, PublishesAlone
<1>8. ASSUME NEW d \in Clone, NEW e \in Clone, d # e PROVE PublishesAlone(d, e)'
  <2>1. step[d] = "writing" => d = c
    BY <1>2 DEF GitInv, RowsLocked
  <2> QED  BY <1>1, <1>2, <1>7, <1>8, <2>1 DEF GitInv, GitTypes, PublishesAlone
<1> QED  BY <1>3, <1>4, <1>5, <1>6, <1>8 DEF GitInv

\* The other service takes the rows as well before it counts the files.
LEMMA EditKeeps == ASSUME GitInv, EditBegins \/ EditEnds \/ Revoke PROVE GitInv'
<1>1. GitTypes'
  BY FS_AddElement DEF GitInv, GitTypes, ClonePlaces, EditBegins, EditEnds, Revoke, CloneGoes
<1>2. RowsLocked'
  BY GitAssumption DEF GitInv, GitTypes, RowsLocked, EditBegins, EditEnds, Revoke, CloneGoes, Unlock
<1>3. /\ UNCHANGED <<url, receipt, stage, metadata, wrote>> /\ sources \subseteq sources'
      /\ \A c \in Clone : step'[c] = step[c]
  BY GitAssumption DEF GitInv, GitTypes, EditBegins, EditEnds, Revoke, CloneGoes
<1>4. CASE sources' = sources
  <2>1. RoomLeft'
    BY <1>3, <1>4 DEF GitInv, RoomLeft, Files
  <2>2. \A c \in Clone : ClonePlaced(c)' /\ CloneWritten(c)'
    BY <1>3, <1>4 DEF GitInv, ClonePlaced, CloneWritten, NothingWritten, Files
  <2>3. \A c, d \in Clone : c # d => PublishesAlone(c, d)'
    BY <1>3 DEF GitInv, PublishesAlone
  <2> QED  BY <1>1, <1>2, <2>1, <2>2, <2>3 DEF GitInv
<1>5. CASE sources' # sources
  <2>1. step[Edit] = "writing" /\ Cardinality(sources) < MaxFiles /\ sources' = sources \union {Edit}
    BY <1>5 DEF EditBegins, EditEnds, Revoke
  <2>2. \A c \in Clone : step[c] # "writing"
    BY <2>1, GitAssumption DEF GitInv, RowsLocked
  <2>3. Cardinality(sources') <= MaxFiles
    <3>1. Cardinality(sources) \in Nat /\ Cardinality(sources') \in {Cardinality(sources), Cardinality(sources) + 1}
      BY <2>1, FS_AddElement, FS_CardinalityType DEF GitInv, GitTypes
    <3> QED  BY <2>1, <3>1, GitAssumption
  <2>4. RoomLeft'
    BY <1>3, <2>2, <2>3 DEF RoomLeft
  <2>5. \A c \in Clone : ClonePlaced(c)' /\ CloneWritten(c)'
    BY <1>3 DEF GitInv, ClonePlaced, CloneWritten, NothingWritten, Files
  <2>6. \A c, d \in Clone : c # d => PublishesAlone(c, d)'
    BY <1>3 DEF GitInv, PublishesAlone
  <2> QED  BY <1>1, <1>2, <2>4, <2>5, <2>6 DEF GitInv
<1> QED  BY <1>4, <1>5

LEMMA GitInductive == ASSUME GitInv, [GitNext]_gitVars PROVE GitInv'
<1>1. CASE UNCHANGED gitVars
  BY <1>1, GitUnchanged
<1> QED
  BY <1>1, DieKeeps, EditKeeps, FirstPartKeeps, PublishKeeps, WriteKeeps, LastPartKeeps DEF GitNext

\* Whatever breaks off or dies, the receipt of a clone tells what it did to the
\* sources, one clone of a repository publishes it, and two services together
\* never write more files than a task may have.
THEOREM ReceiptsTell == GitSpec => []ClonesAreKnown
<1>1. GitInit => GitInv
  BY GitInitial
<1>2. GitInv /\ [GitNext]_gitVars => GitInv'
  BY GitInductive
<1>3. GitInv => ClonesAreKnown
  BY GitSound
<1> QED  BY <1>1, <1>2, <1>3, PTL DEF GitSpec

-----------------------------------------------------------------------------
(* Calls of an inference container, and its end.                             *)

NeuralTypes ==
    /\ number \in Nat
    /\ at \in [Everyone -> {"away", "waiting", "reading", "closing", "joining", "stopping"}]
    /\ mine \in [Everyone -> Nat] /\ got \in [Everyone -> Nat]

\* Who reads has the lock, and its request is the last that was numbered; who
\* ends a closing began it, and the client knows.
CallerPlaced(c) ==
    /\ at[c] = "reading" => pipeLock = c /\ mine[c] = number
    /\ at[c] \in {"joining", "stopping"} => closed
    /\ got[c] # 0 => got[c] = mine[c]

\* Before the start there is nothing, and after the end no way back.
Containers ==
    /\ cli = "none" => container = "none"
    /\ cleaned => container = "none" /\ cli = "exited" /\ closed

NeuralInv == NeuralTypes /\ Containers /\ \A c \in Everyone : CallerPlaced(c)

LEMMA NeuralInitial == NeuralInit => NeuralInv
  BY DEF NeuralInit, NeuralInv, NeuralTypes, CallerPlaced, Containers, Everyone

LEMMA NeuralSound == NeuralInv => NothingLeftOver
  BY DEF NeuralInv, CallerPlaced, Containers, NothingLeftOver

LEMMA NeuralUnchanged == NeuralInv /\ UNCHANGED neuralVars => NeuralInv'
  BY DEF NeuralInv, neuralVars, NeuralTypes, CallerPlaced, Containers

\* The worker, the container and the engine's client.
LEMMA OutsideKeeps ==
  ASSUME NeuralInv, Initialize \/ ServeRequest \/ Exit \/ Removed \/ ClientExits PROVE NeuralInv'
<1>1. UNCHANGED <<pipeLock, number, closed, cleaned, at, mine, got>>
  BY DEF Initialize, ServeRequest, Exit, Removed, ClientExits
<1>2. Containers'
  BY <1>1 DEF NeuralInv, Containers, Initialize, ServeRequest, Exit, Removed, ClientExits
<1>3. NeuralTypes' /\ \A c \in Everyone : CallerPlaced(c)'
  BY <1>1 DEF NeuralInv, NeuralTypes, CallerPlaced
<1> QED  BY <1>2, <1>3 DEF NeuralInv

LEMMA MainKeeps == ASSUME NeuralInv, Start \/ Verify PROVE NeuralInv'
  BY NeuralAssumption DEF NeuralInv, NeuralTypes, CallerPlaced, Containers, Everyone, Start, Verify

LEMMA WaitingKeeps ==
  ASSUME NeuralInv, NEW c \in Everyone,
         RequestRefused(c) \/ Leaves(c) \/ (c \in Caller /\ AskModel(c))
  PROVE  NeuralInv'
<1>1. NeuralTypes'
  BY DEF NeuralInv, NeuralTypes, RequestRefused, Leaves, AskModel
<1>2. Containers'
  BY DEF NeuralInv, Containers, RequestRefused, Leaves, AskModel
<1>3. ASSUME NEW d \in Everyone PROVE CallerPlaced(d)'
  BY NeuralAssumption DEF NeuralInv, NeuralTypes, CallerPlaced, Everyone, RequestRefused, Leaves, AskModel
<1> QED  BY <1>1, <1>2, <1>3 DEF NeuralInv

\* While somebody reads, nobody else gets the lock and a number.
LEMMA SendKeeps == ASSUME NeuralInv, NEW c \in Everyone, SendRequest(c) PROVE NeuralInv'
<1>1. NeuralTypes'
  BY DEF NeuralInv, NeuralTypes, SendRequest
<1>2. Containers'
  BY DEF NeuralInv, Containers, SendRequest
<1>3. ASSUME NEW d \in Everyone PROVE CallerPlaced(d)'
  BY NeuralAssumption DEF NeuralInv, NeuralTypes, CallerPlaced, Everyone, SendRequest
<1> QED  BY <1>1, <1>2, <1>3 DEF NeuralInv

\* The answer is the one to the last number, which is the reader's own.
LEMMA ReadKeeps == ASSUME NeuralInv, NEW c \in Everyone, ModelAnswers(c) \/ Fails(c) PROVE NeuralInv'
<1>1. CASE ModelAnswers(c)
  <2>1. Head(said).id = mine[c]
    BY <1>1 DEF NeuralInv, CallerPlaced, ModelAnswers, Usable
  <2>2. NeuralTypes'
    BY <1>1, <2>1 DEF NeuralInv, NeuralTypes, ModelAnswers
  <2>3. Containers'
    BY <1>1 DEF NeuralInv, Containers, ModelAnswers
  <2>4. ASSUME NEW d \in Everyone PROVE CallerPlaced(d)'
    BY <1>1, <2>1 DEF NeuralInv, NeuralTypes, CallerPlaced, ModelAnswers
  <2> QED  BY <2>2, <2>3, <2>4 DEF NeuralInv
<1>2. CASE Fails(c)
  BY <1>2 DEF NeuralInv, NeuralTypes, CallerPlaced, Containers, Fails
<1> QED  BY <1>1, <1>2

LEMMA CloseKeeps ==
  ASSUME NeuralInv, NEW c \in Everyone,
         CloseAgain(c) \/ BeginClose(c) \/ StopContainer(c) \/ Kill(c) \/ EndClose(c) \/ CloseFails(c)
  PROVE  NeuralInv'
<1>1. NeuralTypes'
  BY DEF NeuralInv, NeuralTypes, CloseAgain, BeginClose, StopContainer, Kill, EndClose, CloseFails, Out
<1>2. Containers'
  <2>1. CASE EndClose(c)
    BY <2>1 DEF NeuralInv, CallerPlaced, Containers, EndClose, Gone
  <2>2. CASE CloseAgain(c) \/ BeginClose(c) \/ CloseFails(c)
    BY <2>2 DEF NeuralInv, Containers, CloseAgain, BeginClose, CloseFails
  <2>3. CASE StopContainer(c) \/ Kill(c)
    BY <2>3 DEF NeuralInv, Containers, StopContainer, Kill
  <2> QED  BY <2>1, <2>2, <2>3
<1>3. ASSUME NEW d \in Everyone PROVE CallerPlaced(d)'
  BY DEF NeuralInv, NeuralTypes, CallerPlaced, CloseAgain, BeginClose, StopContainer, Kill, EndClose, CloseFails, Out
<1> QED  BY <1>1, <1>2, <1>3 DEF NeuralInv

LEMMA NeuralInductive == ASSUME NeuralInv, [NeuralNext]_neuralVars PROVE NeuralInv'
<1>1. CASE UNCHANGED neuralVars
  BY <1>1, NeuralUnchanged
<1>2. ASSUME NEW c \in Caller, AskModel(c) PROVE NeuralInv'
  BY <1>2, WaitingKeeps DEF Everyone
<1> QED
  BY <1>1, <1>2, OutsideKeeps, MainKeeps, WaitingKeeps, SendKeeps, ReadKeeps, CloseKeeps DEF NeuralNext

\* Whatever times out, is cancelled or is closed halfway: nobody gets the
\* answer to another's request, and after a verified cleanup there is neither
\* a container nor a pipe to one.
THEOREM NothingIsLeftOver == NeuralSpec => []NothingLeftOver
<1>1. NeuralInit => NeuralInv
  BY NeuralInitial
<1>2. NeuralInv /\ [NeuralNext]_neuralVars => NeuralInv'
  BY NeuralInductive
<1>3. NeuralInv => NothingLeftOver
  BY NeuralSound
<1> QED  BY <1>1, <1>2, <1>3, PTL DEF NeuralSpec

-----------------------------------------------------------------------------
(* The sandbox.                                                              *)

\* The requests that have a slot.
HoldsSlot(op) == spc[op] \notin {"out", "gone"}
SlotHolders == {op \in Op : HoldsSlot(op)}

SandboxTypes ==
  /\ spc \in [Op -> {"out", "reads", "answer", "gone"} \cup EngineCalls \cup Cleaning]
  /\ refs \in [Op -> SUBSET Kind]
  /\ objs \subseteq Op \X Kind
  /\ running \subseteq objs /\ running \subseteq Op \X {"loader", "runner"}
  /\ late \subseteq Op \X Kind /\ tardy \subseteq Op \X Kind

\* Cleanup is through with a kind of object.
Cleaned(op, kind) ==
  \/ spc[op] \in {"answer", "gone"}
  \/ kind = "loader" /\ spc[op] \in {"clean_runner", "clean_volume"}
  \/ kind = "runner" /\ spc[op] = "clean_volume"

\* What exists is known to the execution that is to remove it, or logged.
ObjectKnown(op, kind) ==
  <<op, kind>> \in objs \ tardy =>
    IF Cleaned(op, kind) THEN <<op, kind>> \in logged ELSE ToRemove(op, kind)

\* An execution has nothing before it creates it, and a container before it
\* starts it.
BeforeLoader == {"out", "reads", "create_volume", "check_volume", "create_loader"}
BeforeRunner == BeforeLoader \cup {"check_loader", "start_loader", "upload", "unload", "create_runner"}

HasObjects(op) ==
  /\ spc[op] \in {"out", "reads"} => <<op, "volume">> \notin objs
  /\ spc[op] \in BeforeLoader => <<op, "loader">> \notin objs
  /\ spc[op] \in BeforeRunner => <<op, "runner">> \notin objs
  /\ spc[op] \in {"check_loader", "start_loader"} => <<op, "loader">> \in objs
  /\ spc[op] \in {"check_runner", "start_runner"} => <<op, "runner">> \in objs

\* What is created late was given up, and is never started.
LateIsGivenUp(op) ==
  \A kind \in Kind : <<op, kind>> \in late \cup tardy =>
    /\ spc[op] \in Cleaning \cup {"answer", "gone"}
    /\ <<op, kind>> \notin running
    /\ \A other \in Kind : <<op, other>> \in late \cup tardy => other = kind

SlotsCounted == active = Cardinality(SlotHolders) /\ active <= MaxConcurrent

SandboxInv ==
  /\ SandboxTypes /\ SlotsCounted
  /\ \A op \in Op : HasObjects(op) /\ LateIsGivenUp(op) /\ \A kind \in Kind : ObjectKnown(op, kind)

LEMMA EngineTables ==
  /\ DOMAIN Creates = {"create_volume", "create_loader", "create_runner"}
  /\ Creates["create_volume"] = "volume" /\ Creates["create_loader"] = "loader" /\ Creates["create_runner"] = "runner"
  /\ DOMAIN Starts = {"start_loader", "start_runner"}
  /\ Starts["start_loader"] = "loader" /\ Starts["start_runner"] = "runner"
  BY DEF Creates, Starts

LEMMA AfterTable ==
  /\ DOMAIN After = {"create_volume", "check_volume", "create_loader", "check_loader", "start_loader", "upload",
                     "unload", "create_runner", "check_runner", "start_runner", "kill"}
  /\ After["create_volume"] = "check_volume" /\ After["check_volume"] = "create_loader"
  /\ After["create_loader"] = "check_loader" /\ After["check_loader"] = "start_loader"
  /\ After["start_loader"] = "upload" /\ After["upload"] = "unload" /\ After["unload"] = "create_runner"
  /\ After["create_runner"] = "check_runner" /\ After["check_runner"] = "start_runner"
  /\ After["start_runner"] = "wait" /\ After["kill"] = "logs"
  BY DEF After

LEMMA CleaningTables ==
  /\ Target["clean_loader"] = "loader" /\ Target["clean_runner"] = "runner" /\ Target["clean_volume"] = "volume"
  /\ Following["clean_loader"] = "clean_runner" /\ Following["clean_runner"] = "clean_volume"
  /\ Following["clean_volume"] = "answer"
  BY DEF Target, Following

LEMMA SandboxInitial == ASSUME SandboxInit PROVE SandboxInv
<1>1. SlotHolders = {}
  BY DEF SandboxInit, SlotHolders, HoldsSlot
<1>2. SlotsCounted
  BY <1>1, FS_EmptySet, SandboxAssumption DEF SandboxInit, SlotsCounted
<1> QED
  BY <1>2 DEF SandboxInit, SandboxInv, SandboxTypes, HasObjects, LateIsGivenUp, ObjectKnown

LEMMA HoldersFinite == IsFiniteSet(SlotHolders) /\ IsFiniteSet(SlotHolders')
<1>1. SlotHolders \subseteq Op /\ SlotHolders' \subseteq Op
  BY DEF SlotHolders
<1> QED  BY <1>1, FS_Subset, SandboxAssumption

LEMMA SameHolders ==
  ASSUME SlotsCounted, active' = active, \A op \in Op : HoldsSlot(op)' <=> HoldsSlot(op)
  PROVE  SlotsCounted'
<1>1. SlotHolders' = SlotHolders
  BY DEF SlotHolders
<1> QED  BY <1>1 DEF SlotsCounted

\* A request that comes or goes, and a caller that leaves.
LEMMA BoundaryKeeps ==
  ASSUME SandboxInv, NEW op \in Op,
         TakesSlot(op) \/ Busy(op) \/ BodyRead(op) \/ CallerLeaves(op) \/ Answers(op)
  PROVE  SandboxInv'
<1> USE DEF SandboxInv, SandboxTypes, engine
<1>1. SlotsCounted'
  <2>1. CASE TakesSlot(op)
    <3>1. SlotHolders' = SlotHolders \cup {op} /\ op \notin SlotHolders
      BY <2>1 DEF TakesSlot, SlotHolders, HoldsSlot
    <3>2. Cardinality(SlotHolders') = Cardinality(SlotHolders) + 1
      BY <3>1, HoldersFinite, FS_AddElement
    <3>3. Cardinality(SlotHolders) \in Nat
      BY HoldersFinite, FS_CardinalityType
    <3> QED  BY <2>1, <3>2, <3>3, SandboxAssumption DEF TakesSlot, SlotsCounted
  <2>2. CASE Answers(op)
    <3>1. SlotHolders' = SlotHolders \ {op} /\ op \in SlotHolders
      BY <2>2 DEF Answers, Joined, SlotHolders, HoldsSlot
    <3>2. Cardinality(SlotHolders') = Cardinality(SlotHolders) - 1
      BY <3>1, HoldersFinite, FS_RemoveElement
    <3>3. Cardinality(SlotHolders) \in Nat
      BY HoldersFinite, FS_CardinalityType
    <3> QED  BY <2>2, <3>2, <3>3, SandboxAssumption DEF Answers, SlotsCounted
  <2>3. CASE Busy(op) \/ BodyRead(op) \/ CallerLeaves(op)
    BY <2>3, SameHolders DEF Busy, BodyRead, CallerLeaves, HoldsSlot
  <2> QED  BY <2>1, <2>2, <2>3
<1>2. SandboxTypes'
  BY DEF TakesSlot, Busy, BodyRead, CallerLeaves, Answers, EngineCalls
<1>3. ASSUME NEW o \in Op
      PROVE  HasObjects(o)' /\ LateIsGivenUp(o)' /\ \A kind \in Kind : ObjectKnown(o, kind)'
  BY <1>3 DEF TakesSlot, Busy, BodyRead, CallerLeaves, Answers, Joined, HasObjects, BeforeLoader, BeforeRunner, Kind, LateIsGivenUp, ObjectKnown,
              Cleaned, ToRemove, Cleaning, EngineCalls
<1> QED  BY <1>1, <1>2, <1>3

\* What a call of the engine does, for the request itself and for the others.
LEMMA EffectOf ==
  ASSUME SandboxInv, NEW op \in Op, NEW cmd \in EngineCalls, Effect(op, cmd)
  PROVE  /\ objs' \subseteq Op \X Kind
         /\ (cmd = "start_loader" => <<op, "loader">> \in objs)
              /\ (cmd = "start_runner" => <<op, "runner">> \in objs) => running' \subseteq objs'
         /\ running' \subseteq Op \X {"loader", "runner"}
         /\ \A o \in Op \ {op}, kind \in Kind :
              /\ <<o, kind>> \in objs' <=> <<o, kind>> \in objs
              /\ <<o, kind>> \in running' <=> <<o, kind>> \in running
         /\ \A kind \in Kind :
              /\ <<op, kind>> \in objs' =>
                   \/ <<op, kind>> \in objs /\ ~(cmd = "unload" /\ kind = "loader")
                   \/ cmd \in DOMAIN Creates /\ kind = Creates[cmd]
              /\ <<op, kind>> \in objs /\ cmd # "unload" => <<op, kind>> \in objs'
              /\ cmd \in DOMAIN Creates => <<op, Creates[cmd]>> \in objs'
              /\ <<op, kind>> \in running' =>
                   \/ <<op, kind>> \in running
                   \/ cmd \in DOMAIN Starts /\ kind = Starts[cmd]
<1> USE EngineTables DEF SandboxInv, SandboxTypes, Effect
<1>1. objs' \subseteq Op \X Kind
  BY DEF Kind
<1>2. /\ (cmd = "start_loader" => <<op, "loader">> \in objs)
              /\ (cmd = "start_runner" => <<op, "runner">> \in objs) => running' \subseteq objs'
      /\ running' \subseteq Op \X {"loader", "runner"}
  BY DEF Kind
<1>3. ASSUME NEW o \in Op \ {op}, NEW kind \in Kind
      PROVE  /\ <<o, kind>> \in objs' <=> <<o, kind>> \in objs
             /\ <<o, kind>> \in running' <=> <<o, kind>> \in running
  BY <1>3
<1>4. ASSUME NEW kind \in Kind
      PROVE   /\ <<op, kind>> \in objs' =>
                   \/ <<op, kind>> \in objs /\ ~(cmd = "unload" /\ kind = "loader")
                   \/ cmd \in DOMAIN Creates /\ kind = Creates[cmd]
              /\ <<op, kind>> \in objs /\ cmd # "unload" => <<op, kind>> \in objs'
              /\ cmd \in DOMAIN Creates => <<op, Creates[cmd]>> \in objs'
              /\ <<op, kind>> \in running' =>
                   \/ <<op, kind>> \in running
                   \/ cmd \in DOMAIN Starts /\ kind = Starts[cmd]
  BY <1>4
<1> QED  BY <1>1, <1>2, <1>3, <1>4

LEMMA CallSucceedsKeeps == ASSUME SandboxInv, NEW op \in Op, CallSucceeds(op) PROVE SandboxInv'
<1> USE EngineTables, AfterTable DEF SandboxInv, SandboxTypes
<1>1. /\ spc[op] \in EngineCalls /\ spc[op] \in DOMAIN After /\ Effect(op, spc[op])
      /\ spc' = [spc EXCEPT ![op] = After[spc[op]]]
      /\ refs' = [refs EXCEPT ![op] = Known(op, spc[op])]
      /\ UNCHANGED <<late, tardy, active, logged>>
  BY DEF CallSucceeds, Executes
<1>2. /\ objs' \subseteq Op \X Kind /\ running' \subseteq objs' /\ running' \subseteq Op \X {"loader", "runner"}
      /\ \A o \in Op \ {op}, kind \in Kind :
              /\ <<o, kind>> \in objs' <=> <<o, kind>> \in objs
              /\ <<o, kind>> \in running' <=> <<o, kind>> \in running
  BY <1>1, EffectOf DEF HasObjects
<1>3. /\ After[spc[op]] \in EngineCalls
      /\ Known(op, spc[op]) \subseteq Kind
  BY <1>1 DEF EngineCalls, Known, Kind
<1>4. SandboxTypes'
  BY <1>1, <1>2, <1>3
<1>5. SlotsCounted'
  BY <1>1, <1>3, SameHolders DEF HoldsSlot, EngineCalls
<1>6. ASSUME NEW o \in Op \ {op}
      PROVE  HasObjects(o)' /\ LateIsGivenUp(o)' /\ \A kind \in Kind : ObjectKnown(o, kind)'
  BY <1>1, <1>2, <1>6 DEF HasObjects, BeforeLoader, BeforeRunner, LateIsGivenUp, ObjectKnown, Cleaned, ToRemove, Kind
<1>7. HasObjects(op)'
  <2> DEFINE cmd == spc[op]
  <2>a. spc'[op] = After[cmd] /\ cmd \in EngineCalls /\ cmd \in DOMAIN After
    BY <1>1
  <2>b. \A kind \in Kind :
              /\ <<op, kind>> \in objs' =>
                   \/ <<op, kind>> \in objs /\ ~(cmd = "unload" /\ kind = "loader")
                   \/ cmd \in DOMAIN Creates /\ kind = Creates[cmd]
              /\ <<op, kind>> \in objs /\ cmd # "unload" => <<op, kind>> \in objs'
              /\ cmd \in DOMAIN Creates => <<op, Creates[cmd]>> \in objs'
    BY <1>1, EffectOf
  <2>c. "loader" \in Kind /\ "runner" \in Kind
    BY DEF Kind
  <2>1. /\ spc'[op] = After[cmd] /\ cmd \in EngineCalls /\ cmd \in DOMAIN After
        /\ <<op, "loader">> \in objs' =>
             \/ <<op, "loader">> \in objs /\ cmd # "unload"
             \/ cmd = "create_loader"
        /\ <<op, "runner">> \in objs' => <<op, "runner">> \in objs \/ cmd = "create_runner"
        /\ cmd # "unload" /\ <<op, "loader">> \in objs => <<op, "loader">> \in objs'
        /\ cmd # "unload" /\ <<op, "runner">> \in objs => <<op, "runner">> \in objs'
        /\ cmd = "create_loader" => <<op, "loader">> \in objs'
        /\ cmd = "create_runner" => <<op, "runner">> \in objs'
    BY <2>a, <2>b, <2>c
  <2>2. PICK c \in EngineCalls : c = cmd
    BY <2>1
  <2> HIDE DEF cmd
  <2>3. HasObjects(op) /\ cmd = spc[op]
    BY DEF cmd
  <2> QED  BY <2>1, <2>2, <2>3 DEF HasObjects, BeforeLoader, BeforeRunner, EngineCalls
<1>8. LateIsGivenUp(op)'
  BY <1>1 DEF LateIsGivenUp, EngineCalls, Cleaning
<1>9. ASSUME NEW kind \in Kind PROVE ObjectKnown(op, kind)'
  <2>1. ~Cleaned(op, kind) /\ ~Cleaned(op, kind)'
    BY <1>1, <1>3 DEF Cleaned, EngineCalls
  <2>2. CASE <<op, kind>> \in objs /\ ~(spc[op] = "unload" /\ kind = "loader")
    <3>1. <<op, kind>> \notin tardy
      BY <1>1 DEF LateIsGivenUp, EngineCalls, Cleaning
    <3>2. ToRemove(op, kind)
      BY <2>1, <2>2, <3>1 DEF ObjectKnown
    <3>3. kind \in refs[op] => kind \in Known(op, spc[op])
      BY <2>2 DEF Known
    <3> QED  BY <1>1, <2>1, <3>2, <3>3 DEF ObjectKnown, ToRemove
  <2>3. CASE spc[op] \in DOMAIN Creates /\ kind = Creates[spc[op]]
    BY <1>1, <2>1, <2>3 DEF ObjectKnown, ToRemove, Known
  <2>4. CASE <<op, kind>> \notin objs'
    BY <2>4 DEF ObjectKnown
  <2> QED  BY <1>1, <2>2, <2>3, <2>4, EffectOf
<1> QED  BY <1>4, <1>5, <1>6, <1>7, <1>8, <1>9

LEMMA CallFailsKeeps == ASSUME SandboxInv, NEW op \in Op, CallFails(op) PROVE SandboxInv'
<1> USE EngineTables DEF SandboxInv, SandboxTypes
<1>1. /\ spc[op] \in EngineCalls
      /\ spc' = [spc EXCEPT ![op] = "clean_loader"]
      /\ refs' = [refs EXCEPT ![op] = IF spc[op] = "unload" THEN @ ELSE Known(op, spc[op])]
      /\ UNCHANGED <<tardy, active, logged>>
      /\ \/ Effect(op, spc[op]) /\ late' = late
         \/ UNCHANGED <<objs, running, late>>
         \/ /\ spc[op] \in DOMAIN Creates /\ late' = late \cup {<<op, Creates[spc[op]]>>}
            /\ UNCHANGED <<objs, running>>
  BY DEF CallFails, engine
<1>2. /\ objs' \subseteq Op \X Kind /\ running' \subseteq objs' /\ running' \subseteq Op \X {"loader", "runner"}
      /\ \A o \in Op \ {op}, kind \in Kind :
              /\ <<o, kind>> \in objs' <=> <<o, kind>> \in objs
              /\ <<o, kind>> \in running' <=> <<o, kind>> \in running
              /\ <<o, kind>> \in late' <=> <<o, kind>> \in late
  BY <1>1, EffectOf DEF HasObjects
<1>3. /\ refs' = [refs EXCEPT ![op] = refs'[op]]
      /\ refs'[op] \subseteq Kind /\ refs[op] \subseteq refs'[op]
      /\ spc[op] \in DOMAIN Creates =>
           Creates[spc[op]] = "volume" \/ Creates[spc[op]] \in refs'[op]
  BY <1>1 DEF Known, Kind
<1>4. SandboxTypes'
  <2>1. late' \subseteq Op \X Kind
    BY <1>1 DEF Kind
  <2> QED  BY <1>1, <1>2, <1>3, <2>1 DEF Cleaning
<1>5. SlotsCounted'
  BY <1>1, SameHolders DEF HoldsSlot, EngineCalls
<1>6. ASSUME NEW o \in Op \ {op}
      PROVE  HasObjects(o)' /\ LateIsGivenUp(o)' /\ \A kind \in Kind : ObjectKnown(o, kind)'
  BY <1>1, <1>2, <1>6 DEF HasObjects, BeforeLoader, BeforeRunner, LateIsGivenUp, ObjectKnown, Cleaned, ToRemove, Kind
<1>7. HasObjects(op)'
  BY <1>1 DEF HasObjects, BeforeLoader, BeforeRunner
<1>8. \A kind \in Kind : <<op, kind>> \notin late /\ <<op, kind>> \notin tardy
  BY <1>1 DEF LateIsGivenUp, EngineCalls, Cleaning
<1>9. LateIsGivenUp(op)'
  <2>1. CASE late' = late
    BY <1>1, <1>8, <2>1 DEF LateIsGivenUp
  <2>2. CASE spc[op] \in DOMAIN Creates /\ late' = late \cup {<<op, Creates[spc[op]]>>} /\ UNCHANGED <<objs, running>>
    <3>1. <<op, Creates[spc[op]]>> \notin running
      BY <2>2 DEF HasObjects, BeforeLoader, BeforeRunner
    <3> QED  BY <1>1, <1>8, <2>2, <3>1 DEF LateIsGivenUp, Cleaning
  <2> QED  BY <1>1, <2>1, <2>2
<1>10. ASSUME NEW kind \in Kind PROVE ObjectKnown(op, kind)'
  <2>1. ~Cleaned(op, kind) /\ ~Cleaned(op, kind)'
    BY <1>1 DEF Cleaned, EngineCalls
  <2>2. CASE <<op, kind>> \in objs
    <3>1. ToRemove(op, kind)
      BY <1>8, <2>1, <2>2 DEF ObjectKnown
    <3> QED  BY <1>3, <2>1, <3>1 DEF ObjectKnown, ToRemove
  <2>3. CASE spc[op] \in DOMAIN Creates /\ kind = Creates[spc[op]]
    BY <1>3, <2>1, <2>3 DEF ObjectKnown, ToRemove
  <2>4. CASE <<op, kind>> \notin objs'
    BY <2>4 DEF ObjectKnown
  <2> QED  BY <1>1, <2>2, <2>3, <2>4, EffectOf
<1> QED  BY <1>4, <1>5, <1>6, <1>7, <1>9, <1>10

\* The runner runs, the execution waits for it and collects what it left.
LEMMA RunKeeps ==
  ASSUME SandboxInv, NEW op \in Op,
         RunnerExits(op) \/ WaitReturns(op) \/ WaitTimesOut(op) \/ LogsRead(op) \/ ArtifactsCollected(op)
  PROVE  SandboxInv'
<1> USE DEF SandboxInv, SandboxTypes, engine, Executes, MayTimeOut
<1>1. /\ UNCHANGED <<active, refs, objs, late, tardy, logged>> /\ running' \subseteq running
      /\ \/ UNCHANGED spc
         \/ /\ spc[op] \in {"wait", "logs", "artifacts"}
            /\ \E next \in {"kill", "logs", "artifacts", "clean_loader"} : spc' = [spc EXCEPT ![op] = next]
  BY DEF RunnerExits, WaitReturns, WaitTimesOut, LogsRead, ArtifactsCollected
<1>2. SandboxTypes'
  BY <1>1 DEF EngineCalls, Cleaning
<1>3. SlotsCounted'
  BY <1>1, SameHolders DEF HoldsSlot
<1>4. ASSUME NEW o \in Op
      PROVE  HasObjects(o)' /\ LateIsGivenUp(o)' /\ \A kind \in Kind : ObjectKnown(o, kind)'
  BY <1>1, <1>4 DEF HasObjects, BeforeLoader, BeforeRunner, LateIsGivenUp, ObjectKnown, Cleaned, ToRemove, Cleaning
<1> QED  BY <1>2, <1>3, <1>4

\* Cleanup goes on to the next object: this one is gone, or logged.
LEMMA CleansKeeps == ASSUME SandboxInv, NEW op \in Op, Cleans(op) PROVE SandboxInv'
<1> USE CleaningTables DEF SandboxInv, SandboxTypes
<1> DEFINE kind == Target[spc[op]]
<1>1. /\ spc[op] \in Cleaning /\ spc' = [spc EXCEPT ![op] = Following[spc[op]]]
      /\ UNCHANGED <<active, refs, late, tardy>>
  BY DEF Cleans, CleansNothing, Removes, RemovalFails, engine
<1>2. /\ logged \subseteq logged' /\ objs' \subseteq objs /\ running' \subseteq running /\ running' \subseteq objs'
      /\ \/ <<op, kind>> \notin objs' \/ <<op, kind>> \in logged'
         \/ ~ToRemove(op, kind) /\ UNCHANGED <<objs, running, logged>>
  <2>1. CASE CleansNothing(op)  BY <2>1 DEF CleansNothing, engine
  <2>2. CASE Removes(op)        BY <2>2 DEF Removes
  <2>3. CASE RemovalFails(op)
    <3>1. /\ logged' = logged \cup {<<op, kind>>}
          /\ objs' = objs \/ objs' = objs \ {<<op, kind>>}
          /\ running' = IF <<op, kind>> \in objs' THEN running ELSE running \ {<<op, kind>>}
      BY <2>3 DEF RemovalFails
    <3> QED  BY <3>1
  <2> QED  BY <2>1, <2>2, <2>3 DEF Cleans
<1>3. SandboxTypes'
  BY <1>1, <1>2 DEF Cleaning
<1>4. SlotsCounted'
  BY <1>1, SameHolders DEF HoldsSlot, Cleaning
<1>5. ASSUME NEW o \in Op PROVE HasObjects(o)' /\ LateIsGivenUp(o)'
  <2>1. spc'[op] \in {"clean_runner", "clean_volume", "answer"}
    BY <1>1 DEF Cleaning
  <2>2. o # op => spc'[o] = spc[o]
    BY <1>1
  <2>3. CASE o # op
    <3>1. spc'[o] = spc[o] /\ HasObjects(o) /\ LateIsGivenUp(o)
      BY <2>2, <2>3
    <3>2. HasObjects(o)'
      <4>1. ASSUME NEW k \in Kind PROVE <<o, k>> \in objs' <=> <<o, k>> \in objs
        BY <2>3 DEF Cleans, CleansNothing, Removes, RemovalFails, engine
      <4> QED  BY <3>1, <4>1 DEF HasObjects, BeforeLoader, BeforeRunner, Kind
    <3>3. LateIsGivenUp(o)'
      BY <1>1, <1>2, <3>1 DEF LateIsGivenUp
    <3> QED  BY <3>2, <3>3
  <2>4. CASE o = op
    BY <1>1, <1>2, <2>1, <2>4 DEF HasObjects, BeforeLoader, BeforeRunner, LateIsGivenUp, Cleaning
  <2> QED  BY <2>3, <2>4
<1>6. ASSUME NEW o \in Op \ {op}, NEW k \in Kind PROVE ObjectKnown(o, k)'
  BY <1>1, <1>2, <1>6 DEF ObjectKnown, Cleaned, ToRemove
<1>7. ASSUME NEW k \in Kind PROVE ObjectKnown(op, k)'
  <2>1. CASE k = kind
    <3>1. ~Cleaned(op, k)
      BY <1>1, <2>1 DEF Cleaned, Cleaning
    <3>2. <<op, k>> \in objs' \ tardy' => <<op, k>> \in logged'
      BY <1>1, <1>2, <2>1, <3>1 DEF ObjectKnown
    <3>3. Cleaned(op, k)'
      BY <1>1, <2>1 DEF Cleaned, Cleaning
    <3> QED  BY <3>2, <3>3 DEF ObjectKnown
  <2>2. CASE k # kind
    <3>1. Cleaned(op, k)' <=> Cleaned(op, k)
      BY <1>1, <2>2 DEF Cleaned, Cleaning, Kind
    <3> QED  BY <1>1, <1>2, <3>1 DEF ObjectKnown, ToRemove
  <2> QED  BY <2>1, <2>2
<1> QED  BY <1>3, <1>4, <1>5, <1>6, <1>7

LEMMA LateKeeps == ASSUME SandboxInv, EngineIsLate PROVE SandboxInv'
<1> USE DEF SandboxInv, SandboxTypes, EngineIsLate
<1>1. SandboxTypes' /\ UNCHANGED <<spc, active, refs, running, logged>>
  OBVIOUS
<1>2. SlotsCounted'
  BY <1>1, SameHolders DEF HoldsSlot
<1>3. ASSUME NEW o \in Op
      PROVE  HasObjects(o)' /\ LateIsGivenUp(o)' /\ \A kind \in Kind : ObjectKnown(o, kind)'
  BY <1>1, <1>3 DEF HasObjects, BeforeLoader, BeforeRunner, LateIsGivenUp, ObjectKnown, Cleaned, ToRemove, Cleaning, Kind
<1> QED  BY <1>1, <1>2, <1>3

LEMMA SandboxInductive == ASSUME SandboxInv, [SandboxNext]_sandboxVars PROVE SandboxInv'
<1>1. CASE UNCHANGED sandboxVars
  <2>1. SlotsCounted'
    BY <1>1, SameHolders DEF SandboxInv, sandboxVars, HoldsSlot
  <2> QED
    BY <1>1, <2>1 DEF SandboxInv, SandboxTypes, sandboxVars, HasObjects, BeforeLoader, BeforeRunner, LateIsGivenUp,
                      ObjectKnown, Cleaned, ToRemove
<1> QED
  BY <1>1, BoundaryKeeps, CallSucceedsKeeps, CallFailsKeeps, RunKeeps, CleansKeeps, LateKeeps
     DEF SandboxNext, Works

LEMMA NothingUnaccounted == ASSUME SandboxInv PROVE EngineIsAccounted
<1> USE DEF SandboxInv, SandboxTypes
<1>1. ASSUME NEW object \in objs \ tardy, spc[object[1]] = "gone" PROVE object \in logged
  <2>1. PICK op \in Op, kind \in Kind : object = <<op, kind>>
    BY <1>1
  <2> QED  BY <1>1, <2>1 DEF ObjectKnown, Cleaned
<1>2. ASSUME NEW object \in running, spc[object[1]] \in {"out", "gone"} PROVE object \in logged
  <2>1. PICK op \in Op, kind \in Kind : object = <<op, kind>>
    BY <1>2
  <2>2. object \in objs \ tardy
    BY <1>2, <2>1 DEF LateIsGivenUp
  <2>3. spc[op] = "gone"
    BY <1>2, <2>1, <2>2 DEF HasObjects, BeforeLoader, BeforeRunner, Kind
  <2> QED  BY <1>1, <2>1, <2>2, <2>3
<1>3. {op \in Op : spc[op] \notin {"out", "gone"}} = SlotHolders
  BY DEF SlotHolders, HoldsSlot
<1>4. ASSUME NEW object \in tardy
      PROVE  object \notin running /\ \A other \in tardy : other[1] = object[1] => other = object
  <2>1. PICK op \in Op, kind \in Kind : object = <<op, kind>>
    BY <1>4
  <2>2. /\ <<op, kind>> \notin running
        /\ \A k \in Kind : <<op, k>> \in tardy => k = kind
    BY <1>4, <2>1 DEF LateIsGivenUp
  <2>3. ASSUME NEW other \in tardy, other[1] = op PROVE other = object
    <3>1. PICK o \in Op, k \in Kind : other = <<o, k>>
      BY <2>3
    <3> QED  BY <2>1, <2>2, <2>3, <3>1
  <2> QED  BY <2>1, <2>2, <2>3
<1> QED  BY <1>1, <1>2, <1>3, <1>4 DEF EngineIsAccounted, SlotsCounted

\* For every number of requests and slots, while the manager lives, whatever call of
\* the engine fails before or after its effect and whichever callers leave: what is
\* left of a request is logged, except for one creation at most that was carried out
\* after its client gave up and never runs; and what runs without a log entry has a
\* slot (coding/sandbox.py, sandbox/manager.py).
THEOREM LeftoversAreLogged == SandboxSpec => []EngineIsAccounted
<1>1. SandboxSpec => []SandboxInv
  BY SandboxInitial, SandboxInductive, PTL DEF SandboxSpec
<1> QED  BY <1>1, NothingUnaccounted, PTL

-----------------------------------------------------------------------------
(* Admission.                                                                *)

\* A slot outlives whatever its request may still wait for: the answer to its
\* admission, the next answer to its keeper, and the handler it has to stop.
SlotOutlives(r) ==
  /\ apc[r] = "ask" =>
       /\ due[r] <= ControlWait
       /\ answer[r] = "yes" => slot[r] + ControlWait >= SlotLease + due[r]
  /\ keeper[r] = "sleep" =>
       wake[r] <= Sleep /\ slot[r] >= wake[r] + RenewWait + StopWait + 1
  /\ keeper[r] = "renew" =>
       /\ wake[r] <= RenewWait /\ slot[r] >= wake[r] + StopWait + 1
       /\ renewal[r] = "yes" => slot[r] + RenewWait >= wake[r] + SlotLease
  /\ apc[r] = "run" => slot[r] >= StopWait + 1
  /\ apc[r] = "stop" => slot[r] >= due[r] + 1

\* Nothing is answered before it is asked.
Unasked(r) == apc[r] = "new" => answer[r] = "none" /\ <<"acquire", r>> \notin wire

\* Who was admitted has a keeper; what was dispatched, or told, is on record.
OnRecord(r) ==
  /\ apc[r] \in {"admit", "body", "run", "stop"} => keeper[r] # "off"
  /\ apc[r] \in {"body", "run", "stop", "seal"} => "admitted" \in audit[r]
  /\ r \in Critical /\ told[r] = "result" => audit[r] = {"admitted", "completed"}

SlotsBounded == Cardinality(LiveSlots) <= Concurrent

AdmissionInv ==
  /\ AdmissionTypeOK /\ SlotsBounded
  /\ \A r \in Request : SlotOutlives(r) /\ Unasked(r) /\ OnRecord(r)

LEMMA LiveFinite ==
  /\ IsFiniteSet(LiveSlots) /\ IsFiniteSet(LiveSlots')
  /\ Cardinality(LiveSlots) \in Nat /\ Cardinality(LiveSlots') \in Nat
<1>1. LiveSlots \subseteq Request /\ LiveSlots' \subseteq Request
  BY DEF LiveSlots
<1> QED  BY <1>1, FS_Subset, FS_CardinalityType, AdmissionAssumption

LEMMA AdmissionInitial == ASSUME AdmissionInit PROVE AdmissionInv
<1> USE AdmissionAssumption DEF AdmissionInit
<1>1. AdmissionTypeOK
  BY DEF AdmissionTypeOK, PC
<1>2. LiveSlots = {}
  BY DEF LiveSlots
<1>3. SlotsBounded
  BY <1>2, FS_EmptySet DEF SlotsBounded
<1> QED  BY <1>1, <1>3 DEF AdmissionInv, SlotOutlives, Unasked, OnRecord

\* No slot is taken, and some may be given back.
LEMMA FewerSlots ==
  ASSUME SlotsBounded, AdmissionTypeOK, AdmissionTypeOK', \A r \in Request : slot'[r] > 0 => slot[r] > 0
  PROVE  SlotsBounded'
<1>1. LiveSlots' \subseteq LiveSlots
  BY DEF LiveSlots
<1>2. Cardinality(LiveSlots') <= Cardinality(LiveSlots)
  BY <1>1, LiveFinite, FS_Subset
<1> QED  BY <1>2, LiveFinite, AdmissionAssumption DEF SlotsBounded

LEMMA RedisKeeps ==
  ASSUME AdmissionInv, NEW r \in Request, RedisAcquire(r) \/ RedisRenew(r) PROVE AdmissionInv'
<1> USE AdmissionAssumption DEF AdmissionInv, waiting, keeping, redis
<1>1. AdmissionTypeOK'
  BY DEF AdmissionTypeOK, RedisAcquire, RedisRenew
<1>2. SlotsBounded'
  <2>1. CASE RedisAcquire(r) /\ BelowLimits
    <3>1. LiveSlots' = LiveSlots \cup {r}
      BY <2>1 DEF RedisAcquire, LiveSlots, AdmissionTypeOK
    <3>2. Cardinality(LiveSlots') <= Cardinality(LiveSlots) + 1
      BY <3>1, LiveFinite, FS_AddElement
    <3> QED  BY <2>1, <3>2, LiveFinite DEF BelowLimits, SlotsBounded
  <2>2. CASE RedisAcquire(r) /\ ~BelowLimits
    BY <1>1, <2>2, FewerSlots DEF RedisAcquire
  <2>3. CASE RedisRenew(r)
    BY <1>1, <2>3, FewerSlots DEF RedisRenew, LiveSlots, AdmissionTypeOK
  <2> QED  BY <2>1, <2>2, <2>3
<1>3. ASSUME NEW q \in Request PROVE SlotOutlives(q)' /\ Unasked(q)' /\ OnRecord(q)'
  <2>1. /\ UNCHANGED <<apc, due, keeper, wake, audit, told>> /\ wire' \subseteq wire
        /\ answer'[q] = answer[q] \/ <<"acquire", q>> \in wire
    BY DEF RedisAcquire, RedisRenew, AdmissionTypeOK
  <2>2. slot[q] \in 0 .. SlotLease /\ due[q] \in Nat /\ wake[q] \in Nat
    BY DEF AdmissionTypeOK
  <2>3. slot'[q] = slot[q] \/ slot'[q] = SlotLease
    BY DEF RedisAcquire, RedisRenew, AdmissionTypeOK
  <2>4. (answer'[q] = "yes" => answer[q] = "yes" \/ slot'[q] = SlotLease)
    BY DEF RedisAcquire, RedisRenew, AdmissionTypeOK
  <2>5. (renewal'[q] = "yes" => renewal[q] = "yes" \/ slot'[q] = SlotLease)
    BY DEF RedisAcquire, RedisRenew, AdmissionTypeOK
  <2> QED  BY <2>1, <2>2, <2>3, <2>4, <2>5 DEF SlotOutlives, Unasked, OnRecord
<1> QED  BY <1>1, <1>2, <1>3

\* The request moves on; its slot changes when it is given back.
LEMMA RequestKeeps ==
  ASSUME AdmissionInv, NEW r \in Request, AskSlot(r) \/ ApiDies(r) \/ RequestStep(r)
  PROVE  AdmissionInv'
<1> USE AdmissionAssumption DEF AdmissionInv, waiting, keeping, redis, RequestGoes
<1>1. AdmissionTypeOK'
  <2> USE DEF AdmissionTypeOK, PC
  <2>1. CASE AskSlot(r) \/ ApiDies(r) \/ Admitted(r) \/ Denied(r)
    BY <2>1 DEF AskSlot, ApiDies, Admitted, Denied
  <2>2. CASE AuditsAdmission(r)   BY <2>2 DEF AuditsAdmission
  <2>3. CASE BodyArrives(r) \/ BodyFails(r) \/ HandlerEnds(r) \/ HandlerFails(r) \/ StopHandler(r) \/ Stopped(r)
    BY <2>3 DEF BodyArrives, BodyFails, HandlerEnds, HandlerFails, StopHandler, Stopped
  <2>4. CASE Seals(r)             BY <2>4 DEF Seals
  <2>5. CASE CloseRequest(r)      BY <2>5 DEF CloseRequest, KeeperStops
  <2> QED  BY <2>1, <2>2, <2>3, <2>4, <2>5 DEF RequestStep
<1>2. /\ UNCHANGED slot \/ (apc'[r] = "over" /\ keeper'[r] = "off" /\ slot' = [slot EXCEPT ![r] = 0])
      /\ \A q \in Request \ {r} : /\ apc'[q] = apc[q] /\ due'[q] = due[q] /\ keeper'[q] = keeper[q]
                                  /\ wake'[q] = wake[q] /\ audit'[q] = audit[q] /\ told'[q] = told[q]
      /\ UNCHANGED <<answer, renewal>> /\ wire' \subseteq wire \cup {<<"acquire", r>>}
      /\ apc'[r] # "new"
  <2> USE DEF AdmissionTypeOK
  <2>1. CASE AskSlot(r) \/ ApiDies(r) \/ Admitted(r) \/ Denied(r)
    BY <2>1 DEF AskSlot, ApiDies, Admitted, Denied
  <2>2. CASE AuditsAdmission(r)   BY <2>2 DEF AuditsAdmission
  <2>3. CASE BodyArrives(r) \/ BodyFails(r) \/ HandlerEnds(r) \/ HandlerFails(r) \/ StopHandler(r) \/ Stopped(r)
    BY <2>3 DEF BodyArrives, BodyFails, HandlerEnds, HandlerFails, StopHandler, Stopped
  <2>4. CASE Seals(r)             BY <2>4 DEF Seals
  <2>5. CASE CloseRequest(r)      BY <2>5 DEF CloseRequest, KeeperStops
  <2> QED  BY <2>1, <2>2, <2>3, <2>4, <2>5 DEF RequestStep
<1>3. SlotsBounded'
  BY <1>1, <1>2, FewerSlots DEF AdmissionTypeOK
<1>4. ASSUME NEW q \in Request \ {r} PROVE SlotOutlives(q)' /\ Unasked(q)' /\ OnRecord(q)'
  BY <1>2, <1>4 DEF SlotOutlives, Unasked, OnRecord, AdmissionTypeOK
<1>5. SlotOutlives(r)' /\ Unasked(r)' /\ OnRecord(r)'
  <2>1. slot[r] \in 0 .. SlotLease /\ due[r] \in Nat /\ wake[r] \in Nat /\ audit[r] \subseteq {"admitted", "completed"}
    BY DEF AdmissionTypeOK
  <2>0. Unasked(r)'
    BY <1>2 DEF Unasked
  <2> USE <2>0, <2>1 DEF AdmissionTypeOK, SlotOutlives, OnRecord
  <2>2. CASE AskSlot(r)
    <3>1. /\ apc'[r] = "ask" /\ due'[r] = ControlWait /\ answer'[r] = "none"
          /\ UNCHANGED <<slot, keeper, wake, renewal, audit, told>>
      BY <2>2 DEF AskSlot, Unasked
    <3> QED  BY <3>1
  <2>3. CASE ApiDies(r)           BY <2>3 DEF ApiDies
  <2>4. CASE Admitted(r)
    <3>1. slot[r] >= Sleep + RenewWait + StopWait + 1
      BY <2>4 DEF Admitted
    <3> QED  BY <2>4, <3>1 DEF Admitted
  <2>5. CASE Denied(r)            BY <2>5 DEF Denied
  <2>6. CASE AuditsAdmission(r)   BY <2>6 DEF AuditsAdmission
  <2>7. CASE BodyArrives(r)       BY <2>7 DEF BodyArrives
  <2>8. CASE BodyFails(r)         BY <2>8 DEF BodyFails
  <2>9. CASE HandlerEnds(r)       BY <2>9 DEF HandlerEnds
  <2>10. CASE HandlerFails(r)     BY <2>10 DEF HandlerFails
  <2>11. CASE StopHandler(r)      BY <2>11 DEF StopHandler
  <2>12. CASE Stopped(r)          BY <2>12 DEF Stopped
  <2>13. CASE Seals(r)            BY <2>13 DEF Seals
  <2>14. CASE CloseRequest(r)     BY <2>14 DEF CloseRequest, KeeperStops
  <2> QED  BY <2>2, <2>3, <2>4, <2>5, <2>6, <2>7, <2>8, <2>9, <2>10, <2>11, <2>12, <2>13, <2>14 DEF RequestStep
<1> QED  BY <1>1, <1>3, <1>4, <1>5

LEMMA KeeperKeeps == ASSUME AdmissionInv, NEW r \in Request, KeeperStep(r) PROVE AdmissionInv'
<1> USE AdmissionAssumption DEF AdmissionInv, waiting, redis, KeeperStep, KeeperWakes, KeeperSleeps, KeeperLoses
<1>1. AdmissionTypeOK' /\ UNCHANGED slot
  BY DEF AdmissionTypeOK
<1>2. SlotsBounded'
  BY <1>1, FewerSlots
<1>3. ASSUME NEW q \in Request PROVE SlotOutlives(q)' /\ Unasked(q)' /\ OnRecord(q)'
  <2>1. slot[q] \in 0 .. SlotLease /\ due[q] \in Nat /\ wake[q] \in Nat
    BY DEF AdmissionTypeOK
  <2> QED  BY <1>1, <2>1 DEF SlotOutlives, Unasked, OnRecord, AdmissionTypeOK
<1> QED  BY <1>1, <1>2, <1>3

\* Time passes for everybody, and only when nobody has to act.
LEMMA TimeKeeps == ASSUME AdmissionInv, TimePasses PROVE AdmissionInv'
<1> USE AdmissionAssumption DEF AdmissionInv, TimePasses, Down
<1>1. AdmissionTypeOK'
  BY DEF AdmissionTypeOK
<1>2. SlotsBounded'
  BY <1>1, FewerSlots DEF AdmissionTypeOK
<1>3. ASSUME NEW q \in Request PROVE SlotOutlives(q)' /\ Unasked(q)' /\ OnRecord(q)'
  <2>1. slot[q] \in 0 .. SlotLease /\ due[q] \in Nat /\ wake[q] \in Nat
    BY DEF AdmissionTypeOK
  <2>2. /\ slot'[q] = IF slot[q] > 0 THEN slot[q] - 1 ELSE 0
        /\ due'[q] = IF due[q] > 0 THEN due[q] - 1 ELSE 0
        /\ wake'[q] = IF wake[q] > 0 THEN wake[q] - 1 ELSE 0
        /\ UNCHANGED <<apc, answer, keeper, renewal, audit, told>>
        /\ ~Urgent(q)
    OBVIOUS
  <2> QED  BY <2>1, <2>2 DEF SlotOutlives, Unasked, OnRecord, Urgent, AdmissionTypeOK
<1> QED  BY <1>1, <1>2, <1>3

LEMMA AdmissionInductive == ASSUME AdmissionInv, [AdmissionNext]_admissionVars PROVE AdmissionInv'
<1>1. CASE UNCHANGED admissionVars
  BY <1>1 DEF admissionVars, AdmissionInv, AdmissionTypeOK, SlotsBounded, LiveSlots, SlotOutlives, Unasked, OnRecord
<1>2. CASE CommandIsLost
  BY <1>2 DEF CommandIsLost, redis, waiting, keeping, AdmissionInv, AdmissionTypeOK, SlotsBounded, LiveSlots,
              SlotOutlives, Unasked, OnRecord
<1> QED  BY <1>1, <1>2, RedisKeeps, RequestKeeps, KeeperKeeps, TimeKeeps DEF AdmissionNext

LEMMA AdmittedAreFew == ASSUME AdmissionInv PROVE RunningIsBounded
<1> USE AdmissionAssumption DEF AdmissionInv
<1>1. \A r \in Running : slot[r] > 0
  BY DEF Running, SlotOutlives, AdmissionTypeOK
<1>2. Running \subseteq LiveSlots
  BY <1>1 DEF Running, LiveSlots
<1>3. Cardinality(Running) <= Concurrent
  <2>1. IsFiniteSet(Running) /\ Cardinality(Running) <= Cardinality(LiveSlots)
    BY <1>2, LiveFinite, FS_Subset
  <2> QED  BY <2>1, LiveFinite, FS_CardinalityType DEF SlotsBounded
<1> QED  BY <1>1, <1>3 DEF RunningIsBounded, OnRecord

\* For every number of requests, every limit and every lease that covers the
\* waits of a request: no more handlers run than the limit allows, in all API
\* processes together, and what was dispatched or told is on record.
THEOREM LimitsHold == AdmissionSpec => []RunningIsBounded
<1>1. AdmissionSpec => []AdmissionInv
  BY AdmissionInitial, AdmissionInductive, PTL DEF AdmissionSpec
<1> QED  BY <1>1, AdmittedAreFew, PTL

-----------------------------------------------------------------------------
(* The log of a task's events.                                               *)

LogTypes ==
  /\ sequence \in 1 .. MaxSequence /\ rows \in [1 .. MaxSequence -> Nat]
  /\ status \in Status /\ checkpoint \in Sequence /\ finalAt \in Sequence
  /\ txn \in [Writer -> Txn]

Settles(w) == txn[w].kind \in {"job", "decision"}

\* What changes the row holds the lock of the job; what has numbered events
\* holds that of the task, and nobody has published since.
LocksHeld(w) ==
  /\ Settles(w) /\ txn[w].at \in {"begun", "ready"} => jobLock = w
  /\ Settles(w) /\ txn[w].at = "ready" => status \in Live
  /\ txn[w].staged > 0 =>
       /\ txn[w].at = "ready" /\ taskLock = w
       /\ txn[w].base = sequence /\ sequence + txn[w].staged <= MaxSequence

DecisionCurrent(w) ==
  txn[w].kind = "decision" /\ txn[w].at = "ready" =>
    /\ taskLock = w
    /\ txn[w].expected = [status |-> status, checkpoint |-> checkpoint, sequence |-> sequence]

OneOfEach == \A n \in 1 .. MaxSequence : rows[n] = IF n <= sequence THEN 1 ELSE 0

EndNumbered == (finalAt # 0 <=> Over(status)) /\ finalAt <= sequence

LogInv ==
  /\ LogTypes /\ OneOfEach /\ EndNumbered
  /\ \A w \in Writer : LocksHeld(w) /\ DecisionCurrent(w)

committed == <<sequence, rows, status, checkpoint, finalAt>>

LEMMA IdleIs == Idle \in Txn /\ Idle.kind = "none" /\ Idle.at = "idle" /\ Idle.staged = 0
<1>1. Blank \in Observation
  BY BoundAssumption DEF Blank, Observation, Status, Live, Sequence
<1> QED  BY <1>1, BoundAssumption DEF Txn, Idle, Status, Live, Sequence

LEMMA LogInitial == ASSUME EventsInit PROVE LogInv
<1> USE WriterAssumption, BoundAssumption DEF EventsInit
<1>1. LogTypes
  BY DEF LogTypes, Status, Live, Sequence, Txn, Idle, Blank, Observation
<1>2. OneOfEach /\ EndNumbered
  BY DEF OneOfEach, EndNumbered, Over
<1> QED  BY <1>1, <1>2 DEF LogInv, LocksHeld, DecisionCurrent, Settles, Idle

\* A transaction that publishes nothing yet and takes no lock from another.
LEMMA QuietStep ==
  ASSUME LogInv, UNCHANGED committed, NEW w \in Writer, txn' \in [Writer -> Txn],
         \A x \in Writer \ {w} : /\ txn'[x] = txn[x]
                                 /\ jobLock = x => jobLock' = x
                                 /\ taskLock = x => taskLock' = x,
         LocksHeld(w)', DecisionCurrent(w)'
  PROVE  LogInv'
<1>1. LogTypes' /\ OneOfEach' /\ EndNumbered'
  BY DEF LogInv, LogTypes, OneOfEach, EndNumbered, committed
<1>2. ASSUME NEW x \in Writer \ {w} PROVE LocksHeld(x)' /\ DecisionCurrent(x)'
  BY <1>2 DEF LogInv, LocksHeld, DecisionCurrent, Settles, committed
<1> QED  BY <1>1, <1>2 DEF LogInv

LEMMA BegunIs ==
  ASSUME LogInv, NEW w \in Writer, NEW kind \in {"job", "event", "delete", "decision"}
  PROVE  /\ Begun(w, kind) \in [Writer -> Txn]
         /\ \A x \in Writer \ {w} : Begun(w, kind)[x] = txn[x]
         /\ Begun(w, kind)[w].kind = kind /\ Begun(w, kind)[w].at = "begun"
         /\ Begun(w, kind)[w].staged = txn[w].staged /\ Begun(w, kind)[w].expected = txn[w].expected
  BY DEF LogInv, LogTypes, Begun, Txn, Status, Sequence

LEMMA BeginKeeps ==
  ASSUME LogInv, NEW w \in Writer, BeginJob(w) \/ BeginEvent(w) \/ BeginDelete(w) \/ LockTask(w)
  PROVE  LogInv'
<1> USE DEF LogInv
<1>1. CASE BeginJob(w)
  <2>1. /\ txn' = [Begun(w, "job") EXCEPT ![w].at = "ready"]
        /\ jobLock' = w /\ jobLock \in {NoWriter, w} /\ taskLock' = taskLock
        /\ status \in Live /\ txn[w].at = "idle" /\ UNCHANGED committed
    BY <1>1 DEF BeginJob, Free, committed
  <2>2. txn'[w] = [Begun(w, "job")[w] EXCEPT !.at = "ready"] /\ Begun(w, "job")[w] \in Txn
    BY <2>1, BegunIs
  <2>3. txn'[w].kind = "job" /\ txn'[w].staged = txn[w].staged /\ txn'[w] \in Txn
    <3>1. PICK begun \in Txn : begun = Begun(w, "job")[w]
      BY <2>2
    <3>2. begun.kind = "job" /\ begun.staged = txn[w].staged /\ txn'[w] = [begun EXCEPT !.at = "ready"]
      BY <2>2, <3>1, BegunIs
    <3> QED  BY <3>2 DEF Txn
  <2>4. txn' \in [Writer -> Txn] /\ \A x \in Writer \ {w} : txn'[x] = txn[x]
    BY <2>1, <2>3, BegunIs
  <2>5. txn[w].staged = 0
    BY <2>1 DEF LocksHeld, LogTypes, Txn, Sequence
  <2>6. LocksHeld(w)' /\ DecisionCurrent(w)'
    BY <2>1, <2>3, <2>5 DEF LocksHeld, DecisionCurrent, Settles, committed
  <2> QED  BY <2>1, <2>4, <2>6, QuietStep, WriterAssumption
<1>2. CASE BeginEvent(w)
  <2>1. /\ txn' = [Begun(w, "event") EXCEPT ![w].at = "ready"]
        /\ UNCHANGED <<jobLock, taskLock>>
        /\ txn[w].at = "idle" /\ UNCHANGED committed
    BY <1>2 DEF BeginEvent, committed
  <2>2. txn'[w] = [Begun(w, "event")[w] EXCEPT !.at = "ready"] /\ Begun(w, "event")[w] \in Txn
    BY <2>1, BegunIs
  <2>3. txn'[w].kind = "event" /\ txn'[w].staged = txn[w].staged /\ txn'[w] \in Txn
    <3>1. PICK begun \in Txn : begun = Begun(w, "event")[w]
      BY <2>2
    <3>2. begun.kind = "event" /\ begun.staged = txn[w].staged /\ txn'[w] = [begun EXCEPT !.at = "ready"]
      BY <2>2, <3>1, BegunIs
    <3> QED  BY <3>2 DEF Txn
  <2>4. txn' \in [Writer -> Txn] /\ \A x \in Writer \ {w} : txn'[x] = txn[x]
    BY <2>1, <2>3, BegunIs
  <2>5. txn[w].staged = 0
    BY <2>1 DEF LocksHeld, LogTypes, Txn, Sequence
  <2>6. LocksHeld(w)' /\ DecisionCurrent(w)'
    BY <2>1, <2>3, <2>5 DEF LocksHeld, DecisionCurrent, Settles, committed
  <2> QED  BY <2>1, <2>4, <2>6, QuietStep, WriterAssumption
<1>3. CASE BeginDelete(w)
  <2>1. /\ txn' = Begun(w, "delete")
        /\ jobLock' = w /\ jobLock \in {NoWriter, w} /\ taskLock' = taskLock
        /\ txn[w].at = "idle" /\ UNCHANGED committed
    BY <1>3 DEF BeginDelete, Free, committed
  <2>2. txn[w].staged = 0
    BY <2>1 DEF LocksHeld, LogTypes, Txn, Sequence
  <2>3. LocksHeld(w)' /\ DecisionCurrent(w)'
    BY <2>1, <2>2, BegunIs DEF LocksHeld, DecisionCurrent, Settles, committed
  <2> QED  BY <2>1, <2>3, BegunIs, QuietStep, WriterAssumption
<1>4. CASE LockTask(w)
  <2>1. /\ txn' = [txn EXCEPT ![w].at = "ready"] /\ txn[w].kind = "delete" /\ txn[w].at = "begun"
        /\ taskLock' = w /\ taskLock \in {NoWriter, w} /\ jobLock' = jobLock
        /\ UNCHANGED committed
    BY <1>4 DEF LockTask, Free, committed
  <2>2. txn[w].staged = 0
    BY <2>1 DEF LocksHeld, LogTypes, Txn, Sequence
  <2>3. /\ txn' \in [Writer -> Txn] /\ \A x \in Writer \ {w} : txn'[x] = txn[x]
        /\ txn'[w].kind = "delete" /\ txn'[w].staged = 0
    BY <2>1, <2>2 DEF LogTypes, Txn
  <2>4. LocksHeld(w)' /\ DecisionCurrent(w)'
    BY <2>1, <2>3 DEF LocksHeld, DecisionCurrent, Settles, committed
  <2> QED  BY <2>1, <2>3, <2>4, QuietStep, WriterAssumption
<1> QED  BY <1>1, <1>2, <1>3, <1>4

\* A person looks, decides on what was shown, and the row is compared with it.
LEMMA DecideKeeps ==
  ASSUME LogInv, NEW w \in Writer, Look(w) \/ BeginDecision(w) \/ Expect(w)
  PROVE  LogInv'
<1> USE DEF LogInv
<1>1. CASE Look(w)
  <2>1. /\ txn' = [txn EXCEPT ![w] =
              [Idle EXCEPT !.kind = "decision", !.at = "looked",
                 !.expected = [status |-> status, checkpoint |-> checkpoint, sequence |-> sequence]]]
        /\ UNCHANGED <<jobLock, taskLock>> /\ UNCHANGED committed
    BY <1>1 DEF Look, committed
  <2>2. /\ txn'[w].at = "looked" /\ txn'[w].staged = 0
        /\ txn' \in [Writer -> Txn] /\ \A x \in Writer \ {w} : txn'[x] = txn[x]
    <3>0. [status |-> status, checkpoint |-> checkpoint, sequence |-> sequence] \in Observation
      BY BoundAssumption DEF LogTypes, Sequence, Observation
    <3>1. PICK seen \in Observation :
                 seen = [status |-> status, checkpoint |-> checkpoint, sequence |-> sequence]
      BY <3>0
    <3>2. PICK idle \in Txn : idle = Idle /\ idle.staged = 0
      BY IdleIs
    <3>3. PICK new : new = [idle EXCEPT !.kind = "decision", !.at = "looked", !.expected = seen]
      OBVIOUS
    <3>4. new \in Txn /\ new.at = "looked" /\ new.staged = 0
      BY <3>2, <3>3 DEF Txn
    <3>5. txn' = [txn EXCEPT ![w] = new]
      BY <2>1, <3>1, <3>2, <3>3
    <3> QED  BY <3>4, <3>5 DEF LogTypes
  <2>3. LocksHeld(w)' /\ DecisionCurrent(w)'
    BY <2>2 DEF LocksHeld, DecisionCurrent
  <2> QED  BY <2>1, <2>2, <2>3, QuietStep
<1>2. CASE BeginDecision(w)
  <2>1. /\ txn' = Begun(w, "decision")
        /\ jobLock' = w /\ jobLock \in {NoWriter, w} /\ taskLock' = taskLock
        /\ txn[w].at = "looked" /\ UNCHANGED committed
    BY <1>2 DEF BeginDecision, Free, committed
  <2>2. txn[w].staged = 0
    BY <2>1 DEF LocksHeld, LogTypes, Txn, Sequence
  <2>3. LocksHeld(w)' /\ DecisionCurrent(w)'
    BY <2>1, <2>2, BegunIs DEF LocksHeld, DecisionCurrent, Settles, committed
  <2> QED  BY <2>1, <2>3, BegunIs, QuietStep, WriterAssumption
<1>3. CASE Expect(w)
  <2>1. /\ txn' = [txn EXCEPT ![w].at = "ready"] /\ txn[w].kind = "decision" /\ txn[w].at = "begun"
        /\ taskLock' = w /\ taskLock \in {NoWriter, w} /\ jobLock' = jobLock
        /\ status \in Live /\ Matches(txn[w].expected) /\ UNCHANGED committed
    BY <1>3 DEF Expect, Free, committed
  <2>2. txn[w].staged = 0 /\ jobLock = w
    BY <2>1 DEF LocksHeld, LogTypes, Txn, Sequence, Settles
  <2>3. /\ txn' \in [Writer -> Txn] /\ \A x \in Writer \ {w} : txn'[x] = txn[x]
        /\ txn'[w].staged = 0 /\ txn'[w].expected = txn[w].expected
    BY <2>1, <2>2 DEF LogTypes, Txn
  <2>4. txn[w].expected = [status |-> status, checkpoint |-> checkpoint, sequence |-> sequence]
    <3>1. txn[w].expected \in Observation
      BY DEF LogTypes, Txn
    <3> QED  BY <2>1, <3>1 DEF Matches, Observation
  <2>5. LocksHeld(w)' /\ DecisionCurrent(w)'
    BY <2>1, <2>2, <2>3, <2>4 DEF LocksHeld, DecisionCurrent, Settles, committed
  <2> QED  BY <2>1, <2>3, <2>5, QuietStep, WriterAssumption
<1> QED  BY <1>1, <1>2, <1>3

\* An event is numbered after the newest one, with the task row held.
LEMMA EventKeeps == ASSUME LogInv, NEW w \in Writer, Event(w) PROVE LogInv'
<1> USE DEF LogInv
<1>1. /\ txn[w].at = "ready" /\ taskLock \in {NoWriter, w} /\ taskLock' = w /\ jobLock' = jobLock
      /\ sequence + txn[w].staged < MaxSequence
      /\ UNCHANGED committed
  BY DEF Event, Allocates, Free, committed
<1>2. txn[w] \in Txn /\ txn[w].staged \in Nat
  BY BoundAssumption DEF LogTypes, Txn, Sequence
<1>3. PICK o \in Status \X Sequence :
        txn' = [txn EXCEPT ![w].staged = @ + 1,
                           ![w].base = IF txn[w].staged = 0 THEN sequence ELSE @,
                           ![w].status = o[1], ![w].checkpoint = o[2]]
  BY <1>2 DEF Event, Outcome, Txn
<1>4. txn'[w] = [txn[w] EXCEPT !.staged = @ + 1, !.base = IF txn[w].staged = 0 THEN sequence ELSE @,
                               !.status = o[1], !.checkpoint = o[2]]
  BY <1>3 DEF LogTypes
<1>5. PICK old \in Txn : old = txn[w]
  BY <1>2
<1>6. txn'[w] = [old EXCEPT !.staged = old.staged + 1, !.base = IF old.staged = 0 THEN sequence ELSE old.base,
                            !.status = o[1], !.checkpoint = o[2]]
  BY <1>4, <1>5
<1>7. /\ txn'[w].kind = old.kind /\ txn'[w].at = old.at /\ txn'[w].expected = old.expected
      /\ txn'[w].staged = old.staged + 1
      /\ txn'[w].base = IF old.staged = 0 THEN sequence ELSE old.base
      /\ txn'[w] \in Txn
  <2>1. old.staged + 1 \in Sequence /\ sequence \in Sequence
    BY <1>1, <1>2, <1>5, BoundAssumption DEF LogTypes, Sequence
  <2> QED  BY <1>6, <2>1 DEF Txn
<1>8. txn' \in [Writer -> Txn] /\ \A x \in Writer \ {w} : txn'[x] = txn[x]
  BY <1>3, <1>7 DEF LogTypes
<1>9. LocksHeld(w)' /\ DecisionCurrent(w)'
  <2>1. DecisionCurrent(w)'
    BY <1>1, <1>5, <1>7 DEF DecisionCurrent, committed
  <2>2. sequence' + txn'[w].staged <= MaxSequence /\ txn'[w].base = sequence'
    BY <1>1, <1>2, <1>5, <1>7, BoundAssumption DEF LogTypes, LocksHeld, committed
  <2> QED  BY <1>1, <1>5, <1>7, <2>1, <2>2 DEF LocksHeld, Settles, committed
<1> QED  BY <1>1, <1>8, <1>9, QuietStep, WriterAssumption

\* What is published follows what was: nobody else has numbered anything.
LEMMA CommitIs ==
  ASSUME LogInv, NEW w \in Writer, Commit(w)
  PROVE  /\ txn[w].at = "ready" /\ taskLock = w /\ txn[w].staged \in Nat \ {0}
         /\ sequence' = sequence + txn[w].staged /\ sequence' \in 1 .. MaxSequence
         /\ rows' = [n \in 1 .. MaxSequence |-> IF n \in sequence + 1 .. sequence' THEN rows[n] + 1 ELSE rows[n]]
         /\ Settles(w) => jobLock = w /\ status \in Live
         /\ status' = IF Settles(w) THEN txn[w].status ELSE status
         /\ checkpoint' = IF Settles(w) THEN txn[w].checkpoint ELSE checkpoint
         /\ finalAt' = IF Settles(w) /\ Over(status') THEN sequence' ELSE finalAt
         /\ jobLock' = Released(jobLock, w) /\ taskLock' = Released(taskLock, w)
         /\ txn' = [txn EXCEPT ![w] = Idle]
<1> USE DEF LogInv
<1>1. txn[w].staged \in Nat /\ txn[w].staged > 0
  BY BoundAssumption DEF Commit, LogTypes, Txn, Sequence
<1>2. /\ txn[w].at = "ready" /\ taskLock = w /\ txn[w].base = sequence /\ sequence + txn[w].staged <= MaxSequence
      /\ Settles(w) => jobLock = w /\ status \in Live
  BY <1>1 DEF LocksHeld
<1>3. sequence' = sequence + txn[w].staged
  BY <1>2 DEF Commit
<1>4. sequence' \in 1 .. MaxSequence
  BY <1>1, <1>2, <1>3, BoundAssumption DEF LogTypes
<1>5. rows' = [n \in 1 .. MaxSequence |-> IF n \in sequence + 1 .. sequence' THEN rows[n] + 1 ELSE rows[n]]
  BY <1>2, <1>3 DEF Commit
<1>6. /\ status' = IF Settles(w) THEN txn[w].status ELSE status
      /\ checkpoint' = IF Settles(w) THEN txn[w].checkpoint ELSE checkpoint
      /\ finalAt' = IF Settles(w) /\ Over(status') THEN sequence' ELSE finalAt
      /\ jobLock' = Released(jobLock, w) /\ taskLock' = Released(taskLock, w)
      /\ txn' = [txn EXCEPT ![w] = Idle]
  BY DEF Commit, Settles
<1> QED  BY <1>1, <1>2, <1>3, <1>4, <1>5, <1>6

LEMMA CommitKeeps == ASSUME LogInv, NEW w \in Writer, Commit(w) PROVE LogInv'
<1> USE DEF LogInv
<1>1. sequence' > sequence /\ sequence \in Nat /\ sequence' \in Nat
  BY CommitIs, BoundAssumption DEF LogTypes
<1>2. LogTypes'
  <2>1. rows' \in [1 .. MaxSequence -> Nat]
    BY CommitIs DEF LogTypes
  <2>2. status' \in Status /\ checkpoint' \in Sequence /\ finalAt' \in Sequence
    <3>1. txn[w].status \in Status /\ txn[w].checkpoint \in Sequence
      BY DEF LogTypes, Txn
    <3>2. sequence' \in Sequence
      BY CommitIs, BoundAssumption DEF Sequence
    <3> QED  BY <3>1, <3>2, CommitIs DEF LogTypes
  <2>3. txn' \in [Writer -> Txn]
    BY CommitIs, IdleIs DEF LogTypes
  <2> QED  BY CommitIs, <2>1, <2>2, <2>3 DEF LogTypes
<1>3. OneOfEach'
  <2>1. ASSUME NEW n \in 1 .. MaxSequence PROVE rows'[n] = IF n <= sequence' THEN 1 ELSE 0
    <3>1. rows'[n] = IF n \in sequence + 1 .. sequence' THEN rows[n] + 1 ELSE rows[n]
      BY CommitIs
    <3>2. rows[n] = IF n <= sequence THEN 1 ELSE 0
      BY DEF OneOfEach
    <3> QED  BY <1>1, <3>1, <3>2, BoundAssumption
  <2> QED  BY <2>1 DEF OneOfEach
<1>4. EndNumbered'
  BY <1>1, CommitIs DEF EndNumbered, Over, Live, LogTypes, Sequence
<1>5. ASSUME NEW x \in Writer \ {w} PROVE LocksHeld(x)' /\ DecisionCurrent(x)'
  <2>1. txn'[x] = txn[x] /\ (jobLock = x => jobLock' = x /\ ~Settles(w)) /\ taskLock # x
    BY <1>5, CommitIs DEF Released, LogTypes
  <2>2. txn[x].staged = 0 /\ ~(txn[x].kind = "decision" /\ txn[x].at = "ready")
    BY <2>1 DEF LocksHeld, DecisionCurrent, LogTypes, Txn, Sequence
  <2>3. ~Settles(w) => status' = status
    BY CommitIs
  <2> QED  BY <2>1, <2>2, <2>3 DEF LocksHeld, DecisionCurrent, Settles
<1>6. LocksHeld(w)' /\ DecisionCurrent(w)'
  <2>1. txn'[w] = Idle
    BY CommitIs DEF LogTypes
  <2> QED  BY <2>1, IdleIs DEF LocksHeld, DecisionCurrent, Settles
<1> QED  BY <1>2, <1>3, <1>4, <1>5, <1>6

LEMMA RollbackKeeps == ASSUME LogInv, NEW w \in Writer, Rollback(w) PROVE LogInv'
<1> USE DEF LogInv
<1>1. /\ UNCHANGED committed /\ txn' = [txn EXCEPT ![w] = Idle]
      /\ \A x \in Writer \ {w} : (jobLock = x => jobLock' = x) /\ (taskLock = x => taskLock' = x)
  BY DEF Rollback, committed, Released
<1>2. txn' \in [Writer -> Txn] /\ txn'[w] = Idle /\ \A x \in Writer \ {w} : txn'[x] = txn[x]
  BY <1>1, IdleIs DEF LogTypes
<1>3. LocksHeld(w)' /\ DecisionCurrent(w)'
  BY <1>2, IdleIs DEF LocksHeld, DecisionCurrent, Settles
<1> QED  BY <1>1, <1>2, <1>3, QuietStep

LEMMA ReaderKeepsLog == ASSUME Serve \/ Watch \/ Cut PROVE UNCHANGED log
  BY DEF log, Serve, Watch, Cut, ReadRows, Send, SendTerminal, SendRotate, Poll, PollDeleted, RequestPage,
         RequestDeleted, Load, Receive

LEMMA LogSame == ASSUME LogInv, UNCHANGED log PROVE LogInv'
  BY DEF LogInv, LogTypes, OneOfEach, EndNumbered, LocksHeld, DecisionCurrent, Settles, log

LEMMA LogInductive == ASSUME LogInv, [EventsNext]_eventVars PROVE LogInv'
<1>1. CASE UNCHANGED eventVars
  BY <1>1, LogSame DEF eventVars, log
<1>2. ASSUME NEW w \in Writer, Write(w) PROVE LogInv'
  BY <1>2, BeginKeeps, DecideKeeps, EventKeeps, CommitKeeps, RollbackKeeps DEF Write
<1> QED  BY <1>1, <1>2, ReaderKeepsLog, LogSame DEF EventsNext

\* For every number of transactions and events: the log holds every number once,
\* and a decision that can still commit is made on what the person was shown.
THEOREM LogIsNumbered == EventsSpec => []DecisionsAreCurrent
<1>1. EventsSpec => []LogInv
  BY LogInitial, LogInductive, PTL DEF EventsSpec
<1>2. LogInv => DecisionsAreCurrent
  BY DEF LogInv, OneOfEach, DecisionCurrent, DecisionsAreCurrent
<1> QED  BY <1>1, <1>2, PTL

-----------------------------------------------------------------------------
(* The view that follows the log.                                            *)

ServerState == [at : {"off", "counted", "page"}, cursor : Sequence, latest : Sequence, over : BOOLEAN,
                items : SUBSET (1 .. MaxSequence), more : BOOLEAN]
ViewState == [at : {"loading", "waiting", "connected", "complete", "error"}, cursor : Sequence,
              failures : 0 .. MaxFailures, why : {"none", "gap", "ending", "gave_up", "missing"}]

FeedTypes == srv \in ServerState /\ view \in ViewState /\ frames \in Seq(Frame)

\* What the server has read was published; a page is the beginning of what
\* follows the cursor, and all of it when there is no more.
ServerReads ==
  /\ srv.at # "off" =>
       /\ srv.cursor <= srv.latest /\ srv.latest <= sequence
       /\ srv.over => finalAt # 0 /\ finalAt <= srv.latest
  /\ srv.at = "page" =>
       /\ srv.items \subseteq srv.cursor + 1 .. srv.latest
       /\ \A n \in srv.items : srv.cursor + 1 .. n \subseteq srv.items
       /\ ~srv.more => srv.cursor + 1 .. srv.latest \subseteq srv.items

\* Where no stream is open nothing is on the way.
ViewWaits ==
  /\ view.cursor <= sequence
  /\ view.at # "connected" => frames = <<>>
  /\ view.at = "loading" => view.cursor = 0 /\ srv.at \in {"off", "counted"}
  /\ view.at = "waiting" => srv.at = "off" \/ (srv.at = "counted" /\ srv.cursor = view.cursor)
  /\ view.at \in {"complete", "error"} => srv.at = "off"

\* The frames on the way follow what is shown, one by one, up to where the
\* server is; one that ends the stream is the last, and comes after the event
\* that ended the task if it says so.
Stream ==
  view.at = "connected" =>
    /\ srv.at # "off" =>
         srv.cursor = view.cursor + Len(frames) /\ \A i \in 1 .. Len(frames) : frames[i].kind = "workflow"
    /\ srv.at = "off" => Len(frames) > 0 /\ frames[Len(frames)].kind # "workflow"
    /\ \A i \in 1 .. Len(frames) :
         /\ frames[i].kind = "workflow" =>
              frames[i].sequence = view.cursor + i /\ frames[i].sequence <= sequence
         /\ frames[i].kind # "workflow" => i = Len(frames)
         /\ frames[i].kind = "terminal" /\ frames[i].over =>
              finalAt # 0 /\ finalAt < view.cursor + i

FeedInv == FeedTypes /\ ServerReads /\ ViewWaits /\ Stream

LEMMA OffIs == Off \in ServerState /\ Off.at = "off"
  BY BoundAssumption DEF Off, ServerState, Sequence

LEMMA FeedInitial == ASSUME EventsInit PROVE FeedInv
<1>1. view \in ViewState /\ view.at = "loading" /\ view.cursor = 0 /\ srv = Off /\ frames = <<>> /\ sequence = 1
  BY BoundAssumption DEF EventsInit, ViewState, Sequence
<1> QED  BY <1>1, OffIs DEF FeedInv, FeedTypes, ServerReads, ViewWaits, Stream

\* The log grows, and ends once.
LEMMA LogGrows ==
  ASSUME LogInv, NEW w \in Writer, Write(w)
  PROVE  /\ UNCHANGED feed
         /\ \/ UNCHANGED <<sequence, finalAt>>
            \/ /\ sequence' > sequence /\ sequence' \in Nat
               /\ finalAt' = finalAt \/ (finalAt = 0 /\ finalAt' = sequence')
<1>1. CASE Commit(w)
  <2>1. sequence' > sequence /\ sequence' \in Nat
    BY <1>1, CommitIs, BoundAssumption DEF LogInv, LogTypes
  <2>2. Settles(w) => finalAt = 0
    BY <1>1, CommitIs DEF LogInv, LogTypes, EndNumbered, Over, Live
  <2>3. UNCHANGED feed
    BY <1>1 DEF Commit
  <2>4. finalAt' = IF Settles(w) /\ Over(status') THEN sequence' ELSE finalAt
    BY <1>1, CommitIs
  <2>5. finalAt' = finalAt \/ (Settles(w) /\ finalAt' = sequence')
    BY <2>4
  <2> QED  BY <2>1, <2>2, <2>3, <2>5
<1>2. CASE ~Commit(w)
  BY <1>2 DEF Write, BeginJob, BeginEvent, BeginDelete, LockTask, Look, BeginDecision, Expect, Event, Rollback
<1> QED  BY <1>1, <1>2

LEMMA WritersKeepFeed == ASSUME LogInv, FeedInv, NEW w \in Writer, Write(w) PROVE FeedInv'
<1> USE DEF FeedInv, feed
<1>1. sequence \in Nat /\ finalAt \in Nat /\ sequence' \in Nat /\ sequence' >= sequence
      /\ (finalAt # 0 => finalAt' = finalAt) /\ UNCHANGED <<srv, frames, view>>
  BY LogGrows, BoundAssumption DEF LogInv, LogTypes, Sequence
<1>2. FeedTypes'
  BY <1>1 DEF FeedTypes
<1>3. ServerReads'
  <2>1. srv.latest \in Nat
    BY DEF FeedTypes, ServerState, Sequence
  <2> QED  BY <1>1, <2>1 DEF ServerReads
<1>4. ViewWaits'
  <2>1. view.cursor \in Nat
    BY DEF FeedTypes, ViewState, Sequence
  <2> QED  BY <1>1, <2>1 DEF ViewWaits
<1>5. Stream'
  <2>1. ASSUME NEW i \in 1 .. Len(frames), frames[i].kind = "workflow" PROVE frames[i].sequence \in Nat
    <3>1. frames[i] \in Frame
      BY DEF FeedTypes
    <3> QED  BY <2>1, <3>1 DEF Frame
  <2> QED  BY <1>1, <2>1 DEF Stream
<1> QED  BY <1>2, <1>3, <1>4, <1>5

\* The rows between two numbers are all there, and a page begins with them.
LEMMA StoredIs ==
  ASSUME LogInv, NEW after \in Nat, NEW upto \in Nat, upto <= sequence
  PROVE  Stored(after, upto) = after + 1 .. upto
  BY BoundAssumption DEF Stored, LogInv, LogTypes, OneOfEach

LEMMA OldestIs ==
  ASSUME NEW a \in Nat, NEW b \in Nat
  PROVE  /\ Oldest(a + 1 .. b) \subseteq a + 1 .. b
         /\ \A n \in Oldest(a + 1 .. b) : a + 1 .. n \subseteq Oldest(a + 1 .. b)
<1> DEFINE span == a + 1 .. b
<1>1. ASSUME NEW n \in Oldest(span), NEW k \in a + 1 .. n PROVE k \in Oldest(span)
  <2>1. k \in span /\ k <= n /\ n \in span /\ Cardinality({j \in span : j < n}) < Limit
    BY <1>1 DEF Oldest
  <2>2. {j \in span : j < k} \subseteq {j \in span : j < n}
    BY <2>1
  <2>3. IsFiniteSet({j \in span : j < n})
    BY FS_Interval, FS_Subset
  <2>4. Cardinality({j \in span : j < k}) <= Cardinality({j \in span : j < n})
    BY <2>2, <2>3, FS_Subset
  <2>5. Cardinality({j \in span : j < k}) \in Nat /\ Cardinality({j \in span : j < n}) \in Nat
    BY <2>2, <2>3, FS_Subset, FS_CardinalityType
  <2> QED  BY <2>1, <2>4, <2>5, LimitAssumption DEF Oldest
<1> QED  BY <1>1 DEF Oldest

LEMMA NewestIs ==
  ASSUME NEW b \in Nat \ {0}
  PROVE  b \in Newest(1 .. b) /\ Newest(1 .. b) \subseteq 1 .. b
<1>1. {k \in 1 .. b : k > b} = {}
  OBVIOUS
<1> QED  BY <1>1, FS_EmptySet, LimitAssumption DEF Newest

LEMMA ReadIs ==
  ASSUME LogInv, NEW after \in Sequence, ReadTask(after)
  PROVE  /\ srv' \in ServerState /\ srv'.at = "counted" /\ srv'.cursor = after /\ srv'.latest = sequence
         /\ srv'.over => finalAt # 0 /\ finalAt <= sequence
<1>1. PICK off \in ServerState : off = Off
  BY OffIs
<1>2. PICK over \in BOOLEAN : over = Over(status)
  BY DEF Over
<1>3. srv' = [off EXCEPT !.at = "counted", !.cursor = after, !.latest = sequence, !.over = over]
  BY <1>1, <1>2 DEF ReadTask
<1>4. sequence \in Sequence
  BY BoundAssumption DEF LogInv, LogTypes, Sequence
<1>5. srv' \in ServerState /\ srv'.at = "counted" /\ srv'.cursor = after /\ srv'.latest = sequence /\ srv'.over = over
  BY <1>3, <1>4 DEF ServerState
<1>6. over => finalAt # 0 /\ finalAt <= sequence
  BY <1>2 DEF LogInv, EndNumbered
<1> QED  BY <1>5, <1>6

\* The invariant is kept when the server reads, or is cut off.
LEMMA ViewIs ==
  ASSUME FeedInv
  PROVE  /\ view.cursor \in Nat /\ view.cursor \in Sequence /\ srv.cursor \in Nat /\ srv.latest \in Nat
         /\ Len(frames) \in Nat /\ \A i \in 1 .. Len(frames) : frames[i] \in Frame
  BY BoundAssumption DEF FeedInv, FeedTypes, ServerState, ViewState, Sequence

LEMMA RequestKeepsFeed == ASSUME LogInv, FeedInv, RequestPage PROVE FeedInv'
<1> USE DEF FeedInv
<1>1. /\ view.at \in {"loading", "waiting"} /\ UNCHANGED <<frames, view, sequence, finalAt>>
      /\ srv' \in ServerState /\ srv'.at = "counted" /\ srv'.cursor = view.cursor /\ srv'.latest = sequence
      /\ srv'.over => finalAt # 0 /\ finalAt <= sequence
  BY ViewIs, ReadIs DEF RequestPage, log
<1>2. FeedTypes'
  BY <1>1 DEF FeedTypes
<1>3. sequence \in Nat
  BY DEF LogInv, LogTypes
<1> QED  BY <1>1, <1>2, <1>3 DEF ServerReads, ViewWaits, Stream

LEMMA LoadKeeps ==
  ASSUME LogInv, FeedInv, Load
  PROVE  /\ FeedInv'
         /\ view.at = "loading" /\ view'.at = "waiting" /\ view'.cursor \in 0 .. sequence /\ UNCHANGED log
<1> USE DEF FeedInv
<1>1. /\ view.at = "loading" /\ srv.at = "counted" /\ srv' = Off /\ frames = <<>> /\ frames' = <<>>
      /\ UNCHANGED log
  BY DEF Load, ViewWaits
<1>2. srv.latest \in Nat /\ srv.latest <= sequence /\ sequence \in Sequence
  BY <1>1, ViewIs, BoundAssumption DEF ServerReads, LogInv, LogTypes, Sequence
<1>3. Stored(0, srv.latest) = 1 .. srv.latest
  BY <1>2, StoredIs
<1> DEFINE page == Newest(Stored(0, srv.latest))
<1> DEFINE last == IF page = {} THEN 0 ELSE CHOOSE n \in page : \A k \in page : k <= n
<1>4. last \in 0 .. srv.latest
  <2>1. CASE srv.latest = 0
    BY <1>3, <2>1 DEF Newest
  <2>2. CASE srv.latest # 0
    <3>1. srv.latest \in page /\ page \subseteq 1 .. srv.latest
      BY <1>2, <1>3, <2>2, NewestIs
    <3>2. \A k \in page : k <= srv.latest
      BY <3>1
    <3> QED  BY <3>1, <3>2
  <2> QED  BY <2>1, <2>2
<1>5. PICK m \in 0 .. srv.latest : m = last
  BY <1>4
<1>6. view' = [view EXCEPT !.at = "waiting", !.cursor = m]
  BY <1>5 DEF Load
<1>7. view' \in ViewState /\ view'.at = "waiting" /\ view'.cursor = m
  <2>1. m \in Sequence
    BY <1>2, BoundAssumption DEF Sequence
  <2> QED  BY <1>6, <2>1 DEF FeedTypes, ViewState
<1>8. FeedTypes'
  BY <1>1, <1>7, OffIs DEF FeedTypes
<1>9. srv'.at = "off" /\ sequence' = sequence /\ m \in 0 .. sequence
  BY <1>1, <1>2, OffIs, BoundAssumption DEF log, Sequence
<1>10. ServerReads' /\ ViewWaits' /\ Stream'
  BY <1>1, <1>7, <1>9 DEF ServerReads, ViewWaits, Stream
<1> QED  BY <1>1, <1>7, <1>8, <1>9, <1>10

\* The server reads a page and sends it.
LEMMA ReadRowsKeeps ==
  ASSUME LogInv, FeedInv, ReadRows
  PROVE  /\ FeedInv' /\ UNCHANGED log
         /\ view.at \in {"waiting", "connected"} /\ view'.at = "connected" /\ view'.cursor = view.cursor
<1> USE DEF FeedInv
<1> DEFINE found == Stored(srv.cursor, srv.latest)
<1>1. /\ view.at \in {"waiting", "connected"} /\ srv.at = "counted" /\ UNCHANGED <<log, frames>>
      /\ view' = [view EXCEPT !.at = "connected"]
      /\ srv' = [srv EXCEPT !.at = "page", !.items = Oldest(found), !.more = Oldest(found) # found]
  BY DEF ReadRows
<1>2. /\ view' \in ViewState /\ view'.at = "connected" /\ view'.cursor = view.cursor
  BY <1>1 DEF FeedTypes, ViewState
<1>3. found = srv.cursor + 1 .. srv.latest /\ srv.latest <= sequence /\ sequence \in Sequence
  <2>1. srv.latest <= sequence
    BY <1>1 DEF ServerReads
  <2>2. found = srv.cursor + 1 .. srv.latest
    BY <2>1, ViewIs, StoredIs
  <2>3. sequence \in Sequence
    BY BoundAssumption DEF LogInv, LogTypes, Sequence
  <2> QED  BY <2>1, <2>2, <2>3
<1>4. PICK page : page = Oldest(found)
  OBVIOUS
<1>5. PICK more \in BOOLEAN : more = (page # found)
  OBVIOUS
<1>6. page \subseteq srv.cursor + 1 .. srv.latest /\ \A n \in page : srv.cursor + 1 .. n \subseteq page
  BY <1>3, <1>4, ViewIs, OldestIs
<1>7. srv' = [srv EXCEPT !.at = "page", !.items = page, !.more = more]
  BY <1>1, <1>4, <1>5
<1>8. page \subseteq 1 .. MaxSequence
  BY <1>3, <1>6, ViewIs, BoundAssumption DEF Sequence
<1>9. /\ srv' \in ServerState /\ srv'.at = "page" /\ srv'.items = page /\ srv'.more = more
      /\ srv'.cursor = srv.cursor /\ srv'.latest = srv.latest /\ srv'.over = srv.over
  BY <1>7, <1>8 DEF FeedTypes, ServerState
<1>10. FeedTypes'
  BY <1>1, <1>2, <1>9 DEF FeedTypes
<1>11. ServerReads'
  BY <1>1, <1>3, <1>5, <1>6, <1>9 DEF ServerReads, log
<1>12. ViewWaits'
  BY <1>1, <1>2, <1>9 DEF ViewWaits, log
<1>13. Stream'
  BY <1>1, <1>2, <1>9, ViewIs DEF ViewWaits, Stream, log
<1> QED  BY <1>1, <1>2, <1>10, <1>11, <1>12, <1>13

LEMMA SendKeepsFeed ==
  ASSUME LogInv, FeedInv, Send PROVE FeedInv' /\ UNCHANGED <<log, view>>
<1> USE DEF FeedInv
<1>1. PICK n \in srv.items :
        /\ \A k \in srv.items : n <= k
        /\ frames' = Append(frames, [kind |-> "workflow", sequence |-> n])
        /\ srv' = [srv EXCEPT !.items = @ \ {n}, !.cursor = n]
  BY DEF Send
<1>2. srv.at = "page" /\ UNCHANGED <<log, view>>
  BY DEF Send
<1>3. n = srv.cursor + 1 /\ n \in 1 .. MaxSequence /\ n <= srv.latest /\ srv.latest <= sequence /\ sequence \in Nat
  <2>1. /\ srv.cursor \in Nat /\ srv.latest \in Nat /\ sequence \in 1 .. MaxSequence
        /\ MaxSequence \in Nat /\ srv.latest <= sequence
    BY <1>2, ViewIs, BoundAssumption DEF ServerReads, LogInv, LogTypes
  <2>2. /\ n \in srv.cursor + 1 .. srv.latest /\ srv.cursor + 1 .. n \subseteq srv.items
        /\ \A k \in srv.items : n <= k
    BY <1>1, <1>2 DEF ServerReads
  <2>3. srv.cursor + 1 \in srv.cursor + 1 .. n
    BY <2>1, <2>2
  <2>4. n <= srv.cursor + 1
    BY <2>2, <2>3
  <2> QED  BY <2>1, <2>2, <2>4
<1>4. PICK f : f = [kind |-> "workflow", sequence |-> n]
  OBVIOUS
<1>5. f \in Frame /\ f.kind = "workflow" /\ f.sequence = n
  BY <1>3, <1>4 DEF Frame
<1>6. /\ frames' \in Seq(Frame) /\ Len(frames') = Len(frames) + 1
      /\ \A i \in 1 .. Len(frames) : frames'[i] = frames[i]
      /\ frames'[Len(frames) + 1] = f
  BY <1>1, <1>4, <1>5, ViewIs DEF FeedTypes
<1>7. /\ srv' \in ServerState /\ srv'.at = "page" /\ srv'.items = srv.items \ {n} /\ srv'.more = srv.more
      /\ srv'.cursor = n /\ srv'.latest = srv.latest /\ srv'.over = srv.over
  <2>1. n \in Sequence
    BY <1>3, BoundAssumption DEF Sequence
  <2> QED  BY <1>1, <1>2, <2>1 DEF FeedTypes, ServerState
<1>8. FeedTypes'
  BY <1>2, <1>6, <1>7 DEF FeedTypes
<1>9. ServerReads'
  BY <1>1, <1>2, <1>3, <1>7, ViewIs DEF ServerReads, log
<1>10. ViewWaits' /\ view.at = "connected"
  BY <1>2, <1>7, <1>8 DEF ViewWaits, log, FeedTypes, ViewState
<1>11. Stream'
  <2>1. /\ srv.cursor = view.cursor + Len(frames) /\ \A i \in 1 .. Len(frames) : frames[i].kind = "workflow"
    BY <1>2, <1>10 DEF Stream
  <2>2. \A i \in 1 .. Len(frames') : frames'[i].kind = "workflow"
    BY <1>5, <1>6, <2>1, ViewIs
  <2>3. srv'.cursor = view'.cursor + Len(frames')
    <3>1. n = view.cursor + (Len(frames) + 1)
      <4>1. view.cursor \in Nat /\ Len(frames) \in Nat
        BY ViewIs
      <4>2. n = srv.cursor + 1 /\ srv.cursor = view.cursor + Len(frames)
        BY <1>3, <2>1
      <4> QED  BY <4>1, <4>2
    <3>2. view'.cursor = view.cursor
      BY <1>2
    <3>3. srv'.cursor = n /\ Len(frames') = Len(frames) + 1
      BY <1>6, <1>7
    <3> QED  BY <3>1, <3>2, <3>3
  <2>4. ASSUME NEW i \in 1 .. Len(frames')
        PROVE frames'[i].sequence = view'.cursor + i /\ frames'[i].sequence <= sequence'
    <3>1. CASE i = Len(frames) + 1
      <4>1. frames'[i].sequence = n /\ n <= sequence'
        <5>1. frames'[i] = f /\ sequence' = sequence
          BY <1>2, <1>6, <3>1 DEF log
        <5>2. n <= sequence
          BY <1>3, ViewIs
        <5> QED  BY <1>5, <5>1, <5>2
      <4>2. n = (view.cursor + Len(frames)) + 1 /\ view'.cursor = view.cursor
        BY <1>2, <1>3, <2>1
      <4>3. view.cursor + i = (view.cursor + Len(frames)) + 1
        <5>1. PICK c \in Nat, l \in Nat : c = view.cursor /\ l = Len(frames)
          BY ViewIs
        <5>2. c + (l + 1) = (c + l) + 1
          OBVIOUS
        <5> QED  BY <3>1, <5>1, <5>2, Zenon
      <4> QED  BY <4>1, <4>2, <4>3
    <3>2. CASE i \in 1 .. Len(frames)
      BY <1>2, <1>6, <1>10, <2>1, <3>2 DEF Stream, log
    <3> QED  BY <1>6, <3>1, <3>2, ViewIs
  <2> QED  BY <1>2, <1>7, <1>10, <2>2, <2>3, <2>4 DEF Stream
<1> QED  BY <1>2, <1>8, <1>9, <1>10, <1>11

\* A frame that ends the stream is the last one; "terminal" is sent when the
\* page was the end of a finished log.
LEMMA EndingKeeps ==
  ASSUME LogInv, FeedInv,
         NEW f \in [kind : {"terminal", "rotate"}, over : BOOLEAN],
         srv.at = "page", srv.items = {}, f.kind = "terminal" => AtEnd,
         frames' = Append(frames, f), srv' = Off, UNCHANGED <<log, view>>
  PROVE  FeedInv'
<1> USE DEF FeedInv
<1>1. /\ view.cursor \in Nat /\ Len(frames) \in Nat /\ srv.cursor \in Nat /\ srv.latest \in Nat
      /\ f \in Frame
  BY ViewIs DEF Frame
<1>2. /\ frames' \in Seq(Frame) /\ Len(frames') = Len(frames) + 1
      /\ \A i \in 1 .. Len(frames) : frames'[i] = frames[i]
      /\ frames'[Len(frames) + 1] = f
  BY <1>1 DEF FeedTypes
<1>3. view.at = "connected" /\ view' = view /\ sequence' = sequence /\ finalAt' = finalAt
  BY DEF ViewWaits, FeedTypes, ViewState, log
<1>4. /\ srv.cursor = view.cursor + Len(frames)
      /\ \A i \in 1 .. Len(frames) :
           /\ frames[i].kind = "workflow"
           /\ frames[i].sequence = view.cursor + i /\ frames[i].sequence <= sequence
  BY <1>3 DEF Stream
<1>5. f.kind = "terminal" => finalAt # 0 /\ finalAt < view.cursor + (Len(frames) + 1)
  <2> HAVE f.kind = "terminal"
  <2>1. finalAt # 0 /\ finalAt <= srv.latest /\ finalAt \in Nat
    BY BoundAssumption DEF AtEnd, ServerReads, LogInv, LogTypes, Sequence
  <2>2. srv.cursor + 1 .. srv.latest \subseteq {}
    BY DEF AtEnd, ServerReads
  <2>3. srv.latest <= srv.cursor
    BY <1>1, <2>2
  <2>4. srv.cursor = view.cursor + Len(frames)
    BY <1>4
  <2> QED  BY <1>1, <2>1, <2>3, <2>4
<1>6. FeedTypes' /\ ServerReads' /\ ViewWaits'
  BY <1>2, <1>3, OffIs DEF FeedTypes, ServerReads, ViewWaits
<1>7. Stream'
  <2>1. f.kind # "workflow"
    OBVIOUS
  <2>2. ASSUME NEW i \in 1 .. Len(frames')
        PROVE /\ frames'[i].kind = "workflow" =>
                   frames'[i].sequence = view'.cursor + i /\ frames'[i].sequence <= sequence'
              /\ frames'[i].kind # "workflow" => i = Len(frames')
              /\ frames'[i].kind = "terminal" /\ frames'[i].over =>
                   finalAt' # 0 /\ finalAt' < view'.cursor + i
    <3>1. CASE i = Len(frames) + 1
      BY <1>2, <1>3, <1>5, <2>1, <3>1
    <3>2. CASE i \in 1 .. Len(frames)
      <4>1. /\ frames[i].kind = "workflow"
            /\ frames[i].sequence = view.cursor + i /\ frames[i].sequence <= sequence
        BY <1>4, <3>2
      <4> QED  BY <1>2, <1>3, <3>2, <4>1
    <3> QED  BY <1>1, <1>2, <3>1, <3>2
  <2> QED  BY <1>1, <1>2, <2>1, <2>2, OffIs DEF Stream
<1> QED  BY <1>6, <1>7

LEMMA SendsEnd ==
  ASSUME LogInv, FeedInv, SendTerminal \/ SendRotate PROVE FeedInv' /\ UNCHANGED <<log, view>>
<1>1. srv.over \in BOOLEAN
  BY DEF FeedInv, FeedTypes, ServerState
<1>2. CASE SendTerminal
  <2>1. PICK f \in [kind : {"terminal", "rotate"}, over : BOOLEAN] : f = [kind |-> "terminal", over |-> srv.over]
    BY <1>1
  <2> QED  BY <1>2, <2>1, EndingKeeps DEF SendTerminal
<1>3. CASE SendRotate
  <2>1. PICK f \in [kind : {"terminal", "rotate"}, over : BOOLEAN] : f = [kind |-> "rotate", over |-> srv.over]
    BY <1>1
  <2>2. f.kind # "terminal"
    BY <2>1
  <2> QED  BY <1>3, <2>1, <2>2, EndingKeeps DEF SendRotate
<1> QED  BY <1>2, <1>3

LEMMA PollKeeps == ASSUME LogInv, FeedInv, Poll PROVE FeedInv' /\ UNCHANGED <<log, view>>
<1> USE DEF FeedInv
<1>1. srv.at = "page" /\ ReadTask(srv.cursor) /\ UNCHANGED <<log, frames, view>>
  BY DEF Poll
<1>2. srv.cursor \in Sequence /\ srv.cursor \in Nat /\ srv.latest \in Nat /\ sequence \in Nat
  BY ViewIs DEF FeedTypes, ServerState, LogInv, LogTypes
<1>3. /\ srv' \in ServerState /\ srv'.at = "counted" /\ srv'.cursor = srv.cursor /\ srv'.latest = sequence
      /\ srv'.over => finalAt # 0 /\ finalAt <= sequence
  BY <1>1, <1>2, ReadIs
<1>4. view.at = "connected" /\ srv.cursor <= sequence
  BY <1>1, <1>2 DEF ViewWaits, ServerReads, FeedTypes, ViewState
<1>5. view' = view /\ frames' = frames /\ sequence' = sequence /\ finalAt' = finalAt
  BY <1>1 DEF log
<1>6. FeedTypes' /\ ServerReads' /\ ViewWaits'
  BY <1>2, <1>3, <1>4, <1>5 DEF FeedTypes, ServerReads, ViewWaits
<1>7. Stream'
  BY <1>1, <1>3, <1>4, <1>5 DEF Stream
<1> QED  BY <1>1, <1>6, <1>7

\* Where the stream ends, for whatever reason, nothing is left on the way.
LEMMA StopsKeep ==
  ASSUME LogInv, FeedInv, view' \in ViewState, view'.cursor = view.cursor,
         view'.at \in {"waiting", "complete", "error"}, frames' = <<>>, srv' = Off, UNCHANGED log
  PROVE  FeedInv'
<1>1. srv' \in ServerState /\ srv'.at = "off" /\ frames' \in Seq(Frame)
  BY OffIs
<1>2. sequence' = sequence
  BY DEF log
<1> QED  BY <1>1, <1>2 DEF FeedInv, FeedTypes, ServerReads, ViewWaits, Stream

LEMMA CutKeeps ==
  ASSUME LogInv, FeedInv, Cut
  PROVE  /\ FeedInv' /\ UNCHANGED log
         /\ view.at \in {"waiting", "connected"} /\ view'.at \in {"waiting", "error"}
         /\ view'.cursor = view.cursor
<1>1. PICK v \in ViewState : v = view
  BY DEF FeedInv, FeedTypes
<1>2. view' = Reconnects(v) /\ frames' = <<>> /\ srv' = Off /\ UNCHANGED log /\ view.at \in {"waiting", "connected"}
  BY <1>1 DEF Cut
<1>3. view' \in ViewState /\ view'.cursor = v.cursor /\ view'.at \in {"waiting", "error"}
  <2>1. CASE v.failures = MaxFailures
    <3>1. view' = [v EXCEPT !.at = "error", !.why = "gave_up"]
      BY <1>2, <2>1 DEF Reconnects
    <3> QED  BY <3>1 DEF ViewState
  <2>2. CASE v.failures # MaxFailures
    <3>1. view' = [v EXCEPT !.at = "waiting", !.failures = v.failures + 1]
      BY <1>2, <2>2 DEF Reconnects
    <3>2. v.failures + 1 \in 0 .. MaxFailures
      BY <2>2, BoundAssumption DEF ViewState
    <3> QED  BY <3>1, <3>2 DEF ViewState
  <2> QED  BY <2>1, <2>2
<1> QED  BY <1>1, <1>2, <1>3, StopsKeep

LEMMA StopsViewIs ==
  ASSUME NEW v \in ViewState, NEW why \in {"gap", "ending", "missing"}
  PROVE  /\ StopsView(v, why) \in ViewState /\ StopsView(v, why).at = "error"
         /\ StopsView(v, why).cursor = v.cursor
  BY DEF StopsView, ViewState

LEMMA MissingKeeps ==
  ASSUME LogInv, FeedInv, RequestDeleted
  PROVE  /\ FeedInv' /\ UNCHANGED log
         /\ view.at \in {"loading", "waiting"} /\ view'.at = "error" /\ view'.cursor = view.cursor
<1>1. /\ view.at \in {"loading", "waiting"} /\ srv.at = "off" /\ view' = StopsView(view, "missing")
      /\ UNCHANGED <<log, srv, frames>>
  BY DEF RequestDeleted
<1>2. view \in ViewState
  BY DEF FeedInv, FeedTypes
<1>3. view' \in ViewState /\ view'.at = "error" /\ view'.cursor = view.cursor
  BY <1>1, <1>2, StopsViewIs
<1>4. sequence' = sequence /\ frames = <<>>
  BY <1>1 DEF log, FeedInv, ViewWaits
<1> QED  BY <1>1, <1>3, <1>4 DEF FeedInv, FeedTypes, ServerReads, ViewWaits, Stream

\* What the view makes of the next frame: it shows the next event, it ends
\* with the task, or it stops or waits without having shown anything.
LEMMA ReceiveIs ==
  ASSUME LogInv, FeedInv, Receive
  PROVE  /\ UNCHANGED log /\ view.at = "connected" /\ view' \in ViewState /\ Len(frames) > 0
         /\ \/ /\ view'.at = "connected" /\ view'.cursor = view.cursor + 1 /\ view'.cursor <= sequence
               /\ frames' = Tail(frames) /\ srv' = srv /\ frames[1].kind = "workflow"
            \/ /\ view'.at \in {"waiting", "complete", "error"} /\ view'.cursor = view.cursor
               /\ frames' = <<>> /\ srv' = Off
               /\ view'.at = "complete" => finalAt # 0 /\ finalAt <= view.cursor
<1>1. PICK v \in ViewState : v = view
  BY DEF FeedInv, FeedTypes
<1>2. v.cursor \in Nat /\ Len(frames) \in Nat /\ frames # <<>> /\ v.at = "connected" /\ frames \in Seq(Frame)
  BY <1>1, ViewIs DEF Receive, FeedInv, FeedTypes
<1>3. Len(frames) > 0 /\ Head(frames) = frames[1] /\ frames[1] \in Frame
  BY <1>2
<1>4. PICK f \in Frame : f = frames[1]
  BY <1>3
<1>5. /\ f.kind = "workflow" => f.sequence = v.cursor + 1 /\ f.sequence <= sequence
      /\ f.kind = "terminal" /\ f.over => finalAt # 0 /\ finalAt < v.cursor + 1
  BY <1>1, <1>2, <1>3, <1>4 DEF FeedInv, Stream
<1>6. /\ view' = IF f.kind = "workflow" THEN Shows(f.sequence) ELSE Ends(f)
      /\ frames' = IF view'.at = "connected" THEN Tail(frames) ELSE <<>>
      /\ srv' = IF view'.at = "connected" THEN srv ELSE Off
      /\ UNCHANGED log
  BY <1>3, <1>4 DEF Receive
<1>7. CASE f.kind = "workflow"
  <2>1. view' = [v EXCEPT !.cursor = v.cursor + 1, !.failures = 0]
    <3>1. ~(v.cursor + 1 <= v.cursor)
      BY <1>2
    <3> QED  BY <1>1, <1>5, <1>6, <1>7, <3>1 DEF Shows
  <2>2. v.cursor + 1 \in Sequence /\ v.cursor + 1 <= sequence
    BY <1>2, <1>5, <1>7, BoundAssumption DEF Sequence, LogInv, LogTypes
  <2>3. view' \in ViewState /\ view'.at = "connected" /\ view'.cursor = v.cursor + 1
    <3>1. PICK n \in Sequence : n = v.cursor + 1
      BY <2>2
    <3>2. view' = [v EXCEPT !.cursor = n, !.failures = 0] /\ 0 \in 0 .. MaxFailures
      BY <2>1, <3>1, BoundAssumption
    <3> QED  BY <1>2, <3>1, <3>2 DEF ViewState
  <2> QED  BY <1>1, <1>2, <1>3, <1>4, <1>6, <1>7, <2>2, <2>3
<1>8. CASE f.kind = "terminal" /\ f.over
  <2>1. view' = [v EXCEPT !.at = "complete"]
    BY <1>1, <1>6, <1>8 DEF Ends
  <2>2. view' \in ViewState /\ view'.at = "complete" /\ view'.cursor = v.cursor
    BY <2>1 DEF ViewState
  <2>3. finalAt # 0 /\ finalAt <= v.cursor
    BY <1>2, <1>5, <1>8, BoundAssumption DEF LogInv, LogTypes, Sequence
  <2> QED  BY <1>1, <1>2, <1>3, <1>6, <2>2, <2>3
<1>9. CASE f.kind # "workflow" /\ ~(f.kind = "terminal" /\ f.over)
  <2>1. view' = [v EXCEPT !.at = "waiting", !.failures = 0] \/ view' = StopsView(v, "ending")
    BY <1>1, <1>6, <1>9 DEF Ends
  <2>2. view' \in ViewState /\ view'.at \in {"waiting", "error"} /\ view'.cursor = v.cursor
    <3>1. CASE view' = StopsView(v, "ending")
      BY <3>1, StopsViewIs
    <3>2. CASE view' = [v EXCEPT !.at = "waiting", !.failures = 0]
      <4>1. 0 \in 0 .. MaxFailures
        BY BoundAssumption
      <4> QED  BY <3>2, <4>1 DEF ViewState
    <3> QED  BY <2>1, <3>1, <3>2
  <2> QED  BY <1>1, <1>2, <1>3, <1>6, <2>2
<1> QED  BY <1>7, <1>8, <1>9

LEMMA ReceiveKeeps == ASSUME LogInv, FeedInv, Receive PROVE FeedInv'
<1>1. /\ view' \in ViewState /\ UNCHANGED log /\ view.at = "connected" /\ Len(frames) > 0
  BY ReceiveIs
<1>2. ASSUME view'.at = "connected", view'.cursor = view.cursor + 1, view'.cursor <= sequence,
             frames' = Tail(frames), srv' = srv, frames[1].kind = "workflow"
      PROVE  FeedInv'
  <2> USE DEF FeedInv
  <2>1. view.cursor \in Nat /\ Len(frames) \in Nat
    BY ViewIs
  <2>2. /\ frames' \in Seq(Frame) /\ Len(frames') = Len(frames) - 1
        /\ \A i \in 1 .. Len(frames') : frames'[i] = frames[i + 1]
    BY <1>1, <1>2, <2>1 DEF FeedTypes
  <2>3. sequence' = sequence /\ finalAt' = finalAt
    BY <1>1 DEF log
  <2>4. FeedTypes' /\ ServerReads' /\ ViewWaits'
    BY <1>1, <1>2, <2>2, <2>3 DEF FeedTypes, ServerReads, ViewWaits
  <2>5. Stream'
    <3>1. ASSUME NEW i \in 1 .. Len(frames')
          PROVE /\ srv.at # "off" => frames'[i].kind = "workflow"
                /\ frames'[i].kind = "workflow" =>
                     frames'[i].sequence = view'.cursor + i /\ frames'[i].sequence <= sequence'
                /\ frames'[i].kind # "workflow" => i = Len(frames')
                /\ frames'[i].kind = "terminal" /\ frames'[i].over =>
                     finalAt' # 0 /\ finalAt' < view'.cursor + i
      <4>1. i + 1 \in 1 .. Len(frames) /\ frames'[i] = frames[i + 1] /\ i \in Nat
        BY <2>1, <2>2
      <4>2. /\ srv.at # "off" => frames[i + 1].kind = "workflow"
            /\ frames[i + 1].kind = "workflow" =>
                 frames[i + 1].sequence = view.cursor + (i + 1) /\ frames[i + 1].sequence <= sequence
            /\ frames[i + 1].kind # "workflow" => i + 1 = Len(frames)
            /\ frames[i + 1].kind = "terminal" /\ frames[i + 1].over =>
                 finalAt # 0 /\ finalAt < view.cursor + (i + 1)
        BY <1>1, <4>1 DEF Stream
      <4>3. view'.cursor + i = view.cursor + (i + 1)
        <5>1. PICK c \in Nat : c = view.cursor
          BY <2>1
        <5>2. view'.cursor = c + 1
          BY <1>2, <5>1
        <5>3. (c + 1) + i = c + (i + 1)
          BY <4>1, <5>1
        <5> QED  BY <5>1, <5>2, <5>3, Zenon
      <4>4. i + 1 = Len(frames) => i = Len(frames')
        BY <2>1, <2>2, <4>1
      <4> QED  BY <2>3, <4>1, <4>2, <4>3, <4>4
    <3>2. srv.at # "off" => srv'.cursor = view'.cursor + Len(frames')
      <4> HAVE srv.at # "off"
      <4>1. srv.cursor = view.cursor + Len(frames)
        BY <1>1 DEF Stream
      <4> QED  BY <1>2, <2>1, <2>2, <4>1
    <3>3. srv.at = "off" => Len(frames') > 0 /\ frames'[Len(frames')].kind # "workflow"
      <4> HAVE srv.at = "off"
      <4>1. Len(frames) > 0 /\ frames[Len(frames)].kind # "workflow"
        BY <1>1 DEF Stream
      <4>2. Len(frames) # 1
        BY <1>2, <4>1
      <4>3. Len(frames') \in 1 .. Len(frames') /\ Len(frames') + 1 = Len(frames)
        BY <2>1, <2>2, <4>1, <4>2
      <4> QED  BY <2>2, <4>1, <4>3
    <3> QED  BY <1>2, <3>1, <3>2, <3>3 DEF Stream
  <2> QED  BY <2>4, <2>5
<1> QED  BY <1>1, <1>2, ReceiveIs, StopsKeep

LEMMA FeedSame == ASSUME LogInv, FeedInv, UNCHANGED eventVars PROVE FeedInv'
  BY DEF FeedInv, FeedTypes, ServerReads, ViewWaits, Stream, eventVars

LEMMA FeedInductive == ASSUME LogInv, FeedInv, [EventsNext]_eventVars PROVE FeedInv'
<1>1. ASSUME NEW w \in Writer, Write(w) PROVE FeedInv'
  BY <1>1, WritersKeepFeed
<1>2. CASE Serve
  BY <1>2, ReadRowsKeeps, SendKeepsFeed, SendsEnd, PollKeeps, CutKeeps DEF Serve, PollDeleted
<1>3. CASE Watch
  BY <1>3, RequestKeepsFeed, MissingKeeps, LoadKeeps, ReceiveKeeps DEF Watch
<1> QED  BY <1>1, <1>2, <1>3, CutKeeps, FeedSame DEF EventsNext

-----------------------------------------------------------------------------
(* The log and its view implement what module EventFeed promises.            *)

LEMMA InitMaps == ASSUME EventsInit PROVE Feed!Init
  BY DEF EventsInit, Feed!Init

\* A commit publishes, a page opens the view, a frame shows one event or ends
\* it; nothing else is seen.
LEMMA WriteMaps == ASSUME LogInv, FeedInv, NEW w \in Writer, Write(w) PROVE [Feed!Next]_(Feed!vars)
<1>1. UNCHANGED view
  BY LogGrows DEF feed
<1>2. CASE UNCHANGED <<sequence, finalAt>>
  BY <1>1, <1>2 DEF Feed!vars
<1>3. CASE /\ sequence' > sequence /\ sequence' \in Nat
           /\ finalAt' = finalAt \/ (finalAt = 0 /\ finalAt' = sequence')
  BY <1>1, <1>3 DEF Feed!Next, Feed!Publish
<1> QED  BY <1>2, <1>3, LogGrows

LEMMA QuietMaps ==
  ASSUME UNCHANGED log, view'.cursor = view.cursor,
         (view'.at = "loading") = (view.at = "loading"), (view'.at = "complete") = (view.at = "complete")
  PROVE  UNCHANGED Feed!vars
  BY DEF log, Feed!vars

LEMMA LoadMaps == ASSUME LogInv, FeedInv, Load PROVE Feed!Next
<1>1. view.at = "loading" /\ view'.at = "waiting" /\ view'.cursor \in 0 .. sequence /\ UNCHANGED log
  BY LoadKeeps
<1> QED  BY <1>1 DEF Feed!Next, Feed!Open, log

LEMMA MissingMaps == ASSUME LogInv, FeedInv, RequestDeleted PROVE [Feed!Next]_(Feed!vars)
<1>1. /\ view.at \in {"loading", "waiting"} /\ view'.at = "error" /\ view'.cursor = view.cursor
      /\ UNCHANGED log
  BY MissingKeeps
<1>2. CASE view.at = "loading"
  <2>1. view.cursor \in 0 .. sequence
    BY ViewIs DEF FeedInv, ViewWaits, LogInv, LogTypes
  <2> QED  BY <1>1, <1>2, <2>1 DEF Feed!Next, Feed!Open, log
<1>3. CASE view.at = "waiting"
  BY <1>1, <1>3, QuietMaps
<1> QED  BY <1>1, <1>2, <1>3

LEMMA ReceiveMaps == ASSUME LogInv, FeedInv, Receive PROVE [Feed!Next]_(Feed!vars)
<1>1. view.at = "connected" /\ UNCHANGED log
  BY ReceiveIs
<1>2. CASE view'.at = "connected" /\ view'.cursor = view.cursor + 1 /\ view'.cursor <= sequence
  <2>1. view.cursor < sequence
    BY <1>2, ViewIs DEF LogInv, LogTypes
  <2> QED  BY <1>1, <1>2, <2>1 DEF Feed!Next, Feed!Show, log
<1>3. CASE view'.at = "complete" /\ view'.cursor = view.cursor /\ finalAt # 0 /\ finalAt <= view.cursor
  BY <1>1, <1>3 DEF Feed!Next, Feed!Finish, log
<1>4. CASE view'.at \in {"waiting", "error"} /\ view'.cursor = view.cursor
  BY <1>1, <1>4, QuietMaps
<1> QED  BY <1>2, <1>3, <1>4, ReceiveIs

LEMMA StepMaps == ASSUME LogInv, FeedInv, [EventsNext]_eventVars PROVE [Feed!Next]_(Feed!vars)
<1>1. CASE UNCHANGED eventVars
  BY <1>1 DEF eventVars, Feed!vars
<1>2. ASSUME NEW w \in Writer, Write(w) PROVE [Feed!Next]_(Feed!vars)
  BY <1>2, WriteMaps
<1>3. CASE ReadRows
  <2>1. UNCHANGED log /\ view'.cursor = view.cursor /\ view.at # "loading" /\ view.at # "complete" /\ view'.at = "connected"
    BY <1>3, ReadRowsKeeps
  <2> QED  BY <2>1, QuietMaps
<1>4. CASE Cut
  <2>1. UNCHANGED log /\ view'.cursor = view.cursor /\ view.at # "loading" /\ view.at # "complete"
        /\ view'.at # "loading" /\ view'.at # "complete"
    BY <1>4, CutKeeps
  <2> QED  BY <2>1, QuietMaps
<1>5. CASE Send \/ SendTerminal \/ SendRotate \/ Poll \/ RequestPage
  <2>1. UNCHANGED <<log, view>>
    BY <1>5 DEF Send, SendTerminal, SendRotate, Poll, RequestPage
  <2> QED  BY <2>1, QuietMaps
<1> QED  BY <1>1, <1>2, <1>3, <1>4, <1>5, LoadMaps, MissingMaps, ReceiveMaps
         DEF EventsNext, Serve, Watch, PollDeleted

\* However transactions overlap and wherever the stream is cut, the view keeps
\* the promise of EventFeed: from where it opened it shows every event once and
\* in order, and it says that the task is over only when it has shown its end.
THEOREM ViewsFollow == EventsSpec => FeedIsImplemented
<1>1. EventsInit => LogInv /\ FeedInv
  BY LogInitial, FeedInitial
<1>2. LogInv /\ FeedInv /\ [EventsNext]_eventVars => LogInv' /\ FeedInv'
  BY LogInductive, FeedInductive
<1>3. EventsInit => Feed!Init
  BY InitMaps
<1>4. LogInv /\ FeedInv /\ [EventsNext]_eventVars => [Feed!Next]_(Feed!vars)
  BY StepMaps
<1> QED  BY <1>1, <1>2, <1>3, <1>4, PTL DEF EventsSpec, FeedIsImplemented, Feed!Spec

-----------------------------------------------------------------------------
(* Calls of the language model.  At each point of a call the budget covers   *)
(* what was asked and answered before it, and in a workflow the row of the   *)
(* job covers it whenever the journal has nothing open; a row says less than *)
(* is known of its call, never more; and an answer without usage is the last *)
(* one of its task.                                                          *)

Unsent == {"idle", "counted", "journaled", "logged"}
Underway == {"counted", "journaled", "logged", "waiting", "answered", "accounted", "recorded"}
LedgerRows ==
    [outcome : {"none", "pending", "not_sent", "succeeded", "failed", "uncertain"},
     stage : Stage \cup {"none"}, known : BOOLEAN, usage : Usages, cost : Int]
Deeds == [sent : BOOLEAN, answered : BOOLEAN, blind : BOOLEAN, total : Nat]
Spending == [calls : Nat, tokens : Nat]
Replies == [end : {"none", "succeeded", "failed"}, metered : BOOLEAN, usage : Usages]

CallTypes ==
    /\ durable \in BOOLEAN /\ open \in BOOLEAN
    /\ mpc \in Underway \cup {"idle", "stopped"}
    /\ current \in Nat \ {0} /\ (mpc \in Underway => current \in Call)
    /\ used \in Spending /\ saved \in Spending /\ reply \in Replies
    /\ ledger \in [Call -> LedgerRows] /\ world \in [Call -> Deeds]

\* What a row says of its call.
RowTrue(r, w) ==
    /\ r.outcome = "not_sent" => ~w.sent
    /\ r.outcome \in {"succeeded", "failed"} => w.answered
    /\ r.known => r.usage.total = w.total
    /\ r.usage.hit = Unknown \/ r.usage.hit + r.usage.miss = r.usage.input
    /\ w.sent => r.outcome # "none"
    /\ r.outcome # "none" => r.stage \in Stage
    /\ w.blind => w.sent

\* The call that is under way, and those that are not begun.
CallPlaced ==
    /\ \A c \in Call : c > current \/ (c = current /\ mpc \in Unsent) =>
         ~world[c].sent /\ ~world[c].blind /\ world[c].total = 0
    /\ mpc = "logged" \/ mpc \in Underway \ Unsent => ledger[current].outcome # "none"
    /\ mpc \in {"logged", "waiting", "answered", "accounted"} =>
         ledger[current].outcome = "pending" /\ ~ledger[current].known
    /\ mpc = "waiting" => ~world[current].blind /\ world[current].total = 0
    /\ mpc \in Underway \ Unsent => world[current].sent
    /\ mpc \in {"answered", "accounted"} =>
         /\ world[current].answered /\ reply.end \in {"succeeded", "failed"}
         /\ reply.metered => reply.usage.total = world[current].total
         /\ ~reply.metered => world[current].total = 0
         /\ reply.usage \in Raw \cup {NoUsage}

SentCalls == {c \in Call : world[c].sent}
Paid == IF mpc = "answered" THEN Call \ {current} ELSE Call
PaidUnits == Units([c \in Paid |-> world[c].total])

\* The budget in memory, and that of the row.
BudgetCovers ==
    /\ ~durable => ~open
    /\ durable /\ mpc \in Underway \ {"counted"} => open
    /\ mpc \in {"counted", "journaled", "logged", "waiting", "answered"} => used.tokens < TokenLimit
    /\ mpc = "accounted" /\ ~reply.metered => used.tokens >= TokenLimit
    /\ mpc # "stopped" =>
         /\ Cardinality(SentCalls) + (IF mpc \in Unsent \ {"idle"} THEN 1 ELSE 0) <= used.calls
         /\ IsFiniteSet(PaidUnits) /\ Cardinality(PaidUnits) <= used.tokens
    /\ durable /\ mpc \in {"idle", "counted"} =>
         Cardinality(SentCalls) <= saved.calls /\ Cardinality(PaidUnits) <= saved.tokens

\* Nothing is asked after an answer without usage.
BlindIsLast ==
    /\ \A c \in Call : world[c].blind =>
         \/ mpc = "stopped"
         \/ mpc \in {"answered", "accounted"} /\ c = current /\ ~reply.metered
         \/ mpc = "idle" /\ ~durable /\ used.tokens >= TokenLimit
    /\ \A c, d \in SentCalls : c < d => ~world[c].blind

ReportAdds ==
    /\ report.phase = "totals" =>
         /\ IsFiniteSet(UnitsOf(report.rows, Counted(report.rows)))
         /\ \A c \in Counted(report.rows) : report.rows[c].stage \in Stage
         /\ report.total = Tokens(report.rows, Counted(report.rows))
    /\ report.phase = "shown" => report.groups = report.total

CallsInv ==
    /\ CallTypes
    /\ \A c \in Call : RowTrue(ledger[c], world[c])
    /\ CallPlaced
    /\ BudgetCovers
    /\ BlindIsLast
    /\ IsFiniteSet(UnitsOf(ledger, Call))
    /\ ReportAdds

LEMMA CallConstants ==
    /\ Calls \in Nat /\ CallLimit \in Nat /\ TokenLimit \in Nat /\ Rate \in Nat /\ CachedRate \in Nat
    /\ Raw \subseteq Usages /\ Call = 1 .. Calls /\ IsFiniteSet(Call) /\ NoUsage \in Usages
<1>1. Calls \in Nat /\ CallLimit \in Nat /\ TokenLimit \in Nat /\ Rate \in Nat /\ CachedRate \in Nat /\ Raw \subseteq Usages
  BY ModelCallsAssumption
<1>2. IsFiniteSet(1 .. Calls)
  BY <1>1, FS_Interval
<1> QED  BY <1>1, <1>2 DEF Call, NoUsage, Usages, Unknown

-----------------------------------------------------------------------------
(* Sums.                                                                     *)

LEMMA UnitsAre ==
    ASSUME NEW f
    PROVE  \A u : u \in Units(f) <=> \E c \in DOMAIN f : \E k \in 1 .. f[c] : u = <<c, k>>
  BY DEF Units

\* A sum in which one term is new grows by that term.
LEMMA UnitsGrow ==
    ASSUME NEW f, NEW g, NEW x, NEW n \in Nat, IsFiniteSet(Units(g)),
           \A c \in DOMAIN f : (c \in DOMAIN g /\ f[c] = g[c]) \/ (c = x /\ f[c] = n)
    PROVE  /\ IsFiniteSet(Units(f))
           /\ Cardinality(Units(f)) \in Nat /\ Cardinality(Units(g)) \in Nat
           /\ Cardinality(Units(f)) <= Cardinality(Units(g)) + n
<1>1. PICK T : T = {x} \X (1 .. n)
  OBVIOUS
<1>2. IsFiniteSet(T) /\ Cardinality(T) = n
  <2>1. PICK A, B : A = {x} /\ B = 1 .. n
    OBVIOUS
  <2>2. IsFiniteSet(A) /\ Cardinality(A) = 1
    BY <2>1, FS_Singleton
  <2>3. IsFiniteSet(B) /\ Cardinality(B) = n
    BY <2>1, FS_Interval
  <2>4. IsFiniteSet(A \X B) /\ Cardinality(A \X B) = Cardinality(A) * Cardinality(B)
    BY ONLY <2>2, <2>3, FS_Product
  <2>5. QED  BY <1>1, <2>1, <2>2, <2>3, <2>4
<1>3. PICK G : G = Units(g)
  OBVIOUS
<1>4. Units(f) \in SUBSET (G \cup T)
  <2>1. ASSUME NEW u \in Units(f) PROVE u \in G \cup T
    <3>1. PICK c \in DOMAIN f : \E k \in 1 .. f[c] : u = <<c, k>>
      BY UnitsAre
    <3>2. PICK k \in 1 .. f[c] : u = <<c, k>>
      BY <3>1
    <3>3. CASE c \in DOMAIN g /\ f[c] = g[c]
      BY <1>3, <3>2, <3>3, UnitsAre
    <3>4. CASE c = x /\ f[c] = n
      BY <1>1, <3>2, <3>4
    <3>5. QED  BY <3>3, <3>4
  <2>2. QED  BY <2>1
<1>5. IsFiniteSet(G \cup T) /\ Cardinality(G \cup T) = Cardinality(G) + Cardinality(T) - Cardinality(G \cap T)
  BY <1>2, <1>3, FS_Union
<1>6. Cardinality(G \cap T) \in Nat /\ Cardinality(G) \in Nat
  <2>1. G \cap T \in SUBSET T
    OBVIOUS
  <2>2. IsFiniteSet(G \cap T)
    BY <1>2, <2>1, FS_Subset
  <2>3. QED  BY <1>3, <2>2, FS_CardinalityType
<1>7. IsFiniteSet(Units(f)) /\ Cardinality(Units(f)) <= Cardinality(G \cup T)
  BY <1>4, <1>5, FS_Subset
<1>8. Cardinality(Units(f)) \in Nat /\ Cardinality(G \cup T) \in Nat
  BY <1>5, <1>7, FS_CardinalityType
<1> QED  BY <1>2, <1>3, <1>5, <1>6, <1>7, <1>8

LEMMA UnitsShrink ==
    ASSUME NEW f, NEW g, IsFiniteSet(Units(g)),
           \A c \in DOMAIN f : (c \in DOMAIN g /\ f[c] = g[c]) \/ f[c] = 0
    PROVE  IsFiniteSet(Units(f)) /\ Cardinality(Units(f)) <= Cardinality(Units(g))
<1>1. ASSUME NEW u \in Units(f) PROVE u \in Units(g)
  <2>1. PICK c \in DOMAIN f : \E k \in 1 .. f[c] : u = <<c, k>>
    BY UnitsAre
  <2>2. f[c] # 0
    BY <2>1
  <2>3. QED  BY <2>1, <2>2, UnitsAre
<1>2. Units(f) \in SUBSET Units(g)
  BY <1>1
<1> QED  BY <1>2, FS_Subset

\* What is read from a price list or from a provider.
LEMMA ParseIs ==
    ASSUME NEW u \in Usages
    PROVE  /\ Parse(u) \in Usages /\ Parse(u).total = u.total
           /\ Parse(u).hit = Unknown \/ Parse(u).hit + Parse(u).miss = Parse(u).input
<1>1. /\ u.input \in Nat /\ u.total \in Nat /\ u.hit \in Nat \cup {Unknown} /\ u.miss \in Nat \cup {Unknown}
  BY DEF Usages
<1>2. PICK h : h = IF u.hit = Unknown /\ u.miss # Unknown /\ u.miss <= u.input THEN u.input - u.miss ELSE u.hit
  OBVIOUS
<1>3. PICK m : m = IF u.miss = Unknown /\ h # Unknown /\ h <= u.input THEN u.input - h ELSE u.miss
  OBVIOUS
<1>4. h \in Nat \cup {Unknown}
  BY <1>1, <1>2 DEF Unknown
<1>5. m \in Nat \cup {Unknown}
  BY <1>1, <1>3, <1>4 DEF Unknown
<1>6. Parse(u) = IF h # Unknown /\ m # Unknown /\ h + m = u.input
                   THEN [u EXCEPT !.hit = h, !.miss = m]
                   ELSE [u EXCEPT !.hit = Unknown, !.miss = Unknown]
  BY <1>2, <1>3 DEF Parse
<1>7. CASE h # Unknown /\ m # Unknown /\ h + m = u.input
  BY <1>4, <1>5, <1>6, <1>7 DEF Usages
<1>8. CASE ~(h # Unknown /\ m # Unknown /\ h + m = u.input)
  BY <1>6, <1>8 DEF Usages
<1> QED  BY <1>7, <1>8

LEMMA EstimateIs == ASSUME NEW u \in Usages PROVE Estimate(u) \in Int
<1>1. \A a, b \in Int : a * b \in Int
  OBVIOUS
<1>2. /\ u.input \in Int /\ u.output \in Int /\ u.hit \in Int /\ u.miss \in Int
      /\ Rate \in Int /\ CachedRate \in Int /\ Unknown \in Int
  BY CallConstants DEF Usages, Unknown
<1>3. PICK a \in Int, b \in Int, d \in Int :
        /\ a = (u.input + u.output) * Rate /\ b = u.hit * CachedRate /\ d = (u.miss + u.output) * Rate
  BY <1>1, <1>2
<1>4. b + d \in Int
  OBVIOUS
<1> QED  BY <1>2, <1>3, <1>4 DEF Estimate

-----------------------------------------------------------------------------
(* The steps.                                                                *)

LEMMA CallsBegin == ASSUME CallsInit PROVE CallsInv
<1>1. NoUsage \in Usages /\ 0 \in Nat /\ Unknown \in Int /\ Unknown # 0
  BY CallConstants DEF Unknown
<1>2. NoRow \in LedgerRows /\ NoReply \in Replies /\ Zero \in Spending
  BY <1>1 DEF NoRow, LedgerRows, NoReply, Replies, Zero, Spending
<1>3. CallTypes
  <2>1. ledger \in [Call -> LedgerRows] /\ world \in [Call -> Deeds]
    BY <1>1, <1>2 DEF CallsInit, Deeds
  <2>2. used \in Spending /\ saved \in Spending /\ reply \in Replies
    BY <1>2 DEF CallsInit
  <2>3. durable \in BOOLEAN /\ open \in BOOLEAN /\ mpc = "idle" /\ current = 1
    BY DEF CallsInit
  <2>4. QED  BY ONLY <2>1, <2>2, <2>3 DEF CallTypes, Underway
<1>4. \A c \in Call : RowTrue(ledger[c], world[c])
  BY <1>1 DEF CallsInit, RowTrue, NoRow, NoUsage
<1>5. CallPlaced
  BY DEF CallsInit, CallPlaced, Underway, Unsent
<1>6. BlindIsLast
  BY DEF CallsInit, BlindIsLast, SentCalls
<1>7. SentCalls = {}
  BY DEF CallsInit, SentCalls
<1>8. PaidUnits = {} /\ UnitsOf(ledger, Call) = {}
  <2>1. ASSUME NEW u \in PaidUnits PROVE FALSE
    BY <2>1, UnitsAre DEF CallsInit, PaidUnits, Paid
  <2>2. ASSUME NEW u \in UnitsOf(ledger, Call) PROVE FALSE
    BY <2>2, UnitsAre DEF CallsInit, UnitsOf, NoRow, NoUsage
  <2>3. QED  BY <2>1, <2>2
<1>9. BudgetCovers
  BY <1>7, <1>8, FS_EmptySet DEF CallsInit, BudgetCovers, Zero, Unsent, Underway
<1>10. ReportAdds
  BY DEF CallsInit, NoReport, ReportAdds
<1> QED  BY <1>3, <1>4, <1>5, <1>6, <1>8, <1>9, <1>10, FS_EmptySet DEF CallsInv

LEMMA StillKeeps ==
    ASSUME CallsInv, UNCHANGED <<ledger, world, report>>, CallTypes', CallPlaced', BudgetCovers', BlindIsLast'
    PROVE  CallsInv'
<1>1. UnitsOf(ledger, Call)' = UnitsOf(ledger, Call)
  OBVIOUS
<1>2. ReportAdds'
  BY DEF CallsInv, ReportAdds
<1>3. \A c \in Call : RowTrue(ledger'[c], world'[c])
  BY DEF CallsInv
<1> QED  BY <1>1, <1>2, <1>3 DEF CallsInv

\* A step that writes the row of the call.
LEMMA RowKeeps ==
    ASSUME CallsInv, NEW R \in LedgerRows, current \in Call, ledger' = [ledger EXCEPT ![current] = R],
           UNCHANGED report, \A c \in Call : c # current => world'[c] = world[c],
           RowTrue(R, world'[current]), CallTypes', CallPlaced', BudgetCovers', BlindIsLast'
    PROVE  CallsInv'
<1>1. /\ ledger'[current] = R /\ \A c \in Call : c # current => ledger'[c] = ledger[c]
      /\ R.usage.total \in Nat
  BY DEF CallsInv, CallTypes, LedgerRows, Usages
<1>2. IsFiniteSet(UnitsOf(ledger', Call))
  <2>1. PICK f, g : f = [c \in Call |-> ledger'[c].usage.total] /\ g = [c \in Call |-> ledger[c].usage.total]
    OBVIOUS
  <2>2. IsFiniteSet(Units(g))
    BY <2>1 DEF CallsInv, UnitsOf
  <2>3. \A c \in DOMAIN f : (c \in DOMAIN g /\ f[c] = g[c]) \/ (c = current /\ f[c] = R.usage.total)
    BY <1>1, <2>1
  <2>4. PICK n \in Nat : n = R.usage.total
    BY <1>1
  <2>5. \A c \in DOMAIN f : (c \in DOMAIN g /\ f[c] = g[c]) \/ (c = current /\ f[c] = n)
    BY <2>3, <2>4
  <2>6. IsFiniteSet(Units(f))
    BY ONLY <2>2, <2>5, UnitsGrow
  <2>7. QED  BY <2>1, <2>6 DEF UnitsOf
<1>3. \A c \in Call : RowTrue(ledger'[c], world'[c])
  BY <1>1 DEF CallsInv
<1>4. ReportAdds'
  BY DEF CallsInv, ReportAdds
<1> QED  BY <1>2, <1>3, <1>4 DEF CallsInv

LEMMA SameDeeds ==
    ASSUME mpc # "answered", mpc' # "answered",
           \A c \in Call : world'[c].sent = world[c].sent /\ world'[c].total = world[c].total
    PROVE  SentCalls' = SentCalls /\ PaidUnits' = PaidUnits
<1>1. Paid = Call /\ Paid' = Call
  BY DEF Paid
<1> QED  BY <1>1 DEF SentCalls, PaidUnits

LEMMA NoneBlind ==
    ASSUME CallsInv, mpc \in Underway \ {"answered", "accounted"}
    PROVE  \A c \in Call : ~world[c].blind
BY DEF CallsInv, BlindIsLast, Underway

LEMMA StillUnblind ==
    ASSUME \A c \in Call : ~world[c].blind, \A c \in Call : world'[c].blind => world[c].blind
    PROVE  BlindIsLast'
BY DEF BlindIsLast, SentCalls

LEMMA SumsAreNat ==
    ASSUME CallsInv
    PROVE  /\ IsFiniteSet(SentCalls) /\ Cardinality(SentCalls) \in Nat
           /\ mpc # "stopped" => Cardinality(PaidUnits) \in Nat
<1>1. SentCalls \in SUBSET Call
  BY DEF SentCalls
<1>2. IsFiniteSet(SentCalls)
  BY <1>1, CallConstants, FS_Subset
<1> QED  BY <1>2, FS_CardinalityType DEF CallsInv, BudgetCovers

LEMMA CallCountKeeps == ASSUME CallsInv, Count PROVE CallsInv'
<1>1. /\ mpc = "idle" /\ mpc' = "counted" /\ current \in Call /\ used.tokens < TokenLimit
      /\ UNCHANGED <<durable, current, saved, open, reply, ledger, world, report>>
      /\ used.calls \in Nat /\ used.tokens \in Nat
  BY DEF Count, CallsInv, CallTypes, Spending
<1>2. used' \in Spending /\ used'.calls = used.calls + 1 /\ used'.tokens = used.tokens
  BY <1>1 DEF Count, CallsInv, CallTypes, Spending
<1>3. CallTypes'
  BY <1>1, <1>2 DEF CallsInv, CallTypes, Underway
<1>4. CallPlaced'
  BY <1>1 DEF CallsInv, CallPlaced, Underway, Unsent
<1>5. SentCalls' = SentCalls /\ PaidUnits' = PaidUnits
  BY <1>1, SameDeeds
<1>6. BudgetCovers'
  BY <1>1, <1>2, <1>5, SumsAreNat DEF CallsInv, BudgetCovers, Underway, Unsent
<1>7. BlindIsLast'
  <2>1. \A c \in Call : ~world[c].blind
    BY <1>1, CallConstants DEF CallsInv, BlindIsLast
  <2>2. QED  BY <1>1, <1>5, <2>1 DEF BlindIsLast, SentCalls
<1> QED  BY <1>1, <1>3, <1>4, <1>6, <1>7, StillKeeps

LEMMA LargerIs ==
    ASSUME NEW a \in Spending, NEW b \in Spending
    PROVE  /\ Larger(a, b) \in Spending
           /\ Larger(a, b).calls >= a.calls /\ Larger(a, b).calls >= b.calls
           /\ Larger(a, b).tokens >= a.tokens /\ Larger(a, b).tokens >= b.tokens
<1>1. a.calls \in Nat /\ a.tokens \in Nat /\ b.calls \in Nat /\ b.tokens \in Nat
  BY DEF Spending
<1> QED  BY <1>1 DEF Larger, Spending

LEMMA CallJournalKeeps == ASSUME CallsInv, Journal PROVE CallsInv'
<1>1. /\ mpc = "counted" /\ mpc' = "journaled" /\ open' = durable
      /\ UNCHANGED <<durable, current, used, reply, ledger, world, report>>
      /\ saved' \in Spending
  BY LargerIs DEF Journal, CallsInv, CallTypes
<1>2. CallTypes'
  BY <1>1 DEF CallsInv, CallTypes, Underway
<1>3. CallPlaced'
  BY <1>1 DEF CallsInv, CallPlaced, Underway, Unsent
<1>4. SentCalls' = SentCalls /\ PaidUnits' = PaidUnits
  BY <1>1, SameDeeds
<1>5. BudgetCovers'
  BY <1>1, <1>4 DEF CallsInv, BudgetCovers, Underway, Unsent
<1>6. BlindIsLast'
  BY <1>1, <1>4 DEF CallsInv, BlindIsLast
<1> QED  BY <1>1, <1>2, <1>3, <1>5, <1>6, StillKeeps

LEMMA ReturnPlaces ==
    ASSUME CallsInv, Return, current \in Call, world' \in [Call -> Deeds], ledger' \in [Call -> LedgerRows],
           used' \in Spending, saved' \in Spending, open' \in BOOLEAN, durable' = durable,
           \A c \in Call : c # current => world'[c] = world[c]
    PROVE  CallTypes' /\ CallPlaced' /\ mpc' \in {"idle", "stopped"} /\ (mpc' = "stopped" <=> open')
<1>1. /\ mpc' = IF open' THEN "stopped" ELSE "idle"
      /\ current' = current + 1 /\ reply' = NoReply /\ current \in Nat \ {0}
  BY DEF Return, CallsInv, CallTypes
<1>2. NoReply \in Replies
  BY CallConstants DEF NoReply, Replies
<1>3. CallTypes'
  BY <1>1, <1>2 DEF CallsInv, CallTypes, Underway
<1>4. ASSUME NEW c \in Call, c >= current + 1
      PROVE  ~world'[c].sent /\ ~world'[c].blind /\ world'[c].total = 0
  <2>1. c > current /\ c # current
    BY <1>1, <1>4, CallConstants
  <2>2. QED  BY <2>1 DEF CallsInv, CallPlaced
<1>5. CallPlaced'
  BY <1>1, <1>4, CallConstants DEF CallPlaced, Underway, Unsent
<1> QED  BY <1>1, <1>3, <1>5

LEMMA GiveBackPlaces ==
    ASSUME CallsInv, GiveBack, mpc \in {"journaled", "logged"}, world' = world, ledger' \in [Call -> LedgerRows]
    PROVE  CallTypes' /\ CallPlaced' /\ BudgetCovers' /\ BlindIsLast' /\ UNCHANGED report
<1>1. /\ current \in Call /\ used \in Spending /\ saved \in Spending /\ durable \in BOOLEAN
      /\ world \in [Call -> Deeds]
  BY DEF CallsInv, CallTypes, Underway
<1> DEFINE fewer(x) == [x EXCEPT !.calls = IF @ > 0 THEN @ - 1 ELSE 0]
<1>2. /\ used' = fewer(used) /\ open' = FALSE /\ Return /\ UNCHANGED <<durable, report>>
      /\ saved' = IF durable THEN Larger(used', fewer(saved)) ELSE saved
  BY DEF GiveBack
<1>3. Cardinality(SentCalls) \in Nat /\ Cardinality(PaidUnits) \in Nat
  BY SumsAreNat
<1>4. /\ Cardinality(SentCalls) + 1 <= used.calls /\ Cardinality(PaidUnits) <= used.tokens
      /\ IsFiniteSet(PaidUnits)
  BY DEF CallsInv, BudgetCovers, Unsent
<1>5. /\ used' \in Spending /\ fewer(saved) \in Spending
      /\ used'.tokens = used.tokens /\ used'.calls >= used.calls - 1
  BY <1>1, <1>2 DEF Spending
<1>6. saved' \in Spending /\ (durable => saved'.calls >= used'.calls /\ saved'.tokens >= used'.tokens)
  BY <1>1, <1>2, <1>5, LargerIs
<1>7. CallTypes' /\ CallPlaced' /\ mpc' = "idle"
  BY <1>1, <1>2, <1>5, <1>6, ReturnPlaces
<1>8. SentCalls' = SentCalls /\ PaidUnits' = PaidUnits
  BY <1>7, SameDeeds
<1>9. /\ Cardinality(SentCalls) <= used'.calls /\ Cardinality(PaidUnits) <= used'.tokens
      /\ durable => Cardinality(SentCalls) <= saved'.calls /\ Cardinality(PaidUnits) <= saved'.tokens
  <2>1. /\ used.calls \in Nat /\ used.tokens \in Nat /\ used'.calls \in Nat /\ used'.tokens \in Nat
        /\ saved'.calls \in Nat /\ saved'.tokens \in Nat
    BY <1>1, <1>5, <1>6 DEF Spending
  <2>2. QED  BY ONLY <2>1, <1>3, <1>4, <1>5, <1>6
<1>10. BudgetCovers'
  <2>1. /\ IsFiniteSet(PaidUnits')
        /\ Cardinality(SentCalls') <= used'.calls /\ Cardinality(PaidUnits') <= used'.tokens
        /\ durable' => Cardinality(SentCalls') <= saved'.calls /\ Cardinality(PaidUnits') <= saved'.tokens
    BY <1>2, <1>4, <1>8, <1>9
  <2>2. Cardinality(SentCalls') \in Nat /\ used'.calls \in Nat
    BY <1>3, <1>5, <1>8 DEF Spending
  <2>3. mpc' = "idle" /\ open' = FALSE
    BY <1>2, <1>7
  <2>4. QED  BY ONLY <2>1, <2>2, <2>3 DEF BudgetCovers, Underway, Unsent
<1>11. BlindIsLast'
  BY NoneBlind, StillUnblind DEF Underway
<1> QED  BY <1>2, <1>7, <1>10, <1>11

\* The row that finish may have written.
LEMMA FinishIs ==
    ASSUME CallsInv, current \in Call, NEW outcome \in {"not_sent", "succeeded", "failed", "uncertain"},
           NEW metered \in BOOLEAN, NEW u \in Usages, FinishRow(outcome, metered, u),
           ledger[current].outcome = "pending", ~ledger[current].known
    PROVE  \E R \in LedgerRows :
             /\ ledger' = [ledger EXCEPT ![current] = R] /\ ledger' \in [Call -> LedgerRows]
             /\ R.stage \in Stage /\ R.outcome \in {outcome, "pending"}
             /\ R.known => metered /\ R.usage.total = u.total
             /\ R.usage.hit = Unknown \/ R.usage.hit + R.usage.miss = R.usage.input
<1>1. PICK r \in LedgerRows : r = ledger[current]
  BY DEF CallsInv, CallTypes
<1>2. /\ r.outcome = "pending" /\ ~r.known /\ r.stage \in Stage
      /\ r.usage.hit = Unknown \/ r.usage.hit + r.usage.miss = r.usage.input
  BY <1>1 DEF CallsInv, RowTrue
<1>3. ledger \in [Call -> LedgerRows]
  BY DEF CallsInv, CallTypes
<1>4. PICK v \in Usages : v = Parse(u)
  BY ParseIs
<1>5. v.total = u.total /\ (v.hit = Unknown \/ v.hit + v.miss = v.input)
  BY <1>4, ParseIs
<1>6. PICK p \in Int : p = Estimate(v)
  BY EstimateIs
<1>7. CASE ledger' = ledger
  <2>1. ledger' = [ledger EXCEPT ![current] = r]
    BY <1>1, <1>3, <1>7
  <2>2. QED  BY <1>1, <1>2, <1>3, <1>7, <2>1
<1>8. CASE ledger' # ledger
  <2>1. PICK R : R = [r EXCEPT !.outcome = outcome, !.known = metered,
                        !.usage = IF metered THEN v ELSE r.usage, !.cost = IF metered THEN p ELSE r.cost]
    OBVIOUS
  <2>2. ledger' = [ledger EXCEPT ![current] = R]
    BY <1>1, <1>4, <1>6, <1>8, <2>1 DEF FinishRow, Finished
  <2>3. R \in LedgerRows
    BY <2>1 DEF LedgerRows
  <2>4. /\ R.stage = r.stage /\ R.outcome = outcome /\ R.known = metered
        /\ metered => R.usage = v
        /\ ~metered => R.usage = r.usage
    BY <2>1 DEF LedgerRows
  <2>5. R.usage.hit = Unknown \/ R.usage.hit + R.usage.miss = R.usage.input
    BY <1>2, <1>5, <2>4
  <2>6. ledger' \in [Call -> LedgerRows]
    BY <1>3, <2>2, <2>3
  <2>7. QED  BY <1>2, <1>5, <2>2, <2>3, <2>4, <2>5, <2>6
<1> QED  BY <1>7, <1>8

LEMMA CallRejectKeeps == ASSUME CallsInv, RejectLocally PROVE CallsInv'
<1>1. /\ mpc = "logged" /\ current \in Call /\ world' = world /\ GiveBack
      /\ FinishRow("not_sent", FALSE, NoUsage) /\ NoUsage \in Usages
      /\ ledger[current].outcome = "pending" /\ ~ledger[current].known
  BY CallConstants DEF RejectLocally, CallsInv, CallTypes, CallPlaced, Underway
<1>2. PICK R \in LedgerRows :
        /\ ledger' = [ledger EXCEPT ![current] = R] /\ ledger' \in [Call -> LedgerRows]
        /\ R.stage \in Stage /\ R.outcome \in {"not_sent", "pending"}
        /\ R.known => FALSE /\ R.usage.total = NoUsage.total
        /\ R.usage.hit = Unknown \/ R.usage.hit + R.usage.miss = R.usage.input
  BY ONLY <1>1, FinishIs, CallsInv
<1>3. CallTypes' /\ CallPlaced' /\ BudgetCovers' /\ BlindIsLast' /\ UNCHANGED report
  BY <1>1, <1>2, GiveBackPlaces
<1>4. ~world[current].sent /\ ~world[current].blind
  BY <1>1, CallConstants DEF CallsInv, CallPlaced, Unsent
<1>5. RowTrue(R, world'[current])
  BY <1>1, <1>2, <1>4 DEF RowTrue
<1>6. \A c \in Call : c # current => world'[c] = world[c]
  BY <1>1
<1> QED  BY ONLY CallsInv, <1>1, <1>2, <1>3, <1>5, <1>6, RowKeeps

LEMMA PendingIs ==
    ASSUME NEW s \in Stage
    PROVE  /\ Pending(s) \in LedgerRows /\ Pending(s).outcome = "pending" /\ Pending(s).stage = s
           /\ ~Pending(s).known /\ Pending(s).usage = NoUsage
<1>1. Unknown \in Int /\ NoUsage \in Usages
  BY CallConstants DEF Unknown
<1>2. PICK z \in LedgerRows : z = NoRow
  BY <1>1 DEF NoRow, LedgerRows
<1>3. ~z.known /\ z.usage = NoUsage
  BY <1>2 DEF NoRow
<1>4. Pending(s) = [z EXCEPT !.outcome = "pending", !.stage = s]
  BY <1>2 DEF Pending
<1> QED  BY <1>3, <1>4 DEF LedgerRows

LEMMA CallStartKeeps == ASSUME CallsInv, StartRow PROVE CallsInv'
<1>1. /\ mpc = "journaled" /\ current \in Call /\ world' = world /\ ledger \in [Call -> LedgerRows]
      /\ ~world[current].sent /\ ~world[current].blind
  BY CallConstants DEF StartRow, CallsInv, CallTypes, CallPlaced, Underway, Unsent
<1>2. PICK s \in Stage :
        \/ /\ ledger' = [ledger EXCEPT ![current] = Pending(s)]
           /\ mpc' = "logged"
           /\ UNCHANGED <<durable, current, used, saved, open, reply, report>>
        \/ /\ ledger' \in {ledger, [ledger EXCEPT ![current] = Pending(s)]}
           /\ GiveBack
  BY DEF StartRow
<1>3. PICK R \in LedgerRows : R = Pending(s)
  BY PendingIs
<1>4. RowTrue(R, world'[current])
  BY <1>1, <1>3, PendingIs DEF RowTrue, NoUsage
<1>5. \A c \in Call : c # current => world'[c] = world[c]
  BY <1>1
<1>6. CASE /\ ledger' = [ledger EXCEPT ![current] = Pending(s)] /\ mpc' = "logged"
           /\ UNCHANGED <<durable, current, used, saved, open, reply, report>>
  <2>1. ledger' = [ledger EXCEPT ![current] = R] /\ ledger' \in [Call -> LedgerRows] /\ ledger'[current] = R
    BY <1>1, <1>3, <1>6
  <2>2. CallTypes'
    BY <1>1, <1>6, <2>1 DEF CallsInv, CallTypes, Underway
  <2>3. CallPlaced'
    <3>1. ledger'[current'].outcome = "pending" /\ ~ledger'[current'].known
      BY <1>3, <1>6, <2>1, PendingIs
    <3>2. \A c \in Call : c > current \/ c = current => ~world[c].sent /\ ~world[c].blind /\ world[c].total = 0
      BY <1>1 DEF CallsInv, CallPlaced, Unsent
    <3>3. QED  BY <1>1, <1>6, <3>1, <3>2 DEF CallPlaced, Underway, Unsent
  <2>4. SentCalls' = SentCalls /\ PaidUnits' = PaidUnits
    BY <1>1, <1>6, SameDeeds
  <2>5. BudgetCovers'
    BY <1>1, <1>6, <2>4 DEF CallsInv, BudgetCovers, Underway, Unsent
  <2>6. BlindIsLast'
    BY <1>1, NoneBlind, StillUnblind DEF Underway
  <2>7. QED  BY <1>1, <1>4, <1>5, <1>6, <2>1, <2>2, <2>3, <2>5, <2>6, RowKeeps
<1>7. CASE ledger' \in {ledger, [ledger EXCEPT ![current] = Pending(s)]} /\ GiveBack
  <2>1. ledger' \in [Call -> LedgerRows]
    BY <1>1, <1>3, <1>7
  <2>2. CallTypes' /\ CallPlaced' /\ BudgetCovers' /\ BlindIsLast' /\ UNCHANGED report
    BY <1>1, <1>7, <2>1, GiveBackPlaces
  <2>3. CASE ledger' = ledger
    BY <1>1, <2>2, <2>3, StillKeeps
  <2>4. CASE ledger' = [ledger EXCEPT ![current] = R]
    BY <1>1, <1>4, <1>5, <2>2, <2>4, RowKeeps
  <2>5. QED  BY <1>3, <1>7, <2>3, <2>4
<1> QED  BY <1>2, <1>6, <1>7

LEMMA CallSendKeeps == ASSUME CallsInv, SendCall PROVE CallsInv'
<1>1. /\ mpc = "logged" /\ mpc' = "waiting" /\ current \in Call /\ world \in [Call -> Deeds]
      /\ ledger \in [Call -> LedgerRows] /\ ledger[current].outcome = "pending" /\ ~ledger[current].known
      /\ ~world[current].sent /\ ~world[current].blind /\ world[current].total = 0
      /\ UNCHANGED <<durable, current, used, saved, open, reply, ledger, report>>
  BY CallConstants DEF SendCall, CallsInv, CallTypes, CallPlaced, Underway, Unsent
<1>2. PICK w \in Deeds : w = [world[current] EXCEPT !.sent = TRUE]
  BY <1>1 DEF Deeds
<1>3. world' = [world EXCEPT ![current] = w]
  BY <1>1, <1>2 DEF SendCall
<1>4. /\ w.sent /\ ~w.blind /\ w.total = 0 /\ w.answered = world[current].answered
      /\ world' \in [Call -> Deeds] /\ world'[current] = w
      /\ \A c \in Call : c # current => world'[c] = world[c]
  BY <1>1, <1>2, <1>3 DEF Deeds
<1>5. CallTypes'
  BY <1>1, <1>4 DEF CallsInv, CallTypes, Underway
<1>6. CallPlaced'
  BY <1>1, <1>4, CallConstants DEF CallsInv, CallPlaced, Underway, Unsent
<1>7. PaidUnits' = PaidUnits
  <2>1. Paid = Call /\ Paid' = Call
    BY <1>1 DEF Paid
  <2>2. \A c \in Call : world'[c].total = world[c].total
    BY <1>1, <1>4
  <2>3. QED  BY <2>1, <2>2 DEF PaidUnits
<1>8. Cardinality(SentCalls') = Cardinality(SentCalls) + 1
  <2>1. SentCalls' = SentCalls \cup {current}
    BY <1>1, <1>4 DEF SentCalls
  <2>2. current \notin SentCalls
    BY <1>1 DEF SentCalls
  <2>3. QED  BY <2>1, <2>2, SumsAreNat, FS_AddElement
<1>9. BudgetCovers'
  BY <1>1, <1>7, <1>8, SumsAreNat DEF CallsInv, BudgetCovers, Underway, Unsent
<1>10. \A c \in Call : ~world[c].blind
  BY <1>1, NoneBlind DEF Underway
<1>11. BlindIsLast'
  BY <1>1, <1>4, <1>10, StillUnblind
<1>12. PICK R \in LedgerRows : R = ledger[current]
  BY <1>1
<1>13. ledger' = [ledger EXCEPT ![current] = R]
  BY <1>1, <1>12
<1>14. RowTrue(R, world'[current])
  BY <1>1, <1>4, <1>12 DEF CallsInv, RowTrue
<1>15. UNCHANGED report /\ \A c \in Call : c # current => world'[c] = world[c]
  BY <1>1, <1>4
<1>16. current \in Call
  BY <1>1
<1> QED  BY ONLY CallsInv, <1>5, <1>6, <1>9, <1>11, <1>13, <1>14, <1>15, <1>16, RowKeeps

\* A call that comes back without the budget being touched.
LEMMA BackKeeps ==
    ASSUME CallsInv, mpc = "waiting", Return, UNCHANGED <<durable, used, saved, open, report>>,
           NEW outcome \in {"failed", "uncertain"}, FinishRow(outcome, FALSE, NoUsage),
           NEW w \in Deeds, world' = [world EXCEPT ![current] = w], w.sent, ~w.blind, w.total = 0,
           outcome = "failed" => w.answered
    PROVE  CallsInv'
<1>1. /\ current \in Call /\ world \in [Call -> Deeds] /\ NoUsage \in Usages
      /\ used \in Spending /\ saved \in Spending /\ durable \in BOOLEAN /\ open \in BOOLEAN
      /\ ledger[current].outcome = "pending" /\ ~ledger[current].known
      /\ world[current].sent /\ world[current].total = 0 /\ ~world[current].blind
      /\ (durable => open) /\ (~durable => ~open)
  BY CallConstants DEF CallsInv, CallTypes, CallPlaced, BudgetCovers, Underway, Unsent
<1>2. PICK metered \in BOOLEAN : metered = FALSE
  OBVIOUS
<1>3. outcome \in {"not_sent", "succeeded", "failed", "uncertain"}
  OBVIOUS
<1>4. FinishRow(outcome, metered, NoUsage)
  BY <1>2
<1>5. PICK R \in LedgerRows :
        /\ ledger' = [ledger EXCEPT ![current] = R] /\ ledger' \in [Call -> LedgerRows]
        /\ R.stage \in Stage /\ R.outcome \in {outcome, "pending"}
        /\ R.known => metered /\ R.usage.total = NoUsage.total
        /\ R.usage.hit = Unknown \/ R.usage.hit + R.usage.miss = R.usage.input
  BY <1>1, <1>3, <1>4, FinishIs
<1>6. /\ world' \in [Call -> Deeds] /\ world'[current] = w
      /\ \A c \in Call : c # current => world'[c] = world[c]
  BY <1>1
<1>7. used' \in Spending /\ saved' \in Spending /\ open' \in BOOLEAN /\ durable' = durable
  BY <1>1
<1>8. CallTypes' /\ CallPlaced' /\ mpc' \in {"idle", "stopped"} /\ (mpc' = "stopped" <=> open')
  BY <1>1, <1>5, <1>6, <1>7, ReturnPlaces
<1>9. \A c \in Call : world'[c].sent = world[c].sent /\ world'[c].total = world[c].total
  BY <1>1, <1>6 DEF Deeds
<1>10. SentCalls' = SentCalls /\ PaidUnits' = PaidUnits
  BY <1>8, <1>9, SameDeeds
<1>11. BudgetCovers'
  BY <1>1, <1>8, <1>10 DEF CallsInv, BudgetCovers, Underway, Unsent
<1>12. \A c \in Call : world'[c].blind => world[c].blind
  BY <1>6
<1>13. BlindIsLast'
  BY <1>12, NoneBlind, StillUnblind DEF Underway
<1>14. RowTrue(R, world'[current])
  BY <1>2, <1>5, <1>6 DEF RowTrue
<1> QED  BY <1>1, <1>5, <1>6, <1>8, <1>11, <1>13, <1>14, RowKeeps

LEMMA RefusedKeeps == ASSUME CallsInv, CallRefused PROVE CallsInv'
<1>1. /\ mpc = "waiting" /\ Return /\ UNCHANGED <<durable, used, saved, open, report>>
      /\ FinishRow("failed", FALSE, NoUsage) /\ current \in Call /\ world \in [Call -> Deeds]
  BY DEF CallRefused, CallsInv, CallTypes, Underway
<1>2. PICK w : w = [world[current] EXCEPT !.answered = TRUE]
  OBVIOUS
<1>3. world' = [world EXCEPT ![current] = w]
  BY <1>1, <1>2 DEF CallRefused
<1>4. world[current].sent /\ ~world[current].blind /\ world[current].total = 0
  BY <1>1 DEF CallsInv, CallPlaced, Underway, Unsent
<1>5. w \in Deeds /\ w.sent /\ ~w.blind /\ w.total = 0 /\ w.answered
  BY <1>1, <1>2, <1>4 DEF Deeds
<1> QED  BY <1>1, <1>3, <1>5, BackKeeps

LEMMA CallLostKeeps == ASSUME CallsInv, Lost PROVE CallsInv'
<1>1. /\ mpc = "waiting" /\ Return /\ UNCHANGED <<durable, used, saved, open, report>>
      /\ FinishRow("uncertain", FALSE, NoUsage) /\ current \in Call /\ world \in [Call -> Deeds]
      /\ world' \in {world, [world EXCEPT ![current].answered = TRUE]}
  BY DEF Lost, Uncertain, CallsInv, CallTypes, Underway
<1>2. \E v \in {world[current], [world[current] EXCEPT !.answered = TRUE]} :
        world' = [world EXCEPT ![current] = v]
  BY <1>1
<1>3. PICK w \in {world[current], [world[current] EXCEPT !.answered = TRUE]} :
        world' = [world EXCEPT ![current] = w]
  BY <1>2
<1>4. world[current].sent /\ ~world[current].blind /\ world[current].total = 0
  BY <1>1 DEF CallsInv, CallPlaced, Underway, Unsent
<1>5. w \in Deeds /\ w.sent /\ ~w.blind /\ w.total = 0
  BY <1>1, <1>3, <1>4 DEF Deeds
<1> QED  BY <1>1, <1>3, <1>5, BackKeeps

LEMMA AnswerKeeps == ASSUME CallsInv, AnswerComes PROVE CallsInv'
<1>1. /\ mpc = "waiting" /\ mpc' = "answered" /\ current \in Call /\ world \in [Call -> Deeds]
      /\ ledger \in [Call -> LedgerRows] /\ ledger[current].outcome = "pending" /\ ~ledger[current].known
      /\ world[current].sent /\ ~world[current].blind /\ world[current].total = 0
      /\ UNCHANGED <<durable, current, used, saved, open, ledger, report>>
  BY DEF AnswerComes, CallsInv, CallTypes, CallPlaced, Underway, Unsent
<1>2. NoUsage \in Usages /\ Raw \subseteq Usages
  BY CallConstants
<1>3. \E w \in Deeds :
        /\ world' = [world EXCEPT ![current] = w] /\ w.sent /\ w.answered
        /\ reply' \in Replies /\ reply'.end \in {"succeeded", "failed"} /\ reply'.usage \in Raw \cup {NoUsage}
        /\ reply'.metered => reply'.usage.total = w.total /\ ~w.blind
        /\ ~reply'.metered => w.total = 0
  <2>1. PICK end \in {"succeeded", "failed"} :
         \/ \E r \in Raw :
              /\ reply' = [end |-> end, metered |-> TRUE, usage |-> r]
              /\ world' = [world EXCEPT ![current].answered = TRUE, ![current].total = r.total]
         \/ /\ reply' = [end |-> end, metered |-> FALSE, usage |-> NoUsage]
            /\ world' = [world EXCEPT ![current].answered = TRUE, ![current].blind = TRUE]
    BY DEF AnswerComes
  <2>2. ASSUME NEW r \in Raw, reply' = [end |-> end, metered |-> TRUE, usage |-> r],
               world' = [world EXCEPT ![current].answered = TRUE, ![current].total = r.total]
        PROVE  <1>3!:
    <3>1. r \in Usages /\ r.total \in Nat
      BY <1>2 DEF Usages
    <3>2. PICK w : w = [world[current] EXCEPT !.answered = TRUE, !.total = r.total]
      OBVIOUS
    <3>3. world' = [world EXCEPT ![current] = w]
      BY <1>1, <2>2, <3>2
    <3>4. w \in Deeds /\ w.sent /\ w.answered /\ w.total = r.total /\ ~w.blind
      BY <1>1, <3>1, <3>2 DEF Deeds
    <3>5. reply' \in Replies /\ reply'.end = end /\ reply'.metered /\ reply'.usage = r
      BY <2>2, <3>1 DEF Replies
    <3>6. QED  BY <3>3, <3>4, <3>5
  <2>3. ASSUME reply' = [end |-> end, metered |-> FALSE, usage |-> NoUsage],
               world' = [world EXCEPT ![current].answered = TRUE, ![current].blind = TRUE]
        PROVE  <1>3!:
    <3>1. PICK w : w = [world[current] EXCEPT !.answered = TRUE, !.blind = TRUE]
      OBVIOUS
    <3>2. world' = [world EXCEPT ![current] = w]
      BY <1>1, <2>3, <3>1
    <3>3. w \in Deeds /\ w.sent /\ w.answered /\ w.total = 0
      BY <1>1, <3>1 DEF Deeds
    <3>4. reply' \in Replies /\ reply'.end = end /\ ~reply'.metered /\ reply'.usage = NoUsage
      BY <1>2, <2>3 DEF Replies
    <3>5. QED  BY <3>2, <3>3, <3>4
  <2>4. QED  BY <2>1, <2>2, <2>3
<1>4. PICK w \in Deeds :
        /\ world' = [world EXCEPT ![current] = w] /\ w.sent /\ w.answered
        /\ reply' \in Replies /\ reply'.end \in {"succeeded", "failed"} /\ reply'.usage \in Raw \cup {NoUsage}
        /\ reply'.metered => reply'.usage.total = w.total /\ ~w.blind
        /\ ~reply'.metered => w.total = 0
  BY <1>3
<1>5. /\ world' \in [Call -> Deeds] /\ world'[current] = w
      /\ \A c \in Call : c # current => world'[c] = world[c]
  BY <1>1, <1>4
<1>6. CallTypes'
  BY <1>1, <1>4, <1>5 DEF CallsInv, CallTypes, Underway
<1>7. CallPlaced'
  <2>1. \A c \in Call : c > current => ~world[c].sent /\ ~world[c].blind /\ world[c].total = 0 /\ c # current
    BY <1>1, CallConstants DEF CallsInv, CallPlaced
  <2>2. \A c \in Call : c > current => ~world'[c].sent /\ ~world'[c].blind /\ world'[c].total = 0
    BY <1>5, <2>1
  <2>3. QED  BY <1>1, <1>4, <1>5, <2>2 DEF CallPlaced, Underway, Unsent
<1>8. SentCalls' = SentCalls
  BY <1>1, <1>4, <1>5 DEF SentCalls
<1>9. IsFiniteSet(PaidUnits') /\ Cardinality(PaidUnits') <= Cardinality(PaidUnits)
  <2>1. PICK f, g : f = [c \in Call \ {current} |-> world'[c].total] /\ g = [c \in Call |-> world[c].total]
    OBVIOUS
  <2>2. PaidUnits = Units(g) /\ PaidUnits' = Units(f)
    BY <1>1, <2>1 DEF PaidUnits, Paid
  <2>3. IsFiniteSet(Units(g))
    BY <1>1, <2>2 DEF CallsInv, BudgetCovers
  <2>4. \A c \in DOMAIN f : (c \in DOMAIN g /\ f[c] = g[c]) \/ f[c] = 0
    BY <1>5, <2>1
  <2>5. IsFiniteSet(Units(f)) /\ Cardinality(Units(f)) <= Cardinality(Units(g))
    BY ONLY <2>3, <2>4, UnitsShrink
  <2>6. QED  BY ONLY <2>2, <2>5
<1>10. BudgetCovers'
  <2>1. /\ Cardinality(SentCalls) <= used.calls /\ Cardinality(PaidUnits) <= used.tokens
        /\ used.tokens < TokenLimit /\ (durable => open) /\ (~durable => ~open)
    BY <1>1, SumsAreNat DEF CallsInv, BudgetCovers, Underway, Unsent
  <2>2. Cardinality(PaidUnits') \in Nat /\ Cardinality(PaidUnits) \in Nat /\ used.tokens \in Nat /\ used.calls \in Nat
    BY <1>1, <1>9, SumsAreNat, FS_CardinalityType DEF CallsInv, CallTypes, Spending
  <2>3. Cardinality(PaidUnits') <= used.tokens
    BY ONLY <1>9, <2>1, <2>2
  <2>4. QED  BY <1>1, <1>8, <1>9, <2>1, <2>2, <2>3, SumsAreNat DEF BudgetCovers, Underway, Unsent
<1>11. BlindIsLast'
  <2>1. \A c \in Call : ~world[c].blind
    BY <1>1, NoneBlind DEF Underway
  <2>2. \A c \in Call : world'[c].blind => c = current /\ ~reply'.metered
    BY <1>4, <1>5, <2>1
  <2>3. \A c, d \in SentCalls' : c < d => ~world'[c].blind
    <3>1. \A d \in SentCalls' : d <= current
      <4>1. \A d \in Call : d > current => ~world[d].sent
        BY <1>1 DEF CallsInv, CallPlaced
      <4>2. QED  BY <1>1, <1>8, <4>1, CallConstants DEF SentCalls
    <3>2. QED  BY <1>1, <2>2, <3>1, CallConstants DEF SentCalls
  <2>4. QED  BY <1>1, <2>2, <2>3 DEF BlindIsLast
<1>12. PICK R \in LedgerRows : R = ledger[current]
  BY <1>1
<1>13. ledger' = [ledger EXCEPT ![current] = R]
  BY <1>1, <1>12
<1>14. RowTrue(R, world'[current])
  BY <1>1, <1>4, <1>5, <1>12 DEF CallsInv, RowTrue
<1>15. UNCHANGED report /\ current \in Call
  BY <1>1
<1> QED  BY ONLY CallsInv, <1>5, <1>6, <1>7, <1>10, <1>11, <1>13, <1>14, <1>15, RowKeeps

LEMMA AccountKeeps == ASSUME CallsInv, Account PROVE CallsInv'
<1>1. /\ mpc = "answered" /\ mpc' = "accounted" /\ current \in Call
      /\ used \in Spending /\ reply \in Replies /\ world \in [Call -> Deeds]
      /\ used' = [used EXCEPT !.tokens = Spent(reply)]
      /\ UNCHANGED <<durable, current, saved, open, reply, ledger, world, report>>
  BY DEF Account, CallsInv, CallTypes, Underway
<1>2. /\ reply.metered \in BOOLEAN /\ reply.usage.total \in Nat /\ TokenLimit \in Nat
      /\ used.calls \in Nat /\ used.tokens \in Nat /\ world[current].total \in Nat
  BY <1>1, CallConstants DEF Replies, Usages, Spending, Deeds
<1>3. /\ reply.metered => reply.usage.total = world[current].total
      /\ ~reply.metered => world[current].total = 0
      /\ used.tokens < TokenLimit
  BY <1>1 DEF CallsInv, CallPlaced, BudgetCovers, Underway, Unsent
<1>4. /\ Spent(reply) \in Nat /\ Spent(reply) >= used.tokens + world[current].total
      /\ ~reply.metered => Spent(reply) >= TokenLimit
  BY ONLY <1>2, <1>3 DEF Spent
<1>5. used' \in Spending /\ used'.calls = used.calls /\ used'.tokens = Spent(reply)
  BY <1>1, <1>4 DEF Spending
<1>6. CallTypes'
  BY <1>1, <1>5 DEF CallsInv, CallTypes, Underway
<1>7. CallPlaced'
  BY <1>1 DEF CallsInv, CallPlaced, Underway, Unsent
<1>8. SentCalls' = SentCalls
  BY <1>1 DEF SentCalls
<1>9. /\ IsFiniteSet(PaidUnits') /\ Cardinality(PaidUnits') \in Nat /\ Cardinality(PaidUnits) \in Nat
      /\ Cardinality(PaidUnits') <= Cardinality(PaidUnits) + world[current].total
  <2>1. PICK f, g : f = [c \in Call |-> world[c].total] /\ g = [c \in Call \ {current} |-> world[c].total]
    OBVIOUS
  <2>2. PaidUnits = Units(g) /\ PaidUnits' = Units(f)
    BY <1>1, <2>1 DEF PaidUnits, Paid
  <2>3. IsFiniteSet(Units(g))
    BY <1>1, <2>2 DEF CallsInv, BudgetCovers
  <2>4. PICK n \in Nat : n = world[current].total
    BY <1>2
  <2>5. \A c \in DOMAIN f : (c \in DOMAIN g /\ f[c] = g[c]) \/ (c = current /\ f[c] = n)
    BY <2>1, <2>4
  <2>6. /\ IsFiniteSet(Units(f)) /\ Cardinality(Units(f)) \in Nat /\ Cardinality(Units(g)) \in Nat
        /\ Cardinality(Units(f)) <= Cardinality(Units(g)) + n
    BY <2>3, <2>5, UnitsGrow
  <2>7. QED  BY ONLY <2>2, <2>4, <2>6
<1>10. BudgetCovers'
  <2>1. /\ Cardinality(SentCalls) <= used.calls /\ Cardinality(PaidUnits) <= used.tokens
        /\ (durable => open) /\ (~durable => ~open)
    BY <1>1, SumsAreNat DEF CallsInv, BudgetCovers, Underway, Unsent
  <2>2. Cardinality(PaidUnits') <= used'.tokens
    BY ONLY <1>2, <1>4, <1>5, <1>9, <2>1
  <2>3. QED  BY <1>1, <1>2, <1>4, <1>5, <1>8, <1>9, <2>1, <2>2, SumsAreNat DEF BudgetCovers, Underway, Unsent
<1>11. BlindIsLast'
  BY <1>1, <1>8 DEF CallsInv, BlindIsLast
<1> QED  BY <1>1, <1>6, <1>7, <1>10, <1>11, StillKeeps

LEMMA CallRecordKeeps == ASSUME CallsInv, Record PROVE CallsInv'
<1>1. /\ mpc = "accounted" /\ current \in Call /\ UNCHANGED <<durable, used, saved, world, report>>
      /\ used \in Spending /\ saved \in Spending /\ durable \in BOOLEAN /\ open \in BOOLEAN
      /\ world \in [Call -> Deeds] /\ reply \in Replies
      /\ FinishRow(reply.end, reply.metered, reply.usage)
  BY DEF Record, CallsInv, CallTypes, Underway
<1>2. /\ ledger[current].outcome = "pending" /\ ~ledger[current].known
      /\ world[current].sent /\ world[current].answered
      /\ reply.end \in {"succeeded", "failed"} /\ reply.metered \in BOOLEAN /\ reply.usage \in Usages
      /\ reply.metered => reply.usage.total = world[current].total
  BY <1>1 DEF CallsInv, CallPlaced, Replies, Underway, Unsent
<1>3. PICK outcome \in {"not_sent", "succeeded", "failed", "uncertain"}, metered \in BOOLEAN, u \in Usages :
        outcome = reply.end /\ metered = reply.metered /\ u = reply.usage
  BY <1>2
<1>4. FinishRow(outcome, metered, u)
  BY <1>1, <1>3
<1>5. PICK R \in LedgerRows :
        /\ ledger' = [ledger EXCEPT ![current] = R] /\ ledger' \in [Call -> LedgerRows]
        /\ R.stage \in Stage /\ R.outcome \in {outcome, "pending"}
        /\ R.known => metered /\ R.usage.total = u.total
        /\ R.usage.hit = Unknown \/ R.usage.hit + R.usage.miss = R.usage.input
  BY <1>1, <1>2, <1>4, FinishIs
<1>6. RowTrue(R, world'[current])
  BY <1>1, <1>2, <1>3, <1>5 DEF RowTrue
<1>7. \A c \in Call : c # current => world'[c] = world[c]
  BY <1>1
<1>8. /\ (durable => open) /\ (~durable => ~open)
      /\ ~reply.metered => used.tokens >= TokenLimit
  BY <1>1 DEF CallsInv, BudgetCovers, Underway, Unsent
<1>9. (mpc' # "answered") => SentCalls' = SentCalls /\ PaidUnits' = PaidUnits
  BY <1>1, SameDeeds
<1>10. ledger'[current] = R
  BY <1>1, <1>5 DEF CallsInv, CallTypes
<1>11. CASE reply.metered /\ mpc' = "recorded" /\ UNCHANGED <<current, open, reply>>
  <2>1. CallTypes'
    BY <1>1, <1>5, <1>11 DEF CallsInv, CallTypes, Underway
  <2>2. CallPlaced'
    <3>1. ledger'[current'].outcome # "none"
      BY <1>3, <1>5, <1>10, <1>11
    <3>2. \A c \in Call : c > current => ~world[c].sent /\ ~world[c].blind /\ world[c].total = 0
      BY DEF CallsInv, CallPlaced
    <3>3. QED  BY <1>1, <1>2, <1>11, <3>1, <3>2 DEF CallPlaced, Underway, Unsent
  <2>3. BudgetCovers'
    BY <1>1, <1>8, <1>9, <1>11 DEF CallsInv, BudgetCovers, Underway, Unsent
  <2>4. \A c \in Call : ~world[c].blind
    BY <1>1, <1>11 DEF CallsInv, BlindIsLast
  <2>5. BlindIsLast'
    BY <1>1, <2>4, StillUnblind
  <2>6. QED  BY <1>1, <1>5, <1>6, <1>7, <2>1, <2>2, <2>3, <2>5, RowKeeps
<1>12. CASE UNCHANGED open /\ Return
  <2>1. used' \in Spending /\ saved' \in Spending /\ open' \in BOOLEAN /\ durable' = durable /\ world' \in [Call -> Deeds]
    BY <1>1, <1>12
  <2>2. CallTypes' /\ CallPlaced' /\ mpc' \in {"idle", "stopped"} /\ (mpc' = "stopped" <=> open')
    BY <1>1, <1>5, <1>7, <1>12, <2>1, ReturnPlaces
  <2>3. BudgetCovers'
    BY <1>1, <1>8, <1>9, <1>12, <2>2 DEF CallsInv, BudgetCovers, Underway, Unsent
  <2>4. BlindIsLast'
    <3>1. \A c \in Call : world[c].blind => ~reply.metered
      BY <1>1 DEF CallsInv, BlindIsLast
    <3>2. mpc' = "stopped" \/ (mpc' = "idle" /\ ~durable')
      <4>1. CASE durable
        <5>1. open /\ open' = open
          BY <1>8, <1>12, <4>1
        <5>2. open'
          BY <5>1
        <5>3. QED  BY <2>2, <5>2
      <4>2. CASE ~durable
        <5>1. ~durable'
          BY <2>1, <4>2
        <5>2. QED  BY <2>2, <5>1
      <4>3. QED  BY <4>1, <4>2
    <3>3. \A c \in Call : world'[c].blind => mpc' = "stopped" \/ (mpc' = "idle" /\ ~durable' /\ used'.tokens >= TokenLimit)
      BY <1>1, <1>8, <3>1, <3>2
    <3>4. SentCalls' = SentCalls
      BY <1>1 DEF SentCalls
    <3>5. \A c, d \in SentCalls' : c < d => ~world'[c].blind
      BY <1>1, <3>4 DEF CallsInv, BlindIsLast
    <3>6. QED  BY ONLY <3>3, <3>5 DEF BlindIsLast
  <2>5. QED  BY <1>1, <1>5, <1>6, <1>7, <2>2, <2>3, <2>4, RowKeeps
<1> QED  BY <1>11, <1>12 DEF Record

LEMMA CallCloseKeeps == ASSUME CallsInv, CloseCall PROVE CallsInv'
<1>1. /\ mpc = "recorded" /\ current \in Call /\ Return /\ open' = FALSE
      /\ UNCHANGED <<durable, used, ledger, world, report>>
      /\ used \in Spending /\ saved \in Spending /\ durable \in BOOLEAN
      /\ world \in [Call -> Deeds] /\ ledger \in [Call -> LedgerRows]
      /\ saved' = IF durable THEN Larger(used, saved) ELSE saved
  BY DEF CloseCall, CallsInv, CallTypes, Underway
<1>2. saved' \in Spending /\ (durable => saved'.calls >= used.calls /\ saved'.tokens >= used.tokens)
  BY <1>1, LargerIs
<1>3. \A c \in Call : c # current => world'[c] = world[c]
  BY <1>1
<1>4. used' \in Spending /\ open' \in BOOLEAN /\ durable' = durable /\ world' \in [Call -> Deeds] /\ ledger' \in [Call -> LedgerRows]
  BY <1>1
<1>5. CallTypes' /\ CallPlaced' /\ mpc' \in {"idle", "stopped"} /\ (mpc' = "stopped" <=> open')
  BY <1>1, <1>2, <1>3, <1>4, ReturnPlaces
<1>6. mpc' = "idle"
  BY <1>1, <1>5
<1>7. SentCalls' = SentCalls /\ PaidUnits' = PaidUnits
  BY <1>1, <1>6, SameDeeds
<1>8. /\ Cardinality(SentCalls) <= used.calls /\ Cardinality(PaidUnits) <= used.tokens /\ IsFiniteSet(PaidUnits)
      /\ Cardinality(SentCalls) \in Nat /\ Cardinality(PaidUnits) \in Nat
  BY <1>1, SumsAreNat DEF CallsInv, BudgetCovers, Unsent
<1>9. durable => Cardinality(SentCalls) <= saved'.calls /\ Cardinality(PaidUnits) <= saved'.tokens
  <2>1. used.calls \in Nat /\ used.tokens \in Nat /\ saved'.calls \in Nat /\ saved'.tokens \in Nat
    BY <1>1, <1>2 DEF Spending
  <2>2. QED  BY ONLY <1>2, <1>8, <2>1
<1>10. BudgetCovers'
  <2>1. /\ IsFiniteSet(PaidUnits')
        /\ Cardinality(SentCalls') <= used'.calls /\ Cardinality(PaidUnits') <= used'.tokens
        /\ durable' => Cardinality(SentCalls') <= saved'.calls /\ Cardinality(PaidUnits') <= saved'.tokens
    BY <1>1, <1>7, <1>8, <1>9
  <2>2. Cardinality(SentCalls') \in Nat /\ used'.calls \in Nat
    BY <1>4, <1>7, <1>8 DEF Spending
  <2>3. open' = FALSE
    BY <1>1
  <2>4. QED  BY ONLY <1>6, <2>1, <2>2, <2>3 DEF BudgetCovers, Underway, Unsent
<1>11. BlindIsLast'
  BY <1>1, NoneBlind, StillUnblind DEF Underway
<1> QED  BY <1>1, <1>5, <1>10, <1>11, StillKeeps

LEMMA CallDeathKeeps == ASSUME CallsInv, ProcessDies PROVE CallsInv'
<1>1. /\ mpc # "stopped" /\ mpc' = IF durable /\ ~open THEN "idle" ELSE "stopped"
      /\ used' = saved /\ current' = IF mpc = "idle" THEN current ELSE current + 1
      /\ reply' = NoReply /\ UNCHANGED <<durable, saved, open, ledger, world, report>>
  BY DEF ProcessDies
<1>2. NoReply \in Replies
  BY CallConstants DEF NoReply, Replies
<1>3. CallTypes'
  BY <1>1, <1>2 DEF CallsInv, CallTypes, Underway
<1>4. \A c \in Call : c >= current' => ~world[c].sent /\ ~world[c].blind /\ world[c].total = 0
  <2>1. current \in Nat
    BY DEF CallsInv, CallTypes
  <2>2. \A c \in Call : c >= current' => c > current \/ (c = current /\ mpc = "idle")
    BY <1>1, <2>1, CallConstants
  <2>3. QED  BY <2>2 DEF CallsInv, CallPlaced, Unsent
<1>5. CallPlaced'
  <2>1. current' \in Nat
    BY <1>1 DEF CallsInv, CallTypes
  <2>2. \A c \in Call : c > current' \/ c = current' => c >= current'
    BY <2>1, CallConstants
  <2>3. mpc' \in {"idle", "stopped"}
    BY <1>1
  <2>4. QED  BY <1>1, <1>4, <2>2, <2>3 DEF CallPlaced, Underway, Unsent
<1>6. mpc # "answered" => SentCalls' = SentCalls /\ PaidUnits' = PaidUnits
  BY <1>1, SameDeeds
<1>7. mpc' = "idle" => durable /\ ~open /\ mpc \in {"idle", "counted"}
  BY <1>1 DEF CallsInv, CallTypes, BudgetCovers, Underway
<1>8. BudgetCovers'
  BY <1>1, <1>6, <1>7, SumsAreNat DEF CallsInv, BudgetCovers, Underway, Unsent
<1>9. BlindIsLast'
  <2>1. SentCalls' = SentCalls
    BY <1>1 DEF SentCalls
  <2>2. QED  BY <1>1, <1>7, <2>1 DEF CallsInv, BlindIsLast
<1> QED  BY <1>1, <1>3, <1>5, <1>8, <1>9, StillKeeps

-----------------------------------------------------------------------------
(* The summary: its groups are taken from the rows its totals were taken     *)
(* from, and every counted row is in the group of its stage.                 *)

LEMMA PageKeeps ==
    ASSUME CallsInv, UNCHANGED <<taskVars, ledger, world>>, ReportAdds'
    PROVE  CallsInv'
<1>1. UNCHANGED <<durable, mpc, current, used, saved, open, reply, ledger, world>>
  BY DEF taskVars
<1>2. CallTypes' /\ CallPlaced' /\ SentCalls' = SentCalls /\ Paid' = Paid
  BY <1>1 DEF CallsInv, CallTypes, CallPlaced, SentCalls, Paid
<1>3. PaidUnits' = PaidUnits
  BY <1>1, <1>2 DEF PaidUnits
<1>4. BudgetCovers' /\ BlindIsLast'
  BY <1>1, <1>2, <1>3 DEF CallsInv, BudgetCovers, BlindIsLast
<1>5. UnitsOf(ledger, Call)' = UnitsOf(ledger, Call)
  BY <1>1
<1>6. \A c \in Call : RowTrue(ledger'[c], world'[c])
  BY <1>1 DEF CallsInv
<1> QED  BY <1>2, <1>4, <1>5, <1>6 DEF CallsInv

LEMMA TotalsKeep == ASSUME CallsInv, ReadTotals PROVE CallsInv'
<1>1. /\ UNCHANGED <<taskVars, ledger, world>>
      /\ report'.phase = "totals" /\ report'.rows = ledger /\ report'.total = Tokens(ledger, Counted(ledger))
  BY DEF ReadTotals
<1>2. Counted(ledger) \in SUBSET Call /\ \A c \in Counted(ledger) : ledger[c].stage \in Stage
  BY DEF CallsInv, RowTrue, Counted
<1>3. IsFiniteSet(UnitsOf(ledger, Counted(ledger)))
  <2>1. PICK f, g : f = [c \in Counted(ledger) |-> ledger[c].usage.total] /\ g = [c \in Call |-> ledger[c].usage.total]
    OBVIOUS
  <2>2. IsFiniteSet(Units(g))
    BY <2>1 DEF CallsInv, UnitsOf
  <2>3. \A c \in DOMAIN f : (c \in DOMAIN g /\ f[c] = g[c]) \/ f[c] = 0
    BY <1>2, <2>1
  <2>4. IsFiniteSet(Units(f))
    BY ONLY <2>2, <2>3, UnitsShrink
  <2>5. QED  BY <2>1, <2>4 DEF UnitsOf
<1>4. ReportAdds'
  BY <1>1, <1>2, <1>3 DEF ReportAdds
<1> QED  BY <1>1, <1>4, PageKeeps

LEMMA GroupsAddUp ==
    ASSUME NEW r, IsFiniteSet(UnitsOf(r, Counted(r))), \A c \in Counted(r) : r[c].stage \in Stage
    PROVE  Cardinality(UNION {{s} \X UnitsOf(r, Group(r, s)) : s \in Stage}) = Tokens(r, Counted(r))
<1>1. PICK S, T : S = UnitsOf(r, Counted(r)) /\ T = UNION {{s} \X UnitsOf(r, Group(r, s)) : s \in Stage}
  OBVIOUS
<1>2. \A u : u \in S <=> \E c \in Counted(r) : \E k \in 1 .. r[c].usage.total : u = <<c, k>>
  <2>1. PICK f : f = [c \in Counted(r) |-> r[c].usage.total]
    OBVIOUS
  <2>2. S = Units(f) /\ DOMAIN f = Counted(r) /\ \A c \in Counted(r) : f[c] = r[c].usage.total
    BY <1>1, <2>1 DEF UnitsOf
  <2>3. QED  BY <2>2, UnitsAre
<1>3. \A u : u \in T <=> \E c \in Counted(r) : \E k \in 1 .. r[c].usage.total : u = <<r[c].stage, <<c, k>>>>
  <2>1. \A s : \A v : v \in UnitsOf(r, Group(r, s)) <=>
                  \E c \in Group(r, s) : \E k \in 1 .. r[c].usage.total : v = <<c, k>>
    <3> TAKE s
    <3>1. PICK f : f = [c \in Group(r, s) |-> r[c].usage.total]
      OBVIOUS
    <3>2. UnitsOf(r, Group(r, s)) = Units(f) /\ DOMAIN f = Group(r, s) /\ \A c \in Group(r, s) : f[c] = r[c].usage.total
      BY <3>1 DEF UnitsOf
    <3>3. QED  BY <3>2, UnitsAre
  <2>2. ASSUME NEW u \in T
        PROVE  \E c \in Counted(r) : \E k \in 1 .. r[c].usage.total : u = <<r[c].stage, <<c, k>>>>
    <3>1. PICK s \in Stage : \E v \in UnitsOf(r, Group(r, s)) : u = <<s, v>>
      BY <1>1
    <3>2. PICK v \in UnitsOf(r, Group(r, s)) : u = <<s, v>>
      BY <3>1
    <3>3. PICK c \in Group(r, s) : \E k \in 1 .. r[c].usage.total : v = <<c, k>>
      BY <2>1
    <3>4. c \in Counted(r) /\ r[c].stage = s
      BY DEF Group
    <3>5. QED  BY <3>2, <3>3, <3>4
  <2>3. ASSUME NEW c \in Counted(r), NEW k \in 1 .. r[c].usage.total
        PROVE  <<r[c].stage, <<c, k>>>> \in T
    <3>1. PICK s \in Stage : s = r[c].stage
      OBVIOUS
    <3>2. c \in Group(r, s)
      BY <3>1 DEF Group
    <3>3. <<c, k>> \in UnitsOf(r, Group(r, s))
      BY <2>1, <3>2
    <3>4. <<s, <<c, k>>>> \in {s} \X UnitsOf(r, Group(r, s))
      BY <3>3
    <3>5. QED  BY <1>1, <3>1, <3>4
  <2>4. QED  BY <2>2, <2>3
<1>4. PICK F : F = [u \in S |-> <<r[u[1]].stage, u>>]
  OBVIOUS
<1>5. \A c \in Counted(r) : \A k \in 1 .. r[c].usage.total :
        <<c, k>> \in S /\ F[<<c, k>>] = <<r[c].stage, <<c, k>>>>
  BY <1>2, <1>4
<1>6. F \in Bijection(S, T)
  <2>1. ASSUME NEW u \in S PROVE F[u] \in T
    <3>1. PICK c \in Counted(r) : \E k \in 1 .. r[c].usage.total : u = <<c, k>>
      BY <1>2
    <3>2. PICK k \in 1 .. r[c].usage.total : u = <<c, k>>
      BY <3>1
    <3>3. F[u] = <<r[c].stage, <<c, k>>>>
      BY <1>5, <3>2
    <3>4. QED  BY <1>3, <3>3
  <2>2. F \in [S -> T]
    BY <1>4, <2>1
  <2>3. \A u, v \in S : F[u] = F[v] => u = v
    BY <1>4
  <2>4. ASSUME NEW t \in T PROVE \E u \in S : F[u] = t
    <3>1. PICK c \in Counted(r) : \E k \in 1 .. r[c].usage.total : t = <<r[c].stage, <<c, k>>>>
      BY <1>3
    <3>2. QED  BY <1>5, <3>1
  <2>5. QED  BY <2>2, <2>3, <2>4 DEF Bijection, Injection, Surjection, IsInjective
<1>7. IsFiniteSet(S)
  BY <1>1
<1>8. Cardinality(S) = Cardinality(T)
  BY ONLY <1>6, <1>7, FS_Bijection DEF ExistsBijection
<1> QED  BY <1>1, <1>8 DEF Tokens

LEMMA GroupsKeep == ASSUME CallsInv, ReadGroups PROVE CallsInv'
<1>1. /\ report.phase = "totals" /\ UNCHANGED <<taskVars, ledger, world>>
      /\ report'.phase = "shown" /\ report'.total = report.total
      /\ report'.groups = Cardinality(UNION {{s} \X UnitsOf(report.rows, Group(report.rows, s)) : s \in Stage})
  BY DEF ReadGroups, SnapshotRows
<1>2. PICK r : r = report.rows
  OBVIOUS
<1>3. /\ IsFiniteSet(UnitsOf(r, Counted(r))) /\ \A c \in Counted(r) : r[c].stage \in Stage
      /\ report.total = Tokens(r, Counted(r))
  BY <1>1, <1>2 DEF CallsInv, ReportAdds
<1>4. report'.groups = report.total
  BY <1>1, <1>2, <1>3, GroupsAddUp
<1>5. ReportAdds'
  BY <1>1, <1>4 DEF ReportAdds
<1> QED  BY <1>1, <1>5, PageKeeps

LEMMA PageCloses == ASSUME CallsInv, CloseReport PROVE CallsInv'
<1>1. UNCHANGED <<taskVars, ledger, world>> /\ report'.phase = "none"
  BY DEF CloseReport, NoReport
<1>2. ReportAdds'
  BY <1>1 DEF ReportAdds
<1> QED  BY <1>1, <1>2, PageKeeps

-----------------------------------------------------------------------------

LEMMA CallsKeep == ASSUME CallsInv, [CallsNext]_modelVars PROVE CallsInv'
<1>1. CASE UNCHANGED modelVars
  <2>1. UNCHANGED <<taskVars, ledger, world>> /\ UNCHANGED report
    BY <1>1 DEF modelVars
  <2>2. ReportAdds'
    BY <2>1 DEF CallsInv, ReportAdds
  <2>3. QED  BY <2>1, <2>2, PageKeeps
<1>2. CASE CallsNext
  BY <1>2, CallCountKeeps, CallJournalKeeps, CallStartKeeps, CallRejectKeeps, CallSendKeeps,
     RefusedKeeps, CallLostKeeps, AnswerKeeps, AccountKeeps, CallRecordKeeps, CallCloseKeeps,
     CallDeathKeeps, TotalsKeep, GroupsKeep, PageCloses
  DEF CallsNext
<1> QED  BY <1>1, <1>2

LEMMA EntriesTrue == ASSUME CallsInv PROVE EntriesAreTrue
<1>1. \A c \in Call : RowTrue(ledger[c], world[c])
  BY DEF CallsInv
<1>2. report.phase = "shown" => report.groups = report.total
  BY DEF CallsInv, ReportAdds
<1> QED  BY <1>1, <1>2 DEF EntriesAreTrue, RowTrue

LEMMA SpendingCovered == ASSUME CallsInv PROVE SpendingIsCovered
<1> DEFINE sum == IF durable THEN Larger(saved, used) ELSE used
           metered == {c \in SentCalls : ledger[c].known}
<1>1. SentCalls = {c \in Call : world[c].sent}
  BY DEF SentCalls
<1>2. ASSUME mpc # "stopped"
      PROVE  Cardinality(SentCalls) <= sum.calls /\ Tokens(ledger, metered) <= sum.tokens
  <2>1. used \in Spending /\ saved \in Spending
    BY DEF CallsInv, CallTypes
  <2>2. sum \in Spending /\ sum.calls >= used.calls /\ sum.tokens >= used.tokens
    BY <2>1, LargerIs DEF Spending
  <2>3. /\ Cardinality(SentCalls) <= used.calls /\ IsFiniteSet(PaidUnits) /\ Cardinality(PaidUnits) <= used.tokens
        /\ Cardinality(SentCalls) \in Nat /\ Cardinality(PaidUnits) \in Nat
    BY <1>2, <2>1, SumsAreNat DEF CallsInv, BudgetCovers, Spending
  <2>4. IsFiniteSet(UnitsOf(ledger, metered)) /\ Tokens(ledger, metered) <= Cardinality(PaidUnits)
    <3>1. PICK f, g : f = [c \in metered |-> ledger[c].usage.total] /\ g = [c \in Paid |-> world[c].total]
      OBVIOUS
    <3>2. IsFiniteSet(Units(g))
      BY <2>3, <3>1 DEF PaidUnits
    <3>3. \A c \in metered : c \in Paid /\ ledger[c].usage.total = world[c].total
      BY DEF CallsInv, CallPlaced, RowTrue, Paid, SentCalls, Underway, Unsent
    <3>4. \A c \in DOMAIN f : (c \in DOMAIN g /\ f[c] = g[c]) \/ f[c] = 0
      BY <3>1, <3>3
    <3>5. IsFiniteSet(Units(f)) /\ Cardinality(Units(f)) <= Cardinality(Units(g))
      BY ONLY <3>2, <3>4, UnitsShrink
    <3>6. QED  BY <3>1, <3>5 DEF Tokens, UnitsOf, PaidUnits
  <2>5. Tokens(ledger, metered) \in Nat
    BY <2>4, FS_CardinalityType DEF Tokens
  <2>6. used.calls \in Nat /\ used.tokens \in Nat /\ sum.calls \in Nat /\ sum.tokens \in Nat
    BY <2>1, <2>2 DEF Spending
  <2>7. QED  BY ONLY <2>2, <2>3, <2>4, <2>5, <2>6
<1>3. \A c, d \in SentCalls : c < d => ~world[c].blind
  BY DEF CallsInv, BlindIsLast
<1> QED  BY <1>1, <1>2, <1>3 DEF SpendingIsCovered

\* The ledger says of a call only what is so, a price rests on counts that add
\* up, the summary adds up, and the budget covers what was asked and what is
\* known to be spent, whatever is lost and whenever the process dies (usage.py,
\* profiles.py, usage_parser.py, pricing.py, BudgetedLLM).
THEOREM LedgerStaysTrue == CallsSpec => []LedgerIsTrue
<1>1. CallsInit => CallsInv
  BY CallsBegin
<1>2. CallsInv /\ [CallsNext]_modelVars => CallsInv'
  BY CallsKeep
<1>3. CallsInv => LedgerIsTrue
  BY EntriesTrue, SpendingCovered DEF LedgerIsTrue
<1> QED  BY <1>1, <1>2, <1>3, PTL DEF CallsSpec
=============================================================================
