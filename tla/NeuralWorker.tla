---------------------------- MODULE NeuralWorker ----------------------------
(* Calls of a persistent inference container over one pair of pipes:          *)
(* evaluation/neural_client.py, the loop of evaluation/neural_worker.py and   *)
(* the start and end of neural_validation.py.  A call that fails, times out   *)
(* or is cancelled leaves an answer in the pipe that belongs to nobody, so    *)
(* the client is closed with it, and the container removed.                   *)
(*                                                                            *)
(* Assumed of the engine: a container asked for exists before the client      *)
(* gives up on it, eighteen seconds later.                                    *)
EXTENDS Integers, Sequences

CONSTANTS
    Caller,         \* adapters that call the models at once
    Main,           \* the validation that starts and ends the client
    MaxCalls        \* bound: requests numbered

ASSUME NeuralAssumption ==
    Main \notin Caller /\ "free" \notin Caller \union {Main} /\ MaxCalls \in Nat \ {0}

VARIABLES
    container,      \* "none", "running", or "exited": what the engine has of it
    cli,            \* "none", "running" or "exited": the engine's client, which holds the pipes
    loaded,         \* the worker has loaded its models
    input,          \* the worker's input is open
    asked,          \* requests written, not read by the worker
    said,           \* answers written, not read by the client
    number,         \* the number of the last request
    pipeLock,       \* the caller in `call`, or "free"
    closed, cleaned,
    ready,          \* the identity was accepted
    at,             \* per caller and Main: where it is
    mine,           \* its last request
    got             \* the request its last answer was computed for, 0 without one

neuralVars ==
    <<container, cli, loaded, input, asked, said, number, pipeLock, closed, cleaned, ready, at, mine, got>>

Everyone == Caller \union {Main}

NeuralInit ==
    /\ container = "none" /\ cli = "none" /\ loaded = FALSE /\ input = FALSE
    /\ asked = <<>> /\ said = <<>> /\ number = 0 /\ pipeLock = "free"
    /\ closed = FALSE /\ cleaned = FALSE /\ ready = FALSE
    /\ at = [c \in Everyone |-> "away"]
    /\ mine = [c \in Everyone |-> 0] /\ got = [c \in Everyone |-> 0]

-----------------------------------------------------------------------------
(* The worker and its container.                                              *)

\* What the models make of a request: a result, or an error.
Outcomes == BOOLEAN

\* The identity, asked first, loads the models and tries them; where that fails
\* they may be there all the same.
Initialize ==
    /\ container = "running" /\ cli = "running" /\ asked # <<>> /\ ~loaded
    /\ \E ok \in Outcomes :
         /\ said' = Append(said, [id |-> Head(asked), ok |-> ok])
         /\ loaded' \in IF ok THEN {TRUE} ELSE BOOLEAN
    /\ asked' = Tail(asked)
    /\ UNCHANGED <<container, cli, input, number, pipeLock, closed, cleaned, ready, at, mine, got>>

\* A later request is answered, under its own number.
ServeRequest ==
    /\ container = "running" /\ cli = "running" /\ asked # <<>> /\ loaded
    /\ \E ok \in Outcomes : said' = Append(said, [id |-> Head(asked), ok |-> ok])
    /\ asked' = Tail(asked)
    /\ UNCHANGED <<container, cli, loaded, input, number, pipeLock, closed, cleaned, ready, at, mine, got>>

\* The worker reads the end of its input, breaks off at a packet too large, or is killed.
Exit ==
    /\ container = "running" /\ container' = "exited"
    /\ UNCHANGED <<cli, loaded, input, asked, said, number, pipeLock, closed, cleaned, ready, at, mine, got>>

\* The engine removes it, as it was told to; its client ends after that, or is killed before.
Removed ==
    /\ container = "exited" /\ container' = "none"
    /\ UNCHANGED <<cli, loaded, input, asked, said, number, pipeLock, closed, cleaned, ready, at, mine, got>>

ClientExits ==
    /\ cli = "running" /\ cli' = "exited" /\ input' = FALSE
    /\ UNCHANGED <<container, loaded, asked, said, number, pipeLock, closed, cleaned, ready, at, mine, got>>

-----------------------------------------------------------------------------
(* A call.                                                                    *)

Start ==
    /\ cli = "none" /\ at[Main] = "away" /\ ~closed
    /\ cli' = "running" /\ container' = "running" /\ input' = TRUE
    /\ at' = [at EXCEPT ![Main] = "waiting"]
    /\ UNCHANGED <<loaded, asked, said, number, pipeLock, closed, cleaned, ready, mine, got>>

AskModel(c) ==
    /\ ready /\ at[c] = "away" /\ at[Main] = "away" /\ at' = [at EXCEPT ![c] = "waiting"]
    /\ UNCHANGED <<container, cli, loaded, input, asked, said, number, pipeLock, closed, cleaned, ready, mine, got>>

\* With the lock: a closed client raises, and so does a request over the limit,
\* which has its number but is not written.
RequestRefused(c) ==
    /\ at[c] = "waiting" /\ pipeLock = "free"
    /\ \/ closed /\ UNCHANGED number
       \/ ~closed /\ number < MaxCalls /\ number' = number + 1
    /\ at' = [at EXCEPT ![c] = IF c = Main THEN "closing" ELSE "away"]
    /\ got' = [got EXCEPT ![c] = 0]
    /\ UNCHANGED <<container, cli, loaded, input, asked, said, pipeLock, closed, cleaned, ready, mine>>

\* The write may find the pipe broken; the read that follows tells.
SendRequest(c) ==
    /\ at[c] = "waiting" /\ pipeLock = "free" /\ ~closed /\ number < MaxCalls
    /\ number' = number + 1 /\ mine' = [mine EXCEPT ![c] = number']
    /\ asked' = IF input THEN Append(asked, number') ELSE asked
    /\ pipeLock' = c /\ at' = [at EXCEPT ![c] = "reading"] /\ got' = [got EXCEPT ![c] = 0]
    /\ UNCHANGED <<container, cli, loaded, input, said, closed, cleaned, ready>>

Usable(answer) == answer.id = number /\ answer.ok

\* The identity that Main asks for is checked when the lock is free again.
ModelAnswers(c) ==
    /\ at[c] = "reading" /\ said # <<>> /\ Usable(Head(said))
    /\ said' = Tail(said) /\ pipeLock' = "free"
    /\ got' = [got EXCEPT ![c] = Head(said).id]
    /\ \/ c = Main /\ ~ready /\ ready' = TRUE /\ at' = [at EXCEPT ![c] = "away"]
       \/ c = Main /\ UNCHANGED ready /\ at' = [at EXCEPT ![c] = "closing"]
       \/ c # Main /\ UNCHANGED ready /\ at' = [at EXCEPT ![c] = "away"]
    /\ UNCHANGED <<container, cli, loaded, input, asked, number, closed, cleaned, mine>>

\* An answer that cannot be used, the end of the stream, a timeout or a cancellation.
Fails(c) ==
    /\ at[c] = "reading"
    /\ \/ said # <<>> /\ ~Usable(Head(said)) /\ said' = Tail(said)
       \/ UNCHANGED said
    /\ at' = [at EXCEPT ![c] = "closing"]
    /\ UNCHANGED <<container, cli, loaded, input, asked, number, pipeLock, closed, cleaned, ready, mine, got>>

\* Cancelled while another caller has the lock.
Leaves(c) ==
    /\ at[c] = "waiting" /\ pipeLock # "free"
    /\ at' = [at EXCEPT ![c] = "away"]
    /\ UNCHANGED <<container, cli, loaded, input, asked, said, number, pipeLock, closed, cleaned, ready, mine, got>>

\* Main calls once more at the end, with the adapters gone, or does not, and closes.
Verify ==
    /\ ready \/ closed
    /\ \A c \in Everyone : at[c] = "away"
    /\ at' = [at EXCEPT ![Main] = IF closed THEN "closing" ELSE "waiting"]
    /\ UNCHANGED <<container, cli, loaded, input, asked, said, number, pipeLock, closed, cleaned, ready, mine, got>>

-----------------------------------------------------------------------------
(* Closing.                                                                   *)

\* Fault: the container is taken to be gone when the engine's client is.
ClientGone == cli = "exited"

Gone == container = "none"

Out(c) == /\ pipeLock' = IF pipeLock = c THEN "free" ELSE pipeLock
          /\ at' = [at EXCEPT ![c] = "away"]

CloseAgain(c) ==
    /\ at[c] = "closing" /\ cleaned /\ Out(c)
    /\ UNCHANGED <<container, cli, loaded, input, asked, said, number, closed, cleaned, ready, mine, got>>

\* The input is closed, which the worker reads as the end.
BeginClose(c) ==
    /\ at[c] = "closing" /\ ~cleaned
    /\ closed' = TRUE /\ input' = FALSE /\ at' = [at EXCEPT ![c] = "joining"]
    /\ UNCHANGED <<container, cli, loaded, asked, said, number, pipeLock, cleaned, ready, mine, got>>

\* After eight seconds a container that is still there is stopped.
StopContainer(c) ==
    /\ at[c] = "joining" /\ cli = "running"
    /\ container' = IF container = "running" THEN "exited" ELSE container
    /\ at' = [at EXCEPT ![c] = "stopping"]
    /\ UNCHANGED <<cli, loaded, input, asked, said, number, pipeLock, closed, cleaned, ready, mine, got>>

\* Ten more, and the engine's client is killed; the timeout is raised.
Kill(c) ==
    /\ at[c] = "stopping" /\ cli = "running" /\ cli' = "exited" /\ Out(c)
    /\ UNCHANGED <<container, loaded, input, asked, said, number, closed, cleaned, ready, mine, got>>

EndClose(c) ==
    /\ at[c] \in {"joining", "stopping"} /\ cli = "exited"
    /\ cleaned' = Gone /\ Out(c)
    /\ UNCHANGED <<container, cli, loaded, input, asked, said, number, closed, ready, mine, got>>

\* The engine cannot be asked, or the closing is itself cancelled.
CloseFails(c) ==
    /\ at[c] \in {"joining", "stopping"} /\ Out(c)
    /\ UNCHANGED <<container, cli, loaded, input, asked, said, number, closed, cleaned, ready, mine, got>>

NeuralNext ==
    \/ Initialize \/ ServeRequest \/ Exit \/ Removed \/ ClientExits \/ Start \/ Verify
    \/ \E c \in Caller : AskModel(c)
    \/ \E c \in Everyone :
         \/ RequestRefused(c) \/ SendRequest(c) \/ ModelAnswers(c) \/ Fails(c) \/ Leaves(c)
         \/ CloseAgain(c) \/ BeginClose(c) \/ StopContainer(c) \/ Kill(c) \/ EndClose(c) \/ CloseFails(c)

NeuralSpec == NeuralInit /\ [][NeuralNext]_neuralVars

-----------------------------------------------------------------------------
\* Nothing of a call is left for another: whoever gets an answer gets that of
\* its own request, through timeouts, cancellations and closings cut short,
\* and once the cleanup is recorded as verified there is neither a container
\* nor a pipe to it, nor will there be.
NothingLeftOver ==
    /\ \A c \in Everyone : got[c] # 0 => got[c] = mine[c]
    /\ cleaned => container = "none" /\ cli = "exited" /\ closed
=============================================================================
