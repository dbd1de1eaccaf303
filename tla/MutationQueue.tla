---------------------------- MODULE MutationQueue ----------------------------
(***************************************************************************)
(* Mutations of a running supervisor (daemon.py): control connections hand *)
(* requests to the worker thread that also runs the engine, and wait.      *)
(*                                                                         *)
(* A connection is one thread of the control server.  It takes a handler   *)
(* slot, then a waiter slot if it is a mutation, then queues its request   *)
(* and sleeps on the condition until the request is settled.  Every action *)
(* that touches the queue or a request is one critical section of          *)
(* _mutation_condition.  The control server is up before the worker's      *)
(* components are; the end of the process is not modelled.                 *)
(***************************************************************************)
EXTENDS Naturals, FiniteSets, Sequences

LOCAL INSTANCE SequencesExt

CONSTANTS
    Clients,
    HandlerLimit,   \* _CONTROL_HANDLER_LIMIT
    WaiterLimit     \* _MUTATION_WAITER_LIMIT

ASSUME LimitsAssumption ==
    /\ HandlerLimit \in Nat /\ WaiterLimit \in Nat
    /\ WaiterLimit < HandlerLimit

\* What the worker does when it serves no client, from the start of the control server.
Turns == {"loading", "initializing", "top", "recovering", "draining", "engine", "exited"}

ASSUME ClientsAssumption == IsFiniteSet(Clients) /\ Clients \cap Turns = {}

VARIABLES
    thread,     \* of a client: "idle", "connected", "entering" or "waiting"
    state,      \* of its request: _MutationState, or "none"
    queue,      \* _pending_mutations
    asleep,     \* clients inside Condition.wait
    worker,     \* where the worker thread stands, or the client it serves
    stopping    \* stop(): "no", "set" (event set) or "drained"

vars == <<thread, state, queue, asleep, worker, stopping>>

Settled == {"cancelled", "completed", "failed"}

Handlers == {c \in Clients : thread[c] # "idle"}
Waiters == {c \in Clients : thread[c] \in {"entering", "waiting"}}

Init ==
    /\ thread = [c \in Clients |-> "idle"]
    /\ state = [c \in Clients |-> "none"]
    /\ queue = <<>> /\ asleep = {}
    /\ worker = "loading" /\ stopping = "no"

-----------------------------------------------------------------------------
(* The control server.                                                     *)

\* _serve: a connection without a handler slot is refused at once.
Connect(c) ==
    /\ thread[c] = "idle" /\ Cardinality(Handlers) < HandlerLimit
    /\ thread' = [thread EXCEPT ![c] = "connected"]
    /\ UNCHANGED <<state, queue, asleep, worker, stopping>>

\* _handle_connection: other verbs, and a mutation that finds no waiter slot,
\* are answered at once.
Dispatch(c) ==
    /\ thread[c] = "connected"
    /\ \/ thread' = [thread EXCEPT ![c] = "idle"]
       \/ /\ Cardinality(Waiters) < WaiterLimit
          /\ thread' = [thread EXCEPT ![c] = "entering"]
    /\ UNCHANGED <<state, queue, asleep, worker, stopping>>

\* Coding error: the stop event is not looked at.
EnqueueAlways(c) ==
    /\ thread[c] = "entering"
    /\ queue' = Append(queue, c)
    /\ state' = [state EXCEPT ![c] = "queued"]
    /\ thread' = [thread EXCEPT ![c] = "waiting"]
    /\ asleep' = asleep \cup {c}
    /\ UNCHANGED <<worker, stopping>>

\* request_mutation, up to its first wait: refused while there is no mutation handler
\* and after the stop event.
Enqueue(c) ==
    /\ thread[c] = "entering"
    /\ IF worker # "loading" /\ stopping = "no"
       THEN /\ queue' = Append(queue, c)
            /\ state' = [state EXCEPT ![c] = "queued"]
            /\ thread' = [thread EXCEPT ![c] = "waiting"]
            /\ asleep' = asleep \cup {c}
       ELSE /\ thread' = [thread EXCEPT ![c] = "idle"]
            /\ UNCHANGED <<state, queue, asleep>>
    /\ UNCHANGED <<worker, stopping>>

\* A notified caller looks at its request: it answers, or waits again.
Awake(c) ==
    /\ thread[c] = "waiting" /\ c \notin asleep
    /\ IF state[c] \in Settled
       THEN /\ thread' = [thread EXCEPT ![c] = "idle"]
            /\ state' = [state EXCEPT ![c] = "none"]
            /\ UNCHANGED asleep
       ELSE asleep' = asleep \cup {c} /\ UNCHANGED <<thread, state>>
    /\ UNCHANGED <<queue, worker, stopping>>

\* _pending_mutations.remove
Dequeue(c) == \E i \in DOMAIN queue : queue[i] = c /\ queue' = RemoveAt(queue, i)

\* Coding error: the request stays in the queue when its caller gives up.
ExpireInPlace(c) ==
    /\ c \in asleep /\ state[c] = "queued"
    /\ thread' = [thread EXCEPT ![c] = "idle"]
    /\ state' = [state EXCEPT ![c] = "none"]
    /\ asleep' = {}
    /\ UNCHANGED <<queue, worker, stopping>>

\* Coding error: a mutation that has started is given up as well.
ExpireAnyTime(c) ==
    /\ c \in asleep /\ state[c] \in {"queued", "started"}
    /\ IF state[c] = "queued" THEN Dequeue(c) ELSE UNCHANGED queue
    /\ thread' = [thread EXCEPT ![c] = "idle"]
    /\ state' = [state EXCEPT ![c] = "none"]
    /\ asleep' = {}
    /\ UNCHANGED <<worker, stopping>>

\* The deadline of a queued request passes: it is cancelled and removed, and
\* its caller answers with the error.
Expire(c) ==
    /\ c \in asleep /\ state[c] = "queued"
    /\ Dequeue(c)
    /\ thread' = [thread EXCEPT ![c] = "idle"]
    /\ state' = [state EXCEPT ![c] = "none"]
    /\ asleep' = {}
    /\ UNCHANGED <<worker, stopping>>

-----------------------------------------------------------------------------
(* The worker thread.                                                      *)

\* _load_components sets the mutation handler.
LoadComponents ==
    /\ worker = "loading" /\ worker' = "initializing"
    /\ UNCHANGED <<thread, state, queue, asleep, stopping>>

\* _initialize_workspace: it retries, or waits for a login, until it succeeds or a stop
\* ends it, and serves no mutation meanwhile.
Initialize ==
    /\ worker = "initializing"
    /\ worker' = "top" \/ (stopping # "no" /\ worker' = "exited")
    /\ UNCHANGED <<thread, state, queue, asleep, stopping>>

\* The top of _worker_loop.  A turn that finds a subscription failure runs no
\* mutation; the next one does, since it takes a successful engine run to start
\* another subscription that could fail.
Wake ==
    /\ worker \in {"top", "recovering"}
    /\ \/ stopping # "no" /\ worker' = "exited"
       \/ stopping = "no" /\ worker' = "draining"
       \/ stopping = "no" /\ worker = "top" /\ worker' = "recovering"
    /\ UNCHANGED <<thread, state, queue, asleep, stopping>>

\* Coding error: the newest request is served first.
TakeNewest ==
    /\ worker = "draining"
    /\ IF queue = <<>>
       THEN worker' = "engine" /\ UNCHANGED <<state, queue, asleep>>
       ELSE /\ worker' = queue[Len(queue)]
            /\ queue' = SubSeq(queue, 1, Len(queue) - 1)
            /\ state' = [state EXCEPT ![queue[Len(queue)]] = "started"]
            /\ asleep' = {}
    /\ UNCHANGED <<thread, stopping>>

\* _run_pending_mutations, the first critical section.
Take ==
    /\ worker = "draining"
    /\ IF queue = <<>>
       THEN worker' = "engine" /\ UNCHANGED <<state, queue, asleep>>
       ELSE /\ worker' = Head(queue)
            /\ queue' = Tail(queue)
            /\ state' = [state EXCEPT ![Head(queue)] = "started"]
            /\ asleep' = {}
    /\ UNCHANGED <<thread, stopping>>

\* Coding error: the result is stored without waking the caller.
FinishSilently(c) ==
    /\ worker = c
    /\ \E outcome \in {"completed", "failed"} : state' = [state EXCEPT ![c] = outcome]
    /\ worker' = "draining"
    /\ UNCHANGED <<thread, queue, asleep, stopping>>

\* The handler returns or raises; the second critical section.
Finish(c) ==
    /\ worker = c
    /\ \E outcome \in {"completed", "failed"} : state' = [state EXCEPT ![c] = outcome]
    /\ asleep' = {}
    /\ worker' = "draining"
    /\ UNCHANGED <<thread, queue, stopping>>

\* The engine's turn, or its backoff; a failure does not end the loop.
RunEngine ==
    /\ worker = "engine" /\ worker' = "top"
    /\ UNCHANGED <<thread, state, queue, asleep, stopping>>

-----------------------------------------------------------------------------
(* stop(), called by a connection thread: the event, then the queue.       *)

SetStop ==
    /\ stopping = "no" /\ stopping' = "set"
    /\ UNCHANGED <<thread, state, queue, asleep, worker>>

\* Coding error: drained requests get a state no caller takes for an answer.
DrainAsStopped ==
    /\ stopping = "set" /\ stopping' = "drained"
    /\ state' = [c \in Clients |-> IF state[c] = "queued" THEN "stopped" ELSE state[c]]
    /\ queue' = <<>> /\ asleep' = {}
    /\ UNCHANGED <<thread, worker>>

\* _fail_queued_mutations
DrainQueue ==
    /\ stopping = "set" /\ stopping' = "drained"
    /\ state' = [c \in Clients |-> IF state[c] = "queued" THEN "failed" ELSE state[c]]
    /\ queue' = <<>> /\ asleep' = {}
    /\ UNCHANGED <<thread, worker>>

Client(c) == Connect(c) \/ Dispatch(c) \/ Enqueue(c) \/ Awake(c) \/ Expire(c)
Start == LoadComponents \/ Initialize
Worker == Wake \/ Take \/ RunEngine \/ \E c \in Clients : Finish(c)

Next == (\E c \in Clients : Client(c)) \/ Start \/ Worker \/ SetStop \/ DrainQueue

\* Threads run.  Nothing is assumed of deadlines, of clients, of a stop, or of the
\* initialization, which may retry or wait for a login without end.
Fairness ==
    /\ WF_vars(Worker) /\ WF_vars(DrainQueue)
    /\ \A c \in Clients : WF_vars(Dispatch(c)) /\ WF_vars(Enqueue(c)) /\ WF_vars(Awake(c))

Spec == Init /\ [][Next]_vars /\ Fairness

-----------------------------------------------------------------------------
Queued(c) == \E i \in DOMAIN queue : queue[i] = c

TypeOK ==
    /\ thread \in [Clients -> {"idle", "connected", "entering", "waiting"}]
    /\ state \in [Clients -> {"none", "queued", "started"} \cup Settled]
    /\ queue \in Seq(Clients) /\ asleep \subseteq Clients
    /\ worker \in Turns \cup Clients
    /\ stopping \in {"no", "set", "drained"}

\* The queue holds each queued request once and no other: the worker never
\* meets a request that is not queued, which would end it, and never loses one.
QueueIsQueued ==
    /\ \A c \in Clients : Queued(c) <=> state[c] = "queued"
    /\ \A i, j \in DOMAIN queue : queue[i] = queue[j] => i = j

\* A caller is still there while its mutation runs: no client is told that its
\* mutation timed out or was refused and then sees it applied.
RunsForItsCaller ==
    \A c \in Clients : worker = c => thread[c] = "waiting" /\ state[c] = "started"

\* No caller sleeps through the answer to its request.
NoLostWakeup == \A c \in asleep : state[c] \in {"queued", "started"}

\* A stopped supervisor keeps nobody waiting for a worker that has gone.
NobodyStranded == stopping = "drained" => queue = <<>>

\* Once the initialization has ended, or a stop was asked for, every mutation that waits
\* is answered without its hour-long timeout: one queued before, and one queued then.
MutationsAnswered ==
    \A c \in Clients :
        thread[c] = "waiting" /\ (worker # "initializing" \/ stopping # "no") ~> thread[c] = "idle"

=============================================================================
