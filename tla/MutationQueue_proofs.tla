------------------------ MODULE MutationQueue_proofs ------------------------
(* Theorems about MutationQueue, for any set of clients and any limits.    *)
EXTENDS MutationQueue, TLAPS, SequenceTheorems

LOCAL INSTANCE SequencesExt

\* Only the client the worker serves has a started request.
StartedIsServed == \A c \in Clients : state[c] = "started" <=> worker = c

\* A client waits exactly while it has a request.
WaitsForRequest == \A c \in Clients : thread[c] = "waiting" <=> state[c] # "none"

QueueInv ==
    /\ TypeOK
    /\ QueueIsQueued
    /\ StartedIsServed
    /\ WaitsForRequest
    /\ NoLostWakeup
    /\ NobodyStranded

-----------------------------------------------------------------------------
\* Removing position i keeps the other elements, each once if they were.
LEMMA RemoveAtElements ==
    ASSUME NEW S, NEW s \in Seq(S), NEW i \in DOMAIN s,
           \A j, k \in DOMAIN s : s[j] = s[k] => j = k
    PROVE  LET t == RemoveAt(s, i)
           IN  /\ t \in Seq(S)
               /\ \A x : (\E j \in DOMAIN t : t[j] = x)
                          <=> x # s[i] /\ \E j \in DOMAIN s : s[j] = x
               /\ \A j, k \in DOMAIN t : t[j] = t[k] => j = k
<1> DEFINE t == RemoveAt(s, i)
<1> DEFINE old(j) == IF j < i THEN j ELSE j + 1
<1>1. /\ Len(s) \in Nat /\ i \in 1..Len(s) /\ DOMAIN s = 1..Len(s)
      /\ \A j \in 1..Len(s) : s[j] \in S
  OBVIOUS
<1>2. /\ t \in Seq(S)
      /\ Len(t) = Len(s) - 1
      /\ \A j \in 1..(Len(s) - 1) : t[j] = s[old(j)]
  <2> DEFINE a == SubSeq(s, 1, i - 1)
             b == SubSeq(s, i + 1, Len(s))
  <2>1. /\ a \in Seq(S) /\ Len(a) = i - 1
        /\ \A j \in 1..(i - 1) : a[j] = s[j]
    BY <1>1
  <2>2. /\ b \in Seq(S) /\ Len(b) = Len(s) - i
        /\ \A j \in 1..(Len(s) - i) : b[j] = s[i + j]
    BY <1>1
  <2>3. t = a \o b
    BY DEF RemoveAt
  <2> HIDE DEF a, b, t
  <2>4. /\ t \in Seq(S) /\ Len(t) = Len(s) - 1
        /\ \A j \in 1..(Len(s) - 1) : t[j] = IF j <= i - 1 THEN a[j] ELSE b[j - (i - 1)]
    <3>1. /\ a \o b \in Seq(S) /\ Len(a \o b) = Len(a) + Len(b)
          /\ \A j \in 1..(Len(a) + Len(b)) :
                (a \o b)[j] = IF j <= Len(a) THEN a[j] ELSE b[j - Len(a)]
      <4>1. a \in Seq(S) /\ b \in Seq(S)
        BY <2>1, <2>2
      <4> QED
        BY ONLY <4>1, ConcatProperties
    <3>2. Len(a) + Len(b) = Len(s) - 1
      BY <1>1, <2>1, <2>2
    <3> QED
      BY <2>1, <2>3, <3>1, <3>2
  <2>5. ASSUME NEW j \in 1..(Len(s) - 1), j < i PROVE t[j] = s[j]
    BY <1>1, <2>1, <2>4, <2>5
  <2>6. ASSUME NEW j \in 1..(Len(s) - 1), ~(j < i) PROVE t[j] = s[j + 1]
    <3> DEFINE k == j - (i - 1)
    <3>1. k \in 1..(Len(s) - i) /\ (i - 1) + k = j /\ i + k = j + 1
      BY <1>1, <2>6
    <3> HIDE DEF k
    <3>2. t[j] = b[k]
      <4>1. ~(j <= i - 1)
        BY <1>1, <2>6
      <4> QED
        BY <4>1, <2>4 DEF k
    <3>3. b[k] = s[j + 1]
      BY <3>1, <2>2
    <3> QED
      BY <3>2, <3>3
  <2> QED
    BY <2>4, <2>5, <2>6
<1>3. DOMAIN t = 1..(Len(s) - 1)
  BY <1>1, <1>2
<1> HIDE DEF t
<1>4. \A j \in DOMAIN t : old(j) \in 1..Len(s) /\ old(j) # i
  BY <1>1, <1>3
<1>5. \A j \in 1..Len(s) : j # i => \E k \in DOMAIN t : old(k) = j
  <2> SUFFICES ASSUME NEW j \in 1..Len(s), j # i PROVE \E k \in DOMAIN t : old(k) = j
    OBVIOUS
  <2>1. CASE j < i
    <3>1. j \in DOMAIN t /\ old(j) = j
      BY <1>1, <1>3, <2>1
    <3> QED BY <3>1
  <2>2. CASE j > i
    <3>1. j - 1 \in DOMAIN t /\ old(j - 1) = j
      BY <1>1, <1>3, <2>2
    <3> QED BY <3>1
  <2> QED
    BY <1>1, <2>1, <2>2
<1>6. \A j, k \in DOMAIN t : old(j) = old(k) => j = k
  BY <1>1, <1>3
<1>7. \A j \in DOMAIN t : t[j] = s[old(j)]
  BY <1>2, <1>3
<1> HIDE DEF old
<1>8. \A x : (\E j \in DOMAIN t : t[j] = x) => x # s[i] /\ \E j \in DOMAIN s : s[j] = x
  BY <1>1, <1>4, <1>7
<1>9. \A x : (x # s[i] /\ \E j \in DOMAIN s : s[j] = x) => \E j \in DOMAIN t : t[j] = x
  BY <1>1, <1>5, <1>7
<1>10. \A j, k \in DOMAIN t : t[j] = t[k] => j = k
  BY <1>1, <1>4, <1>6, <1>7
<1> QED
  BY <1>2, <1>8, <1>9, <1>10 DEF t

-----------------------------------------------------------------------------
(* The invariant: each action by itself, then the theorem.                 *)

LEMMA InitInv == Init => QueueInv
<1> SUFFICES ASSUME Init PROVE QueueInv
  OBVIOUS
<1>1. TypeOK
  BY DEF Init, TypeOK, Turns
<1>2. QueueIsQueued
  BY DEF Init, QueueIsQueued, Queued
<1>3. StartedIsServed
  BY ClientsAssumption DEF Init, StartedIsServed, Turns
<1> QED
  BY <1>1, <1>2, <1>3 DEF Init, QueueInv, WaitsForRequest, NoLostWakeup, NobodyStranded

\* Steps of a client that touch neither the queue nor a request.
LEMMA QuietStep ==
    ASSUME QueueInv,
           thread' \in [Clients -> {"idle", "connected", "entering", "waiting"}],
           \A c \in Clients : thread'[c] = "waiting" <=> thread[c] = "waiting",
           worker' \in Turns \cup Clients,
           \A c \in Clients : worker' = c <=> worker = c,
           stopping' \in {"no", "set", "drained"},
           stopping' = "drained" => stopping = "drained",
           UNCHANGED <<state, queue, asleep>>
    PROVE  QueueInv'
<1> USE DEF QueueInv
<1>1. TypeOK'
  BY DEF TypeOK
<1>2. QueueIsQueued'
  BY DEF QueueIsQueued, Queued
<1>3. StartedIsServed' /\ WaitsForRequest'
  BY DEF StartedIsServed, WaitsForRequest
<1> QED
  BY <1>1, <1>2, <1>3 DEF NoLostWakeup, NobodyStranded

\* Client steps.
LEMMA EnqueueInv ==
    ASSUME QueueInv, NEW c \in Clients, Enqueue(c)
    PROVE  QueueInv'
<1> USE DEF QueueInv
<1>1. CASE worker # "loading" /\ stopping = "no"
  <2>1. /\ queue' = Append(queue, c)
        /\ state' = [state EXCEPT ![c] = "queued"]
        /\ thread' = [thread EXCEPT ![c] = "waiting"]
        /\ asleep' = asleep \cup {c}
        /\ thread[c] = "entering"
        /\ UNCHANGED <<worker, stopping>>
    BY <1>1 DEF Enqueue
  <2>2. state[c] = "none"
    BY <2>1 DEF WaitsForRequest
  <2>3. TypeOK'
    BY <2>1 DEF TypeOK
  <2>4. /\ queue' \in Seq(Clients) /\ Len(queue') = Len(queue) + 1
        /\ queue'[Len(queue) + 1] = c
        /\ \A j \in 1..Len(queue) : queue'[j] = queue[j]
        /\ DOMAIN queue = 1..Len(queue) /\ DOMAIN queue' = 1..(Len(queue) + 1)
        /\ Len(queue) \in Nat
    BY <2>1 DEF TypeOK
  <2>5. QueueIsQueued'
    <3>1. ASSUME NEW d \in Clients PROVE Queued(d)' <=> Queued(d) \/ d = c
      BY <2>4 DEF Queued
    <3>2. ASSUME NEW d \in Clients PROVE Queued(d)' <=> state'[d] = "queued"
      BY <3>1, <2>1, <2>2 DEF QueueIsQueued, TypeOK
    <3>3. ~Queued(c)
      BY <2>2 DEF QueueIsQueued
    <3>4. \A j, k \in DOMAIN queue' : queue'[j] = queue'[k] => j = k
      BY <2>4, <3>3 DEF QueueIsQueued, Queued
    <3> QED
      BY <3>2, <3>4 DEF QueueIsQueued
  <2>6. StartedIsServed' /\ WaitsForRequest' /\ NoLostWakeup'
    BY <2>1, <2>2 DEF StartedIsServed, WaitsForRequest, NoLostWakeup, TypeOK
  <2> QED
    BY <1>1, <2>1, <2>3, <2>5, <2>6 DEF NobodyStranded
<1>2. CASE ~(worker # "loading" /\ stopping = "no")
  BY <1>2, QuietStep DEF Enqueue, TypeOK
<1> QED
  BY <1>1, <1>2

LEMMA AwakeInv ==
    ASSUME QueueInv, NEW c \in Clients, Awake(c)
    PROVE  QueueInv'
<1> USE DEF QueueInv
<1>1. TypeOK'
  BY DEF Awake, TypeOK
<1>2. QueueIsQueued'
  <2>1. \A d \in Clients : state'[d] = "queued" <=> state[d] = "queued"
    BY DEF Awake, TypeOK, Settled
  <2> QED
    BY <2>1 DEF Awake, QueueIsQueued, Queued
<1>3. StartedIsServed'
  BY DEF Awake, StartedIsServed, TypeOK, Settled
<1>4. WaitsForRequest'
  BY DEF Awake, WaitsForRequest, TypeOK, Settled
<1>5. NoLostWakeup'
  <2>1. state[c] \in Settled \cup {"queued", "started"}
    BY DEF Awake, WaitsForRequest, TypeOK
  <2> QED
    BY <2>1 DEF Awake, NoLostWakeup, TypeOK, Settled
<1> QED
  BY <1>1, <1>2, <1>3, <1>4, <1>5 DEF Awake, NobodyStranded

LEMMA ExpireInv ==
    ASSUME QueueInv, NEW c \in Clients, Expire(c)
    PROVE  QueueInv'
<1> USE DEF QueueInv
<1>1. PICK i \in DOMAIN queue : queue[i] = c /\ queue' = RemoveAt(queue, i)
  BY DEF Expire, Dequeue
<1>2. /\ queue \in Seq(Clients)
      /\ \A j, k \in DOMAIN queue : queue[j] = queue[k] => j = k
  BY DEF TypeOK, QueueIsQueued
<1> DEFINE t == RemoveAt(queue, i)
<1>3. /\ t \in Seq(Clients)
      /\ \A x : (\E j \in DOMAIN t : t[j] = x)
                 <=> x # queue[i] /\ \E j \in DOMAIN queue : queue[j] = x
      /\ \A j, k \in DOMAIN t : t[j] = t[k] => j = k
  BY ONLY <1>2, RemoveAtElements, i \in DOMAIN queue
<1> HIDE DEF t
<1>4. queue' = t /\ queue[i] = c
  BY <1>1 DEF t
<1>5. /\ queue' \in Seq(Clients)
      /\ \A x : (\E j \in DOMAIN queue' : queue'[j] = x)
                 <=> x # c /\ \E j \in DOMAIN queue : queue[j] = x
      /\ \A j, k \in DOMAIN queue' : queue'[j] = queue'[k] => j = k
  BY <1>3, <1>4
<1>6. TypeOK'
  BY <1>5 DEF Expire, TypeOK
<1>7. QueueIsQueued'
  BY <1>5 DEF Expire, QueueIsQueued, Queued, TypeOK
<1>8. StartedIsServed' /\ WaitsForRequest' /\ NoLostWakeup'
  BY DEF Expire, StartedIsServed, WaitsForRequest, NoLostWakeup, TypeOK
<1>9. NobodyStranded'
  <2>1. queue # <<>>
    <3>1. Len(queue) \in Nat /\ Len(queue) # 0
      BY <1>1 DEF TypeOK
    <3> QED
      BY <3>1
  <2> QED
    BY <2>1 DEF Expire, NobodyStranded
<1> QED
  BY <1>6, <1>7, <1>8, <1>9

\* Worker steps.
LEMMA TakeInv ==
    ASSUME QueueInv, Take
    PROVE  QueueInv'
<1> USE DEF QueueInv
<1>1. CASE queue = <<>>
  <2>1. \A c \in Clients : worker' = c <=> worker = c
    BY <1>1, ClientsAssumption DEF Take, Turns
  <2> QED
    BY <1>1, <2>1, QuietStep DEF Take, TypeOK, Turns
<1>2. CASE queue # <<>>
  <2> DEFINE c == Head(queue)
  <2>1. /\ worker = "draining" /\ worker' = c
        /\ queue' = Tail(queue)
        /\ state' = [state EXCEPT ![c] = "started"]
        /\ asleep' = {}
        /\ UNCHANGED <<thread, stopping>>
    BY <1>2 DEF Take
  <2>2. /\ c \in Clients /\ c = queue[1]
        /\ queue' \in Seq(Clients) /\ Len(queue') = Len(queue) - 1
        /\ \A j \in 1..(Len(queue) - 1) : queue'[j] = queue[j + 1]
        /\ Len(queue) \in Nat /\ Len(queue) > 0
        /\ DOMAIN queue = 1..Len(queue) /\ DOMAIN queue' = 1..(Len(queue) - 1)
    BY <1>2, <2>1 DEF TypeOK
  <2> HIDE DEF c
  <2>3. TypeOK'
    BY <2>1, <2>2 DEF TypeOK
  <2>4. state[c] = "queued" /\ worker \notin Clients
    <3>1. Queued(c)
      BY <2>2 DEF Queued
    <3> QED
      BY <3>1, <2>1, <2>2, ClientsAssumption DEF QueueIsQueued, Turns
  <2>5. QueueIsQueued'
    <3>1. ASSUME NEW d \in Clients, d # c, Queued(d) PROVE Queued(d)'
      <4>1. PICK j \in 1..Len(queue) : queue[j] = d
        BY <2>2, <3>1 DEF Queued
      <4>2. j # 1
        BY <2>2, <3>1, <4>1
      <4>3. j - 1 \in DOMAIN queue' /\ queue'[j - 1] = d
        BY <2>2, <4>1, <4>2
      <4> QED
        BY <4>3 DEF Queued
    <3>2. ASSUME NEW d \in Clients, Queued(d)' PROVE Queued(d) /\ d # c
      <4>1. PICK j \in 1..(Len(queue) - 1) : queue'[j] = d
        BY <2>2, <3>2 DEF Queued
      <4>2. j + 1 \in DOMAIN queue /\ 1 \in DOMAIN queue /\ queue[j + 1] = d /\ j + 1 # 1
        BY <2>2, <4>1
      <4> QED
        BY <2>2, <4>2 DEF Queued, QueueIsQueued
    <3>3. \A d \in Clients : Queued(d)' <=> state'[d] = "queued"
      BY <2>1, <2>2, <3>1, <3>2 DEF QueueIsQueued, TypeOK
    <3>4. ASSUME NEW j \in DOMAIN queue', NEW k \in DOMAIN queue', queue'[j] = queue'[k]
          PROVE  j = k
      <4>1. j + 1 \in DOMAIN queue /\ k + 1 \in DOMAIN queue /\ queue[j + 1] = queue[k + 1]
        BY <2>2, <3>4
      <4>2. j + 1 = k + 1
        BY <4>1 DEF QueueIsQueued
      <4> QED
        BY <2>2, <3>4, <4>2
    <3> QED
      BY <3>3, <3>4 DEF QueueIsQueued
  <2>6. StartedIsServed'
    BY <2>1, <2>2, <2>4 DEF StartedIsServed, TypeOK
  <2>7. WaitsForRequest' /\ NoLostWakeup'
    BY <2>1, <2>2, <2>4 DEF WaitsForRequest, NoLostWakeup, TypeOK
  <2> QED
    BY <1>2, <2>1, <2>3, <2>5, <2>6, <2>7 DEF NobodyStranded
<1> QED
  BY <1>1, <1>2

LEMMA FinishInv ==
    ASSUME QueueInv, NEW c \in Clients, Finish(c)
    PROVE  QueueInv'
<1> USE DEF QueueInv
<1>1. PICK outcome \in {"completed", "failed"} : state' = [state EXCEPT ![c] = outcome]
  BY DEF Finish
<1>2. worker = c /\ worker' = "draining" /\ asleep' = {} /\ UNCHANGED <<thread, queue, stopping>>
  BY DEF Finish
<1>3. state[c] = "started"
  BY <1>2 DEF StartedIsServed
<1>4. TypeOK'
  BY <1>1, <1>2 DEF TypeOK, Settled, Turns
<1>5. QueueIsQueued'
  BY <1>1, <1>2, <1>3 DEF QueueIsQueued, Queued, TypeOK
<1>6. StartedIsServed'
  <2>1. "draining" \notin Clients
    BY ClientsAssumption DEF Turns
  <2> QED
    BY <1>1, <1>2, <2>1 DEF StartedIsServed, TypeOK
<1> QED
  BY <1>1, <1>2, <1>3, <1>4, <1>5, <1>6
  DEF WaitsForRequest, NoLostWakeup, NobodyStranded, TypeOK

LEMMA DrainQueueInv ==
    ASSUME QueueInv, DrainQueue
    PROVE  QueueInv'
<1> USE DEF QueueInv
<1>1. TypeOK'
  BY DEF DrainQueue, TypeOK, Settled
<1>2. QueueIsQueued'
  BY DEF DrainQueue, QueueIsQueued, Queued, TypeOK
<1>3. StartedIsServed' /\ WaitsForRequest'
  BY DEF DrainQueue, StartedIsServed, WaitsForRequest, TypeOK
<1> QED
  BY <1>1, <1>2, <1>3 DEF DrainQueue, NoLostWakeup, NobodyStranded

LEMMA QueueStep == QueueInv /\ [Next]_vars => QueueInv'
<1> SUFFICES ASSUME QueueInv, [Next]_vars PROVE QueueInv'
  OBVIOUS
<1>1. ASSUME NEW c \in Clients, Connect(c) PROVE QueueInv'
  BY <1>1, QuietStep DEF Connect, QueueInv, TypeOK
<1>2. ASSUME NEW c \in Clients, Dispatch(c) PROVE QueueInv'
  BY <1>2, QuietStep DEF Dispatch, QueueInv, TypeOK
<1>3. ASSUME LoadComponents PROVE QueueInv'
  BY <1>3, QuietStep, ClientsAssumption DEF LoadComponents, QueueInv, TypeOK, Turns
<1>4. ASSUME Initialize PROVE QueueInv'
  BY <1>4, QuietStep, ClientsAssumption DEF Initialize, QueueInv, TypeOK, Turns
<1>5. ASSUME Wake PROVE QueueInv'
  BY <1>5, QuietStep, ClientsAssumption DEF Wake, QueueInv, TypeOK, Turns
<1>6. ASSUME RunEngine PROVE QueueInv'
  BY <1>6, QuietStep, ClientsAssumption DEF RunEngine, QueueInv, TypeOK, Turns
<1>7. ASSUME SetStop PROVE QueueInv'
  BY <1>7, QuietStep DEF SetStop, QueueInv, TypeOK
<1>8. CASE UNCHANGED vars
  BY <1>8, QuietStep DEF vars, QueueInv, TypeOK
<1> QED
  BY <1>1, <1>2, <1>3, <1>4, <1>5, <1>6, <1>7, <1>8, EnqueueInv, AwakeInv, ExpireInv,
     TakeInv, FinishInv, DrainQueueInv DEF Next, Client, Start, Worker

\* In every run of the supervisor, for any clients and any limits, the queue,
\* the requests, the callers and the worker agree as QueueInv says.
THEOREM QueueInvariant == Spec => []QueueInv
  BY InitInv, QueueStep, PTL DEF Spec

\* The variables of MutationQueue keep their types.
THEOREM TypeCorrect == Spec => []TypeOK
<1>1. QueueInv => TypeOK
  BY DEF QueueInv
<1> QED
  BY <1>1, QueueInvariant, PTL

\* The queue is exactly the queued requests: the check of
\* _run_pending_mutations ("pending mutation is not queued") never fails.
THEOREM QueueKept == Spec => []QueueIsQueued
<1>1. QueueInv => QueueIsQueued
  BY DEF QueueInv
<1> QED
  BY <1>1, QueueInvariant, PTL

\* A mutation only runs while its caller waits for it.
THEOREM ServedCallerWaits == Spec => []RunsForItsCaller
<1>1. QueueInv => RunsForItsCaller
  BY DEF QueueInv, StartedIsServed, WaitsForRequest, RunsForItsCaller
<1> QED
  BY <1>1, QueueInvariant, PTL

\* Nobody sleeps through the answer to its request.
THEOREM WakeupsKept == Spec => []NoLostWakeup
<1>1. QueueInv => NoLostWakeup
  BY DEF QueueInv
<1> QED
  BY <1>1, QueueInvariant, PTL

\* After stop() has drained the queue nobody waits in it.
THEOREM NobodyLeft == Spec => []NobodyStranded
<1>1. QueueInv => NobodyStranded
  BY DEF QueueInv
<1> QED
  BY <1>1, QueueInvariant, PTL

=============================================================================
