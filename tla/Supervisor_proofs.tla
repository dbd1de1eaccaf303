--------------------------- MODULE Supervisor_proofs --------------------------
(***************************************************************************)
(* The safety properties of Supervisor, for every number of processes, of  *)
(* commands and of faults.                                                 *)
(***************************************************************************)
EXTENDS Supervisor, FiniteSetTheorems, TLAPS

-----------------------------------------------------------------------------
(* Processes, their files and the commands that stop them.                 *)

ProcTypes ==
    /\ proc \in [Procs -> ProcStates] /\ socket \in Procs \cup {NoProc} /\ pidfile \in Procs \cup {NoProc}
    /\ client \in [Clients -> ClientStates] /\ target \in [Clients -> Procs \cup {NoProc}]

\* The workspace lock has one holder.
OneHolder == \A p, q \in Holding : p = q

\* Its files are its own from the moment it writes them to the moment it removes them.
FilesOwned ==
    \A p \in Procs : /\ proc[p] \in {"filed", "serving", "closing", "closed"} => pidfile = p
                     /\ proc[p] \in {"serving", "closing"} => socket = p

\* A command that has the lock in its hand keeps every process from it, and the process a
\* command waits for is not a new one: once down it stays down.
StopsTold ==
    \A c \in Clients : /\ client[c] = "try lock" => Holding = {}
                       /\ target[c] \in Procs => proc[target[c]] # "forked"
                       /\ client[c] = "stopped" => target[c] \notin Holding

ProcInv == ProcTypes /\ OneHolder /\ FilesOwned /\ StopsTold

\* The supervisor that serves, with its worker.
Serving == {"serving", "closing", "closed", "unfiled"}
WorkerServed == worker # "absent" <=> \E p \in Procs : proc[p] \in Serving

\* Where the worker is.
WorkerTypes ==
    /\ worker \in Working \cup {"absent", "leaving", "crashed"}

\* What it thinks of its connection.
ConnStates ==
    /\ probed \in {NotProbed, "ok", "auth", "network"} /\ resumption \in {"initialize", "loop"}
    /\ conn \in {"ok", "degraded", "disconnected", "reconnecting"} /\ retry \in {"none", "later", "due"}

\* What the threads and the world do.
WorldStates ==
    /\ stream \in {"none", "alive", "dead"} /\ unseen \in {"no", "old", "new"}
    /\ phase \in Phases /\ link \in {"ok", "auth", "network"}

\* What is counted.
Counts ==
    /\ resuming \in 0 .. 3 /\ faults \in 0 .. MaxFaults

\* The events and the marks.
Events ==
    /\ needsAuth \in BOOLEAN /\ syncRequested \in BOOLEAN /\ resumeRequested \in BOOLEAN /\ stopping \in BOOLEAN
    /\ failure \in BOOLEAN /\ audit \in BOOLEAN /\ auditing \in BOOLEAN

\* Watchers and host.
Lasting ==
    /\ local \in BOOLEAN /\ remote \in BOOLEAN /\ completed \in BOOLEAN /\ keyed \in BOOLEAN

ConnTypes == WorkerTypes /\ ConnStates /\ WorldStates /\ Counts /\ Events /\ Lasting

-----------------------------------------------------------------------------
(* The worker and what no watcher has seen.                                *)

\* Changes nobody watched, that no audit is to find.
Gap == local /\ remote /\ unseen # "no" /\ ~audit

\* Where the worker goes on after a probe.
Places ==
    /\ worker \in {"absent", "loading", "ensure", "watch", "request", "initial", "first run", "resting", "locked out",
                   "subscribe"} => resumption = "initialize"
    /\ worker \in {"idle", "awake", "rewatch"} => resumption = "loop"

\* In its loop, a worker whose connection is degraded has asked for an audit.
DegradedIsAudited ==
    /\ resumption = "loop" /\ conn = "degraded" /\ Busy => audit
    /\ worker = "rewatch" => conn = "degraded"

\* What an audit under way may miss was made while a watcher was down.
AuditMisses ==
    /\ auditing => worker = "run"
    /\ unseen = "new" => auditing /\ ~(local /\ remote)

\* Changes nobody watched are to be found by an audit, in the loop and on the way to it.
GapFound ==
    /\ resumption = "loop" /\ Busy => ~Gap
    /\ worker \in {"first run", "run", "subscribe"} => ~Gap

GapInv == Places /\ DegradedIsAudited /\ AuditMisses /\ GapFound

-----------------------------------------------------------------------------
(* Processes and commands: one step of one of them.                        *)

\* A step between two stages.
LEMMA MoveParts ==
    ASSUME ProcTypes, NEW p \in Procs, NEW from, NEW to \in ProcStates, Moves(p, from, to)
    PROVE  /\ proc' \in [Procs -> ProcStates] /\ proc[p] = from /\ proc'[p] = to
           /\ \A q \in Procs : q # p => proc'[q] = proc[q]
  BY DEF Moves, ProcTypes

\* What a step of a process does to the processes and their files.
LEMMA ProcessMoves ==
    ASSUME ProcInv, NEW p \in Procs, Process(p) \/ Kill(p)
    PROVE  /\ UNCHANGED commands
           /\ proc' \in [Procs -> ProcStates] /\ \A q \in Procs : q # p => proc'[q] = proc[q]
           /\ \/ /\ proc[p] = "forked" /\ proc'[p] \in {"locked", "ended"} /\ UNCHANGED files
                 /\ proc'[p] = "locked" => Holding = {} /\ \A c \in Clients : client[c] # "try lock"
              \/ proc[p] = "locked" /\ proc'[p] = "starting" /\ UNCHANGED files
              \/ proc[p] = "starting" /\ proc'[p] = "filed" /\ pidfile' = p /\ UNCHANGED socket
              \/ proc[p] = "filed" /\ proc'[p] = "serving" /\ socket' = p /\ UNCHANGED pidfile
              \/ proc[p] = "serving" /\ proc'[p] = "closing" /\ UNCHANGED files
              \/ proc[p] = "closing" /\ proc'[p] = "closed" /\ socket' = NoProc /\ UNCHANGED pidfile
              \/ proc[p] = "closed" /\ proc'[p] = "unfiled" /\ pidfile' = NoProc /\ UNCHANGED socket
              \/ proc[p] \in Stages \cup {"released"} /\ proc'[p] = "ended" /\ UNCHANGED files
              \/ proc[p] = "unfiled" /\ proc'[p] = "released" /\ UNCHANGED files
<1> USE DEF ProcInv, files, Stages
<1>0. {"locked", "ended", "starting", "filed", "serving", "closing", "closed", "unfiled", "released"}
        \subseteq ProcStates
  BY DEF ProcStates
<1>1. CASE Acquire(p)
  BY <1>0, <1>1, MoveParts DEF Acquire
<1>2. CASE Publish(p)
  BY <1>0, <1>2, MoveParts DEF Publish
<1>3. CASE WritePid(p)
  BY <1>0, <1>3, MoveParts DEF WritePid
<1>4. CASE Serve(p)
  BY <1>0, <1>4, MoveParts DEF Serve
<1>5. CASE Leave(p)
  BY <1>0, <1>5, MoveParts DEF Leave
<1>6. CASE CloseControl(p)
  BY <1>0, <1>6, MoveParts DEF CloseControl
<1>7. CASE Unfile(p)
  BY <1>0, <1>7, MoveParts DEF Unfile
<1>8. CASE Release(p)
  BY <1>0, <1>8, MoveParts DEF Release
<1>9. CASE WriteStopped(p)
  BY <1>0, <1>9, MoveParts DEF WriteStopped
<1>10. CASE Kill(p)
  <2>1. /\ proc[p] \in Stages \cup {"released"} /\ proc' = [proc EXCEPT ![p] = "ended"]
        /\ UNCHANGED <<files, commands>>
    BY <1>10 DEF Kill
  <2> QED
    BY <1>0, <2>1 DEF ProcTypes
<1> QED
  BY <1>1, <1>2, <1>3, <1>4, <1>5, <1>6, <1>7, <1>8, <1>9, <1>10 DEF Process

\* A step of a process preserves the invariant.
LEMMA ProcessKeeps ==
    ASSUME ProcInv, NEW p \in Procs, Process(p) \/ Kill(p)
    PROVE  ProcInv'
<1>1. ProcTypes'
  BY ProcessMoves DEF ProcInv, ProcTypes, commands, files
<1>2. \A q \in Procs : q # p => (q \in Holding <=> q \in Holding')
  BY ProcessMoves DEF Holding
<1>3. p \in Holding' => p \in Holding \/ (Holding = {} /\ \A c \in Clients : client[c] # "try lock")
  BY ProcessMoves DEF Holding, Stages
<1>4. OneHolder'
  BY <1>2, <1>3 DEF ProcInv, OneHolder, Holding
<1>5. FilesOwned'
  <2> SUFFICES ASSUME NEW q \in Procs
               PROVE  /\ proc'[q] \in {"filed", "serving", "closing", "closed"} => pidfile' = q
                      /\ proc'[q] \in {"serving", "closing"} => socket' = q
    BY DEF FilesOwned
  <2>1. CASE q = p
    BY <2>1, ProcessMoves DEF ProcInv, FilesOwned, files, Stages
  <2>2. CASE q # p /\ q \in Holding
    <3>1. p \notin Holding
      BY <2>2 DEF ProcInv, OneHolder
    <3>2. proc[p] \notin {"locked", "starting", "filed", "serving", "closing", "closed", "unfiled"}
      BY <3>1 DEF Holding, Stages
    <3>3. UNCHANGED files
      BY <3>2, ProcessMoves
    <3> QED
      BY <2>2, <3>3, ProcessMoves DEF ProcInv, FilesOwned, files
  <2>3. CASE q # p /\ q \notin Holding
    <3>1. proc'[q] \notin {"filed", "serving", "closing", "closed"}
      BY <2>3, ProcessMoves DEF Holding, Stages
    <3> QED
      BY <3>1
  <2> QED
    BY <2>1, <2>2, <2>3
<1>6. StopsTold'
  <2>1. UNCHANGED <<client, target>>
    BY ProcessMoves DEF commands
  <2>2. proc[p] # "forked" => proc'[p] # "forked"
    BY ProcessMoves
  <2>3. p \in Holding' => p \in Holding \/ proc[p] = "forked"
    BY ProcessMoves DEF Holding, Stages
  <2>4. Holding = {} /\ (\E c \in Clients : client[c] = "try lock") => Holding' = {}
    BY <1>2, <1>3 DEF Holding
  <2>5. \A q \in Procs : proc[q] # "forked" => proc'[q] # "forked"
    BY <2>2, ProcessMoves
  <2>6. \A q \in Procs : q \notin Holding /\ proc[q] # "forked" => q \notin Holding'
    BY <1>2, <2>3
  <2>7. Holding' \subseteq Procs
    BY DEF Holding
  <2> QED
    BY <2>1, <2>4, <2>5, <2>6, <2>7 DEF ProcInv, StopsTold
<1> QED
  BY <1>1, <1>4, <1>5, <1>6 DEF ProcInv

\* What a command's step does, and what it knows when it does it.
LEMMA CommandMoves ==
    ASSUME ProcInv, NEW c \in Clients, Command(c)
    PROVE  /\ UNCHANGED files
           /\ client' \in [Clients -> ClientStates] /\ target' \in [Clients -> Procs \cup {NoProc}]
           /\ \A d \in Clients : d # c => client'[d] = client[d] /\ target'[d] = target[d]
           /\ \/ /\ UNCHANGED proc /\ client'[c] \notin {"try lock", "stopped"}
                 /\ target'[c] \in Procs => target'[c] = target[c] \/ proc[target'[c]] = "serving"
                                                                \/ proc[target'[c]] = "closing"
              \/ UNCHANGED <<proc, target>> /\ client'[c] = "try lock" /\ Holding = {}
              \/ UNCHANGED <<proc, target>> /\ client[c] = "try lock" /\ client'[c] = "stopped"
              \/ /\ UNCHANGED target /\ client'[c] = "done"
                 /\ \E p \in Procs : /\ \A k \in Clients : target[k] # p
                                     /\ proc[p] = "ended" /\ proc' = [proc EXCEPT ![p] = "forked"]
<1> USE DEF ProcInv, ProcTypes, Continues, files
<1>0. ClientStates = {"idle", "login", "resume", "fork", "done", "ask to stop", "send stop", "stopped", "ask",
                      "ask again", "read", "read again", "await socket", "await pid", "await lock", "try lock"}
  BY DEF ClientStates, Asks
<1>1. CASE Begin(c)
  BY <1>0, <1>1 DEF Begin
<1>2. CASE Login(c)
  BY <1>0, <1>2 DEF Login
<1>3. CASE NoNetwork(c)
  BY <1>0, <1>3 DEF NoNetwork
<1>4. CASE Ask(c)
  <2>1. /\ UNCHANGED <<proc, files, target>>
        /\ \E to \in {"resume", "done", "read", "read again"} : client' = [client EXCEPT ![c] = to]
    BY <1>4 DEF Ask
  <2> QED
    BY <1>0, <2>1
<1>5. CASE Read(c)
  <2>1. /\ UNCHANGED <<proc, files, target>>
        /\ \E to \in {"done", "ask again", "fork"} : client' = [client EXCEPT ![c] = to]
    BY <1>5 DEF Read
  <2> QED
    BY <1>0, <2>1
<1>6. CASE SendResume(c)
  BY <1>0, <1>6 DEF SendResume
<1>7. CASE Fork(c)
  <2>1. PICK p \in Procs : /\ p \notin {socket, pidfile} \cup {target[k] : k \in Clients}
                           /\ Moves(p, "ended", "forked")
    BY <1>7 DEF Fork
  <2>2. /\ UNCHANGED files /\ UNCHANGED target /\ client' = [client EXCEPT ![c] = "done"]
        /\ proc[p] = "ended" /\ proc' = [proc EXCEPT ![p] = "forked"]
        /\ \A k \in Clients : target[k] # p
    BY <1>7, <2>1 DEF Fork, Moves
  <2>3. client' \in [Clients -> ClientStates] /\ client'[c] = "done"
        /\ \A d \in Clients : d # c => client'[d] = client[d]
    BY <1>0, <2>2
  <2> QED
    BY <2>2, <2>3
<1>8. CASE AskToStop(c)
  <2>1. /\ UNCHANGED <<proc, files, target>>
        /\ \E to \in {"send stop", "done"} : client' = [client EXCEPT ![c] = to]
    BY <1>8 DEF AskToStop
  <2> QED
    BY <1>0, <2>1
<1>9. CASE SendStop(c)
  <2>1. UNCHANGED <<proc, files>>
    BY <1>9 DEF SendStop
  <2>2. CASE \E p \in Procs : Answers(p)
    <3>1. client' = [client EXCEPT ![c] = "await socket"] /\ target' = [target EXCEPT ![c] = socket]
      BY <1>9, <2>2 DEF SendStop
    <3>2. socket \in Procs /\ proc[socket] \in {"serving", "closing"}
      BY <2>2 DEF Answers
    <3> QED
      BY <1>0, <2>1, <3>1, <3>2
  <2>3. CASE ~\E p \in Procs : Answers(p)
    <3>1. client' = [client EXCEPT ![c] = "done"] /\ UNCHANGED target
      BY <1>9, <2>3 DEF SendStop
    <3> QED
      BY <1>0, <2>1, <3>1
  <2> QED
    BY <2>2, <2>3
<1>10. CASE Await(c)
  <2>1. /\ UNCHANGED <<proc, files, target>>
        /\ \/ \E to \in {"await socket", "await pid", "await lock"} : client' = [client EXCEPT ![c] = to]
           \/ Holding = {} /\ client' = [client EXCEPT ![c] = "try lock"]
           \/ client[c] = "try lock" /\ client' = [client EXCEPT ![c] = "stopped"]
    BY <1>10 DEF Await
  <2> QED
    BY <1>0, <2>1
<1>11. CASE GiveUp(c)
  <2>1. /\ UNCHANGED <<proc, files>> /\ client' = [client EXCEPT ![c] = "done"]
        /\ target' = [target EXCEPT ![c] = NoProc]
    BY <1>11 DEF GiveUp
  <2> QED
    BY <1>0, <2>1, NobodyAssumption
<1> QED
  BY <1>1, <1>2, <1>3, <1>4, <1>5, <1>6, <1>7, <1>8, <1>9, <1>10, <1>11 DEF Command

\* A step of a command preserves the invariant.
LEMMA CommandKeeps ==
    ASSUME ProcInv, NEW c \in Clients, Command(c)
    PROVE  ProcInv'
<1>0. /\ proc' \in [Procs -> ProcStates]
      /\ \A q \in Procs : proc'[q] = proc[q] \/ (proc[q] = "ended" /\ proc'[q] = "forked")
      /\ \A q \in Procs : proc'[q] = proc[q] \/ \A k \in Clients : target'[k] # q
  BY CommandMoves DEF ProcInv, ProcTypes, ProcStates
<1>1. ProcTypes'
  BY <1>0, CommandMoves DEF ProcInv, ProcTypes, files
<1>2. Holding' = Holding
  BY <1>0 DEF Holding, Stages
<1>3. OneHolder'
  BY <1>2 DEF ProcInv, OneHolder
<1>4. FilesOwned'
  <2>1. UNCHANGED <<socket, pidfile>>
    BY CommandMoves DEF files
  <2>2. \A q \in Procs : proc'[q] # "forked" => proc'[q] = proc[q]
    BY <1>0
  <2> QED
    BY <2>1, <2>2 DEF ProcInv, FilesOwned
<1>5. StopsTold'
  <2> SUFFICES ASSUME NEW d \in Clients
               PROVE  /\ client'[d] = "try lock" => Holding' = {}
                      /\ target'[d] \in Procs => proc'[target'[d]] # "forked"
                      /\ client'[d] = "stopped" => target'[d] \notin Holding'
    BY DEF StopsTold
  <2>1. CASE d # c
    <3>1. client'[d] = client[d] /\ target'[d] = target[d]
      BY <2>1, CommandMoves
    <3>2. target'[d] \in Procs => proc'[target'[d]] = proc[target[d]]
      BY <1>0, <3>1
    <3> QED
      BY <1>2, <3>1, <3>2 DEF ProcInv, StopsTold
  <2>2. CASE d = c
    <3>1. target'[c] \in Procs => proc'[target'[c]] # "forked"
      <4>1. target'[c] \in Procs => target'[c] = target[c] \/ proc[target'[c]] \in {"serving", "closing"}
        BY CommandMoves
      <4>2. target'[c] \in Procs => proc'[target'[c]] = proc[target'[c]]
        BY <1>0
      <4>3. target[c] \in Procs => proc[target[c]] # "forked"
        BY DEF ProcInv, StopsTold
      <4> QED
        BY <4>1, <4>2, <4>3
    <3>2. client'[c] \in {"try lock", "stopped"} => Holding = {}
      BY CommandMoves DEF ProcInv, StopsTold
    <3> QED
      BY <1>2, <2>2, <3>1, <3>2
  <2> QED
    BY <2>1, <2>2
<1> QED
  BY <1>1, <1>3, <1>4, <1>5 DEF ProcInv

\* Every step preserves it.
LEMMA ProcInvStep == ProcInv /\ [Next]_vars => ProcInv'
<1> SUFFICES ASSUME ProcInv, [Next]_vars PROVE ProcInv'
  OBVIOUS
<1>1. ASSUME NEW p \in Procs, Process(p) \/ Kill(p)
      PROVE  ProcInv'
  BY <1>1, ProcessKeeps
<1>2. ASSUME NEW c \in Clients, Command(c)
      PROVE  ProcInv'
  BY <1>2, CommandKeeps
<1>3. ASSUME UNCHANGED <<proc, files, commands>>
      PROVE  ProcInv'
  BY <1>3 DEF ProcInv, ProcTypes, OneHolder, FilesOwned, StopsTold, Holding, files, commands
<1> QED
  BY <1>1, <1>2, <1>3 DEF Next, Supervise, vars

\* It holds of a supervisor at work and of a workspace at rest.
LEMMA ProcInvInit == Init => ProcInv
<1> SUFFICES ASSUME Init PROVE ProcInv
  OBVIOUS
<1>1. PICK p : /\ \A q \in Procs : proc[q] = "ended" \/ (q = p /\ proc[q] = "serving" /\ socket = p /\ pidfile = p)
               /\ proc \in [Procs -> ProcStates] /\ socket \in Procs \cup {NoProc} /\ pidfile \in Procs \cup {NoProc}
  <2>1. CASE InitIdle
    BY <2>1 DEF InitIdle, ProcStates
  <2>2. CASE InitAtWork
    BY <2>2 DEF InitAtWork, ProcStates
  <2> QED
    BY <2>1, <2>2 DEF Init
<1>2. ProcTypes
  BY <1>1 DEF Init, ProcTypes, ClientStates
<1>3. OneHolder
  BY <1>1 DEF OneHolder, Holding, Stages
<1>4. FilesOwned
  BY <1>1 DEF FilesOwned
<1>5. StopsTold
  BY NobodyAssumption DEF Init, StopsTold
<1> QED
  BY <1>2, <1>3, <1>4, <1>5 DEF ProcInv

\* So what processes and commands know of each other is always true.
THEOREM Processes == Spec => []ProcInv
  BY ProcInvInit, ProcInvStep, PTL DEF Spec

\* While a supervisor serves, its socket and its pidfile are its own: no process that ends,
\* however late, takes them from one started meanwhile (run and the order of its release).
THEOREM FilesAreOwn == Spec => []OwnFiles
<1>1. ProcInv => OwnFiles
  BY DEF ProcInv, FilesOwned, OwnFiles
<1> QED
  BY <1>1, Processes, PTL

\* A stop that reports success leaves no process of the one it stopped that could still touch
\* the workspace (_wait_until_stopped).
THEOREM StopsAreTrue == Spec => []StoppedMeansDown
<1>1. ProcInv => StoppedMeansDown
  BY DEF ProcInv, StopsTold, StoppedMeansDown
<1> QED
  BY <1>1, Processes, PTL

-----------------------------------------------------------------------------
(* The worker and its connection: one step of the supervisor.              *)

\* A failing call leads to a probe, or out of the worker.
LEMMA FailsParts == Fails => worker' \in {"leaving", "probing"} /\ (worker' = "probing" => ~stopping)
  BY DEF Fails

\* The worker goes from place to place, and is there while it was there.
LEMMA WorkerTypesStep ==
    ASSUME ConnTypes, Work \/ RetryDue \/ Resume \/ World
    PROVE  WorkerTypes' /\ (worker' = "absent" <=> worker = "absent")
<1> USE DEF ConnTypes, WorkerTypes, ConnStates, WorldStates, Counts, Events, Lasting, signals, watching, audits, streams, world, lasting
<1>1. CASE Load
  BY <1>1 DEF Load, Working
<1>2. CASE Ensure
  <2>1. worker = "ensure" /\ worker' \in {"leaving", "probing", "watch", "initial"}
    BY <1>2, FailsParts DEF Ensure, Stops
  <2> QED
    BY <2>1 DEF Working
<1>3. CASE StartWatchers
  <2>1. worker = "watch" /\ worker' \in {"leaving", "probing", "request"}
    BY <1>3, FailsParts DEF StartWatchers
  <2> QED
    BY <2>1 DEF Working
<1>4. CASE RequestAudit
  BY <1>4 DEF RequestAudit, Asked, Working
<1>5. CASE InitialSync
  <2>1. worker = "initial" /\ worker' \in {"leaving", "probing", "subscribe"}
    BY <1>5, FailsParts DEF InitialSync
  <2> QED
    BY <2>1 DEF Working
<1>6. CASE Rest
  BY <1>6 DEF Rest, Working
<1>7. CASE LockedOut
  BY <1>7 DEF LockedOut, Working
<1>8. CASE FirstSubscription
  BY <1>8 DEF FirstSubscription, Working
<1>9. CASE Wake
  BY <1>9 DEF Wake, Seconds30, Working
<1>10. CASE Proceed
  BY <1>10 DEF Proceed, Working
<1>11. CASE Rewatch
  <2>1. worker = "rewatch" /\ worker' \in {"leaving", "probing", "run"}
    BY <1>11, FailsParts DEF Rewatch
  <2> QED
    BY <2>1 DEF Working
<1>12. CASE FirstRun
  BY <1>12 DEF FirstRun, Working
<1>13. CASE RunDone
  BY <1>13 DEF RunDone, Answered, Working
<1>14. CASE RunFails
  <2>1. worker = "run" /\ worker' \in {"leaving", "probing"}
    BY <1>14, FailsParts DEF RunFails
  <2> QED
    BY <2>1 DEF Working
<1>15. CASE ProbeLink
  BY <1>15 DEF ProbeLink, ClearedLink, NotProbed, Working
<1>16. CASE ProbeAnswers
  BY <1>16 DEF ProbeAnswers, Asked, NotProbed, Working
<1>17. CASE RetryDue
  BY <1>17 DEF RetryDue, Working
<1>18. CASE Resume
  BY <1>18 DEF Resume, Working
<1>19. CASE StreamBreaks
  BY <1>19 DEF StreamBreaks, Working
<1>20. CASE LocalAudit
  BY <1>20 DEF LocalAudit, Asked, Working
<1>21. CASE MissedChange
  BY <1>21 DEF MissedChange, Working
<1>22. CASE RemoteWatcherDies
  BY <1>22 DEF RemoteWatcherDies, Working
<1>23. CASE LinkBreaks
  BY <1>23 DEF LinkBreaks, Working
<1>24. CASE NetworkReturns
  BY <1>24 DEF NetworkReturns, Working
<1> QED
  BY <1>1, <1>2, <1>3, <1>4, <1>5, <1>6, <1>7, <1>8, <1>9, <1>10, <1>11, <1>12, <1>13, <1>14, <1>15, <1>16, <1>17, <1>18, <1>19, <1>20, <1>21, <1>22, <1>23, <1>24 DEF Work, World

\* It knows what a probe may answer.
LEMMA ConnStatesStep ==
    ASSUME ConnTypes, Work \/ RetryDue \/ Resume \/ World
    PROVE  ConnStates'
<1> USE DEF ConnTypes, WorkerTypes, ConnStates, WorldStates, Counts, Events, Lasting, signals, watching, audits, streams, world, lasting
<1>1. CASE Load
  BY <1>1 DEF Load
<1>2. CASE Ensure
  BY <1>2 DEF Ensure, Stops
<1>3. CASE StartWatchers
  BY <1>3 DEF StartWatchers
<1>4. CASE RequestAudit
  BY <1>4 DEF RequestAudit, Asked
<1>5. CASE InitialSync
  BY <1>5 DEF InitialSync
<1>6. CASE Rest
  BY <1>6 DEF Rest
<1>7. CASE LockedOut
  BY <1>7 DEF LockedOut
<1>8. CASE FirstSubscription
  BY <1>8 DEF FirstSubscription
<1>9. CASE Wake
  BY <1>9 DEF Wake, Seconds30
<1>10. CASE Proceed
  BY <1>10 DEF Proceed
<1>11. CASE Rewatch
  BY <1>11 DEF Rewatch
<1>12. CASE FirstRun
  BY <1>12 DEF FirstRun
<1>13. CASE RunDone
  BY <1>13 DEF RunDone, Answered
<1>14. CASE RunFails
  BY <1>14 DEF RunFails
<1>15. CASE ProbeLink
  BY <1>15 DEF ProbeLink, ClearedLink, NotProbed
<1>16. CASE ProbeAnswers
  BY <1>16 DEF ProbeAnswers, Asked, NotProbed
<1>17. CASE RetryDue
  BY <1>17 DEF RetryDue
<1>18. CASE Resume
  BY <1>18 DEF Resume
<1>19. CASE StreamBreaks
  BY <1>19 DEF StreamBreaks
<1>20. CASE LocalAudit
  BY <1>20 DEF LocalAudit, Asked
<1>21. CASE MissedChange
  BY <1>21 DEF MissedChange
<1>22. CASE RemoteWatcherDies
  BY <1>22 DEF RemoteWatcherDies
<1>23. CASE LinkBreaks
  BY <1>23 DEF LinkBreaks
<1>24. CASE NetworkReturns
  BY <1>24 DEF NetworkReturns
<1> QED
  BY <1>1, <1>2, <1>3, <1>4, <1>5, <1>6, <1>7, <1>8, <1>9, <1>10, <1>11, <1>12, <1>13, <1>14, <1>15, <1>16, <1>17, <1>18, <1>19, <1>20, <1>21, <1>22, <1>23, <1>24 DEF Work, World

\* Streams, changes, the durable status and the link have one of their states.
LEMMA WorldStatesStep ==
    ASSUME ConnTypes, Work \/ RetryDue \/ Resume \/ World
    PROVE  WorldStates'
<1> USE DEF ConnTypes, WorkerTypes, ConnStates, WorldStates, Counts, Events, Lasting, signals, watching, audits, streams, world, lasting
<1>1. CASE Load
  BY <1>1 DEF Load, Phases
<1>2. CASE Ensure
  BY <1>2 DEF Ensure, Stops, Phases
<1>3. CASE StartWatchers
  BY <1>3 DEF StartWatchers, Phases
<1>4. CASE RequestAudit
  BY <1>4 DEF RequestAudit, Asked, Phases
<1>5. CASE InitialSync
  BY <1>5 DEF InitialSync, Phases
<1>6. CASE Rest
  BY <1>6 DEF Rest, Phases
<1>7. CASE LockedOut
  BY <1>7 DEF LockedOut, Phases
<1>8. CASE FirstSubscription
  BY <1>8 DEF FirstSubscription, Phases
<1>9. CASE Wake
  BY <1>9 DEF Wake, Seconds30, Phases
<1>10. CASE Proceed
  BY <1>10 DEF Proceed, Phases
<1>11. CASE Rewatch
  BY <1>11 DEF Rewatch, Phases
<1>12. CASE FirstRun
  BY <1>12 DEF FirstRun, Phases
<1>13. CASE RunDone
  BY <1>13 DEF RunDone, Answered, Phases
<1>14. CASE RunFails
  BY <1>14 DEF RunFails, Phases
<1>15. CASE ProbeLink
  BY <1>15 DEF ProbeLink, ClearedLink, NotProbed, Phases
<1>16. CASE ProbeAnswers
  BY <1>16 DEF ProbeAnswers, Asked, NotProbed, Phases
<1>17. CASE RetryDue
  BY <1>17 DEF RetryDue, Phases
<1>18. CASE Resume
  BY <1>18 DEF Resume, Phases
<1>19. CASE StreamBreaks
  BY <1>19 DEF StreamBreaks, Phases
<1>20. CASE LocalAudit
  BY <1>20 DEF LocalAudit, Asked, Phases
<1>21. CASE MissedChange
  BY <1>21 DEF MissedChange, Phases
<1>22. CASE RemoteWatcherDies
  BY <1>22 DEF RemoteWatcherDies, Phases
<1>23. CASE LinkBreaks
  BY <1>23 DEF LinkBreaks, Phases
<1>24. CASE NetworkReturns
  BY <1>24 DEF NetworkReturns, Phases
<1> QED
  BY <1>1, <1>2, <1>3, <1>4, <1>5, <1>6, <1>7, <1>8, <1>9, <1>10, <1>11, <1>12, <1>13, <1>14, <1>15, <1>16, <1>17, <1>18, <1>19, <1>20, <1>21, <1>22, <1>23, <1>24 DEF Work, World

\* The failures are counted to their bound, the steps of a resume from three.
LEMMA CountsStep ==
    ASSUME ConnTypes, Work \/ RetryDue \/ Resume \/ World
    PROVE  Counts'
<1> USE FaultsAssumption DEF ConnTypes, Counts, signals, watching, audits, streams, world, lasting
<1>1. CASE Load
  BY <1>1 DEF Load
<1>2. CASE Ensure
  BY <1>2 DEF Ensure, Stops, Fails
<1>3. CASE StartWatchers
  BY <1>3 DEF StartWatchers, Fails
<1>4. CASE RequestAudit
  BY <1>4 DEF RequestAudit, Asked
<1>5. CASE InitialSync
  BY <1>5 DEF InitialSync, Fails
<1>6. CASE Rest
  BY <1>6 DEF Rest
<1>7. CASE LockedOut
  BY <1>7 DEF LockedOut
<1>8. CASE FirstSubscription
  BY <1>8 DEF FirstSubscription
<1>9. CASE Wake
  BY <1>9 DEF Wake, Seconds30
<1>10. CASE Proceed
  BY <1>10 DEF Proceed
<1>11. CASE Rewatch
  BY <1>11 DEF Rewatch, Fails
<1>12. CASE FirstRun
  BY <1>12 DEF FirstRun
<1>13. CASE RunDone
  BY <1>13 DEF RunDone, Answered
<1>14. CASE RunFails
  BY <1>14 DEF RunFails, Fails
<1>15. CASE ProbeLink
  BY <1>15 DEF ProbeLink, ClearedLink, NotProbed
<1>16. CASE ProbeAnswers
  BY <1>16 DEF ProbeAnswers, Asked, NotProbed
<1>17. CASE RetryDue
  BY <1>17 DEF RetryDue
<1>18. CASE Resume
  BY <1>18 DEF Resume
<1>19. CASE StreamBreaks
  BY <1>19 DEF StreamBreaks
<1>20. CASE LocalAudit
  BY <1>20 DEF LocalAudit, Asked
<1>21. CASE MissedChange
  BY <1>21 DEF MissedChange
<1>22. CASE RemoteWatcherDies
  BY <1>22 DEF RemoteWatcherDies
<1>23. CASE LinkBreaks
  BY <1>23 DEF LinkBreaks
<1>24. CASE NetworkReturns
  BY <1>24 DEF NetworkReturns
<1> QED
  BY <1>1, <1>2, <1>3, <1>4, <1>5, <1>6, <1>7, <1>8, <1>9, <1>10, <1>11, <1>12, <1>13, <1>14, <1>15, <1>16, <1>17, <1>18, <1>19, <1>20, <1>21, <1>22, <1>23, <1>24 DEF Work, World

\* The events and the marks are set or not.
LEMMA EventsStep ==
    ASSUME ConnTypes, Work \/ RetryDue \/ Resume \/ World
    PROVE  Events'
<1> USE DEF ConnTypes, WorkerTypes, ConnStates, WorldStates, Counts, Events, Lasting, signals, watching, audits, streams, world, lasting
<1>1. CASE Load
  BY <1>1 DEF Load
<1>2. CASE Ensure
  BY <1>2 DEF Ensure, Stops
<1>3. CASE StartWatchers
  BY <1>3 DEF StartWatchers
<1>4. CASE RequestAudit
  BY <1>4 DEF RequestAudit, Asked
<1>5. CASE InitialSync
  BY <1>5 DEF InitialSync
<1>6. CASE Rest
  BY <1>6 DEF Rest
<1>7. CASE LockedOut
  BY <1>7 DEF LockedOut
<1>8. CASE FirstSubscription
  BY <1>8 DEF FirstSubscription
<1>9. CASE Wake
  BY <1>9 DEF Wake, Seconds30
<1>10. CASE Proceed
  BY <1>10 DEF Proceed
<1>11. CASE Rewatch
  BY <1>11 DEF Rewatch
<1>12. CASE FirstRun
  BY <1>12 DEF FirstRun
<1>13. CASE RunDone
  BY <1>13 DEF RunDone, Answered
<1>14. CASE RunFails
  BY <1>14 DEF RunFails
<1>15. CASE ProbeLink
  BY <1>15 DEF ProbeLink, ClearedLink, NotProbed
<1>16. CASE ProbeAnswers
  BY <1>16 DEF ProbeAnswers, Asked, NotProbed
<1>17. CASE RetryDue
  BY <1>17 DEF RetryDue
<1>18. CASE Resume
  BY <1>18 DEF Resume
<1>19. CASE StreamBreaks
  BY <1>19 DEF StreamBreaks
<1>20. CASE LocalAudit
  BY <1>20 DEF LocalAudit, Asked
<1>21. CASE MissedChange
  BY <1>21 DEF MissedChange
<1>22. CASE RemoteWatcherDies
  BY <1>22 DEF RemoteWatcherDies
<1>23. CASE LinkBreaks
  BY <1>23 DEF LinkBreaks
<1>24. CASE NetworkReturns
  BY <1>24 DEF NetworkReturns
<1> QED
  BY <1>1, <1>2, <1>3, <1>4, <1>5, <1>6, <1>7, <1>8, <1>9, <1>10, <1>11, <1>12, <1>13, <1>14, <1>15, <1>16, <1>17, <1>18, <1>19, <1>20, <1>21, <1>22, <1>23, <1>24 DEF Work, World

\* So are the watchers and what lasts.
LEMMA LastingStep ==
    ASSUME ConnTypes, Work \/ RetryDue \/ Resume \/ World
    PROVE  Lasting'
<1> USE DEF ConnTypes, WorkerTypes, ConnStates, WorldStates, Counts, Events, Lasting, signals, watching, audits, streams, world, lasting
<1>1. CASE Load
  BY <1>1 DEF Load
<1>2. CASE Ensure
  BY <1>2 DEF Ensure, Stops
<1>3. CASE StartWatchers
  BY <1>3 DEF StartWatchers
<1>4. CASE RequestAudit
  BY <1>4 DEF RequestAudit, Asked
<1>5. CASE InitialSync
  BY <1>5 DEF InitialSync
<1>6. CASE Rest
  BY <1>6 DEF Rest
<1>7. CASE LockedOut
  BY <1>7 DEF LockedOut
<1>8. CASE FirstSubscription
  BY <1>8 DEF FirstSubscription
<1>9. CASE Wake
  BY <1>9 DEF Wake, Seconds30
<1>10. CASE Proceed
  BY <1>10 DEF Proceed
<1>11. CASE Rewatch
  BY <1>11 DEF Rewatch
<1>12. CASE FirstRun
  BY <1>12 DEF FirstRun
<1>13. CASE RunDone
  BY <1>13 DEF RunDone, Answered
<1>14. CASE RunFails
  BY <1>14 DEF RunFails
<1>15. CASE ProbeLink
  BY <1>15 DEF ProbeLink, ClearedLink, NotProbed
<1>16. CASE ProbeAnswers
  BY <1>16 DEF ProbeAnswers, Asked, NotProbed
<1>17. CASE RetryDue
  BY <1>17 DEF RetryDue
<1>18. CASE Resume
  BY <1>18 DEF Resume
<1>19. CASE StreamBreaks
  BY <1>19 DEF StreamBreaks
<1>20. CASE LocalAudit
  BY <1>20 DEF LocalAudit, Asked
<1>21. CASE MissedChange
  BY <1>21 DEF MissedChange
<1>22. CASE RemoteWatcherDies
  BY <1>22 DEF RemoteWatcherDies
<1>23. CASE LinkBreaks
  BY <1>23 DEF LinkBreaks
<1>24. CASE NetworkReturns
  BY <1>24 DEF NetworkReturns
<1> QED
  BY <1>1, <1>2, <1>3, <1>4, <1>5, <1>6, <1>7, <1>8, <1>9, <1>10, <1>11, <1>12, <1>13, <1>14, <1>15, <1>16, <1>17, <1>18, <1>19, <1>20, <1>21, <1>22, <1>23, <1>24 DEF Work, World

\* So all of them keep their types.
LEMMA ConnTypesStep ==
    ASSUME ConnTypes, Work \/ RetryDue \/ Resume \/ World
    PROVE  ConnTypes' /\ (worker' = "absent" <=> worker = "absent")
  BY WorkerTypesStep, ConnStatesStep, WorldStatesStep, CountsStep, EventsStep, LastingStep DEF ConnTypes

\* Every step of the worker leads to where it goes on.
LEMMA PlacesStep ==
    ASSUME ConnTypes, GapInv, Work \/ RetryDue \/ Resume \/ World
    PROVE  Places'
<1> USE DEF GapInv, Places, DegradedIsAudited, AuditMisses, GapFound, Gap, Busy, Working
<1>0. resumption \in {"initialize", "loop"} /\ Events /\ Lasting
  BY DEF ConnTypes, ConnStates
<1> USE DEF Events, Lasting, signals, watching, audits, streams, world, lasting
<1>1. CASE Load
  BY <1>0, <1>1 DEF Load
<1>2. CASE Ensure
  BY <1>0, <1>2, FailsParts DEF Ensure, Stops
<1>3. CASE StartWatchers
  BY <1>0, <1>3, FailsParts DEF StartWatchers
<1>4. CASE RequestAudit
  BY <1>0, <1>4 DEF RequestAudit, Asked
<1>5. CASE InitialSync
  BY <1>0, <1>5, FailsParts DEF InitialSync
<1>6. CASE Rest
  BY <1>0, <1>6 DEF Rest
<1>7. CASE LockedOut
  BY <1>0, <1>7 DEF LockedOut
<1>8. CASE FirstSubscription
  BY <1>0, <1>8 DEF FirstSubscription
<1>9. CASE Wake
  BY <1>0, <1>9 DEF Wake, Seconds30
<1>10. CASE Proceed
  BY <1>0, <1>10 DEF Proceed
<1>11. CASE Rewatch
  BY <1>0, <1>11, FailsParts DEF Rewatch
<1>12. CASE FirstRun
  BY <1>0, <1>12 DEF FirstRun
<1>13. CASE RunDone
  BY <1>0, <1>13 DEF RunDone, Answered
<1>14. CASE RunFails
  BY <1>0, <1>14, FailsParts DEF RunFails
<1>15. CASE ProbeLink
  BY <1>0, <1>15 DEF ProbeLink, ClearedLink, NotProbed
<1>16. CASE ProbeAnswers
  BY <1>0, <1>16 DEF ProbeAnswers, Asked, NotProbed
<1>17. CASE RetryDue
  BY <1>0, <1>17 DEF RetryDue
<1>18. CASE Resume
  BY <1>0, <1>18 DEF Resume
<1>19. CASE StreamBreaks
  BY <1>0, <1>19 DEF StreamBreaks
<1>20. CASE LocalAudit
  BY <1>0, <1>20 DEF LocalAudit, Asked
<1>21. CASE MissedChange
  BY <1>0, <1>21 DEF MissedChange
<1>22. CASE RemoteWatcherDies
  BY <1>0, <1>22 DEF RemoteWatcherDies
<1>23. CASE LinkBreaks
  BY <1>0, <1>23 DEF LinkBreaks
<1>24. CASE NetworkReturns
  BY <1>0, <1>24 DEF NetworkReturns
<1> QED
  BY <1>1, <1>2, <1>3, <1>4, <1>5, <1>6, <1>7, <1>8, <1>9, <1>10, <1>11, <1>12, <1>13, <1>14, <1>15, <1>16, <1>17, <1>18, <1>19, <1>20, <1>21, <1>22, <1>23, <1>24 DEF Work, World

\* The connection is taken for degraded only with an audit journaled, which answers it.
LEMMA DegradedIsAuditedStep ==
    ASSUME ConnTypes, GapInv, Work \/ RetryDue \/ Resume \/ World
    PROVE  DegradedIsAudited'
<1> USE DEF GapInv, Places, DegradedIsAudited, AuditMisses, GapFound, Gap, Busy, Working
<1>0. resumption \in {"initialize", "loop"} /\ Events /\ Lasting
  BY DEF ConnTypes, ConnStates
<1> USE DEF Events, Lasting, signals, watching, audits, streams, world, lasting
<1>1. CASE Load
  BY <1>0, <1>1 DEF Load
<1>2. CASE Ensure
  BY <1>0, <1>2, FailsParts DEF Ensure, Stops
<1>3. CASE StartWatchers
  BY <1>0, <1>3, FailsParts DEF StartWatchers
<1>4. CASE RequestAudit
  BY <1>0, <1>4 DEF RequestAudit, Asked
<1>5. CASE InitialSync
  BY <1>0, <1>5, FailsParts DEF InitialSync
<1>6. CASE Rest
  BY <1>0, <1>6 DEF Rest
<1>7. CASE LockedOut
  BY <1>0, <1>7 DEF LockedOut
<1>8. CASE FirstSubscription
  BY <1>0, <1>8 DEF FirstSubscription
<1>9. CASE Wake
  BY <1>0, <1>9 DEF Wake, Seconds30
<1>10. CASE Proceed
  BY <1>0, <1>10 DEF Proceed
<1>11. CASE Rewatch
  BY <1>0, <1>11, FailsParts DEF Rewatch
<1>12. CASE FirstRun
  BY <1>0, <1>12 DEF FirstRun
<1>13. CASE RunDone
  BY <1>0, <1>13 DEF RunDone, Answered
<1>14. CASE RunFails
  BY <1>0, <1>14, FailsParts DEF RunFails
<1>15. CASE ProbeLink
  BY <1>0, <1>15 DEF ProbeLink, ClearedLink, NotProbed
<1>16. CASE ProbeAnswers
  BY <1>0, <1>16 DEF ProbeAnswers, Asked, NotProbed
<1>17. CASE RetryDue
  BY <1>0, <1>17 DEF RetryDue
<1>18. CASE Resume
  BY <1>0, <1>18 DEF Resume
<1>19. CASE StreamBreaks
  BY <1>0, <1>19 DEF StreamBreaks
<1>20. CASE LocalAudit
  BY <1>0, <1>20 DEF LocalAudit, Asked
<1>21. CASE MissedChange
  BY <1>0, <1>21 DEF MissedChange
<1>22. CASE RemoteWatcherDies
  BY <1>0, <1>22 DEF RemoteWatcherDies
<1>23. CASE LinkBreaks
  BY <1>0, <1>23 DEF LinkBreaks
<1>24. CASE NetworkReturns
  BY <1>0, <1>24 DEF NetworkReturns
<1> QED
  BY <1>1, <1>2, <1>3, <1>4, <1>5, <1>6, <1>7, <1>8, <1>9, <1>10, <1>11, <1>12, <1>13, <1>14, <1>15, <1>16, <1>17, <1>18, <1>19, <1>20, <1>21, <1>22, <1>23, <1>24 DEF Work, World

\* An audit misses what is changed while it runs, with a watcher down.
LEMMA AuditMissesStep ==
    ASSUME ConnTypes, GapInv, Work \/ RetryDue \/ Resume \/ World
    PROVE  AuditMisses'
<1> USE DEF GapInv, Places, DegradedIsAudited, AuditMisses, GapFound, Gap, Busy, Working
<1>0. resumption \in {"initialize", "loop"} /\ Events /\ Lasting
  BY DEF ConnTypes, ConnStates
<1> USE DEF Events, Lasting, signals, watching, audits, streams, world, lasting
<1>1. CASE Load
  BY <1>0, <1>1 DEF Load
<1>2. CASE Ensure
  BY <1>0, <1>2, FailsParts DEF Ensure, Stops
<1>3. CASE StartWatchers
  BY <1>0, <1>3, FailsParts DEF StartWatchers
<1>4. CASE RequestAudit
  BY <1>0, <1>4 DEF RequestAudit, Asked
<1>5. CASE InitialSync
  BY <1>0, <1>5, FailsParts DEF InitialSync
<1>6. CASE Rest
  BY <1>0, <1>6 DEF Rest
<1>7. CASE LockedOut
  BY <1>0, <1>7 DEF LockedOut
<1>8. CASE FirstSubscription
  BY <1>0, <1>8 DEF FirstSubscription
<1>9. CASE Wake
  BY <1>0, <1>9 DEF Wake, Seconds30
<1>10. CASE Proceed
  BY <1>0, <1>10 DEF Proceed
<1>11. CASE Rewatch
  <2>1. UNCHANGED unseen /\ unseen # "new"
    BY <1>11 DEF Rewatch
  <2>2. worker' = "run" \/ auditing' = auditing
    BY <1>11 DEF Rewatch
  <2>3. auditing = FALSE
    BY <1>0, <1>11 DEF Rewatch
  <2>4. auditing' => worker' = "run"
    BY <2>2, <2>3
  <2>5. unseen' # "new"
    BY <2>1
  <2> QED
    BY <2>4, <2>5
<1>12. CASE FirstRun
  BY <1>0, <1>12 DEF FirstRun
<1>13. CASE RunDone
  BY <1>0, <1>13 DEF RunDone, Answered
<1>14. CASE RunFails
  BY <1>0, <1>14, FailsParts DEF RunFails
<1>15. CASE ProbeLink
  BY <1>0, <1>15 DEF ProbeLink, ClearedLink, NotProbed
<1>16. CASE ProbeAnswers
  BY <1>0, <1>16 DEF ProbeAnswers, Asked, NotProbed
<1>17. CASE RetryDue
  BY <1>0, <1>17 DEF RetryDue
<1>18. CASE Resume
  BY <1>0, <1>18 DEF Resume
<1>19. CASE StreamBreaks
  BY <1>0, <1>19 DEF StreamBreaks
<1>20. CASE LocalAudit
  BY <1>0, <1>20 DEF LocalAudit, Asked
<1>21. CASE MissedChange
  BY <1>0, <1>21 DEF MissedChange
<1>22. CASE RemoteWatcherDies
  BY <1>0, <1>22 DEF RemoteWatcherDies
<1>23. CASE LinkBreaks
  BY <1>0, <1>23 DEF LinkBreaks
<1>24. CASE NetworkReturns
  BY <1>0, <1>24 DEF NetworkReturns
<1> QED
  BY <1>1, <1>2, <1>3, <1>4, <1>5, <1>6, <1>7, <1>8, <1>9, <1>10, <1>11, <1>12, <1>13, <1>14, <1>15, <1>16, <1>17, <1>18, <1>19, <1>20, <1>21, <1>22, <1>23, <1>24 DEF Work, World

\* No step brings a watcher back over changes that no audit is to find.
LEMMA GapFoundStep ==
    ASSUME ConnTypes, GapInv, Work \/ RetryDue \/ Resume \/ World
    PROVE  GapFound'
<1> USE DEF GapInv, Places, DegradedIsAudited, AuditMisses, GapFound, Gap, Busy, Working
<1>0. resumption \in {"initialize", "loop"} /\ Events /\ Lasting
  BY DEF ConnTypes, ConnStates
<1> USE DEF Events, Lasting, signals, watching, audits, streams, world, lasting
<1>1. CASE Load
  BY <1>0, <1>1 DEF Load
<1>2. CASE Ensure
  BY <1>0, <1>2, FailsParts DEF Ensure, Stops
<1>3. CASE StartWatchers
  BY <1>0, <1>3, FailsParts DEF StartWatchers
<1>4. CASE RequestAudit
  BY <1>0, <1>4 DEF RequestAudit, Asked
<1>5. CASE InitialSync
  BY <1>0, <1>5, FailsParts DEF InitialSync
<1>6. CASE Rest
  BY <1>0, <1>6 DEF Rest
<1>7. CASE LockedOut
  BY <1>0, <1>7 DEF LockedOut
<1>8. CASE FirstSubscription
  BY <1>0, <1>8 DEF FirstSubscription
<1>9. CASE Wake
  BY <1>0, <1>9 DEF Wake, Seconds30
<1>10. CASE Proceed
  BY <1>0, <1>10 DEF Proceed
<1>11. CASE Rewatch
  BY <1>0, <1>11, FailsParts DEF Rewatch
<1>12. CASE FirstRun
  BY <1>0, <1>12 DEF FirstRun
<1>13. CASE RunDone
  BY <1>0, <1>13 DEF RunDone, Answered
<1>14. CASE RunFails
  BY <1>0, <1>14, FailsParts DEF RunFails
<1>15. CASE ProbeLink
  BY <1>0, <1>15 DEF ProbeLink, ClearedLink, NotProbed
<1>16. CASE ProbeAnswers
  BY <1>0, <1>16 DEF ProbeAnswers, Asked, NotProbed
<1>17. CASE RetryDue
  BY <1>0, <1>17 DEF RetryDue
<1>18. CASE Resume
  BY <1>0, <1>18 DEF Resume
<1>19. CASE StreamBreaks
  BY <1>0, <1>19 DEF StreamBreaks
<1>20. CASE LocalAudit
  BY <1>0, <1>20 DEF LocalAudit, Asked
<1>21. CASE MissedChange
  BY <1>0, <1>21 DEF MissedChange
<1>22. CASE RemoteWatcherDies
  BY <1>0, <1>22 DEF RemoteWatcherDies
<1>23. CASE LinkBreaks
  BY <1>0, <1>23 DEF LinkBreaks
<1>24. CASE NetworkReturns
  BY <1>0, <1>24 DEF NetworkReturns
<1> QED
  BY <1>1, <1>2, <1>3, <1>4, <1>5, <1>6, <1>7, <1>8, <1>9, <1>10, <1>11, <1>12, <1>13, <1>14, <1>15, <1>16, <1>17, <1>18, <1>19, <1>20, <1>21, <1>22, <1>23, <1>24 DEF Work, World

\* So the gap stays closed.
LEMMA GapInvStep ==
    ASSUME ConnTypes, GapInv, Work \/ RetryDue \/ Resume \/ World
    PROVE  GapInv'
  BY PlacesStep, DegradedIsAuditedStep, AuditMissesStep, GapFoundStep DEF GapInv

-----------------------------------------------------------------------------
(* The whole supervisor.                                                   *)

\* All there is to know of a supervisor, its worker and the commands.
SupervisorInv == ProcInv /\ WorkerServed /\ ConnTypes /\ GapInv

\* Nothing changes for a worker whose state is left alone.
LEMMA ConnSame ==
    ASSUME ConnTypes, GapInv, UNCHANGED connection
    PROVE  ConnTypes' /\ GapInv' /\ UNCHANGED worker
<1> USE DEF connection, signals, watching, audits, streams, world, lasting
<1>1. ConnTypes'
  BY DEF ConnTypes, WorkerTypes, ConnStates, WorldStates, Counts, Events, Lasting
<1>2. GapInv'
  BY DEF GapInv, Places, DegradedIsAudited, AuditMisses, GapFound, Gap, Busy
<1> QED
  BY <1>1, <1>2

\* A process that ends leaves a worker that begins anew.
LEMMA FreshKeeps ==
    ASSUME ConnTypes, worker' = "absent", Fresh, UNCHANGED <<audit, remote, completed, phase, world>>,
           faults' \in 0 .. MaxFaults
    PROVE  ConnTypes' /\ GapInv'
<1> USE DEF Fresh, world
<1>1. WorkerTypes' /\ ConnStates'
  BY DEF WorkerTypes, ConnStates
<1>2. WorldStates'
  BY DEF ConnTypes, WorldStates
<1>3. Counts'
  BY DEF Counts
<1>4. Events' /\ Lasting'
  BY DEF ConnTypes, Events, Lasting
<1>5. Places' /\ DegradedIsAudited'
  BY DEF Places, DegradedIsAudited
<1>6. AuditMisses' /\ GapFound'
  BY DEF AuditMisses, GapFound, Gap, Busy, Working
<1> QED
  BY <1>1, <1>2, <1>3, <1>4, <1>5, <1>6 DEF ConnTypes, GapInv

\* A step of a process keeps the worker's state whole.
LEMMA ProcessKeepsConn ==
    ASSUME SupervisorInv, NEW p \in Procs, Process(p) \/ Kill(p)
    PROVE  ConnTypes' /\ GapInv'
<1> USE DEF SupervisorInv
<1>1. CASE Acquire(p) \/ WritePid(p) \/ CloseControl(p) \/ Unfile(p)
  BY <1>1, ConnSame DEF Acquire, WritePid, CloseControl, Unfile
<1>2. CASE Publish(p) \/ WriteStopped(p)
  <2>1. /\ UNCHANGED <<worker, probed, resumption, conn, needsAuth, signals, retry, streams, audits,
                       watching, completed, resuming, world, faults>>
        /\ phase' \in Phases
    BY <1>2 DEF Publish, WriteStopped, Phases
  <2> USE DEF signals, streams, audits, watching, world
  <2>2. ConnTypes'
    BY <2>1 DEF ConnTypes, WorkerTypes, ConnStates, WorldStates, Counts, Events, Lasting
  <2>3. GapInv'
    BY <2>1 DEF GapInv, Places, DegradedIsAudited, AuditMisses, GapFound, Gap, Busy
  <2> QED
    BY <2>2, <2>3
<1>3. CASE Serve(p)
  <2>1. /\ worker' = "loading"
        /\ UNCHANGED <<probed, resumption, conn, needsAuth, signals, retry, streams, audits, watching, lasting, faults>>
    BY <1>3 DEF Serve
  <2> USE DEF signals, streams, audits, watching, lasting, world
  <2>2. ConnTypes'
    <3>1. WorkerTypes' /\ ConnStates' /\ WorldStates'
      BY <2>1 DEF ConnTypes, WorkerTypes, ConnStates, WorldStates, Working
    <3>2. Counts' /\ Events' /\ Lasting'
      BY <2>1 DEF ConnTypes, Counts, Events, Lasting
    <3> QED
      BY <3>1, <3>2 DEF ConnTypes
  <2>3. worker = "absent"
    <3>1. proc[p] = "filed"
      BY <1>3 DEF Serve, Moves
    <3>2. \A q \in Procs : proc[q] \notin Serving
      BY <3>1 DEF ProcInv, OneHolder, Holding, Stages, Serving
    <3> QED
      BY <3>2 DEF WorkerServed
  <2>4. resumption = "initialize" /\ ~auditing /\ unseen # "new"
    BY <2>3 DEF GapInv, Places, AuditMisses
  <2>5. Places' /\ DegradedIsAudited' /\ AuditMisses' /\ GapFound'
    BY <2>1, <2>4 DEF Places, DegradedIsAudited, AuditMisses, GapFound
  <2> QED
    BY <2>2, <2>5 DEF GapInv
<1>4. CASE Leave(p)
  <2>1. /\ worker \in {"leaving", "crashed"} /\ stream' = "none" /\ local' = FALSE
        /\ UNCHANGED <<worker, probed, resumption, conn, needsAuth, signals, retry, failure, audits,
                       remote, unseen, lasting, faults>>
    BY <1>4 DEF Leave
  <2> USE DEF signals, audits, lasting, world
  <2>2. ConnTypes'
    <3>1. WorkerTypes' /\ ConnStates' /\ WorldStates'
      BY <2>1 DEF ConnTypes, WorkerTypes, ConnStates, WorldStates
    <3>2. Counts' /\ Events' /\ Lasting'
      BY <2>1 DEF ConnTypes, Counts, Events, Lasting
    <3> QED
      BY <3>1, <3>2 DEF ConnTypes
  <2>3. GapInv'
    BY <2>1 DEF GapInv, Places, DegradedIsAudited, AuditMisses, GapFound, Gap, Busy, Working
  <2> QED
    BY <2>2, <2>3
<1>5. CASE Release(p)
  <2>1. worker' = "absent" /\ Fresh /\ UNCHANGED <<audit, remote, completed, phase, world, faults>>
    BY <1>5 DEF Release
  <2> QED
    BY <2>1, FreshKeeps DEF ConnTypes, Counts
<1>6. CASE Kill(p)
  <2>1. /\ faults' \in 0 .. MaxFaults
        /\ UNCHANGED <<audit, remote, completed, phase, world>>
    BY <1>6, FaultsAssumption DEF Kill, ConnTypes, Counts
  <2>2. CASE p \in Holding
    BY <1>6, <2>1, <2>2, FreshKeeps DEF Kill
  <2>3. CASE p \notin Holding
    <3>1. UNCHANGED <<worker, probed, resumption, conn, needsAuth, signals, retry, streams, auditing, local, unseen,
                      resuming>>
      BY <1>6, <2>3 DEF Kill
    <3> USE DEF signals, streams, world
    <3>2. ConnTypes'
      BY <2>1, <3>1 DEF ConnTypes, WorkerTypes, ConnStates, WorldStates, Counts, Events, Lasting
    <3>3. GapInv'
      BY <2>1, <3>1 DEF GapInv, Places, DegradedIsAudited, AuditMisses, GapFound, Gap, Busy
    <3> QED
      BY <3>2, <3>3
  <2> QED
    BY <2>2, <2>3
<1> QED
  BY <1>1, <1>2, <1>3, <1>4, <1>5, <1>6 DEF Process

\* So does a step of a command.
LEMMA CommandKeepsConn ==
    ASSUME SupervisorInv, NEW c \in Clients, Command(c)
    PROVE  ConnTypes' /\ GapInv' /\ UNCHANGED worker
<1> USE DEF SupervisorInv
<1>1. CASE Begin(c) \/ NoNetwork(c) \/ Ask(c) \/ Read(c) \/ Fork(c) \/ AskToStop(c) \/ Await(c) \/ GiveUp(c)
  BY <1>1, ConnSame DEF Begin, NoNetwork, Ask, Read, Fork, AskToStop, Await, GiveUp
<1>2. CASE Login(c) \/ SendResume(c) \/ SendStop(c)
  <2>1. /\ UNCHANGED <<worker, probed, resumption, conn, needsAuth, retry, failure, audit, auditing, local, remote,
                       unseen, completed, keyed, phase, faults>>
        /\ resumeRequested' = resumeRequested
    BY <1>2 DEF Login, SendResume, SendStop, signals, streams, audits, watching, world, lasting
  <2>2. /\ link' = "ok" \/ link' = link
        /\ resuming' = 3 \/ resuming' = 0 \/ resuming' = resuming
        /\ stopping' = TRUE \/ stopping' = stopping
        /\ syncRequested' = TRUE \/ syncRequested' = syncRequested
        /\ stream' = "none" \/ stream' = stream
    BY <1>2 DEF Login, SendResume, SendStop, signals, streams, world, lasting
  <2>3. WorkerTypes' /\ ConnStates' /\ Lasting'
    BY <2>1 DEF ConnTypes, WorkerTypes, ConnStates, Lasting
  <2>4. WorldStates'
    BY <2>1, <2>2 DEF ConnTypes, WorldStates
  <2>5. Counts'
    BY <2>1, <2>2 DEF ConnTypes, Counts
  <2>6. Events'
    BY <2>1, <2>2 DEF ConnTypes, Events
  <2>7. GapInv'
    BY <2>1 DEF GapInv, Places, DegradedIsAudited, AuditMisses, GapFound, Gap, Busy
  <2> QED
    BY <2>1, <2>3, <2>4, <2>5, <2>6, <2>7 DEF ConnTypes
<1> QED
  BY <1>1, <1>2 DEF Command

\* The worker comes and goes with the process that serves.
LEMMA ProcessServes ==
    ASSUME SupervisorInv, NEW p \in Procs, Process(p) \/ Kill(p)
    PROVE  WorkerServed'
<1> USE DEF SupervisorInv
<1>0. \A q \in Procs : q # p => (proc'[q] \in Serving <=> proc[q] \in Serving)
  BY ProcessMoves
<1>1. proc[p] \in Stages => \A q \in Procs : q # p => proc[q] \notin Serving
  BY DEF ProcInv, OneHolder, Holding, Stages, Serving
<1>2. CASE Acquire(p) \/ Publish(p) \/ WritePid(p) \/ WriteStopped(p)
  <2>1. proc[p] \notin Serving /\ proc'[p] \notin Serving /\ UNCHANGED worker
    BY <1>2, ProcessMoves DEF Acquire, Publish, WritePid, WriteStopped, Moves, Serving, connection
  <2> QED
    BY <1>0, <2>1 DEF WorkerServed
<1>3. CASE Serve(p)
  <2>1. worker' = "loading" /\ proc'[p] \in Serving
    BY <1>3, ProcessMoves DEF Serve, Moves, Serving, Stages
  <2> QED
    BY <2>1 DEF WorkerServed
<1>4. CASE Leave(p) \/ CloseControl(p) \/ Unfile(p)
  <2>1. proc[p] \in Serving /\ proc'[p] \in Serving /\ UNCHANGED worker
    BY <1>4, ProcessMoves DEF Leave, CloseControl, Unfile, Moves, Serving, connection, ProcInv, ProcTypes
  <2> QED
    BY <1>0, <2>1 DEF WorkerServed
<1>5. CASE Release(p)
  <2>1. proc[p] \in Stages /\ proc'[p] \notin Serving /\ worker' = "absent"
    BY <1>5, ProcessMoves DEF Release, Moves, Serving, Stages
  <2> QED
    BY <1>0, <1>1, <2>1 DEF WorkerServed
<1>6. CASE Kill(p)
  <2>1. proc'[p] \notin Serving
    BY <1>6 DEF Kill, ProcInv, ProcTypes, Serving
  <2>2. CASE p \in Holding
    <3>1. proc[p] \in Stages /\ worker' = "absent"
      BY <1>6, <2>2 DEF Kill, Holding
    <3> QED
      BY <1>0, <1>1, <2>1, <3>1 DEF WorkerServed
  <2>3. CASE p \notin Holding
    <3>1. proc[p] \notin Serving /\ UNCHANGED worker
      BY <1>6, <2>3 DEF Kill, Holding, Stages, Serving
    <3> QED
      BY <1>0, <2>1, <3>1 DEF WorkerServed
  <2> QED
    BY <2>2, <2>3
<1> QED
  BY <1>2, <1>3, <1>4, <1>5, <1>6 DEF Process

\* Every step of every process, command, worker and of the world preserves it.
LEMMA SupervisorInvStep == SupervisorInv /\ [Next]_vars => SupervisorInv'
<1> SUFFICES ASSUME SupervisorInv, [Next]_vars PROVE SupervisorInv'
  OBVIOUS
<1>0. ProcInv'
  BY ProcInvStep DEF SupervisorInv
<1>1. ASSUME NEW p \in Procs, Process(p) \/ Kill(p)
      PROVE  SupervisorInv'
  BY <1>0, <1>1, ProcessKeepsConn, ProcessServes DEF SupervisorInv
<1>2. ASSUME NEW c \in Clients, Command(c)
      PROVE  SupervisorInv'
  <2>1. ConnTypes' /\ GapInv' /\ UNCHANGED worker
    BY <1>2, CommandKeepsConn
  <2>2. \A q \in Procs : proc'[q] = proc[q] \/ (proc[q] = "ended" /\ proc'[q] = "forked")
    BY <1>2, CommandMoves DEF SupervisorInv, ProcInv, ProcTypes
  <2>3. WorkerServed'
    BY <2>1, <2>2 DEF SupervisorInv, WorkerServed, Serving
  <2> QED
    BY <1>0, <2>1, <2>3 DEF SupervisorInv
<1>3. CASE Supervise
  <2>1. Work \/ RetryDue \/ Resume \/ World
    BY <1>3 DEF Supervise
  <2>2. UNCHANGED proc
    BY <1>3 DEF Supervise
  <2>3. ConnTypes' /\ (worker' = "absent" <=> worker = "absent")
    BY <2>1, ConnTypesStep DEF SupervisorInv
  <2>4. GapInv'
    BY <2>1, GapInvStep DEF SupervisorInv
  <2> QED
    BY <1>0, <2>2, <2>3, <2>4 DEF SupervisorInv, WorkerServed
<1>4. CASE UNCHANGED vars
  <2>1. UNCHANGED connection /\ UNCHANGED proc
    BY <1>4 DEF vars
  <2>2. ConnTypes' /\ GapInv' /\ UNCHANGED worker
    BY <2>1, ConnSame DEF SupervisorInv
  <2> QED
    BY <1>0, <2>1, <2>2 DEF SupervisorInv, WorkerServed
<1> QED
  BY <1>1, <1>2, <1>3, <1>4 DEF Next

\* It holds at rest and at work.
LEMMA SupervisorInvInit == Init => SupervisorInv
<1> SUFFICES ASSUME Init PROVE SupervisorInv
  OBVIOUS
<1>1. ProcInv
  BY ProcInvInit
<1>2. /\ keyed \in BOOLEAN
      /\ probed = NotProbed /\ syncRequested = FALSE /\ resumeRequested = FALSE /\ stopping = FALSE
      /\ retry = "none" /\ failure = FALSE /\ audit = FALSE /\ auditing = FALSE
      /\ unseen = "no" /\ resuming = 0 /\ faults = 0
  BY DEF Init
<1>3. CASE InitIdle
  <2>1. ConnTypes
    <3>1. WorkerTypes /\ ConnStates /\ WorldStates
      BY <1>2, <1>3 DEF InitIdle, WorkerTypes, ConnStates, WorldStates, Phases, Working
    <3>2. Counts
      BY <1>2, FaultsAssumption DEF Counts
    <3>3. needsAuth = TRUE \/ needsAuth = FALSE
      BY <1>3 DEF InitIdle
    <3>4. Events
      BY <1>2, <3>3 DEF Events
    <3>5. Lasting
      BY <1>2, <1>3 DEF InitIdle, Lasting
    <3> QED
      BY <3>1, <3>2, <3>4, <3>5 DEF ConnTypes
  <2>2. GapInv
    BY <1>2, <1>3 DEF InitIdle, GapInv, Places, DegradedIsAudited, AuditMisses, GapFound, Gap
  <2>3. WorkerServed
    BY <1>3 DEF InitIdle, WorkerServed, Serving
  <2> QED
    BY <1>1, <2>1, <2>2, <2>3 DEF SupervisorInv
<1>4. CASE InitAtWork
  <2>1. ConnTypes
    <3>1. WorkerTypes /\ ConnStates /\ WorldStates
      BY <1>2, <1>4 DEF InitAtWork, WorkerTypes, ConnStates, WorldStates, Phases, Working
    <3>2. Counts
      BY <1>2, FaultsAssumption DEF Counts
    <3>3. needsAuth = TRUE \/ needsAuth = FALSE
      BY <1>4 DEF InitAtWork
    <3>4. Events
      BY <1>2, <3>3 DEF Events
    <3>5. Lasting
      BY <1>2, <1>4 DEF InitAtWork, Lasting
    <3> QED
      BY <3>1, <3>2, <3>4, <3>5 DEF ConnTypes
  <2>2. GapInv
    BY <1>2, <1>4 DEF InitAtWork, GapInv, Places, DegradedIsAudited, AuditMisses, GapFound, Gap
  <2>3. WorkerServed
    BY <1>4 DEF InitAtWork, WorkerServed, Serving
  <2> QED
    BY <1>1, <2>1, <2>2, <2>3 DEF SupervisorInv
<1> QED
  BY <1>3, <1>4 DEF Init

\* So it holds always.
THEOREM Supervisors == Spec => []SupervisorInv
  BY SupervisorInvInit, SupervisorInvStep, PTL DEF Spec

\* The states range over what the code can hold, one process at most works under the lock,
\* and the worker exists exactly while that process serves.
THEOREM TypeCorrect == Spec => []TypeOK
<1>1. ASSUME OneHolder PROVE Cardinality(Holding) <= 1
  <2>1. CASE Holding = {}
    <3>1. Cardinality(Holding) = 0
      BY <2>1, FS_EmptySet
    <3> QED
      BY <3>1
  <2>2. CASE Holding # {}
    <3>1. PICK p \in Holding : TRUE
      BY <2>2
    <3>2. Holding = {p}
      BY <1>1 DEF OneHolder
    <3>3. Cardinality(Holding) = 1
      BY <3>2, FS_Singleton
    <3> QED
      BY <3>3
  <2> QED
    BY <2>1, <2>2
<1>2. SupervisorInv => TypeOK
  <2> SUFFICES ASSUME SupervisorInv PROVE TypeOK
    OBVIOUS
  <2>1. /\ ProcTypes /\ Cardinality(Holding) <= 1
        /\ WorkerTypes /\ ConnStates /\ WorldStates /\ Counts /\ Events /\ Lasting
    BY <1>1 DEF SupervisorInv, ProcInv, ConnTypes
  <2>2. (worker # "absent") <=> \E p \in Procs : proc[p] \in {"serving", "closing", "closed", "unfiled"}
    BY DEF SupervisorInv, WorkerServed, Serving
  <2> QED
    BY <2>1, <2>2 DEF TypeOK, ProcTypes, WorkerTypes, ConnStates, WorldStates, Counts, Events, Lasting
<1> QED
  BY <1>2, Supervisors, PTL

\* In the worker loop, with both watchers running, a change that none of them has seen waits
\* for an audit already journaled (handle_subscription_failure, _start_watchers_for_restart,
\* _request_audit), wherever links, streams, watchers and processes fail.
THEOREM GapsAreAudited == Spec => []GapIsAudited
<1>1. SupervisorInv => GapIsAudited
  BY DEF SupervisorInv, GapInv, GapFound, Gap, GapIsAudited
<1> QED
  BY <1>1, Supervisors, PTL
=============================================================================
