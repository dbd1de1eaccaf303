------------------------------- MODULE Supervisor ------------------------------
(***************************************************************************)
(* The life of supervisor processes (daemon.py): forked by commands,       *)
(* one of them working under the workspace lock, found by its socket and   *)
(* its pidfile, stopped by commands, killed at any moment.  The one that   *)
(* serves runs the worker of Connection.                                   *)
(***************************************************************************)
EXTENDS Connection, FiniteSets

CONSTANTS
    Procs,          \* supervisor processes alive at a time
    Clients,        \* commands: each runs once
    NoProc          \* nobody

ASSUME NobodyAssumption == NoProc \notin Procs

VARIABLES
    proc,           \* each process's progress
    socket,         \* the process the control socket was bound by
    pidfile,        \* the process the pidfile names
    client,         \* each command's progress
    target          \* whose stop a command waits for

commands == <<client, target>>
files == <<socket, pidfile>>
vars == <<proc, files, commands, connection>>

\* Coding error: the lock is let go of as soon as the control is closed.
StagesEarly == {"locked", "starting", "filed", "serving", "closing"}

\* Processes that hold the lock: from its acquisition to its release.
Stages == {"locked", "starting", "filed", "serving", "closing", "closed", "unfiled"}
Holding == {p \in Procs : proc[p] \in Stages}
Alive(p) == proc[p] # "ended"
Answers(p) == proc[p] \in {"serving", "closing"} /\ socket = p

\* Nothing has run yet.
InitIdle ==
    /\ proc = [q \in Procs |-> "ended"] /\ socket = NoProc /\ pidfile = NoProc
    /\ worker = "absent" /\ resumption = "initialize" /\ phase = "stopped"
    /\ link = "ok" /\ conn = "ok" /\ needsAuth = FALSE /\ stream = "none"
    /\ local = FALSE /\ remote = FALSE /\ completed \in BOOLEAN

\* A supervisor in its loop: at work, or locked out of a host that asks for a
\* password.
InitAtWork ==
    /\ \E p \in Procs : /\ proc = [q \in Procs |-> IF q = p THEN "serving" ELSE "ended"]
                        /\ socket = p /\ pidfile = p
    /\ worker = "idle" /\ resumption = "loop" /\ phase = "live"
    /\ \/ link = "ok" /\ conn = "ok" /\ needsAuth = FALSE /\ stream = "alive"
       \/ link = "auth" /\ ~keyed /\ conn = "disconnected" /\ needsAuth = TRUE /\ stream = "dead"
    /\ local = TRUE /\ remote = TRUE /\ completed = TRUE

Init ==
    /\ keyed \in BOOLEAN
    /\ InitIdle \/ InitAtWork
    /\ client = [c \in Clients |-> "idle"] /\ target = [c \in Clients |-> NoProc]
    /\ probed = NotProbed /\ syncRequested = FALSE /\ resumeRequested = FALSE /\ stopping = FALSE
    /\ retry = "none" /\ failure = FALSE /\ audit = FALSE /\ auditing = FALSE
    /\ unseen = "no" /\ resuming = 0 /\ faults = 0

-----------------------------------------------------------------------------
(* A process, from the lock to its release.                                *)

Moves(p, from, to) == proc[p] = from /\ proc' = [proc EXCEPT ![p] = to]

\* Coding error: the pidfile is taken for the lock.
AcquireUnlocked(p) ==
    /\ Moves(p, "forked", IF pidfile = NoProc THEN "locked" ELSE "ended")
    /\ UNCHANGED <<files, commands, connection>>

\* run(): the lock, or the end; a stop that tries the lock holds it for a moment.
Acquire(p) ==
    /\ Moves(p, "forked", IF Holding = {} /\ \A c \in Clients : client[c] # "try lock" THEN "locked" ELSE "ended")
    /\ UNCHANGED <<files, commands, connection>>

Publish(p) ==
    /\ Moves(p, "locked", "starting") /\ phase' = "starting"
    /\ UNCHANGED <<files, commands, worker, probed, resumption, conn, needsAuth, signals, retry, streams, audits,
                   watching, completed, resuming, world, faults>>

WritePid(p) ==
    /\ Moves(p, "starting", "filed") /\ pidfile' = p
    /\ UNCHANGED <<socket, commands, connection>>

\* _control.start: a socket left behind is replaced.
Serve(p) ==
    /\ Moves(p, "filed", "serving") /\ socket' = p /\ worker' = "loading"
    /\ UNCHANGED <<pidfile, commands, probed, resumption, conn, needsAuth, signals, retry, streams, audits, watching,
                   lasting, faults>>

\* The subscription, the local watcher and the remote client are closed.
Leave(p) ==
    /\ worker \in {"leaving", "crashed"} /\ Moves(p, "serving", "closing")
    /\ stream' = "none" /\ local' = FALSE
    /\ UNCHANGED <<files, commands, worker, probed, resumption, conn, needsAuth, signals, retry, failure, audits,
                   remote, unseen, lasting, faults>>

\* _control.stop waits for the requests it has accepted.
CloseControl(p) ==
    /\ resuming = 0 /\ Moves(p, "closing", "closed") /\ socket' = NoProc
    /\ UNCHANGED <<pidfile, commands, connection>>

Unfile(p) ==
    /\ Moves(p, "closed", "unfiled") /\ pidfile' = NoProc
    /\ UNCHANGED <<socket, commands, connection>>

\* The lock is let go of before the status is written.
Release(p) ==
    /\ Moves(p, "unfiled", IF worker = "crashed" THEN "ended" ELSE "released") /\ worker' = "absent" /\ Fresh
    /\ UNCHANGED <<files, commands, audit, remote, completed, phase, world, faults>>

WriteStopped(p) ==
    /\ Moves(p, "released", "ended") /\ phase' = "stopped"
    /\ UNCHANGED <<files, commands, worker, probed, resumption, conn, needsAuth, signals, retry, streams, audits,
                   watching, completed, resuming, world, faults>>

\* The process is killed; its files stay.
Kill(p) ==
    /\ proc[p] \in Stages \cup {"released"} /\ faults < MaxFaults /\ faults' = faults + 1
    /\ proc' = [proc EXCEPT ![p] = "ended"]
    /\ IF p \in Holding
       THEN worker' = "absent" /\ Fresh
       ELSE UNCHANGED <<worker, probed, resumption, conn, needsAuth, signals, retry, streams, auditing, local, unseen,
                        resuming>>
    /\ UNCHANGED <<files, commands, audit, remote, completed, phase, world>>

Process(p) ==
    Acquire(p) \/ Publish(p) \/ WritePid(p) \/ Serve(p) \/ Leave(p) \/ CloseControl(p) \/ Unfile(p) \/ Release(p)
        \/ WriteStopped(p)

-----------------------------------------------------------------------------
(* Commands.                                                               *)

Continues(c, from, to) == client[c] \in from /\ client' = [client EXCEPT ![c] = to]

Begin(c) ==
    /\ \E first \in {"login", "ask", "ask to stop"} : Continues(c, {"idle"}, first)
    /\ UNCHANGED <<proc, files, target, connection>>

\* ensure_master, in the foreground: the user is there to answer.
Login(c) ==
    /\ link # "network" /\ Continues(c, {"login"}, "ask") /\ link' = "ok"
    /\ UNCHANGED <<proc, files, target, worker, probed, resumption, conn, needsAuth, signals, retry, streams, audits,
                   watching, completed, phase, resuming, keyed, faults>>

NoNetwork(c) ==
    /\ link = "network" /\ Continues(c, {"login"}, "done")
    /\ UNCHANGED <<proc, files, target, connection>>

\* status(), by the socket; start_daemon asks once more before it forks.
Asks == {"ask", "ask again"}
Ask(c) ==
    /\ IF \E p \in Procs : Answers(p)
       THEN Continues(c, Asks, IF client[c] = "ask" /\ conn = "disconnected" THEN "resume" ELSE "done")
       ELSE Continues(c, Asks, IF client[c] = "ask" THEN "read" ELSE "read again")
    /\ UNCHANGED <<proc, files, target, connection>>

\* status(), by the pidfile: a process that lives is running.
Running == \E p \in Procs : pidfile = p /\ Alive(p)
Read(c) ==
    /\ IF Running THEN Continues(c, {"read", "read again"}, "done")
       ELSE Continues(c, {"read", "read again"}, IF client[c] = "read" THEN "ask again" ELSE "fork")
    /\ UNCHANGED <<proc, files, target, connection>>

\* The control thread of a resume request takes its steps by itself.
SendResume(c) ==
    /\ Continues(c, {"resume"}, "done") /\ resuming = 0
    /\ resuming' = IF \E p \in Procs : Answers(p) THEN 3 ELSE 0
    /\ UNCHANGED <<proc, files, target, worker, probed, resumption, conn, needsAuth, signals, retry, streams, audits,
                   watching, completed, phase, world, faults>>

\* A slot stands for a new process: no file and no command knows it.
Fork(c) ==
    /\ Continues(c, {"fork"}, "done")
    /\ \E p \in Procs : /\ p \notin {socket, pidfile} \cup {target[k] : k \in Clients}
                        /\ Moves(p, "ended", "forked")
    /\ UNCHANGED <<files, target, connection>>

\* stop_daemon_result: a process that does not answer is not waited for.
AskToStop(c) ==
    /\ Continues(c, {"ask to stop"},
                 IF \E p \in Procs : Answers(p) THEN "send stop" ELSE "done")
    /\ UNCHANGED <<proc, files, target, connection>>

\* stop(): marks, and the subscription is closed.
SendStop(c) ==
    /\ IF \E p \in Procs : Answers(p)
       THEN /\ Continues(c, {"send stop"}, "await socket") /\ target' = [target EXCEPT ![c] = socket]
            /\ stopping' = TRUE /\ syncRequested' = TRUE /\ stream' = "none"
       ELSE Continues(c, {"send stop"}, "done") /\ UNCHANGED <<target, stopping, syncRequested, stream>>
    /\ UNCHANGED <<proc, files, worker, probed, resumption, conn, needsAuth, resumeRequested, retry, failure, audits,
                   watching, lasting, faults>>

\* Coding error: the lock is not tried.
AwaitFiles(c) ==
    /\ \/ socket = NoProc /\ Continues(c, {"await socket"}, "await pid")
       \/ pidfile = NoProc /\ Continues(c, {"await pid"}, "stopped")
       \/ pidfile # NoProc /\ Continues(c, {"await pid"}, "await socket")
    /\ UNCHANGED <<proc, files, target, connection>>

\* _wait_until_stopped: socket, pidfile and lock, one read after the other.
Await(c) ==
    /\ \/ socket = NoProc /\ Continues(c, {"await socket"}, "await pid")
       \/ pidfile = NoProc /\ Continues(c, {"await pid"}, "await lock")
       \/ pidfile # NoProc /\ Continues(c, {"await pid"}, "await socket")
       \/ Continues(c, {"await lock"}, IF Holding = {} THEN "try lock" ELSE "await socket")
       \/ Continues(c, {"try lock"}, "stopped")
    /\ UNCHANGED <<proc, files, target, connection>>

GiveUp(c) ==
    /\ Continues(c, {"await socket", "await pid", "await lock"}, "done")
    /\ target' = [target EXCEPT ![c] = NoProc]
    /\ UNCHANGED <<proc, files, connection>>

Command(c) ==
    Begin(c) \/ Login(c) \/ NoNetwork(c) \/ Ask(c) \/ Read(c) \/ SendResume(c) \/ Fork(c) \/ AskToStop(c)
        \/ SendStop(c) \/ Await(c) \/ GiveUp(c)

-----------------------------------------------------------------------------
Work ==
    Load \/ Ensure \/ StartWatchers \/ RequestAudit \/ InitialSync \/ Rest \/ LockedOut \/ FirstSubscription \/ Wake
        \/ Proceed \/ Rewatch \/ FirstRun \/ RunDone \/ RunFails \/ ProbeLink \/ ProbeAnswers
World ==
    StreamBreaks \/ LocalAudit \/ MissedChange \/ RemoteWatcherDies \/ LinkBreaks \/ NetworkReturns

Supervise == (Work \/ RetryDue \/ Resume \/ World) /\ UNCHANGED <<proc, files, commands>>

Next == (\E p \in Procs : Process(p) \/ Kill(p)) \/ (\E c \in Clients : Command(c)) \/ Supervise

WorkStep == Work /\ UNCHANGED <<proc, files, commands>>
RetryStep == RetryDue /\ UNCHANGED <<proc, files, commands>>
ResumeStep == Resume /\ UNCHANGED <<proc, files, commands>>

Spec == Init /\ [][Next]_vars
\* The worker, a control thread and a timer go on by themselves.
FairSpec == Spec /\ WF_vars(WorkStep) /\ WF_vars(RetryStep) /\ WF_vars(ResumeStep)

-----------------------------------------------------------------------------
ProcStates ==
    {"ended", "forked", "locked", "starting", "filed", "serving", "closing", "closed", "unfiled", "released"}
ClientStates ==
    {"idle", "login", "resume", "fork", "done", "ask to stop", "send stop", "stopped"}
        \cup Asks \cup {"read", "read again", "await socket", "await pid", "await lock", "try lock"}

(* The states range over what the code can hold, one process at most works  *)
(* under the lock, and the worker exists exactly while that process serves. *)
TypeOK ==
    /\ proc \in [Procs -> ProcStates] /\ {socket, pidfile} \subseteq Procs \cup {NoProc}
    /\ client \in [Clients -> ClientStates] /\ target \in [Clients -> Procs \cup {NoProc}]
    /\ worker \in Working \cup {"absent", "leaving", "crashed"}
    /\ probed \in {NotProbed, "ok", "auth", "network"} /\ resumption \in {"initialize", "loop"}
    /\ conn \in {"ok", "degraded", "disconnected", "reconnecting"} /\ retry \in {"none", "later", "due"}
    /\ {needsAuth, syncRequested, resumeRequested, stopping, failure, audit, auditing} \subseteq BOOLEAN
    /\ {local, remote, completed, keyed} \subseteq BOOLEAN
    /\ stream \in {"none", "alive", "dead"} 
    /\ unseen \in {"no", "old", "new"} /\ phase \in Phases
    /\ resuming \in 0 .. 3 /\ link \in {"ok", "auth", "network"} /\ faults \in 0 .. MaxFaults
    /\ Cardinality(Holding) <= 1
    /\ (worker # "absent") <=> \E p \in Procs : proc[p] \in {"serving", "closing", "closed", "unfiled"}

(* While a supervisor serves, the socket and the pidfile are its own: no    *)
(* process that ends, however late, takes them from one that was started    *)
(* meanwhile (run, its finally clause and the order of the release).        *)
OwnFiles == \A p \in Procs : proc[p] = "serving" => socket = p /\ pidfile = p

(* A stop that reports success leaves no process of the one it stopped that *)
(* could still touch the workspace (_wait_until_stopped).                   *)
StoppedMeansDown == \A c \in Clients : client[c] = "stopped" => target[c] \notin Holding

(* In the worker loop, with both watchers running, a change that none of    *)
(* them has seen waits for an audit already journaled                       *)
(* (handle_subscription_failure, _start_watchers_for_restart, _request_audit).*)
GapIsAudited ==
    resumption = "loop" /\ Busy /\ local /\ remote /\ unseen # "no" => audit

(* Once the host can be reached for good, a supervisor of a host with a key *)
(* works again by itself; and one that is told to resume works again unless *)
(* the host is lost again, wherever its worker stood when it was told       *)
(* (resume, handle_subscription_failure, _worker_loop).                     *)
Connected == conn = "ok" /\ stream = "alive"
Released == ~Busy \/ stopping
EventuallyConnected ==
    /\ <>[](link = "ok") => (Busy /\ keyed ~> Connected \/ Released)
    /\ resuming = 3 /\ link = "ok" ~> Connected \/ Released \/ link # "ok"

(* A remote watcher that dies is started again while the supervisor works   *)
(* and the host can be reached.                                             *)
WatcherReturns == <>[](link = "ok") => (Busy /\ ~remote ~> remote \/ Released)
=============================================================================
