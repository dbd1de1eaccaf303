------------------------------- MODULE Connection ------------------------------
(***************************************************************************)
(* The supervisor's worker and its connection to the remote host           *)
(* (daemon.py): initialization, the worker loop, the event subscription    *)
(* and its failures, probes, retries, the foreground login, audits and the *)
(* watchers.  Control threads resume and stop it at any moment.            *)
(*                                                                         *)
(* What is lost while nobody watches is reduced to one question: are there *)
(* changes no watcher has journaled and no audit has found?                *)
(***************************************************************************)
EXTENDS Naturals

CONSTANTS
    MaxFaults       \* bound on failures: links, calls, streams, watchers, processes

ASSUME FaultsAssumption == MaxFaults \in Nat

VARIABLES
    worker,         \* where the worker is
    probed,         \* what the probe answered; NotProbed outside one
    resumption,     \* where it goes on after a probe: "initialize" or "loop"
    conn,           \* _connection_state
    needsAuth,      \* _requires_foreground_auth
    syncRequested, resumeRequested, stopping,   \* the events
    retry,          \* retry_at: "none", "later" or "due"
    stream,         \* the subscription thread
    failure,        \* _subscription_failure
    audit,          \* a rescan is journaled and not acknowledged
    auditing,       \* the engine run under way answers one
    local, remote,  \* the watchers that run
    unseen,         \* changes neither journaled nor found: "no", "old", or "new"
                    \* for those made since the engine run under way began
    completed,      \* the initial sync is done
    phase,          \* the durable status; all phases of a supervisor at work are "live"
    resuming,       \* steps of resume() a control thread has still to take
    keyed,          \* the host takes a key: a call opens a connection of its own
    link,           \* what a call and a probe meet: "ok", "auth" or "network"
    faults

signals == <<syncRequested, resumeRequested, stopping>>
watching == <<local, remote, unseen>>
audits == <<audit, auditing>>
streams == <<stream, failure>>
world == <<keyed, link>>
lasting == <<completed, phase, resuming, keyed, link>>
connection == <<worker, probed, resumption, conn, needsAuth, signals, retry, streams, audits, watching, lasting,
                faults>>

NotProbed == "nothing"

Phases == {"starting", "live", "failed", "stopped"}
Working == {"loading", "ensure", "watch", "request", "initial", "first run", "probing", "resting", "locked out",
            "subscribe", "idle", "awake", "rewatch", "run"}
Busy == worker \in Working

\* What a process keeps in memory ends with it, and begins with these values.
Fresh ==
    /\ probed' = NotProbed /\ resumption' = "initialize" /\ conn' = "ok" /\ needsAuth' = FALSE
    /\ syncRequested' = FALSE /\ resumeRequested' = FALSE /\ stopping' = FALSE
    /\ retry' = "none" /\ stream' = "none" /\ failure' = FALSE
    /\ auditing' = FALSE /\ resuming' = 0 /\ local' = FALSE
    /\ unseen' = (IF unseen = "new" THEN "old" ELSE unseen)

-----------------------------------------------------------------------------
(* Initialization.                                                         *)

\* _load_components; a coding or configuration error ends the process.
Load ==
    /\ worker = "loading"
    /\ \/ worker' = "ensure" /\ UNCHANGED <<phase, faults>>
       \/ worker' = "crashed" /\ phase' = "failed" /\ faults < MaxFaults /\ faults' = faults + 1
    /\ UNCHANGED <<probed, resumption, conn, needsAuth, signals, retry, streams, audits, watching, completed,
                   resuming,
                   world>>

Stops == stopping /\ worker' = "leaving"

\* Any call may fail; it does unless the link is up.
Fails ==
    /\ worker' = IF stopping THEN "leaving" ELSE "probing"
    /\ \/ link # "ok" /\ UNCHANGED faults
       \/ link = "ok" /\ stopping /\ UNCHANGED faults
       \/ link = "ok" /\ ~stopping /\ faults < MaxFaults /\ faults' = faults + 1

Ensure ==
    /\ worker = "ensure"
    /\ \/ Stops /\ UNCHANGED faults
       \/ ~stopping /\ Fails
       \/ ~stopping /\ link = "ok" /\ worker' = (IF completed THEN "watch" ELSE "initial") /\ UNCHANGED faults
    /\ resumption' = "initialize"
    /\ UNCHANGED <<probed, conn, needsAuth, signals, retry, streams, audits, watching, lasting>>

\* _start_watchers_for_restart: the local watcher, then the remote one.
StartWatchers ==
    /\ worker = "watch"
    /\ local' = TRUE
    /\ \/ link = "ok" /\ remote' = TRUE /\ worker' = "request" /\ UNCHANGED faults
       \/ Fails /\ UNCHANGED remote
    /\ UNCHANGED <<probed, resumption, conn, needsAuth, signals, retry, streams, audits, unseen, lasting>>

Asked == audit' = TRUE

RequestAudit ==
    /\ worker = "request" /\ Asked /\ worker' = "first run"
    /\ UNCHANGED <<probed, resumption, conn, needsAuth, signals, retry, streams, auditing, watching, lasting, faults>>

\* InitialSyncCoordinator.run starts both watchers before it reads the trees.
InitialSync ==
    /\ worker = "initial" /\ local' = TRUE /\ phase' = "live"
    /\ \/ /\ link = "ok" /\ remote' = TRUE /\ unseen' = "no"
          /\ completed' = TRUE /\ worker' = "subscribe" /\ UNCHANGED faults
       \/ Fails /\ UNCHANGED <<remote, unseen, completed>>
    /\ UNCHANGED <<probed, resumption, conn, needsAuth, signals, retry, streams, audits, resuming, world>>

\* The delay between attempts, cut short by a stop.
Rest ==
    /\ worker = "resting" /\ worker' = IF stopping THEN "leaving" ELSE "ensure"
    /\ UNCHANGED <<probed, resumption, conn, needsAuth, signals, retry, streams, audits, watching, lasting, faults>>

\* The wait for a foreground login; it may end on either mark of resume().
LockedOut ==
    /\ worker = "locked out" /\ (stopping \/ ~needsAuth \/ resumeRequested)
    /\ worker' = IF stopping THEN "leaving" ELSE "ensure"
    /\ needsAuth' = FALSE
    /\ resumeRequested' \in (IF needsAuth THEN {FALSE} ELSE {FALSE, resumeRequested})
    /\ UNCHANGED <<probed, resumption, conn, syncRequested, stopping, retry, streams, audits, watching,
                   lasting, faults>>

\* _record_success and the first _start_subscription.
FirstSubscription ==
    /\ worker = "subscribe"
    /\ worker' = "idle" /\ resumption' = "loop"
    /\ conn' = "ok" /\ needsAuth' = FALSE /\ retry' = "none"
    /\ stream' = "alive" /\ phase' = "live"
    /\ UNCHANGED <<probed, signals, failure, audits, watching, completed, resuming, world, faults>>

-----------------------------------------------------------------------------
(* The worker loop.                                                        *)

Seconds30 == retry = "none"

\* sync_requested, the retry or thirty seconds wake the loop.
Wake ==
    /\ worker = "idle" /\ (syncRequested \/ retry = "due" \/ Seconds30)
    /\ syncRequested' = FALSE /\ failure' = (failure /\ stopping)
    /\ worker' = CASE stopping -> "leaving" [] failure /\ ~stopping -> "probing" [] OTHER -> "awake"
    /\ UNCHANGED <<probed, resumption, conn, needsAuth, resumeRequested, stopping, retry, stream, audits,
                   watching, lasting, faults>>

\* Coding error: the resume request is cleared before it is asked for.
ProceedCleared ==
    /\ worker = "awake" /\ resumeRequested' = FALSE
    /\ worker' = CASE needsAuth -> "idle"
                   [] ~needsAuth /\ retry = "later" -> "idle"
                   [] OTHER -> IF conn = "degraded" THEN "rewatch" ELSE "run"
    /\ auditing' = (worker' = "run" /\ audit)
    /\ UNCHANGED <<probed, resumption, conn, needsAuth, syncRequested, stopping, retry, streams, audit,
                   watching, lasting, faults>>

\* Without a login there is nothing to try; before retry_at there is not either.
Proceed ==
    LET held == needsAuth /\ ~resumeRequested IN
    /\ worker = "awake"
    /\ resumeRequested' = (resumeRequested /\ held)
    /\ worker' = CASE held \/ retry = "later" -> "idle"
                   [] OTHER -> IF conn = "degraded" THEN "rewatch" ELSE "run"
    /\ auditing' = (worker' = "run" /\ audit)
    /\ UNCHANGED <<probed, resumption, conn, needsAuth, syncRequested, stopping, retry, streams, audit,
                   watching, lasting, faults>>

\* A degraded connection starts the remote watcher again.
Rewatch ==
    /\ worker = "rewatch"
    /\ \/ link = "ok" /\ remote' = TRUE /\ worker' = "run" /\ auditing' = (audit) /\ UNCHANGED faults
       \/ Fails /\ UNCHANGED <<remote, auditing>>
    /\ UNCHANGED <<probed, resumption, conn, needsAuth, signals, retry, streams, audit, local, unseen, lasting>>

FirstRun ==
    /\ worker = "first run" /\ worker' = "run" /\ auditing' = (audit) /\ phase' = "live"
    /\ UNCHANGED <<probed, resumption, conn, needsAuth, signals, retry, streams, audit, watching, completed,
                   resuming,
                   world, faults>>

\* An audit finds what was there when the run began, and maybe more.
Answered ==
    /\ auditing' = FALSE
    /\ audit' = (audit /\ ~auditing)
    /\ unseen' = IF unseen = "new" \/ (~auditing /\ unseen = "old") THEN "old" ELSE "no"

\* engine.run_once: a rescan is acknowledged when the run ends well.
RunDone ==
    /\ worker = "run" /\ link = "ok"
    /\ Answered
    /\ IF resumption = "initialize"
       THEN worker' = "subscribe" /\ UNCHANGED <<conn, needsAuth, retry, stream, phase>>
       ELSE /\ worker' = "idle" /\ conn' = "ok" /\ needsAuth' = FALSE /\ retry' = "none"
            /\ stream' = "alive" /\ phase' = "live"
    /\ UNCHANGED <<probed, resumption, signals, failure, local, remote, completed, resuming, world, faults>>

RunFails ==
    /\ worker = "run" /\ Fails /\ auditing' = FALSE
    /\ unseen' = IF unseen = "new" THEN "old" ELSE unseen
    /\ UNCHANGED <<probed, resumption, conn, needsAuth, signals, retry, streams, audit, local, remote, lasting>>

\* clear_master: a host that asks for a password has then to be logged in to again.
ClearedLink == IF link = "ok" /\ ~keyed THEN "auth" ELSE link

\* handle_subscription_failure: the connection is retired and probed ...
ProbeLink ==
    /\ worker = "probing" /\ probed = NotProbed
    /\ link' = ClearedLink /\ probed' = link'
    /\ UNCHANGED <<worker, resumption, conn, needsAuth, signals, retry, streams, audits, watching, completed,
                   phase,
                   resuming, keyed, faults>>

\* Coding error: a connection that answers is taken for one that missed nothing.
ProbeAnswersQuietly ==
    /\ worker = "probing" /\ probed # NotProbed /\ probed' = NotProbed
    /\ conn' = CASE probed = "auth" -> "disconnected" [] probed = "ok" -> "degraded" [] OTHER -> "reconnecting"
    /\ phase' = "live" /\ needsAuth' = (probed = "auth")
    /\ retry' = IF probed = "auth" \/ resumption = "initialize" THEN "none" ELSE "later"
    /\ worker' = IF resumption = "loop" THEN "idle" ELSE IF probed = "auth" THEN "locked out" ELSE "resting"
    /\ UNCHANGED <<resumption, signals, streams, audits, watching, completed, resuming, world, faults>>

\* ... and the answer decides, whatever a login has changed meanwhile.
ProbeAnswers ==
    /\ worker = "probing" /\ probed # NotProbed /\ probed' = NotProbed
    /\ conn' = CASE probed = "auth" -> "disconnected" [] probed = "ok" -> "degraded" [] OTHER -> "reconnecting"
    /\ phase' = "live" /\ needsAuth' = (probed = "auth")
    /\ IF probed = "ok" THEN Asked ELSE UNCHANGED audit
    /\ retry' = IF probed = "auth" \/ resumption = "initialize" THEN "none" ELSE "later"
    /\ worker' = IF resumption = "loop" THEN "idle" ELSE IF probed = "auth" THEN "locked out" ELSE "resting"
    /\ UNCHANGED <<resumption, signals, streams, auditing, watching, completed, resuming, world, faults>>

RetryDue ==
    /\ retry = "later" /\ retry' = "due"
    /\ UNCHANGED <<worker, probed, resumption, conn, needsAuth, signals, streams, audits, watching, lasting, faults>>

-----------------------------------------------------------------------------
(* Other threads and the world.                                            *)

\* The subscription ends with an error.
StreamBreaks ==
    /\ stream = "alive" /\ (link # "ok" \/ faults < MaxFaults)
    /\ faults' = IF link = "ok" THEN faults + 1 ELSE faults
    /\ stream' = "dead" /\ failure' = TRUE /\ syncRequested' = TRUE
    /\ UNCHANGED <<worker, probed, resumption, conn, needsAuth, resumeRequested, stopping, retry, audits,
                   watching, lasting>>

\* resume(): three marks, one after the other.
Resume ==
    /\ resuming > 0 /\ resuming' = resuming - 1
    /\ needsAuth' = (needsAuth /\ resuming # 3)
    /\ resumeRequested' = (resumeRequested \/ resuming = 2)
    /\ syncRequested' = (syncRequested \/ resuming = 1)
    /\ UNCHANGED <<worker, probed, resumption, conn, stopping, retry, streams, audits, watching, completed,
                   phase, world, faults>>

\* The periodic rescan of the local watcher; an audit compares both trees. It comes
\* five minutes after the last one, which has then been answered.
LocalAudit ==
    /\ local /\ Busy /\ ~audit
    /\ Asked /\ syncRequested' = TRUE
    /\ UNCHANGED <<worker, probed, resumption, conn, needsAuth, resumeRequested, stopping, retry, streams,
                   auditing, watching, lasting, faults>>

\* A change on a side no watcher watches.
MissedChange ==
    /\ ~(local /\ remote) /\ completed
    /\ unseen' = IF auditing THEN "new" ELSE IF unseen = "new" THEN "new" ELSE "old"
    /\ unseen' # unseen
    /\ UNCHANGED <<worker, probed, resumption, conn, needsAuth, signals, retry, streams, audits, local, remote,
                   lasting, faults>>

\* The remote watcher dies while the supervisor is in its loop.
RemoteWatcherDies ==
    /\ remote /\ resumption = "loop" /\ Busy /\ remote' = FALSE
    /\ UNCHANGED <<worker, probed, resumption, conn, needsAuth, signals, retry, streams, audits, local, unseen,
                   lasting, faults>>

LinkBreaks ==
    /\ link = "ok" /\ faults < MaxFaults /\ faults' = faults + 1
    /\ link' \in {"network"} \cup (IF keyed THEN {} ELSE {"auth"})
    /\ UNCHANGED <<worker, probed, resumption, conn, needsAuth, signals, retry, streams, audits, watching,
                   completed,
                   phase, resuming, keyed>>

NetworkReturns ==
    /\ link = "network" /\ link' \in {"ok"} \cup (IF keyed THEN {} ELSE {"auth"})
    /\ UNCHANGED <<worker, probed, resumption, conn, needsAuth, signals, retry, streams, audits, watching,
                   completed,
                   phase, resuming, keyed, faults>>
=============================================================================
