-------------------------- MODULE WatcherGeneration --------------------------
(***************************************************************************)
(* The remote watcher processes and the agent verbs that start, stop and   *)
(* query them (remote_agent/__main__.py, store.py, watcher.py).            *)
(*                                                                         *)
(* A caller is one agent process serving one request.  It holds the flock  *)
(* of its workspace (control.lock) from the first look at the watcher row  *)
(* to its answer.  A generation is one spawned watcher process; its token  *)
(* is its own, so the generation stands for its pid and its token.  The    *)
(* watcher takes the lock once, to announce itself, and then writes its    *)
(* row without it, guarded by its token only.                              *)
(***************************************************************************)
EXTENDS Naturals, FiniteSets

CONSTANTS
    Workspaces, Callers, Generations,
    NoGen,          \* an empty pid or token column
    Free,           \* nobody holds the lock
    MaxFaults       \* bound on kills, reused pids and failed backends

ASSUME WatcherConstants ==
    /\ NoGen \notin Generations \cup Workspaces
    /\ Free \notin Callers
    /\ MaxFaults \in Nat

VARIABLES
    indexed,    \* workspaces with a row in the protected index
    stored,     \* workspaces whose state.sqlite3 names them (register_workspace)
    row,        \* the watcher row: [pid, status, token]
    owner,      \* the workspace a generation was spawned for
    proc,       \* where a watcher process stands
    told,       \* processes whose handler of SIGTERM has run
    reused,     \* dead processes whose pid another process has
    lock,       \* holder of control.lock
    call,       \* what a caller is doing: [verb, of]
    reply,      \* what a caller was answered to stop or forget
    faults

watcherVars == <<row, owner, proc, told, reused>>
callVars == <<lock, call, reply>>
vars == <<indexed, stored, watcherVars, callVars, faults>>

Stages == {"unborn", "forked", "booting", "waiting", "attached", "watching", "dead"}
Statuses == {"starting", "running", "stopped", "failed"}
Idle == [verb |-> "none", of |-> NoGen]

\* watcher_state of a database without a watcher row
NoRow == [pid |-> NoGen, status |-> "stopped", token |-> NoGen]

Alive(g) == proc[g] \notin {"unborn", "dead"} \/ g \in reused

\* Coding error: a process whose arguments cannot be read counts as dead.
IdentitiesGuessed(w) ==
    LET g == row[w].pid IN
    CASE g = NoGen \/ (g # NoGen /\ ~Alive(g)) -> {"dead"}
      [] g # NoGen /\ Alive(g) /\ row[w].token = NoGen -> {"unknown"}
      [] OTHER -> {"dead", IF proc[g] = "forked" \/ g \in reused THEN "mismatch" ELSE "current"}

\* _process_arguments: before exec those of the parent; a ps that times out
\* leaves them unknown.
Arguments(g) == {"unknown", IF proc[g] = "forked" \/ g \in reused THEN "mismatch" ELSE "current"}

\* _watcher_identity
Identities(w) ==
    LET g == row[w].pid IN
    CASE g = NoGen \/ (g # NoGen /\ ~Alive(g)) -> {"dead"}
      [] g # NoGen /\ Alive(g) /\ row[w].token = NoGen -> {"unknown"}
      [] OTHER -> Arguments(g)

\* record_watcher_for_generation: only the generation whose token the row holds.
Owns(g) == row[owner[g]].token = g

\* _lookup_workspace and _require_workspace
Registered(w) == w \in indexed /\ w \in stored

Record(w, pid, status) == row' = [row EXCEPT ![w].pid = pid, ![w].status = status]

TypeOK ==
    /\ indexed \subseteq Workspaces /\ stored \subseteq Workspaces
    /\ row \in [Workspaces -> [pid : Generations \cup {NoGen}, status : Statuses,
                               token : Generations \cup {NoGen}]]
    /\ owner \in [Generations -> Workspaces \cup {NoGen}]
    /\ proc \in [Generations -> Stages]
    /\ told \subseteq Generations /\ reused \subseteq {g \in Generations : proc[g] = "dead"}
    /\ lock \in [Workspaces -> Callers \cup {Free}]
    /\ call \in [Callers -> [verb : {"none", "start", "settle", "stop", "forget"},
                             of : Generations \cup {NoGen}]]
    /\ reply \in [Callers -> {"none", "ok", "error"}]
    /\ faults \in 0..MaxFaults

WatcherInit ==
    /\ row = [w \in Workspaces |-> NoRow]
    /\ owner = [g \in Generations |-> NoGen]
    /\ proc = [g \in Generations |-> "unborn"]
    /\ told = {} /\ reused = {}
    /\ lock = [w \in Workspaces |-> Free]
    /\ call = [c \in Callers |-> Idle]
    /\ reply = [c \in Callers |-> "none"]
    /\ faults = 0

-----------------------------------------------------------------------------
(* The agent verbs.                                                        *)

Ready(c, w) == call[c] = Idle /\ lock[w] = Free

\* A request that takes the lock, answers and releases it.
Answer(c, answer) ==
    /\ reply' = [reply EXCEPT ![c] = answer]
    /\ UNCHANGED <<lock, call>>

\* A request that answers and releases the lock it held since an earlier step.
Finish(c, w, answer) ==
    /\ reply' = [reply EXCEPT ![c] = answer]
    /\ call' = [call EXCEPT ![c] = Idle]
    /\ lock' = [lock EXCEPT ![w] = Free]

\* A request that keeps the lock over several steps.
Hold(c, w, verb, g) ==
    /\ lock' = [lock EXCEPT ![w] = c]
    /\ call' = [call EXCEPT ![c] = [verb |-> verb, of |-> g]]
    /\ reply' = [reply EXCEPT ![c] = "none"]

\* _handle_start: a process is spawned, unless the recorded one is or may be
\* alive; then nothing changes.
StartSpawn(c, w) ==
    /\ Ready(c, w) /\ Registered(w)
    /\ Identities(w) \cap {"dead", "mismatch"} # {}
    /\ \E g \in Generations :
          /\ proc[g] = "unborn"
          /\ owner' = [owner EXCEPT ![g] = w]
          /\ proc' = [proc EXCEPT ![g] = "forked"]
          /\ Hold(c, w, "start", g)
    /\ UNCHANGED <<indexed, stored, row, told, reused, faults>>

\* record_watcher("starting"); if it fails the child is terminated.
StartRecord(c, w) ==
    /\ call[c].verb = "start" /\ lock[w] = c
    /\ \/ /\ row' = [row EXCEPT ![w] = [pid |-> call[c].of, status |-> "starting", token |-> call[c].of]]
          /\ call' = [call EXCEPT ![c].verb = "settle"]
          /\ UNCHANGED <<proc, lock, reply, faults>>
       \/ /\ faults < MaxFaults /\ faults' = faults + 1
          /\ proc' = [proc EXCEPT ![call[c].of] = "dead"]
          /\ Finish(c, w, "none") /\ UNCHANGED row
    /\ UNCHANGED <<indexed, stored, owner, told, reused>>

\* _settle_watcher_identity waits for exec, at most half a second.
StartSettle(c, w) ==
    /\ call[c].verb = "settle" /\ lock[w] = c
    /\ Finish(c, w, "none")
    /\ UNCHANGED <<indexed, stored, watcherVars, faults>>

\* _handle_stop: nothing to signal.
StopUnsignalled(c, w) ==
    /\ Ready(c, w)
    /\ \/ w \notin indexed /\ Answer(c, "ok") /\ UNCHANGED row
       \/ w \in indexed /\ w \notin stored /\ Answer(c, "error") /\ UNCHANGED row
       \/ /\ Registered(w)
          /\ \E identity \in Identities(w) :
                \/ identity = "dead" /\ Record(w, NoGen, "stopped") /\ Answer(c, "ok")
                \/ identity = "mismatch" /\ Record(w, NoGen, "failed") /\ Answer(c, "error")
                \/ identity = "unknown" /\ Answer(c, "error") /\ UNCHANGED row
    /\ UNCHANGED <<indexed, stored, owner, proc, told, reused, faults>>

\* SIGTERM kills a process that has not installed its handler yet.
StopSignal(c, w) ==
    /\ Ready(c, w) /\ Registered(w) /\ "current" \in Identities(w)
    /\ LET g == row[w].pid IN
       /\ IF proc[g] = "booting"
          THEN proc' = [proc EXCEPT ![g] = "dead"] /\ UNCHANGED told
          ELSE told' = told \cup {g} /\ UNCHANGED proc
       /\ Hold(c, w, "stop", g)
    /\ UNCHANGED <<indexed, stored, row, owner, reused, faults>>

\* The poll of _handle_stop ends: the process is gone, or five seconds are over.
StopPolled(c, w) ==
    /\ call[c].verb = "stop" /\ lock[w] = c
    /\ LET g == call[c].of IN
       IF proc[g] = "dead"
       THEN Record(w, NoGen, "stopped") /\ Finish(c, w, "ok")
       ELSE \/ Finish(c, w, "error") /\ UNCHANGED row
            \/ Record(w, NoGen, "stopped") /\ Finish(c, w, "ok")   \* arguments unreadable
    /\ UNCHANGED <<indexed, stored, owner, proc, told, reused, faults>>

\* _handle_status: a recorded watcher that is not there any more has failed.
Status(c, w) ==
    /\ Ready(c, w) /\ Registered(w)
    /\ row[w].status \in {"starting", "running"}
    /\ Identities(w) \cap {"dead", "mismatch"} # {}
    /\ Record(w, NoGen, "failed")
    /\ UNCHANGED <<indexed, stored, owner, proc, told, reused, callVars, faults>>

\* An agent process is killed: its flock goes with it.
CallerKilled(c, w) ==
    /\ lock[w] = c /\ faults < MaxFaults /\ faults' = faults + 1
    /\ Finish(c, w, IF call[c].verb = "stop" THEN "error" ELSE "none")
    /\ UNCHANGED <<indexed, stored, watcherVars>>

-----------------------------------------------------------------------------
(* A watcher process.                                                      *)

Goto(g, stage) == proc' = [proc EXCEPT ![g] = stage]

\* exec, then the signal handlers of _run_watcher.
Boot(g) ==
    /\ \/ proc[g] = "forked" /\ Goto(g, "booting")
       \/ proc[g] = "booting" /\ Goto(g, "waiting")
    /\ UNCHANGED <<indexed, stored, row, owner, told, reused, callVars, faults>>

\* _run_watcher under the lock: announce itself, or leave.
Attach(g) ==
    LET w == owner[g] IN
    /\ proc[g] = "waiting" /\ lock[w] = Free
    /\ IF Registered(w) /\ Owns(g)
       THEN Record(w, g, "starting") /\ Goto(g, "attached")
       ELSE Goto(g, "dead") /\ UNCHANGED row
    /\ told' = IF proc'[g] = "dead" THEN told \ {g} ELSE told
    /\ UNCHANGED <<indexed, stored, owner, reused, callVars, faults>>

\* WatcherService.run: recorded as running, unless it is no longer current.
\* The row is written through the open connection, whatever the index says.
Watch(g) ==
    LET w == owner[g] IN
    /\ proc[g] = "attached"
    /\ IF Owns(g)
       THEN Record(w, g, "running") /\ Goto(g, "watching")
       ELSE Goto(g, "dead") /\ UNCHANGED row
    /\ told' = IF proc'[g] = "dead" THEN told \ {g} ELSE told
    /\ UNCHANGED <<indexed, stored, owner, reused, callVars, faults>>

\* Coding error: a status that no reader of the row knows.
LastWordUnknown(g, status) ==
    IF Owns(g) THEN Record(owner[g], NoGen, "exited") ELSE UNCHANGED row

\* The last word of a watcher: _record_state, refused to an older generation.
LastWord(g, status) ==
    IF Owns(g) THEN Record(owner[g], NoGen, status) ELSE UNCHANGED row

\* The backend loop ends on stop(), or by an error: recorded before the exit.
\* A backend that cannot be opened is recorded under the lock by _run_watcher.
Leave(g) ==
    /\ \/ proc[g] = "watching" /\ g \in told /\ UNCHANGED faults /\ LastWord(g, "stopped")
       \/ /\ proc[g] = "watching" \/ (proc[g] = "attached" /\ lock[owner[g]] = Free)
          /\ faults < MaxFaults /\ faults' = faults + 1
          /\ LastWord(g, "failed")
    /\ Goto(g, "dead") /\ told' = told \ {g}
    /\ UNCHANGED <<indexed, stored, owner, reused, callVars>>

\* kill -9, out of memory, a reboot; later its pid may be used again.
Killed(g) ==
    /\ faults < MaxFaults /\ faults' = faults + 1
    /\ \/ Alive(g) /\ g \notin reused /\ Goto(g, "dead") /\ told' = told \ {g} /\ UNCHANGED reused
       \/ proc[g] = "dead" /\ g \notin reused /\ reused' = reused \cup {g} /\ UNCHANGED <<proc, told>>
    /\ UNCHANGED <<indexed, stored, row, owner, callVars>>

CallStep ==
    \E c \in Callers, w \in Workspaces :
        \/ StartSpawn(c, w) \/ StartRecord(c, w) \/ StartSettle(c, w)
        \/ StopUnsignalled(c, w) \/ StopSignal(c, w) \/ StopPolled(c, w)
        \/ Status(c, w) \/ CallerKilled(c, w)

ProcStep == \E g \in Generations : Boot(g) \/ Attach(g) \/ Watch(g) \/ Leave(g) \/ Killed(g)

-----------------------------------------------------------------------------
(* Properties.                                                             *)

\* A watcher that watches and was not told to stop is the one its registered
\* workspace records, pid and token: however start, stop, status, kills and slow
\* starts interleave, no second or forgotten watcher feeds a journal.
WatchingIsRecorded ==
    \A g \in Generations :
        proc[g] = "watching" /\ g \notin told =>
            /\ Registered(owner[g])
            /\ row[owner[g]] = [pid |-> g, status |-> "running", token |-> g]
=============================================================================
