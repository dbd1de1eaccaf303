---------------------------- MODULE Binding_proofs ----------------------------
(***************************************************************************)
(* The properties of Binding and of the watchers below it, for every set   *)
(* of workspaces, callers, generations, names and directories.             *)
(***************************************************************************)
EXTENDS Binding, TLAPS

-----------------------------------------------------------------------------
(* The inductive invariant, in three parts that are proved one after the   *)
(* other: Typed, Bindings with WatchersRecorded, and Explained.            *)

\* Where a command works for a workspace: a bind, and a forget.
Binds == {"register", "write", "upsert", "rollback"}
Unbinds == {"stop", "remote", "local", "registry"}

\* A command at work has a workspace whose uuid was drawn, and a bind has names
\* for it; what was registered or bound was drawn before.
DrawnFlow(f) ==
    /\ f.at = "idle" => f = NoFlow
    /\ f.at # "idle" => f.id \in Workspaces \ Fresh
    /\ f.at \in Binds => f.name \in Names /\ f.local \in Locals
Drawn ==
    /\ \A c \in Callers : DrawnFlow(flow[c])
    /\ indexed \cap Fresh = {} /\ Bound \cap Fresh = {}

Typed == BindTypeOK /\ Drawn

\* A watcher at work that was not told to stop.
AtWork(g) == proc[g] \in {"attached", "watching"} /\ g \notin told

\* The row such a watcher wrote last.
Announced(g) ==
    [pid |-> g, token |-> g, status |-> IF proc[g] = "watching" THEN "running" ELSE "starting"]

\* Such a watcher is the recorded one from the moment it announced itself, and
\* whoever changes the record holds the lock with no such watcher there.
WatchersRecorded ==
    /\ \A g \in Generations : AtWork(g) =>
          /\ owner[g] \in Workspaces /\ Registered(owner[g])
          /\ row[owner[g]] = Announced(g)
    /\ \A c \in Callers, w \in Workspaces :
          lock[w] = c /\ call[c].verb \in {"start", "stop", "forget"} =>
              \A g \in Generations : AtWork(g) => owner[g] # w

\* Every workspace that a command bound, whether or not it was forgotten since.
EverBound == Bound \cup forgotten

\* What a caller asks an agent belongs to its command, under one lock; one that
\* forgets holds the index too, and the store is gone.
Belongs(c) ==
    /\ reply[c] # "none" => flow[c].at \in {"undo", "stop", "remote"}
    /\ call[c].verb = "forget" => indexLock = c /\ flow[c].at \in {"remote", "undo"}
    /\ call[c].verb = "stop" => flow[c].at = "stop"
    /\ \A w \in Workspaces : lock[w] = c =>
          /\ call[c].verb # "none"
          /\ call[c].verb \in {"stop", "forget"} => flow[c].id = w
          /\ call[c].verb = "forget" => w \notin stored
          /\ call[c].verb \in {"start", "settle"} => w \in EverBound
          /\ \A v \in Workspaces : lock[v] = c => v = w
CallsBelong == \A c \in Callers : Belongs(c)

\* A bind that drew its workspace is alone with it until it is bound.
IsAlone(c) == flow[c].id \notin EverBound /\ \A d \in Callers \ {c} : flow[d].id # flow[c].id
DrewIt(c) == flow[c].at = "undo" \/ (flow[c].at \in Binds /\ ~flow[c].had)
NewIsAlone == \A c \in Callers : DrewIt(c) => IsAlone(c)

\* What a command has reached: what it found or made is there, unless a command
\* began to forget it.
Keeps(c) ==
    /\ flow[c].at \in Unbinds => flow[c].id \in forgotten
    /\ flow[c].at \in Binds /\ flow[c].created => ~flow[c].had
    /\ flow[c].at \in Binds /\ flow[c].had => flow[c].id \in EverBound
    /\ flow[c].at \in {"write", "upsert"} => flow[c].id \in forgotten \cup (indexed \cap stored)
    /\ flow[c].at = "upsert" => flow[c].id \in forgotten \cup meta
FlowsKeep == \A c \in Callers : Keeps(c)

Bindings == Typed /\ CallsBelong /\ NewIsAlone /\ FlowsKeep /\ BoundIsWhole

\* A workspace that was never bound never had a watcher.
NeverWatched ==
    \A i \in Workspaces \ EverBound :
        row[i] = NoRow /\ \A g \in Generations : owner[g] # i

\* A metadata directory has its reason: the workspace is bound, or a command is about
\* to bind it or to take the directory away.
MetaAccounted ==
    \A i \in meta : i \in EverBound
        \/ \E c \in Callers : flow[c].id = i /\ flow[c].at \in {"upsert", "rollback"}

\* A bind that found no binding knows it created the registration, until it fails.
CreatedIsNew ==
    \A c \in Callers : flow[c].at \in {"register", "write", "upsert"} => flow[c].had \/ flow[c].created

\* Without faults so has an index row, and a store is missing only while a forget
\* holds the lock.
Pending(c) == flow[c].at \in {"write", "upsert", "undo"} \/ (flow[c].at = "rollback" /\ flow[c].created)
RegistrationAccounted ==
    \A i \in indexed :
        /\ i \in stored \/ \E c \in Callers : call[c].verb = "forget" /\ lock[i] = c
        /\ i \in EverBound \/ \E c \in Callers : flow[c].id = i /\ Pending(c)

\* A bind that did not register yet, or took its registration back, left none.
Unregistered(c) ==
    \/ flow[c].at = "undo" /\ reply[c] # "none"
    \/ flow[c].at = "register" /\ ~flow[c].had
    \/ flow[c].at = "rollback" /\ ~flow[c].had /\ ~flow[c].created
NothingLeft == \A c \in Callers : Unregistered(c) => flow[c].id \notin indexed

Explained == NeverWatched /\ MetaAccounted /\ CreatedIsNew
             /\ (faults = 0 => RegistrationAccounted /\ NothingLeft)

-----------------------------------------------------------------------------
(* Types.                                                                  *)

\* A recorded process has a pid.
LEMMA CurrentIsRecorded ==
    ASSUME TypeOK, NEW w \in Workspaces, "current" \in Identities(w)
    PROVE  row[w].pid \in Generations /\ row[w].pid \notin reused /\ Alive(row[w].pid)
                /\ proc[row[w].pid] # "forked" /\ row[w].token # NoGen
  BY WatcherConstants DEF Identities, Arguments, TypeOK, Alive

\* The rows keep their type.
RowType == [pid : Generations \cup {NoGen}, status : Statuses, token : Generations \cup {NoGen}]

\* A row that is recorded has the type of a row, and the others stay.
LEMMA RecordType ==
    ASSUME row \in [Workspaces -> RowType], NEW w, NEW pid \in Generations \cup {NoGen},
           NEW status \in Statuses, Record(w, pid, status)
    PROVE  /\ row' \in [Workspaces -> RowType]
           /\ \A v \in Workspaces : v # w => row'[v] = row[v]
           /\ w \in Workspaces => row'[w] = [pid |-> pid, status |-> status, token |-> row[w].token]
  BY DEF Record, RowType

\* So do the variables of the callers, however a request ends or goes on.
CallType == [verb : {"none", "start", "settle", "stop", "forget"}, of : Generations \cup {NoGen}]
CallersTyped ==
    /\ lock \in [Workspaces -> Callers \cup {Free}]
    /\ call \in [Callers -> CallType]
    /\ reply \in [Callers -> {"none", "ok", "error"}]

\* An answer, an end and a hold keep the types of the callers.
LEMMA RequestTypes ==
    ASSUME CallersTyped, NEW c \in Callers, NEW w \in Workspaces
    PROVE  /\ \A answer \in {"none", "ok", "error"} :
                 Answer(c, answer) \/ Finish(c, w, answer) => CallersTyped'
           /\ \A verb \in {"start", "stop", "forget"}, g \in Generations \cup {NoGen} :
                 Hold(c, w, verb, g) => CallersTyped'
<1> USE DEF CallersTyped, CallType, Idle
<1>1. ASSUME NEW answer \in {"none", "ok", "error"}, Answer(c, answer)
      PROVE  CallersTyped'
  BY <1>1 DEF Answer
<1>2. ASSUME NEW answer \in {"none", "ok", "error"}, Finish(c, w, answer)
      PROVE  CallersTyped'
  BY <1>2 DEF Finish
<1>3. ASSUME NEW verb \in {"start", "stop", "forget"}, NEW g \in Generations \cup {NoGen},
             Hold(c, w, verb, g)
      PROVE  CallersTyped'
  BY <1>3 DEF Hold
<1> QED
  BY <1>1, <1>2, <1>3

\* What is left: the processes, and the index.
ProcessesTyped ==
    /\ owner \in [Generations -> Workspaces \cup {NoGen}]
    /\ proc \in [Generations -> Stages]
    /\ told \subseteq Generations /\ reused \subseteq {g \in Generations : proc[g] = "dead"}
    /\ faults \in 0..MaxFaults

\* The type invariant in its parts, before and after a step.
LEMMA TypeParts ==
    /\ TypeOK <=> /\ indexed \subseteq Workspaces /\ stored \subseteq Workspaces
                  /\ row \in [Workspaces -> RowType] /\ CallersTyped /\ ProcessesTyped
    /\ TypeOK' <=> /\ indexed' \subseteq Workspaces /\ stored' \subseteq Workspaces
                   /\ row' \in [Workspaces -> RowType] /\ CallersTyped' /\ ProcessesTyped'
  BY DEF TypeOK, RowType, CallersTyped, CallType, ProcessesTyped

\* The calls of agents keep the types of the watchers' variables.
LEMMA CallTypes ==
    ASSUME TypeOK, NEW c \in Callers, NEW w \in Workspaces,
           \/ StartSpawn(c, w) \/ StartRecord(c, w) \/ StartSettle(c, w)
           \/ StopUnsignalled(c, w) \/ StopSignal(c, w) \/ StopPolled(c, w)
           \/ Status(c, w) \/ CallerKilled(c, w)
    PROVE  TypeOK'
<1> USE WatcherConstants DEF Stages, watcherVars, callVars
<1>0. /\ indexed \subseteq Workspaces /\ stored \subseteq Workspaces
      /\ row \in [Workspaces -> RowType] /\ CallersTyped /\ ProcessesTyped
  BY TypeParts
<1>t. /\ (UNCHANGED <<lock, call, reply>> => CallersTyped')
      /\ (UNCHANGED <<owner, proc, told, reused, faults>> => ProcessesTyped')
      /\ \A v \in Workspaces : row[v] \in RowType
      /\ \A v \in Workspaces : row[v].pid \in Generations \cup {NoGen}
  BY <1>0 DEF CallersTyped, ProcessesTyped, RowType
<1>1. CASE StartSpawn(c, w)
  <2>1. PICK g \in Generations : proc[g] = "unborn" /\ Hold(c, w, "start", g)
                                 /\ owner' = [owner EXCEPT ![g] = w] /\ proc' = [proc EXCEPT ![g] = "forked"]
    BY <1>1 DEF StartSpawn
  <2>2. ProcessesTyped'
    BY <1>0, <1>1, <2>1 DEF ProcessesTyped, StartSpawn
  <2> QED
    BY <1>0, <1>1, <2>1, <2>2, RequestTypes, TypeParts DEF StartSpawn
<1>2. CASE StartRecord(c, w)
  <2>1. call[c].of \in Generations \cup {NoGen}
    BY <1>0 DEF CallersTyped, CallType
  <2>2. CASE /\ row' = [row EXCEPT ![w] = [pid |-> call[c].of, status |-> "starting", token |-> call[c].of]]
             /\ call' = [call EXCEPT ![c].verb = "settle"]
             /\ UNCHANGED <<proc, lock, reply, faults>>
    <3>1. row' \in [Workspaces -> RowType]
      BY <1>0, <2>1, <2>2 DEF RowType, Statuses
    <3>2. CallersTyped'
      BY <1>0, <2>2 DEF CallersTyped, CallType
    <3> QED
      BY <1>0, <1>2, <1>t, <2>2, <3>1, <3>2, TypeParts DEF StartRecord
  <2>3. CASE /\ faults < MaxFaults /\ faults' = faults + 1
             /\ proc' = [proc EXCEPT ![call[c].of] = "dead"] /\ Finish(c, w, "none") /\ UNCHANGED row
    <3>0. UNCHANGED <<owner, told, reused>>
      BY <1>2 DEF StartRecord
    <3>1. proc' \in [Generations -> Stages] /\ \A g \in Generations : proc[g] = "dead" => proc'[g] = "dead"
      BY <1>0, <2>3 DEF ProcessesTyped
    <3>2. ProcessesTyped'
      BY <1>0, <2>3, <3>0, <3>1 DEF ProcessesTyped
    <3> QED
      BY <1>0, <1>2, <2>3, <3>2, RequestTypes, TypeParts DEF StartRecord
  <2> QED
    BY <1>2, <2>2, <2>3 DEF StartRecord
<1>3. CASE StartSettle(c, w)
  BY <1>0, <1>3, <1>t, RequestTypes, TypeParts DEF StartSettle
<1>4. CASE StopUnsignalled(c, w)
  <2>1. row' \in [Workspaces -> RowType]
    BY <1>0, <1>4, RecordType DEF StopUnsignalled, Statuses
  <2>2. CallersTyped'
    BY <1>0, <1>4, RequestTypes DEF StopUnsignalled
  <2> QED
    BY <1>0, <1>4, <1>t, <2>1, <2>2, TypeParts DEF StopUnsignalled
<1>5. CASE StopSignal(c, w)
  <2>1. ProcessesTyped'
    BY <1>0, <1>5, CurrentIsRecorded DEF StopSignal, ProcessesTyped
  <2> QED
    BY <1>0, <1>5, <1>t, <2>1, RequestTypes, TypeParts DEF StopSignal
<1>6. CASE StopPolled(c, w)
  <2>1. row' \in [Workspaces -> RowType] /\ CallersTyped'
    <3>1. CASE UNCHANGED row /\ Finish(c, w, "error")
      BY <1>0, <3>1, RequestTypes
    <3>2. CASE Record(w, NoGen, "stopped") /\ Finish(c, w, "ok")
      BY <1>0, <3>2, RequestTypes, RecordType DEF Statuses
    <3> QED
      BY <1>6, <3>1, <3>2 DEF StopPolled
  <2> QED
    BY <1>0, <1>6, <1>t, <2>1, TypeParts DEF StopPolled
<1>7. CASE Status(c, w)
  <2>1. row' \in [Workspaces -> RowType]
    BY <1>0, <1>7, RecordType DEF Status, Statuses
  <2> QED
    BY <1>0, <1>7, <1>t, <2>1, TypeParts DEF Status
<1>8. CASE CallerKilled(c, w)
  <2>1. ProcessesTyped'
    BY <1>0, <1>8 DEF CallerKilled, ProcessesTyped
  <2> QED
    BY <1>0, <1>8, <2>1, RequestTypes, TypeParts DEF CallerKilled
<1> QED
  BY <1>1, <1>2, <1>3, <1>4, <1>5, <1>6, <1>7, <1>8

\* So do the watcher processes.
LEMMA ProcTypes ==
    ASSUME TypeOK, ProcStep
    PROVE  TypeOK'
<1> USE WatcherConstants DEF Stages, watcherVars, callVars, Goto
<1>0. /\ indexed \subseteq Workspaces /\ stored \subseteq Workspaces
      /\ row \in [Workspaces -> RowType] /\ CallersTyped /\ ProcessesTyped
  BY TypeParts
<1>t. UNCHANGED <<lock, call, reply>> => CallersTyped'
  BY <1>0 DEF CallersTyped
<1>1. PICK g \in Generations : Boot(g) \/ Attach(g) \/ Watch(g) \/ Leave(g) \/ Killed(g)
  BY DEF ProcStep
<1>2. row' \in [Workspaces -> RowType]
  <2>1. CASE UNCHANGED row
    BY <1>0, <2>1
  <2>2. CASE \E pid \in Generations \cup {NoGen}, status \in Statuses : Record(owner[g], pid, status)
    BY <1>0, <2>2, RecordType
  <2> QED
    BY <1>1, <2>1, <2>2 DEF Boot, Attach, Watch, Leave, Killed, LastWord, Statuses
<1>3. CASE Boot(g)
  BY <1>0, <1>2, <1>3, <1>t, TypeParts DEF Boot, ProcessesTyped
<1>4. CASE Attach(g)
  BY <1>0, <1>2, <1>4, <1>t, TypeParts DEF Attach, ProcessesTyped
<1>5. CASE Watch(g)
  BY <1>0, <1>2, <1>5, <1>t, TypeParts DEF Watch, ProcessesTyped
<1>6. CASE Leave(g)
  BY <1>0, <1>2, <1>6, <1>t, TypeParts DEF Leave, ProcessesTyped
<1>7. CASE Killed(g)
  BY <1>0, <1>2, <1>7, <1>t, TypeParts DEF Killed, Alive, ProcessesTyped
<1> QED
  BY <1>1, <1>3, <1>4, <1>5, <1>6, <1>7

-----------------------------------------------------------------------------
(* Types of the bindings, and what was drawn.                              *)

\* What BindTypeOK says of the variables of Binding.
FlowType ==
    [at : {"idle", "register", "write", "upsert", "rollback", "undo", "stop", "remote", "local", "registry"},
     id : Workspaces \cup {NoName}, name : Names \cup {NoName},
     local : Locals \cup {NoName}, had : BOOLEAN, created : BOOLEAN]
RecordsTyped ==
    /\ root \in [Workspaces -> Roots \cup {NoName}]
    /\ record \in [Workspaces -> [name : Names, local : Locals] \cup {NoRecord}]
    /\ meta \subseteq Workspaces \ Fresh
    /\ indexLock \in Callers \cup {Free}
    /\ forgotten \subseteq Workspaces \ Fresh
    /\ commands \in 0..MaxCommands

\* The same for the variables of Binding.
LEMMA BindTypeParts ==
    /\ BindTypeOK <=> TypeOK /\ RecordsTyped /\ flow \in [Callers -> FlowType]
    /\ BindTypeOK' <=> TypeOK' /\ RecordsTyped' /\ flow' \in [Callers -> FlowType]
  BY DEF BindTypeOK, RecordsTyped, FlowType

\* How a command goes on, and ends: one entry of flow changes.
LEMMA FlowSteps ==
    ASSUME flow \in [Callers -> FlowType], NEW c \in Callers
    PROVE  /\ \A entry \in FlowType : flow' = [flow EXCEPT ![c] = entry] =>
                /\ flow' \in [Callers -> FlowType]
                /\ flow'[c] = entry /\ \A d \in Callers \ {c} : flow'[d] = flow[d]
           /\ \A stage \in Binds \cup Unbinds : Enter(c, stage) =>
                /\ flow' \in [Callers -> FlowType]
                /\ flow'[c] = [flow[c] EXCEPT !.at = stage]
                /\ \A d \in Callers \ {c} : flow'[d] = flow[d]
           /\ End(c) =>
                /\ flow' \in [Callers -> FlowType]
                /\ flow'[c] = NoFlow /\ \A d \in Callers \ {c} : flow'[d] = flow[d]
<1>1. ASSUME NEW entry \in FlowType, flow' = [flow EXCEPT ![c] = entry]
      PROVE  /\ flow' \in [Callers -> FlowType]
             /\ flow'[c] = entry /\ \A d \in Callers \ {c} : flow'[d] = flow[d]
  BY <1>1
<1>2. ASSUME NEW stage \in Binds \cup Unbinds
      PROVE  [flow[c] EXCEPT !.at = stage] \in FlowType
  <2>1. flow[c] \in FlowType
    OBVIOUS
  <2> QED
    BY <2>1 DEF FlowType, Binds, Unbinds
<1>3. NoFlow \in FlowType
  BY DEF NoFlow, FlowType
<1> QED
  BY <1>1, <1>2, <1>3 DEF Enter, End

\* The steps that only watchers and agents take leave commands and records alone.
LEMMA WatcherFrame ==
    ASSUME TypeOK,
           \/ \E c \in Callers, w \in Workspaces : Calls(c, w)
           \/ ProcStep
    PROVE  UNCHANGED <<indexed, stored>> /\ faults' \in Nat /\ faults' >= faults
<1> USE WatcherConstants DEF TypeOK, watcherVars, callVars
<1>1. CASE ProcStep
  BY <1>1 DEF ProcStep, Boot, Attach, Watch, Leave, Killed
<1>2. ASSUME NEW c \in Callers, NEW w \in Workspaces, Calls(c, w)
      PROVE  UNCHANGED <<indexed, stored>> /\ faults' \in Nat /\ faults' >= faults
  BY <1>2 DEF Calls, StartSpawn, StartRecord, StartSettle, StopUnsignalled, StopSignal,
              StopPolled, Status, CallerKilled
<1> QED
  BY <1>1, <1>2

\* Answers and holds of a forget keep the types.
LEMMA ForgetTypes ==
    ASSUME Typed, NEW c \in Callers, NEW i \in Workspaces, ForgetCalls(c, i)
    PROVE  Typed'
<1> USE WatcherConstants DEF Typed
<1>0. /\ indexed \subseteq Workspaces /\ stored \subseteq Workspaces
      /\ row \in [Workspaces -> RowType] /\ CallersTyped /\ ProcessesTyped
      /\ RecordsTyped /\ flow \in [Callers -> FlowType]
  BY TypeParts, BindTypeParts
<1>1. UNCHANGED <<root, record, meta, flow, forgotten, commands, owner, proc, told, reused, row>>
      /\ faults' \in 0..MaxFaults
      /\ indexed' \subseteq indexed /\ stored' \subseteq stored /\ indexLock' \in {indexLock, c, Free}
  BY <1>0 DEF ForgetCalls, ForgetAside, ForgetAnswered, ForgetIndex, Fault, watcherVars, bindVars,
              ProcessesTyped
<1>2. CallersTyped'
  BY <1>0, RequestTypes DEF ForgetCalls, ForgetAside, ForgetAnswered, ForgetIndex
<1>3. TypeOK'
  BY <1>0, <1>1, <1>2, TypeParts DEF ProcessesTyped
<1>4. BindTypeOK'
  BY <1>0, <1>1, <1>3, BindTypeParts DEF RecordsTyped, Fresh
<1>5. Drawn'
  BY <1>1 DEF Drawn, DrawnFlow, Fresh, Bound
<1> QED
  BY <1>4, <1>5

\* The commands keep them too.
LEMMA BindTypes ==
    ASSUME Typed, NEW c \in Callers, BindStep(c)
    PROVE  Typed'
<1> USE WatcherConstants, BindConstants DEF Typed
<1>0. /\ indexed \subseteq Workspaces /\ stored \subseteq Workspaces
      /\ row \in [Workspaces -> RowType] /\ CallersTyped /\ ProcessesTyped
      /\ RecordsTyped /\ flow \in [Callers -> FlowType]
      /\ DrawnFlow(flow[c])
  BY TypeParts, BindTypeParts DEF Drawn
<1>v. UNCHANGED vars => TypeOK' /\ UNCHANGED indexed
  BY <1>0, TypeParts DEF vars, watcherVars, callVars, CallersTyped, ProcessesTyped
<1>d. ASSUME /\ flow' \in [Callers -> FlowType]
             /\ \A d \in Callers \ {c} : flow'[d] = flow[d]
             /\ DrawnFlow(flow[c])'
             /\ root' \in [Workspaces -> Roots \cup {NoName}] /\ Fresh' \subseteq Fresh
             /\ indexed' \cap Fresh' = {} /\ Bound' \cap Fresh' = {}
      PROVE  Drawn'
  BY <1>0, <1>d DEF Drawn, DrawnFlow
<1>f. UNCHANGED root => Fresh' = Fresh
  BY DEF Fresh
<1>1. CASE BindCheck(c)
  <2>1. TypeOK' /\ UNCHANGED indexed
    BY <1>1, <1>v DEF BindCheck
  <2>0. PICK name \in Names, local \in Locals, r \in Roots, given \in BOOLEAN :
        LET existing == Candidates(IF given THEN name ELSE NoName, local, r) IN
        /\ given => NameAvailable(name, r)
        /\ ~given /\ existing = {} => \A i \in Bound : record[i].name # name
        /\ ~given /\ existing # {} => \A i \in existing : record[i].name = name
        /\ \E i \in Workspaces :
            /\ IF existing = {}
               THEN i \in Fresh
               ELSE existing = {i} /\ i \in meta /\ root[i] = r
            /\ root' = [root EXCEPT ![i] = r]
            /\ flow' = [flow EXCEPT ![c] =
                  [at |-> "register", id |-> i, name |-> name, local |-> local,
                   had |-> i \in meta, created |-> existing = {}]]
    BY <1>1 DEF BindCheck
  <2> DEFINE existing == Candidates(IF given THEN name ELSE NoName, local, r)
  <2>2. PICK i \in Workspaces :
          /\ IF existing = {} THEN i \in Fresh ELSE existing = {i} /\ i \in meta /\ root[i] = r
          /\ root' = [root EXCEPT ![i] = r]
          /\ flow' = [flow EXCEPT ![c] =
                [at |-> "register", id |-> i, name |-> name, local |-> local,
                 had |-> i \in meta, created |-> existing = {}]]
    BY <2>0
  <2>3. commands' \in 0..MaxCommands /\ UNCHANGED <<record, meta, indexLock, forgotten>>
    BY <1>0, <1>1 DEF BindCheck, Begin, RecordsTyped, vars
  <2>4. root' \in [Workspaces -> Roots \cup {NoName}] /\ Fresh' = Fresh \ {i} /\ Bound' = Bound
    BY <1>0, <2>2, <2>3 DEF RecordsTyped, Fresh, Bound
  <2> DEFINE entry == [at |-> "register", id |-> i, name |-> name, local |-> local,
                       had |-> i \in meta, created |-> existing = {}]
  <2>e. entry \in FlowType
    BY DEF FlowType
  <2>5. flow' \in [Callers -> FlowType] /\ flow'[c] = entry /\ \A d \in Callers \ {c} : flow'[d] = flow[d]
    BY <1>0, <2>2, <2>e, FlowSteps
  <2>i. root'[i] = r /\ i \notin Fresh'
    BY <1>0, <2>2 DEF RecordsTyped, Fresh
  <2>6a. DrawnFlow(flow[c])'
    BY <2>5, <2>i DEF DrawnFlow
  <2>6. RecordsTyped'
    BY <1>0, <2>3, <2>4 DEF RecordsTyped
  <2>7. Drawn'
    BY <1>d, <2>1, <2>4, <2>5, <2>6a DEF Drawn
  <2> QED
    BY <2>1, <2>5, <2>6, <2>7, BindTypeParts
<1>2. CASE BindRegister(c)
  <2>0. flow[c].id \in Workspaces \ Fresh
    BY <1>0, <1>2 DEF BindRegister, DrawnFlow
  <2>1. /\ indexed' \subseteq indexed \cup {flow[c].id} /\ stored' \subseteq stored \cup {flow[c].id}
        /\ row' \in [Workspaces -> RowType] /\ faults' \in 0..MaxFaults
    BY <1>0, <1>2, <2>0 DEF BindRegister, RegisterRemote, Fault, RowType, NoRow, Statuses, ProcessesTyped
  <2>2. UNCHANGED <<root, record, meta, indexLock, forgotten, commands>>
        /\ UNCHANGED <<owner, proc, told, reused, lock, call, reply>>
    BY <1>2 DEF BindRegister, callVars
  <2>3. TypeOK'
    BY <1>0, <2>0, <2>1, <2>2, TypeParts DEF ProcessesTyped, CallersTyped
  <2>4. PICK entry \in {[flow[c] EXCEPT !.at = "write"],
                        [flow[c] EXCEPT !.at = "rollback", !.created = FALSE]} :
            flow' = [flow EXCEPT ![c] = entry]
    BY <1>0, <1>2 DEF BindRegister, Enter
  <2>5. entry \in FlowType /\ entry.id = flow[c].id /\ entry.at # "idle"
        /\ entry.name = flow[c].name /\ entry.local = flow[c].local
    BY <1>0, <2>4 DEF FlowType
  <2>6. flow' \in [Callers -> FlowType] /\ flow'[c] = entry /\ \A d \in Callers \ {c} : flow'[d] = flow[d]
    BY <1>0, <2>4, <2>5, FlowSteps
  <2>7. Fresh' = Fresh /\ Bound' = Bound /\ RecordsTyped'
    BY <1>0, <2>2 DEF Fresh, Bound, RecordsTyped
  <2>8. flow[c].name \in Names /\ flow[c].local \in Locals
    BY <1>0, <1>2 DEF BindRegister, DrawnFlow, Binds
  <2>9. Drawn'
    BY <1>0, <1>d, <2>0, <2>1, <2>2, <2>5, <2>6, <2>7, <2>8 DEF Drawn, DrawnFlow, RecordsTyped
  <2> QED
    BY <2>3, <2>6, <2>7, <2>9, BindTypeParts
<1>3. CASE BindWrite(c)
  <2>0. flow[c].id \in Workspaces \ Fresh /\ faults' \in 0..MaxFaults
    BY <1>0, <1>3 DEF BindWrite, DrawnFlow, Fault, ProcessesTyped
  <2>1. UNCHANGED <<indexed, stored, row, owner, proc, told, reused, lock, call, reply>>
        /\ UNCHANGED <<root, record, indexLock, forgotten, commands>>
    BY <1>3 DEF BindWrite, watcherVars, callVars
  <2>2. TypeOK'
    BY <1>0, <2>0, <2>1, TypeParts DEF ProcessesTyped, CallersTyped
  <2>3. Fresh' = Fresh /\ Bound' = Bound /\ RecordsTyped'
    BY <1>0, <1>3, <2>0, <2>1 DEF BindWrite, Fresh, Bound, RecordsTyped
  <2>4. Enter(c, "upsert") \/ Enter(c, "rollback")
    BY <1>3 DEF BindWrite
  <2>5. flow' \in [Callers -> FlowType] /\ \A d \in Callers \ {c} : flow'[d] = flow[d]
    BY <1>0, <2>4, FlowSteps DEF Binds
  <2>6. flow'[c] = [flow[c] EXCEPT !.at = "upsert"] \/ flow'[c] = [flow[c] EXCEPT !.at = "rollback"]
    BY <1>0, <2>4, FlowSteps DEF Binds
  <2>7. DrawnFlow(flow[c])'
    BY <1>0, <1>3, <2>0, <2>3, <2>6 DEF BindWrite, DrawnFlow, FlowType, Binds
  <2>8. Drawn'
    BY <1>d, <2>1, <2>3, <2>5, <2>7 DEF Drawn, RecordsTyped
  <2> QED
    BY <2>2, <2>3, <2>5, <2>8, BindTypeParts
<1>4. CASE BindUpsert(c)
  <2>0. /\ flow[c].id \in Workspaces \ Fresh /\ faults' \in 0..MaxFaults
        /\ flow[c].name \in Names /\ flow[c].local \in Locals
    BY <1>0, <1>4 DEF BindUpsert, DrawnFlow, Fault, ProcessesTyped, Binds
  <2>1. UNCHANGED <<indexed, stored, row, owner, proc, told, reused, lock, call, reply>>
        /\ UNCHANGED <<root, meta, indexLock, forgotten, commands>>
    BY <1>4 DEF BindUpsert, watcherVars, callVars
  <2>2. TypeOK'
    BY <1>0, <2>0, <2>1, TypeParts DEF ProcessesTyped, CallersTyped
  <2>3. Fresh' = Fresh /\ Bound' \subseteq Bound \cup {flow[c].id} /\ RecordsTyped'
    BY <1>0, <1>4, <2>0, <2>1 DEF BindUpsert, Fresh, Bound, RecordsTyped
  <2>4. Enter(c, "rollback") \/ End(c)
    BY <1>4 DEF BindUpsert
  <2>5. flow' \in [Callers -> FlowType] /\ \A d \in Callers \ {c} : flow'[d] = flow[d]
    BY <1>0, <2>4, FlowSteps DEF Binds
  <2>6. flow'[c] = NoFlow \/ flow'[c] = [flow[c] EXCEPT !.at = "rollback"]
    BY <1>0, <2>4, FlowSteps DEF Binds
  <2>7. DrawnFlow(flow[c])'
    BY <1>0, <2>0, <2>3, <2>6 DEF DrawnFlow, FlowType, Binds, NoFlow
  <2>8. Drawn'
    BY <1>d, <2>0, <2>1, <2>3, <2>5, <2>7 DEF Drawn, RecordsTyped
  <2> QED
    BY <2>2, <2>3, <2>5, <2>8, BindTypeParts
<1>5. CASE BindRollback(c)
  <2>0. flow[c].id \in Workspaces \ Fresh
    BY <1>0, <1>5 DEF BindRollback, DrawnFlow
  <2>1. TypeOK' /\ UNCHANGED indexed
    BY <1>5, <1>v DEF BindRollback
  <2>2. meta' \subseteq meta /\ UNCHANGED <<root, record, indexLock, forgotten, commands>>
    BY <1>5 DEF BindRollback, RollbackLocal
  <2>3. Fresh' = Fresh /\ Bound' = Bound /\ RecordsTyped'
    BY <1>0, <2>2 DEF Fresh, Bound, RecordsTyped
  <2> DEFINE undo == [NoFlow EXCEPT !.at = "undo", !.id = flow[c].id]
  <2>4. undo \in FlowType /\ NoFlow \in FlowType
    BY <2>0 DEF FlowType, NoFlow
  <2>5. flow' \in [Callers -> FlowType] /\ flow'[c] \in {undo, NoFlow} /\ \A d \in Callers \ {c} : flow'[d] = flow[d]
    BY <1>0, <1>5, <2>4, FlowSteps DEF BindRollback
  <2>6a. undo.at = "undo" /\ undo.id = flow[c].id /\ NoFlow.at = "idle"
    BY DEF NoFlow
  <2>6. DrawnFlow(flow[c])'
    <3> HIDE DEF undo
    <3> QED
      BY <2>0, <2>3, <2>5, <2>6a DEF DrawnFlow, Binds
  <2>7. Drawn'
    BY <1>d, <2>1, <2>2, <2>3, <2>5, <2>6 DEF Drawn, RecordsTyped
  <2> QED
    BY <2>1, <2>3, <2>5, <2>7, BindTypeParts
<1>6. CASE UnbindBegin(c)
  <2>1. TypeOK' /\ UNCHANGED indexed
    BY <1>6, <1>v DEF UnbindBegin
  <2>2. PICK i \in Bound, localOnly \in BOOLEAN :
          /\ forgotten' = forgotten \cup {i}
          /\ flow' = [flow EXCEPT ![c].at = IF localOnly THEN "local" ELSE "stop",
                                  ![c].id = i, ![c].name = record[i].name]
    BY <1>6 DEF UnbindBegin
  <2> DEFINE entry == [flow[c] EXCEPT !.at = IF localOnly THEN "local" ELSE "stop",
                                      !.id = i, !.name = record[i].name]
  <2>3. i \in Workspaces \ Fresh /\ record[i].name \in Names
    BY <1>0 DEF Bound, Drawn, RecordsTyped
  <2>4. commands' \in 0..MaxCommands /\ UNCHANGED <<root, record, meta, indexLock>>
    BY <1>0, <1>6 DEF UnbindBegin, Begin, RecordsTyped
  <2>5a. flow[c] \in FlowType
    BY <1>0
  <2>5b. /\ i \in Workspaces /\ record[i].name \in Names
         /\ (IF localOnly THEN "local" ELSE "stop") \in {"local", "stop"}
    BY <2>3
  <2>5. entry \in FlowType /\ flow[c] \in FlowType
    BY <2>5a, <2>5b DEF FlowType
  <2>6. flow' = [flow EXCEPT ![c] = entry]
    BY <1>0, <2>2
  <2>7. flow' \in [Callers -> FlowType] /\ flow'[c] = entry /\ \A d \in Callers \ {c} : flow'[d] = flow[d]
    BY <1>0, <2>5, <2>6, FlowSteps
  <2>8. Fresh' = Fresh /\ Bound' = Bound /\ RecordsTyped'
    BY <1>0, <2>2, <2>3, <2>4 DEF Fresh, Bound, RecordsTyped
  <2>9. DrawnFlow(flow[c])'
    BY <2>3, <2>5, <2>7, <2>8 DEF DrawnFlow, Binds, FlowType
  <2>10. Drawn'
    BY <1>d, <2>1, <2>4, <2>7, <2>8, <2>9 DEF Drawn, RecordsTyped
  <2> QED
    BY <2>1, <2>7, <2>8, <2>10, BindTypeParts
<1>7. CASE RemoteAnswered(c)
  <2>1. UNCHANGED <<indexed, stored, row, owner, proc, told, reused, lock, call, faults>>
        /\ UNCHANGED <<root, record, meta, indexLock, forgotten, commands>>
        /\ reply' = [reply EXCEPT ![c] = "none"]
    BY <1>7 DEF RemoteAnswered, watcherVars
  <2>2. TypeOK'
    BY <1>0, <2>1, TypeParts DEF ProcessesTyped, CallersTyped
  <2>3. Fresh' = Fresh /\ Bound' = Bound /\ RecordsTyped'
    BY <1>0, <2>1 DEF Fresh, Bound, RecordsTyped
  <2>4. flow[c].at \in {"undo", "stop", "remote"}
        /\ (End(c) \/ \E stage \in {"remote", "local"} : Enter(c, stage))
    BY <1>7 DEF RemoteAnswered
  <2>5. /\ flow' \in [Callers -> FlowType] /\ \A d \in Callers \ {c} : flow'[d] = flow[d]
        /\ flow'[c] = NoFlow \/ \E stage \in {"remote", "local"} : flow'[c] = [flow[c] EXCEPT !.at = stage]
    BY <1>0, <2>4, FlowSteps DEF Unbinds
  <2>6. DrawnFlow(flow[c])'
    BY <1>0, <2>3, <2>4, <2>5 DEF DrawnFlow, NoFlow, Binds, FlowType
  <2>7. Drawn'
    BY <1>d, <2>1, <2>3, <2>5, <2>6 DEF Drawn, RecordsTyped
  <2> QED
    BY <2>2, <2>3, <2>5, <2>7, BindTypeParts
<1>8. CASE UnbindLocal(c)
  <2>1. TypeOK' /\ UNCHANGED indexed
    BY <1>8, <1>v DEF UnbindLocal
  <2>2. /\ meta' \subseteq meta /\ UNCHANGED <<root, record, indexLock, forgotten, commands>>
        /\ flow[c].at = "local" /\ Enter(c, "registry")
    BY <1>8 DEF UnbindLocal
  <2>3. Fresh' = Fresh /\ Bound' = Bound /\ RecordsTyped'
    BY <1>0, <2>2 DEF Fresh, Bound, RecordsTyped
  <2>4. /\ flow' \in [Callers -> FlowType] /\ \A d \in Callers \ {c} : flow'[d] = flow[d]
        /\ flow'[c] = [flow[c] EXCEPT !.at = "registry"]
    BY <1>0, <2>2, FlowSteps DEF Unbinds
  <2>5. DrawnFlow(flow[c])'
    BY <1>0, <2>2, <2>3, <2>4 DEF DrawnFlow, Binds, FlowType
  <2>6. Drawn'
    BY <1>d, <2>1, <2>2, <2>3, <2>4, <2>5 DEF Drawn, RecordsTyped
  <2> QED
    BY <2>1, <2>3, <2>4, <2>6, BindTypeParts
<1>9. CASE UnbindRegistry(c)
  <2>1. TypeOK' /\ UNCHANGED indexed
    BY <1>9, <1>v DEF UnbindRegistry
  <2>2. /\ UNCHANGED <<root, meta, indexLock, forgotten, commands>>
        /\ record' \in {record, [record EXCEPT ![flow[c].id] = NoRecord]} /\ End(c)
    BY <1>9 DEF UnbindRegistry
  <2>3. Fresh' = Fresh /\ Bound' \subseteq Bound /\ RecordsTyped'
    BY <1>0, <2>2 DEF Fresh, Bound, RecordsTyped, NoRecord
  <2>4. flow' \in [Callers -> FlowType] /\ flow'[c] = NoFlow /\ \A d \in Callers \ {c} : flow'[d] = flow[d]
    BY <1>0, <2>2, FlowSteps
  <2>5. DrawnFlow(flow[c])'
    BY <2>4 DEF DrawnFlow, NoFlow, Binds
  <2>6. Drawn'
    BY <1>d, <2>1, <2>2, <2>3, <2>4, <2>5 DEF Drawn, RecordsTyped
  <2> QED
    BY <2>1, <2>3, <2>4, <2>6, BindTypeParts
<1> QED
  BY <1>1, <1>2, <1>3, <1>4, <1>5, <1>6, <1>7, <1>8, <1>9 DEF BindStep

\* Every command keeps the types, and works for a workspace that was drawn.
LEMMA TypedStep ==
    ASSUME Typed, [BindNext]_allVars
    PROVE  Typed'
<1> USE DEF Typed
<1>1. CASE UNCHANGED allVars
  BY <1>1 DEF allVars, vars, bindVars, watcherVars, callVars, BindTypeOK, TypeOK, Drawn, DrawnFlow, Fresh, Bound
<1>2. ASSUME UNCHANGED bindVars, UNCHANGED <<indexed, stored>>, TypeOK'
      PROVE  Typed'
  BY <1>2 DEF bindVars, BindTypeOK, Drawn, DrawnFlow, Fresh, Bound
<1>3. ASSUME NEW c \in Callers, NEW w \in Workspaces, Calls(c, w), UNCHANGED bindVars
      PROVE  Typed'
  BY <1>2, <1>3, WatcherFrame, CallTypes DEF Calls, BindTypeOK
<1>4. CASE ProcStep /\ UNCHANGED bindVars
  BY <1>2, <1>4, WatcherFrame, ProcTypes DEF BindTypeOK
<1> QED
  BY <1>1, <1>3, <1>4, ForgetTypes, BindTypes DEF BindNext

\* The initial state is typed, with nothing drawn.
LEMMA TypedInit == BindInit => Typed
  BY WatcherConstants, BindConstants
     DEF BindInit, WatcherInit, Typed, BindTypeOK, TypeOK, Drawn, DrawnFlow, Fresh, Bound, NoRow, Idle,
         NoFlow, NoRecord, Statuses, Stages, Binds

\* Types, and that every command works for a workspace that was drawn.
THEOREM TypesAndDraws == BindSpec => []Typed
  BY TypedInit, TypedStep, PTL DEF BindSpec

\* BindTypeOK, of every behaviour.
THEOREM BindTypeCorrect == BindSpec => []BindTypeOK
<1>1. Typed => BindTypeOK
  BY DEF Typed
<1> QED
  BY <1>1, TypesAndDraws, PTL

-----------------------------------------------------------------------------
(* Two bindings are never for the same name, directory or remote root.     *)

\* What the checks of a bind settle on: a workspace just drawn, or the one that is
\* bound already.
LEMMA CheckDraws ==
    ASSUME Typed, NEW c \in Callers, BindCheck(c)
    PROVE  /\ UNCHANGED <<vars, record, meta, indexLock, forgotten>>
           /\ flow[c] = NoFlow /\ call[c] = Idle /\ \A d \in Callers \ {c} : flow'[d] = flow[d]
           /\ \E i \in Workspaces :
                /\ flow'[c].at = "register" /\ flow'[c].id = i
                /\ \A j \in Workspaces \ {i} : root'[j] = root[j]
                /\ \/ i \in Fresh /\ i \notin meta /\ ~flow'[c].had /\ flow'[c].created
                   \/ i \in Bound \cap meta /\ root'[i] = root[i] /\ flow'[c].had /\ ~flow'[c].created
<1> USE BindConstants
<1>0. /\ flow \in [Callers -> FlowType] /\ root \in [Workspaces -> Roots \cup {NoName}]
      /\ meta \cap Fresh = {}
  BY BindTypeParts DEF Typed, RecordsTyped
<1>1. PICK name \in Names, local \in Locals, r \in Roots, given \in BOOLEAN :
        LET existing == Candidates(IF given THEN name ELSE NoName, local, r) IN
        /\ given => NameAvailable(name, r)
        /\ ~given /\ existing = {} => \A i \in Bound : record[i].name # name
        /\ ~given /\ existing # {} => \A i \in existing : record[i].name = name
        /\ \E i \in Workspaces :
            /\ IF existing = {}
               THEN i \in Fresh
               ELSE existing = {i} /\ i \in meta /\ root[i] = r
            /\ root' = [root EXCEPT ![i] = r]
            /\ flow' = [flow EXCEPT ![c] =
                  [at |-> "register", id |-> i, name |-> name, local |-> local,
                   had |-> i \in meta, created |-> existing = {}]]
  BY DEF BindCheck
<1> DEFINE existing == Candidates(IF given THEN name ELSE NoName, local, r)
<1>2. PICK i \in Workspaces :
          /\ IF existing = {} THEN i \in Fresh ELSE existing = {i} /\ i \in meta /\ root[i] = r
          /\ root' = [root EXCEPT ![i] = r]
          /\ flow' = [flow EXCEPT ![c] =
                [at |-> "register", id |-> i, name |-> name, local |-> local,
                 had |-> i \in meta, created |-> existing = {}]]
  BY <1>1
<1>3. existing \subseteq Bound
  BY DEF Candidates
<1> HIDE DEF existing
<1> DEFINE entry == [at |-> "register", id |-> i, name |-> name, local |-> local,
                     had |-> i \in meta, created |-> existing = {}]
<1>4. entry \in FlowType /\ entry.at = "register" /\ entry.id = i
      /\ entry.had = (i \in meta) /\ entry.created = (existing = {})
  BY DEF FlowType
<1>5. flow'[c] = entry /\ \A d \in Callers \ {c} : flow'[d] = flow[d]
  BY <1>0, <1>2, <1>4, FlowSteps
<1> HIDE DEF entry
<1>6. /\ \A j \in Workspaces \ {i} : root'[j] = root[j]
      /\ root[i] = r => root'[i] = root[i]
  BY <1>0, <1>2
<1>7. \/ i \in Fresh /\ i \notin meta /\ ~entry.had /\ entry.created
      \/ i \in Bound \cap meta /\ root'[i] = root[i] /\ entry.had /\ ~entry.created
  BY <1>0, <1>2, <1>3, <1>4, <1>6
<1> QED
  BY <1>4, <1>5, <1>6, <1>7 DEF BindCheck, Begin

\* Two bindings stay apart: the register request and the registry's own lock check
\* again what the command looked up before.
LEMMA ApartStep ==
    ASSUME Typed, OneBindingEach, [BindNext]_allVars
    PROVE  OneBindingEach'
<1>0. /\ indexed \subseteq Workspaces /\ root \in [Workspaces -> Roots \cup {NoName}]
      /\ record \in [Workspaces -> [name : Names, local : Locals] \cup {NoRecord}]
      /\ indexed \cap Fresh = {} /\ TypeOK
  BY TypeParts, BindTypeParts DEF Typed, RecordsTyped, Drawn
<1>1. ASSUME UNCHANGED record, indexed' \subseteq indexed, \A i \in indexed : root'[i] = root[i]
      PROVE  OneBindingEach'
  BY <1>1 DEF OneBindingEach, Bound
<1>2. CASE UNCHANGED allVars
  BY <1>1, <1>2 DEF allVars, vars, bindVars
<1>3. CASE UNCHANGED bindVars /\ (ProcStep \/ \E c \in Callers, w \in Workspaces : Calls(c, w))
  BY <1>0, <1>1, <1>3, WatcherFrame DEF bindVars
<1>4. ASSUME NEW c \in Callers, NEW w \in Workspaces, ForgetCalls(c, w)
      PROVE  OneBindingEach'
  BY <1>1, <1>4 DEF ForgetCalls, ForgetAside, ForgetAnswered, ForgetIndex, bindVars
<1>5. ASSUME NEW c \in Callers, BindStep(c)
      PROVE  OneBindingEach'
  <2>1. CASE BindCheck(c)
    <3>1. PICK i \in Workspaces : /\ \A j \in Workspaces \ {i} : root'[j] = root[j]
                                  /\ i \in Fresh \/ root'[i] = root[i]
      BY <1>5, <2>1, CheckDraws
    <3> QED
      BY <1>0, <1>1, <2>1, <3>1 DEF BindCheck, vars
  <2>2. CASE BindRegister(c)
    <3>1. UNCHANGED <<record, root>>
      BY <2>2 DEF BindRegister
    <3>2. CASE UNCHANGED indexed
      BY <1>1, <3>1, <3>2
    <3>3. CASE ~RootTaken(flow[c].id) /\ indexed' = indexed \cup {flow[c].id}
      BY <3>1, <3>3 DEF OneBindingEach, RootTaken, Bound
    <3> QED
      BY <2>2, <3>2, <3>3 DEF BindRegister, RegisterRemote
  <2>3. CASE BindUpsert(c)
    <3> DEFINE i == flow[c].id
               new == [name |-> flow[c].name, local |-> flow[c].local]
    <3>1. UNCHANGED <<indexed, root>>
      BY <2>3 DEF BindUpsert
    <3>2. CASE UNCHANGED record
      BY <1>1, <3>1, <3>2
    <3>3. CASE ~UpsertConflict(c) /\ record' = [record EXCEPT ![i] = new]
      <4>1. \A j \in Workspaces : record'[j] = IF j = i THEN new ELSE record[j]
        BY <1>0, <3>3
      <4>2. \A j \in Bound \ {i} : record[j].name # new.name /\ record[j].local # new.local
        BY <3>3 DEF UpsertConflict
      <4> HIDE DEF new
      <4>3. \A j \in Bound' \ {i} : j \in Bound /\ record'[j] = record[j]
        BY <4>1 DEF Bound
      <4>4. i \in Bound' => record'[i] = new
        BY <4>1 DEF Bound
      <4> QED
        BY <3>1, <4>2, <4>3, <4>4 DEF OneBindingEach
    <3> QED
      BY <2>3, <3>2, <3>3 DEF BindUpsert
  <2>4. CASE UnbindRegistry(c)
    <3>1. UNCHANGED <<indexed, root>>
      BY <2>4 DEF UnbindRegistry, vars
    <3>2. \A j \in Bound' : j \in Bound /\ record'[j] = record[j]
      BY <1>0, <2>4 DEF UnbindRegistry, Bound
    <3> QED
      BY <3>1, <3>2 DEF OneBindingEach
  <2>5. CASE BindWrite(c) \/ BindRollback(c) \/ UnbindBegin(c) \/ RemoteAnswered(c) \/ UnbindLocal(c)
    BY <1>1, <2>5 DEF BindWrite, BindRollback, UnbindBegin, RemoteAnswered, UnbindLocal, vars
  <2> QED
    BY <1>5, <2>1, <2>2, <2>3, <2>4, <2>5 DEF BindStep
<1> QED
  BY <1>2, <1>3, <1>4, <1>5 DEF BindNext

\* OneBindingEach: two command lines that both found a name, a directory or a remote
\* root unused never both bind it.
THEOREM BindingsApart == BindSpec => []OneBindingEach
<1>1. BindInit => OneBindingEach
  BY DEF BindInit, OneBindingEach, Bound
<1>2. Typed /\ OneBindingEach /\ [BindNext]_allVars => OneBindingEach'
  BY ApartStep
<1> QED
  BY <1>1, <1>2, TypesAndDraws, PTL DEF BindSpec

-----------------------------------------------------------------------------
(* What an agent is asked belongs to the command that asks.                *)

\* How a request ends or goes on, variable by variable.
LEMMA RequestEffects ==
    ASSUME CallersTyped, NEW c \in Callers, NEW w \in Workspaces
    PROVE  /\ \A answer : Answer(c, answer) =>
                 /\ UNCHANGED <<lock, call>> /\ reply'[c] = answer
                 /\ \A d \in Callers \ {c} : reply'[d] = reply[d]
           /\ \A answer : Finish(c, w, answer) =>
                 /\ call'[c] = Idle /\ reply'[c] = answer /\ lock'[w] = Free
                 /\ \A d \in Callers \ {c} : call'[d] = call[d] /\ reply'[d] = reply[d]
                 /\ \A v \in Workspaces \ {w} : lock'[v] = lock[v]
           /\ \A verb, g : Hold(c, w, verb, g) =>
                 /\ call'[c] = [verb |-> verb, of |-> g] /\ reply'[c] = "none" /\ lock'[w] = c
                 /\ \A d \in Callers \ {c} : call'[d] = call[d] /\ reply'[d] = reply[d]
                 /\ \A v \in Workspaces \ {w} : lock'[v] = lock[v]
<1> USE DEF CallersTyped
<1>1. ASSUME NEW answer, Answer(c, answer)
      PROVE  /\ UNCHANGED <<lock, call>> /\ reply'[c] = answer
             /\ \A d \in Callers \ {c} : reply'[d] = reply[d]
  BY <1>1 DEF Answer
<1>2. ASSUME NEW answer, Finish(c, w, answer)
      PROVE  /\ call'[c] = Idle /\ reply'[c] = answer /\ lock'[w] = Free
             /\ \A d \in Callers \ {c} : call'[d] = call[d] /\ reply'[d] = reply[d]
             /\ \A v \in Workspaces \ {w} : lock'[v] = lock[v]
  BY <1>2 DEF Finish
<1>3. ASSUME NEW verb, NEW g, Hold(c, w, verb, g)
      PROVE  /\ call'[c] = [verb |-> verb, of |-> g] /\ reply'[c] = "none" /\ lock'[w] = c
             /\ \A d \in Callers \ {c} : call'[d] = call[d] /\ reply'[d] = reply[d]
             /\ \A v \in Workspaces \ {w} : lock'[v] = lock[v]
  BY <1>3 DEF Hold
<1> QED
  BY <1>1, <1>2, <1>3

\* A caller that takes no part in a step still belongs to its command.
LEMMA StillBelongs ==
    ASSUME NEW d \in Callers, Belongs(d),
           call'[d] = call[d], reply'[d] = reply[d], flow'[d] = flow[d],
           \A w \in Workspaces : lock'[w] = d => lock[w] = d,
           EverBound \subseteq EverBound',
           call[d].verb = "forget" => indexLock' = indexLock /\ stored' \subseteq stored
    PROVE  Belongs(d)'
  BY DEF Belongs

\* One that asks no agent may go on to any stage of its command.
LEMMA FreeToMove ==
    ASSUME NEW c \in Callers, Belongs(c),
           flow[c].at \notin {"undo", "stop", "remote"},
           UNCHANGED <<call, reply, lock>>, EverBound \subseteq EverBound'
    PROVE  Belongs(c)'
  BY DEF Belongs

\* A request that ends leaves its caller without a lock.
LEMMA FinishBelongs ==
    ASSUME CallersTyped, NEW c \in Callers, NEW w \in Workspaces, Belongs(c), lock[w] = c,
           NEW answer, Finish(c, w, answer), flow'[c] = flow[c],
           answer # "none" => flow[c].at \in {"undo", "stop", "remote"}
    PROVE  Belongs(c)'
<1>1. /\ call'[c] = Idle /\ reply'[c] = answer
      /\ \A v \in Workspaces : lock'[v] # c
  BY RequestEffects, WatcherConstants DEF Belongs
<1> QED
  BY <1>1 DEF Belongs, Idle

\* A request that goes on holds one lock, which it did not hold before.
LEMMA HoldBelongs ==
    ASSUME CallersTyped, NEW c \in Callers, NEW w \in Workspaces, Belongs(c), call[c] = Idle,
           NEW verb \in {"start", "stop", "forget"}, NEW g, Hold(c, w, verb, g), flow'[c] = flow[c],
           verb = "start" => w \in EverBound',
           verb = "stop" => flow[c].at = "stop" /\ flow[c].id = w,
           verb = "forget" => /\ flow[c].at \in {"remote", "undo"} /\ flow[c].id = w
                              /\ indexLock' = c /\ w \notin stored'
    PROVE  Belongs(c)'
<1>0. \A v \in Workspaces : lock[v] # c
  BY DEF Belongs, Idle
<1>1. /\ call'[c] = [verb |-> verb, of |-> g] /\ call'[c].verb = verb /\ reply'[c] = "none"
      /\ \A v \in Workspaces : lock'[v] = c => v = w
  <2>1. /\ call'[c] = [verb |-> verb, of |-> g] /\ reply'[c] = "none"
        /\ \A v \in Workspaces \ {w} : lock'[v] = lock[v]
    BY RequestEffects
  <2> QED
    BY <1>0, <2>1
<1>2. CASE verb = "start"
  BY <1>1, <1>2 DEF Belongs
<1>3. CASE verb = "stop"
  BY <1>1, <1>3 DEF Belongs
<1>4. CASE verb = "forget"
  BY <1>1, <1>4 DEF Belongs
<1> QED
  BY <1>2, <1>3, <1>4

\* The calls of agents keep what belongs together.
LEMMA CallsKeepBelonging ==
    ASSUME Typed, CallsBelong, NEW c \in Callers, NEW w \in Workspaces, Calls(c, w), UNCHANGED bindVars
    PROVE  CallsBelong'
<1> USE WatcherConstants
<1>0. /\ CallersTyped /\ TypeOK /\ UNCHANGED <<flow, indexLock, stored>> /\ EverBound' = EverBound
  BY WatcherFrame, TypeParts, BindTypeParts DEF Typed, bindVars, EverBound, Bound
<1>b. Belongs(c) /\ \A d \in Callers : Belongs(d)
  BY DEF CallsBelong
<1>1. \/ \E answer : Answer(c, answer) /\ flow[c].at = "stop"
      \/ \E answer : Finish(c, w, answer) /\ lock[w] = c
                     /\ (answer # "none" => flow[c].at \in {"undo", "stop", "remote"})
      \/ \E g : Hold(c, w, "start", g) /\ Ready(c, w) /\ w \in EverBound
      \/ \E g : Hold(c, w, "stop", g) /\ Ready(c, w) /\ flow[c].at = "stop" /\ flow[c].id = w
      \/ /\ call' = [call EXCEPT ![c].verb = "settle"] /\ UNCHANGED <<lock, reply>>
         /\ call[c].verb = "start" /\ lock[w] = c
      \/ UNCHANGED <<lock, call, reply>>
  <2>1. CASE StartSpawn(c, w) /\ w \in Bound
    BY <2>1 DEF StartSpawn, EverBound
  <2>2. CASE StartRecord(c, w)
    BY <2>2 DEF StartRecord
  <2>3. CASE StartSettle(c, w)
    BY <2>3 DEF StartSettle
  <2>4. CASE StopUnsignalled(c, w) /\ flow[c].at = "stop"
    BY <2>4 DEF StopUnsignalled
  <2>5. CASE StopSignal(c, w) /\ flow[c].at = "stop" /\ flow[c].id = w
    BY <2>5 DEF StopSignal
  <2>6. CASE StopPolled(c, w)
    <3>1. call[c].verb = "stop" /\ lock[w] = c /\ \E answer : Finish(c, w, answer)
      BY <2>6 DEF StopPolled
    <3> QED
      BY <1>b, <3>1 DEF Belongs
  <2>7. CASE Status(c, w)
    BY <2>7 DEF Status, callVars
  <2>8. CASE CallerKilled(c, w)
    <3>1. lock[w] = c /\ Finish(c, w, IF call[c].verb = "stop" THEN "error" ELSE "none")
      BY <2>8 DEF CallerKilled
    <3>2. CASE call[c].verb = "stop"
      BY <1>b, <3>1, <3>2 DEF Belongs
    <3>3. CASE call[c].verb # "stop"
      BY <3>1, <3>3
    <3> QED
      BY <3>2, <3>3
  <2> QED
    BY <2>1, <2>2, <2>3, <2>4, <2>5, <2>6, <2>7, <2>8 DEF Calls
<1>2. /\ \A d \in Callers \ {c} : call'[d] = call[d] /\ reply'[d] = reply[d]
      /\ \A d \in Callers \ {c}, v \in Workspaces : lock'[v] = d => lock[v] = d
  <2>1. CASE \E answer : Answer(c, answer) \/ Finish(c, w, answer)
    BY <1>0, <2>1, RequestEffects
  <2>2. CASE \E g : Hold(c, w, "start", g) \/ Hold(c, w, "stop", g)
    BY <1>0, <2>2, RequestEffects
  <2>3. CASE /\ call' = [call EXCEPT ![c].verb = "settle"] /\ UNCHANGED <<lock, reply>>
    BY <1>0, <2>3 DEF CallersTyped
  <2>4. CASE UNCHANGED <<lock, call, reply>>
    BY <2>4
  <2> QED
    BY <1>1, <2>1, <2>2, <2>3, <2>4
<1>3. \A d \in Callers \ {c} : Belongs(d)'
  BY <1>0, <1>2, <1>b, StillBelongs
<1>4. Belongs(c)'
  <2>1. ASSUME NEW answer, Answer(c, answer), flow[c].at = "stop"
        PROVE  Belongs(c)'
    <3>1. UNCHANGED <<lock, call>>
      BY <1>0, <2>1, RequestEffects
    <3> QED
      BY <1>0, <1>b, <2>1, <3>1 DEF Belongs
  <2>2. ASSUME /\ call' = [call EXCEPT ![c].verb = "settle"] /\ UNCHANGED <<lock, reply>>
               /\ call[c].verb = "start" /\ lock[w] = c
        PROVE  Belongs(c)'
    <3>1. call'[c].verb = "settle"
      BY <1>0, <2>2 DEF CallersTyped, CallType
    <3> QED
      BY <1>0, <1>b, <2>2, <3>1 DEF Belongs
  <2>3. CASE UNCHANGED <<lock, call, reply>>
    BY <1>0, <1>b, <2>3 DEF Belongs
  <2>4. ASSUME NEW g, Hold(c, w, "start", g), Ready(c, w), w \in EverBound
        PROVE  Belongs(c)'
    BY <1>0, <1>b, <2>4, HoldBelongs DEF Ready
  <2>5. ASSUME NEW g, Hold(c, w, "stop", g), Ready(c, w), flow[c].at = "stop", flow[c].id = w
        PROVE  Belongs(c)'
    BY <1>0, <1>b, <2>5, HoldBelongs DEF Ready
  <2>6. ASSUME NEW answer, Finish(c, w, answer), lock[w] = c,
               answer # "none" => flow[c].at \in {"undo", "stop", "remote"}
        PROVE  Belongs(c)'
    BY <1>0, <1>b, <2>6, FinishBelongs
  <2> QED
    BY <1>1, <2>1, <2>2, <2>3, <2>4, <2>5, <2>6
<1> QED
  BY <1>3, <1>4 DEF CallsBelong

\* What every command knows of the variables.
LEMMA BindingsUnfold ==
    ASSUME Bindings
    PROVE  /\ TypeOK /\ CallersTyped /\ RecordsTyped /\ flow \in [Callers -> FlowType]
           /\ indexed \subseteq Workspaces /\ stored \subseteq Workspaces
           /\ \A c \in Callers : Belongs(c) /\ (DrewIt(c) => IsAlone(c)) /\ Keeps(c) /\ DrawnFlow(flow[c])
           /\ Bound \cap Fresh = {} /\ forgotten \cap Fresh = {} /\ Bound \subseteq Workspaces
  BY TypeParts, BindTypeParts
     DEF Bindings, Typed, CallsBelong, NewIsAlone, FlowsKeep, Drawn, RecordsTyped, Bound

\* A workspace that was once bound counts as bound for good.
LEMMA EverBoundGrows ==
    ASSUME Bindings, [BindNext]_allVars
    PROVE  EverBound \subseteq EverBound' /\ forgotten \subseteq forgotten'
<1>0. /\ record \in [Workspaces -> [name : Names, local : Locals] \cup {NoRecord}]
      /\ flow \in [Callers -> FlowType]
      /\ \A c \in Callers : Keeps(c) /\ DrawnFlow(flow[c])
  BY BindingsUnfold DEF RecordsTyped
<1>1. ASSUME UNCHANGED record, forgotten \subseteq forgotten'
      PROVE  EverBound \subseteq EverBound' /\ forgotten \subseteq forgotten'
  BY <1>1 DEF EverBound, Bound
<1>2. CASE UNCHANGED allVars \/ UNCHANGED bindVars
  BY <1>1, <1>2 DEF allVars, bindVars
<1>3. ASSUME NEW c \in Callers, NEW w \in Workspaces, ForgetCalls(c, w)
      PROVE  EverBound \subseteq EverBound' /\ forgotten \subseteq forgotten'
  BY <1>1, <1>3 DEF ForgetCalls, ForgetAside, ForgetAnswered, ForgetIndex, bindVars
<1>4. ASSUME NEW c \in Callers, BindStep(c)
      PROVE  EverBound \subseteq EverBound' /\ forgotten \subseteq forgotten'
  <2>1. CASE BindUpsert(c)
    <3>1. UNCHANGED forgotten /\ flow[c].name \in Names
      BY <1>0, <2>1 DEF BindUpsert, DrawnFlow, Binds
    <3>2. CASE UNCHANGED record
      BY <1>1, <3>1, <3>2
    <3>3. CASE record' = [record EXCEPT ![flow[c].id] = [name |-> flow[c].name, local |-> flow[c].local]]
      <4>1. \A i \in Bound : record'[i] # NoRecord
        BY <1>0, <3>1, <3>3, BindConstants DEF Bound, NoRecord
      <4> QED
        BY <3>1, <4>1 DEF EverBound, Bound
    <3> QED
      BY <2>1, <3>2, <3>3 DEF BindUpsert
  <2>2. CASE UnbindRegistry(c)
    <3>1. UNCHANGED forgotten /\ flow[c].id \in forgotten
      BY <1>0, <2>2 DEF UnbindRegistry, Keeps, Unbinds
    <3>2. \A i \in Workspaces \ {flow[c].id} : record'[i] = record[i]
      BY <1>0, <2>2 DEF UnbindRegistry
    <3> QED
      BY <3>1, <3>2 DEF EverBound, Bound
  <2>3. CASE BindCheck(c) \/ BindRegister(c) \/ BindWrite(c) \/ BindRollback(c) \/ UnbindBegin(c)
             \/ RemoteAnswered(c) \/ UnbindLocal(c)
    BY <1>1, <2>3 DEF BindCheck, BindRegister, BindWrite, BindRollback, UnbindBegin, RemoteAnswered, UnbindLocal
  <2> QED
    BY <1>4, <2>1, <2>2, <2>3 DEF BindStep
<1> QED
  BY <1>2, <1>3, <1>4 DEF BindNext

\* What a request to forget may take away is the workspace of its command, which the
\* command began to forget or drew itself.
LEMMA ForgetEffects ==
    ASSUME Bindings, NEW c \in Callers, NEW i \in Workspaces, ForgetCalls(c, i)
    PROVE  /\ UNCHANGED <<root, record, meta, flow, forgotten>>
           /\ flow[c].id = i /\ (i \in forgotten \/ IsAlone(c))
           /\ stored' \subseteq stored /\ indexed' \subseteq indexed
           /\ stored \ {i} \subseteq stored' /\ indexed \ {i} \subseteq indexed'
           /\ \/ UNCHANGED <<lock, call, indexLock>> /\ \E answer : Answer(c, answer) /\ reply[c] = "none"
                 /\ flow[c].at \in {"remote", "undo"}
              \/ /\ Hold(c, i, "forget", NoGen) /\ Ready(c, i) /\ indexLock = Free /\ indexLock' = c
                 /\ i \notin stored' /\ flow[c].at \in {"remote", "undo"}
              \/ call[c].verb = "forget" /\ lock[i] = c /\ \E answer : Finish(c, i, answer)
<1>1. flow[c].at \in {"remote", "undo"} /\ flow[c].id = i
  <2>1. CASE call[c].verb = "forget" /\ lock[i] = c
    BY <2>1, BindingsUnfold DEF Belongs
  <2> QED
    BY <2>1 DEF ForgetCalls, ForgetIndex
<1>2. i \in forgotten \/ IsAlone(c)
  BY <1>1, BindingsUnfold DEF Keeps, DrewIt, Unbinds
<1> QED
  BY <1>1, <1>2 DEF ForgetCalls, ForgetAside, ForgetAnswered, ForgetIndex, Answer, bindVars

\* Requests to forget keep what belongs together.
LEMMA ForgetKeepsBelonging ==
    ASSUME Bindings, NEW c \in Callers, NEW i \in Workspaces, ForgetCalls(c, i)
    PROVE  CallsBelong'
<1> USE WatcherConstants
<1>0. /\ CallersTyped /\ UNCHANGED flow /\ EverBound' = EverBound /\ stored' \subseteq stored
      /\ \A d \in Callers : Belongs(d)
  BY BindingsUnfold, ForgetEffects DEF EverBound, Bound
<1>1. CASE /\ UNCHANGED <<lock, call, indexLock>> /\ \E answer : Answer(c, answer) /\ reply[c] = "none"
           /\ flow[c].at \in {"remote", "undo"}
  <2>1. \A d \in Callers \ {c} : reply'[d] = reply[d]
    BY <1>0, <1>1, RequestEffects
  <2>2. \A d \in Callers \ {c} : Belongs(d)'
    BY <1>0, <1>1, <2>1, StillBelongs
  <2>3. Belongs(c)'
    BY <1>0, <1>1 DEF Belongs
  <2> QED
    BY <2>2, <2>3 DEF CallsBelong
<1>2. CASE /\ Hold(c, i, "forget", NoGen) /\ Ready(c, i) /\ indexLock = Free /\ indexLock' = c
           /\ i \notin stored' /\ flow[c].at \in {"remote", "undo"}
  <2>1. /\ \A d \in Callers \ {c} : call'[d] = call[d] /\ reply'[d] = reply[d]
        /\ \A d \in Callers \ {c}, v \in Workspaces : lock'[v] = d => lock[v] = d
    <3>1. /\ lock'[i] = c /\ \A v \in Workspaces \ {i} : lock'[v] = lock[v]
          /\ \A d \in Callers \ {c} : call'[d] = call[d] /\ reply'[d] = reply[d]
      BY <1>0, <1>2, RequestEffects
    <3> QED
      BY <3>1
  <2>2. \A d \in Callers : call[d].verb # "forget"
    BY <1>0, <1>2 DEF Belongs
  <2>3. \A d \in Callers \ {c} : Belongs(d)'
    BY <1>0, <1>2, <2>1, <2>2, StillBelongs
  <2>4. flow[c].id = i
    BY ForgetEffects
  <2>5. Belongs(c)'
    BY <1>0, <1>2, <2>4, HoldBelongs DEF Ready
  <2> QED
    BY <2>3, <2>5 DEF CallsBelong
<1>3. ASSUME call[c].verb = "forget", lock[i] = c, NEW answer, Finish(c, i, answer)
      PROVE  CallsBelong'
  <2>1. /\ \A d \in Callers \ {c} : call'[d] = call[d] /\ reply'[d] = reply[d]
        /\ \A d \in Callers \ {c}, v \in Workspaces : lock'[v] = d => lock[v] = d
    BY <1>0, <1>3, RequestEffects
  <2>2. \A d \in Callers \ {c} : call[d].verb # "forget"
    BY <1>0, <1>3 DEF Belongs
  <2>3. \A d \in Callers \ {c} : Belongs(d)'
    BY <1>0, <2>1, <2>2, StillBelongs
  <2>4. flow[c].at \in {"remote", "undo"}
    BY <1>0, <1>3 DEF Belongs
  <2>5. Belongs(c)'
    BY <1>0, <1>3, <2>4, FinishBelongs
  <2> QED
    BY <2>3, <2>5 DEF CallsBelong
<1> QED
  BY <1>1, <1>2, <1>3, ForgetEffects

\* So do the commands: one that asks an agent waits for its answer.
LEMMA BindKeepsBelonging ==
    ASSUME Bindings, NEW c \in Callers, BindStep(c)
    PROVE  CallsBelong'
<1>0. /\ CallersTyped /\ flow \in [Callers -> FlowType] /\ \A d \in Callers : Belongs(d)
      /\ EverBound \subseteq EverBound'
  BY BindingsUnfold, EverBoundGrows DEF BindNext
<1>1. /\ UNCHANGED <<call, lock, indexLock>> /\ \A d \in Callers \ {c} : reply'[d] = reply[d]
      /\ stored' = stored \/ indexLock = Free
  BY <1>0 DEF BindStep, BindCheck, BindRegister, RegisterRemote, BindWrite, BindUpsert, BindRollback,
              UnbindBegin, RemoteAnswered, UnbindLocal, UnbindRegistry, vars, callVars, CallersTyped
<1>2. \A d \in Callers \ {c} : flow'[d] = flow[d]
  <2>1. CASE BindCheck(c)
    BY <2>1, CheckDraws DEF Bindings
  <2>2. CASE BindRegister(c) \/ BindWrite(c) \/ BindUpsert(c) \/ BindRollback(c)
    BY <1>0, <2>2 DEF BindRegister, BindWrite, BindUpsert, BindRollback, Enter, End
  <2>3. CASE UnbindBegin(c) \/ RemoteAnswered(c) \/ UnbindLocal(c) \/ UnbindRegistry(c)
    BY <1>0, <2>3 DEF UnbindBegin, RemoteAnswered, UnbindLocal, UnbindRegistry, Enter, End
  <2> QED
    BY <2>1, <2>2, <2>3 DEF BindStep
<1>3. \A d \in Callers : call[d].verb = "forget" => stored' = stored
  BY <1>0, <1>1, WatcherConstants DEF Belongs
<1>4. \A d \in Callers \ {c} : Belongs(d)'
  BY <1>0, <1>1, <1>2, <1>3, StillBelongs
<1>5. Belongs(c)'
  <2>1. CASE RemoteAnswered(c)
    <3>1. call[c].verb = "none" /\ reply'[c] = "none"
      BY <1>0, <2>1 DEF RemoteAnswered, CallersTyped, Idle
    <3>2. \A v \in Workspaces : lock[v] # c
      BY <1>0, <3>1 DEF Belongs
    <3>3. call'[c].verb = "none" /\ \A v \in Workspaces : lock'[v] # c
      BY <1>1, <3>1, <3>2
    <3> QED
      BY <3>1, <3>3 DEF Belongs
  <2>2. CASE ~RemoteAnswered(c)
    <3>1. flow[c].at \notin {"undo", "stop", "remote"} /\ UNCHANGED reply
      <4>1. CASE BindCheck(c) \/ UnbindBegin(c)
        <5>1. flow[c] = NoFlow /\ UNCHANGED vars
          BY <4>1, CheckDraws DEF UnbindBegin, Begin, Bindings
        <5> QED
          BY <5>1 DEF NoFlow, vars, callVars
      <4>2. CASE BindRegister(c) \/ BindWrite(c) \/ BindUpsert(c)
        BY <4>2 DEF BindRegister, BindWrite, BindUpsert, callVars
      <4>3. CASE BindRollback(c) \/ UnbindLocal(c) \/ UnbindRegistry(c)
        BY <4>3 DEF BindRollback, UnbindLocal, UnbindRegistry, vars, callVars
      <4> QED
        BY <2>2, <4>1, <4>2, <4>3 DEF BindStep
    <3> QED
      BY <1>0, <1>1, <3>1, FreeToMove
  <2> QED
    BY <2>1, <2>2
<1> QED
  BY <1>4, <1>5 DEF CallsBelong

-----------------------------------------------------------------------------
(* Commands do not take from each other.                                   *)

\* How a command moves: which stage follows which, and that only the checks of a
\* bind and the begin of a forget choose a workspace.
LEMMA Moves ==
    ASSUME flow \in [Callers -> FlowType], NEW c \in Callers
    PROVE  /\ BindRegister(c) \/ BindWrite(c) \/ BindUpsert(c) \/ BindRollback(c) \/ UnbindBegin(c)
              \/ RemoteAnswered(c) \/ UnbindLocal(c) \/ UnbindRegistry(c) =>
                  \A d \in Callers \ {c} : flow'[d] = flow[d]
           /\ BindRegister(c) => /\ flow'[c].id = flow[c].id /\ flow'[c].had = flow[c].had
                                 /\ \/ flow'[c].at = "write" /\ flow'[c].created = flow[c].created
                                       /\ RegisterRemote(flow[c].id)
                                    \/ flow'[c].at = "rollback" /\ flow'[c].created = FALSE
           /\ BindWrite(c) => /\ flow'[c].id = flow[c].id /\ flow'[c].had = flow[c].had
                              /\ flow'[c].created = flow[c].created
                              /\ flow'[c].at \in {"upsert", "rollback"}
           /\ BindUpsert(c) => \/ /\ flow'[c] = NoFlow
                                  /\ record' = [record EXCEPT ![flow[c].id] =
                                                  [name |-> flow[c].name, local |-> flow[c].local]]
                               \/ /\ flow'[c].id = flow[c].id /\ flow'[c].had = flow[c].had
                                  /\ flow'[c].created = flow[c].created
                                  /\ flow'[c].at = "rollback" /\ UNCHANGED record
           /\ BindRollback(c) => \/ flow'[c] = NoFlow /\ ~flow[c].created
                                 \/ flow'[c].at = "undo" /\ flow'[c].id = flow[c].id /\ flow[c].created
           /\ UnbindBegin(c) => /\ flow'[c].at \in {"local", "stop"} /\ flow'[c].id \in Bound
                                /\ forgotten' = forgotten \cup {flow'[c].id}
           /\ RemoteAnswered(c) => \/ flow'[c] = NoFlow
                                   \/ /\ flow'[c].id = flow[c].id /\ flow[c].at \in {"stop", "remote"}
                                      /\ flow'[c].at \in {"remote", "local"}
           /\ UnbindLocal(c) => flow'[c].id = flow[c].id /\ flow'[c].at = "registry"
           /\ UnbindRegistry(c) => flow'[c] = NoFlow
<1>0. flow[c] \in FlowType
  OBVIOUS
<1>1. ASSUME BindRegister(c)
      PROVE  /\ \A d \in Callers \ {c} : flow'[d] = flow[d]
             /\ flow'[c].id = flow[c].id /\ flow'[c].had = flow[c].had
             /\ \/ flow'[c].at = "write" /\ flow'[c].created = flow[c].created
                   /\ RegisterRemote(flow[c].id)
                \/ flow'[c].at = "rollback" /\ flow'[c].created = FALSE
  <2>1. CASE Enter(c, "write") /\ RegisterRemote(flow[c].id)
    BY <1>0, <2>1 DEF Enter, FlowType
  <2>2. CASE flow' = [flow EXCEPT ![c].at = "rollback", ![c].created = FALSE]
    BY <1>0, <2>2 DEF FlowType
  <2> QED
    BY <1>1, <2>1, <2>2 DEF BindRegister
<1>2. ASSUME BindWrite(c)
      PROVE  /\ \A d \in Callers \ {c} : flow'[d] = flow[d]
             /\ flow'[c].id = flow[c].id /\ flow'[c].had = flow[c].had
             /\ flow'[c].created = flow[c].created
             /\ flow'[c].at \in {"upsert", "rollback"}
  BY <1>0, <1>2 DEF BindWrite, Enter, FlowType
<1>3. ASSUME BindUpsert(c)
      PROVE  /\ \A d \in Callers \ {c} : flow'[d] = flow[d]
             /\ \/ /\ flow'[c] = NoFlow
                   /\ record' = [record EXCEPT ![flow[c].id] =
                                   [name |-> flow[c].name, local |-> flow[c].local]]
                \/ /\ flow'[c].id = flow[c].id /\ flow'[c].had = flow[c].had
                   /\ flow'[c].created = flow[c].created
                   /\ flow'[c].at = "rollback" /\ UNCHANGED record
  <2>1. CASE Enter(c, "rollback") /\ UNCHANGED record
    BY <1>0, <2>1 DEF Enter, FlowType
  <2>2. CASE /\ End(c)
             /\ record' = [record EXCEPT ![flow[c].id] =
                             [name |-> flow[c].name, local |-> flow[c].local]]
    BY <2>2, FlowSteps
  <2> QED
    BY <1>3, <2>1, <2>2 DEF BindUpsert
<1>4. ASSUME BindRollback(c)
      PROVE  /\ \A d \in Callers \ {c} : flow'[d] = flow[d]
             /\ \/ flow'[c] = NoFlow /\ ~flow[c].created
                \/ flow'[c].at = "undo" /\ flow'[c].id = flow[c].id /\ flow[c].created
  BY <1>0, <1>4 DEF BindRollback, End, NoFlow
<1>5. ASSUME UnbindBegin(c)
      PROVE  /\ \A d \in Callers \ {c} : flow'[d] = flow[d]
             /\ flow'[c].at \in {"local", "stop"} /\ flow'[c].id \in Bound
             /\ forgotten' = forgotten \cup {flow'[c].id}
  BY <1>0, <1>5 DEF UnbindBegin, FlowType
<1>6. ASSUME RemoteAnswered(c)
      PROVE  /\ \A d \in Callers \ {c} : flow'[d] = flow[d]
             /\ \/ flow'[c] = NoFlow
                \/ /\ flow'[c].id = flow[c].id /\ flow[c].at \in {"stop", "remote"}
                   /\ flow'[c].at \in {"remote", "local"}
  BY <1>0, <1>6 DEF RemoteAnswered, Enter, End, FlowType
<1>7. ASSUME UnbindLocal(c)
      PROVE  /\ \A d \in Callers \ {c} : flow'[d] = flow[d]
             /\ flow'[c].id = flow[c].id /\ flow'[c].at = "registry"
  BY <1>0, <1>7 DEF UnbindLocal, Enter, FlowType
<1>8. ASSUME UnbindRegistry(c)
      PROVE  /\ \A d \in Callers \ {c} : flow'[d] = flow[d]
             /\ flow'[c] = NoFlow
  BY <1>8 DEF UnbindRegistry, End
<1> QED
  BY <1>1, <1>2, <1>3, <1>4, <1>5, <1>6, <1>7, <1>8

\* The steps of the watchers and of the agents leave the commands where they are.
LEMMA NoMove ==
    ASSUME Bindings,
           \/ UNCHANGED allVars
           \/ UNCHANGED bindVars /\ (ProcStep \/ \E c \in Callers, w \in Workspaces : Calls(c, w))
           \/ \E c \in Callers, w \in Workspaces : ForgetCalls(c, w)
    PROVE  UNCHANGED <<flow, root, record, meta, forgotten>> /\ EverBound' = EverBound /\ Bound' = Bound
<1>1. UNCHANGED <<flow, root, record, meta, forgotten>>
  BY ForgetEffects DEF allVars, bindVars
<1> QED
  BY <1>1 DEF EverBound, Bound

\* A command that drew its workspace stays alone with it.
LEMMA AloneStep ==
    ASSUME Bindings, [BindNext]_allVars
    PROVE  NewIsAlone'
<1>0. /\ flow \in [Callers -> FlowType] /\ RecordsTyped
      /\ \A c \in Callers : (DrewIt(c) => IsAlone(c)) /\ Keeps(c) /\ DrawnFlow(flow[c])
      /\ Bound \cap Fresh = {} /\ forgotten \cap Fresh = {}
      /\ \A c \in Callers : DrewIt(c) => flow[c].id \in Workspaces \ Fresh
  BY BindingsUnfold DEF DrewIt, DrawnFlow, Binds
<1>1. ASSUME UNCHANGED flow, EverBound' = EverBound
      PROVE  NewIsAlone'
  BY <1>0, <1>1 DEF NewIsAlone, DrewIt, IsAlone
<1>2. ASSUME NEW c \in Callers, \A d \in Callers \ {c} : flow'[d] = flow[d],
             flow'[c].id \in {flow[c].id, NoName} \cup Bound \cup Fresh,
             EverBound' \subseteq EverBound \cup {flow[c].id},
             DrewIt(c)' => IsAlone(c)'
      PROVE  NewIsAlone'
  <2>1. ASSUME NEW d \in Callers \ {c}, DrewIt(d)'
        PROVE  IsAlone(d)'
    <3>1. DrewIt(d) /\ IsAlone(d) /\ flow'[d] = flow[d] /\ flow[d].id \in Workspaces \ Fresh
      BY <1>0, <1>2, <2>1 DEF DrewIt
    <3>2. flow[d].id \notin EverBound'
      BY <1>2, <3>1 DEF IsAlone
    <3>3. flow'[c].id # flow[d].id
      BY <1>2, <3>1, BindConstants DEF IsAlone, EverBound
    <3> QED
      BY <1>2, <3>1, <3>2, <3>3 DEF IsAlone
  <2> QED
    BY <1>2, <2>1 DEF NewIsAlone
<1>3. ASSUME NEW c \in Callers, \A d \in Callers \ {c} : flow'[d] = flow[d],
             flow'[c].id = flow[c].id, EverBound' = EverBound, DrewIt(c)' => DrewIt(c)
      PROVE  NewIsAlone'
  BY <1>0, <1>2, <1>3 DEF IsAlone
<1>4. ASSUME NEW c \in Callers, \A d \in Callers \ {c} : flow'[d] = flow[d],
             flow'[c] = NoFlow, EverBound' \subseteq EverBound \cup {flow[c].id}
      PROVE  NewIsAlone'
  BY <1>2, <1>4 DEF NoFlow, DrewIt, Binds
<1>5. ASSUME NEW c \in Callers, BindStep(c)
      PROVE  NewIsAlone'
  <2>0. UNCHANGED <<record, forgotten>> => EverBound' = EverBound
    BY DEF EverBound, Bound
  <2>1. CASE BindCheck(c)
    <3>1. /\ flow[c] = NoFlow /\ \A d \in Callers \ {c} : flow'[d] = flow[d]
          /\ EverBound' = EverBound
      BY <2>0, <2>1, CheckDraws DEF Bindings
    <3>2. PICK i \in Workspaces :
                /\ flow'[c].at = "register" /\ flow'[c].id = i
                /\ \/ i \in Fresh /\ i \notin meta /\ ~flow'[c].had /\ flow'[c].created
                   \/ i \in Bound \cap meta /\ flow'[c].had /\ ~flow'[c].created
      BY <2>1, CheckDraws DEF Bindings
    <3>3. \A d \in Callers \ {c} : i \in Fresh => flow[d].id # i
      BY <1>0, BindConstants DEF DrawnFlow, NoFlow
    <3>4. DrewIt(c)' => IsAlone(c)'
      BY <1>0, <3>1, <3>2, <3>3 DEF DrewIt, IsAlone, EverBound
    <3> QED
      BY <1>2, <3>1, <3>2, <3>4
  <2>2. CASE BindRegister(c)
    BY <1>0, <1>3, <2>0, <2>2, Moves DEF BindRegister, DrewIt, Binds
  <2>3. CASE BindWrite(c)
    BY <1>0, <1>3, <2>0, <2>3, Moves DEF BindWrite, DrewIt, Binds
  <2>4. CASE BindUpsert(c)
    <3>1. UNCHANGED forgotten /\ flow[c].at = "upsert"
      BY <2>4 DEF BindUpsert
    <3>2. CASE flow'[c] = NoFlow
      <4>1. EverBound' \subseteq EverBound \cup {flow[c].id}
        BY <1>0, <3>1, <2>4 DEF BindUpsert, EverBound, Bound, RecordsTyped
      <4> QED
        BY <1>0, <1>4, <2>4, <3>2, <4>1, Moves
    <3>3. CASE /\ flow'[c].id = flow[c].id /\ flow'[c].had = flow[c].had
               /\ flow'[c].at = "rollback" /\ UNCHANGED record
      BY <1>0, <1>3, <2>0, <2>4, <3>1, <3>3, Moves DEF DrewIt, Binds
    <3> QED
      BY <1>0, <2>4, <3>2, <3>3, Moves
  <2>5. CASE BindRollback(c)
    <3>1. EverBound' = EverBound /\ flow[c].at = "rollback"
      BY <2>0, <2>5 DEF BindRollback
    <3>2. flow[c].created => DrewIt(c)
      BY <1>0, <3>1 DEF Keeps, DrewIt, Binds
    <3> QED
      BY <1>0, <1>3, <1>4, <2>5, <3>1, <3>2, Moves
  <2>6. CASE UnbindBegin(c)
    <3>1. UNCHANGED record
      BY <2>6 DEF UnbindBegin
    <3>2. EverBound' \subseteq EverBound
      BY <1>0, <2>6, <3>1, Moves DEF EverBound, Bound
    <3> QED
      BY <1>0, <1>2, <2>6, <3>2, Moves DEF DrewIt, Binds
  <2>7. CASE RemoteAnswered(c)
    BY <1>0, <1>3, <1>4, <2>0, <2>7, Moves DEF RemoteAnswered, DrewIt, Binds
  <2>8. CASE UnbindLocal(c)
    BY <1>0, <1>3, <2>0, <2>8, Moves DEF UnbindLocal, DrewIt, Binds
  <2>9. CASE UnbindRegistry(c)
    <3>1. EverBound' \subseteq EverBound
      BY <1>0, <2>9 DEF UnbindRegistry, EverBound, Bound, RecordsTyped
    <3> QED
      BY <1>0, <1>4, <2>9, <3>1, Moves
  <2> QED
    BY <1>5, <2>1, <2>2, <2>3, <2>4, <2>5, <2>6, <2>7, <2>8, <2>9 DEF BindStep
<1> QED
  BY <1>1, <1>5, NoMove DEF BindNext

\* What a caller takes away is no other command's, and nobody's binding: it was drawn
\* by the caller itself, or began to be forgotten.
LEMMA LeavesOthers ==
    ASSUME Bindings, NEW c \in Callers,
           BindStep(c) \/ \E w \in Workspaces : ForgetCalls(c, w),
           NEW i, i \notin forgotten, i \in Bound \/ \E d \in Callers \ {c} : flow[d].id = i
    PROVE  /\ i \in indexed \cap stored => i \in indexed' \cap stored'
           /\ i \in meta => i \in meta'
<1>0. \A d \in Callers : (DrewIt(d) => IsAlone(d)) /\ Keeps(d)
  BY BindingsUnfold
<1>1. flow[c].id = i => ~IsAlone(c)
  BY DEF IsAlone, EverBound
<1>2. ASSUME NEW w \in Workspaces, ForgetCalls(c, w)
      PROVE  /\ i \in indexed \cap stored => i \in indexed' \cap stored'
             /\ i \in meta => i \in meta'
  BY <1>1, <1>2, ForgetEffects
<1>3. ASSUME BindStep(c)
      PROVE  /\ i \in indexed \cap stored => i \in indexed' \cap stored'
             /\ i \in meta => i \in meta'
  <2>1. CASE BindCheck(c) \/ UnbindBegin(c)
    <3>1. UNCHANGED <<vars, meta>>
      BY <2>1, CheckDraws DEF UnbindBegin, Bindings
    <3> QED
      BY <3>1 DEF vars
  <2>2. CASE BindRegister(c) \/ BindWrite(c) \/ BindUpsert(c)
    BY <2>2 DEF BindRegister, RegisterRemote, BindWrite, BindUpsert
  <2>3. CASE BindRollback(c)
    <3>1. ~flow[c].had => IsAlone(c)
      BY <1>0, <2>3 DEF BindRollback, DrewIt, Binds
    <3>2. meta' = IF flow[c].had THEN meta ELSE meta \ {flow[c].id}
      BY <2>3 DEF BindRollback, RollbackLocal
    <3> QED
      BY <1>1, <2>3, <3>1, <3>2 DEF BindRollback, vars
  <2>4. CASE RemoteAnswered(c) \/ UnbindRegistry(c)
    BY <2>4 DEF RemoteAnswered, UnbindRegistry, vars
  <2>5. CASE UnbindLocal(c)
    <3>1. flow[c].id \in forgotten
      BY <1>0, <2>5 DEF UnbindLocal, Keeps, Unbinds
    <3> QED
      BY <2>5, <3>1 DEF UnbindLocal, vars
  <2> QED
    BY <1>3, <2>1, <2>2, <2>3, <2>4, <2>5 DEF BindStep
<1> QED
  BY <1>2, <1>3

\* So every other command keeps what it has reached.
LEMMA OthersKeep ==
    ASSUME Bindings, NEW c \in Callers, [BindNext]_allVars,
           BindStep(c) \/ \E w \in Workspaces : ForgetCalls(c, w),
           NEW d \in Callers \ {c}, flow'[d] = flow[d]
    PROVE  Keeps(d)'
<1>1. Keeps(d) /\ EverBound \subseteq EverBound' /\ forgotten \subseteq forgotten'
  BY BindingsUnfold, EverBoundGrows
<1>2. flow[d].id \notin forgotten =>
         /\ flow[d].id \in indexed \cap stored => flow[d].id \in indexed' \cap stored'
         /\ flow[d].id \in meta => flow[d].id \in meta'
  BY LeavesOthers
<1> QED
  BY <1>1, <1>2 DEF Keeps

\* And so does the command that moves.
LEMMA KeepsStep ==
    ASSUME Bindings, [BindNext]_allVars
    PROVE  FlowsKeep'
<1>0. /\ flow \in [Callers -> FlowType]
      /\ \A c \in Callers : Keeps(c) /\ (DrewIt(c) => IsAlone(c)) /\ DrawnFlow(flow[c])
      /\ EverBound \subseteq EverBound' /\ forgotten \subseteq forgotten'
  BY BindingsUnfold, EverBoundGrows
<1>1. ASSUME UNCHANGED <<flow, meta, forgotten, indexed, stored>>, EverBound' = EverBound
      PROVE  FlowsKeep'
  BY <1>0, <1>1 DEF FlowsKeep, Keeps
<1>2. CASE UNCHANGED allVars
  BY <1>1, <1>2, NoMove DEF allVars, vars
<1>3. CASE UNCHANGED bindVars /\ (ProcStep \/ \E c \in Callers, w \in Workspaces : Calls(c, w))
  BY <1>1, <1>3, NoMove, WatcherFrame, BindingsUnfold
<1>4. ASSUME NEW c \in Callers, NEW w \in Workspaces, ForgetCalls(c, w)
      PROVE  FlowsKeep'
  <2>1. /\ UNCHANGED <<flow, meta, forgotten>> /\ EverBound' = EverBound
    BY <1>4, NoMove
  <2>2. flow[c].at \in {"remote", "undo"}
    <3>1. CASE call[c].verb = "forget" /\ lock[w] = c
      BY <3>1, BindingsUnfold DEF Belongs
    <3> QED
      BY <1>4, <3>1 DEF ForgetCalls, ForgetIndex
  <2>3. Keeps(c)'
    BY <1>0, <2>1, <2>2 DEF Keeps, Binds
  <2>4. \A d \in Callers \ {c} : Keeps(d)'
    BY <1>4, <2>1, OthersKeep
  <2> QED
    BY <2>3, <2>4 DEF FlowsKeep
<1>5. ASSUME NEW c \in Callers, BindStep(c)
      PROVE  FlowsKeep'
  <2>0. \A d \in Callers \ {c} : flow'[d] = flow[d]
    BY <1>0, <1>5, Moves, CheckDraws DEF BindStep, Bindings
  <2>1. \A d \in Callers \ {c} : Keeps(d)'
    BY <1>5, <2>0, OthersKeep
  <2>2. Keeps(c)'
    <3>1. CASE BindCheck(c)
      <4>1. /\ flow'[c].at = "register"
            /\ \/ ~flow'[c].had
               \/ flow'[c].had /\ ~flow'[c].created /\ flow'[c].id \in Bound
        BY <3>1, CheckDraws DEF Bindings
      <4> QED
        BY <1>0, <4>1 DEF Keeps, Unbinds, Binds, EverBound
    <3>2. CASE BindRegister(c)
      <4>1. /\ flow[c].at = "register" /\ flow'[c].id = flow[c].id /\ flow'[c].had = flow[c].had
            /\ \/ flow'[c].at = "write" /\ flow'[c].created = flow[c].created
                  /\ flow[c].id \in indexed' \cap stored'
               \/ flow'[c].at = "rollback" /\ flow'[c].created = FALSE
        BY <1>0, <3>2, Moves DEF BindRegister, RegisterRemote
      <4> QED
        BY <1>0, <4>1 DEF Keeps, Unbinds, Binds
    <3>3. CASE BindWrite(c)
      <4>1. /\ flow[c].at = "write" /\ flow'[c].id = flow[c].id /\ flow'[c].had = flow[c].had
            /\ flow'[c].created = flow[c].created /\ flow'[c].at \in {"upsert", "rollback"}
            /\ UNCHANGED <<indexed, stored>> /\ flow[c].id \in meta'
        BY <1>0, <3>3, Moves DEF BindWrite
      <4> QED
        BY <1>0, <4>1 DEF Keeps, Unbinds, Binds
    <3>4. CASE BindUpsert(c)
      <4>1. flow[c].at = "upsert"
        BY <3>4 DEF BindUpsert
      <4>2. \/ flow'[c] = NoFlow
            \/ /\ flow'[c].id = flow[c].id /\ flow'[c].had = flow[c].had
               /\ flow'[c].created = flow[c].created /\ flow'[c].at = "rollback"
        BY <1>0, <3>4, Moves
      <4> QED
        BY <1>0, <4>1, <4>2 DEF Keeps, Unbinds, Binds, NoFlow
    <3>5. CASE BindRollback(c)
      <4>0. flow'[c] = NoFlow \/ flow'[c].at = "undo"
        BY <1>0, <3>5, Moves
      <4>1. flow'[c].at \in {"idle", "undo"}
        BY <4>0 DEF NoFlow
      <4> QED
        BY <4>1 DEF Keeps, Unbinds, Binds
    <3>6. CASE UnbindBegin(c)
      <4>1. flow'[c].at \in {"local", "stop"} /\ flow'[c].id \in forgotten'
        BY <1>0, <3>6, Moves
      <4> QED
        BY <4>1 DEF Keeps, Binds
    <3>7. CASE RemoteAnswered(c)
      <4>0. \/ flow'[c] = NoFlow
            \/ /\ flow'[c].id = flow[c].id /\ flow[c].at \in {"stop", "remote"}
               /\ flow'[c].at \in {"remote", "local"}
        BY <1>0, <3>7, Moves
      <4>1. \/ flow'[c].at = "idle"
            \/ /\ flow'[c].id = flow[c].id /\ flow[c].at \in {"stop", "remote"}
               /\ flow'[c].at \in {"remote", "local"}
        BY <4>0 DEF NoFlow
      <4> QED
        BY <1>0, <4>1 DEF Keeps, Unbinds, Binds
    <3>8. CASE UnbindLocal(c)
      <4>1. flow[c].at = "local" /\ flow'[c].id = flow[c].id /\ flow'[c].at = "registry"
        BY <1>0, <3>8, Moves DEF UnbindLocal
      <4> QED
        BY <1>0, <4>1 DEF Keeps, Unbinds, Binds
    <3>9. CASE UnbindRegistry(c)
      <4>1. flow'[c] = NoFlow
        BY <1>0, <3>9, Moves
      <4> QED
        BY <4>1 DEF Keeps, Unbinds, Binds, NoFlow
    <3> QED
      BY <1>5, <3>1, <3>2, <3>3, <3>4, <3>5, <3>6, <3>7, <3>8, <3>9 DEF BindStep
  <2> QED
    BY <2>1, <2>2 DEF FlowsKeep
<1> QED
  BY <1>2, <1>3, <1>4, <1>5 DEF BindNext

\* A binding nobody began to forget keeps its registration and its metadata.
LEMMA WholeStep ==
    ASSUME Bindings, [BindNext]_allVars
    PROVE  BoundIsWhole'
<1>0. /\ flow \in [Callers -> FlowType] /\ \A c \in Callers : Keeps(c)
      /\ Bound \ forgotten \subseteq indexed \cap stored \cap meta
      /\ forgotten \subseteq forgotten'
  BY BindingsUnfold, EverBoundGrows DEF Bindings, BoundIsWhole
<1>1. ASSUME NEW c \in Callers, BindStep(c) \/ \E w \in Workspaces : ForgetCalls(c, w),
             Bound' \subseteq Bound
      PROVE  BoundIsWhole'
  BY <1>0, <1>1, LeavesOthers DEF BoundIsWhole
<1>2. CASE UNCHANGED allVars
  BY <1>0, <1>2, NoMove DEF BoundIsWhole, allVars, vars
<1>3. CASE UNCHANGED bindVars /\ (ProcStep \/ \E c \in Callers, w \in Workspaces : Calls(c, w))
  BY <1>0, <1>3, NoMove, WatcherFrame, BindingsUnfold DEF BoundIsWhole
<1>4. ASSUME NEW c \in Callers, NEW w \in Workspaces, ForgetCalls(c, w)
      PROVE  BoundIsWhole'
  BY <1>1, <1>4, NoMove
<1>5. ASSUME NEW c \in Callers, BindStep(c)
      PROVE  BoundIsWhole'
  <2>1. CASE BindUpsert(c) /\ record' # record
    <3>1. UNCHANGED <<indexed, stored, meta, forgotten>> /\ flow[c].at = "upsert"
      BY <2>1 DEF BindUpsert
    <3>2. Bound' \subseteq Bound \cup {flow[c].id}
      BY <2>1, BindingsUnfold DEF BindUpsert, Bound, RecordsTyped
    <3>3. flow[c].id \in forgotten \cup (indexed \cap stored \cap meta)
      BY <1>0, <3>1 DEF Keeps
    <3> QED
      BY <1>0, <3>1, <3>2, <3>3 DEF BoundIsWhole
  <2>2. CASE UnbindRegistry(c)
    <3>1. Bound' \subseteq Bound
      BY <2>2, BindingsUnfold DEF UnbindRegistry, Bound, RecordsTyped
    <3> QED
      BY <1>1, <1>5, <3>1
  <2>3. CASE UNCHANGED record
    BY <1>1, <1>5, <2>3 DEF Bound
  <2>4. BindUpsert(c) \/ UnbindRegistry(c) \/ UNCHANGED record
    BY <1>5, CheckDraws DEF BindStep, BindRegister, BindWrite, BindRollback, UnbindBegin,
                              RemoteAnswered, UnbindLocal, Bindings
  <2> QED
    BY <2>1, <2>2, <2>3, <2>4
<1> QED
  BY <1>2, <1>3, <1>4, <1>5 DEF BindNext

-----------------------------------------------------------------------------
(* The watcher that watches is the recorded one.                           *)

\* The watcher at work in a workspace is the recorded one, so a caller that finds the
\* recorded process gone, or its pid in other hands, finds no watcher at work.
LEMMA NobodyAtWork ==
    ASSUME Typed, WatchersRecorded, NEW w \in Workspaces,
           Identities(w) \cap {"dead", "mismatch"} # {}, NEW g \in Generations, AtWork(g)
    PROVE  owner[g] # w
<1> SUFFICES ASSUME owner[g] = w PROVE FALSE
  OBVIOUS
<1>0. g # NoGen /\ g \notin reused /\ proc[g] \notin {"unborn", "dead", "forked"}
  BY TypeParts, BindTypeParts, WatcherConstants DEF Typed, ProcessesTyped, AtWork
<1>1. row[w].pid = g /\ row[w].token = g
  <2>1. row[w] = Announced(g)
    BY DEF WatchersRecorded
  <2> QED
    BY <2>1 DEF Announced
<1>2. Identities(w) = {"unknown", "current"}
  BY <1>0, <1>1 DEF Identities, Alive, Arguments
<1> QED
  BY <1>2

\* Two watchers are never at work in one workspace, and the one at work holds the row.
LEMMA OneAtWork ==
    ASSUME Typed, WatchersRecorded, NEW g \in Generations, Owns(g),
           NEW h \in Generations \ {g}, AtWork(h)
    PROVE  owner[h] # owner[g]
<1>1. row[owner[h]] = Announced(h)
  BY DEF WatchersRecorded
<1>2. row[owner[h]].token = h
  BY <1>1 DEF Announced
<1> QED
  BY <1>2 DEF Owns

\* A step keeps the records of the watchers at work if it brings none to work, leaves
\* their rows alone, and comes to hold a lock only where none is at work.
LEMMA RecordsKept ==
    ASSUME WatchersRecorded,
           \A g \in Generations : AtWork(g)' =>
              /\ AtWork(g) /\ owner'[g] = owner[g] /\ proc'[g] = proc[g]
              /\ row'[owner[g]] = row[owner[g]] /\ (Registered(owner[g]) => Registered(owner[g])'),
           \A c \in Callers, w \in Workspaces :
              lock'[w] = c /\ call'[c].verb \in {"start", "stop", "forget"} =>
                 \/ lock[w] = c /\ call[c].verb \in {"start", "stop", "forget"}
                 \/ \A g \in Generations : AtWork(g)' => owner[g] # w
    PROVE  WatchersRecorded'
<1>1. ASSUME NEW g \in Generations, AtWork(g)'
      PROVE  /\ owner'[g] \in Workspaces /\ Registered(owner[g])'
             /\ row'[owner'[g]] = Announced(g)'
  BY <1>1 DEF WatchersRecorded, Announced
<1>2. ASSUME NEW c \in Callers, NEW w \in Workspaces,
             lock'[w] = c, call'[c].verb \in {"start", "stop", "forget"},
             NEW g \in Generations, AtWork(g)'
      PROVE  owner'[g] # w
  <2>1. AtWork(g) /\ owner'[g] = owner[g]
    BY <1>2
  <2> QED
    BY <1>2, <2>1 DEF WatchersRecorded
<1> QED
  BY <1>1, <1>2 DEF WatchersRecorded

\* The calls of agents.
LEMMA CallsKeepRecords ==
    ASSUME Bindings, WatchersRecorded, NEW c \in Callers, NEW w \in Workspaces, Calls(c, w)
    PROVE  WatchersRecorded'
<1> USE WatcherConstants
<1>0. /\ TypeOK /\ CallersTyped /\ ProcessesTyped /\ row \in [Workspaces -> RowType]
      /\ UNCHANGED <<indexed, stored>> /\ Belongs(c)
  BY BindingsUnfold, WatcherFrame, TypeParts
<1>r. \A g \in Generations : Registered(owner[g])' <=> Registered(owner'[g])
  BY <1>0 DEF Registered
<1>l. \A g \in Generations : AtWork(g) => owner[g] \in Workspaces /\ row[owner[g]] = Announced(g)
  BY DEF WatchersRecorded
\* Whoever records has nobody at work before it.
<1>n. /\ Identities(w) \cap {"dead", "mismatch"} # {} => \A g \in Generations : AtWork(g) => owner[g] # w
      /\ lock[w] = c /\ call[c].verb \in {"start", "stop", "forget"} =>
            \A g \in Generations : AtWork(g) => owner[g] # w
  BY NobodyAtWork DEF WatchersRecorded, Bindings
<1>a. ASSUME UNCHANGED <<owner, proc, told>>, \A v \in Workspaces \ {w} : row'[v] = row[v],
             row' = row \/ \A g \in Generations : AtWork(g) => owner[g] # w,
             \A d \in Callers, v \in Workspaces : lock'[v] = d => lock[v] = d /\ call'[d] = call[d]
      PROVE  WatchersRecorded'
  <2>1. \A g \in Generations : AtWork(g)' =>
              /\ AtWork(g) /\ owner'[g] = owner[g] /\ proc'[g] = proc[g]
              /\ row'[owner[g]] = row[owner[g]] /\ (Registered(owner[g]) => Registered(owner[g])')
    BY <1>0, <1>a, <1>l, <1>r DEF AtWork
  <2> QED
    BY <1>a, <2>1, RecordsKept
<1>f. ASSUME NEW answer, Finish(c, w, answer), lock[w] = c
      PROVE  \A d \in Callers, v \in Workspaces : lock'[v] = d => lock[v] = d /\ call'[d] = call[d]
  <2>1. /\ lock'[w] = Free /\ \A d \in Callers \ {c} : call'[d] = call[d]
        /\ \A v \in Workspaces \ {w} : lock'[v] = lock[v]
    BY <1>0, <1>f, RequestEffects
  <2>2. \A v \in Workspaces \ {w} : lock[v] # c
    BY <1>0, <1>f DEF Belongs
  <2> QED
    BY <2>1, <2>2
<1>h. ASSUME NEW verb, NEW g, Hold(c, w, verb, g), Ready(c, w)
      PROVE  \A d \in Callers, v \in Workspaces : lock'[v] = d =>
                v = w \/ (lock[v] = d /\ call'[d] = call[d])
  <2>1. /\ \A d \in Callers \ {c} : call'[d] = call[d]
        /\ \A v \in Workspaces \ {w} : lock'[v] = lock[v]
    BY <1>0, <1>h, RequestEffects
  <2>2. \A v \in Workspaces : lock[v] # c
    BY <1>0, <1>h DEF Belongs, Ready, Idle
  <2> QED
    BY <2>1, <2>2
<1>w. ASSUME NEW pid, NEW status, Record(w, pid, status)
      PROVE  \A v \in Workspaces \ {w} : row'[v] = row[v]
  BY <1>0, <1>w DEF Record
<1>1. CASE StartSpawn(c, w)
  <2>1. PICK g \in Generations : /\ proc[g] = "unborn" /\ Hold(c, w, "start", g)
                                 /\ owner' = [owner EXCEPT ![g] = w] /\ proc' = [proc EXCEPT ![g] = "forked"]
    BY <1>1 DEF StartSpawn
  <2>2. /\ UNCHANGED <<row, told>> /\ Ready(c, w) /\ Identities(w) \cap {"dead", "mismatch"} # {}
    BY <1>1 DEF StartSpawn
  <2>3. \A h \in Generations : AtWork(h)' => AtWork(h) /\ owner'[h] = owner[h] /\ proc'[h] = proc[h]
    BY <1>0, <2>1, <2>2 DEF ProcessesTyped, AtWork
  <2>4. \A h \in Generations : AtWork(h)' => owner[h] # w
    BY <1>n, <2>2, <2>3
  <2>5. \A d \in Callers, v \in Workspaces : lock'[v] = d => v = w \/ (lock[v] = d /\ call'[d] = call[d])
    BY <1>h, <2>1, <2>2
  <2> QED
    BY <1>0, <1>r, <2>2, <2>3, <2>4, <2>5, RecordsKept
<1>2. CASE StartRecord(c, w)
  <2>0. call[c].verb = "start" /\ lock[w] = c /\ UNCHANGED <<owner, told>>
        /\ \A g \in Generations : AtWork(g) => owner[g] # w
    BY <1>2, <1>n DEF StartRecord
  <2>1. CASE /\ row' = [row EXCEPT ![w] = [pid |-> call[c].of, status |-> "starting", token |-> call[c].of]]
             /\ call' = [call EXCEPT ![c].verb = "settle"]
             /\ UNCHANGED <<proc, lock, reply, faults>>
    <3>1. \A v \in Workspaces \ {w} : row'[v] = row[v]
      BY <1>0, <2>1
    <3>2. \A g \in Generations : AtWork(g)' =>
              /\ AtWork(g) /\ owner'[g] = owner[g] /\ proc'[g] = proc[g]
              /\ row'[owner[g]] = row[owner[g]] /\ (Registered(owner[g]) => Registered(owner[g])')
      BY <1>0, <1>l, <1>r, <2>0, <2>1, <3>1 DEF AtWork
    <3>3. \A d \in Callers, v \in Workspaces :
              lock'[v] = d /\ call'[d].verb \in {"start", "stop", "forget"} =>
                 lock[v] = d /\ call[d].verb \in {"start", "stop", "forget"}
      BY <1>0, <2>0, <2>1 DEF CallersTyped
    <3> QED
      BY <3>2, <3>3, RecordsKept
  <2>2. CASE /\ faults < MaxFaults /\ faults' = faults + 1
             /\ proc' = [proc EXCEPT ![call[c].of] = "dead"] /\ Finish(c, w, "none") /\ UNCHANGED row
    <3>1. \A g \in Generations : AtWork(g)' =>
              /\ AtWork(g) /\ owner'[g] = owner[g] /\ proc'[g] = proc[g]
              /\ row'[owner[g]] = row[owner[g]] /\ (Registered(owner[g]) => Registered(owner[g])')
      BY <1>0, <1>r, <2>0, <2>2 DEF AtWork, ProcessesTyped
    <3>2. \A d \in Callers, v \in Workspaces : lock'[v] = d => lock[v] = d /\ call'[d] = call[d]
      BY <1>f, <2>0, <2>2
    <3> QED
      BY <3>1, <3>2, RecordsKept
  <2> QED
    BY <1>2, <2>1, <2>2 DEF StartRecord
<1>3. CASE StartSettle(c, w)
  BY <1>3, <1>a, <1>f DEF StartSettle, watcherVars
<1>4. CASE StopUnsignalled(c, w)
  <2>1. UNCHANGED <<owner, proc, told, lock, call>>
    BY <1>4 DEF StopUnsignalled, Answer
  <2>2. \/ UNCHANGED row
        \/ /\ \E status : Record(w, NoGen, status)
           /\ Identities(w) \cap {"dead", "mismatch"} # {}
    BY <1>4 DEF StopUnsignalled
  <2> QED
    BY <1>a, <1>n, <1>w, <2>1, <2>2
<1>5. CASE StopSignal(c, w)
  <2> DEFINE g == row[w].pid
  <2>0. g \in Generations /\ UNCHANGED <<row, owner>> /\ Ready(c, w) /\ Hold(c, w, "stop", g)
    BY <1>0, <1>5, CurrentIsRecorded DEF StopSignal
  <2>1. \A h \in Generations : AtWork(h)' => AtWork(h) /\ proc'[h] = proc[h] /\ h # g
    <3>1. CASE proc[g] = "booting" /\ proc' = [proc EXCEPT ![g] = "dead"] /\ UNCHANGED told
      BY <1>0, <3>1 DEF AtWork, ProcessesTyped
    <3>2. CASE told' = told \cup {g} /\ UNCHANGED proc
      BY <3>2 DEF AtWork
    <3> QED
      BY <1>5, <3>1, <3>2 DEF StopSignal
  <2>2. ASSUME NEW h \in Generations, AtWork(h)', owner[h] = w
        PROVE  FALSE
    <3>1. row[w] = Announced(h)
      BY <1>l, <2>1, <2>2
    <3>2. row[w].pid = h
      BY <3>1 DEF Announced
    <3> QED
      BY <2>1, <2>2, <3>2
  <2>3. \A d \in Callers, v \in Workspaces : lock'[v] = d => v = w \/ (lock[v] = d /\ call'[d] = call[d])
    BY <1>h, <2>0
  <2> QED
    BY <1>0, <1>r, <2>0, <2>1, <2>2, <2>3, RecordsKept
<1>6. CASE StopPolled(c, w)
  <2>1. /\ call[c].verb = "stop" /\ lock[w] = c /\ UNCHANGED <<owner, proc, told>>
        /\ \E answer : Finish(c, w, answer)
        /\ UNCHANGED row \/ Record(w, NoGen, "stopped")
    BY <1>6 DEF StopPolled
  <2> QED
    BY <1>a, <1>f, <1>n, <1>w, <2>1
<1>7. CASE Status(c, w)
  <2>1. /\ UNCHANGED <<owner, proc, told, lock, call>> /\ Record(w, NoGen, "failed")
        /\ Identities(w) \cap {"dead", "mismatch"} # {}
    BY <1>7 DEF Status, callVars
  <2> QED
    BY <1>a, <1>n, <1>w, <2>1
<1>8. CASE CallerKilled(c, w)
  BY <1>8, <1>a, <1>f DEF CallerKilled, watcherVars
<1> QED
  BY <1>1, <1>2, <1>3, <1>4, <1>5, <1>6, <1>7, <1>8 DEF Calls

\* The watcher processes.
LEMMA ProcessesKeepRecords ==
    ASSUME Bindings, WatchersRecorded, ProcStep
    PROVE  WatchersRecorded'
<1> USE WatcherConstants
<1>0. /\ TypeOK /\ CallersTyped /\ ProcessesTyped /\ row \in [Workspaces -> RowType]
      /\ UNCHANGED <<indexed, stored>> /\ indexed \subseteq Workspaces
  BY BindingsUnfold, WatcherFrame, TypeParts
<1>1. PICK g \in Generations : Boot(g) \/ Attach(g) \/ Watch(g) \/ Leave(g) \/ Killed(g)
  BY DEF ProcStep
<1>2. UNCHANGED <<owner, lock, call>>
  BY <1>1 DEF Boot, Attach, Watch, Leave, Killed, callVars
<1>r. \A h \in Generations : Registered(owner[h])' <=> Registered(owner[h])
  BY <1>0, <1>2 DEF Registered
<1>w. \A pid, status : Record(owner[g], pid, status) =>
         /\ \A v \in Workspaces \ {owner[g]} : row'[v] = row[v]
         /\ owner[g] \in Workspaces =>
               row'[owner[g]] = [pid |-> pid, status |-> status, token |-> row[owner[g]].token]
  BY <1>0 DEF Record, RowType
<1>l. \A h \in Generations : AtWork(h) =>
         owner[h] \in Workspaces /\ row[owner[h]] = Announced(h) /\ Registered(owner[h])
  BY DEF WatchersRecorded
\* The rows of the others at work: g writes its own row only if it holds the token.
<1>o. ASSUME \/ UNCHANGED row
             \/ Owns(g) /\ \E pid, status : Record(owner[g], pid, status),
             NEW h \in Generations \ {g}, AtWork(h)
      PROVE  row'[owner[h]] = row[owner[h]]
  <2>1. CASE UNCHANGED row
    BY <2>1
  <2>2. CASE Owns(g) /\ \E pid, status : Record(owner[g], pid, status)
    <3>1. owner[h] # owner[g]
      BY <1>o, <2>2, OneAtWork DEF Bindings
    <3> QED
      BY <1>l, <1>o, <1>w, <2>2, <3>1
  <2> QED
    BY <1>o, <2>1, <2>2
\* A step after which g is not at work.
<1>d. ASSUME \/ UNCHANGED row
             \/ Owns(g) /\ \E pid, status : Record(owner[g], pid, status),
             \A h \in Generations \ {g} : AtWork(h)' => AtWork(h) /\ proc'[h] = proc[h],
             ~AtWork(g)'
      PROVE  WatchersRecorded'
  BY <1>2, <1>d, <1>o, <1>r, RecordsKept
\* A step of g that is at work, and that writes what it announces.
<1>e. ASSUME Owns(g), Registered(owner[g]),
             NEW status, Record(owner[g], g, status),
             status = IF proc'[g] = "watching" THEN "running" ELSE "starting",
             \A h \in Generations \ {g} : AtWork(h)' => AtWork(h) /\ proc'[h] = proc[h],
             AtWork(g) \/ lock[owner[g]] = Free
      PROVE  WatchersRecorded'
  <2>0. owner[g] \in Workspaces /\ row[owner[g]].token = g
    BY <1>0, <1>e DEF Registered, Owns
  <2>1. row'[owner[g]] = Announced(g)'
    BY <1>e, <1>w, <2>0 DEF Announced
  <2>2. \A h \in Generations : AtWork(h)' =>
            owner[h] \in Workspaces /\ Registered(owner[h]) /\ row'[owner[h]] = Announced(h)'
    <3>1. ASSUME NEW h \in Generations \ {g}, AtWork(h)'
          PROVE  owner[h] \in Workspaces /\ Registered(owner[h]) /\ row'[owner[h]] = Announced(h)'
      BY <1>e, <1>l, <1>o, <3>1 DEF Announced
    <3> QED
      BY <1>e, <2>0, <2>1, <3>1
  <2>3. ASSUME NEW c \in Callers, NEW v \in Workspaces, lock[v] = c,
               call[c].verb \in {"start", "stop", "forget"},
               NEW h \in Generations, AtWork(h)'
        PROVE  owner[h] # v
    <3>1. CASE h = g
      BY <1>e, <2>3, <3>1 DEF WatchersRecorded
    <3>2. CASE h # g
      BY <1>e, <2>3, <3>2 DEF WatchersRecorded
    <3> QED
      BY <3>1, <3>2
  <2> QED
    BY <1>2, <1>r, <2>2, <2>3 DEF WatchersRecorded
<1>3. CASE Boot(g)
  BY <1>0, <1>3, <1>d DEF Boot, Goto, AtWork, ProcessesTyped
<1>4. CASE Attach(g)
  <2>0. lock[owner[g]] = Free
    BY <1>4 DEF Attach
  <2>1. CASE Registered(owner[g]) /\ Owns(g) /\ Record(owner[g], g, "starting") /\ Goto(g, "attached")
    <3>1. proc'[g] = "attached" /\ \A h \in Generations \ {g} : proc'[h] = proc[h]
      BY <1>0, <2>1 DEF Goto, ProcessesTyped
    <3>2. UNCHANGED told
      BY <1>4, <3>1 DEF Attach
    <3> QED
      BY <1>e, <2>0, <2>1, <3>1, <3>2 DEF AtWork
  <2>2. CASE Goto(g, "dead") /\ UNCHANGED row
    BY <1>0, <1>4, <1>d, <2>2 DEF Attach, Goto, AtWork, ProcessesTyped
  <2> QED
    BY <1>4, <2>1, <2>2 DEF Attach
<1>5. CASE Watch(g)
  <2>1. CASE Owns(g) /\ Record(owner[g], g, "running") /\ Goto(g, "watching")
    <3>1. proc'[g] = "watching" /\ \A h \in Generations \ {g} : proc'[h] = proc[h]
      BY <1>0, <2>1 DEF Goto, ProcessesTyped
    <3>2. UNCHANGED told /\ proc[g] = "attached"
      BY <1>5, <3>1 DEF Watch
    <3>3. CASE g \in told
      BY <1>d, <2>1, <3>1, <3>2, <3>3 DEF AtWork
    <3>4. CASE g \notin told
      <4>1. AtWork(g) /\ Registered(owner[g])
        BY <1>l, <3>2, <3>4 DEF AtWork
      <4> QED
        BY <1>e, <2>1, <3>1, <3>2, <4>1 DEF AtWork
    <3> QED
      BY <3>3, <3>4
  <2>2. CASE Goto(g, "dead") /\ UNCHANGED row
    BY <1>0, <1>5, <1>d, <2>2 DEF Watch, Goto, AtWork, ProcessesTyped
  <2> QED
    BY <1>5, <2>1, <2>2 DEF Watch
<1>6. CASE Leave(g)
  <2>1. UNCHANGED row \/ (Owns(g) /\ \E pid, status : Record(owner[g], pid, status))
    BY <1>6 DEF Leave, LastWord
  <2>2. proc'[g] = "dead" /\ \A h \in Generations \ {g} : proc'[h] = proc[h]
    BY <1>0, <1>6 DEF Leave, Goto, ProcessesTyped
  <2> QED
    BY <1>6, <1>d, <2>1, <2>2 DEF Leave, AtWork
<1>7. CASE Killed(g)
  <2>1. UNCHANGED row
    BY <1>7 DEF Killed
  <2>2. \A h \in Generations \ {g} : AtWork(h)' => AtWork(h) /\ proc'[h] = proc[h]
    BY <1>0, <1>7 DEF Killed, Goto, AtWork, ProcessesTyped
  <2>3. ~AtWork(g)'
    BY <1>0, <1>7 DEF Killed, Goto, AtWork, ProcessesTyped
  <2> QED
    BY <1>d, <2>1, <2>2, <2>3
<1> QED
  BY <1>1, <1>3, <1>4, <1>5, <1>6, <1>7

\* A request to forget moves the store away only where no watcher is at work.
LEMMA ForgetKeepsRecords ==
    ASSUME Bindings, WatchersRecorded, NEW c \in Callers, NEW i \in Workspaces, ForgetCalls(c, i)
    PROVE  WatchersRecorded'
<1> USE WatcherConstants
<1>0. /\ CallersTyped /\ Belongs(c) /\ UNCHANGED <<row, owner, proc, told>>
      /\ \A g \in Generations : AtWork(g) => owner[g] \in Workspaces
  BY BindingsUnfold DEF ForgetCalls, ForgetAside, ForgetAnswered, ForgetIndex, watcherVars, WatchersRecorded
<1>a. ASSUME \A g \in Generations : AtWork(g) => owner[g] # i,
             \A v \in Workspaces \ {i} : Registered(v) => Registered(v)',
             \A d \in Callers, v \in Workspaces : lock'[v] = d => v = i \/ (lock[v] = d /\ call'[d] = call[d])
      PROVE  WatchersRecorded'
  <2>1. \A g \in Generations : AtWork(g)' => AtWork(g)
    BY <1>0 DEF AtWork
  <2>2. \A g \in Generations : AtWork(g) => (Registered(owner[g]) => Registered(owner[g])')
    BY <1>0, <1>a DEF Registered
  <2> QED
    BY <1>0, <1>a, <2>1, <2>2, RecordsKept
<1>1. CASE ForgetAside(c, i)
  <2>1. \A g \in Generations : AtWork(g) => owner[g] # i
    BY <1>1, NobodyAtWork DEF ForgetAside, Bindings
  <2>2. \A v \in Workspaces \ {i} : Registered(v) => Registered(v)'
    BY <1>1 DEF ForgetAside, Registered
  <2>3. /\ \A d \in Callers \ {c} : call'[d] = call[d]
        /\ \A v \in Workspaces \ {i} : lock'[v] = lock[v]
    BY <1>0, <1>1, RequestEffects DEF ForgetAside
  <2>4. \A v \in Workspaces : lock[v] # c
    BY <1>0, <1>1 DEF ForgetAside, Ready, Belongs, Idle
  <2> QED
    BY <1>a, <2>1, <2>2, <2>3, <2>4
<1>2. CASE ForgetIndex(c, i)
  <2>1. \A g \in Generations : AtWork(g) => owner[g] # i
    BY <1>2 DEF ForgetIndex, WatchersRecorded
  <2>2. \A v \in Workspaces \ {i} : Registered(v) => Registered(v)'
    BY <1>2 DEF ForgetIndex, Registered
  <2>3. lock[i] = c /\ \E answer : Finish(c, i, answer)
    BY <1>2 DEF ForgetIndex
  <2>4. /\ \A d \in Callers \ {c} : call'[d] = call[d]
        /\ \A v \in Workspaces \ {i} : lock'[v] = lock[v]
    BY <1>0, <2>3, RequestEffects
  <2>5. \A v \in Workspaces \ {i} : lock[v] # c
    BY <1>0, <2>3 DEF Belongs
  <2> QED
    BY <1>a, <2>1, <2>2, <2>4, <2>5
<1>3. CASE ForgetAnswered(c, i)
  <2>1. UNCHANGED <<indexed, stored, lock, call>>
    BY <1>3 DEF ForgetAnswered, Answer
  <2> QED
    BY <1>0, <2>1, RecordsKept DEF AtWork, Registered
<1> QED
  BY <1>1, <1>2, <1>3 DEF ForgetCalls

\* A command registers a workspace, and makes a new row only where there was no store.
LEMMA BindKeepsRecords ==
    ASSUME Bindings, WatchersRecorded, NEW c \in Callers, BindStep(c)
    PROVE  WatchersRecorded'
<1>0. row \in [Workspaces -> RowType]
  BY BindingsUnfold, TypeParts
<1>1. UNCHANGED <<owner, proc, told, lock, call>>
  <2>1. CASE BindCheck(c) \/ UnbindBegin(c)
    BY <2>1, CheckDraws DEF UnbindBegin, vars, watcherVars, callVars, Bindings
  <2>2. CASE BindRegister(c) \/ BindWrite(c) \/ BindUpsert(c) \/ RemoteAnswered(c)
    BY <2>2 DEF BindRegister, BindWrite, BindUpsert, RemoteAnswered, watcherVars, callVars
  <2>3. CASE BindRollback(c) \/ UnbindLocal(c) \/ UnbindRegistry(c)
    BY <2>3 DEF BindRollback, UnbindLocal, UnbindRegistry, vars, watcherVars, callVars
  <2> QED
    BY <2>1, <2>2, <2>3 DEF BindStep
<1>2. \/ UNCHANGED <<indexed, stored, row>>
      \/ BindRegister(c) /\ RegisterRemote(flow[c].id)
  <2>1. CASE BindCheck(c) \/ UnbindBegin(c)
    BY <2>1, CheckDraws DEF UnbindBegin, vars, watcherVars, Bindings
  <2>2. CASE BindWrite(c) \/ BindUpsert(c) \/ RemoteAnswered(c)
    BY <2>2 DEF BindWrite, BindUpsert, RemoteAnswered, watcherVars
  <2>3. CASE BindRollback(c) \/ UnbindLocal(c) \/ UnbindRegistry(c)
    BY <2>3 DEF BindRollback, UnbindLocal, UnbindRegistry, vars, watcherVars
  <2>4. CASE BindRegister(c)
    BY <2>4 DEF BindRegister
  <2> QED
    BY <2>1, <2>2, <2>3, <2>4, <1>1 DEF BindStep
<1>3. ASSUME NEW g \in Generations, AtWork(g)
      PROVE  row'[owner[g]] = row[owner[g]] /\ (Registered(owner[g]) => Registered(owner[g])')
  <2>1. owner[g] \in Workspaces /\ Registered(owner[g])
    BY <1>3 DEF WatchersRecorded
  <2>2. CASE UNCHANGED <<indexed, stored, row>>
    BY <1>1, <2>2 DEF Registered
  <2>3. CASE RegisterRemote(flow[c].id)
    BY <1>0, <1>1, <2>1, <2>3 DEF RegisterRemote, Registered
  <2> QED
    BY <1>2, <2>2, <2>3
<1>4. \A g \in Generations : AtWork(g)' => AtWork(g)
  BY <1>1 DEF AtWork
<1> QED
  BY <1>1, <1>3, <1>4, RecordsKept

\* All of it at once.
LEMMA BindingsStep ==
    ASSUME Bindings, WatchersRecorded, [BindNext]_allVars
    PROVE  Bindings' /\ WatchersRecorded'
<1>1. Typed' /\ NewIsAlone' /\ FlowsKeep' /\ BoundIsWhole'
  BY TypedStep, AloneStep, KeepsStep, WholeStep DEF Bindings
<1>2. CASE UNCHANGED allVars
  <2>1. UNCHANGED <<indexed, stored, row, owner, proc, told, lock, call, reply, flow, indexLock>>
        /\ EverBound' = EverBound
    BY <1>2, NoMove DEF allVars, vars, watcherVars, callVars, bindVars
  <2>2. CallsBelong'
    BY <2>1 DEF Bindings, CallsBelong, Belongs
  <2>3. WatchersRecorded'
    BY <2>1, RecordsKept DEF AtWork, Registered
  <2> QED
    BY <1>1, <2>2, <2>3 DEF Bindings
<1>3. ASSUME NEW c \in Callers, NEW w \in Workspaces, Calls(c, w), UNCHANGED bindVars
      PROVE  Bindings' /\ WatchersRecorded'
  BY <1>1, <1>3, CallsKeepBelonging, CallsKeepRecords DEF Bindings
<1>4. CASE ProcStep /\ UNCHANGED bindVars
  <2>1. UNCHANGED <<indexed, stored, lock, call, reply, flow, indexLock>> /\ EverBound' = EverBound
    <3>1. UNCHANGED <<lock, call, reply>>
      BY <1>4 DEF ProcStep, Boot, Attach, Watch, Leave, Killed, callVars
    <3> QED
      BY <1>4, <3>1, WatcherFrame, BindingsUnfold, NoMove DEF bindVars
  <2>2. CallsBelong'
    BY <2>1 DEF Bindings, CallsBelong, Belongs
  <2> QED
    BY <1>1, <1>4, <2>2, ProcessesKeepRecords DEF Bindings
<1>5. ASSUME NEW c \in Callers, NEW w \in Workspaces, ForgetCalls(c, w)
      PROVE  Bindings' /\ WatchersRecorded'
  BY <1>1, <1>5, ForgetKeepsBelonging, ForgetKeepsRecords DEF Bindings
<1>6. ASSUME NEW c \in Callers, BindStep(c)
      PROVE  Bindings' /\ WatchersRecorded'
  BY <1>1, <1>6, BindKeepsBelonging, BindKeepsRecords DEF Bindings
<1> QED
  BY <1>2, <1>3, <1>4, <1>5, <1>6 DEF BindNext

\* No command has begun, and no watcher is there.
LEMMA BindingsInit == BindInit => Bindings /\ WatchersRecorded
<1>1. SUFFICES ASSUME BindInit PROVE Bindings /\ WatchersRecorded
  OBVIOUS
<1>2. Typed
  BY <1>1, TypedInit
<1>3. /\ \A c \in Callers : flow[c] = NoFlow /\ call[c] = Idle /\ reply[c] = "none"
      /\ \A w \in Workspaces : lock[w] = Free
      /\ \A g \in Generations : ~AtWork(g)
      /\ Bound = {}
  BY <1>1 DEF BindInit, WatcherInit, AtWork, Bound
<1>4. CallsBelong
  BY <1>3, WatcherConstants DEF CallsBelong, Belongs, Idle
<1>5. NewIsAlone /\ FlowsKeep
  BY <1>3 DEF NewIsAlone, DrewIt, FlowsKeep, Keeps, NoFlow, Binds, Unbinds
<1>6. BoundIsWhole
  BY <1>3 DEF BoundIsWhole
<1>7. WatchersRecorded
  BY <1>3, WatcherConstants DEF WatchersRecorded
<1> QED
  BY <1>2, <1>4, <1>5, <1>6, <1>7 DEF Bindings

\* The second part of the inductive invariant, of every behaviour: commands keep what
\* they have reached, and the watchers at work are the recorded ones.
THEOREM BindingsCorrect == BindSpec => [](Bindings /\ WatchersRecorded)
  BY BindingsInit, BindingsStep, PTL DEF BindSpec

\* BoundIsWhole: no failed or racing bind takes a binding's registration or metadata.
THEOREM BindingsWhole == BindSpec => []BoundIsWhole
<1>1. Bindings => BoundIsWhole
  BY DEF Bindings
<1> QED
  BY <1>1, BindingsCorrect, PTL

\* WatchingIsRecorded: a watcher that watches is the one its workspace records.
THEOREM RecordedWatchers == BindSpec => []WatchingIsRecorded
<1>1. WatchersRecorded => WatchingIsRecorded
  BY DEF WatchersRecorded, WatchingIsRecorded, AtWork, Announced
<1> QED
  BY <1>1, BindingsCorrect, PTL

-----------------------------------------------------------------------------
(* A bind that lost a race leaves nothing behind.                          *)

\* A watcher is spawned and recorded for a bound workspace only.
LEMMA NeverWatchedStep ==
    ASSUME Bindings, WatchersRecorded, NeverWatched, [BindNext]_allVars
    PROVE  NeverWatched'
<1> USE WatcherConstants
<1>0. /\ row \in [Workspaces -> RowType] /\ ProcessesTyped /\ EverBound \subseteq EverBound'
      /\ \A c \in Callers : Belongs(c) /\ Keeps(c)
  BY BindingsUnfold, EverBoundGrows, TypeParts
<1>1. ASSUME \A i \in Workspaces \ EverBound : row'[i] \in {row[i], NoRow},
             \A g \in Generations : owner'[g] = owner[g] \/ owner'[g] \in EverBound
      PROVE  NeverWatched'
  BY <1>0, <1>1 DEF NeverWatched
<1>2. CASE UNCHANGED allVars
  BY <1>1, <1>2 DEF allVars, vars, watcherVars
<1>3. ASSUME NEW c \in Callers, NEW w \in Workspaces, Calls(c, w)
      PROVE  NeverWatched'
  <2>1. \/ UNCHANGED row
        \/ w \in EverBound /\ \A i \in Workspaces \ {w} : row'[i] = row[i]
    <3>1. CASE StartRecord(c, w)
      <4>1. w \in EverBound
        BY <1>0, <3>1 DEF StartRecord, Belongs
      <4> QED
        BY <1>0, <3>1, <4>1 DEF StartRecord
    <3>2. CASE StopUnsignalled(c, w) /\ flow[c].at = "stop" /\ flow[c].id = w
      <4>1. w \in EverBound
        BY <1>0, <3>2 DEF Keeps, Unbinds, EverBound
      <4> QED
        BY <1>0, <3>2, <4>1 DEF StopUnsignalled, Record
    <3>3. CASE StopPolled(c, w)
      <4>1. w \in EverBound
        BY <1>0, <3>3 DEF StopPolled, Belongs, Keeps, Unbinds, EverBound
      <4> QED
        BY <1>0, <3>3, <4>1 DEF StopPolled, Record
    <3>4. CASE Status(c, w) /\ w \in Bound
      BY <1>0, <3>4 DEF Status, Record, EverBound
    <3>5. CASE StartSpawn(c, w) \/ StartSettle(c, w) \/ StopSignal(c, w) \/ CallerKilled(c, w)
      BY <3>5 DEF StartSpawn, StartSettle, StopSignal, CallerKilled, watcherVars
    <3> QED
      BY <1>3, <3>1, <3>2, <3>3, <3>4, <3>5 DEF Calls
  <2>2. \A g \in Generations : owner'[g] = owner[g] \/ owner'[g] \in EverBound
    <3>1. CASE StartSpawn(c, w) /\ w \in Bound
      BY <1>0, <3>1 DEF StartSpawn, EverBound, ProcessesTyped
    <3>2. CASE UNCHANGED owner
      BY <3>2
    <3>3. (StartSpawn(c, w) /\ w \in Bound) \/ UNCHANGED owner
      BY <1>3 DEF Calls, StartRecord, StartSettle, StopUnsignalled, StopSignal, StopPolled, Status,
                  CallerKilled, watcherVars
    <3> QED
      BY <3>1, <3>2, <3>3
  <2> QED
    BY <1>1, <2>1, <2>2
<1>4. CASE ProcStep
  <2>1. PICK g \in Generations : Boot(g) \/ Attach(g) \/ Watch(g) \/ Leave(g) \/ Killed(g)
    BY <1>4 DEF ProcStep
  <2>2. UNCHANGED owner /\ (UNCHANGED row \/ \E pid, status : Record(owner[g], pid, status))
    BY <2>1 DEF Boot, Attach, Watch, Leave, LastWord, Killed
  <2>3. \A i \in Workspaces \ EverBound : i # owner[g]
    BY DEF NeverWatched
  <2>4. \A i \in Workspaces \ EverBound : row'[i] = row[i]
    BY <1>0, <2>2, <2>3 DEF Record
  <2> QED
    BY <1>1, <2>2, <2>4
<1>5. ASSUME NEW c \in Callers, NEW w \in Workspaces, ForgetCalls(c, w)
      PROVE  NeverWatched'
  BY <1>1, <1>5 DEF ForgetCalls, ForgetAside, ForgetAnswered, ForgetIndex, watcherVars
<1>6. ASSUME NEW c \in Callers, BindStep(c)
      PROVE  NeverWatched'
  <2>1. CASE BindCheck(c) \/ UnbindBegin(c)
    BY <1>1, <2>1, CheckDraws DEF UnbindBegin, vars, watcherVars, Bindings
  <2>2. CASE BindRegister(c)
    <3>1. \A i \in Workspaces : row'[i] \in {row[i], NoRow}
      BY <1>0, <2>2 DEF BindRegister, RegisterRemote
    <3> QED
      BY <1>1, <2>2, <3>1 DEF BindRegister
  <2>3. CASE BindWrite(c) \/ BindUpsert(c) \/ RemoteAnswered(c)
    BY <1>1, <2>3 DEF BindWrite, BindUpsert, RemoteAnswered, watcherVars
  <2>4. CASE BindRollback(c) \/ UnbindLocal(c) \/ UnbindRegistry(c)
    BY <1>1, <2>4 DEF BindRollback, UnbindLocal, UnbindRegistry, vars, watcherVars
  <2> QED
    BY <1>6, <2>1, <2>2, <2>3, <2>4 DEF BindStep
<1> QED
  BY <1>2, <1>3, <1>4, <1>5, <1>6 DEF BindNext

\* No command invents a metadata directory.
LEMMA MetaStep ==
    ASSUME Bindings, MetaAccounted, [BindNext]_allVars
    PROVE  MetaAccounted'
<1>0. /\ flow \in [Callers -> FlowType] /\ EverBound \subseteq EverBound'
      /\ \A c \in Callers : Keeps(c)
  BY BindingsUnfold, EverBoundGrows
<1>1. CASE UNCHANGED <<flow, meta>>
  BY <1>0, <1>1 DEF MetaAccounted
<1>2. ASSUME NEW c \in Callers, \A d \in Callers \ {c} : flow'[d] = flow[d],
             \A i \in meta' : \/ i \in meta /\ (flow[c].id = i => flow[c].at \notin {"upsert", "rollback"})
                              \/ i \in EverBound'
                              \/ i \in meta /\ flow[c].id # i
                              \/ flow'[c].id = i /\ flow'[c].at \in {"upsert", "rollback"}
      PROVE  MetaAccounted'
  BY <1>0, <1>2 DEF MetaAccounted
<1>3. ASSUME NEW c \in Callers, BindStep(c)
      PROVE  MetaAccounted'
  <2>0. \A d \in Callers \ {c} : flow'[d] = flow[d]
    BY <1>0, <1>3, Moves, CheckDraws DEF BindStep, Bindings
  <2>1. CASE BindCheck(c) \/ UnbindBegin(c)
    <3>1. UNCHANGED meta /\ flow[c] = NoFlow
      BY <2>1, CheckDraws DEF UnbindBegin, Begin, Bindings
    <3> QED
      BY <1>2, <2>0, <3>1 DEF NoFlow
  <2>2. CASE BindRegister(c) \/ RemoteAnswered(c) \/ UnbindLocal(c) \/ UnbindRegistry(c)
    <3>1. meta' \subseteq meta /\ flow[c].at \notin {"upsert", "rollback"}
      BY <2>2 DEF BindRegister, RemoteAnswered, UnbindLocal, UnbindRegistry
    <3> QED
      BY <1>2, <2>0, <3>1
  <2>3. CASE BindWrite(c)
    <3>1. /\ meta' = meta \cup {flow[c].id} /\ flow'[c].id = flow[c].id
          /\ flow'[c].at \in {"upsert", "rollback"}
      BY <1>0, <2>3, Moves DEF BindWrite
    <3> QED
      BY <1>2, <2>0, <3>1
  <2>4. CASE BindUpsert(c)
    <3>1. UNCHANGED meta
      BY <2>4 DEF BindUpsert
    <3>2. \/ flow'[c].id = flow[c].id /\ flow'[c].at = "rollback"
          \/ record' = [record EXCEPT ![flow[c].id] = [name |-> flow[c].name, local |-> flow[c].local]]
      BY <1>0, <2>4, Moves
    <3>3. CASE record' = [record EXCEPT ![flow[c].id] = [name |-> flow[c].name, local |-> flow[c].local]]
      <4>1. flow[c].id \in Workspaces /\ flow[c].name \in Names
        BY <2>4, BindingsUnfold DEF BindUpsert, DrawnFlow, Binds
      <4>2. record'[flow[c].id] # NoRecord
        BY <3>3, <4>1, BindingsUnfold, BindConstants DEF RecordsTyped, NoRecord
      <4>3. flow[c].id \in EverBound'
        BY <4>1, <4>2 DEF EverBound, Bound
      <4> QED
        BY <1>2, <2>0, <3>1, <4>3
    <3> QED
      BY <1>2, <2>0, <3>1, <3>2, <3>3
  <2>5. CASE BindRollback(c)
    <3>1. meta' = IF flow[c].had THEN meta ELSE meta \ {flow[c].id}
      BY <2>5 DEF BindRollback, RollbackLocal
    <3>2. flow[c].had => flow[c].id \in EverBound
      BY <1>0, <2>5 DEF BindRollback, Keeps, Binds
    <3> QED
      BY <1>0, <1>2, <2>0, <3>1, <3>2
  <2> QED
    BY <1>3, <2>1, <2>2, <2>3, <2>4, <2>5 DEF BindStep
<1> QED
  BY <1>1, <1>3, NoMove DEF BindNext

\* The flag of a new registration is cleared only when the bind fails.
LEMMA CreatedStep ==
    ASSUME Bindings, CreatedIsNew, [BindNext]_allVars
    PROVE  CreatedIsNew'
<1>0. flow \in [Callers -> FlowType]
  BY BindingsUnfold
<1>1. CASE UNCHANGED flow
  BY <1>1 DEF CreatedIsNew
<1>2. ASSUME NEW c \in Callers, BindStep(c)
      PROVE  CreatedIsNew'
  <2>0. \A d \in Callers \ {c} : flow'[d] = flow[d]
    BY <1>0, <1>2, Moves, CheckDraws DEF BindStep, Bindings
  <2>1. flow'[c].at \in {"register", "write", "upsert"} => flow'[c].had \/ flow'[c].created
    <3>1. CASE BindCheck(c)
      BY <3>1, CheckDraws DEF Bindings
    <3>2. CASE BindRegister(c)
      <4>1. /\ flow[c].at = "register" /\ flow'[c].had = flow[c].had
            /\ flow'[c].at = "rollback" \/ flow'[c].created = flow[c].created
        BY <1>0, <3>2, Moves DEF BindRegister
      <4> QED
        BY <4>1 DEF CreatedIsNew
    <3>3. CASE BindWrite(c)
      <4>1. /\ flow[c].at = "write" /\ flow'[c].had = flow[c].had /\ flow'[c].created = flow[c].created
        BY <1>0, <3>3, Moves DEF BindWrite
      <4> QED
        BY <4>1 DEF CreatedIsNew
    <3>4. CASE BindUpsert(c) \/ BindRollback(c) \/ UnbindBegin(c) \/ RemoteAnswered(c)
               \/ UnbindLocal(c) \/ UnbindRegistry(c)
      <4>1. flow'[c] = NoFlow \/ flow'[c].at \notin {"register", "write", "upsert"}
        BY <1>0, <3>4, Moves
      <4> QED
        BY <4>1 DEF NoFlow
    <3> QED
      BY <1>2, <3>1, <3>2, <3>3, <3>4 DEF BindStep
  <2> QED
    BY <2>0, <2>1 DEF CreatedIsNew
<1> QED
  BY <1>1, <1>2, NoMove DEF BindNext

\* Without faults every registration has its reason, and a bind that failed leaves none.
LEMMA RegistrationStep ==
    ASSUME Bindings, NeverWatched, CreatedIsNew, RegistrationAccounted, NothingLeft,
           faults = 0, faults' = 0, [BindNext]_allVars
    PROVE  RegistrationAccounted' /\ NothingLeft'
<1> USE WatcherConstants
<1>0. /\ flow \in [Callers -> FlowType] /\ CallersTyped /\ EverBound \subseteq EverBound'
      /\ indexed \subseteq Workspaces
      /\ \A c \in Callers : Keeps(c) /\ Belongs(c) /\ (DrewIt(c) => IsAlone(c)) /\ DrawnFlow(flow[c])
      /\ indexed \cap Fresh = {}
  BY BindingsUnfold, EverBoundGrows DEF Bindings, Typed, Drawn
\* Steps that leave the index alone.
<1>r. ASSUME \A i \in indexed' : i \in indexed,
             \A i \in indexed' : i \in stored => i \in stored' \/ \E c \in Callers : call'[c].verb = "forget" /\ lock'[i] = c,
             \A c \in Callers, i \in indexed' : call[c].verb = "forget" /\ lock[i] = c =>
                call'[c].verb = "forget" /\ lock'[i] = c,
             \A c \in Callers : Pending(c) /\ flow[c].id \in indexed' =>
                flow[c].id \in EverBound' \/ (Pending(c)' /\ flow'[c].id = flow[c].id)
      PROVE  RegistrationAccounted'
  BY <1>0, <1>r DEF RegistrationAccounted
<1>1. CASE UNCHANGED allVars
  <2>1. UNCHANGED <<indexed, stored, call, lock, reply, flow>>
    BY <1>1 DEF allVars, vars, callVars, bindVars
  <2> QED
    BY <1>r, <2>1 DEF Pending, NothingLeft, Unregistered
<1>2. ASSUME NEW c \in Callers, NEW w \in Workspaces, Calls(c, w), UNCHANGED bindVars
      PROVE  RegistrationAccounted' /\ NothingLeft'
  <2>1. UNCHANGED <<indexed, stored, flow>>
    BY <1>2, WatcherFrame, BindingsUnfold DEF bindVars
  <2>2. /\ call[c].verb # "forget"
        /\ \/ UNCHANGED <<lock, call, reply>>
           \/ call[c].verb = "start" /\ lock[w] = c /\ UNCHANGED <<lock, reply>> /\ call' = [call EXCEPT ![c].verb = "settle"]
           \/ \E answer : Answer(c, answer) /\ flow[c].at = "stop"
           \/ lock[w] = Free /\ \E verb, g : Hold(c, w, verb, g)
           \/ lock[w] = c /\ Finish(c, w, "none")
           \/ lock[w] = c /\ call[c].verb = "stop" /\ \E answer : Finish(c, w, answer)
    <3>1. CASE StartSpawn(c, w)
      BY <3>1 DEF StartSpawn, Ready, Idle
    <3>2. CASE StartRecord(c, w) \/ StartSettle(c, w)
      BY <3>2 DEF StartRecord, StartSettle
    <3>3. CASE StopUnsignalled(c, w) /\ flow[c].at = "stop"
      BY <3>3 DEF StopUnsignalled, Ready, Idle
    <3>4. CASE StopSignal(c, w)
      BY <3>4 DEF StopSignal, Ready, Idle
    <3>5. CASE StopPolled(c, w)
      BY <3>5 DEF StopPolled
    <3>6. CASE Status(c, w)
      BY <3>6 DEF Status, Ready, Idle, callVars
    <3>7. CASE CallerKilled(c, w)
      <4>1. faults' = faults + 1
        BY <3>7 DEF CallerKilled
      <4> QED
        BY <4>1
    <3> QED
      BY <1>2, <3>1, <3>2, <3>3, <3>4, <3>5, <3>6, <3>7 DEF Calls
  <2>3. /\ \A d \in Callers \ {c} : call'[d] = call[d] /\ reply'[d] = reply[d]
        /\ \A d \in Callers \ {c}, v \in Workspaces : lock[v] = d => lock'[v] = d
        /\ reply'[c] \in {reply[c], "none"} \/ flow[c].at = "stop"
    <3>1. CASE UNCHANGED <<lock, call, reply>>
      BY <3>1
    <3>2. CASE UNCHANGED <<lock, reply>> /\ call' = [call EXCEPT ![c].verb = "settle"]
      BY <1>0, <3>2 DEF CallersTyped
    <3>3. CASE \E answer : Answer(c, answer) /\ flow[c].at = "stop"
      BY <1>0, <3>3, RequestEffects
    <3>4. CASE lock[w] = Free /\ \E verb, g : Hold(c, w, verb, g)
      <4>1. PICK verb, g : Hold(c, w, verb, g)
        BY <3>4
      <4>2. /\ reply'[c] = "none"
            /\ \A d \in Callers \ {c} : call'[d] = call[d] /\ reply'[d] = reply[d]
            /\ \A v \in Workspaces \ {w} : lock'[v] = lock[v]
        BY <1>0, <4>1, RequestEffects
      <4> QED
        BY <3>4, <4>2
    <3>5. CASE lock[w] = c /\ Finish(c, w, "none")
      BY <1>0, <3>5, RequestEffects
    <3>6. CASE lock[w] = c /\ call[c].verb = "stop" /\ \E answer : Finish(c, w, answer)
      <4>1. flow[c].at = "stop"
        BY <1>0, <3>6 DEF Belongs
      <4> QED
        BY <1>0, <3>6, <4>1, RequestEffects
    <3> QED
      BY <2>2, <3>1, <3>2, <3>3, <3>4, <3>5, <3>6
  <2>4. RegistrationAccounted'
    BY <1>0, <1>r, <2>1, <2>2, <2>3 DEF Pending
  <2>5. NothingLeft'
    BY <2>1, <2>3 DEF NothingLeft, Unregistered
  <2> QED
    BY <2>4, <2>5
<1>3. CASE ProcStep /\ UNCHANGED bindVars
  <2>1. UNCHANGED <<indexed, stored, call, lock, reply, flow>>
    <3>1. UNCHANGED <<lock, call, reply>>
      BY <1>3 DEF ProcStep, Boot, Attach, Watch, Leave, Killed, callVars
    <3> QED
      BY <1>3, <3>1, WatcherFrame, BindingsUnfold DEF bindVars
  <2> QED
    BY <1>r, <2>1 DEF Pending, NothingLeft, Unregistered
<1>4. ASSUME NEW c \in Callers, NEW i \in Workspaces, ForgetCalls(c, i)
      PROVE  RegistrationAccounted' /\ NothingLeft'
  <2>0. UNCHANGED flow /\ flow[c].id = i
    BY <1>4, ForgetEffects
  <2>p. \A d \in Callers : Pending(d)' <=> Pending(d)
    BY <2>0 DEF Pending
  <2>1. CASE ForgetAside(c, i)
    <3>1. /\ UNCHANGED indexed /\ stored' = stored \ {i} /\ Hold(c, i, "forget", NoGen)
          /\ Ready(c, i) /\ indexLock = Free
      BY <2>1 DEF ForgetAside
    <3>2. /\ \A d \in Callers \ {c} : call'[d] = call[d] /\ reply'[d] = reply[d]
          /\ call'[c] = [verb |-> "forget", of |-> NoGen] /\ reply'[c] = "none" /\ lock'[i] = c
      BY <1>0, <3>1, RequestEffects
    <3>3. \A d \in Callers : call[d].verb # "forget"
      BY <1>0, <3>1 DEF Belongs
    <3>4. call'[c].verb = "forget"
      BY <3>2
    <3>5. RegistrationAccounted'
      BY <1>r, <2>0, <2>p, <3>1, <3>2, <3>3, <3>4
    <3>6. NothingLeft'
      BY <2>0, <3>1, <3>2 DEF NothingLeft, Unregistered
    <3> QED
      BY <3>5, <3>6
  <2>2. CASE ForgetIndex(c, i)
    <3>1. /\ lock[i] = c /\ call[c].verb = "forget" /\ UNCHANGED stored
      BY <2>2 DEF ForgetIndex
    <3>2. indexed' = indexed \ {i} /\ Finish(c, i, "ok")
      BY <2>2 DEF ForgetIndex, Fault
    <3>3. /\ \A d \in Callers \ {c} : call'[d] = call[d] /\ reply'[d] = reply[d]
          /\ \A v \in Workspaces \ {i} : lock'[v] = lock[v]
      BY <1>0, <3>2, RequestEffects
    <3>4. \A v \in Workspaces \ {i} : lock[v] # c
      BY <1>0, <3>1 DEF Belongs
    <3>5. RegistrationAccounted'
      BY <1>0, <1>r, <2>0, <2>p, <3>1, <3>2, <3>3, <3>4
    <3>6. NothingLeft'
      BY <2>0, <3>2, <3>3 DEF NothingLeft, Unregistered
    <3> QED
      BY <3>5, <3>6
  <2>3. CASE ForgetAnswered(c, i)
    <3>1. /\ UNCHANGED <<indexed, stored>> /\ Ready(c, i) /\ \E answer : Answer(c, answer)
      BY <2>3 DEF ForgetAnswered
    <3>2. UNCHANGED <<lock, call>> /\ \A d \in Callers \ {c} : reply'[d] = reply[d]
      BY <1>0, <3>1, RequestEffects
    <3>3. RegistrationAccounted'
      BY <1>r, <2>0, <2>p, <3>1, <3>2
    <3>4. flow[c].at = "undo" => i \notin indexed
      <4>1. SUFFICES ASSUME flow[c].at = "undo", i \in indexed PROVE FALSE
        OBVIOUS
      <4>2. i \in stored
        BY <4>1, <3>1 DEF RegistrationAccounted, Ready
      <4>3. Identities(i) \cap {"current", "unknown"} # {}
        BY <2>3, <4>1, <4>2 DEF ForgetAnswered
      <4>4. i \notin EverBound
        BY <1>0, <2>0, <4>1 DEF DrewIt, IsAlone
      <4>5. row[i] = NoRow
        BY <4>4 DEF NeverWatched
      <4>6. Identities(i) = {"dead"}
        BY <4>5 DEF Identities, NoRow
      <4> QED
        BY <4>3, <4>6
    <3>5. NothingLeft'
      BY <2>0, <3>1, <3>2, <3>4 DEF NothingLeft, Unregistered
    <3> QED
      BY <3>3, <3>5
  <2> QED
    BY <1>4, <2>1, <2>2, <2>3 DEF ForgetCalls
<1>5. ASSUME NEW c \in Callers, BindStep(c)
      PROVE  RegistrationAccounted' /\ NothingLeft'
  <2>0. /\ \A d \in Callers \ {c} : flow'[d] = flow[d]
    BY <1>0, <1>5, Moves, CheckDraws DEF BindStep, Bindings
  <2>1. CASE BindRegister(c)
    <3>0. /\ UNCHANGED <<lock, call, reply>> /\ flow[c].at = "register"
          /\ flow'[c].id = flow[c].id /\ flow'[c].had = flow[c].had
          /\ reply[c] = "none"
      BY <1>0, <2>1, Moves DEF BindRegister, callVars, Belongs
    <3>1. CASE UNCHANGED <<indexed, stored>> /\ flow'[c].at = "rollback" /\ flow'[c].created = FALSE
      <4>1. RegistrationAccounted'
        BY <1>r, <2>0, <3>0, <3>1 DEF Pending
      <4>2. NothingLeft'
        BY <2>0, <3>0, <3>1 DEF NothingLeft, Unregistered
      <4> QED
        BY <4>1, <4>2
    <3>2. CASE RegisterRemote(flow[c].id) /\ flow'[c].at = "write"
      <4>1. /\ indexed' = indexed \cup {flow[c].id} /\ stored' = stored \cup {flow[c].id}
        BY <3>2 DEF RegisterRemote
      <4>2. \A d \in Callers \ {c} : Pending(d)' <=> Pending(d)
        BY <2>0 DEF Pending
      <4>3. Pending(c)' /\ ~Pending(c)
        BY <3>0, <3>2 DEF Pending
      <4>4. RegistrationAccounted'
        BY <1>0, <2>0, <3>0, <4>1, <4>2, <4>3 DEF RegistrationAccounted
      <4>5. \A d \in Callers \ {c} : Unregistered(d)' => flow[d].id # flow[c].id /\ Unregistered(d)
        BY <1>0, <2>0, <3>0 DEF Unregistered, DrewIt, IsAlone, Binds
      <4>6. ~Unregistered(c)'
        BY <3>2 DEF Unregistered
      <4> QED
        BY <2>0, <4>1, <4>4, <4>5, <4>6 DEF NothingLeft
    <3>3. \/ UNCHANGED <<indexed, stored>> /\ flow'[c].at = "rollback" /\ flow'[c].created = FALSE
          \/ RegisterRemote(flow[c].id) /\ flow'[c].at = "write"
      <4>1. CASE ~RootTaken(flow[c].id) /\ RegisterRemote(flow[c].id) /\ Enter(c, "write")
        BY <1>0, <4>1 DEF Enter
      <4>2. CASE /\ UNCHANGED <<indexed, stored, row>>
                 /\ flow' = [flow EXCEPT ![c].at = "rollback", ![c].created = FALSE]
        BY <1>0, <4>2 DEF FlowType
      <4>3. CASE Fault
        BY <4>3 DEF Fault
      <4> QED
        BY <2>1, <4>1, <4>2, <4>3 DEF BindRegister
    <3> QED
      BY <3>1, <3>2, <3>3
  \* The other steps leave the registrations to the agents.
  <2>2. ASSUME UNCHANGED <<indexed, stored, lock, call>>,
               \A d \in Callers \ {c} : reply'[d] = reply[d],
               Pending(c) /\ flow[c].id \in indexed =>
                  flow[c].id \in EverBound' \/ (Pending(c)' /\ flow'[c].id = flow[c].id),
               Unregistered(c)' => flow'[c].id \notin indexed
        PROVE  RegistrationAccounted' /\ NothingLeft'
    <3>1. \A d \in Callers \ {c} : (Pending(d)' <=> Pending(d)) /\ (Unregistered(d)' <=> Unregistered(d))
      BY <2>0, <2>2 DEF Pending, Unregistered
    <3>2. RegistrationAccounted'
      BY <1>r, <2>0, <2>2, <3>1
    <3>3. NothingLeft'
      BY <2>0, <2>2, <3>1 DEF NothingLeft
    <3> QED
      BY <3>2, <3>3
  <2>3. CASE BindCheck(c)
    <3>1. UNCHANGED <<indexed, stored, lock, call, reply>> /\ flow[c] = NoFlow
      BY <2>3, CheckDraws DEF Bindings, vars, callVars
    <3>2. Unregistered(c)' => flow'[c].id \notin indexed
      BY <1>0, <2>3, CheckDraws DEF Bindings, Unregistered
    <3>3. ~Pending(c)
      BY <3>1 DEF Pending, NoFlow
    <3> QED
      BY <2>2, <3>1, <3>2, <3>3
  <2>4. CASE BindWrite(c)
    <3>1. /\ UNCHANGED <<indexed, stored, lock, call, reply>>
          /\ flow'[c].id = flow[c].id /\ flow'[c].at = "upsert"
      <4>1. Enter(c, "upsert") \/ Fault
        BY <2>4 DEF BindWrite
      <4>2. ~Fault
        BY DEF Fault
      <4>3. flow'[c].at = "upsert" /\ flow'[c].id = flow[c].id
        BY <1>0, <4>1, <4>2 DEF Enter, FlowType
      <4> QED
        BY <2>4, <4>3 DEF BindWrite, callVars
    <3> QED
      BY <2>2, <3>1 DEF Pending, Unregistered
  <2>5. CASE BindUpsert(c)
    <3>1. /\ UNCHANGED <<indexed, stored, lock, call, reply>> /\ flow[c].at = "upsert"
      BY <2>5 DEF BindUpsert, callVars
    <3>2. CASE /\ flow'[c] = NoFlow
               /\ record' = [record EXCEPT ![flow[c].id] = [name |-> flow[c].name, local |-> flow[c].local]]
      <4>1. flow[c].id \in Workspaces /\ flow[c].name \in Names
        BY <3>1, BindingsUnfold DEF DrawnFlow, Binds
      <4>2. record'[flow[c].id] # NoRecord
        BY <3>2, <4>1, BindingsUnfold, BindConstants DEF RecordsTyped, NoRecord
      <4>3. flow[c].id \in EverBound'
        BY <4>1, <4>2 DEF EverBound, Bound
      <4>4. ~Unregistered(c)'
        BY <3>2 DEF Unregistered, NoFlow
      <4> QED
        BY <2>2, <3>1, <4>3, <4>4
    <3>3. CASE /\ flow'[c].id = flow[c].id /\ flow'[c].had = flow[c].had
               /\ flow'[c].created = flow[c].created /\ flow'[c].at = "rollback"
      <4>1. flow[c].had \/ flow[c].created
        BY <3>1 DEF CreatedIsNew
      <4>2. flow[c].had => flow[c].id \in EverBound
        BY <1>0, <3>1 DEF Keeps, Binds
      <4>3. ~Unregistered(c)'
        BY <3>3, <4>1 DEF Unregistered
      <4>4. Pending(c)' \/ flow[c].id \in EverBound'
        BY <1>0, <3>3, <4>1, <4>2 DEF Pending
      <4> QED
        BY <2>2, <3>1, <3>3, <4>3, <4>4
    <3> QED
      BY <1>0, <2>5, <3>2, <3>3, Moves
  <2>6. CASE BindRollback(c)
    <3>1. /\ UNCHANGED <<indexed, stored, lock, call, reply>> /\ flow[c].at = "rollback"
      BY <2>6 DEF BindRollback, vars, callVars
    <3>2. reply[c] = "none"
      BY <1>0, <3>1 DEF Belongs
    <3>3. \/ flow'[c] = NoFlow /\ ~flow[c].created
          \/ flow'[c].at = "undo" /\ flow'[c].id = flow[c].id /\ flow[c].created
      BY <1>0, <2>6, Moves
    <3>4. ~Unregistered(c)' /\ (Pending(c) => Pending(c)' /\ flow'[c].id = flow[c].id)
      BY <3>1, <3>2, <3>3 DEF Unregistered, Pending, NoFlow
    <3> QED
      BY <2>2, <3>1, <3>4
  <2>7. CASE UnbindBegin(c)
    <3>1. /\ UNCHANGED <<indexed, stored, lock, call, reply>> /\ flow[c] = NoFlow
      BY <2>7 DEF UnbindBegin, Begin, vars, callVars
    <3>2. ~Pending(c)
      BY <3>1 DEF Pending, NoFlow
    <3>3. ~Unregistered(c)'
      BY <1>0, <2>7, Moves DEF Unregistered
    <3> QED
      BY <2>2, <3>1, <3>2, <3>3
  <2>8. CASE RemoteAnswered(c)
    <3>1. /\ UNCHANGED <<indexed, stored, lock, call>> /\ \A d \in Callers \ {c} : reply'[d] = reply[d]
          /\ reply[c] # "none" /\ flow[c].at \in {"undo", "stop", "remote"}
      BY <1>0, <2>8 DEF RemoteAnswered, CallersTyped
    <3>2. flow[c].at = "undo" => flow[c].id \notin indexed
      BY <3>1 DEF NothingLeft, Unregistered
    <3>3. ~Unregistered(c)'
      <4>1. flow'[c] = NoFlow \/ flow'[c].at \in {"remote", "local"}
        BY <1>0, <2>8, Moves
      <4> QED
        BY <4>1 DEF Unregistered, NoFlow
    <3> QED
      BY <2>2, <3>1, <3>2, <3>3 DEF Pending
  <2>9. CASE UnbindLocal(c) \/ UnbindRegistry(c)
    <3>1. /\ UNCHANGED <<indexed, stored, lock, call, reply>> /\ flow[c].at \in {"local", "registry"}
      BY <2>9 DEF UnbindLocal, UnbindRegistry, vars, callVars
    <3>2. flow'[c] = NoFlow \/ flow'[c].at = "registry"
      BY <1>0, <2>9, Moves
    <3>3. ~Unregistered(c)' /\ ~Pending(c)
      BY <3>1, <3>2 DEF Unregistered, Pending, NoFlow
    <3> QED
      BY <2>2, <3>1, <3>3
  <2> QED
    BY <1>5, <2>1, <2>3, <2>4, <2>5, <2>6, <2>7, <2>8, <2>9 DEF BindStep
<1> QED
  BY <1>1, <1>2, <1>3, <1>4, <1>5 DEF BindNext

\* Faults are only ever counted up.
LEMMA FaultsCount ==
    ASSUME TypeOK, [BindNext]_allVars
    PROVE  faults \in Nat /\ (faults' = 0 => faults = 0)
<1>0. faults \in Nat
  BY TypeParts, WatcherConstants DEF ProcessesTyped
<1>1. CASE UNCHANGED allVars
  BY <1>0, <1>1 DEF allVars, vars
<1>2. CASE ProcStep \/ \E c \in Callers, w \in Workspaces : Calls(c, w)
  BY <1>0, <1>2, WatcherFrame
<1>3. ASSUME NEW c \in Callers, NEW w \in Workspaces, ForgetCalls(c, w)
      PROVE  faults' = 0 => faults = 0
  BY <1>0, <1>3 DEF ForgetCalls, ForgetAside, ForgetAnswered, ForgetIndex, Fault
<1>4. ASSUME NEW c \in Callers, BindStep(c)
      PROVE  faults' = 0 => faults = 0
  <2>1. CASE BindCheck(c) \/ UnbindBegin(c) \/ BindRollback(c) \/ UnbindLocal(c) \/ UnbindRegistry(c)
    BY <2>1 DEF BindCheck, UnbindBegin, BindRollback, UnbindLocal, UnbindRegistry, vars
  <2>2. CASE BindRegister(c) \/ BindWrite(c) \/ BindUpsert(c) \/ RemoteAnswered(c)
    BY <1>0, <2>2 DEF BindRegister, BindWrite, BindUpsert, RemoteAnswered, Fault
  <2> QED
    BY <1>4, <2>1, <2>2 DEF BindStep
<1> QED
  BY <1>0, <1>1, <1>2, <1>3, <1>4 DEF BindNext

\* The last part of the inductive invariant.
LEMMA ExplainedStep ==
    ASSUME Bindings, WatchersRecorded, Explained, [BindNext]_allVars
    PROVE  Explained'
<1>1. NeverWatched' /\ MetaAccounted' /\ CreatedIsNew'
  BY NeverWatchedStep, MetaStep, CreatedStep DEF Explained
<1>2. ASSUME faults' = 0
      PROVE  RegistrationAccounted' /\ NothingLeft'
  BY <1>2, FaultsCount, BindingsUnfold, RegistrationStep DEF Explained
<1> QED
  BY <1>1, <1>2 DEF Explained

\* Every registration and metadata directory has its reason, in every behaviour without
\* faults.
THEOREM RegistrationsExplained == BindSpec => []Explained
<1>1. ASSUME BindInit
      PROVE  Explained
  <2>1. NeverWatched
    BY <1>1, WatcherConstants DEF BindInit, WatcherInit, NeverWatched
  <2>2. MetaAccounted /\ RegistrationAccounted /\ NothingLeft
    BY <1>1 DEF BindInit, MetaAccounted, RegistrationAccounted, NothingLeft
  <2>3. CreatedIsNew
    BY <1>1 DEF BindInit, CreatedIsNew, NoFlow
  <2> QED
    BY <2>1, <2>2, <2>3 DEF Explained
<1>2. Bindings /\ WatchersRecorded /\ Explained /\ [BindNext]_allVars => Explained'
  BY ExplainedStep
<1> QED
  BY <1>1, <1>2, BindingsCorrect, PTL DEF BindSpec

\* LoserLeavesNothing: once every command has ended, a bind that lost a race has left
\* nothing behind.
THEOREM LosersClean == BindSpec => []LoserLeavesNothing
<1>1. Bindings /\ Explained => LoserLeavesNothing
  <2> SUFFICES ASSUME Bindings, Explained, faults = 0, forgotten = {},
                      \A c \in Callers : flow[c] = NoFlow
               PROVE  indexed = Bound /\ meta = Bound
    BY DEF LoserLeavesNothing
  <2>1. \A c \in Callers : ~Pending(c) /\ flow[c].at \notin {"upsert", "rollback"}
    BY DEF Pending, NoFlow
  <2>2. indexed \subseteq Bound /\ meta \subseteq Bound
    BY <2>1 DEF Explained, RegistrationAccounted, MetaAccounted, EverBound
  <2>3. Bound \subseteq indexed /\ Bound \subseteq meta
    BY DEF Bindings, BoundIsWhole
  <2> QED
    BY <2>2, <2>3
<1> QED
  BY <1>1, BindingsCorrect, RegistrationsExplained, PTL
=============================================================================
