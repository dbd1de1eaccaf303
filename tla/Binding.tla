------------------------------- MODULE Binding -------------------------------
(***************************************************************************)
(* Binding a local directory to a remote one and forgetting the binding    *)
(* (bind.py, registry.py, workspace.py, cli.py, remote_agent/__main__.py): *)
(* several command lines at once, over the watchers of WatcherGeneration.  *)
(*                                                                         *)
(* A workspace is the uuid that new_workspace_spec draws.  Its record is   *)
(* spread over the remote index and store, the local metadata directory    *)
(* and the registry file; a command changes them one after the other.      *)
(***************************************************************************)
EXTENDS WatcherGeneration

CONSTANTS
    Names, Locals, Roots, NoName,
    MaxCommands     \* bound on the commands begun

ASSUME BindConstants ==
    /\ NoName \notin Workspaces \cup Names \cup Locals \cup Roots
    /\ MaxCommands \in Nat

VARIABLES
    root,       \* the remote root of a workspace, fixed when its uuid is drawn
    record,     \* its registry record: [name, local]
    meta,       \* workspaces with a local metadata directory
    flow,       \* the command a caller runs
    indexLock,  \* holder of index.lock
    forgotten,  \* workspaces some command began to forget
    commands    \* commands begun

bindVars == <<root, record, meta, flow, indexLock, forgotten, commands>>
allVars == <<vars, bindVars>>

NoRecord == [name |-> NoName, local |-> NoName]
NoFlow == [at |-> "idle", id |-> NoName, name |-> NoName, local |-> NoName,
           had |-> FALSE, created |-> FALSE]

Bound == {i \in Workspaces : record[i] # NoRecord}
Fresh == {i \in Workspaces : root[i] = NoName}

BindTypeOK ==
    /\ TypeOK
    /\ root \in [Workspaces -> Roots \cup {NoName}]
    /\ record \in [Workspaces -> [name : Names, local : Locals] \cup {NoRecord}]
    /\ meta \subseteq Workspaces \ Fresh
    /\ flow \in [Callers -> [at : {"idle", "register", "write", "upsert", "rollback", "undo",
                                   "stop", "remote", "local", "registry"},
                             id : Workspaces \cup {NoName}, name : Names \cup {NoName},
                             local : Locals \cup {NoName}, had : BOOLEAN, created : BOOLEAN]]
    /\ indexLock \in Callers \cup {Free}
    /\ forgotten \subseteq Workspaces \ Fresh
    /\ commands \in 0..MaxCommands

BindInit ==
    /\ WatcherInit
    /\ indexed = {} /\ stored = {}
    /\ root = [i \in Workspaces |-> NoName]
    /\ record = [i \in Workspaces |-> NoRecord]
    /\ meta = {} /\ forgotten = {}
    /\ flow = [c \in Callers |-> NoFlow]
    /\ indexLock = Free
    /\ commands = 0

Enter(c, stage) == flow' = [flow EXCEPT ![c].at = stage]
Begin(c) ==
    /\ flow[c] = NoFlow /\ call[c] = Idle
    /\ commands < MaxCommands /\ commands' = commands + 1
End(c) == flow' = [flow EXCEPT ![c] = NoFlow]
Fault == faults < MaxFaults /\ faults' = faults + 1

-----------------------------------------------------------------------------
(* The agent verbs register and forget.                                    *)

\* Another workspace already watches this root.
RootTaken(i) == \E j \in indexed : j # i /\ root[j] = root[i]

\* _handle_register, under index.lock; a new store has no watcher row.
RegisterRemote(i) ==
    /\ indexLock = Free
    /\ indexed' = indexed \cup {i} /\ stored' = stored \cup {i}
    /\ row' = IF i \in stored THEN row ELSE [row EXCEPT ![i] = NoRow]

\* _handle_forget: both locks, then the metadata is moved aside.
ForgetAside(c, i) ==
    /\ indexLock = Free /\ Ready(c, i) /\ Registered(i)
    /\ Identities(i) \cap {"dead", "mismatch"} # {}
    /\ stored' = stored \ {i}
    /\ indexLock' = c /\ Hold(c, i, "forget", NoGen)
    /\ UNCHANGED <<indexed, watcherVars, faults, root, record, meta, flow, forgotten, commands>>

\* The index row goes last.  A killed agent, or a deletion that fails after it
\* removed the database, leaves an index row without its store.
ForgetIndex(c, i) ==
    /\ call[c].verb = "forget" /\ lock[i] = c
    /\ indexLock' = Free
    /\ \/ indexed' = indexed \ {i} /\ Finish(c, i, "ok") /\ UNCHANGED faults
       \/ Fault /\ Finish(c, i, "error") /\ UNCHANGED indexed
    /\ UNCHANGED <<stored, watcherVars, root, record, meta, flow, forgotten, commands>>

\* Nothing to forget, or a watcher that may be running.
ForgetAnswered(c, i) ==
    /\ indexLock = Free /\ Ready(c, i)
    /\ \/ i \notin indexed /\ Answer(c, "ok")
       \/ i \in indexed /\ i \notin stored /\ Answer(c, "error")
       \/ Registered(i) /\ Identities(i) \cap {"current", "unknown"} # {} /\ Answer(c, "error")
    /\ UNCHANGED <<indexed, stored, watcherVars, faults, bindVars>>

-----------------------------------------------------------------------------
(* bind_workspace.                                                         *)

\* _existing_workspace: records of this name, or of this pair of directories.
Candidates(name, local, r) ==
    {i \in Bound : record[i].name = name \/ (root[i] = r /\ record[i].local = local)}

\* ensure_connection_name_available, for a name given on the command line.
NameAvailable(name, r) == \A i \in Bound : record[i].name = name => root[i] = r

\* The checks, and the workspace to create or to bind again.  A generated name
\* is one no record has.
BindCheck(c) ==
    /\ Begin(c)
    /\ \E name \in Names, local \in Locals, r \in Roots, given \in BOOLEAN :
        LET existing == Candidates(IF given THEN name ELSE NoName, local, r) IN
        /\ given => NameAvailable(name, r)
        /\ ~given /\ existing = {} => \A i \in Bound : record[i].name # name
        /\ ~given /\ existing # {} => \A i \in existing : record[i].name = name
        /\ \E i \in Workspaces :
            /\ IF existing = {}
               THEN i \in Fresh
               ELSE existing = {i} /\ i \in meta /\ root[i] = r
            /\ root' = [root EXCEPT ![i] = r]
            /\ flow' = [flow EXCEPT ![c] =
                  [at |-> "register", id |-> i, name |-> name, local |-> local,
                   had |-> i \in meta, created |-> existing = {}]]
    /\ UNCHANGED <<vars, record, meta, indexLock, forgotten>>

\* Client.register; the request or its answer may be lost.
BindRegister(c) ==
    LET i == flow[c].id IN
    /\ flow[c].at = "register"
    /\ \/ ~RootTaken(i) /\ RegisterRemote(i) /\ Enter(c, "write") /\ UNCHANGED faults
       \/ /\ ~RootTaken(i) /\ RegisterRemote(i) /\ Fault
          /\ flow' = [flow EXCEPT ![c].at = "rollback", ![c].created = FALSE]
       \/ /\ indexLock = Free
          /\ (RootTaken(i) /\ UNCHANGED faults) \/ Fault
          /\ UNCHANGED <<indexed, stored, row>>
          /\ flow' = [flow EXCEPT ![c].at = "rollback", ![c].created = FALSE]
    /\ UNCHANGED <<owner, proc, told, reused, callVars, root, record, meta, indexLock, forgotten, commands>>

\* write_workspace_spec and WorkspaceStore.open
BindWrite(c) ==
    /\ flow[c].at = "write"
    /\ meta' = meta \cup {flow[c].id}
    /\ \/ Enter(c, "upsert") /\ UNCHANGED faults
       \/ Fault /\ Enter(c, "rollback")
    /\ UNCHANGED <<indexed, stored, watcherVars, callVars, root, record, indexLock, forgotten, commands>>

\* Coding error: the checks made before the lock are trusted.
UpsertUnchecked(c) == FALSE

\* The conflicts upsert_binding_record finds when it reads the file again under its lock.
UpsertConflict(c) ==
    \E i \in Bound \ {flow[c].id} :
        record[i].name = flow[c].name \/ record[i].local = flow[c].local

\* register_workspace: the record is replaced in one file rename.
BindUpsert(c) ==
    /\ flow[c].at = "upsert"
    /\ \/ /\ ~UpsertConflict(c)
          /\ record' = [record EXCEPT ![flow[c].id] = [name |-> flow[c].name, local |-> flow[c].local]]
          /\ End(c) /\ UNCHANGED faults
       \/ /\ (UpsertConflict(c) /\ UNCHANGED faults) \/ Fault
          /\ Enter(c, "rollback") /\ UNCHANGED record
    /\ UNCHANGED <<indexed, stored, watcherVars, callVars, root, meta, indexLock, forgotten, commands>>

\* Coding error: the directory is removed whether or not it was there before.
RollbackLocalAll(c) == meta' = meta \ {flow[c].id}

\* _rollback_local_metadata: only a directory this command created is removed.
RollbackLocal(c) == meta' = IF flow[c].had THEN meta ELSE meta \ {flow[c].id}

\* Coding error: the remote registration is left to the next command.
BindRollbackLocal(c) ==
    /\ flow[c].at = "rollback"
    /\ RollbackLocal(c) /\ End(c)
    /\ UNCHANGED <<vars, root, record, indexLock, forgotten, commands>>

\* Then a registration this command created is forgotten, errors suppressed.
BindRollback(c) ==
    /\ flow[c].at = "rollback"
    /\ RollbackLocal(c)
    /\ IF flow[c].created
       THEN flow' = [flow EXCEPT ![c] = [NoFlow EXCEPT !.at = "undo", !.id = flow[c].id]]
       ELSE End(c)
    /\ UNCHANGED <<vars, root, record, indexLock, forgotten, commands>>

-----------------------------------------------------------------------------
(* rsb forget: five deletions in a row, given up at the first that fails.  *)

UnbindBegin(c) ==
    /\ Begin(c)
    /\ \E i \in Bound, localOnly \in BOOLEAN :
        /\ flow' = [flow EXCEPT ![c].at = IF localOnly THEN "local" ELSE "stop",
                                ![c].id = i, ![c].name = record[i].name]
        /\ forgotten' = forgotten \cup {i}
    /\ UNCHANGED <<vars, root, record, meta, indexLock>>

\* A remote call of this command has answered, or its answer is lost.
RemoteAnswered(c) ==
    /\ call[c] = Idle /\ reply[c] # "none" /\ flow[c].at \in {"undo", "stop", "remote"}
    /\ IF flow[c].at # "undo" /\ reply[c] = "ok"
       THEN Enter(c, IF flow[c].at = "stop" THEN "remote" ELSE "local") \/ End(c)
       ELSE End(c)
    /\ reply' = [reply EXCEPT ![c] = "none"]
    /\ UNCHANGED <<indexed, stored, watcherVars, lock, call, faults, root, record, meta,
                   indexLock, forgotten, commands>>

UnbindLocal(c) ==
    /\ flow[c].at = "local"
    /\ meta' = meta \ {flow[c].id}
    /\ Enter(c, "registry")
    /\ UNCHANGED <<vars, root, record, indexLock, forgotten, commands>>

\* delete_binding_record: the name must still belong to this workspace.
UnbindRegistry(c) ==
    /\ flow[c].at = "registry"
    /\ record' = IF record[flow[c].id].name = flow[c].name
                 THEN [record EXCEPT ![flow[c].id] = NoRecord] ELSE record
    /\ End(c)
    /\ UNCHANGED <<vars, root, meta, indexLock, forgotten, commands>>

-----------------------------------------------------------------------------
\* Which caller may issue which verb: a supervisor starts the watcher of a
\* bound workspace, the commands stop it and forget it.
Calls(c, w) ==
    \/ /\ flow[c] = NoFlow /\ w \in Bound
       /\ StartSpawn(c, w) \/ Status(c, w)
    \/ StartRecord(c, w) \/ StartSettle(c, w) \/ StopPolled(c, w)
    \/ call[c].verb # "forget" /\ CallerKilled(c, w)
    \/ /\ flow[c].at = "stop" /\ flow[c].id = w /\ reply[c] = "none"
       /\ StopUnsignalled(c, w) \/ StopSignal(c, w)

ForgetCalls(c, w) ==
    \/ /\ flow[c].at \in {"remote", "undo"} /\ flow[c].id = w /\ reply[c] = "none"
       /\ ForgetAside(c, w) \/ ForgetAnswered(c, w)
    \/ ForgetIndex(c, w)

BindStep(c) ==
    \/ BindCheck(c) \/ BindRegister(c) \/ BindWrite(c) \/ BindUpsert(c) \/ BindRollback(c)
    \/ UnbindBegin(c) \/ RemoteAnswered(c) \/ UnbindLocal(c) \/ UnbindRegistry(c)

BindNext ==
    \/ \E c \in Callers, w \in Workspaces :
        (Calls(c, w) /\ UNCHANGED bindVars) \/ ForgetCalls(c, w)
    \/ (ProcStep /\ UNCHANGED bindVars)
    \/ \E c \in Callers : BindStep(c)

BindSpec == BindInit /\ [][BindNext]_allVars

-----------------------------------------------------------------------------
(* Properties.                                                             *)

\* Two commands that both found a name, a directory or a remote root unused do
\* not both bind it.
OneBindingEach ==
    /\ \A i, j \in Bound : i # j => record[i].name # record[j].name /\ record[i].local # record[j].local
    /\ \A i, j \in indexed : i # j => root[i] # root[j]

\* A bound workspace nobody began to forget has its remote registration and its
\* local metadata: no failed or racing bind takes them away from another.
BoundIsWhole == Bound \ forgotten \subseteq indexed \cap stored \cap meta

\* Once every command has ended, a bind that lost a race has left nothing behind.
LoserLeavesNothing ==
    faults = 0 /\ forgotten = {} /\ (\A c \in Callers : flow[c] = NoFlow)
        => indexed = Bound /\ meta = Bound
=============================================================================
