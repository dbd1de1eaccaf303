----------------------------- MODULE InotifyWatcher ----------------------------
(***************************************************************************)
(* The remote watcher (remote_agent/inotify.py): it watches every          *)
(* directory of the tree with a kernel watch of its own, pairs the two     *)
(* halves of a rename by their cookie, adds watches to directories that    *)
(* appear, and starts over when the kernel's queue overflows.              *)
(***************************************************************************)
EXTENDS Tree, FiniteSets

CONSTANTS
    Hurried,        \* users give a name to another directory before the watcher
                    \* has dealt with what it has read of the first
    MaxOverflows    \* bound on overflows

VARIABLES
    queue,          \* the kernel's events, not read yet
    kernel,         \* directories with a kernel watch
    watchPaths,     \* _watch_paths: the name a watch is kept under
    pathWatches,    \* _path_watches: the watch kept for a name
    pending,        \* _pending_moves: halves of renames, [cookie, name]
    task,           \* what is left of the event at hand
    overflows

watches == <<kernel, watchPaths, pathWatches>>
inotify == <<queue, watches, pending, task, overflows>>
inotifyVars == <<tree, inotify>>

NoTask == [do |-> "nothing", name |-> Nothing]
Task(what, n) == [do |-> what, name |-> n]
NotStarted == Task("not started", Nothing)
Rebuilding == task.do \in {"forget all", "watch all"}

\* The kernel's events: about a name in the root, or in a watched directory. `of'
\* is history: the directory it is about, which the watcher is not told.
InRoot(what, n, o) == [what |-> what, name |-> n, dir |-> Nothing, cookie |-> changes, of |-> o]
InDir(what, o) == [what |-> what, name |-> Nothing, dir |-> o, cookie |-> changes, of |-> o]
Overflow == [what |-> "overflow", name |-> Nothing, dir |-> Nothing, cookie |-> 0, of |-> Nothing]

-----------------------------------------------------------------------------
(* The users and the kernel.                                               *)

KernelEvents(c) ==
    LET o == at[c.name]
        seen(what) == IF o \in kernel THEN <<InDir(what, o)>> ELSE <<>>
    IN  CASE c.op = "mkdir"                      -> <<InRoot("create", c.name, Fresh)>>
          [] c.op = "rmdir"                      -> seen("ignored") \o <<InRoot("delete", c.name, o)>>
          [] c.op = "add"                        -> seen("create")
          [] c.op = "modify"                     -> seen("modify")
          [] c.op = "remove"                     -> seen("delete")
          [] c.op = "rename"                     -> <<InRoot("from", c.name, o), InRoot("to", c.to, o)>>
          [] c.op = "move out"                   -> <<InRoot("from", c.name, o)>>
          [] c.op \in {"move in", "move in full"} -> <<InRoot("to", c.name, Fresh)>>

\* Nothing about the name is still to be dealt with.
Settled(n) ==
    /\ \A i \in DOMAIN queue : queue[i].name # n
    /\ \A m \in pending : m.name # n
    /\ task.name # n

\* A change made while the watches are built anew is left to the audit.
DiskChange(c) ==
    /\ Happens(c)
    /\ Hurried \/ ~(Enters(c) \/ c.op = "rename") \/ Settled(c.to)
    /\ IF Rebuilding THEN UNCHANGED <<queue, changed>>
       ELSE queue' = queue \o KernelEvents(c) /\ changed' = changed \cup Touched(c)
    /\ kernel' = IF c.op = "rmdir" THEN kernel \ {at[c.name]} ELSE kernel
    /\ UNCHANGED <<known, watchPaths, pathWatches, pending, task, overflows>>

\* The kernel drops events and says so.
QueueOverflows ==
    /\ overflows < MaxOverflows /\ overflows' = overflows + 1
    /\ queue # <<>> /\ queue' = <<Overflow>>
    /\ UNCHANGED <<tree, watches, pending, task>>

-----------------------------------------------------------------------------
(* Watches.                                                                *)

\* _add_watch: a name that has a watch keeps it; a watch that is added again
\* comes back under its new name.
WatchDirectory(n) ==
    IF pathWatches[n] # Nothing THEN UNCHANGED watches
    ELSE LET o == at[n] IN
         /\ kernel' = kernel \cup {o}
         /\ watchPaths' = [watchPaths EXCEPT ![o] = n]
         /\ pathWatches' = [m \in Names |-> IF m = n THEN o ELSE IF m = watchPaths[o] THEN Nothing
                                            ELSE pathWatches[m]]

\* Coding error: a directory that moves keeps its old name too.
MoveWatchKeepName(n, m) ==
    LET moved == {o \in Objects : watchPaths[o] = n} IN
    IF moved # {}
    THEN /\ watchPaths' = [o \in Objects |-> IF o \in moved THEN m ELSE watchPaths[o]]
         /\ pathWatches' = [pathWatches EXCEPT ![m] = CHOOSE o \in moved : TRUE]
         /\ UNCHANGED kernel
    ELSE IF at[m] # Nothing THEN WatchDirectory(m) ELSE UNCHANGED watches

\* Coding error: a directory that had no watch yet is left without.
MoveWatchOnly(n, m) ==
    LET moved == {o \in Objects : watchPaths[o] = n} IN
    IF moved # {}
    THEN /\ watchPaths' = [o \in Objects |-> IF o \in moved THEN m ELSE watchPaths[o]]
         /\ pathWatches' = [pathWatches EXCEPT ![n] = Nothing, ![m] = CHOOSE o \in moved : TRUE]
         /\ UNCHANGED kernel
    ELSE UNCHANGED watches

\* _move_watch_paths, and _add_runtime_tree for a directory that had no watch yet.
\* The audit that the move of a directory asks for comes after both.
MoveWatch(n, m) ==
    LET moved == {o \in Objects : watchPaths[o] = n} IN
    IF moved # {}
    THEN /\ watchPaths' = [o \in Objects |-> IF o \in moved THEN m ELSE watchPaths[o]]
         /\ pathWatches' = [pathWatches EXCEPT ![n] = Nothing, ![m] = CHOOSE o \in moved : TRUE]
         /\ UNCHANGED kernel
    ELSE IF at[m] # Nothing THEN WatchDirectory(m) ELSE UNCHANGED watches

\* _forget_descriptor
Forget(objects) ==
    /\ watchPaths' = [o \in Objects |-> IF o \in objects THEN Nothing ELSE watchPaths[o]]
    /\ pathWatches' = [n \in Names |-> IF \E o \in objects : watchPaths[o] = n THEN Nothing ELSE pathWatches[n]]

\* _forget_subtree
ForgetTree(n) ==
    LET gone == {o \in Objects : watchPaths[o] = n} IN Forget(gone) /\ kernel' = kernel \ gone

-----------------------------------------------------------------------------
(* The watcher.                                                            *)

\* _process_events takes one event after the other.
Reads(what) == task = NoTask /\ queue # <<>> /\ Head(queue).what = what /\ queue' = Tail(queue)
Event == Head(queue)
InTheRoot == Event.dir = Nothing
Known == watchPaths[Event.dir] # Nothing
EventFile == File(watchPaths[Event.dir])

\* A directory appears: it is announced, then watched, then listed.
ReadCreateDirectory ==
    /\ Reads("create") /\ InTheRoot
    /\ Announce({PathEvent("create", <<Event.name>>)})
    /\ task' = Task("watch", Event.name)
    /\ UNCHANGED <<disk, watches, pending, overflows>>

\* A watch the agent no longer keeps says nothing.
ReadFile ==
    /\ \E what \in {"create", "modify", "delete"} :
          /\ Reads(what) /\ ~InTheRoot
          /\ IF Known THEN Announce({PathEvent(what, EventFile)}) ELSE UNCHANGED <<changed, known>>
    /\ UNCHANGED <<disk, watches, pending, task, overflows>>

ReadDeleteDirectory ==
    /\ Reads("delete") /\ InTheRoot
    /\ Announce({PathEvent("delete", <<Event.name>>)}) /\ ForgetTree(Event.name)
    /\ UNCHANGED <<disk, pending, task, overflows>>

ReadIgnored ==
    /\ Reads("ignored") /\ Forget({Event.dir})
    /\ UNCHANGED <<tree, kernel, pending, task, overflows>>

ReadMovedFrom ==
    /\ Reads("from")
    /\ pending' = pending \cup {[cookie |-> Event.cookie, name |-> Event.name]}
    /\ UNCHANGED <<tree, watches, task, overflows>>

\* The second half of a rename in the tree, or of one into it.
ReadMovedTo ==
    LET first == {m \in pending : m.cookie = Event.cookie} IN
    /\ Reads("to") /\ pending' = pending \ first
    /\ IF first = {}
       THEN /\ Announce({PathEvent("create", <<Event.name>>)})
            /\ task' = Task("watch", Event.name) /\ UNCHANGED watches
       ELSE \E m \in first : /\ Announce({MoveEvent(<<m.name>>, <<Event.name>>)})
                              /\ MoveWatch(m.name, Event.name) /\ UNCHANGED task
    /\ UNCHANGED <<disk, overflows>>

\* _flush_expired_moves: the second half has not come.
MoveExpires ==
    /\ task = NoTask
    /\ \E m \in pending :
          /\ \A i \in DOMAIN queue : queue[i].what = "to" => queue[i].cookie # m.cookie
          /\ pending' = pending \ {m}
          /\ Announce({PathEvent("delete", <<m.name>>)}) /\ ForgetTree(m.name)
    /\ UNCHANGED <<disk, queue, task, overflows>>

\* _add_runtime_tree; a directory that is gone again is not listed either.
AddTree ==
    /\ task.do = "watch"
    /\ IF at[task.name] = Nothing THEN task' = NoTask /\ UNCHANGED watches
       ELSE WatchDirectory(task.name) /\ task' = Task("list", task.name)
    /\ UNCHANGED <<tree, queue, pending, overflows>>

\* Coding error: what a new directory holds is left to its watch.
ListNothing ==
    /\ task.do = "list" /\ task' = NoTask
    /\ UNCHANGED <<tree, queue, watches, pending, overflows>>

\* _emit_created_descendants
List ==
    /\ task.do = "list" /\ task' = NoTask
    /\ IF at[task.name] \in full THEN Announce({PathEvent("create", File(task.name))}) ELSE UNCHANGED <<changed, known>>
    /\ UNCHANGED <<disk, queue, watches, pending, overflows>>

\* An overflow: a rescan, and the watches anew. The rest of what was read is dropped.
ReadOverflow ==
    /\ task = NoTask /\ queue # <<>> /\ Event = Overflow
    /\ Announce({Rescan}) /\ pending' = {} /\ task' = Task("forget all", Nothing)
    /\ \E n \in 2 .. Len(queue) + 1 : queue' = SubSeq(queue, n, Len(queue))
    /\ UNCHANGED <<disk, watches, overflows>>

ForgetAll ==
    /\ task.do = "forget all" /\ task' = Task("watch all", Nothing)
    /\ queue' = <<>> /\ Forget(Objects) /\ kernel' = {}
    /\ UNCHANGED <<tree, pending, overflows>>

WatchAll ==
    /\ task.do = "watch all" /\ task' = NoTask
    /\ pathWatches' = at /\ kernel' = {at[n] : n \in Names} \ {Nothing}
    /\ watchPaths' = [o \in Objects |-> IF \E n \in Names : at[n] = o THEN CHOOSE n \in Names : at[n] = o ELSE Nothing]
    /\ known' = Present
    /\ UNCHANGED <<disk, changed, queue, pending, overflows>>

InotifyInit ==
    /\ queue = <<>> /\ pending = {} /\ task \in {NotStarted, NoTask} /\ overflows = 0
    /\ pathWatches = at /\ kernel = used
    /\ watchPaths = [o \in Objects |-> IF \E n \in Names : at[n] = o THEN CHOOSE n \in Names : at[n] = o ELSE Nothing]

InotifyWorks ==
    ReadCreateDirectory \/ ReadFile \/ ReadDeleteDirectory \/ ReadIgnored \/ ReadMovedFrom \/ ReadMovedTo
        \/ MoveExpires \/ AddTree \/ List \/ ReadOverflow \/ ForgetAll \/ WatchAll
InotifyNext == (\E c \in Change : DiskChange(c)) \/ QueueOverflows \/ InotifyWorks

-----------------------------------------------------------------------------
AtRest == queue = <<>> /\ pending = {} /\ task = NoTask

(* A watch is kept under one name and a name keeps one watch, both ways,    *)
(* and nothing is kept about a directory the kernel has forgotten for good. *)
InotifyTypeOK ==
    /\ kernel \subseteq Objects /\ watchPaths \in [Objects -> Names \cup {Nothing}]
    /\ pathWatches \in [Names -> Objects \cup {Nothing}]
    /\ \A n \in Names : pathWatches[n] # Nothing => watchPaths[pathWatches[n]] = n
    /\ \A o \in Objects : watchPaths[o] # Nothing => pathWatches[watchPaths[o]] = o

(* When the agent has dealt with all it was told, every path that changed   *)
(* has been journaled since it did, alone, with a directory above it, or by *)
(* a rescan (_process_events, _flush_expired_moves, _emit_created_descendants).*)
RemoteChangesAnnounced == AtRest => Owed = {}

(* When the agent has dealt with all it was told, every directory of the    *)
(* tree has its watch, under the name it has now: no later change in it     *)
(* will be missed (_add_runtime_tree, _move_watch_paths, _forget_subtree).  *)
EveryDirectoryWatched ==
    AtRest => \A n \in Names : at[n] # Nothing => at[n] \in kernel /\ watchPaths[at[n]] = n
=============================================================================
