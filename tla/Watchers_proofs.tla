---------------------------- MODULE Watchers_proofs ----------------------------
(***************************************************************************)
(* The two watchers miss no change, for every tree of names, any number of *)
(* changes, overflows and audits. Both proofs follow the events: what is   *)
(* owed about a path is to come, because what is not read of it yet ends   *)
(* with what it is.                                                        *)
(***************************************************************************)
EXTENDS MCWatchers, SequenceTheorems, TLAPS

-----------------------------------------------------------------------------
(* The tree.                                                               *)

\* A directory has one name, and only directories of the tree hold files.
TreeTypes ==
    /\ at \in [Names -> Objects \cup {Nothing}]
    /\ \A n, m \in Names : at[n] = at[m] /\ at[n] # Nothing => n = m
    /\ \A o \in full : o \in Objects /\ \E n \in Names : at[n] = o
    /\ \A n \in Names : at[n] # Nothing => at[n] \in used
    /\ used \subseteq Objects
    /\ changed \subseteq Paths /\ known \subseteq Paths /\ changes \in Nat

\* Paths are what they look like.
LEMMA PathsDiffer ==
    ASSUME NEW n \in Names, NEW m \in Names
    PROVE  /\ <<n>> # File(m)
           /\ File(n) = File(m) <=> n = m
           /\ <<n>> = <<m>> <=> n = m
<1>1. <<n>> # File(m)
  <2>1. Len(<<n>>) = 1 /\ Len(File(m)) = 2
    BY DEF File
  <2> QED
    BY <2>1
<1>2. File(n) = File(m) <=> n = m
  BY DEF File
<1>3. <<n>> = <<m>> <=> n = m
  OBVIOUS
<1> QED
  BY <1>1, <1>2, <1>3

\* A file lies below its directory, and nothing else below anything.
LEMMA PrefixIs ==
    ASSUME NEW n \in Names, NEW m \in Names
    PROVE  /\ IsPrefix(<<n>>, <<m>>) <=> n = m
           /\ IsPrefix(<<n>>, File(m)) <=> n = m
           /\ IsPrefix(File(n), File(m)) <=> n = m
           /\ ~IsPrefix(File(n), <<m>>)
<1>1. /\ Len(<<n>>) = 1 /\ Len(<<m>>) = 1 /\ Len(File(n)) = 2 /\ Len(File(m)) = 2
  BY DEF File
<1>2. IsPrefix(<<n>>, <<m>>) <=> n = m
  BY <1>1 DEF IsPrefix
<1>3. IsPrefix(<<n>>, File(m)) <=> n = m
  BY <1>1 DEF IsPrefix, File
<1>4. IsPrefix(File(n), File(m)) <=> n = m
  BY <1>1 DEF IsPrefix, File
<1>5. ~IsPrefix(File(n), <<m>>)
  BY <1>1 DEF IsPrefix
<1> QED
  BY <1>2, <1>3, <1>4, <1>5

\* Every path is a directory's or a file's.
LEMMA PathKinds ==
    ASSUME NEW p \in Paths
    PROVE  \E n \in Names : p = <<n>> \/ p = File(n)
BY DEF Paths

\* What lies below a path.
LEMMA BelowIs ==
    ASSUME NEW n \in Names
    PROVE  /\ Below(<<n>>) = {<<n>>, File(n)} /\ Below(File(n)) = {File(n)}
           /\ <<n>> \in Paths /\ File(n) \in Paths
<1>1. <<n>> \in Paths /\ File(n) \in Paths
  BY DEF Paths
<1>2. ASSUME NEW p \in Paths
      PROVE  /\ p \in Below(<<n>>) <=> p \in {<<n>>, File(n)}
             /\ p \in Below(File(n)) <=> p = File(n)
  <2>1. PICK m \in Names : p = <<m>> \/ p = File(m)
    BY PathKinds
  <2>2. CASE p = <<m>>
    BY <2>2, PrefixIs, PathsDiffer DEF Below
  <2>3. CASE p = File(m)
    BY <2>3, PrefixIs, PathsDiffer DEF Below
  <2> QED
    BY <2>1, <2>2, <2>3
<1>3. Below(<<n>>) \subseteq Paths /\ Below(File(n)) \subseteq Paths
  BY DEF Below
<1> QED
  BY <1>1, <1>2, <1>3

\* What is there, before and after a step.
LEMMA PresentIs ==
    ASSUME NEW n \in Names
    PROVE  /\ <<n>> \in Present <=> at[n] # Nothing
           /\ File(n) \in Present <=> at[n] \in full
           /\ <<n>> \in Present' <=> at'[n] # Nothing
           /\ File(n) \in Present' <=> at'[n] \in full'
<1>1. <<n>> \in Present <=> at[n] # Nothing
  BY PathsDiffer DEF Present
<1>2. File(n) \in Present <=> at[n] \in full
  BY PathsDiffer DEF Present
<1>3. <<n>> \in Present' <=> at'[n] # Nothing
  BY PathsDiffer DEF Present
<1>4. File(n) \in Present' <=> at'[n] \in full'
  BY PathsDiffer DEF Present
<1> QED
  BY <1>1, <1>2, <1>3, <1>4

\* What is there are paths.
LEMMA PresentTypes == Present \subseteq Paths
BY DEF Present, Paths

\* Announcing makes nothing owed, and settles what it covers.
LEMMA AnnounceOwes ==
    ASSUME NEW E, Announce(E), UNCHANGED disk
    PROVE  /\ changed' = changed \ CoversAll(E)
           /\ Owed' = Owed \ CoversAll(E)
           /\ known' \subseteq known \cup Present /\ Present' = Present
<1>1. Present' = Present
  BY DEF Present, disk
<1>2. Owed' = changed' \cap (known' \cup Present)
  BY <1>1 DEF Owed
<1> QED
  BY <1>1, <1>2 DEF Announce, Owed

\* The directory that appears has not been in the tree.
LEMMA FreshIs ==
    ASSUME used # Objects, used \subseteq Objects
    PROVE  Fresh \in Objects \ used
BY DEF Fresh

\* What a change leaves where: the directories, one by one.
LEMMA ChangeIs ==
    ASSUME TreeTypes, NEW c \in Change, Happens(c)
    PROVE  /\ c.name \in Names /\ c.to \in Names /\ c.op \in Ops
           /\ c.op # "rename" => c.to = c.name
           /\ c.op = "rename" => c.to # c.name /\ at[c.to] = Nothing
           /\ Enters(c) => at[c.name] = Nothing /\ at'[c.name] = Fresh /\ Fresh \in Objects \ used
           /\ ~Enters(c) => at[c.name] # Nothing
           /\ at' \in [Names -> Objects \cup {Nothing}]
           /\ \A n \in Names : n \notin {c.name, c.to} => at'[n] = at[n]
           /\ c.op \in {"rmdir", "move out", "rename"} => at'[c.name] = Nothing
           /\ c.op = "rename" => at'[c.to] = at[c.name]
           /\ c.op \in {"add", "modify", "remove"} => at' = at
           /\ changes' = changes + 1
           /\ used \subseteq used' /\ used' \subseteq used \cup {Fresh}
           /\ Enters(c) => Fresh \in used' 
<1>1. c.name \in Names /\ c.to \in Names /\ c.op \in Ops
  BY DEF Change
<1>2. /\ c.op # "rename" => c.to = c.name
      /\ ~Enters(c) => at[c.name] # Nothing
      /\ c.op = "rename" => c.to # c.name /\ at[c.to] = Nothing
      /\ Enters(c) => at[c.name] = Nothing /\ used # Objects
  <2>1. \A o \in full : o \in Objects
    BY DEF TreeTypes
  <2> QED
    BY <1>1, <2>1, NothingIsNone DEF Happens, Possible, Enters, Ops
<1>3. Enters(c) => Fresh \in Objects \ used
  BY <1>2, FreshIs DEF TreeTypes
<1>4. at \in [Names -> Objects \cup {Nothing}]
  BY DEF TreeTypes
<1>5. /\ Enters(c) => at'[c.name] = Fresh
      /\ at' \in [Names -> Objects \cup {Nothing}]
      /\ \A n \in Names : n \notin {c.name, c.to} => at'[n] = at[n]
      /\ c.op \in {"rmdir", "move out", "rename"} => at'[c.name] = Nothing
      /\ c.op = "rename" => at'[c.to] = at[c.name]
      /\ c.op \in {"add", "modify", "remove"} => at' = at
  <2>1. CASE Enters(c)
    BY <1>1, <1>2, <1>3, <1>4, <2>1 DEF Happens, Enters
  <2>2. CASE c.op \in {"rmdir", "move out"}
    BY <1>1, <1>2, <1>4, <2>2 DEF Happens, Enters
  <2>3. CASE c.op = "rename"
    BY <1>1, <1>2, <1>4, <2>3 DEF Happens, Enters
  <2>4. CASE c.op \in {"add", "modify", "remove"}
    BY <1>1, <1>2, <1>4, <2>4 DEF Happens, Enters
  <2> QED
    BY <1>1, <2>1, <2>2, <2>3, <2>4 DEF Ops, Enters
<1>6. changes' = changes + 1 /\ used \subseteq used' /\ used' \subseteq used \cup {Fresh}
  BY DEF Happens
<1>7. Enters(c) => Fresh \in used'
  BY DEF Happens
<1> QED
  BY <1>1, <1>2, <1>3, <1>5, <1>6, <1>7

\* The files, one by one.
LEMMA FilesAre ==
    ASSUME TreeTypes, NEW c \in Change, Happens(c)
    PROVE  /\ \A n \in Names : n \notin {c.name, c.to} => (at'[n] \in full' <=> at[n] \in full)
           /\ c.op \in {"mkdir", "rmdir", "remove", "move in", "move out", "rename"} => at'[c.name] \notin full'
           /\ c.op \in {"add", "modify", "move in full"} => at'[c.name] \in full'
           /\ c.op \in {"add", "rmdir", "mkdir", "move in", "move in full"} => at[c.name] \notin full
           /\ c.op \in {"modify", "remove"} => at[c.name] \in full
           /\ c.op = "rename" => (at'[c.to] \in full' <=> at[c.name] \in full) /\ at[c.to] \notin full
<1>1. /\ \A n, m \in Names : at[n] = at[m] /\ at[n] # Nothing => n = m
      /\ \A o \in full : o \in Objects /\ o \in used
      /\ Nothing \notin full
      /\ \A n \in Names : at[n] # Nothing => at[n] \in used
  BY NothingIsNone DEF TreeTypes
<1>2. CASE Enters(c)
  <2>1. Fresh \notin used /\ Fresh \notin full /\ Fresh # Nothing
    BY <1>1, <1>2, ChangeIs, NothingIsNone
  <2>2. CASE c.op = "move in full"
    BY <1>1, <1>2, <2>1, <2>2, ChangeIs DEF Happens
  <2>3. CASE c.op \in {"mkdir", "move in"}
    BY <1>1, <1>2, <2>1, <2>3, ChangeIs DEF Happens
  <2> QED
    BY <1>2, <2>2, <2>3 DEF Enters
<1>3. CASE c.op \in {"rmdir", "move out"}
  BY <1>1, <1>3, ChangeIs DEF Happens, Possible, Enters
<1>4. CASE c.op = "rename"
  BY <1>1, <1>4, ChangeIs DEF Happens, Possible, Enters
<1>5. CASE c.op = "add"
  BY <1>1, <1>5, ChangeIs DEF Happens, Possible, Enters
<1>6. CASE c.op \in {"modify", "remove"}
  BY <1>1, <1>6, ChangeIs DEF Happens, Possible, Enters
<1> QED
  BY <1>2, <1>3, <1>4, <1>5, <1>6, ChangeIs DEF Ops, Enters

\* Whatever moves, the tree stays one.
LEMMA TreeMoves ==
    ASSUME TreeTypes, NEW c \in Change, Happens(c), changed' \subseteq Paths, known' \subseteq Paths
    PROVE  TreeTypes'
<1>0. /\ c.name \in Names /\ c.to \in Names /\ c.op \in Ops
      /\ Enters(c) => at'[c.name] = Fresh /\ Fresh \in Objects \ used /\ Fresh \in used'
      /\ \A n \in Names : n \notin {c.name, c.to} => at'[n] = at[n]
      /\ IF c.op = "rename" THEN at[c.to] = Nothing ELSE c.to = c.name
      /\ used \subseteq used'
  BY ChangeIs
<1>00. /\ c.op \in {"rmdir", "move out", "rename"} => at'[c.name] = Nothing
       /\ c.op = "rename" => at'[c.to] = at[c.name]
       /\ c.op \in {"add", "modify", "remove"} => at' = at
  BY ChangeIs
<1>01. /\ \A k, l \in Names : at[k] = at[l] /\ at[k] # Nothing => k = l
       /\ \A k \in Names : at[k] # Nothing => at[k] \in used
  BY DEF TreeTypes
<1>02. Nothing \notin Objects
  BY NothingIsNone
<1>03. Enters(c) \/ c.op \in {"rmdir", "move out", "rename"} \/ c.op \in {"add", "modify", "remove"}
  BY <1>0 DEF Ops, Enters
<1>04. ~(Enters(c) /\ c.op = "rename")
  BY DEF Enters
<1>1. at' \in [Names -> Objects \cup {Nothing}]
  BY ChangeIs
<1>2. ASSUME NEW n \in Names, NEW m \in Names, at'[n] = at'[m], at'[n] # Nothing
      PROVE  n = m
  <2>1. ASSUME Enters(c), NEW k \in Names
        PROVE  at[k] # Fresh
    BY <1>0, <1>01, <1>02, <2>1
  <2>2. CASE Enters(c)
    BY <1>0, <1>01, <1>04, <1>2, <2>1, <2>2
  <2>3. CASE c.op \in {"rmdir", "move out", "rename"}
    BY <1>0, <1>00, <1>01, <1>2, <2>3
  <2>4. CASE c.op \in {"add", "modify", "remove"}
    BY <1>00, <1>01, <1>2, <2>4
  <2> QED
    BY <1>03, <2>2, <2>3, <2>4
<1>3. ASSUME NEW n \in Names, at'[n] # Nothing
      PROVE  at'[n] \in used'
  <2>1. CASE Enters(c)
    BY <1>0, <1>01, <1>04, <1>3, <2>1
  <2>2. CASE c.op \in {"rmdir", "move out", "rename"}
    BY <1>0, <1>00, <1>01, <1>3, <2>2
  <2>3. CASE c.op \in {"add", "modify", "remove"}
    BY <1>0, <1>00, <1>01, <1>3, <2>3
  <2> QED
    BY <1>03, <2>1, <2>2, <2>3
<1>4. used' \subseteq Objects /\ changes' \in Nat
  <2>1. used' = IF Enters(c) THEN used \cup {Fresh} ELSE used
    BY DEF Happens
  <2>2. changes' = changes + 1
    BY DEF Happens
  <2> QED
    BY <1>0, <2>1, <2>2 DEF TreeTypes
<1>5. ASSUME NEW o \in full'
      PROVE  o \in Objects /\ \E n \in Names : at'[n] = o
  <2>1. ASSUME NEW m \in Names, o = at'[m]
        PROVE  o \in Objects
    <3>1. Nothing \notin full'
      <4>1. Nothing \notin full /\ (Enters(c) => Fresh # Nothing) /\ (~Enters(c) => at[c.name] # Nothing)
        BY ChangeIs, NothingIsNone DEF TreeTypes
      <4>2. c.op = "add" => ~Enters(c)
        BY DEF Enters
      <4>3. c.op = "move in full" => Enters(c)
        BY DEF Enters
      <4> QED
        BY <4>1, <4>2, <4>3 DEF Happens
    <3> QED
      BY <1>1, <2>1, <3>1
  <2>2. CASE c.op = "add"
    <3>1. o \in full \/ o = at[c.name]
      BY <2>2 DEF Happens
    <3>2. at' = at /\ c.name \in Names
      BY <2>2, ChangeIs
    <3> QED
      BY <2>1, <3>1, <3>2 DEF TreeTypes
  <2>3. CASE c.op = "move in full"
    <3>1. o \in full \/ o = at'[c.name]
      BY <2>3, ChangeIs DEF Happens, Enters
    <3>2. c.name \in Names /\ c.to = c.name /\ at[c.name] = Nothing
      BY <2>3, ChangeIs DEF Enters
    <3>3. CASE o \in full
      <4>1. PICK n \in Names : at[n] = o
        BY <3>3 DEF TreeTypes
      <4>2. n # c.name
        BY <3>2, <3>3, <4>1, NothingIsNone DEF TreeTypes
      <4> QED
        BY <2>1, <3>2, <4>1, <4>2, ChangeIs
    <3> QED
      BY <2>1, <3>1, <3>2, <3>3
  <2>4. CASE c.op \notin {"add", "move in full"}
    <3>1. o \in full /\ (c.op \in {"remove", "move out"} => o # at[c.name])
      BY <2>4 DEF Happens
    <3>2. PICK n \in Names : at[n] = o
      BY <3>1 DEF TreeTypes
    <3>3. o # Nothing /\ c.name \in Names /\ c.to \in Names
      BY <3>1, ChangeIs, NothingIsNone DEF TreeTypes
    <3>4. CASE n = c.name /\ c.op = "rename"
      BY <2>1, <3>2, <3>3, <3>4, ChangeIs
    <3>5. CASE n = c.name /\ c.op # "rename"
      <4>1. ~Enters(c) /\ c.op # "rmdir" /\ c.op # "move out"
        BY <3>1, <3>2, <3>3, <3>5, ChangeIs, FilesAre
      <4>2. at' = at
        BY <2>4, <3>5, <4>1, ChangeIs DEF Enters, Ops
      <4> QED
        BY <2>1, <3>2, <4>2
    <3>6. CASE n # c.name
      <4>1. n # c.to
        BY <1>0, <3>2, <3>3, <3>6
      <4> QED
        BY <2>1, <3>2, <3>6, <4>1, ChangeIs
    <3> QED
      BY <3>4, <3>5, <3>6
  <2> QED
    BY <2>2, <2>3, <2>4
<1> QED
  BY <1>1, <1>2, <1>3, <1>4, <1>5 DEF TreeTypes

\* What a change touches are paths.
LEMMA TouchedTypes ==
    ASSUME TreeTypes, NEW c \in Change, Happens(c)
    PROVE  Touched(c) \subseteq Paths
<1>1. c.name \in Names /\ c.to \in Names
  BY ChangeIs
<1>2. /\ <<c.name>> \in Paths /\ File(c.name) \in Paths
      /\ <<c.to>> \in Paths /\ File(c.to) \in Paths
  BY <1>1, BelowIs
<1> QED
  BY <1>2 DEF Touched

\* A path that appears was touched.
LEMMA NewIsTouched ==
    ASSUME TreeTypes, NEW c \in Change, Happens(c), NEW p \in Present', p \notin Present
    PROVE  p \in Touched(c)
<1>1. p \in Paths /\ c.name \in Names /\ c.to \in Names /\ c.op \in Ops
  BY ChangeIs, PathsDiffer DEF Present, Paths
<1>2. PICK n \in Names : p = <<n>> \/ p = File(n)
  BY <1>1, PathKinds
<1>3. CASE p = <<n>>
  <2>1. at[n] = Nothing /\ at'[n] # Nothing
    BY <1>3, PresentIs
  <2>2. n \in {c.name, c.to} /\ (Enters(c) \/ c.op = "rename")
    BY <1>1, <2>1, ChangeIs DEF Ops, Enters
  <2>3. <<c.name>> \in Touched(c) /\ <<c.to>> \in Touched(c)
    <3>1. c.op # "rename" => c.to = c.name
      BY ChangeIs
    <3>2. c.op \notin {"add", "modify", "remove"}
      BY <2>2 DEF Enters
    <3> QED
      BY <3>1, <3>2 DEF Touched
  <2> QED
    BY <1>3, <2>2, <2>3
<1>4. CASE p = File(n)
  <2>1. at[n] \notin full /\ at'[n] \in full'
    BY <1>4, PresentIs
  <2>2. CASE n = c.name /\ c.op # "rename"
    <3>1. c.op \in {"add", "modify", "move in full"}
      BY <1>1, <2>1, <2>2, FilesAre DEF Ops
    <3> QED
      BY <1>4, <2>2, <3>1 DEF Touched, FileMoves
  <2>3. CASE c.op = "rename"
    <3>1. n = c.to /\ at[c.name] \in full
      BY <2>1, <2>3, FilesAre
    <3> QED
      BY <1>4, <2>3, <3>1 DEF Touched, FileMoves
  <2>4. c.op # "rename" => c.to = c.name
    BY ChangeIs
  <2> QED
    BY <2>1, <2>2, <2>3, <2>4, FilesAre
<1> QED
  BY <1>2, <1>3, <1>4

\* Announcing does not disturb the tree.
LEMMA AnnounceTypes ==
    ASSUME TreeTypes, UNCHANGED disk, NEW E, Announce(E) \/ UNCHANGED <<changed, known>>
    PROVE  TreeTypes'
<1>1. changed' \subseteq Paths /\ known' \subseteq Paths
  BY PresentTypes DEF Announce, TreeTypes
<1> QED
  BY <1>1 DEF TreeTypes, disk

-----------------------------------------------------------------------------
(* The remote watcher's events.                                            *)

\* What is in the queue, and what an event tells: a name appears, it goes, what is
\* in a directory changed.
Told == ToSet(queue)
IsIn(e, n) == e.what \in {"create", "to"} /\ e.name = n
IsOut(e, n) == e.what \in {"from", "delete"} /\ e.name = n
IsFile(e, o) == e.what \in {"create", "modify", "delete"} /\ e.dir = o

Events ==
    [what : {"create", "delete", "from", "to", "modify", "ignored", "overflow"}, name : Names \cup {Nothing},
     dir : Objects \cup {Nothing}, cookie : Nat, of : Objects \cup {Nothing}]
Shaped(e) ==
    \/ e.what \in {"create", "delete", "from", "to"} /\ e.name \in Names /\ e.dir = Nothing
    \/ e.what \in {"create", "delete", "modify", "ignored"} /\ e.name = Nothing /\ e.dir = e.of
OfNow(e) == e.cookie < changes /\ e.of \in used /\ Shaped(e)

\* After an overflow nothing can be said until the watches are new.
Broken == Rebuilding \/ Overflow \in Told

RemoteTypes ==
    /\ queue \in Seq(Events) /\ \A e \in Told : e = Overflow \/ OfNow(e)
    /\ \A i \in DOMAIN queue : queue[i] = Overflow => i = 1
    /\ \A m \in pending : m.name \in Names /\ m.cookie \in Nat /\ m.cookie < changes
    /\ \/ task \in {NoTask, NotStarted, Task("forget all", Nothing), Task("watch all", Nothing)}
       \/ \E n \in Names : task \in {Task("watch", n), Task("list", n)}
    /\ \A o \in Objects : watchPaths[o] # Nothing => o \in used
    /\ Rebuilding => pending = {} /\ changed = {}
    /\ task.do = "watch all" => queue = <<>>

\* The order of two events: of those about one name the last says it goes and the
\* one before it that it appears; a rename has one event of each half, in order.
Before(e, f) ==
    /\ e.name = f.name /\ e.name \in Names => e.what \in {"create", "to"} /\ f.what \in {"from", "delete"}
    /\ e.what = f.what /\ e.what \in {"to", "from"} => e.cookie # f.cookie
    /\ e.what = "to" /\ f.what = "from" => e.cookie # f.cookie
InOrder == \A i, j \in DOMAIN queue : i < j => Before(queue[i], queue[j])

\* Where a name stands: events that it appears or goes are not read yet, half a
\* rename of it is, it is being worked on.
InQueue(n) == \E e \in Told : IsIn(e, n)
OutQueue(n) == \E e \in Told : IsOut(e, n)
Half(n) == \E m \in pending : m.name = n
Entered(n) == InQueue(n) \/ task.name = n
Left(n) == OutQueue(n) \/ Half(n)
Unwatched(n) == InQueue(n) \/ task = Task("watch", n)

InTree(o) == \E n \in Names : at[n] = o
Partner(m, e) == e.what = "to" /\ e.cookie = m.cookie
\* The first half of a rename is about this directory.
Whose(m, o) ==
    /\ \A e \in Told : Partner(m, e) => e.of = o
    /\ (\A e \in Told : ~Partner(m, e)) => ~InTree(o)

-----------------------------------------------------------------------------
(* The remote watcher's invariant, while no event is lost.                 *)

\* A name of half a rename waits for nothing else.
Halves ==
    /\ \A m \in pending : task.name # m.name /\ ~InQueue(m.name) /\ ~OutQueue(m.name)
    /\ \A m, k \in pending : m.name = k.name \/ m.cookie = k.cookie => m = k
    /\ \A n \in Names : task.name = n => ~InQueue(n)

\* What is not read yet ends with what is.
Ends ==
    \A n \in Names :
        /\ Left(n) => at[n] = Nothing
        /\ Entered(n) /\ ~Left(n) => at[n] # Nothing

\* The event that a name appears is about the directory it is, or was when it left.
Appears ==
    \A n \in Names : \A e \in Told : IsIn(e, n) =>
        /\ ~OutQueue(n) => e.of = at[n]
        /\ \A f \in Told : IsOut(f, n) => f.of = e.of

\* The event that a directory goes is about one that is gone, or that the second
\* half of the rename is about.
Goes ==
    \A f \in Told :
        /\ f.what = "from" => Whose(f, f.of) /\ \A m \in pending : m.cookie # f.cookie
        /\ f.what = "delete" /\ f.dir = Nothing => ~InTree(f.of)
        /\ f.what = "ignored" => ~InTree(f.of)

\* A watch is kept under the name its directory has, or had until an event that is
\* not dealt with yet.
Kept ==
    \A o \in Objects : \A w \in Names : watchPaths[o] = w =>
        /\ ~Unwatched(w)
        /\ \/ at[w] = o
           \/ \E f \in Told : IsOut(f, w) /\ f.of = o
           \/ \E m \in pending : m.name = w /\ Whose(m, o)

\* A directory of the tree has its watch, but for one that has just appeared.
Watched ==
    /\ \A n \in Names : at[n] # Nothing /\ ~Unwatched(n) => watchPaths[at[n]] = n
    /\ \A o \in Objects : watchPaths[o] # Nothing /\ InTree(o) => o \in kernel

\* Nothing was said yet about the file of a name that is none, or only appears.
Unsaid ==
    \A n \in Names :
        /\ at[n] = Nothing /\ ~Left(n) => File(n) \notin known
        /\ Entered(n) => File(n) \notin known

\* What is owed is to come.
ToCome ==
    \A n \in Names :
        /\ <<n>> \in changed => InQueue(n) \/ Left(n)
        /\ File(n) \in Owed /\ ~Left(n) /\ ~Entered(n) => at[n] # Nothing /\ \E e \in Told : IsFile(e, at[n])

Good == InOrder /\ Halves /\ Ends /\ Appears /\ Goes /\ Kept /\ Watched /\ Unsaid /\ ToCome
RemoteInv == RemoteTypes /\ InotifyTypeOK /\ (~Broken => Good)

-----------------------------------------------------------------------------
(* The queue.                                                              *)

\* What is read was in the queue, and before the rest.
LEMMA ReadIs ==
    ASSUME queue \in Seq(Events), queue # <<>>, queue' = Tail(queue)
    PROVE  /\ Head(queue) \in Told /\ Told' \subseteq Told /\ \A e \in Told : e = Head(queue) \/ e \in Told'
           /\ queue' \in Seq(Events)
           /\ InOrder => InOrder' /\ \A f \in Told' : Before(Head(queue), f)
           /\ (\A i \in DOMAIN queue : queue[i] = Overflow => i = 1) => Overflow \notin Told'
<1>1. /\ Len(queue) \in Nat /\ Len(queue) >= 1 /\ DOMAIN queue = 1..Len(queue) /\ Head(queue) = queue[1]
      /\ queue' \in Seq(Events) /\ Len(queue') = Len(queue) - 1 /\ DOMAIN queue' = 1..Len(queue')
      /\ \A i \in 1..Len(queue') : queue'[i] = queue[i + 1]
  OBVIOUS
<1>2. \A i \in DOMAIN queue' : i + 1 \in DOMAIN queue /\ queue'[i] = queue[i + 1] /\ i + 1 # 1 /\ 1 < i + 1
  BY <1>1
<1>3. \A i \in DOMAIN queue : i = 1 \/ (i - 1 \in DOMAIN queue' /\ queue'[i - 1] = queue[i])
  <2>1. ASSUME NEW i \in DOMAIN queue, i # 1
        PROVE  i - 1 \in 1..Len(queue') /\ (i - 1) + 1 = i
    BY <1>1, <2>1
  <2> QED
    BY <1>1, <2>1
<1>4. /\ Told = {queue[i] : i \in DOMAIN queue} /\ Told' = {queue'[i] : i \in DOMAIN queue'}
  BY DEF Told, ToSet
<1>5. 1 \in DOMAIN queue
  BY <1>1
<1>6. Head(queue) \in Told /\ Told' \subseteq Told
  BY <1>1, <1>2, <1>4, <1>5
<1>7. \A e \in Told : e = Head(queue) \/ e \in Told'
  <2>1. ASSUME NEW e \in Told, e # Head(queue)
        PROVE  e \in Told'
    <3>1. PICK i \in DOMAIN queue : e = queue[i]
      BY <1>4
    <3>2. i - 1 \in DOMAIN queue' /\ queue'[i - 1] = e
      BY <1>1, <1>3, <2>1, <3>1
    <3> QED
      BY <1>4, <3>2
  <2> QED
    BY <2>1
<1>8. ASSUME InOrder
      PROVE  InOrder' /\ \A f \in Told' : Before(Head(queue), f)
  <2>1. \A i, j \in DOMAIN queue' : i < j => i + 1 < j + 1
    BY <1>1
  <2>2. InOrder'
    BY <1>2, <1>8, <2>1 DEF InOrder, Before
  <2>3. \A j \in DOMAIN queue' : Before(queue[1], queue[j + 1])
    BY <1>2, <1>5, <1>8 DEF InOrder
  <2> QED
    BY <1>1, <1>2, <1>4, <2>2, <2>3
<1>9. (\A i \in DOMAIN queue : queue[i] = Overflow => i = 1) => Overflow \notin Told'
  <2>1. Overflow' = Overflow
    BY DEF Overflow
  <2> QED
    BY <1>2, <1>4
<1> QED
  BY <1>1, <1>6, <1>7, <1>8, <1>9

\* What is appended comes after the rest.
LEMMA AppendIs ==
    ASSUME queue \in Seq(Events), NEW k \in Seq(Events), queue' = queue \o k
    PROVE  /\ Told' = Told \cup ToSet(k) /\ queue' \in Seq(Events)
           /\ /\ InOrder
              /\ \A i, j \in DOMAIN k : i < j => Before(k[i], k[j])
              /\ \A e \in Told : \A f \in ToSet(k) : Before(e, f)
              => InOrder'
           /\ (\A i \in DOMAIN queue : queue[i] = Overflow => i = 1) /\ Overflow \notin ToSet(k)
              => \A i \in DOMAIN queue' : queue'[i] = Overflow => i = 1
<1>1. /\ Len(queue) \in Nat /\ Len(k) \in Nat /\ DOMAIN queue = 1..Len(queue) /\ DOMAIN k = 1..Len(k)
      /\ queue' \in Seq(Events) /\ Len(queue') = Len(queue) + Len(k) /\ DOMAIN queue' = 1..Len(queue')
  OBVIOUS
<1>2. /\ \A i \in 1..Len(queue) : queue'[i] = queue[i]
      /\ \A i \in 1..Len(k) : queue'[Len(queue) + i] = k[i]
      /\ \A i \in (Len(queue) + 1)..Len(queue') : i - Len(queue) \in 1..Len(k) /\ queue'[i] = k[i - Len(queue)]
  OBVIOUS
<1>3. \A i \in DOMAIN queue' : \/ i \in DOMAIN queue /\ queue'[i] = queue[i]
                               \/ /\ i - Len(queue) \in DOMAIN k /\ queue'[i] = k[i - Len(queue)]
                                  /\ i > Len(queue)
  <2>1. ASSUME NEW i \in DOMAIN queue'
        PROVE  i \in 1..Len(queue) \/ (i \in (Len(queue) + 1)..Len(queue') /\ i > Len(queue))
    BY <1>1
  <2> QED
    BY <1>1, <1>2, <2>1
<1>4. /\ \A i \in DOMAIN queue : i \in DOMAIN queue'
      /\ \A i \in DOMAIN k : Len(queue) + i \in DOMAIN queue'
  BY <1>1
<1>5. /\ Told = {queue[i] : i \in DOMAIN queue} /\ Told' = {queue'[i] : i \in DOMAIN queue'}
      /\ ToSet(k) = {k[i] : i \in DOMAIN k}
  BY DEF Told, ToSet
<1>6. Told' = Told \cup ToSet(k)
  BY <1>1, <1>2, <1>3, <1>4, <1>5
<1>7. ASSUME /\ InOrder
             /\ \A i, j \in DOMAIN k : i < j => Before(k[i], k[j])
             /\ \A e \in Told : \A f \in ToSet(k) : Before(e, f)
      PROVE  InOrder'
  <2>1. ASSUME NEW i \in DOMAIN queue', NEW j \in DOMAIN queue', i < j
        PROVE  Before(queue'[i], queue'[j])
    <3>1. i \in Int /\ j \in Int
      BY <1>1
    <3>2. CASE j \in DOMAIN queue
      <4>1. i \in DOMAIN queue /\ queue'[i] = queue[i] /\ queue'[j] = queue[j]
        BY <1>1, <1>2, <2>1, <3>1, <3>2
      <4> QED
        BY <1>7, <2>1, <3>2, <4>1 DEF InOrder
    <3>3. CASE i \in DOMAIN queue /\ j \notin DOMAIN queue
      <4>1. queue'[i] \in Told /\ queue'[j] \in ToSet(k)
        BY <1>1, <1>2, <1>3, <1>5, <3>3
      <4> QED
        BY <1>7, <4>1
    <3>4. CASE i \notin DOMAIN queue /\ j \notin DOMAIN queue
      <4>1. /\ i - Len(queue) \in DOMAIN k /\ queue'[i] = k[i - Len(queue)]
            /\ j - Len(queue) \in DOMAIN k /\ queue'[j] = k[j - Len(queue)]
        BY <1>3, <3>4
      <4>2. i - Len(queue) < j - Len(queue)
        BY <1>1, <2>1, <3>1
      <4> QED
        BY <1>7, <4>1, <4>2
    <3>5. i \notin DOMAIN queue => j \notin DOMAIN queue
      BY <1>1, <2>1, <3>1
    <3> QED
      BY <3>2, <3>3, <3>4, <3>5
  <2> QED
    BY <2>1 DEF InOrder, Before
<1>8. ASSUME \A i \in DOMAIN queue : queue[i] = Overflow => i = 1, Overflow \notin ToSet(k)
      PROVE  \A i \in DOMAIN queue' : queue'[i] = Overflow => i = 1
  BY <1>3, <1>5, <1>8
<1> QED
  BY <1>1, <1>6, <1>7, <1>8

\* The kernel's events of a change, one by one.
LEMMA KernelEventsAre ==
    ASSUME NEW c \in Change
    PROVE  LET o == at[c.name]  k == KernelEvents(c) IN
           /\ c.op = "mkdir" => k = <<InRoot("create", c.name, Fresh)>>
           /\ c.op = "rmdir" /\ o \in kernel => k = <<InDir("ignored", o), InRoot("delete", c.name, o)>>
           /\ c.op = "rmdir" /\ o \notin kernel => k = <<InRoot("delete", c.name, o)>>
           /\ c.op = "add" => k = IF o \in kernel THEN <<InDir("create", o)>> ELSE <<>>
           /\ c.op = "modify" => k = IF o \in kernel THEN <<InDir("modify", o)>> ELSE <<>>
           /\ c.op = "remove" => k = IF o \in kernel THEN <<InDir("delete", o)>> ELSE <<>>
           /\ c.op = "rename" => k = <<InRoot("from", c.name, o), InRoot("to", c.to, o)>>
           /\ c.op = "move out" => k = <<InRoot("from", c.name, o)>>
           /\ c.op \in {"move in", "move in full"} => k = <<InRoot("to", c.name, Fresh)>>
<1>1. CASE c.op = "mkdir"
  BY <1>1 DEF KernelEvents
<1>2. CASE c.op = "rmdir"
  <2>1. KernelEvents(c) = (IF at[c.name] \in kernel THEN <<InDir("ignored", at[c.name])>> ELSE <<>>)
                              \o <<InRoot("delete", c.name, at[c.name])>>
    BY <1>2 DEF KernelEvents
  <2>2. ASSUME NEW a, NEW b
        PROVE  <<a>> \o <<b>> = <<a, b>> /\ <<>> \o <<b>> = <<b>>
    <3>1. /\ <<a>> \in Seq({a, b}) /\ <<b>> \in Seq({a, b}) /\ <<a, b>> \in Seq({a, b})
          /\ Len(<<a>>) = 1 /\ Len(<<b>>) = 1 /\ Len(<<a, b>>) = 2
      OBVIOUS
    <3> DEFINE s == <<a>> \o <<b>>
    <3>2. s \in Seq({a, b}) /\ Len(s) = 2 /\ s[1] = a /\ s[2] = b
      OBVIOUS
    <3>3. \A i \in 1..Len(s) : s[i] = <<a, b>>[i]
      <4>1. \A i \in 1..Len(s) : i = 1 \/ i = 2
        BY <3>2
      <4> QED
        BY <3>2, <4>1
    <3> HIDE DEF s
    <3>4. s = <<a, b>>
      BY <3>1, <3>2, <3>3, SeqEqual
    <3> QED
      BY <3>1, <3>4, ConcatEmptySeq DEF s
  <2> QED
    BY <1>2, <2>1, <2>2
<1>3. CASE c.op \in {"add", "modify", "remove"}
  BY <1>3 DEF KernelEvents
<1>4. CASE c.op \in {"rename", "move out"}
  BY <1>4 DEF KernelEvents
<1>5. CASE c.op \in {"move in", "move in full"}
  BY <1>5 DEF KernelEvents
<1>6. c.op \in Ops
  BY DEF Change
<1> QED
  BY <1>1, <1>2, <1>3, <1>4, <1>5, <1>6 DEF Ops

\* The elements of short sequences.
LEMMA ToSetIs ==
    ASSUME NEW a, NEW b
    PROVE  /\ ToSet(<<>>) = {} /\ ToSet(<<a>>) = {a} /\ ToSet(<<a, b>>) = {a, b}
           /\ DOMAIN <<>> = {} /\ DOMAIN <<a>> = {1} /\ DOMAIN <<a, b>> = {1, 2}
           /\ <<a>>[1] = a /\ <<a, b>>[1] = a /\ <<a, b>>[2] = b
<1>1. DOMAIN <<>> = {} /\ DOMAIN <<a>> = {1} /\ DOMAIN <<a, b>> = {1, 2}
  OBVIOUS
<1>2. <<a>>[1] = a /\ <<a, b>>[1] = a /\ <<a, b>>[2] = b
  OBVIOUS
<1>3. ToSet(<<>>) = {}
  BY DEF ToSet
<1>4. ToSet(<<a>>) = {a}
  BY <1>1, <1>2 DEF ToSet
<1>5. ToSet(<<a, b>>) = {a, b}
  BY <1>1, <1>2 DEF ToSet
<1> QED
  BY <1>1, <1>2, <1>3, <1>4, <1>5

\* The kernel tells of a change with at most two events.
LEMMA ShortSeq ==
    ASSUME NEW S, NEW a \in S, NEW b \in S
    PROVE  <<>> \in Seq(S) /\ <<a>> \in Seq(S) /\ <<a, b>> \in Seq(S)
OBVIOUS

\* The fields of the kernel's events.
LEMMA FieldsAre ==
    ASSUME NEW what \in {"create", "delete", "from", "to", "modify", "ignored"}, NEW n \in Names, NEW o \in Objects,
           changes \in Nat
    PROVE  LET e == InRoot(what, n, o)  f == InDir(what, o) IN
           /\ e \in Events /\ e.what = what /\ e.name = n /\ e.dir = Nothing /\ e.cookie = changes /\ e.of = o
           /\ f \in Events /\ f.what = what /\ f.name = Nothing /\ f.dir = o /\ f.cookie = changes /\ f.of = o
           /\ e # Overflow /\ f # Overflow
<1>1. InRoot(what, n, o) # Overflow
  <2>1. InRoot(what, n, o).what = what /\ Overflow.what = "overflow"
    BY DEF InRoot, Overflow
  <2> QED
    BY <2>1
<1>2. InDir(what, o) # Overflow
  <2>1. InDir(what, o).what = what /\ Overflow.what = "overflow"
    BY DEF InDir, Overflow
  <2> QED
    BY <2>1
<1>3. InRoot(what, n, o) \in Events /\ InDir(what, o) \in Events
  BY DEF InRoot, InDir, Events
<1> QED
  BY <1>1, <1>2, <1>3 DEF InRoot, InDir

\* A directory takes a name, or leaves one.
Arrives(c) == Enters(c) \/ c.op = "rename"
Departs(c) == c.op \in {"rmdir", "move out", "rename"}

\* What the kernel tells of a change.
TellsOf(c, k) ==
    \A f \in ToSet(k) :
          /\ f.cookie = changes /\ f.of \in used' /\ Shaped(f)
          /\ f.what \in {"create", "to"} /\ f.name \in Names =>
                 f.name = c.to /\ Arrives(c) /\ f.of = at'[c.to]
          /\ f.what \in {"from", "delete"} /\ f.name \in Names =>
                 f.name = c.name /\ Departs(c) /\ f.of = at[c.name]
          /\ f.what = "from" => c.op \in {"rename", "move out"}
          /\ f.what = "from" /\ c.op = "rename" => \E e \in ToSet(k) : e.what = "to"
          /\ f.what = "from" /\ c.op = "move out" => \A e \in ToSet(k) : e.what # "to"
          /\ f.what = "to" /\ c.op = "rename" => f.of = at[c.name]
          /\ f.what = "ignored" \/ (f.what = "delete" /\ f.dir = Nothing) => c.op = "rmdir" /\ f.of = at[c.name]
TellsAll(c, k) ==
    /\ Arrives(c) => \E f \in ToSet(k) : IsIn(f, c.to)
    /\ Departs(c) => \E f \in ToSet(k) : IsOut(f, c.name)
    /\ c.op \in {"add", "modify", "remove"} /\ at[c.name] \in kernel => \E f \in ToSet(k) : IsFile(f, at[c.name])
Telling(c, k) ==
    /\ k \in Seq(Events) /\ Overflow \notin ToSet(k)
    /\ \A i, j \in DOMAIN k : i < j => Before(k[i], k[j])
    /\ TellsOf(c, k) /\ TellsAll(c, k)

\* The kernel tells all a change does to the names and to the watched directories, and nothing else.
LEMMA KernelTells ==
    ASSUME TreeTypes, NEW c \in Change, Happens(c)
    PROVE  Telling(c, KernelEvents(c))
<1> DEFINE o == at[c.name]
           k == KernelEvents(c)
<1>0. /\ c.name \in Names /\ c.to \in Names /\ c.op \in Ops /\ changes \in Nat
      /\ c.op # "rename" => c.to = c.name
      /\ c.op = "rename" => c.to # c.name /\ at'[c.to] = o
      /\ Enters(c) => at'[c.name] = Fresh /\ Fresh \in Objects /\ Fresh \in used'
      /\ ~Enters(c) => o \in Objects /\ o \in used'
      /\ Nothing \notin Names /\ Nothing \notin Objects
  BY ChangeIs, NothingIsNone DEF TreeTypes
<1>1. CASE c.op \in {"mkdir", "move in", "move in full"}
  <2> DEFINE w == IF c.op = "mkdir" THEN "create" ELSE "to"
             e == InRoot(w, c.name, Fresh)
  <2>1. k = <<e>>
    BY <1>1, KernelEventsAre
  <2>2. Enters(c) /\ c.op # "rename" /\ w \in {"create", "to"} /\ c.op # "rmdir"
    BY <1>1 DEF Enters
  <2>3. /\ e \in Events /\ e.what \in {"create", "to"} /\ e.name = c.name /\ e.dir = Nothing /\ e.cookie = changes
        /\ e.of = Fresh /\ e # Overflow
    BY <1>0, <2>2, FieldsAre
  <2> HIDE DEF k, e, w
  <2>4. ToSet(k) = {e} /\ DOMAIN k = {1} /\ k \in Seq(Events)
    <3>1. ToSet(k) = {e} /\ DOMAIN k = {1}
      BY <2>1, ToSetIs
    <3>2. k \in Seq(Events)
      BY <2>1, <2>3, ShortSeq
    <3> QED
      BY <3>1, <3>2
  <2>6. TellsOf(c, k)
    BY <1>0, <1>1, <2>2, <2>3, <2>4 DEF TellsOf, Arrives, Departs, Shaped
  <2>7. TellsAll(c, k)
    BY <1>0, <1>1, <2>2, <2>3, <2>4 DEF TellsAll, Arrives, Departs, IsIn, IsOut, IsFile
  <2>8. \A i, j \in DOMAIN k : i < j => Before(k[i], k[j])
    BY <2>4
  <2> QED
    BY <2>3, <2>4, <2>6, <2>7, <2>8 DEF Telling, k
<1>2. CASE c.op = "rmdir"
  <2> DEFINE e == InDir("ignored", o)
             f == InRoot("delete", c.name, o)
  <2>1. k = <<e, f>> \/ k = <<f>>
    BY <1>2, KernelEventsAre
  <2>2. ~Enters(c)
    BY <1>2 DEF Enters
  <2>3. /\ e \in Events /\ e.what = "ignored" /\ e.name = Nothing /\ e.dir = o /\ e.cookie = changes
        /\ e.of = o /\ e # Overflow
        /\ f \in Events /\ f.what = "delete" /\ f.name = c.name /\ f.dir = Nothing /\ f.cookie = changes
        /\ f.of = o /\ f # Overflow
    BY <1>0, <2>2, FieldsAre
  <2> HIDE DEF k, e, f
  <2>4. ToSet(k) \subseteq {e, f} /\ f \in ToSet(k) /\ k \in Seq(Events)
    <3>1. ToSet(<<e, f>>) = {e, f} /\ ToSet(<<f>>) = {f}
      BY ToSetIs
    <3>2. k \in Seq(Events)
      BY <2>1, <2>3, ShortSeq
    <3> QED
      BY <2>1, <3>1, <3>2
  <2>5. \A i, j \in DOMAIN k : i < j => k[i] = e /\ k[j] = f
    BY <2>1, ToSetIs
  <2>6. TellsOf(c, k)
    BY <1>0, <1>2, <2>2, <2>3, <2>4, <2>5 DEF TellsOf, Arrives, Departs, Shaped
  <2>7. TellsAll(c, k)
    BY <1>0, <1>2, <2>2, <2>3, <2>4, <2>5 DEF TellsAll, Arrives, Departs, IsIn, IsOut, IsFile
  <2>8. \A i, j \in DOMAIN k : i < j => Before(k[i], k[j])
    BY <1>0, <1>2, <2>2, <2>3, <2>4, <2>5 DEF Before
  <2> QED
    BY <2>3, <2>4, <2>6, <2>7, <2>8 DEF Telling, k
<1>3. CASE c.op \in {"add", "modify", "remove"}
  <2> DEFINE w == IF c.op = "add" THEN "create" ELSE IF c.op = "modify" THEN "modify" ELSE "delete"
             e == InDir(w, o)
  <2>1. k = IF o \in kernel THEN <<e>> ELSE <<>>
    BY <1>3, KernelEventsAre
  <2>2. ~Enters(c) /\ w \in {"create", "modify", "delete"}
    BY <1>3 DEF Enters
  <2>3. /\ e \in Events /\ e.what \in {"create", "modify", "delete"} /\ e.name = Nothing /\ e.dir = o
        /\ e.cookie = changes /\ e.of = o /\ e # Overflow
    BY <1>0, <2>2, FieldsAre
  <2> HIDE DEF k, e, w
  <2>4. /\ ToSet(k) \subseteq {e} /\ (o \in kernel => e \in ToSet(k)) /\ k \in Seq(Events)
        /\ \A i, j \in DOMAIN k : i = j
    <3>1. CASE o \in kernel
      <4>1. ToSet(k) = {e} /\ DOMAIN k = {1} /\ k = <<e>>
        BY <2>1, <3>1, ToSetIs
      <4> QED
        BY <2>3, <4>1, ShortSeq
    <3>2. CASE o \notin kernel
      <4>1. ToSet(k) = {} /\ DOMAIN k = {} /\ k = <<>>
        BY <2>1, <3>2, ToSetIs
      <4> QED
        BY <3>2, <4>1
    <3> QED
      BY <3>1, <3>2
  <2>5. \A i \in DOMAIN k : i \in Nat
    BY <2>4
  <2>6. TellsOf(c, k)
    BY <1>0, <1>3, <2>2, <2>3, <2>4, <2>5 DEF TellsOf, Arrives, Departs, Shaped
  <2>7. TellsAll(c, k)
    BY <1>0, <1>3, <2>2, <2>3, <2>4, <2>5 DEF TellsAll, Arrives, Departs, IsIn, IsOut, IsFile
  <2>8. \A i, j \in DOMAIN k : i < j => Before(k[i], k[j])
    BY <1>0, <1>3, <2>2, <2>3, <2>4, <2>5 DEF Before
  <2> QED
    BY <2>3, <2>4, <2>6, <2>7, <2>8 DEF Telling, k
<1>4. CASE c.op = "rename"
  <2> DEFINE e == InRoot("from", c.name, o)
             f == InRoot("to", c.to, o)
  <2>1. k = <<e, f>>
    BY <1>4, KernelEventsAre
  <2>2. ~Enters(c)
    BY <1>4 DEF Enters
  <2>3. /\ e \in Events /\ e.what = "from" /\ e.name = c.name /\ e.dir = Nothing /\ e.cookie = changes
        /\ e.of = o /\ e # Overflow
        /\ f \in Events /\ f.what = "to" /\ f.name = c.to /\ f.dir = Nothing /\ f.cookie = changes
        /\ f.of = o /\ f # Overflow
    BY <1>0, <2>2, FieldsAre
  <2> HIDE DEF k, e, f
  <2>4. ToSet(k) = {e, f} /\ k \in Seq(Events)
    <3>1. ToSet(k) = {e, f}
      BY <2>1, ToSetIs
    <3>2. k \in Seq(Events)
      BY <2>1, <2>3, ShortSeq
    <3> QED
      BY <3>1, <3>2
  <2>5. \A i, j \in DOMAIN k : i < j => k[i] = e /\ k[j] = f
    BY <2>1, ToSetIs
  <2>6. TellsOf(c, k)
    <3>1. ASSUME NEW x \in ToSet(k)
          PROVE  /\ x.what \in {"from", "to"} /\ x.of = o /\ x.cookie = changes /\ x.dir = Nothing
                 /\ x.name = IF x.what = "from" THEN c.name ELSE c.to
      BY <2>3, <2>4
    <3>2. /\ o \in used' /\ at'[c.to] = o /\ c.name \in Names /\ c.to \in Names
          /\ \E y \in ToSet(k) : y.what = "to"
      BY <1>0, <1>4, <2>2, <2>3, <2>4
    <3>3. ASSUME NEW x \in ToSet(k)
          PROVE  Shaped(x)
      BY <3>1, <3>2 DEF Shaped
    <3>4. c.op = "rename"
      BY <1>4
    <3> HIDE DEF o
    <3>5. o = at[c.name]
      BY DEF o
    <3> QED
      BY <3>1, <3>2, <3>3, <3>4, <3>5 DEF TellsOf, Arrives, Departs
  <2>7. TellsAll(c, k)
    BY <1>0, <1>4, <2>2, <2>3, <2>4, <2>5 DEF TellsAll, Arrives, Departs, IsIn, IsOut, IsFile
  <2>8. \A i, j \in DOMAIN k : i < j => Before(k[i], k[j])
    BY <1>0, <1>4, <2>2, <2>3, <2>4, <2>5 DEF Before
  <2> QED
    BY <2>3, <2>4, <2>6, <2>7, <2>8 DEF Telling, k
<1>5. CASE c.op = "move out"
  <2> DEFINE e == InRoot("from", c.name, o)
  <2>1. k = <<e>>
    BY <1>5, KernelEventsAre
  <2>2. ~Enters(c)
    BY <1>5 DEF Enters
  <2>3. /\ e \in Events /\ e.what = "from" /\ e.name = c.name /\ e.dir = Nothing /\ e.cookie = changes
        /\ e.of = o /\ e # Overflow
    BY <1>0, <2>2, FieldsAre
  <2> HIDE DEF k, e
  <2>4. ToSet(k) = {e} /\ DOMAIN k = {1} /\ k \in Seq(Events)
    <3>1. ToSet(k) = {e} /\ DOMAIN k = {1}
      BY <2>1, ToSetIs
    <3>2. k \in Seq(Events)
      BY <2>1, <2>3, ShortSeq
    <3> QED
      BY <3>1, <3>2
  <2>6. TellsOf(c, k)
    <3>1. ASSUME NEW x \in ToSet(k)
          PROVE  /\ x.what = "from" /\ x.of = o /\ x.cookie = changes /\ x.dir = Nothing
                 /\ x.name = c.name
      BY <2>3, <2>4
    <3>2. o \in used' /\ c.name \in Names
      BY <1>0, <2>2
    <3>3. ASSUME NEW x \in ToSet(k)
          PROVE  Shaped(x)
      BY <3>1, <3>2 DEF Shaped
    <3>4. c.op = "move out"
      BY <1>5
    <3> HIDE DEF o
    <3>5. o = at[c.name]
      BY DEF o
    <3> QED
      BY <3>1, <3>2, <3>3, <3>4, <3>5 DEF TellsOf, Arrives, Departs
  <2>7. TellsAll(c, k)
    BY <1>0, <1>5, <2>2, <2>3, <2>4 DEF TellsAll, Arrives, Departs, IsIn, IsOut, IsFile
  <2>8. \A i, j \in DOMAIN k : i < j => Before(k[i], k[j])
    BY <2>4
  <2> QED
    BY <2>3, <2>4, <2>6, <2>7, <2>8 DEF Telling, k
<1> QED
  BY <1>0, <1>1, <1>2, <1>3, <1>4, <1>5 DEF Ops

-----------------------------------------------------------------------------
(* The users' changes and the remote watcher's invariant.                  *)

\* Which directories are in the tree after a change.
LEMMA TreeAfter ==
    ASSUME TreeTypes, NEW c \in Change, Happens(c), NEW o
    PROVE  /\ InTree(o)' => InTree(o) \/ (Enters(c) /\ o = Fresh) \/ o = Nothing
           /\ c.op \in {"rmdir", "move out"} /\ o = at[c.name] => ~InTree(o)'
           /\ o \in used => o # Fresh \/ ~Enters(c)
<1>1. ASSUME NEW n \in Names, at'[n] = o, o # Nothing
      PROVE  InTree(o) \/ (Enters(c) /\ o = Fresh)
  BY <1>1, ChangeIs DEF InTree, Enters, Ops
<1>2. ASSUME c.op \in {"rmdir", "move out"}, o = at[c.name], NEW n \in Names, at'[n] = o
      PROVE  FALSE
  <2>1. /\ c.name \in Names /\ c.to = c.name /\ at'[c.name] = Nothing /\ at[c.name] # Nothing
    BY <1>2, ChangeIs DEF Enters
  <2>2. n # c.name /\ at'[n] = at[n]
    BY <1>2, <2>1, ChangeIs
  <2> QED
    BY <1>2, <2>1, <2>2 DEF TreeTypes
<1>3. InTree(o)' <=> \E n \in Names : at'[n] = o
  BY DEF InTree
<1>4. o \in used => o # Fresh \/ ~Enters(c)
  BY ChangeIs
<1> QED
  BY <1>1, <1>2, <1>3, <1>4

\* What a change is to the watcher.
ChangeSeen(c) ==
    LET K == ToSet(KernelEvents(c)) IN
    /\ Told' = Told \cup K
    /\ \A f \in K : f.cookie = changes
    /\ \A e \in Told : e.cookie \in Nat /\ e.cookie < changes /\ e.of \in used /\ e # Overflow
    /\ \A m \in pending : m.name \in Names /\ m.cookie \in Nat /\ m.cookie < changes
    /\ UNCHANGED <<known, watchPaths, pathWatches, pending, task>> /\ changed' = changed \cup Touched(c)
    /\ kernel' = IF c.op = "rmdir" THEN kernel \ {at[c.name]} ELSE kernel
    /\ Happens(c) /\ TellsOf(c, KernelEvents(c)) /\ TellsAll(c, KernelEvents(c))
    /\ Arrives(c) =>
          /\ at[c.to] = Nothing /\ at'[c.to] # Nothing
          /\ ~InQueue(c.to) /\ ~Left(c.to) /\ task.name # c.to /\ \A e \in Told : e.name # c.to
    /\ Departs(c) => at[c.name] # Nothing /\ ~Left(c.name) /\ at'[c.name] = Nothing
    /\ \A n \in Names :
          /\ InQueue(n)' <=> InQueue(n) \/ (n = c.to /\ Arrives(c))
          /\ OutQueue(n)' <=> OutQueue(n) \/ (n = c.name /\ Departs(c))
          /\ Half(n)' <=> Half(n)
          /\ Left(n)' <=> Left(n) \/ (n = c.name /\ Departs(c))
          /\ Entered(n)' <=> Entered(n) \/ (n = c.to /\ Arrives(c))
          /\ Unwatched(n)' <=> Unwatched(n) \/ (n = c.to /\ Arrives(c))
          /\ n # c.to /\ n # c.name => at'[n] = at[n]
          /\ ~Arrives(c) /\ ~Departs(c) => at'[n] = at[n]
    /\ Arrives(c) /\ Departs(c) <=> c.op = "rename"
    /\ c.op = "rename" => c.name # c.to /\ at'[c.to] = at[c.name]
    /\ c.op # "rename" => c.name = c.to
    /\ c.name \in Names /\ c.to \in Names /\ Nothing \notin Names /\ Nothing \notin Objects

\* A change adds what the kernel tells of it to what is not read yet.
LEMMA ChangeIsSeen ==
    ASSUME TreeTypes, RemoteTypes, ~Hurried, ~Broken, Good, NEW c \in Change, DiskChange(c)
    PROVE  ChangeSeen(c) /\ InOrder'
<1> DEFINE k == KernelEvents(c)
           K == ToSet(k)
<1>1. /\ Happens(c) /\ queue' = queue \o k /\ changed' = changed \cup Touched(c)
      /\ UNCHANGED <<known, watchPaths, pathWatches, pending, task>>
      /\ kernel' = IF c.op = "rmdir" THEN kernel \ {at[c.name]} ELSE kernel
      /\ ~(Enters(c) \/ c.op = "rename") \/ Settled(c.to)
  BY DEF DiskChange, Broken
<1>2. Telling(c, k)
  BY <1>1, KernelTells
<1>3. k \in Seq(Events) /\ queue \in Seq(Events)
  BY <1>2 DEF Telling, RemoteTypes
<1>4. /\ \A e \in Told : e.cookie < changes /\ e.of \in used /\ Shaped(e) /\ e # Overflow
      /\ \A m \in pending : m.name \in Names /\ m.cookie \in Nat /\ m.cookie < changes
  BY DEF RemoteTypes, OfNow, Broken
<1>5. \A e \in Told : e.cookie \in Nat
  <2>1. ASSUME NEW i \in DOMAIN queue
        PROVE  queue[i].cookie \in Nat
    <3>1. queue[i] \in Events
      BY <1>3
    <3> QED
      BY <3>1 DEF Events
  <2> QED
    BY <2>1 DEF Told, ToSet
<1>6. /\ c.name \in Names /\ c.to \in Names /\ changes \in Nat
      /\ c.op = "rename" => c.name # c.to /\ at'[c.to] = at[c.name] /\ at[c.to] = Nothing
      /\ c.op # "rename" => c.name = c.to
      /\ Enters(c) => at[c.name] = Nothing /\ at'[c.name] = Fresh /\ Fresh \in Objects
      /\ ~Enters(c) => at[c.name] # Nothing
      /\ Departs(c) => at'[c.name] = Nothing
      /\ \A n \in Names : n # c.to /\ n # c.name => at'[n] = at[n]
  BY <1>1, ChangeIs DEF TreeTypes, Departs
<1>7. ~Arrives(c) /\ ~Departs(c) => at' = at
  BY <1>1, ChangeIs DEF Arrives, Departs, Enters, Ops
<1>8. Nothing \notin Names /\ Nothing \notin Objects
  BY NothingIsNone
<1>9. Arrives(c) /\ Departs(c) <=> c.op = "rename"
  BY DEF Arrives, Departs, Enters
<1>10. Departs(c) => ~Enters(c) /\ at[c.name] # Nothing /\ ~Left(c.name)
  <2>1. Departs(c) => ~Enters(c)
    BY DEF Departs, Enters
  <2> QED
    BY <1>6, <2>1 DEF Good, Ends
<1>11. Arrives(c) => /\ at[c.to] = Nothing /\ at'[c.to] # Nothing /\ task.name # c.to
                     /\ (\A e \in Told : e.name # c.to) /\ ~InQueue(c.to) /\ ~Left(c.to)
  <2>1. ASSUME Arrives(c)
        PROVE  Settled(c.to) /\ at[c.to] = Nothing /\ at'[c.to] # Nothing
    BY <1>1, <1>6, <1>8, <1>9, <1>10, <2>1 DEF Arrives
  <2>2. ASSUME Settled(c.to)
        PROVE  /\ task.name # c.to /\ (\A e \in Told : e.name # c.to) /\ \A m \in pending : m.name # c.to
    BY <2>2 DEF Settled, Told, ToSet
  <2> QED
    BY <2>1, <2>2 DEF InQueue, Left, OutQueue, Half, IsIn, IsOut
<1>12. Told' = Told \cup K
  BY <1>1, <1>3, AppendIs
<1>13. TellsOf(c, k) /\ TellsAll(c, k)
  BY <1>2 DEF Telling
<1> HIDE DEF k, K
<1>14. ASSUME NEW n \in Names
       PROVE  /\ InQueue(n)' <=> InQueue(n) \/ (n = c.to /\ Arrives(c))
              /\ OutQueue(n)' <=> OutQueue(n) \/ (n = c.name /\ Departs(c))
              /\ Half(n)' <=> Half(n)
  <2>1. InQueue(n)' <=> InQueue(n) \/ \E e \in K : IsIn(e, n)
    BY <1>12 DEF InQueue, IsIn
  <2>2. OutQueue(n)' <=> OutQueue(n) \/ \E e \in K : IsOut(e, n)
    BY <1>12 DEF OutQueue, IsOut
  <2>3. (\E e \in K : IsIn(e, n)) <=> n = c.to /\ Arrives(c)
    BY <1>13 DEF TellsOf, TellsAll, IsIn, K
  <2>4. (\E e \in K : IsOut(e, n)) <=> n = c.name /\ Departs(c)
    BY <1>13 DEF TellsOf, TellsAll, IsOut, K
  <2>5. Half(n)' <=> Half(n)
    BY <1>1 DEF Half
  <2> QED
    BY <2>1, <2>2, <2>3, <2>4, <2>5
<1>15. ASSUME NEW n \in Names
       PROVE  /\ Left(n)' <=> Left(n) \/ (n = c.name /\ Departs(c))
              /\ Entered(n)' <=> Entered(n) \/ (n = c.to /\ Arrives(c))
              /\ Unwatched(n)' <=> Unwatched(n) \/ (n = c.to /\ Arrives(c))
  <2>1. /\ Left(n)' <=> OutQueue(n)' \/ Half(n)'
        /\ Entered(n)' <=> InQueue(n)' \/ task.name = n
        /\ Unwatched(n)' <=> InQueue(n)' \/ task = Task("watch", n)
    BY <1>1 DEF Left, Entered, Unwatched, Task
  <2> QED
    BY <1>14, <2>1 DEF Left, Entered, Unwatched
<1>16. \A f \in K : f.cookie = changes /\ Shaped(f)
  BY <1>13 DEF TellsOf, K
<1>17. \A e \in Told : \A f \in K : Before(e, f)
  <2>1. ASSUME NEW e \in Told, NEW f \in K
        PROVE  Before(e, f)
    <3>1. e.cookie # f.cookie
      BY <1>4, <1>5, <1>6, <1>16
    <3>2. ASSUME e.name = f.name, e.name \in Names
          PROVE  e.what \in {"create", "to"} /\ f.what \in {"from", "delete"}
      <4>1. /\ e.what \in {"create", "delete", "from", "to"}
            /\ f.what \in {"create", "delete", "from", "to"}
        BY <1>4, <1>8, <1>16, <3>2 DEF Shaped
      <4>2. f.what \notin {"create", "to"}
        BY <1>11, <1>13, <3>2 DEF TellsOf, K
      <4>3. f.name = c.name /\ Departs(c)
        BY <1>13, <3>2, <4>1, <4>2 DEF TellsOf, K
      <4>4. ~IsOut(e, c.name)
        BY <1>10, <4>3 DEF Left, OutQueue
      <4> QED
        BY <3>2, <4>1, <4>2, <4>3, <4>4 DEF IsOut
    <3> QED
      BY <3>1, <3>2 DEF Before
  <2> QED
    BY <2>1
<1>18. InOrder'
  <2>1. \A i, j \in DOMAIN k : i < j => Before(k[i], k[j])
    BY <1>2 DEF Telling
  <2>2. InOrder
    BY DEF Good
  <2> QED
    BY <1>1, <1>3, <1>17, <2>1, <2>2, AppendIs DEF K
<1>19. ChangeSeen(c)
  BY <1>1, <1>4, <1>5, <1>6, <1>7, <1>8, <1>9, <1>10, <1>11, <1>12, <1>13, <1>14, <1>15, <1>16 DEF ChangeSeen, k, K
<1> QED
  BY <1>18, <1>19

\* A change keeps the invariant.
LEMMA ChangeHalves ==
    ASSUME NEW c, ChangeSeen(c), Halves
    PROVE  Halves'
<1>1. /\ \A m \in pending : m.name \in Names
      /\ \A m \in pending : Half(m.name)
      /\ UNCHANGED <<pending, task>>
  BY DEF ChangeSeen, Half
<1>2. ASSUME NEW m \in pending
      PROVE  ~InQueue(m.name)' /\ ~OutQueue(m.name)'
  <2>1. m.name \in Names /\ Left(m.name)
    BY <1>1, <1>2 DEF Left
  <2> QED
    BY <1>2, <2>1 DEF ChangeSeen, Halves
<1>3. ASSUME NEW n \in Names, task.name = n
      PROVE  ~InQueue(n)'
  BY <1>3 DEF ChangeSeen, Halves
<1> QED
  BY <1>1, <1>2, <1>3 DEF Halves

\* What is not read yet still ends with what is, after a change.
LEMMA ChangeEnds ==
    ASSUME NEW c, ChangeSeen(c), Ends
    PROVE  Ends'
<1>1. ASSUME NEW n \in Names
      PROVE  /\ Left(n)' => at'[n] = Nothing
             /\ Entered(n)' /\ ~Left(n)' => at'[n] # Nothing
  <2>1. /\ Left(n) => at[n] = Nothing
        /\ Entered(n) /\ ~Left(n) => at[n] # Nothing
    BY DEF Ends
  <2>2. CASE Arrives(c) /\ n = c.to
    BY <2>1, <2>2 DEF ChangeSeen
  <2>3. CASE Departs(c) /\ n = c.name
    BY <2>1, <2>3 DEF ChangeSeen
  <2>4. CASE ~(Arrives(c) /\ n = c.to) /\ ~(Departs(c) /\ n = c.name)
    <3>1. at'[n] = at[n]
      BY <2>4 DEF ChangeSeen
    <3> QED
      BY <2>1, <2>4, <3>1 DEF ChangeSeen
  <2> QED
    BY <2>2, <2>3, <2>4
<1> QED
  BY <1>1 DEF Ends

\* The events that a name appears are about the directory it is, after a change.
LEMMA ChangeAppears ==
    ASSUME NEW c, ChangeSeen(c), Appears
    PROVE  Appears'
<1> DEFINE K == ToSet(KernelEvents(c))
<1>1. ASSUME NEW n \in Names, NEW e \in Told', IsIn(e, n)
      PROVE  /\ ~OutQueue(n)' => e.of = at'[n]
             /\ \A f \in Told' : IsOut(f, n) => f.of = e.of
  <2>1. CASE e \in K
    <3>1. n = c.to /\ Arrives(c) /\ e.of = at'[c.to]
      BY <1>1, <2>1 DEF ChangeSeen, TellsOf, IsIn
    <3>2. ~OutQueue(n)'
      BY <3>1 DEF ChangeSeen, Left
    <3> QED
      BY <3>1, <3>2 DEF OutQueue
  <2>2. CASE e \in Told
    <3>1. InQueue(n) /\ (n # c.to \/ ~Arrives(c))
      BY <1>1, <2>2 DEF ChangeSeen, IsIn, InQueue
    <3>2. ~OutQueue(n) => e.of = at[n]
      BY <1>1, <2>2 DEF Appears
    <3>3. ASSUME ~OutQueue(n)'
          PROVE  e.of = at'[n]
      <4>1. ~OutQueue(n) /\ ~(n = c.name /\ Departs(c))
        BY <3>3 DEF ChangeSeen
      <4>2. at'[n] = at[n]
        BY <3>1, <4>1 DEF ChangeSeen
      <4> QED
        BY <3>2, <4>1, <4>2
    <3>4. ASSUME NEW f \in Told', IsOut(f, n)
          PROVE  f.of = e.of
      <4>1. CASE f \in Told
        BY <1>1, <2>2, <3>4, <4>1 DEF Appears
      <4>2. CASE f \in K
        <5>1. n = c.name /\ Departs(c) /\ f.of = at[c.name]
          BY <1>1, <3>4, <4>2 DEF ChangeSeen, TellsOf, IsOut
        <5>2. ~OutQueue(n)
          BY <5>1 DEF ChangeSeen, Left
        <5> QED
          BY <3>2, <5>1, <5>2
      <4> QED
        BY <3>4, <4>1, <4>2 DEF ChangeSeen
    <3> QED
      BY <3>3, <3>4
  <2> QED
    BY <1>1, <2>1, <2>2 DEF ChangeSeen
<1> QED
  BY <1>1 DEF Appears

\* Older halves of renames are about the directories they were about.
LEMMA WhoseStays ==
    ASSUME TreeTypes, NEW c \in Change, ChangeSeen(c), NEW m, m.cookie \in Nat, m.cookie < changes,
           NEW o \in used, Whose(m, o)
    PROVE  Whose(m, o)'
<1>1. ASSUME NEW e \in Told', Partner(m, e)
      PROVE  e \in Told
  <2>1. e.cookie = m.cookie
    BY <1>1 DEF Partner
  <2>2. changes \in Nat
    BY DEF TreeTypes
  <2> QED
    BY <1>1, <2>1, <2>2 DEF ChangeSeen
<1>2. InTree(o)' => InTree(o)
  BY TreeAfter, NothingIsNone DEF ChangeSeen, TreeTypes
<1>3. Told \subseteq Told'
  BY DEF ChangeSeen
<1>4. \A e \in Told' : Partner(m, e) => e.of = o
  BY <1>1 DEF Whose
<1>5. (\A e \in Told' : ~Partner(m, e)) => ~InTree(o)'
  BY <1>2, <1>3 DEF Whose
<1> QED
  BY <1>4, <1>5 DEF Whose, Partner

\* The events that a directory goes are about one that is gone, after a change.
LEMMA ChangeGoes ==
    ASSUME TreeTypes, NEW c \in Change, ChangeSeen(c), Goes
    PROVE  Goes'
<1> DEFINE K == ToSet(KernelEvents(c))
<1>1. ASSUME NEW f \in Told', f.what = "from"
      PROVE  Whose(f, f.of)' /\ \A m \in pending' : m.cookie # f.cookie
  <2>1. CASE f \in Told
    <3>1. Whose(f, f.of) /\ \A m \in pending : m.cookie # f.cookie
      BY <1>1, <2>1 DEF Goes
    <3>2. f.cookie \in Nat /\ f.cookie < changes /\ f.of \in used
      BY <2>1 DEF ChangeSeen
    <3>3. pending' = pending
      BY DEF ChangeSeen
    <3> QED
      BY <3>1, <3>2, <3>3, WhoseStays
  <2>2. CASE f \in K
    <3>1. f.cookie = changes /\ c.op \in {"rename", "move out"}
      BY <1>1, <2>2 DEF ChangeSeen, TellsOf
    <3>2. \A m \in pending' : m.cookie # f.cookie
      <4>1. changes \in Nat
        BY DEF TreeTypes
      <4>2. ASSUME NEW m \in pending'
            PROVE  m.cookie # f.cookie
        <5>1. m.cookie \in Nat /\ m.cookie < changes
          BY DEF ChangeSeen
        <5>2. m.cookie # changes
          BY <4>1, <5>1
        <5> QED
          BY <3>1, <5>2
      <4> QED
        BY <4>2
    <3>3. ASSUME NEW e \in Told', Partner(f, e)
          PROVE  e \in K /\ e.what = "to"
      <4>1. e.cookie = changes /\ changes \in Nat
        BY <3>1, <3>3 DEF Partner, TreeTypes
      <4> QED
        BY <3>3, <4>1 DEF ChangeSeen, Partner
    <3>4. CASE c.op = "rename"
      <4>0. Departs(c)
        BY <3>4 DEF Departs
      <4>1. f.of = at[c.name]
        BY <1>1, <2>2, <3>4, <4>0 DEF ChangeSeen, TellsOf, Shaped
      <4>2. \A e \in Told' : Partner(f, e) => e.of = f.of
        BY <3>3, <3>4, <4>1 DEF ChangeSeen, TellsOf
      <4>3. PICK e \in K : e.what = "to"
        BY <1>1, <2>2, <3>4 DEF ChangeSeen, TellsOf
      <4>4. Partner(f, e) /\ e \in Told'
        BY <3>1, <4>3 DEF ChangeSeen, Partner
      <4> QED
        BY <3>2, <4>2, <4>4 DEF Whose, Partner
    <3>5. CASE c.op = "move out"
      <4>0. Departs(c)
        BY <3>5 DEF Departs
      <4>1. f.of = at[c.name]
        BY <1>1, <2>2, <3>5, <4>0 DEF ChangeSeen, TellsOf, Shaped
      <4>2. \A e \in Told' : ~Partner(f, e)
        BY <1>1, <2>2, <3>3, <3>5 DEF ChangeSeen, TellsOf
      <4>3. ~InTree(f.of)'
        BY <3>5, <4>1, TreeAfter DEF ChangeSeen
      <4> QED
        BY <3>2, <4>2, <4>3 DEF Whose, Partner
    <3> QED
      BY <3>1, <3>4, <3>5
  <2> QED
    BY <1>1, <2>1, <2>2 DEF ChangeSeen
<1>2. ASSUME NEW f \in Told', f.what = "ignored" \/ (f.what = "delete" /\ f.dir = Nothing)
      PROVE  ~InTree(f.of)'
  <2>1. CASE f \in Told
    <3>1. ~InTree(f.of) /\ f.of \in used /\ f.of # Nothing
      BY <1>2, <2>1, NothingIsNone DEF Goes, ChangeSeen, TreeTypes
    <3> QED
      BY <3>1, TreeAfter DEF ChangeSeen
  <2>2. CASE f \in K
    <3>1. c.op = "rmdir" /\ f.of = at[c.name]
      BY <1>2, <2>2 DEF ChangeSeen, TellsOf
    <3> QED
      BY <3>1, TreeAfter DEF ChangeSeen
  <2> QED
    BY <1>2, <2>1, <2>2 DEF ChangeSeen
<1> QED
  BY <1>1, <1>2 DEF Goes

\* A watch is kept under the name its directory has or had, after a change.
LEMMA ChangeKept ==
    ASSUME TreeTypes, RemoteTypes, NEW c \in Change, ChangeSeen(c), Kept
    PROVE  Kept'
<1> DEFINE K == ToSet(KernelEvents(c))
<1>1. ASSUME NEW o \in Objects, NEW w \in Names, watchPaths'[o] = w
      PROVE  /\ ~Unwatched(w)'
             /\ \/ at'[w] = o
                \/ \E f \in Told' : IsOut(f, w) /\ f.of = o
                \/ \E m \in pending' : m.name = w /\ Whose(m, o)'
  <2>1. watchPaths[o] = w /\ o \in used
    BY <1>1, NothingIsNone DEF ChangeSeen, RemoteTypes
  <2>2. /\ ~Unwatched(w)
        /\ \/ at[w] = o
           \/ \E f \in Told : IsOut(f, w) /\ f.of = o
           \/ \E m \in pending : m.name = w /\ Whose(m, o)
    BY <2>1 DEF Kept
  <2>3. CASE at[w] = o
    <3>1. ~(Arrives(c) /\ w = c.to)
      BY <1>1, <2>3, NothingIsNone DEF ChangeSeen
    <3>2. ~Unwatched(w)'
      BY <2>2, <3>1 DEF ChangeSeen
    <3>3. CASE Departs(c) /\ w = c.name
      <4>1. PICK f \in K : IsOut(f, c.name)
        BY <3>3 DEF ChangeSeen, TellsAll
      <4>2. f.of = at[c.name] /\ f \in Told'
        BY <4>1 DEF ChangeSeen, TellsOf, IsOut
      <4> QED
        BY <2>3, <3>2, <3>3, <4>1, <4>2
    <3>4. CASE ~(Departs(c) /\ w = c.name)
      <4>1. at'[w] = at[w]
        BY <3>1, <3>4 DEF ChangeSeen
      <4> QED
        BY <2>3, <3>2, <4>1
    <3> QED
      BY <3>3, <3>4
  <2>4. CASE \E f \in Told : IsOut(f, w) /\ f.of = o
    <3>1. Left(w)
      BY <2>4 DEF Left, OutQueue
    <3>2. ~Unwatched(w)'
      BY <2>2, <3>1 DEF ChangeSeen
    <3>3. Told \subseteq Told'
      BY DEF ChangeSeen
    <3> QED
      BY <2>4, <3>2, <3>3
  <2>5. CASE \E m \in pending : m.name = w /\ Whose(m, o)
    <3>1. Left(w)
      BY <2>5 DEF Left, Half
    <3>2. ~Unwatched(w)'
      BY <2>2, <3>1 DEF ChangeSeen
    <3>3. PICK m \in pending : m.name = w /\ Whose(m, o)
      BY <2>5
    <3>4. m.cookie \in Nat /\ m.cookie < changes /\ m \in pending'
      BY DEF ChangeSeen
    <3>5. Whose(m, o)'
      BY <2>1, <3>3, <3>4, WhoseStays
    <3> QED
      BY <3>2, <3>3, <3>4, <3>5
  <2> QED
    BY <2>2, <2>3, <2>4, <2>5
<1> QED
  BY <1>1 DEF Kept

\* A directory has its watch, but for one that the change brings.
LEMMA ChangeWatched ==
    ASSUME TreeTypes, RemoteTypes, NEW c \in Change, ChangeSeen(c), Watched
    PROVE  Watched'
<1>1. ASSUME NEW n \in Names, at'[n] # Nothing, ~Unwatched(n)'
      PROVE  watchPaths'[at'[n]] = n
  <2>1. ~(Arrives(c) /\ n = c.to) /\ ~(Departs(c) /\ n = c.name) /\ ~Unwatched(n)
    BY <1>1 DEF ChangeSeen
  <2>2. at'[n] = at[n]
    BY <2>1 DEF ChangeSeen
  <2> QED
    BY <1>1, <2>1, <2>2 DEF ChangeSeen, Watched
<1>2. ASSUME NEW o \in Objects, watchPaths'[o] # Nothing, InTree(o)'
      PROVE  o \in kernel'
  <2>1. watchPaths[o] # Nothing /\ o \in used /\ o # Nothing
    BY <1>2, NothingIsNone DEF ChangeSeen, RemoteTypes
  <2>2. InTree(o) /\ (c.op = "rmdir" => o # at[c.name])
    BY <1>2, <2>1, TreeAfter DEF ChangeSeen
  <2>3. o \in kernel
    BY <2>1, <2>2 DEF Watched
  <2> QED
    BY <2>2, <2>3 DEF ChangeSeen
<1> QED
  BY <1>1, <1>2 DEF Watched

\* Nothing was said about a file that a change brings.
LEMMA ChangeUnsaid ==
    ASSUME NEW c, ChangeSeen(c), Unsaid
    PROVE  Unsaid'
<1>1. ASSUME NEW n \in Names
      PROVE  /\ at'[n] = Nothing /\ ~Left(n)' => File(n) \notin known'
             /\ Entered(n)' => File(n) \notin known'
  <2>0. /\ at[n] = Nothing /\ ~Left(n) => File(n) \notin known
        /\ Entered(n) => File(n) \notin known
        /\ known' = known
    BY DEF Unsaid, ChangeSeen
  <2>1. CASE Arrives(c) /\ n = c.to
    BY <2>0, <2>1 DEF ChangeSeen
  <2>2. CASE Departs(c) /\ n = c.name
    BY <2>0, <2>2 DEF ChangeSeen
  <2>3. CASE ~(Arrives(c) /\ n = c.to) /\ ~(Departs(c) /\ n = c.name)
    <3>1. at'[n] = at[n] /\ (Left(n)' <=> Left(n)) /\ (Entered(n)' <=> Entered(n))
      BY <2>3 DEF ChangeSeen
    <3> QED
      BY <2>0, <3>1
  <2> QED
    BY <2>1, <2>2, <2>3
<1> QED
  BY <1>1 DEF Unsaid

\* What a change makes the watcher owe is to come.
LEMMA ChangeToCome ==
    ASSUME TreeTypes, NEW c \in Change, ChangeSeen(c), Watched, ToCome
    PROVE  ToCome'
<1> DEFINE K == ToSet(KernelEvents(c))
<1>0. Happens(c) /\ c.name \in Names /\ c.to \in Names /\ c.op \in Ops
  BY DEF ChangeSeen, Change
<1>1. ASSUME NEW n \in Names, <<n>> \in changed'
      PROVE  InQueue(n)' \/ Left(n)'
  <2>1. CASE <<n>> \in changed
    BY <2>1 DEF ChangeSeen, ToCome
  <2>2. CASE <<n>> \in Touched(c)
    <3>1. c.op \notin {"add", "modify", "remove"}
      BY <1>0, <2>2, PathsDiffer DEF Touched
    <3>2. n \in {c.name, c.to}
      BY <1>0, <2>2, PathsDiffer DEF Touched
    <3>3. Arrives(c) \/ Departs(c)
      BY <1>0, <3>1 DEF Arrives, Departs, Enters, Ops
    <3> QED
      BY <3>2, <3>3 DEF ChangeSeen
  <2> QED
    BY <1>1, <2>1, <2>2 DEF ChangeSeen
<1>2. ASSUME NEW n \in Names, File(n) \in Owed', ~Left(n)', ~Entered(n)'
      PROVE  at'[n] # Nothing /\ \E e \in Told' : IsFile(e, at'[n])
  <2>1. /\ ~Left(n) /\ ~Entered(n) /\ ~(Arrives(c) /\ n = c.to) /\ ~(Departs(c) /\ n = c.name)
        /\ at'[n] = at[n]
    BY <1>2 DEF ChangeSeen
  <2>2. File(n) \in changed' /\ (File(n) \in known' \/ File(n) \in Present')
    BY <1>2 DEF Owed
  <2>3. CASE File(n) \in Touched(c)
    <3>1. n \in {c.name, c.to}
      BY <1>0, <2>3, PathsDiffer DEF Touched
    <3>2. c.op \in {"add", "modify", "remove"}
      <4>1. ASSUME c.op = "move out" \/ c.op = "rmdir"
            PROVE  FALSE
        BY <2>1, <3>1, <4>1 DEF ChangeSeen, Departs
      <4>2. ASSUME c.op = "rename"
            PROVE  FALSE
        BY <2>1, <3>1, <4>2 DEF ChangeSeen, Departs, Arrives
      <4>3. ASSUME Enters(c)
            PROVE  FALSE
        BY <2>1, <3>1, <4>3 DEF ChangeSeen, Departs, Arrives, Enters
      <4> QED
        BY <1>0, <4>1, <4>2, <4>3 DEF Ops, Enters
    <3>3. n = c.name /\ at[c.name] # Nothing
      BY <1>0, <3>1, <3>2, ChangeIs DEF Enters
    <3>4. at[c.name] \in kernel
      <4>1. ~Unwatched(n)
        BY <2>1 DEF Entered, Unwatched, Task
      <4>2. watchPaths[at[n]] = n /\ at[n] \in Objects /\ n # Nothing
        BY <3>3, <4>1, NothingIsNone DEF Watched, TreeTypes
      <4> QED
        BY <3>3, <4>2 DEF Watched, InTree
    <3>5. \E f \in K : IsFile(f, at[c.name])
      BY <3>2, <3>4 DEF ChangeSeen, TellsAll
    <3> QED
      BY <2>1, <3>3, <3>5 DEF ChangeSeen
  <2>4. CASE File(n) \notin Touched(c)
    <3>1. File(n) \in changed
      BY <2>2, <2>4 DEF ChangeSeen
    <3>2. File(n) \in Present' => File(n) \in Present
      BY <1>0, <2>4, NewIsTouched
    <3>3. File(n) \in Owed
      BY <2>2, <3>1, <3>2 DEF Owed, ChangeSeen
    <3>4. at[n] # Nothing /\ \E e \in Told : IsFile(e, at[n])
      BY <2>1, <3>3 DEF ToCome
    <3> QED
      BY <2>1, <3>4 DEF ChangeSeen
  <2> QED
    BY <2>3, <2>4
<1> QED
  BY <1>1, <1>2 DEF ToCome

\* So a change that is told keeps the invariant.
LEMMA ChangeGood ==
    ASSUME TreeTypes, RemoteTypes, ~Hurried, ~Broken, Good, NEW c \in Change, DiskChange(c)
    PROVE  Good'
<1>1. ChangeSeen(c) /\ InOrder'
  BY ChangeIsSeen
<1>2. Halves' /\ Ends' /\ Appears' /\ Unsaid'
  BY <1>1, ChangeHalves, ChangeEnds, ChangeAppears, ChangeUnsaid DEF Good
<1>3. Goes' /\ Kept' /\ Watched' /\ ToCome'
  BY <1>1, ChangeGoes, ChangeKept, ChangeWatched, ChangeToCome DEF Good
<1> QED
  BY <1>1, <1>2, <1>3 DEF Good

-----------------------------------------------------------------------------
(* The watcher's steps and its invariant.                                  *)

\* What an event that is read says.
LEMMA ReadSeen ==
    ASSUME RemoteTypes, NEW what \in {"create", "delete", "from", "to", "modify", "ignored"}, Reads(what)
    PROVE  /\ ~Broken /\ task = NoTask /\ Event \in Told /\ Event.what = what /\ queue' \in Seq(Events)
           /\ Event.cookie \in Nat /\ OfNow(Event)
           /\ Told' \subseteq Told /\ (\A e \in Told : e = Event \/ e \in Told') /\ Overflow \notin Told'
           /\ InOrder => InOrder' /\ \A f \in Told' : Before(Event, f)
           /\ Nothing \notin Names /\ Nothing \notin Objects
<1>1. /\ task = NoTask /\ queue # <<>> /\ Event.what = what /\ queue' = Tail(queue)
      /\ queue \in Seq(Events) /\ \A i \in DOMAIN queue : queue[i] = Overflow => i = 1
      /\ \A e \in Told : e = Overflow \/ OfNow(e)
  BY DEF Reads, Event, RemoteTypes
<1>2. /\ Event \in Told /\ Told' \subseteq Told /\ (\A e \in Told : e = Event \/ e \in Told')
      /\ queue' \in Seq(Events)
      /\ InOrder => InOrder' /\ \A f \in Told' : Before(Event, f)
      /\ Overflow \notin Told'
  BY <1>1, ReadIs DEF Event
<1>3. Event # Overflow
  <2>1. Overflow.what = "overflow"
    BY DEF Overflow
  <2> QED
    BY <1>1, <2>1
<1>4. ~Rebuilding
  BY <1>1 DEF Rebuilding, NoTask
<1>5. Event.cookie \in Nat
  <2>1. Event \in Events
    BY <1>1 DEF Event
  <2> QED
    BY <2>1 DEF Events
<1> QED
  BY <1>1, <1>2, <1>3, <1>4, <1>5, NothingIsNone DEF Broken

\* What is left unread of a name.
LEMMA ReadNames ==
    ASSUME RemoteTypes, Good, NEW what \in {"create", "delete", "from", "to", "modify", "ignored"}, Reads(what),
           NEW n \in Names
    PROVE  /\ n # Event.name => (InQueue(n)' <=> InQueue(n)) /\ (OutQueue(n)' <=> OutQueue(n))
           /\ n = Event.name => ~InQueue(n)' /\ ~Half(n)
           /\ n = Event.name /\ what \in {"create", "to"} => InQueue(n) /\ (OutQueue(n)' <=> OutQueue(n))
           /\ n = Event.name /\ what \in {"from", "delete"} => OutQueue(n) /\ ~InQueue(n) /\ ~OutQueue(n)'
<1>1. /\ Event \in Told /\ Event.what = what
      /\ Told' \subseteq Told /\ (\A e \in Told : e = Event \/ e \in Told')
      /\ \A f \in Told' : Before(Event, f)
  BY ReadSeen DEF Good
<1>2. /\ InQueue(n)' <=> \E e \in Told' : IsIn(e, n)
      /\ OutQueue(n)' <=> \E e \in Told' : IsOut(e, n)
  BY DEF InQueue, OutQueue, IsIn, IsOut
<1>3. n = Event.name => what \in {"create", "delete", "from", "to"}
  BY ReadSeen DEF OfNow, Shaped
<1>4. n # Event.name => (InQueue(n)' <=> InQueue(n)) /\ (OutQueue(n)' <=> OutQueue(n))
  BY <1>1, <1>2 DEF InQueue, OutQueue, IsIn, IsOut
<1>5. n = Event.name => InQueue(n) \/ OutQueue(n)
  BY <1>1, <1>3 DEF InQueue, OutQueue, IsIn, IsOut
<1>6. n = Event.name => ~Half(n)
  BY <1>5 DEF Good, Halves, Half
<1>7. n = Event.name /\ what \in {"create", "to"} => InQueue(n) /\ ~InQueue(n)' /\ (OutQueue(n)' <=> OutQueue(n))
  BY <1>1, <1>2 DEF InQueue, OutQueue, IsIn, IsOut, Before
<1>8. n = Event.name /\ what \in {"from", "delete"} => OutQueue(n) /\ ~InQueue(n) /\ ~InQueue(n)' /\ ~OutQueue(n)'
  BY <1>1, <1>2 DEF InQueue, OutQueue, IsIn, IsOut, Before
<1> QED
  BY <1>3, <1>4, <1>6, <1>7, <1>8

\* The tree does not move while the watcher works.
LEMMA StillTree ==
    ASSUME UNCHANGED disk, NEW o
    PROVE  InTree(o)' <=> InTree(o)
BY DEF InTree, disk

\* A half of a rename stays about its directory while its other half is not read.
LEMMA WhoseKept ==
    ASSUME UNCHANGED disk, Told' \subseteq Told, NEW m, NEW o, Whose(m, o),
           \A e \in Told : e \in Told' \/ ~Partner(m, e)
    PROVE  Whose(m, o)'
BY StillTree DEF Whose, Partner

\* What was true of the rest of the queue stays true.
LEMMA AppearsStays ==
    ASSUME UNCHANGED disk, Told' \subseteq Told, Appears,
           \A n \in Names : InQueue(n)' => (OutQueue(n)' <=> OutQueue(n))
    PROVE  Appears'
<1>1. ASSUME NEW n \in Names, NEW e \in Told', IsIn(e, n)
      PROVE  /\ ~OutQueue(n)' => e.of = at[n]
             /\ \A f \in Told' : IsOut(f, n) => f.of = e.of
  <2>1. InQueue(n)'
    BY <1>1 DEF InQueue, IsIn
  <2>2. OutQueue(n)' <=> OutQueue(n)
    BY <2>1
  <2> QED
    BY <1>1, <2>2 DEF Appears
<1> QED
  BY <1>1 DEF Appears, disk

\* Where there is less to read, the events that a directory goes stay about one that is gone.
LEMMA GoesStays ==
    ASSUME UNCHANGED disk, Told' \subseteq Told, Goes,
           \A f \in Told' : f.what = "from" =>
               /\ \A e \in Told : e \in Told' \/ ~Partner(f, e)
               /\ \A m \in pending' : m.cookie # f.cookie
    PROVE  Goes'
<1>1. ASSUME NEW f \in Told', f.what = "from"
      PROVE  Whose(f, f.of)' /\ \A m \in pending' : m.cookie # f.cookie
  <2>1. /\ \A e \in Told : e \in Told' \/ ~Partner(f, e)
        /\ \A m \in pending' : m.cookie # f.cookie
    BY <1>1
  <2>2. Whose(f, f.of)
    BY <1>1 DEF Goes
  <2> QED
    BY <2>1, <2>2, WhoseKept
<1>2. ASSUME NEW f \in Told', f.what = "ignored" \/ (f.what = "delete" /\ f.dir = Nothing)
      PROVE  ~InTree(f.of)'
  BY <1>2, StillTree DEF Goes
<1> QED
  BY <1>1, <1>2 DEF Goes

\* A watch that stays under its name is kept as it was.
LEMMA KeptStays ==
    ASSUME UNCHANGED disk, Kept,
           \A o \in Objects : \A w \in Names : watchPaths'[o] = w =>
               /\ watchPaths[o] = w /\ (Unwatched(w)' => Unwatched(w))
               /\ \A f \in Told : IsOut(f, w) => f \in Told'
               /\ \A m \in pending : m.name = w =>
                     m \in pending' /\ \A e \in Told : e \in Told' \/ ~Partner(m, e),
           Told' \subseteq Told
    PROVE  Kept'
<1>1. ASSUME NEW o \in Objects, NEW w \in Names, watchPaths'[o] = w
      PROVE  /\ ~Unwatched(w)'
             /\ \/ at[w] = o
                \/ \E f \in Told' : IsOut(f, w) /\ f.of = o
                \/ \E m \in pending' : m.name = w /\ Whose(m, o)'
  <2>1. /\ watchPaths[o] = w /\ (Unwatched(w)' => Unwatched(w))
        /\ \A f \in Told : IsOut(f, w) => f \in Told'
        /\ \A m \in pending : m.name = w =>
              m \in pending' /\ \A e \in Told : e \in Told' \/ ~Partner(m, e)
    BY <1>1
  <2>2. /\ ~Unwatched(w)
        /\ \/ at[w] = o
           \/ \E f \in Told : IsOut(f, w) /\ f.of = o
           \/ \E m \in pending : m.name = w /\ Whose(m, o)
    BY <2>1 DEF Kept
  <2>3. CASE \E m \in pending : m.name = w /\ Whose(m, o)
    <3>1. PICK m \in pending : m.name = w /\ Whose(m, o)
      BY <2>3
    <3>2. m \in pending' /\ \A e \in Told : e \in Told' \/ ~Partner(m, e)
      BY <2>1, <3>1
    <3>3. Whose(m, o)'
      BY <3>1, <3>2, WhoseKept
    <3> QED
      BY <2>1, <2>2, <3>1, <3>2, <3>3
  <2> QED
    BY <2>1, <2>2, <2>3
<1> QED
  BY <1>1 DEF Kept, disk

\* What the watcher's events cover.
LEMMA SaidIs ==
    ASSUME NEW n \in Names, NEW m \in Names
    PROVE  /\ CoversAll({PathEvent("create", <<n>>)}) = {<<n>>}
           /\ \A k \in {"create", "modify", "delete"} : CoversAll({PathEvent(k, File(n))}) = {File(n)}
           /\ CoversAll({PathEvent("delete", <<n>>)}) = {<<n>>, File(n)}
           /\ CoversAll({MoveEvent(<<m>>, <<n>>)}) = {<<m>>, File(m), <<n>>, File(n)}
<1>1. ASSUME NEW e
      PROVE  CoversAll({e}) = Covers(e)
  BY DEF CoversAll
<1>2. /\ Below(<<n>>) = {<<n>>, File(n)} /\ Below(File(n)) = {File(n)} /\ Below(<<m>>) = {<<m>>, File(m)}
  BY BelowIs
<1>3. Covers(PathEvent("create", <<n>>)) = {<<n>>}
  BY DEF Covers, PathEvent
<1>4. ASSUME NEW k \in {"create", "modify", "delete"}
      PROVE  Covers(PathEvent(k, File(n))) = {File(n)}
  BY <1>2 DEF Covers, PathEvent
<1>5. Covers(PathEvent("delete", <<n>>)) = {<<n>>, File(n)}
  BY <1>2 DEF Covers, PathEvent
<1>6. Covers(MoveEvent(<<m>>, <<n>>)) = {<<m>>, File(m), <<n>>, File(n)}
  <2>1. Covers(MoveEvent(<<m>>, <<n>>)) = Below(<<m>>) \cup Below(<<n>>)
    BY DEF Covers, MoveEvent
  <2> QED
    BY <1>2, <2>1
<1> QED
  BY <1>1, <1>3, <1>4, <1>5, <1>6

\* What announcing does to a path.
LEMMA SaidOf ==
    ASSUME UNCHANGED disk, NEW E, Announce(E), NEW p
    PROVE  /\ p \in changed' <=> p \in changed /\ p \notin CoversAll(E)
           /\ p \in Owed' <=> p \in Owed /\ p \notin CoversAll(E)
           /\ p \in known' => IF p \in CoversAll(E) THEN p \in Present ELSE p \in known
<1>1. changed' = changed \ CoversAll(E) /\ Owed' = Owed \ CoversAll(E)
  BY AnnounceOwes
<1> QED
  BY <1>1 DEF Announce

\* A directory that appears is to be watched next.
LEMMA AppearedGood ==
    ASSUME TreeTypes, RemoteTypes, Good, NEW what \in {"create", "to"}, Reads(what), Event.name \in Names,
           Announce({PathEvent("create", <<Event.name>>)}), task' = Task("watch", Event.name),
           UNCHANGED <<disk, watches, pending>>,
           \A m \in pending : ~Partner(m, Event)
    PROVE  Good'
<1> DEFINE n == Event.name
<1>0. /\ task = NoTask /\ Event \in Told /\ Event.what = what
      /\ Told' \subseteq Told /\ (\A e \in Told : e = Event \/ e \in Told')
      /\ InOrder' /\ \A f \in Told' : Before(Event, f)
      /\ Nothing \notin Names /\ Nothing \notin Objects /\ OfNow(Event)
  BY ReadSeen DEF Good
<1>1. ASSUME NEW k \in Names
      PROVE  /\ k # n => (InQueue(k)' <=> InQueue(k))
             /\ OutQueue(k)' <=> OutQueue(k)
             /\ k = n => InQueue(k) /\ ~InQueue(k)'
             /\ Half(k)' <=> Half(k)
             /\ Left(k)' <=> Left(k)
             /\ task.name # k /\ (task'.name = k <=> k = n)
  <2>1. Half(k)' <=> Half(k)
    BY DEF Half
  <2>2. Left(k)' <=> OutQueue(k)' \/ Half(k)'
    BY DEF Left
  <2>3. task.name # k /\ (task'.name = k <=> k = n)
    BY <1>0 DEF NoTask, Task
  <2>4. /\ k # n => (InQueue(k)' <=> InQueue(k))
        /\ OutQueue(k)' <=> OutQueue(k)
        /\ k = n => InQueue(k) /\ ~InQueue(k)'
    BY ReadNames
  <2> QED
    BY <2>1, <2>2, <2>3, <2>4 DEF Left
<1>2. ASSUME NEW k \in Names
      PROVE  /\ Entered(k)' <=> Entered(k)
             /\ Unwatched(k)' <=> Unwatched(k)
  <2>1. /\ Entered(k)' <=> InQueue(k)' \/ task'.name = k
        /\ Unwatched(k)' <=> InQueue(k)' \/ k = n
        /\ task # Task("watch", k)
    BY <1>0 DEF Entered, Unwatched, Task, NoTask
  <2> QED
    BY <1>1, <2>1 DEF Entered, Unwatched
<1>3. CoversAll({PathEvent("create", <<n>>)}) = {<<n>>}
  BY SaidIs
<1>4. ASSUME NEW m, m \in pending \/ (m \in Told' /\ m.what = "from")
      PROVE  \A e \in Told : e \in Told' \/ ~Partner(m, e)
  BY <1>0, <1>4 DEF Partner, Before
<1>5. Halves'
  <2>1. ASSUME NEW m \in pending'
        PROVE  task'.name # m.name /\ ~InQueue(m.name)' /\ ~OutQueue(m.name)'
    <3>1. m \in pending /\ m.name \in Names
      BY <2>1 DEF RemoteTypes
    <3>2. ~InQueue(m.name) /\ ~OutQueue(m.name)
      BY <3>1 DEF Good, Halves
    <3> QED
      BY <1>1, <3>1, <3>2
  <2>2. \A k \in Names : task'.name = k => ~InQueue(k)'
    BY <1>1
  <2> QED
    BY <2>1, <2>2 DEF Good, Halves
<1>6. Ends'
  BY <1>1, <1>2 DEF Good, Ends, disk
<1>7. Appears'
  BY <1>0, <1>1, AppearsStays DEF Good
<1>8. Goes'
  <2>1. ASSUME NEW f \in Told', f.what = "from"
        PROVE  /\ \A e \in Told : e \in Told' \/ ~Partner(f, e)
               /\ \A m \in pending' : m.cookie # f.cookie
    BY <1>0, <1>4, <2>1 DEF Good, Goes
  <2> QED
    BY <1>0, <2>1, GoesStays DEF Good
<1>9. Kept'
  <2>1. ASSUME NEW o \in Objects, NEW w \in Names, watchPaths'[o] = w
        PROVE  /\ watchPaths[o] = w /\ (Unwatched(w)' => Unwatched(w))
               /\ \A f \in Told : IsOut(f, w) => f \in Told'
               /\ \A m \in pending : m.name = w =>
                     m \in pending' /\ \A e \in Told : e \in Told' \/ ~Partner(m, e)
    BY <1>0, <1>2, <1>4, <2>1 DEF watches, IsOut
  <2> QED
    BY <1>0, <2>1, KeptStays DEF Good
<1>10. Watched'
  <2>1. \A k \in Names : at'[k] # Nothing /\ ~Unwatched(k)' => watchPaths'[at'[k]] = k
    BY <1>2 DEF Good, Watched, disk, watches
  <2>2. \A o \in Objects : watchPaths'[o] # Nothing /\ InTree(o)' => o \in kernel'
    BY StillTree DEF Good, Watched, watches
  <2> QED
    BY <2>1, <2>2 DEF Watched
<1>11. Unsaid'
  <2>1. \A k \in Names : File(k) \in known' => File(k) \in known
    BY <1>3, SaidOf, PathsDiffer
  <2> QED
    BY <1>1, <1>2, <2>1 DEF Good, Unsaid, disk
<1>12. ToCome'
  <2>1. ASSUME NEW k \in Names, <<k>> \in changed'
        PROVE  InQueue(k)' \/ Left(k)'
    <3>1. <<k>> \in changed /\ k # n
      BY <1>3, <2>1, SaidOf
    <3> QED
      BY <1>1, <3>1 DEF Good, ToCome
  <2>2. ASSUME NEW k \in Names, File(k) \in Owed', ~Left(k)', ~Entered(k)'
        PROVE  at'[k] # Nothing /\ \E e \in Told' : IsFile(e, at'[k])
    <3>1. File(k) \in Owed
      BY <2>2, SaidOf
    <3>2. at[k] # Nothing /\ \E e \in Told : IsFile(e, at[k])
      BY <1>1, <1>2, <2>2, <3>1 DEF Good, ToCome
    <3>3. Event.dir = Nothing
      BY <1>0 DEF OfNow, Shaped
    <3>4. at' = at
      BY DEF disk
    <3> QED
      BY <1>0, <3>2, <3>3, <3>4 DEF IsFile
  <2> QED
    BY <2>1, <2>2 DEF ToCome
<1> QED
  BY <1>0, <1>5, <1>6, <1>7, <1>8, <1>9, <1>10, <1>11, <1>12 DEF Good

\* An event about what is in a directory is about no name.
LEMMA DirNames ==
    ASSUME RemoteTypes, Good, NEW what \in {"create", "delete", "modify", "ignored"}, Reads(what), Event.dir # Nothing,
           UNCHANGED <<pending, task>>, NEW n \in Names
    PROVE  /\ (InQueue(n)' <=> InQueue(n)) /\ (OutQueue(n)' <=> OutQueue(n))
           /\ (Left(n)' <=> Left(n)) /\ (Entered(n)' <=> Entered(n)) /\ (Unwatched(n)' <=> Unwatched(n))
<1>1. n # Event.name
  BY ReadSeen DEF OfNow, Shaped
<1>2. (InQueue(n)' <=> InQueue(n)) /\ (OutQueue(n)' <=> OutQueue(n))
  BY <1>1, ReadNames
<1>3. Half(n)' <=> Half(n)
  BY DEF Half
<1>4. /\ Left(n)' <=> OutQueue(n)' \/ Half(n)'
      /\ Entered(n)' <=> InQueue(n)' \/ task.name = n
      /\ Unwatched(n)' <=> InQueue(n)' \/ task = Task("watch", n)
  BY DEF Left, Entered, Unwatched, Task
<1> QED
  BY <1>2, <1>3, <1>4 DEF Left, Entered, Unwatched

\* An event about a directory's file changes no name.
LEMMA DirGood ==
    ASSUME TreeTypes, RemoteTypes, Good, NEW what \in {"create", "delete", "modify", "ignored"}, Reads(what), Event.dir # Nothing,
           UNCHANGED <<disk, pending, task, kernel>>,
           \A o \in Objects : watchPaths'[o] = watchPaths[o] \/ (watchPaths'[o] = Nothing /\ ~InTree(o))
    PROVE  InOrder' /\ Halves' /\ Ends' /\ Appears' /\ Goes' /\ Kept' /\ Watched'
<1>0. /\ task = NoTask /\ Event \in Told /\ Event.what = what
      /\ Told' \subseteq Told /\ (\A e \in Told : e = Event \/ e \in Told')
      /\ InOrder' /\ \A f \in Told' : Before(Event, f)
      /\ Nothing \notin Names /\ Nothing \notin Objects /\ Event.name \notin Names
  BY ReadSeen DEF Good, OfNow, Shaped
<1>1. ASSUME NEW n \in Names
      PROVE  /\ (InQueue(n)' <=> InQueue(n)) /\ (OutQueue(n)' <=> OutQueue(n))
             /\ (Left(n)' <=> Left(n)) /\ (Entered(n)' <=> Entered(n)) /\ (Unwatched(n)' <=> Unwatched(n))
  BY DirNames
<1>2. ASSUME NEW m
      PROVE  \A e \in Told : e \in Told' \/ ~Partner(m, e)
  BY <1>0 DEF Partner
<1>3. Halves'
  <2>1. ASSUME NEW m \in pending'
        PROVE  task'.name # m.name /\ ~InQueue(m.name)' /\ ~OutQueue(m.name)'
    <3>1. m \in pending /\ m.name \in Names
      BY <2>1 DEF RemoteTypes
    <3>2. task.name # m.name /\ ~InQueue(m.name) /\ ~OutQueue(m.name)
      BY <3>1 DEF Good, Halves
    <3> QED
      BY <1>1, <3>1, <3>2
  <2>2. \A k \in Names : task'.name = k => ~InQueue(k)'
    BY <1>1 DEF Good, Halves
  <2> QED
    BY <2>1, <2>2 DEF Good, Halves
<1>4. Ends'
  BY <1>1 DEF Good, Ends, disk
<1>5. Appears'
  BY <1>0, <1>1, AppearsStays DEF Good
<1>6. Goes'
  <2>1. ASSUME NEW f \in Told', f.what = "from"
        PROVE  /\ \A e \in Told : e \in Told' \/ ~Partner(f, e)
               /\ \A m \in pending' : m.cookie # f.cookie
    BY <1>0, <1>2, <2>1 DEF Good, Goes
  <2> QED
    BY <1>0, <2>1, GoesStays DEF Good
<1>7. Kept'
  <2>1. ASSUME NEW o \in Objects, NEW w \in Names, watchPaths'[o] = w
        PROVE  /\ watchPaths[o] = w /\ (Unwatched(w)' => Unwatched(w))
               /\ \A f \in Told : IsOut(f, w) => f \in Told'
               /\ \A m \in pending : m.name = w =>
                     m \in pending' /\ \A e \in Told : e \in Told' \/ ~Partner(m, e)
    BY <1>0, <1>1, <1>2, <2>1 DEF IsOut
  <2> QED
    BY <1>0, <2>1, KeptStays DEF Good
<1>8. Watched'
  <2>1. ASSUME NEW k \in Names, at'[k] # Nothing, ~Unwatched(k)'
        PROVE  watchPaths'[at'[k]] = k
    <3>1. at'[k] = at[k] /\ watchPaths[at[k]] = k /\ InTree(at[k])
      BY <1>1, <2>1 DEF Good, Watched, disk, InTree
    <3>2. at[k] \in Objects => watchPaths'[at[k]] = watchPaths[at[k]]
      BY <3>1
    <3>3. at[k] \in Objects
      BY <2>1, <3>1 DEF TreeTypes
    <3> QED
      BY <3>1, <3>2, <3>3
  <2>2. \A o \in Objects : watchPaths'[o] # Nothing /\ InTree(o)' => o \in kernel'
    BY StillTree DEF Good, Watched
  <2> QED
    BY <2>1, <2>2 DEF Watched
<1> QED
  BY <1>0, <1>3, <1>4, <1>5, <1>6, <1>7, <1>8

\* The events about a file announce it, if the watch is still kept.
LEMMA ReadFileGood ==
    ASSUME TreeTypes, RemoteTypes, InotifyTypeOK, Good, ReadFile
    PROVE  Good'
<1>1. PICK what \in {"create", "modify", "delete"} :
         /\ Reads(what) /\ ~InTheRoot
         /\ IF Known THEN Announce({PathEvent(what, EventFile)}) ELSE UNCHANGED <<changed, known>>
  BY DEF ReadFile
<1>2. Event.dir # Nothing /\ UNCHANGED <<disk, watches, pending, task>>
  BY <1>1 DEF ReadFile, InTheRoot
<1>3. InOrder' /\ Halves' /\ Ends' /\ Appears' /\ Goes' /\ Kept' /\ Watched'
  BY <1>1, <1>2, DirGood DEF watches
<1>4. ASSUME NEW n \in Names
      PROVE  /\ (InQueue(n)' <=> InQueue(n)) /\ (OutQueue(n)' <=> OutQueue(n))
             /\ (Left(n)' <=> Left(n)) /\ (Entered(n)' <=> Entered(n)) /\ (Unwatched(n)' <=> Unwatched(n))
  BY <1>1, <1>2, DirNames
<1>5. /\ task = NoTask /\ Event \in Told /\ Event.what = what /\ Event.dir \in Objects
      /\ Told' \subseteq Told /\ (\A e \in Told : e = Event \/ e \in Told')
      /\ Nothing \notin Names /\ Nothing \notin Objects
  BY <1>1, <1>2, ReadSeen DEF OfNow, Shaped, TreeTypes
<1> DEFINE w == watchPaths[Event.dir]
<1>6. Known => w \in Names
  BY <1>5 DEF Known, InotifyTypeOK
<1>7. ASSUME NEW p
      PROVE  /\ p \in changed' => p \in changed
             /\ p \in Owed' => p \in Owed /\ (Known => p # File(w))
             /\ p \in known' => p \in known \/ (Known /\ p = File(w) /\ p \in Present)
  <2>1. CASE Known
    <3>1. CoversAll({PathEvent(what, File(w))}) = {File(w)}
      BY <1>6, <2>1, SaidIs
    <3>2. Announce({PathEvent(what, File(w))})
      BY <1>1, <2>1 DEF EventFile
    <3> QED
      BY <1>2, <2>1, <3>1, <3>2, SaidOf
  <2>2. CASE ~Known
    <3>1. UNCHANGED <<changed, known>>
      BY <1>1, <2>2
    <3> QED
      BY <1>2, <2>2, <3>1 DEF Owed, Present, disk
  <2> QED
    BY <2>1, <2>2
<1>8. ASSUME Known
      PROVE  ~Entered(w)
  <2>1. ~Unwatched(w)
    BY <1>5, <1>6, <1>8 DEF Good, Kept
  <2> QED
    BY <1>5, <1>6, <1>8, <2>1 DEF Unwatched, Entered, NoTask
<1>9. Unsaid'
  <2>1. ASSUME NEW n \in Names
        PROVE  /\ at'[n] = Nothing /\ ~Left(n)' => File(n) \notin known'
               /\ Entered(n)' => File(n) \notin known'
    <3>1. File(n) \in known' => \/ File(n) \in known
                                \/ Known /\ n = w /\ at[n] # Nothing
      <4>1. Known => (File(n) = File(w) <=> n = w)
        BY <1>6, PathsDiffer
      <4>2. File(n) \in Present => at[n] # Nothing
        BY PresentIs, NothingIsNone DEF TreeTypes
      <4> QED
        BY <1>7, <4>1, <4>2
    <3>2. at' = at
      BY <1>2 DEF disk
    <3> QED
      BY <1>4, <1>8, <3>1, <3>2 DEF Good, Unsaid
  <2> QED
    BY <2>1 DEF Unsaid
<1>10. ToCome'
  <2>1. \A k \in Names : <<k>> \in changed' => InQueue(k)' \/ Left(k)'
    BY <1>4, <1>7 DEF Good, ToCome
  <2>2. ASSUME NEW k \in Names, File(k) \in Owed', ~Left(k)', ~Entered(k)'
        PROVE  at'[k] # Nothing /\ \E e \in Told' : IsFile(e, at'[k])
    <3>1. File(k) \in Owed /\ (Known => k # w)
      BY <1>7, <2>2
    <3>2. PICK e \in Told : IsFile(e, at[k])
      BY <1>4, <2>2, <3>1 DEF Good, ToCome
    <3>3. at[k] # Nothing
      BY <1>4, <2>2, <3>1 DEF Good, ToCome
    <3>4. watchPaths[at[k]] = k
      <4>1. ~Unwatched(k)
        BY <1>4, <2>2 DEF Entered, Unwatched, Task
      <4> QED
        BY <3>3, <4>1 DEF Good, Watched
    <3>5. e # Event
      BY <1>5, <3>1, <3>2, <3>4 DEF IsFile, Known
    <3> QED
      BY <1>2, <1>5, <3>2, <3>3, <3>5 DEF disk
  <2> QED
    BY <2>1, <2>2 DEF ToCome
<1> QED
  BY <1>3, <1>9, <1>10 DEF Good

\* The kernel's word that a watch is gone is about a directory that is gone.
LEMMA ReadIgnoredGood ==
    ASSUME TreeTypes, RemoteTypes, InotifyTypeOK, Good, ReadIgnored
    PROVE  Good'
<1>1. /\ Reads("ignored") /\ UNCHANGED <<disk, changed, known, kernel, pending, task>>
      /\ watchPaths' = [o \in Objects |-> IF o \in {Event.dir} THEN Nothing ELSE watchPaths[o]]
  BY DEF ReadIgnored, Forget, tree
<1>2. /\ task = NoTask /\ Event \in Told /\ Event.what = "ignored" /\ Event.dir # Nothing /\ ~InTree(Event.dir)
      /\ Told' \subseteq Told /\ (\A e \in Told : e = Event \/ e \in Told')
  <2>1. /\ task = NoTask /\ Event \in Told /\ Event.what = "ignored"
        /\ Told' \subseteq Told /\ (\A e \in Told : e = Event \/ e \in Told')
        /\ OfNow(Event)
    BY <1>1, ReadSeen
  <2>2. Event.dir = Event.of /\ Event.of \in Objects
    BY <2>1 DEF OfNow, Shaped, TreeTypes
  <2>3. ~InTree(Event.of)
    BY <2>1 DEF Good, Goes
  <2> QED
    BY <2>1, <2>2, <2>3, NothingIsNone
<1>3. InOrder' /\ Halves' /\ Ends' /\ Appears' /\ Goes' /\ Kept' /\ Watched'
  <2>1. \A o \in Objects : watchPaths'[o] = watchPaths[o] \/ (watchPaths'[o] = Nothing /\ ~InTree(o))
    BY <1>1, <1>2
  <2> QED
    BY <1>1, <1>2, <2>1, DirGood
<1>4. ASSUME NEW n \in Names
      PROVE  /\ (InQueue(n)' <=> InQueue(n)) /\ (OutQueue(n)' <=> OutQueue(n))
             /\ (Left(n)' <=> Left(n)) /\ (Entered(n)' <=> Entered(n)) /\ (Unwatched(n)' <=> Unwatched(n))
  BY <1>1, <1>2, DirNames
<1>5. Owed' = Owed /\ at' = at
  BY <1>1 DEF Owed, Present, disk
<1>6. Unsaid'
  BY <1>1, <1>4, <1>5 DEF Good, Unsaid
<1>7. ToCome'
  <2>1. \A k \in Names : <<k>> \in changed' => InQueue(k)' \/ Left(k)'
    BY <1>1, <1>4 DEF Good, ToCome
  <2>2. ASSUME NEW k \in Names, File(k) \in Owed', ~Left(k)', ~Entered(k)'
        PROVE  at'[k] # Nothing /\ \E e \in Told' : IsFile(e, at'[k])
    BY <1>2, <1>4, <1>5, <2>2 DEF Good, ToCome, IsFile
  <2> QED
    BY <2>1, <2>2 DEF ToCome
<1> QED
  BY <1>3, <1>6, <1>7 DEF Good

\* A name that goes for good is settled.
LEMMA GoneGood ==
    ASSUME TreeTypes, RemoteTypes, Good, NEW n \in Names, task = NoTask,
           Announce({PathEvent("delete", <<n>>)}), ForgetTree(n), UNCHANGED <<disk, task>>,
           at[n] = Nothing, ~InQueue(n)', ~OutQueue(n)', ~Half(n)', InOrder',
           Told' \subseteq Told, pending' \subseteq pending,
           \A e \in Told : e \in Told' \/ (IsOut(e, n) /\ e.dir = Nothing),
           \A m \in pending : m \in pending' \/ m.name = n,
           \A k \in Names : k # n => (InQueue(k)' <=> InQueue(k)) /\ (OutQueue(k)' <=> OutQueue(k))
    PROVE  Good'
<1>0. /\ watchPaths' = [o \in Objects |-> IF o \in {p \in Objects : watchPaths[p] = n} THEN Nothing ELSE watchPaths[o]]
      /\ kernel' = kernel \ {p \in Objects : watchPaths[p] = n}
      /\ Nothing \notin Names /\ Nothing \notin Objects /\ at' = at
  BY NothingIsNone DEF ForgetTree, Forget, disk
<1>1. ASSUME NEW k \in Names
      PROVE  /\ k # n => (Left(k)' <=> Left(k)) /\ (Entered(k)' <=> Entered(k)) /\ (Unwatched(k)' <=> Unwatched(k))
             /\ k = n => ~Left(k)' /\ ~Entered(k)' /\ ~InQueue(k)'
             /\ task.name # k
  <2>1. k # n => (Half(k)' <=> Half(k))
    BY DEF Half
  <2>2. task.name # k /\ task # Task("watch", k)
    BY <1>0 DEF NoTask, Task
  <2>3. /\ Left(k)' <=> OutQueue(k)' \/ Half(k)'
        /\ Entered(k)' <=> InQueue(k)' \/ task.name = k
        /\ Unwatched(k)' <=> InQueue(k)' \/ task = Task("watch", k)
    BY DEF Left, Entered, Unwatched, Task
  <2>4. k = n => (~InQueue(k)' /\ ~OutQueue(k)' /\ ~Half(k)')
    OBVIOUS
  <2> QED
    BY <2>1, <2>2, <2>3, <2>4 DEF Left, Entered, Unwatched
<1>2. ASSUME NEW m
      PROVE  \A e \in Told : e \in Told' \/ ~Partner(m, e)
  BY DEF Partner, IsOut
<1>3. Halves'
  <2>1. ASSUME NEW m \in pending'
        PROVE  task'.name # m.name /\ ~InQueue(m.name)' /\ ~OutQueue(m.name)'
    <3>1. m \in pending /\ m.name \in Names
      BY <2>1 DEF RemoteTypes
    <3>2. ~InQueue(m.name) /\ ~OutQueue(m.name)
      BY <3>1 DEF Good, Halves
    <3>3. m.name # n
      BY <2>1 DEF Half
    <3> QED
      BY <1>1, <3>1, <3>2, <3>3
  <2>2. \A k \in Names : task'.name = k => ~InQueue(k)'
    BY <1>1
  <2>3. \A m, k \in pending' : m.name = k.name \/ m.cookie = k.cookie => m = k
    BY DEF Good, Halves
  <2> QED
    BY <2>1, <2>2, <2>3 DEF Halves
<1>4. Ends'
  BY <1>0, <1>1 DEF Good, Ends
<1>5. Appears'
  <2>1. ASSUME NEW k \in Names, InQueue(k)'
        PROVE  OutQueue(k)' <=> OutQueue(k)
    BY <1>1, <2>1
  <2> QED
    BY <2>1, AppearsStays DEF Good
<1>6. Goes'
  <2>1. ASSUME NEW f \in Told', f.what = "from"
        PROVE  /\ \A e \in Told : e \in Told' \/ ~Partner(f, e)
               /\ \A m \in pending' : m.cookie # f.cookie
    BY <1>2, <2>1 DEF Good, Goes
  <2> QED
    BY <2>1, GoesStays DEF Good
<1>7. Kept'
  <2>1. ASSUME NEW o \in Objects, NEW w \in Names, watchPaths'[o] = w
        PROVE  /\ watchPaths[o] = w /\ (Unwatched(w)' => Unwatched(w))
               /\ \A f \in Told : IsOut(f, w) => f \in Told'
               /\ \A m \in pending : m.name = w =>
                     m \in pending' /\ \A e \in Told : e \in Told' \/ ~Partner(m, e)
    <3>1. watchPaths[o] = w /\ w # n
      BY <1>0, <2>1
    <3>2. Unwatched(w)' => Unwatched(w)
      BY <1>1, <3>1
    <3> QED
      BY <1>2, <3>1, <3>2 DEF IsOut
  <2> QED
    BY <2>1, KeptStays DEF Good
<1>8. Watched'
  <2>1. ASSUME NEW k \in Names, at'[k] # Nothing, ~Unwatched(k)'
        PROVE  watchPaths'[at'[k]] = k
    <3>1. k # n /\ at[k] \in Objects
      BY <1>0, <2>1 DEF TreeTypes
    <3>2. watchPaths[at[k]] = k
      BY <1>0, <1>1, <2>1, <3>1 DEF Good, Watched
    <3> QED
      BY <1>0, <3>1, <3>2
  <2>2. ASSUME NEW o \in Objects, watchPaths'[o] # Nothing, InTree(o)'
        PROVE  o \in kernel'
    <3>1. watchPaths[o] # Nothing /\ watchPaths[o] # n
      BY <1>0, <2>2
    <3>2. o \in kernel
      BY <2>2, <3>1, StillTree DEF Good, Watched
    <3> QED
      BY <1>0, <3>1, <3>2
  <2> QED
    BY <2>1, <2>2 DEF Watched
<1>9. CoversAll({PathEvent("delete", <<n>>)}) = {<<n>>, File(n)}
  BY SaidIs
<1>10. Unsaid'
  <2>1. ASSUME NEW k \in Names, File(k) \in known'
        PROVE  k # n /\ File(k) \in known
    <3>1. File(n) \notin Present
      BY PresentIs, <1>0 DEF TreeTypes
    <3> QED
      BY <1>9, <2>1, <3>1, SaidOf, PathsDiffer
  <2> QED
    BY <1>0, <1>1, <2>1 DEF Good, Unsaid
<1>11. ToCome'
  <2>1. ASSUME NEW k \in Names, <<k>> \in changed'
        PROVE  InQueue(k)' \/ Left(k)'
    <3>1. <<k>> \in changed /\ k # n
      BY <1>9, <2>1, SaidOf
    <3> QED
      BY <1>1, <3>1 DEF Good, ToCome
  <2>2. ASSUME NEW k \in Names, File(k) \in Owed', ~Left(k)', ~Entered(k)'
        PROVE  at'[k] # Nothing /\ \E e \in Told' : IsFile(e, at'[k])
    <3>1. File(k) \in Owed /\ k # n
      BY <1>9, <2>2, SaidOf
    <3>2. at[k] # Nothing /\ \E e \in Told : IsFile(e, at[k])
      BY <1>1, <2>2, <3>1 DEF Good, ToCome
    <3> QED
      BY <1>0, <3>2 DEF IsFile
  <2> QED
    BY <2>1, <2>2 DEF ToCome
<1> QED
  BY <1>3, <1>4, <1>5, <1>6, <1>7, <1>8, <1>10, <1>11 DEF Good

\* A directory that is deleted goes for good.
LEMMA ReadDeleteDirectoryGood ==
    ASSUME TreeTypes, RemoteTypes, Good, ReadDeleteDirectory
    PROVE  Good'
<1>1. /\ Reads("delete") /\ Event.dir = Nothing /\ UNCHANGED <<disk, pending, task>>
      /\ Announce({PathEvent("delete", <<Event.name>>)}) /\ ForgetTree(Event.name)
  BY DEF ReadDeleteDirectory, InTheRoot
<1>2. /\ task = NoTask /\ Event \in Told /\ Event.what = "delete" /\ Event.name \in Names
      /\ Told' \subseteq Told /\ (\A e \in Told : e = Event \/ e \in Told') /\ InOrder'
  <2>1. /\ task = NoTask /\ Event \in Told /\ Event.what = "delete"
        /\ Told' \subseteq Told /\ (\A e \in Told : e = Event \/ e \in Told') /\ InOrder'
        /\ OfNow(Event) /\ Nothing \notin Objects
    BY <1>1, ReadSeen DEF Good
  <2>2. Event.name \in Names
    BY <1>1, <2>1 DEF OfNow, Shaped, TreeTypes
  <2> QED
    BY <2>1, <2>2
<1>3. PICK n \in Names : n = Event.name
  BY <1>2
<1>4. OutQueue(n) /\ ~InQueue(n)' /\ ~OutQueue(n)' /\ ~Half(n)
  BY <1>1, <1>3, ReadNames
<1>5. ~Half(n)'
  BY <1>1, <1>4 DEF Half
<1>6. at[n] = Nothing
  BY <1>4 DEF Good, Ends, Left
<1>7. \A k \in Names : k # n => (InQueue(k)' <=> InQueue(k)) /\ (OutQueue(k)' <=> OutQueue(k))
  BY <1>1, <1>3, ReadNames
<1>8. Announce({PathEvent("delete", <<n>>)}) /\ ForgetTree(n)
  BY <1>1, <1>3
<1>9. \A e \in Told : e \in Told' \/ (IsOut(e, n) /\ e.dir = Nothing)
  BY <1>1, <1>2, <1>3 DEF IsOut
<1> QED
  BY <1>1, <1>2, <1>4, <1>5, <1>6, <1>7, <1>8, <1>9, GoneGood

\* So does one whose second half of a rename does not come.
LEMMA MoveExpiresGood ==
    ASSUME TreeTypes, RemoteTypes, Good, MoveExpires
    PROVE  Good'
<1>1. PICK m \in pending :
          /\ \A i \in DOMAIN queue : queue[i].what = "to" => queue[i].cookie # m.cookie
          /\ pending' = pending \ {m}
          /\ Announce({PathEvent("delete", <<m.name>>)}) /\ ForgetTree(m.name)
  BY DEF MoveExpires
<1>2. task = NoTask /\ UNCHANGED <<disk, queue, task>>
  BY DEF MoveExpires
<1> DEFINE n == m.name
<1>3. n \in Names /\ ~InQueue(n) /\ ~OutQueue(n) /\ Half(n)
  BY DEF RemoteTypes, Good, Halves, Half
<1>4. Told' = Told /\ InOrder'
  BY <1>2 DEF Told, Good, InOrder, Before
<1>5. ASSUME NEW k \in Names
      PROVE  (InQueue(k)' <=> InQueue(k)) /\ (OutQueue(k)' <=> OutQueue(k))
  BY <1>4 DEF InQueue, OutQueue, IsIn, IsOut
<1>6. ~Half(n)'
  BY <1>1 DEF Half, Good, Halves
<1>7. at[n] = Nothing
  BY <1>3 DEF Good, Ends, Left
<1>8. ~InQueue(n)' /\ ~OutQueue(n)'
  BY <1>3, <1>5
<1>9. \A k \in pending : k \in pending' \/ k.name = n
  BY <1>1
<1>10. pending' \subseteq pending /\ Announce({PathEvent("delete", <<n>>)}) /\ ForgetTree(n)
  BY <1>1
<1> HIDE DEF n
<1> QED
  BY <1>2, <1>3, <1>4, <1>5, <1>6, <1>7, <1>8, <1>9, <1>10, GoneGood

\* The events that a directory appears.
LEMMA ReadCreateDirectoryGood ==
    ASSUME TreeTypes, RemoteTypes, Good, ReadCreateDirectory
    PROVE  Good'
<1>1. /\ Reads("create") /\ Event.dir = Nothing /\ Announce({PathEvent("create", <<Event.name>>)})
      /\ task' = Task("watch", Event.name) /\ UNCHANGED <<disk, watches, pending>>
  BY DEF ReadCreateDirectory, InTheRoot
<1>2. Event.what = "create" /\ OfNow(Event) /\ Nothing \notin Objects
  BY <1>1, ReadSeen
<1>3. Event.name \in Names
  BY <1>1, <1>2 DEF OfNow, Shaped, TreeTypes
<1>4. \A m \in pending : ~Partner(m, Event)
  BY <1>2 DEF Partner
<1> QED
  BY <1>1, <1>3, <1>4, AppearedGood

\* The first half of a rename waits for the second.
LEMMA ReadMovedFromGood ==
    ASSUME TreeTypes, RemoteTypes, Good, ReadMovedFrom
    PROVE  Good'
<1>1. /\ Reads("from") /\ UNCHANGED <<tree, watches, task>>
      /\ pending' = pending \cup {[cookie |-> Event.cookie, name |-> Event.name]}
  BY DEF ReadMovedFrom
<1>2. /\ task = NoTask /\ Event \in Told /\ Event.what = "from" /\ OfNow(Event)
      /\ Told' \subseteq Told /\ (\A e \in Told : e = Event \/ e \in Told') /\ InOrder'
      /\ (\A f \in Told' : Before(Event, f))
      /\ Nothing \notin Names /\ Nothing \notin Objects
  BY <1>1, ReadSeen DEF Good
<1>n. PICK n \in Names : n = Event.name
  BY <1>2 DEF OfNow, Shaped
<1>h. PICK h : h = [cookie |-> Event.cookie, name |-> Event.name]
  OBVIOUS
<1>3. n = Event.name /\ h = [cookie |-> Event.cookie, name |-> Event.name]
  BY <1>n, <1>h
<1>4. /\ pending' = pending \cup {h} /\ h.name = n /\ h.cookie = Event.cookie
      /\ UNCHANGED <<disk, changed, known, watchPaths, kernel, at>> /\ task' = task
  BY <1>1, <1>3 DEF tree, disk, watches
<1>5. ASSUME NEW k \in Names
      PROVE  /\ InQueue(k)' <=> InQueue(k)
             /\ Left(k)' <=> Left(k)
             /\ Entered(k)' <=> Entered(k)
             /\ Unwatched(k)' <=> Unwatched(k)
             /\ k # n => (OutQueue(k)' <=> OutQueue(k))
             /\ k = n => ~InQueue(k)' /\ ~OutQueue(k)' /\ ~Half(k) /\ OutQueue(k)
             /\ task.name # k
  <2>1. /\ k # n => (InQueue(k)' <=> InQueue(k)) /\ (OutQueue(k)' <=> OutQueue(k))
        /\ k = n => ~InQueue(k)' /\ ~Half(k) /\ OutQueue(k) /\ ~InQueue(k) /\ ~OutQueue(k)'
    BY <1>1, <1>3, ReadNames
  <2>2. Half(k)' <=> Half(k) \/ k = n
    BY <1>4 DEF Half
  <2>3. /\ Left(k)' <=> OutQueue(k)' \/ Half(k)'
        /\ Entered(k)' <=> InQueue(k)' \/ task.name = k
        /\ Unwatched(k)' <=> InQueue(k)' \/ task = Task("watch", k)
    BY <1>4 DEF Left, Entered, Unwatched, Task
  <2>4. task.name # k
    BY <1>2 DEF NoTask
  <2> QED
    BY <2>1, <2>2, <2>3, <2>4 DEF Left, Entered, Unwatched
<1>6. ASSUME NEW m
      PROVE  \A e \in Told : e \in Told' \/ ~Partner(m, e)
  BY <1>2 DEF Partner
<1>7. Halves'
  <2>1. ASSUME NEW m \in pending'
        PROVE  task'.name # m.name /\ ~InQueue(m.name)' /\ ~OutQueue(m.name)'
    <3>1. CASE m = h
      BY <1>4, <1>5, <3>1
    <3>2. CASE m \in pending
      <4>1. m.name \in Names /\ ~InQueue(m.name) /\ ~OutQueue(m.name)
        BY <3>2 DEF RemoteTypes, Good, Halves
      <4>2. m.name # n
        BY <1>5, <4>1
      <4> QED
        BY <1>4, <1>5, <4>1, <4>2
    <3> QED
      BY <1>4, <2>1, <3>1, <3>2
  <2>2. \A k \in Names : task'.name = k => ~InQueue(k)'
    BY <1>4, <1>5
  <2>3. \A m, k \in pending' : m.name = k.name \/ m.cookie = k.cookie => m = k
    <3>1. \A m \in pending : m.name # n /\ m.cookie # Event.cookie
      BY <1>2, <1>5 DEF Good, Goes, Half
    <3>2. \A m, k \in pending : m.name = k.name \/ m.cookie = k.cookie => m = k
      BY DEF Good, Halves
    <3> QED
      BY <1>4, <3>1, <3>2
  <2> QED
    BY <2>1, <2>2, <2>3 DEF Halves
<1>8. Ends'
  BY <1>4, <1>5 DEF Good, Ends
<1>9. Appears'
  <2>1. ASSUME NEW k \in Names, InQueue(k)'
        PROVE  OutQueue(k)' <=> OutQueue(k)
    BY <1>5, <2>1
  <2> QED
    BY <1>2, <1>4, <2>1, AppearsStays DEF Good
<1>10. Goes'
  <2>1. ASSUME NEW f \in Told', f.what = "from"
        PROVE  /\ \A e \in Told : e \in Told' \/ ~Partner(f, e)
               /\ \A m \in pending' : m.cookie # f.cookie
    BY <1>2, <1>4, <1>6, <2>1 DEF Good, Goes, Before
  <2> QED
    BY <1>2, <1>4, <2>1, GoesStays DEF Good
<1>11. Kept'
  <2>1. ASSUME NEW o \in Objects, NEW w \in Names, watchPaths'[o] = w
        PROVE  /\ ~Unwatched(w)'
               /\ \/ at'[w] = o
                  \/ \E f \in Told' : IsOut(f, w) /\ f.of = o
                  \/ \E m \in pending' : m.name = w /\ Whose(m, o)'
    <3>1. /\ ~Unwatched(w)
          /\ \/ at[w] = o
             \/ \E f \in Told : IsOut(f, w) /\ f.of = o
             \/ \E m \in pending : m.name = w /\ Whose(m, o)
      BY <1>4, <2>1 DEF Good, Kept
    <3>2. ~Unwatched(w)'
      BY <1>5, <3>1
    <3>3. CASE \E f \in Told' : IsOut(f, w) /\ f.of = o
      BY <3>2, <3>3
    <3>4. CASE IsOut(Event, w) /\ Event.of = o
      <4>1. w = n /\ Whose(Event, o)
        BY <1>2, <1>3, <3>4 DEF Good, Goes, IsOut
      <4>2. Whose(h, o)
        BY <1>4, <4>1 DEF Whose, Partner
      <4>3. Whose(h, o)'
        BY <1>2, <1>4, <1>6, <4>2, WhoseKept
      <4> QED
        BY <1>4, <3>2, <4>1, <4>3
    <3>5. CASE \E m \in pending : m.name = w /\ Whose(m, o)
      <4>1. PICK m \in pending : m.name = w /\ Whose(m, o)
        BY <3>5
      <4>2. Whose(m, o)'
        BY <1>2, <1>4, <1>6, <4>1, WhoseKept
      <4> QED
        BY <1>4, <3>2, <4>1, <4>2
    <3> QED
      BY <1>2, <1>4, <3>1, <3>2, <3>3, <3>4, <3>5
  <2> QED
    BY <2>1 DEF Kept
<1>12. Watched'
  <2>1. \A k \in Names : at'[k] # Nothing /\ ~Unwatched(k)' => watchPaths'[at'[k]] = k
    BY <1>4, <1>5 DEF Good, Watched
  <2>2. \A o \in Objects : watchPaths'[o] # Nothing /\ InTree(o)' => o \in kernel'
    BY <1>4, StillTree DEF Good, Watched
  <2> QED
    BY <2>1, <2>2 DEF Watched
<1>13. Unsaid'
  BY <1>4, <1>5 DEF Good, Unsaid
<1>14. ToCome'
  <2>1. Owed' = Owed
    BY <1>4 DEF Owed, Present, disk
  <2>2. \A k \in Names : <<k>> \in changed' => InQueue(k)' \/ Left(k)'
    BY <1>4, <1>5 DEF Good, ToCome
  <2>3. ASSUME NEW k \in Names, File(k) \in Owed', ~Left(k)', ~Entered(k)'
        PROVE  at'[k] # Nothing /\ \E e \in Told' : IsFile(e, at'[k])
    BY <1>2, <1>4, <1>5, <2>1, <2>3 DEF Good, ToCome, IsFile
  <2> QED
    BY <2>2, <2>3 DEF ToCome
<1> QED
  BY <1>2, <1>7, <1>8, <1>9, <1>10, <1>11, <1>12, <1>13, <1>14 DEF Good

\* A directory that is watched has its watch under its name.
LEMMA WatchDirectoryIs ==
    ASSUME TreeTypes, InotifyTypeOK, NEW n \in Names, at[n] # Nothing, WatchDirectory(n),
           \A o \in Objects : watchPaths[o] # n
    PROVE  /\ at[n] \in Objects /\ watchPaths'[at[n]] = n
           /\ \A o \in Objects : o # at[n] => watchPaths'[o] = watchPaths[o]
           /\ kernel' = kernel \cup {at[n]}
<1>1. pathWatches[n] = Nothing
  BY NothingIsNone DEF InotifyTypeOK
<1>2. at[n] \in Objects
  BY DEF TreeTypes
<1>3. kernel' = kernel \cup {at[n]} /\ watchPaths' = [watchPaths EXCEPT ![at[n]] = n]
  BY <1>1 DEF WatchDirectory
<1> QED
  BY <1>2, <1>3 DEF InotifyTypeOK

\* A directory that has moved has its watch under its new name, and one that had none
\* has one now.
LEMMA MovedWatches ==
    ASSUME TreeTypes, RemoteTypes, InotifyTypeOK, Good, task = NoTask,
           NEW n \in Names, NEW e \in Told, e.what = "to", e.name = n, NEW m \in pending, Partner(m, e),
           MoveWatch(m.name, n)
    PROVE  /\ \A o \in Objects : \A w \in Names : watchPaths'[o] = w =>
                  \/ w # n /\ w # m.name /\ watchPaths[o] = w
                  \/ w = n /\ (~OutQueue(n) => at[n] = o) /\ \A f \in Told : IsOut(f, n) => f.of = o
           /\ at[n] # Nothing => watchPaths'[at[n]] = n
           /\ \A k \in Names : k # n /\ at[k] # Nothing /\ watchPaths[at[k]] = k => watchPaths'[at[k]] = k
           /\ \A o \in Objects : watchPaths'[o] # Nothing /\ InTree(o) => o \in kernel'
<1> DEFINE p == m.name
           moved == {o \in Objects : watchPaths[o] = p}
<1>0. Nothing \notin Names /\ Nothing \notin Objects /\ p \in Names
  BY NothingIsNone DEF RemoteTypes
<1>1. InQueue(n) /\ Unwatched(n)
  BY DEF InQueue, Unwatched, IsIn
<1>2. ~InQueue(p) /\ ~OutQueue(p) /\ Half(p) /\ p # n /\ at[p] = Nothing
  <2>1. ~InQueue(p) /\ ~OutQueue(p) /\ Half(p)
    BY DEF Good, Halves, Half
  <2>2. p # n
    BY <1>1, <2>1
  <2>3. at[p] = Nothing
    BY <1>0, <2>1 DEF Good, Ends, Left
  <2> QED
    BY <2>1, <2>2, <2>3
<1>3. \A o \in Objects : watchPaths[o] # n
  BY <1>1 DEF Good, Kept
<1>4. \A o \in moved : e.of = o
  <2>1. ASSUME NEW o \in moved
        PROVE  e.of = o
    <3>1. watchPaths[o] = p /\ o \in Objects
      OBVIOUS
    <3>2. \/ at[p] = o
          \/ \E f \in Told : IsOut(f, p) /\ f.of = o
          \/ \E k \in pending : k.name = p /\ Whose(k, o)
      BY <1>0, <3>1 DEF Good, Kept
    <3>3. PICK k \in pending : k.name = p /\ Whose(k, o)
      BY <1>0, <1>2, <3>1, <3>2 DEF OutQueue
    <3>4. k = m
      BY <3>3 DEF Good, Halves
    <3> QED
      BY <3>3, <3>4 DEF Whose
  <2> QED
    BY <2>1
<1>5. /\ ~OutQueue(n) => e.of = at[n]
      /\ \A f \in Told : IsOut(f, n) => f.of = e.of
      /\ OutQueue(n) => at[n] = Nothing
  BY DEF Good, Appears, Ends, Left, IsIn
<1>6. \A o \in Objects : watchPaths[o] # Nothing /\ InTree(o) => o \in kernel
  BY DEF Good, Watched
<1>7. watchPaths \in [Objects -> Names \cup {Nothing}]
  BY DEF InotifyTypeOK
<1>8. CASE moved # {}
  <2>1. watchPaths' = [o \in Objects |-> IF o \in moved THEN n ELSE watchPaths[o]] /\ kernel' = kernel
    BY <1>8 DEF MoveWatch
  <2>2. PICK x \in Objects : moved = {x} /\ x = e.of /\ watchPaths[x] = p
    BY <1>4, <1>8
  <2>3. \A o \in Objects : watchPaths'[o] = IF o = x THEN n ELSE watchPaths[o]
    BY <2>1, <2>2
  <2>4. at[n] # Nothing => at[n] = x /\ watchPaths'[at[n]] = n
    BY <1>5, <2>2, <2>3
  <2>5. \A k \in Names : k # n /\ at[k] # Nothing /\ watchPaths[at[k]] = k => watchPaths'[at[k]] = k
    <3>1. ASSUME NEW k \in Names, k # n, at[k] # Nothing, watchPaths[at[k]] = k
          PROVE  watchPaths'[at[k]] = k
      <4>1. at[k] \in Objects /\ k # p
        BY <1>2, <3>1 DEF TreeTypes
      <4> QED
        BY <2>2, <2>3, <3>1, <4>1
    <3> QED
      BY <3>1
  <2>6. \A o \in Objects : watchPaths'[o] # Nothing /\ InTree(o) => o \in kernel'
    BY <1>0, <1>6, <2>1, <2>2, <2>3
  <2>7. ASSUME NEW o \in Objects, NEW w \in Names, watchPaths'[o] = w
        PROVE  \/ w # n /\ w # p /\ watchPaths[o] = w
               \/ w = n /\ (~OutQueue(n) => at[n] = o) /\ \A f \in Told : IsOut(f, n) => f.of = o
    <3>1. CASE o = x
      BY <1>5, <2>2, <2>3, <2>7, <3>1
    <3>2. CASE o # x
      BY <1>3, <2>2, <2>3, <2>7, <3>2
    <3> QED
      BY <3>1, <3>2
  <2> QED
    BY <2>4, <2>5, <2>6, <2>7
<1>9. CASE moved = {} /\ at[n] # Nothing
  <2>1. WatchDirectory(n)
    BY <1>9 DEF MoveWatch
  <2>2. /\ at[n] \in Objects /\ watchPaths'[at[n]] = n
        /\ \A o \in Objects : o # at[n] => watchPaths'[o] = watchPaths[o]
        /\ kernel' = kernel \cup {at[n]}
    BY <1>3, <1>9, <2>1, WatchDirectoryIs
  <2>3. ~OutQueue(n)
    BY <1>5, <1>9
  <2>4. ASSUME NEW o \in Objects, NEW w \in Names, watchPaths'[o] = w
        PROVE  \/ w # n /\ w # p /\ watchPaths[o] = w
               \/ w = n /\ (~OutQueue(n) => at[n] = o) /\ \A f \in Told : IsOut(f, n) => f.of = o
    <3>1. CASE o = at[n]
      BY <2>2, <2>3, <2>4, <3>1 DEF OutQueue
    <3>2. CASE o # at[n]
      BY <1>3, <1>9, <2>2, <2>4, <3>2
    <3> QED
      BY <3>1, <3>2
  <2>5. \A k \in Names : k # n /\ at[k] # Nothing /\ watchPaths[at[k]] = k => watchPaths'[at[k]] = k
    <3>1. ASSUME NEW k \in Names, k # n, at[k] # Nothing, watchPaths[at[k]] = k
          PROVE  watchPaths'[at[k]] = k
      <4>1. at[k] \in Objects /\ at[k] # at[n]
        BY <3>1 DEF TreeTypes
      <4> QED
        BY <2>2, <3>1, <4>1
    <3> QED
      BY <3>1
  <2>6. \A o \in Objects : watchPaths'[o] # Nothing /\ InTree(o) => o \in kernel'
    BY <1>6, <2>2
  <2> QED
    BY <2>2, <2>4, <2>5, <2>6
<1>10. CASE moved = {} /\ at[n] = Nothing
  <2>1. watchPaths' = watchPaths /\ kernel' = kernel
    BY <1>10 DEF MoveWatch, watches
  <2> QED
    BY <1>3, <1>6, <1>10, <2>1
<1> QED
  BY <1>8, <1>9, <1>10

\* The second half of a rename, or the first sign of a directory that moves in.
LEMMA ReadMovedToGood ==
    ASSUME TreeTypes, RemoteTypes, InotifyTypeOK, Good, ReadMovedTo
    PROVE  Good'
<1>1. /\ Reads("to") /\ UNCHANGED disk
      /\ pending' = pending \ {m \in pending : m.cookie = Event.cookie}
  BY DEF ReadMovedTo
<1>2. /\ task = NoTask /\ Event \in Told /\ Event.what = "to" /\ OfNow(Event)
      /\ Told' \subseteq Told /\ (\A e \in Told : e = Event \/ e \in Told') /\ InOrder'
      /\ (\A f \in Told' : Before(Event, f))
      /\ Nothing \notin Names /\ Nothing \notin Objects
  BY <1>1, ReadSeen DEF Good
<1>3. PICK n \in Names : n = Event.name
  BY <1>2 DEF OfNow, Shaped
<1>4. CASE {m \in pending : m.cookie = Event.cookie} = {}
  <2>1. /\ Announce({PathEvent("create", <<Event.name>>)}) /\ task' = Task("watch", Event.name)
        /\ UNCHANGED watches
    BY <1>4 DEF ReadMovedTo
  <2>2. pending' = pending /\ \A m \in pending : ~Partner(m, Event)
    BY <1>1, <1>4 DEF Partner
  <2> QED
    BY <1>1, <1>3, <2>1, <2>2, AppearedGood
<1>5. CASE {m \in pending : m.cookie = Event.cookie} # {}
  <2>1. PICK m \in pending :
           /\ m.cookie = Event.cookie
           /\ Announce({MoveEvent(<<m.name>>, <<Event.name>>)}) /\ MoveWatch(m.name, Event.name)
    BY <1>5 DEF ReadMovedTo
  <2>2. task' = task
    BY <1>5 DEF ReadMovedTo
  <2>3. PICK p \in Names : p = m.name
    BY DEF RemoteTypes
  <2>4. Partner(m, Event) /\ pending' = pending \ {m}
    <3>1. \A k \in pending : k.cookie = Event.cookie => k = m
      BY <2>1 DEF Good, Halves
    <3> QED
      BY <1>1, <1>2, <2>1, <3>1 DEF Partner
  <2>5. /\ \A o \in Objects : \A w \in Names : watchPaths'[o] = w =>
                  \/ w # n /\ w # p /\ watchPaths[o] = w
                  \/ w = n /\ (~OutQueue(n) => at[n] = o) /\ \A f \in Told : IsOut(f, n) => f.of = o
        /\ at[n] # Nothing => watchPaths'[at[n]] = n
        /\ \A k \in Names : k # n /\ at[k] # Nothing /\ watchPaths[at[k]] = k => watchPaths'[at[k]] = k
        /\ \A o \in Objects : watchPaths'[o] # Nothing /\ InTree(o) => o \in kernel'
    BY <1>2, <1>3, <2>1, <2>3, <2>4, MovedWatches
  <2>6. CoversAll({MoveEvent(<<p>>, <<n>>)}) = {<<p>>, File(p), <<n>>, File(n)}
    BY SaidIs
  <2>7. Announce({MoveEvent(<<p>>, <<n>>)}) /\ at' = at
    BY <1>1, <1>3, <2>1, <2>3 DEF disk
  <2>8. ~InQueue(p) /\ ~OutQueue(p) /\ Half(p) /\ at[p] = Nothing /\ InQueue(n) /\ p # n
    <3>1. ~InQueue(p) /\ ~OutQueue(p) /\ Half(p)
      BY <2>3 DEF Good, Halves, Half
    <3>2. InQueue(n)
      BY <1>2, <1>3 DEF InQueue, IsIn
    <3> QED
      BY <3>1, <3>2 DEF Good, Ends, Left
  <2>9. ASSUME NEW k \in Names
        PROVE  /\ k # n => (InQueue(k)' <=> InQueue(k)) /\ (Entered(k)' <=> Entered(k)) /\ (Unwatched(k)' <=> Unwatched(k))
               /\ k = n => ~InQueue(k)' /\ ~Entered(k)' /\ ~Unwatched(k)'
               /\ OutQueue(k)' <=> OutQueue(k)
               /\ k # p => (Left(k)' <=> Left(k))
               /\ k = p => ~Left(k)' /\ ~InQueue(k)' /\ ~Entered(k)'
               /\ task.name # k
    <3>1. /\ k # n => (InQueue(k)' <=> InQueue(k)) /\ (OutQueue(k)' <=> OutQueue(k))
          /\ k = n => ~InQueue(k)' /\ (OutQueue(k)' <=> OutQueue(k))
      BY <1>1, <1>3, ReadNames
    <3>2. k # p => (Half(k)' <=> Half(k))
      BY <2>3, <2>4 DEF Half
    <3>3. k = p => ~Half(k)'
      BY <2>3, <2>4 DEF Half, Good, Halves
    <3>4. /\ Left(k)' <=> OutQueue(k)' \/ Half(k)'
          /\ Entered(k)' <=> InQueue(k)' \/ task.name = k
          /\ Unwatched(k)' <=> InQueue(k)' \/ task = Task("watch", k)
      BY <2>2 DEF Left, Entered, Unwatched, Task
    <3>5. task.name # k /\ task # Task("watch", k)
      BY <1>2 DEF NoTask, Task
    <3>6. k = p => ~InQueue(k) /\ ~OutQueue(k) /\ k # n
      BY <2>8
    <3> QED
      BY <3>1, <3>2, <3>3, <3>4, <3>5, <3>6 DEF Left, Entered, Unwatched
  <2>10. ASSUME NEW k, k \in pending' \/ (k \in Told' /\ k.what = "from")
         PROVE  \A e \in Told : e \in Told' \/ ~Partner(k, e)
    <3>1. k.cookie # Event.cookie
      <4>1. CASE k \in pending'
        BY <2>1, <2>4, <4>1 DEF Good, Halves
      <4>2. CASE k \in Told' /\ k.what = "from"
        BY <1>2, <4>2 DEF Before
      <4> QED
        BY <2>10, <4>1, <4>2
    <3> QED
      BY <1>2, <3>1 DEF Partner
  <2>11. Halves'
    <3>1. ASSUME NEW k \in pending'
          PROVE  task'.name # k.name /\ ~InQueue(k.name)' /\ ~OutQueue(k.name)'
      <4>1. k \in pending /\ k.name \in Names
        BY <2>4, <3>1 DEF RemoteTypes
      <4>2. ~InQueue(k.name) /\ ~OutQueue(k.name)
        BY <4>1 DEF Good, Halves
      <4>3. k.name # n
        BY <2>8, <4>2
      <4> QED
        BY <2>2, <2>9, <4>1, <4>2, <4>3
    <3>2. \A k \in Names : task'.name = k => ~InQueue(k)'
      BY <2>2, <2>9
    <3>3. \A h, k \in pending' : h.name = k.name \/ h.cookie = k.cookie => h = k
      BY <2>4 DEF Good, Halves
    <3> QED
      BY <3>1, <3>2, <3>3 DEF Halves
  <2>12. Ends'
    <3>1. ASSUME NEW k \in Names
          PROVE  /\ Left(k)' => at'[k] = Nothing
                 /\ Entered(k)' /\ ~Left(k)' => at'[k] # Nothing
      <4>1. /\ Left(k) => at[k] = Nothing
            /\ Entered(k) /\ ~Left(k) => at[k] # Nothing
        BY DEF Good, Ends
      <4> QED
        BY <2>7, <2>8, <2>9, <4>1
    <3> QED
      BY <3>1 DEF Ends
  <2>13. Appears'
    BY <1>1, <1>2, <2>9, AppearsStays DEF Good
  <2>14. Goes'
    <3>1. ASSUME NEW f \in Told', f.what = "from"
          PROVE  /\ \A e \in Told : e \in Told' \/ ~Partner(f, e)
                 /\ \A h \in pending' : h.cookie # f.cookie
      BY <1>2, <2>4, <2>10, <3>1 DEF Good, Goes
    <3> QED
      BY <1>1, <1>2, <3>1, GoesStays DEF Good
  <2>15. Kept'
    <3>1. ASSUME NEW o \in Objects, NEW w \in Names, watchPaths'[o] = w
          PROVE  /\ ~Unwatched(w)'
                 /\ \/ at'[w] = o
                    \/ \E f \in Told' : IsOut(f, w) /\ f.of = o
                    \/ \E h \in pending' : h.name = w /\ Whose(h, o)'
      <4>1. CASE w # n /\ w # p /\ watchPaths[o] = w
        <5>1. /\ ~Unwatched(w)
              /\ \/ at[w] = o
                 \/ \E f \in Told : IsOut(f, w) /\ f.of = o
                 \/ \E h \in pending : h.name = w /\ Whose(h, o)
          BY <4>1 DEF Good, Kept
        <5>2. CASE \E h \in pending : h.name = w /\ Whose(h, o)
          <6>1. PICK h \in pending : h.name = w /\ Whose(h, o)
            BY <5>2
          <6>2. h \in pending'
            BY <2>3, <2>4, <4>1, <6>1
          <6>3. Whose(h, o)'
            BY <1>1, <1>2, <2>10, <6>1, <6>2, WhoseKept
          <6> QED
            BY <2>9, <4>1, <5>1, <6>1, <6>2, <6>3
        <5>3. CASE \E f \in Told : IsOut(f, w) /\ f.of = o
          BY <1>2, <2>9, <4>1, <5>1, <5>3 DEF IsOut
        <5> QED
          BY <2>7, <2>9, <4>1, <5>1, <5>2, <5>3
      <4>2. CASE w = n /\ (~OutQueue(n) => at[n] = o) /\ \A f \in Told : IsOut(f, n) => f.of = o
        <5>1. CASE OutQueue(n)
          <6>1. PICK f \in Told : IsOut(f, n)
            BY <5>1 DEF OutQueue
          <6>2. f \in Told'
            BY <1>2, <6>1 DEF IsOut
          <6> QED
            BY <2>9, <4>2, <6>1, <6>2
        <5> QED
          BY <2>7, <2>9, <4>2, <5>1
      <4> QED
        BY <2>5, <3>1, <4>1, <4>2
    <3> QED
      BY <3>1 DEF Kept
  <2>16. Watched'
    <3>1. ASSUME NEW k \in Names, at'[k] # Nothing, ~Unwatched(k)'
          PROVE  watchPaths'[at'[k]] = k
      <4>1. CASE k = n
        BY <2>5, <2>7, <3>1, <4>1
      <4>2. CASE k # n
        <5>1. watchPaths[at[k]] = k
          BY <2>7, <2>9, <3>1, <4>2 DEF Good, Watched
        <5> QED
          BY <2>5, <2>7, <3>1, <4>2, <5>1
      <4> QED
        BY <4>1, <4>2
    <3>2. \A o \in Objects : watchPaths'[o] # Nothing /\ InTree(o)' => o \in kernel'
      BY <1>1, <2>5, StillTree
    <3> QED
      BY <3>1, <3>2 DEF Watched
  <2>17. Unsaid'
    <3>1. ASSUME NEW k \in Names
          PROVE  /\ at'[k] = Nothing /\ ~Left(k)' => File(k) \notin known'
                 /\ Entered(k)' => File(k) \notin known'
      <4>1. File(k) \in CoversAll({MoveEvent(<<p>>, <<n>>)}) <=> k \in {p, n}
        BY <2>6, PathsDiffer
      <4>2. File(k) \in Present => at[k] # Nothing
        BY <1>2, PresentIs DEF TreeTypes
      <4>3. File(k) \in known' => IF k \in {p, n} THEN at[k] # Nothing ELSE File(k) \in known
        BY <1>1, <2>7, <4>1, <4>2, SaidOf
      <4>4. CASE k \in {p, n}
        BY <2>7, <2>9, <4>3, <4>4
      <4>5. CASE k \notin {p, n}
        BY <2>7, <2>9, <4>3, <4>5 DEF Good, Unsaid
      <4> QED
        BY <4>4, <4>5
    <3> QED
      BY <3>1 DEF Unsaid
  <2>18. ToCome'
    <3>1. ASSUME NEW k \in Names, <<k>> \in changed'
          PROVE  InQueue(k)' \/ Left(k)'
      <4>1. <<k>> \in changed /\ k # p /\ k # n
        BY <1>1, <2>6, <2>7, <3>1, SaidOf
      <4> QED
        BY <2>9, <4>1 DEF Good, ToCome
    <3>2. ASSUME NEW k \in Names, File(k) \in Owed', ~Left(k)', ~Entered(k)'
          PROVE  at'[k] # Nothing /\ \E e \in Told' : IsFile(e, at'[k])
      <4>1. File(k) \in Owed /\ k # p /\ k # n
        BY <1>1, <2>6, <2>7, <3>2, SaidOf
      <4>2. at[k] # Nothing /\ \E e \in Told : IsFile(e, at[k])
        BY <2>9, <3>2, <4>1 DEF Good, ToCome
      <4> QED
        BY <1>2, <2>7, <4>2 DEF IsFile
    <3> QED
      BY <3>1, <3>2 DEF ToCome
  <2> QED
    BY <1>2, <2>11, <2>12, <2>13, <2>14, <2>15, <2>16, <2>17, <2>18 DEF Good
<1> QED
  BY <1>4, <1>5

\* What is being done.
LEMMA TaskOf ==
    ASSUME RemoteTypes
    PROVE  /\ task.do = "watch" => \E n \in Names : task = Task("watch", n)
           /\ task.do = "list" => \E n \in Names : task = Task("list", n)
           /\ task.do = "forget all" => task = Task("forget all", Nothing)
           /\ task.do = "watch all" => task = Task("watch all", Nothing)
           /\ task.do # "not started" => task # NotStarted
<1>1. CASE task \in {NoTask, NotStarted, Task("forget all", Nothing), Task("watch all", Nothing)}
  <2>1. CASE task = NoTask
    BY <2>1 DEF NoTask, NotStarted, Task
  <2>2. CASE task = NotStarted
    BY <2>2 DEF NotStarted, Task
  <2>3. CASE task = Task("forget all", Nothing)
    BY <2>3 DEF Task, NotStarted
  <2>4. CASE task = Task("watch all", Nothing)
    BY <2>4 DEF Task, NotStarted
  <2> QED
    BY <1>1, <2>1, <2>2, <2>3, <2>4
<1>2. CASE \E n \in Names : task \in {Task("watch", n), Task("list", n)}
  <2>1. PICK n \in Names : task \in {Task("watch", n), Task("list", n)}
    BY <1>2
  <2>2. CASE task = Task("watch", n)
    BY <2>2 DEF Task, NotStarted
  <2>3. CASE task = Task("list", n)
    BY <2>3 DEF Task, NotStarted
  <2> QED
    BY <2>1, <2>2, <2>3
<1> QED
  BY <1>1, <1>2 DEF RemoteTypes

\* A directory that has appeared is watched, unless it is gone again.
LEMMA AddTreeGood ==
    ASSUME TreeTypes, RemoteTypes, InotifyTypeOK, Good, AddTree
    PROVE  Good'
<1>1. task.do = "watch" /\ UNCHANGED <<disk, changed, known, queue, pending, at>>
  BY DEF AddTree, tree, disk
<1>2. PICK n \in Names : task = Task("watch", n)
  BY <1>1, TaskOf
<1>3. task.name = n /\ Unwatched(n) /\ ~InQueue(n) /\ ~Half(n) /\ n # Nothing
  BY <1>2, NothingIsNone DEF Task, Unwatched, Good, Halves, Half
<1>4. Told' = Told /\ InOrder' /\ Nothing \notin Names
  BY <1>1, NothingIsNone DEF Told, Good, InOrder, Before
<1>5. ASSUME NEW k \in Names
      PROVE  /\ (InQueue(k)' <=> InQueue(k)) /\ (OutQueue(k)' <=> OutQueue(k)) /\ (Left(k)' <=> Left(k))
             /\ Entered(k)' <=> InQueue(k) \/ task'.name = k
             /\ Unwatched(k)' <=> InQueue(k) \/ task' = Task("watch", k)
             /\ Entered(k) <=> InQueue(k) \/ k = n
             /\ Unwatched(k) <=> InQueue(k) \/ k = n
  <2>1. /\ InQueue(k)' <=> InQueue(k)
        /\ OutQueue(k)' <=> OutQueue(k)
        /\ Half(k)' <=> Half(k)
    BY <1>1, <1>4 DEF InQueue, OutQueue, IsIn, IsOut, Half
  <2>2. /\ Left(k)' <=> OutQueue(k)' \/ Half(k)'
        /\ Entered(k)' <=> InQueue(k)' \/ task'.name = k
        /\ Unwatched(k)' <=> InQueue(k)' \/ task' = Task("watch", k)
    BY DEF Left, Entered, Unwatched, Task
  <2>3. (task = Task("watch", k) <=> k = n) /\ (task.name = k <=> k = n)
    BY <1>2 DEF Task
  <2> QED
    BY <2>1, <2>2, <2>3 DEF Left, Entered, Unwatched
<1>6. Appears'
  BY <1>1, <1>4, <1>5, AppearsStays DEF Good
<1>7. Goes'
  BY <1>1, <1>4, GoesStays DEF Good, Goes
<1>8. ASSUME NEW m, NEW o, Whose(m, o)
      PROVE  Whose(m, o)'
  BY <1>1, <1>4, <1>8, WhoseKept
<1>9. Owed' = Owed
  BY <1>1 DEF Owed, Present, disk
<1>10. CASE at[n] = Nothing
  <2>1. task' = NoTask /\ UNCHANGED watches
    BY <1>3, <1>10 DEF AddTree
  <2>2. watchPaths' = watchPaths /\ kernel' = kernel
    BY <2>1 DEF watches
  <2>3. Left(n)
    BY <1>3, <1>10 DEF Good, Ends, Entered
  <2>4. ASSUME NEW k \in Names
        PROVE  /\ Entered(k)' <=> InQueue(k)
               /\ Unwatched(k)' <=> InQueue(k)
               /\ task'.name # k
    BY <1>4, <1>5, <2>1 DEF NoTask, Task
  <2>5. Halves'
    <3>1. \A m \in pending' : m.name \in Names /\ ~InQueue(m.name) /\ ~OutQueue(m.name)
      BY <1>1 DEF Good, Halves, RemoteTypes
    <3>2. \A m \in pending' : task'.name # m.name /\ ~InQueue(m.name)' /\ ~OutQueue(m.name)'
      BY <1>5, <2>4, <3>1
    <3>3. \A m, k \in pending' : m.name = k.name \/ m.cookie = k.cookie => m = k
      BY <1>1 DEF Good, Halves
    <3> QED
      BY <2>4, <3>2, <3>3 DEF Halves
  <2>6. Ends'
    BY <1>1, <1>5, <2>4 DEF Good, Ends
  <2>7. Kept'
    <3>1. ASSUME NEW o \in Objects, NEW w \in Names, watchPaths'[o] = w
          PROVE  watchPaths[o] = w /\ (Unwatched(w)' => Unwatched(w))
      BY <1>5, <2>2, <2>4, <3>1
    <3> QED
      BY <1>1, <1>4, <3>1, KeptStays DEF Good
  <2>8. Watched'
    <3>1. ASSUME NEW k \in Names, at'[k] # Nothing, ~Unwatched(k)'
          PROVE  watchPaths'[at'[k]] = k
      BY <1>1, <1>5, <1>10, <2>2, <2>4, <3>1 DEF Good, Watched
    <3>2. \A o \in Objects : watchPaths'[o] # Nothing /\ InTree(o)' => o \in kernel'
      BY <1>1, <2>2, StillTree DEF Good, Watched
    <3> QED
      BY <3>1, <3>2 DEF Watched
  <2>9. Unsaid'
    BY <1>1, <1>5, <2>4 DEF Good, Unsaid
  <2>10. ToCome'
    <3>1. \A k \in Names : <<k>> \in changed' => InQueue(k)' \/ Left(k)'
      BY <1>1, <1>5 DEF Good, ToCome
    <3>2. ASSUME NEW k \in Names, File(k) \in Owed', ~Left(k)', ~Entered(k)'
          PROVE  at'[k] # Nothing /\ \E e \in Told' : IsFile(e, at'[k])
      <4>1. k # n
        BY <1>5, <2>3, <3>2
      <4> QED
        BY <1>1, <1>4, <1>5, <1>9, <2>4, <3>2, <4>1 DEF Good, ToCome, IsFile
    <3> QED
      BY <3>1, <3>2 DEF ToCome
  <2> QED
    BY <1>4, <1>6, <1>7, <2>5, <2>6, <2>7, <2>8, <2>9, <2>10 DEF Good
<1>11. CASE at[n] # Nothing
  <2>1. WatchDirectory(n) /\ task' = Task("list", n)
    BY <1>3, <1>11 DEF AddTree
  <2>2. \A o \in Objects : watchPaths[o] # n
    BY <1>3 DEF Good, Kept
  <2>3. /\ at[n] \in Objects /\ watchPaths'[at[n]] = n
        /\ \A o \in Objects : o # at[n] => watchPaths'[o] = watchPaths[o]
        /\ kernel' = kernel \cup {at[n]}
    BY <1>11, <2>1, <2>2, WatchDirectoryIs
  <2>4. ASSUME NEW k \in Names
        PROVE  /\ Entered(k)' <=> Entered(k)
               /\ Unwatched(k)' <=> InQueue(k)
               /\ task'.name = k <=> k = n
    BY <1>5, <2>1 DEF Task
  <2>5. Halves'
    <3>1. \A m \in pending' : m.name \in Names /\ ~InQueue(m.name) /\ ~OutQueue(m.name) /\ m.name # n
      BY <1>1, <1>3 DEF Good, Halves, RemoteTypes
    <3>2. \A m \in pending' : task'.name # m.name /\ ~InQueue(m.name)' /\ ~OutQueue(m.name)'
      BY <1>5, <2>4, <3>1
    <3>3. \A m, k \in pending' : m.name = k.name \/ m.cookie = k.cookie => m = k
      BY <1>1 DEF Good, Halves
    <3>4. \A k \in Names : task'.name = k => ~InQueue(k)'
      BY <1>3, <1>5, <2>4
    <3> QED
      BY <3>2, <3>3, <3>4 DEF Halves
  <2>6. Ends'
    BY <1>1, <1>5, <2>4 DEF Good, Ends
  <2>7. Kept'
    <3>1. ASSUME NEW o \in Objects, NEW w \in Names, watchPaths'[o] = w
          PROVE  /\ ~Unwatched(w)'
                 /\ \/ at'[w] = o
                    \/ \E f \in Told' : IsOut(f, w) /\ f.of = o
                    \/ \E m \in pending' : m.name = w /\ Whose(m, o)'
      <4>1. CASE o = at[n]
        BY <1>1, <1>3, <2>3, <2>4, <3>1, <4>1
      <4>2. CASE o # at[n]
        <5>1. /\ ~Unwatched(w)
              /\ \/ at[w] = o
                 \/ \E f \in Told : IsOut(f, w) /\ f.of = o
                 \/ \E m \in pending : m.name = w /\ Whose(m, o)
          BY <2>3, <3>1, <4>2 DEF Good, Kept
        <5>2. ~Unwatched(w)'
          BY <1>5, <2>4, <5>1
        <5> QED
          BY <1>1, <1>4, <1>8, <5>1, <5>2
      <4> QED
        BY <4>1, <4>2
    <3> QED
      BY <3>1 DEF Kept
  <2>8. Watched'
    <3>1. ASSUME NEW k \in Names, at'[k] # Nothing, ~Unwatched(k)'
          PROVE  watchPaths'[at'[k]] = k
      <4>1. CASE k = n
        BY <1>1, <2>3, <4>1
      <4>2. CASE k # n
        <5>1. watchPaths[at[k]] = k
          BY <1>1, <1>5, <2>4, <3>1, <4>2 DEF Good, Watched
        <5>2. at[k] # at[n] /\ at[k] \in Objects
          BY <1>1, <3>1, <4>2 DEF TreeTypes
        <5> QED
          BY <1>1, <2>3, <5>1, <5>2
      <4> QED
        BY <4>1, <4>2
    <3>2. \A o \in Objects : watchPaths'[o] # Nothing /\ InTree(o)' => o \in kernel'
      BY <1>1, <2>3, StillTree DEF Good, Watched
    <3> QED
      BY <3>1, <3>2 DEF Watched
  <2>9. Unsaid'
    BY <1>1, <1>5, <2>4 DEF Good, Unsaid
  <2>10. ToCome'
    <3>1. \A k \in Names : <<k>> \in changed' => InQueue(k)' \/ Left(k)'
      BY <1>1, <1>5 DEF Good, ToCome
    <3>2. ASSUME NEW k \in Names, File(k) \in Owed', ~Left(k)', ~Entered(k)'
          PROVE  at'[k] # Nothing /\ \E e \in Told' : IsFile(e, at'[k])
      BY <1>1, <1>4, <1>5, <1>9, <2>4, <3>2 DEF Good, ToCome, IsFile
    <3> QED
      BY <3>1, <3>2 DEF ToCome
  <2> QED
    BY <1>4, <1>6, <1>7, <2>5, <2>6, <2>7, <2>8, <2>9, <2>10 DEF Good
<1> QED
  BY <1>10, <1>11

\* What a new directory holds is announced when it is listed.
LEMMA ListGood ==
    ASSUME TreeTypes, RemoteTypes, Good, List
    PROVE  Good'
<1>1. task.do = "list" /\ task' = NoTask /\ UNCHANGED <<disk, queue, watchPaths, kernel, pending, at>>
  BY DEF List, disk, watches
<1>2. PICK n \in Names : task = Task("list", n)
  BY <1>1, TaskOf
<1>3. task.name = n /\ ~InQueue(n) /\ ~Half(n)
  BY <1>2 DEF Task, Good, Halves, Half
<1>4. Told' = Told /\ InOrder' /\ Nothing \notin Names /\ Nothing \notin Objects
  BY <1>1, NothingIsNone DEF Told, Good, InOrder, Before
<1>5. ASSUME NEW k \in Names
      PROVE  /\ (InQueue(k)' <=> InQueue(k)) /\ (OutQueue(k)' <=> OutQueue(k)) /\ (Left(k)' <=> Left(k))
             /\ Entered(k)' <=> InQueue(k)
             /\ Unwatched(k)' <=> InQueue(k)
             /\ Entered(k) <=> InQueue(k) \/ k = n
             /\ Unwatched(k) <=> InQueue(k)
             /\ task'.name # k
  <2>1. /\ InQueue(k)' <=> InQueue(k)
        /\ OutQueue(k)' <=> OutQueue(k)
        /\ Half(k)' <=> Half(k)
    BY <1>1, <1>4 DEF InQueue, OutQueue, IsIn, IsOut, Half
  <2>2. /\ Left(k)' <=> OutQueue(k)' \/ Half(k)'
        /\ Entered(k)' <=> InQueue(k)' \/ task'.name = k
        /\ Unwatched(k)' <=> InQueue(k)' \/ task' = Task("watch", k)
    BY DEF Left, Entered, Unwatched, Task
  <2>3. task # Task("watch", k) /\ (task.name = k <=> k = n) /\ task' # Task("watch", k) /\ task'.name # k
    BY <1>1, <1>2, <1>4 DEF Task, NoTask
  <2> QED
    BY <2>1, <2>2, <2>3 DEF Left, Entered, Unwatched
<1>6. Appears'
  BY <1>1, <1>4, <1>5, AppearsStays DEF Good
<1>7. Goes'
  BY <1>1, <1>4, GoesStays DEF Good, Goes
<1>8. Halves'
  <2>1. \A m \in pending' : m.name \in Names /\ ~InQueue(m.name) /\ ~OutQueue(m.name)
    BY <1>1 DEF Good, Halves, RemoteTypes
  <2>2. \A m \in pending' : task'.name # m.name /\ ~InQueue(m.name)' /\ ~OutQueue(m.name)'
    BY <1>5, <2>1
  <2>3. \A m, k \in pending' : m.name = k.name \/ m.cookie = k.cookie => m = k
    BY <1>1 DEF Good, Halves
  <2> QED
    BY <1>5, <2>2, <2>3 DEF Halves
<1>9. Ends'
  BY <1>1, <1>5 DEF Good, Ends
<1>10. Kept'
  <2>1. ASSUME NEW o \in Objects, NEW w \in Names, watchPaths'[o] = w
        PROVE  watchPaths[o] = w /\ (Unwatched(w)' => Unwatched(w))
    BY <1>1, <1>5, <2>1
  <2> QED
    BY <1>1, <1>4, <2>1, KeptStays DEF Good
<1>11. Watched'
  <2>1. \A k \in Names : at'[k] # Nothing /\ ~Unwatched(k)' => watchPaths'[at'[k]] = k
    BY <1>1, <1>5 DEF Good, Watched
  <2>2. \A o \in Objects : watchPaths'[o] # Nothing /\ InTree(o)' => o \in kernel'
    BY <1>1, StillTree DEF Good, Watched
  <2> QED
    BY <2>1, <2>2 DEF Watched
<1>12. /\ \A p : p \in Owed' => p \in Owed
       /\ \A p : p \in changed' => p \in changed
       /\ \A k \in Names : k # n /\ File(k) \in known' => File(k) \in known
       /\ File(n) \in known' => File(n) \in known \/ at[n] \in full
       /\ File(n) \in Owed' => Left(n) \/ at[n] = Nothing
  <2>1. File(n) \notin known
    BY <1>3 DEF Good, Unsaid, Entered
  <2>2. File(n) \in Present <=> at[n] \in full
    BY PresentIs
  <2>3. CASE at[n] \in full
    <3>1. Announce({PathEvent("create", File(n))})
      BY <1>3, <2>3 DEF List
    <3>2. CoversAll({PathEvent("create", File(n))}) = {File(n)}
      BY SaidIs
    <3>3. \A k \in Names : k # n => File(k) # File(n)
      BY PathsDiffer
    <3> QED
      BY <1>1, <2>2, <2>3, <3>1, <3>2, <3>3, SaidOf
  <2>4. CASE at[n] \notin full
    <3>1. changed' = changed /\ known' = known
      BY <1>3, <2>4 DEF List
    <3>2. Owed' = Owed
      BY <1>1, <3>1 DEF Owed, Present, disk
    <3>3. File(n) \notin Owed
      BY <2>1, <2>2, <2>4 DEF Owed
    <3> QED
      BY <3>1, <3>2, <3>3
  <2> QED
    BY <2>3, <2>4
<1>13. Unsaid'
  <2>1. ASSUME NEW k \in Names
        PROVE  /\ at'[k] = Nothing /\ ~Left(k)' => File(k) \notin known'
               /\ Entered(k)' => File(k) \notin known'
    <3>1. /\ at[k] = Nothing /\ ~Left(k) => File(k) \notin known
          /\ Entered(k) => File(k) \notin known
      BY DEF Good, Unsaid
    <3>2. Nothing \notin full
      BY <1>4 DEF TreeTypes
    <3> QED
      BY <1>1, <1>3, <1>5, <1>12, <3>1, <3>2
  <2> QED
    BY <2>1 DEF Unsaid
<1>14. ToCome'
  <2>1. \A k \in Names : <<k>> \in changed' => InQueue(k)' \/ Left(k)'
    BY <1>5, <1>12 DEF Good, ToCome
  <2>2. ASSUME NEW k \in Names, File(k) \in Owed', ~Left(k)', ~Entered(k)'
        PROVE  at'[k] # Nothing /\ \E e \in Told' : IsFile(e, at'[k])
    <3>1. CASE k = n
      <4>1. ~Left(n) /\ Entered(n)
        BY <1>5, <2>2, <3>1
      <4>2. at[n] # Nothing
        BY <4>1 DEF Good, Ends
      <4> QED
        BY <1>12, <2>2, <3>1, <4>1, <4>2
    <3>2. CASE k # n
      BY <1>1, <1>4, <1>5, <1>12, <2>2, <3>2 DEF Good, ToCome, IsFile
    <3> QED
      BY <3>1, <3>2
  <2> QED
    BY <2>1, <2>2 DEF ToCome
<1> QED
  BY <1>4, <1>6, <1>7, <1>8, <1>9, <1>10, <1>11, <1>13, <1>14 DEF Good

\* With new watches nothing is left to be said.
LEMMA WatchAllGood ==
    ASSUME TreeTypes, RemoteTypes, WatchAll
    PROVE  Good' /\ ~Broken'
<1>1. /\ queue' = <<>> /\ pending' = {} /\ changed' = {} /\ task' = NoTask /\ known' = Present
      /\ UNCHANGED disk /\ at' = at /\ kernel' = {at[n] : n \in Names} \ {Nothing}
      /\ watchPaths' = [o \in Objects |-> IF \E n \in Names : at[n] = o THEN CHOOSE n \in Names : at[n] = o ELSE Nothing]
      /\ Nothing \notin Names /\ Nothing \notin Objects
  BY NothingIsNone DEF WatchAll, RemoteTypes, Rebuilding, disk
<1>2. Told' = {}
  BY <1>1, ToSetIs DEF Told
<1>3. ~Broken'
  BY <1>1, <1>2 DEF Broken, Rebuilding, NoTask
<1>4. ASSUME NEW k \in Names
      PROVE  ~InQueue(k)' /\ ~OutQueue(k)' /\ ~Left(k)' /\ ~Entered(k)' /\ ~Unwatched(k)' /\ task'.name # k
  <2>1. task'.name # k /\ task' # Task("watch", k)
    BY <1>1 DEF NoTask, Task
  <2>2. ~InQueue(k)' /\ ~OutQueue(k)' /\ ~Half(k)'
    BY <1>1, <1>2 DEF InQueue, OutQueue, Half
  <2>3. /\ Left(k)' <=> OutQueue(k)' \/ Half(k)'
        /\ Entered(k)' <=> InQueue(k)' \/ task'.name = k
        /\ Unwatched(k)' <=> InQueue(k)' \/ task' = Task("watch", k)
    BY DEF Left, Entered, Unwatched, Task
  <2> QED
    BY <2>1, <2>2, <2>3
<1>5. \A o \in Objects : IF \E n \in Names : at[n] = o THEN watchPaths'[o] \in Names /\ at[watchPaths'[o]] = o
                         ELSE watchPaths'[o] = Nothing
  BY <1>1
<1>6. InOrder' /\ Halves' /\ Ends' /\ Appears' /\ Goes'
  <2>1. InOrder'
    BY <1>1, ToSetIs DEF InOrder
  <2> QED
    BY <1>1, <1>2, <1>4, <2>1 DEF Halves, Ends, Appears, Goes
<1>7. Kept'
  BY <1>1, <1>4, <1>5 DEF Kept
<1>8. Watched'
  <2>1. ASSUME NEW k \in Names, at'[k] # Nothing
        PROVE  watchPaths'[at'[k]] = k
    <3>1. at[k] \in Objects
      BY <1>1, <2>1 DEF TreeTypes
    <3>2. watchPaths'[at[k]] \in Names /\ at[watchPaths'[at[k]]] = at[k]
      BY <1>5, <3>1
    <3> QED
      BY <1>1, <2>1, <3>2 DEF TreeTypes
  <2>2. ASSUME NEW o \in Objects, watchPaths'[o] # Nothing
        PROVE  o \in kernel'
    BY <1>1, <1>5, <2>2
  <2> QED
    BY <2>1, <2>2 DEF Watched
<1>9. Unsaid'
  <2>1. ASSUME NEW k \in Names, at[k] = Nothing
        PROVE  File(k) \notin Present
    BY <1>1, <2>1, PresentIs DEF TreeTypes
  <2> QED
    BY <1>1, <1>4, <2>1 DEF Unsaid
<1>10. ToCome'
  <2>1. Owed' = {}
    BY <1>1 DEF Owed
  <2> QED
    BY <1>1, <2>1 DEF ToCome
<1> QED
  BY <1>3, <1>6, <1>7, <1>8, <1>9, <1>10 DEF Good

-----------------------------------------------------------------------------
(* What the remote watcher's steps leave of its types.                     *)

\* A name and a watch stay each other's when a watch is forgotten.
LEMMA ForgetTypes ==
    ASSUME InotifyTypeOK, NEW S \in SUBSET Objects, Forget(S), kernel' \subseteq Objects
    PROVE  /\ InotifyTypeOK'
           /\ \A o \in Objects : watchPaths'[o] # Nothing => watchPaths[o] # Nothing
<1>1. /\ watchPaths \in [Objects -> Names \cup {Nothing}] /\ pathWatches \in [Names -> Objects \cup {Nothing}]
      /\ \A n \in Names : pathWatches[n] # Nothing => watchPaths[pathWatches[n]] = n
      /\ \A o \in Objects : watchPaths[o] # Nothing => pathWatches[watchPaths[o]] = o
  BY DEF InotifyTypeOK
<1>2. /\ watchPaths' = [o \in Objects |-> IF o \in S THEN Nothing ELSE watchPaths[o]]
      /\ pathWatches' = [n \in Names |-> IF \E o \in S : watchPaths[o] = n THEN Nothing ELSE pathWatches[n]]
  BY DEF Forget
<1>3. watchPaths' \in [Objects -> Names \cup {Nothing}] /\ pathWatches' \in [Names -> Objects \cup {Nothing}]
  BY <1>1, <1>2
<1>4. ASSUME NEW n \in Names, pathWatches'[n] # Nothing
      PROVE  watchPaths'[pathWatches'[n]] = n
  <2>1. pathWatches'[n] = pathWatches[n] /\ ~\E o \in S : watchPaths[o] = n
    BY <1>2, <1>4
  <2>2. watchPaths[pathWatches[n]] = n /\ pathWatches[n] \in Objects
    BY <1>1, <1>4, <2>1
  <2> QED
    BY <1>2, <2>1, <2>2
<1>5. ASSUME NEW o \in Objects, watchPaths'[o] # Nothing
      PROVE  pathWatches'[watchPaths'[o]] = o /\ watchPaths[o] # Nothing
  <2>1. o \notin S /\ watchPaths'[o] = watchPaths[o] /\ watchPaths[o] # Nothing
    BY <1>2, <1>5
  <2>2. pathWatches[watchPaths[o]] = o /\ watchPaths[o] \in Names
    BY <1>1, <2>1
  <2>3. ~\E p \in S : watchPaths[p] = watchPaths[o]
    BY <1>1, <2>1, <2>2
  <2> QED
    BY <1>2, <2>1, <2>2, <2>3
<1> QED
  BY <1>3, <1>4, <1>5 DEF InotifyTypeOK

\* They do when one is added, or comes back under a new name.
LEMMA WatchTypes ==
    ASSUME TreeTypes, InotifyTypeOK, NEW n \in Names, at[n] # Nothing, WatchDirectory(n)
    PROVE  /\ InotifyTypeOK'
           /\ \A o \in Objects : watchPaths'[o] # Nothing => o = at[n] \/ watchPaths[o] # Nothing
<1>1. /\ watchPaths \in [Objects -> Names \cup {Nothing}] /\ pathWatches \in [Names -> Objects \cup {Nothing}]
      /\ kernel \subseteq Objects
      /\ \A m \in Names : pathWatches[m] # Nothing => watchPaths[pathWatches[m]] = m
      /\ \A o \in Objects : watchPaths[o] # Nothing => pathWatches[watchPaths[o]] = o
  BY DEF InotifyTypeOK
<1>2. at[n] \in Objects /\ Nothing \notin Names /\ Nothing \notin Objects
  BY NothingIsNone DEF TreeTypes
<1>3. CASE pathWatches[n] # Nothing
  <2>1. UNCHANGED <<kernel, watchPaths, pathWatches>>
    BY <1>3 DEF WatchDirectory, watches
  <2> QED
    BY <1>1, <2>1 DEF InotifyTypeOK
<1>4. CASE pathWatches[n] = Nothing
  <2> DEFINE x == at[n]
  <2>1. /\ kernel' = kernel \cup {x} /\ watchPaths' = [watchPaths EXCEPT ![x] = n]
        /\ pathWatches' = [m \in Names |-> IF m = n THEN x ELSE IF m = watchPaths[x] THEN Nothing ELSE pathWatches[m]]
    BY <1>4 DEF WatchDirectory
  <2>2. x \in Objects /\ \A o \in Objects : watchPaths[o] # n
    BY <1>1, <1>2, <1>4
  <2> HIDE DEF x
  <2>3. \A o \in Objects : watchPaths'[o] = IF o = x THEN n ELSE watchPaths[o]
    BY <1>1, <2>1, <2>2
  <2>4. watchPaths' \in [Objects -> Names \cup {Nothing}] /\ pathWatches' \in [Names -> Objects \cup {Nothing}]
    BY <1>1, <2>1, <2>2
  <2>5. ASSUME NEW m \in Names, pathWatches'[m] # Nothing
        PROVE  watchPaths'[pathWatches'[m]] = m
    <3>1. CASE m = n
      BY <2>1, <2>2, <2>3, <3>1
    <3>2. CASE m # n
      <4>1. m # watchPaths[x] /\ pathWatches'[m] = pathWatches[m]
        BY <2>1, <2>5, <3>2
      <4>2. pathWatches[m] \in Objects /\ watchPaths[pathWatches[m]] = m
        BY <1>1, <2>5, <4>1
      <4> QED
        BY <2>3, <4>1, <4>2
    <3> QED
      BY <3>1, <3>2
  <2>6. ASSUME NEW o \in Objects, watchPaths'[o] # Nothing
        PROVE  pathWatches'[watchPaths'[o]] = o /\ (o = x \/ watchPaths[o] # Nothing)
    <3>1. CASE o = x
      BY <2>1, <2>3, <3>1
    <3>2. CASE o # x
      <4>1. watchPaths'[o] = watchPaths[o]
        BY <2>3, <3>2
      <4>2. watchPaths[o] \in Names /\ pathWatches[watchPaths[o]] = o /\ watchPaths[o] # n
        BY <1>1, <2>2, <2>6, <4>1
      <4>3. watchPaths[o] # watchPaths[x]
        BY <1>1, <2>2, <2>6, <3>2, <4>1, <4>2
      <4> QED
        BY <2>1, <2>6, <4>1, <4>2, <4>3
    <3> QED
      BY <3>1, <3>2
  <2>7. kernel' \subseteq Objects
    BY <1>1, <2>1, <2>2
  <2> QED
    BY <2>4, <2>5, <2>6, <2>7 DEF InotifyTypeOK, x
<1> QED
  BY <1>3, <1>4

\* They do when a watch follows its directory to a name that has none.
LEMMA MoveTypes ==
    ASSUME TreeTypes, InotifyTypeOK, NEW p \in Names, NEW n \in Names, MoveWatch(p, n),
           \A o \in Objects : watchPaths[o] # n
    PROVE  /\ InotifyTypeOK'
           /\ \A o \in Objects : watchPaths'[o] # Nothing => at[n] = o \/ watchPaths[o] # Nothing
<1> DEFINE moved == {o \in Objects : watchPaths[o] = p}
<1>1. /\ watchPaths \in [Objects -> Names \cup {Nothing}] /\ pathWatches \in [Names -> Objects \cup {Nothing}]
      /\ kernel \subseteq Objects
      /\ \A m \in Names : pathWatches[m] # Nothing => watchPaths[pathWatches[m]] = m
      /\ \A o \in Objects : watchPaths[o] # Nothing => pathWatches[watchPaths[o]] = o
  BY DEF InotifyTypeOK
<1>2. Nothing \notin Names /\ Nothing \notin Objects
  BY NothingIsNone
<1>3. CASE moved = {}
  <2>1. CASE at[n] # Nothing
    <3>1. WatchDirectory(n)
      BY <1>3, <2>1 DEF MoveWatch
    <3> QED
      BY <2>1, <3>1, WatchTypes
  <2>2. CASE at[n] = Nothing
    <3>1. UNCHANGED <<kernel, watchPaths, pathWatches>>
      BY <1>3, <2>2 DEF MoveWatch, watches
    <3> QED
      BY <1>1, <3>1 DEF InotifyTypeOK
  <2> QED
    BY <2>1, <2>2
<1>4. CASE moved # {}
  <2>1. PICK x \in Objects : watchPaths[x] = p
    BY <1>4
  <2>2. moved = {x} /\ pathWatches[p] = x /\ p # n
    BY <1>1, <1>2, <2>1
  <2>3. (CHOOSE o \in {x} : TRUE) = x
    OBVIOUS
  <2>4. /\ watchPaths' = [o \in Objects |-> IF o \in moved THEN n ELSE watchPaths[o]] /\ kernel' = kernel
        /\ pathWatches' = [pathWatches EXCEPT ![p] = Nothing, ![n] = CHOOSE o \in moved : TRUE]
    BY <1>4 DEF MoveWatch
  <2>5. /\ \A o \in Objects : watchPaths'[o] = IF o = x THEN n ELSE watchPaths[o]
        /\ \A m \in Names : pathWatches'[m] = IF m = n THEN x ELSE IF m = p THEN Nothing ELSE pathWatches[m]
    BY <1>1, <2>2, <2>3, <2>4
  <2> HIDE DEF moved
  <2>6. watchPaths' \in [Objects -> Names \cup {Nothing}] /\ pathWatches' \in [Names -> Objects \cup {Nothing}]
    BY <1>1, <2>2, <2>3, <2>4
  <2>7. ASSUME NEW m \in Names, pathWatches'[m] # Nothing
        PROVE  watchPaths'[pathWatches'[m]] = m
    <3>1. CASE m = n
      BY <2>5, <3>1
    <3>2. CASE m # n
      <4>1. m # p /\ pathWatches'[m] = pathWatches[m]
        BY <2>5, <2>7, <3>2
      <4>2. pathWatches[m] \in Objects /\ watchPaths[pathWatches[m]] = m
        BY <1>1, <2>7, <4>1
      <4> QED
        BY <2>1, <2>5, <4>1, <4>2
    <3> QED
      BY <3>1, <3>2
  <2>8. ASSUME NEW o \in Objects, watchPaths'[o] # Nothing
        PROVE  pathWatches'[watchPaths'[o]] = o /\ watchPaths[o] # Nothing
    <3>1. CASE o = x
      BY <1>2, <2>1, <2>5, <3>1
    <3>2. CASE o # x
      <4>1. watchPaths'[o] = watchPaths[o] /\ watchPaths[o] \in Names /\ watchPaths[o] # n
        BY <1>1, <2>5, <2>8, <3>2
      <4>2. pathWatches[watchPaths[o]] = o /\ watchPaths[o] # p
        BY <1>1, <2>2, <2>8, <3>2, <4>1
      <4> QED
        BY <2>5, <2>8, <4>1, <4>2
    <3> QED
      BY <3>1, <3>2
  <2> QED
    BY <1>1, <2>4, <2>6, <2>7, <2>8 DEF InotifyTypeOK
<1> QED
  BY <1>3, <1>4

\* A watched directory is one that has been in the tree, and reading an event leaves
\* the rest as it should be.
LEMMA ReadTypes ==
    ASSUME RemoteTypes, NEW what \in {"create", "delete", "from", "to", "modify", "ignored"}, Reads(what),
           UNCHANGED disk,
           \A m \in pending' : m \in pending \/ (m.name \in Names /\ m.cookie = Event.cookie),
           task' = task \/ \E n \in Names : task' = Task("watch", n),
           \A o \in Objects : watchPaths'[o] # Nothing => o \in used
    PROVE  RemoteTypes' /\ ~Broken /\ task' # NotStarted
<1>1. /\ ~Broken /\ task = NoTask /\ queue' \in Seq(Events) /\ Event.cookie \in Nat /\ OfNow(Event)
      /\ Told' \subseteq Told /\ Overflow \notin Told'
  BY ReadSeen
<1>2. changes' = changes /\ used' = used
  BY DEF disk
<1>3. \A e \in Told' : e = Overflow \/ OfNow(e)'
  BY <1>1, <1>2 DEF RemoteTypes, OfNow, Shaped
<1>4. \A i \in DOMAIN queue' : queue'[i] # Overflow
  BY <1>1 DEF Told, ToSet
<1>5. \A m \in pending' : m.name \in Names /\ m.cookie \in Nat /\ m.cookie < changes'
  BY <1>1, <1>2 DEF RemoteTypes, OfNow
<1>6. /\ \/ task' \in {NoTask, NotStarted, Task("forget all", Nothing), Task("watch all", Nothing)}
         \/ \E n \in Names : task' \in {Task("watch", n), Task("list", n)}
      /\ task'.do \notin {"forget all", "watch all"} /\ task' # NotStarted
  <2>1. CASE task' = task
    BY <1>1, <2>1 DEF NoTask, NotStarted, Task
  <2>2. CASE \E n \in Names : task' = Task("watch", n)
    <3>1. PICK n \in Names : task' = Task("watch", n)
      BY <2>2
    <3>2. task'.do = "watch" /\ task'.do # NotStarted.do
      BY <3>1 DEF NotStarted, Task
    <3>3. task' \in {Task("watch", n), Task("list", n)}
      BY <3>1
    <3> QED
      BY <3>2, <3>3
  <2> QED
    BY <2>1, <2>2
<1>7. \A e \in Told' : e = Overflow' \/ OfNow(e)'
  BY <1>3 DEF Overflow
<1>8. \A i \in DOMAIN queue' : queue'[i] = Overflow' => i = 1
  BY <1>4 DEF Overflow
<1> QED
  BY <1>1, <1>2, <1>5, <1>6, <1>7, <1>8 DEF RemoteTypes, Rebuilding, NoTask, NotStarted, Task

\* A step that reads nothing leaves the events as they are.
LEMMA OtherTypes ==
    ASSUME RemoteTypes, UNCHANGED <<disk, queue>>, pending' \subseteq pending,
           task' = NoTask \/ (\E n \in Names : task' = Task("list", n)),
           \A o \in Objects : watchPaths'[o] # Nothing => o \in used
    PROVE  RemoteTypes' /\ task' # NotStarted
<1>1. changes' = changes /\ used' = used /\ queue' = queue /\ Told' = Told
  BY DEF disk, Told
<1>2. \A e \in Told' : e = Overflow \/ OfNow(e)'
  BY <1>1 DEF RemoteTypes, OfNow, Shaped
<1>3. \A m \in pending' : m.name \in Names /\ m.cookie \in Nat /\ m.cookie < changes'
  BY <1>1 DEF RemoteTypes
<1>4. /\ \/ task' \in {NoTask, NotStarted, Task("forget all", Nothing), Task("watch all", Nothing)}
         \/ \E n \in Names : task' \in {Task("watch", n), Task("list", n)}
      /\ task'.do \notin {"forget all", "watch all"} /\ task' # NotStarted
  <2>1. CASE task' = NoTask
    BY <2>1 DEF NoTask, NotStarted, Task
  <2>2. CASE \E n \in Names : task' = Task("list", n)
    <3>1. PICK n \in Names : task' = Task("list", n)
      BY <2>2
    <3>2. task'.do = "list" /\ task'.do # NotStarted.do
      BY <3>1 DEF NotStarted, Task
    <3>3. task' \in {Task("watch", n), Task("list", n)}
      BY <3>1
    <3> QED
      BY <3>2, <3>3
  <2> QED
    BY <2>1, <2>2
<1>5. \A e \in Told' : e = Overflow' \/ OfNow(e)'
  BY <1>2 DEF Overflow
<1>6. /\ queue' \in Seq(Events)
      /\ \A i \in DOMAIN queue' : queue'[i] = Overflow' => i = 1
  BY <1>1 DEF RemoteTypes, Overflow, Events
<1> QED
  BY <1>1, <1>3, <1>4, <1>5, <1>6 DEF RemoteTypes, Rebuilding, NoTask, NotStarted, Task, Events

\* One that starts anew has events of its own, if any.
LEMMA AnewTypes ==
    ASSUME RemoteTypes, UNCHANGED disk, queue' \in Seq(Events), \A e \in Told' : e = Overflow \/ OfNow(e),
           \A i \in DOMAIN queue' : queue'[i] = Overflow => i = 1,
           pending' \subseteq pending,
           \/ task' = task
           \/ task' \in {NoTask, Task("forget all", Nothing), Task("watch all", Nothing)},
           task'.do \in {"forget all", "watch all"} => pending' = {} /\ changed' = {},
           task'.do = "watch all" => queue' = <<>>,
           \A o \in Objects : watchPaths'[o] # Nothing => o \in used
    PROVE  RemoteTypes'
<1>1. changes' = changes /\ used' = used
  BY DEF disk
<1>2. \A e \in Told' : e = Overflow \/ OfNow(e)'
  BY <1>1 DEF OfNow, Shaped
<1>3. \A m \in pending' : m.name \in Names /\ m.cookie \in Nat /\ m.cookie < changes'
  BY <1>1 DEF RemoteTypes
<1>4. \/ task' \in {NoTask, NotStarted, Task("forget all", Nothing), Task("watch all", Nothing)}
      \/ \E n \in Names : task' \in {Task("watch", n), Task("list", n)}
  BY DEF RemoteTypes
<1>5. \A e \in Told' : e = Overflow' \/ OfNow(e)'
  BY <1>2 DEF Overflow
<1>6. \A i \in DOMAIN queue' : queue'[i] = Overflow' => i = 1
  BY DEF Overflow
<1> QED
  BY <1>1, <1>3, <1>4, <1>5, <1>6 DEF RemoteTypes, Rebuilding, NoTask, NotStarted, Task, Events

-----------------------------------------------------------------------------
(* Every step of the remote watcher keeps its invariant.                   *)

Upheld == TreeTypes' /\ RemoteInv' /\ task' # NotStarted

\* The steps that read an event.
LEMMA ReadSteps ==
    ASSUME TreeTypes, RemoteInv,
           ReadCreateDirectory \/ ReadFile \/ ReadDeleteDirectory \/ ReadIgnored \/ ReadMovedFrom
    PROVE  Upheld
<1>1. RemoteTypes /\ InotifyTypeOK /\ (~Broken => Good) /\ Nothing \notin Names /\ Nothing \notin Objects
  BY NothingIsNone DEF RemoteInv
<1>2. \A o \in Objects : watchPaths[o] # Nothing => o \in used
  BY <1>1 DEF RemoteTypes
<1>3. CASE ReadCreateDirectory
  <2>1. /\ Reads("create") /\ Event.dir = Nothing /\ UNCHANGED <<disk, pending, watchPaths, pathWatches, kernel>>
        /\ Announce({PathEvent("create", <<Event.name>>)}) /\ task' = Task("watch", Event.name)
    BY <1>3 DEF ReadCreateDirectory, InTheRoot, watches
  <2>2. ~Broken /\ OfNow(Event) /\ Event.what = "create"
    BY <1>1, <2>1, ReadSeen
  <2>3. Event.name \in Names
    BY <1>1, <2>1, <2>2 DEF OfNow, Shaped, TreeTypes
  <2>4. RemoteTypes' /\ task' # NotStarted
    BY <1>1, <1>2, <2>1, <2>3, ReadTypes
  <2>5. InotifyTypeOK'
    BY <1>1, <2>1 DEF InotifyTypeOK
  <2>6. Good'
    BY <1>1, <1>3, <2>2, ReadCreateDirectoryGood
  <2> QED
    BY <2>1, <2>4, <2>5, <2>6, AnnounceTypes DEF Upheld, RemoteInv
<1>4. CASE ReadFile
  <2>1. PICK what \in {"create", "modify", "delete"} :
           /\ Reads(what)
           /\ IF Known THEN Announce({PathEvent(what, EventFile)}) ELSE UNCHANGED <<changed, known>>
    BY <1>4 DEF ReadFile
  <2>2. UNCHANGED <<disk, pending, task, watchPaths, pathWatches, kernel>>
    BY <1>4 DEF ReadFile, watches
  <2>3. ~Broken /\ RemoteTypes' /\ task' # NotStarted
    BY <1>1, <1>2, <2>1, <2>2, ReadTypes
  <2>4. InotifyTypeOK'
    BY <1>1, <2>2 DEF InotifyTypeOK
  <2>5. Good'
    BY <1>1, <1>4, <2>3, ReadFileGood
  <2>6. TreeTypes'
    BY <2>1, <2>2, AnnounceTypes
  <2> QED
    BY <2>3, <2>4, <2>5, <2>6 DEF Upheld, RemoteInv
<1>5. CASE ReadDeleteDirectory
  <2>1. /\ Reads("delete") /\ UNCHANGED <<disk, pending, task>>
        /\ Announce({PathEvent("delete", <<Event.name>>)}) /\ ForgetTree(Event.name)
    BY <1>5 DEF ReadDeleteDirectory
  <2>2. PICK S \in SUBSET Objects : Forget(S) /\ kernel' = kernel \ S
    BY <2>1 DEF ForgetTree
  <2>3. InotifyTypeOK' /\ \A o \in Objects : watchPaths'[o] # Nothing => watchPaths[o] # Nothing
    <3>1. kernel' \subseteq Objects
      BY <1>1, <2>2 DEF InotifyTypeOK
    <3> QED
      BY <1>1, <2>2, <3>1, ForgetTypes
  <2>4. ~Broken /\ RemoteTypes' /\ task' # NotStarted
    BY <1>1, <1>2, <2>1, <2>3, ReadTypes
  <2>5. Good'
    BY <1>1, <1>5, <2>4, ReadDeleteDirectoryGood
  <2> QED
    BY <2>1, <2>3, <2>4, <2>5, AnnounceTypes DEF Upheld, RemoteInv
<1>6. CASE ReadIgnored
  <2>1. /\ Reads("ignored") /\ Forget({Event.dir}) /\ UNCHANGED <<disk, changed, known, kernel, pending, task>>
    BY <1>6 DEF ReadIgnored, tree
  <2>2. {Event.dir} \in SUBSET Objects
    <3>1. OfNow(Event) /\ Event.what = "ignored"
      BY <1>1, <2>1, ReadSeen
    <3> QED
      BY <3>1 DEF OfNow, Shaped, TreeTypes
  <2>3. InotifyTypeOK' /\ \A o \in Objects : watchPaths'[o] # Nothing => watchPaths[o] # Nothing
    <3>1. kernel' \subseteq Objects
      BY <1>1, <2>1 DEF InotifyTypeOK
    <3> QED
      BY <1>1, <2>1, <2>2, <3>1, ForgetTypes
  <2>4. ~Broken /\ RemoteTypes' /\ task' # NotStarted
    BY <1>1, <1>2, <2>1, <2>3, ReadTypes
  <2>5. Good'
    BY <1>1, <1>6, <2>4, ReadIgnoredGood
  <2>6. TreeTypes'
    BY <2>1, AnnounceTypes
  <2> QED
    BY <2>3, <2>4, <2>5, <2>6 DEF Upheld, RemoteInv
<1>7. CASE ReadMovedFrom
  <2>1. /\ Reads("from") /\ UNCHANGED <<disk, changed, known, kernel, watchPaths, pathWatches, task>>
        /\ pending' = pending \cup {[cookie |-> Event.cookie, name |-> Event.name]}
    BY <1>7 DEF ReadMovedFrom, tree, watches
  <2>2. Event.name \in Names
    <3>1. OfNow(Event) /\ Event.what = "from"
      BY <1>1, <2>1, ReadSeen
    <3> QED
      BY <3>1 DEF OfNow, Shaped
  <2>3. \A m \in pending' : m \in pending \/ (m.name \in Names /\ m.cookie = Event.cookie)
    BY <2>1, <2>2
  <2>4. ~Broken /\ RemoteTypes' /\ task' # NotStarted
    BY <1>1, <1>2, <2>1, <2>3, ReadTypes
  <2>5. InotifyTypeOK'
    BY <1>1, <2>1 DEF InotifyTypeOK
  <2>6. Good'
    BY <1>1, <1>7, <2>4, ReadMovedFromGood
  <2>7. TreeTypes'
    BY <2>1, AnnounceTypes
  <2> QED
    BY <2>4, <2>5, <2>6, <2>7 DEF Upheld, RemoteInv
<1> QED
  BY <1>3, <1>4, <1>5, <1>6, <1>7

\* The second half of a rename.
LEMMA ReadMovedToStep ==
    ASSUME TreeTypes, RemoteInv, ReadMovedTo
    PROVE  Upheld
<1>1. RemoteTypes /\ InotifyTypeOK /\ (~Broken => Good) /\ Nothing \notin Names /\ Nothing \notin Objects
  BY NothingIsNone DEF RemoteInv
<1>2. \A o \in Objects : watchPaths[o] # Nothing => o \in used
  BY <1>1 DEF RemoteTypes
<1>3. /\ Reads("to") /\ UNCHANGED disk
      /\ pending' = pending \ {m \in pending : m.cookie = Event.cookie}
  BY DEF ReadMovedTo
<1>4. ~Broken /\ OfNow(Event) /\ Event.what = "to" /\ Event \in Told
  BY <1>1, <1>3, ReadSeen
<1>5. PICK n \in Names : n = Event.name
  BY <1>4 DEF OfNow, Shaped
<1>6. Good'
  BY <1>1, <1>4, ReadMovedToGood
<1>7. CASE {m \in pending : m.cookie = Event.cookie} = {}
  <2>1. /\ Announce({PathEvent("create", <<Event.name>>)}) /\ task' = Task("watch", Event.name)
        /\ UNCHANGED <<kernel, watchPaths, pathWatches>>
    BY <1>7 DEF ReadMovedTo, watches
  <2>2. RemoteTypes' /\ task' # NotStarted
    BY <1>1, <1>2, <1>3, <1>5, <2>1, ReadTypes
  <2>3. InotifyTypeOK'
    BY <1>1, <2>1 DEF InotifyTypeOK
  <2> QED
    BY <1>3, <1>6, <2>1, <2>2, <2>3, AnnounceTypes DEF Upheld, RemoteInv
<1>8. CASE {m \in pending : m.cookie = Event.cookie} # {}
  <2>1. PICK m \in pending :
           /\ Announce({MoveEvent(<<m.name>>, <<Event.name>>)}) /\ MoveWatch(m.name, Event.name)
    BY <1>8 DEF ReadMovedTo
  <2>2. task' = task
    BY <1>8 DEF ReadMovedTo
  <2>3. \A o \in Objects : watchPaths[o] # n
    BY <1>1, <1>4, <1>5 DEF Good, Kept, Unwatched, InQueue, IsIn
  <2>4. m.name \in Names /\ MoveWatch(m.name, n)
    BY <1>1, <1>5, <2>1 DEF RemoteTypes
  <2>5. InotifyTypeOK' /\ \A o \in Objects : watchPaths'[o] # Nothing => at[n] = o \/ watchPaths[o] # Nothing
    BY <1>1, <2>3, <2>4, MoveTypes
  <2>6. \A o \in Objects : watchPaths'[o] # Nothing => o \in used
    BY <1>1, <1>2, <2>5 DEF TreeTypes
  <2>7. RemoteTypes' /\ task' # NotStarted
    BY <1>1, <1>3, <2>2, <2>6, ReadTypes
  <2> QED
    BY <1>3, <1>6, <2>1, <2>5, <2>7, AnnounceTypes DEF Upheld, RemoteInv
<1> QED
  BY <1>7, <1>8

\* The steps that read nothing.
LEMMA WorkSteps ==
    ASSUME TreeTypes, RemoteInv, MoveExpires \/ AddTree \/ List
    PROVE  Upheld
<1>1. RemoteTypes /\ InotifyTypeOK /\ (~Broken => Good) /\ Nothing \notin Names /\ Nothing \notin Objects
  BY NothingIsNone DEF RemoteInv
<1>2. \A o \in Objects : watchPaths[o] # Nothing => o \in used
  BY <1>1 DEF RemoteTypes
<1>3. ASSUME queue' = queue, task.do \notin {"forget all", "watch all"}, Broken
      PROVE  Broken'
  BY <1>3 DEF Broken, Rebuilding, Told, Overflow
<1>4. CASE MoveExpires
  <2>1. PICK m \in pending : /\ pending' = pending \ {m}
                             /\ Announce({PathEvent("delete", <<m.name>>)}) /\ ForgetTree(m.name)
    BY <1>4 DEF MoveExpires
  <2>2. task = NoTask /\ UNCHANGED <<disk, queue, task>>
    BY <1>4 DEF MoveExpires
  <2>3. PICK S \in SUBSET Objects : Forget(S) /\ kernel' = kernel \ S
    BY <2>1 DEF ForgetTree
  <2>4. InotifyTypeOK' /\ \A o \in Objects : watchPaths'[o] # Nothing => watchPaths[o] # Nothing
    <3>1. kernel' \subseteq Objects
      BY <1>1, <2>3 DEF InotifyTypeOK
    <3> QED
      BY <1>1, <2>3, <3>1, ForgetTypes
  <2>5. RemoteTypes' /\ task' # NotStarted
    BY <1>1, <1>2, <2>1, <2>2, <2>4, OtherTypes
  <2>6. ~Broken' => Good'
    BY <1>1, <1>3, <1>4, <2>2, MoveExpiresGood DEF NoTask
  <2> QED
    BY <2>1, <2>2, <2>4, <2>5, <2>6, AnnounceTypes DEF Upheld, RemoteInv
<1>5. CASE AddTree
  <2>1. task.do = "watch" /\ UNCHANGED <<disk, changed, known, queue, pending>>
    BY <1>5 DEF AddTree, tree
  <2>2. PICK n \in Names : task = Task("watch", n)
    BY <1>1, <2>1, TaskOf
  <2>3. task.name = n
    BY <2>2 DEF Task
  <2>4. InotifyTypeOK' /\ (\A o \in Objects : watchPaths'[o] # Nothing => o \in used)
        /\ (task' = NoTask \/ task' = Task("list", n))
    <3>1. CASE at[n] = Nothing
      <4>1. UNCHANGED <<kernel, watchPaths, pathWatches>> /\ task' = NoTask
        BY <1>5, <2>3, <3>1 DEF AddTree, watches
      <4> QED
        BY <1>1, <1>2, <4>1 DEF InotifyTypeOK
    <3>2. CASE at[n] # Nothing
      <4>1. WatchDirectory(n) /\ task' = Task("list", n)
        BY <1>5, <2>3, <3>2 DEF AddTree
      <4>2. InotifyTypeOK' /\ \A o \in Objects : watchPaths'[o] # Nothing => o = at[n] \/ watchPaths[o] # Nothing
        BY <1>1, <3>2, <4>1, WatchTypes
      <4> QED
        BY <1>2, <3>2, <4>1, <4>2 DEF TreeTypes
    <3> QED
      BY <3>1, <3>2
  <2>5. RemoteTypes' /\ task' # NotStarted
    BY <1>1, <2>1, <2>4, OtherTypes
  <2>6. ~Broken' => Good'
    BY <1>1, <1>3, <1>5, <2>1, AddTreeGood
  <2>7. TreeTypes'
    BY <2>1, AnnounceTypes
  <2> QED
    BY <2>4, <2>5, <2>6, <2>7 DEF Upheld, RemoteInv
<1>6. CASE List
  <2>1. task.do = "list" /\ task' = NoTask /\ UNCHANGED <<disk, queue, kernel, watchPaths, pathWatches, pending>>
    BY <1>6 DEF List, watches
  <2>2. RemoteTypes' /\ task' # NotStarted
    BY <1>1, <1>2, <2>1, OtherTypes
  <2>3. InotifyTypeOK'
    BY <1>1, <2>1 DEF InotifyTypeOK
  <2>4. ~Broken' => Good'
    BY <1>1, <1>3, <1>6, <2>1, ListGood
  <2>5. TreeTypes'
    <3>1. Announce({PathEvent("create", File(task.name))}) \/ UNCHANGED <<changed, known>>
      BY <1>6 DEF List
    <3> QED
      BY <2>1, <3>1, AnnounceTypes
  <2> QED
    BY <2>2, <2>3, <2>4, <2>5 DEF Upheld, RemoteInv
<1> QED
  BY <1>4, <1>5, <1>6

\* Watches that are all new are kept both ways, and of directories in the tree.
LEMMA WatchedTypes ==
    ASSUME TreeTypes, NEW W, W = [o \in Objects |-> W[o]],
           \A o \in Objects : IF \E n \in Names : at[n] = o THEN W[o] \in Names /\ at[W[o]] = o ELSE W[o] = Nothing
    PROVE  /\ W \in [Objects -> Names \cup {Nothing}]
           /\ \A n \in Names : at[n] # Nothing => at[n] \in Objects /\ W[at[n]] = n
           /\ \A o \in Objects : W[o] # Nothing => W[o] \in Names /\ at[W[o]] = o /\ o \in used
<1>0. Nothing \notin Names /\ Nothing \notin Objects /\ at \in [Names -> Objects \cup {Nothing}]
  BY NothingIsNone DEF TreeTypes
<1>1. ASSUME NEW n \in Names, at[n] # Nothing
      PROVE  at[n] \in Objects /\ W[at[n]] = n
  <2>1. at[n] \in Objects /\ W[at[n]] \in Names /\ at[W[at[n]]] = at[n]
    BY <1>0, <1>1
  <2> QED
    BY <1>1, <2>1 DEF TreeTypes
<1>2. \A o \in Objects : W[o] # Nothing => W[o] \in Names /\ at[W[o]] = o /\ o \in used
  BY <1>0 DEF TreeTypes
<1>3. W \in [Objects -> Names \cup {Nothing}]
  <2>1. \A o \in Objects : W[o] \in Names \cup {Nothing}
    OBVIOUS
  <2> QED
    BY <2>1
<1> QED
  BY <1>1, <1>2, <1>3

\* An empty queue tells nothing.
LEMMA NoneTold ==
    ASSUME queue' = <<>>
    PROVE  queue' \in Seq(Events) /\ Told' = {} /\ DOMAIN queue' = {}
<1>1. ToSet(<<>>) = {} /\ DOMAIN <<>> = {}
  BY ToSetIs
<1>2. <<>> \in Seq(Events)
  OBVIOUS
<1>3. queue' \in Seq(Events)
  BY <1>2
<1>4. Told' = {}
  BY <1>1 DEF Told, ToSet
<1> QED
  BY <1>1, <1>3, <1>4

\* The steps that lose events, and those that start anew.
LEMMA AnewSteps ==
    ASSUME TreeTypes, RemoteInv, task # NotStarted, ReadOverflow \/ ForgetAll \/ WatchAll \/ QueueOverflows
    PROVE  Upheld
<1>1. RemoteTypes /\ InotifyTypeOK /\ (~Broken => Good) /\ Nothing \notin Names /\ Nothing \notin Objects
  BY NothingIsNone DEF RemoteInv
<1>2. \A o \in Objects : watchPaths[o] # Nothing => o \in used
  BY <1>1 DEF RemoteTypes
<1>3. queue \in Seq(Events) /\ (\A e \in Told : e = Overflow \/ OfNow(e)) /\ \A i \in DOMAIN queue : queue[i] = Overflow => i = 1
  BY <1>1 DEF RemoteTypes
<1>4. CASE ReadOverflow
  <2>1. /\ task = NoTask /\ Announce({Rescan}) /\ pending' = {} /\ task' = Task("forget all", Nothing)
        /\ UNCHANGED <<disk, kernel, watchPaths, pathWatches>>
    BY <1>4 DEF ReadOverflow, watches
  <2>2. PICK n \in 2 .. Len(queue) + 1 : queue' = SubSeq(queue, n, Len(queue))
    BY <1>4 DEF ReadOverflow
  <2>3. /\ Len(queue) \in Nat /\ n \in Int /\ n >= 2
        /\ \A i \in n .. Len(queue) : i \in DOMAIN queue /\ queue[i] \in Events /\ queue[i] \in Told /\ queue[i] # Overflow
    <3>1. /\ Len(queue) \in Nat /\ n \in Int /\ n >= 2
          /\ \A i \in n .. Len(queue) : i \in DOMAIN queue /\ queue[i] \in Events /\ i # 1
      BY <1>3
    <3> QED
      BY <1>3, <3>1 DEF Told, ToSet
  <2>4. /\ queue' \in Seq(Events \cap {e \in Told : e # Overflow})
    BY <2>2, <2>3, SubSeqProperties
  <2>5. /\ queue' \in Seq(Events) /\ Told' \subseteq Told /\ \A i \in DOMAIN queue' : queue'[i] # Overflow
    BY <2>4 DEF Told, ToSet
  <2>6. changed' = {}
    <3>1. CoversAll({Rescan}) = Paths
      BY DEF CoversAll, Covers, Rescan
    <3> QED
      BY <2>1, <3>1 DEF Announce, TreeTypes
  <2>7. task'.do = "forget all" /\ task' # NotStarted /\ task'.do # "watch all"
    BY <2>1 DEF Task, NotStarted
  <2>8. RemoteTypes'
    BY <1>1, <1>2, <1>3, <2>1, <2>5, <2>6, <2>7, AnewTypes
  <2>9. InotifyTypeOK' /\ Broken'
    BY <1>1, <2>1, <2>7 DEF InotifyTypeOK, Broken, Rebuilding
  <2> QED
    BY <2>1, <2>7, <2>8, <2>9, AnnounceTypes DEF Upheld, RemoteInv
<1>5. CASE ForgetAll
  <2>1. /\ task.do = "forget all" /\ task' = Task("watch all", Nothing) /\ queue' = <<>> /\ Forget(Objects)
        /\ kernel' = {} /\ UNCHANGED <<disk, changed, known, pending>>
    BY <1>5 DEF ForgetAll, tree
  <2>2. pending' = {} /\ changed' = {}
    BY <1>1, <2>1 DEF RemoteTypes, Rebuilding
  <2>3. task'.do = "watch all" /\ task' # NotStarted
    BY <2>1 DEF Task, NotStarted
  <2>4. InotifyTypeOK' /\ \A o \in Objects : watchPaths'[o] # Nothing => watchPaths[o] # Nothing
    BY <1>1, <2>1, ForgetTypes
  <2>5. queue' \in Seq(Events) /\ Told' = {} /\ DOMAIN queue' = {}
    BY <2>1, NoneTold
  <2>6. RemoteTypes'
    BY <1>1, <1>2, <2>1, <2>2, <2>4, <2>5, AnewTypes
  <2>7. Broken' /\ TreeTypes'
    BY <2>1, <2>3, AnnounceTypes DEF Broken, Rebuilding
  <2> QED
    BY <2>3, <2>4, <2>6, <2>7 DEF Upheld, RemoteInv
<1>6. CASE WatchAll
  <2>1. /\ queue' = <<>> /\ pending' = {} /\ changed' = {} /\ task' = NoTask /\ known' = Present /\ UNCHANGED disk
        /\ pathWatches' = at /\ kernel' = {at[n] : n \in Names} \ {Nothing}
        /\ watchPaths' = [o \in Objects |-> IF \E n \in Names : at[n] = o THEN CHOOSE n \in Names : at[n] = o ELSE Nothing]
    BY <1>1, <1>6 DEF WatchAll, RemoteTypes, Rebuilding
  <2>2. task'.do = "nothing" /\ task' # NotStarted
    BY <2>1 DEF NoTask, NotStarted, Task
  <2>3. InotifyTypeOK' /\ \A o \in Objects : watchPaths'[o] # Nothing => o \in used
    <3>1. PICK W : W = watchPaths'
      OBVIOUS
    <3>2. /\ \A o \in Objects : IF \E n \in Names : at[n] = o THEN W[o] \in Names /\ at[W[o]] = o ELSE W[o] = Nothing
          /\ W = [o \in Objects |-> W[o]]
      BY <2>1, <3>1
    <3>3. /\ W \in [Objects -> Names \cup {Nothing}]
          /\ \A n \in Names : at[n] # Nothing => at[n] \in Objects /\ W[at[n]] = n
          /\ \A o \in Objects : W[o] # Nothing => W[o] \in Names /\ at[W[o]] = o /\ o \in used
      BY <3>2, WatchedTypes
    <3>4. pathWatches' \in [Names -> Objects \cup {Nothing}] /\ kernel' \subseteq Objects
      BY <2>1, <3>3 DEF TreeTypes
    <3> QED
      BY <2>1, <3>1, <3>3, <3>4 DEF InotifyTypeOK
  <2>4. queue' \in Seq(Events) /\ Told' = {} /\ DOMAIN queue' = {}
    BY <2>1, NoneTold
  <2>5. RemoteTypes'
    BY <1>1, <2>1, <2>2, <2>3, <2>4, AnewTypes
  <2>6. Good' /\ ~Broken'
    BY <1>1, <1>6, WatchAllGood
  <2>7. TreeTypes'
    BY <2>1, PresentTypes DEF TreeTypes, disk
  <2> QED
    BY <2>2, <2>3, <2>5, <2>6, <2>7 DEF Upheld, RemoteInv
<1>7. CASE QueueOverflows
  <2>1. queue # <<>> /\ queue' = <<Overflow>> /\ UNCHANGED <<disk, changed, known, kernel, watchPaths, pathWatches, pending, task>>
    BY <1>7 DEF QueueOverflows, tree, watches
  <2>2. /\ queue' \in Seq(Events) /\ Told' = {Overflow} /\ DOMAIN queue' = {1}
    <3>1. Overflow \in Events
      BY DEF Overflow, Events
    <3>2. ToSet(<<Overflow>>) = {Overflow} /\ DOMAIN <<Overflow>> = {1}
      BY ToSetIs
    <3>3. <<Overflow>> \in Seq(Events)
      BY <3>1, ShortSeq
    <3> QED
      BY <2>1, <3>2, <3>3 DEF Told, ToSet, Events
  <2>3. task.do # "watch all"
    BY <1>1, <2>1 DEF RemoteTypes
  <2>4. task.do \in {"forget all", "watch all"} => pending' = {} /\ changed' = {}
    BY <1>1, <2>1 DEF RemoteTypes, Rebuilding
  <2>5. RemoteTypes'
    BY <1>1, <1>2, <2>1, <2>2, <2>3, <2>4, AnewTypes
  <2>6. InotifyTypeOK' /\ Broken' /\ TreeTypes'
    BY <1>1, <2>1, <2>2, AnnounceTypes DEF InotifyTypeOK, Broken, Overflow
  <2> QED
    BY <2>1, <2>5, <2>6 DEF Upheld, RemoteInv
<1> QED
  BY <1>4, <1>5, <1>6, <1>7

\* A user's change leaves the events in the queue about what they were about.
LEMMA ChangeStep ==
    ASSUME TreeTypes, RemoteInv, task # NotStarted, ~Hurried, NEW c \in Change, DiskChange(c)
    PROVE  Upheld
<1>1. RemoteTypes /\ InotifyTypeOK /\ (~Broken => Good) /\ Nothing \notin Names /\ Nothing \notin Objects
  BY NothingIsNone DEF RemoteInv
<1>2. /\ Happens(c) /\ UNCHANGED <<known, watchPaths, pathWatches, pending, task>>
      /\ kernel' = kernel \/ kernel' = kernel \ {at[c.name]}
  BY DEF DiskChange
<1>3. /\ changes' = changes + 1 /\ changes \in Nat /\ used \subseteq used'
  BY <1>2, ChangeIs DEF TreeTypes
<1>4. InotifyTypeOK'
  BY <1>1, <1>2 DEF InotifyTypeOK
<1>5. /\ \A m \in pending : m.name \in Names /\ m.cookie \in Nat /\ m.cookie < changes
      /\ \A o \in Objects : watchPaths[o] # Nothing => o \in used
      /\ \/ task \in {NoTask, NotStarted, Task("forget all", Nothing), Task("watch all", Nothing)}
         \/ \E n \in Names : task \in {Task("watch", n), Task("list", n)}
  BY <1>1 DEF RemoteTypes
<1>n. /\ \/ task' \in {NoTask, NotStarted, Task("forget all", Nothing), Task("watch all", Nothing)}
         \/ \E n \in Names : task' \in {Task("watch", n), Task("list", n)}
  BY <1>2, <1>5
<1>o. \A o \in Objects : watchPaths'[o] # Nothing => o \in used'
  BY <1>2, <1>3, <1>5
<1>m. ASSUME NEW m \in pending'
      PROVE  m.name \in Names /\ m.cookie \in Nat /\ m.cookie < changes'
  <2>1. m \in pending
    BY <1>2
  <2>2. m.name \in Names /\ m.cookie \in Nat /\ m.cookie < changes
    BY <1>5, <2>1
  <2> QED
    BY <1>3, <2>2
<1>7. queue \in Seq(Events) /\ \A i \in DOMAIN queue : queue[i] = Overflow => i = 1
  BY <1>1 DEF RemoteTypes
<1>6. ASSUME NEW e \in Told
      PROVE  e = Overflow \/ OfNow(e)'
  <2>1. e = Overflow \/ OfNow(e)
    BY <1>1 DEF RemoteTypes
  <2>2. e.cookie \in Nat
    <3>1. PICK i \in DOMAIN queue : e = queue[i]
      BY DEF Told, ToSet
    <3>2. e \in Events
      BY <1>7, <3>1
    <3> QED
      BY <3>2 DEF Events
  <2>3. OfNow(e) => OfNow(e)'
    BY <1>3, <2>2 DEF OfNow, Shaped
  <2> QED
    BY <2>1, <2>3
<1>8. CASE Rebuilding
  <2>1. queue' = queue /\ changed' = changed
    BY <1>8 DEF DiskChange
  <2>2. \A e \in Told' : e = Overflow \/ OfNow(e)'
    BY <1>6, <2>1 DEF Told
  <2>3. pending = {} /\ changed = {} /\ (task.do = "watch all" => queue = <<>>)
    BY <1>1, <1>8 DEF RemoteTypes
  <2>4. RemoteTypes'
    <3>1. \A e \in Told' : e = Overflow' \/ OfNow(e)'
      BY <2>2 DEF Overflow
    <3>2. queue' \in Seq(Events) /\ \A i \in DOMAIN queue' : queue'[i] = Overflow' => i = 1
      BY <1>7, <2>1 DEF Overflow
    <3>3. pending' = {} /\ changed' = {} /\ (task'.do = "watch all" => queue' = <<>>)
      BY <1>2, <2>1, <2>3
    <3> QED
      BY <1>n, <1>o, <1>m, <3>1, <3>2, <3>3 DEF RemoteTypes, Rebuilding, NoTask, NotStarted, Task, Events
  <2>5. TreeTypes'
    BY <1>2, <2>1, TreeMoves DEF TreeTypes
  <2>6. Broken'
    BY <1>2, <1>8 DEF Broken, Rebuilding
  <2> QED
    BY <1>2, <1>4, <2>4, <2>5, <2>6 DEF Upheld, RemoteInv
<1>9. CASE ~Rebuilding
  <2>1. queue' = queue \o KernelEvents(c) /\ changed' = changed \cup Touched(c)
    BY <1>9 DEF DiskChange
  <2>2. Telling(c, KernelEvents(c))
    BY <1>2, KernelTells
  <2> DEFINE k == KernelEvents(c)
  <2>3. k \in Seq(Events) /\ Overflow \notin ToSet(k) /\ TellsOf(c, k)
    BY <2>2 DEF Telling
  <2> HIDE DEF k
  <2>4. /\ Told' = Told \cup ToSet(k) /\ queue' \in Seq(Events)
        /\ \A i \in DOMAIN queue' : queue'[i] = Overflow => i = 1
    BY <1>7, <2>1, <2>3, AppendIs DEF k
  <2>5. ASSUME NEW e \in ToSet(k)
        PROVE  OfNow(e)'
    <3>1. e.cookie = changes /\ e.of \in used' /\ Shaped(e)
      BY <2>3 DEF TellsOf
    <3>2. Shaped(e)'
      BY <3>1 DEF Shaped
    <3> QED
      BY <1>3, <3>1, <3>2 DEF OfNow
  <2>6. \A e \in Told' : e = Overflow \/ OfNow(e)'
    BY <1>6, <2>4, <2>5
  <2>7. RemoteTypes'
    <3>1. \A e \in Told' : e = Overflow' \/ OfNow(e)'
      BY <2>6 DEF Overflow
    <3>2. queue' \in Seq(Events) /\ \A i \in DOMAIN queue' : queue'[i] = Overflow' => i = 1
      BY <2>4 DEF Overflow
    <3>3. task'.do \notin {"forget all", "watch all"}
      BY <1>2, <1>9 DEF Rebuilding
    <3> QED
      BY <1>n, <1>o, <1>m, <3>1, <3>2, <3>3 DEF RemoteTypes, Rebuilding, NoTask, NotStarted, Task, Events
  <2>8. TreeTypes'
    <3>1. changed' \subseteq Paths
      BY <1>2, <2>1, TouchedTypes DEF TreeTypes
    <3> QED
      BY <1>2, <3>1, TreeMoves DEF TreeTypes
  <2>9. ~Broken' => Good'
    <3>1. Broken => Broken'
      BY <1>9, <2>4 DEF Broken, Overflow
    <3> QED
      BY <1>1, <3>1, ChangeGood
  <2> QED
    BY <1>2, <1>4, <2>7, <2>8, <2>9 DEF Upheld, RemoteInv
<1> QED
  BY <1>8, <1>9

-----------------------------------------------------------------------------
(* The local watcher's events.                                             *)

\* The journal's events but a rescan.
LocalEvents ==
    {e \in [kind : {"create", "modify", "delete", "move"}, path : Paths, to : Paths] :
        e.kind # "move" => e.to = e.path}

\* After these, their path is gone.
Leaves(e) == e.kind \in {"delete", "move"}

\* What an event covers.
LEMMA CoversIs ==
    ASSUME NEW e \in LocalEvents, NEW p
    PROVE  /\ p \in Covers(e) => p \in Paths
           /\ ~Leaves(e) => (p \in Covers(e) <=> p = e.path)
           /\ Leaves(e) => (p \in Covers(e) <=> p \in Paths /\ \E q \in {e.path, e.to} : IsPrefix(q, p))
           /\ e # Rescan
<1>1. e.kind # "rescan" /\ e.path \in Paths
  BY DEF LocalEvents
<1> QED
  BY <1>1 DEF Covers, Leaves, Below, Rescan

\* A rescan covers every path.
LEMMA RescanCovers == Covers(Rescan) = Paths
BY DEF Covers, Rescan

\* What several events cover.
LEMMA CoversAllIs ==
    ASSUME NEW E, NEW p
    PROVE  p \in CoversAll(E) <=> \E e \in E : p \in Covers(e)
BY DEF CoversAll

\* The observer's events of a change are one or two.
LEMMA MappedIs ==
    ASSUME NEW c \in Change
    PROVE  LET d == <<c.name>>  x == File(c.name)  m == Mapped(c) IN
           /\ c.op \in {"mkdir", "move in"} => m = <<PathEvent("create", d)>>
           /\ c.op \in {"rmdir", "move out"} => m = <<PathEvent("delete", d)>>
           /\ c.op = "add" => m = <<PathEvent("create", x), PathEvent("modify", d)>>
           /\ c.op = "modify" => m = <<PathEvent("modify", x)>>
           /\ c.op = "remove" => m = <<PathEvent("delete", x), PathEvent("modify", d)>>
           /\ c.op = "move in full" => m = <<PathEvent("create", d), PathEvent("create", x)>>
           /\ c.op = "rename" /\ FileMoves(c) =>
                  m = <<MoveEvent(d, <<c.to>>), MoveEvent(x, File(c.to))>>
           /\ c.op = "rename" /\ ~FileMoves(c) => m = <<MoveEvent(d, <<c.to>>)>>
<1>1. CASE c.op \in {"mkdir", "move in"}
  BY <1>1 DEF Mapped
<1>2. CASE c.op \in {"rmdir", "move out"}
  BY <1>2 DEF Mapped
<1>3. CASE c.op = "add"
  BY <1>3 DEF Mapped
<1>4. CASE c.op = "modify"
  BY <1>4 DEF Mapped
<1>5. CASE c.op = "remove"
  BY <1>5 DEF Mapped
<1>6. CASE c.op = "move in full"
  BY <1>6 DEF Mapped
<1>7. CASE c.op = "rename"
  BY <1>7 DEF Mapped
<1>8. c.op \in Ops
  BY DEF Change
<1> QED
  BY <1>1, <1>2, <1>3, <1>4, <1>5, <1>6, <1>7, <1>8 DEF Ops

\* The events that paths and moves make.
LEMMA EventsAre ==
    ASSUME NEW p \in Paths, NEW q \in Paths
    PROVE  /\ \A k \in {"create", "modify", "delete"} :
                /\ PathEvent(k, p) \in LocalEvents
                /\ PathEvent(k, p).kind = k /\ PathEvent(k, p).path = p /\ PathEvent(k, p).to = p
           /\ MoveEvent(p, q) \in LocalEvents
           /\ MoveEvent(p, q).kind = "move" /\ MoveEvent(p, q).path = p /\ MoveEvent(p, q).to = q
BY DEF PathEvent, MoveEvent, LocalEvents

\* What the observer tells of a change: the events of a change that removes a path
\* are about a path that was there and is not now, and a path that appears is told
\* of by an event that is no repetition of one of its disappearing.
Reported(m) ==
    /\ m \in Seq(LocalEvents) /\ Len(m) \in {1, 2}
    /\ \A i \in 1..Len(m) : Leaves(m[i]) => m[i].path \in Present /\ m[i].path \notin Present'
    /\ Len(m) = 2 /\ Leaves(m[1]) => m[1] # m[2]
    /\ \A p \in Present' : p \notin Present =>
          \E i \in 1..Len(m) : \E q \in {m[i].path, m[i].to} :
              IsPrefix(q, p) /\ (Leaves(m[i]) => m[i].path # p)
CoversTouched(c, m) == \A p \in Touched(c) : \E i \in 1..Len(m) : p \in Covers(m[i])

\* The observer reports every change.
LEMMA MappedTells ==
    ASSUME TreeTypes, NEW c \in Change, Happens(c)
    PROVE  Reported(Mapped(c)) /\ CoversTouched(c, Mapped(c))
<1> DEFINE d == <<c.name>>
           x == File(c.name)
           d2 == <<c.to>>
           x2 == File(c.to)
           m == Mapped(c)
<1>0. /\ c.name \in Names /\ c.to \in Names /\ c.op \in Ops
      /\ d \in Paths /\ x \in Paths /\ d2 \in Paths /\ x2 \in Paths /\ d # x /\ d2 # x2 /\ d # x2
      /\ c.op = "rename" => d # d2 /\ x # x2
      /\ c.op # "rename" => c.to = c.name
  BY ChangeIs, BelowIs, PathsDiffer
<1>1. /\ IsPrefix(d, d) /\ IsPrefix(d, x) /\ IsPrefix(x, x)
      /\ IsPrefix(d2, d2) /\ IsPrefix(d2, x2) /\ IsPrefix(x2, x2)
  BY <1>0, PrefixIs
<1>2. ASSUME NEW p \in Present', p \notin Present
      PROVE  p \in Touched(c)
  BY <1>2, NewIsTouched
<1>3. /\ d \in Present <=> at[c.name] # Nothing
      /\ x \in Present <=> at[c.name] \in full
      /\ d \in Present' <=> at'[c.name] # Nothing
      /\ x \in Present' <=> at'[c.name] \in full'
  BY <1>0, PresentIs
<1>4. CASE c.op \in {"mkdir", "move in"}
  <2>1. m = <<PathEvent("create", d)>> /\ Touched(c) = {d}
    BY <1>0, <1>4, MappedIs DEF Touched, FileMoves
  <2>2. Reported(m)
    BY <1>0, <1>1, <1>2, <2>1, EventsAre DEF Reported, Leaves
  <2> QED
    BY <1>0, <2>1, <2>2, EventsAre, CoversIs DEF CoversTouched, Leaves
<1>5. CASE c.op = "move in full"
  <2>1. m = <<PathEvent("create", d), PathEvent("create", x)>> /\ Touched(c) = {d, x}
    BY <1>0, <1>5, MappedIs DEF Touched, FileMoves
  <2>2. Reported(m)
    BY <1>0, <1>1, <1>2, <2>1, EventsAre DEF Reported, Leaves
  <2> QED
    BY <1>0, <2>1, <2>2, EventsAre, CoversIs DEF CoversTouched, Leaves
<1>6. CASE c.op \in {"rmdir", "move out"}
  <2>1. m = <<PathEvent("delete", d)>> /\ Touched(c) \subseteq {d, x}
    BY <1>0, <1>6, MappedIs DEF Touched, FileMoves
  <2>2. d \in Present /\ d \notin Present' /\ x \notin Present'
    BY <1>3, <1>6, ChangeIs, FilesAre DEF Enters
  <2>3. Reported(m)
    BY <1>0, <1>1, <1>2, <2>1, <2>2, EventsAre DEF Reported, Leaves
  <2> QED
    BY <1>0, <1>1, <2>1, <2>3, EventsAre, CoversIs DEF CoversTouched, Leaves
<1>7. CASE c.op = "add"
  <2>1. m = <<PathEvent("create", x), PathEvent("modify", d)>> /\ Touched(c) = {x}
    BY <1>0, <1>7, MappedIs DEF Touched, FileMoves
  <2>2. Reported(m)
    BY <1>0, <1>1, <1>2, <2>1, EventsAre DEF Reported, Leaves
  <2> QED
    BY <1>0, <2>1, <2>2, EventsAre, CoversIs DEF CoversTouched, Leaves
<1>8. CASE c.op = "modify"
  <2>1. m = <<PathEvent("modify", x)>> /\ Touched(c) = {x}
    BY <1>0, <1>8, MappedIs DEF Touched, FileMoves
  <2>2. Reported(m)
    BY <1>0, <1>1, <1>2, <2>1, EventsAre DEF Reported, Leaves
  <2> QED
    BY <1>0, <2>1, <2>2, EventsAre, CoversIs DEF CoversTouched, Leaves
<1>9. CASE c.op = "remove"
  <2>1. m = <<PathEvent("delete", x), PathEvent("modify", d)>> /\ Touched(c) = {x}
    BY <1>0, <1>9, MappedIs DEF Touched, FileMoves
  <2>2. x \in Present /\ x \notin Present'
    BY <1>3, <1>9, FilesAre
  <2>3. Reported(m)
    BY <1>0, <1>1, <1>2, <2>1, <2>2, EventsAre DEF Reported, Leaves
  <2> QED
    BY <1>0, <1>1, <2>1, <2>3, EventsAre, CoversIs DEF CoversTouched, Leaves
<1>10. CASE c.op = "rename"
  <2>1. d \in Present /\ d \notin Present' /\ x \notin Present'
    BY <1>3, <1>10, ChangeIs, FilesAre DEF Enters
  <2>2. CASE FileMoves(c)
    <3>1. m = <<MoveEvent(d, d2), MoveEvent(x, x2)>> /\ Touched(c) = {d, d2, x, x2}
      BY <1>0, <1>10, <2>2, MappedIs DEF Touched
    <3>2. x \in Present
      BY <1>3, <1>10, <2>2 DEF FileMoves
    <3>3. Reported(m)
      BY <1>0, <1>1, <1>2, <2>1, <3>1, <3>2, EventsAre DEF Reported, Leaves
    <3> QED
      BY <1>0, <1>1, <3>1, <3>3, EventsAre, CoversIs DEF CoversTouched, Leaves
  <2>3. CASE ~FileMoves(c)
    <3>1. m = <<MoveEvent(d, d2)>> /\ Touched(c) = {d, d2}
      BY <1>0, <1>10, <2>3, MappedIs DEF Touched
    <3>3. Reported(m)
      BY <1>0, <1>1, <1>2, <2>1, <3>1, EventsAre DEF Reported, Leaves
    <3> QED
      BY <1>0, <1>1, <3>1, <3>3, EventsAre, CoversIs DEF CoversTouched, Leaves
  <2> QED
    BY <2>2, <2>3
<1> QED
  BY <1>0, <1>4, <1>5, <1>6, <1>7, <1>8, <1>9, <1>10 DEF Ops

-----------------------------------------------------------------------------
(* The local watcher's invariant.                                          *)

LocalTypes ==
    /\ inbox \in Seq(LocalEvents \cup {Rescan})
    /\ debounce \subseteq [event : LocalEvents, pending : BOOLEAN, recent : BOOLEAN, gen : Nat]
    /\ generation \in Nat /\ lost \in Nat
    /\ \A s \in debounce : s.gen <= generation
    /\ stage # "closed" => flush = {}
    /\ stage # "on" => inbox = <<>>

\* What makes a repetition of the event news again.
Undoes(e, f) == e = Rescan \/ Supersedes(e, f)

\* The event is in the debounce (0) or at a place of the inbox.
Standing(i, e) == IF i = 0 THEN \E s \in debounce : s.event = e ELSE inbox[i] = e

\* After the disappearance of a path and before the next, or before it is there
\* again, there is an event in the inbox that undoes the first. So none is held back.
Chained ==
    \A i \in 0..Len(inbox), e \in LocalEvents : Leaves(e) /\ Standing(i, e) =>
        /\ e.path \in Present => \E j \in (i + 1)..Len(inbox) : Undoes(inbox[j], e)
        /\ \A k \in (i + 1)..Len(inbox) : inbox[k] = e => \E j \in (i + 1)..(k - 1) : Undoes(inbox[j], e)
NoneHeld == \A s \in debounce : Leaves(s.event) => ~s.pending

\* A lost history is reported, if it is the first.
OneReport ==
    /\ \A i \in 1..Len(inbox) : inbox[i] = Rescan => i = 1 /\ (lost <= 1 => ~unhealthy)
    /\ lost = 0 => ~unhealthy /\ \A i \in 1..Len(inbox) : inbox[i] # Rescan

LocalInv ==
    /\ LocalTypes /\ LocalTypeOK /\ OneReport
    /\ lost <= 1 => (stage = "on" => Chained) /\ NoneHeld /\ LocalChangesAnnounced

\* What the debounce does with an event.
LEMMA DebounceIs ==
    ASSUME LocalTypes, LocalTypeOK, NEW e \in LocalEvents, Debounce(e)
    PROVE  /\ debounce' \subseteq [event : LocalEvents, pending : BOOLEAN, recent : BOOLEAN, gen : Nat]
           /\ generation' \in Nat /\ \A s \in debounce' : s.gen <= generation'
           /\ \A s, t \in debounce' : s.event = t.event => s = t
           /\ \A s, t \in debounce' : s.pending /\ t.pending /\ s.gen = t.gen => s = t
           /\ \A s \in debounce' : s.event # e => s \in debounce /\ ~Supersedes(e, s.event)
           /\ \A s \in debounce : s.pending /\ s.event # e => Supersedes(e, s.event) \/ s \in debounce'
           /\ \/ Announce({e}) /\ \A s \in debounce' : s.event = e => ~s.pending
              \/ /\ UNCHANGED <<changed, known>> /\ \E s \in debounce : s.event = e
                 /\ \E s \in debounce' : s.event = e /\ s.pending
<1> DEFINE kept == {s \in debounce : ~Supersedes(e, s.event)}
           mine == {s \in kept : s.event = e}
           new == Entry(e, FALSE, 0)
           held == Entry(e, TRUE, generation + 1)
           Entries == [event : LocalEvents, pending : BOOLEAN, recent : BOOLEAN, gen : Nat]
<1>0. /\ debounce \subseteq Entries /\ generation \in Nat
      /\ \A s \in debounce : s.gen <= generation /\ s.gen \in Nat
      /\ \A s, t \in debounce : s.event = t.event => s = t
      /\ \A s, t \in debounce : s.pending /\ t.pending /\ s.gen = t.gen => s = t
  BY DEF LocalTypes, LocalTypeOK
<1>1. /\ new \in Entries /\ held \in Entries
      /\ new.event = e /\ ~new.pending /\ new.gen = 0
      /\ held.event = e /\ held.pending /\ held.gen = generation + 1
  BY <1>0 DEF Entry
<1>2. /\ kept \subseteq debounce /\ mine \subseteq kept
      /\ \A s \in debounce : s.event = e => s \in mine
      /\ \A s \in mine : s.event = e
      /\ \A s \in kept : ~Supersedes(e, s.event)
      /\ \A s \in debounce : s \in kept \/ Supersedes(e, s.event)
  BY DEF Supersedes
<1>3. CASE \A s \in mine : ~s.recent
  <2>1. debounce' = (kept \ mine) \cup {new} /\ Announce({e}) /\ generation' = generation
    BY <1>3 DEF Debounce
  <2> HIDE DEF kept, mine, new, held, Entries
  <2>2. debounce' \subseteq Entries /\ \A s \in debounce' : s.gen <= generation'
    BY <1>0, <1>1, <1>2, <2>1
  <2>3. \A s, t \in debounce' : s.event = t.event => s = t
    BY <1>0, <1>1, <1>2, <2>1
  <2>4. \A s, t \in debounce' : s.pending /\ t.pending /\ s.gen = t.gen => s = t
    BY <1>0, <1>1, <1>2, <2>1
  <2>5. /\ \A s \in debounce' : s.event # e => s \in debounce /\ ~Supersedes(e, s.event)
        /\ \A s \in debounce : s.pending /\ s.event # e => Supersedes(e, s.event) \/ s \in debounce'
        /\ \A s \in debounce' : s.event = e => ~s.pending
    BY <1>1, <1>2, <2>1
  <2> QED
    BY <1>0, <2>1, <2>2, <2>3, <2>4, <2>5 DEF Entries
<1>4. CASE \E s \in mine : s.recent
  <2>1. /\ UNCHANGED <<changed, known>>
        /\ IF e \in Pending THEN debounce' = kept /\ generation' = generation
           ELSE generation' = generation + 1 /\ debounce' = (kept \ mine) \cup {held}
    BY <1>4 DEF Debounce
  <2>2. CASE e \in Pending
    <3>1. \E s \in debounce : s.event = e /\ s.pending
      BY <2>2 DEF Pending
    <3>2. debounce' = kept /\ generation' = generation
      BY <2>1, <2>2
    <3> HIDE DEF kept, mine, new, held, Entries
    <3> QED
      BY <1>0, <1>2, <2>1, <3>1, <3>2 DEF Entries
  <2>3. CASE e \notin Pending
    <3>1. debounce' = (kept \ mine) \cup {held} /\ generation' = generation + 1
      BY <2>1, <2>3
    <3> HIDE DEF kept, mine, new, held, Entries
    <3>2. debounce' \subseteq Entries /\ generation' \in Nat /\ \A s \in debounce' : s.gen <= generation'
      BY <1>0, <1>1, <1>2, <3>1
    <3>3. \A s, t \in debounce' : s.event = t.event => s = t
      BY <1>0, <1>1, <1>2, <3>1
    <3>4. \A s, t \in debounce' : s.pending /\ t.pending /\ s.gen = t.gen => s = t
      BY <1>0, <1>1, <1>2, <3>1
    <3>5. /\ \A s \in debounce' : s.event # e => s \in debounce /\ ~Supersedes(e, s.event)
          /\ \A s \in debounce : s.pending /\ s.event # e => Supersedes(e, s.event) \/ s \in debounce'
          /\ \E s \in debounce' : s.event = e /\ s.pending
          /\ \E s \in debounce : s.event = e
      BY <1>1, <1>2, <1>4, <3>1
    <3> QED
      BY <2>1, <3>2, <3>3, <3>4, <3>5 DEF Entries
  <2> QED
    BY <2>2, <2>3
<1> QED
  BY <1>3, <1>4

\* Bookkeeping of the local watcher keeps its types.
LEMMA LocalTypesStay ==
    ASSUME LocalTypes, LocalTypeOK, LocalNext, TreeTypes
    PROVE  LocalTypes' /\ LocalTypeOK'
<1>0. /\ inbox \in Seq(LocalEvents \cup {Rescan})
      /\ inbox # <<>> => Tail(inbox) \in Seq(LocalEvents \cup {Rescan}) /\ Head(inbox) \in LocalEvents \cup {Rescan}
  BY DEF LocalTypes
<1>1. CASE \E c \in Change : LocalChange(c)
  <2>1. PICK c \in Change : LocalChange(c)
    BY <1>1
  <2>2. Mapped(c) \in Seq(LocalEvents \cup {Rescan})
    BY <2>1, MappedTells DEF LocalChange, Reported
  <2> QED
    BY <1>0, <2>1, <2>2 DEF LocalChange, LocalTypes, LocalTypeOK
<1>2. CASE HistoryLost
  BY <1>2 DEF HistoryLost, LocalTypes, LocalTypeOK
<1>3. CASE Dispatch
  <2>1. Head(inbox) \in LocalEvents
    BY <1>0, <1>3 DEF Dispatch
  <2> DEFINE e == Head(inbox)
  <2>2. Debounce(e) /\ inbox' = Tail(inbox) /\ inbox # <<>>
    BY <1>3 DEF Dispatch
  <2>3. UNCHANGED <<lost, stage, flush>> /\ unhealthy' = FALSE /\ stage = "on"
    BY <1>3 DEF Dispatch
  <2> HIDE DEF e
  <2>4. e \in LocalEvents
    BY <2>1 DEF e
  <2> QED
    BY <1>0, <2>2, <2>3, <2>4, DebounceIs DEF LocalTypes, LocalTypeOK
<1>4. CASE ReportUnhealthy
  <2>1. debounce' \subseteq debounce /\ UNCHANGED <<generation, lost, stage, flush>> /\ unhealthy' = TRUE
    BY <1>4 DEF ReportUnhealthy
  <2>2. stage = "on" /\ inbox' = Tail(inbox) /\ inbox # <<>>
    BY <1>4 DEF ReportUnhealthy
  <2> QED
    BY <1>0, <2>1, <2>2 DEF LocalTypes, LocalTypeOK
<1>5. CASE PeriodicAudit
  BY <1>5 DEF PeriodicAudit, LocalTypes, LocalTypeOK
<1>6. CASE IntervalPasses
  <2>1. PICK s \in debounce : debounce' = (debounce \ {s}) \cup (IF s.pending THEN {[s EXCEPT !.recent = FALSE]} ELSE {})
    BY <1>6 DEF IntervalPasses
  <2> DEFINE t == [s EXCEPT !.recent = FALSE]
  <2>2. /\ t \in [event : LocalEvents, pending : BOOLEAN, recent : BOOLEAN, gen : Nat]
        /\ t.event = s.event /\ t.pending = s.pending /\ t.gen = s.gen
    BY DEF LocalTypes
  <2>3. UNCHANGED <<inbox, generation, unhealthy, stage, flush, lost>>
    BY <1>6 DEF IntervalPasses
  <2>4. debounce' \subseteq (debounce \ {s}) \cup {t} /\ (stage \in {"closed", "stopped"} => debounce = {})
    BY <2>1 DEF LocalTypeOK
  <2> HIDE DEF t
  <2> QED
    BY <2>2, <2>3, <2>4 DEF LocalTypes, LocalTypeOK
<1>7. CASE Fire
  BY <1>7 DEF Fire, LocalTypes, LocalTypeOK
<1>8. CASE EmitTrailing
  <2>1. PICK t \in due :
          LET mine == {s \in debounce : s.event = t.event /\ s.gen = t.gen /\ s.pending} IN
          IF mine = {} THEN UNCHANGED <<changed, known, debounce>>
          ELSE debounce' = (debounce \ mine) \cup {Entry(t.event, FALSE, 0)} /\ Announce({t.event})
    BY <1>8 DEF EmitTrailing
  <2> DEFINE mine == {s \in debounce : s.event = t.event /\ s.gen = t.gen /\ s.pending}
             new == Entry(t.event, FALSE, 0)
  <2>2. UNCHANGED <<inbox, generation, unhealthy, stage, flush, lost>>
    BY <1>8 DEF EmitTrailing
  <2>3. CASE mine = {}
    BY <2>1, <2>2, <2>3 DEF LocalTypes, LocalTypeOK
  <2>4. CASE mine # {}
    <3>1. debounce' = (debounce \ mine) \cup {new}
      BY <2>1, <2>4
    <3>2. PICK s \in debounce : s.event = t.event
      BY <2>4
    <3>3. \A u \in debounce : u.event = t.event => u \in mine
      <4>1. \A u, v \in debounce : u.event = v.event => u = v
        BY DEF LocalTypeOK
      <4> QED
        BY <2>4, <4>1
    <3>4. t.event \in LocalEvents
      BY <3>2 DEF LocalTypes
    <3>5. /\ new \in [event : LocalEvents, pending : BOOLEAN, recent : BOOLEAN, gen : Nat]
          /\ new.event = t.event /\ ~new.pending /\ new.gen = 0
      BY <3>4 DEF Entry
    <3>6. debounce # {}
      BY <3>2
    <3> HIDE DEF mine, new
    <3>7. \A u \in debounce' : u = new \/ (u \in debounce /\ u.event # new.event)
      BY <3>1, <3>3, <3>5
    <3>8. \A u, v \in debounce' : u.event = v.event => u = v
      BY <3>7 DEF LocalTypeOK
    <3>9. \A u, v \in debounce' : u.pending /\ v.pending /\ u.gen = v.gen => u = v
      BY <3>5, <3>7 DEF LocalTypeOK
    <3>10. LocalTypes'
      BY <2>2, <3>5, <3>7 DEF LocalTypes
    <3> QED
      BY <2>2, <3>6, <3>8, <3>9, <3>10 DEF LocalTypeOK
  <2> QED
    BY <2>3, <2>4
<1>9. CASE StopObserver
  <2>1. stage = "on" /\ stage' = "observer gone" /\ inbox' = <<>>
    BY <1>9 DEF StopObserver
  <2>2. UNCHANGED <<debounce, generation, unhealthy, flush, lost>>
    BY <1>9 DEF StopObserver
  <2>3. <<>> \in Seq(LocalEvents \cup {Rescan})
    OBVIOUS
  <2>4. LocalTypes'
    BY <2>1, <2>2, <2>3 DEF LocalTypes
  <2>5. LocalTypeOK'
    BY <2>1, <2>2 DEF LocalTypeOK
  <2> QED
    BY <2>4, <2>5
<1>10. CASE CloseDebounce
  BY <1>10 DEF CloseDebounce, LocalTypes, LocalTypeOK
<1>11. CASE Flush
  BY <1>11 DEF Flush, LocalTypes, LocalTypeOK
<1> QED
  BY <1>1, <1>2, <1>3, <1>4, <1>5, <1>6, <1>7, <1>8, <1>9, <1>10, <1>11 DEF LocalNext, LocalWorks

\* Sequences, element by element.
LEMMA TailIs ==
    ASSUME NEW S, NEW s \in Seq(S), s # <<>>
    PROVE  /\ Len(s) \in Nat /\ Len(s) >= 1 /\ Len(Tail(s)) = Len(s) - 1 /\ Head(s) = s[1]
           /\ \A i \in 1..Len(Tail(s)) : Tail(s)[i] = s[i + 1]
OBVIOUS

\* What is in two sequences put together.
LEMMA ConcatIs ==
    ASSUME NEW S, NEW s \in Seq(S), NEW t \in Seq(S)
    PROVE  /\ Len(s) \in Nat /\ Len(t) \in Nat /\ Len(s \o t) = Len(s) + Len(t)
           /\ \A i \in 1..Len(s) : (s \o t)[i] = s[i]
           /\ \A i \in 1..Len(t) : (s \o t)[Len(s) + i] = t[i]
           /\ \A i \in (Len(s) + 1)..Len(s \o t) : i - Len(s) \in 1..Len(t) /\ (s \o t)[i] = t[i - Len(s)]
OBVIOUS

\* No other event is a rescan.
LEMMA NoRescan ==
    ASSUME NEW e \in LocalEvents
    PROVE  e # Rescan
BY DEF LocalEvents, Rescan

\* The first lost history is reported before another one can be.
LEMMA OneReportStays ==
    ASSUME TreeTypes, LocalTypes, OneReport, LocalNext
    PROVE  OneReport'
<1> DEFINE Delivered == LocalEvents \cup {Rescan}
<1>0. inbox \in Seq(Delivered) /\ lost \in Nat
  BY DEF LocalTypes
<1>1. CASE \E c \in Change : LocalChange(c)
  <2>1. PICK c \in Change : LocalChange(c)
    BY <1>1
  <2>2. /\ Mapped(c) \in Seq(LocalEvents) /\ inbox' = inbox \o Mapped(c)
        /\ UNCHANGED <<unhealthy, lost>>
    BY <2>1, MappedTells DEF LocalChange, Reported
  <2> DEFINE m == Mapped(c)
  <2>3. m \in Seq(Delivered) /\ \A i \in 1..Len(m) : m[i] # Rescan
    BY <2>2, NoRescan
  <2> HIDE DEF m, Delivered
  <2>4. /\ Len(inbox) \in Nat /\ Len(m) \in Nat /\ Len(inbox') = Len(inbox) + Len(m)
        /\ \A i \in 1..Len(inbox) : inbox'[i] = inbox[i]
        /\ \A i \in (Len(inbox) + 1)..Len(inbox') : i - Len(inbox) \in 1..Len(m) /\ inbox'[i] = m[i - Len(inbox)]
    BY <1>0, <2>2, <2>3, ConcatIs DEF m
  <2>5. \A i \in 1..Len(inbox') : inbox'[i] = Rescan => i \in 1..Len(inbox) /\ inbox[i] = Rescan
    <3>1. ASSUME NEW i \in 1..Len(inbox'), i \notin 1..Len(inbox)
          PROVE  inbox'[i] # Rescan
      <4>1. i \in (Len(inbox) + 1)..Len(inbox')
        BY <2>4, <3>1
      <4> QED
        BY <2>3, <2>4, <4>1
    <3> QED
      BY <2>4, <3>1
  <2> QED
    BY <2>2, <2>5 DEF OneReport
<1>2. CASE HistoryLost
  <2>1. inbox' = <<Rescan>> /\ lost' = lost + 1 /\ unhealthy' = unhealthy
    BY <1>2 DEF HistoryLost
  <2> QED
    BY <1>0, <2>1 DEF OneReport
<1>3. CASE Dispatch \/ ReportUnhealthy
  <2>1. inbox # <<>> /\ inbox' = Tail(inbox) /\ lost' = lost /\ (unhealthy' = FALSE \/ Head(inbox) = Rescan)
    BY <1>3 DEF Dispatch, ReportUnhealthy
  <2>2. /\ Len(inbox) \in Nat /\ Len(inbox) >= 1 /\ Len(inbox') = Len(inbox) - 1 /\ Head(inbox) = inbox[1]
        /\ \A i \in 1..Len(inbox') : inbox'[i] = inbox[i + 1]
    BY <1>0, <2>1, TailIs
  <2>3. \A i \in 1..Len(inbox') : inbox'[i] # Rescan
    BY <2>2 DEF OneReport
  <2> QED
    BY <2>1, <2>2, <2>3 DEF OneReport
<1>4. CASE PeriodicAudit \/ IntervalPasses \/ Fire \/ EmitTrailing \/ CloseDebounce \/ Flush
  <2>1. UNCHANGED <<inbox, lost, unhealthy>>
    BY <1>4 DEF PeriodicAudit, IntervalPasses, Fire, EmitTrailing, CloseDebounce, Flush
  <2> QED
    BY <2>1 DEF OneReport
<1>5. CASE StopObserver
  <2>1. inbox' = <<>> /\ UNCHANGED <<lost, unhealthy>>
    BY <1>5 DEF StopObserver
  <2> QED
    BY <2>1 DEF OneReport
<1> QED
  BY <1>1, <1>2, <1>3, <1>4, <1>5 DEF LocalNext, LocalWorks

\* What is held back is never a disappearance: between two of the same path comes an
\* event that forgets the first.
LEMMA NoneHeldStays ==
    ASSUME LocalTypes, LocalTypeOK, stage = "on" => Chained, NoneHeld, LocalNext
    PROVE  NoneHeld'
<1>1. CASE Dispatch
  <2> DEFINE e == Head(inbox)
  <2>1. /\ inbox # <<>> /\ e # Rescan /\ Debounce(e) /\ stage = "on"
        /\ inbox \in Seq(LocalEvents \cup {Rescan})
    BY <1>1 DEF Dispatch, LocalTypes
  <2>2. Len(inbox) \in Nat /\ Len(inbox) >= 1 /\ e = inbox[1]
    BY <2>1, TailIs
  <2>3. e \in LocalEvents
    BY <2>1
  <2> HIDE DEF e
  <2>4. ASSUME NEW s \in debounce', Leaves(s.event), s.pending
        PROVE  FALSE
    <3>1. s.event = e
      BY <2>1, <2>3, <2>4, DebounceIs DEF NoneHeld
    <3>2. \E t \in debounce : t.event = e
      BY <2>1, <2>3, <2>4, <3>1, DebounceIs
    <3>3. Standing(0, e) /\ 0 \in 0..Len(inbox) /\ 1 \in (0 + 1)..Len(inbox)
      BY <2>2, <3>2 DEF Standing
    <3>4. \E j \in (0 + 1)..(1 - 1) : Undoes(inbox[j], e)
      BY <2>1, <2>2, <2>3, <2>4, <3>1, <3>3 DEF Chained
    <3> QED
      BY <3>4
  <2> QED
    BY <2>4 DEF NoneHeld
<1>2. CASE EmitTrailing
  <2>1. PICK t \in due :
          LET mine == {s \in debounce : s.event = t.event /\ s.gen = t.gen /\ s.pending} IN
          IF mine = {} THEN UNCHANGED <<changed, known, debounce>>
          ELSE debounce' = (debounce \ mine) \cup {Entry(t.event, FALSE, 0)} /\ Announce({t.event})
    BY <1>2 DEF EmitTrailing
  <2>2. ~Entry(t.event, FALSE, 0).pending
    BY DEF Entry
  <2>3. \A s \in debounce' : s \in debounce \/ s = Entry(t.event, FALSE, 0)
    BY <2>1
  <2> QED
    BY <2>2, <2>3 DEF NoneHeld
<1>3. CASE IntervalPasses
  <2>1. PICK s \in debounce : debounce' = (debounce \ {s}) \cup (IF s.pending THEN {[s EXCEPT !.recent = FALSE]} ELSE {})
    BY <1>3 DEF IntervalPasses
  <2> DEFINE t == [s EXCEPT !.recent = FALSE]
  <2>2. t.event = s.event /\ t.pending = s.pending
    BY DEF LocalTypes
  <2>3. \A u \in debounce' : u \in debounce \/ u = t
    BY <2>1
  <2> HIDE DEF t
  <2> QED
    BY <2>2, <2>3 DEF NoneHeld
<1>4. CASE (\E c \in Change : LocalChange(c)) \/ HistoryLost \/ ReportUnhealthy \/ PeriodicAudit
            \/ Fire \/ StopObserver \/ CloseDebounce \/ Flush
  <2>1. debounce' \subseteq debounce
    BY <1>4 DEF LocalChange, HistoryLost, ReportUnhealthy, PeriodicAudit, Fire, StopObserver, CloseDebounce, Flush
  <2> QED
    BY <2>1 DEF NoneHeld
<1> QED
  BY <1>1, <1>2, <1>3, <1>4 DEF LocalNext, LocalWorks

\* The chain after a step.
LEMMA ChainNext ==
    ASSUME \A i \in 0..Len(inbox'), e \in LocalEvents : Leaves(e) /\ Standing(i, e)' =>
              /\ e.path \in Present' => \E j \in (i + 1)..Len(inbox') : Undoes(inbox'[j], e)
              /\ \A k \in (i + 1)..Len(inbox') : inbox'[k] = e =>
                    \E j \in (i + 1)..(k - 1) : Undoes(inbox'[j], e)
    PROVE  Chained'
BY DEF Chained, Undoes, Supersedes

\* Taking an event from the inbox moves the rest; what stands in the debounce then
\* stood there before, without the event undoing it, or is the event.
LEMMA ChainMoves ==
    ASSUME LocalTypes, Chained, inbox # <<>>, inbox' = Tail(inbox),
           \A s \in debounce' :
               \/ s.event = Head(inbox)
               \/ ~Undoes(Head(inbox), s.event) /\ \E t \in debounce : t.event = s.event,
           Present' = Present
    PROVE  Chained'
<1>0. /\ Len(inbox) \in Nat /\ Len(inbox) >= 1 /\ Len(inbox') = Len(inbox) - 1 /\ Head(inbox) = inbox[1]
      /\ \A i \in 1..Len(inbox') : inbox'[i] = inbox[i + 1]
  BY TailIs DEF LocalTypes
<1>1. SUFFICES ASSUME NEW i \in 0..Len(inbox'), NEW e \in LocalEvents, Leaves(e), Standing(i, e)'
               PROVE  /\ e.path \in Present' => \E j \in (i + 1)..Len(inbox') : Undoes(inbox'[j], e)
                      /\ \A k \in (i + 1)..Len(inbox') : inbox'[k] = e =>
                            \E j \in (i + 1)..(k - 1) : Undoes(inbox'[j], e)
  BY ChainNext
<1>2. PICK h \in {0, i + 1} :
         Standing(h, e) /\ h \in 0..Len(inbox) /\ (h = 0 => i = 0 /\ ~Undoes(inbox[1], e))
  <2>1. CASE i # 0
    <3>1. inbox'[i] = e /\ i \in 1..Len(inbox')
      BY <1>1, <2>1 DEF Standing
    <3>2. Standing(i + 1, e) /\ i + 1 \in 0..Len(inbox) /\ i + 1 # 0
      BY <1>0, <3>1 DEF Standing
    <3> QED
      BY <3>2
  <2>2. CASE i = 0
    <3>1. PICK s \in debounce' : s.event = e
      BY <1>1, <2>2 DEF Standing
    <3>2. CASE e = inbox[1]
      <4>1. Standing(i + 1, e) /\ i + 1 \in 0..Len(inbox) /\ i + 1 # 0
        BY <1>0, <2>2, <3>2 DEF Standing
      <4> QED
        BY <4>1
    <3>3. CASE ~Undoes(inbox[1], e) /\ \E t \in debounce : t.event = e
      <4>1. Standing(0, e) /\ 0 \in 0..Len(inbox)
        BY <1>0, <3>3 DEF Standing
      <4> QED
        BY <2>2, <3>3, <4>1
    <3> QED
      BY <1>0, <3>1, <3>2, <3>3
  <2> QED
    BY <2>1, <2>2
<1>3. \A j \in (h + 1)..Len(inbox) : Undoes(inbox[j], e) =>
         j - 1 \in (i + 1)..Len(inbox') /\ Undoes(inbox'[j - 1], e)
  <2>1. ASSUME NEW j \in (h + 1)..Len(inbox), Undoes(inbox[j], e)
        PROVE  j - 1 \in (i + 1)..Len(inbox') /\ inbox'[j - 1] = inbox[j]
    <3>1. h = 0 => j # 1
      BY <1>2, <2>1
    <3>2. j - 1 \in (i + 1)..Len(inbox')
      BY <1>0, <1>2, <2>1, <3>1
    <3> QED
      BY <1>0, <3>2
  <2> QED
    BY <2>1
<1>4. e.path \in Present' => \E j \in (i + 1)..Len(inbox') : Undoes(inbox'[j], e)
  <2>1. e.path \in Present => \E j \in (h + 1)..Len(inbox) : Undoes(inbox[j], e)
    BY <1>1, <1>2 DEF Chained
  <2> QED
    BY <1>3, <2>1
<1>5. ASSUME NEW k \in (i + 1)..Len(inbox'), inbox'[k] = e
      PROVE  \E j \in (i + 1)..(k - 1) : Undoes(inbox'[j], e)
  <2>1. inbox[k + 1] = e /\ k + 1 \in (h + 1)..Len(inbox)
    BY <1>0, <1>2, <1>5
  <2>2. PICK j \in (h + 1)..((k + 1) - 1) : Undoes(inbox[j], e)
    BY <1>1, <1>2, <2>1 DEF Chained
  <2>3. j \in (h + 1)..Len(inbox)
    BY <1>0, <2>1, <2>2
  <2>4. j - 1 \in (i + 1)..(k - 1) /\ Undoes(inbox'[j - 1], e)
    BY <1>0, <1>2, <1>3, <2>2, <2>3
  <2> QED
    BY <2>4
<1> QED
  BY <1>4, <1>5

\* A change adds its events; what it makes appear undoes what stands of its disappearance.
LEMMA ChainGrows ==
    ASSUME TreeTypes, LocalTypes, Chained, NEW c \in Change, LocalChange(c)
    PROVE  Chained'
<1> DEFINE m == Mapped(c)
<1>0. /\ m \in Seq(LocalEvents) /\ inbox \in Seq(LocalEvents \cup {Rescan})
      /\ Len(m) \in {1, 2} /\ Reported(m)
      /\ inbox' = inbox \o m /\ debounce' = debounce
  BY MappedTells DEF LocalChange, Reported, LocalTypes
<1>1. /\ \A i \in 1..Len(m) : Leaves(m[i]) => m[i].path \in Present /\ m[i].path \notin Present'
      /\ Len(m) = 2 /\ Leaves(m[1]) => m[1] # m[2]
      /\ \A p \in Present' : p \notin Present =>
            \E i \in 1..Len(m) : \E q \in {m[i].path, m[i].to} :
                IsPrefix(q, p) /\ (Leaves(m[i]) => m[i].path # p)
  BY <1>0 DEF Reported
<1>2. m \in Seq(LocalEvents \cup {Rescan})
  BY <1>0
<1> HIDE DEF m
<1>3. /\ Len(inbox) \in Nat /\ Len(m) \in Nat /\ Len(inbox') = Len(inbox) + Len(m)
      /\ \A i \in 1..Len(inbox) : inbox'[i] = inbox[i]
      /\ \A i \in 1..Len(m) : inbox'[Len(inbox) + i] = m[i]
      /\ \A i \in (Len(inbox) + 1)..Len(inbox') : i - Len(inbox) \in 1..Len(m) /\ inbox'[i] = m[i - Len(inbox)]
  BY <1>0, <1>2, ConcatIs
<1>4. SUFFICES ASSUME NEW i \in 0..Len(inbox'), NEW e \in LocalEvents, Leaves(e), Standing(i, e)'
               PROVE  /\ e.path \in Present' => \E j \in (i + 1)..Len(inbox') : Undoes(inbox'[j], e)
                      /\ \A k \in (i + 1)..Len(inbox') : inbox'[k] = e =>
                            \E j \in (i + 1)..(k - 1) : Undoes(inbox'[j], e)
  BY DEF Chained, Undoes, Supersedes
<1>5. CASE i \in 0..Len(inbox)
  <2>1. Standing(i, e)
    BY <1>0, <1>3, <1>4, <1>5 DEF Standing
  <2>2. ASSUME e.path \in Present
        PROVE  \E j \in (i + 1)..Len(inbox) : Undoes(inbox[j], e)
    BY <1>4, <1>5, <2>1, <2>2 DEF Chained
  <2>3. \A k \in (i + 1)..Len(inbox) : inbox[k] = e => \E j \in (i + 1)..(k - 1) : Undoes(inbox[j], e)
    BY <1>4, <1>5, <2>1 DEF Chained
  <2>4. \A j \in (i + 1)..Len(inbox) : j \in (i + 1)..Len(inbox') /\ inbox'[j] = inbox[j]
    BY <1>3, <1>5
  <2>5. ASSUME e.path \in Present'
        PROVE  \E j \in (i + 1)..Len(inbox') : Undoes(inbox'[j], e)
    <3>1. CASE e.path \in Present
      <4>1. PICK j \in (i + 1)..Len(inbox) : Undoes(inbox[j], e)
        BY <2>2, <3>1
      <4>2. j \in (i + 1)..Len(inbox') /\ inbox'[j] = inbox[j]
        BY <2>4
      <4> QED
        BY <4>1, <4>2
    <3>2. CASE e.path \notin Present
      <4>1. PICK l \in 1..Len(m) : \E q \in {m[l].path, m[l].to} :
                IsPrefix(q, e.path) /\ (Leaves(m[l]) => m[l].path # e.path)
        BY <1>1, <2>5, <3>2
      <4>2. m[l] # e
        BY <1>4, <4>1
      <4>3. Supersedes(m[l], e)
        BY <1>4, <4>1, <4>2 DEF Supersedes, EventPaths, Overlap, SameOrBelow, Leaves
      <4>4. Len(inbox) + l \in (i + 1)..Len(inbox') /\ inbox'[Len(inbox) + l] = m[l]
        BY <1>3, <1>5
      <4> QED
        BY <4>3, <4>4 DEF Undoes
    <3> QED
      BY <3>1, <3>2
  <2>6. ASSUME NEW k \in (i + 1)..Len(inbox'), inbox'[k] = e
        PROVE  \E j \in (i + 1)..(k - 1) : Undoes(inbox'[j], e)
    <3>1. CASE k \in (i + 1)..Len(inbox)
      <4>1. inbox[k] = e
        BY <2>4, <2>6, <3>1
      <4>2. PICK j \in (i + 1)..(k - 1) : Undoes(inbox[j], e)
        BY <2>3, <3>1, <4>1
      <4>3. j \in (i + 1)..Len(inbox)
        BY <1>3, <1>5, <3>1, <4>2
      <4> QED
        BY <2>4, <4>2, <4>3
    <3>2. CASE k \notin (i + 1)..Len(inbox)
      <4>1. k \in (Len(inbox) + 1)..Len(inbox')
        BY <1>3, <1>5, <2>6, <3>2
      <4>2. k - Len(inbox) \in 1..Len(m) /\ e = m[k - Len(inbox)]
        BY <1>3, <2>6, <4>1
      <4>3. e.path \in Present
        BY <1>1, <1>4, <4>2
      <4>4. PICK j \in (i + 1)..Len(inbox) : Undoes(inbox[j], e)
        BY <2>2, <4>3
      <4>5. j \in (i + 1)..(k - 1) /\ inbox'[j] = inbox[j]
        BY <1>3, <1>5, <2>4, <4>1, <4>4
      <4> QED
        BY <4>4, <4>5
    <3> QED
      BY <3>1, <3>2
  <2> QED
    BY <2>5, <2>6
<1>6. CASE i \notin 0..Len(inbox)
  <2>1. i \in (Len(inbox) + 1)..Len(inbox') /\ i # 0
    BY <1>3, <1>4, <1>6
  <2>2. i - Len(inbox) \in 1..Len(m) /\ e = m[i - Len(inbox)]
    BY <1>3, <1>4, <2>1 DEF Standing
  <2>3. e.path \notin Present'
    BY <1>1, <1>4, <2>2
  <2>4. ASSUME NEW k \in (i + 1)..Len(inbox'), inbox'[k] = e
        PROVE  FALSE
    <3>1. k \in (Len(inbox) + 1)..Len(inbox')
      BY <1>3, <2>1, <2>4
    <3>2. k - Len(inbox) \in 1..Len(m) /\ e = m[k - Len(inbox)]
      BY <1>3, <2>4, <3>1
    <3>3. i - Len(inbox) < k - Len(inbox)
      BY <1>3, <2>1, <2>4
    <3>4. Len(m) = 2 /\ i - Len(inbox) = 1 /\ k - Len(inbox) = 2
      BY <1>0, <2>2, <3>2, <3>3
    <3> QED
      BY <1>1, <1>4, <2>2, <3>2, <3>4
  <2> QED
    BY <2>3, <2>4
<1> QED
  BY <1>5, <1>6

\* Disappearances stay apart.
LEMMA ChainStays ==
    ASSUME TreeTypes, LocalTypes, LocalTypeOK, OneReport, lost <= 1, stage = "on", Chained,
           LocalNext, stage' = "on"
    PROVE  Chained'
<1>1. CASE \E c \in Change : LocalChange(c)
  BY <1>1, ChainGrows
<1>2. CASE HistoryLost
  <2>1. inbox' = <<Rescan>> /\ Len(inbox') = 1 /\ inbox'[1] = Rescan
    BY <1>2 DEF HistoryLost
  <2>2. ASSUME NEW i \in 0..Len(inbox'), NEW e \in LocalEvents, Leaves(e), Standing(i, e)'
        PROVE  /\ e.path \in Present' => \E j \in (i + 1)..Len(inbox') : Undoes(inbox'[j], e)
               /\ \A k \in (i + 1)..Len(inbox') : inbox'[k] = e => \E j \in (i + 1)..(k - 1) : Undoes(inbox'[j], e)
    <3>1. i = 0
      BY <2>1, <2>2, NoRescan DEF Standing
    <3>2. 1 \in (i + 1)..Len(inbox') /\ Undoes(inbox'[1], e)
      BY <2>1, <3>1 DEF Undoes
    <3>3. \A k \in (i + 1)..Len(inbox') : inbox'[k] # e
      BY <2>1, <3>1, NoRescan
    <3> QED
      BY <3>2, <3>3
  <2> QED
    BY <2>2 DEF Chained, Undoes, Supersedes
<1>3. CASE Dispatch
  <2> DEFINE e == Head(inbox)
  <2>1. /\ inbox # <<>> /\ inbox' = Tail(inbox) /\ e # Rescan /\ Debounce(e) /\ UNCHANGED disk
        /\ inbox \in Seq(LocalEvents \cup {Rescan})
    BY <1>3 DEF Dispatch, LocalTypes
  <2>2. e \in LocalEvents
    BY <2>1, TailIs
  <2>3. Present' = Present
    BY <2>1 DEF Present, disk
  <2>4. \A s \in debounce' : s.event = e \/ (~Undoes(e, s.event) /\ \E t \in debounce : t.event = s.event)
    BY <2>1, <2>2, DebounceIs DEF Undoes
  <2> QED
    BY <2>1, <2>3, <2>4, ChainMoves
<1>4. CASE ReportUnhealthy
  <2>1. /\ inbox # <<>> /\ inbox' = Tail(inbox) /\ Head(inbox) = Rescan /\ UNCHANGED disk
        /\ inbox \in Seq(LocalEvents \cup {Rescan})
        /\ IF unhealthy THEN debounce' = debounce ELSE debounce' = {}
    BY <1>4 DEF ReportUnhealthy, LocalTypes
  <2>2. ~unhealthy
    BY <2>1, TailIs DEF OneReport
  <2>3. Present' = Present
    BY <2>1 DEF Present, disk
  <2> QED
    BY <2>1, <2>2, <2>3, ChainMoves
<1>5. CASE PeriodicAudit \/ IntervalPasses \/ Fire \/ EmitTrailing
  <2>1. inbox' = inbox /\ Present' = Present
    BY <1>5 DEF PeriodicAudit, IntervalPasses, Fire, EmitTrailing, Present, disk, tree
  <2>2. ASSUME NEW s \in debounce'
        PROVE  \E t \in debounce : t.event = s.event
    <3>1. CASE IntervalPasses
      <4>1. PICK u \in debounce :
               debounce' = (debounce \ {u}) \cup (IF u.pending THEN {[u EXCEPT !.recent = FALSE]} ELSE {})
        BY <3>1 DEF IntervalPasses
      <4>2. [u EXCEPT !.recent = FALSE].event = u.event
        BY DEF LocalTypes
      <4> QED
        BY <2>2, <4>1, <4>2
    <3>2. CASE EmitTrailing
      <4>1. PICK t \in due :
              LET mine == {u \in debounce : u.event = t.event /\ u.gen = t.gen /\ u.pending} IN
              IF mine = {} THEN UNCHANGED <<changed, known, debounce>>
              ELSE debounce' = (debounce \ mine) \cup {Entry(t.event, FALSE, 0)} /\ Announce({t.event})
        BY <3>2 DEF EmitTrailing
      <4>2. Entry(t.event, FALSE, 0).event = t.event
        BY DEF Entry
      <4> QED
        BY <2>2, <4>1, <4>2
    <3>3. CASE PeriodicAudit \/ Fire
      BY <2>2, <3>3 DEF PeriodicAudit, Fire
    <3> QED
      BY <1>5, <3>1, <3>2, <3>3
  <2>3. \A i \in 0..Len(inbox), e \in LocalEvents : Standing(i, e)' => Standing(i, e)
    BY <2>1, <2>2 DEF Standing
  <2>4. \A f, e : Undoes(f, e)' <=> Undoes(f, e)
    BY DEF Undoes, Supersedes
  <2>5. ASSUME NEW i \in 0..Len(inbox), NEW e \in LocalEvents, Leaves(e), Standing(i, e)
        PROVE  /\ e.path \in Present => \E j \in (i + 1)..Len(inbox) : Undoes(inbox[j], e)
               /\ \A k \in (i + 1)..Len(inbox) : inbox[k] = e => \E j \in (i + 1)..(k - 1) : Undoes(inbox[j], e)
    BY <2>5 DEF Chained
  <2> QED
    BY <2>1, <2>3, <2>5 DEF Chained
<1>6. CASE StopObserver \/ CloseDebounce \/ Flush
  BY <1>6 DEF StopObserver, CloseDebounce, Flush
<1> QED
  BY <1>1, <1>2, <1>3, <1>4, <1>5, <1>6 DEF LocalNext, LocalWorks

\* What is waiting to be journaled.
Waiting == ToSet(inbox) \cup Pending \cup flush

\* The tree stays one under the local watcher.
LEMMA LocalTree ==
    ASSUME TreeTypes, LocalNext
    PROVE  TreeTypes'
<1>1. CASE \E c \in Change : LocalChange(c)
  <2>1. PICK c \in Change : LocalChange(c)
    BY <1>1
  <2>2. Happens(c) /\ changed' = changed \cup Touched(c) /\ known' = known
    BY <2>1 DEF LocalChange
  <2>3. changed' \subseteq Paths /\ known' \subseteq Paths
    BY <2>2, TouchedTypes DEF TreeTypes
  <2> QED
    BY <2>2, <2>3, TreeMoves
<1>2. CASE Dispatch
  <2>1. UNCHANGED disk /\ Debounce(Head(inbox))
    BY <1>2 DEF Dispatch
  <2>2. Announce({Head(inbox)}) \/ UNCHANGED <<changed, known>>
    BY <2>1 DEF Debounce
  <2> QED
    BY <2>1, <2>2, AnnounceTypes
<1>3. CASE ReportUnhealthy \/ PeriodicAudit
  <2>1. UNCHANGED disk /\ (Announce({Rescan}) \/ UNCHANGED <<changed, known>>)
    BY <1>3 DEF ReportUnhealthy, PeriodicAudit
  <2> QED
    BY <2>1, AnnounceTypes
<1>4. CASE EmitTrailing
  <2>1. PICK t \in due : Announce({t.event}) \/ UNCHANGED <<changed, known>>
    BY <1>4 DEF EmitTrailing
  <2>2. UNCHANGED disk
    BY <1>4 DEF EmitTrailing
  <2> QED
    BY <2>1, <2>2, AnnounceTypes
<1>5. CASE Flush
  <2>1. UNCHANGED disk /\ Announce(flush)
    BY <1>5 DEF Flush
  <2> QED
    BY <2>1, AnnounceTypes
<1>6. CASE HistoryLost \/ IntervalPasses \/ Fire \/ StopObserver \/ CloseDebounce
  <2>1. UNCHANGED <<disk, known>> /\ changed' \subseteq changed
    BY <1>6 DEF HistoryLost, IntervalPasses, Fire, StopObserver, CloseDebounce, tree
  <2> QED
    BY <2>1 DEF TreeTypes, disk
<1> QED
  BY <1>1, <1>2, <1>3, <1>4, <1>5, <1>6 DEF LocalNext, LocalWorks

\* Taking the first event keeps what the others cover.
LEMMA Delivered ==
    ASSUME LocalTypes, inbox # <<>>, inbox' = Tail(inbox), NEW w \in ToSet(inbox), w # Head(inbox)
    PROVE  w \in ToSet(inbox')
<1>1. /\ Len(inbox) \in Nat /\ Len(inbox) >= 1 /\ Len(inbox') = Len(inbox) - 1 /\ Head(inbox) = inbox[1]
      /\ \A i \in 1..Len(inbox') : inbox'[i] = inbox[i + 1]
  BY TailIs DEF LocalTypes
<1>2. PICK i \in 1..Len(inbox) : w = inbox[i]
  BY DEF ToSet, LocalTypes
<1>3. i - 1 \in 1..Len(inbox') /\ inbox'[i - 1] = w
  BY <1>1, <1>2
<1>4. inbox' \in Seq(LocalEvents \cup {Rescan})
  BY DEF LocalTypes
<1>5. i - 1 \in DOMAIN inbox'
  BY <1>3, <1>4
<1> QED
  BY <1>3, <1>5 DEF ToSet

\* What supersedes an event that is held back is about all it was about.
LEMMA SupersededCovered ==
    ASSUME NEW e \in LocalEvents, NEW f \in LocalEvents, Supersedes(e, f), ~Leaves(f), NEW p \in Covers(f)
    PROVE  p \in Covers(e)
<1>1. p = f.path /\ p \in Paths /\ f.to = f.path
  BY CoversIs DEF LocalEvents, Leaves
<1>2. Leaves(e) /\ \E q \in {e.path, e.to} : IsPrefix(q, p)
  BY <1>1 DEF Supersedes, EventPaths, SameOrBelow, Leaves
<1> QED
  BY <1>1, <1>2, CoversIs

\* Everything owed stays covered by what is waiting.
LEMMA LocalCovered ==
    ASSUME TreeTypes, LocalTypes, LocalTypeOK, OneReport, NoneHeld, lost <= 1, lost' <= 1,
           Owed \subseteq CoversAll(Waiting), LocalNext
    PROVE  (Owed \subseteq CoversAll(Waiting))'
<1>0. SUFFICES ASSUME NEW p \in Owed'
               PROVE  \E e \in Waiting' : p \in Covers(e)
  <2>1. \A p \in Owed' : p \in CoversAll(Waiting')
    BY <1>0, CoversAllIs
  <2>2. CoversAll(Waiting)' = CoversAll(Waiting')
    BY DEF CoversAll, Covers, Below
  <2> QED
    BY <2>1, <2>2
<1>1. Owed \subseteq Paths
  BY DEF Owed, TreeTypes
<1>2. p \in Owed => \E e \in Waiting : p \in Covers(e)
  BY CoversAllIs
<1>3. CASE \E c \in Change : LocalChange(c)
  <2>1. PICK c \in Change : LocalChange(c)
    BY <1>3
  <2> DEFINE m == Mapped(c)
  <2>2. /\ m \in Seq(LocalEvents) /\ inbox' = inbox \o m /\ UNCHANGED <<debounce, flush, known>> /\ Happens(c)
        /\ changed' = changed \cup Touched(c) /\ CoversTouched(c, m)
    BY <2>1, MappedTells DEF LocalChange, Reported
  <2> HIDE DEF m
  <2>3. /\ inbox \in Seq(LocalEvents \cup {Rescan}) /\ m \in Seq(LocalEvents \cup {Rescan})
        /\ inbox' \in Seq(LocalEvents \cup {Rescan})
    BY <2>2 DEF LocalTypes
  <2>4. /\ Len(inbox) \in Nat /\ Len(m) \in Nat /\ Len(inbox') = Len(inbox) + Len(m)
        /\ \A i \in 1..Len(inbox) : inbox'[i] = inbox[i]
        /\ \A i \in 1..Len(m) : inbox'[Len(inbox) + i] = m[i]
    BY <2>2, <2>3, ConcatIs
  <2>5. DOMAIN inbox' = 1..Len(inbox') /\ DOMAIN inbox = 1..Len(inbox)
    BY <2>3
  <2>6. \A e \in ToSet(inbox) : e \in ToSet(inbox')
    BY <2>4, <2>5 DEF ToSet
  <2>7. \A i \in 1..Len(m) : m[i] \in ToSet(inbox')
    <3>1. ASSUME NEW i \in 1..Len(m)
          PROVE  Len(inbox) + i \in 1..Len(inbox') /\ inbox'[Len(inbox) + i] = m[i]
      BY <2>4
    <3> QED
      BY <2>5, <3>1 DEF ToSet
  <2>8. CASE p \in Touched(c)
    BY <2>2, <2>7, <2>8 DEF CoversTouched, Waiting
  <2>9. CASE p \notin Touched(c)
    <3>1. p \in Owed
      BY <2>2, <2>9, NewIsTouched DEF Owed
    <3>2. Pending' = Pending
      BY <2>2 DEF Pending
    <3> QED
      BY <1>2, <2>2, <2>6, <3>1, <3>2 DEF Waiting
  <2> QED
    BY <2>8, <2>9
<1>4. CASE HistoryLost
  <2>1. inbox' = <<Rescan>> /\ UNCHANGED tree
    BY <1>4 DEF HistoryLost
  <2>2. Owed' = Owed
    BY <2>1 DEF Owed, Present, tree, disk
  <2>3. Rescan \in ToSet(inbox')
    <3>1. 1 \in DOMAIN inbox' /\ inbox'[1] = Rescan
      BY <2>1
    <3> QED
      BY <3>1 DEF ToSet
  <2>4. p \in Covers(Rescan)
    BY <1>1, <2>2, RescanCovers
  <2> QED
    BY <2>3, <2>4 DEF Waiting
<1>5. CASE Dispatch
  <2> DEFINE e == Head(inbox)
  <2>1. /\ inbox # <<>> /\ inbox' = Tail(inbox) /\ e # Rescan /\ Debounce(e) /\ UNCHANGED <<disk, flush>>
        /\ inbox \in Seq(LocalEvents \cup {Rescan}) /\ stage = "on"
    BY <1>5 DEF Dispatch, LocalTypes
  <2>2. e \in LocalEvents
    BY <2>1, TailIs
  <2>3. \A w \in ToSet(inbox) : w # e => w \in ToSet(inbox')
    BY <2>1, Delivered
  <2>4. flush = {}
    BY <2>1 DEF LocalTypes
  <2> HIDE DEF e
  <2>5. CASE p \in Covers(e)
    <3>1. ~Announce({e})
      <4>1. Announce({e}) => p \notin CoversAll({e})
        BY <2>1, AnnounceOwes
      <4> QED
        BY <2>5, <4>1, CoversAllIs
    <3>2. \E s \in debounce' : s.event = e /\ s.pending
      BY <2>1, <2>2, <3>1, DebounceIs
    <3>3. e \in Pending'
      BY <3>2 DEF Pending
    <3> QED
      BY <2>5, <3>3 DEF Waiting
  <2>6. CASE p \notin Covers(e)
    <3>1. p \in Owed
      <4>1. CASE Announce({e})
        BY <2>1, <4>1, AnnounceOwes
      <4>2. CASE UNCHANGED <<changed, known>>
        BY <2>1, <4>2 DEF Owed, Present, disk
      <4> QED
        BY <2>1, <2>2, <4>1, <4>2, DebounceIs
    <3>2. PICK w \in Waiting : p \in Covers(w)
      BY <1>2, <3>1
    <3>3. CASE w \in ToSet(inbox)
      BY <2>3, <2>6, <3>2, <3>3 DEF Waiting
    <3>4. CASE w \in Pending
      <4>1. PICK s \in debounce : s.event = w /\ s.pending
        BY <3>4 DEF Pending
      <4>2. w \in LocalEvents /\ ~Leaves(w) /\ w # e
        BY <2>6, <3>2, <4>1 DEF LocalTypes, NoneHeld
      <4>3. ~Supersedes(e, w)
        BY <2>2, <2>6, <3>2, <4>2, SupersededCovered
      <4>4. s \in debounce'
        BY <2>1, <2>2, <4>1, <4>2, <4>3, DebounceIs
      <4>5. w \in Pending'
        BY <4>1, <4>4 DEF Pending
      <4> QED
        BY <3>2, <4>5 DEF Waiting
    <3> QED
      BY <2>4, <3>2, <3>3, <3>4 DEF Waiting
  <2> QED
    BY <2>5, <2>6
<1>6. CASE ReportUnhealthy
  <2>1. /\ inbox # <<>> /\ Head(inbox) = Rescan /\ UNCHANGED disk
        /\ inbox \in Seq(LocalEvents \cup {Rescan})
        /\ ~unhealthy => Announce({Rescan})
    BY <1>6 DEF ReportUnhealthy, LocalTypes
  <2>2. Announce({Rescan})
    BY <2>1, TailIs DEF OneReport
  <2>3. p \in Owed /\ p \notin CoversAll({Rescan})
    BY <2>1, <2>2, AnnounceOwes
  <2> QED
    BY <1>1, <2>3, CoversAllIs, RescanCovers
<1>7. CASE PeriodicAudit
  <2>1. Announce({Rescan}) /\ UNCHANGED disk
    BY <1>7 DEF PeriodicAudit
  <2>3. p \in Owed /\ p \notin CoversAll({Rescan})
    BY <2>1, AnnounceOwes
  <2> QED
    BY <1>1, <2>3, CoversAllIs, RescanCovers
<1>8. CASE IntervalPasses \/ Fire
  <2>1. UNCHANGED <<tree, inbox, flush>>
    BY <1>8 DEF IntervalPasses, Fire
  <2>2. p \in Owed
    BY <2>1 DEF Owed, Present, tree, disk
  <2>3. \A w \in Pending : w \in Pending'
    <3>1. CASE Fire
      BY <3>1 DEF Fire, Pending
    <3>2. CASE IntervalPasses
      <4>1. PICK s \in debounce :
               debounce' = (debounce \ {s}) \cup (IF s.pending THEN {[s EXCEPT !.recent = FALSE]} ELSE {})
        BY <3>2 DEF IntervalPasses
      <4> DEFINE t == [s EXCEPT !.recent = FALSE]
      <4>2. t.event = s.event /\ t.pending = s.pending
        BY DEF LocalTypes
      <4>3. s.pending => t \in debounce'
        BY <4>1
      <4>4. \A u \in debounce : u = s \/ u \in debounce'
        BY <4>1
      <4> HIDE DEF t
      <4>5. ASSUME NEW u \in debounce, u.pending
            PROVE  \E v \in debounce' : v.event = u.event /\ v.pending
        BY <4>2, <4>3, <4>4, <4>5
      <4> QED
        BY <4>5 DEF Pending
    <3> QED
      BY <1>8, <3>1, <3>2
  <2> QED
    BY <1>2, <2>1, <2>2, <2>3 DEF Waiting
<1>9. CASE EmitTrailing
  <2>1. PICK t \in due :
          LET mine == {s \in debounce : s.event = t.event /\ s.gen = t.gen /\ s.pending} IN
          IF mine = {} THEN UNCHANGED <<changed, known, debounce>>
          ELSE debounce' = (debounce \ mine) \cup {Entry(t.event, FALSE, 0)} /\ Announce({t.event})
    BY <1>9 DEF EmitTrailing
  <2>2. UNCHANGED <<disk, inbox, flush>>
    BY <1>9 DEF EmitTrailing
  <2>3. CASE Announce({t.event}) /\ \A s \in debounce : s.event = t.event \/ s \in debounce'
    <3>1. p \in Owed /\ p \notin Covers(t.event)
      <4>1. p \in Owed /\ p \notin CoversAll({t.event})
        BY <2>2, <2>3, AnnounceOwes
      <4> QED
        BY <4>1, CoversAllIs
    <3>2. PICK w \in Waiting : p \in Covers(w)
      BY <1>2, <3>1
    <3>3. w \in Pending => w \in Pending'
      BY <2>3, <3>1, <3>2 DEF Pending
    <3> QED
      BY <2>2, <3>2, <3>3 DEF Waiting
  <2>4. CASE UNCHANGED <<changed, known, debounce>>
    <3>1. p \in Owed
      BY <2>2, <2>4 DEF Owed, Present, disk
    <3>2. Waiting' = Waiting
      BY <2>2, <2>4 DEF Waiting, Pending
    <3> QED
      BY <1>2, <3>1, <3>2
  <2> QED
    BY <2>1, <2>3, <2>4
<1>10. CASE StopObserver
  <2>1. /\ changed' = changed \cap CoversAll(Pending) /\ UNCHANGED debounce
    BY <1>10 DEF StopObserver
  <2>2. p \in CoversAll(Pending) /\ Pending' = Pending
    BY <2>1 DEF Owed, Pending
  <2> QED
    BY <2>2, CoversAllIs DEF Waiting
<1>11. CASE CloseDebounce
  <2>1. flush' = Pending /\ UNCHANGED tree /\ stage = "observer gone"
    BY <1>11 DEF CloseDebounce
  <2>2. p \in Owed
    BY <2>1 DEF Owed, Present, tree, disk
  <2>3. inbox = <<>> /\ flush = {}
    BY <2>1 DEF LocalTypes
  <2>4. ToSet(inbox) = {}
    BY <2>3 DEF ToSet
  <2> QED
    BY <1>2, <2>1, <2>2, <2>3, <2>4 DEF Waiting
<1>12. CASE Flush
  <2>1. Announce(flush) /\ UNCHANGED <<disk, inbox, debounce>>
    BY <1>12 DEF Flush
  <2>2. p \in Owed /\ p \notin CoversAll(flush)
    BY <2>1, AnnounceOwes
  <2>3. Pending' = Pending
    BY <2>1 DEF Pending
  <2> QED
    BY <1>2, <2>1, <2>2, <2>3, CoversAllIs DEF Waiting
<1> QED
  BY <1>3, <1>4, <1>5, <1>6, <1>7, <1>8, <1>9, <1>10, <1>11, <1>12 DEF LocalNext, LocalWorks

\* A second lost history is not the first.
LEMMA OneMoreLost ==
    ASSUME lost \in Nat, lost' = lost + 1, lost' <= 1
    PROVE  lost <= 1
OBVIOUS

\* A step of the local watcher keeps its invariant.
LEMMA LocalStep ==
    ASSUME TreeTypes, LocalInv, stage # "not started", LocalNext
    PROVE  LocalInv' /\ stage' # "not started"
<1>1. LocalTypes' /\ LocalTypeOK' /\ OneReport'
  BY LocalTypesStay, OneReportStays DEF LocalInv
<1>2. /\ lost \in Nat /\ (lost' <= 1 => lost <= 1) /\ stage' # "not started"
      /\ stage' = "on" => stage = "on"
  <2>1. lost \in Nat
    BY DEF LocalInv, LocalTypes
  <2>2. CASE \E c \in Change : LocalChange(c)
    BY <2>1, <2>2 DEF LocalChange
  <2>3. CASE HistoryLost
    <3>1. lost' = lost + 1 /\ stage' = stage
      BY <2>3 DEF HistoryLost
    <3>2. lost' <= 1 => lost <= 1
      BY <2>1, <3>1, OneMoreLost
    <3>3. stage' # "not started" /\ (stage' = "on" => stage = "on")
      BY <3>1
    <3> QED
      BY <2>1, <3>2, <3>3
  <2>4. CASE Dispatch \/ ReportUnhealthy \/ PeriodicAudit \/ IntervalPasses \/ Fire \/ EmitTrailing
    <3>1. lost' = lost /\ stage' = stage
      BY <2>4 DEF Dispatch, ReportUnhealthy, PeriodicAudit, IntervalPasses, Fire, EmitTrailing
    <3> QED
      BY <2>1, <3>1
  <2>5. CASE StopObserver \/ CloseDebounce \/ Flush
    <3>1. lost' = lost /\ stage' \in {"observer gone", "closed", "stopped"}
      BY <2>5 DEF StopObserver, CloseDebounce, Flush
    <3> QED
      BY <2>1, <3>1
  <2> QED
    BY <2>2, <2>3, <2>4, <2>5 DEF LocalNext, LocalWorks
<1>3. ASSUME lost' <= 1
      PROVE  (stage' = "on" => Chained') /\ NoneHeld' /\ LocalChangesAnnounced'
  <2>1. /\ lost <= 1 /\ (stage = "on" => Chained) /\ NoneHeld /\ LocalChangesAnnounced
        /\ LocalTypes /\ LocalTypeOK /\ OneReport
    BY <1>2, <1>3 DEF LocalInv
  <2>2. Owed \subseteq CoversAll(Waiting)
    BY <2>1 DEF LocalChangesAnnounced, Waiting
  <2>3. (Owed \subseteq CoversAll(Waiting))'
    BY <1>3, <2>1, <2>2, LocalCovered
  <2>4. LocalChangesAnnounced'
    BY <2>3 DEF LocalChangesAnnounced, Waiting
  <2>5. stage' = "on" => Chained'
    BY <1>2, <2>1, ChainStays
  <2>6. NoneHeld'
    BY <2>1, NoneHeldStays
  <2> QED
    BY <2>4, <2>5, <2>6
<1> QED
  BY <1>1, <1>2, <1>3 DEF LocalInv

-----------------------------------------------------------------------------
(* The start.                                                              *)

\* Nothing is owed at the start.
LEMMA TreeStarts ==
    ASSUME TreeInit
    PROVE  TreeTypes /\ Owed = {} /\ \A n \in Names : File(n) \in known => at[n] # Nothing
<1>1. /\ at \in [Names -> Objects \cup {Nothing}] /\ used = {at[n] : n \in Names} \ {Nothing} /\ full \subseteq used
      /\ \A n, m \in Names : at[n] = at[m] /\ at[n] # Nothing => n = m
      /\ changes = 0 /\ changed = {} /\ known = Present /\ Nothing \notin Names /\ Nothing \notin Objects
  BY NothingIsNone DEF TreeInit
<1>2. TreeTypes
  <2>1. used \subseteq Objects /\ \A o \in full : o \in Objects /\ \E n \in Names : at[n] = o
    BY <1>1
  <2>2. \A n \in Names : at[n] # Nothing => at[n] \in used
    BY <1>1
  <2> QED
    BY <1>1, <2>1, <2>2, PresentTypes DEF TreeTypes
<1>3. \A n \in Names : File(n) \in known => at[n] # Nothing
  BY <1>1, PresentIs
<1> QED
  BY <1>1, <1>2, <1>3 DEF Owed

\* The watches of the tree as it is found.
LEMMA RemoteStarts ==
    ASSUME TreeInit, InotifyInit
    PROVE  RemoteInv
<1>1. /\ queue = <<>> /\ pending = {} /\ changed = {} /\ task \in {NotStarted, NoTask} /\ pathWatches = at
      /\ kernel = used /\ Nothing \notin Names /\ Nothing \notin Objects /\ used = {at[n] : n \in Names} \ {Nothing}
      /\ watchPaths = [o \in Objects |-> IF \E n \in Names : at[n] = o THEN CHOOSE n \in Names : at[n] = o ELSE Nothing]
  BY NothingIsNone DEF InotifyInit, TreeInit
<1>2. TreeTypes /\ Owed = {} /\ \A n \in Names : File(n) \in known => at[n] # Nothing
  BY TreeStarts
<1>3. Told = {} /\ DOMAIN queue = {} /\ queue \in Seq(Events)
  <2>1. ToSet(<<>>) = {} /\ DOMAIN <<>> = {}
    BY ToSetIs
  <2>2. <<>> \in Seq(Events)
    OBVIOUS
  <2>3. queue \in Seq(Events)
    BY <1>1, <2>2
  <2>4. Told = {} /\ DOMAIN queue = {}
    BY <1>1, <2>1 DEF Told
  <2> QED
    BY <2>3, <2>4
<1>4. /\ watchPaths \in [Objects -> Names \cup {Nothing}]
      /\ \A n \in Names : at[n] # Nothing => at[n] \in Objects /\ watchPaths[at[n]] = n
      /\ \A o \in Objects : watchPaths[o] # Nothing => watchPaths[o] \in Names /\ at[watchPaths[o]] = o /\ o \in used
  <2>1. PICK W : W = watchPaths
    OBVIOUS
  <2>2. /\ \A o \in Objects : IF \E n \in Names : at[n] = o THEN W[o] \in Names /\ at[W[o]] = o ELSE W[o] = Nothing
        /\ W = [o \in Objects |-> W[o]]
    BY <1>1, <2>1
  <2>3. /\ W \in [Objects -> Names \cup {Nothing}]
        /\ \A n \in Names : at[n] # Nothing => at[n] \in Objects /\ W[at[n]] = n
        /\ \A o \in Objects : W[o] # Nothing => W[o] \in Names /\ at[W[o]] = o /\ o \in used
    BY <1>2, <2>2, WatchedTypes
  <2> QED
    BY <2>1, <2>3
<1>5. task.name = Nothing /\ task.do \in {"nothing", "not started"}
  <2>1. CASE task = NoTask
    BY <2>1 DEF NoTask
  <2>2. CASE task = NotStarted
    BY <2>2 DEF NotStarted, Task
  <2> QED
    BY <1>1, <2>1, <2>2
<1>6. RemoteTypes
  BY <1>1, <1>3, <1>4, <1>5 DEF RemoteTypes, Rebuilding
<1>7. InotifyTypeOK
  BY <1>1, <1>2, <1>4 DEF InotifyTypeOK, TreeTypes
<1>8. \A k \in Names : ~InQueue(k) /\ ~Left(k) /\ ~Entered(k) /\ ~Unwatched(k)
  <2>1. ASSUME NEW k \in Names
        PROVE  ~InQueue(k) /\ ~OutQueue(k) /\ ~Half(k) /\ task.name # k /\ task # Task("watch", k)
    <3>1. Task("watch", k).do = "watch"
      BY DEF Task
    <3> QED
      BY <1>1, <1>3, <1>5, <3>1 DEF InQueue, OutQueue, Half
  <2> QED
    BY <2>1 DEF Left, Entered, Unwatched
<1>9. InOrder /\ Halves /\ Ends /\ Appears /\ Goes
  BY <1>1, <1>3, <1>5, <1>8 DEF InOrder, Halves, Ends, Appears, Goes
<1>10. Kept /\ Watched
  BY <1>1, <1>4, <1>8 DEF Kept, Watched
<1>11. Unsaid /\ ToCome
  BY <1>1, <1>2, <1>8 DEF Unsaid, ToCome
<1> QED
  BY <1>6, <1>7, <1>9, <1>10, <1>11 DEF RemoteInv, Good

\* The local watcher has nothing to deliver at the start.
LEMMA LocalStarts ==
    ASSUME TreeInit, LocalInit
    PROVE  LocalInv
<1>1. /\ inbox = <<>> /\ debounce = {} /\ generation = 0 /\ unhealthy = FALSE
      /\ stage \in {"not started", "on"} /\ flush = {} /\ lost = 0 /\ Owed = {}
  BY TreeStarts DEF LocalInit
<1>2. inbox \in Seq(LocalEvents \cup {Rescan}) /\ Len(inbox) = 0
  <2>1. <<>> \in Seq(LocalEvents \cup {Rescan}) /\ Len(<<>>) = 0
    OBVIOUS
  <2> QED
    BY <1>1, <2>1
<1>3. LocalTypes /\ LocalTypeOK /\ OneReport
  <2>1. LocalTypes
    <3>1. debounce \subseteq [event : LocalEvents, pending : BOOLEAN, recent : BOOLEAN, gen : Nat]
      BY <1>1
    <3> QED
      BY <1>1, <1>2, <3>1 DEF LocalTypes
  <2>2. \A i \in 1..Len(inbox) : FALSE
    <3>1. \A i \in 1..0 : FALSE
      OBVIOUS
    <3> QED
      BY <1>2, <3>1
  <2>3. OneReport
    BY <1>1, <2>2 DEF OneReport
  <2>4. LocalTypeOK
    BY <1>1 DEF LocalTypeOK
  <2> QED
    BY <2>1, <2>3, <2>4
<1>4. Chained
  <2>1. ASSUME NEW i \in 0..Len(inbox), NEW e
        PROVE  ~Standing(i, e)
    <3>1. i = 0
      <4>1. i \in 0..0
        BY <1>2
      <4> QED
        BY <4>1
    <3> QED
      BY <1>1, <3>1 DEF Standing
  <2> QED
    BY <2>1 DEF Chained
<1>5. NoneHeld /\ LocalChangesAnnounced
  BY <1>1 DEF NoneHeld, LocalChangesAnnounced
<1> QED
  BY <1>3, <1>4, <1>5 DEF LocalInv

-----------------------------------------------------------------------------
(* Both watchers.                                                          *)

\* One watcher works, and its invariant holds.
WatchersInv ==
    /\ TreeTypes /\ InotifyTypeOK /\ LocalTypeOK
    /\ task = NotStarted <=> stage # "not started"
    /\ task # NotStarted => RemoteInv
    /\ stage # "not started" => LocalInv

\* One of the two watchers works.
LEMMA WatchersStart ==
    ASSUME Init
    PROVE  WatchersInv
<1>1. TreeTypes /\ RemoteInv /\ LocalInv
  BY TreeStarts, RemoteStarts, LocalStarts DEF Init
<1>2. task = NotStarted <=> stage # "not started"
  BY DEF Init, LocalInit
<1> QED
  BY <1>1, <1>2 DEF WatchersInv, RemoteInv, LocalInv

\* A step of the remote watcher leaves the local one alone.
LEMMA RemoteStep ==
    ASSUME ~Hurried, WatchersInv, task # NotStarted, InotifyNext, UNCHANGED local
    PROVE  WatchersInv'
<1>1. Upheld
  BY ChangeStep, AnewSteps, ReadSteps, ReadMovedToStep, WorkSteps DEF InotifyNext, InotifyWorks, WatchersInv
<1>2. stage = "not started" /\ stage' = stage /\ debounce' = debounce /\ unhealthy' = unhealthy /\ LocalTypeOK
  BY DEF WatchersInv, local
<1>3. LocalTypeOK'
  BY <1>2 DEF LocalTypeOK
<1> QED
  BY <1>1, <1>2, <1>3 DEF WatchersInv, Upheld, RemoteInv, NotStarted, Task

\* And the other way round.
LEMMA LocalWatcherStep ==
    ASSUME WatchersInv, stage # "not started", LocalNext, UNCHANGED inotify
    PROVE  WatchersInv'
<1>1. TreeTypes' /\ LocalInv' /\ stage' # "not started"
  BY LocalTree, LocalStep DEF WatchersInv
<1>2. task = NotStarted /\ UNCHANGED <<task, kernel, watchPaths, pathWatches>> /\ InotifyTypeOK
  BY DEF WatchersInv, inotify, watches
<1>3. InotifyTypeOK'
  BY <1>2 DEF InotifyTypeOK
<1> QED
  BY <1>1, <1>2, <1>3 DEF WatchersInv, LocalInv, NotStarted, Task

\* A step that changes nothing changes nothing for either watcher.
LEMMA LocalStutters ==
    ASSUME LocalTypeOK, UNCHANGED vars
    PROVE  LocalInv => LocalInv'
<1>0. UNCHANGED <<inbox, debounce, generation, due, unhealthy, stage, flush, lost, changed, known, Present>>
  BY DEF vars, tree, disk, local, Present
<1>8. LocalTypeOK'
  BY <1>0 DEF LocalTypeOK
<1>1. (LocalTypes => LocalTypes') /\ (OneReport => OneReport')
  BY <1>0 DEF LocalTypes, LocalEvents, OneReport, Rescan
<1>2. \A i, e : Standing(i, e)' = Standing(i, e)
  BY <1>0 DEF Standing
<1>3. \A e, f : Undoes(e, f)' = Undoes(e, f)
  BY DEF Undoes, Supersedes, EventPaths, Overlap, SameOrBelow, Rescan
<1>4. Chained => Chained'
  BY <1>0, <1>2, <1>3 DEF Chained, Leaves, LocalEvents
<1>5. NoneHeld => NoneHeld'
  BY <1>0 DEF NoneHeld, Leaves
<1>6. CoversAll(ToSet(inbox) \cup Pending \cup flush)' = CoversAll(ToSet(inbox) \cup Pending \cup flush) /\ Owed' = Owed
  BY <1>0 DEF CoversAll, Covers, Pending, Owed, Below
<1>7. LocalChangesAnnounced => LocalChangesAnnounced'
  BY <1>0, <1>6 DEF LocalChangesAnnounced
<1> QED
  BY <1>0, <1>8, <1>1, <1>4, <1>5, <1>7 DEF LocalInv

\* Nor for both.
LEMMA NothingHappens ==
    ASSUME WatchersInv, UNCHANGED vars
    PROVE  WatchersInv'
<1>1. UNCHANGED <<at, full, used, changes, changed, known, queue, kernel, watchPaths, pathWatches, pending, task>>
  BY DEF vars, tree, disk, inotify, watches
<1>2. UNCHANGED <<inbox, debounce, generation, due, unhealthy, stage, flush, lost, changed, known, Present>>
  BY DEF vars, tree, disk, local, Present
<1>3. TreeTypes' /\ InotifyTypeOK' /\ LocalTypeOK'
  BY <1>1, <1>2 DEF WatchersInv, TreeTypes, InotifyTypeOK, LocalTypeOK
<1>4. task' = NotStarted <=> stage' # "not started"
  BY <1>1, <1>2 DEF WatchersInv
<1>5. RemoteTypes => RemoteTypes'
  BY <1>1 DEF RemoteTypes, Rebuilding, Told, OfNow, Shaped, Events, Overflow, NoTask, NotStarted, Task
<1>6. Broken' <=> Broken
  BY <1>1 DEF Broken, Rebuilding, Told, Overflow
<1>7. /\ Told' = Told /\ InOrder' = InOrder /\ Owed' = Owed
      /\ \A n : InQueue(n)' = InQueue(n) /\ OutQueue(n)' = OutQueue(n) /\ Half(n)' = Half(n)
      /\ \A n : Left(n)' = Left(n) /\ Entered(n)' = Entered(n) /\ Unwatched(n)' = Unwatched(n)
      /\ \A o : InTree(o)' = InTree(o)
      /\ \A m, o : Whose(m, o)' = Whose(m, o)
  BY <1>1
     DEF Told, InOrder, Before, Owed, Present, InQueue, OutQueue, IsIn, IsOut, Half, Left, Entered, Unwatched, Task,
         InTree, Whose, Partner
<1>8. Good => Good'
  <2>1. (Halves => Halves') /\ (Ends => Ends')
    BY <1>1, <1>7 DEF Halves, Ends
  <2>2. (Appears => Appears') /\ (Goes => Goes')
    BY <1>1, <1>7 DEF Appears, IsIn, IsOut, Goes
  <2>3. (Kept => Kept') /\ (Watched => Watched')
    BY <1>1, <1>7 DEF Kept, Watched, IsOut
  <2>4. (Unsaid => Unsaid') /\ (ToCome => ToCome')
    BY <1>1, <1>7 DEF Unsaid, ToCome, IsFile
  <2> QED
    BY <1>7, <2>1, <2>2, <2>3, <2>4 DEF Good
<1>9. LocalInv => LocalInv'
  BY <1>3, LocalStutters DEF WatchersInv
<1> QED
  BY <1>1, <1>2, <1>3, <1>4, <1>5, <1>6, <1>8, <1>9 DEF WatchersInv, RemoteInv

\* What a task does.
LEMMA TaskIs ==
    ASSUME NEW what, NEW n
    PROVE  Task(what, n).do = what /\ NoTask.do = "nothing" /\ NotStarted.do = "not started"
BY DEF Task, NoTask, NotStarted

\* The remote watcher is not stopped.
LEMMA TaskStarted ==
    ASSUME task # NotStarted, InotifyNext
    PROVE  task' # NotStarted
<1>1. task' = task \/ task'.do \in {"watch", "list", "nothing", "forget all", "watch all"}
  <2>1. CASE \E c \in Change : DiskChange(c)
    BY <2>1 DEF DiskChange
  <2>2. CASE QueueOverflows \/ ReadFile \/ ReadDeleteDirectory \/ ReadIgnored \/ ReadMovedFrom \/ MoveExpires
    BY <2>2 DEF QueueOverflows, ReadFile, ReadDeleteDirectory, ReadIgnored, ReadMovedFrom, MoveExpires
  <2>3. CASE ReadCreateDirectory \/ ReadMovedTo
    <3>1. task' = task \/ task' = Task("watch", Event.name)
      BY <2>3 DEF ReadCreateDirectory, ReadMovedTo
    <3> QED
      BY <3>1, TaskIs
  <2>4. CASE AddTree
    <3>1. task' = NoTask \/ task' = Task("list", task.name)
      BY <2>4 DEF AddTree
    <3> QED
      BY <3>1, TaskIs
  <2>5. CASE List \/ WatchAll
    <3>1. task' = NoTask
      BY <2>5 DEF List, WatchAll
    <3> QED
      BY <3>1, TaskIs
  <2>6. CASE ReadOverflow \/ ForgetAll
    <3>1. task' = Task("forget all", Nothing) \/ task' = Task("watch all", Nothing)
      BY <2>6 DEF ReadOverflow, ForgetAll
    <3> QED
      BY <3>1, TaskIs
  <2> QED
    BY <2>1, <2>2, <2>3, <2>4, <2>5, <2>6 DEF InotifyNext, InotifyWorks
<1> QED
  BY <1>1, TaskIs

\* Every step of either keeps the invariant of both.
LEMMA WatchersStep ==
    ASSUME ~Hurried, WatchersInv, [Next]_vars
    PROVE  WatchersInv'
<1>1. CASE UNCHANGED vars
  BY <1>1, NothingHappens
<1> QED
  BY <1>1, RemoteStep, LocalWatcherStep DEF Next

\* The local watcher alone, whatever the remote one does.
LocalSide ==
    /\ LocalTypeOK
    /\ stage # "not started" => TreeTypes /\ LocalInv /\ task = NotStarted
    /\ stage = "not started" => task # NotStarted

\* Every step keeps the local watcher's.
LEMMA LocalSideStays ==
    ASSUME LocalSide, [Next]_vars
    PROVE  LocalSide'
<1>1. CASE task # NotStarted /\ InotifyNext /\ UNCHANGED local
  <2>1. stage = "not started" /\ stage' = "not started" /\ UNCHANGED <<debounce, unhealthy>>
    BY <1>1 DEF LocalSide, local
  <2>2. LocalTypeOK'
    BY <2>1 DEF LocalSide, LocalTypeOK
  <2>3. task' # NotStarted
    BY <1>1, TaskStarted
  <2> QED
    BY <2>1, <2>2, <2>3 DEF LocalSide, NotStarted, Task
<1>2. CASE stage # "not started" /\ LocalNext /\ UNCHANGED inotify
  <2>1. TreeTypes' /\ LocalInv' /\ stage' # "not started" /\ task' = task
    BY <1>2, LocalTree, LocalStep DEF LocalSide, inotify
  <2> QED
    BY <1>2, <2>1 DEF LocalSide, LocalInv, NotStarted, Task
<1>3. CASE UNCHANGED vars
  <2>1. UNCHANGED <<stage, task, debounce, unhealthy>>
    BY <1>3 DEF vars, local, inotify
  <2>2. LocalTypeOK'
    BY <2>1 DEF LocalSide, LocalTypeOK
  <2>3. TreeTypes /\ LocalInv => TreeTypes' /\ LocalInv'
    <3>1. UNCHANGED disk /\ UNCHANGED <<changed, known>>
      BY <1>3 DEF vars, tree
    <3> QED
      BY <1>3, <3>1, LocalStutters, AnnounceTypes DEF LocalSide
  <2> QED
    BY <2>1, <2>2, <2>3 DEF LocalSide, NotStarted, Task
<1> QED
  BY <1>1, <1>2, <1>3 DEF Next

-----------------------------------------------------------------------------
(* What the watchers promise.                                              *)

\* The local watcher's debounce has one entry for an event and a timer of its own for
\* each that is held back (_debounce_event, _close_debounce).
THEOREM LocalTypeSafety == Spec => []LocalTypeOK
<1>1. Init => LocalSide
  BY WatchersStart DEF WatchersInv, LocalSide
<1>2. LocalSide /\ [Next]_vars => LocalSide'
  BY LocalSideStays
<1>3. LocalSide => LocalTypeOK
  BY DEF LocalSide
<1> QED
  BY <1>1, <1>2, <1>3, PTL DEF Spec

\* Up to the second lost history, every path that changed is journaled, or is covered
\* by an event that is still to be delivered, held back or about to be journaled by
\* stop(): the debounce, its timers and the audits drop nothing (_debounce_event,
\* _emit_trailing, _report_unhealthy, _run_periodic_audit, stop).
THEOREM LocalChangesAreAnnounced == Spec => [](lost <= 1 => LocalChangesAnnounced)
<1>1. Init => LocalSide
  BY WatchersStart DEF WatchersInv, LocalSide
<1>2. LocalSide /\ [Next]_vars => LocalSide'
  BY LocalSideStays
<1>3. LocalSide => (lost <= 1 => LocalChangesAnnounced)
  BY DEF LocalSide, LocalInv, LocalChangesAnnounced
<1> QED
  BY <1>1, <1>2, <1>3, PTL DEF Spec

\* While no name goes to another directory before the watcher is done with the first,
\* a name and a kernel watch are each other's in both of the agent's tables, and so is
\* the local watcher's debounce in order (_add_watch, _forget_descriptor,
\* _move_watch_paths).
THEOREM WatchersTypeSafety == ~Hurried => (Spec => []TypeOK)
<1> SUFFICES ASSUME ~Hurried
             PROVE  Spec => []TypeOK
  OBVIOUS
<1>1. Init => WatchersInv
  BY WatchersStart
<1>2. WatchersInv /\ [Next]_vars => WatchersInv'
  BY WatchersStep
<1>3. WatchersInv => TypeOK
  BY DEF WatchersInv, TypeOK
<1> QED
  BY <1>1, <1>2, <1>3, PTL DEF Spec

\* Nothing is broken at rest.
LEMMA RestIsGood ==
    ASSUME WatchersInv, AtRest
    PROVE  /\ TreeTypes /\ Good
           /\ \A n \in Names : ~InQueue(n) /\ ~Left(n) /\ ~Entered(n) /\ ~Unwatched(n)
           /\ Told = {}
<1>1. queue = <<>> /\ pending = {} /\ task = NoTask /\ Nothing \notin Names
  BY NothingIsNone DEF AtRest
<1>2. task.do = "nothing" /\ task.name = Nothing /\ task # NotStarted
  BY <1>1 DEF NoTask, NotStarted, Task
<1>3. Told = {}
  BY <1>1, ToSetIs DEF Told
<1>4. TreeTypes /\ Good
  BY <1>2, <1>3 DEF WatchersInv, RemoteInv, Broken, Rebuilding
<1>5. ASSUME NEW n \in Names
      PROVE  ~InQueue(n) /\ ~Left(n) /\ ~Entered(n) /\ ~Unwatched(n)
  <2>1. Task("watch", n).do = "watch"
    BY DEF Task
  <2> QED
    BY <1>1, <1>2, <1>3, <2>1 DEF InQueue, Left, Entered, Unwatched, OutQueue, Half
<1> QED
  BY <1>3, <1>4, <1>5

\* Then too, when the agent has dealt with all it was told, every path that changed
\* has been journaled since: the pairing of renames, the deletions that expire and the
\* listing of new directories miss none, nor does the rescan after an overflow
\* (_process_events, _flush_expired_moves, _emit_created_descendants).
THEOREM RemoteChangesAreAnnounced == ~Hurried => (Spec => []RemoteChangesAnnounced)
<1> SUFFICES ASSUME ~Hurried
             PROVE  Spec => []RemoteChangesAnnounced
  OBVIOUS
<1>1. Init => WatchersInv
  BY WatchersStart
<1>2. WatchersInv /\ [Next]_vars => WatchersInv'
  BY WatchersStep
<1>3. WatchersInv => RemoteChangesAnnounced
  <2>1. ASSUME WatchersInv, AtRest, NEW p \in Owed
        PROVE  FALSE
    <3>1. TreeTypes /\ Good /\ Told = {} /\ \A n \in Names : ~InQueue(n) /\ ~Left(n) /\ ~Entered(n)
      BY <2>1, RestIsGood
    <3>2. p \in changed /\ p \in Paths
      BY <2>1, <3>1 DEF Owed, TreeTypes
    <3>3. PICK n \in Names : p = <<n>> \/ p = File(n)
      BY <3>2, PathKinds
    <3> QED
      BY <2>1, <3>1, <3>2, <3>3 DEF Good, ToCome
  <2> QED
    BY <2>1 DEF RemoteChangesAnnounced
<1> QED
  BY <1>1, <1>2, <1>3, PTL DEF Spec

\* And every directory of the tree has its watch under the name it has now: none of
\* its later changes will be missed (_add_runtime_tree, _move_watch_paths,
\* _forget_subtree).
THEOREM DirectoriesAreWatched == ~Hurried => (Spec => []EveryDirectoryWatched)
<1> SUFFICES ASSUME ~Hurried
             PROVE  Spec => []EveryDirectoryWatched
  OBVIOUS
<1>1. Init => WatchersInv
  BY WatchersStart
<1>2. WatchersInv /\ [Next]_vars => WatchersInv'
  BY WatchersStep
<1>3. WatchersInv => EveryDirectoryWatched
  <2>1. ASSUME WatchersInv, AtRest, NEW n \in Names, at[n] # Nothing
        PROVE  at[n] \in kernel /\ watchPaths[at[n]] = n
    <3>1. TreeTypes /\ Good /\ ~Unwatched(n) /\ Nothing \notin Names
      BY <2>1, RestIsGood, NothingIsNone
    <3>2. watchPaths[at[n]] = n /\ at[n] \in Objects
      BY <2>1, <3>1 DEF Good, Watched, TreeTypes
    <3>3. at[n] \in kernel
      BY <3>1, <3>2 DEF Good, Watched, InTree
    <3> QED
      BY <3>2, <3>3
  <2> QED
    BY <2>1 DEF EveryDirectoryWatched
<1> QED
  BY <1>1, <1>2, <1>3, PTL DEF Spec
=============================================================================
