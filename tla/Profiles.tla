-------------------------------- MODULE Profiles --------------------------------
(***************************************************************************)
(* The profile registry, profiles.json, which gives a name a home and a    *)
(* credential namespace, and the homes themselves.  profile add, default   *)
(* and remove change the registry under its lock.  A command that works in *)
(* a home reads the registry without it, and may find the registry changed *)
(* by the time it holds the lock of the home.                              *)
(*                                                                         *)
(* Of a home only the namespaces its passwords are filed under are kept;   *)
(* HomeStore has the rest.  A home stands for its canonical directory.     *)
(***************************************************************************)
EXTENDS Naturals, FiniteSets, Functions

CONSTANTS
  Names,          \* profile names, in the order of the registry
  Homes,
  Builtin,        \* the home used when there is no default profile
  Invocations,
  Commands,       \* what an invocation may be asked to do
  Registries,     \* what profiles.json may hold at first
  None,
  MaxEdits        \* hand edits of profiles.json

ById(id) == <<"profile", id>>
ByPath(h) == <<"home", h>>
BuiltinNamespace == <<"builtin", Builtin>>
Namespaces(ids) == {ById(id) : id \in ids} \cup {ByPath(h) : h \in Homes} \cup {BuiltinNamespace}

Entry(ids) == [id : ids, home : Homes]
Registry(ids) ==
  [default : Names \cup {None}, profiles : UNION {[S -> Entry(ids)] : S \in SUBSET Names}]

\* validate_registry.
ValidRegistry(r) ==
  /\ r.default \in DOMAIN r.profiles \cup {None}
  /\ \A m, n \in DOMAIN r.profiles : r.profiles[m].id = r.profiles[n].id => m = n

FirstIds == 1..Cardinality(Names)

ASSUME ProfilesAssumption ==
  /\ Names \subseteq Nat /\ IsFiniteSet(Names) /\ None \notin Names \cup Invocations
  /\ Builtin \in Homes /\ MaxEdits \in Nat
  /\ Commands \subseteq [op : {"add"}, name : Names, home : Homes, force : BOOLEAN]
       \cup [op : {"default", "remove"}, name : Names]
       \cup [op : {"register", "forget"}, via : {"home"}, home : Homes]
       \cup [op : {"register", "forget"}, via : {"profile"}, name : Names]
       \cup [op : {"register", "forget"}, via : {"default"}]
  /\ \A r \in Registries : r \in Registry(FirstIds) /\ ValidRegistry(r)

VARIABLES
  registry,       \* profiles.json
  registryLock,   \* who holds .profiles.lock
  used,           \* of each home: the namespaces its servers.json refers to
  homeLock,       \* of each home: who holds .sshw.lock
  issued,         \* ids up to this one have been generated
  cmd, pc,
  loaded, next,   \* the registry read under the lock, and what is to replace it
  selected,       \* the home and namespace a home command resolved
  edits,
  raced,          \* invocations whose revision check a hand edit has overtaken
  bound,          \* all that a registry has said: which id is of which home
  retired         \* ids whose profile was removed or moved to another home

fileVars == <<registry, used, issued>>
ghostVars == <<bound, retired>>
vars == <<registry, registryLock, used, homeLock, issued, cmd, pc, loaded, next, selected,
          edits, raced, bound, retired>>

Ids(r) == {r.profiles[n].id : n \in DOMAIN r.profiles}
Nowhere == [home |-> None, namespace |-> None]
RegistryOps == {"add", "default", "remove"}

Init ==
  /\ registry \in Registries
  /\ registryLock = None
  /\ used = [h \in Homes |-> {}]
  /\ homeLock = [h \in Homes |-> None]
  /\ issued = Cardinality(Names)
  /\ cmd \in [Invocations -> Commands]
  /\ pc = [i \in Invocations |-> "start"]
  /\ loaded = [i \in Invocations |-> registry]
  /\ next = [i \in Invocations |-> registry]
  /\ selected = [i \in Invocations |-> Nowhere]
  /\ edits = 0 /\ raced = {}
  /\ bound = Range(registry.profiles)
  /\ retired = {}

Goto(i, there) == pc' = [pc EXCEPT ![i] = there]

--------------------------------------------------------------------------------
(***************************************************************************)
(* profile add, default and remove.                                        *)
(***************************************************************************)
\* A target home is usable when its passwords are filed under the profile's id.
ValidTarget(home, id) == used[home] \subseteq {ById(id)}

\* Fault: a profile keeps its id when it moves to another home.
ProfileIdKept(r, c) ==
  IF c.name \in DOMAIN r.profiles THEN r.profiles[c.name].id ELSE issued + 1

\* An update of the same home keeps its id; any other registration gets a new one.
ProfileId(r, c) ==
  IF c.name \in DOMAIN r.profiles /\ r.profiles[c.name].home = c.home
  THEN r.profiles[c.name].id ELSE issued + 1

ProfileAdd(r, c) ==
  [default |-> IF r.default = None THEN c.name ELSE r.default,
   profiles |-> [n \in DOMAIN r.profiles \cup {c.name} |->
                   IF n = c.name THEN [id |-> ProfileId(r, c), home |-> c.home]
                   ELSE r.profiles[n]]]

ProfileDefault(r, c) == [r EXCEPT !.default = c.name]

\* Fault: the removed profile stays the default.
ProfileRemoveKeepsDefault(r, c) ==
  [r EXCEPT !.profiles = Restrict(r.profiles, DOMAIN r.profiles \ {c.name})]

\* The first of the remaining names becomes the default in place of the removed.
ProfileRemove(r, c) ==
  LET rest == DOMAIN r.profiles \ {c.name}
      first == IF rest = {} THEN None ELSE CHOOSE n \in rest : \A m \in rest : n <= m
  IN  [default |-> IF r.default = c.name THEN first ELSE r.default,
       profiles |-> Restrict(r.profiles, rest)]

\* Fault: the registry is read and written without its lock.
AcquireRegistryUnlocked(i) ==
  /\ pc[i] = "start" /\ cmd[i].op \in RegistryOps
  /\ UNCHANGED registryLock
  /\ Goto(i, "load")
  /\ UNCHANGED <<fileVars, homeLock, cmd, loaded, next, selected, edits, raced, ghostVars>>

AcquireRegistry(i) ==
  /\ pc[i] = "start" /\ cmd[i].op \in RegistryOps
  /\ registryLock = None
  /\ registryLock' = i
  /\ Goto(i, "load")
  /\ UNCHANGED <<fileVars, homeLock, cmd, loaded, next, selected, edits, raced, ghostVars>>

LoadRegistry(i) ==
  /\ pc[i] = "load"
  /\ loaded' = [loaded EXCEPT ![i] = registry]
  /\ Goto(i, "check")
  /\ UNCHANGED <<fileVars, registryLock, homeLock, cmd, next, selected, edits, raced, ghostVars>>

ReleaseRegistry(i) ==
  registryLock' = IF registryLock = i THEN None ELSE registryLock

\* What the command makes of the registry it loaded, if it accepts the target.
CheckAdd(i) ==
  LET r == loaded[i]  c == cmd[i] IN
  /\ c.op = "add"
  /\ c.name \in DOMAIN r.profiles => c.force
  /\ issued' = IF ProfileId(r, c) > issued THEN issued + 1 ELSE issued
  /\ ValidTarget(c.home, ProfileId(r, c))
  /\ next' = [next EXCEPT ![i] = ProfileAdd(r, c)]

CheckDefault(i) ==
  LET r == loaded[i]  c == cmd[i] IN
  /\ c.op = "default" /\ c.name \in DOMAIN r.profiles
  /\ ValidTarget(r.profiles[c.name].home, r.profiles[c.name].id)
  /\ next' = [next EXCEPT ![i] = ProfileDefault(r, c)]
  /\ UNCHANGED issued

\* A removal does not check the home that becomes the default.
CheckRemove(i) ==
  LET r == loaded[i]  c == cmd[i] IN
  /\ c.op = "remove" /\ c.name \in DOMAIN r.profiles
  /\ next' = [next EXCEPT ![i] = ProfileRemove(r, c)]
  /\ UNCHANGED issued

\* A registry that does not change is not saved.
Check(i) ==
  /\ pc[i] = "check"
  /\ CheckAdd(i) \/ CheckDefault(i) \/ CheckRemove(i)
  /\ IF next'[i] = loaded[i]
     THEN Goto(i, "done") /\ ReleaseRegistry(i)
     ELSE Goto(i, "confirm") /\ UNCHANGED registryLock
  /\ UNCHANGED <<registry, used, homeLock, cmd, loaded, selected, edits, raced, ghostVars>>

\* The name is taken or unknown, or the target belongs to another namespace.
Refuse(i) ==
  LET r == loaded[i]  c == cmd[i] IN
  /\ pc[i] = "check"
  /\ IF c.op = "add"
     THEN (c.name \in DOMAIN r.profiles /\ ~c.force) \/ ~ValidTarget(c.home, ProfileId(r, c))
     ELSE \/ c.name \notin DOMAIN r.profiles
          \/ /\ c.op = "default" /\ c.name \in DOMAIN r.profiles
             /\ ~ValidTarget(r.profiles[c.name].home, r.profiles[c.name].id)
  /\ Goto(i, "done")
  /\ ReleaseRegistry(i)
  /\ UNCHANGED <<fileVars, homeLock, cmd, loaded, next, selected, edits, raced, ghostVars>>

\* save_registry_if_unchanged compares what it loaded with what is there now.
Confirm(i) ==
  /\ pc[i] = "confirm"
  /\ registry = loaded[i]
  /\ Goto(i, "write")
  /\ raced' = raced \ {i}
  /\ UNCHANGED <<fileVars, registryLock, homeLock, cmd, loaded, next, selected, edits, ghostVars>>

ChangedConcurrently(i) ==
  /\ pc[i] = "confirm"
  /\ registry # loaded[i]
  /\ Goto(i, "done")
  /\ ReleaseRegistry(i)
  /\ UNCHANGED <<fileVars, homeLock, cmd, loaded, next, selected, edits, raced, ghostVars>>

\* The rename, whatever the sync of the directory reports after it.
WriteRegistry(i) ==
  /\ pc[i] = "write"
  /\ registry' = next[i]
  /\ bound' = bound \cup Range(next[i].profiles)
  /\ retired' = retired \cup (Ids(loaded[i]) \ Ids(next[i]))
  /\ Goto(i, "done")
  /\ ReleaseRegistry(i)
  /\ UNCHANGED <<used, issued, homeLock, cmd, loaded, next, selected, edits, raced>>

WriteFails(i) ==
  /\ pc[i] = "write"
  /\ Goto(i, "done")
  /\ ReleaseRegistry(i)
  /\ UNCHANGED <<fileVars, homeLock, cmd, loaded, next, selected, edits, raced, ghostVars>>

--------------------------------------------------------------------------------
(***************************************************************************)
(* Commands that file a password in a home or remove its passwords.        *)
(***************************************************************************)
Select(c) ==
  LET name == IF c.via = "profile" THEN c.name ELSE registry.default IN
  IF c.via = "home" THEN [home |-> c.home, namespace |-> ByPath(c.home)]
  ELSE IF name = None THEN [home |-> Builtin, namespace |-> BuiltinNamespace]
  ELSE [home |-> registry.profiles[name].home, namespace |-> ById(registry.profiles[name].id)]

\* resolve_home_with_registry, without a lock; an unknown profile is an error.
Resolve(i) ==
  /\ pc[i] = "start" /\ cmd[i].op \notin RegistryOps
  /\ IF cmd[i].via = "profile" /\ cmd[i].name \notin DOMAIN registry.profiles
     THEN Goto(i, "done") /\ UNCHANGED selected
     ELSE Goto(i, "lock") /\ selected' = [selected EXCEPT ![i] = Select(cmd[i])]
  /\ UNCHANGED <<fileVars, registryLock, homeLock, cmd, loaded, next, edits, raced, ghostVars>>

LockHome(i) ==
  /\ pc[i] = "lock"
  /\ homeLock[selected[i].home] = None
  /\ homeLock' = [homeLock EXCEPT ![selected[i].home] = i]
  /\ Goto(i, "config")
  /\ UNCHANGED <<fileVars, registryLock, cmd, loaded, next, selected, edits, raced, ghostVars>>

ReleaseHome(i) ==
  homeLock' = [h \in Homes |-> IF homeLock[h] = i THEN None ELSE homeLock[h]]

\* Fault: the references of the config are not compared with the namespace.
LoadConfigUnchecked(i) ==
  /\ pc[i] = "config"
  /\ Goto(i, "save") /\ UNCHANGED homeLock
  /\ UNCHANGED <<fileVars, registryLock, cmd, loaded, next, selected, edits, raced, ghostVars>>

\* load_active_config refuses a home whose passwords are another namespace's.
LoadConfig(i) ==
  /\ pc[i] = "config"
  /\ IF used[selected[i].home] \subseteq {selected[i].namespace}
     THEN Goto(i, "save") /\ UNCHANGED homeLock
     ELSE Goto(i, "done") /\ ReleaseHome(i)
  /\ UNCHANGED <<fileVars, registryLock, cmd, loaded, next, selected, edits, raced, ghostVars>>

SaveConfig(i) ==
  /\ pc[i] = "save"
  /\ used' = [used EXCEPT ![selected[i].home] =
                IF cmd[i].op = "register" THEN @ \cup {selected[i].namespace} ELSE {}]
  /\ Goto(i, "done")
  /\ ReleaseHome(i)
  /\ UNCHANGED <<registry, registryLock, issued, cmd, loaded, next, selected, edits, raced,
                 ghostVars>>

--------------------------------------------------------------------------------
\* Either lock is given up after five seconds.
LockTimeout(i) ==
  /\ (pc[i] = "start" /\ cmd[i].op \in RegistryOps) \/ pc[i] = "lock"
  /\ Goto(i, "done")
  /\ UNCHANGED <<fileVars, registryLock, homeLock, cmd, loaded, next, selected, edits, raced,
                 ghostVars>>

Crash(i) ==
  /\ pc[i] \notin {"start", "done"}
  /\ Goto(i, "done")
  /\ ReleaseRegistry(i) /\ ReleaseHome(i)
  /\ UNCHANGED <<fileVars, cmd, loaded, next, selected, edits, raced, ghostVars>>

\* The user chooses another default, or removes a profile, in an editor.
UserEdits ==
  /\ edits < MaxEdits
  /\ edits' = edits + 1
  /\ \/ \E n \in DOMAIN registry.profiles : registry' = [registry EXCEPT !.default = n]
     \/ \E n \in DOMAIN registry.profiles : registry' = ProfileRemove(registry, [name |-> n])
  /\ raced' = raced \cup {i \in Invocations : pc[i] = "write"}
  /\ UNCHANGED <<registryLock, used, homeLock, issued, cmd, pc, loaded, next, selected, ghostVars>>

Done == (\A i \in Invocations : pc[i] = "done") /\ UNCHANGED vars

Next ==
  \/ \E i \in Invocations :
       \/ AcquireRegistry(i) \/ LoadRegistry(i) \/ Check(i) \/ Refuse(i)
       \/ Confirm(i) \/ ChangedConcurrently(i) \/ WriteRegistry(i) \/ WriteFails(i)
       \/ Resolve(i) \/ LockHome(i) \/ LoadConfig(i) \/ SaveConfig(i)
       \/ LockTimeout(i) \/ Crash(i)
  \/ UserEdits
  \/ Done

Spec == Init /\ [][Next]_vars

--------------------------------------------------------------------------------
(***************************************************************************)
(* Properties.                                                             *)
(***************************************************************************)
\* Type invariant; the registry can always be loaded again.
TypeOK ==
  /\ registry \in Registry(1..issued) /\ ValidRegistry(registry)
  /\ registryLock \in Invocations \cup {None}
  /\ used \in [Homes -> SUBSET Namespaces(1..issued)]
  /\ homeLock \in [Homes -> Invocations \cup {None}]
  /\ issued \in Nat
  /\ loaded \in [Invocations -> Registry(1..issued)]
  /\ next \in [Invocations -> Registry(1..issued)]
  /\ selected \in [Invocations ->
                    [home : Homes, namespace : Namespaces(1..issued)] \cup {Nowhere}]

\* An id names one home for ever, and the id of a removed or moved profile does
\* not come back: a profile added again starts without the old one's passwords.
NamespaceBinding ==
  /\ \A p, q \in bound : p.id = q.id => p.home = q.home
  /\ Ids(registry) \cap retired = {}

\* A home never mixes the passwords of two namespaces, nor refers to those of a
\* profile of another home, whenever its profile was moved, removed or added.
HomesKeepOneNamespace ==
  \A h \in Homes :
    /\ Cardinality(used[h]) <= 1
    /\ used[h] \subseteq {ByPath(h)} \cup {ById(p.id) : p \in {q \in bound : q.home = h}}
                         \cup (IF h = Builtin THEN {BuiltinNamespace} ELSE {})

\* Whatever order commands, hand edits and kills come in, the registry can be
\* loaded again, ids keep their homes and homes their namespaces.
NamespacesStaySeparate ==
  ValidRegistry(registry) /\ NamespaceBinding /\ HomesKeepOneNamespace

\* A profile command changes the registry it loaded and validated, so that no
\* other command's change is lost, and leaves the id of a profile that keeps
\* its home; only a hand edit after its revision check is overwritten.
NoUpdateLost ==
  [][\A i \in Invocations : pc[i] = "write" /\ registry' # registry /\ pc'[i] = "done" =>
       \/ i \in raced
       \/ /\ registry = loaded[i]
          /\ \A n \in DOMAIN registry.profiles \cap DOMAIN registry'.profiles :
               registry.profiles[n].home = registry'.profiles[n].home =>
                 registry.profiles[n] = registry'.profiles[n]]_vars
================================================================================
