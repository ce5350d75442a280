------------------------------- MODULE HomeStore -------------------------------
(***************************************************************************)
(* One sshw home: servers.json, its lock file .sshw.lock and the entries   *)
(* of the OS keyring that servers.json refers to, under concurrent sshw    *)
(* invocations.  A command that edits the home takes the lock, loads and   *)
(* validates the config, prompts, stores a new password, compares the file *)
(* with what it loaded, writes a sibling file, renames it over the config, *)
(* syncs the directory, deletes the entries the new config no longer needs *)
(* and lets the lock go.  run, put and get read config and keyring without *)
(* the lock.                                                               *)
(*                                                                         *)
(* The keyring (external) keeps what it was told to keep across a power    *)
(* loss.  A power loss can undo a rename the directory sync has not        *)
(* confirmed.  The user may edit servers.json at any moment.               *)
(***************************************************************************)
EXTENDS ConfigOps, Functions

CONSTANTS
  Procs,       \* invocations of commands that edit the home
  Readers,     \* invocations of run, put and get
  NoProc,
  Files,       \* what servers.json may hold at first
  MaxEdits,    \* bound: how often the user edits servers.json by hand
  MaxLosses    \* bound: how often the machine loses power

Missing == Absent
CfgOf(f) == IF f = Missing THEN EmptyConfig ELSE f
FileRefs(f) == Refs(CfgOf(f))

ASSUME HomeAssumption ==
  /\ NoProc \notin Procs
  /\ Procs \cap Readers = {}
  /\ Absent \notin Config
  /\ Files \subseteq Config \cup {Missing}
  /\ \A f \in Files : /\ ValidConfig(CfgOf(f))
                      /\ \A s \in FileRefs(f) : s[1].gen = 0
  /\ MaxEdits \in Nat /\ MaxLosses \in Nat

VARIABLES
  file,         \* what a reader of servers.json sees
  recoverable,  \* what servers.json may hold after a power loss
  keyring,      \* slot -> the registration whose password it holds
  lock,         \* the holder of .sshw.lock
  issued,       \* generations handed out to credential keys
  pc, base, plan, todo, outcome,   \* of each invocation
  raced,        \* invocations the user's edit overtook after their check
  faulty,       \* a keyring call, a directory sync or an invocation failed
  edits, losses

commandVars == <<pc, base, plan, todo, outcome>>
storeVars == <<file, recoverable, keyring>>
boundVars == <<edits, losses>>
vars == <<file, recoverable, keyring, lock, issued, pc, base, plan, todo, outcome,
          raced, faulty, edits, losses>>

Active == {"lock", "load", "prompt", "store", "check", "stage", "publish", "sync",
           "cleanup", "undo", "return", "secret"}
Holding == Active \ {"lock", "secret"}
Outcomes == {"none", "ok", "unchanged", "error", "published", "crashed"}

NoPlan == [next |-> EmptyConfig, created |-> {}, stale |-> {}, changed |-> FALSE]

Init ==
  /\ file \in Files
  /\ recoverable = {file}
  /\ keyring = [s \in FileRefs(file) |-> 0]
  /\ lock = NoProc
  /\ issued = 1
  /\ pc = [p \in Procs \cup Readers |-> "start"]
  /\ base = [p \in Procs \cup Readers |-> Missing]
  /\ plan = [p \in Procs |-> NoPlan]
  /\ todo = [p \in Procs |-> {}]
  /\ outcome = [p \in Procs \cup Readers |-> "none"]
  /\ raced = {}
  /\ faulty = FALSE
  /\ edits = 0 /\ losses = 0

--------------------------------------------------------------------------------
Goto(p, from, to) ==
  /\ pc[p] = from
  /\ pc' = [pc EXCEPT ![p] = to]

\* The handler's result is fixed; the lock is still held.
Result(p, from, result) ==
  /\ Goto(p, from, "return")
  /\ outcome' = [outcome EXCEPT ![p] = result]

\* The locals of invocations that have ended are gone.
Forget(ps) ==
  /\ base' = [p \in DOMAIN base |-> IF p \in ps THEN Missing ELSE base[p]]
  /\ plan' = [p \in Procs |-> IF p \in ps THEN NoPlan ELSE plan[p]]
  /\ todo' = [p \in Procs |-> IF p \in ps THEN {} ELSE todo[p]]

Stored(slots, value) ==
  [s \in DOMAIN keyring \cup slots |-> IF s \in slots THEN value ELSE keyring[s]]

Deleted(slots) == Restrict(keyring, DOMAIN keyring \ slots)

(***************************************************************************)
(* .sshw.lock: try_lock until it is free or five seconds have passed.      *)
(***************************************************************************)
Start(p) ==
  /\ Goto(p, "start", "lock")
  /\ UNCHANGED <<storeVars, lock, issued, base, plan, todo, outcome, raced, faulty, boundVars>>

AcquireLock(p) ==
  /\ Goto(p, "lock", "load")
  /\ lock = NoProc
  /\ lock' = p
  /\ UNCHANGED <<storeVars, issued, base, plan, todo, outcome, raced, faulty, boundVars>>

LockTimeout(p) ==
  /\ Goto(p, "lock", "done")
  /\ lock # NoProc
  /\ outcome' = [outcome EXCEPT ![p] = "error"]
  /\ UNCHANGED <<storeVars, lock, issued, base, plan, todo, raced, faulty, boundVars>>

\* The lock is dropped when the command returns.
Return(p) ==
  /\ Goto(p, "return", "done")
  /\ lock' = NoProc
  /\ Forget({p})
  /\ UNCHANGED <<storeVars, issued, outcome, raced, faulty, boundVars>>

(***************************************************************************)
(* The command: load, validate, and either refuse or prompt for what the   *)
(* plan needs.                                                             *)
(***************************************************************************)
Refuse(p) ==
  /\ Result(p, "load", "error")
  /\ UNCHANGED <<storeVars, lock, issued, base, plan, todo, raced, faulty, boundVars>>

Begin(p, newPlan) ==
  /\ Goto(p, "load", "prompt")
  /\ base' = [base EXCEPT ![p] = file]
  /\ plan' = [plan EXCEPT ![p] = newPlan]
  /\ issued' = IF newPlan.created = {} THEN issued ELSE issued + 1
  /\ UNCHANGED <<storeVars, lock, todo, outcome, raced, faulty, boundVars>>

AddServer(p) ==
  \E n \in Servers, u \in Users, e \in Endpoints, password, replace \in BOOLEAN :
    /\ AddServerAllowed(CfgOf(file), n, e, replace)
    /\ Begin(p, AddServerPlan(CfgOf(file), n, u, e, password, replace, issued))

AddAccount(p) ==
  \E n \in Registered(CfgOf(file)), u \in Users, password \in BOOLEAN :
    Begin(p, AddAccountPlan(CfgOf(file), n, u, password, issued))

DefaultAccount(p) ==
  \E n \in Servers, u \in Users :
    /\ HasAccount(CfgOf(file), n, u)
    /\ Begin(p, DefaultAccountPlan(CfgOf(file), n, u))

RemoveAccount(p) ==
  \E n \in Servers, u \in Users :
    /\ HasAccount(CfgOf(file), n, u)
    /\ CfgOf(file).servers[n].defaultUser # u
    /\ Begin(p, RemoveAccountPlan(CfgOf(file), n, u))

DefaultServer(p) ==
  \E n \in Registered(CfgOf(file)) : Begin(p, DefaultServerPlan(CfgOf(file), n))

RemoveServer(p) ==
  \E n \in Registered(CfgOf(file)) : Begin(p, RemoveServerPlan(CfgOf(file), n))

SetPrivilege(p) ==
  \E n \in Servers, u \in Users, method \in {"sudo", "su"}, target \in Targets,
     noPassword \in BOOLEAN :
    /\ HasAccount(CfgOf(file), n, u)
    /\ noPassword => method = "sudo"
    /\ Begin(p, SetPrivilegePlan(CfgOf(file), n, u, method, target, noPassword, issued))

ClearPrivilege(p) ==
  \E n \in Servers, u \in Users :
    /\ HasAccount(CfgOf(file), n, u)
    /\ Begin(p, ClearPrivilegePlan(CfgOf(file), n, u))

\* The user cancels, or the password that was typed is not acceptable.
Decline(p) ==
  /\ Result(p, "prompt", "error")
  /\ UNCHANGED <<storeVars, lock, issued, base, plan, todo, raced, faulty, boundVars>>

Confirm(p) ==
  /\ IF plan[p].created # {}
     THEN Goto(p, "prompt", "store") /\ UNCHANGED outcome
     ELSE IF plan[p].changed
          THEN Goto(p, "prompt", "check") /\ UNCHANGED outcome
          ELSE Result(p, "prompt", "unchanged")
  /\ UNCHANGED <<storeVars, lock, issued, base, plan, todo, raced, faulty, boundVars>>

StorePassword(p) ==
  /\ Goto(p, "store", "check")
  /\ \E s \in plan[p].created : keyring' = Stored({s}, issued)
  /\ UNCHANGED <<file, recoverable, lock, issued, base, plan, todo, outcome, raced,
                 faulty, boundVars>>

\* set_password returns an error; the entry may exist all the same.
StoreFails(p) ==
  /\ Result(p, "store", "error")
  /\ \/ UNCHANGED keyring
     \/ \E s \in plan[p].created : keyring' = Stored({s}, issued)
  /\ faulty' = TRUE
  /\ UNCHANGED <<file, recoverable, lock, issued, base, plan, todo, raced, boundVars>>

(***************************************************************************)
(* save_config_if_unchanged and write_owner_only_atomic.                   *)
(***************************************************************************)
\* Fault: the save trusts the lock alone.
UncheckedRevision(p) ==
  /\ Goto(p, "check", "stage")
  /\ UNCHANGED <<storeVars, lock, issued, base, plan, todo, outcome, raced, faulty, boundVars>>

CheckRevision(p) ==
  /\ Goto(p, "check", IF file = base[p] THEN "stage" ELSE "undo")
  /\ UNCHANGED <<storeVars, lock, issued, base, plan, todo, outcome, raced, faulty, boundVars>>

\* The sibling file is written and synced, or some step of that fails.
Stage(p) ==
  /\ \E to \in {"publish", "undo"} : Goto(p, "stage", to)
  /\ UNCHANGED <<storeVars, lock, issued, base, plan, todo, outcome, raced, faulty, boundVars>>

\* Fault: old entries are deleted without waiting for the directory sync.
PublishUnsynced(p) ==
  /\ Goto(p, "publish", "cleanup")
  /\ file' = plan[p].next
  /\ recoverable' = recoverable \cup {plan[p].next}
  /\ todo' = [todo EXCEPT ![p] = plan[p].stale]
  /\ outcome' = [outcome EXCEPT ![p] = "ok"]
  /\ UNCHANGED <<keyring, lock, issued, base, plan, raced, faulty, boundVars>>

Publish(p) ==
  /\ Goto(p, "publish", "sync")
  /\ file' = plan[p].next
  /\ recoverable' = recoverable \cup {plan[p].next}
  /\ UNCHANGED <<keyring, lock, issued, base, plan, todo, outcome, raced, faulty, boundVars>>

PublishFails(p) ==
  /\ Goto(p, "publish", "undo")
  /\ UNCHANGED <<storeVars, lock, issued, base, plan, todo, outcome, raced, faulty, boundVars>>

SyncDirectory(p) ==
  /\ Goto(p, "sync", "cleanup")
  /\ recoverable' = {file}
  /\ todo' = [todo EXCEPT ![p] = plan[p].stale]
  /\ outcome' = [outcome EXCEPT ![p] = "ok"]
  /\ UNCHANGED <<file, keyring, lock, issued, base, plan, raced, faulty, boundVars>>

\* Fault: any failed save is undone, published or not.
SyncFailsUndone(p) ==
  /\ Goto(p, "sync", "undo")
  /\ faulty' = TRUE
  /\ UNCHANGED <<storeVars, lock, issued, base, plan, todo, outcome, raced, boundVars>>

\* PublishedWriteError: nothing is deleted, neither new nor old.
SyncFails(p) ==
  /\ Result(p, "sync", "published")
  /\ faulty' = TRUE
  /\ UNCHANGED <<storeVars, lock, issued, base, plan, todo, raced, boundVars>>

\* The save failed before the rename: the new entry is deleted, best effort.
Undo(p) ==
  /\ Result(p, "undo", "error")
  /\ keyring' = Deleted(plan[p].created)
  /\ UNCHANGED <<file, recoverable, lock, issued, base, plan, todo, raced, faulty, boundVars>>

UndoFails(p) ==
  /\ Result(p, "undo", "error")
  /\ plan[p].created # {}
  /\ faulty' = TRUE
  /\ UNCHANGED <<storeVars, lock, issued, base, plan, todo, raced, boundVars>>

(***************************************************************************)
(* Entries the published config no longer refers to are deleted one by     *)
(* one; a failure is remembered and the others are still deleted.          *)
(***************************************************************************)
DeleteStale(p) ==
  /\ pc[p] = "cleanup"
  /\ \E s \in todo[p] :
       /\ keyring' = Deleted({s})
       /\ todo' = [todo EXCEPT ![p] = @ \ {s}]
  /\ UNCHANGED <<file, recoverable, lock, issued, pc, base, plan, outcome, raced, faulty,
                 boundVars>>

\* Fault: the failure is not remembered.
DeleteStaleFailsSilently(p) ==
  /\ pc[p] = "cleanup"
  /\ \E s \in todo[p] : todo' = [todo EXCEPT ![p] = @ \ {s}]
  /\ faulty' = TRUE
  /\ UNCHANGED <<storeVars, lock, issued, pc, base, plan, outcome, raced, boundVars>>

\* Fault: the deletion is tried again until it succeeds.
DeleteStaleRetries(p) ==
  /\ pc[p] = "cleanup"
  /\ todo[p] # {}
  /\ faulty' = ~faulty
  /\ UNCHANGED <<storeVars, lock, issued, pc, base, plan, todo, outcome, raced, boundVars>>

DeleteStaleFails(p) ==
  /\ pc[p] = "cleanup"
  /\ \E s \in todo[p] : todo' = [todo EXCEPT ![p] = @ \ {s}]
  /\ outcome' = [outcome EXCEPT ![p] = "error"]
  /\ faulty' = TRUE
  /\ UNCHANGED <<storeVars, lock, issued, pc, base, plan, raced, boundVars>>

CleanupDone(p) ==
  /\ Goto(p, "cleanup", "return")
  /\ todo[p] = {}
  /\ UNCHANGED <<storeVars, lock, issued, base, plan, todo, outcome, raced, faulty, boundVars>>

(***************************************************************************)
(* run, put and get: the config and then the keyring, without the lock.    *)
(***************************************************************************)
ReadConfig(r) ==
  /\ Goto(r, "start", "secret")
  /\ base' = [base EXCEPT ![r] = file]
  /\ UNCHANGED <<storeVars, lock, issued, plan, todo, outcome, raced, faulty, boundVars>>

ReadSecret(r) ==
  /\ Goto(r, "secret", "done")
  /\ \E s \in FileRefs(base[r]) :
       outcome' = [outcome EXCEPT ![r] = IF s \in DOMAIN keyring THEN "ok" ELSE "error"]
  /\ Forget({r})
  /\ UNCHANGED <<storeVars, lock, issued, raced, faulty, boundVars>>

\* The account uses the agent, there is no such account, or a check refuses.
ReadNoSecret(r) ==
  /\ Goto(r, "secret", "done")
  /\ Forget({r})
  /\ UNCHANGED <<storeVars, lock, issued, outcome, raced, faulty, boundVars>>

(***************************************************************************)
(* The environment.                                                        *)
(***************************************************************************)
\* The user sets another default server with an editor.
EditByHand ==
  /\ edits < MaxEdits
  /\ edits' = edits + 1
  /\ file # Missing
  /\ \E n \in Registered(file) \ {file.default} : file' = [file EXCEPT !.default = n]
  /\ recoverable' = recoverable \cup {file'}
  /\ raced' = raced \cup {p \in Procs : pc[p] \in {"stage", "publish"}}
  /\ UNCHANGED <<keyring, lock, issued, commandVars, faulty, losses>>

\* An invocation is killed; the OS releases its lock.
Crash(p) ==
  /\ pc[p] \in Active
  /\ pc' = [pc EXCEPT ![p] = "done"]
  /\ outcome' = [outcome EXCEPT ![p] = "crashed"]
  /\ lock' = IF lock = p THEN NoProc ELSE lock
  /\ faulty' = TRUE
  /\ Forget({p})
  /\ UNCHANGED <<storeVars, issued, raced, boundVars>>

PowerLoss ==
  /\ losses < MaxLosses
  /\ losses' = losses + 1
  /\ file' \in recoverable
  /\ recoverable' = {file'}
  /\ lock' = NoProc
  /\ pc' = [p \in DOMAIN pc |-> IF pc[p] \in Active THEN "done" ELSE pc[p]]
  /\ outcome' = [p \in DOMAIN pc |-> IF pc[p] \in Active THEN "crashed" ELSE outcome[p]]
  /\ faulty' = TRUE
  /\ Forget(DOMAIN pc)
  /\ UNCHANGED <<keyring, issued, raced, edits>>

--------------------------------------------------------------------------------
\* A config that does not validate stops every command.
Command(p) ==
  /\ pc[p] = "load"
  /\ ValidConfig(CfgOf(file))
  /\ \/ AddServer(p) \/ AddAccount(p) \/ DefaultAccount(p) \/ RemoveAccount(p)
     \/ DefaultServer(p) \/ RemoveServer(p) \/ SetPrivilege(p) \/ ClearPrivilege(p)

\* What an invocation does by itself once it has started.
Step(p) ==
  \/ AcquireLock(p) \/ LockTimeout(p) \/ Refuse(p) \/ Command(p) \/ Decline(p) \/ Confirm(p)
  \/ StorePassword(p) \/ StoreFails(p) \/ CheckRevision(p) \/ Stage(p) \/ Publish(p)
  \/ PublishFails(p) \/ SyncDirectory(p) \/ SyncFails(p) \/ Undo(p) \/ UndoFails(p)
  \/ DeleteStale(p) \/ DeleteStaleFails(p) \/ CleanupDone(p) \/ Return(p)

Read(r) == ReadSecret(r) \/ ReadNoSecret(r)

\* Every invocation has returned.
AllDone ==
  /\ \A p \in Procs \cup Readers : pc[p] = "done"
  /\ UNCHANGED vars

Next ==
  \/ \E p \in Procs : Start(p) \/ Step(p)
  \/ \E r \in Readers : ReadConfig(r) \/ Read(r)
  \/ \E p \in Procs \cup Readers : Crash(p)
  \/ EditByHand
  \/ PowerLoss
  \/ AllDone

Spec == Init /\ [][Next]_vars

\* A live invocation keeps running, and the user answers its prompts.
FairSpec ==
  /\ Spec
  /\ \A p \in Procs : WF_vars(Step(p))
  /\ \A r \in Readers : WF_vars(Read(r))
--------------------------------------------------------------------------------
(***************************************************************************)
(* Properties.                                                             *)
(***************************************************************************)
TypeOK ==
  /\ file \in Config \cup {Missing}
  /\ recoverable \subseteq Config \cup {Missing}
  /\ DOMAIN keyring \subseteq Slot
  /\ lock \in Procs \cup {NoProc}
  /\ issued \in Nat
  /\ pc \in [Procs \cup Readers -> Active \cup {"start", "done"}]
  /\ base \in [Procs \cup Readers -> Config \cup {Missing}]
  /\ plan \in [Procs -> Plan]
  /\ todo \in [Procs -> SUBSET Slot]
  /\ outcome \in [Procs \cup Readers -> Outcomes]
  /\ raced \subseteq Procs /\ faulty \in BOOLEAN

\* Every password that servers.json refers to is in the keyring, whichever
\* version of servers.json a power loss leaves: a new key is stored before the
\* rename, an old one deleted only after the directory sync, and a save that
\* was published is never undone.
ReferencesResolve ==
  \A f \in recoverable \cup {file} : FileRefs(f) \subseteq DOMAIN keyring

\* The program can always load what it saved: no command publishes a config
\* its own load-time validation would reject.
ConfigAlwaysLoads == \A f \in recoverable \cup {file} : ValidConfig(CfgOf(f))

\* A command that reports success has deleted every entry it replaced, and its
\* new entry exists and is in use.
SuccessIsComplete ==
  \A p \in Procs : pc[p] = "return" /\ outcome[p] = "ok" =>
    /\ plan[p].stale \cap DOMAIN keyring = {}
    /\ plan[p].created \subseteq DOMAIN keyring \cap FileRefs(file)

\* When nothing is running and no call has failed and nothing has crashed, the
\* keyring holds the passwords servers.json refers to and no other.
NoOrphans ==
  ~faulty /\ (\A p \in Procs : pc[p] \notin Holding) => DOMAIN keyring = FileRefs(file)

\* No password outlives its use: neither behind a command's success nor, without
\* faults, behind any command at all.
NothingLeftBehind == SuccessIsComplete /\ NoOrphans

\* An entry of the keyring is never given another password: a registration
\* that fails half way leaves the password in use as it was.
SecretsNeverOverwritten ==
  [][\A s \in DOMAIN keyring \cap DOMAIN keyring' : keyring'[s] = keyring[s]]_vars

\* A command replaces the config it loaded and validated; only a hand edit that
\* falls between its revision check and its rename is lost.
NoLostUpdate ==
  [][\A p \in Procs : pc[p] = "publish" /\ pc'[p] = "sync" =>
       file = base[p] \/ p \in raced]_vars

\* run, put and get miss a password only when the config was changed after
\* they read it.
ReaderMissesOnlyIfChanged ==
  [][\A r \in Readers : pc[r] = "secret" /\ outcome'[r] = "error" => file # base[r]]_vars

\* A command that was started returns: it gets the lock or times out, and then
\* reaches its result whatever fails on the way.
CommandsReturn == \A p \in Procs : pc[p] = "lock" ~> pc[p] = "done"

\* The home implements its abstract promise.
AbstractHomeSpec == INSTANCE AbstractHome WITH
  Files <- Files, FileRefs <- FileRefs,
  file <- file, recoverable <- recoverable, keyring <- keyring
ImplementsAbstractHome == AbstractHomeSpec!Spec
================================================================================
