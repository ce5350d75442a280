-------------------------------- MODULE HostTrust --------------------------------
(***************************************************************************)
(* Host keys: trust fetches the key a server presents, has the user accept *)
(* it, fetches it once more and adds it to the home's known_hosts, all     *)
(* under .sshw.lock; run, put and get read known_hosts without the lock    *)
(* and give their credentials only to a server whose key is in it.         *)
(*                                                                         *)
(* A server may change its key and the user may edit known_hosts at any    *)
(* moment.  An endpoint stands for a host and a port; how libssh2 matches  *)
(* host names, hashed or not, is not modelled.                             *)
(***************************************************************************)
EXTENDS Naturals

CONSTANTS
  Endpoints,
  Keys,           \* host keys a server may present
  SupportedKeys,  \* those of a type that sshw can store
  Trusts,         \* invocations of trust
  Sessions,       \* invocations of run, put and get
  NoProc,
  FirstEntries,   \* what known_hosts may hold at first
  MaxChanges      \* bound: changes of a server's key or by the user

OneKeyEach(S) == \A x, y \in S : x[1] = y[1] => x = y

ASSUME TrustAssumption ==
  /\ SupportedKeys \subseteq Keys
  /\ NoProc \notin Trusts
  /\ Trusts \cap Sessions = {}
  /\ \A S \in FirstEntries : S \subseteq Endpoints \X SupportedKeys /\ OneKeyEach(S)
  /\ MaxChanges \in Nat

VARIABLES
  presented,  \* the key each endpoint presents
  entries,    \* the entries of known_hosts
  readable,   \* known_hosts parses; an edit that broke it leaves its entries
  lock,       \* the holder of .sshw.lock
  pc, target, \* of each invocation: its state and its endpoint
  key,        \* the key of an invocation's connection
  parsed,     \* the entries a trust read before it writes
  accepted,   \* endpoint and key, accepted by the user or by --yes
  kept,       \* trusted by sshw and not removed by the user since
  sent,       \* endpoint and key that were given credentials
  changes

fileVars == <<entries, readable>>
ghostVars == <<accepted, kept, sent>>
vars == <<presented, entries, readable, lock, pc, target, key, parsed, accepted, kept, sent,
          changes>>

Procs == Trusts \cup Sessions
Holding == {"fetch", "confirm", "refetch", "check", "write", "return"}
Host(p) == <<target[p], key[p]>>

Init ==
  /\ presented \in [Endpoints -> Keys]
  /\ entries \in FirstEntries
  /\ readable = TRUE
  /\ lock = NoProc
  /\ pc = [p \in Procs |-> "start"]
  /\ target \in [Procs -> Endpoints]
  /\ key \in [Procs -> Keys] /\ \A p \in Procs : key[p] = presented[target[p]]
  /\ parsed = [t \in Trusts |-> {}]
  /\ accepted = entries /\ kept = {} /\ sent = {}
  /\ changes = 0

--------------------------------------------------------------------------------
Goto(p, from, to) ==
  /\ pc[p] = from
  /\ pc' = [pc EXCEPT ![p] = to]

\* A connection knows the key the server presents when it is made.
SeesKey(p) == key' = [key EXCEPT ![p] = presented[target[p]]]

(***************************************************************************)
(* trust                                                                   *)
(***************************************************************************)
\* Fault: trust is not one of the commands that take the lock.
AcquireUnlocked(t) ==
  /\ Goto(t, "start", "fetch")
  /\ UNCHANGED <<presented, fileVars, lock, target, key, parsed, ghostVars, changes>>

AcquireLock(t) ==
  /\ Goto(t, "start", "fetch")
  /\ lock = NoProc
  /\ lock' = t
  /\ UNCHANGED <<presented, fileVars, target, key, parsed, ghostVars, changes>>

LockTimeout(t) ==
  /\ Goto(t, "start", "done")
  /\ lock # NoProc
  /\ UNCHANGED <<presented, fileVars, lock, target, key, parsed, ghostVars, changes>>

FetchKey(t) ==
  /\ Goto(t, "fetch", IF presented[target[t]] \in SupportedKeys THEN "confirm" ELSE "return")
  /\ SeesKey(t)
  /\ UNCHANGED <<presented, fileVars, lock, target, parsed, ghostVars, changes>>

\* Either connection may fail or time out.
TrustConnectFails(t) ==
  /\ \E from \in {"fetch", "refetch"} : Goto(t, from, "return")
  /\ UNCHANGED <<presented, fileVars, lock, target, key, parsed, ghostVars, changes>>

\* The user confirms the key that is shown, or has said --yes.
Accept(t) ==
  /\ Goto(t, "confirm", "refetch")
  /\ accepted' = accepted \cup {Host(t)}
  /\ UNCHANGED <<presented, fileVars, lock, target, key, parsed, kept, sent, changes>>

Decline(t) ==
  /\ Goto(t, "confirm", "return")
  /\ UNCHANGED <<presented, fileVars, lock, target, key, parsed, ghostVars, changes>>

\* Fault: the key of the second connection is taken as it is.
RefetchUncompared(t) ==
  /\ Goto(t, "refetch", IF presented[target[t]] \in SupportedKeys THEN "check" ELSE "return")
  /\ SeesKey(t)
  /\ UNCHANGED <<presented, fileVars, lock, target, parsed, ghostVars, changes>>

\* Fault: a key that has changed is asked about again and not fetched again.
RefetchAsksAgain(t) ==
  /\ Goto(t, "refetch", IF presented[target[t]] = key[t] THEN "check" ELSE "confirm")
  /\ UNCHANGED <<presented, fileVars, lock, target, key, parsed, ghostVars, changes>>

\* trust_host connects again and compares the fingerprint with the accepted one.
Refetch(t) ==
  /\ Goto(t, "refetch", IF presented[target[t]] = key[t] THEN "check" ELSE "return")
  /\ UNCHANGED <<presented, fileVars, lock, target, key, parsed, ghostVars, changes>>

\* Fault: another key of the endpoint does not count.
CheckExactEntry(t) ==
  /\ Goto(t, "check", IF readable /\ Host(t) \notin entries THEN "write" ELSE "return")
  /\ parsed' = [parsed EXCEPT ![t] = entries]
  /\ kept' = IF readable THEN kept \cup ({Host(t)} \cap entries) ELSE kept
  /\ UNCHANGED <<presented, fileVars, lock, target, key, accepted, sent, changes>>

\* Match, Mismatch and a file that does not parse return; NotFound goes on.
CheckKnownHosts(t) ==
  /\ Goto(t, "check", IF readable /\ \A x \in entries : x[1] # target[t]
                      THEN "write" ELSE "return")
  /\ parsed' = [parsed EXCEPT ![t] = entries]
  /\ kept' = IF readable THEN kept \cup ({Host(t)} \cap entries) ELSE kept
  /\ UNCHANGED <<presented, fileVars, lock, target, key, accepted, sent, changes>>

\* All entries that were read are written back, and the new one.
WriteKnownHosts(t) ==
  /\ Goto(t, "write", "return")
  /\ entries' = parsed[t] \cup {Host(t)}
  /\ readable' = TRUE
  /\ kept' = kept \cup {Host(t)}
  /\ UNCHANGED <<presented, lock, target, key, parsed, accepted, sent, changes>>

WriteFails(t) ==
  /\ Goto(t, "write", "return")
  /\ UNCHANGED <<presented, fileVars, lock, target, key, parsed, ghostVars, changes>>

Return(t) ==
  /\ Goto(t, "return", "done")
  /\ lock' = NoProc
  /\ parsed' = [parsed EXCEPT ![t] = {}]
  /\ UNCHANGED <<presented, fileVars, target, key, ghostVars, changes>>

TrustStep(t) ==
  \/ AcquireLock(t) \/ LockTimeout(t) \/ FetchKey(t) \/ TrustConnectFails(t) \/ Accept(t)
  \/ Decline(t) \/ Refetch(t) \/ CheckKnownHosts(t) \/ WriteKnownHosts(t) \/ WriteFails(t)
  \/ Return(t)

(***************************************************************************)
(* run, put and get                                                        *)
(***************************************************************************)
Connect(s) ==
  /\ Goto(s, "start", "verify")
  /\ SeesKey(s)
  /\ UNCHANGED <<presented, fileVars, lock, target, parsed, ghostVars, changes>>

ConnectFails(s) ==
  /\ Goto(s, "start", "done")
  /\ UNCHANGED <<presented, fileVars, lock, target, key, parsed, ghostVars, changes>>

VerifyKnownHost(s) ==
  /\ Goto(s, "verify", IF readable /\ Host(s) \in entries THEN "authenticate" ELSE "done")
  /\ UNCHANGED <<presented, fileVars, lock, target, key, parsed, ghostVars, changes>>

\* Fault: the credentials go over a connection of their own.
AuthenticateAnew(s) ==
  /\ Goto(s, "authenticate", "done")
  /\ sent' = sent \cup {<<target[s], presented[target[s]]>>}
  /\ UNCHANGED <<presented, fileVars, lock, target, key, parsed, accepted, kept, changes>>

Authenticate(s) ==
  /\ Goto(s, "authenticate", "done")
  /\ sent' = sent \cup {Host(s)}
  /\ UNCHANGED <<presented, fileVars, lock, target, key, parsed, accepted, kept, changes>>

SessionStep(s) == Connect(s) \/ ConnectFails(s) \/ VerifyKnownHost(s) \/ Authenticate(s)

(***************************************************************************)
(* The environment.                                                        *)
(***************************************************************************)
Changes ==
  /\ changes < MaxChanges
  /\ changes' = changes + 1

ServerChangesKey(e) ==
  /\ Changes
  /\ \E k \in Keys \ {presented[e]} : presented' = [presented EXCEPT ![e] = k]
  /\ UNCHANGED <<fileVars, lock, pc, target, key, parsed, ghostVars>>

UserRemoves(entry) ==
  /\ Changes
  /\ entries' = entries \ {entry}
  /\ kept' = kept \ {entry}
  /\ UNCHANGED <<presented, readable, lock, pc, target, key, parsed, accepted, sent>>

\* An edit that leaves a line that does not parse, or repairs it.
UserBreaksOrRepairs ==
  /\ Changes
  /\ readable' = ~readable
  /\ UNCHANGED <<presented, entries, lock, pc, target, key, parsed, ghostVars>>

\* An invocation is killed; the OS releases its lock.
Crash(p) ==
  /\ pc[p] \in Holding \cup {"verify", "authenticate"}
  /\ pc' = [pc EXCEPT ![p] = "done"]
  /\ lock' = IF lock = p THEN NoProc ELSE lock
  /\ parsed' = [t \in Trusts |-> IF t = p THEN {} ELSE parsed[t]]
  /\ UNCHANGED <<presented, fileVars, target, key, ghostVars, changes>>

AllDone ==
  /\ \A p \in Procs : pc[p] = "done"
  /\ UNCHANGED vars

Next ==
  \/ \E t \in Trusts : TrustStep(t)
  \/ \E s \in Sessions : SessionStep(s)
  \/ \E e \in Endpoints : ServerChangesKey(e)
  \/ \E entry \in entries : UserRemoves(entry)
  \/ UserBreaksOrRepairs
  \/ \E p \in Procs : Crash(p)
  \/ AllDone

Spec == Init /\ [][Next]_vars

\* Connections end by their deadline, and the user answers the prompt.
FairSpec ==
  /\ Spec
  /\ \A t \in Trusts : WF_vars(TrustStep(t))
  /\ \A s \in Sessions : WF_vars(SessionStep(s))

--------------------------------------------------------------------------------
(***************************************************************************)
(* Properties.                                                             *)
(***************************************************************************)
\* Type invariant; a key of an unsupported type is never stored.
TypeOK ==
  /\ presented \in [Endpoints -> Keys]
  /\ entries \subseteq Endpoints \X SupportedKeys
  /\ readable \in BOOLEAN
  /\ lock \in Trusts \cup {NoProc}
  /\ pc \in [Procs -> Holding \cup {"start", "verify", "authenticate", "done"}]
  /\ target \in [Procs -> Endpoints]
  /\ key \in [Procs -> Keys]
  /\ parsed \in [Trusts -> SUBSET (Endpoints \X SupportedKeys)]
  /\ changes \in 0..MaxChanges

\* Every key in known_hosts is one that was accepted for that endpoint, also if
\* the server changes its key between the prompt and the write.
TrustedKeysWereAccepted == entries \subseteq accepted

\* Credentials go only to a server whose key was accepted for that endpoint,
\* also if the server changes its key between the verification and the login.
CredentialsFollowAcceptance == sent \subseteq accepted

\* sshw never trusts a second key for an endpoint.
OneKeyPerEndpoint == OneKeyEach(entries)

\* A key that trust has stored stays until the user removes it: concurrent
\* trusts do not lose each other's entries.
TrustIsKept == kept \subseteq entries

\* Every invocation returns.
InvocationsReturn == <>(\A p \in Procs : pc[p] = "done")
================================================================================
