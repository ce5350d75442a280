------------------------------ MODULE SessionProofs ----------------------------
(***************************************************************************)
(* A session and its command: host keys are trusted and used as accepted,  *)
(* for every number of endpoints, keys and invocations and any changes of  *)
(* keys and entries; and what a run shows is the command's output with the *)
(* secrets masked, for scripts of any length, any window and limit, and    *)
(* every way of cutting the output into reads.                             *)
(*                                                                         *)
(* Most of the second part is about the redaction: how a text that is      *)
(* shown in whole lines comes to the same as a text that is shown at once, *)
(* and what can be left of a secret.  RunInv, its inductive invariant, is  *)
(* at the end.                                                             *)
(***************************************************************************)
EXTENDS HostTrust, RemoteRun, SequenceTheorems, WellFoundedInduction, TLAPS

(***************************************************************************)
(* The host keys.                                                          *)
(***************************************************************************)
\* One trust at a time; it stores what was accepted, next to entries no one
\* else has added to since it read them.
TrustOK(t) ==
  /\ pc[t] \in Holding => lock = t
  /\ pc[t] \in {"confirm", "refetch", "check", "write"} => key[t] \in SupportedKeys
  /\ pc[t] \in {"refetch", "check", "write"} => Host(t) \in accepted
  /\ pc[t] = "write" =>
       /\ entries \subseteq parsed[t]
       /\ parsed[t] \subseteq accepted
       /\ OneKeyEach(parsed[t])
       /\ \A x \in parsed[t] : x[1] # target[t]

SessionOK(s) == pc[s] = "authenticate" => Host(s) \in accepted

FileOK ==
  /\ TrustedKeysWereAccepted
  /\ CredentialsFollowAcceptance
  /\ OneKeyPerEndpoint
  /\ TrustIsKept

TrustInv ==
  /\ TypeOK
  /\ FileOK
  /\ \A t \in Trusts : TrustOK(t)
  /\ \A s \in Sessions : SessionOK(s)

--------------------------------------------------------------------------------
LEMMA TrustInvInit == Init => TrustInv
<1> SUFFICES ASSUME Init PROVE TrustInv
  OBVIOUS
<1>1. TypeOK
  BY TrustAssumption DEF Init, TypeOK, Holding
<1>2. FileOK
  BY TrustAssumption DEF Init, FileOK, TrustedKeysWereAccepted,
     CredentialsFollowAcceptance, OneKeyPerEndpoint, TrustIsKept
<1>3. \A t \in Trusts : TrustOK(t)
  BY DEF Init, TrustOK, Holding, Procs
<1>4. \A s \in Sessions : SessionOK(s)
  BY DEF Init, SessionOK, Procs
<1> QED BY <1>1, <1>2, <1>3, <1>4 DEF TrustInv

\* What an entry is, and that a new endpoint leaves one key for each.
LEMMA HostType ==
  ASSUME TypeOK, NEW p \in Procs
  PROVE  /\ Host(p) \in Endpoints \X Keys
         /\ Host(p)[1] = target[p]
         /\ key[p] \in SupportedKeys => Host(p) \in Endpoints \X SupportedKeys
BY DEF TypeOK, Host

LEMMA OneKeyAdded ==
  ASSUME NEW S, NEW h, OneKeyEach(S), \A x \in S : x[1] # h[1]
  PROVE  OneKeyEach(S \cup {h})
BY DEF OneKeyEach

--------------------------------------------------------------------------------
(***************************************************************************)
(* A trust's step disturbs no one else's invariant but through the lock.   *)
(***************************************************************************)
LEMMA TrustStepType ==
  ASSUME TrustInv, NEW t \in Trusts, TrustStep(t)
  PROVE  TypeOK'
<1> USE DEF TrustInv, TypeOK, Procs, Holding
<1>1. CASE AcquireLock(t)
  BY <1>1 DEF AcquireLock, Goto, fileVars, ghostVars
<1>2. CASE LockTimeout(t)
  BY <1>2 DEF LockTimeout, Goto, fileVars, ghostVars
<1>3. CASE FetchKey(t)
  BY <1>3 DEF FetchKey, Goto, SeesKey, fileVars, ghostVars
<1>4. CASE TrustConnectFails(t)
  BY <1>4 DEF TrustConnectFails, Goto, fileVars, ghostVars
<1>5. CASE Accept(t)
  BY <1>5 DEF Accept, Goto, fileVars
<1>6. CASE Decline(t)
  BY <1>6 DEF Decline, Goto, fileVars, ghostVars
<1>7. CASE Refetch(t)
  BY <1>7 DEF Refetch, Goto, fileVars, ghostVars
<1>8. CASE CheckKnownHosts(t)
  BY <1>8 DEF CheckKnownHosts, Goto, fileVars
<1>9. CASE WriteKnownHosts(t)
  <2>1. Host(t) \in Endpoints \X SupportedKeys
    BY <1>9, HostType DEF WriteKnownHosts, Goto, TrustOK
  <2> QED BY <1>9, <2>1 DEF WriteKnownHosts, Goto
<1>10. CASE WriteFails(t)
  BY <1>10 DEF WriteFails, Goto, fileVars, ghostVars
<1>11. CASE Return(t)
  BY <1>11 DEF Return, Goto, fileVars, ghostVars
<1> QED BY <1>1, <1>2, <1>3, <1>4, <1>5, <1>6, <1>7, <1>8, <1>9, <1>10, <1>11 DEF TrustStep

LEMMA TrustStepFile ==
  ASSUME TrustInv, NEW t \in Trusts, TrustStep(t)
  PROVE  FileOK'
<1> USE DEF FileOK, TrustedKeysWereAccepted, CredentialsFollowAcceptance, OneKeyPerEndpoint,
            TrustIsKept
<1>1. CASE CheckKnownHosts(t)
  BY <1>1 DEF TrustInv, CheckKnownHosts, fileVars
<1>2. CASE WriteKnownHosts(t)
  <2>1. /\ entries \subseteq parsed[t] /\ parsed[t] \subseteq accepted
        /\ OneKeyEach(parsed[t]) /\ \A x \in parsed[t] : x[1] # target[t]
        /\ Host(t) \in accepted
    BY <1>2 DEF TrustInv, WriteKnownHosts, Goto, TrustOK
  <2>2. Host(t)[1] = target[t]
    BY HostType DEF TrustInv, Procs
  <2>3. OneKeyEach(parsed[t] \cup {Host(t)})
    BY <2>1, <2>2, OneKeyAdded
  <2> QED BY <1>2, <2>1, <2>3 DEF TrustInv, WriteKnownHosts
<1>3. CASE Accept(t)
  BY <1>3 DEF TrustInv, Accept, fileVars
<1>4. CASE ~(CheckKnownHosts(t) \/ WriteKnownHosts(t) \/ Accept(t))
  <2>1. UNCHANGED <<entries, accepted, kept, sent>>
    BY <1>4 DEF TrustStep, AcquireLock, LockTimeout, FetchKey, TrustConnectFails, Decline,
       Refetch, WriteFails, Return, fileVars, ghostVars
  <2> QED BY <2>1 DEF TrustInv
<1> QED BY <1>1, <1>2, <1>3, <1>4

\* What a trust's step does to the other invocations.
LEMMA TrustStepOthers ==
  ASSUME TrustInv, NEW t \in Trusts, TrustStep(t)
  PROVE  /\ \A p \in Procs \ {t} : pc'[p] = pc[p] /\ key'[p] = key[p]
         /\ \A u \in Trusts \ {t} : parsed'[u] = parsed[u]
         /\ target' = target
         /\ accepted \subseteq accepted'
         /\ lock' # lock => \A u \in Trusts \ {t} : pc[u] \notin Holding
         /\ entries' # entries => \A u \in Trusts \ {t} : pc[u] \notin Holding
<1>1. /\ pc[t] \in Holding => lock = t
      /\ \A u \in Trusts \ {t} : pc[u] \in Holding => lock = u
  BY DEF TrustInv, TrustOK
<1>2. lock = t \/ lock = NoProc => \A u \in Trusts \ {t} : pc[u] \notin Holding
  BY <1>1, TrustAssumption
<1> QED
  BY <1>1, <1>2 DEF TrustInv, TypeOK, Procs, Holding, TrustStep, AcquireLock, LockTimeout,
     FetchKey, TrustConnectFails, Accept, Decline, Refetch, CheckKnownHosts, WriteKnownHosts,
     WriteFails, Return, Goto, SeesKey, fileVars, ghostVars

LEMMA TrustStepOther ==
  ASSUME TrustInv, NEW t \in Trusts, TrustStep(t), NEW u \in Trusts \ {t}
  PROVE  TrustOK(u)'
<1>1. /\ pc'[u] = pc[u] /\ key'[u] = key[u] /\ parsed'[u] = parsed[u] /\ target' = target
      /\ accepted \subseteq accepted'
      /\ pc[u] \in Holding => lock' = lock /\ entries' = entries
  BY TrustStepOthers DEF Procs
<1>2. TrustOK(u)
  BY DEF TrustInv
<1> QED BY <1>1, <1>2 DEF TrustOK, Host, Holding

LEMMA TrustStepSelf ==
  ASSUME TrustInv, NEW t \in Trusts, TrustStep(t)
  PROVE  TrustOK(t)'
<1>1. TrustOK(t) /\ TypeOK /\ FileOK
  BY DEF TrustInv
<1>2. pc[t] \in Holding => lock = t
  BY <1>1 DEF TrustOK
<1>3. pc \in [Procs -> Holding \cup {"start", "verify", "authenticate", "done"}] /\ t \in Procs
  BY <1>1 DEF TypeOK, Procs
<1>4. CASE AcquireLock(t)
  BY <1>3, <1>4 DEF AcquireLock, Goto, TrustOK, Holding
<1>5. CASE LockTimeout(t)
  BY <1>3, <1>5 DEF LockTimeout, Goto, TrustOK, Holding
<1>6. CASE FetchKey(t)
  <2>1. key'[t] = presented[target[t]]
    BY <1>1, <1>6 DEF FetchKey, SeesKey, TypeOK, Procs
  <2>2. /\ lock' = lock /\ pc[t] = "fetch"
        /\ pc'[t] = IF key'[t] \in SupportedKeys THEN "confirm" ELSE "return"
    BY <1>3, <1>6, <2>1 DEF FetchKey, Goto
  <2> QED BY <1>2, <2>2 DEF TrustOK, Holding
<1>7. CASE TrustConnectFails(t)
  BY <1>2, <1>3, <1>7 DEF TrustConnectFails, Goto, TrustOK, Holding
<1>8. CASE Accept(t)
  BY <1>1, <1>2, <1>3, <1>8 DEF Accept, Goto, TrustOK, Holding, Host
<1>9. CASE Decline(t)
  BY <1>2, <1>3, <1>9 DEF Decline, Goto, TrustOK, Holding
<1>10. CASE Refetch(t)
  BY <1>1, <1>2, <1>3, <1>10 DEF Refetch, Goto, TrustOK, Holding, Host, ghostVars
<1>11. CASE CheckKnownHosts(t)
  <2>1. /\ pc[t] = "check" /\ lock' = lock /\ key' = key /\ target' = target
        /\ entries' = entries /\ accepted' = accepted
        /\ parsed'[t] = entries
        /\ pc'[t] = IF readable /\ \A x \in entries : x[1] # target[t] THEN "write" ELSE "return"
    BY <1>1, <1>3, <1>11 DEF CheckKnownHosts, Goto, fileVars, TypeOK
  <2> QED
    BY <1>1, <1>2, <2>1 DEF TrustOK, Holding, Host, FileOK, TrustedKeysWereAccepted,
       OneKeyPerEndpoint
<1>12. CASE WriteKnownHosts(t)
  BY <1>2, <1>3, <1>12 DEF WriteKnownHosts, Goto, TrustOK, Holding
<1>13. CASE WriteFails(t)
  BY <1>2, <1>3, <1>13 DEF WriteFails, Goto, TrustOK, Holding
<1>14. CASE Return(t)
  BY <1>3, <1>14 DEF Return, Goto, TrustOK, Holding
<1> QED
  BY <1>4, <1>5, <1>6, <1>7, <1>8, <1>9, <1>10, <1>11, <1>12, <1>13, <1>14 DEF TrustStep

LEMMA TrustStepOK ==
  ASSUME TrustInv, NEW t \in Trusts, TrustStep(t)
  PROVE  TrustInv'
<1>1. \A u \in Trusts : TrustOK(u)'
  BY TrustStepSelf, TrustStepOther
<1>2. \A s \in Sessions : SessionOK(s)'
  <2> SUFFICES ASSUME NEW s \in Sessions PROVE SessionOK(s)'
    OBVIOUS
  <2>1. s \in Procs \ {t}
    BY TrustAssumption DEF Procs
  <2>2. pc'[s] = pc[s] /\ key'[s] = key[s] /\ target' = target /\ accepted \subseteq accepted'
    BY <2>1, TrustStepOthers
  <2> QED BY <2>2 DEF TrustInv, SessionOK, Host
<1> QED BY <1>1, <1>2, TrustStepType, TrustStepFile DEF TrustInv

--------------------------------------------------------------------------------
(***************************************************************************)
(* run, put and get.                                                       *)
(***************************************************************************)
LEMMA SessionStepOK ==
  ASSUME TrustInv, NEW s \in Sessions, SessionStep(s)
  PROVE  TrustInv'
<1>1. TypeOK /\ FileOK /\ SessionOK(s) /\ s \in Procs /\ s \notin Trusts
  BY TrustAssumption DEF TrustInv, Procs
<1>2. /\ pc' = [pc EXCEPT ![s] = pc'[s]]
      /\ pc'[s] \in {"verify", "authenticate", "done"}
      /\ key' = [key EXCEPT ![s] = key'[s]] /\ key'[s] \in Keys
      /\ UNCHANGED <<presented, entries, readable, lock, target, parsed, accepted, kept, changes>>
  BY <1>1 DEF SessionStep, Connect, ConnectFails, VerifyKnownHost, Authenticate, Goto, SeesKey,
     fileVars, ghostVars, TypeOK, Procs
<1>3. TypeOK'
  BY <1>1, <1>2 DEF TypeOK
<1>4. pc'[s] = "authenticate" => Host(s)' \in accepted
  BY <1>1 DEF SessionStep, Connect, ConnectFails, VerifyKnownHost, Authenticate, Goto, SeesKey,
     fileVars, ghostVars, TypeOK, FileOK, TrustedKeysWereAccepted, Host
<1>5. sent' \subseteq accepted
  BY <1>1 DEF SessionStep, Connect, ConnectFails, VerifyKnownHost, Authenticate, Goto,
     ghostVars, FileOK, CredentialsFollowAcceptance, SessionOK
<1>6. FileOK'
  BY <1>1, <1>2, <1>5 DEF FileOK, TrustedKeysWereAccepted, CredentialsFollowAcceptance,
     OneKeyPerEndpoint, TrustIsKept
<1>7. \A p \in Procs \ {s} : pc'[p] = pc[p] /\ key'[p] = key[p]
  BY <1>1, <1>2 DEF TypeOK
<1>8. ASSUME NEW t \in Trusts PROVE TrustOK(t)'
  <2>1. TrustOK(t) /\ t \in Procs \ {s}
    BY <1>1 DEF TrustInv, Procs
  <2> QED BY <1>2, <1>7, <2>1 DEF TrustOK, Host
<1>9. ASSUME NEW r \in Sessions PROVE SessionOK(r)'
  <2>1. SessionOK(r) /\ r \in Procs
    BY DEF TrustInv, Procs
  <2>2. CASE r = s
    BY <1>2, <1>4, <2>2 DEF SessionOK
  <2>3. CASE r # s
    BY <1>2, <1>7, <2>1, <2>3 DEF SessionOK, Host
  <2> QED BY <2>2, <2>3
<1> QED BY <1>3, <1>6, <1>8, <1>9 DEF TrustInv

--------------------------------------------------------------------------------
(***************************************************************************)
(* The environment.                                                        *)
(***************************************************************************)
LEMMA ChangesType ==
  ASSUME TypeOK, Changes
  PROVE  changes' \in 0..MaxChanges
BY TrustAssumption DEF TypeOK, Changes

LEMMA ServerChangesKeyOK ==
  ASSUME TrustInv, NEW e \in Endpoints, ServerChangesKey(e)
  PROVE  TrustInv'
<1>1. TypeOK /\ FileOK
  BY DEF TrustInv
<1>2. /\ UNCHANGED <<entries, readable, lock, pc, target, key, parsed, accepted, kept, sent>>
      /\ \E k \in Keys \ {presented[e]} : presented' = [presented EXCEPT ![e] = k]
  BY DEF ServerChangesKey, fileVars, ghostVars
<1>3. changes' \in 0..MaxChanges
  BY <1>1, ChangesType DEF ServerChangesKey
<1>4. TypeOK'
  BY <1>1, <1>2, <1>3 DEF TypeOK
<1> QED
  BY <1>2, <1>4 DEF TrustInv, FileOK, TrustedKeysWereAccepted, CredentialsFollowAcceptance,
     OneKeyPerEndpoint, TrustIsKept, TrustOK, SessionOK, Host

LEMMA UserRemovesOK ==
  ASSUME TrustInv, NEW entry \in entries, UserRemoves(entry)
  PROVE  TrustInv'
<1>1. TypeOK /\ FileOK
  BY DEF TrustInv
<1>2. /\ UNCHANGED <<presented, readable, lock, pc, target, key, parsed, accepted, sent>>
      /\ entries' \subseteq entries
      /\ kept' \subseteq entries'
  BY <1>1 DEF UserRemoves, FileOK, TrustIsKept
<1>3. changes' \in 0..MaxChanges
  BY <1>1, ChangesType DEF UserRemoves
<1>4. TypeOK'
  BY <1>1, <1>2, <1>3 DEF TypeOK
<1>5. FileOK'
  BY <1>1, <1>2 DEF FileOK, TrustedKeysWereAccepted, CredentialsFollowAcceptance,
     OneKeyPerEndpoint, OneKeyEach, TrustIsKept
<1> QED BY <1>2, <1>4, <1>5 DEF TrustInv, TrustOK, SessionOK, Host

LEMMA UserBreaksOrRepairsOK ==
  ASSUME TrustInv, UserBreaksOrRepairs
  PROVE  TrustInv'
<1>1. TypeOK /\ FileOK
  BY DEF TrustInv
<1>2. /\ UNCHANGED <<presented, entries, lock, pc, target, key, parsed, accepted, kept, sent>>
      /\ readable' \in BOOLEAN
  BY <1>1 DEF UserBreaksOrRepairs, ghostVars, TypeOK
<1>3. changes' \in 0..MaxChanges
  BY <1>1, ChangesType DEF UserBreaksOrRepairs
<1>4. TypeOK'
  BY <1>1, <1>2, <1>3 DEF TypeOK
<1> QED
  BY <1>2, <1>4 DEF TrustInv, FileOK, TrustedKeysWereAccepted, CredentialsFollowAcceptance,
     OneKeyPerEndpoint, TrustIsKept, TrustOK, SessionOK, Host

LEMMA CrashOK ==
  ASSUME TrustInv, NEW p \in Procs, Crash(p)
  PROVE  TrustInv'
<1>1. TypeOK /\ FileOK
  BY DEF TrustInv
<1>2. /\ UNCHANGED <<presented, entries, readable, target, key, accepted, kept, sent, changes>>
      /\ pc' = [pc EXCEPT ![p] = "done"]
      /\ lock' = IF lock = p THEN NoProc ELSE lock
      /\ parsed' = [t \in Trusts |-> IF t = p THEN {} ELSE parsed[t]]
  BY DEF Crash, fileVars, ghostVars
<1>3. TypeOK'
  BY <1>1, <1>2 DEF TypeOK
<1>4. FileOK'
  BY <1>1, <1>2 DEF FileOK, TrustedKeysWereAccepted, CredentialsFollowAcceptance,
     OneKeyPerEndpoint, TrustIsKept
<1>5. pc'[p] = "done" /\ \A q \in Procs \ {p} : pc'[q] = pc[q]
  BY <1>1, <1>2 DEF TypeOK
<1>6. ASSUME NEW t \in Trusts PROVE TrustOK(t)'
  <2>1. TrustOK(t) /\ t \in Procs
    BY DEF TrustInv, Procs
  <2>2. CASE t = p
    BY <1>5, <2>2 DEF TrustOK, Holding
  <2>3. CASE t # p
    BY <1>2, <1>5, <2>1, <2>3 DEF TrustOK, Host
  <2> QED BY <2>2, <2>3
<1>7. ASSUME NEW s \in Sessions PROVE SessionOK(s)'
  BY <1>2, <1>5 DEF TrustInv, SessionOK, Host, Procs
<1> QED BY <1>3, <1>4, <1>6, <1>7 DEF TrustInv

LEMMA TrustInvStep == TrustInv /\ [Next]_vars => TrustInv'
<1> SUFFICES ASSUME TrustInv, [Next]_vars PROVE TrustInv'
  OBVIOUS
<1>1. CASE UNCHANGED vars
  BY <1>1 DEF vars, TrustInv, TypeOK, FileOK, TrustedKeysWereAccepted,
     CredentialsFollowAcceptance, OneKeyPerEndpoint, TrustIsKept, TrustOK, SessionOK, Host
<1>2. CASE Next
  BY <1>1, <1>2, TrustStepOK, SessionStepOK, ServerChangesKeyOK, UserRemovesOK,
     UserBreaksOrRepairsOK, CrashOK DEF Next, AllDone
<1> QED BY <1>1, <1>2

THEOREM TrustInvariant == Spec => []TrustInv
BY TrustInvInit, TrustInvStep, PTL DEF Spec

--------------------------------------------------------------------------------
\* The variables keep their types, and no key of an unsupported type is stored.
THEOREM TypeCorrect == Spec => []TypeOK
<1>1. TrustInv => TypeOK
  BY DEF TrustInv
<1> QED BY <1>1, TrustInvariant, PTL

\* trust_host() adds only a key whose fingerprint was accepted.
THEOREM OnlyAcceptedKeysTrusted == Spec => []TrustedKeysWereAccepted
<1>1. TrustInv => TrustedKeysWereAccepted
  BY DEF TrustInv, FileOK
<1> QED BY <1>1, TrustInvariant, PTL

\* connect_verified_authenticated() logs in only where the key was accepted.
THEOREM CredentialsGoToAcceptedKeys == Spec => []CredentialsFollowAcceptance
<1>1. TrustInv => CredentialsFollowAcceptance
  BY DEF TrustInv, FileOK
<1> QED BY <1>1, TrustInvariant, PTL

\* trust_host() never stores a second key for an endpoint.
THEOREM OneKeyStored == Spec => []OneKeyPerEndpoint
<1>1. TrustInv => OneKeyPerEndpoint
  BY DEF TrustInv, FileOK
<1> QED BY <1>1, TrustInvariant, PTL

\* The lock of the home keeps concurrent trusts from losing an entry.
THEOREM TrustedKeysStay == Spec => []TrustIsKept
<1>1. TrustInv => TrustIsKept
  BY DEF TrustInv, FileOK
<1> QED BY <1>1, TrustInvariant, PTL

--------------------------------------------------------------------------------
(***************************************************************************)
(* Numbers and recursion.                                                  *)
(***************************************************************************)
LEMMA LessThan ==
  \E R : IsWellFoundedOn(R, Nat) /\ \A m, n \in Nat : m < n => <<m, n>> \in R
<1> DEFINE R == OpToRel(<, Nat)
<1>1. \A m, n \in Nat : m < n => <<m, n>> \in R
  BY DEF OpToRel
<1> QED BY <1>1, NatLessThanWellFounded, Zenon

LEMMA LeastNumber ==
  ASSUME NEW S, S \subseteq Nat, S # {}
  PROVE  \E n \in S : \A m \in S : n <= m
<1>1. PICK R : IsWellFoundedOn(R, Nat) /\ \A m, n \in Nat : m < n => <<m, n>> \in R
  BY LessThan, Zenon
<1>2. IsWellFoundedOn(R, Nat)
  BY <1>1
<1>3. PICK n \in S : \A m \in S : ~ (<<m, n>> \in R)
  BY <1>2, WFMin, Zenon
<1>4. \A m \in S : ~ (m < n)
  BY <1>1, <1>3
<1> QED BY <1>4

\* Induction over the natural numbers, for sets.
LEMMA AllNumbers ==
  ASSUME NEW S, 0 \in S, \A n \in Nat : n \in S => n + 1 \in S
  PROVE  Nat \subseteq S
<1> SUFFICES ASSUME Nat \ S # {} PROVE FALSE
  OBVIOUS
<1>1. PICK x \in Nat \ S : \A y \in Nat \ S : x <= y
  BY LeastNumber
<1>2. x # 0 /\ x - 1 \in Nat /\ x - 1 \in S
  BY <1>1
<1> QED BY <1>1, <1>2

\* A recursion over 0..N with values in X has a solution.
LEMMA RecursionIsDefined ==
  ASSUME NEW X, NEW x0 \in X, NEW N \in Nat, NEW step \in [1..N -> [X -> X]]
  PROVE  \E f \in [0..N -> X] : f[0] = x0 /\ \A i \in 1..N : f[i] = step[i][f[i - 1]]
<1> DEFINE Solves(f, n) == f[0] = x0 /\ \A i \in 1..n : f[i] = step[i][f[i - 1]]
           Solved == {n \in Nat : n <= N => \E f \in [0..n -> X] : Solves(f, n)}
<1>1. 0 \in Solved
  <2>1. Solves([i \in 0..0 |-> x0], 0)
    OBVIOUS
  <2> QED BY <2>1
<1>2. ASSUME NEW n \in Nat, n \in Solved, n + 1 <= N PROVE n + 1 \in Solved
  <2>1. PICK f \in [0..n -> X] : Solves(f, n)
    BY <1>2
  <2> DEFINE g == [i \in 0..(n + 1) |-> IF i = n + 1 THEN step[n + 1][f[n]] ELSE f[i]]
  <2>2. g \in [0..(n + 1) -> X]
    BY <1>2, <2>1
  <2>3. Solves(g, n + 1)
    <3>1. \A i \in 1..n : g[i] = f[i] /\ g[i - 1] = f[i - 1]
      BY <2>1
    <3>2. g[0] = f[0] /\ g[n] = f[n] /\ g[n + 1] = step[n + 1][f[n]]
      OBVIOUS
    <3> HIDE DEF g
    <3> QED BY <2>1, <3>1, <3>2
  <2> HIDE DEF g, Solves
  <2> QED BY <2>2, <2>3
<1>3. ASSUME NEW n \in Nat, n \in Solved PROVE n + 1 \in Solved
  <2>1. CASE n + 1 <= N
    BY <1>2, <1>3, <2>1
  <2>2. CASE ~(n + 1 <= N)
    BY <2>2
  <2> QED BY <2>1, <2>2
<1>4. Nat \subseteq Solved
  <2> HIDE DEF Solved
  <2> QED BY <1>1, <1>3, AllNumbers
<1> QED BY <1>4

(***************************************************************************)
(* Lines.                                                                  *)
(***************************************************************************)
\* The line of a position starts at the last line start up to it.
LEMMA LineOfHas ==
  ASSUME NEW text, NEW i \in Nat \ {0}
  PROVE  /\ LineOf(text, i) \in 1..i /\ LineStart(text, LineOf(text, i))
         /\ \A n \in (LineOf(text, i) + 1)..i : ~LineStart(text, n)
<1> DEFINE S == {d \in Nat : d < i /\ LineStart(text, i - d)}
<1>1. i - 1 \in S
  BY DEF LineStart
<1>2. PICK d \in S : \A m \in S : d <= m
  BY <1>1, LeastNumber
<1>3. i - d \in 1..i /\ LineStart(text, i - d)
  BY <1>2
<1>4. \A n \in ((i - d) + 1)..i : ~LineStart(text, n)
  <2> SUFFICES ASSUME NEW n \in ((i - d) + 1)..i, LineStart(text, n) PROVE FALSE
    OBVIOUS
  <2>1. i - n \in Nat /\ i - n < i /\ i - (i - n) = n /\ i - n < d
    BY <1>3
  <2>2. i - n \in S
    BY <2>1
  <2> QED BY <1>2, <2>1, <2>2
<1>5. \E j \in 1..i : LineStart(text, j) /\ \A n \in (j + 1)..i : ~LineStart(text, n)
  BY <1>3, <1>4
<1> HIDE DEF S
<1> QED BY <1>5 DEF LineOf

LEMMA LineOfIs ==
  ASSUME NEW text, NEW i \in Nat \ {0}, NEW j \in 1..i, LineStart(text, j),
         \A n \in (j + 1)..i : ~LineStart(text, n)
  PROVE  LineOf(text, i) = j
<1> DEFINE l == LineOf(text, i)
<1>1. l \in 1..i /\ LineStart(text, l) /\ \A n \in (l + 1)..i : ~LineStart(text, n)
  BY LineOfHas
<1> HIDE DEF l
<1>2. ~(l < j) /\ ~(j < l)
  BY <1>1
<1>3. l = j
  BY <1>1, <1>2
<1> QED BY <1>3 DEF l

\* The position behind another is on the same line, unless it starts one.
LEMMA SameLine ==
  ASSUME NEW text, NEW i \in Nat \ {0}, ~LineStart(text, i + 1)
  PROVE  LineOf(text, i + 1) = LineOf(text, i)
<1> DEFINE l == LineOf(text, i)
<1>1. l \in 1..i /\ LineStart(text, l) /\ \A n \in (l + 1)..i : ~LineStart(text, n)
  BY LineOfHas
<1> HIDE DEF l
<1>2. \A n \in (l + 1)..(i + 1) : ~LineStart(text, n)
  BY <1>1
<1>3. LineOf(text, i + 1) = l
  BY <1>1, <1>2, LineOfIs
<1> QED BY <1>3 DEF l

(***************************************************************************)
(* A text that begins with whole lines: what is behind them does not       *)
(* change them, and of them only the key matters that they leave open.     *)
(***************************************************************************)
WholeLines(text) == text = <<>> \/ text[Len(text)] = "nl"

LEMMA StartsBefore ==
  ASSUME NEW a \in Seq(Printable), NEW b \in Seq(Printable), NEW n \in 1..(Len(a) + 1)
  PROVE  LineStart(a \o b, n) = LineStart(a, n)
<1>1. n # 1 => n - 1 \in 1..Len(a) /\ n - 1 \in 1..(Len(a) + Len(b)) /\ (a \o b)[n - 1] = a[n - 1]
  BY ConcatProperties, LenProperties
<1> QED BY <1>1 DEF LineStart

LEMMA StartsBehind ==
  ASSUME NEW a \in Seq(Printable), NEW b \in Seq(Printable), WholeLines(a), NEW n \in 1..(Len(b) + 1)
  PROVE  LineStart(a \o b, Len(a) + n) = LineStart(b, n)
<1>0. Len(a) \in Nat /\ Len(b) \in Nat
  BY LenProperties
<1>1. CASE n = 1
  <2>1. CASE a = <<>>
    BY <1>0, <1>1, <2>1, EmptySeq DEF LineStart
  <2>2. CASE a # <<>>
    <3>1. Len(a) \in 1..(Len(a) + Len(b)) /\ a[Len(a)] = "nl"
      BY <1>0, <2>2, EmptySeq DEF WholeLines
    <3>2. (a \o b)[Len(a)] = "nl"
      BY <1>0, <3>1, ConcatProperties
    <3> QED BY <1>0, <1>1, <3>2 DEF LineStart
  <2> QED BY <2>1, <2>2
<1>2. CASE n # 1
  <2>1. Len(a) + n - 1 \in 1..(Len(a) + Len(b)) /\ ~(Len(a) + n - 1 <= Len(a))
        /\ Len(a) + n - 1 - Len(a) = n - 1 /\ Len(a) + n # 1
    BY <1>0, <1>2
  <2>2. (a \o b)[Len(a) + n - 1] = b[n - 1]
    BY <2>1, ConcatProperties
  <2> QED BY <1>2, <2>1, <2>2 DEF LineStart
<1> QED BY <1>1, <1>2

\* Where a BEGIN line starts, and where an END line does.
BeginsKey(text, i) == LineStart(text, i) /\ text[i] = "b"
EndsKey(text, i) == LineStart(text, i) /\ text[i] = "e"

LEMMA MarkersBefore ==
  ASSUME NEW a \in Seq(Printable), NEW b \in Seq(Printable), NEW n \in 1..Len(a)
  PROVE  /\ BeginsKey(a \o b, n) = BeginsKey(a, n) /\ EndsKey(a \o b, n) = EndsKey(a, n)
         /\ (a \o b)[n] = a[n]
<1>1. n \in 1..(Len(a) + Len(b)) /\ n \in 1..(Len(a) + 1) /\ n <= Len(a)
  BY LenProperties
<1>2. (a \o b)[n] = a[n]
  BY <1>1, ConcatProperties
<1>3. LineStart(a \o b, n) = LineStart(a, n)
  BY <1>1, StartsBefore
<1> QED BY <1>2, <1>3 DEF BeginsKey, EndsKey

LEMMA MarkersBehind ==
  ASSUME NEW a \in Seq(Printable), NEW b \in Seq(Printable), WholeLines(a), NEW n \in 1..Len(b)
  PROVE  /\ BeginsKey(a \o b, Len(a) + n) = BeginsKey(b, n)
         /\ EndsKey(a \o b, Len(a) + n) = EndsKey(b, n)
         /\ (a \o b)[Len(a) + n] = b[n]
<1>1. Len(a) \in Nat /\ Len(a) + n \in 1..(Len(a) + Len(b)) /\ n \in 1..(Len(b) + 1)
      /\ ~(Len(a) + n <= Len(a)) /\ Len(a) + n - Len(a) = n
  BY LenProperties
<1>2. (a \o b)[Len(a) + n] = b[n]
  BY <1>1, ConcatProperties
<1>3. LineStart(a \o b, Len(a) + n) = LineStart(b, n)
  BY <1>1, StartsBehind
<1> QED BY <1>2, <1>3 DEF BeginsKey, EndsKey

\* InsideKey by its markers.
LEMMA InsideKeyIs ==
  ASSUME NEW inKey \in BOOLEAN, NEW text, NEW i
  PROVE  InsideKey(inKey, text, i) <=>
           \E j \in 0..(i - 1) : /\ IF j = 0 THEN inKey ELSE BeginsKey(text, j)
                                 /\ \A n \in (j + 1)..(i - 1) : ~EndsKey(text, n)
BY Zenon DEF InsideKey, BeginsKey, EndsKey

LEMMA InsideIsBoolean ==
  ASSUME NEW inKey, NEW text, NEW i
  PROVE  InsideKey(inKey, text, i) \in BOOLEAN
BY DEF InsideKey

LEMMA InsideBefore ==
  ASSUME NEW inKey \in BOOLEAN, NEW a \in Seq(Printable), NEW b \in Seq(Printable),
         NEW i \in 1..(Len(a) + 1)
  PROVE  InsideKey(inKey, a \o b, i) = InsideKey(inKey, a, i)
<1>1. \A n \in 1..Len(a) :
        BeginsKey(a \o b, n) = BeginsKey(a, n) /\ EndsKey(a \o b, n) = EndsKey(a, n)
  BY MarkersBefore
<1>2. Len(a) \in Nat
  BY LenProperties
<1> DEFINE c == a \o b
<1> HIDE DEF c
<1>3. \A j \in 0..(i - 1) :
        ((IF j = 0 THEN inKey ELSE BeginsKey(c, j)) /\ \A n \in (j + 1)..(i - 1) : ~EndsKey(c, n))
        <=> ((IF j = 0 THEN inKey ELSE BeginsKey(a, j)) /\ \A n \in (j + 1)..(i - 1) : ~EndsKey(a, n))
  <2> SUFFICES ASSUME NEW j \in 0..(i - 1)
               PROVE  /\ j # 0 => BeginsKey(c, j) = BeginsKey(a, j)
                      /\ \A n \in (j + 1)..(i - 1) : EndsKey(c, n) = EndsKey(a, n)
    OBVIOUS
  <2>1. j # 0 => j \in 1..Len(a)
    BY <1>2
  <2>2. \A n \in (j + 1)..(i - 1) : n \in 1..Len(a)
    BY <1>2
  <2> QED BY <1>1, <2>1, <2>2 DEF c
<1>4. InsideKey(inKey, c, i) = InsideKey(inKey, a, i)
  <2>1. InsideKey(inKey, c, i) <=> InsideKey(inKey, a, i)
    BY <1>3, InsideKeyIs
  <2> QED BY <2>1, InsideIsBoolean
<1> QED BY <1>4 DEF c

LEMMA InsideBehind ==
  ASSUME NEW inKey \in BOOLEAN, NEW a \in Seq(Printable), NEW b \in Seq(Printable), WholeLines(a),
         NEW i \in 1..(Len(b) + 1)
  PROVE  InsideKey(inKey, a \o b, Len(a) + i) = InsideKey(InsideKey(inKey, a, Len(a) + 1), b, i)
<1> DEFINE c == a \o b
           L == Len(a)
           open == InsideKey(inKey, a, L + 1)
<1>1. \A n \in 1..L : BeginsKey(c, n) = BeginsKey(a, n) /\ EndsKey(c, n) = EndsKey(a, n)
  BY MarkersBefore
<1>2. \A n \in 1..Len(b) : BeginsKey(c, L + n) = BeginsKey(b, n) /\ EndsKey(c, L + n) = EndsKey(b, n)
  BY MarkersBehind
<1>3. L \in Nat /\ Len(b) \in Nat /\ open \in BOOLEAN
  BY LenProperties, InsideIsBoolean
<1>4. InsideKey(inKey, c, L + i) <=>
        \E j \in 0..(L + i - 1) : /\ IF j = 0 THEN inKey ELSE BeginsKey(c, j)
                                  /\ \A n \in (j + 1)..(L + i - 1) : ~EndsKey(c, n)
  BY InsideKeyIs
<1>5. InsideKey(open, b, i) <=>
        \E j \in 0..(i - 1) : /\ IF j = 0 THEN open ELSE BeginsKey(b, j)
                              /\ \A n \in (j + 1)..(i - 1) : ~EndsKey(b, n)
  BY <1>3, InsideKeyIs
<1>6. open <=> \E j \in 0..L : /\ IF j = 0 THEN inKey ELSE BeginsKey(a, j)
                               /\ \A n \in (j + 1)..L : ~EndsKey(a, n)
  BY <1>3, InsideKeyIs
<1> HIDE DEF c, L, open
<1>7. ASSUME InsideKey(inKey, c, L + i) PROVE InsideKey(open, b, i)
  <2>1. PICK j \in 0..(L + i - 1) : /\ IF j = 0 THEN inKey ELSE BeginsKey(c, j)
                                    /\ \A n \in (j + 1)..(L + i - 1) : ~EndsKey(c, n)
    BY <1>4, <1>7
  <2>2. CASE j <= L
    <3>1. \A n \in (j + 1)..L : n \in 1..L /\ n \in (j + 1)..(L + i - 1)
      BY <1>3
    <3>2. \A n \in (j + 1)..L : ~EndsKey(a, n)
      BY <1>1, <2>1, <3>1
    <3>3. IF j = 0 THEN inKey ELSE BeginsKey(a, j)
      BY <1>1, <1>3, <2>1, <2>2
    <3>4. open
      BY <1>3, <1>6, <2>2, <3>2, <3>3
    <3>5. \A n \in 1..(i - 1) : n \in 1..Len(b) /\ L + n \in (j + 1)..(L + i - 1)
      BY <1>3, <2>2
    <3>6. \A n \in (0 + 1)..(i - 1) : ~EndsKey(b, n)
      BY <1>2, <2>1, <3>5
    <3>7. 0 \in 0..(i - 1)
      BY <1>3
    <3> QED BY <1>5, <3>4, <3>6, <3>7
  <2>3. CASE j > L
    <3>1. j - L \in 1..(i - 1) /\ j - L \in 1..Len(b) /\ L + (j - L) = j /\ j # 0
      BY <1>3, <2>3
    <3>2. BeginsKey(b, j - L)
      BY <1>2, <2>1, <3>1
    <3>3. \A n \in ((j - L) + 1)..(i - 1) : n \in 1..Len(b) /\ L + n \in (j + 1)..(L + i - 1)
      BY <1>3, <3>1
    <3>4. \A n \in ((j - L) + 1)..(i - 1) : ~EndsKey(b, n)
      BY <1>2, <2>1, <3>3
    <3>5. j - L \in 0..(i - 1) /\ j - L # 0
      BY <3>1
    <3> QED BY <1>5, <3>2, <3>4, <3>5
  <2> QED BY <1>3, <2>2, <2>3
<1>8. ASSUME InsideKey(open, b, i) PROVE InsideKey(inKey, c, L + i)
  <2>1. PICK j \in 0..(i - 1) : /\ IF j = 0 THEN open ELSE BeginsKey(b, j)
                                /\ \A n \in (j + 1)..(i - 1) : ~EndsKey(b, n)
    BY <1>5, <1>8
  <2>2. CASE j = 0
    <3>1. PICK h \in 0..L : /\ IF h = 0 THEN inKey ELSE BeginsKey(a, h)
                            /\ \A n \in (h + 1)..L : ~EndsKey(a, n)
      BY <1>6, <2>1, <2>2
    <3>2. IF h = 0 THEN inKey ELSE BeginsKey(c, h)
      BY <1>1, <1>3, <3>1
    <3>3. ASSUME NEW n \in (h + 1)..(L + i - 1) PROVE ~EndsKey(c, n)
      <4>1. CASE n <= L
        BY <1>1, <1>3, <3>1, <3>3, <4>1
      <4>2. CASE n > L
        <5>1. n - L \in 1..(i - 1) /\ n - L \in 1..Len(b) /\ L + (n - L) = n
          BY <1>3, <3>3, <4>2
        <5> QED BY <1>2, <2>1, <2>2, <5>1
      <4> QED BY <1>3, <4>1, <4>2
    <3>4. h \in 0..(L + i - 1)
      BY <1>3
    <3> QED BY <1>4, <3>2, <3>3, <3>4
  <2>3. CASE j # 0
    <3>1. j \in 1..Len(b) /\ L + j \in 0..(L + i - 1) /\ L + j # 0
      BY <1>3, <2>3
    <3>2. BeginsKey(c, L + j)
      BY <1>2, <2>1, <2>3, <3>1
    <3>3. ASSUME NEW n \in ((L + j) + 1)..(L + i - 1) PROVE ~EndsKey(c, n)
      <4>1. n - L \in (j + 1)..(i - 1) /\ n - L \in 1..Len(b) /\ L + (n - L) = n
        BY <1>3, <3>1, <3>3
      <4> QED BY <1>2, <2>1, <4>1
    <3> QED BY <1>4, <3>1, <3>2, <3>3
  <2> QED BY <2>2, <2>3
<1>9. InsideKey(inKey, c, L + i) = InsideKey(open, b, i)
  BY <1>7, <1>8, InsideIsBoolean
<1> QED BY <1>9 DEF c, L, open

(***************************************************************************)
(* What is left of a text.                                                 *)
(***************************************************************************)
Visible == Printable \cup {"masked key", "masked"}

LEMMA MaskType ==
  ASSUME NEW text \in Seq(Printable), NEW i \in 1..Len(text), NEW partial
  PROVE  Mask(text, i, partial) \in Visible
<1>1. text[i] \in Printable
  BY ElementOfSeq
<1> QED BY <1>1 DEF Mask, Visible

LEMMA SurvivesBefore ==
  ASSUME NEW inKey \in BOOLEAN, NEW a \in Seq(Printable), NEW b \in Seq(Printable), WholeLines(a),
         NEW i \in 1..Len(a), NEW partial
  PROVE  /\ Survives(inKey, a \o b, i) <=> Survives(inKey, a, i)
         /\ Mask(a \o b, i, partial) = Mask(a, i, FALSE)
<1> DEFINE c == a \o b
           l == LineOf(a, i)
<1>1. /\ Len(a) \in Nat /\ Len(b) \in Nat /\ Len(c) = Len(a) + Len(b)
      /\ \A n \in 1..Len(a) : c[n] = a[n]
  BY LenProperties, ConcatProperties, MarkersBefore
<1>2. a[Len(a)] = "nl"
  BY <1>1, EmptySeq DEF WholeLines
<1>3. \A n \in 1..Len(a) : LineStart(c, n) = LineStart(a, n)
  BY <1>1, StartsBefore
<1>4. l \in 1..i /\ LineStart(a, l) /\ \A n \in (l + 1)..i : ~LineStart(a, n)
  BY LineOfHas
<1> HIDE DEF c, l
<1>5. LineStart(c, l) /\ \A n \in (l + 1)..i : ~LineStart(c, n)
  BY <1>1, <1>3, <1>4
<1>6. LineOf(c, i) = l
  BY <1>4, <1>5, LineOfIs
<1>7. \A n \in 0..Len(a) : SecretAt(c, n) = SecretAt(a, n)
  <2> SUFFICES ASSUME NEW n \in 0..Len(a) PROVE SecretAt(c, n) = SecretAt(a, n)
    OBVIOUS
  <2>1. CASE n = 0
    BY <2>1 DEF SecretAt
  <2>2. CASE n = Len(a)
    BY <1>1, <1>2, <2>2 DEF SecretAt
  <2>3. CASE n \in 1..(Len(a) - 1)
    <3>1. n + 1 \in 1..Len(a) /\ n \in 1..Len(a) /\ n < Len(c) /\ n < Len(a)
      BY <1>1, <2>3
    <3>2. c[n] = a[n] /\ c[n + 1] = a[n + 1]
      BY <1>1, <3>1
    <3> QED BY <3>1, <3>2 DEF SecretAt
  <2> QED BY <1>1, <2>1, <2>2, <2>3
<1>8. InsideKey(inKey, c, l) = InsideKey(inKey, a, l)
  BY <1>1, <1>4, InsideBefore DEF c
<1>9. /\ c[l] = a[l] /\ c[i] = a[i]
      /\ SecretAt(c, i - 1) = SecretAt(a, i - 1) /\ SecretAt(c, i) = SecretAt(a, i)
  BY <1>1, <1>4, <1>7
<1>10. Survives(inKey, c, i) <=> Survives(inKey, a, i)
  BY <1>6, <1>8, <1>9 DEF Survives, l
<1>11. ~(c[i] = "s1" /\ i = Len(c))
  BY <1>1, <1>2, <1>9
<1>12. Mask(c, i, partial) = Mask(a, i, FALSE)
  BY <1>3, <1>9, <1>11 DEF Mask
<1> QED BY <1>10, <1>12 DEF c

LEMMA SurvivesBehind ==
  ASSUME NEW inKey \in BOOLEAN, NEW a \in Seq(Printable), NEW b \in Seq(Printable), WholeLines(a),
         NEW i \in 1..Len(b), NEW partial
  PROVE  /\ Survives(inKey, a \o b, Len(a) + i) <=> Survives(InsideKey(inKey, a, Len(a) + 1), b, i)
         /\ Mask(a \o b, Len(a) + i, partial) = Mask(b, i, partial)
<1> DEFINE c == a \o b
           l == LineOf(b, i)
           L == Len(a)
           open == InsideKey(inKey, a, L + 1)
<1>1. /\ L \in Nat /\ Len(b) \in Nat /\ Len(c) = L + Len(b)
      /\ \A n \in 1..Len(b) : c[L + n] = b[n]
  BY LenProperties, ConcatProperties, MarkersBehind
<1>2. \A n \in 1..Len(b) : LineStart(c, L + n) = LineStart(b, n)
  <2>1. \A n \in 1..Len(b) : n \in 1..(Len(b) + 1)
    BY <1>1
  <2> QED BY <2>1, StartsBehind
<1>3. l \in 1..i /\ LineStart(b, l) /\ \A n \in (l + 1)..i : ~LineStart(b, n)
  BY LineOfHas
<1>4. InsideKey(inKey, c, L + l) = InsideKey(open, b, l)
  BY <1>1, <1>3, InsideBehind
<1>5. ~SecretAt(c, L)
  <2>1. CASE a = <<>>
    BY <1>1, <2>1, EmptySeq DEF SecretAt
  <2>2. CASE a # <<>>
    <3>1. L \in 1..L /\ a[L] = "nl"
      BY <1>1, <2>2, EmptySeq DEF WholeLines
    <3>2. c[L] = "nl"
      BY <3>1, MarkersBefore
    <3> QED BY <3>2 DEF SecretAt
  <2> QED BY <2>1, <2>2
<1> HIDE DEF c, l, L, open
<1>6. LineStart(c, L + l) /\ \A n \in ((L + l) + 1)..(L + i) : ~LineStart(c, n)
  <2>1. LineStart(c, L + l)
    BY <1>1, <1>2, <1>3
  <2>2. ASSUME NEW n \in ((L + l) + 1)..(L + i) PROVE ~LineStart(c, n)
    <3>1. n - L \in (l + 1)..i /\ n - L \in 1..Len(b) /\ L + (n - L) = n
      BY <1>1, <1>3
    <3> QED BY <1>2, <1>3, <3>1
  <2> QED BY <2>1, <2>2
<1>7. LineOf(c, L + i) = L + l
  BY <1>1, <1>3, <1>6, LineOfIs
<1>8. \A n \in 0..Len(b) : SecretAt(c, L + n) = SecretAt(b, n)
  <2> SUFFICES ASSUME NEW n \in 0..Len(b) PROVE SecretAt(c, L + n) = SecretAt(b, n)
    OBVIOUS
  <2>1. CASE n = 0
    BY <1>1, <1>5, <2>1 DEF SecretAt
  <2>2. CASE n = Len(b)
    BY <1>1, <2>2 DEF SecretAt
  <2>3. CASE n \in 1..(Len(b) - 1)
    <3>1. n + 1 \in 1..Len(b) /\ n \in 1..Len(b) /\ n < Len(b) /\ L + n < Len(c) /\ 1 <= n /\ 1 <= L + n
          /\ L + (n + 1) = (L + n) + 1
      BY <1>1, <2>3
    <3>2. c[L + n] = b[n] /\ c[(L + n) + 1] = b[n + 1]
      BY <1>1, <3>1
    <3> QED BY <3>1, <3>2 DEF SecretAt
  <2> QED BY <1>1, <2>1, <2>2, <2>3
<1>9. /\ c[L + l] = b[l] /\ c[L + i] = b[i] /\ LineStart(c, L + i) = LineStart(b, i)
      /\ SecretAt(c, (L + i) - 1) = SecretAt(b, i - 1) /\ SecretAt(c, L + i) = SecretAt(b, i)
      /\ (L + i = L + l <=> i = l) /\ (L + i = Len(c) <=> i = Len(b))
  <2>1. i - 1 \in 0..Len(b) /\ i \in 0..Len(b) /\ (L + i) - 1 = L + (i - 1) /\ l \in 1..Len(b)
    BY <1>1, <1>3
  <2>2. SecretAt(c, (L + i) - 1) = SecretAt(b, i - 1) /\ SecretAt(c, L + i) = SecretAt(b, i)
    BY <1>8, <2>1
  <2>3. (L + i = L + l <=> i = l) /\ (L + i = Len(c) <=> i = Len(b))
    <3>1. i \in Nat /\ l \in Nat /\ L \in Nat /\ Len(b) \in Nat /\ Len(c) = L + Len(b)
      BY <1>1, <1>3
    <3> QED BY <3>1
  <2> QED BY <1>1, <1>2, <2>1, <2>2, <2>3
<1>10. Survives(inKey, c, L + i) <=> Survives(open, b, i)
  <2>1. LineOf(b, i) = l
    BY DEF l
  <2> QED BY <1>4, <1>7, <1>9, <2>1 DEF Survives
<1>11. Mask(c, L + i, partial) = Mask(b, i, partial)
  BY <1>9 DEF Mask
<1> QED BY <1>10, <1>11 DEF c, L, open

\* Redacted, a recursive function, has a value at every beginning of the text.
Remains(f, inKey, text, partial) ==
  /\ f \in [0..Len(text) -> Seq(Visible)] /\ f[0] = <<>>
  /\ \A i \in 1..Len(text) :
       f[i] = IF Survives(inKey, text, i) THEN Append(f[i - 1], Mask(text, i, partial)) ELSE f[i - 1]

LEMMA RedactedHasSteps ==
  ASSUME NEW inKey, NEW text \in Seq(Printable), NEW partial
  PROVE  \E f : Remains(f, inKey, text, partial) /\ Redacted(inKey, text, partial) = f[Len(text)]
<1> DEFINE X == Seq(Visible)
           N == Len(text)
           Longer(done, i) ==
             IF Survives(inKey, text, i) THEN Append(done, Mask(text, i, partial)) ELSE done
           step == [i \in 1..N |-> [done \in X |-> Longer(done, i)]]
           Solves(f) == f = [i \in 0..N |-> IF i = 0 THEN <<>>
                                            ELSE IF Survives(inKey, text, i)
                                            THEN Append(f[i - 1], Mask(text, i, partial))
                                            ELSE f[i - 1]]
           upTo == CHOOSE f : Solves(f)
<1>1. N \in Nat /\ <<>> \in X
  BY LenProperties, EmptySeq
<1>2. ASSUME NEW i \in 1..N, NEW done \in X PROVE Longer(done, i) \in X
  <2>1. Mask(text, i, partial) \in Visible
    BY MaskType
  <2>2. Append(done, Mask(text, i, partial)) \in X
    BY <2>1, AppendProperties
  <2> QED BY <2>2
<1>3. PICK f \in [0..N -> X] : f[0] = <<>> /\ \A i \in 1..N : f[i] = step[i][f[i - 1]]
  <2>1. step \in [1..N -> [X -> X]]
    <3> HIDE DEF X, N, Longer
    <3> QED BY <1>2
  <2> DEFINE start == <<>>
  <2>2. N \in Nat /\ start \in X /\ step \in [1..N -> [X -> X]]
    BY <1>1, <2>1
  <2> HIDE DEF X, N, step, start
  <2>3. \E f \in [0..N -> X] : f[0] = start /\ \A i \in 1..N : f[i] = step[i][f[i - 1]]
    BY <2>2, RecursionIsDefined
  <2> QED BY <2>3 DEF start
<1>4. Remains(f, inKey, text, partial)
  <2>1. ASSUME NEW i \in 1..N PROVE f[i] = Longer(f[i - 1], i)
    <3>1. i - 1 \in 0..N
      BY <1>1
    <3>2. f[i - 1] \in X
      BY <1>3, <3>1
    <3> HIDE DEF X, N, Longer
    <3> QED BY <1>3, <3>2
  <2> QED BY <1>3, <2>1 DEF Remains
<1>5. \A g : Solves(g) <=> DOMAIN g = 0..N /\ g = [i \in 0..N |-> g[i]] /\ g[0] = <<>>
                           /\ \A i \in 1..N : g[i] = Longer(g[i - 1], i)
  <2> SUFFICES ASSUME NEW g
               PROVE Solves(g) <=> DOMAIN g = 0..N /\ g = [i \in 0..N |-> g[i]] /\ g[0] = <<>>
                                   /\ \A i \in 1..N : g[i] = Longer(g[i - 1], i)
    OBVIOUS
  <2> DEFINE e(i) == IF i = 0 THEN <<>> ELSE Longer(g[i - 1], i)
  <2>1. Solves(g) <=> g = [i \in 0..N |-> e(i)]
    OBVIOUS
  <2>2. e(0) = <<>> /\ \A i \in 1..N : e(i) = Longer(g[i - 1], i)
    BY <1>1
  <2>3. 0 \in 0..N /\ \A i \in 0..N : i = 0 \/ i \in 1..N
    BY <1>1
  <2>4. \A i \in 1..N : i \in 0..N
    BY <1>1
  <2> HIDE DEF e, Solves, N, Longer
  <2>5. ASSUME g = [i \in 0..N |-> e(i)]
        PROVE  DOMAIN g = 0..N /\ g = [i \in 0..N |-> g[i]] /\ g[0] = <<>>
               /\ \A i \in 1..N : g[i] = Longer(g[i - 1], i)
    BY <2>2, <2>3, <2>4, <2>5
  <2>6. ASSUME g = [i \in 0..N |-> g[i]], g[0] = <<>>,
               \A i \in 1..N : g[i] = Longer(g[i - 1], i)
        PROVE  g = [i \in 0..N |-> e(i)]
    <3>1. \A i \in 0..N : g[i] = e(i)
      BY <2>2, <2>3, <2>6
    <3>2. [i \in 0..N |-> g[i]] = [i \in 0..N |-> e(i)]
      BY <3>1
    <3> QED BY <2>6, <3>2
  <2> QED BY <2>1, <2>5, <2>6
<1>6. Solves(f)
  <2>1. DOMAIN f = 0..N /\ f = [i \in 0..N |-> f[i]]
    BY <1>3
  <2>2. \A i \in 1..N : f[i] = Longer(f[i - 1], i)
    BY <1>4 DEF Remains
  <2> HIDE DEF Solves, Longer
  <2> QED BY <1>3, <1>5, <2>1, <2>2
<1>7. Solves(upTo)
  <2> HIDE DEF Solves
  <2> QED BY <1>6, Zenon
<1>8. Redacted(inKey, text, partial) = upTo[N]
  BY DEF Redacted
<1> HIDE DEF upTo, Solves
<1>9. DOMAIN upTo = 0..N /\ upTo = [i \in 0..N |-> upTo[i]] /\ upTo[0] = <<>>
      /\ \A i \in 1..N : upTo[i] = Longer(upTo[i - 1], i)
  <2> HIDE DEF Longer
  <2> QED BY <1>5, <1>7
<1>10. \A i \in 0..N : upTo[i] = f[i]
  <2> DEFINE A == {i \in Nat : i <= N => upTo[i] = f[i]}
  <2>1. 0 \in A
    BY <1>3, <1>9
  <2>2. ASSUME NEW i \in Nat, i \in A PROVE i + 1 \in A
    <3>1. CASE i + 1 <= N
      <4>1. i + 1 \in 1..N /\ (i + 1) - 1 = i /\ i <= N
        BY <1>1, <3>1
      <4>2. f[i + 1] = Longer(f[i], i + 1)
        <5>1. f[i + 1] = Longer(f[(i + 1) - 1], i + 1)
          BY <1>4, <4>1 DEF Remains
        <5> HIDE DEF Longer
        <5> QED BY <4>1, <5>1
      <4>3. upTo[i + 1] = Longer(upTo[i], i + 1)
        <5> HIDE DEF Longer
        <5> QED BY <1>9, <4>1
      <4> HIDE DEF Longer
      <4> QED BY <2>2, <4>1, <4>2, <4>3
    <3>2. CASE ~(i + 1 <= N)
      BY <3>2
    <3> QED BY <3>1, <3>2
  <2>3. Nat \subseteq A
    <3> HIDE DEF A
    <3> QED BY <2>1, <2>2, AllNumbers
  <2> QED BY <2>3
<1> QED BY <1>1, <1>4, <1>8, <1>10

\* Whole lines are redacted by themselves.
LEMMA RedactedBehind ==
  ASSUME NEW a \in Seq(Printable), NEW b \in Seq(Printable), WholeLines(a), NEW partial
  PROVE  Redacted(FALSE, a \o b, partial) =
           Redacted(FALSE, a, FALSE) \o Redacted(InsideKey(FALSE, a, Len(a) + 1), b, partial)
<1> DEFINE inKey == FALSE
           c == a \o b
           L == Len(a)
           open == InsideKey(inKey, a, L + 1)
<1>0. inKey \in BOOLEAN
  OBVIOUS
<1> HIDE DEF inKey
<1>1. L \in Nat /\ Len(b) \in Nat /\ Len(c) = L + Len(b) /\ c \in Seq(Printable)
  BY LenProperties, ConcatProperties
<1>2. PICK f : Remains(f, inKey, c, partial) /\ Redacted(inKey, c, partial) = f[Len(c)]
  BY <1>1, RedactedHasSteps
<1>3. PICK g : Remains(g, inKey, a, FALSE) /\ Redacted(inKey, a, FALSE) = g[L]
  BY RedactedHasSteps
<1>4. PICK h : Remains(h, open, b, partial) /\ Redacted(open, b, partial) = h[Len(b)]
  BY RedactedHasSteps
<1>5. \A i \in 1..L : /\ Survives(inKey, c, i) <=> Survives(inKey, a, i)
                     /\ Mask(c, i, partial) = Mask(a, i, FALSE)
  BY <1>0, SurvivesBefore
<1>6. \A i \in 1..Len(b) : /\ Survives(inKey, c, L + i) <=> Survives(open, b, i)
                           /\ Mask(c, L + i, partial) = Mask(b, i, partial)
  BY <1>0, SurvivesBehind
<1> HIDE DEF c, L, open
<1>7. f[L] = g[L]
  <2> DEFINE A == {i \in Nat : i <= L => f[i] = g[i]}
  <2>1. 0 \in A
    BY <1>2, <1>3 DEF Remains
  <2>2. ASSUME NEW i \in Nat, i \in A, i + 1 <= L PROVE f[i + 1] = g[i + 1]
    <3>1. i + 1 \in 1..L /\ i + 1 \in 1..Len(c) /\ (i + 1) - 1 = i /\ f[i] = g[i]
      BY <1>1, <2>2
    <3>2. f[i + 1] = IF Survives(inKey, c, i + 1) THEN Append(f[i], Mask(c, i + 1, partial)) ELSE f[i]
      BY <1>2, <3>1 DEF Remains
    <3>3. g[i + 1] = IF Survives(inKey, a, i + 1) THEN Append(g[i], Mask(a, i + 1, FALSE)) ELSE g[i]
      BY <1>3, <3>1 DEF Remains, L
    <3>4. /\ Survives(inKey, c, i + 1) <=> Survives(inKey, a, i + 1)
          /\ Mask(c, i + 1, partial) = Mask(a, i + 1, FALSE)
      BY <1>5, <3>1
    <3> QED BY <3>1, <3>2, <3>3, <3>4
  <2>3. ASSUME NEW i \in Nat, i \in A PROVE i + 1 \in A
    BY <2>2, <2>3
  <2>4. Nat \subseteq A
    <3> HIDE DEF A
    <3> QED BY <2>1, <2>3, AllNumbers
  <2> QED BY <1>1, <2>4
<1>8. /\ g[L] \in Seq(Visible) /\ \A i \in 0..Len(b) : h[i] \in Seq(Visible)
  <2>1. g \in [0..L -> Seq(Visible)] /\ h \in [0..Len(b) -> Seq(Visible)]
    BY <1>3, <1>4 DEF Remains, L
  <2>2. L \in 0..L
    BY <1>1
  <2> QED BY <2>1, <2>2, Zenon
<1>9. f[L + Len(b)] = g[L] \o h[Len(b)]
  <2> DEFINE Joined(i) == i <= Len(b) => f[L + i] = g[L] \o h[i]
             A == {i \in Nat : Joined(i)}
  <2>1. 0 \in A
    <3>1. h[0] = <<>> /\ L + 0 = L
      BY <1>1, <1>4 DEF Remains
    <3>2. g[L] \o <<>> = g[L]
      BY <1>8, ConcatEmptySeq
    <3> QED BY <1>7, <3>1, <3>2
  <2>2. ASSUME NEW i \in Nat, i \in A, i + 1 <= Len(b) PROVE f[L + (i + 1)] = g[L] \o h[i + 1]
    <3>0. f[L + i] = g[L] \o h[i]
      <4>1. i <= Len(b)
        <5> HIDE DEF A
        <5> QED BY <1>1, <2>2
      <4> QED BY <2>2, <4>1
    <3>1. /\ i + 1 \in 1..Len(b) /\ L + (i + 1) \in 1..Len(c) /\ (i + 1) - 1 = i
          /\ (L + (i + 1)) - 1 = L + i /\ i \in 0..Len(b)
      <4> HIDE DEF A
      <4> QED BY <1>1, <2>2
    <3>2. f[L + (i + 1)] = IF Survives(inKey, c, L + (i + 1))
                           THEN Append(f[L + i], Mask(c, L + (i + 1), partial)) ELSE f[L + i]
      <4>1. f[L + (i + 1)] = IF Survives(inKey, c, L + (i + 1))
                             THEN Append(f[(L + (i + 1)) - 1], Mask(c, L + (i + 1), partial))
                             ELSE f[(L + (i + 1)) - 1]
        BY <1>2, <3>1 DEF Remains
      <4> QED BY <3>1, <4>1
    <3>3. h[i + 1] = IF Survives(open, b, i + 1) THEN Append(h[i], Mask(b, i + 1, partial)) ELSE h[i]
      <4>1. h[i + 1] = IF Survives(open, b, i + 1)
                       THEN Append(h[(i + 1) - 1], Mask(b, i + 1, partial)) ELSE h[(i + 1) - 1]
        BY <1>4, <3>1 DEF Remains
      <4> QED BY <3>1, <4>1
    <3>4. /\ Survives(inKey, c, L + (i + 1)) <=> Survives(open, b, i + 1)
          /\ Mask(c, L + (i + 1), partial) = Mask(b, i + 1, partial)
      BY <1>6, <3>1
    <3>5. ASSUME NEW x \in Visible PROVE Append(g[L] \o h[i], x) = g[L] \o Append(h[i], x)
      <4>1. g[L] \in Seq(Visible) /\ h[i] \in Seq(Visible)
        BY <1>8, <3>1
      <4>2. \A s, t \in Seq(Visible) : Append(s \o t, x) = s \o Append(t, x)
        <5> SUFFICES ASSUME NEW s \in Seq(Visible), NEW t \in Seq(Visible)
                     PROVE  Append(s \o t, x) = s \o Append(t, x)
          OBVIOUS
        <5>1. <<x>> \in Seq(Visible) /\ s \o t \in Seq(Visible)
          BY <3>5, ConcatProperties
        <5>2. Append(t, x) = t \o <<x>> /\ Append(s \o t, x) = (s \o t) \o <<x>>
          BY <3>5, <5>1, AppendIsConcat
        <5> QED BY <5>1, <5>2, ConcatAssociative
      <4> QED BY <4>1, <4>2, Zenon
    <3>6. Mask(b, i + 1, partial) \in Visible
      BY <3>1, MaskType
    <3> QED BY <3>0, <3>2, <3>3, <3>4, <3>5, <3>6
  <2>3. ASSUME NEW i \in Nat, i \in A PROVE i + 1 \in A
    <3>1. i + 1 <= Len(b) => f[L + (i + 1)] = g[L] \o h[i + 1]
      BY <2>2, <2>3
    <3>2. Joined(i + 1)
      BY <3>1
    <3> HIDE DEF Joined
    <3> QED BY <3>2
  <2>4. Nat \subseteq A
    <3> HIDE DEF A
    <3> QED BY <2>1, <2>3, AllNumbers
  <2>5. Len(b) \in A /\ Len(b) <= Len(b)
    <3> HIDE DEF A
    <3> QED BY <1>1, <2>4
  <2> QED BY <2>5
<1>10. Redacted(inKey, c, partial) = Redacted(inKey, a, FALSE) \o Redacted(open, b, partial)
  BY <1>1, <1>2, <1>3, <1>4, <1>9
<1> QED BY <1>10 DEF c, L, open, inKey

(***************************************************************************)
(* What a redacted text cannot show.                                       *)
(***************************************************************************)
\* The pieces of a redacted text are those that survive, in their order.
Traced(r, inKey, text, partial, n) ==
  /\ \A m \in 1..Len(r) : \E p \in 1..n : Survives(inKey, text, p) /\ r[m] = Mask(text, p, partial)
  /\ \A m \in 2..Len(r) : \E p \in 1..n : \E q \in (p + 1)..n :
       /\ Survives(inKey, text, p) /\ Survives(inKey, text, q)
       /\ \A i \in (p + 1)..(q - 1) : ~Survives(inKey, text, i)
       /\ r[m - 1] = Mask(text, p, partial) /\ r[m] = Mask(text, q, partial)
  /\ Len(r) # 0 => \E p \in 1..n :
       /\ Survives(inKey, text, p) /\ \A i \in (p + 1)..n : ~Survives(inKey, text, i)
       /\ r[Len(r)] = Mask(text, p, partial)

LEMMA TracedLonger ==
  ASSUME NEW inKey, NEW text \in Seq(Printable), NEW partial, NEW n \in Nat, n + 1 <= Len(text),
         NEW r \in Seq(Visible), Traced(r, inKey, text, partial, n),
         NEW s, s = IF Survives(inKey, text, n + 1) THEN Append(r, Mask(text, n + 1, partial)) ELSE r
  PROVE  s \in Seq(Visible) /\ Traced(s, inKey, text, partial, n + 1)
<1> DEFINE S(i) == Survives(inKey, text, i)
           M(i) == Mask(text, i, partial)
<1>0. n + 1 \in 1..Len(text) /\ M(n + 1) \in Visible /\ Len(r) \in Nat
  BY MaskType, LenProperties
<1>1. CASE ~S(n + 1)
  <2>1. s = r
    BY <1>1
  <2>2. \A i \in 1..n : i \in 1..(n + 1)
    OBVIOUS
  <2>3. \A p \in 1..n : \A q \in (p + 1)..n : q \in (p + 1)..(n + 1)
    OBVIOUS
  <2>4. \A p \in 1..n : (\A i \in (p + 1)..n : ~S(i)) => \A i \in (p + 1)..(n + 1) : ~S(i)
    BY <1>1
  <2> HIDE DEF S, M
  <2>5. Traced(r, inKey, text, partial, n) <=>
          /\ \A m \in 1..Len(r) : \E p \in 1..n : S(p) /\ r[m] = M(p)
          /\ \A m \in 2..Len(r) : \E p \in 1..n : \E q \in (p + 1)..n :
               S(p) /\ S(q) /\ (\A i \in (p + 1)..(q - 1) : ~S(i)) /\ r[m - 1] = M(p) /\ r[m] = M(q)
          /\ Len(r) # 0 => \E p \in 1..n :
               S(p) /\ (\A i \in (p + 1)..n : ~S(i)) /\ r[Len(r)] = M(p)
    BY Zenon DEF Traced, S, M
  <2>6. Traced(r, inKey, text, partial, n + 1) <=>
          /\ \A m \in 1..Len(r) : \E p \in 1..(n + 1) : S(p) /\ r[m] = M(p)
          /\ \A m \in 2..Len(r) : \E p \in 1..(n + 1) : \E q \in (p + 1)..(n + 1) :
               S(p) /\ S(q) /\ (\A i \in (p + 1)..(q - 1) : ~S(i)) /\ r[m - 1] = M(p) /\ r[m] = M(q)
          /\ Len(r) # 0 => \E p \in 1..(n + 1) :
               S(p) /\ (\A i \in (p + 1)..(n + 1) : ~S(i)) /\ r[Len(r)] = M(p)
    BY Zenon DEF Traced, S, M
  <2>7. Traced(r, inKey, text, partial, n + 1)
    BY <2>2, <2>3, <2>4, <2>5, <2>6, Zenon
  <2> QED BY <2>1, <2>7
<1>2. CASE S(n + 1)
  <2>1. /\ s \in Seq(Visible) /\ Len(s) = Len(r) + 1 /\ s[Len(r) + 1] = M(n + 1)
        /\ \A m \in 1..Len(r) : s[m] = r[m]
    BY <1>0, <1>2, AppendProperties
  <2>2. ASSUME NEW m \in 1..Len(s) PROVE \E p \in 1..(n + 1) : S(p) /\ s[m] = M(p)
    <3>1. CASE m = Len(r) + 1
      BY <1>2, <2>1, <3>1
    <3>2. CASE m \in 1..Len(r)
      <4>1. PICK p \in 1..n : S(p) /\ r[m] = M(p)
        BY <3>2 DEF Traced
      <4>2. p \in 1..(n + 1) /\ s[m] = M(p)
        BY <2>1, <3>2, <4>1
      <4> QED BY <4>1, <4>2
    <3> QED BY <1>0, <2>1, <3>1, <3>2
  <2>3. ASSUME NEW m \in 2..Len(s)
        PROVE  \E p \in 1..(n + 1) : \E q \in (p + 1)..(n + 1) :
                 /\ S(p) /\ S(q) /\ \A i \in (p + 1)..(q - 1) : ~S(i)
                 /\ s[m - 1] = M(p) /\ s[m] = M(q)
    <3>1. CASE m = Len(r) + 1
      <4>1. PICK p \in 1..n : S(p) /\ (\A i \in (p + 1)..n : ~S(i)) /\ r[Len(r)] = M(p)
        BY <1>0, <2>1, <3>1 DEF Traced
      <4>2. s[m - 1] = M(p) /\ s[m] = M(n + 1)
        BY <1>0, <2>1, <3>1, <4>1
      <4>3. n + 1 \in (p + 1)..(n + 1) /\ (n + 1) - 1 = n /\ p \in 1..(n + 1)
        OBVIOUS
      <4> HIDE DEF S, M
      <4> QED BY <1>2, <4>1, <4>2, <4>3
    <3>2. CASE m \in 2..Len(r)
      <4>0. PICK p \in 1..n : \E q \in (p + 1)..n :
              /\ S(p) /\ S(q) /\ \A i \in (p + 1)..(q - 1) : ~S(i)
              /\ r[m - 1] = M(p) /\ r[m] = M(q)
        BY <3>2 DEF Traced
      <4>1. PICK q \in (p + 1)..n :
              /\ S(p) /\ S(q) /\ \A i \in (p + 1)..(q - 1) : ~S(i)
              /\ r[m - 1] = M(p) /\ r[m] = M(q)
        BY <4>0
      <4>2. s[m - 1] = M(p) /\ s[m] = M(q) /\ p \in 1..(n + 1) /\ q \in (p + 1)..(n + 1)
        BY <1>0, <2>1, <3>2, <4>1
      <4> HIDE DEF S, M
      <4> QED BY <4>1, <4>2
    <3> QED BY <1>0, <2>1, <3>1, <3>2
  <2>4. /\ S(n + 1) /\ (\A i \in ((n + 1) + 1)..(n + 1) : ~S(i)) /\ s[Len(s)] = M(n + 1)
        /\ n + 1 \in 1..(n + 1)
    BY <1>2, <2>1
  <2>5. Traced(s, inKey, text, partial, n + 1)
    BY <2>2, <2>3, <2>4, Zenon DEF Traced
  <2> QED BY <2>1, <2>5
<1> QED BY <1>1, <1>2

LEMMA RedactedIsTraced ==
  ASSUME NEW inKey, NEW text \in Seq(Printable), NEW partial
  PROVE  /\ Redacted(inKey, text, partial) \in Seq(Visible)
         /\ Traced(Redacted(inKey, text, partial), inKey, text, partial, Len(text))
<1>1. PICK f : Remains(f, inKey, text, partial) /\ Redacted(inKey, text, partial) = f[Len(text)]
  BY RedactedHasSteps
<1>2. Len(text) \in Nat
  BY LenProperties
<1> DEFINE A == {i \in Nat : i <= Len(text) =>
                   f[i] \in Seq(Visible) /\ Traced(f[i], inKey, text, partial, i)}
<1>3. 0 \in A
  <2>1. f[0] = <<>> /\ <<>> \in Seq(Visible) /\ Len(<<>>) = 0
    BY <1>1, EmptySeq DEF Remains
  <2>2. Traced(<<>>, inKey, text, partial, 0)
    BY <2>1 DEF Traced
  <2> QED BY <2>1, <2>2
<1>4. ASSUME NEW i \in Nat, i \in A PROVE i + 1 \in A
  <2>1. CASE i + 1 <= Len(text)
    <3>1. i + 1 \in 1..Len(text) /\ (i + 1) - 1 = i /\ i <= Len(text)
      BY <1>2, <2>1
    <3>2. f[i] \in Seq(Visible) /\ Traced(f[i], inKey, text, partial, i)
      BY <1>4, <3>1
    <3>3. f[i + 1] = IF Survives(inKey, text, i + 1) THEN Append(f[i], Mask(text, i + 1, partial))
                     ELSE f[i]
      BY <1>1, <3>1 DEF Remains
    <3>4. f[i + 1] \in Seq(Visible) /\ Traced(f[i + 1], inKey, text, partial, i + 1)
      BY <2>1, <3>2, <3>3, TracedLonger
    <3> QED BY <3>4
  <2>2. CASE ~(i + 1 <= Len(text))
    BY <2>2
  <2> QED BY <2>1, <2>2
<1>5. Nat \subseteq A
  <2> HIDE DEF A
  <2> QED BY <1>3, <1>4, AllNumbers
<1> QED BY <1>1, <1>2, <1>5

\* The start of a secret is left only before something else, or at the end.
LEMMA SecretStart ==
  ASSUME NEW inKey, NEW text \in Seq(Printable), NEW partial, NEW p \in 1..Len(text),
         Survives(inKey, text, p), Mask(text, p, partial) = "s1"
  PROVE  /\ text[p] = "s1" /\ (p = Len(text) => ~partial)
         /\ p < Len(text) => text[p + 1] # "s2" /\ Survives(inKey, text, p + 1)
<1>1. text[p] = "s1" /\ ~SecretAt(text, p) /\ ~(partial /\ p = Len(text))
  BY DEF Mask
<1>2. ASSUME p < Len(text) PROVE text[p + 1] # "s2" /\ Survives(inKey, text, p + 1)
  <2>1. text[p + 1] # "s2"
    BY <1>1, <1>2 DEF SecretAt
  <2>2. ~LineStart(text, p + 1)
    <3>1. p + 1 # 1 /\ (p + 1) - 1 = p
      BY LenProperties
    <3> QED BY <1>1, <3>1 DEF LineStart
  <2>3. LineOf(text, p + 1) = LineOf(text, p)
    BY <2>2, SameLine, LenProperties
  <2>4. ~InsideKey(inKey, text, LineOf(text, p)) /\ text[LineOf(text, p)] # "b"
    BY <1>1 DEF Survives
  <2>5. (p + 1) - 1 = p
    BY LenProperties
  <2> QED BY <1>1, <2>1, <2>3, <2>4, <2>5 DEF Survives
<1> QED BY <1>1, <1>2

\* The body of a key is inside it.
Framed(text) == \A i \in 1..Len(text) : text[i] = "k" => InsideKey(FALSE, text, i)

LEMMA KeyBodyIsHidden ==
  ASSUME NEW text \in Seq(Printable), Framed(text), NEW p \in 1..Len(text), Survives(FALSE, text, p)
  PROVE  text[p] # "k"
<1> SUFFICES ASSUME text[p] = "k" PROVE FALSE
  OBVIOUS
<1> DEFINE l == LineOf(text, p)
<1>1. l \in 1..p /\ LineStart(text, l) /\ \A n \in (l + 1)..p : ~LineStart(text, n)
  BY LineOfHas, LenProperties
<1>2. InsideKey(FALSE, text, p)
  BY DEF Framed
<1>3. PICK j \in 0..(p - 1) : /\ j # 0 /\ BeginsKey(text, j)
                              /\ \A n \in (j + 1)..(p - 1) : ~EndsKey(text, n)
  BY <1>2, InsideKeyIs
<1>4. ~InsideKey(FALSE, text, l) /\ (text[l] = "b" => p = l)
  BY DEF Survives
<1> HIDE DEF l
<1>5. j <= l
  BY <1>1, <1>3 DEF BeginsKey
<1>6. j # l
  BY <1>1, <1>3, <1>4 DEF BeginsKey
<1>7. j \in 0..(l - 1) /\ \A n \in (j + 1)..(l - 1) : n \in (j + 1)..(p - 1)
  BY <1>1, <1>3, <1>5, <1>6
<1>8. InsideKey(FALSE, text, l)
  BY <1>3, <1>7, InsideKeyIs
<1> QED BY <1>4, <1>8

\* No part of a secret is shown that was not cut off at the very end.
NothingLeaks(r) ==
  ~Contains(r, "k") /\ \A i \in 2..Len(r) : <<r[i - 1], r[i]>> # <<"s1", "s2">>

LEMMA RedactedHides ==
  ASSUME NEW text \in Seq(Printable), Framed(text), NEW partial \in BOOLEAN
  PROVE  /\ NothingLeaks(Redacted(FALSE, text, partial))
         /\ partial \/ WholeLines(text) =>
              (Redacted(FALSE, text, partial) # <<>> => Last(Redacted(FALSE, text, partial)) # "s1")
<1> DEFINE r == Redacted(FALSE, text, partial)
<1>1. r \in Seq(Visible) /\ Traced(r, FALSE, text, partial, Len(text)) /\ Len(text) \in Nat
  BY RedactedIsTraced, LenProperties
<1> HIDE DEF r
<1>2. ~Contains(r, "k")
  <2> SUFFICES ASSUME NEW m \in 1..Len(r), r[m] = "k" PROVE FALSE
    BY DEF Contains
  <2>1. PICK p \in 1..Len(text) : Survives(FALSE, text, p) /\ r[m] = Mask(text, p, partial)
    BY <1>1 DEF Traced
  <2>2. text[p] = "k"
    BY <2>1 DEF Mask
  <2> QED BY <2>1, <2>2, KeyBodyIsHidden
<1>3. ASSUME NEW m \in 2..Len(r), r[m - 1] = "s1", r[m] = "s2" PROVE FALSE
  <2>0. PICK p \in 1..Len(text) : \E q \in (p + 1)..Len(text) :
          /\ Survives(FALSE, text, p) /\ Survives(FALSE, text, q)
          /\ \A i \in (p + 1)..(q - 1) : ~Survives(FALSE, text, i)
          /\ r[m - 1] = Mask(text, p, partial) /\ r[m] = Mask(text, q, partial)
    BY <1>1, <1>3 DEF Traced
  <2>1. PICK q \in (p + 1)..Len(text) :
          /\ Survives(FALSE, text, p) /\ Survives(FALSE, text, q)
          /\ \A i \in (p + 1)..(q - 1) : ~Survives(FALSE, text, i)
          /\ r[m - 1] = Mask(text, p, partial) /\ r[m] = Mask(text, q, partial)
    BY <2>0
  <2>2. p < Len(text)
    BY <1>1
  <2>3. text[p + 1] # "s2" /\ Survives(FALSE, text, p + 1)
    BY <1>3, <2>1, <2>2, SecretStart
  <2>4. q = p + 1
    <3>1. p + 1 \notin (p + 1)..(q - 1)
      BY <2>1, <2>3
    <3> QED BY <1>1, <2>2, <3>1
  <2>5. text[q] = "s2"
    BY <1>3, <2>1 DEF Mask
  <2> QED BY <2>3, <2>4, <2>5
<1>4. ASSUME partial \/ WholeLines(text), r # <<>>, r[Len(r)] = "s1" PROVE FALSE
  <2>1. PICK p \in 1..Len(text) : /\ Survives(FALSE, text, p)
                                  /\ \A i \in (p + 1)..Len(text) : ~Survives(FALSE, text, i)
                                  /\ r[Len(r)] = Mask(text, p, partial)
    BY <1>1, <1>4, EmptySeq DEF Traced
  <2>2. text[p] = "s1" /\ (p = Len(text) => ~partial)
        /\ (p < Len(text) => Survives(FALSE, text, p + 1))
    BY <1>4, <2>1, SecretStart
  <2>3. p = Len(text)
    <3>1. p < Len(text) => p + 1 \notin (p + 1)..Len(text)
      BY <2>1, <2>2
    <3> QED BY <1>1, <3>1
  <2>4. WholeLines(text) /\ text # <<>>
    BY <1>1, <1>4, <2>2, <2>3, EmptySeq
  <2> QED BY <2>2, <2>3, <2>4 DEF WholeLines
<1> QED BY <1>2, <1>3, <1>4 DEF NothingLeaks, Last, r

(***************************************************************************)
(* A text that is shown line by line.                                      *)
(***************************************************************************)
\* What was read is u and v, of which the lines of u are shown and v is kept.
Streamed(text, visible, r) ==
  \E u, v \in Seq(Printable) :
    /\ text = u \o v /\ WholeLines(u) /\ visible = Redacted(FALSE, u, FALSE)
    /\ r = [pending |-> v, inKey |-> InsideKey(FALSE, u, Len(u) + 1)]

LEMMA LastNewline ==
  ASSUME NEW text \in Seq(Printable)
  PROVE  LET end == SelectLastInSeq(text, LAMBDA x : x = "nl")
         IN  end \in 0..Len(text) /\ (end # 0 => text[end] = "nl")
<1> DEFINE I == {i \in 1..Len(text) : text[i] = "nl"}
           end == SelectLastInSeq(text, LAMBDA x : x = "nl")
<1>1. end = IF I # {} THEN Max(I) ELSE 0
  BY DEF SelectLastInSeq
<1>2. CASE I = {}
  BY <1>1, <1>2, LenProperties
<1>3. CASE I # {}
  <2> DEFINE D == {d \in Nat : d <= Len(text) /\ Len(text) - d \in I}
  <2>1. PICK k \in I : TRUE
    BY <1>3
  <2>2. Len(text) - k \in D
    BY <2>1, LenProperties
  <2>3. PICK d \in D : \A m \in D : d <= m
    BY <2>2, LeastNumber
  <2>4. \A i \in I : Len(text) - d >= i
    <3> SUFFICES ASSUME NEW i \in I PROVE Len(text) - d >= i
      OBVIOUS
    <3>1. Len(text) \in Nat /\ i \in 1..Len(text)
      BY LenProperties
    <3>2. Len(text) - i \in D
      BY <3>1
    <3>3. d <= Len(text) - i
      BY <2>3, <3>2
    <3> QED BY <2>3, <3>1, <3>3
  <2>5. \E x \in I : \A y \in I : x >= y
    BY <2>3, <2>4
  <2>6. Max(I) \in I
    BY <2>5 DEF Max
  <2> QED BY <1>1, <1>3, <2>6
<1> QED BY <1>2, <1>3

LEMMA Halves ==
  ASSUME NEW text \in Seq(Printable), NEW n \in 0..Len(text)
  PROVE  /\ SubSeq(text, 1, n) \in Seq(Printable) /\ Len(SubSeq(text, 1, n)) = n
         /\ \A i \in 1..n : SubSeq(text, 1, n)[i] = text[i]
         /\ SubSeq(text, n + 1, Len(text)) \in Seq(Printable)
         /\ text = SubSeq(text, 1, n) \o SubSeq(text, n + 1, Len(text))
<1>0. Len(text) \in Nat /\ \A i \in 1..Len(text) : text[i] \in Printable
  BY LenProperties, ElementOfSeq
<1>1. /\ SubSeq(text, 1, n) \in Seq(Printable) /\ Len(SubSeq(text, 1, n)) = n
      /\ \A i \in 1..n : SubSeq(text, 1, n)[i] = text[i]
  <2>1. /\ SubSeq(text, 1, n) \in Seq(Printable)
        /\ Len(SubSeq(text, 1, n)) = IF 1 <= n THEN n - 1 + 1 ELSE 0
        /\ \A i \in 1..(n - 1 + 1) : SubSeq(text, 1, n)[i] = text[1 + i - 1]
    BY <1>0, SubSeqProperties
  <2> QED BY <2>1
<1>2. SubSeq(text, n + 1, Len(text)) \in Seq(Printable)
  BY <1>0, SubSeqProperties
<1>3. SubSeq(text, 1, n) \o SubSeq(text, n + 1, Len(text)) = SubSeq(text, 1, Len(text))
  <2>1. 1 \in 1..(Len(text) + 1) /\ n \in (1 - 1)..Len(text) /\ Len(text) \in n..Len(text)
    BY <1>0
  <2> QED BY <2>1, ConcatAdjacentSubSeq
<1>4. SubSeq(text, 1, Len(text)) = text
  BY SubSeqFull
<1> QED BY <1>1, <1>2, <1>3, <1>4

LEMMA WholeLinesJoin ==
  ASSUME NEW a \in Seq(Printable), NEW b \in Seq(Printable), WholeLines(a), WholeLines(b)
  PROVE  WholeLines(a \o b)
<1>1. CASE b = <<>>
  BY <1>1, ConcatEmptySeq
<1>2. CASE b # <<>>
  <2>1. Len(b) \in 1..Len(b) /\ b[Len(b)] = "nl" /\ Len(a \o b) = Len(a) + Len(b)
    BY <1>2, EmptySeq, ConcatProperties DEF WholeLines
  <2>2. (a \o b)[Len(a) + Len(b)] = "nl"
    BY <2>1, MarkersBehind
  <2> QED BY <2>1, <2>2 DEF WholeLines
<1> QED BY <1>1, <1>2

LEMMA PushStreams ==
  ASSUME NEW text \in Seq(Printable), NEW visible, NEW r, Streamed(text, visible, r),
         NEW bytes \in Seq(Printable)
  PROVE  Streamed(text \o bytes, visible \o Push(r, bytes).text, Push(r, bytes).rest)
<1>1. PICK u \in Seq(Printable), v \in Seq(Printable) :
        /\ text = u \o v /\ WholeLines(u) /\ visible = Redacted(FALSE, u, FALSE)
        /\ r = [pending |-> v, inKey |-> InsideKey(FALSE, u, Len(u) + 1)]
  BY DEF Streamed
<1> DEFINE open == InsideKey(FALSE, u, Len(u) + 1)
           all == v \o bytes
           end == SelectLastInSeq(all, LAMBDA x : x = "nl")
           ready == SubSeq(all, 1, end)
           rest == SubSeq(all, end + 1, Len(all))
<1>2. Push(r, bytes) = [text |-> Redacted(open, ready, FALSE),
                        rest |-> [pending |-> rest, inKey |-> InsideKey(open, ready, end + 1)]]
  BY <1>1 DEF Push
<1>3. all \in Seq(Printable)
  BY ConcatProperties
<1>4. end \in 0..Len(all) /\ (end # 0 => all[end] = "nl")
  BY <1>3, LastNewline
<1> HIDE DEF end, all
<1>5. /\ ready \in Seq(Printable) /\ Len(ready) = end /\ rest \in Seq(Printable) /\ all = ready \o rest
      /\ \A i \in 1..end : ready[i] = all[i]
  BY <1>3, <1>4, Halves
<1>6. WholeLines(ready)
  <2>1. CASE end = 0
    BY <1>5, <2>1, EmptySeq DEF WholeLines
  <2>2. CASE end # 0
    <3>1. end \in 1..end
      BY <1>4, <2>2
    <3> QED BY <1>4, <1>5, <2>2, <3>1 DEF WholeLines
  <2> QED BY <2>1, <2>2
<1> HIDE DEF ready, rest
<1> DEFINE w == u \o ready
<1>7. w \in Seq(Printable) /\ Len(w) = Len(u) + Len(ready) /\ WholeLines(w) /\ Len(u) \in Nat
  BY <1>1, <1>5, <1>6, ConcatProperties, WholeLinesJoin, LenProperties
<1>8. text \o bytes = w \o rest
  <2>1. text \o bytes = u \o all
    BY <1>1, ConcatAssociative DEF all
  <2>2. u \o (ready \o rest) = w \o rest
    <3>1. rest \in Seq(Printable) /\ ready \in Seq(Printable)
      BY <1>5
    <3>2. \A s, t \in Seq(Printable) : (u \o s) \o t = u \o (s \o t)
      BY ConcatAssociative
    <3>3. (u \o ready) \o rest = u \o (ready \o rest)
      BY <3>1, <3>2, Zenon
    <3> QED BY <3>3
  <2> QED BY <1>5, <2>1, <2>2
<1>9. Redacted(FALSE, w, FALSE) = visible \o Redacted(open, ready, FALSE)
  <2>1. ready \in Seq(Printable) /\ WholeLines(u)
    BY <1>1, <1>5
  <2>2. \A partial :
          Redacted(FALSE, u \o ready, partial) =
            Redacted(FALSE, u, FALSE) \o Redacted(InsideKey(FALSE, u, Len(u) + 1), ready, partial)
    BY <2>1, RedactedBehind
  <2> QED BY <1>1, <2>2
<1>10. InsideKey(FALSE, w, Len(w) + 1) = InsideKey(open, ready, end + 1)
  <2>1. end + 1 \in 1..(Len(ready) + 1) /\ Len(w) + 1 = Len(u) + (end + 1)
    BY <1>4, <1>5, <1>7
  <2>2. InsideKey(FALSE, w, Len(u) + (end + 1)) = InsideKey(open, ready, end + 1)
    BY <1>1, <1>5, <2>1, InsideBehind
  <2> QED BY <2>1, <2>2
<1> HIDE DEF w, open
<1>11. Push(r, bytes).text = Redacted(open, ready, FALSE)
       /\ Push(r, bytes).rest = [pending |-> rest, inKey |-> InsideKey(FALSE, w, Len(w) + 1)]
  <2> DEFINE now == InsideKey(FALSE, w, Len(w) + 1)
             lines == Redacted(open, ready, FALSE)
  <2>1. Push(r, bytes) = [text |-> lines, rest |-> [pending |-> rest, inKey |-> now]]
    BY <1>2, <1>10, Zenon
  <2> HIDE DEF now, lines
  <2>2. Push(r, bytes).text = lines /\ Push(r, bytes).rest = [pending |-> rest, inKey |-> now]
    BY <2>1
  <2> QED BY <2>2 DEF now, lines
<1> QED BY <1>5, <1>7, <1>8, <1>9, <1>11 DEF Streamed

\* What the end of a run shows is the redaction of all that was read.
LEMMA FinishStreams ==
  ASSUME NEW text \in Seq(Printable), NEW visible, NEW r, Streamed(text, visible, r), NEW partial
  PROVE  visible \o Redacted(r.inKey, r.pending, partial) = Redacted(FALSE, text, partial)
<1>1. PICK u \in Seq(Printable), v \in Seq(Printable) :
        /\ text = u \o v /\ WholeLines(u) /\ visible = Redacted(FALSE, u, FALSE)
        /\ r = [pending |-> v, inKey |-> InsideKey(FALSE, u, Len(u) + 1)]
  BY DEF Streamed
<1>2. r.inKey = InsideKey(FALSE, u, Len(u) + 1) /\ r.pending = v
  BY <1>1
<1>3. Redacted(FALSE, u \o v, partial) =
        Redacted(FALSE, u, FALSE) \o Redacted(InsideKey(FALSE, u, Len(u) + 1), v, partial)
  BY <1>1, RedactedBehind
<1> QED BY <1>1, <1>2, <1>3

\* A beginning of a text with framed keys has them framed.
LEMMA FramedBeginning ==
  ASSUME NEW text \in Seq(Printable), Framed(text), NEW n \in 0..Len(text)
  PROVE  Framed(SubSeq(text, 1, n))
<1> DEFINE a == SubSeq(text, 1, n)
           b == SubSeq(text, n + 1, Len(text))
<1>1. a \in Seq(Printable) /\ Len(a) = n /\ b \in Seq(Printable) /\ text = a \o b
      /\ \A i \in 1..n : a[i] = text[i]
  BY Halves
<1> HIDE DEF a, b
<1>2. ASSUME NEW i \in 1..Len(a), a[i] = "k" PROVE InsideKey(FALSE, a, i)
  <2>1. i \in 1..Len(text) /\ i \in 1..(Len(a) + 1) /\ text[i] = "k"
    BY <1>1, <1>2, LenProperties
  <2>2. InsideKey(FALSE, a \o b, i) = InsideKey(FALSE, a, i)
    BY <1>1, <2>1, InsideBefore
  <2> QED BY <1>1, <2>1, <2>2 DEF Framed
<1> QED BY <1>2 DEF Framed, a

\* A beginning of a beginning is a beginning.
LEMMA BeginningOf ==
  ASSUME NEW text \in Seq(Printable), NEW n \in 0..Len(text), NEW u \in Seq(Printable),
         NEW v \in Seq(Printable), SubSeq(text, 1, n) = u \o v
  PROVE  Len(u) \in 0..n /\ u = SubSeq(text, 1, Len(u))
<1>1. Len(u) \in Nat /\ Len(v) \in Nat /\ Len(u \o v) = Len(u) + Len(v)
      /\ \A i \in 1..Len(u) : (u \o v)[i] = u[i]
  BY LenProperties, ConcatProperties, MarkersBefore
<1>2. Len(u) \in 0..n /\ Len(u) \in 0..Len(text)
  BY <1>1, Halves
<1>3. \A i \in 1..Len(u) : u[i] = text[i]
  <2>1. \A i \in 1..Len(u) : i \in 1..n
    BY <1>2
  <2> QED BY <1>1, <2>1, Halves
<1>4. /\ SubSeq(text, 1, Len(u)) \in Seq(Printable) /\ Len(SubSeq(text, 1, Len(u))) = Len(u)
      /\ \A i \in 1..Len(u) : SubSeq(text, 1, Len(u))[i] = text[i]
  BY <1>2, Halves
<1>5. u = SubSeq(text, 1, Len(u))
  BY <1>3, <1>4, SeqEqual
<1> QED BY <1>2, <1>5

(***************************************************************************)
(* The inductive invariant.                                                *)
(***************************************************************************)
RunTypeInv ==
  /\ script \in [Streams -> Seq(Printable)] /\ \A st \in Streams : Framed(script[st])
  /\ printed \in [Streams -> Nat] /\ got \in [Streams -> Seq(Printable)]
  /\ remote \in {"none", "running", "exited", "killed", "broken"}
  /\ streaming \in BOOLEAN /\ ended \subseteq Streams
  /\ phase \in {"exec", "input", "stdout", "stderr", "close", "done"}
  /\ shown \in [Streams -> Seq(Visible)] /\ DOMAIN redactor = Streams

\* What the client has read of a stream is a beginning of what was printed, and
\* a stream that has ended was read to its end.
ReadInv(st) ==
  /\ printed[st] <= Len(script[st])
  /\ Len(got[st]) <= printed[st] /\ got[st] = SubSeq(script[st], 1, Len(got[st]))
  /\ st \in ended => remote \in {"exited", "killed"} /\ Len(got[st]) = printed[st]
  /\ remote = "exited" => printed[st] = Len(script[st])

\* A beginning of the script, as it is shown in the end.
ShownAtEnd(st) ==
  \E n \in 0..printed[st], cut \in BOOLEAN :
    /\ shown[st] = Redacted(FALSE, SubSeq(script[st], 1, n), cut)
    /\ status = "error" => cut \/ WholeLines(SubSeq(script[st], 1, n)) \/ ended = Streams

OutputInv(st) ==
  /\ phase # "done" => IF streaming THEN Streamed(got[st], shown[st], redactor[st])
                    ELSE shown[st] = <<>>
  /\ phase = "done" => ShownAtEnd(st)
  /\ status = "ok" => shown[st] = Redacted(FALSE, script[st], FALSE)

OutcomeInv ==
  /\ phase = "exec" => remote = "none"
  /\ phase = "close" => ended = Streams
  /\ status = "none" <=> phase # "done"
  /\ status \in {"none", "ok", "error"}
  /\ status = "ok" => remote = "exited" /\ code = exitCode
  /\ Len(got["stdout"]) + Len(got["stderr"]) <= OutputLimit

RunInv == RunTypeInv /\ OutcomeInv /\ \A st \in Streams : ReadInv(st) /\ OutputInv(st)

\* The variables that OutputInv and the others read of one stream.
LEMMA Kept ==
  ASSUME RunInv, NEW st \in Streams
  PROVE  /\ script[st] \in Seq(Printable) /\ Framed(script[st]) /\ printed[st] \in Nat
         /\ got[st] \in Seq(Printable) /\ Len(got[st]) \in Nat /\ Len(script[st]) \in Nat
         /\ shown[st] \in Seq(Visible) /\ ReadInv(st) /\ OutputInv(st)
         /\ Len(got[st]) \in 0..printed[st] /\ Len(got[st]) \in 0..Len(script[st])
<1>1. /\ script[st] \in Seq(Printable) /\ Framed(script[st]) /\ printed[st] \in Nat
      /\ got[st] \in Seq(Printable) /\ shown[st] \in Seq(Visible) /\ ReadInv(st) /\ OutputInv(st)
  BY DEF RunInv, RunTypeInv
<1>2. Len(got[st]) \in Nat /\ Len(script[st]) \in Nat
  BY <1>1, LenProperties
<1> QED BY <1>1, <1>2 DEF ReadInv

LEMMA NothingShown ==
  /\ Redacted(FALSE, <<>>, FALSE) = <<>>
  /\ Streamed(<<>>, <<>>, [pending |-> <<>>, inKey |-> FALSE])
<1>1. <<>> \in Seq(Printable) /\ Len(<<>>) = 0 /\ <<>> \o <<>> = <<>>
  BY EmptySeq, ConcatEmptySeq
<1>2. ASSUME NEW inKey, NEW partial, NEW text \in Seq(Printable), Len(text) = 0
      PROVE  Redacted(inKey, text, partial) = <<>>
  <2>1. PICK f : Remains(f, inKey, text, partial) /\ Redacted(inKey, text, partial) = f[Len(text)]
    BY RedactedHasSteps
  <2> QED BY <1>2, <2>1 DEF Remains
<1>3. ~InsideKey(FALSE, <<>>, Len(<<>>) + 1)
  <2>1. \A j \in 0..0 : j = 0
    OBVIOUS
  <2> QED BY <1>1, <2>1 DEF InsideKey
<1>4. InsideKey(FALSE, <<>>, Len(<<>>) + 1) = FALSE
  BY <1>3, InsideIsBoolean
<1>5. WholeLines(<<>>)
  BY DEF WholeLines
<1> QED BY <1>1, <1>2, <1>4, <1>5 DEF Streamed

LEMMA RunInvInit == ASSUME RunAssumption, RunInit PROVE RunInv
<1>1. RunTypeInv
  <2>1. <<>> \in Seq(Printable) /\ <<>> \in Seq(Visible)
    BY EmptySeq
  <2>2. script \in [Streams -> Seq(Printable)] /\ \A st \in Streams : Framed(script[st])
    BY DEF RunInit, RunAssumption, Framed
  <2> QED BY <2>1, <2>2 DEF RunInit, RunTypeInv, Streams
<1>2. OutcomeInv
  <2>1. got["stdout"] = <<>> /\ got["stderr"] = <<>>
    BY DEF RunInit, Streams
  <2>2. Len(got["stdout"]) = 0 /\ Len(got["stderr"]) = 0
    BY <2>1, EmptySeq
  <2>3. Len(got["stdout"]) + Len(got["stderr"]) <= OutputLimit
    BY <2>2 DEF RunAssumption
  <2> QED BY <2>3 DEF RunInit, OutcomeInv
<1>3. ASSUME NEW st \in Streams PROVE ReadInv(st) /\ OutputInv(st)
  <2>1. /\ got[st] = <<>> /\ printed[st] = 0 /\ shown[st] = <<>> /\ Len(<<>>) = 0
        /\ redactor[st] = [pending |-> <<>>, inKey |-> FALSE]
    BY <1>3, EmptySeq DEF RunInit
  <2>2. Len(script[st]) \in Nat /\ SubSeq(script[st], 1, 0) = <<>>
    BY <1>1, <1>3, LenProperties, SubSeqEmpty DEF RunTypeInv
  <2> QED BY <2>1, <2>2, NothingShown DEF RunInit, ReadInv, OutputInv
<1> QED BY <1>1, <1>2, <1>3 DEF RunInv

\* What a run that ends at once has shown of a stream.
LEMMA FinalTextIs ==
  ASSUME RunInv, phase # "done", NEW st \in Streams, NEW failed
  PROVE  /\ FinalText(st, failed) = Redacted(FALSE, got[st], failed)
         /\ FinalText(st, failed) \in Seq(Visible)
<1>1. got[st] \in Seq(Printable) /\ OutputInv(st)
  BY Kept
<1>2. CASE streaming
  <2>1. Streamed(got[st], shown[st], redactor[st])
    BY <1>1, <1>2 DEF OutputInv
  <2>2. FinalText(st, failed) = Redacted(FALSE, got[st], failed)
    <3>1. shown[st] \o Redacted(redactor[st].inKey, redactor[st].pending, failed) =
            Redacted(FALSE, got[st], failed)
      <4> DEFINE text == got[st]
                 visible == shown[st]
                 r == redactor[st]
      <4>1. text \in Seq(Printable) /\ Streamed(text, visible, r)
        BY <1>1, <2>1
      <4> HIDE DEF text, visible, r
      <4>2. visible \o Redacted(r.inKey, r.pending, failed) = Redacted(FALSE, text, failed)
        BY <4>1, FinishStreams
      <4> QED BY <4>2 DEF text, visible, r
    <3> QED BY <1>2, <3>1 DEF FinalText
  <2> QED BY <1>1, <2>2, RedactedIsTraced
<1>3. CASE ~streaming
  BY <1>1, <1>3, RedactedIsTraced DEF FinalText
<1> QED BY <1>2, <1>3

\* What is shown of the finished lines is a beginning of the script as well.
LEMMA LinesShown ==
  ASSUME RunInv, phase # "done", NEW st \in Streams, streaming
  PROVE  \E n \in 0..printed[st] : /\ shown[st] = Redacted(FALSE, SubSeq(script[st], 1, n), FALSE)
                                   /\ WholeLines(SubSeq(script[st], 1, n))
<1>1. PICK u \in Seq(Printable), v \in Seq(Printable) :
        got[st] = u \o v /\ WholeLines(u) /\ shown[st] = Redacted(FALSE, u, FALSE)
  BY Kept DEF OutputInv, Streamed
<1>2. Len(u) \in 0..Len(got[st]) /\ u = SubSeq(script[st], 1, Len(u))
  <2>1. SubSeq(script[st], 1, Len(got[st])) = u \o v
    BY <1>1, Kept DEF ReadInv
  <2> QED BY <2>1, Kept, BeginningOf
<1>3. Len(u) \in 0..printed[st]
  BY <1>2, Kept
<1> QED BY <1>1, <1>2, <1>3

(***************************************************************************)
(* The command and its channel.                                            *)
(***************************************************************************)
LEMMA ShownStays ==
  ASSUME RunInv, NEW st \in Streams, ShownAtEnd(st), printed'[st] \in Nat, printed[st] <= printed'[st],
         UNCHANGED <<script, ended, shown, status>>
  PROVE  ShownAtEnd(st)'
<1>1. PICK n \in 0..printed[st], cut \in BOOLEAN :
        /\ shown[st] = Redacted(FALSE, SubSeq(script[st], 1, n), cut)
        /\ status = "error" => cut \/ WholeLines(SubSeq(script[st], 1, n)) \/ ended = Streams
  BY DEF ShownAtEnd
<1>2. n \in 0..printed'[st]
  BY Kept
<1>3. /\ shown'[st] = Redacted(FALSE, SubSeq(script'[st], 1, n), cut)
      /\ status' = "error" => cut \/ WholeLines(SubSeq(script'[st], 1, n)) \/ ended' = Streams
  BY <1>1
<1> QED BY <1>2, <1>3 DEF ShownAtEnd

LEMMA RemoteOK ==
  ASSUME RunInv, PrintPiece \/ ReadInput \/ Exit \/ Lost
  PROVE  RunInv'
<1>1. remote = "running" /\ UNCHANGED <<script, clientVars>>
  BY DEF PrintPiece, ReadInput, Exit, Lost
<1>2. /\ printed' \in [Streams -> Nat]
      /\ \A st \in Streams : printed[st] <= printed'[st] /\ printed'[st] <= Len(script[st])
  <2>1. CASE PrintPiece
    <3>1. PICK st \in Streams :
            printed[st] < Len(script[st]) /\ printed' = [printed EXCEPT ![st] = @ + 1]
      BY <2>1 DEF PrintPiece
    <3>2. printed \in [Streams -> Nat]
      BY DEF RunInv, RunTypeInv
    <3>3. \A t \in Streams :
            printed[t] \in Nat /\ printed[t] <= Len(script[t]) /\ Len(script[t]) \in Nat
      BY Kept DEF ReadInv
    <3> QED BY <3>1, <3>2, <3>3
  <2>2. CASE ~PrintPiece
    <3>1. printed' = printed
      BY <2>2 DEF ReadInput, Exit, Lost
    <3> QED BY <3>1, Kept DEF RunInv, RunTypeInv, ReadInv
  <2> QED BY <2>1, <2>2
<1>3. remote' \in {"running", "exited", "killed", "broken"}
      /\ (remote' = "exited" => \A st \in Streams : printed'[st] = Len(script[st]))
  BY <1>1 DEF PrintPiece, ReadInput, Exit, Lost
<1>4. \A st \in Streams : st \notin ended
  <2>1. ASSUME NEW st \in Streams PROVE st \notin ended
    BY <1>1, Kept DEF ReadInv
  <2> QED BY <2>1
<1>5. phase # "exec" /\ status # "ok"
  BY <1>1 DEF RunInv, OutcomeInv
<1>6. RunTypeInv' /\ OutcomeInv'
  BY <1>1, <1>2, <1>3, <1>5 DEF RunInv, RunTypeInv, OutcomeInv, clientVars, Streams
<1>7. ASSUME NEW st \in Streams PROVE ReadInv(st)' /\ OutputInv(st)'
  <2>1. ReadInv(st)'
    <3>1. Len(got[st]) \in Nat /\ printed[st] \in Nat /\ printed'[st] \in Nat /\ ReadInv(st)
      BY <1>2, Kept
    <3>2. Len(got[st]) <= printed'[st]
      BY <1>2, <3>1 DEF ReadInv
    <3> QED BY <1>1, <1>2, <1>3, <1>4, <3>1, <3>2 DEF ReadInv, clientVars
  <2>2. phase = "done" => ShownAtEnd(st)'
    <3>1. printed'[st] \in Nat /\ printed[st] <= printed'[st]
      BY <1>2
    <3>2. UNCHANGED <<script, ended, shown, status>>
      BY <1>1 DEF clientVars
    <3>3. phase = "done" => ShownAtEnd(st)
      BY Kept DEF OutputInv
    <3> QED BY <3>1, <3>2, <3>3, ShownStays
  <2>3. OutputInv(st)'
    <3>1. OutputInv(st)
      BY Kept
    <3>2. /\ phase' = phase /\ streaming' = streaming /\ got' = got /\ shown' = shown
          /\ redactor' = redactor /\ status' = status /\ script' = script
      BY <1>1 DEF clientVars
    <3> QED BY <1>5, <2>2, <3>1, <3>2 DEF OutputInv
  <2> QED BY <2>1, <2>3
<1> QED BY <1>6, <1>7 DEF RunInv

(***************************************************************************)
(* The steps of the client that show nothing.                              *)
(***************************************************************************)
Waits == \/ Exec \/ SendInput
         \/ \E st \in Streams : WouldBlock(st) \/ EndOfStream(st)

LEMMA WaitsOK == ASSUME RunInv, Waits PROVE RunInv'
<1>1. /\ UNCHANGED <<script, printed, exitCode, streaming, got, redactor, shown, status, code>>
      /\ phase \in {"exec", "input", "stdout", "stderr"}
      /\ phase' \in {"input", "stdout", "stderr", "close"}
      /\ remote' = remote \/ (remote = "none" /\ remote' = "running")
  BY DEF Waits, Exec, SendInput, WouldBlock, EndOfStream, NextStream, remoteVars, Streams, Other,
         RunInv, OutcomeInv
<1>2. /\ ended' \subseteq Streams
      /\ phase' = "close" => ended' = Streams
      /\ \A st \in Streams : st \in ended' => remote' = remote /\ (st \in ended \/
           (printed[st] - Len(got[st]) = 0 /\ remote \in {"exited", "killed"}))
  <2>1. ended \subseteq Streams /\ (phase = "exec" => remote = "none")
    BY DEF RunInv, RunTypeInv, OutcomeInv
  <2>2. \A st \in Streams : st \in ended => remote \in {"exited", "killed"}
    <3>1. ASSUME NEW st \in Streams, st \in ended PROVE remote \in {"exited", "killed"}
      BY <3>1, Kept DEF ReadInv
    <3> QED BY <3>1
  <2>3. CASE Exec
    BY <2>1, <2>2, <2>3 DEF Exec
  <2>4. CASE SendInput
    BY <2>1, <2>4 DEF SendInput, remoteVars
  <2>5. ASSUME NEW st \in Streams, WouldBlock(st) \/ EndOfStream(st)
        PROVE  /\ ended' \subseteq Streams /\ remote' = remote
               /\ phase' = "close" => ended' = Streams
               /\ \A t \in Streams : t \in ended' => t \in ended \/
                    (printed[t] - Len(got[t]) = 0 /\ remote \in {"exited", "killed"})
    BY <2>1, <2>5 DEF WouldBlock, EndOfStream, NextStream, remoteVars, Streams, Other, Unread
  <2> QED BY <2>3, <2>4, <2>5 DEF Waits
<1>3. RunTypeInv' /\ OutcomeInv'
  BY <1>1, <1>2 DEF RunInv, RunTypeInv, OutcomeInv, Streams
<1>4. ASSUME NEW st \in Streams PROVE ReadInv(st)' /\ OutputInv(st)'
  <2>1. Len(got[st]) \in Nat /\ printed[st] \in Nat /\ ReadInv(st) /\ OutputInv(st)
    BY Kept
  <2>2. st \in ended' => remote' \in {"exited", "killed"} /\ Len(got[st]) = printed[st]
    BY <1>2, <2>1 DEF ReadInv
  <2>3. ReadInv(st)'
    BY <1>1, <2>1, <2>2 DEF ReadInv
  <2>4. OutputInv(st)'
    BY <1>1, <2>1 DEF OutputInv, RunInv, OutcomeInv
  <2> QED BY <2>3, <2>4
<1> QED BY <1>3, <1>4 DEF RunInv

(***************************************************************************)
(* Reading.                                                                *)
(***************************************************************************)
LEMMA Arrival ==
  ASSUME RunInv, NEW st \in Streams, NEW n \in 1..Unread(st)
  PROVE  /\ n \in Nat /\ Len(got[st]) + n \in 0..printed[st]
         /\ Arrived(st, n) \in Seq(Printable)
         /\ got[st] \o Arrived(st, n) \in Seq(Printable)
         /\ Len(got[st] \o Arrived(st, n)) = Len(got[st]) + n
         /\ got[st] \o Arrived(st, n) = SubSeq(script[st], 1, Len(got[st]) + n)
<1> DEFINE s == script[st]
           L == Len(got[st])
<1>1. /\ s \in Seq(Printable) /\ Len(s) \in Nat /\ printed[st] \in Nat /\ L \in Nat
      /\ printed[st] <= Len(s) /\ got[st] = SubSeq(s, 1, L) /\ got[st] \in Seq(Printable)
  BY Kept DEF ReadInv
<1>2. n \in Nat /\ L + n \in 0..printed[st] /\ L + n \in 0..Len(s)
  BY <1>1 DEF Unread
<1> HIDE DEF s, L
<1>3. SubSeq(s, 1, L) \o SubSeq(s, L + 1, L + n) = SubSeq(s, 1, L + n)
  <2>1. 1 \in 1..(Len(s) + 1) /\ L \in (1 - 1)..Len(s) /\ L + n \in L..Len(s)
    BY <1>1, <1>2
  <2> QED BY <1>1, <2>1, ConcatAdjacentSubSeq
<1>4. SubSeq(s, L + 1, L + n) \in Seq(Printable)
  BY <1>1, <1>2, SubSeqProperties
<1>5. SubSeq(s, 1, L + n) \in Seq(Printable) /\ Len(SubSeq(s, 1, L + n)) = L + n
  BY <1>1, <1>2, Halves
<1>6. Arrived(st, n) = SubSeq(s, L + 1, L + n)
  BY DEF Arrived, s, L
<1>7. got[st] \o Arrived(st, n) = SubSeq(s, 1, L + n)
  BY <1>1, <1>3, <1>6
<1> QED BY <1>2, <1>4, <1>5, <1>6, <1>7 DEF s, L

LEMMA StreamedType ==
  ASSUME NEW text, NEW visible, NEW r, Streamed(text, visible, r)
  PROVE  visible \in Seq(Visible)
BY RedactedIsTraced DEF Streamed

\* A read takes some of what has arrived and keeps within the limit.
Takes(st, n) == Fits(st, n) /\ got' = [got EXCEPT ![st] = @ \o Arrived(st, n)]

LEMMA TakesOK ==
  ASSUME RunInv, NEW st \in Streams, st \notin ended, NEW n \in 1..Unread(st), Takes(st, n),
         UNCHANGED <<script, printed, remote, ended>>
  PROVE  /\ got' \in [Streams -> Seq(Printable)] /\ got'[st] = got[st] \o Arrived(st, n)
         /\ \A t \in Streams : (t # st => got'[t] = got[t]) /\ ReadInv(t)'
         /\ Len(got'["stdout"]) + Len(got'["stderr"]) <= OutputLimit
<1> DEFINE now == got[st] \o Arrived(st, n)
<1>1. /\ n \in Nat /\ Len(got[st]) + n \in 0..printed[st]
      /\ now \in Seq(Printable) /\ Len(now) = Len(got[st]) + n
      /\ now = SubSeq(script[st], 1, Len(got[st]) + n)
  BY Arrival
<1>2. /\ got' \in [Streams -> Seq(Printable)] /\ got'[st] = now
      /\ \A t \in Streams : t # st => got'[t] = got[t]
  BY <1>1 DEF Takes, RunInv, RunTypeInv
<1>3. Len(got'["stdout"]) + Len(got'["stderr"]) <= OutputLimit
  <2>1. "stdout" \in Streams /\ "stderr" \in Streams
    BY DEF Streams
  <2>2. Len(got["stdout"]) \in Nat /\ Len(got["stderr"]) \in Nat
    BY <2>1, Kept
  <2>3. CASE st = "stdout"
    <3> DEFINE a == Len(got["stdout"])
               b == Len(got["stderr"])
               c == Len(got'["stdout"])
               d == Len(got'["stderr"])
    <3>1. got'["stdout"] = now /\ got'["stderr"] = got["stderr"]
      BY <1>2, <2>1, <2>3
    <3>2. a \in Nat /\ b \in Nat /\ n \in Nat /\ c = a + n /\ d = b
      BY <1>1, <2>2, <2>3, <3>1
    <3>3. a + b + n <= OutputLimit
      BY <2>3 DEF Takes, Fits, Other
    <3> HIDE DEF a, b, c, d
    <3>4. c + d <= OutputLimit
      BY <3>2, <3>3
    <3> QED BY <3>4 DEF c, d
  <2>4. CASE st = "stderr"
    <3> DEFINE a == Len(got["stderr"])
               b == Len(got["stdout"])
               c == Len(got'["stderr"])
               d == Len(got'["stdout"])
    <3>1. got'["stderr"] = now /\ got'["stdout"] = got["stdout"]
      BY <1>2, <2>1, <2>4
    <3>2. a \in Nat /\ b \in Nat /\ n \in Nat /\ c = a + n /\ d = b
      BY <1>1, <2>2, <2>4, <3>1
    <3>3. a + b + n <= OutputLimit
      BY <2>4 DEF Takes, Fits, Other
    <3> HIDE DEF a, b, c, d
    <3>4. d + c <= OutputLimit
      BY <3>2, <3>3
    <3> QED BY <3>4 DEF c, d
  <2> QED BY <2>3, <2>4 DEF Streams
<1>4. ASSUME NEW t \in Streams PROVE ReadInv(t)'
  <2>1. ReadInv(t)
    BY Kept
  <2>2. CASE t # st
    BY <1>2, <2>1, <2>2 DEF ReadInv
  <2>3. CASE t = st
    <3>1. Len(got'[st]) <= printed[st] /\ got'[st] = SubSeq(script[st], 1, Len(got'[st]))
      BY <1>1, <1>2
    <3> QED BY <2>1, <2>3, <3>1 DEF ReadInv
  <2> QED BY <2>2, <2>3
<1> QED BY <1>2, <1>3, <1>4

LEMMA ReadStreamOK == ASSUME RunInv, NEW st \in Streams, ReadStream(st) PROVE RunInv'
<1>1. PICK n \in 1..Unread(st) :
        /\ Takes(st, n)
        /\ IF streaming
           THEN /\ shown' = [shown EXCEPT ![st] = @ \o Push(redactor[st], Arrived(st, n)).text]
                /\ redactor' = [redactor EXCEPT ![st] = Push(redactor[st], Arrived(st, n)).rest]
           ELSE UNCHANGED <<shown, redactor>>
  BY DEF ReadStream, Takes
<1>2. /\ phase = st /\ st \notin ended /\ phase' = Other(st)
      /\ UNCHANGED <<remoteVars, eofSent, ended, status, code>>
  BY DEF ReadStream
<1> DEFINE arrived == Arrived(st, n)
<1>3. arrived \in Seq(Printable)
  BY Arrival
<1>4. /\ got' \in [Streams -> Seq(Printable)] /\ got'[st] = got[st] \o arrived
      /\ \A t \in Streams : (t # st => got'[t] = got[t]) /\ ReadInv(t)'
      /\ Len(got'["stdout"]) + Len(got'["stderr"]) <= OutputLimit
  BY <1>1, <1>2, TakesOK DEF remoteVars
<1>5. phase # "done" /\ phase' \in Streams /\ status = "none"
  BY <1>2 DEF Streams, Other, RunInv, OutcomeInv
<1>6. ASSUME NEW t \in Streams
      PROVE  /\ IF streaming THEN Streamed(got'[t], shown'[t], redactor'[t]) ELSE shown'[t] = <<>>
             /\ shown'[t] \in Seq(Visible)
  <2>1. /\ IF streaming THEN Streamed(got[t], shown[t], redactor[t]) ELSE shown[t] = <<>>
        /\ shown[t] \in Seq(Visible)
    BY <1>5, Kept DEF OutputInv
  <2>2. CASE t # st \/ ~streaming
    <3>1. shown'[t] = shown[t] /\ (streaming => redactor'[t] = redactor[t] /\ got'[t] = got[t])
      BY <1>1, <1>4, <2>2 DEF RunInv, RunTypeInv
    <3> QED BY <2>1, <3>1
  <2>3. CASE t = st /\ streaming
    <3> DEFINE text == got[st]
               visible == shown[st]
               r == redactor[st]
    <3>1. text \in Seq(Printable) /\ Streamed(text, visible, r)
      BY <2>1, <2>3, Kept
    <3>2. st \in DOMAIN shown /\ st \in DOMAIN redactor
      BY DEF RunInv, RunTypeInv
    <3>3. shown'[st] = visible \o Push(r, arrived).text /\ redactor'[st] = Push(r, arrived).rest
      BY <1>1, <2>3, <3>2
    <3>4. got'[st] = text \o arrived
      BY <1>4
    <3> HIDE DEF text, visible, r, arrived
    <3>5. Streamed(text \o arrived, visible \o Push(r, arrived).text, Push(r, arrived).rest)
      BY <1>3, <3>1, PushStreams
    <3>6. Streamed(got'[st], shown'[st], redactor'[st])
      BY <3>3, <3>4, <3>5
    <3>7. shown'[st] \in Seq(Visible)
      BY <3>6, StreamedType
    <3> QED BY <2>3, <3>6, <3>7
  <2> QED BY <2>2, <2>3
<1>7. RunTypeInv'
  <2>1. DOMAIN shown' = Streams /\ DOMAIN redactor' = Streams /\ shown' = [t \in Streams |-> shown'[t]]
    BY <1>1 DEF RunInv, RunTypeInv
  <2>2. shown' \in [Streams -> Seq(Visible)]
    BY <1>6, <2>1
  <2>3. phase' \in {"exec", "input", "stdout", "stderr", "close", "done"}
    BY <1>5 DEF Streams
  <2> QED BY <1>2, <1>4, <2>1, <2>2, <2>3 DEF RunInv, RunTypeInv, remoteVars
<1>8. OutcomeInv'
  BY <1>2, <1>4, <1>5 DEF RunInv, OutcomeInv, remoteVars, Streams
<1>9. ASSUME NEW t \in Streams PROVE OutputInv(t)'
  <2>1. phase' # "done" /\ status' # "ok" /\ streaming' = streaming
    BY <1>2, <1>5 DEF Streams, remoteVars
  <2> QED BY <1>6, <2>1 DEF OutputInv
<1> QED BY <1>4, <1>7, <1>8, <1>9 DEF RunInv

(***************************************************************************)
(* The steps that end the run.                                             *)
(***************************************************************************)

LEMMA Concluded ==
  ASSUME RunInv, phase # "done", NEW result \in {"ok", "error"}, Conclude(result),
         UNCHANGED <<remoteVars, ended, got, redactor>>,
         result = "ok" => phase = "close" /\ remote = "exited" /\ code' = exitCode
  PROVE  RunInv'
<1> DEFINE failed == result = "error"
<1>1. /\ phase' = "done" /\ status' = result
      /\ shown' = [st \in Streams |-> FinalText(st, failed)]
  BY DEF Conclude
<1>2. failed \in BOOLEAN /\ (failed <=> result = "error")
  OBVIOUS
<1> HIDE DEF failed
<1>3. ASSUME NEW st \in Streams
      PROVE  shown'[st] = Redacted(FALSE, got[st], failed) /\ shown'[st] \in Seq(Visible)
  BY <1>1, FinalTextIs
<1>4. RunTypeInv'
  <2>1. shown' \in [Streams -> Seq(Visible)]
    BY <1>1, <1>3
  <2> QED BY <1>1, <2>1 DEF RunInv, RunTypeInv, remoteVars
<1>5. OutcomeInv'
  BY <1>1 DEF RunInv, OutcomeInv, remoteVars
<1>6. ASSUME NEW st \in Streams PROVE ReadInv(st)' /\ OutputInv(st)'
  <2>1. ReadInv(st) /\ Len(got[st]) \in 0..printed[st] /\ got[st] = SubSeq(script[st], 1, Len(got[st]))
    BY Kept DEF ReadInv
  <2>2. ReadInv(st)'
    BY <2>1 DEF ReadInv, remoteVars
  <2>3. UNCHANGED <<script, printed, got, ended>>
    BY DEF remoteVars
  <2>4. ShownAtEnd(st)'
    <3>1. shown'[st] = Redacted(FALSE, SubSeq(script[st], 1, Len(got[st])), failed)
      BY <1>3, <2>1
    <3>2. \E n \in 0..printed[st], cut \in BOOLEAN :
            /\ shown'[st] = Redacted(FALSE, SubSeq(script[st], 1, n), cut)
            /\ status' = "error" => cut \/ WholeLines(SubSeq(script[st], 1, n)) \/ ended' = Streams
      BY <1>1, <1>2, <2>1, <3>1
    <3> QED BY <2>3, <3>2 DEF ShownAtEnd
  <2>5. status' = "ok" => shown'[st] = Redacted(FALSE, script'[st], FALSE)
    <3> SUFFICES ASSUME result = "ok" PROVE shown'[st] = Redacted(FALSE, script[st], FALSE)
      BY <1>1, <2>3
    <3>1. st \in ended /\ remote = "exited"
      BY DEF RunInv, OutcomeInv
    <3>2. Len(got[st]) = Len(script[st])
      BY <2>1, <3>1 DEF ReadInv
    <3>3. got[st] = script[st]
      BY <2>1, <3>2, Kept, SubSeqFull
    <3>4. failed = FALSE
      BY <1>2
    <3> QED BY <1>3, <3>3, <3>4
  <2> QED BY <1>1, <2>2, <2>4, <2>5 DEF OutputInv
<1> QED BY <1>4, <1>5, <1>6 DEF RunInv

Ends == \/ \E st \in Streams : OverLimit(st)
        \/ Complete \/ SshFails \/ Timeout

LEMMA EndsOK == ASSUME RunInv, Ends PROVE RunInv'
<1>1. CASE Complete
  BY <1>1, Concluded DEF Complete
<1>2. CASE ~Complete
  BY <1>2, Concluded DEF Ends, OverLimit, SshFails, Timeout, Streams
<1> QED BY <1>1, <1>2

\* What the finished lines show is left as it is, or is what the end shows.
LEMMA SinkOK ==
  ASSUME RunInv, (\E st \in Streams : SinkFails(st)) \/ LastWriteFails
  PROVE  RunInv'
<1>1. /\ phase # "done" /\ streaming /\ phase' = "done" /\ status' = "error"
      /\ UNCHANGED <<remoteVars, ended>>
  BY DEF SinkFails, LastWriteFails, Streams
<1>2. /\ shown' \in [Streams -> Seq(Visible)]
      /\ \A st \in Streams :
           \/ shown'[st] = shown[st]
           \/ shown'[st] = FinalText(st, TRUE)
           \/ /\ ended = Streams
              /\ shown'[st] = FinalText(st, FALSE)
  <2>1. "stdout" \in Streams /\ shown \in [Streams -> Seq(Visible)]
    BY DEF Streams, RunInv, RunTypeInv
  <2>2. FinalText("stdout", TRUE) \in Seq(Visible) /\ FinalText("stdout", FALSE) \in Seq(Visible)
    <3>1. \A failed : FinalText("stdout", failed) \in Seq(Visible)
      BY <1>1, <2>1, FinalTextIs
    <3> QED BY <3>1
  <2>3. \/ shown' = shown
        \/ shown' = [shown EXCEPT !["stdout"] = FinalText("stdout", TRUE)]
        \/ /\ ended = Streams
           /\ shown' = [shown EXCEPT !["stdout"] = FinalText("stdout", FALSE)]
    BY DEF SinkFails, LastWriteFails, RunInv, OutcomeInv
  <2> QED BY <2>1, <2>2, <2>3
<1>3. /\ got' \in [Streams -> Seq(Printable)] /\ redactor' = redactor
      /\ Len(got'["stdout"]) + Len(got'["stderr"]) <= OutputLimit
      /\ \A st \in Streams : ReadInv(st)'
  <2>1. CASE LastWriteFails
    BY <2>1, Kept DEF LastWriteFails, RunInv, RunTypeInv, OutcomeInv, ReadInv, remoteVars
  <2>2. ASSUME NEW st \in Streams, SinkFails(st)
        PROVE  /\ got' \in [Streams -> Seq(Printable)] /\ redactor' = redactor
               /\ Len(got'["stdout"]) + Len(got'["stderr"]) <= OutputLimit
               /\ \A t \in Streams : ReadInv(t)'
    <3>1. /\ st \notin ended /\ redactor' = redactor
          /\ \E n \in 1..Unread(st) : Takes(st, n)
      BY <2>2 DEF SinkFails, Takes
    <3> QED BY <1>1, <3>1, TakesOK DEF remoteVars
  <2> QED BY <2>1, <2>2
<1>4. RunTypeInv' /\ OutcomeInv'
  BY <1>1, <1>2, <1>3 DEF RunInv, RunTypeInv, OutcomeInv, remoteVars
<1>5. ASSUME NEW st \in Streams PROVE OutputInv(st)'
  <2>1. \E n \in 0..printed[st], cut \in BOOLEAN :
          /\ shown'[st] = Redacted(FALSE, SubSeq(script[st], 1, n), cut)
          /\ cut \/ WholeLines(SubSeq(script[st], 1, n)) \/ ended = Streams
    <3>1. /\ Len(got[st]) \in 0..printed[st] /\ got[st] = SubSeq(script[st], 1, Len(got[st]))
          /\ \A failed : FinalText(st, failed) = Redacted(FALSE, got[st], failed)
      BY <1>1, Kept, FinalTextIs DEF ReadInv
    <3>2. CASE shown'[st] = shown[st]
      BY <1>1, <3>2, LinesShown
    <3>3. CASE shown'[st] = FinalText(st, TRUE)
      <4>1. shown'[st] = Redacted(FALSE, SubSeq(script[st], 1, Len(got[st])), TRUE)
        BY <3>1, <3>3
      <4> QED BY <3>1, <4>1
    <3>4. CASE ended = Streams /\ shown'[st] = FinalText(st, FALSE)
      <4>1. shown'[st] = Redacted(FALSE, SubSeq(script[st], 1, Len(got[st])), FALSE)
        BY <3>1, <3>4
      <4> QED BY <3>1, <3>4, <4>1
    <3> QED BY <1>2, <3>2, <3>3, <3>4
  <2>2. ShownAtEnd(st)'
    BY <1>1, <2>1 DEF ShownAtEnd, remoteVars
  <2> QED BY <1>1, <2>2 DEF OutputInv
<1> QED BY <1>3, <1>4, <1>5 DEF RunInv

LEMMA RunInvStep == ASSUME RunInv, [RunNext]_runVars PROVE RunInv'
<1>1. CASE RemoteStep \/ Lost
  BY <1>1, RemoteOK DEF RemoteStep
<1>2. CASE ClientStep
  <2>1. \/ Waits \/ Ends
        \/ \E st \in Streams : ReadStream(st)
    BY <1>2 DEF ClientStep, Waits, Ends
  <2> QED BY <2>1, WaitsOK, EndsOK, ReadStreamOK
<1>3. CASE \/ \E st \in Streams : SinkFails(st)
           \/ LastWriteFails
  BY <1>3, SinkOK
<1>4. CASE Timeout
  BY <1>4, EndsOK DEF Ends
<1>5. CASE UNCHANGED runVars
  BY <1>5 DEF runVars, RunInv, RunTypeInv, OutcomeInv, ReadInv, OutputInv, ShownAtEnd
<1> QED BY <1>1, <1>2, <1>3, <1>4, <1>5 DEF RunNext, Done

\* The inductive invariant holds in every state of a run.
THEOREM RunInvariant == RunSpec => []RunInv
BY RunAssumption, RunInvInit, RunInvStep, PTL DEF RunSpec

\* Redactor::push and finish: however the output is cut into reads and
\* wherever the run ends, of the secrets in it only masks are shown.
THEOREM SecretsStayHidden == RunSpec => []SecretsHidden
<1>1. ASSUME RunInv, NEW st \in Streams
      PROVE  LET text == shown[st] IN
             /\ NothingLeaks(text)
             /\ status = "error" /\ text # <<>> => Last(text) # "s1" \/ ended = Streams
  <2>1. CASE phase # "done" /\ ~streaming
    <3>1. shown[st] = <<>> /\ status # "error"
      BY <1>1, <2>1, Kept DEF OutputInv, RunInv, OutcomeInv
    <3>2. NothingLeaks(<<>>)
      BY EmptySeq DEF NothingLeaks, Contains
    <3> QED BY <3>1, <3>2
  <2>2. ASSUME NEW n \in 0..printed[st], NEW cut \in BOOLEAN,
               shown[st] = Redacted(FALSE, SubSeq(script[st], 1, n), cut),
               status = "error" => cut \/ WholeLines(SubSeq(script[st], 1, n)) \/ ended = Streams
        PROVE  /\ NothingLeaks(shown[st])
               /\ status = "error" /\ shown[st] # <<>> => Last(shown[st]) # "s1" \/ ended = Streams
    <3> DEFINE beginning == SubSeq(script[st], 1, n)
    <3>1. n \in 0..Len(script[st])
      BY <1>1, Kept DEF ReadInv
    <3>2. beginning \in Seq(Printable) /\ Framed(beginning)
      BY <1>1, <3>1, Kept, Halves, FramedBeginning
    <3> HIDE DEF beginning
    <3>3. /\ NothingLeaks(Redacted(FALSE, beginning, cut))
          /\ cut \/ WholeLines(beginning) =>
               (Redacted(FALSE, beginning, cut) # <<>> => Last(Redacted(FALSE, beginning, cut)) # "s1")
      BY <3>2, RedactedHides
    <3> QED BY <2>2, <3>3 DEF beginning
  <2>3. CASE phase # "done" /\ streaming
    <3>1. PICK n \in 0..printed[st] : shown[st] = Redacted(FALSE, SubSeq(script[st], 1, n), FALSE)
      BY <1>1, <2>3, LinesShown
    <3>2. status # "error"
      BY <1>1, <2>3 DEF RunInv, OutcomeInv
    <3> QED BY <2>2, <3>1, <3>2
  <2>4. CASE phase = "done"
    BY <1>1, <2>2, <2>4, Kept DEF OutputInv, ShownAtEnd
  <2> QED BY <2>1, <2>3, <2>4
<1>2. RunInv => SecretsHidden
  BY <1>1 DEF SecretsHidden, NothingLeaks
<1> QED BY <1>2, RunInvariant, PTL

\* Neither --stream nor the way the reads and the two streams take turns
\* changes what is shown: after a success the whole of it, else a beginning.
THEOREM OutputShownIsTheCommands == RunSpec => []OutputIsTheCommands
<1>1. ASSUME RunInv, status = "error", NEW st \in Streams
      PROVE  \E n \in 0..printed[st], cut \in BOOLEAN :
               shown[st] = Redacted(FALSE, SubSeq(script[st], 1, n), cut)
  BY <1>1, Kept DEF OutputInv, ShownAtEnd, RunInv, OutcomeInv
<1>2. ASSUME RunInv, status = "ok", NEW st \in Streams
      PROVE  shown[st] = Redacted(FALSE, script[st], FALSE)
  BY <1>2, Kept DEF OutputInv
<1>3. RunInv => OutputIsTheCommands
  BY <1>1, <1>2 DEF OutputIsTheCommands, RunInv, OutcomeInv
<1> QED BY <1>3, RunInvariant, PTL
================================================================================
