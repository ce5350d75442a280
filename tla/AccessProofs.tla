------------------------------ MODULE AccessProofs -----------------------------
(***************************************************************************)
(* Nothing is done on a server that no policy permitted, what a rule       *)
(* grants is what it means, a preflight tells the verdict of its command,  *)
(* audit entries are true, no edit of the policy is lost and the keyring   *)
(* follows the backend that was chosen, for any number of invocations,     *)
(* requests, policies and edits by hand.                                   *)
(***************************************************************************)
EXTENDS Access, SequenceTheorems, WellFoundedInduction, TLAPS

Own(i) == Start(i) \/ Perform(i) \/ Record(i) \/ Edit(i) \/ Crash(i)

--------------------------------------------------------------------------------
(***************************************************************************)
(* What the checks of a command leave when none of them fails.             *)
(***************************************************************************)
LEMMA NoneOfEight ==
  ASSUME NEW a, NEW b, NEW c, NEW d, NEW e, NEW f, NEW g, NEW h,
         Failing(<<a, b, c, d, e, f, g, h>>) = {}
  PROVE  ~c.fails /\ ~d.fails /\ ~e.fails /\ ~f.fails /\ ~g.fails /\ ~h.fails
BY DEF Failing

LEMMA NoneOfTen ==
  ASSUME NEW a, NEW b, NEW c, NEW d, NEW e, NEW f, NEW g, NEW h, NEW k, NEW l,
         Failing(<<a, b, c, d, e, f, g, h, k, l>>) = {}
  PROVE  ~d.fails /\ ~e.fails /\ ~f.fails /\ ~g.fails /\ ~h.fails /\ ~k.fails
BY DEF Failing

LEMMA CheckedRun ==
  ASSUME NEW r, NEW c, NEW p, Failing(RunChecks(r, c, p)) = {}
  PROVE  /\ IsRegistered(r, c) /\ ~AccountDenied(r, c, p)
         /\ CheckCommand(p, r.text) /\ (r.yes \/ ~NeedsConfirmation(r.text))
<1> DEFINE named == Fatal("config", ServerName(r, c) \notin DOMAIN c.servers)
           usage == Fatal("usage", Trim(r.text) = <<>>)
           stream == Fatal("usage", /\ IsRegistered(r, c) /\ r.stream /\ r.asRoot
                                    /\ AccountOf(r, c).privilege = "su")
           elevation == Denial("config",
             /\ IsRegistered(r, c)
             /\ LET privilege == AccountOf(r, c).privilege IN
                \/ r.asRoot /\ ~r.noPassword /\ privilege = "none"
                \/ r.noPassword /\ privilege = "su")
           safe == Denial("safety", ~r.yes /\ NeedsConfirmation(r.text))
           granted == Denial("policy", ~CheckCommand(p, r.text))
           registered == Fatal("config", ~IsRegistered(r, c))
           account == Denial("policy", AccountDenied(r, c, p))
<1>1. RunChecks(r, c, p) =
        <<named, usage, safe, granted, registered, account, stream, elevation>>
  BY Zenon DEF RunChecks
<1> HIDE DEF named, usage, stream, elevation, safe, granted, registered, account
<1>2. ~safe.fails /\ ~granted.fails /\ ~registered.fails /\ ~account.fails
  BY <1>1, NoneOfEight
<1> QED BY <1>2 DEF Denial, Fatal, safe, granted, registered, account

LEMMA CheckedPut ==
  ASSUME NEW r, NEW c, NEW p, NEW fileReady, Failing(PutChecks(r, c, p, fileReady)) = {}
  PROVE  /\ IsRegistered(r, c) /\ ~AccountDenied(r, c, p)
         /\ CheckPut(p, Decoded(r.text)) /\ (r.yes \/ ~WritesSystemPath(Decoded(r.text)))
         /\ r.atomic => HasParent(Decoded(r.text)) /\ CheckPut(p, ParentPath(Decoded(r.text)))
<1> DEFINE named == Fatal("config", ServerName(r, c) = NoName)
           usage == Fatal("usage", r.text = <<>>)
           decodable == Fatal("config", ~IsDecodable(r.text))
           file == Fatal("io", ~fileReady)
           safe == Fatal("safety", ~r.yes /\ WritesSystemPath(Decoded(r.text)))
           granted == Fatal("policy", ~CheckPut(p, Decoded(r.text)))
           hasParent == Fatal("config", r.atomic /\ ~HasParent(Decoded(r.text)))
           parent == Fatal("policy", r.atomic /\ HasParent(Decoded(r.text))
                                       /\ ~CheckPut(p, ParentPath(Decoded(r.text))))
           registered == Fatal("config", ~IsRegistered(r, c))
           account == Fatal("policy", AccountDenied(r, c, p))
<1>1. PutChecks(r, c, p, fileReady) =
        <<named, usage, decodable, safe, granted, hasParent, parent, registered, account, file>>
  BY Zenon DEF PutChecks
<1> HIDE DEF named, usage, decodable, file, safe, granted, hasParent, parent, registered, account
<1>2. /\ ~safe.fails /\ ~granted.fails /\ ~hasParent.fails /\ ~parent.fails
      /\ ~registered.fails /\ ~account.fails
  BY <1>1, NoneOfTen
<1> QED BY <1>2 DEF Fatal, safe, granted, hasParent, parent, registered, account

LEMMA CheckedGet ==
  ASSUME NEW r, NEW c, NEW p, NEW fileReady, Failing(GetChecks(r, c, p, fileReady)) = {}
  PROVE  IsRegistered(r, c) /\ ~AccountDenied(r, c, p) /\ CheckGet(p, Decoded(r.text))
<1> DEFINE named == Fatal("config", ServerName(r, c) = NoName)
           usage == Fatal("usage", r.text = <<>>)
           decodable == Fatal("config", ~IsDecodable(r.text))
           known == Fatal("config", ServerName(r, c) \notin DOMAIN c.servers)
           file == Fatal("io", ~fileReady /\ ~r.yes)
           granted == Fatal("policy", ~CheckGet(p, Decoded(r.text)))
           registered == Fatal("config", ~IsRegistered(r, c))
           account == Fatal("policy", AccountDenied(r, c, p))
<1>1. GetChecks(r, c, p, fileReady) =
        <<named, usage, decodable, known, granted, file, registered, account>>
  BY Zenon DEF GetChecks
<1> HIDE DEF named, usage, decodable, known, file, granted, registered, account
<1>2. ~granted.fails /\ ~registered.fails /\ ~account.fails
  BY <1>1, NoneOfEight
<1> QED BY <1>2 DEF Fatal, granted, registered, account

\* A request none of whose checks fails is permitted by the policy and the
\* config that it was checked against.
LEMMA CheckedIsPermitted ==
  ASSUME NEW r, NEW c, NEW file, NEW fileReady, r.op \in {"run", "put", "get"},
         ResolvePolicy(file, r.forced) \notin {Broken, Missing},
         Failing(Checks(r, c, ResolvePolicy(file, r.forced), fileReady)) = {}
  PROVE  Permits(r, c, file)
<1> DEFINE p == ResolvePolicy(file, r.forced)
<1> HIDE DEF p
<1>0. p \notin {Broken, Missing} /\ Failing(Checks(r, c, p, fileReady)) = {}
  BY DEF p
<1>1. ASSUME IsRegistered(r, c), ~AccountDenied(r, c, p)
      PROVE  CheckAccount(p, ServerName(r, c), LoginUser(r, c),
                          LoginUser(r, c) = c.servers[ServerName(r, c)].user)
  BY <1>1 DEF AccountDenied
<1>2. CASE r.op = "run"
  <2>1. Failing(RunChecks(r, c, p)) = {}
    BY <1>0, <1>2 DEF Checks
  <2> QED BY <1>0, <1>1, <1>2, <2>1, CheckedRun DEF Permits, p
<1>3. CASE r.op = "put"
  <2>1. Failing(PutChecks(r, c, p, fileReady)) = {}
    BY <1>0, <1>3 DEF Checks
  <2> QED BY <1>0, <1>1, <1>3, <2>1, CheckedPut DEF Permits, p
<1>4. CASE r.op = "get"
  <2>1. Failing(GetChecks(r, c, p, fileReady)) = {}
    BY <1>0, <1>4 DEF Checks
  <2> QED BY <1>0, <1>1, <1>4, <2>1, CheckedGet DEF Permits, p
<1> QED BY <1>2, <1>3, <1>4

--------------------------------------------------------------------------------
(***************************************************************************)
(* The inductive invariant, part by part, each of one invocation.          *)
(***************************************************************************)
IsFunction(f) == f = [i \in Invocations |-> f[i]]

Shape ==
  /\ IsFunction(pc) /\ IsFunction(backend) /\ IsFunction(base) /\ IsFunction(rules)
  /\ IsFunction(local) /\ IsFunction(outcome) /\ IsFunction(did) /\ IsFunction(audit)
  /\ IsFunction(seen)

\* An editing command holds the lock from its first look to its audit entry.
LockInv(i) ==
  /\ pc[i] \in {"load", "edit", "check", "write", "audit"} /\ Mutates(request[i]) => lock = i
  /\ pc[i] \in {"edit", "check", "write"} => Mutates(request[i])
  /\ pc[i] \in {"rules", "decide", "secret", "act"} => request[i].op \in {"run", "put", "get"}
  /\ pc[i] = "start" => request[i].op \in {"run", "put", "get", "policy", "account"}
  /\ pc[i] = "load" => request[i].op \in {"run", "put", "get", "policy", "account"}
  /\ pc[i] = "lock" => Mutates(request[i])

\* What an editor is about to replace is what it loaded.
WriteInv(i) == pc[i] = "write" => policy = rules[i] \/ i \in raced

\* What was read was there.
ReadInv(i) ==
  /\ Live(i) => policy \in seen[i].policies /\ config \in seen[i].configs
  /\ pc[i] \in {"rules", "decide", "secret", "act"} => base[i] \in seen[i].configs /\ base[i] # Broken
  /\ pc[i] \in {"decide", "secret", "act"} =>
       /\ rules[i] \notin {Broken, Missing}
       /\ \E file \in seen[i].policies : rules[i] = ResolvePolicy(file, request[i].forced)

Acted(i) ==
  \E c \in seen[i].configs, file \in seen[i].policies :
    /\ c # Broken /\ Permits(request[i], c, file)
    /\ did[i].server = ServerName(request[i], c) /\ did[i].user = LoginUser(request[i], c)

ActInv(i) ==
  /\ pc[i] = "start" => did[i] = Nothing
  /\ pc[i] \in {"secret", "act"} =>
       \E fileReady : Failing(Checks(request[i], base[i], rules[i], fileReady)) = {}
  /\ did[i] # Nothing => Acted(i)

\* The backend is that of the config that was there at the start.
KeyInv(i) ==
  /\ pc[i] \in {"check", "write"} => request[i].op = "policy"
  /\ pc[i] = "edit" => base[i] # Broken
  /\ Live(i) => (backend[i] = "session_only" <=> SessionOnly(seen[i].first))

ConfigOK ==
  \/ config = Broken
  \/ "backend" \in DOMAIN config /\ config.backend \in {"native", "session_only"}

PartInv(i) == LockInv(i) /\ WriteInv(i) /\ ReadInv(i) /\ ActInv(i) /\ KeyInv(i)

AccessInv == Shape /\ ConfigOK /\ \A i \in Invocations : PartInv(i)

--------------------------------------------------------------------------------
(***************************************************************************)
(* What a step can touch.                                                  *)
(***************************************************************************)
\* A step of i leaves j as it was.
Same(j) ==
  /\ pc'[j] = pc[j] /\ backend'[j] = backend[j] /\ base'[j] = base[j] /\ rules'[j] = rules[j]
  /\ local'[j] = local[j] /\ outcome'[j] = outcome[j] /\ did'[j] = did[j] /\ audit'[j] = audit[j]
  /\ request' = request

\* j sees what becomes of the files while it runs, and forgets nothing.
Sees(j) ==
  /\ seen[j].policies \subseteq seen'[j].policies /\ seen[j].configs \subseteq seen'[j].configs
  /\ seen'[j].first = seen[j].first
  /\ Live(j) /\ policy \in seen[j].policies /\ config \in seen[j].configs =>
       policy' \in seen'[j].policies /\ config' \in seen'[j].configs

LEMMA StepFrame ==
  ASSUME Shape, NEW i \in Invocations, NEW j \in Invocations \ {i}, Own(i)
  PROVE  Same(j)
<1> USE DEF Shape, IsFunction, Same, Goto, Give, readVars, traceVars, diskVars
<1>1. CASE Start(i)
  BY <1>1 DEF Start, ChooseBackend, AcquireLock, LockTimeout, LoadConfig, Return
<1>2. CASE Perform(i)
  <2>1. CASE ReadPolicy(i) BY <2>1 DEF ReadPolicy
  <2>2. CASE Decide(i) BY <2>2 DEF Decide
  <2>3. CASE ReadSecret(i) BY <2>3 DEF ReadSecret
  <2>4. CASE SecretMissing(i) BY <2>4 DEF SecretMissing
  <2>5. CASE Act(i) BY <2>5 DEF Act
  <2>6. CASE ActFails(i) BY <2>6 DEF ActFails
  <2> QED BY <1>2, <2>1, <2>2, <2>3, <2>4, <2>5, <2>6 DEF Perform
<1>3. CASE Record(i)
  BY <1>3 DEF Record, RecordAudit, AuditFails
<1>4. CASE Edit(i)
  <2>1. CASE LoadPolicy(i) BY <2>1 DEF LoadPolicy
  <2>2. CASE CheckRevision(i) BY <2>2 DEF CheckRevision
  <2>3. CASE WritePolicy(i) BY <2>3 DEF WritePolicy
  <2>4. CASE WriteFails(i) BY <2>4 DEF WriteFails
  <2>5. CASE EditAccount(i) BY <2>5 DEF EditAccount
  <2>6. CASE EditFails(i) BY <2>6 DEF EditFails
  <2> QED BY <1>4, <2>1, <2>2, <2>3, <2>4, <2>5, <2>6 DEF Edit
<1>5. CASE Crash(i)
  BY <1>5 DEF Crash
<1> QED BY <1>1, <1>2, <1>3, <1>4, <1>5 DEF Own

LEMMA ShapeStep == ASSUME Shape, [Next]_vars PROVE Shape'
<1> USE DEF Shape, IsFunction, Goto, Give, readVars, traceVars, diskVars
<1>1. ASSUME NEW i \in Invocations, Own(i) PROVE Shape'
  <2>1. CASE Start(i)
    BY <2>1 DEF Start, ChooseBackend, AcquireLock, LockTimeout, LoadConfig, Return
  <2>2. CASE Perform(i)
    <3>1. CASE ReadPolicy(i) BY <3>1 DEF ReadPolicy
    <3>2. CASE Decide(i) BY <3>2 DEF Decide
    <3>3. CASE ReadSecret(i) BY <3>3 DEF ReadSecret
    <3>4. CASE SecretMissing(i) BY <3>4 DEF SecretMissing
    <3>5. CASE Act(i) BY <3>5 DEF Act
    <3>6. CASE ActFails(i) BY <3>6 DEF ActFails
    <3> QED BY <2>2, <3>1, <3>2, <3>3, <3>4, <3>5, <3>6 DEF Perform
  <2>3. CASE Record(i)
    BY <2>3 DEF Record, RecordAudit, AuditFails
  <2>4. CASE Edit(i)
    <3>1. CASE LoadPolicy(i) BY <3>1 DEF LoadPolicy
    <3>2. CASE CheckRevision(i) BY <3>2 DEF CheckRevision
    <3>3. CASE WritePolicy(i) BY <3>3 DEF WritePolicy, Witness
    <3>4. CASE WriteFails(i) BY <3>4 DEF WriteFails
    <3>5. CASE EditAccount(i) BY <3>5 DEF EditAccount, Witness
    <3>6. CASE EditFails(i) BY <3>6 DEF EditFails
    <3> QED BY <2>4, <3>1, <3>2, <3>3, <3>4, <3>5, <3>6 DEF Edit
  <2>5. CASE Crash(i)
    BY <2>5 DEF Crash
  <2> QED BY <1>1, <2>1, <2>2, <2>3, <2>4, <2>5 DEF Own
<1>2. CASE UserEditsPolicy
  BY <1>2 DEF UserEditsPolicy, Witness
<1>3. CASE UserEditsConfig
  BY <1>3 DEF UserEditsConfig, Witness
<1>4. CASE LocalFileChanges
  BY <1>4 DEF LocalFileChanges
<1>5. CASE UNCHANGED vars
  BY <1>5 DEF vars
<1> QED BY <1>1, <1>2, <1>3, <1>4, <1>5 DEF Next, AllDone, Own

\* Only three steps touch the files or what has been seen of them.
LEMMA FileFrame ==
  ASSUME NEW i \in Invocations, Own(i)
  PROVE  \/ UNCHANGED <<policy, config, seen>>
         \/ ChooseBackend(i)
         \/ WritePolicy(i) /\ Witness /\ UNCHANGED config
         \/ EditAccount(i) /\ Witness /\ UNCHANGED policy
<1> USE DEF traceVars, diskVars
<1>1. CASE Start(i)
  BY <1>1 DEF Start, AcquireLock, LockTimeout, LoadConfig, Return
<1>2. CASE Perform(i)
  BY <1>2 DEF Perform, ReadPolicy, Decide, ReadSecret, SecretMissing, Act, ActFails
<1>3. CASE Record(i)
  BY <1>3 DEF Record, RecordAudit, AuditFails
<1>4. CASE Edit(i)
  BY <1>4 DEF Edit, LoadPolicy, CheckRevision, WritePolicy, WriteFails, EditAccount, EditFails
<1>5. CASE Crash(i)
  BY <1>5 DEF Crash
<1> QED BY <1>1, <1>2, <1>3, <1>4, <1>5 DEF Own

LEMMA WitnessSees == ASSUME NEW j \in Invocations, Witness PROVE Sees(j)
BY DEF Witness, Sees

LEMMA StepSees ==
  ASSUME Shape, NEW i \in Invocations, Own(i), NEW j \in Invocations,
         j # i \/ ~ChooseBackend(i)
  PROVE  Sees(j)
<1>1. CASE UNCHANGED <<policy, config, seen>>
  BY <1>1 DEF Sees
<1>2. CASE ChooseBackend(i)
  BY <1>2 DEF ChooseBackend, Sees, Shape, IsFunction, diskVars
<1> QED BY <1>1, <1>2, FileFrame, WitnessSees

\* The lock of another is neither taken nor given back.
LEMMA LockFrame ==
  ASSUME NEW i \in Invocations, Own(i), NEW j \in Invocations \ {i}, lock = j
  PROVE  lock' = j
<1>0. lock # NoProc
  BY AccessAssumption
<1>1. CASE Start(i)
  BY <1>0, <1>1 DEF Start, ChooseBackend, AcquireLock, LockTimeout, LoadConfig, Return
<1>2. CASE Perform(i)
  BY <1>2 DEF Perform, ReadPolicy, Decide, ReadSecret, SecretMissing, Act, ActFails
<1>3. CASE Record(i)
  BY <1>3 DEF Record, RecordAudit, AuditFails
<1>4. CASE Edit(i)
  BY <1>4 DEF Edit, LoadPolicy, CheckRevision, WritePolicy, WriteFails, EditAccount, EditFails
<1>5. CASE Crash(i)
  BY <1>5 DEF Crash
<1> QED BY <1>1, <1>2, <1>3, <1>4, <1>5 DEF Own

LEMMA RacedFrame == ASSUME NEW i \in Invocations, Own(i) PROVE raced' = raced
<1> USE DEF traceVars
<1>1. CASE Start(i)
  BY <1>1 DEF Start, ChooseBackend, AcquireLock, LockTimeout, LoadConfig, Return
<1>2. CASE Perform(i)
  BY <1>2 DEF Perform, ReadPolicy, Decide, ReadSecret, SecretMissing, Act, ActFails
<1>3. CASE Record(i)
  BY <1>3 DEF Record, RecordAudit, AuditFails
<1>4. CASE Edit(i)
  BY <1>4 DEF Edit, LoadPolicy, CheckRevision, WritePolicy, WriteFails, EditAccount, EditFails
<1>5. CASE Crash(i)
  BY <1>5 DEF Crash
<1> QED BY <1>1, <1>2, <1>3, <1>4, <1>5 DEF Own

--------------------------------------------------------------------------------
(***************************************************************************)
(* The parts of an invocation that does not move.                          *)
(***************************************************************************)
\* Reading stays true of what has been seen, and so does what was done.
LEMMA SeenOK ==
  ASSUME NEW j \in Invocations, Same(j), Sees(j), ReadInv(j), ActInv(j)
  PROVE  ReadInv(j)' /\ ActInv(j)'
<1>1. ReadInv(j)'
  BY DEF Same, Sees, ReadInv, Live, ResolvePolicy
<1>2. ActInv(j)'
  <2>1. Acted(j) /\ did[j] # Nothing => Acted(j)'
    BY DEF Same, Sees, Acted
  <2>2. \A fileReady :
          Checks(request[j], base[j], rules[j], fileReady)' = Checks(request[j], base[j], rules[j], fileReady)
    BY DEF Same
  <2> QED BY <2>1, <2>2 DEF Same, ActInv
<1> QED BY <1>1, <1>2

--------------------------------------------------------------------------------
(***************************************************************************)
(* The invocation that moves.                                              *)
(***************************************************************************)
LEMMA OwnLock ==
  ASSUME Shape, NEW i \in Invocations, Own(i), LockInv(i)
  PROVE  LockInv(i)'
<1> USE DEF Shape, IsFunction, LockInv, Goto, readVars, traceVars, diskVars, Mutates
<1>1. CASE Start(i)
  <2>1. CASE ChooseBackend(i) BY <2>1 DEF ChooseBackend
  <2>2. CASE AcquireLock(i) BY <2>2 DEF AcquireLock
  <2>3. CASE LockTimeout(i) BY <2>3 DEF LockTimeout
  <2>4. CASE LoadConfig(i) BY <2>4 DEF LoadConfig
  <2>5. CASE Return(i) BY <2>5 DEF Return
  <2> QED BY <1>1, <2>1, <2>2, <2>3, <2>4, <2>5 DEF Start
<1>2. CASE Perform(i)
  <2>1. pc[i] \in {"rules", "decide", "secret", "act"} /\ UNCHANGED <<lock, request>>
        /\ pc'[i] \in {"decide", "secret", "act", "audit", "return"}
    BY <1>2 DEF Perform, ReadPolicy, Decide, ReadSecret, SecretMissing, Act, ActFails, AfterDecision
  <2> QED BY <2>1
<1>3. CASE Record(i)
  BY <1>3 DEF Record, RecordAudit, AuditFails
<1>4. CASE Edit(i)
  <2>1. /\ pc[i] \in {"edit", "check", "write"} \/ (pc[i] = "load" /\ request[i].op = "policy")
        /\ pc'[i] \in {"check", "write", "audit"} /\ UNCHANGED <<lock, request>>
    BY <1>4 DEF Edit, LoadPolicy, CheckRevision, WritePolicy, WriteFails, EditAccount, EditFails
  <2> QED BY <2>1
<1>5. CASE Crash(i)
  BY <1>5 DEF Crash
<1> QED BY <1>1, <1>2, <1>3, <1>4, <1>5 DEF Own

LEMMA OwnWrite ==
  ASSUME Shape, NEW i \in Invocations, Own(i), WriteInv(i)
  PROVE  WriteInv(i)'
<1> USE DEF Shape, IsFunction, WriteInv, Goto, readVars, traceVars, diskVars
<1>1. CASE Start(i)
  BY <1>1 DEF Start, ChooseBackend, AcquireLock, LockTimeout, LoadConfig, Return
<1>2. CASE Perform(i)
  BY <1>2 DEF Perform, ReadPolicy, Decide, ReadSecret, SecretMissing, Act, ActFails, AfterDecision
<1>3. CASE Record(i)
  BY <1>3 DEF Record, RecordAudit, AuditFails
<1>4. CASE Edit(i)
  BY <1>4 DEF Edit, LoadPolicy, CheckRevision, WritePolicy, WriteFails, EditAccount, EditFails
<1>5. CASE Crash(i)
  BY <1>5 DEF Crash
<1> QED BY <1>1, <1>2, <1>3, <1>4, <1>5 DEF Own

\* What a step of i leaves of what it has read.
LEMMA ReadStays ==
  ASSUME NEW i \in Invocations, ReadInv(i), Sees(i), request' = request, pc[i] # "start",
         \/ /\ base'[i] = base[i] /\ rules'[i] = rules[i]
            /\ pc'[i] \in {"rules", "decide", "secret", "act"} =>
                 /\ pc[i] \in {"rules", "decide", "secret", "act"}
                 /\ pc'[i] \in {"decide", "secret", "act"} => pc[i] \in {"decide", "secret", "act"}
         \/ pc'[i] \notin {"rules", "decide", "secret", "act"},
         Live(i)' => Live(i)
  PROVE  ReadInv(i)'
BY DEF ReadInv, Sees

LEMMA OwnRead ==
  ASSUME Shape, NEW i \in Invocations, Own(i), ReadInv(i)
  PROVE  ReadInv(i)'
<1> USE DEF Shape, IsFunction, Goto, readVars, traceVars, diskVars, Live
<1>0. ~ChooseBackend(i) => Sees(i)
  BY StepSees
<1>1. CASE ChooseBackend(i)
  BY <1>1 DEF ChooseBackend, ReadInv
<1>2. CASE LoadConfig(i)
  BY <1>2 DEF LoadConfig, ReadInv
<1>3. CASE ReadPolicy(i)
  <2>1. /\ pc[i] = "rules" /\ UNCHANGED <<policy, config, request, base, seen>>
        /\ rules'[i] = ResolvePolicy(policy, request[i].forced)
        /\ pc'[i] = "decide" => rules'[i] \notin {Broken, Missing}
        /\ pc'[i] \in {"decide", "audit", "return"}
    BY <1>3 DEF ReadPolicy, AfterDecision
  <2> QED BY <2>1 DEF ReadInv
<1>4. CASE AcquireLock(i) \/ LockTimeout(i) \/ Return(i) \/ Record(i) \/ Crash(i)
  <2>1. pc[i] # "start" /\ ~ChooseBackend(i) /\ request' = request /\ (Live(i)' => Live(i))
        /\ pc'[i] \notin {"rules", "decide", "secret", "act"}
    BY <1>4 DEF AcquireLock, LockTimeout, Return, Record, RecordAudit, AuditFails, Crash, ChooseBackend
  <2> QED BY <1>0, <2>1, ReadStays
<1>5. CASE Decide(i) \/ ReadSecret(i) \/ SecretMissing(i) \/ Act(i) \/ ActFails(i)
  <2>1. /\ pc[i] \in {"decide", "secret", "act"} /\ ~ChooseBackend(i)
        /\ UNCHANGED <<request, base, rules>> /\ Live(i)
    BY <1>5 DEF Decide, ReadSecret, SecretMissing, Act, ActFails, ChooseBackend
  <2> QED BY <1>0, <2>1, ReadStays
<1>6. CASE Edit(i)
  <2>1. /\ pc[i] \in {"load", "edit", "check", "write"} /\ pc'[i] \in {"check", "write", "audit"}
        /\ ~ChooseBackend(i) /\ request' = request
    BY <1>6 DEF Edit, LoadPolicy, CheckRevision, WritePolicy, WriteFails, EditAccount, EditFails, ChooseBackend
  <2> QED BY <1>0, <2>1, ReadStays
<1> QED BY <1>1, <1>2, <1>3, <1>4, <1>5, <1>6 DEF Own, Start, Perform

LEMMA OwnAct ==
  ASSUME Shape, NEW i \in Invocations, Own(i), LockInv(i), ReadInv(i), ActInv(i)
  PROVE  ActInv(i)'
<1> USE DEF Shape, IsFunction, Goto, readVars, traceVars, diskVars
<1>0. ~ChooseBackend(i) => Sees(i)
  BY StepSees
<1>1. CASE ChooseBackend(i)
  BY <1>1 DEF ChooseBackend, ActInv
<1>2. ASSUME ~ChooseBackend(i), did'[i] = did[i], request' = request, pc'[i] # "start",
             pc'[i] \in {"secret", "act"} =>
               \E fileReady : Failing(Checks(request[i], base'[i], rules'[i], fileReady)) = {}
      PROVE  ActInv(i)'
  <2>1. Acted(i) /\ did[i] # Nothing => Acted(i)'
    BY <1>0, <1>2 DEF Sees, Acted
  <2> QED BY <1>2, <2>1 DEF ActInv
<1>3. CASE AcquireLock(i) \/ LockTimeout(i) \/ LoadConfig(i) \/ Return(i) \/ Record(i) \/ Crash(i) \/ Edit(i)
  <2>1. /\ ~ChooseBackend(i) /\ did' = did /\ request' = request
        /\ pc'[i] \notin {"start", "secret", "act"}
    BY <1>3 DEF AcquireLock, LockTimeout, LoadConfig, Return, Record, RecordAudit, AuditFails, Crash, Edit,
       LoadPolicy, CheckRevision, WritePolicy, WriteFails, EditAccount, EditFails, ChooseBackend
  <2> QED BY <1>2, <2>1
<1>4. CASE ReadPolicy(i) \/ SecretMissing(i) \/ ActFails(i)
  <2>1. /\ ~ChooseBackend(i) /\ did' = did /\ request' = request
        /\ pc'[i] \notin {"start", "secret", "act"}
    BY <1>4 DEF ReadPolicy, SecretMissing, ActFails, AfterDecision, ChooseBackend
  <2> QED BY <1>2, <2>1
<1>5. CASE ReadSecret(i)
  <2>1. /\ ~ChooseBackend(i) /\ UNCHANGED <<did, request, base, rules>>
        /\ pc[i] = "secret" /\ pc'[i] = "act"
    BY <1>5 DEF ReadSecret, ChooseBackend
  <2> QED BY <1>2, <2>1 DEF ActInv
<1>6. CASE Decide(i)
  <2> DEFINE checks == Checks(request[i], base[i], rules[i], ready)
  <2>1. /\ ~ChooseBackend(i) /\ UNCHANGED <<did, request, base, rules>>
        /\ pc'[i] \in {"secret", "return", "audit"}
        /\ pc'[i] = "secret" => Execution(checks).status = "ok"
    BY <1>6 DEF Decide, AfterDecision, ChooseBackend
  <2>2. Execution(checks).status = "ok" => Failing(checks) = {}
    <3> HIDE DEF checks
    <3> QED BY DEF Execution, Verdict
  <2> QED BY <1>2, <2>1, <2>2
<1>7. CASE Act(i)
  <2>1. /\ pc[i] = "act" /\ pc'[i] = "audit" /\ UNCHANGED <<request, seen>>
        /\ did'[i].server = ServerName(request[i], base[i])
        /\ did'[i].user = LoginUser(request[i], base[i])
    BY <1>7 DEF Act
  <2>2. base[i] \in seen[i].configs /\ base[i] # Broken /\ request[i].op \in {"run", "put", "get"}
    BY <2>1 DEF ReadInv, LockInv
  <2>3. PICK file \in seen[i].policies : rules[i] = ResolvePolicy(file, request[i].forced)
    BY <2>1 DEF ReadInv
  <2>4. PICK fileReady : Failing(Checks(request[i], base[i], rules[i], fileReady)) = {}
    BY <2>1 DEF ActInv
  <2>5. rules[i] \notin {Broken, Missing}
    BY <2>1 DEF ReadInv
  <2>6. Permits(request[i], base[i], file)
    BY <2>2, <2>3, <2>4, <2>5, CheckedIsPermitted
  <2> QED BY <2>1, <2>2, <2>6 DEF ActInv, Acted
<1> QED BY <1>1, <1>3, <1>4, <1>5, <1>6, <1>7 DEF Own, Start, Perform

LEMMA ConfigStep ==
  ASSUME Shape, ConfigOK, NEW i \in Invocations, Own(i), KeyInv(i)
  PROVE  ConfigOK'
<1>1. CASE EditAccount(i)
  <2>1. config = base[i] /\ config # Broken
    BY <1>1 DEF EditAccount, Goto, KeyInv
  <2>2. PICK s : config' = [config EXCEPT !.servers[request[i].name] = s]
    BY <1>1 DEF EditAccount
  <2>3. "backend" \in DOMAIN config' /\ config'.backend = config.backend
    BY <2>1, <2>2 DEF ConfigOK
  <2> QED BY <2>1, <2>3 DEF ConfigOK
<1>2. CASE ~EditAccount(i)
  <2>1. config' = config
    BY <1>2, FileFrame DEF ChooseBackend, diskVars
  <2> QED BY <2>1 DEF ConfigOK
<1> QED BY <1>1, <1>2

\* The keyring is changed with the lock held.
LEMMA KeyFrame ==
  ASSUME NEW i \in Invocations, Own(i)
  PROVE  UNCHANGED <<keyring, issued>> \/ EditAccount(i)
<1> USE DEF diskVars
<1>1. CASE Start(i)
  BY <1>1 DEF Start, ChooseBackend, AcquireLock, LockTimeout, LoadConfig, Return
<1>2. CASE Perform(i)
  BY <1>2 DEF Perform, ReadPolicy, Decide, ReadSecret, SecretMissing, Act, ActFails
<1>3. CASE Record(i)
  BY <1>3 DEF Record, RecordAudit, AuditFails
<1>4. CASE Edit(i)
  BY <1>4 DEF Edit, LoadPolicy, CheckRevision, WritePolicy, WriteFails, EditFails
<1>5. CASE Crash(i)
  BY <1>5 DEF Crash
<1> QED BY <1>1, <1>2, <1>3, <1>4, <1>5 DEF Own

\* An invocation keeps the backend it has chosen.
LEMMA OwnBackend ==
  ASSUME Shape, NEW i \in Invocations, Own(i), KeyInv(i)
  PROVE  Live(i)' => (backend'[i] = "session_only" <=> SessionOnly(seen'[i].first))
<1> USE DEF Shape, IsFunction, Goto, readVars, traceVars, diskVars
<1>1. CASE ChooseBackend(i)
  BY <1>1 DEF ChooseBackend, SessionOnly
<1>2. CASE ~ChooseBackend(i)
  <2>1. backend' = backend /\ (Live(i)' => Live(i))
    <3>1. CASE Start(i)
      BY <1>2, <3>1 DEF Start, AcquireLock, LockTimeout, LoadConfig, Return, Live
    <3>2. CASE Perform(i)
      BY <3>2 DEF Perform, ReadPolicy, Decide, ReadSecret, SecretMissing, Act, ActFails, Live
    <3>3. CASE Record(i)
      BY <3>3 DEF Record, RecordAudit, AuditFails, Live
    <3>4. CASE Edit(i)
      BY <3>4 DEF Edit, LoadPolicy, CheckRevision, WritePolicy, WriteFails, EditAccount, EditFails, Live
    <3>5. CASE Crash(i)
      BY <3>5 DEF Crash, Live
    <3> QED BY <3>1, <3>2, <3>3, <3>4, <3>5 DEF Own
  <2>2. Sees(i)
    BY <1>2, StepSees
  <2> QED BY <2>1, <2>2 DEF KeyInv, Sees
<1> QED BY <1>1, <1>2

LEMMA OwnKey ==
  ASSUME Shape, NEW i \in Invocations, Own(i), LockInv(i), KeyInv(i)
  PROVE  KeyInv(i)'
<1> USE DEF Shape, IsFunction, Goto, Give, readVars, traceVars, diskVars
<1>0. ASSUME pc'[i] \in {"check", "write"} => request'[i].op = "policy",
             pc'[i] = "edit" => base'[i] # Broken
      PROVE  KeyInv(i)'
  BY <1>0, OwnBackend DEF KeyInv
<1>1. CASE ChooseBackend(i) \/ AcquireLock(i) \/ LockTimeout(i) \/ Return(i) \/ Record(i) \/ Crash(i)
  <2>1. pc'[i] \notin {"check", "write", "edit"}
    BY <1>1 DEF ChooseBackend, AcquireLock, LockTimeout, Return, Record, RecordAudit, AuditFails, Crash
  <2> QED BY <1>0, <2>1
<1>2. CASE LoadConfig(i)
  <2>1. pc'[i] \notin {"check", "write"} /\ (pc'[i] = "edit" => base'[i] # Broken)
    BY <1>2 DEF LoadConfig
  <2> QED BY <1>0, <2>1
<1>3. CASE Perform(i)
  <2>1. pc'[i] \notin {"check", "write", "edit"}
    BY <1>3 DEF Perform, ReadPolicy, Decide, ReadSecret, SecretMissing, Act, ActFails, AfterDecision
  <2> QED BY <1>0, <2>1
<1>4. CASE LoadPolicy(i) \/ CheckRevision(i) \/ WritePolicy(i) \/ WriteFails(i)
  <2>1. request[i].op = "policy" /\ request' = request /\ pc'[i] # "edit"
    BY <1>4 DEF KeyInv, LoadPolicy, CheckRevision, WritePolicy, WriteFails
  <2> QED BY <1>0, <2>1
<1>5. CASE EditAccount(i) \/ EditFails(i)
  <2>1. pc'[i] = "audit"
    BY <1>5 DEF EditAccount, EditFails
  <2> QED BY <1>0, <2>1
<1> QED BY <1>1, <1>2, <1>3, <1>4, <1>5 DEF Own, Start, Edit

--------------------------------------------------------------------------------
LEMMA OtherOK ==
  ASSUME AccessInv, NEW i \in Invocations, Own(i), NEW j \in Invocations \ {i}
  PROVE  PartInv(j)'
<1> USE DEF AccessInv, PartInv
<1>1. Same(j)
  BY StepFrame
<1>2. Sees(j)
  BY StepSees
<1>3. LockInv(j)'
  <2>1. lock = j => lock' = j
    BY LockFrame
  <2> QED BY <1>1, <2>1 DEF Same, LockInv, Mutates
<1>4. ReadInv(j)' /\ ActInv(j)'
  BY <1>1, <1>2, SeenOK
\* Two invocations cannot both be editing.
<1>5. pc[i] \in {"write", "edit"} => lock = i
  BY DEF LockInv
<1>6. WriteInv(j)'
  <2>1. pc[j] = "write" => lock = j
    BY DEF LockInv
  <2>2. pc[j] = "write" => policy' = policy
    BY <1>5, <2>1, FileFrame DEF ChooseBackend, diskVars, WritePolicy, Goto
  <2> QED BY <1>1, <2>2, RacedFrame DEF Same, WriteInv
<1>7. KeyInv(j)'
  BY <1>1, <1>2 DEF Same, Sees, KeyInv, Live
<1> QED BY <1>3, <1>4, <1>6, <1>7

\* A step of the user, or none.
LEMMA UserOK ==
  ASSUME AccessInv, UserEditsPolicy \/ UserEditsConfig \/ LocalFileChanges \/ UNCHANGED vars
  PROVE  ConfigOK' /\ \A j \in Invocations : PartInv(j)'
<1> USE DEF readVars, traceVars, diskVars
<1>1. /\ UNCHANGED <<lock, request, pc, readVars, outcome, did, audit, keyring, issued>>
      /\ Witness \/ UNCHANGED <<policy, config, seen>>
  BY DEF UserEditsPolicy, UserEditsConfig, LocalFileChanges, vars
<1>2. ConfigOK'
  <2>1. CASE UserEditsConfig
    <3>1. \/ config' = Broken
          \/ \E b \in {"native", "session_only"} : config' = [config EXCEPT !.backend = b]
      BY <2>1 DEF UserEditsConfig
    <3>2. config # Broken
      BY <2>1 DEF UserEditsConfig
    <3> QED BY <3>1, <3>2 DEF AccessInv, ConfigOK
  <2>2. CASE ~UserEditsConfig
    BY <2>2 DEF UserEditsPolicy, LocalFileChanges, vars, AccessInv, ConfigOK
  <2> QED BY <2>1, <2>2
<1>3. ASSUME NEW j \in Invocations PROVE PartInv(j)'
  <2>0. LockInv(j) /\ WriteInv(j) /\ ReadInv(j) /\ ActInv(j) /\ KeyInv(j)
    BY DEF AccessInv, PartInv
  <2>1. Same(j)
    BY <1>1 DEF Same
  <2>2. Sees(j)
    BY <1>1, WitnessSees DEF Sees
  <2>3. LockInv(j)'
    BY <1>1, <2>0 DEF LockInv, Mutates
  <2>4. ReadInv(j)' /\ ActInv(j)'
    BY <2>0, <2>1, <2>2, SeenOK
  <2>5. WriteInv(j)'
    BY <1>1, <2>0 DEF WriteInv, UserEditsPolicy, UserEditsConfig, LocalFileChanges, vars
  <2>6. KeyInv(j)'
    BY <1>1, <2>0, <2>1, <2>2 DEF Same, Sees, KeyInv, Live
  <2> QED BY <2>3, <2>4, <2>5, <2>6 DEF PartInv
<1> QED BY <1>2, <1>3

LEMMA AccessInit == Init => AccessInv
<1> SUFFICES ASSUME Init PROVE AccessInv
  OBVIOUS
<1>1. PICK s \in Scenarios :
        /\ config = s.config /\ request = s.requests
        /\ pc = [i \in Invocations |-> IF s.requests[i] = Nothing THEN "done" ELSE "start"]
  BY DEF Init
<1>2. Shape
  BY <1>1 DEF Init, Shape, IsFunction
<1>3. ConfigOK
  BY <1>1, AccessAssumption DEF ConfigOK
<1>4. ASSUME NEW i \in Invocations PROVE PartInv(i)
  <2>1. pc[i] \in {"start", "done"} /\ did[i] = Nothing
    BY <1>1 DEF Init
  <2>2. pc[i] = "start" => request[i].op \in {"run", "put", "get", "policy", "account"}
    BY <1>1, AccessAssumption DEF IsRequest, IsPolicyEdit, IsCommand
  <2> QED BY <2>1, <2>2 DEF PartInv, LockInv, WriteInv, ReadInv, ActInv, KeyInv, Live
<1> QED BY <1>2, <1>3, <1>4 DEF AccessInv

LEMMA AccessStep == AccessInv /\ [Next]_vars => AccessInv'
<1> SUFFICES ASSUME AccessInv, [Next]_vars PROVE AccessInv'
  OBVIOUS
<1>0. Shape'
  BY ShapeStep DEF AccessInv
<1>1. ASSUME NEW i \in Invocations, Own(i) PROVE AccessInv'
  <2>1. PartInv(i)'
    BY <1>1, OwnLock, OwnWrite, OwnRead, OwnAct, OwnKey DEF AccessInv, PartInv
  <2>2. ConfigOK'
    BY <1>1, ConfigStep DEF AccessInv, PartInv
  <2> QED BY <1>0, <1>1, <2>1, <2>2, OtherOK DEF AccessInv
<1> QED BY <1>0, <1>1, UserOK DEF Next, AllDone, AccessInv, Own

THEOREM AccessInvariant == Spec => []AccessInv
BY AccessInit, AccessStep, PTL DEF Spec

\* An edit that is not made has failed.
LEMMA OnlyEdits ==
  ASSUME Shape, NEW i \in Invocations, Own(i), ~EditAccount(i), pc[i] = "edit", pc'[i] = "audit"
  PROVE  outcome'[i].status = "error"
<1> USE DEF Shape, IsFunction, Goto, Give
<1>1. CASE Start(i)
  BY <1>1 DEF Start, ChooseBackend, AcquireLock, LockTimeout, LoadConfig, Return
<1>2. CASE Perform(i)
  BY <1>2 DEF Perform, ReadPolicy, Decide, ReadSecret, SecretMissing, Act, ActFails
<1>3. CASE Record(i)
  BY <1>3 DEF Record, RecordAudit, AuditFails
<1>4. CASE Edit(i)
  BY <1>4 DEF Edit, LoadPolicy, CheckRevision, WritePolicy, WriteFails, EditFails
<1>5. CASE Crash(i)
  BY <1>5 DEF Crash
<1> QED BY <1>1, <1>2, <1>3, <1>4, <1>5 DEF Own

--------------------------------------------------------------------------------
\* Whatever run, put and get do on a server, some policy.json and servers.json
\* that were in place since they started permitted: check_run_access() and the
\* checks of put_file() and get_file() leave no way around.
THEOREM OnlyPermitted == Spec => []OnlyPermittedActs
<1>1. AccessInv => OnlyPermittedActs
  BY DEF AccessInv, PartInv, ActInv, Acted, OnlyPermittedActs
<1> QED BY <1>1, AccessInvariant, PTL

\* The lock and the revision check of save_policy_if_unchanged() keep every
\* edit of the policy but one by hand after the check.
THEOREM PolicyEditsKept == Spec => NoPolicyEditLost
<1>1. AccessInv /\ [Next]_vars =>
        [\A i \in Invocations :
           pc[i] = "write" /\ policy' # policy /\ pc'[i] # "write" => policy = rules[i] \/ i \in raced]_vars
  BY DEF AccessInv, PartInv, WriteInv
<1> QED BY <1>1, AccessInvariant, PTL DEF Spec, NoPolicyEditLost

\* An edit that finds a session-only backend when it starts leaves the keyring
\* alone and warns of a password it did not store; any other stores the password
\* and does not warn: account commands keep the backend that cli.rs has chosen,
\* whatever the config names by the time it is loaded.
THEOREM KeyringFollows == Spec => KeyringFollowsBackend
<1> DEFINE Follows ==
      /\ keyring' # keyring =>
           \E i \in Invocations : pc[i] = "edit" /\ pc'[i] = "audit" /\ ~SessionOnly(seen[i].first)
      /\ \A i \in Invocations :
           pc[i] = "edit" /\ pc'[i] = "audit" /\ outcome'[i].status = "ok" /\ request[i].password =>
             IF SessionOnly(seen[i].first) THEN outcome'[i].warned
             ELSE issued' \in keyring' /\ ~outcome'[i].warned
<1>1. ASSUME AccessInv, NEW i \in Invocations, EditAccount(i) PROVE Follows
  <2>1. /\ pc[i] = "edit" /\ pc'[i] = "audit" /\ outcome'[i].warned = Warns(i)
        /\ \A j \in Invocations \ {i} : pc'[j] = pc[j]
    BY <1>1 DEF EditAccount, Goto, AccessInv, Shape, IsFunction
  <2>2. backend[i] = "session_only" <=> SessionOnly(seen[i].first)
    BY <1>1, <2>1 DEF AccessInv, PartInv, KeyInv, Live
  <2>3. \E auth, old : /\ keyring' = KeyringAfter(i, auth, old)
                       /\ request[i].password => issued' = issued + 1 /\ auth = issued + 1
    BY <1>1 DEF EditAccount
  <2>4. keyring' # keyring => ~SessionOnly(seen[i].first)
    BY <2>2, <2>3 DEF KeyringAfter
  <2>5. request[i].password => IF SessionOnly(seen[i].first) THEN outcome'[i].warned
                               ELSE issued' \in keyring' /\ ~outcome'[i].warned
    BY <2>1, <2>2, <2>3 DEF KeyringAfter, Warns
  <2> QED BY <2>1, <2>4, <2>5
<1>2. ASSUME AccessInv, NEW i \in Invocations, Own(i), ~EditAccount(i) PROVE Follows
  <2>1. keyring' = keyring
    BY <1>2, KeyFrame
  <2>2. \A j \in Invocations \ {i} : pc'[j] = pc[j]
    BY <1>2, StepFrame DEF AccessInv, Same
  <2>3. pc[i] = "edit" /\ pc'[i] = "audit" => outcome'[i].status = "error"
    BY <1>2, OnlyEdits DEF AccessInv
  <2> QED BY <2>1, <2>2, <2>3
<1>3. ASSUME AccessInv, [Next]_vars, ~\E i \in Invocations : Own(i) PROVE Follows
  BY <1>3 DEF Next, AllDone, Own, UserEditsPolicy, UserEditsConfig, LocalFileChanges, vars, diskVars
<1>4. AccessInv /\ [Next]_vars => [Follows]_vars
  BY <1>1, <1>2, <1>3
<1> QED BY <1>4, AccessInvariant, PTL DEF Spec, KeyringFollowsBackend
--------------------------------------------------------------------------------
(***************************************************************************)
(* A preflight and a command come to the same verdict over the same        *)
(* checks: the first that fails.                                           *)
(***************************************************************************)
LEMMA LessThan ==
  \E R : IsWellFoundedOn(R, Nat) /\ \A m, n \in Nat : m < n => <<m, n>> \in R
<1>1. \A m, n \in Nat : m < n => <<m, n>> \in OpToRel(<, Nat)
  BY DEF OpToRel
<1> QED BY <1>1, NatLessThanWellFounded, Zenon

LEMMA LeastNumber ==
  ASSUME NEW S, S \subseteq Nat, S # {}
  PROVE  \E n \in S : \A m \in S : n <= m
<1>1. PICK R : IsWellFoundedOn(R, Nat) /\ \A m, n \in Nat : m < n => <<m, n>> \in R
  BY LessThan, Zenon
<1>2. IsWellFoundedOn(R, Nat)
  BY <1>1
<1>3. PICK n \in S : \A m \in S : ~ (<<m, n>> \in R)
  BY <1>2, WFMin, Zenon
<1>4. \A m \in S : ~ (m < n)
  BY <1>1, <1>3
<1> QED BY <1>4

\* The first of a set of numbers is the only one before all others.
LEMMA FirstIs ==
  ASSUME NEW S, S \subseteq Nat, NEW n \in S, \A m \in S : n <= m
  PROVE  (CHOOSE k \in S : \A m \in S : k <= m) = n
<1>1. \A k \in S : (\A m \in S : k <= m) => k = n
  OBVIOUS
<1>2. \E k \in S : \A m \in S : k <= m
  OBVIOUS
<1> QED BY <1>1, <1>2, Zenon

LEMMA PreflightIsExecution ==
  ASSUME NEW checks, DOMAIN checks \subseteq Nat
  PROVE  Preflight(checks) = Execution(checks)
<1> DEFINE failing == Failing(checks)
           fatal == {k \in failing : checks[k].fatal}
           reported == {k \in failing : \A m \in fatal : k <= m}
<1>1. failing \subseteq Nat /\ fatal \subseteq failing /\ reported \subseteq failing
  BY DEF Failing
<1>2. Preflight(checks) = Verdict(checks, reported) /\ Execution(checks) = Verdict(checks, failing)
  BY Zenon DEF Preflight, Execution
<1>3. CASE failing = {}
  BY <1>1, <1>2, <1>3
<1>4. CASE failing # {}
  <2>1. PICK first \in failing : \A m \in failing : first <= m
    BY <1>1, <1>4, LeastNumber, Zenon
  <2>2. first \in reported /\ \A m \in reported : first <= m
    BY <1>1, <2>1
  <2> HIDE DEF failing, fatal, reported
  <2>3. (CHOOSE k \in failing : \A m \in failing : k <= m) = first
    BY <1>1, <2>1, FirstIs
  <2>4. (CHOOSE k \in reported : \A m \in reported : k <= m) = first
    BY <1>1, <2>2, FirstIs
  <2>5. reported # {} /\ failing # {}
    BY <2>1, <2>2
  <2> QED BY <1>2, <2>3, <2>4, <2>5, Zenon DEF Verdict
<1> QED BY <1>3, <1>4

\* The checks of a command do not depend on whether it is a preflight.
LEMMA SameChecks ==
  ASSUME NEW r, NEW q, IsCommand(r), Fields(r.op) \subseteq DOMAIN r, q = [r EXCEPT !.check = FALSE],
         NEW c, NEW p, NEW fileReady
  PROVE  q.op = r.op /\ Checks(q, c, p, fileReady) = Checks(r, c, p, fileReady)
<1>1. \A f \in Fields(r.op) \ {"check"} : q[f] = r[f]
  OBVIOUS
<1>2. q.op = r.op /\ q.name = r.name /\ q.user = r.user /\ q.text = r.text /\ q.yes = r.yes
  BY <1>1 DEF Fields
<1>3. /\ IsRegistered(q, c) = IsRegistered(r, c) /\ ServerName(q, c) = ServerName(r, c)
      /\ AccountDenied(q, c, p) = AccountDenied(r, c, p) /\ AccountOf(q, c) = AccountOf(r, c)
  BY <1>2 DEF IsRegistered, ServerName, LoginUser, AccountDenied, AccountOf
<1>4. CASE r.op = "run"
  <2>1. q.asRoot = r.asRoot /\ q.noPassword = r.noPassword /\ q.stream = r.stream
    BY <1>1, <1>4 DEF Fields
  <2>2. RunChecks(q, c, p) = RunChecks(r, c, p)
    BY <1>2, <1>3, <2>1 DEF RunChecks
  <2> QED BY <1>2, <1>4, <2>2 DEF Checks
<1>5. CASE r.op = "put"
  <2>1. q.atomic = r.atomic
    BY <1>1, <1>5 DEF Fields
  <2>2. PutChecks(q, c, p, fileReady) = PutChecks(r, c, p, fileReady)
    BY <1>2, <1>3, <2>1 DEF PutChecks
  <2> QED BY <1>2, <1>5, <2>2 DEF Checks
<1>6. CASE r.op = "get"
  <2>1. GetChecks(q, c, p, fileReady) = GetChecks(r, c, p, fileReady)
    BY <1>2, <1>3 DEF GetChecks
  <2> QED BY <1>2, <1>6, <2>1 DEF Checks
<1> QED BY <1>4, <1>5, <1>6 DEF IsCommand

LEMMA ChecksAreNumbered ==
  ASSUME NEW r, NEW c, NEW p, NEW fileReady, IsCommand(r)
  PROVE  DOMAIN Checks(r, c, p, fileReady) \subseteq Nat
<1>1. \A a, b, d, e, f, g, h, k : DOMAIN <<a, b, d, e, f, g, h, k>> \subseteq Nat
  OBVIOUS
<1>2. \A a, b, d, e, f, g, h, k, l, m : DOMAIN <<a, b, d, e, f, g, h, k, l, m>> \subseteq Nat
  OBVIOUS
<1>3. DOMAIN RunChecks(r, c, p) \subseteq Nat
  BY <1>1 DEF RunChecks
<1>4. DOMAIN PutChecks(r, c, p, fileReady) \subseteq Nat
  BY <1>2 DEF PutChecks
<1>5. DOMAIN GetChecks(r, c, p, fileReady) \subseteq Nat
  BY <1>1 DEF GetChecks
<1> QED BY <1>3, <1>4, <1>5 DEF IsCommand, Checks

--------------------------------------------------------------------------------
(***************************************************************************)
(* The verdict of an invocation and its entry in the audit log are those   *)
(* of the files it has read.                                               *)
(***************************************************************************)
Pending == {"start", "lock", "load", "rules", "decide", "secret", "act"}
Passed(i) == Failing(Checks(request[i], base[i], rules[i], local[i])) = {}

\* The outcome over a config that could be read.
Decided(i) ==
  LET checks == Checks(request[i], base[i], rules[i], local[i]) IN
  IF rules[i] \in {Broken, Missing} THEN outcome[i].status = "error" /\ outcome[i].kind = "policy"
  ELSE IF request[i].check THEN outcome[i] = Preflight(checks)
  ELSE IF Passed(i) THEN outcome[i].kind \in {"none", "auth", "ssh"}
  ELSE outcome[i] = Execution(checks)

DecisionInv(i) ==
  /\ pc[i] \in Pending => outcome[i] = Undecided
  /\ pc[i] \in {"secret", "act"} => ~request[i].check /\ Passed(i)
  /\ pc[i] = "audit" /\ IsCommand(request[i]) =>
       ~request[i].check /\ base[i] # Broken /\ outcome[i] # Undecided
  /\ outcome[i] # Undecided /\ IsCommand(request[i]) /\ base[i] # Broken => Decided(i)

Deed(i) ==
  [server |-> ServerName(request[i], base[i]), user |-> LoginUser(request[i], base[i]),
   touched |-> Touched(request[i])]

RecordInv(i) ==
  /\ pc[i] \in Pending => did[i] = Nothing
  /\ did[i] # Nothing =>
       IsCommand(request[i]) /\ IsRegistered(request[i], base[i]) /\ did[i] = Deed(i)
  /\ audit[i] # Nothing =>
       /\ pc[i] \in {"return", "done"}
       /\ audit[i] = AuditEntry(request[i], base[i], outcome[i])
       /\ IsCommand(request[i]) => ~request[i].check
  /\ outcome[i].status = "ok" /\ IsCommand(request[i]) /\ ~request[i].check => did[i] # Nothing

Asked(i) == request[i] # Nothing => IsRequest(request[i])

TruthInv == \A i \in Invocations : DecisionInv(i) /\ RecordInv(i) /\ Asked(i)

LEMMA TruthStays ==
  ASSUME NEW j \in Invocations, Same(j), DecisionInv(j), RecordInv(j), Asked(j)
  PROVE  DecisionInv(j)' /\ RecordInv(j)' /\ Asked(j)'
<1>1. /\ Passed(j)' = Passed(j) /\ Decided(j)' = Decided(j) /\ Deed(j)' = Deed(j)
      /\ IsRegistered(request[j], base[j])' = IsRegistered(request[j], base[j])
      /\ AuditEntry(request[j], base[j], outcome[j])' = AuditEntry(request[j], base[j], outcome[j])
  BY DEF Same, Passed, Decided, Deed
<1> QED BY <1>1 DEF Same, DecisionInv, RecordInv, Asked

LEMMA OwnDecision ==
  ASSUME Shape, NEW i \in Invocations, Own(i), LockInv(i), ReadInv(i), KeyInv(i), DecisionInv(i)
  PROVE  DecisionInv(i)'
<1> USE DEF Shape, IsFunction, Goto, readVars, traceVars, diskVars
<1>0. request' = request
  BY DEF Own, Start, Perform, Record, Edit, ChooseBackend, AcquireLock, LockTimeout, LoadConfig, Return,
     ReadPolicy, Decide, ReadSecret, SecretMissing, Act, ActFails, RecordAudit, AuditFails,
     LoadPolicy, CheckRevision, WritePolicy, WriteFails, EditAccount, EditFails, Crash
\* A command that edits.
<1>1. ASSUME ~IsCommand(request[i]), pc'[i] \notin Pending PROVE DecisionInv(i)'
  BY <1>0, <1>1 DEF DecisionInv, Pending
\* A step that decides nothing.
<1>2. ASSUME outcome'[i] = outcome[i], base'[i] = base[i], rules'[i] = rules[i], local'[i] = local[i],
             pc'[i] \in Pending => pc[i] \in Pending,
             pc'[i] \in {"secret", "act"} => pc[i] \in {"secret", "act"}, pc'[i] # "audit"
      PROVE  DecisionInv(i)'
  <2>1. Passed(i)' = Passed(i) /\ Decided(i)' = Decided(i)
    BY <1>0, <1>2 DEF Passed, Decided
  <2> QED BY <1>0, <1>2, <2>1 DEF DecisionInv
\* A step before the decision.
<1>3. ASSUME pc[i] \in Pending, pc'[i] \in Pending \ {"secret", "act"}, outcome'[i] = outcome[i]
      PROVE  DecisionInv(i)'
  BY <1>0, <1>3 DEF DecisionInv, Pending
<1>4. CASE ChooseBackend(i) \/ AcquireLock(i)
  BY <1>3, <1>4 DEF ChooseBackend, AcquireLock, Pending
<1>5. CASE LockTimeout(i)
  BY <1>1, <1>5 DEF LockTimeout, LockInv, Mutates, IsCommand, Pending
<1>6. CASE LoadConfig(i)
  <2>1. CASE config = Broken
    <3>1. base'[i] = Broken /\ pc'[i] = "return"
      BY <1>6, <2>1 DEF LoadConfig
    <3> QED BY <3>1 DEF DecisionInv, Pending
  <2>2. CASE config # Broken /\ request[i].op = "account"
    BY <1>1, <1>6, <2>2 DEF LoadConfig, IsCommand, Pending
  <2>3. CASE config # Broken /\ request[i].op # "account"
    BY <1>3, <1>6, <2>3 DEF LoadConfig, Pending
  <2> QED BY <2>1, <2>2, <2>3
<1>7. CASE Return(i) \/ Record(i) \/ Crash(i) \/ ReadSecret(i)
  BY <1>2, <1>7 DEF Return, Record, RecordAudit, AuditFails, Crash, ReadSecret, Pending
<1>8. CASE ReadPolicy(i)
  <2> DEFINE p == ResolvePolicy(policy, request[i].forced)
  <2> HIDE DEF p
  <2>1. /\ pc[i] = "rules" /\ base'[i] = base[i] /\ rules'[i] = p /\ base[i] # Broken
    BY <1>8 DEF ReadPolicy, ReadInv, p
  <2>2. CASE p \notin {Broken, Missing}
    <3>1. pc'[i] = "decide" /\ outcome'[i] = outcome[i]
      BY <1>8, <2>2 DEF ReadPolicy, p
    <3> QED BY <1>3, <2>1, <3>1 DEF Pending
  <2>3. CASE p \in {Broken, Missing}
    <3>1. /\ pc'[i] = IF request[i].check THEN "return" ELSE "audit"
          /\ outcome'[i] = [status |-> "error", kind |-> "policy", warned |-> FALSE]
      BY <1>8, <2>3 DEF ReadPolicy, AfterDecision, Give, p
    <3>2. Decided(i)' /\ outcome'[i] # Undecided
      BY <2>1, <2>3, <3>1 DEF Decided, Undecided
    <3> QED BY <1>0, <2>1, <3>1, <3>2 DEF DecisionInv, Pending
  <2> QED BY <2>2, <2>3
<1>9. CASE Decide(i)
  <2> DEFINE checks == Checks(request[i], base[i], rules[i], ready)
             verdict == IF request[i].check THEN Preflight(checks) ELSE Execution(checks)
  <2> HIDE DEF checks
  <2>1. /\ pc[i] = "decide" /\ base'[i] = base[i] /\ rules'[i] = rules[i] /\ local'[i] = ready
        /\ pc'[i] = IF verdict.status = "ok" /\ ~request[i].check THEN "secret"
                    ELSE IF request[i].check THEN "return" ELSE "audit"
        /\ outcome'[i] = IF verdict.status = "ok" /\ ~request[i].check THEN Undecided ELSE verdict
    BY <1>9 DEF Decide, AfterDecision, checks
  <2>2. base[i] # Broken /\ rules[i] \notin {Broken, Missing}
    BY <2>1 DEF ReadInv
  <2>3. Checks(request[i], base[i], rules[i], local[i])' = checks
    BY <1>0, <2>1 DEF checks
  <2>4. /\ verdict # Undecided
        /\ ~request[i].check => (verdict.status = "ok" <=> Failing(checks) = {})
    BY DEF Preflight, Execution, Verdict, Undecided
  <2>5. Passed(i)' = (Failing(checks) = {})
    BY <2>3 DEF Passed
  <2>6. CASE request[i].check
    <3>1. pc'[i] = "return" /\ outcome'[i] = Preflight(checks)
      BY <2>1, <2>6
    <3>2. Decided(i)'
      BY <1>0, <2>1, <2>2, <2>3, <2>6, <3>1 DEF Decided
    <3> QED BY <3>1, <3>2 DEF DecisionInv, Pending
  <2>7. CASE ~request[i].check /\ Failing(checks) = {}
    <3>1. pc'[i] = "secret" /\ outcome'[i] = Undecided
      BY <2>1, <2>4, <2>7
    <3> QED BY <1>0, <2>5, <2>7, <3>1 DEF DecisionInv, Pending
  <2>8. CASE ~request[i].check /\ Failing(checks) # {}
    <3>1. pc'[i] = "audit" /\ outcome'[i] = Execution(checks) /\ outcome'[i] # Undecided
      BY <2>1, <2>4, <2>8
    <3>2. Decided(i)'
      BY <1>0, <2>1, <2>2, <2>3, <2>5, <2>8, <3>1 DEF Decided
    <3> QED BY <1>0, <2>1, <2>2, <2>8, <3>1, <3>2 DEF DecisionInv, Pending
  <2> QED BY <2>6, <2>7, <2>8
<1>10. CASE SecretMissing(i) \/ Act(i) \/ ActFails(i)
  <2>1. /\ pc[i] \in {"secret", "act"} /\ pc'[i] = "audit" /\ UNCHANGED <<base, rules, local>>
        /\ outcome'[i].kind \in {"none", "auth", "ssh"} /\ outcome'[i] # Undecided
    BY <1>10 DEF SecretMissing, Act, ActFails, Give, Undecided
  <2>2. ~request[i].check /\ Passed(i) /\ base[i] # Broken /\ rules[i] \notin {Broken, Missing}
    BY <2>1 DEF DecisionInv, ReadInv
  <2>3. Passed(i)'
    BY <1>0, <2>1, <2>2 DEF Passed
  <2>4. Decided(i)'
    BY <1>0, <2>1, <2>2, <2>3 DEF Decided
  <2> QED BY <1>0, <2>1, <2>2, <2>4 DEF DecisionInv, Pending
<1>11. CASE Edit(i)
  <2>1. ~IsCommand(request[i]) /\ pc'[i] \notin Pending
    BY <1>11 DEF Edit, LoadPolicy, CheckRevision, WritePolicy, WriteFails, EditAccount, EditFails,
       LockInv, Mutates, IsCommand, Pending
  <2> QED BY <1>1, <2>1
<1> QED BY <1>4, <1>5, <1>6, <1>7, <1>8, <1>9, <1>10, <1>11 DEF Own, Start, Perform

LEMMA OwnRecord ==
  ASSUME Shape, NEW i \in Invocations, Own(i), LockInv(i), ActInv(i), ReadInv(i), KeyInv(i),
         DecisionInv(i), RecordInv(i)
  PROVE  RecordInv(i)'
<1> USE DEF Shape, IsFunction, Goto, readVars, traceVars, diskVars
<1>0. request' = request
  BY DEF Own, Start, Perform, Record, Edit, ChooseBackend, AcquireLock, LockTimeout, LoadConfig, Return,
     ReadPolicy, Decide, ReadSecret, SecretMissing, Act, ActFails, RecordAudit, AuditFails,
     LoadPolicy, CheckRevision, WritePolicy, WriteFails, EditAccount, EditFails, Crash
<1>a. pc[i] \notin {"return", "done"} => audit[i] = Nothing
  BY DEF RecordInv
\* A step that does nothing on a server and keeps no record.
<1>1. ASSUME did'[i] = did[i], audit'[i] = audit[i],
             pc'[i] \in Pending => pc[i] \in Pending,
             base'[i] = base[i] \/ did[i] = Nothing,
             \/ base'[i] = base[i] /\ outcome'[i] = outcome[i]
                /\ (pc[i] \in {"return", "done"} => pc'[i] \in {"return", "done"})
             \/ audit[i] = Nothing,
             \/ outcome'[i] = outcome[i] \/ outcome'[i].status # "ok"
             \/ ~IsCommand(request[i]) \/ request[i].check
      PROVE  RecordInv(i)'
  <2>1. base'[i] = base[i] =>
          /\ Deed(i)' = Deed(i)
          /\ IsRegistered(request[i], base[i])' = IsRegistered(request[i], base[i])
          /\ outcome'[i] = outcome[i] =>
               AuditEntry(request[i], base[i], outcome[i])' = AuditEntry(request[i], base[i], outcome[i])
    BY <1>0 DEF Deed
  <2> QED BY <1>0, <1>1, <2>1 DEF RecordInv
<1>2. CASE Start(i)
  <2>1. /\ pc[i] \in Pending \/ (Return(i) /\ UNCHANGED <<base, outcome>>)
        /\ did' = did /\ audit' = audit /\ (pc'[i] \in Pending => pc[i] \in Pending)
        /\ outcome'[i] = outcome[i] \/ outcome'[i].status # "ok"
        /\ Return(i) => pc'[i] = "done"
    BY <1>2 DEF Start, ChooseBackend, AcquireLock, LockTimeout, LoadConfig, Return, Give, Pending
  <2>2. pc[i] \in Pending => did[i] = Nothing /\ audit[i] = Nothing
    BY <1>a DEF RecordInv, Pending
  <2> QED BY <1>1, <2>1, <2>2
<1>3. CASE ReadPolicy(i) \/ Decide(i) \/ ReadSecret(i) \/ SecretMissing(i) \/ ActFails(i)
  <2>1. /\ pc[i] \in Pending /\ UNCHANGED <<did, audit, base>>
        /\ outcome'[i] = outcome[i] \/ outcome'[i].status # "ok" \/ request[i].check
    <3>1. CASE Decide(i)
      BY <3>1 DEF Decide, Pending, Undecided
    <3> QED BY <1>3, <3>1 DEF ReadPolicy, ReadSecret, SecretMissing, ActFails, Give, Pending
  <2>2. audit[i] = Nothing
    BY <1>a, <2>1 DEF Pending
  <2> QED BY <1>1, <2>1, <2>2
<1>4. CASE Act(i)
  <2>1. /\ pc[i] = "act" /\ pc'[i] = "audit" /\ UNCHANGED <<base, audit>>
        /\ did'[i] = Deed(i)
    BY <1>4 DEF Act, Deed
  <2>2. did'[i] # Nothing
    BY <2>1 DEF Deed, Nothing
  <2>3. IsCommand(request[i]) /\ ~request[i].check
    BY <2>1 DEF LockInv, DecisionInv, IsCommand
  <2>4. IsRegistered(request[i], base[i])
    <3>1. PICK fileReady : Failing(Checks(request[i], base[i], rules[i], fileReady)) = {}
      BY <2>1 DEF ActInv
    <3>2. PICK file : rules[i] = ResolvePolicy(file, request[i].forced)
      BY <2>1 DEF ReadInv
    <3>3. rules[i] \notin {Broken, Missing} /\ request[i].op \in {"run", "put", "get"}
      BY <2>1, <2>3 DEF ReadInv, IsCommand
    <3>4. Permits(request[i], base[i], file)
      BY <3>1, <3>2, <3>3, CheckedIsPermitted
    <3> QED BY <3>4 DEF Permits
  <2>5. Deed(i)' = Deed(i) /\ IsRegistered(request[i], base[i])' = IsRegistered(request[i], base[i])
    BY <1>0, <2>1 DEF Deed
  <2>6. audit'[i] = Nothing
    BY <1>a, <2>1
  <2> QED BY <1>0, <2>1, <2>2, <2>3, <2>4, <2>5, <2>6 DEF RecordInv, Pending
<1>5. CASE RecordAudit(i)
  <2>1. /\ pc[i] = "audit" /\ pc'[i] = "return" /\ UNCHANGED <<base, did, outcome>>
        /\ audit'[i] = AuditEntry(request[i], base[i], outcome[i])
    BY <1>5 DEF RecordAudit
  <2>2. /\ Deed(i)' = Deed(i) /\ IsRegistered(request[i], base[i])' = IsRegistered(request[i], base[i])
        /\ AuditEntry(request[i], base[i], outcome[i])' = AuditEntry(request[i], base[i], outcome[i])
    BY <1>0, <2>1 DEF Deed
  <2>3. IsCommand(request[i]) => ~request[i].check
    BY <2>1 DEF DecisionInv
  <2> QED BY <1>0, <2>1, <2>2, <2>3 DEF RecordInv, Pending
<1>6. CASE AuditFails(i) \/ Crash(i)
  BY <1>1, <1>6 DEF AuditFails, Crash, Pending
<1>7. CASE Edit(i)
  <2>1. /\ ~IsCommand(request[i]) /\ pc[i] \notin {"return", "done"}
        /\ UNCHANGED <<did, audit, base>> /\ pc'[i] \notin Pending
    BY <1>7 DEF Edit, LoadPolicy, CheckRevision, WritePolicy, WriteFails, EditAccount, EditFails,
       LockInv, Mutates, IsCommand, Pending
  <2> QED BY <1>1, <1>a, <2>1
<1> QED BY <1>2, <1>3, <1>4, <1>5, <1>6, <1>7 DEF Own, Perform, Record

LEMMA TruthInit == Init => TruthInv
<1> SUFFICES ASSUME Init, NEW i \in Invocations PROVE DecisionInv(i) /\ RecordInv(i) /\ Asked(i)
  BY DEF TruthInv
<1>1. PICK s \in Scenarios :
        /\ request = s.requests
        /\ pc = [j \in Invocations |-> IF s.requests[j] = Nothing THEN "done" ELSE "start"]
  BY DEF Init
<1>2. /\ pc[i] \in {"start", "done"} /\ did[i] = Nothing /\ audit[i] = Nothing
      /\ outcome[i] = Undecided
  BY <1>1 DEF Init
<1>3. Asked(i)
  BY <1>1, AccessAssumption DEF Asked
<1> QED BY <1>2, <1>3 DEF DecisionInv, RecordInv, Pending, Undecided

LEMMA TruthStep == AccessInv /\ TruthInv /\ [Next]_vars => TruthInv'
<1> SUFFICES ASSUME AccessInv, TruthInv, [Next]_vars, NEW j \in Invocations
             PROVE  DecisionInv(j)' /\ RecordInv(j)' /\ Asked(j)'
  BY DEF TruthInv
<1>0. Shape /\ PartInv(j) /\ DecisionInv(j) /\ RecordInv(j) /\ Asked(j)
  BY DEF AccessInv, TruthInv
<1>1. ASSUME NEW i \in Invocations, Own(i), i # j PROVE Same(j)
  BY <1>0, <1>1, StepFrame
<1>2. CASE Own(j)
  <2>1. DecisionInv(j)' /\ RecordInv(j)'
    BY <1>0, <1>2, OwnDecision, OwnRecord DEF PartInv
  <2>2. request' = request
    BY <1>2 DEF Own, Start, Perform, Record, Edit, ChooseBackend, AcquireLock, LockTimeout, LoadConfig, Return,
       ReadPolicy, Decide, ReadSecret, SecretMissing, Act, ActFails, RecordAudit, AuditFails,
       LoadPolicy, CheckRevision, WritePolicy, WriteFails, EditAccount, EditFails, Crash, diskVars
  <2> QED BY <1>0, <2>1, <2>2 DEF Asked
<1>3. CASE UserEditsPolicy \/ UserEditsConfig \/ LocalFileChanges \/ UNCHANGED vars
  <2>1. Same(j)
    BY <1>3 DEF UserEditsPolicy, UserEditsConfig, LocalFileChanges, vars, Same, readVars
  <2> QED BY <1>0, <2>1, TruthStays
<1>4. \/ \E i \in Invocations : Own(i)
      \/ UserEditsPolicy \/ UserEditsConfig \/ LocalFileChanges \/ UNCHANGED vars
  BY DEF Next, AllDone, Own
<1> QED BY <1>0, <1>1, <1>2, <1>3, <1>4, TruthStays

THEOREM TruthInvariant == Spec => [](AccessInv /\ TruthInv)
<1>1. Init => AccessInv /\ TruthInv
  BY AccessInit, TruthInit
<1>2. (AccessInv /\ TruthInv) /\ [Next]_vars => (AccessInv /\ TruthInv)'
  BY AccessStep, TruthStep
<1> QED BY <1>1, <1>2, PTL DEF Spec

\* Whatever the files and the request, a preflight and its command come to the
\* same verdict over the same files: check_run() and check_transfer() ask what
\* run_remote(), put_file() and get_file() ask, in the same order.
THEOREM PreflightTellsTheVerdict == Spec => []PreflightAgrees
<1>1. ASSUME AccessInv, TruthInv PROVE PreflightAgrees
  <2> SUFFICES ASSUME NEW i \in Invocations, NEW j \in Invocations,
                      request[i] # Nothing, request[j] # Nothing, IsCommand(request[i]), request[i].check,
                      request[j] = [request[i] EXCEPT !.check = FALSE],
                      pc[i] \in {"return", "done"}, pc[j] \in {"secret", "act", "audit"},
                      outcome[i].status # "none", did[j] = Nothing,
                      base[i] = base[j], rules[i] = rules[j], local[i] = local[j]
               PROVE  IF outcome[i].status = "ok" THEN outcome[j].kind \in {"none", "auth", "ssh"}
                      ELSE outcome[j].kind = outcome[i].kind
    BY Zenon DEF PreflightAgrees
  <2> DEFINE checks == Checks(request[i], base[i], rules[i], local[i])
  <2> HIDE DEF checks
  <2>0. DecisionInv(i) /\ DecisionInv(j) /\ Asked(i) /\ PartInv(j)
    BY <1>1 DEF AccessInv, TruthInv
  <2>1. IsCommand(request[j]) /\ Checks(request[j], base[j], rules[j], local[j]) = checks
    <3>1. Fields(request[i].op) \subseteq DOMAIN request[i]
      BY <2>0 DEF Asked, IsRequest, IsPolicyEdit, IsCommand
    <3> QED BY <3>1, SameChecks DEF IsCommand, checks
  <2>2. ~request[j].check /\ base[j] # Broken
    BY <2>0, <2>1 DEF DecisionInv, PartInv, ReadInv
  <2>3. outcome[i] # Undecided /\ base[i] # Broken
    BY <2>2 DEF Undecided
  <2>4. Decided(i)
    BY <2>0, <2>3 DEF DecisionInv
  <2>5. Preflight(checks) = Execution(checks)
    BY PreflightIsExecution, ChecksAreNumbered DEF checks
  <2>6. Passed(j) <=> Failing(checks) = {}
    BY <2>1 DEF Passed
  <2>7. /\ Failing(checks) = {} => Execution(checks).status = "ok"
        /\ Failing(checks) # {} => Execution(checks).status = "error"
    BY DEF Execution, Verdict
  <2>8. CASE rules[i] \in {Broken, Missing}
    <3>1. pc[j] = "audit"
      BY <2>0, <2>8 DEF PartInv, ReadInv
    <3>2. Decided(j)
      BY <2>0, <2>1, <2>2, <3>1 DEF DecisionInv
    <3> QED BY <2>4, <2>8, <3>2 DEF Decided
  <2>9. CASE rules[i] \notin {Broken, Missing}
    <3>1. outcome[i] = Execution(checks)
      BY <2>4, <2>5, <2>9 DEF Decided, checks
    <3>2. CASE pc[j] = "audit"
      <4>1. Decided(j)
        BY <2>0, <2>1, <2>2, <3>2 DEF DecisionInv
      <4>2. IF Passed(j) THEN outcome[j].kind \in {"none", "auth", "ssh"} ELSE outcome[j] = Execution(checks)
        BY <2>1, <2>2, <2>9, <4>1 DEF Decided
      <4> QED BY <2>6, <2>7, <3>1, <4>2
    <3>3. CASE pc[j] \in {"secret", "act"}
      <4>1. outcome[j] = Undecided /\ Passed(j)
        BY <2>0, <3>3 DEF DecisionInv, Pending
      <4> QED BY <2>6, <2>7, <3>1, <4>1 DEF Undecided
    <3> QED BY <3>2, <3>3
  <2> QED BY <2>8, <2>9
<1> QED BY <1>1, TruthInvariant, PTL

\* The audit entry that audit_descriptor() makes from the arguments names the
\* account that select_account() comes to and what is done there, and has the
\* result of the command.
THEOREM AuditIsTrue == Spec => []AuditTellsTheTruth
<1>1. ASSUME TruthInv PROVE AuditTellsTheTruth
  <2> SUFFICES ASSUME NEW i \in Invocations, audit[i] # Nothing
               PROVE  /\ audit[i].status = outcome[i].status
                      /\ did[i] # Nothing =>
                           /\ audit[i].server = did[i].server /\ audit[i].user = did[i].user
                           /\ IF request[i].op = "run"
                              THEN \E text \in did[i].touched : \A k \in DOMAIN audit[i].detail :
                                     audit[i].detail[k] = BaseName(CommandWords(text)[k])
                              ELSE audit[i].detail \in did[i].touched
                      /\ audit[i].status = "ok" /\ IsCommand(request[i]) => did[i] # Nothing
    BY DEF AuditTellsTheTruth
  <2>1. audit[i] = AuditEntry(request[i], base[i], outcome[i]) /\ (IsCommand(request[i]) => ~request[i].check)
    BY <1>1 DEF TruthInv, RecordInv
  <2>2. audit[i].status = outcome[i].status
    BY <2>1 DEF AuditEntry
  <2>3. audit[i].status = "ok" /\ IsCommand(request[i]) => did[i] # Nothing
    BY <1>1, <2>1, <2>2 DEF TruthInv, RecordInv
  <2>4. ASSUME did[i] # Nothing
        PROVE  /\ audit[i].server = did[i].server /\ audit[i].user = did[i].user
               /\ IF request[i].op = "run"
                  THEN \E text \in did[i].touched : \A k \in DOMAIN audit[i].detail :
                         audit[i].detail[k] = BaseName(CommandWords(text)[k])
                  ELSE audit[i].detail \in did[i].touched
    <3>1. IsCommand(request[i]) /\ IsRegistered(request[i], base[i]) /\ did[i] = Deed(i)
      BY <1>1, <2>4 DEF TruthInv, RecordInv
    <3>2. audit[i].server = did[i].server /\ audit[i].user = did[i].user
      BY <2>1, <3>1 DEF AuditEntry, Deed, IsRegistered, LoginUser, IsCommand
    <3>3. audit[i].detail = AuditDetail(request[i]) /\ did[i].touched = Touched(request[i])
      BY <2>1, <3>1 DEF AuditEntry, Deed
    <3>4. CASE request[i].op = "run"
      <4>1. audit[i].detail = CommandProgram(request[i].text) /\ request[i].text \in did[i].touched
        BY <3>3, <3>4 DEF AuditDetail, Touched
      <4>2. \A k \in DOMAIN CommandProgram(request[i].text) :
              CommandProgram(request[i].text)[k] = BaseName(CommandWords(request[i].text)[k])
        BY DEF CommandProgram, FirstOf
      <4> QED BY <3>2, <3>4, <4>1, <4>2
    <3>5. CASE request[i].op \in {"put", "get"}
      BY <3>2, <3>3, <3>5 DEF AuditDetail, Touched
    <3> QED BY <3>1, <3>4, <3>5 DEF IsCommand
  <2> QED BY <2>2, <2>3, <2>4
<1> QED BY <1>1, TruthInvariant, PTL

--------------------------------------------------------------------------------
(***************************************************************************)
(* Recursion over a text: a set that has 0 and the successors of its       *)
(* members has every number, so a recursive function has a value at each.  *)
(***************************************************************************)
\* Induction over the natural numbers, for sets.
LEMMA AllNumbers ==
  ASSUME NEW S, 0 \in S, \A n \in Nat : n \in S => n + 1 \in S
  PROVE  Nat \subseteq S
<1> SUFFICES ASSUME Nat \ S # {} PROVE FALSE
  OBVIOUS
<1>1. PICK x \in Nat \ S : \A y \in Nat \ S : x <= y
  BY LeastNumber
<1>2. x # 0 /\ x - 1 \in Nat /\ x - 1 \in S
  BY <1>1
<1> QED BY <1>1, <1>2

\* A recursion over 0..N with values in X has a solution.
LEMMA RecursionIsDefined ==
  ASSUME NEW X, NEW x0 \in X, NEW N \in Nat, NEW step \in [1..N -> [X -> X]]
  PROVE  \E f \in [0..N -> X] : f[0] = x0 /\ \A i \in 1..N : f[i] = step[i][f[i - 1]]
<1> DEFINE Solves(f, n) == f[0] = x0 /\ \A i \in 1..n : f[i] = step[i][f[i - 1]]
           Solved == {n \in Nat : n <= N => \E f \in [0..n -> X] : Solves(f, n)}
<1>1. 0 \in Solved
  <2>1. Solves([i \in 0..0 |-> x0], 0)
    OBVIOUS
  <2> QED BY <2>1
<1>2. ASSUME NEW n \in Nat, n \in Solved, n + 1 <= N PROVE n + 1 \in Solved
  <2>1. PICK f \in [0..n -> X] : Solves(f, n)
    BY <1>2
  <2> DEFINE g == [i \in 0..(n + 1) |-> IF i = n + 1 THEN step[n + 1][f[n]] ELSE f[i]]
  <2>2. g \in [0..(n + 1) -> X]
    BY <1>2, <2>1
  <2>3. Solves(g, n + 1)
    <3>1. \A i \in 1..n : g[i] = f[i] /\ g[i - 1] = f[i - 1]
      BY <2>1
    <3>2. g[0] = f[0] /\ g[n] = f[n] /\ g[n + 1] = step[n + 1][f[n]]
      OBVIOUS
    <3> HIDE DEF g
    <3> QED BY <2>1, <3>1, <3>2
  <2> HIDE DEF g, Solves
  <2> QED BY <2>2, <2>3
<1>3. ASSUME NEW n \in Nat, n \in Solved PROVE n + 1 \in Solved
  <2>1. CASE n + 1 <= N
    BY <1>2, <1>3, <2>1
  <2>2. CASE ~(n + 1 <= N)
    BY <2>2
  <2> QED BY <2>1, <2>2
<1>4. Nat \subseteq Solved
  <2> HIDE DEF Solved
  <2> QED BY <1>1, <1>3, AllNumbers
<1> QED BY <1>4

--------------------------------------------------------------------------------
(***************************************************************************)
(* Texts and their segments: what Split makes of a text.                   *)
(***************************************************************************)
\* One step of Split: a separator begins a segment, another piece goes to the last.
Extended(done, piece, S) ==
  IF piece \in S THEN Append(done, <<>>)
  ELSE Append(Front(done), Append(Last(done), piece))

\* At least one segment, each a text.
Segments(P) == Seq(Seq(P)) \ {<<>>}

\* f has the segments of every beginning of the text.
Splits(f, text, S) ==
  /\ f[0] = <<<<>>>>
  /\ \A i \in 1..Len(text) : f[i] = Extended(f[i - 1], text[i], S)
  /\ Split(text, S) = f[Len(text)]

\* What one step leaves of the segments there were.
NewSegment(done, next) ==
  /\ Len(next) = Len(done) + 1 /\ next[Len(next)] = <<>>
  /\ \A k \in 1..Len(done) : next[k] = done[k]

\* Or, when the piece goes to the last of them.
LongerSegment(done, next, piece) ==
  /\ Len(next) = Len(done) /\ next[Len(next)] = Append(done[Len(done)], piece)
  /\ \A k \in 1..(Len(done) - 1) : next[k] = done[k]

\* A step starts a segment at a separator and else makes the last one longer.
LEMMA ExtendedType ==
  ASSUME NEW P, NEW done \in Segments(P), NEW piece \in P, NEW S
  PROVE  /\ Extended(done, piece, S) \in Segments(P)
         /\ piece \in S => NewSegment(done, Extended(done, piece, S))
         /\ piece \notin S => LongerSegment(done, Extended(done, piece, S), piece)
<1>1. Len(done) \in Nat \ {0} /\ Last(done) \in Seq(P) /\ <<>> \in Seq(P)
  BY EmptySeq DEF Segments, Last
<1>2. Append(Last(done), piece) \in Seq(P)
  BY <1>1
<1>3. Front(done) \in Seq(Seq(P)) /\ Len(Front(done)) = Len(done) - 1
      /\ \A k \in 1..(Len(done) - 1) : Front(done)[k] = done[k]
  <2>1. done \in Seq(Seq(P)) /\ \A k \in 1..(Len(done) - 1) : done[k] \in Seq(P)
    BY <1>1, ElementOfSeq DEF Segments
  <2> DEFINE words == Seq(P)
             n == Len(done) - 1
  <2>0. n \in Nat
    BY <1>1
  <2> HIDE DEF words, n
  <2>3. \A k \in 1..n : done[k] \in words
    BY <2>1 DEF words, n
  <2>4. /\ SubSeq(done, 1, n) \in Seq(words)
        /\ Len(SubSeq(done, 1, n)) = IF 1 <= n THEN n - 1 + 1 ELSE 0
        /\ \A k \in 1..(n - 1 + 1) : SubSeq(done, 1, n)[k] = done[1 + k - 1]
    BY <2>0, <2>3, SubSeqProperties
  <2>5. Len(SubSeq(done, 1, n)) = n /\ \A k \in 1..n : SubSeq(done, 1, n)[k] = done[k]
    BY <2>0, <2>4
  <2> QED BY <2>4, <2>5 DEF Front, words, n
<1>4. CASE piece \in S
  <2> DEFINE all == Append(done, <<>>)
             words == Seq(P)
  <2>1. Extended(done, piece, S) = all
    BY <1>4 DEF Extended
  <2>2. done \in Seq(words) /\ <<>> \in words
    BY <1>1 DEF Segments
  <2>3. /\ all \in Seq(words) /\ all # <<>> /\ Len(all) = Len(done) + 1
        /\ \A k \in 1..Len(done) : all[k] = done[k]
        /\ all[Len(done) + 1] = <<>>
    <3> HIDE DEF words
    <3> QED BY <2>2, AppendProperties
  <2> HIDE DEF all
  <2> QED BY <1>4, <2>1, <2>3 DEF Segments, NewSegment
<1>5. CASE piece \notin S
  <2> DEFINE word == Append(Last(done), piece)
             all == Append(Front(done), word)
  <2>1. Extended(done, piece, S) = all
    BY <1>5 DEF Extended
  <2>2. /\ all \in Seq(Seq(P)) /\ all # <<>> /\ Len(all) = Len(Front(done)) + 1
        /\ \A k \in 1..Len(Front(done)) : all[k] = Front(done)[k]
        /\ all[Len(Front(done)) + 1] = word
    <3> HIDE DEF word
    <3>1. word \in Seq(P)
      BY <1>2 DEF word
    <3> QED BY <1>3, <3>1, AppendProperties
  <2>3. /\ Len(all) = Len(done) /\ all[Len(all)] = Append(done[Len(done)], piece)
        /\ \A k \in 1..(Len(done) - 1) : all[k] = done[k]
    <3> HIDE DEF all
    <3> QED BY <1>1, <1>3, <2>2 DEF Last
  <2> HIDE DEF all
  <2> QED BY <1>5, <2>1, <2>2, <2>3 DEF Segments, LongerSegment
<1> QED BY <1>4, <1>5

\* Split, a recursive function, has a value at every beginning of the text.
LEMMA SplitHasSteps ==
  ASSUME NEW P, NEW text \in Seq(P), NEW S
  PROVE  \E f \in [0..Len(text) -> Segments(P)] : Splits(f, text, S)
<1> DEFINE step == [i \in 1..Len(text) |-> [done \in Segments(P) |-> Extended(done, text[i], S)]]
           Solves(f) == f = [i \in 0..Len(text) |->
                               IF i = 0 THEN <<<<>>>>
                               ELSE LET done == f[i - 1]
                                    IN  IF text[i] \in S THEN Append(done, <<>>)
                                        ELSE Append(Front(done), Append(Last(done), text[i]))]
           upTo == CHOOSE f : Solves(f)
<1>1. step \in [1..Len(text) -> [Segments(P) -> Segments(P)]]
  <2> SUFFICES ASSUME NEW i \in 1..Len(text), NEW done \in Segments(P)
               PROVE  Extended(done, text[i], S) \in Segments(P)
    OBVIOUS
  <2>1. text[i] \in P
    OBVIOUS
  <2> QED BY <2>1, ExtendedType
<1>2. <<<<>>>> \in Segments(P)
  BY DEF Segments
<1>3. PICK f \in [0..Len(text) -> Segments(P)] :
        f[0] = <<<<>>>> /\ \A i \in 1..Len(text) : f[i] = step[i][f[i - 1]]
  <2>1. Len(text) \in Nat
    OBVIOUS
  <2> DEFINE N == Len(text)
             start == <<<<>>>>
             X == Segments(P)
  <2> HIDE DEF step, start, N, X
  <2>2. N \in Nat /\ start \in X /\ step \in [1..N -> [X -> X]]
    BY <1>1, <1>2, <2>1 DEF N, start, X
  <2>3. \E f \in [0..N -> X] : f[0] = start /\ \A i \in 1..N : f[i] = step[i][f[i - 1]]
    BY <2>2, RecursionIsDefined
  <2> QED BY <2>3 DEF N, start, X
<1>4. Solves(f)
  <2>1. ASSUME NEW i \in 1..Len(text) PROVE f[i] = Extended(f[i - 1], text[i], S)
    <3>1. f[i - 1] \in Segments(P) /\ f[i] = step[i][f[i - 1]]
      BY <1>3
    <3> QED BY <3>1
  <2>2. ASSUME NEW i \in 0..Len(text)
        PROVE  f[i] = IF i = 0 THEN <<<<>>>> ELSE Extended(f[i - 1], text[i], S)
    <3>1. CASE i = 0
      BY <1>3, <3>1
    <3>2. CASE i # 0
      <4>1. i \in 1..Len(text)
        BY <3>2
      <4> QED BY <2>1, <3>2, <4>1
    <3> QED BY <3>1, <3>2
  <2>3. f = [i \in 0..Len(text) |-> IF i = 0 THEN <<<<>>>> ELSE Extended(f[i - 1], text[i], S)]
    BY <1>3, <2>2
  <2> QED BY <2>3 DEF Extended
<1>5. Solves(upTo)
  <2>1. \E g : Solves(g)
    BY <1>4
  <2> HIDE DEF Solves
  <2> QED BY <2>1, Zenon
<1>6. Split(text, S) = upTo[Len(text)]
  BY DEF Split
<1>7. upTo = [i \in 0..Len(text) |-> IF i = 0 THEN <<<<>>>> ELSE Extended(upTo[i - 1], text[i], S)]
  BY <1>5 DEF Extended
<1> HIDE DEF upTo, Solves, step
<1>8. DOMAIN upTo = 0..Len(text) /\ upTo[0] = <<<<>>>>
      /\ \A i \in 1..Len(text) : upTo[i] = Extended(upTo[i - 1], text[i], S)
  BY <1>7
<1>9. \A i \in 0..Len(text) : upTo[i] \in Segments(P)
  <2> DEFINE A == {i \in Nat : i <= Len(text) => upTo[i] \in Segments(P)}
  <2>1. 0 \in A
    BY <1>2, <1>8
  <2>2. ASSUME NEW i \in Nat, i \in A PROVE i + 1 \in A
    <3> SUFFICES ASSUME i + 1 <= Len(text) PROVE upTo[i + 1] \in Segments(P)
      OBVIOUS
    <3>1. upTo[i] \in Segments(P) /\ text[i + 1] \in P /\ upTo[i + 1] = Extended(upTo[i], text[i + 1], S)
      BY <1>8, <2>2
    <3> QED BY <3>1, ExtendedType
  <2>3. Nat \subseteq A
    <3> HIDE DEF A
    <3> QED BY <2>1, <2>2, AllNumbers
  <2> QED BY <2>3
<1>10. upTo \in [0..Len(text) -> Segments(P)]
  BY <1>7, <1>8, <1>9
<1> QED BY <1>6, <1>8, <1>10 DEF Splits

\* The letters of word, then others.
Begins(word, other) ==
  Len(word) <= Len(other) /\ \A q \in 1..Len(word) : other[q] = word[q]

\* What later becomes of segments: the last of them can grow.
Grown(segments, later) ==
  /\ Len(segments) <= Len(later)
  /\ \A k \in 1..(Len(segments) - 1) : later[k] = segments[k]
  /\ Begins(segments[Len(segments)], later[Len(segments)])

\* Segments before the last never change, and the last keeps its beginning.
LEMMA SegmentsGrow ==
  ASSUME NEW P, NEW text \in Seq(P), NEW S, NEW f \in [0..Len(text) -> Segments(P)],
         Splits(f, text, S), NEW n \in 0..Len(text), NEW m \in n..Len(text)
  PROVE  Grown(f[n], f[m])
<1> DEFINE A == {m1 \in Nat : n <= m1 /\ m1 <= Len(text) => Grown(f[n], f[m1])}
<1>0. /\ Len(text) \in Nat
      /\ \A i \in 0..Len(text) : Len(f[i]) \in Nat \ {0} /\ \A k \in 1..Len(f[i]) : f[i][k] \in Seq(P)
  <2> SUFFICES ASSUME NEW i \in 0..Len(text)
               PROVE  Len(f[i]) \in Nat \ {0} /\ \A k \in 1..Len(f[i]) : f[i][k] \in Seq(P)
    OBVIOUS
  <2>1. f[i] \in Seq(Seq(P)) /\ f[i] # <<>>
    BY DEF Segments
  <2> QED BY <2>1, EmptySeq, ElementOfSeq
<1>1. Grown(f[n], f[n])
  <2>1. Len(f[n]) \in Nat \ {0} /\ f[n][Len(f[n])] \in Seq(P)
    BY <1>0
  <2>2. Len(f[n][Len(f[n])]) \in Nat
    BY <2>1
  <2> QED BY <2>1, <2>2 DEF Grown, Begins
<1>2. ASSUME NEW i \in Nat, i \in A PROVE i + 1 \in A
  <2> SUFFICES ASSUME n <= i + 1, i + 1 <= Len(text) PROVE Grown(f[n], f[i + 1])
    BY DEF A
  <2>1. CASE n = i + 1
    BY <1>1, <2>1
  <2>2. CASE n <= i
    <3>1. Grown(f[n], f[i])
      BY <1>0, <1>2, <2>2
    <3>2. f[i] \in Segments(P) /\ text[i + 1] \in P /\ f[i + 1] = Extended(f[i], text[i + 1], S)
      <4>1. i + 1 \in 1..Len(text) /\ i \in 0..Len(text) /\ i + 1 - 1 = i
        BY <1>0
      <4> QED BY <4>1 DEF Splits
    <3> DEFINE a == f[n]
               b == f[i]
               c == f[i + 1]
    <3>3. /\ Len(a) \in Nat \ {0} /\ Len(b) \in Nat \ {0} /\ Len(a[Len(a)]) \in Nat
          /\ b[Len(b)] \in Seq(P) /\ a[Len(a)] \in Seq(P) /\ b[Len(a)] \in Seq(P)
      <4>1. n \in 0..Len(text) /\ i \in 0..Len(text)
        BY <1>0
      <4>2. /\ Len(a) \in Nat \ {0} /\ Len(b) \in Nat \ {0} /\ b[Len(b)] \in Seq(P) /\ a[Len(a)] \in Seq(P)
        BY <1>0, <4>1
      <4>3. Len(a) \in 1..Len(b)
        BY <3>1, <4>2 DEF Grown
      <4> QED BY <1>0, <4>1, <4>2, <4>3
    <3>4. Grown(a, b)
      BY <3>1
    <3>5. CASE text[i + 1] \in S
      <4>1. Len(c) = Len(b) + 1 /\ \A k \in 1..Len(b) : c[k] = b[k]
        <5>1. NewSegment(b, Extended(b, text[i + 1], S))
          BY <3>2, <3>5, ExtendedType
        <5>2. NewSegment(b, c)
          BY <3>2, <5>1
        <5> QED BY <5>2 DEF NewSegment
      <4> HIDE DEF a, b, c
      <4> QED BY <3>3, <3>4, <4>1 DEF Grown, a, c
    <3>6. CASE text[i + 1] \notin S
      <4>1. Len(c) = Len(b) /\ (\A k \in 1..(Len(b) - 1) : c[k] = b[k])
            /\ c[Len(c)] = Append(b[Len(b)], text[i + 1])
        <5>1. LongerSegment(b, Extended(b, text[i + 1], S), text[i + 1])
          BY <3>2, <3>6, ExtendedType
        <5>2. LongerSegment(b, c, text[i + 1])
          BY <3>2, <5>1
        <5> HIDE DEF b, c
        <5> QED BY <5>2 DEF LongerSegment
      <4>2. Begins(b[Len(b)], c[Len(b)])
        <5> DEFINE w == b[Len(b)]
        <5>1. w \in Seq(P) /\ c[Len(b)] = Append(w, text[i + 1])
          BY <3>3, <4>1
        <5> HIDE DEF w
        <5>2. Len(w) \in Nat
          BY <5>1
        <5>3. Begins(w, Append(w, text[i + 1]))
          BY <3>2, <5>1, <5>2, AppendProperties DEF Begins
        <5> QED BY <5>1, <5>3 DEF w
      <4> HIDE DEF a, b, c
      <4>3. CASE Len(a) < Len(b)
        <5>1. c[Len(a)] = b[Len(a)] /\ Begins(a[Len(a)], c[Len(a)])
          <6>1. Len(a) \in 1..(Len(b) - 1)
            BY <3>3, <4>3
          <6> QED BY <3>4, <4>1, <6>1 DEF Grown
        <5>2. \A k \in 1..(Len(a) - 1) : c[k] = a[k]
          BY <3>3, <3>4, <4>1, <4>3 DEF Grown
        <5> QED BY <3>3, <4>1, <4>3, <5>1, <5>2 DEF Grown, a, c
      <4>4. CASE Len(a) = Len(b)
        <5>1. Begins(a[Len(a)], c[Len(a)])
          <6> DEFINE u == a[Len(a)]
                     v == b[Len(a)]
                     w == c[Len(a)]
          <6>1. Begins(u, v) /\ Begins(v, w) /\ Len(u) \in Nat /\ Len(v) \in Nat
            BY <3>3, <3>4, <4>2, <4>4 DEF Grown
          <6>2. Len(w) \in Nat
            <7>1. b[Len(b)] \in Seq(P) /\ text[i + 1] \in P
              BY <3>2, <3>3
            <7>2. w = Append(b[Len(b)], text[i + 1])
              BY <4>1, <4>4
            <7> QED BY <7>1, <7>2
          <6> HIDE DEF u, v, w
          <6>3. Begins(u, w)
            BY <6>1, <6>2 DEF Begins
          <6> QED BY <6>3 DEF u, w
        <5> QED BY <3>3, <3>4, <4>1, <4>4, <5>1 DEF Grown, a, c
      <4>5. Len(a) <= Len(b)
        BY <3>4 DEF Grown
      <4> QED BY <3>3, <4>3, <4>4, <4>5
    <3> QED BY <3>5, <3>6
  <2> QED BY <1>0, <2>1, <2>2
<1>3. Nat \subseteq A
  <2>1. 0 \in A
    BY <1>0, <1>1
  <2> HIDE DEF A
  <2> QED BY <1>2, <2>1, AllNumbers
<1> QED BY <1>0, <1>3

\* Of the segments up to n those before the last are final; so is the last
\* before a separator, and otherwise it goes on with the next piece.
LEMMA SplitGoesOn ==
  ASSUME NEW P, NEW text \in Seq(P), NEW S, NEW f \in [0..Len(text) -> Segments(P)],
         Splits(f, text, S), NEW n \in 0..(Len(text) - 1)
  PROVE  /\ Len(f[n]) \in Nat \ {0} /\ f[n][Len(f[n])] \in Seq(P)
         /\ Len(f[n]) <= Len(Split(text, S))
         /\ \A k \in 1..(Len(f[n]) - 1) : Split(text, S)[k] = f[n][k]
         /\ text[n + 1] \in S => /\ Len(f[n]) < Len(Split(text, S))
                                 /\ Split(text, S)[Len(f[n])] = f[n][Len(f[n])]
         /\ text[n + 1] \notin S =>
              Begins(Append(f[n][Len(f[n])], text[n + 1]), Split(text, S)[Len(f[n])])
<1>0. Len(text) \in Nat /\ n \in 0..Len(text) /\ n + 1 \in 0..Len(text) /\ n + 1 \in 1..Len(text)
      /\ Len(text) \in n..Len(text) /\ Len(text) \in (n + 1)..Len(text) /\ n + 1 - 1 = n
  OBVIOUS
<1>1. f[n] \in Segments(P) /\ text[n + 1] \in P /\ f[n + 1] = Extended(f[n], text[n + 1], S)
  BY <1>0 DEF Splits
<1>2. f[Len(text)] = Split(text, S)
  BY DEF Splits
<1>3. Grown(f[n], Split(text, S)) /\ Grown(f[n + 1], Split(text, S))
  BY <1>0, <1>2, SegmentsGrow
<1>4. Len(f[n]) \in Nat \ {0} /\ f[n][Len(f[n])] \in Seq(P)
  <2>1. f[n] \in Seq(Seq(P)) /\ f[n] # <<>>
    BY <1>1 DEF Segments
  <2> QED BY <2>1, EmptySeq, ElementOfSeq
<1>5. Split(text, S) \in Segments(P) /\ Len(Split(text, S)) \in Nat
  <2>1. Split(text, S) \in Segments(P)
    BY <1>0, <1>2
  <2> QED BY <2>1 DEF Segments
<1> DEFINE a == f[n]
           b == f[n + 1]
           c == Split(text, S)
<1>6. ASSUME text[n + 1] \in S
      PROVE  Len(f[n]) < Len(Split(text, S)) /\ Split(text, S)[Len(f[n])] = f[n][Len(f[n])]
  <2>1. Len(b) = Len(a) + 1 /\ \A k \in 1..Len(a) : b[k] = a[k]
    <3>1. NewSegment(a, Extended(a, text[n + 1], S))
      BY <1>1, <1>6, ExtendedType
    <3>2. NewSegment(a, b)
      BY <1>1, <3>1
    <3> QED BY <3>2 DEF NewSegment
  <2>2. Grown(b, c) /\ Len(a) \in Nat \ {0} /\ Len(c) \in Nat
    BY <1>3, <1>4, <1>5
  <2> HIDE DEF a, b, c
  <2> QED BY <2>1, <2>2 DEF Grown, a, c
<1>7. ASSUME text[n + 1] \notin S
      PROVE  Begins(Append(f[n][Len(f[n])], text[n + 1]), Split(text, S)[Len(f[n])])
  <2>1. Len(b) = Len(a) /\ b[Len(b)] = Append(a[Len(a)], text[n + 1])
    <3>1. LongerSegment(a, Extended(a, text[n + 1], S), text[n + 1])
      BY <1>1, <1>7, ExtendedType
    <3>2. LongerSegment(a, b, text[n + 1])
      BY <1>1, <3>1
    <3> HIDE DEF a, b
    <3> QED BY <3>2 DEF LongerSegment
  <2>2. Grown(b, c)
    BY <1>3
  <2> HIDE DEF a, b, c
  <2>3. Begins(Append(a[Len(a)], text[n + 1]), c[Len(a)])
    BY <2>1, <2>2 DEF Grown
  <2> QED BY <2>3 DEF a, c
<1> QED BY <1>3, <1>4, <1>6, <1>7 DEF Grown

\* A longest stretch of text without separators.
IsSegment(text, S, a, b) ==
  /\ a \in 1..(Len(text) + 1) /\ b \in (a - 1)..Len(text)
  /\ \A i \in a..b : text[i] \notin S
  /\ a = 1 \/ text[a - 1] \in S
  /\ b = Len(text) \/ text[b + 1] \in S

\* The last segment of the first n pieces starts at a.
IsLastSegment(text, S, segments, n, a) ==
  /\ a \in 1..(n + 1)
  /\ segments[Len(segments)] = SubSeq(text, a, n)
  /\ \A i \in a..n : text[i] \notin S
  /\ a = 1 \/ text[a - 1] \in S
  /\ Len(segments) > 1 => a > 1

\* The last segment has what follows the last separator.
LEMMA LastSegment ==
  ASSUME NEW P, NEW text \in Seq(P), NEW S, NEW f \in [0..Len(text) -> Segments(P)],
         Splits(f, text, S), NEW n \in 0..Len(text)
  PROVE  \E a \in 1..(n + 1) : IsLastSegment(text, S, f[n], n, a)
<1> DEFINE A == {m \in Nat : m <= Len(text) => \E a \in 1..(m + 1) : IsLastSegment(text, S, f[m], m, a)}
<1>0. Len(text) \in Nat
  OBVIOUS
<1>1. 0 \in A
  <2>1. f[0] = <<<<>>>> /\ SubSeq(text, 1, 0) = <<>>
    BY SubSeqEmpty DEF Splits
  <2>2. IsLastSegment(text, S, f[0], 0, 1)
    BY <2>1 DEF IsLastSegment
  <2> QED BY <2>2
<1>2. ASSUME NEW m \in Nat, m \in A PROVE m + 1 \in A
  <2> SUFFICES ASSUME m + 1 <= Len(text)
               PROVE  \E a \in 1..(m + 2) : IsLastSegment(text, S, f[m + 1], m + 1, a)
    BY DEF A
  <2>1. PICK a \in 1..(m + 1) : IsLastSegment(text, S, f[m], m, a)
    BY <1>0, <1>2
  <2>2. f[m] \in Segments(P) /\ text[m + 1] \in P /\ f[m + 1] = Extended(f[m], text[m + 1], S)
    <3>1. m + 1 \in 1..Len(text) /\ m \in 0..Len(text) /\ m + 1 - 1 = m
      BY <1>0
    <3> QED BY <3>1 DEF Splits
  <2> DEFINE s == f[m]
             t == f[m + 1]
  <2>3. Len(s) \in Nat \ {0}
    BY <2>2 DEF Segments
  <2>4. CASE text[m + 1] \in S
    <3>1. NewSegment(s, Extended(s, text[m + 1], S))
      BY <2>2, <2>4, ExtendedType
    <3>2. NewSegment(s, t)
      BY <2>2, <3>1
    <3>3. SubSeq(text, m + 2, m + 1) = <<>>
      BY SubSeqEmpty
    <3> HIDE DEF s, t
    <3>4. IsLastSegment(text, S, t, m + 1, m + 2)
      BY <2>3, <2>4, <3>2, <3>3 DEF NewSegment, IsLastSegment
    <3> QED BY <3>4 DEF t
  <2>5. CASE text[m + 1] \notin S
    <3>1. LongerSegment(s, Extended(s, text[m + 1], S), text[m + 1])
      BY <2>2, <2>5, ExtendedType
    <3>2. LongerSegment(s, t, text[m + 1])
      BY <2>2, <3>1
    <3>3. Append(SubSeq(text, a, m), text[m + 1]) = SubSeq(text, a, m + 1)
      <4>1. a \in 1..Len(text) /\ m + 1 \in a..Len(text)
        BY <1>0
      <4>2. SubSeq(text, a, m + 1) = SubSeq(text, a, m + 1 - 1) \o <<text[m + 1]>>
        BY <4>1, SubSeqRecursiveSecond
      <4>3. \A i \in a..m : text[i] \in P
        BY <1>0, <4>1
      <4>4. SubSeq(text, a, m) \in Seq(P)
        BY <4>1, <4>3, SubSeqProperties
      <4>5. m + 1 - 1 = m /\ text[m + 1] \in P
        BY <2>2
      <4> QED BY <4>2, <4>4, <4>5, AppendIsConcat
    <3> HIDE DEF s, t
    <3>4. IsLastSegment(text, S, s, m, a)
      BY <2>1 DEF s
    <3>5. IsLastSegment(text, S, t, m + 1, a)
      <4>1. Len(t) = Len(s) /\ t[Len(t)] = SubSeq(text, a, m + 1)
        BY <3>2, <3>3, <3>4 DEF LongerSegment, IsLastSegment
      <4>2. \A i \in a..(m + 1) : text[i] \notin S
        <5> SUFFICES ASSUME NEW i \in a..(m + 1) PROVE text[i] \notin S
          OBVIOUS
        <5>1. i \in a..m \/ i = m + 1
          OBVIOUS
        <5> QED BY <2>5, <3>4, <5>1 DEF IsLastSegment
      <4> QED BY <3>4, <4>1, <4>2 DEF IsLastSegment
    <3> QED BY <3>5 DEF t
  <2> QED BY <2>4, <2>5
<1>3. Nat \subseteq A
  <2> HIDE DEF A
  <2> QED BY <1>1, <1>2, AllNumbers
<1> QED BY <1>0, <1>3

\* The segments of a text are its longest stretches without separators.
LEMMA SegmentIs ==
  ASSUME NEW P, NEW text \in Seq(P), NEW S, NEW k \in 1..Len(Split(text, S))
  PROVE  \E a, b : /\ IsSegment(text, S, a, b) /\ Split(text, S)[k] = SubSeq(text, a, b)
                   /\ k > 1 => a > 1
<1>1. PICK f \in [0..Len(text) -> Segments(P)] : Splits(f, text, S)
  BY SplitHasSteps
<1> DEFINE Found(s, k1) == \E a, b : /\ IsSegment(text, S, a, b) /\ s[k1] = SubSeq(text, a, b)
                                     /\ k1 > 1 => a > 1
           A == {m \in Nat : m <= Len(text) => \A k1 \in 1..(Len(f[m]) - 1) : Found(f[m], k1)}
<1>0. Len(text) \in Nat
  OBVIOUS
<1>2. 0 \in A
  <2>1. Len(f[0]) = 1
    BY <1>1 DEF Splits
  <2> QED BY <2>1
<1>3. ASSUME NEW m \in Nat, m \in A PROVE m + 1 \in A
  <2> SUFFICES ASSUME m + 1 <= Len(text)
               PROVE  \A k1 \in 1..(Len(f[m + 1]) - 1) : Found(f[m + 1], k1)
    <3> HIDE DEF Found
    <3> QED OBVIOUS
  <2> SUFFICES ASSUME NEW k1 \in 1..(Len(f[m + 1]) - 1) PROVE Found(f[m + 1], k1)
    OBVIOUS
  <2>1. f[m] \in Segments(P) /\ text[m + 1] \in P /\ f[m + 1] = Extended(f[m], text[m + 1], S)
    <3>1. m + 1 \in 1..Len(text) /\ m \in 0..Len(text) /\ m + 1 - 1 = m
      BY <1>0
    <3> QED BY <1>1, <3>1 DEF Splits
  <2> DEFINE s == f[m]
             t == f[m + 1]
  <2>2. Len(s) \in Nat \ {0}
    BY <2>1 DEF Segments
  <2>3. \A k2 \in 1..(Len(s) - 1) : Found(s, k2)
    <3>1. m <= Len(text)
      BY <1>0
    <3> HIDE DEF Found
    <3> QED BY <1>3, <3>1
  <2>4. PICK a \in 1..(m + 1) : IsLastSegment(text, S, s, m, a)
    <3>1. m \in 0..Len(text)
      BY <1>0
    <3> QED BY <1>1, <3>1, LastSegment
  <2>5. CASE text[m + 1] \in S
    <3>1. NewSegment(s, Extended(s, text[m + 1], S))
      BY <2>1, <2>5, ExtendedType
    <3>2. NewSegment(s, t)
      BY <2>1, <3>1
    <3> HIDE DEF s, t
    <3>3. k1 \in 1..Len(s) /\ t[k1] = s[k1]
      BY <2>2, <3>2 DEF NewSegment, t
    <3>4. CASE k1 = Len(s)
      <4>1. IsSegment(text, S, a, m)
        BY <1>0, <2>4, <2>5 DEF IsLastSegment, IsSegment
      <4>2. t[k1] = SubSeq(text, a, m) /\ (k1 > 1 => a > 1)
        BY <2>4, <3>3, <3>4 DEF IsLastSegment
      <4> QED BY <4>1, <4>2 DEF t
    <3>5. CASE k1 # Len(s)
      <4>1. Found(s, k1)
        BY <2>2, <2>3, <3>3, <3>5
      <4> QED BY <3>3, <4>1 DEF t
    <3> QED BY <3>4, <3>5
  <2>6. CASE text[m + 1] \notin S
    <3>1. LongerSegment(s, Extended(s, text[m + 1], S), text[m + 1])
      BY <2>1, <2>6, ExtendedType
    <3>2. LongerSegment(s, t, text[m + 1])
      BY <2>1, <3>1
    <3> HIDE DEF s, t
    <3>3. k1 \in 1..(Len(s) - 1) /\ t[k1] = s[k1]
      BY <2>2, <3>2 DEF LongerSegment, t
    <3>4. Found(s, k1)
      BY <2>3, <3>3
    <3> QED BY <3>3, <3>4 DEF t
  <2> QED BY <2>5, <2>6
<1>4. Nat \subseteq A
  <2> HIDE DEF A
  <2> QED BY <1>2, <1>3, AllNumbers
<1>5. Split(text, S) = f[Len(text)]
  BY <1>1 DEF Splits
<1>8. Len(Split(text, S)) \in Nat
  <2>1. Split(text, S) \in Segments(P)
    BY <1>0, <1>5
  <2> QED BY <2>1 DEF Segments
<1>6. CASE k < Len(Split(text, S))
  <2>1. Len(text) \in A
    <3> HIDE DEF A
    <3> QED BY <1>0, <1>4
  <2>2. \A k1 \in 1..(Len(f[Len(text)]) - 1) : Found(f[Len(text)], k1)
    <3> HIDE DEF Found
    <3> QED BY <1>0, <2>1
  <2>3. k \in 1..(Len(f[Len(text)]) - 1)
    BY <1>5, <1>6, <1>8
  <2> QED BY <1>5, <2>2, <2>3
<1>7. CASE k = Len(Split(text, S))
  <2>1. PICK a \in 1..(Len(text) + 1) : IsLastSegment(text, S, f[Len(text)], Len(text), a)
    BY <1>0, <1>1, LastSegment
  <2>2. IsSegment(text, S, a, Len(text))
    BY <1>0, <2>1 DEF IsLastSegment, IsSegment
  <2>3. Split(text, S)[k] = SubSeq(text, a, Len(text)) /\ (k > 1 => a > 1)
    BY <1>5, <1>7, <2>1 DEF IsLastSegment
  <2> QED BY <2>2, <2>3
<1> QED BY <1>6, <1>7, <1>8

\* Every such stretch is a segment.
LEMMA SegmentAt ==
  ASSUME NEW P, NEW text \in Seq(P), NEW S, NEW a, NEW b, IsSegment(text, S, a, b)
  PROVE  \E k \in 1..Len(Split(text, S)) : Split(text, S)[k] = SubSeq(text, a, b)
<1>1. PICK f \in [0..Len(text) -> Segments(P)] : Splits(f, text, S)
  BY SplitHasSteps
<1>0. Len(text) \in Nat /\ a \in 1..(Len(text) + 1) /\ b \in 0..Len(text) /\ b >= a - 1
  BY DEF IsSegment
<1>2. PICK c \in 1..(b + 1) : IsLastSegment(text, S, f[b], b, c)
  BY <1>0, <1>1, LastSegment
<1>3. a = c
  <2>1. \A i \in c..b : text[i] \notin S
    BY <1>2 DEF IsLastSegment
  <2>2. \A i \in a..b : text[i] \notin S
    BY DEF IsSegment
  <2>3. c = 1 \/ text[c - 1] \in S
    BY <1>2 DEF IsLastSegment
  <2>4. a = 1 \/ text[a - 1] \in S
    BY DEF IsSegment
  <2>5. ~(c < a)
    BY <1>0, <2>1, <2>4
  <2>6. ~(a < c)
    BY <1>0, <2>2, <2>3
  <2> QED BY <1>0, <2>5, <2>6
<1>4. f[b][Len(f[b])] = SubSeq(text, a, b)
  BY <1>2, <1>3 DEF IsLastSegment
<1>5. CASE b = Len(text)
  <2>1. Split(text, S) = f[b] /\ Split(text, S) \in Segments(P)
    BY <1>0, <1>1, <1>5 DEF Splits
  <2>2. Len(Split(text, S)) \in Nat \ {0}
    BY <2>1 DEF Segments
  <2> QED BY <1>4, <2>1, <2>2
<1>6. CASE b # Len(text)
  <2>1. b \in 0..(Len(text) - 1) /\ text[b + 1] \in S
    BY <1>0, <1>6 DEF IsSegment
  <2>2. /\ Len(f[b]) \in Nat \ {0} /\ Len(f[b]) < Len(Split(text, S))
        /\ Split(text, S)[Len(f[b])] = f[b][Len(f[b])]
    BY <1>1, <2>1, SplitGoesOn
  <2>3. Len(Split(text, S)) \in Nat
    <3>1. Split(text, S) \in Segments(P)
      BY <1>0, <1>1 DEF Splits
    <3> QED BY <3>1 DEF Segments
  <2>4. Len(f[b]) \in 1..Len(Split(text, S))
    BY <2>2, <2>3
  <2> QED BY <1>4, <2>2, <2>4
<1> QED BY <1>5, <1>6

--------------------------------------------------------------------------------
(***************************************************************************)
(* Trimmed texts, and the rules for commands.                              *)
(***************************************************************************)
\* A set of numbers with a bound has a greatest.
LEMMA GreatestNumber ==
  ASSUME NEW N \in Nat, NEW S, S \subseteq 1..N, S # {}
  PROVE  \E n \in S : \A m \in S : n >= m
<1> DEFINE D == {N - n : n \in S}
<1>1. D \subseteq Nat /\ D # {}
  <2>1. \A n \in S : n \in 1..N /\ N - n \in Nat
    OBVIOUS
  <2>2. PICK n \in S : TRUE
    OBVIOUS
  <2>3. N - n \in D
    BY <2>2
  <2> QED BY <2>1, <2>3
<1>2. PICK d \in D : \A e \in D : d <= e
  <2> HIDE DEF D
  <2> QED BY <1>1, LeastNumber
<1>3. PICK n \in S : d = N - n
  OBVIOUS
<1>4. \A m \in S : N - m \in D
  OBVIOUS
<1>5. \A m \in S : m \in Nat
  OBVIOUS
<1>6. \A m \in S : N - n <= N - m
  BY <1>2, <1>3, <1>4
<1>7. \A m \in S : n >= m
  BY <1>5, <1>6
<1> QED BY <1>7

\* TrimEnd cuts behind the last piece that is not a mark.
LEMMA TrimEndIs ==
  ASSUME NEW P, NEW text \in Seq(P), NEW M
  PROVE  \E e \in 0..Len(text) : /\ TrimEnd(text, M) = SubSeq(text, 1, e)
                                 /\ \A i \in (e + 1)..Len(text) : text[i] \in M
                                 /\ e > 0 => text[e] \notin M
<1> DEFINE I == {i \in 1..Len(text) : text[i] \notin M}
           e == IF I # {} THEN CHOOSE x \in I : \A y \in I : x >= y ELSE 0
<1>0. Len(text) \in Nat
  OBVIOUS
<1>1. TrimEnd(text, M) = SubSeq(text, 1, e)
  BY DEF TrimEnd, SelectLastInSeq, Max
<1>2. CASE I = {}
  <2>1. e = 0
    BY <1>2
  <2>2. \A i \in 1..Len(text) : text[i] \in M
    BY <1>2
  <2> HIDE DEF e
  <2> QED BY <1>0, <1>1, <2>1, <2>2
<1>3. CASE I # {}
  <2>1. \E x \in I : \A y \in I : x >= y
    <3>1. I \subseteq 1..Len(text)
      OBVIOUS
    <3> HIDE DEF I
    <3> QED BY <1>0, <1>3, <3>1, GreatestNumber
  <2>2. e \in I /\ \A y \in I : e >= y
    <3> HIDE DEF I
    <3> QED BY <1>3, <2>1
  <2> HIDE DEF e
  <2>3. e \in 1..Len(text) /\ text[e] \notin M
    BY <2>2
  <2>4. ASSUME NEW i \in (e + 1)..Len(text) PROVE text[i] \in M
    <3>1. i \in 1..Len(text) /\ ~(e >= i)
      BY <1>0, <2>3
    <3> QED BY <2>2, <3>1
  <2> QED BY <1>0, <1>1, <2>3, <2>4
<1> QED BY <1>2, <1>3

\* The pieces from a to b are not surrounded by blanks; all others are blanks.
IsTrimmed(text, a, b) ==
  /\ a \in 1..Len(text) /\ b \in a..Len(text)
  /\ text[a] \notin Blanks /\ text[b] \notin Blanks
  /\ \A i \in 1..(a - 1) : text[i] \in Blanks
  /\ \A i \in (b + 1)..Len(text) : text[i] \in Blanks

\* Trim cuts the blanks at both ends and nothing else.
LEMMA TrimIs ==
  ASSUME NEW P, NEW text \in Seq(P)
  PROVE  \/ Trim(text) = <<>> /\ \A i \in 1..Len(text) : text[i] \in Blanks
         \/ \E a, b : IsTrimmed(text, a, b) /\ Trim(text) = SubSeq(text, a, b)
<1> DEFINE I == {i \in 1..Len(text) : text[i] \notin Blanks}
           a == IF I # {} THEN CHOOSE x \in I : \A y \in I : x <= y ELSE 0
           b == IF I # {} THEN CHOOSE x \in I : \A y \in I : x >= y ELSE 0
<1>0. Len(text) \in Nat
  OBVIOUS
<1>1. Trim(text) = IF a = 0 THEN <<>> ELSE SubSeq(text, a, b)
  BY DEF Trim, SelectLastInSeq, SelectInSeq, Max, Min
<1>2. CASE I = {}
  <2>1. a = 0 /\ \A i \in 1..Len(text) : text[i] \in Blanks
    BY <1>2
  <2> HIDE DEF a, b
  <2> QED BY <1>1, <2>1
<1>3. CASE I # {}
  <2>1. (\E x \in I : \A y \in I : x >= y) /\ (\E x \in I : \A y \in I : x <= y)
    <3>1. I \subseteq 1..Len(text) /\ I \subseteq Nat
      OBVIOUS
    <3> HIDE DEF I
    <3> QED BY <1>0, <1>3, <3>1, GreatestNumber, LeastNumber
  <2>2. a \in I /\ b \in I /\ \A y \in I : a <= y /\ b >= y
    <3> HIDE DEF I
    <3> QED BY <1>3, <2>1
  <2> HIDE DEF a, b
  <2>3. /\ a \in 1..Len(text) /\ text[a] \notin Blanks /\ b \in a..Len(text) /\ text[b] \notin Blanks
    BY <2>2
  <2>4. ASSUME NEW i \in (b + 1)..Len(text) PROVE text[i] \in Blanks
    <3>1. i \in 1..Len(text) /\ ~(b >= i)
      BY <1>0, <2>3
    <3> QED BY <2>2, <3>1
  <2>5. ASSUME NEW i \in 1..(a - 1) PROVE text[i] \in Blanks
    <3>1. i \in 1..Len(text) /\ ~(a <= i)
      BY <1>0, <2>3
    <3> QED BY <2>2, <3>1
  <2>6. IsTrimmed(text, a, b)
    BY <2>3, <2>4, <2>5 DEF IsTrimmed
  <2> QED BY <1>1, <2>3, <2>6
<1> QED BY <1>2, <1>3

\* What is trimmed has the pieces of the text.
LEMMA TrimType ==
  ASSUME NEW P, NEW text \in Seq(P)
  PROVE  Trim(text) \in Seq(P)
<1>1. ASSUME NEW a, NEW b, IsTrimmed(text, a, b) PROVE SubSeq(text, a, b) \in Seq(P)
  <2>1. a \in Int /\ b \in Int /\ \A i \in a..b : text[i] \in P
    BY <1>1 DEF IsTrimmed
  <2> QED BY <2>1, SubSeqProperties
<1> QED BY <1>1, TrimIs, EmptySeq

\* The pieces of a part of a text.
LEMMA SegmentType ==
  ASSUME NEW P, NEW text \in Seq(P), NEW a \in 1..(Len(text) + 1), NEW b \in (a - 1)..Len(text)
  PROVE  /\ SubSeq(text, a, b) \in Seq(P) /\ Len(SubSeq(text, a, b)) = b - a + 1
         /\ \A i \in 1..(b - a + 1) : SubSeq(text, a, b)[i] = text[a + i - 1]
<1>1. a \in Int /\ b \in Int /\ \A i \in a..b : text[i] \in P
  OBVIOUS
<1>2. Len(SubSeq(text, a, b)) = IF a <= b THEN b - a + 1 ELSE 0
  BY <1>1, SubSeqProperties
<1>3. Len(SubSeq(text, a, b)) = b - a + 1
  BY <1>1, <1>2
<1> QED BY <1>1, <1>3, SubSeqProperties

\* Without shell syntax in it a command is its only part.
LEMMA OnlyPart ==
  ASSUME NEW P, NEW text \in Seq(P), ~HasMeta(Trim(text)), NEW part \in ShellParts(text)
  PROVE  part = Trim(text)
<1>1. PICK k \in DOMAIN Split(text, Meta) : part = Trim(Split(text, Meta)[k]) /\ part # <<>>
  BY DEF ShellParts
<1>2. PICK a, b : IsSegment(text, Meta, a, b) /\ Split(text, Meta)[k] = SubSeq(text, a, b)
  <2>1. PICK f \in [0..Len(text) -> Segments(P)] : Splits(f, text, Meta)
    BY SplitHasSteps
  <2>2. Split(text, Meta) \in Segments(P)
    BY <2>1 DEF Splits
  <2>3. k \in 1..Len(Split(text, Meta))
    BY <1>1, <2>2 DEF Segments
  <2> QED BY <2>3, SegmentIs
<1> DEFINE seg == SubSeq(text, a, b)
<1>0. Len(text) \in Nat /\ a \in 1..(Len(text) + 1) /\ b \in (a - 1)..Len(text)
  BY <1>2 DEF IsSegment
<1>3. seg \in Seq(P) /\ Len(seg) = b - a + 1 /\ \A i \in 1..(b - a + 1) : seg[i] = text[a + i - 1]
  BY <1>0, SegmentType
<1> HIDE DEF seg
<1>4. PICK c, d : IsTrimmed(seg, c, d) /\ Trim(seg) = SubSeq(seg, c, d)
  BY <1>1, <1>2, <1>3, TrimIs DEF seg
<1>5. c \in 1..(b - a + 1) /\ d \in c..(b - a + 1)
  BY <1>3, <1>4 DEF IsTrimmed
<1>6. text[a + c - 1] \notin Blanks /\ text[a + d - 1] \notin Blanks
  BY <1>3, <1>4, <1>5 DEF IsTrimmed
<1>7. a + c - 1 \in 1..Len(text) /\ a + d - 1 \in 1..Len(text)
  BY <1>0, <1>5
<1>8. PICK u, v : IsTrimmed(text, u, v) /\ Trim(text) = SubSeq(text, u, v)
  BY <1>6, <1>7, TrimIs
<1>9. u \in 1..Len(text) /\ v \in u..Len(text) /\ text[u] \notin Blanks /\ text[v] \notin Blanks
  BY <1>8 DEF IsTrimmed
<1>10. \A i \in u..v : text[i] \notin Meta
  <2> SUFFICES ASSUME NEW i \in u..v PROVE text[i] \notin Meta
    OBVIOUS
  <2>1. Trim(text) \in Seq(P) /\ Len(Trim(text)) = v - u + 1
        /\ \A j \in 1..(v - u + 1) : Trim(text)[j] = text[u + j - 1]
    BY <1>0, <1>8, <1>9, SegmentType
  <2>2. i - u + 1 \in 1..(v - u + 1) /\ u + (i - u + 1) - 1 = i
    BY <1>9
  <2>3. i - u + 1 \in DOMAIN Trim(text)
    BY <2>1, <2>2
  <2>4. Trim(text)[i - u + 1] = text[i]
    BY <2>1, <2>2
  <2> QED BY <2>3, <2>4 DEF HasMeta
<1>11. u <= a + c - 1 /\ a + d - 1 <= v
  <2>1. (\A i \in 1..(u - 1) : text[i] \in Blanks) /\ (\A i \in (v + 1)..Len(text) : text[i] \in Blanks)
    BY <1>8 DEF IsTrimmed
  <2>2. ~(a + c - 1 < u)
    BY <1>6, <1>7, <1>9, <2>1
  <2>3. ~(v < a + d - 1)
    BY <1>6, <1>7, <1>9, <2>1
  <2> QED BY <1>0, <1>5, <1>9, <2>2, <2>3
<1>12. a <= u /\ v <= b
  <2>1. (a = 1 \/ text[a - 1] \in Meta) /\ (b = Len(text) \/ text[b + 1] \in Meta)
    BY <1>2 DEF IsSegment
  <2>2. ~(u < a)
    BY <1>0, <1>5, <1>9, <1>10, <1>11, <2>1
  <2>3. ~(b < v)
    BY <1>0, <1>5, <1>9, <1>10, <1>11, <2>1
  <2> QED BY <1>0, <1>9, <2>2, <2>3
<1>13. ~(u < a + c - 1) /\ ~(a + d - 1 < v)
  <2>1. (\A i \in 1..(c - 1) : seg[i] \in Blanks) /\ (\A i \in (d + 1)..Len(seg) : seg[i] \in Blanks)
    BY <1>4 DEF IsTrimmed
  <2>2. ASSUME u < a + c - 1 PROVE FALSE
    <3>1. u - a + 1 \in 1..(c - 1) /\ u - a + 1 \in 1..(b - a + 1) /\ a + (u - a + 1) - 1 = u
      BY <1>0, <1>5, <1>9, <1>12, <2>2
    <3> QED BY <1>3, <1>9, <2>1, <3>1
  <2>3. ASSUME a + d - 1 < v PROVE FALSE
    <3>1. v - a + 1 \in (d + 1)..(b - a + 1) /\ v - a + 1 \in 1..(b - a + 1) /\ a + (v - a + 1) - 1 = v
      BY <1>0, <1>5, <1>9, <1>12, <2>3
    <3> QED BY <1>3, <1>9, <2>1, <3>1
  <2> QED BY <2>2, <2>3
<1>14. a + c - 1 = u /\ a + d - 1 = v
  BY <1>0, <1>5, <1>9, <1>11, <1>13
<1>15. SubSeq(seg, c, d) = SubSeq(text, a + c - 1, a + d - 1)
  <2>1. a \in 1..Len(text) /\ b \in 1..Len(text) /\ d \in 1..(b - a + 1)
    BY <1>0, <1>5
  <2> QED BY <1>5, <2>1, SubSeqOfSubSeq DEF seg
<1> QED BY <1>1, <1>2, <1>4, <1>8, <1>14, <1>15 DEF seg

\* A rule that grants a command means the programs that it starts, or takes an
\* assignment for its program: command_match() reads no shell syntax unless the
\* rule spells it out.
THEOREM GrantedCommandIsMeant ==
  ASSUME NEW P, NEW text \in Seq(P), NEW granted, NEW rule \in granted, GrantsCommand(rule, text)
  PROVE  MeansCommands(granted, text) \/ MistakesAssignment(granted, text)
<1> DEFINE command == Trim(text)
           entry == Trim(rule)
           words == WordsOf(command)
<1>0. entry \in Names(granted)
  BY DEF Names
<1>1. CASE entry = command
  BY <1>0, <1>1 DEF MeansCommands
<1>2. CASE ~HasMeta(command) /\ MatchesSimply(entry, command)
  <2>1. \A part \in ShellParts(text) : part = command
    BY <1>2, OnlyPart
  <2>2. CASE Last(entry) = "*"
    BY <1>0, <1>2, <2>1, <2>2 DEF MeansCommands, MatchesSimply
  <2>3. CASE Last(entry) # "*"
    <3>1. BaseName(words[1]) = entry
      BY <1>2, <2>3 DEF MatchesSimply
    <3>2. CASE words = <<>>
      <4>1. StartedBy(command) = {}
        BY <3>2 DEF StartedBy
      <4> QED BY <2>1, <4>1 DEF MeansCommands
    <3>3. CASE words # <<>> /\ IsAssignment(words[1])
      BY <1>0, <1>2, <3>1, <3>3 DEF MistakesAssignment
    <3>4. CASE ~IsAssignment(words[1])
      <4>1. ASSUME NEW k \in 1..Len(words), \A m \in 1..(k - 1) : IsAssignment(words[m])
            PROVE  k = 1
        <5> HIDE DEF words
        <5>1. k \in Int /\ k >= 1 /\ 1 \notin 1..(k - 1)
          BY <3>4, <4>1
        <5> QED BY <5>1
      <4>2. StartedBy(command) \subseteq Names(granted)
        BY <1>0, <3>1, <4>1 DEF StartedBy
      <4> QED BY <2>1, <4>2 DEF MeansCommands
    <3> QED BY <3>2, <3>3, <3>4
  <2> QED BY <2>2, <2>3
<1> QED BY <1>1, <1>2 DEF GrantsCommand

\* Segments are texts, and there is at least one.
LEMMA SplitType ==
  ASSUME NEW P, NEW text \in Seq(P), NEW S
  PROVE  /\ Split(text, S) \in Seq(Seq(P)) /\ Len(Split(text, S)) \in Nat \ {0}
         /\ DOMAIN Split(text, S) = 1..Len(Split(text, S))
<1>1. PICK f \in [0..Len(text) -> Segments(P)] : Splits(f, text, S)
  BY SplitHasSteps
<1>2. Split(text, S) \in Segments(P)
  BY <1>1 DEF Splits
<1> QED BY <1>2 DEF Segments

\* The places where a text has a piece between two separators.
IsAlone(text, S, piece, i) ==
  /\ i \in 1..Len(text) /\ text[i] = piece
  /\ i = 1 \/ text[i - 1] \in S
  /\ i = Len(text) \/ text[i + 1] \in S

\* A piece is a segment where it stands between separators, and only there.
LEMMA AloneIs ==
  ASSUME NEW P, NEW text \in Seq(P), NEW S, NEW piece, piece \notin S
  PROVE  (\E k \in 1..Len(Split(text, S)) : Split(text, S)[k] = <<piece>>)
           <=> \E i : IsAlone(text, S, piece, i)
<1>0. Len(text) \in Nat
  OBVIOUS
<1>1. ASSUME NEW k \in 1..Len(Split(text, S)), Split(text, S)[k] = <<piece>>
      PROVE  \E i : IsAlone(text, S, piece, i)
  <2>1. PICK a, b : IsSegment(text, S, a, b) /\ Split(text, S)[k] = SubSeq(text, a, b)
    BY SegmentIs
  <2>2. a \in 1..(Len(text) + 1) /\ b \in (a - 1)..Len(text)
    BY <2>1 DEF IsSegment
  <2> DEFINE seg == SubSeq(text, a, b)
  <2>3. Len(seg) = b - a + 1 /\ \A i \in 1..(b - a + 1) : seg[i] = text[a + i - 1]
    BY <2>2, SegmentType
  <2> HIDE DEF seg
  <2>4. seg = <<piece>>
    BY <1>1, <2>1 DEF seg
  <2>5. b - a + 1 = 1 /\ 1 \in 1..(b - a + 1) /\ seg[1] = piece /\ a + 1 - 1 = a
    BY <1>0, <2>2, <2>3, <2>4
  <2>6. b = a /\ text[a] = piece
    BY <1>0, <2>2, <2>3, <2>5
  <2>7. IsAlone(text, S, piece, a)
    BY <2>1, <2>2, <2>6 DEF IsSegment, IsAlone
  <2> QED BY <2>7
<1>2. ASSUME NEW i, IsAlone(text, S, piece, i)
      PROVE  \E k \in 1..Len(Split(text, S)) : Split(text, S)[k] = <<piece>>
  <2>1. IsSegment(text, S, i, i)
    BY <1>0, <1>2 DEF IsAlone, IsSegment
  <2>2. SubSeq(text, i, i) = <<piece>>
    <3>1. i \in 1..(Len(text) + 1) /\ i \in (i - 1)..Len(text) /\ text[i] = piece
      BY <1>0, <1>2 DEF IsAlone
    <3>2. SubSeq(text, i, i) \in Seq(P) /\ Len(SubSeq(text, i, i)) = i - i + 1
          /\ \A j \in 1..(i - i + 1) : SubSeq(text, i, i)[j] = text[i + j - 1]
      BY <3>1, SegmentType
    <3> DEFINE seg == SubSeq(text, i, i)
    <3>3. i - i + 1 = 1 /\ i + 1 - 1 = i
      BY <1>2 DEF IsAlone
    <3> HIDE DEF seg
    <3>4. seg \in Seq(P) /\ Len(seg) = 1 /\ seg[1] = piece
      BY <3>1, <3>2, <3>3 DEF seg
    <3>5. seg = <<piece>>
      BY <3>4
    <3> QED BY <3>5 DEF seg
  <2>3. PICK k \in 1..Len(Split(text, S)) : Split(text, S)[k] = SubSeq(text, i, i)
    BY <2>1, SegmentAt
  <2> QED BY <2>2, <2>3
<1> QED BY <1>1, <1>2

--------------------------------------------------------------------------------
(***************************************************************************)
(* Where a path leads, and the rules for paths.                            *)
(***************************************************************************)
\* All segments but the last.
LEMMA FrontIs ==
  ASSUME NEW W, NEW s \in Seq(W), s # <<>>
  PROVE  Front(s) \in Seq(W) /\ Len(Front(s)) = Len(s) - 1
         /\ \A k \in 1..(Len(s) - 1) : Front(s)[k] = s[k]
<1>1. Len(s) \in Nat \ {0}
  OBVIOUS
<1>2. 1 \in 1..(Len(s) + 1) /\ Len(s) - 1 \in (1 - 1)..Len(s)
  BY <1>1
<1>3. /\ SubSeq(s, 1, Len(s) - 1) \in Seq(W) /\ Len(SubSeq(s, 1, Len(s) - 1)) = Len(s) - 1 - 1 + 1
      /\ \A i \in 1..(Len(s) - 1 - 1 + 1) : SubSeq(s, 1, Len(s) - 1)[i] = s[1 + i - 1]
  BY <1>2, SegmentType
<1> DEFINE t == SubSeq(s, 1, Len(s) - 1)
<1> HIDE DEF t
<1>4. t \in Seq(W) /\ Len(t) = Len(s) - 1 /\ \A i \in 1..(Len(s) - 1) : t[i] = s[i]
  BY <1>1, <1>3 DEF t
<1> QED BY <1>4 DEF Front, t

\* One step of Resolved.
Descended(above, segment) ==
  CASE segment \in {<<>>, <<".">>} -> above
    [] segment = <<"..">> /\ above # <<>> -> Front(above)
    [] OTHER -> Append(above, segment)

\* g has what is left of every beginning of the segments.
Resolves(g, segments) ==
  /\ g[0] = <<>>
  /\ \A i \in 1..Len(segments) : g[i] = Descended(g[i - 1], segments[i])
  /\ Resolved(segments) = g[Len(segments)]

\* A step keeps the directories that it does not leave.
LEMMA DescendedType ==
  ASSUME NEW W, NEW above \in Seq(W), NEW segment \in W
  PROVE  Descended(above, segment) \in Seq(W)
<1>1. CASE segment \in {<<>>, <<".">>}
  <2>1. segment # <<"..">>
    BY <1>1
  <2>2. Descended(above, segment) = above
    BY <1>1, <2>1 DEF Descended
  <2> QED BY <2>2
<1>2. CASE segment = <<"..">> /\ above # <<>>
  <2>1. Descended(above, segment) = Front(above)
    BY <1>2 DEF Descended
  <2> QED BY <1>2, <2>1, FrontIs
<1>3. CASE segment \notin {<<>>, <<".">>} /\ ~(segment = <<"..">> /\ above # <<>>)
  <2>1. Descended(above, segment) = Append(above, segment)
    BY <1>3 DEF Descended
  <2> QED BY <2>1, AppendProperties
<1> QED BY <1>1, <1>2, <1>3

\* Resolved, a recursive function, has a value at every beginning.
LEMMA ResolvedHasSteps ==
  ASSUME NEW W, NEW segments \in Seq(W)
  PROVE  \E g \in [0..Len(segments) -> Seq(W)] : Resolves(g, segments)
<1> DEFINE N == Len(segments)
           X == Seq(W)
           step == [i \in 1..N |-> [above \in X |-> Descended(above, segments[i])]]
           Solves(f) == f = [i \in 0..Len(segments) |->
                               IF i = 0 THEN <<>>
                               ELSE LET above == f[i - 1]
                                    IN CASE segments[i] \in {<<>>, <<".">>} -> above
                                         [] segments[i] = <<"..">> /\ above # <<>> -> Front(above)
                                         [] OTHER -> Append(above, segments[i])]
           upTo == CHOOSE f : Solves(f)
<1>1. step \in [1..N -> [X -> X]]
  <2> SUFFICES ASSUME NEW i \in 1..N, NEW above \in X
               PROVE  Descended(above, segments[i]) \in X
    OBVIOUS
  <2>1. segments[i] \in W
    OBVIOUS
  <2> QED BY <2>1, DescendedType
<1>2. <<>> \in X /\ N \in Nat
  OBVIOUS
<1>3. PICK f \in [0..N -> X] : f[0] = <<>> /\ \A i \in 1..N : f[i] = step[i][f[i - 1]]
  <2> DEFINE start == <<>>
  <2>1. start \in X /\ N \in Nat /\ step \in [1..N -> [X -> X]]
    BY <1>1, <1>2
  <2> HIDE DEF step, start, N, X
  <2>2. \E f \in [0..N -> X] : f[0] = start /\ \A i \in 1..N : f[i] = step[i][f[i - 1]]
    BY <2>1, RecursionIsDefined
  <2> QED BY <2>2 DEF start
<1>4. Solves(f)
  <2>1. ASSUME NEW i \in 1..N PROVE f[i] = Descended(f[i - 1], segments[i])
    <3>1. f[i - 1] \in X /\ f[i] = step[i][f[i - 1]]
      <4> HIDE DEF step, X
      <4> QED BY <1>2, <1>3
    <3> QED BY <3>1
  <2>2. ASSUME NEW i \in 0..N PROVE f[i] = IF i = 0 THEN <<>> ELSE Descended(f[i - 1], segments[i])
    <3>1. CASE i = 0
      BY <1>3, <3>1
    <3>2. CASE i # 0
      <4>1. i \in 1..N
        BY <3>2
      <4> QED BY <2>1, <3>2, <4>1
    <3> QED BY <3>1, <3>2
  <2>3. f = [i \in 0..N |-> IF i = 0 THEN <<>> ELSE Descended(f[i - 1], segments[i])]
    BY <1>3, <2>2
  <2> QED BY <2>3 DEF Descended
<1>5. Solves(upTo)
  <2>1. \E g \in [0..N -> X] : Solves(g)
    BY <1>4
  <2> HIDE DEF Solves
  <2> QED BY <2>1, Zenon
<1>6. Resolved(segments) = upTo[N]
  BY DEF Resolved
<1>7. upTo = [i \in 0..N |-> IF i = 0 THEN <<>> ELSE Descended(upTo[i - 1], segments[i])]
  BY <1>5 DEF Descended
<1> HIDE DEF upTo, Solves, step
<1>8. DOMAIN upTo = 0..N /\ upTo[0] = <<>>
      /\ \A i \in 1..N : upTo[i] = Descended(upTo[i - 1], segments[i])
  BY <1>7
<1>9. \A i \in 0..N : upTo[i] \in X
  <2> DEFINE A == {i \in Nat : i <= N => upTo[i] \in X}
  <2>1. 0 \in A
    BY <1>2, <1>8
  <2>2. ASSUME NEW i \in Nat, i \in A PROVE i + 1 \in A
    <3> SUFFICES ASSUME i + 1 <= N PROVE upTo[i + 1] \in X
      OBVIOUS
    <3>1. upTo[i] \in X /\ segments[i + 1] \in W /\ upTo[i + 1] = Descended(upTo[i], segments[i + 1])
      BY <1>8, <2>2
    <3> QED BY <3>1, DescendedType
  <2>3. Nat \subseteq A
    <3> HIDE DEF A
    <3> QED BY <2>1, <2>2, AllNumbers
  <2> QED BY <2>3
<1>10. upTo \in [0..N -> X]
  BY <1>7, <1>8, <1>9
<1> QED BY <1>6, <1>8, <1>10 DEF Resolves

\* Segments that are equal up to k, then empty on one side and without a way up
\* on the other, lead into each other.
LEMMA ResolvedWithin ==
  ASSUME NEW W, NEW s \in Seq(W), NEW t \in Seq(W), NEW k \in Nat, k <= Len(s), k <= Len(t),
         \A i \in 1..k : s[i] = t[i],
         \A i \in (k + 1)..Len(s) : s[i] = <<>>,
         \A i \in (k + 1)..Len(t) : t[i] # <<"..">>
  PROVE  IsPrefix(Resolved(s), Resolved(t))
<1>1. PICK f \in [0..Len(s) -> Seq(W)] : Resolves(f, s)
  BY ResolvedHasSteps
<1>2. PICK g \in [0..Len(t) -> Seq(W)] : Resolves(g, t)
  BY ResolvedHasSteps
<1>0. Len(s) \in Nat /\ Len(t) \in Nat
  OBVIOUS
<1>3. f[k] = g[k]
  <2> DEFINE A == {i \in Nat : i <= k => f[i] = g[i]}
  <2>1. 0 \in A
    BY <1>1, <1>2 DEF Resolves
  <2>2. ASSUME NEW i \in Nat, i \in A PROVE i + 1 \in A
    <3> SUFFICES ASSUME i + 1 <= k PROVE f[i + 1] = g[i + 1]
      OBVIOUS
    <3>1. f[i] = g[i] /\ s[i + 1] = t[i + 1]
      BY <2>2
    <3>2. i + 1 \in 1..Len(s) /\ i + 1 \in 1..Len(t) /\ i + 1 - 1 = i
      BY <1>0
    <3>3. f[i + 1] = Descended(f[i], s[i + 1]) /\ g[i + 1] = Descended(g[i], t[i + 1])
      BY <1>1, <1>2, <3>2 DEF Resolves
    <3> QED BY <3>1, <3>3
  <2>3. Nat \subseteq A
    <3> HIDE DEF A
    <3> QED BY <2>1, <2>2, AllNumbers
  <2> QED BY <2>3
<1>4. f[Len(s)] = f[k]
  <2> DEFINE A == {i \in Nat : k <= i /\ i <= Len(s) => f[i] = f[k]}
  <2>1. 0 \in A
    OBVIOUS
  <2>2. ASSUME NEW i \in Nat, i \in A PROVE i + 1 \in A
    <3> SUFFICES ASSUME k <= i, i + 1 <= Len(s) PROVE f[i + 1] = f[k]
      OBVIOUS
    <3>1. f[i] = f[k] /\ s[i + 1] = <<>>
      BY <1>0, <2>2
    <3>2. f[i + 1] = Descended(f[i], s[i + 1])
      <4>1. i + 1 \in 1..Len(s) /\ i + 1 - 1 = i
        BY <1>0
      <4> QED BY <1>1, <4>1 DEF Resolves
    <3> QED BY <3>1, <3>2 DEF Descended
  <2>3. Nat \subseteq A
    <3> HIDE DEF A
    <3> QED BY <2>1, <2>2, AllNumbers
  <2>4. Len(s) \in A
    <3> HIDE DEF A
    <3> QED BY <1>0, <2>3
  <2> QED BY <1>0, <2>4
<1>5. Begins(g[k], g[Len(t)])
  <2> DEFINE A == {i \in Nat : k <= i /\ i <= Len(t) => Begins(g[k], g[i])}
  <2>0. Begins(g[k], g[k])
    <3>1. g[k] \in Seq(W)
      BY <1>0, <1>2
    <3>2. Len(g[k]) \in Nat
      BY <3>1
    <3> QED BY <3>2 DEF Begins
  <2>1. 0 \in A
    BY <2>0
  <2>2. ASSUME NEW i \in Nat, i \in A PROVE i + 1 \in A
    <3> SUFFICES ASSUME k <= i, i + 1 <= Len(t) PROVE Begins(g[k], g[i + 1])
      BY <2>0
    <3>1. Begins(g[k], g[i]) /\ t[i + 1] # <<"..">>
      BY <1>0, <2>2
    <3>2. i + 1 \in 1..Len(t) /\ i + 1 - 1 = i /\ i \in 0..Len(t) /\ k \in 0..Len(t)
      BY <1>0
    <3>3. g[i + 1] = Descended(g[i], t[i + 1]) /\ g[i] \in Seq(W) /\ g[k] \in Seq(W) /\ t[i + 1] \in W
      <4> DEFINE q == i + 1
      <4>1. g[q] = Descended(g[q - 1], t[q])
        <5>1. q \in 1..Len(t)
          BY <3>2
        <5> HIDE DEF q
        <5> QED BY <1>2, <5>1 DEF Resolves
      <4>2. t[i + 1] \in W
        BY <3>2, ElementOfSeq
      <4>3. g[i + 1] = Descended(g[i], t[i + 1])
        BY <3>2, <4>1
      <4> QED BY <3>2, <4>2, <4>3
    <3>4. CASE t[i + 1] \in {<<>>, <<".">>}
      BY <3>1, <3>3, <3>4 DEF Descended
    <3>5. CASE t[i + 1] \notin {<<>>, <<".">>}
      <4>1. g[i + 1] = Append(g[i], t[i + 1])
        BY <3>1, <3>3, <3>5 DEF Descended
      <4> DEFINE a == g[k]
                 b == g[i]
                 c == g[i + 1]
      <4>2. Len(c) = Len(b) + 1 /\ \A q \in 1..Len(b) : c[q] = b[q]
        BY <3>3, <4>1, AppendProperties
      <4>3. Len(a) \in Nat /\ Len(b) \in Nat /\ Begins(a, b)
        BY <3>1, <3>3
      <4>4. Len(c) \in Nat
        BY <4>2, <4>3
      <4> HIDE DEF a, b, c
      <4>5. \A q \in 1..Len(a) : q \in 1..Len(b)
        BY <4>3 DEF Begins
      <4>6. Begins(a, c)
        BY <4>2, <4>3, <4>4, <4>5 DEF Begins
      <4> QED BY <4>6 DEF a, c
    <3> QED BY <3>4, <3>5
  <2>3. Nat \subseteq A
    <3> HIDE DEF A
    <3> QED BY <2>1, <2>2, AllNumbers
  <2>4. Len(t) \in A
    <3> HIDE DEF A
    <3> QED BY <1>0, <2>3
  <2> QED BY <2>4
<1>6. Resolved(s) = g[k] /\ Resolved(t) = g[Len(t)]
  BY <1>1, <1>2, <1>3, <1>4 DEF Resolves
<1>7. g[k] \in Seq(W) /\ g[Len(t)] \in Seq(W)
  <2>1. k \in 0..Len(t) /\ Len(t) \in 0..Len(t)
    BY <1>0
  <2> QED BY <1>2, <2>1
<1> DEFINE a == g[k]
           b == g[Len(t)]
<1> HIDE DEF a, b
<1>8. a \in Seq(W) /\ b \in Seq(W) /\ Begins(a, b)
  BY <1>5, <1>7 DEF a, b
<1>9. SubSeq(a, 1, Len(a)) = SubSeq(b, 1, Len(a))
  <2>1. 1 \in 1..(Len(a) + 1) /\ Len(a) \in (1 - 1)..Len(a) /\ 1 \in 1..(Len(b) + 1) /\ Len(a) \in (1 - 1)..Len(b)
    BY <1>8 DEF Begins
  <2>2. /\ SubSeq(a, 1, Len(a)) \in Seq(W) /\ Len(SubSeq(a, 1, Len(a))) = Len(a) - 1 + 1
        /\ \A i \in 1..(Len(a) - 1 + 1) : SubSeq(a, 1, Len(a))[i] = a[1 + i - 1]
    BY <1>8, <2>1, SegmentType
  <2>3. /\ SubSeq(b, 1, Len(a)) \in Seq(W) /\ Len(SubSeq(b, 1, Len(a))) = Len(a) - 1 + 1
        /\ \A i \in 1..(Len(a) - 1 + 1) : SubSeq(b, 1, Len(a))[i] = b[1 + i - 1]
    BY <1>8, <2>1, SegmentType
  <2> DEFINE u == SubSeq(a, 1, Len(a))
             v == SubSeq(b, 1, Len(a))
  <2> HIDE DEF u, v
  <2>4. u \in Seq(W) /\ v \in Seq(W) /\ Len(u) = Len(v) /\ \A i \in 1..Len(u) : u[i] = v[i]
    BY <1>8, <2>2, <2>3 DEF u, v, Begins
  <2>5. u = v
    BY <2>4, SeqEqual
  <2> QED BY <2>5 DEF u, v
<1> QED BY <1>6, <1>8, <1>9 DEF IsPrefix, Begins, a, b

\* A beginning of text, with a separator after it.
IsBeginning(start, text, S) ==
  /\ Len(start) <= Len(text)
  /\ \A i \in 1..Len(start) : start[i] = text[i]
  /\ Len(start) = Len(text) \/ text[Len(start) + 1] \in S

\* What is before a separator has the same segments with what follows, and
\* separators only add empty segments.
LEMMA SplitOfBeginning ==
  ASSUME NEW P, NEW text \in Seq(P), NEW S, NEW start \in Seq(P),
         IsBeginning(start, text, S)
  PROVE  /\ Len(Split(start, S)) <= Len(Split(text, S))
         /\ \A k \in 1..Len(Split(start, S)) : Split(text, S)[k] = Split(start, S)[k]
         /\ (\A i \in (Len(start) + 1)..Len(text) : text[i] \in S) =>
              \A k \in (Len(Split(start, S)) + 1)..Len(Split(text, S)) : Split(text, S)[k] = <<>>
<1>1. PICK f \in [0..Len(text) -> Segments(P)] : Splits(f, text, S)
  BY SplitHasSteps
<1>2. PICK h \in [0..Len(start) -> Segments(P)] : Splits(h, start, S)
  BY SplitHasSteps
<1> DEFINE n == Len(start)
<1>0. n \in Nat /\ Len(text) \in Nat /\ n \in 0..Len(text)
      /\ (\A i \in 1..n : start[i] = text[i])
      /\ (n = Len(text) \/ text[n + 1] \in S)
  <2>1. n \in Nat /\ Len(text) \in Nat
    OBVIOUS
  <2> QED BY <2>1 DEF IsBeginning
<1>3. h[n] = f[n]
  <2> DEFINE A == {i \in Nat : i <= n => h[i] = f[i]}
  <2>1. 0 \in A
    BY <1>1, <1>2 DEF Splits
  <2>2. ASSUME NEW i \in Nat, i \in A PROVE i + 1 \in A
    <3> SUFFICES ASSUME i + 1 <= n PROVE h[i + 1] = f[i + 1]
      OBVIOUS
    <3>1. h[i] = f[i] /\ start[i + 1] = text[i + 1]
      BY <1>0, <2>2
    <3>2. i + 1 \in 1..Len(start) /\ i + 1 \in 1..Len(text) /\ i + 1 - 1 = i
      BY <1>0
    <3>3. h[i + 1] = Extended(h[i], start[i + 1], S) /\ f[i + 1] = Extended(f[i], text[i + 1], S)
      BY <1>1, <1>2, <3>2 DEF Splits
    <3> QED BY <3>1, <3>3
  <2>3. Nat \subseteq A
    <3> HIDE DEF A
    <3> QED BY <2>1, <2>2, AllNumbers
  <2> QED BY <1>0, <2>3
<1>4. Split(start, S) = f[n] /\ Split(text, S) = f[Len(text)]
  BY <1>1, <1>2, <1>3 DEF Splits
<1>5. /\ Len(Split(text, S)) \in Nat /\ Len(f[n]) \in Nat \ {0}
  BY <1>4, SplitType
<1>6. /\ Len(f[n]) <= Len(Split(text, S))
      /\ \A k \in 1..Len(f[n]) : Split(text, S)[k] = f[n][k]
  <2>1. CASE n = Len(text)
    BY <1>4, <1>5, <2>1
  <2>2. CASE n # Len(text)
    <3>1. n \in 0..(Len(text) - 1) /\ text[n + 1] \in S
      BY <1>0, <2>2
    <3>2. /\ Len(f[n]) <= Len(Split(text, S))
          /\ \A k \in 1..(Len(f[n]) - 1) : Split(text, S)[k] = f[n][k]
          /\ Split(text, S)[Len(f[n])] = f[n][Len(f[n])]
      BY <1>1, <3>1, SplitGoesOn
    <3>3. \A k \in 1..Len(f[n]) : k \in 1..(Len(f[n]) - 1) \/ k = Len(f[n])
      BY <1>5
    <3> QED BY <3>2, <3>3
  <2> QED BY <2>1, <2>2
<1>7. ASSUME \A i \in (n + 1)..Len(text) : text[i] \in S
      PROVE  \A k \in (Len(f[n]) + 1)..Len(Split(text, S)) : Split(text, S)[k] = <<>>
  <2> DEFINE Rest(m) == \A k \in (Len(f[n]) + 1)..Len(f[m]) : f[m][k] = <<>>
             A == {m \in Nat : n <= m /\ m <= Len(text) => Rest(m)}
  <2>1. Rest(n)
    BY <1>5
  <2>2. 0 \in A
    BY <1>0, <2>1
  <2>3. ASSUME NEW m \in Nat, m \in A PROVE m + 1 \in A
    <3> SUFFICES ASSUME n <= m, m + 1 <= Len(text) PROVE Rest(m + 1)
      BY <1>0, <2>1
    <3>1. Rest(m)
      BY <1>0, <2>3
    <3>2. text[m + 1] \in S
      BY <1>0, <1>7
    <3>3. f[m] \in Segments(P) /\ text[m + 1] \in P /\ f[m + 1] = Extended(f[m], text[m + 1], S)
      <4>1. m + 1 \in 1..Len(text) /\ m \in 0..Len(text) /\ m + 1 - 1 = m
        BY <1>0
      <4> QED BY <1>1, <4>1 DEF Splits
    <3>4. NewSegment(f[m], Extended(f[m], text[m + 1], S))
      BY <3>2, <3>3, ExtendedType
    <3>5. NewSegment(f[m], f[m + 1])
      BY <3>3, <3>4
    <3>6. Len(f[m]) \in Nat
      BY <3>3 DEF Segments
    <3> DEFINE s == f[m]
               t == f[m + 1]
               q == Len(f[n])
    <3> HIDE DEF s, t, q
    <3>7. /\ q \in Nat /\ Len(s) \in Nat /\ Len(t) = Len(s) + 1 /\ t[Len(t)] = <<>>
          /\ \A k \in 1..Len(s) : t[k] = s[k]
          /\ \A k \in (q + 1)..Len(s) : s[k] = <<>>
      BY <1>5, <3>1, <3>5, <3>6 DEF NewSegment, s, t, q
    <3>8. ASSUME NEW k \in (q + 1)..Len(t) PROVE t[k] = <<>>
      <4>1. CASE k = Len(t)
        BY <3>7, <4>1
      <4>2. CASE k # Len(t)
        <5>1. k \in (q + 1)..Len(s) /\ k \in 1..Len(s)
          BY <3>7, <4>2
        <5> QED BY <3>7, <5>1
      <4> QED BY <4>1, <4>2
    <3> QED BY <3>8 DEF t, q
  <2>4. Nat \subseteq A
    <3> HIDE DEF A
    <3> QED BY <2>2, <2>3, AllNumbers
  <2>5. Len(text) \in A
    <3> HIDE DEF A
    <3> QED BY <1>0, <2>4
  <2>6. Rest(Len(text))
    BY <1>0, <2>5
  <2> QED BY <1>4, <2>6
<1> QED BY <1>4, <1>6, <1>7

\* A path that goes on from a directory at a separator leads into it.
LEMMA WithinResolves ==
  ASSUME NEW P, NEW dir \in Seq(P), NEW path \in Seq(P), NEW S, "/" \in S,
         NEW n \in 0..Len(dir), n <= Len(path),
         \A i \in 1..n : dir[i] = path[i],
         \A i \in (n + 1)..Len(dir) : dir[i] = "/",
         n = Len(path) \/ path[n + 1] = "/",
         \A k \in 1..Len(Split(path, S)) : Split(path, S)[k] # <<"..">>
  PROVE  IsPrefix(Resolved(Split(dir, S)), Resolved(Split(path, S)))
<1>0. Len(dir) \in Nat /\ Len(path) \in Nat /\ n \in Nat
  OBVIOUS
<1> DEFINE start == SubSeq(dir, 1, n)
<1>1. start \in Seq(P) /\ Len(start) = n /\ \A i \in 1..n : start[i] = dir[i]
  <2>1. 1 \in 1..(Len(dir) + 1) /\ n \in (1 - 1)..Len(dir)
    BY <1>0
  <2>2. /\ start \in Seq(P) /\ Len(start) = n - 1 + 1
        /\ \A i \in 1..(n - 1 + 1) : start[i] = dir[1 + i - 1]
    BY <2>1, SegmentType
  <2> HIDE DEF start
  <2>3. n - 1 + 1 = n /\ \A i \in 1..n : 1 + i - 1 = i
    BY <1>0
  <2> QED BY <2>2, <2>3
<1> HIDE DEF start
<1> DEFINE W == Seq(P)
           s == Split(dir, S)
           t == Split(path, S)
           k == Len(Split(start, S))
<1>2. /\ k <= Len(s) /\ (\A i \in 1..k : s[i] = Split(start, S)[i])
      /\ \A i \in (k + 1)..Len(s) : s[i] = <<>>
  <2>1. Len(start) <= Len(dir) /\ (\A i \in 1..Len(start) : start[i] = dir[i])
    BY <1>0, <1>1
  <2>2. \A i \in (Len(start) + 1)..Len(dir) : dir[i] \in S
    BY <1>0, <1>1
  <2>3. Len(start) = Len(dir) \/ dir[Len(start) + 1] \in S
    BY <1>0, <1>1, <2>2
  <2>4. IsBeginning(start, dir, S)
    BY <2>1, <2>3 DEF IsBeginning
  <2> HIDE DEF start
  <2> QED BY <1>1, <2>2, <2>4, SplitOfBeginning
<1>3. k <= Len(t) /\ \A i \in 1..k : t[i] = Split(start, S)[i]
  <2>1. Len(start) <= Len(path) /\ \A i \in 1..Len(start) : start[i] = path[i]
    BY <1>0, <1>1
  <2>2. Len(start) = Len(path) \/ path[Len(start) + 1] \in S
    BY <1>0, <1>1
  <2>3. IsBeginning(start, path, S)
    BY <2>1, <2>2 DEF IsBeginning
  <2> QED BY <1>1, <2>3, SplitOfBeginning
<1>4. s \in Seq(W) /\ t \in Seq(W) /\ k \in Nat /\ Len(t) \in Nat
  BY <1>1, SplitType
<1>5. \A i \in (k + 1)..Len(t) : t[i] # <<"..">>
  BY <1>4
<1>6. \A i \in 1..k : s[i] = t[i]
  BY <1>2, <1>3
<1>7. IsPrefix(Resolved(s), Resolved(t))
  <2> HIDE DEF W, s, t, k
  <2> QED BY <1>2, <1>3, <1>4, <1>5, <1>6, ResolvedWithin
<1> QED BY <1>7

\* A path with no segment ".." has none whatever its separators are.
LEMMA NoWayUp ==
  ASSUME NEW P, NEW path \in Seq(P), ~HasParentTraversal(path), NEW S \in {AnySlash, {"/"}}
  PROVE  \A k \in 1..Len(Split(path, S)) : Split(path, S)[k] # <<"..">>
<1>1. ".." \notin S /\ ".." \notin AnySlash /\ S \subseteq AnySlash
  BY DEF AnySlash
<1>2. ~\E k \in 1..Len(Split(path, AnySlash)) : Split(path, AnySlash)[k] = <<"..">>
  BY SplitType DEF HasParentTraversal
<1>3. ~\E i : IsAlone(path, AnySlash, "..", i)
  BY <1>1, <1>2, AloneIs
<1>4. ~\E i : IsAlone(path, S, "..", i)
  BY <1>1, <1>3 DEF IsAlone
<1> QED BY <1>1, <1>4, AloneIs

\* The same with the roots: a drive, two backslashes or a slash.
LEMMA WithinLeadsInto ==
  ASSUME NEW P, NEW dir \in Seq(P), NEW path \in Seq(P), ~HasParentTraversal(path),
         dir[1] = "C:" \/ ~IsWindowsAbsolute(dir),
         NEW n \in 1..Len(dir), n <= Len(path),
         \A i \in 1..n : dir[i] = path[i],
         \A i \in (n + 1)..Len(dir) : dir[i] = "/",
         n = Len(path) \/ path[n + 1] = "/"
  PROVE  LeadsInto(dir, path)
<1>0. Len(dir) \in Nat \ {0} /\ Len(path) \in Nat \ {0} /\ dir # <<>> /\ path # <<>> /\ dir[1] = path[1]
      /\ n \in 0..Len(dir)
  OBVIOUS
<1>1. Root(dir) = Root(path)
  <2>1. CASE dir[1] = "C:"
    BY <1>0, <2>1 DEF Root
  <2>2. CASE dir[1] # "C:"
    <3>1. ~IsWindowsAbsolute(path)
      <4> SUFFICES ASSUME IsWindowsAbsolute(path) PROVE FALSE
        OBVIOUS
      <4>1. Len(path) >= 2 /\ path[1] = "\\" /\ path[2] = "\\"
        BY <1>0, <2>2 DEF IsWindowsAbsolute
      <4>2. n # 1
        BY <4>1
      <4>3. n >= 2 /\ dir[2] = "\\" /\ dir[1] = "\\" /\ Len(dir) >= 2
        BY <1>0, <4>1, <4>2
      <4> QED BY <2>2, <4>3 DEF IsWindowsAbsolute
    <3> QED BY <1>0, <2>2, <3>1 DEF Root
  <2> QED BY <2>1, <2>2
<1> DEFINE S == IF Root(path) = "windows" THEN AnySlash ELSE {"/"}
<1>2. S \in {AnySlash, {"/"}} /\ "/" \in S
  BY DEF AnySlash
<1>3. \A k \in 1..Len(Split(path, S)) : Split(path, S)[k] # <<"..">>
  <2> HIDE DEF S
  <2> QED BY <1>2, NoWayUp
<1>4. IsPrefix(Resolved(Split(dir, S)), Resolved(Split(path, S)))
  <2> HIDE DEF S
  <2> QED BY <1>0, <1>2, <1>3, WithinResolves
<1> QED BY <1>1, <1>4 DEF LeadsInto, Directories

\* A prefix has the pieces of the text, up to its length.
LEMMA PrefixIs ==
  ASSUME NEW P, NEW s \in Seq(P), NEW t \in Seq(P)
  PROVE  IsPrefix(s, t) <=> Len(s) <= Len(t) /\ \A i \in 1..Len(s) : s[i] = t[i]
<1> SUFFICES ASSUME Len(s) <= Len(t)
             PROVE  SubSeq(s, 1, Len(s)) = SubSeq(t, 1, Len(s)) <=> \A i \in 1..Len(s) : s[i] = t[i]
  BY DEF IsPrefix
<1>0. Len(s) \in Nat /\ Len(t) \in Nat
  OBVIOUS
<1> DEFINE u == SubSeq(s, 1, Len(s))
           v == SubSeq(t, 1, Len(s))
<1>1. u \in Seq(P) /\ Len(u) = Len(s) /\ \A i \in 1..Len(s) : u[i] = s[i]
  <2>1. 1 \in 1..(Len(s) + 1) /\ Len(s) \in (1 - 1)..Len(s)
    BY <1>0
  <2>2. u \in Seq(P) /\ Len(u) = Len(s) - 1 + 1 /\ \A i \in 1..(Len(s) - 1 + 1) : u[i] = s[1 + i - 1]
    BY <2>1, SegmentType
  <2> HIDE DEF u
  <2> QED BY <1>0, <2>2
<1>2. v \in Seq(P) /\ Len(v) = Len(s) /\ \A i \in 1..Len(s) : v[i] = t[i]
  <2>1. 1 \in 1..(Len(t) + 1) /\ Len(s) \in (1 - 1)..Len(t)
    BY <1>0
  <2>2. v \in Seq(P) /\ Len(v) = Len(s) - 1 + 1 /\ \A i \in 1..(Len(s) - 1 + 1) : v[i] = t[1 + i - 1]
    BY <2>1, SegmentType
  <2> HIDE DEF v
  <2> QED BY <1>0, <2>2
<1> HIDE DEF u, v
<1>3. u = v <=> \A i \in 1..Len(s) : s[i] = t[i]
  BY <1>1, <1>2, SeqEqual
<1> QED BY <1>3 DEF u, v

\* Only backslashes are turned.
LEMMA ForwardSlashesType ==
  ASSUME NEW P, "/" \in P, NEW text \in Seq(P)
  PROVE  /\ ForwardSlashes(text) \in Seq(P) /\ Len(ForwardSlashes(text)) = Len(text)
         /\ \A i \in 1..Len(text) :
              ForwardSlashes(text)[i] = IF text[i] = "\\" THEN "/" ELSE text[i]
<1>1. ForwardSlashes(text) = [i \in 1..Len(text) |-> IF text[i] = "\\" THEN "/" ELSE text[i]]
  BY DEF ForwardSlashes
<1>2. ForwardSlashes(text) \in [1..Len(text) -> P] /\ Len(text) \in Nat
  BY <1>1
<1> QED BY <1>1, <1>2

\* Turning backslashes changes no segment of a Windows path.
LEMMA SplitForwardSlashes ==
  ASSUME NEW P, "/" \in P, NEW text \in Seq(P)
  PROVE  Split(ForwardSlashes(text), AnySlash) = Split(text, AnySlash)
<1> DEFINE other == ForwardSlashes(text)
<1>1. /\ other \in Seq(P) /\ Len(other) = Len(text)
      /\ \A i \in 1..Len(text) : other[i] = IF text[i] = "\\" THEN "/" ELSE text[i]
  BY ForwardSlashesType
<1> HIDE DEF other
<1>2. PICK f \in [0..Len(text) -> Segments(P)] : Splits(f, text, AnySlash)
  BY SplitHasSteps
<1>3. PICK h \in [0..Len(other) -> Segments(P)] : Splits(h, other, AnySlash)
  BY <1>1, SplitHasSteps
<1>0. Len(text) \in Nat
  OBVIOUS
<1>4. f[Len(text)] = h[Len(text)]
  <2> DEFINE A == {i \in Nat : i <= Len(text) => f[i] = h[i]}
  <2>1. 0 \in A
    BY <1>2, <1>3 DEF Splits
  <2>2. ASSUME NEW i \in Nat, i \in A PROVE i + 1 \in A
    <3> SUFFICES ASSUME i + 1 <= Len(text) PROVE f[i + 1] = h[i + 1]
      OBVIOUS
    <3>1. f[i] = h[i]
      BY <1>0, <2>2
    <3>2. i + 1 \in 1..Len(text) /\ i + 1 \in 1..Len(other) /\ i + 1 - 1 = i
      BY <1>0, <1>1
    <3>3. f[i + 1] = Extended(f[i], text[i + 1], AnySlash) /\ h[i + 1] = Extended(h[i], other[i + 1], AnySlash)
      BY <1>2, <1>3, <3>2 DEF Splits
    <3>4. CASE text[i + 1] \in AnySlash
      <4>1. other[i + 1] \in AnySlash
        BY <1>1, <3>2, <3>4 DEF AnySlash
      <4> QED BY <3>1, <3>3, <3>4, <4>1 DEF Extended
    <3>5. CASE text[i + 1] \notin AnySlash
      <4>1. other[i + 1] = text[i + 1]
        BY <1>1, <3>2, <3>5 DEF AnySlash
      <4> QED BY <3>1, <3>3, <4>1
    <3> QED BY <3>4, <3>5
  <2>3. Nat \subseteq A
    <3> HIDE DEF A
    <3> QED BY <2>1, <2>2, AllNumbers
  <2>4. Len(text) \in A
    <3> HIDE DEF A
    <3> QED BY <1>0, <2>3
  <2> QED BY <1>0, <2>4
<1> QED BY <1>1, <1>2, <1>3, <1>4 DEF Splits, other

\* What TrimEnd keeps is a beginning of the text, what it cuts are marks.
LEMMA TrimEndType ==
  ASSUME NEW P, NEW text \in Seq(P), NEW M
  PROVE  /\ TrimEnd(text, M) \in Seq(P) /\ Len(TrimEnd(text, M)) <= Len(text)
         /\ \A i \in 1..Len(TrimEnd(text, M)) : TrimEnd(text, M)[i] = text[i]
         /\ \A i \in (Len(TrimEnd(text, M)) + 1)..Len(text) : text[i] \in M
         /\ TrimEnd(text, M) # <<>> => Last(TrimEnd(text, M)) \notin M
<1>0. Len(text) \in Nat
  OBVIOUS
<1>1. PICK e \in 0..Len(text) : /\ TrimEnd(text, M) = SubSeq(text, 1, e)
                                /\ \A i \in (e + 1)..Len(text) : text[i] \in M
                                /\ e > 0 => text[e] \notin M
  BY TrimEndIs
<1> DEFINE u == TrimEnd(text, M)
<1>2. u \in Seq(P) /\ Len(u) = e /\ \A i \in 1..e : u[i] = text[i]
  <2>1. 1 \in 1..(Len(text) + 1) /\ e \in (1 - 1)..Len(text)
    BY <1>0
  <2>2. /\ SubSeq(text, 1, e) \in Seq(P) /\ Len(SubSeq(text, 1, e)) = e - 1 + 1
        /\ \A i \in 1..(e - 1 + 1) : SubSeq(text, 1, e)[i] = text[1 + i - 1]
    BY <2>1, SegmentType
  <2> HIDE DEF u
  <2>3. u \in Seq(P) /\ Len(u) = e - 1 + 1 /\ \A i \in 1..(e - 1 + 1) : u[i] = text[1 + i - 1]
    BY <1>1, <2>2 DEF u
  <2> QED BY <1>0, <2>3
<1> HIDE DEF u
<1>3. u # <<>> => Last(u) \notin M
  BY <1>1, <1>2 DEF Last
<1> QED BY <1>0, <1>1, <1>2, <1>3 DEF u

\* A rule that grants a path means it, if no segment of the path goes up.
THEOREM GrantedPathIsMeant ==
  ASSUME NEW P, "/" \in P, NEW rule \in Seq(P), NEW path \in Seq(P),
         GrantsPath(rule, path), ~HasParentTraversal(path)
  PROVE  MeansPath(rule, path)
<1> DEFINE T == Trim(rule)
           dir == TrimEnd(T, {"/"})
           windowsDir == TrimEnd(ForwardSlashes(dir), {"/"})
<1>1. T \in Seq(P) /\ Len(T) \in Nat /\ Len(path) \in Nat
  BY TrimType
<1>2. /\ dir \in Seq(P) /\ Len(dir) <= Len(T) /\ dir # <<>>
      /\ \A i \in 1..Len(dir) : dir[i] = T[i]
      /\ \A i \in (Len(dir) + 1)..Len(T) : T[i] = "/"
  <2> HIDE DEF T
  <2> QED BY <1>1, TrimEndType DEF GrantsPath, T
<1>3. IF IsWindowsAbsolute(T)
      THEN windowsDir # <<>> /\ IsWindowsAbsolute(path) /\ PathWithin(windowsDir, ForwardSlashes(path))
      ELSE PathWithin(dir, path)
  BY DEF GrantsPath
<1> HIDE DEF T, dir, windowsDir
<1>4. Len(dir) \in Nat \ {0} /\ T # <<>>
  BY <1>1, <1>2
<1>5. CASE ~IsWindowsAbsolute(T)
  <2>1. IsPrefix(dir, path) /\ (Len(path) = Len(dir) \/ path[Len(dir) + 1] = "/")
    BY <1>3, <1>5 DEF PathWithin
  <2>2. Len(dir) <= Len(path) /\ \A i \in 1..Len(dir) : dir[i] = path[i]
    BY <1>2, <2>1, PrefixIs
  <2>3. Len(dir) \in 1..Len(T) /\ \A i \in 1..Len(dir) : T[i] = path[i]
    BY <1>1, <1>2, <1>4, <2>2
  <2>4. LeadsInto(T, path)
    BY <1>1, <1>2, <1>5, <2>1, <2>2, <2>3, WithinLeadsInto
  <2> QED BY <1>4, <2>4 DEF MeansPath, T
<1>6. CASE IsWindowsAbsolute(T)
  <2> DEFINE text == ForwardSlashes(path)
             below == ForwardSlashes(T)
             inner == ForwardSlashes(dir)
             n == Len(windowsDir)
  <2>1. /\ text \in Seq(P) /\ Len(text) = Len(path)
        /\ below \in Seq(P) /\ Len(below) = Len(T)
        /\ \A i \in 1..Len(T) : below[i] = IF T[i] = "\\" THEN "/" ELSE T[i]
        /\ inner \in Seq(P) /\ Len(inner) = Len(dir)
        /\ \A i \in 1..Len(dir) : inner[i] = IF dir[i] = "\\" THEN "/" ELSE dir[i]
    BY <1>1, <1>2, ForwardSlashesType
  <2>2. /\ windowsDir \in Seq(P) /\ n <= Len(inner)
        /\ \A i \in 1..n : windowsDir[i] = inner[i]
        /\ \A i \in (n + 1)..Len(inner) : inner[i] = "/"
    <3> HIDE DEF inner
    <3> QED BY <2>1, TrimEndType DEF windowsDir, inner
  <2>3. IsPrefix(windowsDir, text) /\ (Len(text) = n \/ text[n + 1] = "/")
    BY <1>3, <1>6 DEF PathWithin
  <2> HIDE DEF text, below, inner
  <2>4. n <= Len(text) /\ \A i \in 1..n : windowsDir[i] = text[i]
    BY <2>1, <2>2, <2>3, PrefixIs
  <2>5. n \in Nat
    BY <2>2
  <2>6. n \in 0..Len(below) /\ \A i \in 1..n : below[i] = text[i]
    <3>1. n <= Len(dir) /\ n <= Len(T)
      BY <1>1, <1>2, <1>4, <2>1, <2>2, <2>5
    <3>2. \A i \in 1..n : i \in 1..Len(dir) /\ i \in 1..Len(T)
      BY <1>1, <1>4, <2>5, <3>1
    <3>3. \A i \in 1..n : below[i] = inner[i]
      BY <1>2, <2>1, <3>2
    <3> QED BY <1>1, <2>1, <2>2, <2>4, <2>5, <3>1, <3>3
  <2>7. \A i \in (n + 1)..Len(below) : below[i] = "/"
    <3> SUFFICES ASSUME NEW i \in (n + 1)..Len(below) PROVE below[i] = "/"
      OBVIOUS
    <3>1. i \in 1..Len(T)
      BY <1>1, <2>1, <2>5
    <3>2. CASE i <= Len(dir)
      <4>1. i \in 1..Len(dir) /\ i \in (n + 1)..Len(inner)
        BY <1>4, <2>1, <2>5, <3>1, <3>2
      <4> QED BY <1>2, <2>1, <2>2, <3>1, <4>1
    <3>3. CASE i > Len(dir)
      <4>1. i \in (Len(dir) + 1)..Len(T)
        BY <1>4, <3>1, <3>3
      <4>2. T[i] = "/"
        BY <1>2, <4>1
      <4> QED BY <2>1, <3>1, <4>2
    <3> QED BY <1>4, <3>1, <3>2, <3>3
  <2>8. \A k \in 1..Len(Split(text, AnySlash)) : Split(text, AnySlash)[k] # <<"..">>
    <3>1. Split(text, AnySlash) = Split(path, AnySlash)
      BY SplitForwardSlashes DEF text
    <3> QED BY <3>1, NoWayUp
  <2>9. IsPrefix(Resolved(Split(below, AnySlash)), Resolved(Split(text, AnySlash)))
    <3>1. "/" \in AnySlash
      BY DEF AnySlash
    <3> QED BY <2>1, <2>3, <2>4, <2>6, <2>7, <2>8, <3>1, WithinResolves
  <2>10. Split(below, AnySlash) = Split(T, AnySlash) /\ Split(text, AnySlash) = Split(path, AnySlash)
    BY <1>1, SplitForwardSlashes DEF below, text
  <2>11. Root(T) = "windows" /\ Root(path) = "windows"
    <3>1. IsWindowsAbsolute(path) /\ path # <<>> /\ path[1] # "/" /\ T[1] # "/"
      BY <1>3, <1>6 DEF IsWindowsAbsolute
    <3> QED BY <1>4, <1>6, <3>1 DEF Root
  <2> QED BY <1>4, <2>9, <2>10, <2>11 DEF MeansPath, LeadsInto, Directories, T
<1> QED BY <1>5, <1>6

\* The directories of a path are texts.
LEMMA DirectoriesType ==
  ASSUME NEW P, NEW path \in Seq(P)
  PROVE  Directories(path) \in Seq(Seq(P))
<1> DEFINE S == IF Root(path) = "windows" THEN AnySlash ELSE {"/"}
           s == Split(path, S)
           W == Seq(P)
<1>1. s \in Seq(W)
  <2> HIDE DEF S
  <2> QED BY SplitType
<1> HIDE DEF s, W
<1>2. PICK g \in [0..Len(s) -> Seq(W)] : Resolves(g, s)
  BY <1>1, ResolvedHasSteps
<1>3. Resolved(s) \in Seq(W)
  BY <1>1, <1>2 DEF Resolves
<1> QED BY <1>3 DEF Directories, s, W

\* What is below a directory below a rule is below the rule.
LEMMA LeadsOn ==
  ASSUME NEW P, NEW rule \in Seq(P), NEW dir \in Seq(P), NEW path \in Seq(P),
         MeansPath(rule, dir), LeadsInto(dir, path)
  PROVE  MeansPath(rule, path)
<1> DEFINE a == Directories(Trim(rule))
           b == Directories(dir)
           c == Directories(path)
           W == Seq(P)
<1>1. a \in Seq(W) /\ b \in Seq(W) /\ c \in Seq(W)
  BY TrimType, DirectoriesType
<1>2. IsPrefix(a, b) /\ IsPrefix(b, c)
  BY DEF MeansPath, LeadsInto
<1>3. IsPrefix(a, c)
  <2> HIDE DEF a, b, c, W
  <2>1. Len(a) \in Nat /\ Len(b) \in Nat /\ Len(c) \in Nat
    BY <1>1
  <2>2. Len(a) <= Len(b) /\ (\A i \in 1..Len(a) : a[i] = b[i]) /\ Len(b) <= Len(c) /\ (\A i \in 1..Len(b) : b[i] = c[i])
    BY <1>1, <1>2, PrefixIs
  <2>3. Len(a) <= Len(c) /\ \A i \in 1..Len(a) : a[i] = c[i]
    BY <2>1, <2>2
  <2> QED BY <1>1, <2>3, PrefixIs
<1> QED BY <1>3 DEF MeansPath, LeadsInto

\* The directory of a path has no pieces that the path does not have, but for ".".
LEMMA ParentPathType ==
  ASSUME NEW P, "/" \in P, "." \in P, NEW path \in Seq(P)
  PROVE  /\ ParentPath(path) \in Seq(P) /\ ParentPath(path) # <<>>
         /\ (\A i \in DOMAIN path : path[i] # "\\") =>
              \A i \in DOMAIN ParentPath(path) : ParentPath(path)[i] # "\\"
<1> DEFINE I == {i \in 1..Len(path) : path[i] = "/"}
           cut == IF I # {} THEN CHOOSE x \in I : \A y \in I : x >= y ELSE 0
<1>0. Len(path) \in Nat /\ DOMAIN path = 1..Len(path)
  OBVIOUS
<1>1. ParentPath(path) = CASE cut = 0 -> <<".">>
                           [] cut = 1 -> <<"/">>
                           [] OTHER -> SubSeq(path, 1, cut - 1)
  BY DEF ParentPath, SelectLastInSeq, Max
<1>2. cut \in 0..Len(path)
  <2>1. CASE I = {}
    BY <1>0, <2>1
  <2>2. CASE I # {}
    <3>1. \E x \in I : \A y \in I : x >= y
      <4>1. I \subseteq 1..Len(path)
        OBVIOUS
      <4> HIDE DEF I
      <4> QED BY <1>0, <2>2, <4>1, GreatestNumber
    <3>2. cut \in I
      <4> HIDE DEF I
      <4> QED BY <2>2, <3>1
    <3>3. I \subseteq 0..Len(path)
      BY <1>0
    <3> HIDE DEF cut, I
    <3> QED BY <3>2, <3>3
  <2> QED BY <2>1, <2>2
<1> HIDE DEF cut, I
<1>3. CASE cut = 0
  BY <1>1, <1>3
<1>4. CASE cut = 1
  BY <1>1, <1>4
<1>5. CASE cut > 1
  <2> DEFINE u == SubSeq(path, 1, cut - 1)
  <2>1. ParentPath(path) = u
    BY <1>1, <1>2, <1>5
  <2>2. 1 \in 1..(Len(path) + 1) /\ cut - 1 \in (1 - 1)..Len(path)
    BY <1>0, <1>2, <1>5
  <2>3. u \in Seq(P) /\ Len(u) = cut - 1 - 1 + 1 /\ \A i \in 1..(cut - 1 - 1 + 1) : u[i] = path[1 + i - 1]
    BY <2>2, SegmentType
  <2> HIDE DEF u
  <2>4. u \in Seq(P) /\ Len(u) = cut - 1 /\ \A i \in 1..(cut - 1) : u[i] = path[i]
    BY <1>2, <2>3
  <2>5. u # <<>> /\ \A i \in DOMAIN u : i \in DOMAIN path /\ u[i] = path[i]
    BY <1>0, <1>2, <1>5, <2>4
  <2> QED BY <2>1, <2>4, <2>5
<1> QED BY <1>2, <1>3, <1>4, <1>5

\* The temporary file of an atomic upload is in the directory of its path.
THEOREM TemporaryIsBeside ==
  ASSUME NEW P, "/" \in P, "." \in P, "temporary" \in P, NEW path \in Seq(P), HasParent(path),
         ~HasParentTraversal(ParentPath(path))
  PROVE  TemporaryPath(path) \in Seq(P) /\ LeadsInto(ParentPath(path), TemporaryPath(path))
<1> DEFINE dir == ParentPath(path)
           d == TrimEnd(dir, {"/"})
           end == <<"/", "temporary">>
           temporary == d \o end
<1>1. dir \in Seq(P) /\ dir # <<>> /\ \A i \in 1..Len(dir) : dir[i] # "\\"
  BY ParentPathType DEF HasParent
<1> HIDE DEF dir
<1>2. /\ d \in Seq(P) /\ Len(d) <= Len(dir) /\ \A i \in 1..Len(d) : d[i] = dir[i]
      /\ \A i \in (Len(d) + 1)..Len(dir) : dir[i] = "/"
  BY <1>1, TrimEndType
<1> HIDE DEF d
<1>3. end \in Seq(P) /\ Len(end) = 2 /\ end[1] = "/" /\ end[2] = "temporary"
  OBVIOUS
<1> HIDE DEF end
<1>0. Len(dir) \in Nat \ {0} /\ Len(d) \in Nat
  BY <1>1, <1>2
<1>4. /\ temporary \in Seq(P) /\ Len(temporary) = Len(d) + 2
      /\ \A i \in 1..Len(d) : temporary[i] = d[i]
      /\ temporary[Len(d) + 1] = "/" /\ temporary[Len(d) + 2] = "temporary"
  <2>1. /\ d \o end \in Seq(P) /\ Len(d \o end) = Len(d) + Len(end)
        /\ \A i \in 1..(Len(d) + Len(end)) : (d \o end)[i] = IF i <= Len(d) THEN d[i] ELSE end[i - Len(d)]
    <3>1. d \in Seq(P) /\ end \in Seq(P)
      BY <1>2, <1>3
    <3> QED BY <3>1, ConcatProperties
  <2> HIDE DEF temporary
  <2>2. Len(d) + 1 \in 1..(Len(d) + 2) /\ Len(d) + 2 \in 1..(Len(d) + 2)
        /\ Len(d) + 1 - Len(d) = 1 /\ Len(d) + 2 - Len(d) = 2 /\ ~(Len(d) + 1 <= Len(d)) /\ ~(Len(d) + 2 <= Len(d))
    BY <1>0
  <2>3. temporary[Len(d) + 1] = "/" /\ temporary[Len(d) + 2] = "temporary"
    BY <1>3, <2>1, <2>2 DEF temporary
  <2> QED BY <1>0, <1>3, <2>1, <2>3 DEF temporary
<1>5. TemporaryPath(path) = temporary
  BY DEF TemporaryPath, temporary, d, dir, end
<1> HIDE DEF temporary
<1>6. ~HasParentTraversal(temporary)
  <2>1. ~\E k \in 1..Len(Split(dir, AnySlash)) : Split(dir, AnySlash)[k] = <<"..">>
    BY <1>1, SplitType DEF HasParentTraversal, dir
  <2>2. ".." \notin AnySlash /\ "/" \in AnySlash
    BY DEF AnySlash
  <2>3. ~\E i : IsAlone(dir, AnySlash, "..", i)
    BY <1>1, <2>1, <2>2, AloneIs
  <2>4. ASSUME NEW i, IsAlone(temporary, AnySlash, "..", i) PROVE FALSE
    <3>1. i \in 1..(Len(d) + 2) /\ temporary[i] = ".." /\ (i = 1 \/ temporary[i - 1] \in AnySlash)
          /\ (i = Len(d) + 2 \/ temporary[i + 1] \in AnySlash)
      BY <1>4, <2>4 DEF IsAlone
    <3>2. i # Len(d) + 1 /\ i # Len(d) + 2
      BY <1>4, <3>1
    <3>3. i \in 1..Len(d) /\ i \in 1..Len(dir)
      BY <1>0, <1>2, <3>1, <3>2
    <3>4. dir[i] = ".."
      BY <1>2, <1>4, <3>1, <3>3
    <3>5. i = 1 \/ dir[i - 1] \in AnySlash
      <4>1. i = 1 \/ i - 1 \in 1..Len(d)
        BY <1>0, <3>3
      <4> QED BY <1>2, <1>4, <3>1, <4>1
    <3>6. i = Len(dir) \/ dir[i + 1] \in AnySlash
      <4>1. CASE i = Len(d)
        <5>1. i = Len(dir) \/ i + 1 \in (Len(d) + 1)..Len(dir)
          BY <1>0, <3>3, <4>1
        <5> QED BY <1>2, <2>2, <5>1
      <4>2. CASE i # Len(d)
        <5>1. i + 1 \in 1..Len(d) /\ i # Len(d) + 2
          BY <1>0, <3>3, <4>2
        <5> QED BY <1>2, <1>4, <3>1, <5>1
      <4> QED BY <4>1, <4>2
    <3>7. IsAlone(dir, AnySlash, "..", i)
      BY <3>3, <3>4, <3>5, <3>6 DEF IsAlone
    <3> QED BY <2>3, <3>7
  <2>5. ~\E k \in 1..Len(Split(temporary, AnySlash)) : Split(temporary, AnySlash)[k] = <<"..">>
    BY <1>4, <2>2, <2>4, AloneIs
  <2> QED BY <1>4, <2>5, SplitType DEF HasParentTraversal
<1>7. CASE Len(d) # 0
  <2>1. Len(d) \in 1..Len(dir) /\ Len(d) <= Len(temporary) /\ \A i \in 1..Len(d) : dir[i] = temporary[i]
    BY <1>0, <1>2, <1>4, <1>7
  <2>2. dir[1] = "C:" \/ ~IsWindowsAbsolute(dir)
    BY <1>0, <1>1 DEF IsWindowsAbsolute
  <2>3. temporary[Len(d) + 1] = "/"
    BY <1>4
  <2>4. LeadsInto(dir, temporary)
    BY <1>1, <1>2, <1>4, <1>6, <2>1, <2>2, <2>3, WithinLeadsInto
  <2> QED BY <1>4, <1>5, <2>4 DEF dir
<1>8. CASE Len(d) = 0
  <2>1. dir[1] = "/" /\ temporary[1] = "/" /\ temporary # <<>> /\ \A i \in 1..Len(dir) : dir[i] = "/"
    <3>1. \A i \in 1..Len(dir) : dir[i] = "/"
      BY <1>0, <1>2, <1>8
    <3>2. 1 \in 1..Len(dir)
      BY <1>0
    <3>3. temporary[1] = "/"
      BY <1>4, <1>8
    <3>4. temporary # <<>>
      <4>1. temporary \in Seq(P) /\ Len(temporary) # 0
        BY <1>4, <1>8
      <4> QED BY <4>1, EmptySeq
    <3> QED BY <3>1, <3>2, <3>3, <3>4
  <2>2. Root(dir) = "posix" /\ Root(temporary) = "posix"
    BY <1>1, <2>1 DEF Root, IsWindowsAbsolute
  <2> DEFINE S == {"/"}
  <2>3. \A k \in 1..Len(Split(temporary, S)) : Split(temporary, S)[k] # <<"..">>
    BY <1>4, <1>6, NoWayUp
  <2> DEFINE n == 0
  <2>4. /\ "/" \in S /\ n \in 0..Len(dir) /\ n <= Len(temporary)
        /\ n = Len(temporary) \/ temporary[n + 1] = "/"
        /\ \A i \in 1..n : dir[i] = temporary[i]
        /\ \A i \in (n + 1)..Len(dir) : dir[i] = "/"
    BY <1>0, <1>4, <2>1
  <2>5. IsPrefix(Resolved(Split(dir, S)), Resolved(Split(temporary, S)))
    <3> HIDE DEF S, n
    <3>1. dir \in Seq(P) /\ temporary \in Seq(P)
      BY <1>1, <1>4
    <3> QED BY <2>3, <2>4, <3>1, WithinResolves
  <2> QED BY <1>4, <1>5, <2>2, <2>5 DEF LeadsInto, Directories, dir
<1> QED BY <1>7, <1>8

\* Without dots and empty segments nothing is resolved but the root.
LEMMA NothingToResolve ==
  ASSUME NEW W, NEW s \in Seq(W), Len(s) > 0, s[1] = <<>>,
         \A k \in 2..Len(s) : s[k] \notin {<<>>, <<".">>, <<"..">>}
  PROVE  /\ Resolved(s) \in Seq(W) /\ Len(Resolved(s)) = Len(s) - 1
         /\ \A k \in 1..(Len(s) - 1) : Resolved(s)[k] = s[k + 1]
<1>1. PICK g \in [0..Len(s) -> Seq(W)] : Resolves(g, s)
  BY ResolvedHasSteps
<1>0. Len(s) \in Nat \ {0}
  OBVIOUS
<1> DEFINE Done(n) == Len(g[n]) = n - 1 /\ \A k \in 1..(n - 1) : g[n][k] = s[k + 1]
           A == {m \in Nat : m + 1 <= Len(s) => Done(m + 1)}
<1>2. 0 \in A
  <2>1. 1 \in 1..Len(s) /\ 1 - 1 = 0
    BY <1>0
  <2>2. g[1] = Descended(g[0], s[1]) /\ g[0] = <<>>
    BY <1>1, <2>1 DEF Resolves
  <2>3. g[1] = <<>>
    BY <2>2 DEF Descended
  <2> QED BY <2>3
<1>3. ASSUME NEW m \in Nat, m \in A PROVE m + 1 \in A
  <2> SUFFICES ASSUME m + 2 <= Len(s) PROVE Done(m + 2)
    OBVIOUS
  <2> DEFINE a == g[m + 1]
             b == g[m + 2]
  <2>1. m + 2 \in 1..Len(s) /\ m + 2 \in 2..Len(s) /\ m + 2 - 1 = m + 1 /\ m + 1 \in 0..Len(s)
    BY <1>0
  <2>2. b = Descended(a, s[m + 2]) /\ a \in Seq(W) /\ s[m + 2] \in W
    <3>1. g[m + 2] = Descended(g[m + 2 - 1], s[m + 2])
      BY <1>1, <2>1 DEF Resolves
    <3> QED BY <2>1, <3>1, ElementOfSeq
  <2>3. b = Append(a, s[m + 2])
    BY <2>1, <2>2 DEF Descended
  <2>4. Len(a) = m /\ \A k \in 1..m : a[k] = s[k + 1]
    BY <1>3
  <2> HIDE DEF a, b
  <2>5. Len(b) = m + 1 /\ b[m + 1] = s[m + 2] /\ \A k \in 1..m : b[k] = a[k]
    BY <2>2, <2>3, <2>4, AppendProperties
  <2>6. \A k \in 1..(m + 1) : b[k] = s[k + 1]
    <3> SUFFICES ASSUME NEW k \in 1..(m + 1) PROVE b[k] = s[k + 1]
      OBVIOUS
    <3>1. k = m + 1 \/ k \in 1..m
      OBVIOUS
    <3> QED BY <2>4, <2>5, <3>1
  <2> QED BY <2>5, <2>6 DEF b
<1>4. Nat \subseteq A
  <2> HIDE DEF A
  <2> QED BY <1>2, <1>3, AllNumbers
<1>5. Len(s) - 1 \in A
  <2> HIDE DEF A
  <2> QED BY <1>0, <1>4
<1>6. Done(Len(s))
  BY <1>0, <1>5
<1>7. Resolved(s) = g[Len(s)] /\ g[Len(s)] \in Seq(W)
  BY <1>0, <1>1 DEF Resolves
<1> QED BY <1>6, <1>7

\* A plain path has an empty segment before its root and no other.
LEMMA PlainSegments ==
  ASSUME NEW P, NEW text \in Seq(P), IsPlain(text)
  PROVE  /\ Len(Split(text, {"/"})) \in Nat \ {0} /\ Split(text, {"/"})[1] = <<>>
         /\ \A k \in 2..Len(Split(text, {"/"})) : Split(text, {"/"})[k] \notin {<<>>, <<".">>, <<"..">>}
<1> DEFINE S == {"/"}
           s == Split(text, S)
<1>0. /\ Len(text) \in Nat /\ Len(text) > 1 /\ text[1] \in S /\ text[Len(text)] \notin S
      /\ \A i \in 1..Len(text) : text[i] \notin {".", ".."}
      /\ \A i \in 2..Len(text) : text[i] \in S => text[i - 1] \notin S
  BY DEF IsPlain, Last
<1> HIDE DEF S
<1>1. Len(s) \in Nat \ {0}
  BY SplitType
<1>2. s[1] = <<>>
  <2>1. PICK f \in [0..Len(text) -> Segments(P)] : Splits(f, text, S)
    BY SplitHasSteps
  <2>2. f[0] = <<<<>>>>
    BY <2>1 DEF Splits
  <2> DEFINE n == 0
  <2>3. n \in 0..(Len(text) - 1) /\ text[n + 1] \in S
    BY <1>0
  <2>4. f[n] = <<<<>>>>
    BY <2>2
  <2> HIDE DEF n, s
  <2>5. Split(text, S)[Len(f[n])] = f[n][Len(f[n])]
    BY <2>1, <2>3, SplitGoesOn
  <2>6. Len(f[n]) = 1 /\ f[n][1] = <<>>
    BY <2>4
  <2> QED BY <2>5, <2>6 DEF s
<1>3. ASSUME NEW k \in 2..Len(s) PROVE s[k] \notin {<<>>, <<".">>, <<"..">>}
  <2>1. k \in 1..Len(s) /\ k > 1
    BY <1>1
  <2>2. PICK a, b : IsSegment(text, S, a, b) /\ s[k] = SubSeq(text, a, b) /\ a > 1
    BY <2>1, SegmentIs
  <2>3. /\ a \in 2..(Len(text) + 1) /\ b \in (a - 1)..Len(text)
        /\ text[a - 1] \in S /\ (b = Len(text) \/ text[b + 1] \in S)
    BY <1>0, <2>2 DEF IsSegment
  <2>4. /\ Len(SubSeq(text, a, b)) = b - a + 1
        /\ \A i \in 1..(b - a + 1) : SubSeq(text, a, b)[i] = text[a + i - 1]
    <3>1. a \in 1..(Len(text) + 1) /\ b \in (a - 1)..Len(text)
      BY <1>0, <2>3
    <3> QED BY <3>1, SegmentType
  <2> DEFINE word == SubSeq(text, a, b)
  <2> HIDE DEF word
  <2>5. a <= b
    <3> SUFFICES ASSUME b = a - 1 PROVE FALSE
      BY <1>0, <2>3
    <3>1. a # Len(text) + 1
      BY <1>0, <2>3
    <3>2. b + 1 = a /\ a \in 2..Len(text) /\ text[a] \in S
      BY <1>0, <2>3, <3>1
    <3> QED BY <1>0, <2>3, <3>2
  <2>6. Len(word) = b - a + 1 /\ word[1] = text[a]
    <3>1. 1 \in 1..(b - a + 1) /\ a + 1 - 1 = a
      BY <1>0, <2>3, <2>5
    <3> QED BY <2>4, <3>1 DEF word
  <2>7. Len(word) # 0 /\ word[1] \notin {".", ".."}
    <3>1. a \in 1..Len(text) /\ b - a + 1 # 0
      BY <1>0, <2>3, <2>5
    <3> QED BY <1>0, <2>6, <3>1
  <2>8. word \notin {<<>>, <<".">>, <<"..">>}
    BY <2>7
  <2> QED BY <2>2, <2>8 DEF word
<1> QED BY <1>1, <1>2, <1>3 DEF S, s

\* The segment that a text is in when its next piece comes shows that piece.
ShowsNext(segments, done, next, S) ==
  LET n == Len(done)  word == done[n]  whole == segments[n] IN
  /\ n \in Nat \ {0} /\ n <= Len(segments) /\ Len(word) \in Nat
  /\ next \in S => n < Len(segments) /\ whole = word
  /\ next \notin S => Len(whole) # Len(word) /\ whole[Len(word) + 1] = next

\* It ends before a separator, and else has the piece at its next place.
LEMMA SegmentsShowNext ==
  ASSUME NEW P, NEW text \in Seq(P), NEW S, NEW f \in [0..Len(text) -> Segments(P)],
         Splits(f, text, S), NEW n \in 0..(Len(text) - 1)
  PROVE  ShowsNext(Split(text, S), f[n], text[n + 1], S)
<1> DEFINE next == text[n + 1]
           segments == Split(text, S)
           done == f[n]
           word == done[Len(done)]
           whole == segments[Len(done)]
<1>1. /\ Len(done) \in Nat \ {0} /\ word \in Seq(P) /\ Len(done) <= Len(segments)
      /\ next \in S => Len(done) < Len(segments) /\ whole = word
      /\ next \notin S => Begins(Append(word, next), whole)
  <2>1. /\ Len(f[n]) \in Nat \ {0} /\ f[n][Len(f[n])] \in Seq(P)
        /\ Len(f[n]) <= Len(Split(text, S))
        /\ text[n + 1] \in S => /\ Len(f[n]) < Len(Split(text, S))
                                /\ Split(text, S)[Len(f[n])] = f[n][Len(f[n])]
        /\ text[n + 1] \notin S =>
             Begins(Append(f[n][Len(f[n])], text[n + 1]), Split(text, S)[Len(f[n])])
    BY SplitGoesOn
  <2> QED BY <2>1
<1>2. next \in P
  <2>1. n + 1 \in 1..Len(text)
    OBVIOUS
  <2> QED BY <2>1, ElementOfSeq
<1>3. whole \in Seq(P)
  <2>1. Len(segments) \in Nat /\ segments \in Seq(Seq(P))
    BY SplitType
  <2>2. Len(done) \in 1..Len(segments)
    BY <1>1, <2>1
  <2> QED BY <2>1, <2>2, ElementOfSeq
<1> HIDE DEF next, segments, done, word, whole
<1>4. Len(word) \in Nat /\ Len(whole) \in Nat
  BY <1>1, <1>3
<1>5. ASSUME next \notin S PROVE Len(whole) # Len(word) /\ whole[Len(word) + 1] = next
  <2>1. Len(Append(word, next)) = Len(word) + 1 /\ Append(word, next)[Len(word) + 1] = next
    BY <1>1, <1>2, AppendProperties
  <2>2. Len(word) + 1 <= Len(whole) /\ \A q \in 1..(Len(word) + 1) : whole[q] = Append(word, next)[q]
    BY <1>1, <1>5, <2>1 DEF Begins
  <2> QED BY <1>4, <2>1, <2>2
<1> QED BY <1>1, <1>4, <1>5 DEF ShowsNext, next, segments, done, word, whole

\* Texts are as long a beginning of each other as their segments are.
LEMMA SegmentsTellTheText ==
  ASSUME NEW P, NEW start \in Seq(P), NEW text \in Seq(P), NEW S, \A x, y \in S : x = y,
         Len(Split(start, S)) <= Len(Split(text, S)),
         \A k \in 1..Len(Split(start, S)) : Split(start, S)[k] = Split(text, S)[k]
  PROVE  IsBeginning(start, text, S)
<1>1. PICK f \in [0..Len(start) -> Segments(P)] : Splits(f, start, S)
  BY SplitHasSteps
<1>2. PICK h \in [0..Len(text) -> Segments(P)] : Splits(h, text, S)
  BY SplitHasSteps
<1>0. Len(start) \in Nat /\ Len(text) \in Nat
  OBVIOUS
<1> DEFINE s == Split(start, S)
           t == Split(text, S)
           A == {n \in Nat : n <= Len(start) =>
                   n <= Len(text) /\ f[n] = h[n] /\ \A i \in 1..n : start[i] = text[i]}
<1>3. s = f[Len(start)] /\ t = h[Len(text)] /\ Len(s) \in Nat /\ Len(t) \in Nat
  BY <1>1, <1>2, SplitType DEF Splits
<1> HIDE DEF s, t
<1>4. Len(s) <= Len(t) /\ \A k \in 1..Len(s) : s[k] = t[k]
  BY DEF s, t
<1>6. 0 \in A
  <2>1. f[0] = h[0]
    BY <1>1, <1>2 DEF Splits
  <2> QED BY <1>0, <2>1
<1>7. ASSUME NEW n \in Nat, n \in A PROVE n + 1 \in A
  <2> SUFFICES ASSUME n + 1 <= Len(start)
               PROVE  n + 1 <= Len(text) /\ f[n + 1] = h[n + 1] /\ \A i \in 1..(n + 1) : start[i] = text[i]
    OBVIOUS
  <2>1. n <= Len(text) /\ f[n] = h[n] /\ \A i \in 1..n : start[i] = text[i]
    BY <1>0, <1>7
  <2> HIDE DEF A
  <2> DEFINE d == f[n]
             w == d[Len(d)]
  <2>2. n \in 0..(Len(start) - 1)
    BY <1>0
  <2>3. /\ Len(d) \in Nat \ {0} /\ Len(w) \in Nat /\ Len(d) <= Len(s)
        /\ start[n + 1] \in S => Len(d) < Len(s) /\ s[Len(d)] = w
        /\ start[n + 1] \notin S => Len(s[Len(d)]) # Len(w) /\ s[Len(d)][Len(w) + 1] = start[n + 1]
    <3>1. ShowsNext(s, f[n], start[n + 1], S)
      BY <1>1, <2>2, SegmentsShowNext DEF s
    <3> QED BY <3>1 DEF ShowsNext
  <2>4. ASSUME n < Len(text)
        PROVE  /\ text[n + 1] \in S => t[Len(d)] = w
               /\ text[n + 1] \notin S => Len(t[Len(d)]) # Len(w) /\ t[Len(d)][Len(w) + 1] = text[n + 1]
    <3>1. n \in 0..(Len(text) - 1)
      BY <1>0, <2>4
    <3>2. ShowsNext(t, h[n], text[n + 1], S)
      BY <1>2, <3>1, SegmentsShowNext DEF t
    <3> QED BY <2>1, <3>2 DEF ShowsNext
  <2> HIDE DEF d, w
  <2>5. s[Len(d)] = t[Len(d)]
    <3>1. Len(d) \in 1..Len(s)
      BY <1>3, <2>3
    <3> QED BY <1>4, <3>1
  <2>6. n # Len(text)
    <3> SUFFICES ASSUME n = Len(text) PROVE FALSE
      OBVIOUS
    <3>1. t = d
      BY <1>3, <2>1 DEF d
    <3>2. t[Len(d)] = w
      BY <3>1 DEF w
    <3> QED BY <1>3, <1>4, <2>3, <2>5, <3>1, <3>2
  <2>7. n < Len(text)
    BY <1>0, <2>1, <2>6
  <2>8. start[n + 1] = text[n + 1]
    <3>1. CASE start[n + 1] \in S
      <4>1. text[n + 1] \in S
        BY <2>3, <2>4, <2>5, <2>7, <3>1
      <4> QED BY <3>1, <4>1
    <3>2. CASE start[n + 1] \notin S
      <4>1. text[n + 1] \notin S
        BY <2>3, <2>4, <2>5, <2>7, <3>2
      <4> QED BY <2>3, <2>4, <2>5, <2>7, <3>2, <4>1
    <3> QED BY <3>1, <3>2
  <2>9. f[n + 1] = h[n + 1]
    <3>1. n + 1 \in 1..Len(start) /\ n + 1 \in 1..Len(text) /\ n + 1 - 1 = n
      BY <1>0, <2>7
    <3>2. f[n + 1] = Extended(f[n], start[n + 1], S) /\ h[n + 1] = Extended(h[n], text[n + 1], S)
      BY <1>1, <1>2, <3>1 DEF Splits
    <3> QED BY <2>1, <2>8, <3>2
  <2>10. \A i \in 1..(n + 1) : start[i] = text[i]
    BY <2>1, <2>8
  <2> QED BY <1>0, <2>7, <2>9, <2>10
<1>8. Nat \subseteq A
  <2> HIDE DEF A
  <2> QED BY <1>6, <1>7, AllNumbers
<1>9. Len(start) <= Len(text) /\ f[Len(start)] = h[Len(start)] /\ \A i \in 1..Len(start) : start[i] = text[i]
  <2>1. Len(start) \in A
    <3> HIDE DEF A
    <3> QED BY <1>0, <1>8
  <2> QED BY <1>0, <2>1
<1>10. ASSUME Len(start) # Len(text) PROVE text[Len(start) + 1] \in S
  <2> SUFFICES ASSUME text[Len(start) + 1] \notin S PROVE FALSE
    OBVIOUS
  <2> DEFINE n == Len(start)
             d == h[n]
             w == d[Len(d)]
  <2>1. n \in 0..(Len(text) - 1) /\ text[n + 1] \notin S
    BY <1>0, <1>9, <1>10
  <2>2. /\ Len(d) \in Nat \ {0} /\ Len(t[Len(d)]) # Len(w)
    <3>1. ShowsNext(t, h[n], text[n + 1], S)
      <4> HIDE DEF n
      <4> QED BY <1>2, <2>1, SegmentsShowNext DEF t
    <3> QED BY <2>1, <3>1 DEF ShowsNext
  <2>3. d = s
    BY <1>3, <1>9
  <2> HIDE DEF d, n
  <2>4. s[Len(d)] = w /\ s[Len(d)] = t[Len(d)]
    <3>1. Len(d) \in 1..Len(s)
      BY <1>3, <2>2, <2>3
    <3> QED BY <1>4, <2>3, <3>1
  <2> QED BY <2>2, <2>4
<1> QED BY <1>9, <1>10 DEF IsBeginning

\* Where there is nothing to resolve a rule grants all that it means.
THEOREM PlainIsGranted ==
  ASSUME NEW P, NEW rule \in Seq(P), NEW text \in Seq(P),
         IsPlain(Trim(rule)), IsPlain(text), MeansPath(rule, text)
  PROVE  GrantsPath(rule, text) /\ ~HasParentTraversal(text) /\ Decoded(text) = text
<1> DEFINE dir == Trim(rule)
           S == {"/"}
           s == Split(dir, S)
           t == Split(text, S)
           W == Seq(P)
<1>0. dir \in Seq(P) /\ IsPlain(dir)
  BY TrimType
<1>1. IsPrefix(Directories(dir), Directories(text))
  BY DEF MeansPath, LeadsInto
<1> HIDE DEF dir
<1>2. Directories(dir) = Resolved(s) /\ Directories(text) = Resolved(t)
  <2>1. Root(dir) = "posix" /\ Root(text) = "posix"
    BY <1>0 DEF IsPlain, Root, IsWindowsAbsolute
  <2> QED BY <2>1 DEF Directories
<1>3. s \in Seq(W) /\ t \in Seq(W)
  <2> HIDE DEF S
  <2> QED BY <1>0, SplitType
<1>4. /\ Len(s) \in Nat \ {0} /\ s[1] = <<>> /\ \A k \in 2..Len(s) : s[k] \notin {<<>>, <<".">>, <<"..">>}
      /\ Len(t) \in Nat \ {0} /\ t[1] = <<>> /\ \A k \in 2..Len(t) : t[k] \notin {<<>>, <<".">>, <<"..">>}
  BY <1>0, PlainSegments
<1>5. IsBeginning(dir, text, S)
  <2> HIDE DEF s, t, W
  <2>1. ASSUME NEW u \in Seq(W), Len(u) \in Nat \ {0}, u[1] = <<>>,
               \A k \in 2..Len(u) : u[k] \notin {<<>>, <<".">>, <<"..">>}
        PROVE  /\ Resolved(u) \in Seq(W) /\ Len(Resolved(u)) = Len(u) - 1
               /\ \A k \in 1..(Len(u) - 1) : Resolved(u)[k] = u[k + 1]
    <3>1. Len(u) > 0
      BY <2>1
    <3> QED BY <2>1, <3>1, NothingToResolve
  <2>2. /\ Resolved(s) \in Seq(W) /\ Len(Resolved(s)) = Len(s) - 1 /\ \A k \in 1..(Len(s) - 1) : Resolved(s)[k] = s[k + 1]
        /\ Resolved(t) \in Seq(W) /\ Len(Resolved(t)) = Len(t) - 1 /\ \A k \in 1..(Len(t) - 1) : Resolved(t)[k] = t[k + 1]
    BY <1>3, <1>4, <2>1
  <2>3. /\ Len(Resolved(s)) <= Len(Resolved(t))
        /\ \A k \in 1..Len(Resolved(s)) : Resolved(s)[k] = Resolved(t)[k]
    BY <1>1, <1>2, <2>2, PrefixIs
  <2>4. Len(s) <= Len(t)
    BY <1>4, <2>2, <2>3
  <2>5. ASSUME NEW k \in 1..Len(s) PROVE s[k] = t[k]
    <3>1. CASE k = 1
      BY <1>4, <3>1
    <3>2. CASE k # 1
      <4>1. k - 1 \in 1..(Len(s) - 1) /\ k - 1 \in 1..(Len(t) - 1) /\ k - 1 + 1 = k
        BY <1>4, <2>4, <3>2
      <4> QED BY <2>2, <2>3, <4>1
    <3> QED BY <3>1, <3>2
  <2>6. \A x, y \in S : x = y
    OBVIOUS
  <2> HIDE DEF S
  <2> QED BY <1>0, <2>4, <2>5, <2>6, SegmentsTellTheText DEF s, t
<1>6. TrimEnd(dir, S) = dir
  <2>1. PICK e \in 0..Len(dir) : TrimEnd(dir, S) = SubSeq(dir, 1, e) /\ \A i \in (e + 1)..Len(dir) : dir[i] \in S
    <3> HIDE DEF S
    <3> QED BY <1>0, TrimEndIs
  <2>2. Len(dir) \in Nat /\ Len(dir) > 1 /\ dir[Len(dir)] \notin S
    BY <1>0 DEF IsPlain, Last
  <2>3. e = Len(dir)
    <3> HIDE DEF S
    <3>1. e + 1 \in (e + 1)..Len(dir) \/ e = Len(dir)
      BY <2>2
    <3>2. Len(dir) \in (e + 1)..Len(dir) \/ e = Len(dir)
      BY <2>2
    <3> QED BY <2>1, <2>2, <3>2
  <2>4. SubSeq(dir, 1, Len(dir)) = dir
    BY <1>0, SubSeqFull
  <2> QED BY <2>1, <2>3, <2>4
<1>7. PathWithin(dir, text)
  <2>1. IsPrefix(dir, text)
    BY <1>0, <1>5, PrefixIs DEF IsBeginning
  <2> QED BY <1>5, <2>1 DEF PathWithin, IsBeginning
<1>8. ~IsWindowsAbsolute(dir) /\ dir # <<>>
  BY <1>0 DEF IsPlain, IsWindowsAbsolute
<1>9. GrantsPath(rule, text)
  BY <1>6, <1>7, <1>8 DEF GrantsPath, dir
<1>10. ~HasParentTraversal(text)
  <2>1. \A i : ~IsAlone(text, AnySlash, "..", i)
    BY DEF IsAlone, IsPlain
  <2>2. ".." \notin AnySlash
    BY DEF AnySlash
  <2>3. ~\E k \in 1..Len(Split(text, AnySlash)) : Split(text, AnySlash)[k] = <<"..">>
    BY <2>1, <2>2, AloneIs
  <2> QED BY <2>3, SplitType DEF HasParentTraversal
<1>11. Decoded(text) = text
  BY DEF Decoded, HasLiteralPrefix, IsPlain
<1> QED BY <1>9, <1>10, <1>11

--------------------------------------------------------------------------------
(***************************************************************************)
(* What is enforced are rules, and an act has passed its checks under them. *)
(***************************************************************************)
GrantInv(i) ==
  /\ request[i] = Nothing => pc[i] = "done" /\ did[i] = Nothing
  /\ pc[i] \in {"check", "write"} =>
       IsPolicyEdit(request[i]) /\ (request[i].action = "init" \/ IsPolicy(rules[i]))
  /\ IsCommand(request[i]) /\ pc[i] \in {"decide", "secret", "act", "audit"} =>
       rules[i] = Off \/ IsPolicyFile(rules[i])
  /\ did[i] # Nothing => (rules[i] = Off \/ IsPolicy(rules[i])) /\ Passed(i)

GrantsInv == IsPolicyFile(policy) /\ \A i \in Invocations : GrantInv(i)

\* A decoded path has the pieces of the path.
LEMMA DecodedType ==
  ASSUME NEW P, NEW path \in Seq(P)
  PROVE  Decoded(path) \in Seq(P)
BY DEF Decoded, HasLiteralPrefix

\* An edit of a policy makes a policy.
LEMMA EditedPolicy ==
  ASSUME NEW r, IsPolicyEdit(r), NEW file, r.action = "init" \/ IsPolicy(file)
  PROVE  IsPolicy(NextPolicy(r, file))
<1>1. CASE r.action = "init"
  <2>1. NextPolicy(r, file) = NoRules
    BY <1>1 DEF NextPolicy
  <2> QED BY <2>1 DEF NoRules, IsPolicy, RuleKinds
<1>2. CASE r.action \in {"enable", "disable"}
  <2>1. PICK flag : NextPolicy(r, file) = [file EXCEPT !.enabled = flag]
    BY <1>2 DEF NextPolicy
  <2>2. DOMAIN NextPolicy(r, file) = DOMAIN file /\ \A kind \in RuleKinds : kind # "enabled"
    BY <2>1 DEF RuleKinds
  <2>3. IsPolicy(file)
    BY <1>2
  <2>4. \A kind \in RuleKinds : NextPolicy(r, file)[kind] = file[kind]
    BY <2>1, <2>2, <2>3 DEF IsPolicy
  <2> QED BY <2>2, <2>3, <2>4 DEF IsPolicy
<1>3. CASE r.action \in {"allow", "remove"}
  <2>1. PICK new : /\ NextPolicy(r, file) = [file EXCEPT ![r.kind] = new]
                   /\ new \subseteq file[r.kind] \cup {RuleOf(r)}
    <3>1. CASE r.action = "allow"
      BY <3>1 DEF NextPolicy
    <3>2. CASE r.action = "remove"
      BY <3>2 DEF NextPolicy
    <3> QED BY <1>3, <3>1, <3>2
  <2>2. IsPolicy(file) /\ DOMAIN NextPolicy(r, file) = DOMAIN file
    BY <1>3, <2>1
  <2>3. ASSUME NEW kind \in RuleKinds PROVE NextPolicy(r, file)[kind] \subseteq Seq(Pieces)
    <3>1. CASE kind # r.kind
      BY <2>1, <2>2, <3>1 DEF IsPolicy
    <3>2. CASE kind = r.kind
      <4>1. r.rule \in Seq(Pieces)
        BY <1>3, <3>2 DEF IsPolicyEdit, RuleKinds
      <4>2. RuleOf(r) \in Seq(Pieces)
        BY <4>1, DecodedType DEF RuleOf
      <4>3. NextPolicy(r, file)[kind] = new /\ file[kind] \subseteq Seq(Pieces)
        BY <2>1, <2>2, <3>2 DEF IsPolicy
      <4> QED BY <2>1, <3>2, <4>2, <4>3
    <3> QED BY <3>1, <3>2
  <2> QED BY <2>2, <2>3 DEF IsPolicy
<1> QED BY <1>1, <1>2, <1>3 DEF IsPolicyEdit

\* The rules of others stay what they are.
LEMMA GrantStays ==
  ASSUME NEW j \in Invocations, Same(j), GrantInv(j)
  PROVE  GrantInv(j)'
<1>1. Passed(j)' = Passed(j)
  BY DEF Same, Passed
<1> QED BY <1>1 DEF Same, GrantInv

LEMMA OwnPolicy ==
  ASSUME NEW i \in Invocations, Own(i), IsPolicyFile(policy), GrantInv(i)
  PROVE  IsPolicyFile(policy)'
<1>1. policy' = policy \/ WritePolicy(i)
  BY FileFrame DEF ChooseBackend, diskVars
<1>2. CASE WritePolicy(i)
  <2>1. policy' = NextPolicy(request[i], rules[i]) /\ pc[i] = "write"
    BY <1>2 DEF WritePolicy, Goto
  <2>2. IsPolicy(policy')
    BY <2>1, EditedPolicy DEF GrantInv
  <2> QED BY <2>2 DEF IsPolicyFile
<1> QED BY <1>1, <1>2 DEF IsPolicyFile

LEMMA OwnGrant ==
  ASSUME Shape, NEW i \in Invocations, Own(i), LockInv(i), ReadInv(i), DecisionInv(i), RecordInv(i),
         Asked(i), IsPolicyFile(policy), GrantInv(i)
  PROVE  GrantInv(i)'
<1> USE DEF Shape, IsFunction, Goto, readVars, traceVars, diskVars
<1>0. request' = request
  BY DEF Own, Start, Perform, Record, Edit, ChooseBackend, AcquireLock, LockTimeout, LoadConfig, Return,
     ReadPolicy, Decide, ReadSecret, SecretMissing, Act, ActFails, RecordAudit, AuditFails,
     LoadPolicy, CheckRevision, WritePolicy, WriteFails, EditAccount, EditFails, Crash
<1>a. request[i] # Nothing
  <2>1. pc[i] # "done"
    BY DEF Own, Start, Perform, Record, Edit, ChooseBackend, AcquireLock, LockTimeout, LoadConfig, Return,
       ReadPolicy, Decide, ReadSecret, SecretMissing, Act, ActFails, RecordAudit, AuditFails,
       LoadPolicy, CheckRevision, WritePolicy, WriteFails, EditAccount, EditFails, Crash, Live
  <2> QED BY <2>1 DEF GrantInv
\* A step that reads no rules and does nothing on a server.
<1>1. ASSUME did'[i] = did[i], rules'[i] = rules[i],
             pc'[i] \in {"check", "write"} => pc[i] \in {"check", "write"},
             IsCommand(request[i]) /\ pc'[i] \in {"decide", "secret", "act", "audit"} =>
               pc[i] \in {"decide", "secret", "act", "audit"},
             did[i] = Nothing \/ (base'[i] = base[i] /\ local'[i] = local[i])
      PROVE  GrantInv(i)'
  <2>1. did[i] # Nothing => Passed(i)' = Passed(i)
    BY <1>0, <1>1 DEF Passed
  <2> QED BY <1>0, <1>a, <1>1, <2>1 DEF GrantInv
<1>2. pc[i] \in Pending => did[i] = Nothing
  BY DEF RecordInv
<1>3. CASE Start(i)
  <2>1. /\ did' = did /\ rules' = rules /\ local' = local
        /\ pc'[i] \in {"lock", "load", "return", "edit", "rules", "done"}
        /\ pc[i] \in Pending \/ base' = base
    BY <1>3 DEF Start, ChooseBackend, AcquireLock, LockTimeout, LoadConfig, Return, Pending
  <2> QED BY <1>1, <1>2, <2>1
<1>4. CASE ReadPolicy(i)
  <2>1. /\ pc[i] = "rules" /\ did' = did /\ rules'[i] = ResolvePolicy(policy, request[i].forced)
        /\ pc'[i] \notin {"check", "write"}
    BY <1>4 DEF ReadPolicy, AfterDecision
  <2>2. rules'[i] = Off \/ IsPolicyFile(rules'[i])
    BY <2>1 DEF ResolvePolicy, IsPolicyFile
  <2>3. did[i] = Nothing
    BY <1>2, <2>1 DEF Pending
  <2> QED BY <1>0, <1>a, <2>1, <2>2, <2>3 DEF GrantInv, IsPolicyFile, IsPolicy
<1>5. CASE Decide(i) \/ ReadSecret(i) \/ SecretMissing(i) \/ ActFails(i)
  <2>1. /\ pc[i] \in {"decide", "secret", "act"} /\ did' = did /\ rules' = rules
        /\ pc'[i] \in {"secret", "act", "audit", "return"}
    BY <1>5 DEF Decide, AfterDecision, ReadSecret, SecretMissing, ActFails
  <2> QED BY <1>1, <1>2, <2>1 DEF Pending
<1>6. CASE Act(i)
  <2>1. /\ pc[i] = "act" /\ pc'[i] = "audit" /\ UNCHANGED <<base, rules, local>>
    BY <1>6 DEF Act
  <2>2. Passed(i) /\ rules[i] \notin {Broken, Missing}
    BY <2>1 DEF DecisionInv, ReadInv
  <2>3. IsCommand(request[i])
    BY <2>1 DEF LockInv, IsCommand
  <2>4. rules[i] = Off \/ IsPolicy(rules[i])
    BY <2>1, <2>2, <2>3 DEF GrantInv, IsPolicyFile
  <2>5. Passed(i)'
    BY <1>0, <2>1, <2>2 DEF Passed
  <2> QED BY <1>0, <1>a, <2>1, <2>4, <2>5 DEF GrantInv, IsPolicyFile, IsPolicy
<1>7. CASE Record(i) \/ Crash(i)
  BY <1>1, <1>7 DEF Record, RecordAudit, AuditFails, Crash
<1>8. CASE LoadPolicy(i)
  <2>1. /\ pc[i] = "load" /\ did' = did /\ rules'[i] = policy /\ request[i].op = "policy"
        /\ pc'[i] \in {"audit", "check"}
        /\ pc'[i] = "check" => policy # Broken /\ (policy = Missing) = (request[i].action = "init")
    BY <1>8 DEF LoadPolicy
  <2>2. IsPolicyEdit(request[i]) /\ ~IsCommand(request[i])
    BY <1>a, <2>1 DEF Asked, IsRequest, IsCommand
  <2>3. pc'[i] = "check" => request[i].action = "init" \/ IsPolicy(rules'[i])
    BY <2>1 DEF IsPolicyFile
  <2>4. did[i] = Nothing
    BY <1>2, <2>1 DEF Pending
  <2> QED BY <1>0, <1>a, <2>1, <2>2, <2>3, <2>4 DEF GrantInv, IsPolicy
<1>9. CASE Edit(i) /\ ~LoadPolicy(i)
  <2>1. /\ did' = did /\ rules' = rules /\ base' = base /\ local' = local
        /\ pc[i] \in {"edit", "check", "write"}
        /\ pc'[i] \in {"write", "audit"} /\ (pc'[i] = "write" => pc[i] = "check")
    BY <1>9 DEF Edit, CheckRevision, WritePolicy, WriteFails, EditAccount, EditFails
  <2>2. ~IsCommand(request[i])
    BY <2>1 DEF LockInv, Mutates, IsCommand
  <2> QED BY <1>1, <2>1, <2>2
<1> QED BY <1>3, <1>4, <1>5, <1>6, <1>7, <1>8, <1>9 DEF Own, Perform

LEMMA GrantsInit == Init => GrantsInv
<1> SUFFICES ASSUME Init PROVE GrantsInv
  OBVIOUS
<1>1. PICK s \in Scenarios :
        /\ policy = s.policy /\ request = s.requests
        /\ pc = [i \in Invocations |-> IF s.requests[i] = Nothing THEN "done" ELSE "start"]
  BY DEF Init
<1>2. IsPolicyFile(policy)
  BY <1>1, AccessAssumption
<1>3. ASSUME NEW i \in Invocations PROVE GrantInv(i)
  <2>1. pc[i] \in {"start", "done"} /\ did[i] = Nothing
    BY <1>1 DEF Init
  <2>2. request[i] = Nothing => pc[i] = "done"
    BY <1>1
  <2> QED BY <2>1, <2>2 DEF GrantInv
<1> QED BY <1>2, <1>3 DEF GrantsInv

LEMMA GrantsStep == AccessInv /\ TruthInv /\ GrantsInv /\ [Next]_vars => GrantsInv'
<1> SUFFICES ASSUME AccessInv, TruthInv, GrantsInv, [Next]_vars PROVE GrantsInv'
  OBVIOUS
<1>1. ASSUME NEW i \in Invocations, Own(i) PROVE GrantsInv'
  <2>1. IsPolicyFile(policy)'
    BY <1>1, OwnPolicy DEF GrantsInv
  <2>2. GrantInv(i)'
    BY <1>1, OwnGrant DEF AccessInv, PartInv, TruthInv, GrantsInv
  <2>3. ASSUME NEW j \in Invocations \ {i} PROVE GrantInv(j)'
    BY <1>1, StepFrame, GrantStays DEF AccessInv, GrantsInv
  <2> QED BY <2>1, <2>2, <2>3 DEF GrantsInv
<1>2. CASE UserEditsPolicy \/ UserEditsConfig \/ LocalFileChanges \/ UNCHANGED vars
  <2>1. policy' = policy \/ policy' \in EditedPolicies
    BY <1>2 DEF UserEditsPolicy, UserEditsConfig, LocalFileChanges, vars, diskVars
  <2>2. IsPolicyFile(policy)'
    BY <2>1, AccessAssumption DEF GrantsInv, IsPolicyFile
  <2>3. ASSUME NEW j \in Invocations PROVE GrantInv(j)'
    <3>1. Same(j)
      BY <1>2 DEF UserEditsPolicy, UserEditsConfig, LocalFileChanges, vars, Same, readVars
    <3> QED BY <3>1, GrantStays DEF GrantsInv
  <2> QED BY <2>2, <2>3 DEF GrantsInv
<1> QED BY <1>1, <1>2 DEF Next, AllDone, Own

THEOREM GrantsInvariant == Spec => [](AccessInv /\ TruthInv /\ GrantsInv)
<1>1. Init => AccessInv /\ TruthInv /\ GrantsInv
  BY AccessInit, TruthInit, GrantsInit
<1>2. (AccessInv /\ TruthInv /\ GrantsInv) /\ [Next]_vars => (AccessInv /\ TruthInv /\ GrantsInv)'
  BY AccessStep, TruthStep, GrantsStep
<1> QED BY <1>1, <1>2, PTL DEF Spec

\* Under a policy what a command does is within the meaning of its rules.
LEMMA TouchedIsMeant ==
  ASSUME NEW r, IsCommand(r), r.text \in Seq(Pieces), NEW c, NEW p, IsPolicy(p), p # Off, NEW fileReady,
         Failing(Checks(r, c, p, fileReady)) = {}, NEW text \in Touched(r)
  PROVE  CASE r.op = "run" -> MeansCommands(p.commands, text) \/ MistakesAssignment(p.commands, text)
           [] r.op = "put" -> \E rule \in p.puts : MeansPath(rule, text)
           [] r.op = "get" -> \E rule \in p.gets : MeansPath(rule, text)
<1> DEFINE path == Decoded(r.text)
<1>1. path \in Seq(Pieces) /\ "/" \in Pieces /\ "." \in Pieces /\ "temporary" \in Pieces
  BY DecodedType, AccessAssumption
<1>2. p.commands \subseteq Seq(Pieces) /\ p.puts \subseteq Seq(Pieces) /\ p.gets \subseteq Seq(Pieces)
  BY DEF IsPolicy, RuleKinds
<1> HIDE DEF path
<1>3. CASE r.op = "run"
  <2>1. CheckCommand(p, r.text)
    BY <1>3, CheckedRun DEF Checks
  <2>2. PICK rule \in p.commands : GrantsCommand(rule, r.text)
    BY <2>1 DEF CheckCommand
  <2>3. MeansCommands(p.commands, r.text) \/ MistakesAssignment(p.commands, r.text)
    BY <2>2, GrantedCommandIsMeant
  <2>4. text = r.text
    BY <1>3 DEF Touched
  <2> QED BY <1>3, <2>3, <2>4
<1>4. CASE r.op = "get"
  <2>1. CheckGet(p, path)
    BY <1>4, CheckedGet DEF Checks, path
  <2>2. PICK rule \in p.gets : GrantsPath(rule, path) /\ ~HasParentTraversal(path)
    BY <2>1 DEF CheckGet, AllowsPath
  <2>3. MeansPath(rule, path)
    BY <1>1, <1>2, <2>2, GrantedPathIsMeant
  <2>4. text = path
    BY <1>4 DEF Touched, path
  <2> QED BY <1>4, <2>3, <2>4
<1>5. CASE r.op = "put"
  <2>1. CheckPut(p, path) /\ (r.atomic => HasParent(path) /\ CheckPut(p, ParentPath(path)))
    BY <1>5, CheckedPut DEF Checks, path
  <2>2. CASE text = path
    <3>1. PICK rule \in p.puts : GrantsPath(rule, path) /\ ~HasParentTraversal(path)
      BY <2>1 DEF CheckPut, AllowsPath
    <3>2. MeansPath(rule, path)
      BY <1>1, <1>2, <3>1, GrantedPathIsMeant
    <3> QED BY <1>5, <2>2, <3>2
  <2>3. CASE r.atomic /\ text = TemporaryPath(path)
    <3> DEFINE dir == ParentPath(path)
    <3>1. dir \in Seq(Pieces)
      BY <1>1, ParentPathType
    <3>2. PICK rule \in p.puts : GrantsPath(rule, dir) /\ ~HasParentTraversal(dir)
      BY <2>1, <2>3 DEF CheckPut, AllowsPath
    <3>3. MeansPath(rule, dir)
      BY <1>1, <1>2, <3>1, <3>2, GrantedPathIsMeant
    <3>4. text \in Seq(Pieces) /\ LeadsInto(dir, text)
      BY <1>1, <2>1, <2>3, <3>2, TemporaryIsBeside
    <3>5. MeansPath(rule, text)
      BY <1>2, <3>1, <3>3, <3>4, LeadsOn
    <3> QED BY <1>5, <3>5
  <2>4. text = path \/ (r.atomic /\ text = TemporaryPath(path))
    BY <1>5 DEF Touched, path
  <2> QED BY <2>2, <2>3, <2>4
<1> QED BY <1>3, <1>4, <1>5 DEF IsCommand

\* A get that the policy refuses, and not for its account, is refused for its path.
LEMMA RefusedForItsPath ==
  ASSUME NEW r, NEW c, NEW p, NEW fileReady, ~AccountDenied(r, c, p),
         Failing(GetChecks(r, c, p, fileReady)) # {},
         Execution(GetChecks(r, c, p, fileReady)).kind = "policy"
  PROVE  ~CheckGet(p, Decoded(r.text))
<1> DEFINE checks == GetChecks(r, c, p, fileReady)
           failing == Failing(checks)
           first == CHOOSE k \in failing : \A m \in failing : k <= m
<1>1. /\ DOMAIN checks = 1..8
      /\ checks[1].kind = "config" /\ checks[2].kind = "usage" /\ checks[3].kind = "config"
      /\ checks[4].kind = "config" /\ checks[6].kind = "io" /\ checks[7].kind = "config"
      /\ checks[5].fails = ~CheckGet(p, Decoded(r.text)) /\ checks[8].fails = AccountDenied(r, c, p)
  BY DEF GetChecks, Fatal
<1> HIDE DEF checks
<1>2. failing \subseteq 1..8 /\ \A k \in failing : checks[k].fails
  BY <1>1 DEF Failing
<1>3. failing # {} /\ failing \subseteq Nat
  BY <1>2 DEF checks
<1> HIDE DEF failing
<1>4. first \in failing
  BY <1>3, LeastNumber
<1>5. checks[first].kind = "policy"
  BY <1>3 DEF Execution, Verdict, checks, failing
<1> HIDE DEF first
<1>6. first \in {5, 8}
  BY <1>1, <1>2, <1>4, <1>5
<1>7. checks[first].fails
  BY <1>2, <1>4
<1> QED BY <1>1, <1>6, <1>7

\* The rules as command_match() and path_match() read them grant no more than
\* they say, whatever the separators, dots and drives of a text, and no less
\* where there is nothing to resolve; the one exception is a program's name that
\* ends an assignment before the program.
THEOREM RulesMeanWhatTheySay == Spec => []ActsAreGranted
<1>1. ASSUME TruthInv, GrantsInv PROVE ActsAreGranted
  <2> SUFFICES ASSUME NEW i \in Invocations
               PROVE  /\ did[i] # Nothing /\ rules[i] # Off =>
                           \A text \in did[i].touched :
                             CASE request[i].op = "run" -> \/ MeansCommands(rules[i].commands, text)
                                                           \/ MistakesAssignment(rules[i].commands, text)
                               [] request[i].op = "put" -> \E rule \in rules[i].puts : MeansPath(rule, text)
                               [] request[i].op = "get" -> \E rule \in rules[i].gets : MeansPath(rule, text)
                      /\ /\ request[i] # Nothing /\ request[i].op = "get" /\ pc[i] = "audit" /\ did[i] = Nothing
                         /\ rules[i] \notin {Off, Broken, Missing} /\ IsRegistered(request[i], base[i])
                         /\ ~AccountDenied(request[i], base[i], rules[i]) /\ IsPlain(request[i].text)
                         /\ outcome[i].kind = "policy"
                         => ~\E rule \in rules[i].gets : IsPlain(Trim(rule)) /\ MeansPath(rule, request[i].text)
    BY DEF ActsAreGranted
  <2>0. DecisionInv(i) /\ RecordInv(i) /\ Asked(i) /\ GrantInv(i)
    BY <1>1 DEF TruthInv, GrantsInv
  <2>1. request[i] # Nothing /\ IsCommand(request[i]) => request[i].text \in Seq(Pieces)
    BY <2>0 DEF Asked, IsRequest, IsPolicyEdit, IsCommand
  <2>2. ASSUME did[i] # Nothing, rules[i] # Off, NEW text \in did[i].touched
        PROVE  CASE request[i].op = "run" -> \/ MeansCommands(rules[i].commands, text)
                                             \/ MistakesAssignment(rules[i].commands, text)
                 [] request[i].op = "put" -> \E rule \in rules[i].puts : MeansPath(rule, text)
                 [] request[i].op = "get" -> \E rule \in rules[i].gets : MeansPath(rule, text)
    <3>1. /\ IsCommand(request[i]) /\ text \in Touched(request[i]) /\ IsPolicy(rules[i])
          /\ Failing(Checks(request[i], base[i], rules[i], local[i])) = {}
      BY <2>0, <2>2 DEF RecordInv, Deed, GrantInv, Passed
    <3>2. request[i] # Nothing
      BY <2>0, <2>2 DEF GrantInv
    <3> QED BY <2>1, <2>2, <3>1, <3>2, TouchedIsMeant
  <2>3. ASSUME request[i] # Nothing, request[i].op = "get", pc[i] = "audit", did[i] = Nothing,
               rules[i] \notin {Off, Broken, Missing},
               ~AccountDenied(request[i], base[i], rules[i]), IsPlain(request[i].text),
               outcome[i].kind = "policy",
               NEW rule \in rules[i].gets, IsPlain(Trim(rule)), MeansPath(rule, request[i].text)
        PROVE  FALSE
    <3>1. IsCommand(request[i]) /\ request[i].text \in Seq(Pieces)
      BY <2>1, <2>3 DEF IsCommand
    <3>2. IsPolicy(rules[i])
      BY <2>0, <2>3, <3>1 DEF GrantInv, IsPolicyFile
    <3>3. rule \in Seq(Pieces)
      BY <2>3, <3>2 DEF IsPolicy, RuleKinds
    <3>4. CheckGet(rules[i], Decoded(request[i].text))
      BY <2>3, <3>1, <3>3, PlainIsGranted DEF CheckGet, AllowsPath
    <3>5. Decided(i) /\ ~request[i].check
      BY <2>0, <2>3, <3>1 DEF DecisionInv
    <3>6. Checks(request[i], base[i], rules[i], local[i]) = GetChecks(request[i], base[i], rules[i], local[i])
      BY <2>3 DEF Checks
    <3>7. ~Passed(i) /\ outcome[i] = Execution(GetChecks(request[i], base[i], rules[i], local[i]))
      BY <2>3, <3>5, <3>6 DEF Decided
    <3>8. Failing(GetChecks(request[i], base[i], rules[i], local[i])) # {}
      BY <3>6, <3>7 DEF Passed
    <3>9. ~CheckGet(rules[i], Decoded(request[i].text))
      BY <2>3, <3>7, <3>8, RefusedForItsPath
    <3> QED BY <3>4, <3>9
  <2> QED BY <2>2, <2>3
<1> QED BY <1>1, GrantsInvariant, PTL
================================================================================
