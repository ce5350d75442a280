-------------------------------- MODULE Access ---------------------------------
(***************************************************************************)
(* From the command line to the act: how an invocation chooses its         *)
(* credential backend, reads config and policy, decides, acts and writes   *)
(* its audit entry (cli.rs, cli/transfer.rs, sandbox.rs, audit.rs), while  *)
(* others edit policy and accounts (cli/policy_cmd.rs, cli/account.rs) and *)
(* the user edits the files by hand. Nothing but the editing commands      *)
(* holds the home's lock.                                                  *)
(*                                                                         *)
(* A policy file is Missing, Broken or a record of an enabled flag and     *)
(* rules. A config has a default server, a credential backend, and for     *)
(* each server a default user and accounts; auth is the generation of the  *)
(* account's password, or 0 for an agent.                                  *)
(***************************************************************************)
EXTENDS PolicyRules

CONSTANTS
  Invocations,
  Scenarios,       \* first policy, config, requests, and number of hand edits
  EditedPolicies,  \* what the user may put in place of policy.json
  Pieces,          \* what texts are made of
  Missing, Broken, Off, NoName, NoProc

\* No value yet.
Nothing == <<>>

\* A command that acts on a server, and what it is given on the command line.
IsCommand(r) == r.op \in {"run", "put", "get"}
Fields(op) ==
  {"op", "name", "user", "text", "yes", "forced", "check"}
  \cup (IF op = "run" THEN {"asRoot", "noPassword", "stream"} ELSE {})
  \cup (IF op = "put" THEN {"atomic"} ELSE {})

\* A command that changes policy.json or servers.json, as the command line has it.
RuleKinds == {"commands", "puts", "gets"}
IsPolicyEdit(r) ==
  /\ r.op = "policy"
  /\ \/ r.action \in {"init", "enable", "disable"}
     \/ /\ r.action \in {"allow", "remove"}
        /\ r.kind # "accounts" => r.kind \in RuleKinds /\ r.rule \in Seq(Pieces)
IsRequest(r) ==
  \/ r.op = "account"
  \/ IsPolicyEdit(r)
  \/ /\ IsCommand(r) /\ Fields(r.op) \subseteq DOMAIN r /\ r.text \in Seq(Pieces)
     /\ r.op = "run" /\ r.check => ~r.stream   \* a preflight takes no --stream

IsPolicy(p) == RuleKinds \subseteq DOMAIN p /\ \A kind \in RuleKinds : p[kind] \subseteq Seq(Pieces)
IsPolicyFile(file) == file \in {Broken, Missing} \/ IsPolicy(file)

\* A home starts with a config that names a backend, or with one that is broken.
ASSUME AccessAssumption ==
  /\ NoProc \notin Invocations /\ Missing # Broken
  /\ {"/", ".", "temporary"} \subseteq Pieces
  /\ \A file \in EditedPolicies : IsPolicyFile(file)
  /\ \A s \in Scenarios :
       /\ IsPolicyFile(s.policy)
       /\ \/ s.config = Broken
          \/ "backend" \in DOMAIN s.config /\ s.config.backend \in {"native", "session_only"}
       /\ \A i \in Invocations : s.requests[i] = Nothing \/ IsRequest(s.requests[i])

VARIABLES
  policy, config,  \* policy.json and servers.json
  keyring,         \* generations of the passwords in the OS keyring
  issued,          \* the last generation given to a password
  ready,           \* the local file can be read (put), or is not there (get)
  lock,            \* holder of .sshw.lock
  request,         \* the command of each invocation
  pc,
  backend,         \* the credential backend it has chosen
  base,            \* the config it has loaded
  rules,           \* the rules it enforces, or the policy it edits
  local,           \* readiness of its local file when it looked
  outcome,         \* its result: status, kind of error, warning
  did,             \* what it did on a server, if anything
  audit,           \* its entry in audit.jsonl, if any
  seen,            \* the policies and configs since it started, and the first config
  edits,           \* hand edits left
  raced            \* editors whose revision check a hand edit has overtaken

diskVars == <<policy, config, keyring, issued, ready>>
readVars == <<backend, base, rules, local>>
traceVars == <<seen, edits, raced>>
vars == <<diskVars, lock, request, pc, readVars, outcome, did, audit, traceVars>>

Undecided == [status |-> "none", kind |-> "none", warned |-> FALSE]
Live(i) == pc[i] \notin {"start", "done"}

Init ==
  /\ \E s \in Scenarios :
       /\ policy = s.policy /\ config = s.config
       /\ keyring = s.keyring /\ issued = s.issued
       /\ request = s.requests /\ edits = s.edits /\ ready \in s.ready
       /\ pc = [i \in Invocations |-> IF s.requests[i] = Nothing THEN "done" ELSE "start"]
  /\ lock = NoProc
  /\ backend = [i \in Invocations |-> "native"]
  /\ base = [i \in Invocations |-> Nothing]
  /\ rules = [i \in Invocations |-> Nothing]
  /\ local = [i \in Invocations |-> FALSE]
  /\ outcome = [i \in Invocations |-> Undecided]
  /\ did = [i \in Invocations |-> Nothing]
  /\ audit = [i \in Invocations |-> Nothing]
  /\ seen = [i \in Invocations |-> [policies |-> {}, configs |-> {}, first |-> Nothing]]
  /\ raced = {}

Goto(i, from, to) == pc[i] = from /\ pc' = [pc EXCEPT ![i] = to]
Give(i, status, kind) ==
  outcome' = [outcome EXCEPT ![i] = [status |-> status, kind |-> kind, warned |-> FALSE]]
Mutates(r) == r.op \in {"policy", "account"}
Witness ==
  seen' = [i \in Invocations |->
            IF Live(i) THEN [policies |-> seen[i].policies \cup {policy'},
                             configs |-> seen[i].configs \cup {config'},
                             first |-> seen[i].first]
            ELSE seen[i]]

--------------------------------------------------------------------------------
(***************************************************************************)
(* Decisions.                                                              *)
(***************************************************************************)
ResolvePolicy(file, forced) ==
  CASE file = Broken -> Broken
    [] file = Missing -> IF forced THEN Missing ELSE Off
    [] OTHER -> IF forced \/ file.enabled THEN file ELSE Off

CheckCommand(p, command) == p = Off \/ \E rule \in p.commands : GrantsCommand(rule, command)
CheckPut(p, path) == p = Off \/ AllowsPath(p.puts, path)
CheckGet(p, path) == p = Off \/ AllowsPath(p.gets, path)
CheckAccount(p, name, user, isDefault) ==
  p = Off \/ isDefault \/ <<name, user>> \in p.accounts

ServerName(r, c) == IF r.name = NoName THEN c.default ELSE r.name
LoginUser(r, c) ==
  IF r.user = NoName THEN c.servers[ServerName(r, c)].user ELSE r.user
IsRegistered(r, c) ==
  /\ ServerName(r, c) \in DOMAIN c.servers
  /\ LoginUser(r, c) \in DOMAIN c.servers[ServerName(r, c)].accounts
AccountOf(r, c) == c.servers[ServerName(r, c)].accounts[LoginUser(r, c)]
AccountDenied(r, c, p) ==
  /\ IsRegistered(r, c)
  /\ ~CheckAccount(p, ServerName(r, c), LoginUser(r, c),
                   LoginUser(r, c) = c.servers[ServerName(r, c)].user)

\* A check and the kind of error when it fails. A preflight goes on after a
\* check that is not fatal.
Fatal(kind, fails) == [kind |-> kind, fails |-> fails, fatal |-> TRUE]
Denial(kind, fails) == [kind |-> kind, fails |-> fails, fatal |-> FALSE]

RunChecks(r, c, p) ==
  <<Fatal("config", ServerName(r, c) \notin DOMAIN c.servers),
    Fatal("usage", Trim(r.text) = <<>>),
    Denial("safety", ~r.yes /\ NeedsConfirmation(r.text)),
    Denial("policy", ~CheckCommand(p, r.text)),
    Fatal("config", ~IsRegistered(r, c)),
    Denial("policy", AccountDenied(r, c, p)),
    Fatal("usage", /\ IsRegistered(r, c) /\ r.stream /\ r.asRoot
                   /\ AccountOf(r, c).privilege = "su"),
    Denial("config", /\ IsRegistered(r, c)
                     /\ LET privilege == AccountOf(r, c).privilege IN
                        \/ r.asRoot /\ ~r.noPassword /\ privilege = "none"
                        \/ r.noPassword /\ privilege = "su")>>

\* Fault: --atomic needs no rule for the directory.
PutChecksNoParent(r, c, p, fileReady) ==
  LET path == Decoded(r.text) IN
  <<Fatal("config", ServerName(r, c) = NoName),
    Fatal("usage", r.text = <<>>),
    Fatal("config", ~IsDecodable(r.text)),
    Fatal("safety", ~r.yes /\ WritesSystemPath(path)),
    Fatal("policy", ~CheckPut(p, path)),
    Fatal("config", r.atomic /\ ~HasParent(path)),
    Fatal("config", ~IsRegistered(r, c)),
    Fatal("policy", AccountDenied(r, c, p)),
    Fatal("io", ~fileReady)>>

PutChecks(r, c, p, fileReady) ==
  LET path == Decoded(r.text) IN
  <<Fatal("config", ServerName(r, c) = NoName),
    Fatal("usage", r.text = <<>>),
    Fatal("config", ~IsDecodable(r.text)),
    Fatal("safety", ~r.yes /\ WritesSystemPath(path)),
    Fatal("policy", ~CheckPut(p, path)),
    Fatal("config", r.atomic /\ ~HasParent(path)),
    Fatal("policy", r.atomic /\ HasParent(path) /\ ~CheckPut(p, ParentPath(path))),
    Fatal("config", ~IsRegistered(r, c)),
    Fatal("policy", AccountDenied(r, c, p)),
    Fatal("io", ~fileReady)>>

GetChecks(r, c, p, fileReady) ==
  <<Fatal("config", ServerName(r, c) = NoName),
    Fatal("usage", r.text = <<>>),
    Fatal("config", ~IsDecodable(r.text)),
    Fatal("config", ServerName(r, c) \notin DOMAIN c.servers),
    Fatal("policy", ~CheckGet(p, Decoded(r.text))),
    Fatal("io", ~fileReady /\ ~r.yes),
    Fatal("config", ~IsRegistered(r, c)),
    Fatal("policy", AccountDenied(r, c, p))>>

Checks(r, c, p, fileReady) ==
  CASE r.op = "run" -> RunChecks(r, c, p)
    [] r.op = "put" -> PutChecks(r, c, p, fileReady)
    [] r.op = "get" -> GetChecks(r, c, p, fileReady)

Failing(checks) == {k \in DOMAIN checks : checks[k].fails}
Verdict(checks, reported) ==
  IF reported = {} THEN [status |-> "ok", kind |-> "none", warned |-> FALSE]
  ELSE LET first == CHOOSE k \in reported : \A m \in reported : k <= m
       IN  [status |-> "error", kind |-> checks[first].kind, warned |-> FALSE]

\* Fault: the check that ended a preflight is its result.
PreflightFatal(checks) ==
  LET fatal == {k \in Failing(checks) : checks[k].fatal}
  IN  Verdict(checks, IF fatal = {} THEN Failing(checks) ELSE fatal)

\* A preflight collects the denials before the first fatal check; its exit code
\* is that of the first.
Preflight(checks) ==
  LET fatal == {k \in Failing(checks) : checks[k].fatal}
  IN  Verdict(checks, {k \in Failing(checks) : \A m \in fatal : k <= m})

\* A command stops at the first check that fails.
Execution(checks) == Verdict(checks, Failing(checks))

--------------------------------------------------------------------------------
(***************************************************************************)
(* The start of an invocation.                                             *)
(***************************************************************************)
\* The backend is that of a config read without the lock, native if it cannot
\* be read.
ChooseBackend(i) ==
  /\ Goto(i, "start", IF Mutates(request[i]) THEN "lock" ELSE "load")
  /\ backend' = [backend EXCEPT ![i] = IF config = Broken THEN "native" ELSE config.backend]
  /\ seen' = [seen EXCEPT ![i] = [policies |-> {policy}, configs |-> {config}, first |-> config]]
  /\ UNCHANGED <<diskVars, lock, request, base, rules, local, outcome, did, audit, edits, raced>>

\* Fault: an editing command does not wait for the lock.
AcquireLockFree(i) ==
  /\ Goto(i, "lock", "load")
  /\ UNCHANGED <<diskVars, lock, request, readVars, outcome, did, audit, traceVars>>

AcquireLock(i) ==
  /\ Goto(i, "lock", "load")
  /\ lock = NoProc
  /\ lock' = i
  /\ UNCHANGED <<diskVars, request, readVars, outcome, did, audit, traceVars>>

\* A command that does not get the lock leaves no audit entry.
LockTimeout(i) ==
  /\ Goto(i, "lock", "return")
  /\ lock # NoProc
  /\ Give(i, "error", IF request[i].op = "policy" THEN "policy" ELSE "config")
  /\ UNCHANGED <<diskVars, lock, request, readVars, did, audit, traceVars>>

LoadConfig(i) ==
  /\ pc[i] = "load" /\ request[i].op # "policy"
  /\ Goto(i, "load", IF config = Broken THEN "return"
                     ELSE IF request[i].op = "account" THEN "edit" ELSE "rules")
  /\ base' = [base EXCEPT ![i] = config]
  /\ IF config = Broken THEN Give(i, "error", "config") ELSE UNCHANGED outcome
  /\ UNCHANGED <<diskVars, lock, request, backend, rules, local, did, audit, traceVars>>

Return(i) ==
  /\ Goto(i, "return", "done")
  /\ lock' = IF lock = i THEN NoProc ELSE lock
  /\ UNCHANGED <<diskVars, request, readVars, outcome, did, audit, traceVars>>

--------------------------------------------------------------------------------
(***************************************************************************)
(* run, put and get, and their preflights.                                 *)
(***************************************************************************)
AfterDecision(i) == IF request[i].check THEN "return" ELSE "audit"

\* Fault: a policy that cannot be read is taken for none.
ReadPolicyOpen(i) ==
  LET p == ResolvePolicy(policy, request[i].forced) IN
  /\ Goto(i, "rules", "decide")
  /\ rules' = [rules EXCEPT ![i] = IF p \in {Broken, Missing} THEN Off ELSE p]
  /\ UNCHANGED <<diskVars, lock, request, backend, base, local, outcome, did, audit, traceVars>>

ReadPolicy(i) ==
  LET p == ResolvePolicy(policy, request[i].forced) IN
  /\ Goto(i, "rules", IF p \in {Broken, Missing} THEN AfterDecision(i) ELSE "decide")
  /\ IF p \in {Broken, Missing} THEN Give(i, "error", "policy") ELSE UNCHANGED outcome
  /\ rules' = [rules EXCEPT ![i] = p]
  /\ UNCHANGED <<diskVars, lock, request, backend, base, local, did, audit, traceVars>>

Decide(i) ==
  LET checks == Checks(request[i], base[i], rules[i], ready)
      verdict == IF request[i].check THEN Preflight(checks) ELSE Execution(checks)
  IN  /\ Goto(i, "decide", IF verdict.status = "ok" /\ ~request[i].check THEN "secret"
                           ELSE AfterDecision(i))
      /\ outcome' = [outcome EXCEPT ![i] =
                       IF verdict.status = "ok" /\ ~request[i].check THEN Undecided ELSE verdict]
      /\ local' = [local EXCEPT ![i] = ready]
      /\ UNCHANGED <<diskVars, lock, request, backend, base, rules, did, audit, traceVars>>

\* A session-only password comes from the environment, and may not be there; so
\* may the password of a privilege.
HasSecret(i) ==
  LET auth == AccountOf(request[i], base[i]).auth
  IN  auth = 0 \/ backend[i] = "session_only" \/ auth \in keyring
MayMissSecret(i) ==
  \/ ~HasSecret(i)
  \/ backend[i] = "session_only"
  \/ request[i].op = "run" /\ request[i].asRoot /\ ~request[i].noPassword

ReadSecret(i) ==
  /\ Goto(i, "secret", "act")
  /\ HasSecret(i)
  /\ UNCHANGED <<diskVars, lock, request, readVars, outcome, did, audit, traceVars>>

SecretMissing(i) ==
  /\ Goto(i, "secret", "audit")
  /\ MayMissSecret(i)
  /\ Give(i, "error", "auth")
  /\ UNCHANGED <<diskVars, lock, request, readVars, did, audit, traceVars>>

\* What it names on the server: a command, or the paths that it reads or writes.
Touched(r) ==
  CASE r.op = "run" -> {r.text}
    [] r.op = "put" /\ r.atomic -> {Decoded(r.text), TemporaryPath(Decoded(r.text))}
    [] OTHER -> {Decoded(r.text)}

\* The connection is made and used; it can fail before or after something was
\* done. A command that returns another code than 0 is a success of sshw.
Act(i) ==
  /\ Goto(i, "act", "audit")
  /\ did' = [did EXCEPT ![i] = [server |-> ServerName(request[i], base[i]),
                                user |-> LoginUser(request[i], base[i]),
                                touched |-> Touched(request[i])]]
  /\ \E status \in {"ok", "error"} : Give(i, status, IF status = "ok" THEN "none" ELSE "ssh")
  /\ UNCHANGED <<diskVars, lock, request, readVars, audit, traceVars>>

ActFails(i) ==
  /\ Goto(i, "act", "audit")
  /\ Give(i, "error", "ssh")
  /\ UNCHANGED <<diskVars, lock, request, readVars, did, audit, traceVars>>

--------------------------------------------------------------------------------
(***************************************************************************)
(* Audit entries.                                                          *)
(***************************************************************************)
AuditDetail(r) ==
  CASE r.op = "run" -> CommandProgram(r.text)
    [] r.op \in {"put", "get"} -> Decoded(r.text)
    [] OTHER -> <<r.action>>

\* Fault: the entry names the user that was given, not the default.
AuditEntryAsGiven(r, c, result) ==
  [server |-> IF r.op = "policy" THEN NoName ELSE ServerName(r, c),
   user |-> IF r.op = "policy" THEN NoName ELSE r.user,
   detail |-> AuditDetail(r), status |-> result.status, kind |-> result.kind]

AuditEntry(r, c, result) ==
  [server |-> IF r.op = "policy" THEN NoName ELSE ServerName(r, c),
   user |-> IF r.op = "policy" THEN NoName
            ELSE IF r.user = NoName /\ ServerName(r, c) \in DOMAIN c.servers
                 THEN c.servers[ServerName(r, c)].user ELSE r.user,
   detail |-> AuditDetail(r), status |-> result.status, kind |-> result.kind]

RecordAudit(i) ==
  /\ Goto(i, "audit", "return")
  /\ audit' = [audit EXCEPT ![i] = AuditEntry(request[i], base[i], outcome[i])]
  /\ UNCHANGED <<diskVars, lock, request, readVars, outcome, did, traceVars>>

\* The log is locked for too long or cannot be written: the command goes on.
AuditFails(i) ==
  /\ Goto(i, "audit", "return")
  /\ UNCHANGED <<diskVars, lock, request, readVars, outcome, did, audit, traceVars>>

--------------------------------------------------------------------------------
(***************************************************************************)
(* Commands that edit the policy.                                          *)
(***************************************************************************)
NoRules == [enabled |-> FALSE, commands |-> {}, puts |-> {}, gets |-> {}, accounts |-> {}]

IsPathRule(r) == r.kind \in {"puts", "gets"}
RuleOf(r) == IF IsPathRule(r) THEN Decoded(r.rule) ELSE r.rule
\* A rule that would grant nothing, or nothing that can be told, is not added.
RefusedRule(r) ==
  /\ r.action = "allow" /\ r.kind # "accounts"
  /\ \/ Trim(RuleOf(r)) \in {<<>>, <<"*">>}
     \/ IsPathRule(r) /\ (TrimEnd(Trim(RuleOf(r)), {"/"}) = <<>> \/ HasParentTraversal(RuleOf(r)))
\* So is a path that cannot be decoded, or an account that is not registered.
UnknownRule(r, c) ==
  \/ IsPathRule(r) /\ HasLiteralPrefix(r.rule) /\ ~IsDecodable(r.rule)
  \/ /\ r.action = "allow" /\ r.kind = "accounts"
     /\ c = Broken \/ r.rule[1] \notin DOMAIN c.servers \/ r.rule[2] \notin DOMAIN c.servers[r.rule[1]].accounts

NextPolicy(r, file) ==
  CASE r.action = "init" -> NoRules
    [] r.action = "enable" -> [file EXCEPT !.enabled = TRUE]
    [] r.action = "disable" -> [file EXCEPT !.enabled = FALSE]
    [] r.action = "allow" -> [file EXCEPT ![r.kind] = @ \cup {RuleOf(r)}]
    [] r.action = "remove" -> [file EXCEPT ![r.kind] = @ \ {RuleOf(r)}]

LoadPolicy(i) ==
  LET r == request[i]
      denied == policy = Broken \/ (policy = Missing) # (r.action = "init")
      unknown == r.action \in {"allow", "remove"} /\ UnknownRule(r, config)
      refused == denied \/ unknown \/ (r.action \in {"allow", "remove"} /\ RefusedRule(r))
      unchanged == r.action # "init" /\ NextPolicy(r, policy) = policy
  IN  /\ pc[i] = "load" /\ r.op = "policy"
      /\ Goto(i, "load", IF refused \/ unchanged THEN "audit" ELSE "check")
      /\ IF refused THEN Give(i, "error", IF unknown /\ ~denied THEN "config" ELSE "policy")
         ELSE IF unchanged THEN Give(i, "ok", "none") ELSE UNCHANGED outcome
      /\ rules' = [rules EXCEPT ![i] = policy]
      /\ UNCHANGED <<diskVars, lock, request, backend, base, local, did, audit, traceVars>>

CheckRevision(i) ==
  /\ Goto(i, "check", IF policy = rules[i] THEN "write" ELSE "audit")
  /\ IF policy = rules[i] THEN UNCHANGED outcome ELSE Give(i, "error", "policy")
  /\ UNCHANGED <<diskVars, lock, request, readVars, did, audit, traceVars>>

\* The directory sync after the rename may fail: the policy is in place then.
WritePolicy(i) ==
  /\ Goto(i, "write", "audit")
  /\ policy' = NextPolicy(request[i], rules[i])
  /\ \E status \in {"ok", "error"} : Give(i, status, IF status = "ok" THEN "none" ELSE "policy")
  /\ UNCHANGED <<config, keyring, issued, ready, lock, request, readVars, did, audit, edits, raced>>
  /\ Witness

WriteFails(i) ==
  /\ Goto(i, "write", "audit")
  /\ Give(i, "error", "policy")
  /\ UNCHANGED <<diskVars, lock, request, readVars, did, audit, traceVars>>

--------------------------------------------------------------------------------
(***************************************************************************)
(* Commands that edit accounts, in one step (HomeStore has the detail).    *)
(***************************************************************************)
EditRefused(r, c) ==
  \/ r.name \notin DOMAIN c.servers
  \/ r.action # "add" /\ r.user \notin DOMAIN c.servers[r.name].accounts
  \/ r.action = "remove" /\ r.user = c.servers[r.name].user

NextServer(r, server, auth) ==
  LET rest == DOMAIN server.accounts \ {r.user}
      kept == IF r.user \in DOMAIN server.accounts THEN server.accounts[r.user].privilege ELSE "none"
  IN  CASE r.action = "default" -> [server EXCEPT !.user = r.user]
        [] r.action = "remove" -> [server EXCEPT !.accounts = [u \in rest |-> @[u]]]
        [] r.action = "add" ->
             [server EXCEPT !.accounts =
                [u \in rest \cup {r.user} |->
                   IF u = r.user THEN [auth |-> auth, privilege |-> kept] ELSE @[u]]]

\* Fault: the warning follows the config that was loaded.
WarnsByConfig(i) == request[i].password /\ base[i].backend = "session_only"
\* The user is told that a password was not stored.
Warns(i) == request[i].password /\ backend[i] = "session_only"

\* Fault: the keyring follows the config that was loaded.
KeyringAfterByConfig(i, auth, old) ==
  IF base[i].backend = "session_only" THEN keyring
  ELSE (keyring \ {old}) \cup (IF request[i].password THEN {auth} ELSE {})
\* The keyring is touched by the native backend only.
KeyringAfter(i, auth, old) ==
  IF backend[i] = "session_only" THEN keyring
  ELSE (keyring \ {old}) \cup (IF request[i].password THEN {auth} ELSE {})

EditAccount(i) ==
  LET r == request[i]
      server == base[i].servers[r.name]
      auth == IF r.password THEN issued + 1 ELSE 0
      old == IF r.action # "default" /\ r.user \in DOMAIN server.accounts
             THEN server.accounts[r.user].auth ELSE 0
  IN  /\ Goto(i, "edit", "audit")
      /\ ~EditRefused(r, base[i]) /\ config = base[i]
      /\ config' = [config EXCEPT !.servers[r.name] = NextServer(r, server, auth)]
      /\ keyring' = KeyringAfter(i, auth, old)
      /\ issued' = IF r.password THEN issued + 1 ELSE issued
      /\ outcome' = [outcome EXCEPT ![i] = [status |-> "ok", kind |-> "none", warned |-> Warns(i)]]
      /\ UNCHANGED <<policy, ready, lock, request, readVars, did, audit, edits, raced>>
      /\ Witness

\* Refused, the config was changed, or a call failed.
EditFails(i) ==
  /\ Goto(i, "edit", "audit")
  /\ Give(i, "error", "config")
  /\ UNCHANGED <<diskVars, lock, request, readVars, did, audit, traceVars>>

--------------------------------------------------------------------------------
(***************************************************************************)
(* The environment.                                                        *)
(***************************************************************************)
UserEditsPolicy ==
  /\ edits > 0 /\ edits' = edits - 1
  /\ policy' \in EditedPolicies \ {policy}
  /\ raced' = {i \in Invocations : pc[i] = "write"}
  /\ UNCHANGED <<config, keyring, issued, ready, lock, request, pc, readVars, outcome, did, audit>>
  /\ Witness

\* The user switches the credential backend, or breaks the file.
UserEditsConfig ==
  /\ edits > 0 /\ edits' = edits - 1
  /\ config # Broken
  /\ config' \in {Broken} \cup {[config EXCEPT !.backend = b] : b \in {"native", "session_only"} \ {config.backend}}
  /\ UNCHANGED <<policy, keyring, issued, ready, lock, request, pc, readVars, outcome, did, audit, raced>>
  /\ Witness

LocalFileChanges ==
  /\ edits > 0 /\ edits' = edits - 1
  /\ ready' = ~ready
  /\ UNCHANGED <<policy, config, keyring, issued, lock, request, pc, readVars, outcome, did, audit, seen, raced>>

Crash(i) ==
  /\ Live(i)
  /\ pc' = [pc EXCEPT ![i] = "done"]
  /\ lock' = IF lock = i THEN NoProc ELSE lock
  /\ UNCHANGED <<diskVars, request, readVars, outcome, did, audit, traceVars>>

AllDone == (\A i \in Invocations : pc[i] = "done") /\ UNCHANGED vars

Start(i) == ChooseBackend(i) \/ AcquireLock(i) \/ LockTimeout(i) \/ LoadConfig(i) \/ Return(i)
Perform(i) ==
  \/ ReadPolicy(i) \/ Decide(i) \/ ReadSecret(i) \/ SecretMissing(i) \/ Act(i) \/ ActFails(i)
Record(i) == RecordAudit(i) \/ AuditFails(i)
Edit(i) ==
  \/ LoadPolicy(i) \/ CheckRevision(i) \/ WritePolicy(i) \/ WriteFails(i)
  \/ EditAccount(i) \/ EditFails(i)

Next ==
  \/ \E i \in Invocations : Start(i) \/ Perform(i) \/ Record(i) \/ Edit(i) \/ Crash(i)
  \/ UserEditsPolicy \/ UserEditsConfig \/ LocalFileChanges
  \/ AllDone

Spec == Init /\ [][Next]_vars

--------------------------------------------------------------------------------
(***************************************************************************)
(* Properties.                                                             *)
(***************************************************************************)
\* What a policy file and a config say of a request, without the order of the
\* checks: a broken policy, or a missing one that was asked for, permits nothing.
Permits(r, c, file) ==
  LET p == ResolvePolicy(file, r.forced) IN
  /\ p \notin {Broken, Missing}
  /\ IsRegistered(r, c)
  /\ CheckAccount(p, ServerName(r, c), LoginUser(r, c), LoginUser(r, c) = c.servers[ServerName(r, c)].user)
  /\ r.op = "run" => CheckCommand(p, r.text) /\ (r.yes \/ ~NeedsConfirmation(r.text))
  /\ r.op = "put" =>
       /\ CheckPut(p, Decoded(r.text)) /\ (r.yes \/ ~WritesSystemPath(Decoded(r.text)))
       /\ r.atomic => CheckPut(p, ParentPath(Decoded(r.text)))
  /\ r.op = "get" => CheckGet(p, Decoded(r.text))

\* Whatever an invocation does on a server was permitted by a policy.json and a
\* servers.json that were in place at some moment since it started.
OnlyPermittedActs ==
  \A i \in Invocations : did[i] # Nothing =>
    \E c \in seen[i].configs, file \in seen[i].policies :
      /\ c # Broken /\ Permits(request[i], c, file)
      /\ did[i].server = ServerName(request[i], c) /\ did[i].user = LoginUser(request[i], c)

\* The rules mean what they say. Under a policy a command starts granted
\* programs only, except that an assignment before the program can be mistaken
\* for it, and a transfer stays in the granted
\* directories, wherever separators, dots and drives lead; and a path with
\* nothing to resolve is not refused inside a granted directory.
ActsAreGranted ==
  \A i \in Invocations :
    LET p == rules[i]  r == request[i] IN
    /\ did[i] # Nothing /\ p # Off =>
         \A text \in did[i].touched :
           CASE r.op = "run" -> MeansCommands(p.commands, text) \/ MistakesAssignment(p.commands, text)
             [] r.op = "put" -> \E rule \in p.puts : MeansPath(rule, text)
             [] r.op = "get" -> \E rule \in p.gets : MeansPath(rule, text)
    /\ r # Nothing /\ r.op = "get" /\ pc[i] = "audit" /\ did[i] = Nothing /\ p \notin {Off, Broken, Missing}
         /\ IsRegistered(r, base[i]) /\ ~AccountDenied(r, base[i], p) /\ IsPlain(r.text)
         /\ outcome[i].kind = "policy"
         => ~\E rule \in p.gets : IsPlain(Trim(rule)) /\ MeansPath(rule, r.text)

\* A preflight and the command it stands for, which has no --stream, come to the
\* same verdict when they find the same files, with the same exit code if it is
\* a refusal.
PreflightAgrees ==
  \A i, j \in Invocations :
    /\ request[i] # Nothing /\ request[j] # Nothing
    /\ IsCommand(request[i]) /\ request[i].check
    /\ request[j] = [request[i] EXCEPT !.check = FALSE]
    /\ pc[i] \in {"return", "done"} /\ pc[j] \in {"secret", "act", "audit"}
    /\ outcome[i].status # "none" /\ did[j] = Nothing
    /\ base[i] = base[j] /\ rules[i] = rules[j] /\ local[i] = local[j]
    => IF outcome[i].status = "ok" THEN outcome[j].kind \in {"none", "auth", "ssh"}
       ELSE outcome[j].kind = outcome[i].kind

\* An audit entry names the account that was used and the program or path, and
\* has the result that the user was given; an entry of success says it was done.
AuditTellsTheTruth ==
  \A i \in Invocations : audit[i] # Nothing =>
    /\ audit[i].status = outcome[i].status
    /\ did[i] # Nothing =>
         /\ audit[i].server = did[i].server /\ audit[i].user = did[i].user
         /\ IF request[i].op = "run"
            THEN \E text \in did[i].touched : \A k \in DOMAIN audit[i].detail :
                   audit[i].detail[k] = BaseName(CommandWords(text)[k])
            ELSE audit[i].detail \in did[i].touched
    /\ audit[i].status = "ok" /\ IsCommand(request[i]) => did[i] # Nothing

\* Two editors of the policy do not lose each other's changes: only a hand edit
\* between the revision check and the rename is lost.
NoPolicyEditLost ==
  [][\A i \in Invocations :
       pc[i] = "write" /\ policy' # policy /\ pc'[i] # "write" => policy = rules[i] \/ i \in raced]_vars

SessionOnly(c) == c # Broken /\ c.backend = "session_only"
\* The keyring is changed by an edit of the accounts only, and by none that has
\* found a session-only backend when it started. An edit that adds a password
\* stores it, or warns that it did not, whatever backend the config names by
\* the time it is loaded.
KeyringFollowsBackend ==
  [][/\ keyring' # keyring =>
          \E i \in Invocations : pc[i] = "edit" /\ pc'[i] = "audit" /\ ~SessionOnly(seen[i].first)
     /\ \A i \in Invocations :
          pc[i] = "edit" /\ pc'[i] = "audit" /\ outcome'[i].status = "ok" /\ request[i].password =>
            IF SessionOnly(seen[i].first) THEN outcome'[i].warned
            ELSE issued' \in keyring' /\ ~outcome'[i].warned]_vars
================================================================================
