------------------------------- MODULE ConfigOps -------------------------------
(***************************************************************************)
(* The contents of servers.json and what each command that edits it plans  *)
(* to do: the config it will publish, the keyring entry it creates first   *)
(* and the keyring entries it deletes once the config is published.        *)
(*                                                                         *)
(* Maps are total functions whose unregistered keys hold Absent.  A name   *)
(* of a server is its rank in the order of the BTreeMap that holds it.     *)
(***************************************************************************)
EXTENDS Naturals

CONSTANTS
  Servers,    \* names of servers, as their rank in the map's key order
  Users,      \* login users
  Targets,    \* users a privilege setting switches to
  Endpoints,  \* host and port of a server
  Agent,      \* the SSH-agent form of auth
  AnyUser,    \* the user of a legacy key, which names no user
  Absent      \* a missing map entry or a None

(***************************************************************************)
(* A credential is the key string sshw:v3:<home>:<purpose>:<server>:<user>:*)
(* <generation>, or a legacy key that has neither user nor generation.     *)
(* The home's token is the same in every key of one home.                  *)
(***************************************************************************)
Credential == [purpose : {"login", "privilege"}, server : Servers,
               user : Users \cup {AnyUser}, gen : Nat]

\* The keyring addresses an entry by its credential and a user.
Slot == Credential \X (Users \cup Targets)

Privilege == [method : {"sudo", "su"}, user : Targets,
              credential : Credential \cup {Absent}]
Account == [auth : Credential \cup {Agent}, privilege : Privilege \cup {Absent}]
Server == [endpoint : Endpoints, defaultUser : Users,
           accounts : [Users -> Account \cup {Absent}]]
Config == [default : Servers \cup {Absent},
           servers : [Servers -> Server \cup {Absent}]]

ASSUME ConfigAssumption ==
  /\ Servers \subseteq Nat
  /\ \A S \in SUBSET Servers : S # {} => \E n \in S : \A m \in S : n <= m
  /\ Absent \notin Servers \cup Credential \cup Privilege \cup Account \cup Server
  /\ Agent \notin Credential
  /\ AnyUser \notin Users

EmptyConfig == [default |-> Absent, servers |-> [n \in Servers |-> Absent]]

Registered(cfg) == {n \in Servers : cfg.servers[n] # Absent}
HasAccount(cfg, n, u) == cfg.servers[n] # Absent /\ cfg.servers[n].accounts[u] # Absent

--------------------------------------------------------------------------------
(***************************************************************************)
(* The keyring entries a config refers to.                                 *)
(***************************************************************************)
LoginSlots(u, account) ==
  IF account.auth = Agent THEN {} ELSE {<<account.auth, u>>}

PrivilegeSlots(privilege) ==
  IF privilege = Absent THEN {}
  ELSE IF privilege.credential = Absent THEN {}
  ELSE {<<privilege.credential, privilege.user>>}

AccountSlots(u, account) ==
  IF account = Absent THEN {}
  ELSE LoginSlots(u, account) \cup PrivilegeSlots(account.privilege)

StoredCredentials(server) ==
  IF server = Absent THEN {}
  ELSE UNION {AccountSlots(u, server.accounts[u]) : u \in Users}

Refs(cfg) == UNION {StoredCredentials(cfg.servers[n]) : n \in Servers}

--------------------------------------------------------------------------------
(***************************************************************************)
(* What load_active_config accepts.                                        *)
(***************************************************************************)
OwnsKey(purpose, n, u, credential) ==
  /\ credential.purpose = purpose
  /\ credential.server = n
  /\ credential.user \in {u, AnyUser}

ValidPrivilege(n, u, privilege) ==
  privilege # Absent =>
    IF privilege.credential = Absent THEN privilege.method = "sudo"
    ELSE OwnsKey("privilege", n, u, privilege.credential)

ValidAccount(n, u, account) ==
  account # Absent =>
    /\ account.auth # Agent => OwnsKey("login", n, u, account.auth)
    /\ ValidPrivilege(n, u, account.privilege)

\* Purpose and server are part of a key that is owned, so that only two
\* accounts of one server can name the same one.
NoKeyCollision(server) ==
  \A u, v \in Users : u # v =>
    \A s \in AccountSlots(u, server.accounts[u]), t \in AccountSlots(v, server.accounts[v]) :
      s[1] # t[1]

ValidServer(n, server) ==
  server # Absent =>
    /\ server.accounts[server.defaultUser] # Absent
    /\ \A u \in Users : ValidAccount(n, u, server.accounts[u])
    /\ NoKeyCollision(server)

ValidConfig(cfg) ==
  /\ cfg.default \in Registered(cfg) \cup {Absent}
  /\ \A n \in Servers : ValidServer(n, cfg.servers[n])

--------------------------------------------------------------------------------
(***************************************************************************)
(* The plans of the commands.  changed is FALSE when the handler saves     *)
(* nothing.                                                                *)
(***************************************************************************)
Plan == [next : Config, created : SUBSET Slot, stale : SUBSET Slot, changed : BOOLEAN]

\* Fault: the key of an account is always the same.
NewCredentialReused(purpose, n, u, gen) ==
  [purpose |-> purpose, server |-> n, user |-> u, gen |-> 0]

NewCredential(purpose, n, u, gen) ==
  [purpose |-> purpose, server |-> n, user |-> u, gen |-> gen]

PutServer(cfg, n, server) == [cfg EXCEPT !.servers = [@ EXCEPT ![n] = server]]

PutAccount(cfg, n, u, account) ==
  PutServer(cfg, n,
    [cfg.servers[n] EXCEPT !.accounts = [@ EXCEPT ![u] = account]])

KeptPrivilege(account) == IF account = Absent THEN Absent ELSE account.privilege

AuthFor(n, u, password, gen) ==
  IF password THEN NewCredential("login", n, u, gen) ELSE Agent

AuthSlots(n, u, password, gen) ==
  IF password THEN {<<NewCredential("login", n, u, gen), u>>} ELSE {}

AddServerAllowed(cfg, n, e, replace) ==
  cfg.servers[n] # Absent /\ ~replace => cfg.servers[n].endpoint = e

\* Fault: all the entries of the previous server are deleted.
AddServerForgetsKept(cfg, n, u, e, password, replace, gen) ==
  LET prev == cfg.servers[n]
      kept == IF prev = Absent \/ replace THEN [v \in Users |-> Absent] ELSE prev.accounts
      account == [auth |-> AuthFor(n, u, password, gen), privilege |-> KeptPrivilege(kept[u])]
      server == [endpoint |-> e, defaultUser |-> u, accounts |-> [kept EXCEPT ![u] = account]]
      next == [PutServer(cfg, n, server) EXCEPT !.default = IF @ = Absent THEN n ELSE @]
  IN  [next |-> next, created |-> AuthSlots(n, u, password, gen),
       stale |-> StoredCredentials(prev), changed |-> password \/ next # cfg]

AddServerPlan(cfg, n, u, e, password, replace, gen) ==
  LET prev == cfg.servers[n]
      kept == IF prev = Absent \/ replace THEN [v \in Users |-> Absent] ELSE prev.accounts
      account == [auth |-> AuthFor(n, u, password, gen), privilege |-> KeptPrivilege(kept[u])]
      server == [endpoint |-> e, defaultUser |-> u, accounts |-> [kept EXCEPT ![u] = account]]
      next == [PutServer(cfg, n, server) EXCEPT !.default = IF @ = Absent THEN n ELSE @]
  IN  [next |-> next,
       created |-> AuthSlots(n, u, password, gen),
       stale |-> StoredCredentials(prev) \ StoredCredentials(server),
       changed |-> password \/ next # cfg]

AddAccountPlan(cfg, n, u, password, gen) ==
  LET prev == cfg.servers[n].accounts[u]
      account == [auth |-> AuthFor(n, u, password, gen), privilege |-> KeptPrivilege(prev)]
      next == PutAccount(cfg, n, u, account)
  IN  [next |-> next,
       created |-> AuthSlots(n, u, password, gen),
       stale |-> IF prev = Absent THEN {} ELSE LoginSlots(u, prev) \ LoginSlots(u, account),
       changed |-> password \/ next # cfg]

DefaultAccountPlan(cfg, n, u) ==
  LET next == PutServer(cfg, n, [cfg.servers[n] EXCEPT !.defaultUser = u])
  IN  [next |-> next, created |-> {}, stale |-> {}, changed |-> next # cfg]

\* Fault: the privilege entry of the account is left behind.
RemoveAccountLoginOnly(cfg, n, u) ==
  [next |-> PutAccount(cfg, n, u, Absent), created |-> {},
   stale |-> LoginSlots(u, cfg.servers[n].accounts[u]), changed |-> TRUE]

RemoveAccountPlan(cfg, n, u) ==
  [next |-> PutAccount(cfg, n, u, Absent), created |-> {},
   stale |-> AccountSlots(u, cfg.servers[n].accounts[u]), changed |-> TRUE]

DefaultServerPlan(cfg, n) ==
  LET next == [cfg EXCEPT !.default = n]
  IN  [next |-> next, created |-> {}, stale |-> {}, changed |-> next # cfg]

FirstServer(S) == IF S = {} THEN Absent ELSE CHOOSE n \in S : \A m \in S : n <= m

\* Fault: the default still names the server that was removed.
RemoveServerKeepsDefault(cfg, n) ==
  [next |-> PutServer(cfg, n, Absent), created |-> {},
   stale |-> StoredCredentials(cfg.servers[n]), changed |-> TRUE]

RemoveServerPlan(cfg, n) ==
  [next |-> [PutServer(cfg, n, Absent) EXCEPT
               !.default = IF @ = n THEN FirstServer(Registered(cfg) \ {n}) ELSE @],
   created |-> {}, stale |-> StoredCredentials(cfg.servers[n]), changed |-> TRUE]

\* method is sudo when noPassword is given: the handler refuses su.
SetPrivilegePlan(cfg, n, u, method, target, noPassword, gen) ==
  LET account == cfg.servers[n].accounts[u]
      prev == account.privilege
      privilege == [method |-> method, user |-> target,
                    credential |-> IF noPassword THEN Absent
                                   ELSE NewCredential("privilege", n, u, gen)]
      next == PutAccount(cfg, n, u, [account EXCEPT !.privilege = privilege])
  IN  [next |-> next,
       created |-> PrivilegeSlots(privilege),
       stale |-> PrivilegeSlots(prev) \ PrivilegeSlots(privilege),
       changed |-> ~noPassword \/ next # cfg]

ClearPrivilegePlan(cfg, n, u) ==
  LET account == cfg.servers[n].accounts[u]
      next == PutAccount(cfg, n, u, [account EXCEPT !.privilege = Absent])
  IN  [next |-> next, created |-> {}, stale |-> PrivilegeSlots(account.privilege),
       changed |-> account.privilege # Absent]
================================================================================
