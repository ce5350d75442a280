---------------------------- MODULE HomeStoreProofs ----------------------------
(***************************************************************************)
(* The home store is correct for every number of invocations, servers and  *)
(* users.  The first part says what the plans of the commands guarantee,   *)
(* for every config.  HomeInv is the inductive invariant behind what the   *)
(* home never loses, TidyInv the one behind what it never leaves behind.   *)
(***************************************************************************)
EXTENDS HomeStore, TLAPS

(***************************************************************************)
(* The plans of the commands.                                              *)
(***************************************************************************)
Accounts == [Users -> Account \cup {Absent}]

SlotsOf(A) == UNION {AccountSlots(u, A[u]) : u \in Users}

NoCollision(A) ==
  \A u, v \in Users : u # v =>
    \A s \in AccountSlots(u, A[u]), t \in AccountSlots(v, A[v]) : s[1] # t[1]

ValidAccounts(n, A) == (\A u \in Users : ValidAccount(n, u, A[u])) /\ NoCollision(A)

\* A config a command may start from: it loads, and no key has a generation
\* that is yet to be handed out.
Loaded(cfg, gen) ==
  /\ cfg \in Config
  /\ gen \in Nat
  /\ ValidConfig(cfg)
  /\ \A s \in Refs(cfg) : s[1].gen < gen

\* What every plan promises about the config it starts from: the config it
\* publishes loads, refers to what the plan creates, and differs from the old one
\* by exactly what is created and what is stale.
SafePlan(pl, cfg, gen) ==
  /\ pl \in Plan
  /\ \A s, t \in pl.created : s = t
  /\ \A s \in pl.created : s[1].gen = gen
  /\ pl.created \subseteq Refs(pl.next)
  /\ Refs(pl.next) \subseteq Refs(cfg) \cup pl.created
  /\ pl.stale \cap Refs(pl.next) = {}
  /\ pl.stale \subseteq Refs(cfg)
  /\ Refs(cfg) \subseteq Refs(pl.next) \cup pl.stale
  /\ ValidConfig(pl.next)

--------------------------------------------------------------------------------
\* The entries an account refers to are entries of the keyring.
LEMMA AccountSlotsType ==
  ASSUME NEW u \in Users, NEW account \in Account \cup {Absent}
  PROVE  AccountSlots(u, account) \subseteq Slot
<1>1. CASE account = Absent
  BY <1>1 DEF AccountSlots
<1>2. CASE account # Absent
  <2>1. account \in Account
    BY <1>2
  <2>2. LoginSlots(u, account) \subseteq Slot
    BY <2>1 DEF LoginSlots, Slot, Account
  <2>3. PrivilegeSlots(account.privilege) \subseteq Slot
    BY <2>1 DEF PrivilegeSlots, Slot, Account, Privilege
  <2> QED BY <1>2, <2>2, <2>3 DEF AccountSlots
<1> QED BY <1>1, <1>2

\* A key that validated names the server of the account that holds it.
LEMMA AccountSlotsOwned ==
  ASSUME NEW n \in Servers, NEW u \in Users, NEW account \in Account \cup {Absent},
         ValidAccount(n, u, account), NEW s \in AccountSlots(u, account)
  PROVE  s[1].server = n
<1>1. account # Absent
  BY DEF AccountSlots
<1>2. account \in Account
  BY <1>1
<1>3. CASE s \in LoginSlots(u, account)
  BY <1>1, <1>2, <1>3 DEF LoginSlots, ValidAccount, OwnsKey
<1>4. CASE s \in PrivilegeSlots(account.privilege)
  BY <1>1, <1>2, <1>4 DEF PrivilegeSlots, ValidAccount, ValidPrivilege, OwnsKey
<1> QED BY <1>1, <1>3, <1>4 DEF AccountSlots

\* Replacing one account of a server keeps its accounts valid, refers to no
\* entry but the new account's, and drops exactly what that account dropped,
\* if its keys are the old account's own or fresh.
LEMMA PutAccountLemma ==
  ASSUME NEW n \in Servers, NEW u \in Users, NEW A \in Accounts,
         NEW account \in Account \cup {Absent}, NEW gen \in Nat,
         ValidAccounts(n, A), ValidAccount(n, u, account),
         \A s \in SlotsOf(A) : s[1].gen < gen,
         \A s \in AccountSlots(u, account) :
            s \in AccountSlots(u, A[u]) \/ s[1].gen = gen
  PROVE  LET B == [A EXCEPT ![u] = account]
         IN  /\ B \in Accounts
             /\ ValidAccounts(n, B)
             /\ SlotsOf(B) \subseteq SlotsOf(A) \cup AccountSlots(u, account)
             /\ AccountSlots(u, account) \subseteq SlotsOf(B)
             /\ AccountSlots(u, A[u]) \subseteq SlotsOf(A)
             /\ SlotsOf(A) \subseteq SlotsOf(B) \cup AccountSlots(u, A[u])
             /\ (AccountSlots(u, A[u]) \ AccountSlots(u, account)) \cap SlotsOf(B) = {}
<1> DEFINE B == [A EXCEPT ![u] = account]
<1>1. B \in Accounts /\ B[u] = account /\ \A v \in Users \ {u} : B[v] = A[v]
  BY DEF Accounts
<1>2. \A v \in Users : ValidAccount(n, v, B[v])
  BY <1>1 DEF ValidAccounts
<1>3. \A v \in Users \ {u} : \A s \in AccountSlots(u, account), t \in AccountSlots(v, A[v]) :
        s[1] # t[1]
  <2> SUFFICES ASSUME NEW v \in Users \ {u},
                      NEW s \in AccountSlots(u, account), NEW t \in AccountSlots(v, A[v])
               PROVE  s[1] # t[1]
    OBVIOUS
  <2>1. t[1].gen < gen
    BY DEF SlotsOf
  <2>2. CASE s \in AccountSlots(u, A[u])
    BY <2>2 DEF ValidAccounts, NoCollision
  <2>3. CASE s[1].gen = gen
    <3> HIDE DEF AccountSlots
    <3>1. t \in Slot
      BY AccountSlotsType DEF Accounts
    <3> QED BY <2>1, <2>3, <3>1 DEF Slot, Credential
  <2> QED BY <2>2, <2>3
<1>4. NoCollision(B)
  BY <1>1, <1>3 DEF NoCollision, ValidAccounts
<1>5. /\ SlotsOf(B) \subseteq SlotsOf(A) \cup AccountSlots(u, account)
      /\ AccountSlots(u, account) \subseteq SlotsOf(B)
      /\ AccountSlots(u, A[u]) \subseteq SlotsOf(A)
      /\ SlotsOf(A) \subseteq SlotsOf(B) \cup AccountSlots(u, A[u])
  BY <1>1 DEF SlotsOf
<1>6. (AccountSlots(u, A[u]) \ AccountSlots(u, account)) \cap SlotsOf(B) = {}
  <2> SUFFICES ASSUME NEW s \in AccountSlots(u, A[u]), s \notin AccountSlots(u, account),
                      NEW v \in Users, s \in AccountSlots(v, B[v])
               PROVE  FALSE
    BY DEF SlotsOf
  <2>1. v # u
    BY <1>1
  <2> QED BY <1>1, <2>1 DEF ValidAccounts, NoCollision
<1> QED BY <1>1, <1>2, <1>4, <1>5, <1>6 DEF ValidAccounts

--------------------------------------------------------------------------------
\* The accounts of a registered server, as the lemma above speaks of them.
LEMMA ServerAccounts ==
  ASSUME NEW n \in Servers, NEW server \in Server
  PROVE  /\ server # Absent
         /\ server.accounts \in Accounts
         /\ StoredCredentials(server) = SlotsOf(server.accounts)
         /\ ValidServer(n, server) <=>
              server.accounts[server.defaultUser] # Absent /\ ValidAccounts(n, server.accounts)
<1>1. server # Absent
  BY ConfigAssumption
<1> QED
  BY <1>1 DEF Server, Accounts, StoredCredentials, SlotsOf, ValidServer, ValidAccounts,
              NoCollision, NoKeyCollision

\* The entries of a valid server are entries of the keyring under its name.
LEMMA StoredCredentialsOwned ==
  ASSUME NEW n \in Servers, NEW server \in Server \cup {Absent}, ValidServer(n, server),
         NEW s \in StoredCredentials(server)
  PROVE  s \in Slot /\ s[1].server = n
<1>1. server \in Server
  BY DEF StoredCredentials
<1>2. PICK u \in Users : s \in AccountSlots(u, server.accounts[u])
  BY <1>1, ServerAccounts DEF SlotsOf
<1>3. server.accounts[u] \in Account \cup {Absent} /\ ValidAccount(n, u, server.accounts[u])
  BY <1>1, ServerAccounts DEF Accounts, ValidAccounts
<1> QED BY <1>2, <1>3, AccountSlotsType, AccountSlotsOwned

LEMMA RefsAreSlots ==
  ASSUME NEW cfg \in Config, \A n \in Servers : ValidServer(n, cfg.servers[n])
  PROVE  Refs(cfg) \subseteq Slot
<1>1. \A n \in Servers : cfg.servers[n] \in Server \cup {Absent}
  BY DEF Config
<1> QED BY <1>1, StoredCredentialsOwned DEF Refs

\* Replacing one server of a config leaves the others valid, refers to no entry
\* but the new server's and drops those of the old one that the new one does
\* not refer to.
LEMMA PutServerLemma ==
  ASSUME NEW cfg \in Config, ValidConfig(cfg), NEW n \in Servers,
         NEW server \in Server \cup {Absent}, ValidServer(n, server),
         NEW next \in Config, next.servers = [cfg.servers EXCEPT ![n] = server]
  PROVE  /\ \A m \in Servers : ValidServer(m, next.servers[m])
         /\ Refs(next) \subseteq Refs(cfg) \cup StoredCredentials(server)
         /\ StoredCredentials(server) \subseteq Refs(next)
         /\ StoredCredentials(cfg.servers[n]) \subseteq Refs(cfg)
         /\ Refs(cfg) \subseteq Refs(next) \cup StoredCredentials(cfg.servers[n])
         /\ (StoredCredentials(cfg.servers[n]) \ StoredCredentials(server)) \cap Refs(next) = {}
<1>1. /\ \A m \in Servers : cfg.servers[m] \in Server \cup {Absent}
      /\ next.servers[n] = server
      /\ \A m \in Servers \ {n} : next.servers[m] = cfg.servers[m]
  BY DEF Config
<1>2. \A m \in Servers : ValidServer(m, next.servers[m])
  BY <1>1 DEF ValidConfig
<1>3. /\ Refs(next) \subseteq Refs(cfg) \cup StoredCredentials(server)
      /\ StoredCredentials(server) \subseteq Refs(next)
      /\ StoredCredentials(cfg.servers[n]) \subseteq Refs(cfg)
      /\ Refs(cfg) \subseteq Refs(next) \cup StoredCredentials(cfg.servers[n])
  BY <1>1 DEF Refs
<1>4. (StoredCredentials(cfg.servers[n]) \ StoredCredentials(server)) \cap Refs(next) = {}
  <2> SUFFICES ASSUME NEW s \in StoredCredentials(cfg.servers[n]),
                      s \notin StoredCredentials(server),
                      NEW m \in Servers, s \in StoredCredentials(next.servers[m])
               PROVE  FALSE
    BY DEF Refs
  <2>1. m # n
    BY <1>1
  <2>2. s[1].server = n
    BY <1>1, StoredCredentialsOwned DEF ValidConfig
  <2>3. s[1].server = m
    BY <1>1, <1>2, <2>1, StoredCredentialsOwned
  <2> QED BY <2>1, <2>2, <2>3
<1> QED BY <1>2, <1>3, <1>4

--------------------------------------------------------------------------------
\* A login entry and a privilege entry are never the same.
LEMMA SlotPurposes ==
  ASSUME NEW n \in Servers, NEW u \in Users, NEW account \in Account,
         ValidAccount(n, u, account)
  PROVE  /\ AccountSlots(u, account) =
              LoginSlots(u, account) \cup PrivilegeSlots(account.privilege)
         /\ \A s \in LoginSlots(u, account) : s[1].purpose = "login"
         /\ \A s \in PrivilegeSlots(account.privilege) : s[1].purpose = "privilege"
<1>1. account # Absent
  BY ConfigAssumption
<1> QED BY <1>1 DEF AccountSlots, LoginSlots, PrivilegeSlots, ValidAccount, ValidPrivilege, OwnsKey

LEMMA NewCredentialType ==
  ASSUME NEW purpose \in {"login", "privilege"}, NEW n \in Servers, NEW u \in Users,
         NEW gen \in Nat
  PROVE  LET c == NewCredential(purpose, n, u, gen)
         IN  /\ c \in Credential /\ c.gen = gen /\ OwnsKey(purpose, n, u, c)
             /\ c # Agent /\ c # Absent
<1>1. NewCredential(purpose, n, u, gen) \in Credential
  BY DEF NewCredential, Credential
<1> QED BY <1>1, ConfigAssumption DEF NewCredential, OwnsKey

\* What replacing one account of a registered server does to a loaded config.
LEMMA PutAccountOfConfig ==
  ASSUME NEW cfg, NEW gen, Loaded(cfg, gen),
         NEW n \in Registered(cfg), NEW u \in Users, NEW account \in Account \cup {Absent},
         ValidAccount(n, u, account),
         account = Absent => u # cfg.servers[n].defaultUser,
         \A s \in AccountSlots(u, account) :
            s \in AccountSlots(u, cfg.servers[n].accounts[u]) \/ s[1].gen = gen
  PROVE  LET next == PutAccount(cfg, n, u, account)
             old == cfg.servers[n].accounts[u]
         IN  /\ next \in Config
             /\ ValidConfig(next)
             /\ Refs(next) \subseteq Refs(cfg) \cup AccountSlots(u, account)
             /\ AccountSlots(u, account) \subseteq Refs(next)
             /\ AccountSlots(u, old) \subseteq Refs(cfg)
             /\ Refs(cfg) \subseteq Refs(next) \cup AccountSlots(u, old)
             /\ (AccountSlots(u, old) \ AccountSlots(u, account)) \cap Refs(next) = {}
<1> DEFINE prev == cfg.servers[n]
           next == PutAccount(cfg, n, u, account)
           server == [prev EXCEPT !.accounts = [@ EXCEPT ![u] = account]]
<1>1. n \in Servers /\ prev \in Server /\ cfg \in Config /\ gen \in Nat /\ ValidConfig(cfg)
  BY DEF Loaded, Registered, Config
<1>2. /\ prev.accounts \in Accounts /\ StoredCredentials(prev) = SlotsOf(prev.accounts)
      /\ prev.accounts[prev.defaultUser] # Absent /\ ValidAccounts(n, prev.accounts)
  BY <1>1, ServerAccounts DEF ValidConfig
<1>3. StoredCredentials(prev) \subseteq Refs(cfg)
  BY <1>1 DEF Refs
<1> DEFINE B == [prev.accounts EXCEPT ![u] = account]
<1>4. \A s \in SlotsOf(prev.accounts) : s[1].gen < gen
  BY <1>2, <1>3 DEF Loaded
<1>5. /\ B \in Accounts /\ ValidAccounts(n, B)
      /\ SlotsOf(B) \subseteq SlotsOf(prev.accounts) \cup AccountSlots(u, account)
      /\ AccountSlots(u, account) \subseteq SlotsOf(B)
      /\ AccountSlots(u, prev.accounts[u]) \subseteq SlotsOf(prev.accounts)
      /\ SlotsOf(prev.accounts) \subseteq SlotsOf(B) \cup AccountSlots(u, prev.accounts[u])
      /\ (AccountSlots(u, prev.accounts[u]) \ AccountSlots(u, account)) \cap SlotsOf(B) = {}
  <2> DEFINE A == prev.accounts
  <2>1. /\ n \in Servers /\ A \in Accounts /\ gen \in Nat /\ ValidAccounts(n, A)
        /\ \A s \in SlotsOf(A) : s[1].gen < gen
        /\ \A s \in AccountSlots(u, account) : s \in AccountSlots(u, A[u]) \/ s[1].gen = gen
    BY <1>1, <1>2, <1>4
  <2> HIDE DEF A
  <2>2. LET C == [A EXCEPT ![u] = account]
        IN  /\ C \in Accounts /\ ValidAccounts(n, C)
            /\ SlotsOf(C) \subseteq SlotsOf(A) \cup AccountSlots(u, account)
            /\ AccountSlots(u, account) \subseteq SlotsOf(C)
            /\ AccountSlots(u, A[u]) \subseteq SlotsOf(A)
            /\ SlotsOf(A) \subseteq SlotsOf(C) \cup AccountSlots(u, A[u])
            /\ (AccountSlots(u, A[u]) \ AccountSlots(u, account)) \cap SlotsOf(C) = {}
    BY <2>1, PutAccountLemma
  <2> QED BY <2>2 DEF A
<1>6. server \in Server /\ server.accounts = B /\ server.defaultUser = prev.defaultUser
  BY <1>1, <1>5 DEF Server, Accounts
<1>7. B[prev.defaultUser] # Absent
  BY <1>1, <1>2 DEF Accounts, Server
<1>8. StoredCredentials(server) = SlotsOf(B) /\ ValidServer(n, server)
  BY <1>1, <1>5, <1>6, <1>7, ServerAccounts
<1>9. /\ next \in Config /\ next.servers = [cfg.servers EXCEPT ![n] = server]
      /\ next.default = cfg.default
  BY <1>1, <1>6 DEF Config, PutAccount, PutServer
<1> HIDE DEF next, B, server
<1>10. /\ \A m \in Servers : ValidServer(m, next.servers[m])
       /\ Refs(next) \subseteq Refs(cfg) \cup StoredCredentials(server)
       /\ StoredCredentials(server) \subseteq Refs(next)
       /\ Refs(cfg) \subseteq Refs(next) \cup StoredCredentials(prev)
       /\ (StoredCredentials(prev) \ StoredCredentials(server)) \cap Refs(next) = {}
  BY <1>1, <1>6, <1>8, <1>9, PutServerLemma, ZenonT(60)
<1>11. next.default \in Registered(next) \cup {Absent}
  <2>1. Registered(cfg) \subseteq Registered(next)
    BY <1>1, <1>6, <1>9, ConfigAssumption DEF Registered, Config
  <2> QED BY <1>1, <1>9, <2>1 DEF ValidConfig
<1>12. ValidConfig(next)
  BY <1>10, <1>11 DEF ValidConfig
<1> QED BY <1>2, <1>3, <1>5, <1>8, <1>9, <1>10, <1>12 DEF next, prev

\* An account of a loaded config is valid, and its entries are referred to.
LEMMA LoadedAccount ==
  ASSUME NEW cfg, NEW gen, Loaded(cfg, gen), NEW n \in Registered(cfg), NEW u \in Users
  PROVE  LET account == cfg.servers[n].accounts[u]
         IN  /\ n \in Servers /\ gen \in Nat /\ cfg \in Config
             /\ cfg.servers[n] \in Server
             /\ account \in Account \cup {Absent}
             /\ ValidAccount(n, u, account)
             /\ Refs(cfg) \subseteq Slot
             /\ AccountSlots(u, account) \subseteq Refs(cfg)
<1>1. /\ n \in Servers /\ gen \in Nat /\ cfg \in Config /\ cfg.servers[n] \in Server
      /\ ValidConfig(cfg) /\ ValidServer(n, cfg.servers[n])
  BY DEF Loaded, Registered, Config, ValidConfig
<1>2. /\ cfg.servers[n].accounts \in Accounts
      /\ StoredCredentials(cfg.servers[n]) = SlotsOf(cfg.servers[n].accounts)
      /\ ValidAccounts(n, cfg.servers[n].accounts)
  BY <1>1, ServerAccounts
<1>3. Refs(cfg) \subseteq Slot
  BY <1>1, RefsAreSlots DEF ValidConfig
<1>4. AccountSlots(u, cfg.servers[n].accounts[u]) \subseteq Refs(cfg)
  BY <1>1, <1>2 DEF Refs, SlotsOf
<1> QED BY <1>1, <1>2, <1>3, <1>4 DEF Accounts, ValidAccounts

--------------------------------------------------------------------------------
\* account remove deletes what it should and leaves a config that loads.
THEOREM RemoveAccountSafe ==
  ASSUME NEW cfg, NEW gen, Loaded(cfg, gen), NEW n \in Registered(cfg), NEW u \in Users,
         cfg.servers[n].defaultUser # u
  PROVE  SafePlan(RemoveAccountPlan(cfg, n, u), cfg, gen)
<1> DEFINE next == PutAccount(cfg, n, u, Absent)
<1>1. ValidAccount(n, u, Absent) /\ AccountSlots(u, Absent) = {}
  BY DEF ValidAccount, AccountSlots
<1>2. /\ next \in Config /\ ValidConfig(next) /\ Refs(next) \subseteq Refs(cfg)
      /\ AccountSlots(u, cfg.servers[n].accounts[u]) \subseteq Refs(cfg)
      /\ Refs(cfg) \subseteq Refs(next) \cup AccountSlots(u, cfg.servers[n].accounts[u])
      /\ AccountSlots(u, cfg.servers[n].accounts[u]) \cap Refs(next) = {}
  BY <1>1, PutAccountOfConfig
<1>3. Refs(cfg) \subseteq Slot
  BY LoadedAccount
<1> HIDE DEF next
<1>4. RemoveAccountPlan(cfg, n, u) =
        [next |-> next, created |-> {},
         stale |-> AccountSlots(u, cfg.servers[n].accounts[u]), changed |-> TRUE]
  BY DEF RemoveAccountPlan, next
<1> QED BY <1>2, <1>3, <1>4 DEF SafePlan, Plan

\* The auth a registration stores, and the entry it creates for it.
LEMMA NewAuth ==
  ASSUME NEW n \in Servers, NEW u \in Users, NEW password \in BOOLEAN, NEW gen \in Nat,
         NEW privilege \in Privilege \cup {Absent}, ValidPrivilege(n, u, privilege)
  PROVE  LET account == [auth |-> AuthFor(n, u, password, gen), privilege |-> privilege]
         IN  /\ account \in Account /\ account # Absent
             /\ ValidAccount(n, u, account)
             /\ LoginSlots(u, account) = AuthSlots(n, u, password, gen)
             /\ AccountSlots(u, account) =
                  AuthSlots(n, u, password, gen) \cup PrivilegeSlots(privilege)
             /\ AuthSlots(n, u, password, gen) \subseteq Slot
             /\ \A s, t \in AuthSlots(n, u, password, gen) : s = t
             /\ \A s \in AuthSlots(n, u, password, gen) : s[1].gen = gen
<1> DEFINE account == [auth |-> AuthFor(n, u, password, gen), privilege |-> privilege]
           c == NewCredential("login", n, u, gen)
<1>1. c \in Credential /\ c.gen = gen /\ OwnsKey("login", n, u, c) /\ c # Agent
  BY NewCredentialType
<1> HIDE DEF c
<1>2. account.auth = (IF password THEN c ELSE Agent) /\ account.privilege = privilege
  BY DEF AuthFor, c
<1>3. account \in Account
  BY <1>1 DEF Account, AuthFor, c
<1>4. account # Absent
  BY <1>3, ConfigAssumption
<1>5. AuthSlots(n, u, password, gen) = IF password THEN {<<c, u>>} ELSE {}
  BY DEF AuthSlots, c
<1> HIDE DEF account
<1>6. ValidAccount(n, u, account)
  BY <1>1, <1>2 DEF ValidAccount
<1>7. LoginSlots(u, account) = AuthSlots(n, u, password, gen)
  BY <1>1, <1>2, <1>5 DEF LoginSlots
<1>8. AccountSlots(u, account) = AuthSlots(n, u, password, gen) \cup PrivilegeSlots(privilege)
  BY <1>2, <1>4, <1>7 DEF AccountSlots
<1>9. /\ AuthSlots(n, u, password, gen) \subseteq Slot
      /\ \A s, t \in AuthSlots(n, u, password, gen) : s = t
      /\ \A s \in AuthSlots(n, u, password, gen) : s[1].gen = gen
  BY <1>1, <1>5 DEF Slot
<1> QED BY <1>3, <1>4, <1>6, <1>7, <1>8, <1>9 DEF account

\* account add keeps the privilege, replaces the login entry and no other.
THEOREM AddAccountSafe ==
  ASSUME NEW cfg, NEW gen, Loaded(cfg, gen), NEW n \in Registered(cfg), NEW u \in Users,
         NEW password \in BOOLEAN
  PROVE  SafePlan(AddAccountPlan(cfg, n, u, password, gen), cfg, gen)
<1> DEFINE prev == cfg.servers[n].accounts[u]
           privilege == KeptPrivilege(prev)
           account == [auth |-> AuthFor(n, u, password, gen), privilege |-> privilege]
           next == PutAccount(cfg, n, u, account)
           created == AuthSlots(n, u, password, gen)
           stale == IF prev = Absent THEN {} ELSE LoginSlots(u, prev) \ LoginSlots(u, account)
<1>1. /\ n \in Servers /\ gen \in Nat /\ prev \in Account \cup {Absent}
      /\ ValidAccount(n, u, prev)
      /\ Refs(cfg) \subseteq Slot /\ AccountSlots(u, prev) \subseteq Refs(cfg)
  BY LoadedAccount
<1>2. /\ privilege \in Privilege \cup {Absent} /\ ValidPrivilege(n, u, privilege)
      /\ PrivilegeSlots(privilege) \subseteq AccountSlots(u, prev)
  BY <1>1 DEF KeptPrivilege, Account, ValidAccount, ValidPrivilege, PrivilegeSlots, AccountSlots
<1>3. AddAccountPlan(cfg, n, u, password, gen) =
        [next |-> next, created |-> created, stale |-> stale,
         changed |-> password \/ next # cfg]
  BY DEF AddAccountPlan
<1> HIDE DEF prev, privilege
<1>4. /\ account \in Account /\ ValidAccount(n, u, account)
      /\ LoginSlots(u, account) = created
      /\ AccountSlots(u, account) = created \cup PrivilegeSlots(privilege)
      /\ created \subseteq Slot
      /\ \A s, t \in created : s = t
      /\ \A s \in created : s[1].gen = gen
  BY <1>1, <1>2, NewAuth
<1> HIDE DEF account, created
<1>5. /\ next \in Config /\ ValidConfig(next)
      /\ Refs(next) \subseteq Refs(cfg) \cup AccountSlots(u, account)
      /\ AccountSlots(u, account) \subseteq Refs(next)
      /\ Refs(cfg) \subseteq Refs(next) \cup AccountSlots(u, prev)
      /\ (AccountSlots(u, prev) \ AccountSlots(u, account)) \cap Refs(next) = {}
  <2>1. account # Absent
    BY <1>4, ConfigAssumption
  <2> QED BY <1>1, <1>2, <1>4, <2>1, PutAccountOfConfig DEF prev
<1>6. stale = AccountSlots(u, prev) \ AccountSlots(u, account)
  <2> SUFFICES ASSUME prev # Absent
               PROVE  LoginSlots(u, prev) \ LoginSlots(u, account)
                        = AccountSlots(u, prev) \ AccountSlots(u, account)
    BY DEF AccountSlots
  <2>1. /\ AccountSlots(u, prev) = LoginSlots(u, prev) \cup PrivilegeSlots(prev.privilege)
        /\ \A s \in LoginSlots(u, prev) : s[1].purpose = "login"
        /\ \A s \in PrivilegeSlots(prev.privilege) : s[1].purpose = "privilege"
    BY <1>1, SlotPurposes
  <2>2. privilege = prev.privilege
    BY DEF privilege, KeptPrivilege
  <2> QED BY <1>4, <2>1, <2>2
<1>7. /\ stale \subseteq Slot /\ stale \cap Refs(next) = {} /\ stale \subseteq Refs(cfg)
      /\ Refs(next) \subseteq Refs(cfg) \cup created /\ created \subseteq Refs(next)
      /\ Refs(cfg) \subseteq Refs(next) \cup stale
  BY <1>1, <1>2, <1>4, <1>5, <1>6
<1> HIDE DEF next, stale
<1>8. (password \/ next # cfg) \in BOOLEAN
  OBVIOUS
<1> QED BY <1>3, <1>4, <1>5, <1>7, <1>8 DEF SafePlan, Plan

\* privilege set keeps the login entry and replaces the privilege entry.
THEOREM SetPrivilegeSafe ==
  ASSUME NEW cfg, NEW gen, Loaded(cfg, gen), NEW n \in Servers, NEW u \in Users,
         HasAccount(cfg, n, u), NEW method \in {"sudo", "su"}, NEW target \in Targets,
         NEW noPassword \in BOOLEAN, noPassword => method = "sudo"
  PROVE  SafePlan(SetPrivilegePlan(cfg, n, u, method, target, noPassword, gen), cfg, gen)
<1> DEFINE prev == cfg.servers[n].accounts[u]
           c == NewCredential("privilege", n, u, gen)
           privilege == [method |-> method, user |-> target,
                         credential |-> IF noPassword THEN Absent ELSE c]
           account == [prev EXCEPT !.privilege = privilege]
           next == PutAccount(cfg, n, u, account)
           created == PrivilegeSlots(privilege)
           stale == PrivilegeSlots(prev.privilege) \ PrivilegeSlots(privilege)
<1>1. /\ n \in Registered(cfg) /\ gen \in Nat /\ prev \in Account
      /\ ValidAccount(n, u, prev) /\ prev # Absent
      /\ Refs(cfg) \subseteq Slot /\ AccountSlots(u, prev) \subseteq Refs(cfg)
  <2>1. n \in Registered(cfg) /\ prev # Absent
    BY DEF HasAccount, Registered
  <2> QED BY <2>1, LoadedAccount
<1>2. SetPrivilegePlan(cfg, n, u, method, target, noPassword, gen) =
        [next |-> next, created |-> created, stale |-> stale,
         changed |-> ~noPassword \/ next # cfg]
  BY DEF SetPrivilegePlan
<1>3. c \in Credential /\ c.gen = gen /\ OwnsKey("privilege", n, u, c) /\ c # Absent
  BY <1>1, NewCredentialType
<1> HIDE DEF c
<1>4. /\ privilege.method = method /\ privilege.user = target
      /\ privilege.credential = (IF noPassword THEN Absent ELSE c)
      /\ privilege \in Privilege /\ privilege # Absent
  <2>1. privilege \in Privilege
    BY <1>3 DEF Privilege
  <2> QED BY <2>1, ConfigAssumption
<1> HIDE DEF prev, privilege
<1>5. ValidPrivilege(n, u, privilege)
  BY <1>3, <1>4 DEF ValidPrivilege
<1>6. created = IF noPassword THEN {} ELSE {<<c, target>>}
  BY <1>3, <1>4 DEF PrivilegeSlots
<1>7. /\ account \in Account /\ account.auth = prev.auth /\ account.privilege = privilege
      /\ account # Absent
  <2>1. account \in Account /\ account.auth = prev.auth /\ account.privilege = privilege
    BY <1>1, <1>4 DEF Account
  <2> QED BY <2>1, ConfigAssumption
<1> HIDE DEF account
<1>8. /\ ValidAccount(n, u, account)
      /\ AccountSlots(u, account) = LoginSlots(u, prev) \cup created
      /\ AccountSlots(u, prev) = LoginSlots(u, prev) \cup PrivilegeSlots(prev.privilege)
  BY <1>1, <1>5, <1>7 DEF ValidAccount, AccountSlots, LoginSlots
<1>9. /\ created \subseteq Slot
      /\ \A s, t \in created : s = t
      /\ \A s \in created : s[1].gen = gen /\ s[1].purpose = "privilege"
  BY <1>3, <1>6 DEF Slot, OwnsKey
<1> HIDE DEF created
<1>10. /\ next \in Config /\ ValidConfig(next)
       /\ Refs(next) \subseteq Refs(cfg) \cup AccountSlots(u, account)
       /\ AccountSlots(u, account) \subseteq Refs(next)
       /\ Refs(cfg) \subseteq Refs(next) \cup AccountSlots(u, prev)
       /\ (AccountSlots(u, prev) \ AccountSlots(u, account)) \cap Refs(next) = {}
  BY <1>1, <1>7, <1>8, <1>9, PutAccountOfConfig DEF prev
<1>11. stale = AccountSlots(u, prev) \ AccountSlots(u, account)
  <2>1. /\ \A s \in LoginSlots(u, prev) : s[1].purpose = "login"
        /\ \A s \in PrivilegeSlots(prev.privilege) : s[1].purpose = "privilege"
    BY <1>1, SlotPurposes DEF Registered
  <2> QED BY <1>8, <2>1 DEF created
<1>12. /\ stale \subseteq Slot /\ stale \cap Refs(next) = {} /\ stale \subseteq Refs(cfg)
       /\ Refs(next) \subseteq Refs(cfg) \cup created /\ created \subseteq Refs(next)
       /\ Refs(cfg) \subseteq Refs(next) \cup stale
  BY <1>1, <1>8, <1>10, <1>11
<1> HIDE DEF next, stale
<1>13. (~noPassword \/ next # cfg) \in BOOLEAN
  OBVIOUS
<1> QED BY <1>2, <1>9, <1>10, <1>12, <1>13 DEF SafePlan, Plan

\* privilege clear deletes the privilege entry only.
THEOREM ClearPrivilegeSafe ==
  ASSUME NEW cfg, NEW gen, Loaded(cfg, gen), NEW n \in Servers, NEW u \in Users,
         HasAccount(cfg, n, u)
  PROVE  SafePlan(ClearPrivilegePlan(cfg, n, u), cfg, gen)
<1> DEFINE prev == cfg.servers[n].accounts[u]
           account == [prev EXCEPT !.privilege = Absent]
           next == PutAccount(cfg, n, u, account)
           stale == PrivilegeSlots(prev.privilege)
<1>1. /\ n \in Registered(cfg) /\ prev \in Account
      /\ ValidAccount(n, u, prev) /\ prev # Absent
      /\ Refs(cfg) \subseteq Slot /\ AccountSlots(u, prev) \subseteq Refs(cfg)
  <2>1. n \in Registered(cfg) /\ prev # Absent
    BY DEF HasAccount, Registered
  <2> QED BY <2>1, LoadedAccount
<1>2. ClearPrivilegePlan(cfg, n, u) =
        [next |-> next, created |-> {}, stale |-> stale, changed |-> prev.privilege # Absent]
  BY DEF ClearPrivilegePlan
<1> HIDE DEF prev
<1>3. /\ account \in Account /\ account.auth = prev.auth /\ account.privilege = Absent
      /\ account # Absent
  <2>1. account \in Account /\ account.auth = prev.auth /\ account.privilege = Absent
    BY <1>1 DEF Account
  <2> QED BY <2>1, ConfigAssumption
<1> HIDE DEF account
<1>4. /\ ValidAccount(n, u, account)
      /\ AccountSlots(u, account) = LoginSlots(u, prev)
      /\ AccountSlots(u, prev) = LoginSlots(u, prev) \cup PrivilegeSlots(prev.privilege)
  BY <1>1, <1>3 DEF ValidAccount, ValidPrivilege, AccountSlots, LoginSlots, PrivilegeSlots
<1>5. /\ next \in Config /\ ValidConfig(next)
      /\ Refs(next) \subseteq Refs(cfg) \cup AccountSlots(u, account)
      /\ AccountSlots(u, account) \subseteq Refs(next)
      /\ Refs(cfg) \subseteq Refs(next) \cup AccountSlots(u, prev)
      /\ (AccountSlots(u, prev) \ AccountSlots(u, account)) \cap Refs(next) = {}
  BY <1>1, <1>3, <1>4, PutAccountOfConfig DEF prev
<1>6. stale = AccountSlots(u, prev) \ AccountSlots(u, account)
  <2>1. /\ \A s \in LoginSlots(u, prev) : s[1].purpose = "login"
        /\ \A s \in PrivilegeSlots(prev.privilege) : s[1].purpose = "privilege"
    BY <1>1, SlotPurposes DEF Registered
  <2> QED BY <1>4, <2>1
<1>7. /\ stale \subseteq Slot /\ stale \cap Refs(next) = {} /\ stale \subseteq Refs(cfg)
      /\ Refs(next) \subseteq Refs(cfg) /\ Refs(cfg) \subseteq Refs(next) \cup stale
  BY <1>1, <1>4, <1>5, <1>6
<1> HIDE DEF next, stale
<1>8. (prev.privilege # Absent) \in BOOLEAN
  OBVIOUS
<1> QED BY <1>2, <1>5, <1>7, <1>8 DEF SafePlan, Plan

--------------------------------------------------------------------------------
\* account default refers to the same entries as before.
THEOREM DefaultAccountSafe ==
  ASSUME NEW cfg, NEW gen, Loaded(cfg, gen), NEW n \in Servers, NEW u \in Users,
         HasAccount(cfg, n, u)
  PROVE  SafePlan(DefaultAccountPlan(cfg, n, u), cfg, gen)
<1> DEFINE prev == cfg.servers[n]
           server == [prev EXCEPT !.defaultUser = u]
           next == PutServer(cfg, n, server)
<1>1. /\ cfg \in Config /\ ValidConfig(cfg) /\ n \in Registered(cfg)
      /\ prev \in Server /\ prev.accounts[u] # Absent
  BY DEF Loaded, HasAccount, Config, Registered
<1>2. /\ server \in Server /\ server.accounts = prev.accounts /\ server.defaultUser = u
  BY <1>1 DEF Server
<1>3. /\ StoredCredentials(server) = StoredCredentials(prev)
      /\ ValidServer(n, server) /\ server # Absent
  BY <1>1, <1>2, ServerAccounts DEF ValidConfig
<1> HIDE DEF server
<1>4. /\ next \in Config /\ next.servers = [cfg.servers EXCEPT ![n] = server]
      /\ next.default = cfg.default
  BY <1>1, <1>2 DEF Config, PutServer
<1>5. DefaultAccountPlan(cfg, n, u) =
        [next |-> next, created |-> {}, stale |-> {}, changed |-> next # cfg]
  BY DEF DefaultAccountPlan, server
<1> HIDE DEF next
<1>6. /\ \A m \in Servers : ValidServer(m, next.servers[m])
      /\ Refs(next) \subseteq Refs(cfg) /\ Refs(cfg) \subseteq Refs(next)
  <2>1. StoredCredentials(prev) \subseteq Refs(cfg)
    BY DEF Refs
  <2> QED BY <1>1, <1>2, <1>3, <1>4, <2>1, PutServerLemma
<1>7. ValidConfig(next)
  <2>1. Registered(cfg) \subseteq Registered(next)
    BY <1>1, <1>3, <1>4 DEF Registered, Config
  <2> QED BY <1>1, <1>4, <1>6, <2>1 DEF ValidConfig
<1>8. (next # cfg) \in BOOLEAN
  OBVIOUS
<1> QED BY <1>4, <1>5, <1>6, <1>7, <1>8 DEF SafePlan, Plan

\* default refers to the same entries as before.
THEOREM DefaultServerSafe ==
  ASSUME NEW cfg, NEW gen, Loaded(cfg, gen), NEW n \in Registered(cfg)
  PROVE  SafePlan(DefaultServerPlan(cfg, n), cfg, gen)
<1> DEFINE next == [cfg EXCEPT !.default = n]
<1>1. n \in Servers /\ cfg \in Config /\ ValidConfig(cfg)
  BY DEF Loaded, Registered
<1>2. next \in Config /\ next.servers = cfg.servers /\ next.default = n
  BY <1>1 DEF Config
<1>3. DefaultServerPlan(cfg, n) =
        [next |-> next, created |-> {}, stale |-> {}, changed |-> next # cfg]
  BY DEF DefaultServerPlan
<1> HIDE DEF next
<1>4. Refs(next) = Refs(cfg) /\ ValidConfig(next)
  BY <1>1, <1>2 DEF Refs, ValidConfig, Registered
<1>5. (next # cfg) \in BOOLEAN
  OBVIOUS
<1> QED BY <1>2, <1>3, <1>4, <1>5 DEF SafePlan, Plan

\* remove deletes every entry of the server, and the default it leaves exists.
THEOREM RemoveServerSafe ==
  ASSUME NEW cfg, NEW gen, Loaded(cfg, gen), NEW n \in Registered(cfg)
  PROVE  SafePlan(RemoveServerPlan(cfg, n), cfg, gen)
<1> DEFINE default == IF cfg.default = n THEN FirstServer(Registered(cfg) \ {n})
                      ELSE cfg.default
           next == [PutServer(cfg, n, Absent) EXCEPT !.default =
                      IF @ = n THEN FirstServer(Registered(cfg) \ {n}) ELSE @]
           stale == StoredCredentials(cfg.servers[n])
<1>1. n \in Servers /\ cfg \in Config /\ ValidConfig(cfg)
  BY DEF Loaded, Registered
<1>2. FirstServer(Registered(cfg) \ {n}) \in (Registered(cfg) \ {n}) \cup {Absent}
  <2> DEFINE S == Registered(cfg) \ {n}
  <2> HIDE DEF S
  <2>1. CASE S = {}
    BY <2>1 DEF FirstServer, S
  <2>2. CASE S # {}
    <3>1. S \in SUBSET Servers
      BY DEF S, Registered
    <3>2. \E i \in S : \A j \in S : i <= j
      BY <2>2, <3>1, ConfigAssumption
    <3>3. FirstServer(S) \in S
      BY <2>2, <3>2 DEF FirstServer
    <3> QED BY <3>3 DEF S
  <2> QED BY <2>1, <2>2
<1>3. default \in (Registered(cfg) \ {n}) \cup {Absent}
  BY <1>1, <1>2 DEF ValidConfig
<1>4. /\ next \in Config /\ next.default = default
      /\ next.servers = [cfg.servers EXCEPT ![n] = Absent]
  <2> HIDE DEF FirstServer
  <2>1. default \in Servers \cup {Absent}
    BY <1>3 DEF Registered
  <2> QED BY <1>1, <2>1 DEF Config, PutServer
<1>5. RemoveServerPlan(cfg, n) =
        [next |-> next, created |-> {}, stale |-> stale, changed |-> TRUE]
  BY DEF RemoveServerPlan
<1> HIDE DEF next, default
<1>6. ValidServer(n, Absent) /\ StoredCredentials(Absent) = {}
  BY DEF ValidServer, StoredCredentials
<1>7. /\ \A m \in Servers : ValidServer(m, next.servers[m])
      /\ Refs(next) \subseteq Refs(cfg) /\ stale \subseteq Refs(cfg)
      /\ Refs(cfg) \subseteq Refs(next) \cup stale
      /\ stale \cap Refs(next) = {}
  BY <1>1, <1>4, <1>6, PutServerLemma
<1>8. Refs(cfg) \subseteq Slot
  BY <1>1, RefsAreSlots DEF ValidConfig
<1>9. ValidConfig(next)
  <2>1. Registered(cfg) \ {n} \subseteq Registered(next)
    BY <1>1, <1>4 DEF Registered, Config
  <2> QED BY <1>3, <1>4, <1>7, <2>1 DEF ValidConfig
<1> HIDE DEF stale
<1> QED BY <1>4, <1>5, <1>7, <1>8, <1>9 DEF SafePlan, Plan

\* add keeps the accounts it should, and deletes the entries of the others.
THEOREM AddServerSafe ==
  ASSUME NEW cfg, NEW gen, Loaded(cfg, gen), NEW n \in Servers, NEW u \in Users,
         NEW e \in Endpoints, NEW password \in BOOLEAN, NEW replace \in BOOLEAN
  PROVE  SafePlan(AddServerPlan(cfg, n, u, e, password, replace, gen), cfg, gen)
<1> DEFINE prev == cfg.servers[n]
           kept == IF prev = Absent \/ replace THEN [v \in Users |-> Absent] ELSE prev.accounts
           privilege == KeptPrivilege(kept[u])
           account == [auth |-> AuthFor(n, u, password, gen), privilege |-> privilege]
           B == [kept EXCEPT ![u] = account]
           server == [endpoint |-> e, defaultUser |-> u, accounts |-> B]
           next == [PutServer(cfg, n, server) EXCEPT !.default = IF @ = Absent THEN n ELSE @]
           created == AuthSlots(n, u, password, gen)
           stale == StoredCredentials(prev) \ StoredCredentials(server)
<1>1. /\ cfg \in Config /\ ValidConfig(cfg) /\ gen \in Nat
      /\ prev \in Server \cup {Absent} /\ ValidServer(n, prev)
      /\ Refs(cfg) \subseteq Slot /\ StoredCredentials(prev) \subseteq Refs(cfg)
      /\ \A s \in StoredCredentials(prev) : s[1].gen < gen
  <2>1. /\ cfg \in Config /\ ValidConfig(cfg) /\ gen \in Nat
        /\ prev \in Server \cup {Absent} /\ ValidServer(n, prev)
    BY DEF Loaded, Config, ValidConfig
  <2>2. StoredCredentials(prev) \subseteq Refs(cfg)
    BY DEF Refs
  <2>3. Refs(cfg) \subseteq Slot
    BY <2>1, RefsAreSlots DEF ValidConfig
  <2> QED BY <2>1, <2>2, <2>3 DEF Loaded
<1>2. /\ kept \in Accounts /\ ValidAccounts(n, kept)
      /\ SlotsOf(kept) \subseteq StoredCredentials(prev)
  <2>1. CASE prev = Absent \/ replace
    BY <2>1 DEF Accounts, ValidAccounts, ValidAccount, NoCollision, SlotsOf, AccountSlots
  <2>2. CASE ~(prev = Absent \/ replace)
    <3>1. prev \in Server
      BY <1>1, <2>2
    <3> QED BY <1>1, <2>2, <3>1, ServerAccounts
  <2> QED BY <2>1, <2>2
<1>3. AddServerPlan(cfg, n, u, e, password, replace, gen) =
        [next |-> next, created |-> created, stale |-> stale,
         changed |-> password \/ next # cfg]
  BY DEF AddServerPlan
<1> HIDE DEF prev, kept
<1>4. /\ privilege \in Privilege \cup {Absent} /\ ValidPrivilege(n, u, privilege)
      /\ PrivilegeSlots(privilege) \subseteq AccountSlots(u, kept[u])
  <2>1. kept[u] \in Account \cup {Absent} /\ ValidAccount(n, u, kept[u])
    BY <1>2 DEF Accounts, ValidAccounts
  <2> QED BY <2>1 DEF KeptPrivilege, Account, ValidAccount, ValidPrivilege, PrivilegeSlots,
                      AccountSlots
<1> HIDE DEF privilege
<1>5. /\ account \in Account /\ account # Absent /\ ValidAccount(n, u, account)
      /\ AccountSlots(u, account) = created \cup PrivilegeSlots(privilege)
      /\ created \subseteq Slot
      /\ \A s, t \in created : s = t
      /\ \A s \in created : s[1].gen = gen
  BY <1>1, <1>4, NewAuth
<1> HIDE DEF account, created
<1>6. /\ B \in Accounts /\ ValidAccounts(n, B) /\ B[u] = account
      /\ SlotsOf(B) \subseteq SlotsOf(kept) \cup created /\ created \subseteq SlotsOf(B)
  <2>1. \A s \in SlotsOf(kept) : s[1].gen < gen
    BY <1>1, <1>2
  <2>2. /\ B \in Accounts /\ ValidAccounts(n, B)
        /\ SlotsOf(B) \subseteq SlotsOf(kept) \cup AccountSlots(u, account)
        /\ AccountSlots(u, account) \subseteq SlotsOf(B)
        /\ AccountSlots(u, kept[u]) \subseteq SlotsOf(kept)
    BY <1>1, <1>2, <1>4, <1>5, <2>1, PutAccountLemma
  <2>3. B[u] = account
    BY <1>2 DEF Accounts
  <2> QED BY <1>4, <1>5, <2>2, <2>3
<1> HIDE DEF B
<1>7. /\ server \in Server /\ server # Absent
      /\ server.accounts = B /\ server.defaultUser = u
  <2>1. server \in Server
    BY <1>6 DEF Server, Accounts
  <2> QED BY <2>1, ConfigAssumption
<1>8. ValidServer(n, server) /\ StoredCredentials(server) = SlotsOf(B)
  BY <1>5, <1>6, <1>7, ServerAccounts
<1> HIDE DEF server
<1>9. /\ next \in Config /\ next.servers = [cfg.servers EXCEPT ![n] = server]
      /\ next.default = IF cfg.default = Absent THEN n ELSE cfg.default
  BY <1>1, <1>7 DEF Config, PutServer
<1> HIDE DEF next
<1>10. /\ \A m \in Servers : ValidServer(m, next.servers[m])
       /\ Refs(next) \subseteq Refs(cfg) \cup StoredCredentials(server)
       /\ StoredCredentials(server) \subseteq Refs(next)
       /\ Refs(cfg) \subseteq Refs(next) \cup StoredCredentials(prev)
       /\ stale \cap Refs(next) = {}
  BY <1>1, <1>7, <1>8, <1>9, PutServerLemma DEF prev
<1>11. ValidConfig(next)
  <2>1. Registered(cfg) \cup {n} \subseteq Registered(next)
    BY <1>1, <1>7, <1>9 DEF Registered, Config
  <2> QED BY <1>1, <1>9, <1>10, <2>1 DEF ValidConfig
<1>12. /\ stale \subseteq Slot /\ stale \subseteq Refs(cfg)
       /\ Refs(next) \subseteq Refs(cfg) \cup created /\ created \subseteq Refs(next)
       /\ Refs(cfg) \subseteq Refs(next) \cup stale
  BY <1>1, <1>2, <1>6, <1>8, <1>10
<1> HIDE DEF stale
<1>13. (password \/ next # cfg) \in BOOLEAN
  OBVIOUS
<1> QED BY <1>3, <1>5, <1>9, <1>10, <1>11, <1>12, <1>13 DEF SafePlan, Plan

--------------------------------------------------------------------------------
(***************************************************************************)
(* The home.                                                               *)
(***************************************************************************)
Unpublished == {"prompt", "store", "check", "stage", "publish"}

\* The plan of an invocation that has not published yet can still be published
\* over any file there may be, once what it creates is stored.
Publishable(p) ==
  /\ \A s, t \in plan[p].created : s = t
  /\ \A s \in plan[p].created : s[1].gen < issued
  /\ \A f \in recoverable : plan[p].created \cap FileRefs(f) = {}
  /\ Refs(plan[p].next) \subseteq DOMAIN keyring \cup plan[p].created
  /\ plan[p].stale \cap Refs(plan[p].next) = {}
  /\ ValidConfig(plan[p].next)

ProcInv(p) ==
  /\ pc[p] \in Holding <=> lock = p
  /\ pc[p] \in Unpublished => Publishable(p)
  /\ pc[p] \in {"prompt", "store"} => plan[p].created \cap DOMAIN keyring = {}
  /\ pc[p] \in {"check", "stage", "publish"} => plan[p].created \subseteq DOMAIN keyring
  /\ pc[p] \in {"stage", "publish"} => file = base[p] \/ p \in raced
  /\ pc[p] = "undo" => \A f \in recoverable : plan[p].created \cap FileRefs(f) = {}
  /\ pc[p] = "sync" => plan[p].stale \cap FileRefs(file) = {}
  /\ pc[p] = "cleanup" => \A f \in recoverable : todo[p] \cap FileRefs(f) = {}

StoreInv ==
  /\ file \in recoverable
  /\ \A f \in recoverable : ValidConfig(CfgOf(f)) /\ FileRefs(f) \subseteq DOMAIN keyring
  /\ \A s \in DOMAIN keyring : s[1].gen < issued

HomeInv == TypeOK /\ StoreInv /\ \A p \in Procs : ProcInv(p)

--------------------------------------------------------------------------------
\* An empty home refers to no entry and loads.
LEMMA EmptyHome ==
  EmptyConfig \in Config /\ Refs(EmptyConfig) = {} /\ ValidConfig(EmptyConfig)
<1>1. EmptyConfig \in Config
  BY DEF EmptyConfig, Config
<1>2. Refs(EmptyConfig) = {}
  BY DEF EmptyConfig, Refs, StoredCredentials
<1>3. ValidConfig(EmptyConfig)
  BY DEF EmptyConfig, ValidConfig, ValidServer
<1> QED BY <1>1, <1>2, <1>3

LEMMA CfgOfType ==
  ASSUME NEW f \in Config \cup {Missing}
  PROVE  CfgOf(f) \in Config /\ (f # Missing => CfgOf(f) = f)
BY EmptyHome DEF CfgOf

LEMMA CfgOfConfig ==
  ASSUME NEW cfg \in Config
  PROVE  CfgOf(cfg) = cfg
BY HomeAssumption DEF CfgOf, Missing

\* The home starts with what its file refers to and nothing running.
LEMMA HomeInvInit == Init => HomeInv
<1> SUFFICES ASSUME Init PROVE HomeInv
  OBVIOUS
<1> USE DEF Init
<1>1. /\ file \in Config \cup {Missing} /\ ValidConfig(CfgOf(file))
      /\ \A s \in FileRefs(file) : s[1].gen = 0
  BY HomeAssumption
<1>2. FileRefs(file) \subseteq Slot
  BY <1>1, CfgOfType, RefsAreSlots DEF FileRefs, ValidConfig
<1>3. NoPlan \in Plan
  BY EmptyHome DEF NoPlan, Plan
<1>4. TypeOK
  BY <1>1, <1>2, <1>3 DEF TypeOK, Active, Outcomes
<1>5. StoreInv
  BY <1>1 DEF StoreInv
<1>6. ASSUME NEW p \in Procs PROVE ProcInv(p)
  BY HomeAssumption DEF ProcInv, Holding, Active, Unpublished
<1> QED BY <1>4, <1>5, <1>6 DEF HomeInv

--------------------------------------------------------------------------------
\* An invocation without the lock has nothing to promise.
LEMMA IdleProc ==
  ASSUME NEW q \in Procs, pc'[q] \notin Holding, lock' # q
  PROVE  ProcInv(q)'
BY DEF ProcInv, Holding, Active, Unpublished

\* A step that touches neither the home nor what q holds keeps q's promises.
LEMMA ProcFrame ==
  ASSUME NEW q \in Procs, ProcInv(q), UNCHANGED <<storeVars, issued, raced>>,
         pc'[q] = pc[q], plan'[q] = plan[q], todo'[q] = todo[q], base'[q] = base[q],
         lock' = q <=> lock = q
  PROVE  ProcInv(q)'
BY DEF ProcInv, Publishable, storeVars

LEMMA StoreFrame ==
  ASSUME StoreInv, UNCHANGED <<storeVars, issued>>
  PROVE  StoreInv'
BY DEF StoreInv, storeVars

\* While p holds the lock, no other invocation does.
LEMMA OthersIdle ==
  ASSUME HomeInv, NEW p \in Procs, pc[p] \in Holding,
         \A q \in Procs \ {p} : pc'[q] = pc[q],
         lock' \in {lock, NoProc}
  PROVE  lock = p /\ \A q \in Procs \ {p} : ProcInv(q)'
<1>1. lock = p
  BY DEF HomeInv, ProcInv
<1>2. ASSUME NEW q \in Procs \ {p} PROVE ProcInv(q)'
  <2>1. pc'[q] \notin Holding
    BY <1>1 DEF HomeInv, ProcInv
  <2>2. lock' # q
    BY <1>1, HomeAssumption
  <2> QED BY <2>1, <2>2, IdleProc
<1> QED BY <1>1, <1>2

\* The steps that change neither the home nor the locals of an invocation.
LEMMA StartStep ==
  ASSUME HomeInv, NEW p \in Procs, Start(p) \/ AcquireLock(p) \/ LockTimeout(p)
  PROVE  HomeInv'
<1> USE DEF Start, AcquireLock, LockTimeout, Goto, boundVars
<1>1. TypeOK'
  BY DEF HomeInv, TypeOK, Active, Outcomes, storeVars
<1>2. StoreInv'
  BY StoreFrame DEF HomeInv
<1>3. /\ pc[p] \in {"start", "lock"} /\ pc'[p] \in {"lock", "load", "done"}
      /\ pc'[p] = "load" <=> lock' = p
      /\ \A q \in Procs \ {p} : pc'[q] = pc[q] /\ (lock' = q <=> lock = q)
  BY HomeAssumption DEF HomeInv, TypeOK, ProcInv, Holding, Active
<1>4. ProcInv(p)'
  BY <1>3 DEF ProcInv, Holding, Active, Unpublished
<1>5. ASSUME NEW q \in Procs \ {p} PROVE ProcInv(q)'
  BY <1>3, ProcFrame DEF HomeInv
<1> QED BY <1>1, <1>2, <1>4, <1>5 DEF HomeInv

LEMMA QuietStep ==
  ASSUME HomeInv, NEW p \in Procs,
         \/ Refuse(p) \/ Decline(p) \/ Confirm(p) \/ CheckRevision(p) \/ Stage(p)
         \/ PublishFails(p) \/ SyncFails(p) \/ UndoFails(p) \/ CleanupDone(p)
  PROVE  HomeInv'
<1> USE DEF Refuse, Decline, Confirm, CheckRevision, Stage, PublishFails, SyncFails, UndoFails,
            CleanupDone, Goto, Result, boundVars
<1>1. TypeOK'
  BY DEF HomeInv, TypeOK, Active, Outcomes, storeVars
<1>2. StoreInv'
  BY StoreFrame DEF HomeInv
<1>3. /\ pc[p] \in Holding /\ pc'[p] \in Holding /\ lock' = lock
      /\ \A q \in Procs \ {p} : pc'[q] = pc[q]
  BY DEF HomeInv, TypeOK, Holding, Active
<1>4. lock = p /\ \A q \in Procs \ {p} : ProcInv(q)'
  BY <1>3, OthersIdle
<1>5. ProcInv(p)'
  <2>1. ProcInv(p) /\ UNCHANGED <<storeVars, issued, raced, base, plan, todo>>
    BY DEF HomeInv
  <2>2. Publishable(p) <=> Publishable(p)'
    BY <2>1 DEF Publishable, storeVars
  <2>3. pc'[p] \notin Unpublished \/ pc[p] \in Unpublished
    BY DEF HomeInv, TypeOK, Unpublished
  <2>4. pc'[p] \in {"stage", "publish"} => file = base[p] \/ p \in raced
    BY <2>1 DEF HomeInv, TypeOK, ProcInv
  <2>5. pc'[p] \in {"check", "stage", "publish"} => plan[p].created \subseteq DOMAIN keyring
    BY <2>1 DEF HomeInv, TypeOK, ProcInv
  <2>6. pc'[p] = "undo" => \A f \in recoverable : plan[p].created \cap FileRefs(f) = {}
    BY <2>1 DEF HomeInv, TypeOK, ProcInv, Publishable, Unpublished
  <2>7. pc'[p] \in {"prompt", "store"} => plan[p].created \cap DOMAIN keyring = {}
    BY <2>1 DEF HomeInv, TypeOK, ProcInv
  <2>8. pc'[p] \notin {"sync", "cleanup"}
    BY DEF HomeInv, TypeOK
  <2> QED BY <1>3, <1>4, <2>1, <2>2, <2>3, <2>4, <2>5, <2>6, <2>7, <2>8 DEF ProcInv, storeVars
<1> QED BY <1>1, <1>2, <1>4, <1>5 DEF HomeInv

--------------------------------------------------------------------------------
\* What a command plans is safe for the file it loaded.
LEMMA LoadedFile ==
  ASSUME HomeInv
  PROVE  Loaded(CfgOf(file), issued)
<1>1. CfgOf(file) \in Config /\ issued \in Nat
  BY CfgOfType DEF HomeInv, TypeOK
<1>2. ValidConfig(CfgOf(file)) /\ \A s \in FileRefs(file) : s[1].gen < issued
  BY DEF HomeInv, StoreInv
<1> QED BY <1>1, <1>2 DEF Loaded, FileRefs

LEMMA CommandPlan ==
  ASSUME HomeInv, NEW p \in Procs, Command(p)
  PROVE  \E newPlan : Begin(p, newPlan) /\ SafePlan(newPlan, CfgOf(file), issued)
<1> DEFINE cfg == CfgOf(file)
<1>1. Loaded(cfg, issued)
  BY LoadedFile
<1>2. ASSUME NEW n \in Servers, NEW u \in Users, HasAccount(cfg, n, u)
      PROVE  n \in Registered(cfg)
  BY <1>2 DEF HasAccount, Registered
<1> HIDE DEF cfg
<1>3. CASE AddServer(p)
  <2>1. PICK n \in Servers, u \in Users, e \in Endpoints, password, replace \in BOOLEAN :
          Begin(p, AddServerPlan(cfg, n, u, e, password, replace, issued))
    BY <1>3 DEF AddServer, cfg
  <2> QED BY <1>1, <2>1, AddServerSafe DEF cfg
<1>4. CASE AddAccount(p)
  <2>1. PICK n \in Registered(cfg), u \in Users, password \in BOOLEAN :
          Begin(p, AddAccountPlan(cfg, n, u, password, issued))
    BY <1>4 DEF AddAccount, cfg
  <2> QED BY <1>1, <2>1, AddAccountSafe DEF cfg
<1>5. CASE DefaultAccount(p)
  <2>1. PICK n \in Servers, u \in Users :
          HasAccount(cfg, n, u) /\ Begin(p, DefaultAccountPlan(cfg, n, u))
    BY <1>5 DEF DefaultAccount, cfg
  <2> QED BY <1>1, <2>1, DefaultAccountSafe DEF cfg
<1>6. CASE RemoveAccount(p)
  <2>1. PICK n \in Servers, u \in Users :
          /\ HasAccount(cfg, n, u) /\ cfg.servers[n].defaultUser # u
          /\ Begin(p, RemoveAccountPlan(cfg, n, u))
    BY <1>6 DEF RemoveAccount, cfg
  <2> QED BY <1>1, <1>2, <2>1, RemoveAccountSafe DEF cfg
<1>7. CASE DefaultServer(p)
  <2>1. PICK n \in Registered(cfg) : Begin(p, DefaultServerPlan(cfg, n))
    BY <1>7 DEF DefaultServer, cfg
  <2> QED BY <1>1, <2>1, DefaultServerSafe DEF cfg
<1>8. CASE RemoveServer(p)
  <2>1. PICK n \in Registered(cfg) : Begin(p, RemoveServerPlan(cfg, n))
    BY <1>8 DEF RemoveServer, cfg
  <2> QED BY <1>1, <2>1, RemoveServerSafe DEF cfg
<1>9. CASE SetPrivilege(p)
  <2>1. PICK n \in Servers, u \in Users, method \in {"sudo", "su"}, target \in Targets,
             noPassword \in BOOLEAN :
          /\ HasAccount(cfg, n, u) /\ (noPassword => method = "sudo")
          /\ Begin(p, SetPrivilegePlan(cfg, n, u, method, target, noPassword, issued))
    BY <1>9 DEF SetPrivilege, cfg
  <2> QED BY <1>1, <2>1, SetPrivilegeSafe DEF cfg
<1>10. CASE ClearPrivilege(p)
  <2>1. PICK n \in Servers, u \in Users :
          HasAccount(cfg, n, u) /\ Begin(p, ClearPrivilegePlan(cfg, n, u))
    BY <1>10 DEF ClearPrivilege, cfg
  <2> QED BY <1>1, <2>1, ClearPrivilegeSafe DEF cfg
<1> QED BY <1>3, <1>4, <1>5, <1>6, <1>7, <1>8, <1>9, <1>10 DEF Command

LEMMA CommandStep ==
  ASSUME HomeInv, NEW p \in Procs, Command(p)
  PROVE  HomeInv'
<1>1. PICK newPlan : Begin(p, newPlan) /\ SafePlan(newPlan, CfgOf(file), issued)
  BY CommandPlan
<1> USE DEF Begin, Goto, boundVars
<1>2. newPlan \in Plan /\ plan' = [plan EXCEPT ![p] = newPlan] /\ plan'[p] = newPlan
  BY <1>1 DEF SafePlan, HomeInv, TypeOK
<1>3. issued \in Nat /\ issued' \in {issued, issued + 1}
      /\ (newPlan.created # {} => issued' = issued + 1)
  BY <1>1 DEF HomeInv, TypeOK
<1>4. TypeOK'
  BY <1>1, <1>2, <1>3 DEF HomeInv, TypeOK, Active, storeVars
<1>5. \A s \in DOMAIN keyring : s[1].gen \in Nat /\ s[1].gen < issued
  BY DEF HomeInv, StoreInv, TypeOK, Slot, Credential
<1>6. StoreInv'
  BY <1>1, <1>3, <1>5 DEF HomeInv, StoreInv, storeVars
<1>7. /\ pc[p] = "load" /\ pc'[p] = "prompt" /\ lock' = lock /\ pc[p] \in Holding
      /\ \A q \in Procs \ {p} : pc'[q] = pc[q]
  BY <1>1 DEF HomeInv, TypeOK, Holding, Active
<1>8. lock = p /\ \A q \in Procs \ {p} : ProcInv(q)'
  BY <1>7, OthersIdle
<1>9. newPlan.created \cap DOMAIN keyring = {}
  BY <1>1, <1>5 DEF SafePlan
<1>10. Publishable(p)'
  <2>1. /\ \A f \in recoverable : newPlan.created \cap FileRefs(f) = {}
        /\ Refs(newPlan.next) \subseteq DOMAIN keyring \cup newPlan.created
    BY <1>1, <1>9 DEF HomeInv, StoreInv, SafePlan, FileRefs
  <2>2. \A s \in newPlan.created : s[1].gen < issued'
    BY <1>1, <1>3 DEF SafePlan
  <2> QED BY <1>1, <1>2, <2>1, <2>2 DEF Publishable, SafePlan, storeVars
<1>11. ProcInv(p)'
  BY <1>1, <1>2, <1>7, <1>8, <1>9, <1>10 DEF ProcInv, Holding, Active, storeVars
<1> QED BY <1>4, <1>6, <1>8, <1>11 DEF HomeInv

--------------------------------------------------------------------------------
\* The steps that change the keyring.
LEMMA StoreStep ==
  ASSUME HomeInv, NEW p \in Procs, StorePassword(p) \/ StoreFails(p)
  PROVE  HomeInv'
<1> USE DEF StorePassword, StoreFails, Result, Goto, boundVars
<1>1. /\ pc[p] = "store" /\ pc'[p] \in {"check", "return"} /\ lock' = lock /\ pc[p] \in Holding
      /\ \A q \in Procs \ {p} : pc'[q] = pc[q]
  BY DEF HomeInv, TypeOK, Holding, Active
<1>2. lock = p /\ \A q \in Procs \ {p} : ProcInv(q)'
  BY <1>1, OthersIdle
<1>3. /\ Publishable(p) /\ plan[p].created \subseteq Slot
      /\ UNCHANGED <<file, recoverable, issued, plan, base, todo, raced>>
  BY <1>1 DEF HomeInv, TypeOK, ProcInv, Unpublished, Plan
<1>4. \/ UNCHANGED keyring /\ pc'[p] = "return"
      \/ \E s \in plan[p].created : DOMAIN keyring' = DOMAIN keyring \cup {s}
  <2>1. \A s : DOMAIN Stored({s}, issued) = DOMAIN keyring \cup {s}
    BY DEF Stored
  <2>2. \/ UNCHANGED keyring /\ pc'[p] = "return"
        \/ \E s \in plan[p].created : keyring' = Stored({s}, issued)
    <3>1. StoreFails(p) => pc'[p] = "return"
      BY DEF HomeInv, TypeOK
    <3> QED BY <3>1
  <2> QED BY <2>1, <2>2
<1>5. DOMAIN keyring \subseteq DOMAIN keyring'
      /\ DOMAIN keyring' \subseteq DOMAIN keyring \cup plan[p].created
  BY <1>4
<1>6. TypeOK'
  BY <1>3, <1>5 DEF HomeInv, TypeOK, Active, Outcomes
<1>7. StoreInv'
  BY <1>3, <1>5 DEF HomeInv, StoreInv, Publishable
<1>8. pc'[p] = "check" => plan[p].created \subseteq DOMAIN keyring'
  BY <1>3, <1>4 DEF Publishable
<1>9. Publishable(p)'
  BY <1>3, <1>5 DEF Publishable
<1>10. ProcInv(p)'
  BY <1>1, <1>2, <1>3, <1>8, <1>9 DEF ProcInv, Holding, Active, Unpublished
<1> QED BY <1>2, <1>6, <1>7, <1>10 DEF HomeInv

\* Deleting entries that no file refers to.
LEMMA DeletionStep ==
  ASSUME HomeInv, NEW p \in Procs, NEW slots \in SUBSET Slot,
         keyring' = Deleted(slots), UNCHANGED <<file, recoverable, issued>>,
         \A f \in recoverable : slots \cap FileRefs(f) = {}
  PROVE  StoreInv' /\ DOMAIN keyring' \subseteq Slot
<1>1. DOMAIN keyring' = DOMAIN keyring \ slots
  BY DEF Deleted, Restrict
<1> QED BY <1>1 DEF HomeInv, TypeOK, StoreInv

LEMMA UndoStep ==
  ASSUME HomeInv, NEW p \in Procs, Undo(p)
  PROVE  HomeInv'
<1> USE DEF Undo, Result, Goto, boundVars
<1>1. /\ pc[p] = "undo" /\ pc'[p] = "return" /\ lock' = lock /\ pc[p] \in Holding
      /\ \A q \in Procs \ {p} : pc'[q] = pc[q]
  BY DEF HomeInv, TypeOK, Holding, Active
<1>2. lock = p /\ \A q \in Procs \ {p} : ProcInv(q)'
  BY <1>1, OthersIdle
<1>3. plan[p].created \in SUBSET Slot
      /\ \A f \in recoverable : plan[p].created \cap FileRefs(f) = {}
  BY <1>1 DEF HomeInv, TypeOK, ProcInv, Plan
<1>4. StoreInv' /\ DOMAIN keyring' \subseteq Slot
  BY <1>3, DeletionStep
<1>5. TypeOK'
  BY <1>4 DEF HomeInv, TypeOK, Active, Outcomes
<1>6. ProcInv(p)'
  BY <1>1, <1>2 DEF ProcInv, Holding, Active, Unpublished
<1> QED BY <1>2, <1>4, <1>5, <1>6 DEF HomeInv

LEMMA DeleteStep ==
  ASSUME HomeInv, NEW p \in Procs, DeleteStale(p) \/ DeleteStaleFails(p)
  PROVE  HomeInv'
<1> USE DEF DeleteStale, DeleteStaleFails, boundVars, storeVars
<1>1. /\ pc[p] = "cleanup" /\ pc' = pc /\ lock' = lock /\ pc[p] \in Holding
      /\ UNCHANGED <<file, recoverable, issued>>
  BY DEF Holding, Active
<1>2. PICK s \in todo[p] : /\ todo' = [todo EXCEPT ![p] = @ \ {s}]
                          /\ (keyring' = Deleted({s}) \/ UNCHANGED keyring)
  OBVIOUS
<1>3. lock = p /\ \A q \in Procs \ {p} : ProcInv(q)'
  BY <1>1, OthersIdle
<1>4. \A f \in recoverable : todo[p] \cap FileRefs(f) = {}
  BY <1>1 DEF HomeInv, ProcInv
<1>5. todo[p] \in SUBSET Slot /\ todo'[p] \subseteq todo[p]
  BY <1>2 DEF HomeInv, TypeOK
<1>6. StoreInv' /\ DOMAIN keyring' \subseteq Slot
  <2>1. CASE keyring' = Deleted({s})
    BY <1>1, <1>4, <1>5, <2>1, DeletionStep
  <2>2. CASE UNCHANGED keyring
    BY <1>1, <2>2, StoreFrame DEF HomeInv, TypeOK
  <2> QED BY <1>2, <2>1, <2>2
<1>7. TypeOK'
  BY <1>1, <1>6, ZenonT(60) DEF HomeInv, TypeOK, Active, Outcomes
<1>8. ProcInv(p)'
  BY <1>1, <1>3, <1>4, <1>5 DEF ProcInv, Holding, Active, Unpublished
<1> QED BY <1>3, <1>6, <1>7, <1>8 DEF HomeInv

--------------------------------------------------------------------------------
\* The steps that change servers.json or what a power loss makes of it.
LEMMA PublishStep ==
  ASSUME HomeInv, NEW p \in Procs, Publish(p)
  PROVE  HomeInv'
<1> USE DEF Publish, Goto, boundVars
<1> DEFINE next == plan[p].next
<1>1. /\ pc[p] = "publish" /\ pc'[p] = "sync" /\ lock' = lock /\ pc[p] \in Holding
      /\ \A q \in Procs \ {p} : pc'[q] = pc[q]
  BY DEF HomeInv, TypeOK, Holding, Active
<1>2. lock = p /\ \A q \in Procs \ {p} : ProcInv(q)'
  BY <1>1, OthersIdle
<1>3. Publishable(p) /\ plan[p].created \subseteq DOMAIN keyring
  BY <1>1 DEF HomeInv, ProcInv, Unpublished
<1>4. next \in Config /\ CfgOf(next) = next
  BY CfgOfConfig DEF HomeInv, TypeOK, Plan
<1>5. /\ ValidConfig(CfgOf(next)) /\ FileRefs(next) \subseteq DOMAIN keyring
      /\ plan[p].stale \cap FileRefs(next) = {}
  BY <1>3, <1>4 DEF Publishable, FileRefs
<1>6. file' = next /\ recoverable' = recoverable \cup {next}
      /\ UNCHANGED <<keyring, issued, plan>>
  OBVIOUS
<1>7. TypeOK'
  BY <1>4, <1>6 DEF HomeInv, TypeOK, Active
<1>8. StoreInv'
  BY <1>5, <1>6 DEF HomeInv, StoreInv
<1>9. ProcInv(p)'
  BY <1>1, <1>2, <1>5, <1>6 DEF ProcInv, Holding, Active, Unpublished
<1> QED BY <1>2, <1>7, <1>8, <1>9 DEF HomeInv

LEMMA SyncStep ==
  ASSUME HomeInv, NEW p \in Procs, SyncDirectory(p)
  PROVE  HomeInv'
<1> USE DEF SyncDirectory, Goto, boundVars
<1>1. /\ pc[p] = "sync" /\ pc'[p] = "cleanup" /\ lock' = lock /\ pc[p] \in Holding
      /\ \A q \in Procs \ {p} : pc'[q] = pc[q]
  BY DEF HomeInv, TypeOK, Holding, Active
<1>2. lock = p /\ \A q \in Procs \ {p} : ProcInv(q)'
  BY <1>1, OthersIdle
<1>3. TypeOK'
  BY DEF HomeInv, TypeOK, Active, Outcomes, Plan
<1>4. StoreInv'
  BY DEF HomeInv, StoreInv
<1>5. todo'[p] = plan[p].stale /\ plan[p].stale \cap FileRefs(file) = {}
  BY <1>1 DEF HomeInv, TypeOK, ProcInv
<1>6. ProcInv(p)'
  BY <1>1, <1>2, <1>5 DEF ProcInv, Holding, Active, Unpublished
<1> QED BY <1>2, <1>3, <1>4, <1>6 DEF HomeInv

\* A hand edit refers to what the file referred to before.
LEMMA EditedFile ==
  ASSUME HomeInv, EditByHand
  PROVE  /\ file' \in Config /\ FileRefs(file') = FileRefs(file)
         /\ ValidConfig(CfgOf(file'))
<1> USE DEF EditByHand
<1>1. PICK n \in Registered(file) \ {file.default} : file' = [file EXCEPT !.default = n]
  OBVIOUS
<1>2. file \in Config /\ CfgOf(file) = file /\ ValidConfig(file)
  BY CfgOfType DEF HomeInv, TypeOK, StoreInv
<1>3. file' \in Config /\ file'.servers = file.servers /\ file'.default = n
  BY <1>1, <1>2 DEF Config, Registered
<1>4. CfgOf(file') = file'
  BY <1>3, CfgOfConfig
<1>5. Refs(file') = Refs(file)
  BY <1>3 DEF Refs
<1>6. ValidConfig(file')
  BY <1>1, <1>2, <1>3 DEF ValidConfig, Registered
<1> QED BY <1>2, <1>3, <1>4, <1>5, <1>6 DEF FileRefs

LEMMA EditStep ==
  ASSUME HomeInv, EditByHand
  PROVE  HomeInv'
<1> USE DEF EditByHand, commandVars
<1>1. /\ file' \in Config /\ FileRefs(file') = FileRefs(file)
      /\ ValidConfig(CfgOf(file'))
  BY EditedFile
<1>2. TypeOK'
  BY <1>1 DEF HomeInv, TypeOK
<1>3. StoreInv'
  BY <1>1 DEF HomeInv, StoreInv
<1>4. ASSUME NEW q \in Procs PROVE ProcInv(q)'
  <2>1. ProcInv(q) /\ UNCHANGED <<keyring, lock, issued, pc, base, plan, todo>>
        /\ raced' = raced \cup {p \in Procs : pc[p] \in {"stage", "publish"}}
        /\ recoverable' = recoverable \cup {file'} /\ file \in recoverable
    BY DEF HomeInv, StoreInv
  <2>2. pc[q] \in Unpublished => Publishable(q)'
    BY <1>1, <2>1 DEF ProcInv, Publishable
  <2> QED BY <1>1, <2>1, <2>2 DEF ProcInv
<1> QED BY <1>2, <1>3, <1>4 DEF HomeInv

--------------------------------------------------------------------------------
\* The steps that end an invocation, and those of the readers.
LEMMA ForgetType ==
  ASSUME TypeOK, NEW ps, Forget(ps)
  PROVE  /\ base' \in [Procs \cup Readers -> Config \cup {Missing}]
         /\ plan' \in [Procs -> Plan]
         /\ todo' \in [Procs -> SUBSET Slot]
         /\ \A q \in Procs \ ps : plan'[q] = plan[q] /\ todo'[q] = todo[q] /\ base'[q] = base[q]
<1>1. NoPlan \in Plan
  BY EmptyHome DEF NoPlan, Plan
<1> QED BY <1>1 DEF TypeOK, Forget

\* A step that leaves the home alone and lets at most its own lock go.
LEMMA LeavingStep ==
  ASSUME HomeInv, TypeOK', UNCHANGED <<storeVars, issued, raced>>,
         NEW p \in Procs \cup Readers, Forget({p}) \/ UNCHANGED <<plan, todo>>,
         p \in Procs => pc'[p] \notin Holding /\ lock' # p,
         \A q \in Procs \ {p} : /\ pc'[q] = pc[q]
                                /\ base'[q] = base[q]
                                /\ lock' = q <=> lock = q
  PROVE  HomeInv'
<1>1. StoreInv'
  BY StoreFrame DEF HomeInv
<1>2. ASSUME NEW q \in Procs PROVE ProcInv(q)'
  <2>1. CASE q = p
    BY <2>1, IdleProc
  <2>2. CASE q # p
    <3>1. plan'[q] = plan[q] /\ todo'[q] = todo[q]
      BY <2>2, ForgetType DEF HomeInv
    <3> QED BY <2>2, <3>1, ProcFrame DEF HomeInv
  <2> QED BY <2>1, <2>2
<1> QED BY <1>1, <1>2 DEF HomeInv

LEMMA ReturnStep ==
  ASSUME HomeInv, NEW p \in Procs, Return(p)
  PROVE  HomeInv'
<1> USE DEF Return, Goto, boundVars
<1>1. TypeOK'
  BY ForgetType DEF HomeInv, TypeOK, Active, storeVars
<1>2. pc[p] \in Holding /\ lock = p
  BY DEF HomeInv, ProcInv, Holding, Active
<1>3. /\ pc'[p] \notin Holding /\ lock' # p
      /\ \A q \in Procs \ {p} : pc'[q] = pc[q] /\ (lock' = q <=> lock = q)
  BY <1>2, HomeAssumption DEF HomeInv, TypeOK, Holding, Active
<1>4. \A q \in Procs \ {p} : base'[q] = base[q]
  BY ForgetType DEF HomeInv
<1> QED BY <1>1, <1>3, <1>4, LeavingStep

LEMMA CrashStep ==
  ASSUME HomeInv, NEW p \in Procs \cup Readers, Crash(p)
  PROVE  HomeInv'
<1> USE DEF Crash, boundVars
<1>1. TypeOK'
  BY ForgetType DEF HomeInv, TypeOK, Active, Outcomes, storeVars
<1>2. /\ p \in Procs => pc'[p] \notin Holding /\ lock' # p
      /\ \A q \in Procs \ {p} : pc'[q] = pc[q] /\ (lock' = q <=> lock = q)
  BY HomeAssumption DEF HomeInv, TypeOK, Holding, Active
<1>3. \A q \in Procs \ {p} : base'[q] = base[q]
  BY ForgetType DEF HomeInv
<1> QED BY <1>1, <1>2, <1>3, LeavingStep

LEMMA ReaderStep ==
  ASSUME HomeInv, NEW r \in Readers, ReadConfig(r) \/ Read(r)
  PROVE  HomeInv'
<1> USE DEF ReadConfig, Read, ReadSecret, ReadNoSecret, Goto, boundVars
<1>1. r \notin Procs
  BY HomeAssumption
<1>2. TypeOK'
  BY ForgetType DEF HomeInv, TypeOK, Active, Outcomes, storeVars
<1>3. \A q \in Procs : pc'[q] = pc[q] /\ lock' = lock /\ base'[q] = base[q]
  BY <1>1, ForgetType DEF HomeInv, TypeOK
<1>4. UNCHANGED <<storeVars, issued, raced>> /\ (Forget({r}) \/ UNCHANGED <<plan, todo>>)
  OBVIOUS
<1> QED BY <1>1, <1>2, <1>3, <1>4, LeavingStep

LEMMA PowerLossStep ==
  ASSUME HomeInv, PowerLoss
  PROVE  HomeInv'
<1> USE DEF PowerLoss
<1>1. TypeOK'
  BY ForgetType DEF HomeInv, TypeOK, Active, Outcomes
<1>2. StoreInv'
  BY DEF HomeInv, StoreInv
<1>3. ASSUME NEW q \in Procs PROVE ProcInv(q)'
  <2>1. pc'[q] \notin Holding /\ lock' # q
    BY HomeAssumption DEF HomeInv, TypeOK, Holding, Active
  <2> QED BY <2>1, IdleProc
<1> QED BY <1>1, <1>2, <1>3 DEF HomeInv

--------------------------------------------------------------------------------
\* HomeInv is inductive.
LEMMA HomeInvNext == HomeInv /\ [Next]_vars => HomeInv'
<1> SUFFICES ASSUME HomeInv, [Next]_vars PROVE HomeInv'
  OBVIOUS
<1>1. ASSUME NEW p \in Procs, Start(p) \/ Step(p) PROVE HomeInv'
  <2>1. CASE Start(p) \/ AcquireLock(p) \/ LockTimeout(p)
    BY <2>1, StartStep
  <2>2. CASE \/ Refuse(p) \/ Decline(p) \/ Confirm(p) \/ CheckRevision(p) \/ Stage(p)
             \/ PublishFails(p) \/ SyncFails(p) \/ UndoFails(p) \/ CleanupDone(p)
    BY <2>2, QuietStep
  <2>3. CASE Command(p)
    BY <2>3, CommandStep
  <2>4. CASE StorePassword(p) \/ StoreFails(p)
    BY <2>4, StoreStep
  <2>5. CASE Publish(p)
    BY <2>5, PublishStep
  <2>6. CASE SyncDirectory(p)
    BY <2>6, SyncStep
  <2>7. CASE Undo(p)
    BY <2>7, UndoStep
  <2>8. CASE DeleteStale(p) \/ DeleteStaleFails(p)
    BY <2>8, DeleteStep
  <2>9. CASE Return(p)
    BY <2>9, ReturnStep
  <2> QED BY <1>1, <2>1, <2>2, <2>3, <2>4, <2>5, <2>6, <2>7, <2>8, <2>9 DEF Step
<1>2. ASSUME NEW r \in Readers, ReadConfig(r) \/ Read(r) PROVE HomeInv'
  BY <1>2, ReaderStep
<1>3. ASSUME NEW p \in Procs \cup Readers, Crash(p) PROVE HomeInv'
  BY <1>3, CrashStep
<1>4. CASE EditByHand
  BY <1>4, EditStep
<1>5. CASE PowerLoss
  BY <1>5, PowerLossStep
<1>6. CASE AllDone \/ UNCHANGED vars
  <2>1. UNCHANGED vars
    BY <1>6 DEF AllDone
  <2>2. TypeOK'
    BY <2>1 DEF HomeInv, TypeOK, vars
  <2>3. StoreInv'
    BY <2>1 DEF HomeInv, StoreInv, vars
  <2>4. \A p \in Procs : ProcInv(p)'
    BY <2>1, ProcFrame DEF HomeInv, vars, storeVars
  <2> QED BY <2>2, <2>3, <2>4 DEF HomeInv
<1> QED BY <1>1, <1>2, <1>3, <1>4, <1>5, <1>6 DEF Next

LEMMA HomeInvariant == Spec => []HomeInv
<1> QED BY HomeInvInit, HomeInvNext, PTL DEF Spec

\* Every variable keeps its type, whatever the home holds.
THEOREM TypeCorrect == Spec => []TypeOK
<1>1. HomeInv => TypeOK
  BY DEF HomeInv
<1> QED BY <1>1, HomeInvariant, PTL

\* No crash, power loss or failed call leaves servers.json referring to a
\* password that is not in the keyring.
THEOREM EveryReferenceResolves == Spec => []ReferencesResolve
<1>1. HomeInv => ReferencesResolve
  BY DEF HomeInv, StoreInv, ReferencesResolve
<1> QED BY <1>1, HomeInvariant, PTL

\* Every config a command publishes passes the validation of the next load.
THEOREM EveryConfigLoads == Spec => []ConfigAlwaysLoads
<1>1. HomeInv => ConfigAlwaysLoads
  BY DEF HomeInv, StoreInv, ConfigAlwaysLoads
<1> QED BY <1>1, HomeInvariant, PTL

--------------------------------------------------------------------------------
\* A save only replaces the config the command loaded, but for hand edits that
\* overtake its revision check.
THEOREM NoUpdateIsLost == Spec => NoLostUpdate
<1>1. HomeInv /\ [Next]_vars =>
        [\A p \in Procs : pc[p] = "publish" /\ pc'[p] = "sync" =>
           file = base[p] \/ p \in raced]_vars
  BY DEF HomeInv, ProcInv
<1> QED BY <1>1, HomeInvariant, PTL DEF Spec, NoLostUpdate

\* What a step does to the home.
LEMMA StepEffects ==
  ASSUME HomeInv, [Next]_vars
  PROVE  \/ UNCHANGED storeVars
         \/ /\ UNCHANGED <<file, recoverable>>
            /\ \A s \in DOMAIN keyring \cap DOMAIN keyring' : keyring'[s] = keyring[s]
         \/ recoverable' = recoverable \cup {file'} /\ UNCHANGED keyring
         \/ recoverable' = {file} /\ UNCHANGED <<file, keyring>>
         \/ file' \in recoverable /\ recoverable' = {file'} /\ UNCHANGED keyring
<1>1. ASSUME NEW p \in Procs, Start(p) PROVE UNCHANGED storeVars
  BY <1>1 DEF Start
<1>2. ASSUME NEW p \in Procs, AcquireLock(p) \/ LockTimeout(p) \/ Return(p) \/ Refuse(p)
                              \/ Decline(p) \/ Confirm(p) \/ CheckRevision(p) \/ Stage(p)
                              \/ PublishFails(p) \/ SyncFails(p) \/ UndoFails(p)
                              \/ DeleteStaleFails(p) \/ CleanupDone(p)
      PROVE  UNCHANGED storeVars
  BY <1>2 DEF AcquireLock, LockTimeout, Return, Refuse, Decline, Confirm, CheckRevision, Stage,
              PublishFails, SyncFails, UndoFails, DeleteStaleFails, CleanupDone
<1>3. ASSUME NEW p \in Procs, Command(p) PROVE UNCHANGED storeVars
  <2>1. \E newPlan : Begin(p, newPlan)
    BY <1>3, CommandPlan
  <2> QED BY <2>1 DEF Begin
<1>4. ASSUME NEW p \in Procs, StorePassword(p) \/ StoreFails(p)
      PROVE  /\ UNCHANGED <<file, recoverable>>
             /\ \A s \in DOMAIN keyring \cap DOMAIN keyring' : keyring'[s] = keyring[s]
  <2>1. plan[p].created \cap DOMAIN keyring = {}
    BY <1>4 DEF HomeInv, ProcInv, StorePassword, StoreFails, Result, Goto
  <2>2. \/ UNCHANGED keyring
        \/ \E s \in plan[p].created : keyring' = Stored({s}, issued)
    BY <1>4 DEF StorePassword, StoreFails
  <2>3. ASSUME NEW s \in plan[p].created, keyring' = Stored({s}, issued)
        PROVE  \A t \in DOMAIN keyring : keyring'[t] = keyring[t]
    BY <2>1, <2>3 DEF Stored
  <2> QED BY <1>4, <2>2, <2>3 DEF StorePassword, StoreFails
<1>5. ASSUME NEW slots, keyring' = Deleted(slots)
      PROVE  \A s \in DOMAIN keyring \cap DOMAIN keyring' : keyring'[s] = keyring[s]
  BY <1>5 DEF Deleted, Restrict
<1>6. ASSUME NEW p \in Procs, Undo(p) \/ DeleteStale(p)
      PROVE  /\ UNCHANGED <<file, recoverable>>
             /\ \A s \in DOMAIN keyring \cap DOMAIN keyring' : keyring'[s] = keyring[s]
  <2>1. UNCHANGED <<file, recoverable>> /\ \E slots : keyring' = Deleted(slots)
    BY <1>6 DEF Undo, DeleteStale
  <2> QED BY <1>5, <2>1
<1>7. ASSUME NEW p \in Procs, Publish(p)
      PROVE  recoverable' = recoverable \cup {file'} /\ UNCHANGED keyring
  BY <1>7 DEF Publish
<1>8. ASSUME NEW p \in Procs, SyncDirectory(p)
      PROVE  recoverable' = {file} /\ UNCHANGED <<file, keyring>>
  BY <1>8 DEF SyncDirectory
<1>9. ASSUME NEW r \in Readers, ReadConfig(r) \/ Read(r) PROVE UNCHANGED storeVars
  BY <1>9 DEF ReadConfig, Read, ReadSecret, ReadNoSecret
<1>10. ASSUME NEW p \in Procs \cup Readers, Crash(p) PROVE UNCHANGED storeVars
  BY <1>10 DEF Crash
<1>11. CASE EditByHand
  BY <1>11 DEF EditByHand
<1>12. CASE PowerLoss
  BY <1>12 DEF PowerLoss
<1>13. CASE AllDone \/ UNCHANGED vars
  BY <1>13 DEF AllDone, vars, storeVars
<1> QED BY <1>1, <1>2, <1>3, <1>4, <1>6, <1>7, <1>8, <1>9, <1>10, <1>11, <1>12, <1>13
        DEF Next, Step

\* No entry of the keyring is ever given another password.
THEOREM NoSecretIsOverwritten == Spec => SecretsNeverOverwritten
<1>1. HomeInv /\ [Next]_vars =>
        [\A s \in DOMAIN keyring \cap DOMAIN keyring' : keyring'[s] = keyring[s]]_vars
  BY StepEffects DEF storeVars
<1> QED BY <1>1, HomeInvariant, PTL DEF Spec, SecretsNeverOverwritten

\* The home implements its abstract promise: no password that a power loss may
\* make servers.json refer to is given up before the file is hardened.
THEOREM HomeImplementsAbstractHome == Spec => ImplementsAbstractHome
<1>1. Init => AbstractHomeSpec!Init
  BY DEF Init, AbstractHomeSpec!Init
<1>2. HomeInv /\ HomeInv' /\ [Next]_vars => [AbstractHomeSpec!Next]_(AbstractHomeSpec!vars)
  <2> SUFFICES ASSUME HomeInv, HomeInv', [Next]_vars
               PROVE  [AbstractHomeSpec!Next]_(AbstractHomeSpec!vars)
    OBVIOUS
  <2> USE DEF AbstractHomeSpec!Next, AbstractHomeSpec!vars
  <2>1. CASE UNCHANGED storeVars
    BY <2>1 DEF storeVars
  <2>2. CASE /\ UNCHANGED <<file, recoverable>>
             /\ \A s \in DOMAIN keyring \cap DOMAIN keyring' : keyring'[s] = keyring[s]
    <3>1. AbstractHomeSpec!Needed \subseteq DOMAIN keyring'
      BY <2>2 DEF HomeInv, StoreInv, AbstractHomeSpec!Needed
    <3> QED BY <2>2, <3>1 DEF AbstractHomeSpec!ChangeKeyring
  <2>3. CASE recoverable' = recoverable \cup {file'} /\ UNCHANGED keyring
    <3>1. FileRefs(file') \subseteq DOMAIN keyring
      BY <2>3 DEF HomeInv, StoreInv
    <3> QED BY <2>3, <3>1 DEF AbstractHomeSpec!Replace
  <2>4. CASE recoverable' = {file} /\ UNCHANGED <<file, keyring>>
    BY <2>4 DEF AbstractHomeSpec!Harden
  <2>5. CASE file' \in recoverable /\ recoverable' = {file'} /\ UNCHANGED keyring
    BY <2>5 DEF AbstractHomeSpec!LosePower
  <2> QED BY <2>1, <2>2, <2>3, <2>4, <2>5, StepEffects
<1> QED BY <1>1, <1>2, HomeInvariant, PTL
        DEF Spec, ImplementsAbstractHome, AbstractHomeSpec!Spec

--------------------------------------------------------------------------------
\* A reader that has not got its secret yet has no result yet.
Pending == \A r \in Readers : pc[r] \in {"start", "secret"} => outcome[r] = "none"

LEMMA EditorLeavesReaders ==
  ASSUME HomeInv, NEW p \in Procs, Start(p) \/ Step(p), NEW r \in Readers
  PROVE  pc'[r] = pc[r] /\ outcome'[r] = outcome[r]
<1>1. r \notin Procs /\ TypeOK
  BY HomeAssumption DEF HomeInv
<1>2. CASE Command(p)
  BY <1>1, <1>2, CommandPlan DEF Begin, Goto, TypeOK
<1>3. CASE ~Command(p)
  BY <1>1, <1>3 DEF TypeOK, Goto, Result, Step, Start, AcquireLock, LockTimeout, Refuse, Decline,
     Confirm, StorePassword, StoreFails, CheckRevision, Stage, Publish, PublishFails,
     SyncDirectory, SyncFails, Undo, UndoFails, DeleteStale, DeleteStaleFails, CleanupDone, Return
<1> QED BY <1>2, <1>3

LEMMA PendingNext ==
  ASSUME HomeInv, Pending, [Next]_vars
  PROVE  Pending'
<1> SUFFICES ASSUME NEW r \in Readers, pc'[r] \in {"start", "secret"}
             PROVE  outcome'[r] = "none"
  BY DEF Pending
<1>1. r \notin Procs /\ TypeOK
  BY HomeAssumption DEF HomeInv
<1>2. ASSUME NEW p \in Procs, Start(p) \/ Step(p) PROVE pc'[r] = pc[r] /\ outcome'[r] = outcome[r]
  BY <1>2, EditorLeavesReaders
<1>3. ASSUME NEW q \in Readers, ReadConfig(q) \/ Read(q)
      PROVE  pc[r] \in {"start", "secret"} /\ outcome'[r] = outcome[r]
  BY <1>1, <1>3 DEF TypeOK, Goto, ReadConfig, Read, ReadSecret, ReadNoSecret
<1>4. ASSUME NEW p \in Procs \cup Readers, Crash(p)
      PROVE  pc[r] \in {"start", "secret"} /\ outcome'[r] = outcome[r]
  BY <1>1, <1>4 DEF TypeOK, Crash
<1>5. CASE EditByHand \/ AllDone \/ UNCHANGED vars
  BY <1>5 DEF Pending, EditByHand, AllDone, vars, commandVars
<1>6. CASE PowerLoss
  BY <1>1, <1>6 DEF Pending, PowerLoss, TypeOK, Active
<1> QED BY <1>2, <1>3, <1>4, <1>5, <1>6 DEF Next, Pending

\* run, put and get miss a password only after the config they read was replaced.
THEOREM ReaderMissExplained == Spec => ReaderMissesOnlyIfChanged
<1>1. Init => Pending
  BY DEF Init, Pending
<1>2. HomeInv /\ Pending /\ [Next]_vars => Pending'
  BY PendingNext
<1>3. HomeInv /\ Pending /\ [Next]_vars =>
        [\A r \in Readers : pc[r] = "secret" /\ outcome'[r] = "error" => file # base[r]]_vars
  <2> SUFFICES ASSUME HomeInv, Pending, [Next]_vars, NEW r \in Readers,
                      pc[r] = "secret", outcome'[r] = "error"
               PROVE  file # base[r]
    OBVIOUS
  <2>1. outcome[r] = "none" /\ r \notin Procs /\ TypeOK
    BY HomeAssumption DEF Pending, HomeInv
  <2>2. PICK s \in FileRefs(base[r]) : s \notin DOMAIN keyring
    <3>1. ASSUME NEW p \in Procs, Start(p) \/ Step(p) PROVE outcome'[r] = outcome[r]
      BY <3>1, EditorLeavesReaders
    <3>2. ASSUME NEW q \in Readers, ReadConfig(q) \/ ReadNoSecret(q)
          PROVE  outcome'[r] = outcome[r]
      BY <3>2 DEF ReadConfig, ReadNoSecret, Goto
    <3>3. ASSUME NEW q \in Readers, ReadSecret(q)
          PROVE  \E s \in FileRefs(base[r]) : s \notin DOMAIN keyring
      BY <2>1, <3>3 DEF ReadSecret, Goto, TypeOK
    <3>4. ASSUME NEW p \in Procs \cup Readers, Crash(p) PROVE outcome'[r] \in {"none", "crashed"}
      BY <2>1, <3>4 DEF Crash, TypeOK
    <3>5. CASE EditByHand \/ AllDone \/ UNCHANGED vars
      BY <2>1, <3>5 DEF EditByHand, AllDone, vars, commandVars
    <3>6. CASE PowerLoss
      BY <2>1, <3>6 DEF PowerLoss, TypeOK
    <3> QED BY <2>1, <3>1, <3>2, <3>3, <3>4, <3>5, <3>6 DEF Next, Read
  <2>3. FileRefs(file) \subseteq DOMAIN keyring
    BY DEF HomeInv, StoreInv
  <2> QED BY <2>2, <2>3
<1> QED BY <1>1, <1>2, <1>3, HomeInvariant, PTL DEF Spec, ReaderMissesOnlyIfChanged

--------------------------------------------------------------------------------
\* What the invocation that holds the lock owes the home: which entries the
\* keyring holds beside those servers.json refers to, as long as no call failed,
\* and what a plan changes of the references.
Tidy(p) ==
  /\ pc[p] \in Unpublished =>
       /\ plan[p].created \subseteq Refs(plan[p].next)
       /\ Refs(plan[p].next) \cup plan[p].stale = FileRefs(file) \cup plan[p].created
  /\ pc[p] \in {"sync", "cleanup"} \/ (pc[p] = "return" /\ outcome[p] = "ok") =>
       plan[p].created \subseteq DOMAIN keyring \cap FileRefs(file)
  /\ pc[p] = "cleanup" /\ outcome[p] = "ok" => plan[p].stale \cap DOMAIN keyring \subseteq todo[p]
  /\ pc[p] = "return" /\ outcome[p] = "ok" => plan[p].stale \cap DOMAIN keyring = {}
  /\ ~faulty =>
       /\ pc[p] \in {"load", "prompt", "store", "return"} => DOMAIN keyring = FileRefs(file)
       /\ pc[p] \in {"check", "stage", "publish", "undo"} =>
            DOMAIN keyring = FileRefs(file) \cup plan[p].created
       /\ pc[p] = "sync" => DOMAIN keyring = FileRefs(file) \cup plan[p].stale
       /\ pc[p] = "cleanup" => DOMAIN keyring = FileRefs(file) \cup todo[p]

TidyInv ==
  /\ ~faulty /\ lock = NoProc => DOMAIN keyring = FileRefs(file)
  /\ \A p \in Procs : Tidy(p)

\* An invocation that does not hold the lock owes nothing.
LEMMA TidyIdle ==
  ASSUME NEW q \in Procs, pc'[q] \notin Holding
  PROVE  Tidy(q)'
BY DEF Tidy, Holding, Active, Unpublished

LEMMA TidyFrame ==
  ASSUME NEW q \in Procs, Tidy(q), FileRefs(file') = FileRefs(file), keyring' = keyring,
         pc'[q] = pc[q], plan'[q] = plan[q], todo'[q] = todo[q], outcome'[q] = outcome[q],
         faulty' \/ (faulty' = faulty)
  PROVE  Tidy(q)'
BY DEF Tidy

\* A step of the lock's holder leaves only its own duties to check.
LEMMA TidyHolder ==
  ASSUME HomeInv, NEW p \in Procs, pc[p] \in Holding, lock' = lock, Tidy(p)',
         \A q \in Procs \ {p} : pc'[q] = pc[q]
  PROVE  TidyInv'
<1>1. lock = p /\ \A q \in Procs \ {p} : pc[q] \notin Holding
  BY DEF HomeInv, ProcInv
<1>2. \A q \in Procs \ {p} : Tidy(q)'
  BY <1>1, TidyIdle
<1>3. lock' # NoProc
  BY <1>1, HomeAssumption
<1> QED BY <1>2, <1>3 DEF TidyInv

LEMMA TidyInit == Init => TidyInv
<1> SUFFICES ASSUME Init PROVE TidyInv
  OBVIOUS
<1>1. DOMAIN keyring = FileRefs(file)
  BY DEF Init
<1>2. ASSUME NEW p \in Procs PROVE Tidy(p)
  BY DEF Init, Tidy, Unpublished
<1> QED BY <1>1, <1>2 DEF TidyInv

LEMMA TidyStart ==
  ASSUME HomeInv, TidyInv, NEW p \in Procs, Start(p) \/ AcquireLock(p) \/ LockTimeout(p)
  PROVE  TidyInv'
<1> USE DEF Start, AcquireLock, LockTimeout, Goto
<1>1. /\ UNCHANGED <<storeVars, faulty, plan, todo>>
      /\ \A q \in Procs \ {p} : pc'[q] = pc[q] /\ outcome'[q] = outcome[q]
      /\ pc'[p] \in {"lock", "load", "done"}
      /\ pc'[p] = "load" => lock = NoProc
      /\ lock' = NoProc => lock = NoProc
  BY HomeAssumption DEF HomeInv, TypeOK
<1>2. ~faulty' /\ lock' = NoProc => DOMAIN keyring' = FileRefs(file)'
  BY <1>1 DEF TidyInv, storeVars
<1>3. Tidy(p)'
  BY <1>1 DEF TidyInv, Tidy, Unpublished, storeVars
<1>4. \A q \in Procs \ {p} : Tidy(q)'
  BY <1>1, TidyFrame DEF TidyInv, storeVars
<1> QED BY <1>2, <1>3, <1>4 DEF TidyInv

LEMMA TidyQuiet ==
  ASSUME HomeInv, TidyInv, NEW p \in Procs,
         \/ Refuse(p) \/ Decline(p) \/ Confirm(p) \/ CheckRevision(p) \/ Stage(p)
         \/ PublishFails(p) \/ SyncFails(p) \/ UndoFails(p) \/ CleanupDone(p)
  PROVE  TidyInv'
<1> USE DEF Refuse, Decline, Confirm, CheckRevision, Stage, PublishFails, SyncFails, UndoFails,
            CleanupDone, Goto, Result
<1>1. /\ pc[p] \in Holding /\ lock' = lock /\ UNCHANGED <<storeVars, plan, todo>>
      /\ \A q \in Procs \ {p} : pc'[q] = pc[q]
      /\ faulty' \/ (faulty' = faulty)
  BY DEF HomeInv, TypeOK, Holding, Active
<1>2. \/ pc'[p] = "return" /\ outcome'[p] # "ok"
      \/ pc'[p] # "return" /\ outcome' = outcome
      \/ pc[p] = "cleanup" /\ pc'[p] = "return" /\ todo[p] = {} /\ outcome' = outcome
  BY DEF HomeInv, TypeOK
<1>3. /\ pc'[p] \notin {"sync", "cleanup", "load"}
      /\ pc'[p] \in Unpublished \cup {"undo"} => pc[p] \in Unpublished
  BY DEF HomeInv, TypeOK, Unpublished
<1>4. Tidy(p)
  BY DEF TidyInv
<1>5. /\ pc'[p] \in {"prompt", "store"} => pc[p] \in {"prompt", "store"}
      /\ pc'[p] = "check" => pc[p] = "prompt" /\ plan[p].created = {}
      /\ pc'[p] \in {"stage", "publish", "undo"} => pc[p] \in {"check", "stage", "publish"}
      /\ pc'[p] = "return" /\ ~faulty' => \/ pc[p] \in {"load", "prompt"}
                                          \/ pc[p] = "cleanup" /\ todo[p] = {}
  BY DEF HomeInv, TypeOK
<1>6. ~faulty' =>
       /\ pc'[p] \in {"load", "prompt", "store", "return"} => DOMAIN keyring = FileRefs(file)
       /\ pc'[p] \in {"check", "stage", "publish", "undo"} =>
            DOMAIN keyring = FileRefs(file) \cup plan[p].created
  BY <1>1, <1>3, <1>4, <1>5 DEF Tidy
<1>7. Tidy(p)'
  BY <1>1, <1>2, <1>3, <1>4, <1>6 DEF Tidy, storeVars, Unpublished
<1> QED BY <1>1, <1>7, TidyHolder

\* A plan differs from the file it was made for by what it creates and deletes.
LEMMA TidyCommand ==
  ASSUME HomeInv, TidyInv, NEW p \in Procs, Command(p)
  PROVE  TidyInv'
<1>1. PICK newPlan : Begin(p, newPlan) /\ SafePlan(newPlan, CfgOf(file), issued)
  BY CommandPlan
<1> USE DEF Begin, Goto
<1>2. /\ pc[p] = "load" /\ pc'[p] = "prompt" /\ pc[p] \in Holding /\ lock' = lock
      /\ \A q \in Procs \ {p} : pc'[q] = pc[q]
      /\ plan'[p] = newPlan /\ UNCHANGED <<storeVars, faulty>>
  BY <1>1 DEF HomeInv, TypeOK, Holding, Active
<1>3. /\ newPlan.created \subseteq Refs(newPlan.next)
      /\ Refs(newPlan.next) \cup newPlan.stale = FileRefs(file) \cup newPlan.created
  BY <1>1 DEF SafePlan, FileRefs
<1>4. ~faulty => DOMAIN keyring = FileRefs(file)
  BY <1>2 DEF TidyInv, Tidy
<1>5. Tidy(p)'
  BY <1>2, <1>3, <1>4 DEF Tidy, storeVars
<1> QED BY <1>2, <1>5, TidyHolder

LEMMA TidyStore ==
  ASSUME HomeInv, TidyInv, NEW p \in Procs, StorePassword(p) \/ StoreFails(p)
  PROVE  TidyInv'
<1> USE DEF StorePassword, StoreFails, Goto, Result
<1>1. /\ pc[p] = "store" /\ pc[p] \in Holding /\ lock' = lock
      /\ \A q \in Procs \ {p} : pc'[q] = pc[q]
      /\ UNCHANGED <<file, plan, todo>>
  BY DEF HomeInv, TypeOK, Holding, Active
<1>2. CASE StorePassword(p)
  <2>1. pc'[p] = "check" /\ UNCHANGED faulty
    BY <1>2 DEF HomeInv, TypeOK
  <2>2. PICK s \in plan[p].created : keyring' = Stored({s}, issued)
    BY <1>2
  <2>3. plan[p].created = {s}
    BY <1>1, <2>2 DEF HomeInv, ProcInv, Publishable, Unpublished
  <2>4. DOMAIN keyring' = DOMAIN keyring \cup plan[p].created
    BY <2>2, <2>3 DEF Stored
  <2> QED BY <1>1, <2>1, <2>4, TidyHolder DEF TidyInv, Tidy, Unpublished
<1>3. CASE StoreFails(p)
  <2>1. pc'[p] = "return" /\ outcome'[p] = "error" /\ faulty'
    BY <1>3 DEF HomeInv, TypeOK
  <2> QED BY <1>1, <2>1, TidyHolder DEF Tidy, Unpublished
<1> QED BY <1>2, <1>3

LEMMA TidyPublish ==
  ASSUME HomeInv, TidyInv, NEW p \in Procs, Publish(p)
  PROVE  TidyInv'
<1> USE DEF Publish, Goto
<1>1. /\ pc[p] = "publish" /\ pc'[p] = "sync" /\ pc[p] \in Holding /\ lock' = lock
      /\ \A q \in Procs \ {p} : pc'[q] = pc[q]
      /\ UNCHANGED <<keyring, plan, faulty>>
  BY DEF HomeInv, TypeOK, Holding, Active
<1>2. file' = plan[p].next /\ FileRefs(file') = Refs(plan[p].next)
  BY CfgOfConfig DEF HomeInv, TypeOK, Plan, FileRefs
<1>3. Tidy(p) /\ plan[p].created \subseteq DOMAIN keyring
  BY <1>1 DEF HomeInv, ProcInv, TidyInv
<1>4. Tidy(p)'
  BY <1>1, <1>2, <1>3 DEF Tidy, Unpublished
<1> QED BY <1>1, <1>4, TidyHolder

LEMMA TidySync ==
  ASSUME HomeInv, TidyInv, NEW p \in Procs, SyncDirectory(p)
  PROVE  TidyInv'
<1> USE DEF SyncDirectory, Goto
<1>1. /\ pc[p] = "sync" /\ pc'[p] = "cleanup" /\ pc[p] \in Holding /\ lock' = lock
      /\ \A q \in Procs \ {p} : pc'[q] = pc[q]
      /\ UNCHANGED <<file, keyring, plan, faulty>> /\ todo'[p] = plan[p].stale
  BY DEF HomeInv, TypeOK, Holding, Active
<1>2. /\ plan[p].created \subseteq DOMAIN keyring \cap FileRefs(file)
      /\ ~faulty => DOMAIN keyring = FileRefs(file) \cup plan[p].stale
  BY <1>1 DEF TidyInv, Tidy
<1> HIDE DEF SyncDirectory
<1>3. Tidy(p)'
  BY <1>1, <1>2 DEF Tidy, Unpublished
<1> QED BY <1>1, <1>3, TidyHolder

LEMMA TidyUndo ==
  ASSUME HomeInv, TidyInv, NEW p \in Procs, Undo(p)
  PROVE  TidyInv'
<1> USE DEF Undo, Result, Goto
<1>1. /\ pc[p] = "undo" /\ pc'[p] = "return" /\ pc[p] \in Holding /\ lock' = lock
      /\ \A q \in Procs \ {p} : pc'[q] = pc[q]
      /\ UNCHANGED <<file, faulty>> /\ outcome'[p] = "error"
  BY DEF HomeInv, TypeOK, Holding, Active
<1>2. DOMAIN keyring' = DOMAIN keyring \ plan[p].created
  BY DEF Deleted, Restrict
<1>3. plan[p].created \cap FileRefs(file) = {}
  BY <1>1 DEF HomeInv, ProcInv, StoreInv
<1>4. ~faulty => DOMAIN keyring = FileRefs(file) \cup plan[p].created
  BY <1>1 DEF TidyInv, Tidy
<1> HIDE DEF Undo
<1>5. Tidy(p)'
  BY <1>1, <1>2, <1>3, <1>4 DEF Tidy, Unpublished
<1> QED BY <1>1, <1>5, TidyHolder

LEMMA TidyDelete ==
  ASSUME HomeInv, TidyInv, NEW p \in Procs, DeleteStale(p) \/ DeleteStaleFails(p)
  PROVE  TidyInv'
<1> USE DEF DeleteStale, DeleteStaleFails, storeVars
<1>1. /\ pc[p] = "cleanup" /\ pc' = pc /\ pc[p] \in Holding /\ lock' = lock
      /\ UNCHANGED <<file, plan>>
  BY DEF Holding, Active
<1>2. /\ Tidy(p) /\ todo[p] \cap FileRefs(file) = {}
      /\ plan[p].created \subseteq DOMAIN keyring \cap FileRefs(file)
  BY <1>1 DEF HomeInv, ProcInv, StoreInv, TidyInv, Tidy
<1>3. CASE DeleteStale(p)
  <2>1. PICK s \in todo[p] : /\ DOMAIN keyring' = DOMAIN keyring \ {s}
                             /\ todo'[p] = todo[p] \ {s}
    BY <1>3 DEF Deleted, Restrict, HomeInv, TypeOK
  <2>2. UNCHANGED <<outcome, faulty>> /\ s \notin FileRefs(file)
    BY <1>2, <1>3, <2>1
  <2>3. Tidy(p)'
    BY <1>1, <1>2, <2>1, <2>2 DEF Tidy, Unpublished
  <2> QED BY <1>1, <2>3, TidyHolder
<1>4. CASE DeleteStaleFails(p)
  <2>1. UNCHANGED keyring /\ outcome'[p] = "error" /\ faulty'
    BY <1>4 DEF HomeInv, TypeOK
  <2>2. Tidy(p)'
    BY <1>1, <1>2, <2>1 DEF Tidy, Unpublished
  <2> QED BY <1>1, <2>2, TidyHolder
<1> QED BY <1>3, <1>4

LEMMA TidyReturn ==
  ASSUME HomeInv, TidyInv, NEW p \in Procs, Return(p)
  PROVE  TidyInv'
<1> USE DEF Return, Goto
<1>1. /\ pc[p] = "return" /\ pc'[p] = "done" /\ UNCHANGED <<storeVars, faulty, outcome>>
      /\ \A q \in Procs \ {p} : pc'[q] = pc[q]
  BY DEF HomeInv, TypeOK
<1>2. ~faulty => DOMAIN keyring = FileRefs(file)
  BY <1>1 DEF TidyInv, Tidy
<1>3. \A q \in Procs : pc'[q] \notin Holding
  BY <1>1 DEF HomeInv, ProcInv, Holding, Active
<1>4. \A q \in Procs : Tidy(q)'
  BY <1>3, TidyIdle
<1> QED BY <1>1, <1>2, <1>4 DEF TidyInv, storeVars

\* What happens around the invocations.
LEMMA TidyOutside ==
  ASSUME HomeInv, TidyInv,
         \/ \E r \in Readers : ReadConfig(r) \/ Read(r)
         \/ \E p \in Procs \cup Readers : Crash(p)
         \/ EditByHand \/ PowerLoss \/ AllDone \/ UNCHANGED vars
  PROVE  TidyInv'
<1>1. ASSUME NEW r \in Readers, ReadConfig(r) \/ Read(r) PROVE TidyInv'
  <2>1. r \notin Procs /\ TypeOK
    BY HomeAssumption DEF HomeInv
  <2>2. \A q \in Procs : /\ pc'[q] = pc[q] /\ outcome'[q] = outcome[q]
                         /\ plan'[q] = plan[q] /\ todo'[q] = todo[q]
    BY <1>1, <2>1, ForgetType DEF TypeOK, ReadConfig, Read, ReadSecret, ReadNoSecret, Goto
  <2>3. UNCHANGED <<storeVars, lock, faulty>>
    BY <1>1 DEF ReadConfig, Read, ReadSecret, ReadNoSecret
  <2> QED BY <2>2, <2>3, TidyFrame DEF TidyInv, storeVars
<1>2. ASSUME NEW p \in Procs \cup Readers, Crash(p) PROVE TidyInv'
  <2>1. faulty' /\ UNCHANGED storeVars
    BY <1>2 DEF Crash
  <2>2. ASSUME NEW q \in Procs PROVE Tidy(q)'
    <3>1. CASE q = p
      <4>1. pc'[q] = "done"
        BY <1>2, <3>1 DEF Crash, HomeInv, TypeOK
      <4> QED BY <4>1, TidyIdle DEF Holding, Active
    <3>2. CASE q # p
      <4>1. /\ pc'[q] = pc[q] /\ outcome'[q] = outcome[q]
            /\ plan'[q] = plan[q] /\ todo'[q] = todo[q]
        BY <1>2, <3>2, ForgetType DEF Crash, HomeInv, TypeOK
      <4> QED BY <2>1, <4>1, TidyFrame DEF TidyInv, storeVars
    <3> QED BY <3>1, <3>2
  <2> QED BY <2>1, <2>2 DEF TidyInv
<1>3. CASE EditByHand
  <2>1. FileRefs(file') = FileRefs(file) /\ UNCHANGED <<keyring, lock, commandVars, faulty>>
    BY <1>3, EditedFile DEF EditByHand
  <2> QED BY <2>1, TidyFrame DEF TidyInv, commandVars
<1>4. CASE PowerLoss
  <2>1. faulty' /\ \A q \in Procs : pc'[q] \notin Holding
    BY <1>4 DEF PowerLoss, HomeInv, TypeOK, Holding, Active
  <2> QED BY <2>1, TidyIdle DEF TidyInv
<1>5. CASE AllDone \/ UNCHANGED vars
  <2>1. UNCHANGED vars
    BY <1>5 DEF AllDone
  <2> QED BY <2>1, TidyFrame DEF TidyInv, vars
<1> QED BY <1>1, <1>2, <1>3, <1>4, <1>5

LEMMA TidyNext == HomeInv /\ TidyInv /\ [Next]_vars => TidyInv'
<1> SUFFICES ASSUME HomeInv, TidyInv, [Next]_vars PROVE TidyInv'
  OBVIOUS
<1>1. ASSUME NEW p \in Procs, Start(p) \/ Step(p) PROVE TidyInv'
  BY <1>1, TidyStart, TidyQuiet, TidyCommand, TidyStore, TidyPublish, TidySync, TidyUndo,
     TidyDelete, TidyReturn DEF Step
<1>2. CASE \/ \E r \in Readers : ReadConfig(r) \/ Read(r)
           \/ \E p \in Procs \cup Readers : Crash(p)
           \/ EditByHand \/ PowerLoss \/ AllDone \/ UNCHANGED vars
  BY <1>2, TidyOutside
<1> QED BY <1>1, <1>2 DEF Next

\* A command that reports success has deleted every password it replaced and
\* uses the one it stored; without faults, the keyring of an idle home holds the
\* passwords servers.json refers to and no other.
THEOREM NoPasswordOutlivesItsUse == Spec => []NothingLeftBehind
<1>1. HomeInv /\ TidyInv => NothingLeftBehind
  <2> SUFFICES ASSUME HomeInv, TidyInv PROVE SuccessIsComplete /\ NoOrphans
    BY DEF NothingLeftBehind
  <2>1. SuccessIsComplete
    BY DEF TidyInv, Tidy, SuccessIsComplete
  <2>2. (\A p \in Procs : pc[p] \notin Holding) => lock = NoProc
    BY DEF HomeInv, TypeOK, ProcInv
  <2>3. NoOrphans
    BY <2>2 DEF TidyInv, NoOrphans
  <2> QED BY <2>1, <2>3
<1> QED BY <1>1, TidyInit, TidyNext, HomeInvariant, PTL DEF Spec
================================================================================
