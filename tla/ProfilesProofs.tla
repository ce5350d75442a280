------------------------------ MODULE ProfilesProofs -----------------------------
(***************************************************************************)
(* The registry stays loadable, an id keeps its home and a home its        *)
(* namespace, and no update of the registry is lost, for any names, homes, *)
(* invocations, commands and edits by hand.                                *)
(***************************************************************************)
EXTENDS Profiles, WellFoundedInduction, FiniteSetTheorems, TLAPS

\* The first remaining name, the default after a removal, exists.
LEMMA Smallest ==
  ASSUME NEW T \in SUBSET Nat, T # {}
  PROVE  \E n \in T : \A m \in T : n <= m
<1>1. PICK n \in T : \A m \in T : ~(<<m, n>> \in OpToRel(<, Nat))
  BY NatLessThanWellFounded, WFMin
<1>2. \A m \in T : ~(m < n)
  BY <1>1 DEF OpToRel
<1> QED BY <1>2

LEMMA Fields ==
  ASSUME NEW r \in Registry(Nat)
  PROVE  /\ DOMAIN r.profiles \subseteq Names /\ r.default \in Names \cup {None}
         /\ r.profiles = [n \in DOMAIN r.profiles |-> r.profiles[n]]
         /\ \A n \in DOMAIN r.profiles :
              /\ r.profiles[n] \in Entry(Nat)
              /\ r.profiles[n] \in Range(r.profiles) /\ r.profiles[n].id \in Ids(r)
         /\ \A p \in Range(r.profiles) : p.id \in Ids(r) /\ p \in Entry(Nat)
         /\ r = [default |-> r.default, profiles |-> r.profiles]
<1>1. r \in [default : Names \cup {None}, profiles : UNION {[S -> Entry(Nat)] : S \in SUBSET Names}]
  BY DEF Registry
<1>2. PICK S \in SUBSET Names : r.profiles \in [S -> Entry(Nat)]
  BY <1>1
<1>3. /\ DOMAIN r.profiles = S /\ \A n \in S : r.profiles[n] \in Entry(Nat)
      /\ r.profiles = [n \in S |-> r.profiles[n]]
  BY <1>2
<1>4. r.default \in Names \cup {None} /\ r = [default |-> r.default, profiles |-> r.profiles]
  BY <1>1
<1> QED BY <1>3, <1>4, Zenon DEF Range, Ids

LEMMA Made ==
  ASSUME NEW d \in Names \cup {None}, NEW S \in SUBSET Names, NEW f \in [S -> Entry(Nat)]
  PROVE  [default |-> d, profiles |-> f] \in Registry(Nat)
<1>1. f \in UNION {[D -> Entry(Nat)] : D \in SUBSET Names}
  OBVIOUS
<1> QED BY <1>1 DEF Registry

--------------------------------------------------------------------------------
(***************************************************************************)
(* What a command makes of a registry.                                     *)
(***************************************************************************)
\* Every entry of s is one of r or has a new id, and a profile that keeps its
\* home keeps its entry.
Follows(s, r, new) ==
  /\ s \in Registry(Nat) /\ ValidRegistry(s)
  /\ \A n \in DOMAIN s.profiles : s.profiles[n] \in Range(r.profiles) \/ s.profiles[n].id \in new
  /\ \A n \in DOMAIN r.profiles \cap DOMAIN s.profiles :
       r.profiles[n].home = s.profiles[n].home => r.profiles[n] = s.profiles[n]

LEMMA Added ==
  ASSUME NEW r \in Registry(Nat), ValidRegistry(r), issued \in Nat,
         \A id \in Ids(r) : id <= issued,
         NEW c, c.name \in Names, c.home \in Homes
  PROVE  Follows(ProfileAdd(r, c), r, IF ProfileId(r, c) > issued THEN {issued + 1} ELSE {})
<1> DEFINE old == c.name \in DOMAIN r.profiles /\ r.profiles[c.name].home = c.home
           new == [id |-> ProfileId(r, c), home |-> c.home]
           S == DOMAIN r.profiles \cup {c.name}
           f == [n \in S |-> IF n = c.name THEN new ELSE r.profiles[n]]
           d == IF r.default = None THEN c.name ELSE r.default
           s == ProfileAdd(r, c)
           ids == IF ProfileId(r, c) > issued THEN {issued + 1} ELSE {}
<1>1. s = [default |-> d, profiles |-> f]
  BY DEF ProfileAdd
<1>2. IF old THEN new = r.profiles[c.name] ELSE new.id = issued + 1 /\ ids = {issued + 1}
  <2>1. CASE old
    <3>1. r.profiles[c.name] \in Entry(Nat) /\ ProfileId(r, c) = r.profiles[c.name].id
      BY <2>1, Fields DEF ProfileId
    <3> QED BY <2>1, <3>1 DEF Entry
  <2>2. CASE ~old
    BY <2>2 DEF ProfileId
  <2> QED BY <2>1, <2>2
<1>3. new \in Entry(Nat) /\ new.home = c.home
  <2>1. CASE old BY <2>1, <1>2, Fields
  <2>2. CASE ~old BY <2>2, <1>2 DEF Entry
  <2> QED BY <2>1, <2>2
<1> HIDE DEF new
<1>4. \A n \in DOMAIN r.profiles : r.profiles[n] \in Entry(Nat) /\ r.profiles[n].id <= issued
  BY Fields
<1>5. S \in SUBSET Names /\ d \in S \cup {None} /\ f \in [S -> Entry(Nat)] /\ DOMAIN f = S
  BY <1>3, <1>4, Fields DEF ValidRegistry
<1>6. s \in Registry(Nat)
  BY <1>1, <1>5, Made
<1>7. \A n \in S : f[n] = IF n = c.name THEN new ELSE r.profiles[n]
  OBVIOUS
<1>8. s.default = d /\ s.profiles = f
  BY <1>1
<1> HIDE DEF f, d
<1>9. \A m, n \in S : f[m].id = f[n].id => m = n
  <2>1. \A n \in DOMAIN r.profiles : n # c.name => f[n].id # new.id
    <3>1. CASE old
      BY <3>1, <1>2, <1>7 DEF ValidRegistry
    <3>2. CASE ~old
      <4> SUFFICES ASSUME NEW n \in DOMAIN r.profiles, n # c.name PROVE f[n].id # new.id
        OBVIOUS
      <4>1. f[n].id \in Nat /\ f[n].id <= issued
        BY <1>4, <1>7 DEF Entry
      <4> QED BY <4>1, <3>2, <1>2
    <3> QED BY <3>1, <3>2
  <2> QED BY <2>1, <1>7 DEF ValidRegistry
<1>10. ValidRegistry(s)
  BY <1>5, <1>8, <1>9 DEF ValidRegistry
<1>11. \A n \in S : f[n] \in Range(r.profiles) \/ f[n].id \in ids
  BY <1>2, <1>7, Fields
<1>12. \A n \in DOMAIN r.profiles \cap S : r.profiles[n].home = f[n].home => r.profiles[n] = f[n]
  BY <1>2, <1>3, <1>7
<1> QED BY <1>5, <1>6, <1>8, <1>10, <1>11, <1>12 DEF Follows

LEMMA Chosen ==
  ASSUME NEW r \in Registry(Nat), ValidRegistry(r), NEW c, c.name \in DOMAIN r.profiles, NEW new
  PROVE  Follows(ProfileDefault(r, c), r, new)
<1> DEFINE s == ProfileDefault(r, c)
<1>1. s.default = c.name /\ s.profiles = r.profiles
      /\ s = [default |-> c.name, profiles |-> r.profiles]
  BY DEF ProfileDefault, Registry
<1>2. r.profiles \in [DOMAIN r.profiles -> Entry(Nat)] /\ DOMAIN r.profiles \in SUBSET Names
  BY Fields
<1>3. s \in Registry(Nat)
  BY <1>1, <1>2, Made
<1> HIDE DEF s
<1>4. ValidRegistry(s)
  BY <1>1 DEF ValidRegistry
<1> QED BY <1>1, <1>3, <1>4, Fields DEF Follows, s

LEMMA Removed ==
  ASSUME NEW r \in Registry(Nat), ValidRegistry(r), NEW c, NEW new
  PROVE  Follows(ProfileRemove(r, c), r, new)
<1> DEFINE rest == DOMAIN r.profiles \ {c.name}
           first == IF rest = {} THEN None ELSE CHOOSE n \in rest : \A m \in rest : n <= m
           d == IF r.default = c.name THEN first ELSE r.default
           f == Restrict(r.profiles, rest)
           s == ProfileRemove(r, c)
<1>1. s = [default |-> d, profiles |-> f]
  BY DEF ProfileRemove
<1>2. rest \in SUBSET Names /\ rest \in SUBSET Nat
  BY Fields, ProfilesAssumption
<1>3. first \in rest \cup {None}
  BY <1>2, Smallest
<1>4. d \in rest \cup {None}
  BY <1>3 DEF ValidRegistry
<1>5. f \in [rest -> Entry(Nat)] /\ DOMAIN f = rest /\ \A n \in rest : f[n] = r.profiles[n]
  BY Fields DEF Restrict
<1> HIDE DEF d, f
<1>6. s \in Registry(Nat)
  BY <1>1, <1>2, <1>4, <1>5, Made
<1>7. s.default = d /\ s.profiles = f
  BY <1>1
<1> HIDE DEF s
<1>8. \A n \in rest : f[n] \in Range(r.profiles)
  BY <1>5, Fields
<1>9. ValidRegistry(s)
  BY <1>4, <1>5, <1>7 DEF ValidRegistry
<1> QED BY <1>5, <1>6, <1>7, <1>8, <1>9 DEF Follows, s
LEMMA FollowsMore ==
  ASSUME NEW s, NEW r, NEW A, NEW B, A \subseteq B, Follows(s, r, A)
  PROVE  Follows(s, r, B)
BY Zenon DEF Follows

--------------------------------------------------------------------------------
(***************************************************************************)
(* The inductive invariant.                                                *)
(***************************************************************************)
Stages == {"start", "load", "check", "confirm", "write", "lock", "config", "save", "done"}

Types ==
  /\ cmd \in [Invocations -> Commands] /\ pc \in [Invocations -> Stages]
  /\ loaded \in [Invocations -> Registry(Nat)] /\ next \in [Invocations -> Registry(Nat)]
  /\ selected \in [Invocations -> [home : Homes \cup {None},
                                   namespace : Namespaces(Nat) \cup {None}]]
  /\ used \in [Homes -> SUBSET Namespaces(Nat)]
  /\ homeLock \in [Homes -> Invocations \cup {None}]
  /\ issued \in Nat

\* What a registry holds was registered, and has not been given up since.
Known(r) == Range(r.profiles) \subseteq bound /\ Ids(r) \cap retired = {}

History ==
  /\ registry \in Registry(Nat) /\ ValidRegistry(registry) /\ Known(registry)
  /\ bound \subseteq Entry(Nat) /\ retired \subseteq Nat
  /\ \A p \in bound : p.id <= issued
  /\ \A id \in retired : id <= issued
  /\ \A p, q \in bound : p.id = q.id => p.home = q.home

\* The namespaces that may be those of a home.
Allowed(h) ==
  {ByPath(h)} \cup {ById(p.id) : p \in {q \in bound : q.home = h}}
    \cup (IF h = Builtin THEN {BuiltinNamespace} ELSE {})

HomesOK == \A h \in Homes : \E ns \in Allowed(h) : used[h] \subseteq {ns}

\* An id that was generated and has not come into the registry.
Unused == {id \in 0..issued : id \notin retired /\ \A p \in bound : p.id # id}

\* A command that edits the registry.
EditOK(i) ==
  /\ pc[i] \in {"load", "check", "confirm", "write"} =>
       registryLock = i /\ cmd[i].op \in RegistryOps
  /\ pc[i] \in {"check", "confirm", "write"} => ValidRegistry(loaded[i]) /\ Known(loaded[i])
  /\ pc[i] \in {"confirm", "write"} => Follows(next[i], loaded[i], Unused)
  /\ pc[i] = "write" => registry = loaded[i] \/ i \in raced

\* A command that works in a home.
VisitOK(i) ==
  /\ pc[i] \in {"lock", "config", "save"} =>
       selected[i].home \in Homes /\ selected[i].namespace \in Allowed(selected[i].home)
  /\ pc[i] \in {"config", "save"} => homeLock[selected[i].home] = i
  /\ pc[i] = "save" => used[selected[i].home] \subseteq {selected[i].namespace}

ProfilesInv ==
  Types /\ History /\ HomesOK /\ \A i \in Invocations : EditOK(i) /\ VisitOK(i)

--------------------------------------------------------------------------------
LEMMA ProfilesInit == Init => ProfilesInv
<1> SUFFICES ASSUME Init PROVE ProfilesInv
  OBVIOUS
<1>1. registry \in Registry(FirstIds) /\ ValidRegistry(registry)
  BY ProfilesAssumption DEF Init
<1>2. Cardinality(Names) \in Nat
  BY ProfilesAssumption, FS_CardinalityType
<1>3. \A id \in FirstIds : id \in Nat /\ id <= Cardinality(Names)
  BY <1>2 DEF FirstIds
<1>4. /\ registry \in Registry(Nat)
      /\ \A p \in Range(registry.profiles) : p \in Entry(FirstIds)
  <2>1. registry \in [default : Names \cup {None},
                     profiles : UNION {[S -> Entry(FirstIds)] : S \in SUBSET Names}]
    BY <1>1 DEF Registry
  <2>2. PICK S \in SUBSET Names : registry.profiles \in [S -> Entry(FirstIds)]
    BY <2>1
  <2>3. Entry(FirstIds) \subseteq Entry(Nat)
    BY <1>3 DEF Entry
  <2>4. registry.profiles \in [S -> Entry(Nat)]
    BY <2>2, <2>3
  <2>5. registry = [default |-> registry.default, profiles |-> registry.profiles]
        /\ registry.default \in Names \cup {None}
    BY <2>1
  <2>6. registry \in Registry(Nat)
    BY <2>4, <2>5, Made
  <2> QED BY <2>2, <2>6 DEF Range
<1>5. Types
  <2>1. Nowhere \in [home : Homes \cup {None}, namespace : Namespaces(Nat) \cup {None}]
    BY DEF Nowhere
  <2>2. selected \in [Invocations -> [home : Homes \cup {None},
                                     namespace : Namespaces(Nat) \cup {None}]]
    BY <2>1, Zenon DEF Init
  <2>3. pc \in [Invocations -> Stages]
    <3>1. pc = [i \in Invocations |-> "start"]
      BY Zenon DEF Init
    <3> QED BY <3>1 DEF Stages
  <2>4. used \in [Homes -> SUBSET Namespaces(Nat)] /\ homeLock \in [Homes -> Invocations \cup {None}]
    BY DEF Init
  <2>5. loaded \in [Invocations -> Registry(Nat)] /\ next \in [Invocations -> Registry(Nat)]
    BY <1>4, Zenon DEF Init
  <2> QED BY <1>2, <2>2, <2>3, <2>4, <2>5, Zenon DEF Init, Types
<1>6. \A p \in bound : p \in Entry(Nat) /\ p.id <= issued
  BY <1>3, <1>4 DEF Init, Entry
<1>7. \A p, q \in bound : p.id = q.id => p.home = q.home
  <2> SUFFICES ASSUME NEW p \in bound, NEW q \in bound, p.id = q.id PROVE p.home = q.home
    OBVIOUS
  <2>1. PICK m \in DOMAIN registry.profiles : p = registry.profiles[m]
    BY DEF Init, Range
  <2>2. PICK n \in DOMAIN registry.profiles : q = registry.profiles[n]
    BY DEF Init, Range
  <2> QED BY <1>1, <2>1, <2>2 DEF ValidRegistry
<1>8. History
  BY <1>1, <1>4, <1>6, <1>7, Zenon DEF Init, History, Known
<1>9. HomesOK
  BY DEF Init, HomesOK, Allowed
<1> QED BY <1>5, <1>8, <1>9 DEF Init, ProfilesInv, EditOK, VisitOK

\* What a step of one invocation leaves of the others.
Spares(i) ==
  \A j \in Invocations \ {i} :
    /\ registryLock = j => registryLock' = j
    /\ \A h \in Homes : homeLock[h] = j => homeLock'[h] = j
    /\ pc'[j] = pc[j] /\ cmd'[j] = cmd[j]
    /\ loaded'[j] = loaded[j] /\ next'[j] = next[j] /\ selected'[j] = selected[j]
    /\ j \in raced => j \in raced'

\* A step of one invocation that changes neither files nor history.
LEMMA Aside ==
  ASSUME ProfilesInv, NEW i \in Invocations, UNCHANGED <<fileVars, ghostVars>>,
         Types', Spares(i), EditOK(i)', VisitOK(i)'
  PROVE  ProfilesInv'
<1> USE DEF fileVars, ghostVars
<1>2. History' /\ Unused' = Unused /\ (\A h : Allowed(h)' = Allowed(h)) /\ (\A q : Known(q)' = Known(q))
  BY DEF ProfilesInv, History, Known, Unused, Allowed
<1>3. HomesOK'
  BY <1>2 DEF ProfilesInv, HomesOK
<1>4. ASSUME NEW j \in Invocations \ {i} PROVE EditOK(j)' /\ VisitOK(j)'
  <2>1. /\ pc'[j] = pc[j] /\ loaded'[j] = loaded[j] /\ selected'[j] = selected[j] /\ next'[j] = next[j]
        /\ cmd'[j] = cmd[j] /\ (j \in raced => j \in raced')
    BY DEF Spares
  <2>2. EditOK(j) /\ VisitOK(j)
    BY DEF ProfilesInv
  <2>3. EditOK(j)'
    <3>1. /\ ValidRegistry(loaded[j])' = ValidRegistry(loaded[j])
          /\ Known(loaded[j])' = Known(loaded[j])
          /\ Follows(next[j], loaded[j], Unused)' = Follows(next[j], loaded[j], Unused)
          /\ registry' = registry /\ pc'[j] = pc[j] /\ cmd'[j] = cmd[j] /\ loaded'[j] = loaded[j]
      BY <1>2, <2>1
    <3>2. registryLock = j => registryLock' = j
      BY DEF Spares
    <3> QED BY <2>1, <2>2, <3>1, <3>2 DEF EditOK
  <2>4. VisitOK(j)'
    <3>1. pc[j] \in {"config", "save"} => selected[j].home \in Homes
      BY <2>2 DEF VisitOK
    <3> QED BY <1>2, <2>1, <2>2, <3>1 DEF VisitOK, Spares
  <2> QED BY <2>3, <2>4
<1> QED BY <1>2, <1>3, <1>4 DEF ProfilesInv

\* The shape most steps have: one stage, at most one lock and one note change.
LEMMA Effect ==
  ASSUME Types, NEW i \in Invocations, NEW there \in Stages, pc' = [pc EXCEPT ![i] = there],
         UNCHANGED <<cmd, next, used>>, issued' \in Nat, raced \ {i} \subseteq raced',
         registryLock' = registryLock \/ registryLock \in {i, None},
         \/ UNCHANGED homeLock
         \/ homeLock' = [h \in Homes |-> IF homeLock[h] = i THEN None ELSE homeLock[h]]
         \/ \E h \in Homes : homeLock[h] = None /\ homeLock' = [homeLock EXCEPT ![h] = i],
         UNCHANGED loaded \/ \E r \in Registry(Nat) : loaded' = [loaded EXCEPT ![i] = r],
         \/ UNCHANGED selected
         \/ \E s \in [home : Homes \cup {None}, namespace : Namespaces(Nat) \cup {None}] :
              selected' = [selected EXCEPT ![i] = s]
  PROVE  Types' /\ Spares(i) /\ pc'[i] = there
<1> DEFINE Note == [home : Homes \cup {None}, namespace : Namespaces(Nat) \cup {None}]
<1>1. loaded' \in [Invocations -> Registry(Nat)] /\ \A j \in Invocations \ {i} : loaded'[j] = loaded[j]
  BY ZenonT(60) DEF Types
<1>2. selected' \in [Invocations -> Note] /\ \A j \in Invocations \ {i} : selected'[j] = selected[j]
  BY ZenonT(60) DEF Types
<1>3. /\ homeLock' \in [Homes -> Invocations \cup {None}]
      /\ \A h \in Homes : \A j \in Invocations \ {i} : homeLock[h] = j => homeLock'[h] = j
  <2>1. homeLock \in [Homes -> Invocations \cup {None}] /\ None \notin Invocations
    BY ProfilesAssumption DEF Types
  <2> QED BY <2>1
<1>4. /\ pc' \in [Invocations -> Stages] /\ pc'[i] = there
      /\ \A j \in Invocations \ {i} : pc'[j] = pc[j]
  BY DEF Types
<1>5. \A j \in Invocations \ {i} : registryLock = j => registryLock' = j
  BY ProfilesAssumption
<1>6. Types'
  BY <1>1, <1>2, <1>3, <1>4 DEF Types
<1>7. \A j \in Invocations \ {i} : cmd'[j] = cmd[j] /\ next'[j] = next[j] /\ (j \in raced => j \in raced')
  OBVIOUS
<1> QED BY <1>1, <1>2, <1>3, <1>4, <1>5, <1>6, <1>7, Zenon DEF Spares

\* The steps of a command on the registry that do not write it.
LEMMA RegistrySteps ==
  ASSUME ProfilesInv, NEW i \in Invocations
  PROVE  /\ AcquireRegistry(i) \/ LoadRegistry(i) \/ Refuse(i) => ProfilesInv'
         /\ Confirm(i) \/ ChangedConcurrently(i) \/ WriteFails(i) => ProfilesInv'
<1>0. Types /\ History /\ EditOK(i) /\ VisitOK(i)
  BY DEF ProfilesInv
<1>1. ASSUME AcquireRegistry(i) PROVE ProfilesInv'
  <2>1. /\ pc' = [pc EXCEPT ![i] = "load"] /\ registryLock' = i /\ registryLock = None
        /\ UNCHANGED <<fileVars, ghostVars, cmd, homeLock, loaded, next, selected, raced>>
        /\ cmd[i].op \in RegistryOps
    BY <1>1 DEF AcquireRegistry, Goto
  <2>2. Types' /\ Spares(i) /\ pc'[i] = "load"
    BY <1>0, <2>1, Effect DEF Stages, fileVars, Types
  <2>3. EditOK(i)' /\ VisitOK(i)'
    BY <2>1, <2>2 DEF EditOK, VisitOK
  <2> QED BY <2>1, <2>2, <2>3, Aside
<1>2. ASSUME LoadRegistry(i) PROVE ProfilesInv'
  <2>1. /\ pc' = [pc EXCEPT ![i] = "check"] /\ pc[i] = "load"
        /\ loaded' = [loaded EXCEPT ![i] = registry]
        /\ UNCHANGED <<fileVars, ghostVars, cmd, registryLock, homeLock, next, selected, raced>>
    BY <1>2 DEF LoadRegistry, Goto
  <2>2. Types' /\ Spares(i) /\ pc'[i] = "check"
    BY <1>0, <2>1, Effect DEF Stages, fileVars, History, Types
  <2>3. loaded'[i] = registry /\ registryLock' = i /\ cmd'[i].op \in RegistryOps
    BY <1>0, <2>1 DEF Types, EditOK
  <2>4. ValidRegistry(loaded[i])' /\ Known(loaded[i])'
    BY <1>0, <2>1, <2>3 DEF History, Known, fileVars, ghostVars
  <2>5. EditOK(i)' /\ VisitOK(i)'
    BY <2>2, <2>3, <2>4 DEF EditOK, VisitOK
  <2> QED BY <2>1, <2>2, <2>5, Aside
<1>3. ASSUME Confirm(i) PROVE ProfilesInv'
  <2>1. /\ pc' = [pc EXCEPT ![i] = "write"] /\ pc[i] = "confirm" /\ registry = loaded[i]
        /\ raced' = raced \ {i}
        /\ UNCHANGED <<fileVars, ghostVars, cmd, registryLock, homeLock, loaded, next, selected>>
    BY <1>3 DEF Confirm, Goto
  <2>2. Types' /\ Spares(i) /\ pc'[i] = "write"
    BY <1>0, <2>1, Effect DEF Stages, fileVars, Types
  <2>3. EditOK(i)' /\ VisitOK(i)'
    BY <1>0, <2>1, <2>2 DEF EditOK, VisitOK, Known, Unused, fileVars, ghostVars
  <2> QED BY <2>1, <2>2, <2>3, Aside
<1>4. ASSUME Refuse(i) \/ ChangedConcurrently(i) \/ WriteFails(i) PROVE ProfilesInv'
  <2>1. /\ pc' = [pc EXCEPT ![i] = "done"]
        /\ registryLock' = (IF registryLock = i THEN None ELSE registryLock)
        /\ UNCHANGED <<fileVars, ghostVars, cmd, homeLock, loaded, next, selected, raced>>
    BY <1>4, Zenon DEF Refuse, ChangedConcurrently, WriteFails, Goto, ReleaseRegistry
  <2>2. Types' /\ Spares(i) /\ pc'[i] = "done"
    BY <1>0, <2>1, Effect DEF Stages, fileVars, Types
  <2>3. EditOK(i)' /\ VisitOK(i)'
    BY <2>2 DEF EditOK, VisitOK
  <2> QED BY <2>1, <2>2, <2>3, Aside
<1> QED BY <1>1, <1>2, <1>3, <1>4

\* The steps of a command in a home that do not save its config, and the ends
\* of any command.
LEMMA HomeSteps ==
  ASSUME ProfilesInv, NEW i \in Invocations
  PROVE  /\ Resolve(i) \/ LockHome(i) \/ LoadConfig(i) => ProfilesInv'
         /\ LockTimeout(i) \/ Crash(i) => ProfilesInv'
<1>0. Types /\ History /\ EditOK(i) /\ VisitOK(i)
  BY DEF ProfilesInv
<1>1. ASSUME UNCHANGED <<fileVars, ghostVars, cmd, loaded, next, selected, raced>>,
             pc' = [pc EXCEPT ![i] = "done"],
             registryLock' \in {registryLock, IF registryLock = i THEN None ELSE registryLock},
             homeLock' \in {homeLock, [h \in Homes |-> IF homeLock[h] = i THEN None ELSE homeLock[h]]}
      PROVE  ProfilesInv'
  <2>1. Types' /\ Spares(i) /\ pc'[i] = "done"
    BY <1>0, <1>1, Effect DEF Stages, fileVars, Types
  <2>2. EditOK(i)' /\ VisitOK(i)'
    BY <2>1 DEF EditOK, VisitOK
  <2> QED BY <1>1, <2>1, <2>2, Aside
<1>2. ASSUME Resolve(i) PROVE ProfilesInv'
  <2> DEFINE c == cmd[i]
             s == Select(c)
  <2>1. CASE pc' = [pc EXCEPT ![i] = "done"] /\ selected' = selected
    BY <1>1, <1>2, <2>1 DEF Resolve
  <2>2. CASE /\ pc' = [pc EXCEPT ![i] = "lock"] /\ selected' = [selected EXCEPT ![i] = s]
             /\ c.via = "profile" => c.name \in DOMAIN registry.profiles
    <3>1. /\ c.op \notin RegistryOps
          /\ UNCHANGED <<fileVars, ghostVars, cmd, registryLock, homeLock, loaded, next, raced>>
      BY <1>2 DEF Resolve
    <3>2. c \in Commands
      BY <1>0 DEF Types
    <3>3. c.via = "home" => c.home \in Homes
      BY <3>1, <3>2, ProfilesAssumption DEF RegistryOps
    <3>4. s.home \in Homes /\ s.namespace \in Allowed(s.home) \cap Namespaces(Nat)
          /\ s \in [home : Homes \cup {None}, namespace : Namespaces(Nat) \cup {None}]
      <4>1. CASE c.via = "home"
        <5>1. s = [home |-> c.home, namespace |-> ByPath(c.home)]
          BY <4>1 DEF Select
        <5> QED BY <3>3, <4>1, <5>1 DEF Allowed, Namespaces
      <4> DEFINE name == IF c.via = "profile" THEN c.name ELSE registry.default
      <4>2. CASE c.via # "home" /\ name = None
        <5>1. s = [home |-> Builtin, namespace |-> BuiltinNamespace]
          BY <4>2 DEF Select
        <5> QED BY <4>2, <5>1, ProfilesAssumption DEF Allowed, Namespaces
      <4>3. CASE c.via # "home" /\ name # None
        <5> DEFINE p == registry.profiles[name]
        <5>1. s = [home |-> p.home, namespace |-> ById(p.id)]
          BY <4>3 DEF Select
        <5>2. name \in DOMAIN registry.profiles
          BY <1>0, <2>2, <4>3 DEF History, ValidRegistry
        <5>3. p \in Entry(Nat) /\ p \in bound
          BY <1>0, <5>2, Fields DEF History, Known
        <5> HIDE DEF p
        <5>4. p.home \in Homes /\ p.id \in Nat
          BY <5>3 DEF Entry
        <5> QED BY <5>1, <5>3, <5>4 DEF Allowed, Namespaces
      <4> QED BY <4>1, <4>2, <4>3
    <3> HIDE DEF s
    <3>5. selected'[i] = s
      BY <1>0, <2>2 DEF Types
    <3>6. Types' /\ Spares(i) /\ pc'[i] = "lock"
      BY <1>0, <2>2, <3>1, <3>4, Effect DEF Stages, fileVars, Types
    <3>7. EditOK(i)' /\ VisitOK(i)'
      BY <3>1, <3>4, <3>5, <3>6 DEF EditOK, VisitOK, Allowed, ghostVars
    <3> QED BY <3>1, <3>6, <3>7, Aside
  <2> QED BY <1>2, <2>1, <2>2 DEF Resolve, Goto
<1>3. ASSUME LockHome(i) PROVE ProfilesInv'
  <2> DEFINE h == selected[i].home
  <2>1. /\ pc' = [pc EXCEPT ![i] = "config"] /\ homeLock' = [homeLock EXCEPT ![h] = i]
        /\ pc[i] = "lock" /\ homeLock[h] = None
        /\ UNCHANGED <<fileVars, ghostVars, cmd, registryLock, loaded, next, selected, raced>>
    BY <1>3 DEF LockHome, Goto
  <2>2. h \in Homes /\ selected[i].namespace \in Allowed(h)
    BY <1>0, <2>1 DEF VisitOK
  <2> HIDE DEF h
  <2>3. Types' /\ Spares(i) /\ pc'[i] = "config"
    BY <1>0, <2>1, <2>2, Effect DEF Stages, fileVars, Types
  <2>4. homeLock'[h] = i
    BY <1>0, <2>1, <2>2 DEF Types
  <2>5. EditOK(i)' /\ VisitOK(i)'
    BY <2>1, <2>2, <2>3, <2>4 DEF EditOK, VisitOK, Allowed, ghostVars, h
  <2> QED BY <2>1, <2>3, <2>5, Aside
<1>4. ASSUME LoadConfig(i) PROVE ProfilesInv'
  <2>1. /\ pc[i] = "config"
        /\ UNCHANGED <<fileVars, ghostVars, cmd, registryLock, loaded, next, selected, raced>>
    BY <1>4 DEF LoadConfig
  <2>2. CASE pc' = [pc EXCEPT ![i] = "done"] /\ ReleaseHome(i)
    BY <1>1, <2>1, <2>2 DEF ReleaseHome
  <2>3. CASE /\ used[selected[i].home] \subseteq {selected[i].namespace}
             /\ pc' = [pc EXCEPT ![i] = "save"] /\ UNCHANGED homeLock
    <3>1. Types' /\ Spares(i) /\ pc'[i] = "save"
      BY <1>0, <2>1, <2>3, Effect DEF Stages, fileVars, Types
    <3>2. EditOK(i)' /\ VisitOK(i)'
      BY <1>0, <2>1, <2>3, <3>1 DEF EditOK, VisitOK, Allowed, ghostVars, fileVars
    <3> QED BY <2>1, <3>1, <3>2, Aside
  <2> QED BY <1>4, <2>2, <2>3 DEF LoadConfig, Goto
<1>5. ASSUME LockTimeout(i) \/ Crash(i) PROVE ProfilesInv'
  BY <1>1, <1>5, Zenon DEF LockTimeout, Crash, Goto, ReleaseRegistry, ReleaseHome
<1> QED BY <1>2, <1>3, <1>4, <1>5
--------------------------------------------------------------------------------
(***************************************************************************)
(* The steps that change an id, the registry or a home.                    *)
(***************************************************************************)
\* What the command makes of the registry follows it, up to ids never used.
LEMMA Planned ==
  ASSUME ProfilesInv, NEW i \in Invocations, Check(i)
  PROVE  \E s \in Registry(Nat) :
           /\ next' = [next EXCEPT ![i] = s] /\ Follows(s, loaded[i], Unused')
           /\ issued' \in {issued, issued + 1}
<1> DEFINE r == loaded[i]
           c == cmd[i]
<1>1. /\ r \in Registry(Nat) /\ ValidRegistry(r) /\ Known(r) /\ issued \in Nat /\ c \in Commands
      /\ UNCHANGED ghostVars
  BY DEF Check, ProfilesInv, EditOK, Types
<1>2. \A id \in Ids(r) : id <= issued
  BY <1>1, Zenon DEF Known, Ids, Range, ProfilesInv, History
<1>3. CASE CheckAdd(i)
  <2>1. c.op = "add" /\ next' = [next EXCEPT ![i] = ProfileAdd(r, c)]
        /\ issued' = (IF ProfileId(r, c) > issued THEN issued + 1 ELSE issued)
    BY <1>3 DEF CheckAdd
  <2>2. c.name \in Names /\ c.home \in Homes
    BY <1>1, <2>1, ProfilesAssumption
  <2> DEFINE new == IF ProfileId(r, c) > issued THEN {issued + 1} ELSE {}
  <2>3. Follows(ProfileAdd(r, c), r, new)
    BY <1>1, <1>2, <2>2, Added
  <2>4. new \subseteq Unused'
    <3>1. ProfileId(r, c) > issued => issued' = issued + 1
      BY <2>1
    <3>2. \A p \in bound : p.id \in Nat /\ p.id <= issued
      BY DEF ProfilesInv, History, Entry
    <3>3. \A id \in retired : id \in Nat /\ id <= issued
      BY DEF ProfilesInv, History
    <3>4. issued + 1 \notin retired /\ \A p \in bound : p.id # issued + 1
      BY <1>1, <3>2, <3>3
    <3> QED BY <1>1, <3>1, <3>4 DEF Unused, ghostVars
  <2> HIDE DEF new
  <2>5. Follows(ProfileAdd(r, c), r, Unused')
    BY <2>3, <2>4, FollowsMore
  <2> QED BY <1>1, <2>1, <2>5 DEF Follows
<1>4. CASE CheckDefault(i)
  <2>1. /\ next' = [next EXCEPT ![i] = ProfileDefault(r, c)]
        /\ c.name \in DOMAIN r.profiles /\ issued' = issued
    BY <1>4 DEF CheckDefault
  <2>2. Follows(ProfileDefault(r, c), r, Unused')
    BY <1>1, <2>1, Chosen
  <2> QED BY <2>1, <2>2 DEF Follows
<1>5. CASE CheckRemove(i)
  <2>1. next' = [next EXCEPT ![i] = ProfileRemove(r, c)] /\ issued' = issued
    BY <1>5 DEF CheckRemove
  <2>2. Follows(ProfileRemove(r, c), r, Unused')
    BY <1>1, Removed
  <2> QED BY <2>1, <2>2 DEF Follows
<1> QED BY <1>3, <1>4, <1>5 DEF Check

LEMMA CheckOK == ASSUME ProfilesInv, NEW i \in Invocations, Check(i) PROVE ProfilesInv'
<1>1. PICK s \in Registry(Nat) :
        /\ next' = [next EXCEPT ![i] = s] /\ Follows(s, loaded[i], Unused')
        /\ issued' \in {issued, issued + 1}
  BY Planned
<1>2. /\ UNCHANGED <<registry, used, homeLock, cmd, loaded, selected, raced, ghostVars>>
      /\ pc[i] = "check"
      /\ \/ pc' = [pc EXCEPT ![i] = "confirm"] /\ UNCHANGED registryLock
         \/ /\ pc' = [pc EXCEPT ![i] = "done"]
            /\ registryLock' = IF registryLock = i THEN None ELSE registryLock
  BY DEF Check, Goto, ReleaseRegistry
<1>3. Types /\ History /\ HomesOK /\ registryLock = i /\ cmd[i].op \in RegistryOps
  BY <1>2 DEF ProfilesInv, EditOK
<1>4. Types'
  BY <1>1, <1>2, <1>3 DEF Types, Stages
<1>5. /\ History' /\ (\A h : Allowed(h)' = Allowed(h)) /\ (\A q : Known(q)' = Known(q))
  <2>1. issued' \in Nat /\ issued <= issued'
    BY <1>1, <1>3 DEF Types
  <2>2. registry' = registry /\ bound' = bound /\ retired' = retired
    BY <1>2 DEF ghostVars
  <2>3. (\A p \in bound : p.id <= issued') /\ (\A id \in retired : id <= issued')
    BY <1>3, <2>1 DEF History, Types, Entry
  <2> QED BY <1>3, <2>2, <2>3 DEF History, Known, Allowed
<1>6. HomesOK'
  BY <1>2, <1>3, <1>5 DEF HomesOK
<1>7. ASSUME NEW j \in Invocations \ {i} PROVE EditOK(j)' /\ VisitOK(j)'
  <2>1. pc'[j] = pc[j] /\ loaded'[j] = loaded[j] /\ cmd'[j] = cmd[j] /\ selected'[j] = selected[j]
    BY <1>2, <1>3 DEF Types
  <2>2. EditOK(j) /\ VisitOK(j)
    BY DEF ProfilesInv
  <2>3. pc[j] \notin {"load", "check", "confirm", "write"}
    BY <1>3, <2>2 DEF EditOK
  <2>4. EditOK(j)'
    BY <2>1, <2>3 DEF EditOK
  <2>5. VisitOK(j)'
    BY <1>2, <1>5, <2>1, <2>2 DEF VisitOK
  <2> QED BY <2>4, <2>5
<1>8. pc'[i] \in {"confirm", "done"} /\ next'[i] = s /\ (pc'[i] = "confirm" => registryLock' = i)
  BY <1>1, <1>2, <1>3 DEF Types
<1>9. ValidRegistry(loaded[i])' /\ Known(loaded[i])'
  BY <1>2, <1>5 DEF ProfilesInv, EditOK
<1>10. EditOK(i)'
  BY <1>1, <1>2, <1>3, <1>8, <1>9 DEF EditOK
<1>11. VisitOK(i)'
  BY <1>8 DEF VisitOK
<1> QED BY <1>4, <1>5, <1>6, <1>7, <1>10, <1>11 DEF ProfilesInv
\* The rename: what comes into the registry was there or is new.
LEMMA WriteOK == ASSUME ProfilesInv, NEW i \in Invocations, WriteRegistry(i) PROVE ProfilesInv'
<1> DEFINE r == loaded[i]
           s == next[i]
<1>1. /\ Types /\ History /\ HomesOK /\ registryLock = i
      /\ r \in Registry(Nat) /\ ValidRegistry(r) /\ Known(r) /\ Follows(s, r, Unused)
  BY DEF WriteRegistry, ProfilesInv, EditOK, Types
<1>2. /\ registry' = s /\ bound' = bound \cup Range(s.profiles)
      /\ retired' = retired \cup (Ids(r) \ Ids(s))
      /\ pc' = [pc EXCEPT ![i] = "done"]
      /\ registryLock' = (IF registryLock = i THEN None ELSE registryLock)
      /\ UNCHANGED <<used, issued, homeLock, cmd, loaded, next, selected, raced>>
  BY DEF WriteRegistry, Goto, ReleaseRegistry
<1>3. s \in Registry(Nat) /\ ValidRegistry(s)
  BY <1>1 DEF Follows
<1> HIDE DEF r, s
<1>4. Types' /\ Spares(i) /\ pc'[i] = "done"
  BY <1>1, <1>2, Effect DEF Stages, Types
<1>5. \A p \in Range(s.profiles) :
        /\ p \in Entry(Nat) /\ p.id <= issued /\ p.id \notin retired
        /\ p \in bound \/ \A q \in bound : q.id # p.id
  <2> SUFFICES ASSUME NEW p \in Range(s.profiles)
               PROVE  /\ p \in Entry(Nat) /\ p.id <= issued /\ p.id \notin retired
                      /\ p \in bound \/ \A q \in bound : q.id # p.id
    OBVIOUS
  <2>1. PICK n \in DOMAIN s.profiles : p = s.profiles[n]
    BY DEF Range
  <2>2. p \in Entry(Nat) /\ (p \in Range(r.profiles) \/ p.id \in Unused)
    BY <1>1, <1>3, <2>1, Fields DEF Follows
  <2>3. CASE p \in Range(r.profiles)
    <3>1. p.id \in Ids(r) /\ p \in bound
      BY <1>1, <2>3, Fields DEF Known
    <3> QED BY <1>1, <2>2, <3>1 DEF Known, History
  <2>4. CASE p.id \in Unused
    <3>1. p.id <= issued
      BY <1>1, <2>4 DEF Unused, Types
    <3> QED BY <2>2, <2>4, <3>1 DEF Unused
  <2> QED BY <2>2, <2>3, <2>4
<1>6. \A p, q \in Range(s.profiles) : p.id = q.id => p = q
  BY <1>3 DEF ValidRegistry, Range
<1>7. \A p, q \in bound' : p.id = q.id => p.home = q.home
  BY <1>1, <1>2, <1>5, <1>6 DEF History
<1>8. Known(registry)'
  <2>1. Range(s.profiles) \subseteq bound'
    BY <1>2
  <2>2. \A id \in Ids(s) : id \notin retired'
    <3> SUFFICES ASSUME NEW id \in Ids(s) PROVE id \notin retired
      BY <1>2
    <3>1. PICK n \in DOMAIN s.profiles : id = s.profiles[n].id
      BY DEF Ids
    <3> QED BY <1>3, <1>5, <3>1, Fields
  <2> QED BY <1>2, <2>1, <2>2 DEF Known, Ids, Range
<1>9. \A id \in retired' : id \in Nat /\ id <= issued
  <2>1. \A id \in Ids(r) : id \in Nat /\ id <= issued
    <3> SUFFICES ASSUME NEW id \in Ids(r) PROVE id \in Nat /\ id <= issued
      OBVIOUS
    <3>1. PICK n \in DOMAIN r.profiles : id = r.profiles[n].id
      BY DEF Ids
    <3>2. r.profiles[n] \in bound /\ r.profiles[n] \in Entry(Nat)
      BY <1>1, <3>1, Fields DEF Known
    <3> QED BY <1>1, <3>1, <3>2 DEF History, Entry
  <2> QED BY <1>1, <1>2, <2>1 DEF History
<1>10. \A p \in bound' : p \in Entry(Nat) /\ p.id <= issued
  BY <1>1, <1>2, <1>5 DEF History
<1>11. History'
  BY <1>2, <1>3, <1>7, <1>8, <1>9, <1>10 DEF History
<1>12. \A h : Allowed(h) \subseteq Allowed(h)'
  BY <1>2 DEF Allowed
<1>13. HomesOK'
  BY <1>1, <1>2, <1>12 DEF HomesOK
<1>14. ASSUME NEW j \in Invocations \ {i} PROVE EditOK(j)' /\ VisitOK(j)'
  <2>1. EditOK(j) /\ VisitOK(j)
    BY DEF ProfilesInv
  <2>2. pc'[j] = pc[j] /\ selected'[j] = selected[j]
    BY <1>4 DEF Spares
  <2>3. EditOK(j)'
    BY <1>1, <2>1, <2>2 DEF EditOK
  <2>4. VisitOK(j)'
    BY <1>2, <1>12, <2>1, <2>2 DEF VisitOK
  <2> QED BY <2>3, <2>4
<1>15. EditOK(i)' /\ VisitOK(i)'
  BY <1>4 DEF EditOK, VisitOK
<1> QED BY <1>4, <1>11, <1>13, <1>14, <1>15 DEF ProfilesInv

\* A config is saved by the holder of the home, which found no other namespace.
LEMMA SaveOK == ASSUME ProfilesInv, NEW i \in Invocations, SaveConfig(i) PROVE ProfilesInv'
<1> DEFINE h == selected[i].home
           ns == selected[i].namespace
<1>1. /\ Types /\ HomesOK /\ h \in Homes /\ ns \in Allowed(h) /\ homeLock[h] = i
      /\ used[h] \subseteq {ns} /\ pc[i] = "save"
  BY DEF SaveConfig, ProfilesInv, VisitOK
<1>2. PICK u : /\ used' = [used EXCEPT ![h] = u] /\ u \in {used[h] \cup {ns}, {}}
  BY DEF SaveConfig
<1>3. /\ pc' = [pc EXCEPT ![i] = "done"]
      /\ homeLock' = [g \in Homes |-> IF homeLock[g] = i THEN None ELSE homeLock[g]]
      /\ UNCHANGED <<registry, registryLock, issued, cmd, loaded, next, selected, raced, ghostVars>>
  BY DEF SaveConfig, Goto, ReleaseHome
<1>4. ns \in Namespaces(Nat)
  BY <1>1 DEF ProfilesInv, History, Allowed, Namespaces, Entry
<1> HIDE DEF h, ns
<1>5. u \subseteq {ns} /\ used' \in [Homes -> SUBSET Namespaces(Nat)]
      /\ used'[h] = u /\ \A g \in Homes \ {h} : used'[g] = used[g]
  BY <1>1, <1>2, <1>4 DEF Types
<1>6. homeLock' \in [Homes -> Invocations \cup {None}] /\ pc' \in [Invocations -> Stages]
  BY <1>1, <1>3 DEF Types, Stages
<1>7. Types'
  BY <1>1, <1>3, <1>5, <1>6 DEF Types
<1>8. /\ History' /\ (\A g : Allowed(g)' = Allowed(g)) /\ (\A q : Known(q)' = Known(q)) /\ Unused' = Unused
  BY <1>3 DEF ProfilesInv, History, Known, Unused, Allowed, ghostVars
<1>9. HomesOK'
  BY <1>1, <1>5, <1>8 DEF HomesOK
<1>10. ASSUME NEW j \in Invocations \ {i} PROVE EditOK(j)' /\ VisitOK(j)'
  <2>1. /\ pc'[j] = pc[j] /\ loaded'[j] = loaded[j] /\ next'[j] = next[j]
        /\ selected'[j] = selected[j] /\ cmd'[j] = cmd[j] /\ EditOK(j) /\ VisitOK(j)
    BY <1>1, <1>3 DEF ProfilesInv, Types
  <2>2. EditOK(j)'
    <3>1. /\ Known(loaded[j])' = Known(loaded[j]) /\ ValidRegistry(loaded[j])' = ValidRegistry(loaded[j])
          /\ Follows(next[j], loaded[j], Unused)' = Follows(next[j], loaded[j], Unused)
      BY <1>8, <2>1
    <3> QED BY <1>3, <2>1, <3>1 DEF EditOK
  <2>3. pc[j] \in {"config", "save"} =>
          selected[j].home \in Homes \ {h} /\ homeLock'[selected[j].home] = j
    BY <1>1, <1>3, <2>1 DEF VisitOK
  <2>4. VisitOK(j)'
    BY <1>5, <1>8, <2>1, <2>3 DEF VisitOK
  <2> QED BY <2>2, <2>4
<1>11. pc'[i] = "done"
  BY <1>1, <1>3 DEF Types
<1>12. EditOK(i)' /\ VisitOK(i)'
  BY <1>11 DEF EditOK, VisitOK
<1> QED BY <1>7, <1>8, <1>9, <1>10, <1>12 DEF ProfilesInv

\* A hand edit only takes profiles away, and is seen by every revision check
\* that is still to come.
LEMMA UserEditsOK == ASSUME ProfilesInv, UserEdits PROVE ProfilesInv'
<1>1. registry \in Registry(Nat) /\ ValidRegistry(registry) /\ Known(registry) /\ Types /\ HomesOK
  BY DEF ProfilesInv, History
<1>2. Follows(registry', registry, {})
  <2>1. PICK n \in DOMAIN registry.profiles :
          \/ registry' = [registry EXCEPT !.default = n]
          \/ registry' = ProfileRemove(registry, [name |-> n])
    BY Zenon DEF UserEdits
  <2> DEFINE c == [name |-> n]
  <2>2. c.name = n
    OBVIOUS
  <2>3. registry' = ProfileDefault(registry, c) \/ registry' = ProfileRemove(registry, c)
    BY <2>1, <2>2, Zenon DEF ProfileDefault
  <2> HIDE DEF c
  <2>4. Follows(ProfileDefault(registry, c), registry, {})
    BY <1>1, <2>2, Chosen
  <2>5. Follows(ProfileRemove(registry, c), registry, {})
    BY <1>1, Removed
  <2> QED BY <2>3, <2>4, <2>5
<1>3. /\ UNCHANGED <<used, homeLock, registryLock, issued, cmd, pc, loaded, next, selected, ghostVars>>
      /\ raced' = raced \cup {i \in Invocations : pc[i] = "write"}
  BY DEF UserEdits
<1>4. registry' \in Registry(Nat) /\ ValidRegistry(registry')
  BY <1>2 DEF Follows
<1>5. Range(registry'.profiles) \subseteq Range(registry.profiles)
  BY <1>2 DEF Follows, Range
<1>6. Ids(registry') \subseteq Ids(registry)
  <2> SUFFICES ASSUME NEW id \in Ids(registry') PROVE id \in Ids(registry)
    OBVIOUS
  <2>1. PICK n \in DOMAIN registry'.profiles : id = registry'.profiles[n].id
    BY DEF Ids
  <2> QED BY <1>1, <1>4, <1>5, <2>1, Fields
<1>7. Types'
  BY <1>1, <1>3 DEF Types
<1>8. (\A g : Allowed(g)' = Allowed(g)) /\ (\A q : Known(q)' = Known(q)) /\ Unused' = Unused
  BY <1>3 DEF Known, Unused, Allowed, ghostVars
<1>9. Known(registry)'
  <2>1. Known(registry')
    BY <1>1, <1>5, <1>6 DEF Known
  <2> QED BY <1>3, <2>1 DEF Known, ghostVars, Ids, Range
<1>10. History'
  BY <1>3, <1>4, <1>9 DEF ProfilesInv, History, ghostVars
<1>11. HomesOK'
  BY <1>1, <1>3, <1>8 DEF HomesOK
<1>12. ASSUME NEW j \in Invocations PROVE EditOK(j)' /\ VisitOK(j)'
  <2>1. EditOK(j) /\ VisitOK(j)
    BY DEF ProfilesInv
  <2>2. EditOK(j)'
    <3>1. /\ Known(loaded[j])' = Known(loaded[j]) /\ ValidRegistry(loaded[j])' = ValidRegistry(loaded[j])
          /\ Follows(next[j], loaded[j], Unused)' = Follows(next[j], loaded[j], Unused)
      BY <1>3, <1>8
    <3> QED BY <1>3, <2>1, <3>1 DEF EditOK
  <2>3. VisitOK(j)'
    BY <1>3, <1>8, <2>1 DEF VisitOK
  <2> QED BY <2>2, <2>3
<1> QED BY <1>7, <1>10, <1>11, <1>12 DEF ProfilesInv

LEMMA StutterOK == ASSUME ProfilesInv, UNCHANGED vars PROVE ProfilesInv'
<1>1. Types' /\ History'
  BY DEF vars, ProfilesInv, Types, History, Known
<1>2. (\A g : Allowed(g)' = Allowed(g)) /\ (\A q : Known(q)' = Known(q)) /\ Unused' = Unused
  BY DEF vars, Known, Unused, Allowed
<1>3. HomesOK'
  BY <1>2 DEF vars, ProfilesInv, HomesOK
<1>4. ASSUME NEW j \in Invocations PROVE EditOK(j)' /\ VisitOK(j)'
  <2>1. EditOK(j) /\ VisitOK(j)
    BY DEF ProfilesInv
  <2>2. UNCHANGED <<registry, registryLock, pc, cmd, loaded, next, raced, used, homeLock, selected>>
    BY DEF vars
  <2>3. EditOK(j)'
    BY <1>2, <2>1, <2>2 DEF EditOK
  <2>4. VisitOK(j)'
    BY <1>2, <2>1, <2>2 DEF VisitOK
  <2> QED BY <2>3, <2>4
<1> QED BY <1>1, <1>3, <1>4 DEF ProfilesInv

LEMMA ProfilesStep == ProfilesInv /\ [Next]_vars => ProfilesInv'
<1>1. ASSUME ProfilesInv, Next PROVE ProfilesInv'
  <2>1. ASSUME NEW i \in Invocations,
               \/ AcquireRegistry(i) \/ LoadRegistry(i) \/ Check(i) \/ Refuse(i)
               \/ Confirm(i) \/ ChangedConcurrently(i) \/ WriteRegistry(i) \/ WriteFails(i)
               \/ Resolve(i) \/ LockHome(i) \/ LoadConfig(i) \/ SaveConfig(i)
               \/ LockTimeout(i) \/ Crash(i)
        PROVE  ProfilesInv'
    BY <1>1, <2>1, RegistrySteps, HomeSteps, CheckOK, WriteOK, SaveOK
  <2>2. CASE Done
    BY <1>1, <2>2, StutterOK DEF Done
  <2> QED BY <1>1, <2>1, <2>2, UserEditsOK DEF Next
<1>2. ASSUME ProfilesInv, UNCHANGED vars PROVE ProfilesInv'
  BY <1>2, StutterOK
<1> QED BY <1>1, <1>2

--------------------------------------------------------------------------------
\* The inductive invariant holds of every behaviour.
THEOREM ProfilesInvariant == Spec => []ProfilesInv
<1> QED BY ProfilesInit, ProfilesStep, PTL DEF Spec

\* Ids keep their homes, homes their namespaces, and the registry can be loaded
\* again, whatever order commands, hand edits and kills come in.
THEOREM SeparateNamespaces == Spec => []NamespacesStaySeparate
<1>1. ASSUME ProfilesInv PROVE NamespacesStaySeparate
  <2>1. ValidRegistry(registry) /\ NamespaceBinding
    BY <1>1 DEF ProfilesInv, History, Known, NamespaceBinding
  <2>2. ASSUME NEW h \in Homes
        PROVE  /\ Cardinality(used[h]) <= 1
               /\ used[h] \subseteq Allowed(h)
    <3>1. PICK ns \in Allowed(h) : used[h] \subseteq {ns}
      BY <1>1 DEF ProfilesInv, HomesOK
    <3>2. used[h] = {} \/ used[h] = {ns}
      BY <3>1
    <3>3. Cardinality(used[h]) \in {0, 1}
      BY <3>2, FS_EmptySet, FS_Singleton, Zenon
    <3> QED BY <3>1, <3>3
  <2>3. HomesKeepOneNamespace
    BY <2>2, Zenon DEF HomesKeepOneNamespace, Allowed
  <2> QED BY <2>1, <2>3 DEF NamespacesStaySeparate
<1> QED BY <1>1, ProfilesInvariant, PTL

\* A command replaces the registry it loaded, unless a hand edit fell between its
\* revision check and its rename, and leaves the entries it does not move.
THEOREM UpdatesKept == Spec => NoUpdateLost
<1> DEFINE Kept ==
      \A i \in Invocations : pc[i] = "write" /\ registry' # registry /\ pc'[i] = "done" =>
        \/ i \in raced
        \/ /\ registry = loaded[i]
           /\ \A n \in DOMAIN registry.profiles \cap DOMAIN registry'.profiles :
                registry.profiles[n].home = registry'.profiles[n].home =>
                  registry.profiles[n] = registry'.profiles[n]
<1>1. ASSUME ProfilesInv, Next PROVE Kept
  <2> SUFFICES ASSUME NEW i \in Invocations, pc[i] = "write", registry' # registry, pc'[i] = "done",
                      i \notin raced
               PROVE  /\ registry = loaded[i]
                      /\ \A n \in DOMAIN registry.profiles \cap DOMAIN registry'.profiles :
                           registry.profiles[n].home = registry'.profiles[n].home =>
                             registry.profiles[n] = registry'.profiles[n]
    OBVIOUS
  <2>1. registry = loaded[i] /\ Follows(next[i], loaded[i], Unused)
    BY <1>1 DEF ProfilesInv, EditOK
  <2>2. registry' = next[i]
    <3>1. ASSUME NEW j \in Invocations, WriteRegistry(j) PROVE j = i
      <4>1. pc' = [pc EXCEPT ![j] = "done"]
        BY <3>1 DEF WriteRegistry, Goto
      <4> QED BY <1>1, <4>1 DEF ProfilesInv, Types
    <3>2. ~UserEdits
      BY DEF UserEdits
    <3>3. \E j \in Invocations : WriteRegistry(j)
      BY <1>1, <3>2, Zenon DEF Next, Done, vars, fileVars, AcquireRegistry, LoadRegistry, Check, Refuse,
        Confirm, ChangedConcurrently, WriteFails, Resolve, LockHome, LoadConfig, SaveConfig,
        LockTimeout, Crash
    <3> QED BY <3>1, <3>3 DEF WriteRegistry
  <2> QED BY <2>1, <2>2 DEF Follows
<1>2. ProfilesInv /\ [Next]_vars => [Kept]_vars
  BY <1>1
<1>3. Spec => [][Kept]_vars
  BY <1>2, ProfilesInvariant, PTL DEF Spec
<1> QED BY <1>3 DEF NoUpdateLost
================================================================================
