------------------------------ MODULE MCHomeStore ------------------------------
(***************************************************************************)
(* Small homes for TLC: two servers, two login users, one privilege user.  *)
(***************************************************************************)
EXTENDS HomeStore, TLC

CONSTANTS e1, e2, u1, u2, p1, p2

Key(purpose, n, u) == [purpose |-> purpose, server |-> n, user |-> u, gen |-> 0]

\* One server with a password account that may use sudo and an agent account,
\* whose keys are in the legacy form.
LegacyHome ==
  [default |-> 1, servers |-> [n \in Servers |-> IF n # 1 THEN Absent ELSE
    [endpoint |-> e1, defaultUser |-> u1,
     accounts |-> [u \in Users |->
       IF u # u1 THEN Absent ELSE
       [auth |-> Key("login", 1, AnyUser),
        privilege |-> [method |-> "sudo", user |-> "root",
                       credential |-> Key("privilege", 1, AnyUser)]]]]]]

\* Two servers, the second with two password accounts.
FullHome ==
  [default |-> 2, servers |-> [n \in Servers |->
    [endpoint |-> e1, defaultUser |-> u1,
     accounts |-> [u \in Users |->
       IF n = 1 /\ u = u2 THEN Absent ELSE
       [auth |-> IF n = 1 THEN Agent ELSE Key("login", n, u), privilege |-> Absent]]]]]

MCFiles == {Missing, LegacyHome, FullHome}
MCPopulated == {LegacyHome, FullHome}
MCLegacy == {LegacyHome}

\* Invocations are interchangeable.
MCSymmetry == Permutations(Procs)
================================================================================
