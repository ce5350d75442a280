-------------------------------- MODULE MCAccess -------------------------------
(***************************************************************************)
(* Scenarios for Access: pairs of commands that meet, with one edit by     *)
(* hand, and single commands over many texts and rules.                    *)
(***************************************************************************)
EXTENDS Access

Account(auth, privilege) == [auth |-> auth, privilege |-> privilege]
Config(stored) ==
  [default |-> "s1", backend |-> stored,
   servers |-> [s \in {"s1"} |->
     [user |-> "u", accounts |-> [u \in {"u", "v"} |->
       IF u = "u" THEN Account(0, "none") ELSE Account(1, "su")]]]]

Run(user, text, check) ==
  [op |-> "run", name |-> NoName, user |-> user, text |-> text, yes |-> FALSE, asRoot |-> FALSE,
   noPassword |-> FALSE, stream |-> FALSE, forced |-> FALSE, check |-> check]
AsRoot(run) == [run EXCEPT !.asRoot = TRUE, !.forced = TRUE]
Put(text, atomic, check) ==
  [op |-> "put", name |-> NoName, user |-> NoName, text |-> text, yes |-> FALSE, atomic |-> atomic,
   forced |-> FALSE, check |-> check]
Get(text, check) ==
  [op |-> "get", name |-> NoName, user |-> NoName, text |-> text, yes |-> FALSE,
   forced |-> FALSE, check |-> check]
Policy(action) == [op |-> "policy", action |-> action]
Rule(action, kind, rule) == [op |-> "policy", action |-> action, kind |-> kind, rule |-> rule]
EditOf(action, user, password) ==
  [op |-> "account", name |-> "s1", user |-> user, action |-> action, password |-> password]

File == <<"/", "srv", "/", "f">>
Granting == [enabled |-> TRUE, commands |-> {<<"ls">>}, puts |-> {File}, gets |-> {<<"/", "srv">>},
             accounts |-> {<<"s1", "v">>}]
MCEditedPolicies == {Broken, [Granting EXCEPT !.enabled = FALSE]}

Pair(policies, backends, requests, edited) ==
  {[policy |-> p, config |-> Config(b), keyring |-> {1}, issued |-> 1, edits |-> edited,
    requests |-> r, ready |-> {TRUE}] : p \in policies, b \in backends, r \in requests}
Both(first, second) == {1 :> f @@ 2 :> s : f \in first, s \in second}

Acts == {Run("v", <<"ls">>, FALSE), AsRoot(Run("v", <<"ls">>, FALSE)), Put(File, TRUE, FALSE), Get(File, FALSE)}
PolicyEdits == {Policy("enable"), Policy("disable"), Rule("allow", "commands", <<"id">>),
                Rule("remove", "accounts", <<"s1", "v">>)}
AccountEdits == {EditOf("add", "v", TRUE), EditOf("default", "v", FALSE), EditOf("remove", "v", FALSE)}

Meetings ==
  Pair({Broken, Missing, Granting, NoRules}, {"native"}, Both(Acts, PolicyEdits \cup {Policy("init")}), 1)
  \cup Pair({Granting}, {"native", "session_only"}, Both(Acts, AccountEdits), 1)
  \cup Pair({Missing, Granting}, {"native"},
            Both(PolicyEdits \cup {Policy("init"), Rule("allow", "accounts", <<"s1", "v">>)},
                 PolicyEdits \cup AccountEdits), 1)
  \cup Pair({Missing}, {"native", "session_only"}, Both(AccountEdits, AccountEdits), 1)

\* A preflight and its command.
Preflights ==
  LET commands == {AsRoot(Run("v", t, FALSE)) : t \in {<<>>, <<"ls">>, <<"id">>, <<"sudo", " ", "ls">>}}
                  \cup {[AsRoot(Run(u, t, FALSE)) EXCEPT !.noPassword = TRUE]
                          : u \in {"u", "v", "w"}, t \in {<<"ls">>, <<"sudo", " ", "ls">>}}
                  \cup {Put(t, a, FALSE) : t \in {File, <<"/", "etc", "/", "f">>, <<"remote:", "f">>}, a \in BOOLEAN}
                  \cup {Get(t, FALSE) : t \in {File, <<"/", "f">>}}
  IN  Pair({Granting, Missing}, {"native"},
           {1 :> [r EXCEPT !.check = TRUE] @@ 2 :> r : r \in commands}, 1)

\* One command over many texts and rules.
Paths == BoundedSeq({"/", "\\", "a", "..", "C:"}, 4)
         \cup {<<"remote:">> \o p : p \in BoundedSeq({"/", "a", "C:"}, 3)}
         \cup {<<"/", "a", "/", "b">>, <<"/", "a", "/", ".", "/", "b">>, <<"/", "a", "b">>, <<"/", " ", "a">>}
PathRules == {<<"/">>, <<"/", "a">>, <<"/", "a", "/">>, <<" ", "/", "a">>, <<"/", "a", "/", "..">>, <<" ">>,
              <<"a">>, <<".">>, <<"C:", "\\">>, <<"C:", "/", "a">>, <<"\\", "\\", "a">>, <<"C:">>}
Commands == BoundedSeq({"ls", " ", ";", "/", "$"}, 4)
            \cup {<<"A", "=", " ", "sudo", " ", "ls">>, <<"A", "=", "/", "ls", " ", "id">>, <<"ls", "nl", "id">>, <<" ", "ls", " ", "/", "a">>,
                  <<"env", " ", "A", "=", "b", " ", "ls", " ", "s", ";", "id">>,
                  <<"rm", " ", "-", "r", " ", "-", "f">>, <<"ls", " ", ">", " ", "/", "etc", "/", "f">>}
CommandRules == {<<"ls">>, <<"/", "ls">>, <<"ls", "*">>, <<"ls", " ", "*">>, <<"*">>, <<" ", "*">>,
                 <<" ", "ls", " ">>, <<"ls", ";", "ls">>, <<"ls", ";", "*">>, <<"ls", " ", "ls">>, <<>>}

Alone(policies, requests) ==
  {[policy |-> p, config |-> Config("native"), keyring |-> {1}, issued |-> 1, edits |-> 0,
    requests |-> 1 :> r @@ 2 :> Nothing, ready |-> {TRUE}] : p \in policies, r \in requests}

Texts ==
  Alone({[Granting EXCEPT !.gets = {rule}] : rule \in PathRules}, {Get(t, FALSE) : t \in Paths})
  \cup Alone({[Granting EXCEPT !.puts = {rule}] : rule \in PathRules},
             {Put(t, TRUE, FALSE) : t \in {p \in Paths : Len(p) <= 3}})
  \cup Alone({[Granting EXCEPT !.commands = {rule}] : rule \in CommandRules},
             {Run("u", t, FALSE) : t \in Commands})
  \cup Alone({Granting}, {[AsRoot(Run("v", <<"ls">>, FALSE)) EXCEPT !.stream = TRUE]})

MCPieces ==
  Marks \cup PrefixWords \cup {"a", "b", "A", "f", "s", "r", "ls", "id", "rm", "sudo", "srv", "etc", "temporary"}
MCScenarios == Meetings \cup Preflights \cup Texts
================================================================================
