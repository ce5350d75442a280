------------------------------ MODULE MCRemoteRun ------------------------------
(***************************************************************************)
(* Scripts for TLC: everything that can be printed in two pieces without   *)
(* a key, and longer outputs with keys, secrets and unfinished lines.      *)
(***************************************************************************)
EXTENDS RemoteRun

MCOutScripts ==
  {<<>>}
  \cup UNION {[1..n -> {"a", "s1", "s2", "nl"}] : n \in 1..2}
  \cup {<<"b", "nl", "k", "nl", "e", "nl">>,
        <<"a", "nl", "b", "nl", "k">>,
        <<"b", "nl", "e", "nl", "s1", "s2">>,
        <<"s1", "s2", "nl", "s1">>}

MCErrScripts == {<<>>, <<"s1", "s2">>, <<"a", "a", "nl">>}
================================================================================
