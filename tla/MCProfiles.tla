------------------------------- MODULE MCProfiles -------------------------------
(***************************************************************************)
(* Two names, two homes and three invocations.                             *)
(***************************************************************************)
EXTENDS Profiles, TLC

CONSTANTS h1, h2

MCRegistries ==
  {[default |-> None, profiles |-> <<>>],
   [default |-> 1, profiles |-> <<[id |-> 1, home |-> h1]>>],
   [default |-> 2, profiles |-> <<[id |-> 1, home |-> h1], [id |-> 2, home |-> h1]>>]}

MCCommands ==
  [op : {"add"}, name : {1}, home : Homes, force : {TRUE}]
  \cup {[op |-> "add", name |-> 2, home |-> h1, force |-> FALSE]}
  \cup [op : {"default"}, name : {1}]
  \cup [op : {"remove"}, name : {1}]
  \cup [op : {"register"}, via : {"home"}, home : {h1}]
  \cup [op : {"register"}, via : {"profile"}, name : Names]
  \cup [op : {"register", "forget"}, via : {"default"}]

AnyInvocation == Permutations(Invocations)
================================================================================
