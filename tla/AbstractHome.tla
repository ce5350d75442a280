------------------------------ MODULE AbstractHome -----------------------------
(***************************************************************************)
(* What a home promises, whatever the order of its file and keyring calls: *)
(* a password is in the keyring as long as servers.json, as it is or as a  *)
(* power loss could leave it, refers to it, and no password in the keyring *)
(* is replaced by another.                                                 *)
(***************************************************************************)
CONSTANTS
  Files,        \* what servers.json may hold at first
  FileRefs(_)   \* the keyring entries that a file refers to

VARIABLES file, recoverable, keyring

vars == <<file, recoverable, keyring>>

Needed == UNION {FileRefs(f) : f \in recoverable}

Init ==
  /\ file \in Files
  /\ recoverable = {file}
  /\ keyring = [s \in FileRefs(file) |-> 0]

\* Passwords no config needs come and go.
ChangeKeyring ==
  /\ Needed \subseteq DOMAIN keyring'
  /\ \A s \in DOMAIN keyring \cap DOMAIN keyring' : keyring'[s] = keyring[s]
  /\ UNCHANGED <<file, recoverable>>

\* A config is put in place; all it refers to is stored by then.
Replace ==
  /\ recoverable' = recoverable \cup {file'}
  /\ FileRefs(file') \subseteq DOMAIN keyring
  /\ UNCHANGED keyring

\* The file as it is will outlive a power loss.
Harden ==
  /\ recoverable' = {file}
  /\ UNCHANGED <<file, keyring>>

LosePower ==
  /\ file' \in recoverable
  /\ recoverable' = {file'}
  /\ UNCHANGED keyring

Next == ChangeKeyring \/ Replace \/ Harden \/ LosePower

Spec == Init /\ [][Next]_vars
================================================================================
