-------------------------------- MODULE Download -------------------------------
(***************************************************************************)
(* sshw get: downloads to one local path by way of a staged sibling file.  *)
(* The path is checked before connecting, before staging and before        *)
(* publishing; the staged file is synced, measured and published only when *)
(* the remote scp has ended well.  Other programs create and remove the    *)
(* destination at any moment; the process can be killed, and the machine   *)
(* can lose power, which takes back what no sync has confirmed.            *)
(*                                                                         *)
(* The remote scp (external) pads what it cannot read and says so in its   *)
(* exit status.                                                            *)
(***************************************************************************)
EXTENDS Naturals

CONSTANTS
  Gets,       \* invocations of sshw get with the same destination
  Consented,  \* those with --yes
  Size,       \* chunks of the remote file, as its scp announces
  Absent, Directory, Theirs,  \* no entry; a directory; another program's file
  Initially,  \* what the destination may be at first
  MaxEdits,   \* bound: how often another program changes the destination
  MaxLosses   \* bound: how often the machine loses power

ASSUME DownloadAssumption ==
  /\ Consented \subseteq Gets
  /\ Size \in Nat /\ MaxEdits \in Nat /\ MaxLosses \in Nat

\* A staged file: whose it is, what it holds, whether it has been synced.
Staged == [of : Gets, size : 0..Size, sound : BOOLEAN, synced : BOOLEAN]
Others == {Absent, Directory, Theirs}

ASSUME EntryAssumption ==
  /\ Others \cap Staged = {}
  /\ Absent # Directory /\ Absent # Theirs /\ Directory # Theirs
  /\ Initially \subseteq Others

VARIABLES
  dest,         \* the entry at the destination
  recoverable,  \* what may be there after a power loss
  temp,         \* the staged file of each download
  pc, outcome,
  edits, losses

diskVars == <<dest, recoverable>>
boundVars == <<edits, losses>>
vars == <<dest, recoverable, temp, pc, outcome, edits, losses>>

Working == {"connect", "stage", "receive", "complete", "persist", "publish", "sync"}

Init ==
  /\ dest \in Initially
  /\ recoverable = {dest}
  /\ temp = [g \in Gets |-> Absent]
  /\ pc = [g \in Gets |-> "start"]
  /\ outcome = [g \in Gets |-> "none"]
  /\ edits = 0 /\ losses = 0

--------------------------------------------------------------------------------
Goto(g, from, to) ==
  /\ pc[g] = from
  /\ pc' = [pc EXCEPT ![g] = to]

End(g, from, result) ==
  /\ Goto(g, from, "done")
  /\ outcome' = [outcome EXCEPT ![g] = result]

\* Dropping the staged file removes it.
DropTemp(g) == temp' = [temp EXCEPT ![g] = Absent]

\* Path shape and consent to overwrite.
CheckDestination(g) == dest # Directory /\ (dest = Absent \/ g \in Consented)

Precheck(g) ==
  /\ Goto(g, "start", "connect")
  /\ CheckDestination(g)
  /\ UNCHANGED <<diskVars, temp, outcome, boundVars>>

Connect(g) ==
  /\ Goto(g, "connect", "stage")
  /\ UNCHANGED <<diskVars, temp, outcome, boundVars>>

Stage(g) ==
  /\ Goto(g, "stage", "receive")
  /\ CheckDestination(g)
  /\ temp' = [temp EXCEPT ![g] = [of |-> g, size |-> 0, sound |-> TRUE, synced |-> FALSE]]
  /\ UNCHANGED <<diskVars, outcome, boundVars>>

\* No more than the announced size is read.  A chunk may be padding.
Receive(g) ==
  /\ pc[g] = "receive"
  /\ temp[g].size < Size
  /\ \E sound \in BOOLEAN :
       temp' = [temp EXCEPT ![g] = [of |-> @.of, size |-> @.size + 1,
                                    sound |-> @.sound /\ sound, synced |-> @.synced]]
  /\ UNCHANGED <<diskVars, pc, outcome, boundVars>>

\* The stream has ended: sync the staged file and measure it.
Received(g) ==
  /\ Goto(g, "receive", "complete")
  /\ temp[g].size = Size
  /\ temp' = [temp EXCEPT ![g].synced = TRUE]
  /\ UNCHANGED <<diskVars, outcome, boundVars>>

\* Fault: the exit of the remote scp is not looked at.
CompleteUnverified(g) ==
  /\ Goto(g, "complete", "persist")
  /\ UNCHANGED <<diskVars, temp, outcome, boundVars>>

Complete(g) ==
  /\ Goto(g, "complete", "persist")
  /\ temp[g].sound
  /\ UNCHANGED <<diskVars, temp, outcome, boundVars>>

PersistCheck(g) ==
  /\ Goto(g, "persist", "publish")
  /\ CheckDestination(g)
  /\ UNCHANGED <<diskVars, temp, outcome, boundVars>>

\* A check that does not pass ends the download.
Refuse(g) ==
  /\ \E at \in {"start", "stage", "persist"} : End(g, at, "error")
  /\ ~CheckDestination(g)
  /\ DropTemp(g)
  /\ UNCHANGED <<diskVars, boundVars>>

\* Fault: an error is met by connecting anew.
FailReconnects(g) ==
  /\ \E at \in {"connect", "stage", "receive", "complete", "persist", "publish"} :
       Goto(g, at, "connect")
  /\ DropTemp(g)
  /\ UNCHANGED <<diskVars, outcome, boundVars>>

\* Fault: the staged file outlives the error.
FailKeepsTemp(g) ==
  /\ \E at \in {"connect", "stage", "receive", "complete", "persist", "publish"} :
       End(g, at, "error")
  /\ UNCHANGED <<diskVars, temp, boundVars>>

\* An error before the file is published: the connection or the deadline, a
\* short stream, a remote scp that failed, the local disk.
Fail(g) ==
  /\ \E at \in {"connect", "stage", "receive", "complete", "persist", "publish"} :
       End(g, at, "error")
  /\ DropTemp(g)
  /\ UNCHANGED <<diskVars, boundVars>>

\* Fault: the check before is relied on, and the rename replaces what it finds.
PublishOver(g) ==
  /\ Goto(g, "publish", "sync")
  /\ dest # Directory
  /\ dest' = temp[g]
  /\ recoverable' = recoverable \cup {dest'}
  /\ DropTemp(g)
  /\ UNCHANGED <<outcome, boundVars>>

\* persist() renames over a file, persist_noclobber() only to a free name.
Publish(g) ==
  /\ Goto(g, "publish", "sync")
  /\ dest # Directory
  /\ g \notin Consented => dest = Absent
  /\ dest' = temp[g]
  /\ recoverable' = recoverable \cup {dest'}
  /\ DropTemp(g)
  /\ UNCHANGED <<outcome, boundVars>>

\* Fault: the directory is not synced.
SyncSkipped(g) ==
  /\ End(g, "sync", "ok")
  /\ UNCHANGED <<diskVars, temp, boundVars>>

SyncDirectory(g) ==
  /\ End(g, "sync", "ok")
  /\ recoverable' = {dest}
  /\ UNCHANGED <<dest, temp, boundVars>>

SyncFails(g) ==
  /\ End(g, "sync", "error")
  /\ UNCHANGED <<diskVars, temp, boundVars>>

Crash(g) ==
  /\ \E at \in Working : End(g, at, "crashed")
  /\ UNCHANGED <<diskVars, temp, boundVars>>

--------------------------------------------------------------------------------
\* Another program puts something else at the destination.
OtherEdit ==
  /\ edits < MaxEdits
  /\ edits' = edits + 1
  /\ dest' \in Others \ {dest}
  /\ recoverable' = recoverable \cup {dest'}
  /\ UNCHANGED <<temp, pc, outcome, losses>>

\* A staged file that was not synced may come back shorter.
Recovered(entry) ==
  IF entry \in Others \/ entry.synced THEN {entry}
  ELSE {[entry EXCEPT !.size = n] : n \in 0..entry.size}

PowerLoss ==
  /\ losses < MaxLosses
  /\ losses' = losses + 1
  /\ dest' \in UNION {Recovered(entry) : entry \in recoverable}
  /\ recoverable' = {dest'}
  /\ pc' = [g \in Gets |-> IF pc[g] \in Working THEN "done" ELSE pc[g]]
  /\ outcome' = [g \in Gets |-> IF pc[g] \in Working THEN "crashed" ELSE outcome[g]]
  /\ UNCHANGED <<temp, edits>>

Step(g) ==
  \/ Connect(g) \/ Stage(g) \/ Receive(g) \/ Received(g) \/ Complete(g) \/ PersistCheck(g)
  \/ Refuse(g) \/ Fail(g) \/ Publish(g) \/ SyncDirectory(g) \/ SyncFails(g)

AllDone ==
  /\ \A g \in Gets : pc[g] = "done"
  /\ UNCHANGED vars

Next ==
  \/ \E g \in Gets : Precheck(g) \/ Step(g) \/ Crash(g)
  \/ OtherEdit
  \/ PowerLoss
  \/ AllDone

Spec == Init /\ [][Next]_vars

\* A live invocation goes on: every read and every answer meets the deadline.
FairSpec == Spec /\ \A g \in Gets : WF_vars(Step(g))

--------------------------------------------------------------------------------
(***************************************************************************)
(* Properties.                                                             *)
(***************************************************************************)
\* What is at the destination, and what a power loss could bring back there, is
\* another program's or a whole download that its remote scp vouched for:
\* neither a crash nor a power loss exposes part of one.
DestinationIsComplete ==
  \A entry \in recoverable :
    entry \in Others \/ (entry.size = Size /\ entry.sound /\ entry.synced)

\* A download without --yes never replaces anything, however late it appeared,
\* and no download replaces a directory.
ReplacesOnlyWithConsent ==
  [][\A g \in Gets :
       temp[g] # Absent /\ dest' # dest /\ dest' = temp[g] =>
         dest # Directory /\ (g \in Consented \/ dest = Absent)]_vars

\* A power loss does not take back a download that has reported success.
SuccessIsDurable ==
  [][\A g \in Gets :
       losses' # losses /\ outcome[g] = "ok" /\ dest \in Staged /\ dest.of = g =>
         dest' = dest]_vars

\* A download that returns leaves no staged file behind, on whatever path.
StagedFilesRemoved == \A g \in Gets : outcome[g] \in {"ok", "error"} => temp[g] = Absent

\* A download that has connected ends.
GetsEnd == \A g \in Gets : pc[g] = "connect" ~> pc[g] = "done"

\* What the documentation of write_stream_owner_only_atomic in storage.rs says:
\* a failed download never replaces an existing file.
FailedGetReplacesNothing ==
  \A g \in Gets : outcome[g] = "error" => ~(dest \in Staged /\ dest.of = g)
================================================================================
