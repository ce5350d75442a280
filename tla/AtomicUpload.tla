------------------------------ MODULE AtomicUpload -----------------------------
(***************************************************************************)
(* put --atomic: uploads that replace one remote file by way of a          *)
(* temporary sibling and posix-rename.  The server may refuse a request,   *)
(* apply it and lose the answer, or apply it after the client gave up: the *)
(* rename travels on an SFTP channel of its own, so that it and the unlink *)
(* of the clean-up are applied in either order.                            *)
(*                                                                         *)
(* Names have 24 random bytes: each upload has its own, but some file may  *)
(* be there already.                                                       *)
(***************************************************************************)
EXTENDS Naturals

CONSTANTS
  Uploads,   \* invocations that upload to the same destination
  Size,      \* chunks of the source
  Taken,     \* uploads whose temporary name exists on the server already
  Absent,    \* no such remote file
  Old,       \* what the destination holds at first
  Foreign    \* a file that no upload has made

ASSUME UploadAssumption ==
  /\ Size \in Nat
  /\ Taken \subseteq Uploads

Staged == [of : Uploads, size : 0..Size, mode : {"private", "asked"}]

ASSUME FileAssumption ==
  /\ Absent \notin Staged \cup {Old, Foreign}
  /\ Foreign \notin Staged \cup {Old}
  /\ Old \notin Staged

VARIABLES
  dest,           \* the destination
  temp,           \* the file at the temporary name of each upload
  late,           \* requests the client gave up that the server may still apply
  replaced,       \* uploads whose file has been the destination
  pc, sent, creation, renameStarted,
  report          \* what the invocation says when it ends

remoteVars == <<dest, temp, late, replaced>>
vars == <<dest, temp, late, replaced, pc, sent, creation, renameStarted, report>>

Working == {"open", "send", "verify", "mode", "close", "rename", "cleanup"}
Reports == [result : {"none", "ok", "error", "crashed"},
            replacement : {"confirmed", "not attempted", "not confirmed"},
            temporary : {"none", "not attempted", "not confirmed", "removed", "may remain"}]

NoReport == [result |-> "none", replacement |-> "not attempted", temporary |-> "none"]

Init ==
  /\ dest = Old
  /\ temp = [p \in Uploads |-> IF p \in Taken THEN Foreign ELSE Absent]
  /\ late = {}
  /\ replaced = {}
  /\ pc = [p \in Uploads |-> "start"]
  /\ sent = [p \in Uploads |-> 0]
  /\ creation = [p \in Uploads |-> "not attempted"]
  /\ renameStarted = [p \in Uploads |-> FALSE]
  /\ report = [p \in Uploads |-> NoReport]

--------------------------------------------------------------------------------
(***************************************************************************)
(* What the server does.                                                   *)
(***************************************************************************)
\* CREATE with EXCLUSIVE: only a name that is free.
CreateTemp(p) ==
  /\ temp[p] = Absent
  /\ temp' = [temp EXCEPT ![p] = [of |-> p, size |-> 0, mode |-> "private"]]
  /\ UNCHANGED <<dest, replaced>>

ReplaceDest(p) ==
  /\ temp[p] # Absent
  /\ dest' = temp[p]
  /\ temp' = [temp EXCEPT ![p] = Absent]
  /\ replaced' = replaced \cup {p}

RemoveTemp(p) ==
  /\ temp[p] # Absent
  /\ temp' = [temp EXCEPT ![p] = Absent]
  /\ UNCHANGED <<dest, replaced>>

Apply(request, p) ==
  \/ request = "open" /\ CreateTemp(p)
  \/ request = "rename" /\ ReplaceDest(p)
  \/ request = "unlink" /\ RemoveTemp(p)

\* The client gets no good answer: the request was refused, it was applied, or
\* the server has yet to see to it.
Unanswered(request, p) ==
  \/ UNCHANGED remoteVars
  \/ Apply(request, p) /\ UNCHANGED late
  \/ late' = late \cup {<<request, p>>} /\ UNCHANGED <<dest, temp, replaced>>

ApplyLate ==
  \E request \in {"open", "rename", "unlink"}, p \in Uploads :
    /\ <<request, p>> \in late
    /\ late' = late \ {<<request, p>>}
    /\ Apply(request, p) \/ UNCHANGED <<dest, temp, replaced>>
    /\ UNCHANGED <<pc, sent, creation, renameStarted, report>>

--------------------------------------------------------------------------------
(***************************************************************************)
(* What the client does.                                                   *)
(***************************************************************************)
Goto(p, from, to) ==
  /\ pc[p] = from
  /\ pc' = [pc EXCEPT ![p] = to]

Start(p) ==
  /\ Goto(p, "start", "open")
  /\ UNCHANGED <<remoteVars, sent, creation, renameStarted, report>>

\* An error or the deadline ends the stage; what follows is the clean-up.  The
\* temporary name cannot be had, SFTP does not start, the source shrinks or a
\* write is not accepted.
Fail(p) ==
  /\ \E stage \in {"open", "send", "verify", "mode", "close"} : Goto(p, stage, "cleanup")
  /\ UNCHANGED <<remoteVars, sent, creation, renameStarted, report>>

Open(p) ==
  /\ Goto(p, "open", "send")
  /\ CreateTemp(p)
  /\ creation' = [creation EXCEPT ![p] = "confirmed"]
  /\ UNCHANGED <<late, sent, renameStarted, report>>

OpenFails(p) ==
  /\ Goto(p, "open", "cleanup")
  /\ Unanswered("open", p)
  /\ creation' = [creation EXCEPT ![p] = "not confirmed"]
  /\ UNCHANGED <<sent, renameStarted, report>>

\* A server may accept a chunk and keep nothing of it.
Send(p) ==
  /\ pc[p] = "send"
  /\ sent[p] < Size
  /\ sent' = [sent EXCEPT ![p] = @ + 1]
  /\ \E kept \in {0, 1} : temp' = [temp EXCEPT ![p].size = @ + kept]
  /\ UNCHANGED <<dest, late, replaced, pc, creation, renameStarted, report>>

Sent(p) ==
  /\ Goto(p, "send", "verify")
  /\ sent[p] = Size
  /\ UNCHANGED <<remoteVars, sent, creation, renameStarted, report>>

\* Fault: the bytes that were sent are counted, not those that were kept.
VerifySent(p) ==
  /\ Goto(p, "verify", IF sent[p] = Size THEN "mode" ELSE "cleanup")
  /\ UNCHANGED <<remoteVars, sent, creation, renameStarted, report>>

VerifySize(p) ==
  /\ Goto(p, "verify", IF temp[p].size = Size THEN "mode" ELSE "cleanup")
  /\ UNCHANGED <<remoteVars, sent, creation, renameStarted, report>>

SetMode(p) ==
  /\ Goto(p, "mode", "close")
  /\ temp' = [temp EXCEPT ![p].mode = "asked"]
  /\ UNCHANGED <<dest, late, replaced, sent, creation, renameStarted, report>>

\* Fault: the rename is marked as started only when it has succeeded.
CloseUnmarked(p) ==
  /\ Goto(p, "close", "rename")
  /\ UNCHANGED <<remoteVars, sent, creation, renameStarted, report>>

\* From here on the report calls the replacement not confirmed.
Close(p) ==
  /\ Goto(p, "close", "rename")
  /\ renameStarted' = [renameStarted EXCEPT ![p] = TRUE]
  /\ UNCHANGED <<remoteVars, sent, creation, report>>

Rename(p) ==
  /\ Goto(p, "rename", "done")
  /\ ReplaceDest(p)
  /\ report' = [report EXCEPT ![p] = [result |-> "ok", replacement |-> "confirmed",
                                      temporary |-> "none"]]
  /\ UNCHANGED <<late, sent, creation, renameStarted>>

RenameFails(p) ==
  /\ Goto(p, "rename", "cleanup")
  /\ Unanswered("rename", p)
  /\ UNCHANGED <<sent, creation, renameStarted, report>>

ErrorReport(p, temporary) ==
  report' = [report EXCEPT ![p] =
    [result |-> "error",
     replacement |-> IF renameStarted[p] THEN "not confirmed" ELSE "not attempted",
     temporary |-> temporary]]

\* An OPEN without an answer does not authorize the unlink.
LeaveTemp(p) ==
  /\ Goto(p, "cleanup", "done")
  /\ creation[p] # "confirmed"
  /\ ErrorReport(p, creation[p])
  /\ UNCHANGED <<remoteVars, sent, creation, renameStarted>>

\* Fault: whatever is at the temporary name is removed.
UnlinkAnything(p) ==
  /\ Goto(p, "cleanup", "done")
  /\ RemoveTemp(p)
  /\ ErrorReport(p, "removed")
  /\ UNCHANGED <<late, sent, creation, renameStarted>>

Unlink(p) ==
  /\ Goto(p, "cleanup", "done")
  /\ creation[p] = "confirmed"
  /\ RemoveTemp(p)
  /\ ErrorReport(p, "removed")
  /\ UNCHANGED <<late, sent, creation, renameStarted>>

\* Fault: the unlink is tried until it succeeds.
UnlinkRetries(p) ==
  /\ pc[p] = "cleanup"
  /\ creation[p] = "confirmed"
  /\ Unanswered("unlink", p)
  /\ UNCHANGED <<pc, sent, creation, renameStarted, report>>

UnlinkFails(p) ==
  /\ Goto(p, "cleanup", "done")
  /\ creation[p] = "confirmed"
  /\ Unanswered("unlink", p)
  /\ ErrorReport(p, "may remain")
  /\ UNCHANGED <<sent, creation, renameStarted>>

\* The invocation is killed: nobody cleans up.
Crash(p) ==
  /\ pc[p] \in Working
  /\ pc' = [pc EXCEPT ![p] = "done"]
  /\ report' = [report EXCEPT ![p].result = "crashed"]
  /\ UNCHANGED <<remoteVars, sent, creation, renameStarted>>

--------------------------------------------------------------------------------
Step(p) ==
  \/ Fail(p) \/ Open(p) \/ OpenFails(p) \/ Send(p) \/ Sent(p) \/ VerifySize(p) \/ SetMode(p)
  \/ Close(p) \/ Rename(p) \/ RenameFails(p) \/ LeaveTemp(p) \/ Unlink(p) \/ UnlinkFails(p)

AllDone ==
  /\ \A p \in Uploads : pc[p] = "done"
  /\ UNCHANGED vars

Next ==
  \/ \E p \in Uploads : Start(p) \/ Step(p) \/ Crash(p)
  \/ ApplyLate
  \/ AllDone

Spec == Init /\ [][Next]_vars

\* A live invocation goes on: every request is answered or meets the deadline.
FairSpec == Spec /\ \A p \in Uploads : WF_vars(Step(p))

--------------------------------------------------------------------------------
(***************************************************************************)
(* Properties.                                                             *)
(***************************************************************************)
\* Type invariant: no more chunks are sent or kept than the source had when its
\* size was taken.
TypeOK ==
  /\ dest \in Staged \cup {Old}
  /\ temp \in [Uploads -> Staged \cup {Absent, Foreign}]
  /\ late \subseteq {"open", "rename", "unlink"} \X Uploads
  /\ replaced \subseteq Uploads
  /\ pc \in [Uploads -> Working \cup {"start", "done"}]
  /\ sent \in [Uploads -> 0..Size]
  /\ creation \in [Uploads -> {"not attempted", "not confirmed", "confirmed"}]
  /\ renameStarted \in [Uploads -> BOOLEAN]
  /\ report \in [Uploads -> Reports]

\* The destination is what it was or all of one upload with the mode that was
\* asked for: no order of lost and late requests publishes a partial file.
DestinationIsWhole ==
  dest = Old \/ \E p \in Uploads : dest = [of |-> p, size |-> Size, mode |-> "asked"]

\* A file that an upload found at its temporary name is never changed, moved
\* or removed.
ForeignFilesUntouched == \A p \in Taken : temp[p] = Foreign

\* What an invocation reports stays true whatever the server still applies: a
\* success did replace the destination, a replacement that was not attempted
\* never happens, a file said to be removed is gone and will not become the
\* destination, and a file that stays behind is not passed over in silence.
ReportsAreTrue ==
  \A p \in Uploads :
    /\ report[p].result = "ok" => p \in replaced
    /\ report[p].result = "error" /\ report[p].replacement = "not attempted" => p \notin replaced
    /\ report[p].temporary = "removed" => temp[p] = Absent /\ p \notin replaced
    /\ report[p].result \in {"ok", "error"} /\ temp[p] \notin {Absent, Foreign} =>
         report[p].temporary \in {"not confirmed", "may remain"}

\* An upload that was started ends, clean-up included.
UploadsEnd == \A p \in Uploads : pc[p] = "open" ~> pc[p] = "done"
================================================================================
