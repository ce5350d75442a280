--------------------------- MODULE AtomicUploadProofs --------------------------
(***************************************************************************)
(* Atomic uploads are safe for every number of uploads and chunks, and     *)
(* whatever requests the server refuses, delays or leaves unanswered.      *)
(***************************************************************************)
EXTENDS AtomicUpload, TLAPS

Whole(p) == [of |-> p, size |-> Size, mode |-> "asked"]

\* Who made the file at the temporary name, and which requests about it may
\* still be on their way.
Ownership(p) ==
  /\ p \in Taken => temp[p] = Foreign /\ creation[p] # "confirmed"
  /\ p \notin Taken => temp[p] = Absent \/ (temp[p] \in Staged /\ temp[p].of = p)
  /\ creation[p] # "confirmed" =>
       pc[p] \in {"start", "open", "cleanup", "done"} /\ ~renameStarted[p]
  /\ creation[p] = "not confirmed" => pc[p] \in {"cleanup", "done"}
  /\ creation[p] = "not attempted" /\ p \notin Taken => temp[p] = Absent
  /\ creation[p] = "confirmed" => pc[p] \notin {"start", "open"}
  /\ <<"open", p>> \in late => creation[p] = "not confirmed"
  /\ <<"rename", p>> \in late => renameStarted[p] /\ pc[p] \in {"cleanup", "done"}
  /\ <<"unlink", p>> \in late => creation[p] = "confirmed" /\ pc[p] = "done"

\* How far the file has come, stage by stage.
Content(p) ==
  /\ pc[p] \in {"send", "verify", "mode", "close", "rename"} => temp[p] \in Staged
  /\ pc[p] = "send" => temp[p].size <= sent[p]
  /\ pc[p] = "mode" => temp[p].size = Size
  /\ pc[p] = "close" => temp[p] = Whole(p)
  /\ renameStarted[p] => temp[p] \in {Absent, Whole(p)} /\ pc[p] \in {"rename", "cleanup", "done"}
  /\ pc[p] = "rename" => renameStarted[p]
  /\ p \in replaced => renameStarted[p] /\ temp[p] = Absent

Reported(p) ==
  /\ pc[p] # "done" => report[p] = NoReport
  /\ report[p].result = "ok" => p \in replaced
  /\ report[p].result = "error" /\ report[p].replacement = "not attempted" => ~renameStarted[p]
  /\ report[p].temporary = "removed" =>
       creation[p] = "confirmed" /\ temp[p] = Absent /\ p \notin replaced
  /\ /\ report[p].result \in {"ok", "error"}
     /\ report[p].temporary \notin {"not confirmed", "may remain"}
     /\ p \notin Taken
     => temp[p] = Absent /\ creation[p] # "not confirmed"

UploadOK(p) == Ownership(p) /\ Content(p) /\ Reported(p)

UploadInv == TypeOK /\ DestinationIsWhole /\ \A p \in Uploads : UploadOK(p)

--------------------------------------------------------------------------------
LEMMA StagedFacts ==
  /\ Absent \notin Staged /\ Foreign \notin Staged /\ Old \notin Staged
  /\ Absent # Foreign /\ Absent # Old /\ Foreign # Old
  /\ \A p \in Uploads : Whole(p) \in Staged
  /\ \A s \in Staged : s.of \in Uploads /\ s.size \in 0..Size
  /\ \A p \in Uploads : [of |-> p, size |-> 0, mode |-> "private"] \in Staged
BY UploadAssumption, FileAssumption DEF Whole, Staged

LEMMA UploadInvInit == Init => UploadInv
<1> SUFFICES ASSUME Init PROVE UploadInv
  OBVIOUS
<1>0. NoReport \in Reports
  BY DEF NoReport, Reports
<1>1. TypeOK
  <2>1. temp \in [Uploads -> Staged \cup {Absent, Foreign}] BY DEF Init
  <2>2. sent \in [Uploads -> 0..Size]
    <3>1. 0 \in 0..Size BY UploadAssumption
    <3> QED BY <3>1 DEF Init
  <2>3. dest \in Staged \cup {Old} BY DEF Init
  <2>4. late \subseteq {"open", "rename", "unlink"} \X Uploads /\ replaced \subseteq Uploads
    BY DEF Init
  <2>5. creation \in [Uploads -> {"not attempted", "not confirmed", "confirmed"}] BY DEF Init
  <2>6. renameStarted \in [Uploads -> BOOLEAN] BY DEF Init
  <2>7. report \in [Uploads -> Reports] BY <1>0 DEF Init
  <2>8. pc \in [Uploads -> Working \cup {"start", "done"}] BY DEF Init
  <2> QED BY <2>1, <2>2, <2>3, <2>4, <2>5, <2>6, <2>7, <2>8 DEF TypeOK
<1>2. ASSUME NEW p \in Uploads PROVE UploadOK(p)
  <2>1. Ownership(p) BY DEF Init, Ownership
  <2>2. Content(p) BY DEF Init, Content
  <2>3. Reported(p) BY DEF Init, Reported, NoReport
  <2> QED BY <2>1, <2>2, <2>3 DEF UploadOK
<1> QED BY <1>1, <1>2 DEF UploadInv, DestinationIsWhole, Init

\* What is known of an upload when nothing of its own changes.
SameUpload(q) ==
  /\ temp'[q] = temp[q]
  /\ \A r \in {"open", "rename", "unlink"} : <<r, q>> \in late' <=> <<r, q>> \in late
  /\ q \in replaced' <=> q \in replaced
  /\ pc'[q] = pc[q]
  /\ sent'[q] = sent[q]
  /\ creation'[q] = creation[q]
  /\ renameStarted'[q] = renameStarted[q]
  /\ report'[q] = report[q]

LEMMA SameUploadOK ==
  ASSUME NEW q \in Uploads, UploadOK(q), SameUpload(q)
  PROVE  UploadOK(q)'
<1>1. Ownership(q)' BY DEF UploadOK, Ownership, SameUpload
<1>2. Content(q)' BY DEF UploadOK, Content, SameUpload, Whole
<1>3. Reported(q)' BY DEF UploadOK, Reported, SameUpload, NoReport
<1> QED BY <1>1, <1>2, <1>3 DEF UploadOK

--------------------------------------------------------------------------------
\* The step of one upload leaves every other upload as it was.
LEMMA OthersUntouched ==
  ASSUME TypeOK, NEW p \in Uploads, NEW q \in Uploads \ {p},
         Start(p) \/ Step(p) \/ Crash(p)
  PROVE  SameUpload(q)
<1> DEFINE Same == /\ temp'[q] = temp[q]
                   /\ \A r \in {"open", "rename", "unlink"} : <<r, q>> \in late' <=> <<r, q>> \in late
                   /\ q \in replaced' <=> q \in replaced
<1>0. TypeOK BY DEF TypeOK
<1>1. ASSUME NEW r \in {"open", "rename", "unlink"}, Unanswered(r, p) PROVE Same
  BY <1>1, <1>0 DEF Unanswered, Apply, CreateTemp, ReplaceDest, RemoveTemp, remoteVars, TypeOK
<1> USE <1>0 DEF TypeOK, SameUpload, Goto, remoteVars
<1>2. CASE Start(p) BY <1>2 DEF Start
<1>3. CASE Fail(p) BY <1>3 DEF Fail
<1>4. CASE Open(p) BY <1>4 DEF Open, CreateTemp
<1>5. CASE OpenFails(p) BY <1>5, <1>1 DEF OpenFails
<1>6. CASE Send(p) BY <1>6 DEF Send
<1>7. CASE Sent(p) BY <1>7 DEF Sent
<1>8. CASE VerifySize(p) BY <1>8 DEF VerifySize
<1>9. CASE SetMode(p) BY <1>9 DEF SetMode
<1>10. CASE Close(p) BY <1>10 DEF Close
<1>11. CASE Rename(p) BY <1>11 DEF Rename, ReplaceDest
<1>12. CASE RenameFails(p) BY <1>12, <1>1 DEF RenameFails
<1>13. CASE LeaveTemp(p) BY <1>13 DEF LeaveTemp, ErrorReport
<1>14. CASE Unlink(p) BY <1>14 DEF Unlink, RemoveTemp, ErrorReport
<1>15. CASE UnlinkFails(p) BY <1>15, <1>1 DEF UnlinkFails, ErrorReport
<1>16. CASE Crash(p) BY <1>16 DEF Crash
<1> QED BY <1>2, <1>3, <1>4, <1>5, <1>6, <1>7, <1>8, <1>9, <1>10, <1>11, <1>12, <1>13,
           <1>14, <1>15, <1>16 DEF Step

--------------------------------------------------------------------------------
(***************************************************************************)
(* The server's side.  A request that it applies, at once or late, changes *)
(* only what its upload may expect.                                        *)
(***************************************************************************)
ServerOK(p) ==
  /\ dest' \in Staged \cup {Old}
  /\ temp' \in [Uploads -> Staged \cup {Absent, Foreign}]
  /\ replaced' \subseteq Uploads
  /\ DestinationIsWhole'

LEMMA Update ==
  ASSUME NEW S, NEW T, NEW f \in [S -> T], NEW x \in S, NEW y \in T
  PROVE  [f EXCEPT ![x] = y] \in [S -> T] /\ [f EXCEPT ![x] = y][x] = y
OBVIOUS

LEMMA CreateEffect ==
  ASSUME UploadInv, NEW p \in Uploads, CreateTemp(p)
  PROVE  /\ ServerOK(p)
         /\ p \notin Taken
         /\ temp'[p] \in Staged /\ temp'[p].of = p /\ temp'[p].size = 0
         /\ replaced' = replaced
<1> DEFINE s == [of |-> p, size |-> 0, mode |-> "private"]
<1>1. p \notin Taken
  BY StagedFacts DEF UploadInv, UploadOK, Ownership, CreateTemp
<1>2. s \in Staged /\ s.of = p /\ s.size = 0
  BY StagedFacts
<1>3. temp' = [temp EXCEPT ![p] = s]
  BY DEF CreateTemp
<1> HIDE DEF s
<1>4. temp' \in [Uploads -> Staged \cup {Absent, Foreign}] /\ temp'[p] = s
  BY <1>2, <1>3, Update DEF UploadInv, TypeOK
<1>5. dest' = dest /\ replaced' = replaced
  BY DEF CreateTemp
<1> QED BY <1>1, <1>2, <1>4, <1>5 DEF UploadInv, TypeOK, ServerOK, DestinationIsWhole

LEMMA RemoveEffect ==
  ASSUME UploadInv, NEW p \in Uploads, creation[p] = "confirmed", RemoveTemp(p)
  PROVE  /\ ServerOK(p)
         /\ temp[p] # Absent /\ temp'[p] = Absent
         /\ replaced' = replaced
BY StagedFacts DEF UploadInv, TypeOK, ServerOK, RemoveTemp, DestinationIsWhole

LEMMA ReplaceEffect ==
  ASSUME UploadInv, NEW p \in Uploads, renameStarted[p], ReplaceDest(p)
  PROVE  /\ ServerOK(p)
         /\ temp[p] # Absent /\ temp'[p] = Absent
         /\ replaced' = replaced \cup {p}
<1>1. temp[p] = Whole(p)
  BY DEF UploadInv, UploadOK, Content, ReplaceDest
<1>2. DestinationIsWhole'
  BY <1>1 DEF ReplaceDest, DestinationIsWhole, Whole
<1> QED BY <1>1, <1>2, StagedFacts DEF UploadInv, TypeOK, ServerOK, ReplaceDest

LEMMA UnansweredEffect ==
  ASSUME UploadInv, NEW p \in Uploads, NEW request \in {"open", "rename", "unlink"},
         Unanswered(request, p),
         request = "rename" => renameStarted[p],
         request = "unlink" => creation[p] = "confirmed"
  PROVE  /\ ServerOK(p)
         /\ late' \subseteq {"open", "rename", "unlink"} \X Uploads
         /\ late' \in {late, late \cup {<<request, p>>}}
         /\ late' # late => temp' = temp /\ replaced' = replaced
         /\ \/ temp'[p] = temp[p] /\ replaced' = replaced
            \/ Apply(request, p)
<1>0. /\ late \subseteq {"open", "rename", "unlink"} \X Uploads
      /\ late \cup {<<request, p>>} \subseteq {"open", "rename", "unlink"} \X Uploads
  <2>1. <<request, p>> \in {"open", "rename", "unlink"} \X Uploads
    OBVIOUS
  <2>2. late \subseteq {"open", "rename", "unlink"} \X Uploads
    BY DEF UploadInv, TypeOK
  <2> QED BY <2>1, <2>2
<1>a. ASSUME UNCHANGED <<dest, temp, replaced>> PROVE ServerOK(p)
  BY <1>a DEF UploadInv, TypeOK, ServerOK, DestinationIsWhole
<1>1. CASE UNCHANGED remoteVars
  BY <1>0, <1>1, <1>a DEF remoteVars
<1>2. CASE Apply(request, p) /\ UNCHANGED late
  <2>1. ServerOK(p)
    BY <1>2, CreateEffect, RemoveEffect, ReplaceEffect DEF Apply
  <2> QED BY <1>0, <1>2, <2>1
<1>3. CASE late' = late \cup {<<request, p>>} /\ UNCHANGED <<dest, temp, replaced>>
  BY <1>0, <1>3, <1>a
<1> QED BY <1>1, <1>2, <1>3 DEF Unanswered

--------------------------------------------------------------------------------
(***************************************************************************)
(* One lemma per step of the client: the upload that takes it stays in     *)
(* order.                                                                  *)
(***************************************************************************)
StepOK(p) == TypeOK' /\ DestinationIsWhole' /\ UploadOK(p)'

\* An upload that goes on has nothing to report yet.
LEMMA NothingReported ==
  ASSUME NEW p \in Uploads, report'[p] = NoReport
  PROVE  Reported(p)'
<1>1. NoReport.result = "none" /\ NoReport.temporary = "none"
  BY DEF NoReport
<1> QED BY <1>1 DEF Reported

LEMMA ReportedLater ==
  ASSUME UploadInv, NEW p \in Uploads, pc[p] # "done", report'[p] = report[p]
  PROVE  Reported(p)'
<1>1. report[p] = NoReport
  BY DEF UploadInv, UploadOK, Reported
<1> QED BY <1>1, NothingReported

LEMMA StartOK ==
  ASSUME UploadInv, NEW p \in Uploads, Start(p)
  PROVE  StepOK(p)
<1>1. /\ pc[p] = "start" /\ pc'[p] = "open" /\ renameStarted' = renameStarted
      /\ UNCHANGED <<dest, temp, late, replaced, sent, creation, report>>
  BY DEF Start, Goto, remoteVars, UploadInv, TypeOK
<1>2. TypeOK'
  BY <1>1 DEF Start, Goto, UploadInv, TypeOK, Working
<1>3. DestinationIsWhole'
  BY <1>1 DEF UploadInv, DestinationIsWhole
<1>4. Ownership(p)'
  BY <1>1 DEF UploadInv, UploadOK, Ownership
<1>5. Content(p)'
  BY <1>1 DEF UploadInv, UploadOK, Content, Whole
<1>6. Reported(p)'
  BY <1>1 DEF UploadInv, UploadOK, Reported, NoReport
<1> QED BY <1>2, <1>3, <1>4, <1>5, <1>6 DEF StepOK, UploadOK

LEMMA FailOK ==
  ASSUME UploadInv, NEW p \in Uploads, Fail(p)
  PROVE  StepOK(p)
<1>1. /\ pc[p] \in {"open", "send", "verify", "mode", "close"} /\ pc'[p] = "cleanup" /\ renameStarted' = renameStarted
      /\ UNCHANGED <<dest, temp, late, replaced, sent, creation, report>>
  BY DEF Fail, Goto, remoteVars, UploadInv, TypeOK
<1>2. TypeOK'
  BY <1>1 DEF Fail, Goto, UploadInv, TypeOK, Working
<1>3. DestinationIsWhole'
  BY <1>1 DEF UploadInv, DestinationIsWhole
<1>4. Ownership(p)'
  BY <1>1 DEF UploadInv, UploadOK, Ownership
<1>5. Content(p)'
  BY <1>1 DEF UploadInv, UploadOK, Content, Whole
<1>6. Reported(p)'
  BY <1>1 DEF UploadInv, UploadOK, Reported, NoReport
<1> QED BY <1>2, <1>3, <1>4, <1>5, <1>6 DEF StepOK, UploadOK

LEMMA SentOK ==
  ASSUME UploadInv, NEW p \in Uploads, Sent(p)
  PROVE  StepOK(p)
<1>1. /\ pc[p] = "send" /\ pc'[p] = "verify" /\ renameStarted' = renameStarted
      /\ UNCHANGED <<dest, temp, late, replaced, sent, creation, report>>
  BY DEF Sent, Goto, remoteVars, UploadInv, TypeOK
<1>2. TypeOK'
  BY <1>1 DEF Sent, Goto, UploadInv, TypeOK, Working
<1>3. DestinationIsWhole'
  BY <1>1 DEF UploadInv, DestinationIsWhole
<1>4. Ownership(p)'
  BY <1>1 DEF UploadInv, UploadOK, Ownership
<1>5. Content(p)'
  BY <1>1 DEF UploadInv, UploadOK, Content, Whole
<1>6. Reported(p)'
  BY <1>1 DEF UploadInv, UploadOK, Reported, NoReport
<1> QED BY <1>2, <1>3, <1>4, <1>5, <1>6 DEF StepOK, UploadOK

LEMMA VerifySizeOK ==
  ASSUME UploadInv, NEW p \in Uploads, VerifySize(p)
  PROVE  StepOK(p)
<1>1. /\ pc[p] = "verify" /\ pc'[p] \in {"mode", "cleanup"} /\ renameStarted' = renameStarted
      /\ pc'[p] = "mode" => temp[p].size = Size
      /\ UNCHANGED <<dest, temp, late, replaced, sent, creation, report>>
  BY DEF VerifySize, Goto, remoteVars, UploadInv, TypeOK
<1>2. TypeOK'
  BY <1>1 DEF VerifySize, Goto, UploadInv, TypeOK, Working
<1>3. DestinationIsWhole'
  BY <1>1 DEF UploadInv, DestinationIsWhole
<1>4. Ownership(p)'
  BY <1>1 DEF UploadInv, UploadOK, Ownership
<1>5. Content(p)'
  BY <1>1 DEF UploadInv, UploadOK, Content, Whole
<1>6. Reported(p)'
  BY <1>1 DEF UploadInv, UploadOK, Reported, NoReport
<1> QED BY <1>2, <1>3, <1>4, <1>5, <1>6 DEF StepOK, UploadOK

LEMMA CloseOK ==
  ASSUME UploadInv, NEW p \in Uploads, Close(p)
  PROVE  StepOK(p)
<1>1. /\ pc[p] = "close" /\ pc'[p] = "rename" /\ renameStarted'[p] = TRUE
      /\ UNCHANGED <<dest, temp, late, replaced, sent, creation, report>>
  BY DEF Close, Goto, remoteVars, UploadInv, TypeOK
<1>2. TypeOK'
  BY <1>1 DEF Close, Goto, UploadInv, TypeOK, Working
<1>3. DestinationIsWhole'
  BY <1>1 DEF UploadInv, DestinationIsWhole
<1>4. Ownership(p)'
  BY <1>1 DEF UploadInv, UploadOK, Ownership
<1>5. Content(p)'
  BY <1>1 DEF UploadInv, UploadOK, Content, Whole
<1>6. Reported(p)'
  BY <1>1, ReportedLater
<1> QED BY <1>2, <1>3, <1>4, <1>5, <1>6 DEF StepOK, UploadOK

LEMMA SendOK ==
  ASSUME UploadInv, NEW p \in Uploads, Send(p)
  PROVE  StepOK(p)
<1>1. /\ pc[p] = "send" /\ pc' = pc
      /\ UNCHANGED <<dest, late, replaced, creation, renameStarted, report>>
      /\ sent[p] \in 0..Size /\ sent[p] < Size
      /\ sent' = [sent EXCEPT ![p] = @ + 1] /\ sent'[p] = sent[p] + 1
  BY DEF Send, UploadInv, TypeOK
<1>2. temp[p] \in Staged /\ temp[p].of = p /\ temp[p].size <= sent[p] /\ p \notin Taken
  BY <1>1, StagedFacts DEF UploadInv, UploadOK, Ownership, Content
<1>3. PICK kept \in {0, 1} : temp' = [temp EXCEPT ![p].size = @ + kept]
  BY DEF Send
<1> DEFINE s == [temp[p] EXCEPT !.size = @ + kept]
<1>4. temp' = [temp EXCEPT ![p] = s]
  BY <1>3
<1>5. s \in Staged /\ s.of = p /\ s.size <= sent[p] + 1
  BY <1>1, <1>2, UploadAssumption DEF Staged
<1> HIDE DEF s
<1>6. temp' \in [Uploads -> Staged \cup {Absent, Foreign}] /\ temp'[p] = s
  BY <1>4, <1>5, Update DEF UploadInv, TypeOK
<1>7. sent[p] + 1 \in 0..Size
  BY <1>1, UploadAssumption
<1>8. sent' \in [Uploads -> 0..Size]
  BY <1>1, <1>7, Update DEF UploadInv, TypeOK
<1>9. TypeOK'
  BY <1>1, <1>6, <1>8 DEF UploadInv, TypeOK
<1>10. DestinationIsWhole'
  BY <1>1 DEF UploadInv, DestinationIsWhole
<1>11. Ownership(p)'
  BY <1>1, <1>2, <1>5, <1>6 DEF UploadInv, UploadOK, Ownership
<1>12. Content(p)'
  BY <1>1, <1>2, <1>5, <1>6 DEF UploadInv, UploadOK, Content, Whole
<1>13. Reported(p)'
  BY <1>1, ReportedLater
<1> QED BY <1>9, <1>10, <1>11, <1>12, <1>13 DEF StepOK, UploadOK

LEMMA SetModeOK ==
  ASSUME UploadInv, NEW p \in Uploads, SetMode(p)
  PROVE  StepOK(p)
<1>1. /\ pc[p] = "mode" /\ pc' = [pc EXCEPT ![p] = "close"] /\ pc'[p] = "close"
      /\ UNCHANGED <<dest, late, replaced, sent, creation, renameStarted, report>>
  BY DEF SetMode, Goto, UploadInv, TypeOK
<1>2. temp[p] \in Staged /\ temp[p].of = p /\ temp[p].size = Size /\ p \notin Taken
  BY <1>1, StagedFacts DEF UploadInv, UploadOK, Ownership, Content
<1>3. [temp[p] EXCEPT !.mode = "asked"] = Whole(p)
  BY <1>2 DEF Staged, Whole
<1>4. temp' = [temp EXCEPT ![p] = Whole(p)]
  BY <1>3 DEF SetMode
<1>5. temp' \in [Uploads -> Staged \cup {Absent, Foreign}] /\ temp'[p] = Whole(p)
  BY <1>4, StagedFacts, Update DEF UploadInv, TypeOK
<1>6. pc' \in [Uploads -> Working \cup {"start", "done"}]
  BY <1>1 DEF UploadInv, TypeOK, Working
<1>7. TypeOK'
  BY <1>1, <1>5, <1>6 DEF UploadInv, TypeOK
<1>8. DestinationIsWhole'
  BY <1>1 DEF UploadInv, DestinationIsWhole
<1>9. Ownership(p)'
  <2>1. Whole(p).of = p
    BY DEF Whole
  <2> QED BY <1>1, <1>2, <1>5, <2>1, StagedFacts DEF UploadInv, UploadOK, Ownership
<1>10. Content(p)'
  BY <1>1, <1>2, <1>5, StagedFacts DEF UploadInv, UploadOK, Content, Whole
<1>11. Reported(p)'
  BY <1>1, ReportedLater
<1> QED BY <1>7, <1>8, <1>9, <1>10, <1>11 DEF StepOK, UploadOK

LEMMA OpenOK ==
  ASSUME UploadInv, NEW p \in Uploads, Open(p)
  PROVE  StepOK(p)
<1>1. /\ pc[p] = "open" /\ pc'[p] = "send" /\ creation'[p] = "confirmed"
      /\ pc' \in [Uploads -> Working \cup {"start", "done"}]
      /\ creation' \in [Uploads -> {"not attempted", "not confirmed", "confirmed"}]
      /\ UNCHANGED <<late, sent, renameStarted, report>>
  BY DEF Open, Goto, UploadInv, TypeOK, Working
<1>2. CreateTemp(p)
  BY DEF Open
<1>3. /\ ServerOK(p) /\ p \notin Taken /\ replaced' = replaced
      /\ temp'[p] \in Staged /\ temp'[p].of = p /\ temp'[p].size = 0
  BY <1>2, CreateEffect
<1>5. TypeOK'
  BY <1>1, <1>3 DEF UploadInv, TypeOK, ServerOK
<1>6. Ownership(p)'
  BY <1>1, <1>3 DEF UploadInv, UploadOK, Ownership
<1>7. Content(p)'
  <2>1. creation[p] = "not attempted" \/ creation[p] = "not confirmed" \/ creation[p] = "confirmed"
    BY DEF UploadInv, TypeOK
  <2>2. ~renameStarted[p] /\ p \notin replaced
    BY <1>1, <2>1 DEF UploadInv, UploadOK, Ownership, Content
  <2>3. 0 <= sent[p]
    <3>1. sent[p] \in 0..Size BY DEF UploadInv, TypeOK
    <3> QED BY <3>1, UploadAssumption
  <2> QED BY <1>1, <1>3, <2>2, <2>3 DEF Content
<1>8. Reported(p)'
  BY <1>1, ReportedLater
<1> QED BY <1>3, <1>5, <1>6, <1>7, <1>8 DEF StepOK, UploadOK, ServerOK

\* The end of an upload that failed.
LEMMA ErrorReportType ==
  ASSUME UploadInv, NEW p \in Uploads,
         NEW t \in {"none", "not attempted", "not confirmed", "removed", "may remain"},
         ErrorReport(p, t)
  PROVE  /\ report' \in [Uploads -> Reports]
         /\ report'[p].result = "error"
         /\ report'[p].temporary = t
         /\ report'[p].replacement = "not attempted" => ~renameStarted[p]
<1> DEFINE r == [result |-> "error",
                 replacement |-> IF renameStarted[p] THEN "not confirmed" ELSE "not attempted",
                 temporary |-> t]
<1>1. r \in Reports
  BY DEF Reports
<1>2. r.result = "error" /\ r.temporary = t /\ (r.replacement = "not attempted" => ~renameStarted[p])
  OBVIOUS
<1>3. report' = [report EXCEPT ![p] = r]
  BY DEF ErrorReport
<1> HIDE DEF r
<1>4. report' \in [Uploads -> Reports] /\ report'[p] = r
  BY <1>1, <1>3, Update DEF UploadInv, TypeOK
<1> QED BY <1>2, <1>4

LEMMA OpenFailsOK ==
  ASSUME UploadInv, NEW p \in Uploads, OpenFails(p)
  PROVE  StepOK(p)
<1>1. /\ pc[p] = "open" /\ pc'[p] = "cleanup" /\ creation'[p] = "not confirmed"
      /\ pc' \in [Uploads -> Working \cup {"start", "done"}]
      /\ creation' \in [Uploads -> {"not attempted", "not confirmed", "confirmed"}]
      /\ UNCHANGED <<sent, renameStarted, report>>
  BY DEF OpenFails, Goto, UploadInv, TypeOK, Working
<1>2. Unanswered("open", p)
  BY DEF OpenFails
<1>3. /\ ServerOK(p) /\ late' \in {late, late \cup {<<"open", p>>}}
      /\ late' \subseteq {"open", "rename", "unlink"} \X Uploads
      /\ (temp'[p] = temp[p] /\ replaced' = replaced) \/ CreateTemp(p)
  BY <1>2, UnansweredEffect DEF Apply
<1>4. creation[p] = "not attempted" /\ ~renameStarted[p]
  BY <1>1 DEF UploadInv, UploadOK, Ownership, TypeOK
<1>5. TypeOK'
  BY <1>1, <1>3 DEF UploadInv, TypeOK, ServerOK
<1>6. temp'[p] = temp[p] \/ (p \notin Taken /\ temp'[p] \in Staged /\ temp'[p].of = p)
  BY <1>3, CreateEffect
<1>7. Ownership(p)'
  BY <1>1, <1>3, <1>4, <1>6 DEF UploadInv, UploadOK, Ownership
<1>8. Content(p)'
  <2>1. p \notin replaced /\ replaced' = replaced
    BY <1>3, <1>4, CreateEffect DEF UploadInv, UploadOK, Content
  <2> QED BY <1>1, <1>4, <2>1 DEF Content
<1>9. Reported(p)'
  BY <1>1, ReportedLater
<1> QED BY <1>3, <1>5, <1>7, <1>8, <1>9 DEF StepOK, UploadOK, ServerOK

LEMMA RenameOK ==
  ASSUME UploadInv, NEW p \in Uploads, Rename(p)
  PROVE  StepOK(p)
<1> DEFINE r == [result |-> "ok", replacement |-> "confirmed", temporary |-> "none"]
<1>1. /\ pc[p] = "rename" /\ pc'[p] = "done"
      /\ pc' \in [Uploads -> Working \cup {"start", "done"}]
      /\ UNCHANGED <<late, sent, creation, renameStarted>>
      /\ ReplaceDest(p)
  BY DEF Rename, Goto, UploadInv, TypeOK, Working
<1>2. r \in Reports /\ r.result = "ok" /\ r.temporary = "none"
  BY DEF Reports
<1>a. report' = [report EXCEPT ![p] = r]
  BY DEF Rename
<1> HIDE DEF r
<1>3. report' \in [Uploads -> Reports] /\ report'[p] = r
  BY <1>a, <1>2, Update DEF UploadInv, TypeOK
<1>4. renameStarted[p] /\ creation[p] = "confirmed"
  BY <1>1 DEF UploadInv, UploadOK, Ownership, Content
<1>5. /\ ServerOK(p) /\ temp'[p] = Absent
      /\ replaced' = replaced \cup {p}
  BY <1>1, <1>4, ReplaceEffect
<1>6. TypeOK'
  BY <1>1, <1>3, <1>5 DEF UploadInv, TypeOK, ServerOK
<1>7. Ownership(p)'
  BY <1>1, <1>4, <1>5 DEF UploadInv, UploadOK, Ownership
<1>8. Content(p)'
  BY <1>1, <1>4, <1>5 DEF Content
<1>9. Reported(p)'
  BY <1>1, <1>2, <1>3, <1>4, <1>5 DEF Reported
<1> QED BY <1>5, <1>6, <1>7, <1>8, <1>9 DEF StepOK, UploadOK, ServerOK

LEMMA RenameFailsOK ==
  ASSUME UploadInv, NEW p \in Uploads, RenameFails(p)
  PROVE  StepOK(p)
<1>1. /\ pc[p] = "rename" /\ pc'[p] = "cleanup"
      /\ pc' \in [Uploads -> Working \cup {"start", "done"}]
      /\ UNCHANGED <<sent, creation, renameStarted, report>>
      /\ Unanswered("rename", p)
  BY DEF RenameFails, Goto, UploadInv, TypeOK, Working
<1>2. renameStarted[p] /\ creation[p] = "confirmed"
  BY <1>1 DEF UploadInv, UploadOK, Ownership, Content
<1>3. /\ ServerOK(p) /\ late' \in {late, late \cup {<<"rename", p>>}}
      /\ late' \subseteq {"open", "rename", "unlink"} \X Uploads
      /\ (temp'[p] = temp[p] /\ replaced' = replaced) \/ ReplaceDest(p)
  BY <1>1, <1>2, UnansweredEffect DEF Apply
<1>4. \/ temp'[p] = temp[p] /\ replaced' = replaced
      \/ temp'[p] = Absent /\ replaced' = replaced \cup {p}
  BY <1>2, <1>3, ReplaceEffect
<1>5. TypeOK'
  BY <1>1, <1>3 DEF UploadInv, TypeOK, ServerOK
<1>6. Ownership(p)'
  BY <1>1, <1>2, <1>3, <1>4 DEF UploadInv, UploadOK, Ownership
<1>7. Content(p)'
  BY <1>1, <1>2, <1>4 DEF UploadInv, UploadOK, Content, Whole
<1>8. Reported(p)'
  BY <1>1, ReportedLater
<1> QED BY <1>3, <1>5, <1>6, <1>7, <1>8 DEF StepOK, UploadOK, ServerOK

LEMMA LeaveTempOK ==
  ASSUME UploadInv, NEW p \in Uploads, LeaveTemp(p)
  PROVE  StepOK(p)
<1>1. /\ pc[p] = "cleanup" /\ pc'[p] = "done" /\ creation[p] # "confirmed"
      /\ pc' \in [Uploads -> Working \cup {"start", "done"}]
      /\ UNCHANGED <<dest, temp, late, replaced, sent, creation, renameStarted>>
      /\ ErrorReport(p, creation[p])
  BY DEF LeaveTemp, Goto, UploadInv, TypeOK, Working, remoteVars
<1>2. creation[p] \in {"not attempted", "not confirmed"}
  BY <1>1 DEF UploadInv, TypeOK
<1>3. /\ report' \in [Uploads -> Reports]
      /\ report'[p].result = "error"
      /\ report'[p].temporary = creation[p]
      /\ report'[p].replacement = "not attempted" => ~renameStarted[p]
  BY <1>1, <1>2, ErrorReportType
<1>4. TypeOK'
  BY <1>1, <1>3 DEF UploadInv, TypeOK
<1>5. DestinationIsWhole'
  BY <1>1 DEF UploadInv, DestinationIsWhole
<1>6. Ownership(p)'
  BY <1>1 DEF UploadInv, UploadOK, Ownership
<1>7. Content(p)'
  BY <1>1 DEF UploadInv, UploadOK, Content, Whole
<1>8. Reported(p)'
  BY <1>1, <1>2, <1>3 DEF UploadInv, UploadOK, Ownership, Reported
<1> QED BY <1>4, <1>5, <1>6, <1>7, <1>8 DEF StepOK, UploadOK

LEMMA UnlinkOK ==
  ASSUME UploadInv, NEW p \in Uploads, Unlink(p)
  PROVE  StepOK(p)
<1>1. /\ pc[p] = "cleanup" /\ pc'[p] = "done" /\ creation[p] = "confirmed"
      /\ pc' \in [Uploads -> Working \cup {"start", "done"}]
      /\ UNCHANGED <<late, sent, creation, renameStarted>>
      /\ RemoveTemp(p) /\ ErrorReport(p, "removed")
  BY DEF Unlink, Goto, UploadInv, TypeOK, Working
<1>2. /\ ServerOK(p) /\ temp[p] # Absent /\ temp'[p] = Absent
      /\ replaced' = replaced
  BY <1>1, RemoveEffect
<1>3. p \notin replaced
  BY <1>2 DEF UploadInv, UploadOK, Content
<1>4. /\ report' \in [Uploads -> Reports]
      /\ report'[p].result = "error"
      /\ report'[p].temporary = "removed"
      /\ report'[p].replacement = "not attempted" => ~renameStarted[p]
  BY <1>1, ErrorReportType
<1>5. TypeOK'
  BY <1>1, <1>2, <1>4 DEF UploadInv, TypeOK, ServerOK
<1>6. Ownership(p)'
  BY <1>1, <1>2 DEF UploadInv, UploadOK, Ownership
<1>7. Content(p)'
  BY <1>1, <1>2, <1>3 DEF Content
<1>8. Reported(p)'
  BY <1>1, <1>2, <1>3, <1>4 DEF Reported
<1> QED BY <1>2, <1>5, <1>6, <1>7, <1>8 DEF StepOK, UploadOK, ServerOK

LEMMA UnlinkFailsOK ==
  ASSUME UploadInv, NEW p \in Uploads, UnlinkFails(p)
  PROVE  StepOK(p)
<1>1. /\ pc[p] = "cleanup" /\ pc'[p] = "done" /\ creation[p] = "confirmed"
      /\ pc' \in [Uploads -> Working \cup {"start", "done"}]
      /\ UNCHANGED <<sent, creation, renameStarted>>
      /\ Unanswered("unlink", p) /\ ErrorReport(p, "may remain")
  BY DEF UnlinkFails, Goto, UploadInv, TypeOK, Working
<1>2. /\ ServerOK(p) /\ late' \in {late, late \cup {<<"unlink", p>>}}
      /\ late' \subseteq {"open", "rename", "unlink"} \X Uploads
      /\ (temp'[p] = temp[p] /\ replaced' = replaced) \/ RemoveTemp(p)
  BY <1>1, UnansweredEffect DEF Apply
<1>3. (temp'[p] = temp[p] \/ temp'[p] = Absent) /\ replaced' = replaced
  BY <1>1, <1>2, RemoveEffect
<1>4. /\ report' \in [Uploads -> Reports]
      /\ report'[p].result = "error"
      /\ report'[p].temporary = "may remain"
      /\ report'[p].replacement = "not attempted" => ~renameStarted[p]
  BY <1>1, ErrorReportType
<1>5. TypeOK'
  BY <1>1, <1>2, <1>4 DEF UploadInv, TypeOK, ServerOK
<1>6. Ownership(p)'
  BY <1>1, <1>2, <1>3 DEF UploadInv, UploadOK, Ownership
<1>7. Content(p)'
  BY <1>1, <1>3 DEF UploadInv, UploadOK, Content, Whole
<1>8. Reported(p)'
  BY <1>1, <1>4 DEF Reported
<1> QED BY <1>2, <1>5, <1>6, <1>7, <1>8 DEF StepOK, UploadOK, ServerOK

LEMMA CrashOK ==
  ASSUME UploadInv, NEW p \in Uploads, Crash(p)
  PROVE  StepOK(p)
<1> DEFINE r == [NoReport EXCEPT !.result = "crashed"]
<1>1. /\ pc[p] \in Working /\ pc'[p] = "done"
      /\ pc' \in [Uploads -> Working \cup {"start", "done"}]
      /\ UNCHANGED <<dest, temp, late, replaced, sent, creation, renameStarted>>
  BY DEF Crash, UploadInv, TypeOK, Working, remoteVars
<1>2. report[p] = NoReport
  BY <1>1 DEF UploadInv, UploadOK, Reported, Working
<1>3. report' = [report EXCEPT ![p] = r]
  BY <1>2 DEF Crash
<1>4. r \in Reports /\ r.result = "crashed" /\ r.temporary = "none"
  BY DEF Reports, NoReport
<1> HIDE DEF r
<1>5. report' \in [Uploads -> Reports] /\ report'[p] = r
  BY <1>3, <1>4, Update DEF UploadInv, TypeOK
<1>6. TypeOK'
  BY <1>1, <1>5 DEF UploadInv, TypeOK
<1>7. DestinationIsWhole'
  BY <1>1 DEF UploadInv, DestinationIsWhole
<1>8. Ownership(p)'
  BY <1>1 DEF UploadInv, UploadOK, Ownership, Working
<1>9. Content(p)'
  BY <1>1 DEF UploadInv, UploadOK, Content, Whole
<1>10. Reported(p)'
  BY <1>1, <1>4, <1>5 DEF Reported
<1> QED BY <1>6, <1>7, <1>8, <1>9, <1>10 DEF StepOK, UploadOK

--------------------------------------------------------------------------------
\* A request that the server sees to late, after its upload has given up.
LEMMA ApplyLateOK ==
  ASSUME UploadInv, ApplyLate
  PROVE  UploadInv'
<1>1. PICK request \in {"open", "rename", "unlink"}, p \in Uploads :
        /\ <<request, p>> \in late
        /\ late' = late \ {<<request, p>>}
        /\ Apply(request, p) \/ UNCHANGED <<dest, temp, replaced>>
        /\ UNCHANGED <<pc, sent, creation, renameStarted, report>>
  BY DEF ApplyLate
<1>2. /\ request = "open" => creation[p] = "not confirmed" /\ ~renameStarted[p]
      /\ request = "rename" => renameStarted[p] /\ creation[p] = "confirmed"
      /\ request = "unlink" => creation[p] = "confirmed"
  BY <1>1 DEF UploadInv, UploadOK, Ownership
<1>3. ServerOK(p)
  <2>1. CASE UNCHANGED <<dest, temp, replaced>>
    BY <2>1 DEF UploadInv, TypeOK, ServerOK, DestinationIsWhole
  <2>2. CASE Apply(request, p)
    BY <1>2, <2>2, CreateEffect, RemoveEffect, ReplaceEffect DEF Apply
  <2> QED BY <1>1, <2>1, <2>2
<1>4. late' \subseteq {"open", "rename", "unlink"} \X Uploads
  BY <1>1 DEF UploadInv, TypeOK
<1>5. TypeOK'
  BY <1>1, <1>3, <1>4 DEF UploadInv, TypeOK, ServerOK
<1>6. \/ temp'[p] = temp[p] /\ replaced' = replaced
      \/ /\ request = "open" /\ p \notin Taken /\ replaced' = replaced
         /\ temp'[p] \in Staged /\ temp'[p].of = p
      \/ request = "rename" /\ temp'[p] = Absent /\ replaced' = replaced \cup {p} /\ temp[p] # Absent
      \/ request = "unlink" /\ temp'[p] = Absent /\ replaced' = replaced
  <2>1. CASE UNCHANGED <<dest, temp, replaced>>
    BY <2>1
  <2>2. CASE request = "open" /\ CreateTemp(p)
    BY <2>2, CreateEffect
  <2>3. CASE request = "rename" /\ ReplaceDest(p)
    BY <1>2, <2>3, ReplaceEffect
  <2>4. CASE request = "unlink" /\ RemoveTemp(p)
    BY <1>2, <2>4, RemoveEffect
  <2> QED BY <1>1, <2>1, <2>2, <2>3, <2>4 DEF Apply
<1>7. UploadOK(p)'
  <2>1. Ownership(p)'
    BY <1>1, <1>2, <1>6 DEF UploadInv, UploadOK, Ownership
  <2>2. Content(p)'
    <3>1. pc[p] \in {"cleanup", "done"} \/ temp'[p] = temp[p]
      BY <1>1, <1>2, <1>6 DEF UploadInv, UploadOK, Ownership, Content
    <3> QED BY <1>1, <1>2, <1>6, <3>1 DEF UploadInv, UploadOK, Content, Whole
  <2>3. Reported(p)'
    BY <1>1, <1>2, <1>6 DEF UploadInv, UploadOK, Ownership, Content, Reported, NoReport
  <2> QED BY <2>1, <2>2, <2>3 DEF UploadOK
<1>8. ASSUME NEW q \in Uploads \ {p} PROVE UploadOK(q)'
  <2>1. temp'[q] = temp[q] /\ (q \in replaced' <=> q \in replaced)
    BY <1>1 DEF Apply, CreateTemp, ReplaceDest, RemoveTemp, UploadInv, TypeOK
  <2>2. SameUpload(q)
    BY <1>1, <2>1 DEF SameUpload
  <2> QED BY <2>2, SameUploadOK DEF UploadInv
<1>9. DestinationIsWhole'
  BY <1>3 DEF ServerOK
<1> QED BY <1>5, <1>7, <1>8, <1>9 DEF UploadInv

LEMMA UploadInvStep ==
  ASSUME UploadInv, [Next]_vars
  PROVE  UploadInv'
<1>1. ASSUME NEW p \in Uploads, Start(p) \/ Step(p) \/ Crash(p)
      PROVE  UploadInv'
  <2>1. StepOK(p)
    BY <1>1, StartOK, FailOK, OpenOK, OpenFailsOK, SendOK, SentOK, VerifySizeOK, SetModeOK,
       CloseOK, RenameOK, RenameFailsOK, LeaveTempOK, UnlinkOK, UnlinkFailsOK, CrashOK
       DEF Step
  <2>2. ASSUME NEW q \in Uploads \ {p} PROVE UploadOK(q)'
    <3>1. SameUpload(q)
      BY <1>1, OthersUntouched DEF UploadInv
    <3> QED BY <3>1, SameUploadOK DEF UploadInv
  <2> QED BY <2>1, <2>2 DEF StepOK, UploadInv
<1>2. CASE UNCHANGED vars
  <2>1. ASSUME NEW q \in Uploads PROVE UploadOK(q)'
    <3>1. SameUpload(q)
      BY <1>2 DEF vars, SameUpload
    <3> QED BY <3>1, SameUploadOK DEF UploadInv
  <2>2. TypeOK' /\ DestinationIsWhole'
    BY <1>2 DEF vars, UploadInv, TypeOK, DestinationIsWhole
  <2> QED BY <2>1, <2>2 DEF UploadInv
<1> QED BY <1>1, <1>2, ApplyLateOK DEF Next, AllDone

THEOREM UploadInvariant == Spec => []UploadInv
BY UploadInvInit, UploadInvStep, PTL DEF Spec

--------------------------------------------------------------------------------
\* The variables keep their types, and no more is sent than the source had.
THEOREM TypeCorrect == Spec => []TypeOK
<1>1. UploadInv => TypeOK
  BY DEF UploadInv
<1> QED BY <1>1, UploadInvariant, PTL

\* The destination is never a partial file: upload() of atomic_upload.rs
\* renames only what it has measured and given its mode.
THEOREM DestinationAlwaysWhole == Spec => []DestinationIsWhole
<1>1. UploadInv => DestinationIsWhole
  BY DEF UploadInv
<1> QED BY <1>1, UploadInvariant, PTL

\* A file that was at the temporary name stays there: CREATE is EXCLUSIVE and
\* an OPEN without an answer does not authorize the unlink.
THEOREM ForeignFilesStay == Spec => []ForeignFilesUntouched
<1>1. UploadInv => ForeignFilesUntouched
  BY UploadAssumption DEF UploadInv, UploadOK, Ownership, ForeignFilesUntouched
<1> QED BY <1>1, UploadInvariant, PTL

\* What failure_message() says of the replacement and of the temporary file
\* stays true whatever the server still applies.
THEOREM ReportsStayTrue == Spec => []ReportsAreTrue
<1>1. ASSUME UploadInv, NEW p \in Uploads
      PROVE  /\ report[p].result = "ok" => p \in replaced
             /\ report[p].result = "error" /\ report[p].replacement = "not attempted" =>
                  p \notin replaced
  BY <1>1 DEF UploadInv, UploadOK, Content, Reported
<1>2. ASSUME UploadInv, NEW p \in Uploads
      PROVE  /\ report[p].temporary = "removed" => temp[p] = Absent /\ p \notin replaced
             /\ report[p].result \in {"ok", "error"} /\ temp[p] \notin {Absent, Foreign} =>
                  report[p].temporary \in {"not confirmed", "may remain"}
  BY <1>2, StagedFacts DEF UploadInv, UploadOK, Ownership, Reported
<1>3. UploadInv => ReportsAreTrue
  BY <1>1, <1>2 DEF ReportsAreTrue
<1> QED BY <1>3, UploadInvariant, PTL
================================================================================
