----------------------------- MODULE DownloadProofs ----------------------------
(***************************************************************************)
(* Only whole downloads appear, with consent, and what has been reported   *)
(* as done survives a power loss, for any number of downloads, edits and   *)
(* losses and files of every size.                                         *)
(***************************************************************************)
EXTENDS Download, TLAPS

Whole == {s \in Staged : s.size = Size /\ s.sound /\ s.synced}

Types ==
  /\ temp \in [Gets -> Staged \cup {Absent}]
  /\ pc \in [Gets -> Working \cup {"start", "done"}]
  /\ outcome \in [Gets -> {"none", "ok", "error", "crashed"}]

\* What a staged file holds at each point.
TempOK(g) ==
  /\ temp[g] # Absent => temp[g].of = g
  /\ pc[g] \in {"start", "connect", "stage", "sync"} => temp[g] = Absent
  /\ pc[g] \in {"receive", "complete", "persist", "publish"} => temp[g] \in Staged
  /\ pc[g] = "complete" => temp[g].size = Size /\ temp[g].synced
  /\ pc[g] \in {"persist", "publish"} => temp[g] \in Whole
  /\ pc[g] # "done" => outcome[g] = "none"
  /\ outcome[g] \in {"ok", "error"} => temp[g] = Absent

\* What a power loss may leave is whole, of a download that has published, and
\* of one that has succeeded there is nothing else to come back.
DiskOK ==
  /\ dest \in recoverable /\ recoverable \subseteq Others \cup Whole
  /\ \A e \in recoverable : e \in Staged => temp[e.of] = Absent /\ pc[e.of] \in {"sync", "done"}
  /\ \A g \in Gets : outcome[g] = "ok" /\ dest \in Staged /\ dest.of = g => recoverable = {dest}

DownloadInv == Types /\ DiskOK /\ \A g \in Gets : TempOK(g)

LEMMA Entries ==
  /\ Absent \notin Staged /\ Others \cap Staged = {} /\ Whole \subseteq Staged /\ Absent \in Others
  /\ \A s \in Staged : s.of \in Gets
  /\ \A g \in Gets : [of |-> g, size |-> 0, sound |-> TRUE, synced |-> FALSE] \in Staged
BY EntryAssumption, DownloadAssumption DEF Others, Staged, Whole

LEMMA DownloadInit == Init => DownloadInv
<1> SUFFICES ASSUME Init PROVE DownloadInv
  OBVIOUS
<1>1. Types
  BY DEF Init, Types, Working
<1>2. DiskOK
  BY Entries, EntryAssumption DEF Init, DiskOK
<1>3. \A g \in Gets : TempOK(g)
  BY DEF Init, TempOK
<1> QED BY <1>1, <1>2, <1>3 DEF DownloadInv

--------------------------------------------------------------------------------
\* A step of one download that does not touch the destination.
LEMMA Aside ==
  ASSUME DownloadInv, NEW g \in Gets, NEW there \in Working \cup {"done"},
         NEW file \in Staged \cup {Absent}, NEW result \in {"none", "ok", "error", "crashed"},
         UNCHANGED diskVars,
         pc' = [pc EXCEPT ![g] = there], temp' = [temp EXCEPT ![g] = file],
         outcome' = [outcome EXCEPT ![g] = result],
         pc[g] \in {"sync", "done"} => there = "done" /\ file = Absent /\ result # "ok",
         result = "ok" => dest \notin Staged \/ dest.of # g,
         /\ file # Absent => file.of = g
         /\ there \in {"connect", "stage", "sync"} => file = Absent
         /\ there \in {"receive", "complete", "persist", "publish"} => file \in Staged
         /\ there = "complete" => file.size = Size /\ file.synced
         /\ there \in {"persist", "publish"} => file \in Whole
         /\ there # "done" => result = "none"
         /\ result \in {"ok", "error"} => file = Absent
  PROVE  DownloadInv'
<1>1. Types'
  BY DEF DownloadInv, Types
<1>2. ASSUME NEW h \in Gets PROVE TempOK(h)'
  <2>1. CASE h = g
    <3>1. pc'[h] = there /\ temp'[h] = file /\ outcome'[h] = result
      BY <2>1 DEF DownloadInv, Types
    <3> QED BY <2>1, <3>1 DEF TempOK, Working
  <2>2. CASE h # g
    BY <2>2 DEF DownloadInv, Types, TempOK
  <2> QED BY <2>1, <2>2
<1>3. DiskOK'
  <2>1. ASSUME NEW e \in recoverable, e \in Staged
        PROVE  temp'[e.of] = Absent /\ pc'[e.of] \in {"sync", "done"}
    <3>1. e.of \in Gets /\ temp[e.of] = Absent /\ pc[e.of] \in {"sync", "done"}
      BY <2>1, Entries DEF DownloadInv, DiskOK
    <3>2. CASE e.of = g
      BY <3>1, <3>2 DEF DownloadInv, Types
    <3>3. CASE e.of # g
      BY <3>1, <3>3 DEF DownloadInv, Types
    <3> QED BY <3>2, <3>3
  <2>2. ASSUME NEW h \in Gets, outcome'[h] = "ok", dest \in Staged, dest.of = h
        PROVE  recoverable = {dest}
    BY <2>2 DEF DownloadInv, Types, DiskOK
  <2> QED BY <2>1, <2>2 DEF DownloadInv, DiskOK, diskVars
<1> QED BY <1>1, <1>2, <1>3 DEF DownloadInv

\* The steps up to publication touch the download's own staged file only.
LEMMA FileSteps ==
  ASSUME DownloadInv, NEW g \in Gets
  PROVE  /\ Precheck(g) \/ Connect(g) \/ PersistCheck(g) \/ Complete(g) => DownloadInv'
         /\ Stage(g) \/ Receive(g) \/ Received(g) => DownloadInv'
<1>0. /\ TempOK(g) /\ pc[g] \in Working \cup {"start", "done"}
      /\ outcome[g] \in {"none", "ok", "error", "crashed"}
      /\ temp[g] \in Staged \cup {Absent}
      /\ temp = [temp EXCEPT ![g] = temp[g]] /\ outcome = [outcome EXCEPT ![g] = outcome[g]]
  BY DEF DownloadInv, Types
<1>1. ASSUME Precheck(g) \/ Connect(g) \/ PersistCheck(g) \/ Complete(g) PROVE DownloadInv'
  <2>1. PICK there \in {"connect", "stage", "publish", "persist"} :
          /\ pc' = [pc EXCEPT ![g] = there] /\ UNCHANGED <<diskVars, temp, outcome>>
          /\ pc[g] \in {"start", "connect", "persist", "complete"}
          /\ there \in {"connect", "stage"} => pc[g] \in {"start", "connect"}
          /\ there = "publish" => pc[g] = "persist"
          /\ there = "persist" => pc[g] = "complete" /\ temp[g].sound
    BY <1>1 DEF Precheck, Connect, PersistCheck, Complete, Goto
  <2>2. there \in {"connect", "stage"} => temp[g] = Absent
    BY <1>0, <2>1 DEF TempOK
  <2>3. there \in {"persist", "publish"} => temp[g] \in Whole
    BY <1>0, <2>1 DEF TempOK, Whole
  <2>4. outcome[g] = "none" /\ there \in Working /\ (temp[g] # Absent => temp[g].of = g)
    BY <1>0, <2>1 DEF TempOK, Working
  <2>5. there \in {"persist", "publish"} => temp[g] \in Staged
    BY <2>3, Entries
  <2> QED BY <1>0, <2>1, <2>2, <2>3, <2>4, <2>5, Aside, ZenonT(60)
<1>2. ASSUME Stage(g) PROVE DownloadInv'
  <2> DEFINE file == [of |-> g, size |-> 0, sound |-> TRUE, synced |-> FALSE]
  <2>1. /\ pc' = [pc EXCEPT ![g] = "receive"] /\ UNCHANGED <<diskVars, outcome>>
        /\ temp' = [temp EXCEPT ![g] = file] /\ pc[g] = "stage"
    BY <1>2 DEF Stage, Goto
  <2>2. file \in Staged /\ file.of = g
    BY Entries
  <2>3. outcome[g] = "none" /\ "receive" \in Working
    BY <1>0, <2>1 DEF TempOK, Working
  <2> HIDE DEF file
  <2> QED BY <1>0, <2>1, <2>2, <2>3, Aside
<1>3. ASSUME Receive(g) PROVE DownloadInv'
  <2>1. PICK sound \in BOOLEAN :
          /\ temp' = [temp EXCEPT ![g] = [of |-> temp[g].of, size |-> temp[g].size + 1,
                         sound |-> temp[g].sound /\ sound, synced |-> temp[g].synced]]
          /\ UNCHANGED <<diskVars, pc, outcome>> /\ pc[g] = "receive" /\ temp[g].size < Size
    BY <1>3 DEF Receive
  <2> DEFINE file == [of |-> temp[g].of, size |-> temp[g].size + 1,
                      sound |-> temp[g].sound /\ sound, synced |-> temp[g].synced]
  <2>2. temp[g] \in Staged /\ temp[g].of = g
    BY <1>0, <2>1, Entries DEF TempOK
  <2>3. file \in Staged /\ file.of = g
    <3>1. temp[g].size \in 0..Size /\ temp[g].synced \in BOOLEAN
      BY <2>2 DEF Staged
    <3>2. temp[g].size + 1 \in 0..Size
      BY <2>1, <3>1, DownloadAssumption
    <3>3. (temp[g].sound /\ sound) \in BOOLEAN
      OBVIOUS
    <3> QED BY <2>2, <3>1, <3>2, <3>3, Zenon DEF Staged
  <2>4. temp' = [temp EXCEPT ![g] = file] /\ pc' = [pc EXCEPT ![g] = "receive"]
    BY <1>0, <2>1 DEF DownloadInv, Types
  <2>5. /\ outcome[g] = "none" /\ "receive" \in Working /\ pc[g] = "receive"
        /\ UNCHANGED <<diskVars, outcome>>
    BY <1>0, <2>1 DEF TempOK, Working
  <2> HIDE DEF file
  <2> QED BY <1>0, <2>3, <2>4, <2>5, Aside
<1>4. ASSUME Received(g) PROVE DownloadInv'
  <2>1. /\ temp' = [temp EXCEPT ![g].synced = TRUE] /\ pc' = [pc EXCEPT ![g] = "complete"]
        /\ UNCHANGED <<diskVars, outcome>> /\ pc[g] = "receive" /\ temp[g].size = Size
    BY <1>4 DEF Received, Goto
  <2> DEFINE file == [temp[g] EXCEPT !.synced = TRUE]
  <2>2. temp[g] \in Staged /\ temp[g].of = g
    BY <1>0, <2>1, Entries DEF TempOK
  <2>3. file \in Staged /\ file.of = g /\ file.size = Size /\ file.synced
    BY <2>1, <2>2 DEF Staged
  <2>4. temp' = [temp EXCEPT ![g] = file]
    BY <1>0, <2>1
  <2>5. /\ outcome[g] = "none" /\ "complete" \in Working /\ pc[g] = "receive"
        /\ pc' = [pc EXCEPT ![g] = "complete"] /\ UNCHANGED <<diskVars, outcome>>
    BY <1>0, <2>1 DEF TempOK, Working
  <2> HIDE DEF file
  <2> QED BY <1>0, <2>3, <2>4, <2>5, Aside
<1> QED BY <1>1, <1>2, <1>3, <1>4

\* The ends of a download that has not published, or cannot sync.
LEMMA EndSteps ==
  ASSUME DownloadInv, NEW g \in Gets
  PROVE  Refuse(g) \/ Fail(g) \/ SyncFails(g) \/ Crash(g) => DownloadInv'
<1>0. /\ TempOK(g) /\ pc[g] \in Working \cup {"start", "done"}
      /\ temp[g] \in Staged \cup {Absent} /\ temp = [temp EXCEPT ![g] = temp[g]]
  BY DEF DownloadInv, Types
<1>1. ASSUME Refuse(g) \/ Fail(g) PROVE DownloadInv'
  <2>1. /\ pc' = [pc EXCEPT ![g] = "done"] /\ temp' = [temp EXCEPT ![g] = Absent]
        /\ outcome' = [outcome EXCEPT ![g] = "error"] /\ UNCHANGED diskVars
        /\ pc[g] \notin {"sync", "done"}
    BY <1>1 DEF Refuse, Fail, End, Goto, DropTemp
  <2> QED BY <1>0, <2>1, Aside
<1>2. ASSUME SyncFails(g) \/ Crash(g) PROVE DownloadInv'
  <2>1. PICK result \in {"error", "crashed"} :
          /\ pc' = [pc EXCEPT ![g] = "done"] /\ outcome' = [outcome EXCEPT ![g] = result]
          /\ UNCHANGED <<temp, diskVars>> /\ pc[g] \in Working
          /\ result = "error" => pc[g] = "sync"
    BY <1>2 DEF SyncFails, Crash, End, Goto, Working
  <2>2. pc[g] \in {"sync", "done"} \/ result = "error" => temp[g] = Absent
    BY <1>0, <2>1 DEF TempOK, Working
  <2>3. temp[g] # Absent => temp[g].of = g
    BY <1>0 DEF TempOK
  <2> QED BY <1>0, <2>1, <2>2, <2>3, Aside
<1> QED BY <1>1, <1>2

--------------------------------------------------------------------------------
\* The rename, which is the only way a download comes to the destination.
LEMMA PublishOK ==
  ASSUME DownloadInv, NEW g \in Gets, Publish(g)
  PROVE  DownloadInv'
<1>1. /\ pc[g] = "publish" /\ pc' = [pc EXCEPT ![g] = "sync"] /\ dest' = temp[g]
      /\ recoverable' = recoverable \cup {dest'} /\ temp' = [temp EXCEPT ![g] = Absent]
      /\ outcome' = outcome
  BY DEF Publish, Goto, DropTemp
<1>2. temp[g] \in Whole /\ temp[g] \in Staged /\ temp[g].of = g /\ outcome[g] = "none"
  BY <1>1, Entries DEF DownloadInv, TempOK
<1>3. Types'
  BY <1>1 DEF DownloadInv, Types, Working
<1>4. ASSUME NEW h \in Gets PROVE TempOK(h)'
  <2>1. CASE h = g
    BY <1>1, <1>2, <2>1 DEF DownloadInv, Types, TempOK
  <2>2. CASE h # g
    BY <1>1, <2>2 DEF DownloadInv, Types, TempOK
  <2> QED BY <2>1, <2>2
<1>5. DiskOK'
  <2>1. dest' \in recoverable' /\ recoverable' \subseteq Others \cup Whole
    BY <1>1, <1>2 DEF DownloadInv, DiskOK
  <2>2. ASSUME NEW e \in recoverable', e \in Staged
        PROVE  temp'[e.of] = Absent /\ pc'[e.of] \in {"sync", "done"}
    <3>1. CASE e.of = g
      BY <1>1, <3>1 DEF DownloadInv, Types
    <3>2. CASE e.of # g
      <4>1. e \in recoverable /\ e.of \in Gets
        BY <1>1, <1>2, <2>2, <3>2, Entries
      <4> QED BY <1>1, <2>2, <3>2, <4>1 DEF DownloadInv, Types, DiskOK
    <3> QED BY <3>1, <3>2
  <2>3. ASSUME NEW h \in Gets, outcome'[h] = "ok", dest'.of = h PROVE FALSE
    BY <1>1, <1>2, <2>3
  <2> QED BY <2>1, <2>2, <2>3 DEF DiskOK
<1> QED BY <1>3, <1>4, <1>5 DEF DownloadInv

LEMMA SyncOK ==
  ASSUME DownloadInv, NEW g \in Gets, SyncDirectory(g)
  PROVE  DownloadInv'
<1>1. /\ pc[g] = "sync" /\ pc' = [pc EXCEPT ![g] = "done"]
      /\ outcome' = [outcome EXCEPT ![g] = "ok"] /\ recoverable' = {dest}
      /\ UNCHANGED <<dest, temp>>
  BY DEF SyncDirectory, End, Goto
<1>2. Types'
  BY <1>1 DEF DownloadInv, Types
<1>3. ASSUME NEW h \in Gets PROVE TempOK(h)'
  <2>1. CASE h = g
    BY <1>1, <2>1 DEF DownloadInv, Types, TempOK
  <2>2. CASE h # g
    BY <1>1, <2>2 DEF DownloadInv, Types, TempOK
  <2> QED BY <2>1, <2>2
<1>4. DiskOK'
  <2>1. dest \in recoverable /\ recoverable \subseteq Others \cup Whole
        /\ (dest \in Staged => temp[dest.of] = Absent /\ pc[dest.of] \in {"sync", "done"} /\ dest.of \in Gets)
    BY Entries DEF DownloadInv, DiskOK
  <2>2. dest \in Staged => pc'[dest.of] \in {"sync", "done"}
    BY <1>1, <2>1 DEF DownloadInv, Types
  <2> QED BY <1>1, <2>1, <2>2 DEF DiskOK
<1> QED BY <1>2, <1>3, <1>4 DEF DownloadInv

--------------------------------------------------------------------------------
LEMMA OtherEditOK == ASSUME DownloadInv, OtherEdit PROVE DownloadInv'
<1>1. dest' \in Others /\ recoverable' = recoverable \cup {dest'} /\ UNCHANGED <<temp, pc, outcome>>
  BY DEF OtherEdit
<1>2. dest' \notin Staged
  BY <1>1, Entries
<1>3. DiskOK'
  BY <1>1, <1>2 DEF DownloadInv, DiskOK
<1> QED BY <1>1, <1>3 DEF DownloadInv, Types, TempOK

\* What comes back is one of the entries that could, as it was.
LEMMA LossRecovers ==
  ASSUME DownloadInv, PowerLoss
  PROVE  dest' \in recoverable
<1>1. PICK e \in recoverable : dest' \in Recovered(e)
  BY DEF PowerLoss
<1>2. e \in Others \/ e.synced
  BY DEF DownloadInv, DiskOK, Whole
<1> QED BY <1>1, <1>2 DEF Recovered

LEMMA PowerLossOK == ASSUME DownloadInv, PowerLoss PROVE DownloadInv'
<1>1. /\ recoverable' = {dest'} /\ temp' = temp
      /\ pc' = [g \in Gets |-> IF pc[g] \in Working THEN "done" ELSE pc[g]]
      /\ outcome' = [g \in Gets |-> IF pc[g] \in Working THEN "crashed" ELSE outcome[g]]
  BY DEF PowerLoss
<1>2. dest' \in recoverable
  BY LossRecovers
<1>3. Types'
  BY <1>1 DEF DownloadInv, Types
<1>4. ASSUME NEW h \in Gets PROVE TempOK(h)'
  BY <1>1 DEF DownloadInv, Types, TempOK, Working
<1>5. DiskOK'
  <2>1. dest' \in Staged =>
          /\ dest'.of \in Gets /\ temp[dest'.of] = Absent /\ pc[dest'.of] \in {"sync", "done"}
    BY <1>2, Entries DEF DownloadInv, DiskOK
  <2>2. dest' \in Others \cup Whole
    BY <1>2 DEF DownloadInv, DiskOK
  <2> QED BY <1>1, <2>1, <2>2 DEF DiskOK, Working
<1> QED BY <1>3, <1>4, <1>5 DEF DownloadInv

LEMMA DownloadStep == DownloadInv /\ [Next]_vars => DownloadInv'
<1> SUFFICES ASSUME DownloadInv, [Next]_vars PROVE DownloadInv'
  OBVIOUS
<1>1. CASE UNCHANGED vars
  BY <1>1 DEF vars, DownloadInv, Types, DiskOK, TempOK
<1> QED BY <1>1, FileSteps, EndSteps, PublishOK, SyncOK, OtherEditOK, PowerLossOK
        DEF Next, Step, AllDone

THEOREM DownloadInvariant == Spec => []DownloadInv
BY DownloadInit, DownloadStep, PTL DEF Spec

--------------------------------------------------------------------------------
\* Neither at the destination nor after a power loss is there part of a
\* download, or one whose remote scp failed: persist_staged_download() is
\* reached only with a whole file that was synced.
THEOREM DestinationComplete == Spec => []DestinationIsComplete
<1>1. DownloadInv => DestinationIsComplete
  BY DEF DownloadInv, DiskOK, Whole, DestinationIsComplete
<1> QED BY <1>1, DownloadInvariant, PTL

\* A download that returns has dropped its staged file.
THEOREM StagedRemoved == Spec => []StagedFilesRemoved
<1>1. DownloadInv => StagedFilesRemoved
  BY DEF DownloadInv, TempOK, StagedFilesRemoved
<1> QED BY <1>1, DownloadInvariant, PTL

\* Without --yes nothing is replaced, and a directory never, however late it
\* came: the rename itself refuses.
THEOREM ConsentNeeded == Spec => ReplacesOnlyWithConsent
<1>1. ASSUME DownloadInv, Next, NEW g \in Gets, temp[g] # Absent, dest' # dest, dest' = temp[g]
      PROVE  dest # Directory /\ (g \in Consented \/ dest = Absent)
  <2>1. temp[g] \in Staged /\ temp[g].of = g
    BY <1>1 DEF DownloadInv, Types, TempOK
  <2>2. ASSUME NEW h \in Gets, Publish(h) PROVE h = g
    <3>0. TempOK(h) /\ pc[h] = "publish"
      BY <1>1, <2>2 DEF DownloadInv, Publish, Goto
    <3>1. temp[h].of = h
      BY <3>0, Entries DEF TempOK
    <3> QED BY <1>1, <2>1, <2>2, <3>1 DEF Publish
  <2>3. CASE Publish(g)
    BY <2>3 DEF Publish
  <2>4. CASE OtherEdit
    BY <1>1, <2>1, <2>4, Entries DEF OtherEdit
  <2>5. CASE PowerLoss
    <3>1. temp[dest'.of] = Absent
      BY <1>1, <2>1, <2>5, LossRecovers DEF DownloadInv, DiskOK
    <3> QED BY <1>1, <2>1, <3>1
  <2>6. ASSUME NEW h \in Gets, Precheck(h) \/ Step(h) \/ Crash(h), ~Publish(h) PROVE FALSE
    BY <1>1, <2>6 DEF Precheck, Step, Crash, Connect, Stage, Receive, Received, Complete, PersistCheck,
       Refuse, Fail, SyncDirectory, SyncFails, diskVars
  <2> QED BY <1>1, <2>2, <2>3, <2>4, <2>5, <2>6 DEF Next, Step, AllDone, vars
<1>2. DownloadInv /\ [Next]_vars =>
        [\A g \in Gets : temp[g] # Absent /\ dest' # dest /\ dest' = temp[g] =>
           dest # Directory /\ (g \in Consented \/ dest = Absent)]_vars
  BY <1>1
<1> QED BY <1>2, DownloadInvariant, PTL DEF Spec, ReplacesOnlyWithConsent

\* After a success there is nothing else for a power loss to bring back: the
\* directory is synced before the download reports it.
THEOREM SuccessDurable == Spec => SuccessIsDurable
<1>1. ASSUME DownloadInv, Next, NEW g \in Gets,
             losses' # losses, outcome[g] = "ok", dest \in Staged, dest.of = g
      PROVE  dest' = dest
  <2>1. PowerLoss
    BY <1>1 DEF Next, Precheck, Step, Crash, Connect, Stage, Receive, Received, Complete, PersistCheck,
       Refuse, Fail, Publish, SyncDirectory, SyncFails, OtherEdit, AllDone, boundVars, vars
  <2>2. recoverable = {dest}
    BY <1>1 DEF DownloadInv, DiskOK
  <2> QED BY <1>1, <2>1, <2>2, LossRecovers
<1>2. DownloadInv /\ [Next]_vars =>
        [\A g \in Gets : losses' # losses /\ outcome[g] = "ok" /\ dest \in Staged /\ dest.of = g =>
           dest' = dest]_vars
  BY <1>1
<1> QED BY <1>2, DownloadInvariant, PTL DEF Spec, SuccessIsDurable
================================================================================
