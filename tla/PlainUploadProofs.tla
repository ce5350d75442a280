--------------------------- MODULE PlainUploadProofs ---------------------------
(***************************************************************************)
(* A successful put is whole whatever happens to the local file, for all   *)
(* files, buffers, addresses and timeouts.                                 *)
(***************************************************************************)
EXTENDS PlainUpload, SequenceTheorems, TLAPS

Early == {"resolve", "dial", "handshake", "login", "open"}
Copying == {"read", "send"}
Ending == {"ack", "eof", "await eof", "close", "await close", "status"}
Final == {"done", "stuck"} \cup CleanupSteps

\* The bytes of s are those of the opened file behind its first start bytes,
\* each as it was at some moment.
FromFile(s, start) ==
  \A k \in 1..Len(s) : \E v \in versions : start + k <= Len(v) /\ v[start + k] = s[k]

FileInv ==
  /\ pc \in {"local"} \cup Early \cup Copying \cup Ending \cup Final
  /\ path \in Seq(Byte) /\ versions \subseteq Seq(Byte)
  /\ pc \notin {"local"} \cup Final => source \in versions
  /\ size \in Nat /\ copied \in Nat
  /\ pc \in {"local"} \cup Early => copied = 0
  /\ pc \in Ending => copied = size
  /\ pc \notin Final => result.status = "none"
  /\ pc # "done" => result.status # "ok"

\* What is at the destination and in the buffer.
CopyInv ==
  /\ pc \in {"local", "read"} \cup Early => buffer = <<>>
  /\ pc = "send" => buffer \in Seq(Byte) /\ Len(buffer) <= copied
  /\ pc \in Copying /\ ~fault =>
       /\ remote \in Seq(Byte) /\ Len(remote) + Len(buffer) = copied
       /\ FromFile(remote, 0) /\ FromFile(buffer, Len(remote))

WholeInv ==
  /\ pc \in Ending /\ ~fault => Len(remote) = size /\ FromFile(remote, 0)
  /\ result.status = "ok" => pc = "done" /\ Len(remote) = size /\ FromFile(remote, 0)

PutInv == FileInv /\ CopyInv /\ WholeInv

LEMMA PutInit == Init => PutInv
<1> SUFFICES ASSUME Init PROVE PutInv
  OBVIOUS
<1>1. path \in Seq(Byte)
  BY UploadAssumption DEF Init
<1>2. FileInv
  BY <1>1 DEF Init, FileInv
<1>3. CopyInv
  BY DEF Init, CopyInv, Copying
<1>4. WholeInv
  BY DEF Init, WholeInv, Ending
<1> QED BY <1>2, <1>3, <1>4 DEF PutInv

--------------------------------------------------------------------------------
\* Steps of the connection, which have nothing to do with the file.
LEMMA EarlyStep ==
  ASSUME PutInv, pc \in Early, pc' \in Early,
         UNCHANGED <<localVars, copyVars, remote, fault, result>>
  PROVE  PutInv'
<1>1. FileInv'
  BY DEF PutInv, FileInv, Early, Copying, Ending, Final, CleanupSteps, localVars, copyVars
<1>2. CopyInv'
  BY DEF PutInv, CopyInv, Early, Copying, copyVars
<1>3. WholeInv'
  BY DEF PutInv, FileInv, WholeInv, Early, Ending, Final
<1> QED BY <1>1, <1>2, <1>3 DEF PutInv

\* Failures and what comes after them, and calls that never return.
LEMMA FinalStep ==
  ASSUME PutInv, pc' \in Final, UNCHANGED <<localVars, copyVars, fault>>, result'.status # "ok"
  PROVE  PutInv'
<1>1. FileInv'
  BY DEF PutInv, FileInv, Early, Copying, Ending, Final, CleanupSteps, localVars, copyVars
<1>2. CopyInv'
  BY DEF CopyInv, Early, Copying, Final, CleanupSteps
<1>3. WholeInv'
  BY DEF PutInv, FileInv, WholeInv, Ending, Final, CleanupSteps
<1> QED BY <1>1, <1>2, <1>3 DEF PutInv

LEMMA OpenLocalOK == ASSUME PutInv, OpenLocal PROVE PutInv'
<1>1. Len(path) \in Nat
  BY DEF PutInv, FileInv
<1>2. FileInv'
  BY <1>1 DEF PutInv, FileInv, OpenLocal, Goto, Early, Copying, Ending, Final, CleanupSteps
<1>3. CopyInv'
  BY DEF PutInv, CopyInv, OpenLocal, Goto, Early, Copying
<1>4. WholeInv'
  BY DEF PutInv, FileInv, WholeInv, OpenLocal, Goto, Ending
<1> QED BY <1>2, <1>3, <1>4 DEF PutInv

LEMMA ConnectOK == ASSUME PutInv, ConnectStep PROVE PutInv'
<1> USE DEF Goto, Fail, NextAddress, connectVars
<1>1. CASE OpenLocal BY <1>1, OpenLocalOK
<1>2. CASE OpenLocalFails BY <1>2, FinalStep DEF OpenLocalFails, Final
<1>3. CASE Resolve BY <1>3, EarlyStep DEF Resolve, Early
<1>4. CASE ResolveFails BY <1>4, FinalStep DEF ResolveFails, Final
<1>5. CASE Dial BY <1>5, EarlyStep DEF Dial, Early
<1>6. CASE DialFails BY <1>6, EarlyStep DEF DialFails, Early
<1>7. CASE DialEnds BY <1>7, FinalStep DEF DialEnds, Final
<1>8. CASE Handshake BY <1>8, EarlyStep DEF Handshake, Early
<1>9. CASE HandshakeAgain BY <1>9, EarlyStep DEF HandshakeAgain, Early
<1>10. CASE HandshakeFails BY <1>10, FinalStep DEF HandshakeFails, Final
<1>11. CASE LoginCall BY <1>11, EarlyStep DEF LoginCall, Early
<1>12. CASE LoginFails BY <1>12, FinalStep DEF LoginFails, Final
<1>13. CASE LoggedIn BY <1>13, EarlyStep DEF LoggedIn, Early
<1> QED BY <1>1, <1>2, <1>3, <1>4, <1>5, <1>6, <1>7, <1>8, <1>9, <1>10, <1>11, <1>12, <1>13
        DEF ConnectStep

--------------------------------------------------------------------------------
\* An empty destination is a beginning of the file.
LEMMA OpenRemoteOK == ASSUME PutInv, OpenRemote PROVE PutInv'
<1> USE DEF OpenRemote, Step, Goto
<1>1. FileInv'
  BY DEF PutInv, FileInv, Early, Copying, Ending, Final, CleanupSteps, localVars, copyVars
<1>2. ~fault' => remote' = <<>> /\ buffer' = <<>> /\ copied' = 0
  BY DEF PutInv, FileInv, CopyInv, Early, copyVars
<1>3. CopyInv'
  <2>1. buffer' = <<>>
    BY DEF PutInv, CopyInv, Early, copyVars
  <2>2. <<>> \in Seq(Byte) /\ Len(<<>>) = 0
    BY EmptySeq
  <2> QED BY <1>2, <2>1, <2>2 DEF CopyInv, Early, Copying, FromFile
<1>4. WholeInv'
  BY DEF PutInv, FileInv, WholeInv, Ending
<1> QED BY <1>1, <1>3, <1>4 DEF PutInv

\* What is read comes from the file as it is now, behind what was read before.
LEMMA ReadLocalOK == ASSUME PutInv, ReadLocal PROVE PutInv'
<1>1. source \in Seq(Byte) /\ source \in versions /\ copied \in Nat /\ size \in Nat
  BY DEF PutInv, FileInv, ReadLocal, Early, Copying, Ending, Final, CleanupSteps
<1>2. PICK n \in 1..Wanted : /\ copied + n <= Len(source)
                             /\ buffer' = SubSeq(source, copied + 1, copied + n)
                             /\ copied' = copied + n
  BY DEF ReadLocal
<1>3. n \in Nat /\ n > 0
  BY <1>1, <1>2, UploadAssumption DEF Wanted, ReadLocal
<1>4. \A i \in copied + 1 .. copied + n : source[i] \in Byte
  BY <1>1, <1>2, <1>3, ElementOfSeq, LenProperties
<1>5. /\ buffer' \in Seq(Byte) /\ Len(buffer') = n
      /\ \A i \in 1..n : buffer'[i] = source[copied + i]
  <2>1. copied + 1 \in Int /\ copied + n \in Int /\ copied + 1 <= copied + n
        /\ (copied + n) - (copied + 1) + 1 = n
    BY <1>1, <1>3
  <2>2. /\ buffer' \in Seq(Byte)
        /\ Len(buffer') = (copied + n) - (copied + 1) + 1
        /\ \A i \in 1 .. (copied + n) - (copied + 1) + 1 :
             buffer'[i] = source[copied + 1 + i - 1]
    BY <1>2, <1>4, <2>1, SubSeqProperties
  <2>3. \A i \in 1..n : copied + 1 + i - 1 = copied + i
    BY <1>1
  <2> QED BY <2>1, <2>2, <2>3
<1>6. FileInv'
  BY <1>1, <1>2, <1>3 DEF PutInv, FileInv, ReadLocal, localVars, Early, Copying, Ending, Final, CleanupSteps
<1>7. CopyInv'
  <2>1. pc' = "send" /\ pc = "read" /\ UNCHANGED <<remote, fault, versions>> /\ buffer = <<>>
    BY DEF ReadLocal, localVars, PutInv, CopyInv
  <2>2. CASE fault
    BY <2>1, <2>2, <1>1, <1>2, <1>3, <1>5 DEF CopyInv, Early, Copying
  <2>3. CASE ~fault
    <3>1. remote \in Seq(Byte) /\ Len(remote) = copied /\ FromFile(remote, 0)
      BY <2>1, <2>3, <1>1, EmptySeq, LenProperties DEF PutInv, CopyInv, Copying
    <3>2. FromFile(remote, 0)'
      BY <2>1, <3>1 DEF FromFile
    <3>3. FromFile(buffer, Len(remote))'
      BY <2>1, <3>1, <1>1, <1>2, <1>3, <1>5, LenProperties DEF FromFile
    <3> QED BY <2>1, <3>1, <3>2, <3>3, <1>1, <1>2, <1>3, <1>5 DEF CopyInv, Early, Copying
  <2> QED BY <2>2, <2>3
<1>8. WholeInv'
  BY DEF PutInv, FileInv, WholeInv, ReadLocal, Ending
<1> QED BY <1>6, <1>7, <1>8 DEF PutInv

\* What is sent moves from the front of the buffer to the end of the destination.
LEMMA SendOK == ASSUME PutInv, Send PROVE PutInv'
<1>1. PICK n \in 1..Len(buffer) :
        /\ Step("send", IF n = Len(buffer) THEN "read" ELSE "send")
        /\ buffer' = SubSeq(buffer, n + 1, Len(buffer))
        /\ remote' = IF fault THEN remote ELSE remote \o SubSeq(buffer, 1, n)
        /\ UNCHANGED <<localVars, size, copied, fault, result>>
  BY DEF Send
<1>2. pc = "send" /\ pc' = IF n = Len(buffer) THEN "read" ELSE "send"
  BY <1>1 DEF Step, Goto
<1>3. buffer \in Seq(Byte) /\ Len(buffer) \in Nat /\ Len(buffer) <= copied /\ copied \in Nat
      /\ size \in Nat /\ n \in Nat /\ n > 0 /\ n <= Len(buffer)
  BY <1>2, LenProperties DEF PutInv, FileInv, CopyInv
<1>4. \A i \in 1..Len(buffer) : buffer[i] \in Byte
  BY <1>3, ElementOfSeq
<1>5. /\ buffer' \in Seq(Byte) /\ Len(buffer') = Len(buffer) - n
      /\ \A i \in 1..Len(buffer) - n : buffer'[i] = buffer[n + i]
  <2>0. \A i \in n + 1 .. Len(buffer) : buffer[i] \in Byte
    BY <1>3, <1>4
  <2>1. /\ buffer' \in Seq(Byte)
        /\ Len(buffer') = IF n + 1 <= Len(buffer) THEN Len(buffer) - (n + 1) + 1 ELSE 0
        /\ \A i \in 1 .. Len(buffer) - (n + 1) + 1 : buffer'[i] = buffer[n + 1 + i - 1]
    BY <1>1, <1>3, <2>0, SubSeqProperties
  <2>2. Len(buffer) - (n + 1) + 1 = Len(buffer) - n
    BY <1>3
  <2>3. \A i \in 1..Len(buffer) - n : n + 1 + i - 1 = n + i
    BY <1>3
  <2>4. Len(buffer') = Len(buffer) - n
    <3>1. Len(buffer') = IF n + 1 <= Len(buffer) THEN Len(buffer) - (n + 1) + 1 ELSE 0
      BY <2>1
    <3>2. (IF n + 1 <= Len(buffer) THEN Len(buffer) - (n + 1) + 1 ELSE 0) = Len(buffer) - n
      BY <1>3
    <3> QED BY <3>1, <3>2
  <2>5. \A i \in 1..Len(buffer) - n : buffer'[i] = buffer[n + 1 + i - 1]
    <3> DEFINE top == Len(buffer) - (n + 1) + 1
    <3>1. \A i \in 1 .. top : buffer'[i] = buffer[n + 1 + i - 1]
      BY <2>1
    <3>2. top = Len(buffer) - n
      BY <2>2
    <3> HIDE DEF top
    <3> QED BY <3>1, <3>2
  <2>6. \A i \in 1..Len(buffer) - n : buffer'[i] = buffer[n + i]
    BY <2>3, <2>5, Zenon
  <2> QED BY <2>1, <2>4, <2>6
<1> DEFINE sent == SubSeq(buffer, 1, n)
<1>6. /\ sent \in Seq(Byte) /\ Len(sent) = n
      /\ \A i \in 1..n : sent[i] = buffer[i]
  <2>0. \A i \in 1..n : buffer[i] \in Byte
    BY <1>3, <1>4
  <2>1. /\ sent \in Seq(Byte)
        /\ Len(sent) = IF 1 <= n THEN n - 1 + 1 ELSE 0
        /\ \A i \in 1 .. n - 1 + 1 : sent[i] = buffer[1 + i - 1]
    BY <1>3, <2>0, SubSeqProperties
  <2>2. n - 1 + 1 = n /\ \A i \in 1..n : 1 + i - 1 = i
    BY <1>3
  <2> QED BY <1>3, <2>1, <2>2
<1>7. FileInv'
  BY <1>1, <1>2 DEF PutInv, FileInv, localVars, Early, Copying, Ending, Final, CleanupSteps
<1>8. CopyInv'
  <2>1. Len(buffer') \in Nat /\ (pc' = "read" => Len(buffer') = 0)
    BY <1>2, <1>3, <1>5
  <2>2. pc' = "read" => buffer' = <<>>
    BY <2>1, <1>5, EmptySeq
  <2>3. CASE fault
    BY <2>2, <2>3, <1>1, <1>2, <1>3, <1>5 DEF CopyInv, Early, Copying
  <2>4. CASE ~fault
    <3>1. /\ remote \in Seq(Byte) /\ Len(remote) + Len(buffer) = copied /\ Len(remote) \in Nat
          /\ FromFile(remote, 0) /\ FromFile(buffer, Len(remote))
      BY <1>2, <2>4, LenProperties DEF PutInv, CopyInv, Copying
    <3> HIDE DEF sent
    <3>2. remote' = remote \o sent /\ versions' = versions
      BY <1>1, <2>4 DEF sent, localVars
    <3>3. /\ remote' \in Seq(Byte) /\ Len(remote') = Len(remote) + n
          /\ \A i \in 1 .. Len(remote) + n :
               remote'[i] = IF i <= Len(remote) THEN remote[i] ELSE sent[i - Len(remote)]
      <4>1. /\ remote \o sent \in Seq(Byte) /\ Len(remote \o sent) = Len(remote) + Len(sent)
            /\ \A i \in 1 .. Len(remote) + Len(sent) : (remote \o sent)[i] =
                 IF i <= Len(remote) THEN remote[i] ELSE sent[i - Len(remote)]
        BY <3>1, <1>6, ConcatProperties, Zenon
      <4> QED BY <3>2, <4>1, <1>6, Zenon
    <3>4. FromFile(remote, 0)'
      <4> SUFFICES ASSUME NEW k \in 1 .. Len(remote) + n
                   PROVE  \E v \in versions : k <= Len(v) /\ v[k] = remote'[k]
        <5>1. \A k \in 1 .. Len(remote) + n : 0 + k = k
          BY <3>1, <1>3
        <5> QED BY <3>2, <3>3, <5>1, Zenon DEF FromFile
      <4>1. CASE k <= Len(remote)
        <5>1. k \in 1..Len(remote) /\ 0 + k = k
          BY <4>1, <3>1
        <5>2. remote'[k] = remote[k]
          BY <4>1, <3>3
        <5> QED BY <5>1, <5>2, <3>1 DEF FromFile
      <4>2. CASE k > Len(remote)
        <5>1. k - Len(remote) \in 1..n /\ k - Len(remote) \in 1..Len(buffer)
              /\ Len(remote) + (k - Len(remote)) = k
          BY <4>2, <3>1, <1>3
        <5>2. remote'[k] = buffer[k - Len(remote)]
          BY <4>2, <5>1, <3>1, <3>3, <1>6
        <5> QED BY <5>1, <5>2, <3>1 DEF FromFile
      <4> QED BY <4>1, <4>2, <3>1, <1>3
    <3>5. FromFile(buffer, Len(remote))'
      <4> SUFFICES ASSUME NEW k \in 1 .. Len(buffer) - n
                   PROVE  \E v \in versions :
                            Len(remote) + n + k <= Len(v) /\ v[Len(remote) + n + k] = buffer'[k]
        <5>1. Len(remote') = Len(remote) + n /\ Len(buffer') = Len(buffer) - n
          BY <3>3, <1>5
        <5> QED BY <3>2, <5>1, Zenon DEF FromFile
      <4>1. n + k \in 1..Len(buffer) /\ Len(remote) + (n + k) = Len(remote) + n + k
        BY <3>1, <1>3
      <4> QED BY <4>1, <3>1, <1>5 DEF FromFile
    <3>6. Len(remote') + Len(buffer') = copied' /\ Len(buffer') <= copied'
      <4>1. Len(remote') = Len(remote) + n /\ Len(buffer') = Len(buffer) - n /\ copied' = copied
        BY <3>3, <1>1, <1>5
      <4>2. /\ Len(remote) \in Nat /\ Len(buffer) \in Nat /\ n \in Nat
            /\ Len(remote) + Len(buffer) = copied
        BY <3>1, <1>3
      <4> QED BY <4>1, <4>2
    <3> QED BY <2>2, <3>3, <3>4, <3>5, <3>6, <1>2, <1>5 DEF CopyInv, Early, Copying
  <2> QED BY <2>3, <2>4
<1>9. WholeInv'
  BY <1>1, <1>2 DEF PutInv, FileInv, WholeInv, Ending
<1> QED BY <1>7, <1>8, <1>9 DEF PutInv

\* Only a destination with all announced bytes is acknowledged.
LEMMA EndOfLocalOK == ASSUME PutInv, EndOfLocal PROVE PutInv'
<1>1. CASE copied = size
  <2>0. pc = "read" /\ pc' = "ack" /\ UNCHANGED <<localVars, copyVars, remote, fault, result>>
    BY <1>1 DEF EndOfLocal
  <2>1. FileInv'
    BY <1>1, <2>0 DEF PutInv, FileInv, localVars, copyVars, Early, Copying, Ending, Final, CleanupSteps
  <2>2. CopyInv'
    BY <2>0 DEF CopyInv, Early, Copying
  <2>3. WholeInv'
    <3>1. Len(<<>>) = 0 /\ buffer = <<>>
      BY <2>0 DEF PutInv, CopyInv
    <3>2. ~fault => Len(remote) = size /\ FromFile(remote, 0)
      BY <1>1, <2>0, <3>1, LenProperties DEF PutInv, FileInv, CopyInv, Copying
    <3>3. result.status = "none"
      BY <2>0 DEF PutInv, FileInv, Final, CleanupSteps
    <3> QED BY <2>0, <3>2, <3>3 DEF WholeInv, FromFile, localVars, copyVars
  <2> QED BY <2>1, <2>2, <2>3 DEF PutInv
<1>2. CASE copied # size
  <2>1. Abandon("send") /\ UNCHANGED <<localVars, copyVars, fault>>
    BY <1>2 DEF EndOfLocal
  <2>2. pc' \in CleanupSteps /\ result'.status = "error"
    BY <2>1 DEF Abandon, CleanupSteps
  <2> QED BY <2>1, <2>2, FinalStep DEF Final
<1> QED BY <1>1, <1>2

LEMMA AcknowledgeOK == ASSUME PutInv, Acknowledge PROVE PutInv'
<1>1. pc \in Ending /\ pc' \in Ending /\ UNCHANGED <<localVars, copyVars, remote, fault, result>>
  BY DEF Acknowledge, Step, Goto, Ending
<1>2. FileInv'
  BY <1>1 DEF PutInv, FileInv, localVars, copyVars, Early, Copying, Ending, Final, CleanupSteps
<1>3. CopyInv'
  BY <1>1 DEF CopyInv, Early, Copying, Ending
<1>4. WholeInv'
  BY <1>1 DEF PutInv, FileInv, WholeInv, FromFile, localVars, copyVars, Ending
<1> QED BY <1>2, <1>3, <1>4 DEF PutInv

LEMMA CompleteOK == ASSUME PutInv, Complete PROVE PutInv'
<1>1. CASE CompletionOk
  <2>0. pc = "status" /\ pc' = "done" /\ UNCHANGED <<localVars, copyVars, remote, fault>> /\ ~fault
        /\ result'.status = "ok"
    BY <1>1 DEF Complete, CompletionOk
  <2>1. FileInv'
    BY <2>0 DEF PutInv, FileInv, localVars, copyVars, Early, Copying, Ending, Final, CleanupSteps
  <2>2. CopyInv'
    BY <2>0 DEF CopyInv, Early, Copying
  <2>3. WholeInv'
    BY <2>0 DEF PutInv, WholeInv, FromFile, localVars, copyVars, Ending
  <2> QED BY <2>1, <2>2, <2>3 DEF PutInv
<1>2. CASE ~CompletionOk
  BY <1>2, FinalStep DEF Complete, Fail, Final
<1> QED BY <1>1, <1>2

LEMMA OperationOK == ASSUME PutInv, OperationStep PROVE PutInv'
<1>1. CASE OperationFails
  BY <1>1, FinalStep DEF OperationFails, Abandon, CleanupSteps, Final
<1>2. CASE Destroy
  BY <1>2, FinalStep DEF Destroy, Goto, CleanupSteps, Final, PutInv, FileInv
<1> QED BY <1>1, <1>2, OpenRemoteOK, ReadLocalOK, SendOK, EndOfLocalOK, AcknowledgeOK, CompleteOK
        DEF OperationStep

--------------------------------------------------------------------------------
LEMMA ServerFaultOK == ASSUME PutInv, ServerFault PROVE PutInv'
<1>1. FileInv'
  BY DEF PutInv, FileInv, ServerFault, localVars, copyVars
<1>2. CopyInv'
  BY DEF PutInv, CopyInv, ServerFault, copyVars
<1>3. WholeInv'
  BY DEF PutInv, FileInv, WholeInv, ServerFault, BlockingSteps, Ending
<1> QED BY <1>1, <1>2, <1>3 DEF PutInv

\* The user can change what is still to be read, not what the file has been.
LEMMA UserEditsOK == ASSUME PutInv, UserEdits PROVE PutInv'
<1>1. /\ pc # "done" /\ UNCHANGED <<pc, copyVars, remote, fault, result>>
      /\ versions \subseteq versions' /\ versions' \subseteq Seq(Byte) /\ path' \in Seq(Byte)
      /\ pc \notin {"local"} \cup Final => source' \in versions'
  BY UploadAssumption
     DEF PutInv, FileInv, UserEdits, Early, Copying, Ending, Final, CleanupSteps
<1>2. FileInv'
  BY <1>1 DEF PutInv, FileInv, copyVars, Final, CleanupSteps
<1>3. \A s, start : FromFile(s, start) =>
        \A k \in 1..Len(s) : \E v \in versions' : start + k <= Len(v) /\ v[start + k] = s[k]
  BY <1>1 DEF FromFile
<1>4. CopyInv'
  BY <1>1, <1>3 DEF PutInv, CopyInv, FromFile, copyVars
<1>5. WholeInv'
  BY <1>1, <1>3 DEF PutInv, WholeInv, FromFile, copyVars
<1> QED BY <1>2, <1>4, <1>5 DEF PutInv

LEMMA PutStep == PutInv /\ [Next]_vars => PutInv'
<1> SUFFICES ASSUME PutInv, [Next]_vars PROVE PutInv'
  OBVIOUS
<1>1. CASE NeverAnswered
  BY <1>1, FinalStep DEF NeverAnswered, BlockingSteps, CleanupSteps, Final, PutInv, FileInv
<1>2. CASE UNCHANGED vars
  <2>1. FileInv' BY <1>2 DEF PutInv, FileInv, vars, localVars, copyVars
  <2>2. CopyInv' BY <1>2 DEF PutInv, CopyInv, FromFile, vars, localVars, copyVars
  <2>3. WholeInv' BY <1>2 DEF PutInv, WholeInv, FromFile, vars, localVars, copyVars
  <2> QED BY <2>1, <2>2, <2>3 DEF PutInv
<1> QED BY <1>1, <1>2, ConnectOK, OperationOK, ServerFaultOK, UserEditsOK DEF Next, Finished

\* A successful put has left as many bytes as it announced, each the file's own
\* byte at its place: put_inner() of ssh2_client.rs never counts past the size of
\* the file it opened and accepts no other number.
THEOREM UploadWhole == Spec => []UploadIsWhole
<1>1. PutInv => UploadIsWhole
  <2> SUFFICES ASSUME PutInv, result.status = "ok" PROVE UploadIsWhole
    BY DEF UploadIsWhole
  <2>1. Len(remote) = size /\ FromFile(remote, 0) /\ size \in Nat
    BY DEF PutInv, FileInv, WholeInv
  <2> QED BY <2>1 DEF UploadIsWhole, FromFile
<1> QED BY <1>1, PutInit, PutStep, PTL DEF Spec

--------------------------------------------------------------------------------
(***************************************************************************)
(* Time.                                                                   *)
(***************************************************************************)
OperationPoints == BlockingSteps \cup {"read", "status"}
ConnectPoints == {"resolve", "dial", "handshake"}
ConnectResults == {"resolve", "connect", "handshake"}
PromptResults == {"complete", "done"}
LateResults == {"operation", "send"}
\* What one deadline takes at most.
Allowance == ConnectTimeout + TicksPerMilli
OperationAllowance == timeout + TicksPerMilli

TimeTypes ==
  /\ elapsed \in Nat /\ session \in Nat /\ logins \in Nat /\ logins <= Logins
  /\ timeout \in OperationTimeouts
  /\ pc \notin Final => result.stage = "none"
  /\ pc \in CleanupSteps => result.stage \in LateResults

ConnectInTime ==
  /\ pc \in {"local", "resolve"} => elapsed = 0
  /\ pc \in {"local"} \cup ConnectPoints => logins = 0
  /\ pc \in ConnectPoints \/ result.stage \in ConnectResults => elapsed < Allowance
  /\ pc = "login" => session * TicksPerMilli <= Allowance /\ elapsed < Allowance * (1 + logins)
  /\ result.stage = "login" => elapsed < Allowance * (1 + Logins)

\* What was destroyed so far has taken one call's time each.
OperationInTime ==
  timeout # NoTimeout =>
    /\ pc \in OperationPoints \cup CleanupSteps => session * TicksPerMilli < OperationAllowance
    /\ pc \in OperationPoints \cup {"destroy channel"} \/ result.stage \in PromptResults
         => elapsed < OperationAllowance
    /\ pc = "destroy session" => elapsed < 2 * OperationAllowance
    /\ result.stage \in LateResults => elapsed < 3 * OperationAllowance

TimeInv == TimeTypes /\ ConnectInTime /\ OperationInTime

\* A remaining time is rounded by less than a millisecond, never to nothing.
LEMMA MillisBound ==
  ASSUME NEW t \in Nat \ {0}
  PROVE  /\ Millis(t) \in Nat \ {0}
         /\ Millis(t) * TicksPerMilli < t + TicksPerMilli
         /\ t < Millis(t) * TicksPerMilli + TicksPerMilli
<1> DEFINE q == t \div TicksPerMilli
<1>1. TicksPerMilli \in Nat \ {0}
  BY UploadAssumption
<1>2. CASE t < TicksPerMilli
  BY <1>1, <1>2 DEF Millis
<1>3. CASE ~(t < TicksPerMilli)
  <2>1. q \in Nat /\ q * TicksPerMilli <= t /\ t < (q + 1) * TicksPerMilli
    BY <1>1
  <2>2. q # 0
    BY <1>1, <1>3, <2>1
  <2>3. Millis(t) = q
    BY <1>3 DEF Millis
  <2> HIDE DEF q
  <2>4. (q + 1) * TicksPerMilli = q * TicksPerMilli + TicksPerMilli
    BY <1>1, <2>1
  <2> QED BY <1>1, <2>1, <2>2, <2>3, <2>4
<1> QED BY <1>2, <1>3

\* A call started in time ends before the deadline is over by a millisecond.
LEMMA CallInTime ==
  ASSUME NEW now \in Nat, NEW deadline \in Nat, now < deadline,
         NEW d \in CallTimes(Millis(deadline - now))
  PROVE  now + d \in Nat /\ now + d < deadline + TicksPerMilli
<1>1. TicksPerMilli \in Nat \ {0}
  BY UploadAssumption
<1>2. deadline - now \in Nat \ {0}
  OBVIOUS
<1> DEFINE m == Millis(deadline - now) * TicksPerMilli
<1>3. m \in Nat /\ m < (deadline - now) + TicksPerMilli
  BY <1>1, <1>2, MillisBound
<1>4. d \in 0..m
  BY DEF CallTimes
<1> HIDE DEF m
<1> QED BY <1>1, <1>3, <1>4

LEMMA TimeInit == Init => TimeInv
BY UploadAssumption DEF Init, TimeInv, TimeTypes, ConnectInTime, OperationInTime, ConnectPoints,
   ConnectResults, OperationPoints, PromptResults, LateResults, BlockingSteps, CleanupSteps, Final

\* A step of the connection after which time is still within its deadline.
LEMMA ConnectTime ==
  ASSUME TimeInv, pc \in ConnectPoints, UNCHANGED <<timeout, logins>>,
         elapsed' \in Nat, elapsed' < Allowance, session' \in Nat,
         \/ pc' \in {"dial", "handshake"} /\ UNCHANGED result
         \/ pc' = "login" /\ UNCHANGED result /\ session' * TicksPerMilli <= Allowance
         \/ pc' = "done" /\ result'.stage \in ConnectResults
  PROVE  TimeInv'
<1>1. Allowance \in Nat /\ Allowance * (1 + 0) = Allowance
  BY UploadAssumption DEF Allowance
<1>2. logins = 0 /\ pc' # "local" /\ pc' # "resolve" /\ (pc' # "done" => result'.stage = "none")
  BY DEF TimeInv, TimeTypes, ConnectInTime, ConnectPoints, Final, CleanupSteps
<1>3. TimeTypes'
  BY <1>2 DEF TimeInv, TimeTypes, Final, CleanupSteps
<1>4. ConnectInTime'
  BY <1>1, <1>2 DEF ConnectInTime, ConnectPoints, ConnectResults, Allowance
<1>5. OperationInTime'
  BY <1>2 DEF OperationInTime, OperationPoints, ConnectResults, PromptResults, LateResults,
     BlockingSteps, CleanupSteps
<1> QED BY <1>3, <1>4, <1>5 DEF TimeInv

\* A step of the operation, or into it, after which time is still within its
\* deadline.
LEMMA OperationTime ==
  ASSUME TimeInv, pc \in OperationPoints \cup {"login"}, UNCHANGED timeout,
         logins' \in Nat, logins' <= Logins, elapsed' \in Nat, session' \in Nat,
         timeout # NoTimeout =>
           elapsed' < OperationAllowance /\ session' * TicksPerMilli < OperationAllowance,
         \/ pc' \in OperationPoints /\ UNCHANGED result
         \/ pc' = "done" /\ result'.stage \in PromptResults
         \/ pc' \in CleanupSteps /\ result'.stage \in LateResults
  PROVE  TimeInv'
<1>1. pc \notin Final /\ result.stage = "none"
  BY DEF TimeInv, TimeTypes, OperationPoints, BlockingSteps, Final, CleanupSteps
<1>2. timeout # NoTimeout => OperationAllowance \in Nat
  BY UploadAssumption DEF TimeInv, TimeTypes, OperationAllowance
<1>3. TimeTypes'
  BY <1>1 DEF TimeInv, TimeTypes, OperationPoints, BlockingSteps, Final, CleanupSteps
<1>4. ConnectInTime'
  BY <1>1 DEF ConnectInTime, ConnectPoints, ConnectResults, OperationPoints, PromptResults,
     LateResults, BlockingSteps, CleanupSteps
<1>5. OperationInTime'
  <2> SUFFICES ASSUME timeout # NoTimeout
               PROVE  /\ session' * TicksPerMilli < OperationAllowance
                      /\ elapsed' < OperationAllowance
                      /\ elapsed' < 2 * OperationAllowance
                      /\ elapsed' < 3 * OperationAllowance
    BY DEF OperationInTime, OperationAllowance
  <2> QED BY <1>2
<1> QED BY <1>3, <1>4, <1>5 DEF TimeInv

\* A step at the local file or in the login, or out of it with an error.
LEMMA Elsewhere ==
  ASSUME TimeInv, pc \in {"local", "login"}, UNCHANGED <<timeout, session>>,
         elapsed' \in Nat, logins' \in Nat, logins' <= Logins,
         \/ pc' = "resolve" /\ UNCHANGED result /\ elapsed' = 0 /\ logins' = 0 /\ 0 < Allowance
         \/ /\ pc = "login" /\ pc' = "login" /\ UNCHANGED result
            /\ elapsed' < Allowance * (1 + logins')
         \/ pc' = "done" /\ result'.stage = "local"
         \/ pc' = "done" /\ result'.stage = "login" /\ elapsed' < Allowance * (1 + Logins)
  PROVE  TimeInv'
<1>1. pc' # "done" => result'.stage = "none"
  BY DEF TimeInv, TimeTypes, Final, CleanupSteps
<1>2. TimeTypes'
  BY <1>1 DEF TimeInv, TimeTypes, Final, CleanupSteps
<1>3. ConnectInTime'
  BY <1>1 DEF TimeInv, ConnectInTime, ConnectPoints, ConnectResults, Allowance
<1>4. OperationInTime'
  BY <1>1 DEF OperationInTime, OperationPoints, PromptResults, LateResults, BlockingSteps, CleanupSteps
<1> QED BY <1>2, <1>3, <1>4 DEF TimeInv

LEMMA ConnectTimeOK == ASSUME TimeInv, ConnectStep PROVE TimeInv'
<1>0. /\ Allowance \in Nat \ {0} /\ ConnectTimeout \in Nat \ {0} /\ TicksPerMilli \in Nat \ {0}
      /\ ConnectTimeout < Allowance /\ Logins \in Nat
  BY UploadAssumption DEF Allowance
<1> USE DEF Goto, Fail, Takes
<1>1. CASE OpenLocal
  <2>1. /\ pc = "local" /\ pc' = "resolve" /\ elapsed = 0 /\ logins = 0
        /\ UNCHANGED <<timeout, elapsed, session, logins, result>>
    BY <1>1 DEF OpenLocal, connectVars, TimeInv, ConnectInTime
  <2> QED BY <1>0, <2>1, Elsewhere
<1>2. CASE OpenLocalFails
  <2>1. /\ pc = "local" /\ pc' = "done" /\ result'.stage = "local"
        /\ UNCHANGED <<timeout, elapsed, session, logins>>
        /\ elapsed \in Nat /\ logins \in Nat /\ logins <= Logins
    BY <1>2 DEF OpenLocalFails, connectVars, TimeInv, TimeTypes
  <2> QED BY <2>1, Elsewhere
<1>3. ASSUME pc \in ConnectPoints
      PROVE  /\ elapsed \in Nat /\ elapsed < Allowance /\ session \in Nat
             /\ pc = "resolve" => elapsed = 0
  BY <1>3 DEF TimeInv, TimeTypes, ConnectInTime, ConnectPoints
<1>4. CASE Resolve
  <2>1. elapsed' \in Nat /\ elapsed' < Allowance
    BY <1>0, <1>3, <1>4 DEF Resolve, ConnectPoints
  <2> QED BY <1>3, <1>4, <2>1, ConnectTime DEF Resolve, ConnectPoints
<1>5. CASE ResolveFails
  <2>1. elapsed' \in Nat /\ elapsed' < Allowance
    BY <1>0, <1>3, <1>5 DEF ResolveFails, ConnectPoints
  <2> QED BY <1>3, <1>5, <2>1, ConnectTime DEF ResolveFails, ConnectPoints, ConnectResults, connectVars
<1>6. ASSUME ~ConnectExpired, NEW d \in 0..ConnectRemaining, elapsed \in Nat
      PROVE  elapsed + d \in Nat /\ elapsed + d < Allowance
  BY <1>0, <1>6 DEF ConnectExpired, ConnectRemaining
<1>7. CASE Dial
  <2>1. elapsed' \in Nat /\ elapsed' < Allowance
    BY <1>3, <1>6, <1>7 DEF Dial, ConnectPoints
  <2> QED BY <1>3, <1>7, <2>1, ConnectTime DEF Dial, ConnectPoints, connectVars
<1>8. CASE DialFails
  <2>1. elapsed' \in Nat /\ elapsed' < Allowance
    <3>1. PICK d \in 0..ConnectRemaining : elapsed' = elapsed + d
      BY <1>0, <1>3, <1>8 DEF DialFails, ConnectPoints, ConnectExpired, ConnectRemaining
    <3> QED BY <1>3, <1>6, <1>8, <3>1 DEF DialFails, ConnectPoints
  <2> QED BY <1>3, <1>8, <2>1, ConnectTime DEF DialFails, NextAddress, ConnectPoints
<1>9. CASE DialEnds
  BY <1>3, <1>9, ConnectTime DEF DialEnds, ConnectPoints, ConnectResults, connectVars
<1>10. ASSUME ~ConnectExpired, elapsed \in Nat
       PROVE  /\ \A d \in CallTimes(Millis(ConnectRemaining)) :
                   elapsed + d \in Nat /\ elapsed + d < Allowance
              /\ Millis(ConnectRemaining) \in Nat
              /\ Millis(ConnectRemaining) * TicksPerMilli <= Allowance
  <2>1. elapsed < ConnectTimeout /\ ConnectRemaining \in Nat \ {0} /\ ConnectRemaining <= ConnectTimeout
    BY <1>0, <1>10 DEF ConnectExpired, ConnectRemaining
  <2>2. \A d \in CallTimes(Millis(ConnectRemaining)) : elapsed + d \in Nat /\ elapsed + d < Allowance
    BY <1>0, <1>10, <2>1, CallInTime DEF ConnectRemaining, Allowance
  <2> DEFINE m == Millis(ConnectRemaining)
  <2>3. m \in Nat /\ m * TicksPerMilli < ConnectRemaining + TicksPerMilli
    BY <2>1, MillisBound
  <2>4. m * TicksPerMilli \in Nat
    BY <1>0, <2>3
  <2> HIDE DEF m
  <2>5. m * TicksPerMilli <= Allowance
    <3> DEFINE p == m * TicksPerMilli
    <3>1. p \in Nat /\ p < ConnectRemaining + TicksPerMilli
      BY <2>3, <2>4
    <3> HIDE DEF p
    <3>2. p <= Allowance
      BY <1>0, <2>1, <3>1 DEF Allowance
    <3> QED BY <3>2 DEF p
  <2> QED BY <2>2, <2>3, <2>5 DEF m
<1>11. CASE Handshake
  <2>1. /\ elapsed' \in Nat /\ elapsed' < Allowance
        /\ session' \in Nat /\ session' * TicksPerMilli <= Allowance
    BY <1>3, <1>10, <1>11 DEF Handshake, ConnectPoints
  <2> QED BY <1>3, <1>11, <2>1, ConnectTime DEF Handshake, ConnectPoints
<1>12. CASE HandshakeAgain
  <2>1. elapsed' \in Nat /\ elapsed' < Allowance
    BY <1>3, <1>10, <1>12 DEF HandshakeAgain, ConnectPoints
  <2> QED BY <1>3, <1>12, <2>1, ConnectTime DEF HandshakeAgain, ConnectPoints
<1>13. CASE HandshakeFails
  <2>1. pc \in ConnectPoints /\ (~ConnectExpired =>
          \E d \in CallTimes(Millis(ConnectRemaining)) : elapsed' = elapsed + d)
    <3>1. ~ConnectExpired =>
            Millis(ConnectRemaining) * TicksPerMilli \in CallTimes(Millis(ConnectRemaining))
      <4> SUFFICES ASSUME ~ConnectExpired
                   PROVE  Millis(ConnectRemaining) * TicksPerMilli \in Nat
        BY DEF CallTimes
      <4>1. ConnectRemaining \in Nat \ {0}
        BY <1>0, <1>3, <1>13 DEF HandshakeFails, ConnectPoints, ConnectExpired, ConnectRemaining
      <4> QED BY <1>0, <4>1, MillisBound
    <3> QED BY <1>13, <3>1 DEF HandshakeFails, ConnectPoints
  <2>2. elapsed' \in Nat /\ elapsed' < Allowance
    BY <1>3, <1>10, <1>13, <2>1 DEF HandshakeFails
  <2> QED BY <1>3, <1>13, <2>2, ConnectTime DEF HandshakeFails, ConnectPoints, ConnectResults, connectVars
<1>14. CASE LoginCall
  <2>0. pc = "login" /\ pc' = "login" /\ logins < Logins /\ logins' = logins + 1
        /\ UNCHANGED <<timeout, session, result>>
    BY <1>14 DEF LoginCall
  <2>1. /\ elapsed \in Nat /\ logins \in Nat /\ session \in Nat
        /\ session * TicksPerMilli <= Allowance /\ elapsed < Allowance * (1 + logins)
        /\ result.stage = "none"
    BY <2>0 DEF TimeInv, TimeTypes, ConnectInTime, Final, CleanupSteps
  <2>2. PICK d \in 0..(session * TicksPerMilli) : elapsed' = elapsed + d
    BY <1>14 DEF LoginCall, CallTimes
  <2>3. session * TicksPerMilli \in Nat
    BY <1>0, <2>1
  <2>4. d \in Nat /\ d <= Allowance
    BY <1>0, <2>1, <2>2, <2>3
  <2>5. Allowance * (1 + logins) \in Nat
        /\ Allowance * (1 + (logins + 1)) = Allowance * (1 + logins) + Allowance
    BY <1>0, <2>1
  <2>6. elapsed' \in Nat /\ elapsed' < Allowance * (1 + logins')
    <3> DEFINE bound == Allowance * (1 + logins)
    <3>1. bound \in Nat /\ elapsed < bound
      BY <2>1, <2>5
    <3> HIDE DEF bound
    <3>2. elapsed + d \in Nat /\ elapsed + d < bound + Allowance
      BY <1>0, <2>1, <2>4, <3>1
    <3> QED BY <2>0, <2>2, <2>5, <3>2 DEF bound
  <2> QED BY <1>0, <2>0, <2>1, <2>6, Elsewhere
<1>15. CASE LoginFails
  <2>0. /\ pc = "login" /\ pc' = "done" /\ result'.stage = "login"
        /\ UNCHANGED <<timeout, elapsed, session, logins>>
    BY <1>15 DEF LoginFails, connectVars
  <2>1. elapsed \in Nat /\ logins \in Nat /\ logins <= Logins /\ elapsed < Allowance * (1 + logins)
    BY <2>0 DEF TimeInv, TimeTypes, ConnectInTime, Final, CleanupSteps
  <2>2. Allowance * (1 + logins) \in Nat /\ Allowance * (1 + Logins) \in Nat
        /\ Allowance * (1 + logins) <= Allowance * (1 + Logins)
    BY <1>0, <2>1
  <2>3. elapsed < Allowance * (1 + Logins)
    <3> DEFINE b == Allowance * (1 + logins)
               c == Allowance * (1 + Logins)
    <3>1. b \in Nat /\ c \in Nat /\ elapsed < b /\ b <= c
      BY <2>1, <2>2
    <3> HIDE DEF b, c
    <3>2. elapsed < c
      BY <2>1, <3>1
    <3> QED BY <3>2 DEF c
  <2> QED BY <2>0, <2>1, <2>3, Elsewhere
<1>16. CASE LoggedIn
  <2>1. /\ pc = "login" /\ pc' = "open" /\ elapsed' = 0 /\ logins' = 0
        /\ UNCHANGED <<timeout, result>>
        /\ session' = IF timeout = NoTimeout THEN 0 ELSE Millis(timeout)
    BY <1>16 DEF LoggedIn
  <2>2. timeout # NoTimeout => timeout \in Nat \ {0}
    BY UploadAssumption DEF TimeInv, TimeTypes
  <2>3. /\ session' \in Nat
        /\ timeout # NoTimeout => /\ 0 < OperationAllowance
                                 /\ session' * TicksPerMilli < OperationAllowance
    BY <1>0, <2>1, <2>2, MillisBound DEF OperationAllowance
  <2> QED BY <1>0, <2>1, <2>3, OperationTime DEF OperationPoints, BlockingSteps
<1> QED BY <1>1, <1>2, <1>4, <1>5, <1>7, <1>8, <1>9, <1>11, <1>12, <1>13, <1>14, <1>15, <1>16
        DEF ConnectStep

\* The timeout of a call that is started in time.
LEMMA SessionInTime ==
  ASSUME TimeInv, ApplyDeadline
  PROVE  session' \in Nat /\ (timeout # NoTimeout => session' * TicksPerMilli < OperationAllowance)
<1>1. /\ elapsed \in Nat /\ TicksPerMilli \in Nat
      /\ timeout # NoTimeout => timeout \in Nat /\ elapsed < timeout
  BY UploadAssumption DEF TimeInv, TimeTypes, ApplyDeadline, OperationExpired
<1>2. CASE timeout = NoTimeout
  BY <1>2 DEF ApplyDeadline, OperationMillis
<1>3. CASE timeout # NoTimeout
  <2>1. timeout - elapsed \in Nat \ {0} /\ session' = Millis(timeout - elapsed)
    BY <1>1, <1>3 DEF ApplyDeadline, OperationMillis, OperationRemaining
  <2> DEFINE p == session' * TicksPerMilli
  <2>2. session' \in Nat /\ p \in Nat /\ p < (timeout - elapsed) + TicksPerMilli
    BY <1>1, <2>1, MillisBound
  <2> HIDE DEF p
  <2>3. p < OperationAllowance
    BY <1>1, <1>3, <2>2 DEF OperationAllowance
  <2> QED BY <2>2, <2>3 DEF p
<1> QED BY <1>2, <1>3

\* A step that is started in time.
LEMMA StepInTime ==
  ASSUME TimeInv, ApplyDeadline, Takes(CallTimes(session'))
  PROVE  elapsed' \in Nat /\ (timeout # NoTimeout => elapsed' < OperationAllowance)
<1>1. elapsed \in Nat /\ (timeout # NoTimeout => timeout \in Nat \ {0})
  BY UploadAssumption DEF TimeInv, TimeTypes
<1>2. PICK d \in CallTimes(session') : elapsed' = elapsed + d
  BY DEF Takes
<1>3. CASE timeout = NoTimeout
  BY <1>1, <1>2, <1>3, UploadAssumption DEF ApplyDeadline, OperationMillis, CallTimes
<1>4. CASE timeout # NoTimeout
  <2>1. elapsed < timeout /\ d \in CallTimes(Millis(timeout - elapsed))
    BY <1>1, <1>2, <1>4 DEF ApplyDeadline, OperationExpired, OperationMillis, OperationRemaining
  <2> QED BY <1>1, <1>2, <1>4, <2>1, CallInTime DEF OperationAllowance
<1> QED BY <1>3, <1>4

LEMMA OneMoreCall ==
  ASSUME NEW now \in Nat, NEW bound \in Nat, NEW p \in Nat, NEW d \in Nat, d <= p, p < bound
  PROVE  /\ now < bound => now + d < 2 * bound /\ now + d < 3 * bound
         /\ now < 2 * bound => now + d < 3 * bound
OBVIOUS

\* Each destruction takes at most the time of one more call.
LEMMA DestroyInTime == ASSUME TimeInv, Destroy PROVE TimeInv'
<1>0. /\ pc \in CleanupSteps /\ UNCHANGED <<timeout, session, logins, result>>
      /\ \/ pc = "destroy channel" /\ pc' = "destroy session"
         \/ pc = "destroy session" /\ pc' = "done"
      /\ result.stage \in LateResults
  BY DEF Destroy, Goto, TimeInv, TimeTypes, CleanupSteps, untouchedVars
<1> DEFINE p == session * TicksPerMilli
<1>1. /\ elapsed \in Nat /\ session \in Nat /\ TicksPerMilli \in Nat
      /\ timeout # NoTimeout => OperationAllowance \in Nat
  BY UploadAssumption DEF TimeInv, TimeTypes, OperationAllowance
<1>2. p \in Nat
  <2>1. \A a, b \in Nat : a * b \in Nat
    OBVIOUS
  <2> QED BY <1>0, <1>1, <2>1
<1>3. timeout # NoTimeout =>
        /\ p < OperationAllowance
        /\ pc = "destroy channel" => elapsed < OperationAllowance
        /\ pc = "destroy session" => elapsed < 2 * OperationAllowance
  BY <1>0 DEF TimeInv, OperationInTime
<1>4. \E d \in 0..p : elapsed' = elapsed + d
  BY DEF Destroy, Takes, CallTimes
<1> HIDE DEF p
<1>5. PICK d \in Nat : d <= p /\ elapsed' = elapsed + d
  BY <1>2, <1>4
<1>6. /\ elapsed' \in Nat
      /\ timeout # NoTimeout =>
           /\ pc = "destroy channel" => elapsed' < 2 * OperationAllowance
           /\ elapsed' < 3 * OperationAllowance
  <2>1. elapsed' \in Nat
    BY <1>1, <1>5
  <2>2. SUFFICES ASSUME timeout # NoTimeout
                 PROVE  /\ pc = "destroy channel" => elapsed' < 2 * OperationAllowance
                        /\ elapsed' < 3 * OperationAllowance
    BY <2>1
  <2>3. p < OperationAllowance /\ OperationAllowance \in Nat
    BY <1>1, <1>3, <2>2
  <2>4. CASE pc = "destroy channel"
    BY <1>1, <1>2, <1>3, <1>5, <2>2, <2>3, <2>4, OneMoreCall
  <2>5. CASE pc = "destroy session"
    BY <1>1, <1>2, <1>3, <1>5, <2>2, <2>3, <2>5, OneMoreCall
  <2> QED BY <1>0, <2>4, <2>5
<1>7. TimeTypes'
  BY <1>0, <1>6 DEF TimeInv, TimeTypes, CleanupSteps, Final
<1>8. ConnectInTime'
  BY <1>0 DEF ConnectInTime, ConnectPoints, ConnectResults, LateResults
<1>9. OperationInTime'
  BY <1>0, <1>3, <1>6 DEF p, OperationInTime, OperationAllowance, OperationPoints, BlockingSteps,
     CleanupSteps, PromptResults, LateResults
<1> QED BY <1>7, <1>8, <1>9 DEF TimeInv

LEMMA EndOfLocalResult ==
  ASSUME EndOfLocal
  PROVE  /\ pc = "read" /\ LocalHasEnded /\ UNCHANGED <<timeout, elapsed, logins, tried, addresses>>
         /\ (pc' = "ack" /\ UNCHANGED result) \/ (pc' \in CleanupSteps /\ result'.stage = "send")
<1>1. CASE copied = size
  BY <1>1 DEF EndOfLocal, untouchedVars
<1>2. CASE copied # size
  <2>1. Abandon("send")
    BY <1>2 DEF EndOfLocal
  <2> QED BY <2>1 DEF EndOfLocal, Abandon, CleanupSteps, untouchedVars
<1> QED BY <1>1, <1>2

LEMMA OperationTimeOK == ASSUME TimeInv, OperationStep PROVE TimeInv'
<1>0. ASSUME pc \in OperationPoints
      PROVE  /\ elapsed \in Nat /\ session \in Nat /\ logins \in Nat /\ logins <= Logins
             /\ timeout # NoTimeout => /\ elapsed < OperationAllowance
                                       /\ session * TicksPerMilli < OperationAllowance
  BY <1>0 DEF TimeInv, TimeTypes, OperationInTime
<1> USE DEF OperationPoints, BlockingSteps, PromptResults, LateResults, CleanupSteps,
            untouchedVars, connectVars, Goto, Fail, Step, Abandon
<1>1. CASE OpenRemote BY <1>0, <1>1, SessionInTime, StepInTime, OperationTime DEF OpenRemote
<1>2. CASE ReadLocal BY <1>0, <1>2, SessionInTime, OperationTime DEF ReadLocal
<1>3. CASE Send BY <1>0, <1>3, SessionInTime, StepInTime, OperationTime DEF Send
<1>4. CASE EndOfLocal
  <2>1. /\ pc = "read" /\ UNCHANGED <<timeout, elapsed, logins>>
        /\ UNCHANGED session \/ ApplyDeadline
        /\ (pc' = "ack" /\ UNCHANGED result) \/ (pc' \in CleanupSteps /\ result'.stage = "send")
    BY <1>4, EndOfLocalResult DEF LocalHasEnded
  <2> QED BY <1>0, <2>1, SessionInTime, OperationTime
<1>5. CASE Acknowledge BY <1>0, <1>5, SessionInTime, StepInTime, OperationTime DEF Acknowledge
<1>6. CASE Complete
  <2>1. /\ pc = "status" /\ UNCHANGED <<timeout, elapsed, logins, session>>
        /\ pc' = "done" /\ result'.stage \in {"done", "complete"}
    BY <1>6 DEF Complete
  <2> QED BY <1>0, <2>1, OperationTime
<1>7. CASE OperationFails
  <2>1. /\ pc \in OperationPoints /\ UNCHANGED <<timeout, logins>>
        /\ pc' \in CleanupSteps /\ result'.stage = "operation"
        /\ \/ UNCHANGED <<session, elapsed>>
           \/ ApplyDeadline /\ (UNCHANGED elapsed \/ Takes(CallTimes(session')))
    BY <1>7 DEF OperationFails
  <2> QED BY <1>0, <2>1, SessionInTime, StepInTime, OperationTime
<1> QED BY <1>1, <1>2, <1>3, <1>4, <1>5, <1>6, <1>7, DestroyInTime DEF OperationStep

LEMMA TimeStep == TimeInv /\ [Next]_vars => TimeInv'
<1> SUFFICES ASSUME TimeInv, [Next]_vars PROVE TimeInv'
  OBVIOUS
<1> USE DEF TimeInv, TimeTypes, ConnectInTime, OperationInTime, OperationAllowance, connectVars
<1>1. CASE NeverAnswered
  BY <1>1 DEF NeverAnswered, ConnectPoints, OperationPoints, BlockingSteps, CleanupSteps, Final
<1>2. CASE ServerFault BY <1>2 DEF ServerFault
<1>3. CASE UserEdits BY <1>3 DEF UserEdits
<1>4. CASE UNCHANGED vars BY <1>4 DEF vars
<1> QED BY <1>1, <1>2, <1>3, <1>4, ConnectTimeOK, OperationTimeOK DEF Next, Finished

\* The connection with all its addresses and retries, and the operation with
\* all its steps, each keep to one deadline and end at most a millisecond late:
\* a remaining time is computed anew before every call and never becomes 0. An
\* operation that fails still destroys its channel and its session, and is not
\* later than three times its timeout.
THEOREM InTime == Spec => []ReturnsInTime
<1>1. TimeInv /\ Logins \in Nat => ReturnsInTime
  <2> SUFFICES ASSUME TimeInv, Logins \in Nat PROVE ReturnsInTime
    OBVIOUS
  <2>1. pc = "login" => elapsed < Allowance * (1 + Logins)
    <3> SUFFICES ASSUME pc = "login" PROVE elapsed < Allowance * (1 + Logins)
      OBVIOUS
    <3>1. elapsed \in Nat /\ logins \in Nat /\ logins <= Logins /\ elapsed < Allowance * (1 + logins)
      BY DEF TimeInv, TimeTypes, ConnectInTime
    <3>2. Allowance \in Nat
      BY UploadAssumption DEF Allowance
    <3>3. Allowance * (1 + logins) \in Nat /\ Allowance * (1 + Logins) \in Nat
          /\ Allowance * (1 + logins) <= Allowance * (1 + Logins)
      BY <3>1, <3>2
    <3> DEFINE b == Allowance * (1 + logins)
               c == Allowance * (1 + Logins)
    <3>4. b \in Nat /\ c \in Nat /\ elapsed < b /\ b <= c
      BY <3>1, <3>3
    <3> HIDE DEF b, c
    <3>5. elapsed < c
      BY <3>1, <3>4
    <3> QED BY <3>5 DEF c
  <2> QED BY <2>1 DEF ReturnsInTime, TimeInv, ConnectInTime, OperationInTime, Allowance,
             OperationAllowance, ConnectPoints, ConnectResults, OperationPoints, PromptResults, LateResults
<1> QED BY <1>1, TimeInit, TimeStep, UploadAssumption, PTL DEF Spec
--------------------------------------------------------------------------------
(***************************************************************************)
(* Addresses.                                                              *)
(***************************************************************************)
\* An address that answers is never left behind. The client gives up when none
\* is left or no time, and on a handshake that fails for good or that has used
\* all of its time but less than a millisecond.
AddressInv ==
  /\ tried \in Seq({"refuses", "silent"})
  /\ pc \notin Final => result.stage = "none"
  /\ pc \in CleanupSteps => result.stage \notin {"connect", "handshake"}
  /\ result.stage = "connect" => addresses = <<>> \/ ConnectExpired
  /\ result.stage = "handshake" => FailsForGood \/ elapsed + TicksPerMilli > ConnectTimeout

LEMMA AddressInit == Init => AddressInv
BY EmptySeq DEF Init, AddressInv, Final, CleanupSteps

LEMMA LeaveAddress ==
  ASSUME AddressInv, DialFails
  PROVE  AddressInv'
<1>1. Head(addresses) \in {"refuses", "silent"} /\ tried' = Append(tried, Head(addresses))
  BY DEF DialFails, NextAddress
<1>2. tried' \in Seq({"refuses", "silent"})
  BY <1>1, AppendProperties DEF AddressInv
<1> QED BY <1>2 DEF AddressInv, DialFails, NextAddress, Final, CleanupSteps

\* A handshake that has not ended in its time leaves less than a millisecond.
LEMMA HandshakeTimesOut ==
  ASSUME elapsed \in Nat, ~ConnectExpired, Takes({Millis(ConnectRemaining) * TicksPerMilli})
  PROVE  elapsed' + TicksPerMilli > ConnectTimeout
<1> DEFINE p == Millis(ConnectRemaining) * TicksPerMilli
<1>1. /\ ConnectRemaining \in Nat \ {0} /\ ConnectRemaining = ConnectTimeout - elapsed
      /\ TicksPerMilli \in Nat /\ ConnectTimeout \in Nat
  BY UploadAssumption DEF ConnectExpired, ConnectRemaining
<1>2. p \in Nat /\ ConnectRemaining < p + TicksPerMilli
  BY <1>1, MillisBound
<1>3. elapsed' = elapsed + p
  BY DEF Takes
<1> HIDE DEF p
<1> QED BY <1>1, <1>2, <1>3

LEMMA HandshakeGivesUp == ASSUME TimeInv, AddressInv, HandshakeFails PROVE AddressInv'
<1>1. /\ elapsed \in Nat /\ ConnectTimeout \in Nat /\ TicksPerMilli \in Nat \ {0}
      /\ pc' = "done" /\ result'.stage = "handshake"
      /\ UNCHANGED <<addresses, tried, retries>>
  BY UploadAssumption DEF TimeInv, TimeTypes, HandshakeFails, Fail, connectVars
<1>2. FailsForGood' <=> FailsForGood
  BY <1>1 DEF FailsForGood
<1>3. FailsForGood \/ elapsed' + TicksPerMilli > ConnectTimeout
  BY <1>1, HandshakeTimesOut DEF HandshakeFails, ConnectExpired
<1> QED BY <1>1, <1>2, <1>3 DEF AddressInv, Final, CleanupSteps

LEMMA AddressStep == TimeInv /\ AddressInv /\ [Next]_vars => AddressInv'
<1> SUFFICES ASSUME TimeInv, AddressInv, [Next]_vars PROVE AddressInv'
  OBVIOUS
<1> USE DEF AddressInv, Goto, Fail, connectVars, ConnectExpired, FailsForGood, Final, CleanupSteps
<1>1. CASE ConnectStep
  <2>1. CASE OpenLocal BY <2>1 DEF OpenLocal
  <2>2. CASE OpenLocalFails BY <2>2 DEF OpenLocalFails
  <2>3. CASE Resolve BY <2>3 DEF Resolve
  <2>4. CASE ResolveFails BY <2>4 DEF ResolveFails
  <2>5. CASE Dial BY <2>5 DEF Dial
  <2>6. CASE DialFails BY <2>6, LeaveAddress
  <2>7. CASE DialEnds BY <2>7 DEF DialEnds
  <2>8. CASE Handshake BY <2>8 DEF Handshake
  <2>9. CASE HandshakeAgain BY <2>9 DEF HandshakeAgain
  <2>10. CASE HandshakeFails BY <2>10, HandshakeGivesUp
  <2>11. CASE LoginCall BY <2>11 DEF LoginCall
  <2>12. CASE LoginFails BY <2>12 DEF LoginFails
  <2>13. CASE LoggedIn BY <2>13, EmptySeq DEF LoggedIn
  <2> QED BY <1>1, <2>1, <2>2, <2>3, <2>4, <2>5, <2>6, <2>7, <2>8, <2>9, <2>10, <2>11, <2>12, <2>13
          DEF ConnectStep
<1>2. CASE OperationStep
  <2>1. /\ pc # "done" /\ UNCHANGED <<tried, addresses>>
        /\ \/ pc' \notin Final /\ pc \notin Final /\ result' = result
           \/ pc' \in {"done"} \cup CleanupSteps /\ result'.stage \notin {"connect", "handshake"}
    <3> USE DEF Step, Abandon, untouchedVars, BlockingSteps
    <3>1. CASE OpenRemote BY <3>1 DEF OpenRemote
    <3>2. CASE ReadLocal BY <3>2 DEF ReadLocal
    <3>3. CASE Send BY <3>3 DEF Send
    <3>4. CASE EndOfLocal BY <3>4, EndOfLocalResult
    <3>5. CASE Acknowledge BY <3>5 DEF Acknowledge
    <3>6. CASE Complete
      <4>1. /\ pc = "status" /\ pc' = "done" /\ UNCHANGED <<tried, addresses>>
            /\ result'.stage \in {"done", "complete"}
        BY <3>6 DEF Complete
      <4> QED BY <4>1
    <3>7. CASE OperationFails
      <4>1. Abandon("operation")
        BY <3>7 DEF OperationFails
      <4>2. pc' \in CleanupSteps /\ result'.stage = "operation"
        BY <4>1
      <4> QED BY <3>7, <4>2 DEF OperationFails
    <3>8. CASE Destroy BY <3>8 DEF Destroy
    <3> QED BY <1>2, <3>1, <3>2, <3>3, <3>4, <3>5, <3>6, <3>7, <3>8 DEF OperationStep
  <2> QED BY <2>1
<1>3. CASE NeverAnswered BY <1>3 DEF NeverAnswered, BlockingSteps
<1>4. CASE ServerFault BY <1>4 DEF ServerFault
<1>5. CASE UserEdits BY <1>5 DEF UserEdits
<1>6. CASE UNCHANGED vars BY <1>6 DEF vars
<1> QED BY <1>1, <1>2, <1>3, <1>4, <1>5, <1>6 DEF Next, Finished

\* An address that answers is passed over only when the connection's time is
\* over, or after a handshake that has failed for good: connect() leaves an
\* address only when it refuses or is silent, or to repeat a key exchange, for
\* any number of addresses and retries.
THEOREM NoEarlyGivingUp == Spec => []GivesUpOnlyInTime
<1>1. ASSUME TimeInv, AddressInv PROVE GivesUpOnlyInTime
  <2> SUFFICES ASSUME result.stage \in {"connect", "handshake"}, Contains(tried \o addresses, "answers"),
                      elapsed + TicksPerMilli <= ConnectTimeout
               PROVE  result.stage = "handshake" /\ FailsForGood
    BY DEF GivesUpOnlyInTime, FailsForGood
  <2>1. elapsed \in Nat /\ ConnectTimeout \in Nat /\ TicksPerMilli \in Nat \ {0}
    BY <1>1, UploadAssumption DEF TimeInv, TimeTypes
  <2>2. CASE result.stage = "handshake"
    BY <1>1, <2>1, <2>2 DEF AddressInv
  <2>3. ASSUME result.stage = "connect" PROVE FALSE
    <3>1. tried \o <<>> = tried /\ addresses = <<>>
      BY <1>1, <2>1, <2>3, ConcatEmptySeq DEF AddressInv, ConnectExpired
    <3>2. PICK k \in 1..Len(tried) : tried[k] = "answers"
      BY <3>1 DEF Contains
    <3>3. tried[k] \in {"refuses", "silent"}
      BY <1>1, <3>2, ElementOfSeq DEF AddressInv
    <3> QED BY <3>2, <3>3
  <2> QED BY <2>2, <2>3
<1> QED BY <1>1, TimeInit, TimeStep, AddressInit, AddressStep, UploadAssumption, PTL DEF Spec
================================================================================
