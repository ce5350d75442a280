-------------------------------- MODULE RemoteRun --------------------------------
(***************************************************************************)
(* run: the client executes the command, sends its input and the end of    *)
(* input, reads stdout and stderr in turns until both have ended, waits    *)
(* for the exit status and shows what it read with the secrets masked,     *)
(* line by line as it arrives (--stream) or at the end.                    *)
(*                                                                         *)
(* Output is a sequence of pieces: "a" is ordinary text, "s1" and "s2" the *)
(* halves of a known secret, "b" and "e" the BEGIN and END line of a       *)
(* private key, "k" a line of its body and "nl" a newline.  A read may end *)
(* after any piece.  The masking of keyword=value lines and the filtering  *)
(* of known startup noise look at one line and are left out.               *)
(***************************************************************************)
EXTENDS Naturals, Sequences, SequencesExt

CONSTANTS
  OutScripts, ErrScripts,   \* what the command may print on each stream
  Window,                   \* unread pieces the SSH channel lets through
  OutputLimit               \* pieces of output the client accepts

Streams == {"stdout", "stderr"}
Printable == {"a", "s1", "s2", "b", "e", "k", "nl"}

--------------------------------------------------------------------------------
(***************************************************************************)
(* Masking.                                                                *)
(***************************************************************************)
LineStart(text, i) == i = 1 \/ text[i - 1] = "nl"

LineOf(text, i) == CHOOSE j \in 1..i :
  LineStart(text, j) /\ \A n \in (j + 1)..i : ~LineStart(text, n)

\* Whether the line that starts at i is inside a key: a BEGIN line came before
\* it, or the text began inside a key, and no END line since.
InsideKey(inKey, text, i) ==
  \E j \in 0..(i - 1) :
    /\ IF j = 0 THEN inKey ELSE LineStart(text, j) /\ text[j] = "b"
    /\ \A n \in (j + 1)..(i - 1) : ~(LineStart(text, n) /\ text[n] = "e")

SecretAt(text, i) == 1 <= i /\ i < Len(text) /\ text[i] = "s1" /\ text[i + 1] = "s2"

\* Of a key only its BEGIN line leaves a trace, of a secret one mask.
Survives(inKey, text, i) ==
  LET line == LineOf(text, i)
  IN  /\ ~InsideKey(inKey, text, line)
      /\ IF text[line] = "b" THEN i = line \/ text[i] = "nl" ELSE ~SecretAt(text, i - 1)

\* In a text that was cut short the start of a secret at its end is masked too.
Mask(text, i, partial) ==
  IF text[i] = "b" /\ LineStart(text, i) THEN "masked key"
  ELSE IF SecretAt(text, i) \/ (partial /\ text[i] = "s1" /\ i = Len(text)) THEN "masked"
  ELSE text[i]

Redacted(inKey, text, partial) ==
  LET upTo[i \in 0..Len(text)] ==
        IF i = 0 THEN <<>>
        ELSE IF Survives(inKey, text, i) THEN Append(upTo[i - 1], Mask(text, i, partial))
        ELSE upTo[i - 1]
  IN  upTo[Len(text)]

\* Fault: what has arrived is shown at once, finished lines or not.
PushUnfinished(r, bytes) ==
  [text |-> Redacted(r.inKey, bytes, FALSE),
   rest |-> [pending |-> <<>>, inKey |-> InsideKey(r.inKey, bytes, Len(bytes) + 1)]]

\* Redactor::push shows the lines that are finished and keeps the rest.
Push(r, bytes) ==
  LET all == r.pending \o bytes
      end == SelectLastInSeq(all, LAMBDA x : x = "nl")
      ready == SubSeq(all, 1, end)
  IN  [text |-> Redacted(r.inKey, ready, FALSE),
       rest |-> [pending |-> SubSeq(all, end + 1, Len(all)),
                 inKey |-> InsideKey(r.inKey, ready, end + 1)]]

--------------------------------------------------------------------------------
\* The body of a key is printed inside a key.
ASSUME RunAssumption ==
  /\ \A text \in OutScripts \cup ErrScripts :
       text \in Seq(Printable) /\ \A i \in 1..Len(text) : text[i] = "k" => InsideKey(FALSE, text, i)
  /\ Window \in Nat \ {0} /\ OutputLimit \in Nat

VARIABLES
  script, printed, remote, wantsInput, exitCode,   \* the command (external)
  streaming,              \* --stream
  phase, eofSent, ended,     \* the client; streams whose end it has seen
  got,                    \* what the client has read of each stream
  redactor,               \* of each stream: the unfinished line, inside a key
  shown,                  \* the local output
  status, code

remoteVars == <<script, printed, remote, wantsInput, exitCode, streaming>>
runVars == <<script, printed, remote, wantsInput, exitCode, streaming, phase, eofSent, ended, got,
          redactor, shown, status, code>>

NoCode == 2
Other(st) == IF st = "stdout" THEN "stderr" ELSE "stdout"

RunInit ==
  /\ script \in [Streams -> OutScripts \cup ErrScripts]
  /\ script["stdout"] \in OutScripts /\ script["stderr"] \in ErrScripts
  /\ printed = [st \in Streams |-> 0]
  /\ remote = "none"
  /\ wantsInput \in BOOLEAN
  /\ exitCode = NoCode
  /\ streaming \in BOOLEAN
  /\ phase = "exec"
  /\ eofSent = FALSE /\ ended = {}
  /\ got = [st \in Streams |-> <<>>]
  /\ redactor = [st \in Streams |-> [pending |-> <<>>, inKey |-> FALSE]]
  /\ shown = [st \in Streams |-> <<>>]
  /\ status = "none" /\ code = NoCode

--------------------------------------------------------------------------------
\* Fault: a failed stream shows its partial output a second time.
FinalTextReplayed(st, failed) ==
  IF streaming /\ ~failed
  THEN shown[st] \o Redacted(redactor[st].inKey, redactor[st].pending, failed)
  ELSE shown[st] \o Redacted(FALSE, got[st], failed)

\* All that is shown of a stream at the end of the run.
FinalText(st, failed) ==
  IF streaming
  THEN shown[st] \o Redacted(redactor[st].inKey, redactor[st].pending, failed)
  ELSE Redacted(FALSE, got[st], failed)

--------------------------------------------------------------------------------
(***************************************************************************)
(* The command, behind a channel whose window its streams share.           *)
(***************************************************************************)
Unread(st) == printed[st] - Len(got[st])

clientVars == <<streaming, phase, eofSent, ended, got, redactor, shown, status, code>>

PrintPiece ==
  /\ remote = "running"
  /\ Unread("stdout") + Unread("stderr") < Window
  /\ \E st \in Streams :
       /\ printed[st] < Len(script[st])
       /\ printed' = [printed EXCEPT ![st] = @ + 1]
  /\ UNCHANGED <<script, remote, wantsInput, exitCode, clientVars>>

ReadInput ==
  /\ remote = "running" /\ wantsInput /\ eofSent
  /\ wantsInput' = FALSE
  /\ UNCHANGED <<script, printed, remote, exitCode, clientVars>>

Exit ==
  /\ remote = "running" /\ ~wantsInput
  /\ \A st \in Streams : printed[st] = Len(script[st])
  /\ remote' = "exited"
  /\ exitCode' \in {0, 1}
  /\ UNCHANGED <<script, printed, wantsInput, clientVars>>

\* A signal ends the command, or the connection breaks.
Lost ==
  /\ remote = "running"
  /\ remote' \in {"killed", "broken"}
  /\ UNCHANGED <<script, printed, wantsInput, exitCode, clientVars>>

RemoteStep == PrintPiece \/ ReadInput \/ Exit

--------------------------------------------------------------------------------
(***************************************************************************)
(* The client.                                                             *)
(***************************************************************************)
Conclude(result) ==
  /\ phase' = "done"
  /\ status' = result
  /\ shown' = [st \in Streams |-> FinalText(st, result = "error")]

Exec ==
  /\ phase = "exec"
  /\ phase' = "input"
  /\ remote' = "running"
  /\ UNCHANGED <<script, printed, wantsInput, exitCode, streaming, eofSent, ended, got,
                 redactor, shown, status, code>>

SendInput ==
  /\ phase = "input" /\ remote # "broken"
  /\ phase' = "stdout"
  /\ eofSent' = TRUE
  /\ UNCHANGED <<remoteVars, ended, got, redactor, shown, status, code>>

Arrived(st, n) == SubSeq(script[st], Len(got[st]) + 1, Len(got[st]) + n)

\* Fault: each stream has a limit of its own.
FitsAlone(st, n) == Len(got[st]) + n <= OutputLimit

Fits(st, n) == Len(got[st]) + Len(got[Other(st)]) + n <= OutputLimit

\* append_output_bounded and, with --stream, Writer::push.
ReadStream(st) ==
  /\ phase = st /\ st \notin ended
  /\ \E n \in 1..Unread(st) :
       /\ Fits(st, n)
       /\ got' = [got EXCEPT ![st] = @ \o Arrived(st, n)]
       /\ IF streaming
          THEN LET pushed == Push(redactor[st], Arrived(st, n))
               IN  /\ shown' = [shown EXCEPT ![st] = @ \o pushed.text]
                   /\ redactor' = [redactor EXCEPT ![st] = pushed.rest]
          ELSE UNCHANGED <<shown, redactor>>
  /\ phase' = Other(st)
  /\ UNCHANGED <<remoteVars, eofSent, ended, status, code>>

OverLimit(st) ==
  /\ phase = st /\ st \notin ended
  /\ \E n \in 1..Unread(st) : ~Fits(st, n)
  /\ Conclude("error")
  /\ UNCHANGED <<remoteVars, eofSent, ended, got, redactor, code>>

\* The local output is closed: what was just read is not shown.  The rest of
\* stdout is written before that of stderr.
SinkFails(st) ==
  /\ phase = st /\ st \notin ended /\ streaming
  /\ \E n \in 1..Unread(st) :
       /\ Fits(st, n)
       /\ got' = [got EXCEPT ![st] = @ \o Arrived(st, n)]
  /\ shown' = IF st = "stderr" THEN [shown EXCEPT !["stdout"] = FinalText("stdout", TRUE)]
                              ELSE shown
  /\ phase' = "done" /\ status' = "error"
  /\ UNCHANGED <<remoteVars, eofSent, ended, redactor, code>>

\* Fault: stdout is read to its end before stderr is looked at.
NextStreamInOrder(st) ==
  phase' = IF st = "stdout" /\ st \notin ended' THEN st
        ELSE IF ended' = Streams THEN "close" ELSE "stderr"

\* The loop ends when, after the turn of stderr, both have ended.
NextStream(st) ==
  phase' = IF st = "stderr" /\ ended' = Streams THEN "close" ELSE Other(st)

\* Nothing has arrived.
WouldBlock(st) ==
  /\ phase = st
  /\ st \in ended \/ (Unread(st) = 0 /\ remote = "running")
  /\ UNCHANGED ended
  /\ NextStream(st)
  /\ UNCHANGED <<remoteVars, eofSent, got, redactor, shown, status, code>>

EndOfStream(st) ==
  /\ phase = st /\ st \notin ended
  /\ Unread(st) = 0 /\ remote \in {"exited", "killed"}
  /\ ended' = ended \cup {st}
  /\ NextStream(st)
  /\ UNCHANGED <<remoteVars, eofSent, got, redactor, shown, status, code>>

\* Fault: the exit status is taken although a signal ended the command.
CompleteUnchecked ==
  /\ phase = "close" /\ remote \in {"exited", "killed"}
  /\ code' = IF remote = "exited" THEN exitCode ELSE 0
  /\ Conclude("ok")
  /\ UNCHANGED <<remoteVars, eofSent, ended, got, redactor>>

\* wait_close, and neither a signal nor a local output that cannot be written.
Complete ==
  /\ phase = "close" /\ remote = "exited"
  /\ code' = exitCode
  /\ Conclude("ok")
  /\ UNCHANGED <<remoteVars, eofSent, ended, got, redactor>>

LastWriteFails ==
  /\ phase = "close" /\ remote = "exited" /\ streaming
  /\ shown' \in {shown, [shown EXCEPT !["stdout"] = FinalText("stdout", FALSE)]}
  /\ phase' = "done" /\ status' = "error"
  /\ UNCHANGED <<remoteVars, eofSent, ended, got, redactor, code>>

SshFails ==
  /\ \/ remote = "broken" /\ phase \in Streams \cup {"input", "close"}
     \/ remote = "killed" /\ phase = "close"
  /\ Conclude("error")
  /\ UNCHANGED <<remoteVars, eofSent, ended, got, redactor, code>>

\* The operation timeout, which the user may have disabled.
Timeout ==
  /\ phase # "done"
  /\ Conclude("error")
  /\ UNCHANGED <<remoteVars, eofSent, ended, got, redactor, code>>

ClientStep ==
  \/ Exec \/ SendInput
  \/ \E st \in Streams : ReadStream(st) \/ OverLimit(st) \/ WouldBlock(st) \/ EndOfStream(st)
  \/ Complete \/ SshFails

Done == phase = "done" /\ UNCHANGED runVars

RunNext ==
  \/ RemoteStep \/ Lost
  \/ ClientStep
  \/ \E st \in Streams : SinkFails(st)
  \/ LastWriteFails \/ Timeout
  \/ Done

RunSpec == RunInit /\ [][RunNext]_runVars

\* The client polls, and the command goes on unless the channel holds it up.
RunFairSpec == RunSpec /\ WF_runVars(RemoteStep) /\ WF_runVars(ClientStep)

--------------------------------------------------------------------------------
(***************************************************************************)
(* Properties.                                                             *)
(***************************************************************************)
\* Neither a known secret nor the body of a key is shown, however the output
\* is cut into reads, nor the start of a secret where a failed run cut it off.
SecretsHidden ==
  \A st \in Streams :
    LET text == shown[st] IN
    /\ ~Contains(text, "k")
    /\ \A i \in 2..Len(text) : <<text[i - 1], text[i]>> # <<"s1", "s2">>
    /\ status = "error" /\ text # <<>> => Last(text) # "s1" \/ ended = Streams

\* A successful run shows all the command printed, the same with --stream as
\* without, and the exit code of a command that ended by itself; a failed run
\* shows, once, a beginning of it. Neither needs more room than the limit.
OutputIsTheCommands ==
  /\ Len(got["stdout"]) + Len(got["stderr"]) <= OutputLimit
  /\ status = "ok" =>
       /\ remote = "exited" /\ code = exitCode
       /\ \A st \in Streams : shown[st] = Redacted(FALSE, script[st], FALSE)
  /\ status = "error" =>
       \A st \in Streams : \E n \in 0..printed[st], cut \in BOOLEAN :
         shown[st] = Redacted(FALSE, SubSeq(script[st], 1, n), cut)

\* The run returns also without a timeout, whatever the command prints on which
\* stream and whether it reads its input to the end or not.
RunReturns == <>(phase = "done")
================================================================================
