------------------------------- MODULE SuSession -------------------------------
(***************************************************************************)
(* run --as-root over su: the client reads the merged output of a PTY in   *)
(* chunks of any size, types the password once when it sees the prompt,    *)
(* closes the input and takes the command's output and exit code from      *)
(* between the markers the remote wrapper prints.  The remote side (su,    *)
(* the terminal and the command, external) prints a banner, may ask for    *)
(* the password, may discard what was typed before it asked, and runs the  *)
(* command, which may read its input to the end and may be killed.         *)
(*                                                                         *)
(* Output is a sequence of pieces: "line" is a complete line, "mention"    *)
(* the start of a line that so far looks like a prompt, "rest" its end,    *)
(* "ask" a prompt, of su or of the command.                                *)
(***************************************************************************)
EXTENDS Naturals, Sequences, SequencesExt

CONSTANTS
  Banners,      \* what may be printed before su asks
  OutputLimit,  \* pieces of output the client accepts
  MaxPrinted    \* bound: pieces of output the command prints

ASSUME SuAssumption ==
  /\ Banners \subseteq Seq({"line", "mention", "rest"})
  /\ OutputLimit \in Nat /\ MaxPrinted \in Nat

VARIABLES
  wire,      \* printed and not read yet
  tty,       \* typed and not read yet
  remote, banner, asks, flushes, accepts, wantsInput,   \* the remote side
  printed, exitCode, prompted, leaked,                  \* what it did
  out, pc, injected, inputClosed, commandStarted,       \* the client
  result

remoteVars == <<remote, banner, asks, flushes, accepts, wantsInput, printed, exitCode,
                prompted, leaked>>
clientVars == <<out, pc, injected, inputClosed, commandStarted, result>>
vars == <<wire, tty, remote, banner, asks, flushes, accepts, wantsInput, printed, exitCode,
          prompted, leaked, out, pc, injected, inputClosed, commandStarted, result>>

EndMarks == {"end0", "end1"}
CodeOf(mark) == IF mark = "end0" THEN 0 ELSE 1
NoCode == 2

NoResult == [status |-> "none", stdout |-> <<>>, code |-> NoCode]
Failed(status) == [NoResult EXCEPT !.status = status]

Init ==
  /\ wire = <<>> /\ tty = <<>> /\ out = <<>> /\ printed = <<>>
  /\ remote = "banner"
  /\ banner \in Banners
  /\ asks \in BOOLEAN /\ flushes \in BOOLEAN /\ accepts \in BOOLEAN /\ wantsInput \in BOOLEAN
  /\ exitCode = NoCode
  /\ prompted = FALSE /\ leaked = FALSE
  /\ pc = "read"
  /\ injected = FALSE /\ inputClosed = FALSE /\ commandStarted = FALSE
  /\ result = NoResult

--------------------------------------------------------------------------------
(***************************************************************************)
(* The remote side.                                                        *)
(***************************************************************************)
Prints(piece) == wire' = Append(wire, piece)

PrintBanner ==
  /\ remote = "banner" /\ banner # <<>>
  /\ Prints(Head(banner))
  /\ banner' = Tail(banner)
  /\ UNCHANGED <<tty, remote, asks, flushes, accepts, wantsInput, printed, exitCode,
                 prompted, leaked, clientVars>>

Ask ==
  /\ remote = "banner" /\ banner = <<>> /\ asks
  /\ Prints("ask")
  /\ remote' = "asked"
  /\ prompted' = TRUE
  /\ tty' = IF flushes THEN <<>> ELSE tty
  /\ UNCHANGED <<banner, asks, flushes, accepts, wantsInput, printed, exitCode,
                 leaked, clientVars>>

Answered ==
  /\ remote = "asked" /\ tty # <<>>
  /\ tty' = Tail(tty)
  /\ Prints("line")
  /\ remote' = IF Head(tty) = "password" /\ accepts THEN "login" ELSE "ended"
  /\ UNCHANGED <<banner, asks, flushes, accepts, wantsInput, printed, exitCode,
                 prompted, leaked, clientVars>>

Begin ==
  /\ remote = "login" \/ (remote = "banner" /\ banner = <<>> /\ ~asks)
  /\ Prints("begin")
  /\ remote' = "command"
  /\ UNCHANGED <<tty, banner, asks, flushes, accepts, wantsInput, printed, exitCode,
                 prompted, leaked, clientVars>>

CommandPrints ==
  /\ remote = "command"
  /\ Len(printed) < MaxPrinted
  /\ \E piece \in {"line", "ask"} : Prints(piece) /\ printed' = Append(printed, piece)
  /\ UNCHANGED <<tty, remote, banner, asks, flushes, accepts, wantsInput, exitCode,
                 prompted, leaked, clientVars>>

CommandReads ==
  /\ remote = "command" /\ wantsInput /\ tty # <<>>
  /\ tty' = Tail(tty)
  /\ wantsInput' = (Head(tty) # "eof")
  /\ leaked' = (leaked \/ Head(tty) = "password")
  /\ UNCHANGED <<wire, remote, banner, asks, flushes, accepts, printed, exitCode,
                 prompted, clientVars>>

CommandExits ==
  /\ remote = "command" /\ ~wantsInput
  /\ \E mark \in EndMarks : Prints(mark) /\ exitCode' = CodeOf(mark)
  /\ remote' = "ended"
  /\ UNCHANGED <<tty, banner, asks, flushes, accepts, wantsInput, printed, prompted,
                 leaked, clientVars>>

Killed ==
  /\ remote \in {"banner", "asked", "login", "command"}
  /\ remote' = "ended"
  /\ UNCHANGED <<wire, tty, banner, asks, flushes, accepts, wantsInput, printed, exitCode,
                 prompted, leaked, clientVars>>

RemoteStep ==
  PrintBanner \/ Ask \/ Answered \/ Begin \/ CommandPrints \/ CommandReads \/ CommandExits

--------------------------------------------------------------------------------
(***************************************************************************)
(* The client.                                                             *)
(***************************************************************************)
End(from, outcome) ==
  /\ pc = from
  /\ pc' = "done"
  /\ result' = outcome

\* The last line read is not terminated, mentions a password and ends in a colon.
OutputHasPasswordPrompt == out # <<>> /\ Last(out) \in {"ask", "mention"}

Read ==
  /\ pc = "read"
  /\ \E n \in 1..Len(wire) :
       /\ Len(out) + n <= OutputLimit
       /\ out' = out \o SubSeq(wire, 1, n)
       /\ wire' = SubSeq(wire, n + 1, Len(wire))
  /\ commandStarted' = (commandStarted \/ Contains(out', "begin"))
  /\ pc' = "respond"
  /\ UNCHANGED <<tty, remoteVars, injected, inputClosed, result>>

ReadTooMuch ==
  /\ End("read", Failed("ssh"))
  /\ Len(out) + Len(wire) > OutputLimit
  /\ UNCHANGED <<wire, tty, remoteVars, out, injected, inputClosed, commandStarted>>

\* Fault: a prompt is a prompt, whoever asks.
ShouldInjectAnywhere == ~injected /\ OutputHasPasswordPrompt

ShouldInject == ~injected /\ ~commandStarted /\ OutputHasPasswordPrompt

\* Fault: the end of input is sent on the channel only, which a terminal ignores.
CloseChannelOnly ==
  /\ pc = "respond"
  /\ ~inputClosed /\ (ShouldInject \/ commandStarted)
  /\ tty' = tty \o (IF ShouldInject THEN <<"password">> ELSE <<>>)
  /\ injected' = (injected \/ ShouldInject)
  /\ inputClosed' = TRUE
  /\ pc' = "read"
  /\ UNCHANGED <<wire, remoteVars, out, commandStarted, result>>

\* The one exchange of input: the password if su asks, then the end of input.
CloseInput ==
  /\ pc = "respond"
  /\ ~inputClosed /\ (ShouldInject \/ commandStarted)
  /\ tty' = tty \o (IF ShouldInject THEN <<"password">> ELSE <<>>) \o <<"eof">>
  /\ injected' = (injected \/ ShouldInject)
  /\ inputClosed' = TRUE
  /\ pc' = "read"
  /\ UNCHANGED <<wire, remoteVars, out, commandStarted, result>>

NothingToType ==
  /\ pc = "respond"
  /\ inputClosed \/ ~(ShouldInject \/ commandStarted)
  /\ pc' = "read"
  /\ UNCHANGED <<wire, tty, remoteVars, out, injected, inputClosed,
                 commandStarted, result>>

\* Thirty seconds without a prompt that was recognized or a command that began.
PromptTimeout ==
  /\ End("read", Failed("ssh"))
  /\ ~commandStarted
  /\ UNCHANGED <<wire, tty, remoteVars, out, injected, inputClosed, commandStarted>>

\* The operation timeout, which the user may have disabled, or a broken session.
Abort ==
  /\ \E at \in {"read", "respond", "finish"} : End(at, Failed("ssh"))
  /\ UNCHANGED <<wire, tty, remoteVars, out, injected, inputClosed, commandStarted>>

\* Fault: what was printed last is not read.
EndWithSu ==
  /\ pc = "read" /\ remote = "ended"
  /\ pc' = "finish"
  /\ UNCHANGED <<wire, tty, remoteVars, out, injected, inputClosed, commandStarted, result>>

EndOfOutput ==
  /\ pc = "read" /\ remote = "ended" /\ wire = <<>>
  /\ pc' = "finish"
  /\ UNCHANGED <<wire, tty, remoteVars, out, injected, inputClosed,
                 commandStarted, result>>

BeginMark == SelectInSeq(out, LAMBDA piece : piece = "begin")
EndMark == SelectInSeq(out, LAMBDA piece : piece \in EndMarks)

\* Fault: without an end marker the channel's exit status, 0, is taken.
ExtractTrustingStatus ==
  IF BeginMark = 0 THEN Failed("auth")
  ELSE IF EndMark = 0
       THEN [status |-> "ok", stdout |-> SubSeq(out, BeginMark + 1, Len(out)), code |-> 0]
       ELSE [status |-> "ok", stdout |-> SubSeq(out, BeginMark + 1, EndMark - 1),
             code |-> CodeOf(out[EndMark])]

ExtractSuOutput ==
  IF BeginMark = 0 THEN Failed("auth")
  ELSE IF EndMark = 0 THEN Failed("ssh")
  ELSE [status |-> "ok", stdout |-> SubSeq(out, BeginMark + 1, EndMark - 1),
        code |-> CodeOf(out[EndMark])]

Finish ==
  /\ End("finish", ExtractSuOutput)
  /\ UNCHANGED <<wire, tty, remoteVars, out, injected, inputClosed, commandStarted>>

ClientStep ==
  Read \/ ReadTooMuch \/ CloseInput \/ NothingToType \/ PromptTimeout \/ EndOfOutput \/ Finish

Done == pc = "done" /\ UNCHANGED vars

Next == RemoteStep \/ Killed \/ ClientStep \/ Abort \/ Done

Spec == Init /\ [][Next]_vars

\* The client keeps polling, and the command ends unless it waits for input.
FairSpec == Spec /\ WF_vars(RemoteStep) /\ WF_vars(ClientStep)

--------------------------------------------------------------------------------
(***************************************************************************)
(* Properties.                                                             *)
(***************************************************************************)
\* The command reads the password from its input only if the banner has a line
\* whose start looks like a prompt, so that the client may have been misled to
\* type it before su asks (TypedOnlyAtPrompt); never otherwise, whether su asks
\* for it or not and however the output is cut into reads.
LeaksOnlyIfMisled == leaked => Contains(out, "mention")

\* What the caller is told is so: a result is the command's own, all that it
\* printed and nothing else, with the code it exited with; and an authentication
\* failure is reported only if the command never began, so that it may be tried
\* again.
OutcomeIsTrue ==
  /\ result.status = "ok" => result.stdout = printed /\ result.code = exitCode
  /\ result.status = "auth" =>
       remote = "ended" /\ printed = <<>> /\ exitCode = NoCode /\ ~Contains(out, "begin")

\* The client returns, even from a su whose prompt it does not see and from a
\* command that reads its input to the end.
SuReturns == <>(pc = "done")

\* What the comment on output_has_password_prompt says: the password is not
\* typed before su asks for it.
TypedOnlyAtPrompt == injected => prompted
================================================================================
