------------------------------ MODULE PlainUpload ------------------------------
(***************************************************************************)
(* put without --atomic: the connection (resolver, addresses, handshake    *)
(* and its retries, login) and the upload over scp, under the deadlines of *)
(* both (ssh/ssh2_client.rs).                                              *)
(*                                                                         *)
(* Time is counted in ticks, TicksPerMilli to a millisecond. A blocking    *)
(* call of the SSH library ends within the timeout it is given, in         *)
(* milliseconds, and 0 is no timeout. A file is a sequence of bytes; its   *)
(* path may be given to another file, and its bytes may change, at any     *)
(* time. The server writes into the destination as the bytes arrive.       *)
(***************************************************************************)
EXTENDS Naturals, Sequences, SequencesExt

CONSTANTS
  ConnectTimeout, OperationTimeouts, NoTimeout, TicksPerMilli,
  Resolutions,     \* what the resolver can answer: sequences of addresses
  KexRetries,      \* handshakes repeated after a failed key exchange (Windows)
  Logins,          \* calls that a login takes at most
  Contents,        \* what a local file may hold
  Buffer, MaxEdits,
  Old              \* the destination before

Byte == UNION {Range(c) : c \in Contents}

ASSUME UploadAssumption ==
  /\ Contents \subseteq Seq(Byte)
  /\ ConnectTimeout \in Nat \ {0} /\ TicksPerMilli \in Nat \ {0}
  /\ OperationTimeouts \subseteq (Nat \ {0}) \cup {NoTimeout}
  /\ NoTimeout \notin Nat
  /\ KexRetries \in Nat /\ Logins \in Nat /\ Buffer \in Nat \ {0}

VARIABLES
  timeout,     \* --timeout, or NoTimeout for 0
  pc,
  elapsed,     \* time since the connection, or the operation, began
  addresses,   \* the addresses still to be tried, as they behave
  tried,       \* addresses that were tried
  retries,     \* handshakes that may be repeated
  session,     \* the session's timeout in milliseconds, as it was last set
  logins,      \* calls of the login so far
  path,        \* the content of the file at the local path
  source,      \* the content of the opened file; it may be another file by now
  size,        \* its size when it was opened
  copied, buffer,
  versions,    \* contents the opened file has had
  remote, fault,
  result, edits

connectVars == <<addresses, tried, retries, session, logins>>
localVars == <<path, source, versions, edits>>
copyVars == <<size, copied, buffer>>
vars == <<timeout, pc, elapsed, connectVars, localVars, copyVars, remote, fault, result>>

Init ==
  /\ timeout \in OperationTimeouts
  /\ pc = "local" /\ elapsed = 0
  /\ addresses = <<>> /\ tried = <<>> /\ retries = 0 /\ session = 0 /\ logins = 0
  /\ path \in Contents /\ source = <<>> /\ versions = {}
  /\ size = 0 /\ copied = 0 /\ buffer = <<>>
  /\ remote = Old /\ fault = FALSE
  /\ result = [status |-> "none", stage |-> "none"] /\ edits = 0

Goto(from, to) == pc = from /\ pc' = to
Fail(stage) == pc' = "done" /\ result' = [status |-> "error", stage |-> stage]

--------------------------------------------------------------------------------
(***************************************************************************)
(* Deadlines.                                                              *)
(***************************************************************************)
\* Fault: less than a millisecond is rounded to none.
MillisRounded(ticks) == ticks \div TicksPerMilli
Millis(ticks) == IF ticks < TicksPerMilli THEN 1 ELSE ticks \div TicksPerMilli

\* The times a call can take under a timeout in milliseconds.
CallTimes(millis) == 0..(millis * TicksPerMilli)
Takes(times) == \E d \in times : elapsed' = elapsed + d

ConnectExpired == elapsed >= ConnectTimeout
ConnectRemaining == ConnectTimeout - elapsed

\* Fault: every step of the operation has all of its time.
OperationRemainingRenewed == timeout
OperationRemaining == timeout - elapsed
OperationExpired == timeout # NoTimeout /\ elapsed >= timeout
OperationMillis == IF timeout = NoTimeout THEN 0 ELSE Millis(OperationRemaining)

--------------------------------------------------------------------------------
(***************************************************************************)
(* The connection.                                                         *)
(***************************************************************************)
\* The local file is opened first, and stays open.
OpenLocal ==
  /\ Goto("local", "resolve")
  /\ source' = path /\ versions' = {path} /\ size' = Len(path)
  /\ UNCHANGED <<timeout, elapsed, connectVars, path, edits, copied, buffer, remote, fault, result>>

OpenLocalFails ==
  /\ pc = "local" /\ Fail("local")
  /\ UNCHANGED <<timeout, elapsed, connectVars, localVars, copyVars, remote, fault>>

\* A thread resolves the name; the client waits for it until the deadline.
Resolve ==
  /\ Goto("resolve", "dial")
  /\ Takes(0..(ConnectTimeout - 1))
  /\ addresses' \in Resolutions /\ retries' = KexRetries
  /\ UNCHANGED <<timeout, tried, session, logins, localVars, copyVars, remote, fault, result>>

ResolveFails ==
  /\ pc = "resolve" /\ Fail("resolve")
  /\ Takes(0..ConnectTimeout)
  /\ UNCHANGED <<timeout, connectVars, localVars, copyVars, remote, fault>>

\* Fault: the first address that cannot be reached ends the connection.
NextAddressNone ==
  /\ Fail("connect") /\ UNCHANGED <<addresses, tried, retries>>
\* On to the next address.
NextAddress ==
  /\ pc' = "dial" /\ UNCHANGED result
  /\ addresses' = Tail(addresses) /\ tried' = Append(tried, Head(addresses))
  /\ retries' = KexRetries

\* An address that refuses is left at once or later, a silent one when no time
\* is left. Each may use all of it.
DialFails ==
  /\ pc = "dial" /\ addresses # <<>> /\ ~ConnectExpired
  /\ \/ Head(addresses) = "refuses" /\ Takes(0..ConnectRemaining)
     \/ Head(addresses) = "silent" /\ Takes({ConnectRemaining})
  /\ NextAddress
  /\ UNCHANGED <<timeout, session, logins, localVars, copyVars, remote, fault>>

Dial ==
  /\ Goto("dial", "handshake")
  /\ addresses # <<>> /\ ~ConnectExpired
  /\ Head(addresses) \notin {"refuses", "silent"}
  /\ Takes(0..ConnectRemaining)
  /\ UNCHANGED <<timeout, connectVars, localVars, copyVars, remote, fault, result>>

\* No address is left, or no time.
DialEnds ==
  /\ pc = "dial" /\ (addresses = <<>> \/ ConnectExpired)
  /\ Fail(IF addresses = <<>> /\ tried = <<>> THEN "resolve" ELSE "connect")
  /\ UNCHANGED <<timeout, elapsed, connectVars, localVars, copyVars, remote, fault>>

Handshake ==
  /\ Goto("handshake", "login")
  /\ ~ConnectExpired /\ Head(addresses) \in {"answers", "unsteady"}
  /\ session' = Millis(ConnectRemaining)
  /\ Takes(CallTimes(session'))
  /\ UNCHANGED <<timeout, addresses, tried, retries, logins, localVars, copyVars, remote, fault, result>>

\* A failed key exchange is repeated on a new connection while retries are left.
HandshakeAgain ==
  /\ Goto("handshake", "dial")
  /\ ~ConnectExpired /\ Head(addresses) = "unsteady" /\ retries > 0
  /\ retries' = retries - 1
  /\ Takes(CallTimes(Millis(ConnectRemaining)))
  /\ UNCHANGED <<timeout, addresses, tried, session, logins, localVars, copyVars, remote, fault, result>>

\* Fault: the first failed key exchange is final.
FailsForGoodAtOnce == Head(addresses) \in {"foreign", "unsteady"}
\* Any failure but that of a key exchange with retries left is final, also when
\* another address would answer. A foreign address is no SSH server's.
FailsForGood ==
  \/ Head(addresses) = "foreign"
  \/ Head(addresses) = "unsteady" /\ retries = 0

\* The handshake fails by itself, or has not ended when its time is up.
HandshakeFails ==
  /\ pc = "handshake" /\ Fail("handshake")
  /\ \/ ConnectExpired /\ UNCHANGED elapsed
     \/ ~ConnectExpired /\ FailsForGood /\ Takes(CallTimes(Millis(ConnectRemaining)))
     \/ ~ConnectExpired /\ Takes({Millis(ConnectRemaining) * TicksPerMilli})
  /\ UNCHANGED <<timeout, connectVars, localVars, copyVars, remote, fault>>

\* The host key is verified (see HostTrust) and the login made in one or more
\* calls, each with the timeout the session has from its handshake.
LoginCall ==
  /\ pc = "login" /\ logins < Logins
  /\ logins' = logins + 1
  /\ Takes(CallTimes(session))
  /\ UNCHANGED <<timeout, pc, addresses, tried, retries, session, localVars, copyVars, remote, fault, result>>

LoginFails ==
  /\ pc = "login" /\ Fail("login")
  /\ UNCHANGED <<timeout, elapsed, connectVars, localVars, copyVars, remote, fault>>

\* The connection is made: nothing but its session is left of it, which gets
\* the timeout of the operation. The operation has its own deadline.
LoggedIn ==
  /\ Goto("login", "open")
  /\ logins > 0
  /\ elapsed' = 0
  /\ session' = IF timeout = NoTimeout THEN 0 ELSE Millis(timeout)
  /\ addresses' = <<>> /\ tried' = <<>> /\ retries' = 0 /\ logins' = 0
  /\ UNCHANGED <<timeout, localVars, copyVars, remote, fault, result>>

ConnectStep ==
  \/ OpenLocal \/ OpenLocalFails \/ Resolve \/ ResolveFails \/ Dial \/ DialFails \/ DialEnds
  \/ Handshake \/ HandshakeAgain \/ HandshakeFails \/ LoginCall \/ LoginFails \/ LoggedIn

--------------------------------------------------------------------------------
(***************************************************************************)
(* The upload.                                                             *)
(***************************************************************************)
BlockingSteps == {"open", "send", "ack", "eof", "await eof", "close", "await close"}
CleanupSteps == {"destroy channel", "destroy session"}
untouchedVars == <<timeout, addresses, tried, retries, logins>>

\* The session gets what is left of the deadline for its next call.
ApplyDeadline == ~OperationExpired /\ session' = OperationMillis
\* A step of the operation that is answered in time.
Step(from, to) == Goto(from, to) /\ ApplyDeadline /\ Takes(CallTimes(session'))

\* An error ends the operation. Channel and session are destroyed on the way,
\* a channel that is not open yet with the session.
Abandon(stage) ==
  /\ pc' = IF pc = "open" THEN "destroy session" ELSE "destroy channel"
  /\ result' = [status |-> "error", stage |-> stage]

\* The remote scp creates or truncates the destination.
OpenRemote ==
  /\ Step("open", "read")
  /\ remote' = IF fault THEN remote ELSE <<>>
  /\ UNCHANGED <<untouchedVars, localVars, copyVars, fault, result>>

Wanted == IF size - copied < Buffer THEN size - copied ELSE Buffer

\* Up to a buffer of what the file holds now, and never more than announced.
ReadLocal ==
  /\ pc = "read" /\ copied < size /\ Len(source) > copied
  /\ ApplyDeadline
  /\ pc' = "send"
  /\ \E n \in 1..Wanted :
       /\ copied + n <= Len(source)
       /\ buffer' = SubSeq(source, copied + 1, copied + n)
       /\ copied' = copied + n
  /\ UNCHANGED <<untouchedVars, elapsed, localVars, size, remote, fault, result>>

\* A part of the buffer is taken; it arrives in order.
Send ==
  \E n \in 1..Len(buffer) :
    /\ Step("send", IF n = Len(buffer) THEN "read" ELSE "send")
    /\ buffer' = SubSeq(buffer, n + 1, Len(buffer))
    /\ remote' = IF fault THEN remote ELSE remote \o SubSeq(buffer, 1, n)
    /\ UNCHANGED <<untouchedVars, localVars, size, copied, fault, result>>

\* All is read, or the file has ended before.
LocalHasEnded ==
  \/ copied >= size /\ UNCHANGED session
  \/ copied < size /\ Len(source) <= copied /\ ApplyDeadline

\* Fault: whatever was read is an upload.
EndOfLocalTrusting ==
  /\ Goto("read", "ack") /\ LocalHasEnded
  /\ UNCHANGED <<untouchedVars, elapsed, localVars, copyVars, remote, fault, result>>

\* A file that was cut short is not an upload.
EndOfLocal ==
  /\ pc = "read" /\ LocalHasEnded
  /\ IF copied = size THEN pc' = "ack" /\ UNCHANGED result ELSE Abandon("send")
  /\ UNCHANGED <<untouchedVars, elapsed, localVars, copyVars, remote, fault>>

Acknowledge ==
  /\ \/ Step("ack", "eof") \/ Step("eof", "await eof") \/ Step("await eof", "close")
     \/ Step("close", "await close") \/ Step("await close", "status")
  /\ UNCHANGED <<untouchedVars, localVars, copyVars, remote, fault, result>>

\* Fault: the signal and the status of the remote scp are not looked at.
CompletionUnchecked == TRUE
\* A remote scp that could not keep the file says so by its status or a signal.
CompletionOk == ~fault

Complete ==
  /\ pc = "status"
  /\ IF CompletionOk THEN pc' = "done" /\ result' = [status |-> "ok", stage |-> "done"]
     ELSE Fail("complete")
  /\ UNCHANGED <<timeout, elapsed, connectVars, localVars, copyVars, remote, fault>>

\* A step fails, or the deadline has passed, before the step or during it.
OperationFails ==
  /\ pc \in BlockingSteps \cup {"read"}
  /\ Abandon("operation")
  /\ \/ OperationExpired /\ UNCHANGED <<session, elapsed>>
     \/ ApplyDeadline /\ IF pc = "read" THEN UNCHANGED elapsed ELSE Takes(CallTimes(session'))
  /\ remote' \in (IF pc = "open" THEN {remote, <<>>} ELSE {remote})
  /\ UNCHANGED <<untouchedVars, localVars, copyVars, fault>>

\* What is destroyed awaits the server's close, for as long as the last call
\* could take.
Destroy ==
  /\ Goto("destroy channel", "destroy session") \/ Goto("destroy session", "done")
  /\ Takes(CallTimes(session))
  /\ UNCHANGED <<untouchedVars, session, localVars, copyVars, remote, fault, result>>

OperationStep ==
  \/ OpenRemote \/ ReadLocal \/ Send \/ EndOfLocal \/ Acknowledge \/ Complete
  \/ OperationFails \/ Destroy

--------------------------------------------------------------------------------
(***************************************************************************)
(* The server and the user.                                                *)
(***************************************************************************)
CallMillis ==
  CASE pc = "handshake" -> Millis(ConnectRemaining)
    [] pc \in {"login"} \cup CleanupSteps -> session
    [] OTHER -> OperationMillis
\* A call without a timeout may never be answered.
NeverAnswered ==
  /\ pc \in BlockingSteps \cup CleanupSteps \cup {"handshake", "login"} /\ CallMillis = 0
  /\ pc' = "stuck"
  /\ UNCHANGED <<timeout, elapsed, connectVars, localVars, copyVars, remote, fault, result>>

\* The remote scp cannot keep what comes.
ServerFault ==
  /\ pc \in BlockingSteps \cup {"read"} /\ ~fault
  /\ fault' = TRUE
  /\ UNCHANGED <<timeout, pc, elapsed, connectVars, localVars, copyVars, remote, result>>

\* The user puts another file at the path, or writes into the opened one.
UserEdits ==
  /\ edits < MaxEdits /\ edits' = edits + 1 /\ pc \notin {"done", "stuck"}
  /\ \/ path' \in Contents \ {path} /\ UNCHANGED <<source, versions>>
     \/ /\ pc # "local"
        /\ source' \in Contents \ {source} /\ versions' = versions \cup {source'}
        /\ UNCHANGED path
  /\ UNCHANGED <<timeout, pc, elapsed, connectVars, copyVars, remote, fault, result>>

Finished == pc \in {"done", "stuck"} /\ UNCHANGED vars

Next == ConnectStep \/ OperationStep \/ NeverAnswered \/ ServerFault \/ UserEdits \/ Finished

Spec == Init /\ [][Next]_vars

\* The client goes on, and its calls end within their timeouts.
FairSpec == Spec /\ WF_vars(ConnectStep \/ OperationStep)

--------------------------------------------------------------------------------
(***************************************************************************)
(* Properties.                                                             *)
(***************************************************************************)
\* A successful put has left as many bytes at the destination as it announced,
\* each of them a byte of the file it opened, at its place, at some moment
\* since: another file at the path, a longer or a shorter one is never sent.
UploadIsWhole ==
  result.status = "ok" =>
    /\ Len(remote) = size
    /\ \A k \in 1..size : \E v \in versions : k <= Len(v) /\ v[k] = remote[k]

\* Resolver, addresses, handshakes and their retries share one deadline, and so
\* do the steps of the operation, however much progress is made; a step that
\* starts in time ends at most a millisecond late. A login has the rest of the
\* connection's time for each call. An operation that fails is late by what it
\* takes to destroy channel and session: up to twice the time of a call, so that
\* its error comes within three times the timeout.
ReturnsInTime ==
  /\ pc \in {"resolve", "dial", "handshake"} \/ result.stage \in {"resolve", "connect", "handshake"}
       => elapsed < ConnectTimeout + TicksPerMilli
  /\ pc = "login" \/ result.stage = "login"
       => elapsed < (ConnectTimeout + TicksPerMilli) * (1 + Logins)
  /\ timeout # NoTimeout =>
       /\ pc \in BlockingSteps \cup {"read", "status"} \/ result.stage \in {"complete", "done"}
            => elapsed < timeout + TicksPerMilli
       /\ result.stage \in {"operation", "send"} => elapsed < 3 * (timeout + TicksPerMilli)

\* While a millisecond of its time is left, the client passes over an address
\* that answers for one reason only: the address it has reached before that
\* one fails its handshake, and not in a key exchange with retries left. None
\* that refuses or is silent ends the connection early.
GivesUpOnlyInTime ==
  /\ result.stage \in {"connect", "handshake"}
  /\ Contains(tried \o addresses, "answers")
  /\ elapsed + TicksPerMilli <= ConnectTimeout
  => /\ result.stage = "handshake"
     /\ \/ Head(addresses) = "foreign"
        \/ Head(addresses) = "unsteady" /\ retries = 0

\* With an operation timeout the command returns, whatever the server does; no
\* deadline that is nearly over is taken for none.
PutReturns == timeout # NoTimeout ~> pc = "done"
================================================================================
