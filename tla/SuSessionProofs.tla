----------------------------- MODULE SuSessionProofs -----------------------------
(***************************************************************************)
(* The su session keeps the password from the command and reports what     *)
(* happened, for any banner, any command and any cut of the output into    *)
(* reads.  SuInv is the inductive invariant: it says what the printout of  *)
(* the remote side looks like and who can still read what was typed.       *)
(***************************************************************************)
EXTENDS SuSession, SequenceTheorems, TLAPS

BannerPiece == {"line", "mention", "rest"}
CommandPiece == {"line", "ask"}
Marks == {"begin"} \cup EndMarks
Piece == BannerPiece \cup CommandPiece \cup Marks
Typed == {"password", "eof"}

TypeInv ==
  /\ wire \in Seq(Piece) /\ out \in Seq(Piece) /\ tty \in Seq(Typed)
  /\ banner \in Seq(BannerPiece) /\ printed \in Seq(CommandPiece)
  /\ remote \in {"banner", "asked", "login", "command", "ended"}
  /\ pc \in {"read", "respond", "finish", "done"}
  /\ prompted \in BOOLEAN /\ leaked \in BOOLEAN
  /\ injected \in BOOLEAN /\ inputClosed \in BOOLEAN /\ commandStarted \in BOOLEAN

\* Everything printed so far, read or not.
Printout == out \o wire

\* In a printout h the command has not begun.
NotBegun(h, prints) == (\A i \in 1..Len(h) : h[i] \notin Marks) /\ prints = <<>>

\* The command began at k, and behind that is what it printed and more pieces.
BegunAt(h, prints, k, more) ==
  /\ h[k] = "begin" /\ \A i \in 1..(k - 1) : h[i] \notin Marks
  /\ Len(h) = k + Len(prints) + more
  /\ \A i \in 1..Len(prints) : h[k + i] = prints[i]

Begun(h, prints) == \E k \in 1..Len(h) : BegunAt(h, prints, k, 0)

Exited(h, prints, code) ==
  /\ \E k \in 1..Len(h) : BegunAt(h, prints, k, 1)
  /\ h[Len(h)] \in EndMarks /\ code = CodeOf(h[Len(h)])

\* Whoever printed a prompt: su, or the command behind its begin mark.
AsksExplained(h, suAsked) ==
  \A i \in 1..Len(h) : h[i] = "ask" => suAsked \/ \E j \in 1..(i - 1) : h[j] = "begin"

\* What is printed is a banner, the prompt of su, and the command's own output
\* between its marks.
PrintoutInv ==
  /\ remote \in {"banner", "asked", "login"} => NotBegun(Printout, printed)
  /\ remote = "command" => Begun(Printout, printed)
  /\ remote # "ended" => exitCode = NoCode
  /\ remote = "ended" => \/ NotBegun(Printout, printed) /\ exitCode = NoCode
                         \/ Begun(Printout, printed)
                         \/ Exited(Printout, printed, exitCode)
  /\ AsksExplained(Printout, prompted)

\* What the client knows is what was printed.
ClientInv ==
  /\ commandStarted = Contains(out, "begin")
  /\ pc = "finish" => remote = "ended" /\ wire = <<>>
  /\ pc # "done" => result.status = "none"
  /\ result.status \in {"ok", "auth"} => pc = "done" /\ remote = "ended"

\* Unless a banner misled the client, the password it typed waits for su alone.
HasPassword == \E i \in 1..Len(tty) : tty[i] = "password"
TypedInv ==
  /\ ~inputClosed => tty = <<>>
  /\ prompted /\ ~inputClosed => remote \in {"asked", "ended"}
  /\ ~Contains(out, "mention") =>
       /\ ~leaked
       /\ HasPassword => remote \in {"asked", "ended"} /\ tty = <<"password", "eof">>

SuInv == TypeInv /\ PrintoutInv /\ ClientInv /\ TypedInv /\ OutcomeIsTrue

--------------------------------------------------------------------------------
\* What one more piece makes of a printout.
LEMMA AppendPiece ==
  ASSUME NEW h \in Seq(Piece), NEW piece \in Piece
  PROVE  /\ Append(h, piece) \in Seq(Piece) /\ Len(Append(h, piece)) = Len(h) + 1
         /\ Len(h) \in Nat
         /\ \A i \in 1..Len(h) : Append(h, piece)[i] = h[i]
         /\ Append(h, piece)[Len(h) + 1] = piece
BY AppendProperties, LenProperties

LEMMA StillNotBegun ==
  ASSUME NEW h \in Seq(Piece), NEW piece \in Piece \ Marks, NEW prints, NotBegun(h, prints)
  PROVE  NotBegun(Append(h, piece), prints)
<1> DEFINE g == Append(h, piece)
<1>1. /\ Len(g) = Len(h) + 1 /\ Len(h) \in Nat /\ g[Len(h) + 1] = piece
      /\ \A i \in 1..Len(h) : g[i] = h[i]
  BY AppendPiece
<1> HIDE DEF g
<1>2. ASSUME NEW i \in 1..Len(g) PROVE g[i] \notin Marks
  <2>1. i = Len(h) + 1 \/ i \in 1..Len(h)
    BY <1>1
  <2> QED BY <1>1, <2>1 DEF NotBegun
<1> QED BY <1>2 DEF NotBegun, g

LEMMA NowBegun ==
  ASSUME NEW h \in Seq(Piece), NEW prints, NotBegun(h, prints)
  PROVE  Begun(Append(h, "begin"), prints)
<1> DEFINE g == Append(h, "begin")
           k == Len(h) + 1
<1>1. /\ Len(g) = k /\ Len(h) \in Nat /\ g[k] = "begin"
      /\ \A i \in 1..Len(h) : g[i] = h[i]
  BY AppendPiece DEF Piece, Marks
<1> HIDE DEF g
<1>2. \A i \in 1..(k - 1) : g[i] \notin Marks
  BY <1>1 DEF NotBegun
<1>3. prints = <<>>
  BY DEF NotBegun
<1>4. BegunAt(g, prints, k, 0)
  BY <1>1, <1>2, <1>3 DEF BegunAt
<1> QED BY <1>1, <1>4 DEF Begun, g

LEMMA StillBegun ==
  ASSUME NEW h \in Seq(Piece), NEW piece \in CommandPiece, NEW prints \in Seq(CommandPiece),
         Begun(h, prints)
  PROVE  Begun(Append(h, piece), Append(prints, piece))
<1> DEFINE g == Append(h, piece)
           more == Append(prints, piece)
<1>1. /\ Len(g) = Len(h) + 1 /\ Len(h) \in Nat /\ g[Len(h) + 1] = piece
      /\ \A i \in 1..Len(h) : g[i] = h[i]
  BY AppendPiece DEF Piece
<1>2. /\ Len(more) = Len(prints) + 1 /\ Len(prints) \in Nat /\ more[Len(prints) + 1] = piece
      /\ \A i \in 1..Len(prints) : more[i] = prints[i]
  BY AppendProperties, LenProperties
<1> HIDE DEF g, more
<1>3. PICK k \in 1..Len(h) : BegunAt(h, prints, k, 0)
  BY DEF Begun
<1>4. Len(h) = k + Len(prints)
  BY <1>3 DEF BegunAt
<1>5. g[k] = "begin" /\ \A i \in 1..(k - 1) : g[i] \notin Marks
  BY <1>1, <1>3 DEF BegunAt
<1>6. ASSUME NEW i \in 1..Len(more) PROVE g[k + i] = more[i]
  <2>1. CASE i = Len(prints) + 1
    <3>1. k + i = Len(h) + 1
      BY <1>2, <1>4, <2>1
    <3> QED BY <1>1, <1>2, <2>1, <3>1
  <2>2. CASE i # Len(prints) + 1
    <3>1. i \in 1..Len(prints) /\ k + i \in 1..Len(h)
      BY <1>1, <1>2, <1>4, <2>2
    <3> QED BY <1>1, <1>2, <1>3, <3>1 DEF BegunAt
  <2> QED BY <2>1, <2>2
<1>7. k \in 1..Len(g) /\ Len(g) = k + Len(more) + 0
  BY <1>1, <1>2, <1>4
<1>8. BegunAt(g, more, k, 0)
  BY <1>5, <1>6, <1>7 DEF BegunAt
<1> QED BY <1>7, <1>8 DEF Begun, g, more

LEMMA NowExited ==
  ASSUME NEW h \in Seq(Piece), NEW mark \in EndMarks, NEW prints \in Seq(CommandPiece),
         Begun(h, prints)
  PROVE  Exited(Append(h, mark), prints, CodeOf(mark))
<1> DEFINE g == Append(h, mark)
<1>1. /\ Len(g) = Len(h) + 1 /\ Len(h) \in Nat /\ g[Len(h) + 1] = mark
      /\ \A i \in 1..Len(h) : g[i] = h[i]
  BY AppendPiece DEF Piece, Marks
<1> HIDE DEF g
<1>2. PICK k \in 1..Len(h) : BegunAt(h, prints, k, 0)
  BY DEF Begun
<1>3. Len(h) = k + Len(prints) /\ Len(prints) \in Nat
  BY <1>2, LenProperties DEF BegunAt
<1>4. g[k] = "begin" /\ \A i \in 1..(k - 1) : g[i] \notin Marks
  BY <1>1, <1>2 DEF BegunAt
<1>5. ASSUME NEW i \in 1..Len(prints) PROVE g[k + i] = prints[i]
  <2>1. k + i \in 1..Len(h)
    BY <1>1, <1>3
  <2> QED BY <1>1, <1>2, <2>1 DEF BegunAt
<1>6. k \in 1..Len(g) /\ Len(g) = k + Len(prints) + 1
  BY <1>1, <1>3
<1>7. BegunAt(g, prints, k, 1)
  BY <1>4, <1>5, <1>6 DEF BegunAt
<1> QED BY <1>1, <1>6, <1>7 DEF Exited, g

LEMMA StillExplained ==
  ASSUME NEW h \in Seq(Piece), NEW piece \in Piece, NEW before \in BOOLEAN, NEW after \in BOOLEAN,
         AsksExplained(h, before), before => after,
         piece = "ask" => after \/ \E j \in 1..Len(h) : h[j] = "begin"
  PROVE  AsksExplained(Append(h, piece), after)
<1> DEFINE g == Append(h, piece)
<1>1. /\ Len(g) = Len(h) + 1 /\ Len(h) \in Nat /\ g[Len(h) + 1] = piece
      /\ \A i \in 1..Len(h) : g[i] = h[i]
  BY AppendPiece
<1> HIDE DEF g
<1>2. ASSUME NEW i \in 1..Len(g), g[i] = "ask", ~after
      PROVE  \E j \in 1..(i - 1) : g[j] = "begin"
  <2>1. CASE i = Len(h) + 1
    BY <1>1, <1>2, <2>1
  <2>2. CASE i # Len(h) + 1
    <3>1. i \in 1..Len(h)
      BY <1>1, <2>2
    <3>2. PICK j \in 1..(i - 1) : h[j] = "begin"
      BY <1>1, <1>2, <3>1 DEF AsksExplained
    <3> QED BY <1>1, <3>1, <3>2
  <2> QED BY <2>1, <2>2
<1> QED BY <1>2 DEF AsksExplained, g

--------------------------------------------------------------------------------
\* What the client makes of a whole printout.
LEMMA FirstIndex ==
  ASSUME NEW I \in SUBSET Nat, NEW k \in I, \A i \in I : k <= i
  PROVE  Min(I) = k
<1>1. Min(I) = CHOOSE x \in I : \A y \in I : x <= y
  BY DEF Min
<1>2. Min(I) \in I /\ \A y \in I : Min(I) <= y
  BY <1>1
<1>3. Min(I) <= k /\ k <= Min(I) /\ Min(I) \in Nat
  BY <1>2
<1> QED BY <1>3

LEMMA ExtractUnbegun ==
  ASSUME out \in Seq(Piece), NotBegun(out, printed)
  PROVE  ExtractSuOutput = Failed("auth")
<1>1. BeginMark = 0
  BY DEF BeginMark, SelectInSeq, NotBegun, Marks
<1> QED BY <1>1 DEF ExtractSuOutput

LEMMA BeginMarkIs ==
  ASSUME out \in Seq(Piece), NEW k \in 1..Len(out), NEW more \in Nat,
         BegunAt(out, printed, k, more)
  PROVE  BeginMark = k
<1> DEFINE I == {i \in 1..Len(out) : out[i] = "begin"}
<1>1. Len(out) \in Nat
  BY LenProperties
<1>2. k \in I /\ I \in SUBSET Nat
  BY <1>1 DEF BegunAt
<1>3. \A i \in I : k <= i
  BY <1>1 DEF BegunAt, Marks
<1> HIDE DEF I
<1>4. Min(I) = k
  BY <1>2, <1>3, FirstIndex
<1> QED BY <1>2, <1>4 DEF BeginMark, SelectInSeq, I

LEMMA ExtractBegun ==
  ASSUME out \in Seq(Piece), printed \in Seq(CommandPiece), Begun(out, printed)
  PROVE  ExtractSuOutput = Failed("ssh")
<1>1. PICK k \in 1..Len(out) : BegunAt(out, printed, k, 0)
  BY DEF Begun
<1>2. BeginMark = k /\ Len(out) \in Nat /\ Len(printed) \in Nat
  BY <1>1, BeginMarkIs, LenProperties
<1>3. ASSUME NEW i \in 1..Len(out) PROVE out[i] \notin EndMarks
  <2>1. CASE i < k
    BY <1>1, <1>2, <2>1 DEF BegunAt, Marks
  <2>2. CASE i = k
    BY <1>1, <2>2 DEF BegunAt, EndMarks
  <2>3. CASE i > k
    <3>1. i - k \in 1..Len(printed) /\ k + (i - k) = i
      BY <1>1, <1>2, <2>3 DEF BegunAt
    <3>2. out[i] = printed[i - k] /\ printed[i - k] \in CommandPiece
      BY <1>1, <3>1, ElementOfSeq DEF BegunAt
    <3> QED BY <3>2 DEF CommandPiece, EndMarks
  <2> QED BY <1>2, <2>1, <2>2, <2>3
<1>4. EndMark = 0
  BY <1>3 DEF EndMark, SelectInSeq
<1> QED BY <1>2, <1>4 DEF ExtractSuOutput

LEMMA ExtractExited ==
  ASSUME out \in Seq(Piece), printed \in Seq(CommandPiece), Exited(out, printed, exitCode)
  PROVE  ExtractSuOutput = [status |-> "ok", stdout |-> printed, code |-> exitCode]
<1> DEFINE last == Len(out)
           I == {i \in 1..Len(out) : out[i] \in EndMarks}
<1>1. PICK k \in 1..Len(out) : BegunAt(out, printed, k, 1)
  BY DEF Exited
<1>2. /\ BeginMark = k /\ Len(out) \in Nat /\ Len(printed) \in Nat
      /\ last = k + Len(printed) + 1
  BY <1>1, BeginMarkIs, LenProperties DEF BegunAt
<1>3. ASSUME NEW i \in 1..(last - 1) PROVE out[i] \notin EndMarks
  <2>1. CASE i < k
    BY <1>1, <1>2, <2>1 DEF BegunAt, Marks
  <2>2. CASE i = k
    BY <1>1, <2>2 DEF BegunAt, EndMarks
  <2>3. CASE i > k
    <3>1. i - k \in 1..Len(printed) /\ k + (i - k) = i
      BY <1>1, <1>2, <2>3
    <3>2. out[i] = printed[i - k] /\ printed[i - k] \in CommandPiece
      BY <1>1, <3>1, ElementOfSeq DEF BegunAt
    <3> QED BY <3>2 DEF CommandPiece, EndMarks
  <2> QED BY <1>2, <2>1, <2>2, <2>3
<1>4. last \in I /\ I \in SUBSET Nat /\ \A i \in I : last <= i
  BY <1>2, <1>3 DEF Exited
<1> HIDE DEF I
<1>5. Min(I) = last
  BY <1>4, FirstIndex
<1>6. EndMark = last
  BY <1>4, <1>5 DEF EndMark, SelectInSeq, I
<1>7. SubSeq(out, k + 1, last - 1) = printed
  <2> DEFINE s == SubSeq(out, k + 1, last - 1)
  <2>1. \A i \in (k + 1)..(last - 1) : out[i] \in Piece
    BY <1>2, ElementOfSeq
  <2>2. /\ s \in Seq(Piece) /\ Len(s) = Len(printed)
        /\ \A i \in 1..Len(printed) : s[i] = out[k + i]
    BY <1>2, <2>1, SubSeqProperties
  <2>3. printed \in Seq(Piece)
    <3>1. CommandPiece \subseteq Piece
      BY DEF Piece
    <3> QED BY <3>1, SeqMonotonic
  <2> HIDE DEF s
  <2>4. s = printed
    BY <1>1, <2>2, <2>3, SeqEqual DEF BegunAt
  <2> QED BY <2>4 DEF s
<1>8. exitCode = CodeOf(out[last]) /\ k # 0 /\ last # 0
  BY <1>2 DEF Exited
<1> HIDE DEF last
<1> QED BY <1>2, <1>6, <1>7, <1>8 DEF ExtractSuOutput

--------------------------------------------------------------------------------
\* The session starts with nothing printed and nothing typed.
LEMMA SuInvInit == Init => SuInv
<1> SUFFICES ASSUME Init PROVE SuInv
  OBVIOUS
<1> USE DEF Init
<1>1. TypeInv
  <2>1. \A S : <<>> \in Seq(S)
    BY EmptySeq
  <2>2. banner \in Seq(BannerPiece)
    BY SuAssumption DEF BannerPiece
  <2> QED BY <2>1, <2>2 DEF TypeInv
<1>2. Printout = <<>> /\ Len(<<>>) = 0
  BY DEF Printout
<1>3. PrintoutInv
  BY <1>2 DEF PrintoutInv, NotBegun, AsksExplained
<1>4. ClientInv
  <2>1. Contains(out, "begin") = FALSE
    BY DEF Contains
  <2> QED BY <2>1, Zenon DEF ClientInv, NoResult
<1>5. TypedInv
  BY DEF TypedInv, HasPassword
<1>6. OutcomeIsTrue
  BY DEF OutcomeIsTrue, NoResult
<1> QED BY <1>1, <1>3, <1>4, <1>5, <1>6 DEF SuInv

LEMMA ConcatPieces ==
  ASSUME NEW s \in Seq(Piece), NEW t \in Seq(Piece), NEW u \in Seq(Piece)
  PROVE  (s \o t) \o u = s \o (t \o u)
BY ConcatAssociative

\* A piece that is printed comes behind the others.
LEMMA PrintsAppends ==
  ASSUME TypeInv, NEW piece \in Piece, Prints(piece), UNCHANGED out
  PROVE  /\ Printout \in Seq(Piece) /\ Printout' = Append(Printout, piece)
         /\ wire' \in Seq(Piece)
<1>1. wire \in Seq(Piece) /\ out \in Seq(Piece) /\ <<piece>> \in Seq(Piece)
  BY DEF TypeInv
<1>2. wire' = wire \o <<piece>> /\ wire' \in Seq(Piece)
  BY <1>1, AppendIsConcat, AppendProperties DEF Prints
<1>3. out \o (wire \o <<piece>>) = (out \o wire) \o <<piece>>
  BY <1>1, ConcatAssociative
<1>4. Printout \in Seq(Piece)
  BY <1>1, ConcatProperties DEF Printout
<1> QED BY <1>2, <1>3, <1>4, AppendIsConcat DEF Printout

\* A read moves pieces from the wire to the client and prints nothing.
LEMMA ReadKeepsPrintout ==
  ASSUME TypeInv, NEW n \in 1..Len(wire), out' = out \o SubSeq(wire, 1, n),
         wire' = SubSeq(wire, n + 1, Len(wire))
  PROVE  /\ Printout' = Printout /\ out' \in Seq(Piece) /\ wire' \in Seq(Piece)
         /\ \A e : Contains(out, e) => Contains(out', e)
<1>1. wire \in Seq(Piece) /\ out \in Seq(Piece) /\ Len(wire) \in Nat
  BY LenProperties DEF TypeInv
<1> DEFINE left == SubSeq(wire, 1, n)
           right == SubSeq(wire, n + 1, Len(wire))
<1>2. \A i \in 1..Len(wire) : wire[i] \in Piece
  BY <1>1, ElementOfSeq
<1>3. left \in Seq(Piece) /\ right \in Seq(Piece)
  <2>1. \A i \in 1..n : wire[i] \in Piece
    BY <1>1, <1>2
  <2>2. \A i \in (n + 1)..Len(wire) : wire[i] \in Piece
    BY <1>1, <1>2
  <2> QED BY <1>1, <2>1, <2>2, SubSeqProperties
<1>4. left \o right = wire
  <2>1. left \o right = SubSeq(wire, 1, Len(wire))
    BY <1>1, ConcatAdjacentSubSeq
  <2> QED BY <1>1, <2>1, SubSeqFull
<1> HIDE DEF left, right
<1>5. (out \o left) \o right = out \o wire
  <2>1. (out \o left) \o right = out \o (left \o right)
    BY <1>1, <1>3, ConcatPieces
  <2> QED BY <1>4, <2>1
<1>6. /\ out \o left \in Seq(Piece) /\ Len(out \o left) = Len(out) + Len(left)
      /\ \A i \in 1..Len(out) + Len(left) :
           (out \o left)[i] = IF i <= Len(out) THEN out[i] ELSE left[i - Len(out)]
      /\ Len(out) \in Nat /\ Len(left) \in Nat
  BY <1>1, <1>3, ConcatProperties, LenProperties
<1>7. out' = out \o left /\ wire' = right
  BY DEF left, right
<1>8. ASSUME NEW e, Contains(out, e) PROVE Contains(out', e)
  BY <1>6, <1>7, <1>8 DEF Contains
<1> QED BY <1>3, <1>5, <1>6, <1>7, <1>8 DEF Printout

\* The remote side moves only before the session is over, and touches nothing of
\* the client's.
LEMMA RemoteLeavesClient ==
  ASSUME SuInv, remote # "ended", UNCHANGED clientVars
  PROVE  ClientInv' /\ OutcomeIsTrue'
<1>1. pc # "finish" /\ result.status \notin {"ok", "auth"}
  BY DEF SuInv, ClientInv
<1>2. result' = result /\ pc' = pc /\ out' = out /\ commandStarted' = commandStarted
  BY DEF clientVars
<1>3. ClientInv'
  BY <1>1, <1>2 DEF SuInv, ClientInv
<1> QED BY <1>1, <1>2, <1>3 DEF OutcomeIsTrue

\* When the first thing typed is read, no password is left behind it.
LEMMA TailTyped ==
  ASSUME tty \in Seq(Typed), tty # <<>>, tty' = Tail(tty),
         HasPassword => tty = <<"password", "eof">>
  PROVE  tty' \in Seq(Typed) /\ ~HasPassword' /\ (Head(tty) = "password" => HasPassword)
<1>1. /\ tty' \in Seq(Typed) /\ Len(tty') = Len(tty) - 1 /\ Len(tty) \in Nat
      /\ \A i \in 1..Len(tty') : tty'[i] = tty[i + 1]
      /\ Len(tty) # 0 /\ Head(tty) = tty[1]
  BY HeadTailProperties, LenProperties, EmptySeq
<1>2. CASE HasPassword
  <2>1. Len(tty) = 2 /\ tty[2] = "eof"
    BY <1>2
  <2> QED BY <1>1, <1>2, <2>1 DEF HasPassword
<1>3. CASE ~HasPassword
  <2>1. \A i \in 1..Len(tty) : tty[i] # "password"
    BY <1>3 DEF HasPassword
  <2> QED BY <1>1, <2>1 DEF HasPassword
<1> QED BY <1>2, <1>3

LEMMA PrintBannerStep ==
  ASSUME SuInv, PrintBanner
  PROVE  SuInv'
<1> USE DEF PrintBanner
<1>1. TypeInv /\ remote = "banner" /\ Head(banner) \in BannerPiece /\ banner' \in Seq(BannerPiece)
  BY HeadTailProperties DEF SuInv, TypeInv
<1>2. Head(banner) \in Piece \ Marks /\ Head(banner) # "ask"
  BY <1>1 DEF BannerPiece, Piece, Marks, EndMarks
<1>3. UNCHANGED <<out, pc, tty, remote, prompted, leaked, injected, inputClosed, commandStarted>>
  BY DEF clientVars
<1>4. /\ Printout \in Seq(Piece) /\ Printout' = Append(Printout, Head(banner))
      /\ wire' \in Seq(Piece)
  BY <1>1, <1>2, <1>3, PrintsAppends
<1>5. TypeInv'
  BY <1>1, <1>3, <1>4 DEF TypeInv
<1>6. PrintoutInv'
  <2>1. NotBegun(Printout', printed')
    BY <1>1, <1>2, <1>4, StillNotBegun DEF SuInv, PrintoutInv
  <2>2. AsksExplained(Printout', prompted')
    BY <1>1, <1>2, <1>3, <1>4, StillExplained DEF SuInv, PrintoutInv, TypeInv
  <2> QED BY <1>1, <2>1, <2>2 DEF SuInv, PrintoutInv
<1>7. TypedInv'
  BY <1>1, <1>3 DEF SuInv, TypedInv, HasPassword
<1> QED BY <1>1, <1>5, <1>6, <1>7, RemoteLeavesClient DEF SuInv

LEMMA AskStep ==
  ASSUME SuInv, Ask
  PROVE  SuInv'
<1> USE DEF Ask
<1>1. TypeInv /\ remote = "banner" /\ remote' = "asked" /\ prompted' = TRUE
  BY DEF SuInv
<1>2. "ask" \in Piece \ Marks
  BY DEF CommandPiece, Piece, Marks, EndMarks
<1>3. UNCHANGED <<out, pc, leaked, injected, inputClosed, commandStarted>>
  BY DEF clientVars
<1>4. /\ Printout \in Seq(Piece) /\ Printout' = Append(Printout, "ask")
      /\ wire' \in Seq(Piece)
  BY <1>1, <1>2, <1>3, PrintsAppends
<1>5. tty' \in {<<>>, tty}
  OBVIOUS
<1>6. TypeInv'
  BY <1>1, <1>3, <1>4, <1>5 DEF TypeInv
<1>7. PrintoutInv'
  <2>1. NotBegun(Printout', printed')
    BY <1>1, <1>2, <1>4, StillNotBegun DEF SuInv, PrintoutInv
  <2>2. AsksExplained(Printout', TRUE)
    BY <1>1, <1>2, <1>4, StillExplained DEF SuInv, PrintoutInv, TypeInv
  <2> QED BY <1>1, <2>1, <2>2 DEF SuInv, PrintoutInv
<1>8. TypedInv'
  BY <1>1, <1>3, <1>5 DEF SuInv, TypedInv, HasPassword
<1> QED BY <1>1, <1>6, <1>7, <1>8, RemoteLeavesClient DEF SuInv

LEMMA AnsweredStep ==
  ASSUME SuInv, Answered
  PROVE  SuInv'
<1> USE DEF Answered
<1>1. TypeInv /\ remote = "asked" /\ remote' \in {"login", "ended"} /\ tty # <<>>
  BY DEF SuInv
<1>2. "line" \in Piece \ Marks
  BY DEF CommandPiece, Piece, Marks, EndMarks
<1>3. UNCHANGED <<out, pc, leaked, prompted, injected, inputClosed, commandStarted>>
  BY DEF clientVars
<1>4. /\ Printout \in Seq(Piece) /\ Printout' = Append(Printout, "line")
      /\ wire' \in Seq(Piece)
  BY <1>1, <1>2, <1>3, PrintsAppends
<1>5. tty' \in Seq(Typed)
  BY <1>1, HeadTailProperties DEF TypeInv
<1>6. TypeInv'
  BY <1>1, <1>3, <1>4, <1>5 DEF TypeInv
<1>7. PrintoutInv'
  <2>1. NotBegun(Printout', printed')
    BY <1>1, <1>2, <1>4, StillNotBegun DEF SuInv, PrintoutInv
  <2>2. AsksExplained(Printout', prompted')
    BY <1>1, <1>2, <1>3, <1>4, StillExplained DEF SuInv, PrintoutInv, TypeInv
  <2> QED BY <1>1, <2>1, <2>2 DEF SuInv, PrintoutInv
<1>8. TypedInv'
  <2>1. inputClosed
    BY <1>1 DEF SuInv, TypedInv
  <2>2. ~Contains(out, "mention") => ~leaked /\ ~HasPassword'
    BY <1>1, TailTyped DEF SuInv, TypedInv, TypeInv
  <2> QED BY <1>3, <2>1, <2>2 DEF TypedInv
<1> QED BY <1>1, <1>6, <1>7, <1>8, RemoteLeavesClient DEF SuInv

LEMMA BeginStep ==
  ASSUME SuInv, Begin
  PROVE  SuInv'
<1> USE DEF Begin
<1>1. TypeInv /\ remote \in {"banner", "login"} /\ remote' = "command"
  BY DEF SuInv
<1>2. "begin" \in Piece
  BY DEF Piece, Marks
<1>3. UNCHANGED <<out, pc, tty, leaked, prompted, injected, inputClosed, commandStarted>>
  BY DEF clientVars
<1>4. /\ Printout \in Seq(Piece) /\ Printout' = Append(Printout, "begin")
      /\ wire' \in Seq(Piece)
  BY <1>1, <1>2, <1>3, PrintsAppends
<1>5. TypeInv'
  BY <1>1, <1>3, <1>4 DEF TypeInv
<1>6. PrintoutInv'
  <2>1. Begun(Printout', printed')
    BY <1>1, <1>4, NowBegun DEF SuInv, PrintoutInv
  <2>2. AsksExplained(Printout', prompted')
    BY <1>1, <1>2, <1>3, <1>4, StillExplained DEF SuInv, PrintoutInv, TypeInv
  <2> QED BY <1>1, <2>1, <2>2 DEF SuInv, PrintoutInv
<1>7. TypedInv'
  BY <1>1, <1>3 DEF SuInv, TypedInv, HasPassword
<1> QED BY <1>1, <1>5, <1>6, <1>7, RemoteLeavesClient DEF SuInv

LEMMA CommandPrintsStep ==
  ASSUME SuInv, CommandPrints
  PROVE  SuInv'
<1> USE DEF CommandPrints
<1>1. PICK piece \in CommandPiece : Prints(piece) /\ printed' = Append(printed, piece)
  BY DEF CommandPiece
<1>2. TypeInv /\ remote = "command" /\ remote' = "command" /\ piece \in Piece
  BY DEF SuInv, Piece
<1>3. UNCHANGED <<out, pc, tty, leaked, prompted, injected, inputClosed, commandStarted>>
  BY DEF clientVars
<1>4. /\ Printout \in Seq(Piece) /\ Printout' = Append(Printout, piece)
      /\ wire' \in Seq(Piece)
  BY <1>1, <1>2, <1>3, PrintsAppends
<1>5. printed \in Seq(CommandPiece) /\ printed' \in Seq(CommandPiece)
  BY <1>1, <1>2, AppendProperties DEF TypeInv
<1>6. TypeInv'
  BY <1>2, <1>3, <1>4, <1>5 DEF TypeInv
<1>7. PrintoutInv'
  <2>1. Begun(Printout, printed)
    BY <1>2 DEF SuInv, PrintoutInv
  <2>2. Begun(Printout', printed')
    BY <1>1, <1>4, <1>5, <2>1, StillBegun
  <2>3. \E j \in 1..Len(Printout) : Printout[j] = "begin"
    BY <2>1 DEF Begun, BegunAt
  <2>4. AsksExplained(Printout', prompted')
    BY <1>2, <1>3, <1>4, <2>3, StillExplained DEF SuInv, PrintoutInv, TypeInv
  <2> QED BY <1>2, <2>2, <2>4 DEF SuInv, PrintoutInv
<1>8. TypedInv'
  BY <1>2, <1>3 DEF SuInv, TypedInv, HasPassword
<1> QED BY <1>2, <1>6, <1>7, <1>8, RemoteLeavesClient DEF SuInv

\* What the command reads is not the password.
LEMMA CommandReadsStep ==
  ASSUME SuInv, CommandReads
  PROVE  SuInv'
<1> USE DEF CommandReads
<1>1. TypeInv /\ remote = "command" /\ tty # <<>> /\ tty' = Tail(tty)
  BY DEF SuInv
<1>2. UNCHANGED <<out, pc, wire, remote, printed, exitCode, prompted, injected, inputClosed,
                  commandStarted>>
  BY DEF clientVars
<1>3. tty' \in Seq(Typed) /\ leaked' \in BOOLEAN
  BY <1>1, HeadTailProperties DEF TypeInv
<1>4. TypeInv'
  BY <1>1, <1>2, <1>3 DEF TypeInv
<1>5. PrintoutInv'
  BY <1>2 DEF SuInv, PrintoutInv, Printout
<1>6. TypedInv'
  <2>1. inputClosed
    BY <1>1 DEF SuInv, TypedInv
  <2>2. ASSUME ~Contains(out, "mention") PROVE ~leaked' /\ ~HasPassword'
    <3>1. ~HasPassword /\ ~leaked
      BY <1>1, <2>2 DEF SuInv, TypedInv
    <3>2. Head(tty) # "password" /\ ~HasPassword'
      BY <1>1, <3>1, TailTyped DEF TypeInv
    <3> QED BY <3>1, <3>2
  <2> QED BY <1>2, <2>1, <2>2 DEF TypedInv
<1> QED BY <1>1, <1>4, <1>5, <1>6, RemoteLeavesClient DEF SuInv

LEMMA CommandExitsStep ==
  ASSUME SuInv, CommandExits
  PROVE  SuInv'
<1> USE DEF CommandExits
<1>1. PICK mark \in EndMarks : Prints(mark) /\ exitCode' = CodeOf(mark)
  OBVIOUS
<1>2. TypeInv /\ remote = "command" /\ remote' = "ended" /\ mark \in Piece /\ mark # "ask"
  BY DEF SuInv, Piece, Marks, EndMarks
<1>3. UNCHANGED <<out, pc, tty, leaked, prompted, injected, inputClosed, commandStarted>>
  BY DEF clientVars
<1>4. /\ Printout \in Seq(Piece) /\ Printout' = Append(Printout, mark)
      /\ wire' \in Seq(Piece)
  BY <1>1, <1>2, <1>3, PrintsAppends
<1>5. TypeInv'
  BY <1>2, <1>3, <1>4 DEF TypeInv
<1>6. PrintoutInv'
  <2>1. Begun(Printout, printed) /\ printed \in Seq(CommandPiece)
    BY <1>2 DEF SuInv, PrintoutInv, TypeInv
  <2>2. Exited(Printout', printed', exitCode')
    BY <1>1, <1>4, <2>1, NowExited
  <2>3. AsksExplained(Printout', prompted')
    BY <1>2, <1>3, <1>4, StillExplained DEF SuInv, PrintoutInv, TypeInv
  <2> QED BY <1>2, <2>2, <2>3 DEF PrintoutInv
<1>7. TypedInv'
  BY <1>2, <1>3 DEF SuInv, TypedInv, HasPassword
<1> QED BY <1>2, <1>5, <1>6, <1>7, RemoteLeavesClient DEF SuInv

LEMMA KilledStep ==
  ASSUME SuInv, Killed
  PROVE  SuInv'
<1> USE DEF Killed
<1>1. TypeInv /\ remote # "ended" /\ remote' = "ended"
  BY DEF SuInv
<1>2. UNCHANGED <<out, pc, tty, wire, printed, exitCode, leaked, prompted, injected, inputClosed,
                  commandStarted>>
  BY DEF clientVars
<1>3. TypeInv'
  BY <1>1, <1>2 DEF TypeInv
<1>4. PrintoutInv'
  BY <1>1, <1>2 DEF SuInv, PrintoutInv, Printout, TypeInv
<1>5. TypedInv'
  BY <1>1, <1>2 DEF SuInv, TypedInv, HasPassword
<1> QED BY <1>1, <1>3, <1>4, <1>5, RemoteLeavesClient DEF SuInv

--------------------------------------------------------------------------------
LEMMA ReadStep ==
  ASSUME SuInv, Read
  PROVE  SuInv'
<1> USE DEF Read
<1>1. PICK n \in 1..Len(wire) : /\ out' = out \o SubSeq(wire, 1, n)
                               /\ wire' = SubSeq(wire, n + 1, Len(wire))
  OBVIOUS
<1>2. TypeInv /\ pc = "read" /\ pc' = "respond"
  BY DEF SuInv
<1>3. /\ Printout' = Printout /\ out' \in Seq(Piece) /\ wire' \in Seq(Piece)
      /\ \A e : Contains(out, e) => Contains(out', e)
  BY <1>1, <1>2, ReadKeepsPrintout
<1>4. UNCHANGED <<tty, remote, banner, printed, exitCode, prompted, leaked, injected, inputClosed,
                  result>>
  BY DEF remoteVars
<1>5. (commandStarted' = Contains(out', "begin")) /\ commandStarted' \in BOOLEAN
  BY <1>3 DEF SuInv, ClientInv, Contains
<1>6. TypeInv'
  BY <1>2, <1>3, <1>4, <1>5 DEF TypeInv
<1>7. PrintoutInv'
  BY <1>3, <1>4 DEF SuInv, PrintoutInv
<1>8. result.status = "none"
  BY <1>2 DEF SuInv, ClientInv
<1>9. ClientInv' /\ OutcomeIsTrue'
  BY <1>2, <1>4, <1>5, <1>8 DEF ClientInv, OutcomeIsTrue
<1>10. TypedInv'
  BY <1>3, <1>4 DEF SuInv, TypedInv, HasPassword
<1> QED BY <1>6, <1>7, <1>9, <1>10 DEF SuInv

\* The password is typed for su, or for a banner that looks like its prompt.
LEMMA CloseInputStep ==
  ASSUME SuInv, CloseInput
  PROVE  SuInv'
<1> USE DEF CloseInput
<1>1. /\ TypeInv /\ pc = "respond" /\ pc' = "read" /\ tty = <<>> /\ inputClosed' = TRUE
      /\ ~inputClosed
  BY DEF SuInv, TypedInv
<1>2. UNCHANGED <<wire, out, remote, banner, printed, exitCode, prompted, leaked, commandStarted,
                  result>>
  BY DEF remoteVars
<1>3. tty' = IF ShouldInject THEN <<"password", "eof">> ELSE <<"eof">>
  BY <1>1
<1>4. TypeInv'
  <2>1. <<"password", "eof">> \in Seq(Typed) /\ <<"eof">> \in Seq(Typed)
    BY DEF Typed
  <2>2. injected' \in BOOLEAN
    BY DEF ShouldInject, OutputHasPasswordPrompt
  <2> QED BY <1>1, <1>2, <1>3, <2>1, <2>2 DEF TypeInv
<1>5. PrintoutInv'
  BY <1>2 DEF SuInv, PrintoutInv, Printout
<1>6. ClientInv' /\ OutcomeIsTrue'
  BY <1>1, <1>2 DEF SuInv, ClientInv, OutcomeIsTrue
<1>7. ASSUME ShouldInject, ~Contains(out, "mention") PROVE prompted
  <2> DEFINE last == Len(out)
  <2>1. out # <<>> /\ out[last] \in {"ask", "mention"} /\ ~Contains(out, "begin")
    BY <1>7 DEF ShouldInject, OutputHasPasswordPrompt, Last, SuInv, ClientInv
  <2>2. out \in Seq(Piece) /\ wire \in Seq(Piece) /\ last \in 1..Len(out) /\ Len(wire) \in Nat
    BY <1>1, <2>1, LenProperties, EmptySeq DEF TypeInv
  <2>3. out[last] = "ask"
    BY <1>7, <2>1, <2>2 DEF Contains
  <2>4. last \in 1..Len(Printout) /\ \A i \in 1..last : Printout[i] = out[i]
    BY <2>2, ConcatProperties DEF Printout
  <2>5. \A j \in 1..(last - 1) : Printout[j] # "begin"
    <3>1. \A j \in 1..Len(out) : out[j] # "begin"
      BY <2>1 DEF Contains
    <3>2. last \in Nat
      BY <2>2
    <3> QED BY <2>4, <3>1, <3>2
  <2> QED BY <2>3, <2>4, <2>5 DEF SuInv, PrintoutInv, AsksExplained
<1>8. TypedInv'
  <2>1. CASE ShouldInject
    BY <1>1, <1>2, <1>3, <1>7, <2>1 DEF SuInv, TypedInv
  <2>2. CASE ~ShouldInject
    <3>1. tty' = <<"eof">> /\ Len(<<"eof">>) = 1
      BY <1>3, <2>2
    <3>2. ~HasPassword'
      BY <3>1 DEF HasPassword
    <3> QED BY <1>1, <1>2, <3>2 DEF SuInv, TypedInv
  <2> QED BY <2>1, <2>2
<1> QED BY <1>4, <1>5, <1>6, <1>8 DEF SuInv

\* The client's steps that neither read nor type.
LEMMA QuietClientStep ==
  ASSUME SuInv,
         NothingToType \/ ReadTooMuch \/ PromptTimeout \/ Abort \/ EndOfOutput \/ Finish
  PROVE  SuInv'
<1> USE DEF NothingToType, ReadTooMuch, PromptTimeout, Abort, EndOfOutput, Finish, End
<1>1. UNCHANGED <<wire, tty, out, remote, banner, printed, exitCode, prompted, leaked,
                  injected, inputClosed, commandStarted>>
  BY DEF remoteVars
<1>2. pc' \in {"read", "finish", "done"} /\ TypeInv
  BY DEF SuInv
<1>3. TypeInv'
  BY <1>1, <1>2 DEF TypeInv
<1>4. PrintoutInv'
  BY <1>1 DEF SuInv, PrintoutInv, Printout
<1>5. TypedInv'
  BY <1>1 DEF SuInv, TypedInv, HasPassword
<1>6. CASE ~Finish
  <2>1. pc # "done" /\ (\/ result' = result /\ pc' # "done"
                        \/ result' = Failed("ssh") /\ pc' = "done")
    BY <1>6 DEF SuInv
  <2>2. result'.status \notin {"ok", "auth"}
    BY <2>1 DEF SuInv, ClientInv, Failed, NoResult
  <2>3. pc' = "finish" => remote = "ended" /\ wire = <<>>
    BY <1>6
  <2>4. ClientInv' /\ OutcomeIsTrue'
    BY <1>1, <2>1, <2>2, <2>3 DEF SuInv, ClientInv, OutcomeIsTrue
  <2> QED BY <1>3, <1>4, <1>5, <2>4 DEF SuInv
<1>7. CASE Finish
  <2>1. remote = "ended" /\ wire = <<>> /\ out \in Seq(Piece) /\ printed \in Seq(CommandPiece)
    BY <1>7 DEF SuInv, ClientInv, TypeInv
  <2>2. Printout = out
    BY <2>1, ConcatEmptySeq DEF Printout
  <2>3. /\ result'.status = "ok" => result'.stdout = printed /\ result'.code = exitCode
        /\ result'.status = "auth" => NotBegun(out, printed) /\ exitCode = NoCode
    <3>1. CASE NotBegun(out, printed) /\ exitCode = NoCode
      <4>1. result' = Failed("auth")
        BY <1>7, <2>1, <3>1, ExtractUnbegun
      <4> QED BY <3>1, <4>1 DEF Failed, NoResult
    <3>2. CASE Begun(out, printed)
      <4>1. result' = Failed("ssh")
        BY <1>7, <2>1, <3>2, ExtractBegun
      <4> QED BY <4>1 DEF Failed, NoResult
    <3>3. CASE Exited(out, printed, exitCode)
      <4>1. result' = [status |-> "ok", stdout |-> printed, code |-> exitCode]
        BY <1>7, <2>1, <3>3, ExtractExited
      <4> QED BY <4>1
    <3> QED BY <2>1, <2>2, <3>1, <3>2, <3>3 DEF SuInv, PrintoutInv
  <2>4. OutcomeIsTrue'
    BY <1>1, <2>1, <2>3 DEF OutcomeIsTrue, NotBegun, Contains, Marks
  <2>5. ClientInv'
    BY <1>1, <1>7, <2>1 DEF SuInv, ClientInv
  <2> QED BY <1>3, <1>4, <1>5, <2>4, <2>5 DEF SuInv
<1> QED BY <1>6, <1>7

--------------------------------------------------------------------------------
\* SuInv is inductive.
LEMMA SuInvNext == SuInv /\ [Next]_vars => SuInv'
<1> SUFFICES ASSUME SuInv, [Next]_vars PROVE SuInv'
  OBVIOUS
<1>1. CASE RemoteStep
  BY <1>1, PrintBannerStep, AskStep, AnsweredStep, BeginStep, CommandPrintsStep,
     CommandReadsStep, CommandExitsStep DEF RemoteStep
<1>2. CASE Killed
  BY <1>2, KilledStep
<1>3. CASE ClientStep \/ Abort
  BY <1>3, ReadStep, CloseInputStep, QuietClientStep DEF ClientStep
<1>4. CASE Done \/ UNCHANGED vars
  <2>1. UNCHANGED vars
    BY <1>4 DEF Done
  <2> QED BY <2>1 DEF vars, SuInv, TypeInv, PrintoutInv, Printout, ClientInv, TypedInv,
                     HasPassword, OutcomeIsTrue
<1> QED BY <1>1, <1>2, <1>3, <1>4 DEF Next

LEMMA SuInvariant == Spec => []SuInv
<1> QED BY SuInvInit, SuInvNext, PTL DEF Spec

\* The command reads the password from its input, however the output is cut
\* into reads, only if the banner has a line that starts like a prompt.
THEOREM PasswordStaysWithSu == Spec => []LeaksOnlyIfMisled
<1>1. SuInv => LeaksOnlyIfMisled
  BY DEF SuInv, TypedInv, LeaksOnlyIfMisled
<1> QED BY <1>1, SuInvariant, PTL

\* A result is the command's own output, whole, with its exit code, and an
\* authentication failure means that the command never began.
THEOREM SuOutcomeTrue == Spec => []OutcomeIsTrue
<1>1. SuInv => OutcomeIsTrue
  BY DEF SuInv
<1> QED BY <1>1, SuInvariant, PTL
================================================================================
