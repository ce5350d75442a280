------------------------------ MODULE PolicyRules ------------------------------
(***************************************************************************)
(* What the access policy and the safety rails say of a command or a       *)
(* remote path (policy.rs, safety.rs, and the remote paths of              *)
(* cli/transfer.rs), and what they are meant to say.                       *)
(*                                                                         *)
(* A text is a sequence of pieces: words or parts of words, and the marks  *)
(* below. "nl" is a line break, "C:" a drive and "remote:" the prefix of a *)
(* literal path. Quotes and upper case are left out.                       *)
(***************************************************************************)
EXTENDS Naturals, Sequences, SequencesExt

Blanks == {" ", "nl"}
Meta == {";", "&", "|", "backquote", "$", "(", ")", "<", ">", "nl"}
Breaks == {";", "&", "|", "(", ")"}
AnySlash == {"/", "\\"}
Marks == Blanks \cup Meta \cup AnySlash \cup {"-", "=", "*", ".", "..", "C:", "remote:"}
PrefixWords == {"command", "env", "exec", "nohup", "time"}
SystemDirs == {<<"/", d>> : d \in {"etc", "usr", "bin", "sbin", "lib", "lib64", "boot", "root"}}

\* The segments of text between separators, empty ones included.
Split(text, separators) ==
  LET upTo[i \in 0..Len(text)] ==
        IF i = 0 THEN <<<<>>>>
        ELSE LET done == upTo[i - 1]
             IN  IF text[i] \in separators THEN Append(done, <<>>)
                 ELSE Append(Front(done), Append(Last(done), text[i]))
  IN  upTo[Len(text)]

NonEmpty(segments) == LET full(s) == s # <<>> IN SelectSeq(segments, full)
WordsOf(text) == NonEmpty(Split(text, Blanks))
BaseName(word) == Last(Split(word, AnySlash))
FirstOf(words) == IF words = <<>> THEN <<>> ELSE <<words[1]>>

TrimEnd(text, marks) ==
  LET solid(piece) == piece \notin marks
  IN  SubSeq(text, 1, SelectLastInSeq(text, solid))
Trim(text) ==
  LET solid(piece) == piece \notin Blanks
      start == SelectInSeq(text, solid)
      end == SelectLastInSeq(text, solid)
  IN  IF start = 0 THEN <<>> ELSE SubSeq(text, start, end)

HasMeta(command) == \E i \in DOMAIN command : command[i] \in Meta
HasBlank(text) == \E i \in DOMAIN text : text[i] \in Blanks

--------------------------------------------------------------------------------
(***************************************************************************)
(* Command rules.                                                          *)
(***************************************************************************)
\* A rule that ends in * matches by its stem, unless the stem is blank; a rule
\* of one word matches the name of the program.
MatchesSimply(entry, command) ==
  IF Last(entry) = "*"
  THEN /\ Trim(Front(entry)) # <<>>
       /\ IsPrefix(Front(entry), command)
  ELSE /\ ~HasBlank(entry)
       /\ command # <<>> /\ BaseName(WordsOf(command)[1]) = entry

\* Fault: any rule matches a command with shell syntax.
GrantsCommandWithMeta(rule, text) ==
  LET entry == Trim(rule)  command == Trim(text) IN
  /\ entry # <<>>
  /\ entry = command \/ MatchesSimply(entry, command)

\* Shell syntax must be spelled out in the rule.
GrantsCommand(rule, text) ==
  LET entry == Trim(rule)  command == Trim(text) IN
  /\ entry # <<>>
  /\ \/ entry = command
     \/ ~HasMeta(command) /\ MatchesSimply(entry, command)

--------------------------------------------------------------------------------
(***************************************************************************)
(* Path rules.                                                             *)
(***************************************************************************)
HasParentTraversal(path) ==
  \E i \in DOMAIN Split(path, AnySlash) : Split(path, AnySlash)[i] = <<"..">>

IsWindowsAbsolute(path) ==
  /\ Len(path) >= 2
  /\ \/ path[1] = "\\" /\ path[2] = "\\"
     \/ path[1] = "C:" /\ path[2] \in AnySlash

ForwardSlashes(path) ==
  [i \in DOMAIN path |-> IF path[i] = "\\" THEN "/" ELSE path[i]]

\* path is dir, or below it by its letters.
PathWithin(dir, path) ==
  /\ IsPrefix(dir, path)
  /\ Len(path) = Len(dir) \/ path[Len(dir) + 1] = "/"

GrantsPath(rule, path) ==
  LET dir == TrimEnd(Trim(rule), {"/"})
      windowsDir == TrimEnd(ForwardSlashes(dir), {"/"})
  IN  /\ dir # <<>>
      /\ IF IsWindowsAbsolute(Trim(rule))
         THEN /\ windowsDir # <<>>
              /\ IsWindowsAbsolute(path)
              /\ PathWithin(windowsDir, ForwardSlashes(path))
         ELSE PathWithin(dir, path)

\* Fault: parent segments are not looked for.
AllowsPathLexically(rules, path) == \E rule \in rules : GrantsPath(rule, path)

AllowsPath(rules, path) ==
  ~HasParentTraversal(path) /\ \E rule \in rules : GrantsPath(rule, path)

--------------------------------------------------------------------------------
(***************************************************************************)
(* Remote paths as arguments.                                              *)
(***************************************************************************)
HasLiteralPrefix(path) == path # <<>> /\ path[1] = "remote:"
IsRemoteAbsolute(path) == path # <<>> /\ (path[1] = "/" \/ IsWindowsAbsolute(path))
IsDecodable(path) == path # <<>> /\ (HasLiteralPrefix(path) => IsRemoteAbsolute(Tail(path)))
Decoded(path) ==
  IF HasLiteralPrefix(path) /\ IsRemoteAbsolute(Tail(path)) THEN Tail(path) ELSE path

\* The directory an atomic upload puts its temporary file in.
HasParent(path) ==
  /\ \A i \in DOMAIN path : path[i] # "\\"
  /\ Last(Split(path, {"/"})) \notin {<<>>, <<".">>, <<"..">>}
ParentPath(path) ==
  LET isSlash(piece) == piece = "/"
      cut == SelectLastInSeq(path, isSlash)
  IN  CASE cut = 0 -> <<".">>
        [] cut = 1 -> <<"/">>
        [] OTHER -> SubSeq(path, 1, cut - 1)
TemporaryPath(path) == TrimEnd(ParentPath(path), {"/"}) \o <<"/", "temporary">>

--------------------------------------------------------------------------------
(***************************************************************************)
(* Safety rails.                                                           *)
(***************************************************************************)
\* The words of a command when shell breaks count as blanks; > is a word.
ShellishTokens(command) ==
  LET spaced == FlattenSeq([i \in DOMAIN command |->
                  IF command[i] = ">" THEN <<" ", ">", " ">> ELSE <<command[i]>>])
  IN  NonEmpty(Split(spaced, Blanks \cup Breaks))

IsAssignment(word) ==
  LET equals(piece) == piece = "="
      at == SelectInSeq(word, equals)
  IN  at > 1 /\ \A i \in 1..(at - 1) : word[i] \notin Marks

\* The program of each part of a command, after assignments and prefix words.
CommandWords(command) ==
  LET parts == Split(command, Breaks)
      isProgram(word) == ~IsAssignment(word) /\ word \notin {<<p>> : p \in PrefixWords}
      programs(part) == SelectSeq(WordsOf(part), isProgram)
      started == [i \in DOMAIN parts |-> FirstOf(programs(parts[i]))]
  IN  FlattenSeq(started)

\* Fault: the first word of the text is taken for the program.
CommandProgramFirst(command) == FirstOf(WordsOf(command))

\* The name of the first program, as the audit log records it, if there is one.
CommandProgram(command) ==
  LET words == FirstOf(CommandWords(command))
  IN  [i \in DOMAIN words |-> BaseName(words[i])]

HasShortFlag(word, flag) ==
  word[1] = "-" /\ \E i \in 2..Len(word) : word[i] = flag
HasFlag(tokens, i, flag, long) ==
  \E j \in (i + 1)..Len(tokens) : HasShortFlag(tokens[j], flag) \/ tokens[j] = <<long>>

IsEtcPath(word) == PathWithin(<<"/", "etc">>, word)

WritesToEtc(tokens) ==
  \E i \in DOMAIN tokens :
    \/ /\ BaseName(tokens[i]) \in {<<"tee">>, <<"cp">>, <<"mv">>, <<"install">>}
       /\ \E j \in (i + 1)..Len(tokens) : IsEtcPath(tokens[j])
    \/ /\ BaseName(tokens[i]) = <<"dd">>
       /\ \E j \in (i + 1)..Len(tokens) :
            IsPrefix(<<"of", "=">>, tokens[j]) /\ IsEtcPath(SubSeq(tokens[j], 3, Len(tokens[j])))
    \/ /\ tokens[i] = <<">">> /\ i < Len(tokens)
       /\ \/ IsEtcPath(tokens[i + 1])
          \/ tokens[i + 1] = <<">">> /\ i + 1 < Len(tokens) /\ IsEtcPath(tokens[i + 2])

\* A command that is not run without --yes.
NeedsConfirmation(command) ==
  LET tokens == ShellishTokens(command) IN
  \/ \E i \in DOMAIN tokens :
       \/ /\ BaseName(tokens[i]) = <<"rm">>
          /\ HasFlag(tokens, i, "r", "--recursive") /\ HasFlag(tokens, i, "f", "--force")
       \/ /\ BaseName(tokens[i]) \in {<<"chmod">>, <<"chown">>}
          /\ HasFlag(tokens, i, "r", "--recursive")
       \/ /\ BaseName(tokens[i]) = <<"pm2">>
          /\ i < Len(tokens) /\ tokens[i + 1] = <<"delete">>
  \/ \E i \in DOMAIN CommandWords(command) : BaseName(CommandWords(command)[i]) = <<"sudo">>
  \/ WritesToEtc(tokens)

WritesSystemPath(path) == \E dir \in SystemDirs : PathWithin(dir, path)

--------------------------------------------------------------------------------
(***************************************************************************)
(* What rules are meant to grant, without the way they are matched.        *)
(***************************************************************************)
\* Where a path leads: relative to what, and through which directories, for a
\* server whose separators are those of the path and that has no links.
Root(path) ==
  CASE path = <<>> -> "relative"
    [] path[1] = "C:" \/ IsWindowsAbsolute(path) -> "windows"
    [] path[1] = "/" -> "posix"
    [] OTHER -> "relative"

\* What is left of segments once dots are resolved.
Resolved(segments) ==
  LET upTo[i \in 0..Len(segments)] ==
        IF i = 0 THEN <<>>
        ELSE LET above == upTo[i - 1] IN
             CASE segments[i] \in {<<>>, <<".">>} -> above
               [] segments[i] = <<"..">> /\ above # <<>> -> Front(above)
               [] OTHER -> Append(above, segments[i])
  IN  upTo[Len(segments)]

Directories(path) ==
  Resolved(Split(path, IF Root(path) = "windows" THEN AnySlash ELSE {"/"}))

LeadsInto(dir, path) ==
  /\ Root(dir) = Root(path)
  /\ IsPrefix(Directories(dir), Directories(path))

\* A rule grants what is at or below its directory.
MeansPath(rule, path) == Trim(rule) # <<>> /\ LeadsInto(Trim(rule), path)

\* A path with nothing in it to resolve.
IsPlain(path) ==
  /\ path # <<>> /\ path[1] = "/" /\ Len(path) > 1
  /\ \A i \in DOMAIN path : path[i] \notin {".", "..", "\\"}
  /\ \A i \in 2..Len(path) : path[i] = "/" => path[i - 1] # "/"
  /\ Last(path) # "/"

\* The parts of a command that a shell runs one by one (the target of a
\* redirection counts as one).
ShellParts(command) ==
  {Trim(Split(command, Meta)[i]) : i \in DOMAIN Split(command, Meta)} \ {<<>>}

\* What a shell starts for a part: its first word that is no assignment, if any.
StartedBy(part) ==
  LET words == WordsOf(part)
      starts == {k \in 1..Len(words) :
                   ~IsAssignment(words[k]) /\ \A m \in 1..(k - 1) : IsAssignment(words[m])}
  IN  {BaseName(words[k]) : k \in starts}

Names(rules) == {Trim(rule) : rule \in rules}

\* A rule grants a command it spells out, a beginning, or a program and its
\* arguments.
MeansCommands(rules, command) ==
  \/ Trim(command) \in Names(rules)
  \/ \A part \in ShellParts(command) :
       \/ StartedBy(part) \subseteq Names(rules)
       \/ \E entry \in Names(rules) :
            Last(entry) = "*" /\ Trim(Front(entry)) # <<>> /\ IsPrefix(Front(entry), part)

\* A command without shell syntax, after an assignment that ends like the path
\* of a program that a rule names.
MistakesAssignment(rules, command) ==
  LET words == WordsOf(Trim(command)) IN
  /\ ~HasMeta(Trim(command)) /\ words # <<>>
  /\ IsAssignment(words[1]) /\ BaseName(words[1]) \in Names(rules)
================================================================================
