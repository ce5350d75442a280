# Formal verification of sshw

sshw runs commands on registered servers over SSH (`run`), copies files (`put`, `get`), and keeps
what it needs for that in *homes*: a `servers.json`, a `known_hosts`, a policy and an audit log
for each, passwords in the OS keyring, and a registry of named homes (`profiles.json`). Every
invocation is a process of its own. There is no daemon, so all coordination is by lock files,
revision checks and atomic renames, and every hard question is about what another process, a
server, a power loss or the user does between two steps.

This directory holds TLA+ modules of the parts where that happens, TLC configurations that check
them on small instances, and TLAPS proofs of the most important properties for every instance.
`PROJECT.json` lists components, runs, mutants, hazards and theorems, and the source lines each
definition stands for. Paths below are relative to `src/`.

## 1. Inventory

| Component | State | Operations | Correct when | Module |
|---|---|---|---|---|
| Home store (`cli.rs`, `cli/server.rs`, `cli/account.rs`, `cli/privilege.rs`, `config.rs`, `storage.rs`) | `servers.json`, `.sshw.lock`, keyring entries | add, remove, account add/remove/default, privilege set/clear, default; unlocked reads | no config ever refers to a missing password, not even after a crash or power loss; passwords in use are never overwritten; removed ones are deleted, or the user is told | `HomeStore`, `ConfigOps`, `AbstractHome` |
| Profile registry and home selection (`profile.rs`, `cli/profile.rs`, `home.rs`) | `profiles.json`, `.profiles.lock`, the namespace each home's passwords are filed under | profile add, default, remove; resolving a home | an id stays with one home and never comes back; a home never mixes namespaces; no update is lost | `Profiles` |
| Access policy, safety rails (`policy.rs`, `sandbox.rs`, `safety.rs`, `cli/policy_cmd.rs`, `cli/transfer.rs`) | `policy.json` | decide on a server, account, command or path; preflight; init, enable, disable, allow, remove | nothing is done that no policy permitted; what a rule grants is what it means (but for a leading assignment, section 5); a preflight and its command agree | `PolicyRules`, `Access` |
| Audit log (`audit.rs`, `cli.rs`) | `audit.jsonl` | one entry for each command that decides or edits | an entry names what was done, with the result the user was given | `Access` |
| Credential backends (`credentials/`, `cli.rs`) | OS keyring, or the memory of one process | store, get, delete; the choice between the two | the keyring follows the config read before the lock; a password that was not kept is announced | `HomeStore`, `Access` |
| Host trust (`ssh/ssh2_client.rs`, `ssh/known_hosts.rs`, `cli/server.rs`) | `known_hosts`, also under `.sshw.lock` | trust; verification before every login | only keys the user accepted are stored or given credentials | `HostTrust` |
| Connection (`ssh2_client.rs`) | socket, session timeout, deadline | resolve, try addresses, handshake and its retries, login | no retry renews its deadline; an address that refuses or is silent does not end it, a failed handshake does | `PlainUpload`, `HostTrust` |
| Plain upload (`ssh2_client.rs`) | remote file written in place | send over scp, await the exit status | a success is whole; no step renews the deadline; an error comes within three times the timeout, with the destruction of channel and session (section 5) | `PlainUpload` |
| Atomic upload (`ssh/atomic_upload.rs`) | a temporary sibling on the server | open, write, stat, setstat, close, posix-rename, unlink | the destination is never partial; the report is true | `AtomicUpload` |
| Download (`storage.rs`, `ssh2_client.rs`) | a staged local sibling | check, stage, receive, complete, publish, sync | only whole files appear, with consent, and last | `Download` |
| Remote command (`ssh2_client.rs`, `cli/stream.rs`) | channel with two streams, captured output, line redactors | exec, input, drain, exit status, show | returns; shows everything exactly once and no secret | `RemoteRun` |
| Run over su (`ssh2_client.rs`) | a PTY's merged output | find the prompt, type the password, end the input, extract output and status | the command never reads the password, unless a banner has misled the client (finding 2); the result is its own | `SuSession` |
| Private storage (`storage.rs`) | locks, temporary siblings | lock with timeout, atomic write | see the modules that use it | in `HomeStore`, `Download`, `Access` |
| Sudo runs, errors and JSON, command line | none | | see section 5 | partly |
| doctor, listing commands | none | read and print | | not modelled |

How they interact: a command chooses its credential backend from an unlocked read of the config,
resolves its home through the registry without a lock, takes the home's lock if it edits the home,
loads and validates the config, prompts, calls the keyring, and saves. `run`, `put` and `get` take
no lock at all: they read config, policy, keyring and `known_hosts` as they find them, one after
the other, connect, verify the host key, log in, and run one of the transfer or command protocols,
and then write an audit entry. All of this is sequential code in one process. The concurrency is
between invocations, between the client and the server, and with the user's editor.

What is hard: the window between unlocked reads and their use; the window between a revision
check and a rename; a rename that is visible but not durable; keyring calls that cannot be in one
transaction with the file; SFTP requests whose answers are lost or which are applied after the
client gave up; output cut into reads at any place; a command that waits for the reader of its
other stream or for the end of its input; a deadline that is handed on in whole milliseconds,
where 0 means none; a text that a policy reads in one way and a shell or a server in another. Each
is listed under `hazards` at its line.

## 2. Modules

| Module | Role |
|---|---|
| `ConfigOps` | pure: configs, validation, and the *plan* of each editing command (next config, entries created, entries stale afterwards) |
| `HomeStore` | EXTENDS `ConfigOps`: the steps of an invocation from lock to return |
| `AbstractHome` | what a home promises, in four actions; `HomeStore` is shown to implement it |
| `PolicyRules` | pure: how rules and rails read a command or a path, and what they are meant to say |
| `Access` | EXTENDS `PolicyRules`: an invocation from the choice of the backend to its audit entry; policy and account edits |
| `PlainUpload` | connection and upload of one `put`, in time |
| `Profiles`, `HostTrust`, `RemoteRun`, `SuSession`, `AtomicUpload`, `Download` | one component each |
| `MC*` | the model values and small data sets for TLC |
| `*Proofs` | theorems, EXTENDS the module of the component (`SessionProofs`: of `HostTrust` and of `RemoteRun`) |

Next to some definitions a module has a *fault form*, marked `Fault:` in its comment: an operator
with the same parameters that makes the mistake a change of the code could make. No action uses
it. Putting one in place of its original (`mutants` in `PROJECT.json`) makes the property named
there fail, which shows that the property depends on the code being as it is.

The invocation of one command appears in several modules: `Access` has the whole course of it
with the act on the server as one step, `HostTrust` and `PlainUpload` the connection,
`AtomicUpload`, `Download`, `RemoteRun` and `SuSession` the act, and `HomeStore` what `Access`
takes for one step when an account is edited.

### HomeStore and ConfigOps

`file` is what a reader sees, `recoverable` what a power loss could leave: a rename adds to
`recoverable`, the directory sync reduces it to `file`. `keyring` maps a slot (credential key and
keyring user) to the registration whose password it holds. `pc` follows `execute_with`:
`lock`, `load`, `prompt`, `store`, `check` (revision), `stage` (sibling file), `publish` (rename),
`sync`, `cleanup` (deleting stale entries one by one), `undo` (deleting what was stored when the
save failed), `return`. `base` is the loaded config and `plan` what the command makes of it; the
plans are the operators of `ConfigOps`, one for each command. A failed call is an action of its
own (`SyncFails`, `DeleteStaleFails`, ...). Readers take config and password in two steps.
A key's generation is a counter (`issued`), that is, generations are assumed not to repeat: the
code takes a 64-bit hash of clock, pid and counter. `ValidConfig` is
`validate_config_credential_references`.

`AbstractHome` knows nothing of locks, commands or plans. It has the same three variables and four
steps: passwords nothing needs come and go, a config all of whose passwords are stored is put in
place, the config in place becomes durable, and power is lost. `HomeStore` implements it with the
identity as the refinement mapping, every other step of the invocation being a stutter.

Abstractions: an invocation runs one command; a sibling file left by a failed write is not kept;
the audit entry and the choice of the backend are in `Access`; the migration of version 1 files
and the Windows variant without directory sync are left out; the keyring is
assumed durable; a hand edit changes only the default server, the one field that cannot by
itself make the config refer to a password which is not there.

### PolicyRules and Access

A text is a sequence of pieces (a word, a blank, a line break, a separator, a drive, the prefix
`remote:`), which is what the rules tell apart. `GrantsCommand`, `AllowsPath`, `NeedsConfirmation`
and `WritesSystemPath` are the code's reading of it. `MeansCommands` and `MeansPath` are the
reference: the programs that a shell would start, one for each part of the command and behind its
assignments, and the directory in which a server would find a path once separators, dots and
drives are resolved. `MistakesAssignment` is the one case in which the code's reading of a command
does not imply its meaning (section 5).

`pc` goes through `start`, `lock` and `load` (editing commands take the lock), `rules`, `decide`,
`secret`, `act`, `audit`, `return`, `done`, and for edits of the policy `load`, `check`, `write`. `Checks` lists what
`run`, `put` and `get` test, in their order; the command stops at the first that fails, the
preflight (`--check`) goes on after those that are not fatal and reports the first refusal. The
config and the policy are read at different moments without a lock, so `seen` keeps
the policies and configs there were since the invocation started: what it does must be permitted
by one of each. `seen.first` is the config from which the backend was chosen, before the lock. A
preflight of `run` has no `--stream`, and is compared with the run that has none. `audit` has the entry of each invocation. An account edit is one step.

Abstractions: quotes, escapes and upper case in a command, links on the server, the migration of
version 1 files and the explanations printed by a preflight; a crash between the bytes of one
audit entry. The act is one step, for its steps are in the modules of the protocols.

### PlainUpload

Time is a number of ticks, `TicksPerMilli` to a millisecond, and every blocking call takes up to
the timeout it was given; a call whose timeout is 0 has none (`NeverAnswered`). An address
`refuses`, is `silent`, `answers`, is `unsteady` (its key exchange may fail, which the client
repeats on Windows), or `foreign` (no SSH server). `Dial*`, `Handshake*` and `Login*` are the steps
of the connection and share `ConnectTimeout`. An address that cannot be reached is followed by the
next, but a handshake that fails for good ends the connection, whatever addresses are left
(`FailsForGood`, as the code does). A login's calls each have the timeout that the session was
given for its handshake. From `open` on, the steps of the operation share `timeout`. `ReadLocal`
and `Send` copy the file that was opened, while the user puts another file at its path, or writes
into it (`versions` are the contents it has had). The server may be unable to keep what comes
(`fault`), which the exit status of its scp tells. An error drops the channel and then the session
(`Abandon`, `Destroy`): libssh2 waits for the server's close of each under the timeout that the
session had last. An exit status that never arrives is read as 0 by libssh2, which the code relies
on after the channel is closed in order; the model has the status arrive. Reading the local file
takes no time. File mode and time stamps are left out.

### Profiles

A home is one value, its canonical directory, and `used` the set of namespaces its config refers
to. `profile add/default/remove` go through `start`, `load`, `check` (with the target home's
config read without its lock), `confirm` (revision), `write`. A home command goes through
`Resolve` (registry read without a lock), `LockHome`, `LoadConfig` (which refuses references to
another namespace) and `SaveConfig`. `SaveConfig` is one step: `HomeStore` has its detail.
`bound` and `retired` are history: what the registry has said of an id, and the ids it has
dropped. Fresh ids are assumed not to repeat (a hash of home, name and clock).

Removing a profile whose home holds passwords and adding it again for that home is refused by
`ValidTarget`, because the home still refers to the old namespace. The module has this as the code
does it; docs/reference.md says in one place that re-adding creates a fresh namespace and in
another that incompatible settings are refused.

### HostTrust

`Goto` moves a trust through lock, first key, the user's answer, second key, check of
`known_hosts`, write, return, and a session through connect, verify, authenticate. `accepted` and
the other ghost variables record what the user saw. Servers change their key and the user removes
entries or breaks the file at any moment, at most `MaxChanges` times. How libssh2 matches names,
ports and hashed entries is external: an endpoint is one value. Writing `known_hosts` is one step,
the rename. An entry that the user removes by hand while a trust is between its read and its write
comes back, as nothing tells the two edits apart.

### RemoteRun

Output is a sequence of pieces and a read may end after any of them. `Window` is the SSH channel
window which both streams share. `Redacted` says what is left of a text when keys and known
secrets are masked; `Push` is `Redactor::push`, `FinalText` what is shown at the end with and
without `--stream`. The masking of `keyword=value` lines, of startup noise and of secrets with
line breaks, UTF-8 decoding, and what a broken local output shows of one write, are left out. The
timeout may fire at any step and may also be disabled, so no property relies on it.

### SuSession

The remote wrapper's markers carry a nonce and are pieces no command prints. A banner may have
lines that look like a prompt up to some point. Time is not modelled: `PromptTimeout` may fire
whenever no prompt has been seen. A malformed end marker counts as missing.

### AtomicUpload

Requests are actions of the server. A request that gets no answer may have been applied, may
not, or may be applied later (`late`); the rename has its own SFTP channel, so it and the unlink
of the clean-up may be applied in either order. Temporary names of two uploads differ (24 random
bytes), but a foreign file may be at one (`Taken`).

### Download

A staged file has a size, whether its bytes are the remote file's (`sound`: scp pads what it
cannot read), and whether it has been synced. `recoverable` is as in `HomeStore`. Creating the
parent directory and file modes are left out. Each check of the path and
`persist_noclobber` are atomic.

## 3. Runs

| Run | Instance | Shows |
|---|---|---|
| `home_safety` | 2 invocations of any of 8 commands, 2 servers, 2 users, 3 first homes, 1 power loss; symmetry | the safety of the home store, and that it implements `AbstractHome` |
| `home_edits` | 2 invocations, 1 reader, 2 servers, 1 user, 1 hand edit; fairness | which updates can be lost, when a reader misses a password, that every command ends |
| `access` | pairs of commands that meet, with one edit by hand; a preflight and its command; single commands over short paths and command lines | what is done was permitted, rules mean what they say but for `MistakesAssignment`, preflight and command agree, audit and keyring are true |
| `plain_upload` | up to 2 addresses, connection 3 ticks, operation 5 ticks or unlimited, 2 ticks to a millisecond, 2 retries, 2 login calls, files up to 3 bytes, buffer 2, 1 edit; fairness | a success is whole, no retry or progress renews a deadline, errors come within three times the timeout, only a failed handshake keeps the client from an address that answers while there is time, termination |
| `atomic_upload` | 3 uploads, one with a taken name, files of 2 chunks; fairness | destination, foreign files, reports, termination |
| `download` | 2 downloads, one with `--yes`, 2 foreign changes, 1 power loss; fairness | completeness, consent, durability, clean-up, termination |
| `download_published` | the same without foreign changes | **violation**: finding 1 |
| `su_session` | 3 banners, up to 3 printed pieces; fairness | the password goes to the command only after a banner that looks like a prompt, outcome, termination |
| `su_prompt` | 1 printed piece | **violation**: finding 2 |
| `host_trust` | 2 trusts, 1 session, 2 endpoints, 3 keys (one unsupported), 1 change; fairness | acceptance, one key per endpoint, no lost trust, termination |
| `remote_run` | 25 stdout and 3 stderr scripts, window 2, limit 6; fairness | secrets, whole and partial results, termination |
| `profiles` | 3 of 10 commands, 2 names, 2 homes, 1 hand edit; symmetry | namespaces, no lost update |

Some properties are conjunctions of named parts: `NothingLeftBehind` is `SuccessIsComplete` and
`NoOrphans`; `NamespacesStaySeparate` is `ValidRegistry`, `NamespaceBinding` and
`HomesKeepOneNamespace`; `OutcomeIsTrue` and `OutputIsTheCommands` speak of successes and of
failures. The types of variables are part of the inductive invariants that are proved and are not
run by themselves.

Bounds, and why they are enough: two invocations are the least that interleave, and all hazards
of the home are between two, as each runs once and meets the lock; the third of `profiles` lets a
home command be overtaken by a removal *and* a registration. Two servers and users are what the
ownership of keys needs to go wrong (a key of the other server, of the other user, a legacy key
with more accounts). One power loss and one hand edit at any step reach every window; a second one starts
from a state of the same kind. Size 2 has a state between empty and whole.
Window 2 is less than what a command prints on one stream, so that it can be stuck; 6 is less
than what the scripts print together. In `access` the paths have up to four pieces and the commands up to four, over
an alphabet in which each mark that the code treats by itself occurs, and the longer ones are the
combinations that need more (a program behind an assignment, flags in two words, a redirection to
a system directory). Three ticks at two to a millisecond make the last remaining time less than a
millisecond; a buffer of 2 bytes and a file of 3 need two reads and sends cut anywhere. The
counters `issued`, `edits`, `losses` and changes are
bounded by the number of invocations and by `MaxEdits`, `MaxLosses` and `MaxChanges`. Symmetry is
over invocations, and is not used where liveness is checked.

Deadlock is checked in all runs: a final state stutters explicitly (`Done`, `AllDone`, `Finished`).

Fairness. Only the steps an invocation takes by itself are fair, weakly and per invocation: the
code is a loop that always continues. Failures, kills, power losses, edits and timeouts that the
user can disable are never fair. Specifically: in `HomeStore` and `HostTrust` a prompt is assumed
to be answered and a held lock given up or timed out (5 seconds); connecting has a deadline
of 15 seconds; a request of an upload and a read of a download meet the operation's deadline, or
the answer; in `PlainUpload` a call ends within the timeout it was given, and one that was given
none may never end (`NeverAnswered`, which is not part of the fair steps), so that `PutReturns` depends on no remaining
time being passed on as 0; in `RemoteRun` and `SuSession` the command goes on unless the channel, or its input,
holds it up, which is what the liveness property is about.

Findings. (1) A `get` whose directory sync fails after the rename reports an error although it
has replaced the destination; a comment in `storage.rs` says a failed download never does.
(2) The prompt of su is looked for after every read, in the last, perhaps unfinished, line: a
banner line cut after its colon (`Last password change:`) passes for a prompt, which the
comment of `output_has_password_prompt` says it does not. The password then lies in the terminal
before su asks. A su that flushes its terminal loses it; one that does not ask leaves it to the
command, which can read it from its input. That this is the only way in which the command gets the
password is `LeaksOnlyIfMisled`: without such a line in the banner it never does.

## 4. Proofs

All theorems are for any sets of servers, users, invocations, endpoints, keys, uploads, policies,
scripts and scenarios, any file size and any number of edits and losses. They use only the named
assumptions on the constants (`...Assumption` in each module), which say that special values
differ from ordinary ones, that numbers are numbers, and that first states are well-formed; TLC
evaluates them in every run. Every step of the next-state relation has a proof of its own.

*HomeStoreProofs.* Its first part is about `ConfigOps`: for every command, if the loaded config is
valid, the plan's next config is valid, it refers only to entries that were referred to before or
are created, and to no stale one. These lemmas carry all facts about configs, so that the proof
about the steps never opens one.
`HomeInv` is `TypeOK`, `StoreInv` and `ProcInv(p)` for every invocation.
`ReferencesResolve` alone is not inductive. It needs that every *recoverable* file is valid and
resolved, not just the present one (a power loss chooses among them); that the holder of the
lock is unique and the base of a loaded plan was valid; that entries a plan has created so far are
in the keyring; that stale entries are deleted only after the sync, when no recoverable file
refers to them; and that generations in the keyring are below `issued`, so a new key is never one
in use. From `HomeInv` follow the type invariant, `ReferencesResolve`, `ConfigAlwaysLoads`,
`NoLostUpdate`, `SecretsNeverOverwritten`, `ReaderMissesOnlyIfChanged`, and the refinement
`Spec => ImplementsAbstractHome`, where each step maps to a step of `AbstractHome` or a stutter.
`NothingLeftBehind` (`NoPasswordOutlivesItsUse`) needs the other direction, that the keyring has no
more than the file refers to. At most steps of a command it has: what the plan has created and not
yet published, or what is stale and not yet deleted. `TidyInv` gives the difference exactly for
each step, as long as no call has failed, and for a command that reports success also afterwards.

*AccessProofs.* `AccessInv` has, for each invocation, who holds the lock at which point
(`LockInv`), that a policy about to be replaced is the one loaded, or a hand edit came between
(`WriteInv`), that the config and the rules it goes by were in place since it started (`ReadInv`),
that none of its checks failed for them (`ActInv`), and that its backend is the one named by
the config there was when it started (`KeyInv`). The step from the checks, in the order of the code, to what a policy
`Permits` is three lemmas (`CheckedRun`, `CheckedPut`, `CheckedGet`). It follows that
`OnlyPermittedActs`, `NoPolicyEditLost` and `KeyringFollowsBackend` hold however the texts are
read by the rules.
`TruthInv` has what an invocation has said and written: its outcome is the verdict of the checks
on what it read (`DecisionInv`), and its audit entry the one that belongs to this outcome
(`RecordInv`). `PreflightAgrees` compares the
first failing check of a command with what its preflight collects; that there is a first one is
`LeastNumber`.
`GrantsInv` says that what is enforced are rules of a policy file, and that an act has passed its
checks under them. What is left for `ActsAreGranted` is that the code's
reading of a rule implies its meaning, or mistakes an assignment, for texts of any length: `GrantedCommandIsMeant`,
`GrantedPathIsMeant`, `TemporaryIsBeside` and, for what must not be refused, `PlainIsGranted`. The
reading compares letters, and the meaning is computed by recursion over a text and over the
segments of a path. The proofs take a text as a sequence of any set of `Pieces`. That each
recursive function solves its equations is `RecursionIsDefined`; facts about all its values go by
`AllNumbers`, induction on a set of numbers instead of an operator: the lengths for which
a statement holds include 0, and with every number the next. `SegmentsTellTheText` is the central
lemma: where the segments of two texts agree, so do the texts. The assumption on the constants
says that rules and requests are such texts and that a request has the fields of its command.

*PlainUploadProofs.* `PutInv` says where the bytes that were read are: those at the destination
and those in the buffer together are the bytes copied so far, each a byte of the opened file at its
place at some moment (not all at the same one); a success is counted only when as many as announced
are there. `TimeInv` carries both deadlines: a call that starts in time gets the rest in whole
milliseconds, rounded by less than one (`MillisBound`), every login call adds at most one
allowance, and each of the two waits of a failed operation at most the timeout the session had
last. `AddressInv` says that only addresses that refuse or are silent were left
behind, that the client gives up reaching addresses when none is left or no time, and a handshake
when it has failed for good or its time is up: hence `GivesUpOnlyInTime`.

*ProfilesProofs.* `ProfilesInv` bounds ids by `issued`, has retired ids stay away from the
registry, and gives each home the namespaces it may be filed under (`Allowed`); a home's passwords
are all in one of them. An editor holds the registry's lock and what it is about to write follows
from what it loaded; a command past `LoadConfig` holds the home's lock and selected an allowed
namespace. From this `NamespacesStaySeparate` and `NoUpdateLost` follow.

*DownloadProofs.* `DownloadInv`: what a staged file holds at each step, that everything that could
be recovered at the destination is foreign or a whole, synced file whose download has published
it, and that after a success nothing else can come back. From this come `DestinationIsComplete`,
`StagedFilesRemoved`, `ReplacesOnlyWithConsent` and `SuccessIsDurable`.

*AtomicUploadProofs.* `UploadInv` adds to the destination what each upload owns, what its
temporary file can contain at each step, and what is already reported. The point is a rename the
client gave up: if it may still be applied, the upload is in its clean-up or done, its file was
measured and has its mode, and its report does not claim that the rename was not attempted.

*SuSessionProofs.* `SuInv` is about the printout, which is what the client has read followed by what
is on the wire: before the command there is no mark in it, and from the begin mark on it is the
command's own output up to an end mark (`PrintoutInv`). What the client knows is what was printed
(`ClientInv`). Unless a banner misled the client, what was typed and not yet read waits for su alone
(`TypedInv`): the password lies there only while su asks or after all has ended, and is
followed by the end of input, so `LeaksOnlyIfMisled`. Marks are pieces no command prints,
so the output between them is the command's own, which gives `OutcomeIsTrue`.

*SessionProofs* extends both `HostTrust` and `RemoteRun`, whose specification is `RunSpec` for that
reason. `TrustInv`: who holds the lock, that every entry was accepted, that a trust
about to write has seen every entry now in the file except what the user removed since, and that a
verified session's key was accepted. Acceptance is a history variable, so that
`CredentialsFollowAcceptance` speaks of an answer given before, not of the file as it is now.

Of the run: with `--stream` the output is redacted line by line, without it at once, and
both must show the same. `RedactedBehind` says why they do: the redaction of whole lines and of what
comes behind them is the redaction of each, and one bit passes between them, whether a key is open.
So what was read is always a part `u` of whole lines, shown as its redaction, and a rest that is
kept (`Streamed`); a read adds to it (`PushStreams`), and the end of the run redacts what is left
(`FinishStreams`). `RunInv` adds that what was read is a beginning of what the command prints,
and that a stream that has ended was read to its end, hence `OutputIsTheCommands`. What is shown is then
always the redaction of a beginning of the script, and `RedactedHides` tells what such a text
cannot show: two pieces in a row were the two halves of a secret only if nothing between them
survived, and it would have (`SecretStart`). With this `SecretsHidden`. The redaction is a recursive
function over the positions of a text; as in `AccessProofs` it solves its equations by
`RecursionIsDefined`, and inductions are on sets of numbers. The assumption on the scripts
says what a piece "k" stands for, a line of a key's body: there is a BEGIN line before it and no END
line between.

Only model-checked: everything under fairness (`CommandsReturn`, `UploadsEnd`, `GetsEnd`,
`SuReturns`, `InvocationsReturn`, `RunReturns`, `PutReturns`), which is out of reach of the proof
system. Every safety property that the passing runs check is proved.

## 5. Not modelled, and what is left

- Argument parsing, hints, JSON layout, explanations, `doctor` and the listing commands: they
  format or print and change nothing. The reader of `HomeStore` stands for what they may see.
- File modes, ACLs and symbolic link checks: properties of system calls, not of their order.
- The migration of version 1 files, and damaged registries that `load_registry_for_removal`
  repairs.
- A crash inside the write of one audit entry, which leaves a torn line at the end of the log, and
  two generations of a credential key with the same 64-bit hash: both are hazards of the code
  that the models' steps are too coarse to show, and no property is claimed about them.
- The command line of a sudo run and the suppression of its prompt; the input it is sent is in
  `RemoteRun`.
- docs/reference.md:169 says that the session-only backend never touches the keyring and that its
  user is warned. The code keeps this for the backend it chose before it took the lock: when the
  config is switched by hand in between, a command goes by the former backend and warns, or does
  not warn, accordingly. `KeyringFollowsBackend` states what holds: an edit that found a
  session-only backend when it started leaves the keyring as it is, whatever it does, and any edit
  that adds a password has either stored it or warned.
- docs/reference.md:354 says that a rule which is the name of a program allows that program with
  its arguments. The code (policy.rs:428-434) compares the rule with the end of the command's first
  word, also when this word is an environment assignment and the program comes after it; safety.rs
  skips assignments when it looks for the program. `ActsAreGranted` holds with this as its only
  exception, `MistakesAssignment`: it does not say that only named programs are started by
  such a command, for the code does not see to it.
- docs/reference.md:247 calls `--timeout` an absolute timeout of the operation. When a call of `put`
  fails, `put_inner` still drops the channel and the session, two waits for the server under the
  session's last timeout. `run_inner` bounds these to 100 ms (ssh2_client.rs:488-494), `put_inner`
  does not: its error can come after the deadline. `ReturnsInTime` states what holds, that it comes
  within three times the timeout.

Next would be the meaning of the rules with quotes and escapes.
