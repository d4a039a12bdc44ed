# Apple Mail MCP server: a TLA+ verification project

This directory holds TLA+ models of the parts of `apple_mail_fast_mcp` whose
correctness depends on the order in which things happen: threads, event-loop
tasks, IMAP and SMTP servers that answer late or not at all, Mail.app, and the
user who answers a prompt. TLC checks the models on small instances; TLAPS
proves the most important invariants for every instance.

Paths below are relative to `src/apple_mail_fast_mcp/` unless they start with
`tests/` or `docs/`.

## 1. The system

The server is one Python process. An MCP client calls its tools; FastMCP runs a
plain `def` tool on a worker thread and an `async def` tool on the event loop,
from which `_run_blocking` sends the slow work to the same thread pool
(`server.py:142`). A tool does its work through one `AppleMailConnector`, which
chooses between Mail.app (AppleScript through `osascript`), IMAP, SMTP and
Mail's local SQLite index.

| Component | Where | State it keeps | Operations |
|---|---|---|---|
| IMAP connection pool | `imap_connector.py:134-258` | the cache, one lock per entry, `last_used`, the cache lock | `session`, its invalidation, `close` at exit |
| Rate limiter and confirmation gates | `security.py:116-211`, `server.py:273-452` | one deque of call times per tier; the digest the client echoes | `check`, `refund`, the asking round, the retry, the prompt |
| Send path | `smtp_sender.py`, `mail_connector.py:6225-6592, 6824-6897` | what the SMTP session knows; recipients' mailboxes; Sent | SMTP submit, Sent copy, AppleScript send |
| Circuit breaker | `mail_connector.py:1119-1235` | a deadline per account | `_imap_breaker_open`, `_imap_clear_breaker`, `_log_imap_fallback` |
| AppleScript runner | `mail_connector.py:119-126, 1236-1319` | one process-wide lock; what Mail is still applying | `_run_applescript` |
| Draft lifecycle | `server.py:3045-3900`, `drafts.py`, `mail_connector.py:5292-5416, 5612-7200` | Mail's drafts, the seed store on disk | `create_draft`, `update_draft`, `delete_draft` |
| Bulk moves, flags and deletes | `mail_connector.py:3457-3855, 4409-4862, 5128-5233`, `imap_connector.py:2074-2577` | where each message is, its flags | `update_message`, `delete_messages` |
| Mailbox tools and delete staging | `server.py:2207-2678`, `imap_connector.py:2074-2180` | the mailbox tree | `create_mailbox`, `update_mailbox`, `delete_mailbox` |
| Rules | `mail_connector.py:1429-1893`, `server.py:491-864` | Mail's ordered rule list | `create_rule`, `update_rule`, `delete_rule` |
| Search and read backends | `mail_connector.py:2299-3340`, `local_db_connector.py` | none of their own | local database, IMAP, AppleScript, in that order |
| Threads | `mail_connector.py:3341-3456, 4000-4116`, `imap_connector.py:1915-1998, 2671-3027`, `utils.py:478-572` | none | `get_thread` |
| Attachments | `mail_connector.py:355-630, 4118-4405`, `imap_connector.py:780-1000` | files on disk | `save_attachments`, `get_attachment_content` |
| Credentials and set-up | `keychain.py`, `imap_overrides.py`, `imap_providers.py`, `cli.py` | Keychain items, an override file | `setup-imap` and its roll-back, look-ups |
| Templates | `templates.py` | files | CRUD and rendering |
| Test-mode safety and read-only mode | `security.py:430-648`, `server.py:98-173` | the environment | guards at the tools and at the SMTP transport |
| Server plumbing | `server.py`, `utils.py`, `exceptions.py`, `version.py`, `__init__.py` | none | registration, argument parsing, escaping, errors |

How the components meet:

- Tools on worker threads call the connector concurrently; they share the
  connection pool, the breaker, the rate limiter and `_APPLESCRIPT_LOCK`.
- A confirmed tool runs on the event loop up to its first `await`; its gate
  (rate limit, prompt) comes first, then `_run_blocking` takes the work to a
  thread. Gate and work are modelled apart: nothing of the work happens before
  the gate has let the call through (`Acting` in `ConfirmGate`).
- Sends, moves and reads try IMAP or SMTP first and fall back to Mail. What the
  first attempt has already done when it fails is what the fallback must not do
  again; the breaker is how the attempts of one tool affect the next.
- `osascript` is killed when it times out, but Mail goes on with the script: a
  call may report a failure for something that happens later.

### What is hard, and what must hold

| Component | Hard behaviours | What makes it correct |
|---|---|---|
| Connection pool | two locks nested both ways; a failure invalidates an entry others wait for; `close()` at exit beside live sessions; `last_used` read without its lock | no logged-out client cached, no client forgotten, one thread per client, no deadlock |
| Gates | `check()` from many threads; refunds; answers in a later request, to another question, late or never | the limit holds in every window; a confirmed tool acts only after a yes to its own prompt; asking costs nothing; every request ends |
| Send path | acceptance is not idempotent; a reply lost; QUIT, the Sent copy, AppleScript after SMTP | at most one copy unless a reply was lost; one copy in Sent; a true report; it implements "a send happens once" |
| Draft lifecycle | an update deletes and makes again; other updates and deletes race with it; Mail shows drafts late; crash between two steps | one draft per document; what it replies to or forwards is kept; lost only to a delete or an update that says so; no orphan records |
| Bulk moves | COPY, STORE, EXPUNGE one by one; UIDs that went stale; fallback after half the work; Mail moving on alone | no message lost, none doubled, no count above what moved |
| Mailbox tools | count, then delete; a free name, then RENAME; the owner and other calls in between | mail is destroyed only where the user said so; staging fails only when something came between |
| Rules | positions shift under a concurrent delete; names are not unique; scripts stop half-way | the rule changed is the rule confirmed; no dangerous action without a yes; a true report |
| Search and reads | three backends that fail one after the other and limit their answers in different places; the breaker | what AppleScript can answer is answered; whichever backend answers, the newest matches come back; an answer of nothing is never a failure in disguise |
| Threads, attachments | walks over References; caps and names that depend on earlier items | the definition the docs give, for all small inputs |
| Set-up | three stores written one after the other, rolled back together; killed between two of them | what a run verified is what run time uses; a password that was refused is not |

PROJECT.json lists each hazard at its line, with the property that would show
it going wrong or the reason why none does.

## 2. The plan

Order: what cannot be undone first (sends, drafts, moves, deletes), then what
decides whether it happens (gates), then what everything stands on (the pool),
then reads and pure algorithms.

| # | Module | Composes | Abstract specification | Runs | State |
|---|---|---|---|---|---|
| 1 | `ImapPool` | cache, entry locks, clients, atexit | | `pool` | done; safety proved |
| 2 | `ConfirmGate` | limiter, event loop, client, user | | `gate_sends`, `gate_rules` | done; safety proved |
| 3 | `SendPath` | SMTP session, breaker, AppleScript lock, Mail | `SendOnce` | `sends` | done; safety and refinement proved |
| 4 | `DraftLifecycle` | three tools, seed store, IMAP APPEND, Mail | | `drafts` | done; safety proved |
| 5 | `MessageMoves` | IMAP session, breaker, resolver, Mail, other clients | | `moves` | done for moves; safety proved |
| 6 | `MailboxTree` | staging, creation, renaming and deletion of mailboxes, the owner, arriving mail | | `tree` | done; safety proved |
| 7 | `Rules` | list positions, both protocols' prompts, the scripts statement by statement | | `rules` | done; safety proved |
| 8 | `ReadBackends` | local index, IMAP, AppleScript, breakers of several accounts | | `reads`, `thread_absence` | done; `ReadsDegrade` proved |
| 9 | `MailSearch`, `Threads`, `Attachments`, put together in `Algorithms` | searches, threads, saves, range reads | reference definitions | `algorithms` | done; proved |
| 10 | `SetUp` | Keychain items of both prefixes, two override files, several set-ups, roll-back and uninstall, the look-ups at run time | what set-up verified is what look-ups use | `setup` | done; safety proved |

What the plan has left: read and flag changes and patches that combine them with
a move; the address guards of test mode; templates. Every safety property that a run
checks is proved; what stays with TLC alone is liveness (see section 5).

## 3. The modules

Common conventions: `pc` holds where a call or thread is, with one label per
place where the code waits or where another actor can come between; what happens
between two labels is one step. A comment that begins with `Mutant:` marks an
operator that no specification uses: it is what the definition after it would be
with a plausible bug, and the property named in PROJECT.json then fails.

### ImapPool

One label per lock operation of `ImapConnectionPool.session()` and `close()`.
`LookupFresh`, `LookupStale` and `LookupMissing` are the three ways through the
block under `_cache_lock`; a stale client is logged out and a new one connected
with that lock still held (`DropStale`, `Connect`), as in the code.
`AcquireEntry` waits for the entry's lock; `Command`, `FinishOk`, `FinishOther`
and `Fails` are the caller's block, `Invalidate` takes the cache lock inside the
entry's lock and drops the entry only if it is still the cached one
(`StillCached`). `TakeAll`, `DrainLock`, `DrainLogout` are `close()`. `idle` is
the age of `last_used`, capped one above the timeout, which is all the code
compares; a garbage-collected client object may be reused (`Unreferenced`).

### ConfirmGate

One tier of the limiter. `CheckTest` and `CheckAppend` are the two halves of
`RateLimiter.check`: on the event loop nothing comes between them because the
request keeps `loop`; on worker threads something may. `LookedUp` is
`_resolve_rule_name`'s await. On a 2026-07-28 connection (`modern`), `Ask`
refunds the slot and ends the request, `UserAnswers` is the client, and `Honor`
accepts an answer whose digest matches; otherwise `Elicit` waits and
`PromptFails` is the timeout, an unable client or a refused context.
`Digest` says which calls look alike to a prompt.

### SendPath and SendOnce

`Start` to `Quit` follow `_try_smtp_send` and `SmtpSender`; `Taken` is the server
taking the data, `Accepted` and `ReplyLost` what the client learns of it.
`SaveCopy` and `CopyFails` are `_save_sent_copy`. `RunScript`, `MailBusy`,
`ScriptReturns`, `ScriptTimesOut` are `_run_applescript`; `MailSends` and
`MailRefuses` happen in Mail, also after the timeout. `cooling` is the breaker.
`SendOnce` knows only copies, what was reported, and whether the reply to a
message that left was lost; `Said` and `Doubt` are the refinement mapping.

### DraftLifecycle

Drafts are numbered as they are made; `doc` is the create they stem from.
`Read`, `Resolve`, `Decline`, `Delete`, `Forget`, `Make` (or `Send`), `Append`,
`Script`, `Poll`, `Persist` are the steps of `update_draft` in the code's order;
`create_draft` enters at the making, `delete_draft` at the delete. Every script
may time out and be applied later; `DeleteErrs` is the delete whose script ends in
an error, which is answered as "not found" also when Mail has deleted the draft
(`mail_connector.py:5402-5407`); `Surface` is Mail showing a draft at some time
after it was saved; `Crash` ends every call, and what is on disk stays. A caller may
name a draft by the id a call answered, or by any id of a draft that Mail shows
(`Names`). `Script` notes the drafts there are, and may miss some of them
(`mail_connector.py:6862-6867`); `Poll` then takes any draft it has not noted for
its own. `strayed` remembers the documents to which one of these two has happened:
one of their drafts was named by an id that no call had answered, or an id diff took
a draft of theirs for another document's, or the reverse. What the code promises of a
draft's origin it keeps for all other documents, and `SeedKept` and `NoOrphans` say
so.

### MessageMoves

`at` is the mailbox of each physical copy, `era` counts its moves, so that
`<<i, era>>` is a UID and goes stale when the copy moves. `Search` to `Answer`
are `move_messages` of the IMAP connector, one step per command, with `Drops`
possible before each. `Resolve` and `ResolveFails` are `_resolve_bulk_ids`; the
script's loop is one step per id in Mail (`MailMoves`, `MailIgnores`,
`MailMisses`), which goes on after `ScriptTimesOut`. `OtherMoves` and
`OtherExpunges` are other clients.

### MailboxTree

`path` gives each mailbox its path, a sequence of leaves; a leaf is a name and
the number it took when the name was in use. `server` says how the server names
mailboxes: as Mail does, with its own delimiter and prefix, or without hierarchy.
A leaf that has a number gets another one ("a 2 2", `imap_connector.py:2152`).
`Request` and `Prompt` are the checks of the four tools, each at the place where the
code has it: only staging refuses INBOX before a command, a real delete and a move
of INBOX come to the server, and a rename in place checks only the mailbox it
renames for [Gmail]; `List`, `Ensure` and
`StageRename` are `stage_mailbox` (one LIST, then CREATE, then RENAME to the
first name that was free in that LIST, which carries the children along and is
refused when one of them would land on a path that is taken); `Count` and `Delete` are the connector's
`delete_mailbox`; `ImapRename`, `MailRename` and `MailCreate` are the two ways of
`update_mailbox`, and `create_mailbox`; `MoveMessages` stands for what
`MessageMoves` takes apart. `MailEnsure` is the script by which `delete_messages`
makes the staging mailbox when IMAP is not there or fails (`NoImap`, `Failing`).
`Verbatim` is what a server makes of Mail's path when
it is not translated. Mail arrives, the owner edits the tree, and the connection
breaks before a command or behind it (`Changes`, `Breaks`).

### Rules

A script is a sequence of statements (`Script`); `Ran` is Mail's list after each of
them (`Statement` is one), and `RunScript` leaves the last of these or, when
`osascript` is killed, the `k`-th. `LookUp`, `Check` and the script are three scripts, so the list can
change between them; `Guard` is the comparison of the name inside the last one.
`Referents` is which rule Mail's reference means: by position or, once Mail has
resolved it by name, the first of that name. `Unasked`, `Yes` and `No` are the
gate on both protocols, with what its prompt shows in `Shown`; `NeedsYes` has the
patches of conditions, for which the tool prompts before it refuses them.

### ReadBackends

One message is looked for, in the account `home`. `FirstStep` is the dispatch of
the three reads; `AskIndex`, `CheckBreaker`, `AskImap` and `RunScript` are the
three backends in turn, `Probe` to `ProbesOver` the search for a thread's anchor
in every account, `CheckCollect` to `Gather` the collection of its members.
`left` is the breaker with its clock. `health` is what the Keychain and the
server would answer; it, Mail, the index and the message change at any moment. A
folder in which SELECT or SEARCH fails has been looked at as far as the code is
concerned (`imap_connector.py:1886-1890`), and so `ProbeAnswer` has it, and
`AbsenceEstablished` counts such an answer as one.

### MailSearch, Threads, Attachments and Algorithms

Functions without state, each the translation of one Python function, and below
them what is promised of them. A mailbox is a sequence of messages with a date,
the day on which the server files them, in its own time zone, an attachment flag and
whether the other filters match. SINCE compares that day with the caller's day of
the cutoff (`mail_connector.py:2366-2369`), the cutoff filter compares the dates. `Chunks` and
`CollectRows` are the FETCH loop with its two places to stop; `AllFoldersSearch`
is the search over all folders with Gmail's duplicates. In `Threads` a message
has a parent, copies in folders, and the headers that follow from these; the four
tiers are functions of it. An account offers a tier or not, where a tier that the
server advertises and then rejects counts as not offered (`Offers`), and
`find_thread_members` goes from each to the next, THREAD also behind the two of Gmail
(`Tiers`); and `WalkThreadGraph` is the last state of `Walk`, a
function of the passes that have run, each a `Pass` over the candidates. In
`Attachments` file names are sequences of parts compared through `FsKey`; a
directory is a function from them to contents, and `Allowed`, `Targets`, `Written`
and `Pruned` are the four loops of a save, each a function of how many items it has
been through. A save from the message looks for the name of the `.eml` before it asks
whether the message is within the caps, as the code does, so that it can fail with
attachments written and the message not to be. A group of characters that is cut
short cannot be decoded (`Undecodable`), and the read fails. A base64 part is the sequence of its characters and line ends, so that
an offset that is wrong by one yields other bytes.

`Lists` has the two operations on lists that all of these use, in a form the provers
can unfold: `Only` filters (`Kept` is it after each place) and `Sorted` sorts. `Unset`
is an argument of a search that is not given, `Digits` writes a number as a part of a
name. `Algorithms` is the one state machine over them: its initial states choose the
data (a mailbox, folders, an account, candidates, attachments, a part), its steps what
is asked of them, and each property says of one kind of request that the answer is the
promised one. The inputs are constants; `InputsAssumption` says what they are like and
bounds none of them. `MCAlgorithms` gives them small values.

### SetUp

The Keychain is a function from items (prefix, identifier, login) to passwords;
`RunTime` is what an IMAP request would connect with, put together as
`_resolve_imap_config` and `get_imap_password` do it. `Start` is
`run_setup_imap`; `TypePassword`, `SetLogin`, `SetServer` and `Accepted`,
`Rejected` or `Unverified` are an attempt, one step per write; `Rejected`,
`UndoLogin` and `UndoServer` are the roll-back, `Uninstall`, `DropLogin` and
`DropServer` are `--uninstall`, and `Killed` may come between any two. The commands
take the account's name; a tool may be called with its UUID, for which run time looks
up the override of the UUID and finds none. `Revoked` comes between runs. The specification is named `SetUpSpec`, with `SetUpInit` and
`SetUpNext`, so that a module can extend it together with `ImapPool`.

## 4. What is checked

| Run | Instance | What it shows |
|---|---|---|
| `pool` | 2 threads, 2 keys, 3 clients | `CachedLive`, `NoLeak`, `ExclusiveUse` in every interleaving; `CallsReturn`: the nested locks never block each other |
| `gate_sends` | 4 calls of 2 operations, limit 2 in 2 ticks, 3 ticks | `WindowBound`, `AskingIsFree`, `ConsentBeforeAct` for a tier that runs on the loop |
| `gate_rules` | 3 calls, of `delete_rule` and a worker tool | `ConsentBeforeAct` with an await in the gate; `RequestsEnd` |
| `sends` | 2 composes (one with a missing file), 1 reply, 2 recipients | `NoSecondCopy`, `OneSentCopy`, `ReportIsTrue`, `SendsEnd`, `ImplementsSendOnce` |
| `drafts` | one create, two updates and a delete with script errors, timeouts and crash; or two creates and an update, with drafts named by any id and taken for each other; late drafts in both | `Conserved`, `OneDraft`, `SeedKept`, `NoOrphans` |
| `moves` | 2 calls on 1 message, 3 copies, all kinds of server, another client | `Conserved`, `OneCopy`, `CountIsTrue` |
| `tree` | 2 calls, 4 mailboxes, INBOX and [Gmail], 1 message, 1 edit by the owner, 3 kinds of server | `DestroyedWhereAsked`, `StagingFailsOnlyWhenSpoilt` |
| `rules` | 2 calls, lists of 1 or 2 rules (also of one name), 1 edit by the user | `ConfirmedRule`, `DangerNeedsYes`, `ReportIsTrue` |
| `reads` | 2 threads, 1 account, reads of 6 kinds | `ReadsDegrade`, `BreakerCloses` |
| `thread_absence` | 1 thread, 2 accounts | `AbsenceEstablished` violated: see findings |
| `algorithms` | 460,000 inputs | `NewestMatching`, `AllFoldersExact`, `WholeThread`, `WalkClosed`, `CapsHold`, `NothingOverwritten`, `WindowExact` |
| `setup` | 3 commands of up to 2 attempts, 2 passwords, 2 hosts, 2 ports, 2 logins | `VerifiedIsUsed`, `RefusedIsForgotten` |

`pool`, `sends` and `drafts` also check their module's `TypeOK`. For every property
of a passing run, PROJECT.json names a mutant of the code that breaks it.

### Bounds

- *Pool.* Two threads are a holder and one that waits, stores a new entry or
  closes; three clients let each of them have one and one be left over. With
  timeout 0 every idle entry is stale after one tick. What the proof shows for
  any number of them, liveness aside, needs no larger run.
- *Gates.* The limit is 2 so that a window can be full with a slot given back;
  four calls can fill it twice. Three ticks of a window of two let slots expire
  at both edges. `gate_rules` is about consent and ends, so its clock may tick
  once and its limit binds only through the number of calls.
- *Sends.* Every send touches the shared breaker and lock only, so three of them
  (one without a file, one reply) show every way two can disturb a third.
  `BreakerTTL` is small because only zero and non-zero differ.
- *Drafts.* `MaxId` is the number of drafts that can be made; a call that finds
  no number left does not make one. `Bounded` in `MCDraftLifecycle` keeps the run to
  two families of behaviours that share their beginnings. With one document, two
  updates and a delete reach every pair of racing calls and a chain of two updates,
  with every failure. With two documents, one of them not a forward, an update and
  three drafts are what it takes for a draft to be named by its other id or taken
  for another's; failures add nothing there but time, and the proofs cover both
  together.
- *Moves.* Two calls on one message with one foreign move: two messages in one
  batch were checked once with 4 copies (7.9 million states, no violation) and
  left out of the run for time. `MaxCopies` 3 allows one copy left behind by each
  call.
- *Tree.* The starting trees have a mailbox that is also inside the staging
  mailbox, one whose name differs from it by case only, and one whose name begins
  with it; in one of them a mailbox is left under "To Delete" whose parent has been
  deleted. Two names per leaf (`SuffixLimit` 2) are one that is taken and one that
  is free. Names need no more: paths are compared for equality and inclusion. What
  the two calls may ask for includes INBOX, a mailbox below [Gmail] and one whose
  name ends in a number.
- *Rules.* Two positions and two names give lists in which a name is unique, is
  repeated, or moves; one edit shifts them once for each call.
- *Reads.* A call touches one account at a time and shares its breaker, so two
  calls on one account show every race of theirs. Two accounts are needed only
  for the anchor's probe.
- *Algorithms.* Mailboxes of three messages over three days with chunks of two
  have a chunk that is not full and a day that the cutoff divides; the server's day
  is the caller's or runs half a day ahead of it. Three folders,
  one of them `\All`, at each place in LIST. Three messages with at most two
  copies each are the smallest thread with a grandparent and with siblings; what
  servers offer, in every combination, is combined with one choice of subjects and the choices of subjects with
  one such combination, since IMAP looks at no subject and Mail at no server. The walk has three candidates that name any of four ids, so chains in both
  directions. Caps 2 and 3 over three attachments of 1 to 3 bytes reach each cap
  at and above its limit. A line of 8 characters stands for 76 and a tail of 12
  octets for 96: parts of up to 24 bytes have up to four lines, all paddings, and
  a last line that is full, that is not, and that has no end.
- *Set-up.* Three commands with two attempts each: the second meets what the first
  left, and the third what a roll-back or an uninstall that was cut off has left. One of the two hosts is iCloud's, one of the two ports is right.

Most runs have no deadlock check because the modelled calls simply end.

### Fairness

`pool`, `sends` and `reads` assume weak fairness of each thread's own steps:
threads are scheduled, and every wait has a timeout of its own (the socket's, the
lock's in `_run_applescript`, `osascript`'s). A lock of the pool need not be fair
to its waiters: the steps that take one are only weakly fair, and `pool` assumes
instead that only finitely many tools are called. A session ends because its
block is a fixed number of IMAP commands with socket timeouts. `reads` also
assumes that time passes. `gate_rules` assumes that the event loop runs what is
ready, strongly so for a lookup, which needs the loop free at the moment it is
scheduled; a prompt ends by `fail_after`. Nothing is assumed of users, clients,
servers or Mail.

### Findings

`thread_absence` ends with a counterexample: `get_thread` passes over an account
whose breaker is open without counting it among those it could not check, and so
says that a message does not exist which nobody looked for. PROJECT.json quotes
the lines that promise otherwise.

The following were met in the same way while modelling. Where a property is
named, it is defined in the module and TLC refutes it when it is added to the
configuration of that module's run (or to a variation of it, where one is given).

- *Pool.* `HolderKeepsClient`: `last_used` is only bumped when a block ends, so a
  long block looks idle and its client is logged out under it. A waiter can also
  get the client that the holder's failure has just logged out
  (`imap_connector.py:201, 219`).
- *Gates.* `RateLimiter.check` is test-then-append without a lock: `WindowBound`
  fails for a tier with worker threads (`Ops`, `Confirmed` and `LooksUp` as in
  `GateRules.cfg`). It fails without worker threads too: a refund takes back the
  newest slot (`security.py:181`, `:210`: "Undo the slot check_rate_limit just took"), and
  when the operation looks something up between its check and its gate
  (`server.py:579`), that may be the slot of another call (five calls of
  `delete_rule` in a tier of two, all else as in `GateSends.cfg`). The digest leaves out message ids and bodies
  (`server.py:2753`): a yes to one bulk delete is a yes to another of as many
  messages in the same place.
- *Sends.* Refused recipients among accepted ones are not reported
  (`smtp_sender.py:223`). A reply through AppleScript passes no test-mode guard
  (`mail_connector.py:6587`). A lost SMTP reply leads to a second delivery by
  Mail, which `SendOnce` allows.
- *Drafts.* `RefusalKeepsDraft`: an update of a draft that would leave it without
  recipients deletes the draft and is then refused. The id diff takes whatever
  draft surfaces first for its own (`mail_connector.py:6846`), and a draft named
  by its other id has no record under it, so that what a forward carried is lost
  (`server.py:3107`): `SeedKept` and `NoOrphans` without `strayed` are refuted by
  each of the two. `delete_draft` says "not found" of a draft that it has deleted
  when its script fails behind the delete (`mail_connector.py:5406`).
- *Moves.* `ZeroMeansAbsent`: a move whose IMAP attempt fails opens the breaker;
  the fallback's id look-up skips accounts with an open breaker and answers
  "absent", and the call succeeds with 0 updated. Numeric ids move nothing over
  IMAP, with the same report (`imap_connector.py:2242`). The scan of all mailboxes
  has the hazards of the move at each of them (`mail_connector.py:5761, 5482`).
- *Mailboxes.* `NotFoundIsTrue`: on a server with a prefix or another delimiter
  `delete_mailbox` and a move by `update_mailbox` give the server Mail's path as
  it is, and do not find it. Mail that arrives between the count and the DELETE
  goes with a mailbox that was to be deleted only when empty. `stage_mailbox` takes a
  name that is in no LIST for free (`imap_connector.py:2151`); when its holder was
  deleted for good and a child was left, a mailbox with a child of that name cannot
  be staged until the owner removes it, since the server refuses the RENAME: the
  exception in `StagingFailsOnlyWhenSpoilt`. The docstring of `delete_mailbox`
  (`server.py:2547`) has INBOX refused in every case; the real delete leaves it to
  the server.
- *Rules.* A name that two rules share passes the guard for either
  (`mail_connector.py:1844`). A move to a mailbox that does not exist fails behind
  the statement that turned the action on.
- *Breaker.* A success that began before another thread's failure clears the
  breaker that the failure opened (`mail_connector.py:1147`).
- *Search.* A limit of 0 means all messages, one or none, by backend. The claim
  that whichever backend answers shows the same messages needs UIDs in the order
  of dates, and `window_fully_covered` (`mail_connector.py:632`) can be true when
  they are not. It also needs a server whose day is not behind the caller's: SINCE
  compares the server's date of a message with the caller's date of the cutoff
  (`mail_connector.py:2366-2369`), so a server some hours to the west leaves out
  messages that arrived after the cutoff; `SearchFindsNewest` without `DatedInTime`
  is refuted by them. `imap_connector.py:1355` says "oldest-first to match every other
  search path", which AppleScript and the local index are not.
- *Threads.* A server's THREAD misses a parent in a folder where nothing refers
  to the anchor (`imap_connector.py:2887`). A folder that will not open counts as
  one without the anchor (`imap_connector.py:1893, 1915`). `walk_thread_graph`
  returns its members in the order of their acceptance, not "in their original
  order" (`utils.py:550`); `get_thread` sorts them afterwards.
- *Attachments.* An attachment `2_a` before two named `a` is overwritten
  (`mail_connector.py:598`). A part in unwrapped base64 of more than one line's
  length has a size that a wrapped one could have; the fall-back that a comment
  promises for it (`imap_connector.py:818`) is not reached. When Mail's save of
  some files fails, a file of that name that was there before is listed and may be
  pruned (`mail_connector.py:4299`). With a per-file cap above the total cap the
  `.eml` may exceed the total (`mail_connector.py:4365`).
- *Set-up.* Run time does not use what was verified in the cases `VerifiedIsUsed`
  excepts: a later run that gives only one of `--host` and `--port` drops the
  other (`imap_overrides.py:167`), a `--host` to or from iCloud changes the login
  that run time derives, and a password in the environment comes before the one
  verified. Overrides are stored under the account's name, which is all that the
  command takes; a tool called with the account's UUID does not find them
  (`mail_connector.py:2047-2077`), so `VerifiedIsUsed` claims that case only where
  there are none. The
  roll-back deletes an item and overrides that worked before the attempt
  (`cli.py:109`). The override files are written in place; one cut short reads as
  empty and loses the other accounts at the next write.

## 5. What is proved

The proofs are in the modules whose names end in `_proofs`: one per component,
except that `Connections_proofs` has those of `ImapPool` and of `SetUp`, which share
no name and do not use each other, and that `ReadBackends_proofs` also has those
about `MailSearch`, `Threads`, `Attachments` and `Algorithms`, what the reads compute. They hold for all
values of the constants that satisfy the named assumptions (`FreeAssumption`,
`NoConnAssumption`, `IdleAssumption`, `GateAssumption`, `SendAssumption`,
`DraftAssumption`, `MovesAssumption`, `TreeAssumption`, `ReadAssumption`,
`SetUpAssumption`, `NoInvocation`, `RuleAssumption`, `SearchAssumption`,
`ThreadsAssumption`, `AttachmentsAssumption`, `InputsAssumption`): a sentinel is not a member of the set it stands
outside of, bounds are natural numbers, requests have the fields their kind has,
and the kinds of call do not overlap.

- **ImapPool** (`TypeCorrect`, `CacheSafe`, `NothingLeaks`, `MutualExclusion`).
  The invariant `IInv` first says that locks are where `pc` says (`EntryLocks`,
  `CacheLocks`, `Locals`). That is not enough: a client is logged out under its
  entry's lock or, when stale, under the cache lock. So it adds that one client
  has one slot (`OneSlot`), that a session's client can only be cached under its
  own key (`OwnKey`), that a thread about to log a client out has it out of the
  cache already (`Popped`), and that a connecting thread's slot is empty (`Slot`).
- **ConfirmGate** (`Consent`, `AskingCostsNothing`, `CallsAreLimited`,
  `SendsAreLimited`). Answers exist only to what was asked, a request's answer is
  one of them, and only the older protocol has an open prompt. For the limit, the
  calls that were asked about have left no slot (`Frugal`), and at any time the
  deque has as many slots in the window as there are calls with a charge in it
  (`Covered`); so a call that finds room in the deque finds it among the calls
  (`Room`), also when the clock ticks before it appends (`Turns`: while one is
  between its two halves nobody else is). Slots are appended in the order of time,
  and a refund takes the newest, which is its own (`Refund`). This needs what the
  findings say it needs: that every operation of the tier asks (`AllAsk`, so that
  `check` runs on the loop), and that no refund meets the slot of a call that looks
  something up (`Regular`). The sends tier has both on either protocol; where a tier
  lacks one, `WindowBound` is false (see findings).
- **SendPath** (`TypeCorrect`, `NeverTwice`, `FiledOnce`, `Truthful`,
  `Implements`). Copies are counted by way: at most one by SMTP (`BySmtp`) and one
  by Mail (`ByMail`), and both only after a lost reply. `Implements` is the
  refinement of `SendOnce`: each step is one of its steps or a stutter under the
  mapping, for any sends and recipients.
- **DraftLifecycle** (`TypeCorrect`, `NoFork`, `NothingLost`, `SeedFollows`,
  `StoreIsSwept`). A document is like a token: it is
  a live draft, a sent message, or held by the one call that deleted it and has
  not made it again (`Holds`). `Tokens` says there is at most one of these for
  every document no APPEND of which went unheard. The delete succeeds once, so
  two updates cannot both hold it. `NothingLost` needs the same invariant; the two
  about what a draft was made as need `Lineage`. Its parts say, of the documents that
  have not strayed, that the versions of a document form a chain with at most one that was answered and not replaced
  (`Chain`), that a call names a draft of the document it means (`Named`), where a
  draft and its script may be at each step (`Places`), that what a call carries
  from the old draft to the new one is what the document was created as (`Seeds`),
  and that a draft which was answered has its record, and a record its draft or a
  call that is at the delete of it or was cut off there (`Records`). Nothing is assumed of how calls name drafts, of when Mail shows them or of what the
  snapshots hold: the steps that can mix two documents up put both into `strayed`, and
  leave the others as they were (`NamesLineage`, `PollLineage`). For a document in
  `strayed` the two properties are false (see findings).
- **MessageMoves** (`NothingLost`, `NoneDoubled`, `CountsTruly`). STORE flags whatever the session has found, so
  `Conserved` alone says nothing about the step. `Spare` does: between COPY and
  EXPUNGE every message has an unflagged copy whose UID the session did not find.
  COPY makes that copy. It lasts because a UID is never used again (`Uids`), because
  a copy is expunged only when flagged, and because nobody else flags anything
  while the session lasts (`Sessions`). Other clients may move every copy meanwhile
  and expunge what they find flagged. For `NoneDoubled`, `Sole` says of any two
  copies of a message nobody has disturbed that a session between STORE and EXPUNGE
  holds the UID of one; `Marked` and `Flags` say that its EXPUNGE then removes it. For `CountsTruly`, `Counted` relates the UIDs a session holds, the ids a
  script has been through and the number it has counted to the messages the call
  has moved: the count is of different messages, so it is at most their number.
- **MailboxTree** (`TypeCorrect`, `DestroyedOnlyInStaging`, `StagingSucceeds`). A call counts and deletes only behind
  its prompt, and comes to the prompt only through the check of its path
  (`Behind`); a call that has destroyed something is past the steps at which its
  path and its answer are set (`Settled`). `StagingByName` relates the tool's test,
  which does not mind the case, to the names. What the tree looks like, and who
  changes it, plays no part. It does in the other two. RENAME and CREATE leave each
  mailbox its own path: RENAME moves paths that were different to paths that are
  different and were free (`RenamedTree`, from `Transplanted` and
  `TransplantedOnce` about sequences). What a call knows of the tree stays true
  until something spoils it (`Steady`), because the others' commands either leave
  the tree or spoil the calls under way (`Beside`); so its CREATE and RENAME can
  only be refused by something under the free name.
- **Rules** (`RulesTyped`, `OnlyTheConfirmed`, `NoDangerUnasked`, `ReportsTruly`). The
  steps of a call before its script are the easy part: `Gated` says that it comes to
  its scripts only with the yes it needs, and has changed nothing until they run.
  What a script leaves, whole or cut off after any statement, is `Verdict`, and this
  is an induction over its statements (`Along`). The induction keeps two facts. `At`:
  the run has failed before it changed anything or at a lost mailbox, or it stands
  at the rule it means, which has no action but its old ones and those asked for,
  and has kept the ones the tools do not know. `Shows`: what the statements so far
  have set is still set. The second is where their order matters. `Undone` are the
  pairs of statements of which the later would undo the earlier (`off` reverts
  `enabled` and `on`; after `name` the reference is gone); `SettingsPlanned` and
  `EditsPlanned` say that the scripts of `create_rule` and `update_rule` have no such
  pair, for any call (`Plan`), and `PlanRuns` that such a script leaves all it sets.
  That the name at the guard is the name the user saw is `Confirmed`; that a refusal
  comes before any change is in `Gated`.
- **ReadBackends** (`TypeCorrect`, `AnsweredAnyway`). `OnTrack` says at which labels
  a call of each kind can be: those from which every way out ends with messages as
  long as Mail answers (`Steady`). Breakers, index, Keychain and servers play no
  part.
- **Threads** (`WalkReachesAll`, in `ReadBackends_proofs`). `WalkIsClosure` for any
  ids, headers and candidates, where `WalkClosed` enumerates three. After n passes
  the walk knows all that n widenings reach (`Reach`), because a pass accepts what
  was linked when it began (`PassSound`); what it accepts and knows stays within the
  closure (`Sound`), which holds for any number of candidates; and a widening that
  links no further candidate is the last that adds an id, so that there are no more
  of them than candidates (`ReachCloses`, by counting). The hypothesis is that the
  rows with one id of Mail's name the same ids (`OneEach`): they are copies of one
  message.
- **Attachments** (`RangeReadExact`, in `ReadBackends_proofs`). `RangeExact` for parts
  and ranges of any size, where `WindowExact` enumerates up to four lines; `Line` is
  any multiple of four, `TailSize` any number above two. The code knows a part only
  by the number of its octets, line ends included. `BodyOctetsExact` says that it
  finds the number of characters from it: fewer lines would not hold the octets, and
  a last line that is not ended cannot pass for one that is, since the characters
  are a multiple of four; `LinesTried` that the true number is among those it tries.
  `PlacesAre` says where each character lies, so a window from a group's place to
  another's has just the groups between them (`WindowHolds`), they decode to a run of
  bytes that begins at a multiple of three (`GroupsDecode`), and this run covers the
  range (`WindowDecodes`).
- **MailSearch** (`SearchesAgree`, `AllFoldersListed`, in `ReadBackends_proofs`).
  `SearchesAgree` for any mailbox and query: each backend answers with the newest of
  the matches (`ImapNewest`, `ScriptNewest`, `LocalNewest`). The three lists descend
  (`Descends`), and the front of a descending list holds the newest of its set
  (`FrontIsNewest`). For IMAP the work is in the loop: the chunks one after the other
  are the whole list, the newest first (`ChunksAre`), and what vanishes between SEARCH
  and FETCH is only missing where the limit was applied before the FETCH. The
  hypotheses are those the findings give: UIDs in the order of dates (`IsMailbox`), a
  limit of at least 1 and, for IMAP, a server that dates no message earlier than the
  caller does (`DatedInTime`). `AllFoldersListed` follows the rows of all folders
  (`RowsAre`), those that are kept (`RetainedIs`, where the order of the folders
  matters: a real folder's row has to come before the `\All` folder's) and the newest
  of these. It needs at most one `\All` folder, and distinct names and ids.
- **Threads**, the conversation (`EveryThreadWhole`, in `ReadBackends_proofs`). For any
  account whose replies carry their parent's References, each tier yields the
  conversation as far as the folders that open hold it. A message that names one of
  the conversation is of it (`ConversationCloses`), so the walk stays inside
  (`WalkStays`), and the header searches find in each folder what names the root or
  the anchor (`HeadersAre`, `FolderHitsAre`). Mail's tier needs that no subject
  was rewritten, and the property says so. Where the answer is THREAD's, the property
  claims only what `ByThread` finds (see findings).
- **Attachments**, the saves (`SavesWithinCaps`, `SavesEach`, in `ReadBackends_proofs`).
  `CapsKept` and `EachKept` for any attachments, selection (an index may be repeated),
  directory and message. Bytes of files fit into a total when each file is one step of
  a running total, and each another step (`BytesFit`, from `StepsFit`: take the last
  file's size out of the total from its step on). Through Mail the running total is
  the pruning's own (`PrunedIs`); from the message it is that of the sizes allowed
  (`TargetsFit`) with one step more for the message (`SavedFit`). For `EachKept`, two
  targets have one file only when they are one attachment (`KeysAgree`): a name with
  the index in front is longer than one without, and two such names are equal only
  when the indices are. So what is written is what was budgeted, and the pruning
  removes nothing (`PrunesNothing`). The premises are in the properties: a cap per file
  no larger than the total for the first, names that do not begin with such a number
  for the second; without either they are false (see findings).
- **Algorithms** (`AlgorithmsSearch`, `AlgorithmsFolders`, `AlgorithmsThread`,
  `AlgorithmsWalk`, `AlgorithmsRange`, `AlgorithmsCaps`, `AlgorithmsSave`). The
  theorems above as invariants of `AlgorithmsSpec`, the properties of the run
  `algorithms`, for all inputs that `InputsAssumption` allows. `Chosen`, what has been
  chosen so far, is the invariant behind them.
- **SetUp** (`WhatWasVerified`, `WhatWasRefused`). A run computes host, port and
  login once and then writes the stores one by one; run time computes them from the
  stores. `Coordinates` and `Login` say at each step of a run that what was not
  given on the command line still comes out of the stores as it did, `Item` that
  the password is where it was written. `Refused` says that a refused password is
  gone from the item the attempt wrote, from which `RefusedIsForgotten` follows.

Only model-checked: liveness (`CallsReturn`, `RequestsEnd`, `SendsEnd`,
`BreakerCloses`), since TLAPS has no rule here for fairness and ENABLED.
`AbsenceEstablished` is false.

How recursion is proved about. The library's induction theorems take an operator,
which the installed provers cannot instantiate. The proofs go round this: a loop is a
recursive function of the number of its steps, the numbers for which a fact holds are a
set, and the least number outside it gives the contradiction (`Along`, from `WFMin`).
That such a function has the values its equation says is `Recursion`, once for each
loop (the lemmas whose names end in `Stepwise`). This is why the modules have `Only`
and `Sorted` instead of the library's filter and sort, and `Digits` instead of
`ToString`, of which the provers know nothing.

## 6. What is not modelled

- Text: AppleScript source, MIME, BODYSTRUCTURE, escaping, parsing, SQL, error
  wording. Where a conversion decides something (a digest, the form of an id, a
  mailbox path on the server), its effect is a constant or a predicate.
- The content of a draft that an update merges; flags and read state, which are
  idempotent; combined patches, moves without `source_mailbox` (a scan of all
  mailboxes), and the unchecked `delete` script.
- `list_accounts`, `list_mailboxes`, `list_rules` and `diagnose_mail_access`, which
  read once and compute nothing; the provider table, which words prompts.
- A symbolic link in the directory of a save: the code follows one that lies under an
  attachment's name and leaves that attachment out when it points elsewhere
  (`mail_connector.py:600-604`); in the model a directory has files only.
- A THREAD or X-GM-THRID search that fails in some folders and not in others: a tier
  is taken as a whole. Messages in INBOX and its children, which `MailboxTree` knows
  only as a name that is always there; the delay with which Mail sees what IMAP has
  done to the tree and the reverse. An override file or a seed store cut short by a
  kill in the middle of a write.
- Templates and server plumbing, which hold no state that waits; the address
  matching of test mode.
- `RateLimiter.reset`, which only tests call, and the connector's
  `set_rule_enabled`, which no tool calls any more.
