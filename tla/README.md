# TLA+ models of arqan

arqan is a terminal coding agent in C17: it keeps a conversation with a model provider, runs the
tool calls the model makes, and saves everything in a session transcript. The program is
`src/src/*.c` (a unity build through `main.c`) and a helper process for syntax highlighting
under `src/highlight`. This directory keeps TLA+ modules of the parts where order, failure and
several processes matter, TLC configurations that check them on small instances, and TLAPS proofs
of what holds for every instance.

    tlc -config AgentTurn.cfg AgentTurn          # a model-checking run
    tlapm SessionLockProofs.tla                  # a proof

`PROJECT.json` lists the runs, the mutants that show each property can fail, the lines of C every
definition stands for, the findings, the hazards and the theorems.

## The system

| Component | State | Operations | Talks to |
|---|---|---|---|
| agent turn (`main.c`) | conversation, round, interrupt flag, plan handoff | submit, request, store, name, run calls, batch, compact, hand off, end | provider, tools, session store |
| task workers (`main.c`, `subagent.c`) | slots, worker processes, a log per worker | start, wait, collect, drop, pump, release | forked workers over a log file and a lifeline pipe |
| task event log (`tasklog.c`) | an append-only file of lines, a line buffer | begin, event, read | worker and parent |
| session lock (`session.c`) | lock files, descriptors, flocks | take, probe, prune, drop | other arqan processes through the directory |
| session store (`session.c`) | transcript files, a Session per process | begin, save, fork, rewind, resume, delete, update | session lock, agent turn |
| provider run (`provider.c`) | stream state, retry counters, thinking blocks | post, take events, judge, retry, store | HTTP, conversation |
| HTTP transport (`http.c`) | one or several libcurl transfers | stream, reply, fetch pages | libcurl |
| context (`context.c`, `provider.c`) | elide boundary, image cut, checkpoint | elide, cut, split, compact | agent turn |
| cache guard (`main.c`, `provider.c`) | the request before, a declared cause | declare, observe, stop | agent turn |
| providers and keys (`endpoints.c`, `secrets.c`, `favorites.c`, `config.c`) | settings, credentials, a key store, favourites, the connection in use | add, edit, choose, pin, delete, start | the user, files, key stores |
| settings and state files (`settings.c`, `core.c`) | small files | read, change a section, replace | other arqan processes |
| permissions, plan mode (`main.c`, `classify.c`) | grants, mode | authorize, submit plan, ask | the user |
| shell jobs (`tools.c`, `spill.c`) | a command, job slots, drainers, log files | run, time out, detach, poll, wait, kill, note | shell, pipes |
| file tools (`tools.c`) | files | read, write, edit, apply a patch | disk |
| MCP (`mcp.c`) | servers, processes, connections, request ids | read the file, approve, connect, request, cancel, restart, shut down | server processes, HTTP |
| web (`web.c`) | fetched pages and their files, engines and their pauses | fetch, search, forget | HTTP, disk |
| images (`media.c`, `main.c`) | one table, pending images, markers, files | attach, bind, carry, cut, save, resume | composer, provider, session store |
| todo, progress (`todo.c`, `progress.c`) | the step list, the run ledger | update, sync, note, checkpoint | agent turn |
| prompt history (`history.c`) | a list of prompts in an arena, a file several instances share | load, add, append, write anew, recall | composer, other arqan processes |
| code search (`codesearch.c`) | the matches of one search, a spilled result | stream, keep, sort, resolve, page | ast-grep, disk |
| highlight (`highlight.c`, `highlight/`) | a helper process, strikes | ask, answer, give up | the helper |
| terminal interface (`tui.c`) | the view's text and its ranges, the composer, the screen | write, find, edit, queue, recall, scroll, paint, copy | the terminal, agent turn |
| rendering, parsers, documents, vendored code | none | | |

What is hard in it: workers and a parent that die at any moment and speak only through a file;
several arqan processes in one directory that share transcripts; appends that fail half way;
interrupts that are only a flag looked at now and then; and one loop, the turn, in which the
conversation in memory, the transcript on disk and what was really executed must stay in step.
`PROJECT.json` names each hazard at its line with the properties that watch it, or says why none
does.

What makes the components correct, in the order of weight:

- turn: a request carries every call with its result; the transcript replays to the conversation;
  a batch's row is never more than one step behind; a denial ends an unattended run; an approved
  plan is carried out.
- session lock: one process at a time has a transcript; a lock file's name leads to the inode its
  holder locked; only the holder unlinks it.
- session store: a transcript holds exactly what its instance saved; a fork that fails gives
  everything back; no transcript is removed under a live instance.
- task workers: a task is answered once, with its own worker's words; no worker is lost or
  outlives the parent; nothing a worker said is lost unread; each event is heard once.
- provider and context: the stored reply is what was sent, through retries; a result stands under
  its own call; a request continues the one before or says why not, and pairs what it holds.
- providers: the session and the next start agree on the connection; no key serves another
  provider.
- jobs and MCP: a process, pipe or log has one owner; an end is told once; an answer answers its
  own request; a call is sent once.
- patches, settings, pages: only what was marked, asked for or owned is changed.
- code search: every call stands once under the function around it, and every line on one page.
- history: what an instance sent it recalls, and the next one finds it in the file.
- interface: ranges cover the text they were made for; a message reaches one turn as it was typed;
  the screen shows the text and does not move under its reader; a marker keeps its image.

## The modules

| Module | What it is |
|---|---|
| `AgentTurn` | the turn with its calls, saves, interrupts, compaction, handoff, and the commands between turns |
| `TaskBoard` | abstract: tasks are started, settled once, forgotten |
| `TaskWorkers` | slots, processes, logs and the loops of the `task` tool; implements `TaskBoard` |
| `TaskWorkersProofs` | theorems about `TaskWorkers`, and that it implements `TaskBoard` |
| `SessionLease` | abstract: a path is leased to one owner |
| `SessionLock` | names, inodes, descriptors and flocks; implements `SessionLease` |
| `SessionLockProofs` | theorems about `SessionLock` |
| `SessionStoreProofs` | theorems about `SessionStore` |
| `AgentTurnProofs` | theorems about `AgentTurn` |
| `JobsProofs` | theorems about `Jobs` |
| `McpProofs` | theorems about `Mcp` |
| `HighlightProofs` | theorems about `Highlight` |
| `ProvidersProofs` | theorems about `Providers` |
| `SessionStore` | transcripts over the lease: composes the actions of `SessionLease` with the code of `session.c` |
| `MCSessionLock`, `MCSessionStore` | symmetry sets for TLC |
| `TaskLog` | the lines between a worker and its parent |
| `ProviderRun` | a request, its stream, retries, and the stored round |
| `Prefix` | what requests send of the conversation, elision and the cache guard |
| `Ledger` | the step list, the run ledger and the checkpoint |
| `Media` | the image table, markers, and what saves and requests make of it |
| `Transcript` | the view's text, its ranges and the search |
| `Composer` | editing, recall, commands and the queue |
| `Screen` | rows, frames, scrolling, the pager, copying |
| `HistoryFile` | the prompts several instances keep in one file |
| `MCInside` | the eight above it from `ProviderRun` on, side by side |
| `Jobs` | commands, jobs, drainers and their logs |
| `Mcp` | server configuration, processes and requests |
| `Patch` | a patch parsed, matched, applied and written |
| `StateFiles` | settings files and keys under several writers |
| `Web` | kept pages and the chain of search engines |
| `CodeSearch` | a search for callers, from the stream of matches to the pages |
| `Http` | streams and parallel fetches |
| `Highlight` | the helper's protocol |
| `Providers` | provider dialogs, keys, favourites and the next start |
| `MCOutside` | `TaskLog` and the nine from `Jobs` on, side by side |

### AgentTurn

The conversation is a sequence of slots with a role (user, note, reply, the head of a round, call,
result), the number of the call, and the number of rows of a batch result. `file` is what a replay
of the transcript gives, so an append, a `tool_update` line and a rewrite are each what they do to
that replay. One action is one stretch of `agent_turn` between two points at which an interrupt, a
failing write or a death of the process makes a difference: `TurnBegin` (where the flag is
cleared), `RequestStart`, the three replies of `provider_run` with the save that follows,
`StoredInterrupted`/`StoredError`/`StoredOk`, naming, `JudgeText`/`JudgeCalls`, the calls of
`run_round_calls`, the steps of `batch_answer`, `RoundEnd`, `TurnEnd`, `Handoff`. `add_result`
and `save_session` are part of the action that calls them. Which branch of `run_round_calls` takes
a call depends on its name and arguments, which are any, so every branch is enabled. What depends
on tokens (whether the context is over its mark, where the split falls among the round starts) and
on the user is a choice.

History variables: `did` (steps executed), `left` (calls that a turn cut short left without
results), `missed` (results whose update was refused), `lapsed` (those of `missed` whose process
died: the resume forgets the refusal, and the rows in the file stay behind for good). The locals of a turn are reset at its end,
because they are locals.

Left out: elision of old results, media, touched paths, the mode, the queue of messages (a queued
message ends the turn, a choice of `RoundEnd`), running out of memory, a failing `close` or
directory sync, the read-only session (see `SessionStore`), the moment between the check of the
flag and `compact_summarize` clearing it, ids a provider repeats, the insides of a task.

### TaskWorkers and TaskBoard

`w` is the array of slots, `proc` the worker processes, with the log and its terminal event; the
parent has a program counter for `task_answer`, its wait loop and the pump. Reading the log and
reaping the process are separate actions, as they are separate system calls, and the worker runs
between them. `ProcStopped` is `task_worker_stop`, which always reaps. `Here...` is the fallback
that runs a task in slices inside the parent when no worker can be started.

Left out: the view of a task and its events, the framing of log lines (a report of 8K always fits
a log line of 64K), a refused start that changes nothing, the restart of the executable. Out of
rounds and finished are both "reported". A retired slot is a blank one. An interrupt is modelled
where the code can see it, inside `task_answer`.

### SessionLease and SessionLock

One action per system call on the directory or a descriptor: open, flock, stat, close, unlink.
Inodes are reused once nothing names or holds them. The loop of `sess_lock_take` is bounded by
`MaxTries` (8 in the code) and answers HELD when it is used up. A file system without flock and
the other errors of `open` are left out. The refinement maps the owner of a path to the process
whose kept descriptor has the flock.

### SessionStore

Each instance has its Session, its conversation and the program counter of the operation it is in;
a transcript is the rows that can be read from it and whether a line cut short ends it (`rows`,
`torn`), so that what is glued to such a line is lost to a reader as it is in the file. The lease is that of
`SessionLease`, whose actions it takes, and a refusal is possible whenever another instance exists,
because a probe looks like a holder. An append may stop half way and then may or may not be rolled
back. A new session may take the name of any timestamp that does not exist.

Left out: titles, media files, elide marks, `tool_update` lines (in `AgentTurn`), the cleared flag,
directory sync, the answers a resume adds (in `AgentTurn`).

### TaskLog

A byte of the file is the event it belongs to and its place in that event's line, so a cut line and
a line glued to another one are what they are in the file. A write may take only the first bytes; a
failing one leaves the line cut and the log full. The reader takes what is there, any number of
bytes that fit its buffer. `HeldBack` is the full flag's exception for the terminal event.
An end after a cut line shares its line and is not heard; `EndHeard` says so (`failed`).

### ProviderRun

`Posted`, the events of both wire formats as `on_line` hands them on, `Returned`/`Judged` (the
verdict on an attempt: stored, tried again or given up), `BackedOff`, `Interrupt`, `Stored`,
`ResultAdded`. `sent` is what the provider really sent in the attempt that counts. `RoundTrue` says
that the replay of the stored round has every signed thinking block where it stood among the calls,
and none of an earlier attempt, and that a result is paired with the call of its round that asked
for it when the ids of a round are distinct. Repeated ids are in the model (`Ids` holds one empty and
two others, and a round may use one twice).

### Prefix

Slots with what elision looks at; one action for a round: the request is built (`elide`, `cut`),
compared with the one before, and answered. The provider is a perfect cache. `RequestsTrue` is
`PrefixStable` (an undeclared miss has one of two named reasons) and `PairsSent`. The two reasons are
disagreements of the code with its documentation: tools a server brings at the start of a turn
(`mcp_refresh`, main.c:6009) and a `/compact` that keeps a tail (main.c:5571-5658) rewrite the
prefix and declare no cause, so the guard calls the next request an unexpected miss and, when it is
set to stop, ends the turn; README.md:302 and CHANGELOG.md:774 of the repository say otherwise.

### Ledger

`todo_sync` with its memory of slot and address, the notes' counters, the sections of a checkpoint.
Addresses are modelled as the life of the arena and the offset in it, since a resumed session starts
it again. `LedgerTrue` joins three statements: the list is that of the last call or checkpoint in the
conversation; the ledger counts what failed; a checkpoint accounts for every request. Also in the
code, and outside the statements: a refused todo call clears the list; `todo_parse_md` reads the
first "## Step list" heading; a rewind into a compacted tail shows the checkpoint's later list.
Left out: the wording of notes, summaries that bring a step list of their own, shell and note slots.

### Media

The table is a stack. Attaching by `/attach` and by paste, editing of markers (`media_keep`,
renumbering), binding, results with images, the cut of a request, saving with sidecar files, a lost
file, resume, rewind, compaction and handoff. `FitTrue` holds always. What a marker shows is stated
until an image is attached while a turn runs (`astray`): then the run of pending images at the end
of the table is broken by a tool's image or a queued message, and images are cut, overwritten or
lost (main.c:3281, 3449, 5305), although README.md:186 of the repository lets one attach at any time.

### Transcript, Composer, Screen

Three parts of `tui.c`. `Transcript` keeps text that remembers what it was written as, and compares
it with the ranges of offsets the program keeps while the text loses its front. `Composer` runs the
same editor at the prompt and in the callbacks of a turn or a printing command, with the popup, the
search box, questions and the view; what was sent and what reached a turn are compared. `Screen` wraps
the text into rows, keeps the checkpoints of the row index, and paints only rows whose hash changed,
with an action for each frame; `ScreenTrue` compares the painted rows with the text, the place of a
question and what a copy takes, `ReaderStays` says that new text does not move a reader who
scrolled up.

Exceptions, each a behaviour of the code: a view switched from inside `write_span` (`crossed`); a
message queued while an idle command prints (`early`), and one typed after `tui_queued_take` handed
out its buffer uncopied (`mixed`, main.c:6219); rows that stand in for hidden output, whose hash
misses their own offset (tui.c:1430, 1782); the first row after a loss at the front; a blank at the
end of a row that is one word wide, which copying drops (tui.c:742-781).
Left out: the mouse's hit areas, colours, Markdown, pickers' looks, wide glyphs.

### HistoryFile

Each instance loads the file, writes it anew when its list is full, and appends every prompt, with no
lock; `Exits` may come between any two steps. A file is an inode, so an append after the rename of
another instance goes into the file that lost its name, as in the code. The arena's bytes are a sum
of sizes, which is what `hist_compact` leaves. `HistoryTrue` says that the file has each prompt once,
those of an instance in the order they were sent, that none is missing unless a list's worth came
after it, and that an instance recalls the last it was sent. Four windows are excepted and collected
in `gone`: a line that comes between another instance's reading and its rename, or into the file that
was replaced; a write that failed; and prompts that fill the arena, where the list is kept and the
newest prompt is given up (history.c:60), although tests/cases/test_history.py:110 says a long file
keeps its newest. A file above `AGENT_MAX_HISTORY_BYTES` is not read and so never trimmed. `MCInside`
joins `TypedTrue` and `HistoryTrue` in `PromptsTrue`.

### Jobs

A run has a process, an output, a drainer and a log, each with an owner. The agent's step is where it
waits for the pipe; the world's are `Writes`, `ClosesOutput`, `Exits`, `Drains`. `JobsOwned` follows
descriptors, processes and files through time-outs, refused hand-overs and kills, `EndToldOnce` the
note a turn begins with. A command run again while its job lives replaces the job's log file, as the
name is a hash of the command.

### Mcp

The file is edited at any time; a server is known by its stamp. `StdioSend`/`StdioRead` are the loop of
one request with its deadline, `StdioLine` what a line makes of it: an answer, a question of the
server, chatter, or an answer to a request that was given up. HTTP requests have every outcome of
`http_rpc`. `OwnAnswer` and `CallRunsOnce` are about late answers and the retry of a request whose
connection broke. `/mcp approve` of a ready server starts a second process and loses the first
(CHANGELOG.md:597 of the repository says a server is not started twice); a part of a line the first
one left is joined to the first line of the second. The bounds let a server answer a call, and be
approved again after one. Left out: OAuth, the
differences between tools, prompts and resources.

### Patch, StateFiles, Providers

`Patch` parses one hunk at a time, matches exactly or by words, and applies all hunks of all files in
memory before the first write; the property compares each file with the marks of the hunks. A write
that fails midway leaves the earlier files changed. `StateFiles` has each system call of
`file_write_atomic` by two instances, a key kept in the file or in a store, and a death anywhere;
`OwnKeysOnly` says that a rename changes the asked keys of the asked section of the text that was
read. Two instances that read before either renames lose a change: there is no lock, and the
property does not claim one. `Providers` follows the dialogs over the config file, the credentials,
the store and the favourites with a failure at every write. `InUseTrue` says that the session and the
next start agree, that a key in use is the provider's own and that a deleted provider leaves nothing;
`torn` and `behind` mark states after a failure the user was told of or the code ignores, among them
a settings file that was saved and a key that was not, after which a new provider of an old name finds
the old key (main.c:4254; tests/cases/test_provider.py:710 says it does not). What is kept when
arqan starts is any files in which a key is in one place (`Tidy`) and no key is kept of a provider
that only the project's file has (`Bare`): editing such a provider and keeping its current key writes
its settings to the user's file and leaves the credentials as they are (main.c:4342,
endpoints.c:207), so that a key left there under its name would become its own without having been
given to it. Left out: small models,
connections from the environment or the command line.

### CodeSearch

A search for callers, the mode with the most to it. ast-grep sends the matches in any order, one to a
line; a line too long to hold is followed string by string (`Strings`, `Track`), which is how the tool
still finds its file and place. Then the files that mention the name are read, those that were
skipped are looked at, the records are sorted, each call gets the scope around it from a stack
(`Resolve`), and the result is shown in pages. `SearchesTrue` joins four statements: nothing is
dropped unsaid; a complete result lists each call once with its innermost scope; what was not
searched is named; the pages show each line once under its file. Exceptions, each a behaviour of the
code: a scope that begins behind a call on its line takes that call, as scopes are sorted first
(the comment at codesearch.c:1240 claims the innermost); a function named `ruleId` on a line too long
to hold is taken for the rule's name (codesearch.c:696); a file over `CS_MENTION_FILE_MAX` that
ast-grep did read is counted among the skipped. `MCOutside` joins `EntriesTrue` of `Web` and
`SearchesTrue` in `AnswersTrue`. Left out: the rules of each language, symbols and references, which
share the reading and the pages.

### Web, Http, Highlight

`Web` has the table of kept pages with expiry, replacement and the files that answers named, and the
chain of engines with pauses that grow with every refusal. A page fetched again writes over the file
an earlier answer named (web.c:944). `Http` cuts a body anywhere and lets libcurl hand over more than
one piece at a time: for a stream, a reply, an error body, and for several pages with strikes against
a host. After a stop more pieces may be dispatched, from the middle of a line (`late`, http.c:152).
`Highlight` has requests made inside a request, because the wait serves the keyboard; the inner one
reads the outer's reply, finds it is not its own and gives the helper up.

## The runs

| Run | Instance | Shows |
|---|---|---|
| `turn` | 5 slots, 2 calls in all, rounds of up to 2, batches of 2 steps, 1 failing write, 1 death | `PairedUnlessLeft`, `TranscriptKept`, `RowsTrue`, `HandoffKept`, `DenialStops` |
| `turn_unanswered` | the same | finding: `RequestsPaired` fails |
| `turn_recovered` | the same without naming | finding: `RecoveredIsSaved` fails |
| `tasks` | 2 slots, limit 1, 3 tasks | `AnsweredOnce`, `SilenceUnlessCut`, `ImplementsBoard` |
| `tasks_live` | 2 slots, limit 2, 2 tasks, fairness | `WorkersOwned`, `WorkersWord`, `OrphansStop`, `EndSeen` |
| `tasks_silence` | 1 task | finding: `SilenceIsTrue` fails |
| `lock` | 3 processes, 1 path, 4 inodes, 2 tries | `OneAppender`, `LockNamed`, `ImplementsLease` |
| `lock_refused` | 2 processes, 3 inodes, 8 tries | finding: `RefusedWhileLive` fails |
| `store` | 2 instances, 2 transcripts, 2 messages, 1 failing append, 6 operations | `LeasedTranscript`, `LeaseTracked`, `RecordsKept`, `ForkKeepsOriginal` |
| `store_blocked` | the same with 3 operations | finding: `BlockedByOwn` fails |
| `inside` | `MCInside.cfg`; eight modules, about 690,000 states | `RoundTrue`, `RequestsTrue`, `LedgerTrue`, `ImagesTrue`, `OverlaysTrue`, `PromptsTrue`, `ScreenTrue`, `ReaderStays`, `InsideTypeOK` |
| `outside` | `MCOutside.cfg`; ten modules, about 1,000,000 states | `JobsOwned`, `EndToldOnce`, `OwnAnswer`, `CallRunsOnce`, `PatchedAsMarked`, `OwnKeysOnly`, `AnswersTrue`, `TransfersTrue`, `ColoursOfText`, `InUseTrue`, `EventsHeard`, `OutsideTypeOK` |

`inside` and `outside` each check modules that share no variable. `part` says which module moves and
never changes; the others stay in one of their initial states (`Stands`), so the reachable states are
the union of those of each module and nothing is multiplied. `VIEW PartView` makes two states equal
when they differ only in a module that does not move; every property speaks of the variables of one
module, which are in its part's view, and holds of the other modules' initial states, which their own
parts check. No run composes two of these modules: where they meet (a queued message and the turn, a
patch and the approval), the other side is a choice.

Why the bounds are enough to be interesting. In `turn`, six slots hold a message, a round of two
calls with both results and a message after it, so a conversation fills up in the middle of a round
as well as between rounds; a compaction has something to summarise and something to keep; and two
calls allow one round of two or two rounds of one, with a batch of two steps in either. A second
failing write or a second death repeats what one does. In `tasks`, a limit below the number of
slots and more tasks than slots make a slot be used again. In `lock`, three processes are the
fewest for the race of an unlink, a new file and a late flock; four inodes are one for each process
and one to spare, and freed ones are used again.
`MaxTries` of 2 makes the retry and its exhaustion happen. In `store`, two instances meet in every
order over two transcripts, and six operations are enough for one to begin, fork, leave and resume
while the other deletes. In `inside`, a buffer of 14 or 20
characters makes the view lose its front with ranges over it; a line buffer of 3 and a history of 2
are full after a few of the six keys; four images of which three fit a request, and two ids that may
repeat, are the fewest that can be confused. A conversation of ten slots has three rounds over an
elision of one turn and one round; two instances over one history file are enough for every race
between a load, a rewrite and an append, and a list of two prompts is full when the third comes. In
`outside`, one job slot and two runs of one command make the second wait for the first one's slot and
share its log's name; two processes and two ids of a server meet in every order; a log of two chunks
overflows; three pages share two places; a search has trees in which
scopes nest, share a line with a call, or do not fit, with fewer records and less room than there are
matches, and pages of a few lines; the log of a task fills before its end, and its lines cross the
reader's buffer at every byte. `CHECK_DEADLOCK FALSE` is stated where the system stops: a run
with `-p` ends after its turn, and counters of tasks, faults and operations run out.

### Findings

- `turn_unanswered`: `provider_run` stores a reply with its calls, and the turn may end right after,
  on an interrupt during the save or while the session is being named. The calls stay in the
  conversation without results, and the next request carries them, which a provider refuses. A
  conversation that fills up in the middle of a round does the same to `/compact`.
- `turn_recovered`: when the update of a batch result fails, the next save says "session saving
  recovered" although nothing writes that result again.
- `tasks_silence`: an interrupt during a wait can make the parent say a worker stopped without
  reporting although its log holds the report.
- `lock_refused`: a listing that looks at a free lock makes another instance's resume say that the
  session is live elsewhere.
- `store_blocked`: after an append that could not be rolled back, the session resumed next in the
  same process refuses to save as well.

Each property that passes fails under at least one mutant of the code it is about, listed under
"mutants": operators named `<definition>_<bug>` beside the definition they replace.

## Fairness

Only `tasks_live` assumes any. Weak fairness of the steps of the workers and of the parent's wait
loop: both are loops over calls that return. Strong fairness of the wait's timeout, because the
clock passes its deadline whatever happens in between, and of the start of the pump, because it
runs on every idle callback of a provider request and every tick of the prompt, while a task call
may disable it in between. Weak fairness of the pump's steps. Nothing is assumed of the model, the
user, the provider or a process that is killed.

## What is proved

Each module `<M>Proofs` proves, for every value of the constants that satisfies the assumptions
of `<M>`, an inductive invariant and the properties that follow from it. TLC checked every
conjunct of each invariant on the instance of the run before it was proved.

- Task workers. The invariant is `TypeOK /\ SlotsOK /\ Distinct /\ ProcsOK /\ ToldOK /\ ControlOK`.
  The properties speak of answers, but an answer is taken from a slot, which was filled from a log,
  which belongs to a process: `SlotsOK` and `Distinct` tie each process to one slot, `ProcsOK` ties
  the log to its process's life, `ControlOK` says what the parent's loop has seen at each of its
  program counters, and `ToldOK` what was answered. Theorems: `TypeCorrect`, `OwnedWorkers`,
  `OneAnswer`, `OwnWord`, `NoLostReport`.
- Session lock. The invariant is `TypeOK /\ FlockOnce /\ Registers /\ LockNamed`. `OneAppender`
  alone is not inductive: a second process could hold a flock on another inode that once had the
  name. `FlockOnce` says an inode has one holder, `Registers` relates each descriptor to the program
  counter of its process, and `LockNamed` says that the name of a lease leads to the locked inode;
  it is kept because only a process that has the flock and has just seen the name lead to it
  unlinks. Theorems: `TypeCorrect`, `Exclusive`, `NameKept`, `OnlyHolderUnlinks`, and
  `LockImplementsLease`, the refinement of `SessionLease`.

- Task board. `BoardImplemented` proves that `TaskWorkers` implements `TaskBoard`. It needs, beside
  the invariant of the workers, that the slots in use never exceed the limit (`LimitKept`): an open
  task has a slot of its own, so an injection from open tasks to slots in use bounds their number.
  Every action of the parent is shown to be one of four kinds (start, settle, forget, nothing new),
  and each kind is a step of the board or a stutter.
- Session store. The invariant is `TypeOK` and, for each instance, `Control` (what the program
  counter says of the two sessions an operation deals with), `Locks` (the leases of an instance are
  those of its session, of the session it forks from or rewinds out of, and of its delete, all on
  different paths) and `Saved` (what each of the two has saved). `LeasedTranscript` alone is not
  inductive: the failure of a fork puts the old session back, so what the old one saved must be
  known while the copy is written. That the other instances keep the invariant follows from
  `Locks`: an action changes only a transcript whose lease its instance has. Theorems:
  `TypeCorrect`, `LockTracked`, `TranscriptLeased`, `NoneShared`, `LinesKept`, `ForkedKept`, and
  `StoreKeepsLease`, that the composition takes no step the lease does not allow.
- Agent turn. The invariant has eleven parts. `ConvOK` says which calls may lack a result anywhere
  in the conversation; `SettledOK`, `JudgedOK`, `RoundOK` and `BatchOK` say, at each stretch of
  `agent_turn`, which of them are those of the round in progress, so that the pairing holds again
  when a request is sent; `FreshOK` that a call not yet made has run nothing; `RowsOK` relates the
  rows of a batch result to the steps executed; `FileOK` the transcript to the conversation;
  `EndOK` the flags at the end of a turn; `SplitOK` a compaction to a round start. Theorems:
  `TypeCorrect`, `SavedAsHeld`, `RowsNearlySaved`, `PlanCarriedOut`, `RequestsPairedUnlessLeft`,
  `DenialEndsRun`.

  Preparing this proof showed that `RowsTrue`, as it was stated before, did not hold: when an update
  is refused, the process dies and the session is resumed, the rows in the file are more than one
  step behind and `missed` is forgotten. It takes three steps in a batch, and the run has two.
  `lapsed` remembers such calls and `RowsTrue` excepts them, as it excepted those of `missed`.
- Shell jobs. The invariant has a part for each job in the table (`TableOK`: whether it runs, was
  drained, was announced and was reported is what its process, its drainer and `said` say, and no
  two slots have one run), a part for the call (`CallOK`: the run of a command in the call is in no
  slot, has no drainer and was told of by nothing) and `JobsOwned` itself. A refresh sees some of the
  jobs and a detach may give a slot up after seeing a part of the table: `RefreshKeeps` proves once
  that what is tied stays tied for any set of slots seen, and `FreedIs` that the job which gives
  its slot up has ended and was told of. Theorems: `TypeCorrect`, `OwnedProcesses`, `NothingIsLeft`,
  `EndTold`, `SaidIsTrue`.
- MCP clients. A line of the buffer need not come from the process that is asked: `/mcp approve` of
  a ready server starts another one and leaves the buffer as it is. So the invariant is about ids:
  no answer in a buffer or a pipe has an id that was not given out yet (`SrvSound`), a request has
  an id above all of them, and what is read after it comes from the process that is held
  (`Speaks`, `Serves`, `Asking`). A replaced process belongs to no server any more, and nothing is
  said of it. For `CallRunsOnce`, a call ran only while its answer is awaited, and one that did not
  run is the only one that is sent again (`Once`). `After1Effect` shows once what may follow any
  request: the server stays as it is, or its process is stopped. Theorems: `TypeCorrect`,
  `AnswersOwn`, `CallsRunOnce`.

- Highlight helper. While a request waits for the helper the program goes on drawing, and drawing
  may ask again: requests nest, and share one pair of pipes. `ColoursOfText` alone says nothing of
  what is still under way in them. The invariant says of the innermost request that it wrote
  nothing yet and the pipes are quiet, or that the pipes hold exactly its request or its answer, or
  that it is lost: what it reads next has another id, or nothing will come. A nested request finds
  the traffic of the outer one and is lost, and a lost request ends only with the helper stopped,
  which empties the pipes; a request that ends well leaves them quiet for the one outside it.
  `Issued` gives the ids in use their order, so that an answer with the id that is waited for was
  computed from the text of that request. Theorems: `PipesTrue`, `ColoursTrue`.

- Providers. Between two steps of a dialog neither half of `InUseTrue` holds of the provider it is
  about, so the invariant says what each step has made of it: `DlgOK` what the dialog may be about,
  that the list of providers it read is still the one that is kept, and that the key it carries was
  given to the provider; `StageOK` what the key store, the credentials, the profiles and the settings
  hold at each step of saving and of deleting. Of every other provider `NamesOK` says that its parts
  fit (`KeysSound`), and `GoneOK` that nothing is left of a deleted one; a write to one provider leaves both
  (`OthersSound`, `OthersGone`, `OthersStart`). `StartOK` relates the connection in memory to the one a start
  would find. They differ while the provider in use is edited or removed (`Unlike`); what is needed
  until the dialog ends is that both are to one provider and one model, and that the edit's last
  step uses what was written. `ChosenOK` says that what is chosen is a provider, without which a new
  one could be in use before it is chosen. `torn` is where every failure goes: a provider is in it
  from the step that failed, and the claims are about the others. Theorems: `ProvidersWhole`,
  `InUse`.

  The proof needed two facts about the files a start finds that the model did not state: `Tidy` and
  `Bare`, which are now assumptions on `Kepts`.

`TypeOK` of these modules, `UnlinkedByHolder`, `OneLive`, `LimitHeld`, `NothingLeft` and
`SaidTrue` are proved and in no configuration: a run would repeat on an instance what holds for all.

Only model-checked:

- Liveness (`OrphansStop`, `EndSeen`) and everything that speaks of ENABLED or of fairness, which
  are out of the prover's reach.
- The other properties of `inside` and `outside`, which compare what the program keeps with a reference
  computed by folds over sequences (the replay of a round, the lines of a body, the rows of a
  text, the sections of a settings file, the pages of a search): what such a fold gives for every
  input needs induction over data, which the prover cannot do here.

## What is not modelled

Not to be modelled: parsers over bytes (`json.c`, `pdf.c`, `pdf_tables.c`, the passages of a page), the formatting of text (`render.c`, `markdown.c` but for what the helper is
asked, `diff.c`, `width.c`, `theme.c`), the reading of options and ignore files, telemetry,
notifications, the clipboard, vendored code: functions without state of their own, over data that
small instances do not represent.

Left out of modelled components, with the reason:

- `session_set_title` copies a transcript and renames the copy over it. A plan handoff and a fork
  title a path that is begun and not yet locked (main.c:5899, session.c:939); an instance that began
  in the same second may append in between, and its line is gone. It would make `RecordsKept` fail
  as the code stands, so `SessionStore` has the file operations of a held lock only.
- read, write and edit change one file in one call; their order with the approval is in `AgentTurn`.
- The choice of a spill file's name and its retries; models and catalogs, which are fetched into files
  nothing else writes.
- The round and time budget of an in-process task: `TaskWorkers` lets a slice park anywhere.
