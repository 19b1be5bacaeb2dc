# A verification project for InnerWarden

InnerWarden screens what AI agents do: a hook judges each tool call of an agent, a proxy judges
each message between an agent and an MCP server, and what was decided is kept in files several
processes share. The screening itself is text against patterns. What is hard to test is the rest:
files that many processes of several accounts change at once, a proxy between two peers that may
stall, and limits that hold over a whole session. This project models those parts in TLA+, checks
them with TLC on small instances and proves the results that matter most with TLAPS.

## The system

| Part | Source (`crates/`) | State | Hard behaviour |
|---|---|---|---|
| Stored-file update | `agent-guard/src/file_update.rs` | the file, its sibling lock, staged temporary files | processes and accounts interleaved, kills, a lock that is replaced, editors without the lock |
| Loop breaker | `agent-guard/src/breaker.rs` | accepted calls per signature, a bounded table | window edges, eviction |
| MCP proxy: requests | `agent-guard/src/mcp_proxy/{transport,router,enforce}.rs` | the requests in flight | reused ids, refusals, batches, a full map, answers out of order |
| MCP proxy: relay | `mcp_proxy/transport.rs` | pipes, half-read lines, what is being written | cancellation, back pressure, the end of either peer, stop signals |
| MCP proxy: shutdown | `mcp_proxy/transport.rs` | the server's process group, deadlines | launchers, helpers, signals against freed group ids, dropped futures |
| MCP proxy: taint memory | `mcp_proxy/taint.rs` | tokens of results, two budgets | eviction under a flood |
| Decision record | `cli/src/graph_io.rs`, `graph/src` | the graph file, its own lock, the event sink | one read-change-replace per hook, redelivered events, a corrupt file, clearing, two caps |
| Recording outages | `cli/src/record_health.rs` | one small file | concurrent failures and recoveries without a lock |
| Conversation attempts | `cli/src/observe.rs`, `observe_io.rs` | pending asks | replies against expiry, a full state, a kill between save and record |
| Hook sessions | `cli/src/session_store.rs`, `agent-guard/src/session.rs` | calls and taints per session | read-change-write without a lock |
| Upgrade | `cli/src/upgrade.rs`, `upgrade_plan.rs` | the binary, its copies, a staging name | kills between steps, two upgrades at once |
| Screening, profiles, identity, wiring, containment, dashboard | the rest | configuration files, views | sequential; their writes go through the stored-file update |

How they interact: every store of the product is changed through the stored-file update (the
decision record under a second lock of its own). The proxy's task asks the request map, the
breaker and the taint memory about each client line, tells them of each server line, and hands
its server to the shutdown when its loop ends. Hooks and proxies are processes of their own; they
meet only in the files.

What makes each part correct: the stored-file update never loses an update that answered Ok and
always returns; the decision record keeps what it recorded, each event once, and never withholds the
verdict; the breaker holds every loop, nothing but loops, and means the wait it announces;
the proxy reads every answer as what was asked, lets nothing it refused through, relays whole
lines, ends when its client does, and leaves nothing of its server behind; what a result tainted
stays checked however a server floods the memory; an ask is recorded once and a reply with the
ask it answers; an outage is told. `PROJECT.json` lists the components with what is modelled of
each, and the hazards by source line.

## Modules

| Module | Models | Checked by |
|---|---|---|
| `UpdateStore` | what the stored-file update promises: an atomic register of updates | `FilePrivate` (as a property) |
| `FileReplace` | `replace_inner_with`, `UpdateLock`, `open_lock` and its healing, one action per system call that others can observe | `FilePrivate`, `FileShared` |
| `FileReplace_proofs` | its theorems | |
| `LoopBreaker` | `Breaker::record` and `make_room` | `LoopBreaker` |
| `LoopBreaker_proofs` | its theorems | |
| `McpRequests` | `IdRequestMap`, `classify_client_*`, `record_pending`, `forget_refused`, `classify_server_message`, the modes | `McpRequests` |
| `McpRequests_proofs` | its theorems | |
| `McpRelay` | the `select!` loop of `run_proxy_until`, `CappedLines`, the pipes | `McpSession`, `McpTorn`, `McpStuck` |
| `McpShutdown` | what follows the loop: `stop_server`, `Server` | `McpSession` |
| `McpShutdown_proofs` | its theorems | |
| `McpSession` | a whole session: the loop of `McpRelay`, then the shutdown of `McpShutdown` | `McpSession` |
| `McpSession_proofs` | its theorems, those of the relay among them | |
| `TaintMemory` | `TaintTracker`: `record_result`, `move_to_newest`, `make_room`, `arg_taint_alert` | `Taint` |
| `TaintMemory_proofs` | its theorems | |
| `NarrativeGraph` | the decision record as a value: `upsert_node`, `next_seq`, `ingest_verdict_with_origin`, `drop_oldest`, the two parts of `prune` | through `RecordStore` |
| `RecordStore` | `record_at_with_origin`, `GraphLock`, `save`, `graph --clear` | `RecordStore`, `GraphGrowth` |
| `RecordStore_proofs` | its theorems | |
| `OutageNotes` | `note_failure_at`, `write_health`, `note_success_at`, `is_first_of_episode_at` | `OutageUntold` |
| `AttemptLedger` | what the pending state promises of the asks it is given | `Attempts` (as a property) |
| `AttemptRecords` | `update_pending`, `record`, the commands `inbound`, `reply`, `settle` and `ended`, `Pending` | `Attempts` |
| `AttemptRecords_proofs` | its theorems | |
| `MC*` | the small instances | |

Every proxy module takes from its neighbour only what it needs: `McpRelay` chooses any verdict
for a line where `McpRequests` says which lines get which, and `McpSession` puts the relay and the
shutdown one after the other. `RecordStore` and `AttemptRecords` take the stored-file update with
less than `FileReplace` has of it (one comparison, no healing), which `FileReplace` justifies. Definitions whose comment begins "Faulty" are variants of the definition that follows or
that they are named after, with one line of the code dropped or moved; no specification uses them.
They show that the properties depend on that line.

### The stored file (`FileReplace`)

A stored file is the set of updates it holds: a call reads it (`Load`), and its `Rename` writes
what it read and its own update. An update is lost when a later rename writes a set without it.
`pc` follows one call through the lock (`OpenLock`, `MendLock`, `CreateLock`, `PublishLock`,
`StageLock`, `SwapLock`, `ReopenLock`, `TakeLock` or `LockBusy`, `VerifyLock`), the first
comparison, the staging, `UpdateLock::still_named` (`CheckLock`), the second comparison, the
rename and the release. `IoError` and `Crash` may strike at any of them. Lock files are inodes:
`lockName` is the one at the sibling name, `fd[w]` the one a call opened, `shared` those the
directory's group can open. `SharedRecord` chooses between a private directory and a shared
record, where a lock that cannot be opened is healed. Not modelled: the owner of the replaced
file, symbolic links, Windows, the length of the wait (`LockBusy` may happen whenever the lock is
held).

### The breaker (`LoopBreaker`)

`tracked`, `lastTouch` and `accepted` are the table; `log` is what it would hold were nothing ever
trimmed, emptied for a call that is forgotten while it still counts. A call accepted twice in one
second is two entries, told apart by their position. `promise` is the second a refused call was
told to come back at.

### Requests in flight (`McpRequests`)

A line of the client is a message or a batch of two; whether the inspection allows a call is part
of the input. `pending` and `next` are `IdRequestMap`; the history variables know which requests
really wait (`waiting`), which ids the client gave to two that wait together (`reused`) and
whether more waited than the map keeps (`crowded`). Those two exclude what the code declares
ambiguous, nothing more. Not modelled: lines that are not a message, the client's answers to the
server's own requests, and ids kept as digests.

### The relay (`McpRelay`)

Pipes carry chunks: a line that one read returns, or a head and a tail. A branch of the `select!`
completes in one action up to its first write; the writes are actions of their own, during which
the task polls nothing (`InSelect` is false). Completing a branch clears `partial`, the heads the
other readers had taken. The client and the server are external: they write lines whole, may
close or exit between lines, and the server reads while it writes (`Duplex`) or only in turns.

### The shutdown (`McpShutdown`)

The group is a launcher and its helpers; each process runs, has exited and is not reaped, or is
gone. `step` is the await the proxy is at; its future may be dropped at any of them (`Dropped`).
A group whose launcher is not reaped still answers, as on unix. A freed group id that another
process group takes is not modelled beyond `stray`, the fact that a signal was sent to a free id.

### A whole session (`McpSession`)

`RelayStep` is any step of `McpRelay` while the loop runs. `ShutDown` leaves the loop with the
reason it ended, which decides the steps of `McpShutdown` that follow (`ShutdownStep`), and
`DroppedInLoop` drops the proxy's future at an await of the loop. What the processes of the group
did meanwhile is chosen at that moment (`GroupIsNow`): the launcher runs or has exited, any helper
runs, and while the server's output is open somebody has it. The relay's state is reset when the
loop is left, since nothing reads it afterwards.

### The taint memory (`TaintMemory`)

A result is the sequence of its distinct tokens, a token a value with a cost, and the store keeps
each token for one result (`holder`). `record_result` is one action: the hand-over of tokens seen
again, in slot order, the insertion of the new ones and, past the budget, `make_room`, with its
whole results, its shares, and the sample the proxy's key draws (`Keys` are orders of the tokens;
every proxy has one). A long token's start, hash collisions, the chains and the search are not
modelled: `Refused` is what the search finds. Nor is what a server declares of its tools.

`NewestIsWhole` is what the module's documentation says in so many words (`taint.rs:42-44`: "so the
result just read is always checked in full"), and it does not hold: a long result whose token an
older result already carries leaves the token there (the older one is within a share) or the older
result is being sampled, and the `make_room` that follows may forget it. No run of the project
checks it; `Taint` checks what does hold: `NewIsChecked`, that what a result *brings* is checked, beside the
promise for short results.

### The note of an outage (`OutageNotes`)

Hooks whose recording failed, or did not, read, write and remove one file that nothing locks. One
action per system call: `write_health`'s `create_new`, its open of an existing file, the truncation
and the write, which over another hook's longer note leaves a file that does not parse. Files are
inodes, so a note that is removed while a hook writes it is written for nobody. What each
recording fails with is any code.

### Conversation attempts (`AttemptLedger`, `AttemptRecords`)

An ask is named by the `inbound` call that makes it, and every call is a process: it reads the
clock, reads the pending state, changes it (`Changed`), saves it if nobody changed it since, tries
again when that or the write fails (`Attempts` times), gives up when the lock is busy or the state
cannot be read (`Unavailable`), and appends one record per ask that left (`Record`). `job` says
what a call is for; `Answered` has one disjunct per operation of `Pending` (`remember` and `take`,
`take_if_waited`, `take_for_run`). `place` is the order of the vector. A call can be killed at
every step, an append can be refused, and the clock moves by any amount between the calls.
`AttemptLedger` is the promise: an ask waits, is handed out to one call once it no longer waits,
and is recorded by it once; only a call that is killed, or whose append is refused, loses one.
`ReplyAnswersLatest` has the condition the code gives it: where the later ask could not be held
(it was recorded at once, or its call died) the reply does close the older one. Two calls with an
identical ask in the same second are one ask here. Not modelled: the scoring of a message, how the
outcome is read from the sink, the installation of the hook.

### The decision record (`NarrativeGraph`, `RecordStore`)

A graph is its nodes in the order of their insertion, and its "ran" edges. Each hook is a process
that records one decision: it opens and takes the graph lock (`OpenLock`, `TakeLock`,
`LockReplaced`, `LockBusy`), reads the file (`Load`), moves a corrupt or unreadable one aside
(`MoveAside`), adds its decision unless its event is there (`AddDecision`), prunes in a loop
(`Prune`, one pass a step), and replaces the file under the update lock (`TakeUpdateLock`,
`Compare`, `Rename`). `graph --clear` takes no lock. The update lock is `FileReplace`'s without its
healing, and the two comparisons of the replacement are one, the last; the graph lock's healing is
here, so that two hooks can each hold a lock file of their own and only the comparison is between
them. Errors that write nothing end alike (`lost`). Not modelled: categories and OWASP ids, the
event sink beside the graph, and the record of outages.

## Runs

| Run | Instance | Shows |
|---|---|---|
| `FilePrivate` | 3 calls of one account, 1 editor save | `NoLostUpdate`, `IsAtomicStore` (refinement of `UpdateStore`), `EditLostOnlyInFinalWindow`, `EveryCallReturns` |
| `FileShared` | operator, agent and root, a legacy lock or none | `TypeOK`, `LossNeedsTwoLocks`, `OnlyKilledCallsLitter` |
| `LoopBreaker` | 3 calls, table of 2, limit 2, window 3 s, 6 s, 7 records | `TypeOK`, `BoundedMemory`, `LoopIsHeld`, `OnlyLoopsTrip`, `PromiseIsExact`, `ForgottenOnlyInAFlood` |
| `McpRequests` | 3 ids, map of 2, 4 messages | `MapIsBounded`, `EveryEntryIsAwaited`, `AnswersAreReadAsAsked`, `OneFate` |
| `McpSession` | pipes of 1 chunk, 2 client lines, a duplex server, a launcher and a helper | `LinesNeverInterleave`, `NothingLeftUnrelayed`, `NothingLeftRunning`, `NoStraySignal`, `KilledOnlyAfterTheGrace`, `SessionEnds` |
| `McpTorn` | pipes of 1 chunk | `LinesArriveWhole` violated: see Findings |
| `McpStuck` | pipes of 1 chunk, a server that works in turns | `LoopEnds` violated: see Findings |
| `RecordStore` | 3 hooks: an event, its redelivery, another session; no file, a corrupt one or a pruned graph; 4 nodes, 6 bytes, half a graph a pass | `TypeOK`, `EachEventOnce`, `RecordedStays`, `CorruptIsPreserved`, `EveryCommandIsLinked`, `NoRecordFailsForAnother`, `OnlyLateChangesAreUndone`, `VerdictNotWithheld` |
| `GraphGrowth` | the same with 5 bytes | `VerdictNotWithheld` violated: see Findings |
| `OutageUntold` | 3 hooks, 2 codes | `OutageIsTold` violated: see Findings |
| `Attempts` | an ask held before, 2 messages, 1 other call; 2 asks held, 2 attempts, seconds 0 to 2 (wait 1, TTL 2), 2 errors or kills | `OneAskPerSession`, `PendingIsBounded`, `NothingLeftBehind`, `ReplyAnswersLatest`, `IsLedger` (refinement of `AttemptLedger`) |
| `Taint` | 7 kinds of result of 8 tokens, 5 results, 2 keys; budgets of 6 and 4, shares of 2, 1 for destinations | `WithinBudget`, `FloodIsLong`, `LoneDestinationStays`, `NewIsChecked` |

Why the bounds are enough. Three calls give a holder, a waiter and one that arrives in between,
and three accounts give every way of opening a lock; `LOCK_ATTEMPTS` is the code's own 4. Three
signatures fill a table of two, with a victim to choose; six seconds hold two windows of three.
Three ids over a map of two overflow it, and four messages let a refused request reuse an id in a
batch beside one that waits. Two lines, of one chunk or two, put a half-read line beside another
and let one be written while the next waits. A launcher and a helper let one obey and one ignore
the stop, in both ways (the theorems of `McpShutdown_proofs` are for any group).
Every call, session and instance ends, so deadlock checking is off in all runs; that nothing ends
too early is what the liveness properties say. Three hooks give a holder of each of the two lock
files and one that waits; four nodes of two sessions overflow both caps. The sizes are scaled with
the share a pass drops (half a graph here, a tenth in the code), and `RecordStore` keeps its budget
above what two anchors and two commands take, so that a pass always finds a command to drop:
`VerdictNotWithheld` is about the locks there, and about the loop in `GraphGrowth`. Bounds of
`RecordStore`: one `graph --clear`, one lock kept by an outsider at a time. Three asks over a
pending state of two push one out; two of them may be of one session, and the earlier one was made
before either call, so that it expires, is answered or is pushed out; two attempts let a save be
lost and be made, or be lost twice, by another call or an error. The bounds of the model are
`MaxTime`, the clock, and `MaxFaults`, the errors and kills. Five results fill the taint memory's
two parts and push a short result out of them; the flood it must outlast is `Older` over `Share`,
two results here and 128 in the code (`MaxResults` bounds the session).

### Fairness

- `FileReplace`: each call that was not killed goes on (weak fairness per process). Nothing is
  assumed of the holder of a lock, of the outsider or of the editor.
- `RecordStore`: each hook that can take a step takes one; no error has to end its record, no holder
  has to give a lock back, and nobody has to clear or to be killed.
- `McpRelay`: tokio's `select!` polls its branches in random order, so a branch that is ready again
  and again is taken (strong fairness per branch; the drain timer and the stop signal stay ready).
  A write that has room goes on, the client reads what it is sent, and the server reads and writes
  (weak fairness). Neither peer has to send, close or exit.
- `McpSession`: the relay's fairness while the loop runs; a loop that ended is left; then the
  proxy's own steps and timers, and the kernel's delivery of a signal. A process does not have to
  obey SIGTERM or to exit.

## Proofs

The theorems are of the specifications as TLC checks them, for every value of the constants under
the modules' `ASSUME`s (the breaker's limits and a window of at least a second, `Attempts` at
least 1, names that do not collide).

- `FileReplace_proofs`. `LockInv` is the type invariant with `Locking`: a call past its lock has a
  lock file open, and two that hold a flock hold different files. It is inductive by itself
  (`LockInvStep`, one step per action), and needed because the update is only protected by *which*
  file is locked. `Serial` adds what a holder knows while nobody went by another lock file: the
  target is what it compared. With it, `LossNeedsTwo` shows that in any directory a loss takes two
  lock files. In a private one there is only ever one (`OnePrivateLock`: nothing heals it), hence
  `PrivateNeverLoses` and, with `Undisturbed` (an editor's saves aside, the calls' updates in the
  target are what the holder read), the refinement `PrivateIsAtomic`: every step of the protocol
  is a step of `UpdateStore` or a stutter. `NoLitter` follows a staged file
  to the rename or the removal of the call that made it. `EditsAreLostLate` adds the edits to
  `Undisturbed`: a call that is about to rename compared the target a step ago, so an edit it does not
  hold came in between.
- `LoopBreaker_proofs`. `Inv` relates the table to the log: what a tracked call has accepted is the
  log's, less what has left the window; an untracked call has nothing in the log that still counts;
  touches are distinct and past. `LoopsAreHeld` counts with it: a window with one call too many
  would have had the last of them tripped. `RefusalsAreExact` keeps `Promised` beside it: from the
  second a refusal named on, fewer calls than the limit still count, and before it the limit is full.
  It assumes a limit of at least one: one of 0 trips a call for good, which no wait ends (the proxy
  has the code's default, 3). `ForgettingTakesAFlood` is about who is forgotten: the one least
  recently seen. `MemoryIsBounded` rests on the least recently seen being
  one call (`LeastRecentIsOne`).
- `McpRequests_proofs`. `IInv` joins the types to `MapOK` (the entries' ids and orders are their
  own, and fit the bound) and to `Follows`: the map has no entry but those of the requests that
  wait and, while they all fit, one for each whose id is its own. `Follows` is about a judgement in
  progress, so that one lemma (`JudgedFollows`) serves each message of a line; `RoomWhileUncrowded`
  counts, by an injection of the entries into the ids, that a message that fits pushes nothing out,
  and `ForgottenIsMap` that a refusal puts back what its id named. `OneFate` is inductive with it.
- `McpShutdown_proofs`. `Inv` adds to the types what a kill has reached: past the kill, every
  process that still runs has been sent it. The group only grows through a launcher that was not
  killed, so `ServerNeverOutlives` follows, and with it `SignalsStay` and `GraceIsGiven`.
- `McpSession_proofs`. `SessionInv` is the relay's invariant while the loop runs and
  `McpShutdown`'s `Inv` from then on. The relay's part is its types with `Whole`, what the client has
  before it and what is still to be written to it read as whole lines, a head and its tail side by
  side, and `NoneLost`, which accounts for every line the server wrote: relayed, or still in its
  pipe or half read. `ClientReadsWholeLines` and `AnswersAreRelayed` are of the relay inside a
  session; the shutdown's theorems are proved again for a group in any state the relay may leave
  it in.
- `RecordStore_proofs`. `Held` is the type invariant with `Exclusive` (two hooks never hold one lock
  file); `Reading` says what the locks protect: a hook past its reading expects what it finds, or
  somebody its lock does not keep out was there, one about to replace the file compared it a step
  ago, and nothing that replaces it was made from a corrupt file. `TheLockSuffices`,
  `LateChangesOnly` and `CorruptStays` follow. `Stored` is about the graph itself: what is in the
  file, what each hook read and what it is about to write are `WellFormed` (ids that differ, commands
  linked to their sessions, one command an event), and what was recorded is kept somewhere.
  `IngestKeeps` and `DropKeeps` are its two lemmas: a recording gives a number above every number
  there (`NextSeqIsAbove`), and dropping the oldest keeps the anchors in front and takes every edge
  of what it drops. From it `EventsAreRecordedOnce`, `RecordsStay` and `CommandsStayLinked`. The
  graph a run starts from is any that is well formed (`OldGraphAssumption`).
- `AttemptRecords_proofs`. `LedgerInv` says who holds what: an ask whose call has not made its
  update is nowhere (`Unhanded`), and one that waits, is in hand, or is recorded or lost is only
  that, and in one hand (`Apart`, `HandedOnce`). `Effects` sorts the steps of the calls by what
  they do to the asks (quiet, an exchange, a refusal, a loss, a record), and each sort is a step of
  `AttemptLedger`: `ImplementsLedger`. `OneAskHeld` is inductive with it: a new ask comes with the
  removal of its session's. `NothingIsLeftBehind` needs three facts more: what a call saw ended
  stays ended, an ask that could not be held is its own call's, and what a call is to close is
  exactly what its change takes (`CoveredLeaves`). `LatestIsAnswered` follows from that one: at the
  instant a reply takes an ask, no later one that was held has left it there. `PendingStaysBounded`
  counts: among the asks kept, those in place since the oldest that stays are fewer than the bound.
- `TaintMemory_proofs`. First what sums over finite sets do (`SumRemoves`, `SumOfDisjoint`,
  `SumOfUnion`), then the parts of `make_room`: costs that are kept from the newest on while they fit
  a limit sum to at most that limit (`SuffixFits`), a sample costs a share and has the result's only
  destination (`SampleKeeps`), and a result that at most a flood of others followed is kept, whole or
  as a sample (`FloodIsOutlasted`), because the newest is kept whole and each of the others is
  charged a share at most. `RoomFits` puts the first two together for `StoreStaysWithinBudget`. `Inv`
  adds where the tokens are: `Carried`, a kept token is one its holder carried, and `ShortHeld`, a
  short result's tokens are held by short results no older than it, which is what the condition of
  the hand-over is for: a long result takes no token from a short one (`HolderAfterIs`). So a
  short result's tokens are always in a result that is kept whole. `LoneHeld` is the same for a
  destination, with the sample. The assumption on results, that each costs at most `Recent`, is the
  code's const assertion on the largest result a scan yields (`taint.rs:157`).

Only model-checked: the liveness properties (`EveryCallReturns`, `SessionEnds`,
`VerdictNotWithheld`), which rest on fairness and ENABLED, beyond the prover. Every safety property
of a passing run has its theorem, and so have both refinements. What a recursive definition computes
is proved by induction on numbers, from the least element of a set of naturals (`NatMin`, `UpTo`); that the function
exists is proved the same way (`AnchorsDefined`, `Stepwise`, `TotalExists`). The models use recursive
functions where a filter or a fold of the community modules would hide its steps from the prover.

## Findings

- **A line without its beginning** (`McpTorn`). `next_line` is not cancellation safe: what it had
  read of a line is lost when another branch of the `select!` completes first.
- **A session that does not end** (`McpStuck`). Behind a server that does not read while its output
  is full, the proxy waits in a write and polls nothing else, its stop signal included.
- **A record that never ends** (`GraphGrowth`). Over its byte budget, `prune` drops the oldest tenth
  of the nodes again and again; `drop_oldest` keeps the anchors of sessions, at the front. Once
  those, which nothing ever drops, are a tenth of the nodes, a pass drops nothing and the loop goes
  on for good, with the graph lock held and the hook's verdict not returned.
- **An outage nobody is told of** (`OutageUntold`). A hook decides whether to notify by reading its
  note back; a second hook that fails with the same code in between writes the note as a repeat.
  Both read "not the first", and the episode stays silent. That failures are counted with no lock
  also loses counts, and a success removes a note that was just written: the run's `OutageIsTold`
  is only about hooks that all fail alike and live.

Three more disagreements were met while modelling, and no run of the project shows them as it is:

- An update lost while a lock is healed: `NoLostUpdate` in the instance `FileShared`. An account
  creates the lock of a shared record, private for the moment until its ownership is applied;
  another finds it unopenable, stages a replacement and looks once more; the creator publishes,
  locks, and passes both its check of the lock and its second comparison; the healer renames its
  lock over the name, does its whole update under it and returns Ok; the creator renames, and that
  update is gone. The documentation of `open_lock` (`file_update.rs:446-448`) says the check before
  the commit turns this instant into a retry. `LossNeedsTwoLocks` says it is the only way.
- An answer that is not recorded: the answer to a request the full map dropped passes through
  (`router.rs:188`); the map's comment (`transport.rs:214-215`) says its result is recorded as
  content. `Outcomes` and `ReadAs` of `McpRequests` have it.
- A result that is not checked in full: `NewestIsWhole`, in the section on the taint memory.

## Plan

Built, in this order: the stored-file update and its register, the breaker, the requests, the
relay, the shutdown, the decision record; then the conversation attempts and their ledger, the
taint memory, the note of an outage, and the whole session. Next:

1. `SessionStore` (the session file hooks share without a lock) and `Upgrade` (what a kill leaves;
   two upgrades at one staging name): the two parts with hazards that no property covers.
2. What the recording of a departure reads from the sink, and the sink's own appends.

## Not modelled

The session file and the upgrade, as said. The rest is left out for good: the screening engine
(pure functions of text), containment (the behaviour is the operating system's), the dashboards
(views), network deliveries, and configuration rewrites, whose concurrent part is the stored-file
update. Symbolic links, Windows, and the lengths of waits are left out everywhere. One state of the
shutdown is modelled and promised nothing: a proxy whose future is dropped after the launcher was
reaped and before the group was killed leaves its helpers (`transport.rs:1113`), which
`NothingLeftRunning` excludes.
