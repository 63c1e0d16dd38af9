# LogIQ Agent: verification project

TLA+ models of the LogIQ agent (`src/src`), the TLC runs that check them and the
TLAPS proofs about them. The models follow the C++ code function by function;
`PROJECT.json` names, for every definition, the lines it stands for.

## 1. The system

The agent is one process with one working thread. It follows one log file,
cuts what it reads into lines, collects the lines in batches, posts them to an
HTTP backend, and stores in a checkpoint file how far the backend has
acknowledged. A signal handler does nothing but clear a flag. So there are no
data races; what makes the program hard are the actors around it: programs that
write, truncate, rename and remove the log file between any two of its system
calls, a backend that refuses batches or whose answers are lost, a machine that
kills the process or loses power between any two steps, and time.

| Component | State it keeps | Operations |
| --- | --- | --- |
| `core/Agent`, `main.cpp` | `committed_offset_`, `committed_generation_` | `initialize`, `run_once` (one tick), `shutdown`, `save_checkpoint`; the loop sleeps 200 ms between ticks |
| `file/FileFollower` | descriptor, identity, generation, read offset, pending rotation, end-of-file clock | `open_if_exists`, `poll`, `read_some`, `set_position` |
| `framing/LineFramer` | incomplete line and its offset | `ingest`, `drain`, `reset` |
| `batching/BatchBuilder` | batch under construction, its size, its start time | `reset`, `push`, `maybe_flush`, `flush_if_due` |
| `retry/RetryScheduler` | deque of failed batches | `enqueue`, `pop_ready`, `requeue`, `on_success` |
| `checkpoint/CheckpointStore` | the checkpoint file | `load`, `save` |
| `sinks/HttpNdjsonSink` | a curl handle, its configuration | `to_ndjson`, `send`, `test_connection` |
| `router/Router` | sinks and rules | `add_sink`, `validate`, `decide`, `send_and_decide_commit`; not used by the agent |
| `config/ConfigLoader` | the configuration being read | `load`, `apply_kv` |
| `main.cpp` | `g_running` | load the configuration, construct the agent, test the connection, loop, shut down |
| `utils/Logger` | a level | output |

The spool, the sender, the runtime, the stream framer and the tests are empty
files.

A tick (`run_once`) does the first of these that applies: it sends the front of
the retry queue if its time has come; it sends the batch under construction if
that is due; else it polls the follower, sends the old batch and resets framer,
offsets and batch if the file was switched or truncated, reads one chunk,
frames it and pushes the records, sending whenever the batch is full. What an
acknowledged batch does to the checkpoint depends on whether its file and
generation are still the follower's; a refused batch goes to the retry queue.

### What makes each component correct

- **FileFollower**: a file is left only once it is read to its end, late writes
  included (`DrainedBeforeSwitch`); nothing is skipped in the open file
  (`ReadsContiguous`); the identity put on data is that of the file they came
  from or of one the path has left since the agent looked (`IdentityOpenOrLeft`), and
  a mistaken one does not last (`IdentityRepaired`); a rotation completes
  (`RotationCompletes`).
- **LineFramer** (in the agent): a record is exactly the bytes at the range it
  states, across chunks, resets and files (`RecordsExact`).
- **BatchBuilder** (in the agent): a batch holds records of the one file and
  generation it is labelled with, none beyond the offset it commits
  (`BatchesHomogeneous`).
- **RetryScheduler**: bounded queue and attempts (`RetryBounded`,
  `AttemptsBounded`), no batch lost or doubled between the deque and the caller
  (`NoBatchLost`, `NoBatchTwice`), a full queue loses the one that has been in it
  longest (`DropsOldest`), every batch settled (`EventuallySettled`).
- **Agent**: no record dropped on the way (`AccountedFor`); the checkpoint moves
  only to acknowledged positions and never back (`CommitsAsPromised`,
  `NoBlindCommit`), is a safe restart position (`SafeRestart`) and is not read
  again from before (`NothingReread`); reading is not starved (`NoStarvation`)
  and complete lines arrive (`EventuallyDelivered`).
- **Router**: a commit is returned only if the sinks the policy asks for
  acknowledged this batch (`CommitJustified`), always if they did (`CommitGranted`),
  at an offset one of them stands for (`CommitConfirmed`); a record goes to the
  sinks of its rule (`RoutesAsConfigured`).
- **ConfigLoader**: the configuration is what the text says (`LastSettingWins`).
- **HttpNdjsonSink**: what is posted reads as the batch or, if a payload has a control
  character that is not escaped, as nothing (`JsonLines`), and `ok` means that the
  backend has all of it (`OkMeansTaken`).
- **main**: a stop completes (`StopCompletes`).
- **CheckpointStore**: a save replaces the checkpoint at once or not at all
  (`AtomicSteps`); a load never returns a position ahead of one saved
  (`NeverAhead`).

The hazards these answer are listed in `PROJECT.json`, each at its line.

## 2. The modules

| Module | What it models |
| --- | --- |
| `LogData` | identities, bytes, lines, records, batches, labels |
| `FileSystem` | the host's files as other programs change them (external) |
| `FileFollower` | `FileFollower.cpp`: one action per outcome of its system calls |
| `FollowerLoop` | the follower under the loop of the agent, without sending |
| `LineFramer` | `LineFramer.cpp`, as operators and the actions of its buffer |
| `BatchBuilder` | `BatchBuilder.cpp` |
| `RetryScheduler` | `RetryScheduler.cpp` |
| `RetryLoop` | the scheduler under the calls `run_once` makes of it |
| `Agent` | `Agent.cpp` and the loop of `main.cpp`, composing the four above and the follower |
| `AgentProperties` | the properties of `Agent` |
| `CommitLedger` | abstract: what the checkpoint promises, without the agent |
| `CheckpointStore` | `save()` per system call, `load()`, kills, loss of power |
| `CheckpointCell` | abstract: the atomic cell the store's header promises |
| `Router` | `Router.cpp`: one action per call, and per sink of a send |
| `ConfigLoader` | `ConfigLoader.cpp`: one action per line read |
| `HttpNdjsonSink` | `HttpNdjsonSink.cpp`, with libcurl and a backend that reads JSON lines (external) |
| `AgentProcess` | `main.cpp`: the process from its configuration to its exit, composing the two above |
| `MC*` | constants for TLC |
| `SchedulerLemmas`, `RetryLoopProofs`, `AgentProofs`, `CommitProofs`, `CheckpointProofs`, `RouterProofs`, `FollowerProofs`, `ProcessProofs` | lemmas, theorems and proofs |

Correspondence of state and code:

- A **byte** is named by file, incarnation of its contents (`epoch`, advanced by
  a truncation) and offset. The agent never sees the epoch; the properties do.
- **`pc`** in `Agent` is the place in `run_once`, `initialize` or `shutdown`;
  `site` tells which of the call sites of `send()` is under way (`retry`, `due`,
  `rotate`, `full`, `limit`, `shutdown`), since they differ in what follows:
  the flush before a reset never commits, a failed retry is requeued, the
  others enqueued.
- **`held`** is the batch in a local variable of `run_once` while it is sent.
- **`disk`** is the checkpoint file, written at once by `Save`: that the store
  behaves like that is what `CheckpointStore` and its proofs are about, and the
  conditions found there (section 5) apply here.
- **`changed`** is `poll.truncated || poll.switched`, all `run_once` asks of the
  result of `poll()`. `file_opened` is not among them, in the code as here.
- **Time** is in abstract units. `eofAge`, `age` and `wait` are the differences
  the code computes from `steady_clock`; they advance when the thread sleeps or
  sends, where time really passes. A duration saturates once it has reached the
  limit it is compared with.
- A **label** of the router stands for a key with its value, a record for the labels
  it has. `results` is `per_sink_results`; the locals of `send_and_decide_commit` are
  variables because each sink's answer is a step.
- A **line of the configuration** is a sequence of tokens: words, blanks, colons,
  quotes and `#`. `NumberOf` gives the number `stoul` sees at the start of a word.
- A **payload** in `HttpNdjsonSink` is a sequence of characters and `body` the text
  that is posted; `took` is what a JSON reader makes of it.
- **`taken`, `received`, `acked`, `got`, `left`, `saved`, `givenUp`** are history variables,
  read by properties only. `taken` and `givenUp` are of the running process.

Operators whose comment begins "Mutant" are deliberately wrong variants of the
definition that follows them; no specification uses them. Putting one in the
place of the right definition must make a run fail, which tells that the
property depends on what the code does (the list is in `PROJECT.json`).

### Abstractions

- The checks inside `poll()` are one step. Its `stat()` and `open()`, between
  which the path may be repointed, are a step each. Where `OpenRaces` of `Agent` is
  false the path stays as it is between the two; `FollowerLoop` has no such restriction.
- Other programs take their steps only where the next step of the agent looks at
  the file system, while the agent sleeps and while it is down; elsewhere their
  steps commute with its own.
- A backend takes a whole batch or none of it (one HTTP request); an answer
  may be lost after it did (`curl` error at `HttpNdjsonSink.cpp:142`). That `ok` means
  the backend has the batch is what `HttpNdjsonSink` is about.
- A new file that is given the inode number of a removed one is modelled where it
  looks like a truncation: when the agent had it closed or was down (`Truncate`).
- `AgentProcess` keeps of a tick only that it may send batches; `Agent` has the rest.
  `MaxSends` bounds the batches of a tick.
- The router's caller is that of `RouterExampleUsage.cpp`, the only one: it adds its
  sinks and validates before it routes. Sinks may be added or replaced between two
  batches, not between `decide()` and the send that uses its pointers.
- `NumberOf` is a function of the word: `stoul` of `5s` is 5. The widths are 3 and 4
  bits in the run; the theorem about the loader is for all widths.
- `max_queue_batches = 0` is excluded (`RetryAssumption`): `enqueue()` would then
  call `front()` on an empty deque.
- The descriptor's position equals `read_offset_`: `lseek` on a regular file does
  not fail.
- A checkpoint text is its checkpoint and the number of characters cut off its
  end. `committed_offset` is written last, so cutting loses its digits first and
  `extract_u64` accepts the shorter number; this is modelled digit by digit. `Tens(k)`
  is 10^k, written as the number of texts of `k` digits, of which the provers can count.
- The batches of `AgentProcess` are not empty: `maybe_flush` returns none that is
  (`BatchBuilder.cpp:84`). For an empty one the body would be empty, which no reader
  takes for a batch.

## 3. The runs

States are distinct states found.

| Run | Properties | States | What it shows |
| --- | --- | --- | --- |
| `retry_loop` | `TypeOK`, `AttemptsBounded`, `NoBatchLost`, `NoBatchTwice`, `DropsOldest`, `EventuallySettled` | 24 k | four batches, queue of two, three attempts, jitter: the queue overflows, waits differ, fresh and retried batches mix |
| `follower_loop` | `TypeOK`, `IdentityOpenOrLeft`, `ReadsContiguous`, `DrainedBeforeSwitch`, `RotationCompletes`, `IdentityRepaired` | 90 k | two files, rotation both ways, removal and restoration between any two calls, `stat()` and `open()` included, writers that keep writing to a renamed file |
| `agent_mixed` | `TypeOK`, `AccountedFor`, `BatchesHomogeneous`, `RetryBounded`, `NothingReread`, `CommitsAsPromised` | 1.4 M | the whole agent across a rename and truncations of both files: refused batches, kill, stop, restart |
| `agent_faults` | `AccountedFor` | 461 k | every system call and checkpoint operation may fail, the path vanishes, opens race, answers are lost |
| `agent_reliable` | `SafeRestart`, `NoBlindCommit`, `RecordsExact`, `NoStarvation`, `EventuallyDelivered` | 52 k | batches limited in bytes; the backend takes what it is sent, though answers may be lost |
| `checkpoint_store` | `NeverAhead`, `AtomicSteps` | 230 k | `save()` and `load()` with all failures, kills and losses of power |
| `router` | `TypeOK`, `CommitJustified`, `CommitGranted`, `CommitConfirmed`, `RoutesAsConfigured` | 167 k | all policies, up to two rules over two names, one of them of two sinks that replace each other; sinks not ready, refusing, confirming any offset |
| `process` | `TypeOK`, `LastSettingWins`, `JsonLines`, `OkMeansTaken`, `StopCompletes` | 153 k | every text of up to two lines, then sends to a backend that may answer anything at any time or never, with a signal at any point |
| `follower_idle` | `RotationCompletes` | violated | section 4 |
| `follower_missing` | `DrainedBeforeClose` | violated | section 4 |
| `agent_unsafe` | `SafeRestart` | violated | section 4 |
| `agent_reopen` | `BatchesHomogeneous` | violated | section 4 |

**Bounds.** `MaxSize` (bytes in a file), `MaxEpoch` (truncations), `MaxBoots` (starts
of the process) and the sets `Moves` and `WriteSizes` bound the environment; the
agent has no bound of its own. They are chosen so that the interesting cases
happen. A read returns what there is, up to `MaxRead`. Lines are of two bytes, and reads
of three (in `agent_mixed`) or appends of three (in `agent_reliable`) make lines straddle
chunks; a file of seven bytes ends in the middle of a line when it is rotated or
truncated. Seven bytes are three lines
and a half, more than `MaxRecords`, so that a batch fills up in the middle of a chunk
and the push is repeated; in `agent_reliable` the limit in bytes does that instead.
In `agent_mixed` each of two files may be truncated once, before or after the rename,
and be written again to the same length or left shorter than what was read.
`FlushInterval` is longer than a tick and than `SettleTime`, so a batch may be under
construction when the file is switched. With the member initializers (200 ms against
500 ms) that happens only for a truncation; with the shipped
`config/example-config.yaml`, which `main()` loads unless told otherwise and which sets
2000 ms, for a rotation too. `MaxQueue` is 1 in the agent's runs: the second failure
overflows. Two boots are one restart, from any state a process can die in. `agent_mixed`
has no failing checkpoint operations: after a failed load the agent starts over and
its checkpoint legitimately goes back, which `CommitsAsPromised` does not allow for;
those failures are in `agent_faults`. The router's lists of sinks name a sink twice,
its rules overlap, and three sinks over two names let one replace another; a batch
ending at offset 2 leaves room for a confirmed offset before it. The lines of the
configuration are blank, a comment, without a colon or key, under two aliases of one
setting, quoted, with `#` inside quotes, with an unknown key, and with numbers that
fit, are too large for the member, too large for `unsigned long`, negative, or no
numbers; two lines are enough for one to override another. The payloads put each
special character at the end, before an `n`, and in the form of the end of an object.
The checkpoints saved have offsets of one, two and three digits and two generations,
so that a text cut short can be taken for any shorter number. Deadlock is not
checked in the runs of `MCAgent` and in `process`, where an agent that was stopped and
may not be started again is at rest, nor in `router`, where a configuration may be
rejected.

**Fairness.** The loop of `main.cpp` keeps calling `run_once`, and each system call
and each HTTP request ends (`CURLOPT_TIMEOUT_MS`): weak fairness on the process's own
steps (`WF_vars(LoopStep)`, `WF_vars(RunOnce \/ Loading)`; in `RetryLoop`, on its five
kinds of step, with the outcome of a send left open). In
`AgentProcess` only the thread (`WF_vars(Thread)`) and the limit libcurl keeps
(`WF_vars(GiveUp)`, enabled only if one was accepted) are fair. Nothing is assumed of
the other programs, of the backend, or of who starts, stops and kills the agent.
`RotationCompletes` therefore speaks only of a path that comes to name one file for
good, and `EventuallyDelivered` only of an agent that is not stopped.

**Where a property is checked, and where it does not hold.** `RecordsExact` is
checked under rotation (`agent_reliable`) and violated under truncation (section 4). `SafeRestart`
holds when no batch is refused and is violated when one is (`agent_unsafe`).
`BatchesHomogeneous` holds unless a file is opened anew without a switch
(`agent_reopen`). `RotationCompletes` holds when a tick is as long as the settle
time and is violated when it is shorter (`follower_idle`). `IdentityOpenOrLeft`
and `IdentityRepaired` are what is left of "Identity of the file that produced this data"
(`FileFollower.hpp:19`) when a rename comes between `stat()` and `open()` (section 4), and
`RotationCompletes` says which rotation that can hide. `JsonLines` says of a batch with
another control character than line ends that it is refused. `StopCompletes` is asked of a
timeout that `int` holds and that is not 0. `LastSettingWins` says what a number means
only if the member can hold it.

## 4. Where the code and its documentation disagree

- **`agent_unsafe`** (`Agent.cpp:158`, and the other commits). A refused batch waits
  in memory while a later one is acknowledged and moves the checkpoint past it. A
  restart loses the waiting batch; so does the retry policy when it gives up.
  "Safe restart position" (`CheckpointStore.hpp:18`), "No lost logs" (`README.md:51`).
- **`follower_idle`** (`FileFollower.cpp:180`). Every read at the end of the file sets
  the clock again, and the loop reads every 200 ms, so the 500 ms of the settle
  time never pass: with the default options an idle rotated file is never left.
- **`agent_reopen`** (`Agent.cpp:176`). A file that `poll()` opens after the path was
  missing is not treated as new: its records join a batch labelled with the old
  file, which can then never commit. The same holds for a file that did not exist
  when the agent started.
- **`follower_missing`** (`FileFollower.cpp:126`). With the path gone, the file is closed
  without asking its size again.

More that the models show, without a run of their own:

- A file truncated and written past the read offset between two polls is read on in
  the middle (`FileFollower.cpp:101`): `RecordsExact` is violated in `MCAgent` with
  `Inodes = {a}`, `Newlines <- MCLongLines`, `Moves <- MCStay`, `MaxSize = 4`, `MaxEpoch = 1`,
  `WriteSizes = {1, 3}`, `MaxRead = 4`.
- A rename between `stat()` and `open()` gives the data of the new file the identity of the
  old one (`FileFollower.cpp:56-72`, `236-254`): in `follower_loop` the disjunct
  `activeId \in left` of `IdentityOpenOrLeft` is needed. The next poll that finds a file
  at the path sees another identity there and, once the open file is drained and quiet,
  switches to the same file under its own identity, from its first byte again. If the path comes back to the old file before such a poll (renamed back, or a
  new file given its inode number), the difference is gone and the agent keeps reading
  the file that was renamed away: in `follower_loop` the disjunct `MistakenForReturned`
  of `RotationCompletes` is needed.
- With `"rename"` among the `StoreFaults`, `Atomic` of `CheckpointStore` is violated by the
  fallback that removes the destination first.
- With `Moves` that lead back to the first file through a missing path, `NoBlindCommit`
  is violated by a late retry that is taken for one of the file reopened (its generation
  is 0 again, and the committed offset is still the other file's).
- A batch acknowledged just before a kill is sent again, against `README.md:52`, "No
  duplication during restart".
- A checkpoint that cannot be loaded makes the agent start over at 0, and its next save
  moves the checkpoint back.
- `Router::validate` accepts rules without sinks, and under Primary rules without the
  primary; the records they match can never be committed. `ValidatedCanCommit` of
  `Router` says that this does not happen and is violated in the run `router`.
- `to_ndjson` leaves tabs and other control characters as they are
  (`HttpNdjsonSink.cpp:45`), which JSON does not allow in a string, although "Each
  record becomes one JSON line" (`HttpNdjsonSink.hpp:38`). A strict reader refuses the
  whole batch with the record that has one; it is the second half of `JsonLines`, and
  such a batch is retried until it is given up.
- `http.timeout_ms` 0 is no limit for libcurl, and 2^31 or more is negative once cast:
  a stop may then wait for ever for an answer. Without `Finite`, `StopCompletes` is
  violated.

Also seen while modelling: the keys `input_path:` and `checkpoint_path:` of
`config/example-config.yaml:4-5` are none of those `apply_kv` knows
(`ConfigLoader.cpp:103-116`) and are silently ignored; no key sets
`assume_durable_on_200`; under the policy All the router ignores the offsets its sinks
confirm and returns the end of the batch; `RetryScheduler.hpp:33` says that `enqueue()` returns
false when the queue is full, and it drops the oldest batch and returns true;
`BatchBuilder.hpp:28` says that an oversized record is not added, and an empty batch
takes it; the agent never looks at `SendResult::commit_end_offset`, so
`assume_durable_on_200` has no effect.

## 5. The proofs

Every safety property of the passing runs, and every refinement, is a theorem that TLAPS
checks, for every value of the constants that meets the assumptions, which TLC evaluates on
each run: `RetryAssumption`, `BatchAssumption`, `FollowerAssumption`, `FileSystemAssumption`,
`AgentAssumption`, `InputsAssumption`, `NewlinesAssumption`, `StoreAssumption`,
`RouterAssumption`, `TickAssumption`, `ConfigAssumption`, `SinkAssumption`,
`ProcessAssumption` are the ranges of the parameters; `NoneAssumption`, `NoneNotPending`,
`NoneNotText`, `NoneNotLabel`, `NoneNotSent` say that the value `None` is none of the others.
Some theorems have conditions besides, which are part of their statement; why each is needed
is said below.

| Theorem | Statement |
| --- | --- |
| `RetryLoopProofs!TypeCorrect`, `NothingLost`, `NothingTwice`, `RetriesBounded`, `OldestDropped` | `Spec => []TypeOK`, `[]NoBatchLost`, `[]NoBatchTwice`, `[]AttemptsBounded`, `DropsOldest` |
| `FollowerProofs!TypeCorrect` | `Spec => []TypeOK` for the follower and its environment |
| `FollowerProofs!IdentityNeverNewer` | `Spec => []IdentityOpenOrLeft`, wherever the renames come |
| `FollowerProofs!NoHoles`, `DrainedFirst` | `Spec => []ReadsContiguous`, `Spec => DrainedBeforeSwitch`, if no file is truncated in place |
| `AgentProofs!TypeCorrect` | `Spec => []TypeOK` for the whole agent and its environment |
| `AgentProofs!NothingDropped`, `QueueBounded` | `Spec => []AccountedFor`, `[]RetryBounded` |
| `CommitProofs!OneFilePerBatch`, `OnlyAcknowledged` | `Spec => []BatchesHomogeneous`, `[]NoBlindCommit`, if `AlwaysThere` |
| `CommitProofs!CheckpointIsLedger`, `OnwardOnly` | `Spec => CommitsAsPromised` (the agent implements `CommitLedger`), `[]NothingReread`, if `AlwaysThere`, `NeverBack` and the checkpoint can be loaded |
| `CommitProofs!RecordsAsRead` | `Spec => []RecordsExact`, if `AlwaysThere` and `Untouched` |
| `CommitProofs!RestartsSafely` | `Spec => []SafeRestart`, if `AlwaysThere`, `Untouched` and `Taking` |
| `CheckpointProofs!LoadedIsSafe` | `Spec => []NeverAhead`, losses of power and torn texts included |
| `CheckpointProofs!SaveIsAtomic` | `Spec => AtomicSteps` |
| `CheckpointProofs!StoreImplementsCell` | `Spec => Atomic`, if `rename()` does not fail and power is not lost |
| `RouterProofs!TypeCorrect`, `RoutedAsConfigured` | `Spec => []TypeOK`, `[]RoutesAsConfigured` |
| `RouterProofs!CommitsJustified`, `CommitsGranted`, `CommitsConfirmed` | `Spec => []CommitJustified`, `[]CommitGranted`, `[]CommitConfirmed` |
| `ProcessProofs!TypeCorrect`, `ConfigurationAsWritten` | `Spec => []TypeOK`, `[]LastSettingWins` |
| `ProcessProofs!PostedAsJsonLines`, `AcknowledgedIsTaken` | `Spec => []JsonLines`, `[]OkMeansTaken` |

**The scheduler.** `NoBatchLost` and the bounds are inductive together with the types
and the fact that the queue fits its limit with the batch in hand. The lemmas of
`SchedulerLemmas` do the work once: `Enqueue` and `Requeue` keep the set of batches
that the queue, the hand and the given-up ones make up, waiting changes no batch, and
the backoff is within its ceiling (`2^k` is a natural number as the number of subsets
of `1..k`). `NoBatchTwice` needs more than the set: that the queue has no batch twice and
none of those in hand or given up, which `Enqueue` and `Requeue` keep, the drop of the
oldest included. `DropsOldest` rests on the same: what a step drops is the batch in hand
or the front of the queue, and the front is nowhere else in it.

**The agent.** `AccountedFor` is not inductive. A step that overwrites `framed` would
drop records if there were any; `PopReady` and `HandOver` would drop the batch in hand;
the release of an acknowledged batch would drop its records had the backend not got
them; loading a checkpoint resets the batch. The strengthening `AInv` says what rules
this out: records are left to push only while pushing (`Pushing`), a batch is in hand
only between a flush and the outcome of its send, an acknowledged batch has been
received, and nothing has been framed before the checkpoint is loaded. `QInv` does the
same for the limit of the queue: a retry in hand came from the queue and has a place to
go back to, since nothing is enqueued while it is out. There is one lemma per action;
the actions that touch neither records nor batches share `QuietIInv`.

**The agent's checkpoint** (`CommitProofs`). The invariant is built in layers, each a
conjunction that every action is shown to keep; TLC checked each layer before it was proved.

- `Shape` ties `pc` to the descriptor: while the agent works a file is open, and while a
  change of it is still to be dealt with it is at the reset or in the flush before it.
  `Fresh`: before a checkpoint is loaded nothing is in memory.
- `Uniform`: the batch is labelled with the file and generation that is open, unless a
  change is still to be dealt with, and so are the records left to push. It implies
  `BatchesHomogeneous` and is false without `AlwaysThere`: a missing path closes the file
  and the next poll opens another without a switch (run `agent_reopen`).
- `Committed`: the committed offset is 0 or that of an acknowledged label of this file
  and generation; a batch about to move it has been acknowledged. It implies `NoBlindCommit`.
- `Ahead` and `Ordered`: the file recorded, and the file of every label in flight or
  stored, is not later than the path in the order the path moves along (`NeverBack`), and a
  label of the open file has no later generation than it. So a label that equals the
  current one is of this opening of the file. If the path came back to a file, generation
  0 would come back with it, and a late retry would be taken for one of the new one
  (section 4).
- `Ready`: what is stored of this file and generation is not past the committed offset, and
  when a save begins the ledger allows what it will write. This gives the refinement. A
  failed load makes the agent start over at 0, so it is excluded.
- `Onward`: everything committed, stored or in flight of this file ends before everything
  that is pending or not read yet. It implies `NothingReread`.
- `Tracked`: the descriptor is of the file recorded, and the line buffer holds the very
  bytes from its start to the read offset. It implies `RecordsExact`. A file that is
  truncated and grows past the offset before the next poll is read on in the middle
  (section 4), hence `Untouched`; it also excludes a rename between `stat()` and `open()`.
- `Sound`: for every label acknowledged, stored or in flight, all bytes before its offset
  are in records that the backend has or is just being sent, or end lines; likewise for the
  batch under construction and the records left to push, which lie end to end (`Chained`).
  It implies `SafeRestart`. `Taking` says that the backend takes each batch it is sent, its
  answer arriving or not; with one refused batch the property is violated (`agent_unsafe`).

`AlwaysThere`: the path always names a file and calls on it fail only by being interrupted.
Renames, kills, stops and restarts, refused batches, expired retries, overflowing queues and
failing saves are allowed in all of these theorems, except refused batches in the last; and
truncations in all but the last two. The run `agent_mixed` meets the conditions of the first
four, `agent_reliable` those of all six. `Rank` is the order of `NeverBack`: any assignment
of numbers to files that the moves of the path follow upwards.

**The store.** The refinement maps the contents of the checkpoint file, as `load()`
would parse them, to the cell. The invariant it needs is that the temporary file is
whole from its last write to its renaming. `NeverAhead` is about all that a loss of power may
leave: every text the file, the temporary file or the disk may hold is of a checkpoint saved
and cut somewhere, and the number that is left of one cut short is at most the whole. That
rests on `Digits(n)` being well defined, proved from the least number of digits that is
enough: the library's induction theorems cannot be instantiated, so a least counterexample
is taken instead (`LeastElement`, from the well-foundedness of inclusion on finite sets).

**The follower.** The types say that no open begins while a descriptor is held, which
nothing in the loop checks again: a switch closes the old one first. `IdentityOpenOrLeft`
is inductive once it is known that what `stat()` returned is what the path still names or
has left since (`IdentityInv`): the open then takes what the path names. That `stat()` comes
first is what makes it true; were it second, the identity could be that of a newer file,
which no poll would find different from the path's. `ReadsContiguous` needs that the
position never passes the size of the open file (`PositionInv`): then `poll()` never
takes it for shrunk, a read starts where the last one ended, and the second size check
before a switch makes the position the size. System calls may fail in all of them.
The condition on truncations is needed: see section 4.

**The router.** The three properties compare the commit with the answers; what links
them is that the locals of the send always say what the answers so far amount to
(`Tallied`): which sinks acknowledged, that `primaryCommit` is the offset of a primary
that did, that `anyCommit` is one that was confirmed, and none only if none was. Skipping
and answering keep it, and `Returned` says that the verdict was reached from it. That
`primaryOk` is the *last* answer of a primary listed twice is why `CommitGranted` asks
for all of them.

`RoutesAsConfigured` needs that what was validated stays valid, since sinks are only added
or replaced, and that a name stands for a sink of that name; then none of the names of the
rule is skipped for want of a sink.

**The loader.** `LastSettingWins` is inductive together with the type of the text: a line
that is read is the last, so it governs what it sets and leaves the rest to those before;
a number that fits is its own remainder. For the types, the parts `SubSeq` cuts out of a
line are lines, since a set of positions has no more elements than the line.

**The sink.** The invariant `SinkInv` is that a body under way is `Ndjson(batch)` and that
what the backend has read is the batch. Its one hard step is `Take`: that `Decoded(Ndjson(b))`
is `{b}`, or nothing if a payload has a raw control character (`BodyReads`), for every set
of characters, every set of control characters that has the line ends and none of those
JSON's own text is made of, and every batch. Both are recursive, `FlattenSeq` from the
front and the reader from the back. `FlatteningDef` and `ReadingsDef` show that there are
functions that meet their equations; `FlattenShape` and `LineShape` say which character stands where in a body;
`ReadsCharacter` that `Escape()` and the reader agree on each character, `ReadsPayload` and
`BodyReads` go back over the characters of a payload and over the records of a batch. The
inductions take a least counterexample, as in the store.

**What the proofs found.** Two guards of a `CASE` in `Agent`'s `Opening` overlapped, so that
which arm was taken was not determined: it is an `IF` now, in the order of the code. `TypeOK`
of `AgentProcess` is false for `MaxSends = 0`, since `shutdown()` may send a batch all the
same: the bound is positive now. `JsonLines` is false for an empty batch, which the agent
never sends: `SinkAssumption` says so now.

**Only model-checked**: the liveness properties `EventuallySettled`, `RotationCompletes`,
`IdentityRepaired`, `NoStarvation`, `EventuallyDelivered` and `StopCompletes`: reasoning about fairness needs
`ENABLED`, which is out of the prover's reach. And the theorems with conditions say nothing
where those do not hold: there TLC has the counterexamples of section 4, and `agent_faults`
checks `AccountedFor`, which needs none.

## 6. Not modelled

- `utils/Logger.cpp` and `parse_level`: output only, nothing depends on it.
- The spool, the sender, the runtime, the time and the stream framer, and the tests:
  the files are empty.
- The labels and time stamp of a record in the NDJSON text (nothing sets the former;
  the latter is a number), the response body, the headers and the other options of curl.
- The content of the mock server, the scripts and the packaging.
- What follows undefined behaviour: a retry queue of size 0, a `RouteDecision` whose
  sink was replaced before the send.

## 7. Plan

1. A history of the path in `FileSystem`, for two rotations within one settle time.
2. A property of truncation that holds: records are torn only where the contents had
   grown past the read offset before the next poll.
3. `BatchesHomogeneous` and `NoBlindCommit` where the path may vanish but comes to name the
   same file again, and `RecordsExact` where a file is truncated and seen shorter before it
   grows.
