# arcus-memcached: a TLA+ verification

arcus-memcached is a memory cache server with collections (list, set, map,
b+tree), prefixes and a ZooKeeper-based cluster. Built with
`ENABLE_PERSISTENCE`, its default engine keeps a command log and checkpoints, so
that a restarted server gets its items back. This project models the default
engine, its persistence, and the connections and threads of the server. TLC
checks the models on small instances; TLAPS proves about half of the safety
properties for every instance.

Paths below are relative to `src/engines/default/` unless they begin with
`src/`. `PROJECT.json` has the definition-by-definition map to the source, the
runs, the mutants, the findings, the hazards and the theorems.

## The system

| Part | State | Operations | Modules |
|---|---|---|---|
| log buffer (`cmdlogbuf.c`) | byte ring, ring of flush requests, LSNs, end of the dual write | write, flush, complete the dual write, flush thread, final flush | `CmdLogBuf`, `LogStream` |
| log file (`cmdlogfile.c`) | current, next and previous descriptor, fsync LSN | write, switch, sync, open, close, apply | `CmdLogBuf`, `GroupCommit`, `CmdLogReplay`, `Checkpoint` |
| log manager (`cmdlogmgr.c`) | commit list, waiters, checkpoint scan | begin and end of a waiter, group commit thread, record generation, stop | `GroupCommit` |
| log records (`cmdlogrec.c`, `item_clog.c`) | - | build, write, redo | `CmdLogReplay`, `Checkpoint`, the collections |
| checkpoint, snapshot (`checkpoint.c`, `chkpt_snapshot.c`) | last, previous and new time, files, scan | checkpoint thread, create, remove, sweep, recovery | `Checkpoint` |
| hash table (`assoc.c`) | tables, expansion state, scans | find, insert, delete, expand, scan, scan cursor | `Assoc` |
| items, prefixes (`items.c`, `item_base.c`, `prefix.c`) | items, reference counts, LRU lists and marks, flush times, delete queue | get, store, arithmetic, attributes, flush, reclaim, evict, scan, scrub, delete thread | `Items` |
| list (`coll_list.c`) | number of elements; elements | create, insert, delete | `Items`; `Checkpoint` |
| set, map (`coll_set.c`, `coll_map.c`) | trees of hash tables | all operations, restart, redo | `SetColl`, `MapColl` |
| b+tree (`coll_btree.c`) | nodes; bkeys, attributes, elements held by clients | all operations, both smgets, restart, redo | `BTree`, `BTreeKeys`, `BTreeColl`, `BTreeSmget` |
| connections (`src/memcached.c`) | the `conn` structure | state functions, ASCII and binary commands, pipelines, commit waits | `Conn`, `ConnAscii`, `ConnBinary`, `ConnServer` |
| worker threads, shutdown (`src/thread.c`, `src/memcached.c`) | queues, pipes, `pending_io` lists, shutdown delay | dispatch, notify, serve, stop | `Threads` |
| cluster, statistics, authentication, command logging and others | | | not modelled |

How the parts interact: the main thread accepts a connection and dispatches it
to a worker thread (`Threads`). The worker runs the connection's state functions
(`ConnServer`), which call the engine. The engine looks up and changes items
(`Items`, `Assoc`) and collections under the cache lock, and appends a record to
the log buffer (`CmdLogBuf`). The flush thread writes the requests of the buffer
to the log file. In synchronous mode the connection is then suspended until the
group commit thread has fsynced the file and released the waiters by LSN
(`GroupCommit`); `notify_io_complete()` brings it back (`Threads`,
`ConnServer`). The checkpoint thread opens the next log file, scans the hash
table into a snapshot, and while it scans, records about items the scan has
passed go to both log files. When the scan ends the flush thread switches to the
next file, and the previous files are removed (`Checkpoint`). Recovery loads the
newest valid snapshot and replays its log (`Checkpoint`, `CmdLogReplay`).

## Modules

Persistence:

- **`CmdLogBuf`**: one action per critical section of `do_log_buff_write()`,
  `do_log_buff_flush()`, the end of the dual write, the checkpoint thread as the
  log sees it, and the stop sequence. A byte is its number in the stream.
  A forced flush by a writer short of space, the flush thread and the final
  flush share an action with different parameters, as they share a function.
- **`LogStream`**: what the log promises, without rings, requests and locks: a
  FIFO of bytes, a second file that gets the dual ones, and a switch between two
  records. `CmdLogBuf` implements it (`StreamSpec`).
- **`GroupCommit`**: clients, flush thread, group commit thread, checkpoint
  thread and shutdown. It uses what `StreamSpec` shows: the buffer is positions
  in a stream and the places where requests end. `durable` is what fsync has
  made safe in each file. `GroupCommitInv` has the inductive invariant,
  `GroupCommitProofs` the proofs.
- **`Checkpoint`**: updates, flush thread, checkpoint thread, crash and
  recovery. The buffer is a sequence of records (justified by `StreamSpec`) and
  the scan a growing set of keys (justified by `VisitedExact`). These links are
  arguments between modules; no refinement joins `Checkpoint` to `CmdLogBuf` or
  `Assoc`. `CheckpointProofs` has the proofs about its files.
- **`CmdLogReplay`**: one log file over several crashes, cell by cell, because
  the hazards here are records cut in the middle. `CmdLogReplayProofs` has the
  proofs.

Storage:

- **`Assoc`**: chains as sequences, the backward incremental expansion, scans
  with placeholders, the cursor of the scan command. The loops of
  `assoc_scan_next()` and `assoc_scan_direct()` are cut into steps; `call` holds
  the cache lock meanwhile. `mark` is a history of what each scan owes each key.
- **`Items`**: the functions of `item_base.c` as operators on the state that the
  cache lock protects; an action is one hold of the lock. Threads keep items
  between their actions. Memory is a number of units; collections are their
  number of elements. `lost` and `flushed` are history.
- **`BTree`**: the tree node by node, up to the names of bkeys and addresses;
  `TreeExact` says that it may be taken for a sorted sequence.
  **`BTreeKeys`**: what the operations do with bkeys on that sequence: overflow,
  `maxbkeyrange`, scans into trimmed space. **`BTreeColl`**: one collection with
  its clients, which hold elements outside the lock, its attributes, its
  unlinking, restart and redo. **`BTreeSmget`**: sort-merge get, new and old.
- **`SetColl`, `MapColl`**: the trees of hash tables, with splitting and
  shrinking, every operation, the delete thread, restart and redo.

Server:

- **`Conn`**: the `conn` structure as a record and the functions on it: replies,
  pipelines, what a connection holds and gives back. **`ConnAscii`,
  `ConnBinary`**: the commands of the two protocols by what they take, hold,
  answer and swallow; a handler maps a connection to the set of those it may
  leave, as allocations and the engine decide. **`ConnServer`**: the state
  functions, the client, the events and the commits. `held`, `left`, `wants`,
  `replied` and `fatal` are history. `ConnIoProofs` and
  `ConnReplyProofs` have the proofs.
- **`Threads`**: main thread, workers, engine threads and the shutdown. A worker
  runs a connection in one step, up to the point where the connection may have
  to wait. `ThreadsProofs` and `ThreadsConnsProofs` have the proofs.

`MCItems`, `MCConn`, `MCGroupCommit` and `MCRecovery` give constants their values
or bound a set. `MCCommandLog`, `MCStructures`, `MCProgress` and `MCCollections`
put two or more components into one run: a behaviour is in one of the parts, and
the others keep their initial state.

## Runs

Runs that pass:

| Run | Components | Properties | Distinct states |
|---|---|---|---|
| `command_log` | `CmdLogBuf`, `CmdLogReplay` | `RingAsserts LsnIsFileOffset StreamSpec WriterGetsRoom SwitchHappens ReplayStable ReplayExact` | 113,956 |
| `group_commit` | `GroupCommit` | `AckedStartDurable IInv WaiterReleased` | 267,806 |
| `structures` | `Assoc`, `BTree` | `ScanExact FindsEveryItem VisitedExact CursorExact ScanEnds TreeConsistent TreeExact` | 100,448 |
| `recovery` | `Checkpoint` | `RecoveredCurrent FilesAgree` | 1,793,759 |
| `progress` | `Threads`, `Checkpoint` | `WakeupsKept ConnsAccounted ThreadsProgress FilesRemembered CheckpointEnds` | 60,177 |
| `items` | `Items` | `RefsAccounted LruExact MemoryExact FlushedGone CollFreed` | 87,000 |
| `conn` | `ConnServer` | `HeldExact InSync AnsweredOnce NotifiedInTime NeverForgotten PipeErrorHolds` | 414,035 |
| `collections` | `BTreeColl`, `BTreeSmget`, `SetColl`, `MapColl` | `HeldUntouched GetTells SmgetExact HashTreesExact` | 109,086 |

- `command_log`: a ring of 7 bytes that wraps, records of 2 and 3 bytes that are
  split over requests of 2, the two records of an operation range, two
  checkpoints that succeed or fail, and writers that run out of room and flush
  themselves. A log file with crashes at any byte, and whatever the remains of a
  torn record look like to the reader.
- `group_commit`: clients, flush thread, group commit thread and checkpoint
  thread, in two parts: two clients of a server that is not stopped and whose
  checkpoints succeed, and one client of a server that may be stopped and whose
  checkpoints may fail. The inductive invariant of the proofs is checked on the
  same states.
- `structures`: two scans with updates and an expansion between their steps; one
  scan or scan command with two expansions. Every b+tree shape of up to three
  levels that insertions, range deletions and failed allocations give, and every
  operation on it.
- `recovery`: KV and list updates, `flush_all`, expiry, checkpoints that succeed
  or fail, and a crash anywhere.
- `progress`: two workers, an engine thread and the shutdown in every
  interleaving. The files of checkpoints, with removals that fail and a crash: a
  checkpoint ends, and what could not be removed is remembered.
- `items`: a client, a scan, the scrubber and the collection delete thread over
  items that expire, are flushed, at once or with a delay, reclaimed and evicted.
- `conn`: families of requests of both protocols with engine errors, refused
  lines, pipelines, slow sockets and clients that hang up.
- `collections`: overflow, trimming, a client that holds elements, unlinking,
  restart and redo; smget over collections that trim; trees of hash tables that
  split and shrink.

Deadlock is checked in `structures`, `items` and `conn`. The
others stop at their bounds or at shutdown.

Some properties hold only on part of what the code can do:

- `AckedStartDurable` is about the first byte of a record; `group_commit_split`
  shows that the rest may be missing.
- `QueueNeverFull`, a part of `RingAsserts`, is checked with a request queue that
  has a slot for each smallest record. The code divides the buffer size by 16,
  and there are records of 8 bytes.
- `VisitedExact` says nothing of a scan before its first step, when the code
  reads a `tabidx` that is not set yet.
- `RecoveredCurrent` names three exceptions: an expired link record that redo
  skips (`LinkSkipped`), a flush record replayed over a newer snapshot item
  (`FlushReplayed`), and a record written between the opening of the checkpoint's
  scan and its first step (`EarlyRecord`). At that time `tabidx` of the scan, a
  variable on the stack, is not set: the record may go to the next log although
  the snapshot will have its effect too.
- `FilesRemembered` leaves out the files that a restart found and did not
  recover from: `need_remove` is a local variable of the checkpoint thread.
- `ReplayExact` is about the first crash. The torn end of a log is never cut
  off, and a later replay can meet its remains.
- `RefsAccounted` counts the references that `item_arithmetic()` on a collection
  does not release (`lost`).
- `FlushedGone` speaks of the moments from `oldest_live` on, and of items in the
  LRU lists. `oldest_live` has one value: a `flush_all` with a delay after one
  without (`items.c:480-485`) puts it into the future, and what had been flushed
  is valid again until then, which `doc/protocol.txt:592` excludes.
- `ConnsAccounted` counts the sockets closed without being counted off
  (`uncounted`).
- `InSync` names two requests of which a unit is left unread (`KnownShort`): "mop
  delete" with fields after an error of a pipeline, whose line end is not
  swallowed (`src/memcached.c:12185`), and a binary bop update with `novalue` set,
  whose value is not read (`src/memcached.c:5566`).
- In `conn`, two habits of clients are left out (`Habits`), both after a get that
  has failed half way: a scan, for which `HeldExact` is false, and another get.
- `PipeErrorHolds` is about lines that are not refused.
- In `ConnServer`, `waitfor_io_complete()` and the entry into the commit list are
  one step; their order (`cmdlogmgr.c:378` and `382`) is not exercised.
- `GetTells` is about trees that have elements: an emptied tree answers
  `ELEM_ENOENT` (`coll_btree.c:3918`) whatever was trimmed, where
  `docs/ascii-protocol/ch08-command-btree-collection.md:236` says `OUT_OF_RANGE`.
  A refused insertion raises the TRIMMED flag with no log record
  (`coll_btree.c:2101`), so a restart may lose it (`Recovered`); `GetTells` holds
  after a restart for what was trimmed. A bkey that later insertions have
  enclosed no longer counts as trimmed.
- `SmgetExact` names two exceptions. A scan whose first element is the end of the
  range steps on and reports a trim that lies outside of the range
  (`StepsBeyond`, `coll_btree.c:3258`; `ch08-command-btree-collection.md:404` and
  `465` speak of elements in the range). A unique smget whose last scan found
  only duplicates releases the item of that scan a second time (`RefsBalanced`,
  `coll_btree.c:3353-3364` and `4223-4226`).
- `MemoryExact` counts the elements of lists, not the references to them
  (`coll_list.c:227-229`).

### Where the code and its comments disagree

Each run below checks one statement of a comment, an assertion or a message; TLC
shows a behaviour of the modelled code that breaks it.

| Run | Property | Statement | What happens |
|---|---|---|---|
| `log_buffer_stale_size` | `SwitchAssert` | assertion, `cmdlogbuf.c:150` | `next_size` survives a failed checkpoint |
| `group_commit_split` | `AckedDurable` | comment, `cmdlogmgr.c:197` | a record is acknowledged when its first part is durable |
| `checkpoint_sweep` | `LastCheckpointKept` | comment, `checkpoint.c:83` | `atoi()` of a 14-digit name; the last checkpoint is swept too |
| `replay_range` | `ReplaySucceeds` | message, `cmdlogfile.c:471` | an unterminated BEGIN makes a later restart fail |

They were found in models. None has been reproduced on a running server.

## Bounds

Sizes are scaled so that the boundary cases occur: a ring of 7 bytes wraps and
holds several requests, with records longer than one; two files, or three, cover
a switch and the checkpoint after it; two clients race each other for the fsync
LSN and for the commit list; the keys of one bucket part at the first and at the
second expansion; b+tree nodes of 4 items split, borrow and merge on three
levels; hash nodes of 2 slots split twice; two item blocks and three units of
memory make every allocation compete; `IntMod` and `FirstTime` keep the relation
between a C `int` and a 14-digit time. Every bound is a constant named `Max...`.
TLC's results hold for these instances only.

## Fairness

The flush thread, the group commit thread, the checkpoint thread and the
collection delete thread run loops with timed sleeps (10 ms, at most 1 s, 1 s,
50 ms), so their steps are weakly fair. A worker inside an update or between two
turns of its event loop goes on. The steps of a scan are strongly fair: each
needs the cache lock, which the workers and the other scan also take, and a
mutex that is free again and again is granted in the end. The pipe of a worker
is strongly fair: libevent serves its active events in turn. No client has to
send anything, and no checkpoint has to start; nor has `cmdlog_file_sync()` to
run, because the group commit thread calls it only while some client waits
(`cmdlogmgr.c:281-294`). That the previous files are removed in the end is
therefore not claimed. Two assumptions go further, and the properties depend on
them. `ThreadsProgress` assumes
that every commit is notified, which is `WaiterReleased` of `GroupCommit`.
`WriterGetsRoom` is checked with records small compared with the ring, as 2 MB
are to 100 MB; it fails when a record and an open request do not fit together.

One guard stands for a timing assumption, in `ChkptOpen` of `CmdLogBuf`: a flush
begun before a checkpoint failed is over when the next one opens its file,
because `CHKPT_CHECK_INTERVAL` is 5 seconds. And `Checkpoint` assumes a clock
that is never set back: file names are local times, and recovery takes the
largest.

## Proofs

| Theorem | Property, for every value of the constants | Run |
|---|---|---|
| `GroupCommitProofs!Inductive` | `IInv` | `group_commit` |
| `GroupCommitProofs!AcknowledgedSurvive` | `AckedStartDurable` | `group_commit` |
| `GroupCommitProofs!TypeCorrect`, `LsnsOrdered` | `TypeOK`, `LsnOrder` | |
| `CmdLogReplayProofs!ReplaysAgree` | `ReplayStable` | `command_log` |
| `CmdLogReplayProofs!ReplayRedoesLogged` | `ReplayExact` | `command_log` |
| `CheckpointProofs!CheckpointFilesAgree` | `FilesAgree` | `recovery` |
| `CheckpointProofs!CheckpointFilesRemembered` | `FilesRemembered` | `progress` |
| `ConnIoProofs!CommitsNotifiedInTime` | `NotifiedInTime` | `conn` |
| `ConnIoProofs!ConnectionsNeverForgotten` | `NeverForgotten` | `conn` |
| `ConnReplyProofs!RequestsAnsweredOnce` | `AnsweredOnce` | `conn` |
| `ConnReplyProofs!PipelineErrorLasts` | `PipeErrorHolds` | `conn` |
| `ThreadsProofs!NoLostWakeup` | `WakeupsKept` | `progress` |
| `ThreadsConnsProofs!ConnectionsAccounted` | `ConnsAccounted` | `progress` |

The theorems rest on the named assumptions about constants, which TLC evaluates
for the instances of the runs. Bounds (`Max...`) are constants like the others:
no theorem limits them beyond being natural numbers, if that.

### Group commit

`GroupCommitProofs` proves, for any set of clients, record sizes, request size
and bounds satisfying `ConstantAssumption`:

- `Inductive`: `Spec => []IInv`
- `TypeCorrect`, `LsnsOrdered`, `AcknowledgedSurvive`: the properties `TypeOK`,
  `LsnOrder`, `AckedStartDurable`

`AckedStartDurable` alone is not inductive: whether an acknowledged record
survives depends on which file the fsync round covered, and that on the state of
a file switch. `IInv` therefore joins `TypeOK`; `Control` (the threads agree on
which file is which); `Positions` (requests end in order); `Lsns` (LSNs advance
with positions; `FlushLsn` accounts for the lag during a switch); `Records` (a
record's LSN tells its position); `SyncCovers` (each file in use is durable up to
the round's position or still to be fsynced in it); `FsyncedSurvive`;
`AckedFsynced`; and `WaitListExact` (a waiting client is in the commit list,
once). `LsnOrder` follows from `Control`,
`Positions` and `Lsns`, and `AckedStartDurable` from `AckedFsynced` and
`FsyncedSurvive`. There is one lemma per conjunct, with one step per action.

The theorem is about the first byte of a record. That the whole record is
durable is false in general (`group_commit_split`).

### Replay of a log file

`CmdLogReplayProofs` proves `ReplayStable` and `ReplayExact` from `LogConstants`:
the body of a record is some number of cells, and bytes read as a header look
like a record that ends in the file, one that does not, or none. One iteration
of `cmdlog_file_apply()` is written as a relation `Walk` between two places of a
replay (position, pending operation, kept records, what is redone). It is unique
(`WalkUnique`) and reads nothing behind the place where it ends (`WalkLocal`).

- `ReplayStable`: `StableInv` says that the places the last replay came through
  are a trail from the start of the file, and that a replay going on is
  somewhere on it or at its end. The server writes behind the trail
  (`TrailKept`), so the next replay follows it before it meets anything new. No
  assumption on what it meets there is needed: remains of torn records and
  unterminated operations are included.
- `ReplayExact`: `ExactInv` says that up to the first crash the file and the
  buffer together are whole commands, cell by cell (`Commands`, kept by
  `CommandsJoin`), and that the replay after it is between two records, has
  redone what the cells up to there log, and has kept the records of the open
  operation (`Boundary`). `BoundaryWalks` is the heart of it: from there the
  replay comes to the end of the next record, or the rest of the file is a part
  of one record. `LogFn` carries what each prefix of the file logs along with
  the file, because the definition of a sum over a sequence could only be
  unfolded by induction.

### Files of a checkpoint

`CheckpointProofs` proves `FilesAgree` and `FilesRemembered` from
`ConstantAssumption` of `Checkpoint`.
The checkpoint thread keeps `lasttime`, `prevtime` and `newtime`, the log module
three descriptors, and the two are updated under different locks. `FilesInv`
ties them together by the switch mark in the buffer: during a dual write there is
none, the end of the scan leaves exactly one, and until the flush thread has come
to it the descriptors are those of before, and no checkpoint starts.

`FilesRemembered` needs `FilesInv` where a checkpoint ends: the new `prevtime`
replaces one that must be `NoTime`, or its files would be forgotten. It is proved
for any pattern of failing unlinks. A sweep clears `need_remove` only when it has
removed every file: `atoi()` of a 14-digit name is never `lasttime`
(`FirstTime >= IntMod`), so it spares none (`checkpoint_sweep`).

### Connections

`ConnIoProofs` and `ConnReplyProofs` are about every set of requests of both
protocols and every value of `Habits`, so with the habits left out of the run
`conn` too. The client keeps to what `ClientSends` says for every `Habits`: in a
pipeline it sends the commands that the protocol allows there. The proofs follow
the code: one lemma for each group of handlers, down to `out_string()`,
`write_bin_packet()` and the functions that free and swallow, then one step for
each state function.

- `IoInv` says where a connection is between two steps: run by the worker and
  waiting for nothing; just returned from its handler, with at most the one
  commit that the handler's engine call started; closed; watched for the event
  that its state needs; or suspended, with a commit to come or with its place in
  the pending list. `NotifiedInTime` and `NeverForgotten` follow. The hard part
  is in the handlers: one that has started a commit keeps `ewouldblock` on every
  path, and does not take the request for one without a reply, which would reset
  it.
- `ReplyInv` says how far the request has come: not answered yet, answered once,
  or dropped with the connection; and what is still to be read. `AnsweredOnce`
  follows from it. `PipeErrorHolds` is an action property, proved from the same
  invariant and `PipeAssumption`: "pipe" is the last token of lines of
  the commands whose handlers look for it. Without that assumption the model
  would take "get k pipe" for a member of a pipeline, where to the code "pipe" is
  one more key.

### Worker threads

`ThreadsProofs` proves `NoLostWakeup`, `Spec => []WakeupsKept`, for any number of
workers, connections and engine threads. With the types `WakeupsKept` is
inductive: a byte that is read turns into the step "pop", which takes one
connection, and "take", which empties the list.

`ThreadsConnsProofs` proves `ConnectionsAccounted` from `ThreadsAssumption`.
`ConnsAccounted` counts, and to keep a count one must know where every
connection is: `Accounted` adds `Placed` (a connection is in at most one of the
queue, the event loop, the commit wait, the pending list and the list taken from
it, all of the same worker) and `Stopping` (which threads have ended at each step
of the shutdown). The connections of a worker that has ended are the exception:
a commit may still be notified for them.

### Only model-checked

- Liveness (`WriterGetsRoom`, `SwitchHappens`, `WaiterReleased`, `ScanEnds`,
  `ThreadsProgress`, `CheckpointEnds`, `CollFreed`): the prover does not do
  fairness.
- `RingAsserts` and `LsnIsFileOffset`: they are not true for all constants. The
  request queue overflows when records are smaller than its slots assume, and
  the offset of a file is only right as long as the assertions hold.
- `HeldExact` and `InSync`: they hold for clients without the two habits and for
  requests whose parts fit the command (with `KnownShort` named), not for every
  set of requests. An assumption that says so would repeat the request sets of
  the run.
- `StreamSpec` (a refinement through a flattened sequence), `RecoveredCurrent`
  (a fold of the log over the snapshot) and the properties of `Items` (sums of
  references and of memory by recursive functions): each needs an induction over
  data, which the installed provers do not do.
- `FindsEveryItem`, `ScanExact`, `VisitedExact`, `CursorExact` of `Assoc`: the
  place of a key depends on bits of its hash value and on powers of two, which
  the SMT solver has no theory for.
- All of the b+tree, set and map modules: recursive operators.

## Not modelled

Write errors of the log (the code asserts), the pool of waiter entries, setattr
records, user-started snapshots except as a cause of failure, a change of
`async_logging` at run time; large items, cas values, dump and statistics of
items; nested prefixes and prefix counters; slab classes and the small memory
manager; UDP, SASL, tokenizing and number parsing; the cluster
(`src/arcus_zk.c`, `src/arcus_hb.c`, `src/cluster_config.c`), which needs a
ZooKeeper ensemble to talk to; command logging, long query detection,
statistics, the demo engine, the extensions and the test programs. About 21,200
source lines are mapped, a third of the repository.
