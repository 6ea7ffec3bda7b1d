# WeddingCake in TLA+

A TLA+ development of WeddingCake, an append-only, tiered store of hashes that
can be looked up by position (`GlobalPi`) and by value.  It models the code at
the level of its threads, mutexes and condition variables, checks it with TLC
on small instances and proves its safety properties with TLAPS for instances of
every size.

Paths below are relative to the repository.  `A/` stands for
`apps/wedding_cake/include/`, `L/` for `libs/evolving_disk_state/include/`,
`O/` for `include/evolving_disk_state_old/`.

## 1. The system

Client threads feed blocks of hashes.  Block by block they enter an in-memory
queue; one worker thread empties the queue into the *hatchling*, a donut that
is filling up in memory and in two files on disk; a full hatchling is moved into
a bounded *buffer room*, from which a tier above is to take batches of
`tier_fanout` donuts.

```
 clients --feed/flush--> IngesterBuffer --with_at_least_n_hashes--> worker
                              (mutex_ held while the worker's lambda runs)
                                                                      |
                                         append_hashes, promote, spawn|
                                                                      v
   search threads --with_current_contents--> BufferRoom <-- Feed -- hatchling
   tier above -- with_contents_when_filled, Discard -->                (ST00 files)
```

### Inventory

| Component | Code | State | Operations | What makes it correct | Hard because | Status |
|---|---|---|---|---|---|---|
| BufferRoom | `L/evolving_disk_state/buffer_room.hpp` | items, reader counter, discard flag, two mutexes, three condition variables | InitializeAdd, Feed, with_contents_when_filled, with_current_contents, Discard, empty | a lambda's span does not change under it, no purged item is seen, nothing leaves unpurged, nobody sleeps for ever | hand-over-hand locking, a flag raised and lowered, readers counted under one mutex and items guarded by another | modelled, proved |
| IngesterBuffer | `A/ingester_buffer.hpp` | queue, reverse map, first index, capacity behind it, flush and stop flags, one mutex, three condition variables | feed_block_of_hashes, flush, with_at_least_n_hashes, stop | nothing lost, repeated or reordered; a flush that returned has drained; no lost wake-up; the backlog is bounded | several clients, a flush in the middle of another's feed, a stop at any moment, a lambda run under the lock | modelled, proved |
| Ingester | `A/ingester.hpp`, `A/ingestor_worker.hpp` | the worker thread and its stop token | worker loop, destructor | the assertions on what the lambda leaves and returns hold; destruction ends | the worker blocks in the room with the buffer's mutex held | modelled, proved |
| IngesterTierFolder | `A/ingester_tier_folder.hpp` | hatchling, buffer room | promote_hatchling_and_spawn_next, first/next_offset, hydrate | donuts are full and contiguous, an index is found in one of them | the hatchling is "valid but unspecified" while `Feed` blocks | modelled, proved |
| Donut files | `A/ingester_evolver_types.hpp`, `A/ingester_tier_hydrator.hpp`, `L/evolving_disk_state/tier_folder.hpp` | order file, suffix file, folders | append_hashes, seal, hydrate, promote | what is hydrated is what was appended | two files written one after the other, restarts between any two steps | modelled, folders proved |
| FilesManifestDummy | `L/files_manifest/dummy_implementation.hpp` | handles, open files, sizes, sealed | create, get, open, append, close, flush, seal | an append reaches the file of its handle; nothing after sealing | handles outlive open streams | partly: existence, open streams, what they hold |
| LookupableBufferRoom | `A/lookupable_buffer_room.hpp`, lookup parts of `A/ingester_buffer.hpp` and `A/ingester_tier_folder.hpp` | (room, hatchling, queue) | first_offset, next_offset, forward_lookup, reverse_lookup | an answer is true of the log, an offset was right at some moment of the call | bounds are checked in one view, the search is done in the next; offsets are read without a lock while the worker moves items | modelled, offsets proved |
| Donut entry codec | `A/donut_entries_calculator.hpp`, `A/hash_prefix_suffix.hpp`, index types of `A/types.hpp` | none | sizes, masks, sentinel, prefix index, encode and decode, rejoin | a hash is the same after it was split and put together, the gap sentinel is no index | bits split across two files, widths by tier | modelled, rejoining proved |
| Entry files | `A/hashes_order_file.hpp`, `A/ls_suffix_entries_file.hpp`, `A/reader_writer_factory.hpp` | a file, a buffered output stream, an input stream | append, flush, close, read_next, has_more, seek | what was appended is read back whatever was asked before | torn entries after a crash, `eofbit` and `failbit` left by earlier reads | modelled |
| ShallowTree | `include/wedding_cake/shallow_tree.hpp` | a trie: nodes that examine one byte of the hash, leaves with reassurance bytes | build from a span, look up a candidate, count nodes | every presented hash is found under its index, a candidate is reassured, no byte is examined in vain | the span is rearranged in place, and build and lookup must skip the same bytes | modelled, proved |
| OutputBuffer | `O/pipeline_buffer.hpp` | contents, one shared mutex, two condition variables | push_back, read, consume (two ways) and wipe, empty | a batch is wiped only by who consumed it, once; a push returns | a shared lock is dropped between consuming and wiping | modelled, proved |
| ManifestEngine, SliceContext, TierOrchestrator | `O/manifest_engine.hpp`, `O/slice_context.hpp`, `O/tier_orchestrator.hpp`, `O/type_states.hpp` | log of declarations and commits, state folders | record, commit, recover, change state, settle | recovery leaves a committed state, a finished folder is final | crashes between any two writes | modelled, finished folders proved |
| ExternalFeeder | `O/external_feeder.hpp` | a slot for one item | offer | | | not modelled: within one call, tier 0 is a mock |
| StoreB | `A/store_b.hpp` | wrapper | delegate | | | not modelled: delegation only |
| TierFolder, TierHydrator of the library | `L/evolving_disk_state/` | | | | | not modelled: instantiated nowhere |
| Legacy store and file readers | `A/store.hpp`, `A/tiers.hpp`, ... | streams | read, write | | | not modelled: superseded by StoreB |
| Assertions | `A/mishap_assert.hpp` | none | | | | an assertion that fails is a state of the models; the macro is not modelled |
| HashStore, DupStore, Cake, Baker, Icer | `docs/ARCHITECTURE.md` only | | | | | not modelled: no code |

Everything in the code that is hard to test is listed under `hazards` in
`PROJECT.json`, at its line, with the properties that watch over it or the
reason why none does yet.

## 2. Modules

| Module | What it is |
|---|---|
| `BufferRoom` | the room, one action per critical section of each operation |
| `SharedBatch` | what the room promises its users, without locks: items arrive in order, are seen, and leave only purged |
| `BufferRoomProofs` | theorems about the room, and that it implements `SharedBatch` |
| `IngesterBuffer` | the queue with its clients, a worker of which only the contract is known, and stop |
| `Ingester` | extends `IngesterBuffer` with the tier and the worker's lambda step by step; implements `IngesterBuffer` |
| `IngesterProofs` | theorems about the queue, the step lemma (`BufferStep`) that the composition uses, and theorems about the composition |
| `DonutFiles` | what `append_hashes` writes and what `hydrate_self_for_lookup` reads, as operators on sequences of file entries |
| `TierDisk` | extends `DonutFiles`: folders, files and streams of the tier, with shutdowns, crashes and starts between any two steps of the worker |
| `TierDiskProofs` | why every folder but the last holds a whole donut at any crash, and why memory and files hold what was fed |
| `ShallowTree` | the trie as a set of nodes with keys, and the calls of the recursion still to be made: constructor, in-place partition, candidate lookup |
| `ShallowTreeProofs` | why every presented hash is found, an answer is reassured, and a tree has few nodes |
| `TierLookup` | lookups and offsets of buffer, hatchling and room, view by view, against the worker's steps and a discard |
| `TierLookupProofs` | why lookups answer from the log, and an offset read without a lock is right when no lambda ran meanwhile |
| `DonutEntries` | the entry codec: bytes as sets of bits, masks, prefixes and suffixes, the sentinel; operators only |
| `EntryFiles` | extends `DonutEntries`: writers and readers of both file formats with their streams, and crashes |
| `EntryFilesProofs` | why a split hash and its indices are read back, for any sizes, and why a reader returns what was appended |
| `SackManifest` | the state folders, work slices and manifest of the old subsystem, with crashes and recovery |
| `SackManifestProofs` | why the files of a state that was left are final, and why what was committed is on disk and comes back |
| `OutputBuffer` | the old pipeline's buffer with providers, consumers and readers, and the wait for it to settle |
| `OutputBufferProofs` | why a batch is lost only behind one that was baked twice |
| `MC*` | instances for TLC: the sets of threads and their symmetry |

### How state and actions correspond to the code

*Grain.* A critical section is one action: from locking a mutex up to unlocking
it or waiting.  Code in a critical section of `mutex_` cannot be observed by
another thread half done, so nothing is lost.  Three places need more steps,
and get them: the worker's lambda, which blocks while it holds `mutex_`; the
two-mutex protocol of `BufferRoom`, where a thread holds `state_mutex_` and
asks for `data_mutex_`, and where the lambda runs under a shared lock; and
notifications after an unlock (`stop()`).

*Condition variables.* A waiter sits at a `_wait` label.  `notify_all` moves
every waiter to the label from which it locks and evaluates its predicate
again.  A waiter can also be woken by nobody (`SpuriousWake`).

*Variables* carry the names of the members they model.  `pc` says where each
thread is.  `fed`, `mark`, `arrived`, `purged` are history: no guard reads
them.  `calls` counts calls for the bound `MaxCalls`.

*`IngesterBuffer`.*  `FeedCall`/`FeedEnter` are `feed_block_of_hashes`,
`FlushCall`/`FlushEnter`/`FlushRecheck` are `flush`,
`TakeCall`/`TakeEnter`/`Consume`/`TakeLeave` are `with_at_least_n_hashes`,
`StopCall`/`StopSet`/`StopNotify` are `stop`.  In this module `Consume` and
`LambdaReturns` are all that is known of the lambda: it takes items from the
front, it returns when nothing is left, and it says that between one and
`DonutCapacity` places are free.

*`Ingester`.*  `LoopTop` is the `while` of `ingestor_worker`, `AppendHashes` one
pass of its inner loop (`append_hashes` and `erase`), `Promote`, `FeedRoom`,
`Spawn` the three parts of `promote_hatchling_and_spawn_next`,
`ReturnFromLambda` the end of the lambda.  `RequestStop` and `Stop` are the
destructor.  `lambda_at` is the worker's position in the lambda.  The room is a
bounded queue here, because the worker is its only user in this code base;
`BufferRoom` is where it meets other threads.

*`BufferRoom`.*  Each operation is a call and then one action for each point at
which it can be overtaken; the labels are named after what the thread asks for
next.  Items are numbered in order of arrival.

*`TierDisk`.*  Here the worker is alone and every step that changes the disk is
an action of its own, because a crash can come between any two: `MakeFolder`
(twice: the object folder, then ST00 in it), `CreateOrder`, `CreateSuffixes`,
`AppendHashes`, `Seal`, `Promote` (the ST01 folder), `FeedRoom`, `Spawn`.
`Start`, `HydrateHatchling`, `HydrateRoom`, `Ready` are the constructors of the
tier's folder and of the queue; `at` says which comes next.  `TakeBatch` and
`LambdaEnds` are the ends of the worker's lambda; how batches come about is the
matter of `Ingester`.  A file is a sequence of entries (a suffix with its local
index; an index or the sentinel), not of bytes.  What was written to a stream
is `pending` until the stream is closed; how much of it had reached the file
matters only when the process ends, and is decided there (`Survives`): any part
of each stream independently of the other, and possibly a part of an entry of
two bytes.  A failed assertion or a throw is a crash with a `failure`.

*`ShallowTree`.*  `Present` fills the caller's array; `Refuse`, `BuildEmpty`,
`BuildLeaf` and `BuildTree` are the ways through the constructor.  A node is
named by its key, the bytes examined on the way to it with their values: `nodes`
maps keys to nodes, and the node in slot `v` of a node that examines `b` is
`Under(key, b, v)`.  `unused_mask` is what the key leaves (`Left`).
`recurse_generate_node` is one step for each call: `Recurse` chooses the byte,
rearranges the span of the call, makes the node and the leaves in it, and leaves a
call for each larger bucket in `calls`; since buckets are filled in the order of the
span, the call that comes next is the one whose span begins first (`IsNext`).
`Throw` discards the nodes, but not what was rearranged.  (The check for fewer
than two items is never reached: `CallsInv`.)
`Partitioned` gives each item the place that the running offsets give it.
`Candidate` is the lookup, asked of every possible hash by the properties.

*`TierLookup`.*  The worker's lambda is the one of `Ingester`, in the steps that
a lookup can tell apart: `append_hashes`, `erase`, `move_hatchling`, `Feed`,
`replace_hatchling`, `end_lambda`.  A donut that was moved from is empty, as
libstdc++ leaves it.  `with_current_contents` is one step, which `ViewIsStable`
of `BufferRoom` justifies.  A question that takes several views is several
steps: `room_forward_begin`, `room_first_offset`, `room_next_offset`,
`room_search`.  A failed assertion is the answer `Failed`; with `NDEBUG` the
code returns `nullopt` there.  A question carries what its client could know
when it began (`low`, `high`), and whether a discard or a lambda was under way
since (`discarded`, `consumed`).  Nobody in this code base asks the room yet: the
client is external.  `first_offset` of the tier and of the ingester would end in
`BufferRoom::empty()`, which does not exist; they are left out.

*`DonutEntries`, `EntryFiles`.*  A byte is the set of its one bits, so that a mask
is an intersection, an OR a union and a shift a shift of bit numbers; the sizes
of a byte, of a word and of a hash are constants.  `EntryFiles` is one file of one
of the two classes (`format`), its writer with the bytes its stream still holds
(`buffer`; `drain` writes any part of them), and its reader as the
position, `eofbit` and `failbit` of a `std::ifstream`.  `crash` loses the buffer.

*`SackManifest`.*  A work slice is `BeginSlice`, any number of `microstep`, one
`record_microstep_declaration` for each open file (flush, position, declaration),
`commit_work_slice`, `flush_manifest`.  A state is left in three steps,
`RemoveManifest`, `LockFolder`, `CreateNext`.  `End` is a shutdown or a crash: any
part of what a stream holds back may reach the file.  `boot_and_recover` reads
the manifest; `BootThrows` is the start that meets a folder it may not enter.  A
manifest is a sequence of fields, three to a record of either kind, so that a
torn record shifts what is read after it, as it does in the code.  The model
starts with the first folder, which no code makes.

*`OutputBuffer`.*  `LookAtFull`, `LambdaAgrees` or `LambdaRefuses`, `Wipe` or
`WipeNothing` are either way of consuming; a call that times out changes nothing
and is not a step.  A section under the exclusive lock is one step.  Only tests
call this buffer: that a consumer counts itself in `in_flight_count` and then
notifies is taken from `tier_orchestrator.hpp`.  `SettleCall`, `LookAtBuffer`,
`LookAtCount`, `FallAsleep` are `wait_for_settled`, whose predicate
reads what other threads change without the settler's mutex.

Definitions marked *Fault* are the code with one plausible mistake in it.  No
action uses them; each is put in place of the definition it distorts to see
that a property notices.

## 3. What is checked

| Run | Question and answer |
|---|---|
| `BufferRoom` | Is the room safe in every interleaving of two producers, a worker, a search thread and one `Discard` at a time, with spurious wake-ups?  Yes: readers are counted exactly and none is registered while items are purged (`IndInv`), a span is stable, no sleeper is forgotten, and the room implements `SharedBatch`: items arrive in order and leave only purged.  Does every call return?  `Discard` and lookups do; `Feed` blocks only while the room is full; a full batch wakes a waiting worker. |
| `BufferRoomWakeUp` | Does `Discard` release a worker that waits for a batch?  **No**, not always: finding 1. |
| `Ingester` | Queue, worker, hatchling and room together, destroyed at any moment.  Does the queue keep what it is fed, in order, with consistent indices, bounded and with no lost wake-up (`IndInv`), and is a hash it answers for one that was fed there (`ReverseFindsFed`)?  Are donuts full, contiguous and made of what was fed, and do the worker's assertions hold (`TierInv`)?  Does a flush that returned have everything in the tier (`FlushReachesTier`), and does the worker keep the contract that `IngesterBuffer` assumes (`KeepsBufferContract`)?  Yes.  Do feeding, flushing (`CallsReturn`) and destruction (`ShutdownCompletes`) end?  Yes, unless the worker waits for a place in the full room. |
| `TierDiskSafety` | Through two restarts after shutdowns and crashes at any moment: does the tier hold what it was fed, does hydration undo appending, do filled donuts survive, is every folder but the last filled?  Yes.  What does a start refuse?  Files that an earlier crash left out of step, or that finding 2 made; never the room (`FailureHasCause`). |
| `TierDiskDuplicates` | Are suffix indices sequential?  **No**, after a duplicate: finding 2. |
| `TierDiskReopened` | Does a store whose files were hydrated take what it is then fed?  **No**: finding 3. |
| `TierLookupRun` | Is an answer true of the log, whatever the worker and a discard do between two views?  Yes; a lookup fails its assertion only if a discard (for the queue, a lambda) came between, and an offset is right unless a lambda ran meanwhile. |
| `EntryFilesRun` | Does a hash survive being split into two entries and put together again?  Yes.  Is an entry read back, whatever the reader was asked before and wherever the writer crashed?  Up to the first torn entry: all of it from the order file; from a file of suffixes the local index, and the hash where there is no prefix to leave a byte out for. |
| `EntryFilesSuffix` | Do the prefix and what a file of suffixes keeps make the hash?  **No**: finding 4. |
| `ShallowTreeSafety` | Does the trie find what it was built from, and does an answer mean what the comment says?  Yes: building fails just when two hashes agree on every byte outside of the tail, every other presented hash is found under its own index, an answer agrees with its target on the reassurance bytes, and there are fewer than twice as many nodes as hashes. |
| `SackManifestSafety` | Through two ends of the process between any two steps: is what was committed on disk, does a start put the files back to the last commit, are finished folders final?  Yes, the first two until the manifest is continued behind a slice that was cut off (see below). |
| `OutputBufferRun` | Is a batch wiped only by who baked it?  Yes, up to the first batch that two consumers baked.  Does every push return?  Yes.  Does settling end?  Unless the last batch is partial, or a notification falls between the settler's look and its sleep. |

Deadlock is not checked: calls, starts and items run out, a full room blocks the
worker by design, and then everybody else rests.  Who may rest, and where, is
what the liveness properties and the `NoSleeperLeftBehind` of either `IndInv` say instead.

### Bounds, and why they suffice

* `BufferRoom`: `Capacity = 2`, two producers, one worker, one reader, one
  discarder, two calls each (one in the run that looks for a counterexample).
  Two producers race for the last place, the room fills up, is discarded and
  fills again, and a stale waiter from the first round meets the second.
* `Ingester`: two clients with two calls each, blocks of one or two items, one
  hash and a gap, `DonutCapacity = 2`, `FirstPi = 3`, a room for one donut.  Both
  clients wait at once for the same place, a block overshoots the capacity, two
  flushes overlap with a feed in between, equal hashes meet in one block and
  across blocks; what the worker takes at once fills a donut and begins the next,
  ends just where one is full, and fills the room, so that the worker blocks in it.
  Safety and liveness are one run, so no symmetry is used.
* `TierDisk`: two hashes and a gap, `DonutCapacity = 3`, a room for one donut,
  batches of one or two items, six items, three starts.  A batch fills a donut
  and spills into the next, a hash comes again in the same call, in a later
  call and in the next donut, the room and the hatchling are both full and the
  worker blocks, and a crash is followed by an attempt to append and a third
  start.  The two hashes are symmetric.  `TierDiskReopened` is smaller: a
  counterexample needs two starts and a batch.
* `TierLookup`: one hash and a gap, donuts of two, a room of two, blocks of up to
  three, seven items: the room fills up, is discarded and begins again while one
  question is under way, and a donut with the hash lies behind one without.
  Questions change nothing, so one at a time is as good as many.
* `EntryFiles`: bytes of two bits, words of three bytes, hashes of two bytes,
  prefixes of none to three bits: no prefix, a part of a byte, whole bytes, and a
  byte and a part.  Four entries need two bytes, and all ones must not be an
  index.  Two entries in a file: a torn one and one behind it.  What is said
  of splitting is asked for every hash of that size.  For `EntryFilesSuffix` one
  entry with a prefix of one byte will do.
* `ShallowTree`: every array of up to three hashes of three bytes with three
  values each, two equal ones included, with tails of no bit, a part of a byte,
  whole bytes, the whole hash and more, and one or two reassurance bytes; every
  hash is looked up.  A bucket lies between others, a subtree between leaves, a
  subtree throws before its successors are built, and leaves have more, just as
  many and fewer spare bytes than asked for.
* `SackManifest`: one file of the first state, two of the second, three slices,
  one write to a file in a slice, two ends of the process.  A slice is cut off
  in the middle of its records, a second one continues behind it, and the
  process ends in each step between two states.
* `OutputBuffer`: two providers, two consumers, a reader, batches of two, five or
  six items.  Three batches are the fewest in which the late wipe of one consumer
  can meet a batch that nobody looked at; five items leave the last one partial.

More threads would add interleavings of the same steps only; the
theorems of section 4 hold for any number of them, any capacity and any number
of calls.  Symmetry is used among hashes, in safety runs only.

### Fairness

`FairSpec` and `FairIngesterSpec` assume weak fairness of the steps of each
thread that has begun something: a runnable thread runs.  Nothing obliges a
client to call, or anybody to destroy the store, and no spurious wake-up is ever
due.  Mutexes are not assumed to be fair: a thread can be overtaken each time,
but as calls are finite it cannot be overtaken for ever.  That is what
`std::mutex` and the operating system's scheduler give.  `OutputBuffer!FairSpec`
assumes besides that consumers keep calling, because they are loops of workers
that this code base does not have yet, and that their lambdas return; a lambda
refuses a batch a bounded number of times.

### Findings

1. *A worker can sleep through `Discard`.*  `Discard` notifies waiting workers
   ("so they can unblock cleanly", `buffer_room.hpp:124`) and lowers
   `is_discarding_` at the end.  A worker that gets the mutex only after that
   finds its predicate false again and waits for ever.  (`BufferRoomWakeUp`)
2. *A duplicate makes a donut unreadable.*  The next suffix index is the size of
   the reverse map ("Count of actual hashes written so far",
   `ingester_evolver_types.hpp:136`), which counts a repeated hash once although
   it was written twice.  The indices written by the next call are too small, and
   hydration stops at its assertion that they are sequential (line 266).  Without
   assertions this goes unnoticed, because entries are read one after the other
   whatever their index is.  (`TierDiskDuplicates`)
3. *A reopened store takes nothing.*  Hydration looks up the handles of the
   hatchling's files ("Open two files and be ready to append to them",
   `ingester_evolver_types.hpp:83`), but nobody opens them; the first append throws
   in the worker thread and ends the process.  In the trace the first process is
   killed when it has made the folder of its hatchling; it is the same after a
   shutdown in good order.  `StartedStoreTakesItems` also denies what the assertion
   of `ingester_buffer.hpp:30` denies ("We should always find some downstream
   capacity at startup"): from the moment a hatchling is full until its
   folder has become an ST01, a crash leaves a full donut as the highest offset, which the
   next start meets there.  TLC reports the first violation, which is the
   former.  (`TierDiskReopened`)
4. *A file of suffixes keeps the wrong end of the hash.*
   `LSSuffixEntriesFileWriter` writes the bytes of the hash from
   `suffix_start_idx_` on ("starting from the low-order offset",
   `ls_suffix_entries_file.hpp:123`).  In memory a hash begins with its least
   significant byte (`hash_prefix_suffix.hpp:16`), so these are the most
   significant bytes, which the prefix has too, while the suffix is to be "least
   significant" (line 18).  With a prefix of a byte or more the low bytes are in
   no file.  The codec of `DonutEntries` keeps the right ones; the test
   `ls_suffix_entries_file_test.cpp:77` expects what the code does.  So far only
   tests write such files with a prefix.  (`EntryFilesSuffix`)

### What the properties make exceptions for

Some behaviour that a reader may not expect is part of the models and named in
the properties as a cause:

* *Destruction with a full room* (`ShutdownCompletes`): `stop()`
  (`ingester.hpp:35`) needs the mutex that the worker holds while it waits for a
  place in the room.
* *Which index a repeated hash has* (`ReverseFindsFed`, `ReverseFindsFirst`): the
  queue's map is assigned, the hatchling's is inserted into, so a hash fed twice is
  found at its latest index while both are in the queue and at its earliest in a
  donut.  No document says which of them either is to answer.
  `ARCHITECTURE.md:42` promises the earliest index of `HashStore`, for which there is
  no code yet and which is to keep duplicates out of a cake; so for the queue the
  property asks only that the answer is an index the hash was fed under and that is
  still in the queue.
* *A flush is not a write-through*: `flush_manifest_to_disk` is an empty ToDo.
  What was fed is safe from a crash when its donut is filled (`RestartKeepsLog`),
  not earlier.
* *Lookups around a discard or a lambda* (`LookupsAnswerFromLog`,
  `NextOffsetIsRight`): `contains_pi` takes two views and the search a third, and
  a room that is discarding answers "no match" as its next offset, which is
  beyond every index; the queue's `next_offset()` is a sum of two reads without
  the mutex under which the lambda changes both.
* *A torn manifest* (`CommittedIsOnDisk`, `FilesHoldLastCommit`, `~tailCovered`):
  recovery cuts files, but not the manifest.  A commit behind a torn record cannot
  be read, so the next start cuts off data that was committed, where
  `manifest_engine.hpp:65` says "Truncate files to the last validated commit
  state"; and declarations of a slice that was cut off are taken over by the next
  commit, because `pending_lengths` is not emptied.  A file that was never
  committed is not cut at all.
* *A crash between locking a folder and making the next* makes every later start
  throw (`BootThrows`).
* *Two consumers* can each bake the same full batch, and the slower one then wipes
  what came after it (`LossHasCause`).
* *Settling*: the count is changed and notified without the mutex of the waiter
  (`tier_orchestrator.hpp:15`, `27`), so that the notification can fall between its
  look and its sleep; and a last batch that is not full is never consumed.
* *Torn entry files* (`EntriesReadBack`, `SuffixCompletesHash`, `~torn`): nothing repairs the end of a
  file, and the next writer appends behind it.  The reader of the order file
  returns an entry made of zeros and of the bytes that are there
  (`got'.whole`), and a second look past the end leaves `failbit` set, after which it
  seeks no more.

Two more points are outside of the models.  `Feed` reads the size of `items_` under
`state_mutex_` only, `Discard` clears it under `data_mutex_` only
(`buffer_room.hpp:47`, `144`): a data race; a step of the model is one access.
And two `Discard`s at the same time would share one flag, which the first
to finish lowers for both; everything about the room assumes `OneDiscardAtATime`
(one worker per tier).

## 4. What is proved

Every theorem below holds for all sets of threads, capacities and bounds that
satisfy the named assumptions of the modules (`CapacityAssumption`,
`RolesAreDisjoint`, `ThreadsAreDistinct`, `NumbersAssumption`,
`FanoutAssumption`, `DiskBoundsAssumption`, `SackAssumption`, `OutputBufferAssumption`,
`SizesArePositive`, `NumbersFit` ...), each of which TLC evaluates in the runs.

*The room* (`BufferRoomProofs`).  The inductive invariant is `IndInv`: the type
invariant, the labels each role can be at, who owns which mutex at which label,
the counter as the cardinality of the set of registered readers
(`ReadersCounted`), and the two conjuncts that carry the argument: while a
`Discard` is past its wait, the flag is up and no reader is registered; and
what a lambda was given is a prefix of what is in the room.  The counter needs
facts on finite sets; they are from FiniteSetTheorems.  From it follow
`PurgeExcludesReaders`, `ViewIsStable`, `NeverLooksAtPurged`,
`NoSleeperLeftBehind`, `DataLockIsUncontended`, `ItemsLeavePurged`, and the
refinement `RoomKeepsPromise`: each step is a step of `SharedBatch` or a stutter.

*The queue* (`IngesterProofs`, first part).  `IndInv` is proved in three layers, each
with a lemma for each action: shapes and bounds; numbers (`BufferIsEndOfFed`,
`OffsetsAgree`, `BacklogIsBounded`); and waiting (`RequestHasItems`,
`MarksAreReached`, `NoSleeperLeftBehind`).  `MarksAreReached` is why
`FlushDrains` holds: when a request is no longer pending, what was fed before it
is out of the queue, for whichever client made it.  `ReverseFindsLast` needs the
shapes only, and `ReverseFindsFed` follows: a last place exists because the distances to the end of a sequence have
a least one (`LeastNumber`), and a block behind a sequence keeps the last place of
every hash it does not have (`LastIndexOfConcat`).

*The composition* (`IngesterProofs`, second part).  `IngesterInv` adds
`TierInv`, whose parts `DonutsHoldWhatWasFed`, `RangesAreContiguous` and
`WorkerAssertions` need each other: that a
donut holds what was fed is inductive only if the hatchling ends where the
buffer begins, which needs the ranges.  `LambdaKeepsContract` proves that every
step of the composition is a step of `IngesterBuffer` or leaves its variables
unchanged, so that the assumption that `IngesterBuffer` makes on the lambda is
discharged; `FlushAlwaysReachesTier` is the end-to-end result for clients.

*Offsets* (`TierLookupProofs`).  `LookupInv` says for each position of the worker
where the hatchling ends, where the buffer begins and how much of the log
`first_global_pi_` counts (`OffsetsInv`), and for each question what its first
read has seen if no lambda was under way since (`CallInv`).  Between lambdas the
two reads then add up to an end that the log had during the call
(`NextOffsetAlwaysRight`).  That is the most that can be had without a lock.

*Lookups* (`TierLookupProofs`, second half).  `PartsInv` and `RoomInv` say that
buffer, hatchling, the donut on its way and each donut of the room hold what
the log has under their indices, and that the donuts of the room follow one another
without gaps up to the hatchling; both use `OffsetsInv`, and together they are
`PartsOfTheLog`.  `QAInv` is about the question: as long as it remembers no
discard (for the buffer, no lambda), the index it was asked for is still there; and
once it is answered, the answer is true of the log (`AnswerInv`).  The log only grows,
so an answer stays true.  That a hash is found at its *first* place in the room needs
that a nonempty set of numbers has a least one (`LeastNumber`, from the
well-foundedness of `<`), and that the room has no gap in which it could
occur before.  The value that stands for "no match" is beyond every index because
`MaxFed`, a number like any other (`BoundsAreNumbers`), bounds the log.

*Folders* (`TierDiskProofs`).  `FoldersInv` counts the folders from below: the
hatchling is number `k` of them, the room holds those before it, and only while
the next one is being made is it not on disk yet (`CountInv`).  `StreamInv` says
that order file and stream together have one entry more than the hatchling has
items, the header; so closing the stream of a full hatchling leaves a whole
file, and a folder becomes an ST01 only then and is not written again
(`PromotedInv`, `IsFolder`).  A crash leaves any part of the stream, but in the last
folder only.  Hence `OnlyLastFolderIsUnfilled`, and that no start throws for too
many folders or finds an unfilled donut in the room (`RoomIsAlwaysAccepted`).
`MisalignedOnlyAfterCrash` is a part of `FailureHasCause`: a torn file was left
by a process that was not shut down (`TornInv`).

*What is in the folders* (`TierDiskProofs`, second half).  All safety properties
of `TierDisk` are theorems.  An entry of an order file names the place of its
hash among the hashes of its donut, so the first lemmas count: `Rank` grows by one
with each hash and not with a gap, `HashesIn` and `FirstPlace` of an extended
sequence are those of the sequence and of what was added, and the map that
`append_hashes` extends is the one that hydration builds.  `Describes(a, b, p)` says
that the cells `a` and `b` are what the items `p` are written as.  Two groups of
lemmas then carry the argument: what `append_hashes` adds to described cells
describes the longer sequence, and a beginning of described cells, whole or cut
by a crash, is read back as a beginning of the sequence, or not at all when
the suffixes end first.  `DataInv` is inductive together with `FoldersInv`:
items of the log are hashes or gaps (`ItemsInv`); the files of each folder
describe a beginning of its `Portion` of the log, of a filled donut all of it
(`FilesInv`); files and streams of the open hatchling together describe exactly
what it holds (`PendingInv`); and what is in memory holds what the log has under
its indices, with the map that belongs to it (`HatchlingInv`, `KeptInv`).  Hence
`LogIsInMemory`, `MapsFindFirst`, `LogIsInFiles`.

*What happened before* (`TierDiskProofs`, last part).  A start can fail for what
an earlier process left.  `PastInv` relates the two: half an entry (`TornInv`) or
suffixes that end before the order file does (`TruncatedInv`) are left by a
process that was killed; a donut without an ST00 folder has no entries
(`BareInv`); the files are open unless they were found, which takes another start
(`StartsInv`); after a shutdown all streams are flushed and the files have the
whole log (`CleanInv`); and why the process ended (`CauseInv`).  Hence
`FailuresHaveCauses` and `RestartsKeepLog`.  That `DataInv` and `PastInv` are
inductive invariants and no accidents of the proof was first checked by TLC
on the instance of `TierDiskSafety`.

*Splitting* (`EntryFilesProofs`).  `SplitLosesNothing`: for any size of a byte and
of a hash, any hash and any number of prefix bits, prefix and suffix give the
hash back.  Two cases: the cut is between two bytes, or in one byte, which both
entries then have a part of and which the OR puts together.

*Entries* (`EntryFilesProofs`, second part).  `HashesSurviveSplit` adds the rest of
`HashSurvivesSplit`: indices, sentinel and the grouping by prefix.  A number is the
set of its bits, and that a number is known by them (`SameBits`) is where the
powers of two come from: they are cardinalities of power sets, `Doubling` is
proved on those, and the induction is that a set of counterexamples would have a
least number.  An index is below the capacity, and the bytes for it are counted so
that the next number fits too; so no index is all ones and the sentinel is
(`NoMatchIsOnes`, `OnesOnly`).  `NumbersFit` is what the code needs for this: a donut has
entries, two donuts have fewer than a word has numbers, and a prefix index
is one word.  An index of prefix bits decides the masked prefix and the path,
and the other way round (`MaskedByIndex`, `PathByIndex`).

*Entry files* (`EntryFilesProofs`, last part).  `FilesInv`: file and writer's buffer
together are shorter than one more entry would make them, and until a crash has
cut an entry they hold exactly the bytes of what was appended (`Holds`), however much
of the buffer was drained.  A crash keeps the entries that are wholly in the file;
that those are still the first ones appended is `HoldsFirst`.  `ReaderInv`: a
stream that has not failed is where an entry begins.  The position inside of an
entry needs no case of its own, because a read that ends there has failed.
`Called` is what each call of a reader owes given these two: an entry that is
returned is what the file keeps of the one appended (`ReadsAs`).  From it follow
`EntriesAreReadBack` and `SeeksRecover`.  TLC checked `FilesInv` and `ReaderInv` first,
on the instance of `EntryFilesRun`.

*Finished folders* (`SackManifestProofs`).  `SackInv` says that every file that
is open, is declared or is named by the manifest or what its stream holds
back, belongs to the state that a start would take up (`FilesInUse`).  It is
needed because a state is left in three steps and a start goes by folders alone: only
because the manifest is removed first does no later recovery cut a file of the
state that was left (`FinishedFolderStaysFinal`).

*Commits* (`SackManifestProofs`, second half).  `KeptInv` has three parts.  `FilesInv`:
a stream holds data back only for a file that is open and not yet declared.
`StreamInv`: what waits for the manifest's stream is whole records, a declaration of
each declared file with the length that the file has by then, and a commit
only at the end and only when every open file is declared (`Waiting`).
`CommitsInv`: until a manifest is continued behind a slice that was cut off, its
fields are where a reader that takes three at a time expects them (`WellFormed`), and
a file has on disk what it had at the commit that its length is read from, and no
more unless it is open.  What a crash adds to the manifest is a beginning of what
waits; either it ends before the commit, and a reader finds the lengths it found
before, or it has all of the commit that is looked at, and then each declared length
is that of a flushed file (`LengthsCommitted`, `NothingCommitted`).  Of a set of
declarations the last one counts, so the lemmas need that a bounded nonempty set
of numbers has a greatest one.  The condition `~tailCovered` cannot be dropped:
behind a torn record the reader takes other fields for types and offsets, and what it
then reads as an offset is a length beyond every file (`read_offset`).  Hence
`CommittedStaysOnDisk` and `FilesAlwaysHoldLastCommit`.  TLC checked `KeptInv` first, on
the instance of `SackManifestSafety`.

*The old buffer* (`OutputBufferProofs`).  Whoever bakes holds the lock shared and
so bakes what is there; whoever is about to wipe has agreed to a batch that
is still the one in the buffer, unless some batch was baked twice (`LossInv`).
Hence `LossAlwaysHasCause`, and that one consumer loses nothing.

*The trie* (`ShallowTreeProofs`).  `TreeInv` says what is under a key.  The span
is a rearrangement of what was presented (`SpanInv`), which needs that `Place` is a
permutation of the span of a call: it is injective, and a finite set has no
injection into itself that misses a place (`PlacesAreFilled`).  The span of a call
holds just the items that match its key (`CallsInv`); a leaf is made of the one
presentation that matches it (`LeavesInv`); what matches a node with slots matches
a node or a call that its slot leads to (`SlotsInv`).  Two keys that the same hash
matches are on one way, and a leaf or a call ends it (`EndsInv`): without this
two calls could claim the same slot.  The way of a lookup adds a byte in each round,
so it ends within `HashBytesCount` rounds (`WayEnds`), and for a presented hash it
ends in its leaf (`WayOfPresented`); the reassurance bytes are counted by
`Rank`, in the leaf and in the lookup from the same `Left`.  Hence
`LookupAlwaysFindsPresented` and `AnswersAreAlwaysReassured`: an answer has all the bytes
of the key besides the reassurance, one at least if more than one hash was
presented.  For `TreeIsAlwaysShallow`, the byte with the fewest collisions tells two
items apart unless no byte does (`BestByteSeparates`), so each split makes one
more end than it takes away (`CountInv`), and no presentation has two leaves.  TLC
checked `TreeInv` first, on the instance of `ShallowTreeSafety`.

*Model-checked only.*  Liveness (the prover has no rules for fairness here).
The findings are counterexamples and are only model-checked.

## 5. Plan

Done, in this order: `BufferRoom`, `SharedBatch`, `IngesterBuffer`, `Ingester`
and their proofs; `DonutFiles`, `TierDisk` and `ShallowTree`; `SackManifest`,
`OutputBuffer`, `DonutEntries`, `EntryFiles`, `TierLookup` and the proofs about
them; the proofs about the folders of `TierDisk` and what is in them, the lookups of
`TierLookup`, the commits of `SackManifest`, the streams of `EntryFiles` and the nodes
of `ShallowTree`, whose recursion became a set of calls for this.  All safety
properties of the passing runs are theorems.

## 6. What is not modelled, and why

* `Ingester` starts with an empty tier: a hatchling hydrated from disk cannot be
  appended to in this version.  What a start makes of the files is in `TierDisk`.
* A loss of power, which would also lose what was written through to the
  operating system; the names of folders and their parsing
  (`object_folder_offsets` reads an `int`).
* Of `FilesManifestDummy` the operations that the tier never calls (`open_file`,
  `commit`), sizes, and handles as numbers.
* The factory of entry files as a template: it passes a `uint64_t` where an
  explicit `MsPrefixIndex` is needed, and would not compile if it were
  instantiated; `EntryFiles` has what its calls say.  A file that cannot be opened
  makes a constructor throw before anything has changed.
* An empty block returns before it locks and is left out.
* Exceptions from the file system and memory exhaustion.
* `ExternalFeeder` offers an item to tier 0 and empties its slot within one call;
  tier 0 is a mock of the tests.
* `StoreB` delegates to one object; `Store`, `Tier0` and `Sack` are superseded by
  it; `TierFolder` and `TierHydrator` of the library are instantiated nowhere.
* `HashStore`, `DupStore`, `Cake`, `Baker`, `Icer` exist in the documentation
  only.
