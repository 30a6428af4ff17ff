# A TLA+ model of huntind

huntind (the program calls itself hound-torch) captures packets from a network
interface, groups them into flows, encodes each flow with a TorchScript model on
a GPU and sends the encodings to Kafka.  This directory holds TLA+ models of the
program's own logic, the TLC configurations that check them on small instances,
and proofs, checked with TLAPS, of the properties that matter most.

Line numbers refer to the repository; `PROJECT.json` maps each definition to the
lines it models.

## The system

```
 pcap_loop --enqueue--> DoubleBufferQueue<raw_packet> --read--> consumer_job (opt.workers)
   (main thread)          of LiveParser                            |  AddTask(MakeFlow)
                                                                   v
                                                    LiveParser::mTaskExecutor
                                                                   |  async tasks
                                                                   v
   cleanUnwantedFlowTask --sweep-->  KafkaSink::mFlowTable  <--merge_to_existing_flow
           |                                                       |
           +-------------enqueue---> DoubleBufferQueue<hd_flow> <--+
                                                   | read
                                                   v
                                     LoopTask (one per GPU) --AddTask--> KafkaSink::mTaskExecutor
                                                                            | async tasks
                                  chunk threads: encode_flow_tensors <------+
                                  send threads:  send_one_msg -> ProducerPool -> librdkafka
```

| Component | State | Operations | Interacts with | Hard part | What makes it correct |
|---|---|---|---|---|---|
| `DoubleBufferQueue` | two containers, atomic index, mutex `read_` | `enqueue`, `read` | capture thread, consumers; merge/sweep, GPU loops | `enqueue` takes no lock; the index is loaded and stored in two steps | nothing lost, nothing twice, bounded reordering, every item read in the end |
| `KafkaSink` flow table | `mFlowTable`, `mtxAccessToFlowTable` | `MakeFlow`, `cleanUnwantedFlowTask` | executor tasks, sweep thread, encoding queue | tasks merge concurrently and out of order; lists are emptied in passing | flows have exactly `min_packets` packets of one key; every packet is in one place; only old packets expire |
| `TaskExecutor` | task queue, futures, `mIsRunning`, two threads | `AddTask`, `Run`, `CleanFutures`, constructor, destructor | its owner, its tasks | thread started before the members; wake-ups; futures held privately | no lost wake-up; the destructor returns and no task outlives it |
| `InterruptibleSleep` | `stop_requested` | `sleep_for`, `wakeup` | executor, sweep | wake-up before the sleep | a requested stop is never slept through |
| `KafkaSink` encoding | `NumBlockedFlows`, models, batches | `LoopTask`, `EncodeFlowList`, `encode_flow_concurrently`, `send_all_to_kafka`, destructor | queue, executor, GPU, Kafka | chunk threads, partial failure, raw model pointers | rows stay with their ids; no flow twice; counters exact; everything settles |
| `LiveParser`, `main` | `is_running`, `pLiveParser`, threads, sinks | constructor, `startCapture`, `consumer_job`, `stopCapture`, destructor, signal handler | pcap, all of the above | detached canceler, signals, references to a local sink | packets are processed while running; a stop ends the process |
| `ProducerPool`, `ManagedProducer` | free producers, configuration | `acquire`, `collect`, `generate`, polling thread | send threads, librdkafka | growth, callbacks owned by a moved configuration, null producers, destruction at `exit` | a producer is used by one sender at a time and never lost; callbacks outlive the producers |
| packet parsing, flow encoding | none (pure) | `processRawBytes`, `BuildSlideWindow`, `BatchEncode`, `MergeFlow` | merge, encoding | boundaries | key independent of direction; rows of a flow merged from its own windows |
| options, pcap set-up | `opt` | `ParseOptions`, `OpenLiveHandle` | everybody | options given twice, arguments taken from the next word, checks on two options only | at least one consumer; the duration asked for ends the process |

## Modules

| Module | Models | Checked by |
|---|---|---|
| `Handoff` | what the pipeline expects of a queue: items are put, and taken in disjoint batches | refinement in `dbq_two`, theorem |
| `DoubleBufferQueue` | `double_buffered_queue.hpp` | `dbq_one`, `dbq_two`, `dbq_swap_in_use` |
| `DoubleBufferQueueProofs` | theorems about it | TLAPS |
| `FlowTable` | `MakeFlow`, `merge_to_existing_flow`, `cleanUnwantedFlowTask`, `IsFlowReady`, `_isTimeout` | `flow_two_tasks`, `flow_reorder` |
| `FlowTableProofs` | theorems about it | TLAPS |
| `Executor` | what the pipeline expects of an executor: tasks start in order, once, and none outlives it | refinement in `exec`, theorem |
| `TaskExecutor` | `task_executor.{hpp,cpp}`, `interruptible_sleep.hpp` | `exec` |
| `TaskExecutorProofs` | theorems about it | TLAPS |
| `EncodeLoop` | `LoopTask` to `send_one_msg`, `~KafkaSink` | `encode` |
| `EncodeLoopProofs` | theorems about it | TLAPS |
| `Pipeline` | one consumer and its sink from `liveHandler` to the message and from `stopCapture` to the return of `~LiveParser`, composed of two `Handoff`s and two `Executor`s | `pipeline` |
| `PipelineProofs` | theorems about it | TLAPS |
| `Options` | `ParseOptions`, `longopts`, `shortopts`, `capture_option` | `live` |
| `LiveParser` | `live_parser.cpp`, `main.cpp`, `OpenLiveHandle` | `live`, `live_rest` |
| `LiveParserProofs` | theorems about it and about `Options` | TLAPS |
| `ProducerPool` | `producer_pool.hpp`, `producer.hpp`, the pool's use by `send_one_msg` and `main.cpp` | `pool` |
| `ProducerPoolProofs` | theorems about it | TLAPS |
| `PacketParse` | `parsed_packet.{hpp,cpp}`, `PacketToTensor` | `features` |
| `Transform` | `flow-encode.cpp`, `encode_flow_tensors` | `features` |
| `Features` | runs both on their inputs, states their properties | `features` |
| `FeaturesProofs` | theorems about the key, the blob, the feature row and the encoding of a chunk | TLAPS |

`MC...` modules instantiate them for TLC.  The components meet in `Pipeline`,
each through what it promises: a queue is a `Handoff`, which `DoubleBufferQueue`
is shown to implement (until a race), an executor is an `Executor`, which
`TaskExecutor` is shown to implement.  `FlowTable`, `EncodeLoop` and `LiveParser`
look at one stretch of the pipeline in more detail and use queue and executor in
the same way.  All of them assume that `Run` was not lost to uninitialised
members.

### DoubleBufferQueue

`enqueue` is three actions (`EnqueueLoad`, `AppendBegin`, `AppendEnd`), `read`
five (`ReadLoad`, `ReadFlip`, `SwapTake`, `SwapClear`, `ReadReturn`).  Calls of
`enqueue` are serialised by their callers, so there is one at a time; any number
of readers run.  When an append and a swap of the same container overlap, the
outcome is undefined in C++: `AppendRaced` lets the items involved end up
anywhere, and `raced` records it.  The properties say what holds until then;
`dbq_swap_in_use` shows that it does happen.

### FlowTable

A task takes a batch from the capture queue: any packets not read before, since an
append that comes late is left to a later batch (`Handoff` promises no more).  It
parses them (`Parse` chooses any key, or none: the parsed bytes are a view into
pcap's buffer), takes the mutex and handles one packet at a time in two steps: `FlushReady` (the list
is complete: swap it out and enqueue the flow) and `AppendPacket`.  `CleanRound`
is one round of the sweep, which waits for the mutex (`CleanMayRun`).  The clock is in seconds, as `mTsSec`.

### TaskExecutor

`Run` is one action per step that another thread can tell apart: check, lock,
predicate, wait (releases the mutex), wake-up (notified or spurious), pop,
`std::async`, push of the future.  `RunEarly` is `Run` reading members that are
not yet initialised.  `mtxFutureQue` guards single steps and is implicit.  A task
is the number of its `AddTask` call; `status` follows it, and with `added` and the
end of the destructor it is the state of `Executor`.

### EncodeLoop

Flows are numbers; the encoding of a flow is its number, or `Rand`.  A batch is
read, counted and added by a loop, cut into chunks, encoded chunk by chunk in any
order, concatenated in chunk order, cut again and sent.  The outcomes of encoding
a chunk are its rows, random rows (an exception inside the `try`), or an exception
from `encodings.cpu()` after it, which fails the batch or, in a chunk thread,
terminates the process.  `LoopLoad` loads the model of a GPU; a file that cannot be
loaded is an exception in a thread, and ends the process.  A model is deleted when
the loop of its GPU ends; an encoding still under way then finds what is left of it
or crashes (`EncodeCrash`).

### Pipeline

The state of the two queues and the two executors is that of their abstract
specifications, and actions use theirs: `LiveHandler` is a `Put`, `ConsumerRead` a
`Take` and a `Submit` (a reader hands its batch to `AddTask` and does nothing
between), `Merge` a `Put` into the queue of flows when a list is complete, `LoopRead`
again a `Take` and a `Submit`.  Between them stand the flow table with its mutex, the
sweep, and the stop: `StopCapture` clears `is_running`, the consumer leaves its loop
and runs `~KafkaSink` (`DtorWakeup`, `DtorStop`, joins of the sweep and of the loops,
`DtorExecutor`), and `ParserDeleted` joins the consumer and destroys the parser's
executor.  That executor outlives the sink its tasks refer to, so a task may meet a
destroyed sink: `DeadSinkUsed` then leaves everything open (`"undefined"`).  Left to
the detailed modules: the clock, the two steps of a merge, chunks and rows, options
and signals, producers.

### Options

A command line is a sequence of words; `getopt_long` takes the head, and for an
option with an argument the word after it, whatever it is: `--index`, which the
usage text lists among the options without a value but `longopts` does not,
takes the next option away.  `Refuses` says when the process ends, with an error,
with the usage text or by an exception of `stoi`, `Assign` which member is set.
`stoi` is a constant, a function from the words that are numbers to integers; the runs
give it a small table.

### LiveParser

The process starts with one of a set of command lines, and what it parses decides
how many consumers there are, whether there is a canceler and when `pcap_loop`
ends: after a break, after as many packets as `-N` asks for (0 is no limit), or with
an error that nobody looks at (`LoopFails`).  From then on `mainPc` follows `main_loop`; each consumer owns a sink from the start of its loop
to its end; tasks refer to a sink.  `stopCapture` is two steps
(`StopBreak`, `StopClear`) executed by the canceler and by the signal handler, at
any time, before the parser exists and after it is gone included.  A task whose sink is
gone, and a `stopCapture` of a parser that is gone, go on with what they find or bring
the process down (`TaskCrash`, `StopCrash`).

### ProducerPool

`init_parameters` builds a temporary pool and moves it into the global one; the
model follows who owns the callbacks.  Each sender goes through acquire, produce,
a flush after a time-out, and collect; each producer has a polling thread.  The
pool is destroyed after `main`, when the senders are gone, or by `exit` from the
signal handler, when they may not be: a sender that then uses the pool crashes the
process.  librdkafka accepts or refuses a message, calls the callbacks when polled
or flushed, and gives up a message after `message.timeout.ms`.

### PacketParse, Transform, Features

Pure operators.  A captured packet is a record of header fields; its blob is a
sequence that says of each byte from which offset of the packet it was copied, so
that a property can speak of address and port bytes.  `opt.payload` is any integer: a
negative one makes the parser throw, and with less than 20 `PacketToTensor` reads bytes
that lie behind the blob, which the model marks `Beyond`.  As in the code, the last
padding brings the whole blob to its length, so that a part of the wrong size shows in
the places of what follows (`BlobAligned`) and not in the length.  The encoding of a window is
a record of the four packets it is made of, the maximum over windows the set of
their encodings.  `Features` applies the operators to one packet or one chunk of
flows and compares the result with definitions that know nothing of padding,
offsets or batches.

## Runs

Passing runs:

| Run | Instance | Shows |
|---|---|---|
| `dbq_one` | 1 reader, 5 items | with one reader an item is overtaken by at most one batch (`BoundedReorder`) |
| `dbq_two` | 2 readers, 2 items | `ExactlyOnce`, `EventuallyHanded`, refinement of `Handoff` |
| `flow_two_tasks` | 2 tasks, 2 keys, 3 packets, min = max = 2 | exact flows, no empty entry at a sweep, every packet in one place and settled in the end, the assertion on `max_packets` |
| `exec` | 2 callers, 3 tasks | the life of an executor: refinement of `Executor`, no lost wake-up, the destructor returns |
| `encode` | 1 GPU, 3 flows, encode 2, send 2 | counter, rows, sends, models; batches settle, the destructor returns |
| `pipeline` | 2 packets, 2 keys, 2 GPUs, `min_packets` 1 or 2 | a packet is in one place from capture to message, and so is its flow (`Conserved`); it gets there or is discarded while the capture runs (`Delivered`), and a stop ends the process (`StopEnds`) |
| `live` | 19 command lines, two with 2 consumers and 2 packets, with and without a canceler; 3 signals | the options that are let through, processing and shutdown, by the duration also |
| `pool` | 3 senders, pool of 1, 4 producers, 4 messages | ownership of producers and callbacks, growth, reports, destruction |
| `features` | 187 packets, payload options from -1 to 40, chunks of up to 3 flows of up to 11 packets, batches of 2 windows | key, places in the blob, feature row (in the blob unless `payload` is below 20) and encodings against their reference |

Runs that end in a counterexample (each is a finding in `PROJECT.json`):

| Run | What the code or its comments say | What the run shows |
|---|---|---|
| `dbq_swap_in_use` | concurrentqueue.h: swap is "Not thread-safe", "Nobody can use the queue while it's being moved" | an append that loaded the index before the flip overlaps the swap, with a single reader |
| `flow_reorder` | the sweep deletes flows beyond the timeout | batches are merged out of order, by two tasks or after a late append; a young packet is judged by an old one |
| `live_rest` | "processing the remaining data" | queued packets are dropped after a stop |

**Bounds.**  Two actors of each kind give every pairwise interleaving; the queue
needs two items for a late and an overtaking one; five leave room for batches of
several items before, between and after.  Three packets complete a flow of two packets and refill its list, with two tasks
on the same key; three flows with batches of two give a full and a short
chunk, and the tasks of one GPU already run side by side (a second GPU adds loops,
which `pipeline` has).  In `pipeline` two packets make one flow of two or two flows of
one, of the same or of different keys, in one task or in two.  `MaxTime` leaves every captured packet time to expire.  `patience` is 3
instead of 10.  The command lines have repeated and missing arguments, numbers at
the limits of the checks, and every way to be refused.  One producer more than there are senders may be created, so that
`PoolBounded` could fail.  Flow lengths go past two windows, three flows need more
than one batch, header lengths are tried at 0, in the middle and at 60 bytes, payload options at -1, 0,
below, at and above 20, and
ports are chosen so that byte order changes their order.  Deadlock is checked for the queue and the flow table, which never
stop; executor, sink, pool and process end, so their configurations switch it off, and
liveness properties state that they end where they should.

**Fairness.**  Weak fairness for every thread inside a call or a loop: the program
gives them no reason to stop and the scheduler runs them.  Tasks, encodings and
sends take finite time.  Strong fairness where a thread waits for a mutex that
others take again and again (merge and sweep in `FlowTable`, the destructor in
`TaskExecutor`).  In `Pipeline` fairness is weak for every thread and strong for
three steps: a thread that keeps reading a queue gets the oldest item in the end
(twice; this is `EventuallyHanded` of the queue), and a short list is too old for some
sweep while the capture runs.  The sweep's timer is not relied on after a stop.  The
sleep of the canceler ends.  Nothing is assumed of arrivals: no packet, signal, call of
`AddTask`, timer of 60 seconds, error of `pcap_loop`, crash or spurious wake-up need
ever come.

## Proofs

All theorems hold for any values of the constants that satisfy the assumptions of
the modules.  Most of these say that a bound is a number, that a batch size or
`MinPackets` is positive or that a set is finite (`SenderAssumption`,
`KeyAssumption`: threads, addresses and ports are).  Four are about the inputs:
`StoiAssumption` (what `stoi` returns is an integer), `CommandLineAssumption` (the
number after `-J` is within the bound of the model), `PayloadsAssumption` (a payload
option is an integer) and `FlowListsAssumption` (a chunk is a list of flows, a flow a
list of rows).

*DoubleBufferQueueProofs.*  `ExactlyOnce` speaks of places an item may be in and
is not inductive.  The invariant `Inv` adds: the mutex is held exactly by a reader
that is swapping (`LockInv`), so at most one reader swaps; a reader's buffer is
empty unless it swaps or holds a batch, and equals the container while it swaps
(`BufferInv`); an append that overlaps a swap has set `raced` (`RaceInv`); and
until a race the places are disjoint and complete (`Disjoint`, `Complete`).  From
it follow `TypeCorrect`, `NoLossNoDuplicate` (`Spec => []ExactlyOnce`) and
`RefinesHandoff` (`Spec => H!Spec`): a `ReadReturn` with a non-empty buffer is a
`Take`, an `EnqueueLoad` a `Put`, every other step a stutter until a race.
`OvertakenByOneBatch` (`[]BoundedReorder`, for a set of one reader) needs `OrderInv`: the
index alternates (`Alternates`), an item that has been overtaken is in the next batch
and was overtaken by the last one only (`OvertakenOnce`), and what is appended to a
container after its swap is younger than what the swap took (`LateIsYounger`).
`SafeIfNobodyUses` is the other side of the violation `dbq_swap_in_use`: in every
behaviour in which nobody uses a container while it is swapped, `ExactlyOnce` holds
without its proviso (`ItemsOnce`), since an overlap is the only step that sets `raced`
(`RaceIsUse`).  A repair need exclude nothing but that overlap; the load of the index
outside the mutex may stay.

*TaskExecutorProofs.*  `RefinesExecutor` (`Spec => E!Spec`) needs to know that the task
`Run` starts is the oldest queued one and that, when the members are destroyed, the
futures left are those of all running tasks.  `Inv` says: the queue holds the latest
tasks in order (`QueueInv`: entry `i` is `Popped + i`), so that place and number
determine the status (`StatusInv`); the future of a running task is stored or in the
hands of `Run` (`FutureInv`); a pop finds a task or a stop (`RunInv`); past the first
join `Run` has ended (`JoinInv`).  `AddTask` is then a `Submit`, `RunSpawn` a `Start`,
`TaskEnd` a `Finish`, `DtorMembers` a `Close`, and every other step a stutter.
`NoLostWakeup` (`Spec => []WakeupPending`) is the safety part of `QueuedTaskStarts` and
`DestructorReturns`: if `Run` waits although the predicate of its wait holds, it has
been notified, or a caller of `AddTask` or the destructor is about to notify.
`WakeInv` adds who holds the mutex when (`LockInv`), that only the destructor clears
`mIsRunning` (`LifeInv`), and the delicate point, `BlockInv`: between the predicate and
the wait the queue stays empty, as `AddTask` needs the mutex, while the destructor may
have set `mIsRunning` outside it, but cannot have notified, because `notify_all` is
called with the mutex held.

*FlowTableProofs.*  The strengthening says who is in the critical section, that
a packet being appended is a parsed packet of the task's batch, that lists hold
packets of their own key, never outgrow `MinPackets`, and are non-empty except the
one the task in the critical section is about to append to.  From it follow
`TypeCorrect`, `FlowsExact`, `SweepMeetsNoEmptyList` and `MaxPacketsAsserted`, the
last from the additional assumption `MinPackets <= MaxPackets`: `ParseOptions`
accepts `-L` above `-R`, and then a list grows to `MinPackets` and the assertion
in `merge_to_existing_flow` fails.  `PacketsAccounted` (`Spec => []PacketAccounted`)
needs that the kinds of place exclude each other and that within a kind a packet
is in one place only: no list or flow repeats a packet, no two of them share one
(`ListsInv`), a discarded packet is nowhere else (`DiscardInv`), and every packet that
was read is somewhere (`CompleteInv`).  `YoungKeptInOrder` is the other side of the
violation `flow_reorder`: in every behaviour in which the `MakeFlow` tasks of a sink do
not overlap (`NoOverlap`) and no packet is read after a later one (`ReadInOrder`), the
sweep discards no packet younger than `flowTimeout`.
The reason is an order (`AgeInv`): time stamps follow the capture (`StampInv`), lists
are in capture order, and what a task still holds comes after all of them (`OrderInv`);
the one packet `_isTimeout` looks at then bounds the age of the whole list.  Nothing in
the program ensures either: with two tasks, or with one late append to the capture
queue (which `BoundedReorder` bounds and does not exclude), the order is lost.

*ProducerPoolProofs.*  `ProducerOwnedOnce` counts and says nothing of a pool being
built or destroyed.  `Inv` says that a sender has a producer exactly while it is in
`send_one_msg` (`SenderInv`), that pool and senders have different producers
(`DistinctInv`), all of them created (`CreatedInv`) and, until the destruction, no
other (`CompleteInv`).  With them `acquire` generates a producer only when every one
there is belongs to another sender, so that there is one sender more than producers:
`PoolIsBounded`.  `CallbacksOutlive` needs who owns the configuration at each point of
the start-up (`ConfInv`), and that during an orderly destruction no sender is active
and a producer outside the pool polls no more (`QuietInv`).  `TypeCorrect` bounds the
unreported messages of a producer by the calls of `send_one_msg` (`MessageInv`).

*EncodeLoopProofs.*  The first part is about the operators: a batch of `n` flows is cut
into `NumChunks` pieces that are not empty, not longer than the batch size and, put
together in order, the batch.  `FlattenSeq` is a recursive function, so what it gives
for all sequences is induction over data; here the pieces are known, and the lemma
takes the least prefix for which the claim would fail.  The invariant: a loop ends
only after the stop (`StopInv`); a loop holds flows from the read to `AddTask`, and no
chunk of a batch is encoded before its task starts (`BatchInv`); no flow is twice in
the queue, the hands of the loops and the batches (`FlowInv`); a task sends its own
flows in order or random rows, and the messages are exactly the pieces sent
(`SendInv`); and `BlockedExact`, which is inductive with the others.  Theorems: `TypeCorrect`,
`BlockedCounted`, `RowsMatch`, `FlowsSentOnce`, `ModelsAliveInUse`.

*LiveParserProofs.*  `SinksAliveInUse`: a consumer that has left its loop saw
`is_running` false, which nothing sets again, and a task refers to a consumer that has
been started (`SinkInv`, `StartInv`).  `TypeCorrect` includes that whatever is let
through asks for at least one consumer and at most the bound; the rest of the command
line keeps to the assumption (`ArgvInv`).

*PipelineProofs.*  `PacketsConserved` (`Spec => []Conserved`) is the same question for
the composition.  A place is a record of a kind and an index, and `Conserved` counts
places; the invariant takes the count apart: a packet is in one of six kinds of
place (`OneKind`), and within a kind the batches of the tasks (`TodoApart`), the
lists of the table (`TableApart`) and the flows (`FlowsApart`) are injective and
pairwise disjoint.  `NotYet` says that tasks not yet submitted hold nothing.  For flows, `FlowInv` ties
message or loss to the end of the task that was given the flow.  That there is a
number left for every new flow is a pigeonhole argument (`FlowRoom`): flows are not
empty and share no packet.  The sweep enqueues several lists in an order that is not
fixed (`SetToSeq`); `SetToSeqFacts` shows that each is enqueued once.
The composition uses its parts as they promise to be used: `ComponentsAsPromised`
(`Spec` implies `Handoff`'s specification for the capture queue and `Executor`'s for
both executors) and `FlowQueueAsPromised` (the same for the queue of flows, where a
sweep puts several flows in one step, `FlowsPut`).  For the executors this needs that
nothing is submitted after the destruction and that no task runs at it; for the
parser's executor, which outlives the sink, also that no encode task is left once the
sink is gone (`GoneInv`), so that none can end the process by an exception then.
With `RefinesHandoff` and `RefinesExecutor` the chain is closed: what `Pipeline`
assumes of queue and executor is what the detailed modules are proved to do.

*FeaturesProofs.*  `ParsedFromRaw` (what was parsed is the parse of what was
captured) is inductive; the rest is about the operators.  `FlowKeyed`: the ordered
pairs in a key determine the unordered ones, and `ntohs` is injective on 16 bits,
so that two packets share a key exactly if they belong to one conversation.
`PartsAligned` (`[]BlobAligned`): the headers are padded to fixed sizes, whatever their
lengths, so that each of the three parts has its places (`BlobAt` says which offset of
the packet each byte of the blob was copied from), for every payload option that is not
negative.  `RowWithinBlob` (`[]RowInBlob`): the slices reach byte 148, and the blob has
128 + `payload`.  `EndpointsCutOut`: from `BlobAt` and from which bytes the slices keep
(`RowAt`).  `FlowsEncodedAlone`
(`Spec => []FeaturesExact`) is about chunks of any number of flows of any length.  The
concatenation of all windows and the running offset are recursive over the flows; as in
`EncodeLoopProofs` the lemmas take the least index at which a claim would fail:
the concatenations exist (`ConcatsExist`), `FlattenSeq` is the last of them
(`FlattenIsLast`), the windows of flow `i` are found in it behind those of the flows
before (`FlattenRow`), and that is where `offset` points (`OffsetIs`).  `BatchEncode`
repeats the whole tensor in every iteration; the rows that `MergeFlow` reads are all in
the first repetition (`BatchRow`), so that a flow is merged from exactly its own windows
(`Merged`).

Only model-checked: liveness, since the provers do not handle fairness and `ENABLED`.
Every safety invariant and action property of the passing runs is proved.

## Not modelled

Tensor arithmetic, the contents of payloads, logging, CPU affinity, `ModelPool`, which
nothing uses, and the deprecated `BuildSlideWindowConcurrently`, which nothing calls.
The vendored libraries under `src/include/yalanting` (asio, iguana, concurrentqueue,
...) are almost all of the repository's lines and none of its logic: the program
uses their logging macros and the interface of `ConcurrentQueue`, and every operation
of the components above that changes state is modelled.  The
hazards without a property in `PROJECT.json` say what each leaves open.
The length of what was captured (`caplen`, `total_bytes`) is not part of a packet: the
snapshot length is 128 and every `-p`, counted from the Ethernet header, and the parser
reads up to 14 or 18 + 60 + 60 bytes of headers and the payload without looking at it.

## Plan

Done: the queue and its abstract specification, the flow table, the executor and its
abstract specification, the encoding loops, the options and the process, the producer
pool, the packet parser and the flow encoder, and the pipeline composed of them; the
proofs of every safety property the passing runs check, of the use the pipeline makes
of its parts, and of what the violations depend on.

Left: liveness stays with TLC.  The length of a capture and the wrap-around of the
unsigned options are outside the models of options and parser.
