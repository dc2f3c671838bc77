# Hajj crowd operations platform: TLA+ models

The repository moves two event streams through Kafka into a Delta lakehouse
(bronze, silver, gold), stops at Great Expectations gates, indexes a corpus of
procedures for a question-answering copilot, and lets Airflow run all of it
with automatic retries. The tests exercise single functions; what is hard here
is what happens between the steps: a process that dies between a table append
and an offset commit, a retry of a task that had already written, rows that
arrive late or twice, a gate that looks at an accumulated table. These modules
model that, TLC checks it on small instances, and TLAPS proves every invariant
and action property that TLC checks there for instances of any size.

Paths are relative to the repository root.

## The system's parts

| part | state | operations | hard behaviour | what makes it correct |
|---|---|---|---|---|
| Ingestion (`src/ingestion/consumer.py`, `dlq.py`, `src/lakehouse/delta_io.py`) | committed offsets, bronze and quarantine tables, dlq topic; in memory: positions, batch, reject buffer, local producer queue | poll, accept, reject, flush (append, quarantine, dlq flush, commit), stop | crash between any two effects of a flush; rebalance while a batch is held; timeout of the dlq flush; a value bronze cannot hold | what is committed has landed; a replay costs at most a batch; everything is committed in the end |
| Contracts (`src/contracts/`) | none | accept or refuse a message, with the rules it breaks | rules across fields; the clock | every event of the producers passes, every corruption is refused for the rule meant, a verdict of "valid" lasts |
| Producers (`src/ingestion/producers/`) | the simulated time and zone, the requests in flight, the budget of messages, the seeded random numbers | build, report, advance, corrupt, emit | the budget runs out within a pass; the crowd curve at its peaks; repeated runs with the same seed | no event breaks the contract or a gate; updated_at rises; both end with their budget spent or nothing left to do |
| Silver (`src/lakehouse/silver.py`) | silver tables | dedupe, stage, merge; overwrite | replays, ties, late events, bronze growing under a build, a dying build | one row per request; never backwards; equals the staging of all of bronze |
| Gold (`src/lakehouse/gold.py`) | gold table | overwrite with aggregates | what it was computed from; readings emitted again | counts each event of bronze once; rates and peaks do not depend on how often a reading was emitted |
| Reset (`scripts/reset_pipeline.sh`, `create_topics.sh`) | tables, topics, offsets | drop the tables, recreate the topics | stopped in between, or no broker | offsets never stand past rows that are gone, or it shows |
| Gates (`src/quality/`) | none of their own | pass or fail a table | accumulated tables; expectations stricter than the contracts | nothing unvalidated is published |
| DAG (`dags/hajj_ops_pipeline.py`) | task states and tries | schedule, retry, fail downstream, call back | killed attempts, retries after a write, several runs on the same tables | every run ends; success means up to date |
| Lineage (`src/lineage/`) | event file | START, COMPLETE, FAIL; the failure callback | killed stages, retries with new run ids, an event that cannot be written | a run has one end unless it was cut short; events are in the order of the data; final failures, and only those, appear |
| Chunker (`src/rag/chunker.py`) | units, the open group, the tail carried forward | split, pack, carry over | the unit that does not fit meets the tail of the group it closes | no text is lost, in reading order, neighbours overlap |
| Copilot (`src/rag/`) | vector collection, embedding and answer caches on disk, BM25 corpus per process | rebuild, search, fuse, rerank, generate with retries and fallbacks | a crash between drop and fill or within a cache file; edits under a running process; stale caches; models that refuse | the collection is one reading of the corpus; answers cite what they were generated from; questions end; the index catches up |

They interact through the Kafka topics and their committed offsets (producers to
ingestion), the Delta tables (ingestion to gates, silver and gold), the exit
code of a subprocess (every stage to Airflow) and the collection (index to
copilot). Parts without a module (PII hashing, schema demonstration, demo
and reporting scripts, configuration) are listed in `PROJECT.json` with the
reason.

## Modules

| module | models | relation |
|---|---|---|
| `Ingest` | one stream of `consume` and its `flush`, and `DLQWriter` | |
| `Handoff` | what ingestion promises: arrive, land, acknowledge | abstract specification |
| `IngestHandoff` | the refinement mapping: below `end` has arrived, what is in a table has landed, below `committed` is acknowledged | `Ingest` implements `Handoff` |
| `IngestProofs` | theorems about `Ingest` | |
| `SilverRequests` | `build_silver_requests`: deduplicate, stage, first load or merge | |
| `SilverProofs` | theorems about `SilverRequests` and `RequestFlow` | |
| `OccupancyContract` | the rules of `ZoneOccupancyEvent` with their error types, and what the bronze and gold suites expect of a row | |
| `OccupancyEvent` | the crowd curve, the flow and the ten corruptions of the occupancy producer | extends the contract |
| `OccupancyProducer` | its main loop | extends `OccupancyEvent` |
| `OccupancyFlow` | repeated emissions, contract and clock, bronze and quarantine, silver, gold, resets | extends the contract |
| `OccupancyFlowProofs` | theorems about `OccupancyFlow` | |
| `ServiceRequestContract` | the rules of `ServiceRequestEvent` | |
| `RequestObject` | class `Request` and `corrupt` of the request producer | uses the contract |
| `RequestLifecycle` | the producer's main loop | extends `RequestObject` |
| `ProduceTestEvents` | the task `produce_test_events`: one producer, then the other | composes `OccupancyProducer` and `RequestLifecycle` |
| `ProduceProofs` | theorems about `ProduceTestEvents` and the two producers in it | |
| `RequestFlow` | repeated producer runs, contract, bronze and silver builds | extends `RequestObject` and `SilverRequests`, and implements the latter |
| `DagRun` | tasks, edges, retries, trigger rule, failure callback; the scheduler itself is external | |
| `Pipeline` | what each task does to topics, tables and index, over several DAG runs | extends `DagRun` |
| `Lineage` | `lineage_run` around each instrumented stage, and `emit_fail` behind the callback | extends `DagRun` |
| `DagProofs` | theorems about `Pipeline` and `Lineage` | |
| `Chunker` | `chunk_document`, one iteration of a loop per step | |
| `ChunkerProofs` | theorems about `Chunker` | |
| `Copilot` | `build_index` and processes that `ask`, over the caches and the collection | |
| `CopilotProofs` | theorems about `Copilot` | |
| `FiniteSums` | lemmas on sums over finite sets and functions, for `IngestProofs` and `OccupancyFlowProofs` | |
| `MCIngest`, `MCSilverRequests`, `MCPipeline`, `MCChunker`, `MCProduce`, `MCOccupancyFlow` | instances for TLC; the other runs give their constants in the `.cfg` | |

### How the state corresponds to the code

* **`Ingest`**. `pc` is the place in `consume`: `poll` is the loop,
  `append`, `quarantine`, `dlqFlush`, `commit` the statements of `flush` that
  have an external effect. A record is `<<partition, offset>>` with a kind:
  the contract accepts it, refuses it (`corrupt`), or accepts it although a
  count exceeds int32 (`wide`, on which `_to_arrow` raises). Tables and buffers
  are bags, so duplicates are counted. `Exit` is every end of the process:
  memory is lost, the position of a later process is the committed offset.
  `CommitNothing` has both outcomes the client library can produce when no new
  offset is stored. A record's verdict is fixed here; that `event_time` is
  compared with a clock is in `OccupancyFlow`.
* **`SilverRequests`**. A bronze row is `<<event, offset>>`. `Deduplicated`
  chooses any copy of each event, because Delta returns rows in no order.
  Reading and merging are two steps: bronze may grow in between and the build
  may die.
* **`OccupancyContract`**. A payload is cut-off bytes or a function from field
  names to values tagged with their JSON type, so that strict typing, missing,
  extra and null fields are what they are in the code. The verdict is the set
  of `<<field, error type>>` pairs `describe_validation_error` reports.
* **`OccupancyEvent`, `OccupancyProducer`**. Fractions are per mille and local
  hours tenths of an hour, in which all prayer times and bumps are exact. A
  cosine lies between its values at the whole hours around, and what depends on
  a uniform random factor is extreme at its ends; both are choices between the
  two. The producer's clock is `Wall`; a reading is due by a consumer's clock
  when its simulated minute is not more than the tolerance ahead.
* **`OccupancyFlow`**. An event is `<<payload, emission>>`, since the seed
  repeats payloads and `uuid4` renames them, and a row is `<<event, process>>`,
  since `_ingested_at` is one time for one run of `consume`. `Ingest` reads and
  flushes a batch in one step, against one clock, and `EndProcess` is every way
  to stop within a flush (`Ingest.tla` has the steps). The topic is shown as
  one partition. `counted` and `dropped` are history: the rows gold was
  computed from, and the offset a reset has reached when it removed the tables.
  Averages and percentages are rounded to the digits the code rounds to.
* **`RequestObject`, `RequestLifecycle`**. The random numbers of a request are
  fixed in `draw`: two target durations, one delay, the step at which it is
  cancelled, if any. Durations come from a small set of positive numbers.
* **`RequestFlow`**. A *variant* is a continuation of the seeded generator:
  whether an event is corrupted decides how many numbers are drawn after it, so
  runs with one corruption rate share a variant and others do not.
* **`DagRun`, `Pipeline`**. A task has a state, tries and a number of effects
  its attempt has had, so it can die before, between and after them. An
  occupancy event is `<<reading, emission>>`, since the seed repeats the
  readings and `uuid4` renames them. `conf` says how much of a run's data the
  contract accepts. An ingestion attempt is one step that appends some of the
  pending events and commits some of those; `Ingest` is its detail. Stages
  compute from tables no other task writes at that time (`max_active_runs=1`),
  so read and write are one step.

* **`Lineage`**. `place` is where the command of a stage is in its
  `with lineage_run(...)`: before START, in the body, before FAIL, or over.
  Every attempt draws a new run id, so a lineage run is `<<DAG run, task,
  attempt>>`. The callback is a process of its own, due once `DagRun` has put
  the task into `reported`; its lineage run has attempt 0. `cut` remembers what
  was killed or could not write its event.
* **`Chunker`**. `pc` says which loop runs: over sections, over the paragraphs
  of a section (`split`), over units (`pack`), over the tail (`tail`). Token
  counts are part of the document, separately for a section, its paragraphs and
  their sentences, since no tokenizer is additive.
* **`Copilot`**. A text is a chunk id and a version; an edit of the corpus
  changes words or removes and adds chunks under the same ids. Cache files have
  three states, because they are opened, truncated and written in place. The
  collection goes through its three calls: delete, create, upsert. What ranks
  highest and whether a model answers are open choices. A process keeps its
  BM25 corpus (`lru_cache`) until it leaves. `Return` is every end of `ask`,
  an exception included.

Operators named as a *mutant* in a comment are not part of a specification:
each is a plausible mistake in the definition that follows it, and TLC finds
the property that excludes it.

## Runs

| run | specification | shows |
|---|---|---|
| `Ingest` | two partitions of two records, three kinds, batches of two, two faults | nothing committed is missing, nothing read is dropped, replays bounded by a batch per fault, a record bronze cannot hold blocks its partition, offsets never rewind, `Handoff` is implemented |
| `IngestLive` | one partition of three records, two faults, fairness | every record is committed in the end |
| `IngestDlqTopic` | as `Ingest`, no fault needed | **violated**: the dead-letter copy can be lost |
| `Silver` | three events, two requests, two times, four rows, one dying build, fairness | merge source unambiguous, one row per request, never backwards, rebuild is a no-op, equals staging when untied, every event reflected |
| `Produce` | one zone of each type, a round cut short and sixty rounds over seven days, four clocks; two requests, all draws over two durations, budgets 1 to 10; fairness | no generated event is refused, each corruption for its rule only, what is accepted meets the suites; the same of requests; updated_at rises; the task ends with its budgets spent or nothing left |
| `OccupancyFlow` | three payloads (two of one hour, the second ahead of the clock, and one cut off), two emissions, two ingestions, one reset | one place for what is committed, gold counts each event once, rates independent of the emission rate, rows of silver stay |
| `RequestFlow` | one request, two runs, one variant, five rows, one dying build | silver shows the furthest accepted state; terminal stays terminal |
| `Pipeline` | two runs of any of three configs, one fault, two executor slots, fairness | only validated data is published, success is up to date, gold and index change only while both gates hold, every run ends |
| `Lineage` | one DAG run, one retry, two failing attempts, two executor slots, fairness | a lineage run has one end unless cut short, stages start after the COMPLETE of their inputs, exactly the final failures appear |
| `Chunker` | all documents of up to four paragraphs around a target of four tokens and an overlap of two | nothing is lost, reading order, overlap as large as fits, bounded chunks |
| `Copilot` | two chunks, one asking process, two models, one edit, one kill, fairness | the collection is one reading, citations match, no early degradation, the index catches up, every question ends |
| `PipelineReplay` | one run, one fault | **violated**: replayed rows fail the bronze gate |

The violated properties state what a comment or document of the repository
says; `findings` in `PROJECT.json` quotes each and says where the code differs.

### Bounds, and why they are enough

* `Ingest`: two partitions are the least with independent offsets; `BatchSize`
  2 with up to three messages per process gives full batches, partial final
  ones and `max_messages`; two faults give a replay of a replay, and a
  rebalance followed by a crash. `QueueLimit` 2 lets the local queue overflow.
  In `IngestLive` it does not: with a full queue and no delivery the code makes
  no progress, so that run assumes a broker that takes dead letters, and it
  leaves out records bronze refuses, which provably block their partition.
* `Silver`: three events over two requests give pairs in one request and a
  bystander; two times give ties and order; the fourth row is a copy.
* `Produce`: every branch of the crowd curve, at every third hour of each day;
  484 events are sixty rounds and a rest, 3 less than one round. The clocks are
  before most readings, at the producer's, and on both sides of where a
  corrupted timestamp comes due. Durations 1 and 6 put a resolution target
  before and after the time spent; ten messages are two full lifecycles.
* `OccupancyFlow`: two ingestions give a replay after a kill, and a record
  whose time has come in between; two emissions give the readings of an hour
  twice. A third ingestion shows nothing new and takes ten times as long, and
  the theorems are about any number.
* `RequestFlow`: five rows allow any accepted subset of a lifecycle and a
  repeat. Two runs with corruption in either cover late and skipped states.
* `Pipeline`: two readings and two requests with floors of two let either gate
  tell a healthy from a corrupted run, `MaxRows` 3 lets the table
  grow over the upper bound, two runs leave tables of an earlier run behind,
  `Retries` is the code's 2. One fault is enough for each task to write twice.
  Two executor slots include the one of the `SequentialExecutor` that
  `scripts/start_airflow.sh` sets, and show that the order of the tasks rests
  on the edges of the DAG.
* `Lineage`: one retry is the least with a failure that is retried and one that
  is not; two failing attempts end a task for good, or hit a stage and the one
  below it. Lineage runs of different DAG runs do not meet.
* `Chunker`: up to four paragraphs below, at and above the target give two
  closings in a row, a tail of none, one or two units, and sentences that fit
  or do not; other sections before and behind show what crosses a boundary.
* `Copilot`: with two chunks of which each search finds one, dense and sparse
  search may disagree; one edit puts new words under an old id or takes an id
  away; one kill leaves a torn file or half a rebuild; two models with two
  attempts each reach every branch of the fallback. Askers only meet in the
  caches and the collection, which the edits and builds disturb already.

### Fairness

* Ingestion: the process keeps executing and is started again, as Airflow
  retries and later runs do (`WF`). Reading is strongly fair per partition: the
  idle timeout may beat a record, but not for ever.
* Silver: builds are run again and again, and a build that does not die ends.
* Producers: two loops that never wait, one after the other (`WF` on the next
  step).
* Copilot: builds are run again and again, as every DAG run does, and a process
  that is asked goes on. Nobody has to ask, edit or be killed.
* Lineage: as the DAG, and callbacks run on.
* DAG: the scheduler keeps scheduling and the commands of an attempt end. Kills
  are never fair, and their number is bounded.

Deadlock checking is off where the program stops: the producer ends, and the
DAG is triggered a bounded number of times.

### Divergences without a run

Met while modelling, and left without a run of their own:

* `silver.py:158` updates only on a larger `updated_at`, while the staging
  order (lines 95-96) breaks ties by offset: "later offset = later observation"
  holds within one build and not across two. `UntiedSilverEqualsStaging` is
  stated for requests without ties for this reason.
* `service_request_producer.py:287` draws from the seeded generator for every
  event whether it is corrupted, so runs with different rates give one
  `request_id` different histories, not "further lifecycle progress" (line
  118). With two variants `TerminalIsFinal` fails.
* `run_gate.py:58` holds the floor of 150,000 against the accumulated table, so
  after one healthy run a 40 % corrupted one passes; the comment at
  `hajj_ops_pipeline.py:51-52` says it cannot. `Pipeline` has such runs.
* `_pack` promises groups of at most `target` tokens (`chunker.py:107`), but
  the carried tail and the unit that did not fit (line 126) may exceed it;
  `ChunksAreBounded` states the bound that holds.
* A cache file cut short by a kill makes every later question or build that
  reads it raise, although generation is meant to fail soft. `EveryAskEnds`
  counts such an end as an end, and `IndexCatchesUp` excepts it.
* A retry after a killed attempt counts in its COMPLETE only its own rows, and
  an `emit` that raises at COMPLETE fails a stage that has already written.
* `occupancy_producer.py:142-145`: the status OFFLINE is behind a weaker
  condition and never drawn. `--events`, "total events to emit" (line 196), is
  rounded down to whole rounds of the zones.
* The contract bounds entries and exits from below only, while the bronze suite
  wants at most 50,000 (`checkpoints.py:70-71`): "what GE sees is a volume
  shortfall" (`README.md:199`) is a property of this producer, which
  `AcceptedMeetsEverySuite` states and the proof shows, not of the contract.
* The simulated days begin on 2026-05-24. By a clock before that day the
  contract refuses every event as future; `GeneratedIsAccepted` says so.
* `Violations` tells the corruptions apart by field and error type only: the
  type alone, which the dead-letter header carries, is `value_error` for three.
* "A task that appends on every invocation would double-count on the first
  retry" (`hajj_ops_pipeline.py:13-17`) is true of `produce_test_events`
  itself: when its second command fails (line 108), the retry emits all
  readings again, and totals in gold double. `RateIndependent` says what stays.
* `reset_pipeline.sh:18-21` ends each broker command with `|| true`, so without
  a broker it removes the tables, leaves the offsets and reports completion, as
  if it had been killed in between (`ResetStopsShort`). What was committed by
  then is never read again; `CommittedHaveOnePlace` excepts just that.

## Proofs

Checked by TLAPS for all values of the constants that satisfy the assumptions
named in the modules: `IngestAssumption`, `SilverAssumption`,
`ChunkerAssumption`, `ZonesAssumption`, `EventAssumption`,
`ReferenceAssumption`, `ProducerAssumption`, `RequestAssumption`,
`ClockAssumption`, `MinutesAssumption`, `TimeAssumption`, `FlowAssumption` (one
in `OccupancyFlow`, one in `RequestFlow`), `DagAssumption`,
`PipelineAssumption`, `CopilotAssumption`. Two theorems of `RequestFlow` have a
hypothesis besides, `OneRate`, and say nothing without it. The modules with
proofs reach no recursive operator.

`FiniteSums`. A sum is a fold of the community modules, that is a recursive
function whose next term is chosen by `CHOOSE`. That it exists, and that the
order does not matter, is induction over finite sets; as the provers cannot
instantiate the library's induction theorems, a counterexample that is minimal
under inclusion is refuted instead (`MinimalSet`, `FoldExists`, `TotalPlus`).
On top of it are the laws the other proofs use: sums of equal, larger, disjoint
and renamed terms, sums by fibers, and what repeating every term does.

`IngestProofs`. The safety of the commit is not inductive: it depends on what a
process holds in memory and on where in `flush` it is. `IngestInv` adds that
offsets are ordered (`committed <= position <= end` while running), that past
each statement of `flush` its buffer is empty, that rows are in the table of
their kind, and that every record below a position has landed or is held. From
it follow `IngestTypeCorrect`, `IngestLosesNothing`, `IngestHoldsWhatItRead`,
`WideRecordIsNeverSkipped` and `OffsetsNeverRewind`, and, since every step is
then an `Arrive`, `Land`, `Ack` or stutter under the mapping,
`IngestImplementsHandoff`. How much a crash can repeat (`ReplaysAreBounded`) is
a question of sums. The rows beyond the first of each record are a bag of their
own (`Excess`), and each fault has paid for a batch of it (`ExcessIsPaid`).
That is inductive only with what a crash leaves to be read again, the window
between the committed offset and the position, being in the batch until bronze
has it and one batch at most from then on (`WindowIsHeld`, `BatchIsBounded`).
Without a fault nothing is repeated at all (`OnceInv`).

`SilverProofs`. The staged rows are one per request because the staging order
is total on rows that share a partition (`Latest` keeps a row only if it beats
all others), and the merge keeps silver one per request because what is updated
or inserted removes or excludes what it matches. `SilverInvariant` carries
both; `SilverHasOneRowPerRequest` and `SilverOnlyMovesForward` follow.
`SilverIsTheStagingOfBronze` and `RebuildingIsIdempotent` need to know what
silver was built from. `StagingInv` has it that silver, and a source on its way
there, hold for every row that was read one of the same request at least as
recent (`Covers`), that a build reads no less than the one before (`ReadsGrow`),
and that offsets are unique, without which a tie would leave no latest row.

`RequestFlow` is about the same table under a stream of real lifecycles.
`StreamImplementsTable` shows that each of its steps is one of `SilverRequests`
or leaves the table alone, so all of the above holds of it, and carries the
flow's own invariant: what is in bronze was sent. With one rate of corruption,
every run repeats the same history, and of two rows of a request the one that
is updated later is further in its lifecycle, for every draw of durations and
cancellation (`LaterIsFurther`). `SilverIsUpToDate` and `TerminalStates` follow.

`ChunkerProofs`. `NothingIsLost` speaks of the sections behind the chunker and
is not inductive, since in the middle of a section its units are in four
places. `Progress` says where: those of the paragraphs already split are in
`units`; those `_pack` has passed are in a chunk or in the open group; while
the tail is sought, all of them are in chunks, as the group has been closed and
what is carried forward is a copy. `Places` says how far the loops are. The
sections themselves depend on the document alone, which no step changes.
`ChunkerTypeCorrect` includes that the tail never exceeds the overlap.
`ChunksFollowTheDocument` is about sequences: the open group is the run of
units that ends in front of the next (`Runs`), in the order of the document
(`UnitsSorted`), and the last chunk is behind what the next will end with
(`Ahead`). `ChunksStayBounded` and `BoundariesAreCarried` add the numbers: the
token counters are sums over the sequences they count (`Counted`), and once a
chunk of a section is closed, the open group begins with the longest end of it
that fits (`Carried`).

`ProduceProofs`. The occupancy producer's invariant is short, since a message
is built and sent in two steps: what is at hand is a sound event. The work is in
the lemmas: the bumps of two prayers never add up, so the curve stays below
1,012 per mille and with its random factor below 1,500, which is the multiple
of the contract; the flow is a small share of the occupancy. `SoundIsAccepted`
takes the contract's rules one by one. A corrupted event differs from a sound
one at one field, so its errors are at that field (`ErrorsAreWhereItDiffers`),
and each corruption has one (`OnlyRule`). `ReferenceAssumption` is what is used
of `zones.csv`: no zone is larger than 60,000, and none is called MATAF_99. The
request producer walks two lists. `updated_at` rises in the topic because no
message is younger than the request it is of (`TopicInv`), and a pass comes to
each request once (`PassInv`); that the contract separates its events
(`RequestsAreSeparated`) rests on the request being sound after any number of
reports and advances (`ObjectInv`). The task runs one producer and then the
other: `TaskRunsBothProducers` is the refinement of both, so that
`TaskSendsAsStated` says of the task what was proved of either.

`OccupancyFlowProofs`. That a reading is never in the quarantine by a later
ingestion than in bronze rests on a later clock finding no new error
(`ErrorsOnlyGo`) and on no process reading an event twice, which takes
`SentOnce` (also across resets), `RowsAreSent` and `UnreadIsNotOwn`. The rows
of silver stay because they are the first copies of all bronze holds
(`SilverIsFirst`), and a later process brings no earlier copy. Gold is sums:
`GoldIsOfCounted` says which rows it is the aggregate of, one for each event and
all of them still in bronze, so `reading_count` and the totals count each event
once (`GoldCountsBronzeOnce`). `GoldIsRateIndependent` compares a zone-hour
with a single emission of its readings: the totals are those of one emission
times the number of emissions (`CardinalityRepeats`, `TotalRepeats`), which
cancels in the averages and percentages before they are rounded, and a maximum
does not see it.

`DagProofs`, with data. Each property of the pipeline says at a late task what
an early one has brought about. `PipelineInv` ties it to the task that did: from
the effect of a task until the next run, its table is what it made of its
input (`BronzeChecked`, `SilverBuilt`, `SilverMerged`, `SilverChecked`,
`GoldBuilt`, `IndexBuilt`). No other task takes that back, since whatever
changes the input stands above it and has ended (`Begun`, `NothingBelow`); this
is where the edges of the DAG and `max_active_runs=1` are used, and retries,
kills and partial ingestions leave it alone. `OnlyValidatedIsPublished`,
`SuccessLeavesAllUpToDate` and `PublishesOnlyWhileSound` follow along the edges.
`PipelineTypeCorrect` is a matter of counting: an attempt number exceeds the
retries by one at most (`DagCounts`), and each run pays for one emission of the
readings and each fault for one more (`EmissionsArePaid`), which the events of
the model are numbered by.

`DagProofs`, with lineage. `Written` ties the events of a stage's present
attempt to the place its command has reached, and `NotAhead` says that an
attempt that has not begun, or a callback that was not due, has no event. What
ends an attempt has written its end or is remembered in `cut`
(`LineageRunsAreClosed`); a task begins only after those above it have
succeeded, which a stage does after its COMPLETE (`StagesStartAfterInputs`). A
callback is due exactly for the tasks that failed for good (`DueWhenFailed`), so
no other failure appears (`OnlyFinalFailuresAppear`, the safety half of
`FailuresAppear`). `AllEventsAreOfRuns` closes the gap that these properties
quantify over the lineage runs there can be: there is no other event.

`CopilotProofs`. The index is sound because a build fills the collection it has
just created and has read what it fills it with. An answer file is whole only
after an answer to passages with the ids of its key was written, so an answer
from the cache stands on its citations although the words may have changed; it
cites something because the corpus is never empty (assumed, since BM25 over an
empty one raises). `Chain` counts refusals: the models before the present one
have failed `max_retries` times, those after it were not called.
`CopilotTypeCorrect` says of a prompt that it has at most `rerank_top_k`
passages, no two of the same chunk: each reading of the corpus has one text for
an id, whatever was edited in between, and fusion keeps one of the two readings
a process may mix (`FusionIsDistinct`).

Types are proved and not checked by a run of their own: `IngestTypeCorrect`,
`ChunkerTypeCorrect`, `PipelineTypeCorrect`, `AllEventsAreOfRuns` and
`CopilotTypeCorrect`; those of silver, the producers and the occupancy flow are
part of their invariants.

Only model-checked is what must happen in the end, since fairness and `ENABLED`
are outside the prover: `EveryRecordIsCommitted`, `EveryEventIsReflected`,
`EndsWithReason`, `EveryRunEnds`, the other half of `FailuresAppear`,
`IndexCatchesUp` and `EveryAskEnds`.

## Plan

Done: ingestion and its abstract specification, the silver merge, both
producers, contracts and the task that runs them, the occupancy stream to gold
with its clock and resets, the DAG with its data, the lineage stream, the
chunker, the copilot, and the proofs above.

What a continuation would take, in this order:

1. An abstract specification of the copilot's index (one reading at a time) and
   of the DAG (publish only what was validated), which `Copilot` and `Pipeline`
   implement, with the refinements proved.
2. A second indexer in `Copilot`, and what the shorter corpus leaves behind.
3. Commands that outlive a killed task in `Pipeline`.
4. `RankFusion`: the arithmetic of reciprocal rank fusion against a reference
   definition, with a reader's guarantees for ties.

New questions replace or join existing runs where one instance can answer both,
so that the whole project stays checkable in minutes.

## Not modelled

PII hashing and redaction, the schema evolution demonstration, the demo,
evidence and reporting scripts, the notebook, and configuration: they keep no
state of the kind modelled here or only read it. Of the quality gates the row
expectations of the silver suite and the evidence files are left out, of the
reset the truncation of the lineage file. The golden question run is an
asker of `Copilot` with many questions. Embedding, reranking and the language
models are external, and nondeterministic choices in `Copilot`.
