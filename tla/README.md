# A TLA+ model of karelbilek/opentelemetry

This directory holds TLA+ specifications of the library's own logic: what its
goroutines do to each other, and what its data structures keep. TLC
model-checks them on small instances, and TLAPS checks proofs about everything
that has goroutines of its own.
`PROJECT.json` links every definition to the lines it models, every run to its
properties, and every property to a slip in the code that it would notice.

The library is an OpenTelemetry API and SDK in one Go module, with OTLP/HTTP
exporters only. Its own README warns that doc comments are taken over from
upstream and that there are no tests, so the models follow the code, and
comments are quoted only where the code around them still means them.

## 1. The system

Three signals flow through it in parallel and share almost no code; a service
meets them through `otelhttp` and `otelslog`:

```
 otelhttp -> propagation
    |           |
    v           v
 traces   Tracer -> Span ---End---> BatchSpanProcessor --ExportSpans--> otlptracehttp -+
 logs     otelslog -> Logger -> gate of LoggerProvider -> BatchProcessor -> otlploghttp -+-> retry
 metrics  Meter -> instruments -> aggregations <-produce- pipeline <-collect-          |
                                            PeriodicReader --Export--> otlpmetrichttp -+
```

| component | state | operations | what is hard | correct if |
|---|---|---|---|---|
| batch span processor (`sdk/trace/batch_span_processor.go`) | channel `queue`, slice `batch` under `batchMutex`, timer, `stopCh`, `stopped` | `OnEnd`, worker loop and drain, `ForceFlush`, `Shutdown` | `batch` is exported by the worker and by a goroutine of each flush; flush markers travel in the queue; shutdown and flush race with `OnEnd` | each span is exported at most once and in order; a flush that exports and a shutdown that succeeds cover what was queued before them, and a flush overtaken by `Shutdown` leaves it to that; nothing waits for ever |
| batch log processor (`sdk/log/batch.go`) | overwriting ring queue, coalesced trigger, request channels, `done`, timer | `OnEmit`, worker with three selects, `ForceFlush`, `Shutdown` | request contexts end between chunks; a record may be enqueued while the worker stops; a lost wake | no record vanishes unaccounted for; the queue is empty when the worker has stopped; a full batch wakes the worker |
| log queue (`batch.go`, `ring.go`) | ring with read and write pointers and a length | `Enqueue`, `Dequeue`, `Flush`, `Close` | full and empty look alike; wrap-around | it is a bounded FIFO that overwrites its oldest record |
| logger provider (`sdk/log/provider.go`) | `stopped`, count of operations inside the processor, channel | `Emit`/`Enabled`/`ForceFlush` through the gate, `Shutdown` | last operation out races with the shutdown and its context | the processor is shut down once and alone |
| tracer provider, tracer (`sdk/trace/provider.go`, `tracer.go`) | tracer cache, `isShutdown`, `mu`; identities of spans | `Tracer`, `Start`, `Shutdown` | `mu` is held while the processor shuts down, and what that waits for may call `Tracer` | calls settle; a span continues the trace it belongs to |
| propagation (`propagation/trace_context.go`) | headers | `Inject`, `Extract` | versions, flags, a service that records nothing between two that do | the trace goes on, or a new one begins that nobody is in |
| span (`sdk/trace/span.go`, `evictedqueue.go`) | attributes, events, links, status, counts of what was dropped | `SetAttributes`, `AddEvent`, `AddLink`, `SetStatus`, `End`, `snapshot` | `End` unlocks in the middle; attribute limits on two paths | a snapshot is what the calls before the end amount to |
| log record (`sdk/log/logdata/record.go`, `sdk/log/logger.go`) | attributes in an array and a slice, limits, dropped count | `AddAttributes`, `SetAttributes`, `newRecord` | new, overwritten and derived attributes go separate ways | the record is what was added, last value per key, within the limit |
| exporters, clients (`exporters/*`) and `retry` | flag, pointer or lock of the client, `stopCh`, the request loop | `Export`, `UploadTraces`/`UploadLogs`, `Stop`, `Shutdown`, `RequestFunc` | an upload, waiting for a retry, races with the stop; partial success; time limits | nothing is sent by a call after the shutdown; a stop ends the upload; nil means accepted |
| aggregations (`sdk/metric/internal/aggregate`) | packed counter of the wait group, two sides, per-field atomics, `sync.Map` with a separate length | `measure`, `collect`, `cumulative`, `LoadOrStoreAttr` | no lock on the measuring path; field-by-field updates; check, then lock, then check | a data point is the aggregate of the measurements of its cycle; the cardinality limit holds |
| pipeline, meters, instruments (`sdk/metric`) | pipeline lock, callbacks, aggregations, two caches | creation, `RegisterCallback`, `produce` | callbacks run under the lock; two caches call one another | one stream per instrument; removed callbacks are quiet; creations return |
| periodic reader (`sdk/metric/periodic_reader.go`) | `flushCh`, `done`, `shutdownOnce`, `sdkProducer` | `run`, `ForceFlush`, `Shutdown` | a flush is served by another goroutine with another context | a nil flush or shutdown has delivered what was measured before it; calls return |
| `otelhttp` | wrappers of bodies and `ResponseWriter`, the client span | `serveHTTP`, `RoundTrip` | the wrapper's idea of what `net/http` sends; retried bodies; a span that ends with the response body | what it reports is what happened |
| `otelslog` | handlers, groups and buffers that derived handlers share | `WithAttrs`, `WithGroup`, `Handle` | `append` on shared slices, concurrently | a record has what its handler was given |
| resource (`sdk/resource`), attribute sets, trace state | sorted sets and lists | `Detect`, `Merge`, `NewSet`, `Insert`, `Delete` | in-place deduplication, merging, partial failures | last value per key, sorted, nothing lost |
| normalization of values (`internal/attrnorm`), layout of requests (transforms) | none | `KeyValue`, `Truncate`, `Spans`, `ResourceLogs` | recursion into slices and maps; invalid UTF-8; groups of groups | they compute what their comments define |
| conversions of single items, generated code, examples | - | - | plain data | section 8 |

The interactions that are modelled: `OnEnd`, `ForceFlush` and `Shutdown` callers
with the worker through `queue`, `batchMutex` and `stopCh`; the log provider's
gate with the processor behind it; log callers with the worker through four
channels and the queue; tracers asked for from inside a shutdown; uploads and
their retries with `Stop` and `Shutdown`; measurements with collections through
the wait group and the maps; flush and shutdown callers with the reader's
goroutine, and the reader with the pipeline's lock and the exporter's; creations
of instruments with collections and callbacks; several calls of `End`; the
client's transport with the server's middleware, through headers and through
bodies; and calls of `Handle` through the buffers of shared handlers.

## 2. The modules

| module | models | used by |
|---|---|---|
| `BatchPipeline` | abstract: what a batching processor promises (accept, one export call of at most `MaxBatch`, loss if lossy, shutdown) | refinement target of both processors |
| `BatchSpanProcessor` | `batch_span_processor.go` | `MCBatchSpanProcessor`, `BatchSpanProcessorProofs` |
| `OverwritingQueue` | the log queue as a sequence; abstract specification of the ring | `LogBatchProcessor` extends it, `LogQueue` refines it |
| `LogQueue` | the queue on the ring of `ring.go` | `MCData`, `DataProofs` |
| `LogBatchProcessor` | `sdk/log/batch.go` | `MCLogBatchProcessor`, `LogBatchProcessorProofs` |
| `LoggerProvider` | the operation gate of `sdk/log/provider.go` | `MCLifecycle`, `LifecycleProofs` |
| `TracerProvider` | `Tracer` and `Shutdown` of `sdk/trace/provider.go` | `MCLifecycle`, `LifecycleProofs` |
| `Retry` | `RequestFunc`, `wait` and the clamped delay of `retry/` | `Export` |
| `Export` | the exporters and clients of the three signals | `MCExport`, `MCLifecycle`, `LifecycleProofs` |
| `HotColdWaitGroup` | `hotColdWaitGroup` of `atomic.go` | `CumulativeHistogram`, `SeriesAggregation`, `AggregationProofs` |
| `CumulativeHistogram` | one series of `histogram.go` with `atomicMinMax` | `MCData`, `AggregationProofs` |
| `LimitedSyncMap` | `limitedSyncMap` of `atomic.go` | `SeriesAggregation`, `MCLimitedSyncMap`, `AggregationProofs` |
| `SeriesAggregation` | cumulative and precomputed sums and last values with `atomicCounter` (`sum.go`, `lastvalue.go`) | `MCSeriesAggregation`, `MCData`, `AggregationProofs` |
| `Pipeline` | the lock, callbacks and `produce` of `pipeline.go` | `PeriodicReader`, `Instruments` |
| `PeriodicReader` | `periodic_reader.go` and the metric exporter | `MCMetrics`, `MetricsProofs` |
| `Instruments` | creation of instruments through `cache.go`, `meter.go`, `pipeline.go` | `MCMetrics`, `MetricsProofs` |
| `Attributes` | keys, values and lists of attributes, with the deduplication shared by spans, records and trace states | `Normalization`, `Span`, `LogRecord`, `AttributeSet`, `TraceState`, `ResourceDetection`, `SlogHandler` |
| `Normalization` | `internal/attrnorm`: duplicates in maps, and truncation | `MCLogRecord` instantiates it |
| `OTLPTransform` | the grouping of spans and log records by resource and scope | `MCData` |
| `Span` | `span.go` and `evictedqueue.go` | `MCData`, `AttributeProofs` |
| `LogRecord` | the attributes of `record.go`, and `newRecord` | `MCLogRecord`, `MCData`, `AttributeProofs` |
| `AttributeSet` | `NewSet` | `MCData`, `AttributeProofs` |
| `TraceState` | the list of `tracestate.go` | `MCData`, `DataProofs` |
| `ResourceDetection` | `detect`, `Merge`, `newWithAttributes`, `MergeIterator` | `MCData`, `AttributeProofs` |
| `TraceContext` | `Tracer.Start`, `Inject`, `Extract` along a chain of services with `otelhttp` | `MCData`, `DataProofs` |
| `HTTPExchange` | the middleware, the transport and their wrappers | `MCData`, `DataProofs` |
| `SlogHandler` | `otelslog/handler.go` | `MCData`, `AttributeProofs` |
| `SharedLemmas` | induction and recursion; lemmas on the elements of sequences, and on folds; sums, orders and sizes of finite sets | `BatchSpanProcessorProofs`, `LogBatchProcessorProofs`, `AggregationProofs`, `DataProofs`, `AttributeProofs` |

`MCLifecycle`, `MCMetrics` and `MCData` put several components into one run.
Where these share no state, a variable that never changes (`part`, `side`,
`structure`) says which one a behaviour is about; the others then keep their
initial state, with one choice of it. In `MCData` the histogram and the series
maps do share the wait group.

How the modules correspond to the code:

* **One action is one critical section, channel operation or atomic operation.**
  Code between two of them that touches only local state is part of the action
  before it. Where several steps happen under a lock that every reader of the
  state also takes, they are one action.
* **A call is a constant**, a member of `Spans`, `Flushers`, `Closers`, `Ops`,
  `Records`, `Writers`, `Uploads`, `Creators`, `Logs`; a function such as `flush`
  or `closer` holds where its goroutine is. A phase is named for what the call
  does next.
* **A context** is a member of `Cancellable` (`Mortal` for uploads) that may end
  at any moment; a call outside the set has a context without a deadline.
* **A select** with several ready cases is a disjunction.
* **History variables** (`received`, `attempted`, `before`, `early`, `lost`,
  `delivered`, `members`, `known`, `floor`, `held`, `calls`, `recorded`,
  `nearest`, `given`, `found`, `trouble`, `sized`) record what the code does not;
  no guard reads them but for a bound (`MaxCalls`, `MaxSpans`, `MaxDetectors`) or
  to make up a fresh identity (`NewID`).
* **Keys are numbers**, whose order is that of strings, and values are names;
  `Norm` is what truncation and normalization make of a value, and `Canonical`
  what they should. In the runs both are the table `MCNorm`, and the assumption
  `NormAsComputed` makes sure that it is what `Normalization` computes.
* **Sequential functions without state are operators**, compared with a second
  definition over all small inputs by assumptions of the MC modules, which TLC
  evaluates when a run starts: `NormalIsCanonical` and `RequestsAreComplete`.
* **`D_Variant`**, defined before a definition `D`, is `D` with a plausible slip.
  No specification uses it; it shows that a property would notice the slip.

Module by module:

* `BatchSpanProcessor`: `OnEndCheck` reads `stopped`, `OnEndEnqueue` is the
  non-blocking send. `exportSpans` is `ExportReset` (timer), then the lock, then
  `ExportCall` (the exporter called under `batchMutex`) and `ExportReturn`, for
  the worker and for each flush goroutine. A flush puts a marker into the queue,
  waits until the worker has closed it, and then exports itself. The drain is
  a worker phase; `WorkerDrained` is its first empty receive.
* `LogBatchProcessor`: the worker's phases `probe`, `poll`, `block` are its three
  selects in order, so the priority of shutdown over flush over the timer is
  that of the code. A request carries its caller, whose context cuts the chunks
  short (`Interrupted`). `trigger` is a channel of capacity one.
* `LoggerProvider`: `Begin` and `End` are the two sections under
  `processorOperationsMu`; `drained` is the channel, and closing it while nil or
  closed would be a panic (`Closed`).
* `TracerProvider`: each call reads `isShutdown`, may take `mu`, and reads it
  again. The calls of `Inner` are made by what the processor's shutdown waits for.
* `Retry` and `Export`: an upload is `ExportStart` (the flag), `LoadClient` (the
  pointer, or the lock for metrics), `Upload` (for traces the goroutine of
  `contextWithStop` begins), and then rounds of `Send`, `Respond` and `Wait`. Time
  passes in the latencies of requests and in waits; durations wrap at
  `MaxDuration` as an `int64` does. `signal` says which exporter it is.
* `HotColdWaitGroup`: `SwapLoad`, `Swap` and `Waited` are the load, the exchange
  and the end of the spin; writers may start between any two of them.
* `CumulativeHistogram`: bucket count, total, minimum and maximum are separate
  steps of a measurement, and the merge of the cold point is a sequence of steps
  too. Values are integers.
* `LimitedSyncMap`: `LoadOwn`, `LoadOverflow`, `Lock`, `Store`; `sync.Map` is
  linearizable. A series is identified with its key, because it is never
  replaced. `Clear` may come whenever the lock is free.
* `SeriesAggregation`: `kind` is one of the four aggregations. `Len`, each
  visit of `Range`, each of the two loads of `atomicCounter` and `Clear` are
  separate steps, so that it is a property, and not a feature of the model, that
  no writer comes between where the code relies on it. Whole amounts go to the
  integer part of a sum and odd ones stand for fractions.
* `Pipeline` and `PeriodicReader`: `produce` is entered with the context test,
  takes the lock, runs each callback (which may fail), aggregates and unlocks.
  Export is one call that may fail. `run` serves a tick, a flush or the
  cancellation; the ticker may fire whenever `run` waits.
* `Instruments`: a creation locks the instrument cache of the meter, in it the
  aggregator cache, in it the pipeline, as the nested calls do. A creation may be
  made by a callback (`CallerOf`).
* `Span`: `SetAttributes` takes either path with everything it does;
  `EndLocked` and `EndRelocked` are the sections of `End` before and after the
  trace task, `HandOver` is the processor's turn with its snapshot. `calls` lists
  what was called while the span was recording.
* `LogRecord`: `AddAttributes` with the array `front` and the slice behind it,
  and `Derive`, which adds the attributes of an exception where there is none.
* `AttributeSet`: one step per iteration of the backward loop that swaps in place.
* `TraceState`: the list, its copies, and which headers parse.
* `TraceContext`: a request goes over the wire, is served (`Serve`, `PassThrough`
  if a filter rejects it, `ServeNoop` if the tracer has no provider), spans are
  started inside, and a call goes out with the headers `Inject` leaves. What lies
  between may lose `traceparent` or write that of a later version.
* `HTTPExchange`: every method of `RespWriterWrapper` and `BodyWrapper` runs under
  its mutex and is one action; so are the return of the handler with the report,
  a request for another body, the return of `RoundTrip`, and each event of the
  response body. `net/http` is external: it sends the first status that is not
  informational, or 200.
* `SlogHandler`: buffers are slices of shared arrays. `append` writes behind a
  slice whose array has room, so a slice that another call made may change before
  it is copied: `AppendLevel` and `CopyLevel` are separate steps.
* `ResourceDetection`: `Detect` is one turn of the loop over detectors, with the
  merge and the normalization of all attributes in it.
* `Normalization`: a string is the sequence of its characters, with their sizes;
  a value is a record with one field, named for its type. The first pass of
  `truncate`, its fast path and its second pass are the branches of `CutString`.
* `OTLPTransform`: the two Go maps and the slices they point to are two functions.

## 3. The runs

Seven of the twelve pass; five expect a violation and are the findings of
section 6. Run one with, for instance,
`tlc -config BspSafety.cfg MCBatchSpanProcessor`.

| run | instance | checks |
|---|---|---|
| `bsp_safety` | 2 spans, 2 flushes whose contexts may end, 2 shutdowns, queue 2, batch 2; flushes and shutdowns symmetric | `SpansInOrder`, `FlushCovers`, `ShutdownFlushes`, `ImplementsPipeline` |
| `bsp_live` | 2 spans, 1 flush, 1 shutdown | `SpanExported`, `CallsReturn` |
| `bsp_late_span` | 1 span, 1 flush, 1 shutdown, queue 1, batch 1 | violation of `ShutdownLeavesNothing` |
| `log_batch_safety` | 3 records, queue 2, batch 1, 1 flush and 1 shutdown whose contexts may end | `OnePlace`, `CallCovers`, `StoppedIsEmpty`, `FullBatchWakes`, `ImplementsPipeline` |
| `log_batch_live` | 2 records, queue 2, batch 2 | `RecordExported`, `CallsReturn` |
| `lifecycle` | gate: 3 operations, 2 cancellable shutdowns; tracer provider: 3 calls of `Tracer` for 2 names, 2 of `Shutdown`, one of each made by what the shutdown waits for; exporters: each of the 3 signals, 2 uploads, one of which may be cancelled, 2 shutdowns, 3 retry configurations | `ShutdownAlone`, `ShutdownReturns`; `TracersSettled`, `ReturnsUnlessCaught`; `NilMeansAccepted`, `QuietAfterShutdown`, `RetriesBounded`, `StoppedUploadsEnd` |
| `retry` | the exporters with a Retry-After beyond what an `int64` holds | violation of `WaitsWithinLimit` |
| `data` | below | below |
| `sum_load` | 4 measurements of 3 attribute sets | violation of `LoadsHeldValue` |
| `map_race` | 5 calls for 3 attribute sets, limit 3 | violation of `OverflowOnlyIfAbsent` |
| `metrics` | reader: 1 flush and 2 shutdowns (the flush and one shutdown cancellable), 1 measurement, 1 callback that comes and goes; instruments: 5 creations, one made by a callback, two whose names differ in case | `UnregisteredIsQuiet`, `NilMeansDelivered`, `CallsReturn`; `CreatedOnce`, `CreationsReturn` |
| `record_limit` | the log records of `data` | violation of `AttributesCanonical` |

The run `data` looks at one structure per behaviour:

| structure | instance | checks |
|---|---|---|
| histogram | 4 measurements below, on and above 2 bounds, any number of collections | `SnapshotExact`, `SpinsForSomeone` |
| series | the four kinds of sums and last values, 4 measurements of 3 sets, limit 2, 2 calls of `measure` at a time (`MaxBusy`), any number of collections | `ReportBetween`, `WithinLimit`, `OverflowOnlyWhenFull` |
| span | 2 calls of `End`, 3 calls before (`MaxCalls`), 6 lists of attributes, limits -1 to 2 | `SnapshotAsDefined` |
| log record | 3 calls (`MaxAdds`), 7 lists, an array of 2, limits -1, 0, 1, 3 | `RecordAsDefined` |
| queue | 3 different records, capacity 3, any number of calls | `ImplementsQueue` |
| attribute set | every list of up to 4 attributes with 3 keys | `SetAsDefined` |
| trace state | 6 headers, at most 2 members (`MaxMembers`), 5 edits (`MaxEdits`), 3 keys | `TraceStateAsDefined` |
| trace | 3 hops (`MaxHops`), 4 spans (`MaxSpans`), from 3 kinds of first requests | `TraceContinues` |
| exchange | statuses 103, 200, 404, 500, 3 writes, 2 reads, 2 tries | `ExchangeReported` |
| slog | 4 handlers (`MaxHandlers`), 2 concurrent calls of `Handle` | `LoggedAsGiven` |
| resource | 3 detectors (`MaxDetectors`) | `ResourceAsDetected` |
| assumptions | strings of up to 4 characters, maps of up to 3 entries, limits -1 to 3; batches of up to 4 items | `NormAsComputed`, `NormalIsCanonical`, `RequestsAreComplete` |

Why the bounds are enough for the interesting cases:

* Sizes of 2 let a queue be empty, partly full and full, and a batch be partial
  and full; a third record overwrites the first. A flush that exports while
  another goroutine does, and one that finds the queue full, both occur.
* Two flushes are needed for their goroutines to compete for `batch` (and the
  worker is a third competitor). One shutdown wins, the second is the late one.
* Batch size 1 with a queue of 2 gives a log request two chunks, which is what
  it takes for its context to end between them; batch size 2 is in the live run.
* Two uploads and two shutdowns: one of each wins a race, and the other comes
  late. Backoffs of 1 and 2 with a limit of a few units of time let an upload run
  out of it while it waits and before; a configuration without a limit and one
  with retries disabled are among `MCConfigs`.
* The wait group swaps sides at each collection, and four writers suffice for
  one that started before each of two swaps on each side. Collections are not
  bounded: the state does not grow with them.
* Limit 2 means one series of an attribute set and the overflow series, so three
  sets overflow, and two calls race for the same set. Of the two sets with one
  measurement each, one always comes first; they are alike otherwise.
* The amounts make every subset of the measurements a different sum; one of them is
  negative, as for an up-down counter.
* Lists of attributes repeat a key within a call and between calls, and exceed
  each limit by one; a record with an array of 2 spills into the slice.
* Three hops let a service that records nothing, or a damaged header, come
  between two that record.
* Four handlers make two levels below a common one, which is what it takes for
  two derived handlers to append to the same array.
* One flush suffices for the reader because ticks compete with it for `run`
  without bound, and one callback is new, registered and removed at any moment.

There is no other bound: no depth limit and no state constraint. Deadlock is
checked in every run: what may end has an action that stutters there
(`SpanOver`, `ExchangeOver` and the like).

## 4. Fairness

Only what Go and the code guarantee is assumed:

* weak fairness of each goroutine's next step: a goroutine that can run is run,
  a mutex is released and the waiter gets it, calls of the exporter and of the
  HTTP client return (the client has a timeout, the log processor one of its
  own), a callback of the application returns;
* weak fairness of the goroutine of `contextWithStop` (`CancelByStop`);
* strong fairness of single cases of a select in a loop (`processQueue`, `run`),
  because Go chooses among the ready ones at random;
* strong fairness of creations of instruments, which wait for mutexes that others
  take again and again: after a millisecond `sync.Mutex` hands itself to the one
  who waits longest;
* weak fairness of timers that are armed, where a property is about them. The
  reader's ticker needs none.

Nothing obliges an application to call anything, or a context to end. The log
worker needs no strong fairness: its selects poll in a fixed order. No fairness is
needed for the structures of `data`, whose properties are all safety.

## 5. Proofs

`tlapm` checks all of them; the theorems hold for all values of the constants
that satisfy the named assumptions next to their declarations.

**BatchSpanProcessorProofs** (assumptions `KindsDisjoint`, `SizesPositive`).
`SpansInOrder` says that `received = attempted \o Unsent \o hand`: what the worker
took is what was exported, what is waiting in `batch`, and what it holds. It is
not inductive alone. The invariant `IInv` adds that at most one goroutine is in a
call of the exporter (`OneCall`) and that it has something to export
(`CallHasSpans`), so no other goroutine can touch `batch` meanwhile; that the
worker takes a span only with room for it (`WorkerHasRoom`), whence the batch
bound, although the size is tested in one critical section and acted on in another;
that a queued span is in the queue or received (`QueuedKept`); and how far the
worker is once it stops (`WorkerEnds`). `IInvAlways` proves it; from it follow
`SpansStayInOrder`, `BatchBounded` and `ShutdownHasFlushed`: when the exporter is
shut down no call of it is in progress, none can follow with anything in it, and
all spans queued before the shutdown were handed over. `TypeCorrect` is proved
first.

* `FlushHasCovered`, a clause for each way in which ForceFlush returns nil. After
  its export it has handed over all spans accepted before it, unless its context
  ended before the marker was sent. From the case for `stopCh` its spans may still
  be in `batch` or in the queue; they are handed over when `Shutdown` shuts the
  exporter down. And it does nothing only after `Shutdown` has been called.
  `FlushInv` follows the marker: all those spans are before it in the queue or further on
  (`MarkerBehind`), it is in the queue once and closed only when the worker took it
  (`MarkerSent`, `MarkerFirst`), then they are all received (`MarkerReceived`); and
  the export of the flush, which starts after that, cannot be overtaken by
  another that still has some of them in `batch` (`ExportCovers`, `CallHandsOver`).
  `NilInv` adds why a flush got where it is: it exports after its marker or after
  the end of its context (`ExportReason`), and if it waits or has given up while
  the processor stops it had passed the check of `stopped` before, so its spans are
  among those that `Shutdown` found (`BeforeShutdown`).
* `ProcessorImplementsPipeline`: the processor implements `BatchPipeline`, with
  what waits there being `batch`, the worker's hand and the spans of the queue in
  this order (`SpansIn` leaves the markers out). Each step is a step of the
  pipeline or a stutter; `OnlyAccepted` shows that a span enters it once.

**LogBatchProcessorProofs** (assumptions `CallsAssumption`, `BatchSizeNatural`,
`CapacityPositive`). The processor has one worker and several channels, so `IInv`
relates the worker's phase to the request it serves and the records in its hands
(`WorkerServes`), says that the queue is sealed before a shutdown is asked for and
empty after it (`ShutdownSeals`), that a request is served once and answered last
(`ServedOnce`), and what it has covered at each stage (`RequestCovers`).

* `NoRecordTwice`: an accepted record is in exactly one of the queue, the worker's
  hands, the exporter's and the lost ones. `NilHasCovered` and
  `StoppedLeavesNothing` are the promises of ForceFlush and Shutdown.
* `FullBatchSignalled`: a worker about to wait with a full batch queued has a
  signal coming (`SignalComing` is the same while it is busy). It needs
  `BatchSize # 0`: with size 0, a full batch is the empty one.
* `ProcessorImplementsPipeline`: `BatchPipeline` again, lossy, with the worker's
  hands and the queue waiting, and batches of the whole queue for size 0.

**DataProofs** (assumptions `RingAssumption`, `TraceAssumption`,
`ExchangeAssumption`, and `TraceStateAssumption`: headers are lists of members and
malformed entries, and the limit is positive).

* `RingImplementsQueue`: the ring of log records implements the queue that
  overwrites its oldest record. A slot is described by its distance from the read
  pointer on the circle (`Slot`, `Wrap`, `Turn`): the distances below the length
  hold the queue in order, the others nothing. With that, each operation is a fact
  about one or two slots.
* `TraceGoesOn`: `TraceContinues` for any number of services and any first headers.
  `TraceIInv` says what is handed on: on the wire the headers, and in a service its
  context, are about the nearest recorded span (`HeadersFollow`, `ContextFollows`),
  and while a service has not called anyone its headers are still about the span
  that was nearest on arrival, which it needs when they are forwarded. A context is
  valid or empty (`Sane`), so a span without a parent has no state either; and all
  traces in use are those of recorded spans or from outside (`TracesSeen`,
  `RecordedInOrder`), so that of a new root is nobody else's. The assumption is
  that random identifiers do not meet those that come from outside.
* `TraceStateConforms`: `TraceStateAsDefined` after any edits. The invariant is the
  property itself and the types. An insertion puts the key in front and pushes the
  last member out of a full list; what makes this right is that the members are in
  the order of their last edits, so that the one pushed out is the one edited
  longest ago, and all the others, whose keys differ, were inserted since
  (`InsertedSince`). `WithoutKey` says what is left when a key is taken out.
* `ExchangeIsReported`: `ExchangeReported` for any set of status codes, any calls of
  the handler and any attempts of the transport. `ExchangeIInv` is about both ends:
  as long as nothing bypasses the wrapper, its size is that of the response, and its
  status the one that was sent or, if it has seen none, nothing has been sent yet
  (`WrapperFollows`), where the status that is sent is the first that is not
  informational (`StaysInStep`); the body the client measures is the last one it
  opened (`LastIsLast`); and its span is open until there is a response or an error
  (`SpanTrue`). The assumption is the range of codes outside which `net/http` panics.

**LifecycleProofs** covers the two providers and the exporters.

* `IInv` of the gate relates the counter to the set of operations inside, and the
  channel to the counter: it is closed exactly when `stopped` and the counter is
  0, so never twice (`GateInvariant`). `ShutdownIsAlone`, `ShutsDownOnce` and the
  action property `CancelledOnlyWhileBusy` follow.
* `TracersAreSettled`, by `ProviderIInv`: one tracer of a name, all handed out
  before `isShutdown`; a lock that is held long means that it is set.
* `NilIsAccepted` and `QuietOnceShutDown`, by `ExportIInv`: an upload returns nil
  only if a request of it was accepted in full; after Shutdown no upload of a metric
  exporter is at work, since whoever is holds `clientMu` (`HoldsClient`) and
  Shutdown waits for it (`HaltOrder`), and none of a log exporter that began later
  (`LateReturned`).
* `RetriesAreBounded`, by `TimesBounded`: no request of an upload with a limit is
  sent later than the limit and one backoff. It has the hypothesis `ThrottlesFit`,
  that a Retry-After is either past all lifetimes or leaves room in 64 bits for the
  limit; without it the sum wraps around and the bound is false (section 6).

**AggregationProofs** (assumptions `HistogramAssumption`: integers for values, and
sorted bounds, any set of measurements; `MapAssumption` and `SeriesAssumption`
below). First the wait group, for any set of writers. `GroupInv` relates the packed counters to the sets of writers that have
started, or finished, on each side (`GroupInvariant`). `ReaderIsAlone` follows with
finite-set reasoning: when the counts agree, the sets do. `ReaderSpinsForSomeone` is
the other half: as long as they differ there is a writer to wait for, so the spin
cannot hang on a writer that is gone.

Then the histogram on top of it, `SnapshotIsExact`, by `HistogramIInv`: each point
holds the measurements of a known set, `Place`, as far as each of them has got.

* `Place` is the members of the side, what was seen at the last swap for the cold
  point, and everything that has entered for the hot one once the cold point is
  merged into it. The merge moves the counts first and the sum last, so each field
  has its own moment at which the sets move (`CountsMerged`, `SumMerged`); the sets
  are disjoint (`SeenOrHot`), so cardinalities and sums add up.
* `CountsRight` and `SumsRight` say which of those measurements a field holds, by
  the step each has reached; one that begins during the merge is on the hot side
  and stays there, so the merge cannot count it again.
* The extrema have no inverse, so they need two halves: they are values of
  measurements that belong to the point (`ExtremaTaken`), and they cover all that
  have got past their update (`ExtremaRight`), where the merge follows its own four
  updates (`ExtremaMerge`).
* When the group lets the reader read, everything seen has returned, so "as far as
  they have got" is all the way; `BucketAsDefined` says that the search for the
  bucket finds the one the definition of the bounds names.

The second half of the module is about the map of series and what is kept in it
(`SeriesAssumption`: the amounts are integers, negative ones among them, as an
up-down counter or a gauge gives them to the same code). First the map, for any number of maps. `MapInv`: the length is the size of the map; the map
without the overflow series has at most `Limit - 1` keys; and the choice a call has
made under the lock stays right until its store (`MapInvariant`). `LimitHolds`
follows. `DivertedOnlyWhenFull` needs the hypothesis `OverflowSetUnused` (section
6, observed behaviour 4).

Then the four aggregations on top of the map and the wait group, `ReportIsBetween`,
by `SeriesIInv`.

* `SeriesImplementsGroup` and `SeriesImplementsMap`: each step of an aggregation is
  one of the wait group, or of the map, or leaves it alone. So `GroupInv` and
  `MapInv` hold here too, and `OnStartedSide` says how they fit: a call is in the
  map only between its `start` and its `done`, on the side `start` gave it, so a
  collection reads and clears a map that all calls have left.
* `TablesRight` and `CellsRight`: the keys of a map are the series of the calls that
  have returned from it, and a cell is the sum of the amounts of the calls added
  to it, whole and fractional parts apart (`Evens`, `Odds`), or the value of one that
  no other follows. The calls of a map are those the wait group counts on its side,
  or, of the one being read, those the collection must count (`Cohort`).
* A collection of a cumulative aggregation ranges over a map that grows.
  `NoneMissed`: a series that is due has its point, is being loaded, or is still to be
  visited. `PointsRight` and `LoadingRight`: a point counts all that had returned when
  the collection began and some of what has been counted since. A sum is read in
  two parts at two moments, so these need not be the calls counted at any one
  moment: that is why the property has bounds and `LoadsHeldValue` fails.
* `FloorsRight`: the last points of a cumulative sum are at most the sums of the calls
  added so far, all of which the next collection must count, if none of them is
  negative (`Rising`): then more of them are no less (`SumMonotone`), and the series
  does not fall. The series of an up-down counter may; it is not dropped either.

**MetricsProofs** (assumptions `PipelineAssumption`, `ReaderAssumption`,
`InstrumentsAssumption`).

* `RemovedIsQuiet`: a callback that was unregistered neither runs nor will, under
  the reader's steps. `PipeIInv`: what a collection runs is registered, and without
  the lock nothing is.
* `NilIsDelivered`: a ForceFlush or Shutdown that returned nil has delivered what
  was recorded before it. `ReaderIInv` follows the request: who collects
  (`AtWork`), that nothing is uploaded that it has not collected (`WorkInOrder`),
  that the collection for a flush began after it (`FlushServed`), and that one
  Shutdown at most collects, when the run goroutine is over (`CloserServed`).
* `InstrumentsCreatedOnce`: calls that ask for the same instrument share its
  stream, and of their callbacks one is registered. `InstrumentsIInv`: the two
  caches and the list of streams agree (`CachesTrue`), what a call found absent is
  so as long as it holds the lock (`AbsentUnderLock`), and a callback belongs to the
  call that made the instrument (`MakersCallback`). The theorem needs callbacks of
  different calls to be different ones, which the assumption says: each call of
  the code makes a new entry in the pipeline for its callback.

**AttributeProofs** (assumptions `SetAssumption`: keys are integers, whose order
stands for that of strings; `SpanAssumption`: the limits are integers, there is a
call of End, and what normalization makes of the values that are set is what it
should, which `Normalization` is about; `SlogAssumption`: no error is taken for
"no error"; `ResourceAssumption`: what detectors find are lists of attributes, and
normalizing a value twice is normalizing it once; `RecordAssumption`: the array of
a record has at least one place, the keys derived from an exception are two, and
of values as for spans). Code on lists, for lists of any length.

* `SetConforms`: `SetAsDefined` for the walk of `NewSet`. `Walked` is its loop
  invariant: the slice is a rearrangement of the input; from the position on it
  has the last value of each key seen so far, in order; before the offset it is the
  sorted list, untouched, so what is still to be seen is there. Of elements with the
  same key the sorted list has the latest last (`SortedOrder`), which is the one the
  walk, coming from the end, meets first. Nothing is lost as a swap rearranges
  (`NoneLost`).
* `SpanReportsCalls`: `SnapshotAsDefined`, for any limits and any calls. `SpanIInv`
  says what a snapshot would have at any time, not only at the end: the attributes
  *stand for* the ones that were set (`Stands`), with the keys that are kept in the
  order of their first places, each with its last value, and a count of the lost
  ones; the queues hold the last items (`QueueHolds`).
  The attributes may hold duplicates, so the invariant cannot say what they are, only
  what is left of them once the duplicates are gone; two lists of which the same is
  left say the same (`Same`). `AddedStand`, `FullStand` and
  `InvalidStand` are the three things that can happen to one attribute, and the two
  paths of `SetAttributes`, which are folds, come down to them one attribute at a
  time (`WithinStands`, `OverCapStands`). While the path that appends is taken there
  is room for every attribute, so none of them can have been refused; the path
  at the limit may look a key up in the list as each key is there once.
  `EndsInOrder` counts the calls of End that are under way; as nothing is recorded
  after the end, a snapshot stays right (`HandedRight`).
* `DedupedSays`: the one pass of deduplication leaves the first place and the last
  value of each key. A fold is a function on sets of places; `FoldChain` and
  `DedupedPuts` turn it into a chain of steps.
* `RecordsLogWhatIsGiven`: `LoggedAsGiven` for handlers derived in any way. The
  invariant speaks of a handler with *any* list inside, since a record puts its own
  attributes there: what the handler shows around the list is the list, with what was
  given before it, enclosed by the groups (`SlogIInv`). Handlers share their
  ancestors' buffers, so what is needed is that buffers only grow (`Keeps`). A group
  is forced into a buffer, or passed over, by what comes after it, and either way the
  same is shown (`Forced`, `Passed`, `Renders`). Both sides are folds over the
  groups, which `Through` turns into chains, as above.
* `ResourceHoldsFound`: `ResourceAsDetected` for any number of detectors. `WalkedTo`
  is the loop invariant of the merge iterator over two sorted sets: what it has given
  is in order, all before what comes next, and an element of the second set is among
  it only if the first lacks its key (`WalkSays`, `WalkIs`). Every merge normalizes
  what is there already once more, so the proof also needs that the order of
  normalizing and filtering does not matter (`UsableNormalized`) and that a clean set
  stays as it is (`CleanStays`). Then one more detector adds its usable attributes, and
  its error, and nothing else (`OneMoreFound`).
* `RecordKeepsGiven`: `RecordAsDefined` for any limit, any lists and any size of the
  array. `RecordIInv` says it of the record between any two calls, and that the
  array is full before the slice is used (`WellFilled`), so that adding a list in two
  parts is adding it to the whole (`SplitAdded`, `NormalParts`). All three operations
  come down to one more list (`ListAdded`): `SetAttributes` is one to an empty
  record, and what is derived from an error is one without duplicates and without
  keys that are there. Why it is right to look for a key among those *carried*,
  when one that found no room was given before and is not: once a key has been
  refused the record is full, and nothing new is kept (`KeysGrow`), so a key that
  is new and kept was never given. For the same reason the keys
  that earlier lists have lost stay lost, and so does their number (`LostNext`).
* The numbers of a set in order (`InOrder`) and a sorted list (`Sorted`) are
  definitions in the model, not algorithms: both are instances of the line of a
  finite set that `SharedLemmas` builds.

**SharedLemmas** has what these share. The library's induction theorems take an
operator as a parameter, which the provers cannot instantiate. `SetInduction`,
`FiniteInduction` and `RecursionOnNat` are the same for a property given as a set
and for a function given by its step, which they can. Of the rest, one part is
about what `Append`, `\o`, `Tail` and `SubSeq` do to the elements of a sequence, and
one about sums over finite sets: the fold of the community modules picks its
elements in some order, `SumInAnyOrder` says that the order does not matter, and
`SumWithOneMore` and `SumOfDisjoint` are what the histogram needs. `PlacesInLine`
and `LineIs` put the elements of a finite set in a line, each at the place that
is the number of those below it, and `FoldChain` makes a fold over a sequence a chain
of steps that `SetInduction` can follow.

The inductive invariants are not invariants of runs: the theorems cover them for
all instances. TLC checked them on the runs' instances before they were proved, but
for `SlogIInv`, which speaks of every list there is. Only model-checked are: all
liveness (the prover has neither fairness nor ENABLED), and the normalization of
values, which is recursive and can only be evaluated.

## 6. What the code does that its comments deny

Findings, each with a run that exhibits it:

1. `bsp_late_span`: `OnEnd` tests `stopped` and then sends. Between the two,
   `Shutdown` may drain the queue and the worker may end. The span is then queued,
   never exported, and not counted as dropped, although Shutdown returned nil. The
   comment at `batch_span_processor.go:265` says the drain waits for such callers,
   but nobody adds to the wait group it means.
2. `retry`: a Retry-After that is clamped to the largest duration (`response_error.go:31`)
   makes `elapsed+throttle` in `retry.go:108` wrap around, so it does not exceed
   `MaxElapsedTime`, and the upload waits for it. A Retry-After that is just short
   of the largest duration does the same without being clamped.
3. `map_race`: `LoadOrStoreAttr` looks for the own set and then, without the
   lock, for the overflow set. If the own set is stored and the map overflows in
   between, the measurement goes to the overflow series though its series exists.
   The comment at `atomic.go:251` rules that out.
4. `sum_load`: the collection of a cumulative sum loads the two parts of a counter
   while measurements add to them, and may report a sum that leaves out one
   addition and has a later one. The comment at `atomic.go:27` demands that all
   additions have returned.
5. `record_limit`: `Record.AddAttributes` stores the new value of a key that the
   record already has as it is, without truncation and normalization, which every
   other path applies, and `sdk/log/DESIGN.md:131` promises.

Observed behaviours that no run states, because no property can demand the
contrary of this code, or because they are outside the models.

Processors, providers and exporters:

1. `batch_span_processor.go:307`: a flush waiting for room in the queue has no case
   for `stopCh`. After the worker has ended and late spans have filled the queue,
   only its context ends it. In the runs such a flush is therefore cancellable.
2. `batch_span_processor.go:167`: if the context ends while a flush waits for
   room, the flush does not return; it exports what is in `batch`. With an empty
   batch its goroutine answers nil, and the final select may choose that over the
   end of the context: a nil flush that flushed nothing. `FlushCovers` excepts it.
3. `batch_span_processor.go:169`: a flush that waits for its marker returns nil once
   `Shutdown` has closed `stopCh`, also when the marker has been reached, as the
   select is random. Its spans may then still be in `batch` or in the queue, though
   the doc at line 151 says that ForceFlush "exports all ended spans that have not
   yet been exported". `FlushCovers` says what is true: the drain of `Shutdown` hands
   them over before it shuts the exporter down, if that moment comes: a shutdown
   whose context ends returns without waiting for it. A flush that starts after
   `Shutdown` was called returns nil at once (line 159).
4. `atomic.go:243`: the overflow set in the map is taken as proof of overflow. An
   application that measures with that very attribute set diverts all new sets,
   even without a limit. `OverflowSetUnused` excludes it.
5. `periodic_reader.go:249`: `Shutdown` waits for `run` without regard to its
   context; a callback that blocks keeps it waiting. One failing callback keeps a
   whole collection from being exported (`periodic_reader.go:149`).
6. A call of `Tracer` made by what the processor's shutdown waits for, caught
   behind `mu`, keeps both waiting until the context of `Shutdown` ends
   (`ReturnsUnlessCaught`). The sampler of a provider is always one that records
   and samples, though the doc comment of the provider (`provider.go:71`) names
   `ParentBased(AlwaysSample)`.
7. A trace upload begun after `Stop` may still send one request, because the
   goroutine of `contextWithStop` and the request race; a stop interrupts uploads
   that the exporter's doc says it flushes. A log upload that has passed the
   flag may start after `Shutdown` has replaced the client. The metric exporter's
   `ForceFlush` after `Shutdown` returns nil, contrary to its doc.
8. The last wait of a retry may go beyond `MaxElapsedTime`: the test is made with
   the throttle, and the longer of throttle and backoff is what is waited for.
9. The exporters read a partial success only from an answer whose `Content-Type` is
   exactly `application/x-protobuf` (`otlptracehttp/client.go:173`,
   `otlploghttp/client.go:177`, `otlpmetrichttp/client.go:182`); with another one,
   or with a parameter after it, the upload returns nil. `Respond` leaves that out: a
   collector that keeps to OTLP answers with the type of the request.
10. A callback that creates an instrument, or unregisters one, waits for the lock
   that its own collection holds, or for a creation that waits for it.

What is kept and reported:

1. Two concurrent calls of `End`, with the runtime trace on, may both hand over a
   snapshot. A snapshot does not report how many events or links were dropped when
   their limit is 0. Attributes of an exception for which a record has no room are
   not counted as dropped.
2. `truncate` does not count U+FFFD, so a string of it may stay longer than the
   limit, and it returns a string of a single byte that is not valid UTF-8 uncut
   at limit 0 (`NormalIsCanonical` excepts both).
3. The comment on the slice `back` of a record (`record.go`) states its invariant
   the wrong way round.
4. `attribute/hash.go` writes strings and elements without a length or an end, so
   the slices `["ab"]` and `["a", "b"]` have the same `Distinct`.
5. `otelslog/handler.go:285` leaves out an outer group that has no attributes of
   its own even if an inner group has.
6. `otelhttp` does not see what `ReadFrom` writes: its bytes are not counted, and a
   status it implies may not be the one reported. A handler that panics ends its
   span without a status and without metrics. The span of a client ends only with
   the end of the body, with `Close`, or with a round trip that fails; the request
   size is what had been read when `RoundTrip` returned.
7. `Inject` leaves a `tracestate` header that is there when the span context has no
   trace state, so the old one goes on with the new parent.

## 7. State of the plan

Done, in this order: the span processor and the log processor with the abstract
pipeline, the gate, the wait group and the series maps with their proofs, the
reader; then the tracer provider, the span, the log record, the exporters with
their retries, the sums and last values, the instruments, the sequential data
structures, and the boundaries (propagation, HTTP, slog, resources); last
normalization and the layout of requests. After that the proofs: both processors
with their refinements, the ring, the providers and exporters, the reader and the
instruments, the histogram, the propagation of traces and the HTTP exchange, the
sums and last values, trace states, sets of attributes, spans, the slog handler,
the detection of resources, and the attributes of log records.

Nothing of the plan is left.

## 8. Not modelled

* Left out of modelled components: sizes of 0 and a nil exporter in the span
  processor; a negative batch size, the export timeout as a deadline of its own and
  the dropped-record counter (logging only) in the log processor; the reuse of
  result slices and the `noSum` and `noMinMax` options in the aggregations; the
  histogram's map of series (it is `LimitedSyncMap`); `Collect` called by the
  application; `SetName`, stack traces and the attributes of exceptions of spans, and
  calls of `AddLink` with a link that has no valid context, no attributes and no
  trace state, which return at once (`span.go:480`);
  `Clone` and the other fields of records; the maps of loggers and meters by name;
  names and attributes of the spans and metrics of `otelhttp`; the conversion of
  values and groups within attributes in `otelslog`; marshaling and compression in
  the exporters; the syntax of trace states and headers; the environment that
  detectors of resources read. The `note` of each component in `PROJECT.json` says
  more.
* The conversion of single spans, records and metrics to OTLP: copies of fields.
* The metric and log API: interfaces, options and no-op implementations.
* Generated code: the semantic conventions (`semconv`) and the protobuf types
  (`proto`) are more than half of the repository's 43,700 lines, have no state of
  their own, and are the reason why the mapped share of all lines is small.
* The examples.
