------------------------------- MODULE MCMetrics -------------------------------
(* What goes on around the lock of a pipeline, for TLC: the periodic       *)
(* reader, and the creation of instruments.  A behaviour is about one of   *)
(* them, chosen at the start.                                              *)
EXTENDS PeriodicReader, Instruments, TLC

CONSTANTS q1, q2, q3, q4, q5, k, k2

(* One counter in two casings, an observable counter twice, and a look-up  *)
(* of the counter in the callback of the first.                            *)
MCId ==
  q1 :> [name |-> "a", observable |-> FALSE] @@
  q2 :> [name |-> "A", observable |-> FALSE] @@
  q3 :> [name |-> "o", observable |-> TRUE] @@
  q4 :> [name |-> "o", observable |-> TRUE] @@
  q5 :> [name |-> "a", observable |-> FALSE]

MCFolded == "a" :> "a" @@ "A" :> "a" @@ "o" :> "o"
MCCallbackOf == q3 :> k @@ q4 :> k2
MCCallerOf == q1 :> None @@ q2 :> None @@ q3 :> None @@ q4 :> None @@ q5 :> k

VARIABLE side
metricsVars == <<side, vars, creatorVars, cacheVars, streams>>

OfReader(A) == side = "reader" /\ A /\ UNCHANGED <<side, creatorVars, cacheVars, streams>>

readerOnly == <<runVars, exportVars, callVars, producer, cancelled, ctxDone>>
OfInstruments(A) == side = "instruments" /\ A /\ UNCHANGED <<side, readerOnly>>

MetricsInit ==
  /\ Init
  /\ InstrumentsInit
  /\ side \in {"reader", "instruments"}

ReaderNext ==
  \/ OfReader(NewProvider) \/ OfReader(Application)
  \/ \E c \in Calls : OfReader(CtxDone(c))
  \/ \E t \in Threads :
       \/ OfReader(Collecting(t)) \/ OfReader(ExportLock(t)) \/ OfReader(UploadReturn(t))
  \/ OfReader(RunTick) \/ OfReader(RunFlush) \/ OfReader(RunCollect) \/ OfReader(RunReply)
  \/ OfReader(RunDone)
  \/ \E f \in Flushers :
       \/ OfReader(FlushStart(f)) \/ OfReader(FlushAnswer(f))
       \/ OfReader(FlushShutdown(f)) \/ OfReader(FlushCancelled(f))
  \/ \E c \in Closers :
       \/ OfReader(ShutdownStart(c)) \/ OfReader(ShutdownSwap(c))
       \/ OfReader(ShutdownExporter(c)) \/ OfReader(ShutdownLate(c))
  \/ OfReader(Terminated)

CreationNext ==
  \/ \E c \in Creators :
       \/ OfInstruments(Ask(c)) \/ OfInstruments(LookupInstrument(c)) \/ OfInstruments(LookupAggregator(c))
       \/ OfInstruments(AddSync(c)) \/ OfInstruments(AddMeasure(c))
       \/ OfInstruments(AddCallback(c)) \/ OfInstruments(StoreInstrument(c))
  \/ OfInstruments(CollectAgain(Run)) \/ OfInstruments(CollectOn(Run))
  \/ OfInstruments(CallbackEnds(Run))
  \/ OfInstruments(InstrumentsOver)

MetricsSpec ==
  /\ MetricsInit /\ [][ReaderNext \/ CreationNext]_metricsVars
  /\ Fairness /\ InstrumentsFairness
=============================================================================
