-------------------------------- MODULE MCData --------------------------------
(* What the SDK and what feeds it keep of what they are told, for TLC: the *)
(* histogram of one series and the sums and last values of all series,     *)
(* which share the hot/cold wait group; a span; the attributes of a log    *)
(* record; the queue of log records; attribute sets; trace states; a trace *)
(* on its way through services; an HTTP exchange; handlers of slog; and    *)
(* resources.  Otherwise they share no state: which one a behaviour is     *)
(* about is chosen at the start.  How batches are laid out for a request,  *)
(* which has no steps, is checked as an assumption.                        *)
EXTENDS CumulativeHistogram, MCSeriesAggregation, Span, MCLogRecord, LogQueue,
        AttributeSet, TraceState,
        TraceContext, HTTPExchange, SlogHandler, ResourceDetection, OTLPTransform

(* The values fall below, on and above the bounds of the histogram.        *)
MCBounds == <<0, 2>>
MCValue == w1 :> 2 @@ w2 :> -1 @@ w3 :> 3 @@ w4 :> 0

MCInvalid == <<>>
MCSpanLimits == {-1, 0, 1, 2}
MCSpanLists ==
  {<<<<1, "short">>>>, <<<<3, "bytes">>>>, <<<<1, "long">>, <<2, "nested">>>>,
   <<MCInvalid, <<2, "wide">>>>, <<<<3, "texts">>, <<1, "ill">>>>,
   <<<<1, "single">>, <<1, "repeated">>>>}

(* All lists of up to four attributes with three keys; the values tell     *)
(* equal keys apart.                                                       *)
MCInputs ==
  {[i \in 1..m |-> <<k[i], v[i]>>] :
     m \in 0..4, k \in [1..4 -> 1..3], v \in {<<"x", "y", "x", "y">>, <<"x", "x", "y", "err">>}}

(* Headers with up to two members, too many, one twice, and a bad one.     *)
MCHeaders ==
  {<<>>, <<<<1, "x">>>>, <<<<2, "x">>, <<1, "y">>>>, <<<<1, "x">>, <<2, "x">>, <<3, "x">>>>,
   <<<<1, "x">>, <<1, "y">>>>, <<<<1, "x">>, MCInvalid>>}

(* A request without a trace, one of a trace that is not sampled, and one  *)
(* with a trace state.                                                     *)
MCCarrier(flags, state) ==
  [parent |-> [version |-> 0, trace |-> 100, span |-> 100, flags |-> flags, extra |-> FALSE],
   state |-> state]
MCFirstCarriers ==
  {[parent |-> NoParent, state |-> ""], MCCarrier({}, ""), MCCarrier({"random"}, "old")}

CONSTANTS l1, l2

(* What handler n is given tells by its keys where it comes from; so does  *)
(* what a record has of its own.                                           *)
MCGivenTo == [h \in 1..4 |-> {<<<<h, "x">>>>, <<<<h + 10, "err">>>>}]
MCGroupName == [h \in 1..4 |-> h + 20]
MCOwnOf ==
  l1 :> {<<>>, <<<<31, "x">>>>} @@ l2 :> {<<<<32, "x">>, <<42, "err">>>>, <<<<43, "err">>>>}

(* Attributes with a map that repeats a key, an empty key, and keys twice. *)
MCUnrepeated ==
  [v \in {"x", "y", "repeated", "once", "unusable"} |-> IF v = "repeated" THEN "once" ELSE v]
MCIsUsable == [v \in DOMAIN MCUnrepeated |-> v # "unusable"]
MCFindings ==
  [list : {<<>>, <<<<1, "x">>>>, <<<<3, "repeated">>, <<1, "y">>>>,
           <<<<2, "x">>, <<1, "unusable">>>>, <<<<2, "y">>, <<2, "repeated">>>>},
   error : {"none", "partial", "other"}]

(* All batches of up to four items of two resources with two scopes, or    *)
(* missing, become the requests that they should.                          *)
ASSUME RequestsAreComplete ==
  \A list \in SeqOf([resource : {1, 2}, scope : {1, 2}] \cup {Missing}, 4) :
    LET batch == [i \in DOMAIN list |->
                    IF list[i] = Missing THEN Missing
                    ELSE [resource |-> list[i].resource, scope |-> list[i].scope, id |-> i]]
    IN  IsRequestFor(batch, Request(batch))

CONSTANT MaxBusy

VARIABLE structure

histogramOnly == <<step, merge, pointVars, report, seen>>
seriesOnly == <<mapVars, kind, cells, added, collectVars, before>>
aggregationVars == <<groupVars, histogramOnly, seriesOnly>>
sdkVars == <<aggregationVars, spanVars, recordVars, ringVars, setVars, tsVars>>
boundaryVars == <<traceVars, exchangeVars, slogVars, resourceVars>>
dataVars == <<structure, sdkVars, boundaryVars>>

Chosen(s, A) == structure = s /\ A /\ UNCHANGED <<structure, boundaryVars>>
AtBoundary(s, A) == structure = s /\ A /\ UNCHANGED <<structure, sdkVars>>

OfHistogram(A) ==
  /\ Chosen("histogram", A)
  /\ UNCHANGED <<seriesOnly, spanVars, recordVars, ringVars, setVars, tsVars>>
OfSeriesMaps(A) ==
  /\ Chosen("series", A)
  /\ UNCHANGED <<histogramOnly, spanVars, recordVars, ringVars, setVars, tsVars>>
OfSpan(A) ==
  /\ Chosen("span", A)
  /\ UNCHANGED <<aggregationVars, recordVars, ringVars, setVars, tsVars>>
OfRecord(A) ==
  /\ Chosen("record", A)
  /\ UNCHANGED <<aggregationVars, spanVars, ringVars, setVars, tsVars>>
OfQueue(A) ==
  /\ Chosen("queue", A)
  /\ UNCHANGED <<aggregationVars, spanVars, recordVars, setVars, tsVars>>
OfSet(A) ==
  /\ Chosen("set", A)
  /\ UNCHANGED <<aggregationVars, spanVars, recordVars, ringVars, tsVars>>
OfTraceState(A) ==
  /\ Chosen("state", A)
  /\ UNCHANGED <<aggregationVars, spanVars, recordVars, ringVars, setVars>>

OfTrace(A) == AtBoundary("trace", A) /\ UNCHANGED <<exchangeVars, slogVars, resourceVars>>
OfExchange(A) == AtBoundary("exchange", A) /\ UNCHANGED <<traceVars, slogVars, resourceVars>>
OfSlog(A) == AtBoundary("slog", A) /\ UNCHANGED <<traceVars, exchangeVars, resourceVars>>
OfResource(A) == AtBoundary("resource", A) /\ UNCHANGED <<traceVars, exchangeVars, slogVars>>

(* Every structure begins as it says; the choices of those that are not    *)
(* looked at are fixed.                                                    *)
DataInit ==
  /\ structure \in {"histogram", "series", "span", "record", "queue", "set", "state",
                   "trace", "exchange", "slog", "resource"}
  /\ Init /\ SeriesInit /\ (structure # "series" => kind = "Sum")
  /\ SpanInit /\ (structure # "span" => limit = 0 /\ traced)
  /\ RecordInit /\ (structure # "record" => countLimit = 0)
  /\ RingInit
  /\ SetInit /\ (structure # "set" => input = <<>>)
  /\ TraceStateInit /\ (structure # "state" => memberList = <<>>)
  /\ TraceContextInit /\ (structure # "trace" => carrier.parent = NoParent)
  /\ ExchangeInit /\ (structure # "exchange" => reads = <<>>)
  /\ SlogInit /\ ResourceInit

HistogramNext ==
  \/ \E w \in Writers :
       \/ OfHistogram(MeasureStart(w)) \/ OfHistogram(MeasureCount(w))
       \/ OfHistogram(MeasureMin(w)) \/ OfHistogram(MeasureMax(w))
       \/ OfHistogram(MeasureSum(w)) \/ OfHistogram(MeasureDone(w))
  \/ OfHistogram(CollectStart) \/ OfHistogram(CollectSwap)
  \/ OfHistogram(CollectWaited) \/ OfHistogram(CollectRead)
  \/ OfHistogram(MergeCounts) \/ OfHistogram(MergeExtrema) \/ OfHistogram(MergeSum)

(* At most MaxBusy calls of measure of the series at the same time; and    *)
(* of the two sets with one measurement each, b comes before c.            *)
Busy(w) == IF Cumulative THEN call[w] # "idle" /\ w \notin added ELSE writer[w] = "in"
Begun(w) == Busy(w) \/ call[w] # "idle"
MayEnter(w) ==
  \/ Busy(w)
  \/ /\ Cardinality({v \in Writers : Busy(v)}) < MaxBusy
     /\ w = w4 => Begun(w3)

SeriesMapsNext ==
  \/ \E w \in Writers :
       \/ MayEnter(w) /\ OfSeriesMaps(RecordStart(w))
       \/ MayEnter(w) /\ OfSeriesMaps(RecordLookup(w))
       \/ OfSeriesMaps(RecordStore(w)) \/ OfSeriesMaps(RecordAdd(w))
       \/ OfSeriesMaps(RecordDone(w))
  \/ OfSeriesMaps(GatherSwap) \/ OfSeriesMaps(GatherWaited)
  \/ OfSeriesMaps(GatherLen) \/ \E k \in Keys : OfSeriesMaps(GatherVisit(k))
  \/ OfSeriesMaps(GatherLoad) \/ OfSeriesMaps(GatherEnd)
  \/ OfSeriesMaps(GatherReturn)

SpanPart ==
  \/ \E list \in Lists : OfSpan(SetAttributes(list))
  \/ \E m \in {0, 2} : OfSpan(AddEvent(m)) \/ OfSpan(AddLink(m))
  \/ \E code \in 0..2 : OfSpan(SetStatus(code, "text"))
  \/ \E e \in Enders : OfSpan(EndLocked(e)) \/ OfSpan(EndRelocked(e)) \/ OfSpan(HandOver(e))
  \/ OfSpan(SpanOver)

RecordPart ==
  \/ \E list \in RecordLists : OfRecord(AddAttributes(list)) \/ OfRecord(SetAll(list))
  \/ \E keys \in SUBSET {MessageKey, TypeKey} : OfRecord(Derive(keys))
  \/ OfRecord(RecordOver)

QueuePart ==
  \/ \E r \in Records : OfQueue(Enqueue(r))
  \/ \E m \in 0..Capacity : OfQueue(Dequeue(m))
  \/ OfQueue(Flush) \/ OfQueue(Close)

SetPart == OfSet(SetStep) \/ OfSet(SetOver)

TraceStatePart ==
  \/ \E k \in MemberKeys : OfTraceState(Delete(k))
  \/ \E k \in MemberKeys, v \in MemberValues : OfTraceState(Insert(k, v))
  \/ OfTraceState(TraceStateOver)

TracePart ==
  \/ OfTrace(PassThrough) \/ OfTrace(ServeNoop)
  \/ \E choice \in BOOLEAN :
       \/ OfTrace(Serve(choice)) \/ OfTrace(StartInside(choice))
       \/ OfTrace(Call(choice)) \/ OfTrace(CallNoop(choice))
  \/ OfTrace(LoseParent) \/ OfTrace(FutureVersion) \/ OfTrace(ReservedFlag)
  \/ OfTrace(TraceOver)

ExchangePart ==
  \/ OfExchange(ServeHTTP) \/ OfExchange(HandlerReturns) \/ OfExchange(HandlerPanics)
  \/ \E code \in Codes : OfExchange(WriteHeader(code))
  \/ \E accepted \in {0, 1} : OfExchange(WriteByte(accepted))
  \/ OfExchange(FlushResponse) \/ OfExchange(ReadFrom) \/ OfExchange(ReadRequest)
  \/ OfExchange(RoundTrip) \/ OfExchange(ReadBody)
  \/ \E ok \in BOOLEAN : OfExchange(GetBody(ok))
  \/ OfExchange(TripFails) \/ OfExchange(TripReturns)
  \/ OfExchange(BodyError) \/ OfExchange(BodyOver) \/ OfExchange(ExchangeOver)

SlogPart ==
  \/ \E h \in DOMAIN handlers :
       \/ \E list \in GivenTo[Len(handlers)] : OfSlog(WithAttrs(h, list))
       \/ OfSlog(WithGroup(h, GroupName[Len(handlers)]))
       \/ \E e \in Logs : \E own \in OwnOf[e] : OfSlog(Handle(e, h, own))
  \/ \E e \in Logs : OfSlog(AppendLevel(e)) \/ OfSlog(CopyLevel(e))
  \/ OfSlog(SlogOver)

ResourcePart == OfResource(ResourceOver) \/ \E f \in Findings : OfResource(Detect(f))

DataNext ==
  \/ HistogramNext \/ SeriesMapsNext \/ SpanPart \/ RecordPart \/ QueuePart
  \/ SetPart \/ TraceStatePart
  \/ TracePart \/ ExchangePart \/ SlogPart \/ ResourcePart

DataSpec == DataInit /\ [][DataNext]_dataVars
=============================================================================
