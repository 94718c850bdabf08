----------------------------- MODULE HTTPExchange -----------------------------
(***************************************************************************)
(* One HTTP exchange that otelhttp measures at both ends: the transport of *)
(* the client (transport.go), with the wrappers it puts around the bodies, *)
(* and the middleware of the server (handler.go), with the wrapper around  *)
(* the ResponseWriter.  net/http between them and below them is external.  *)
(* Each operation of a wrapper runs under its mutex.                       *)
(***************************************************************************)
EXTENDS Integers, Sequences

CONSTANTS
  Codes,     (* the status codes a handler may write                       *)
  MaxWrites, (* bound on the calls the handler makes                       *)
  MaxReads,  (* bound on the reads of a request body, and of a response    *)
  MaxTries   (* bound on the attempts of the transport below               *)

(* net/http panics on a status code that is not in this range.             *)
StatusCodes == 100..999
ASSUME ExchangeAssumption == Codes \subseteq StatusCodes

VARIABLES
  wrapper,   (* RespWriterWrapper: wroteHeader, statusCode and written     *)
  sent,      (* net/http: the status sent, 0 if none, the bytes of the     *)
             (* response, and whether any came through ReadFrom            *)
  serving,   (* "no", "handling", "returned" or "panicked"                 *)
  taken,     (* BodyWrapper.read in the server                             *)
  served,    (* what the middleware reported: <<>> or <<report>>           *)
  writes,    (* the number of calls the handler made                       *)
  trip,      (* RoundTrip: "no", "sending", "failed" or "returned"         *)
  reads,     (* BodyWrapper.read of each body the client sent              *)
  lastBW,    (* which of them lastBW is, 0 if it is nil                    *)
  refused,   (* GetBody has failed                                         *)
  clientSpan,(* the span of the client: open, and its status               *)
  measured,  (* the metrics of the client: <<>> or <<report>>              *)
  trouble,   (* history: what went wrong before the span of the client     *)
             (* ended                                                      *)
  sized      (* history: the bytes of the last attempt when RoundTrip      *)
             (* returned                                                   *)

serverVars == <<wrapper, sent, serving, taken, served, writes>>
clientVars == <<trip, reads, lastBW, refused, clientSpan, measured, trouble, sized>>
exchangeVars == <<serverVars, clientVars>>

ExchangeInit ==
  /\ wrapper = [wrote |-> FALSE, code |-> 200, size |-> 0]
  /\ sent = [code |-> 0, size |-> 0, bypassed |-> FALSE]
  /\ serving = "no" /\ taken = 0 /\ served = <<>> /\ writes = 0
  /\ trip = "no" /\ reads \in {<<>>, <<0>>} /\ lastBW = Len(reads) /\ refused = FALSE
  /\ clientSpan = [open |-> TRUE, status |-> "Unset"]
  /\ measured = <<>> /\ trouble = FALSE /\ sized = 0

-----------------------------------------------------------------------------
(* net/http: the first status that is not informational is sent, later     *)
(* ones are ignored; writing sends 200 if none was.                        *)
Informational(code) == code \in 100..199 /\ code # 101

StatusSent(code) == IF sent.code # 0 \/ Informational(code) THEN sent.code ELSE code
ImplicitlySent == IF sent.code = 0 THEN 200 ELSE sent.code

(* writeHeader of the wrapper, which passes every call on.                 *)
Header_Informational(code) == [wrapper EXCEPT !.wrote = TRUE, !.code = code]
Header(code) ==
  IF wrapper.wrote \/ Informational(code) THEN wrapper
  ELSE [wrapper EXCEPT !.wrote = TRUE, !.code = code]

Handling ==
  /\ serving = "handling" /\ writes < MaxWrites
  /\ writes' = writes + 1
  /\ UNCHANGED <<serving, served, clientVars>>

WriteHeader(code) ==
  /\ Handling
  /\ wrapper' = Header(code)
  /\ sent' = [sent EXCEPT !.code = StatusSent(code)]
  /\ UNCHANGED taken

(* Write of one byte, which the connection may refuse.                     *)
WriteByte(accepted) ==
  /\ Handling
  /\ wrapper' = [Header(200) EXCEPT !.size = @ + accepted]
  /\ sent' = [sent EXCEPT !.code = ImplicitlySent, !.size = @ + accepted]
  /\ UNCHANGED taken

FlushResponse ==
  /\ Handling
  /\ wrapper' = Header(200)
  /\ sent' = [sent EXCEPT !.code = ImplicitlySent]
  /\ UNCHANGED taken

(* httpsnoop offers ReadFrom where the ResponseWriter has it, and the      *)
(* middleware has no hook for it.                                          *)
ReadFrom ==
  /\ Handling
  /\ sent' = [code |-> ImplicitlySent, size |-> sent.size + 1, bypassed |-> TRUE]
  /\ UNCHANGED <<wrapper, taken>>

ReadRequest ==
  /\ Handling
  /\ reads # <<>> /\ taken < reads[Len(reads)]
  /\ taken' = taken + 1
  /\ UNCHANGED <<wrapper, sent>>

ServeHTTP ==
  /\ trip = "sending" /\ serving = "no"
  /\ serving' = "handling"
  /\ UNCHANGED <<wrapper, sent, taken, served, writes, clientVars>>

ServerStatus(code) == IF code < 100 \/ code >= 500 THEN "Error" ELSE "Unset"

HandlerReturns ==
  /\ serving = "handling"
  /\ serving' = "returned"
  /\ served' = <<[code |-> wrapper.code, size |-> wrapper.size, read |-> taken,
                  status |-> ServerStatus(wrapper.code)]>>
  /\ sent' = [sent EXCEPT !.code = ImplicitlySent]
  /\ UNCHANGED <<wrapper, taken, writes, clientVars>>

(* The deferred calls end the span and restore the body, without a report. *)
HandlerPanics ==
  /\ serving = "handling"
  /\ serving' = "panicked"
  /\ UNCHANGED <<wrapper, sent, taken, served, writes, clientVars>>

-----------------------------------------------------------------------------
RoundTrip ==
  /\ trip = "no"
  /\ trip' = "sending"
  /\ UNCHANGED <<serverVars, reads, lastBW, refused, clientSpan, measured, trouble, sized>>

(* The transport below reads the body it has, also after it has returned.  *)
ReadBody ==
  /\ trip # "no" /\ reads # <<>> /\ ~refused
  /\ reads[Len(reads)] < MaxReads
  /\ reads' = [reads EXCEPT ![Len(reads)] = @ + 1]
  /\ UNCHANGED <<serverVars, trip, lastBW, refused, clientSpan, measured, trouble, sized>>

(* It tries again with another body from GetBody, or cannot get one.       *)
Again_FirstBody(ok) == lastBW
Again(ok) == IF ok THEN Len(reads) + 1 ELSE 0

GetBody(ok) ==
  /\ trip = "sending" /\ reads # <<>> /\ ~refused /\ serving = "no"
  /\ Len(reads) < MaxTries
  /\ lastBW' = Again(ok)
  /\ reads' = IF ok THEN Append(reads, 0) ELSE reads
  /\ refused' = ~ok
  /\ UNCHANGED <<serverVars, trip, clientSpan, measured, trouble, sized>>

Measured(code) == <<[code |-> code, size |-> IF lastBW = 0 THEN 0 ELSE reads[lastBW]]>>

SizeOfLastTry == IF reads = <<>> \/ refused THEN 0 ELSE reads[Len(reads)]

(* SetStatus and End of the span: nothing changes once it has ended, and   *)
(* an error is not taken back.                                             *)
WithStatus(s, status) == IF s.open /\ s.status = "Unset" THEN [s EXCEPT !.status = status] ELSE s
Ended(s) == [s EXCEPT !.open = FALSE]

ClientStatus(code) == IF code < 100 \/ code >= 400 THEN "Error" ELSE "Unset"

(* RoundTrip ends with an error, or with a response that                   *)
(* ensureResponseBody takes for one.                                       *)
TripFails ==
  /\ trip = "sending"
  /\ trip' = "failed"
  /\ measured' = Measured(0)
  /\ sized' = SizeOfLastTry
  /\ clientSpan' = Ended(WithStatus(clientSpan, "Error"))
  /\ trouble' = TRUE
  /\ UNCHANGED <<serverVars, reads, lastBW, refused>>

TripReturns ==
  /\ trip = "sending" /\ ~refused
  /\ sent.code # 0
  /\ trip' = "returned"
  /\ measured' = Measured(sent.code)
  /\ sized' = SizeOfLastTry
  /\ clientSpan' = WithStatus(clientSpan, ClientStatus(sent.code))
  /\ trouble' = (ClientStatus(sent.code) = "Error")
  /\ UNCHANGED <<serverVars, reads, lastBW, refused>>

(* wrappedBody: Read of some bytes changes nothing.                        *)
UsesResponse ==
  /\ trip = "returned"
  /\ UNCHANGED <<serverVars, trip, reads, lastBW, refused, measured, sized>>

BodyError ==
  /\ UsesResponse
  /\ clientSpan' = WithStatus(clientSpan, "Error")
  /\ trouble' = (trouble \/ clientSpan.open)

(* Read of the end of the body, or Close.                                  *)
BodyOver ==
  /\ UsesResponse
  /\ clientSpan' = Ended(clientSpan)
  /\ UNCHANGED trouble

ExchangeOver ==
  /\ trip \in {"failed", "returned"} /\ serving # "handling"
  /\ UNCHANGED exchangeVars

ExchangeNext ==
  \/ ServeHTTP \/ HandlerReturns \/ HandlerPanics
  \/ \E code \in Codes : WriteHeader(code)
  \/ \E accepted \in {0, 1} : WriteByte(accepted)
  \/ FlushResponse \/ ReadFrom \/ ReadRequest
  \/ RoundTrip \/ ReadBody \/ \E ok \in BOOLEAN : GetBody(ok)
  \/ TripFails \/ TripReturns \/ BodyError \/ BodyOver
  \/ ExchangeOver

-----------------------------------------------------------------------------
(* The server reports the status and the size that were really sent, and   *)
(* so both ends report the same status, whatever the handler calls in      *)
(* which order and whenever the client gets the response; only what went   *)
(* past the wrapper is missing.  The client reports the bytes of its last  *)
(* attempt, none if it could not make one, and its span has an error       *)
(* exactly if something failed before it ended.                            *)
ExchangeReported ==
  /\ served # <<>> =>
       /\ served[1].size <= sent.size /\ served[1].read = taken
       /\ ~sent.bypassed =>
            /\ served[1].code = sent.code /\ served[1].size = sent.size
            /\ served[1].status = "Error" <=> sent.code >= 500
            /\ trip = "returned" => measured[1].code = served[1].code
  /\ measured # <<>> => measured[1].size = sized
  /\ trip \in {"failed", "returned"} => (clientSpan.status = "Error" <=> trouble)
  /\ trip = "failed" => ~clientSpan.open

-----------------------------------------------------------------------------
(* Why: the wrapper follows what was sent, as long as nothing bypasses it; *)
Wrappers == [wrote : BOOLEAN, code : StatusCodes, size : Nat]
Responses == [code : {0} \union StatusCodes, size : Nat, bypassed : BOOLEAN]
ClientSpans == [open : BOOLEAN, status : {"Unset", "Error"}]

ExchangeTypeOK ==
  /\ wrapper \in Wrappers /\ sent \in Responses
  /\ serving \in {"no", "handling", "returned", "panicked"} /\ taken \in Nat
  /\ trip \in {"no", "sending", "failed", "returned"} /\ reads \in Seq(Nat)
  /\ refused \in BOOLEAN
  /\ clientSpan \in ClientSpans
  /\ trouble \in BOOLEAN

WrapperFollows ==
  /\ wrapper.size <= sent.size
  /\ ~sent.bypassed =>
       /\ wrapper.size = sent.size
       /\ wrapper.wrote => sent.code = wrapper.code
       /\ ~wrapper.wrote => wrapper.code = 200 /\ sent.code \in {0, 200}
       /\ ~wrapper.wrote /\ serving \in {"no", "handling"} => sent.code = 0

(* the server reports it when the handler has returned;                    *)
ServedIs ==
  served = IF serving = "returned"
             THEN <<[code |-> wrapper.code, size |-> wrapper.size, read |-> taken,
                     status |-> ServerStatus(wrapper.code)]>>
             ELSE <<>>

SentOnReturn == serving = "returned" => sent.code # 0

(* the client reports the last of its bodies;                              *)
LastIsLast == lastBW = IF refused THEN 0 ELSE Len(reads)

MeasuredIs ==
  IF trip \in {"failed", "returned"}
    THEN measured # <<>> /\ measured[1].size = sized
         /\ (trip = "returned" => sent.code # 0 /\ measured[1].code = sent.code)
    ELSE measured = <<>>

(* and its span is open until there is a response or an error.             *)
SpanTrue ==
  /\ trip \in {"no", "sending"} => clientSpan.open /\ clientSpan.status = "Unset"
  /\ trip = "failed" => ~clientSpan.open
  /\ trip \in {"failed", "returned"} => (clientSpan.status = "Error" <=> trouble)

ExchangeIInv ==
  /\ ExchangeTypeOK /\ WrapperFollows /\ ServedIs /\ SentOnReturn /\ LastIsLast
  /\ MeasuredIs /\ SpanTrue

ExchangeSpec == ExchangeInit /\ [][ExchangeNext]_exchangeVars
=============================================================================
