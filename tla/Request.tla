------------------------------ MODULE Request ------------------------------
(***************************************************************************)
(* One request, from its headers to its row in the ledger: handle_generate *)
(* and handle_multipart_adapter (src/src/handlers.rs), authorize_key       *)
(* (src/src/auth.rs), proxy_forward with its responses and the             *)
(* CompletionReporter (src/src/proxy/mod.rs).                              *)
(*                                                                         *)
(* The request runs beside its client, which may leave at any time, the    *)
(* upstream, which may do anything, and reloads of the configuration.  Its *)
(* task is the handler, then the spawned pump of a streamed response.      *)
(* Between two awaits a task runs undisturbed; at an await the server may  *)
(* drop the handler of a client that has left, and everything it owns.     *)
(* What the stores do inside is the business of BudgetStore, BackendPool   *)
(* and Ledger: here they grant or refuse.                                  *)
(***************************************************************************)
EXTENDS BridgeRequest, BridgeStream

CONSTANTS
  Backends,
  Requests,   \* what a client may send
  Configs,    \* the snapshots the router may hold; another at every load
  Documents,  \* what the upstream may answer in one document
  MaxLines,   \* lines of a streamed answer (bound)
  Usage,      \* tokens an upstream reports
  Estimate    \* estimated_input_tokens.max(1)

\* The rows of the ledger, as far as they tell how a request ended.
Rows == [tokens : Nat, estimated : BOOLEAN, aborted : BOOLEAN, error : BOOLEAN]

\* What a handler may return.
Answers == {"4xx", "5xx", "dead", "body", "stream"}

ASSUME RequestAssumptions ==
  /\ MaxLines \in Nat /\ Usage \in Nat /\ Estimate \in Nat \ {0}
  /\ None \notin Rows \cup Nat \cup Answers
  /\ Documents \subseteq Seq(Parts)

VARIABLES
  req,          \* the request
  held,         \* the snapshot the handler works with
  pc,           \* where the task is
  body,         \* the request body: "unread", "candidate", "buffered",
                \* "streaming" or "gone"
  reservation,  \* "none", "held", "committed" or "rolledback"
  slot,         \* the ConcurrencyGuard
  charge,       \* what the reservation was committed with
  lease, tried, \* the BackendLease, and the backends tried
  resp,         \* the upstream's response
  lines, tail,  \* the lines the pump has seen, and the unfinished one
  tap,          \* has SseUsageTap seen the usage?
  t,            \* the SseTranslator
  class,        \* the pump's error_class
  chan,         \* messages in the channel to the client
  client,       \* "there" or "gone"
  answer,       \* what the handler returned
  row           \* the row of the ledger

handler == <<req, held, body, tried>>
money == <<reservation, slot, charge, row>>
pump == <<lines, tail, tap, t, class, chan>>
vars == <<handler, money, pump, pc, lease, resp, client, answer>>

Goto(label) == pc' = label

(***************************************************************************)
(* Checks of the handlers                                                  *)
(***************************************************************************)

\* authorize_key; the team of a key, "enabled" or not, may be missing.
AuthorizeKey(c) ==
  c.key # None /\ c.key.enabled /\ c.key.team = "enabled" /\ ~c.key.expired

Refs(route) == route.ids \cup (IF route.fallback = None THEN {} ELSE {route.fallback})

\* Names of backends; the snapshot may know nothing of them.
ASSUME RouteAssumptions ==
  \A c \in Configs : c.route = None \/ Refs(c.route) \subseteq Backends

Usable(c, b) == c.backends[b] # None /\ c.backends[b].enabled

\* The Claude bridge serves /v1/messages on a chat route.
IsBridge(c) == req.path = "messages" /\ c.route.bridge /\ c.route.shape = "chat"
Bridge == held # None /\ held.route # None /\ IsBridge(held)

\* model_allowed, the route and its backends, the path.
Accepts(c) ==
  /\ c.key.allowed
  /\ c.route # None /\ c.route.enabled
  /\ \E b \in Refs(c.route) : Usable(c, b)
  /\ IsBridge(c) \/ c.route.shape = req.path

\* The proxy never changes the bytes of a body it streams.
AllowStreamingUpload(c) ==
  /\ ~IsBridge(c) /\ ~c.route.group /\ ~c.route.rewrite
  /\ Cardinality(c.route.ids) = 1 /\ c.route.fallback = None

(***************************************************************************)
(* Ends                                                                    *)
(***************************************************************************)

\* Drop of the reservation, the guard and the lease.
Unwind ==
  /\ reservation' = IF reservation = "held" THEN "rolledback" ELSE reservation
  /\ slot' = FALSE
  /\ lease' = None

\* The handler returns an answer of its own.
Return(what) ==
  /\ Goto("done")
  /\ answer' = what
  /\ Unwind
  /\ UNCHANGED <<charge, row>>

\* Mutant of Finish: only a request with usage is committed.
FinishUsageOnly(seen, aborted, error) ==
  /\ Goto("done")
  /\ reservation' = IF seen THEN "committed" ELSE "rolledback"
  /\ charge' = IF seen THEN Usage ELSE 0
  /\ slot' = FALSE
  /\ lease' = None
  /\ row' = [tokens |-> IF seen THEN Usage ELSE Estimate, estimated |-> ~seen,
             aborted |-> aborted, error |-> error]

\* CompletionReporter::finish, then the end of its owner.
Finish(seen, aborted, error) ==
  LET tokens == IF seen THEN Usage ELSE Estimate
  IN /\ Goto("done")
     /\ reservation' = "committed"
     /\ charge' = tokens
     /\ slot' = FALSE
     /\ lease' = None
     /\ row' = [tokens |-> tokens, estimated |-> ~seen, aborted |-> aborted,
                error |-> error]

(***************************************************************************)
(* The handler                                                             *)
(***************************************************************************)

Authorize ==
  /\ pc = "auth"
  /\ held' \in Configs
  /\ IF AuthorizeKey(held')
     THEN Goto("read") /\ UNCHANGED <<money, lease, answer>>
     ELSE Return("4xx")
  /\ UNCHANGED <<req, body, tried, pump, resp, client>>

\* Mutant of ReadIncomingBody: any large request is a candidate.
ReadAnyLarge ==
  /\ pc = "read"
  /\ body' = IF req.large THEN "candidate" ELSE "buffered"
  /\ Goto("route")
  /\ UNCHANGED <<req, held, tried, money, pump, lease, resp, client, answer>>

\* A large request that says stream=false early on may be passed on unread.
ReadIncomingBody ==
  /\ pc = "read"
  /\ body' \in IF req.large /\ ~req.stream /\ req.path # "audio"
               THEN {"candidate", "buffered"} ELSE {"buffered"}
  /\ Goto("route")
  /\ UNCHANGED <<req, held, tried, money, pump, lease, resp, client, answer>>

\* The rest of a candidate has to be read after all.
Collects == pc = "body" /\ body = "candidate" /\ ~AllowStreamingUpload(held)

\* Too large, not JSON, or the connection broke: before or after the route is
\* known.
BodyReadError ==
  /\ pc = "read" \/ Collects
  /\ Return("4xx")
  /\ UNCHANGED <<handler, pump, resp, client>>

CheckRoute ==
  /\ pc = "route"
  /\ IF Accepts(held)
     THEN Goto("body") /\ UNCHANGED <<money, lease, answer>>
     ELSE Return("4xx")
  /\ UNCHANGED <<handler, pump, resp, client>>

\* into_proxy_body
IntoProxyBody ==
  /\ pc = "body"
  /\ body' = IF body = "candidate" /\ AllowStreamingUpload(held)
             THEN "streaming" ELSE "buffered"
  /\ Goto(IF Bridge THEN "translate" ELSE "rewrite")
  /\ UNCHANGED <<req, held, tried, money, pump, lease, resp, client, answer>>

\* anthropic_to_openai, and its estimate of the tokens.
TranslateRequest ==
  /\ pc = "translate"
  /\ CASE body = "streaming" -> Return("dead") /\ UNCHANGED req
       [] body # "streaming" /\ ~Translatable(req.conv) -> Return("4xx") /\ UNCHANGED req
       [] OTHER -> /\ req' = [req EXCEPT !.conv = AnthropicToOpenAi(@)]
                   /\ Goto("rewrite")
                   /\ UNCHANGED <<money, lease, answer>>
  /\ UNCHANGED <<held, body, tried, pump, resp, client>>

\* The body for the provider, unless the endpoint decides: it may not parse.
RewriteBody ==
  /\ pc = "rewrite"
  /\ \/ Goto("reserve") /\ UNCHANGED <<money, lease, answer>>
     \/ /\ body = "buffered" /\ held.route.rewrite
        /\ ~held.route.group \/ req.path = "audio"
        /\ Return("4xx")
     \/ body = "streaming" /\ (held.route.rewrite \/ held.route.group) /\ Return("dead")
  /\ UNCHANGED <<handler, pump, resp, client>>

Reserve ==
  /\ pc = "reserve"
  /\ \/ /\ reservation' = "held"
        /\ Goto("slot")
        /\ UNCHANGED <<slot, charge, row, lease, answer>>
     \/ Return("4xx")
  /\ UNCHANGED <<handler, pump, resp, client>>

AcquireConcurrency ==
  /\ pc = "slot"
  /\ \/ /\ slot' = TRUE
        /\ Goto("choose")
        /\ UNCHANGED <<reservation, charge, row, lease, answer>>
     \/ Return("4xx")
  /\ UNCHANGED <<handler, pump, resp, client>>

(***************************************************************************)
(* proxy_forward                                                           *)
(***************************************************************************)

\* acquire_excluding: a backend of the route not tried yet.  The lease of an
\* attempt that got an error status is dropped only now.
AcquireExcluding ==
  /\ pc = "choose"
  /\ \E b \in Refs(held.route) \ tried : lease' = b /\ tried' = tried \cup {b}
  /\ resp' = None
  /\ Goto("lookup")
  /\ UNCHANGED <<req, held, body, money, pump, client, answer>>

\* No backend is left that is healthy and has room: an error, unless there is
\* an error status to pass on.
NoBackend ==
  /\ pc = "choose"
  /\ IF resp = None
     THEN Return("5xx")
     ELSE Goto("respond") /\ UNCHANGED <<money, lease, answer>>
  /\ UNCHANGED <<handler, pump, resp, client>>

CounterUnavailable ==
  /\ pc = "choose"
  /\ Return("5xx")
  /\ UNCHANGED <<handler, pump, resp, client>>

\* The backend as it is configured now, and the body for this attempt.
PrepareAttempt ==
  /\ pc = "lookup"
  /\ \E now \in Configs :
     CASE ~Usable(now, lease) -> Return("5xx") /\ UNCHANGED body
       [] Usable(now, lease) /\ Bridge /\ now.backends[lease].format # "openai" ->
            Return("5xx") /\ UNCHANGED body
       [] OTHER ->
            \/ body = "gone" /\ Return("dead") /\ UNCHANGED body
            \/ body = "streaming" /\ req.stream /\ Return("dead") /\ UNCHANGED body
            \/ /\ body = "buffered" /\ held.route.group /\ req.path # "audio"
               /\ Return("4xx") /\ UNCHANGED body
            \/ /\ body = "buffered" \/ (body = "streaming" /\ ~req.stream)
               /\ body' = IF body = "streaming" THEN "gone" ELSE body
               /\ Goto("send")
               /\ UNCHANGED <<money, lease, answer>>
  /\ UNCHANGED <<req, held, tried, pump, resp, client>>

\* A body that was streamed cannot be sent again.
Replayable == body = "buffered"

\* The request cannot be built, the connection fails, or the first byte does
\* not come in time: the lease is dropped and another backend tried.
AttemptFails ==
  /\ pc = "send"
  /\ IF Replayable
     THEN Goto("choose") /\ lease' = None /\ UNCHANGED <<money, answer>>
     ELSE Return("5xx")
  /\ UNCHANGED <<handler, pump, resp, client>>

\* The head of a response: 5xx and 429 are worth another attempt.
ResponseArrives ==
  /\ pc = "send"
  /\ \E status \in {"ok", "refused", "retryable"}, json, small \in BOOLEAN :
       /\ resp' = [status |-> status, json |-> json, small |-> small]
       /\ Goto(IF status = "retryable" /\ Replayable THEN "choose" ELSE "respond")
  /\ UNCHANGED <<handler, money, pump, lease, client, answer>>

\* forward_backend_response and forward_bridge_response: read it all first, or
\* hand it to the pump, and return.
Buffers ==
  IF Bridge THEN resp.status # "ok" \/ ~req.stream \/ resp.json
            ELSE ~req.stream /\ resp.small

ForwardResponse ==
  /\ pc = "respond"
  /\ IF Buffers THEN Goto("buffer") /\ UNCHANGED <<answer, resp, tried>>
                ELSE Goto("next") /\ answer' = "stream" /\ resp' = None /\ tried' = {}
  /\ UNCHANGED <<req, held, body, money, pump, lease, client>>

(***************************************************************************)
(* A buffered response                                                     *)
(***************************************************************************)

\* The body has come.  The bridge translates it, or reports its error.
BodyArrives ==
  /\ pc = "buffer"
  /\ \E doc \in Documents, usage \in BOOLEAN :
       LET content == BuildMessage(doc)
       IN CASE ~Bridge ->
                 Finish(usage, FALSE, FALSE) /\ answer' = "body" /\ UNCHANGED t
            [] Bridge /\ resp.status # "ok" ->
                 Finish(FALSE, FALSE, TRUE) /\ answer' = "body" /\ UNCHANGED t
            [] Bridge /\ resp.status = "ok" /\ content = None ->
                 Finish(usage, FALSE, TRUE) /\ answer' = "5xx" /\ UNCHANGED t
            [] OTHER ->
                 /\ Finish(usage, FALSE, FALSE)
                 /\ answer' = "body"
                 /\ t' = IF req.stream
                         THEN [t EXCEPT !.out = MessageToSse(content), !.finished = TRUE]
                         ELSE t
  /\ UNCHANGED <<handler, lines, tail, tap, class, chan, resp, client>>

\* It breaks off, or is too large for the bridge.
BodyFails ==
  /\ pc = "buffer"
  /\ Finish(FALSE, FALSE, TRUE)
  /\ answer' = IF Bridge /\ resp.status # "ok" THEN "body" ELSE "5xx"
  /\ UNCHANGED <<handler, pump, resp, client>>

(***************************************************************************)
(* The pump                                                                *)
(***************************************************************************)

\* SseUsageTap::feed looks at every complete line, and parse_usage_from_body
\* at the whole body.  A line counts that begins with `data:` and has both
\* counts.
Tapped(seen, chunk) == seen \/ \E i \in DOMAIN chunk : chunk[i] \in TapUsage

\* Mutant of TapFinish: the last line is lost.
TapFinishNoTail(seen, rest) == seen

\* SseUsageTap::finish
TapFinish(seen, rest) == seen \/ rest \in TapUsage

\* The pump's loop is over.  A document that is passed on is parsed in the end;
\* one that is too large for that, or cut short, tells nothing.
Report(seen, aborted, error) ==
  \E usage \in IF req.stream THEN {seen} ELSE {seen, FALSE} :
    Finish(usage, aborted, error)

\* send().await: an error if the client has left; otherwise the message is
\* queued, and the pump waits while the channel is beyond its buffer.
Send(label) ==
  /\ client = "there"
  /\ chan' = chan + 1
  /\ Goto(label)
  /\ UNCHANGED <<money, lease>>

\* The lines an upstream may send: a pump without a translator only looks for
\* the usage.
Lines == IF Bridge THEN LineKinds ELSE {"text", "partial", "usage"}

\* A chunk ends the unfinished line, brings others, and may begin one more.
ChunkArrives ==
  /\ pc = "next"
  /\ \E new \in UNION {[1..n -> Lines] : n \in 0..2}, rest \in Lines \cup {None} :
       LET chunk == (IF tail = None THEN <<>> ELSE <<tail>>) \o new
           total == lines \o chunk
       IN /\ chunk # <<>> \/ rest # None
          /\ Len(total) + (IF rest = None THEN 0 ELSE 1) <= MaxLines
          /\ lines' = total
          /\ tail' = rest
          /\ tap' = Tapped(tap, chunk)
          /\ t' = IF Bridge THEN Feed(t, chunk, rest) ELSE t
          /\ \/ /\ Bridge /\ t'.out = t.out
                /\ UNCHANGED <<pc, chan, money, lease>>
             \/ /\ Bridge => t'.out # t.out
                /\ Send("flush")
             \/ /\ Bridge => t'.out # t.out
                /\ client = "gone"
                /\ Report(TapFinish(tap', rest), TRUE, t'.error # None)
                /\ UNCHANGED chan
  /\ UNCHANGED <<handler, class, resp, client, answer>>

\* Mutant of Flushed: the pump does not wait for a slow client.
FlushedEarly ==
  /\ pc = "flush"
  /\ IF Bridge /\ t.finished
     THEN Report(TapFinish(tap, tail), FALSE, t.error # None)
     ELSE Goto("next") /\ UNCHANGED <<money, lease>>
  /\ UNCHANGED <<handler, pump, resp, client, answer>>

\* The end of a send: there is room again, or nobody to read.
Flushed ==
  /\ pc = "flush" /\ (chan <= 1 \/ client = "gone")
  /\ IF Bridge /\ t.finished
     THEN Report(TapFinish(tap, tail), FALSE, t.error # None)
     ELSE Goto("next") /\ UNCHANGED <<money, lease>>
  /\ UNCHANGED <<handler, pump, resp, client, answer>>

\* The loop ends; the translator says so to the client, if it still can.
EndStream(translator, error) ==
  /\ class' = error
  /\ t' = IF Bridge THEN translator ELSE t
  /\ IF Bridge /\ client = "there"
     THEN chan' = chan + 1 /\ Goto("last") /\ UNCHANGED <<money, lease>>
     ELSE /\ Report(TapFinish(tap, tail'), FALSE, error # None \/ t'.error # None)
          /\ UNCHANGED chan

\* The upstream closes the stream, perhaps in the middle of a line.
StreamEnds ==
  /\ pc = "next"
  /\ \E rest \in IF tail = None THEN {None} ELSE {tail, "junk", None} :
       /\ tail' = rest
       /\ EndStream(FinishStream(t, rest), None)
  /\ UNCHANGED <<handler, lines, tap, resp, client, answer>>

StreamFails ==
  /\ pc = "next"
  /\ UNCHANGED tail
  /\ EndStream(Abort(t), "read failed")
  /\ UNCHANGED <<handler, lines, tap, resp, client, answer>>

\* Mutant of IdleTimeout: the pump goes on waiting.
IdleTimeoutIgnored == pc = "next" /\ UNCHANGED vars

\* Nothing came for 60 seconds.
IdleTimeout ==
  /\ pc = "next"
  /\ UNCHANGED tail
  /\ EndStream(Abort(t), "idle timeout")
  /\ UNCHANGED <<handler, lines, tap, resp, client, answer>>

LastFlushed ==
  /\ pc = "last" /\ (chan <= 1 \/ client = "gone")
  /\ Report(TapFinish(tap, tail), FALSE, class # None \/ t.error # None)
  /\ UNCHANGED <<handler, pump, resp, client, answer>>

(***************************************************************************)
(* The client, the server and the configuration                            *)
(***************************************************************************)

ClientReads ==
  /\ client = "there" /\ chan > 0
  /\ chan' = chan - 1
  /\ UNCHANGED <<handler, money, lines, tail, tap, t, class, pc, lease, resp,
                 client, answer>>

ClientLeaves ==
  /\ client = "there" /\ pc # "done"
  /\ client' = "gone"
  /\ UNCHANGED <<handler, money, pump, pc, lease, resp, answer>>

\* The awaits of the handler.
AtAwait == pc \in {"read", "choose", "send", "buffer"} \/ Collects

\* The server drops the handler of a client that has left; the reporter, if
\* there is one, rolls back and leaves a row (Drop for CompletionReporter).
DropHandler ==
  /\ client = "gone" /\ AtAwait
  /\ Goto("done")
  /\ Unwind
  /\ row' = IF pc = "buffer"
            THEN [tokens |-> 0, estimated |-> TRUE, aborted |-> TRUE, error |-> TRUE]
            ELSE row
  /\ UNCHANGED <<charge, handler, pump, resp, client, answer>>

(***************************************************************************)
(* The specification                                                       *)
(***************************************************************************)

Init ==
  /\ req \in Requests /\ held = None
  /\ pc = "auth" /\ body = "unread"
  /\ reservation = "none" /\ slot = FALSE /\ charge = 0 /\ row = None
  /\ lease = None /\ tried = {} /\ resp = None
  /\ lines = <<>> /\ tail = None /\ tap = FALSE /\ t = NewTranslator
  /\ class = None /\ chan = 0
  /\ client = "there" /\ answer = None

\* What the task does by itself, the expiry of its timeouts included.
TaskStep ==
  \/ Authorize \/ CheckRoute \/ TranslateRequest \/ RewriteBody
  \/ Reserve \/ AcquireConcurrency
  \/ AcquireExcluding \/ NoBackend \/ CounterUnavailable \/ PrepareAttempt
  \/ AttemptFails \/ ForwardResponse
  \/ Flushed \/ IdleTimeout \/ LastFlushed

\* What it waits for the client to upload.
UploadStep == ReadIncomingBody \/ BodyReadError \/ IntoProxyBody

UpstreamStep ==
  \/ ResponseArrives \/ BodyArrives \/ BodyFails
  \/ ChunkArrives \/ StreamEnds \/ StreamFails

ClientStep == ClientReads \/ ClientLeaves

Done == pc = "done" /\ UNCHANGED vars

Next == TaskStep \/ UploadStep \/ UpstreamStep \/ ClientStep \/ DropHandler \/ Done

Spec == Init /\ [][Next]_vars

\* Tasks are scheduled and timers fire, and the server drops the handler of a
\* client that has left.  Nothing is asked of the upstream, which may stall, nor
\* of the client, which may stay and not read.
Fairness == WF_vars(TaskStep) /\ WF_vars(DropHandler)

FairSpec == Spec /\ Fairness

(***************************************************************************)
(* Properties                                                              *)
(***************************************************************************)

\* Every variable has its type; the channel to the client never holds more than
\* its buffer and the message of its one sender, however slow the client is.
TypeOK ==
  /\ pc \in {"auth", "read", "route", "body", "translate", "rewrite", "reserve", "slot",
            "choose", "lookup", "send", "respond", "buffer", "next", "flush", "last",
            "done"}
  /\ held \in Configs \cup {None}
  /\ body \in {"unread", "candidate", "buffered", "streaming", "gone"}
  /\ reservation \in {"none", "held", "committed", "rolledback"}
  /\ slot \in BOOLEAN /\ charge \in Nat /\ chan \in 0..2
  /\ lease \in Backends \cup {None} /\ tried \subseteq Backends
  /\ tail \in LineKinds \cup {None} /\ tap \in BOOLEAN
  /\ client \in {"there", "gone"}
  /\ row \in Rows \cup {None}
  /\ answer \in Answers \cup {None}

Accounts == INSTANCE Settlement
              WITH row <- IF row = None THEN None ELSE row.tokens

\* Whatever the client, the upstream and the reloads do, the request implements
\* Settlement: its reservation is committed or rolled back once, by finish, by
\* Drop for CompletionReporter or by the Drop of the reservation itself, its slot
\* goes with it, and the budget is charged what the row in the ledger says.
SettledOnce == Accounts!Spec

\* The waits that nothing in the code ends: for the rest of a body that is
\* read as a whole (there is a timeout for connecting and for the first byte
\* only: proxy/mod.rs:1002, 1017 and 1238), and for a client that stays
\* connected and does not read.
Stalled ==
  client = "there" /\ (pc = "buffer" \/ (pc \in {"flush", "last"} /\ chan = 2))

\* In the end the reservation is settled, or the request is in one of those
\* waits for ever: no other state of handler and pump holds a reservation for
\* good, whatever attempts failed before, however the stream broke off and
\* whenever the client left.  (Every stream of the model ends; one that keeps
\* sending holds its reservation as long as it does.)
EventuallySettles == <>[](reservation # "held" \/ Stalled)

\* The answers that handle_generate and proxy_forward keep for a body they cannot
\* send ("request body already consumed", "streaming upload cannot mutate request
\* body", "streaming upload requires no model or adapter body rewrite", "Claude
\* bridge requires a buffered request body") are never given: the checks made
\* before, some of them on another snapshot, exclude them.
NoDeadBranch == answer # "dead"

\* What the bridge has sent at any time is the beginning of a stream that an
\* Anthropic client accepts, whatever lines came in whatever chunks; a
\* stream that has ended was stopped or ended in an error event, and a row without
\* an error goes with a message that was stopped.
StreamWellFormed ==
  /\ Seen(t.out) # "rejected"
  /\ t.finished => Seen(t.out) \in {"stopped", "failed"}
  /\ (pc = "done" /\ Bridge /\ answer = "stream" /\ ~row.aborted /\ ~row.error) =>
       Seen(t.out) = "stopped"

\* What the pump has read, the unfinished line at the end included.
Read == IF tail = None THEN lines ELSE Append(lines, tail)

\* A bridged stream that was stopped carried every piece of text and thinking
\* that came before [DONE], in order and once, the last line without a newline
\* included, and then one tool call for every index that occurred, however its
\* pieces were spread over lines and chunks.  (tool_delta tells calls apart by
\* their index alone: calls that share one, or that have none and stand at the
\* same place of their chunks, are merged, stream.rs:391-397.)
ContentKept ==
  (Bridge /\ answer = "stream" /\ Seen(t.out) = "stopped") =>
    Content(t.out) = Said(Read)

\* A streamed request is charged what the upstream reported if and only if some
\* line had a usage the tap understands: before or after [DONE], in any chunk or
\* in an unfinished last line, and also when the translator gave up, the stream
\* broke off or timed out, or the client left (proxy/mod.rs:564-599).
UsageCounted ==
  (pc = "done" /\ answer = "stream" /\ req.stream) =>
    (row.estimated <=> \A i \in DOMAIN Read : Read[i] \notin TapUsage)

\* A conversation in which Anthropic's rules tie every tool call to its result is
\* translated to one in which OpenAI's rules do.
ToolCallsAnswered ==
  [][pc = "translate" /\ pc' = "rewrite" /\ Paired(req.conv)
       => Answered(req'.conv)]_vars
=============================================================================
