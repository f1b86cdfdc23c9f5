---------------------------- MODULE RequestProofs ----------------------------
(***************************************************************************)
(* Request implements Settlement, for all requests, snapshots, answers,    *)
(* lengths of streams and numbers of tokens.                               *)
(*                                                                         *)
(* The invariant ties what the request owns to where its task is: nothing  *)
(* up to the reservation, reservation and slot from there to the end,      *)
(* nothing afterwards, and no row before the end.  Every end is then a     *)
(* RollBack (Return, DropHandler) or a Commit (Finish).                    *)
(*                                                                         *)
(* The other invariants: Uploads (a body that is passed on is never needed *)
(* again), Types (which of the request's records exist where, and how full *)
(* the channel to the client is) and Streams (what the translator has told *)
(* the client, against the lines that have come), which rests on the       *)
(* lemmas of BridgeStreamProofs about streams of any length.               *)
(***************************************************************************)
EXTENDS Request, BridgeStreamProofs, TLAPS

\* Where the request owns nothing yet, and where it owns everything.
Before == {"auth", "read", "route", "body", "translate", "rewrite", "reserve"}
Serving == {"choose", "lookup", "send", "respond", "buffer", "next", "flush", "last"}

Books ==
  /\ pc \in Before \cup Serving \cup {"slot", "done"}
  /\ pc \in Before => reservation = "none" /\ slot = FALSE /\ charge = 0 /\ row = None
  /\ pc = "slot" => reservation = "held" /\ slot = FALSE /\ charge = 0 /\ row = None
  /\ pc \in Serving => reservation = "held" /\ slot = TRUE /\ charge = 0 /\ row = None
  /\ pc = "done" => reservation # "held" /\ slot = FALSE

\* A step of Request as Settlement sees it.
Settles == [Accounts!Next]_(Accounts!vars)

\* What the task does before its end leaves the books alone.
LEMMA QuietStep ==
  ASSUME Books, UNCHANGED money,
         \/ pc \in Before /\ pc' \in Before
         \/ pc \in Serving /\ pc' \in Serving
         \/ pc' = pc
  PROVE  Books' /\ Settles
<1>1. Books'
  BY DEF Books, money, Before, Serving
<1>2. UNCHANGED Accounts!vars
  BY DEF money, Accounts!vars
<1> QED
  BY <1>1, <1>2 DEF Settles

\* An answer of the handler's own gives back what it holds.
LEMMA ReturnSettles ==
  ASSUME Books, pc # "done", NEW what, Return(what)
  PROVE  Books' /\ Settles
<1>1. Books'
  BY DEF Books, Return, Unwind, Goto, Before, Serving
<1>2. CASE reservation = "held"
  <2>1. Accounts!RollBack
    BY <1>2 DEF Books, Return, Unwind, Accounts!RollBack, Before, Serving
  <2> QED
    BY <1>1, <2>1 DEF Settles, Accounts!Next
<1>3. CASE reservation # "held"
  <2>1. UNCHANGED Accounts!vars
    BY <1>3 DEF Books, Return, Unwind, Accounts!vars, Before, Serving
  <2> QED
    BY <1>1, <2>1 DEF Settles
<1> QED
  BY <1>2, <1>3

\* finish commits what its row says.
LEMMA FinishSettles ==
  ASSUME Books, pc \in Serving,
         NEW seen, NEW aborted \in BOOLEAN, NEW error \in BOOLEAN,
         Finish(seen, aborted, error)
  PROVE  Books' /\ Settles
<1> DEFINE tokens == IF seen THEN Usage ELSE Estimate
<1>1. tokens \in Nat
  BY RequestAssumptions
<1>2. /\ row' \in Rows
      /\ row'.tokens = tokens
      /\ charge' = tokens
  BY <1>1 DEF Finish, Rows
<1>3. row' # None
  BY <1>2, RequestAssumptions
<1>4. Books'
  BY DEF Books, Finish, Goto, Before, Serving
<1>5. Accounts!Commit
  BY <1>1, <1>2, <1>3 DEF Books, Finish, Accounts!Commit, Before, Serving
<1> QED
  BY <1>4, <1>5 DEF Settles, Accounts!Next

\* The report that ends a request settles it once.
LEMMA ReportSettles ==
  ASSUME Books, pc \in Serving,
         NEW seen, NEW aborted \in BOOLEAN, NEW error \in BOOLEAN,
         Report(seen, aborted, error)
  PROVE  Books' /\ Settles
<1>1. PICK usage : Finish(usage, aborted, error)
  BY DEF Report
<1> QED
  BY <1>1, FinishSettles

\* The reporter's or the reservation's drop.
LEMMA DropSettles ==
  ASSUME Books, DropHandler
  PROVE  Books' /\ Settles
<1>1. pc # "done" /\ pc # "slot"
  BY DEF DropHandler, AtAwait, Collects
<1>2. Books'
  BY <1>1 DEF Books, DropHandler, Unwind, Goto, Before, Serving
<1>3. CASE pc \in Serving
  <2>1. [tokens |-> 0, estimated |-> TRUE, aborted |-> TRUE, error |-> TRUE] \in Rows
    BY DEF Rows
  <2>2. \/ row' = None
        \/ row' \in Rows /\ row'.tokens = 0
    BY <1>3, <2>1 DEF Books, DropHandler
  <2>3. Accounts!RollBack
    BY <1>3, <2>2, RequestAssumptions
    DEF Books, DropHandler, Unwind, Accounts!RollBack
  <2> QED
    BY <1>2, <2>3 DEF Settles, Accounts!Next
<1>4. CASE pc \in Before
  <2>1. UNCHANGED Accounts!vars
    BY <1>4 DEF Books, DropHandler, Unwind, Accounts!vars, Before
  <2> QED
    BY <1>2, <2>1 DEF Settles
<1> QED
  BY <1>1, <1>3, <1>4 DEF Books

(***************************************************************************)
(* The steps, one group after the other                                    *)
(***************************************************************************)

\* The handlers, up to the slot.
LEMMA HandlerSettles ==
  ASSUME Books,
         \/ Authorize \/ ReadIncomingBody \/ BodyReadError \/ CheckRoute
         \/ IntoProxyBody \/ TranslateRequest \/ RewriteBody
         \/ Reserve \/ AcquireConcurrency
  PROVE  Books' /\ Settles
<1>1. CASE Authorize
  <2>1. CASE \E what : Return(what)
    BY <1>1, <2>1, ReturnSettles DEF Authorize
  <2>2. CASE Goto("read") /\ UNCHANGED money
    BY <1>1, <2>2, QuietStep DEF Authorize, Goto, Before
  <2> QED
    BY <1>1, <2>1, <2>2 DEF Authorize
<1>2. CASE ReadIncomingBody
  BY <1>2, QuietStep DEF ReadIncomingBody, Goto, Before
<1>3. CASE BodyReadError
  BY <1>3, ReturnSettles DEF BodyReadError, Collects
<1>4. CASE CheckRoute
  <2>1. CASE Return("4xx")
    BY <1>4, <2>1, ReturnSettles DEF CheckRoute
  <2>2. CASE Goto("body") /\ UNCHANGED money
    BY <1>4, <2>2, QuietStep DEF CheckRoute, Goto, Before
  <2> QED
    BY <1>4, <2>1, <2>2 DEF CheckRoute
<1>5. CASE IntoProxyBody
  BY <1>5, QuietStep DEF IntoProxyBody, Goto, Before
<1>6. CASE TranslateRequest
  <2>1. CASE \E what : Return(what)
    BY <1>6, <2>1, ReturnSettles DEF TranslateRequest
  <2>2. CASE Goto("rewrite") /\ UNCHANGED money
    BY <1>6, <2>2, QuietStep DEF TranslateRequest, Goto, Before
  <2> QED
    BY <1>6, <2>1, <2>2 DEF TranslateRequest
<1>7. CASE RewriteBody
  <2>1. CASE \E what : Return(what)
    BY <1>7, <2>1, ReturnSettles DEF RewriteBody
  <2>2. CASE Goto("reserve") /\ UNCHANGED money
    BY <1>7, <2>2, QuietStep DEF RewriteBody, Goto, Before
  <2> QED
    BY <1>7, <2>1, <2>2 DEF RewriteBody
<1>8. CASE Reserve
  <2>1. CASE Return("4xx")
    BY <1>8, <2>1, ReturnSettles DEF Reserve
  <2>2. CASE reservation' = "held" /\ Goto("slot") /\ UNCHANGED <<slot, charge, row>>
    <3>1. Books'
      BY <1>8, <2>2 DEF Books, Reserve, Goto, Before, Serving
    <3>2. Accounts!Reserve
      BY <1>8, <2>2 DEF Books, Reserve, Accounts!Reserve, Before
    <3> QED
      BY <3>1, <3>2 DEF Settles, Accounts!Next
  <2> QED
    BY <1>8, <2>1, <2>2 DEF Reserve
<1>9. CASE AcquireConcurrency
  <2>1. CASE Return("4xx")
    BY <1>9, <2>1, ReturnSettles DEF AcquireConcurrency
  <2>2. CASE slot' = TRUE /\ Goto("choose") /\ UNCHANGED <<reservation, charge, row>>
    <3>1. Books'
      BY <1>9, <2>2 DEF Books, AcquireConcurrency, Goto, Before, Serving
    <3>2. Accounts!Acquire
      BY <1>9, <2>2 DEF Books, AcquireConcurrency, Accounts!Acquire
    <3> QED
      BY <3>1, <3>2 DEF Settles, Accounts!Next
  <2> QED
    BY <1>9, <2>1, <2>2 DEF AcquireConcurrency
<1> QED
  BY <1>1, <1>2, <1>3, <1>4, <1>5, <1>6, <1>7, <1>8, <1>9

\* The loop of proxy_forward.
LEMMA ProxySettles ==
  ASSUME Books,
         \/ AcquireExcluding \/ NoBackend \/ CounterUnavailable \/ PrepareAttempt
         \/ AttemptFails \/ ResponseArrives \/ ForwardResponse
  PROVE  Books' /\ Settles
<1>1. CASE AcquireExcluding
  BY <1>1, QuietStep DEF AcquireExcluding, Goto, Serving
<1>2. CASE NoBackend
  <2>1. CASE Return("5xx")
    BY <1>2, <2>1, ReturnSettles DEF NoBackend
  <2>2. CASE Goto("respond") /\ UNCHANGED money
    BY <1>2, <2>2, QuietStep DEF NoBackend, Goto, Serving
  <2> QED
    BY <1>2, <2>1, <2>2 DEF NoBackend
<1>3. CASE CounterUnavailable
  BY <1>3, ReturnSettles DEF CounterUnavailable
<1>4. CASE PrepareAttempt
  <2>1. CASE \E what : Return(what)
    BY <1>4, <2>1, ReturnSettles DEF PrepareAttempt
  <2>2. CASE Goto("send") /\ UNCHANGED money
    BY <1>4, <2>2, QuietStep DEF PrepareAttempt, Goto, Serving
  <2> QED
    BY <1>4, <2>1, <2>2 DEF PrepareAttempt
<1>5. CASE AttemptFails
  <2>1. CASE Return("5xx")
    BY <1>5, <2>1, ReturnSettles DEF AttemptFails
  <2>2. CASE Goto("choose") /\ UNCHANGED money
    BY <1>5, <2>2, QuietStep DEF AttemptFails, Goto, Serving
  <2> QED
    BY <1>5, <2>1, <2>2 DEF AttemptFails
<1>6. CASE ResponseArrives
  <2>1. pc = "send" /\ pc' \in {"choose", "respond"} /\ UNCHANGED money
    BY <1>6 DEF ResponseArrives, Goto
  <2> QED
    BY <2>1, QuietStep DEF Serving
<1>7. CASE ForwardResponse
  BY <1>7, QuietStep DEF ForwardResponse, Goto, Serving
<1> QED
  BY <1>1, <1>2, <1>3, <1>4, <1>5, <1>6, <1>7

\* A response that is read whole.
LEMMA BufferSettles ==
  ASSUME Books, BodyArrives \/ BodyFails
  PROVE  Books' /\ Settles
<1>1. pc \in Serving
  BY DEF BodyArrives, BodyFails, Serving
<1>2. CASE BodyArrives
  <2>1. PICK doc \in Documents, usage \in BOOLEAN :
          \E seen, error \in BOOLEAN : Finish(seen, FALSE, error)
    BY <1>2 DEF BodyArrives
  <2> QED
    BY <1>1, <2>1, FinishSettles
<1>3. CASE BodyFails
  BY <1>1, <1>3, FinishSettles DEF BodyFails
<1> QED
  BY <1>2, <1>3

\* The loop of a pump ends.
LEMMA EndSettles ==
  ASSUME Books, pc \in Serving, NEW translator, NEW error, EndStream(translator, error)
  PROVE  Books' /\ Settles
<1>1. CASE Goto("last") /\ UNCHANGED money
  BY <1>1, QuietStep DEF Goto, Serving
<1>2. CASE \E failed \in BOOLEAN : Report(TapFinish(tap, tail'), FALSE, failed)
  BY <1>2, ReportSettles
<1> QED
  BY <1>1, <1>2 DEF EndStream

\* So does the end of a stream, whichever way it comes.
LEMMA PumpSettles ==
  ASSUME Books,
         ChunkArrives \/ Flushed \/ StreamEnds \/ StreamFails \/ IdleTimeout \/ LastFlushed
  PROVE  Books' /\ Settles
<1>1. pc \in Serving
  BY DEF ChunkArrives, Flushed, StreamEnds, StreamFails, IdleTimeout, LastFlushed, Serving
<1>2. CASE ChunkArrives
  <2>1. CASE UNCHANGED <<pc, money>>
    BY <2>1, QuietStep
  <2>2. CASE Goto("flush") /\ UNCHANGED money
    BY <1>1, <2>2, QuietStep DEF Goto, Serving
  <2>3. CASE \E seen : \E failed \in BOOLEAN : Report(seen, TRUE, failed)
    BY <1>1, <2>3, ReportSettles
  <2> QED
    BY <1>2, <2>1, <2>2, <2>3 DEF ChunkArrives, Send
<1>3. CASE Flushed
  <2>1. CASE Goto("next") /\ UNCHANGED money
    BY <1>1, <2>1, QuietStep DEF Goto, Serving
  <2>2. CASE Report(TapFinish(tap, tail), FALSE, t.error # None)
    BY <1>1, <2>2, ReportSettles
  <2> QED
    BY <1>3, <2>1, <2>2 DEF Flushed
<1>4. CASE StreamEnds
  BY <1>1, <1>4, EndSettles DEF StreamEnds
<1>5. CASE StreamFails
  BY <1>1, <1>5, EndSettles DEF StreamFails
<1>6. CASE IdleTimeout
  BY <1>1, <1>6, EndSettles DEF IdleTimeout
<1>7. CASE LastFlushed
  BY <1>1, <1>7, ReportSettles DEF LastFlushed
<1> QED
  BY <1>2, <1>3, <1>4, <1>5, <1>6, <1>7

\* Every step keeps the books and settles what it ends.
LEMMA StepSettles ==
  ASSUME Books, [Next]_vars
  PROVE  Books' /\ Settles
<1>1. CASE TaskStep
  BY <1>1, HandlerSettles, ProxySettles, PumpSettles DEF TaskStep
<1>2. CASE UploadStep
  BY <1>2, HandlerSettles DEF UploadStep
<1>3. CASE UpstreamStep
  BY <1>3, ProxySettles, BufferSettles, PumpSettles DEF UpstreamStep
<1>4. CASE ClientStep
  BY <1>4, QuietStep DEF ClientStep, ClientReads, ClientLeaves
<1>5. CASE DropHandler
  BY <1>5, DropSettles
<1>6. CASE Done \/ UNCHANGED vars
  BY <1>6, QuietStep DEF Done, vars
<1> QED
  BY <1>1, <1>2, <1>3, <1>4, <1>5, <1>6 DEF Next

\* Whatever the client, the upstream and the reloads do, a request settles its
\* reservation once, its slot goes with it, and the budget is charged what the
\* row says: finish and the drops of CompletionReporter, BudgetReservation and
\* ConcurrencyGuard together implement Settlement.
THEOREM RequestSettlesOnce == Spec => SettledOnce
<1>1. Init => Books /\ Accounts!Init
  BY DEF Init, Books, Before, Serving, Accounts!Init
<1>2. Books /\ [Next]_vars => Books' /\ [Accounts!Next]_(Accounts!vars)
  BY StepSettles DEF Settles
<1> QED
  BY <1>1, <1>2, PTL DEF Spec, SettledOnce, Accounts!Spec

(***************************************************************************)
(* The body of the request                                                 *)
(***************************************************************************)

\* Where a body that was streamed to an upstream may be gone.
Sent == {"send", "respond", "buffer", "next", "flush", "last", "done"}

\* A body that is not buffered belongs to a request that does not stream; it is
\* passed on only if the snapshot the handler holds says that nothing of it is to
\* be changed, and once it is gone nobody asks for it.
Uploads ==
  /\ body = "candidate" => ~req.stream
  /\ body = "streaming" => ~req.stream /\ AllowStreamingUpload(held)
  /\ body = "gone" => pc \in Sent
  /\ pc = "auth" => body = "unread"
  /\ pc = "read" => body = "unread"
  /\ pc = "translate" => IsBridge(held)
  /\ pc = "translate" => body \in {"buffered", "streaming"}
  /\ NoDeadBranch

\* Steps that leave the request, its snapshot and its body alone.
LEMMA BodyKept ==
  ASSUME Uploads, UNCHANGED <<req, held, body>>, answer' # "dead",
         pc' \notin {"auth", "read", "translate"} \/ pc' = pc,
         pc' \in Sent \/ pc \notin Sent \/ body # "gone"
  PROVE  Uploads'
<1>1. AllowStreamingUpload(held)' = AllowStreamingUpload(held)
  BY DEF AllowStreamingUpload, IsBridge
<1>2. IsBridge(held)' = IsBridge(held)
  BY DEF IsBridge
<1> QED
  BY <1>1, <1>2 DEF Uploads, NoDeadBranch, Sent

\* Every step keeps the books of the uploads.
LEMMA StepKeepsUploads ==
  ASSUME Uploads, [Next]_vars
  PROVE  Uploads'
<1> USE DEF Goto
<1>1. CASE Authorize
  BY <1>1 DEF Authorize, Return, Uploads, NoDeadBranch
<1>2. CASE ReadIncomingBody
  BY <1>2 DEF ReadIncomingBody, Uploads, NoDeadBranch
<1>3. CASE BodyReadError
  BY <1>3, BodyKept DEF BodyReadError, Return, handler, Sent
<1>4. CASE CheckRoute
  BY <1>4, BodyKept DEF CheckRoute, Return, handler, Sent, Uploads, NoDeadBranch
<1>5. CASE IntoProxyBody
  <2>1. AllowStreamingUpload(held)' = AllowStreamingUpload(held)
    BY <1>5 DEF IntoProxyBody, AllowStreamingUpload, IsBridge
  <2>2. IsBridge(held)' = IsBridge(held)
    BY <1>5 DEF IntoProxyBody, IsBridge
  <2> QED
    BY <1>5, <2>1, <2>2 DEF IntoProxyBody, Uploads, NoDeadBranch, Bridge
<1>6. CASE TranslateRequest
  <2>1. body = "buffered"
    BY <1>6 DEF TranslateRequest, Uploads, AllowStreamingUpload
  <2> QED
    BY <1>6, <2>1 DEF TranslateRequest, Return, Uploads, NoDeadBranch
<1>7. CASE RewriteBody
  <2>1. answer' # "dead"
    BY <1>7 DEF RewriteBody, Return, Uploads, NoDeadBranch, AllowStreamingUpload
  <2> QED
    BY <1>7, <2>1, BodyKept DEF RewriteBody, Return, handler, Sent
<1>8. CASE Reserve \/ AcquireConcurrency
  BY <1>8, BodyKept
  DEF Reserve, AcquireConcurrency, Return, handler, Sent, Uploads, NoDeadBranch
<1>9. CASE AcquireExcluding \/ NoBackend \/ CounterUnavailable
  BY <1>9, BodyKept
  DEF AcquireExcluding, NoBackend, CounterUnavailable, Return, handler, Sent, Uploads,
      NoDeadBranch
<1>10. CASE PrepareAttempt
  <2>1. body # "gone" /\ (body = "streaming" => ~req.stream) /\ answer # "dead"
    BY <1>10 DEF PrepareAttempt, Uploads, Sent, NoDeadBranch
  <2>2. answer' # "dead" /\ pc' \in Sent /\ UNCHANGED <<req, held>>
    BY <1>10, <2>1 DEF PrepareAttempt, Return, Sent
  <2>3. CASE UNCHANGED body
    BY <1>10, <2>2, <2>3, BodyKept DEF Sent
  <2>4. CASE body' \in {"gone", body}
    BY <2>2, <2>3, <2>4 DEF Uploads, NoDeadBranch, Sent
  <2> QED
    BY <1>10, <2>3, <2>4 DEF PrepareAttempt
<1>11. CASE AttemptFails
  BY <1>11, BodyKept
  DEF AttemptFails, Replayable, Return, handler, Sent, Uploads, NoDeadBranch
<1>12. CASE ResponseArrives
  BY <1>12, BodyKept
  DEF ResponseArrives, Replayable, handler, Sent, Uploads, NoDeadBranch
<1>13. CASE ForwardResponse
  BY <1>13, BodyKept DEF ForwardResponse, Sent, Uploads, NoDeadBranch
<1>14. CASE BodyArrives
  BY <1>14, BodyKept DEF BodyArrives, Finish, handler, Sent
<1>15. CASE BodyFails
  BY <1>15, BodyKept DEF BodyFails, Finish, handler, Sent
<1>16. CASE ChunkArrives \/ Flushed \/ StreamEnds \/ StreamFails \/ IdleTimeout \/ LastFlushed
  <2>1. pc' \in Sent /\ UNCHANGED <<handler, answer>>
    BY <1>16
    DEF ChunkArrives, Flushed, StreamEnds, StreamFails, IdleTimeout, LastFlushed,
        EndStream, Send, Report, Finish, Sent
  <2> QED
    BY <2>1, BodyKept DEF handler, Sent, Uploads, NoDeadBranch
<1>17. CASE ClientStep \/ Done \/ UNCHANGED vars
  BY <1>17, BodyKept
  DEF ClientStep, ClientReads, ClientLeaves, Done, vars, handler, Uploads, NoDeadBranch
<1>18. CASE DropHandler
  BY <1>18, BodyKept DEF DropHandler, handler, Sent, Uploads, NoDeadBranch
<1> QED
  BY <1>1, <1>2, <1>3, <1>4, <1>5, <1>6, <1>7, <1>8, <1>9, <1>10, <1>11, <1>12, <1>13,
     <1>14, <1>15, <1>16, <1>17, <1>18
  DEF Next, TaskStep, UploadStep, UpstreamStep

\* The answers handle_generate and proxy_forward keep for a body they cannot send
\* are never given, however the configuration changes between the checks.
THEOREM NoDeadBranchHolds == Spec => []NoDeadBranch
<1>1. Init => Uploads
  BY RequestAssumptions DEF Init, Answers, Uploads, NoDeadBranch
<1>2. Uploads /\ [Next]_vars => Uploads'
  BY StepKeepsUploads
<1>3. Uploads => NoDeadBranch
  BY DEF Uploads
<1> QED
  BY <1>1, <1>2, <1>3, PTL DEF Spec

(***************************************************************************)
(* Types                                                                   *)
(***************************************************************************)

Pumping == {"next", "flush", "last"}
Routed == {"body", "translate", "rewrite", "reserve", "slot", "choose", "lookup", "send"}

\* A handler past its route has one, there is no channel before the pump, and the
\* pump goes on with a full channel only if nobody reads it.
Types ==
  /\ TypeOK
  /\ pc # "auth" => held \in Configs
  /\ pc \in Routed => held.route # None
  /\ pc \notin Pumping \cup {"done"} => chan = 0
  /\ pc = "next" => chan <= 1 \/ client = "gone"

\* An answer of the handler's own.
LEMMA ReturnTypes ==
  ASSUME Types, pc # "auth", NEW what \in Answers, Return(what),
         UNCHANGED <<handler, pump, client>> \/ UNCHANGED <<held, body, tried, pump, client>>
  PROVE  Types'
BY DEF Types, TypeOK, Return, Unwind, Goto, handler, pump, Routed, Pumping

\* finish
LEMMA FinishTypes ==
  ASSUME Types, NEW seen \in BOOLEAN, NEW aborted \in BOOLEAN, NEW error \in BOOLEAN,
         Finish(seen, aborted, error), chan' \in 0..2, tail' \in LineKinds \cup {None},
         tap' \in BOOLEAN, answer' \in Answers \cup {None}, UNCHANGED <<handler, client>>, pc # "auth"
  PROVE  Types'
<1>1. row' \in Rows /\ charge' \in Nat
  BY RequestAssumptions DEF Finish, Rows
<1> QED BY <1>1 DEF Types, TypeOK, Finish, Goto, handler, Routed, Pumping

\* The end of the pump.
LEMMA ReportTypes ==
  ASSUME Types, NEW seen \in BOOLEAN, NEW aborted \in BOOLEAN, NEW error \in BOOLEAN,
         Report(seen, aborted, error), chan' \in 0..2, tail' \in LineKinds \cup {None},
         tap' \in BOOLEAN, answer' \in Answers \cup {None}, UNCHANGED <<handler, client>>, pc # "auth"
  PROVE  Types'
<1>1. PICK usage \in BOOLEAN : Finish(usage, aborted, error)
  BY DEF Report
<1> QED BY <1>1, FinishTypes

\* The end of the stream, with or without an error.
LEMMA EndTypes ==
  ASSUME Types, pc = "next", NEW translator, NEW error, EndStream(translator, error),
         tail' \in LineKinds \cup {None}, UNCHANGED <<handler, tap, client, answer>>
  PROVE  Types'
<1>1. /\ tap' \in BOOLEAN /\ answer' \in Answers \cup {None} /\ chan \in 0..2
      /\ (chan <= 1 \/ client = "gone")
  BY DEF Types, TypeOK
<1>2. CASE Bridge /\ client = "there"
  <2>1. chan' \in 0..2 /\ pc' = "last" /\ UNCHANGED <<money, lease>>
    BY <1>1, <1>2 DEF EndStream, Goto
  <2> QED BY <1>1, <2>1 DEF Types, TypeOK, money, handler, Routed, Pumping
<1>3. CASE ~(Bridge /\ client = "there")
  <2>1. PICK failed \in BOOLEAN : Report(TapFinish(tap, tail'), FALSE, failed) /\ UNCHANGED chan
    BY <1>3 DEF EndStream
  <2>2. TapFinish(tap, tail') \in BOOLEAN
    BY DEF TapFinish
  <2> QED BY <1>1, <2>1, <2>2, ReportTypes
<1> QED BY <1>2, <1>3

\* Every step keeps the types.
LEMMA StepKeepsTypes ==
  ASSUME Types, [Next]_vars
  PROVE  Types'
<1>1. CASE Authorize
  <2>1. "4xx" \in Answers
    BY DEF Answers
  <2> QED BY <1>1, <2>1
          DEF Authorize, Types, TypeOK, Return, Unwind, Goto, money, pump, Routed, Pumping
<1>2. CASE ReadIncomingBody
  BY <1>2 DEF ReadIncomingBody, Types, TypeOK, Goto, money, pump, Routed, Pumping
<1>3. CASE BodyReadError
  BY <1>3, ReturnTypes DEF BodyReadError, Collects, Answers
<1>4. CASE CheckRoute
  <2>1. CASE Return("4xx")
    BY <1>4, <2>1, ReturnTypes DEF CheckRoute, Answers
  <2>2. CASE Accepts(held) /\ Goto("body") /\ UNCHANGED <<money, lease, answer>>
    BY <1>4, <2>2
    DEF CheckRoute, Accepts, Types, TypeOK, Goto, money, handler, pump, Routed, Pumping
  <2> QED BY <1>4, <2>1, <2>2 DEF CheckRoute
<1>5. CASE IntoProxyBody
  BY <1>5 DEF IntoProxyBody, Types, TypeOK, Goto, money, pump, Routed, Pumping
<1>6. CASE TranslateRequest
  <2>1. CASE \E what \in Answers : Return(what)
    BY <1>6, <2>1, ReturnTypes DEF TranslateRequest
  <2>2. CASE Goto("rewrite") /\ UNCHANGED <<money, lease, answer>>
    BY <1>6, <2>2 DEF TranslateRequest, Types, TypeOK, Goto, money, pump, Routed, Pumping
  <2> QED BY <1>6, <2>1, <2>2 DEF TranslateRequest, Answers
<1>7. CASE RewriteBody
  <2>1. CASE \E what \in Answers : Return(what)
    BY <1>7, <2>1, ReturnTypes DEF RewriteBody
  <2>2. CASE Goto("reserve") /\ UNCHANGED <<money, lease, answer>>
    BY <1>7, <2>2 DEF RewriteBody, Types, TypeOK, Goto, money, handler, pump, Routed, Pumping
  <2> QED BY <1>7, <2>1, <2>2 DEF RewriteBody, Answers
<1>8. CASE Reserve \/ AcquireConcurrency
  <2>1. CASE Return("4xx")
    BY <1>8, <2>1, ReturnTypes DEF Reserve, AcquireConcurrency, Answers
  <2>2. CASE ~Return("4xx")
    BY <1>8, <2>2
    DEF Reserve, AcquireConcurrency, Types, TypeOK, Goto, handler, pump, Routed, Pumping
  <2> QED BY <2>1, <2>2
<1>9. CASE AcquireExcluding
  <2>1. Refs(held.route) \subseteq Backends
    BY <1>9, RouteAssumptions DEF AcquireExcluding, Types, Routed
  <2> QED BY <1>9, <2>1 DEF AcquireExcluding, Types, TypeOK, Goto, money, pump, Routed, Pumping
<1>10. CASE NoBackend \/ CounterUnavailable \/ AttemptFails
  <2>1. CASE Return("5xx")
    BY <1>10, <2>1, ReturnTypes DEF NoBackend, CounterUnavailable, AttemptFails, Answers
  <2>2. CASE ~Return("5xx")
    BY <1>10, <2>2
    DEF NoBackend, CounterUnavailable, AttemptFails, Types, TypeOK, Goto, money, handler, pump,
        Routed, Pumping
  <2> QED BY <2>1, <2>2
<1>11. CASE PrepareAttempt
  <2>1. CASE \E what \in Answers : Return(what) /\ UNCHANGED body
    BY <1>11, <2>1, ReturnTypes DEF PrepareAttempt
  <2>2. CASE /\ body' \in {"gone", body} /\ Goto("send")
             /\ UNCHANGED <<money, lease, answer>>
    BY <1>11, <2>2 DEF PrepareAttempt, Types, TypeOK, Goto, money, pump, Routed, Pumping
  <2> QED BY <1>11, <2>1, <2>2 DEF PrepareAttempt, Answers
<1>12. CASE ResponseArrives
  <2>1. pc = "send" /\ pc' \in {"choose", "respond"}
    BY <1>12 DEF ResponseArrives, Goto
  <2> QED BY <1>12, <2>1
          DEF ResponseArrives, Types, TypeOK, money, handler, pump, Routed, Pumping
<1>13. CASE ForwardResponse
  <2>1. "stream" \in Answers
    BY DEF Answers
  <2> QED BY <1>13, <2>1
          DEF ForwardResponse, Types, TypeOK, Goto, money, handler, pump, Routed, Pumping
<1>14. CASE BodyArrives
  <2>1. PICK seen \in BOOLEAN, error \in BOOLEAN :
          Finish(seen, FALSE, error) /\ answer' \in {"body", "5xx"}
    BY <1>14 DEF BodyArrives
  <2>2. /\ UNCHANGED <<chan, tail, tap, handler, client>> /\ pc # "auth"
        /\ chan \in 0..2 /\ tail \in LineKinds \cup {None} /\ tap \in BOOLEAN
    BY <1>14 DEF BodyArrives, Types, TypeOK
  <2> QED BY <2>1, <2>2, FinishTypes DEF Answers
<1>15. CASE BodyFails
  <2>1. Finish(FALSE, FALSE, TRUE) /\ answer' \in {"body", "5xx"}
    BY <1>15 DEF BodyFails
  <2>2. /\ UNCHANGED <<chan, tail, tap, handler, client>> /\ pc # "auth"
        /\ chan \in 0..2 /\ tail \in LineKinds \cup {None} /\ tap \in BOOLEAN
    BY <1>15 DEF BodyFails, Types, TypeOK, pump
  <2> QED BY <2>1, <2>2, FinishTypes DEF Answers
<1>16. CASE ChunkArrives
  <2>1. /\ tail' \in LineKinds \cup {None} /\ tap' \in BOOLEAN
        /\ UNCHANGED <<handler, class, resp, client, answer>> /\ pc = "next"
    BY <1>16 DEF ChunkArrives, Lines, LineKinds, PlainLines, TapUsage, OwnUsage, Tapped
  <2>2. chan \in 0..2 /\ (chan <= 1 \/ client = "gone") /\ answer \in Answers \cup {None}
    BY <2>1 DEF Types, TypeOK
  <2>3. CASE UNCHANGED <<pc, chan, money, lease>>
    BY <2>1, <2>3 DEF Types, TypeOK, money, handler, Routed, Pumping
  <2>4. CASE Send("flush")
    BY <2>1, <2>2, <2>4 DEF Send, Types, TypeOK, Goto, money, handler, Routed, Pumping
  <2>5. CASE \E seen \in BOOLEAN, error \in BOOLEAN : Report(seen, TRUE, error) /\ UNCHANGED chan
    BY <2>1, <2>2, <2>5, ReportTypes
  <2> QED BY <1>16, <2>3, <2>4, <2>5 DEF ChunkArrives, TapFinish
<1>17. CASE Flushed
  <2>1. /\ UNCHANGED <<chan, tail, tap, handler, client, answer>> /\ pc = "flush"
        /\ chan \in 0..2 /\ tail \in LineKinds \cup {None} /\ tap \in BOOLEAN
        /\ answer \in Answers \cup {None} /\ (chan <= 1 \/ client = "gone")
    BY <1>17 DEF Flushed, Types, TypeOK, pump
  <2>2. CASE Goto("next") /\ UNCHANGED <<money, lease>>
    BY <2>1, <2>2 DEF Types, TypeOK, Goto, money, handler, Routed, Pumping
  <2>3. CASE \E seen \in BOOLEAN, error \in BOOLEAN : Report(seen, FALSE, error)
    BY <2>1, <2>3, ReportTypes
  <2> QED BY <1>17, <2>2, <2>3 DEF Flushed, TapFinish
<1>18. CASE StreamEnds
  <2>1. /\ tail' \in LineKinds \cup {None}
        /\ UNCHANGED <<handler, tap, client, answer>> /\ pc = "next"
    BY <1>18 DEF StreamEnds, Types, TypeOK, LineKinds, PlainLines
  <2> QED BY <1>18, <2>1, EndTypes DEF StreamEnds
<1>19. CASE StreamFails \/ IdleTimeout
  <2>1. /\ tail' \in LineKinds \cup {None}
        /\ UNCHANGED <<handler, tap, client, answer>> /\ pc = "next"
    BY <1>19 DEF StreamFails, IdleTimeout, Types, TypeOK
  <2> QED BY <1>19, <2>1, EndTypes DEF StreamFails, IdleTimeout
<1>20. CASE LastFlushed
  <2>1. /\ UNCHANGED <<chan, tail, tap, handler, client, answer>> /\ pc = "last"
        /\ chan \in 0..2 /\ tail \in LineKinds \cup {None} /\ tap \in BOOLEAN
        /\ answer \in Answers \cup {None}
    BY <1>20 DEF LastFlushed, Types, TypeOK, pump
  <2>2. \E seen \in BOOLEAN, error \in BOOLEAN : Report(seen, FALSE, error)
    BY <1>20 DEF LastFlushed, TapFinish
  <2> QED BY <2>1, <2>2, ReportTypes
<1>21. CASE ClientReads
  BY <1>21 DEF ClientReads, Types, TypeOK, handler, money
<1>22. CASE ClientLeaves
  BY <1>22 DEF ClientLeaves, Types, TypeOK, handler, money, pump
<1>23. CASE DropHandler
  <2>1. row' \in Rows \cup {None}
    BY <1>23 DEF DropHandler, Types, TypeOK, Rows
  <2>2. pc # "auth"
    BY <1>23 DEF DropHandler, AtAwait, Collects
  <2> QED BY <1>23, <2>1, <2>2
          DEF DropHandler, Unwind, Types, TypeOK, Goto, handler, pump, Routed, Pumping
<1>24. CASE Done \/ UNCHANGED vars
  BY <1>24 DEF Done, vars, Types, TypeOK, handler, money, pump
<1> QED
  BY <1>1, <1>2, <1>3, <1>4, <1>5, <1>6, <1>7, <1>8, <1>9, <1>10, <1>11, <1>12, <1>13,
     <1>14, <1>15, <1>16, <1>17, <1>18, <1>19, <1>20, <1>21, <1>22, <1>23, <1>24
  DEF Next, TaskStep, UploadStep, UpstreamStep, ClientStep

\* Every variable has its type, and the channel to the client never holds more than
\* its buffer and the message of its one sender (the mpsc::channel(1) of a pump in
\* proxy_forward), however slow the client is.
THEOREM RequestTypeOK == Spec => []TypeOK
<1>1. Init => Types
  <2> SUFFICES ASSUME Init PROVE Types
    OBVIOUS
  <2>1. TypeOK
    <3>1. charge = 0 /\ chan = 0 /\ tried = {} /\ slot = FALSE /\ tap = FALSE
      BY DEF Init
    <3>2. charge \in Nat /\ chan \in 0..2 /\ tried \subseteq Backends
      BY <3>1
    <3>3. slot \in BOOLEAN /\ tap \in BOOLEAN
      BY <3>1
    <3>4. /\ pc = "auth" /\ body = "unread" /\ reservation = "none" /\ client = "there"
          /\ held = None /\ lease = None /\ tail = None /\ row = None /\ answer = None
      BY DEF Init
    <3> QED BY <3>2, <3>3, <3>4 DEF TypeOK
  <2> QED BY <2>1 DEF Init, Types, Pumping, Routed
<1>2. Types /\ [Next]_vars => Types'
  BY StepKeepsTypes
<1>3. Types => TypeOK
  BY DEF Types
<1> QED
  BY <1>1, <1>2, <1>3, PTL DEF Spec

(***************************************************************************)
(* The stream of the bridge                                                *)
(***************************************************************************)

\* There is a usage that the tap understands.
HasUsage(read) == \E i \in DOMAIN read : read[i] \in TapUsage

\* The pump has read these lines and has said what the translator made of them.
Pumped ==
  /\ pc \in {"next", "flush"} /\ Bridge => Heard(t, lines)
  /\ pc = "last" /\ Bridge => Over(t, Read)
  /\ pc \in Pumping /\ ~Bridge => t = NewTranslator
  /\ pc \in Pumping => answer = "stream" /\ (Bridge => req.stream)

\* How a request ends.  Nothing was streamed through the translator ...
EndedWithout ==
  /\ ~(Bridge /\ answer = "stream")
  /\ t = NewTranslator \/ (t.finished /\ Client(t.out).at = "stopped")

\* ... or a client left in the middle, or the stream came to its end.
EndedWith ==
  /\ Bridge /\ answer = "stream"
  /\ \/ Heard(t, lines) /\ row.aborted
     \/ Over(t, Read) /\ (t.error # None => row.error)

\* The row has what the tap has seen.
Counted ==
  pc = "done" /\ answer = "stream" /\ req.stream => (row.estimated <=> ~HasUsage(Read))

\* What both readers of the stream have seen.
Streams ==
  /\ pc \notin Pumping \cup {"done"} =>
       t = NewTranslator /\ lines = <<>> /\ tail = None /\ answer = None
  /\ lines \in Seq(LineKinds) /\ tail \in LineKinds \cup {None}
  /\ tap <=> HasUsage(lines)
  /\ Pumped /\ Counted
  /\ pc = "done" => EndedWithout \/ EndedWith

\* A new translator is well formed.
LEMMA NewIsFresh ==
  /\ ~NewTranslator.finished
  /\ Client(NewTranslator.out).at = "new"
<1>1. Client(<<>>).at = "new"
  BY ClientEmpty DEF NewClient
<1> QED BY <1>1 DEF NewTranslator

\* A translator that has finished has read all there is.
LEMMA HeardOver ==
  ASSUME NEW s, NEW read, Heard(s, read), s.finished, NEW rest \in LineKinds \cup {None}
  PROVE  Over(s, IF rest = None THEN read ELSE Append(read, rest))
<1>1. read \in Seq(LineKinds) /\ s \in Translators
  BY DEF Heard
<1>2. Failed(s) \/ (Stopped(s, Said(read)) /\ HasDone(read))
  BY DEF Heard, Hears, Live
<1>3. CASE rest = None
  BY <1>1, <1>2, <1>3 DEF Over
<1>4. CASE rest # None
  <2>1. HasDone(read) => Said(Append(read, rest)) = Said(read)
    BY <1>1, <1>4, SaidAfter
  <2> QED BY <1>1, <1>2, <1>4, <2>1 DEF Over
<1> QED BY <1>3, <1>4

\* No usage in no lines.
LEMMA UsageEmpty == ~HasUsage(<<>>)
<1>1. DOMAIN <<>> = {}
  BY NoCalls
<1> QED BY <1>1 DEF HasUsage

\* The usage is in the chunk, or was there before.
LEMMA UsageConcat ==
  ASSUME NEW read \in Seq(LineKinds), NEW chunk \in Seq(LineKinds)
  PROVE  HasUsage(read \o chunk) <=> HasUsage(read) \/ HasUsage(chunk)
<1>1. PICK k \in Nat : k = Len(read) /\ DOMAIN read = 1..k
  BY LenProperties
<1>2. PICK m \in Nat : m = Len(chunk) /\ DOMAIN chunk = 1..m
  BY LenProperties
<1>3. PICK u \in Seq(LineKinds) : u = read \o chunk
  BY ConcatProperties
<1>4. /\ DOMAIN u = 1..(k + m)
      /\ \A i \in 1..(k + m) : u[i] = IF i <= k THEN read[i] ELSE chunk[i - k]
  BY <1>1, <1>2, <1>3, ConcatProperties, LenProperties
<1>5. HasUsage(u) => HasUsage(read) \/ HasUsage(chunk)
  <2> SUFFICES ASSUME NEW i \in 1..(k + m), u[i] \in TapUsage
               PROVE  HasUsage(read) \/ HasUsage(chunk)
    BY <1>4 DEF HasUsage
  <2>1. CASE i <= k
    BY <1>1, <1>4, <2>1 DEF HasUsage
  <2>2. CASE i > k
    <3>1. i - k \in 1..m /\ chunk[i - k] \in TapUsage
      BY <1>4, <2>2
    <3> QED BY <1>2, <3>1 DEF HasUsage
  <2> QED BY <2>1, <2>2
<1>6. HasUsage(read) => HasUsage(u)
  <2> SUFFICES ASSUME NEW i \in 1..k, read[i] \in TapUsage PROVE HasUsage(u)
    BY <1>1 DEF HasUsage
  <2>1. i \in 1..(k + m) /\ u[i] = read[i]
    BY <1>4
  <2> QED BY <1>4, <2>1 DEF HasUsage
<1>7. HasUsage(chunk) => HasUsage(u)
  <2> SUFFICES ASSUME NEW i \in 1..m, chunk[i] \in TapUsage PROVE HasUsage(u)
    BY <1>2 DEF HasUsage
  <2>1. k + i \in 1..(k + m) /\ ~(k + i <= k) /\ (k + i) - k = i
    OBVIOUS
  <2>2. u[k + i] = chunk[i]
    BY <1>4, <2>1
  <2> QED BY <1>4, <2>1, <2>2 DEF HasUsage
<1> QED BY <1>3, <1>5, <1>6, <1>7

\* The usage is in the lines that were read or in the rest without a newline.
LEMMA UsageRead ==
  ASSUME NEW read \in Seq(LineKinds), NEW rest \in LineKinds \cup {None}
  PROVE  HasUsage(IF rest = None THEN read ELSE Append(read, rest)) <=>
           HasUsage(read) \/ rest \in TapUsage
<1>1. CASE rest = None
  <2>1. None \notin TapUsage
    BY BridgeAssumptions DEF LineKinds, PlainLines
  <2> QED BY <1>1, <2>1
<1>2. CASE rest # None
  <2>1. PICK s \in Seq(LineKinds) : s = <<rest>>
    <3>1. <<rest>> \in Seq(LineKinds)
      BY <1>2
    <3> QED BY <3>1
  <2>2. Append(read, rest) = read \o s
    BY <1>2, <2>1, AppendIsConcat
  <2>3. DOMAIN s = {1} /\ s[1] = rest
    BY <2>1
  <2>4. HasUsage(s) <=> rest \in TapUsage
    BY <2>3 DEF HasUsage
  <2> QED BY <1>2, <2>2, <2>4, UsageConcat
<1> QED BY <1>1, <1>2

\* The lines of a chunk.
LEMMA ChunkType ==
  ASSUME NEW new \in UNION {[1..n -> Lines] : n \in 0..2}, tail \in LineKinds \cup {None}
  PROVE  (IF tail = None THEN <<>> ELSE <<tail>>) \o new \in Seq(LineKinds)
<1>1. Lines \subseteq LineKinds
  BY DEF Lines, LineKinds, PlainLines, TapUsage, OwnUsage
<1>2. PICK n \in 0..2 : new \in [1..n -> Lines]
  OBVIOUS
<1>3. new \in [1..n -> LineKinds] /\ n \in Nat
  BY <1>1, <1>2
<1>4. new \in Seq(LineKinds)
  BY <1>3, SeqDef
<1>5. PICK first \in Seq(LineKinds) : first = IF tail = None THEN <<>> ELSE <<tail>>
  <2>1. <<>> \in Seq(LineKinds)
    BY EmptySeq
  <2>2. tail # None => <<tail>> \in Seq(LineKinds)
    OBVIOUS
  <2> QED BY <2>1, <2>2
<1> QED BY <1>4, <1>5, ConcatProperties

\* The request and its snapshot decide whether this is the bridge.
LEMMA SameBridge ==
  ASSUME UNCHANGED <<req, held>>
  PROVE  Bridge' = Bridge
BY DEF Bridge, IsBridge

\* A step that touches neither the stream nor the end of the request.
LEMMA StreamKept ==
  ASSUME Streams, UNCHANGED <<req, held, pc, lines, tail, tap, t, answer, row>>
  PROVE  Streams'
<1>1. Bridge' = Bridge
  BY SameBridge
<1>2. Read' = Read
  BY DEF Read
<1>3. Pumped'
  BY <1>1, <1>2 DEF Streams, Pumped, Pumping
<1>4. pc = "done" => (EndedWithout \/ EndedWith)'
  BY <1>1, <1>2 DEF Streams, EndedWithout, EndedWith
<1>5. Counted'
  BY <1>2 DEF Streams, Counted
<1> QED BY <1>3, <1>4, <1>5 DEF Streams

\* The handler goes on.
LEMMA HandlerGoesOn ==
  ASSUME Streams, pc \notin Pumping \cup {"done"}, pc' \notin Pumping \cup {"done"},
         UNCHANGED <<lines, tail, tap, t, answer>>
  PROVE  Streams'
BY DEF Streams, Pumped, Pumping, Counted

\* The handler ends.
LEMMA HandlerEnds ==
  ASSUME Streams, pc \notin Pumping \cup {"done"}, pc' = "done", answer' # "stream",
         UNCHANGED <<lines, tail, tap, t>>
  PROVE  Streams'
<1>1. t' = NewTranslator
  BY DEF Streams
<1>2. EndedWithout'
  BY <1>1, NewIsFresh DEF EndedWithout
<1> QED BY <1>2 DEF Streams, Pumped, Pumping, Counted

\* An answer of the handler that is no stream.
LEMMA HandlerReturns ==
  ASSUME Streams, pc \notin Pumping \cup {"done"}, NEW what, Return(what), what # "stream",
         UNCHANGED pump
  PROVE  Streams'
BY HandlerEnds DEF Return, Goto, pump

\* The pump reports what the tap has seen, the unfinished line included.
LEMMA PumpReports ==
  ASSUME NEW seen \in BOOLEAN, NEW aborted \in BOOLEAN, NEW error \in BOOLEAN,
         Report(seen, aborted, error), UNCHANGED <<req, held, answer>>, answer = "stream",
         Bridge => req.stream, ~Bridge => t' = NewTranslator,
         seen <=> HasUsage(Read'),
         Bridge => \/ Heard(t', lines') /\ aborted
                   \/ Over(t', Read') /\ (t'.error # None => error),
         lines' \in Seq(LineKinds), tail' \in LineKinds \cup {None}, tap' <=> HasUsage(lines')
  PROVE  Streams'
<1>1. Bridge' = Bridge
  BY SameBridge
<1>2. PICK usage \in BOOLEAN : Finish(usage, aborted, error) /\ (req.stream => usage = seen)
  BY DEF Report
<1>3. pc' = "done" /\ row'.estimated = ~usage /\ row'.aborted = aborted /\ row'.error = error
  BY <1>2 DEF Finish, Goto
<1>4. Counted'
  <2> SUFFICES ASSUME req.stream PROVE row'.estimated <=> ~HasUsage(Read')
    BY DEF Counted
  <2>1. usage = seen
    BY <1>2
  <2>2. row'.estimated = ~seen
    BY <1>3, <2>1
  <2>3. row'.estimated <=> ~seen
    BY <2>2
  <2> QED BY <2>3
<1>5. CASE Bridge
  <2>1. EndedWith'
    <3>1. Bridge' /\ answer' = "stream"
      BY <1>1, <1>5
    <3>2. \/ Heard(t', lines') /\ row'.aborted
          \/ Over(t', Read') /\ (t'.error # None => row'.error)
      BY <1>3, <1>5
    <3> QED BY <3>1, <3>2 DEF EndedWith
  <2> QED BY <1>3, <1>4, <2>1 DEF Streams, Pumped, Pumping
<1>6. CASE ~Bridge
  <2>1. EndedWithout'
    BY <1>1, <1>6, NewIsFresh DEF EndedWithout
  <2> QED BY <1>3, <1>4, <2>1 DEF Streams, Pumped, Pumping
<1> QED BY <1>5, <1>6

\* A chunk.
LEMMA ChunkStreams ==
  ASSUME Streams, ChunkArrives
  PROVE  Streams'
<1>1. /\ pc = "next" /\ answer = "stream" /\ (Bridge => req.stream)
      /\ (Bridge => Heard(t, lines)) /\ (~Bridge => t = NewTranslator)
  BY DEF ChunkArrives, Streams, Pumped, Pumping
<1>2. lines \in Seq(LineKinds) /\ tail \in LineKinds \cup {None} /\ (tap <=> HasUsage(lines))
  BY DEF Streams
<1>3. UNCHANGED <<req, held, answer>>
  BY DEF ChunkArrives, handler
<1>4. PICK new \in UNION {[1..n -> Lines] : n \in 0..2}, rest \in Lines \cup {None} :
        LET chunk == (IF tail = None THEN <<>> ELSE <<tail>>) \o new
        IN /\ lines' = lines \o chunk /\ tail' = rest /\ tap' = Tapped(tap, chunk)
           /\ t' = IF Bridge THEN Feed(t, chunk, rest) ELSE t
           /\ \/ UNCHANGED pc
              \/ pc' = "flush"
              \/ Report(TapFinish(tap', rest), TRUE, t'.error # None)
  BY DEF ChunkArrives, Send, Goto
<1>5. PICK chunk \in Seq(LineKinds) : chunk = (IF tail = None THEN <<>> ELSE <<tail>>) \o new
  BY <1>2, ChunkType
<1>6. lines' = lines \o chunk /\ tail' = rest /\ tap' = Tapped(tap, chunk)
      /\ t' = IF Bridge THEN Feed(t, chunk, rest) ELSE t
  BY <1>4, <1>5
<1>7. lines' \in Seq(LineKinds)
  BY <1>2, <1>5, <1>6, ConcatProperties
<1>8. tail' \in LineKinds \cup {None}
  BY <1>4, <1>6 DEF Lines, LineKinds, PlainLines, TapUsage, OwnUsage
<1>9. tap' <=> HasUsage(lines')
  <2>1. Tapped(tap, chunk) <=> tap \/ HasUsage(chunk)
    BY DEF Tapped, HasUsage
  <2> QED BY <1>2, <1>5, <1>6, <2>1, UsageConcat
<1>10. Bridge => Heard(t', lines')
  BY <1>1, <1>5, <1>6, FeedHeard
<1>11. ~Bridge => t' = NewTranslator
  BY <1>1, <1>6
<1>12. CASE UNCHANGED pc \/ pc' = "flush"
  <2>1. Bridge' = Bridge
    BY <1>3, SameBridge
  <2>2. pc' \in {"next", "flush"}
    BY <1>1, <1>12
  <2>3. Pumped'
    BY <1>1, <1>3, <1>10, <1>11, <2>1, <2>2 DEF Pumped, Pumping
  <2> QED BY <1>7, <1>8, <1>9, <2>2, <2>3 DEF Streams, Pumping, Counted
<1>13. CASE Report(TapFinish(tap', rest), TRUE, t'.error # None)
  <2>1. PICK seen \in BOOLEAN : seen = TapFinish(tap', rest)
    BY DEF TapFinish
  <2>2. PICK error \in BOOLEAN : error = (t'.error # None)
    OBVIOUS
  <2>3. Report(seen, TRUE, error)
    BY <1>13, <2>1, <2>2
  <2>4. seen <=> HasUsage(Read')
    <3>1. seen <=> tap' \/ rest \in TapUsage
      BY <2>1 DEF TapFinish
    <3>2. HasUsage(Read') <=> HasUsage(lines') \/ rest \in TapUsage
      BY <1>6, <1>7, <1>8, UsageRead DEF Read
    <3> QED BY <1>9, <3>1, <3>2
  <2> QED BY <1>1, <1>3, <1>7, <1>8, <1>9, <1>10, <1>11, <2>3, <2>4, PumpReports
<1> QED BY <1>4, <1>12, <1>13

\* The end of the loop.
LEMMA EndStreams ==
  ASSUME Streams, pc = "next", UNCHANGED <<req, held, lines, tap, answer>>,
         tail' \in LineKinds \cup {None}, NEW translator, NEW error,
         EndStream(translator, error),
         Bridge => Over(translator, IF tail' = None THEN lines ELSE Append(lines, tail'))
  PROVE  Streams'
<1>1. /\ answer = "stream" /\ (Bridge => req.stream) /\ (~Bridge => t = NewTranslator)
      /\ lines' \in Seq(LineKinds) /\ (tap' <=> HasUsage(lines'))
  BY DEF Streams, Pumped, Pumping
<1>2. (Bridge => t' = translator) /\ (~Bridge => t' = NewTranslator)
  BY <1>1 DEF EndStream
<1>3. Bridge => Over(t', Read')
  BY <1>2 DEF Read
<1>4. CASE Bridge /\ client = "there"
  <2>1. pc' = "last" /\ Bridge' = Bridge
    BY <1>4, SameBridge DEF EndStream, Goto
  <2>2. Pumped'
    BY <1>1, <1>3, <1>4, <2>1 DEF Pumped, Pumping
  <2> QED BY <1>1, <2>1, <2>2 DEF Streams, Pumping, Counted
<1>5. CASE ~(Bridge /\ client = "there")
  <2>1. PICK seen \in BOOLEAN : seen = TapFinish(tap, tail')
    BY DEF TapFinish
  <2>2. PICK failed \in BOOLEAN : failed = (error # None \/ t'.error # None)
    OBVIOUS
  <2>3. Report(seen, FALSE, failed)
    BY <1>5, <2>1, <2>2 DEF EndStream
  <2>4. seen <=> HasUsage(Read')
    <3>1. seen <=> tap \/ tail' \in TapUsage
      BY <2>1 DEF TapFinish
    <3>2. HasUsage(Read') <=> HasUsage(lines') \/ tail' \in TapUsage
      BY <1>1, UsageRead DEF Read
    <3> QED BY <1>1, <3>1, <3>2
  <2> QED BY <1>1, <1>2, <1>3, <2>2, <2>3, <2>4, PumpReports
<1> QED BY <1>4, <1>5

\* The end of a send.
LEMMA FlushStreams ==
  ASSUME Streams, Flushed \/ LastFlushed
  PROVE  Streams'
<1>1. /\ pc \in {"flush", "last"} /\ UNCHANGED <<req, held, lines, tail, tap, t, answer>>
  BY DEF Flushed, LastFlushed, handler, pump
<1>2. /\ answer = "stream" /\ (Bridge => req.stream) /\ (~Bridge => t' = NewTranslator)
      /\ lines' \in Seq(LineKinds) /\ tail' \in LineKinds \cup {None}
      /\ (tap' <=> HasUsage(lines'))
  BY <1>1 DEF Streams, Pumped, Pumping
<1>3. CASE pc' = "next" /\ pc = "flush"
  <2>1. Bridge' = Bridge
    BY <1>1, SameBridge
  <2>2. Pumped'
    BY <1>1, <1>2, <1>3, <2>1 DEF Streams, Pumped, Pumping
  <2> QED BY <1>2, <1>3, <2>2 DEF Streams, Pumping, Counted
<1>4. CASE /\ pc = "flush" => Bridge /\ t.finished
           /\ \E error \in BOOLEAN : /\ Report(TapFinish(tap, tail), FALSE, error)
                                     /\ t.error # None => error
  <2>1. Bridge => Over(t', Read')
    <3> SUFFICES ASSUME Bridge PROVE Over(t, Read)
      BY <1>1 DEF Read
    <3>1. CASE pc = "last"
      BY <3>1 DEF Streams, Pumped
    <3>2. CASE pc = "flush"
      <4>1. Heard(t, lines) /\ t.finished /\ tail \in LineKinds \cup {None}
        BY <1>4, <3>2 DEF Streams, Pumped
      <4> QED BY <4>1, HeardOver DEF Read
    <3> QED BY <1>1, <3>1, <3>2
  <2>2. PICK seen \in BOOLEAN : seen = TapFinish(tap, tail)
    BY DEF TapFinish
  <2>3. PICK error \in BOOLEAN : Report(seen, FALSE, error) /\ (t.error # None => error)
    BY <1>4, <2>2
  <2>4. seen <=> HasUsage(Read')
    <3>1. seen <=> tap \/ tail \in TapUsage
      BY <2>2 DEF TapFinish
    <3>2. HasUsage(Read') <=> HasUsage(lines') \/ tail' \in TapUsage
      BY <1>2, UsageRead DEF Read
    <3> QED BY <1>1, <1>2, <3>1, <3>2
  <2> QED BY <1>1, <1>2, <2>1, <2>3, <2>4, PumpReports
<1> QED BY <1>3, <1>4 DEF Flushed, LastFlushed, Goto

\* A response that is read whole is translated whole.
LEMMA BufferStreams ==
  ASSUME Streams, BodyArrives \/ BodyFails
  PROVE  Streams'
<1>1. pc \notin Pumping \cup {"done"} /\ UNCHANGED <<lines, tail, tap>>
  BY DEF BodyArrives, BodyFails, Pumping, pump
<1>2. pc' = "done" /\ answer' # "stream"
  BY DEF BodyArrives, BodyFails, Finish, Goto
<1>3. CASE UNCHANGED t
  BY <1>1, <1>2, <1>3, HandlerEnds
<1>4. CASE \E doc \in Documents :
             /\ BuildMessage(doc) # None
             /\ t' = [t EXCEPT !.out = MessageToSse(BuildMessage(doc)), !.finished = TRUE]
  <2>1. PICK doc \in Documents :
          /\ BuildMessage(doc) # None
          /\ t' = [t EXCEPT !.out = MessageToSse(BuildMessage(doc)), !.finished = TRUE]
    BY <1>4
  <2>2. doc \in Seq(Parts)
    BY RequestAssumptions
  <2>3. Client(MessageToSse(BuildMessage(doc))).at = "stopped"
    BY <2>1, <2>2, BuildMessageType, MessageAccepted
  <2>4. t = NewTranslator
    BY <1>1 DEF Streams
  <2>5. t'.out = MessageToSse(BuildMessage(doc)) /\ t'.finished
    BY <2>1, <2>4 DEF NewTranslator
  <2>6. EndedWithout'
    BY <1>2, <2>3, <2>5, NewIsFresh DEF EndedWithout
  <2> QED BY <1>1, <1>2, <2>6 DEF Streams, Pumped, Pumping, Counted
<1> QED BY <1>3, <1>4 DEF BodyArrives, BodyFails, pump

\* The pump starts with a new translator.
LEMMA ForwardStreams ==
  ASSUME Streams, ForwardResponse
  PROVE  Streams'
<1>1. pc \notin Pumping \cup {"done"} /\ UNCHANGED <<req, held, lines, tail, tap, t>>
  BY DEF ForwardResponse, Pumping, pump
<1>2. CASE Goto("buffer") /\ UNCHANGED answer
  BY <1>1, <1>2, HandlerGoesOn DEF Goto, Pumping
<1>3. CASE ~Buffers /\ Goto("next") /\ answer' = "stream"
  <2>1. Bridge => req.stream
    BY <1>3 DEF Buffers
  <2>2. Bridge' = Bridge
    BY <1>1, SameBridge
  <2>3. t' = NewTranslator /\ lines' = <<>>
    BY <1>1 DEF Streams
  <2>4. Pumped'
    BY <1>1, <1>3, <2>1, <2>2, <2>3, NewHeard DEF Pumped, Pumping, Goto
  <2> QED BY <1>1, <1>3, <2>4 DEF Streams, Pumping, Goto, Counted
<1> QED BY <1>2, <1>3 DEF ForwardResponse

\* Every step keeps the invariant of the stream.
LEMMA StepKeepsStreams ==
  ASSUME Streams, [Next]_vars
  PROVE  Streams'
<1>1. CASE \/ Authorize \/ ReadIncomingBody \/ BodyReadError \/ CheckRoute
           \/ IntoProxyBody \/ TranslateRequest \/ RewriteBody \/ Reserve \/ AcquireConcurrency
  <2>1. pc \notin Pumping \cup {"done"} /\ UNCHANGED pump
    BY <1>1 DEF Authorize, ReadIncomingBody, BodyReadError, CheckRoute, IntoProxyBody,
                TranslateRequest, RewriteBody, Reserve, AcquireConcurrency, Collects, Pumping
  <2>2. CASE \E what \in Answers \ {"stream"} : Return(what)
    BY <2>1, <2>2, HandlerReturns
  <2>3. CASE pc' \notin Pumping \cup {"done"} /\ UNCHANGED answer
    BY <2>1, <2>3, HandlerGoesOn DEF pump
  <2>4. \A what \in {"4xx", "5xx", "dead"} : what \in Answers \ {"stream"}
    BY DEF Answers
  <2>5. CASE Authorize \/ ReadIncomingBody \/ BodyReadError \/ CheckRoute \/ IntoProxyBody
    BY <2>2, <2>3, <2>4, <2>5
    DEF Authorize, ReadIncomingBody, BodyReadError, CheckRoute, IntoProxyBody, Goto, Pumping
  <2>6. CASE TranslateRequest \/ RewriteBody \/ Reserve \/ AcquireConcurrency
    BY <2>2, <2>3, <2>4, <2>6
    DEF TranslateRequest, RewriteBody, Reserve, AcquireConcurrency, Goto, Pumping
  <2> QED BY <1>1, <2>5, <2>6
<1>2. CASE \/ AcquireExcluding \/ NoBackend \/ CounterUnavailable \/ PrepareAttempt
           \/ AttemptFails \/ ResponseArrives
  <2>1. pc \notin Pumping \cup {"done"} /\ UNCHANGED pump
    BY <1>2 DEF AcquireExcluding, NoBackend, CounterUnavailable, PrepareAttempt, AttemptFails,
                ResponseArrives, Pumping
  <2>2. CASE \E what \in Answers \ {"stream"} : Return(what)
    BY <2>1, <2>2, HandlerReturns
  <2>3. CASE pc' \notin Pumping \cup {"done"} /\ UNCHANGED answer
    BY <2>1, <2>3, HandlerGoesOn DEF pump
  <2>4. \A what \in {"4xx", "5xx", "dead"} : what \in Answers \ {"stream"}
    BY DEF Answers
  <2>5. CASE AcquireExcluding \/ NoBackend \/ CounterUnavailable \/ AttemptFails
    BY <2>2, <2>3, <2>4, <2>5
    DEF AcquireExcluding, NoBackend, CounterUnavailable, AttemptFails, Goto, Pumping
  <2>6. CASE PrepareAttempt
    BY <2>2, <2>3, <2>4, <2>6 DEF PrepareAttempt, Goto, Pumping
  <2>7. CASE ResponseArrives
    <3>1. pc' \in {"choose", "respond"} /\ UNCHANGED answer
      BY <2>7 DEF ResponseArrives, Goto
    <3> QED BY <2>3, <3>1 DEF Pumping
  <2> QED BY <1>2, <2>5, <2>6, <2>7
<1>3. CASE ForwardResponse
  BY <1>3, ForwardStreams
<1>4. CASE BodyArrives \/ BodyFails
  BY <1>4, BufferStreams
<1>5. CASE ChunkArrives
  BY <1>5, ChunkStreams
<1>6. CASE Flushed \/ LastFlushed
  BY <1>6, FlushStreams
<1>7. CASE StreamEnds
  <2>1. /\ pc = "next" /\ UNCHANGED <<req, held, lines, tap, answer>>
        /\ tail \in LineKinds \cup {None} /\ (Bridge => Heard(t, lines))
    BY <1>7 DEF StreamEnds, handler, Streams, Pumped
  <2>2. PICK rest \in {tail, "junk", None} :
          tail' = rest /\ EndStream(FinishStream(t, rest), None)
    BY <1>7 DEF StreamEnds
  <2>3. rest \in LineKinds \cup {None}
    BY <2>1 DEF LineKinds, PlainLines
  <2>4. Bridge => Over(FinishStream(t, rest), IF rest = None THEN lines ELSE Append(lines, rest))
    BY <2>1, <2>3, FinishHeard
  <2> QED BY <2>1, <2>2, <2>3, <2>4, EndStreams
<1>8. CASE StreamFails \/ IdleTimeout
  <2>1. /\ pc = "next" /\ UNCHANGED <<req, held, lines, tail, tap, answer>>
        /\ tail \in LineKinds \cup {None} /\ (Bridge => Heard(t, lines))
    BY <1>8 DEF StreamFails, IdleTimeout, handler, Streams, Pumped
  <2>2. PICK error : EndStream(Fail(t), error)
    BY <1>8 DEF StreamFails, IdleTimeout, Abort
  <2>3. Bridge => Over(Fail(t), IF tail = None THEN lines ELSE Append(lines, tail))
    <3> SUFFICES ASSUME Bridge
                 PROVE  Over(Fail(t), IF tail = None THEN lines ELSE Append(lines, tail))
      OBVIOUS
    <3>1. Heard(Fail(t), lines) /\ Over(Fail(t), lines)
      BY <2>1, FailHeard
    <3>2. Fail(t).finished
      BY <3>1 DEF Over, Failed, Stopped
    <3> QED BY <2>1, <3>1, <3>2, HeardOver
  <2> QED BY <2>1, <2>2, <2>3, EndStreams
<1>9. CASE ClientStep \/ Done \/ UNCHANGED vars
  BY <1>9, StreamKept
  DEF ClientStep, ClientReads, ClientLeaves, Done, vars, handler, money, pump
<1>10. CASE DropHandler
  <2>1. pc \notin Pumping \cup {"done"} /\ pc' = "done" /\ UNCHANGED <<pump, answer>>
    BY <1>10 DEF DropHandler, AtAwait, Collects, Goto, Pumping
  <2>2. answer' # "stream"
    BY <2>1, RequestAssumptions DEF Streams, Answers
  <2> QED BY <2>1, <2>2, HandlerEnds DEF pump
<1> QED
  BY <1>1, <1>2, <1>3, <1>4, <1>5, <1>6, <1>7, <1>8, <1>9, <1>10
  DEF Next, TaskStep, UploadStep, UpstreamStep

\* Before the request is read there is no stream.
LEMMA InitStreams ==
  ASSUME Init
  PROVE  Streams
<1>1. <<>> \in Seq(LineKinds) /\ ~HasUsage(<<>>)
  BY EmptySeq, UsageEmpty
<1>2. /\ pc = "auth" /\ lines = <<>> /\ tail = None /\ t = NewTranslator /\ answer = None
      /\ tap = FALSE
  BY DEF Init
<1> QED BY <1>1, <1>2 DEF Streams, Pumped, Pumping, Counted

\* Where the client of a translator is.
LEMMA HeardPoint ==
  ASSUME NEW s, NEW read, Heard(s, read)
  PROVE  /\ Client(s.out).at \in {"new", "message", "block", "stopped", "failed"}
         /\ s.finished => Client(s.out).at \in {"stopped", "failed"}
         /\ Client(s.out).at = "stopped" =>
              Stopped(s, Said(read)) /\ HasDone(read)
<1>1. CASE Hears(s, read)
  <2>1. PICK at \in {"new", "message", "block"} : \E next : At(s.out, at, next, Words(read))
    BY <1>1 DEF Hears, Live, Tracks
  <2>2. Client(s.out).at = at
    BY <2>1 DEF At
  <2>3. ~s.finished
    BY <1>1 DEF Hears, Live
  <2> QED BY <2>2, <2>3
<1>2. CASE Failed(s)
  BY <1>2 DEF Failed
<1>3. CASE Stopped(s, Said(read)) /\ HasDone(read)
  BY <1>3 DEF Stopped
<1> QED BY <1>1, <1>2, <1>3 DEF Heard

\* Where a translator that has finished leaves the client.
LEMMA OverPoint ==
  ASSUME NEW s, NEW read, Over(s, read)
  PROVE  /\ s.finished /\ Client(s.out).at \in {"stopped", "failed"}
         /\ s.error = None => Client(s.out).at = "stopped"
         /\ Client(s.out).at = "stopped" => Content(s.out) = Said(read)
<1>1. CASE Failed(s)
  BY <1>1, BridgeAssumptions DEF Failed
<1>2. CASE Stopped(s, Said(read))
  BY <1>2 DEF Stopped
<1> QED BY <1>1, <1>2 DEF Over

\* What a client has seen is where it is after the last event.
LEMMA SeenIsPoint == \A events : Seen(events) = Client(events).at
BY DEF Seen, Client

\* What has come is what the translator has read.
LEMMA SaidRead ==
  ASSUME Streams, HasDone(lines)
  PROVE  Said(Read) = Said(lines)
BY SaidAfter DEF Streams, Read

\* What the client is told follows from the invariant ...
LEMMA StreamsImplies ==
  ASSUME Streams
  PROVE  StreamWellFormed /\ ContentKept
<1> USE SeenIsPoint
<1>1. CASE pc \notin Pumping \cup {"done"}
  <2>1. t = NewTranslator /\ answer = None
    BY <1>1 DEF Streams
  <2>2. answer # "stream" /\ pc # "done"
    BY <1>1, <2>1, RequestAssumptions DEF Answers
  <2> QED BY <2>1, <2>2, NewIsFresh DEF StreamWellFormed, ContentKept
<1>2. CASE pc \in Pumping
  <2>1. pc # "done"
    BY <1>2 DEF Pumping
  <2>2. CASE ~Bridge
    BY <1>2, <2>1, <2>2, NewIsFresh
    DEF Streams, Pumped, StreamWellFormed, ContentKept
  <2>3. CASE Bridge /\ pc \in {"next", "flush"}
    <3>1. Heard(t, lines)
      BY <2>3 DEF Streams, Pumped
    <3>2. Client(t.out).at = "stopped" => Content(t.out) = Said(Read)
      BY <3>1, HeardPoint, SaidRead DEF Stopped
    <3> QED BY <2>1, <3>1, <3>2, HeardPoint
            DEF StreamWellFormed, ContentKept, Read
  <2>4. CASE Bridge /\ pc = "last"
    <3>1. Over(t, Read)
      BY <2>4 DEF Streams, Pumped
    <3> QED BY <2>1, <3>1, OverPoint DEF StreamWellFormed, ContentKept, Read
  <2> QED BY <1>2, <2>2, <2>3, <2>4 DEF Pumping
<1>3. CASE pc = "done" /\ EndedWithout
  BY <1>3, NewIsFresh DEF EndedWithout, StreamWellFormed, ContentKept
<1>4. CASE pc = "done" /\ EndedWith
  <2>1. CASE Heard(t, lines) /\ row.aborted
    <3>1. Client(t.out).at = "stopped" => Content(t.out) = Said(Read)
      BY <2>1, HeardPoint, SaidRead DEF Stopped
    <3> QED BY <2>1, <3>1, HeardPoint DEF StreamWellFormed, ContentKept
  <2>2. CASE Over(t, Read) /\ (t.error # None => row.error)
    BY <2>2, OverPoint DEF StreamWellFormed, ContentKept
  <2> QED BY <1>4, <2>1, <2>2 DEF EndedWith
<1> QED BY <1>1, <1>2, <1>3, <1>4 DEF Streams

\* ... and what is charged.
LEMMA StreamsCounts ==
  ASSUME Streams
  PROVE  UsageCounted
BY DEF Streams, Counted, UsageCounted, HasUsage

\* Streams is an invariant.
LEMMA StreamsInvariant == Spec => []Streams
<1>1. Init => Streams
  BY InitStreams
<1>2. Streams /\ [Next]_vars => Streams'
  BY StepKeepsStreams
<1> QED
  BY <1>1, <1>2, PTL DEF Spec

\* Whatever lines the upstream sends, in whatever chunks, and wherever it breaks
\* off, SseTranslator and message_to_sse keep to the order of events that an
\* Anthropic client accepts; a stream that has ended was stopped or ended in an
\* error event, and a row without an error goes with a message that was stopped.
THEOREM RequestStreamWellFormed == Spec => []StreamWellFormed
<1>1. Streams => StreamWellFormed
  BY StreamsImplies
<1> QED
  BY <1>1, StreamsInvariant, PTL

\* A bridged stream that was stopped carried every piece of text and thinking that
\* came before [DONE], in order and once, and then one tool call for every index
\* that occurred (process_line, tool_delta, finalize, finish).
THEOREM RequestContentKept == Spec => []ContentKept
<1>1. Streams => ContentKept
  BY StreamsImplies
<1> QED
  BY <1>1, StreamsInvariant, PTL

\* A streamed request is charged what the upstream reported if and only if some
\* line, finished or not, had a usage that SseUsageTap understands, whatever the
\* translator made of it and however the stream ended.
THEOREM RequestUsageCounted == Spec => []UsageCounted
<1>1. Streams => UsageCounted
  BY StreamsCounts
<1> QED
  BY <1>1, StreamsInvariant, PTL
=============================================================================
