---------------------------- MODULE BridgeStream ----------------------------
(***************************************************************************)
(* SseTranslator and message_to_sse (src/src/bridge/stream.rs), with       *)
(* build_message (src/src/bridge/response.rs): the answer of an OpenAI     *)
(* upstream as a stream of Anthropic events.                               *)
(*                                                                         *)
(* A line of the upstream's stream is one of LineKinds: what its delta     *)
(* adds ("text", "thinking", a piece of a tool call), a "finish" reason,   *)
(* the usage, "done" for [DONE], and "junk" for an error or what is not    *)
(* JSON.  "huge" is text beyond SSE_LINE_LIMIT.  A chunk that says several *)
(* of these things is several lines.  There are three kinds of usage line: *)
(* "usage" has both counts in the usage object of a data line; "partial"   *)
(* has one count only, or has no `data:` before it; "nested" has them in a *)
(* response object, or has counts of zero.                                 *)
(*                                                                         *)
(* An event is its name and the index of its block; the name of a delta is *)
(* what it carries.                                                        *)
(***************************************************************************)
EXTENDS Naturals, Sequences, FiniteSets, SequencesExt

CONSTANTS
  None,
  ToolLines,  \* the lines with a piece of a tool call
  PieceOf     \* the piece: a function from ToolLines to Pieces

\* The index a piece has, or else its position among the calls of its chunk
\* (0 for a function_call); whether it has a name; and what it has of the
\* arguments: nothing, a JSON text or the first or second half of one, or an
\* object.
Pieces ==
  [index : Nat, name : BOOLEAN, args : {"none", "whole", "head", "rest", "object"}]

\* What the usage tap and the translator each understand.
TapUsage == {"usage", "nested"}
OwnUsage == {"usage", "partial"}

PlainLines == {"text", "thinking", "finish", "done", "junk", "huge"}
                \cup TapUsage \cup OwnUsage
LineKinds == PlainLines \cup ToolLines

ASSUME BridgeAssumptions ==
  /\ None \notin LineKinds \cup {"failed"} \cup [kind : {"text", "thinking"}, index : Nat]
  /\ ToolLines \cap PlainLines = {}
  /\ PieceOf \in [ToolLines -> Pieces]

Ev(name, index) == [name |-> name, index |-> index]

\* SseTranslator::new.  The bytes of an unfinished line are the caller's.
NewTranslator ==
  [started |-> FALSE, finished |-> FALSE, next |-> 0, open |-> None, tools |-> <<>>,
   emitted |-> FALSE, usage |-> FALSE, error |-> None, out |-> <<>>]

\* The elements of a sequence that are in a set.
Only(s, set) ==
  LET only[n \in 0..Len(s)] ==
        IF n = 0 THEN <<>>
        ELSE IF s[n] \in set THEN Append(only[n - 1], s[n]) ELSE only[n - 1]
  IN only[Len(s)]

Emit(t, events) == [t EXCEPT !.out = @ \o events]

(***************************************************************************)
(* Blocks                                                                  *)
(***************************************************************************)

EnsureStarted(t) ==
  IF t.started THEN t
  ELSE [Emit(t, <<Ev("message_start", 0)>>) EXCEPT !.started = TRUE]

\* A thinking block gets its signature before it stops.
CloseOpen(t) ==
  IF t.open = None THEN t
  ELSE LET i == t.open.index
           last == IF t.open.kind = "thinking" THEN <<Ev("signature", i)>> ELSE <<>>
       IN [Emit(t, last \o <<Ev("block_stop", i)>>) EXCEPT !.open = None]

\* Mutant of OpenBlock: the block of the other kind stays open.
OpenBlockNested(t, kind) ==
  IF t.open # None /\ t.open.kind = kind THEN t
  ELSE LET s == EnsureStarted(t)
       IN [Emit(s, <<Ev("block_start", s.next)>>) EXCEPT
             !.next = @ + 1, !.emitted = TRUE,
             !.open = [kind |-> kind, index |-> s.next]]

\* open_text and open_thinking
OpenBlock(t, kind) ==
  IF t.open # None /\ t.open.kind = kind THEN t
  ELSE LET s == CloseOpen(EnsureStarted(t))
       IN [Emit(s, <<Ev("block_start", s.next)>>) EXCEPT
             !.next = @ + 1, !.emitted = TRUE,
             !.open = [kind |-> kind, index |-> s.next]]

\* emit_text and emit_thinking
EmitDelta(t, kind) ==
  LET s == OpenBlock(t, kind) IN Emit(s, <<Ev(kind, s.open.index)>>)

\* A block in one go.
WholeBlock(index, deltas) ==
  <<Ev("block_start", index)>> \o [d \in DOMAIN deltas |-> Ev(deltas[d], index)]
  \o <<Ev("block_stop", index)>>

(***************************************************************************)
(* Tool calls                                                              *)
(***************************************************************************)

\* The arguments so far: "" (which stands for {}), the first half of a JSON
\* text, a "json" text, or "bad" for what never becomes one.
\* append_tool_arguments: a string is appended, an object replaces.
Joined(args, piece) ==
  CASE piece = "none"                    -> args
    [] piece = "object"                  -> "json"
    [] piece = "whole" /\ args = ""      -> "json"
    [] piece = "head" /\ args = ""       -> "head"
    [] piece = "rest" /\ args = "head"   -> "json"
    [] OTHER                             -> "bad"

\* tool_delta and legacy_tool_delta: the piece goes to the call of its index.
ToolDelta(t, line) ==
  LET call == PieceOf[line]
      old == IF call.index \in DOMAIN t.tools THEN t.tools[call.index]
             ELSE [name |-> FALSE, args |-> ""]
      new == [name |-> old.name \/ call.name, args |-> Joined(old.args, call.args)]
  IN [t EXCEPT !.tools = [k \in DOMAIN t.tools \cup {call.index} |->
                            IF k = call.index THEN new ELSE t.tools[k]]]

\* A call without a name, or whose arguments are not JSON, is not translated.
Broken(tools) ==
  {k \in DOMAIN tools : ~tools[k].name \/ tools[k].args \in {"head", "bad"}}

(***************************************************************************)
(* Lines                                                                   *)
(***************************************************************************)

\* An error event ends the stream.
Fail(t) ==
  IF t.finished THEN t
  ELSE [Emit(CloseOpen(t), <<Ev("error", 0)>>) EXCEPT
          !.error = "failed", !.finished = TRUE]

Abort(t) == Fail(t)

\* finalize: tool calls become blocks now, in the order of their indexes, up to
\* one that cannot be translated; a message has at least one block.
Finalize(t) ==
  LET s == CloseOpen(EnsureStarted(t))
      bad == Broken(s.tools)
      good == Cardinality({k \in DOMAIN s.tools : \A j \in bad : k < j})
      blocks == FlattenSeq([k \in 1..good |-> WholeBlock(s.next + k - 1, <<"tool">>)])
      called == [Emit(s, blocks) EXCEPT !.next = @ + good, !.tools = <<>>,
                                        !.emitted = @ \/ good > 0]
      filled == IF called.emitted THEN called
                ELSE [Emit(called, WholeBlock(called.next, <<>>)) EXCEPT
                        !.next = @ + 1, !.emitted = TRUE]
  IN IF bad # {} THEN Fail(called)
     ELSE [Emit(filled, <<Ev("message_delta", 0), Ev("message_stop", 0)>>) EXCEPT
             !.finished = TRUE]

\* process_line and process_value
ProcessLine(t, line) ==
  IF t.finished THEN t ELSE
  CASE line \in {"text", "huge"} -> EmitDelta(t, "text")
    [] line = "thinking"         -> EmitDelta(t, "thinking")
    [] line \in ToolLines        -> ToolDelta(t, line)
    [] line = "finish"           -> CloseOpen(t)
    [] line \in OwnUsage         -> [t EXCEPT !.usage = TRUE]
    [] line = "nested"           -> t
    [] line = "done"             -> Finalize(t)
    [] line = "junk"             -> Fail(t)

\* feed: the complete lines of a chunk, and the line it leaves unfinished.
Feed(t, lines, tail) ==
  LET after[n \in 0..Len(lines)] ==
        IF n = 0 THEN t ELSE ProcessLine(after[n - 1], lines[n])
      s == after[Len(lines)]
  IN IF tail = "huge" THEN Fail(s) ELSE s

\* Mutant of FinishStream: a last line without a newline is not looked at.
FinishStreamNoTail(t, tail) == IF t.finished THEN t ELSE Finalize(t)

\* finish
FinishStream(t, tail) ==
  LET s == IF tail = None THEN t ELSE ProcessLine(t, tail)
  IN IF s.finished THEN s ELSE Finalize(s)

(***************************************************************************)
(* A whole document instead of a stream                                    *)
(***************************************************************************)

\* What a message may have: text, thinking, tool calls, a tool call that cannot
\* be translated, or what is no message at all.
Parts == {"text", "thinking", "tool", "badtool", "junk"}

\* The blocks of build_message: thinking, then text, then tools; or None for
\* what it cannot translate.
BuildMessage(doc) ==
  LET content == Only(doc, {"thinking"}) \o Only(doc, {"text"}) \o Only(doc, {"tool"})
  IN IF \E i \in DOMAIN doc : doc[i] \in {"badtool", "junk"} THEN None
     ELSE IF content = <<>> THEN <<"empty">> ELSE content

DeltasOf(block) ==
  CASE block = "thinking" -> <<"thinking", "signature">>
    [] block = "empty"    -> <<>>
    [] OTHER              -> <<block>>

MessageToSse(content) ==
  <<Ev("message_start", 0)>>
  \o FlattenSeq([i \in DOMAIN content |-> WholeBlock(i - 1, DeltasOf(content[i]))])
  \o <<Ev("message_delta", 0), Ev("message_stop", 0)>>

(***************************************************************************)
(* What an Anthropic client accepts, as a reference                        *)
(***************************************************************************)

Deltas == {"text", "thinking", "signature", "tool"}

\* One event, for a client that has seen `next` blocks and is `at` some point.
Accept(s, ev) ==
  CASE s.at = "new" /\ ev.name = "message_start" -> [s EXCEPT !.at = "message"]
    [] s.at = "message" /\ ev.name = "block_start" /\ ev.index = s.next ->
         [at |-> "block", next |-> s.next + 1]
    [] s.at = "block" /\ ev.name \in Deltas /\ ev.index = s.next - 1 -> s
    [] s.at = "block" /\ ev.name = "block_stop" /\ ev.index = s.next - 1 ->
         [s EXCEPT !.at = "message"]
    [] s.at = "message" /\ ev.name = "message_delta" /\ s.next > 0 ->
         [s EXCEPT !.at = "closing"]
    [] s.at = "closing" /\ ev.name = "message_stop" -> [s EXCEPT !.at = "stopped"]
    [] s.at \in {"new", "message"} /\ ev.name = "error" -> [s EXCEPT !.at = "failed"]
    [] OTHER -> [s EXCEPT !.at = "rejected"]

\* The client before and after each event.
Reading(events) ==
  LET client[n \in 0..Len(events)] ==
        IF n = 0 THEN [at |-> "new", next |-> 0]
        ELSE Accept(client[n - 1], events[n])
  IN client

Seen(events) == Reading(events)[Len(events)].at

\* What the client can put together from the events.
Content(events) ==
  LET names == [i \in DOMAIN events |-> events[i].name]
  IN Only(names, {"text", "thinking", "tool"})

\* The tool calls of these lines: pieces with the same index are one call.
Indexes(lines) ==
  {PieceOf[lines[i]].index : i \in {i \in DOMAIN lines : lines[i] \in ToolLines}}

\* What the upstream said up to [DONE]: text and thinking as they come, then the
\* tool calls.
Said(lines) ==
  LET end == SelectInSeq(lines, LAMBDA l : l = "done")
      upto == IF end = 0 THEN lines ELSE SubSeq(lines, 1, end)
      words == Only(upto, {"text", "thinking", "huge"})
  IN [i \in DOMAIN words |-> IF words[i] = "huge" THEN "text" ELSE words[i]]
     \o [k \in 1..Cardinality(Indexes(upto)) |-> "tool"]
=============================================================================
