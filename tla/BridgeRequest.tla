---------------------------- MODULE BridgeRequest ----------------------------
(***************************************************************************)
(* anthropic_to_openai (src/src/bridge/request.rs): the conversation of a  *)
(* /v1/messages request rewritten as an OpenAI chat.                       *)
(*                                                                         *)
(* A message is [role, blocks]; of a block the model keeps its kind, and   *)
(* the id that ties a tool_use to its tool_result.  Of a translated        *)
(* message it keeps the role and the ids of the calls it makes or answers. *)
(***************************************************************************)
EXTENDS Naturals, Sequences, FiniteSets, SequencesExt

Kinds(blocks) == {blocks[i].kind : i \in DOMAIN blocks}
OfKind(blocks, kind) == SelectSeq(blocks, LAMBDA b : b.kind = kind)
Ids(blocks) == {blocks[i].id : i \in DOMAIN blocks}

OpenAi(role, ids) == [role |-> role, ids |-> ids]

\* Mutant of ConvertUserMessage: what the user says keeps its place.
ConvertUserInPlace(blocks) ==
  LET results == OfKind(blocks, "tool_result")
      said == IF Kinds(blocks) \cap {"text", "image"} = {} THEN <<>>
              ELSE <<OpenAi("user", {})>>
      answers == [i \in DOMAIN results |-> OpenAi("tool", {results[i].id})]
  IN IF blocks # <<>> /\ blocks[1].kind = "text" THEN said \o answers
     ELSE answers \o said

\* The results first, each a message of its own, then what the user says.
ConvertUserMessage(blocks) ==
  LET results == OfKind(blocks, "tool_result")
  IN [i \in DOMAIN results |-> OpenAi("tool", {results[i].id})]
     \o IF Kinds(blocks) \cap {"text", "image"} = {} THEN <<>>
        ELSE <<OpenAi("user", {})>>

\* One message with all its calls; nothing if there is only thinking.
ConvertAssistantMessage(blocks) ==
  IF Kinds(blocks) \cap {"text", "tool_use"} = {} THEN <<>>
  ELSE <<OpenAi("assistant", Ids(OfKind(blocks, "tool_use")))>>

\* System messages are taken out.
ConvertMessage(m) ==
  CASE m.role = "user"      -> ConvertUserMessage(m.blocks)
    [] m.role = "assistant" -> ConvertAssistantMessage(m.blocks)
    [] m.role = "system"    -> <<>>

\* The kinds of blocks a role may use.
Understood(m) ==
  Kinds(m.blocks) \subseteq
    CASE m.role = "user"      -> {"text", "image", "tool_result", "thinking"}
      [] m.role = "assistant" -> {"text", "tool_use", "thinking"}
      [] m.role = "system"    -> {"text"}

\* parse_system and system_message_text: all system text, in one message, first.
SystemMessage(conv) ==
  IF \E i \in DOMAIN conv : conv[i].role = "system" /\ conv[i].blocks # <<>>
  THEN <<OpenAi("system", {})>> ELSE <<>>

Chat(conv) == FlattenSeq([i \in DOMAIN conv |-> ConvertMessage(conv[i])])

\* The errors of anthropic_to_openai; the handler turns them into a 400.
Translatable(conv) ==
  /\ \A i \in DOMAIN conv : Understood(conv[i])
  /\ conv # <<>> /\ Chat(conv) # <<>>

AnthropicToOpenAi(conv) == SystemMessage(conv) \o Chat(conv)

(***************************************************************************)
(* What the two dialects ask of tool calls                                 *)
(***************************************************************************)

Unsystemed(conv) == SelectSeq(conv, LAMBDA m : m.role # "system")

Calls(m) == IF m.role = "assistant" THEN Ids(OfKind(m.blocks, "tool_use")) ELSE {}
Results(m) == IF m.role = "user" THEN Ids(OfKind(m.blocks, "tool_result")) ELSE {}

\* Anthropic: the message after one with calls brings their results, and there
\* are no other results.
Paired(conv) ==
  LET c == Unsystemed(conv)
  IN /\ \A i \in DOMAIN c :
          Calls(c[i]) = IF i = Len(c) THEN {} ELSE Results(c[i + 1])
     /\ c # <<>> => Results(c[1]) = {}

\* OpenAI: the tool messages right after one with calls answer all of them, and
\* there are no others; a system message comes first.
Answered(msgs) ==
  LET Role(i) == IF i \in DOMAIN msgs THEN msgs[i].role ELSE "end"
      \* the messages answering the calls of msgs[i]
      Run(i) == {j \in (i + 1)..Len(msgs) : \A k \in (i + 1)..j : Role(k) = "tool"}
  IN /\ \A i \in DOMAIN msgs : Role(i) = "assistant" =>
          UNION {msgs[j].ids : j \in Run(i)} = msgs[i].ids
     /\ \A j \in DOMAIN msgs : Role(j) = "tool" =>
          \E i \in 1..(j - 1) : Role(i) = "assistant" /\ j \in Run(i)
     /\ \A j \in DOMAIN msgs : Role(j) = "system" => j = 1
=============================================================================
