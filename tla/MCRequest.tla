----------------------------- MODULE MCRequest -----------------------------
(***************************************************************************)
(* Request on small instances.  The tool calls are exercised by requests   *)
(* that do not stream, the translation of streams by one conversation.     *)
(***************************************************************************)
EXTENDS Request

CONSTANTS b1, b2, begin0, end0, object0, whole1

\* Configurations

Key(enabled, team, expired, allowed) ==
  [enabled |-> enabled, team |-> team, expired |-> expired, allowed |-> allowed]
GoodKey == Key(TRUE, "enabled", FALSE, TRUE)

Route(shape, bridge, ids, fallback, group, rewrite, enabled) ==
  [shape |-> shape, bridge |-> bridge, ids |-> ids, fallback |-> fallback,
   group |-> group, rewrite |-> rewrite, enabled |-> enabled]

Openai == [enabled |-> TRUE, format |-> "openai"]
Anthropic == [enabled |-> TRUE, format |-> "anthropic"]
Off == [enabled |-> FALSE, format |-> "openai"]

Config(key, route, x1, x2) ==
  [key |-> key, route |-> route, backends |-> (b1 :> x1 @@ b2 :> x2)]

SingleRoute == Route("chat", FALSE, {b1}, None, FALSE, FALSE, TRUE)
BridgeRoute == Route("chat", TRUE, {b1}, b2, FALSE, TRUE, TRUE)
GroupRoute == Route("chat", TRUE, {b1, b2}, None, TRUE, FALSE, TRUE)
AudioRoute == Route("audio", FALSE, {b1}, b2, FALSE, TRUE, TRUE)

SmallConfigs ==
  {Config(GoodKey, SingleRoute, Openai, Openai),
   Config(GoodKey, BridgeRoute, Openai, Openai),
   Config(GoodKey, BridgeRoute, Anthropic, Off),
   Config(GoodKey, GroupRoute, Off, Openai),
   Config(GoodKey, AudioRoute, Openai, None),
   Config(GoodKey, AudioRoute, None, None),
   Config(Key(TRUE, None, FALSE, TRUE), SingleRoute, Openai, Openai),
   Config(Key(TRUE, "enabled", FALSE, FALSE), SingleRoute, Openai, Openai)}

\* Requests

Block(kind, id) == [kind |-> kind, id |-> id]
Message(role, blocks) == [role |-> role, blocks |-> blocks]

Text == Block("text", 0)
Hello == Message("user", <<Text>>)

\* An assistant's turn and the user's answer to it, well paired or not.
Turns ==
  {Message("assistant", blocks) : blocks \in
     {<<>>, <<Text>>, <<Block("thinking", 0)>>, <<Text, Block("tool_use", 1)>>,
      <<Block("tool_use", 1), Block("tool_use", 2)>>}}
Replies ==
  {Message("user", blocks) : blocks \in
     {<<Text>>, <<Block("tool_result", 1)>>, <<Text, Block("tool_result", 1)>>,
      <<Block("tool_result", 1), Block("image", 0), Block("tool_result", 2)>>,
      <<Block("tool_result", 2), Block("tool_result", 1)>>, <<Block("video", 0)>>}}

System == Message("system", <<Text>>)

Conversations ==
  {<<>>, <<System>>, <<Hello, System>>}
  \cup {<<Hello, turn, reply>> : turn \in Turns, reply \in Replies}
  \cup {<<Hello, turn, System, reply>> : turn \in Turns, reply \in Replies}

Request(path, stream, large, conv) ==
  [path |-> path, stream |-> stream, large |-> large, conv |-> conv]

SmallRequests ==
  {Request("messages", FALSE, FALSE, conv) : conv \in Conversations}
  \cup {Request("messages", TRUE, FALSE, <<Hello>>),
        Request("messages", FALSE, TRUE, <<Hello>>),
        Request("chat", TRUE, TRUE, <<Hello>>),
        Request("chat", FALSE, TRUE, <<Hello>>),
        Request("audio", FALSE, FALSE, <<Hello>>)}

\* The first call in two pieces, or with an object that replaces what came
\* before; the second call in one piece.
Piece(index, name, args) == [index |-> index, name |-> name, args |-> args]

SmallPieces ==
  begin0 :> Piece(0, TRUE, "head") @@ end0 :> Piece(0, FALSE, "rest")
  @@ object0 :> Piece(0, FALSE, "object") @@ whole1 :> Piece(1, TRUE, "whole")

SmallDocuments == {<<>>, <<"tool", "text", "thinking", "tool">>, <<"badtool">>}
=============================================================================
