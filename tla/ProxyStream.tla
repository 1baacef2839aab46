---------------------------- MODULE ProxyStream ----------------------------
(***************************************************************************)
(* What the proxy makes of a response: sse.ts (the tee, its arrival marks,  *)
(* the events of the text) and the two dialects of capture-openai.ts and    *)
(* capture-anthropic.ts, which put a stream's fragments together again into  *)
(* the response that a client without `stream' would have got.              *)
(*                                                                          *)
(* An answer is [dialect, named, blocks, usage]: blocks is a sequence of     *)
(* [kind, pieces], "text", "tool" or "thinking" with the number of its       *)
(* fragments; fragment k of block b is <<b, k>>.  The upstream emits an       *)
(* answer as events, one after the other; each is two characters of text,    *)
(* and a network chunk may end in the middle of one.                         *)
(***************************************************************************)
EXTENDS Integers, Sequences, FiniteSets, SequencesExt, FiniteSetsExt

CONSTANTS Answers,    \* the answers upstreams give
          MaxChunks   \* bound: chunks of a response

VARIABLES answer,   \* what the upstream answers
          events,   \* the events it has emitted
          marks,    \* the tee's marks: how much text had arrived, chunk by chunk
          ended     \* "no", "whole" or "cut": closed before its last event
streamVars == <<answer, events, marks, ended>>

OpenAI(a) == a.dialect = "openai"
Blocks(a) == DOMAIN a.blocks
Fragments(a, b) == [k \in 1..a.blocks[b].pieces |-> <<b, k>>]
OfKind(a, kind) == SelectSeq([b \in Blocks(a) |-> b], LAMBDA b : a.blocks[b].kind = kind)
Flat(seqs) ==
  LET flat[k \in 0..Len(seqs)] == IF k = 0 THEN <<>> ELSE flat[k - 1] \o seqs[k]
  IN  flat[Len(seqs)]

-----------------------------------------------------------------------------
(* A message is [model, texts, tools, usage]; texts are the blocks of text,   *)
(* tools are [id, args], usage is what was reported.  The body of a response   *)
(* that is not streamed holds it; OpenAI has one text.                        *)
Texts(a) ==
  LET parts == [k \in DOMAIN OfKind(a, "text") |-> Fragments(a, OfKind(a, "text")[k])]
  IN  IF OpenAI(a) THEN <<Flat(parts)>> ELSE parts
Tools(a) ==
  [k \in DOMAIN OfKind(a, "tool") |->
     [id |-> OfKind(a, "tool")[k], args |-> Fragments(a, OfKind(a, "tool")[k])]]

Body(a) == [model |-> a.named, texts |-> Texts(a), tools |-> Tools(a), usage |-> a.usage]

\* shapeFromResponse, shapeFromMessage: the first tool call, else the text if
\* there is any, else thinking only.  OpenAI tells a cache that is not reported
\* from one that is empty.
Shape(m) ==
  [action |-> IF m.tools # <<>> THEN [kind |-> "tool_call", of |-> m.tools[1]]
              ELSE IF Flat(m.texts) # <<>> THEN [kind |-> "message", of |-> m.texts]
              ELSE [kind |-> "thinking_only", of |-> <<>>],
   tokens |-> m.usage]

-----------------------------------------------------------------------------
(* The events.  Every fragment is a delta; Anthropic brackets a block's       *)
(* deltas, and the blocks follow one another; OpenAI hosts send thinking,     *)
(* text and calls as they come, usage at the end.                             *)
SseEvent(type, block, piece) == [type |-> type, block |-> block, piece |-> piece]
Emitted(type, block) == {k \in DOMAIN events : events[k].type = type /\ events[k].block = block}
Sent(b) == Cardinality(Emitted("delta", b))
Over(a, b) == Sent(b) = a.blocks[b].pieces
Is(type) == \E k \in DOMAIN events : events[k].type = type
Closed(a, b) == Emitted("stop", b) # {}
AllOut(a) == \A b \in Blocks(a) : Over(a, b) /\ (OpenAI(a) \/ Closed(a, b))

NextEvents(a) ==
  LET deltas == {SseEvent("delta", b, Sent(b) + 1) : b \in {c \in Blocks(a) : ~Over(a, c)}}
      open == {b \in Blocks(a) : Emitted("start", b) # {} /\ ~Closed(a, b)}
      fresh == {b \in Blocks(a) : Emitted("start", b) = {} /\ \A c \in 1..(b - 1) : Closed(a, c)}
  IN  IF OpenAI(a)
      THEN deltas \union (IF AllOut(a) /\ ~Is("usage") THEN {SseEvent("usage", 0, 0)} ELSE {})
      ELSE IF ~Is("message") THEN {SseEvent("message", 0, 0)}
      ELSE {d \in deltas : d.block \in open}
             \union {SseEvent("stop", b, 0) : b \in {c \in open : Over(a, c)}}
             \union {SseEvent("start", b, 0) : b \in fresh}
             \union (IF AllOut(a) /\ ~Is("usage") THEN {SseEvent("usage", 0, 0)} ELSE {})

-----------------------------------------------------------------------------
(* reassembleOpenAIResponse and reassembleAnthropicMessage.                   *)

DeltasOf(evs, blocks) == SelectSeq(evs, LAMBDA e : e.type = "delta" /\ e.block \in blocks)
PiecesOf(evs, blocks) ==
  [k \in DOMAIN DeltasOf(evs, blocks) |->
     <<DeltasOf(evs, blocks)[k].block, DeltasOf(evs, blocks)[k].piece>>]
Has(evs, type, block) == \E k \in DOMAIN evs : evs[k].type = type /\ evs[k].block = block
KindBlocks(a, kind) == {b \in Blocks(a) : a.blocks[b].kind = kind}

\* Mutant of OpenAITools: fragments go to the call met last, not to their index.
OpenAIToolsUnindexed(a, evs) ==
  LET met == SelectSeq(OfKind(a, "tool"), LAMBDA b : Has(evs, "delta", b))
  IN  [k \in DOMAIN met |->
         [id |-> met[k],
          args |-> IF k = Len(met) THEN PiecesOf(evs, KindBlocks(a, "tool")) ELSE <<>>]]

\* Fragments of a call are collected under its index, the calls in its order.
OpenAITools(a, evs) ==
  LET met == SelectSeq(OfKind(a, "tool"), LAMBDA b : Has(evs, "delta", b))
  IN  [k \in DOMAIN met |-> [id |-> met[k], args |-> PiecesOf(evs, {met[k]})]]

\* Nothing but DONE and a usage of a host that names no model is no response.
OpenAIResponse(a, evs) ==
  IF ~a.named /\ \A k \in DOMAIN evs : evs[k].type # "delta" THEN <<>>
  ELSE <<[model |-> a.named /\ evs # <<>>, texts |-> <<PiecesOf(evs, KindBlocks(a, "text"))>>,
          tools |-> OpenAITools(a, evs),
          usage |-> IF Has(evs, "usage", 0) THEN a.usage ELSE 0]>>

\* A block starts empty; a tool's input is parsed when the block stops.
AnthropicTools(a, evs) ==
  LET met == SelectSeq(OfKind(a, "tool"), LAMBDA b : Has(evs, "start", b))
  IN  [k \in DOMAIN met |->
         [id |-> met[k],
          args |-> IF Has(evs, "stop", met[k]) THEN PiecesOf(evs, {met[k]}) ELSE <<>>]]
AnthropicTexts(a, evs) ==
  LET met == SelectSeq(OfKind(a, "text"), LAMBDA b : Has(evs, "start", b))
  IN  [k \in DOMAIN met |-> PiecesOf(evs, {met[k]})]

\* message_start's usage is patched by message_delta's.
AnthropicMessage(a, evs) ==
  IF ~Has(evs, "message", 0) THEN <<>>
  ELSE <<[model |-> a.named, texts |-> AnthropicTexts(a, evs), tools |-> AnthropicTools(a, evs),
          usage |-> IF Has(evs, "usage", 0) THEN a.usage ELSE 1]>>

Reassembled(a, evs) ==
  IF OpenAI(a) THEN OpenAIResponse(a, evs) ELSE AnthropicMessage(a, evs)

-----------------------------------------------------------------------------
(* Timing: the offset of the first delta, of any kind and of one that shows    *)
(* (text or arguments), and the mark of the chunk that brought its text.       *)
Offset(k) == 2 * (k - 1)
TimeAtOffset(at) == Min({m \in DOMAIN marks : marks[m] > at})
Deltas(a, kinds) ==
  {k \in DOMAIN events : events[k].type = "delta" /\ a.blocks[events[k].block].kind \in kinds}
FirstAt(ks) == IF ks = {} THEN 0 ELSE TimeAtOffset(Offset(Min(ks)))
FirstDelta(a) == FirstAt(Deltas(a, {"text", "tool", "thinking"}))
FirstVisible(a) == FirstAt(Deltas(a, {"text", "tool"}))

-----------------------------------------------------------------------------
Arrived == IF marks = <<>> THEN 0 ELSE Last(marks)
AllText == 2 * Len(events)

Emit ==
  /\ ended = "no"
  /\ \E e \in NextEvents(answer) : events' = Append(events, e)
  /\ UNCHANGED <<answer, marks, ended>>

\* A chunk arrives at the tee: some of what was sent and has not come.
ChunkArrives ==
  /\ ended = "no" /\ Len(marks) < MaxChunks
  /\ \E upto \in (Arrived + 1)..AllText : marks' = Append(marks, upto)
  /\ UNCHANGED <<answer, events, ended>>

\* The upstream closes the stream, in good order or in the middle.  (A reset
\* rejects the capture: Proxy's ExchangeFails.)
StreamEnds ==
  /\ ended = "no" /\ Arrived = AllText
  /\ ended' = IF NextEvents(answer) = {} THEN "whole" ELSE "cut"
  /\ UNCHANGED <<answer, events, marks>>

StreamInit == answer \in Answers /\ events = <<>> /\ marks = <<>> /\ ended = "no"
StreamNext == Emit \/ ChunkArrives \/ StreamEnds

-----------------------------------------------------------------------------
\* A streamed exchange is captured as the same exchange not streamed would be,
\* however its fragments interleave; one that was cut off shows no text or
\* arguments that were not sent, and no other call than the answer's first.  What
\* shows first cannot be reported before what came first.
StreamedAsBuffered ==
  LET got == Reassembled(answer, events)
      whole == Shape(Body(answer))
  IN  ended # "no" =>
        /\ ended = "whole" /\ (answer.named \/ answer.blocks # <<>>)
             => got # <<>> /\ Shape(got[1]) = whole
        /\ ended = "cut" /\ got # <<>> /\ Shape(got[1]).action.kind = "message"
             => IsPrefix(Flat(got[1].texts), Flat(Body(answer).texts))
        /\ FirstVisible(answer) # 0 => FirstDelta(answer) \in 1..FirstVisible(answer)
=============================================================================
