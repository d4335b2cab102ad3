----------------------------- MODULE SseParser -----------------------------
(***************************************************************************)
(* The incremental parser of src/proxy/sse_parser.rs: chunks are pushed    *)
(* into a buffer and complete events come out.                             *)
(*                                                                         *)
(* A stream is a sequence of tokens, of which only those the parser can    *)
(* tell apart are distinguished: line feeds and carriage returns, the      *)
(* prefix of a data line, and what may follow it: JSON with a usage        *)
(* object, JSON whose usage is null, JSON with a content delta, [DONE],    *)
(* any other text, and bytes that are not UTF-8.  Chunks are cut between   *)
(* tokens; a cut inside one would leave the same bytes in the buffer.      *)
(***************************************************************************)
EXTENDS SequencesExt, Integers

CONSTANT UsageTokens  \* what a usage object says, prompt and completion

ASSUME UsageAssumption == UsageTokens \in Nat

Tokens ==
  {"LF", "CR", "data: ", "usage", "null usage", "content", "[DONE]", "text", "not UTF-8"}

NoUsage == -1

----------------------------------------------------------------------------
(* find_event_end: where the first pair of line feeds starts, 0 if nowhere *)
FindEventEnd(buffer) ==
  SelectInSubSeq([i \in 1 .. Len(buffer) |-> SubSeq(buffer, i, i + 1)],
                 1, Len(buffer) - 1,
                 LAMBDA window : window = <<"LF", "LF">>)

(* The loop of push: events are split off the front of the buffer while    *)
(* there is one; those that are not UTF-8 are dropped.                     *)
Extract[buffer \in Seq(Tokens)] ==
  LET idx == FindEventEnd(buffer) IN
  IF idx = 0 THEN [events |-> <<>>, buffer |-> buffer]
  ELSE LET event == SubSeq(buffer, 1, idx + 1)
           more  == Extract[SubSeq(buffer, idx + 2, Len(buffer))]
       IN  [more EXCEPT !.events =
              IF Contains(event, "not UTF-8") THEN @ ELSE <<event>> \o @]

PushForgetting(buffer, chunk) == Extract[chunk]  \* mutant: no partial events

Push(buffer, chunk) == Extract[buffer \o chunk]

(* The lines of an event; a carriage return goes with its line feed. *)
EndOfLine(event, i) ==
  SelectInSubSeq(event, i, Len(event), LAMBDA token : token = "LF")

LineAt(event, i) ==
  LET line == SubSeq(event, i, EndOfLine(event, i) - 1) IN
  IF line # <<>> /\ Last(line) = "CR" THEN Front(line) ELSE line

Lines(event) ==
  {LineAt(event, i) : i \in {j \in 1 .. Len(event) : j = 1 \/ event[j - 1] = "LF"}}

(* is_content_event: some line has a content delta. *)
IsContentEvent(event) == <<"data: ", "content">> \in Lines(event)

(* extract_usage: what the first line with a usage in it says.  A usage    *)
(* that is no object has no counts, and those default to zero.             *)
UsageAtPromptOnly(event, i) ==  \* mutant: completion tokens are left out
  CASE LineAt(event, i) = <<"data: ", "usage">>      -> UsageTokens \div 2
    [] LineAt(event, i) = <<"data: ", "null usage">> -> 0
    [] OTHER                                         -> NoUsage

UsageAt(event, i) ==
  CASE LineAt(event, i) = <<"data: ", "usage">>      -> UsageTokens
    [] LineAt(event, i) = <<"data: ", "null usage">> -> 0
    [] OTHER                                         -> NoUsage

ExtractUsage(event) ==
  LET usages == {i \in 1 .. Len(event) :
                   (i = 1 \/ event[i - 1] = "LF") /\ UsageAt(event, i) # NoUsage}
  IN  IF usages = {} THEN NoUsage ELSE UsageAt(event, Min(usages))

----------------------------------------------------------------------------
(* What the events of a stream are when it is read a token at a time: an   *)
(* event ends with every line feed that follows one in the same event.     *)
Read(state, token) ==
  LET read == Append(state.buffer, token) IN
  IF token = "LF" /\ state.buffer # <<>> /\ Last(state.buffer) = "LF"
    THEN [ buffer |-> <<>>,
           events |-> IF Contains(read, "not UTF-8") THEN state.events
                      ELSE Append(state.events, read) ]
    ELSE [state EXCEPT !.buffer = read]

ReadAll(stream) == FoldLeft(Read, [events |-> <<>>, buffer |-> <<>>], stream)
=============================================================================
