--------------------------- MODULE MCStreamProxy ---------------------------
(* StreamProxy for TLC: the streams that providers send in each run. *)
EXTENDS StreamProxy

LFLF == <<"LF", "LF">>
Data(payload) == <<"data: ", payload>>

(* Two lines of any kind that each end the event, or the line, or neither  *)
(* (as in a stream with carriage returns), and a last event.               *)
Payloads ==
  {Data(p) : p \in {"usage", "null usage", "content", "not UTF-8"}} \cup {<<"text">>}

Separators == {<<"LF">>, LFLF, <<"CR", "LF">>}

ShortStreams ==
  {a \o s \o b \o t \o Data("usage") \o LFLF :
     a, b \in Payloads, s, t \in Separators}

(* What a provider sends that is asked for usage. *)
TypicalStream ==
  Data("content") \o LFLF \o Data("usage") \o LFLF \o Data("[DONE]") \o LFLF

AllStreams == ShortStreams \cup {TypicalStream}

NullUsageStreams ==
  { Data("null usage") \o LFLF \o Data("usage") \o LFLF \o Data("[DONE]") \o LFLF }
=============================================================================
