----------------------------- MODULE LineStream -----------------------------
(***************************************************************************)
(* The transform streams of the console that carry state from one chunk to *)
(* the next: LineTokenizer and JSONLineDecoder of apis/globalping.ts, the   *)
(* numbering EventAdapter of apis/httpprobe.ts behind them, and the parser *)
(* of 32-bit words of utls/streams.ts.  The network cuts the body anywhere, *)
(* between CR and LF too.                                                  *)
(***************************************************************************)
EXTENDS Integers, Sequences, SequencesExt, Filters

CONSTANTS Text,        \* characters of a line that parses
          MaxText      \* bound: characters of a body

CR == "cr"
LF == "lf"
Bad == "bad"           \* makes a line one that is null or does not parse
Mute == "mute"         \* makes a line one that is no event (no source, no date, ...)

Chars == Text \cup {CR, LF, Bad, Mute}

VARIABLES body,      \* history: what has arrived
          buffer,    \* buffer of LineTokenizer
          linesOut,  \* what the tokenizer has enqueued
          eventsOut, \* what JSONLineDecoder and EventAdapter have enqueued
          idx,       \* idx of EventAdapter
          pending,   \* bytes kept in feedBackParseRef
          wordsOut,  \* what the word parser has enqueued
          flushed    \* the body has ended

lineVars == <<body, buffer, linesOut, eventsOut, idx, pending, wordsOut, flushed>>

WordSize == 4

CleanLine(line) == IF line # <<>> /\ Last(line) = CR THEN Front(line) ELSE line

\* Position of the first line feed; 0 when there is none.
FirstLF(s) == SelectInSeq(s, LAMBDA c : c = LF)

\* The loop of transform(): the complete lines of the buffer, and the rest.
Cut[s \in Seq(Chars)] ==
  IF FirstLF(s) = 0 THEN [out |-> <<>>, rest |-> s]
  ELSE LET after == Cut[SubSeq(s, FirstLF(s) + 1, Len(s))]
       IN [out |-> <<CleanLine(SubSeq(s, 1, FirstLF(s) - 1))>> \o after.out,
           rest |-> after.rest]

\* Mutant: the CR is cut off before the line is complete.
Tokenize_CleansChunk(s) == [Cut[s] EXCEPT !.rest = CleanLine(@)]

Tokenize(s) == Cut[s]

\* JSON.parse: an empty line and a broken one do not parse, and are dropped.
Parses(line) == line # <<>> /\ \A i \in DOMAIN line : line[i] # Bad

IsEvent(line) == Parses(line) /\ \A i \in DOMAIN line : line[i] # Mute

ParsedLines == {line \in Seq(Chars) : Parses(line)}

EventLines == {line \in Seq(Chars) : IsEvent(line)}

\* EventAdapter: every parsed line takes the next number, and those that are
\* events are handed on.
Decoded(new, from) ==
  LET parsed == Only(new, ParsedLines)
      numbered == [i \in DOMAIN parsed |-> [line |-> parsed[i], id |-> from + i - 1]]
  IN Only(numbered, [line : EventLines, id : Nat])

\* doConsume: all complete words; the bytes that are left stay for the next chunk.
NumWords(bytes) == Len(bytes) \div WordSize

WordsOf(bytes) ==
  [i \in 1..NumWords(bytes) |-> SubSeq(bytes, (i - 1) * WordSize + 1, i * WordSize)]

RestOf(bytes) == SubSeq(bytes, NumWords(bytes) * WordSize + 1, Len(bytes))

LineInit ==
  /\ body = <<>> /\ buffer = <<>> /\ linesOut = <<>> /\ eventsOut = <<>> /\ idx = 0
  /\ pending = <<>> /\ wordsOut = <<>> /\ flushed = FALSE

Chunks == UNION {[1..n -> Chars] : n \in 1..3}

ChunkArrives(chunk) ==
  LET cut == Tokenize(buffer \o chunk)
  IN /\ ~flushed /\ Len(body) + Len(chunk) <= MaxText
     /\ body' = body \o chunk
     /\ buffer' = cut.rest
     /\ linesOut' = linesOut \o cut.out
     /\ eventsOut' = eventsOut \o Decoded(cut.out, idx)
     /\ idx' = idx + Len(Only(cut.out, ParsedLines))
     /\ pending' = RestOf(pending \o chunk)
     /\ wordsOut' = wordsOut \o WordsOf(pending \o chunk)
     /\ UNCHANGED flushed

\* flush(): the rest of the buffer is the last line; the rest of a word is lost.
Flush ==
  LET last == IF buffer = <<>> THEN <<>> ELSE <<CleanLine(buffer)>>
  IN /\ ~flushed
     /\ flushed' = TRUE
     /\ linesOut' = linesOut \o last
     /\ eventsOut' = eventsOut \o Decoded(last, idx)
     /\ idx' = idx + Len(Only(last, ParsedLines))
     /\ UNCHANGED <<body, buffer, pending, wordsOut>>

LineNext == (\E chunk \in Chunks : ChunkArrives(chunk)) \/ Flush

LineSpec == LineInit /\ [][LineNext]_lineVars

----------------------------------------------------------------------------
(* Properties                                                              *)

\* The line of a text that ends before position e, and the positions of its line
\* feeds.
LineEndingAt(text, e) ==
  LET before == {i \in 1..(e - 1) : text[i] = LF}
      start == IF before = {} THEN 1 ELSE Max(before) + 1
  IN CleanLine(SubSeq(text, start, e - 1))

LineFeeds(text) ==
  Only([i \in DOMAIN text |-> i], {i \in DOMAIN text : text[i] = LF})

\* The lines handed on are those of the body, each once and in order, wherever
\* the network cut it; at the end the line without a line feed is among them.
LinesAreThoseOfBody ==
  LET feeds == LineFeeds(body)
      complete == [k \in DOMAIN feeds |-> LineEndingAt(body, feeds[k])]
      unended == body # <<>> /\ Last(body) # LF
  IN linesOut = IF flushed /\ unended THEN Append(complete, LineEndingAt(body, Len(body) + 1))
             ELSE complete

\* The events of a stream have distinct numbers in the order of their lines,
\* whatever was rejected between them and however the body was cut: a list that
\* keeps one event per identifier loses none of them.
EventNumbersDistinct ==
  /\ \A i, j \in DOMAIN eventsOut : i < j => eventsOut[i].id < eventsOut[j].id
  /\ [i \in DOMAIN eventsOut |-> eventsOut[i].line] = Only(linesOut, EventLines)

\* The words handed on and the bytes kept are the body, whatever its chunks.
WordsAreThoseOfBody ==
  /\ FlattenSeq(wordsOut) \o pending = body
  /\ Len(pending) < WordSize

\* A transform stream hides from its reader where the network cut the body:
\* lines, events and words are those of the body as a whole.
CutsDoNotShow == LinesAreThoseOfBody /\ EventNumbersDistinct /\ WordsAreThoseOfBody
=============================================================================
