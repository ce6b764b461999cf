----------------------------- MODULE UsageStream -----------------------------
(***************************************************************************)
(* How usage is read out of an answer (proxy/metering.py): line by line    *)
(* while a stream passes (StreamingUsageCollector), or from a whole body   *)
(* (extract_usage_openai, extract_usage_anthropic).                        *)
(*                                                                         *)
(* The network cuts the stream into chunks anywhere, the end may be        *)
(* missing: the client hung up, the provider broke off, or a duration or   *)
(* idle limit killed it.  A line is abstracted to what the parsers tell    *)
(* apart; a position is a third of a line: into its text, behind its text, *)
(* behind its newline.  A line that reports usage is never big.            *)
(***************************************************************************)
EXTENDS Integers, Sequences

CONSTANT Streams    \* the streams a provider may send: [provider, lines]

NoUsage == -1       \* no "usage", or "usage": null
NoEvent == "none"

\* kind: "event", "data", "done" (data: [DONE]), "blank".  A line is big if it
\* outgrows _MAX_PARTIAL_LINE.
EventLine(name) == [kind |-> "event", name |-> name, usage |-> NoUsage, big |-> FALSE]
DataLine(usage) == [kind |-> "data", name |-> NoEvent, usage |-> usage, big |-> FALSE]
BigDataLine == [DataLine(NoUsage) EXCEPT !.big = TRUE]
DoneLine == [kind |-> "done", name |-> NoEvent, usage |-> NoUsage, big |-> FALSE]
BlankLine == [kind |-> "blank", name |-> NoEvent, usage |-> NoUsage, big |-> FALSE]

ASSUME StreamsAssumption ==
    \A s \in Streams : s.provider \in {"openai", "anthropic"} /\ Len(s.lines) > 0

VARIABLES
    stream,         \* what the provider sends
    arrived,        \* up to which position it has arrived
    cut_short,      \* has the stream ended, and before its end?
    collector       \* StreamingUsageCollector

usageVars == <<stream, arrived, cut_short, collector>>

lines == stream.lines
Size == 3 * Len(lines)
LinesAt(pos) == pos \div 3          \* complete lines
Into(pos) == pos % 3                \* how far into the next line
-----------------------------------------------------------------------------
(***************************************************************************)
(* One complete line, in feed and _parse_data.  A line whose beginning was *)
(* discarded, or whose text was cut off, is none of those it knows.        *)
(***************************************************************************)
EmptyCollector == [kept |-> TRUE, event |-> NoEvent, input |-> 0, output |-> 0,
                   total |-> NoUsage, found |-> FALSE]

ParseData(c, usage) ==
    [c EXCEPT !.event = IF @ = "message_delta" /\ usage = NoUsage THEN @ ELSE NoEvent,
              !.total = IF stream.provider = "openai" /\ usage # NoUsage THEN usage ELSE @,
              !.input = IF c.event = "message_start" /\ usage # NoUsage THEN usage ELSE @,
              !.output = IF c.event = "message_delta" /\ usage # NoUsage THEN usage ELSE @,
              !.found = @ \/ (c.event = "message_delta" /\ usage # NoUsage)]

TakeLine(c, line) ==
    CASE line.kind = "event" -> [c EXCEPT !.event = line.name]
      [] line.kind = "data" -> ParseData(c, line.usage)
      [] OTHER -> c

TakeLinesForgetting(c, from, to) ==
    LET after[i \in (from - 1)..to] ==
            IF i < from THEN c
            ELSE IF i = from /\ Into(arrived) # 0 THEN after[i - 1]
            ELSE TakeLine(after[i - 1], lines[i])
    IN  after[to]

\* Lines from..to in a row.
TakeLines(c, from, to) ==
    LET after[i \in (from - 1)..to] ==
            IF i < from THEN c ELSE TakeLine(after[i - 1], lines[i])
    IN  after[to]

\* feed: what was kept of the line in progress goes in front of the chunk.
Feed(to) ==
    LET first == LinesAt(arrived) + 1
        from == IF collector.kept THEN first ELSE first + 1
        taken == IF LinesAt(to) >= first THEN TakeLines(collector, from, LinesAt(to))
                 ELSE collector
        still == collector.kept \/ LinesAt(to) >= first
    IN  /\ ~cut_short /\ arrived < to
        /\ arrived' = to
        /\ collector' = [taken EXCEPT !.kept =
                            Into(to) = 0 \/ (still /\ ~lines[LinesAt(to) + 1].big)]
        /\ UNCHANGED <<stream, cut_short>>

Drop ==
    /\ ~cut_short
    /\ cut_short' = TRUE
    /\ UNCHANGED <<stream, arrived, collector>>

\* result, after _flush_partial.
Flushed(c) == IF c.kept /\ Into(arrived) = 2 THEN TakeLine(c, lines[LinesAt(arrived) + 1]) ELSE c

UsedOf(c) ==
    IF stream.provider = "openai" THEN c.total
    ELSE IF c.found THEN c.input + c.output ELSE NoUsage

Result == UsedOf(Flushed(collector))
-----------------------------------------------------------------------------
(***************************************************************************)
(* The same from a whole body.  OpenAI: the last chunk that has a usage;   *)
(* Anthropic: the data after the first message_start and after the last    *)
(* message_delta.                                                          *)
(***************************************************************************)
Largest(S) == CHOOSE x \in S : \A y \in S : y <= x
Least(S) == CHOOSE x \in S : \A y \in S : x <= y

UsageAfter(i) ==
    LET data == {j \in (i + 1)..Len(lines) : lines[j].kind = "data"}
    IN  IF data = {} THEN NoUsage ELSE lines[Least(data)].usage

EventsNamed(name) == {i \in DOMAIN lines : lines[i].kind = "event" /\ lines[i].name = name}

ExtractOpenai ==
    LET told == {i \in DOMAIN lines : lines[i].kind = "data" /\ lines[i].usage # NoUsage}
    IN  IF told = {} THEN NoUsage ELSE lines[Largest(told)].usage

ExtractAnthropic ==
    LET starts == EventsNamed("message_start")
        deltas == EventsNamed("message_delta")
        input == IF starts = {} THEN 0 ELSE UsageAfter(Least(starts))
        output == IF deltas = {} THEN NoUsage ELSE UsageAfter(Largest(deltas))
    IN  IF output = NoUsage THEN NoUsage
        ELSE output + (IF input = NoUsage THEN 0 ELSE input)

Extracted == IF stream.provider = "openai" THEN ExtractOpenai ELSE ExtractAnthropic
-----------------------------------------------------------------------------
UsageInit ==
    /\ stream \in Streams
    /\ arrived = 0
    /\ cut_short = FALSE
    /\ collector = EmptyCollector

UsageNext == (\E to \in 1..Size : Feed(to)) \/ Drop

UsageSpec == UsageInit /\ [][UsageNext]_usageVars
-----------------------------------------------------------------------------
UsageTypeOK ==
    /\ stream \in Streams
    /\ arrived \in 0..Size
    /\ cut_short \in BOOLEAN
    /\ collector.total \in Int /\ collector.input \in Nat /\ collector.output \in Nat
    /\ Result # NoUsage => Result \in Nat

(***************************************************************************)
(* What is billed for a stream does not depend on how the network cut it:  *)
(* a stream that arrived whole is read like the body it makes up.          *)
(***************************************************************************)
CutsDoNotMatter == arrived = Size => Result = Extracted

(***************************************************************************)
(* A stream that broke off reports a usage only when the provider's own    *)
(* report had arrived: the tokens that went in are never billed alone, the *)
(* request is settled at the estimate.                                     *)
(***************************************************************************)
Reported ==
    {i \in DOMAIN lines :
        /\ lines[i].kind = "data" /\ lines[i].usage # NoUsage
        /\ stream.provider = "anthropic" =>
              /\ EventsNamed("message_delta") # {} /\ Least(EventsNamed("message_delta")) < i}

HalfIsNotReported ==
    Result # NoUsage => \E i \in Reported : arrived >= 3 * i - 1

(***************************************************************************)
(* What is billed for an answer is what the provider reported: however the *)
(* network cut the stream, and wherever it broke off.                      *)
(***************************************************************************)
UsageAsReported == CutsDoNotMatter /\ HalfIsNotReported

=============================================================================
