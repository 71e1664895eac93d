------------------------------- MODULE Stream -------------------------------
(***************************************************************************)
(* A streamed completion: meteredRelay and SseUsageScanner of stream.ts,   *)
(* and the settlement that routes/chat.ts gives the relay.                 *)
(*                                                                         *)
(* The relay is a pull source: the runtime calls pull while the client's   *)
(* queue is empty, pull awaits one read of the upstream, and the client    *)
(* may hang up at any moment, also between the read and its continuation.  *)
(* The price is known only when the stream has ended, so the ledger row is *)
(* written after the answer, in waitUntil.                                 *)
(*                                                                         *)
(* Bytes are symbols.  A frame is one `data:' line, sent in two halves so  *)
(* that a chunk can end inside it: "text" carries one unit of assistant    *)
(* text, "bare" neither text nor usage, "failure" an error, "done" is the  *)
(* sentinel, the others carry a usage object.                              *)
(*                                                                         *)
(* The upstream is the provider's own stream, or the one upstream.ts opens *)
(* at once and fills when a buffered completion has arrived.               *)
(***************************************************************************)
EXTENDS Integers, Sequences, FiniteSets, SequencesExt

CONSTANTS
  Scripts,   \* what a provider may stream: a set of sequences of symbols
  Results,   \* how a buffered completion may end
  MaxBeats,  \* bound on the keepalives while it is waited for
  MaxChunk   \* bound on the symbols of one chunk

\* Usage objects; the meter cannot read the last one.
Usage == {"usage1", "usage2", "unreadable"}
Priceable == {"usage1", "usage2"}

FrameHead(kind) == <<kind, "head">>
FrameTail(kind) == <<kind, "tail">>
Newline == <<"newline", "">>
Heartbeat == <<"heartbeat", "">>

Kind == Usage \cup {"text", "bare", "failure", "done"}
Symbol == {FrameHead(k) : k \in Kind} \cup {FrameTail(k) : k \in Kind} \cup {Newline, Heartbeat}

ASSUME StreamAssumption ==
  /\ Scripts \subseteq Seq(Symbol) /\ MaxChunk \in Nat \ {0} /\ MaxBeats \in Nat
  /\ Results \subseteq [ok : BOOLEAN, text : Nat, usage : Usage \cup {"none"}]

-----------------------------------------------------------------------------
(***************************************************************************)
(* The buffered completion as a stream.                                    *)
(***************************************************************************)
Line(kind) == <<FrameHead(kind), FrameTail(kind), Newline>>
Repeat(part, n) == [i \in 1..(n * Len(part)) |-> part[((i - 1) % Len(part)) + 1]]

finishAndUsage(usage) ==
  Line("bare") \o (IF usage = "none" THEN <<>> ELSE Line(usage)) \o Line("done")

\* The opening frame, keepalives, then the text and its usage.  A run that throws or
\* times out ends with an error frame and a finish all the same, and no usage.
openAIStreamFromDeferredCompletion(result, beats) ==
  Line("bare") \o Repeat(<<Heartbeat, Newline>>, beats)
    \o (IF result.ok THEN Repeat(Line("text"), result.text) \o finishAndUsage(result.usage)
                     ELSE Line("failure") \o finishAndUsage("none"))

Deferred == {openAIStreamFromDeferredCompletion(c, n) : c \in Results, n \in 0..MaxBeats}

VARIABLES
  script,      \* what this upstream will send
  rated,       \* whether the model's price has usable rates
  sent,        \* how many of its symbols were read
  reader,      \* the upstream reader: open or cancelled
  pull,        \* the relay's pull: idle, reading, or resumed
  result,      \* what the awaited read resolved to
  relay,       \* the client's stream: readable, closed, errored or cancelled
  queue,       \* chunks enqueued and not yet taken
  delivered,   \* symbols the client took
  scan,        \* the scanner
  settlement,  \* what settle was called with, None before
  ledger,      \* the write: none, building, recorded or lost
  rows,        \* usage rows written for this request
  heard,       \* how many symbols the scanner was given before the settlement
  alive        \* FALSE once the isolate died

upstreamVars == <<script, rated, sent, reader>>
relayVars == <<pull, result, relay, queue>>
bookVars == <<settlement, ledger>>
vars == <<upstreamVars, relayVars, delivered, scan, bookVars, rows, heard, alive>>

None == [kind |-> "none"]

-----------------------------------------------------------------------------
(***************************************************************************)
(* The scanner.                                                            *)
(***************************************************************************)
NewScanner == [buffer |-> <<>>, lastUsage |-> "none", sawAnyFrame |-> FALSE, outputBytes |-> 0]

\* Where the newlines are, and the i-th of them.
Cuts(text) == {i \in DOMAIN text : text[i] = Newline}
Cut(text, i) == CHOOSE c \in Cuts(text) : Cardinality({d \in Cuts(text) : d <= c}) = i

\* text.split("\n")
Lines(text) ==
  LET n == Cardinality(Cuts(text))
      from(i) == IF i = 1 THEN 1 ELSE Cut(text, i - 1) + 1
      to(i) == IF i > n THEN Len(text) ELSE Cut(text, i) - 1
  IN [i \in 1..(n + 1) |-> SubSeq(text, from(i), to(i))]

\* Mutant: a frame without usage overwrites the last usage.
consumeLineAnyFrame(s, line) ==
  LET isData == line # <<>> /\ line[1][2] = "head" /\ line # Front(Line("done"))
      kind == IF isData /\ line = <<line[1], FrameTail(line[1][1])>> THEN line[1][1] ELSE "none"
  IN [s EXCEPT !.lastUsage = kind]

\* A line that is not `data:' is skipped, one that does not parse is only seen; the
\* last usage wins.
consumeLine(s, line) ==
  LET isData == line # <<>> /\ line[1][2] = "head" /\ line # Front(Line("done"))
      kind == IF isData /\ line = <<line[1], FrameTail(line[1][1])>> THEN line[1][1] ELSE "none"
  IN [s EXCEPT !.sawAnyFrame = @ \/ isData,
               !.lastUsage = IF kind \in Usage THEN kind ELSE @,
               !.outputBytes = @ + IF kind = "text" THEN 1 ELSE 0]

\* The scanner after each of the lines.
Consumed(s, lines) ==
  LET after[i \in 0..Len(lines)] == IF i = 0 THEN s ELSE consumeLine(after[i - 1], lines[i])
  IN after

\* Mutant: the partial last line is dropped, as if a chunk ended with a frame.
pushWholeChunks(s, chunk) ==
  LET lines == Lines(s.buffer \o chunk)
  IN [Consumed(s, lines)[Len(lines)] EXCEPT !.buffer = <<>>]

\* Whole lines are consumed; the rest waits for the next chunk.
push(s, chunk) ==
  LET lines == Lines(s.buffer \o chunk)
  IN [Consumed(s, lines)[Len(lines) - 1] EXCEPT !.buffer = Last(lines)]

end(s) ==
  IF s.buffer = <<>> THEN s
  ELSE [consumeLine(s, s.buffer) EXCEPT !.buffer = <<>>]

-----------------------------------------------------------------------------
Init ==
  /\ script \in Scripts \cup Deferred
  /\ rated \in BOOLEAN
  /\ sent = 0
  /\ reader = "open"
  /\ pull = "idle"
  /\ result = None
  /\ relay = "readable"
  /\ queue = <<>>
  /\ delivered = <<>>
  /\ scan = NewScanner
  /\ settlement = None
  /\ ledger = "none"
  /\ rows = <<>>
  /\ heard = 0
  /\ alive = TRUE

(***************************************************************************)
(* Settling.                                                               *)
(***************************************************************************)

\* Mutant: the settled flag is not looked at.
settleOnceTwice(termination, s) ==
  /\ scan' = end(s)
  /\ settlement' = [kind |-> "settled", termination |-> termination,
                    usage |-> end(s).lastUsage, bytes |-> end(s).outputBytes]
  /\ ledger' = "building"

\* The first termination settles, with what the scanner has.
settleOnce(termination, s) ==
  IF settlement # None
  THEN scan' = s /\ UNCHANGED bookVars
  ELSE /\ scan' = end(s)
       /\ settlement' = [kind |-> "settled", termination |-> termination,
                         usage |-> end(s).lastUsage, bytes |-> end(s).outputBytes]
       /\ ledger' = "building"

\* Mutant: one flag for a client that left and a stream that broke.
PriceBasisAborted(s) ==
  CASE rated /\ s.usage \in Priceable -> "measured"
    [] rated /\ s.usage = "none" /\ s.termination # "complete" -> "estimated_output"
    [] OTHER -> "unpriced"

\* Measured if a usage object arrived and can be read; an estimate only when none
\* arrived and the client hung up; neither without rates.
PriceBasis(s) ==
  CASE rated /\ s.usage \in Priceable -> "measured"
    [] rated /\ s.usage = "none" /\ s.termination = "cancelled" -> "estimated_output"
    [] OTHER -> "unpriced"

\* buildEvent and recordQuietly, in waitUntil; what they do to the money columns is
\* the subject of Metering.
Record ==
  /\ alive /\ ledger = "building"
  /\ rows' = Append(rows, [basis |-> PriceBasis(settlement),
                           usage |-> settlement.usage, bytes |-> settlement.bytes])
  /\ ledger' = "recorded"
  /\ UNCHANGED <<upstreamVars, relayVars, delivered, scan, settlement, heard, alive>>

RecordFails ==
  /\ alive /\ ledger = "building"
  /\ ledger' = "lost"
  /\ UNCHANGED <<upstreamVars, relayVars, delivered, scan, settlement, rows, heard, alive>>

-----------------------------------------------------------------------------
(***************************************************************************)
(* The relay.                                                              *)
(***************************************************************************)

\* The runtime pulls while the queue is empty.
Pull ==
  /\ alive /\ pull = "idle" /\ relay = "readable" /\ queue = <<>>
  /\ pull' = "reading"
  /\ UNCHANGED <<upstreamVars, result, relay, queue, delivered, scan, bookVars, rows, heard, alive>>

\* The awaited read resolves: a chunk, the end (also when the reader was
\* cancelled), or an error, which a deferred completion never raises.
ReadChunk(n) ==
  /\ alive /\ pull = "reading" /\ reader = "open" /\ sent + n <= Len(script)
  /\ result' = [kind |-> "value", chunk |-> SubSeq(script, sent + 1, sent + n)]
  /\ sent' = sent + n
  /\ pull' = "resumed"
  /\ UNCHANGED <<script, rated, reader, relay, queue, delivered, scan, bookVars, rows, heard, alive>>

ReadEnds(kind) ==
  /\ alive /\ pull = "reading"
  /\ \/ kind = "done" /\ (reader = "cancelled" \/ sent = Len(script))
     \/ kind = "error" /\ reader = "open" /\ script \notin Deferred
  /\ result' = [kind |-> kind]
  /\ pull' = "resumed"
  /\ UNCHANGED <<upstreamVars, relay, queue, delivered, scan, bookVars, rows, heard, alive>>

\* enqueue on a stream the client left throws, and the catch settles.
OnValue ==
  /\ alive /\ pull = "resumed" /\ result.kind = "value"
  /\ LET s == push(scan, result.chunk)
     IN IF relay = "readable"
        THEN /\ queue' = Append(queue, result.chunk)
             /\ scan' = s
             /\ UNCHANGED bookVars
        ELSE settleOnce("error", s) /\ UNCHANGED queue
  /\ heard' = IF settlement = None THEN heard + Len(result.chunk) ELSE heard
  /\ pull' = "idle" /\ result' = None
  /\ UNCHANGED <<upstreamVars, relay, delivered, rows, alive>>

OnDone ==
  /\ alive /\ pull = "resumed" /\ result.kind = "done"
  /\ settleOnce("complete", scan)
  /\ relay' = IF relay = "readable" THEN "closed" ELSE relay
  /\ pull' = "idle" /\ result' = None
  /\ UNCHANGED <<upstreamVars, queue, delivered, rows, heard, alive>>

\* Mutant: the error is swallowed and the stream ends normally.
OnErrorSwallowed ==
  /\ alive /\ pull = "resumed" /\ result.kind = "error"
  /\ settleOnce("error", scan)
  /\ relay' = IF relay = "readable" THEN "closed" ELSE relay
  /\ pull' = "idle" /\ result' = None
  /\ UNCHANGED <<upstreamVars, queue, delivered, rows, heard, alive>>

OnError ==
  /\ alive /\ pull = "resumed" /\ result.kind = "error"
  /\ settleOnce("error", scan)
  /\ relay' = IF relay = "readable" THEN "errored" ELSE relay
  /\ queue' = IF relay = "readable" THEN <<>> ELSE queue
  /\ pull' = "idle" /\ result' = None
  /\ UNCHANGED <<upstreamVars, delivered, rows, heard, alive>>

\* Mutant: cancel passes on to the reader and leaves settling to pull.
cancelUnsettled ==
  /\ alive /\ relay = "readable"
  /\ relay' = "cancelled" /\ queue' = <<>> /\ reader' = "cancelled"
  /\ UNCHANGED <<script, rated, sent, pull, result, delivered, scan, bookVars, rows, heard, alive>>

\* The client hangs up: settle first, then cancel the upstream.
cancel ==
  /\ alive /\ relay = "readable"
  /\ settleOnce("cancelled", scan)
  /\ relay' = "cancelled" /\ queue' = <<>> /\ reader' = "cancelled"
  /\ UNCHANGED <<script, rated, sent, pull, result, delivered, rows, heard, alive>>

Take ==
  /\ relay \in {"readable", "closed"} /\ queue # <<>>
  /\ delivered' = delivered \o Head(queue)
  /\ queue' = Tail(queue)
  /\ UNCHANGED <<upstreamVars, pull, result, relay, scan, bookVars, rows, heard, alive>>

Crash ==
  /\ alive
  /\ alive' = FALSE
  /\ UNCHANGED <<upstreamVars, relayVars, delivered, scan, bookVars, rows, heard>>

\* What the isolate does by itself.
Run == Pull \/ OnValue \/ OnDone \/ OnError \/ Record \/ RecordFails

Next ==
  \/ Run
  \/ \E n \in 1..MaxChunk : ReadChunk(n)
  \/ \E kind \in {"done", "error"} : ReadEnds(kind)
  \/ cancel
  \/ Take
  \/ Crash

Spec == Init /\ [][Next]_vars

\* A live isolate runs its continuations; upstream and client owe nothing.
FairSpec == Spec /\ WF_vars(Run)

-----------------------------------------------------------------------------
(***************************************************************************)
(* Properties.                                                             *)
(***************************************************************************)

\* The state the code keeps for one stream: scanner, settlement and reader have the
\* shapes stream.ts gives them.
TypeOK ==
  /\ script \in Scripts \cup Deferred /\ rated \in BOOLEAN /\ sent \in 0..Len(script)
  /\ reader \in {"open", "cancelled"}
  /\ pull \in {"idle", "reading", "resumed"}
  /\ result.kind \in {"none", "value", "done", "error"}
  /\ relay \in {"readable", "closed", "errored", "cancelled"}
  /\ scan.lastUsage \in Usage \cup {"none"} /\ scan.outputBytes \in Nat
  /\ settlement # None => settlement.termination \in {"complete", "cancelled", "error"}
  /\ ledger \in {"none", "building", "recorded", "lost"}
  /\ heard \in 0..sent /\ alive \in BOOLEAN

\* Line i of p is a whole frame of this kind.
FrameAt(p, i, kind) ==
  /\ i + 1 \in DOMAIN p
  /\ p[i] = FrameHead(kind) /\ p[i + 1] = FrameTail(kind)
  /\ i = 1 \/ p[i - 1] = Newline
  /\ i + 2 \in DOMAIN p => p[i + 2] = Newline

\* The last usage frame of p.
LastUsage(p) ==
  LET at == {x \in (DOMAIN p) \X Usage : FrameAt(p, x[1], x[2])}
  IN IF at = {} THEN "none" ELSE (CHOOSE x \in at : \A y \in at : y[1] <= x[1])[2]

TextFrames(p) == Cardinality({i \in DOMAIN p : FrameAt(p, i, "text")})

Heard == SubSeq(script, 1, heard)

\* The scanner's view of a stream does not depend on where the chunks were cut: the
\* settlement holds the last usage frame and the text of exactly the symbols that
\* came past before it (stream.ts push, end, "including a usage object split across
\* two chunks").
ScannerExact ==
  settlement # None =>
    /\ settlement.usage = LastUsage(Heard)
    /\ settlement.bytes = TextFrames(Heard)

\* However end, error and hang-up race, there is one settlement and at most one row
\* (stream.ts meteredRelay: "It is invoked at most once").
OneRow ==
  /\ Len(rows) <= 1
  /\ rows # <<>> => ledger = "recorded"

\* Money follows how the stream ended: a broken stream and a complete one without
\* usage are never charged a guess, a client that left before the usage frame is
\* (chat.ts, the three settlements).  A provider that fails behind a stream that is
\* already open is not charged, unless the client has left.
BasisTellsEnding ==
  \A i \in DOMAIN rows :
    LET usage == LastUsage(Heard)
    IN /\ rows[i].basis = "measured" <=> rated /\ usage \in Priceable
       /\ rows[i].basis = "estimated_output" <=> rated /\ usage = "none" /\ relay = "cancelled"
       /\ script \in Deferred /\ FrameHead("failure") \in Range(script) /\ relay # "cancelled"
            => rows[i].basis = "unpriced"

\* The client gets the upstream's bytes unchanged, and sees a normal end only if it
\* got all of them (stream.ts: "must see the stream fail, not see it end normally").
HonestEnd ==
  /\ IsPrefix(delivered \o FlattenSeq(queue), script)
  /\ relay = "closed" => delivered \o FlattenSeq(queue) = script
  /\ relay = "closed" => settlement.termination = "complete"

\* A stream that ended, whichever way, reaches the ledger or a logged failure
\* (stream.ts: settle is "invoked on EVERY termination").
EndsInLedger == relay # "readable" ~> (ledger \in {"recorded", "lost"} \/ ~alive)
=============================================================================
