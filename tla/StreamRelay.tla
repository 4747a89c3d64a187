----------------------------- MODULE StreamRelay -----------------------------
(***************************************************************************)
(* One streamed answer: the relay loops of router.forwardOpenAIStream and  *)
(* router.forwardAnthropicStream (internal/router/router_stream.go), from  *)
(* the response header to the result that the usage event reports.         *)
(*                                                                         *)
(* The handler reads the provider's lines with a bufio.Scanner and writes  *)
(* to its client.  The provider, the network and the client act between    *)
(* any two iterations: an iteration holds one line, so it is one action.   *)
(*                                                                         *)
(* Data.  A line is its kind and, for a delta, the length of its text.  A  *)
(* line's text is the line's number: what the client has is the sequence   *)
(* of the numbers of the lines that were relayed or translated to it.      *)
(***************************************************************************)
EXTENDS Integers, Sequences

CONSTANTS
  MaxLines,   \* bound: number of lines the provider sends
  Length      \* lengths of the text of a delta, in bytes

\* "other": blank lines, event names, data without text, data that is no JSON;
\* "huge": more than the 64 KiB that a bufio.Scanner holds.
Line == [kind : {"delta"}, length : Length]
        \cup [kind : {"other", "done", "huge"}, length : {0}]

ASSUME LineAssumption == MaxLines \in Nat /\ Length \subseteq Nat

VARIABLES
  adapter,    \* which of the two loops runs
  sent,       \* the lines the provider has sent
  upstream,   \* its end of the connection: "open", "ended" or "cut"
  limit,      \* number of lines that arrive whole, once the connection was cut
  torn,       \* the cut leaves part of a line behind them
  client,     \* "reading", "stalled" (its buffers are full) or "gone"
  pc,         \* the handler
  scanned,    \* number of lines the scanner has returned
  got,        \* numbers of the lines that have reached the client
  gotTorn,    \* part of a line has reached the client as a line
  closed,     \* the [DONE] of forwardAnthropicStream has reached the client
  outTok,     \* outTok
  tokens,     \* OutputTokens of the result
  charsRead,  \* history: length of all deltas scanned
  charsGot    \* history: length of all deltas that have reached the client

providerVars == <<sent, upstream, limit, torn>>
clientVars == <<got, gotTorn, closed, charsGot>>
vars == <<adapter, providerVars, client, pc, scanned, clientVars, outTok, tokens,
          charsRead>>

TypeOK ==
  /\ adapter \in {"openai", "anthropic"}
  /\ sent \in Seq(Line) /\ Len(sent) <= MaxLines
  /\ upstream \in {"open", "ended", "cut"}
  /\ limit \in 0..MaxLines
  /\ torn \in BOOLEAN
  /\ client \in {"reading", "stalled", "gone"}
  /\ pc \in {"relay", "finish", "returned"}
  /\ scanned \in 0..Len(sent)
  /\ got \in Seq(1..Len(sent))
  /\ gotTorn \in BOOLEAN
  /\ closed \in BOOLEAN
  /\ outTok \in Nat /\ tokens \in Nat /\ charsRead \in Nat /\ charsGot \in Nat

\* The header has been written.
Init ==
  /\ adapter \in {"openai", "anthropic"}
  /\ sent = << >> /\ upstream = "open" /\ limit = 0 /\ torn = FALSE
  /\ client \in {"reading", "gone"}
  /\ pc = "relay"
  /\ scanned = 0
  /\ got = << >> /\ gotTorn = FALSE /\ closed = FALSE
  /\ outTok = 0 /\ tokens = 0
  /\ charsRead = 0 /\ charsGot = 0

-----------------------------------------------------------------------------
(* The relay *)

\* Mutant: every chunk is rounded up.
MutantTokensOf(line) == (line.length + 3) \div 4

\* extractStreamDelta, and its counterpart for Anthropic.
TokensOf(line) == line.length \div 4

\* forwardOpenAIStream writes every line, forwardAnthropicStream the text of
\* every delta that has one.
IsRelayed(line) == adapter = "openai" \/ (line.kind = "delta" /\ line.length > 0)

\* Number of lines that arrive whole.
Arriving == IF upstream = "cut" THEN limit ELSE Len(sent)

\* scanner.Scan returns a line.
HasLine == pc = "relay" /\ scanned < Arriving /\ sent[scanned + 1].kind # "huge"

\* The loop goes on to the next line.
Skip ==
  /\ HasLine
  /\ ~IsRelayed(sent[scanned + 1])
  /\ scanned' = scanned + 1
  /\ UNCHANGED <<adapter, providerVars, client, pc, clientVars, outTok, tokens,
                 charsRead>>

\* Mutant: a line the client has no room for is dropped.
MutantRelay ==
  /\ HasLine
  /\ IsRelayed(sent[scanned + 1])
  /\ scanned' = scanned + 1
  /\ charsRead' = charsRead + sent[scanned + 1].length
  /\ outTok' = outTok + TokensOf(sent[scanned + 1])
  /\ \/ /\ client = "reading"
        /\ got' = Append(got, scanned + 1)
        /\ charsGot' = charsGot + sent[scanned + 1].length
     \/ client # "reading" /\ UNCHANGED <<got, charsGot>>
  /\ UNCHANGED <<adapter, providerVars, client, pc, gotTorn, closed, tokens>>

\* The write of a line or chunk succeeds, into the connection of a client that
\* reads or the buffer of one that has gone.
Relay ==
  /\ HasLine
  /\ IsRelayed(sent[scanned + 1])
  /\ client # "stalled"
  /\ scanned' = scanned + 1
  /\ charsRead' = charsRead + sent[scanned + 1].length
  /\ outTok' = outTok + TokensOf(sent[scanned + 1])
  /\ \/ /\ client = "reading"
        /\ got' = Append(got, scanned + 1)
        /\ charsGot' = charsGot + sent[scanned + 1].length
     \/ client = "gone" /\ UNCHANGED <<got, charsGot>>
  /\ UNCHANGED <<adapter, providerVars, client, pc, gotTorn, closed, tokens>>

\* The write fails, which breaks the loop.  forwardOpenAIStream counts a delta
\* after its write, forwardAnthropicStream before it.
WriteFails ==
  /\ HasLine
  /\ IsRelayed(sent[scanned + 1])
  /\ client = "gone"
  /\ scanned' = scanned + 1
  /\ charsRead' = charsRead + sent[scanned + 1].length
  /\ outTok' = outTok + IF adapter = "anthropic" THEN TokensOf(sent[scanned + 1])
                        ELSE 0
  /\ pc' = "finish"
  /\ UNCHANGED <<adapter, providerVars, client, clientVars, tokens>>

\* Mutant: after a cut the relay asks the provider for the rest.
MutantRelayTorn ==
  /\ pc = "relay"
  /\ upstream = "cut" /\ scanned = limit /\ torn
  /\ torn' = FALSE
  /\ upstream' = "ended"
  /\ gotTorn' = (adapter = "openai" /\ client = "reading")
  /\ UNCHANGED <<adapter, sent, limit, client, pc, scanned, got, closed, charsGot,
                 outTok, tokens, charsRead>>

\* scanner.Scan returns what a cut has left of a line.  It is relayed like any
\* line by forwardOpenAIStream; for forwardAnthropicStream it is no JSON.
RelayTorn ==
  /\ pc = "relay"
  /\ upstream = "cut" /\ scanned = limit /\ torn
  /\ torn' = FALSE
  /\ \/ adapter = "anthropic" /\ UNCHANGED <<gotTorn, pc>>
     \/ adapter = "openai" /\ client = "reading" /\ gotTorn' = TRUE /\ UNCHANGED pc
     \/ adapter = "openai" /\ client = "gone" /\ UNCHANGED gotTorn
        /\ pc' \in {"relay", "finish"}
  /\ UNCHANGED <<adapter, sent, upstream, limit, client, scanned, got, closed,
                 charsGot, outTok, tokens, charsRead>>

\* Mutant: the loop ends when it has nothing to read.
MutantNothingLeft == scanned = Arriving

\* There is no line left and there will be none.
NothingLeft == scanned = Arriving /\ upstream # "open" /\ ~torn

\* scanner.Scan returns false: nothing is left, or the next line is too long.
LoopEnds ==
  /\ pc = "relay"
  /\ \/ NothingLeft
     \/ scanned < Arriving /\ sent[scanned + 1].kind = "huge"
  /\ pc' = "finish"
  /\ UNCHANGED <<adapter, providerVars, client, scanned, clientVars, outTok, tokens,
                 charsRead>>

\* forwardAnthropicStream says [DONE], whatever has ended its loop.  An answer
\* never costs nothing.
Return ==
  /\ pc = "finish"
  /\ adapter = "anthropic" => client # "stalled"
  /\ pc' = "returned"
  /\ closed' = (adapter = "anthropic" /\ client = "reading")
  /\ tokens' = IF outTok = 0 THEN 1 ELSE outTok
  /\ UNCHANGED <<adapter, providerVars, client, scanned, got, gotTorn, charsGot,
                 outTok, charsRead>>

-----------------------------------------------------------------------------
(* The provider, the network and the client *)

ProviderSends(line) ==
  /\ upstream = "open"
  /\ Len(sent) < MaxLines
  /\ sent' = Append(sent, line)
  /\ UNCHANGED <<adapter, upstream, limit, torn, client, pc, scanned, clientVars,
                 outTok, tokens, charsRead>>

ProviderEnds ==
  /\ upstream = "open"
  /\ upstream' = "ended"
  /\ UNCHANGED <<adapter, sent, limit, torn, client, pc, scanned, clientVars, outTok,
                 tokens, charsRead>>

\* Mutant: the http.Client has no timeout.
MutantCut ==
  /\ upstream # "cut" /\ pc = "relay"
  /\ client = "gone"
  /\ upstream' = "cut"
  /\ limit' \in scanned..Len(sent)
  /\ torn' = FALSE
  /\ UNCHANGED <<adapter, sent, client, pc, scanned, clientVars, outTok, tokens,
                 charsRead>>

\* The connection breaks, the timeout of the http.Client expires or the client
\* has gone and its context is cancelled.  Lines on their way may be lost.
Cut ==
  /\ upstream # "cut" /\ pc = "relay"
  /\ upstream' = "cut"
  /\ limit' \in scanned..Len(sent)
  /\ torn' \in BOOLEAN /\ (torn' => upstream = "open" \/ limit' < Len(sent))
  /\ UNCHANGED <<adapter, sent, client, pc, scanned, clientVars, outTok, tokens,
                 charsRead>>

ClientActs ==
  /\ \/ client = "reading" /\ client' \in {"stalled", "gone"}
     \/ client = "stalled" /\ client' \in {"reading", "gone"}
  /\ UNCHANGED <<adapter, providerVars, pc, scanned, clientVars, outTok, tokens,
                 charsRead>>

-----------------------------------------------------------------------------
HandlerStep == Skip \/ Relay \/ WriteFails \/ RelayTorn \/ LoopEnds \/ Return

Next ==
  \/ HandlerStep
  \/ \E line \in Line : ProviderSends(line)
  \/ ProviderEnds \/ Cut \/ ClientActs

Spec == Init /\ [][Next]_vars

\* The handler runs, and the timeout of the http.Client, which covers the body,
\* ends every answer.  Nothing obliges the client.
Fairness == WF_vars(HandlerStep) /\ WF_vars(Cut)

FairSpec == Spec /\ Fairness

-----------------------------------------------------------------------------
(* Properties *)

\* The client has a prefix of the answer: the lines to relay in their order,
\* none twice and none missing before the last one it has, however the
\* provider, the network and the client interfere.
GotPrefix ==
  /\ \A i, j \in 1..Len(got) : i < j => got[i] < got[j]
  /\ \A i \in 1..Len(got) :
       /\ IsRelayed(sent[got[i]])
       /\ \A k \in 1..got[i] : IsRelayed(sent[k]) => \E j \in 1..i : got[j] = k

Relayed(k) == \E i \in 1..Len(got) : got[i] = k

\* What the end of a stream tells.  A client that has stayed has everything the
\* scanner returned, and everything the provider sent if that has ended in an
\* orderly way and no line was too long.  The [DONE] of forwardAnthropicStream
\* always comes in that case; it tells of the scanner's end, not the provider's.
EndTells ==
  /\ pc = "returned" /\ client # "gone" =>
       /\ \A k \in 1..scanned : IsRelayed(sent[k]) => Relayed(k)
       /\ upstream = "ended" /\ (\A k \in 1..Len(sent) : sent[k].kind # "huge") =>
            /\ \A k \in 1..Len(sent) : IsRelayed(sent[k]) => Relayed(k)
            /\ ~gotTorn
       /\ adapter = "anthropic" => closed
  /\ closed => \A k \in 1..scanned : IsRelayed(sent[k]) => Relayed(k)

\* What a cut has left of a line is the last thing that its client gets, and so
\* is [DONE] of forwardAnthropicStream: no line follows either.
FragmentIsLast == [][gotTorn \/ closed => UNCHANGED clientVars]_vars

\* outTok: the usage that is reported is at most one token more than the
\* provider's text is worth at four bytes a token, and it is less than the
\* client's text is worth by no more than three bytes for each chunk.
BilledFairly ==
  pc = "returned" =>
    /\ 4 * (tokens - 1) <= charsRead
    /\ charsGot <= 4 * tokens + 3 * Len(got)

\* ForwardStream returns, whatever the provider does, unless its client stays
\* and stops reading again and again.
RelayReturns == <>[](client # "stalled") => <>(pc = "returned")
=============================================================================
