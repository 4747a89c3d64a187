-------------------------- MODULE StreamRelayProofs --------------------------
(***************************************************************************)
(* Proofs about StreamRelay, for streams of any length.                    *)
(*                                                                         *)
(* A chunk that is relayed must not leave a gap before it, and what shows  *)
(* that there is none is that a client which has not gone has every line   *)
(* up to the scanner: Staying.                                             *)
(***************************************************************************)
EXTENDS StreamRelay, TLAPS

USE LineAssumption DEF LineAssumption

AllRead == \A k \in 1..scanned : IsRelayed(sent[k]) => Relayed(k)

\* Lines on their way, and what has been scanned of them.
Wire ==
  /\ upstream = "cut" => scanned <= limit /\ limit <= Len(sent)
  /\ gotTorn => upstream = "cut"

\* The client has nothing that has not been scanned.
Behind == \A i \in 1..Len(got) : got[i] <= scanned

Staying ==
  /\ client # "gone" => AllRead
  /\ closed => AllRead /\ pc = "returned"

HasHuge == \E k \in 1..Len(sent) : sent[k].kind = "huge"

\* How the loop can have ended.
Ended ==
  /\ pc # "relay" /\ client # "gone" =>
       \/ upstream = "cut"
       \/ upstream = "ended" /\ scanned = Len(sent)
       \/ HasHuge
  /\ pc = "returned" /\ client # "gone" /\ adapter = "anthropic" => closed

Billing ==
  /\ 4 * outTok <= charsRead
  /\ charsGot <= 4 * outTok + 3 * Len(got)
  /\ pc = "returned" => tokens = IF outTok = 0 THEN 1 ELSE outTok

Inv ==
  /\ TypeOK
  /\ Wire
  /\ Behind
  /\ GotPrefix
  /\ Staying
  /\ Ended
  /\ Billing

LEMMA InvInit == Init => Inv
<1> SUFFICES ASSUME Init PROVE Inv
  OBVIOUS
<1>1. sent \in Seq(Line) /\ Len(sent) = 0 /\ got \in Seq(1..Len(sent)) /\ Len(got) = 0
  BY DEF Init
<1>2. /\ upstream = "open" /\ limit = 0 /\ pc = "relay" /\ scanned = 0
      /\ client \in {"reading", "gone"} /\ adapter \in {"openai", "anthropic"}
      /\ outTok = 0 /\ tokens = 0 /\ charsRead = 0 /\ charsGot = 0
  BY DEF Init
<1>3. ~torn /\ ~gotTorn /\ ~closed
  BY Zenon DEF Init
<1>4. torn \in BOOLEAN /\ gotTorn \in BOOLEAN /\ closed \in BOOLEAN
  BY Zenon DEF Init
<1>5. TypeOK
  BY <1>1, <1>2, <1>4 DEF TypeOK
<1>6. Wire /\ Ended /\ Billing
  BY <1>1, <1>2, <1>3 DEF Wire, Ended, Billing
<1>7. Behind /\ GotPrefix
  BY <1>1 DEF Behind, GotPrefix
<1>8. Staying
  BY <1>2, <1>3 DEF Staying, AllRead
<1> QED
  BY <1>5, <1>6, <1>7, <1>8 DEF Inv

LEMMA Quarter ==
  ASSUME NEW n \in Nat
  PROVE  n \div 4 \in Nat /\ 4 * (n \div 4) <= n /\ n <= 4 * (n \div 4) + 3
OBVIOUS

\* One more chunk on the bill.
LEMMA BillOneMore ==
  ASSUME NEW o \in Nat, NEW r \in Nat, NEW g \in Nat, NEW n \in Nat,
         NEW len \in Nat, NEW tok \in Nat,
         4 * o <= r, g <= 4 * o + 3 * n, 4 * tok <= len, len <= 4 * tok + 3
  PROVE  /\ o + tok \in Nat /\ r + len \in Nat /\ g + len \in Nat
         /\ 4 * (o + tok) <= r + len
         /\ g + len <= 4 * (o + tok) + 3 * (n + 1)
OBVIOUS

\* The lengths of lines.
LEMMA LineType ==
  ASSUME NEW line \in Line
  PROVE  line.length \in Nat /\ TokensOf(line) \in Nat
         /\ 4 * TokensOf(line) <= line.length /\ line.length <= 4 * TokensOf(line) + 3
<1>1. line.length \in Nat
  <2>1. CASE line \in [kind : {"delta"}, length : Length]
    BY <2>1
  <2>2. CASE line \in [kind : {"other", "done", "huge"}, length : {0}]
    BY <2>2
  <2> QED
    BY <2>1, <2>2 DEF Line
<1>2. /\ line.length \div 4 \in Nat /\ 4 * (line.length \div 4) <= line.length
      /\ line.length <= 4 * (line.length \div 4) + 3
  BY <1>1, Quarter
<1> QED
  BY <1>1, <1>2 DEF TokensOf

\* A step that takes nothing in and gives nothing out.
LEMMA QuietStep ==
  ASSUME Inv, UNCHANGED <<adapter, sent, scanned, got>>
  PROVE  /\ Behind' /\ GotPrefix'
         /\ AllRead => AllRead'
         /\ HasHuge => HasHuge'
<1>1. Behind' /\ (AllRead => AllRead') /\ (HasHuge => HasHuge')
  BY DEF Inv, Behind, AllRead, IsRelayed, Relayed, HasHuge
<1>2. GotPrefix'
  BY DEF Inv, GotPrefix, IsRelayed
<1> QED
  BY <1>1, <1>2

\* The line that the loop has in hand.
LEMMA InHand ==
  ASSUME TypeOK, Wire, HasLine
  PROVE  /\ sent[scanned + 1] \in Line
         /\ scanned + 1 \in 1..Len(sent) /\ scanned \in Nat
         /\ pc = "relay"
         /\ upstream = "cut" => scanned + 1 <= limit
BY DEF TypeOK, Wire, HasLine, Arriving

\* A line for which nothing reaches the client, whether it had to or not.
LEMMA PassStep ==
  ASSUME Inv, HasLine, scanned' = scanned + 1,
         UNCHANGED <<adapter, providerVars, client, clientVars, tokens>>,
         client = "gone" \/ ~IsRelayed(sent[scanned + 1]),
         pc' = "relay" \/ (pc' = "finish" /\ client = "gone"),
         outTok' \in Nat, charsRead' \in Nat, outTok' >= outTok,
         4 * outTok' <= charsRead'
  PROVE  Inv'
<1>1. /\ scanned + 1 \in 1..Len(sent) /\ scanned \in Nat /\ pc = "relay"
      /\ upstream = "cut" => scanned + 1 <= limit
  BY InHand DEF Inv
<1>2. UNCHANGED <<sent, upstream, limit, torn, got, gotTorn, closed, charsGot>>
  BY DEF providerVars, clientVars
<1>3. TypeOK'
  BY <1>1, <1>2 DEF Inv, TypeOK
<1>4. Wire'
  BY <1>1, <1>2 DEF Inv, Wire
<1>5. Behind'
  BY <1>1, <1>2 DEF Inv, TypeOK, Behind
<1>6. GotPrefix'
  BY <1>1, <1>2 DEF Inv, GotPrefix, IsRelayed
<1>7. Staying'
  <2>1. ~closed'
    BY <1>1, <1>2 DEF Inv, Staying
  <2>2. CASE client = "gone"
    BY <2>1, <2>2 DEF Staying
  <2>3. CASE ~IsRelayed(sent[scanned + 1]) /\ client # "gone"
    <3>1. AllRead'
      BY <1>1, <1>2, <2>3 DEF Inv, Staying, AllRead, IsRelayed, Relayed
    <3> QED
      BY <2>1, <3>1 DEF Staying
  <2> QED
    BY <2>2, <2>3
<1>8. Ended'
  BY <1>1 DEF Ended
<1>9. Billing'
  <2>1. charsGot <= 4 * outTok + 3 * Len(got) /\ outTok \in Nat /\ charsGot \in Nat
        /\ Len(got) \in Nat
    BY DEF Inv, Billing, TypeOK
  <2>2. charsGot' <= 4 * outTok' + 3 * Len(got)'
    BY <1>2, <2>1
  <2> QED
    BY <2>2 DEF Billing
<1> QED
  BY <1>3, <1>4, <1>5, <1>6, <1>7, <1>8, <1>9 DEF Inv

\* A line that reaches its client.
LEMMA DeliverStep ==
  ASSUME Inv, Relay, client = "reading"
  PROVE  Inv'
<1> DEFINE line == sent[scanned + 1]
<1>1. /\ line \in Line
      /\ scanned + 1 \in 1..Len(sent) /\ scanned \in Nat /\ pc = "relay"
      /\ upstream = "cut" => scanned + 1 <= limit
  BY InHand DEF Inv, Relay
<1>2. /\ scanned' = scanned + 1
      /\ charsRead' = charsRead + line.length
      /\ outTok' = outTok + TokensOf(line)
      /\ got' = Append(got, scanned + 1)
      /\ charsGot' = charsGot + line.length
      /\ UNCHANGED <<adapter, sent, upstream, limit, torn, client, pc, gotTorn, closed,
                     tokens>>
      /\ IsRelayed(line)
  BY DEF Relay, providerVars
<1>3. /\ line.length \in Nat /\ TokensOf(line) \in Nat
      /\ 4 * TokensOf(line) <= line.length /\ line.length <= 4 * TokensOf(line) + 3
  BY <1>1, LineType
<1> HIDE DEF line
<1>4. /\ Len(got') = Len(got) + 1 /\ Len(got) \in Nat
      /\ got'[Len(got) + 1] = scanned + 1
      /\ \A i \in 1..Len(got) : got'[i] = got[i] /\ got[i] \in 1..scanned
      /\ got' \in Seq(1..Len(sent))
  BY <1>1, <1>2 DEF Inv, TypeOK, Behind
<1>B. /\ outTok' \in Nat /\ charsRead' \in Nat /\ charsGot' \in Nat
      /\ 4 * outTok' <= charsRead' /\ charsGot' <= 4 * outTok' + 3 * Len(got')
  <2>1. /\ 4 * outTok <= charsRead /\ charsGot <= 4 * outTok + 3 * Len(got)
        /\ outTok \in Nat /\ charsRead \in Nat /\ charsGot \in Nat
    BY DEF Inv, Billing, TypeOK
  <2>2. /\ outTok + TokensOf(line) \in Nat /\ charsRead + line.length \in Nat
        /\ charsGot + line.length \in Nat
        /\ 4 * (outTok + TokensOf(line)) <= charsRead + line.length
        /\ charsGot + line.length <= 4 * (outTok + TokensOf(line)) + 3 * (Len(got) + 1)
    <3>1. PICK n \in Nat, len \in Nat, tok \in Nat :
            /\ n = Len(got) /\ len = line.length /\ tok = TokensOf(line)
            /\ 4 * tok <= len /\ len <= 4 * tok + 3
      BY <1>3, <1>4
    <3>2. charsGot <= 4 * outTok + 3 * n
      BY <2>1, <3>1
    <3>3. /\ outTok + tok \in Nat /\ charsRead + len \in Nat /\ charsGot + len \in Nat
          /\ 4 * (outTok + tok) <= charsRead + len
          /\ charsGot + len <= 4 * (outTok + tok) + 3 * (n + 1)
      <4>1. outTok \in Nat /\ charsRead \in Nat /\ charsGot \in Nat
        BY <2>1
      <4>2. 4 * outTok <= charsRead
        BY <2>1
      <4>3. 4 * tok <= len /\ len <= 4 * tok + 3
        BY <3>1
      <4> QED
        BY <3>2, <4>1, <4>2, <4>3, BillOneMore, Zenon
    <3> QED
      BY <3>1, <3>3
  <2> QED
    BY <1>2, <1>4, <2>2
<1>5. TypeOK'
  <2>1. scanned' \in 0..Len(sent') /\ got' \in Seq(1..Len(sent'))
    BY <1>1, <1>2, <1>4
  <2>2. TypeOK
    BY DEF Inv
  <2> QED
    BY <1>2, <1>B, <2>1, <2>2 DEF TypeOK
<1>6. Wire'
  BY <1>1, <1>2 DEF Inv, Wire
<1>7. Behind'
  BY <1>1, <1>2, <1>4 DEF Behind
<1>8. \A k \in 1..scanned : IsRelayed(sent[k]) => \E j \in 1..Len(got) : got[j] = k
  BY DEF Inv, Staying, AllRead, Relayed
<1>9. GotPrefix'
  <2>1. \A i, j \in 1..Len(got') : i < j => got'[i] < got'[j]
    <3> SUFFICES ASSUME NEW i \in 1..Len(got'), NEW j \in 1..Len(got'), i < j
                 PROVE  got'[i] < got'[j]
      OBVIOUS
    <3>1. i \in 1..Len(got)
      BY <1>4
    <3>2. CASE j \in 1..Len(got)
      BY <1>4, <3>1, <3>2 DEF Inv, GotPrefix
    <3>3. CASE j = Len(got) + 1
      BY <1>1, <1>4, <3>1, <3>3
    <3> QED
      BY <1>4, <3>2, <3>3
  <2>2. ASSUME NEW i \in 1..Len(got')
        PROVE  /\ IsRelayed(sent[got'[i]])
               /\ \A k \in 1..got'[i] : IsRelayed(sent[k]) => \E j \in 1..i : got'[j] = k
    <3>1. CASE i \in 1..Len(got)
      <4>1. got'[i] = got[i]
        BY <1>4, <3>1
      <4>2. /\ IsRelayed(sent[got[i]])
            /\ \A k \in 1..got[i] : IsRelayed(sent[k]) => \E j \in 1..i : got[j] = k
        BY <3>1 DEF Inv, GotPrefix
      <4>3. ASSUME NEW k \in 1..got[i], IsRelayed(sent[k])
            PROVE  \E j \in 1..i : got'[j] = k
        <5>1. PICK j \in 1..i : got[j] = k
          BY <4>2, <4>3
        <5>2. j \in 1..Len(got)
          BY <3>1
        <5>3. got'[j] = k
          BY <1>4, <5>1, <5>2
        <5> QED
          BY <5>3
      <4> QED
        BY <4>1, <4>2, <4>3
    <3>2. CASE i = Len(got) + 1
      <4>1. IsRelayed(sent[got'[i]])
        BY <1>2, <1>4, <3>2 DEF line
      <4>2. ASSUME NEW k \in 1..scanned, IsRelayed(sent[k])
            PROVE  \E j \in 1..i : got'[j] = k
        <5>1. PICK j \in 1..Len(got) : got[j] = k
          BY <1>8, <4>2
        <5>2. got'[j] = k /\ j \in 1..i
          BY <1>4, <3>2, <5>1
        <5> QED
          BY <5>2
      <4> QED
        BY <1>1, <1>4, <3>2, <4>1, <4>2
    <3> QED
      BY <1>4, <3>1, <3>2
  <2>3. UNCHANGED <<adapter, sent>>
    BY <1>2
  <2> QED
    BY <2>1, <2>2, <2>3 DEF GotPrefix, IsRelayed
<1>10. AllRead'
  <2> SUFFICES ASSUME NEW k \in 1..(scanned + 1), IsRelayed(sent[k])
               PROVE  \E i \in 1..Len(got') : got'[i] = k
    BY <1>2 DEF AllRead, IsRelayed, Relayed
  <2>1. CASE k = scanned + 1
    BY <1>4, <2>1
  <2>2. CASE k \in 1..scanned
    <3>1. PICK j \in 1..Len(got) : got[j] = k
      BY <1>8, <2>2
    <3>2. got'[j] = k /\ j \in 1..Len(got')
      BY <1>4, <3>1
    <3> QED
      BY <3>2
  <2> QED
    BY <1>1, <2>1, <2>2
<1>11. Staying'
  BY <1>1, <1>2, <1>10 DEF Inv, Staying
<1>12. Ended'
  BY <1>1, <1>2 DEF Ended
<1>13. Billing'
  BY <1>1, <1>2, <1>B DEF Billing
<1> QED
  BY <1>5, <1>6, <1>7, <1>9, <1>11, <1>12, <1>13 DEF Inv

-----------------------------------------------------------------------------
LEMMA HandlerKeepsInv == Inv /\ HandlerStep => Inv'
<1> SUFFICES ASSUME Inv, HandlerStep PROVE Inv'
  OBVIOUS
<1>0. outTok \in Nat /\ charsRead \in Nat /\ 4 * outTok <= charsRead
  BY DEF Inv, TypeOK, Billing
<1>1. CASE Skip
  BY <1>0, <1>1, PassStep DEF Skip, HasLine
<1>2. CASE Relay
  <2>1. CASE client = "reading"
    BY <1>2, <2>1, DeliverStep
  <2>2. CASE client = "gone"
    <3>1. /\ sent[scanned + 1].length \in Nat /\ TokensOf(sent[scanned + 1]) \in Nat
          /\ 4 * TokensOf(sent[scanned + 1]) <= sent[scanned + 1].length
      BY <1>2, InHand, LineType DEF Inv, Relay
    <3>2. /\ outTok' \in Nat /\ charsRead' \in Nat /\ outTok' >= outTok
          /\ 4 * outTok' <= charsRead'
      BY <1>0, <1>2, <3>1 DEF Relay
    <3>3. /\ HasLine /\ scanned' = scanned + 1 /\ pc' = "relay"
          /\ UNCHANGED <<adapter, providerVars, client, clientVars, tokens>>
      BY <1>2, <2>2 DEF Relay, HasLine, clientVars
    <3> QED
      BY <2>2, <3>2, <3>3, PassStep
  <2> QED
    BY <1>2, <2>1, <2>2 DEF Relay
<1>3. CASE WriteFails
  <2>1. /\ sent[scanned + 1].length \in Nat /\ TokensOf(sent[scanned + 1]) \in Nat
        /\ 4 * TokensOf(sent[scanned + 1]) <= sent[scanned + 1].length
    BY <1>3, InHand, LineType DEF Inv, WriteFails
  <2>2. charsRead' = charsRead + sent[scanned + 1].length
    BY <1>3 DEF WriteFails
  <2>3. outTok' = outTok + TokensOf(sent[scanned + 1]) \/ outTok' = outTok
    <3>1. CASE adapter = "anthropic"
      BY <1>3, <3>1 DEF WriteFails
    <3>2. CASE adapter # "anthropic"
      BY <1>0, <1>3, <3>2 DEF WriteFails
    <3> QED
      BY <3>1, <3>2
  <2>4. /\ outTok' \in Nat /\ charsRead' \in Nat /\ outTok' >= outTok
        /\ 4 * outTok' <= charsRead'
    BY <1>0, <2>1, <2>2, <2>3
  <2> QED
    BY <1>3, <2>4, PassStep DEF WriteFails
<1>4. CASE RelayTorn
  <2>1. /\ upstream = "cut" /\ pc = "relay" /\ pc' \in {"relay", "finish"}
        /\ pc' = "finish" => client = "gone"
        /\ torn' \in BOOLEAN /\ gotTorn' \in BOOLEAN
        /\ UNCHANGED <<adapter, sent, upstream, limit, client, scanned, got, closed,
                       charsGot, outTok, tokens, charsRead>>
    BY <1>4 DEF RelayTorn, Inv, TypeOK
  <2>2. TypeOK'
    BY <2>1 DEF Inv, TypeOK
  <2>3. Wire' /\ Billing' /\ Ended'
    BY <2>1 DEF Inv, Wire, Billing, Ended
  <2>4. Behind' /\ GotPrefix' /\ (AllRead => AllRead')
    BY <2>1, QuietStep
  <2>5. Staying'
    BY <2>1, <2>4 DEF Inv, Staying
  <2> QED
    BY <2>2, <2>3, <2>4, <2>5 DEF Inv
<1>5. CASE LoopEnds
  <2>1. /\ pc = "relay" /\ pc' = "finish"
        /\ UNCHANGED <<adapter, sent, upstream, limit, torn, client, scanned, got,
                       gotTorn, closed, charsGot, outTok, tokens, charsRead>>
    BY <1>5 DEF LoopEnds, providerVars, clientVars
  <2>2. TypeOK'
    BY <2>1 DEF Inv, TypeOK
  <2>3. Behind' /\ GotPrefix' /\ (AllRead => AllRead') /\ (HasHuge => HasHuge')
    BY <2>1, QuietStep
  <2>4. Wire' /\ Billing' /\ Staying'
    BY <2>1, <2>3 DEF Inv, Wire, Billing, Staying
  <2>5. Ended'
    <3>1. CASE NothingLeft
      BY <2>1, <3>1 DEF NothingLeft, Arriving, Ended, Inv, TypeOK
    <3>2. CASE scanned < Arriving /\ sent[scanned + 1].kind = "huge"
      <4>1. scanned + 1 \in 1..Len(sent)
        BY <3>2 DEF Arriving, Inv, TypeOK, Wire
      <4>2. HasHuge
        BY <3>2, <4>1 DEF HasHuge
      <4> QED
        BY <2>1, <2>3, <4>2 DEF Ended
    <3> QED
      BY <1>5, <3>1, <3>2 DEF LoopEnds
  <2> QED
    BY <2>2, <2>3, <2>4, <2>5 DEF Inv
<1>6. CASE Return
  <2>1. /\ pc = "finish" /\ pc' = "returned"
        /\ adapter = "anthropic" => client # "stalled"
        /\ tokens' = IF outTok = 0 THEN 1 ELSE outTok
        /\ closed' = (adapter = "anthropic" /\ client = "reading")
    BY <1>6 DEF Return
  <2>2. UNCHANGED <<adapter, sent, upstream, limit, torn, client, scanned, got,
                    gotTorn, charsGot, outTok, charsRead>>
    BY <1>6 DEF Return, providerVars
  <2>3. tokens' \in Nat /\ closed' \in BOOLEAN
    BY <1>0, <2>1
  <2>4. TypeOK'
    BY <2>1, <2>2, <2>3 DEF Inv, TypeOK
  <2>5. Behind' /\ GotPrefix' /\ (AllRead => AllRead') /\ (HasHuge => HasHuge')
    BY <2>2, QuietStep
  <2>6. Wire' /\ Billing'
    BY <2>1, <2>2 DEF Inv, Wire, Billing
  <2>7. closed' => client = "reading"
    BY <2>1
  <2>8. Staying'
    BY <2>1, <2>2, <2>5, <2>7 DEF Inv, Staying
  <2>9. client # "gone" /\ adapter = "anthropic" => closed'
    BY <2>1 DEF Inv, TypeOK
  <2>10. Ended'
    BY <2>1, <2>2, <2>5, <2>9 DEF Inv, Ended
  <2> QED
    BY <2>4, <2>5, <2>6, <2>8, <2>10 DEF Inv
<1> QED
  BY <1>1, <1>2, <1>3, <1>4, <1>5, <1>6 DEF HandlerStep

\* A new line disturbs nothing that has been relayed.
LEMMA SendStep ==
  ASSUME Inv, NEW line \in Line, ProviderSends(line)
  PROVE  Inv'
<1>1. /\ upstream = "open" /\ Len(sent) < MaxLines /\ sent' = Append(sent, line)
      /\ UNCHANGED <<adapter, upstream, limit, torn, client, pc, scanned, got,
                     gotTorn, closed, charsGot, outTok, tokens, charsRead>>
  BY DEF ProviderSends, clientVars
<1>2. /\ sent' \in Seq(Line) /\ Len(sent') = Len(sent) + 1 /\ Len(sent) \in Nat
      /\ \A k \in 1..Len(sent) : sent'[k] = sent[k]
      /\ scanned \in 0..Len(sent) /\ got \in Seq(1..Len(sent))
  BY <1>1 DEF Inv, TypeOK
<1>3. /\ \A i \in 1..Len(got) : got[i] \in 1..Len(sent)
      /\ got \in Seq(1..Len(sent'))
  BY <1>2
<1>4. TypeOK'
  BY <1>1, <1>2, <1>3 DEF Inv, TypeOK
<1>5. Wire' /\ Behind' /\ Billing'
  BY <1>1 DEF Inv, Wire, Behind, Billing
<1>6. GotPrefix'
  <2>1. \A i, j \in 1..Len(got) : i < j => got[i] < got[j]
    BY DEF Inv, GotPrefix
  <2>2. ASSUME NEW i \in 1..Len(got)
        PROVE  /\ IsRelayed(sent[got[i]])'
               /\ \A k \in 1..got[i] : IsRelayed(sent[k])' => \E j \in 1..i : got[j] = k
    <3>1. got[i] \in 1..Len(sent) /\ \A k \in 1..got[i] : sent'[k] = sent[k]
      BY <1>2, <1>3
    <3>2. /\ IsRelayed(sent[got[i]])
          /\ \A k \in 1..got[i] : IsRelayed(sent[k]) => \E j \in 1..i : got[j] = k
      BY DEF Inv, GotPrefix
    <3> QED
      BY <1>1, <3>1, <3>2 DEF IsRelayed
  <2> QED
    BY <1>1, <2>1, <2>2 DEF GotPrefix
<1>7. AllRead => AllRead'
  <2>1. \A k \in 1..scanned : sent'[k] = sent[k]
    BY <1>2
  <2> QED
    BY <1>1, <2>1 DEF AllRead, IsRelayed, Relayed
<1>8. HasHuge => HasHuge'
  BY <1>2 DEF HasHuge
<1>9. Staying' /\ Ended'
  BY <1>1, <1>7, <1>8 DEF Inv, Staying, Ended
<1> QED
  BY <1>4, <1>5, <1>6, <1>9 DEF Inv

LEMMA InvStep == Inv /\ [Next]_vars => Inv'
<1> SUFFICES ASSUME Inv, [Next]_vars PROVE Inv'
  OBVIOUS
<1>1. CASE HandlerStep
  BY <1>1, HandlerKeepsInv
<1>2. ASSUME NEW line \in Line, ProviderSends(line) PROVE Inv'
  BY <1>2, SendStep
<1>3. CASE ProviderEnds
  <2>1. /\ upstream = "open" /\ upstream' = "ended"
        /\ UNCHANGED <<adapter, sent, limit, torn, client, pc, scanned, got, gotTorn,
                       closed, charsGot, outTok, tokens, charsRead>>
    BY <1>3 DEF ProviderEnds, clientVars
  <2>2. Behind' /\ GotPrefix' /\ (AllRead => AllRead') /\ (HasHuge => HasHuge')
    BY <2>1, QuietStep
  <2>3. TypeOK'
    BY <2>1 DEF Inv, TypeOK
  <2>4. Wire' /\ Staying' /\ Ended' /\ Billing'
    BY <2>1, <2>2 DEF Inv, Wire, Staying, Ended, Billing
  <2> QED
    BY <2>2, <2>3, <2>4 DEF Inv
<1>4. CASE Cut
  <2>1. /\ pc = "relay" /\ upstream' = "cut"
        /\ limit' \in scanned..Len(sent) /\ torn' \in BOOLEAN
        /\ UNCHANGED <<adapter, sent, client, pc, scanned, got, gotTorn,
                       closed, charsGot, outTok, tokens, charsRead>>
    BY <1>4 DEF Cut, clientVars
  <2>2. Behind' /\ GotPrefix' /\ (AllRead => AllRead') /\ (HasHuge => HasHuge')
    BY <2>1, QuietStep
  <2>3. limit' \in 0..MaxLines /\ scanned <= limit' /\ limit' <= Len(sent)
    BY <2>1 DEF Inv, TypeOK
  <2>4. TypeOK'
    BY <2>1, <2>3 DEF Inv, TypeOK
  <2>5. Wire' /\ Staying' /\ Ended' /\ Billing'
    BY <2>1, <2>2, <2>3 DEF Inv, Wire, Staying, Ended, Billing
  <2> QED
    BY <2>2, <2>4, <2>5 DEF Inv
<1>5. CASE ClientActs
  <2>1. /\ client # "gone" /\ client' \in {"reading", "stalled", "gone"}
        /\ UNCHANGED <<adapter, sent, upstream, limit, torn, pc, scanned, got, gotTorn,
                       closed, charsGot, outTok, tokens, charsRead>>
    BY <1>5 DEF ClientActs, clientVars, providerVars
  <2>2. Behind' /\ GotPrefix' /\ (AllRead => AllRead') /\ (HasHuge => HasHuge')
    BY <2>1, QuietStep
  <2>3. TypeOK'
    BY <2>1 DEF Inv, TypeOK
  <2>4. Wire' /\ Staying' /\ Ended' /\ Billing'
    BY <2>1, <2>2 DEF Inv, Wire, Staying, Ended, Billing
  <2> QED
    BY <2>2, <2>3, <2>4 DEF Inv
<1>6. CASE UNCHANGED vars
  <2>1. UNCHANGED <<adapter, sent, upstream, limit, torn, client, pc, scanned, got,
                    gotTorn, closed, charsGot, outTok, tokens, charsRead>>
    BY <1>6 DEF vars, providerVars, clientVars
  <2>2. Behind' /\ GotPrefix' /\ (AllRead => AllRead') /\ (HasHuge => HasHuge')
    BY <2>1, QuietStep
  <2>3. TypeOK'
    BY <2>1 DEF Inv, TypeOK
  <2>4. Wire' /\ Staying' /\ Ended' /\ Billing'
    BY <2>1, <2>2 DEF Inv, Wire, Staying, Ended, Billing
  <2> QED
    BY <2>2, <2>3, <2>4 DEF Inv
<1> QED
  BY <1>1, <1>2, <1>3, <1>4, <1>5, <1>6 DEF Next

-----------------------------------------------------------------------------
(* The theorems *)

LEMMA Invariance == Spec => []Inv
BY InvInit, InvStep, PTL DEF Spec

\* TypeOK of StreamRelay, for streams of any length.
THEOREM TypeCorrect == Spec => []TypeOK
<1>1. Inv => TypeOK
  BY DEF Inv
<1> QED
  BY <1>1, Invariance, PTL

\* GotPrefix of StreamRelay: both adapters hand on a prefix of the answer, in
\* order, nothing twice and nothing left out.
THEOREM ClientHasPrefix == Spec => []GotPrefix
<1>1. Inv => GotPrefix
  BY DEF Inv
<1> QED
  BY <1>1, Invariance, PTL

\* EndTells of StreamRelay: an orderly end is the end of the whole answer, and
\* the adapter's own [DONE] the end of what was read.
THEOREM EndsTell == Spec => []EndTells
<1>1. ASSUME Inv PROVE EndTells
  <2>1. ASSUME pc = "returned", client # "gone"
        PROVE  /\ AllRead /\ (adapter = "anthropic" => closed)
               /\ upstream = "ended" /\ ~HasHuge => scanned = Len(sent) /\ ~gotTorn
    BY <1>1, <2>1 DEF Inv, Staying, Ended, Wire
  <2>2. closed => AllRead
    BY <1>1 DEF Inv, Staying
  <2> QED
    BY <2>1, <2>2 DEF EndTells, AllRead, HasHuge
<1> QED
  BY <1>1, Invariance, PTL

\* BilledFairly of StreamRelay: usage is neither invented nor lost beyond what
\* the integer division of each chunk drops.
THEOREM BillIsFair == Spec => []BilledFairly
<1>1. ASSUME Inv PROVE BilledFairly
  <2>1. /\ outTok \in Nat /\ tokens \in Nat /\ charsRead \in Nat /\ charsGot \in Nat
        /\ Len(got) \in Nat
    BY <1>1 DEF Inv, TypeOK
  <2>2. /\ 4 * outTok <= charsRead /\ charsGot <= 4 * outTok + 3 * Len(got)
        /\ pc = "returned" => tokens = IF outTok = 0 THEN 1 ELSE outTok
    BY <1>1 DEF Inv, Billing
  <2> QED
    BY <2>1, <2>2 DEF BilledFairly
<1> QED
  BY <1>1, Invariance, PTL

-----------------------------------------------------------------------------
\* A fragment comes after the last line that arrives whole.
TornAtTheEnd ==
  /\ torn => upstream = "cut"
  /\ gotTorn => ~torn /\ upstream = "cut" /\ scanned = limit /\ adapter = "openai"

\* Nothing is left to relay after a fragment.
LEMMA NoLineAfterFragment ==
  ASSUME TypeOK, TornAtTheEnd, gotTorn
  PROVE  ~HasLine /\ ~RelayTorn
<1>1. /\ ~torn /\ upstream = "cut" /\ scanned = limit /\ limit \in Int
  BY DEF TypeOK, TornAtTheEnd
<1>2. ~(scanned < Arriving)
  BY <1>1 DEF Arriving
<1> QED
  BY <1>1, <1>2, Zenon DEF HasLine, RelayTorn

LEMMA TornStep == Inv /\ TornAtTheEnd /\ [Next]_vars => TornAtTheEnd'
<1> SUFFICES ASSUME Inv, TornAtTheEnd, [Next]_vars PROVE TornAtTheEnd'
  OBVIOUS
<1> USE DEF TornAtTheEnd, providerVars, clientVars
<1>1. CASE Skip \/ Relay \/ WriteFails
  <2>1. HasLine /\ UNCHANGED <<torn, upstream, gotTorn>>
    BY <1>1 DEF Skip, Relay, WriteFails
  <2>2. ~gotTorn
    BY <2>1, NoLineAfterFragment DEF Inv
  <2> QED
    BY <2>1, <2>2
<1>2. CASE RelayTorn
  BY <1>2 DEF RelayTorn
<1>3. CASE LoopEnds \/ Return \/ ClientActs
  BY <1>3 DEF LoopEnds, Return, ClientActs
<1>4. CASE ProviderEnds \/ Cut \/ \E line \in Line : ProviderSends(line)
  BY <1>4 DEF ProviderEnds, Cut, ProviderSends, Inv, Wire
<1>5. CASE UNCHANGED vars
  BY <1>5 DEF vars
<1> QED
  BY <1>1, <1>2, <1>3, <1>4, <1>5 DEF Next, HandlerStep

\* FragmentIsLast of StreamRelay: a client that got part of a line as a line, or
\* [DONE], gets no more.
THEOREM FragmentsComeLast == Spec => FragmentIsLast
<1>1. Init => TornAtTheEnd
  BY Zenon DEF Init, TornAtTheEnd
<1>2. Inv /\ TornAtTheEnd /\ [Next]_vars => [gotTorn \/ closed => UNCHANGED clientVars]_vars
  <2> SUFFICES ASSUME Inv, TornAtTheEnd, Next, gotTorn \/ closed
               PROVE  UNCHANGED clientVars
    OBVIOUS
  <2>1. ASSUME Skip \/ Relay \/ WriteFails \/ RelayTorn PROVE FALSE
    <3>1. HasLine \/ RelayTorn
      BY <2>1 DEF Skip, Relay, WriteFails
    <3>2. pc = "relay"
      BY <3>1 DEF HasLine, RelayTorn
    <3> QED
      BY <3>1, <3>2, NoLineAfterFragment DEF Inv, Staying
  <2>2. CASE Return
    <3>1. pc = "finish" /\ UNCHANGED <<got, gotTorn, charsGot>>
      BY <2>2 DEF Return
    <3>2. gotTorn /\ ~closed
      BY <3>1 DEF Inv, Staying
    <3>3. closed' = FALSE
      BY <2>2, <3>2 DEF Return, TornAtTheEnd
    <3> QED
      BY <3>1, <3>2, <3>3 DEF clientVars, Inv, TypeOK
  <2>3. CASE LoopEnds \/ ProviderEnds \/ Cut \/ ClientActs
             \/ \E line \in Line : ProviderSends(line)
    BY <2>3 DEF LoopEnds, ProviderEnds, Cut, ClientActs, ProviderSends
  <2> QED
    BY <2>1, <2>2, <2>3 DEF Next, HandlerStep
<1> QED
  BY <1>1, <1>2, TornStep, Invariance, PTL DEF Spec, FragmentIsLast
=============================================================================
