---------------------------- MODULE GatewayProofs ----------------------------
(***************************************************************************)
(* Proofs about Gateway, for every configuration, every size of the        *)
(* memories and every bound: what each message, event and call goes        *)
(* through keeps its order and happens once.                               *)
(*                                                                         *)
(* Each part has an inductive invariant of its own: ChannelsInv says how   *)
(* the messages of a channel stand on their way from the wire over the     *)
(* handlers to the agent and their answers back, MochatInv how the frames  *)
(* of a session are apart and those of a panel in order, SandboxInv where  *)
(* the calls are; StreamInv is that of EventStreamProofs.  No two parts    *)
(* share a variable, so that the gateway keeps them all.                   *)
(***************************************************************************)
EXTENDS Gateway, EventStreamProofs, FiniteSetTheorems, NaturalsInduction

-----------------------------------------------------------------------------
(* Recursion over the numbers.                                             *)

\* What holds of 0 and of the successor of each that it holds of holds of every number.
LEMMA NatInd ==
  ASSUME NEW S \in SUBSET Nat, 0 \in S, \A n \in S : n + 1 \in S
  PROVE  S = Nat
<1>. DEFINE T == Nat \ S
<1>. SUFFICES ASSUME T # {} PROVE FALSE
  OBVIOUS
<1>1. PICK n \in T : \A m \in T : <<m, n>> \notin OpToRel(<, Nat)
  BY WFMin, NatLessThanWellFounded, Zenon
<1>2. n \in Nat /\ n \notin S /\ n # 0 /\ n - 1 \in Nat
  OBVIOUS
<1>3. n - 1 \in T
  <2>1. n - 1 \in S => (n - 1) + 1 \in S
    OBVIOUS
  <2>. QED
    BY <1>2, <2>1
<1>4. <<n - 1, n>> \in OpToRel(<, Nat)
  BY <1>2 DEF OpToRel
<1>. QED
  BY <1>1, <1>3, <1>4

\* A function is defined by what it is at 0 and how it goes on.
Iteration(f, n, S, x, F) ==
  /\ f \in [0 .. n -> S]
  /\ \A i \in 0 .. n : f[i] = IF i = 0 THEN x ELSE F[<<i, f[i - 1]>>]

\* Such a function exists: a recursive definition over 0 .. N means what it says.
LEMMA Iterates ==
  ASSUME NEW S, NEW x \in S, NEW F \in [Nat \X S -> S], NEW N \in Nat
  PROVE  \E f : Iteration(f, N, S, x, F)
<1>. DEFINE Solves(n, f) == /\ f \in [0 .. n -> S]
                            /\ \A i \in 0 .. n : f[i] = IF i = 0 THEN x ELSE F[<<i, f[i - 1]>>]
            T == {n \in Nat : \E f : Solves(n, f)}
<1>1. 0 \in T
  <2>1. Solves(0, [i \in 0 .. 0 |-> x])
    OBVIOUS
  <2>. QED
    BY <2>1
<1>2. ASSUME NEW n \in T PROVE n + 1 \in T
  <2>1. PICK f : Solves(n, f)
    BY <1>2
  <2>2. n \in Nat /\ n + 1 \in Nat /\ f[n] \in S /\ F[<<n + 1, f[n]>>] \in S
    BY <2>1
  <2>. DEFINE g == [i \in 0 .. n + 1 |-> IF i = n + 1 THEN F[<<n + 1, f[n]>>] ELSE f[i]]
  <2>3. g \in [0 .. n + 1 -> S]
    BY <2>1, <2>2
  <2>4. ASSUME NEW i \in 0 .. n + 1 PROVE g[i] = IF i = 0 THEN x ELSE F[<<i, g[i - 1]>>]
    <3>1. CASE i = n + 1
      <4>1. i # 0 /\ i - 1 = n /\ n \in 0 .. n + 1 /\ n # n + 1
        BY <2>2, <3>1
      <4>2. g[i - 1] = f[n]
        BY <4>1
      <4>. QED
        BY <3>1, <4>1, <4>2
    <3>2. CASE i # n + 1
      <4>1. i \in 0 .. n /\ g[i] = f[i]
        BY <2>2, <3>2
      <4>2. i # 0 => i - 1 \in 0 .. n + 1 /\ i - 1 # n + 1 /\ g[i - 1] = f[i - 1]
        BY <2>2, <4>1
      <4>. HIDE DEF g
      <4>. QED
        BY <2>1, <4>1, <4>2
    <3>. QED
      BY <3>1, <3>2
  <2>5. Solves(n + 1, g)
    BY <2>3, <2>4
  <2>. QED
    BY <2>2, <2>5
<1>3. T = Nat
  <2>. HIDE DEF T
  <2>1. T \in SUBSET Nat
    BY DEF T
  <2>. QED
    BY <1>1, <1>2, <2>1, NatInd
<1>. QED
  BY <1>3 DEF Iteration

-----------------------------------------------------------------------------
(* Sequences that grow at one end and shrink at the other.                 *)

\* A sequence with an element more at its end.
LEMMA Grown ==
  ASSUME NEW S, NEW s \in Seq(S), NEW e \in S
  PROVE  /\ Append(s, e) \in Seq(S) /\ Len(Append(s, e)) = Len(s) + 1 /\ Len(s) \in Nat
         /\ DOMAIN s = 1 .. Len(s) /\ DOMAIN Append(s, e) = 1 .. Len(s) + 1
         /\ \A i \in DOMAIN s : Append(s, e)[i] = s[i] /\ s[i] \in S
         /\ Append(s, e)[Len(s) + 1] = e
BY AppendProperties, LenProperties, ElementOfSeq

\* A sequence without its first element.
LEMMA Shrunk ==
  ASSUME NEW S, NEW s \in Seq(S), s # <<>>
  PROVE  /\ Tail(s) \in Seq(S) /\ Len(Tail(s)) = Len(s) - 1 /\ Len(s) \in Nat \ {0}
         /\ DOMAIN s = 1 .. Len(s) /\ DOMAIN Tail(s) = 1 .. Len(s) - 1
         /\ \A i \in DOMAIN Tail(s) : i + 1 \in DOMAIN s /\ Tail(s)[i] = s[i + 1]
         /\ Head(s) = s[1] /\ s[1] \in S /\ 1 \in DOMAIN s
         /\ Range(s) = {s[1]} \cup Range(Tail(s))
<1>1. Len(s) \in Nat \ {0} /\ DOMAIN s = 1 .. Len(s) /\ Head(s) = s[1] /\ s[1] \in S
  BY EmptySeq, LenProperties, ElementOfSeq
<1>2. /\ Tail(s) \in Seq(S) /\ Len(Tail(s)) = Len(s) - 1
      /\ \A i \in 1 .. Len(Tail(s)) : Tail(s)[i] = s[i + 1]
  BY HeadTailProperties
<1>3. DOMAIN Tail(s) = 1 .. Len(s) - 1
  BY <1>2, LenProperties
<1>4. \A i \in DOMAIN s : i = 1 \/ (i - 1 \in DOMAIN Tail(s) /\ Tail(s)[i - 1] = s[i])
  BY <1>1, <1>2, <1>3
<1>5. Range(s) = {s[1]} \cup Range(Tail(s))
  <2>1. ASSUME NEW e \in Range(s) PROVE e \in {s[1]} \cup Range(Tail(s))
    <3>1. PICK i \in DOMAIN s : e = s[i]
      BY DEF Range
    <3>. QED
      BY <1>4, <3>1 DEF Range
  <2>2. ASSUME NEW e \in Range(Tail(s)) PROVE e \in Range(s)
    <3>1. PICK i \in DOMAIN Tail(s) : e = Tail(s)[i]
      BY DEF Range
    <3>2. i + 1 \in DOMAIN s /\ e = s[i + 1]
      BY <1>1, <1>2, <1>3, <3>1
    <3>. QED
      BY <3>2 DEF Range
  <2>3. s[1] \in Range(s)
    BY <1>1 DEF Range
  <2>. QED
    BY <2>1, <2>2, <2>3
<1>. QED
  BY <1>1, <1>2, <1>3, <1>5

\* Two sequences, one after the other.
LEMMA Joined ==
  ASSUME NEW S, NEW s \in Seq(S), NEW t \in Seq(S)
  PROVE  /\ s \o t \in Seq(S) /\ Len(s \o t) = Len(s) + Len(t) /\ Len(s) \in Nat /\ Len(t) \in Nat
         /\ DOMAIN s = 1 .. Len(s) /\ DOMAIN t = 1 .. Len(t)
         /\ DOMAIN (s \o t) = 1 .. Len(s) + Len(t)
         /\ \A i \in DOMAIN s : (s \o t)[i] = s[i] /\ s[i] \in S
         /\ \A i \in DOMAIN (s \o t) : i \notin DOMAIN s =>
              i - Len(s) \in DOMAIN t /\ (s \o t)[i] = t[i - Len(s)] /\ t[i - Len(s)] \in S
<1>1. /\ s \o t \in Seq(S) /\ Len(s \o t) = Len(s) + Len(t)
      /\ \A i \in 1 .. Len(s) + Len(t) : (s \o t)[i] = IF i <= Len(s) THEN s[i] ELSE t[i - Len(s)]
  BY ConcatProperties
<1>2. Len(s) \in Nat /\ Len(t) \in Nat /\ DOMAIN s = 1 .. Len(s) /\ DOMAIN t = 1 .. Len(t)
      /\ DOMAIN (s \o t) = 1 .. Len(s) + Len(t)
  BY <1>1, LenProperties
<1>3. (\A i \in DOMAIN s : s[i] \in S) /\ (\A i \in DOMAIN t : t[i] \in S)
  BY <1>2, ElementOfSeq
<1>. QED
  BY <1>1, <1>2, <1>3

\* A function on 1 .. n is a sequence.
LEMMA FunctionIsSeq ==
  ASSUME NEW S, NEW n \in Nat, NEW f \in [1 .. n -> S]
  PROVE  f \in Seq(S) /\ Len(f) = n
OBVIOUS


\* The message that was remembered last.
Mark(ids) == IF ids = <<>> THEN 0 ELSE ids[Len(ids)]

\* A sequence without its i-th element.
LEMMA Removed ==
  ASSUME NEW S, NEW s \in Seq(S), NEW i \in DOMAIN s
  PROVE  /\ RemoveAt(s, i) \in Seq(S) /\ Len(RemoveAt(s, i)) = Len(s) - 1
         /\ Len(s) \in Nat \ {0} /\ DOMAIN s = 1 .. Len(s)
         /\ DOMAIN RemoveAt(s, i) = 1 .. Len(s) - 1
         /\ \A j \in DOMAIN RemoveAt(s, i) : RemoveAt(s, i)[j] = IF j < i THEN s[j] ELSE s[j + 1]
<1>. DEFINE x == SubSeq(s, 1, i - 1)
            y == SubSeq(s, i + 1, Len(s))
<1>1. Len(s) \in Nat \ {0} /\ DOMAIN s = 1 .. Len(s) /\ i \in 1 .. Len(s)
        /\ \A j \in 1 .. Len(s) : s[j] \in S
  BY LenProperties, ElementOfSeq
<1>2. /\ x \in Seq(S) /\ Len(x) = i - 1
      /\ \A j \in 1 .. i - 1 : x[j] = s[j]
  <2>1. 1 \in Int /\ i - 1 \in Int /\ \A j \in 1 .. i - 1 : s[j] \in S
    BY <1>1
  <2>2. /\ x \in Seq(S) /\ Len(x) = (IF 1 <= i - 1 THEN (i - 1) - 1 + 1 ELSE 0)
        /\ \A j \in 1 .. (i - 1) - 1 + 1 : x[j] = s[1 + j - 1]
    BY <2>1, SubSeqProperties
  <2>. HIDE DEF x
  <2>. QED
    BY <1>1, <2>2
<1>3. /\ y \in Seq(S) /\ Len(y) = Len(s) - i
      /\ \A j \in 1 .. Len(s) - i : y[j] = s[i + j]
  <2>1. i + 1 \in Int /\ Len(s) \in Int /\ \A j \in i + 1 .. Len(s) : s[j] \in S
    BY <1>1
  <2>2. /\ y \in Seq(S) /\ Len(y) = (IF i + 1 <= Len(s) THEN Len(s) - (i + 1) + 1 ELSE 0)
        /\ \A j \in 1 .. Len(s) - (i + 1) + 1 : y[j] = s[(i + 1) + j - 1]
    BY <2>1, SubSeqProperties
  <2>. HIDE DEF y
  <2>. QED
    BY <1>1, <2>2
<1>4. RemoveAt(s, i) = x \o y
  BY DEF RemoveAt
<1>. HIDE DEF x, y
<1>5. /\ x \o y \in Seq(S) /\ Len(x \o y) = Len(x) + Len(y)
      /\ \A j \in 1 .. Len(x) + Len(y) : (x \o y)[j] = IF j <= Len(x) THEN x[j] ELSE y[j - Len(x)]
  BY <1>2, <1>3, ConcatProperties
<1>6. Len(x) + Len(y) = Len(s) - 1
  BY <1>1, <1>2, <1>3
<1>7. ASSUME NEW j \in 1 .. Len(s) - 1 PROVE RemoveAt(s, i)[j] = IF j < i THEN s[j] ELSE s[j + 1]
  <2>1. CASE j < i
    BY <1>1, <1>2, <1>4, <1>5, <1>6, <2>1
  <2>2. CASE ~(j < i)
    <3>1. j - Len(x) \in 1 .. Len(s) - i /\ ~(j <= Len(x)) /\ i + (j - Len(x)) = j + 1
      BY <1>1, <1>2, <2>2
    <3>2. RemoveAt(s, i)[j] = y[j - Len(x)]
      BY <1>4, <1>5, <1>6, <3>1
    <3>. QED
      BY <1>3, <2>2, <3>1, <3>2
  <2>. QED
    BY <2>1, <2>2
<1>8. DOMAIN RemoveAt(s, i) = 1 .. Len(s) - 1
  <2>1. RemoveAt(s, i) \in Seq(S) /\ Len(RemoveAt(s, i)) = Len(s) - 1
    BY <1>4, <1>5, <1>6
  <2>. QED
    BY <2>1, LenProperties
<1>. QED
  BY <1>1, <1>4, <1>5, <1>6, <1>7, <1>8
\* What follows the first k elements.
LEMMA Rest ==
  ASSUME NEW S, NEW s \in Seq(S), NEW k \in 0 .. Len(s)
  PROVE  /\ SubSeq(s, k + 1, Len(s)) \in Seq(S)
         /\ DOMAIN SubSeq(s, k + 1, Len(s)) = 1 .. Len(s) - k
         /\ \A i \in DOMAIN SubSeq(s, k + 1, Len(s)) : SubSeq(s, k + 1, Len(s))[i] = s[k + i]
<1>. DEFINE n == Len(s)
            t == SubSeq(s, k + 1, n)
<1>1. n \in Nat /\ k \in 0 .. n /\ DOMAIN s = 1 .. n /\ \A i \in 1 .. n : s[i] \in S
  BY LenProperties, ElementOfSeq
<1>2. k + 1 \in Int /\ n \in Int /\ \A i \in k + 1 .. n : s[i] \in S
  BY <1>1
<1>3. /\ t \in Seq(S) /\ Len(t) = (IF k + 1 <= n THEN n - (k + 1) + 1 ELSE 0)
      /\ \A i \in 1 .. n - (k + 1) + 1 : t[i] = s[(k + 1) + i - 1]
  BY <1>2, SubSeqProperties
<1>. HIDE DEF t, n
<1>4. Len(t) = n - k
  BY <1>1, <1>3
<1>5. DOMAIN t = 1 .. n - k
  BY <1>3, <1>4, LenProperties
<1>6. \A i \in 1 .. n - k : i \in 1 .. n - (k + 1) + 1 /\ (k + 1) + i - 1 = k + i
  BY <1>1
<1>7. \A i \in DOMAIN t : t[i] = s[k + i]
  BY <1>3, <1>5, <1>6
<1>. QED
  BY <1>3, <1>5, <1>7 DEF n, t

-----------------------------------------------------------------------------
(* Channels: the inductive invariant.                                      *)

\* The kinds of entries a platform hands over, and the numbers they carry.
KindsOf(c) ==
  IF c = "slack" THEN {"message", "mention", "twin"}
  ELSE IF c = "whatsapp" THEN {"message", "connected", "disconnected"} ELSE {"message"}

WellFormed(c, e) ==
  e \in Entry /\ e.kind \in KindsOf(c) /\ (e.of = 0 <=> e.kind \in {"connected", "disconnected"})

\* An entry whose message has not been handed over before.
Fresh(e, mark) == e.kind # "twin" /\ e.of > mark

\* m may precede n on channel c.
Apart(c, m, n) == m # n /\ (c \in InOrder => m < n)

\* The way of channel c's messages from the wire w over the handlers h to the queue p, where
\* o says on which channel a message was written: the fresh entries of the wire are in
\* order, and each stage is apart from those before it, unless Slack's twins pass.
Pipe(c, w, h, p, mark, o, loose) ==
  /\ \A i \in DOMAIN w : WellFormed(c, w[i]) /\ (w[i].of # 0 => o[w[i].of] = c)
  /\ \A i \in DOMAIN h : o[h[i]] = c
  /\ \A i, j \in DOMAIN w : (i < j /\ Fresh(w[i], mark) /\ Fresh(w[j], mark)) => w[i].of < w[j].of
  /\ ~loose =>
       /\ \A i, j \in DOMAIN h : i < j => Apart(c, h[i], h[j])
       /\ \A i \in DOMAIN h, j \in DOMAIN w : Fresh(w[j], mark) => Apart(c, h[i], w[j].of)
       /\ \A i \in DOMAIN p : o[p[i]] = c =>
            /\ \A j \in DOMAIN h : Apart(c, p[i], h[j])
            /\ \A j \in DOMAIN w : Fresh(w[j], mark) => Apart(c, p[i], w[j].of)
            /\ \A j \in DOMAIN p : (i < j /\ o[p[j]] = c) => Apart(c, p[i], p[j])

Repeating == {"feishu", "qq"}

\* The messages of channel c after m, up to t.
Between(c, o, m, t) == {n \in Message : o[n] = c /\ m < n /\ n <= t}

\* What such a channel remembers, s, are the last messages it was handed, in order; what it
\* was not handed is on the wire; and what it is handed again it still remembers, since
\* what was written after the repetition is behind it on the wire.
Remembers(c, w, s, mark, o, last) ==
  /\ \A i \in DOMAIN s : o[s[i]] = c /\ s[i] <= mark
  /\ \A i, j \in DOMAIN s : i < j => s[i] < s[j]
  /\ \A m \in Message : (o[m] = c /\ m <= mark /\ m \notin Range(s)) =>
       Len(s) = SeenCap /\ \A i \in DOMAIN s : m < s[i]
  /\ \A m \in Message : (o[m] = c /\ m > mark) => \E i \in DOMAIN w : w[i].of = m
  /\ \A i \in DOMAIN w : w[i].of <= mark =>
       \E t \in mark .. last :
         /\ Cardinality(Between(c, o, w[i].of, t)) < SeenCap
         /\ \A j \in DOMAIN w : j < i => w[j].of <= t

MarkOf(c) == IF c \in Repeating THEN Mark(seen[c]) ELSE 0

Loose(c) == c = "slack" /\ TwinsPass

\* Nothing goes through Slack before the bot asks for its name.
SlackWaits ==
  (phase = "on" /\ link["slack"] = "down") =>
    handling["slack"] = <<>> /\ \A i \in DOMAIN published : origin[published[i]] # "slack"

\* What is sent, is being sent or waits answers the first messages in their order.
Answers(m, p, n) == m # 0 => \E k \in 1 .. n : p[k] = m
InTurn(m, k, p, n) == (m # 0 /\ k # 0) => \E i, j \in 1 .. n : i < j /\ p[i] = m /\ p[j] = k

Replies(d, s, q, p, n) ==
  /\ \A i \in DOMAIN d : Answers(d[i].of, p, n)
  /\ \A i \in DOMAIN s : Answers(s[i].of, p, n)
  /\ \A i \in DOMAIN q : Answers(q[i].of, p, n)
  /\ \A i, j \in DOMAIN d : i < j => InTurn(d[i].of, d[j].of, p, n)
  /\ \A i \in DOMAIN d, j \in DOMAIN s : InTurn(d[i].of, s[j].of, p, n)
  /\ \A i \in DOMAIN d, j \in DOMAIN q : InTurn(d[i].of, q[j].of, p, n)
  /\ \A i \in DOMAIN s, j \in DOMAIN q : InTurn(s[i].of, q[j].of, p, n)
  /\ \A i, j \in DOMAIN q : i < j => InTurn(q[i].of, q[j].of, p, n)

\* The connections, the platforms' word on them and the indicators.
ConnTyped ==
  /\ phase \in {"off", "on", "stopping"}
  /\ enabled \in Configs /\ running \subseteq enabled
  /\ link \in [Channel -> {"down", "up", "dead"}]
  /\ {botKnown, waOpen, connected} \subseteq BOOLEAN
  /\ typed \in BOOLEAN /\ typing \in [Typer -> 0 .. MaxMessages]
  /\ tries \in 0 .. 2

FlowTyped ==
  /\ wire \in [Channel -> Seq(Entry)]
  /\ origin \in [Message -> Channel \cup {"none"}]
  /\ seen \in [Channel -> Seq(Message)]
  /\ \A c \in Channel : Len(seen[c]) <= IF c = "email" THEN UidCap ELSE SeenCap
  /\ handling \in [Channel -> Seq(Message)]
  /\ published \in Seq(Message)

FlowInv ==
  /\ FlowTyped
  /\ {m \in Message : origin[m] # "none"} = 1 .. Written
  /\ \A i \in DOMAIN published : origin[published[i]] # "none"
  /\ handling["whatsapp"] = <<>> /\ handling["qq"] = <<>> /\ Len(handling["discord"]) <= 1
  /\ SlackWaits
  /\ \A c \in Channel : Pipe(c, wire[c], handling[c], published, MarkOf(c), origin, Loose(c))
  /\ \A c \in Repeating : Remembers(c, wire[c], seen[c], Mark(seen[c]), origin, Written)

ReplyInv ==
  /\ turns \in 0 .. Len(published)
  /\ outbox \in Seq(Reply) /\ sending \in Seq(Reply) /\ Len(sending) <= 1
  /\ delivered \in Seq(Reply) /\ ended \subseteq 0 .. MaxMessages
  /\ Replies(delivered, sending, outbox, published, turns)

ChannelsInv == ConnTyped /\ FlowInv /\ ReplyInv

-----------------------------------------------------------------------------
(* Channels: the way of the messages.                                      *)

Home == Channel \cup {"none"}

\* Messages are positive numbers.
LEMMA MessageFacts == Message \subseteq Nat \ {0} /\ MaxMessages \in Nat \ {0}
BY ChannelsAssumption DEF Message

\* An entry carries a message or, with 0, none.
LEMMA EntryFacts ==
  ASSUME NEW e \in Entry
  PROVE  e.of \in Nat /\ e.of \in 0 .. MaxMessages /\ e.kind \in Kind
           /\ (e.of # 0 => e.of \in Message)
BY MessageFacts DEF Entry, Message

\* The first entry leaves the wire and nothing comes of it.
LEMMA PipeTail ==
  ASSUME NEW c, NEW w \in Seq(Entry), w # <<>>, NEW h, NEW p, NEW mark, NEW o, NEW loose,
         Pipe(c, w, h, p, mark, o, loose)
  PROVE  Pipe(c, Tail(w), h, p, mark, o, loose)
<1>. DEFINE v == Tail(w)
<1>1. /\ Len(w) \in Nat \ {0} /\ DOMAIN w = 1 .. Len(w) /\ DOMAIN v = 1 .. Len(w) - 1
      /\ \A i \in DOMAIN v : i + 1 \in DOMAIN w /\ v[i] = w[i + 1]
  BY Shrunk
<1>. HIDE DEF v
<1>2. \A i, j \in DOMAIN v : (i < j /\ Fresh(v[i], mark) /\ Fresh(v[j], mark)) => v[i].of < v[j].of
  <2>. SUFFICES ASSUME NEW i \in DOMAIN v, NEW j \in DOMAIN v, i < j, Fresh(v[i], mark),
                       Fresh(v[j], mark)
                PROVE  v[i].of < v[j].of
    OBVIOUS
  <2>1. i + 1 \in DOMAIN w /\ j + 1 \in DOMAIN w /\ i + 1 < j + 1 /\ v[i] = w[i + 1]
          /\ v[j] = w[j + 1]
    BY <1>1
  <2>. QED
    BY <2>1 DEF Pipe
<1>3. \A i \in DOMAIN v : \E j \in DOMAIN w : v[i] = w[j]
  BY <1>1
<1>4. Pipe(c, v, h, p, mark, o, loose)
  BY <1>2, <1>3 DEF Pipe
<1>. QED
  BY <1>4 DEF v

\* A fresh message at the head of the wire comes before what is behind it.
LEMMA PipeBegins ==
  ASSUME NEW c, NEW w \in Seq(Entry), w # <<>>, NEW h \in Seq(Message), NEW p \in Seq(Message),
         NEW mark \in Nat, NEW o, NEW loose \in BOOLEAN,
         Pipe(c, w, h, p, mark, o, loose), w[1].of # 0, Fresh(w[1], mark) \/ loose
  PROVE  Pipe(c, Tail(w), Append(h, w[1].of), p, mark, o, loose)
<1>. DEFINE v == Tail(w)
            m == w[1].of
            g == Append(h, m)
<1>1. /\ Len(w) \in Nat \ {0} /\ DOMAIN w = 1 .. Len(w) /\ DOMAIN v = 1 .. Len(w) - 1
      /\ \A i \in DOMAIN v : i + 1 \in DOMAIN w /\ v[i] = w[i + 1]
      /\ 1 \in DOMAIN w /\ w[1] \in Entry
  BY Shrunk
<1>2. m \in Message
  BY <1>1, EntryFacts
<1>3. Pipe(c, v, h, p, mark, o, loose)
  BY PipeTail
<1>4. o[m] = c
  BY <1>1 DEF Pipe
<1>. HIDE DEF m, v
<1>5. /\ Len(h) \in Nat /\ DOMAIN h = 1 .. Len(h) /\ DOMAIN g = 1 .. Len(h) + 1
      /\ \A i \in DOMAIN h : g[i] = h[i]
      /\ g[Len(h) + 1] = m
  BY <1>2, Grown
<1>. HIDE DEF g
<1>6. \A i \in DOMAIN g : i \in DOMAIN h \/ i = Len(h) + 1
  BY <1>5
<1>7. \A i \in DOMAIN g : o[g[i]] = c
  BY <1>3, <1>4, <1>5, <1>6 DEF Pipe
<1>8. ASSUME ~loose
      PROVE  /\ \A j \in DOMAIN v : Fresh(v[j], mark) => Apart(c, m, v[j].of)
             /\ \A i \in DOMAIN h : Apart(c, h[i], m)
             /\ \A i \in DOMAIN p : o[p[i]] = c => Apart(c, p[i], m)
  <2>1. Fresh(w[1], mark)
    BY <1>8
  <2>2. ASSUME NEW j \in DOMAIN v, Fresh(v[j], mark) PROVE Apart(c, m, v[j].of)
    <3>1. j + 1 \in DOMAIN w /\ v[j] = w[j + 1] /\ 1 < j + 1
      BY <1>1
    <3>2. w[1].of < w[j + 1].of
      BY <1>1, <2>1, <2>2, <3>1 DEF Pipe
    <3>3. v[j].of \in Nat
      BY <3>1, ElementOfSeq, LenProperties, EntryFacts
    <3>. QED
      BY <1>2, <3>1, <3>2, <3>3, MessageFacts DEF Apart, m
  <2>3. \A i \in DOMAIN h : Apart(c, h[i], m)
    BY <1>1, <1>8, <2>1 DEF Pipe, m
  <2>4. \A i \in DOMAIN p : o[p[i]] = c => Apart(c, p[i], m)
    BY <1>1, <1>8, <2>1 DEF Pipe, m
  <2>. QED
    BY <2>2, <2>3, <2>4
<1>9. ASSUME ~loose
      PROVE  /\ \A i, j \in DOMAIN g : i < j => Apart(c, g[i], g[j])
             /\ \A i \in DOMAIN g, j \in DOMAIN v : Fresh(v[j], mark) => Apart(c, g[i], v[j].of)
             /\ \A i \in DOMAIN p : o[p[i]] = c => \A j \in DOMAIN g : Apart(c, p[i], g[j])
  <2>1. ASSUME NEW i \in DOMAIN g, NEW j \in DOMAIN g, i < j PROVE Apart(c, g[i], g[j])
    <3>1. i \in DOMAIN h
      BY <1>5, <2>1
    <3>2. CASE j \in DOMAIN h
      BY <1>3, <1>5, <1>9, <2>1, <3>1, <3>2 DEF Pipe
    <3>3. CASE j = Len(h) + 1
      BY <1>5, <1>8, <1>9, <3>1, <3>3
    <3>. QED
      BY <1>6, <3>2, <3>3
  <2>2. \A i \in DOMAIN g, j \in DOMAIN v : Fresh(v[j], mark) => Apart(c, g[i], v[j].of)
    BY <1>3, <1>5, <1>6, <1>8, <1>9 DEF Pipe
  <2>3. \A i \in DOMAIN p : o[p[i]] = c => \A j \in DOMAIN g : Apart(c, p[i], g[j])
    BY <1>3, <1>5, <1>6, <1>8, <1>9 DEF Pipe
  <2>. QED
    BY <2>1, <2>2, <2>3
<1>10. Pipe(c, v, g, p, mark, o, loose)
  BY <1>3, <1>7, <1>9 DEF Pipe
<1>. QED
  BY <1>10 DEF g, v, m

\* A handler goes on, and drops or publishes its message: where the order counts, the oldest.
LEMMA PipeResumes ==
  ASSUME NEW c, NEW w, NEW h \in Seq(Message), NEW p \in Seq(Message),
         NEW mark, NEW o, NEW loose \in BOOLEAN,
         Pipe(c, w, h, p, mark, o, loose), NEW k \in DOMAIN h, c \in InOrder => k = 1
  PROVE  /\ Pipe(c, w, RemoveAt(h, k), p, mark, o, loose)
         /\ Pipe(c, w, RemoveAt(h, k), Append(p, h[k]), mark, o, loose)
<1>. DEFINE g == RemoveAt(h, k)
            m == h[k]
            q == Append(p, m)
<1>1. /\ Len(h) \in Nat \ {0} /\ DOMAIN h = 1 .. Len(h) /\ DOMAIN g = 1 .. Len(h) - 1
      /\ \A i \in DOMAIN g : g[i] = IF i < k THEN h[i] ELSE h[i + 1]
      /\ k \in 1 .. Len(h) /\ m \in Message
  BY Removed, LenProperties, ElementOfSeq
<1>. HIDE DEF g, m
<1>2. /\ Len(p) \in Nat /\ DOMAIN p = 1 .. Len(p) /\ DOMAIN q = 1 .. Len(p) + 1
      /\ \A i \in DOMAIN p : q[i] = p[i]
      /\ q[Len(p) + 1] = m
  BY <1>1, Grown
<1>. HIDE DEF q
<1>3. \A i \in DOMAIN g : \E j \in DOMAIN h : j # k /\ g[i] = h[j]
  BY <1>1
<1>4. \A i, j \in DOMAIN g : i < j => \E x, y \in DOMAIN h : x < y /\ g[i] = h[x] /\ g[j] = h[y]
  <2>. SUFFICES ASSUME NEW i \in DOMAIN g, NEW j \in DOMAIN g, i < j
                PROVE  \E x, y \in DOMAIN h : x < y /\ g[i] = h[x] /\ g[j] = h[y]
    OBVIOUS
  <2>1. i \in DOMAIN h /\ i + 1 \in DOMAIN h /\ j \in DOMAIN h /\ j + 1 \in DOMAIN h
    BY <1>1
  <2>2. CASE j < k
    BY <1>1, <2>1, <2>2
  <2>3. CASE i < k /\ ~(j < k)
    BY <1>1, <2>1, <2>3
  <2>4. CASE ~(i < k)
    BY <1>1, <2>1, <2>4
  <2>. QED
    BY <1>1, <2>2, <2>3, <2>4
<1>5. Pipe(c, w, g, p, mark, o, loose)
  <2>1. \A i \in DOMAIN g : o[g[i]] = c
    BY <1>3 DEF Pipe
  <2>2. ASSUME ~loose
        PROVE  /\ \A i, j \in DOMAIN g : i < j => Apart(c, g[i], g[j])
               /\ \A i \in DOMAIN g, j \in DOMAIN w : Fresh(w[j], mark) => Apart(c, g[i], w[j].of)
               /\ \A i \in DOMAIN p : o[p[i]] = c => \A j \in DOMAIN g : Apart(c, p[i], g[j])
    BY <1>3, <1>4, <2>2 DEF Pipe
  <2>. QED
    BY <2>1, <2>2 DEF Pipe
<1>6. o[m] = c
  BY DEF Pipe, m
<1>7. ASSUME ~loose
      PROVE  /\ \A j \in DOMAIN g : Apart(c, m, g[j])
             /\ \A j \in DOMAIN w : Fresh(w[j], mark) => Apart(c, m, w[j].of)
             /\ \A i \in DOMAIN p : o[p[i]] = c => Apart(c, p[i], m)
  <2>1. ASSUME NEW j \in DOMAIN h, j # k PROVE Apart(c, m, h[j])
    <3>1. CASE k < j
      BY <1>7, <3>1 DEF Pipe, m
    <3>2. CASE j < k
      <4>1. c \notin InOrder
        BY <1>1, <3>2
      <4>2. Apart(c, h[j], m)
        BY <1>7, <3>2 DEF Pipe, m
      <4>. QED
        BY <4>1, <4>2 DEF Apart
    <3>. QED
      BY <1>1, <2>1, <3>1, <3>2
  <2>2. \A j \in DOMAIN g : Apart(c, m, g[j])
    BY <1>3, <2>1
  <2>3. \A j \in DOMAIN w : Fresh(w[j], mark) => Apart(c, m, w[j].of)
    BY <1>7 DEF Pipe, m
  <2>4. \A i \in DOMAIN p : o[p[i]] = c => Apart(c, p[i], m)
    BY <1>7 DEF Pipe, m
  <2>. QED
    BY <2>2, <2>3, <2>4
<1>8. ASSUME ~loose, NEW i \in DOMAIN q, o[q[i]] = c
      PROVE  /\ \A j \in DOMAIN g : Apart(c, q[i], g[j])
             /\ \A j \in DOMAIN w : Fresh(w[j], mark) => Apart(c, q[i], w[j].of)
             /\ \A j \in DOMAIN q : (i < j /\ o[q[j]] = c) => Apart(c, q[i], q[j])
  <2>1. CASE i \in DOMAIN p
    <3>1. \A j \in DOMAIN q : (i < j /\ o[q[j]] = c) => Apart(c, q[i], q[j])
      <4>. SUFFICES ASSUME NEW j \in DOMAIN q, i < j, o[q[j]] = c PROVE Apart(c, q[i], q[j])
        OBVIOUS
      <4>1. CASE j \in DOMAIN p
        BY <1>2, <1>5, <1>8, <2>1, <4>1 DEF Pipe
      <4>2. CASE j \notin DOMAIN p
        <5>1. j = Len(p) + 1
          BY <1>2, <4>2
        <5>. QED
          BY <1>2, <1>7, <1>8, <2>1, <5>1
      <4>. QED
        BY <4>1, <4>2
    <3>. QED
      BY <1>2, <1>5, <1>8, <2>1, <3>1 DEF Pipe
  <2>2. CASE i \notin DOMAIN p
    <3>1. i = Len(p) + 1 /\ \A j \in DOMAIN q : ~(i < j)
      BY <1>2, <2>2
    <3>. QED
      BY <1>2, <1>7, <1>8, <3>1
  <2>. QED
    BY <2>1, <2>2
<1>9. Pipe(c, w, g, q, mark, o, loose)
  BY <1>5, <1>8 DEF Pipe
<1>. QED
  BY <1>5, <1>9 DEF g, q, m

\* Without handlers, and without a wire, nothing is said of them.
LEMMA PipeStops ==
  ASSUME NEW c, NEW w, NEW h, NEW p, NEW mark, NEW o, NEW loose, Pipe(c, w, h, p, mark, o, loose)
  PROVE  Pipe(c, w, <<>>, p, mark, o, loose) /\ Pipe(c, <<>>, h, p, mark, o, loose)
<1>1. DOMAIN <<>> = {}
  BY EmptySeq, LenProperties
<1>. QED
  BY <1>1 DEF Pipe

\* A mark that rises makes fewer entries fresh.
LEMMA PipeRises ==
  ASSUME NEW c, NEW w \in Seq(Entry), NEW h, NEW p, NEW mark \in Nat, NEW o, NEW loose,
         NEW rise \in Nat,
         mark <= rise, Pipe(c, w, h, p, mark, o, loose)
  PROVE  Pipe(c, w, h, p, rise, o, loose)
<1>1. \A i \in DOMAIN w : Fresh(w[i], rise) => Fresh(w[i], mark)
  <2>. SUFFICES ASSUME NEW i \in DOMAIN w PROVE w[i].of > rise => w[i].of > mark
    BY DEF Fresh
  <2>1. w[i] \in Entry
    BY ElementOfSeq, LenProperties
  <2>2. w[i].of \in Nat
    BY <2>1, EntryFacts
  <2>. QED
    BY <2>2
<1>. QED
  BY <1>1 DEF Pipe

\* A message is written, here or on another channel.
LEMMA PipeWritten ==
  ASSUME NEW c \in Channel, NEW w \in Seq(Entry), NEW h \in Seq(Message), NEW p \in Seq(Message),
         NEW mark, NEW o \in [Message -> Home], NEW loose, Pipe(c, w, h, p, mark, o, loose),
         \A i \in DOMAIN p : o[p[i]] # "none", NEW m \in Message, o[m] = "none", NEW d \in Channel
  PROVE  Pipe(c, w, h, p, mark, [o EXCEPT ![m] = d], loose)
<1>. DEFINE a == [o EXCEPT ![m] = d]
<1>1. \A n \in Message : n # m => a[n] = o[n]
  OBVIOUS
<1>. HIDE DEF a
<1>2. c # "none"
  BY DEF Channel
<1>3. \A i \in DOMAIN w : w[i].of # 0 => w[i].of \in Message
  BY ElementOfSeq, LenProperties, EntryFacts
<1>4. \A i \in DOMAIN w : w[i].of # 0 => a[w[i].of] = c
  BY <1>1, <1>2, <1>3 DEF Pipe
<1>5. (\A i \in DOMAIN h : h[i] \in Message) /\ (\A i \in DOMAIN p : p[i] \in Message)
  BY ElementOfSeq, LenProperties
<1>6. \A i \in DOMAIN h : a[h[i]] = c
  BY <1>1, <1>2, <1>5 DEF Pipe
<1>7. \A i \in DOMAIN p : a[p[i]] = o[p[i]]
  BY <1>1, <1>5
<1>8. Pipe(c, w, h, p, mark, a, loose)
  BY <1>4, <1>6, <1>7 DEF Pipe
<1>. QED
  BY <1>8 DEF a

\* The platform has an entry for the channel.  If its message is new, it comes after all.
LEMMA PipeReceives ==
  ASSUME NEW c, NEW w \in Seq(Entry), NEW h \in Seq(Message), NEW p \in Seq(Message),
         NEW mark \in Nat, NEW o, NEW loose, Pipe(c, w, h, p, mark, o, loose),
         NEW e \in Entry, WellFormed(c, e), e.of # 0 => o[e.of] = c,
         Fresh(e, mark) => /\ \A i \in DOMAIN w : Fresh(w[i], mark) => w[i].of < e.of
                           /\ \A i \in DOMAIN h : h[i] < e.of
                           /\ \A i \in DOMAIN p : o[p[i]] = c => p[i] < e.of
  PROVE  Pipe(c, Append(w, e), h, p, mark, o, loose)
<1>. DEFINE v == Append(w, e)
<1>1. /\ Len(w) \in Nat /\ DOMAIN w = 1 .. Len(w) /\ DOMAIN v = 1 .. Len(w) + 1
      /\ \A i \in DOMAIN w : v[i] = w[i]
      /\ v[Len(w) + 1] = e
  BY Grown
<1>. HIDE DEF v
<1>2. \A i \in DOMAIN v : i \in DOMAIN w \/ i = Len(w) + 1
  BY <1>1
<1>3. \A i \in DOMAIN v : WellFormed(c, v[i]) /\ (v[i].of # 0 => o[v[i].of] = c)
  BY <1>1, <1>2 DEF Pipe
<1>4. ASSUME NEW i \in DOMAIN v, NEW j \in DOMAIN v, i < j, Fresh(v[i], mark), Fresh(v[j], mark)
      PROVE  v[i].of < v[j].of
  <2>1. i \in DOMAIN w
    BY <1>1, <1>4
  <2>2. CASE j \in DOMAIN w
    BY <1>1, <1>4, <2>1, <2>2 DEF Pipe
  <2>3. CASE j = Len(w) + 1
    BY <1>1, <1>4, <2>1, <2>3
  <2>. QED
    BY <1>2, <2>2, <2>3
<1>5. e.of \in Nat
  BY EntryFacts
<1>6. (\A i \in DOMAIN h : h[i] \in Nat) /\ (\A i \in DOMAIN p : p[i] \in Nat)
  <2>1. (\A i \in DOMAIN h : h[i] \in Message) /\ (\A i \in DOMAIN p : p[i] \in Message)
    BY ElementOfSeq, LenProperties
  <2>. QED
    BY <2>1, MessageFacts
<1>7. ASSUME Fresh(e, mark)
      PROVE  /\ \A i \in DOMAIN h : Apart(c, h[i], e.of)
             /\ \A i \in DOMAIN p : o[p[i]] = c => Apart(c, p[i], e.of)
  <2>1. ASSUME NEW n \in Nat, n < e.of PROVE Apart(c, n, e.of)
    BY <1>5, <2>1 DEF Apart
  <2>. QED
    BY <1>6, <1>7, <2>1
<1>8. ASSUME ~loose
      PROVE  /\ \A i \in DOMAIN h, j \in DOMAIN v : Fresh(v[j], mark) => Apart(c, h[i], v[j].of)
             /\ \A i \in DOMAIN p : o[p[i]] = c => \A j \in DOMAIN v : Fresh(v[j], mark) =>
                  Apart(c, p[i], v[j].of)
  BY <1>1, <1>2, <1>7, <1>8 DEF Pipe
<1>9. Pipe(c, v, h, p, mark, o, loose)
  BY <1>3, <1>4, <1>8 DEF Pipe
<1>. QED
  BY <1>9 DEF v

\* Another channel's message is published.
LEMMA PipeOther ==
  ASSUME NEW c, NEW w, NEW h, NEW p \in Seq(Message), NEW mark, NEW o, NEW loose,
         Pipe(c, w, h, p, mark, o, loose), NEW m \in Message, o[m] # c
  PROVE  Pipe(c, w, h, Append(p, m), mark, o, loose)
<1>. DEFINE q == Append(p, m)
<1>1. /\ Len(p) \in Nat /\ DOMAIN p = 1 .. Len(p) /\ DOMAIN q = 1 .. Len(p) + 1
      /\ \A i \in DOMAIN p : q[i] = p[i]
      /\ q[Len(p) + 1] = m
  BY Grown
<1>. HIDE DEF q
<1>2. \A i \in DOMAIN q : o[q[i]] = c => i \in DOMAIN p /\ q[i] = p[i]
  <2>. SUFFICES ASSUME NEW i \in DOMAIN q, o[q[i]] = c PROVE i \in DOMAIN p
    BY <1>1
  <2>1. i # Len(p) + 1
    BY <1>1
  <2>. QED
    BY <1>1, <2>1
<1>3. Pipe(c, w, h, q, mark, o, loose)
  BY <1>2 DEF Pipe
<1>. QED
  BY <1>3 DEF q

\* A channel whose handler awaits nothing puts the message on the queue at once.
LEMMA PipePublishes ==
  ASSUME NEW c, NEW w \in Seq(Entry), w # <<>>, NEW p \in Seq(Message),
         NEW mark \in Nat, NEW o, NEW loose \in BOOLEAN,
         Pipe(c, w, <<>>, p, mark, o, loose), w[1].of # 0, Fresh(w[1], mark)
  PROVE  Pipe(c, Tail(w), <<>>, Append(p, w[1].of), mark, o, loose)
<1>. DEFINE m == w[1].of
            h == Append(<<>>, m)
<1>1. w[1] \in Entry
  BY Shrunk
<1>2. m \in Message /\ <<>> \in Seq(Message)
  BY <1>1, EntryFacts, EmptySeq
<1>3. Pipe(c, Tail(w), h, p, mark, o, loose)
  BY <1>2, PipeBegins
<1>. HIDE DEF m
<1>4. h \in Seq(Message) /\ 1 \in DOMAIN h /\ h[1] = m /\ Len(h) = 1
  BY <1>2
<1>. HIDE DEF h
<1>5. RemoveAt(h, 1) = <<>>
  <2>1. RemoveAt(h, 1) \in Seq(Message) /\ Len(RemoveAt(h, 1)) = Len(h) - 1
    BY <1>4, Removed, Zenon
  <2>2. Len(RemoveAt(h, 1)) = 0
    BY <1>4, <2>1
  <2>. QED
    BY <2>1, <2>2, EmptySeq
<1>6. Pipe(c, Tail(w), RemoveAt(h, 1), Append(p, h[1]), mark, o, loose)
  BY <1>3, <1>4, PipeResumes
<1>. QED
  BY <1>4, <1>5, <1>6 DEF m

-----------------------------------------------------------------------------
(* Channels: the mailbox.                                                  *)

\* The entries of v are entries of the wire w, in the order of w.
Within(v, w) ==
  /\ \A i \in DOMAIN v : \E x \in DOMAIN w : v[i] = w[x]
  /\ \A i, j \in DOMAIN v : i < j => \E x, y \in DOMAIN w : x < y /\ v[i] = w[x] /\ v[j] = w[y]

\* Nothing new is on a wire that holds some entries of the old one in their order.
LEMMA PipeWithin ==
  ASSUME NEW c, NEW w, NEW v, NEW h, NEW p, NEW mark, NEW o, NEW loose,
         Pipe(c, w, h, p, mark, o, loose), Within(v, w)
  PROVE  Pipe(c, v, h, p, mark, o, loose)
<1>1. \A i \in DOMAIN v : WellFormed(c, v[i]) /\ (v[i].of # 0 => o[v[i].of] = c)
  BY DEF Pipe, Within
<1>2. \A i, j \in DOMAIN v : (i < j /\ Fresh(v[i], mark) /\ Fresh(v[j], mark)) => v[i].of < v[j].of
  <2>. SUFFICES ASSUME NEW i \in DOMAIN v, NEW j \in DOMAIN v, i < j, Fresh(v[i], mark),
                       Fresh(v[j], mark)
                PROVE  v[i].of < v[j].of
    OBVIOUS
  <2>1. PICK x \in DOMAIN w, y \in DOMAIN w : x < y /\ v[i] = w[x] /\ v[j] = w[y]
    BY DEF Within
  <2>. QED
    BY <2>1 DEF Pipe
<1>. QED
  BY <1>1, <1>2 DEF Pipe, Within

\* After k of the emails of the mail, these are left and those are new.
Parted(left, new, mail, k) ==
  /\ \A i \in DOMAIN left : \E x \in 1 .. k : left[i] = mail[x]
  /\ \A i \in DOMAIN new : \E x \in 1 .. k : new[i] = mail[x].of
  /\ \A i, j \in DOMAIN left : i < j => \E x, y \in 1 .. k : x < y /\ left[i] = mail[x]
       /\ left[j] = mail[y]
  /\ \A i, j \in DOMAIN new : i < j => \E x, y \in 1 .. k : x < y /\ new[i] = mail[x].of
       /\ new[j] = mail[y].of
  /\ \A i \in DOMAIN new, j \in DOMAIN left :
       \E x, y \in 1 .. k : x # y /\ new[i] = mail[x].of /\ left[j] = mail[y]

\* One more email, left in the mailbox.
LEMMA PartsLeft ==
  ASSUME NEW left \in Seq(Entry), NEW new, NEW mail, NEW k \in Nat, mail[k + 1] \in Entry,
         Parted(left, new, mail, k)
  PROVE  Parted(Append(left, mail[k + 1]), new, mail, k + 1)
<1>. DEFINE e == mail[k + 1]
            v == Append(left, e)
<1>1. /\ Len(left) \in Nat /\ DOMAIN left = 1 .. Len(left) /\ DOMAIN v = 1 .. Len(left) + 1
      /\ \A i \in DOMAIN left : v[i] = left[i]
      /\ v[Len(left) + 1] = e
  BY Grown
<1>. HIDE DEF v
<1>2. \A i \in DOMAIN v : i \in DOMAIN left \/ i = Len(left) + 1
  BY <1>1
<1>3. k + 1 \in 1 .. k + 1 /\ \A x \in 1 .. k : x \in 1 .. k + 1 /\ x < k + 1 /\ x # k + 1
  OBVIOUS
<1>4. \A i \in DOMAIN v : \E x \in 1 .. k + 1 : v[i] = mail[x]
  BY <1>1, <1>2, <1>3 DEF Parted
<1>5. \A i \in DOMAIN new : \E x \in 1 .. k + 1 : new[i] = mail[x].of
  BY <1>3 DEF Parted
<1>6. ASSUME NEW i \in DOMAIN v, NEW j \in DOMAIN v, i < j
      PROVE  \E x, y \in 1 .. k + 1 : x < y /\ v[i] = mail[x] /\ v[j] = mail[y]
  <2>1. i \in DOMAIN left /\ v[i] = left[i]
    BY <1>1, <1>6
  <2>2. CASE j \in DOMAIN left
    <3>1. PICK x \in 1 .. k, y \in 1 .. k : x < y /\ left[i] = mail[x] /\ left[j] = mail[y]
      BY <1>6, <2>1, <2>2 DEF Parted
    <3>. QED
      BY <1>1, <1>3, <2>1, <2>2, <3>1
  <2>3. CASE j = Len(left) + 1
    <3>1. PICK x \in 1 .. k : left[i] = mail[x]
      BY <2>1 DEF Parted
    <3>. QED
      BY <1>1, <1>3, <2>1, <2>3, <3>1
  <2>. QED
    BY <1>2, <2>2, <2>3
<1>7. \A i, j \in DOMAIN new : i < j => \E x, y \in 1 .. k + 1 : x < y /\ new[i] = mail[x].of
        /\ new[j] = mail[y].of
  BY <1>3 DEF Parted
<1>8. ASSUME NEW i \in DOMAIN new, NEW j \in DOMAIN v
      PROVE  \E x, y \in 1 .. k + 1 : x # y /\ new[i] = mail[x].of /\ v[j] = mail[y]
  <2>1. CASE j \in DOMAIN left
    <3>1. PICK x \in 1 .. k, y \in 1 .. k : x # y /\ new[i] = mail[x].of /\ left[j] = mail[y]
      BY <1>8, <2>1 DEF Parted
    <3>. QED
      BY <1>1, <1>3, <2>1, <3>1
  <2>2. CASE j = Len(left) + 1
    <3>1. PICK x \in 1 .. k : new[i] = mail[x].of
      BY <1>8 DEF Parted
    <3>. QED
      BY <1>1, <1>3, <2>2, <3>1
  <2>. QED
    BY <1>2, <2>1, <2>2
<1>9. Parted(v, new, mail, k + 1)
  BY <1>4, <1>5, <1>6, <1>7, <1>8 DEF Parted
<1>. QED
  BY <1>9 DEF v, e

\* One more email, taken.
LEMMA PartsNew ==
  ASSUME NEW left, NEW new \in Seq(Message), NEW mail, NEW k \in Nat, mail[k + 1].of \in Message,
         Parted(left, new, mail, k)
  PROVE  Parted(left, Append(new, mail[k + 1].of), mail, k + 1)
<1>. DEFINE m == mail[k + 1].of
            v == Append(new, m)
<1>1. /\ Len(new) \in Nat /\ DOMAIN new = 1 .. Len(new) /\ DOMAIN v = 1 .. Len(new) + 1
      /\ \A i \in DOMAIN new : v[i] = new[i]
      /\ v[Len(new) + 1] = m
  BY Grown
<1>. HIDE DEF v
<1>2. \A i \in DOMAIN v : i \in DOMAIN new \/ i = Len(new) + 1
  BY <1>1
<1>3. k + 1 \in 1 .. k + 1 /\ \A x \in 1 .. k : x \in 1 .. k + 1 /\ x < k + 1 /\ x # k + 1
  OBVIOUS
<1>4. \A i \in DOMAIN v : \E x \in 1 .. k + 1 : v[i] = mail[x].of
  BY <1>1, <1>2, <1>3 DEF Parted
<1>5. \A i \in DOMAIN left : \E x \in 1 .. k + 1 : left[i] = mail[x]
  BY <1>3 DEF Parted
<1>6. ASSUME NEW i \in DOMAIN v, NEW j \in DOMAIN v, i < j
      PROVE  \E x, y \in 1 .. k + 1 : x < y /\ v[i] = mail[x].of /\ v[j] = mail[y].of
  <2>1. i \in DOMAIN new /\ v[i] = new[i]
    BY <1>1, <1>6
  <2>2. CASE j \in DOMAIN new
    <3>1. PICK x \in 1 .. k, y \in 1 .. k : x < y /\ new[i] = mail[x].of /\ new[j] = mail[y].of
      BY <1>6, <2>1, <2>2 DEF Parted
    <3>. QED
      BY <1>1, <1>3, <2>1, <2>2, <3>1
  <2>3. CASE j = Len(new) + 1
    <3>1. PICK x \in 1 .. k : new[i] = mail[x].of
      BY <2>1 DEF Parted
    <3>. QED
      BY <1>1, <1>3, <2>1, <2>3, <3>1
  <2>. QED
    BY <1>2, <2>2, <2>3
<1>7. \A i, j \in DOMAIN left : i < j => \E x, y \in 1 .. k + 1 : x < y /\ left[i] = mail[x]
        /\ left[j] = mail[y]
  BY <1>3 DEF Parted
<1>8. ASSUME NEW i \in DOMAIN v, NEW j \in DOMAIN left
      PROVE  \E x, y \in 1 .. k + 1 : x # y /\ v[i] = mail[x].of /\ left[j] = mail[y]
  <2>1. CASE i \in DOMAIN new
    <3>1. PICK x \in 1 .. k, y \in 1 .. k : x # y /\ new[i] = mail[x].of /\ left[j] = mail[y]
      BY <1>8, <2>1 DEF Parted
    <3>. QED
      BY <1>1, <1>3, <2>1, <3>1
  <2>2. CASE i = Len(new) + 1
    <3>1. PICK x \in 1 .. k : left[j] = mail[x]
      BY <1>8 DEF Parted
    <3>. QED
      BY <1>1, <1>3, <2>2, <3>1
  <2>. QED
    BY <1>2, <2>1, <2>2
<1>9. Parted(left, v, mail, k + 1)
  BY <1>4, <1>5, <1>6, <1>7, <1>8 DEF Parted
<1>. QED
  BY <1>9 DEF v, m

Uids == {s \in Seq(Message) : Len(s) <= UidCap}
Mailbox == [uids : Uids, new : Seq(Message), left : Seq(Entry)]

\* One round of _fetch_messages.
Looks(mail, r, k) ==
  IF mail[k].of \in Range(r.uids) THEN [r EXCEPT !.left = Append(@, mail[k])]
  ELSE [r EXCEPT !.uids = NoteUid(@, mail[k].of), !.new = Append(@, mail[k].of)]

\* One more email, whatever is done with it.
LEMMA LooksSound ==
  ASSUME NEW mail, NEW r \in Mailbox, NEW k \in Nat, mail[k + 1] \in Entry, mail[k + 1].of # 0
  PROVE  /\ Looks(mail, r, k + 1) \in Mailbox
         /\ Parted(r.left, r.new, mail, k) =>
              Parted(Looks(mail, r, k + 1).left, Looks(mail, r, k + 1).new, mail, k + 1)
<1>. DEFINE e == mail[k + 1]
<1>1. /\ r.uids \in Seq(Message) /\ Len(r.uids) <= UidCap /\ r.new \in Seq(Message)
      /\ r.left \in Seq(Entry)
      /\ r = [uids |-> r.uids, new |-> r.new, left |-> r.left] /\ r.uids \in Uids
  BY DEF Mailbox, Uids
<1>2. e \in Entry /\ e.of \in Message
  BY EntryFacts
<1>3. Append(r.left, e) \in Seq(Entry) /\ Append(r.new, e.of) \in Seq(Message)
  BY <1>1, <1>2, Grown
<1>4. NoteUid(r.uids, e.of) \in Uids
  <2>1. UidCap \in Nat \ {0}
    BY ChannelsAssumption
  <2>2. CASE Len(r.uids) = UidCap
    <3>1. <<>> \in Seq(Message) /\ Len(<<>>) = 0
      BY EmptySeq
    <3>. QED
      BY <2>1, <2>2, <3>1 DEF NoteUid, Uids
  <2>3. CASE Len(r.uids) # UidCap
    <3>1. Append(r.uids, e.of) \in Seq(Message) /\ Len(Append(r.uids, e.of)) = Len(r.uids) + 1
            /\ Len(r.uids) \in Nat
      BY <1>1, <1>2, Grown
    <3>2. Len(Append(r.uids, e.of)) <= UidCap
      BY <1>1, <2>1, <2>3, <3>1
    <3>. QED
      BY <2>3, <3>1, <3>2 DEF NoteUid, Uids
  <2>. QED
    BY <2>2, <2>3
<1>. HIDE DEF e
<1>5. CASE e.of \in Range(r.uids)
  <2>1. Looks(mail, r, k + 1) = [uids |-> r.uids, new |-> r.new, left |-> Append(r.left, e)]
    BY <1>1, <1>5 DEF Looks, e, Mailbox
  <2>2. Looks(mail, r, k + 1) \in Mailbox
    BY <1>1, <1>3, <2>1 DEF Mailbox
  <2>3. Parted(r.left, r.new, mail, k) => Parted(Append(r.left, e), r.new, mail, k + 1)
    BY <1>1, <1>2, PartsLeft DEF e
  <2>4. Looks(mail, r, k + 1).left = Append(r.left, e) /\ Looks(mail, r, k + 1).new = r.new
    BY <2>1
  <2>. QED
    BY <2>2, <2>3, <2>4, Zenon
<1>6. CASE e.of \notin Range(r.uids)
  <2>1. Looks(mail, r, k + 1) = [uids |-> NoteUid(r.uids, e.of), new |-> Append(r.new, e.of), left |-> r.left]
    BY <1>1, <1>6 DEF Looks, e, Mailbox
  <2>2. Looks(mail, r, k + 1) \in Mailbox
    BY <1>1, <1>3, <1>4, <2>1 DEF Mailbox
  <2>3. Parted(r.left, r.new, mail, k) => Parted(r.left, Append(r.new, e.of), mail, k + 1)
    BY <1>1, <1>2, PartsNew DEF e
  <2>4. Looks(mail, r, k + 1).left = r.left /\ Looks(mail, r, k + 1).new = Append(r.new, e.of)
    BY <2>1
  <2>. QED
    BY <2>2, <2>3, <2>4, Zenon
<1>. QED
  BY <1>5, <1>6

\* A poll parts the mailbox into what it takes and what it leaves.
LEMMA FetchedSound ==
  ASSUME NEW uids \in Uids, NEW mail \in Seq(Entry), \A i \in DOMAIN mail : mail[i].of # 0
  PROVE  \A k \in 0 .. Len(mail) :
           /\ Fetched(uids, mail)[k] \in Mailbox
           /\ Parted(Fetched(uids, mail)[k].left, Fetched(uids, mail)[k].new, mail, k)
<1>. DEFINE N == Len(mail)
            x == [uids |-> uids, new |-> <<>>, left |-> <<>>]
            F == [q \in Nat \X Mailbox |-> IF q[1] \in 1 .. N THEN Looks(mail, q[2], q[1]) ELSE q[2]]
            Goes(f, k) == IF k = 0 THEN x ELSE Looks(mail, f[k - 1], k)
<1>1. N \in Nat /\ \A k \in 1 .. N : k \in Nat /\ mail[k] \in Entry /\ mail[k].of # 0
  BY LenProperties, ElementOfSeq
<1>2. x \in Mailbox /\ Parted(<<>>, <<>>, mail, 0)
  <2>1. <<>> \in Seq(Message) /\ <<>> \in Seq(Entry) /\ DOMAIN <<>> = {}
    BY EmptySeq
  <2>. QED
    BY <2>1 DEF Mailbox, Parted
<1>3. ASSUME NEW r \in Mailbox, NEW k \in 1 .. N PROVE Looks(mail, r, k) \in Mailbox
  <2>1. k - 1 \in Nat /\ (k - 1) + 1 = k
    BY <1>1
  <2>. DEFINE j == k - 1
  <2>. HIDE DEF j, N
  <2>2. j \in Nat /\ j + 1 = k
    BY <2>1 DEF j
  <2>3. mail[j + 1] \in Entry /\ mail[j + 1].of # 0
    BY <1>1, <2>2
  <2>4. Looks(mail, r, j + 1) \in Mailbox
    BY <2>2, <2>3, LooksSound
  <2>. QED
    BY <2>2, <2>4
<1>4. F \in [Nat \X Mailbox -> Mailbox]
  BY <1>3
<1>5. PICK g : Iteration(g, N, Mailbox, x, F)
  <2>. HIDE DEF F, x, N
  <2>. QED
    BY <1>1, <1>2, <1>4, Iterates
<1>6. \A k \in 0 .. N : g[k] = Goes(g, k)
  <2>. SUFFICES ASSUME NEW k \in 0 .. N PROVE g[k] = Goes(g, k)
    OBVIOUS
  <2>1. CASE k = 0
    BY <1>5, <2>1 DEF Iteration
  <2>2. CASE k # 0
    <3>1. <<k, g[k - 1]>> \in Nat \X Mailbox /\ k \in 1 .. N
      <4>1. k \in Nat /\ k - 1 \in 0 .. N /\ k \in 1 .. N
        BY <1>1, <2>2
      <4>. HIDE DEF N
      <4>. QED
        BY <1>5, <4>1 DEF Iteration
    <3>2. F[<<k, g[k - 1]>>] = Looks(mail, g[k - 1], k)
      BY <3>1
    <3>. HIDE DEF F, x, N
    <3>. QED
      BY <1>5, <2>2, <3>2 DEF Iteration
  <2>. QED
    BY <2>1, <2>2
<1>7. g = [k \in 0 .. N |-> Goes(g, k)]
  <2>1. g = [k \in 0 .. N |-> g[k]]
    BY <1>5 DEF Iteration
  <2>. HIDE DEF Goes, N
  <2>. QED
    BY <1>6, <2>1, Zenon
<1>. DEFINE after == CHOOSE f : f = [k \in 0 .. N |-> Goes(f, k)]
<1>8. Fetched(uids, mail) = after
  BY Zenon DEF Fetched, Looks
<1>9. after = [k \in 0 .. N |-> Goes(after, k)]
  <2>. HIDE DEF Goes, N
  <2>. QED
    BY <1>7, Zenon
<1>. HIDE DEF after
<1>10. \A k \in 0 .. N : after[k] = Goes(after, k)
  <2>. HIDE DEF Goes, N
  <2>. QED
    BY <1>9, Zenon
<1>. DEFINE Good(k) == after[k] \in Mailbox /\ Parted(after[k].left, after[k].new, mail, k)
            S == {k \in Nat : k <= N => Good(k)}
<1>11. 0 \in S
  <2>1. after[0] = x
    <3>. HIDE DEF N, x
    <3>. QED
      BY <1>1, <1>10
  <2>2. x.left = <<>> /\ x.new = <<>>
    OBVIOUS
  <2>. HIDE DEF N, x
  <2>. QED
    BY <1>1, <1>2, <2>1, <2>2
<1>12. ASSUME NEW n \in S PROVE n + 1 \in S
  <2>. SUFFICES ASSUME n + 1 <= N PROVE Good(n + 1)
    OBVIOUS
  <2>. HIDE DEF N, x
  <2>1. n \in Nat /\ Good(n) /\ n + 1 \in 1 .. N /\ n + 1 # 0 /\ (n + 1) - 1 = n /\ n + 1 \in 0 .. N
    BY <1>1
  <2>2. after[n + 1] = Looks(mail, after[n], n + 1)
    BY <1>10, <2>1
  <2>3. mail[n + 1] \in Entry /\ mail[n + 1].of # 0
    BY <1>1, <2>1
  <2>. QED
    BY <2>1, <2>2, <2>3, LooksSound
<1>13. S = Nat
  <2>. HIDE DEF Good, N
  <2>1. S \in SUBSET Nat
    OBVIOUS
  <2>. HIDE DEF S
  <2>. QED
    BY <1>11, <1>12, <2>1, NatInd
<1>14. \A k \in 0 .. N : Good(k)
  <2>. HIDE DEF Good
  <2>. QED
    BY <1>1, <1>13
<1>. QED
  BY <1>8, <1>14

\* What the thread has taken and what is left are still in order and apart.
LEMMA PipeFetches ==
  ASSUME NEW mail \in Seq(Entry), NEW p \in Seq(Message), NEW o, NEW loose \in BOOLEAN,
         Pipe("email", mail, <<>>, p, 0, o, loose), NEW k \in 0 .. Len(mail),
         NEW left \in Seq(Entry), NEW new \in Seq(Message), Parted(left, new, mail, k)
  PROVE  /\ Pipe("email", left, new, p, 0, o, loose)
         /\ Pipe("email", left \o SubSeq(mail, k + 1, Len(mail)), <<>>, p, 0, o, loose)
<1>1. Len(mail) \in Nat /\ DOMAIN mail = 1 .. Len(mail) /\ \A x \in DOMAIN mail : mail[x] \in Entry
  BY LenProperties, ElementOfSeq
<1>2. \A x \in 1 .. k : x \in DOMAIN mail
  BY <1>1
<1>3. ASSUME NEW x \in DOMAIN mail PROVE Fresh(mail[x], 0) /\ mail[x].of # 0 /\ mail[x].of \in Nat
  <2>1. mail[x].kind \in KindsOf("email")
          /\ (mail[x].of = 0 <=> mail[x].kind \in {"connected", "disconnected"})
    BY DEF Pipe, WellFormed
  <2>2. mail[x].kind = "message"
    BY <2>1 DEF KindsOf
  <2>3. mail[x].of # 0
    BY <2>1, <2>2
  <2>4. mail[x].of \in Nat
    BY <1>1, EntryFacts
  <2>. QED
    BY <2>2, <2>3, <2>4 DEF Fresh
<1>4. \A x, y \in DOMAIN mail : x < y => mail[x].of < mail[y].of
  BY <1>3 DEF Pipe
<1>5. \A x, y \in DOMAIN mail : x # y => mail[x].of # mail[y].of
  <2>1. \A x, y \in DOMAIN mail : x # y => x < y \/ y < x
    BY <1>1
  <2>. QED
    BY <1>3, <1>4, <2>1
<1>6. "email" \notin InOrder
  BY DEF InOrder
<1>7. Pipe("email", left, new, p, 0, o, loose)
  <2>1. Within(left, mail)
    BY <1>2 DEF Parted, Within
  <2>2. Pipe("email", left, <<>>, p, 0, o, loose)
    BY <2>1, PipeWithin
  <2>3. \A i \in DOMAIN new : \E x \in DOMAIN mail : new[i] = mail[x].of
    BY <1>2 DEF Parted
  <2>4. \A i \in DOMAIN new : o[new[i]] = "email"
    BY <1>3, <2>3 DEF Pipe
  <2>5. ASSUME ~loose
        PROVE  /\ \A i, j \in DOMAIN new : i < j => Apart("email", new[i], new[j])
               /\ \A i \in DOMAIN new, j \in DOMAIN left : Apart("email", new[i], left[j].of)
               /\ \A i \in DOMAIN p : o[p[i]] = "email" =>
                    \A j \in DOMAIN new : Apart("email", p[i], new[j])
    <3>1. ASSUME NEW i \in DOMAIN new, NEW j \in DOMAIN new, i < j
          PROVE  Apart("email", new[i], new[j])
      <4>1. PICK x \in 1 .. k, y \in 1 .. k : x < y /\ new[i] = mail[x].of /\ new[j] = mail[y].of
        BY <3>1 DEF Parted
      <4>2. x # y
        BY <4>1
      <4>. QED
        BY <1>2, <1>5, <1>6, <4>1, <4>2 DEF Apart
    <3>2. ASSUME NEW i \in DOMAIN new, NEW j \in DOMAIN left
          PROVE  Apart("email", new[i], left[j].of)
      <4>1. PICK x \in 1 .. k, y \in 1 .. k : x # y /\ new[i] = mail[x].of /\ left[j] = mail[y]
        BY <3>2 DEF Parted
      <4>. QED
        BY <1>2, <1>5, <1>6, <4>1 DEF Apart
    <3>3. \A i \in DOMAIN p : o[p[i]] = "email" =>
            \A j \in DOMAIN new : Apart("email", p[i], new[j])
      BY <1>3, <2>3, <2>5 DEF Pipe
    <3>. QED
      BY <3>1, <3>2, <3>3
  <2>. QED
    BY <2>2, <2>4, <2>5 DEF Pipe
<1>8. Pipe("email", left \o SubSeq(mail, k + 1, Len(mail)), <<>>, p, 0, o, loose)
  <2>. DEFINE rest == SubSeq(mail, k + 1, Len(mail))
              v == left \o rest
  <2>1. /\ rest \in Seq(Entry) /\ DOMAIN rest = 1 .. Len(mail) - k
        /\ \A i \in DOMAIN rest : rest[i] = mail[k + i]
    BY <1>1, Rest
  <2>. HIDE DEF rest
  <2>2. /\ Len(left) \in Nat /\ DOMAIN left = 1 .. Len(left) /\ DOMAIN v \subseteq Nat
        /\ \A i \in DOMAIN left : v[i] = left[i]
        /\ \A i \in DOMAIN v : i \notin DOMAIN left =>
             i > Len(left) /\ i - Len(left) \in DOMAIN rest /\ v[i] = rest[i - Len(left)]
    BY <2>1, Joined
  <2>. HIDE DEF v
  <2>3. \A i \in DOMAIN v : i \notin DOMAIN left =>
          /\ k + (i - Len(left)) \in DOMAIN mail /\ k + (i - Len(left)) > k
          /\ v[i] = mail[k + (i - Len(left))]
    BY <1>1, <2>1, <2>2
  <2>4. \A i \in DOMAIN left : \E x \in DOMAIN mail : x <= k /\ v[i] = mail[x]
    <3>. SUFFICES ASSUME NEW i \in DOMAIN left PROVE \E x \in DOMAIN mail : x <= k /\ v[i] = mail[x]
      OBVIOUS
    <3>1. PICK x \in 1 .. k : left[i] = mail[x]
      BY DEF Parted
    <3>. QED
      BY <1>2, <2>2, <3>1
  <2>5. ASSUME NEW i \in DOMAIN v, NEW j \in DOMAIN v, i < j
        PROVE  \E x, y \in DOMAIN mail : x < y /\ v[i] = mail[x] /\ v[j] = mail[y]
    <3>1. CASE i \in DOMAIN left /\ j \in DOMAIN left
      <4>1. PICK x \in 1 .. k, y \in 1 .. k : x < y /\ left[i] = mail[x] /\ left[j] = mail[y]
        BY <2>5, <3>1 DEF Parted
      <4>. QED
        BY <1>2, <2>2, <3>1, <4>1
    <3>2. CASE i \in DOMAIN left /\ j \notin DOMAIN left
      <4>1. PICK x \in DOMAIN mail : x <= k /\ v[i] = mail[x]
        BY <2>4, <3>2
      <4>2. x < k + (j - Len(left))
        BY <1>1, <2>2, <2>3, <3>2, <4>1
      <4>. QED
        BY <2>3, <3>2, <4>1, <4>2
    <3>3. CASE i \notin DOMAIN left
      <4>1. j \notin DOMAIN left
        BY <2>2, <2>5, <3>3
      <4>2. k + (i - Len(left)) < k + (j - Len(left))
        BY <2>2, <2>5
      <4>. QED
        BY <2>3, <3>3, <4>1, <4>2
    <3>. QED
      BY <3>1, <3>2, <3>3
  <2>6. \A i \in DOMAIN v : \E x \in DOMAIN mail : v[i] = mail[x]
    BY <2>3, <2>4
  <2>7. Within(v, mail)
    BY <2>5, <2>6 DEF Within
  <2>8. Pipe("email", v, <<>>, p, 0, o, loose)
    BY <2>7, PipeWithin
  <2>. QED
    BY <2>8 DEF v, rest
<1>. QED
  BY <1>7, <1>8

-----------------------------------------------------------------------------
(* Channels: what Feishu and QQ remember.                                  *)

\* The memory after message m.
Remembered(s, m) == IF Len(Append(s, m)) > SeenCap THEN Tail(Append(s, m)) ELSE Append(s, m)

\* The mark is 0 or remembered.
LEMMA MarkIn ==
  ASSUME NEW s \in Seq(Message)
  PROVE  Mark(s) \in 0 .. MaxMessages /\ (Mark(s) # 0 => Mark(s) \in Range(s))
<1>1. Len(s) \in Nat /\ DOMAIN s = 1 .. Len(s) /\ \A i \in DOMAIN s : s[i] \in Message
  BY LenProperties, ElementOfSeq
<1>2. CASE s = <<>>
  BY <1>2, MessageFacts DEF Mark
<1>3. CASE s # <<>>
  <2>1. Len(s) \in DOMAIN s
    BY <1>1, <1>3, EmptySeq
  <2>2. Mark(s) = s[Len(s)]
    BY <1>3 DEF Mark
  <2>3. Mark(s) \in Message
    BY <1>1, <2>1, <2>2
  <2>. QED
    BY <2>1, <2>2, <2>3 DEF Range, Message
<1>. QED
  BY <1>2, <1>3

\* What is remembered is the new message and, but for the oldest, the old ones in order.
LEMMA RememberedFacts ==
  ASSUME NEW s \in Seq(Message), NEW m \in Message, Len(s) <= SeenCap
  PROVE  /\ Remembered(s, m) \in Seq(Message) /\ Len(Remembered(s, m)) <= SeenCap
         /\ Mark(Remembered(s, m)) = m
         /\ \A i \in DOMAIN Remembered(s, m) :
              \/ \E x \in DOMAIN s : Remembered(s, m)[i] = s[x]
              \/ Remembered(s, m)[i] = m
         /\ \A i, j \in DOMAIN Remembered(s, m) : i < j =>
              /\ \E x \in DOMAIN s : Remembered(s, m)[i] = s[x]
              /\ \/ \E x, y \in DOMAIN s : x < y /\ Remembered(s, m)[i] = s[x]
                   /\ Remembered(s, m)[j] = s[y]
                 \/ Remembered(s, m)[j] = m
         /\ m \in Range(Remembered(s, m))
         /\ Len(s) < SeenCap => Range(s) \subseteq Range(Remembered(s, m))
         /\ Len(s) = SeenCap =>
              /\ Len(Remembered(s, m)) = SeenCap
              /\ \A x \in DOMAIN s : x = 1 \/ s[x] \in Range(Remembered(s, m))
              /\ \A i \in DOMAIN Remembered(s, m) :
                   (\E x \in DOMAIN s : 1 < x /\ Remembered(s, m)[i] = s[x])
                     \/ Remembered(s, m)[i] = m
<1>. DEFINE all == Append(s, m)
            t == Tail(all)
            n == Len(s)
<1>1. /\ n \in Nat /\ DOMAIN s = 1 .. n /\ all \in Seq(Message) /\ Len(all) = n + 1
      /\ DOMAIN all = 1 .. n + 1
      /\ \A i \in DOMAIN s : all[i] = s[i]
      /\ all[n + 1] = m
  BY Grown
<1>2. all # <<>> /\ SeenCap \in Nat \ {0}
  BY <1>1, EmptySeq, ChannelsAssumption
<1>. HIDE DEF all
<1>3. /\ t \in Seq(Message) /\ Len(t) = Len(all) - 1 /\ DOMAIN t = 1 .. Len(all) - 1
      /\ \A i \in DOMAIN t : t[i] = all[i + 1]
  BY <1>1, <1>2, Shrunk
<1>. HIDE DEF t, n
<1>4. CASE n < SeenCap
  <2>1. Remembered(s, m) = all
    BY <1>1, <1>2, <1>4 DEF Remembered, all
  <2>2. \A i \in DOMAIN all : i \in DOMAIN s \/ i = n + 1
    BY <1>1
  <2>3. Mark(all) = m
    BY <1>1, <1>2 DEF Mark
  <2>4. m \in Range(all) /\ Range(s) \subseteq Range(all)
    BY <1>1 DEF Range
  <2>5. \A i \in DOMAIN all : (\E x \in DOMAIN s : all[i] = s[x]) \/ all[i] = m
    BY <1>1, <2>2
  <2>6. ASSUME NEW i \in DOMAIN all, NEW j \in DOMAIN all, i < j
        PROVE  /\ i \in DOMAIN s /\ all[i] = s[i]
               /\ (j \in DOMAIN s /\ all[j] = s[j]) \/ all[j] = m
    BY <1>1, <2>2, <2>6
  <2>7. Len(all) <= SeenCap
    BY <1>1, <1>2, <1>4
  <2>8. n # SeenCap
    BY <1>1, <1>2, <1>4
  <2>9. Len(s) # SeenCap
    BY <2>8 DEF n
  <2>. QED
    BY <1>1, <2>1, <2>3, <2>4, <2>5, <2>6, <2>7, <2>9
<1>5. CASE n = SeenCap
  <2>1. Remembered(s, m) = t
    BY <1>1, <1>2, <1>5 DEF Remembered, all, t
  <2>2. Len(t) = n /\ DOMAIN t = 1 .. n /\ t[n] = m /\ n \in DOMAIN t
    BY <1>1, <1>2, <1>3, <1>5
  <2>3. \A i \in DOMAIN t : (i + 1 \in DOMAIN s /\ t[i] = s[i + 1] /\ 1 < i + 1) \/ i = n
    BY <1>1, <1>3, <2>2
  <2>4. Mark(t) = m
    <3>1. t # <<>>
      BY <1>2, <1>5, <2>2, EmptySeq
    <3>. QED
      BY <2>2, <3>1 DEF Mark
  <2>5. m \in Range(t)
    BY <2>2 DEF Range
  <2>6. \A i \in DOMAIN t : (\E x \in DOMAIN s : 1 < x /\ t[i] = s[x]) \/ t[i] = m
    BY <2>2, <2>3
  <2>7. ASSUME NEW i \in DOMAIN t, NEW j \in DOMAIN t, i < j
        PROVE  /\ i + 1 \in DOMAIN s /\ t[i] = s[i + 1]
               /\ (j + 1 \in DOMAIN s /\ i + 1 < j + 1 /\ t[j] = s[j + 1]) \/ t[j] = m
    <3>1. i # n
      BY <2>2, <2>7
    <3>. QED
      BY <1>1, <2>2, <2>3, <2>7, <3>1
  <2>8. \A x \in DOMAIN s : x = 1 \/ s[x] \in Range(t)
    <3>. SUFFICES ASSUME NEW x \in DOMAIN s, x # 1 PROVE s[x] \in Range(t)
      OBVIOUS
    <3>1. x - 1 \in DOMAIN t /\ (x - 1) + 1 = x /\ x - 1 # n
      BY <1>1, <2>2
    <3>2. t[x - 1] = s[x]
      BY <2>3, <3>1
    <3>. QED
      BY <3>1, <3>2 DEF Range
  <2>9. Len(t) <= SeenCap /\ Len(t) = SeenCap /\ ~(Len(s) < SeenCap)
    BY <1>2, <1>5, <2>2 DEF n
  <2>. QED
    BY <1>3, <2>1, <2>4, <2>5, <2>6, <2>7, <2>8, <2>9
<1>6. n <= SeenCap
  BY DEF n
<1>. QED
  BY <1>1, <1>2, <1>4, <1>5, <1>6

\* The numbers up to n are n.
LEMMA Counted ==
  ASSUME NEW n \in Nat
  PROVE  Cardinality(1 .. n) = n
<1>1. Cardinality(1 .. n) = IF 1 > n THEN 0 ELSE n - 1 + 1
  BY FS_Interval
<1>. QED
  BY <1>1

\* What is handed over again is still remembered.
LEMMA StaleSeen ==
  ASSUME NEW c, NEW w \in Seq(Entry), w # <<>>, NEW s \in Seq(Message), NEW o, NEW last \in Nat,
         Remembers(c, w, s, Mark(s), o, last), w[1].of # 0, o[w[1].of] = c, w[1].of <= Mark(s)
  PROVE  w[1].of \in Range(s)
<1>. DEFINE m == w[1].of
            mark == Mark(s)
<1>1. 1 \in DOMAIN w /\ w[1] \in Entry
  BY Shrunk
<1>2. m \in Message
  BY <1>1, EntryFacts
<1>3. mark \in Nat /\ Len(s) \in Nat /\ DOMAIN s = 1 .. Len(s)
        /\ \A i \in DOMAIN s : s[i] \in Message
  BY MarkIn, LenProperties, ElementOfSeq
<1>. HIDE DEF mark
<1>4. SUFFICES ASSUME m \notin Range(s) PROVE FALSE
  OBVIOUS
<1>5. Len(s) = SeenCap /\ \A i \in DOMAIN s : m < s[i]
  BY <1>2, <1>4 DEF Remembers, mark
<1>6. PICK t \in mark .. last : Cardinality(Between(c, o, m, t)) < SeenCap
  BY <1>1 DEF Remembers, mark
<1>7. \A i \in DOMAIN s : s[i] \in Between(c, o, m, t)
  <2>1. \A i \in DOMAIN s : o[s[i]] = c /\ s[i] <= mark
    BY DEF Remembers, mark
  <2>2. \A i \in DOMAIN s : s[i] \in Nat
    BY <1>3, MessageFacts
  <2>3. \A i \in DOMAIN s : s[i] <= t
    BY <1>3, <1>6, <2>1, <2>2
  <2>. QED
    BY <1>3, <1>5, <2>1, <2>3 DEF Between
<1>8. s \in Injection(1 .. Len(s), Between(c, o, m, t))
  <2>1. s \in [1 .. Len(s) -> Between(c, o, m, t)]
    <3>1. s = [i \in 1 .. Len(s) |-> s[i]]
      BY <1>3, LenProperties
    <3>. QED
      BY <1>3, <1>7, <3>1
  <2>2. \A i, j \in 1 .. Len(s) : i < j => s[i] < s[j]
    BY <1>3 DEF Remembers
  <2>3. \A i, j \in 1 .. Len(s) : i # j => s[i] # s[j]
    <3>1. \A i, j \in 1 .. Len(s) : i # j => i < j \/ j < i
      BY <1>3
    <3>2. \A i \in 1 .. Len(s) : s[i] \in Nat
      BY <1>3, MessageFacts
    <3>. QED
      BY <2>2, <3>1, <3>2
  <2>. QED
    BY <2>1, <2>3 DEF Injection, IsInjective
<1>9. IsFiniteSet(Between(c, o, m, t))
  <2>1. IsFiniteSet(Message)
    BY MessageFacts, FS_Interval DEF Message
  <2>2. Between(c, o, m, t) \in SUBSET Message
    BY DEF Between
  <2>. QED
    BY <2>1, <2>2, FS_Subset
<1>10. Cardinality(1 .. Len(s)) <= Cardinality(Between(c, o, m, t))
  BY <1>8, <1>9, FS_Injection
<1>11. Cardinality(1 .. Len(s)) = Len(s)
  BY <1>3, Counted
<1>12. Cardinality(Between(c, o, m, t)) \in Nat /\ SeenCap \in Nat
  BY <1>9, FS_CardinalityType, ChannelsAssumption
<1>. QED
  BY <1>5, <1>6, <1>10, <1>11, <1>12

\* A message that is handed over again leaves the wire.
LEMMA RemembersTail ==
  ASSUME NEW c, NEW w \in Seq(Entry), w # <<>>, NEW s, NEW mark \in Nat, NEW o, NEW last,
         Remembers(c, w, s, mark, o, last), w[1].of <= mark
  PROVE  Remembers(c, Tail(w), s, mark, o, last)
<1>. DEFINE v == Tail(w)
<1>1. /\ Len(w) \in Nat \ {0} /\ DOMAIN w = 1 .. Len(w) /\ DOMAIN v = 1 .. Len(w) - 1
      /\ \A i \in DOMAIN v : i + 1 \in DOMAIN w /\ v[i] = w[i + 1]
      /\ w[1] \in Entry
  BY Shrunk
<1>. HIDE DEF v
<1>2. \A m \in Message : (o[m] = c /\ m > mark) => \E i \in DOMAIN v : v[i].of = m
  <2>. SUFFICES ASSUME NEW m \in Message, o[m] = c, m > mark PROVE \E i \in DOMAIN v : v[i].of = m
    OBVIOUS
  <2>1. PICK i \in DOMAIN w : w[i].of = m
    BY DEF Remembers
  <2>2. i # 1
    BY <1>1, <2>1, EntryFacts, MessageFacts
  <2>3. i - 1 \in DOMAIN v /\ (i - 1) + 1 = i
    BY <1>1, <2>2
  <2>. QED
    BY <1>1, <2>1, <2>3
<1>3. ASSUME NEW i \in DOMAIN v, v[i].of <= mark
      PROVE  \E t \in mark .. last :
               /\ Cardinality(Between(c, o, v[i].of, t)) < SeenCap
               /\ \A j \in DOMAIN v : j < i => v[j].of <= t
  <2>1. i + 1 \in DOMAIN w /\ v[i] = w[i + 1]
    BY <1>1
  <2>2. PICK t \in mark .. last :
          /\ Cardinality(Between(c, o, w[i + 1].of, t)) < SeenCap
          /\ \A j \in DOMAIN w : j < i + 1 => w[j].of <= t
    BY <1>3, <2>1 DEF Remembers
  <2>3. \A j \in DOMAIN v : j < i => j + 1 < i + 1
    BY <1>1
  <2>. QED
    BY <1>1, <2>1, <2>2, <2>3
<1>4. Remembers(c, v, s, mark, o, last)
  BY <1>2, <1>3 DEF Remembers
<1>. QED
  BY <1>4 DEF v

\* A new message is handed over.
LEMMA RemembersNext ==
  ASSUME NEW c, NEW w \in Seq(Entry), w # <<>>, NEW s \in Seq(Message), Len(s) <= SeenCap,
         NEW o, NEW last \in Nat, NEW h, NEW p, NEW loose,
         Pipe(c, w, h, p, Mark(s), o, loose), c \in Repeating,
         Remembers(c, w, s, Mark(s), o, last), w[1].of > Mark(s)
  PROVE  Remembers(c, Tail(w), Remembered(s, w[1].of), w[1].of, o, last)
<1>. DEFINE v == Tail(w)
            m == w[1].of
            mark == Mark(s)
            r == Remembered(s, m)
<1>1. /\ Len(w) \in Nat \ {0} /\ DOMAIN w = 1 .. Len(w) /\ DOMAIN v = 1 .. Len(w) - 1
      /\ \A i \in DOMAIN v : i + 1 \in DOMAIN w /\ v[i] = w[i + 1]
      /\ w[1] \in Entry /\ 1 \in DOMAIN w /\ \A i \in DOMAIN w : w[i] \in Entry
  BY Shrunk, ElementOfSeq, LenProperties
<1>2. mark \in Nat
  BY MarkIn, MessageFacts
<1>3. m \in Nat /\ m > mark /\ m # 0 /\ m \in Message
  BY <1>1, <1>2, EntryFacts
<1>4. o[m] = c
  BY <1>1, <1>3 DEF Pipe
<1>. HIDE DEF v
<1>5. \A i \in DOMAIN w : w[i].of \in Nat /\ Fresh(w[i], mark) <=> w[i].of > mark
  <2>. SUFFICES ASSUME NEW i \in DOMAIN w PROVE w[i].of \in Nat /\ w[i].kind # "twin"
    BY DEF Fresh
  <2>1. w[i].kind \in KindsOf(c)
    BY DEF Pipe, WellFormed
  <2>2. KindsOf(c) = {"message"}
    BY DEF KindsOf, Repeating
  <2>. QED
    BY <1>1, <2>1, <2>2, EntryFacts
<1>6. \A i \in DOMAIN v : v[i].of > mark => m < v[i].of
  <2>. SUFFICES ASSUME NEW i \in DOMAIN v, v[i].of > mark PROVE m < v[i].of
    OBVIOUS
  <2>1. i + 1 \in DOMAIN w /\ v[i] = w[i + 1] /\ 1 < i + 1
    BY <1>1
  <2>2. Fresh(w[1], mark) /\ Fresh(w[i + 1], mark)
    BY <1>1, <1>3, <1>5, <2>1
  <2>. QED
    BY <1>1, <2>1, <2>2 DEF Pipe, mark
<1>7. \A i \in DOMAIN v : v[i].of \in Nat
  BY <1>1, EntryFacts
<1>8. ASSUME NEW n \in Message, o[n] = c, n > mark PROVE n = m \/ \E i \in DOMAIN v : v[i].of = n
  <2>1. PICK i \in DOMAIN w : w[i].of = n
    BY <1>8 DEF Remembers
  <2>2. i = 1 \/ (i - 1 \in DOMAIN v /\ (i - 1) + 1 = i)
    BY <1>1
  <2>. QED
    BY <1>1, <2>1, <2>2
<1>9. /\ \A i \in DOMAIN r : (\E x \in DOMAIN s : r[i] = s[x]) \/ r[i] = m
      /\ \A i, j \in DOMAIN r : i < j =>
           /\ \E x \in DOMAIN s : r[i] = s[x]
           /\ (\E x, y \in DOMAIN s : x < y /\ r[i] = s[x] /\ r[j] = s[y]) \/ r[j] = m
      /\ m \in Range(r) /\ Len(s) \in Nat
      /\ Len(s) < SeenCap => Range(s) \subseteq Range(r)
      /\ Len(s) = SeenCap =>
           /\ Len(r) = SeenCap
           /\ \A x \in DOMAIN s : x = 1 \/ s[x] \in Range(r)
           /\ \A i \in DOMAIN r : (\E x \in DOMAIN s : 1 < x /\ r[i] = s[x]) \/ r[i] = m
  BY <1>3, RememberedFacts, LenProperties
<1>10. /\ \A x \in DOMAIN s : o[s[x]] = c /\ s[x] <= mark /\ s[x] \in Nat
       /\ \A x, y \in DOMAIN s : x < y => s[x] < s[y]
       /\ DOMAIN s = 1 .. Len(s)
  <2>1. \A x \in DOMAIN s : s[x] \in Message
    BY ElementOfSeq, LenProperties
  <2>. QED
    BY <2>1, MessageFacts, LenProperties DEF Remembers
<1>. HIDE DEF r, mark, m
<1>11. \A x \in DOMAIN s : s[x] < m
  BY <1>2, <1>3, <1>10
<1>12. \A i \in DOMAIN r : o[r[i]] = c /\ r[i] <= m
  BY <1>3, <1>4, <1>9, <1>10, <1>11
<1>13. \A i, j \in DOMAIN r : i < j => r[i] < r[j]
  <2>. SUFFICES ASSUME NEW i \in DOMAIN r, NEW j \in DOMAIN r, i < j PROVE r[i] < r[j]
    OBVIOUS
  <2>1. CASE \E x, y \in DOMAIN s : x < y /\ r[i] = s[x] /\ r[j] = s[y]
    BY <1>10, <2>1
  <2>2. CASE r[j] = m
    <3>1. PICK x \in DOMAIN s : r[i] = s[x]
      BY <1>9
    <3>. QED
      BY <1>11, <2>2, <3>1
  <2>. QED
    BY <1>9, <2>1, <2>2
<1>14. ASSUME NEW n \in Message, o[n] = c, n <= m, n \notin Range(r)
       PROVE  Len(r) = SeenCap /\ \A i \in DOMAIN r : n < r[i]
  <2>1. n # m /\ n \in Nat
    BY <1>9, <1>14, MessageFacts
  <2>2. n <= mark
    <3>. SUFFICES ASSUME n > mark PROVE FALSE
      BY <1>2, <2>1
    <3>1. PICK i \in DOMAIN v : v[i].of = n
      BY <1>8, <1>14, <2>1
    <3>2. m < n
      BY <1>6, <3>1
    <3>. QED
      BY <1>3, <1>14, <2>1, <3>2
  <2>3. n < m
    BY <1>2, <1>3, <2>1, <2>2
  <2>4. Len(s) = SeenCap /\ \A x \in DOMAIN s : 1 < x => n < s[x]
    <3>1. CASE n \in Range(s)
      <4>1. PICK x \in DOMAIN s : n = s[x]
        BY <3>1 DEF Range
      <4>2. ~(Len(s) < SeenCap)
        BY <1>9, <1>14, <3>1
      <4>3. Len(s) = SeenCap
        BY <1>9, <4>2, ChannelsAssumption
      <4>4. x = 1
        BY <1>9, <1>14, <4>1, <4>3
      <4>. QED
        BY <1>10, <4>1, <4>3, <4>4
    <3>2. CASE n \notin Range(s)
      BY <1>14, <2>2, <3>2 DEF Remembers, mark
    <3>. QED
      BY <3>1, <3>2
  <2>. QED
    BY <1>9, <2>3, <2>4
<1>15. \A n \in Message : (o[n] = c /\ n > m) => \E i \in DOMAIN v : v[i].of = n
  <2>. SUFFICES ASSUME NEW n \in Message, o[n] = c, n > m PROVE \E i \in DOMAIN v : v[i].of = n
    OBVIOUS
  <2>1. n > mark /\ n # m
    BY <1>2, <1>3, MessageFacts
  <2>. QED
    BY <1>8, <2>1
<1>16. ASSUME NEW i \in DOMAIN v, v[i].of <= m
       PROVE  \E t \in m .. last :
                /\ Cardinality(Between(c, o, v[i].of, t)) < SeenCap
                /\ \A j \in DOMAIN v : j < i => v[j].of <= t
  <2>1. i + 1 \in DOMAIN w /\ v[i] = w[i + 1] /\ 1 < i + 1
    BY <1>1
  <2>2. v[i].of <= mark
    BY <1>2, <1>3, <1>6, <1>7, <1>16
  <2>3. PICK t \in mark .. last :
          /\ Cardinality(Between(c, o, w[i + 1].of, t)) < SeenCap
          /\ \A j \in DOMAIN w : j < i + 1 => w[j].of <= t
    BY <2>1, <2>2 DEF Remembers, mark
  <2>4. m <= t
    BY <1>1, <2>1, <2>3 DEF m
  <2>5. \A j \in DOMAIN v : j < i => j + 1 < i + 1
    BY <1>1
  <2>6. t \in m .. last
    BY <1>2, <1>3, <2>3, <2>4
  <2>. QED
    BY <1>1, <2>1, <2>3, <2>5, <2>6
<1>17. Remembers(c, v, r, m, o, last)
  BY <1>12, <1>13, <1>14, <1>15, <1>16 DEF Remembers
<1>. QED
  BY <1>17 DEF v, r, m

\* The messages are numbered in the order in which they are written.
Numbered(o, n) == \A m \in Message : o[m] # "none" <=> m <= n

\* A message is written, on this channel (the wire gets it) or on another.
LEMMA RemembersWritten ==
  ASSUME NEW c \in Channel, NEW w \in Seq(Entry), NEW s \in Seq(Message),
         NEW o \in [Message -> Home], NEW last \in Nat,
         Numbered(o, last), Remembers(c, w, s, Mark(s), o, last), last + 1 \in Message,
         \A i \in DOMAIN w : w[i].of # 0 => o[w[i].of] = c,
         NEW d \in Channel, NEW e \in Entry, e.of = last + 1
  PROVE  LET a == [o EXCEPT ![last + 1] = d]
         IN  /\ d # c => Remembers(c, w, s, Mark(s), a, last + 1)
             /\ d = c => Remembers(c, Append(w, e), s, Mark(s), a, last + 1)
<1>. DEFINE m == last + 1
            a == [o EXCEPT ![m] = d]
            v == IF d = c THEN Append(w, e) ELSE w
            mark == Mark(s)
<1>1. /\ Len(w) \in Nat /\ DOMAIN w = 1 .. Len(w) /\ DOMAIN v \subseteq 1 .. Len(w) + 1
      /\ \A i \in DOMAIN w : i \in DOMAIN v /\ v[i] = w[i] /\ w[i] \in Entry
      /\ \A i \in DOMAIN v : i \notin DOMAIN w => d = c /\ i = Len(w) + 1 /\ v[i] = e
      /\ d = c => Len(w) + 1 \in DOMAIN v /\ v[Len(w) + 1] = e
  <2>1. CASE d = c
    <3>1. /\ DOMAIN Append(w, e) = 1 .. Len(w) + 1
          /\ \A i \in DOMAIN w : Append(w, e)[i] = w[i] /\ w[i] \in Entry
          /\ Append(w, e)[Len(w) + 1] = e /\ Len(w) \in Nat /\ DOMAIN w = 1 .. Len(w)
      BY Grown
    <3>. DEFINE u == Append(w, e)
    <3>. HIDE DEF u
    <3>2. v = u
      BY <2>1 DEF u
    <3>3. /\ DOMAIN u = 1 .. Len(w) + 1 /\ u[Len(w) + 1] = e
          /\ \A i \in DOMAIN w : u[i] = w[i] /\ w[i] \in Entry
          /\ Len(w) \in Nat /\ DOMAIN w = 1 .. Len(w)
      BY <3>1 DEF u
    <3>. HIDE DEF v
    <3>. QED
      BY <2>1, <3>2, <3>3
  <2>2. CASE d # c
    <3>1. v = w /\ Len(w) \in Nat /\ DOMAIN w = 1 .. Len(w) /\ \A i \in DOMAIN w : w[i] \in Entry
      BY <2>2, LenProperties, ElementOfSeq
    <3>. HIDE DEF v
    <3>. QED
      BY <2>2, <3>1
  <2>. QED
    BY <2>1, <2>2
<1>2. m \in Message /\ m \in Nat /\ m # 0
  BY MessageFacts
<1>3. o[m] = "none" /\ c # "none" /\ \A n \in Message : n # m => a[n] = o[n]
  BY <1>2 DEF Numbered, Channel
<1>4. a[m] = d
  BY <1>2
<1>5. mark \in Nat /\ mark <= last /\ \A i \in DOMAIN s : s[i] \in Message
  <2>1. \A i \in DOMAIN s : s[i] \in Message
    BY LenProperties, ElementOfSeq
  <2>2. mark # 0 => \E i \in DOMAIN s : mark = s[i]
    BY MarkIn DEF Range
  <2>3. mark # 0 => mark <= last
    BY <1>3, <2>1, <2>2 DEF Numbered, Remembers
  <2>4. mark \in Nat
    BY MarkIn, MessageFacts
  <2>. QED
    BY <2>1, <2>3, <2>4
<1>. HIDE DEF a, mark, v, m
<1>6. \A n \in Message : (o[n] = c => a[n] = c) /\ (a[n] = c => o[n] = c \/ n = m)
  BY <1>3
<1>7. \A i \in DOMAIN s : a[s[i]] = c /\ s[i] <= mark
  BY <1>5, <1>6 DEF Remembers, mark
<1>8. \A n \in Message : (a[n] = c /\ n <= mark) => o[n] = c
  BY <1>2, <1>5, <1>6 DEF m
<1>9. ASSUME NEW n \in Message, a[n] = c, n > mark PROVE \E i \in DOMAIN v : v[i].of = n
  <2>1. CASE o[n] = c
    <3>1. PICK i \in DOMAIN w : w[i].of = n
      BY <1>9, <2>1 DEF Remembers, mark
    <3>. QED
      BY <1>1, <3>1
  <2>2. CASE o[n] # c
    <3>1. n = m /\ d = c
      BY <1>4, <1>6, <1>9, <2>2
    <3>. QED
      BY <1>1, <3>1 DEF m
  <2>. QED
    BY <2>1, <2>2
<1>10. ASSUME NEW i \in DOMAIN v, v[i].of <= mark
       PROVE  \E t \in mark .. m :
                /\ Cardinality(Between(c, a, v[i].of, t)) < SeenCap
                /\ \A j \in DOMAIN v : j < i => v[j].of <= t
  <2>1. i \in DOMAIN w
    BY <1>1, <1>5, <1>10
  <2>2. PICK t \in mark .. last :
          /\ Cardinality(Between(c, o, w[i].of, t)) < SeenCap
          /\ \A j \in DOMAIN w : j < i => w[j].of <= t
    BY <1>1, <1>10, <2>1 DEF Remembers, mark
  <2>3. Between(c, a, w[i].of, t) = Between(c, o, w[i].of, t)
    <3>1. t \in Int /\ t <= last
      BY <1>5, <2>2
    <3>2. \A n \in Message : n <= t => n # m
      BY <3>1 DEF m
    <3>. QED
      BY <1>6, <3>2 DEF Between
  <2>4. \A j \in DOMAIN v : j < i => j \in DOMAIN w
    BY <1>1, <2>1
  <2>5. t \in mark .. m
    BY <1>5, <2>2 DEF m
  <2>. QED
    BY <1>1, <2>1, <2>2, <2>3, <2>4, <2>5
<1>11. Remembers(c, v, s, mark, a, m)
  BY <1>7, <1>8, <1>9, <1>10 DEF Remembers, mark
<1>. QED
  BY <1>11 DEF a, v, m, mark

\* The platform hands over a message again that it is not about to hand over.
LEMMA RemembersRepeats ==
  ASSUME NEW c \in Repeating, NEW w \in Seq(Entry), NEW s \in Seq(Message), NEW o, NEW last \in Nat,
         Numbered(o, last), Remembers(c, w, s, Mark(s), o, last),
         NEW h, NEW p, NEW loose, Pipe(c, w, h, p, Mark(s), o, loose),
         NEW m \in Message, o[m] = c, [of |-> m, kind |-> "message"] \notin Range(w),
         Cardinality({n \in Message : n > m /\ o[n] = c}) < SeenCap
  PROVE  /\ m <= Mark(s)
         /\ Remembers(c, Append(w, [of |-> m, kind |-> "message"]), s, Mark(s), o, last)
<1>. DEFINE e == [of |-> m, kind |-> "message"]
            v == Append(w, e)
            mark == Mark(s)
<1>1. e \in Entry /\ e.of = m
  BY MessageFacts DEF Entry, Kind, Message
<1>. HIDE DEF e
<1>2. /\ Len(w) \in Nat /\ DOMAIN w = 1 .. Len(w) /\ DOMAIN v = 1 .. Len(w) + 1
      /\ \A i \in DOMAIN w : v[i] = w[i] /\ w[i] \in Entry
      /\ v[Len(w) + 1] = e
  BY <1>1, Grown
<1>. HIDE DEF v
<1>3. c \in Channel /\ c # "none" /\ KindsOf(c) = {"message"}
  BY DEF Repeating, Channel, KindsOf
<1>4. mark \in Nat /\ mark <= last
  <2>1. \A i \in DOMAIN s : s[i] \in Message
    BY LenProperties, ElementOfSeq
  <2>2. mark # 0 => \E i \in DOMAIN s : mark = s[i]
    BY MarkIn DEF Range
  <2>3. mark # 0 => mark <= last
    BY <1>3, <2>1, <2>2 DEF Numbered, Remembers
  <2>4. mark \in Nat
    BY MarkIn, MessageFacts
  <2>. QED
    BY <2>3, <2>4
<1>. HIDE DEF mark
<1>5. ASSUME NEW i \in DOMAIN w PROVE w[i] = [of |-> w[i].of, kind |-> "message"]
  <2>1. w[i] \in Entry
    BY <1>2
  <2>2. w[i].kind = "message"
    BY <1>3 DEF Pipe, WellFormed
  <2>. QED
    BY <2>1, <2>2 DEF Entry
<1>6. m <= mark
  <2>. SUFFICES ASSUME m > mark PROVE FALSE
    BY <1>4, MessageFacts
  <2>1. PICK i \in DOMAIN w : w[i].of = m
    BY DEF Remembers, mark
  <2>2. w[i] = e
    BY <1>5, <2>1 DEF e
  <2>. QED
    BY <2>2 DEF Range, e
<1>7. \A i \in DOMAIN w : w[i].of <= last
  <2>. SUFFICES ASSUME NEW i \in DOMAIN w PROVE w[i].of <= last
    OBVIOUS
  <2>1. w[i] \in Entry
    BY <1>2
  <2>2. w[i].of \in Nat /\ (w[i].of # 0 => w[i].of \in Message /\ o[w[i].of] = c)
    BY <2>1, EntryFacts DEF Pipe
  <2>. QED
    BY <1>3, <2>2 DEF Numbered
<1>8. Cardinality(Between(c, o, m, last)) < SeenCap
  <2>1. IsFiniteSet(Message)
    BY MessageFacts, FS_Interval DEF Message
  <2>. DEFINE X == {n \in Message : n > m /\ o[n] = c}
  <2>2. IsFiniteSet(X)
    BY <2>1, FS_Subset
  <2>3. Between(c, o, m, last) \in SUBSET X
    BY MessageFacts DEF Between
  <2>4. /\ Cardinality(Between(c, o, m, last)) <= Cardinality(X)
        /\ Cardinality(X) \in Nat /\ Cardinality(Between(c, o, m, last)) \in Nat
        /\ Cardinality(X) < SeenCap /\ SeenCap \in Nat
    BY <2>2, <2>3, FS_Subset, FS_CardinalityType, ChannelsAssumption
  <2>. QED
    BY <2>4
<1>9. \A n \in Message : (o[n] = c /\ n > mark) => \E i \in DOMAIN v : v[i].of = n
  <2>. SUFFICES ASSUME NEW n \in Message, o[n] = c, n > mark PROVE \E i \in DOMAIN v : v[i].of = n
    OBVIOUS
  <2>1. PICK i \in DOMAIN w : w[i].of = n
    BY DEF Remembers, mark
  <2>2. i \in DOMAIN v
    BY <1>2
  <2>. QED
    BY <1>2, <2>1, <2>2
<1>10. ASSUME NEW i \in DOMAIN v, v[i].of <= mark
       PROVE  \E t \in mark .. last :
                /\ Cardinality(Between(c, o, v[i].of, t)) < SeenCap
                /\ \A j \in DOMAIN v : j < i => v[j].of <= t
  <2>1. CASE i \in DOMAIN w
    <3>1. PICK t \in mark .. last :
            /\ Cardinality(Between(c, o, w[i].of, t)) < SeenCap
            /\ \A j \in DOMAIN w : j < i => w[j].of <= t
      BY <1>2, <1>10, <2>1 DEF Remembers, mark
    <3>2. \A j \in DOMAIN v : j < i => j \in DOMAIN w
      BY <1>2, <2>1
    <3>. QED
      BY <1>2, <2>1, <3>1, <3>2
  <2>2. CASE i \notin DOMAIN w
    <3>1. i = Len(w) + 1 /\ \A j \in DOMAIN v : j < i => j \in DOMAIN w
      BY <1>2, <2>2
    <3>2. last \in mark .. last
      BY <1>4
    <3>. QED
      BY <1>1, <1>2, <1>7, <1>8, <3>1, <3>2
  <2>. QED
    BY <2>1, <2>2
<1>11. Remembers(c, v, s, mark, o, last)
  BY <1>9, <1>10 DEF Remembers, mark
<1>. QED
  BY <1>6, <1>11 DEF e, v, mark

-----------------------------------------------------------------------------
(* Channels: the answers.                                                  *)

\* A reply answers a message or, with 0, none.
LEMMA ReplyFacts ==
  ASSUME NEW r \in Reply
  PROVE  r.of \in 0 .. MaxMessages /\ r.of \in Nat /\ r.to \in Channel \cup {"unknown"}
BY MessageFacts DEF Reply

\* The inbound queue grows, and answers are made.
LEMMA RepliesGrow ==
  ASSUME NEW d, NEW s, NEW q, NEW p, NEW n \in Nat, NEW p2, NEW n2 \in Nat,
         Replies(d, s, q, p, n), n <= n2, \A k \in 1 .. n : p2[k] = p[k]
  PROVE  Replies(d, s, q, p2, n2)
<1>1. \A k \in 1 .. n : k \in 1 .. n2
  OBVIOUS
<1>2. ASSUME NEW m, Answers(m, p, n) PROVE Answers(m, p2, n2)
  BY <1>1, <1>2 DEF Answers
<1>3. ASSUME NEW m, NEW k, InTurn(m, k, p, n) PROVE InTurn(m, k, p2, n2)
  BY <1>1, <1>3 DEF InTurn
<1>. QED
  BY <1>2, <1>3 DEF Replies

\* An answer to the next message, or a message of its own, waits behind the others.
LEMMA RepliesWait ==
  ASSUME NEW d, NEW s, NEW q \in Seq(Reply), NEW p, NEW n \in Nat, NEW r \in Reply,
         Replies(d, s, q, p, n), r.of = 0 \/ r.of = p[n + 1], NEW n2 \in Nat, n <= n2,
         r.of # 0 => n2 = n + 1
  PROVE  Replies(d, s, Append(q, r), p, n2)
<1>. DEFINE x == Append(q, r)
<1>1. /\ Len(q) \in Nat /\ DOMAIN q = 1 .. Len(q) /\ DOMAIN x = 1 .. Len(q) + 1
      /\ \A i \in DOMAIN q : x[i] = q[i]
      /\ x[Len(q) + 1] = r
  BY Grown
<1>. HIDE DEF x
<1>2. \A i \in DOMAIN x : i \in DOMAIN q \/ i = Len(q) + 1
  BY <1>1
<1>3. Answers(r.of, p, n2)
  BY DEF Answers
<1>4. ASSUME NEW m, Answers(m, p, n) PROVE InTurn(m, r.of, p, n2)
  <2>. SUFFICES ASSUME m # 0, r.of # 0 PROVE \E i, j \in 1 .. n2 : i < j /\ p[i] = m /\ p[j] = r.of
    BY DEF InTurn
  <2>1. PICK k \in 1 .. n : p[k] = m
    BY <1>4 DEF Answers
  <2>2. n2 = n + 1 /\ k \in 1 .. n2 /\ n + 1 \in 1 .. n2 /\ k < n + 1 /\ p[n + 1] = r.of
    OBVIOUS
  <2>. QED
    BY <2>1, <2>2
<1>5. Replies(d, s, q, p, n2)
  BY RepliesGrow
<1>6. \A i \in DOMAIN x : Answers(x[i].of, p, n2)
  BY <1>1, <1>2, <1>3, <1>5 DEF Replies
<1>7. \A i \in DOMAIN d, j \in DOMAIN x : InTurn(d[i].of, x[j].of, p, n2)
  <2>1. \A i \in DOMAIN d : InTurn(d[i].of, r.of, p, n2)
    BY <1>4 DEF Replies
  <2>. QED
    BY <1>1, <1>2, <1>5, <2>1 DEF Replies
<1>8. \A i \in DOMAIN s, j \in DOMAIN x : InTurn(s[i].of, x[j].of, p, n2)
  <2>1. \A i \in DOMAIN s : InTurn(s[i].of, r.of, p, n2)
    BY <1>4 DEF Replies
  <2>. QED
    BY <1>1, <1>2, <1>5, <2>1 DEF Replies
<1>9. ASSUME NEW i \in DOMAIN x, NEW j \in DOMAIN x, i < j PROVE InTurn(x[i].of, x[j].of, p, n2)
  <2>1. i \in DOMAIN q
    BY <1>1, <1>9
  <2>2. CASE j \in DOMAIN q
    BY <1>1, <1>5, <1>9, <2>1, <2>2 DEF Replies
  <2>3. CASE j = Len(q) + 1
    <3>1. InTurn(q[i].of, r.of, p, n2)
      BY <1>4, <2>1 DEF Replies
    <3>. QED
      BY <1>1, <2>1, <2>3, <3>1
  <2>. QED
    BY <1>2, <2>2, <2>3
<1>10. Replies(d, s, x, p, n2)
  BY <1>5, <1>6, <1>7, <1>8, <1>9 DEF Replies
<1>. QED
  BY <1>10 DEF x

\* The dispatcher takes the next one, and sends it or drops it.
LEMMA RepliesTaken ==
  ASSUME NEW d, NEW s, NEW q \in Seq(Reply), q # <<>>, NEW p, NEW n, Replies(d, s, q, p, n)
  PROVE  Replies(d, <<Head(q)>>, Tail(q), p, n) /\ Replies(d, <<>>, Tail(q), p, n)
<1>. DEFINE t == Tail(q)
            u == <<Head(q)>>
<1>1. /\ Len(q) \in Nat \ {0} /\ DOMAIN q = 1 .. Len(q) /\ DOMAIN t = 1 .. Len(q) - 1
      /\ \A i \in DOMAIN t : i + 1 \in DOMAIN q /\ t[i] = q[i + 1]
      /\ Head(q) = q[1] /\ 1 \in DOMAIN q
  BY Shrunk
<1>2. DOMAIN u = {1} /\ u[1] = q[1] /\ DOMAIN <<>> = {}
  <2>1. u = <<q[1]>>
    BY <1>1
  <2>. HIDE DEF u
  <2>. QED
    BY <2>1
<1>. HIDE DEF t, u
<1>3. \A i \in DOMAIN t : Answers(t[i].of, p, n)
  BY <1>1 DEF Replies
<1>4. \A i \in DOMAIN d, j \in DOMAIN t : InTurn(d[i].of, t[j].of, p, n)
  BY <1>1 DEF Replies
<1>5. ASSUME NEW i \in DOMAIN t, NEW j \in DOMAIN t, i < j PROVE InTurn(t[i].of, t[j].of, p, n)
  <2>1. i + 1 \in DOMAIN q /\ j + 1 \in DOMAIN q /\ i + 1 < j + 1 /\ t[i] = q[i + 1]
          /\ t[j] = q[j + 1]
    BY <1>1, <1>5
  <2>. QED
    BY <2>1 DEF Replies
<1>6. ASSUME NEW j \in DOMAIN t PROVE InTurn(q[1].of, t[j].of, p, n)
  <2>1. j + 1 \in DOMAIN q /\ 1 < j + 1 /\ t[j] = q[j + 1]
    BY <1>1
  <2>. QED
    BY <1>1, <2>1 DEF Replies
<1>7. Replies(d, <<>>, t, p, n)
  BY <1>2, <1>3, <1>4, <1>5 DEF Replies
<1>8. Replies(d, u, t, p, n)
  BY <1>1, <1>2, <1>3, <1>4, <1>5, <1>6 DEF Replies
<1>. QED
  BY <1>7, <1>8 DEF t, u

\* A send is over, and the message is sent or not.
LEMMA RepliesSent ==
  ASSUME NEW d \in Seq(Reply), NEW s \in Seq(Reply), NEW q, NEW p, NEW n, Replies(d, s, q, p, n),
         NEW i \in DOMAIN s
  PROVE  Replies(Append(d, s[i]), <<>>, q, p, n)
<1>. DEFINE x == Append(d, s[i])
<1>1. s[i] \in Reply
  BY LenProperties, ElementOfSeq
<1>2. /\ Len(d) \in Nat /\ DOMAIN d = 1 .. Len(d) /\ DOMAIN x = 1 .. Len(d) + 1
      /\ \A k \in DOMAIN d : x[k] = d[k]
      /\ x[Len(d) + 1] = s[i]
  BY <1>1, Grown
<1>. HIDE DEF x
<1>3. \A k \in DOMAIN x : k \in DOMAIN d \/ k = Len(d) + 1
  BY <1>2
<1>4. DOMAIN <<>> = {}
  BY EmptySeq
<1>5. \A k \in DOMAIN x : Answers(x[k].of, p, n)
  BY <1>2, <1>3 DEF Replies
<1>6. \A k \in DOMAIN x, j \in DOMAIN q : InTurn(x[k].of, q[j].of, p, n)
  BY <1>2, <1>3 DEF Replies
<1>7. ASSUME NEW k \in DOMAIN x, NEW j \in DOMAIN x, k < j PROVE InTurn(x[k].of, x[j].of, p, n)
  <2>1. k \in DOMAIN d
    BY <1>2, <1>7
  <2>2. CASE j \in DOMAIN d
    BY <1>2, <1>7, <2>1, <2>2 DEF Replies
  <2>3. CASE j = Len(d) + 1
    BY <1>2, <2>1, <2>3 DEF Replies
  <2>. QED
    BY <1>3, <2>2, <2>3
<1>8. Replies(x, <<>>, q, p, n)
  BY <1>4, <1>5, <1>6, <1>7 DEF Replies
<1>. QED
  BY <1>8 DEF x

\* What was being sent is given up.
LEMMA RepliesStop ==
  ASSUME NEW d, NEW s, NEW q, NEW p, NEW n, Replies(d, s, q, p, n)
  PROVE  Replies(d, <<>>, q, p, n)
<1>1. DOMAIN <<>> = {}
  BY EmptySeq
<1>. QED
  BY <1>1 DEF Replies

-----------------------------------------------------------------------------
(* Channels: what a step does to the flow of messages.                     *)

\* What the invariant says, for one channel.
LEMMA FlowFacts ==
  ASSUME FlowInv
  PROVE  /\ \A c \in Channel : /\ wire[c] \in Seq(Entry) /\ seen[c] \in Seq(Message) /\ handling[c] \in Seq(Message)
                               /\ MarkOf(c) \in Nat /\ Loose(c) \in BOOLEAN
                               /\ Pipe(c, wire[c], handling[c], published, MarkOf(c), origin, Loose(c))
         /\ published \in Seq(Message) /\ origin \in [Message -> Home]
         /\ Written \in Nat /\ Written <= MaxMessages /\ Numbered(origin, Written)
<1>1. \A c \in Channel : Mark(seen[c]) \in 0 .. MaxMessages
  BY MarkIn DEF FlowInv, FlowTyped
<1>2. \A c \in Channel : Mark(seen[c]) \in Nat
  BY <1>1, MessageFacts
<1>3. \A c \in Channel : MarkOf(c) \in Nat
  BY <1>2 DEF MarkOf
<1>4. \A c \in Channel : Loose(c) \in BOOLEAN
  BY DEF Loose, TwinsPass
<1>. DEFINE X == {m \in Message : origin[m] # "none"}
<1>5. IsFiniteSet(X) /\ Cardinality(X) <= Cardinality(Message) /\ Cardinality(X) \in Nat
      /\ Cardinality(Message) = MaxMessages
  <2>1. IsFiniteSet(Message) /\ Cardinality(Message) = MaxMessages
    BY MessageFacts, FS_Interval DEF Message
  <2>2. X \in SUBSET Message
    OBVIOUS
  <2>. HIDE DEF X
  <2>. QED
    BY <2>1, <2>2, FS_Subset, FS_CardinalityType
<1>6. Written \in Nat /\ Written <= MaxMessages
  BY <1>5 DEF Written
<1>7. Numbered(origin, Written)
  <2>1. X = 1 .. Written
    BY DEF FlowInv
  <2>2. ASSUME NEW m \in Message PROVE origin[m] # "none" <=> m <= Written
    <3>1. origin[m] # "none" <=> m \in 1 .. Written
      BY <2>1
    <3>. QED
      BY <1>6, <3>1, MessageFacts
  <2>. QED
    BY <2>2 DEF Numbered
<1>. QED
  BY <1>3, <1>4, <1>6, <1>7 DEF FlowInv, FlowTyped, Home

\* Nothing of the flow changes.  Slack does not connect again.
LEMMA FlowStays ==
  ASSUME FlowInv, UNCHANGED <<wire, origin, seen, handling, published, botKnown>>,
         (phase' = "on" /\ link'["slack"] = "down") => (phase = "on" /\ link["slack"] = "down")
  PROVE  FlowInv'
<1>1. Written' = Written
  BY DEF Written
<1>2. \A c \in Channel : MarkOf(c)' = MarkOf(c) /\ Loose(c)' = Loose(c)
  BY DEF MarkOf, Loose, TwinsPass
<1>3. FlowTyped'
  BY DEF FlowInv, FlowTyped
<1>4. SlackWaits'
  BY DEF FlowInv, SlackWaits
<1>5. \A c \in Channel : Pipe(c, wire[c], handling[c], published, MarkOf(c), origin, Loose(c))'
  BY <1>2 DEF FlowInv, Pipe
<1>6. \A c \in Repeating : Remembers(c, wire[c], seen[c], Mark(seen[c]), origin, Written)'
  <2>. SUFFICES ASSUME NEW c \in Repeating
                PROVE  Remembers(c, wire'[c], seen'[c], Mark(seen'[c]), origin', Written')
    OBVIOUS
  <2>1. Remembers(c, wire[c], seen[c], Mark(seen[c]), origin, Written)
    BY DEF FlowInv
  <2>. QED
    BY <1>1, <2>1, Zenon
<1>. QED
  BY <1>1, <1>3, <1>4, <1>5, <1>6 DEF FlowInv

\* A handler of one channel goes on, and publishes at most one of its messages.
LEMMA ChannelMoves ==
  ASSUME FlowInv, NEW c \in Channel, UNCHANGED <<origin, botKnown>>,
         wire' \in [Channel -> Seq(Entry)], handling' \in [Channel -> Seq(Message)],
         seen' \in [Channel -> Seq(Message)],
         \A b \in Channel : b # c => wire'[b] = wire[b] /\ handling'[b] = handling[b]
           /\ seen'[b] = seen[b],
         Len(seen'[c]) <= IF c = "email" THEN UidCap ELSE SeenCap,
         c \in {"whatsapp", "qq"} => handling'[c] = <<>>,
         c = "discord" => Len(handling'[c]) <= 1,
         \/ published' = published
         \/ \E m \in Message : origin[m] = c /\ published' = Append(published, m),
         (phase' = "on" /\ link'["slack"] = "down") =>
           (phase = "on" /\ link["slack"] = "down" /\ c # "slack"),
         Pipe(c, wire'[c], handling'[c], published', MarkOf(c)', origin, Loose(c)),
         c \in Repeating => Remembers(c, wire'[c], seen'[c], Mark(seen'[c]), origin, Written)
  PROVE  FlowInv'
<1>. DEFINE p == published'
<1>1. Written' = Written
  BY DEF Written
<1>2. \A b \in Channel : Loose(b)' = Loose(b) /\ (b # c => MarkOf(b)' = MarkOf(b))
  BY DEF MarkOf, Loose, TwinsPass
<1>3. published \in Seq(Message) /\ c # "none"
  BY DEF FlowInv, FlowTyped, Channel
<1>4. /\ p \in Seq(Message)
      /\ \A i \in DOMAIN p : (i \in DOMAIN published /\ p[i] = published[i]) \/ origin[p[i]] = c
  <2>1. CASE p = published
    BY <1>3, <2>1
  <2>2. CASE \E m \in Message : origin[m] = c /\ p = Append(published, m)
    <3>1. PICK m \in Message : origin[m] = c /\ p = Append(published, m)
      BY <2>2
    <3>. DEFINE u == Append(published, m)
    <3>2. /\ u \in Seq(Message) /\ DOMAIN u = 1 .. Len(published) + 1 /\ Len(published) \in Nat
          /\ DOMAIN published = 1 .. Len(published) /\ u[Len(published) + 1] = m
          /\ \A i \in DOMAIN published : u[i] = published[i]
      BY <1>3, Grown
    <3>3. p = u
      BY <3>1
    <3>. HIDE DEF u, p
    <3>4. \A i \in DOMAIN u : i \in DOMAIN published \/ i = Len(published) + 1
      BY <3>2
    <3>. QED
      BY <3>1, <3>2, <3>3, <3>4
  <2>. QED
    BY <2>1, <2>2
<1>5. FlowTyped'
  BY <1>4 DEF FlowInv, FlowTyped
<1>6. \A i \in DOMAIN p : origin[p[i]] # "none"
  BY <1>3, <1>4 DEF FlowInv
<1>7. (handling["whatsapp"] = <<>> /\ handling["qq"] = <<>> /\ Len(handling["discord"]) <= 1)'
  <2>1. {"whatsapp", "qq", "discord"} \subseteq Channel
    BY DEF Channel
  <2>. QED
    BY <2>1 DEF FlowInv
<1>8. SlackWaits'
  <2>. SUFFICES ASSUME phase' = "on", link'["slack"] = "down"
                PROVE  handling'["slack"] = <<>> /\ \A i \in DOMAIN p : origin[p[i]] # "slack"
    BY DEF SlackWaits
  <2>1. phase = "on" /\ link["slack"] = "down" /\ c # "slack" /\ "slack" \in Channel
    BY DEF Channel
  <2>2. handling["slack"] = <<>> /\ \A i \in DOMAIN published : origin[published[i]] # "slack"
    BY <2>1 DEF FlowInv, SlackWaits
  <2>3. handling'["slack"] = handling["slack"]
    BY <2>1
  <2>. HIDE DEF p
  <2>. QED
    BY <1>4, <2>1, <2>2, <2>3
<1>9. ASSUME NEW b \in Channel
      PROVE  Pipe(b, wire[b], handling[b], published, MarkOf(b), origin, Loose(b))'
  <2>1. CASE b = c
    <3>1. Pipe(c, wire'[c], handling'[c], published', MarkOf(c)', origin', Loose(c)')
      BY <1>2, Zenon
    <3>. QED
      BY <2>1, <3>1
  <2>2. CASE b # c
    <3>1. Pipe(b, wire[b], handling[b], published, MarkOf(b), origin, Loose(b))
      BY DEF FlowInv
    <3>2. Pipe(b, wire[b], handling[b], p, MarkOf(b), origin, Loose(b))
      <4>1. CASE p = published
        BY <3>1, <4>1
      <4>2. CASE \E m \in Message : origin[m] = c /\ p = Append(published, m)
        <5>1. PICK m \in Message : origin[m] = c /\ p = Append(published, m)
          BY <4>2
        <5>. QED
          BY <1>3, <2>2, <3>1, <5>1, PipeOther
      <4>. QED
        BY <4>1, <4>2
    <3>3. wire'[b] = wire[b] /\ handling'[b] = handling[b] /\ MarkOf(b)' = MarkOf(b)
            /\ Loose(b)' = Loose(b)
      BY <1>2, <2>2
    <3>4. Pipe(b, wire'[b], handling'[b], p, MarkOf(b)', origin', Loose(b)')
      BY <3>2, <3>3, Zenon
    <3>. QED
      BY <3>4
  <2>. QED
    BY <2>1, <2>2
<1>10. ASSUME NEW b \in Repeating
       PROVE  Remembers(b, wire[b], seen[b], Mark(seen[b]), origin, Written)'
  <2>1. b \in Channel
    BY DEF Repeating, Channel
  <2>2. CASE b = c
    <3>1. Remembers(c, wire'[c], seen'[c], Mark(seen'[c]), origin', Written')
      BY <1>1, <2>2, Zenon
    <3>. QED
      BY <2>2, <3>1
  <2>3. CASE b # c
    <3>1. Remembers(b, wire[b], seen[b], Mark(seen[b]), origin, Written)
      BY DEF FlowInv
    <3>2. wire'[b] = wire[b] /\ seen'[b] = seen[b]
      BY <2>1, <2>3
    <3>3. Remembers(b, wire'[b], seen'[b], Mark(seen'[b]), origin', Written')
      BY <1>1, <3>1, <3>2, Zenon
    <3>. QED
      BY <3>3
  <2>. QED
    BY <2>2, <2>3
<1>11. ({m \in Message : origin[m] # "none"} = 1 .. Written)'
  BY <1>1 DEF FlowInv
<1>. QED
  BY <1>5, <1>6, <1>7, <1>8, <1>9, <1>10, <1>11 DEF FlowInv

-----------------------------------------------------------------------------
(* Channels: the handlers.                                                 *)

\* What a handler takes off the wire of its channel.
LEMMA TakeFacts ==
  ASSUME FlowInv, NEW c \in Channel, NEW e, Take(c, e)
  PROVE  /\ wire[c] \in Seq(Entry) /\ wire[c] # <<>> /\ e = wire[c][1] /\ e \in Entry
         /\ link[c] = "up"
         /\ wire' \in [Channel -> Seq(Entry)] /\ wire'[c] = Tail(wire[c])
         /\ \A b \in Channel : b # c => wire'[b] = wire[b]
         /\ WellFormed(c, e) /\ (e.of # 0 => e.of \in Message /\ origin[e.of] = c)
<1>1. wire[c] \in Seq(Entry) /\ wire[c] # <<>> /\ wire \in [Channel -> Seq(Entry)]
  BY FlowFacts DEF Take, FlowInv, FlowTyped
<1>2. e = wire[c][1] /\ e \in Entry /\ 1 \in DOMAIN wire[c] /\ Tail(wire[c]) \in Seq(Entry)
  BY <1>1, Shrunk DEF Take
<1>3. WellFormed(c, e) /\ (e.of # 0 => origin[e.of] = c)
  BY <1>2, FlowFacts DEF Pipe
<1>. QED
  BY <1>1, <1>2, <1>3, EntryFacts DEF Take

\* Telegram, Discord, DingTalk and Slack: the handler begins, or drops the entry.
LEMMA BeginsFlow ==
  ASSUME FlowInv, NEW c \in {"telegram", "discord", "dingtalk", "slack"}, NEW e, Take(c, e),
         c = "discord" => handling[c] = <<>>,
         \/ Begin(c, e.of) /\ (c = "slack" => SlackResponds(e.kind))
         \/ UNCHANGED handling,
         UNCHANGED <<seen, published, origin, botKnown, phase, link>>
  PROVE  FlowInv'
<1>1. c \in Channel /\ c \notin Repeating /\ MarkOf(c) = 0 /\ MarkOf(c)' = 0 /\ c # "email"
        /\ c \notin {"whatsapp", "qq"}
  BY DEF Channel, Repeating, MarkOf
<1>2. /\ wire[c] \in Seq(Entry) /\ wire[c] # <<>> /\ e = wire[c][1] /\ e \in Entry /\ link[c] = "up"
      /\ wire' \in [Channel -> Seq(Entry)] /\ wire'[c] = Tail(wire[c])
      /\ \A b \in Channel : b # c => wire'[b] = wire[b]
      /\ WellFormed(c, e) /\ (e.of # 0 => e.of \in Message /\ origin[e.of] = c)
  BY <1>1, TakeFacts
<1>3. e.of \in Message /\ e.of # 0 /\ e.of > 0
  <2>1. e.kind \in {"message", "mention", "twin"}
    BY <1>2 DEF WellFormed, KindsOf
  <2>2. e.of # 0
    BY <1>2, <2>1 DEF WellFormed
  <2>3. e.of \in Message
    BY <1>2, <2>2
  <2>4. e.of \in Nat
    BY <1>2, EntryFacts
  <2>. QED
    BY <2>2, <2>3, <2>4
<1>4. /\ handling[c] \in Seq(Message) /\ handling \in [Channel -> Seq(Message)]
      /\ published \in Seq(Message)
      /\ seen \in [Channel -> Seq(Message)] /\ Len(seen[c]) <= SeenCap
      /\ Pipe(c, wire[c], handling[c], published, 0, origin, Loose(c)) /\ Loose(c) \in BOOLEAN
  BY <1>1, FlowFacts DEF FlowInv, FlowTyped
<1>5. Pipe(c, wire'[c], handling[c], published, 0, origin, Loose(c))
  BY <1>2, <1>4, PipeTail
<1>6. CASE Begin(c, e.of) /\ (c = "slack" => SlackResponds(e.kind))
  <2>1. Fresh(wire[c][1], 0) \/ Loose(c)
    <3>1. CASE c # "slack"
      <4>1. e.kind = "message"
        <5>1. e.kind \in KindsOf(c)
          BY <1>2 DEF WellFormed
        <5>. QED
          BY <1>1, <3>1, <5>1 DEF KindsOf
      <4>. QED
        BY <1>2, <1>3, <4>1 DEF Fresh
    <3>2. CASE c = "slack"
      BY <1>2, <1>3, <1>6, <3>2 DEF SlackResponds, Fresh, Loose, TwinsPass
    <3>. QED
      BY <3>1, <3>2
  <2>2. Pipe(c, Tail(wire[c]), Append(handling[c], wire[c][1].of), published, 0, origin, Loose(c))
    <3>1. wire[c][1].of # 0
      BY <1>2, <1>3
    <3>. QED
      BY <1>2, <1>4, <2>1, <3>1, PipeBegins
  <2>3. /\ handling'[c] = Append(handling[c], e.of) /\ handling' \in [Channel -> Seq(Message)]
        /\ \A b \in Channel : b # c => handling'[b] = handling[b]
    <3>1. Append(handling[c], e.of) \in Seq(Message)
      BY <1>3, <1>4, Grown
    <3>. QED
      BY <1>1, <1>4, <1>6, <3>1 DEF Begin
  <2>4. Pipe(c, wire'[c], handling'[c], published', MarkOf(c)', origin, Loose(c))
    BY <1>1, <1>2, <2>2, <2>3
  <2>5. c = "discord" => Len(handling'[c]) <= 1
    <3>. SUFFICES ASSUME c = "discord" PROVE Len(handling'[c]) <= 1
      OBVIOUS
    <3>1. handling'[c] = Append(<<>>, e.of)
      BY <2>3
    <3>2. Len(Append(<<>>, e.of)) = 1
      OBVIOUS
    <3>. QED
      BY <3>1, <3>2
  <2>6. (phase' = "on" /\ link'["slack"] = "down") =>
          (phase = "on" /\ link["slack"] = "down" /\ c # "slack")
    BY <1>2
  <2>. QED
    BY <1>1, <1>2, <1>4, <2>3, <2>4, <2>5, <2>6, ChannelMoves
<1>7. CASE UNCHANGED handling
  <2>1. Pipe(c, wire'[c], handling'[c], published', MarkOf(c)', origin, Loose(c))
    BY <1>1, <1>5, <1>7
  <2>2. c = "discord" => Len(handling'[c]) <= 1
    BY <1>7 DEF FlowInv
  <2>3. (phase' = "on" /\ link'["slack"] = "down") =>
          (phase = "on" /\ link["slack"] = "down" /\ c # "slack")
    BY <1>2
  <2>. QED
    BY <1>1, <1>2, <1>4, <1>7, <2>1, <2>2, <2>3, ChannelMoves
<1>. QED
  BY <1>6, <1>7

\* A handler goes on.
LEMMA ResumesFlow ==
  ASSUME FlowInv, NEW c \in Channel \ {"whatsapp", "qq"}, NEW i, Resume(c, i),
         c \in InOrder => i = 1,
         published' \in {published, Append(published, handling[c][i])}, phase = "on",
         UNCHANGED <<seen, origin, botKnown, phase, link>>
  PROVE  FlowInv'
<1>1. /\ wire \in [Channel -> Seq(Entry)] /\ handling \in [Channel -> Seq(Message)]
      /\ published \in Seq(Message)
      /\ seen \in [Channel -> Seq(Message)]
      /\ Len(seen[c]) <= IF c = "email" THEN UidCap ELSE SeenCap
      /\ handling[c] \in Seq(Message) /\ i \in DOMAIN handling[c]
      /\ Pipe(c, wire[c], handling[c], published, MarkOf(c), origin, Loose(c))
      /\ Loose(c) \in BOOLEAN
      /\ MarkOf(c)' = MarkOf(c)
  BY FlowFacts DEF FlowInv, FlowTyped, Resume, MarkOf
<1>. DEFINE g == RemoveAt(handling[c], i)
            m == handling[c][i]
<1>2. /\ g \in Seq(Message) /\ Len(g) = Len(handling[c]) - 1 /\ Len(handling[c]) \in Nat
      /\ m \in Message /\ origin[m] = c
  <2>1. g \in Seq(Message) /\ Len(g) = Len(handling[c]) - 1 /\ Len(handling[c]) \in Nat
    BY <1>1, Removed
  <2>2. m \in Message
    BY <1>1, ElementOfSeq, LenProperties
  <2>3. origin[m] = c
    BY <1>1 DEF Pipe
  <2>. QED
    BY <2>1, <2>2, <2>3
<1>3. Pipe(c, wire[c], g, published, MarkOf(c), origin, Loose(c))
      /\ Pipe(c, wire[c], g, Append(published, m), MarkOf(c), origin, Loose(c))
  BY <1>1, PipeResumes
<1>. HIDE DEF g
<1>4. /\ wire' = wire /\ handling'[c] = g /\ handling' \in [Channel -> Seq(Message)]
      /\ \A b \in Channel : b # c => handling'[b] = handling[b]
  BY <1>1, <1>2 DEF Resume, g
<1>5. Pipe(c, wire'[c], handling'[c], published', MarkOf(c)', origin, Loose(c))
  BY <1>1, <1>3, <1>4
<1>6. published' = published \/ \E n \in Message : origin[n] = c
        /\ published' = Append(published, n)
  BY <1>2
<1>7. c = "discord" => Len(handling'[c]) <= 1
  BY <1>2, <1>4 DEF FlowInv
<1>8. (phase' = "on" /\ link'["slack"] = "down") =>
        (phase = "on" /\ link["slack"] = "down" /\ c # "slack")
  <2>. SUFFICES ASSUME c = "slack", link["slack"] = "down" PROVE FALSE
    OBVIOUS
  <2>1. handling[c] = <<>>
    BY DEF FlowInv, SlackWaits
  <2>2. DOMAIN <<>> = {}
    BY EmptySeq
  <2>. QED
    BY <1>1, <2>1, <2>2
<1>9. c \in Repeating => Remembers(c, wire'[c], seen'[c], Mark(seen'[c]), origin, Written)
  BY <1>4 DEF FlowInv
<1>. QED
  BY <1>1, <1>4, <1>5, <1>6, <1>7, <1>8, <1>9, ChannelMoves

\* A frame of the bridge.
LEMMA WhatsAppFlow ==
  ASSUME FlowInv, NEW e, WhatsAppReceives(e), UNCHANGED <<origin, botKnown, phase, link>>
  PROVE  FlowInv'
<1>. DEFINE c == "whatsapp"
<1>1. c \in Channel /\ c \notin Repeating /\ MarkOf(c) = 0 /\ MarkOf(c)' = 0
  BY DEF Channel, Repeating, MarkOf
<1>2. /\ wire[c] \in Seq(Entry) /\ wire[c] # <<>> /\ e = wire[c][1] /\ e \in Entry
      /\ wire' \in [Channel -> Seq(Entry)] /\ wire'[c] = Tail(wire[c])
      /\ \A b \in Channel : b # c => wire'[b] = wire[b]
      /\ WellFormed(c, e) /\ (e.of # 0 => e.of \in Message /\ origin[e.of] = c)
  BY <1>1, TakeFacts DEF WhatsAppReceives
<1>3. /\ handling[c] = <<>> /\ handling \in [Channel -> Seq(Message)] /\ published \in Seq(Message)
      /\ seen \in [Channel -> Seq(Message)] /\ Len(seen[c]) <= SeenCap
      /\ Pipe(c, wire[c], <<>>, published, 0, origin, Loose(c)) /\ Loose(c) \in BOOLEAN
  BY <1>1, FlowFacts DEF FlowInv, FlowTyped
<1>4. Pipe(c, wire'[c], <<>>, published, 0, origin, Loose(c))
  BY <1>2, <1>3, PipeTail
<1>5. UNCHANGED <<handling, seen>>
  BY DEF WhatsAppReceives
<1>6. (phase' = "on" /\ link'["slack"] = "down") =>
        (phase = "on" /\ link["slack"] = "down" /\ c # "slack")
  OBVIOUS
<1>7. CASE published' = published
  BY <1>1, <1>2, <1>3, <1>4, <1>5, <1>6, <1>7, ChannelMoves
<1>8. CASE e.kind = "message" /\ published' = Append(published, e.of)
  <2>1. e.of # 0 /\ e.of \in Message /\ origin[e.of] = c
    BY <1>2, <1>8 DEF WellFormed
  <2>2. Fresh(wire[c][1], 0)
    <3>1. e.of \in Nat
      BY <2>1, MessageFacts
    <3>2. e.of > 0
      BY <2>1, <3>1
    <3>. QED
      BY <1>2, <1>8, <3>2 DEF Fresh
  <2>3. Pipe(c, wire'[c], <<>>, published', 0, origin, Loose(c))
    BY <1>2, <1>3, <1>8, <2>1, <2>2, PipePublishes
  <2>. QED
    BY <1>1, <1>2, <1>3, <1>5, <1>6, <1>8, <2>1, <2>3, ChannelMoves
<1>9. published' = published \/ (e.kind = "message" /\ published' = Append(published, e.of))
  BY DEF WhatsAppReceives, HandleMessage
<1>. QED
  BY <1>7, <1>8, <1>9

\* A message that Feishu or QQ hand over: what is on the wire and what is remembered.
LEMMA RepeatingTakes ==
  ASSUME FlowInv, NEW c \in Repeating, NEW e, Take(c, e)
  PROVE  /\ c \in Channel /\ e.of \in Message /\ e.of # 0 /\ origin[e.of] = c /\ e = wire[c][1]
         /\ Fresh(e, Mark(seen[c])) <=> e.of > Mark(seen[c])
         /\ e.of \in Range(seen[c]) <=> e.of <= Mark(seen[c])
         /\ e.of \in Range(seen[c]) =>
              /\ Pipe(c, Tail(wire[c]), handling[c], published, MarkOf(c), origin, Loose(c))
              /\ Remembers(c, Tail(wire[c]), seen[c], Mark(seen[c]), origin, Written)
         /\ e.of \notin Range(seen[c]) =>
              /\ Pipe(c, Tail(wire[c]), handling[c], published, e.of, origin, Loose(c))
              /\ Remembers(c, Tail(wire[c]), Remember(c, e.of), e.of, origin, Written)
         /\ Remember(c, e.of) \in Seq(Message) /\ Len(Remember(c, e.of)) <= SeenCap
         /\ Mark(Remember(c, e.of)) = e.of
<1>1. c \in Channel /\ c # "email" /\ KindsOf(c) = {"message"} /\ MarkOf(c) = Mark(seen[c])
  BY DEF Channel, Repeating, KindsOf, MarkOf
<1>2. /\ wire[c] \in Seq(Entry) /\ wire[c] # <<>> /\ e = wire[c][1] /\ e \in Entry
      /\ WellFormed(c, e) /\ (e.of # 0 => e.of \in Message /\ origin[e.of] = c)
  BY <1>1, TakeFacts
<1>3. e.kind = "message" /\ e.of # 0 /\ e.of \in Message /\ e.of \in Nat /\ origin[e.of] = c
  <2>1. e.kind = "message" /\ e.of # 0
    BY <1>1, <1>2 DEF WellFormed
  <2>. QED
    BY <1>2, <2>1, EntryFacts
<1>4. /\ seen[c] \in Seq(Message) /\ Len(seen[c]) <= SeenCap /\ MarkOf(c) \in Nat /\ Written \in Nat
      /\ handling[c] \in Seq(Message)
      /\ Pipe(c, wire[c], handling[c], published, MarkOf(c), origin, Loose(c))
      /\ Loose(c) \in BOOLEAN
      /\ Remembers(c, wire[c], seen[c], Mark(seen[c]), origin, Written)
  BY <1>1, FlowFacts DEF FlowInv, FlowTyped
<1>5. Fresh(e, Mark(seen[c])) <=> e.of > Mark(seen[c])
  BY <1>3 DEF Fresh
<1>6. e.of \in Range(seen[c]) => e.of <= Mark(seen[c])
  <2>. SUFFICES ASSUME e.of \in Range(seen[c]) PROVE e.of <= Mark(seen[c])
    OBVIOUS
  <2>1. PICK i \in DOMAIN seen[c] : e.of = seen[c][i]
    BY DEF Range
  <2>. QED
    BY <1>4, <2>1 DEF Remembers
<1>7. e.of <= Mark(seen[c]) => e.of \in Range(seen[c])
  BY <1>2, <1>3, <1>4, StaleSeen
<1>8. Pipe(c, Tail(wire[c]), handling[c], published, MarkOf(c), origin, Loose(c))
  BY <1>2, <1>4, PipeTail
<1>9. ASSUME e.of \in Range(seen[c])
      PROVE  Remembers(c, Tail(wire[c]), seen[c], Mark(seen[c]), origin, Written)
  <2>1. wire[c][1].of <= Mark(seen[c])
    BY <1>2, <1>6, <1>9
  <2>. QED
    BY <1>1, <1>2, <1>4, <2>1, RemembersTail
<1>10. Remember(c, e.of) = Remembered(seen[c], e.of)
  BY DEF Remember, Remembered
<1>11. ASSUME e.of \notin Range(seen[c])
       PROVE  /\ Pipe(c, Tail(wire[c]), handling[c], published, e.of, origin, Loose(c))
              /\ Remembers(c, Tail(wire[c]), Remember(c, e.of), e.of, origin, Written)
  <2>1. e.of > Mark(seen[c]) /\ MarkOf(c) <= e.of
    BY <1>1, <1>3, <1>4, <1>7, <1>11
  <2>2. Tail(wire[c]) \in Seq(Entry)
    BY <1>2, Shrunk
  <2>3. Pipe(c, Tail(wire[c]), handling[c], published, e.of, origin, Loose(c))
    BY <1>3, <1>4, <1>8, <2>1, <2>2, PipeRises
  <2>4. Pipe(c, wire[c], handling[c], published, Mark(seen[c]), origin, Loose(c))
    BY <1>1, <1>4
  <2>5. Remembers(c, Tail(wire[c]), Remembered(seen[c], e.of), e.of, origin, Written)
    BY <1>2, <1>4, <2>1, <2>4, RemembersNext
  <2>. QED
    BY <1>10, <2>3, <2>5
<1>12. /\ Remember(c, e.of) \in Seq(Message) /\ Len(Remember(c, e.of)) <= SeenCap
       /\ Mark(Remember(c, e.of)) = e.of
  BY <1>3, <1>4, <1>10, RememberedFacts
<1>. QED
  BY <1>1, <1>2, <1>3, <1>5, <1>6, <1>7, <1>8, <1>9, <1>11, <1>12

\* A message on QQ, which is handled at once.
LEMMA QQFlow ==
  ASSUME FlowInv, NEW e, QQReceives(e), UNCHANGED <<origin, botKnown, phase, link>>
  PROVE  FlowInv'
<1>. DEFINE c == "qq"
<1>1. c \in Channel /\ c \in Repeating /\ MarkOf(c)' = Mark(seen'[c]) /\ MarkOf(c) = Mark(seen[c])
        /\ MarkOf(c) \in Nat
  <2>1. c \in Channel
    BY DEF Channel
  <2>. QED
    BY <2>1, FlowFacts DEF Repeating, MarkOf
<1>2. Take(c, e) /\ UNCHANGED handling
  BY DEF QQReceives
<1>3. /\ wire[c] \in Seq(Entry) /\ wire[c] # <<>> /\ e = wire[c][1]
      /\ wire' \in [Channel -> Seq(Entry)] /\ wire'[c] = Tail(wire[c])
      /\ \A b \in Channel : b # c => wire'[b] = wire[b]
  BY <1>1, <1>2, TakeFacts
<1>4. /\ handling[c] = <<>> /\ handling \in [Channel -> Seq(Message)] /\ published \in Seq(Message)
      /\ seen \in [Channel -> Seq(Message)] /\ Len(seen[c]) <= SeenCap
      /\ Pipe(c, wire[c], <<>>, published, MarkOf(c), origin, Loose(c)) /\ Loose(c) \in BOOLEAN
  BY <1>1, FlowFacts DEF FlowInv, FlowTyped
<1>5. (phase' = "on" /\ link'["slack"] = "down") =>
        (phase = "on" /\ link["slack"] = "down" /\ c # "slack")
  OBVIOUS
<1>6. /\ e.of \in Message /\ e.of # 0 /\ origin[e.of] = c
      /\ Fresh(e, MarkOf(c)) <=> e.of > MarkOf(c)
      /\ e.of \in Range(seen[c]) <=> e.of <= MarkOf(c)
      /\ e.of \in Range(seen[c]) =>
           /\ Pipe(c, Tail(wire[c]), <<>>, published, MarkOf(c), origin, Loose(c))
           /\ Remembers(c, Tail(wire[c]), seen[c], Mark(seen[c]), origin, Written)
      /\ e.of \notin Range(seen[c]) =>
           /\ Pipe(c, Tail(wire[c]), <<>>, published, e.of, origin, Loose(c))
           /\ Remembers(c, Tail(wire[c]), Remember(c, e.of), e.of, origin, Written)
      /\ Remember(c, e.of) \in Seq(Message) /\ Len(Remember(c, e.of)) <= SeenCap
      /\ Mark(Remember(c, e.of)) = e.of
  BY <1>1, <1>2, <1>4, RepeatingTakes
<1>7. CASE e.of \in Range(seen[c])
  <2>1. UNCHANGED <<seen, published>>
    BY <1>7 DEF QQReceives
  <2>2. Pipe(c, wire'[c], handling'[c], published', MarkOf(c)', origin, Loose(c))
    BY <1>1, <1>2, <1>3, <1>4, <1>6, <1>7, <2>1
  <2>3. Remembers(c, wire'[c], seen'[c], Mark(seen'[c]), origin, Written)
    BY <1>3, <1>6, <1>7, <2>1
  <2>. QED
    BY <1>1, <1>2, <1>3, <1>4, <1>5, <2>1, <2>2, <2>3, ChannelMoves
<1>8. CASE e.of \notin Range(seen[c])
  <2>1. seen' = [seen EXCEPT !["qq"] = Remember("qq", e.of)] /\ HandleMessage(e.of)
    BY <1>8 DEF QQReceives
  <2>2. /\ seen'[c] = Remember(c, e.of) /\ seen' \in [Channel -> Seq(Message)]
        /\ \A b \in Channel : b # c => seen'[b] = seen[b]
    BY <1>1, <1>4, <1>6, <2>1
  <2>3. Remembers(c, wire'[c], seen'[c], Mark(seen'[c]), origin, Written)
    BY <1>3, <1>6, <1>8, <2>2
  <2>4. CASE published' = published
    <3>1. Pipe(c, wire'[c], handling'[c], published', MarkOf(c)', origin, Loose(c))
      BY <1>1, <1>2, <1>3, <1>4, <1>6, <1>8, <2>2, <2>4
    <3>. QED
      BY <1>1, <1>2, <1>3, <1>4, <1>5, <1>6, <2>2, <2>3, <2>4, <3>1, ChannelMoves
  <2>5. CASE published' = Append(published, e.of)
    <3>1. Fresh(wire[c][1], MarkOf(c)) /\ MarkOf(c) <= e.of
      <4>1. e.of \in Nat
        BY <1>6, MessageFacts
      <4>2. e.of > MarkOf(c)
        BY <1>1, <1>6, <1>8, <4>1
      <4>. QED
        BY <1>1, <1>3, <1>6, <4>1, <4>2
    <3>2. Pipe(c, Tail(wire[c]), <<>>, Append(published, wire[c][1].of), MarkOf(c), origin, Loose(c))
      BY <1>1, <1>3, <1>4, <1>6, <3>1, PipePublishes
    <3>3. Pipe(c, wire'[c], <<>>, published', MarkOf(c), origin, Loose(c))
      BY <1>3, <2>5, <3>2
    <3>4. e.of \in Nat /\ wire'[c] \in Seq(Entry)
      BY <1>1, <1>3, <1>6, MessageFacts
    <3>5. Pipe(c, wire'[c], <<>>, published', e.of, origin, Loose(c))
      BY <1>1, <3>1, <3>3, <3>4, PipeRises
    <3>6. Pipe(c, wire'[c], handling'[c], published', MarkOf(c)', origin, Loose(c))
      BY <1>1, <1>2, <1>4, <1>6, <2>2, <3>5
    <3>. QED
      BY <1>1, <1>2, <1>3, <1>4, <1>5, <1>6, <2>2, <2>3, <2>5, <3>6, ChannelMoves
  <2>. QED
    BY <2>1, <2>4, <2>5 DEF HandleMessage
<1>. QED
  BY <1>7, <1>8

\* A message on Feishu, which is remembered before the reaction is awaited.
LEMMA FeishuFlow ==
  ASSUME FlowInv, NEW e, FeishuReceives(e), UNCHANGED <<origin, botKnown, phase, link>>
  PROVE  FlowInv'
<1>. DEFINE c == "feishu"
<1>1. c \in Channel /\ c \in Repeating /\ MarkOf(c)' = Mark(seen'[c]) /\ MarkOf(c) = Mark(seen[c])
        /\ MarkOf(c) \in Nat
  <2>1. c \in Channel
    BY DEF Channel
  <2>. QED
    BY <2>1, FlowFacts DEF Repeating, MarkOf
<1>2. Take(c, e) /\ UNCHANGED published
  BY DEF FeishuReceives
<1>3. /\ wire[c] \in Seq(Entry) /\ wire[c] # <<>> /\ e = wire[c][1]
      /\ wire' \in [Channel -> Seq(Entry)] /\ wire'[c] = Tail(wire[c])
      /\ \A b \in Channel : b # c => wire'[b] = wire[b]
  BY <1>1, <1>2, TakeFacts
<1>4. /\ handling[c] \in Seq(Message) /\ handling \in [Channel -> Seq(Message)]
      /\ published \in Seq(Message)
      /\ seen \in [Channel -> Seq(Message)] /\ Len(seen[c]) <= SeenCap
      /\ Pipe(c, wire[c], handling[c], published, MarkOf(c), origin, Loose(c))
      /\ Loose(c) \in BOOLEAN
  BY <1>1, FlowFacts DEF FlowInv, FlowTyped
<1>5. (phase' = "on" /\ link'["slack"] = "down") =>
        (phase = "on" /\ link["slack"] = "down" /\ c # "slack")
  OBVIOUS
<1>6. /\ e.of \in Message /\ e.of # 0 /\ origin[e.of] = c
      /\ Fresh(e, MarkOf(c)) <=> e.of > MarkOf(c)
      /\ e.of \in Range(seen[c]) <=> e.of <= MarkOf(c)
      /\ e.of \in Range(seen[c]) =>
           /\ Pipe(c, Tail(wire[c]), handling[c], published, MarkOf(c), origin, Loose(c))
           /\ Remembers(c, Tail(wire[c]), seen[c], Mark(seen[c]), origin, Written)
      /\ e.of \notin Range(seen[c]) =>
           /\ Pipe(c, Tail(wire[c]), handling[c], published, e.of, origin, Loose(c))
           /\ Remembers(c, Tail(wire[c]), Remember(c, e.of), e.of, origin, Written)
      /\ Remember(c, e.of) \in Seq(Message) /\ Len(Remember(c, e.of)) <= SeenCap
      /\ Mark(Remember(c, e.of)) = e.of
  BY <1>1, <1>2, RepeatingTakes
<1>7. CASE e.of \in Range(seen[c])
  <2>1. UNCHANGED <<seen, handling>>
    BY <1>7 DEF FeishuReceives
  <2>2. Pipe(c, wire'[c], handling'[c], published', MarkOf(c)', origin, Loose(c))
    BY <1>1, <1>2, <1>3, <1>6, <1>7, <2>1
  <2>3. Remembers(c, wire'[c], seen'[c], Mark(seen'[c]), origin, Written)
    BY <1>3, <1>6, <1>7, <2>1
  <2>. QED
    BY <1>1, <1>2, <1>3, <1>4, <1>5, <2>1, <2>2, <2>3, ChannelMoves
<1>8. CASE e.of \notin Range(seen[c])
  <2>1. seen' = [seen EXCEPT !["feishu"] = Remember("feishu", e.of)]
          /\ (Begin(c, e.of) \/ UNCHANGED handling)
    BY <1>8 DEF FeishuReceives
  <2>2. /\ seen'[c] = Remember(c, e.of) /\ seen' \in [Channel -> Seq(Message)]
        /\ \A b \in Channel : b # c => seen'[b] = seen[b]
    BY <1>1, <1>4, <1>6, <2>1
  <2>3. Remembers(c, wire'[c], seen'[c], Mark(seen'[c]), origin, Written)
    BY <1>3, <1>6, <1>8, <2>2
  <2>4. CASE UNCHANGED handling
    <3>1. Pipe(c, wire'[c], handling'[c], published', MarkOf(c)', origin, Loose(c))
      BY <1>1, <1>2, <1>3, <1>6, <1>8, <2>2, <2>4
    <3>. QED
      BY <1>1, <1>2, <1>3, <1>4, <1>5, <1>6, <2>2, <2>3, <2>4, <3>1, ChannelMoves
  <2>5. CASE Begin(c, e.of)
    <3>. DEFINE g == Append(handling[c], e.of)
    <3>1. g \in Seq(Message)
      BY <1>4, <1>6, Grown
    <3>2. /\ handling'[c] = g /\ handling' \in [Channel -> Seq(Message)]
          /\ \A b \in Channel : b # c => handling'[b] = handling[b]
      <4>. HIDE DEF g
      <4>1. handling' = [handling EXCEPT ![c] = g]
        BY <2>5 DEF Begin, g
      <4>. QED
        BY <1>1, <1>4, <3>1, <4>1
    <3>3. Fresh(wire[c][1], MarkOf(c)) /\ MarkOf(c) <= e.of
      <4>1. e.of \in Nat
        BY <1>6, MessageFacts
      <4>2. e.of > MarkOf(c)
        BY <1>1, <1>6, <1>8, <4>1
      <4>. QED
        BY <1>1, <1>3, <1>6, <4>1, <4>2
    <3>4. Pipe(c, Tail(wire[c]), Append(handling[c], wire[c][1].of), published, MarkOf(c), origin, Loose(c))
      BY <1>1, <1>3, <1>4, <1>6, <3>3, PipeBegins
    <3>5. Pipe(c, wire'[c], g, published, MarkOf(c), origin, Loose(c))
      BY <1>3, <3>4
    <3>6. e.of \in Nat /\ wire'[c] \in Seq(Entry)
      BY <1>1, <1>3, <1>6, MessageFacts
    <3>. HIDE DEF g
    <3>7. Pipe(c, wire'[c], g, published, e.of, origin, Loose(c))
      BY <1>1, <3>3, <3>5, <3>6, PipeRises
    <3>8. Pipe(c, wire'[c], handling'[c], published', MarkOf(c)', origin, Loose(c))
      BY <1>1, <1>2, <1>6, <2>2, <3>2, <3>7
    <3>. QED
      BY <1>1, <1>2, <1>3, <1>4, <1>5, <1>6, <2>2, <2>3, <3>2, <3>8, ChannelMoves
  <2>. QED
    BY <2>1, <2>4, <2>5
<1>. QED
  BY <1>7, <1>8

\* What the event loop does for a channel keeps the flow in order.
LEMMA HandlesFlow ==
  ASSUME FlowInv, NEW c \in Channel, Handles(c)
  PROVE  FlowInv'
<1>1. phase = "on"
        /\ UNCHANGED <<phase, enabled, running, link, botKnown, waOpen, origin, outVars, bounds>>
  BY DEF Handles, Runs
<1>2. CASE Receives(c)
  <2>. DEFINE e == Head(wire[c])
  <2>1. CASE c = "telegram" /\ TelegramReceives(e)
    BY <1>1, <2>1, BeginsFlow DEF TelegramReceives
  <2>2. CASE c = "whatsapp" /\ WhatsAppReceives(e)
    BY <1>1, <2>2, WhatsAppFlow
  <2>3. CASE c = "discord" /\ DiscordReceives(e)
    BY <1>1, <2>3, BeginsFlow DEF DiscordReceives
  <2>4. CASE c = "feishu" /\ FeishuReceives(e)
    BY <1>1, <2>4, FeishuFlow
  <2>5. CASE c = "qq" /\ QQReceives(e)
    BY <1>1, <2>5, QQFlow
  <2>6. CASE c = "slack" /\ SlackReceives(e)
    BY <1>1, <2>6, BeginsFlow DEF SlackReceives
  <2>7. CASE c = "dingtalk" /\ DingTalkReceives(e)
    BY <1>1, <2>7, BeginsFlow DEF DingTalkReceives
  <2>. QED
    BY <1>2, <2>1, <2>2, <2>3, <2>4, <2>5, <2>6, <2>7 DEF Receives
<1>3. CASE Publishes(c)
  <2>1. CASE c = "telegram" /\ TelegramPublishes
    BY <1>1, <2>1, ResumesFlow DEF TelegramPublishes, HandleMessage
  <2>2. CASE c = "discord" /\ DiscordTypes
    BY <1>1, <2>2, FlowStays DEF DiscordTypes
  <2>3. CASE c = "discord" /\ \E i \in DOMAIN handling[c] : DiscordPublishes(i)
    <3>1. PICK i \in DOMAIN handling[c] : DiscordPublishes(i)
      BY <2>3
    <3>2. i = 1
      <4>1. handling[c] \in Seq(Message) /\ Len(handling[c]) <= 1
        BY <2>3, FlowFacts DEF FlowInv
      <4>2. Len(handling[c]) \in Nat /\ i \in 1 .. Len(handling[c])
        BY <4>1, LenProperties
      <4>. QED
        BY <4>1, <4>2
    <3>3. Resume(c, i) /\ UNCHANGED seen /\ published' = Append(published, handling[c][i])
      BY <2>3, <3>1 DEF DiscordPublishes
    <3>. QED
      BY <1>1, <2>3, <3>2, <3>3, ResumesFlow
  <2>4. CASE c = "feishu" /\ \E i \in DOMAIN handling[c] : FeishuPublishes(i)
    <3>1. PICK i \in DOMAIN handling[c] : FeishuPublishes(i)
      BY <2>4
    <3>. QED
      BY <1>1, <2>4, <3>1, ResumesFlow DEF FeishuPublishes, HandleMessage, InOrder
  <2>5. CASE c = "slack" /\ \E i \in DOMAIN handling[c] : SlackPublishes(i)
    <3>1. PICK i \in DOMAIN handling[c] : SlackPublishes(i)
      BY <2>5
    <3>. QED
      BY <1>1, <2>5, <3>1, ResumesFlow DEF SlackPublishes, HandleMessage, InOrder
  <2>6. CASE c = "dingtalk" /\ DingTalkPublishes
    BY <1>1, <2>6, ResumesFlow DEF DingTalkPublishes, HandleMessage
  <2>7. CASE c = "email" /\ EmailPublishes
    BY <1>1, <2>7, ResumesFlow DEF EmailPublishes, HandleMessage
  <2>. QED
    BY <1>3, <2>1, <2>2, <2>3, <2>4, <2>5, <2>6, <2>7 DEF Publishes
<1>. QED
  BY <1>2, <1>3 DEF Handles

-----------------------------------------------------------------------------
(* Channels: the platforms.                                                *)

\* The thread of the email channel has looked at the mailbox.
LEMMA FetchesFlow ==
  ASSUME FlowInv, EmailFetches
  PROVE  FlowInv'
<1>. DEFINE c == "email"
            mail == wire[c]
            after == Fetched(seen[c], mail)
            N == Len(mail)
<1>1. /\ c \in Channel /\ c \notin Repeating /\ MarkOf(c) = 0 /\ MarkOf(c)' = 0
      /\ c \notin {"whatsapp", "qq"}
      /\ c # "discord" /\ c # "slack"
  BY DEF Channel, Repeating, MarkOf
<1>2. UNCHANGED <<origin, botKnown, published, phase>> /\ link'["slack"] = link["slack"]
  BY DEF EmailFetches, Link
<1>3. (phase' = "on" /\ link'["slack"] = "down") =>
        (phase = "on" /\ link["slack"] = "down" /\ c # "slack")
  BY <1>1, <1>2
<1>4. /\ mail \in Seq(Entry) /\ seen[c] \in Uids /\ handling[c] = <<>> /\ published \in Seq(Message)
      /\ Pipe(c, mail, <<>>, published, 0, origin, Loose(c)) /\ Loose(c) \in BOOLEAN
      /\ wire \in [Channel -> Seq(Entry)] /\ handling \in [Channel -> Seq(Message)]
      /\ seen \in [Channel -> Seq(Message)]
  BY <1>1, FlowFacts DEF FlowInv, FlowTyped, Uids, EmailFetches
<1>5. \A i \in DOMAIN mail : mail[i].of # 0
  BY <1>4 DEF Pipe, WellFormed, KindsOf
<1>6. \A k \in 0 .. N : after[k] \in Mailbox /\ Parted(after[k].left, after[k].new, mail, k)
  BY <1>4, <1>5, FetchedSound
<1>7. N \in Nat
  BY <1>4, LenProperties
<1>. HIDE DEF after, N
<1>8. \A k \in 0 .. N :
        /\ after[k].left \in Seq(Entry) /\ after[k].new \in Seq(Message)
        /\ after[k].uids \in Seq(Message) /\ Len(after[k].uids) <= UidCap
  BY <1>6 DEF Mailbox, Uids
<1>9. ASSUME seen' = [seen EXCEPT ![c] = after[N].uids], wire' = [wire EXCEPT ![c] = after[N].left],
             handling' = [handling EXCEPT ![c] = after[N].new]
      PROVE  FlowInv'
  <2>1. N \in 0 .. N
    BY <1>7
  <2>2. Pipe(c, after[N].left, after[N].new, published, 0, origin, Loose(c))
    BY <1>4, <1>6, <1>8, <2>1, PipeFetches DEF N
  <2>3. /\ wire' \in [Channel -> Seq(Entry)] /\ wire'[c] = after[N].left
        /\ handling' \in [Channel -> Seq(Message)] /\ handling'[c] = after[N].new
        /\ seen' \in [Channel -> Seq(Message)] /\ seen'[c] = after[N].uids
        /\ \A b \in Channel : b # c => wire'[b] = wire[b] /\ handling'[b] = handling[b]
             /\ seen'[b] = seen[b]
    BY <1>1, <1>4, <1>8, <1>9, <2>1
  <2>4. Pipe(c, wire'[c], handling'[c], published', MarkOf(c)', origin, Loose(c))
    BY <1>1, <1>2, <2>2, <2>3
  <2>5. Len(seen'[c]) <= IF c = "email" THEN UidCap ELSE SeenCap
    BY <1>8, <2>1, <2>3
  <2>. QED
    BY <1>1, <1>2, <1>3, <2>3, <2>4, <2>5, ChannelMoves
<1>10. ASSUME NEW k \in 0 .. N - 1, NEW n \in 0 .. 1,
              seen' = [seen EXCEPT ![c] = after[k + n].uids],
              wire' = [wire EXCEPT ![c] = after[k].left \o SubSeq(mail, k + 1, N)],
              UNCHANGED handling
       PROVE  FlowInv'
  <2>1. k \in 0 .. N /\ k + n \in 0 .. N
    BY <1>7
  <2>. DEFINE v == after[k].left \o SubSeq(mail, k + 1, N)
  <2>2. Pipe(c, v, <<>>, published, 0, origin, Loose(c))
    BY <1>4, <1>6, <1>8, <2>1, PipeFetches DEF N
  <2>3. v \in Seq(Entry)
    <3>1. SubSeq(mail, k + 1, N) \in Seq(Entry)
      BY <1>4, <2>1, Rest DEF N
    <3>. QED
      BY <1>8, <2>1, <3>1, Joined
  <2>. HIDE DEF v
  <2>4. /\ wire' \in [Channel -> Seq(Entry)] /\ wire'[c] = v
        /\ seen' \in [Channel -> Seq(Message)] /\ seen'[c] = after[k + n].uids
        /\ \A b \in Channel : b # c => wire'[b] = wire[b] /\ handling'[b] = handling[b]
             /\ seen'[b] = seen[b]
    <3>1. wire' = [wire EXCEPT ![c] = v]
      BY <1>10 DEF v
    <3>. QED
      BY <1>1, <1>4, <1>8, <1>10, <2>1, <2>3, <3>1
  <2>5. Pipe(c, wire'[c], handling'[c], published', MarkOf(c)', origin, Loose(c))
    BY <1>1, <1>2, <1>4, <1>10, <2>2, <2>4
  <2>6. Len(seen'[c]) <= IF c = "email" THEN UidCap ELSE SeenCap
    BY <1>8, <2>1, <2>4
  <2>7. handling' \in [Channel -> Seq(Message)]
    BY <1>4, <1>10
  <2>. QED
    BY <1>1, <1>2, <1>3, <2>4, <2>5, <2>6, <2>7, ChannelMoves
<1>11. \/ /\ seen' = [seen EXCEPT ![c] = after[N].uids]
            /\ wire' = [wire EXCEPT ![c] = after[N].left]
          /\ handling' = [handling EXCEPT ![c] = after[N].new]
       \/ \E k \in 0 .. N - 1, n \in 0 .. 1 :
            /\ seen' = [seen EXCEPT ![c] = after[k + n].uids]
            /\ wire' = [wire EXCEPT ![c] = after[k].left \o SubSeq(mail, k + 1, N)]
            /\ UNCHANGED handling
  BY Zenon DEF EmailFetches, after, N
<1>. QED
  BY <1>9, <1>10, <1>11

\* A channel loses its wire or its handlers.
LEMMA LosesFlow ==
  ASSUME FlowInv, NEW c \in Channel, UNCHANGED <<origin, botKnown, published, seen>>,
         (phase' = "on" /\ link'["slack"] = "down") =>
           (phase = "on" /\ link["slack"] = "down" /\ c # "slack"),
         \/ wire' = [wire EXCEPT ![c] = <<>>] /\ UNCHANGED handling /\ c \notin Repeating
         \/ handling' = [handling EXCEPT ![c] = <<>>] /\ UNCHANGED wire
  PROVE  FlowInv'
<1>1. /\ wire \in [Channel -> Seq(Entry)] /\ handling \in [Channel -> Seq(Message)]
      /\ seen \in [Channel -> Seq(Message)]
      /\ Len(seen[c]) <= IF c = "email" THEN UidCap ELSE SeenCap
      /\ Pipe(c, wire[c], handling[c], published, MarkOf(c), origin, Loose(c))
      /\ MarkOf(c)' = MarkOf(c)
  BY DEF FlowInv, FlowTyped, MarkOf
<1>2. <<>> \in Seq(Entry) /\ <<>> \in Seq(Message) /\ Len(<<>>) <= 1
  BY EmptySeq
<1>3. Pipe(c, wire[c], <<>>, published, MarkOf(c), origin, Loose(c))
      /\ Pipe(c, <<>>, handling[c], published, MarkOf(c), origin, Loose(c))
  BY <1>1, PipeStops
<1>4. CASE wire' = [wire EXCEPT ![c] = <<>>] /\ UNCHANGED handling /\ c \notin Repeating
  <2>1. wire' \in [Channel -> Seq(Entry)] /\ wire'[c] = <<>>
          /\ \A b \in Channel : b # c => wire'[b] = wire[b]
    BY <1>1, <1>2, <1>4
  <2>2. Pipe(c, wire'[c], handling'[c], published', MarkOf(c)', origin, Loose(c))
    BY <1>1, <1>3, <1>4, <2>1
  <2>3. (c \in {"whatsapp", "qq"} => handling'[c] = <<>>)
          /\ (c = "discord" => Len(handling'[c]) <= 1)
    BY <1>4 DEF FlowInv
  <2>. QED
    BY <1>1, <1>4, <2>1, <2>2, <2>3, ChannelMoves
<1>5. CASE handling' = [handling EXCEPT ![c] = <<>>] /\ UNCHANGED wire
  <2>1. handling' \in [Channel -> Seq(Message)] /\ handling'[c] = <<>>
          /\ \A b \in Channel : b # c => handling'[b] = handling[b]
    BY <1>1, <1>2, <1>5
  <2>2. Pipe(c, wire'[c], handling'[c], published', MarkOf(c)', origin, Loose(c))
    BY <1>1, <1>3, <1>5, <2>1
  <2>3. c = "discord" => Len(handling'[c]) <= 1
    BY <1>2, <2>1
  <2>4. c \in Repeating => Remembers(c, wire'[c], seen'[c], Mark(seen'[c]), origin, Written)
    BY <1>5 DEF FlowInv
  <2>. QED
    BY <1>1, <1>5, <2>1, <2>2, <2>3, <2>4, ChannelMoves
<1>. QED
  BY <1>4, <1>5

\* A connection breaks.
LEMMA DropsFlow ==
  ASSUME FlowInv, NEW c \in Channel, Drops(c)
  PROVE  FlowInv'
<1>1. /\ UNCHANGED <<origin, botKnown, published, seen, handling, phase>>
      /\ link'["slack"] = link["slack"] /\ c # "slack"
  BY DEF Drops, Link
<1>2. CASE c \in {"whatsapp", "discord"}
  <2>1. wire' = [wire EXCEPT ![c] = <<>>] /\ c \notin Repeating
    BY <1>2 DEF Drops, Repeating
  <2>. QED
    BY <1>1, <2>1, LosesFlow
<1>3. CASE c \notin {"whatsapp", "discord"}
  <2>1. UNCHANGED wire
    BY <1>3 DEF Drops
  <2>. QED
    BY <1>1, <2>1, FlowStays
<1>. QED
  BY <1>2, <1>3

\* The bridge tells the channel of WhatsApp.
LEMMA BridgeFlow ==
  ASSUME FlowInv, BridgeUpdate
  PROVE  FlowInv'
<1>. DEFINE c == "whatsapp"
            e == [of |-> 0, kind |-> IF waOpen THEN "disconnected" ELSE "connected"]
<1>1. UNCHANGED <<origin, botKnown, published, seen, handling, phase, link>> /\ Broadcast(e)
  BY DEF BridgeUpdate
<1>2. CASE link[c] # "up"
  BY <1>1, <1>2, FlowStays DEF Broadcast
<1>3. CASE link[c] = "up"
  <2>1. c \in Channel /\ c \notin Repeating /\ MarkOf(c) = 0 /\ MarkOf(c)' = 0 /\ c # "email"
    BY DEF Channel, Repeating, MarkOf
  <2>2. e \in Entry /\ WellFormed(c, e) /\ e.of = 0 /\ ~Fresh(e, 0)
    <3>1. e.of = 0 /\ e.kind \in {"connected", "disconnected"} /\ 0 \in 0 .. MaxMessages
      BY MessageFacts
    <3>2. e \in Entry
      BY <3>1 DEF Entry, Kind
    <3>. HIDE DEF e
    <3>. QED
      BY <3>1, <3>2 DEF WellFormed, KindsOf, Fresh
  <2>. HIDE DEF e
  <2>3. /\ wire[c] \in Seq(Entry) /\ handling[c] \in Seq(Message) /\ published \in Seq(Message)
        /\ wire \in [Channel -> Seq(Entry)] /\ handling \in [Channel -> Seq(Message)]
        /\ seen \in [Channel -> Seq(Message)] /\ Len(seen[c]) <= SeenCap /\ handling[c] = <<>>
        /\ Pipe(c, wire[c], handling[c], published, 0, origin, Loose(c))
    BY <2>1, FlowFacts DEF FlowInv, FlowTyped
  <2>4. Append(wire[c], e) \in Seq(Entry)
    BY <2>2, <2>3, Grown
  <2>5. /\ wire'[c] = Append(wire[c], e) /\ wire' \in [Channel -> Seq(Entry)]
        /\ \A b \in Channel : b # c => wire'[b] = wire[b]
    BY <1>1, <1>3, <2>1, <2>3, <2>4 DEF Broadcast
  <2>6. Pipe(c, Append(wire[c], e), handling[c], published, 0, origin, Loose(c))
    <3>1. e.of # 0 => origin[e.of] = c
      BY <2>2
    <3>2. Fresh(e, 0) => /\ \A i \in DOMAIN wire[c] : Fresh(wire[c][i], 0) => wire[c][i].of < e.of
                         /\ \A i \in DOMAIN handling[c] : handling[c][i] < e.of
                         /\ \A i \in DOMAIN published : origin[published[i]] = c =>
                              published[i] < e.of
      BY <2>2
    <3>3. 0 \in Nat
      OBVIOUS
    <3>. HIDE DEF c
    <3>. QED
      BY <2>2, <2>3, <3>1, <3>2, <3>3, PipeReceives
  <2>7. Pipe(c, wire'[c], handling'[c], published', MarkOf(c)', origin, Loose(c))
    BY <1>1, <2>1, <2>5, <2>6
  <2>8. (phase' = "on" /\ link'["slack"] = "down") =>
          (phase = "on" /\ link["slack"] = "down" /\ c # "slack")
    BY <1>1
  <2>. QED
    BY <1>1, <2>1, <2>3, <2>5, <2>7, <2>8, ChannelMoves
<1>. QED
  BY <1>2, <1>3

\* Slack connects: nothing has gone through it yet.
LEMMA StartsFlow ==
  ASSUME ConnTyped, FlowInv, Starts
  PROVE  FlowInv'
<1>1. phase = "on" /\ phase' = "on" /\ UNCHANGED <<wire, origin, seen, handling, published>>
  BY DEF Starts, Runs, inVars, TelegramStart, SlackStart, WhatsAppStart, DiscordStart, FeishuStart,
     DingTalkStart,
         QQRunBot, EmailStart, Connect, StartFails, Link
<1>2. CASE UNCHANGED botKnown
  <2>1. link'["slack"] = "down" => link["slack"] = "down"
    <3>1. \E c \in Channel, to \in {"up", "dead"} : Link(c, "down", to)
      BY DEF Channel, Starts, TelegramStart, SlackStart, WhatsAppStart, DiscordStart, FeishuStart,
         DingTalkStart,
             QQRunBot, EmailStart, Connect, StartFails
    <3>2. link \in [Channel -> {"down", "up", "dead"}] /\ "slack" \in Channel
      BY DEF ConnTyped, Channel
    <3>. QED
      BY <3>1, <3>2 DEF Link
  <2>. QED
    BY <1>1, <1>2, <2>1, FlowStays
<1>3. CASE ~UNCHANGED botKnown
  <2>1. Link("slack", "down", "up")
    BY <1>3 DEF Starts, TelegramStart, SlackStart, WhatsAppStart, DiscordStart, FeishuStart,
       DingTalkStart,
           QQRunBot, EmailStart, Connect, StartFails
  <2>2. "slack" \in Channel
    BY DEF Channel
  <2>3. link["slack"] = "down"
    BY <2>1 DEF Link
  <2>4. handling["slack"] = <<>> /\ \A i \in DOMAIN published : origin[published[i]] # "slack"
    BY <1>1, <2>3 DEF FlowInv, SlackWaits
  <2>5. DOMAIN <<>> = {}
    BY EmptySeq
  <2>6. ASSUME NEW b \in Channel
        PROVE  Pipe(b, wire'[b], handling'[b], published', MarkOf(b)', origin', Loose(b)')
    <3>1. MarkOf(b)' = MarkOf(b)
            /\ Pipe(b, wire[b], handling[b], published, MarkOf(b), origin, Loose(b))
      BY <1>1 DEF FlowInv, MarkOf
    <3>2. CASE b = "slack"
      <4>1. Pipe(b, wire[b], <<>>, published, MarkOf(b), origin, Loose(b)')
        BY <2>4, <2>5, <3>1, <3>2 DEF Pipe
      <4>2. handling'[b] = <<>>
        BY <1>1, <2>4, <3>2
      <4>. QED
        BY <1>1, <3>1, <4>1, <4>2
    <3>3. CASE b # "slack"
      <4>1. Loose(b)' = Loose(b)
        BY <3>3 DEF Loose
      <4>. QED
        BY <1>1, <3>1, <4>1
    <3>. QED
      BY <3>2, <3>3
  <2>7. Written' = Written
    BY <1>1 DEF Written
  <2>8. ASSUME NEW b \in Repeating
        PROVE  Remembers(b, wire'[b], seen'[b], Mark(seen'[b]), origin', Written')
    <3>1. Remembers(b, wire[b], seen[b], Mark(seen[b]), origin, Written)
      BY DEF FlowInv
    <3>. QED
      BY <1>1, <2>7, <3>1, Zenon
  <2>9. FlowTyped'
    BY <1>1 DEF FlowInv, FlowTyped
  <2>10. SlackWaits'
    BY <1>1, <2>4 DEF SlackWaits
  <2>. QED
    BY <1>1, <2>6, <2>7, <2>8, <2>9, <2>10 DEF FlowInv
<1>. QED
  BY <1>2, <1>3

\* origin once the next message is written on channel c.
NextOrigin(c) == [origin EXCEPT ![Written + 1] = c]

\* The next message is written on channel c: what was there is as it was.
LEMMA NextMessage ==
  ASSUME FlowInv, Written < MaxMessages, NEW c \in Channel
  PROVE  /\ Written + 1 \in Message /\ origin[Written + 1] = "none"
         /\ NextOrigin(c) \in [Message -> Home] /\ NextOrigin(c)[Written + 1] = c
         /\ \A n \in Message : n # Written + 1 => NextOrigin(c)[n] = origin[n]
         /\ \A b \in Channel : /\ Pipe(b, wire[b], handling[b], published, MarkOf(b), NextOrigin(c), Loose(b))
                               /\ \A i \in DOMAIN wire[b] : wire[b][i].of < Written + 1
                               /\ \A i \in DOMAIN handling[b] : handling[b][i] < Written + 1
         /\ \A i \in DOMAIN published : published[i] < Written + 1
              /\ NextOrigin(c)[published[i]] = origin[published[i]]
<1>1. /\ published \in Seq(Message) /\ origin \in [Message -> Home]
      /\ Written \in Nat /\ Numbered(origin, Written)
  BY FlowFacts
<1>2. Written + 1 \in Message /\ origin[Written + 1] = "none"
  <2>1. Written + 1 \in Message
    BY <1>1, MessageFacts DEF Message
  <2>. QED
    BY <1>1, <2>1 DEF Numbered
<1>3. NextOrigin(c) \in [Message -> Home] /\ NextOrigin(c)[Written + 1] = c
        /\ \A n \in Message : n # Written + 1 => NextOrigin(c)[n] = origin[n]
  BY <1>1, <1>2 DEF Home, NextOrigin
<1>4. \A n \in Message : origin[n] # "none" => n < Written + 1
  BY <1>1, MessageFacts DEF Numbered
<1>5. \A i \in DOMAIN published : published[i] \in Message /\ origin[published[i]] # "none"
  BY <1>1, LenProperties, ElementOfSeq DEF FlowInv
<1>6. \A i \in DOMAIN published : published[i] < Written + 1
        /\ NextOrigin(c)[published[i]] = origin[published[i]]
  BY <1>2, <1>3, <1>4, <1>5
<1>7. ASSUME NEW b \in Channel
      PROVE  /\ Pipe(b, wire[b], handling[b], published, MarkOf(b), NextOrigin(c), Loose(b))
             /\ \A i \in DOMAIN wire[b] : wire[b][i].of < Written + 1
             /\ \A i \in DOMAIN handling[b] : handling[b][i] < Written + 1
  <2>1. /\ wire[b] \in Seq(Entry) /\ handling[b] \in Seq(Message)
        /\ Pipe(b, wire[b], handling[b], published, MarkOf(b), origin, Loose(b)) /\ b # "none"
    BY FlowFacts DEF Channel
  <2>2. Pipe(b, wire[b], handling[b], published, MarkOf(b), NextOrigin(c), Loose(b))
    BY <1>1, <1>2, <1>5, <2>1, PipeWritten DEF NextOrigin
  <2>3. ASSUME NEW i \in DOMAIN wire[b] PROVE wire[b][i].of < Written + 1
    <3>1. wire[b][i] \in Entry
      BY <2>1, LenProperties, ElementOfSeq
    <3>2. wire[b][i].of \in Nat
            /\ (wire[b][i].of # 0 => wire[b][i].of \in Message /\ origin[wire[b][i].of] = b)
      BY <2>1, <3>1, EntryFacts DEF Pipe
    <3>. QED
      BY <1>1, <1>4, <2>1, <3>2
  <2>4. ASSUME NEW i \in DOMAIN handling[b] PROVE handling[b][i] < Written + 1
    <3>1. handling[b][i] \in Message /\ origin[handling[b][i]] = b
      BY <2>1, LenProperties, ElementOfSeq DEF Pipe
    <3>. QED
      BY <1>4, <2>1, <3>1
  <2>. QED
    BY <2>2, <2>3, <2>4
<1>. QED
  BY <1>2, <1>3, <1>6, <1>7

\* An entry of the message that was written last goes to the end of the wire.
LEMMA NextEntry ==
  ASSUME FlowInv, Written < MaxMessages, NEW c \in Channel,
         NEW e \in Entry, WellFormed(c, e), e.of = Written + 1, NEW w \in Seq(Entry),
         Pipe(c, w, handling[c], published, MarkOf(c), NextOrigin(c), Loose(c)),
         Fresh(e, MarkOf(c)) => \A i \in DOMAIN w : Fresh(w[i], MarkOf(c)) => w[i].of < Written + 1
  PROVE  Pipe(c, Append(w, e), handling[c], published, MarkOf(c), NextOrigin(c), Loose(c))
<1>1. handling[c] \in Seq(Message) /\ MarkOf(c) \in Nat /\ published \in Seq(Message)
  BY FlowFacts
<1>2. e.of # 0 => NextOrigin(c)[e.of] = c
  BY NextMessage
<1>3. Fresh(e, MarkOf(c)) =>
        /\ \A i \in DOMAIN w : Fresh(w[i], MarkOf(c)) => w[i].of < e.of
        /\ \A i \in DOMAIN handling[c] : handling[c][i] < e.of
        /\ \A i \in DOMAIN published : NextOrigin(c)[published[i]] = c => published[i] < e.of
  BY NextMessage
<1>. QED
  BY <1>1, <1>2, <1>3, PipeReceives

\* A message was written, and the wire of its channel has its entries or not.
LEMMA WrittenFlow ==
  ASSUME FlowInv, Written < MaxMessages, NEW c \in Channel, origin' = NextOrigin(c),
         UNCHANGED <<seen, handling, published, botKnown, phase, link>>,
         wire' \in [Channel -> Seq(Entry)], \A b \in Channel : b # c => wire'[b] = wire[b],
         Pipe(c, wire'[c], handling[c], published, MarkOf(c), origin', Loose(c)),
         c \in Repeating => \E e \in Entry : e.of = Written + 1 /\ wire'[c] = Append(wire[c], e)
  PROVE  FlowInv'
<1>. DEFINE a == origin'
<1>1. /\ Written + 1 \in Message /\ origin[Written + 1] = "none" /\ a \in [Message -> Home]
      /\ a[Written + 1] = c
      /\ \A n \in Message : n # Written + 1 => a[n] = origin[n]
      /\ \A b \in Channel : Pipe(b, wire[b], handling[b], published, MarkOf(b), a, Loose(b))
      /\ \A i \in DOMAIN published : a[published[i]] = origin[published[i]]
  <2>1. a = NextOrigin(c)
    OBVIOUS
  <2>. HIDE DEF a
  <2>. QED
    BY <2>1, NextMessage
<1>2. Written \in Nat /\ c # "none" /\ origin \in [Message -> Home] /\ Numbered(origin, Written)
  BY FlowFacts DEF Channel
<1>3. {m \in Message : a[m] # "none"} = 1 .. Written + 1
  <2>1. {m \in Message : origin[m] # "none"} = 1 .. Written
    BY DEF FlowInv
  <2>2. \A m \in Message : a[m] # "none" <=> m \in 1 .. Written \/ m = Written + 1
    BY <1>1, <1>2, <2>1
  <2>3. \A m : m \in 1 .. Written => m \in Message
    BY <2>1
  <2>4. 1 .. Written + 1 = (1 .. Written) \cup {Written + 1}
    BY <1>2
  <2>. HIDE DEF a
  <2>. QED
    BY <1>1, <2>2, <2>3, <2>4
<1>4. Written' = Written + 1
  <2>1. Cardinality(1 .. Written + 1) = Written + 1
    BY <1>2, FS_Interval
  <2>2. Written' = Cardinality({m \in Message : a[m] # "none"})
    BY DEF Written
  <2>. QED
    BY <1>3, <2>1, <2>2
<1>5. \A b \in Channel : MarkOf(b)' = MarkOf(b) /\ Loose(b)' = Loose(b)
  BY DEF MarkOf, Loose, TwinsPass
<1>6. FlowTyped'
  BY <1>1 DEF FlowInv, FlowTyped, Home
<1>7. SlackWaits'
  <2>1. SlackWaits
    BY DEF FlowInv
  <2>. QED
    BY <1>1, <2>1 DEF SlackWaits
<1>8. ASSUME NEW b \in Channel
      PROVE  Pipe(b, wire'[b], handling'[b], published', MarkOf(b)', origin', Loose(b)')
  <2>1. Pipe(b, wire'[b], handling[b], published, MarkOf(b), a, Loose(b))
    <3>1. CASE b = c
      BY <3>1
    <3>2. CASE b # c
      BY <1>1, <3>2
    <3>. QED
      BY <3>1, <3>2
  <2>2. handling'[b] = handling[b] /\ published' = published
    OBVIOUS
  <2>. QED
    BY <1>5, <2>1, <2>2
<1>9. ASSUME NEW b \in Repeating
      PROVE  Remembers(b, wire'[b], seen'[b], Mark(seen'[b]), origin', Written')
  <2>1. b \in Channel
    BY DEF Repeating, Channel
  <2>2. /\ wire[b] \in Seq(Entry) /\ seen[b] \in Seq(Message)
        /\ Remembers(b, wire[b], seen[b], Mark(seen[b]), origin, Written)
        /\ Pipe(b, wire[b], handling[b], published, MarkOf(b), origin, Loose(b))
    BY <2>1, FlowFacts DEF FlowInv
  <2>3. \A i \in DOMAIN wire[b] : wire[b][i].of # 0 => origin[wire[b][i].of] = b
    BY <2>2 DEF Pipe
  <2>4. PICK e \in Entry : e.of = Written + 1 /\ (b = c => wire'[c] = Append(wire[c], e))
    <3>1. CASE b = c
      BY <3>1
    <3>2. CASE b # c
      <4>. DEFINE x == [of |-> Written + 1, kind |-> "message"]
      <4>1. x \in Entry
        BY <1>1, MessageFacts DEF Entry, Kind, Message
      <4>. QED
        BY <3>2, <4>1
    <3>. QED
      BY <3>1, <3>2
  <2>5. /\ c # b => Remembers(b, wire[b], seen[b], Mark(seen[b]), a, Written + 1)
        /\ c = b => Remembers(b, Append(wire[b], e), seen[b], Mark(seen[b]), a, Written + 1)
    <3>1. /\ c # b => Remembers(b, wire[b], seen[b], Mark(seen[b]), NextOrigin(c), Written + 1)
          /\ c = b =>
               Remembers(b, Append(wire[b], e), seen[b], Mark(seen[b]), NextOrigin(c), Written + 1)
      <4>1. Written + 1 \in Message /\ e.of = Written + 1
        BY <1>1, <2>4
      <4>. QED
        BY <1>2, <2>1, <2>2, <2>3, <4>1, RemembersWritten DEF NextOrigin
    <3>. QED
      BY <3>1
  <2>6. Remembers(b, wire'[b], seen[b], Mark(seen[b]), a, Written + 1)
    BY <2>1, <2>4, <2>5
  <2>7. seen'[b] = seen[b]
    OBVIOUS
  <2>. QED
    BY <1>4, <2>6, <2>7, Zenon
<1>10. (\A i \in DOMAIN published : origin[published[i]] # "none")'
  BY <1>1 DEF FlowInv
<1>. QED
  BY <1>3, <1>4, <1>6, <1>7, <1>8, <1>9, <1>10 DEF FlowInv

\* One entry and two entries at the end of a wire.
LEMMA Appended ==
  ASSUME NEW S, NEW s \in Seq(S), NEW d \in S, NEW e \in S
  PROVE  s \o <<e>> = Append(s, e) /\ s \o (<<d>> \o <<e>>) = Append(Append(s, d), e)
<1>1. s \o <<e>> = Append(s, e) /\ s \o <<d>> = Append(s, d)
  BY AppendIsConcat
<1>2. Append(s, d) \in Seq(S)
  BY AppendProperties
<1>3. Append(s, d) \o <<e>> = Append(Append(s, d), e)
  BY <1>2, AppendIsConcat
<1>4. <<d>> \in Seq(S) /\ <<e>> \in Seq(S)
  OBVIOUS
<1>5. (s \o <<d>>) \o <<e>> = s \o (<<d>> \o <<e>>)
  BY <1>4, ConcatAssociative
<1>. QED
  BY <1>1, <1>3, <1>5

\* A user writes.
LEMMA WritesFlow ==
  ASSUME FlowInv, NEW c \in Channel, Writes(c)
  PROVE  FlowInv'
<1>. DEFINE m == Written + 1
            x(kind) == [of |-> m, kind |-> kind]
            w == wire[c]
            a == NextOrigin(c)
<1>1. /\ Written < MaxMessages /\ origin' = a
      /\ UNCHANGED <<seen, handling, published, botKnown, phase, link>>
  BY DEF Writes, connVars, NextOrigin
<1>2. /\ w \in Seq(Entry) /\ wire \in [Channel -> Seq(Entry)]
      /\ m \in Message /\ m # 0
      /\ Pipe(c, w, handling[c], published, MarkOf(c), a, Loose(c))
      /\ \A i \in DOMAIN w : w[i].of < m
  BY <1>1, FlowFacts, NextMessage, MessageFacts DEF FlowInv, FlowTyped
<1>3. ASSUME NEW kind \in {"message", "mention", "twin"}
      PROVE  x(kind) \in Entry /\ x(kind).of = m /\ x(kind).kind = kind
  BY <1>2, MessageFacts DEF Entry, Kind, Message
<1>4. ASSUME NEW kind \in {"message", "mention", "twin"}, kind # "message" => c = "slack"
      PROVE  WellFormed(c, x(kind))
  BY <1>2, <1>3, <1>4 DEF WellFormed, KindsOf
<1>5. wire' = wire => c \in {"whatsapp", "discord"}
  <2>. SUFFICES ASSUME wire' = wire, c \notin {"whatsapp", "discord"} PROVE FALSE
    OBVIOUS
  <2>1. Len(w) \in Nat
    BY <1>2, LenProperties
  <2>2. CASE c = "slack"
    <3>1. \E es \in {<<x("message")>>, <<x("twin")>> \o <<x("mention")>>, <<x("mention")>> \o <<x("twin")>>} :
            wire' = [wire EXCEPT ![c] = @ \o es]
      BY <2>2 DEF Writes
    <3>2. wire'[c] \in {w \o <<x("message")>>, w \o (<<x("twin")>> \o <<x("mention")>>), w \o (<<x("mention")>> \o <<x("twin")>>)}
      BY <1>2, <3>1
    <3>3. wire'[c] \in {Append(w, x("message")), Append(Append(w, x("twin")), x("mention")), Append(Append(w, x("mention")), x("twin"))}
      BY <1>2, <1>3, <3>2, Appended
    <3>. HIDE DEF x, w
    <3>4. \A d, e \in Entry : Len(Append(w, e)) = Len(w) + 1
            /\ Len(Append(Append(w, d), e)) = Len(w) + 2
      <4>. SUFFICES ASSUME NEW d \in Entry, NEW e \in Entry
                    PROVE  Len(Append(w, e)) = Len(w) + 1
                             /\ Len(Append(Append(w, d), e)) = Len(w) + 2
        OBVIOUS
      <4>1. Append(w, d) \in Seq(Entry) /\ Len(Append(w, d)) = Len(w) + 1
              /\ Len(Append(w, e)) = Len(w) + 1
        BY <1>2, Grown
      <4>2. Len(Append(Append(w, d), e)) = Len(Append(w, d)) + 1
        BY <4>1, Grown
      <4>. QED
        BY <2>1, <4>1, <4>2
    <3>5. Len(wire'[c]) # Len(w)
      BY <1>3, <2>1, <3>3, <3>4
    <3>. QED
      BY <3>5 DEF w
  <2>3. CASE c # "slack"
    <3>1. wire' = [wire EXCEPT ![c] = @ \o <<x("message")>>]
      BY <2>3 DEF Writes
    <3>2. wire'[c] = w \o <<x("message")>>
      BY <1>2, <3>1
    <3>3. wire'[c] = Append(w, x("message"))
      BY <1>2, <1>3, <3>2, Appended
    <3>. HIDE DEF x, w
    <3>4. Len(wire'[c]) = Len(w) + 1
      BY <1>2, <1>3, <3>3, Grown
    <3>. QED
      BY <2>1, <3>4 DEF w
  <2>. QED
    BY <2>2, <2>3
<1>6. CASE wire' = wire
  <2>1. c \notin Repeating
    BY <1>5, <1>6 DEF Repeating
  <2>. QED
    BY <1>1, <1>2, <1>6, <2>1, WrittenFlow
<1>7. ASSUME NEW v \in Seq(Entry), wire' = [wire EXCEPT ![c] = v],
             Pipe(c, v, handling[c], published, MarkOf(c), a, Loose(c)),
             c \in Repeating => v = Append(w, x("message"))
      PROVE  FlowInv'
  <2>1. wire' \in [Channel -> Seq(Entry)] /\ wire'[c] = v
          /\ \A b \in Channel : b # c => wire'[b] = wire[b]
    BY <1>2, <1>7
  <2>2. Pipe(c, wire'[c], handling[c], published, MarkOf(c), origin', Loose(c))
    BY <1>1, <1>7, <2>1
  <2>3. c \in Repeating => \E e \in Entry : e.of = Written + 1 /\ wire'[c] = Append(wire[c], e)
    BY <1>3, <1>7, <2>1
  <2>. QED
    BY <1>1, <2>1, <2>2, <2>3, WrittenFlow
<1>8. ASSUME NEW kind \in {"message", "mention", "twin"}, kind # "message" => c = "slack"
      PROVE  Append(w, x(kind)) \in Seq(Entry)
               /\ Pipe(c, Append(w, x(kind)), handling[c], published, MarkOf(c), a, Loose(c))
  <2>. DEFINE e == x(kind)
  <2>1. e \in Entry /\ e.of = m /\ WellFormed(c, e)
    BY <1>3, <1>4, <1>8
  <2>. HIDE DEF e
  <2>2. Append(w, e) \in Seq(Entry)
    BY <1>2, <2>1, Grown
  <2>3. Pipe(c, Append(w, e), handling[c], published, MarkOf(c), a, Loose(c))
    <3>1. Fresh(e, MarkOf(c)) => \A i \in DOMAIN w : Fresh(w[i], MarkOf(c)) => w[i].of < Written + 1
      BY <1>2
    <3>. QED
      BY <1>1, <1>2, <2>1, <3>1, NextEntry
  <2>. QED
    BY <2>2, <2>3 DEF e
<1>9. CASE wire' = [wire EXCEPT ![c] = @ \o <<x("message")>>]
  <2>1. wire' = [wire EXCEPT ![c] = Append(w, x("message"))]
    BY <1>2, <1>3, <1>9, Appended
  <2>2. Append(w, x("message")) \in Seq(Entry)
        /\ Pipe(c, Append(w, x("message")), handling[c], published, MarkOf(c), a, Loose(c))
    BY <1>8
  <2>. QED
    BY <1>7, <2>1, <2>2
<1>10. ASSUME c = "slack", NEW k \in {"mention", "twin"}, NEW l \in {"mention", "twin"}, k # l,
              wire' = [wire EXCEPT ![c] = @ \o (<<x(k)>> \o <<x(l)>>)]
       PROVE  FlowInv'
  <2>. DEFINE d == x(k)
              e == x(l)
              v == Append(w, d)
  <2>1. /\ d \in Entry /\ e \in Entry /\ WellFormed(c, e) /\ d.of = m /\ e.of = m /\ d.kind = k
        /\ e.kind = l
        /\ v \in Seq(Entry) /\ Pipe(c, v, handling[c], published, MarkOf(c), a, Loose(c))
    BY <1>3, <1>4, <1>8, <1>10
  <2>2. wire' = [wire EXCEPT ![c] = Append(v, e)]
    <3>1. wire' = [wire EXCEPT ![c] = w \o (<<d>> \o <<e>>)]
      BY <1>10
    <3>. HIDE DEF d, e, w, a
    <3>2. w \o (<<d>> \o <<e>>) = Append(v, e)
      BY <1>2, <2>1, Appended
    <3>. QED
      BY <3>1, <3>2
  <2>3. /\ Len(w) \in Nat /\ DOMAIN v = 1 .. Len(w) + 1 /\ DOMAIN w = 1 .. Len(w)
        /\ \A i \in DOMAIN w : v[i] = w[i]
        /\ v[Len(w) + 1] = d
    BY <1>2, <2>1, Grown
  <2>. HIDE DEF d, e, v
  <2>4. Append(v, e) \in Seq(Entry)
    BY <2>1, Grown
  <2>5. Fresh(e, MarkOf(c)) => \A i \in DOMAIN v : Fresh(v[i], MarkOf(c)) => v[i].of < Written + 1
    <3>. SUFFICES ASSUME e.kind # "twin", NEW i \in DOMAIN v, v[i].kind # "twin"
                  PROVE  v[i].of < Written + 1
      BY DEF Fresh
    <3>1. d.kind = "twin"
      BY <1>10, <2>1
    <3>2. i # Len(w) + 1
      BY <2>3, <3>1
    <3>3. i \in DOMAIN w
      BY <2>3, <3>2
    <3>. QED
      BY <1>2, <2>3, <3>3
  <2>6. Pipe(c, Append(v, e), handling[c], published, MarkOf(c), a, Loose(c))
    BY <1>1, <2>1, <2>5, NextEntry
  <2>7. c \notin Repeating
    BY <1>10 DEF Repeating
  <2>. QED
    BY <1>7, <2>2, <2>4, <2>6, <2>7
<1>11. \/ wire' = wire
       \/ wire' = [wire EXCEPT ![c] = @ \o <<x("message")>>]
       \/ c = "slack" /\ wire' = [wire EXCEPT ![c] = @ \o (<<x("twin")>> \o <<x("mention")>>)]
       \/ c = "slack" /\ wire' = [wire EXCEPT ![c] = @ \o (<<x("mention")>> \o <<x("twin")>>)]
  <2>1. CASE c = "whatsapp"
    <3>1. Broadcast(Head(<<x("message")>>))
      BY <2>1 DEF Writes
    <3>2. Head(<<x("message")>>) = x("message")
      OBVIOUS
    <3>3. wire' = wire \/ wire' = [wire EXCEPT ![c] = Append(@, x("message"))]
      BY <2>1, <3>1, <3>2 DEF Broadcast
    <3>4. Append(w, x("message")) = w \o <<x("message")>>
      BY <1>2, <1>3, Appended
    <3>. QED
      BY <3>3, <3>4
  <2>2. CASE c = "slack"
    BY <2>2 DEF Writes
  <2>3. CASE c \notin {"whatsapp", "slack"}
    BY <2>3 DEF Writes
  <2>. QED
    BY <2>1, <2>2, <2>3
<1>. QED
  BY <1>6, <1>9, <1>10, <1>11

\* Feishu or QQ hand a message over again.
LEMMA RepeatsFlow ==
  ASSUME FlowInv, NEW c \in Channel, NEW m \in Message, Repeats(c, m)
  PROVE  FlowInv'
<1>. DEFINE e == [of |-> m, kind |-> "message"]
<1>1. /\ c \in Repeating /\ origin[m] = c /\ e \notin Range(wire[c])
      /\ Cardinality({n \in Message : n > m /\ origin[n] = c}) < SeenCap
      /\ wire' = [wire EXCEPT ![c] = Append(@, e)]
      /\ UNCHANGED <<origin, botKnown, seen, handling, published, phase, link>>
  BY DEF Repeats, connVars, Repeating
<1>2. c # "slack" /\ c # "email" /\ c # "discord" /\ MarkOf(c) = Mark(seen[c])
        /\ MarkOf(c)' = MarkOf(c)
  BY <1>1 DEF Repeating, MarkOf
<1>3. /\ wire[c] \in Seq(Entry) /\ handling[c] \in Seq(Message) /\ published \in Seq(Message)
      /\ seen[c] \in Seq(Message)
      /\ wire \in [Channel -> Seq(Entry)] /\ handling \in [Channel -> Seq(Message)]
      /\ seen \in [Channel -> Seq(Message)] /\ Len(seen[c]) <= SeenCap
      /\ Pipe(c, wire[c], handling[c], published, MarkOf(c), origin, Loose(c)) /\ MarkOf(c) \in Nat
      /\ Remembers(c, wire[c], seen[c], Mark(seen[c]), origin, Written)
      /\ Written \in Nat /\ Numbered(origin, Written)
      /\ c \in {"whatsapp", "qq"} => handling[c] = <<>>
  BY <1>1, <1>2, FlowFacts DEF FlowInv, FlowTyped
<1>4. m <= Mark(seen[c])
        /\ Remembers(c, Append(wire[c], e), seen[c], Mark(seen[c]), origin, Written)
  <2>1. Pipe(c, wire[c], handling[c], published, Mark(seen[c]), origin, Loose(c))
    BY <1>2, <1>3
  <2>2. [of |-> m, kind |-> "message"] \notin Range(wire[c])
    BY <1>1
  <2>. HIDE DEF e
  <2>3. m <= Mark(seen[c])
          /\ Remembers(c, Append(wire[c], [of |-> m, kind |-> "message"]), seen[c], Mark(seen[c]), origin, Written)
    BY <1>1, <1>3, <2>1, <2>2, RemembersRepeats
  <2>. QED
    BY <2>3 DEF e
<1>5. e \in Entry /\ WellFormed(c, e) /\ e.of = m /\ ~Fresh(e, MarkOf(c))
        /\ (e.of # 0 => origin[e.of] = c)
  <2>1. m \in Nat /\ m # 0 /\ m \in 0 .. MaxMessages
    BY MessageFacts DEF Message
  <2>2. e \in Entry /\ e.of = m /\ e.kind = "message"
    BY <2>1 DEF Entry, Kind
  <2>3. KindsOf(c) = {"message"}
    BY <1>1 DEF Repeating, KindsOf
  <2>4. WellFormed(c, e)
    BY <2>1, <2>2, <2>3 DEF WellFormed
  <2>5. ~Fresh(e, MarkOf(c))
    BY <1>2, <1>3, <1>4, <2>1, <2>2 DEF Fresh
  <2>. QED
    BY <1>1, <2>2, <2>4, <2>5
<1>. HIDE DEF e
<1>6. Pipe(c, Append(wire[c], e), handling[c], published, MarkOf(c), origin, Loose(c))
  <2>1. Fresh(e, MarkOf(c)) =>
          /\ \A i \in DOMAIN wire[c] : Fresh(wire[c][i], MarkOf(c)) => wire[c][i].of < e.of
          /\ \A i \in DOMAIN handling[c] : handling[c][i] < e.of
          /\ \A i \in DOMAIN published : origin[published[i]] = c => published[i] < e.of
    BY <1>5
  <2>. QED
    BY <1>3, <1>5, <2>1, PipeReceives
<1>7. Append(wire[c], e) \in Seq(Entry)
  BY <1>3, <1>5, Grown
<1>8. /\ wire' \in [Channel -> Seq(Entry)] /\ wire'[c] = Append(wire[c], e)
      /\ \A b \in Channel : b # c => wire'[b] = wire[b]
  BY <1>1, <1>3, <1>7
<1>9. Pipe(c, wire'[c], handling'[c], published', MarkOf(c)', origin, Loose(c))
  BY <1>1, <1>2, <1>6, <1>8
<1>10. Remembers(c, wire'[c], seen'[c], Mark(seen'[c]), origin, Written)
  BY <1>1, <1>4, <1>8
<1>11. (phase' = "on" /\ link'["slack"] = "down") =>
         (phase = "on" /\ link["slack"] = "down" /\ c # "slack")
  BY <1>1, <1>2
<1>. QED
  BY <1>1, <1>2, <1>3, <1>8, <1>9, <1>10, <1>11, ChannelMoves

-----------------------------------------------------------------------------
(* Channels: every step.                                                   *)

\* The inbound queue keeps what it has.
LEMMA PublishedGrows ==
  ASSUME NEW p \in Seq(Message), NEW q, q = p \/ \E m : q = Append(p, m)
  PROVE  Len(p) \in Nat /\ Len(p) <= Len(q) /\ \A k \in 1 .. Len(p) : q[k] = p[k]
<1>1. Len(p) \in Nat /\ DOMAIN p = 1 .. Len(p)
  BY LenProperties
<1>2. CASE q = p
  BY <1>1, <1>2
<1>3. CASE \E m : q = Append(p, m)
  <2>1. PICK m : q = Append(p, m)
    BY <1>3
  <2>. DEFINE S == Message \cup {m}
  <2>2. p \in Seq(S) /\ m \in S
    <3>1. \A i \in 1 .. Len(p) : p[i] \in S
      BY LenProperties, ElementOfSeq
    <3>2. p = [i \in 1 .. Len(p) |-> p[i]]
      BY <1>1, LenProperties
    <3>3. p \in [1 .. Len(p) -> S]
      BY <3>1, <3>2
    <3>. HIDE DEF S
    <3>4. p \in Seq(S)
      BY <1>1, <3>3, FunctionIsSeq
    <3>. QED
      BY <3>4 DEF S
  <2>. HIDE DEF S
  <2>3. Len(Append(p, m)) = Len(p) + 1 /\ \A i \in DOMAIN p : Append(p, m)[i] = p[i]
    BY <2>2, Grown
  <2>. DEFINE u == Append(p, m)
  <2>. HIDE DEF u
  <2>4. q = u /\ Len(u) = Len(p) + 1 /\ \A k \in 1 .. Len(p) : u[k] = p[k]
    BY <1>1, <2>1, <2>3 DEF u
  <2>5. Len(p) <= Len(p) + 1
    BY <1>1
  <2>. QED
    BY <1>1, <2>4, <2>5
<1>. QED
  BY <1>2, <1>3

\* The answers, while nothing happens but that a message is published.
LEMMA ReplyStays ==
  ASSUME FlowInv, ReplyInv, UNCHANGED <<turns, outbox, sending, delivered, ended>>,
         published' = published \/ \E m : published' = Append(published, m), FlowInv'
  PROVE  ReplyInv'
<1>1. published \in Seq(Message) /\ published' \in Seq(Message)
  BY DEF FlowInv, FlowTyped
<1>. DEFINE q == published'
<1>2. Len(published) \in Nat /\ Len(published) <= Len(q)
        /\ (\A k \in 1 .. Len(published) : q[k] = published[k]) /\ Len(q) \in Nat
  <2>1. q \in Seq(Message) /\ (q = published \/ \E m : q = Append(published, m))
    BY <1>1
  <2>. HIDE DEF q
  <2>. QED
    BY <1>1, <2>1, PublishedGrows, LenProperties
<1>. HIDE DEF q
<1>3. turns \in Nat /\ turns <= Len(published) /\ turns \in 0 .. Len(q)
        /\ \A k \in 1 .. turns : q[k] = published[k]
  BY <1>2 DEF ReplyInv
<1>4. Replies(delivered, sending, outbox, q, turns)
  BY <1>3, RepliesGrow DEF ReplyInv
<1>. QED
  BY <1>3, <1>4 DEF ReplyInv, q

\* A handler publishes one message at most.
LEMMA HandlesPublishes ==
  ASSUME NEW c \in Channel, Handles(c)
  PROVE  published' = published \/ \E m : published' = Append(published, m)
<1>1. CASE Receives(c)
  <2>. DEFINE e == Head(wire[c])
  <2>1. CASE TelegramReceives(e) \/ DiscordReceives(e) \/ FeishuReceives(e) \/ SlackReceives(e)
          \/ DingTalkReceives(e)
    BY <2>1 DEF TelegramReceives, DiscordReceives, FeishuReceives, SlackReceives, DingTalkReceives
  <2>2. CASE WhatsAppReceives(e) \/ QQReceives(e)
    BY <2>2 DEF WhatsAppReceives, QQReceives, HandleMessage
  <2>. QED
    BY <1>1, <2>1, <2>2 DEF Receives
<1>2. CASE Publishes(c)
  BY <1>2 DEF Publishes, TelegramPublishes, DiscordTypes, DiscordPublishes, FeishuPublishes,
     SlackPublishes,
              DingTalkPublishes, EmailPublishes, HandleMessage
<1>. QED
  BY <1>1, <1>2 DEF Handles

\* The connections and indicators after a step of a handler.
LEMMA HandlesTyped ==
  ASSUME ConnTyped, FlowInv, NEW c \in Channel, Handles(c)
  PROVE  ConnTyped'
<1>1. /\ UNCHANGED <<phase, enabled, running, link, botKnown, waOpen, tries>>
  BY DEF Handles, outVars
<1>2. connected' \in BOOLEAN
  BY DEF ConnTyped, Handles, Receives, Publishes, TelegramReceives, WhatsAppReceives,
     DiscordReceives, FeishuReceives, QQReceives,
         SlackReceives, DingTalkReceives, TelegramPublishes, DiscordTypes, DiscordPublishes, FeishuPublishes,
         SlackPublishes, DingTalkPublishes, EmailPublishes
<1>3. typed' \in BOOLEAN
  BY DEF ConnTyped, Handles, Receives, Publishes, TelegramReceives, WhatsAppReceives,
     DiscordReceives, FeishuReceives, QQReceives,
         SlackReceives, DingTalkReceives, TelegramPublishes, DiscordTypes, DiscordPublishes, FeishuPublishes,
         SlackPublishes, DingTalkPublishes, EmailPublishes
<1>4. \/ typing' = typing
      \/ DOMAIN handling["telegram"] # {} /\ 1 \in DOMAIN handling["telegram"]
           /\ typing' = [typing EXCEPT !["telegram"] = handling["telegram"][1]]
      \/ handling["discord"] # <<>>
           /\ typing' = [typing EXCEPT !["discord"] = handling["discord"][1]]
  BY DEF Handles, Receives, Publishes, TelegramReceives, WhatsAppReceives, DiscordReceives,
     FeishuReceives, QQReceives,
         SlackReceives, DingTalkReceives, TelegramPublishes, DiscordTypes, DiscordPublishes, FeishuPublishes,
         SlackPublishes, DingTalkPublishes, EmailPublishes, Resume
<1>5. \A b \in Channel : handling[b] # <<>> => handling[b][1] \in Message
  <2>. SUFFICES ASSUME NEW b \in Channel, handling[b] # <<>> PROVE handling[b][1] \in Message
    OBVIOUS
  <2>1. handling[b] \in Seq(Message)
    BY FlowFacts
  <2>. QED
    BY <2>1, Shrunk
<1>6. 1 \in DOMAIN handling["telegram"] => handling["telegram"] # <<>>
  <2>1. DOMAIN <<>> = {}
    BY EmptySeq
  <2>. QED
    BY <2>1
<1>7. typing' \in [Typer -> 0 .. MaxMessages]
  <2>1. {"telegram", "discord"} \subseteq Channel /\ Message \subseteq 0 .. MaxMessages
    BY MessageFacts DEF Channel, Message
  <2>2. typing \in [Typer -> 0 .. MaxMessages]
    BY DEF ConnTyped
  <2>. QED
    BY <1>4, <1>5, <1>6, <2>1, <2>2
<1>. QED
  BY <1>1, <1>2, <1>3, <1>7 DEF ConnTyped

\* An indicator stops.
LEMMA StopTypingTyped ==
  ASSUME ConnTyped, NEW c, StopTyping(c)
  PROVE  typing' \in [Typer -> 0 .. MaxMessages]
<1>1. typing \in [Typer -> 0 .. MaxMessages] /\ 0 \in 0 .. MaxMessages
  BY MessageFacts DEF ConnTyped
<1>. QED
  BY <1>1 DEF StopTyping

\* A connection changes.
LEMMA LinkTyped ==
  ASSUME ConnTyped, NEW c \in Channel, NEW from, NEW to \in {"down", "up", "dead"},
         Link(c, from, to)
  PROVE  link' \in [Channel -> {"down", "up", "dead"}] /\ UNCHANGED <<phase, enabled, running>>
BY DEF ConnTyped, Link

\* A channel starts.
LEMMA StartsTyped ==
  ASSUME ConnTyped, Starts
  PROVE  ConnTyped'
<1>1. \E c \in Channel, to \in {"up", "dead"} : Link(c, "down", to)
  BY DEF Channel, Starts, TelegramStart, SlackStart, WhatsAppStart, DiscordStart, FeishuStart,
     DingTalkStart,
         QQRunBot, EmailStart, Connect, StartFails
<1>2. link' \in [Channel -> {"down", "up", "dead"}] /\ UNCHANGED <<phase, enabled, running>>
  BY <1>1, LinkTyped
<1>3. waOpen' = waOpen /\ botKnown' \in BOOLEAN /\ connected' \in BOOLEAN
  BY DEF ConnTyped, Starts, TelegramStart, SlackStart, WhatsAppStart, DiscordStart, FeishuStart,
     DingTalkStart,
         QQRunBot, EmailStart, Connect, StartFails
<1>4. UNCHANGED <<typed, typing, tries>>
  BY DEF Starts, inVars, outVars
<1>. QED
  BY <1>2, <1>3, <1>4 DEF ConnTyped

\* What is said of the answers when the flow of messages stays as it is.
LEMMA AnswersStep ==
  ASSUME ConnTyped, FlowInv, ReplyInv, FlowInv',
         Turn \/ Dispatch \/ Sends \/ StopAll
           \/ \E c \in Channel \cup {"unknown"} : PublishOutbound(c)
  PROVE  ConnTyped' /\ ReplyInv'
<1>1. /\ published \in Seq(Message) /\ Len(published) \in Nat /\ origin \in [Message -> Home]
      /\ turns \in Nat /\ turns <= Len(published) /\ outbox \in Seq(Reply)
      /\ sending \in Seq(Reply) /\ Len(sending) <= 1
      /\ delivered \in Seq(Reply) /\ ended \subseteq 0 .. MaxMessages
      /\ Replies(delivered, sending, outbox, published, turns)
  BY FlowFacts, LenProperties DEF ReplyInv
<1>2. CASE Turn
  <2>. DEFINE m == published[turns + 1]
              r == [to |-> origin[m], of |-> m]
  <2>1. /\ turns < Len(published) /\ turns' = turns + 1 /\ outbox' = Append(outbox, r)
        /\ UNCHANGED <<sending, delivered, ended, published>>
        /\ UNCHANGED <<connVars, typed, typing, tries>>
    BY <1>2 DEF Turn, inVars
  <2>2. turns + 1 \in DOMAIN published
    BY <1>1, <2>1, LenProperties
  <2>3. m \in Message /\ origin[m] # "none"
    BY <1>1, <2>2, LenProperties, ElementOfSeq DEF FlowInv
  <2>4. r \in Reply /\ r.of = m
    <3>1. m \in 0 .. MaxMessages
      BY <2>3, MessageFacts DEF Message
    <3>2. origin[m] \in Channel
      BY <1>1, <2>3 DEF Home
    <3>. QED
      BY <3>1, <3>2 DEF Reply
  <2>. HIDE DEF r
  <2>5. Append(outbox, r) \in Seq(Reply)
    BY <1>1, <2>4, Grown
  <2>6. turns + 1 \in Nat /\ turns <= turns + 1 /\ turns + 1 \in 0 .. Len(published)
    BY <1>1, <2>1
  <2>7. Replies(delivered, sending, Append(outbox, r), published, turns + 1)
    BY <1>1, <2>4, <2>6, RepliesWait
  <2>8. ReplyInv'
    BY <1>1, <2>1, <2>5, <2>6, <2>7 DEF ReplyInv
  <2>9. ConnTyped'
    BY <2>1 DEF ConnTyped, connVars
  <2>. QED
    BY <2>8, <2>9
<1>3. ASSUME NEW c \in Channel \cup {"unknown"}, PublishOutbound(c) PROVE ConnTyped' /\ ReplyInv'
  <2>. DEFINE r == [to |-> c, of |-> 0]
  <2>1. /\ outbox' = Append(outbox, r)
        /\ UNCHANGED <<turns, sending, delivered, ended, published>>
        /\ UNCHANGED <<connVars, typed, typing, tries>>
    BY <1>3 DEF PublishOutbound, inVars
  <2>2. r \in Reply /\ r.of = 0
    BY MessageFacts DEF Reply
  <2>. HIDE DEF r
  <2>3. Append(outbox, r) \in Seq(Reply)
    BY <1>1, <2>2, Grown
  <2>4. Replies(delivered, sending, Append(outbox, r), published, turns)
    BY <1>1, <2>2, RepliesWait
  <2>5. ReplyInv'
    BY <1>1, <2>1, <2>3, <2>4 DEF ReplyInv
  <2>6. ConnTyped'
    BY <2>1 DEF ConnTyped, connVars
  <2>. QED
    BY <2>5, <2>6
<1>4. CASE Dispatch
  <2>. DEFINE r == Head(outbox)
  <2>1. /\ sending = <<>> /\ outbox # <<>> /\ outbox' = Tail(outbox)
        /\ UNCHANGED <<connVars, typed, turns, tries, delivered, published>>
        /\ \/ /\ sending' = <<r>> /\ ended' = ended
              /\ typing' = typing \/ StopTyping(r.to)
           \/ ended' = ended \cup {r.of} /\ UNCHANGED <<sending, typing>>
    BY <1>4 DEF Dispatch, inVars
  <2>2. Tail(outbox) \in Seq(Reply) /\ r \in Reply
    BY <1>1, <2>1, Shrunk
  <2>3. Replies(delivered, <<r>>, Tail(outbox), published, turns)
          /\ Replies(delivered, <<>>, Tail(outbox), published, turns)
    BY <1>1, <2>1, RepliesTaken
  <2>4. r.of \in 0 .. MaxMessages
    BY <2>2, ReplyFacts
  <2>. HIDE DEF r
  <2>5. <<r>> \in Seq(Reply) /\ Len(<<r>>) = 1
    BY <2>2
  <2>6. turns \in 0 .. Len(published)
    BY DEF ReplyInv
  <2>7. ReplyInv'
    <3>1. CASE sending' = <<r>> /\ ended' = ended
      BY <1>1, <2>1, <2>2, <2>3, <2>5, <2>6, <3>1 DEF ReplyInv
    <3>2. CASE ended' = ended \cup {r.of} /\ UNCHANGED sending
      BY <1>1, <2>1, <2>2, <2>3, <2>4, <2>6, <3>2 DEF ReplyInv
    <3>. QED
      BY <2>1, <3>1, <3>2
  <2>8. ConnTyped'
    <3>1. typing' \in [Typer -> 0 .. MaxMessages]
      <4>1. typing' = typing => typing' \in [Typer -> 0 .. MaxMessages]
        BY DEF ConnTyped
      <4>. QED
        BY <2>1, <4>1, StopTypingTyped
    <3>. QED
      BY <2>1, <3>1 DEF ConnTyped, connVars
  <2>. QED
    BY <2>7, <2>8
<1>5. CASE StopAll
  <2>1. /\ phase' = "stopping" /\ sending' = <<>> /\ tries' = 0
        /\ ended' = ended \cup {sending[i].of : i \in DOMAIN sending}
        /\ typing' = typing \/ StopTyping("discord")
        /\ UNCHANGED <<enabled, running, link, botKnown, waOpen, connected, typed, turns, outbox, delivered, published>>
    BY <1>5 DEF StopAll, inVars
  <2>2. \A i \in DOMAIN sending : sending[i].of \in 0 .. MaxMessages
    BY <1>1, LenProperties, ElementOfSeq, ReplyFacts
  <2>3. ended' \subseteq 0 .. MaxMessages
    BY <1>1, <2>1, <2>2
  <2>4. <<>> \in Seq(Reply) /\ Len(<<>>) <= 1
    BY EmptySeq
  <2>5. Replies(delivered, <<>>, outbox, published, turns)
    BY <1>1, RepliesStop
  <2>6. ReplyInv'
    BY <1>1, <2>1, <2>3, <2>4, <2>5 DEF ReplyInv
  <2>7. typing' \in [Typer -> 0 .. MaxMessages]
    <3>1. typing' = typing => typing' \in [Typer -> 0 .. MaxMessages]
      BY DEF ConnTyped
    <3>. QED
      BY <2>1, <3>1, StopTypingTyped
  <2>8. ConnTyped'
    BY <2>1, <2>7 DEF ConnTyped
  <2>. QED
    BY <2>6, <2>8
<1>6. CASE Sends
  <2>1. /\ UNCHANGED <<connVars, typed, turns, outbox, published>>
        /\ \/ UNCHANGED <<sending, delivered, ended, typing>> /\ tries < 2 /\ tries' = tries + 1
           \/ \E c \in Channel, ok \in BOOLEAN : EndSend(c, ok)
                /\ (typing' = typing \/ StopTyping(c))
    <3>1. UNCHANGED <<connVars, typed, turns, outbox, published>>
      BY <1>6 DEF Sends, inVars
    <3>2. TelegramSend \/ WhatsAppSend \/ DiscordSend \/ FeishuSend \/ QQSend \/ SlackSend
            \/ DingTalkSend \/ EmailSend
      BY <1>6 DEF Sends
    <3>3. CASE TelegramSend \/ FeishuSend \/ QQSend \/ SlackSend \/ DingTalkSend \/ EmailSend
      BY <3>1, <3>3 DEF TelegramSend, FeishuSend, QQSend, SlackSend, DingTalkSend, EmailSend,
         Channel
    <3>4. CASE WhatsAppSend
      BY <3>1, <3>4 DEF WhatsAppSend, Channel
    <3>5. CASE DiscordSend
      BY <3>1, <3>5 DEF DiscordSend, Channel
    <3>. QED
      BY <3>2, <3>3, <3>4, <3>5
  <2>2. CASE UNCHANGED <<sending, delivered, ended, typing>> /\ tries < 2 /\ tries' = tries + 1
    <3>1. ReplyInv'
      BY <2>1, <2>2 DEF ReplyInv
    <3>2. tries' \in 0 .. 2
      BY <2>2 DEF ConnTyped
    <3>. QED
      BY <2>1, <2>2, <3>1, <3>2 DEF ConnTyped, connVars
  <2>3. ASSUME NEW c \in Channel, NEW ok \in BOOLEAN, EndSend(c, ok),
               typing' = typing \/ StopTyping(c)
        PROVE  ConnTyped' /\ ReplyInv'
    <3>1. PICK i \in DOMAIN sending :
            /\ sending' = RemoveAt(sending, i) /\ tries' = 0
            /\ delivered' = IF ok THEN Append(delivered, sending[i]) ELSE delivered
            /\ ended' = ended \cup {sending[i].of}
      BY <2>3 DEF EndSend
    <3>2. sending[i] \in Reply /\ sending[i].of \in 0 .. MaxMessages
      BY <1>1, LenProperties, ElementOfSeq, ReplyFacts
    <3>3. sending' = <<>>
      <4>1. RemoveAt(sending, i) \in Seq(Reply) /\ Len(RemoveAt(sending, i)) = Len(sending) - 1
              /\ Len(sending) \in Nat \ {0}
        BY <1>1, Removed
      <4>2. Len(RemoveAt(sending, i)) = 0
        BY <1>1, <4>1
      <4>. QED
        BY <3>1, <4>1, <4>2, EmptySeq
    <3>4. <<>> \in Seq(Reply) /\ Len(<<>>) <= 1
      BY EmptySeq
    <3>5. delivered' \in Seq(Reply)
      BY <1>1, <3>1, <3>2, Grown
    <3>6. Replies(delivered', <<>>, outbox, published, turns)
      <4>1. CASE ok
        BY <1>1, <3>1, <4>1, RepliesSent
      <4>2. CASE ~ok
        BY <1>1, <3>1, <4>2, RepliesStop
      <4>. QED
        BY <4>1, <4>2
    <3>7. ReplyInv'
      BY <1>1, <2>1, <3>1, <3>2, <3>3, <3>4, <3>5, <3>6 DEF ReplyInv
    <3>8. typing' \in [Typer -> 0 .. MaxMessages]
      <4>1. typing' = typing => typing' \in [Typer -> 0 .. MaxMessages]
        BY DEF ConnTyped
      <4>. QED
        BY <2>3, <4>1, StopTypingTyped
    <3>9. ConnTyped'
      BY <2>1, <3>1, <3>8 DEF ConnTyped, connVars
    <3>. QED
      BY <3>7, <3>9
  <2>. QED
    BY <2>1, <2>2, <2>3
<1>. QED
  BY <1>2, <1>3, <1>4, <1>5, <1>6

\* A channel that is told to stop drops what its handlers hold.
LEMMA StopsFlow ==
  ASSUME ConnTyped, FlowInv, NEW c \in Channel, Stops(c)
  PROVE  ConnTyped' /\ FlowInv'
<1>1. /\ phase = "stopping" /\ running' = running \ {c} /\ link' = [link EXCEPT ![c] = "down"]
      /\ connected' = (connected /\ c # "whatsapp") /\ typed' = (typed /\ c # "discord")
      /\ handling' = [handling EXCEPT ![c] = <<>>] /\ StopTyping(c)
      /\ UNCHANGED <<phase, enabled, botKnown, waOpen, wire, origin, seen, published, tries>>
  BY DEF Stops, outVars
<1>2. FlowInv'
  BY <1>1, LosesFlow
<1>3. typing' \in [Typer -> 0 .. MaxMessages]
  BY <1>1, StopTypingTyped
<1>4. link' \in [Channel -> {"down", "up", "dead"}]
  BY <1>1 DEF ConnTyped
<1>5. connected' \in BOOLEAN /\ typed' \in BOOLEAN
  BY <1>1
<1>. QED
  BY <1>1, <1>2, <1>3, <1>4, <1>5 DEF ConnTyped

\* The other steps, and what they do to the connections.
LEMMA DropsTyped ==
  ASSUME ConnTyped, NEW c \in Channel, Drops(c)
  PROVE  ConnTyped'
<1>1. Link(c, "up", "down") /\ UNCHANGED <<botKnown, waOpen, typed, typing, tries>>
  BY DEF Drops, outVars
<1>2. link' \in [Channel -> {"down", "up", "dead"}] /\ UNCHANGED <<phase, enabled, running>>
  BY <1>1, LinkTyped
<1>3. connected' \in BOOLEAN
  BY DEF ConnTyped, Drops
<1>. QED
  BY <1>1, <1>2, <1>3 DEF ConnTyped

\* The connections after a step of the bridge, the mailbox or a user.
LEMMA OthersTyped ==
  ASSUME ConnTyped,
         BridgeUpdate \/ EmailFetches \/ \E c \in Channel : Writes(c)
           \/ \E m \in Message : Repeats(c, m)
  PROVE  ConnTyped'
<1>1. CASE BridgeUpdate
  <2>1. waOpen' \in BOOLEAN
    BY <1>1 DEF BridgeUpdate
  <2>. QED
    BY <1>1, <2>1 DEF ConnTyped, BridgeUpdate, outVars
<1>2. CASE EmailFetches
  <2>1. Link("email", "up", "down")
          /\ UNCHANGED <<botKnown, waOpen, connected, typed, typing, tries>>
    BY <1>2 DEF EmailFetches, outVars
  <2>2. link' \in [Channel -> {"down", "up", "dead"}] /\ UNCHANGED <<phase, enabled, running>>
    BY <2>1, LinkTyped DEF Channel
  <2>. QED
    BY <2>1, <2>2 DEF ConnTyped
<1>3. ASSUME NEW c \in Channel, Writes(c) \/ \E m \in Message : Repeats(c, m) PROVE ConnTyped'
  BY <1>3 DEF Writes, Repeats, ConnTyped, connVars, outVars
<1>. QED
  BY <1>1, <1>2, <1>3

\* A step of the agent, the dispatcher or stop_all.
LEMMA AnswersFlow ==
  ASSUME FlowInv,
         Turn \/ Dispatch \/ Sends \/ StopAll
           \/ \E c \in Channel \cup {"unknown"} : PublishOutbound(c)
  PROVE  FlowInv'
<1>1. UNCHANGED <<wire, origin, seen, handling, published, botKnown, link>>
        /\ (phase' = phase \/ phase' = "stopping")
  BY DEF Turn, Dispatch, Sends, StopAll, PublishOutbound, connVars, inVars
<1>. QED
  BY <1>1, FlowStays

-----------------------------------------------------------------------------
(* Channels: the invariant holds.                                          *)

\* Nothing was written yet.
LEMMA ChannelsStarts ==
  ASSUME Init
  PROVE  ChannelsInv
<1>1. /\ wire = [c \in Channel |-> <<>>] /\ handling = [c \in Channel |-> <<>>]
      /\ seen = [c \in Channel |-> <<>>]
      /\ published = <<>> /\ origin = [m \in Message |-> "none"]
      /\ outbox = <<>> /\ sending = <<>> /\ delivered = <<>> /\ turns = 0 /\ ended = {}
  BY DEF Init
<1>2. /\ <<>> \in Seq(Entry) /\ <<>> \in Seq(Message) /\ <<>> \in Seq(Reply) /\ DOMAIN <<>> = {}
      /\ Len(<<>>) = 0
      /\ Range(<<>>) = {}
  BY EmptySeq DEF Range
<1>3. ConnTyped
  <2>1. 0 \in 0 .. MaxMessages
    BY MessageFacts
  <2>2. typing = [c \in Typer |-> 0] /\ tries = 0 /\ running = enabled /\ enabled \in Configs
        /\ phase \in {"off", "on"} /\ link = [c \in Channel |-> "down"]
        /\ botKnown = FALSE /\ waOpen = TRUE /\ connected = FALSE /\ typed = FALSE
    BY DEF Init
  <2>3. typing \in [Typer -> 0 .. MaxMessages] /\ tries \in 0 .. 2
    BY <2>1, <2>2
  <2>4. link \in [Channel -> {"down", "up", "dead"}]
    BY <2>2
  <2>5. {botKnown, waOpen, connected} \subseteq BOOLEAN /\ typed \in BOOLEAN
    BY <2>2
  <2>6. phase \in {"off", "on", "stopping"} /\ enabled \in Configs /\ running \subseteq enabled
    BY <2>2
  <2>. QED
    BY <2>3, <2>4, <2>5, <2>6 DEF ConnTyped
<1>4. UidCap \in Nat /\ SeenCap \in Nat \ {0}
  BY ChannelsAssumption
<1>5. FlowTyped
  BY <1>1, <1>2, <1>4 DEF FlowTyped
<1>6. {m \in Message : origin[m] # "none"} = 1 .. Written
  <2>1. {m \in Message : origin[m] # "none"} = {}
    BY <1>1
  <2>2. Written = 0
    BY <2>1, FS_EmptySet DEF Written
  <2>. QED
    BY <2>1, <2>2
<1>7. ASSUME NEW c \in Channel
      PROVE  Pipe(c, wire[c], handling[c], published, MarkOf(c), origin, Loose(c))
  <2>1. wire[c] = <<>> /\ handling[c] = <<>> /\ published = <<>>
    BY <1>1
  <2>. QED
    BY <1>2, <2>1 DEF Pipe
<1>8. ASSUME NEW c \in Repeating
      PROVE  Remembers(c, wire[c], seen[c], Mark(seen[c]), origin, Written)
  <2>1. c \in Channel /\ c # "none"
    BY DEF Repeating, Channel
  <2>2. wire[c] = <<>> /\ seen[c] = <<>> /\ \A m \in Message : origin[m] # c
    BY <1>1, <2>1
  <2>. QED
    BY <1>2, <2>2 DEF Remembers
<1>9. SlackWaits
  <2>1. "slack" \in Channel
    BY DEF Channel
  <2>. QED
    BY <1>1, <1>2, <2>1 DEF SlackWaits
<1>10. FlowInv
  <2>1. {"whatsapp", "qq", "discord"} \subseteq Channel
    BY DEF Channel
  <2>2. handling["whatsapp"] = <<>> /\ handling["qq"] = <<>> /\ Len(handling["discord"]) <= 1
    BY <1>1, <1>2, <2>1
  <2>3. \A i \in DOMAIN published : origin[published[i]] # "none"
    BY <1>1, <1>2
  <2>. QED
    BY <1>5, <1>6, <1>7, <1>8, <1>9, <2>2, <2>3 DEF FlowInv
<1>11. ReplyInv
  <2>1. turns \in 0 .. Len(published)
    BY <1>1, <1>2
  <2>2. Replies(<<>>, <<>>, <<>>, <<>>, 0)
    BY <1>2 DEF Replies
  <2>. QED
    BY <1>1, <1>2, <2>1, <2>2 DEF ReplyInv
<1>. QED
  BY <1>3, <1>10, <1>11 DEF ChannelsInv

\* Every step preserves the invariant.
LEMMA ChannelsStep ==
  ASSUME ChannelsInv, [Next]_vars
  PROVE  ChannelsInv'
<1>1. ConnTyped /\ FlowInv /\ ReplyInv
  BY DEF ChannelsInv
<1>2. CASE Starts
  <2>1. FlowInv' /\ ConnTyped'
    BY <1>1, <1>2, StartsFlow, StartsTyped
  <2>2. UNCHANGED <<turns, outbox, sending, delivered, ended, published>>
    BY <1>2 DEF Starts, inVars, outVars
  <2>. QED
    BY <1>1, <2>1, <2>2, ReplyStays DEF ChannelsInv
<1>3. CASE BridgeUpdate \/ EmailFetches
  <2>1. FlowInv' /\ ConnTyped'
    BY <1>1, <1>3, BridgeFlow, FetchesFlow, OthersTyped
  <2>2. UNCHANGED <<turns, outbox, sending, delivered, ended, published>>
    BY <1>3 DEF BridgeUpdate, EmailFetches, outVars
  <2>. QED
    BY <1>1, <2>1, <2>2, ReplyStays DEF ChannelsInv
<1>4. CASE Turn \/ Dispatch \/ Sends \/ StopAll \/ MessageToolSends \/ CronDelivers \/ BudgetAlerts
  <2>1. Turn \/ Dispatch \/ Sends \/ StopAll
          \/ \E c \in Channel \cup {"unknown"} : PublishOutbound(c)
    <3>1. enabled \subseteq Channel
      BY <1>1, ChannelsAssumption DEF ConnTyped
    <3>. QED
      BY <1>4, <3>1 DEF MessageToolSends, CronDelivers, BudgetAlerts
  <2>2. FlowInv'
    BY <1>1, <2>1, AnswersFlow
  <2>3. ConnTyped' /\ ReplyInv'
    BY <1>1, <2>1, <2>2, AnswersStep
  <2>. QED
    BY <2>2, <2>3 DEF ChannelsInv
<1>5. ASSUME NEW c \in Channel, Drops(c) PROVE ChannelsInv'
  <2>1. FlowInv' /\ ConnTyped'
    BY <1>1, <1>5, DropsFlow, DropsTyped
  <2>2. UNCHANGED <<turns, outbox, sending, delivered, ended, published>>
    BY <1>5 DEF Drops, outVars
  <2>. QED
    BY <1>1, <2>1, <2>2, ReplyStays DEF ChannelsInv
<1>6. ASSUME NEW c \in Channel, Writes(c) PROVE ChannelsInv'
  <2>1. FlowInv' /\ ConnTyped'
    BY <1>1, <1>6, WritesFlow, OthersTyped
  <2>2. UNCHANGED <<turns, outbox, sending, delivered, ended, published>>
    BY <1>6 DEF Writes, outVars
  <2>. QED
    BY <1>1, <2>1, <2>2, ReplyStays DEF ChannelsInv
<1>7. ASSUME NEW c \in Channel, Handles(c) PROVE ChannelsInv'
  <2>1. FlowInv' /\ ConnTyped'
    BY <1>1, <1>7, HandlesFlow, HandlesTyped
  <2>2. UNCHANGED <<turns, outbox, sending, delivered, ended>>
    BY <1>7 DEF Handles, outVars
  <2>3. published' = published \/ \E m : published' = Append(published, m)
    BY <1>7, HandlesPublishes
  <2>. QED
    BY <1>1, <2>1, <2>2, <2>3, ReplyStays DEF ChannelsInv
<1>8. ASSUME NEW c \in Channel, Stops(c) PROVE ChannelsInv'
  <2>1. FlowInv' /\ ConnTyped'
    BY <1>1, <1>8, StopsFlow
  <2>2. UNCHANGED <<turns, outbox, sending, delivered, ended, published>>
    BY <1>8 DEF Stops, outVars
  <2>. QED
    BY <1>1, <2>1, <2>2, ReplyStays DEF ChannelsInv
<1>9. ASSUME NEW c \in Channel, NEW m \in Message, Repeats(c, m) PROVE ChannelsInv'
  <2>1. FlowInv' /\ ConnTyped'
    BY <1>1, <1>9, RepeatsFlow, OthersTyped
  <2>2. UNCHANGED <<turns, outbox, sending, delivered, ended, published>>
    BY <1>9 DEF Repeats, outVars
  <2>. QED
    BY <1>1, <2>1, <2>2, ReplyStays DEF ChannelsInv
<1>10. CASE UNCHANGED vars
  <2>1. /\ UNCHANGED <<phase, enabled, running, link, botKnown, waOpen, connected>>
        /\ UNCHANGED <<wire, origin, seen, handling, typed, published, typing>>
        /\ UNCHANGED <<turns, outbox, sending, tries, delivered, ended>>
    BY <1>10 DEF vars, connVars, inVars, outVars
  <2>2. FlowInv'
    BY <1>1, <2>1, FlowStays
  <2>3. ConnTyped'
    BY <1>1, <2>1 DEF ConnTyped
  <2>. QED
    BY <1>1, <2>1, <2>2, <2>3, ReplyStays DEF ChannelsInv
<1>. QED
  BY <1>2, <1>3, <1>4, <1>5, <1>6, <1>7, <1>8, <1>9, <1>10 DEF Next

\* The invariant is as strong as what is claimed.
LEMMA ChannelsSafe ==
  ASSUME ChannelsInv
  PROVE  ChannelsTypeOK /\ OnceInOrder
<1>1. ConnTyped /\ FlowInv /\ ReplyInv
  BY DEF ChannelsInv
<1>2. ChannelsTypeOK
  BY <1>1 DEF ConnTyped, FlowInv, FlowTyped, ReplyInv, ChannelsTypeOK
<1>3. ASSUME NEW i \in DOMAIN published, NEW j \in DOMAIN published,
             i < j, origin[published[j]] = origin[published[i]]
      PROVE  LET c == origin[published[i]] IN
               /\ ~(c = "slack" /\ TwinsPass) => published[i] # published[j]
               /\ c \in InOrder => published[i] < published[j]
  <2>. DEFINE c == origin[published[i]]
  <2>1. c \in Channel
    <3>1. published \in Seq(Message) /\ origin \in [Message -> Home] /\ c # "none"
      BY <1>1, FlowFacts DEF FlowInv
    <3>2. published[i] \in Message
      BY <3>1, LenProperties, ElementOfSeq
    <3>3. c \in Home
      BY <3>1, <3>2
    <3>. QED
      BY <3>1, <3>3 DEF Home
  <2>2. Pipe(c, wire[c], handling[c], published, MarkOf(c), origin, Loose(c))
    BY <1>1, <2>1, FlowFacts
  <2>3. ~Loose(c) => Apart(c, published[i], published[j])
    BY <1>3, <2>2 DEF Pipe
  <2>4. c \in InOrder => ~Loose(c)
    BY DEF InOrder, Loose
  <2>. QED
    BY <2>3, <2>4 DEF Apart, Loose
<1>4. ASSUME NEW i \in DOMAIN delivered, NEW j \in DOMAIN delivered, i < j,
             0 \notin {delivered[i].of, delivered[j].of}
      PROVE  \E k, l \in 1 .. turns : k < l /\ published[k] = delivered[i].of
               /\ published[l] = delivered[j].of
  <2>1. InTurn(delivered[i].of, delivered[j].of, published, turns)
    BY <1>1, <1>4 DEF ReplyInv, Replies
  <2>. QED
    BY <1>4, <2>1 DEF InTurn
<1>. QED
  BY <1>2, <1>3, <1>4 DEF OnceInOrder

-----------------------------------------------------------------------------
(* Mochat: the inductive invariant.                                        *)

Source == {"session", "panel"}
Taken == Source \X Nat
Frame == {f \in [kind : {"ack", "session", "panel"}, from : Nat, to : Nat] : f.from <= f.to}

\* No event of the frame f has been taken.
Untaken(t, f) ==
  \A i \in DOMAIN t : t[i][1] = "session" => t[i][2] <= f.from \/ t[i][2] > f.to

\* The frames of the session that are still to come are apart from each other and from
\* what has been taken, and at most one of them is an answer.
SessionSound(t, fs, a, cur, w) ==
  /\ \A i \in DOMAIN fs : fs[i].kind # "panel" =>
       /\ fs[i].to <= w /\ Untaken(t, fs[i])
       /\ a # <<>> => a[1].to <= fs[i].from /\ fs[i].kind # "ack"
  /\ \A i, j \in DOMAIN fs : (i < j /\ fs[j].kind # "panel") =>
       /\ fs[i].kind # "panel" => fs[i].to <= fs[j].from
       /\ fs[j].kind = "session"
  /\ a # <<>> => a[1].to <= w /\ Untaken(t, a[1])
  /\ \A i \in DOMAIN t : t[i][1] = "session" => t[i][2] <= cur
  /\ \A i, j \in DOMAIN t : (i < j /\ t[i][1] = "session") => t[i] # t[j]

\* The panel's messages arrive in their order, those that were seen before the others:
\* first what was taken, then what waits in the buffer, then what is on the socket.
PanelSound(t, fs, b, mark, n) ==
  /\ mark \in 0 .. n
  /\ \A i \in DOMAIN fs : fs[i].kind = "panel" => fs[i].to \in 1 .. n /\ mark <= fs[i].to
  /\ \A i, j \in DOMAIN fs :
       (i < j /\ fs[i].kind = "panel" /\ fs[j].kind = "panel") => fs[i].to <= fs[j].to
  /\ \A i \in DOMAIN b : b[i] <= mark
  /\ \A i, j \in DOMAIN b : i < j => b[i] < b[j]
  /\ \A i \in DOMAIN t : t[i][1] = "panel" =>
       t[i][2] <= mark /\ \A j \in DOMAIN b : t[i][2] < b[j]
  /\ \A i, j \in DOMAIN t :
       (i < j /\ t[i][1] = "panel" /\ t[j][1] = "panel") => t[i][2] < t[j][2]

MochatTyped ==
  /\ life \in {"off", "running", "ended"}
  /\ {delays, wsReady, fallback, pushing, saving, cold, timer} \subseteq BOOLEAN
  /\ socket \in {"none", "dead", "down", "asking", "up"}
  /\ written \in 0 .. MaxSession
  /\ {asked, cursor, file} \subseteq -1 .. written
  /\ frames \in Seq(Frame) /\ ack \in Seq(Frame)
  /\ panel \in Seq(BOOLEAN) /\ Len(panel) <= MaxPanel
  /\ seenIds \in [Source -> Seq(Nat)] /\ \A k \in Source : Len(seenIds[k]) <= SeenIds
  /\ buffer \in Seq(1 .. Len(panel))
  /\ taken \in Seq(Taken)

MochatInv ==
  /\ MochatTyped
  /\ file <= cursor
  /\ timer <=> buffer # <<>>
  /\ ~Active => socket = "none" /\ ~pushing /\ ack = <<>> /\ buffer = <<>>
  /\ ~pushing => frames = <<>>
  /\ (socket = "asking" /\ ~pushing) => ack = <<>> /\ asked = cursor
  /\ SessionSound(taken, frames, ack, cursor, written)
  /\ PanelSound(taken, frames, buffer, Mark(seenIds["panel"]), Len(panel))

\* What a frame is.
LEMMA FrameFacts ==
  ASSUME NEW f \in Frame
  PROVE  /\ f.kind \in {"ack", "session", "panel"}
         /\ f.from \in Nat /\ f.to \in Nat /\ f.from <= f.to
BY DEF Frame

-----------------------------------------------------------------------------
(* Mochat: what a payload does.                                            *)

\* The message that was seen last is the last in the memory.
LEMMA NoteSound ==
  ASSUME NEW ids \in Seq(Nat), Len(ids) <= SeenIds, NEW m \in Nat
  PROVE  /\ Note(ids, m) \in Seq(Nat) /\ Len(Note(ids, m)) <= SeenIds
         /\ Mark(Note(ids, m)) = m
<1>. DEFINE all == Append(ids, m)
<1>1. /\ all \in Seq(Nat) /\ Len(all) = Len(ids) + 1 /\ Len(ids) \in Nat /\ all # <<>>
      /\ all[Len(ids) + 1] = m
  BY Grown, AppendProperties
<1>2. SeenIds \in Nat \ {0}
  BY MochatAssumption
<1>. HIDE DEF all
<1>3. CASE Len(all) > SeenIds
  <2>1. /\ Tail(all) \in Seq(Nat) /\ Len(Tail(all)) = Len(ids)
        /\ \A i \in 1 .. Len(ids) : Tail(all)[i] = all[i + 1]
    BY <1>1, HeadTailProperties
  <2>2. Len(ids) # 0 /\ Tail(all) # <<>>
    <3>1. Len(ids) # 0 /\ Len(Tail(all)) # 0
      BY <1>1, <1>2, <1>3, <2>1
    <3>. QED
      BY <3>1, EmptySeq
  <2>3. Tail(all)[Len(ids)] = m
    BY <1>1, <2>1, <2>2
  <2>. QED
    BY <1>3, <2>1, <2>2, <2>3 DEF Note, Mark, all
<1>4. CASE ~(Len(all) > SeenIds)
  BY <1>1, <1>2, <1>4 DEF Note, Mark, all
<1>. QED
  BY <1>3, <1>4

\* The events that are new are among those of the payload, in their order.
NewSound(new, from, to) ==
  /\ new \in Seq(Nat)
  /\ \A i \in DOMAIN new : from < new[i] /\ new[i] <= to
  /\ \A i, j \in DOMAIN new : i < j => new[i] < new[j]

Memory == {ids \in Seq(Nat) : Len(ids) <= SeenIds}

Progress == [ids : Memory, new : Seq(Nat)]

\* What the i-th event of a payload does.
Step(from, p, i) ==
  IF from + i \in Range(p.ids) THEN p
  ELSE [ids |-> Note(p.ids, from + i), new |-> Append(p.new, from + i)]

\* One message of a payload: it is skipped, or it is new.
LEMMA StepSound ==
  ASSUME NEW from \in Nat, NEW p \in Progress, NEW i \in Nat
  PROVE  /\ Step(from, p, i) \in Progress
         /\ (i # 0 /\ NewSound(p.new, from, from + (i - 1))) =>
              NewSound(Step(from, p, i).new, from, from + i)
<1>. DEFINE s == p.new
            e == from + i
<1>1. p.ids \in Seq(Nat) /\ Len(p.ids) <= SeenIds /\ s \in Seq(Nat) /\ e \in Nat
  BY DEF Memory, Progress
<1>2. CASE e \in Range(p.ids)
  BY <1>1, <1>2 DEF Step, NewSound
<1>3. CASE e \notin Range(p.ids)
  <2>1. Step(from, p, i) = [ids |-> Note(p.ids, e), new |-> Append(s, e)]
    BY <1>3 DEF Step
  <2>2. Note(p.ids, e) \in Memory
    <3>. HIDE DEF e
    <3>. QED
      BY <1>1, NoteSound DEF Memory
  <2>3. /\ Append(s, e) \in Seq(Nat) /\ Len(s) \in Nat
        /\ DOMAIN s = 1 .. Len(s) /\ DOMAIN Append(s, e) = 1 .. Len(s) + 1
        /\ \A j \in DOMAIN s : Append(s, e)[j] = s[j] /\ s[j] \in Nat
        /\ Append(s, e)[Len(s) + 1] = e
    <3>. HIDE DEF s, e
    <3>. QED
      BY <1>1, Grown
  <2>4. ASSUME i # 0, NewSound(s, from, from + (i - 1)) PROVE NewSound(Append(s, e), from, e)
    <3>1. \A j \in DOMAIN s : from < s[j] /\ s[j] < e
      BY <1>1, <2>3, <2>4 DEF NewSound
    <3>2. from < e
      BY <2>4
    <3>3. \A j, k \in DOMAIN s : j < k => s[j] < s[k]
      BY <2>4 DEF NewSound
    <3>. HIDE DEF s, e
    <3>. QED
      BY <1>1, <2>3, <3>1, <3>2, <3>3 DEF NewSound
  <2>5. [ids |-> Note(p.ids, e), new |-> Append(s, e)] \in Progress
    BY <2>2, <2>3 DEF Progress
  <2>. HIDE DEF s
  <2>. QED
    BY <2>1, <2>4, <2>5 DEF s
<1>. QED
  BY <1>2, <1>3

\* What a payload has that is new is in order, and between its cursors.
LEMMA ProcessedSound ==
  ASSUME NEW ids \in Memory, NEW from \in Nat, NEW to \in Nat, from <= to
  PROVE  LET p == Processed(ids, from, to) IN p.ids \in Memory /\ NewSound(p.new, from, to)
<1>. DEFINE N == to - from
            x == [ids |-> ids, new |-> <<>>]
            F == [q \in Nat \X Progress |-> Step(from, q[2], q[1])]
            Goes(f, i) == IF i = 0 THEN x ELSE Step(from, f[i - 1], i)
<1>1. N \in Nat /\ x \in Progress /\ from + N = to
  BY DEF Progress
<1>2. F \in [Nat \X Progress -> Progress]
  BY StepSound
<1>3. PICK g : Iteration(g, N, Progress, x, F)
  <2>. HIDE DEF F, x, N
  <2>. QED
    BY <1>1, <1>2, Iterates
<1>4. \A i \in 0 .. N : g[i] = Goes(g, i)
  <2>. SUFFICES ASSUME NEW i \in 0 .. N PROVE g[i] = Goes(g, i)
    OBVIOUS
  <2>1. CASE i = 0
    BY <1>3, <2>1 DEF Iteration
  <2>2. CASE i # 0
    <3>1. <<i, g[i - 1]>> \in Nat \X Progress
      <4>1. i \in Nat /\ i - 1 \in 0 .. N
        BY <1>1, <2>2
      <4>. HIDE DEF N
      <4>. QED
        BY <1>3, <4>1 DEF Iteration
    <3>2. F[<<i, g[i - 1]>>] = Step(from, g[i - 1], i)
      BY <3>1
    <3>. HIDE DEF F, x, N
    <3>. QED
      BY <1>3, <2>2, <3>2 DEF Iteration
  <2>. QED
    BY <2>1, <2>2
<1>5. g = [i \in 0 .. N |-> Goes(g, i)]
  <2>1. g = [i \in 0 .. N |-> g[i]]
    BY <1>3 DEF Iteration
  <2>. HIDE DEF Goes, N
  <2>. QED
    BY <1>4, <2>1, Zenon
<1>. DEFINE after == CHOOSE f : f = [i \in 0 .. N |-> Goes(f, i)]
<1>6. Processed(ids, from, to) = after[N]
  BY Zenon DEF Processed, Step
<1>7. after = [i \in 0 .. N |-> Goes(after, i)]
  <2>. HIDE DEF Goes, N
  <2>. QED
    BY <1>5, Zenon
<1>. HIDE DEF after
<1>8. \A i \in 0 .. N : after[i] = Goes(after, i)
  <2>. HIDE DEF Goes, N
  <2>. QED
    BY <1>7, Zenon
<1>. DEFINE Good(i) == after[i] \in Progress /\ NewSound(after[i].new, from, from + i)
            S == {i \in Nat : i <= N => Good(i)}
<1>9. 0 \in S
  <2>1. after[0] = x
    <3>. HIDE DEF N, x
    <3>. QED
      BY <1>1, <1>8
  <2>2. NewSound(x.new, from, from + 0)
    BY DEF NewSound
  <2>. HIDE DEF N, x
  <2>. QED
    BY <1>1, <2>1, <2>2
<1>10. ASSUME NEW n \in S PROVE n + 1 \in S
  <2>. SUFFICES ASSUME n + 1 <= N PROVE Good(n + 1)
    OBVIOUS
  <2>. HIDE DEF N, x
  <2>1. n \in Nat /\ Good(n) /\ n + 1 \in 0 .. N /\ n + 1 # 0 /\ (n + 1) - 1 = n /\ n + 1 \in Nat
    BY <1>1
  <2>2. after[n + 1] = Step(from, after[n], n + 1)
    BY <1>8, <2>1
  <2>. QED
    BY <2>1, <2>2, StepSound
<1>11. S = Nat
  <2>. HIDE DEF Good, N
  <2>1. S \in SUBSET Nat
    OBVIOUS
  <2>. HIDE DEF S
  <2>. QED
    BY <1>9, <1>10, <2>1, NatInd
<1>12. Good(N)
  <2>. HIDE DEF Good, N
  <2>. QED
    BY <1>1, <1>11
<1>. HIDE DEF N
<1>. QED
  BY <1>1, <1>6, <1>12 DEF Progress

\* New entries after those that were taken.
LEMMA EntriesJoined ==
  ASSUME NEW t \in Seq(Taken), NEW k \in Source, NEW ms \in Seq(Nat)
  PROVE  LET u == t \o Entries(k, ms) IN
         /\ u \in Seq(Taken) /\ Len(t) \in Nat
         /\ DOMAIN t = 1 .. Len(t) /\ DOMAIN ms = 1 .. Len(ms) /\ DOMAIN u = 1 .. Len(t) + Len(ms)
         /\ Len(ms) \in Nat
         /\ \A i \in DOMAIN t : u[i] = t[i] /\ t[i] \in Taken
         /\ \A i \in DOMAIN u : i \notin DOMAIN t =>
              i - Len(t) \in DOMAIN ms /\ u[i] = <<k, ms[i - Len(t)]>> /\ ms[i - Len(t)] \in Nat
<1>. DEFINE e == Entries(k, ms)
<1>1. DOMAIN ms = 1 .. Len(ms) /\ Len(ms) \in Nat /\ \A i \in 1 .. Len(ms) : ms[i] \in Nat
  BY LenProperties, ElementOfSeq
<1>2. /\ e \in [1 .. Len(ms) -> Taken]
      /\ \A i \in 1 .. Len(ms) : e[i] = <<k, ms[i]>>
  BY <1>1 DEF Entries, Taken
<1>3. e \in Seq(Taken) /\ Len(e) = Len(ms)
  <2>. HIDE DEF e
  <2>. QED
    BY <1>1, <1>2, FunctionIsSeq
<1>. HIDE DEF e
<1>4. e \in Seq(Taken)
  BY <1>3
<1>. DEFINE u == t \o e
<1>5. /\ u \in Seq(Taken) /\ Len(u) = Len(t) + Len(e) /\ Len(t) \in Nat
      /\ \A i \in 1 .. Len(t) + Len(e) : u[i] = IF i <= Len(t) THEN t[i] ELSE e[i - Len(t)]
  BY <1>4, ConcatProperties, LenProperties
<1>. HIDE DEF u
<1>6. /\ u \in Seq(Taken) /\ Len(t) \in Nat
      /\ DOMAIN t = 1 .. Len(t) /\ DOMAIN u = 1 .. Len(t) + Len(e)
      /\ \A i \in DOMAIN t : u[i] = t[i] /\ t[i] \in Taken
      /\ \A i \in DOMAIN u : i \notin DOMAIN t => i - Len(t) \in DOMAIN e /\ u[i] = e[i - Len(t)]
  BY <1>3, <1>5, LenProperties, ElementOfSeq
<1>9. DOMAIN e = 1 .. Len(e)
  BY <1>4, LenProperties
<1>7. \A i \in DOMAIN u : i \notin DOMAIN t =>
        i - Len(t) \in DOMAIN ms /\ u[i] = <<k, ms[i - Len(t)]>> /\ ms[i - Len(t)] \in Nat
  BY <1>1, <1>2, <1>3, <1>6, <1>9
<1>8. t \o Entries(k, ms) = u
  BY DEF u, e
<1>. QED
  BY <1>1, <1>3, <1>6, <1>7, <1>8

\* The events of the frame f are taken: those before and after it stay apart.
LEMMA SessionTakes ==
  ASSUME NEW t \in Seq(Taken), NEW fs \in Seq(Frame), NEW a \in Seq(Frame),
         NEW cur \in Int, NEW w \in Nat, SessionSound(t, fs, a, cur, w),
         NEW f \in Frame, Untaken(t, f),
         \A i \in DOMAIN fs : fs[i].kind # "panel" => f.to <= fs[i].from,
         a # <<>> => a[1].to <= f.from,
         NEW new, NewSound(new, f.from, f.to), NEW c \in Int, cur <= c, f.to <= c
  PROVE  SessionSound(t \o Entries("session", new), fs, a, c, w)
<1>. DEFINE u == t \o Entries("session", new)
<1>1. f.from \in Nat /\ f.to \in Nat /\ f.from <= f.to
  BY FrameFacts
<1>2. /\ new \in Seq(Nat)
      /\ \A i \in DOMAIN new : f.from < new[i] /\ new[i] <= f.to
      /\ \A i, j \in DOMAIN new : i < j => new[i] < new[j]
  BY DEF NewSound
<1>3. /\ u \in Seq(Taken) /\ Len(t) \in Nat
      /\ DOMAIN t = 1 .. Len(t) /\ DOMAIN u = 1 .. Len(t) + Len(new) /\ Len(new) \in Nat
      /\ \A i \in DOMAIN t : u[i] = t[i] /\ t[i] \in Taken
      /\ \A i \in DOMAIN u : i \notin DOMAIN t =>
           /\ i - Len(t) \in DOMAIN new /\ u[i] = <<"session", new[i - Len(t)]>>
           /\ new[i - Len(t)] \in Nat
  BY <1>2, EntriesJoined DEF Source
<1>. HIDE DEF u
<1>4. \A i \in DOMAIN u : i \notin DOMAIN t =>
        u[i][1] = "session" /\ u[i][2] \in Nat /\ f.from < u[i][2] /\ u[i][2] <= f.to
  <2>. SUFFICES ASSUME NEW i \in DOMAIN u, i \notin DOMAIN t
                PROVE  u[i][1] = "session" /\ u[i][2] \in Nat /\ f.from < u[i][2] /\ u[i][2] <= f.to
    OBVIOUS
  <2>1. /\ i - Len(t) \in DOMAIN new /\ u[i] = <<"session", new[i - Len(t)]>>
        /\ new[i - Len(t)] \in Nat
    BY <1>3
  <2>2. f.from < new[i - Len(t)] /\ new[i - Len(t)] <= f.to
    BY <1>2, <2>1
  <2>. QED
    BY <2>1, <2>2
<1>5. ASSUME NEW g \in Frame, Untaken(t, g), f.to <= g.from \/ g.to <= f.from
      PROVE  Untaken(u, g)
  <2>. SUFFICES ASSUME NEW i \in DOMAIN u, u[i][1] = "session"
                PROVE  u[i][2] <= g.from \/ u[i][2] > g.to
    BY DEF Untaken
  <2>1. CASE i \in DOMAIN t
    BY <1>3, <1>5, <2>1 DEF Untaken
  <2>2. CASE i \notin DOMAIN t
    BY <1>1, <1>4, <1>5, <2>2, FrameFacts
  <2>. QED
    BY <2>1, <2>2
<1>6. ASSUME NEW i \in DOMAIN fs, fs[i].kind # "panel" PROVE Untaken(u, fs[i])
  <2>1. fs[i] \in Frame
    BY LenProperties, ElementOfSeq
  <2>. QED
    BY <1>5, <1>6, <2>1 DEF SessionSound
<1>7. a # <<>> => Untaken(u, a[1])
  <2>1. a # <<>> => a[1] \in Frame
    BY Shrunk
  <2>. QED
    BY <1>5, <2>1 DEF SessionSound
<1>8. ASSUME NEW i \in DOMAIN u, u[i][1] = "session" PROVE u[i][2] <= c
  <2>1. CASE i \in DOMAIN t
    <3>1. u[i] = t[i] /\ t[i][2] <= cur /\ t[i][2] \in Nat
      BY <1>3, <1>8, <2>1 DEF SessionSound, Taken
    <3>. QED
      BY <3>1
  <2>2. CASE i \notin DOMAIN t
    BY <1>1, <1>4, <2>2
  <2>. QED
    BY <2>1, <2>2
<1>9. ASSUME NEW i \in DOMAIN u, NEW j \in DOMAIN u, i < j, u[i][1] = "session" PROVE u[i] # u[j]
  <2>1. CASE j \in DOMAIN t
    <3>1. i \in DOMAIN t
      BY <1>3, <1>9, <2>1
    <3>. QED
      BY <1>3, <1>9, <2>1, <3>1 DEF SessionSound
  <2>2. CASE j \notin DOMAIN t /\ i \in DOMAIN t
    <3>1. t[i][2] <= f.from \/ t[i][2] > f.to
      BY <1>3, <1>9, <2>2 DEF Untaken
    <3>2. t[i][2] \in Nat /\ u[i][2] = t[i][2]
      BY <1>3, <2>2 DEF Taken
    <3>. QED
      BY <1>1, <1>4, <2>2, <3>1, <3>2
  <2>3. CASE j \notin DOMAIN t /\ i \notin DOMAIN t
    <3>1. /\ i - Len(t) \in DOMAIN new /\ j - Len(t) \in DOMAIN new /\ i - Len(t) < j - Len(t)
          /\ u[i][2] = new[i - Len(t)] /\ u[j][2] = new[j - Len(t)]
      BY <1>3, <1>9, <2>3
    <3>2. new[i - Len(t)] < new[j - Len(t)] /\ new[i - Len(t)] \in Nat
      BY <1>2, <1>3, <2>3, <3>1
    <3>. QED
      BY <3>1, <3>2
  <2>. QED
    BY <2>1, <2>2, <2>3
<1>10. SessionSound(u, fs, a, c, w)
  BY <1>6, <1>7, <1>8, <1>9 DEF SessionSound
<1>. QED
  BY <1>10 DEF u

\* What is taken of the panel does not matter to the session, nor a frame that is gone.
LEMMA SessionIgnores ==
  ASSUME NEW t \in Seq(Taken), NEW fs, NEW a \in Seq(Frame),
         NEW cur, NEW w, SessionSound(t, fs, a, cur, w), NEW ms \in Seq(Nat)
  PROVE  SessionSound(t \o Entries("panel", ms), fs, a, cur, w)
<1>. DEFINE u == t \o Entries("panel", ms)
<1>1. /\ u \in Seq(Taken) /\ Len(t) \in Nat
      /\ DOMAIN t = 1 .. Len(t) /\ DOMAIN u = 1 .. Len(t) + Len(ms) /\ Len(ms) \in Nat
      /\ \A i \in DOMAIN t : u[i] = t[i] /\ t[i] \in Taken
      /\ \A i \in DOMAIN u : i \notin DOMAIN t => u[i] = <<"panel", ms[i - Len(t)]>>
  BY EntriesJoined DEF Source
<1>. HIDE DEF u
<1>2. \A i \in DOMAIN u : u[i][1] = "session" => i \in DOMAIN t
  BY <1>1
<1>3. \A g : Untaken(t, g) => Untaken(u, g)
  BY <1>1, <1>2 DEF Untaken
<1>4. \A i \in DOMAIN u : u[i][1] = "session" => u[i][2] <= cur
  BY <1>1, <1>2 DEF SessionSound
<1>5. ASSUME NEW i \in DOMAIN u, NEW j \in DOMAIN u, i < j, u[i][1] = "session" PROVE u[i] # u[j]
  <2>1. CASE j \in DOMAIN t
    BY <1>1, <1>2, <1>5, <2>1 DEF SessionSound
  <2>2. CASE j \notin DOMAIN t
    BY <1>1, <1>2, <1>5, <2>2
  <2>. QED
    BY <2>1, <2>2
<1>6. SessionSound(u, fs, a, cur, w)
  BY <1>3, <1>4, <1>5 DEF SessionSound
<1>. QED
  BY <1>6 DEF u

\* The first frame arrives.
LEMMA SessionTail ==
  ASSUME NEW t, NEW fs \in Seq(Frame), fs # <<>>, NEW a,
         NEW cur, NEW w, SessionSound(t, fs, a, cur, w)
  PROVE  /\ SessionSound(t, Tail(fs), a, cur, w)
         /\ fs[1].kind # "panel" =>
              \A i \in DOMAIN Tail(fs) : Tail(fs)[i].kind # "panel" =>
                fs[1].to <= Tail(fs)[i].from /\ Tail(fs)[i].kind = "session"
<1>1. /\ Len(fs) \in Nat \ {0} /\ DOMAIN fs = 1 .. Len(fs) /\ DOMAIN Tail(fs) = 1 .. Len(fs) - 1
      /\ \A i \in DOMAIN Tail(fs) : i + 1 \in DOMAIN fs /\ Tail(fs)[i] = fs[i + 1]
      /\ 1 \in DOMAIN fs
  BY Shrunk
<1>2. \A i \in DOMAIN Tail(fs) : Tail(fs)[i].kind # "panel" =>
        /\ Tail(fs)[i].to <= w /\ Untaken(t, Tail(fs)[i])
        /\ a # <<>> => a[1].to <= Tail(fs)[i].from /\ Tail(fs)[i].kind # "ack"
  BY <1>1 DEF SessionSound
<1>3. \A i, j \in DOMAIN Tail(fs) : (i < j /\ Tail(fs)[j].kind # "panel") =>
        /\ Tail(fs)[i].kind # "panel" => Tail(fs)[i].to <= Tail(fs)[j].from
        /\ Tail(fs)[j].kind = "session"
  <2>. SUFFICES ASSUME NEW i \in DOMAIN Tail(fs), NEW j \in DOMAIN Tail(fs), i < j,
                       Tail(fs)[j].kind # "panel"
                PROVE  /\ Tail(fs)[i].kind # "panel" => Tail(fs)[i].to <= Tail(fs)[j].from
                       /\ Tail(fs)[j].kind = "session"
    OBVIOUS
  <2>1. i + 1 \in DOMAIN fs /\ j + 1 \in DOMAIN fs /\ i + 1 < j + 1
    BY <1>1
  <2>. QED
    BY <1>1, <2>1 DEF SessionSound
<1>4. ASSUME fs[1].kind # "panel", NEW i \in DOMAIN Tail(fs), Tail(fs)[i].kind # "panel"
      PROVE  fs[1].to <= Tail(fs)[i].from /\ Tail(fs)[i].kind = "session"
  <2>1. i + 1 \in DOMAIN fs /\ 1 < i + 1 /\ Tail(fs)[i] = fs[i + 1]
    BY <1>1
  <2>. QED
    BY <1>1, <1>4, <2>1 DEF SessionSound
<1>. QED
  BY <1>2, <1>3, <1>4 DEF SessionSound

\* The server sends a frame that is apart from those before it.
LEMMA SessionSent ==
  ASSUME NEW t, NEW fs \in Seq(Frame), NEW a \in Seq(Frame),
         NEW cur, NEW w, SessionSound(t, fs, a, cur, w), NEW f \in Frame,
         f.kind # "panel" =>
           /\ f.kind = "session" /\ f.to <= w /\ Untaken(t, f)
           /\ a # <<>> => a[1].to <= f.from
           /\ \A i \in DOMAIN fs : fs[i].kind # "panel" => fs[i].to <= f.from
  PROVE  SessionSound(t, Append(fs, f), a, cur, w)
<1>. DEFINE gs == Append(fs, f)
<1>1. /\ Len(fs) \in Nat /\ DOMAIN fs = 1 .. Len(fs) /\ DOMAIN gs = 1 .. Len(fs) + 1
      /\ \A i \in DOMAIN fs : gs[i] = fs[i]
      /\ gs[Len(fs) + 1] = f
  BY Grown
<1>. HIDE DEF gs
<1>2. \A i \in DOMAIN gs : i \in DOMAIN fs \/ i = Len(fs) + 1
  BY <1>1
<1>3. \A i \in DOMAIN gs : gs[i].kind # "panel" =>
        /\ gs[i].to <= w /\ Untaken(t, gs[i])
        /\ a # <<>> => a[1].to <= gs[i].from /\ gs[i].kind # "ack"
  BY <1>1, <1>2 DEF SessionSound
<1>4. \A i, j \in DOMAIN gs : (i < j /\ gs[j].kind # "panel") =>
        /\ gs[i].kind # "panel" => gs[i].to <= gs[j].from
        /\ gs[j].kind = "session"
  <2>. SUFFICES ASSUME NEW i \in DOMAIN gs, NEW j \in DOMAIN gs, i < j, gs[j].kind # "panel"
                PROVE  /\ gs[i].kind # "panel" => gs[i].to <= gs[j].from
                       /\ gs[j].kind = "session"
    OBVIOUS
  <2>1. i \in DOMAIN fs
    BY <1>1
  <2>2. CASE j \in DOMAIN fs
    BY <1>1, <2>1, <2>2 DEF SessionSound
  <2>3. CASE j = Len(fs) + 1
    BY <1>1, <2>1, <2>3
  <2>. QED
    BY <1>2, <2>2, <2>3
<1>5. SessionSound(t, gs, a, cur, w)
  BY <1>3, <1>4 DEF SessionSound
<1>. QED
  BY <1>5 DEF gs

\* A message of the panel waits, or is dropped, and all that waits is taken.
LEMMA PanelSees ==
  ASSUME NEW t \in Seq(Taken), NEW fs \in Seq(Frame), NEW n \in Nat, NEW b \in Seq(1 .. n),
         NEW mark, PanelSound(t, fs, b, mark, n),
         NEW m \in 1 .. n, mark < m, \A i \in DOMAIN fs : fs[i].kind = "panel" => m <= fs[i].to
  PROVE  /\ PanelSound(t, fs, b, m, n) /\ Append(b, m) # <<>>
         /\ Append(b, m) \in Seq(1 .. n) /\ PanelSound(t, fs, Append(b, m), m, n)
<1>1. mark \in 0 .. n
  BY DEF PanelSound
<1>2. /\ \A i \in DOMAIN b : b[i] \in 1 .. n
      /\ \A i \in DOMAIN t : t[i] \in Taken
  BY LenProperties, ElementOfSeq
<1>3. /\ \A i \in DOMAIN b : b[i] < m
      /\ \A i \in DOMAIN t : t[i][1] = "panel" => t[i][2] < m
  BY <1>1, <1>2 DEF PanelSound, Taken
<1>4. PanelSound(t, fs, b, m, n)
  BY <1>1, <1>2, <1>3 DEF PanelSound, Taken
<1>. DEFINE c == Append(b, m)
<1>5. /\ c \in Seq(1 .. n) /\ Len(b) \in Nat /\ DOMAIN b = 1 .. Len(b) /\ DOMAIN c = 1 .. Len(b) + 1
      /\ \A i \in DOMAIN b : c[i] = b[i]
      /\ c[Len(b) + 1] = m
  BY Grown
<1>. HIDE DEF c
<1>6. \A i \in DOMAIN c : i \in DOMAIN b \/ i = Len(b) + 1
  BY <1>5
<1>7. \A i \in DOMAIN c : c[i] <= m
  BY <1>2, <1>3, <1>5, <1>6
<1>8. \A i, j \in DOMAIN c : i < j => c[i] < c[j]
  <2>. SUFFICES ASSUME NEW i \in DOMAIN c, NEW j \in DOMAIN c, i < j PROVE c[i] < c[j]
    OBVIOUS
  <2>1. i \in DOMAIN b
    BY <1>5
  <2>. QED
    BY <1>3, <1>5, <1>6, <2>1 DEF PanelSound
<1>9. \A i \in DOMAIN t : t[i][1] = "panel" => \A j \in DOMAIN c : t[i][2] < c[j]
  BY <1>3, <1>5, <1>6 DEF PanelSound
<1>10. PanelSound(t, fs, c, m, n)
  BY <1>4, <1>7, <1>8, <1>9 DEF PanelSound
<1>. QED
  BY <1>4, <1>5, <1>10, AppendProperties DEF c

\* The buffer is emptied: its entries come after those that were taken.
LEMMA PanelTakes ==
  ASSUME NEW t \in Seq(Taken), NEW fs, NEW n \in Nat, NEW b \in Seq(1 .. n),
         NEW mark, PanelSound(t, fs, b, mark, n)
  PROVE  /\ t \o Entries("panel", b) \in Seq(Taken)
         /\ PanelSound(t \o Entries("panel", b), fs, <<>>, mark, n)
<1>. DEFINE u == t \o Entries("panel", b)
<1>1. b \in Seq(Nat) /\ \A i \in DOMAIN b : b[i] \in 1 .. n
  BY LenProperties, ElementOfSeq, SeqMonotonic
<1>2. /\ u \in Seq(Taken) /\ Len(t) \in Nat /\ Len(b) \in Nat /\ DOMAIN b = 1 .. Len(b)
      /\ DOMAIN t = 1 .. Len(t) /\ DOMAIN u = 1 .. Len(t) + Len(b)
      /\ \A i \in DOMAIN t : u[i] = t[i] /\ t[i] \in Taken
      /\ \A i \in DOMAIN u : i \notin DOMAIN t =>
           i - Len(t) \in DOMAIN b /\ u[i] = <<"panel", b[i - Len(t)]>>
  BY <1>1, EntriesJoined DEF Source
<1>. HIDE DEF u
<1>3. ASSUME NEW i \in DOMAIN u, u[i][1] = "panel" PROVE u[i][2] <= mark
  <2>1. CASE i \in DOMAIN t
    BY <1>2, <1>3, <2>1 DEF PanelSound
  <2>2. CASE i \notin DOMAIN t
    BY <1>2, <2>2 DEF PanelSound
  <2>. QED
    BY <2>1, <2>2
<1>4. ASSUME NEW i \in DOMAIN u, NEW j \in DOMAIN u, i < j, u[i][1] = "panel", u[j][1] = "panel"
      PROVE  u[i][2] < u[j][2]
  <2>1. CASE j \in DOMAIN t
    <3>1. i \in DOMAIN t
      BY <1>2, <1>4, <2>1
    <3>. QED
      BY <1>2, <1>4, <2>1, <3>1 DEF PanelSound
  <2>2. CASE j \notin DOMAIN t /\ i \in DOMAIN t
    BY <1>2, <1>4, <2>2 DEF PanelSound
  <2>3. CASE j \notin DOMAIN t /\ i \notin DOMAIN t
    <3>1. i - Len(t) \in DOMAIN b /\ j - Len(t) \in DOMAIN b /\ i - Len(t) < j - Len(t)
      BY <1>2, <1>4, <2>3
    <3>2. u[i][2] = b[i - Len(t)] /\ u[j][2] = b[j - Len(t)]
      BY <1>2, <2>3
    <3>. QED
      BY <3>1, <3>2 DEF PanelSound
  <2>. QED
    BY <2>1, <2>2, <2>3
<1>5. PanelSound(u, fs, <<>>, mark, n)
  BY <1>3, <1>4 DEF PanelSound
<1>. QED
  BY <1>2, <1>5 DEF u

\* Messages of the session do not disturb those of the panel.
LEMMA PanelIgnores ==
  ASSUME NEW t \in Seq(Taken), NEW fs, NEW b, NEW mark, NEW n, PanelSound(t, fs, b, mark, n),
         NEW new \in Seq(Nat)
  PROVE  /\ t \o Entries("session", new) \in Seq(Taken)
         /\ PanelSound(t \o Entries("session", new), fs, b, mark, n)
<1>. DEFINE u == t \o Entries("session", new)
<1>1. /\ u \in Seq(Taken) /\ Len(t) \in Nat
      /\ DOMAIN t = 1 .. Len(t) /\ DOMAIN u = 1 .. Len(t) + Len(new) /\ Len(new) \in Nat
      /\ \A i \in DOMAIN t : u[i] = t[i] /\ t[i] \in Taken
      /\ \A i \in DOMAIN u : i \notin DOMAIN t => u[i] = <<"session", new[i - Len(t)]>>
  BY EntriesJoined DEF Source
<1>. HIDE DEF u
<1>2. \A i \in DOMAIN u : u[i][1] = "panel" => i \in DOMAIN t
  BY <1>1
<1>3. PanelSound(u, fs, b, mark, n)
  BY <1>1, <1>2 DEF PanelSound
<1>. QED
  BY <1>1, <1>3 DEF u

\* The first frame arrives.
LEMMA PanelTail ==
  ASSUME NEW t, NEW fs \in Seq(Frame), fs # <<>>, NEW b, NEW mark, NEW n,
         PanelSound(t, fs, b, mark, n)
  PROVE  /\ PanelSound(t, Tail(fs), b, mark, n)
         /\ fs[1].kind = "panel" => /\ fs[1].to \in 1 .. n /\ mark <= fs[1].to
                                    /\ \A i \in DOMAIN Tail(fs) : Tail(fs)[i].kind = "panel" =>
                                         fs[1].to <= Tail(fs)[i].to
<1>. DEFINE gs == Tail(fs)
<1>1. /\ Len(fs) \in Nat \ {0} /\ DOMAIN fs = 1 .. Len(fs) /\ DOMAIN gs = 1 .. Len(fs) - 1
      /\ \A i \in DOMAIN gs : i + 1 \in DOMAIN fs /\ gs[i] = fs[i + 1]
      /\ 1 \in DOMAIN fs
  BY Shrunk
<1>. HIDE DEF gs
<1>2. \A i, j \in DOMAIN gs :
        (i < j /\ gs[i].kind = "panel" /\ gs[j].kind = "panel") => gs[i].to <= gs[j].to
  <2>. SUFFICES ASSUME NEW i \in DOMAIN gs, NEW j \in DOMAIN gs, i < j,
                       gs[i].kind = "panel", gs[j].kind = "panel"
                PROVE  gs[i].to <= gs[j].to
    OBVIOUS
  <2>1. i + 1 \in DOMAIN fs /\ j + 1 \in DOMAIN fs /\ i + 1 < j + 1
    BY <1>1
  <2>. QED
    BY <1>1, <2>1 DEF PanelSound
<1>3. PanelSound(t, gs, b, mark, n)
  BY <1>1, <1>2 DEF PanelSound
<1>4. ASSUME fs[1].kind = "panel", NEW i \in DOMAIN gs, gs[i].kind = "panel"
      PROVE  fs[1].to <= gs[i].to
  <2>1. i + 1 \in DOMAIN fs /\ 1 < i + 1 /\ gs[i] = fs[i + 1]
    BY <1>1
  <2>. QED
    BY <1>1, <1>4, <2>1 DEF PanelSound
<1>5. fs[1].kind = "panel" => fs[1].to \in 1 .. n /\ mark <= fs[1].to
  BY <1>1 DEF PanelSound
<1>. QED
  BY <1>3, <1>4, <1>5 DEF gs

\* The server announces the latest message of the panel.
LEMMA PanelSent ==
  ASSUME NEW t, NEW fs \in Seq(Frame), NEW b, NEW mark, NEW n \in Nat,
         PanelSound(t, fs, b, mark, n),
         NEW f \in Frame, f.kind = "panel" => f.to = n /\ n # 0
  PROVE  PanelSound(t, Append(fs, f), b, mark, n)
<1>. DEFINE gs == Append(fs, f)
<1>1. /\ Len(fs) \in Nat /\ DOMAIN fs = 1 .. Len(fs) /\ DOMAIN gs = 1 .. Len(fs) + 1
      /\ \A i \in DOMAIN fs : gs[i] = fs[i]
      /\ gs[Len(fs) + 1] = f
  BY Grown
<1>. HIDE DEF gs
<1>2. \A i \in DOMAIN gs : i \in DOMAIN fs \/ i = Len(fs) + 1
  BY <1>1
<1>3. \A i \in DOMAIN gs : gs[i].kind = "panel" => gs[i].to \in 1 .. n /\ mark <= gs[i].to
  BY <1>1, <1>2 DEF PanelSound
<1>4. \A i, j \in DOMAIN gs :
        (i < j /\ gs[i].kind = "panel" /\ gs[j].kind = "panel") => gs[i].to <= gs[j].to
  <2>. SUFFICES ASSUME NEW i \in DOMAIN gs, NEW j \in DOMAIN gs, i < j,
                       gs[i].kind = "panel", gs[j].kind = "panel"
                PROVE  gs[i].to <= gs[j].to
    OBVIOUS
  <2>1. i \in DOMAIN fs
    BY <1>1
  <2>. QED
    BY <1>1, <1>2, <2>1 DEF PanelSound
<1>5. PanelSound(t, gs, b, mark, n)
  BY <1>3, <1>4 DEF PanelSound
<1>. QED
  BY <1>5 DEF gs

\* A payload of the session moves the cursor forward and takes what is new.
LEMMA PayloadSound ==
  ASSUME MochatTyped, file <= cursor, NEW f \in Frame, f.to <= written, Untaken(taken, f),
         NEW fs \in Seq(Frame), NEW a \in Seq(Frame), NEW b, NEW mark, NEW n,
         SessionSound(taken, fs, a, cursor, written), PanelSound(taken, fs, b, mark, n),
         \A i \in DOMAIN fs : fs[i].kind # "panel" => f.to <= fs[i].from,
         a # <<>> => a[1].to <= f.from,
         SessionPayload(f)
  PROVE  /\ cursor' \in -1 .. written /\ file <= cursor' /\ {cold', saving'} \subseteq BOOLEAN
         /\ seenIds' \in [Source -> Seq(Nat)] /\ \A k \in Source : Len(seenIds'[k]) <= SeenIds
         /\ seenIds'["panel"] = seenIds["panel"]
         /\ taken' \in Seq(Taken)
         /\ SessionSound(taken', fs, a, cursor', written) /\ PanelSound(taken', fs, b, mark, n)
<1>1. f.to \in Nat /\ f.from \in Nat /\ f.from <= f.to /\ written \in Nat
      /\ cursor \in -1 .. written /\ file \in -1 .. written
  BY FrameFacts, MochatAssumption DEF MochatTyped
<1>2. /\ cursor' \in -1 .. written /\ cursor <= cursor' /\ f.to <= cursor' /\ file <= cursor'
      /\ saving' \in BOOLEAN
  <2>1. MarkCursor(f.to) /\ saving \in BOOLEAN
    BY DEF SessionPayload, MochatTyped
  <2>2. CASE f.to >= cursor
    <3>1. cursor' = f.to /\ saving' = TRUE
      BY <2>1, <2>2 DEF MarkCursor
    <3>. QED
      BY <1>1, <2>2, <3>1
  <2>3. CASE ~(f.to >= cursor)
    <3>1. cursor' = cursor /\ saving' = saving
      BY <2>1, <2>3 DEF MarkCursor
    <3>. QED
      BY <1>1, <2>1, <2>3, <3>1
  <2>. QED
    BY <2>2, <2>3
<1>3. CASE cold
  <2>1. cold' = FALSE /\ seenIds' = seenIds /\ taken' = taken
    BY <1>3 DEF SessionPayload
  <2>2. SessionSound(taken, fs, a, cursor', written)
    <3>1. \A i \in DOMAIN taken : taken[i] \in Taken
      BY LenProperties, ElementOfSeq DEF MochatTyped
    <3>2. \A i \in DOMAIN taken : taken[i][1] = "session" => taken[i][2] <= cursor'
      BY <1>1, <1>2, <3>1 DEF SessionSound, Taken
    <3>. QED
      BY <3>2 DEF SessionSound
  <2>. QED
    BY <1>2, <2>1, <2>2 DEF MochatTyped
<1>4. CASE ~cold
  <2>. DEFINE p == Processed(seenIds["session"], f.from, f.to)
  <2>1. /\ cold' = cold /\ seenIds' = [seenIds EXCEPT !["session"] = p.ids]
        /\ taken' = taken \o Entries("session", p.new)
    BY <1>4 DEF SessionPayload
  <2>2. seenIds["session"] \in Memory /\ seenIds \in [Source -> Seq(Nat)] /\ taken \in Seq(Taken)
    BY DEF MochatTyped, Source, Memory
  <2>3. p.ids \in Memory /\ NewSound(p.new, f.from, f.to)
    BY <1>1, <2>2, ProcessedSound
  <2>. HIDE DEF p
  <2>4. p.ids \in Seq(Nat) /\ Len(p.ids) <= SeenIds /\ p.new \in Seq(Nat)
    BY <2>3 DEF Memory, NewSound
  <2>5. /\ seenIds' \in [Source -> Seq(Nat)] /\ \A k \in Source : Len(seenIds'[k]) <= SeenIds
        /\ seenIds'["panel"] = seenIds["panel"]
    BY <2>1, <2>2, <2>4 DEF MochatTyped, Source
  <2>6. SessionSound(taken', fs, a, cursor', written)
    <3>1. cursor \in Int /\ cursor' \in Int
      BY <1>1, <1>2
    <3>2. SessionSound(taken \o Entries("session", p.new), fs, a, cursor', written)
      BY <1>1, <1>2, <2>2, <2>3, <3>1, SessionTakes
    <3>. QED
      BY <2>1, <3>2
  <2>7. taken' \in Seq(Taken) /\ PanelSound(taken', fs, b, mark, n)
    BY <2>1, <2>2, <2>4, PanelIgnores
  <2>8. cold' \in BOOLEAN
    BY <2>1 DEF MochatTyped
  <2>. QED
    BY <1>2, <2>5, <2>6, <2>7, <2>8
<1>. QED
  BY <1>3, <1>4

\* The messages of the panel that come again are known, for they come in order.
LEMMA PanelMessageSound ==
  ASSUME MochatTyped, timer <=> buffer # <<>>,
         NEW n \in Nat, n = Len(panel), NEW m \in 1 .. n, NEW fs \in Seq(Frame),
         NEW a \in Seq(Frame),
         SessionSound(taken, fs, a, cursor, written),
         PanelSound(taken, fs, buffer, Mark(seenIds["panel"]), n),
         Mark(seenIds["panel"]) <= m, \A i \in DOMAIN fs : fs[i].kind = "panel" => m <= fs[i].to,
         PanelMessage(m)
  PROVE  /\ timer' \in BOOLEAN /\ buffer' \in Seq(1 .. n) /\ (timer' <=> buffer' # <<>>)
         /\ seenIds' \in [Source -> Seq(Nat)] /\ \A k \in Source : Len(seenIds'[k]) <= SeenIds
         /\ taken' \in Seq(Taken)
         /\ SessionSound(taken', fs, a, cursor, written)
         /\ PanelSound(taken', fs, buffer', Mark(seenIds'["panel"]), n)
<1>. DEFINE ids == seenIds["panel"]
<1>1. /\ seenIds \in [Source -> Seq(Nat)] /\ ids \in Seq(Nat) /\ Len(ids) <= SeenIds
      /\ taken \in Seq(Taken) /\ buffer \in Seq(1 .. n) /\ timer \in BOOLEAN
  BY DEF MochatTyped, Source
<1>2. CASE m \in Range(ids)
  BY <1>1, <1>2 DEF PanelMessage, MochatTyped
<1>3. CASE m \notin Range(ids)
  <2>1. Mark(ids) < m
    <3>1. CASE ids = <<>>
      BY <3>1 DEF Mark
    <3>2. CASE ids # <<>>
      <4>1. Len(ids) \in DOMAIN ids /\ ids[Len(ids)] \in Nat
        BY <1>1, <3>2, EmptySeq, LenProperties, ElementOfSeq
      <4>2. ids[Len(ids)] # m
        BY <1>3, <4>1 DEF Range
      <4>. QED
        BY <3>2, <4>1, <4>2 DEF Mark
    <3>. QED
      BY <3>1, <3>2
  <2>2. m \in Nat /\ seenIds' = [seenIds EXCEPT !["panel"] = Note(ids, m)]
    BY <1>3 DEF PanelMessage
  <2>3. Note(ids, m) \in Seq(Nat) /\ Len(Note(ids, m)) <= SeenIds /\ Mark(Note(ids, m)) = m
    BY <1>1, <2>2, NoteSound
  <2>4. seenIds' \in [Source -> Seq(Nat)] /\ \A k \in Source : Len(seenIds'[k]) <= SeenIds
    BY <1>1, <2>2, <2>3 DEF MochatTyped, Source
  <2>5. Mark(seenIds'["panel"]) = m
    BY <1>1, <2>2, <2>3 DEF Source
  <2>6. /\ PanelSound(taken, fs, buffer, m, n) /\ Append(buffer, m) # <<>>
        /\ Append(buffer, m) \in Seq(1 .. n) /\ PanelSound(taken, fs, Append(buffer, m), m, n)
    <3>. HIDE DEF ids
    <3>. QED
      BY <1>1, <2>1, PanelSees DEF ids
  <2>7. CASE Flush(<<m>>)
    <3>1. timer' = FALSE /\ buffer' = <<>> /\ taken' = taken \o Entries("panel", buffer \o <<m>>)
      BY <2>7 DEF Flush
    <3>2. buffer \o <<m>> = Append(buffer, m)
      BY <1>1, AppendIsConcat
    <3>3. taken' \in Seq(Taken) /\ PanelSound(taken', fs, <<>>, m, n)
      BY <1>1, <2>6, <3>1, <3>2, PanelTakes
    <3>4. Append(buffer, m) \in Seq(Nat)
      BY <2>6, SeqMonotonic
    <3>5. SessionSound(taken', fs, a, cursor, written)
      BY <1>1, <3>1, <3>2, <3>4, SessionIgnores
    <3>6. timer' \in BOOLEAN /\ (timer' <=> buffer' # <<>>)
      BY <3>1, Zenon
    <3>7. buffer' \in Seq(1 .. n)
      BY <3>1, EmptySeq, Zenon
    <3>. QED
      BY <2>4, <2>5, <3>1, <3>3, <3>5, <3>6, <3>7
  <2>8. CASE Enqueue(m)
    <3>1. timer' = TRUE /\ buffer' = Append(buffer, m) /\ taken' = taken
      BY <2>8 DEF Enqueue
    <3>2. timer' \in BOOLEAN /\ (timer' <=> buffer' # <<>>)
      BY <2>6, <3>1
    <3>. QED
      BY <1>1, <2>4, <2>5, <2>6, <3>1, <3>2
  <2>9. CASE UNCHANGED <<buffer, timer, taken>>
    BY <1>1, <2>4, <2>5, <2>6, <2>9
  <2>. QED
    BY <1>3, <2>7, <2>8, <2>9 DEF PanelMessage
<1>. QED
  BY <1>2, <1>3

-----------------------------------------------------------------------------
(* Mochat: the actions.                                                    *)

\* No message was written yet.
LEMMA MochatStarts == MochatInit => MochatInv
<1>. SUFFICES ASSUME MochatInit PROVE MochatInv
  OBVIOUS
<1>. USE DEF MochatInit
<1>1. MochatTyped
  <2>1. SeenIds \in Nat /\ MaxSession \in Nat /\ MaxPanel \in Nat
    BY MochatAssumption
  <2>2. /\ frames \in Seq(Frame) /\ ack \in Seq(Frame) /\ panel \in Seq(BOOLEAN)
        /\ Len(panel) <= MaxPanel
        /\ buffer \in Seq(1 .. Len(panel)) /\ taken \in Seq(Taken)
    BY <2>1, EmptySeq
  <2>3. seenIds \in [Source -> Seq(Nat)] /\ \A k \in Source : Len(seenIds[k]) <= SeenIds
    BY <2>1, EmptySeq DEF Source
  <2>4. /\ life \in {"off", "running", "ended"}
        /\ socket \in {"none", "dead", "down", "asking", "up"}
        /\ written \in 0 .. MaxSession /\ {asked, cursor, file} \subseteq -1 .. written
    BY <2>1
  <2>5. {delays, wsReady, fallback, pushing, saving, cold, timer} \subseteq BOOLEAN
    OBVIOUS
  <2>. QED
    BY <2>2, <2>3, <2>4, <2>5 DEF MochatTyped
<1>2. SessionSound(taken, frames, ack, cursor, written)
  BY DEF SessionSound
<1>3. PanelSound(taken, frames, buffer, Mark(seenIds["panel"]), Len(panel))
  BY EmptySeq DEF PanelSound, Mark
<1>. QED
  BY <1>1, <1>2, <1>3 DEF MochatInv, Active

\* One more message is written in the session.
LEMMA SessionLater ==
  ASSUME NEW t, NEW fs \in Seq(Frame), NEW a \in Seq(Frame), NEW cur, NEW w \in Nat,
         SessionSound(t, fs, a, cur, w)
  PROVE  SessionSound(t, fs, a, cur, w + 1)
<1>1. \A i \in DOMAIN fs : fs[i].to \in Nat
  BY LenProperties, ElementOfSeq, FrameFacts
<1>2. a # <<>> => a[1].to \in Nat
  BY Shrunk, FrameFacts
<1>3. \A i \in DOMAIN fs : fs[i].kind # "panel" =>
       /\ fs[i].to <= w + 1 /\ Untaken(t, fs[i])
       /\ a # <<>> => a[1].to <= fs[i].from /\ fs[i].kind # "ack"
  BY <1>1 DEF SessionSound
<1>4. a # <<>> => a[1].to <= w + 1 /\ Untaken(t, a[1])
  BY <1>2 DEF SessionSound
<1>. QED
  BY <1>3, <1>4 DEF SessionSound

\* A message in the session, and the frame that announces it.
LEMMA SessionWritesSound == MochatInv /\ SessionWrites => MochatInv'
<1>. SUFFICES ASSUME MochatInv, SessionWrites PROVE MochatInv'
  OBVIOUS
<1>. DEFINE f == [kind |-> "session", from |-> written, to |-> written + 1]
<1>1. /\ MaxSession \in Nat /\ written \in Nat /\ written < MaxSession /\ written' = written + 1
      /\ {asked, cursor, file} \subseteq -1 .. written
      /\ frames \in Seq(Frame) /\ ack \in Seq(Frame) /\ taken \in Seq(Taken)
  BY MochatAssumption DEF MochatInv, MochatTyped, SessionWrites
<1>2. UNCHANGED <<life, delays, socket, wsReady, fallback, pushing, asked, ack, cursor, file, saving, cold,
                  panel, buffer, timer, seenIds, taken>>
  BY DEF SessionWrites, panelVars
<1>3. f \in Frame
  BY <1>1 DEF Frame
<1>4. SessionSound(taken, frames, ack, cursor, written + 1)
  BY <1>1, SessionLater DEF MochatInv
<1>5. \A i \in DOMAIN frames : frames[i].kind # "panel" => frames[i].to <= written
  BY DEF MochatInv, SessionSound
<1>6. ack # <<>> => ack[1].to <= written
  BY DEF MochatInv, SessionSound
<1>7. Untaken(taken, f)
  <2>1. ASSUME NEW i \in DOMAIN taken, taken[i][1] = "session" PROVE taken[i][2] <= written
    <3>1. taken[i] \in Taken
      BY <1>1, LenProperties, ElementOfSeq
    <3>2. taken[i][2] <= cursor /\ taken[i][2] \in Nat
      BY <2>1, <3>1 DEF MochatInv, SessionSound, Taken
    <3>. QED
      BY <1>1, <3>2
  <2>. QED
    BY <2>1 DEF Untaken
<1>8. SessionSound(taken, Append(frames, f), ack, cursor, written + 1)
  <2>. HIDE DEF f
  <2>1. f.kind = "session" /\ f.to = written + 1 /\ f.from = written
    BY DEF f
  <2>. QED
    BY <1>1, <1>3, <1>4, <1>5, <1>6, <1>7, <2>1, SessionSent
<1>9. PanelSound(taken, Append(frames, f), buffer, Mark(seenIds["panel"]), Len(panel))
  <2>1. Len(panel) \in Nat
    BY LenProperties DEF MochatInv, MochatTyped
  <2>. HIDE DEF f
  <2>2. f.kind # "panel"
    BY DEF f
  <2>. QED
    BY <1>1, <1>3, <2>1, <2>2, PanelSent DEF MochatInv
<1>10. /\ frames' \in Seq(Frame) /\ (~pushing => frames' = frames)
       /\ SessionSound(taken, frames', ack, cursor, written + 1)
       /\ PanelSound(taken, frames', buffer, Mark(seenIds["panel"]), Len(panel))
  <2>1. CASE pushing
    <3>1. frames' = Append(frames, f)
      BY <2>1 DEF SessionWrites
    <3>2. Append(frames, f) \in Seq(Frame)
      <4>. HIDE DEF f
      <4>. QED
        BY <1>1, <1>3, AppendProperties
    <3>. QED
      BY <1>8, <1>9, <2>1, <3>1, <3>2
  <2>2. CASE ~pushing
    <3>1. frames' = frames
      BY <2>2 DEF SessionWrites
    <3>. QED
      BY <1>1, <1>4, <3>1 DEF MochatInv
  <2>. QED
    BY <2>1, <2>2
<1>11. MochatTyped'
  <2>1. written' \in 0 .. MaxSession /\ {asked, cursor, file} \subseteq -1 .. written'
    BY <1>1
  <2>. QED
    BY <1>2, <1>10, <2>1 DEF MochatInv, MochatTyped
<1>. QED
  BY <1>1, <1>2, <1>10, <1>11 DEF MochatInv, Active

\* A message in the panel, which may be announced twice.
LEMMA PanelWritesSound == MochatInv /\ PanelWrites => MochatInv'
<1>. SUFFICES ASSUME MochatInv, PanelWrites PROVE MochatInv'
  OBVIOUS
<1>. DEFINE n == Len(panel)
            f == [kind |-> "panel", from |-> n, to |-> n + 1]
            mark == Mark(seenIds["panel"])
<1>1. /\ panel \in Seq(BOOLEAN) /\ n \in Nat /\ n < MaxPanel /\ MaxPanel \in Nat
      /\ frames \in Seq(Frame) /\ ack \in Seq(Frame) /\ buffer \in Seq(1 .. n)
  BY LenProperties, MochatAssumption DEF MochatInv, MochatTyped, PanelWrites
<1>2. UNCHANGED <<life, delays, socket, wsReady, fallback, written, pushing, asked, ack, cursor, file, saving,
                  cold, buffer, timer, seenIds, taken>>
  BY DEF PanelWrites, sessionVars
<1>3. PICK mention \in BOOLEAN : panel' = Append(panel, mention)
  BY DEF PanelWrites
<1>4. panel' \in Seq(BOOLEAN) /\ Len(panel') = n + 1
  BY <1>1, <1>3, AppendProperties
<1>5. f \in Frame /\ f.kind = "panel" /\ f.to = n + 1
  BY <1>1 DEF Frame
<1>6. frames' = IF pushing THEN frames \o <<f, f>> ELSE frames
  BY DEF PanelWrites
<1>. HIDE DEF f
<1>7. PanelSound(taken, frames, buffer, mark, n + 1)
  <2>1. PanelSound(taken, frames, buffer, mark, n)
    BY DEF MochatInv
  <2>. HIDE DEF mark, n
  <2>. QED
    BY <1>1, <2>1 DEF PanelSound
<1>8. SessionSound(taken, frames, ack, cursor, written)
  BY DEF MochatInv
<1>. DEFINE gs == Append(Append(frames, f), f)
<1>9. gs \in Seq(Frame) /\ gs = frames \o <<f, f>>
  <2>1. Append(frames, f) \in Seq(Frame) /\ Append(frames, f) = frames \o <<f>>
    BY <1>1, <1>5, AppendProperties, AppendIsConcat
  <2>2. gs \in Seq(Frame) /\ gs = Append(frames, f) \o <<f>>
    BY <1>5, <2>1, AppendProperties, AppendIsConcat
  <2>3. <<f>> \in Seq(Frame) /\ <<f>> \o <<f>> = <<f, f>>
    <3>1. <<f>> \in Seq(Frame)
      BY <1>5
    <3>2. Append(<<f>>, f) = <<f>> \o <<f>>
      BY <1>5, <3>1, AppendIsConcat
    <3>3. Append(<<f>>, f) = <<f, f>>
      <4>1. /\ Append(<<f>>, f) \in Seq(Frame) /\ Len(Append(<<f>>, f)) = 2
            /\ Append(<<f>>, f)[1] = f /\ Append(<<f>>, f)[2] = f
        BY <1>5, <3>1, AppendProperties
      <4>2. <<f, f>> \in Seq(Frame) /\ Len(<<f, f>>) = 2
        BY <1>5
      <4>3. \A i \in 1 .. 2 : Append(<<f>>, f)[i] = <<f, f>>[i]
        BY <4>1
      <4>. QED
        BY <4>1, <4>2, <4>3, SeqEqual
    <3>. QED
      BY <3>1, <3>2, <3>3
  <2>4. (frames \o <<f>>) \o <<f>> = frames \o (<<f>> \o <<f>>)
    BY <1>1, <2>3, ConcatAssociative
  <2>. QED
    BY <2>1, <2>2, <2>3, <2>4
<1>10. /\ SessionSound(taken, Append(frames, f), ack, cursor, written)
       /\ PanelSound(taken, Append(frames, f), buffer, mark, n + 1)
       /\ Append(frames, f) \in Seq(Frame)
  <2>1. n + 1 \in Nat /\ n + 1 # 0
    BY <1>1
  <2>. HIDE DEF n, mark
  <2>. QED
    BY <1>1, <1>5, <1>7, <1>8, <2>1, SessionSent, PanelSent, AppendProperties
<1>11. /\ SessionSound(taken, gs, ack, cursor, written)
       /\ PanelSound(taken, gs, buffer, mark, n + 1)
  <2>1. n + 1 \in Nat /\ n + 1 # 0
    BY <1>1
  <2>. HIDE DEF n, mark
  <2>. QED
    BY <1>1, <1>5, <1>10, <2>1, SessionSent, PanelSent
<1>. HIDE DEF gs, mark
<1>12. /\ frames' \in Seq(Frame) /\ (~pushing => frames' = frames)
       /\ SessionSound(taken, frames', ack, cursor, written)
       /\ PanelSound(taken, frames', buffer, mark, n + 1)
  BY <1>1, <1>6, <1>7, <1>8, <1>9, <1>11
<1>13. MochatTyped'
  <2>1. Len(panel') <= MaxPanel /\ buffer \in Seq(1 .. Len(panel'))
    <3>1. 1 .. n \subseteq 1 .. n + 1
      BY <1>1
    <3>2. buffer \in Seq(1 .. n + 1)
      BY <1>1, <3>1, SeqMonotonic
    <3>. QED
      BY <1>1, <1>4, <3>2
  <2>. QED
    BY <1>2, <1>4, <1>12, <2>1 DEF MochatInv, MochatTyped
<1>. QED
  BY <1>2, <1>4, <1>12, <1>13 DEF MochatInv, Active, mark

\* The server answers the subscription from the cursor it was asked for.
LEMMA AcknowledgesSound == MochatInv /\ Acknowledges => MochatInv'
<1>. SUFFICES ASSUME MochatInv, Acknowledges PROVE MochatInv'
  OBVIOUS
<1>. DEFINE f == [kind |-> "ack", from |-> IF asked < 0 THEN 0 ELSE asked, to |-> written]
            mark == Mark(seenIds["panel"])
<1>1. /\ written \in Nat /\ {asked, cursor, file} \subseteq -1 .. written /\ taken \in Seq(Taken)
      /\ frames = <<>> /\ ack = <<>> /\ asked = cursor /\ Active
  BY MochatAssumption DEF MochatInv, MochatTyped, Acknowledges
<1>2. UNCHANGED <<life, delays, socket, wsReady, fallback, written, asked, ack, cursor, file, saving, cold,
                  panel, buffer, timer, seenIds, taken>>
      /\ pushing' = TRUE
  BY DEF Acknowledges, panelVars
<1>3. f \in Frame /\ f.kind = "ack" /\ f.to = written
  BY <1>1 DEF Frame
<1>4. Untaken(taken, f)
  <2>1. ASSUME NEW i \in DOMAIN taken, taken[i][1] = "session" PROVE taken[i][2] <= f.from
    <3>1. taken[i] \in Taken
      BY <1>1, LenProperties, ElementOfSeq
    <3>2. taken[i][2] <= cursor /\ taken[i][2] \in Nat
      BY <2>1, <3>1 DEF MochatInv, SessionSound, Taken
    <3>. QED
      BY <1>1, <3>2
  <2>. QED
    BY <2>1 DEF Untaken
<1>5. frames' = Append(<<>>, f)
  BY <1>1 DEF Acknowledges
<1>. HIDE DEF f
<1>6. frames' \in Seq(Frame) /\ DOMAIN frames' = {1} /\ frames'[1] = f
  BY <1>3, <1>5
<1>7. SessionSound(taken, frames', ack, cursor, written)
  <2>1. SessionSound(taken, frames, ack, cursor, written)
    BY DEF MochatInv
  <2>2. \A i, j \in DOMAIN frames' : ~(i < j)
    BY <1>6
  <2>. QED
    BY <1>1, <1>3, <1>4, <1>6, <2>1, <2>2 DEF SessionSound
<1>8. PanelSound(taken, frames', buffer, mark, Len(panel))
  <2>1. PanelSound(taken, frames, buffer, mark, Len(panel))
    BY DEF MochatInv
  <2>. HIDE DEF mark
  <2>. QED
    BY <1>3, <1>6, <2>1 DEF PanelSound
<1>9. MochatTyped'
  BY <1>2, <1>6 DEF MochatInv, MochatTyped
<1>. QED
  BY <1>1, <1>2, <1>7, <1>8, <1>9 DEF MochatInv, Active

\* A frame is processed whole, before the next one.
LEMMA FrameArrivesSound == MochatInv /\ FrameArrives => MochatInv'
<1>. SUFFICES ASSUME MochatInv, FrameArrives PROVE MochatInv'
  OBVIOUS
<1>. DEFINE f == Head(frames)
            fs == Tail(frames)
            n == Len(panel)
            mark == Mark(seenIds["panel"])
<1>1. /\ Active /\ frames # <<>> /\ frames' = fs
      /\ UNCHANGED <<life, delays, socket, wsReady, fallback, written, pushing, asked, file, panel>>
  BY DEF FrameArrives
<1>2. /\ frames \in Seq(Frame) /\ ack \in Seq(Frame) /\ taken \in Seq(Taken)
      /\ MochatTyped /\ file <= cursor /\ (timer <=> buffer # <<>>)
      /\ SessionSound(taken, frames, ack, cursor, written)
      /\ PanelSound(taken, frames, buffer, mark, n)
      /\ n \in Nat
  BY LenProperties DEF MochatInv, MochatTyped
<1>3. f = frames[1] /\ f \in Frame /\ fs \in Seq(Frame) /\ 1 \in DOMAIN frames
  BY <1>1, <1>2, Shrunk
<1>4. /\ SessionSound(taken, fs, ack, cursor, written)
      /\ f.kind # "panel" =>
           \A i \in DOMAIN fs : fs[i].kind # "panel" => f.to <= fs[i].from /\ fs[i].kind = "session"
  BY <1>1, <1>2, <1>3, SessionTail
<1>5. /\ PanelSound(taken, fs, buffer, mark, n)
      /\ f.kind = "panel" => /\ f.to \in 1 .. n /\ mark <= f.to
                             /\ \A i \in DOMAIN fs : fs[i].kind = "panel" => f.to <= fs[i].to
  <2>. HIDE DEF mark, n
  <2>. QED
    BY <1>1, <1>2, <1>3, PanelTail
<1>6. f.kind # "panel" => /\ f.to <= written /\ Untaken(taken, f)
                          /\ ack # <<>> => ack[1].to <= f.from /\ f.kind # "ack"
  <2>. HIDE DEF f
  <2>. QED
    BY <1>2, <1>3 DEF SessionSound
<1>7. pushing /\ pushing'
  BY <1>1 DEF MochatInv
<1>. HIDE DEF f, fs, mark, n
<1>8. CASE f.kind = "ack"
  <2>1. ack' = <<f>> /\ UNCHANGED <<cursor, saving, cold, seenIds, buffer, timer, taken>>
    BY <1>8 DEF FrameArrives, f
  <2>2. ack' \in Seq(Frame) /\ ack'[1] = f
    BY <1>3, <2>1
  <2>3. SessionSound(taken, fs, ack', cursor, written)
    <3>1. ack = <<>>
      BY <1>6, <1>8
    <3>. QED
      BY <1>4, <1>6, <1>8, <2>2, <3>1 DEF SessionSound
  <2>4. MochatTyped'
    BY <1>1, <1>2, <1>3, <2>1, <2>2 DEF MochatTyped
  <2>. QED
    BY <1>1, <1>2, <1>5, <1>7, <2>1, <2>3, <2>4 DEF MochatInv, Active, mark, n
<1>9. CASE f.kind = "session"
  <2>1. SessionPayload(f) /\ UNCHANGED <<ack, buffer, timer>>
    BY <1>9 DEF FrameArrives, f
  <2>2. /\ cursor' \in -1 .. written /\ file <= cursor' /\ {cold', saving'} \subseteq BOOLEAN
        /\ seenIds' \in [Source -> Seq(Nat)] /\ \A k \in Source : Len(seenIds'[k]) <= SeenIds
        /\ seenIds'["panel"] = seenIds["panel"]
        /\ taken' \in Seq(Taken)
        /\ SessionSound(taken', fs, ack, cursor', written)
        /\ PanelSound(taken', fs, buffer, mark, n)
    BY <1>2, <1>3, <1>4, <1>5, <1>6, <1>9, <2>1, PayloadSound
  <2>3. MochatTyped'
    BY <1>1, <1>2, <1>3, <2>1, <2>2 DEF MochatTyped
  <2>. QED
    BY <1>1, <1>2, <1>7, <2>1, <2>2, <2>3 DEF MochatInv, Active, mark, n
<1>10. CASE f.kind = "panel"
  <2>1. PanelMessage(f.to) /\ UNCHANGED <<ack, cursor, saving, cold>>
    BY <1>10 DEF FrameArrives, f
  <2>2. /\ timer' \in BOOLEAN /\ buffer' \in Seq(1 .. n) /\ (timer' <=> buffer' # <<>>)
        /\ seenIds' \in [Source -> Seq(Nat)] /\ \A k \in Source : Len(seenIds'[k]) <= SeenIds
        /\ taken' \in Seq(Taken)
        /\ SessionSound(taken', fs, ack, cursor, written)
        /\ PanelSound(taken', fs, buffer', Mark(seenIds'["panel"]), n)
    <3>1. f.to \in 1 .. n /\ n = Len(panel)
      BY <1>5, <1>10 DEF n
    <3>2. /\ PanelSound(taken, fs, buffer, Mark(seenIds["panel"]), n)
          /\ Mark(seenIds["panel"]) <= f.to
          /\ \A i \in DOMAIN fs : fs[i].kind = "panel" => f.to <= fs[i].to
      BY <1>5, <1>10 DEF mark
    <3>. QED
      BY <1>2, <1>3, <1>4, <2>1, <3>1, <3>2, PanelMessageSound
  <2>3. MochatTyped'
    BY <1>1, <1>2, <1>3, <2>1, <2>2 DEF MochatTyped, n
  <2>. QED
    BY <1>1, <1>2, <1>7, <2>1, <2>2, <2>3 DEF MochatInv, Active, n
<1>. QED
  BY <1>3, <1>8, <1>9, <1>10, FrameFacts

\* The answer to the subscription is processed.
LEMMA SubscribeReturnsSound == MochatInv /\ SubscribeReturns => MochatInv'
<1>. SUFFICES ASSUME MochatInv, SubscribeReturns PROVE MochatInv'
  OBVIOUS
<1>. DEFINE f == ack[1]
            n == Len(panel)
            mark == Mark(seenIds["panel"])
<1>1. /\ Active /\ ack # <<>> /\ ack' = <<>> /\ SessionPayload(f)
      /\ UNCHANGED <<life, delays, written, pushing, asked, frames, file, panel, buffer, timer>>
      /\ socket' = IF socket = "asking" THEN "up" ELSE socket
      /\ wsReady' = TRUE /\ fallback' = FALSE
  BY DEF SubscribeReturns, panelVars
<1>2. /\ frames \in Seq(Frame) /\ ack \in Seq(Frame)
      /\ MochatTyped /\ file <= cursor
      /\ SessionSound(taken, frames, ack, cursor, written)
      /\ PanelSound(taken, frames, buffer, mark, n)
  BY DEF MochatInv, MochatTyped
<1>3. f \in Frame
  BY <1>1, <1>2, Shrunk
<1>4. /\ f.to <= written /\ Untaken(taken, f)
      /\ \A i \in DOMAIN frames : frames[i].kind # "panel" => f.to <= frames[i].from
  BY <1>1, <1>2 DEF SessionSound
<1>5. SessionSound(taken, frames, <<>>, cursor, written)
  BY <1>2 DEF SessionSound
<1>. HIDE DEF f, mark, n
<1>6. /\ cursor' \in -1 .. written /\ file <= cursor' /\ {cold', saving'} \subseteq BOOLEAN
      /\ seenIds' \in [Source -> Seq(Nat)] /\ \A k \in Source : Len(seenIds'[k]) <= SeenIds
      /\ seenIds'["panel"] = seenIds["panel"]
      /\ taken' \in Seq(Taken)
      /\ SessionSound(taken', frames, <<>>, cursor', written)
      /\ PanelSound(taken', frames, buffer, mark, n)
  <2>1. <<>> \in Seq(Frame)
    BY EmptySeq
  <2>. QED
    BY <1>1, <1>2, <1>3, <1>4, <1>5, <2>1, PayloadSound
<1>7. socket' \in {"none", "dead", "down", "asking", "up"} /\ socket' # "asking"
  BY <1>1, <1>2 DEF MochatTyped
<1>8. MochatTyped'
  <2>1. ack' \in Seq(Frame)
    BY <1>1, EmptySeq
  <2>. QED
    BY <1>1, <1>2, <1>6, <1>7, <2>1 DEF MochatTyped
<1>. QED
  BY <1>1, <1>6, <1>7, <1>8 DEF MochatInv, Active, mark, n

\* The connection is lost, and the frames with it.
LEMMA DisconnectedSound == MochatInv /\ Disconnected => MochatInv'
<1>. SUFFICES ASSUME MochatInv, Disconnected PROVE MochatInv'
  OBVIOUS
<1>1. /\ UNCHANGED <<life, delays, written, asked, ack, cursor, file, saving, cold, panel, buffer, timer,
                     seenIds, taken>>
      /\ Active /\ socket' = "down" /\ wsReady' = FALSE /\ fallback' = TRUE
      /\ frames' = <<>> /\ pushing' = FALSE
  BY DEF Disconnected, panelVars
<1>2. SessionSound(taken, <<>>, ack, cursor, written)
  BY DEF MochatInv, SessionSound
<1>3. PanelSound(taken, <<>>, buffer, Mark(seenIds["panel"]), Len(panel))
  BY DEF MochatInv, PanelSound
<1>4. MochatTyped'
  <2>1. frames' \in Seq(Frame)
    BY <1>1, EmptySeq
  <2>. QED
    BY <1>1, <2>1 DEF MochatInv, MochatTyped
<1>. QED
  BY <1>1, <1>2, <1>3, <1>4 DEF MochatInv, Active

\* The delay is over.
LEMMA TimerFiresSound == MochatInv /\ TimerFires => MochatInv'
<1>. SUFFICES ASSUME MochatInv, TimerFires PROVE MochatInv'
  OBVIOUS
<1>. DEFINE n == Len(panel)
            mark == Mark(seenIds["panel"])
<1>1. /\ UNCHANGED <<life, delays, socket, wsReady, fallback, frames, written, pushing, asked, ack, cursor, file,
                     saving, cold, panel, seenIds>>
      /\ timer' = FALSE /\ buffer' = <<>> /\ taken' = taken \o Entries("panel", buffer \o <<>>)
  BY DEF TimerFires, Flush, sessionVars
<1>2. /\ ack \in Seq(Frame) /\ taken \in Seq(Taken) /\ buffer \in Seq(1 .. n) /\ n \in Nat
      /\ SessionSound(taken, frames, ack, cursor, written)
      /\ PanelSound(taken, frames, buffer, mark, n)
  BY LenProperties DEF MochatInv, MochatTyped
<1>3. buffer \in Seq(Nat) /\ buffer \o <<>> = buffer
  BY <1>2, SeqMonotonic, ConcatEmptySeq
<1>. HIDE DEF n, mark
<1>4. /\ taken' \in Seq(Taken) /\ PanelSound(taken', frames, <<>>, mark, n)
      /\ SessionSound(taken', frames, ack, cursor, written)
  BY <1>1, <1>2, <1>3, PanelTakes, SessionIgnores
<1>5. timer' = FALSE /\ buffer' = <<>>
  BY <1>1
<1>6. buffer' \in Seq(1 .. Len(panel)) /\ timer' \in BOOLEAN
  BY <1>5, EmptySeq, Zenon
<1>7. timer' <=> buffer' # <<>>
  BY <1>5, Zenon
<1>8. MochatTyped'
  BY <1>1, <1>4, <1>6 DEF MochatInv, MochatTyped
<1>. QED
  BY <1>1, <1>4, <1>5, <1>7, <1>8 DEF MochatInv, Active, n, mark

\* The channel stops.
LEMMA EndsSound == MochatInv /\ Ends => MochatInv'
<1>. SUFFICES ASSUME MochatInv, Ends PROVE MochatInv'
  OBVIOUS
<1>1. /\ UNCHANGED <<delays, written, asked, cursor, cold, panel, seenIds, taken>>
      /\ life' = "ended" /\ file' \in {cursor, file}
      /\ socket' = "none" /\ wsReady' = FALSE /\ fallback' = FALSE
      /\ frames' = <<>> /\ pushing' = FALSE /\ ack' = <<>> /\ saving' = FALSE
      /\ buffer' = <<>> /\ timer' = FALSE
  BY DEF Ends
<1>2. SessionSound(taken, <<>>, <<>>, cursor, written)
  BY DEF MochatInv, SessionSound
<1>3. PanelSound(taken, <<>>, <<>>, Mark(seenIds["panel"]), Len(panel))
  BY DEF MochatInv, PanelSound
<1>4. /\ frames' \in Seq(Frame) /\ ack' \in Seq(Frame) /\ buffer' \in Seq(1 .. Len(panel))
      /\ (timer' <=> buffer' # <<>>)
  BY <1>1, EmptySeq, Zenon
<1>5. written \in Nat /\ {cursor, file} \subseteq -1 .. written /\ file <= cursor
  BY DEF MochatInv, MochatTyped
<1>6. {asked, cursor, file'} \subseteq -1 .. written /\ file' <= cursor
  BY <1>1, <1>5 DEF MochatInv, MochatTyped
<1>7. MochatTyped'
  BY <1>1, <1>4, <1>6 DEF MochatInv, MochatTyped
<1>. QED
  BY <1>1, <1>2, <1>3, <1>4, <1>6, <1>7 DEF MochatInv, Active

\* It starts again from the cursor in the file.
LEMMA RestartsSound == MochatInv /\ Restarts => MochatInv'
<1>. SUFFICES ASSUME MochatInv, Restarts PROVE MochatInv'
  OBVIOUS
<1>1. /\ UNCHANGED <<delays, socket, wsReady, fallback, frames, written, pushing, asked, ack, file, saving,
                     panel, buffer, timer>>
      /\ life = "ended" /\ life' = "running" /\ cursor' = file /\ cold' = (file < 0)
      /\ seenIds' = [k \in Source |-> <<>>] /\ taken' = <<>>
  BY DEF Restarts, panelVars, Source
<1>2. socket = "none" /\ ~pushing /\ ack = <<>> /\ buffer = <<>> /\ frames = <<>>
  BY <1>1 DEF MochatInv, Active
<1>3. SessionSound(<<>>, <<>>, <<>>, file, written)
  BY DEF SessionSound
<1>4. Len(panel) \in Nat /\ SeenIds \in Nat
  BY MochatAssumption, LenProperties DEF MochatInv, MochatTyped
<1>5. PanelSound(<<>>, <<>>, <<>>, 0, Len(panel))
  BY <1>4 DEF PanelSound
<1>6. seenIds'["panel"] = <<>> /\ Mark(seenIds'["panel"]) = 0
  BY <1>1 DEF Source, Mark
<1>7. seenIds' \in [Source -> Seq(Nat)] /\ (\A k \in Source : Len(seenIds'[k]) <= SeenIds)
      /\ taken' \in Seq(Taken)
  BY <1>1, <1>4, EmptySeq
<1>8. file \in -1 .. written /\ written \in Nat
  BY DEF MochatInv, MochatTyped
<1>9. cold' \in BOOLEAN /\ {asked, cursor', file} \subseteq -1 .. written
  BY <1>1, <1>8 DEF MochatInv, MochatTyped
<1>10. MochatTyped'
  BY <1>1, <1>7, <1>9 DEF MochatInv, MochatTyped
<1>. QED
  BY <1>1, <1>2, <1>3, <1>5, <1>6, <1>8, <1>10 DEF MochatInv, Active

\* The connection comes and goes, and the cursor is saved.
LEMMA ConnectionsSound ==
  MochatInv /\ (ConnectFails \/ Connected \/ SubscribeFails \/ SavesCursor) => MochatInv'
<1>1. ASSUME MochatInv, ConnectFails PROVE MochatInv'
  <2>1. UNCHANGED <<life, delays, wsReady, frames, written, pushing, asked, ack, cursor, file, saving, cold,
                    panel, buffer, timer, seenIds, taken>>
        /\ Active /\ socket' = "dead" /\ fallback' = TRUE
    BY <1>1 DEF ConnectFails, sessionVars, panelVars
  <2>2. MochatTyped'
    BY <1>1, <2>1 DEF MochatInv, MochatTyped
  <2>. QED
    BY <1>1, <2>1, <2>2 DEF MochatInv, Active
<1>2. ASSUME MochatInv, Connected PROVE MochatInv'
  <2>1. UNCHANGED <<life, delays, fallback, written, pushing, ack, frames, cursor, file, saving,
                    panel, buffer, timer, seenIds, taken>>
        /\ Active /\ ack = <<>> /\ socket' = "asking" /\ wsReady' = FALSE /\ asked' = cursor
        /\ cold' = (cold \/ cursor < 0)
    BY <1>2 DEF Connected, panelVars
  <2>2. cold' \in BOOLEAN
    BY <2>1
  <2>3. MochatTyped'
    BY <1>2, <2>1, <2>2 DEF MochatInv, MochatTyped
  <2>. QED
    BY <1>2, <2>1, <2>3 DEF MochatInv, Active
<1>3. ASSUME MochatInv, SubscribeFails PROVE MochatInv'
  <2>1. UNCHANGED <<life, delays, frames, written, pushing, asked, ack, cursor, file, saving, cold,
                    panel, buffer, timer, seenIds, taken>>
        /\ Active /\ socket' = "up" /\ wsReady' = FALSE /\ fallback' = TRUE
    BY <1>3 DEF SubscribeFails, sessionVars, panelVars
  <2>2. MochatTyped'
    BY <1>3, <2>1 DEF MochatInv, MochatTyped
  <2>. QED
    BY <1>3, <2>1, <2>2 DEF MochatInv, Active
<1>4. ASSUME MochatInv, SavesCursor PROVE MochatInv'
  <2>1. UNCHANGED <<life, delays, socket, wsReady, fallback, written, pushing, asked, ack, frames, cursor, cold,
                    panel, buffer, timer, seenIds, taken>>
        /\ Active /\ saving' = FALSE /\ file' = cursor
    BY <1>4 DEF SavesCursor, panelVars
  <2>2. cursor \in -1 .. written /\ written \in Nat
    BY <1>4 DEF MochatInv, MochatTyped
  <2>3. MochatTyped'
    BY <1>4, <2>1 DEF MochatInv, MochatTyped
  <2>. QED
    BY <1>4, <2>1, <2>2, <2>3 DEF MochatInv, Active
<1>. QED
  BY <1>1, <1>2, <1>3, <1>4

\* Every step preserves the invariant.
LEMMA MochatStep == MochatInv /\ [MochatNext]_mochatVars => MochatInv'
<1>1. ASSUME MochatInv, UNCHANGED mochatVars PROVE MochatInv'
  <2>1. UNCHANGED <<life, delays, socket, wsReady, fallback, frames, written, pushing, asked, ack, cursor, file,
                    saving, cold, panel, buffer, timer, seenIds, taken>>
    BY <1>1 DEF mochatVars, sessionVars, panelVars
  <2>2. MochatTyped'
    BY <1>1, <2>1 DEF MochatInv, MochatTyped
  <2>. QED
    BY <1>1, <2>1, <2>2 DEF MochatInv, Active
<1>. QED
  BY <1>1, SessionWritesSound, PanelWritesSound, AcknowledgesSound, FrameArrivesSound,
     SubscribeReturnsSound,
     DisconnectedSound, TimerFiresSound, EndsSound, RestartsSound, ConnectionsSound
     DEF MochatNext

\* The invariant is as strong as what is claimed.
LEMMA MochatSafe == MochatInv => TakenOnce /\ MochatTypeOK
<1>. SUFFICES ASSUME MochatInv PROVE TakenOnce /\ MochatTypeOK
  OBVIOUS
<1>1. MochatTyped /\ file <= cursor /\ (timer <=> buffer # <<>>)
      /\ SessionSound(taken, frames, ack, cursor, written)
      /\ PanelSound(taken, frames, buffer, Mark(seenIds["panel"]), Len(panel))
  BY DEF MochatInv
<1>2. ASSUME NEW i \in DOMAIN taken, NEW j \in DOMAIN taken, i < j
      PROVE  /\ taken[i] # taken[j]
             /\ (taken[i][1] = "panel" /\ taken[j][1] = "panel") => taken[i][2] < taken[j][2]
  <2>1. taken[i] \in Taken
    BY <1>1, LenProperties, ElementOfSeq DEF MochatTyped
  <2>2. taken[i][1] \in {"session", "panel"} /\ taken[i][2] \in Nat
    BY <2>1 DEF Taken, Source
  <2>3. CASE taken[i][1] = "session"
    BY <1>1, <1>2, <2>3 DEF SessionSound
  <2>4. CASE taken[i][1] = "panel"
    BY <1>1, <1>2, <2>2, <2>4 DEF PanelSound
  <2>. QED
    BY <2>2, <2>3, <2>4
<1>3. TakenOnce
  BY <1>1, <1>2 DEF TakenOnce
<1>4. ASSUME NEW s \in Seq(Frame), NEW f \in Range(s)
      PROVE  f.kind \in {"ack", "session", "panel"} /\ f.from <= f.to
  <2>1. f \in Frame
    BY RangeOfSeq
  <2>. QED
    BY <2>1, FrameFacts
<1>5. Range(buffer) \subseteq DOMAIN panel
  BY <1>1, RangeOfSeq, LenProperties DEF MochatTyped
<1>6. \A f \in Range(frames) \cup Range(ack) : f.kind \in {"ack", "session", "panel"}
        /\ f.from <= f.to
  BY <1>1, <1>4 DEF MochatTyped
<1>7. MochatTypeOK
  BY <1>1, <1>5, <1>6 DEF MochatTyped, MochatTypeOK, Source
<1>. QED
  BY <1>3, <1>7

-----------------------------------------------------------------------------
(* Sandbox.                                                                *)

CallPlace == {"none", "waiting", "killing", "over"}
CallResult == {"none", "output", "timeout", "cancelled", "error"}
Process == {"none", "runs", "over"}
BoxPlace == {"none", "creating", "created", "starting", "runs", "gone"}

SandboxTyped ==
  /\ docker \in BOOLEAN /\ refusals \in 0 .. MaxRefusals /\ dir \subseteq Run
  /\ call \in [Run -> CallPlace] /\ result \in [Run -> CallResult]
  /\ client \in [Run -> Process] /\ remover \in [Run -> Process] /\ box \in [Run -> BoxPlace]

\* Each call by itself: only a client that has been killed is followed by a removal.
RunSound(r) ==
  /\ r \in dir <=> call[r] \in {"waiting", "killing"}
  /\ call[r] = "killing" => client[r] = "over"
  /\ result[r] = "timeout" => call[r] = "over" /\ client[r] = "over"
  /\ remover[r] # "none" => result[r] = "timeout"

SandboxInv == SandboxTyped /\ \A r \in Run : RunSound(r)

\* Nothing was run yet.
LEMMA SandboxStarts == SandboxInit => SandboxInv
BY SandboxAssumption
   DEF SandboxInit, SandboxInv, SandboxTyped, RunSound, CallPlace, CallResult, Process, BoxPlace

\* The refusals keep their bound.
LEMMA RefusalsCounted ==
  ASSUME refusals \in 0 .. MaxRefusals, Refused \/ UNCHANGED refusals
  PROVE  refusals' \in 0 .. MaxRefusals
BY SandboxAssumption DEF Refused

\* A call is over, and its directory is gone.
LEMMA OverTyped ==
  ASSUME SandboxTyped, NEW r \in Run, NEW how \in CallResult, Over(r, how)
  PROVE  /\ call' \in [Run -> CallPlace] /\ result' \in [Run -> CallResult] /\ dir' \subseteq Run
         /\ call'[r] = "over" /\ result'[r] = how /\ r \notin dir'
         /\ \A s \in Run \ {r} : call'[s] = call[s] /\ result'[s] = result[s]
              /\ (s \in dir' <=> s \in dir)
BY DEF SandboxTyped, Over, CallPlace

\* A call begins.
LEMMA RunBeginsSound ==
  ASSUME SandboxInv, NEW r \in Run, RunBegins(r)
  PROVE  SandboxInv'
<1>1. refusals' \in 0 .. MaxRefusals /\ UNCHANGED <<docker, box, remover>> /\ SandboxTyped
      /\ call[r] = "none" /\ RunSound(r)
  <2>1. Refused \/ UNCHANGED refusals
    BY DEF RunBegins
  <2>. QED
    BY <2>1, RefusalsCounted DEF SandboxInv, SandboxTyped, RunBegins
<1>2. CASE call' = [call EXCEPT ![r] = "waiting"] /\ dir' = dir \cup {r}
        /\ client' = [client EXCEPT ![r] = "runs"]
           /\ UNCHANGED result
  <2>1. SandboxTyped'
    BY <1>1, <1>2 DEF SandboxTyped, CallPlace, Process
  <2>2. ASSUME NEW s \in Run PROVE RunSound(s)'
    <3>1. RunSound(s)
      BY DEF SandboxInv
    <3>. QED
      BY <1>1, <1>2, <3>1 DEF SandboxTyped, RunSound
  <2>. QED
    BY <2>1, <2>2 DEF SandboxInv
<1>3. CASE Over(r, "error") /\ UNCHANGED client
  <2>1. "error" \in CallResult
    BY DEF CallResult
  <2>2. SandboxTyped'
    BY <1>1, <1>3, <2>1, OverTyped DEF SandboxTyped
  <2>3. ASSUME NEW s \in Run PROVE RunSound(s)'
    <3>1. RunSound(s)
      BY DEF SandboxInv
    <3>. QED
      BY <1>1, <1>3, <2>1, <3>1, OverTyped DEF RunSound
  <2>. QED
    BY <2>2, <2>3 DEF SandboxInv
<1>. QED
  BY <1>2, <1>3 DEF RunBegins

\* The time of a call is over: its client is killed.
LEMMA RunTimesOutSound ==
  ASSUME SandboxInv, NEW r \in Run, RunTimesOut(r)
  PROVE  SandboxInv'
<1>1. /\ call[r] = "waiting" /\ call' = [call EXCEPT ![r] = "killing"]
      /\ client' = [client EXCEPT ![r] = "over"]
      /\ UNCHANGED <<docker, result, dir, box, remover, refusals>> /\ SandboxTyped
  BY DEF RunTimesOut, SandboxInv
<1>2. SandboxTyped'
  BY <1>1 DEF SandboxTyped, CallPlace, Process
<1>3. ASSUME NEW s \in Run PROVE RunSound(s)'
  <2>1. RunSound(s)
    BY DEF SandboxInv
  <2>. QED
    BY <1>1, <2>1 DEF SandboxTyped, RunSound
<1>. QED
  BY <1>2, <1>3 DEF SandboxInv

\* The client is dead, and the removal of the container starts or cannot be started.
LEMMA RunRemovesSound ==
  ASSUME SandboxInv, NEW r \in Run, RunRemoves(r)
  PROVE  SandboxInv'
<1>1. /\ call[r] = "killing" /\ Over(r, "timeout") /\ refusals' \in 0 .. MaxRefusals
      /\ remover' \in {remover, [remover EXCEPT ![r] = "runs"]}
      /\ UNCHANGED <<docker, client, box>> /\ SandboxTyped
  <2>1. Refused \/ UNCHANGED refusals
    BY DEF RunRemoves
  <2>. QED
    BY <2>1, RefusalsCounted DEF SandboxInv, SandboxTyped, RunRemoves
<1>2. "timeout" \in CallResult
  BY DEF CallResult
<1>3. remover' \in [Run -> Process]
  BY <1>1 DEF SandboxTyped, Process
<1>4. SandboxTyped'
  BY <1>1, <1>2, <1>3, OverTyped DEF SandboxTyped
<1>5. ASSUME NEW s \in Run PROVE RunSound(s)'
  <2>1. RunSound(s)
    BY DEF SandboxInv
  <2>2. CASE s = r
    BY <1>1, <1>2, <2>1, <2>2, OverTyped DEF RunSound
  <2>3. CASE s # r
    <3>1. remover'[s] = remover[s]
      BY <1>1, <2>3 DEF SandboxTyped
    <3>. QED
      BY <1>1, <1>2, <2>1, <2>3, <3>1, OverTyped DEF RunSound
  <2>. QED
    BY <2>2, <2>3
<1>. QED
  BY <1>4, <1>5 DEF SandboxInv

\* A call returns what its client says, or is cancelled.
LEMMA RunEndsSound ==
  ASSUME SandboxInv, NEW r \in Run, RunReturns(r) \/ RunCancelled(r)
  PROVE  SandboxInv'
<1>1. PICK how \in {"output", "cancelled"} :
        /\ call[r] \in {"waiting", "killing"} /\ Over(r, how)
        /\ UNCHANGED <<docker, client, box, remover, refusals>> /\ SandboxTyped
  BY DEF RunReturns, RunCancelled, SandboxInv
<1>2. how \in CallResult /\ how # "timeout"
  BY DEF CallResult
<1>3. SandboxTyped'
  BY <1>1, <1>2, OverTyped DEF SandboxTyped
<1>4. ASSUME NEW s \in Run PROVE RunSound(s)'
  <2>1. RunSound(s)
    BY DEF SandboxInv
  <2>2. RunSound(r)
    BY DEF SandboxInv
  <2>. QED
    BY <1>1, <1>2, <2>1, <2>2, OverTyped DEF RunSound
<1>. QED
  BY <1>3, <1>4 DEF SandboxInv

\* The clients and the daemon by themselves.
LEMMA DaemonSound ==
  ASSUME SandboxInv, NEW r \in Run, DaemonStep(r) \/ BoxExits(r)
  PROVE  SandboxInv'
<1>1. refusals' \in 0 .. MaxRefusals /\ UNCHANGED <<docker, call, result, dir>> /\ SandboxTyped
  <2>1. Refused \/ UNCHANGED refusals
    BY DEF DaemonStep, ClientAsks, DaemonActs, ClientEnds, RemoverEnds, BoxExits
  <2>. QED
    BY <2>1, RefusalsCounted
       DEF SandboxInv, SandboxTyped, DaemonStep, ClientAsks, DaemonActs, ClientEnds, RemoverEnds, BoxExits
<1>2. CASE ClientAsks(r) \/ DaemonActs(r) \/ BoxExits(r)
  <2>1. /\ box' \in [Run -> BoxPlace] /\ UNCHANGED <<client, remover>>
    BY <1>1, <1>2 DEF SandboxTyped, ClientAsks, DaemonActs, BoxExits, Box, BoxPlace
  <2>. QED
    BY <1>1, <2>1 DEF SandboxInv, SandboxTyped, RunSound
<1>3. CASE ClientEnds(r)
  <2>1. client' = [client EXCEPT ![r] = "over"] /\ UNCHANGED <<box, remover>>
    BY <1>3 DEF ClientEnds
  <2>2. SandboxTyped'
    BY <1>1, <2>1 DEF SandboxTyped, Process
  <2>3. ASSUME NEW s \in Run PROVE RunSound(s)'
    <3>1. RunSound(s) /\ (client'[s] = client[s] \/ client'[s] = "over")
      BY <1>1, <2>1 DEF SandboxInv, SandboxTyped
    <3>. QED
      BY <1>1, <2>1, <3>1 DEF RunSound
  <2>. QED
    BY <2>2, <2>3 DEF SandboxInv
<1>4. CASE RemoverEnds(r)
  <2>1. /\ remover[r] = "runs" /\ remover' = [remover EXCEPT ![r] = "over"] /\ UNCHANGED client
        /\ box' \in {box, [box EXCEPT ![r] = "gone"]}
    BY <1>4 DEF RemoverEnds
  <2>2. SandboxTyped'
    BY <1>1, <2>1 DEF SandboxTyped, Process, BoxPlace
  <2>3. ASSUME NEW s \in Run PROVE RunSound(s)'
    <3>1. RunSound(s) /\ (remover'[s] # "none" => remover[s] # "none")
      BY <1>1, <2>1 DEF SandboxInv, SandboxTyped
    <3>. QED
      BY <1>1, <2>1, <3>1 DEF RunSound
  <2>. QED
    BY <2>2, <2>3 DEF SandboxInv
<1>. QED
  BY <1>2, <1>3, <1>4 DEF DaemonStep

\* Every step preserves the invariant.
LEMMA SandboxStep == SandboxInv /\ [SandboxNext]_sandboxVars => SandboxInv'
<1>1. ASSUME SandboxInv, UNCHANGED sandboxVars PROVE SandboxInv'
  BY <1>1 DEF SandboxInv, SandboxTyped, RunSound, sandboxVars
<1>. QED
  BY <1>1, RunBeginsSound, RunTimesOutSound, RunRemovesSound, RunEndsSound,
     DaemonSound DEF SandboxNext

\* The invariant is as strong as what is claimed.
LEMMA SandboxSafe == SandboxInv => SandboxTypeOK
<1>. SUFFICES ASSUME SandboxInv PROVE SandboxTypeOK
  OBVIOUS
<1>1. dir = {r \in Run : call[r] \in {"waiting", "killing"}}
  BY DEF SandboxInv, SandboxTyped, RunSound
<1>. QED
  BY <1>1 DEF SandboxInv, SandboxTyped, RunSound, SandboxTypeOK, CallPlace, CallResult, Process,
     BoxPlace

-----------------------------------------------------------------------------
(* The gateway.                                                            *)

\* What the proofs about each part show, of all of them at once.
GatewayInv == ChannelsInv /\ StreamInv /\ MochatInv /\ SandboxInv

gatewayVars == <<vars, streamVars, mochatVars, sandboxVars>>

\* Each part starts as it does alone.
LEMMA GatewayStarts == GatewayInit => GatewayInv
BY ChannelsStarts, StreamStarts, MochatStarts, SandboxStarts DEF GatewayInit, GatewayInv

\* A step of one part is a step of that part alone: no two share a variable.
LEMMA GatewayStep == GatewayInv /\ [GatewayNext]_gatewayVars => GatewayInv'
<1>. SUFFICES ASSUME GatewayInv, [GatewayNext]_gatewayVars
              PROVE  GatewayInv'
  OBVIOUS
<1>1. [Next]_vars /\ [StreamNext]_streamVars /\ [MochatNext]_mochatVars /\ [SandboxNext]_sandboxVars
  BY Zenon DEF GatewayNext, gatewayVars
<1>2. ChannelsInv' /\ StreamInv' /\ MochatInv' /\ SandboxInv'
  BY <1>1, ChannelsStep, StreamStep, MochatStep, SandboxStep DEF GatewayInv
<1>. QED
  BY <1>2 DEF GatewayInv

\* The invariant behind the theorems below.
LEMMA GatewaySafe == GatewaySpec => []GatewayInv
<1>1. GatewaySpec => GatewayInit /\ [][GatewayNext]_gatewayVars
  BY PTL DEF GatewaySpec, gatewayVars
<1>. QED
  BY <1>1, GatewayStarts, GatewayStep, PTL

-----------------------------------------------------------------------------
(* Theorems.                                                               *)

\* hive/cli/commands.py, gateway: the tasks on its event loop keep the types of their
\* state, and with them what each module says of it there: at most one answer is being
\* sent and no more than the bus has delivered is answered (channels/manager.py), and the
\* memory of a channel keeps its bound.
THEOREM GatewayTyped == GatewaySpec => []GatewayTypeOK
<1>1. GatewayInv => GatewayTypeOK
  BY ChannelsSafe, MochatSafe, SandboxSafe DEF GatewayInv, GatewayTypeOK, StreamInv
<1>. QED
  BY <1>1, GatewaySafe, PTL

\* hive/channels/ and hive/bus/queue.py: however often Feishu and QQ hand a message over
\* again, Slack announces a mention or a poll of the mailbox fails, no message makes two
\* turns (but on Slack without the bot's name); a channel whose handlers cannot overtake
\* each other hands its messages over in their order, and the answers are sent in the
\* order of the turns.
THEOREM MessagesOnceInOrder == GatewaySpec => []OnceInOrder
<1>1. GatewayInv => OnceInOrder
  BY ChannelsSafe DEF GatewayInv
<1>. QED
  BY <1>1, GatewaySafe, PTL

\* hive/channels/mochat.py: whatever the server sends again after a lost connection or a
\* restart, and however the delay, a mention and a disconnection interleave, no message of
\* Mochat is taken twice between two starts, those of the panel are taken in order, and as
\* long as one waits in the buffer a timer runs.
THEOREM MochatTakenOnce == GatewaySpec => []TakenOnce
<1>1. GatewayInv => TakenOnce
  BY MochatSafe DEF GatewayInv
<1>. QED
  BY <1>1, GatewaySafe, PTL

\* hive/bus/emitter.py and hive/stream/server.py: each client of the stream gets its events
\* in order among the channels, Mochat and the sandbox too.
THEOREM GatewayKeepsEvents == GatewaySpec => []EventsKept
<1>1. GatewayInv => EventsKept
  BY EventsFollow DEF GatewayInv
<1>. QED
  BY <1>1, GatewaySafe, PTL
=============================================================================
