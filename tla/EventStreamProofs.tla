-------------------------- MODULE EventStreamProofs --------------------------
(***************************************************************************)
(* Proofs about EventStream, for every set of clients and every size of    *)
(* the queues: each client gets what was emitted in order, and an overflow *)
(* costs it old events only.                                               *)
(***************************************************************************)
EXTENDS EventStream, SequenceTheorems, TLAPS

\* The invariant of one client, with its handler's place h, its queue q, the event x in
\* the handler's hand, the events s sent to it, and the count n when it subscribed, when
\* m events have been emitted.

\* The queue holds the latest events without a gap, for only its ends ever change.
Latest(q, m) ==
  /\ q \in Seq(Nat) /\ Len(q) <= QueueSize
  /\ \A i \in 1 .. Len(q) : q[i] = m - Len(q) + i

\* What was sent is in order, from after the subscription and before hand and queue.
SentInOrder(s, x, n, r) ==
  /\ s \in Seq(Nat)
  /\ \A i \in 1 .. Len(s) : n < s[i] /\ s[i] <= r /\ (x # 0 => s[i] < x)
  /\ \A i \in 1 .. Len(s) - 1 : s[i] < s[i + 1]
  /\ n <= r /\ x <= r /\ (x # 0 => n < x)

\* What has left the queue was sent or is in the hand, unless it is old by now.
NoneSkipped(s, x, n, r, m) ==
  \A e \in n + 1 .. r : e > m - QueueSize => e = x \/ \E i \in 1 .. Len(s) : s[i] = e

Feeds == {"welcome", "waiting", "sending"}

StreamSound(h, q, x, s, n, m) ==
  /\ m \in Nat /\ n \in Nat /\ x \in Nat
  /\ Latest(q, m)
  /\ SentInOrder(s, x, n, m - Len(q))
  /\ h \in {"none", "auth"} => s = <<>>
  /\ h \notin Feeds => q = <<>>
  /\ x # 0 <=> h = "sending"
  /\ h \in Feeds => NoneSkipped(s, x, n, m - Len(q), m)

StreamInv ==
  /\ StreamTypeOK
  /\ sent \in [Client -> Seq(Nat)] /\ since \in [Client -> Nat]
  /\ \A c \in Client : StreamSound(handler[c], queue[c], hand[c], sent[c], since[c], emitted)

-----------------------------------------------------------------------------
(* Sequences of events.                                                    *)

\* emit puts the next event at the end of a queue and takes the oldest from a full one.
LEMMA PutLatest ==
  ASSUME NEW m \in Nat, NEW q, Latest(q, m)
  PROVE  /\ Latest(Put(q, m + 1), m + 1)
         /\ m + 1 - Len(Put(q, m + 1)) =
              IF Len(q) = QueueSize THEN m - Len(q) + 1 ELSE m - Len(q)
<1>. DEFINE r == IF Len(q) = QueueSize THEN Tail(q) ELSE q
<1>1. q \in Seq(Nat) /\ Len(q) \in Nat /\ QueueSize \in Nat \ {0} /\ Len(q) <= QueueSize
  BY EventStreamAssumption, LenProperties DEF Latest
<1>2. PICK k \in Nat : /\ k = Len(r) /\ k < QueueSize /\ r \in Seq(Nat)
                       /\ \A i \in 1 .. k : r[i] = m - k + i
                       /\ k = IF Len(q) = QueueSize THEN Len(q) - 1 ELSE Len(q)
  <2>1. CASE Len(q) = QueueSize
    <3>1. q # <<>>
      BY <1>1, <2>1
    <3>2. /\ Tail(q) \in Seq(Nat) /\ Len(Tail(q)) = Len(q) - 1
          /\ \A i \in 1 .. Len(Tail(q)) : Tail(q)[i] = q[i + 1]
      BY <1>1, <3>1, HeadTailProperties
    <3>3. \A i \in 1 .. Len(q) - 1 : Tail(q)[i] = m - (Len(q) - 1) + i
      BY <1>1, <3>2 DEF Latest
    <3>. QED
      BY <1>1, <2>1, <3>2, <3>3
  <2>2. CASE Len(q) # QueueSize
    BY <1>1, <2>2 DEF Latest
  <2>. QED
    BY <2>1, <2>2
<1>. DEFINE u == Append(r, m + 1)
<1>3. Put(q, m + 1) = u
  BY DEF Put
<1>. HIDE DEF r
<1>4. u \in Seq(Nat) /\ Len(u) = k + 1
  <2>1. r \in Seq(Nat) /\ m + 1 \in Nat /\ k = Len(r)
    BY <1>2
  <2>. QED
    BY <2>1, AppendProperties, Zenon
<1>5. u[k + 1] = m + 1 /\ \A i \in 1 .. k : u[i] = r[i]
  <2>1. r \in Seq(Nat) /\ m + 1 \in Nat /\ k = Len(r)
    BY <1>2
  <2>2. u[Len(r) + 1] = m + 1 /\ \A i \in 1 .. Len(r) : u[i] = r[i]
    BY <2>1, AppendProperties
  <2>. QED
    BY <2>1, <2>2, Zenon
<1>. HIDE DEF u
<1>6. k \in Nat /\ \A i \in 1 .. k : u[i] = m - k + i
  BY <1>2, <1>5
<1>7. ASSUME NEW i \in 1 .. k + 1 PROVE u[i] = m + 1 - (k + 1) + i
  <2>1. CASE i = k + 1
    BY <1>5, <1>6, <2>1
  <2>2. CASE i # k + 1
    <3>1. i \in 1 .. k
      BY <1>6, <2>2
    <3>. QED
      BY <1>6, <3>1
  <2>. QED
    BY <2>1, <2>2
<1>8. k + 1 <= QueueSize
  BY <1>1, <1>2
<1>9. Latest(u, m + 1)
  BY <1>4, <1>7, <1>8 DEF Latest
<1>10. m + 1 - Len(u) = IF Len(q) = QueueSize THEN m - Len(q) + 1 ELSE m - Len(q)
  <2>1. k = IF Len(q) = QueueSize THEN Len(q) - 1 ELSE Len(q)
    BY <1>2
  <2>2. Len(u) = k + 1 /\ Len(q) \in Nat
    BY <1>1, <1>4
  <2>. QED
    BY <1>6, <2>1, <2>2
<1>. QED
  BY <1>3, <1>9, <1>10

\* The oldest event of a queue and what is left of it.
LEMMA HeadLatest ==
  ASSUME NEW m \in Nat, NEW q, Latest(q, m), q # <<>>
  PROVE  /\ Latest(Tail(q), m) /\ m - Len(Tail(q)) = m - Len(q) + 1
         /\ Head(q) = m - Len(q) + 1
<1>1. /\ q \in Seq(Nat) /\ Len(q) \in Nat \ {0} /\ QueueSize \in Nat
  BY EventStreamAssumption, EmptySeq DEF Latest
<1>2. /\ Tail(q) \in Seq(Nat) /\ Len(Tail(q)) = Len(q) - 1
      /\ \A i \in 1 .. Len(Tail(q)) : Tail(q)[i] = q[i + 1]
  BY <1>1, HeadTailProperties
<1>3. Head(q) = q[1]
  BY <1>1
<1>. QED
  BY <1>1, <1>2, <1>3 DEF Latest

\* The hand's event joins those that were sent.
LEMMA SentAppended ==
  ASSUME NEW s, NEW x \in Nat \ {0}, NEW n \in Nat, NEW r \in Int, NEW m \in Nat,
         SentInOrder(s, x, n, r), NoneSkipped(s, x, n, r, m)
  PROVE  SentInOrder(Append(s, x), 0, n, r) /\ NoneSkipped(Append(s, x), 0, n, r, m)
<1>. DEFINE t == Append(s, x)
<1>1. PICK k \in Nat : /\ k = Len(s) /\ Len(t) = k + 1 /\ t[k + 1] = x
                       /\ \A i \in 1 .. k : t[i] = s[i] /\ s[i] \in Nat
  BY AppendProperties, LenProperties, ElementOfSeq DEF SentInOrder
<1>2. t \in Seq(Nat)
  BY AppendProperties DEF SentInOrder
<1>. HIDE DEF t
<1>3. \A i \in 1 .. k : n < s[i] /\ s[i] <= r /\ s[i] < x
  BY <1>1 DEF SentInOrder
<1>4. \A i \in 1 .. k - 1 : s[i] < s[i + 1]
  BY <1>1 DEF SentInOrder
<1>5. n < x /\ x <= r /\ n <= r
  BY DEF SentInOrder
<1>6. ASSUME NEW i \in 1 .. k + 1 PROVE n < t[i] /\ t[i] <= r
  <2>1. CASE i = k + 1
    BY <1>1, <1>5, <2>1
  <2>2. CASE i # k + 1
    <3>1. i \in 1 .. k
      BY <2>2
    <3>. QED
      BY <1>1, <1>3, <3>1
  <2>. QED
    BY <2>1, <2>2
<1>7. ASSUME NEW i \in 1 .. k PROVE t[i] < t[i + 1]
  <2>1. t[i] = s[i] /\ s[i] < x
    BY <1>1, <1>3
  <2>2. CASE i = k
    BY <1>1, <2>1, <2>2
  <2>3. CASE i # k
    <3>1. i \in 1 .. k - 1 /\ i + 1 \in 1 .. k
      BY <2>3
    <3>. QED
      BY <1>1, <1>4, <2>1, <3>1
  <2>. QED
    BY <2>2, <2>3
<1>8. SentInOrder(t, 0, n, r)
  <2>1. Len(t) - 1 = k
    BY <1>1
  <2>. QED
    BY <1>1, <1>2, <1>5, <1>6, <1>7, <2>1 DEF SentInOrder
<1>9. NoneSkipped(t, 0, n, r, m)
  BY <1>1 DEF NoneSkipped
<1>. QED
  BY <1>8, <1>9 DEF t

\* What is in order before an event is in order before the next.
LEMMA OrderKept ==
  ASSUME NEW s, NEW x \in Nat, NEW n \in Nat, NEW r \in Int, NEW l, l = r \/ l = r + 1,
         SentInOrder(s, x, n, r)
  PROVE  SentInOrder(s, x, n, l)
<1>1. PICK k \in Nat : k = Len(s) /\ \A i \in 1 .. k : s[i] \in Nat
  BY LenProperties, ElementOfSeq DEF SentInOrder
<1>2. \A i \in 1 .. k : n < s[i] /\ s[i] <= r /\ (x # 0 => s[i] < x)
  BY <1>1 DEF SentInOrder
<1>3. \A i \in 1 .. k : n < s[i] /\ s[i] <= l /\ (x # 0 => s[i] < x)
  BY <1>1, <1>2
<1>4. n <= l /\ x <= l /\ (x # 0 => n < x)
  BY DEF SentInOrder
<1>. QED
  BY <1>1, <1>3, <1>4 DEF SentInOrder

\* What EventsKept says of one client.
Kept(h, q, x, s, n, m) ==
  LET all == <<n>> \o (s \o ((IF x = 0 THEN <<>> ELSE <<x>>) \o q)) IN
  /\ \A i \in 1 .. Len(all) - 1 : all[i] < all[i + 1]
  /\ h \in Feeds => \A e \in n + 1 .. m : e > m - QueueSize => \E i \in DOMAIN all : all[i] = e

\* A sound stream has kept every event that its client is owed.
LEMMA SoundIsKept ==
  ASSUME NEW h, NEW q, NEW x, NEW s, NEW n, NEW m, StreamSound(h, q, x, s, n, m)
  PROVE  Kept(h, q, x, s, n, m)
<1>. DEFINE y == IF x = 0 THEN <<>> ELSE <<x>>
            all == <<n>> \o (s \o (y \o q))
<1>1. /\ m \in Nat /\ n \in Nat /\ x \in Nat /\ q \in Seq(Nat) /\ s \in Seq(Nat)
  BY DEF StreamSound, Latest, SentInOrder
<1>2. PICK k \in Nat, p \in Nat, l \in Nat :
        /\ Len(s) = k /\ Len(y) = p /\ Len(q) = l /\ p = (IF x = 0 THEN 0 ELSE 1)
        /\ y \in Seq(Nat) /\ (x # 0 => y[1] = x)
  <2>1. Len(s) \in Nat /\ Len(q) \in Nat
    BY <1>1, LenProperties
  <2>2. CASE x = 0
    BY <2>1, <2>2
  <2>3. CASE x # 0
    <3>1. y = <<x>> /\ <<x>> \in Seq(Nat)
      BY <1>1, <2>3
    <3>. QED
      BY <2>1, <2>3, <3>1
  <2>. QED
    BY <2>2, <2>3
<1>. HIDE DEF y
<1>. DEFINE z == y \o q
            w == s \o z
<1>3. /\ z \in Seq(Nat) /\ Len(z) = p + l
      /\ \A i \in 1 .. p + l : z[i] = IF i <= p THEN y[i] ELSE q[i - p]
  <2>1. y \in Seq(Nat) /\ q \in Seq(Nat)
    BY <1>1, <1>2
  <2>2. z = y \o q
    OBVIOUS
  <2>. HIDE DEF z
  <2>3. /\ z \in Seq(Nat) /\ Len(z) = Len(y) + Len(q)
       /\ \A i \in 1 .. Len(y) + Len(q) : z[i] = IF i <= Len(y) THEN y[i] ELSE q[i - Len(y)]
    BY <2>1, <2>2, ConcatProperties, Zenon
  <2>. QED
    BY <1>2, <2>1, <2>3, Zenon
<1>. HIDE DEF z
<1>4. /\ w \in Seq(Nat) /\ Len(w) = k + (p + l)
      /\ \A i \in 1 .. k + (p + l) : w[i] = IF i <= k THEN s[i] ELSE z[i - k]
  <2>1. s \in Seq(Nat) /\ z \in Seq(Nat) /\ Len(z) = p + l
    BY <1>1, <1>3
  <2>2. w = s \o z
    OBVIOUS
  <2>. HIDE DEF w
  <2>3. /\ w \in Seq(Nat) /\ Len(w) = Len(s) + Len(z)
       /\ \A i \in 1 .. Len(s) + Len(z) : w[i] = IF i <= Len(s) THEN s[i] ELSE z[i - Len(s)]
    BY <2>1, <2>2, ConcatProperties, Zenon
  <2>. QED
    BY <1>2, <2>1, <2>3, Zenon
<1>. HIDE DEF w
<1>5. /\ all \in Seq(Nat) /\ Len(all) = 1 + k + p + l
      /\ \A i \in 1 .. 1 + k + p + l :
           all[i] = IF i <= 1 THEN n ELSE w[i - 1]
  <2>1. <<n>> \in Seq(Nat) /\ Len(<<n>>) = 1 /\ <<n>>[1] = n
    BY <1>1
  <2>2. all = <<n>> \o w
    BY DEF w, z
  <2>. HIDE DEF all
  <2>3. /\ all \in Seq(Nat) /\ Len(all) = Len(<<n>>) + Len(w)
        /\ \A i \in 1 .. Len(<<n>>) + Len(w) :
             all[i] = IF i <= Len(<<n>>) THEN <<n>>[i] ELSE w[i - Len(<<n>>)]
    BY <1>4, <2>1, <2>2, ConcatProperties, Zenon
  <2>4. /\ all \in Seq(Nat) /\ Len(all) = 1 + (k + (p + l))
        /\ \A i \in 1 .. 1 + (k + (p + l)) : all[i] = IF i <= 1 THEN <<n>>[i] ELSE w[i - 1]
    BY <1>4, <2>1, <2>3, Zenon
  <2>. QED
    BY <1>2, <2>1, <2>4
<1>. HIDE DEF all
<1>6. /\ all[1] = n
      /\ \A i \in 1 .. k : all[i + 1] = s[i]
      /\ x # 0 => all[k + 2] = x
      /\ \A i \in 1 .. l : all[k + p + 1 + i] = q[i]
  <2>1. /\ \A i \in 1 .. p + l : z[i] = IF i <= p THEN y[i] ELSE q[i - p]
        /\ \A i \in 1 .. k + (p + l) : w[i] = IF i <= k THEN s[i] ELSE z[i - k]
        /\ \A i \in 1 .. 1 + k + p + l : all[i] = IF i <= 1 THEN n ELSE w[i - 1]
        /\ k \in Nat /\ p \in Nat /\ l \in Nat
    BY <1>2, <1>3, <1>4, <1>5
  <2>2. all[1] = n
    BY <2>1
  <2>3. ASSUME NEW i \in 1 .. k PROVE all[i + 1] = s[i]
    BY <2>1
  <2>4. ASSUME x # 0 PROVE all[k + 2] = x
    <3>1. p = 1 /\ y[1] = x
      BY <1>2, <2>4
    <3>2. all[k + 2] = w[k + 1] /\ w[k + 1] = z[1] /\ z[1] = y[1]
      BY <2>1, <3>1
    <3>. QED
      BY <3>1, <3>2
  <2>5. ASSUME NEW i \in 1 .. l PROVE all[k + p + 1 + i] = q[i]
    <3>1. all[k + p + 1 + i] = w[k + p + i] /\ w[k + p + i] = z[p + i] /\ z[p + i] = q[i]
      BY <2>1
    <3>. QED
      BY <3>1
  <2>. QED
    BY <2>2, <2>3, <2>4, <2>5
<1>7. DOMAIN all = 1 .. 1 + k + p + l
  BY <1>5, LenProperties
<1>8. /\ \A i \in 1 .. k : s[i] \in Nat /\ n < s[i] /\ s[i] <= m - l /\ (x # 0 => s[i] < x)
      /\ \A i \in 1 .. k - 1 : s[i] < s[i + 1]
      /\ n <= m - l /\ x <= m - l /\ (x # 0 => n < x)
  BY <1>1, <1>2, ElementOfSeq DEF StreamSound, SentInOrder
<1>9. \A i \in 1 .. l : q[i] = m - l + i
  BY <1>2 DEF StreamSound, Latest
<1>10. ASSUME NEW i \in 1 .. k + p + l PROVE all[i] < all[i + 1]
  <2>1. CASE i <= k
    <3>1. i = 1 \/ (i - 1 \in 1 .. k - 1 /\ all[i] = s[i - 1])
      BY <1>6, <2>1
    <3>2. all[i + 1] = s[i] /\ i \in 1 .. k
      BY <1>6, <2>1
    <3>3. CASE i = 1
      BY <1>6, <1>8, <3>2, <3>3
    <3>4. CASE i - 1 \in 1 .. k - 1 /\ all[i] = s[i - 1]
      BY <1>8, <3>2, <3>4
    <3>. QED
      BY <3>1, <3>3, <3>4
  <2>2. CASE i = k + 1
    <3>1. (k = 0 /\ all[i] = n) \/ (k \in 1 .. k /\ all[i] = s[k])
      BY <1>6, <2>2
    <3>2. (x # 0 /\ all[i + 1] = x) \/ (x = 0 /\ l > 0 /\ all[i + 1] = q[1])
      <4>1. CASE x # 0
        BY <1>6, <2>2, <4>1
      <4>2. CASE x = 0
        <5>1. p = 0 /\ 1 \in 1 .. l
          BY <1>2, <2>2, <4>2
        <5>. QED
          BY <1>6, <2>2, <4>2, <5>1
      <4>. QED
        BY <4>1, <4>2
    <3>3. l > 0 => q[1] = m - l + 1
      BY <1>9
    <3>4. /\ all[i] \in Nat /\ all[i] <= m - l /\ (x # 0 => all[i] < x)
      BY <1>1, <1>8, <3>1
    <3>5. l > 0 => all[i] < q[1]
      BY <1>1, <3>3, <3>4
    <3>. QED
      BY <3>2, <3>4, <3>5, Zenon
  <2>3. CASE i > k + 1
    <3>1. CASE x # 0 /\ i = k + 2
      <4>1. 1 \in 1 .. l /\ p = 1 /\ all[i] = x
        BY <1>2, <1>6, <3>1
      <4>2. all[i + 1] = q[1] /\ q[1] = m - l + 1
        BY <1>6, <1>9, <3>1, <4>1
      <4>. QED
        BY <1>1, <1>8, <4>1, <4>2
    <3>2. CASE ~(x # 0 /\ i = k + 2)
      <4>. DEFINE j == i - k - p - 1
      <4>1. j \in 1 .. l /\ j + 1 \in 1 .. l /\ i = k + p + 1 + j /\ i + 1 = k + p + 1 + (j + 1)
        BY <1>2, <2>3, <3>2
      <4>2. all[i] = q[j] /\ all[i + 1] = q[j + 1]
        <5>. HIDE DEF j
        <5>. QED
          BY <1>6, <4>1
      <4>3. q[j] = m - l + j /\ q[j + 1] = m - l + (j + 1)
        BY <1>9, <4>1
      <4>. HIDE DEF j
      <4>. QED
        BY <1>1, <4>1, <4>2, <4>3
    <3>. QED
      BY <3>1, <3>2
  <2>. QED
    BY <2>1, <2>2, <2>3
<1>11. ASSUME h \in Feeds, NEW e \in n + 1 .. m, e > m - QueueSize
       PROVE  \E i \in DOMAIN all : all[i] = e
  <2>1. CASE e > m - l
    <3>. DEFINE j == e - (m - l)
    <3>1. j \in 1 .. l /\ q[j] = e
      BY <1>1, <1>9, <2>1
    <3>2. k + p + 1 + j \in DOMAIN all /\ all[k + p + 1 + j] = e
      BY <1>6, <1>7, <3>1
    <3>. QED
      BY <3>2
  <2>2. CASE e <= m - l
    <3>1. e = x \/ \E i \in 1 .. k : s[i] = e
      <4>1. e \in n + 1 .. m - l
        BY <1>1, <2>2
      <4>. QED
        BY <1>2, <1>11, <4>1 DEF StreamSound, NoneSkipped
    <3>2. CASE e = x
      <4>1. x # 0 /\ p = 1 /\ k + 2 \in 1 .. 1 + k + p + l
        BY <1>1, <1>2, <3>2
      <4>. QED
        BY <1>6, <1>7, <3>2, <4>1
    <3>3. ASSUME NEW i \in 1 .. k, s[i] = e PROVE \E j \in DOMAIN all : all[j] = e
      <4>1. i + 1 \in DOMAIN all /\ all[i + 1] = e
        BY <1>6, <1>7, <3>3
      <4>. QED
        BY <4>1
    <3>. QED
      BY <3>1, <3>2, <3>3
  <2>. QED
    BY <1>1, <2>1, <2>2
<1>12. Len(all) - 1 = k + p + l
  BY <1>5
<1>. QED
  BY <1>10, <1>11, <1>12 DEF Kept, all, y, z, w

-----------------------------------------------------------------------------
(* The invariant.                                                          *)

Places == {"none", "auth", "welcome", "waiting", "sending", "over"}

\* A step of one client that leaves it sound.
LEMMA ClientStep ==
  ASSUME StreamInv, NEW c \in Client, NEW h \in Places, NEW q \in Seq(1 .. MaxEvents), NEW x,
         NEW s, NEW n, StreamSound(h, q, x, s, n, emitted),
         handler' = [handler EXCEPT ![c] = h], queue' = [queue EXCEPT ![c] = q],
         hand' = [hand EXCEPT ![c] = x], sent' = [sent EXCEPT ![c] = s],
         since' = [since EXCEPT ![c] = n], UNCHANGED <<serving, emitted>>,
         peer' \in [Client -> BOOLEAN]
  PROVE  StreamInv'
<1>1. /\ emitted \in 0 .. MaxEvents /\ serving \in BOOLEAN /\ handler \in [Client -> Places]
      /\ queue \in [Client -> Seq(1 .. MaxEvents)] /\ hand \in [Client -> 0 .. MaxEvents]
      /\ sent \in [Client -> Seq(Nat)] /\ since \in [Client -> Nat]
  BY DEF StreamInv, StreamTypeOK, Places
<1>2. s \in Seq(Nat) /\ n \in Nat
  BY DEF StreamSound, SentInOrder
<1>3. x \in 0 .. MaxEvents
  <2>1. Len(q) \in Nat /\ x \in Nat /\ x <= emitted - Len(q)
    BY LenProperties DEF StreamSound, SentInOrder
  <2>. QED
    BY <1>1, <2>1, EventStreamAssumption
<1>4. /\ handler'[c] = h /\ queue'[c] = q /\ hand'[c] = x /\ sent'[c] = s /\ since'[c] = n
      /\ \A b \in Client \ {c} : /\ handler'[b] = handler[b] /\ queue'[b] = queue[b]
                                 /\ hand'[b] = hand[b] /\ sent'[b] = sent[b]
                                 /\ since'[b] = since[b]
  BY <1>1
<1>5. /\ handler' \in [Client -> Places] /\ queue' \in [Client -> Seq(1 .. MaxEvents)]
      /\ hand' \in [Client -> 0 .. MaxEvents] /\ sent' \in [Client -> Seq(Nat)]
      /\ since' \in [Client -> Nat]
  BY <1>1, <1>2, <1>3
<1>6. ASSUME NEW b \in Client
      PROVE  StreamSound(handler'[b], queue'[b], hand'[b], sent'[b], since'[b], emitted)
  <2>1. CASE b = c
    BY <1>4, <2>1
  <2>2. CASE b # c
    BY <1>4, <2>2 DEF StreamInv
  <2>. QED
    BY <2>1, <2>2
<1>7. ASSUME NEW b \in Client
      PROVE  /\ Len(queue'[b]) <= QueueSize
             /\ handler'[b] \notin Feeds => queue'[b] = <<>>
             /\ hand'[b] # 0 <=> handler'[b] = "sending"
  BY <1>6 DEF StreamSound, Latest
<1>8. StreamTypeOK'
  BY <1>1, <1>5, <1>7 DEF StreamTypeOK, Places, Feeds, Subscribed
<1>. QED
  BY <1>5, <1>6, <1>8 DEF StreamInv

\* An event that is emitted reaches every subscriber's queue in the same step.
LEMMA EmitSound ==
  ASSUME StreamInv, Emit PROVE StreamInv'
<1>1. /\ emitted \in 0 .. MaxEvents /\ emitted < MaxEvents /\ emitted' = emitted + 1
      /\ queue \in [Client -> Seq(1 .. MaxEvents)] /\ MaxEvents \in Nat
      /\ UNCHANGED <<serving, handler, peer, hand, sent, since>>
  BY EventStreamAssumption DEF Emit, StreamInv, StreamTypeOK
<1>2. queue' = [c \in Client |-> IF Subscribed(c) THEN Put(queue[c], emitted + 1) ELSE queue[c]]
  BY DEF Emit
<1>3. ASSUME NEW c \in Client
      PROVE  /\ queue'[c] \in Seq(1 .. MaxEvents)
             /\ StreamSound(handler[c], queue'[c], hand[c], sent[c], since[c], emitted + 1)
  <2>. DEFINE h == handler[c]
              q == queue[c]
              r == emitted - Len(q)
  <2>1. StreamSound(h, q, hand[c], sent[c], since[c], emitted) /\ q \in Seq(1 .. MaxEvents)
    BY <1>1 DEF StreamInv
  <2>2. Len(q) \in Nat /\ r \in Int /\ emitted \in Nat
    BY <1>1, <2>1, LenProperties
  <2>3. CASE ~Subscribed(c)
    <3>1. queue'[c] = q /\ h \notin Feeds
      BY <1>2, <2>3 DEF Subscribed, Feeds
    <3>2. q = <<>> /\ Len(q) = 0
      BY <2>1, <3>1 DEF StreamSound
    <3>3. Latest(q, emitted + 1)
      BY <2>1, <3>2 DEF StreamSound, Latest
    <3>4. hand[c] \in Nat /\ since[c] \in Nat /\ SentInOrder(sent[c], hand[c], since[c], emitted)
      BY <1>1, <2>1, <3>2 DEF StreamSound
    <3>5. SentInOrder(sent[c], hand[c], since[c], emitted + 1)
      BY <2>2, <3>4, OrderKept
    <3>. QED
      BY <2>1, <2>2, <3>1, <3>2, <3>3, <3>5 DEF StreamSound
  <2>4. CASE Subscribed(c)
    <3>. DEFINE p == Put(q, emitted + 1)
                l == emitted + 1 - Len(p)
    <3>1. queue'[c] = p /\ h \in Feeds
      BY <1>2, <2>4 DEF Subscribed, Feeds
    <3>2. /\ Latest(p, emitted + 1)
          /\ l = IF Len(q) = QueueSize THEN r + 1 ELSE r
      BY <2>1, <2>2, PutLatest DEF StreamSound
    <3>3. p \in Seq(1 .. MaxEvents)
      <4>1. emitted + 1 \in 1 .. MaxEvents
        BY <1>1
      <4>2. Len(q) = QueueSize => q # <<>>
        BY <2>1, EventStreamAssumption
      <4>3. (IF Len(q) = QueueSize THEN Tail(q) ELSE q) \in Seq(1 .. MaxEvents)
        BY <2>1, <4>2, HeadTailProperties
      <4>. QED
        BY <4>1, <4>3, AppendProperties DEF Put
    <3>. HIDE DEF p
    <3>4. /\ hand[c] \in Nat /\ since[c] \in Nat /\ SentInOrder(sent[c], hand[c], since[c], r)
          /\ NoneSkipped(sent[c], hand[c], since[c], r, emitted)
      BY <2>1, <3>1 DEF StreamSound
    <3>. HIDE DEF r, l
    <3>5. SentInOrder(sent[c], hand[c], since[c], l)
      BY <2>2, <3>2, <3>4, OrderKept
    <3>6. NoneSkipped(sent[c], hand[c], since[c], l, emitted + 1)
      <4>1. Len(q) = QueueSize => r + 1 = emitted + 1 - QueueSize
        BY <2>2, EventStreamAssumption DEF r
      <4>. QED
        BY <2>2, <3>2, <3>4, <4>1, EventStreamAssumption DEF NoneSkipped
    <3>. QED
      BY <2>1, <2>2, <3>1, <3>2, <3>3, <3>5, <3>6 DEF StreamSound, l, Feeds
  <2>. QED
    BY <2>3, <2>4
<1>4. queue' \in [Client -> Seq(1 .. MaxEvents)]
  BY <1>2, <1>3
<1>5. ASSUME NEW c \in Client
      PROVE  /\ Len(queue'[c]) <= QueueSize
             /\ handler[c] \notin Feeds => queue'[c] = <<>>
  BY <1>3 DEF StreamSound, Latest
<1>6. emitted' \in 0 .. MaxEvents
  BY <1>1
<1>7. StreamTypeOK'
  BY <1>1, <1>4, <1>5, <1>6 DEF StreamInv, StreamTypeOK, Feeds, Subscribed
<1>. QED
  BY <1>1, <1>3, <1>7 DEF StreamInv

\* What the invariant says of the client that takes a step.
LEMMA OneClient ==
  ASSUME StreamInv, NEW c \in Client
  PROVE  /\ StreamSound(handler[c], queue[c], hand[c], sent[c], since[c], emitted)
         /\ queue[c] \in Seq(1 .. MaxEvents) /\ handler[c] \in Places
         /\ handler = [handler EXCEPT ![c] = handler[c]]
         /\ queue = [queue EXCEPT ![c] = queue[c]] /\ hand = [hand EXCEPT ![c] = hand[c]]
         /\ sent = [sent EXCEPT ![c] = sent[c]] /\ since = [since EXCEPT ![c] = since[c]]
         /\ peer \in [Client -> BOOLEAN]
BY DEF StreamInv, StreamTypeOK, Places

\* A client connects or leaves.
LEMMA ConnectionSound ==
  ASSUME StreamInv, NEW c \in Client, Connects(c) \/ Leaves(c) PROVE StreamInv'
<1>. DEFINE h == IF Connects(c) THEN "auth" ELSE handler[c]
<1>1. /\ handler' = [handler EXCEPT ![c] = h] /\ peer' \in [Client -> BOOLEAN]
      /\ UNCHANGED <<serving, emitted, queue, hand, sent, since>>
      /\ h = handler[c] \/ (handler[c] = "none" /\ h = "auth")
  BY OneClient DEF Connects, Leaves
<1>. HIDE DEF h
<1>2. h \in Places /\ StreamSound(h, queue[c], hand[c], sent[c], since[c], emitted)
  BY <1>1, OneClient DEF StreamSound, Places, Feeds
<1>3. /\ handler' = [handler EXCEPT ![c] = h] /\ queue' = [queue EXCEPT ![c] = queue[c]]
      /\ hand' = [hand EXCEPT ![c] = hand[c]] /\ sent' = [sent EXCEPT ![c] = sent[c]]
      /\ since' = [since EXCEPT ![c] = since[c]]
      /\ UNCHANGED <<serving, emitted>> /\ peer' \in [Client -> BOOLEAN]
  BY <1>1, <1>2, OneClient
<1>4. h \in Places /\ queue[c] \in Seq(1 .. MaxEvents)
  BY <1>1, <1>2, OneClient DEF Places
<1>. QED
  BY <1>2, <1>3, <1>4, ClientStep, Zenon

\* subscribe: an empty queue, from the events of this moment on.
LEMMA AuthenticatesSound ==
  ASSUME StreamInv, NEW c \in Client, Authenticates(c) PROVE StreamInv'
<1>1. /\ handler[c] = "auth" /\ UNCHANGED <<serving, emitted, peer, queue, hand, sent>>
      /\ StreamSound(handler[c], queue[c], hand[c], sent[c], since[c], emitted)
      /\ emitted \in Nat
  BY OneClient DEF Authenticates, StreamSound
<1>2. queue[c] = <<>> /\ sent[c] = <<>> /\ hand[c] = 0
  BY <1>1 DEF StreamSound, Feeds
<1>3. CASE handler' = [handler EXCEPT ![c] = "welcome"] /\ since' = [since EXCEPT ![c] = emitted]
  <2>1. Latest(queue[c], emitted) /\ Len(queue[c]) = 0
    BY <1>1, <1>2 DEF StreamSound
  <2>2. SentInOrder(sent[c], 0, emitted, emitted) /\ NoneSkipped(sent[c], 0, emitted, emitted, emitted)
    BY <1>1, <1>2 DEF SentInOrder, NoneSkipped
  <2>3. StreamSound("welcome", queue[c], hand[c], sent[c], emitted, emitted)
    BY <1>1, <1>2, <2>1, <2>2 DEF StreamSound, Feeds
  <2>4. /\ handler' = [handler EXCEPT ![c] = "welcome"] /\ queue' = [queue EXCEPT ![c] = queue[c]]
        /\ hand' = [hand EXCEPT ![c] = hand[c]] /\ sent' = [sent EXCEPT ![c] = sent[c]]
        /\ since' = [since EXCEPT ![c] = emitted]
        /\ UNCHANGED <<serving, emitted>> /\ peer' \in [Client -> BOOLEAN]
    BY <1>1, <1>3, OneClient
  <2>5. "welcome" \in Places /\ queue[c] \in Seq(1 .. MaxEvents)
    BY <1>1, <1>3, OneClient DEF Places
  <2>. QED
    BY <2>3, <2>4, <2>5, ClientStep, Zenon
<1>4. CASE handler' = [handler EXCEPT ![c] = "over"] /\ UNCHANGED since
  <2>1. StreamSound("over", queue[c], hand[c], sent[c], since[c], emitted)
    BY <1>1, <1>2 DEF StreamSound, Feeds
  <2>2. /\ handler' = [handler EXCEPT ![c] = "over"] /\ queue' = [queue EXCEPT ![c] = queue[c]]
        /\ hand' = [hand EXCEPT ![c] = hand[c]] /\ sent' = [sent EXCEPT ![c] = sent[c]]
        /\ since' = [since EXCEPT ![c] = since[c]]
        /\ UNCHANGED <<serving, emitted>> /\ peer' \in [Client -> BOOLEAN]
    BY <1>1, <1>4, OneClient
  <2>3. "over" \in Places /\ queue[c] \in Seq(1 .. MaxEvents)
    BY <1>1, <1>4, OneClient DEF Places
  <2>. QED
    BY <2>1, <2>2, <2>3, ClientStep, Zenon
<1>. QED
  BY <1>3, <1>4 DEF Authenticates

\* The handler has sent its welcome or the event in its hand.
LEMMA SendReturnsSound ==
  ASSUME StreamInv, NEW c \in Client, SendReturns(c) PROVE StreamInv'
<1>. DEFINE s == IF hand[c] = 0 THEN sent[c] ELSE Append(sent[c], hand[c])
            r == emitted - Len(queue[c])
<1>1. /\ handler[c] \in {"welcome", "sending"} /\ UNCHANGED <<serving, emitted, peer, queue, since>>
      /\ handler' = [handler EXCEPT ![c] = "waiting"] /\ hand' = [hand EXCEPT ![c] = 0]
      /\ StreamSound(handler[c], queue[c], hand[c], sent[c], since[c], emitted)
  BY OneClient DEF SendReturns
<1>2. sent' = [sent EXCEPT ![c] = s]
  BY OneClient DEF SendReturns
<1>3. SentInOrder(s, 0, since[c], r) /\ NoneSkipped(s, 0, since[c], r, emitted)
  <2>1. /\ SentInOrder(sent[c], hand[c], since[c], r) /\ NoneSkipped(sent[c], hand[c], since[c], r, emitted)
        /\ hand[c] \in Nat /\ since[c] \in Nat /\ emitted \in Nat
    BY <1>1 DEF StreamSound, Feeds
  <2>2. r \in Int
    BY <2>1, LenProperties, OneClient
  <2>. HIDE DEF r
  <2>. QED
    BY <2>1, <2>2, SentAppended
<1>4. StreamSound("waiting", queue[c], 0, s, since[c], emitted)
  <2>. HIDE DEF s
  <2>. QED
    BY <1>1, <1>3 DEF StreamSound, Feeds
<1>. HIDE DEF s
<1>5. /\ handler' = [handler EXCEPT ![c] = "waiting"] /\ queue' = [queue EXCEPT ![c] = queue[c]]
      /\ hand' = [hand EXCEPT ![c] = 0] /\ sent' = [sent EXCEPT ![c] = s]
      /\ since' = [since EXCEPT ![c] = since[c]]
      /\ UNCHANGED <<serving, emitted>> /\ peer' \in [Client -> BOOLEAN]
  BY <1>1, <1>2, OneClient
<1>6. "waiting" \in Places /\ queue[c] \in Seq(1 .. MaxEvents)
  BY <1>1, <1>2, OneClient DEF Places
<1>. QED
  BY <1>4, <1>5, <1>6, ClientStep, Zenon

\* The handler takes the oldest event of its queue.
LEMMA TakesEventSound ==
  ASSUME StreamInv, NEW c \in Client, TakesEvent(c) PROVE StreamInv'
<1>. DEFINE q == queue[c]
            x == Head(q)
            t == Tail(q)
<1>1. /\ handler[c] = "waiting" /\ q # <<>> /\ UNCHANGED <<serving, emitted, peer, sent, since>>
      /\ handler' = [handler EXCEPT ![c] = "sending"]
      /\ hand' = [hand EXCEPT ![c] = x] /\ queue' = [queue EXCEPT ![c] = t]
      /\ StreamSound(handler[c], q, hand[c], sent[c], since[c], emitted)
      /\ q \in Seq(1 .. MaxEvents)
  BY OneClient DEF TakesEvent
<1>2. /\ t \in Seq(1 .. MaxEvents) /\ Len(q) \in Nat
  BY <1>1, HeadTailProperties, LenProperties
<1>3. /\ Latest(t, emitted) /\ emitted - Len(t) = emitted - Len(q) + 1
      /\ x = emitted - Len(q) + 1
  BY <1>1, HeadLatest DEF StreamSound
<1>4. /\ hand[c] = 0 /\ emitted \in Nat /\ since[c] \in Nat
      /\ SentInOrder(sent[c], 0, since[c], emitted - Len(q))
      /\ NoneSkipped(sent[c], 0, since[c], emitted - Len(q), emitted)
  BY <1>1 DEF StreamSound, Feeds
<1>5. PICK r \in Int : r = emitted - Len(q) /\ x = r + 1 /\ emitted - Len(t) = r + 1
  BY <1>2, <1>3, <1>4
<1>. HIDE DEF q, x, t
<1>6. SentInOrder(sent[c], x, since[c], r + 1)
  <2>1. PICK k \in Nat : k = Len(sent[c]) /\ \A i \in 1 .. k : sent[c][i] \in Nat
    BY <1>4, LenProperties, ElementOfSeq DEF SentInOrder
  <2>2. SentInOrder(sent[c], 0, since[c], r)
    BY <1>4, <1>5
  <2>3. \A i \in 1 .. k : since[c] < sent[c][i] /\ sent[c][i] <= r
    BY <2>1, <2>2 DEF SentInOrder
  <2>4. since[c] <= r
    BY <2>2 DEF SentInOrder
  <2>5. \A i \in 1 .. k : since[c] < sent[c][i] /\ sent[c][i] <= r + 1 /\ sent[c][i] < x
    BY <1>5, <2>1, <2>3
  <2>6. since[c] <= r + 1 /\ x <= r + 1 /\ since[c] < x
    BY <1>4, <1>5, <2>4
  <2>. QED
    BY <2>1, <2>2, <2>5, <2>6 DEF SentInOrder
<1>7. NoneSkipped(sent[c], x, since[c], r + 1, emitted)
  BY <1>4, <1>5 DEF NoneSkipped
<1>8. x \in Nat /\ x # 0
  <2>1. since[c] <= r
    BY <1>4, <1>5 DEF SentInOrder
  <2>. QED
    BY <1>4, <1>5, <2>1
<1>9. StreamSound("sending", t, x, sent[c], since[c], emitted)
  BY <1>1, <1>3, <1>4, <1>5, <1>6, <1>7, <1>8 DEF StreamSound, Feeds
<1>10. /\ handler' = [handler EXCEPT ![c] = "sending"] /\ queue' = [queue EXCEPT ![c] = t]
      /\ hand' = [hand EXCEPT ![c] = x] /\ sent' = [sent EXCEPT ![c] = sent[c]]
      /\ since' = [since EXCEPT ![c] = since[c]]
      /\ UNCHANGED <<serving, emitted>> /\ peer' \in [Client -> BOOLEAN]
  BY <1>1, <1>2, OneClient
<1>11. "sending" \in Places /\ t \in Seq(1 .. MaxEvents)
  BY <1>1, <1>2, OneClient DEF Places
<1>. QED
  BY <1>9, <1>10, <1>11, ClientStep, Zenon

\* unsubscribe, however far the client was served.
LEMMA NoticesLeavingSound ==
  ASSUME StreamInv, NEW c \in Client, NoticesLeaving(c) PROVE StreamInv'
<1>1. /\ handler[c] \in Feeds /\ UNCHANGED <<serving, emitted, peer, sent, since>>
      /\ handler' = [handler EXCEPT ![c] = "over"] /\ queue' = [queue EXCEPT ![c] = <<>>]
      /\ hand' = [hand EXCEPT ![c] = 0]
      /\ StreamSound(handler[c], queue[c], hand[c], sent[c], since[c], emitted)
  BY OneClient DEF NoticesLeaving, Unsubscribe, Feeds
<1>2. /\ emitted \in Nat /\ since[c] \in Nat
      /\ SentInOrder(sent[c], hand[c], since[c], emitted - Len(queue[c]))
  BY <1>1 DEF StreamSound
<1>3. SentInOrder(sent[c], 0, since[c], emitted)
  <2>1. PICK l \in Nat : l = Len(queue[c])
    BY OneClient, LenProperties
  <2>2. PICK k \in Nat : k = Len(sent[c]) /\ \A i \in 1 .. k : sent[c][i] \in Nat
    BY <1>2, LenProperties, ElementOfSeq DEF SentInOrder
  <2>3. /\ \A i \in 1 .. k : since[c] < sent[c][i] /\ sent[c][i] <= emitted - l
        /\ since[c] <= emitted - l
    BY <1>2, <2>1, <2>2 DEF SentInOrder
  <2>4. /\ \A i \in 1 .. k : since[c] < sent[c][i] /\ sent[c][i] <= emitted
        /\ since[c] <= emitted /\ 0 <= emitted
    BY <1>2, <2>1, <2>2, <2>3
  <2>. QED
    BY <1>2, <2>2, <2>4 DEF SentInOrder
<1>4. Latest(<<>>, emitted)
  BY EventStreamAssumption DEF Latest
<1>5. StreamSound("over", <<>>, 0, sent[c], since[c], emitted)
  BY <1>2, <1>3, <1>4 DEF StreamSound, Feeds
<1>6. /\ handler' = [handler EXCEPT ![c] = "over"] /\ queue' = [queue EXCEPT ![c] = <<>>]
      /\ hand' = [hand EXCEPT ![c] = 0] /\ sent' = [sent EXCEPT ![c] = sent[c]]
      /\ since' = [since EXCEPT ![c] = since[c]]
      /\ UNCHANGED <<serving, emitted>> /\ peer' \in [Client -> BOOLEAN]
  BY <1>1, OneClient
<1>7. "over" \in Places /\ <<>> \in Seq(1 .. MaxEvents)
  BY <1>1, OneClient DEF Places
<1>. QED
  BY <1>5, <1>6, <1>7, ClientStep, Zenon

\* In the initial state nobody is connected.
LEMMA StreamStarts == StreamInit => StreamInv
<1>. SUFFICES ASSUME StreamInit PROVE StreamInv
  OBVIOUS
<1>1. StreamTypeOK
  BY EventStreamAssumption DEF StreamInit, StreamTypeOK, Subscribed
<1>2. sent \in [Client -> Seq(Nat)] /\ since \in [Client -> Nat]
  BY DEF StreamInit
<1>3. Latest(<<>>, 0) /\ SentInOrder(<<>>, 0, 0, 0)
  BY EventStreamAssumption DEF Latest, SentInOrder
<1>4. StreamSound("none", <<>>, 0, <<>>, 0, 0)
  BY <1>3 DEF StreamSound, Feeds
<1>. QED
  BY <1>1, <1>2, <1>4 DEF StreamInit, StreamInv

\* Every step preserves the invariant.
LEMMA StreamStep == StreamInv /\ [StreamNext]_streamVars => StreamInv'
<1>. SUFFICES ASSUME StreamInv, [StreamNext]_streamVars PROVE StreamInv'
  OBVIOUS
<1>1. ASSUME NEW c \in Client, HandlerStep(c) PROVE StreamInv'
  BY <1>1, AuthenticatesSound, SendReturnsSound, TakesEventSound, NoticesLeavingSound
     DEF HandlerStep
<1>2. CASE UNCHANGED streamVars
  BY <1>2 DEF streamVars, StreamInv, StreamTypeOK, Subscribed
<1>. QED
  BY <1>1, <1>2, EmitSound, ConnectionSound DEF StreamNext

\* The invariant behind the theorem of this module.
LEMMA StreamSafe == StreamSpec => []StreamInv
BY StreamStarts, StreamStep, PTL DEF StreamSpec

\* A sound stream has kept the events of every client.
LEMMA EventsFollow == StreamInv => EventsKept
<1>. SUFFICES ASSUME StreamInv, NEW c \in Client
              PROVE  LET all == <<since[c]>> \o Seen(c) IN
                     /\ \A i \in 1 .. Len(all) - 1 : all[i] < all[i + 1]
                     /\ Subscribed(c) =>
                          \A e \in since[c] + 1 .. emitted :
                            e > emitted - QueueSize => \E i \in DOMAIN all : all[i] = e
  BY DEF EventsKept
<1>1. Kept(handler[c], queue[c], hand[c], sent[c], since[c], emitted)
  BY SoundIsKept DEF StreamInv
<1>2. Subscribed(c) <=> handler[c] \in Feeds
  BY DEF Subscribed, Feeds
<1>. QED
  BY <1>1, <1>2, Zenon DEF Kept, Seen, Pending

-----------------------------------------------------------------------------
(* Theorems.                                                               *)

\* hive/bus/emitter.py:67-85 and hive/stream/server.py:110-173: each subscriber gets events in the
\* order of their emission, none twice, and of those it loses to a full queue none is
\* among the latest queue_size.
THEOREM EventsCorrect == StreamSpec => []EventsKept
BY StreamSafe, EventsFollow, PTL
=============================================================================
