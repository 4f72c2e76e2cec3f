---------------------------- MODULE SessionsProofs ----------------------------
(***************************************************************************)
(* Proofs about Sessions, for every window and any number of entries,      *)
(* objects, consolidations, commands and crashes: a restart gives back the *)
(* branch that was in memory (BranchInv), and nothing said is forgotten    *)
(* (MemoryInv).  The paths come first, then what an action reads and       *)
(* writes, and then the steps, once for each of the two invariants.        *)
(***************************************************************************)
EXTENDS Sessions, SequenceTheorems, FiniteSetTheorems, FunctionTheorems,
        WellFoundedInduction, TLAPS

-----------------------------------------------------------------------------
(* Numbers and paths.  Entries are an argument here, to be given before    *)
(* and after a step.                                                       *)

\* A set of naturals has a least element: what stands for induction below.
LEMMA LeastOfNats ==
  ASSUME NEW T \in SUBSET Nat, T # {}
  PROVE  \E x \in T : \A y \in T : x <= y
<1>. DEFINE R == OpToRel(<, Nat)
<1>1. PICK x \in T : \A y \in T : <<y, x>> \notin R
  BY WFMin, NatLessThanWellFounded, Zenon
<1>2. \A y \in T : ~ (y < x)
  BY <1>1, Zenon DEF OpToRel
<1>. QED
  BY <1>2

\* The function by which get_path walks from an entry to the root.
Step(en, ids, w, n) == IF n \in ids THEN Append(w[en[n].parent], n) ELSE <<>>
Walk(en, ids) == CHOOSE w : w = [n \in 0 .. Len(en) |-> Step(en, ids, w, n)]

\* The walk of get_path is one function of the entries and the known ids.
LEMMA PathIsWalk == \A ids, leaf : PathTo(ids, leaf) = Walk(entry, ids)[leaf]
BY Zenon DEF PathTo, Walk, Step

\* Known entries are children of older ones.
Parents(en, ids) ==
  /\ Len(en) \in Nat /\ ids \subseteq 1 .. Len(en)
  /\ \A n \in ids : en[n].parent \in 0 .. n - 1

\* There is such a function, since a parent is always older.
LEMMA WalkUnfolds ==
  ASSUME NEW en, NEW ids, Parents(en, ids), NEW n \in 0 .. Len(en)
  PROVE  Walk(en, ids)[n] = Step(en, ids, Walk(en, ids), n)
<1>. DEFINE Part(k, w) == w = [i \in 0 .. k |-> Step(en, ids, w, i)]
            Without == {k \in 0 .. Len(en) : ~ \E w : Part(k, w)}
<1>1. Len(en) \in Nat
  BY DEF Parents
<1>2. Without = {}
  <2>. SUFFICES ASSUME Without # {} PROVE FALSE
    OBVIOUS
  <2>1. PICK k \in Without : \A j \in Without : k <= j
    <3>1. Without \in SUBSET Nat
      BY <1>1
    <3>. HIDE DEF Without
    <3>. QED
      BY <3>1, LeastOfNats
  <2>2. k \in 0 .. Len(en) /\ ~ \E w : Part(k, w)
    BY <2>1
  <2>3. CASE k = 0
    <3>. DEFINE v == [i \in 0 .. 0 |-> <<>>]
    <3>1. \A i \in 0 .. 0 : Step(en, ids, v, i) = <<>>
      BY <1>1 DEF Step, Parents
    <3>2. Part(0, v)
      BY <3>1
    <3>. QED
      BY <2>2, <2>3, <3>2
  <2>4. CASE k # 0
    <3>1. k - 1 \in 0 .. Len(en) /\ k - 1 \notin Without
      BY <1>1, <2>1, <2>2, <2>4
    <3>2. PICK w : Part(k - 1, w)
      BY <3>1
    <3>. DEFINE v == [i \in 0 .. k |-> IF i = k THEN Step(en, ids, w, k) ELSE w[i]]
    <3>3. ASSUME NEW i \in 0 .. k PROVE Step(en, ids, v, i) = Step(en, ids, w, i)
      <4>1. i \in ids => v[en[i].parent] = w[en[i].parent]
        BY <1>1, <2>2 DEF Parents
      <4>. QED
        BY <4>1 DEF Step
    <3>4. ASSUME NEW i \in 0 .. k PROVE v[i] = Step(en, ids, v, i)
      <4>1. i # k => w[i] = Step(en, ids, w, i)
        BY <1>1, <2>2, <3>2
      <4>. QED
        BY <3>3, <4>1
    <3>5. Part(k, v)
      BY <3>4
    <3>. QED
      BY <2>2, <3>5
  <2>. QED
    BY <2>3, <2>4
<1>3. \E w : Part(Len(en), w)
  <2>1. Len(en) \in 0 .. Len(en) /\ Len(en) \notin Without
    BY <1>1, <1>2
  <2>. QED
    BY <2>1
<1>4. Part(Len(en), Walk(en, ids))
  BY <1>3 DEF Walk
<1>. QED
  BY <1>4

\* A sequence of ever newer entries.
Rising(p) ==
  /\ p \in Seq(Nat \ {0})
  /\ \A i, j \in 1 .. Len(p) : i < j => p[i] < p[j]

\* What a path is made of.
LEMMA EntriesOf ==
  ASSUME NEW p, Rising(p)
  PROVE  /\ Len(p) \in Nat /\ DOMAIN p = 1 .. Len(p)
         /\ Entries(p) = {p[i] : i \in 1 .. Len(p)} /\ Entries(p) \subseteq Nat \ {0}
         /\ \A i \in 1 .. Len(p) : p[i] \in Nat \ {0}
<1>1. Len(p) \in Nat /\ DOMAIN p = 1 .. Len(p) /\ \A i \in 1 .. Len(p) : p[i] \in Nat \ {0}
  BY LenProperties, ElementOfSeq DEF Rising
<1>. QED
  BY <1>1 DEF Entries

\* A path prolonged by a later entry is a path.
LEMMA OneMore ==
  ASSUME NEW p, Rising(p), NEW x \in Nat \ {0}, \A n \in Entries(p) : n < x
  PROVE  /\ Rising(Append(p, x)) /\ Entries(Append(p, x)) = Entries(p) \cup {x}
         /\ Len(Append(p, x)) = Len(p) + 1 /\ Append(p, x)[Len(p) + 1] = x
         /\ \A i \in 1 .. Len(p) : Append(p, x)[i] = p[i]
<1>. DEFINE q == Append(p, x)
<1>1. PICK k \in Nat : /\ k = Len(p) /\ Entries(p) = {p[i] : i \in 1 .. k}
                       /\ \A i \in 1 .. k : p[i] \in Nat \ {0}
  BY EntriesOf
<1>2. /\ q \in Seq(Nat \ {0}) /\ Len(q) = k + 1
      /\ q[k + 1] = x /\ \A i \in 1 .. k : q[i] = p[i]
  <2>1. p \in Seq(Nat \ {0})
    BY DEF Rising
  <2>2. /\ q \in Seq(Nat \ {0}) /\ Len(q) = Len(p) + 1 /\ q[Len(p) + 1] = x
        /\ \A i \in 1 .. Len(p) : q[i] = p[i]
    BY <2>1, AppendProperties
  <2>. QED
    BY <1>1, <2>2, Zenon
<1>3. \A i, j \in 1 .. k : i < j => p[i] < p[j]
  BY <1>1 DEF Rising
<1>8. q[k + 1] = x /\ \A i \in 1 .. k : q[i] = p[i]
  BY <1>2, Zenon
<1>. HIDE DEF q
<1>4. ASSUME NEW i \in 1 .. k + 1, NEW j \in 1 .. k + 1, i < j PROVE q[i] < q[j]
  <2>1. i \in 1 .. k /\ q[i] = p[i]
    BY <1>4, <1>8
  <2>2. CASE j = k + 1
    BY <1>1, <1>4, <1>8, <2>1, <2>2
  <2>3. CASE j # k + 1
    <3>1. j \in 1 .. k
      BY <2>3
    <3>. QED
      BY <1>3, <1>4, <1>8, <2>1, <3>1
  <2>. QED
    BY <2>2, <2>3
<1>5. Rising(q)
  BY <1>2, <1>4 DEF Rising
<1>6. Entries(q) = {q[i] : i \in 1 .. k + 1}
  BY <1>2, <1>5, EntriesOf
<1>7. Entries(q) = Entries(p) \cup {x}
  <2>1. \A n \in Entries(q) : n \in Entries(p) \cup {x}
    BY <1>1, <1>2, <1>6
  <2>2. x \in Entries(q)
    BY <1>2, <1>6
  <2>3. \A i \in 1 .. k : i \in 1 .. k + 1
    BY <1>1
  <2>4. \A n \in Entries(p) : n \in Entries(q)
    BY <1>1, <1>2, <1>6, <2>3
  <2>. QED
    BY <2>1, <2>2, <2>4
<1>. QED
  BY <1>1, <1>2, <1>5, <1>7 DEF q

\* What get_path returns: known entries, each newer than the one before, up to the leaf.
LEMMA WalkRises ==
  ASSUME NEW en, NEW ids, Parents(en, ids), NEW n \in 0 .. Len(en)
  PROVE  /\ Rising(Walk(en, ids)[n]) /\ Entries(Walk(en, ids)[n]) \subseteq ids
         /\ \A e \in Entries(Walk(en, ids)[n]) : e <= n
         /\ n \in ids => n \in Entries(Walk(en, ids)[n])
         /\ n \notin ids => Walk(en, ids)[n] = <<>>
<1>. DEFINE w == Walk(en, ids)
            Fine(i) == /\ Rising(w[i]) /\ Entries(w[i]) \subseteq ids
                       /\ \A e \in Entries(w[i]) : e <= i
                       /\ i \in ids => i \in Entries(w[i])
                       /\ i \notin ids => w[i] = <<>>
            Bad == {i \in 0 .. Len(en) : ~Fine(i)}
<1>1. Len(en) \in Nat
  BY DEF Parents
<1>2. \A i \in 0 .. Len(en) : w[i] = Step(en, ids, w, i)
  BY WalkUnfolds
<1>. HIDE DEF w
<1>3. Bad = {}
  <2>. SUFFICES ASSUME Bad # {} PROVE FALSE
    OBVIOUS
  <2>1. PICK k \in Bad : \A j \in Bad : k <= j
    <3>1. Bad \in SUBSET Nat
      BY <1>1
    <3>. HIDE DEF Bad
    <3>. QED
      BY <3>1, LeastOfNats
  <2>2. k \in 0 .. Len(en) /\ ~Fine(k)
    BY <2>1
  <2>3. CASE k \notin ids
    <3>1. w[k] = <<>>
      BY <1>2, <2>2, <2>3 DEF Step
    <3>2. Rising(<<>>) /\ Entries(<<>>) = {}
      BY DEF Rising, Entries
    <3>. QED
      BY <2>2, <2>3, <3>1, <3>2
  <2>4. CASE k \in ids
    <3>1. PICK j \in Nat : j = en[k].parent /\ j < k /\ j \in 0 .. Len(en) /\ j \notin Bad
      BY <1>1, <2>1, <2>2, <2>4 DEF Parents
    <3>5. Fine(j)
      BY <3>1
    <3>2. w[k] = Append(w[j], k) /\ k \in Nat \ {0}
      <4>1. k \in Nat \ {0}
        BY <2>4 DEF Parents
      <4>2. w[k] = Step(en, ids, w, k)
        BY <1>2, <2>2
      <4>. QED
        BY <2>4, <3>1, <4>1, <4>2 DEF Step
    <3>3. \A e \in Entries(w[j]) : e < k
      <4>1. \A e \in Entries(w[j]) : e <= j /\ e \in Nat
        BY <3>5, EntriesOf
      <4>. QED
        BY <3>1, <3>2, <4>1
    <3>4. Rising(w[k]) /\ Entries(w[k]) = Entries(w[j]) \cup {k}
      BY <3>2, <3>3, <3>5, OneMore
    <3>6. \A e \in Entries(w[k]) : e <= k
      BY <3>1, <3>2, <3>3, <3>4, <3>5, EntriesOf
    <3>7. Entries(w[k]) \subseteq ids /\ k \in Entries(w[k])
      BY <2>4, <3>4, <3>5
    <3>. QED
      BY <2>2, <2>4, <3>4, <3>6, <3>7
  <2>. QED
    BY <2>3, <2>4
<1>4. Fine(n)
  BY <1>3
<1>. QED
  BY <1>4 DEF w

\* New entries leave the paths of the old ones alone.
LEMMA WalkKeeps ==
  ASSUME NEW en, NEW ids, Parents(en, ids), NEW en2, NEW ids2, Parents(en2, ids2),
         NEW m \in Nat, m <= Len(en), m <= Len(en2),
         \A k \in 1 .. m : k \in ids <=> k \in ids2, \A k \in 1 .. m : en2[k] = en[k],
         NEW n \in 0 .. m
  PROVE  Walk(en2, ids2)[n] = Walk(en, ids)[n]
<1>. DEFINE v == Walk(en, ids)
            w == Walk(en2, ids2)
            Bad == {i \in 0 .. m : w[i] # v[i]}
<1>1. /\ Len(en) \in Nat /\ Len(en2) \in Nat
      /\ \A i \in 0 .. m : i \in 0 .. Len(en) /\ i \in 0 .. Len(en2)
  BY DEF Parents
<1>2. \A i \in 0 .. m : v[i] = Step(en, ids, v, i) /\ w[i] = Step(en2, ids2, w, i)
  BY <1>1, WalkUnfolds
<1>. HIDE DEF v, w
<1>3. Bad = {}
  <2>. SUFFICES ASSUME Bad # {} PROVE FALSE
    OBVIOUS
  <2>1. PICK k \in Bad : \A j \in Bad : k <= j
    <3>1. Bad \in SUBSET Nat
      OBVIOUS
    <3>. HIDE DEF Bad
    <3>. QED
      BY <3>1, LeastOfNats
  <2>2. k \in 0 .. m /\ w[k] # v[k]
    BY <2>1
  <2>3. 0 \notin ids /\ 0 \notin ids2
    BY <1>1 DEF Parents
  <2>4. k \in ids <=> k \in ids2
    BY <2>2, <2>3
  <2>5. CASE k \notin ids
    BY <1>2, <2>2, <2>4, <2>5 DEF Step
  <2>6. CASE k \in ids
    <3>1. k \in 1 .. m /\ en2[k] = en[k]
      BY <2>2, <2>3, <2>6
    <3>2. PICK j \in Nat : j = en[k].parent /\ j < k
      BY <2>2, <2>6 DEF Parents
    <3>3. j \in 0 .. m /\ j \notin Bad
      BY <2>1, <2>2, <3>2
    <3>4. w[j] = v[j]
      BY <3>3
    <3>. QED
      BY <1>2, <2>2, <2>4, <2>6, <3>1, <3>2, <3>4 DEF Step
  <2>. QED
    BY <2>5, <2>6
<1>. QED
  BY <1>3 DEF v, w

-----------------------------------------------------------------------------
(* What build_context makes of a path.                                     *)

\* The messages and the summaries of a path, and its messages from an entry on.
Told(en, p) == {n \in Entries(p) : en[n].kind = "message"}
Summaries(en, p) == {n \in Entries(p) : en[n].kind = "compaction"}
From(en, p, k) == {n \in Told(en, p) : n >= k}

\* What the summaries on a path are of.
Covered(en, p) == UNION {en[n].covers : n \in Entries(p)}

\* The entry from which build_context takes the messages: any, or the latest summary, or
\* the entry it names, which must be on the path.
Start(en, p, k) ==
  \/ k = None /\ Summaries(en, p) = {}
  \/ \E x \in Summaries(en, p) :
       /\ \A y \in Summaries(en, p) : y <= x
       /\ \/ en[x].kept = None /\ k = x
          \/ en[x].kept = k /\ k \in Entries(p)

\* On a path, later in the order is later in number.
LEMMA TailOf ==
  ASSUME NEW p, Rising(p), NEW b \in 1 .. Len(p), NEW n \in Entries(p)
  PROVE  (\E j \in b .. Len(p) : p[j] = n) <=> n >= p[b]
<1>1. PICK l \in Nat : /\ l = Len(p) /\ Entries(p) = {p[i] : i \in 1 .. l}
                       /\ \A i \in 1 .. l : p[i] \in Nat \ {0}
  BY EntriesOf
<1>2. \A i, j \in 1 .. l : i < j => p[i] < p[j]
  BY <1>1 DEF Rising
<1>3. PICK i \in 1 .. l : p[i] = n
  BY <1>1
<1>4. b \in 1 .. l
  BY <1>1
<1>5. CASE n >= p[b]
  <2>1. ~ (i < b)
    BY <1>1, <1>2, <1>3, <1>4, <1>5
  <2>. QED
    BY <1>1, <1>3, <1>4, <1>5, <2>1
<1>6. CASE ~ (n >= p[b])
  <2>1. ASSUME NEW j \in b .. l, p[j] = n PROVE FALSE
    <3>1. j \in 1 .. l /\ (b = j \/ b < j)
      BY <1>4
    <3>. QED
      BY <1>1, <1>2, <1>4, <1>6, <2>1, <3>1
  <2>. QED
    BY <1>1, <1>6, <2>1
<1>. QED
  BY <1>5, <1>6

\* The context is what the path tells from its start on.
LEMMA StartGivesContext ==
  ASSUME NEW p, Rising(p), NEW k, Start(entry, p, k)
  PROVE  Context(p) = From(entry, p, k) /\ k \in Nat
<1>. DEFINE comps == {i \in DOMAIN p : entry[p[i]].kind = "compaction"}
            last == CHOOSE i \in comps : \A j \in comps : j <= i
            kept == entry[p[last]].kept
            starts == IF comps = {} THEN {1}
                      ELSE IF kept = None THEN {last} ELSE {i \in DOMAIN p : p[i] = kept}
<1>1. Context(p) = {n \in Told(entry, p) : \E i \in starts : \E j \in i .. Len(p) : p[j] = n}
  BY Zenon DEF Context, Told, Messages
<1>2. /\ Len(p) \in Nat /\ DOMAIN p = 1 .. Len(p) /\ Entries(p) = {p[i] : i \in 1 .. Len(p)}
      /\ Entries(p) \subseteq Nat \ {0}
  BY EntriesOf
<1>3. CASE k = None /\ Summaries(entry, p) = {}
  <2>1. comps = {} /\ starts = {1}
    BY <1>2, <1>3 DEF Summaries
  <2>2. Context(p) = Told(entry, p)
    BY <1>1, <1>2, <2>1 DEF Told
  <2>. QED
    BY <1>2, <1>3, <2>2 DEF From, Told, None
<1>4. ASSUME NEW x \in Summaries(entry, p), \A y \in Summaries(entry, p) : y <= x,
             \/ entry[x].kept = None /\ k = x
             \/ entry[x].kept = k /\ k \in Entries(p)
      PROVE  Context(p) = From(entry, p, k) /\ k \in Nat
  <2>1. PICK a \in 1 .. Len(p) : p[a] = x
    BY <1>2 DEF Summaries
  <2>2. a \in comps
    BY <1>2, <2>1 DEF Summaries
  <2>3. \A j \in comps : j <= a
    <3>1. \A j \in comps : p[j] <= p[a] /\ j \in 1 .. Len(p)
      BY <1>2, <1>4, <2>1 DEF Summaries
    <3>2. \A j \in comps : a < j => p[a] < p[j]
      BY <2>1, <3>1 DEF Rising
    <3>3. \A j \in comps : p[j] \in Nat /\ p[a] \in Nat
      BY <1>2, <2>1, <3>1
    <3>. HIDE DEF comps
    <3>. QED
      BY <1>2, <2>1, <3>1, <3>2, <3>3
  <2>4. last = a
    <3>1. last \in comps /\ \A j \in comps : j <= last
      BY <2>2, <2>3
    <3>2. \A j \in comps : j \in Nat
      BY <1>2
    <3>. HIDE DEF comps, last
    <3>. QED
      BY <2>2, <2>3, <3>1, <3>2
  <2>5. PICK b \in 1 .. Len(p) : p[b] = k /\ starts = {b}
    <3>1. CASE entry[x].kept = None /\ k = x
      <4>1. starts = {a}
        BY <2>1, <2>2, <2>4, <3>1
      <4>. QED
        BY <2>1, <3>1, <4>1
    <3>2. CASE entry[x].kept = k /\ k \in Entries(p)
      <4>1. PICK b \in 1 .. Len(p) : p[b] = k
        BY <1>2, <3>2
      <4>2. k # None
        BY <1>2, <3>2 DEF None
      <4>3. starts = {i \in DOMAIN p : p[i] = k}
        BY <2>1, <2>2, <2>4, <3>2, <4>2
      <4>4. ASSUME NEW i \in 1 .. Len(p), p[i] = k PROVE i = b
        <5>1. /\ i < b => p[i] < p[b]
              /\ b < i => p[b] < p[i]
          BY DEF Rising
        <5>2. p[i] \in Nat /\ p[b] \in Nat
          BY <1>2
        <5>. QED
          BY <1>2, <4>1, <4>4, <5>1, <5>2
      <4>5. \A i \in 1 .. Len(p) : p[i] = k <=> i = b
        BY <4>1, <4>4
      <4>6. {i \in DOMAIN p : p[i] = k} = {b}
        BY <1>2, <4>5
      <4>. QED
        BY <4>1, <4>3, <4>6
    <3>. QED
      BY <1>4, <3>1, <3>2
  <2>. HIDE DEF starts
  <2>6. ASSUME NEW n \in Told(entry, p)
        PROVE  (\E i \in starts : \E j \in i .. Len(p) : p[j] = n) <=> n >= k
    <3>1. n \in Entries(p)
      BY DEF Told
    <3>. QED
      BY <2>5, <3>1, TailOf
  <2>7. k \in Nat
    BY <1>2, <2>5
  <2>. QED
    BY <1>1, <2>6, <2>7 DEF From
<1>. QED
  BY <1>3, <1>4 DEF Start

\* A start is on the path, or there is nothing to start from.
LEMMA StartKnown ==
  ASSUME NEW en, NEW p, Rising(p), NEW k, Start(en, p, k)
  PROVE  k \in {None} \cup Entries(p)
BY DEF Start, Summaries

\* What is written elsewhere does not change a path.
LEMMA SameEntries ==
  ASSUME NEW en, NEW en2, NEW p, \A n \in Entries(p) : en2[n] = en[n]
  PROVE  /\ Told(en2, p) = Told(en, p) /\ \A k : From(en2, p, k) = From(en, p, k)
         /\ \A k : Start(en, p, k) => Start(en2, p, k)
         /\ Covered(en2, p) = Covered(en, p)
<1>1. Told(en2, p) = Told(en, p) /\ Summaries(en2, p) = Summaries(en, p)
  BY DEF Told, Summaries
<1>2. \A k : From(en2, p, k) = From(en, p, k)
  BY <1>1 DEF From
<1>3. \A x \in Summaries(en, p) : en2[x] = en[x]
  BY DEF Summaries
<1>4. ASSUME NEW k, Start(en, p, k) PROVE Start(en2, p, k)
  BY <1>1, <1>3, <1>4, Zenon DEF Start
<1>5. Covered(en2, p) = Covered(en, p)
  BY DEF Covered
<1>. QED
  BY <1>1, <1>2, <1>4, <1>5

\* x is newer than the path p, whose entries are in en2 what they are in en.
Newer(en, en2, p, x) ==
  x \in Nat \ {0} /\ Rising(p) /\ \A n \in Entries(p) : n < x /\ en2[n] = en[n]

\* The path q is p and the new messages.
Joined(en, en2, p, q, new) ==
  /\ Rising(q) /\ Entries(q) = Entries(p) \cup new
  /\ Told(en2, q) = Told(en, p) \cup new
  /\ \A k : Start(en, p, k) => Start(en2, q, k)
  /\ \A k \in {None} \cup Entries(p) : From(en2, q, k) = From(en, p, k) \cup new
  /\ Covered(en2, q) = Covered(en, p)

\* A message at the end of a path joins its context.
LEMMA MessageAdded ==
  ASSUME NEW en, NEW en2, NEW p, NEW x, Newer(en, en2, p, x), en2[x].kind = "message",
         en2[x].covers = {}
  PROVE  Joined(en, en2, p, Append(p, x), {x})
<1>0. x \in Nat \ {0} /\ Rising(p) /\ \A n \in Entries(p) : n < x /\ en2[n] = en[n]
  BY DEF Newer
<1>. DEFINE q == Append(p, x)
<1>1. Rising(q) /\ Entries(q) = Entries(p) \cup {x} /\ Entries(p) \subseteq Nat \ {0}
  BY <1>0, OneMore, EntriesOf
<1>. HIDE DEF q
<1>2. Told(en2, q) = Told(en, p) \cup {x}
  BY <1>0, <1>1 DEF Told
<1>3. Summaries(en2, q) = Summaries(en, p) /\ \A n \in Summaries(en, p) : en2[n] = en[n]
  BY <1>0, <1>1 DEF Summaries
<1>4. ASSUME NEW k, Start(en, p, k) PROVE Start(en2, q, k)
  BY <1>1, <1>3, <1>4, Zenon DEF Start
<1>5. ASSUME NEW k \in {None} \cup Entries(p) PROVE From(en2, q, k) = From(en, p, k) \cup {x}
  <2>1. x >= k
    BY <1>0, <1>1 DEF None
  <2>. QED
    BY <1>0, <1>2, <2>1 DEF From
<1>6. \A k : Start(en, p, k) => Start(en2, q, k)
  BY <1>4
<1>7. Covered(en2, q) = Covered(en, p)
  BY <1>0, <1>1 DEF Covered
<1>. QED
  BY <1>1, <1>2, <1>5, <1>6, <1>7, Zenon DEF q, Joined

\* The path q is p and a summary by which the context starts at k.
Summed(en, en2, p, q, k) ==
  /\ Rising(q) /\ Entries(p) \subseteq Entries(q)
  /\ Told(en2, q) = Told(en, p) /\ Start(en2, q, k)
  /\ \A j : From(en2, q, j) = From(en, p, j)

\* After a summary the context starts at the first kept entry, or is empty.
LEMMA SummaryAdded ==
  ASSUME NEW en, NEW en2, NEW p, NEW x, Newer(en, en2, p, x), en2[x].kind = "compaction",
         en2[x].kept \in {None} \cup Entries(p)
  PROVE  Summed(en, en2, p, Append(p, x), IF en2[x].kept = None THEN x ELSE en2[x].kept)
<1>0. x \in Nat \ {0} /\ Rising(p) /\ \A n \in Entries(p) : n < x /\ en2[n] = en[n]
  BY DEF Newer
<1>. DEFINE q == Append(p, x)
<1>1. Rising(q) /\ Entries(q) = Entries(p) \cup {x} /\ Entries(p) \subseteq Nat \ {0}
  BY <1>0, OneMore, EntriesOf
<1>. HIDE DEF q
<1>2. Told(en2, q) = Told(en, p)
  BY <1>0, <1>1 DEF Told
<1>3. x \in Summaries(en2, q) /\ \A y \in Summaries(en2, q) : y <= x
  BY <1>0, <1>1 DEF Summaries
<1>4. Start(en2, q, IF en2[x].kept = None THEN x ELSE en2[x].kept)
  BY <1>1, <1>3 DEF Start
<1>5. \A j : From(en2, q, j) = From(en, p, j)
  BY <1>2 DEF From
<1>6. Entries(p) \subseteq Entries(q)
  BY <1>1
<1>. QED
  BY <1>1, <1>2, <1>4, <1>5, <1>6, Zenon DEF q, Summed

-----------------------------------------------------------------------------
(* Entries, files, objects and tasks when m entries have been written.     *)

\* An entry, and the entries: parents and first kept entries are older.
EntryRec == [parent : 0 .. MaxEntries, kind : {"message", "compaction"}, kept : 0 .. MaxEntries,
             covers : SUBSET Id]

EntriesFit(en) ==
  /\ en \in Seq(EntryRec) /\ Len(en) <= MaxEntries
  /\ \A n \in 1 .. Len(en) : en[n].parent < n /\ en[n].kept < n /\ en[n].covers \subseteq 1 .. n - 1

\* Entries are only ever added.
Extends(en, en2) == Len(en) <= Len(en2) /\ \A n \in 1 .. Len(en) : en2[n] = en[n]

\* The entries somebody knows, and the one from which its path leads back.
Fits(ids, leaf, m) == ids \subseteq 1 .. m /\ leaf \in 0 .. m /\ (ids # {} => leaf \in ids)

\* The file, a session object and a consolidation.
FileRec == [exists : BOOLEAN, ids : SUBSET Id, last : 0 .. MaxEntries, torn : BOOLEAN]
FileFits(f, m) == f \in FileRec /\ Fits(f.ids, f.last, m)

ObjectRec == [ids : SUBSET Id, leaf : 0 .. MaxEntries, lastConsolidated : Int, disk : BOOLEAN,
              awaitsReset : BOOLEAN]
ObjectFits(s, m) == s \in ObjectRec /\ Fits(s.ids, s.leaf, m)

TaskRec == [object : {None} \cup Object, archive : BOOLEAN, kept : 0 .. MaxEntries,
            old : SUBSET Id, window : SUBSET Id]
TaskFits(c, m) ==
  /\ c \in TaskRec /\ c.kept <= m
  /\ c.old \subseteq 1 .. m /\ c.window \subseteq 1 .. m
  /\ c # Idle => c.object \in Object /\ (c.archive <=> c.kept = None)

\* What the assumption on the constants says.
LEMMA Constants ==
  /\ MaxEntries \in Nat /\ MaxTasks \in Nat /\ MaxObjects \in Nat /\ MaxTasks < MaxObjects
  /\ MemoryWindow \in Nat /\ Keep \in Nat /\ Keep < MemoryWindow
BY SessionsAssumption DEF Keep

\* What fits so many entries fits more of them.
LEMMA MoreEntries ==
  ASSUME NEW m \in Nat, NEW k \in Nat
  PROVE  /\ \A ids, leaf : Fits(ids, leaf, m) => Fits(ids, leaf, m + k)
         /\ \A f : FileFits(f, m) => FileFits(f, m + k)
         /\ \A s : ObjectFits(s, m) => ObjectFits(s, m + k)
         /\ \A c : TaskFits(c, m) => TaskFits(c, m + k)
<1>1. 1 .. m \subseteq 1 .. m + k /\ 0 .. m \subseteq 0 .. m + k
  OBVIOUS
<1>2. \A ids, leaf : Fits(ids, leaf, m) => Fits(ids, leaf, m + k)
  BY <1>1 DEF Fits
<1>3. ASSUME NEW c, TaskFits(c, m) PROVE TaskFits(c, m + k)
  <2>1. c.kept \in Nat /\ c.kept <= m + k
    BY <1>3 DEF TaskFits, TaskRec
  <2>. QED
    BY <1>1, <1>3, <2>1 DEF TaskFits
<1>. QED
  BY <1>2, <1>3 DEF FileFits, ObjectFits

\* Every entry that was written.
LEMMA EntriesKnown ==
  ASSUME NEW en, EntriesFit(en)
  PROVE  /\ Len(en) \in 0 .. MaxEntries /\ DOMAIN en = 1 .. Len(en)
         /\ \A n \in 1 .. Len(en) :
              /\ n \in Id /\ en[n] \in EntryRec
              /\ en[n].parent \in 0 .. n - 1 /\ en[n].kept \in 0 .. n - 1
              /\ en[n].kind \in {"message", "compaction"} /\ en[n].covers \subseteq 1 .. n - 1
<1>1. Len(en) \in Nat /\ DOMAIN en = 1 .. Len(en) /\ \A n \in 1 .. Len(en) : en[n] \in EntryRec
  BY LenProperties, ElementOfSeq DEF EntriesFit
<1>2. Len(en) \in 0 .. MaxEntries
  BY <1>1, Constants DEF EntriesFit
<1>3. ASSUME NEW n \in 1 .. Len(en)
      PROVE  /\ n \in Id /\ en[n].parent \in 0 .. n - 1 /\ en[n].kept \in 0 .. n - 1
             /\ en[n].kind \in {"message", "compaction"} /\ en[n].covers \subseteq 1 .. n - 1
  <2>1. /\ en[n].parent \in Nat /\ en[n].kept \in Nat
        /\ en[n].kind \in {"message", "compaction"}
    BY <1>1, Constants DEF EntryRec
  <2>2. en[n].parent < n /\ en[n].kept < n /\ en[n].covers \subseteq 1 .. n - 1
    BY DEF EntriesFit
  <2>. QED
    BY <1>2, <2>1, <2>2, Constants DEF Id
<1>. QED
  BY <1>1, <1>2, <1>3

\* Known entries are children of older ones, whoever knows them.
LEMMA ParentsKnown ==
  ASSUME NEW en, EntriesFit(en), NEW ids, ids \subseteq 1 .. Len(en)
  PROVE  Parents(en, ids) /\ Len(en) \in Nat
<1>1. Len(en) \in Nat /\ \A n \in 1 .. Len(en) : en[n].parent \in 0 .. n - 1
  BY EntriesKnown
<1>. QED
  BY <1>1 DEF Parents

\* Whoever knows some of the entries has a path.
LEMMA PathFits ==
  ASSUME NEW en, EntriesFit(en), NEW ids, ids \subseteq 1 .. Len(en),
         NEW leaf \in 0 .. Len(en)
  PROVE  LET p == Walk(en, ids)[leaf] IN
         /\ Parents(en, ids) /\ Rising(p)
         /\ Entries(p) \subseteq ids /\ \A n \in Entries(p) : n \in 1 .. Len(en) /\ n <= leaf
         /\ \A n \in Entries(p) : en[n].kind \in {"message", "compaction"}
         /\ IsFiniteSet(Entries(p)) /\ Cardinality(Entries(p)) <= Len(p)
<1>. DEFINE p == Walk(en, ids)[leaf]
<1>1. Parents(en, ids)
  BY ParentsKnown
<1>2. Rising(p) /\ Entries(p) \subseteq ids /\ \A n \in Entries(p) : n <= leaf
  BY <1>1, WalkRises
<1>. HIDE DEF p
<1>3. \A n \in Entries(p) : n \in 1 .. Len(en) /\ en[n].kind \in {"message", "compaction"}
  BY <1>2, EntriesKnown
<1>4. IsFiniteSet(Entries(p)) /\ Cardinality(Entries(p)) <= Len(p)
  <2>1. Len(p) \in Nat /\ DOMAIN p = 1 .. Len(p) /\ Entries(p) = {p[i] : i \in 1 .. Len(p)}
    BY <1>2, EntriesOf
  <2>2. p \in [1 .. Len(p) -> Entries(p)]
    <3>1. p = [i \in 1 .. Len(p) |-> p[i]]
      BY <1>2, <2>1 DEF Rising
    <3>. QED
      BY <2>1, <3>1
  <2>3. p \in Surjection(1 .. Len(p), Entries(p))
    <3>1. \A n \in Entries(p) : \E i \in 1 .. Len(p) : p[i] = n
      BY <2>1
    <3>. QED
      BY <2>2, <3>1, Zenon DEF Surjection
  <2>4. IsFiniteSet(1 .. Len(p)) /\ Cardinality(1 .. Len(p)) = Len(p)
    <3>1. PICK l \in Nat : l = Len(p)
      BY <2>1
    <3>2. IsFiniteSet(1 .. l) /\ Cardinality(1 .. l) = l
      BY FS_Interval
    <3>. QED
      BY <3>1, <3>2
  <2>. QED
    BY <2>3, <2>4, FS_Surjection
<1>. QED
  BY <1>1, <1>2, <1>3, <1>4 DEF p

\* Of the first m entries the same are known.
Agree(ids, ids2, m) == \A n \in 1 .. m : n \in ids <=> n \in ids2

\* The path of an old leaf stays what it is.
LEMMA PathKept ==
  ASSUME NEW en, EntriesFit(en), NEW en2, EntriesFit(en2), Extends(en, en2),
         NEW ids, ids \subseteq 1 .. Len(en), NEW leaf \in 0 .. Len(en),
         NEW ids2, ids2 \subseteq 1 .. Len(en2), Agree(ids, ids2, Len(en))
  PROVE  Walk(en2, ids2)[leaf] = Walk(en, ids)[leaf]
<1>1. Parents(en, ids) /\ Len(en) \in Nat
  BY ParentsKnown
<1>2. Parents(en2, ids2)
  BY ParentsKnown
<1>3. Len(en) <= Len(en2) /\ \A n \in 1 .. Len(en) : en2[n] = en[n]
  BY DEF Extends
<1>4. Len(en) <= Len(en)
  BY <1>1
<1>. QED
  BY <1>1, <1>2, <1>3, <1>4, WalkKeeps DEF Agree

\* A child of the leaf that is known prolongs the path; one that is not known ends it.
LEMMA PathGrows ==
  ASSUME NEW en, EntriesFit(en), NEW ids, ids \subseteq 1 .. Len(en), NEW n \in 1 .. Len(en)
  PROVE  /\ n \in ids => Walk(en, ids)[n] = Append(Walk(en, ids)[en[n].parent], n)
         /\ n \notin ids => Walk(en, ids)[n] = <<>>
         /\ Walk(en, ids)[0] = <<>>
<1>1. Parents(en, ids) /\ Len(en) \in Nat
  BY ParentsKnown
<1>2. n \in 0 .. Len(en) /\ 0 \in 0 .. Len(en) /\ 0 \notin ids
  BY <1>1
<1>. QED
  BY <1>1, <1>2, WalkUnfolds DEF Step

-----------------------------------------------------------------------------
(* What is written.                                                        *)

\* _append_entry: one more entry that refers to older ones.
LEMMA EntryWritten ==
  ASSUME NEW en, EntriesFit(en), Len(en) < MaxEntries, NEW x \in EntryRec,
         x.parent <= Len(en), x.kept <= Len(en), x.covers \subseteq 1 .. Len(en)
  PROVE  /\ EntriesFit(Append(en, x)) /\ Len(Append(en, x)) = Len(en) + 1
         /\ Extends(en, Append(en, x)) /\ Append(en, x)[Len(en) + 1] = x
<1>. DEFINE e == Append(en, x)
<1>1. PICK m \in Nat : m = Len(en) /\ m < MaxEntries
  BY EntriesKnown
<1>2. e \in Seq(EntryRec) /\ Len(e) = m + 1 /\ e[m + 1] = x /\ \A n \in 1 .. m : e[n] = en[n]
  <2>1. /\ e \in Seq(EntryRec) /\ Len(e) = Len(en) + 1 /\ e[Len(en) + 1] = x
        /\ \A n \in 1 .. Len(en) : e[n] = en[n]
    BY AppendProperties DEF EntriesFit
  <2>. QED
    BY <1>1, <2>1, Zenon
<1>3. Len(e) = m + 1 /\ e[m + 1] = x /\ \A n \in 1 .. m : e[n] = en[n]
  BY <1>2, Zenon
<1>. HIDE DEF e
<1>4. \A n \in 1 .. m : e[n].parent < n /\ e[n].kept < n /\ e[n].covers \subseteq 1 .. n - 1
  BY <1>1, <1>3 DEF EntriesFit
<1>5. x.parent < m + 1 /\ x.kept < m + 1 /\ x.covers \subseteq 1 .. (m + 1) - 1
  <2>1. x.parent \in Nat /\ x.kept \in Nat
    BY Constants DEF EntryRec
  <2>. QED
    BY <1>1, <2>1
<1>6. ASSUME NEW n \in 1 .. m + 1
      PROVE  e[n].parent < n /\ e[n].kept < n /\ e[n].covers \subseteq 1 .. n - 1
  <2>1. CASE n = m + 1
    BY <1>3, <1>5, <2>1
  <2>2. CASE n # m + 1
    <3>1. n \in 1 .. m
      BY <2>2
    <3>. QED
      BY <1>4, <3>1
  <2>. QED
    BY <2>1, <2>2
<1>7. m + 1 <= MaxEntries
  BY <1>1, Constants
<1>8. EntriesFit(e)
  BY <1>2, <1>6, <1>7, Zenon DEF EntriesFit
<1>9. Extends(en, e)
  BY <1>1, <1>3 DEF Extends
<1>. QED
  BY <1>1, <1>3, <1>8, <1>9 DEF e

\* The entry of a message, as add_message makes it.
Said(leaf) == [parent |-> leaf, kind |-> "message", kept |-> None, covers |-> {}]

\* A sequence of one and of two.
LEMMA OneOf ==
  ASSUME NEW a
  PROVE  [i \in 1 .. 1 |-> a] = <<a>>
OBVIOUS

LEMMA TwoOf ==
  ASSUME NEW a, NEW b
  PROVE  <<a, b>> = <<a>> \o <<b>>
<1>. DEFINE S == {a, b}
            p == <<a>>
            q == <<a, b>>
<1>1. p \in Seq(S) /\ q \in Seq(S) /\ b \in S /\ Len(p) = 1 /\ Len(q) = 2
      /\ p[1] = a /\ q[1] = a /\ q[2] = b
  OBVIOUS
<1>2. Append(p, b) = p \o <<b>>
  <2>. HIDE DEF S, p
  <2>. QED
    BY <1>1, AppendIsConcat
<1>3. Append(p, b) = q
  <2>. HIDE DEF S, p, q
  <2>1. PICK r : r = Append(p, b)
    OBVIOUS
  <2>2. r \in Seq(S) /\ Len(r) = 2 /\ r[1] = a /\ r[2] = b
    BY <1>1, <2>1, AppendProperties
  <2>3. \A i \in 1 .. Len(r) : r[i] = q[i]
    BY <1>1, <2>2
  <2>. QED
    BY <1>1, <2>1, <2>2, <2>3, SeqEqual
<1>. QED
  BY <1>2, <1>3, Zenon

\* add_message, k times.
LEMMA MessagesWritten ==
  ASSUME EntriesFit(entry), NEW s, s.leaf \in 0 .. Len(entry)
  PROVE  /\ NewMessages(s, 0) = entry
         /\ NewMessages(s, 1) = Append(entry, Said(s.leaf))
         /\ NewMessages(s, 2) = Append(Append(entry, Said(s.leaf)), Said(Len(entry) + 1))
<1>. DEFINE T == UNION {EntryRec, {Said(s.leaf), Said(Len(entry) + 1)}}
            f(k) == [i \in 1 .. k |-> [parent |-> IF i = 1 THEN s.leaf ELSE Len(entry) + i - 1,
                                       kind |-> "message", kept |-> None, covers |-> {}]]
<1>1. entry \in Seq(T) /\ Len(entry) \in Nat
  <2>1. entry \in Seq(EntryRec) /\ EntryRec \subseteq T
    BY DEF EntriesFit
  <2>. QED
    BY <2>1, LenProperties, SeqMonotonic
<1>2. \A k : NewMessages(s, k) = entry \o f(k)
  BY Zenon DEF NewMessages
<1>3. f(0) = <<>>
  OBVIOUS
<1>4. f(1) = <<Said(s.leaf)>>
  <2>1. f(1) = [i \in 1 .. 1 |-> Said(s.leaf)]
    BY DEF Said
  <2>. QED
    BY <2>1, OneOf, Zenon
<1>5. f(2) = <<Said(s.leaf), Said(Len(entry) + 1)>>
  <2>1. Len(entry) + 2 - 1 = Len(entry) + 1
    BY <1>1
  <2>2. f(2) = [i \in 1 .. 2 |-> IF i = 1 THEN Said(s.leaf) ELSE Said(Len(entry) + 1)]
    <3>1. ASSUME NEW i \in 1 .. 2
          PROVE  [parent |-> IF i = 1 THEN s.leaf ELSE Len(entry) + i - 1,
                  kind |-> "message", kept |-> None, covers |-> {}]
                   = IF i = 1 THEN Said(s.leaf) ELSE Said(Len(entry) + 1)
      <4>1. CASE i = 1
        BY <4>1 DEF Said
      <4>2. CASE i = 2
        BY <2>1, <4>2 DEF Said
      <4>. QED
        BY <4>1, <4>2
    <3>. QED
      BY <3>1, Zenon
  <2>3. \A a, b : [i \in 1 .. 2 |-> IF i = 1 THEN a ELSE b] = <<a, b>>
    OBVIOUS
  <2>. QED
    BY <2>2, <2>3, Zenon
<1>6. f(2) = <<Said(s.leaf)>> \o <<Said(Len(entry) + 1)>>
  BY <1>5, TwoOf, Zenon
<1>. HIDE DEF f
<1>7. entry \o <<>> = entry
  BY <1>1, ConcatEmptySeq
<1>8. ASSUME NEW q \in Seq(T), NEW x \in T PROVE q \o <<x>> = Append(q, x)
  BY AppendIsConcat
<1>9. Said(s.leaf) \in T /\ Said(Len(entry) + 1) \in T
  OBVIOUS
<1>. HIDE DEF T
<1>10. /\ Append(entry, Said(s.leaf)) = entry \o <<Said(s.leaf)>>
       /\ Append(entry, Said(s.leaf)) \in Seq(T)
  BY <1>1, <1>8, <1>9, AppendProperties
<1>11. entry \o (<<Said(s.leaf)>> \o <<Said(Len(entry) + 1)>>)
         = (entry \o <<Said(s.leaf)>>) \o <<Said(Len(entry) + 1)>>
  <2>1. <<Said(s.leaf)>> \in Seq(T) /\ <<Said(Len(entry) + 1)>> \in Seq(T)
    BY <1>9
  <2>. QED
    BY <1>1, <2>1, ConcatAssociative
<1>. QED
  BY <1>2, <1>3, <1>4, <1>6, <1>7, <1>8, <1>9, <1>10, <1>11

\* e has one more entry than en: it prolongs the path of its parent for who knows it.
OneAdded(en, e, x, m) ==
  /\ EntriesFit(e) /\ Len(e) = m + 1 /\ Extends(en, e) /\ e[m + 1] = x
  /\ \A ids \in SUBSET (1 .. m) :
       /\ \A leaf \in 0 .. m : /\ Walk(e, ids)[leaf] = Walk(en, ids)[leaf]
                               /\ Walk(e, ids \cup {m + 1})[leaf] = Walk(en, ids)[leaf]
       /\ Walk(e, ids)[m + 1] = <<>>
       /\ Walk(e, ids \cup {m + 1})[m + 1] = Append(Walk(en, ids)[x.parent], m + 1)

\* _append_entry, as a step of the entries.
LEMMA EntryAdded ==
  ASSUME NEW en, EntriesFit(en), Len(en) < MaxEntries, NEW x \in EntryRec,
         x.parent <= Len(en), x.kept <= Len(en), x.covers \subseteq 1 .. Len(en),
         NEW m \in Nat, m = Len(en)
  PROVE  OneAdded(en, Append(en, x), x, m)
<1>. DEFINE e == Append(en, x)
<1>1. EntriesFit(e) /\ Len(e) = Len(en) + 1 /\ Extends(en, e) /\ e[Len(en) + 1] = x
  BY EntryWritten
<1>. HIDE DEF e
<1>2. Len(e) = m + 1 /\ e[m + 1] = x
  BY <1>1, Zenon
<1>3. x.parent \in 0 .. m
  BY Constants DEF EntryRec
<1>4. ASSUME NEW ids \in SUBSET (1 .. m)
      PROVE  /\ \A leaf \in 0 .. m : /\ Walk(e, ids)[leaf] = Walk(en, ids)[leaf]
                                     /\ Walk(e, ids \cup {m + 1})[leaf] = Walk(en, ids)[leaf]
             /\ Walk(e, ids)[m + 1] = <<>>
             /\ Walk(e, ids \cup {m + 1})[m + 1] = Append(Walk(en, ids)[x.parent], m + 1)
  <2>1. /\ ids \subseteq 1 .. Len(e) /\ ids \cup {m + 1} \subseteq 1 .. Len(e)
        /\ m + 1 \in 1 .. Len(e) /\ m + 1 \notin ids /\ m + 1 \in ids \cup {m + 1}
    <3>1. 1 .. m \subseteq 1 .. m + 1 /\ m + 1 \in 1 .. m + 1 /\ m + 1 \notin 1 .. m
      OBVIOUS
    <3>. QED
      BY <1>2, <3>1
  <2>2. \A n \in 1 .. m : n \in ids <=> n \in ids \cup {m + 1}
    OBVIOUS
  <2>3. ASSUME NEW leaf \in 0 .. m
        PROVE  /\ Walk(e, ids)[leaf] = Walk(en, ids)[leaf]
               /\ Walk(e, ids \cup {m + 1})[leaf] = Walk(en, ids)[leaf]
    <3>1. leaf \in 0 .. Len(en) /\ ids \subseteq 1 .. Len(en)
          /\ Agree(ids, ids, Len(en)) /\ Agree(ids, ids \cup {m + 1}, Len(en))
      BY <2>2 DEF Agree
    <3>2. Walk(e, ids)[leaf] = Walk(en, ids)[leaf]
      BY <1>1, <2>1, <3>1, PathKept
    <3>3. Walk(e, ids \cup {m + 1})[leaf] = Walk(en, ids)[leaf]
      BY <1>1, <2>1, <3>1, PathKept
    <3>. QED
      BY <3>2, <3>3
  <2>4. Walk(e, ids)[m + 1] = <<>>
    BY <1>1, <2>1, PathGrows, Zenon
  <2>5. Walk(e, ids \cup {m + 1})[m + 1] = Append(Walk(e, ids \cup {m + 1})[e[m + 1].parent], m + 1)
    BY <1>1, <2>1, PathGrows, Zenon
  <2>6. Walk(e, ids \cup {m + 1})[x.parent] = Walk(en, ids)[x.parent]
    BY <1>3, <2>3
  <2>. QED
    BY <1>2, <2>3, <2>4, <2>5, <2>6
<1>. QED
  BY <1>1, <1>2, <1>4, Zenon DEF e, OneAdded

\* The ids of one and of two new entries.
LEMMA NewIdsAre ==
  ASSUME EntriesFit(entry)
  PROVE  LET m == Len(entry) IN
         /\ NewIds(0) = {} /\ NewIds(1) = {m + 1} /\ NewIds(2) = {m + 1, m + 2}
         /\ Least(NewIds(1)) = m + 1 /\ Least(NewIds(2)) = m + 1
         /\ Greatest({m + 1}) = m + 1 /\ Greatest({m + 2}) = m + 2
         /\ Greatest({m + 1, m + 2}) = m + 2
<1>1. PICK m \in Nat : m = Len(entry)
  BY EntriesKnown
<1>2. NewIds(0) = {} /\ NewIds(1) = {m + 1} /\ NewIds(2) = {m + 1, m + 2}
  BY <1>1 DEF NewIds
<1>3. Least({m + 1}) = m + 1 /\ Least({m + 1, m + 2}) = m + 1
  BY <1>1 DEF Least
<1>4. Greatest({m + 1}) = m + 1 /\ Greatest({m + 2}) = m + 2 /\ Greatest({m + 1, m + 2}) = m + 2
  BY <1>1 DEF Greatest
<1>. QED
  BY <1>1, <1>2, <1>3, <1>4

\* What k lines make of the file f when m entries have been written.
Lines(f, g, m, k) ==
  /\ g.torn = FALSE
  /\ f.torn = FALSE => g.ids = f.ids \cup m + 1 .. m + k /\ g.last = m + k
  /\ f.torn = TRUE /\ k = 1 => g.ids = f.ids /\ g.last = f.last
  /\ f.torn = TRUE /\ k = 2 => g.ids = f.ids \cup {m + 2} /\ g.last = m + 2

\* _write_line, for one entry or two.
LEMMA LinesWritten ==
  ASSUME EntriesFit(entry), NEW f, FileFits(f, Len(entry)), NEW k \in 1 .. 2,
         NEW m \in Nat, m = Len(entry), m + k <= MaxEntries,
         NEW g, g = WithLines(f, NewIds(k))
  PROVE  FileFits(g, m + k) /\ Lines(f, g, m, k)
<1>. DEFINE read == IF f.torn THEN NewIds(k) \ {Least(NewIds(k))} ELSE NewIds(k)
            ids == f.ids \cup read
            last == IF read = {} THEN f.last ELSE Greatest(read)
<1>1. g = [exists |-> TRUE, ids |-> ids, torn |-> FALSE, last |-> last]
  BY DEF WithLines
<1>2. m \in Nat /\ m = Len(entry) /\ m + k <= MaxEntries
  OBVIOUS
<1>3. f.ids \subseteq 1 .. m /\ f.last \in 0 .. m /\ (f.ids # {} => f.last \in f.ids)
      /\ f.torn \in BOOLEAN
  BY <1>2 DEF FileFits, Fits, FileRec
<1>4. /\ ~f.torn => ids = f.ids \cup NewIds(k) /\ last = m + k
      /\ f.torn /\ k = 1 => ids = f.ids /\ last = f.last
      /\ f.torn /\ k = 2 => ids = f.ids \cup {m + 2} /\ last = m + 2
  <2>1. CASE k = 1
    <3>1. NewIds(k) = {m + 1} /\ Least(NewIds(k)) = m + 1 /\ Greatest({m + 1}) = m + 1
      BY <1>2, <2>1, NewIdsAre
    <3>2. {m + 1} \ {m + 1} = {} /\ {m + 1} # {} /\ m + k = m + 1
      BY <2>1
    <3>3. f.ids \cup {} = f.ids
      OBVIOUS
    <3>4. CASE f.torn
      <4>1. read = {}
        BY <3>1, <3>2, <3>4, Zenon
      <4>2. ids = f.ids /\ last = f.last
        BY <3>3, <4>1, Zenon
      <4>. QED
        BY <2>1, <3>4, <4>2
    <3>5. CASE ~f.torn
      <4>1. read = {m + 1}
        BY <3>1, <3>5, Zenon
      <4>. QED
        BY <3>1, <3>2, <3>5, <4>1
    <3>. QED
      BY <3>4, <3>5
  <2>2. CASE k = 2
    <3>1. /\ NewIds(k) = {m + 1, m + 2} /\ Least(NewIds(k)) = m + 1
          /\ Greatest({m + 2}) = m + 2 /\ Greatest({m + 1, m + 2}) = m + 2
      BY <1>2, <2>2, NewIdsAre
    <3>2. {m + 1, m + 2} \ {m + 1} = {m + 2}
      OBVIOUS
    <3>. QED
      BY <2>2, <3>1, <3>2
  <2>. QED
    BY <2>1, <2>2
<1>5. NewIds(k) \subseteq 1 .. m + k /\ m + k \in NewIds(k)
  <2>1. CASE k = 1
    BY <1>2, <2>1, NewIdsAre
  <2>2. CASE k = 2
    BY <1>2, <2>2, NewIdsAre
  <2>. QED
    BY <2>1, <2>2
<1>. HIDE DEF ids, last
<1>6. Fits(ids, last, m + k)
  <2>1. CASE ~f.torn
    BY <1>3, <1>4, <1>5, <2>1 DEF Fits
  <2>2. CASE f.torn /\ k = 1
    BY <1>3, <1>4, <2>2 DEF Fits
  <2>3. CASE f.torn /\ k = 2
    BY <1>3, <1>4, <2>3 DEF Fits
  <2>. QED
    BY <1>3, <2>1, <2>2, <2>3
<1>7. g \in FileRec
  <2>1. 1 .. m + k \subseteq Id /\ 0 .. m + k \subseteq 0 .. MaxEntries
    BY <1>2, Constants DEF Id
  <2>2. ids \in SUBSET Id /\ last \in 0 .. MaxEntries
    BY <1>6, <2>1 DEF Fits
  <2>. QED
    BY <1>1, <2>2 DEF FileRec
<1>8. FileFits(g, m + k) /\ g.torn = FALSE
  BY <1>1, <1>6, <1>7 DEF FileFits
<1>9. g.ids = ids /\ g.last = last
  BY <1>1
<1>10. NewIds(k) = m + 1 .. m + k
  BY <1>2 DEF NewIds
<1>. QED
  BY <1>4, <1>8, <1>9, <1>10 DEF Lines

\* A record with some fields replaced: its ids and its leaf,
LEMMA OtherPath ==
  ASSUME NEW s \in ObjectRec, NEW ids, NEW leaf
  PROVE  [s EXCEPT !.ids = ids, !.leaf = leaf]
           = [ids |-> ids, leaf |-> leaf, lastConsolidated |-> s.lastConsolidated,
              disk |-> s.disk, awaitsReset |-> s.awaitsReset]
<1>1. s = [ids |-> s.ids, leaf |-> s.leaf, lastConsolidated |-> s.lastConsolidated,
           disk |-> s.disk, awaitsReset |-> s.awaitsReset]
  BY DEF ObjectRec
<1>2. PICK i, l, n, d, a : s = [ids |-> i, leaf |-> l, lastConsolidated |-> n, disk |-> d,
                                awaitsReset |-> a]
  BY <1>1
<1>3. PICK s2 : s2 = [ids |-> ids, leaf |-> l, lastConsolidated |-> n, disk |-> d,
                       awaitsReset |-> a]
  OBVIOUS
<1>4. [s EXCEPT !.ids = ids] = s2
  BY <1>2, <1>3
<1>5. [s2 EXCEPT !.leaf = leaf]
        = [ids |-> ids, leaf |-> leaf, lastConsolidated |-> n, disk |-> d, awaitsReset |-> a]
  BY <1>3
<1>6. [s EXCEPT !.ids = ids, !.leaf = leaf] = [s2 EXCEPT !.leaf = leaf]
  BY <1>4, Zenon
<1>. QED
  BY <1>2, <1>5, <1>6

\* those, the count and the file of a cleared session,
LEMMA OtherBranch ==
  ASSUME NEW s \in ObjectRec, NEW ids, NEW leaf, NEW k, NEW b
  PROVE  [s EXCEPT !.ids = ids, !.leaf = leaf, !.lastConsolidated = k, !.disk = b]
           = [ids |-> ids, leaf |-> leaf, lastConsolidated |-> k, disk |-> b,
              awaitsReset |-> s.awaitsReset]
<1>1. PICK i, l, n, d, a : s = [ids |-> i, leaf |-> l, lastConsolidated |-> n, disk |-> d,
                                awaitsReset |-> a]
  <2>1. s = [ids |-> s.ids, leaf |-> s.leaf, lastConsolidated |-> s.lastConsolidated,
             disk |-> s.disk, awaitsReset |-> s.awaitsReset]
    BY DEF ObjectRec
  <2>. QED
    BY <2>1
<1>2. PICK s2 : s2 = [ids |-> ids, leaf |-> leaf, lastConsolidated |-> n, disk |-> d,
                       awaitsReset |-> a]
  OBVIOUS
<1>3. [s EXCEPT !.ids = ids, !.leaf = leaf] = s2
  <2>1. [s EXCEPT !.ids = ids, !.leaf = leaf]
          = [ids |-> ids, leaf |-> leaf, lastConsolidated |-> s.lastConsolidated,
             disk |-> s.disk, awaitsReset |-> s.awaitsReset]
    BY OtherPath, Zenon
  <2>2. s.lastConsolidated = n /\ s.disk = d /\ s.awaitsReset = a
    BY <1>1
  <2>. QED
    BY <1>2, <2>1, <2>2
<1>4. PICK s3 : s3 = [ids |-> ids, leaf |-> leaf, lastConsolidated |-> k, disk |-> d,
                       awaitsReset |-> a]
  OBVIOUS
<1>5. [s2 EXCEPT !.lastConsolidated = k] = s3
  BY <1>2, <1>4
<1>6. [s3 EXCEPT !.disk = b]
        = [ids |-> ids, leaf |-> leaf, lastConsolidated |-> k, disk |-> b, awaitsReset |-> a]
  BY <1>4
<1>7. [s EXCEPT !.ids = ids, !.leaf = leaf, !.lastConsolidated = k, !.disk = b]
        = [s3 EXCEPT !.disk = b]
  BY <1>3, <1>5, Zenon
<1>8. s.awaitsReset = a
  BY <1>1
<1>. QED
  BY <1>6, <1>7, <1>8

\* last_consolidated,
LEMMA OtherCount ==
  ASSUME NEW s \in ObjectRec, NEW k
  PROVE  [s EXCEPT !.lastConsolidated = k]
           = [ids |-> s.ids, leaf |-> s.leaf, lastConsolidated |-> k,
              disk |-> s.disk, awaitsReset |-> s.awaitsReset]
BY DEF ObjectRec

\* the pending question of a factory reset,
LEMMA OtherReset ==
  ASSUME NEW s \in ObjectRec, NEW b
  PROVE  [s EXCEPT !.awaitsReset = b]
           = [ids |-> s.ids, leaf |-> s.leaf, lastConsolidated |-> s.lastConsolidated,
              disk |-> s.disk, awaitsReset |-> b]
BY DEF ObjectRec

\* that the file exists,
LEMMA OtherExists ==
  ASSUME NEW f \in FileRec, NEW b
  PROVE  [f EXCEPT !.exists = b] = [exists |-> b, ids |-> f.ids, last |-> f.last, torn |-> f.torn]
BY DEF FileRec

\* and that its last line is torn.
LEMMA OtherTorn ==
  ASSUME NEW f \in FileRec, NEW b
  PROVE  [f EXCEPT !.torn = b] = [exists |-> f.exists, ids |-> f.ids, last |-> f.last, torn |-> b]
BY DEF FileRec

LEMMA TornAndThere ==
  ASSUME NEW f \in FileRec
  PROVE  [f EXCEPT !.exists = TRUE, !.torn = TRUE]
           = [exists |-> TRUE, ids |-> f.ids, last |-> f.last, torn |-> TRUE]
<1>1. PICK x, i, l, b : f = [exists |-> x, ids |-> i, last |-> l, torn |-> b]
  <2>1. f = [exists |-> f.exists, ids |-> f.ids, last |-> f.last, torn |-> f.torn]
    BY DEF FileRec
  <2>. QED
    BY <2>1
<1>2. PICK g : g = [exists |-> TRUE, ids |-> i, last |-> l, torn |-> b]
  OBVIOUS
<1>3. [f EXCEPT !.exists = TRUE] = g
  <2>1. \A e : [f EXCEPT !.exists = e] = [exists |-> e, ids |-> i, last |-> l, torn |-> b]
    BY <1>1
  <2>. QED
    BY <1>2, <2>1, Zenon
<1>4. [g EXCEPT !.torn = TRUE] = [exists |-> TRUE, ids |-> i, last |-> l, torn |-> TRUE]
  <2>1. PICK e : e = TRUE
    OBVIOUS
  <2>2. g = [exists |-> e, ids |-> i, last |-> l, torn |-> b]
    BY <1>2, <2>1, Zenon
  <2>3. \A r : [g EXCEPT !.torn = r] = [exists |-> e, ids |-> i, last |-> l, torn |-> r]
    BY <2>2
  <2>. QED
    BY <2>1, <2>3, Zenon
<1>5. [f EXCEPT !.exists = TRUE, !.torn = TRUE] = [g EXCEPT !.torn = TRUE]
  BY <1>3, Zenon
<1>6. f.ids = i /\ f.last = l
  BY <1>1
<1>. QED
  BY <1>4, <1>5, <1>6

\* A session object that registers new entries.
LEMMA RegisteredFits ==
  ASSUME EntriesFit(entry), NEW s, ObjectFits(s, Len(entry)), NEW k \in 1 .. 2,
         Len(entry) + k <= MaxEntries
  PROVE  /\ ObjectFits(Registered(s, k), Len(entry) + k)
         /\ Registered(s, k).ids = s.ids \cup NewIds(k) /\ Registered(s, k).leaf = Len(entry) + k
         /\ Registered(s, k).lastConsolidated = s.lastConsolidated
         /\ Registered(s, k).disk = s.disk /\ Registered(s, k).awaitsReset = s.awaitsReset
<1>1. PICK m \in Nat : m = Len(entry) /\ m + k <= MaxEntries
  BY EntriesKnown
<1>. DEFINE ids == s.ids \cup NewIds(k)
            g == [ids |-> ids, leaf |-> m + k, lastConsolidated |-> s.lastConsolidated,
                  disk |-> s.disk, awaitsReset |-> s.awaitsReset]
<1>2. Registered(s, k) = g
  <2>1. Len(entry) + k = m + k
    BY <1>1
  <2>2. s \in ObjectRec
    BY DEF ObjectFits
  <2>3. [s EXCEPT !.ids = ids, !.leaf = m + k] = g
    BY <2>2, OtherPath, Zenon
  <2>4. Registered(s, k) = [s EXCEPT !.ids = ids, !.leaf = m + k]
    BY <2>1, Zenon DEF Registered
  <2>. QED
    BY <2>3, <2>4
<1>3. NewIds(k) \subseteq 1 .. m + k /\ m + k \in NewIds(k)
  BY <1>1 DEF NewIds
<1>4. s.ids \subseteq 1 .. m
  BY <1>1 DEF ObjectFits, Fits
<1>5. Fits(ids, m + k, m + k)
  BY <1>3, <1>4 DEF Fits
<1>6. g \in ObjectRec
  <2>1. 1 .. m + k \subseteq Id /\ m + k \in 0 .. MaxEntries
    BY <1>1, Constants DEF Id
  <2>2. ids \in SUBSET Id
    BY <1>5, <2>1 DEF Fits
  <2>. HIDE DEF ids
  <2>. QED
    BY <2>1, <2>2 DEF ObjectRec, ObjectFits
<1>. HIDE DEF ids
<1>7. ObjectFits(g, m + k)
  BY <1>5, <1>6 DEF ObjectFits
<1>. QED
  BY <1>1, <1>2, <1>7 DEF ids


-----------------------------------------------------------------------------
(* What an action reads.                                                   *)

\* The path of an object, the number of its messages, its first k entries.
Way(en, s) == Walk(en, s.ids)[s.leaf]
Count(en, s) == Cardinality(Told(en, Way(en, s)))
Upto(p, k) == {p[i] : i \in {j \in DOMAIN p : j <= k}}

\* The operators of Sessions, with the entries as an argument.
LEMMA PathIsWay ==
  /\ \A s : Path(s) = Way(entry, s) /\ MessageCount(s) = Count(entry, s)
  /\ \A p : Messages(p) = Told(entry, p)
<1>1. \A p : Messages(p) = Told(entry, p)
  BY Zenon DEF Messages, Told
<1>2. \A s : Path(s) = Way(entry, s)
  BY PathIsWalk, Zenon DEF Path, Way
<1>. QED
  BY <1>1, <1>2, Zenon DEF MessageCount, Count

\* The entries of a path from one position to another.
Between(p, a, b) == {p[i] : i \in a .. b}

\* Slicing a path gives those entries.
LEMMA EntriesOfPart ==
  ASSUME NEW p, Rising(p), NEW a \in Nat \ {0}, NEW b \in Nat, b <= Len(p)
  PROVE  Entries(SubSeq(p, a, b)) = Between(p, a, b)
<1>. DEFINE q == SubSeq(p, a, b)
<1>1. Len(p) \in Nat /\ p \in Seq(Nat \ {0})
  BY EntriesOf DEF Rising
<1>2. PICK l \in Nat : l = Len(p)
  BY <1>1
<1>3. b <= l
  BY <1>2
<1>4. CASE a <= b
  <2>1. a \in 1 .. l + 1 /\ b \in a - 1 .. l
    BY <1>2, <1>3, <1>4
  <2>2. Len(q) = b - a + 1 /\ \A i \in 1 .. b - a + 1 : q[i] = p[a + i - 1]
    <3>1. a \in 1 .. Len(p) + 1 /\ b \in a - 1 .. Len(p)
      BY <1>2, <2>1
    <3>. QED
      BY <1>1, <3>1, SubSeqProperties
  <2>3. DOMAIN q = 1 .. b - a + 1
    <3>1. q \in Seq(Nat \ {0})
      <4>1. a \in 1 .. Len(p) + 1 /\ b \in a - 1 .. Len(p)
        BY <1>2, <2>1
      <4>. QED
        BY <1>1, <4>1, SubSeqProperties
    <3>. QED
      BY <2>2, <3>1, LenProperties
  <2>. HIDE DEF q
  <2>4. Entries(q) = {p[a + i - 1] : i \in 1 .. b - a + 1}
    BY <2>2, <2>3 DEF Entries
  <2>5. {p[a + i - 1] : i \in 1 .. b - a + 1} = {p[i] : i \in a .. b}
    <3>1. ASSUME NEW i \in a .. b
          PROVE  \E j \in 1 .. b - a + 1 : p[i] = p[a + j - 1]
      <4>1. i - a + 1 \in 1 .. b - a + 1 /\ a + (i - a + 1) - 1 = i
        OBVIOUS
      <4>. QED
        BY <4>1
    <3>2. \A j \in 1 .. b - a + 1 : a + j - 1 \in a .. b
      OBVIOUS
    <3>. QED
      BY <3>1, <3>2
  <2>. QED
    BY <2>4, <2>5 DEF q, Between
<1>5. CASE ~(a <= b)
  <2>1. SubSeq(p, a, b) = <<>>
    BY <1>5
  <2>2. a .. b = {}
    BY <1>5
  <2>3. Entries(<<>>) = {}
    BY DEF Entries
  <2>. QED
    BY <2>1, <2>2, <2>3 DEF Between
<1>. QED
  BY <1>4, <1>5

\* A consolidation works off what lies between the entries that are counted as
\* consolidated and those it is going to keep.
Earlier(en, p, k, l) == {n \in Told(en, p) : n < k /\ n \notin Upto(p, l)}
\* The first k entries of a path are older than n.
Before(p, l, k) == \A n \in Upto(p, l) : n < k

\* What a consolidation reads: what it summarises is older than what it keeps.
LEMMA ReadingFits ==
  ASSUME EntriesFit(entry), NEW s, ObjectFits(s, Len(entry)), s.lastConsolidated >= 0,
         NEW o \in Object, NeedsCompaction(s)
  PROVE  LET c == Reading(o, s, FALSE)
             p == Way(entry, s) IN
         /\ TaskFits(c, Len(entry)) /\ c.object = o /\ c.archive = FALSE
         /\ c.kept \in Entries(p) /\ c.kept # None
         /\ c.window = From(entry, p, c.kept)
         /\ c.old = Earlier(entry, p, c.kept, s.lastConsolidated)
         /\ Count(entry, s) >= Keep /\ Before(p, Count(entry, s) - Keep, c.kept)
<1>. DEFINE p == Way(entry, s)
            c == Reading(o, s, FALSE)
            a == s.lastConsolidated + 1
<1>1. /\ Rising(p) /\ Entries(p) \subseteq 1 .. Len(entry)
      /\ IsFiniteSet(Entries(p)) /\ Cardinality(Entries(p)) <= Len(p)
  BY PathFits DEF ObjectFits, Fits, Way
<1>2. MessageCount(s) = Count(entry, s) /\ Path(s) = p /\ \A q : Messages(q) = Told(entry, q)
  BY PathIsWay
<1>. HIDE DEF p
<1>3. PICK l \in Nat : /\ l = Len(p) /\ DOMAIN p = 1 .. l
                       /\ \A i \in 1 .. l : p[i] \in Nat \ {0}
  BY <1>1, EntriesOf
<1>4. Entries(p) = {p[i] : i \in 1 .. l}
  BY <1>1, <1>3, EntriesOf
<1>5. Keep \in Nat \ {0} /\ MemoryWindow \in Nat /\ Keep < MemoryWindow
  BY Constants DEF NeedsCompaction, OldEntries
<1>6. PICK k \in Nat : k = Count(entry, s) /\ k <= l
  <2>1. Told(entry, p) \subseteq Entries(p)
    BY DEF Told
  <2>2. Cardinality(Told(entry, p)) <= Cardinality(Entries(p))
        /\ Cardinality(Told(entry, p)) \in Nat /\ Cardinality(Entries(p)) \in Nat
    BY <1>1, <2>1, FS_Subset, FS_CardinalityType
  <2>3. Cardinality(Entries(p)) <= l
    BY <1>1, <1>3
  <2>4. Count(entry, s) = Cardinality(Told(entry, p))
    BY DEF Count, p
  <2>. QED
    BY <2>2, <2>3, <2>4
<1>7. k > MemoryWindow
  BY <1>2, <1>6 DEF NeedsCompaction
<1>8. PICK b \in Nat : b = l - Keep /\ b + 1 \in 1 .. l
  BY <1>5, <1>6, <1>7
<1>9. a \in Nat \ {0}
  BY DEF ObjectFits, ObjectRec
<1>. HIDE DEF a
<1>10. /\ c.object = o /\ c.archive = FALSE /\ c.kept = p[b + 1]
       /\ c.old = Told(entry, SubSeq(p, a, b)) /\ c.window = Told(entry, SubSeq(p, b + 1, l))
       /\ c \in [object : {o}, archive : {FALSE}, kept : {c.kept}, old : {c.old},
                 window : {c.window}]
  <2>1. OldEntries(s) = SubSeq(p, a, b)
    BY <1>2, <1>3, <1>5, <1>8 DEF OldEntries, a
  <2>2. FirstKept(p, FALSE) = p[b + 1]
    BY <1>3, <1>8 DEF FirstKept
  <2>3. SubSeq(p, Len(p) - Keep + 1, Len(p)) = SubSeq(p, b + 1, l)
    BY <1>3, <1>8
  <2>4. c = [object |-> o, archive |-> FALSE, kept |-> p[b + 1],
             old |-> Told(entry, SubSeq(p, a, b)), window |-> Told(entry, SubSeq(p, b + 1, l))]
    BY <1>2, <2>1, <2>2, <2>3 DEF Reading
  <2>. HIDE DEF c
  <2>. QED
    BY <2>4
<1>. HIDE DEF c
<1>11. /\ Entries(SubSeq(p, a, b)) = {p[i] : i \in a .. b}
       /\ Entries(SubSeq(p, b + 1, l)) = {p[i] : i \in b + 1 .. l}
  <2>1. b <= Len(p) /\ l <= Len(p) /\ b + 1 \in Nat \ {0}
    BY <1>3, <1>8
  <2>2. Entries(SubSeq(p, a, b)) = Between(p, a, b)
    BY <1>1, <1>8, <1>9, <2>1, EntriesOfPart, Zenon
  <2>3. Entries(SubSeq(p, b + 1, l)) = Between(p, b + 1, l)
    BY <1>1, <1>3, <2>1, EntriesOfPart, Zenon
  <2>. QED
    BY <2>2, <2>3 DEF Between
<1>12. \A i, j \in 1 .. l : i < j => p[i] < p[j]
  BY <1>1, <1>3 DEF Rising
<1>13. ASSUME NEW i \in 1 .. l
       PROVE  /\ i \in b + 1 .. l <=> p[i] >= p[b + 1]
              /\ i \in a .. b <=> p[i] < p[b + 1] /\ ~(i <= s.lastConsolidated)
  <2>1. p[i] \in Nat /\ p[b + 1] \in Nat
    BY <1>3, <1>8
  <2>2. i < b + 1 => p[i] < p[b + 1]
    BY <1>8, <1>12
  <2>3. b + 1 < i => p[b + 1] < p[i]
    BY <1>8, <1>12
  <2>4. i \in b + 1 .. l <=> p[i] >= p[b + 1]
    BY <1>8, <2>1, <2>2, <2>3
  <2>5. s.lastConsolidated \in Int
    BY DEF ObjectFits, ObjectRec
  <2>6. a <= i <=> ~(i <= s.lastConsolidated)
    BY <2>5 DEF a
  <2>. QED
    BY <1>8, <1>9, <2>1, <2>2, <2>3, <2>4, <2>6
<1>14. c.window = From(entry, p, c.kept)
  <2>1. \A n \in Entries(p) : n \in {p[i] : i \in b + 1 .. l} <=> n >= p[b + 1]
    BY <1>3, <1>4, <1>8, <1>13
  <2>2. {p[i] : i \in b + 1 .. l} \subseteq Entries(p)
    BY <1>4, <1>8
  <2>. QED
    BY <1>10, <1>11, <2>1, <2>2 DEF Told, From
<1>15. c.old = Earlier(entry, p, c.kept, s.lastConsolidated)
  <2>1. {p[i] : i \in a .. b} \subseteq Entries(p)
    BY <1>4, <1>8, <1>9
  <2>2. \A i, j \in 1 .. l : p[i] = p[j] => i = j
    BY <1>3, <1>12
  <2>3. ASSUME NEW i \in 1 .. l
        PROVE  p[i] \in Upto(p, s.lastConsolidated) <=> i <= s.lastConsolidated
    BY <1>3, <2>2 DEF Upto
  <2>4. ASSUME NEW i \in 1 .. l PROVE p[i] \in {p[j] : j \in a .. b} <=> i \in a .. b
    BY <1>8, <1>9, <2>2
  <2>5. \A n \in Entries(p) : n \in {p[i] : i \in a .. b}
                                <=> n < p[b + 1] /\ n \notin Upto(p, s.lastConsolidated)
    BY <1>4, <1>13, <2>3, <2>4
  <2>. QED
    BY <1>10, <1>11, <2>1, <2>5 DEF Told, Earlier
<1>16. c.kept \in Entries(p) /\ c.kept # None /\ c.kept \in 1 .. Len(entry)
  BY <1>1, <1>3, <1>4, <1>8, <1>10 DEF None
<1>17. c.old \subseteq 1 .. Len(entry) /\ c.window \subseteq 1 .. Len(entry)
  BY <1>1, <1>14, <1>15 DEF From, Told, Earlier
<1>18. TaskFits(c, Len(entry))
  <2>1. 1 .. Len(entry) \subseteq Id /\ 1 .. Len(entry) \subseteq 0 .. MaxEntries
        /\ c.kept <= Len(entry)
    <3>1. PICK m \in Nat : m = Len(entry) /\ m <= MaxEntries
      BY EntriesKnown
    <3>2. 1 .. m \subseteq 1 .. MaxEntries /\ 1 .. m \subseteq 0 .. MaxEntries
      BY <3>1, Constants
    <3>3. c.kept <= m
      BY <1>16, <3>1
    <3>. QED
      BY <3>1, <3>2, <3>3 DEF Id
  <2>2. c \in TaskRec
    BY <1>10, <1>16, <1>17, <2>1 DEF TaskRec
  <2>. QED
    BY <1>10, <1>16, <1>17, <2>1, <2>2 DEF TaskFits
<1>19. Count(entry, s) >= Keep
  BY <1>5, <1>6, <1>7
<1>20. Before(p, Count(entry, s) - Keep, c.kept)
  <2>1. ASSUME NEW i \in 1 .. l, i <= k - Keep PROVE p[i] < p[b + 1]
    BY <1>5, <1>6, <1>8, <1>12, <2>1
  <2>. QED
    BY <1>3, <1>6, <1>10, <2>1 DEF Upto, Before
<1>. QED
  BY <1>10, <1>14, <1>15, <1>16, <1>18, <1>19, <1>20 DEF c, p

\* With archive_all it takes the whole path.
LEMMA ArchiveFits ==
  ASSUME EntriesFit(entry), NEW s, ObjectFits(s, Len(entry)), NEW o \in Object
  PROVE  LET c == Reading(o, s, TRUE) IN
         /\ TaskFits(c, Len(entry)) /\ c.object = o /\ c.archive = TRUE
         /\ c.kept = None /\ c.old = Told(entry, Way(entry, s))
<1>. DEFINE p == Way(entry, s)
            c == Reading(o, s, TRUE)
<1>1. Entries(p) \subseteq 1 .. Len(entry)
  BY PathFits DEF ObjectFits, Fits, Way
<1>2. Path(s) = p /\ \A q : Messages(q) = Told(entry, q)
  BY PathIsWay
<1>. HIDE DEF p
<1>3. Told(entry, <<>>) = {}
  BY DEF Told, Entries
<1>4. c = [object |-> o, archive |-> TRUE, kept |-> None, old |-> Told(entry, p),
           window |-> {}]
  BY <1>2, <1>3 DEF Reading, FirstKept
<1>. HIDE DEF c
<1>5. Told(entry, p) \subseteq 1 .. Len(entry)
  BY <1>1 DEF Told
<1>6. 1 .. Len(entry) \subseteq Id /\ 0 \in 0 .. MaxEntries /\ 0 <= Len(entry)
  <2>1. PICK m \in Nat : m = Len(entry) /\ m <= MaxEntries
    BY EntriesKnown
  <2>2. 1 .. m \subseteq 1 .. MaxEntries
    BY <2>1, Constants
  <2>. QED
    BY <2>1, <2>2, Constants DEF Id
<1>7. c \in TaskRec
  BY <1>4, <1>5, <1>6 DEF TaskRec, None
<1>8. TaskFits(c, Len(entry))
  BY <1>4, <1>5, <1>6, <1>7 DEF TaskFits, None
<1>9. /\ c.object = o /\ c.archive = TRUE /\ c.kept = None
      /\ c.old = Told(entry, p)
  BY <1>4
<1>. QED
  BY <1>8, <1>9 DEF c, p

-----------------------------------------------------------------------------
(* Objects and tasks.                                                      *)

\* All session objects and all consolidations.
ObjectsFit(objs, m) == objs \in [Object -> ObjectRec] /\ \A o \in Object : ObjectFits(objs[o], m)
TasksFit(tasks, m) == tasks \in [Task -> TaskRec] /\ \A t \in Task : TaskFits(tasks[t], m)

\* There are more objects than tasks.
LEMMA OneFree ==
  ASSUME NEW g
  PROVE  \E o \in Object : \A t \in Task : g[t] # o
<1>1. SUFFICES ASSUME \A o \in Object : \E t \in Task : g[t] = o
      PROVE  FALSE
  OBVIOUS
<1>. DEFINE S == {t \in Task : g[t] \in Object}
            h == [t \in S |-> g[t]]
<1>2. /\ MaxTasks \in Nat /\ MaxObjects \in Nat /\ MaxTasks < MaxObjects
  BY Constants
<1>3. /\ IsFiniteSet(Task) /\ Cardinality(Task) = MaxTasks
      /\ IsFiniteSet(Object) /\ Cardinality(Object) = MaxObjects
  <2>1. IsFiniteSet(1 .. MaxTasks) /\ Cardinality(1 .. MaxTasks) = MaxTasks
    BY <1>2, FS_Interval
  <2>2. IsFiniteSet(1 .. MaxObjects) /\ Cardinality(1 .. MaxObjects) = MaxObjects
    BY <1>2, FS_Interval
  <2>. QED
    BY <2>1, <2>2 DEF Task, Object
<1>4. h \in Surjection(S, Object)
  <2>1. h \in [S -> Object]
    OBVIOUS
  <2>2. \A o \in Object : \E t \in S : h[t] = o
    <3>1. ASSUME NEW o \in Object PROVE \E t \in S : h[t] = o
      <4>1. PICK t \in Task : g[t] = o
        BY <1>1
      <4>. QED
        BY <4>1
    <3>. QED
      BY <3>1
  <2>. HIDE DEF S, h
  <2>. QED
    BY <2>1, <2>2, Zenon DEF Surjection
<1>5. IsFiniteSet(S) /\ Cardinality(S) <= MaxTasks /\ Cardinality(S) \in Nat
  <2>1. S \subseteq Task
    OBVIOUS
  <2>. HIDE DEF S
  <2>. QED
    BY <1>3, <2>1, FS_Subset, FS_CardinalityType
<1>. HIDE DEF S, h
<1>6. Cardinality(Object) <= Cardinality(S)
  BY <1>4, <1>5, FS_Surjection
<1>. QED
  BY <1>2, <1>3, <1>5, <1>6

\* A free task is idle.
LEMMA FreeTaskIs == FreeTasks # {} => FreeTask \in Task /\ task[FreeTask] = Idle
<1>. DEFINE T == FreeTasks
<1>1. T \in SUBSET Nat /\ \A t \in T : t \in Task /\ task[t] = Idle
  BY DEF FreeTasks, Busy, Task
<1>2. FreeTask = CHOOSE t \in T : \A u \in T : t <= u
  BY DEF FreeTask
<1>. HIDE DEF T
<1>3. ASSUME T # {} PROVE FreeTask \in T
  <2>1. \E t \in T : \A u \in T : t <= u
    BY <1>1, <1>3, LeastOfNats
  <2>. QED
    BY <1>2, <2>1
<1>4. T # {} => FreeTask \in T
  BY <1>3
<1>. QED
  BY <1>1, <1>4 DEF T

\* A new session object.
LEMMA FreshFits == ASSUME NEW m \in Nat PROVE ObjectFits(FreshObject, m)
<1>1. 0 \in 0 .. MaxEntries /\ 0 \in Int /\ 0 \in 0 .. m
  BY Constants
<1>. QED
  BY <1>1 DEF ObjectFits, ObjectRec, Fits, FreshObject, None

\* Objects somebody refers to stay as they are.
LEMMA CollectedFits ==
  ASSUME NEW m \in Nat, NEW objs, ObjectsFit(objs, m), NEW tasks, NEW inCache
  PROVE  LET after == Collected(objs, tasks, inCache) IN
         /\ ObjectsFit(after, m)
         /\ \A o \in Object : o = inCache \/ (\E t \in Task : tasks[t].object = o)
                                => after[o] = objs[o]
<1>. DEFINE Kept(o) == o = inCache \/ \E t \in Task : tasks[t].object = o
            after == [o \in Object |-> IF Kept(o) THEN objs[o] ELSE FreshObject]
<1>1. Collected(objs, tasks, inCache) = after
  BY DEF Collected
<1>2. ObjectFits(FreshObject, m)
  BY FreshFits
<1>3. FreshObject \in ObjectRec
  BY <1>2 DEF ObjectFits
<1>. HIDE DEF Kept
<1>4. /\ \A o \in Object : ObjectFits(after[o], m) /\ after[o] \in ObjectRec
      /\ \A o \in Object : Kept(o) => after[o] = objs[o]
  BY <1>2, <1>3 DEF ObjectsFit
<1>5. after \in [Object -> ObjectRec]
  BY <1>3 DEF ObjectsFit
<1>. HIDE DEF after
<1>. QED
  BY <1>1, <1>4, <1>5 DEF ObjectsFit, Kept

\* The cached object is on disk, no archive works on it, and what a consolidation found
\* too long for it has not become shorter.
CacheSound(en, objs, tasks, inCache) ==
  inCache # None =>
    /\ objs[inCache].disk = TRUE /\ objs[inCache].lastConsolidated >= 0
    /\ \A t \in Task : tasks[t].object = inCache =>
         tasks[t].archive = FALSE /\ Count(en, objs[inCache]) >= Keep

\* get_or_create: the cached object, or one loaded from the file.
LEMMA OpenedFits ==
  ASSUME EntriesFit(entry), FileFits(file, Len(entry)), ObjectsFit(obj, Len(entry)),
         cached \in {None} \cup Object, CacheSound(entry, obj, task, cached)
  PROVE  /\ Opened \in Object /\ Opened # None
         /\ cached # None => Opened = cached /\ OpenedObject = obj[cached] /\ OpenedFile = file
         /\ cached = None => /\ \A t \in Task : task[t].object # Opened
                             /\ OpenedObject.ids = file.ids /\ OpenedObject.leaf = file.last
                             /\ OpenedObject.lastConsolidated = 0
         /\ ObjectFits(OpenedObject, Len(entry)) /\ OpenedObject.disk = TRUE
         /\ OpenedObject.lastConsolidated >= 0
         /\ FileFits(OpenedFile, Len(entry)) /\ OpenedFile.ids = file.ids
         /\ OpenedFile.last = file.last /\ OpenedFile.torn = file.torn
<1>1. None \notin Object
  BY DEF None, Object
<1>4. Len(entry) \in Nat
  BY EntriesKnown
<1>2. CASE cached # None
  <2>1. Opened = cached /\ OpenedObject = obj[cached] /\ OpenedFile = file /\ cached \in Object
    BY <1>2 DEF Opened, OpenedObject, OpenedFile
  <2>2. /\ obj[cached].disk = TRUE /\ obj[cached].lastConsolidated >= 0
        /\ ObjectFits(obj[cached], Len(entry))
    BY <1>2, <2>1 DEF CacheSound, ObjectsFit
  <2>. QED
    BY <1>1, <1>2, <2>1, <2>2
<1>3. CASE cached = None
  <2>1. Opened = FreeObject /\ OpenedObject = Loaded /\ OpenedFile = [file EXCEPT !.exists = TRUE]
    BY <1>3 DEF Opened, OpenedObject, OpenedFile
  <2>2. FreeObject \in Object /\ \A t \in Task : task[t].object # FreeObject
    <3>. DEFINE g == [t \in Task |-> task[t].object]
    <3>1. PICK o \in Object : \A t \in Task : g[t] # o
      BY OneFree, Zenon
    <3>2. o \in Object \ ({cached} \cup {task[t].object : t \in Task})
      BY <1>1, <1>3, <3>1
    <3>3. FreeObject \in Object \ ({cached} \cup {task[t].object : t \in Task})
      BY <3>2, Zenon DEF FreeObject
    <3>. QED
      BY <3>3
  <2>3. Loaded = [ids |-> file.ids, leaf |-> file.last, lastConsolidated |-> 0, disk |-> TRUE,
                  awaitsReset |-> FALSE]
    <3>1. FreshObject \in ObjectRec
      BY <1>4, FreshFits DEF ObjectFits
    <3>2. Loaded = [FreshObject EXCEPT !.ids = file.ids, !.leaf = file.last]
      BY DEF Loaded
    <3>3. /\ FreshObject.lastConsolidated = 0 /\ FreshObject.disk = TRUE
          /\ FreshObject.awaitsReset = FALSE
      BY DEF FreshObject
    <3>. HIDE DEF FreshObject
    <3>. QED
      BY <3>1, <3>2, <3>3, OtherPath
  <2>. DEFINE s == Loaded
  <2>4. file \in FileRec /\ Fits(file.ids, file.last, Len(entry))
    BY DEF FileFits
  <2>5. s \in ObjectRec
    <3>1. file.ids \in SUBSET Id /\ file.last \in 0 .. MaxEntries
      BY <2>4 DEF FileRec
    <3>. QED
      BY <2>3, <3>1 DEF ObjectRec
  <2>6. /\ s.ids = file.ids /\ s.leaf = file.last /\ s.lastConsolidated = 0 /\ s.disk = TRUE
    BY <2>3
  <2>. HIDE DEF s
  <2>7. ObjectFits(s, Len(entry))
    BY <2>4, <2>5, <2>6 DEF ObjectFits
  <2>. DEFINE f == [file EXCEPT !.exists = TRUE]
  <2>8. f = [exists |-> TRUE, ids |-> file.ids, last |-> file.last, torn |-> file.torn]
    BY <2>4, OtherExists
  <2>9. /\ f \in FileRec /\ f.ids = file.ids /\ f.last = file.last /\ f.torn = file.torn
    <3>1. file.ids \in SUBSET Id /\ file.last \in 0 .. MaxEntries /\ file.torn \in BOOLEAN
      BY <2>4 DEF FileRec
    <3>. QED
      BY <2>8, <3>1 DEF FileRec
  <2>. HIDE DEF f
  <2>10. FileFits(f, Len(entry))
    BY <2>4, <2>9 DEF FileFits
  <2>11. s.lastConsolidated >= 0
    BY <2>6
  <2>12. Opened \in Object /\ Opened # None /\ \A t \in Task : task[t].object # Opened
    BY <1>1, <2>1, <2>2
  <2>13. OpenedObject = s /\ OpenedFile = f
    BY <2>1 DEF s, f
  <2>. QED
    BY <1>3, <2>6, <2>7, <2>9, <2>10, <2>11, <2>12, <2>13
<1>. QED
  BY <1>2, <1>3

\* Two messages, or the first one only.
LEMMA ExchangeAdded ==
  ASSUME EntriesFit(entry), NEW s, s.leaf \in 0 .. Len(entry), NEW m \in Nat, m = Len(entry)
  PROVE  /\ m + 1 <= MaxEntries =>
              LET e == NewMessages(s, 1) IN
              /\ EntriesFit(e) /\ Len(e) = m + 1 /\ Extends(entry, e)
              /\ e[m + 1].kind = "message" /\ e[m + 1].covers = {}
              /\ \A ids \in SUBSET (1 .. m) :
                   /\ \A leaf \in 0 .. m : Walk(e, ids)[leaf] = Walk(entry, ids)[leaf]
                   /\ Walk(e, ids \cup {m + 1})[m + 1] = Append(Walk(entry, ids)[s.leaf], m + 1)
         /\ m + 2 <= MaxEntries =>
              LET e == NewMessages(s, 2) IN
              /\ EntriesFit(e) /\ Len(e) = m + 2 /\ Extends(entry, e)
              /\ e[m + 1].kind = "message" /\ e[m + 2].kind = "message"
              /\ e[m + 1].covers = {} /\ e[m + 2].covers = {}
              /\ \A ids \in SUBSET (1 .. m) :
                   /\ Walk(e, ids \cup {m + 1, m + 2})[m + 2]
                        = Append(Append(Walk(entry, ids)[s.leaf], m + 1), m + 2)
                   /\ Walk(e, ids \cup {m + 2})[m + 2] = <<m + 2>>
<1>. DEFINE e1 == Append(entry, Said(s.leaf))
            e2 == Append(e1, Said(m + 1))
<1>1. NewMessages(s, 1) = e1 /\ NewMessages(s, 2) = e2
  BY MessagesWritten
<1>2. MaxEntries \in Nat
  BY Constants
<1>3. ASSUME m + 1 <= MaxEntries
      PROVE  /\ EntriesFit(e1) /\ Len(e1) = m + 1 /\ Extends(entry, e1) /\ e1[m + 1] = Said(s.leaf)
             /\ \A ids \in SUBSET (1 .. m) :
                   /\ \A leaf \in 0 .. m : Walk(e1, ids)[leaf] = Walk(entry, ids)[leaf]
                   /\ Walk(e1, ids)[m + 1] = <<>>
                   /\ Walk(e1, ids \cup {m + 1})[m + 1] = Append(Walk(entry, ids)[s.leaf], m + 1)
  <2>. DEFINE x == Said(s.leaf)
  <2>1. Len(entry) < MaxEntries
    BY <1>2, <1>3
  <2>2. x \in EntryRec /\ x.parent = s.leaf /\ x.kept = 0 /\ x.covers = {}
    BY <1>2, <1>3 DEF EntryRec, Said, None
  <2>3. x.parent <= Len(entry) /\ x.kept <= Len(entry) /\ x.covers \subseteq 1 .. Len(entry)
    BY <2>2
  <2>. HIDE DEF x
  <2>4. /\ EntriesFit(e1) /\ Len(e1) = m + 1 /\ Extends(entry, e1) /\ e1[m + 1] = x
        /\ \A ids \in SUBSET (1 .. m) :
              /\ \A leaf \in 0 .. m : Walk(e1, ids)[leaf] = Walk(entry, ids)[leaf]
              /\ Walk(e1, ids)[m + 1] = <<>>
              /\ Walk(e1, ids \cup {m + 1})[m + 1] = Append(Walk(entry, ids)[x.parent], m + 1)
    <3>1. OneAdded(entry, e1, x, m)
      BY <2>1, <2>2, <2>3, EntryAdded, Zenon DEF x
    <3>. QED
      BY <3>1, Zenon DEF OneAdded
  <2>. HIDE DEF e1
  <2>. QED
    BY <2>2, <2>4 DEF x
<1>4. \A l : /\ Said(l).kind = "message" /\ Said(l).parent = l /\ Said(l).kept = 0
             /\ Said(l).covers = {}
  BY DEF Said, None
<1>5. ASSUME m + 2 <= MaxEntries
      PROVE  /\ EntriesFit(e2) /\ Len(e2) = m + 2 /\ Extends(entry, e2)
             /\ e2[m + 1].kind = "message" /\ e2[m + 2].kind = "message"
             /\ e2[m + 1].covers = {} /\ e2[m + 2].covers = {}
             /\ \A ids \in SUBSET (1 .. m) :
                  /\ Walk(e2, ids \cup {m + 1, m + 2})[m + 2]
                       = Append(Append(Walk(entry, ids)[s.leaf], m + 1), m + 2)
                  /\ Walk(e2, ids \cup {m + 2})[m + 2] = <<m + 2>>
  <2>. DEFINE x == Said(m + 1)
  <2>1. m + 1 <= MaxEntries /\ m + 1 < MaxEntries
    BY <1>2, <1>5
  <2>2. /\ EntriesFit(e1) /\ Len(e1) = m + 1 /\ Extends(entry, e1) /\ e1[m + 1] = Said(s.leaf)
        /\ \A ids \in SUBSET (1 .. m) :
             /\ Walk(e1, ids)[m + 1] = <<>>
             /\ Walk(e1, ids \cup {m + 1})[m + 1] = Append(Walk(entry, ids)[s.leaf], m + 1)
    BY <1>3, <2>1
  <2>3. x \in EntryRec /\ x.parent = m + 1 /\ x.kept = 0 /\ x.covers = {}
    BY <1>2, <2>1 DEF EntryRec, Said, None
  <2>. HIDE DEF e1, x
  <2>4. /\ EntriesFit(e2) /\ Len(e2) = (m + 1) + 1 /\ Extends(e1, e2) /\ e2[(m + 1) + 1] = x
        /\ \A ids \in SUBSET (1 .. m + 1) :
              Walk(e2, ids \cup {(m + 1) + 1})[(m + 1) + 1]
                = Append(Walk(e1, ids)[x.parent], (m + 1) + 1)
    <3>1. /\ Len(e1) < MaxEntries /\ x.parent <= Len(e1) /\ x.kept <= Len(e1)
          /\ x.covers \subseteq 1 .. Len(e1)
      BY <2>1, <2>2, <2>3
    <3>2. m + 1 \in Nat /\ m + 1 = Len(e1)
      BY <2>2
    <3>3. OneAdded(e1, e2, x, m + 1)
      BY <2>2, <2>3, <3>1, <3>2, EntryAdded, Zenon DEF x
    <3>. QED
      BY <3>3, Zenon DEF OneAdded
  <2>5. (m + 1) + 1 = m + 2
    OBVIOUS
  <2>. HIDE DEF e2
  <2>6. /\ EntriesFit(e2) /\ Len(e2) = m + 2 /\ Extends(e1, e2) /\ e2[m + 2] = x
        /\ \A ids \in SUBSET (1 .. m + 1) :
              Walk(e2, ids \cup {m + 2})[m + 2] = Append(Walk(e1, ids)[m + 1], m + 2)
    BY <2>3, <2>4, <2>5
  <2>7. e2[m + 1] = Said(s.leaf)
    BY <2>2, <2>6 DEF Extends
  <2>8. Extends(entry, e2)
    BY <2>2, <2>6 DEF Extends
  <2>9. ASSUME NEW ids \in SUBSET (1 .. m)
        PROVE  /\ Walk(e2, ids \cup {m + 1, m + 2})[m + 2]
                    = Append(Append(Walk(entry, ids)[s.leaf], m + 1), m + 2)
               /\ Walk(e2, ids \cup {m + 2})[m + 2] = <<m + 2>>
    <3>0. 1 .. m \subseteq 1 .. m + 1 /\ m + 1 \in 1 .. m + 1
      OBVIOUS
    <3>1. ids \in SUBSET (1 .. m + 1) /\ ids \cup {m + 1} \in SUBSET (1 .. m + 1)
      BY <3>0
    <3>2. ids \cup {m + 1, m + 2} = (ids \cup {m + 1}) \cup {m + 2}
      OBVIOUS
    <3>3. Walk(e2, (ids \cup {m + 1}) \cup {m + 2})[m + 2]
            = Append(Walk(e1, ids \cup {m + 1})[m + 1], m + 2)
      BY <2>6, <3>1
    <3>4. Walk(e2, ids \cup {m + 2})[m + 2] = Append(Walk(e1, ids)[m + 1], m + 2)
      BY <2>6, <3>1
    <3>5. Append(<<>>, m + 2) = <<m + 2>>
      OBVIOUS
    <3>. QED
      BY <2>2, <3>2, <3>3, <3>4, <3>5
  <2>. QED
    BY <1>4, <2>6, <2>7, <2>8, <2>9 DEF x
<1>. HIDE DEF e1, e2
<1>6. m + 1 <= MaxEntries => e1[m + 1].kind = "message" /\ e1[m + 1].covers = {}
  BY <1>3, <1>4
<1>. QED
  BY <1>1, <1>3, <1>5, <1>6

-----------------------------------------------------------------------------
(* A restart gives back the branch that was in memory.                     *)

\* The types, sharper than SessionsTypeOK: everything refers to what has been written.
Typed ==
  /\ EntriesFit(entry) /\ FileFits(file, Len(entry))
  /\ ObjectsFit(obj, Len(entry)) /\ TasksFit(task, Len(entry))
  /\ cached \in {None} \cup Object
  /\ inTurn \in BOOLEAN /\ (inTurn => cached # None)
  /\ said \subseteq 1 .. Len(entry)
  /\ exposed \subseteq Id /\ fileIsOwn \in BOOLEAN

\* As long as only the cached object writes the file, the file knows what it knows.
Owned(f, objs, inCache, own) ==
  inCache # None /\ own => f.ids = objs[inCache].ids /\ f.last = objs[inCache].leaf

\* The inductive invariant for the types and for RestartKeepsBranch.
BranchInv ==
  /\ Typed /\ CacheSound(entry, obj, task, cached)
  /\ Owned(file, obj, cached, fileIsOwn)

\* A task that does not run.
LEMMA IdleFits == ASSUME NEW m \in Nat PROVE TaskFits(Idle, m) /\ Idle.object = None
<1>1. 0 \in 0 .. MaxEntries /\ 0 <= m
  BY Constants
<1>2. Idle \in TaskRec
  BY <1>1 DEF TaskRec, Idle, None
<1>. QED
  BY <1>1, <1>2 DEF TaskFits, Idle, None

\* At first there is neither an entry nor a file.
LEMMA BranchInit == Init => BranchInv
<1>. SUFFICES ASSUME Init PROVE BranchInv
  OBVIOUS
<1>1. Len(entry) = 0 /\ EntriesFit(entry)
  BY Constants DEF Init, EntriesFit
<1>2. FileFits(file, 0)
  <2>1. 0 \in 0 .. MaxEntries /\ 0 \in 0 .. 0
    BY Constants
  <2>. QED
    BY <2>1 DEF Init, NoFile, FileFits, FileRec, Fits, None
<1>3. ObjectsFit(obj, 0)
  <2>1. ObjectFits(FreshObject, 0)
    BY FreshFits
  <2>2. FreshObject \in ObjectRec
    BY <2>1 DEF ObjectFits
  <2>. QED
    BY <2>1, <2>2 DEF Init, ObjectsFit
<1>4. TasksFit(task, 0)
  <2>1. TaskFits(Idle, 0)
    BY IdleFits
  <2>2. Idle \in TaskRec
    BY <2>1 DEF TaskFits
  <2>. QED
    BY <2>1, <2>2 DEF Init, TasksFit
<1>5. Typed
  BY <1>1, <1>2, <1>3, <1>4 DEF Init, Typed
<1>. QED
  BY <1>5 DEF Init, BranchInv, CacheSound, Owned

\* What holds of the session that an action opens.
LEMMA OpenedSound ==
  ASSUME BranchInv
  PROVE  /\ Opened \in Object /\ Opened # None
         /\ cached # None => Opened = cached /\ OpenedObject = obj[cached] /\ OpenedFile = file
         /\ cached = None => /\ \A t \in Task : task[t].object # Opened
                             /\ OpenedObject.ids = file.ids /\ OpenedObject.leaf = file.last
                             /\ OpenedObject.lastConsolidated = 0
         /\ ObjectFits(OpenedObject, Len(entry)) /\ OpenedObject.disk = TRUE
         /\ OpenedObject.lastConsolidated >= 0
         /\ FileFits(OpenedFile, Len(entry)) /\ OpenedFile.ids = file.ids
         /\ OpenedFile.last = file.last /\ OpenedFile.torn = file.torn
         /\ \A t \in Task : task[t].object = Opened =>
              task[t].archive = FALSE /\ Count(entry, OpenedObject) >= Keep
         /\ OwnAfterOpen => file.ids = OpenedObject.ids /\ file.last = OpenedObject.leaf
         /\ OwnAfterOpen \in BOOLEAN
<1>1. /\ EntriesFit(entry) /\ FileFits(file, Len(entry)) /\ ObjectsFit(obj, Len(entry))
      /\ cached \in {None} \cup Object /\ CacheSound(entry, obj, task, cached)
      /\ Owned(file, obj, cached, fileIsOwn) /\ fileIsOwn \in BOOLEAN
  BY DEF BranchInv, Typed
<1>2. /\ Opened \in Object /\ Opened # None
      /\ cached # None => Opened = cached /\ OpenedObject = obj[cached] /\ OpenedFile = file
      /\ cached = None => /\ \A t \in Task : task[t].object # Opened
                          /\ OpenedObject.ids = file.ids /\ OpenedObject.leaf = file.last
                          /\ OpenedObject.lastConsolidated = 0
      /\ ObjectFits(OpenedObject, Len(entry)) /\ OpenedObject.disk = TRUE
      /\ OpenedObject.lastConsolidated >= 0
      /\ FileFits(OpenedFile, Len(entry)) /\ OpenedFile.ids = file.ids
      /\ OpenedFile.last = file.last /\ OpenedFile.torn = file.torn
  BY <1>1, OpenedFits
<1>3. ASSUME NEW t \in Task, task[t].object = Opened
      PROVE  task[t].archive = FALSE /\ Count(entry, OpenedObject) >= Keep
  <2>1. cached # None
    BY <1>2, <1>3
  <2>2. /\ \A u \in Task : task[u].object = cached =>
              task[u].archive = FALSE /\ Count(entry, obj[cached]) >= Keep
    BY <1>1, <2>1 DEF CacheSound
  <2>. QED
    BY <1>2, <1>3, <2>1, <2>2, Zenon
<1>4. OwnAfterOpen => file.ids = OpenedObject.ids /\ file.last = OpenedObject.leaf
  BY <1>1, <1>2 DEF OwnAfterOpen, Owned
<1>5. OwnAfterOpen \in BOOLEAN
  BY <1>1 DEF OwnAfterOpen
<1>. QED
  BY <1>2, <1>3, <1>4, <1>5

\* A table with one value replaced.
With(f, x, v) == [f EXCEPT ![x] = v]

\* A consolidation is put in the table of tasks.
LEMMA TaskSet ==
  ASSUME NEW m \in Nat, NEW tasks, TasksFit(tasks, m), NEW t \in Task, NEW c, TaskFits(c, m),
         NEW tasks2, tasks2 = With(tasks, t, c)
  PROVE  /\ TasksFit(tasks2, m) /\ tasks2[t] = c
         /\ \A u \in Task : u # t => tasks2[u] = tasks[u]
<1>1. tasks \in [Task -> TaskRec] /\ c \in TaskRec
  BY DEF TasksFit, TaskFits
<1>2. /\ tasks2 \in [Task -> TaskRec] /\ tasks2[t] = c
      /\ \A u \in Task : u # t => tasks2[u] = tasks[u]
  BY <1>1 DEF With
<1>3. \A u \in Task : TaskFits(tasks2[u], m)
  BY <1>2 DEF TasksFit
<1>. QED
  BY <1>2, <1>3 DEF TasksFit

\* A session object is put in the table of objects.
LEMMA ObjectSet ==
  ASSUME NEW m \in Nat, NEW objs, ObjectsFit(objs, m), NEW o \in Object, NEW s, ObjectFits(s, m),
         NEW objs2, objs2 = With(objs, o, s)
  PROVE  /\ ObjectsFit(objs2, m) /\ objs2[o] = s
         /\ \A u \in Object : u # o => objs2[u] = objs[u]
<1>1. objs \in [Object -> ObjectRec] /\ s \in ObjectRec
  BY DEF ObjectsFit, ObjectFits
<1>2. /\ objs2 \in [Object -> ObjectRec] /\ objs2[o] = s
      /\ \A u \in Object : u # o => objs2[u] = objs[u]
  BY <1>1 DEF With
<1>3. \A u \in Object : ObjectFits(objs2[u], m)
  BY <1>2 DEF ObjectsFit
<1>. QED
  BY <1>2, <1>3 DEF ObjectsFit

\* What the history records of what was written while a consolidation waited are entries.
LEMMA SkippedFits ==
  ASSUME Typed, NEW new \in SUBSET Id
  PROVE  Skipped(new) \subseteq Id
<1>1. \A t \in Task : task[t].window \subseteq Id
  BY DEF Typed, TasksFit, TaskFits, TaskRec
<1>. QED
  BY <1>1 DEF Skipped, Busy

-----------------------------------------------------------------------------
(* A restart gives back the branch: the steps.                             *)

\* Each action keeps BranchInv: a turn opens the session,
LEMMA BranchTurnBegins == BranchInv /\ TurnBegins => BranchInv'
<1>. SUFFICES ASSUME BranchInv, TurnBegins PROVE BranchInv'
  OBVIOUS
<1>. DEFINE s == OpenedObject
            c == Reading(Opened, s, FALSE)
<1>1. Typed /\ Len(entry) \in Nat /\ EntriesFit(entry) /\ TasksFit(task, Len(entry))
      /\ ObjectsFit(obj, Len(entry))
  BY EntriesKnown DEF BranchInv, Typed
<1>2. /\ Opened \in Object /\ Opened # None
      /\ ObjectFits(s, Len(entry)) /\ s.disk = TRUE /\ s.lastConsolidated >= 0
      /\ FileFits(OpenedFile, Len(entry)) /\ OpenedFile.ids = file.ids
      /\ OpenedFile.last = file.last
      /\ \A t \in Task : task[t].object = Opened =>
           task[t].archive = FALSE /\ Count(entry, s) >= Keep
      /\ OwnAfterOpen => file.ids = s.ids /\ file.last = s.leaf
      /\ OwnAfterOpen \in BOOLEAN
  BY OpenedSound
<1>3. /\ entry' = entry /\ said' = said /\ exposed' = exposed /\ inTurn' = TRUE
      /\ cached' = Opened /\ obj' = With(obj, Opened, s)
      /\ file' = OpenedFile /\ fileIsOwn' = OwnAfterOpen
  BY DEF TurnBegins, With
<1>4. \/ task' = task
      \/ NeedsCompaction(s) /\ FreeTasks # {} /\ task' = [task EXCEPT ![FreeTask] = c]
  BY DEF TurnBegins
<1>. HIDE DEF s
<1>5. ObjectsFit(obj', Len(entry)) /\ obj'[Opened] = s
  <2>1. /\ Len(entry) \in Nat /\ ObjectsFit(obj, Len(entry)) /\ Opened \in Object
        /\ ObjectFits(s, Len(entry)) /\ obj' = With(obj, Opened, s)
    BY <1>1, <1>2, <1>3
  <2>. QED
    BY <2>1, ObjectSet
<1>6. /\ TasksFit(task', Len(entry)) /\ exposed' \subseteq Id
      /\ \A t \in Task : task'[t].object = Opened =>
           task'[t].archive = FALSE /\ Count(entry, s) >= Keep
  <2>1. CASE task' = task
    BY <1>1, <1>2, <1>3, <2>1 DEF Typed
  <2>2. CASE NeedsCompaction(s) /\ FreeTasks # {} /\ task' = [task EXCEPT ![FreeTask] = c]
    <3>1. /\ TaskFits(c, Len(entry)) /\ c.archive = FALSE /\ Count(entry, s) >= Keep
      BY <1>1, <1>2, <2>2, ReadingFits
    <3>. HIDE DEF c
    <3>2. FreeTask \in Task
      BY <2>2, FreeTaskIs
    <3>3. /\ TasksFit(task', Len(entry)) /\ task'[FreeTask] = c
          /\ \A u \in Task : u # FreeTask => task'[u] = task[u]
      <4>1. task' = With(task, FreeTask, c)
        BY <2>2 DEF With
      <4>2. /\ Len(entry) \in Nat /\ TasksFit(task, Len(entry)) /\ FreeTask \in Task
            /\ TaskFits(c, Len(entry))
        BY <1>1, <3>1, <3>2
      <4>. QED
        BY <4>1, <4>2, TaskSet
    <3>4. exposed' \subseteq Id
      BY <1>1, <1>3 DEF Typed
    <3>. QED
      BY <1>2, <3>1, <3>2, <3>3, <3>4
  <2>. QED
    BY <1>4, <2>1, <2>2
<1>7. Typed'
  BY <1>1, <1>2, <1>3, <1>5, <1>6 DEF Typed
<1>8. CacheSound(entry', obj', task', cached')
  BY <1>2, <1>3, <1>5, <1>6 DEF CacheSound
<1>9. Owned(file', obj', cached', fileIsOwn')
  BY <1>2, <1>3, <1>5 DEF Owned
<1>. QED
  BY <1>7, <1>8, <1>9 DEF BranchInv

\* What fits so many entries fits more of them, for the tables too.
LEMMA MoreFit ==
  ASSUME NEW m \in Nat, NEW k \in Nat
  PROVE  /\ \A objs : ObjectsFit(objs, m) => ObjectsFit(objs, m + k)
         /\ \A tasks : TasksFit(tasks, m) => TasksFit(tasks, m + k)
         /\ \A f : FileFits(f, m) => FileFits(f, m + k)
         /\ \A s : ObjectFits(s, m) => ObjectFits(s, m + k)
         /\ \A S : S \subseteq 1 .. m => S \subseteq 1 .. m + k
<1>1. 1 .. m \subseteq 1 .. m + k
  OBVIOUS
<1>2. /\ \A f : FileFits(f, m) => FileFits(f, m + k)
      /\ \A s : ObjectFits(s, m) => ObjectFits(s, m + k)
      /\ \A c : TaskFits(c, m) => TaskFits(c, m + k)
  BY MoreEntries
<1>3. \A objs : ObjectsFit(objs, m) => ObjectsFit(objs, m + k)
  BY <1>2, Zenon DEF ObjectsFit
<1>4. \A tasks : TasksFit(tasks, m) => TasksFit(tasks, m + k)
  BY <1>2, Zenon DEF TasksFit
<1>. QED
  BY <1>1, <1>2, <1>3, <1>4

\* Two messages at the end of a path.
TwoMore(p, m) == Append(Append(p, m + 1), m + 2)

\* A path prolonged by two new entries,
LEMMA TwoMoreIs ==
  ASSUME NEW p, Rising(p), NEW m \in Nat, Entries(p) \subseteq 1 .. m
  PROVE  /\ Rising(TwoMore(p, m)) /\ Entries(TwoMore(p, m)) = Entries(p) \cup {m + 1, m + 2}
         /\ Len(TwoMore(p, m)) = Len(p) + 2
         /\ \A i \in 1 .. Len(p) : TwoMore(p, m)[i] = p[i]
<1>. DEFINE p1 == Append(p, m + 1)
            q == Append(p1, m + 2)
<1>1. m + 1 \in Nat \ {0} /\ \A n \in Entries(p) : n < m + 1
  OBVIOUS
<1>2. /\ Rising(p1) /\ Entries(p1) = Entries(p) \cup {m + 1}
      /\ Len(p1) = Len(p) + 1 /\ \A i \in 1 .. Len(p) : p1[i] = p[i]
  BY <1>1, OneMore
<1>. HIDE DEF p1
<1>3. m + 2 \in Nat \ {0} /\ \A n \in Entries(p1) : n < m + 2
  BY <1>2
<1>4. /\ Rising(q) /\ Entries(q) = Entries(p1) \cup {m + 2}
      /\ Len(q) = Len(p1) + 1 /\ \A i \in 1 .. Len(p1) : q[i] = p1[i]
  BY <1>2, <1>3, OneMore
<1>. HIDE DEF q
<1>5. PICK l \in Nat : l = Len(p)
  BY EntriesOf
<1>6. Len(p1) = l + 1 /\ Len(q) = l + 2
  BY <1>2, <1>4, <1>5
<1>7. \A i \in 1 .. l : p1[i] = p[i] /\ i \in 1 .. l + 1
  BY <1>2, <1>5
<1>8. \A i \in 1 .. l + 1 : q[i] = p1[i]
  BY <1>4, <1>6
<1>9. Entries(q) = Entries(p) \cup {m + 1, m + 2}
  BY <1>2, <1>4
<1>10. Len(q) = Len(p) + 2 /\ \A i \in 1 .. Len(p) : q[i] = p[i]
  BY <1>5, <1>6, <1>7, <1>8
<1>. QED
  BY <1>4, <1>9, <1>10 DEF TwoMore, q, p1

\* which are messages.
LEMMA TwoMessages ==
  ASSUME NEW en, NEW e, NEW m \in Nat, m = Len(en), Extends(en, e),
         e[m + 1].kind = "message", e[m + 2].kind = "message",
         e[m + 1].covers = {}, e[m + 2].covers = {}, NEW p, Rising(p), Entries(p) \subseteq 1 .. m
  PROVE  Joined(en, e, p, TwoMore(p, m), {m + 1, m + 2})
<1>. DEFINE p1 == Append(p, m + 1)
            q == Append(p1, m + 2)
<1>1. Newer(en, e, p, m + 1)
  BY DEF Newer, Extends
<1>2. Joined(en, e, p, p1, {m + 1})
  BY <1>1, MessageAdded, Zenon
<1>. HIDE DEF p1
<1>3. /\ Rising(p1) /\ Entries(p1) = Entries(p) \cup {m + 1}
      /\ Told(e, p1) = Told(en, p) \cup {m + 1}
      /\ \A k : Start(en, p, k) => Start(e, p1, k)
      /\ \A k \in {None} \cup Entries(p) : From(e, p1, k) = From(en, p, k) \cup {m + 1}
      /\ Covered(e, p1) = Covered(en, p)
  BY <1>2, Zenon DEF Joined
<1>4. Newer(e, e, p1, m + 2)
  BY <1>3 DEF Newer
<1>5. Joined(e, e, p1, q, {m + 2})
  BY <1>4, MessageAdded, Zenon
<1>. HIDE DEF q
<1>6. /\ Rising(q) /\ Entries(q) = Entries(p1) \cup {m + 2}
      /\ Told(e, q) = Told(e, p1) \cup {m + 2}
      /\ \A k : Start(e, p1, k) => Start(e, q, k)
      /\ \A k \in {None} \cup Entries(p1) : From(e, q, k) = From(e, p1, k) \cup {m + 2}
      /\ Covered(e, q) = Covered(e, p1)
  BY <1>5, Zenon DEF Joined
<1>7. \A k \in {None} \cup Entries(p) : From(e, q, k) = From(en, p, k) \cup {m + 1, m + 2}
  BY <1>3, <1>6
<1>8. /\ Entries(q) = Entries(p) \cup {m + 1, m + 2}
      /\ Told(e, q) = Told(en, p) \cup {m + 1, m + 2}
  BY <1>3, <1>6
<1>9. \A k : Start(en, p, k) => Start(e, q, k)
  BY <1>3, <1>6
<1>10. q = TwoMore(p, m)
  BY DEF TwoMore, q, p1
<1>. QED
  BY <1>3, <1>6, <1>7, <1>8, <1>9, <1>10, Zenon DEF Joined

\* The effect of add_message twice and sessions.save.
LEMMA ExchangeFits ==
  ASSUME EntriesFit(entry), NEW s, ObjectFits(s, Len(entry)), NEW f, FileFits(f, Len(entry)),
         NEW m \in Nat, m = Len(entry), m + 2 <= MaxEntries
  PROVE  LET e == NewMessages(s, 2)
             r == Registered(s, 2)
             g == WithLines(f, NewIds(2)) IN
         /\ EntriesFit(e) /\ Len(e) = m + 2 /\ Extends(entry, e)
         /\ ObjectFits(r, m + 2) /\ FileFits(g, m + 2)
         /\ NewIds(2) = {m + 1, m + 2} /\ NewIds(2) \subseteq 1 .. m + 2 /\ 1 .. m + 2 \subseteq Id
         /\ r.ids = s.ids \cup {m + 1, m + 2} /\ r.leaf = m + 2
         /\ r.disk = s.disk /\ r.lastConsolidated = s.lastConsolidated
         /\ g.last = m + 2 /\ g.torn = FALSE
         /\ f.torn = FALSE => g.ids = f.ids \cup {m + 1, m + 2}
         /\ f.torn = TRUE => g.ids = f.ids \cup {m + 2}
         /\ Count(entry, s) >= Keep => Count(e, r) >= Keep
<1>. DEFINE e == NewMessages(s, 2)
            r == Registered(s, 2)
            g == WithLines(f, NewIds(2))
<1>1. s.ids \subseteq 1 .. m /\ s.leaf \in 0 .. m
  BY DEF ObjectFits, Fits
<1>2. /\ EntriesFit(e) /\ Len(e) = m + 2 /\ Extends(entry, e)
      /\ e[m + 1].kind = "message" /\ e[m + 2].kind = "message"
      /\ e[m + 1].covers = {} /\ e[m + 2].covers = {}
      /\ \A ids \in SUBSET (1 .. m) :
           Walk(e, ids \cup {m + 1, m + 2})[m + 2]
             = Append(Append(Walk(entry, ids)[s.leaf], m + 1), m + 2)
  <2>1. s.leaf \in 0 .. Len(entry)
    BY <1>1
  <2>. HIDE DEF e
  <2>2. e = NewMessages(s, 2)
    BY DEF e
  <2>. QED
    BY <2>1, <2>2, ExchangeAdded
<1>3. NewIds(2) = {m + 1, m + 2}
  BY NewIdsAre
<1>4. /\ ObjectFits(r, m + 2) /\ r.ids = s.ids \cup {m + 1, m + 2} /\ r.leaf = m + 2
      /\ r.lastConsolidated = s.lastConsolidated /\ r.disk = s.disk
  <2>1. 2 \in 1 .. 2 /\ Len(entry) + 2 <= MaxEntries /\ Len(entry) + 2 = m + 2
    OBVIOUS
  <2>. QED
    BY <1>3, <2>1, RegisteredFits
<1>5. /\ FileFits(g, m + 2) /\ g.torn = FALSE /\ g.last = m + 2
      /\ f.torn = FALSE => g.ids = f.ids \cup {m + 1, m + 2}
      /\ f.torn = TRUE => g.ids = f.ids \cup {m + 2}
  <2>1. PICK k \in 1 .. 2 : k = 2 /\ m + k <= MaxEntries
    OBVIOUS
  <2>2. PICK h : h = WithLines(f, NewIds(k))
    OBVIOUS
  <2>3. FileFits(h, m + k) /\ Lines(f, h, m, k)
    BY <2>1, <2>2, LinesWritten
  <2>4. h = g
    BY <2>1, <2>2
  <2>5. f.torn \in BOOLEAN
    BY DEF FileFits, FileRec
  <2>6. FileFits(h, m + 2) /\ m + 1 .. m + k = {m + 1, m + 2} /\ m + k = m + 2
    BY <2>1, <2>3
  <2>7. /\ h.torn = FALSE /\ h.last = m + 2
        /\ f.torn = FALSE => h.ids = f.ids \cup {m + 1, m + 2}
        /\ f.torn = TRUE => h.ids = f.ids \cup {m + 2}
    BY <2>1, <2>3, <2>5, <2>6 DEF Lines
  <2>. QED
    BY <2>4, <2>6, <2>7
<1>6. NewIds(2) \subseteq 1 .. m + 2 /\ 1 .. m + 2 \subseteq Id
  BY <1>3, Constants DEF Id
<1>. HIDE DEF e, r, g
<1>7. ASSUME Count(entry, s) >= Keep PROVE Count(e, r) >= Keep
  <2>. DEFINE p == Way(entry, s)
              q == Way(e, r)
  <2>1. q = TwoMore(p, m)
    BY <1>1, <1>2, <1>4 DEF Way, TwoMore
  <2>2. Rising(p) /\ Entries(p) \subseteq 1 .. m
    BY <1>1, PathFits DEF Way
  <2>3. IsFiniteSet(Entries(q))
    <3>1. r.ids \subseteq 1 .. Len(e) /\ r.leaf \in 0 .. Len(e)
      BY <1>2, <1>4 DEF ObjectFits, Fits
    <3>. QED
      BY <1>2, <3>1, PathFits DEF Way
  <2>. HIDE DEF p, q
  <2>4. Told(e, q) = Told(entry, p) \cup {m + 1, m + 2}
    <3>1. /\ Extends(entry, e) /\ e[m + 1].kind = "message" /\ e[m + 2].kind = "message"
          /\ e[m + 1].covers = {} /\ e[m + 2].covers = {}
          /\ Rising(p) /\ Entries(p) \subseteq 1 .. m /\ m = Len(entry)
      BY <1>2, <2>2
    <3>. QED
      <4>1. Joined(entry, e, p, TwoMore(p, m), {m + 1, m + 2})
        BY <3>1, TwoMessages, Zenon
      <4>. QED
        BY <2>1, <4>1 DEF Joined
  <2>5. IsFiniteSet(Told(e, q)) /\ IsFiniteSet(Told(entry, p))
    <3>1. Told(e, q) \subseteq Entries(q) /\ Told(entry, p) \subseteq Told(e, q)
      BY <2>4 DEF Told
    <3>. QED
      BY <2>3, <3>1, FS_Subset
  <2>6. /\ Cardinality(Told(entry, p)) <= Cardinality(Told(e, q))
        /\ Cardinality(Told(entry, p)) \in Nat /\ Cardinality(Told(e, q)) \in Nat
    BY <2>4, <2>5, FS_Subset, FS_CardinalityType
  <2>. QED
    BY <1>7, <2>6, Constants DEF Count, p, q
<1>. QED
  BY <1>2, <1>3, <1>4, <1>5, <1>6, <1>7 DEF e, r, g

\* An exchange goes to the cached object and, line by line, to the file.
LEMMA ExchangeKeepsBranch ==
  ASSUME BranchInv, NEW o \in Object, NEW s, ObjectFits(s, Len(entry)), s.disk = TRUE,
         s.lastConsolidated >= 0, NEW f, FileFits(f, Len(entry)), NEW own \in BOOLEAN,
         NEW risk \in SUBSET Id, own => f.ids = s.ids,
         \A t \in Task : task[t].object = o => task[t].archive = FALSE /\ Count(entry, s) >= Keep,
         Exchange(o, s, f, own, risk), task' = task
  PROVE  /\ EntriesFit(entry') /\ Len(entry') = Len(entry) + 2 /\ FileFits(file', Len(entry'))
         /\ ObjectsFit(obj', Len(entry')) /\ TasksFit(task', Len(entry'))
         /\ cached' = o /\ cached' # None /\ exposed' \subseteq Id /\ fileIsOwn' \in BOOLEAN
         /\ NewIds(2) \subseteq 1 .. Len(entry')
         /\ CacheSound(entry', obj', task', cached')
         /\ Owned(file', obj', cached', fileIsOwn')
<1>1. PICK m \in Nat : m = Len(entry)
  BY EntriesKnown DEF BranchInv, Typed
<1>2. /\ EntriesFit(entry) /\ ObjectsFit(obj, m) /\ TasksFit(task, m) /\ exposed \subseteq Id
      /\ Typed
  BY <1>1 DEF BranchInv, Typed
<1>. DEFINE r == Registered(s, 2)
<1>3. /\ m + 2 <= MaxEntries /\ entry' = NewMessages(s, 2) /\ obj' = With(obj, o, r)
      /\ file' = WithLines(f, NewIds(2)) /\ cached' = o
      /\ exposed' = risk \cup Skipped(NewIds(2)) \cup (IF f.torn THEN Glued ELSE {})
      /\ fileIsOwn' = (own /\ ~f.torn)
  BY <1>1 DEF Exchange, With
<1>4. /\ EntriesFit(entry') /\ Len(entry') = m + 2
      /\ ObjectFits(r, m + 2) /\ FileFits(file', m + 2)
      /\ NewIds(2) \subseteq 1 .. m + 2 /\ 1 .. m + 2 \subseteq Id
      /\ r.ids = s.ids \cup {m + 1, m + 2} /\ r.leaf = m + 2
      /\ r.disk = s.disk /\ r.lastConsolidated = s.lastConsolidated /\ file'.last = m + 2
      /\ f.torn = FALSE => file'.ids = f.ids \cup {m + 1, m + 2}
      /\ Count(entry, s) >= Keep => Count(entry', r) >= Keep
  <2>1. ObjectFits(s, Len(entry)) /\ FileFits(f, Len(entry)) /\ m + 2 <= MaxEntries
        /\ EntriesFit(entry) /\ m = Len(entry)
    BY <1>1, <1>2, <1>3
  <2>. QED
    BY <1>3, <2>1, ExchangeFits, Zenon
<1>. HIDE DEF r
<1>5. ObjectsFit(obj, m + 2) /\ TasksFit(task, m + 2)
  <2>1. 2 \in Nat
    OBVIOUS
  <2>. QED
    BY <1>2, <2>1, MoreFit
<1>6. ObjectsFit(obj', m + 2) /\ obj'[o] = r
  <2>1. /\ m + 2 \in Nat /\ ObjectsFit(obj, m + 2) /\ ObjectFits(r, m + 2)
        /\ obj' = With(obj, o, r)
    BY <1>3, <1>4, <1>5
  <2>. QED
    BY <2>1, ObjectSet
<1>7. f.torn \in BOOLEAN
  BY DEF FileFits, FileRec
<1>8. exposed' \subseteq Id
  <2>1. Skipped(NewIds(2)) \subseteq Id
    <3>1. NewIds(2) \in SUBSET Id
      BY <1>4
    <3>. QED
      BY <1>2, <3>1, SkippedFits
  <2>2. Glued \subseteq Id
    <3>1. Glued = 1 .. m + 1 /\ 1 .. m + 1 \subseteq 1 .. m + 2
      BY <1>1 DEF Glued
    <3>. QED
      BY <1>4, <3>1
  <2>. QED
    BY <1>3, <1>7, <2>1, <2>2
<1>9. o # None
  BY DEF Object, None
<1>10. CacheSound(entry', obj', task', cached')
  BY <1>3, <1>4, <1>6 DEF CacheSound
<1>11. Owned(file', obj', cached', fileIsOwn')
  BY <1>3, <1>4, <1>6, <1>7 DEF Owned
<1>12. fileIsOwn' \in BOOLEAN
  BY <1>3
<1>13. Len(entry') = Len(entry) + 2 /\ FileFits(file', Len(entry'))
       /\ ObjectsFit(obj', Len(entry')) /\ TasksFit(task', Len(entry'))
       /\ NewIds(2) \subseteq 1 .. Len(entry')
  BY <1>1, <1>4, <1>5, <1>6
<1>. QED
  BY <1>3, <1>4, <1>8, <1>9, <1>10, <1>11, <1>12, <1>13

\* it ends with its exchange,
LEMMA BranchTurnEnds == BranchInv /\ TurnEnds => BranchInv'
<1>. SUFFICES ASSUME BranchInv, TurnEnds PROVE BranchInv'
  OBVIOUS
<1>. DEFINE s == obj[cached]
<1>1. /\ Exchange(cached, s, file, fileIsOwn, exposed) /\ task' = task
      /\ inTurn' = FALSE /\ said' = said \cup NewIds(2)
      /\ cached # None /\ cached \in Object
  BY DEF TurnEnds, BranchInv, Typed
<1>2. /\ ObjectFits(s, Len(entry)) /\ FileFits(file, Len(entry)) /\ Len(entry) \in Nat
      /\ s.disk = TRUE /\ s.lastConsolidated >= 0
      /\ fileIsOwn \in BOOLEAN /\ exposed \in SUBSET Id
      /\ fileIsOwn => file.ids = s.ids
      /\ \A t \in Task : task[t].object = cached =>
           task[t].archive = FALSE /\ Count(entry, s) >= Keep
      /\ said \subseteq 1 .. Len(entry)
  BY <1>1, EntriesKnown DEF BranchInv, Typed, ObjectsFit, CacheSound, Owned
<1>. HIDE DEF s
<1>3. /\ EntriesFit(entry') /\ Len(entry') = Len(entry) + 2 /\ FileFits(file', Len(entry'))
      /\ ObjectsFit(obj', Len(entry')) /\ TasksFit(task', Len(entry'))
      /\ cached' = cached /\ cached' # None /\ exposed' \subseteq Id /\ fileIsOwn' \in BOOLEAN
      /\ NewIds(2) \subseteq 1 .. Len(entry')
      /\ CacheSound(entry', obj', task', cached')
      /\ Owned(file', obj', cached', fileIsOwn')
  BY <1>1, <1>2, ExchangeKeepsBranch
<1>4. 1 .. Len(entry) \subseteq 1 .. Len(entry')
  BY <1>2, <1>3
<1>5. Typed'
  BY <1>1, <1>2, <1>3, <1>4 DEF Typed
<1>. QED
  BY <1>3, <1>5 DEF BranchInv

\* so does the question of a factory reset,
LEMMA BranchFactoryResetAsks == BranchInv /\ FactoryResetAsks => BranchInv'
<1>. SUFFICES ASSUME BranchInv, FactoryResetAsks PROVE BranchInv'
  OBVIOUS
<1>. DEFINE s == [OpenedObject EXCEPT !.awaitsReset = TRUE]
<1>1. /\ Exchange(Opened, s, OpenedFile, OwnAfterOpen, exposed) /\ task' = task
      /\ inTurn' = inTurn /\ ~inTurn /\ said' = said \cup NewIds(2)
  BY DEF FactoryResetAsks, Command
<1>2. /\ Opened \in Object
      /\ ObjectFits(OpenedObject, Len(entry)) /\ OpenedObject.disk = TRUE
      /\ OpenedObject.lastConsolidated >= 0
      /\ FileFits(OpenedFile, Len(entry)) /\ OpenedFile.ids = file.ids
      /\ \A t \in Task : task[t].object = Opened =>
           task[t].archive = FALSE /\ Count(entry, OpenedObject) >= Keep
      /\ OwnAfterOpen => file.ids = OpenedObject.ids
      /\ OwnAfterOpen \in BOOLEAN
  BY OpenedSound
<1>3. /\ s.ids = OpenedObject.ids /\ s.leaf = OpenedObject.leaf /\ s.disk = TRUE
      /\ s.lastConsolidated = OpenedObject.lastConsolidated
      /\ ObjectFits(s, Len(entry))
  <2>1. OpenedObject \in ObjectRec
    BY <1>2 DEF ObjectFits
  <2>2. s = [ids |-> OpenedObject.ids, leaf |-> OpenedObject.leaf,
             lastConsolidated |-> OpenedObject.lastConsolidated,
             disk |-> OpenedObject.disk, awaitsReset |-> TRUE]
    BY <2>1, OtherReset
  <2>. HIDE DEF s
  <2>3. s \in ObjectRec
    BY <2>1, <2>2 DEF ObjectRec
  <2>4. /\ s.ids = OpenedObject.ids /\ s.leaf = OpenedObject.leaf /\ s.disk = TRUE
        /\ s.lastConsolidated = OpenedObject.lastConsolidated
    BY <1>2, <2>2
  <2>. QED
    BY <1>2, <2>3, <2>4 DEF ObjectFits
<1>. HIDE DEF s
<1>4. Count(entry, s) = Count(entry, OpenedObject)
  BY <1>3 DEF Count, Way
<1>5. /\ exposed \in SUBSET Id /\ Len(entry) \in Nat
      /\ said \subseteq 1 .. Len(entry)
      /\ inTurn = FALSE
  BY <1>1, EntriesKnown DEF BranchInv, Typed
<1>6. /\ s.lastConsolidated >= 0 /\ OwnAfterOpen => OpenedFile.ids = s.ids
      /\ \A t \in Task : task[t].object = Opened =>
           task[t].archive = FALSE /\ Count(entry, s) >= Keep
  BY <1>2, <1>3, <1>4
<1>7. /\ EntriesFit(entry') /\ Len(entry') = Len(entry) + 2 /\ FileFits(file', Len(entry'))
      /\ ObjectsFit(obj', Len(entry')) /\ TasksFit(task', Len(entry'))
      /\ cached' = Opened /\ cached' # None /\ exposed' \subseteq Id /\ fileIsOwn' \in BOOLEAN
      /\ NewIds(2) \subseteq 1 .. Len(entry')
      /\ CacheSound(entry', obj', task', cached')
      /\ Owned(file', obj', cached', fileIsOwn')
  BY <1>1, <1>2, <1>3, <1>5, <1>6, ExchangeKeepsBranch
<1>8. 1 .. Len(entry) \subseteq 1 .. Len(entry')
  BY <1>5, <1>7
<1>9. Typed'
  BY <1>1, <1>2, <1>5, <1>7, <1>8 DEF Typed
<1>. QED
  BY <1>7, <1>9 DEF BranchInv

\* There is no file.
LEMMA NoFileFits == ASSUME NEW m \in Nat PROVE FileFits(NoFile, m)
<1>1. 0 \in 0 .. MaxEntries /\ 0 \in 0 .. m
  BY Constants
<1>. QED
  BY <1>1 DEF NoFile, FileFits, FileRec, Fits, None

\* and its confirmation, to a file without the rest;
LEMMA BranchFactoryResetConfirmed == BranchInv /\ FactoryResetConfirmed => BranchInv'
<1>. SUFFICES ASSUME BranchInv, FactoryResetConfirmed PROVE BranchInv'
  OBVIOUS
<1>. DEFINE s == [obj[cached] EXCEPT !.awaitsReset = FALSE]
<1>1. /\ Exchange(cached, s, NoFile, FALSE, exposed) /\ task' = task
      /\ inTurn' = inTurn /\ ~inTurn /\ said' = NewIds(2)
      /\ cached # None /\ cached \in Object
  BY DEF FactoryResetConfirmed, WipedFile, BranchInv, Typed
<1>2. /\ ObjectFits(obj[cached], Len(entry)) /\ Len(entry) \in Nat
      /\ obj[cached].disk = TRUE /\ obj[cached].lastConsolidated >= 0
      /\ exposed \in SUBSET Id /\ inTurn = FALSE
      /\ \A t \in Task : task[t].object = cached =>
           task[t].archive = FALSE /\ Count(entry, obj[cached]) >= Keep
  BY <1>1, EntriesKnown DEF BranchInv, Typed, ObjectsFit, CacheSound
<1>3. /\ s.ids = obj[cached].ids /\ s.leaf = obj[cached].leaf /\ s.disk = TRUE
      /\ s.lastConsolidated = obj[cached].lastConsolidated
      /\ ObjectFits(s, Len(entry))
  <2>1. obj[cached] \in ObjectRec
    BY <1>2 DEF ObjectFits
  <2>2. s = [ids |-> obj[cached].ids, leaf |-> obj[cached].leaf,
             lastConsolidated |-> obj[cached].lastConsolidated,
             disk |-> obj[cached].disk, awaitsReset |-> FALSE]
    BY <2>1, OtherReset
  <2>. HIDE DEF s
  <2>3. s \in ObjectRec
    BY <2>1, <2>2 DEF ObjectRec
  <2>4. /\ s.ids = obj[cached].ids /\ s.leaf = obj[cached].leaf /\ s.disk = TRUE
        /\ s.lastConsolidated = obj[cached].lastConsolidated
    BY <1>2, <2>2
  <2>. QED
    BY <1>2, <2>3, <2>4 DEF ObjectFits
<1>. HIDE DEF s
<1>4. /\ FileFits(NoFile, Len(entry)) /\ FALSE \in BOOLEAN /\ s.lastConsolidated >= 0
      /\ FALSE => NoFile.ids = s.ids
      /\ \A t \in Task : task[t].object = cached =>
           task[t].archive = FALSE /\ Count(entry, s) >= Keep
  BY <1>2, <1>3, NoFileFits DEF Count, Way
<1>5. /\ EntriesFit(entry') /\ Len(entry') = Len(entry) + 2 /\ FileFits(file', Len(entry'))
      /\ ObjectsFit(obj', Len(entry')) /\ TasksFit(task', Len(entry'))
      /\ cached' = cached /\ cached' # None /\ exposed' \subseteq Id /\ fileIsOwn' \in BOOLEAN
      /\ NewIds(2) \subseteq 1 .. Len(entry')
      /\ CacheSound(entry', obj', task', cached')
      /\ Owned(file', obj', cached', fileIsOwn')
  BY <1>1, <1>2, <1>3, <1>4, ExchangeKeepsBranch
<1>6. Typed'
  BY <1>1, <1>2, <1>5 DEF Typed
<1>. QED
  BY <1>5, <1>6 DEF BranchInv

\* a turn that raised leaves everything as it was,
LEMMA BranchTurnFails == BranchInv /\ TurnFails => BranchInv'
BY DEF TurnFails, BranchInv, Typed

\* and so does a step of something else;
LEMMA BranchUnchanged == BranchInv /\ UNCHANGED vars => BranchInv'
BY DEF vars, BranchInv, Typed

\* /reset drops the object and the file;
LEMMA BranchResetCommand == BranchInv /\ ResetCommand => BranchInv'
<1>. SUFFICES ASSUME BranchInv, ResetCommand PROVE BranchInv'
  OBVIOUS
<1>1. Typed /\ Len(entry) \in Nat
  BY EntriesKnown DEF BranchInv, Typed
<1>2. /\ cached' = None /\ file' = NoFile /\ obj' = Collected(obj, task, None) /\ said' = {}
      /\ entry' = entry /\ inTurn' = inTurn /\ task' = task
      /\ exposed' = exposed /\ fileIsOwn' = fileIsOwn /\ ~inTurn
  BY DEF ResetCommand, Command
<1>3. ObjectsFit(obj', Len(entry)) /\ FileFits(file', Len(entry))
  <2>1. Len(entry) \in Nat /\ ObjectsFit(obj, Len(entry))
    BY <1>1 DEF Typed
  <2>. QED
    BY <1>2, <2>1, CollectedFits, NoFileFits
<1>4. Typed'
  BY <1>1, <1>2, <1>3 DEF Typed
<1>. QED
  BY <1>2, <1>4 DEF BranchInv, CacheSound, Owned

\* When the gateway dies, objects and tasks are gone.
LEMMA BranchForgotten ==
  ASSUME ForgetObjects, NEW m \in Nat
  PROVE  /\ ObjectsFit(obj', m) /\ TasksFit(task', m)
         /\ cached' = None /\ inTurn' = FALSE /\ \A t \in Task : task'[t] = Idle
<1>1. ObjectFits(FreshObject, m) /\ TaskFits(Idle, m)
  BY FreshFits, IdleFits
<1>2. FreshObject \in ObjectRec /\ Idle \in TaskRec
  BY <1>1 DEF ObjectFits, TaskFits
<1>. QED
  BY <1>1, <1>2 DEF ForgetObjects, ObjectsFit, TasksFit

\* a restart forgets the objects;
LEMMA BranchRestart == BranchInv /\ Restart => BranchInv'
<1>. SUFFICES ASSUME BranchInv, Restart PROVE BranchInv'
  OBVIOUS
<1>1. Typed /\ Len(entry) \in Nat
  BY EntriesKnown DEF BranchInv, Typed
<1>2. /\ ForgetObjects /\ entry' = entry /\ file' = file /\ said' = said
      /\ exposed' = exposed /\ fileIsOwn' = fileIsOwn
  BY DEF Restart
<1>3. /\ ObjectsFit(obj', Len(entry)) /\ TasksFit(task', Len(entry))
      /\ cached' = None /\ inTurn' = FALSE
  BY <1>1, <1>2, BranchForgotten
<1>4. Typed'
  BY <1>1, <1>2, <1>3 DEF Typed
<1>. QED
  BY <1>3, <1>4 DEF BranchInv, CacheSound, Owned

\* a consolidation that failed leaves only its object, if no one else has it;
LEMMA BranchConsolidationFails ==
  ASSUME BranchInv, NEW t \in Task, ConsolidationFails(t)
  PROVE  BranchInv'
<1>1. Typed /\ Len(entry) \in Nat
  BY EntriesKnown DEF BranchInv, Typed
<1>2. /\ task' = With(task, t, Idle) /\ obj' = Collected(obj, task', cached)
      /\ entry' = entry /\ file' = file /\ cached' = cached /\ inTurn' = inTurn
      /\ said' = said /\ exposed' = exposed /\ fileIsOwn' = fileIsOwn
  <2>1. obj \in [Object -> ObjectRec]
    BY <1>1 DEF Typed, ObjectsFit
  <2>2. [obj EXCEPT ![task[t].object] = obj[task[t].object]] = obj
    BY <2>1
  <2>. QED
    BY <2>2 DEF ConsolidationFails, TaskEnds, With
<1>3. /\ TasksFit(task', Len(entry)) /\ task'[t] = Idle
      /\ \A u \in Task : u # t => task'[u] = task[u]
  <2>1. /\ Len(entry) \in Nat /\ TasksFit(task, Len(entry)) /\ TaskFits(Idle, Len(entry))
    BY <1>1, IdleFits DEF Typed
  <2>. QED
    BY <1>2, <2>1, TaskSet
<1>4. /\ ObjectsFit(obj', Len(entry))
      /\ \A o \in Object : o = cached \/ (\E u \in Task : task'[u].object = o)
                             => obj'[o] = obj[o]
  <2>1. Len(entry) \in Nat /\ ObjectsFit(obj, Len(entry))
    BY <1>1 DEF Typed
  <2>. QED
    BY <1>2, <2>1, CollectedFits
<1>5. Typed'
  BY <1>1, <1>2, <1>3, <1>4 DEF Typed
<1>6. cached # None => cached \in Object /\ obj'[cached] = obj[cached]
  BY <1>1, <1>4 DEF Typed
<1>7. Idle.object = None
  BY DEF Idle
<1>8. CacheSound(entry', obj', task', cached')
  BY <1>2, <1>3, <1>6, <1>7 DEF BranchInv, CacheSound
<1>9. Owned(file', obj', cached', fileIsOwn')
  BY <1>2, <1>6 DEF BranchInv, Owned
<1>. QED
  BY <1>5, <1>8, <1>9 DEF BranchInv

\* /new: the archive gets an object of its own.
Temporary == CHOOSE o \in Object \ ({Opened} \cup {task[t].object : t \in Task}) : TRUE

\* /new finds an object for what it archives.
LEMMA TemporaryIs ==
  ASSUME FreeTasks # {}, Opened \in Object
  PROVE  /\ Temporary \in Object /\ Temporary # Opened
         /\ \A t \in Task : task[t].object # Temporary
<1>. DEFINE T == Object \ ({Opened} \cup {task[t].object : t \in Task})
            g == [t \in Task |-> IF t = FreeTask THEN Opened ELSE task[t].object]
<1>1. FreeTask \in Task /\ task[FreeTask].object = None
  BY FreeTaskIs DEF Idle
<1>2. PICK o \in Object : \A t \in Task : g[t] # o
  BY OneFree, Zenon
<1>3. g[FreeTask] = Opened /\ \A t \in Task : t # FreeTask => g[t] = task[t].object
  BY <1>1
<1>. HIDE DEF g
<1>4. None \notin Object
  BY DEF None, Object
<1>5. o # Opened /\ \A t \in Task : task[t].object # o
  BY <1>1, <1>2, <1>3, <1>4
<1>6. o \in T
  BY <1>2, <1>5
<1>7. Temporary \in T
  BY <1>6, Zenon DEF Temporary
<1>. QED
  BY <1>7

\* /new clears the object and drops it,
LEMMA BranchNewCommand == BranchInv /\ NewCommand => BranchInv'
<1>. SUFFICES ASSUME BranchInv, NewCommand PROVE BranchInv'
  OBVIOUS
<1>. DEFINE s == OpenedObject
            c == Reading(Temporary, s, TRUE)
            a == Cleared(s)
            b == [s EXCEPT !.lastConsolidated = 0]
            objs == With(With(obj, Opened, a), Temporary, b)
<1>1. /\ Typed /\ Len(entry) \in Nat /\ EntriesFit(entry)
      /\ ObjectsFit(obj, Len(entry)) /\ TasksFit(task, Len(entry))
  BY EntriesKnown DEF BranchInv, Typed
<1>2. /\ FreeTasks # {} /\ ~inTurn /\ task' = With(task, FreeTask, c)
      /\ obj' = Collected(objs, task', None) /\ exposed' = exposed
      /\ cached' = None /\ file' = OpenedFile /\ entry' = entry /\ inTurn' = inTurn
      /\ said' = said /\ fileIsOwn' = fileIsOwn
  BY Zenon DEF NewCommand, Command, Temporary, With
<1>3. /\ Opened \in Object /\ ObjectFits(s, Len(entry)) /\ FileFits(OpenedFile, Len(entry))
  BY OpenedSound
<1>. HIDE DEF s
<1>4. Temporary \in Object /\ Temporary # Opened
  BY <1>2, <1>3, TemporaryIs
<1>5. TaskFits(c, Len(entry))
  BY <1>1, <1>3, <1>4, ArchiveFits
<1>. HIDE DEF c
<1>6. TasksFit(task', Len(entry))
  <2>1. Len(entry) \in Nat /\ TasksFit(task, Len(entry)) /\ FreeTask \in Task
        /\ TaskFits(c, Len(entry)) /\ task' = With(task, FreeTask, c)
    BY <1>1, <1>2, <1>5, FreeTaskIs
  <2>. QED
    BY <2>1, TaskSet
<1>7. s \in ObjectRec /\ Fits(s.ids, s.leaf, Len(entry))
  BY <1>3 DEF ObjectFits
<1>8. ObjectFits(b, Len(entry))
  <2>1. b = [ids |-> s.ids, leaf |-> s.leaf, lastConsolidated |-> 0, disk |-> s.disk,
             awaitsReset |-> s.awaitsReset]
    BY <1>7, OtherCount
  <2>. HIDE DEF b
  <2>2. b \in ObjectRec /\ b.ids = s.ids /\ b.leaf = s.leaf
    BY <1>7, <2>1 DEF ObjectRec
  <2>. QED
    BY <1>7, <2>2 DEF ObjectFits
<1>9. ObjectFits(a, Len(entry))
  <2>. DEFINE d == [ids |-> {}, leaf |-> None, lastConsolidated |-> 0, disk |-> FALSE,
                    awaitsReset |-> s.awaitsReset]
  <2>1. a = d
    <3>1. a = [s EXCEPT !.ids = {}, !.leaf = None, !.lastConsolidated = 0, !.disk = FALSE]
      BY DEF Cleared
    <3>. QED
      BY <1>7, <3>1, OtherBranch, Zenon
  <2>2. 0 \in 0 .. MaxEntries /\ 0 \in 0 .. Len(entry)
    BY <1>1, Constants
  <2>3. d \in ObjectRec /\ d.ids = {} /\ d.leaf = 0
    BY <1>7, <2>2 DEF ObjectRec, None
  <2>. HIDE DEF a, d
  <2>. QED
    BY <2>1, <2>2, <2>3 DEF ObjectFits, Fits
<1>. HIDE DEF a, b
<1>10. ObjectsFit(objs, Len(entry))
  <2>1. PICK o1 : o1 = With(obj, Opened, a)
    OBVIOUS
  <2>2. /\ Len(entry) \in Nat /\ ObjectsFit(obj, Len(entry)) /\ Opened \in Object
        /\ ObjectFits(a, Len(entry)) /\ o1 = With(obj, Opened, a)
    BY <1>1, <1>3, <1>9, <2>1
  <2>3. ObjectsFit(o1, Len(entry))
    BY <2>2, ObjectSet
  <2>4. PICK o2 : o2 = With(o1, Temporary, b)
    OBVIOUS
  <2>5. /\ Len(entry) \in Nat /\ ObjectsFit(o1, Len(entry)) /\ Temporary \in Object
        /\ ObjectFits(b, Len(entry)) /\ o2 = With(o1, Temporary, b)
    BY <1>1, <1>4, <1>8, <2>3, <2>4
  <2>6. ObjectsFit(o2, Len(entry))
    BY <2>5, ObjectSet
  <2>. QED
    BY <2>1, <2>4, <2>6, Zenon
<1>. HIDE DEF objs
<1>11. ObjectsFit(obj', Len(entry))
  <2>1. Len(entry) \in Nat /\ ObjectsFit(objs, Len(entry)) /\ obj' = Collected(objs, task', None)
    BY <1>1, <1>2, <1>10
  <2>. QED
    BY <2>1, CollectedFits
<1>12. exposed' \subseteq Id
  BY <1>1, <1>2 DEF Typed
<1>13. Typed'
  BY <1>1, <1>2, <1>3, <1>6, <1>11, <1>12 DEF Typed
<1>. QED
  BY <1>2, <1>13 DEF BranchInv, CacheSound, Owned

\* It dies within the writes: the first line is whole, or none is.
LEMMA CrashWrites ==
  ASSUME BranchInv, cached # None, Len(entry) + 2 <= MaxEntries,
         NEW k \in {0, 1}, NEW e, e = NewMessages(obj[cached], k),
         NEW w, w = IF k = 0 THEN file ELSE WithLines(file, NewIds(1))
  PROVE  /\ EntriesFit(e) /\ Len(e) = Len(entry) + k /\ FileFits(w, Len(e))
         /\ NewIds(k) \subseteq 1 .. Len(e) /\ 1 .. Len(entry) + 1 \subseteq Id
<1>1. PICK m \in Nat : m = Len(entry) /\ m + 1 <= MaxEntries /\ m + 2 <= MaxEntries
  BY EntriesKnown, Constants DEF BranchInv, Typed
<1>2. /\ EntriesFit(entry) /\ FileFits(file, m) /\ cached \in Object /\ ObjectFits(obj[cached], m)
  BY <1>1 DEF BranchInv, Typed, ObjectsFit
<1>. DEFINE s == obj[cached]
<1>3. s.leaf \in 0 .. Len(entry)
  BY <1>1, <1>2 DEF ObjectFits, Fits
<1>. HIDE DEF s
<1>4. 1 .. Len(entry) + 1 \subseteq Id
  BY <1>1, Constants DEF Id
<1>5. CASE k = 0
  <2>1. e = entry
    BY <1>2, <1>3, <1>5, MessagesWritten DEF s
  <2>2. NewIds(k) = {}
    BY <1>2, <1>5, NewIdsAre
  <2>. QED
    BY <1>1, <1>2, <1>4, <1>5, <2>1, <2>2
<1>6. CASE k = 1
  <2>1. EntriesFit(e) /\ Len(e) = m + 1
    <3>1. EntriesFit(NewMessages(s, 1)) /\ Len(NewMessages(s, 1)) = m + 1
      BY <1>1, <1>2, <1>3, ExchangeAdded
    <3>. QED
      BY <1>6, <3>1 DEF s
  <2>2. FileFits(w, m + k)
    <3>1. k \in 1 .. 2 /\ w = WithLines(file, NewIds(k)) /\ m + k <= MaxEntries
          /\ FileFits(file, Len(entry)) /\ m = Len(entry)
      BY <1>1, <1>2, <1>6
    <3>. QED
      BY <1>2, <3>1, LinesWritten
  <2>3. NewIds(k) = {m + 1}
    BY <1>1, <1>2, <1>6, NewIdsAre
  <2>4. Len(e) = m + k
    BY <1>6, <2>1
  <2>5. FileFits(w, Len(e))
    BY <2>2, <2>4
  <2>6. NewIds(k) \subseteq 1 .. Len(e)
    BY <1>6, <2>3, <2>4
  <2>. QED
    BY <1>1, <1>4, <2>1, <2>4, <2>5, <2>6
<1>. QED
  BY <1>5, <1>6

\* a crash tears a line of the file,
LEMMA BranchCrashWhileWriting == BranchInv /\ CrashWhileWriting => BranchInv'
<1>. SUFFICES ASSUME BranchInv, CrashWhileWriting PROVE BranchInv'
  OBVIOUS
<1>1. Typed /\ Len(entry) \in Nat
  BY EntriesKnown DEF BranchInv, Typed
<1>2. ForgetObjects /\ fileIsOwn' = fileIsOwn /\ inTurn
      /\ Len(entry) + 2 <= MaxEntries
  BY DEF CrashWhileWriting
<1>3. PICK k \in {0, 1} :
        LET whole == IF k = 0 THEN file ELSE WithLines(file, NewIds(1)) IN
        /\ entry' = NewMessages(obj[cached], k)
        /\ file' = [whole EXCEPT !.torn = TRUE]
        /\ said' = said \cup NewIds(k)
        /\ exposed' = exposed \cup (IF k = 1 /\ file.torn THEN Glued ELSE {})
  BY DEF CrashWhileWriting
<1>. DEFINE w == IF k = 0 THEN file ELSE WithLines(file, NewIds(1))
<1>4. /\ entry' = NewMessages(obj[cached], k) /\ file' = [w EXCEPT !.torn = TRUE]
      /\ said' = said \cup NewIds(k)
      /\ exposed' = exposed \cup (IF k = 1 /\ file.torn THEN Glued ELSE {})
  BY <1>3
<1>5. /\ EntriesFit(entry') /\ Len(entry') = Len(entry) + k /\ FileFits(w, Len(entry'))
      /\ NewIds(k) \subseteq 1 .. Len(entry') /\ 1 .. Len(entry) + 1 \subseteq Id
  <2>1. cached # None
    BY <1>1, <1>2 DEF Typed
  <2>. QED
    BY <1>2, <1>4, <2>1, CrashWrites
<1>. HIDE DEF w
<1>6. FileFits(file', Len(entry'))
  <2>1. w \in FileRec /\ Fits(w.ids, w.last, Len(entry'))
    BY <1>5 DEF FileFits
  <2>2. file' = [exists |-> w.exists, ids |-> w.ids, last |-> w.last, torn |-> TRUE]
    BY <1>4, <2>1, OtherTorn, Zenon
  <2>3. file' \in FileRec /\ file'.ids = w.ids /\ file'.last = w.last
    BY <2>1, <2>2 DEF FileRec
  <2>. QED
    BY <2>1, <2>3 DEF FileFits
<1>7. exposed' \subseteq Id
  BY <1>1, <1>4, <1>5 DEF Typed, Glued
<1>8. 1 .. Len(entry) \subseteq 1 .. Len(entry')
  BY <1>1, <1>5
<1>9. /\ ObjectsFit(obj', Len(entry')) /\ TasksFit(task', Len(entry'))
      /\ cached' = None /\ inTurn' = FALSE
  <2>1. Len(entry') \in Nat
    BY <1>1, <1>5
  <2>. QED
    BY <1>2, <2>1, BranchForgotten
<1>10. Typed'
  BY <1>1, <1>2, <1>4, <1>5, <1>6, <1>7, <1>8, <1>9 DEF Typed
<1>. QED
  BY <1>9, <1>10 DEF BranchInv, CacheSound, Owned

\* A path has at least as many entries as messages.
LEMMA CountKnown ==
  ASSUME NEW en, EntriesFit(en), NEW s, ObjectFits(s, Len(en))
  PROVE  /\ Count(en, s) \in Nat /\ Count(en, s) <= Len(Way(en, s))
         /\ Rising(Way(en, s)) /\ Entries(Way(en, s)) \subseteq 1 .. Len(en)
<1>. DEFINE p == Way(en, s)
<1>1. /\ Rising(p) /\ Entries(p) \subseteq 1 .. Len(en)
      /\ IsFiniteSet(Entries(p)) /\ Cardinality(Entries(p)) <= Len(p)
  BY PathFits DEF ObjectFits, Fits, Way
<1>2. Count(en, s) = Cardinality(Told(en, p))
  BY DEF Count
<1>. HIDE DEF p
<1>3. Told(en, p) \subseteq Entries(p)
  BY DEF Told
<1>4. /\ Cardinality(Told(en, p)) <= Cardinality(Entries(p))
      /\ Cardinality(Told(en, p)) \in Nat /\ Cardinality(Entries(p)) \in Nat
  BY <1>1, <1>3, FS_Subset, FS_CardinalityType
<1>5. Len(p) \in Nat
  BY <1>1, EntriesOf
<1>6. Cardinality(Told(en, p)) <= Len(p)
  BY <1>1, <1>4, <1>5
<1>. QED
  BY <1>1, <1>2, <1>4, <1>6 DEF p

\* An object with another last_consolidated.
Recounted(s, k) == [s EXCEPT !.lastConsolidated = k]

\* u is s, but for last_consolidated.
SameButCount(u, s, k) ==
  u.ids = s.ids /\ u.leaf = s.leaf /\ u.disk = s.disk /\ u.lastConsolidated = k

\* Setting last_consolidated changes nothing else.
LEMMA RecountFits ==
  ASSUME NEW m \in Nat, NEW s, ObjectFits(s, m), NEW k \in Int, NEW u, u = Recounted(s, k)
  PROVE  ObjectFits(u, m) /\ SameButCount(u, s, k)
<1>1. s \in ObjectRec
  BY DEF ObjectFits
<1>2. u = [ids |-> s.ids, leaf |-> s.leaf, lastConsolidated |-> k, disk |-> s.disk,
           awaitsReset |-> s.awaitsReset]
  BY <1>1, OtherCount, Zenon DEF Recounted
<1>3. u \in ObjectRec /\ u.ids = s.ids /\ u.leaf = s.leaf /\ u.disk = s.disk
      /\ u.lastConsolidated = k
  BY <1>1, <1>2 DEF ObjectRec
<1>. QED
  BY <1>3 DEF ObjectFits, SameButCount

\* What a summary does to its object and the file.
LEMMA SummaryFits ==
  ASSUME EntriesFit(entry), NEW m \in Nat, m = Len(entry), m < MaxEntries,
         NEW s, ObjectFits(s, m), NEW c, TaskFits(c, m), FileFits(file, m),
         NEW x, x = Summary(s, c), NEW k \in Int, NEW u, u = Recounted(Registered(s, 1), k)
  PROVE  /\ OneAdded(entry, Append(entry, x), x, m)
         /\ x.parent = s.leaf /\ x.kind = "compaction" /\ x.kept = c.kept /\ x.covers = c.old
         /\ ObjectFits(u, m + 1) /\ u.ids = s.ids \cup {m + 1} /\ u.leaf = m + 1
         /\ u.disk = s.disk /\ u.lastConsolidated = k
         /\ FileFits(WithLines(file, NewIds(1)), m + 1)
         /\ Lines(file, WithLines(file, NewIds(1)), m, 1)
<1>1. c.kept \in 0 .. MaxEntries /\ c.kept <= m /\ s.leaf \in 0 .. m
  BY DEF TaskFits, TaskRec, ObjectFits, Fits
<1>2. x.parent = s.leaf /\ x.kind = "compaction" /\ x.kept = c.kept /\ x.covers = c.old
  BY DEF Summary
<1>3. x \in EntryRec /\ c.old \subseteq 1 .. m
  <2>1. s.leaf \in 0 .. MaxEntries /\ c.old \in SUBSET Id /\ c.old \subseteq 1 .. m
    BY <1>1, Constants DEF TaskFits, TaskRec
  <2>. QED
    BY <1>1, <2>1 DEF EntryRec, Summary
<1>4. OneAdded(entry, Append(entry, x), x, m)
  <2>1. /\ x.parent <= Len(entry) /\ x.kept <= Len(entry) /\ Len(entry) < MaxEntries
        /\ x.covers \subseteq 1 .. Len(entry)
    BY <1>1, <1>2, <1>3
  <2>. QED
    BY <1>3, <2>1, EntryAdded, Zenon
<1>. DEFINE r == Registered(s, 1)
<1>5. /\ ObjectFits(r, m + 1) /\ r.ids = s.ids \cup NewIds(1) /\ r.leaf = m + 1
      /\ r.disk = s.disk
  <2>1. PICK one \in 1 .. 2 : one = 1
    OBVIOUS
  <2>2. /\ ObjectFits(s, Len(entry)) /\ Len(entry) + one <= MaxEntries /\ EntriesFit(entry)
        /\ Len(entry) = m
    BY <2>1, Constants
  <2>3. /\ ObjectFits(Registered(s, one), Len(entry) + one)
        /\ Registered(s, one).ids = s.ids \cup NewIds(one)
        /\ Registered(s, one).leaf = Len(entry) + one
        /\ Registered(s, one).disk = s.disk
    BY <2>2, RegisteredFits
  <2>. QED
    BY <2>1, <2>2, <2>3
<1>6. NewIds(1) = {m + 1}
  BY NewIdsAre
<1>. HIDE DEF r
<1>7. /\ ObjectFits(u, m + 1) /\ u.ids = r.ids /\ u.leaf = r.leaf /\ u.disk = r.disk
      /\ u.lastConsolidated = k
  <2>1. u = Recounted(r, k)
    BY Zenon DEF r
  <2>2. m + 1 \in Nat /\ ObjectFits(r, m + 1)
    BY <1>5
  <2>3. ObjectFits(u, m + 1) /\ SameButCount(u, r, k)
    BY <2>1, <2>2, RecountFits
  <2>. QED
    BY <2>3 DEF SameButCount
<1>8. /\ FileFits(WithLines(file, NewIds(1)), m + 1)
       /\ Lines(file, WithLines(file, NewIds(1)), m, 1)
  <2>1. PICK one \in 1 .. 2 : one = 1
    OBVIOUS
  <2>2. PICK g : g = WithLines(file, NewIds(one))
    OBVIOUS
  <2>3. /\ FileFits(file, Len(entry)) /\ m + one <= MaxEntries /\ EntriesFit(entry)
        /\ Len(entry) = m /\ g = WithLines(file, NewIds(one))
    BY <2>1, <2>2, Constants
  <2>4. FileFits(g, m + one) /\ Lines(file, g, m, one)
    BY <2>3, LinesWritten
  <2>. QED
    BY <2>1, <2>2, <2>4
<1>. QED
  BY <1>2, <1>4, <1>5, <1>6, <1>7, <1>8

\* A path that does not end with the new entry is the same, and so is what it counts.
LEMMA SameCount ==
  ASSUME NEW en, EntriesFit(en), NEW e, NEW x, NEW m \in Nat, m = Len(en),
         OneAdded(en, e, x, m), NEW s, ObjectFits(s, m)
  PROVE  Way(e, s) = Way(en, s) /\ Count(e, s) = Count(en, s)
<1>1. s.ids \in SUBSET (1 .. m) /\ s.leaf \in 0 .. m
  BY DEF ObjectFits, Fits
<1>2. Way(e, s) = Way(en, s)
  BY <1>1 DEF OneAdded, Way
<1>3. Entries(Way(en, s)) \subseteq 1 .. m
  BY CountKnown
<1>4. \A n \in 1 .. m : e[n] = en[n]
  BY DEF OneAdded, Extends
<1>5. Told(e, Way(en, s)) = Told(en, Way(en, s))
  BY <1>3, <1>4 DEF Told
<1>. QED
  BY <1>2, <1>5 DEF Count

\* The summary at the end of a path: no message more or less.
LEMMA SummaryCount ==
  ASSUME NEW en, EntriesFit(en), NEW e, NEW x, NEW m \in Nat, m = Len(en),
         OneAdded(en, e, x, m), x.kind = "compaction", NEW s, ObjectFits(s, m), x.parent = s.leaf,
         NEW u, u.ids = s.ids \cup {m + 1}, u.leaf = m + 1
  PROVE  Way(e, u) = Append(Way(en, s), m + 1) /\ Count(e, u) = Count(en, s)
<1>. DEFINE p == Way(en, s)
            q == Append(p, m + 1)
<1>1. s.ids \in SUBSET (1 .. m) /\ s.leaf \in 0 .. m
  BY DEF ObjectFits, Fits
<1>2. Way(e, u) = q
  BY <1>1 DEF OneAdded, Way
<1>3. Rising(p) /\ Entries(p) \subseteq 1 .. m
  BY CountKnown
<1>. HIDE DEF p
<1>4. Entries(q) = Entries(p) \cup {m + 1}
  BY <1>3, OneMore
<1>5. e[m + 1].kind = "compaction" /\ \A n \in 1 .. m : e[n] = en[n]
  BY DEF OneAdded, Extends
<1>. HIDE DEF q
<1>6. Told(e, q) = Told(en, p)
  BY <1>3, <1>4, <1>5 DEF Told
<1>. QED
  BY <1>2, <1>6 DEF Count, p, q

\* The three ways in which a task of the consolidation is over: its object has a summary
\* more, and then k counts as consolidated, or as much as before; or only the count; or
\* nothing.
Added(t, u) ==
  /\ Compacts(task[t], obj[task[t].object]) /\ TaskEnds(t, u)
  /\ cached' = cached /\ inTurn' = inTurn /\ said' = said

\* The ends of a consolidation that has answered, in one form.
LEMMA EndsAre ==
  ASSUME BranchInv, NEW t \in Task, t \in Busy
  PROVE  LET c == task[t]
             s == obj[c.object]
             k == CountAfter(c, s) IN
         /\ ConsolidationEnds(t) =>
              \/ Added(t, Recounted(Registered(s, 1), k))
              \/ /\ TaskEnds(t, Recounted(s, k)) /\ exposed' = exposed \cup Unsummarised(c)
                 /\ entry' = entry /\ file' = file /\ fileIsOwn' = fileIsOwn
                 /\ cached' = cached /\ inTurn' = inTurn /\ said' = said
         /\ MemoryWriteFails(t) => Added(t, Recounted(Registered(s, 1), s.lastConsolidated))
         /\ k \in Int /\ k = IF c.archive THEN 0 ELSE Count(entry, s) - Keep
         /\ s.lastConsolidated \in Int
<1>. DEFINE c == task[t]
            s == obj[c.object]
            k == CountAfter(c, s)
<1>1. ObjectFits(s, Len(entry)) /\ EntriesFit(entry) /\ c.archive \in BOOLEAN
  BY DEF BranchInv, Typed, TasksFit, TaskFits, TaskRec, Busy, ObjectsFit
<1>2. k \in Int /\ k = IF c.archive THEN 0 ELSE Count(entry, s) - Keep
  <2>1. Count(entry, s) \in Nat
    BY <1>1, CountKnown
  <2>2. k = IF c.archive THEN 0 ELSE Count(entry, s) - Keep
    BY PathIsWay DEF CountAfter, MessageCount
  <2>. QED
    BY <1>1, <2>1, <2>2, Constants
<1>3. s \in ObjectRec
  BY <1>1 DEF ObjectFits
<1>4. s.lastConsolidated \in Int
  BY <1>3 DEF ObjectRec
<1>5. Registered(s, 1) = Recounted(Registered(s, 1), s.lastConsolidated)
  <2>1. [s EXCEPT !.ids = s.ids \cup NewIds(1), !.leaf = Len(entry) + 1]
          = [ids |-> s.ids \cup NewIds(1), leaf |-> Len(entry) + 1,
             lastConsolidated |-> s.lastConsolidated, disk |-> s.disk,
             awaitsReset |-> s.awaitsReset]
    BY <1>3, OtherPath, Zenon
  <2>. QED
    BY <2>1 DEF Recounted, Registered
<1>6. MemoryWriteFails(t) => Added(t, Recounted(Registered(s, 1), s.lastConsolidated))
  BY <1>5 DEF MemoryWriteFails, Added
<1>7. ConsolidationEnds(t) =>
        \/ Added(t, Recounted(Registered(s, 1), k))
        \/ /\ TaskEnds(t, Recounted(s, k)) /\ exposed' = exposed \cup Unsummarised(c)
           /\ entry' = entry /\ file' = file /\ fileIsOwn' = fileIsOwn
           /\ cached' = cached /\ inTurn' = inTurn /\ said' = said
  BY Zenon DEF ConsolidationEnds, Added, Recounted
<1>. QED
  BY <1>2, <1>4, <1>6, <1>7

\* A task of the consolidation that is over, and what it was about.
LEMMA OverSound ==
  ASSUME BranchInv, NEW t \in Task, t \in Busy, task' = [task EXCEPT ![t] = Idle],
         cached' = cached, NEW m \in Nat, m = Len(entry)
  PROVE  LET c == task[t]
             s == obj[c.object] IN
         /\ TaskFits(c, m) /\ c.object \in Object /\ FileFits(file, m) /\ ObjectsFit(obj, m)
         /\ TasksFit(task, m) /\ ObjectFits(s, m) /\ c.archive \in BOOLEAN /\ s.disk \in BOOLEAN
         /\ TasksFit(task', m) /\ task'[t] = Idle /\ \A v \in Task : v # t => task'[v] = task[v]
         /\ cached = c.object => /\ c.archive = FALSE /\ s.disk = TRUE
                                /\ Count(entry, s) >= Keep
         /\ \A v \in Task : task'[v].object = cached /\ cached # None =>
              task'[v].archive = FALSE /\ Count(entry, obj[cached]) >= Keep
         /\ cached # None => obj[cached].disk = TRUE /\ obj[cached].lastConsolidated >= 0
<1>. DEFINE c == task[t]
            s == obj[c.object]
<1>1. Typed /\ EntriesFit(entry)
  BY DEF BranchInv, Typed
<1>2. task' = With(task, t, Idle)
  BY DEF With
<1>4. /\ TaskFits(c, m) /\ c.object \in Object /\ FileFits(file, m) /\ ObjectsFit(obj, m)
      /\ TasksFit(task, m) /\ ObjectFits(s, m) /\ c.archive \in BOOLEAN /\ s.disk \in BOOLEAN
  <2>1. TasksFit(task, m) /\ FileFits(file, m) /\ ObjectsFit(obj, m)
    BY <1>1 DEF Typed
  <2>2. TaskFits(c, m) /\ c \in TaskRec /\ c # Idle
    BY <2>1 DEF TasksFit, TaskFits, Busy
  <2>3. c.object \in Object /\ c.archive \in BOOLEAN
    BY <2>2 DEF TaskFits, TaskRec
  <2>4. ObjectFits(s, m) /\ s.disk \in BOOLEAN
    BY <2>1, <2>3 DEF ObjectsFit, ObjectFits, ObjectRec
  <2>. QED
    BY <2>1, <2>2, <2>3, <2>4
<1>5. /\ TasksFit(task', m) /\ task'[t] = Idle /\ \A v \in Task : v # t => task'[v] = task[v]
  <2>1. m \in Nat /\ TasksFit(task, m) /\ TaskFits(Idle, m)
    BY <1>4, IdleFits
  <2>2. PICK ts : ts = With(task, t, Idle)
    OBVIOUS
  <2>3. /\ TasksFit(ts, m) /\ ts[t] = Idle
        /\ \A v \in Task : v # t => ts[v] = task[v]
    BY <2>1, <2>2, TaskSet
  <2>. QED
    BY <1>2, <2>2, <2>3
<1>7. /\ cached = c.object => /\ c.archive = FALSE /\ s.disk = TRUE
                             /\ Count(entry, s) >= Keep
      /\ \A v \in Task : task'[v].object = cached /\ cached # None =>
           task'[v].archive = FALSE /\ Count(entry, obj[cached]) >= Keep
      /\ cached # None => obj[cached].disk = TRUE /\ obj[cached].lastConsolidated >= 0
  <2>1. c.object # None
    BY <1>4 DEF Object, None
  <2>2. Idle.object = None
    BY DEF Idle
  <2>. QED
    BY <1>5, <2>1, <2>2 DEF BranchInv, CacheSound
<1>. QED
  BY <1>4, <1>5, <1>7

\* A consolidation that has no summary for the DAG only counts.
LEMMA BranchCounted ==
  ASSUME BranchInv, NEW t \in Task, t \in Busy, NEW k \in Int,
         k = CountAfter(task[t], obj[task[t].object]),
         TaskEnds(t, Recounted(obj[task[t].object], k)),
         exposed' = exposed \cup Unsummarised(task[t]), entry' = entry, file' = file,
         fileIsOwn' = fileIsOwn, cached' = cached, inTurn' = inTurn, said' = said
  PROVE  BranchInv'
<1>. DEFINE c == task[t]
            s == obj[c.object]
            r == Recounted(s, k)
<1>1. Typed /\ EntriesFit(entry)
  BY DEF BranchInv, Typed
<1>2. PICK m \in Nat : m = Len(entry)
  BY <1>1, EntriesKnown
<1>3. /\ t \in Busy /\ task' = [task EXCEPT ![t] = Idle]
      /\ cached' = cached /\ inTurn' = inTurn /\ said' = said
  BY DEF TaskEnds
<1>4. /\ TaskFits(c, m) /\ c.object \in Object /\ FileFits(file, m) /\ ObjectsFit(obj, m)
      /\ TasksFit(task, m) /\ ObjectFits(s, m) /\ c.archive \in BOOLEAN /\ s.disk \in BOOLEAN
  BY <1>2, <1>3, OverSound
<1>5. /\ TasksFit(task', m) /\ task'[t] = Idle /\ \A v \in Task : v # t => task'[v] = task[v]
  BY <1>2, <1>3, OverSound
<1>7. /\ cached = c.object => /\ c.archive = FALSE /\ s.disk = TRUE
                             /\ Count(entry, s) >= Keep
      /\ \A v \in Task : task'[v].object = cached /\ cached # None =>
           task'[v].archive = FALSE /\ Count(entry, obj[cached]) >= Keep
      /\ cached # None => obj[cached].disk = TRUE /\ obj[cached].lastConsolidated >= 0
  BY <1>2, <1>3, OverSound
<1>8. cached \in {None} \cup Object /\ fileIsOwn \in BOOLEAN /\ exposed \subseteq Id
      /\ inTurn \in BOOLEAN /\ (inTurn => cached # None) /\ said \subseteq 1 .. m
  BY <1>1, <1>2 DEF Typed
<1>9. Count(entry, s) \in Nat /\ k = IF c.archive THEN 0 ELSE Count(entry, s) - Keep
  BY <1>1, <1>2, <1>3, <1>4, CountKnown, EndsAre
<1>10. /\ obj' = Collected(With(obj, c.object, r), task', cached)
       /\ entry' = entry /\ file' = file /\ fileIsOwn' = fileIsOwn /\ exposed' \subseteq Id
  <2>1. obj' = Collected(With(obj, c.object, r), task', cached)
    BY Zenon DEF TaskEnds, With
  <2>2. Unsummarised(c) \subseteq Id
    BY <1>4 DEF Unsummarised, TaskFits, TaskRec
  <2>. QED
    BY <1>8, <2>1, <2>2
<1>11. /\ ObjectFits(r, m) /\ r.ids = s.ids /\ r.leaf = s.leaf /\ r.disk = s.disk
       /\ r.lastConsolidated = k
  <2>1. ObjectFits(r, m) /\ SameButCount(r, s, k)
    BY <1>4, <1>9, RecountFits
  <2>. QED
    BY <2>1 DEF SameButCount
<1>. HIDE DEF c, s, r
<1>12. PICK objs : objs = With(obj, c.object, r)
  OBVIOUS
<1>13. /\ ObjectsFit(objs, m) /\ objs[c.object] = r
      /\ \A o \in Object : o # c.object => objs[o] = obj[o]
  <2>1. ObjectsFit(obj, m) /\ c.object \in Object /\ ObjectFits(r, m)
    BY <1>4, <1>11
  <2>. QED
    BY <1>12, <2>1, ObjectSet
<1>14. /\ ObjectsFit(obj', m)
      /\ \A o \in Object : o = cached => obj'[o] = objs[o]
  <2>1. obj' = Collected(objs, task', cached)
    BY <1>10, <1>12
  <2>. QED
    BY <1>13, <2>1, CollectedFits
<1>15. Typed'
  BY <1>1, <1>2, <1>3, <1>4, <1>5, <1>8, <1>10, <1>14 DEF Typed
<1>16. CASE cached = c.object
  <2>1. obj'[cached] = r /\ cached # None
    BY <1>4, <1>13, <1>14, <1>16 DEF Object, None
  <2>2. r.lastConsolidated >= 0
    BY <1>7, <1>9, <1>11, <1>16, Constants
  <2>3. s = obj[cached]
    BY <1>16 DEF s
  <2>4. Count(entry, r) = Count(entry, s)
    BY <1>11 DEF Count, Way
  <2>5. CacheSound(entry', obj', task', cached')
    BY <1>3, <1>7, <1>10, <1>11, <1>16, <2>1, <2>2, <2>3, <2>4 DEF CacheSound
  <2>6. Owned(file', obj', cached', fileIsOwn')
    BY <1>3, <1>10, <1>11, <2>1, <2>3 DEF BranchInv, Owned
  <2>. QED
    BY <1>15, <2>5, <2>6 DEF BranchInv
<1>17. CASE cached # c.object
  <2>1. cached # None => obj'[cached] = obj[cached]
    BY <1>8, <1>13, <1>14, <1>17
  <2>2. CacheSound(entry', obj', task', cached')
    BY <1>3, <1>7, <1>10, <2>1 DEF CacheSound
  <2>3. Owned(file', obj', cached', fileIsOwn')
    BY <1>3, <1>10, <2>1 DEF BranchInv, Owned
  <2>. QED
    BY <1>15, <2>2, <2>3 DEF BranchInv
<1>. QED
  BY <1>16, <1>17

\* A summary goes to the DAG and to the file.
LEMMA BranchSummed ==
  ASSUME BranchInv, NEW t \in Task, t \in Busy, NEW k \in Int,
         k \in {CountAfter(task[t], obj[task[t].object]), obj[task[t].object].lastConsolidated},
         Added(t, Recounted(Registered(obj[task[t].object], 1), k))
  PROVE  BranchInv'
<1>. DEFINE c == task[t]
            s == obj[c.object]
            x == Summary(s, c)
            u == Recounted(Registered(s, 1), k)
            g == WithLines(file, NewIds(1))
<1>0. k = CountAfter(c, s) \/ k = s.lastConsolidated
  OBVIOUS
<1>1. Typed /\ EntriesFit(entry)
  BY DEF BranchInv, Typed
<1>2. PICK m \in Nat : m = Len(entry)
  BY <1>1, EntriesKnown
<1>3. /\ t \in Busy /\ task' = [task EXCEPT ![t] = Idle]
      /\ cached' = cached /\ inTurn' = inTurn /\ said' = said
  BY DEF Added, TaskEnds
<1>4. /\ TaskFits(c, m) /\ c.object \in Object /\ FileFits(file, m) /\ ObjectsFit(obj, m)
      /\ TasksFit(task, m) /\ ObjectFits(s, m) /\ c.archive \in BOOLEAN /\ s.disk \in BOOLEAN
  BY <1>2, <1>3, OverSound
<1>5. /\ TasksFit(task', m) /\ task'[t] = Idle /\ \A v \in Task : v # t => task'[v] = task[v]
  BY <1>2, <1>3, OverSound
<1>7. /\ cached = c.object => /\ c.archive = FALSE /\ s.disk = TRUE
                             /\ Count(entry, s) >= Keep
      /\ \A v \in Task : task'[v].object = cached /\ cached # None =>
           task'[v].archive = FALSE /\ Count(entry, obj[cached]) >= Keep
      /\ cached # None => obj[cached].disk = TRUE /\ obj[cached].lastConsolidated >= 0
  BY <1>2, <1>3, OverSound
<1>8. cached \in {None} \cup Object /\ fileIsOwn \in BOOLEAN /\ exposed \subseteq Id
      /\ inTurn \in BOOLEAN /\ (inTurn => cached # None) /\ said \subseteq 1 .. m
  BY <1>1, <1>2 DEF Typed
<1>9. /\ Len(entry) < MaxEntries /\ entry' = Append(entry, x)
      /\ obj' = Collected(With(obj, c.object, u), task', cached)
      /\ file' = IF s.disk THEN g ELSE file
      /\ fileIsOwn' = (fileIsOwn /\ (s.disk => c.object = cached /\ ~file.torn))
      /\ exposed' = exposed \cup Misplaced(c, s)
  BY Zenon DEF Added, Compacts, TaskEnds, With
<1>20. m < MaxEntries
  BY <1>2, <1>9
<1>21. /\ OneAdded(entry, Append(entry, x), x, m)
      /\ x.parent = s.leaf /\ x.kind = "compaction"
      /\ ObjectFits(u, m + 1) /\ u.ids = s.ids \cup {m + 1} /\ u.leaf = m + 1
      /\ u.disk = s.disk /\ u.lastConsolidated = k
      /\ FileFits(g, m + 1) /\ Lines(file, g, m, 1)
  <2>1. x = Summary(s, c) /\ u = Recounted(Registered(s, 1), k)
    OBVIOUS
  <2>. HIDE DEF c, s, x, u
  <2>. QED
    BY <1>1, <1>2, <1>4, <1>20, <2>1, SummaryFits
<1>. HIDE DEF c, s, u, g, x
<1>22. OneAdded(entry, entry', x, m) /\ EntriesFit(entry') /\ Len(entry') = m + 1
  BY <1>9, <1>21 DEF OneAdded
<1>23. /\ ObjectsFit(obj, m + 1) /\ TasksFit(task', m + 1) /\ FileFits(file, m + 1)
      /\ said \subseteq 1 .. m + 1
  <2>1. PICK one \in Nat : one = 1
    OBVIOUS
  <2>2. /\ ObjectsFit(obj, m + one) /\ TasksFit(task', m + one) /\ FileFits(file, m + one)
        /\ said \subseteq 1 .. m + one
    BY <1>4, <1>5, <1>8, MoreFit
  <2>. QED
    BY <2>1, <2>2
<1>24. PICK objs : objs = With(obj, c.object, u)
  OBVIOUS
<1>25. /\ ObjectsFit(objs, m + 1) /\ objs[c.object] = u
      /\ \A o \in Object : o # c.object => objs[o] = obj[o]
  <2>1. m + 1 \in Nat /\ ObjectsFit(obj, m + 1) /\ c.object \in Object /\ ObjectFits(u, m + 1)
    BY <1>4, <1>21, <1>23
  <2>. QED
    BY <1>24, <2>1, ObjectSet
<1>26. /\ ObjectsFit(obj', m + 1)
      /\ \A o \in Object : o = cached => obj'[o] = objs[o]
  <2>1. m + 1 \in Nat /\ ObjectsFit(objs, m + 1) /\ obj' = Collected(objs, task', cached)
    BY <1>9, <1>24, <1>25
  <2>. QED
    BY <2>1, CollectedFits
<1>27. FileFits(file', m + 1)
  BY <1>4, <1>9, <1>21, <1>23
<1>28. exposed' \subseteq Id
  <2>1. Glued \subseteq Id
    <3>1. Glued = 1 .. m + 1 /\ m + 1 <= MaxEntries
      BY <1>2, <1>20, Constants DEF Glued
    <3>. QED
      BY <3>1, Constants DEF Id
  <2>2. Misplaced(c, s) \subseteq Id
    BY <2>1 DEF Misplaced
  <2>. QED
    BY <1>8, <1>9, <2>2
<1>29. fileIsOwn' \in BOOLEAN
  BY <1>9
<1>30. Typed'
  BY <1>3, <1>8, <1>22, <1>23, <1>26, <1>27, <1>28, <1>29 DEF Typed
<1>31. CASE cached = c.object
  <2>1. obj'[cached] = u /\ cached # None /\ s = obj[cached]
    BY <1>4, <1>25, <1>26, <1>31 DEF Object, None, s
  <2>2. u.lastConsolidated >= 0
    <3>1. CountAfter(c, s) >= 0
      <4>1. CountAfter(c, s) = Count(entry, s) - Keep
        BY <1>7, <1>31, EndsAre DEF c, s
      <4>2. Count(entry, s) \in Nat
        BY <1>1, <1>2, <1>4, CountKnown
      <4>. QED
        BY <1>7, <1>31, <4>1, <4>2, Constants
    <3>2. s.lastConsolidated >= 0
      BY <1>7, <2>1
    <3>. QED
      BY <1>0, <1>21, <3>1, <3>2
  <2>3. Count(entry', u) = Count(entry, s)
    <3>1. ObjectFits(s, m) /\ EntriesFit(entry) /\ m = Len(entry)
      BY <1>1, <1>2, <1>4
    <3>2. PICK e : e = entry'
      OBVIOUS
    <3>3. /\ OneAdded(entry, e, x, m) /\ x.kind = "compaction" /\ x.parent = s.leaf
          /\ u.ids = s.ids \cup {m + 1} /\ u.leaf = m + 1
      BY <1>21, <1>22, <3>2
    <3>4. Count(e, u) = Count(entry, s)
      BY <3>1, <3>3, SummaryCount
    <3>. QED
      BY <3>2, <3>4
  <2>4. CacheSound(entry', obj', task', cached')
    BY <1>3, <1>7, <1>21, <1>31, <2>1, <2>2, <2>3 DEF CacheSound
  <2>5. file.torn \in BOOLEAN
    BY <1>4 DEF FileFits, FileRec
  <2>6. ASSUME fileIsOwn' PROVE file'.ids = u.ids /\ file'.last = u.leaf
    <3>1. fileIsOwn /\ file.torn = FALSE /\ file' = g
      BY <1>7, <1>9, <1>31, <2>5, <2>6
    <3>2. g.ids = file.ids \cup m + 1 .. m + 1 /\ g.last = m + 1
      BY <1>21, <3>1 DEF Lines
    <3>3. file.ids = s.ids
      BY <2>1, <3>1 DEF BranchInv, Owned
    <3>4. m + 1 .. m + 1 = {m + 1}
      OBVIOUS
    <3>. QED
      BY <1>21, <3>1, <3>2, <3>3, <3>4
  <2>7. Owned(file', obj', cached', fileIsOwn')
    BY <1>3, <2>1, <2>6 DEF Owned
  <2>. QED
    BY <1>30, <2>4, <2>7 DEF BranchInv
<1>32. CASE cached # c.object
  <2>1. cached # None => obj'[cached] = obj[cached] /\ cached \in Object
    BY <1>8, <1>25, <1>26, <1>32
  <2>2. cached # None => Count(entry', obj[cached]) = Count(entry, obj[cached])
    <3>1. ASSUME cached # None
          PROVE  Count(entry', obj[cached]) = Count(entry, obj[cached])
      <4>1. PICK v : v = obj[cached]
        OBVIOUS
      <4>2. ObjectFits(v, m) /\ EntriesFit(entry) /\ m = Len(entry)
        BY <1>1, <1>2, <1>4, <2>1, <3>1, <4>1 DEF ObjectsFit
      <4>3. Count(entry', v) = Count(entry, v)
        BY <1>22, <4>2, SameCount
      <4>. QED
        BY <4>1, <4>3
    <3>. QED
      BY <3>1
  <2>3. CacheSound(entry', obj', task', cached')
    BY <1>3, <1>7, <2>1, <2>2 DEF CacheSound
  <2>4. ASSUME fileIsOwn', cached # None
        PROVE  file'.ids = obj[cached].ids /\ file'.last = obj[cached].leaf
    <3>1. fileIsOwn /\ s.disk = FALSE
      BY <1>4, <1>9, <1>32, <2>4
    <3>2. file' = file
      BY <1>9, <3>1
    <3>. QED
      BY <2>4, <3>1, <3>2 DEF BranchInv, Owned
  <2>5. Owned(file', obj', cached', fileIsOwn')
    BY <1>3, <2>1, <2>4 DEF Owned
  <2>. QED
    BY <1>30, <2>3, <2>5 DEF BranchInv
<1>. QED
  BY <1>31, <1>32

\* A consolidation ends so,
LEMMA BranchConsolidationEnds ==
  ASSUME BranchInv, NEW t \in Task, ConsolidationEnds(t)
  PROVE  BranchInv'
<1>1. t \in Busy
  BY DEF ConsolidationEnds
<1>2. PICK k \in Int :
        /\ k = CountAfter(task[t], obj[task[t].object])
        /\ \/ Added(t, Recounted(Registered(obj[task[t].object], 1), k))
           \/ /\ TaskEnds(t, Recounted(obj[task[t].object], k))
              /\ exposed' = exposed \cup Unsummarised(task[t])
              /\ entry' = entry /\ file' = file /\ fileIsOwn' = fileIsOwn
              /\ cached' = cached /\ inTurn' = inTurn /\ said' = said
  BY <1>1, EndsAre
<1>. QED
  BY <1>1, <1>2, BranchCounted, BranchSummed

\* or breaks off after the summary.
LEMMA BranchMemoryWriteFails ==
  ASSUME BranchInv, NEW t \in Task, MemoryWriteFails(t)
  PROVE  BranchInv'
<1>1. t \in Busy
  BY DEF MemoryWriteFails
<1>2. PICK k \in Int :
        /\ k = obj[task[t].object].lastConsolidated
        /\ Added(t, Recounted(Registered(obj[task[t].object], 1), k))
  BY <1>1, EndsAre
<1>. QED
  BY <1>1, <1>2, BranchSummed

\* A crash leaves the summary's line in the file, or a torn one.
LEMMA BranchCrashWhileConsolidating ==
  ASSUME BranchInv, NEW t \in Task, CrashWhileConsolidating(t)
  PROVE  BranchInv'
<1>. DEFINE c == task[t]
            s == obj[c.object]
            x == Summary(s, c)
            g == WithLines(file, NewIds(1))
<1>1. Typed /\ EntriesFit(entry)
  BY DEF BranchInv, Typed
<1>2. PICK m \in Nat : m = Len(entry)
  BY <1>1, EntriesKnown
<1>3. /\ ForgetObjects /\ said' = said /\ s.disk
      /\ \/ Compacts(c, s)
         \/ /\ file' = [file EXCEPT !.exists = TRUE, !.torn = TRUE]
            /\ UNCHANGED <<entry, exposed, fileIsOwn>>
  BY DEF CrashWhileConsolidating
<1>4. /\ TaskFits(c, m) /\ ObjectFits(s, m) /\ FileFits(file, m) /\ s.lastConsolidated \in Int
  BY <1>1, <1>2
     DEF CrashWhileConsolidating, Typed, TasksFit, TaskFits, Busy, ObjectsFit, ObjectFits, ObjectRec
<1>5. fileIsOwn \in BOOLEAN /\ exposed \subseteq Id /\ said \subseteq 1 .. m
  BY <1>1, <1>2 DEF Typed
<1>6. \A n \in Nat : /\ ObjectsFit(obj', n) /\ TasksFit(task', n) /\ cached' = None
                     /\ inTurn' = FALSE
  BY <1>3, BranchForgotten
<1>7. CASE Compacts(c, s)
  <2>1. /\ m < MaxEntries /\ entry' = Append(entry, x) /\ file' = g
        /\ fileIsOwn' \in BOOLEAN /\ exposed' = exposed \cup Misplaced(c, s)
    BY <1>2, <1>3, <1>5, <1>7 DEF Compacts
  <2>2. OneAdded(entry, Append(entry, x), x, m) /\ FileFits(g, m + 1)
    <3>1. PICK k, u : k \in Int /\ x = Summary(s, c) /\ u = Recounted(Registered(s, 1), k)
      BY <1>4
    <3>. HIDE DEF c, s, x
    <3>. QED
      BY <1>1, <1>2, <1>4, <2>1, <3>1, SummaryFits
  <2>. HIDE DEF c, s, x, g
  <2>3. EntriesFit(entry') /\ Len(entry') = m + 1
    BY <2>1, <2>2 DEF OneAdded
  <2>4. exposed' \subseteq Id
    <3>1. Glued \subseteq Id
      <4>1. Glued = 1 .. m + 1 /\ m + 1 <= MaxEntries
        BY <1>2, <2>1, Constants DEF Glued
      <4>. QED
        BY <4>1, Constants DEF Id
    <3>. QED
      BY <1>5, <2>1, <3>1 DEF Misplaced
  <2>5. said' \subseteq 1 .. m + 1
    BY <1>3, <1>5
  <2>6. /\ ObjectsFit(obj', Len(entry')) /\ TasksFit(task', Len(entry'))
        /\ FileFits(file', Len(entry')) /\ said' \subseteq 1 .. Len(entry')
    BY <1>6, <2>1, <2>2, <2>3, <2>5
  <2>7. Typed'
    BY <1>6, <2>1, <2>3, <2>4, <2>6 DEF Typed
  <2>. QED
    BY <1>6, <2>7 DEF BranchInv, CacheSound, Owned
<1>8. CASE /\ file' = [file EXCEPT !.exists = TRUE, !.torn = TRUE]
           /\ UNCHANGED <<entry, exposed, fileIsOwn>>
  <2>1. FileFits(file', m)
    <3>1. file \in FileRec /\ Fits(file.ids, file.last, m)
      BY <1>4 DEF FileFits
    <3>2. file' = [exists |-> TRUE, ids |-> file.ids, last |-> file.last, torn |-> TRUE]
      BY <1>8, <3>1, TornAndThere
    <3>3. file' \in FileRec /\ file'.ids = file.ids /\ file'.last = file.last
      BY <3>1, <3>2 DEF FileRec
    <3>. QED
      BY <3>1, <3>3 DEF FileFits
  <2>2. Typed'
    BY <1>1, <1>2, <1>3, <1>5, <1>6, <1>8, <2>1 DEF Typed
  <2>. QED
    BY <1>6, <2>2 DEF BranchInv, CacheSound, Owned
<1>. QED
  BY <1>3, <1>7, <1>8

\* Every step keeps BranchInv.
LEMMA BranchSteps == BranchInv /\ [Next]_vars => BranchInv'
<1>. SUFFICES ASSUME BranchInv, [Next]_vars PROVE BranchInv'
  OBVIOUS
<1>1. CASE TurnBegins
  BY <1>1, BranchTurnBegins
<1>2. CASE TurnEnds
  BY <1>2, BranchTurnEnds
<1>3. CASE TurnFails
  BY <1>3, BranchTurnFails
<1>4. ASSUME NEW t \in Task, ConsolidationEnds(t) PROVE BranchInv'
  BY <1>4, BranchConsolidationEnds
<1>5. ASSUME NEW t \in Task, ConsolidationFails(t) PROVE BranchInv'
  BY <1>5, BranchConsolidationFails
<1>6. CASE NewCommand
  BY <1>6, BranchNewCommand
<1>7. CASE ResetCommand
  BY <1>7, BranchResetCommand
<1>8. CASE FactoryResetAsks
  BY <1>8, BranchFactoryResetAsks
<1>9. CASE FactoryResetConfirmed
  BY <1>9, BranchFactoryResetConfirmed
<1>10. CASE Restart
  BY <1>10, BranchRestart
<1>11. CASE CrashWhileWriting
  BY <1>11, BranchCrashWhileWriting
<1>12. CASE UNCHANGED vars
  BY <1>12, BranchUnchanged
<1>13. ASSUME NEW t \in Task, MemoryWriteFails(t) PROVE BranchInv'
  BY <1>13, BranchMemoryWriteFails
<1>14. ASSUME NEW t \in Task, CrashWhileConsolidating(t) PROVE BranchInv'
  BY <1>14, BranchCrashWhileConsolidating
<1>. QED
  BY <1>1, <1>2, <1>3, <1>4, <1>5, <1>6, <1>7, <1>8, <1>9, <1>10, <1>11, <1>12, <1>13, <1>14
     DEF Next

\* BranchInv gives the types, and the branch that a restart loads.
LEMMA BranchGives == BranchInv => SessionsTypeOK /\ RestartKeepsBranch
<1>. SUFFICES ASSUME BranchInv PROVE SessionsTypeOK /\ RestartKeepsBranch
  OBVIOUS
<1>1. Typed
  BY DEF BranchInv
<1>2. PICK m \in Nat : m = Len(entry) /\ m <= MaxEntries
  BY <1>1, EntriesKnown DEF Typed
<1>3. 1 .. m \subseteq Id
  BY <1>2, Constants DEF Id
<1>4. /\ Len(entry) <= MaxEntries
      /\ \A n \in DOMAIN entry :
           /\ entry[n].parent \in 0 .. n - 1 /\ entry[n].kept \in 0 .. n - 1
           /\ entry[n].kind \in {"message", "compaction"} /\ entry[n].covers \subseteq 1 .. n - 1
  BY <1>1, EntriesKnown DEF Typed, EntriesFit
<1>5. /\ file \in [exists : BOOLEAN, ids : SUBSET Id, last : {None} \cup Id, torn : BOOLEAN]
      /\ file.ids # {} => file.last \in file.ids
  <2>1. {None} \cup Id = 0 .. MaxEntries
    BY Constants DEF None, Id
  <2>. QED
    BY <1>1, <2>1 DEF Typed, FileFits, FileRec, Fits
<1>6. \A o \in Object :
        /\ obj[o].ids \subseteq Id /\ obj[o].lastConsolidated \in Int
        /\ obj[o].ids # {} => obj[o].leaf \in obj[o].ids
        /\ o = cached => obj[o].lastConsolidated >= 0
  <2>1. None \notin Object
    BY DEF None, Object
  <2>. QED
    BY <1>1, <2>1 DEF BranchInv, CacheSound, Typed, ObjectsFit, ObjectFits, ObjectRec, Fits
<1>7. \A t \in Busy : task[t].object \in Object
  BY <1>1 DEF Typed, TasksFit, TaskFits, Busy
<1>8. said \subseteq Id /\ exposed \subseteq Id
      /\ cached \in {None} \cup Object /\ inTurn \in BOOLEAN /\ (inTurn => cached # None)
  BY <1>1, <1>2, <1>3 DEF Typed
<1>9. SessionsTypeOK
  BY <1>4, <1>5, <1>6, <1>7, <1>8 DEF SessionsTypeOK
<1>10. RestartKeepsBranch
  BY Zenon DEF RestartKeepsBranch, BranchInv, Owned, Path
<1>. QED
  BY <1>9, <1>10

\* Types: entries have older parents, the leaf of whoever knows entries is one of them, a
\* consolidation belongs to an object, and of the cached one no negative count is taken.
THEOREM SessionsTypeCorrect == Spec => []SessionsTypeOK
<1>1. Spec => []BranchInv
  BY BranchInit, BranchSteps, PTL DEF Spec
<1>. QED
  BY <1>1, BranchGives, PTL

\* A restart gives back the branch that was in memory, however turns, consolidations that
\* end late, commands and crashes follow each other: while only the cached object has
\* written the file, the file knows the entries the object knows and ends with its leaf.
THEOREM RestartCorrect == Spec => []RestartKeepsBranch
<1>1. Spec => []BranchInv
  BY BranchInit, BranchSteps, PTL DEF Spec
<1>. QED
  BY <1>1, BranchGives, PTL

-----------------------------------------------------------------------------
(* Nothing is forgotten.  U stands for what was said and is not exposed    *)
(* (X), mem for what the summaries are of that can be relied on.           *)

\* build_context finds a place to start from, and of what it then leaves out there is a
\* summary.
Fine(en, X, U, mem, p) ==
  \/ Id \subseteq X
  \/ \E k : Start(en, p, k) /\ U \subseteq From(en, p, k) \cup mem

\* The path to the leaf of s as the file has it, and what its summaries are of.
Seen(en, s, ids) == Walk(en, ids)[s.leaf]
Known(en, s, ids) == Covered(en, Seen(en, s, ids))

\* The cached object s, and the file where ids are known: both branches are fine, and of
\* what counts as consolidated there is a summary.
Views(en, s, ids, X, U, mem) ==
  /\ Fine(en, X, U, mem, Way(en, s)) /\ Fine(en, X, U, mem, Seen(en, s, ids))
  /\ Entries(Seen(en, s, ids)) \subseteq Entries(Way(en, s))
  /\ s.lastConsolidated <= Len(Way(en, s))
  /\ U \cap Upto(Way(en, s), s.lastConsolidated) \subseteq mem

\* A consolidation c of the cached object: with its summary the context may start at the
\* first kept entry, and what will count as consolidated is not among the kept ones, unless
\* nothing that counts is.
Works(en, s, ids, U, mem, c) ==
  /\ c.kept \in Entries(Way(en, s))
  /\ U \subseteq From(en, Way(en, s), c.kept) \cup mem \cup c.old
  /\ c.kept \in Entries(Seen(en, s, ids)) =>
       U \subseteq From(en, Seen(en, s, ids), c.kept) \cup mem \cup c.old
  /\ \/ From(en, Way(en, s), c.kept) \cap U = {}
     \/ \A n \in Upto(Way(en, s), Count(en, s) - Keep) : n < c.kept
  /\ From(en, Way(en, s), c.kept) \cap U \subseteq c.window

\* The consolidation t has an object of its own.
Alone(tasks, t, o) ==
  tasks[t].object # o /\ \A u \in Task : u # t => tasks[u].object # tasks[t].object

\* A consolidation of another object than the cached one o has that object for itself and
\* summarises all that counts, or it cannot reach the file without cutting the context off.
Pending(tasks, objs, en, ids, U, o) ==
  \A t \in Task : tasks[t] # Idle =>
    /\ tasks[t].archive = TRUE =>
         /\ Alone(tasks, t, o)
         /\ U \subseteq Known(en, objs[tasks[t].object], ids) \cup tasks[t].old
    /\ tasks[t].archive = FALSE /\ tasks[t].object # o =>
         objs[tasks[t].object].disk = FALSE \/ tasks[t].kept \notin ids

\* The inductive invariant for NothingForgotten, beside BranchInv.
MemoryInv ==
  LET p == Walk(entry, file.ids)[file.last]
      s == obj[cached]
      U == said \ exposed IN
  /\ Fine(entry, exposed, U, Covered(entry, p), p)
  /\ cached # None =>
       /\ Views(entry, s, file.ids, exposed, U, Known(entry, s, file.ids))
       /\ \A t \in Task : task[t].object = cached =>
            Works(entry, s, file.ids, U, Known(entry, s, file.ids), task[t])
  /\ Pending(task, obj, entry, file.ids, U, cached)

-----------------------------------------------------------------------------
(* What keeps a branch fine.                                               *)

\* A branch stays fine when more is exposed or remembered,
LEMMA FineStill ==
  ASSUME NEW en, NEW p, NEW X, NEW U, NEW mem, Fine(en, X, U, mem, p),
         NEW X2, NEW U2, NEW mem2, X \subseteq X2, U2 \subseteq U, U2 \cap mem \subseteq mem2
  PROVE  Fine(en, X2, U2, mem2, p)
<1>1. CASE Id \subseteq X
  BY <1>1 DEF Fine
<1>2. CASE \E k : Start(en, p, k) /\ U \subseteq From(en, p, k) \cup mem
  <2>1. PICK k : Start(en, p, k) /\ U \subseteq From(en, p, k) \cup mem
    BY <1>2
  <2>2. U2 \subseteq From(en, p, k) \cup mem2
    BY <2>1
  <2>. QED
    BY <2>1, <2>2 DEF Fine
<1>. QED
  BY <1>1, <1>2 DEF Fine

\* when its entries stay,
LEMMA FineElsewhere ==
  ASSUME NEW en, NEW e, NEW p, NEW X, NEW U, NEW mem, Fine(en, X, U, mem, p),
         \A n \in Entries(p) : e[n] = en[n]
  PROVE  Fine(e, X, U, mem, p)
<1>1. CASE Id \subseteq X
  BY <1>1 DEF Fine
<1>2. CASE \E k : Start(en, p, k) /\ U \subseteq From(en, p, k) \cup mem
  <2>1. PICK k : Start(en, p, k) /\ U \subseteq From(en, p, k) \cup mem
    BY <1>2
  <2>2. Start(e, p, k) /\ From(e, p, k) = From(en, p, k)
    BY <2>1, SameEntries
  <2>. QED
    BY <2>1, <2>2 DEF Fine
<1>. QED
  BY <1>1, <1>2 DEF Fine

\* when messages are added to it,
LEMMA FineJoined ==
  ASSUME NEW en, NEW e, NEW p, Rising(p), NEW q, NEW new, Joined(en, e, p, q, new),
         NEW X, NEW U, NEW mem, Fine(en, X, U, mem, p),
         NEW X2, NEW U2, NEW mem2, X \subseteq X2, U2 \subseteq U \cup new,
         U2 \cap mem \subseteq mem2 \cup new
  PROVE  Fine(e, X2, U2, mem2, q)
<1>1. CASE Id \subseteq X
  BY <1>1 DEF Fine
<1>2. CASE \E k : Start(en, p, k) /\ U \subseteq From(en, p, k) \cup mem
  <2>1. PICK k : Start(en, p, k) /\ U \subseteq From(en, p, k) \cup mem
    BY <1>2
  <2>2. k \in {None} \cup Entries(p)
    BY <2>1, StartKnown
  <2>3. Start(e, q, k) /\ From(e, q, k) = From(en, p, k) \cup new
    BY <2>1, <2>2 DEF Joined
  <2>4. U2 \subseteq From(e, q, k) \cup mem2
    BY <2>1, <2>3
  <2>. QED
    BY <2>3, <2>4 DEF Fine
<1>. QED
  BY <1>1, <1>2 DEF Fine

\* and when a summary is.
LEMMA FineSummed ==
  ASSUME NEW en, NEW e, NEW p, NEW q, NEW k, Summed(en, e, p, q, k), NEW X, NEW U, NEW mem,
         U \subseteq From(en, p, k) \cup mem
  PROVE  Fine(e, X, U, mem, q)
BY DEF Summed, Fine

\* An empty path holds nothing, so it is fine if nothing was said.
LEMMA NoPath ==
  /\ Rising(<<>>) /\ Entries(<<>>) = {} /\ Len(<<>>) = 0
  /\ \A en, X, mem : Fine(en, X, {}, mem, <<>>)
<1>1. Rising(<<>>) /\ Entries(<<>>) = {} /\ Len(<<>>) = 0
  BY DEF Rising, Entries
<1>2. \A en : Start(en, <<>>, None)
  BY <1>1 DEF Start, Summaries
<1>. QED
  BY <1>1, <1>2, Zenon DEF Fine

\* A fine branch forgets nothing.
LEMMA FineRemembers ==
  ASSUME NEW p, Rising(p), NEW X, NEW U, NEW mem, Fine(entry, X, U, mem, p),
         U \subseteq Id, U \cap X = {}
  PROVE  U \subseteq Context(p) \cup mem
<1>1. CASE Id \subseteq X
  BY <1>1
<1>2. CASE \E k : Start(entry, p, k) /\ U \subseteq From(entry, p, k) \cup mem
  <2>1. PICK k : Start(entry, p, k) /\ U \subseteq From(entry, p, k) \cup mem
    BY <1>2
  <2>2. Context(p) = From(entry, p, k)
    BY <2>1, StartGivesContext
  <2>. QED
    BY <2>1, <2>2
<1>. QED
  BY <1>1, <1>2 DEF Fine

\* More entries do not change what is known of an old one.
LEMMA KnownKept ==
  ASSUME NEW en, EntriesFit(en), NEW e, EntriesFit(e), Extends(en, e),
         NEW ids, ids \subseteq 1 .. Len(en), NEW ids2, ids2 \subseteq 1 .. Len(e),
         Agree(ids, ids2, Len(en)), NEW s, s.leaf \in 0 .. Len(en)
  PROVE  Seen(e, s, ids2) = Seen(en, s, ids) /\ Known(e, s, ids2) = Known(en, s, ids)
<1>1. PICK leaf \in 0 .. Len(en) : leaf = s.leaf
  OBVIOUS
<1>2. Walk(e, ids2)[leaf] = Walk(en, ids)[leaf]
  <2>1. Parents(en, ids) /\ Parents(e, ids2) /\ Len(en) \in Nat
    BY ParentsKnown
  <2>2. Len(en) <= Len(e) /\ \A n \in 1 .. Len(en) : e[n] = en[n]
    BY DEF Extends
  <2>. QED
    BY <2>1, <2>2, WalkKeeps DEF Agree
<1>. DEFINE p == Walk(en, ids)[leaf]
<1>3. Entries(p) \subseteq ids
  BY PathFits
<1>. HIDE DEF p
<1>4. \A n \in Entries(p) : e[n] = en[n]
  BY <1>3 DEF Extends
<1>5. Covered(e, p) = Covered(en, p)
  BY <1>4, SameEntries
<1>6. Seen(en, s, ids) = p /\ Seen(e, s, ids2) = p
  BY <1>1, <1>2 DEF Seen, p
<1>. QED
  BY <1>5, <1>6 DEF Known

\* Nothing that a consolidation of another object than o kept gets into the file, its
\* object does not get one, and an archive keeps what it knows.
Spared(m, tasks, objs, objs2, en, en2, ids, ids2, U, o) ==
  /\ \A n \in 0 .. m : n \in ids2 => n \in ids
  /\ \A t \in Task : tasks[t] # Idle /\ tasks[t].object # o =>
       /\ objs[tasks[t].object].disk = FALSE => objs2[tasks[t].object].disk = FALSE
       /\ tasks[t].archive = TRUE =>
            U \cap Known(en, objs[tasks[t].object], ids)
              \subseteq Known(en2, objs2[tasks[t].object], ids2)

\* What holds of the consolidations under way stays when less is at stake,
LEMMA PendingStill ==
  ASSUME NEW m, NEW tasks, TasksFit(tasks, m), NEW objs, NEW objs2, NEW en, NEW en2,
         NEW ids, NEW ids2, NEW U, NEW U2, NEW o, Pending(tasks, objs, en, ids, U, o),
         U2 \subseteq U, Spared(m, tasks, objs, objs2, en, en2, ids, ids2, U2, o)
  PROVE  Pending(tasks, objs2, en2, ids2, U2, o)
<1>. SUFFICES ASSUME NEW t \in Task, tasks[t] # Idle
     PROVE  /\ tasks[t].archive = TRUE =>
                 /\ Alone(tasks, t, o)
                 /\ U2 \subseteq Known(en2, objs2[tasks[t].object], ids2) \cup tasks[t].old
            /\ tasks[t].archive = FALSE /\ tasks[t].object # o =>
                 objs2[tasks[t].object].disk = FALSE \/ tasks[t].kept \notin ids2
  BY Zenon DEF Pending
<1>1. /\ tasks[t].archive = TRUE =>
           /\ Alone(tasks, t, o)
           /\ U \subseteq Known(en, objs[tasks[t].object], ids) \cup tasks[t].old
      /\ tasks[t].archive = FALSE /\ tasks[t].object # o =>
           objs[tasks[t].object].disk = FALSE \/ tasks[t].kept \notin ids
  BY Zenon DEF Pending
<1>2. tasks[t].kept \in 0 .. MaxEntries /\ tasks[t].kept <= m
  BY DEF TasksFit, TaskFits, TaskRec
<1>3. tasks[t].kept \in ids2 => tasks[t].kept \in ids
  BY <1>2 DEF Spared
<1>4. ASSUME tasks[t].archive = TRUE
      PROVE  /\ Alone(tasks, t, o)
             /\ U2 \subseteq Known(en2, objs2[tasks[t].object], ids2) \cup tasks[t].old
  <2>1. Alone(tasks, t, o) /\ tasks[t].object # o
    BY <1>1, <1>4 DEF Alone
  <2>2. U2 \cap Known(en, objs[tasks[t].object], ids)
          \subseteq Known(en2, objs2[tasks[t].object], ids2)
    BY <1>4, <2>1 DEF Spared
  <2>. QED
    BY <1>1, <1>4, <2>1, <2>2
<1>5. tasks[t].archive = FALSE /\ tasks[t].object # o =>
        objs2[tasks[t].object].disk = FALSE \/ tasks[t].kept \notin ids2
  BY <1>1, <1>3 DEF Spared
<1>. QED
  BY <1>4, <1>5

\* A set of what is said that only shrinks, or of what is known that only grows, for it.
LEMMA WorksStill ==
  ASSUME NEW en, NEW s, NEW ids, NEW U, NEW mem, NEW c, Works(en, s, ids, U, mem, c),
         NEW U2 \in SUBSET U, NEW mem2, U2 \cap mem \subseteq mem2
  PROVE  Works(en, s, ids, U2, mem2, c)
BY DEF Works

\* and so does what holds of the two branches.
LEMMA ViewsStill ==
  ASSUME NEW en, NEW s, NEW ids, NEW X, NEW U, NEW mem, Views(en, s, ids, X, U, mem),
         NEW X2, NEW U2, NEW mem2, X \subseteq X2, U2 \subseteq U, U2 \cap mem \subseteq mem2
  PROVE  Views(en, s, ids, X2, U2, mem2)
<1>1. /\ Fine(en, X2, U2, mem2, Way(en, s)) /\ Fine(en, X2, U2, mem2, Seen(en, s, ids))
  BY FineStill DEF Views
<1>. QED
  BY <1>1 DEF Views

\* Who knows no entry has no path.
LEMMA NothingKnown ==
  ASSUME NEW en, EntriesFit(en), NEW leaf \in 0 .. Len(en)
  PROVE  Walk(en, {})[leaf] = <<>>
BY ParentsKnown, WalkRises

\* No consolidation is under way.
LEMMA NoneRunning ==
  ASSUME NEW tasks, \A t \in Task : tasks[t] = Idle
  PROVE  \A objs, en, ids, U, o : Pending(tasks, objs, en, ids, U, o)
BY DEF Pending

\* At first nothing was said.
LEMMA MemoryInit == Init => MemoryInv
<1>. SUFFICES ASSUME Init PROVE MemoryInv
  OBVIOUS
<1>1. EntriesFit(entry) /\ file.last \in 0 .. Len(entry)
  BY BranchInit DEF BranchInv, Typed, FileFits, Fits
<1>2. /\ file.ids = {} /\ cached = None /\ said = {}
      /\ \A t \in Task : task[t] = Idle
  BY DEF Init, NoFile
<1>3. Walk(entry, file.ids)[file.last] = <<>>
  BY <1>1, <1>2, NothingKnown
<1>4. said \ exposed = {}
  BY <1>2
<1>5. \A mem : Fine(entry, exposed, said \ exposed, mem, Walk(entry, file.ids)[file.last])
  BY <1>3, <1>4, NoPath
<1>6. Pending(task, obj, entry, file.ids, said \ exposed, cached)
  BY <1>2, NoneRunning
<1>. QED
  BY <1>2, <1>5, <1>6 DEF MemoryInv

\* Between the session that is opened and a cached one there is no difference.
LEMMA MemoryOpened ==
  ASSUME BranchInv, MemoryInv, NEW U, U = said \ exposed,
         NEW mem, mem = Known(entry, OpenedObject, file.ids)
  PROVE  /\ Views(entry, OpenedObject, file.ids, exposed, U, mem)
         /\ \A t \in Task : task[t].object = Opened =>
              Works(entry, OpenedObject, file.ids, U, mem, task[t])
         /\ Pending(task, obj, entry, file.ids, U, Opened)
<1>1. CASE cached # None
  <2>1. Opened = cached /\ OpenedObject = obj[cached]
    BY <1>1, OpenedSound
  <2>. QED
    BY <1>1, <2>1 DEF MemoryInv
<1>2. CASE cached = None
  <2>. DEFINE s == OpenedObject
              p == Walk(entry, file.ids)[file.last]
  <2>1. /\ \A t \in Task : task[t].object # Opened
        /\ s.ids = file.ids /\ s.leaf = file.last /\ s.lastConsolidated = 0
        /\ ObjectFits(s, Len(entry)) /\ EntriesFit(entry) /\ TasksFit(task, Len(entry))
    BY <1>2, OpenedSound DEF BranchInv, Typed
  <2>9. mem = Known(entry, s, file.ids)
    OBVIOUS
  <2>. HIDE DEF s
  <2>2. Way(entry, s) = p /\ Seen(entry, s, file.ids) = p /\ mem = Covered(entry, p)
    BY <2>1, <2>9 DEF Way, Seen, Known
  <2>3. Rising(p)
    BY <2>1, <2>2, CountKnown
  <2>4. Fine(entry, exposed, U, mem, p) /\ Pending(task, obj, entry, file.ids, U, cached)
    BY <2>2 DEF MemoryInv
  <2>. HIDE DEF p
  <2>5. Upto(p, 0) = {} /\ 0 <= Len(p)
    BY <2>3, EntriesOf DEF Upto
  <2>6. Views(entry, s, file.ids, exposed, U, mem)
    BY <2>1, <2>2, <2>4, <2>5 DEF Views
  <2>7. \A t \in Task : task[t] # Idle => task[t].object # None
    BY <2>1 DEF TasksFit, TaskFits, Object, None
  <2>8. Pending(task, obj, entry, file.ids, U, Opened)
    BY <1>2, <2>1, <2>4, <2>7 DEF Pending, Alone
  <2>. QED
    BY <2>1, <2>6, <2>8 DEF s
<1>. QED
  BY <1>1, <1>2

-----------------------------------------------------------------------------
(* Nothing is forgotten by an exchange.                                    *)

\* The first entries of a path stay when it is prolonged.
LEMMA UptoSame ==
  ASSUME NEW p, Rising(p), NEW q, Rising(q), Len(p) <= Len(q),
         \A i \in 1 .. Len(p) : q[i] = p[i], NEW k \in Int, k <= Len(p)
  PROVE  Upto(q, k) = Upto(p, k)
<1>1. PICK a \in Nat, b \in Nat : a = Len(p) /\ b = Len(q) /\ DOMAIN p = 1 .. a /\ DOMAIN q = 1 .. b
  BY EntriesOf
<1>2. {j \in DOMAIN q : j <= k} = {j \in DOMAIN p : j <= k}
  BY <1>1
<1>3. \A j \in {i \in DOMAIN p : i <= k} : q[j] = p[j]
  BY <1>1
<1>. QED
  BY <1>2, <1>3 DEF Upto

\* An exchange of two messages, written to the file f by the object s.
Exchanged(s, f, m, e, r, g) ==
  /\ EntriesFit(entry) /\ ObjectFits(s, m) /\ FileFits(f, m)
  /\ m \in Nat /\ m = Len(entry) /\ m + 2 <= MaxEntries
  /\ e = NewMessages(s, 2) /\ r = Registered(s, 2) /\ g = WithLines(f, NewIds(2))

\* What it does to the path p of the object, and to the path q the file has for it.
Prolonged(e, m, p, p2) ==
  /\ Joined(entry, e, p, p2, {m + 1, m + 2}) /\ Rising(p) /\ Entries(p) \subseteq 1 .. m
  /\ Len(p) <= Len(p2) /\ \A i \in 1 .. Len(p) : p2[i] = p[i]

\* The path in the file after an exchange: prolonged, or cut at the torn line.
SeenOn(e, m, torn, q, q2) ==
  /\ torn = FALSE => Joined(entry, e, q, q2, {m + 1, m + 2}) /\ Rising(q)
  /\ torn = TRUE => Joined(entry, e, <<>>, q2, {m + 2})

\* What the summaries are of in the file stays, or is cut off with them.
KnownOn(torn, mem, mem2) == torn = FALSE => mem2 = mem

\* What an exchange does to the branch in memory and to its part in the file.
LEMMA ExchangedPaths ==
  ASSUME NEW s, NEW f, NEW m, NEW e, NEW r, NEW g, Exchanged(s, f, m, e, r, g)
  PROVE  /\ Prolonged(e, m, Way(entry, s), Way(e, r))
         /\ SeenOn(e, m, f.torn, Seen(entry, s, f.ids), Seen(e, r, g.ids))
         /\ Seen(e, r, g.ids) = Walk(e, g.ids)[g.last]
         /\ r.lastConsolidated = s.lastConsolidated
         /\ KnownOn(f.torn, Known(entry, s, f.ids), Known(e, r, g.ids))
<1>. DEFINE p == Way(entry, s)
            p2 == Way(e, r)
            q == Seen(entry, s, f.ids)
            q2 == Seen(e, r, g.ids)
            new == {m + 1, m + 2}
<1>1. /\ EntriesFit(entry) /\ ObjectFits(s, m) /\ FileFits(f, m)
      /\ m \in Nat /\ m = Len(entry) /\ m + 2 <= MaxEntries
  BY DEF Exchanged
<1>2. /\ EntriesFit(e) /\ Len(e) = m + 2 /\ Extends(entry, e)
      /\ r.ids = s.ids \cup new /\ r.leaf = m + 2 /\ r.lastConsolidated = s.lastConsolidated
      /\ g.last = m + 2
      /\ f.torn = FALSE => g.ids = f.ids \cup new
      /\ f.torn = TRUE => g.ids = f.ids \cup {m + 2}
  <2>1. /\ e = NewMessages(s, 2) /\ r = Registered(s, 2) /\ g = WithLines(f, NewIds(2))
        /\ ObjectFits(s, Len(entry)) /\ FileFits(f, Len(entry))
    BY <1>1 DEF Exchanged
  <2>. QED
    BY <1>1, <2>1, ExchangeFits
<1>3. /\ e[m + 1].kind = "message" /\ e[m + 2].kind = "message"
      /\ e[m + 1].covers = {} /\ e[m + 2].covers = {}
      /\ \A ids \in SUBSET (1 .. m) :
           /\ Walk(e, ids \cup new)[m + 2] = TwoMore(Walk(entry, ids)[s.leaf], m)
           /\ Walk(e, ids \cup {m + 2})[m + 2] = <<m + 2>>
  <2>1. s.leaf \in 0 .. Len(entry) /\ e = NewMessages(s, 2)
    BY <1>1 DEF Exchanged, ObjectFits, Fits
  <2>. HIDE DEF p, p2, q, q2
  <2>. DEFINE d == NewMessages(s, 2)
  <2>2. EntriesFit(entry) /\ m \in Nat /\ m = Len(entry) /\ m + 2 <= MaxEntries
    BY <1>1
  <2>3. /\ d[m + 1].kind = "message" /\ d[m + 2].kind = "message"
        /\ d[m + 1].covers = {} /\ d[m + 2].covers = {}
    BY <2>1, <2>2, ExchangeAdded
  <2>4. \A ids \in SUBSET (1 .. m) :
          /\ Walk(d, ids \cup {m + 1, m + 2})[m + 2]
               = Append(Append(Walk(entry, ids)[s.leaf], m + 1), m + 2)
          /\ Walk(d, ids \cup {m + 2})[m + 2] = <<m + 2>>
    BY <2>1, <2>2, ExchangeAdded
  <2>. HIDE DEF d
  <2>6. e = d
    BY <2>1 DEF d
  <2>. QED
    BY <2>3, <2>4, <2>6, Zenon DEF TwoMore
<1>4. s.ids \in SUBSET (1 .. m) /\ f.ids \in SUBSET (1 .. m) /\ s.leaf \in 0 .. Len(entry)
  BY <1>1 DEF ObjectFits, FileFits, Fits
<1>5. Rising(p) /\ Entries(p) \subseteq 1 .. m
  BY <1>1, CountKnown
<1>6. p2 = TwoMore(p, m)
  BY <1>2, <1>3, <1>4 DEF Way
<1>. HIDE DEF p, p2
<1>7. Joined(entry, e, p, p2, new)
  BY <1>1, <1>2, <1>3, <1>5, <1>6, TwoMessages
<1>8. Len(p) <= Len(p2) /\ \A i \in 1 .. Len(p) : p2[i] = p[i]
  <2>1. Len(p2) = Len(p) + 2 /\ \A i \in 1 .. Len(p) : p2[i] = p[i]
    BY <1>1, <1>5, <1>6, TwoMoreIs
  <2>. QED
    BY <1>5, <2>1, EntriesOf
<1>9. q2 = Walk(e, g.ids)[g.last]
  BY <1>2 DEF Seen
<1>10. ASSUME f.torn = FALSE PROVE Joined(entry, e, q, q2, new) /\ Rising(q)
  <2>1. q2 = TwoMore(q, m)
    BY <1>2, <1>3, <1>4, <1>10 DEF Seen
  <2>2. Rising(q) /\ Entries(q) \subseteq 1 .. m
    <3>1. /\ Rising(Walk(entry, f.ids)[s.leaf])
          /\ Entries(Walk(entry, f.ids)[s.leaf]) \subseteq f.ids
      BY <1>1, <1>4, PathFits
    <3>. QED
      BY <1>4, <3>1 DEF Seen
  <2>. HIDE DEF q, q2
  <2>. QED
    BY <1>1, <1>2, <1>3, <2>1, <2>2, TwoMessages
<1>11. ASSUME f.torn = TRUE PROVE Joined(entry, e, <<>>, q2, {m + 2})
  <2>1. q2 = Append(<<>>, m + 2)
    <3>1. q2 = <<m + 2>>
      BY <1>2, <1>3, <1>4, <1>11, Zenon DEF Seen
    <3>2. <<m + 2>> = Append(<<>>, m + 2)
      OBVIOUS
    <3>. QED
      BY <3>1, <3>2, Zenon
  <2>. HIDE DEF q2
  <2>2. Newer(entry, e, <<>>, m + 2)
    BY <1>1, NoPath DEF Newer
  <2>. QED
    BY <1>3, <2>1, <2>2, MessageAdded
<1>12. KnownOn(f.torn, Known(entry, s, f.ids), Known(e, r, g.ids))
  BY <1>10 DEF Known, Joined, KnownOn
<1>. QED
  BY <1>2, <1>5, <1>7, <1>8, <1>9, <1>10, <1>11, <1>12 DEF p, p2, Prolonged, SeenOn

\* From what was said before, all counts after it, or only the second message.
Adds(m, torn, U, U2) ==
  U2 \subseteq U \cup {m + 1, m + 2} /\ (torn = TRUE => U2 \subseteq {m + 2})

\* Both stay fine, and nothing more counts as consolidated.
LEMMA ViewsExchanged ==
  ASSUME NEW s, NEW f, NEW m, NEW e, NEW r, NEW g, Exchanged(s, f, m, e, r, g),
         NEW X, NEW U, NEW mem, Views(entry, s, f.ids, X, U, mem),
         NEW X2, NEW U2, X \subseteq X2, Adds(m, f.torn, U, U2),
         NEW mem2, KnownOn(f.torn, mem, mem2)
  PROVE  /\ Fine(e, X2, U2, mem2, Walk(e, g.ids)[g.last])
         /\ Views(e, r, g.ids, X2, U2, mem2)
<1>. DEFINE p == Way(entry, s)
            p2 == Way(e, r)
            q == Seen(entry, s, f.ids)
            q2 == Seen(e, r, g.ids)
            new == {m + 1, m + 2}
<1>1. /\ Joined(entry, e, p, p2, new) /\ Rising(p) /\ Entries(p) \subseteq 1 .. m
      /\ Len(p) <= Len(p2) /\ \A i \in 1 .. Len(p) : p2[i] = p[i]
      /\ f.torn = FALSE => Joined(entry, e, q, q2, new) /\ Rising(q)
      /\ f.torn = TRUE => Joined(entry, e, <<>>, q2, {m + 2})
      /\ q2 = Walk(e, g.ids)[g.last]
      /\ r.lastConsolidated = s.lastConsolidated
  <2>1. /\ Prolonged(e, m, Way(entry, s), Way(e, r))
        /\ SeenOn(e, m, f.torn, Seen(entry, s, f.ids), Seen(e, r, g.ids))
        /\ Seen(e, r, g.ids) = Walk(e, g.ids)[g.last]
        /\ r.lastConsolidated = s.lastConsolidated
    BY ExchangedPaths
  <2>. QED
    BY <2>1 DEF Prolonged, SeenOn
<1>0. /\ U2 \subseteq U \cup new /\ (f.torn = TRUE => U2 \subseteq {m + 2})
      /\ f.torn = FALSE => mem2 = mem
  BY DEF Adds, KnownOn
<1>2. /\ Fine(entry, X, U, mem, p) /\ Fine(entry, X, U, mem, q)
      /\ Entries(q) \subseteq Entries(p) /\ s.lastConsolidated <= Len(p)
      /\ U \cap Upto(p, s.lastConsolidated) \subseteq mem
  BY DEF Views
<1>3. m \in Nat /\ f.torn \in BOOLEAN /\ s.lastConsolidated \in Int
  BY DEF Exchanged, FileFits, FileRec, ObjectFits, ObjectRec
<1>. HIDE DEF p, p2, q, q2
<1>4. Fine(e, X2, U2, mem2, p2)
  <2>1. /\ Rising(p) /\ Joined(entry, e, p, p2, new) /\ Fine(entry, X, U, mem, p)
        /\ X \subseteq X2 /\ U2 \subseteq U \cup new /\ U2 \cap mem \subseteq mem2 \cup new
    BY <1>0, <1>1, <1>2, <1>3
  <2>. QED
    BY <2>1, FineJoined
<1>5. Fine(e, X2, U2, mem2, q2)
  <2>1. CASE f.torn = FALSE
    <3>1. /\ Rising(q) /\ Joined(entry, e, q, q2, new) /\ Fine(entry, X, U, mem, q)
          /\ X \subseteq X2 /\ U2 \subseteq U \cup new /\ U2 \cap mem \subseteq mem2 \cup new
      BY <1>0, <1>1, <1>2, <2>1
    <3>. QED
      BY <3>1, FineJoined
  <2>2. CASE f.torn = TRUE
    <3>1. /\ Rising(<<>>) /\ Joined(entry, e, <<>>, q2, {m + 2}) /\ Fine(entry, X, {}, mem, <<>>)
          /\ X \subseteq X2 /\ U2 \subseteq {} \cup {m + 2}
          /\ U2 \cap mem \subseteq mem2 \cup {m + 2}
      BY <1>0, <1>1, <2>2, NoPath
    <3>. QED
      BY <3>1, FineJoined
  <2>. QED
    BY <1>3, <2>1, <2>2
<1>6. Entries(p2) = Entries(p) \cup new /\ Rising(p2) /\ Entries(q2) \subseteq Entries(p2)
  BY <1>1, <1>2, <1>3, NoPath DEF Joined
<1>7. s.lastConsolidated <= Len(p2)
  <2>1. Len(p) \in Nat /\ Len(p2) \in Nat
    BY <1>1, <1>6, EntriesOf
  <2>. QED
    BY <1>1, <1>2, <1>3, <2>1
<1>8. Upto(p2, s.lastConsolidated) = Upto(p, s.lastConsolidated)
  BY <1>1, <1>2, <1>3, <1>6, UptoSame
<1>9. new \cap Upto(p, s.lastConsolidated) = {}
  <2>1. Upto(p, s.lastConsolidated) \subseteq Entries(p)
    BY DEF Upto, Entries
  <2>2. m + 1 \notin 1 .. m /\ m + 2 \notin 1 .. m
    BY <1>3
  <2>. QED
    BY <1>1, <2>1, <2>2
<1>10. U2 \cap Upto(p2, s.lastConsolidated) \subseteq mem2
  BY <1>0, <1>2, <1>3, <1>8, <1>9
<1>11. Views(e, r, g.ids, X2, U2, mem2)
  BY <1>1, <1>4, <1>5, <1>6, <1>7, <1>10 DEF Views, p2, q2
<1>. QED
  BY <1>1, <1>5, <1>11

\* Of U there counts U2 no more than before, nothing that c was to keep, and what was known
\* is known.
Kept(m, U, mem, c, U2, mem2) ==
  U \subseteq 1 .. m /\ U2 \subseteq U /\ U2 \cap c.window = {} /\ U2 \cap mem \subseteq mem2

\* A consolidation of the object may go on, if what it was to keep is exposed.
LEMMA WorksExchanged ==
  ASSUME NEW s, NEW f, NEW m, NEW e, NEW r, NEW g, Exchanged(s, f, m, e, r, g),
         NEW U, NEW c, TaskFits(c, m), NEW mem, Works(entry, s, f.ids, U, mem, c),
         NEW U2, NEW mem2, Kept(m, U, mem, c, U2, mem2)
  PROVE  Works(e, r, g.ids, U2, mem2, c)
<1>. DEFINE p == Way(entry, s)
            p2 == Way(e, r)
            q == Seen(entry, s, f.ids)
            q2 == Seen(e, r, g.ids)
            new == {m + 1, m + 2}
<1>1. /\ Joined(entry, e, p, p2, new)
      /\ f.torn = FALSE => Joined(entry, e, q, q2, new)
      /\ f.torn = TRUE => Joined(entry, e, <<>>, q2, {m + 2})
  <2>1. /\ Prolonged(e, m, Way(entry, s), Way(e, r))
        /\ SeenOn(e, m, f.torn, Seen(entry, s, f.ids), Seen(e, r, g.ids))
        /\ Seen(e, r, g.ids) = Walk(e, g.ids)[g.last]
        /\ r.lastConsolidated = s.lastConsolidated
    BY ExchangedPaths
  <2>. QED
    BY <2>1 DEF Prolonged, SeenOn
<1>2. /\ c.kept \in Entries(p) /\ U \subseteq From(entry, p, c.kept) \cup mem \cup c.old
      /\ c.kept \in Entries(q) => U \subseteq From(entry, q, c.kept) \cup mem \cup c.old
      /\ From(entry, p, c.kept) \cap U \subseteq c.window
  BY DEF Works
<1>3. m \in Nat /\ f.torn \in BOOLEAN /\ c.kept \in 0 .. MaxEntries /\ c.kept <= m
  BY DEF Exchanged, FileFits, FileRec, TaskFits, TaskRec
<1>. HIDE DEF p, p2, q, q2
<1>4. c.kept \notin new /\ new \cap U = {}
  <2>1. c.kept # m + 1 /\ c.kept # m + 2
    BY <1>3
  <2>2. m + 1 \notin 1 .. m /\ m + 2 \notin 1 .. m
    BY <1>3
  <2>. QED
    BY <2>1, <2>2 DEF Kept
<1>5. c.kept \in Entries(p2) /\ From(e, p2, c.kept) = From(entry, p, c.kept) \cup new
  BY <1>1, <1>2 DEF Joined
<1>6. ASSUME c.kept \in Entries(q2)
      PROVE  U2 \subseteq From(e, q2, c.kept) \cup mem2 \cup c.old
  <2>1. f.torn = FALSE
    BY <1>1, <1>3, <1>4, <1>6, NoPath DEF Joined
  <2>2. c.kept \in Entries(q) /\ From(e, q2, c.kept) = From(entry, q, c.kept) \cup new
    BY <1>1, <1>4, <1>6, <2>1 DEF Joined
  <2>. QED
    BY <1>2, <2>2 DEF Kept
<1>7. From(e, p2, c.kept) \cap U2 = {}
  BY <1>2, <1>4, <1>5 DEF Kept
<1>8. U2 \subseteq From(e, p2, c.kept) \cup mem2 \cup c.old
  BY <1>2, <1>5 DEF Kept
<1>. QED
  BY <1>5, <1>6, <1>7, <1>8 DEF Works, p2, q2

\* Whether a reset awaits confirmation makes no difference to the branch.
Asking(s, b) == [s EXCEPT !.awaitsReset = b]

\* Asking for a reset changes nothing else in the object,
LEMMA AskedFits ==
  ASSUME NEW m \in Nat, NEW s, ObjectFits(s, m), NEW b \in BOOLEAN, NEW r, r = Asking(s, b)
  PROVE  ObjectFits(r, m) /\ SameButCount(r, s, s.lastConsolidated)
<1>1. s \in ObjectRec
  BY DEF ObjectFits
<1>2. r = [ids |-> s.ids, leaf |-> s.leaf, lastConsolidated |-> s.lastConsolidated,
           disk |-> s.disk, awaitsReset |-> b]
  BY <1>1, OtherReset DEF Asking
<1>3. r \in ObjectRec
  BY <1>1, <1>2 DEF ObjectRec
<1>4. SameButCount(r, s, s.lastConsolidated)
  BY <1>2 DEF SameButCount
<1>5. ObjectFits(r, m)
  BY <1>2, <1>3 DEF ObjectFits
<1>. QED
  BY <1>4, <1>5

\* and neither branch.
LEMMA SameViews ==
  ASSUME NEW s, NEW r, SameButCount(r, s, s.lastConsolidated), NEW en, NEW ids, NEW U
  PROVE  /\ \A X, mem : Views(en, s, ids, X, U, mem) => Views(en, r, ids, X, U, mem)
         /\ \A mem, c : Works(en, s, ids, U, mem, c) => Works(en, r, ids, U, mem, c)
         /\ Known(en, r, ids) = Known(en, s, ids)
<1>1. /\ Way(en, r) = Way(en, s) /\ Seen(en, r, ids) = Seen(en, s, ids)
      /\ r.lastConsolidated = s.lastConsolidated
  BY DEF SameButCount, Way, Seen
<1>2. Count(en, r) = Count(en, s)
  BY <1>1 DEF Count
<1>. QED
  BY <1>1, <1>2 DEF Views, Works, Known

\* An exchange on the object o, whatever the session was opened from.
LEMMA ExchangeRemembers ==
  ASSUME BranchInv, NEW o \in Object, NEW s, ObjectFits(s, Len(entry)), NEW f,
         FileFits(f, Len(entry)), NEW own, NEW risk, NEW U \in SUBSET (1 .. Len(entry)),
         NEW mem, mem = Known(entry, s, f.ids), Views(entry, s, f.ids, risk, U, mem),
         \A t \in Task : task[t].object = o => Works(entry, s, f.ids, U, mem, task[t]),
         Pending(task, obj, entry, f.ids, U, o),
         Exchange(o, s, f, own, risk), task' = task,
         said' \ exposed' \subseteq U \cup NewIds(2)
  PROVE  MemoryInv'
<1>. DEFINE e == NewMessages(s, 2)
            r == Registered(s, 2)
            g == WithLines(f, NewIds(2))
            V == said' \ exposed'
            mem2 == Known(e, r, g.ids)
<1>1. PICK m \in Nat : m = Len(entry) /\ m + 2 <= MaxEntries
  BY EntriesKnown DEF BranchInv, Typed, Exchange
<1>2. /\ entry' = e /\ obj' = With(obj, o, r) /\ file' = g /\ cached' = o
      /\ exposed' = risk \cup Skipped(NewIds(2)) \cup (IF f.torn THEN Glued ELSE {})
  BY DEF Exchange, With
<1>3. Exchanged(s, f, m, e, r, g)
  BY <1>1 DEF Exchanged, BranchInv, Typed
<1>4. /\ ObjectsFit(obj', m + 2) /\ obj'[o] = r
      /\ \A x \in Object : x # o => obj'[x] = obj[x]
  <2>1. EntriesFit(entry) /\ ObjectFits(s, Len(entry)) /\ m = Len(entry) /\ m + 2 <= MaxEntries
        /\ ObjectsFit(obj, m) /\ FileFits(f, Len(entry))
    BY <1>1 DEF BranchInv, Typed
  <2>2. ObjectFits(r, m + 2)
    BY <2>1, ExchangeFits
  <2>3. ObjectsFit(obj, m + 2)
    <3>1. PICK two \in Nat : two = 2
      OBVIOUS
    <3>2. ObjectsFit(obj, m + two)
      BY <2>1, MoreFit
    <3>. QED
      BY <3>1, <3>2
  <2>. HIDE DEF r
  <2>4. PICK k \in Nat : k = m + 2
    OBVIOUS
  <2>5. ObjectsFit(obj, k) /\ ObjectFits(r, k) /\ obj' = With(obj, o, r)
    BY <1>2, <2>2, <2>3, <2>4
  <2>6. /\ ObjectsFit(obj', k) /\ obj'[o] = r
        /\ \A x \in Object : x # o => obj'[x] = obj[x]
    BY <2>5, ObjectSet
  <2>. QED
    BY <2>4, <2>6
<1>5. /\ NewIds(2) = {m + 1, m + 2} /\ \A n \in 0 .. m : n \in g.ids <=> n \in f.ids
      /\ f.torn \in BOOLEAN
  <2>1. EntriesFit(entry) /\ ObjectFits(s, Len(entry)) /\ m = Len(entry) /\ m + 2 <= MaxEntries
        /\ FileFits(f, Len(entry))
    BY <1>1 DEF BranchInv, Typed
  <2>2. /\ NewIds(2) = {m + 1, m + 2}
        /\ f.torn = FALSE => g.ids = f.ids \cup {m + 1, m + 2}
        /\ f.torn = TRUE => g.ids = f.ids \cup {m + 2}
    BY <2>1, ExchangeFits
  <2>3. f.torn \in BOOLEAN
    BY DEF FileFits, FileRec
  <2>4. \A n \in 0 .. m : n # m + 1 /\ n # m + 2
    OBVIOUS
  <2>. HIDE DEF g
  <2>. QED
    BY <2>2, <2>3, <2>4
<1>12. /\ EntriesFit(e) /\ Len(e) = m + 2 /\ Extends(entry, e) /\ g.ids \subseteq 1 .. Len(e)
       /\ f.ids \subseteq 1 .. Len(entry)
  <2>1. EntriesFit(entry) /\ ObjectFits(s, Len(entry)) /\ m = Len(entry) /\ m + 2 <= MaxEntries
        /\ FileFits(f, Len(entry))
    BY <1>1 DEF BranchInv, Typed
  <2>2. EntriesFit(e) /\ Len(e) = m + 2 /\ Extends(entry, e) /\ FileFits(g, m + 2)
    BY <2>1, ExchangeFits
  <2>. HIDE DEF e, g
  <2>. QED
    BY <2>1, <2>2 DEF FileFits, Fits
<1>13. /\ Seen(e, r, g.ids) = Walk(e, g.ids)[g.last]
       /\ KnownOn(f.torn, mem, mem2)
  BY <1>3, ExchangedPaths
<1>. HIDE DEF e, r, g
<1>14. mem2 = Covered(e, Walk(e, g.ids)[g.last])
  BY <1>13 DEF Known
<1>. HIDE DEF mem2
<1>6. V \subseteq U \cup {m + 1, m + 2} /\ V \cap exposed' = {} /\ risk \subseteq exposed'
  BY <1>2, <1>5
<1>7. f.torn = TRUE => V \subseteq {m + 2}
  <2>1. ASSUME f.torn = TRUE PROVE V \subseteq {m + 2}
    <3>1. 1 .. m + 1 \subseteq exposed'
      BY <1>1, <1>2, <2>1 DEF Glued
    <3>2. 1 .. Len(entry) \subseteq 1 .. m + 1 /\ m + 1 \in 1 .. m + 1
      BY <1>1
    <3>. HIDE DEF V
    <3>. QED
      BY <1>6, <3>1, <3>2
  <2>. QED
    BY <2>1
<1>8. ASSUME NEW t \in Task, task[t] # Idle
      PROVE  V \subseteq U /\ V \cap task[t].window = {}
  <2>1. t \in Busy
    BY <1>8 DEF Busy
  <2>2. Busy # {} /\ task[t].window \subseteq UNION {task[u].window : u \in Busy}
    BY <2>1
  <2>3. NewIds(2) \subseteq exposed' /\ task[t].window \subseteq exposed'
    BY <1>2, <2>2 DEF Skipped
  <2>. HIDE DEF V
  <2>. QED
    BY <1>5, <1>6, <2>3
<1>. HIDE DEF V
<1>9. /\ Fine(e, exposed', V, mem2, Walk(e, g.ids)[g.last])
      /\ Views(e, r, g.ids, exposed', V, mem2)
  <2>1. PICK X : X = exposed'
    OBVIOUS
  <2>2. /\ Exchanged(s, f, m, e, r, g) /\ Views(entry, s, f.ids, risk, U, mem)
        /\ risk \subseteq X /\ Adds(m, f.torn, U, V) /\ KnownOn(f.torn, mem, mem2)
    BY <1>3, <1>6, <1>7, <1>13, <2>1 DEF Adds
  <2>3. Fine(e, X, V, mem2, Walk(e, g.ids)[g.last]) /\ Views(e, r, g.ids, X, V, mem2)
    BY <2>2, ViewsExchanged
  <2>. QED
    BY <2>1, <2>3
<1>10. ASSUME NEW t \in Task, task[t].object = o
       PROVE  Works(e, r, g.ids, V, mem2, task[t])
  <2>1. task[t] # Idle
    BY <1>10 DEF Idle, Object, None
  <2>2. TaskFits(task[t], m)
    BY <1>1 DEF BranchInv, Typed, TasksFit
  <2>3. V \subseteq U /\ V \cap task[t].window = {} /\ U \subseteq 1 .. m
    BY <1>1, <1>8, <2>1
  <2>4. V \cap mem \subseteq mem2
    <3>1. m + 2 \notin 1 .. m
      OBVIOUS
    <3>. QED
      BY <1>5, <1>7, <1>13, <2>3, <3>1 DEF KnownOn
  <2>5. /\ Exchanged(s, f, m, e, r, g) /\ TaskFits(task[t], m)
        /\ Works(entry, s, f.ids, U, mem, task[t])
    BY <1>3, <1>10, <2>2
  <2>6. PICK c : c = task[t]
    OBVIOUS
  <2>7. /\ Exchanged(s, f, m, e, r, g) /\ TaskFits(c, m) /\ Works(entry, s, f.ids, U, mem, c)
        /\ Kept(m, U, mem, c, V, mem2)
    BY <2>3, <2>4, <2>5, <2>6 DEF Kept
  <2>8. Works(e, r, g.ids, V, mem2, c)
    BY <2>7, WorksExchanged
  <2>. QED
    BY <2>6, <2>8
<1>11. Pending(task, obj', e, g.ids, V, o)
  <2>1. CASE \A t \in Task : task[t] = Idle
    BY <2>1, NoneRunning
  <2>2. CASE ~ \A t \in Task : task[t] = Idle
    <3>1. V \subseteq U
      BY <1>8, <2>2
    <3>2. TasksFit(task, m) /\ ObjectsFit(obj, m) /\ EntriesFit(entry)
      BY <1>1 DEF BranchInv, Typed
    <3>3. ASSUME NEW t \in Task, task[t] # Idle, task[t].object # o
          PROVE  /\ obj'[task[t].object] = obj[task[t].object]
                 /\ Known(e, obj[task[t].object], g.ids)
                      = Known(entry, obj[task[t].object], f.ids)
      <4>1. PICK v : v = obj[task[t].object]
        OBVIOUS
      <4>2. task[t].object \in Object
        BY <3>2, <3>3 DEF TasksFit, TaskFits
      <4>3. v.leaf \in 0 .. Len(entry)
        BY <1>1, <3>2, <4>1, <4>2 DEF ObjectsFit, ObjectFits, Fits
      <4>4. Agree(f.ids, g.ids, Len(entry))
        BY <1>1, <1>5 DEF Agree
      <4>5. /\ Seen(e, v, g.ids) = Seen(entry, v, f.ids)
            /\ Known(e, v, g.ids) = Known(entry, v, f.ids)
        BY <1>12, <3>2, <4>3, <4>4, KnownKept
      <4>. QED
        BY <1>4, <3>3, <4>1, <4>2, <4>5
    <3>4. \A n \in 0 .. m : n \in g.ids => n \in f.ids
      BY <1>5
    <3>5. PICK objs : objs = obj'
      OBVIOUS
    <3>6. \A t \in Task : task[t] # Idle /\ task[t].object # o =>
                 /\ obj[task[t].object].disk = FALSE => objs[task[t].object].disk = FALSE
                 /\ task[t].archive = TRUE =>
                      V \cap Known(entry, obj[task[t].object], f.ids)
                        \subseteq Known(e, objs[task[t].object], g.ids)
      BY <3>3, <3>5
    <3>7. Spared(m, task, obj, objs, entry, e, f.ids, g.ids, V, o)
      BY <3>4, <3>6 DEF Spared
    <3>8. Pending(task, objs, e, g.ids, V, o)
      BY <3>1, <3>2, <3>7, PendingStill
    <3>. QED
      BY <3>5, <3>8
  <2>. QED
    BY <2>1, <2>2
<1>. QED
  <2>1. /\ entry' = e /\ file' = g /\ cached' = o /\ obj'[o] = r /\ said' \ exposed' = V
    BY <1>2, <1>4 DEF e, g, V
  <2>. QED
    BY <1>9, <1>10, <1>11, <1>14, <2>1 DEF MemoryInv, mem2

\* Each action keeps MemoryInv: the end of a turn,
LEMMA MemoryTurnEnds == BranchInv /\ MemoryInv /\ TurnEnds => MemoryInv'
<1>. SUFFICES ASSUME BranchInv, MemoryInv, TurnEnds PROVE MemoryInv'
  OBVIOUS
<1>. DEFINE s == obj[cached]
            U == said \ exposed
            mem == Known(entry, s, file.ids)
<1>1. /\ Exchange(cached, s, file, fileIsOwn, exposed) /\ task' = task
      /\ said' = said \cup NewIds(2)
      /\ cached # None /\ cached \in Object
  BY DEF TurnEnds, BranchInv, Typed
<1>2. /\ ObjectFits(s, Len(entry)) /\ FileFits(file, Len(entry))
      /\ U \in SUBSET (1 .. Len(entry))
  BY <1>1 DEF BranchInv, Typed, ObjectsFit
<1>3. /\ Views(entry, s, file.ids, exposed, U, mem)
      /\ \A t \in Task : task[t].object = cached =>
           Works(entry, s, file.ids, U, mem, task[t])
      /\ Pending(task, obj, entry, file.ids, U, cached)
  BY <1>1 DEF MemoryInv
<1>4. exposed \subseteq exposed'
  BY <1>1 DEF Exchange
<1>5. said' \ exposed' \subseteq U \cup NewIds(2)
  BY <1>1, <1>4
<1>6. mem = Known(entry, s, file.ids)
  OBVIOUS
<1>. HIDE DEF s, U, mem
<1>. QED
  BY <1>1, <1>2, <1>3, <1>5, <1>6, ExchangeRemembers

\* the question of a factory reset,
LEMMA MemoryFactoryResetAsks == BranchInv /\ MemoryInv /\ FactoryResetAsks => MemoryInv'
<1>. SUFFICES ASSUME BranchInv, MemoryInv, FactoryResetAsks PROVE MemoryInv'
  OBVIOUS
<1>. DEFINE s == [OpenedObject EXCEPT !.awaitsReset = TRUE]
            U == said \ exposed
            mem == Known(entry, OpenedObject, file.ids)
<1>1. /\ Exchange(Opened, s, OpenedFile, OwnAfterOpen, exposed) /\ task' = task
      /\ said' = said \cup NewIds(2)
  BY DEF FactoryResetAsks, Command
<1>2. /\ Opened \in Object /\ ObjectFits(OpenedObject, Len(entry))
      /\ FileFits(OpenedFile, Len(entry)) /\ OpenedFile.ids = file.ids
      /\ U \in SUBSET (1 .. Len(entry))
  BY OpenedSound DEF BranchInv, Typed
<1>3. ObjectFits(s, Len(entry)) /\ SameButCount(s, OpenedObject, OpenedObject.lastConsolidated)
  <2>1. Len(entry) \in Nat /\ s = Asking(OpenedObject, TRUE) /\ TRUE \in BOOLEAN
    BY EntriesKnown DEF BranchInv, Typed, Asking
  <2>. QED
    BY <1>2, <2>1, AskedFits, Zenon
<1>4. /\ Views(entry, OpenedObject, file.ids, exposed, U, mem)
      /\ \A t \in Task : task[t].object = Opened =>
           Works(entry, OpenedObject, file.ids, U, mem, task[t])
      /\ Pending(task, obj, entry, file.ids, U, Opened)
  BY MemoryOpened
<1>. HIDE DEF s
<1>8. mem = Known(entry, s, OpenedFile.ids)
  BY <1>2, <1>3, SameViews
<1>. HIDE DEF mem
<1>5. /\ Views(entry, s, OpenedFile.ids, exposed, U, mem)
      /\ \A t \in Task : task[t].object = Opened =>
           Works(entry, s, OpenedFile.ids, U, mem, task[t])
      /\ Pending(task, obj, entry, OpenedFile.ids, U, Opened)
  BY <1>2, <1>3, <1>4, SameViews
<1>6. exposed \subseteq exposed'
  BY <1>1 DEF Exchange
<1>7. said' \ exposed' \subseteq U \cup NewIds(2)
  BY <1>1, <1>6
<1>. HIDE DEF U
<1>. QED
  BY <1>1, <1>2, <1>3, <1>5, <1>7, <1>8, ExchangeRemembers

\* its confirmation, after which only its own exchange was said,
LEMMA MemoryFactoryResetConfirmed ==
  BranchInv /\ MemoryInv /\ FactoryResetConfirmed => MemoryInv'
<1>. SUFFICES ASSUME BranchInv, MemoryInv, FactoryResetConfirmed PROVE MemoryInv'
  OBVIOUS
<1>. DEFINE s == [obj[cached] EXCEPT !.awaitsReset = FALSE]
            v == obj[cached]
<1>1. /\ Exchange(cached, s, NoFile, FALSE, exposed) /\ task' = task
      /\ said' = NewIds(2) /\ cached # None /\ cached \in Object
  BY DEF FactoryResetConfirmed, WipedFile, BranchInv, Typed
<1>2. /\ ObjectFits(v, Len(entry)) /\ FileFits(NoFile, Len(entry)) /\ NoFile.ids = {}
      /\ EntriesFit(entry) /\ v.leaf \in 0 .. Len(entry) /\ Len(entry) \in Nat
  <2>1. EntriesFit(entry) /\ ObjectFits(v, Len(entry)) /\ Len(entry) \in Nat
    BY <1>1, EntriesKnown DEF BranchInv, Typed, ObjectsFit
  <2>2. v.leaf \in 0 .. Len(entry)
    BY <2>1 DEF ObjectFits, Fits
  <2>3. NoFile.ids = {}
    BY DEF NoFile
  <2>. QED
    BY <2>1, <2>2, <2>3, NoFileFits
<1>3. ObjectFits(s, Len(entry)) /\ SameButCount(s, v, v.lastConsolidated)
  <2>1. s = Asking(v, FALSE) /\ FALSE \in BOOLEAN
    BY DEF Asking
  <2>. QED
    BY <1>2, <2>1, AskedFits, Zenon
<1>4. /\ Views(entry, v, file.ids, exposed, said \ exposed, Known(entry, v, file.ids))
      /\ \A t \in Task : task[t].object = cached =>
           Works(entry, v, file.ids, said \ exposed, Known(entry, v, file.ids), task[t])
      /\ Pending(task, obj, entry, file.ids, said \ exposed, cached)
  BY <1>1 DEF MemoryInv
<1>. HIDE DEF v
<1>5. \A mem : Views(entry, v, {}, exposed, {}, mem)
  <2>. SUFFICES ASSUME NEW mem PROVE Views(entry, v, {}, exposed, {}, mem)
    OBVIOUS
  <2>1. Seen(entry, v, {}) = <<>>
    BY <1>2, NothingKnown DEF Seen
  <2>2. Fine(entry, exposed, {}, mem, Way(entry, v))
    BY <1>4, FineStill DEF Views
  <2>. QED
    BY <1>4, <2>1, <2>2, NoPath DEF Views
<1>6. \A t \in Task : task[t].object = cached => \A mem : Works(entry, v, {}, {}, mem, task[t])
  <2>. SUFFICES ASSUME NEW t \in Task, task[t].object = cached, NEW mem
       PROVE  Works(entry, v, {}, {}, mem, task[t])
    OBVIOUS
  <2>. QED
    BY <1>4 DEF Works
<1>7. Pending(task, obj, entry, {}, {}, cached)
  <2>1. TasksFit(task, Len(entry))
    BY DEF BranchInv, Typed
  <2>2. Spared(Len(entry), task, obj, obj, entry, entry, file.ids, {}, {}, cached)
    BY DEF Spared
  <2>. QED
    BY <1>4, <2>1, <2>2, PendingStill
<1>. HIDE DEF s
<1>. DEFINE mem == Known(entry, s, NoFile.ids)
<1>8. /\ Views(entry, s, NoFile.ids, exposed, {}, mem)
      /\ \A t \in Task : task[t].object = cached => Works(entry, s, NoFile.ids, {}, mem, task[t])
      /\ Pending(task, obj, entry, NoFile.ids, {}, cached)
  <2>1. NoFile.ids = {}
    BY <1>2
  <2>. HIDE DEF mem
  <2>. QED
    BY <1>3, <1>5, <1>6, <1>7, <2>1, SameViews
<1>9. {} \in SUBSET (1 .. Len(entry)) /\ said' \ exposed' \subseteq {} \cup NewIds(2)
  BY <1>1
<1>10. mem = Known(entry, s, NoFile.ids)
  OBVIOUS
<1>. HIDE DEF mem
<1>. QED
  BY <1>1, <1>2, <1>3, <1>8, <1>9, <1>10, ExchangeRemembers

\* a turn that raised, and a step of something else,
LEMMA MemoryUnchanged == MemoryInv /\ (TurnFails \/ UNCHANGED vars) => MemoryInv'
<1>. SUFFICES ASSUME MemoryInv, TurnFails \/ UNCHANGED vars PROVE MemoryInv'
  OBVIOUS
<1>1. /\ entry' = entry /\ file' = file /\ obj' = obj /\ cached' = cached /\ task' = task
      /\ said' = said /\ exposed' = exposed
  BY DEF TurnFails, vars
<1>. QED
  BY <1>1 DEF MemoryInv

\* /reset, after which nothing was said,
LEMMA MemoryResetCommand == BranchInv /\ MemoryInv /\ ResetCommand => MemoryInv'
<1>. SUFFICES ASSUME BranchInv, MemoryInv, ResetCommand PROVE MemoryInv'
  OBVIOUS
<1>1. /\ cached' = None /\ file' = NoFile /\ said' = {} /\ entry' = entry /\ task' = task
      /\ obj' = Collected(obj, task, None)
      /\ EntriesFit(entry) /\ Len(entry) \in Nat /\ TasksFit(task, Len(entry))
  BY EntriesKnown DEF ResetCommand, BranchInv, Typed
<1>2. file'.ids = {} /\ file'.last = 0 /\ 0 \in 0 .. Len(entry)
  BY <1>1 DEF NoFile, None
<1>3. Walk(entry', file'.ids)[file'.last] = <<>>
  BY <1>1, <1>2, NothingKnown
<1>4. said' \ exposed' = {}
  BY <1>1
<1>5. \A mem : Fine(entry', exposed', said' \ exposed', mem, Walk(entry', file'.ids)[file'.last])
  BY <1>3, <1>4, NoPath
<1>6. Pending(task, obj', entry, {}, {}, None)
  <2>1. Pending(task, obj, entry, file.ids, said \ exposed, cached)
    BY DEF MemoryInv
  <2>. SUFFICES ASSUME NEW t \in Task, task[t] # Idle
       PROVE  task[t].archive = TRUE => Alone(task, t, None)
    BY DEF Pending
  <2>2. task[t].archive = TRUE => Alone(task, t, cached)
    BY <2>1 DEF Pending
  <2>3. task[t].object # None
    BY <1>1 DEF TasksFit, TaskFits, Object, None
  <2>. QED
    BY <2>2, <2>3 DEF Alone
<1>. QED
  BY <1>1, <1>2, <1>4, <1>5, <1>6 DEF MemoryInv

\* a restart, after which the file is all there is,
LEMMA MemoryRestart == MemoryInv /\ Restart => MemoryInv'
<1>. SUFFICES ASSUME MemoryInv, Restart PROVE MemoryInv'
  OBVIOUS
<1>1. /\ entry' = entry /\ file' = file /\ said' = said
      /\ exposed' = exposed /\ ForgetObjects
  BY DEF Restart
<1>2. cached' = None /\ \A t \in Task : task'[t] = Idle
  BY <1>1 DEF ForgetObjects
<1>3. LET p == Walk(entry, file.ids)[file.last] IN
      Fine(entry, exposed, said \ exposed, Covered(entry, p), p)
  BY DEF MemoryInv
<1>4. Pending(task', obj', entry', file'.ids, said' \ exposed', cached')
  BY <1>2, NoneRunning
<1>. QED
  BY <1>1, <1>2, <1>3, <1>4 DEF MemoryInv

\* a crash within the writes,
LEMMA MemoryCrashWhileWriting == BranchInv /\ MemoryInv /\ CrashWhileWriting => MemoryInv'
<1>. SUFFICES ASSUME BranchInv, MemoryInv, CrashWhileWriting PROVE MemoryInv'
  OBVIOUS
<1>. DEFINE s == obj[cached]
            g == WithLines(file, NewIds(1))
            U == said \ exposed
            U2 == said' \ exposed'
            mem == Known(entry, s, file.ids)
            p == Walk(entry, file.ids)[file.last]
<1>1. /\ EntriesFit(entry) /\ FileFits(file, Len(entry)) /\ cached \in Object /\ cached # None
      /\ ObjectFits(s, Len(entry)) /\ said \subseteq 1 .. Len(entry) /\ file.torn \in BOOLEAN
  BY DEF CrashWhileWriting, BranchInv, Typed, ObjectsFit, FileFits, FileRec
<1>2. ForgetObjects /\ Len(entry) + 2 <= MaxEntries
  BY DEF CrashWhileWriting
<1>3. PICK k \in {0, 1} :
        LET whole == IF k = 0 THEN file ELSE WithLines(file, NewIds(1)) IN
        /\ entry' = NewMessages(obj[cached], k)
        /\ file' = [whole EXCEPT !.torn = TRUE]
        /\ said' = said \cup NewIds(k)
        /\ exposed' = exposed \cup (IF k = 1 /\ file.torn THEN Glued ELSE {})
  BY DEF CrashWhileWriting
<1>. DEFINE w == IF k = 0 THEN file ELSE g
<1>4. /\ entry' = NewMessages(s, k) /\ file' = [w EXCEPT !.torn = TRUE]
      /\ said' = said \cup NewIds(k)
      /\ exposed' = exposed \cup (IF k = 1 /\ file.torn THEN Glued ELSE {})
  BY <1>3
<1>5. FileFits(w, Len(entry'))
  BY <1>1, <1>2, <1>4, CrashWrites
<1>. HIDE DEF w
<1>6. file'.ids = w.ids /\ file'.last = w.last
  <2>1. w \in FileRec
    BY <1>5 DEF FileFits
  <2>2. file' = [exists |-> w.exists, ids |-> w.ids, last |-> w.last, torn |-> TRUE]
    BY <1>4, <2>1, OtherTorn, Zenon
  <2>. QED
    BY <2>2
<1>7. cached' = None /\ \A t \in Task : task'[t] = Idle
  BY <1>2 DEF ForgetObjects
<1>8. Pending(task', obj', entry', file'.ids, U2, cached')
  BY <1>7, NoneRunning
<1>. HIDE DEF s, g
<1>9. /\ Fine(entry, exposed, U, Covered(entry, p), p)
      /\ Fine(entry, exposed, U, mem, Seen(entry, s, file.ids))
  BY <1>1 DEF MemoryInv, Views, s
<1>10. PICK m \in Nat : m = Len(entry) /\ m + 1 <= MaxEntries
  BY <1>1, <1>2, EntriesKnown, Constants
<1>11. CASE k = 0
  <2>1. NewIds(k) = {} /\ entry' = entry
    <3>1. s.leaf \in 0 .. Len(entry)
      BY <1>1 DEF ObjectFits, Fits
    <3>. QED
      BY <1>1, <1>4, <1>11, <3>1, MessagesWritten, NewIdsAre
  <2>2. U2 = U /\ exposed' = exposed /\ w = file
    BY <1>4, <1>11, <2>1 DEF w
  <2>. HIDE DEF U, U2
  <2>3. LET q == Walk(entry', file'.ids)[file'.last] IN
        Fine(entry', exposed', U2, Covered(entry', q), q)
    BY <1>6, <1>9, <2>1, <2>2
  <2>. QED
    BY <1>7, <1>8, <2>3 DEF MemoryInv, U2
<1>12. CASE k = 1
  <2>1. NewIds(k) = {m + 1} /\ w = g
    BY <1>1, <1>10, <1>12, NewIdsAre DEF w
  <2>2. s.leaf \in 0 .. Len(entry) /\ s.leaf \in 0 .. m /\ file.ids \in SUBSET (1 .. m)
        /\ file.last \in 0 .. m
    BY <1>1, <1>10 DEF ObjectFits, FileFits, Fits
  <2>3. /\ Extends(entry, entry') /\ entry'[m + 1].kind = "message"
        /\ entry'[m + 1].covers = {}
        /\ \A ids \in SUBSET (1 .. m) :
             /\ \A leaf \in 0 .. m : Walk(entry', ids)[leaf] = Walk(entry, ids)[leaf]
             /\ Walk(entry', ids \cup {m + 1})[m + 1] = Append(Walk(entry, ids)[s.leaf], m + 1)
    <3>. DEFINE e == NewMessages(s, 1)
    <3>1. e = entry'
      BY <1>4, <1>12
    <3>2. /\ Extends(entry, e) /\ e[m + 1].kind = "message" /\ e[m + 1].covers = {}
          /\ \A ids \in SUBSET (1 .. m) :
               /\ \A leaf \in 0 .. m : Walk(e, ids)[leaf] = Walk(entry, ids)[leaf]
               /\ Walk(e, ids \cup {m + 1})[m + 1] = Append(Walk(entry, ids)[s.leaf], m + 1)
      BY <1>1, <1>10, <2>2, ExchangeAdded
    <3>. HIDE DEF e
    <3>. QED
      BY <3>1, <3>2, Zenon
  <2>4. Lines(file, g, m, 1)
    <3>1. PICK one \in 1 .. 2 : one = 1
      OBVIOUS
    <3>2. m + one <= MaxEntries /\ g = WithLines(file, NewIds(one))
      BY <1>10, <3>1 DEF g
    <3>3. Lines(file, g, m, one)
      BY <1>1, <1>10, <3>1, <3>2, LinesWritten
    <3>. QED
      BY <3>1, <3>3
  <2>5. Rising(Seen(entry, s, file.ids)) /\ Entries(Seen(entry, s, file.ids)) \subseteq 1 .. m
    <3>1. /\ Rising(Walk(entry, file.ids)[s.leaf])
          /\ Entries(Walk(entry, file.ids)[s.leaf]) \subseteq file.ids
      BY <1>1, <1>10, <2>2, PathFits
    <3>. QED
      BY <2>2, <3>1 DEF Seen
  <2>6. CASE file.torn = FALSE
    <3>. DEFINE q == Seen(entry, s, file.ids)
                q2 == Walk(entry', file'.ids)[file'.last]
    <3>1. file'.ids = file.ids \cup {m + 1} /\ file'.last = m + 1
      <4>1. g.ids = file.ids \cup m + 1 .. m + 1 /\ g.last = m + 1
        BY <2>4, <2>6 DEF Lines
      <4>2. m + 1 .. m + 1 = {m + 1}
        OBVIOUS
      <4>. QED
        BY <1>6, <2>1, <4>1, <4>2
    <3>2. q2 = Append(q, m + 1)
      BY <2>2, <2>3, <3>1 DEF Seen
    <3>. HIDE DEF q, q2
    <3>3. Newer(entry, entry', q, m + 1)
      <4>1. \A n \in 1 .. m : n < m + 1 /\ entry'[n] = entry[n]
        BY <1>10, <2>3 DEF Extends
      <4>2. Rising(q) /\ Entries(q) \subseteq 1 .. m
        BY <2>5 DEF q
      <4>. QED
        BY <4>1, <4>2 DEF Newer
    <3>4. Joined(entry, entry', q, q2, {m + 1})
      BY <2>3, <3>2, <3>3, MessageAdded
    <3>5. exposed \subseteq exposed' /\ U2 \subseteq U \cup {m + 1}
      BY <1>4, <2>1
    <3>6. Covered(entry', q2) = mem
      BY <3>4 DEF Joined, Known, q
    <3>. HIDE DEF U, U2, mem
    <3>7. PICK X, e : X = exposed' /\ e = entry'
      OBVIOUS
    <3>8. /\ Rising(q) /\ Joined(entry, e, q, q2, {m + 1}) /\ Fine(entry, exposed, U, mem, q)
          /\ exposed \subseteq X /\ U2 \subseteq U \cup {m + 1}
          /\ U2 \cap mem \subseteq mem \cup {m + 1}
      BY <1>9, <2>5, <3>4, <3>5, <3>7 DEF q
    <3>9. Fine(e, X, U2, mem, q2)
      BY <3>8, FineJoined
    <3>. QED
      BY <1>7, <1>8, <3>6, <3>7, <3>9 DEF MemoryInv, U2, q2
  <2>7. CASE file.torn = TRUE
    <3>. DEFINE q == Walk(entry, file.ids)[file.last]
    <3>1. file'.ids = file.ids /\ file'.last = file.last
      BY <1>6, <2>1, <2>4, <2>7 DEF Lines
    <3>2. Walk(entry', file'.ids)[file'.last] = q
      <4>1. PICK ids \in SUBSET (1 .. m), leaf \in 0 .. m : ids = file.ids /\ leaf = file.last
        BY <2>2
      <4>2. Walk(entry', ids)[leaf] = Walk(entry, ids)[leaf]
        BY <2>3
      <4>. QED
        BY <3>1, <4>1, <4>2
    <3>3. U2 = {}
      <4>1. 1 .. m + 1 \subseteq exposed'
        BY <1>4, <1>10, <1>12, <2>7 DEF Glued
      <4>2. 1 .. Len(entry) \subseteq 1 .. m + 1 /\ m + 1 \in 1 .. m + 1
        BY <1>10
      <4>3. said' \subseteq 1 .. m + 1
        BY <1>1, <1>4, <2>1, <4>2
      <4>. QED
        BY <4>1, <4>3
    <3>4. \A n \in Entries(q) : entry'[n] = entry[n]
      <4>1. Entries(q) \subseteq file.ids
        BY <1>1, <1>10, <2>2, PathFits
      <4>. QED
        BY <1>10, <2>2, <2>3, <4>1 DEF Extends
    <3>. HIDE DEF q, U, U2, p
    <3>5. Fine(entry, exposed, U, Covered(entry, q), q) /\ exposed \subseteq exposed'
      BY <1>4, <1>9 DEF q, p
    <3>6. PICK X, e, c : X = exposed' /\ e = entry' /\ c = Covered(entry, q)
      OBVIOUS
    <3>7. \A n \in Entries(q) : e[n] = entry[n]
      BY <3>4, <3>6
    <3>8. Fine(e, exposed, U, c, q) /\ Covered(e, q) = c
      BY <3>5, <3>6, <3>7, FineElsewhere, SameEntries
    <3>9. {} \subseteq U /\ {} \cap c \subseteq c /\ exposed \subseteq X
      BY <3>5, <3>6
    <3>10. Fine(e, X, {}, c, q)
      BY <3>8, <3>9, FineStill
    <3>. QED
      BY <1>7, <1>8, <3>2, <3>3, <3>6, <3>8, <3>10 DEF MemoryInv, U2
  <2>. QED
    BY <1>1, <2>6, <2>7
<1>. QED
  BY <1>11, <1>12

\* Consolidations that end leave the others as they were.
LEMMA PendingFewer ==
  ASSUME NEW m, NEW tasks, TasksFit(tasks, m),
         NEW tasks2, \A t \in Task : tasks2[t] = tasks[t] \/ tasks2[t] = Idle,
         NEW objs, NEW en, NEW ids, NEW U, NEW o, Pending(tasks, objs, en, ids, U, o)
  PROVE  Pending(tasks2, objs, en, ids, U, o)
<1>. SUFFICES ASSUME NEW t \in Task, tasks2[t] # Idle
     PROVE  /\ tasks2[t].archive = TRUE =>
                 /\ Alone(tasks2, t, o)
                 /\ U \subseteq Known(en, objs[tasks2[t].object], ids) \cup tasks2[t].old
            /\ tasks2[t].archive = FALSE /\ tasks2[t].object # o =>
                 objs[tasks2[t].object].disk = FALSE \/ tasks2[t].kept \notin ids
  BY Zenon DEF Pending
<1>1. tasks2[t] = tasks[t] /\ tasks[t] # Idle
  OBVIOUS
<1>2. ASSUME Alone(tasks, t, o) PROVE Alone(tasks2, t, o)
  <2>1. tasks[t].object # None
    BY <1>1 DEF TasksFit, TaskFits, Object, None
  <2>2. \A u \in Task : tasks2[u].object = tasks[u].object \/ tasks2[u].object = None
    BY DEF Idle
  <2>. QED
    BY <1>1, <1>2, <2>1, <2>2 DEF Alone
<1>. QED
  BY <1>1, <1>2 DEF Pending

\* and a consolidation that failed.
LEMMA MemoryConsolidationFails ==
  ASSUME BranchInv, MemoryInv, NEW t \in Task, ConsolidationFails(t)
  PROVE  MemoryInv'
<1>. DEFINE U == said \ exposed
            p == Walk(entry, file.ids)[file.last]
            s == obj[cached]
            mem == Known(entry, s, file.ids)
<1>2. PICK m \in Nat : /\ m = Len(entry) /\ ObjectsFit(obj, m) /\ TasksFit(task, m)
                       /\ cached \in {None} \cup Object
  BY EntriesKnown DEF BranchInv, Typed
<1>1. /\ task' = With(task, t, Idle) /\ obj' = Collected(obj, task', cached)
      /\ entry' = entry /\ file' = file /\ cached' = cached
      /\ said' = said /\ exposed' = exposed
  <2>1. [obj EXCEPT ![task[t].object] = obj[task[t].object]] = obj
    BY <1>2 DEF ObjectsFit
  <2>. QED
    BY <2>1 DEF ConsolidationFails, TaskEnds, With
<1>3. /\ TasksFit(task', m) /\ task'[t] = Idle /\ \A v \in Task : v # t => task'[v] = task[v]
  BY <1>1, <1>2, IdleFits, TaskSet
<1>4. \A o \in Object : o = cached \/ (\E v \in Task : task'[v].object = o) => obj'[o] = obj[o]
  BY <1>1, <1>2, CollectedFits
<1>5. cached # None => obj'[cached] = obj[cached]
  BY <1>2, <1>4
<1>6. /\ Fine(entry, exposed, U, Covered(entry, p), p)
      /\ cached # None => Views(entry, s, file.ids, exposed, U, mem)
      /\ cached # None => \A v \in Task : task[v].object = cached =>
                             Works(entry, s, file.ids, U, mem, task[v])
      /\ Pending(task, obj, entry, file.ids, U, cached)
  BY DEF MemoryInv
<1>7. \A v \in Task : task'[v].object = cached /\ cached # None => task'[v] = task[v]
  BY <1>3, IdleFits
<1>8. \A v \in Task : task'[v] = task[v] \/ task'[v] = Idle
  BY <1>3
<1>. HIDE DEF U
<1>9. PICK tasks : tasks = task'
  OBVIOUS
<1>10. Pending(tasks, obj, entry, file.ids, U, cached)
  BY <1>2, <1>6, <1>8, <1>9, PendingFewer
<1>11. Pending(task', obj', entry, file.ids, U, cached)
  <2>1. \A v \in Task : task'[v] # Idle => obj'[task'[v].object] = obj[task'[v].object]
    BY <1>3, <1>4 DEF TasksFit, TaskFits
  <2>. QED
    BY <1>9, <1>10, <2>1 DEF Pending
<1>. QED
  BY <1>1, <1>5, <1>6, <1>7, <1>11 DEF MemoryInv, U

-----------------------------------------------------------------------------
(* Nothing is forgotten when a consolidation begins.                       *)

\* What a fine branch does not tell is remembered.
LEMMA FineTold ==
  ASSUME NEW en, NEW p, NEW X, NEW U, NEW mem, Fine(en, X, U, mem, p), U \subseteq Id,
         U \cap X = {}
  PROVE  U \subseteq Told(en, p) \cup mem
<1>1. \A k : From(en, p, k) \subseteq Told(en, p)
  BY DEF From
<1>. QED
  BY <1>1 DEF Fine

\* One more consolidation c: of the cached object o, or archiving an object of its own.
Fresh(tasks, objs, en, ids, U, o, c) ==
  \/ c.archive = FALSE /\ c.object = o
  \/ /\ c.archive = TRUE /\ c.object # o /\ \A u \in Task : tasks[u].object # c.object
     /\ U \subseteq Known(en, objs[c.object], ids) \cup c.old

\* It leaves the others as they were.
LEMMA PendingMore ==
  ASSUME NEW tasks, NEW objs, NEW en, NEW ids, NEW U, NEW o, Pending(tasks, objs, en, ids, U, o),
         NEW t \in Task, NEW c, NEW tasks2, tasks2[t] = c,
         \A u \in Task : u # t => tasks2[u] = tasks[u], Fresh(tasks, objs, en, ids, U, o, c)
  PROVE  Pending(tasks2, objs, en, ids, U, o)
<1>. SUFFICES ASSUME NEW v \in Task, tasks2[v] # Idle
     PROVE  /\ tasks2[v].archive = TRUE =>
                 /\ Alone(tasks2, v, o)
                 /\ U \subseteq Known(en, objs[tasks2[v].object], ids) \cup tasks2[v].old
            /\ tasks2[v].archive = FALSE /\ tasks2[v].object # o =>
                 objs[tasks2[v].object].disk = FALSE \/ tasks2[v].kept \notin ids
  BY Zenon DEF Pending
<1>1. CASE v = t
  <2>1. tasks2[v] = c
    BY <1>1
  <2>2. c.archive = TRUE => Alone(tasks2, v, o)
    BY <1>1, <2>1 DEF Fresh, Alone
  <2>. QED
    BY <2>1, <2>2 DEF Fresh
<1>2. CASE v # t
  <2>1. tasks2[v] = tasks[v] /\ tasks[v] # Idle
    BY <1>2
  <2>2. /\ tasks[v].archive = TRUE =>
             /\ Alone(tasks, v, o)
             /\ U \subseteq Known(en, objs[tasks[v].object], ids) \cup tasks[v].old
        /\ tasks[v].archive = FALSE /\ tasks[v].object # o =>
             objs[tasks[v].object].disk = FALSE \/ tasks[v].kept \notin ids
    BY <2>1, Zenon DEF Pending
  <2>3. ASSUME Alone(tasks, v, o) PROVE Alone(tasks2, v, o)
    <3>1. tasks[v].object # o /\ \A u \in Task : u # v => tasks[u].object # tasks[v].object
      BY <2>3 DEF Alone
    <3>2. c.object # tasks[v].object
      BY <3>1 DEF Fresh
    <3>. QED
      BY <1>2, <2>1, <3>1, <3>2 DEF Alone
  <2>. QED
    BY <2>1, <2>2, <2>3
<1>. QED
  BY <1>1, <1>2

\* What the consolidation that a turn starts has read of its object.
HasRead(c, o, s) == c = Reading(o, s, FALSE)

\* What a consolidation of s that has just read its path can do.
LEMMA ReadingWorks ==
  ASSUME BranchInv, NEW s, ObjectFits(s, Len(entry)), s.lastConsolidated >= 0,
         NeedsCompaction(s), NEW o \in Object, NEW c, HasRead(c, o, s),
         NEW ids, NEW X, NEW U, U \subseteq Id, U \cap X = {},
         NEW mem, Views(entry, s, ids, X, U, mem)
  PROVE  /\ TaskFits(c, Len(entry)) /\ c.object = o /\ c.archive = FALSE
         /\ Works(entry, s, ids, U, mem, c)
<1>. DEFINE p == Way(entry, s)
            q == Seen(entry, s, ids)
<1>1. EntriesFit(entry)
  BY DEF BranchInv, Typed
<1>2. /\ TaskFits(c, Len(entry)) /\ c.object = o /\ c.archive = FALSE
      /\ c.kept \in Entries(p)
      /\ c.window = From(entry, p, c.kept)
      /\ c.old = Earlier(entry, p, c.kept, s.lastConsolidated)
      /\ Before(p, Count(entry, s) - Keep, c.kept)
  BY <1>1, ReadingFits DEF HasRead
<1>3. /\ Fine(entry, X, U, mem, p) /\ Fine(entry, X, U, mem, q)
      /\ Entries(q) \subseteq Entries(p)
      /\ U \cap Upto(p, s.lastConsolidated) \subseteq mem
  BY DEF Views
<1>4. Rising(p) /\ c.kept \in Nat
  <2>1. Rising(p)
    BY <1>1, CountKnown
  <2>2. c.kept \in Entries(p)
    BY <1>2
  <2>. HIDE DEF p
  <2>. QED
    BY <2>1, <2>2, EntriesOf
<1>5. \A n \in Entries(p) : n \in Nat
  BY <1>4, EntriesOf
<1>. HIDE DEF p, q
<1>6. U \subseteq Told(entry, p) \cup mem /\ U \subseteq Told(entry, q) \cup mem
  BY <1>3, FineTold
<1>7. Told(entry, q) \subseteq Told(entry, p) /\ Told(entry, p) \subseteq Entries(p)
  BY <1>3 DEF Told
<1>8. ASSUME NEW n \in U, n \notin mem PROVE n \in c.old \/ n >= c.kept
  <2>1. n \in Told(entry, p) /\ n \in Nat /\ n \notin Upto(p, s.lastConsolidated)
    BY <1>3, <1>5, <1>6, <1>7, <1>8
  <2>2. n \in Nat
    BY <2>1
  <2>3. n < c.kept \/ n >= c.kept
    <3>1. PICK i \in Nat, k \in Nat : i = n /\ k = c.kept
      BY <1>4, <2>2
    <3>2. i < k \/ i >= k
      OBVIOUS
    <3>. QED
      BY <3>1, <3>2
  <2>. QED
    BY <1>2, <2>1, <2>3 DEF Earlier
<1>9. U \subseteq From(entry, p, c.kept) \cup mem \cup c.old
  BY <1>2, <1>6, <1>8 DEF From
<1>10. U \subseteq From(entry, q, c.kept) \cup mem \cup c.old
  BY <1>2, <1>6, <1>8 DEF From
<1>11. Works(entry, s, ids, U, mem, c)
  BY <1>2, <1>9, <1>10 DEF Works, Before, p, q
<1>. QED
  BY <1>2, <1>11

\* A turn opens the session, and may start a consolidation.
LEMMA MemoryTurnBegins == BranchInv /\ MemoryInv /\ TurnBegins => MemoryInv'
<1>. SUFFICES ASSUME BranchInv, MemoryInv, TurnBegins PROVE MemoryInv'
  OBVIOUS
<1>. DEFINE s == OpenedObject
            c == Reading(Opened, OpenedObject, FALSE)
            U == said \ exposed
            mem == Known(entry, s, file.ids)
            p == Walk(entry, file.ids)[file.last]
<1>1. /\ cached' = Opened /\ obj' = With(obj, Opened, s) /\ file' = OpenedFile
      /\ entry' = entry /\ said' = said /\ exposed' = exposed
      /\ \/ NeedsCompaction(s) /\ FreeTasks # {} /\ task' = With(task, FreeTask, c)
         \/ task' = task
  BY Zenon DEF TurnBegins, With
<1>2. /\ Opened \in Object /\ Opened # None /\ ObjectFits(s, Len(entry))
      /\ s.lastConsolidated >= 0 /\ OpenedFile.ids = file.ids /\ OpenedFile.last = file.last
  BY OpenedSound
<1>3. /\ Views(entry, s, file.ids, exposed, U, mem)
      /\ \A t \in Task : task[t].object = Opened => Works(entry, s, file.ids, U, mem, task[t])
      /\ Pending(task, obj, entry, file.ids, U, Opened)
      /\ Fine(entry, exposed, U, Covered(entry, p), p)
  BY MemoryOpened DEF MemoryInv
<1>4. PICK m \in Nat : /\ m = Len(entry) /\ ObjectsFit(obj, m) /\ TasksFit(task, m)
                       /\ U \subseteq 1 .. m /\ 1 .. m \subseteq Id
  BY EntriesKnown, Constants DEF BranchInv, Typed, Id
<1>. HIDE DEF s
<1>5. obj'[Opened] = s /\ \A x \in Object : x # Opened => obj'[x] = obj[x]
  BY <1>1, <1>2, <1>4, ObjectSet
<1>6. said' \ exposed' = U /\ U \cap exposed = {}
  BY <1>1
<1>. HIDE DEF U, c
<1>7. Pending(task, obj', entry, file.ids, U, Opened)
  <2>1. \A t \in Task : task[t] # Idle /\ task[t].object # Opened =>
          obj'[task[t].object] = obj[task[t].object]
    BY <1>4, <1>5 DEF TasksFit, TaskFits
  <2>2. PICK objs : objs = obj'
    OBVIOUS
  <2>3. Spared(m, task, obj, objs, entry, entry, file.ids, file.ids, U, Opened)
    BY <2>1, <2>2 DEF Spared
  <2>4. Pending(task, objs, entry, file.ids, U, Opened)
    BY <1>3, <1>4, <2>3, PendingStill
  <2>. QED
    BY <2>2, <2>4
<1>8. CASE task' = task
  <2>. HIDE DEF p
  <2>. QED
    BY <1>1, <1>2, <1>3, <1>5, <1>6, <1>7, <1>8 DEF MemoryInv, p
<1>9. CASE NeedsCompaction(s) /\ FreeTasks # {} /\ task' = With(task, FreeTask, c)
  <2>1. /\ TaskFits(c, m) /\ c.object = Opened /\ c.archive = FALSE
        /\ Works(entry, s, file.ids, U, mem, c)
    <3>1. U \subseteq Id /\ HasRead(c, Opened, s)
      BY <1>4 DEF s, c, HasRead
    <3>. HIDE DEF mem
    <3>2. /\ ObjectFits(s, Len(entry)) /\ s.lastConsolidated >= 0 /\ NeedsCompaction(s)
          /\ Opened \in Object /\ HasRead(c, Opened, s) /\ U \subseteq Id /\ U \cap exposed = {}
          /\ Views(entry, s, file.ids, exposed, U, mem)
      BY <1>2, <1>3, <1>6, <1>9, <3>1
    <3>3. /\ TaskFits(c, Len(entry)) /\ c.object = Opened /\ c.archive = FALSE
          /\ Works(entry, s, file.ids, U, mem, c)
      BY <3>2, ReadingWorks
    <3>. QED
      BY <1>4, <3>3
  <2>2. FreeTask \in Task /\ task[FreeTask] = Idle
    BY <1>9, FreeTaskIs
  <2>3. task'[FreeTask] = c /\ \A u \in Task : u # FreeTask => task'[u] = task[u]
    <3>1. TasksFit(task, m) /\ TaskFits(c, m) /\ task' = With(task, FreeTask, c)
      BY <1>4, <1>9, <2>1
    <3>. QED
      BY <2>2, <3>1, TaskSet
  <2>4. Pending(task', obj', entry, file.ids, U, Opened)
    <3>1. PICK objs, tasks : objs = obj' /\ tasks = task'
      OBVIOUS
    <3>2. Fresh(task, objs, entry, file.ids, U, Opened, c)
      BY <2>1 DEF Fresh
    <3>3. /\ Pending(task, objs, entry, file.ids, U, Opened) /\ FreeTask \in Task
          /\ tasks[FreeTask] = c /\ \A u \in Task : u # FreeTask => tasks[u] = task[u]
      BY <1>7, <2>2, <2>3, <3>1
    <3>4. Pending(tasks, objs, entry, file.ids, U, Opened)
      BY <3>2, <3>3, PendingMore
    <3>. QED
      BY <3>1, <3>4
  <2>5. \A t \in Task : task'[t].object = Opened => Works(entry, s, file.ids, U, mem, task'[t])
    BY <1>3, <2>1, <2>2, <2>3
  <2>. HIDE DEF p
  <2>. QED
    BY <1>1, <1>2, <1>3, <1>5, <1>6, <2>4, <2>5 DEF MemoryInv, p
<1>. QED
  BY <1>1, <1>8, <1>9

\* /new has everything archived; what it cleared stays in the file.
LEMMA MemoryNewCommand == BranchInv /\ MemoryInv /\ NewCommand => MemoryInv'
<1>. SUFFICES ASSUME BranchInv, MemoryInv, NewCommand PROVE MemoryInv'
  OBVIOUS
<1>. DEFINE s == OpenedObject
            c == Reading(Temporary, s, TRUE)
            a == Cleared(s)
            b == [s EXCEPT !.lastConsolidated = 0]
            objs == With(With(obj, Opened, a), Temporary, b)
            U == said \ exposed
            mem == Known(entry, s, file.ids)
            p == Walk(entry, file.ids)[file.last]
<1>1. /\ FreeTasks # {} /\ task' = With(task, FreeTask, c)
      /\ obj' = Collected(objs, task', None) /\ exposed' = exposed
      /\ cached' = None /\ file' = OpenedFile /\ entry' = entry /\ said' = said
  BY Zenon DEF NewCommand, Command, Temporary, With
<1>2. /\ Opened \in Object /\ Opened # None /\ ObjectFits(s, Len(entry))
      /\ OpenedFile.ids = file.ids /\ OpenedFile.last = file.last
  BY OpenedSound
<1>3. /\ Views(entry, s, file.ids, exposed, U, mem)
      /\ Pending(task, obj, entry, file.ids, U, Opened)
      /\ Fine(entry, exposed, U, Covered(entry, p), p)
  BY MemoryOpened DEF MemoryInv
<1>4. PICK m \in Nat : /\ m = Len(entry) /\ TasksFit(task, m) /\ obj \in [Object -> ObjectRec]
                       /\ U \subseteq 1 .. m /\ 1 .. m \subseteq Id /\ EntriesFit(entry)
  BY EntriesKnown, Constants DEF BranchInv, Typed, Id, ObjectsFit
<1>. HIDE DEF s, p
<1>5. /\ Temporary \in Object /\ Temporary # Opened
      /\ \A t \in Task : task[t].object # Temporary
  BY <1>1, <1>2, TemporaryIs
<1>6. /\ TaskFits(c, m) /\ c.object = Temporary /\ c.archive = TRUE
      /\ c.old = Told(entry, Way(entry, s))
  BY <1>2, <1>4, <1>5, ArchiveFits
<1>7. a.disk = FALSE
  <2>1. s \in ObjectRec
    BY <1>2 DEF ObjectFits
  <2>2. a = [ids |-> {}, leaf |-> None, lastConsolidated |-> 0, disk |-> FALSE,
             awaitsReset |-> s.awaitsReset]
    <3>1. a = [s EXCEPT !.ids = {}, !.leaf = None, !.lastConsolidated = 0, !.disk = FALSE]
      BY DEF Cleared
    <3>. QED
      BY <2>1, <3>1, OtherBranch, Zenon
  <2>. QED
    BY <2>2
<1>11. Known(entry, b, file.ids) = mem
  <2>1. b.leaf = s.leaf
    BY <1>2, OtherCount DEF ObjectFits
  <2>. HIDE DEF b
  <2>. QED
    BY <2>1 DEF Known, Seen
<1>. HIDE DEF U, c, a, b
<1>8. /\ objs[Opened] = a /\ objs[Temporary] = b
      /\ \A x \in Object : x # Opened /\ x # Temporary => objs[x] = obj[x]
  BY <1>2, <1>4, <1>5 DEF With
<1>. HIDE DEF objs
<1>9. FreeTask \in Task /\ task[FreeTask] = Idle
  BY <1>1, FreeTaskIs
<1>10. /\ TasksFit(task', m) /\ task'[FreeTask] = c
       /\ \A u \in Task : u # FreeTask => task'[u] = task[u]
  <2>1. TasksFit(task, m) /\ TaskFits(c, m) /\ task' = With(task, FreeTask, c)
    BY <1>1, <1>4, <1>6
  <2>. QED
    BY <1>9, <2>1, TaskSet
<1>12. said' \ exposed' = U /\ U \cap exposed = {}
  BY <1>1 DEF U
<1>13. U \subseteq mem \cup c.old
  <2>. HIDE DEF mem
  <2>1. Fine(entry, exposed, U, mem, Way(entry, s)) /\ U \subseteq Id
    BY <1>3, <1>4 DEF Views
  <2>2. U \subseteq Told(entry, Way(entry, s)) \cup mem
    BY <1>12, <2>1, FineTold
  <2>. QED
    BY <1>6, <2>2
<1>15. /\ \A u \in Task : task[u] # Idle => obj'[task[u].object] = objs[task[u].object]
       /\ obj'[Temporary] = b
  <2>1. obj' = [o \in Object |-> IF o = None \/ \E u \in Task : task'[u].object = o
                                 THEN objs[o] ELSE FreshObject]
    BY <1>1, Zenon DEF Collected
  <2>2. \A u \in Task : task[u] # Idle => task[u].object \in Object /\ task'[u] = task[u]
    BY <1>4, <1>9, <1>10 DEF TasksFit, TaskFits
  <2>. QED
    BY <1>5, <1>6, <1>8, <1>9, <1>10, <2>1, <2>2
<1>. HIDE DEF mem
<1>16. Pending(task, obj', entry, file.ids, U, None)
  <2>. SUFFICES ASSUME NEW t \in Task, task[t] # Idle
       PROVE  /\ task[t].archive = TRUE =>
                   /\ Alone(task, t, None)
                   /\ U \subseteq Known(entry, obj'[task[t].object], file.ids) \cup task[t].old
              /\ task[t].archive = FALSE /\ task[t].object # None =>
                   obj'[task[t].object].disk = FALSE \/ task[t].kept \notin file.ids
    BY Zenon DEF Pending
  <2>1. /\ task[t].archive = TRUE =>
             /\ Alone(task, t, Opened)
             /\ U \subseteq Known(entry, obj[task[t].object], file.ids) \cup task[t].old
        /\ task[t].archive = FALSE /\ task[t].object # Opened =>
             obj[task[t].object].disk = FALSE \/ task[t].kept \notin file.ids
    BY <1>3, Zenon DEF Pending
  <2>2. task[t].object \in Object /\ task[t].object # Temporary /\ task[t].object # None
    BY <1>4, <1>5 DEF TasksFit, TaskFits, Object, None
  <2>3. task[t].object = Opened => obj'[task[t].object].disk = FALSE
    BY <1>7, <1>8, <1>15
  <2>4. task[t].object # Opened => obj'[task[t].object] = obj[task[t].object]
    BY <1>8, <1>15, <2>2
  <2>5. Alone(task, t, Opened) => Alone(task, t, None) /\ task[t].object # Opened
    BY <2>2 DEF Alone
  <2>. QED
    BY <2>1, <2>3, <2>4, <2>5
<1>17. Pending(task', obj', entry, file.ids, U, None)
  <2>1. PICK objs2, tasks : objs2 = obj' /\ tasks = task'
    OBVIOUS
  <2>2. Fresh(task, objs2, entry, file.ids, U, None, c)
    <3>1. c.object # None /\ \A u \in Task : task[u].object # c.object
      BY <1>5, <1>6 DEF Object, None
    <3>. QED
      BY <1>6, <1>11, <1>13, <1>15, <2>1, <3>1 DEF Fresh
  <2>3. /\ Pending(task, objs2, entry, file.ids, U, None) /\ FreeTask \in Task
        /\ tasks[FreeTask] = c /\ \A u \in Task : u # FreeTask => tasks[u] = task[u]
    BY <1>9, <1>10, <1>16, <2>1
  <2>4. Pending(tasks, objs2, entry, file.ids, U, None)
    BY <2>2, <2>3, PendingMore
  <2>. QED
    BY <2>1, <2>4
<1>. QED
  BY <1>1, <1>2, <1>3, <1>12, <1>17 DEF MemoryInv, p


-----------------------------------------------------------------------------
(* Nothing is forgotten when a consolidation ends.                         *)

\* Who knows ids gets to know of entry m + 1, or does not.
Grown(ids, ids2, m) == ids2 = ids \/ ids2 = ids \cup {m + 1}

\* An entry that is written elsewhere does not change a branch.
LEMMA Aside ==
  ASSUME NEW en, EntriesFit(en), NEW e, NEW x, NEW m \in Nat, m = Len(en),
         OneAdded(en, e, x, m), NEW ids \in SUBSET (1 .. m), NEW leaf \in 0 .. m,
         NEW ids2, Grown(ids, ids2, m)
  PROVE  /\ Walk(e, ids2)[leaf] = Walk(en, ids)[leaf]
         /\ \A n \in Entries(Walk(en, ids)[leaf]) : e[n] = en[n]
         /\ \A X, U, mem : Fine(en, X, U, mem, Walk(en, ids)[leaf])
                             => Fine(e, X, U, mem, Walk(e, ids2)[leaf])
         /\ Covered(e, Walk(e, ids2)[leaf]) = Covered(en, Walk(en, ids)[leaf])
<1>. DEFINE p == Walk(en, ids)[leaf]
<1>1. Walk(e, ids2)[leaf] = p
  <2>1. Walk(e, ids)[leaf] = p
    BY DEF OneAdded
  <2>2. Walk(e, ids \cup {m + 1})[leaf] = p
    BY DEF OneAdded
  <2>. QED
    BY <2>1, <2>2 DEF Grown
<1>2. \A n \in Entries(p) : e[n] = en[n]
  <2>1. Entries(p) \subseteq 1 .. m
    <3>1. Entries(p) \subseteq ids
      BY PathFits
    <3>. QED
      BY <3>1
  <2>2. \A n \in 1 .. m : e[n] = en[n]
    BY DEF OneAdded, Extends
  <2>. QED
    BY <2>1, <2>2
<1>. HIDE DEF p
<1>3. ASSUME NEW X, NEW U, NEW mem, Fine(en, X, U, mem, p)
      PROVE  Fine(e, X, U, mem, p)
  BY <1>2, <1>3, FineElsewhere
<1>4. Covered(e, p) = Covered(en, p)
  BY <1>2, SameEntries
<1>. QED
  BY <1>1, <1>2, <1>3, <1>4 DEF p

\* The entry in e changes nothing for the object v.
Beside(en, e, v, ids, ids2) ==
  /\ \A X, U, mem : Views(en, v, ids, X, U, mem) => Views(e, v, ids2, X, U, mem)
  /\ \A U, mem, c : Works(en, v, ids, U, mem, c) => Works(e, v, ids2, U, mem, c)
  /\ Known(e, v, ids2) = Known(en, v, ids)

\* An entry on another branch changes nothing for an object.
LEMMA ViewsAside ==
  ASSUME NEW en, EntriesFit(en), NEW e, NEW x, NEW m \in Nat, m = Len(en),
         OneAdded(en, e, x, m), NEW ids \in SUBSET (1 .. m),
         NEW ids2, Grown(ids, ids2, m), NEW v, ObjectFits(v, m)
  PROVE  Beside(en, e, v, ids, ids2)
<1>. DEFINE p == Way(en, v)
            q == Seen(en, v, ids)
<1>1. v.ids \in SUBSET (1 .. m) /\ v.leaf \in 0 .. m
  BY DEF ObjectFits, Fits
<1>2. Way(e, v) = p /\ Count(e, v) = Count(en, v)
  BY SameCount
<1>3. /\ \A n \in Entries(p) : e[n] = en[n]
      /\ \A X, U, mem : Fine(en, X, U, mem, p) => Fine(e, X, U, mem, p)
  <2>1. PICK known \in SUBSET (1 .. m) : known = v.ids
    BY <1>1
  <2>2. PICK leaf \in 0 .. m : leaf = v.leaf
    BY <1>1
  <2>3. Grown(known, known, m)
    BY DEF Grown
  <2>4. /\ Walk(e, known)[leaf] = Walk(en, known)[leaf]
        /\ \A n \in Entries(Walk(en, known)[leaf]) : e[n] = en[n]
        /\ \A X, U, mem : Fine(en, X, U, mem, Walk(en, known)[leaf])
                            => Fine(e, X, U, mem, Walk(e, known)[leaf])
    BY <2>3, Aside
  <2>. QED
    BY <2>1, <2>2, <2>4, Zenon DEF Way
<1>4. /\ Seen(e, v, ids2) = q
      /\ \A n \in Entries(q) : e[n] = en[n]
      /\ \A X, U, mem : Fine(en, X, U, mem, q) => Fine(e, X, U, mem, q)
  <2>1. PICK leaf \in 0 .. m : leaf = v.leaf
    BY <1>1
  <2>2. /\ Walk(e, ids2)[leaf] = Walk(en, ids)[leaf]
        /\ \A n \in Entries(Walk(en, ids)[leaf]) : e[n] = en[n]
        /\ \A X, U, mem : Fine(en, X, U, mem, Walk(en, ids)[leaf])
                            => Fine(e, X, U, mem, Walk(e, ids2)[leaf])
    BY Aside
  <2>. QED
    BY <2>1, <2>2, Zenon DEF Seen
<1>. HIDE DEF p, q
<1>5. /\ \A k : From(e, p, k) = From(en, p, k)
      /\ \A k : From(e, q, k) = From(en, q, k)
      /\ Covered(e, q) = Covered(en, q)
  <2>1. (\A n \in Entries(p) : e[n] = en[n]) /\ \A n \in Entries(q) : e[n] = en[n]
    BY <1>3, <1>4
  <2>2. \A k : From(e, p, k) = From(en, p, k)
    BY <2>1, SameEntries
  <2>3. (\A k : From(e, q, k) = From(en, q, k)) /\ Covered(e, q) = Covered(en, q)
    BY <2>1, SameEntries
  <2>. QED
    BY <2>2, <2>3
<1>6. ASSUME NEW X, NEW U, NEW mem, Views(en, v, ids, X, U, mem)
      PROVE  Views(e, v, ids2, X, U, mem)
  <2>1. /\ Fine(en, X, U, mem, p) /\ Fine(en, X, U, mem, q)
        /\ Entries(q) \subseteq Entries(p) /\ v.lastConsolidated <= Len(p)
        /\ U \cap Upto(p, v.lastConsolidated) \subseteq mem
    BY <1>6 DEF Views, p, q
  <2>2. Fine(e, X, U, mem, p) /\ Fine(e, X, U, mem, q)
    BY <1>3, <1>4, <2>1
  <2>. QED
    BY <1>2, <1>4, <2>1, <2>2 DEF Views
<1>7. ASSUME NEW U, NEW mem, NEW c, Works(en, v, ids, U, mem, c)
      PROVE  Works(e, v, ids2, U, mem, c)
  <2>1. /\ c.kept \in Entries(p)
        /\ U \subseteq From(en, p, c.kept) \cup mem \cup c.old
        /\ c.kept \in Entries(q) => U \subseteq From(en, q, c.kept) \cup mem \cup c.old
        /\ \/ From(en, p, c.kept) \cap U = {}
           \/ \A n \in Upto(p, Count(en, v) - Keep) : n < c.kept
        /\ From(en, p, c.kept) \cap U \subseteq c.window
    BY <1>7 DEF Works, p, q
  <2>2. From(e, p, c.kept) = From(en, p, c.kept) /\ From(e, q, c.kept) = From(en, q, c.kept)
    BY <1>5
  <2>. QED
    BY <1>2, <1>4, <2>1, <2>2 DEF Works
<1>8. Known(e, v, ids2) = Known(en, v, ids)
  BY <1>4, <1>5 DEF Known, q
<1>. QED
  BY <1>6, <1>7, <1>8 DEF Beside

\* What the end of c does to the sets: less may count, and of that there is a summary where
\* there was one, or where c has made one.
Gains(c, X, U, mem, X2, V, mem2) ==
  X \subseteq X2 /\ V \subseteq U /\ V \cap mem \subseteq mem2 /\ V \cap c.old \subseteq mem2

\* What counts as consolidated once c has ended was summarised.
LEMMA CountedIsRemembered ==
  ASSUME NEW en, NEW s, NEW ids, NEW U, NEW c, NEW mem, Works(en, s, ids, U, mem, c), NEW X,
         NEW X2, NEW V, NEW mem2, Gains(c, X, U, mem, X2, V, mem2),
         Rising(Way(en, s)), NEW l, l = Count(en, s) - Keep
  PROVE  V \cap Upto(Way(en, s), l) \subseteq mem2
<1>. DEFINE p == Way(en, s)
<1>1. /\ U \subseteq From(en, p, c.kept) \cup mem \cup c.old
      /\ \/ From(en, p, c.kept) \cap U = {}
         \/ \A n \in Upto(p, l) : n < c.kept
      /\ c.kept \in Entries(p)
  BY DEF Works
<1>2. V \subseteq U /\ V \cap (mem \cup c.old) \subseteq mem2
  BY DEF Gains
<1>3. \A n \in Entries(p) : n \in Nat
  BY EntriesOf
<1>. HIDE DEF p
<1>4. \A n \in Nat, k \in Nat : n < k => ~(n >= k)
  OBVIOUS
<1>5. \A n \in From(en, p, c.kept) : n \in Entries(p) /\ n >= c.kept
  BY DEF From, Told
<1>6. (\A n \in Upto(p, l) : n < c.kept) => From(en, p, c.kept) \cap Upto(p, l) = {}
  BY <1>1, <1>3, <1>4, <1>5
<1>7. V \cap Upto(p, l) \subseteq mem2
  BY <1>1, <1>2, <1>6
<1>. QED
  BY <1>7 DEF p

\* c ends without an entry.
LEMMA ViewsRecounted ==
  ASSUME NEW en, EntriesFit(en), NEW s, ObjectFits(s, Len(en)), NEW l, l = Count(en, s) - Keep,
         NEW r, SameButCount(r, s, l), NEW ids, NEW X, NEW U, NEW mem,
         Views(en, s, ids, X, U, mem), NEW c, Works(en, s, ids, U, mem, c),
         NEW X2, NEW V, Gains(c, X, U, mem, X2, V, mem)
  PROVE  /\ Views(en, r, ids, X2, V, mem)
         /\ \A d : Works(en, s, ids, U, mem, d) => Works(en, r, ids, V, mem, d)
         /\ Known(en, r, ids) = Known(en, s, ids)
<1>1. /\ Count(en, s) \in Nat /\ Count(en, s) <= Len(Way(en, s)) /\ Rising(Way(en, s))
  BY CountKnown
<1>2. /\ Way(en, r) = Way(en, s) /\ Seen(en, r, ids) = Seen(en, s, ids)
      /\ r.lastConsolidated = l
  BY DEF SameButCount, Way, Seen
<1>3. Count(en, r) = Count(en, s)
  BY <1>2 DEF Count
<1>4. l <= Len(Way(en, s))
  <2>1. Len(Way(en, s)) \in Nat
    BY <1>1, EntriesOf
  <2>. QED
    BY <1>1, <2>1, Constants
<1>5. V \cap Upto(Way(en, s), l) \subseteq mem
  BY <1>1, CountedIsRemembered
<1>6. X \subseteq X2 /\ V \subseteq U /\ V \cap mem \subseteq mem
  BY DEF Gains
<1>7. /\ Fine(en, X2, V, mem, Way(en, s)) /\ Fine(en, X2, V, mem, Seen(en, s, ids))
  BY <1>6, FineStill DEF Views
<1>8. Views(en, r, ids, X2, V, mem)
  BY <1>2, <1>4, <1>5, <1>7 DEF Views
<1>9. ASSUME NEW d, Works(en, s, ids, U, mem, d) PROVE Works(en, r, ids, V, mem, d)
  <2>1. V \in SUBSET U
    BY <1>6
  <2>2. Works(en, s, ids, V, mem, d)
    BY <1>6, <1>9, <2>1, WorksStill
  <2>. QED
    BY <1>2, <1>3, <2>2 DEF Works
<1>10. Known(en, r, ids) = Known(en, s, ids)
  BY <1>2 DEF Known
<1>. QED
  BY <1>8, <1>9, <1>10

\* The summary x that c made of s becomes entry m + 1.
SummaryWritten(en, e, x, m, s, c) ==
  /\ EntriesFit(en) /\ m \in Nat /\ m = Len(en) /\ OneAdded(en, e, x, m)
  /\ x.parent = s.leaf /\ x.kind = "compaction" /\ x.kept = c.kept /\ x.covers = c.old
  /\ ObjectFits(s, m) /\ TaskFits(c, m)

\* The path p with the entry m + 1 at its end.
OneLonger(p, q, m) ==
  /\ Rising(p) /\ Rising(q) /\ Entries(p) \subseteq 1 .. m /\ Entries(q) = Entries(p) \cup {m + 1}
  /\ Len(p) <= Len(q) /\ \A i \in 1 .. Len(p) : q[i] = p[i]

\* Where a context with the summary of c for its last one starts.
StartWith(c, m) == IF c.kept = None THEN m + 1 ELSE c.kept

\* The path of an object, in memory or in the file, after its summary.
LEMMA PathSummed ==
  ASSUME NEW en, NEW e, NEW x, NEW m, NEW s, NEW c, SummaryWritten(en, e, x, m, s, c),
         NEW ids \in SUBSET (1 .. m), NEW p, p = Walk(en, ids)[s.leaf],
         NEW q, q = Walk(e, ids \cup {m + 1})[m + 1]
  PROVE  /\ OneLonger(p, q, m)
         /\ c.kept \in {None} \cup Entries(p) => Summed(en, e, p, q, StartWith(c, m))
         /\ Covered(e, q) = Covered(en, p) \cup c.old
<1>1. /\ EntriesFit(en) /\ m \in Nat /\ m = Len(en) /\ OneAdded(en, e, x, m)
      /\ x.parent = s.leaf /\ x.kind = "compaction" /\ x.kept = c.kept /\ x.covers = c.old
      /\ ObjectFits(s, m)
  BY DEF SummaryWritten
<1>2. s.leaf \in 0 .. Len(en) /\ ids \subseteq 1 .. Len(en)
  BY <1>1 DEF ObjectFits, Fits
<1>3. Rising(p) /\ Entries(p) \subseteq 1 .. m
  <2>1. Rising(Walk(en, ids)[s.leaf]) /\ Entries(Walk(en, ids)[s.leaf]) \subseteq ids
    BY <1>1, <1>2, PathFits
  <2>. QED
    BY <2>1
<1>4. q = Append(p, m + 1) /\ e[m + 1] = x
  <2>1. Walk(e, ids \cup {m + 1})[m + 1] = Append(Walk(en, ids)[x.parent], m + 1)
    BY <1>1 DEF OneAdded
  <2>2. e[m + 1] = x
    BY <1>1 DEF OneAdded
  <2>. QED
    BY <1>1, <2>1, <2>2
<1>5. \A n \in Entries(p) : n < m + 1
  BY <1>1, <1>3
<1>6. m + 1 \in Nat \ {0}
  BY <1>1
<1>7. OneLonger(p, q, m)
  <2>1. /\ Rising(q) /\ Entries(q) = Entries(p) \cup {m + 1} /\ Len(q) = Len(p) + 1
        /\ \A i \in 1 .. Len(p) : q[i] = p[i]
    <3>1. PICK k \in Nat \ {0} : k = m + 1
      BY <1>6
    <3>2. /\ Rising(Append(p, k)) /\ Entries(Append(p, k)) = Entries(p) \cup {k}
          /\ Len(Append(p, k)) = Len(p) + 1
          /\ \A i \in 1 .. Len(p) : Append(p, k)[i] = p[i]
      BY <1>3, <1>5, <3>1, OneMore
    <3>. QED
      BY <1>4, <3>1, <3>2
  <2>2. Len(p) \in Nat
    BY <1>3, EntriesOf
  <2>3. Len(p) <= Len(q)
    BY <2>1, <2>2
  <2>. QED
    BY <1>3, <2>1, <2>3 DEF OneLonger
<1>8. \A n \in 1 .. m : e[n] = en[n]
  BY <1>1 DEF OneAdded, Extends
<1>9. ASSUME c.kept \in {None} \cup Entries(p)
      PROVE  Summed(en, e, p, q, StartWith(c, m))
  <2>2. PICK k \in Nat \ {0} : k = m + 1
    BY <1>6
  <2>3. Newer(en, e, p, k)
    BY <1>3, <1>5, <1>8, <2>2 DEF Newer
  <2>4. e[k].kind = "compaction" /\ e[k].kept = c.kept /\ e[k].kept \in {None} \cup Entries(p)
    BY <1>1, <1>4, <1>9, <2>2
  <2>5. Summed(en, e, p, Append(p, k), IF e[k].kept = None THEN k ELSE e[k].kept)
    BY <2>3, <2>4, SummaryAdded
  <2>. QED
    BY <1>4, <2>2, <2>4, <2>5 DEF StartWith
<1>10. Covered(e, q) = Covered(en, p) \cup c.old
  <2>1. \A n \in Entries(p) : e[n].covers = en[n].covers
    BY <1>3, <1>8
  <2>2. e[m + 1].covers = c.old /\ Entries(q) = Entries(p) \cup {m + 1}
    BY <1>1, <1>4, <1>7 DEF OneLonger
  <2>3. \A z : z \in Covered(e, q) <=> \E n \in Entries(q) : z \in e[n].covers
    BY DEF Covered
  <2>4. \A z : z \in Covered(en, p) <=> \E n \in Entries(p) : z \in en[n].covers
    BY DEF Covered
  <2>5. \A z : z \in Covered(e, q) <=> z \in Covered(en, p) \cup c.old
    BY <2>1, <2>2, <2>3, <2>4
  <2>. QED
    BY <2>5
<1>. QED
  BY <1>7, <1>9, <1>10

\* What the file may miss of the branch is exposed.
Misses(q, kept, torn, X, V) ==
  /\ kept \notin {None} \cup Entries(q) => Id \subseteq X /\ V = {}
  /\ torn = TRUE => V = {}

\* The object s after its summary.
Longer(s, u, m) == u.ids = s.ids \cup {m + 1} /\ u.leaf = m + 1

\* What the file has for it: the summary too, or nothing if its line was glued to a torn one.
SeenSummed(e, f, q, q2, g, mem, mem2, m, c) ==
  /\ f.torn \in BOOLEAN
  /\ f.torn = FALSE => /\ g.ids = f.ids \cup {m + 1} /\ g.last = m + 1
                       /\ OneLonger(q, q2, m) /\ mem2 = mem \cup c.old
                       /\ c.kept \in {None} \cup Entries(q) =>
                            Summed(entry, e, q, q2, StartWith(c, m))
  /\ f.torn = TRUE => g.ids = f.ids /\ g.last = f.last /\ q2 = <<>>

\* Both paths after a summary whose line is written to the file f.
LEMMA SummedPaths ==
  ASSUME NEW e, NEW x, NEW m, NEW s, NEW c, SummaryWritten(entry, e, x, m, s, c),
         NEW u, Longer(s, u, m), NEW f, FileFits(f, m), NEW g, Lines(f, g, m, 1)
  PROVE  /\ OneLonger(Way(entry, s), Way(e, u), m)
         /\ c.kept \in {None} \cup Entries(Way(entry, s)) =>
              Summed(entry, e, Way(entry, s), Way(e, u), StartWith(c, m))
         /\ SeenSummed(e, f, Seen(entry, s, f.ids), Seen(e, u, g.ids), g,
                       Known(entry, s, f.ids), Known(e, u, g.ids), m, c)
<1>. DEFINE p == Way(entry, s)
            q == Seen(entry, s, f.ids)
            p2 == Way(e, u)
            q2 == Seen(e, u, g.ids)
<1>1. /\ m \in Nat /\ OneAdded(entry, e, x, m) /\ ObjectFits(s, m)
      /\ u.ids = s.ids \cup {m + 1} /\ u.leaf = m + 1
  BY DEF SummaryWritten, Longer
<1>2. /\ s.ids \in SUBSET (1 .. m) /\ f.ids \in SUBSET (1 .. m) /\ f.torn \in BOOLEAN
  BY <1>1 DEF ObjectFits, FileFits, FileRec, Fits
<1>3. OneLonger(p, p2, m) /\ (c.kept \in {None} \cup Entries(p) =>
                                 Summed(entry, e, p, p2, StartWith(c, m)))
  <2>1. PICK ids \in SUBSET (1 .. m) : ids = s.ids
    BY <1>2
  <2>2. p = Walk(entry, ids)[s.leaf] /\ p2 = Walk(e, ids \cup {m + 1})[m + 1]
    BY <1>1, <2>1 DEF Way
  <2>. HIDE DEF p, p2
  <2>. QED
    BY <2>2, PathSummed
<1>4. ASSUME f.torn = FALSE
      PROVE  /\ g.ids = f.ids \cup {m + 1} /\ g.last = m + 1
             /\ OneLonger(q, q2, m)
             /\ Known(e, u, g.ids) = Known(entry, s, f.ids) \cup c.old
             /\ c.kept \in {None} \cup Entries(q) => Summed(entry, e, q, q2, StartWith(c, m))
  <2>1. g.ids = f.ids \cup {m + 1} /\ g.last = m + 1
    <3>1. g.ids = f.ids \cup m + 1 .. m + 1 /\ g.last = m + 1
      BY <1>4 DEF Lines
    <3>2. m + 1 .. m + 1 = {m + 1}
      BY <1>1
    <3>. QED
      BY <3>1, <3>2
  <2>2. PICK ids \in SUBSET (1 .. m) : ids = f.ids
    BY <1>2
  <2>3. q = Walk(entry, ids)[s.leaf] /\ q2 = Walk(e, ids \cup {m + 1})[m + 1]
    BY <1>1, <2>1, <2>2 DEF Seen
  <2>4. Known(e, u, g.ids) = Covered(e, q2) /\ Known(entry, s, f.ids) = Covered(entry, q)
    BY DEF Known
  <2>. HIDE DEF q, q2
  <2>. QED
    BY <2>1, <2>3, <2>4, PathSummed
<1>5. ASSUME f.torn = TRUE PROVE g.ids = f.ids /\ g.last = f.last /\ q2 = <<>>
  <2>1. g.ids = f.ids /\ g.last = f.last
    BY <1>5 DEF Lines
  <2>2. Walk(e, f.ids)[m + 1] = <<>>
    BY <1>1, <1>2 DEF OneAdded
  <2>. QED
    BY <1>1, <2>1, <2>2 DEF Seen
<1>. QED
  BY <1>2, <1>3, <1>4, <1>5 DEF SeenSummed

\* What is known once the line of the summary is in the file f.
LEMMA SummaryGains ==
  ASSUME NEW e, NEW f, NEW q, NEW q2, NEW g, NEW mem, NEW mem2, NEW m, NEW c,
         SeenSummed(e, f, q, q2, g, mem, mem2, m, c), NEW X2, NEW V,
         Misses(q, c.kept, f.torn, X2, V), NEW X, X \subseteq X2, NEW U, V \subseteq U
  PROVE  Gains(c, X, U, mem, X2, V, mem2)
BY DEF SeenSummed, Misses, Gains

\* A context that starts at the first kept entry of c tells what counts, with the summaries.
Tells(q, c, mem, V) ==
  /\ c.kept \in Entries(q) => V \subseteq From(entry, q, c.kept) \cup mem \cup c.old
  /\ c.kept = None => V \subseteq mem \cup c.old

\* The branch that the file has for the object is fine with the summary on it.
LEMMA SeenFine ==
  ASSUME NEW e, NEW f, NEW q, NEW q2, NEW g, NEW mem, NEW mem2, NEW m, NEW c,
         SeenSummed(e, f, q, q2, g, mem, mem2, m, c), NEW X2, NEW V,
         Misses(q, c.kept, f.torn, X2, V), Tells(q, c, mem, V)
  PROVE  Fine(e, X2, V, mem2, q2)
<1>1. CASE c.kept \notin {None} \cup Entries(q)
  BY <1>1 DEF Misses, Fine
<1>2. CASE c.kept \in {None} \cup Entries(q) /\ f.torn = FALSE
  <2>1. Summed(entry, e, q, q2, StartWith(c, m)) /\ mem2 = mem \cup c.old
    BY <1>2 DEF SeenSummed
  <2>2. V \subseteq From(entry, q, StartWith(c, m)) \cup mem2
    BY <1>2, <2>1 DEF StartWith, Tells
  <2>. QED
    BY <2>1, <2>2, FineSummed
<1>3. CASE f.torn = TRUE
  <2>1. V = {} /\ q2 = <<>>
    BY <1>3 DEF SeenSummed, Misses
  <2>2. Fine(e, X2, {}, mem2, <<>>)
    BY NoPath
  <2>. QED
    BY <2>1, <2>2
<1>. QED
  BY <1>1, <1>2, <1>3 DEF SeenSummed


\* The object counts as before the summary or as after it, and less is at stake.
Counted(s, u, X, U, X2, V) ==
  /\ u.lastConsolidated \in {Count(entry, s) - Keep, s.lastConsolidated}
  /\ X \subseteq X2 /\ V \subseteq U

\* The other consolidations of s go on with u.
GoOn(e, m, s, ids, U, mem, u, ids2, V, mem2) ==
  \A d : TaskFits(d, m) /\ Works(entry, s, ids, U, mem, d) => Works(e, u, ids2, V, mem2, d)

\* c, of the cached object, ends with an entry: its branch stays fine.
LEMMA ViewsSummed ==
  ASSUME NEW e, NEW x, NEW m, NEW s, NEW c, SummaryWritten(entry, e, x, m, s, c),
         c.kept # None, NEW u, Longer(s, u, m),
         NEW f, FileFits(f, m), NEW g, Lines(f, g, m, 1),
         NEW X, NEW U, NEW mem, mem = Known(entry, s, f.ids),
         Views(entry, s, f.ids, X, U, mem), Works(entry, s, f.ids, U, mem, c),
         NEW X2, NEW V, Counted(s, u, X, U, X2, V), NEW mem2, mem2 = Known(e, u, g.ids),
         Misses(Seen(entry, s, f.ids), c.kept, f.torn, X2, V)
  PROVE  /\ Views(e, u, g.ids, X2, V, mem2)
         /\ GoOn(e, m, s, f.ids, U, mem, u, g.ids, V, mem2)
<1>. DEFINE p == Way(entry, s)
            q == Seen(entry, s, f.ids)
            p2 == Way(e, u)
            q2 == Seen(e, u, g.ids)
            l == Count(entry, s) - Keep
            k == u.lastConsolidated
<1>0. X \subseteq X2 /\ V \subseteq U /\ (k = l \/ k = s.lastConsolidated)
  BY DEF Counted
<1>1. /\ EntriesFit(entry) /\ m \in Nat /\ m = Len(entry) /\ OneAdded(entry, e, x, m)
      /\ x.parent = s.leaf /\ x.kind = "compaction" /\ ObjectFits(s, m) /\ TaskFits(c, m)
      /\ u.ids = s.ids \cup {m + 1} /\ u.leaf = m + 1 /\ f.torn \in BOOLEAN
  BY DEF SummaryWritten, Longer, FileFits, FileRec
<1>2. Count(e, u) = Count(entry, s)
  BY <1>1, SummaryCount
<1>3. /\ OneLonger(p, p2, m)
      /\ c.kept \in {None} \cup Entries(p) => Summed(entry, e, p, p2, StartWith(c, m))
      /\ SeenSummed(e, f, q, q2, g, mem, mem2, m, c)
  BY SummedPaths
<1>4. /\ c.kept \in Entries(p) /\ U \subseteq From(entry, p, c.kept) \cup mem \cup c.old
      /\ c.kept \in Entries(q) => U \subseteq From(entry, q, c.kept) \cup mem \cup c.old
      /\ Entries(q) \subseteq Entries(p) /\ Misses(q, c.kept, f.torn, X2, V)
      /\ s.lastConsolidated <= Len(p) /\ U \cap Upto(p, s.lastConsolidated) \subseteq mem
  BY DEF Works, Views
<1>5. Gains(c, X, U, mem, X2, V, mem2)
  <2>. HIDE DEF p, q, p2, q2
  <2>. QED
    BY <1>0, <1>3, <1>4, SummaryGains
<1>6. V \subseteq U /\ V \cap mem \subseteq mem2 /\ V \cap c.old \subseteq mem2
  BY <1>5 DEF Gains
<1>7. V \cap Upto(p, k) \subseteq mem2 /\ k <= Len(p) /\ k \in Int
  <2>1. Rising(p) /\ Count(entry, s) <= Len(p) /\ Count(entry, s) \in Nat
    BY <1>1, CountKnown
  <2>2. Len(p) \in Nat /\ s.lastConsolidated \in Int
    BY <1>1, <2>1, EntriesOf DEF ObjectFits, ObjectRec
  <2>3. l <= Len(p) /\ l \in Int
    BY <2>1, <2>2, Constants
  <2>4. V \cap Upto(p, l) \subseteq mem2
    BY <1>5, <2>1, CountedIsRemembered
  <2>5. V \cap Upto(p, s.lastConsolidated) \subseteq mem2
    BY <1>4, <1>6
  <2>. HIDE DEF p, l, k
  <2>. QED
    BY <1>0, <1>4, <2>2, <2>3, <2>4, <2>5
<1>. HIDE DEF p, q, p2, q2, l, k
<1>8. Summed(entry, e, p, p2, c.kept)
  BY <1>3, <1>4 DEF StartWith
<1>9. Fine(e, X2, V, mem2, p2)
  <2>1. V \subseteq From(entry, p, c.kept) \cup mem2
    BY <1>4, <1>6
  <2>. QED
    BY <1>8, <2>1, FineSummed
<1>10. Fine(e, X2, V, mem2, q2)
  <2>1. Tells(q, c, mem, V)
    BY <1>4, <1>6 DEF Tells
  <2>. QED
    BY <1>3, <1>4, <2>1, SeenFine
<1>11. Entries(q2) \subseteq Entries(p2)
  <2>1. CASE f.torn = FALSE
    BY <1>3, <1>4, <2>1 DEF OneLonger, SeenSummed
  <2>2. CASE f.torn = TRUE
    BY <1>3, <2>2, NoPath DEF SeenSummed
  <2>. QED
    BY <1>1, <2>1, <2>2
<1>12. \A j \in Int : j <= Len(p) => Upto(p2, j) = Upto(p, j) /\ j <= Len(p2)
  <2>1. /\ Rising(p) /\ Rising(p2) /\ Len(p) <= Len(p2)
        /\ \A i \in 1 .. Len(p) : p2[i] = p[i]
    BY <1>3 DEF OneLonger
  <2>2. \A j \in Int : j <= Len(p) => Upto(p2, j) = Upto(p, j)
    BY <2>1, UptoSame
  <2>3. Len(p) \in Nat /\ Len(p2) \in Nat
    BY <2>1, EntriesOf
  <2>. QED
    BY <2>1, <2>2, <2>3
<1>13. Views(e, u, g.ids, X2, V, mem2)
  BY <1>7, <1>9, <1>10, <1>11, <1>12 DEF Views, p2, q2, k
<1>14. Upto(p2, l) = Upto(p, l)
  <2>1. l <= Len(p) /\ l \in Int
    <3>1. Rising(p) /\ Count(entry, s) <= Len(p) /\ Count(entry, s) \in Nat
      BY <1>1, CountKnown DEF p
    <3>2. Len(p) \in Nat
      BY <3>1, EntriesOf
    <3>. QED
      BY <3>1, <3>2, Constants DEF l
  <2>. QED
    BY <1>12, <2>1
<1>15. ASSUME NEW d, TaskFits(d, m), Works(entry, s, f.ids, U, mem, d)
       PROVE  Works(e, u, g.ids, V, mem2, d)
  <2>1. /\ d.kept \in Entries(p) /\ U \subseteq From(entry, p, d.kept) \cup mem \cup d.old
        /\ d.kept \in Entries(q) => U \subseteq From(entry, q, d.kept) \cup mem \cup d.old
        /\ \/ From(entry, p, d.kept) \cap U = {}
           \/ \A n \in Upto(p, l) : n < d.kept
        /\ From(entry, p, d.kept) \cap U \subseteq d.window
    BY <1>15 DEF Works, p, q, l
  <2>2. From(e, p2, d.kept) = From(entry, p, d.kept) /\ d.kept \in Entries(p2)
    BY <1>8, <2>1 DEF Summed
  <2>3. d.kept # m + 1
    <3>1. d.kept \in 0 .. MaxEntries /\ d.kept <= m
      BY <1>15 DEF TaskFits, TaskRec
    <3>. QED
      BY <1>1, <3>1
  <2>4. ASSUME d.kept \in Entries(q2)
        PROVE  V \subseteq From(e, q2, d.kept) \cup mem2 \cup d.old
    <3>1. CASE V = {}
      BY <3>1
    <3>2. CASE V # {}
      <4>1. f.torn = FALSE /\ c.kept \in {None} \cup Entries(q)
        BY <1>1, <1>4, <3>2 DEF Misses
      <4>2. d.kept \in Entries(q)
        BY <1>3, <2>3, <2>4, <4>1 DEF OneLonger, SeenSummed
      <4>3. Summed(entry, e, q, q2, StartWith(c, m))
        BY <1>3, <4>1 DEF SeenSummed
      <4>4. From(e, q2, d.kept) = From(entry, q, d.kept)
        BY <4>3 DEF Summed
      <4>. QED
        BY <1>6, <2>1, <4>2, <4>4
    <3>. QED
      BY <3>1, <3>2
  <2>5. Count(e, u) - Keep = l
    BY <1>2 DEF l
  <2>6. \/ From(e, p2, d.kept) \cap V = {}
        \/ \A n \in Upto(p2, Count(e, u) - Keep) : n < d.kept
    BY <1>6, <1>14, <2>1, <2>2, <2>5
  <2>7. V \subseteq From(e, p2, d.kept) \cup mem2 \cup d.old
        /\ From(e, p2, d.kept) \cap V \subseteq d.window
    BY <1>6, <2>1, <2>2
  <2>. QED
    BY <2>2, <2>4, <2>6, <2>7 DEF Works, p2, q2
<1>. QED
  BY <1>13, <1>15 DEF GoOn

\* A summary that c writes for its object s, and what it costs.
LEMMA CompactsIs ==
  ASSUME BranchInv, NEW t \in Task, t \in Busy, NEW c, c = task[t], NEW s, s = obj[c.object],
         Compacts(c, s), said' = said, NEW m, m = Len(entry), NEW x, x = Summary(s, c),
         NEW V, V = said' \ exposed'
  PROVE  /\ SummaryWritten(entry, entry', x, m, s, c)
         /\ FileFits(file, m) /\ s.disk \in BOOLEAN /\ c.object \in Object
         /\ s.disk = FALSE => file' = file
         /\ s.disk = TRUE => /\ Lines(file, file', m, 1)
                             /\ Misses(Seen(entry, s, file.ids), c.kept, file.torn, exposed', V)
         /\ exposed \subseteq exposed' /\ V \subseteq said \ exposed
<1>1. /\ EntriesFit(entry) /\ m \in Nat /\ FileFits(file, m)
      /\ ObjectsFit(obj, m) /\ TasksFit(task, m) /\ said \subseteq 1 .. m
  BY EntriesKnown DEF BranchInv, Typed
<1>2. /\ TaskFits(c, m) /\ c.object \in Object /\ ObjectFits(s, m)
  BY <1>1 DEF Busy, TasksFit, TaskFits, ObjectsFit
<1>3. s.disk \in BOOLEAN
  BY <1>2 DEF ObjectFits, ObjectRec
<1>. DEFINE g == WithLines(file, NewIds(1))
<1>4. /\ m < MaxEntries /\ entry' = Append(entry, x)
      /\ file' = IF s.disk THEN g ELSE file
      /\ exposed' = exposed \cup Misplaced(c, s)
  BY DEF Compacts
<1>5. /\ OneAdded(entry, entry', x, m)
      /\ x.parent = s.leaf /\ x.kind = "compaction" /\ x.kept = c.kept /\ x.covers = c.old
      /\ Lines(file, g, m, 1)
  <2>1. PICK k, u : k \in Int /\ u = Recounted(Registered(s, 1), k)
    BY 0 \in Int
  <2>. HIDE DEF g
  <2>2. /\ OneAdded(entry, Append(entry, x), x, m)
        /\ x.parent = s.leaf /\ x.kind = "compaction" /\ x.kept = c.kept /\ x.covers = c.old
        /\ Lines(file, WithLines(file, NewIds(1)), m, 1)
    BY <1>1, <1>2, <1>4, <2>1, SummaryFits
  <2>. QED
    BY <1>4, <2>2 DEF g
<1>6. SummaryWritten(entry, entry', x, m, s, c)
  BY <1>1, <1>2, <1>5 DEF SummaryWritten
<1>7. exposed \subseteq exposed' /\ V \subseteq said \ exposed
  BY <1>4
<1>8. ASSUME s.disk = TRUE
      PROVE  Misses(Seen(entry, s, file.ids), c.kept, file.torn, exposed', V)
  <2>. DEFINE q == Seen(entry, s, file.ids)
  <2>1. PathTo(file.ids, s.leaf) = q
    BY PathIsWalk DEF Seen
  <2>2. 1 .. m \subseteq Id /\ 1 .. m \subseteq Glued
    <3>1. m \in Nat /\ MaxEntries \in Nat /\ m < MaxEntries
      BY <1>1, <1>4, Constants
    <3>. QED
      BY <3>1 DEF Id, Glued
  <2>3. Id \subseteq exposed' => V = {}
    BY <1>1, <2>2
  <2>4. Glued \subseteq exposed' => V = {}
    BY <1>1, <2>2
  <2>. HIDE DEF q
  <2>5. c.kept \notin {None} \cup Entries(q) => Misplaced(c, s) = Id
    BY <1>8, <2>1 DEF Misplaced
  <2>6. file.torn = TRUE => Misplaced(c, s) = Id \/ Misplaced(c, s) = Glued
    BY <1>8, <2>1 DEF Misplaced
  <2>7. c.kept \notin {None} \cup Entries(q) => Id \subseteq exposed' /\ V = {}
    BY <1>4, <2>3, <2>5
  <2>8. file.torn = TRUE => V = {}
    BY <1>4, <2>3, <2>4, <2>6
  <2>. QED
    BY <2>7, <2>8 DEF Misses, q
<1>. QED
  BY <1>1, <1>2, <1>3, <1>4, <1>5, <1>6, <1>7, <1>8

\* Who the file belongs to gets to know of the entry, or not.
LEMMA SummaryInFile ==
  ASSUME NEW m \in Nat, FileFits(file, m), NEW b \in BOOLEAN, b = FALSE => file' = file,
         b = TRUE => Lines(file, file', m, 1)
  PROVE  /\ Grown(file.ids, file'.ids, m)
         /\ b = FALSE \/ file.torn = TRUE => file'.ids = file.ids /\ file'.last = file.last
         /\ file.ids \in SUBSET (1 .. m) /\ file.last \in 0 .. m /\ file.torn \in BOOLEAN
<1>1. file.ids \in SUBSET (1 .. m) /\ file.last \in 0 .. m /\ file.torn \in BOOLEAN
  BY DEF FileFits, FileRec, Fits
<1>2. m + 1 .. m + 1 = {m + 1}
  OBVIOUS
<1>3. b = TRUE /\ file.torn = TRUE => file'.ids = file.ids /\ file'.last = file.last
  BY DEF Lines
<1>4. b = TRUE /\ file.torn = FALSE => file'.ids = file.ids \cup {m + 1}
  BY <1>2 DEF Lines
<1>. QED
  BY <1>1, <1>3, <1>4 DEF Grown

\* The file stays fine when a summary is written to it.
LEMMA SummaryKeepsFile ==
  ASSUME BranchInv, MemoryInv, NEW t \in Task, t \in Busy,
         Compacts(task[t], obj[task[t].object]), said' = said
  PROVE  LET q == Walk(entry', file'.ids)[file'.last] IN
         Fine(entry', exposed', said' \ exposed', Covered(entry', q), q)
<1>. DEFINE U == said \ exposed
            V == said' \ exposed'
            p == Walk(entry, file.ids)[file.last]
<1>1. PICK c, s : c = task[t] /\ s = obj[c.object]
  OBVIOUS
<1>2. PICK m, x : m = Len(entry) /\ x = Summary(s, c)
  OBVIOUS
<1>3. /\ SummaryWritten(entry, entry', x, m, s, c)
      /\ FileFits(file, m) /\ s.disk \in BOOLEAN
      /\ s.disk = FALSE => file' = file
      /\ s.disk = TRUE => /\ Lines(file, file', m, 1)
                          /\ Misses(Seen(entry, s, file.ids), c.kept, file.torn, exposed', V)
      /\ exposed \subseteq exposed' /\ V \subseteq U
  BY <1>1, <1>2, CompactsIs
<1>4. /\ EntriesFit(entry) /\ m \in Nat /\ OneAdded(entry, entry', x, m) /\ ObjectFits(s, m)
      /\ TaskFits(c, m) /\ c # Idle
  BY <1>1, <1>3 DEF SummaryWritten, Busy
<1>5. /\ Fine(entry, exposed, U, Covered(entry, p), p)
      /\ Pending(task, obj, entry, file.ids, U, cached)
      /\ c.object = cached => Works(entry, s, file.ids, U, Known(entry, s, file.ids), c)
  <2>1. c.object # None
    BY <1>4 DEF TaskFits, Object, None
  <2>. QED
    BY <1>1, <2>1 DEF MemoryInv
<1>6. /\ s.disk = FALSE \/ file.torn = TRUE => file'.ids = file.ids /\ file'.last = file.last
      /\ file.ids \in SUBSET (1 .. m) /\ file.last \in 0 .. m /\ file.torn \in BOOLEAN
  BY <1>3, <1>4, SummaryInFile
<1>. HIDE DEF U, V
<1>7. PICK e, X : e = entry' /\ X = exposed'
  OBVIOUS
<1>8. CASE s.disk = FALSE \/ file.torn = TRUE
  <2>1. PICK ids \in SUBSET (1 .. m), leaf \in 0 .. m : ids = file.ids /\ leaf = file.last
    BY <1>6
  <2>2. PICK r : r = Walk(e, ids)[leaf]
    OBVIOUS
  <2>3. Grown(ids, ids, m) /\ OneAdded(entry, e, x, m) /\ m = Len(entry)
    BY <1>2, <1>4, <1>7 DEF Grown
  <2>4. /\ r = p
        /\ \A Y, W, mem : Fine(entry, Y, W, mem, p) => Fine(e, Y, W, mem, r)
        /\ Covered(e, r) = Covered(entry, p)
    <3>1. EntriesFit(entry) /\ m \in Nat
      BY <1>4
    <3>2. /\ Walk(e, ids)[leaf] = Walk(entry, ids)[leaf]
          /\ \A Y, W, mem : Fine(entry, Y, W, mem, Walk(entry, ids)[leaf])
                              => Fine(e, Y, W, mem, Walk(e, ids)[leaf])
          /\ Covered(e, Walk(e, ids)[leaf]) = Covered(entry, Walk(entry, ids)[leaf])
      BY <2>3, <3>1, Aside
    <3>3. p = Walk(entry, ids)[leaf]
      BY <2>1
    <3>. HIDE DEF p
    <3>. QED
      BY <2>2, <3>2, <3>3
  <2>5. PICK mem : mem = Covered(entry, p)
    OBVIOUS
  <2>6. Fine(e, exposed, U, mem, r)
    BY <1>5, <2>4, <2>5
  <2>. HIDE DEF p
  <2>7. exposed \subseteq X /\ V \subseteq U /\ V \cap mem \subseteq mem
    BY <1>3, <1>7
  <2>8. Fine(e, X, V, mem, r)
    BY <2>6, <2>7, FineStill
  <2>9. r = Walk(entry', file'.ids)[file'.last] /\ mem = Covered(entry', r)
    BY <1>6, <1>7, <1>8, <2>1, <2>2, <2>4, <2>5
  <2>. QED
    BY <1>7, <2>8, <2>9 DEF V
<1>9. CASE s.disk = TRUE /\ file.torn = FALSE
  <2>. DEFINE q == Seen(entry, s, file.ids)
              mem == Known(entry, s, file.ids)
  <2>1. PICK u : u = [ids |-> s.ids \cup {m + 1}, leaf |-> m + 1]
    OBVIOUS
  <2>2. Longer(s, u, m)
    BY <2>1 DEF Longer
  <2>3. PICK g : g = file'
    OBVIOUS
  <2>4. PICK q2, mem2 : q2 = Seen(e, u, g.ids) /\ mem2 = Known(e, u, g.ids)
    OBVIOUS
  <2>5. SummaryWritten(entry, e, x, m, s, c) /\ FileFits(file, m) /\ Lines(file, g, m, 1)
    BY <1>3, <1>7, <1>9, <2>3
  <2>6. SeenSummed(e, file, q, q2, g, mem, mem2, m, c)
    BY <2>2, <2>4, <2>5, SummedPaths
  <2>7. Misses(q, c.kept, file.torn, X, V)
    BY <1>3, <1>7, <1>9
  <2>8. Entries(q) \subseteq file.ids
    <3>1. s.leaf \in 0 .. Len(entry) /\ file.ids \subseteq 1 .. Len(entry)
      BY <1>2, <1>4, <1>6 DEF ObjectFits, Fits
    <3>2. Entries(Walk(entry, file.ids)[s.leaf]) \subseteq file.ids
      BY <1>4, <3>1, PathFits
    <3>. QED
      BY <3>2 DEF Seen
  <2>9. q2 = Walk(entry', file'.ids)[file'.last] /\ mem2 = Covered(entry', q2)
    <3>1. g.last = m + 1
      BY <1>9, <2>6 DEF SeenSummed
    <3>. QED
      BY <1>7, <2>1, <2>3, <2>4, <3>1 DEF Seen, Known
  <2>. HIDE DEF q
  <2>10. Tells(q, c, mem, V)
    <3>1. CASE c.archive = TRUE
      <4>1. c.kept = None /\ U \subseteq mem \cup c.old
        BY <1>1, <1>4, <1>5, <3>1, Zenon DEF TaskFits, Pending
      <4>2. None \notin Entries(q)
        BY <1>6, <2>8 DEF None
      <4>. QED
        BY <1>3, <4>1, <4>2 DEF Tells
    <3>2. CASE c.archive = FALSE /\ c.object = cached
      <4>1. c.kept # None
        BY <1>4, <3>2 DEF TaskFits
      <4>2. c.kept \in Entries(q) => U \subseteq From(entry, q, c.kept) \cup mem \cup c.old
        BY <1>5, <3>2, Zenon DEF Works, q
      <4>. QED
        BY <1>3, <4>1, <4>2 DEF Tells
    <3>3. CASE c.archive = FALSE /\ c.object # cached
      <4>1. c.kept # None
        BY <1>4, <3>3 DEF TaskFits
      <4>2. c.kept \notin file.ids
        BY <1>1, <1>4, <1>5, <1>9, <3>3 DEF Pending
      <4>. QED
        BY <2>8, <4>1, <4>2 DEF Tells
    <3>4. c.archive \in BOOLEAN
      BY <1>4 DEF TaskFits, TaskRec
    <3>. QED
      BY <3>1, <3>2, <3>3, <3>4
  <2>. HIDE DEF mem
  <2>11. Fine(e, X, V, mem2, q2)
    BY <2>6, <2>7, <2>10, SeenFine
  <2>. QED
    BY <1>7, <2>9, <2>11 DEF V
<1>. QED
  BY <1>3, <1>6, <1>8, <1>9

\* The objects after the end of a consolidation, whose object o becomes y.
LEMMA EndedObjects ==
  ASSUME NEW k \in Nat, ObjectsFit(obj, k), NEW o \in Object, NEW y, ObjectFits(y, k),
         NEW tasks, NEW objs2, objs2 = Collected(With(obj, o, y), tasks, cached)
  PROVE  /\ o = cached => objs2[o] = y
         /\ cached \in Object /\ cached # o => objs2[cached] = obj[cached]
         /\ \A w \in Task : tasks[w].object = o => objs2[o] = y
         /\ \A w \in Task : tasks[w].object \in Object /\ tasks[w].object # o =>
              objs2[tasks[w].object] = obj[tasks[w].object]
<1>1. PICK objs : objs = With(obj, o, y)
  OBVIOUS
<1>2. ObjectsFit(objs, k) /\ objs[o] = y /\ \A x \in Object : x # o => objs[x] = obj[x]
  BY <1>1, ObjectSet
<1>3. \A x \in Object : x = cached \/ (\E w \in Task : tasks[w].object = x)
                           => objs2[x] = objs[x]
  <2>1. objs2 = Collected(objs, tasks, cached)
    BY <1>1
  <2>. QED
    BY <1>2, <2>1, CollectedFits
<1>. QED
  BY <1>2, <1>3

\* What is left of the tasks when t has ended.
Rest(t, tasks) == tasks[t] = Idle /\ \A w \in Task : w # t => tasks[w] = task[w]

\* The other consolidations when t has ended and its object o is y, with the entries en.
LEMMA EndedPending ==
  ASSUME NEW m \in Nat, TasksFit(task, m), NEW t \in Task, NEW tasks, TasksFit(tasks, m),
         Rest(t, tasks), NEW en, NEW ids, NEW ids2, \A n \in 0 .. m : n \in ids2 => n \in ids,
         NEW U, Pending(task, obj, entry, ids, U, cached), NEW V, V \subseteq U,
         NEW objs2, \A w \in Task : tasks[w] # Idle =>
            /\ objs2[tasks[w].object].disk = obj[tasks[w].object].disk
            /\ tasks[w].archive = TRUE =>
                 Known(en, objs2[tasks[w].object], ids2) = Known(entry, obj[tasks[w].object], ids)
  PROVE  Pending(tasks, objs2, en, ids2, V, cached)
<1>1. \A w \in Task : tasks[w] = task[w] \/ tasks[w] = Idle
  BY DEF Rest
<1>2. Pending(tasks, obj, entry, ids, U, cached)
  BY <1>1, PendingFewer
<1>3. Spared(m, tasks, obj, objs2, entry, en, ids, ids2, V, cached)
  BY DEF Spared
<1>. QED
  BY <1>2, <1>3, PendingStill

\* The state before the end of c = task[t], of the object s.
LEMMA BeforeEnd ==
  ASSUME BranchInv, MemoryInv, NEW t \in Task, t \in Busy, task' = [task EXCEPT ![t] = Idle],
         cached' = cached, NEW U, U = said \ exposed, NEW m, m = Len(entry),
         NEW c, c = task[t], NEW s, s = obj[c.object]
  PROVE  /\ m \in Nat /\ EntriesFit(entry) /\ FileFits(file, m) /\ ObjectsFit(obj, m)
         /\ TasksFit(task, m) /\ TasksFit(task', m) /\ Rest(t, task')
         /\ TaskFits(c, m) /\ c # Idle /\ c.object \in Object /\ ObjectFits(s, m)
         /\ cached \in {None} \cup Object
         /\ cached = c.object => /\ cached # None /\ c.archive = FALSE /\ s.disk = TRUE
                                /\ c.kept # None
         /\ Fine(entry, exposed, U, Covered(entry, Walk(entry, file.ids)[file.last]),
                 Walk(entry, file.ids)[file.last])
         /\ Pending(task, obj, entry, file.ids, U, cached)
         /\ cached # None =>
              /\ Views(entry, obj[cached], file.ids, exposed, U,
                       Known(entry, obj[cached], file.ids))
              /\ \A w \in Task : task[w].object = cached =>
                   Works(entry, obj[cached], file.ids, U,
                         Known(entry, obj[cached], file.ids), task[w])
         /\ \A w \in Task : task'[w].object = cached /\ cached # None => task'[w] = task[w]
<1>1. /\ EntriesFit(entry) /\ m \in Nat /\ cached \in {None} \cup Object
  BY EntriesKnown DEF BranchInv, Typed
<1>2. /\ TaskFits(c, m) /\ c.object \in Object /\ FileFits(file, m) /\ ObjectsFit(obj, m)
      /\ TasksFit(task, m) /\ ObjectFits(s, m)
      /\ TasksFit(task', m) /\ task'[t] = Idle /\ \A v \in Task : v # t => task'[v] = task[v]
      /\ cached = c.object => c.archive = FALSE /\ s.disk = TRUE
  BY <1>1, OverSound
<1>3. c # Idle
  BY DEF Busy
<1>4. cached = c.object => c.kept # None
  BY <1>2, <1>3 DEF TaskFits
<1>5. cached = c.object => cached # None
  BY <1>2 DEF Object, None
<1>6. \A w \in Task : task'[w].object = cached /\ cached # None => task'[w] = task[w]
  BY <1>1, <1>2, IdleFits
<1>7. Rest(t, task')
  BY <1>2 DEF Rest
<1>8. /\ Fine(entry, exposed, U, Covered(entry, Walk(entry, file.ids)[file.last]),
              Walk(entry, file.ids)[file.last])
      /\ Pending(task, obj, entry, file.ids, U, cached)
      /\ cached # None =>
           /\ Views(entry, obj[cached], file.ids, exposed, U,
                    Known(entry, obj[cached], file.ids))
           /\ \A w \in Task : task[w].object = cached =>
                Works(entry, obj[cached], file.ids, U,
                      Known(entry, obj[cached], file.ids), task[w])
  BY DEF MemoryInv
<1>. QED
  BY <1>1, <1>2, <1>3, <1>4, <1>5, <1>6, <1>7, <1>8

\* An answer without a history entry costs what was to be summarised, and nothing else.
LEMMA EndsWithout ==
  ASSUME BranchInv, MemoryInv, NEW t \in Task, t \in Busy, NEW k \in Int,
         k = CountAfter(task[t], obj[task[t].object]),
         TaskEnds(t, Recounted(obj[task[t].object], k)),
         exposed' = exposed \cup Unsummarised(task[t]), entry' = entry, file' = file,
         cached' = cached, said' = said
  PROVE  MemoryInv'
<1>. DEFINE U == said \ exposed
            V == said' \ exposed'
            p == Walk(entry, file.ids)[file.last]
            v == obj[cached]
            mem == Known(entry, v, file.ids)
<1>1. PICK c, s, m : c = task[t] /\ s = obj[c.object] /\ m = Len(entry)
  OBVIOUS
<1>2. task' = [task EXCEPT ![t] = Idle]
  BY DEF TaskEnds
<1>3. /\ m \in Nat /\ EntriesFit(entry) /\ FileFits(file, m) /\ ObjectsFit(obj, m)
      /\ TasksFit(task, m) /\ TasksFit(task', m) /\ Rest(t, task')
      /\ c.object \in Object /\ ObjectFits(s, m)
      /\ cached \in {None} \cup Object
      /\ cached = c.object => cached # None /\ c.archive = FALSE
      /\ Fine(entry, exposed, U, Covered(entry, p), p)
      /\ Pending(task, obj, entry, file.ids, U, cached)
      /\ cached # None => /\ Views(entry, v, file.ids, exposed, U, mem)
                          /\ \A w \in Task : task[w].object = cached =>
                               Works(entry, v, file.ids, U, mem, task[w])
      /\ \A w \in Task : task'[w].object = cached /\ cached # None => task'[w] = task[w]
  BY <1>1, <1>2, BeforeEnd
<1>4. PICK r : r = Recounted(s, k)
  OBVIOUS
<1>5. ObjectFits(r, m) /\ SameButCount(r, s, k)
  BY <1>3, <1>4, RecountFits
<1>6. /\ c.object = cached => obj'[cached] = r
      /\ cached \in Object /\ cached # c.object => obj'[cached] = v
      /\ \A w \in Task : task'[w].object = c.object => obj'[c.object] = r
      /\ \A w \in Task : task'[w].object \in Object /\ task'[w].object # c.object =>
           obj'[task'[w].object] = obj[task'[w].object]
  <2>1. obj' = Collected(With(obj, c.object, r), task', cached)
    BY <1>1, <1>4 DEF TaskEnds, With
  <2>. QED
    BY <1>3, <1>5, <2>1, EndedObjects
<1>7. /\ exposed \subseteq exposed' /\ V \subseteq U
      /\ c.archive = FALSE => V \cap c.old = {}
  BY <1>1 DEF Unsummarised
<1>. HIDE DEF U, V, v, mem
<1>8. Pending(task', obj', entry, file.ids, V, cached)
  <2>1. PICK tasks, objs : tasks = task' /\ objs = obj'
    OBVIOUS
  <2>2. Known(entry, r, file.ids) = Known(entry, s, file.ids) /\ r.disk = s.disk
    BY <1>5 DEF SameButCount, Known, Seen
  <2>3. ASSUME NEW w \in Task, tasks[w] # Idle
        PROVE  /\ objs[tasks[w].object].disk = obj[tasks[w].object].disk
               /\ Known(entry, objs[tasks[w].object], file.ids)
                    = Known(entry, obj[tasks[w].object], file.ids)
    <3>1. tasks[w].object \in Object
      BY <1>3, <2>1, <2>3 DEF TasksFit, TaskFits
    <3>2. CASE tasks[w].object = c.object
      BY <1>1, <1>6, <2>1, <2>2, <3>2
    <3>3. CASE tasks[w].object # c.object
      BY <1>6, <2>1, <3>1, <3>3
    <3>. QED
      BY <3>2, <3>3
  <2>4. TasksFit(tasks, m) /\ Rest(t, tasks)
    BY <1>3, <2>1
  <2>5. Pending(tasks, objs, entry, file.ids, V, cached)
    BY <1>3, <1>7, <2>3, <2>4, EndedPending
  <2>. QED
    BY <2>1, <2>5
<1>9. PICK X : X = exposed'
  OBVIOUS
<1>10. Fine(entry, X, V, Covered(entry, p), p)
  <2>. HIDE DEF p
  <2>1. exposed \subseteq X /\ V \subseteq U /\ V \cap Covered(entry, p) \subseteq Covered(entry, p)
    BY <1>7, <1>9
  <2>. QED
    BY <1>3, <2>1, FineStill
<1>11. V \in SUBSET U /\ V \cap mem \subseteq mem /\ exposed \subseteq X
  BY <1>7, <1>9
<1>12. CASE cached = c.object
  <2>1. /\ c.archive = FALSE /\ s = v /\ cached # None /\ obj'[cached] = r
        /\ Views(entry, s, file.ids, exposed, U, mem) /\ Works(entry, s, file.ids, U, mem, c)
    BY <1>1, <1>3, <1>6, <1>12 DEF v
  <2>2. k = Count(entry, s) - Keep
    BY <1>1, <2>1, EndsAre
  <2>3. Gains(c, exposed, U, mem, X, V, mem)
    BY <1>7, <1>11, <2>1 DEF Gains
  <2>4. m = Len(entry) /\ EntriesFit(entry) /\ ObjectFits(s, Len(entry)) /\ SameButCount(r, s, k)
    BY <1>1, <1>3, <1>5
  <2>5. /\ Views(entry, r, file.ids, X, V, mem)
        /\ \A d : Works(entry, s, file.ids, U, mem, d) => Works(entry, r, file.ids, V, mem, d)
        /\ Known(entry, r, file.ids) = Known(entry, s, file.ids)
    BY <2>1, <2>2, <2>3, <2>4, ViewsRecounted
  <2>6. Known(entry, r, file.ids) = mem
    BY <2>1, <2>5 DEF mem
  <2>7. \A w \in Task : task'[w].object = cached => Works(entry, r, file.ids, V, mem, task'[w])
    BY <1>3, <2>1, <2>5
  <2>. HIDE DEF p
  <2>. QED
    BY <1>8, <1>9, <1>10, <2>1, <2>5, <2>6, <2>7 DEF MemoryInv, V, p
<1>13. CASE cached # c.object
  <2>1. cached # None => obj'[cached] = v
    BY <1>3, <1>6, <1>13
  <2>2. cached # None => Views(entry, v, file.ids, X, V, mem)
    BY <1>3, <1>11, ViewsStill
  <2>3. cached # None => \A w \in Task : task'[w].object = cached =>
                            Works(entry, v, file.ids, V, mem, task'[w])
    BY <1>3, <1>11, WorksStill
  <2>. HIDE DEF p
  <2>. QED
    BY <1>8, <1>9, <1>10, <2>1, <2>2, <2>3 DEF MemoryInv, V, mem, p
<1>. QED
  BY <1>12, <1>13

\* An archive's object is not the one of another consolidation, and what its branch in the
\* file tells of it is untouched by the summary of that one.
LEMMA SummaryPending ==
  ASSUME NEW m \in Nat, m = Len(entry), EntriesFit(entry), ObjectsFit(obj, m), TasksFit(task, m),
         NEW t \in Task, task[t] # Idle, NEW tasks, TasksFit(tasks, m), Rest(t, tasks),
         NEW e, NEW x, OneAdded(entry, e, x, m), NEW ids \in SUBSET (1 .. m), NEW ids2,
         Grown(ids, ids2, m), NEW U, Pending(task, obj, entry, ids, U, cached),
         NEW V, V \subseteq U, NEW o, o = task[t].object, NEW u, u.disk = obj[o].disk, NEW objs2,
         \A w \in Task : tasks[w].object = o => objs2[o] = u,
         \A w \in Task : tasks[w].object \in Object /\ tasks[w].object # o =>
           objs2[tasks[w].object] = obj[tasks[w].object]
  PROVE  Pending(tasks, objs2, e, ids2, V, cached)
<1>1. \A n \in 0 .. m : n \in ids2 => n \in ids
  <2>1. \A n \in 0 .. m : n # m + 1
    OBVIOUS
  <2>. QED
    BY <2>1 DEF Grown
<1>2. ASSUME NEW w \in Task, tasks[w] # Idle
      PROVE  /\ objs2[tasks[w].object].disk = obj[tasks[w].object].disk
             /\ tasks[w].archive = TRUE =>
                  Known(e, objs2[tasks[w].object], ids2) = Known(entry, obj[tasks[w].object], ids)
  <2>1. w # t /\ tasks[w] = task[w] /\ tasks[w].object \in Object
    BY <1>2 DEF Rest, TasksFit, TaskFits
  <2>2. objs2[tasks[w].object].disk = obj[tasks[w].object].disk
    BY <2>1
  <2>3. ASSUME tasks[w].archive = TRUE
        PROVE  Known(e, objs2[tasks[w].object], ids2) = Known(entry, obj[tasks[w].object], ids)
    <3>1. Alone(task, w, cached)
      BY <1>2, <2>1, <2>3, Zenon DEF Pending
    <3>2. tasks[w].object # o
      BY <2>1, <3>1 DEF Alone
    <3>3. PICK v : v = obj[tasks[w].object]
      OBVIOUS
    <3>4. objs2[tasks[w].object] = v
      BY <2>1, <3>2, <3>3
    <3>5. ObjectFits(v, m)
      BY <2>1, <3>3 DEF ObjectsFit
    <3>6. Beside(entry, e, v, ids, ids2)
      BY <3>5, ViewsAside
    <3>. QED
      BY <3>3, <3>4, <3>6 DEF Beside
  <2>. QED
    BY <2>2, <2>3
<1>. QED
  BY <1>1, <1>2, EndedPending

\* With one, a summary is added to the object's branch, and to the file if it has one.
LEMMA EndsWith ==
  ASSUME BranchInv, MemoryInv, NEW t \in Task, t \in Busy, NEW k \in Int,
         k \in {CountAfter(task[t], obj[task[t].object]), obj[task[t].object].lastConsolidated},
         Added(t, Recounted(Registered(obj[task[t].object], 1), k))
  PROVE  MemoryInv'
<1>. DEFINE U == said \ exposed
            V == said' \ exposed'
            v == obj[cached]
            mem == Known(entry, v, file.ids)
            q == Walk(entry', file'.ids)[file'.last]
<1>1. PICK c, s, m : c = task[t] /\ s = obj[c.object] /\ m = Len(entry)
  OBVIOUS
<1>2. PICK x, u : x = Summary(s, c) /\ u = Recounted(Registered(s, 1), k)
  OBVIOUS
<1>3. /\ Compacts(c, s) /\ TaskEnds(t, u) /\ cached' = cached /\ said' = said
      /\ task' = [task EXCEPT ![t] = Idle]
      /\ obj' = Collected(With(obj, c.object, u), task', cached)
  BY <1>1, <1>2 DEF Added, TaskEnds, With
<1>4. /\ m \in Nat /\ EntriesFit(entry) /\ FileFits(file, m) /\ ObjectsFit(obj, m)
      /\ TasksFit(task, m) /\ TasksFit(task', m) /\ Rest(t, task') /\ TaskFits(c, m) /\ c # Idle
      /\ c.object \in Object /\ ObjectFits(s, m)
      /\ cached \in {None} \cup Object
      /\ cached = c.object => /\ cached # None /\ c.archive = FALSE /\ s.disk = TRUE
                             /\ c.kept # None
      /\ Pending(task, obj, entry, file.ids, U, cached)
      /\ cached # None => /\ Views(entry, v, file.ids, exposed, U, mem)
                          /\ \A w \in Task : task[w].object = cached =>
                               Works(entry, v, file.ids, U, mem, task[w])
      /\ \A w \in Task : task'[w].object = cached /\ cached # None => task'[w] = task[w]
  BY <1>1, <1>3, BeforeEnd
<1>5. /\ SummaryWritten(entry, entry', x, m, s, c) /\ s.disk \in BOOLEAN
      /\ s.disk = FALSE => file' = file
      /\ s.disk = TRUE => /\ Lines(file, file', m, 1)
                          /\ Misses(Seen(entry, s, file.ids), c.kept, file.torn, exposed', V)
      /\ exposed \subseteq exposed' /\ V \subseteq U
  BY <1>1, <1>2, <1>3, CompactsIs
<1>6. ObjectFits(u, m + 1) /\ Longer(s, u, m) /\ u.disk = s.disk /\ u.lastConsolidated = k
  <2>1. m < MaxEntries
    BY <1>1, <1>3 DEF Compacts
  <2>2. /\ ObjectFits(u, m + 1) /\ u.ids = s.ids \cup {m + 1} /\ u.leaf = m + 1
        /\ u.disk = s.disk /\ u.lastConsolidated = k
    BY <1>1, <1>2, <1>4, <2>1, SummaryFits
  <2>. QED
    BY <2>2 DEF Longer
<1>7. /\ c.object = cached => obj'[cached] = u
      /\ cached \in Object /\ cached # c.object => obj'[cached] = v
      /\ \A w \in Task : task'[w].object = c.object => obj'[c.object] = u
      /\ \A w \in Task : task'[w].object \in Object /\ task'[w].object # c.object =>
           obj'[task'[w].object] = obj[task'[w].object]
  <2>1. PICK n \in Nat : n = m + 1
    BY <1>4
  <2>2. ObjectsFit(obj, n)
    <3>1. PICK one \in Nat : one = 1
      OBVIOUS
    <3>2. ObjectsFit(obj, m + one)
      BY <1>4, MoreFit
    <3>. QED
      BY <2>1, <3>1, <3>2
  <2>3. ObjectFits(u, n)
    BY <1>6, <2>1
  <2>. QED
    <3>1. PICK o, tasks, objs : o \in Object /\ o = c.object /\ tasks = task' /\ objs = obj'
      BY <1>4
    <3>. o \in Object
      BY <3>1
    <3>2. objs = Collected(With(obj, o, u), tasks, cached)
      BY <1>3, <3>1
    <3>3. /\ o = cached => objs[o] = u
          /\ cached \in Object /\ cached # o => objs[cached] = obj[cached]
          /\ \A w \in Task : tasks[w].object = o => objs[o] = u
          /\ \A w \in Task : tasks[w].object \in Object /\ tasks[w].object # o =>
               objs[tasks[w].object] = obj[tasks[w].object]
      BY <2>2, <2>3, <3>2, EndedObjects
    <3>. QED
      BY <3>1, <3>3
<1>8. /\ Grown(file.ids, file'.ids, m) /\ file.ids \in SUBSET (1 .. m)
  BY <1>4, <1>5, SummaryInFile
<1>9. Fine(entry', exposed', V, Covered(entry', q), q)
  BY <1>1, <1>3, SummaryKeepsFile
<1>10. OneAdded(entry, entry', x, m)
  BY <1>5 DEF SummaryWritten
<1>. HIDE DEF U, V, v, mem, q
<1>11. PICK e, g, X : e = entry' /\ g = file' /\ X = exposed'
  OBVIOUS
<1>12. PICK ids, ids2 : ids \in SUBSET (1 .. m) /\ ids = file.ids /\ ids2 = g.ids
  BY <1>8
<1>. ids \in SUBSET (1 .. m)
  BY <1>12
<1>13. /\ OneAdded(entry, e, x, m) /\ Grown(ids, ids2, m) /\ exposed \subseteq X
       /\ SummaryWritten(entry, e, x, m, s, c)
       /\ s.disk = TRUE => /\ Lines(file, g, m, 1)
                           /\ Misses(Seen(entry, s, file.ids), c.kept, file.torn, X, V)
  BY <1>5, <1>8, <1>10, <1>11, <1>12
<1>14. Pending(task', obj', e, ids2, V, cached)
  <2>1. PICK tasks, objs : tasks = task' /\ objs = obj'
    OBVIOUS
  <2>2. PICK o : o = c.object
    OBVIOUS
  <2>3. /\ TasksFit(tasks, m) /\ Rest(t, tasks) /\ task[t] # Idle /\ o = task[t].object
        /\ u.disk = obj[o].disk /\ Pending(task, obj, entry, ids, U, cached)
    BY <1>1, <1>4, <1>6, <1>12, <2>1, <2>2
  <2>4. /\ \A w \in Task : tasks[w].object = o => objs[o] = u
        /\ \A w \in Task : tasks[w].object \in Object /\ tasks[w].object # o =>
             objs[tasks[w].object] = obj[tasks[w].object]
    BY <1>7, <2>1, <2>2
  <2>5. Pending(tasks, objs, e, ids2, V, cached)
    BY <1>1, <1>4, <1>5, <1>13, <2>3, <2>4, SummaryPending
  <2>. QED
    BY <2>1, <2>5
<1>15. CASE cached = c.object
  <2>1. /\ c.archive = FALSE /\ s = v /\ cached # None /\ obj'[cached] = u /\ s.disk = TRUE
        /\ Views(entry, s, file.ids, exposed, U, mem) /\ Works(entry, s, file.ids, U, mem, c)
        /\ c.kept # None
    BY <1>1, <1>4, <1>7, <1>15 DEF v
  <2>2. u.lastConsolidated \in {Count(entry, s) - Keep, s.lastConsolidated}
    <3>1. CountAfter(c, s) = Count(entry, s) - Keep
      BY <1>1, <2>1, EndsAre
    <3>. QED
      BY <1>1, <1>6, <3>1
  <2>3. PICK mem2 : mem2 = Known(e, u, g.ids)
    OBVIOUS
  <2>4. mem = Known(entry, s, file.ids)
    BY <2>1 DEF mem
  <2>5. /\ Lines(file, g, m, 1)
        /\ Misses(Seen(entry, s, file.ids), c.kept, file.torn, X, V)
    BY <1>13, <2>1
  <2>6. /\ Views(e, u, g.ids, X, V, mem2)
        /\ GoOn(e, m, s, file.ids, U, mem, u, g.ids, V, mem2)
    <3>1. /\ SummaryWritten(entry, e, x, m, s, c) /\ c.kept # None /\ Longer(s, u, m)
          /\ FileFits(file, m) /\ Lines(file, g, m, 1) /\ mem = Known(entry, s, file.ids)
          /\ Views(entry, s, file.ids, exposed, U, mem)
          /\ Works(entry, s, file.ids, U, mem, c)
          /\ Counted(s, u, exposed, U, X, V) /\ mem2 = Known(e, u, g.ids)
          /\ Misses(Seen(entry, s, file.ids), c.kept, file.torn, X, V)
      BY <1>4, <1>5, <1>6, <1>13, <2>1, <2>2, <2>3, <2>4, <2>5 DEF Counted
    <3>. QED
      BY <3>1, ViewsSummed
  <2>7. ASSUME NEW w \in Task, task'[w].object = cached
        PROVE  Works(e, u, g.ids, V, mem2, task'[w])
    <3>1. task'[w] = task[w] /\ TaskFits(task[w], m)
      BY <1>4, <2>1, <2>7 DEF TasksFit
    <3>2. Works(entry, s, file.ids, U, mem, task[w])
      BY <1>4, <2>1, <2>7, <3>1
    <3>. QED
      BY <2>6, <3>1, <3>2 DEF GoOn
  <2>. QED
    BY <1>3, <1>9, <1>11, <1>12, <1>14, <2>1, <2>3, <2>6, <2>7 DEF MemoryInv, V, q
<1>16. CASE cached # c.object
  <2>1. ASSUME cached # None
        PROVE  /\ obj'[cached] = v /\ Known(e, v, ids2) = mem
               /\ Views(e, v, ids2, X, V, mem)
               /\ \A w \in Task : task'[w].object = cached =>
                    Works(e, v, ids2, V, mem, task'[w])
    <3>1. obj'[cached] = v /\ ObjectFits(v, m)
      BY <1>4, <1>7, <1>16, <2>1 DEF ObjectsFit, v
    <3>2. /\ \A Y, W, mem0 : Views(entry, v, ids, Y, W, mem0) => Views(e, v, ids2, Y, W, mem0)
          /\ \A W, mem0, d : Works(entry, v, ids, W, mem0, d) => Works(e, v, ids2, W, mem0, d)
          /\ Known(e, v, ids2) = Known(entry, v, ids)
      <4>1. EntriesFit(entry) /\ m \in Nat /\ m = Len(entry) /\ OneAdded(entry, e, x, m)
            /\ Grown(ids, ids2, m) /\ ObjectFits(v, m)
        BY <1>1, <1>4, <1>13, <3>1
      <4>2. Beside(entry, e, v, ids, ids2)
        BY <4>1, ViewsAside
      <4>. QED
        BY <4>2, Zenon DEF Beside
    <3>3. Views(e, v, ids2, exposed, U, mem)
      BY <1>4, <1>12, <2>1, <3>2
    <3>4. V \in SUBSET U /\ V \cap mem \subseteq mem
      BY <1>5
    <3>5. Views(e, v, ids2, X, V, mem)
      BY <1>13, <3>3, <3>4, ViewsStill
    <3>6. ASSUME NEW w \in Task, task'[w].object = cached
          PROVE  Works(e, v, ids2, V, mem, task'[w])
      <4>1. task'[w] = task[w]
        BY <1>4, <2>1, <3>6
      <4>2. Works(e, v, ids2, U, mem, task[w])
        BY <1>4, <1>12, <2>1, <3>2, <3>6, <4>1
      <4>. QED
        BY <3>4, <4>1, <4>2, WorksStill
    <3>7. Known(e, v, ids2) = mem
      BY <1>12, <3>2 DEF mem
    <3>. QED
      BY <3>1, <3>5, <3>6, <3>7
  <2>. QED
    BY <1>3, <1>9, <1>11, <1>12, <1>14, <2>1 DEF MemoryInv, V, q
<1>. QED
  BY <1>15, <1>16

\* Nothing is forgotten when a consolidation ends,
LEMMA MemoryConsolidationEnds ==
  ASSUME BranchInv, MemoryInv, NEW t \in Task, ConsolidationEnds(t)
  PROVE  MemoryInv'
<1>. DEFINE s == obj[task[t].object]
<1>1. t \in Busy
  BY DEF ConsolidationEnds
<1>2. PICK k \in Int : k = CountAfter(task[t], s)
  BY <1>1, EndsAre
<1>3. \/ Added(t, Recounted(Registered(s, 1), k))
      \/ /\ TaskEnds(t, Recounted(s, k)) /\ exposed' = exposed \cup Unsummarised(task[t])
         /\ entry' = entry /\ file' = file /\ cached' = cached /\ said' = said
  BY <1>1, <1>2, EndsAre
<1>. QED
  BY <1>1, <1>2, <1>3, EndsWith, EndsWithout

\* when MEMORY.md cannot be written,
LEMMA MemoryMemoryWriteFails ==
  ASSUME BranchInv, MemoryInv, NEW t \in Task, MemoryWriteFails(t)
  PROVE  MemoryInv'
<1>. DEFINE s == obj[task[t].object]
<1>1. t \in Busy
  BY DEF MemoryWriteFails
<1>2. PICK k \in Int : k = s.lastConsolidated
  BY <1>1, EndsAre
<1>3. Added(t, Recounted(Registered(s, 1), k))
  BY <1>1, <1>2, EndsAre
<1>. QED
  BY <1>1, <1>2, <1>3, EndsWith

\* and when the gateway dies with the summary, or half of it, on file.
LEMMA MemoryCrashWhileConsolidating ==
  ASSUME BranchInv, MemoryInv, NEW t \in Task, CrashWhileConsolidating(t)
  PROVE  MemoryInv'
<1>. DEFINE q == Walk(entry', file'.ids)[file'.last]
<1>1. /\ t \in Busy /\ ForgetObjects /\ said' = said
      /\ \/ Compacts(task[t], obj[task[t].object])
         \/ /\ file' = [file EXCEPT !.exists = TRUE, !.torn = TRUE]
            /\ entry' = entry /\ exposed' = exposed
  BY DEF CrashWhileConsolidating
<1>2. cached' = None /\ \A u \in Task : task'[u] = Idle
  BY <1>1 DEF ForgetObjects
<1>3. Pending(task', obj', entry', file'.ids, said' \ exposed', cached')
  BY <1>2, NoneRunning
<1>4. Fine(entry', exposed', said' \ exposed', Covered(entry', q), q)
  <2>1. CASE Compacts(task[t], obj[task[t].object])
    BY <1>1, <2>1, SummaryKeepsFile
  <2>2. CASE /\ file' = [file EXCEPT !.exists = TRUE, !.torn = TRUE]
             /\ entry' = entry /\ exposed' = exposed
    <3>1. file \in FileRec
      BY DEF BranchInv, Typed, FileFits
    <3>2. file' = [exists |-> TRUE, ids |-> file.ids, last |-> file.last, torn |-> TRUE]
      BY <2>2, <3>1, TornAndThere, Zenon
    <3>3. file'.ids = file.ids /\ file'.last = file.last
      BY <3>2
    <3>. QED
      BY <1>1, <2>2, <3>3 DEF MemoryInv
  <2>. QED
    BY <1>1, <2>1, <2>2
<1>. QED
  BY <1>2, <1>3, <1>4 DEF MemoryInv

\* Every step keeps MemoryInv.
LEMMA MemorySteps == BranchInv /\ MemoryInv /\ [Next]_vars => MemoryInv'
<1>. SUFFICES ASSUME BranchInv, MemoryInv, [Next]_vars PROVE MemoryInv'
  OBVIOUS
<1>1. CASE TurnBegins
  BY <1>1, MemoryTurnBegins
<1>2. CASE TurnEnds
  BY <1>2, MemoryTurnEnds
<1>3. CASE TurnFails \/ UNCHANGED vars
  BY <1>3, MemoryUnchanged
<1>4. ASSUME NEW t \in Task, ConsolidationEnds(t) PROVE MemoryInv'
  BY <1>4, MemoryConsolidationEnds
<1>5. ASSUME NEW t \in Task, MemoryWriteFails(t) PROVE MemoryInv'
  BY <1>5, MemoryMemoryWriteFails
<1>6. ASSUME NEW t \in Task, ConsolidationFails(t) PROVE MemoryInv'
  BY <1>6, MemoryConsolidationFails
<1>7. CASE NewCommand
  BY <1>7, MemoryNewCommand
<1>8. CASE ResetCommand
  BY <1>8, MemoryResetCommand
<1>9. CASE FactoryResetAsks
  BY <1>9, MemoryFactoryResetAsks
<1>10. CASE FactoryResetConfirmed
  BY <1>10, MemoryFactoryResetConfirmed
<1>11. CASE Restart
  BY <1>11, MemoryRestart
<1>12. CASE CrashWhileWriting
  BY <1>12, MemoryCrashWhileWriting
<1>13. ASSUME NEW t \in Task, CrashWhileConsolidating(t) PROVE MemoryInv'
  BY <1>13, MemoryCrashWhileConsolidating
<1>. QED
  BY <1>1, <1>2, <1>3, <1>4, <1>5, <1>6, <1>7, <1>8, <1>9, <1>10, <1>11, <1>12, <1>13 DEF Next

\* MemoryInv gives NothingForgotten.
LEMMA MemoryGives == BranchInv /\ MemoryInv => NothingForgotten
<1>. SUFFICES ASSUME BranchInv, MemoryInv PROVE NothingForgotten
  OBVIOUS
<1>. DEFINE p == CurrentPath
            U == said \ exposed
<1>1. /\ EntriesFit(entry) /\ FileFits(file, Len(entry)) /\ ObjectsFit(obj, Len(entry))
      /\ cached \in {None} \cup Object /\ said \subseteq 1 .. Len(entry)
      /\ Len(entry) \in Nat /\ Len(entry) <= MaxEntries
  BY EntriesKnown DEF BranchInv, Typed
<1>2. PICK mem : Rising(p) /\ Fine(entry, exposed, U, mem, p) /\ mem \subseteq Covered(entry, p)
  <2>1. CASE cached # None
    <3>1. PICK s : s = obj[cached]
      OBVIOUS
    <3>2. p = Way(entry, s)
      BY <2>1, <3>1, PathIsWay DEF CurrentPath
    <3>3. ObjectFits(s, Len(entry))
      BY <1>1, <2>1, <3>1 DEF ObjectsFit
    <3>4. Rising(Way(entry, s))
      BY <1>1, <3>3, CountKnown
    <3>5. /\ Fine(entry, exposed, U, Known(entry, s, file.ids), Way(entry, s))
          /\ Entries(Seen(entry, s, file.ids)) \subseteq Entries(Way(entry, s))
      BY <2>1, <3>1 DEF MemoryInv, Views
    <3>6. Known(entry, s, file.ids) \subseteq Covered(entry, Way(entry, s))
      BY <3>5 DEF Known, Covered
    <3>. QED
      BY <3>2, <3>4, <3>5, <3>6
  <2>2. CASE cached = None
    <3>1. p = Walk(entry, file.ids)[file.last]
      BY <2>2, PathIsWalk DEF CurrentPath
    <3>2. file.ids \subseteq 1 .. Len(entry) /\ file.last \in 0 .. Len(entry)
      BY <1>1 DEF FileFits, Fits
    <3>3. Rising(Walk(entry, file.ids)[file.last])
      BY <1>1, <3>2, PathFits
    <3>. QED
      BY <3>1, <3>3 DEF MemoryInv
  <2>. QED
    BY <2>1, <2>2
<1>3. U \subseteq Id /\ U \cap exposed = {}
  <2>1. 1 .. Len(entry) \subseteq Id
    BY <1>1, Constants DEF Id
  <2>. QED
    BY <1>1, <2>1
<1>4. Covered(entry, p) = Summarised(p)
  BY DEF Covered, Summarised
<1>. HIDE DEF p, U
<1>5. U \subseteq Context(p) \cup mem
  BY <1>2, <1>3, FineRemembers
<1>. QED
  BY <1>2, <1>4, <1>5 DEF NothingForgotten, p, U

\* Nothing is forgotten, for every window and any number of entries, consolidations in
\* flight, failed answers, commands and crashes: of what was said since the last reset and
\* is not exposed, each message is in the context of the next turn or a summary on the
\* branch was made of it.
THEOREM MemoryCorrect == Spec => []NothingForgotten
<1>1. Init => BranchInv /\ MemoryInv
  BY BranchInit, MemoryInit
<1>2. BranchInv /\ MemoryInv /\ [Next]_vars => (BranchInv /\ MemoryInv)'
  BY BranchSteps, MemorySteps
<1>3. Spec => [](BranchInv /\ MemoryInv)
  BY <1>1, <1>2, PTL DEF Spec
<1>. QED
  BY <1>3, MemoryGives, PTL
=============================================================================
