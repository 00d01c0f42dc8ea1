-------------------------- MODULE ChatThreadProofs ---------------------------
(***************************************************************************)
(* Theorems about ChatThread, for every number of sends and of incoming    *)
(* messages, every page size and both platforms: the type invariant, and   *)
(* every safety property of the conversation on screen.                    *)
(***************************************************************************)
EXTENDS ChatThread, SequenceTheorems, FiniteSetTheorems, TLAPS

-----------------------------------------------------------------------------
(* Sequences without repetition: the rows of the server, the envelopes on  *)
(* the socket, the entries of a thread.                                    *)

Once(s) == \A a, b \in DOMAIN s : s[a] = s[b] => a = b
Distinct(s) == \A a, b \in DOMAIN s : s[a].id = s[b].id => a = b

\* What an entry may be: a message of the server, or the stand-in of a send,
\* which counts as read.
Temps == {Temp(i) : i \in Sends}
Honest(s, stored) ==
  /\ s \in Seq(Entries) /\ Distinct(s)
  /\ \A n \in DOMAIN s : s[n].id \in stored \/ (s[n].id \in Temps /\ s[n].read)

LEMMA KindsDiffer ==
  ASSUME NEW i, NEW k, NEW j
  PROVE  /\ Mine(i) # Theirs(k) /\ Mine(i) # Temp(j) /\ Theirs(k) # Temp(j)
         /\ Mine(i) = Mine(j) => i = j
         /\ Temp(i) = Temp(j) => i = j
         /\ Theirs(k) = Theirs(j) => k = j
  BY DEF Mine, Theirs, Temp

\* A new element at the end: nothing is there twice, and it is the only one
\* that was not there before.
LEMMA AppendOnce ==
  ASSUME NEW S, NEW s \in Seq(S), NEW x \in S, Once(s), x \notin ToSet(s)
  PROVE  /\ Append(s, x) \in Seq(S) /\ Once(Append(s, x))
         /\ ToSet(Append(s, x)) = ToSet(s) \cup {x}
<1> DEFINE t == Append(s, x)
<1>1. /\ t \in Seq(S) /\ Len(t) = Len(s) + 1 /\ Len(s) \in Nat
      /\ DOMAIN t = 1 .. Len(t) /\ DOMAIN s = 1 .. Len(s)
      /\ \A n \in 1 .. Len(s) : t[n] = s[n]
      /\ t[Len(s) + 1] = x
  BY AppendProperties, LenProperties
<1> HIDE DEF t
<1>2. Once(t)
  BY <1>1 DEF Once, ToSet
<1>3. ToSet(t) = ToSet(s) \cup {x}
  <2>1. ASSUME NEW y \in ToSet(t) PROVE y \in ToSet(s) \cup {x}
    BY <1>1 DEF ToSet
  <2>2. ASSUME NEW y \in ToSet(s) PROVE y \in ToSet(t)
    <3>1. PICK n \in DOMAIN s : y = s[n]
      BY DEF ToSet
    <3>2. n \in DOMAIN t /\ t[n] = y
      BY <1>1, <3>1
    <3> QED  BY <3>2 DEF ToSet
  <2>3. x \in ToSet(t)
    <3>1. Len(s) + 1 \in DOMAIN t
      BY <1>1
    <3> QED  BY <1>1, <3>1 DEF ToSet
  <2> QED  BY <2>1, <2>2, <2>3
<1> QED  BY <1>1, <1>2, <1>3 DEF t

\* The first of them taken away.
LEMMA TailOnce ==
  ASSUME NEW S, NEW s \in Seq(S), s # <<>>, Once(s)
  PROVE  /\ Head(s) \in S /\ Tail(s) \in Seq(S) /\ Once(Tail(s))
         /\ ToSet(s) = ToSet(Tail(s)) \cup {Head(s)}
         /\ Head(s) \notin ToSet(Tail(s))
<1> DEFINE t == Tail(s)
<1>1. /\ Head(s) \in S /\ t \in Seq(S) /\ Len(t) = Len(s) - 1
      /\ \A n \in 1 .. Len(t) : t[n] = s[n + 1]
      /\ DOMAIN t = 1 .. Len(t) /\ DOMAIN s = 1 .. Len(s)
      /\ Len(s) \in Nat /\ Len(s) > 0 /\ Head(s) = s[1]
  <2>1. Len(s) \in Nat \ {0}
    BY EmptySeq
  <2>2. Head(s) = s[1]
    OBVIOUS
  <2> QED  BY <2>1, <2>2, HeadTailProperties, LenProperties
<1> HIDE DEF t
<1>2. Once(t)
  <2> SUFFICES ASSUME NEW a \in DOMAIN t, NEW b \in DOMAIN t, t[a] = t[b] PROVE a = b
    BY DEF Once
  <2>1. a + 1 \in DOMAIN s /\ b + 1 \in DOMAIN s /\ s[a + 1] = s[b + 1]
    BY <1>1
  <2> QED  BY <1>1, <2>1 DEF Once
<1>3. Head(s) \notin ToSet(t)
  <2> SUFFICES ASSUME NEW n \in DOMAIN t, t[n] = Head(s) PROVE FALSE
    BY DEF ToSet
  <2>1. n + 1 \in DOMAIN s /\ 1 \in DOMAIN s /\ s[n + 1] = s[1]
    BY <1>1
  <2> QED  BY <1>1, <2>1 DEF Once
<1>4. ToSet(s) = ToSet(t) \cup {Head(s)}
  <2>1. ASSUME NEW n \in DOMAIN s PROVE s[n] \in ToSet(t) \cup {Head(s)}
    <3>1. CASE n = 1
      BY <1>1, <3>1
    <3>2. CASE n # 1
      <4>1. n - 1 \in DOMAIN t /\ t[n - 1] = s[n]
        BY <1>1, <3>2
      <4> QED  BY <4>1 DEF ToSet
    <3> QED  BY <3>1, <3>2
  <2>2. ASSUME NEW n \in DOMAIN t PROVE t[n] \in ToSet(s)
    <3>1. n + 1 \in DOMAIN s /\ t[n] = s[n + 1]
      BY <1>1
    <3> QED  BY <3>1 DEF ToSet
  <2>3. Head(s) \in ToSet(s)
    <3>1. 1 \in DOMAIN s
      BY <1>1
    <3> QED  BY <1>1, <3>1 DEF ToSet
  <2> QED  BY <2>1, <2>2, <2>3 DEF ToSet
<1> QED  BY <1>1, <1>2, <1>3, <1>4 DEF t

\* As many ids as entries.
LEMMA IdsCount ==
  ASSUME NEW s \in Seq(Entries), Distinct(s)
  PROVE  Cardinality(Ids(s)) = Len(s)
<1> DEFINE f == [n \in 1 .. Len(s) |-> s[n].id]
<1>1. DOMAIN s = 1 .. Len(s) /\ Len(s) \in Nat
  BY LenProperties
<1>2. IsFiniteSet(1 .. Len(s)) /\ Cardinality(1 .. Len(s)) = Len(s)
  BY <1>1, FS_Interval
<1>3. f \in Bijection(1 .. Len(s), Ids(s))
  BY <1>1 DEF Bijection, Injection, Surjection, IsInjective, Ids, Distinct
<1>4. ExistsBijection(1 .. Len(s), Ids(s))
  BY <1>3 DEF ExistsBijection
<1> QED  BY <1>2, <1>4, FS_Bijection

LEMMA IdsOf ==
  ASSUME NEW s \in Seq(Entries)
  PROVE  /\ DOMAIN s = 1 .. Len(s) /\ Len(s) \in Nat
         /\ \A n \in DOMAIN s : s[n] \in Entries /\ s[n].id \in Ids(s)
  BY LenProperties, ElementOfSeq DEF Ids

\* A thread with one more entry.
LEMMA AppendEntry ==
  ASSUME NEW stored, NEW s, Honest(s, stored),
         NEW e \in Entries, e.id \notin Ids(s),
         e.id \in stored \/ (e.id \in Temps /\ e.read)
  PROVE  /\ Honest(Append(s, e), stored)
         /\ Ids(Append(s, e)) = Ids(s) \cup {e.id}
         /\ Append(s, e) \in Seq(Entries) /\ Append(s, e) # s
         /\ Len(s) + 1 \in DOMAIN Append(s, e) /\ Append(s, e)[Len(s) + 1] = e
<1> DEFINE t == Append(s, e)
<1>1. /\ s \in Seq(Entries) /\ t \in Seq(Entries)
      /\ Len(t) = Len(s) + 1 /\ Len(s) \in Nat
      /\ DOMAIN t = 1 .. Len(t) /\ DOMAIN s = 1 .. Len(s)
      /\ \A n \in 1 .. Len(s) : t[n] = s[n]
      /\ t[Len(s) + 1] = e
  BY AppendProperties, LenProperties DEF Honest
<1> HIDE DEF t
<1>2. \A n \in DOMAIN s : s[n].id # e.id
  BY DEF Ids
<1>3. Distinct(t)
  BY <1>1, <1>2 DEF Distinct, Honest
<1>4. \A n \in DOMAIN t : t[n].id \in stored \/ (t[n].id \in Temps /\ t[n].read)
  BY <1>1 DEF Honest
<1>5. Ids(t) = Ids(s) \cup {e.id}
  <2>1. ASSUME NEW n \in DOMAIN t PROVE t[n].id \in Ids(s) \cup {e.id}
    BY <1>1 DEF Ids
  <2>2. ASSUME NEW n \in DOMAIN s PROVE s[n].id \in Ids(t)
    <3>1. n \in DOMAIN t /\ t[n] = s[n]
      BY <1>1
    <3> QED  BY <3>1 DEF Ids
  <2>3. e.id \in Ids(t)
    <3>1. Len(s) + 1 \in DOMAIN t
      BY <1>1
    <3> QED  BY <1>1, <3>1 DEF Ids
  <2> QED  BY <2>1, <2>2, <2>3 DEF Ids
<1>6. t # s
  BY <1>1
<1>7. Len(s) + 1 \in DOMAIN t
  BY <1>1
<1> QED  BY <1>1, <1>3, <1>4, <1>5, <1>6, <1>7 DEF t, Honest

\* A thread with one entry less.
LEMMA RemoveEntry ==
  ASSUME NEW stored, NEW s, Honest(s, stored), NEW k \in DOMAIN s
  PROVE  /\ Honest(RemoveAt(s, k), stored)
         /\ Ids(RemoveAt(s, k)) = Ids(s) \ {s[k].id}
<1> DEFINE l == SubSeq(s, 1, k - 1)
           r == SubSeq(s, k + 1, Len(s))
           t == RemoveAt(s, k)
           Was(n) == IF n < k THEN n ELSE n + 1
<1>1. /\ s \in Seq(Entries) /\ Len(s) \in Nat /\ DOMAIN s = 1 .. Len(s)
      /\ \A n \in 1 .. Len(s) : s[n] \in Entries
  BY LenProperties, ElementOfSeq DEF Honest
<1>2. /\ l \in Seq(Entries) /\ Len(l) = k - 1
      /\ \A n \in 1 .. k - 1 : l[n] = s[n]
  <2>1. /\ l \in Seq(Entries)
        /\ Len(l) = IF 1 <= k - 1 THEN (k - 1) - 1 + 1 ELSE 0
        /\ \A n \in 1 .. (k - 1) - 1 + 1 : l[n] = s[1 + n - 1]
    <3>1. 1 \in Int /\ k - 1 \in Int /\ \A n \in 1 .. k - 1 : s[n] \in Entries
      BY <1>1
    <3> QED  BY <3>1, SubSeqProperties
  <2> HIDE DEF l
  <2>2. Len(l) = k - 1
    BY <1>1, <2>1
  <2>3. ASSUME NEW n \in 1 .. k - 1 PROVE l[n] = s[n]
    <3>1. n \in 1 .. (k - 1) - 1 + 1 /\ 1 + n - 1 = n
      BY <1>1
    <3> QED  BY <2>1, <3>1
  <2> QED  BY <2>1, <2>2, <2>3
<1>3. /\ r \in Seq(Entries) /\ Len(r) = Len(s) - k
      /\ \A n \in 1 .. Len(s) - k : r[n] = s[k + n]
  <2>1. /\ r \in Seq(Entries)
        /\ Len(r) = IF k + 1 <= Len(s) THEN Len(s) - (k + 1) + 1 ELSE 0
        /\ \A n \in 1 .. Len(s) - (k + 1) + 1 : r[n] = s[(k + 1) + n - 1]
    <3>1. k + 1 \in Int /\ Len(s) \in Int /\ \A n \in k + 1 .. Len(s) : s[n] \in Entries
      BY <1>1
    <3> QED  BY <3>1, SubSeqProperties
  <2> HIDE DEF r
  <2>2. Len(r) = Len(s) - k
    BY <1>1, <2>1
  <2>3. ASSUME NEW n \in 1 .. Len(s) - k PROVE r[n] = s[k + n]
    <3>1. n \in 1 .. Len(s) - (k + 1) + 1 /\ (k + 1) + n - 1 = k + n
      BY <1>1
    <3> QED  BY <2>1, <3>1
  <2> QED  BY <2>1, <2>2, <2>3
<1>4. t = l \o r
  BY DEF RemoveAt
<1> HIDE DEF l, r, t
<1>5. /\ t \in Seq(Entries) /\ Len(t) = Len(l) + Len(r)
      /\ \A n \in 1 .. Len(l) + Len(r) : t[n] = IF n <= Len(l) THEN l[n] ELSE r[n - Len(l)]
  BY <1>2, <1>3, <1>4, ConcatProperties
<1>6. DOMAIN t = 1 .. Len(s) - 1
  BY <1>1, <1>2, <1>3, <1>5, LenProperties
<1>7. ASSUME NEW n \in DOMAIN t
      PROVE  Was(n) \in DOMAIN s /\ Was(n) # k /\ t[n] = s[Was(n)]
  <2>1. CASE n < k
    BY <1>1, <1>2, <1>3, <1>5, <1>6, <2>1
  <2>2. CASE ~(n < k)
    <3>1. n \in 1 .. Len(l) + Len(r) /\ ~(n <= Len(l)) /\ n - Len(l) \in 1 .. Len(s) - k
          /\ k + (n - Len(l)) = n + 1
      BY <1>1, <1>2, <1>3, <1>6, <2>2
    <3>2. t[n] = r[n - Len(l)]
      BY <1>5, <3>1
    <3>3. r[n - Len(l)] = s[n + 1]
      BY <1>3, <3>1
    <3> QED  BY <1>1, <1>6, <2>2, <3>2, <3>3
  <2> QED  BY <2>1, <2>2
<1>8. ASSUME NEW m \in DOMAIN s, m # k
      PROVE  \E n \in DOMAIN t : t[n] = s[m]
  <2>1. CASE m < k
    <3>1. m \in DOMAIN t /\ Was(m) = m
      BY <1>1, <1>6, <2>1
    <3> QED  BY <1>7, <3>1
  <2>2. CASE m > k
    <3>1. m - 1 \in DOMAIN t /\ Was(m - 1) = m
      BY <1>1, <1>6, <2>2
    <3> QED  BY <1>7, <3>1
  <2> QED  BY <1>1, <1>8, <2>1, <2>2
<1>9. Distinct(t)
  <2> SUFFICES ASSUME NEW a \in DOMAIN t, NEW b \in DOMAIN t, t[a].id = t[b].id
               PROVE  a = b
    BY DEF Distinct
  <2>1. Was(a) = Was(b)
    BY <1>7 DEF Honest, Distinct
  <2> QED  BY <1>1, <1>6, <2>1
<1>10. \A n \in DOMAIN t : t[n].id \in stored \/ (t[n].id \in Temps /\ t[n].read)
  BY <1>7 DEF Honest
<1> HIDE DEF Was
<1>11. Ids(t) = Ids(s) \ {s[k].id}
  <2>1. ASSUME NEW n \in DOMAIN t PROVE t[n].id \in Ids(s) /\ t[n].id # s[k].id
    BY <1>7 DEF Honest, Distinct, Ids
  <2>2. ASSUME NEW m \in DOMAIN s, s[m].id # s[k].id PROVE s[m].id \in Ids(t)
    <3>1. m # k
      BY <2>2
    <3>2. PICK n \in DOMAIN t : t[n] = s[m]
      BY <1>8, <3>1
    <3> QED  BY <3>2 DEF Ids
  <2> QED  BY <2>1, <2>2 DEF Ids
<1> QED  BY <1>5, <1>9, <1>10, <1>11 DEF t, Honest

-----------------------------------------------------------------------------
(* The page the server answers with                                        *)

\* The first elements of a sequence.
LEMMA PrefixOf ==
  ASSUME NEW S, NEW s \in Seq(S), NEW k \in Nat, k <= Len(s)
  PROVE  /\ SubSeq(s, 1, k) \in Seq(S) /\ Len(SubSeq(s, 1, k)) = k
         /\ DOMAIN SubSeq(s, 1, k) = 1 .. k
         /\ \A n \in 1 .. k : SubSeq(s, 1, k)[n] = s[n]
<1>1. Len(s) \in Nat /\ \A n \in 1 .. k : s[n] \in S
  BY LenProperties, ElementOfSeq
<1>2. /\ SubSeq(s, 1, k) \in Seq(S)
      /\ Len(SubSeq(s, 1, k)) = IF 1 <= k THEN k - 1 + 1 ELSE 0
      /\ \A n \in 1 .. k - 1 + 1 : SubSeq(s, 1, k)[n] = s[1 + n - 1]
  BY <1>1, SubSeqProperties
<1>3. Len(SubSeq(s, 1, k)) = k
  BY <1>2
<1>4. ASSUME NEW n \in 1 .. k PROVE SubSeq(s, 1, k)[n] = s[n]
  <2>1. n \in 1 .. k - 1 + 1 /\ 1 + n - 1 = n
    OBVIOUS
  <2> QED  BY <1>2, <2>1
<1> QED  BY <1>2, <1>3, <1>4, LenProperties

LEMMA PageFacts ==
  ASSUME rows \in Seq(Messages), Once(rows)
  PROVE  /\ FirstPage \in Seq(Messages) /\ Once(FirstPage)
         /\ ToSet(FirstPage) \subseteq Stored
<1> DEFINE k == IF Len(rows) < Page THEN Len(rows) ELSE Page
<1>1. /\ Len(rows) \in Nat /\ DOMAIN rows = 1 .. Len(rows)
      /\ k \in Nat /\ k <= Len(rows)
      /\ \A n \in 1 .. k : rows[n] \in Messages
  BY LenProperties, ElementOfSeq, PageAssumption
<1> HIDE DEF k
<1>2. /\ FirstPage \in Seq(Messages) /\ Len(FirstPage) = k
      /\ \A n \in 1 .. k : FirstPage[n] = rows[n]
  <2>1. FirstPage = SubSeq(rows, 1, k)
    BY DEF FirstPage, k
  <2> QED  BY <1>1, <2>1, PrefixOf
<1>3. DOMAIN FirstPage = 1 .. k
  BY <1>2, LenProperties
<1>4. Once(FirstPage)
  BY <1>1, <1>2, <1>3 DEF Once
<1>5. ToSet(FirstPage) \subseteq Stored
  <2>1. ASSUME NEW n \in DOMAIN FirstPage PROVE FirstPage[n] \in Stored
    <3>1. n \in DOMAIN rows /\ FirstPage[n] = rows[n]
      BY <1>1, <1>2, <1>3
    <3> QED  BY <3>1 DEF Stored, ToSet
  <2> QED  BY <2>1 DEF ToSet
<1> QED  BY <1>2, <1>4, <1>5

\* A fetch selects the page, each message once.
LEMMA SelectedPage ==
  ASSUME rows \in Seq(Messages), Once(rows)
  PROVE  /\ Honest([n \in DOMAIN FirstPage |-> Entry(FirstPage[n])], Stored)
         /\ Ids([n \in DOMAIN FirstPage |-> Entry(FirstPage[n])]) = ToSet(FirstPage)
<1> DEFINE got == [n \in DOMAIN FirstPage |-> Entry(FirstPage[n])]
<1>1. /\ FirstPage \in Seq(Messages) /\ Once(FirstPage)
      /\ ToSet(FirstPage) \subseteq Stored
  BY PageFacts
<1>2. DOMAIN FirstPage = 1 .. Len(FirstPage) /\ Len(FirstPage) \in Nat
  BY <1>1, LenProperties
<1>3. \A n \in DOMAIN FirstPage : FirstPage[n] \in Messages /\ FirstPage[n] \in Stored
  <2>1. \A n \in DOMAIN FirstPage : FirstPage[n] \in Messages
    BY <1>1, <1>2, ElementOfSeq
  <2> QED  BY <1>1, <2>1 DEF ToSet
<1>4. \A n \in DOMAIN FirstPage : Entry(FirstPage[n]) \in Entries /\ Entry(FirstPage[n]).id = FirstPage[n]
  BY <1>3 DEF Entry, Entries
<1>5. /\ DOMAIN got = DOMAIN FirstPage
      /\ \A n \in DOMAIN got : got[n] \in Entries /\ got[n].id = FirstPage[n]
  BY <1>4
<1> HIDE DEF got
<1>6. got \in Seq(Entries)
  <2>1. got = [n \in 1 .. Len(FirstPage) |-> got[n]]
    BY <1>2, <1>5 DEF got
  <2> QED  BY <1>2, <1>5, <2>1
<1>7. Distinct(got)
  BY <1>1, <1>5 DEF Distinct, Once
<1>8. Ids(got) = ToSet(FirstPage)
  BY <1>5 DEF Ids, ToSet
<1>9. \A n \in DOMAIN got : got[n].id \in Stored
  BY <1>3, <1>5
<1> QED  BY <1>6, <1>7, <1>8, <1>9 DEF got, Honest

\* A message that is stored comes after the others: it adds itself at most.
PageOf(s) == SubSeq(s, 1, IF Len(s) < Page THEN Len(s) ELSE Page)

LEMMA PageGrows ==
  ASSUME NEW S, NEW s \in Seq(S), NEW m \in S
  PROVE  ToSet(PageOf(Append(s, m))) \subseteq ToSet(PageOf(s)) \cup {m}
<1>1. PICK t : t = Append(s, m)
  OBVIOUS
<1>2. PICK l \in Nat : l = Len(s)
  BY LenProperties
<1>3. /\ t \in Seq(S) /\ Len(t) = l + 1
      /\ \A n \in 1 .. l : t[n] = s[n]
      /\ t[l + 1] = m
  BY <1>1, <1>2, AppendProperties
<1>4. Page \in Nat
  BY PageAssumption
<1>5. PICK k \in Nat : k = IF l < Page THEN l ELSE Page
  BY <1>4
<1>6. PICK k2 \in Nat : k2 = IF l + 1 < Page THEN l + 1 ELSE Page
  BY <1>4
<1>7. k <= l /\ k2 <= l + 1 /\ (k2 = k \/ (k2 = k + 1 /\ k = l))
  BY <1>4, <1>5, <1>6
<1>8. PageOf(s) = SubSeq(s, 1, k) /\ PageOf(t) = SubSeq(t, 1, k2)
  BY <1>2, <1>3, <1>5, <1>6 DEF PageOf
<1>9. /\ DOMAIN PageOf(s) = 1 .. k
      /\ \A n \in 1 .. k : PageOf(s)[n] = s[n]
  BY <1>2, <1>7, <1>8, PrefixOf
<1>10. /\ DOMAIN PageOf(t) = 1 .. k2
       /\ \A n \in 1 .. k2 : PageOf(t)[n] = t[n]
  BY <1>3, <1>7, <1>8, PrefixOf
<1>11. ASSUME NEW n \in 1 .. k2 PROVE t[n] \in ToSet(PageOf(s)) \cup {m}
  <2>1. CASE n <= k
    <3>1. n \in DOMAIN PageOf(s) /\ PageOf(s)[n] = t[n]
      BY <1>3, <1>7, <1>9, <2>1
    <3> QED  BY <3>1 DEF ToSet
  <2>2. CASE ~(n <= k)
    <3>1. n = l + 1
      BY <1>7, <2>2
    <3> QED  BY <1>3, <3>1
  <2> QED  BY <2>1, <2>2
<1> QED  BY <1>1, <1>10, <1>11 DEF ToSet

-----------------------------------------------------------------------------
(* The thread and the server: what is stored is stored once, what is on    *)
(* screen or in an answer is stored or is the stand-in of a send that did  *)
(* not fail, and never both; a fetch in progress was asked after every     *)
(* send that was made.                                                     *)

RowsOnce ==
  /\ Once(rows)
  /\ \A i \in Sends : Mine(i) \in Stored => send[i] # "idle"

WireOnce ==
  /\ Once(wire)
  /\ \A k \in ToSet(wire) : Theirs(k) \in Stored

ThreadHonest == thread # None => Honest(thread, Stored)

StandIns ==
  \A i \in Sends : Temp(i) \in Shown =>
      send[i] \in {"posting", "sent"} /\ Mine(i) \notin Shown

FetchHonest ==
  getThread # None => Honest(getThread.got, Stored) /\ Ids(getThread.got) \subseteq Stored

FetchIsNew ==
  getThread # None => \A i \in Sends : send[i] # "idle" => i \in getThread.after

ChatInv ==
  /\ TypeOK /\ RowsOnce /\ WireOnce
  /\ ThreadHonest /\ StandIns /\ FetchHonest /\ FetchIsNew

\* What is stored is a message.
LEMMA StoredType ==
  ASSUME rows \in Seq(Messages)
  PROVE  Stored \subseteq Messages
  BY LenProperties, ElementOfSeq DEF Stored, ToSet

LEMMA MessageKinds ==
  /\ \A i \in Sends : Mine(i) \in Messages /\ Temp(i) \in Temps
  /\ \A k \in Incoming : Theirs(k) \in Messages
  /\ \A m \in Messages, i \in Sends : m # Temp(i)
  /\ Messages \cap Temps = {}
  BY KindsDiffer DEF Messages, Temps

\* Storing a message that is not there yet.
LEMMA StoreMessage ==
  ASSUME TypeOK, Once(rows), NEW m \in Messages, m \notin Stored, rows' = Append(rows, m)
  PROVE  /\ rows' \in Seq(Messages) /\ Once(rows')
         /\ Stored' = Stored \cup {m}
         /\ ToSet(FirstPage)' \subseteq ToSet(FirstPage) \cup {m}
<1>1. rows \in Seq(Messages) /\ m \notin ToSet(rows)
  BY DEF TypeOK, Stored
<1>2. /\ Append(rows, m) \in Seq(Messages) /\ Once(Append(rows, m))
      /\ ToSet(Append(rows, m)) = ToSet(rows) \cup {m}
  BY <1>1, AppendOnce
<1>3. ToSet(PageOf(Append(rows, m))) \subseteq ToSet(PageOf(rows)) \cup {m}
  BY <1>1, PageGrows
<1>4. ToSet(FirstPage)' = ToSet(PageOf(Append(rows, m))) /\ ToSet(FirstPage) = ToSet(PageOf(rows))
  BY DEF FirstPage, PageOf, ToSet
<1>5. Stored' = ToSet(rows') /\ Stored = ToSet(rows)
  BY DEF Stored
<1> QED  BY <1>2, <1>3, <1>4, <1>5

LEMMA HonestGrows ==
  ASSUME NEW s, NEW S, NEW T, S \subseteq T, Honest(s, S)
  PROVE  Honest(s, T)
  BY DEF Honest

\* What a new value of the thread marks are messages.
LEMMA WriteMarks ==
  ASSUME TypeOK, NEW s, s = None \/ Honest(s, Stored), Write(s)
  PROVE  thread' = s /\ thread' \in Seq(Entries) \cup {None}
         /\ marks' \subseteq Messages /\ marks \subseteq marks'
<1>1. Stored \subseteq Messages
  BY StoredType DEF TypeOK
<1>2. UnreadIn(s) \subseteq Messages
  BY <1>1 DEF UnreadIn, Honest
<1> QED  BY <1>2 DEF Write, TypeOK, Honest

\* The stand-in a send adds.
LEMMA SendWrites ==
  ASSUME ChatInv, NEW i \in Sends, Send(i)
  PROVE  /\ thread' # None /\ Honest(thread', Stored)
         /\ Shown' = Shown \cup {Temp(i)}
         /\ marks' \subseteq Messages /\ marks \subseteq marks'
<1> DEFINE s == IF thread = None THEN <<>> ELSE thread
           e == [id |-> Temp(i), read |-> TRUE]
<1>1. /\ s \in Seq(Entries) /\ Honest(s, Stored) /\ Ids(s) = Shown
  <2>1. CASE thread = None
    <3>1. <<>> \in Seq(Entries) /\ Ids(<<>>) = {} /\ Honest(<<>>, Stored)
      BY DEF Ids, Honest, Distinct
    <3> QED  BY <2>1, <3>1 DEF Shown
  <2>2. CASE thread # None
    BY <2>2 DEF Shown, ChatInv, ThreadHonest, Honest
  <2> QED  BY <2>1, <2>2
<1>2. e \in Entries /\ e.id = Temp(i) /\ e.read /\ e.id \in Temps
  BY DEF Entries, Temps
<1>3. Temp(i) \notin Shown
  BY DEF Send, MaySend, ChatInv, StandIns
<1>4. Write(s \o <<e>>)
  BY DEF Send
<1>5. s \o <<e>> = Append(s, e)
  BY <1>1, <1>2, AppendIsConcat
<1> HIDE DEF s, e
<1>6. /\ Honest(Append(s, e), Stored) /\ Ids(Append(s, e)) = Shown \cup {Temp(i)}
      /\ Append(s, e) \in Seq(Entries)
  BY <1>1, <1>2, <1>3, AppendEntry
<1>7. /\ thread' = Append(s, e)
      /\ marks' \subseteq Messages /\ marks \subseteq marks'
  BY <1>4, <1>5, <1>6, WriteMarks DEF ChatInv
<1>8. thread' # None
  BY <1>6, <1>7, NoneAssumption
<1>9. Shown' = Ids(thread')
  BY <1>8 DEF Shown
<1> QED  BY <1>6, <1>7, <1>8, <1>9

\* What a rollback leaves.
LEMMA FailWrites ==
  ASSUME ChatInv, NEW i \in Sends, SendFails(i)
  PROVE  /\ thread' = None \/ Honest(thread', Stored)
         /\ thread' # None <=> thread # None /\ hadCache[i]
         /\ Shown' = IF thread' = None THEN {} ELSE Shown \ {Temp(i)}
         /\ thread' \in Seq(Entries) \cup {None}
         /\ marks' \subseteq Messages /\ marks \subseteq marks'
<1>1. ASSUME NEW s, s = None \/ Honest(s, Stored), Write(s)
      PROVE  /\ thread' = s /\ thread' \in Seq(Entries) \cup {None}
             /\ marks' \subseteq Messages /\ marks \subseteq marks'
  BY <1>1, WriteMarks DEF ChatInv
<1>2. CASE hadCache[i] /\ thread # None
  <2>1. Write(WithoutOwn(i))
    BY <1>2 DEF SendFails
  <2>2. Honest(thread, Stored) /\ Shown = Ids(thread)
    BY <1>2 DEF ChatInv, ThreadHonest, Shown
  <2>3. Honest(WithoutOwn(i), Stored) /\ Ids(WithoutOwn(i)) = Shown \ {Temp(i)}
    <3>1. CASE Temp(i) \in Shown
      <4>1. PICK n : n = CHOOSE a \in DOMAIN thread : thread[a].id = Temp(i)
        OBVIOUS
      <4>2. n \in DOMAIN thread /\ thread[n].id = Temp(i)
        BY <2>2, <3>1, <4>1 DEF Ids
      <4>3. WithoutOwn(i) = RemoveAt(thread, n)
        BY <3>1, <4>1 DEF WithoutOwn
      <4> QED  BY <2>2, <4>2, <4>3, RemoveEntry
    <3>2. CASE Temp(i) \notin Shown
      BY <2>2, <3>2 DEF WithoutOwn
    <3> QED  BY <3>1, <3>2
  <2>4. thread' = WithoutOwn(i)
    BY <1>1, <2>1, <2>3
  <2>5. thread' # None
    BY <2>3, <2>4, NoneAssumption DEF Honest
  <2>6. Shown' = Ids(thread')
    BY <2>5 DEF Shown
  <2> QED  BY <1>1, <1>2, <2>1, <2>3, <2>4, <2>5, <2>6
<1>3. CASE ~(hadCache[i] /\ thread # None)
  <2>1. Write(None)
    BY <1>3 DEF SendFails
  <2>2. thread' = None /\ Shown' = {}
    BY <1>1, <2>1 DEF Shown
  <2> QED  BY <1>1, <1>3, <2>1, <2>2
<1> QED  BY <1>2, <1>3

\* What an envelope does to a loaded thread.
LEMMA MessageWrites ==
  ASSUME ChatInv, OnMessage
  PROVE  /\ Head(wire) \in Incoming /\ Theirs(Head(wire)) \in Stored
         /\ Tail(wire) \in Seq(Incoming) /\ Once(Tail(wire))
         /\ ToSet(wire) = ToSet(Tail(wire)) \cup {Head(wire)}
         /\ Head(wire) \notin ToSet(Tail(wire))
         /\ marks' \subseteq Messages /\ marks \subseteq marks'
         /\ thread = None => thread' = None
         /\ thread # None => thread' # None /\ Honest(thread', Stored)
         /\ \/ platform # "phone" \/ thread = None
            \/ thread' = thread /\ Theirs(Head(wire)) \in Shown
            \/ Shown' = Shown \cup {Theirs(Head(wire))} /\ marks' # {}
         /\ platform # "phone" => thread' = thread
<1> DEFINE h == Head(wire)
           m == Theirs(h)
<1>1. /\ h \in Incoming /\ Tail(wire) \in Seq(Incoming) /\ Once(Tail(wire))
      /\ ToSet(wire) = ToSet(Tail(wire)) \cup {h} /\ h \notin ToSet(Tail(wire))
  BY TailOnce DEF ChatInv, TypeOK, WireOnce, OnMessage
<1>2. m \in Stored
  BY <1>1 DEF ChatInv, WireOnce
<1> HIDE DEF m
<1> DEFINE Effect == /\ marks' \subseteq Messages /\ marks \subseteq marks'
                     /\ thread = None => thread' = None
                     /\ thread # None => thread' # None /\ Honest(thread', Stored)
                     /\ \/ platform # "phone" \/ thread = None
                        \/ thread' = thread /\ m \in Shown
                        \/ Shown' = Shown \cup {m} /\ marks' # {}
                     /\ platform # "phone" => thread' = thread
<1>3. ASSUME platform # "phone" PROVE Effect
  <2>1. thread' = thread /\ marks' = marks
    BY <1>3 DEF OnMessage
  <2> QED  BY <1>3, <2>1 DEF ChatInv, ThreadHonest, TypeOK
<1>4. ASSUME platform = "phone", thread = None PROVE Effect
  <2>1. Write(None)
    BY <1>4 DEF OnMessage
  <2> QED  BY <1>4, <2>1, WriteMarks DEF ChatInv
<1>5. ASSUME platform = "phone", thread # None PROVE Effect
  <2>1. Write(AppendNew(m))
    BY <1>5 DEF OnMessage, m
  <2>2. Honest(thread, Stored) /\ Shown = Ids(thread) /\ thread \in Seq(Entries)
    BY <1>5 DEF ChatInv, ThreadHonest, Shown, Honest
  <2>3. CASE m \in Shown
    <3>1. AppendNew(m) = thread
      BY <2>3 DEF AppendNew
    <3>2. /\ thread' = thread
          /\ marks' \subseteq Messages /\ marks \subseteq marks'
      BY <2>1, <2>2, <3>1, WriteMarks DEF ChatInv
    <3> QED  BY <1>5, <2>2, <2>3, <3>2
  <2>4. CASE m \notin Shown
    <3> DEFINE e == [id |-> m, read |-> FALSE]
    <3>1. m \in Messages
      BY <1>2, StoredType DEF ChatInv, TypeOK
    <3>2. e \in Entries /\ e.id = m /\ e.read = FALSE
      BY <3>1 DEF Entries
    <3>3. AppendNew(m) = Append(thread, e)
      BY <2>4 DEF AppendNew
    <3> HIDE DEF e
    <3>4. /\ Honest(Append(thread, e), Stored) /\ Ids(Append(thread, e)) = Shown \cup {m}
          /\ Append(thread, e) \in Seq(Entries) /\ Append(thread, e) # thread
          /\ Len(thread) + 1 \in DOMAIN Append(thread, e) /\ Append(thread, e)[Len(thread) + 1] = e
      BY <1>2, <2>2, <2>4, <3>2, AppendEntry
    <3>5. /\ thread' = Append(thread, e)
          /\ marks' \subseteq Messages /\ marks \subseteq marks'
      BY <2>1, <3>3, <3>4, WriteMarks DEF ChatInv
    <3>6. thread' # None
      BY <3>4, <3>5, NoneAssumption
    <3>7. Shown' = Shown \cup {m}
      BY <3>4, <3>5, <3>6 DEF Shown
    <3>8. PICK n \in DOMAIN thread' : thread'[n].id = m /\ ~thread'[n].read
      BY <3>2, <3>4, <3>5
    <3>9. marks' = marks \cup UnreadIn(thread') /\ m \in UnreadIn(thread')
      BY <1>5, <2>1, <3>3, <3>4, <3>5, <3>6, <3>8 DEF Write, UnreadIn
    <3> QED  BY <1>5, <3>4, <3>5, <3>6, <3>7, <3>9
  <2> QED  BY <2>3, <2>4
<1>6. Effect
  BY <1>3, <1>4, <1>5
<1> QED  BY <1>1, <1>2, <1>6 DEF m

-----------------------------------------------------------------------------
(* Every step keeps ChatInv, one conjunct at a time                        *)

\* A step: the actions, with the parameters of those that have one.
LEMMA Steps ==
  ASSUME Next
  PROVE  \/ Load \/ Select \/ MarkConversationRead \/ Land \/ GetFails
         \/ Poll \/ CountUnread \/ LandBadge \/ BadgeFails
         \/ \E i \in Sends : Send(i) \/ Store(i) \/ SendAnswered(i) \/ SendFails(i)
         \/ \E k \in Incoming : Arrive(k)
         \/ OnMessage \/ SocketBreaks
         \/ \E m \in marks : MarkSettles(m)
  BY DEF Next, Cache

\* A send that was made stays made.
LEMMA NextSend ==
  ASSUME ChatInv, [Next]_vars
  PROVE  /\ send' \in [Sends -> {"idle", "posting", "sent", "failed"}]
         /\ hadCache' \in [Sends -> BOOLEAN]
         /\ \A i \in Sends : send[i] # "idle" => send'[i] # "idle"
<1> USE DEF ChatInv, TypeOK
<1> DEFINE Goal == /\ send' \in [Sends -> {"idle", "posting", "sent", "failed"}]
                   /\ hadCache' \in [Sends -> BOOLEAN]
                   /\ \A i \in Sends : send[i] # "idle" => send'[i] # "idle"
<1>1. ASSUME UNCHANGED <<send, hadCache>> PROVE Goal
  BY <1>1
<1>2. ASSUME NEW i \in Sends, Send(i) PROVE Goal
  BY <1>2 DEF Send
<1>3. ASSUME NEW i \in Sends, SendAnswered(i) PROVE Goal
  BY <1>3 DEF SendAnswered
<1>4. ASSUME NEW i \in Sends, SendFails(i) PROVE Goal
  BY <1>4 DEF SendFails
<1>5. ASSUME Next PROVE Goal
  <2>1. \/ UNCHANGED <<send, hadCache>>
        \/ \E i \in Sends : Send(i) \/ SendAnswered(i) \/ SendFails(i)
    BY <1>5, Steps DEF Contexts, Load, Select, MarkConversationRead, Land, GetFails, Poll,
       CountUnread, LandBadge, BadgeFails, Store, Arrive, OnMessage, SocketBreaks, MarkSettles
  <2> HIDE DEF Goal
  <2> QED  BY <1>1, <1>2, <1>3, <1>4, <2>1
<1>6. ASSUME UNCHANGED vars PROVE Goal
  BY <1>1, <1>6 DEF vars
<1> QED  BY <1>5, <1>6

LEMMA NextRows ==
  ASSUME ChatInv, [Next]_vars
  PROVE  rows' \in Seq(Messages) /\ RowsOnce' /\ Stored \subseteq Stored'
<1>1. \A i \in Sends : send[i] # "idle" => send'[i] # "idle"
  BY NextSend
<1>2. rows \in Seq(Messages) /\ RowsOnce /\ TypeOK /\ Once(rows)
  BY DEF ChatInv, TypeOK, RowsOnce
<1> DEFINE Goal == rows' \in Seq(Messages) /\ RowsOnce' /\ Stored \subseteq Stored'
<1>3. ASSUME rows' = rows PROVE Goal
  <2>1. Stored' = Stored
    BY <1>3 DEF Stored
  <2> QED  BY <1>1, <1>2, <1>3, <2>1 DEF RowsOnce
<1>4. ASSUME NEW i \in Sends, Store(i) PROVE Goal
  <2>1. Mine(i) \in Messages /\ Mine(i) \notin Stored /\ rows' = Append(rows, Mine(i)) /\ send[i] # "idle"
    BY <1>4, MessageKinds DEF Store
  <2>2. rows' \in Seq(Messages) /\ Once(rows') /\ Stored' = Stored \cup {Mine(i)}
    BY <1>2, <2>1, StoreMessage
  <2>3. ASSUME NEW j \in Sends, Mine(j) \in Stored' PROVE send'[j] # "idle"
    <3>1. CASE j = i
      BY <1>1, <2>1, <3>1
    <3>2. CASE j # i
      BY <1>1, <1>2, <2>2, <2>3, <3>2, KindsDiffer DEF RowsOnce
    <3> QED  BY <3>1, <3>2
  <2> QED  BY <2>2, <2>3 DEF RowsOnce
<1>5. ASSUME NEW k \in Incoming, Arrive(k) PROVE Goal
  <2>1. Theirs(k) \in Messages /\ Theirs(k) \notin Stored /\ rows' = Append(rows, Theirs(k))
    BY <1>5, MessageKinds DEF Arrive
  <2>2. rows' \in Seq(Messages) /\ Once(rows') /\ Stored' = Stored \cup {Theirs(k)}
    BY <1>2, <2>1, StoreMessage
  <2>3. ASSUME NEW j \in Sends, Mine(j) \in Stored' PROVE send'[j] # "idle"
    BY <1>1, <1>2, <2>2, <2>3, KindsDiffer DEF RowsOnce
  <2> QED  BY <2>2, <2>3 DEF RowsOnce
<1>6. ASSUME Next PROVE Goal
  <2>1. \/ rows' = rows
        \/ \E i \in Sends : Store(i)
        \/ \E k \in Incoming : Arrive(k)
    BY <1>6, Steps DEF Server, Load, Select, MarkConversationRead, Land, GetFails, Poll,
       CountUnread, LandBadge, BadgeFails, Send, SendAnswered, SendFails, OnMessage, SocketBreaks, MarkSettles
  <2> HIDE DEF Goal
  <2> QED  BY <1>3, <1>4, <1>5, <2>1
<1>7. ASSUME UNCHANGED vars PROVE Goal
  BY <1>3, <1>7 DEF vars
<1> QED  BY <1>6, <1>7

LEMMA NextWire ==
  ASSUME ChatInv, [Next]_vars
  PROVE  wire' \in Seq(Incoming) /\ WireOnce'
<1>1. Stored \subseteq Stored'
  BY NextRows
<1>2. wire \in Seq(Incoming) /\ WireOnce /\ Once(wire)
  BY DEF ChatInv, TypeOK, WireOnce
<1> DEFINE Goal == wire' \in Seq(Incoming) /\ WireOnce'
<1>3. ASSUME wire' = wire PROVE Goal
  <2>1. ToSet(wire') = ToSet(wire) /\ Once(wire')
    BY <1>2, <1>3
  <2> QED  BY <1>1, <1>2, <1>3, <2>1 DEF WireOnce
<1>4. ASSUME NEW k \in Incoming, Arrive(k) PROVE Goal
  <2>1. CASE wire' = wire
    BY <1>3, <2>1
  <2>2. CASE wire' = Append(wire, k)
    <3>1. Theirs(k) \notin Stored /\ rows' = Append(rows, Theirs(k))
      BY <1>4 DEF Arrive
    <3>2. k \notin ToSet(wire)
      BY <1>2, <3>1 DEF WireOnce
    <3>3. wire' \in Seq(Incoming) /\ Once(wire') /\ ToSet(wire') = ToSet(wire) \cup {k}
      BY <1>2, <2>2, <3>2, AppendOnce
    <3>4. Theirs(k) \in Stored'
      <4>1. Stored' = Stored \cup {Theirs(k)}
        BY <3>1, MessageKinds, StoreMessage DEF ChatInv, RowsOnce
      <4> QED  BY <4>1
    <3> QED  BY <1>1, <1>2, <3>3, <3>4 DEF WireOnce
  <2> QED  BY <1>4, <2>1, <2>2 DEF Arrive
<1>5. ASSUME OnMessage PROVE Goal
  <2>1. wire' = Tail(wire)
    BY <1>5 DEF OnMessage
  <2>2. wire' \in Seq(Incoming) /\ Once(wire') /\ ToSet(wire') \subseteq ToSet(wire)
    BY <1>5, <2>1, MessageWrites
  <2> QED  BY <1>1, <1>2, <2>2 DEF WireOnce
<1>6. ASSUME SocketBreaks PROVE Goal
  <2>1. wire' = <<>>
    BY <1>6 DEF SocketBreaks
  <2>2. ToSet(wire') = {} /\ Once(wire') /\ wire' \in Seq(Incoming)
    BY <2>1 DEF ToSet, Once
  <2> QED  BY <2>2 DEF WireOnce
<1>7. ASSUME Next PROVE Goal
  <2>1. \/ wire' = wire \/ OnMessage \/ SocketBreaks
        \/ \E k \in Incoming : Arrive(k)
    BY <1>7, Steps DEF Load, Select, MarkConversationRead, Land, GetFails, Poll,
       CountUnread, LandBadge, BadgeFails, Send, Store, SendAnswered, SendFails, MarkSettles
  <2> HIDE DEF Goal
  <2> QED  BY <1>3, <1>4, <1>5, <1>6, <2>1
<1>8. ASSUME UNCHANGED vars PROVE Goal
  BY <1>3, <1>8 DEF vars
<1> QED  BY <1>7, <1>8

\* Everything on screen is stored, or the stand-in of a send.
LEMMA ShownIs ==
  ASSUME ChatInv
  PROVE  /\ Shown \subseteq Stored \cup Temps
         /\ Shown \cap Messages \subseteq Stored
         /\ Stored \subseteq Messages
<1>1. Stored \subseteq Messages
  BY StoredType DEF ChatInv, TypeOK
<1>2. Shown \subseteq Stored \cup Temps
  BY DEF Shown, Ids, ChatInv, ThreadHonest, Honest
<1> QED  BY <1>1, <1>2, MessageKinds

\* What lands was stored: no stand-in among it.
LEMMA LandWrites ==
  ASSUME ChatInv, Land
  PROVE  /\ thread' = getThread.got /\ thread' # None
         /\ Honest(thread', Stored) /\ Shown' = Ids(getThread.got) /\ Shown' \subseteq Stored
         /\ marks' \subseteq Messages /\ marks \subseteq marks'
<1>1. /\ getThread # None /\ Write(getThread.got)
      /\ Honest(getThread.got, Stored) /\ Ids(getThread.got) \subseteq Stored
  BY DEF Land, ChatInv, FetchHonest
<1>2. /\ thread' = getThread.got
      /\ marks' \subseteq Messages /\ marks \subseteq marks'
  BY <1>1, WriteMarks DEF ChatInv
<1>3. thread' # None
  BY <1>1, <1>2, NoneAssumption DEF Honest
<1> QED  BY <1>1, <1>2, <1>3 DEF Shown

LEMMA NextThread ==
  ASSUME ChatInv, [Next]_vars
  PROVE  /\ thread' \in Seq(Entries) \cup {None} /\ ThreadHonest'
         /\ marks' \subseteq Messages
<1> DEFINE Goal == /\ thread' \in Seq(Entries) \cup {None} /\ ThreadHonest'
                   /\ marks' \subseteq Messages
<1>1. Stored \subseteq Stored'
  BY NextRows
<1>2. thread \in Seq(Entries) \cup {None} /\ ThreadHonest /\ marks \subseteq Messages
  BY DEF ChatInv, TypeOK
<1>3. ASSUME thread' = None \/ Honest(thread', Stored), marks' \subseteq Messages PROVE Goal
  <2>1. thread' = None \/ Honest(thread', Stored')
    BY <1>1, <1>3, HonestGrows
  <2>2. thread' \in Seq(Entries) \cup {None}
    BY <1>3 DEF Honest
  <2> QED  BY <1>3, <2>1, <2>2 DEF ThreadHonest
<1>4. ASSUME thread' = thread, marks' \subseteq marks PROVE Goal
  <2>1. thread' = None \/ Honest(thread', Stored)
    BY <1>2, <1>4 DEF ThreadHonest
  <2> QED  BY <1>2, <1>3, <1>4, <2>1
<1>5. ASSUME Land PROVE Goal
  <2>1. Honest(thread', Stored) /\ marks' \subseteq Messages
    BY <1>5, LandWrites
  <2> HIDE DEF Goal
  <2> QED  BY <1>3, <2>1
<1>6. ASSUME NEW i \in Sends, Send(i) PROVE Goal
  <2>1. Honest(thread', Stored) /\ marks' \subseteq Messages
    BY <1>6, SendWrites
  <2> HIDE DEF Goal
  <2> QED  BY <1>3, <2>1
<1>7. ASSUME NEW i \in Sends, SendFails(i) PROVE Goal
  <2>1. (thread' = None \/ Honest(thread', Stored)) /\ marks' \subseteq Messages
    BY <1>7, FailWrites
  <2> HIDE DEF Goal
  <2> QED  BY <1>3, <2>1
<1>8. ASSUME OnMessage PROVE Goal
  <2>1. (thread' = None \/ Honest(thread', Stored)) /\ marks' \subseteq Messages
    BY <1>8, MessageWrites
  <2> HIDE DEF Goal
  <2> QED  BY <1>3, <2>1
<1>9. ASSUME Next PROVE Goal
  <2>1. \/ thread' = thread /\ marks' \subseteq marks
        \/ Land \/ OnMessage
        \/ \E i \in Sends : Send(i) \/ SendFails(i)
    BY <1>9, Steps DEF Load, Select, MarkConversationRead, GetFails, Poll,
       CountUnread, LandBadge, BadgeFails, Store, SendAnswered, Arrive, SocketBreaks, MarkSettles
  <2> HIDE DEF Goal
  <2> QED  BY <1>4, <1>5, <1>6, <1>7, <1>8, <2>1
<1>10. ASSUME UNCHANGED vars PROVE Goal
  BY <1>4, <1>10 DEF vars
<1> QED  BY <1>9, <1>10

LEMMA NextStandIns ==
  ASSUME ChatInv, [Next]_vars
  PROVE  StandIns'
<1>1. StandIns /\ RowsOnce /\ send \in [Sends -> {"idle", "posting", "sent", "failed"}]
  BY DEF ChatInv, TypeOK
<1>2. Shown \cap Messages \subseteq Stored /\ Stored \subseteq Messages
  BY ShownIs
<1>3. ASSUME send' = send, Shown' = Shown PROVE StandIns'
  BY <1>1, <1>3 DEF StandIns
<1>4. ASSUME send' = send, thread' = thread PROVE StandIns'
  BY <1>3, <1>4 DEF Shown
<1>5. ASSUME Land PROVE StandIns'
  <2>1. Shown' \subseteq Messages
    BY <1>2, <1>5, LandWrites
  <2> QED  BY <2>1, MessageKinds DEF StandIns
<1>6. ASSUME NEW i \in Sends, Send(i) PROVE StandIns'
  <2>1. /\ send[i] = "idle" /\ send' = [send EXCEPT ![i] = "posting"]
        /\ Shown' = Shown \cup {Temp(i)}
    BY <1>6, SendWrites DEF Send, MaySend
  <2>2. Mine(i) \notin Shown
    BY <1>1, <1>2, <2>1, MessageKinds DEF RowsOnce
  <2> SUFFICES ASSUME NEW j \in Sends, Temp(j) \in Shown'
               PROVE  send'[j] \in {"posting", "sent"} /\ Mine(j) \notin Shown'
    BY DEF StandIns
  <2>3. Mine(j) # Temp(i)
    BY KindsDiffer
  <2>4. CASE j = i
    BY <1>1, <2>1, <2>2, <2>3, <2>4
  <2>5. CASE j # i
    <3>1. Temp(j) \in Shown
      BY <2>1, <2>5, KindsDiffer
    <3> QED  BY <1>1, <2>1, <2>3, <2>5, <3>1 DEF StandIns
  <2> QED  BY <2>4, <2>5
<1>7. ASSUME NEW i \in Sends, SendAnswered(i) PROVE StandIns'
  <2>1. send' = [send EXCEPT ![i] = "sent"] /\ thread' = thread
    BY <1>7 DEF SendAnswered
  <2>2. Shown' = Shown
    BY <2>1 DEF Shown
  <2> QED  BY <1>1, <2>1, <2>2 DEF StandIns
<1>8. ASSUME NEW i \in Sends, SendFails(i) PROVE StandIns'
  <2>1. send' = [send EXCEPT ![i] = "failed"] /\ Shown' \subseteq Shown \ {Temp(i)}
    BY <1>8, FailWrites DEF SendFails
  <2> SUFFICES ASSUME NEW j \in Sends, Temp(j) \in Shown'
               PROVE  send'[j] \in {"posting", "sent"} /\ Mine(j) \notin Shown'
    BY DEF StandIns
  <2>2. j # i /\ Temp(j) \in Shown
    BY <2>1
  <2> QED  BY <1>1, <2>1, <2>2 DEF StandIns
<1>9. ASSUME OnMessage PROVE StandIns'
  <2>1. send' = send /\ Shown' \subseteq Shown \cup {Theirs(Head(wire))}
    <3>1. thread' = thread \/ Shown' = Shown \cup {Theirs(Head(wire))}
      BY <1>9, MessageWrites
    <3> QED  BY <1>9, <3>1 DEF OnMessage, Contexts, Shown
  <2> QED  BY <1>1, <2>1, KindsDiffer DEF StandIns
<1>10. CASE Next
  <2>1. \/ send' = send /\ thread' = thread
        \/ Land \/ OnMessage
        \/ \E i \in Sends : Send(i) \/ SendAnswered(i) \/ SendFails(i)
    BY <1>10, Steps DEF Contexts, Load, Select, MarkConversationRead, GetFails, Poll,
       CountUnread, LandBadge, BadgeFails, Store, Arrive, SocketBreaks, MarkSettles
  <2> QED  BY <1>4, <1>5, <1>6, <1>7, <1>8, <1>9, <2>1
<1>11. CASE UNCHANGED vars
  BY <1>4, <1>11 DEF vars
<1> QED  BY <1>10, <1>11

\* An answer not asked for yet says nothing false, and it will be asked for
\* after every send made so far.
LEMMA AskFacts ==
  /\ Ask \in Fetches /\ Ask # None /\ Ask.at = "asked" /\ Ids(Ask.got) = {}
  /\ \A S : Honest(Ask.got, S)
  /\ \A i \in Sends : send[i] # "idle" => i \in Ask.after
<1>1. Ask \in Fetches
  BY DEF Ask, Fetches
<1>2. Ask # None
  BY <1>1, NoneAssumption
<1> QED  BY <1>1, <1>2 DEF Ask, Ids, Honest, Distinct

LEMMA NextFetch ==
  ASSUME ChatInv, [Next]_vars
  PROVE  getThread' \in Fetches \cup {None} /\ FetchHonest' /\ FetchIsNew'
<1> DEFINE Goal == getThread' \in Fetches \cup {None} /\ FetchHonest' /\ FetchIsNew'
<1>1. Stored \subseteq Stored'
  BY NextRows
<1>2. getThread \in Fetches \cup {None} /\ FetchHonest /\ FetchIsNew
  BY DEF ChatInv, TypeOK
<1> DEFINE Made == \A i \in Sends : send'[i] # "idle" => send[i] # "idle"
<1>3. ASSUME NEW g \in Fetches, getThread' = g, Honest(g.got, Stored), Ids(g.got) \subseteq Stored,
             \A i \in Sends : send'[i] # "idle" => i \in g.after
      PROVE  Goal
  <2>1. Honest(g.got, Stored')
    BY <1>1, <1>3, HonestGrows
  <2> QED  BY <1>1, <1>3, <2>1 DEF FetchHonest, FetchIsNew
<1>4. ASSUME getThread' = None PROVE Goal
  BY <1>4 DEF FetchHonest, FetchIsNew
<1>5. ASSUME getThread' = getThread, Made PROVE Goal
  <2>1. CASE getThread = None
    BY <1>4, <1>5, <2>1
  <2>2. CASE getThread # None
    <3>1. /\ getThread \in Fetches /\ Honest(getThread.got, Stored) /\ Ids(getThread.got) \subseteq Stored
          /\ \A i \in Sends : send'[i] # "idle" => i \in getThread.after
      BY <1>2, <1>5, <2>2 DEF FetchHonest, FetchIsNew
    <3> HIDE DEF Goal
    <3> QED  BY <1>3, <1>5, <3>1
  <2> QED  BY <2>1, <2>2
<1>6. ASSUME getThread' = Ask, Made PROVE Goal
  <2>1. \A i \in Sends : send'[i] # "idle" => i \in Ask.after
    BY <1>6, AskFacts
  <2>2. Honest(Ask.got, Stored) /\ Ids(Ask.got) \subseteq Stored /\ Ask \in Fetches
    BY AskFacts
  <2> HIDE DEF Goal
  <2> QED  BY <1>3, <1>6, <2>1, <2>2
<1>7. ASSUME Select PROVE Goal
  <2> DEFINE got == [n \in DOMAIN FirstPage |-> Entry(FirstPage[n])]
             g   == [getThread EXCEPT !.at = "selected", !.got = got]
  <2>1. getThread \in Fetches /\ getThread' = g /\ send' = send
    BY <1>2, <1>7 DEF Select, Contexts
  <2>2. Honest(got, Stored) /\ Ids(got) = ToSet(FirstPage) /\ ToSet(FirstPage) \subseteq Stored
    BY SelectedPage, PageFacts DEF ChatInv, TypeOK, RowsOnce
  <2> HIDE DEF got
  <2>3. g \in Fetches /\ g.got = got /\ g.after = getThread.after
    BY <2>1, <2>2 DEF Fetches, Honest
  <2>4. \A i \in Sends : send'[i] # "idle" => i \in g.after
    BY <1>2, <1>7, <2>1, <2>3 DEF FetchIsNew, Select
  <2> HIDE DEF Goal, g
  <2> QED  BY <1>3, <2>1, <2>2, <2>3, <2>4
<1>8. ASSUME MarkConversationRead PROVE Goal
  <2> DEFINE g == [getThread EXCEPT !.at = "answered"]
  <2>1. getThread \in Fetches /\ getThread' = g /\ send' = send /\ getThread # None
    BY <1>2, <1>8 DEF MarkConversationRead, Contexts
  <2>2. g \in Fetches /\ g.got = getThread.got /\ g.after = getThread.after
    BY <2>1 DEF Fetches
  <2>3. /\ Honest(g.got, Stored) /\ Ids(g.got) \subseteq Stored
        /\ \A i \in Sends : send'[i] # "idle" => i \in g.after
    BY <1>2, <2>1, <2>2 DEF FetchHonest, FetchIsNew
  <2> HIDE DEF Goal, g
  <2> QED  BY <1>3, <2>1, <2>2, <2>3
<1>9. ASSUME Next PROVE Goal
  <2>1. \/ Select \/ MarkConversationRead \/ getThread' = None
        \/ (getThread' = getThread \/ getThread' = Ask) /\ Made
    <3>1. ASSUME NEW i \in Sends, send[i] = "posting", send' = [send EXCEPT ![i] = "sent"] \/ send' = [send EXCEPT ![i] = "failed"]
          PROVE  Made
      BY <3>1 DEF ChatInv, TypeOK
    <3>2. ASSUME NEW i \in Sends, SendAnswered(i) PROVE (getThread' = getThread \/ getThread' = Ask) /\ Made
      BY <3>1, <3>2 DEF SendAnswered, InvalidateThread
    <3>3. ASSUME NEW i \in Sends, SendFails(i) PROVE (getThread' = getThread \/ getThread' = Ask) /\ Made
      BY <3>1, <3>3 DEF SendFails, InvalidateThread
    <3>4. ASSUME NEW i \in Sends, Send(i) PROVE getThread' = None
      BY <3>4 DEF Send, CancelQueries
    <3> QED  BY <1>9, <3>2, <3>3, <3>4, Steps DEF Contexts, Load, Land, GetFails, Poll, InvalidateThread,
         CountUnread, LandBadge, BadgeFails, Store, Arrive, OnMessage, SocketBreaks, MarkSettles
  <2> HIDE DEF Goal, Made
  <2> QED  BY <1>4, <1>5, <1>6, <1>7, <1>8, <2>1
<1>10. ASSUME UNCHANGED vars PROVE Goal
  BY <1>5, <1>10 DEF vars
<1> QED  BY <1>9, <1>10

\* The badge never counts more than was written.
LEMMA UnreadBound ==
  ASSUME rows \in Seq(Messages)
  PROVE  /\ Cardinality(Incoming) \in Nat
         /\ Unread \in 0 .. Cardinality(Incoming)
<1> DEFINE T == {Theirs(k) : k \in Incoming}
           U == {m \in Stored : m[1] = "in" /\ m \notin read}
           f == [k \in Incoming |-> Theirs(k)]
<1>1. IsFiniteSet(Incoming) /\ Cardinality(Incoming) \in Nat
  BY TrafficAssumption, FS_CardinalityType
<1>2. f \in Bijection(Incoming, T)
  BY KindsDiffer DEF Bijection, Injection, Surjection, IsInjective
<1>3. ExistsBijection(Incoming, T)
  BY <1>2 DEF ExistsBijection
<1>4. IsFiniteSet(T) /\ Cardinality(T) = Cardinality(Incoming)
  BY <1>1, <1>3, FS_Bijection
<1>5. U \subseteq T
  <2>1. ASSUME NEW m \in Messages, m[1] = "in" PROVE m \in T
    BY <2>1 DEF Messages, Mine, Theirs
  <2> QED  BY <2>1, StoredType
<1>6. IsFiniteSet(U) /\ Cardinality(U) <= Cardinality(T)
  BY <1>4, <1>5, FS_Subset
<1>7. Cardinality(U) \in Nat
  BY <1>6, FS_CardinalityType
<1> QED  BY <1>1, <1>4, <1>6, <1>7 DEF Unread

LEMMA NextBadge ==
  ASSUME ChatInv, [Next]_vars
  PROVE  /\ badge' \in 0 .. Cardinality(Incoming)
         /\ getBadge' \in BadgeFetches \cup {None}
<1> DEFINE Goal == /\ badge' \in 0 .. Cardinality(Incoming)
                   /\ getBadge' \in BadgeFetches \cup {None}
<1>1. /\ badge \in 0 .. Cardinality(Incoming)
      /\ getBadge \in BadgeFetches \cup {None}
  BY DEF ChatInv, TypeOK
<1>2. AskBadge \in BadgeFetches /\ Unread \in 0 .. Cardinality(Incoming)
  BY UnreadBound DEF AskBadge, BadgeFetches, ChatInv, TypeOK
<1>3. ASSUME badge' = badge, getBadge' \in {getBadge, AskBadge, None} PROVE Goal
  BY <1>1, <1>2, <1>3
<1>4. ASSUME CountUnread PROVE Goal
  BY <1>1, <1>2, <1>4 DEF CountUnread, BadgeFetches
<1>5. ASSUME LandBadge PROVE Goal
  BY <1>1, <1>5 DEF LandBadge, BadgeFetches
<1>6. ASSUME Next PROVE Goal
  <2>1. \/ badge' = badge /\ getBadge' \in {getBadge, AskBadge, None}
        \/ CountUnread \/ LandBadge
    BY <1>6, Steps DEF Load, Select, MarkConversationRead, Land, GetFails, Poll, BadgeFails,
       Send, Store, SendAnswered, SendFails, Arrive, OnMessage, SocketBreaks, MarkSettles,
       RefreshBadge, InvalidateBadge
  <2> HIDE DEF Goal
  <2> QED  BY <1>3, <1>4, <1>5, <2>1
<1>7. ASSUME UNCHANGED vars PROVE Goal
  BY <1>3, <1>7 DEF vars
<1> QED  BY <1>6, <1>7

\* The flags, the marks of the server and the history of what was missed.
LEMMA NextFlags ==
  ASSUME ChatInv, [Next]_vars
  PROVE  /\ platform' \in Platforms /\ stale' \in BOOLEAN
         /\ read' \subseteq Messages /\ missed' \subseteq Messages
<1> DEFINE Goal == /\ platform' \in Platforms /\ stale' \in BOOLEAN
                   /\ read' \subseteq Messages /\ missed' \subseteq Messages
<1>1. /\ platform \in Platforms /\ stale \in BOOLEAN /\ Stored \subseteq Messages
      /\ read \subseteq Messages /\ missed \subseteq Messages /\ marks \subseteq Messages
      /\ wire \in Seq(Incoming)
  BY ShownIs DEF ChatInv, TypeOK
<1>2. \A k \in ToSet(wire) : Theirs(k) \in Messages
  BY <1>1 DEF ChatInv, WireOnce
<1>3. ASSUME NEW X \in SUBSET Messages, missed' = missed \/ missed' = missed \cup X,
             read' = read \/ read' = read \cup X,
             platform' = platform, stale' \in BOOLEAN
      PROVE  Goal
  BY <1>1, <1>3
<1>4. ASSUME UNCHANGED <<platform, read, missed>>, stale' \in BOOLEAN PROVE Goal
  BY <1>1, <1>4
<1>5. ASSUME Next PROVE Goal
  <2> HIDE DEF Goal
  <2>1. ASSUME Load \/ Select \/ Land \/ GetFails \/ Poll \/ CountUnread \/ LandBadge \/ BadgeFails
        PROVE  Goal
    BY <1>1, <1>4, <2>1 DEF Load, Select, Land, GetFails, Poll, CountUnread, LandBadge, BadgeFails, Server
  <2>2. ASSUME MarkConversationRead PROVE Goal
    <3>1. {m \in Stored : m[1] = "in"} \in SUBSET Messages
      BY <1>1
    <3> QED  BY <1>1, <1>3, <2>2, <3>1 DEF MarkConversationRead
  <2>3. ASSUME NEW i \in Sends, Send(i) \/ Store(i) \/ SendAnswered(i) \/ SendFails(i) PROVE Goal
    <3>1. {Mine(i)} \in SUBSET Messages /\ {Mine(i)} \cap Stored \in SUBSET Messages
      BY MessageKinds
    <3> QED  BY <1>1, <1>3, <1>4, <2>3, <3>1 DEF Send, Store, SendAnswered, SendFails, Server
  <2>4. ASSUME NEW k \in Incoming, Arrive(k) PROVE Goal
    <3>1. {Theirs(k)} \in SUBSET Messages
      BY MessageKinds
    <3> QED  BY <1>1, <1>3, <1>4, <2>4, <3>1 DEF Arrive
  <2>5. ASSUME OnMessage PROVE Goal
    <3>1. {Theirs(Head(wire))} \in SUBSET Messages
      BY <2>5, MessageWrites, MessageKinds
    <3> QED  BY <1>1, <1>3, <1>4, <2>5, <3>1 DEF OnMessage, Server
  <2>6. ASSUME SocketBreaks PROVE Goal
    <3>1. {Theirs(k) : k \in ToSet(wire)} \in SUBSET Messages
      BY <1>2
    <3> QED  BY <1>1, <1>3, <2>6, <3>1 DEF SocketBreaks, Server
  <2>7. ASSUME NEW m \in marks, MarkSettles(m) PROVE Goal
    <3>1. {m} \in SUBSET Messages
      BY <1>1
    <3> QED  BY <1>1, <1>3, <1>4, <2>7, <3>1 DEF MarkSettles
  <2> QED  BY <1>5, <2>1, <2>2, <2>3, <2>4, <2>5, <2>6, <2>7, Steps
<1>6. ASSUME UNCHANGED vars PROVE Goal
  BY <1>1, <1>4, <1>6 DEF vars
<1> QED  BY <1>5, <1>6

LEMMA ChatInit ==
  Init => ChatInv
<1> SUFFICES ASSUME Init PROVE ChatInv
  OBVIOUS
<1>1. ToSet(rows) = {} /\ ToSet(wire) = {} /\ Shown = {}
  BY DEF Init, ToSet, Shown
<1>2. TypeOK
  <2>1. rows \in Seq(Messages) /\ wire \in Seq(Incoming)
    BY DEF Init
  <2>2. badge \in 0 .. Cardinality(Incoming)
    BY <2>1, UnreadBound DEF Init
  <2>3. send \in [Sends -> {"idle", "posting", "sent", "failed"}] /\ hadCache \in [Sends -> BOOLEAN]
    BY DEF Init
  <2> QED  BY <2>1, <2>2, <2>3 DEF Init, TypeOK
<1>3. RowsOnce /\ WireOnce /\ ThreadHonest /\ StandIns /\ FetchHonest /\ FetchIsNew
  BY <1>1 DEF Init, RowsOnce, WireOnce, ThreadHonest, StandIns, FetchHonest, FetchIsNew, Once, Stored
<1> QED  BY <1>2, <1>3 DEF ChatInv

LEMMA ChatNext ==
  ChatInv /\ [Next]_vars => ChatInv'
<1> SUFFICES ASSUME ChatInv, [Next]_vars PROVE ChatInv'
  OBVIOUS
<1>1. TypeOK'
  BY NextRows, NextWire, NextSend, NextThread, NextFetch, NextBadge, NextFlags DEF TypeOK
<1> QED  BY <1>1, NextRows, NextWire, NextThread, NextStandIns, NextFetch DEF ChatInv

LEMMA ChatAlways ==
  Spec => []ChatInv
  BY ChatInit, ChatNext, PTL DEF Spec

-----------------------------------------------------------------------------
(* What follows from it                                                    *)

\* Every variable keeps its type; in particular the badge never counts more
\* messages than there are (useUnreadCount).
THEOREM ChatTypeCorrect ==
  Spec => []TypeOK
<1>1. ChatInv => TypeOK
  BY DEF ChatInv
<1> QED  BY <1>1, ChatAlways, PTL

\* The rollback of a send that failed (useSendMessageTo.onError) takes exactly
\* its own stand-in away, and nothing brings it back: whatever was in flight
\* with it, a message that was not sent is not shown as sent.
THEOREM FailedIsNotShown ==
  Spec => []NothingFalselySent
<1>1. ChatInv => NothingFalselySent
  BY DEF ChatInv, StandIns, NothingFalselySent
<1> QED  BY <1>1, ChatAlways, PTL

\* A pushed envelope (handleWsMessage), a refetch and the stand-in of a send
\* may bring one message in any order: it is drawn once.
THEOREM DrawnOnce ==
  Spec => []NothingTwice
<1>1. ChatInv => NothingTwice
  <2> SUFFICES ASSUME ChatInv, thread # None PROVE NothingTwice
    BY DEF NothingTwice
  <2>1. Shown = Ids(thread) /\ thread \in Seq(Entries) /\ Distinct(thread)
    BY DEF Shown, ChatInv, ThreadHonest, Honest
  <2>2. Cardinality(Shown) = Len(thread)
    BY <2>1, IdsCount
  <2>3. \A i \in Sends : {Temp(i), Mine(i)} \subseteq Shown => FALSE
    BY DEF ChatInv, StandIns
  <2> QED  BY <2>2, <2>3 DEF NothingTwice
<1> QED  BY <1>1, ChatAlways, PTL

\* onMutate cancels every fetch that was asked before the send, and onError
\* removes one entry when a thread was cached, so the stand-in of a message being
\* sent leaves the screen only for an answer that was asked for after the send, or
\* with the whole thread, when a send that began without one fails (resetQueries).
THEOREM PendingIsKept ==
  Spec => PendingKept
<1>1. ChatInv /\ [Next]_vars => [PendingStays]_vars
  <2> SUFFICES ASSUME ChatInv, Next PROVE PendingStays \/ UNCHANGED vars
    OBVIOUS
  <2> SUFFICES ASSUME NEW i \in Sends, send[i] = "posting", send'[i] = "posting",
                      Temp(i) \in Shown, Temp(i) \notin Shown', ~StartedOver
               PROVE  Overtaken(i)
    BY DEF PendingStays, Vanishes
  <2>1. thread' # thread
    BY DEF Shown
  <2>2. CASE Land
    BY <2>2 DEF Overtaken, Land, ChatInv, FetchIsNew
  <2>3. ASSUME NEW j \in Sends, Send(j) PROVE FALSE
    BY <2>3, SendWrites
  <2>4. ASSUME NEW j \in Sends, SendFails(j) PROVE FALSE
    <3>0. send[j] = "posting" /\ send'[j] = "failed" /\ hadCache[j]
      BY <2>4 DEF SendFails, StartedOver, ChatInv, TypeOK
    <3>1. Shown' = Shown \ {Temp(j)}
      BY <2>4, <3>0, FailWrites DEF Shown
    <3>2. Temp(i) = Temp(j)
      BY <3>1
    <3> QED  BY <3>0, <3>2, KindsDiffer
  <2>5. ASSUME OnMessage PROVE FALSE
    BY <2>1, <2>5, MessageWrites
  <2> QED  BY <2>1, <2>2, <2>3, <2>4, <2>5, Steps DEF Load, Select, MarkConversationRead, GetFails, Poll,
       CountUnread, LandBadge, BadgeFails, Store, SendAnswered, Arrive, SocketBreaks, MarkSettles
<1> QED  BY <1>1, ChatAlways, PTL DEF Spec, PendingKept

-----------------------------------------------------------------------------
(* The thread at rest: whatever the server would answer is on screen, or   *)
(* something is still on its way that will ask for it.                     *)

Posting == \E i \in Sends : send[i] = "posting"

\* The client hears of m yet: an envelope on the socket, or the end of a send.
Told(m) ==
  \/ \E k \in ToSet(wire) : m = Theirs(k)
  \/ \E i \in Sends : m = Mine(i) /\ send[i] = "posting"

\* A loaded thread that something will make ask again.
Restless == thread # None /\ (marks # {} \/ Posting)

Due == ToSet(FirstPage) \ missed
Selected == getThread # None /\ getThread.at # "asked"

\* An answer that was selected has everything due, or will be overtaken.
AnswerIsDue ==
  Selected => \A m \in Due : m \in Ids(getThread.got) \/ Told(m) \/ Restless

\* So has the thread between two fetches that worked.
ScreenIsDue ==
  getThread = None /\ thread # None /\ ~stale =>
      \A m \in Due : m \in Shown \/ Told(m) \/ Restless

\* An envelope whose message is on screen already tells nothing: the answer in
\* progress has that message too.
EchoIsDue ==
  Selected => \A k \in ToSet(wire) :
      Theirs(k) \in Due \cap Shown => Theirs(k) \in Ids(getThread.got)

\* A stand-in is on screen only while something will replace it.
StandInsPass ==
  thread # None /\ (\E i \in Sends : Temp(i) \in Shown) => getThread # None \/ stale \/ Posting

RestInv == AnswerIsDue /\ ScreenIsDue /\ EchoIsDue /\ StandInsPass

\* What is due now was due before, unless this step stored it.
LEMMA NextDue ==
  ASSUME ChatInv, [Next]_vars
  PROVE  /\ missed \subseteq missed'
         /\ \A m \in Due' : \/ m \in Due
                            \/ \E i \in Sends : m = Mine(i) /\ Store(i) /\ send[i] = "posting"
                            \/ \E k \in Incoming : m = Theirs(k) /\ Arrive(k) /\ wire' = Append(wire, k)
<1> DEFINE Goal == /\ missed \subseteq missed'
                   /\ \A m \in Due' :
                         \/ m \in Due
                         \/ \E i \in Sends : m = Mine(i) /\ Store(i) /\ send[i] = "posting"
                         \/ \E k \in Incoming : m = Theirs(k) /\ Arrive(k) /\ wire' = Append(wire, k)
<1>1. ASSUME rows' = rows, missed \subseteq missed' PROVE Goal
  <2>1. FirstPage' = FirstPage
    BY <1>1 DEF FirstPage
  <2> QED  BY <1>1, <2>1 DEF Due
<1>2. ASSUME NEW m \in Messages, m \notin Stored, rows' = Append(rows, m)
      PROVE  ToSet(FirstPage)' \subseteq ToSet(FirstPage) \cup {m}
  BY <1>2, StoreMessage DEF ChatInv, RowsOnce
<1>3. ASSUME NEW i \in Sends, Store(i) PROVE Goal
  <2>1. ToSet(FirstPage)' \subseteq ToSet(FirstPage) \cup {Mine(i)}
    BY <1>2, <1>3, MessageKinds DEF Store
  <2>2. /\ send[i] \in {"posting", "failed"}
        /\ missed' = IF send[i] = "failed" THEN missed \cup {Mine(i)} ELSE missed
    BY <1>3 DEF Store
  <2>3. Due' = ToSet(FirstPage)' \ missed'
    BY DEF Due
  <2> QED  BY <1>3, <2>1, <2>2, <2>3 DEF Due
<1>4. ASSUME NEW k \in Incoming, Arrive(k) PROVE Goal
  <2>1. ToSet(FirstPage)' \subseteq ToSet(FirstPage) \cup {Theirs(k)}
    BY <1>2, <1>4, MessageKinds DEF Arrive
  <2>2. Due' = ToSet(FirstPage)' \ missed'
    BY DEF Due
  <2>3. CASE wire' = Append(wire, k) /\ missed' = missed
    BY <1>4, <2>1, <2>2, <2>3 DEF Due
  <2>4. CASE missed' = missed \cup {Theirs(k)}
    BY <2>1, <2>2, <2>4 DEF Due
  <2> QED  BY <1>4, <2>3, <2>4 DEF Arrive
<1>5. ASSUME Next PROVE Goal
  <2>1. \/ rows' = rows /\ missed \subseteq missed'
        \/ \E i \in Sends : Store(i)
        \/ \E k \in Incoming : Arrive(k)
    <3>1. \/ rows' = rows
          \/ \E i \in Sends : Store(i)
          \/ \E k \in Incoming : Arrive(k)
      BY <1>5, Steps DEF Server, Load, Select, MarkConversationRead, Land, GetFails, Poll,
         CountUnread, LandBadge, BadgeFails, Send, SendAnswered, SendFails, OnMessage, SocketBreaks, MarkSettles
    <3>2. \/ missed \subseteq missed'
          \/ \E i \in Sends : Store(i)
          \/ \E k \in Incoming : Arrive(k)
      BY <1>5, Steps DEF Load, Select, MarkConversationRead, Land, GetFails, Poll,
         CountUnread, LandBadge, BadgeFails, Send, SendAnswered, SendFails, OnMessage, SocketBreaks, MarkSettles
    <3> QED  BY <3>1, <3>2
  <2> HIDE DEF Goal
  <2> QED  BY <1>1, <1>3, <1>4, <2>1
<1>6. ASSUME UNCHANGED vars PROVE Goal
  BY <1>1, <1>6 DEF vars
<1> QED  BY <1>5, <1>6

LEMMA RestNext ==
  ASSUME ChatInv, RestInv, [Next]_vars
  PROVE  RestInv'
<1>1. /\ send \in [Sends -> {"idle", "posting", "sent", "failed"}]
      /\ getThread \in Fetches \cup {None}
      /\ Shown \cap Messages \subseteq Stored /\ Stored \subseteq Messages
  BY ShownIs DEF ChatInv, TypeOK
<1>2. /\ missed \subseteq missed'
      /\ rows' = rows => Due' \subseteq Due
  <2>1. missed \subseteq missed'
    BY NextDue
  <2> QED  BY <2>1 DEF Due, FirstPage
<1>3. ToSet(FirstPage) \subseteq Stored
  BY PageFacts DEF ChatInv, TypeOK, RowsOnce
\* A fetch that has not selected yet owes nothing.
<1>4. ASSUME getThread' = Ask PROVE RestInv'
  BY <1>4, AskFacts DEF RestInv, AnswerIsDue, ScreenIsDue, EchoIsDue, StandInsPass, Selected
\* An invalidation absorbed by the first load: the thread is not there.
<1>5. ASSUME getThread' = getThread, thread = None, thread' = None, rows' = rows,
             \A m \in Due' : Told(m) => Told(m)'
      PROVE  RestInv'
  <2>1. Shown' = {} /\ ~Restless /\ (Selected' <=> Selected)
    BY <1>5 DEF Shown, Restless, Selected
  <2>2. AnswerIsDue'
    BY <1>2, <1>5, <2>1 DEF AnswerIsDue, RestInv
  <2>3. EchoIsDue' /\ ScreenIsDue' /\ StandInsPass'
    BY <1>5, <2>1 DEF EchoIsDue, ScreenIsDue, StandInsPass
  <2> QED  BY <2>2, <2>3 DEF RestInv
\* Steps that leave the screen, the marks and the sends alone.
<1>6. ASSUME thread' = thread, marks' = marks, send' = send, stale' = stale,
             getThread' = None <=> getThread = None,
             Selected' => Selected /\ getThread'.got = getThread.got,
             \A m \in Due' : m \in Due \/ Told(m)',
             \A m \in Due' : Told(m) => Told(m)',
             \A k \in ToSet(wire') : k \in ToSet(wire) \/ Theirs(k) \notin Shown,
             \A k \in ToSet(wire) : Theirs(k) \in Due' => Theirs(k) \in Due
      PROVE  RestInv'
  <2>1. Shown' = Shown /\ (Posting' <=> Posting) /\ (Restless' <=> Restless)
    BY <1>6 DEF Shown, Posting, Restless
  <2>2. AnswerIsDue'
    BY <1>6, <2>1 DEF AnswerIsDue, RestInv
  <2>3. ScreenIsDue'
    BY <1>6, <2>1 DEF ScreenIsDue, RestInv
  <2>4. EchoIsDue'
    BY <1>6, <2>1 DEF EchoIsDue, RestInv
  <2>5. StandInsPass'
    BY <1>6, <2>1 DEF StandInsPass, RestInv
  <2> QED  BY <2>2, <2>3, <2>4, <2>5 DEF RestInv
<1>7. ASSUME wire' = wire, rows' = rows, thread' = thread, marks' = marks, send' = send, stale' = stale,
             getThread' = None <=> getThread = None,
             Selected' => Selected /\ getThread'.got = getThread.got
      PROVE  RestInv'
  <2>1. \A m : Told(m)' <=> Told(m)
    BY <1>7 DEF Told
  <2>2. ToSet(wire') = ToSet(wire)
    BY <1>7
  <2> QED  BY <1>2, <1>6, <1>7, <2>1, <2>2
<1>8. ASSUME Poll \/ CountUnread \/ LandBadge \/ BadgeFails \/ MarkConversationRead PROVE RestInv'
  <2>1. /\ wire' = wire /\ rows' = rows /\ thread' = thread
        /\ marks' = marks /\ send' = send /\ stale' = stale
    BY <1>8 DEF Poll, CountUnread, LandBadge, BadgeFails, MarkConversationRead, Server, Contexts
  <2>2. CASE getThread' = getThread
    BY <1>7, <2>1, <2>2 DEF Selected
  <2>3. CASE MarkConversationRead
    <3>1. /\ getThread \in Fetches /\ getThread # None /\ getThread.at = "selected"
          /\ getThread' = [getThread EXCEPT !.at = "answered"]
      BY <1>1, <2>3 DEF MarkConversationRead
    <3>2. getThread' \in Fetches /\ getThread'.got = getThread.got
      BY <3>1 DEF Fetches
    <3>3. getThread' # None /\ Selected
      BY <3>1, <3>2, NoneAssumption DEF Selected
    <3> QED  BY <1>7, <2>1, <3>1, <3>2, <3>3
  <2> QED  BY <1>8, <2>2, <2>3 DEF Poll, CountUnread, LandBadge, BadgeFails
<1>9. ASSUME Select PROVE RestInv'
  <2> DEFINE got == [n \in DOMAIN FirstPage |-> Entry(FirstPage[n])]
  <2>1. /\ getThread \in Fetches /\ rows' = rows
        /\ getThread' = [getThread EXCEPT !.at = "selected", !.got = got]
    BY <1>1, <1>9 DEF Select, Server
  <2>2. Honest(got, Stored) /\ Ids(got) = ToSet(FirstPage)
    BY SelectedPage DEF ChatInv, TypeOK, RowsOnce
  <2> HIDE DEF got
  <2>3. getThread' \in Fetches /\ getThread'.got = got
    BY <2>1, <2>2 DEF Fetches, Honest
  <2>4. getThread' # None
    BY <2>3, NoneAssumption
  <2>5. Due' \subseteq Ids(getThread'.got)
    BY <1>2, <2>1, <2>2, <2>3 DEF Due
  <2> QED  BY <2>4, <2>5 DEF RestInv, AnswerIsDue, EchoIsDue, ScreenIsDue, StandInsPass
<1>10. ASSUME Land PROVE RestInv'
  <2>1. /\ Selected /\ getThread' = None /\ rows' = rows /\ wire' = wire /\ send' = send
    BY <1>10 DEF Land, Selected, Server, Contexts
  <2>2. thread' # None /\ Shown' = Ids(getThread.got) /\ Shown' \subseteq Stored /\ marks \subseteq marks'
    BY <1>10, LandWrites
  <2>3. \A m : Told(m)' <=> Told(m)
    BY <2>1 DEF Told
  <2>4. Restless => Restless'
    BY <2>1, <2>2 DEF Restless, Posting
  <2>5. ScreenIsDue'
    BY <1>2, <2>1, <2>2, <2>3, <2>4 DEF ScreenIsDue, RestInv, AnswerIsDue
  <2>6. StandInsPass'
    BY <1>1, <2>2, MessageKinds DEF StandInsPass
  <2> QED  BY <2>1, <2>5, <2>6 DEF RestInv, AnswerIsDue, EchoIsDue, Selected
<1>11. ASSUME GetFails PROVE RestInv'
  BY <1>11 DEF GetFails, RestInv, AnswerIsDue, EchoIsDue, ScreenIsDue, StandInsPass, Selected
<1>12. ASSUME NEW i \in Sends, Send(i) PROVE RestInv'
  <2>1. getThread' = None /\ thread' # None
    BY <1>12, SendWrites DEF Send, CancelQueries
  <2>2. Posting'
    BY <1>1, <1>12 DEF Send, Posting
  <2> QED  BY <2>1, <2>2 DEF RestInv, AnswerIsDue, EchoIsDue, ScreenIsDue, StandInsPass, Selected, Restless
<1>13. ASSUME NEW i \in Sends, SendAnswered(i) PROVE RestInv'
  <2>1. CASE Absorbed
    <3>1. /\ getThread' = getThread /\ thread = None /\ thread' = None /\ rows' = rows /\ wire' = wire
          /\ send' = [send EXCEPT ![i] = "sent"] /\ Mine(i) \in missed'
      BY <1>13, <2>1 DEF SendAnswered, InvalidateThread, Absorbed, Server
    <3>2. \A m \in Due' : Told(m) => Told(m)'
      BY <1>1, <3>1 DEF Due, Told
    <3> QED  BY <1>5, <3>1, <3>2
  <2>2. CASE ~Absorbed
    BY <1>4, <1>13, <2>2 DEF SendAnswered, InvalidateThread
  <2> QED  BY <2>1, <2>2
<1>14. ASSUME NEW i \in Sends, SendFails(i) PROVE RestInv'
  <2>1. CASE Absorbed /\ hadCache[i]
    <3>1. /\ getThread' = getThread /\ thread = None /\ rows' = rows /\ wire' = wire
          /\ send' = [send EXCEPT ![i] = "failed"] /\ {Mine(i)} \cap Stored \subseteq missed'
      BY <1>14, <2>1 DEF SendFails, InvalidateThread, Absorbed, Server
    <3>2. thread' = None
      BY <1>14, <3>1, FailWrites
    <3>3. Due' \subseteq Due /\ Mine(i) \notin Due'
      BY <1>2, <1>3, <3>1 DEF Due
    <3>4. \A m \in Due' : Told(m) => Told(m)'
      BY <1>1, <3>1, <3>3 DEF Told
    <3> QED  BY <1>5, <3>1, <3>2, <3>4
  <2>2. CASE ~(Absorbed /\ hadCache[i])
    BY <1>4, <1>14, <2>2 DEF SendFails, InvalidateThread
  <2> QED  BY <2>1, <2>2
<1>15. ASSUME NEW m \in marks, MarkSettles(m) PROVE RestInv'
  <2>1. CASE Absorbed
    <3>1. /\ getThread' = getThread /\ thread = None /\ thread' = None /\ rows' = rows
          /\ wire' = wire /\ send' = send
      BY <1>15, <2>1 DEF MarkSettles, InvalidateThread, Absorbed, Contexts
    <3>2. \A a : Told(a) => Told(a)'
      BY <3>1 DEF Told
    <3> QED  BY <1>5, <3>1, <3>2
  <2>2. CASE ~Absorbed
    BY <1>4, <1>15, <2>2 DEF MarkSettles, InvalidateThread
  <2> QED  BY <2>1, <2>2
<1>16. ASSUME NEW i \in Sends, Store(i) PROVE RestInv'
  <2>1. /\ thread' = thread /\ marks' = marks /\ send' = send /\ stale' = stale
        /\ getThread' = getThread /\ wire' = wire
    BY <1>16 DEF Store, Contexts
  <2>2. \A m : Told(m)' <=> Told(m)
    BY <2>1 DEF Told
  <2>3. \A m \in Due' : m \in Due \/ Told(m)'
    <3>1. ASSUME NEW k \in Incoming, wire' = Append(wire, k) PROVE FALSE
      BY <2>1, <3>1, LenProperties, AppendProperties DEF ChatInv, TypeOK
    <3>2. ASSUME NEW j \in Sends, send[j] = "posting" PROVE Told(Mine(j))'
      BY <2>1, <3>2 DEF Told
    <3> QED  BY <3>1, <3>2, NextDue
  <2>4. \A k \in ToSet(wire) : Theirs(k) \in Due' => Theirs(k) \in Due
    <3>1. Due' \subseteq Due \cup {Mine(i)}
      <4>1. Mine(i) \in Messages /\ Mine(i) \notin Stored /\ rows' = Append(rows, Mine(i))
        BY <1>16, MessageKinds DEF Store
      <4>2. ToSet(FirstPage)' \subseteq ToSet(FirstPage) \cup {Mine(i)}
        BY <4>1, StoreMessage DEF ChatInv, RowsOnce
      <4> QED  BY <1>2, <4>2 DEF Due
    <3> QED  BY <3>1, KindsDiffer
  <2>5. ToSet(wire') = ToSet(wire)
    BY <2>1
  <2> QED  BY <1>6, <2>1, <2>2, <2>3, <2>4, <2>5 DEF Selected
<1>17. ASSUME NEW k \in Incoming, Arrive(k) PROVE RestInv'
  <2>1. /\ thread' = thread /\ marks' = marks /\ send' = send /\ stale' = stale
        /\ getThread' = getThread
        /\ wire' = wire \/ wire' = Append(wire, k)
        /\ Theirs(k) \notin Stored /\ rows' = Append(rows, Theirs(k))
    BY <1>17 DEF Arrive, Contexts
  <2>2. ToSet(wire) \subseteq ToSet(wire') /\ ToSet(wire') \subseteq ToSet(wire) \cup {k}
        /\ (wire' = Append(wire, k) => k \in ToSet(wire'))
    <3>1. wire \in Seq(Incoming) /\ Once(wire) /\ k \notin ToSet(wire)
      BY <2>1 DEF ChatInv, TypeOK, WireOnce
    <3>2. ToSet(Append(wire, k)) = ToSet(wire) \cup {k}
      BY <3>1, AppendOnce
    <3> QED  BY <2>1, <3>2
  <2>3. \A m : Told(m) => Told(m)'
    BY <2>1, <2>2 DEF Told
  <2>4. Theirs(k) \notin Shown
    BY <1>1, <2>1, MessageKinds
  <2>5. Due' \subseteq Due \cup {Theirs(k)}
    <3>1. ToSet(FirstPage)' \subseteq ToSet(FirstPage) \cup {Theirs(k)}
      BY <2>1, StoreMessage, MessageKinds DEF ChatInv, RowsOnce
    <3> QED  BY <1>2, <3>1 DEF Due
  <2>6. Theirs(k) \in Due' => Told(Theirs(k))'
    <3>1. wire' = Append(wire, k) \/ Theirs(k) \in missed'
      BY <1>17 DEF Arrive
    <3> QED  BY <2>2, <3>1 DEF Due, Told
  <2>7. \A a \in ToSet(wire) : Theirs(a) \in Due' => Theirs(a) \in Due
    <3>1. \A a \in ToSet(wire) : Theirs(a) # Theirs(k)
      BY <2>1 DEF ChatInv, WireOnce
    <3> QED  BY <2>5, <3>1
  <2> QED  BY <1>6, <2>1, <2>2, <2>3, <2>4, <2>5, <2>6, <2>7 DEF Selected
<1>18. ASSUME SocketBreaks PROVE RestInv'
  <2>1. /\ thread' = thread /\ marks' = marks /\ send' = send /\ stale' = stale
        /\ getThread' = getThread /\ rows' = rows /\ wire' = <<>>
        /\ missed' = missed \cup {Theirs(k) : k \in ToSet(wire)}
    BY <1>18 DEF SocketBreaks, Contexts, Server
  <2>2. ToSet(wire') = {}
    BY <2>1 DEF ToSet
  <2>3. \A m \in Due' : Told(m) => Told(m)'
    BY <2>1 DEF Due, Told
  <2> QED  BY <1>2, <1>6, <2>1, <2>2, <2>3 DEF Selected
<1>19. ASSUME OnMessage PROVE RestInv'
  <2> DEFINE h == Head(wire)
  <2>1. /\ wire' = Tail(wire) /\ send' = send /\ stale' = stale /\ rows' = rows
        /\ ToSet(wire) = ToSet(wire') \cup {h} /\ h \notin ToSet(wire')
        /\ Theirs(h) \in Stored
    BY <1>19, MessageWrites DEF OnMessage, Contexts, Server
  <2> HIDE DEF h
  <2>2. \A m : Told(m) => Told(m)' \/ m = Theirs(h)
    BY <2>1 DEF Told
  <2>3. CASE Absorbed \/ (platform = "phone" /\ thread = None)
    <3>1. Theirs(h) \in missed'
      BY <1>19, <2>3 DEF OnMessage, h
    <3>2. getThread' = getThread
      BY <1>19, <2>3 DEF OnMessage, InvalidateThread
    <3>3. thread = None /\ thread' = None
      BY <1>19, <2>3, MessageWrites DEF Absorbed
    <3>4. \A m \in Due' : Told(m) => Told(m)'
      BY <2>2, <3>1 DEF Due
    <3> QED  BY <1>5, <2>1, <3>2, <3>3, <3>4
  <2>4. CASE platform # "phone" /\ ~Absorbed
    BY <1>4, <1>19, <2>4 DEF OnMessage, InvalidateThread
  <2>5. ASSUME platform = "phone", thread # None PROVE RestInv'
    <3>1. getThread' = getThread /\ Write(AppendNew(Theirs(h)))
      BY <1>19, <2>5 DEF OnMessage, h
    <3>2. Due' \subseteq Due
      BY <1>2, <2>1
    <3>3. CASE thread' = thread /\ Theirs(h) \in Shown
      <4>1. AppendNew(Theirs(h)) = thread
        BY <3>3 DEF AppendNew
      <4>2. marks' = marks /\ Shown' = Shown
        BY <3>1, <3>3, <4>1 DEF Write, Shown
      <4>3. (Restless' <=> Restless) /\ (Posting' <=> Posting) /\ (Selected' <=> Selected)
        BY <2>1, <3>1, <3>3, <4>2 DEF Restless, Posting, Selected
      <4>4. AnswerIsDue'
        <5> SUFFICES ASSUME Selected, NEW m \in Due'
                     PROVE  m \in Ids(getThread.got) \/ Told(m)' \/ Restless
          BY <3>1, <4>3 DEF AnswerIsDue
        <5>1. m \in Ids(getThread.got) \/ Told(m) \/ Restless
          BY <3>2 DEF RestInv, AnswerIsDue
        <5>2. CASE m = Theirs(h)
          BY <2>1, <3>2, <3>3, <5>2 DEF RestInv, EchoIsDue
        <5> QED  BY <2>2, <5>1, <5>2
      <4>5. ScreenIsDue'
        BY <2>1, <2>2, <3>1, <3>2, <3>3, <4>2, <4>3 DEF RestInv, ScreenIsDue
      <4>6. EchoIsDue'
        BY <2>1, <3>1, <3>2, <4>2, <4>3 DEF RestInv, EchoIsDue
      <4>7. StandInsPass'
        BY <2>1, <3>1, <3>3, <4>2, <4>3 DEF RestInv, StandInsPass
      <4> QED  BY <4>4, <4>5, <4>6, <4>7 DEF RestInv
    <3>4. CASE Shown' = Shown \cup {Theirs(h)} /\ marks' # {}
      <4>1. thread' # None
        BY <1>19, <2>5, MessageWrites
      <4>2. Restless' /\ (Posting' <=> Posting) /\ (Selected' <=> Selected)
        BY <2>1, <3>1, <3>4, <4>1 DEF Restless, Posting, Selected
      <4>3. EchoIsDue'
        <5> SUFFICES ASSUME Selected, NEW k \in ToSet(wire'), Theirs(k) \in Due', Theirs(k) \in Shown'
                     PROVE  Theirs(k) \in Ids(getThread.got)
          BY <3>1, <4>2 DEF EchoIsDue
        <5>1. k # h /\ k \in ToSet(wire)
          BY <2>1
        <5>2. Theirs(k) \in Shown
          BY <3>4, <5>1, KindsDiffer
        <5> QED  BY <3>2, <5>1, <5>2 DEF RestInv, EchoIsDue
      <4>4. StandInsPass'
        BY <2>1, <2>5, <3>1, <3>4, <4>2, KindsDiffer DEF RestInv, StandInsPass
      <4> QED  BY <4>2, <4>3, <4>4 DEF RestInv, AnswerIsDue, ScreenIsDue
    <3> QED  BY <1>19, <2>5, <3>3, <3>4, MessageWrites DEF h
  <2> QED  BY <2>3, <2>4, <2>5
<1>20. CASE Next
  <2>1. ASSUME Load PROVE RestInv'
    BY <1>4, <2>1 DEF Load
  <2> QED  BY <1>8, <1>9, <1>10, <1>11, <1>12, <1>13, <1>14, <1>15, <1>16, <1>17, <1>18, <1>19,
              <1>20, <2>1, Steps
<1>21. CASE UNCHANGED vars
  BY <1>7, <1>21 DEF vars, Selected
<1> QED  BY <1>20, <1>21

\* At rest (no send pending, no fetch, no envelope, no mark in flight, and the
\* last fetch worked) nothing is left that could ask again: every message of the
\* server's first page is on screen, but those this client was never told of, and
\* everything on screen is stored.  It is about which messages the chat screens
\* show, not about their order, what is marked read, or the badge.
THEOREM RestIsTheServer ==
  Spec => []RestShowsServer
<1>1. Init => RestInv
  BY DEF Init, RestInv, AnswerIsDue, ScreenIsDue, EchoIsDue, StandInsPass, Selected
<1>2. ChatInv /\ RestInv /\ [Next]_vars => RestInv'
  BY RestNext
<1>3. ChatInv /\ RestInv => RestShowsServer
  <2> SUFFICES ASSUME ChatInv, RestInv, AtRest
               PROVE  ToSet(FirstPage) \ missed \subseteq Shown /\ Shown \subseteq Stored
    BY DEF RestShowsServer
  <2>1. ~Posting /\ ~Restless
    BY DEF AtRest, Posting, Restless
  <2>2. \A m : ~Told(m)
    BY DEF AtRest, Told, ToSet
  <2>3. Due \subseteq Shown
    BY <2>1, <2>2 DEF AtRest, RestInv, ScreenIsDue
  <2>4. \A i \in Sends : Temp(i) \notin Shown
    BY <2>1 DEF AtRest, RestInv, StandInsPass
  <2>5. Shown \subseteq Stored
    BY <2>4, ShownIs DEF Temps
  <2> QED  BY <2>3, <2>5 DEF Due
<1> QED  BY <1>1, <1>2, <1>3, ChatAlways, PTL DEF Spec

=============================================================================
