----------------------------- MODULE MpmcProofs -----------------------------
(***************************************************************************)
(* What the proofs about the flavours of the channel share: facts about    *)
(* the queues of blocked threads, for any finite sets of senders and       *)
(* receivers.                                                              *)
(***************************************************************************)
EXTENDS Mpmc, WellFoundedInduction, SequenceTheorems, TLAPS

LEMMA MinIsMember ==
  ASSUME NEW I \in SUBSET Nat, I # {}
  PROVE  Min(I) \in I /\ \A m \in I : Min(I) <= m
<1> DEFINE R == {p \in Nat \X Nat : p[1] < p[2]}
<1>1. IsWellFoundedOn(R, Nat)
  BY NatLessThanWellFounded DEF OpToRel
<1> HIDE DEF R
<1>2. PICK n \in I : \A m \in I : <<m, n>> \notin R
  BY <1>1, WFMin
<1>3. ASSUME NEW m \in I, m < n PROVE FALSE
  <2>1. <<m, n>> \in Nat \X Nat /\ <<m, n>>[1] < <<m, n>>[2]
    BY <1>3
  <2>2. <<m, n>> \in R
    BY <2>1 DEF R
  <2> QED
    BY <1>2, <2>2
<1>4. \A m \in I : n <= m
  BY <1>3
<1> QED
  BY <1>4 DEF Min

LEMMA RemoveAtIs ==
  ASSUME NEW S, NEW s \in Seq(S), NEW i \in 1 .. Len(s)
  PROVE  /\ RemoveAt(s, i) \in Seq(S)
         /\ Len(RemoveAt(s, i)) = Len(s) - 1
         /\ \A j \in 1 .. Len(s) - 1 : RemoveAt(s, i)[j] = s[IF j < i THEN j ELSE j + 1]
<1> DEFINE a == SubSeq(s, 1, i - 1)
           b == SubSeq(s, i + 1, Len(s))
<1>1. Len(s) \in Nat /\ i \in Nat
  BY LenProperties
<1>2. a \in Seq(S) /\ Len(a) = i - 1 /\ \A j \in 1 .. i - 1 : a[j] = s[j]
  BY <1>1, SubSeqProperties
<1>3. b \in Seq(S) /\ Len(b) = Len(s) - i /\ \A j \in 1 .. Len(s) - i : b[j] = s[i + j]
  BY <1>1, SubSeqProperties
<1> HIDE DEF a, b
<1>4. /\ a \o b \in Seq(S) /\ Len(a \o b) = Len(a) + Len(b)
      /\ \A j \in 1 .. Len(a) + Len(b) : (a \o b)[j] = IF j <= Len(a) THEN a[j] ELSE b[j - Len(a)]
  BY <1>2, <1>3, ConcatProperties
<1>5. RemoveAt(s, i) = a \o b
  BY DEF RemoveAt, a, b
<1>6. Len(RemoveAt(s, i)) = Len(s) - 1
  <2>1. Len(a \o b) = Len(a) + Len(b) /\ Len(a) = i - 1 /\ Len(b) = Len(s) - i
    BY <1>2, <1>3, <1>4
  <2> QED
    BY ONLY <1>1, <1>5, <2>1
<1>7. ASSUME NEW j \in 1 .. Len(s) - 1
      PROVE  RemoveAt(s, i)[j] = s[IF j < i THEN j ELSE j + 1]
  <2>1. CASE j < i
    BY <1>1, <1>2, <1>3, <1>4, <1>5, <2>1
  <2>2. CASE ~(j < i)
    <3>1. (a \o b)[j] = b[j - (i - 1)]
      BY <1>1, <1>2, <1>3, <1>4, <2>2
    <3>2. j - (i - 1) \in 1 .. Len(s) - i /\ i + (j - (i - 1)) = j + 1
      BY <1>1, <2>2
    <3> QED
      BY <1>3, <1>5, <2>2, <3>1, <3>2
  <2> QED
    BY <2>1, <2>2
<1> QED
  BY <1>4, <1>5, <1>6, <1>7

\* Nobody is in the queue twice.
Distinct(s) == \A i, j \in 1 .. Len(s) : s[i] = s[j] => i = j

\* What is left when entry i is gone.
LEMMA RemovesOne ==
  ASSUME NEW S, NEW s \in Seq(S), NEW i \in 1 .. Len(s), Distinct(s)
  PROVE  /\ RemoveAt(s, i) \in Seq(S) /\ Distinct(RemoveAt(s, i))
         /\ \A j \in 1 .. Len(RemoveAt(s, i)) :
              \E k \in 1 .. Len(s) : RemoveAt(s, i)[j] = s[k] /\ s[k] # s[i]
<1> DEFINE r == RemoveAt(s, i)
           f(j) == IF j < i THEN j ELSE j + 1
<1>1. Len(s) \in Nat /\ i \in Nat
  BY LenProperties
<1>2. r \in Seq(S) /\ Len(r) = Len(s) - 1 /\ \A j \in 1 .. Len(s) - 1 : r[j] = s[f(j)]
  BY RemoveAtIs
<1>3. \A j \in 1 .. Len(s) - 1 : f(j) \in 1 .. Len(s) /\ f(j) # i
  BY <1>1
<1>4. \A j, k \in 1 .. Len(s) - 1 : f(j) = f(k) => j = k
  BY <1>1
<1> HIDE DEF r, f
<1>5. Distinct(r)
  BY <1>2, <1>3, <1>4 DEF Distinct
<1>6. \A j \in 1 .. Len(r) : r[j] = s[f(j)] /\ s[f(j)] # s[i]
  BY <1>2, <1>3 DEF Distinct
<1> QED
  BY <1>2, <1>3, <1>5, <1>6 DEF r

LEMMA PushesOne ==
  ASSUME NEW S, NEW s \in Seq(S), NEW u \in S, Distinct(s), \A i \in 1 .. Len(s) : s[i] # u
  PROVE  /\ Append(s, u) \in Seq(S) /\ Distinct(Append(s, u))
         /\ \A j \in 1 .. Len(Append(s, u)) :
              Append(s, u)[j] = u \/ \E k \in 1 .. Len(s) : Append(s, u)[j] = s[k]
<1>1. /\ Append(s, u) \in Seq(S) /\ Len(Append(s, u)) = Len(s) + 1
      /\ \A i \in 1 .. Len(s) : Append(s, u)[i] = s[i]
      /\ Append(s, u)[Len(s) + 1] = u
  BY AppendProperties
<1>2. Len(s) \in Nat
  BY LenProperties
<1> QED
  BY <1>1, <1>2 DEF Distinct

LEMMA RemoveFirstIs ==
  ASSUME NEW s, NEW e
  PROVE  \/ RemoveFirst(s, e) = s /\ \A i \in 1 .. Len(s) : s[i] # e
         \/ \E i \in 1 .. Len(s) : s[i] = e /\ RemoveFirst(s, e) = RemoveAt(s, i)
<1>1. CASE ~\E i \in 1 .. Len(s) : s[i] = e
  BY <1>1 DEF RemoveFirst
<1>2. CASE \E i \in 1 .. Len(s) : s[i] = e
  <2> DEFINE I == {i \in 1 .. Len(s) : s[i] = e}
  <2>1. I # {} /\ I \in SUBSET Nat
    BY <1>2
  <2>2. Min(I) \in I
    BY <2>1, MinIsMember
  <2>3. RemoveFirst(s, e) = RemoveAt(s, Min(I))
    BY <1>2, <2>1 DEF RemoveFirst, SelectInSeq
  <2> QED
    BY <2>2, <2>3
<1> QED
  BY <1>1, <1>2


-----------------------------------------------------------------------------
Queues == {"senders", "receivers"}

LEMMA Sides ==
  ASSUME NEW t \in Threads
  PROVE  own(t) \in Queues /\ peer(t) \in Queues /\ own(t) # peer(t)
BY SidesAssumption DEF Threads, own, peer, Queues

\* The entry that try_select picks is undecided, and is not the caller's own.
LEMMA SelectableIs ==
  ASSUME NEW t, NEW w, Selectable(t, w) # 0
  PROVE  /\ Selectable(t, w) \in 1 .. Len(selectors[w])
         /\ selectors[w][Selectable(t, w)] # t
         /\ select[selectors[w][Selectable(t, w)]] = "Waiting"
<1> DEFINE I == {i \in 1 .. Len(selectors[w]) : selectors[w][i] # t /\ select[selectors[w][i]] = "Waiting"}
<1>1. Selectable(t, w) = IF I # {} THEN Min(I) ELSE 0
  BY DEF Selectable, SelectInSeq
<1>2. I # {} /\ I \in SUBSET Nat
  BY <1>1
<1>3. Min(I) \in I
  BY <1>2, MinIsMember
<1> QED
  BY <1>1, <1>2, <1>3
=============================================================================
