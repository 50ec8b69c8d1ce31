------------------------ MODULE HistoryEntriesProofs ------------------------
(***************************************************************************)
(* Lemmas about the entries of the queues of both Event History            *)
(* coordinators: concatenation and parts of sequences, sums of bytes,      *)
(* identities, and entries that tile an interval of capture ordinals.      *)
(***************************************************************************)
EXTENDS HistoryEntries, FiniteSetTheorems, WellFoundedInduction, TLAPS

\* Extending a barrier moves its upper end.
LEMMA ExtendedBarrier ==
  ASSUME NEW e \in BarrierType, NEW o \in Nat
  PROVE  /\ Extended(e, o) \in BarrierType
         /\ Lowest(Extended(e, o)) = Lowest(e)
         /\ Highest(Extended(e, o)) = o
<1>1. Extended(e, o) \in BarrierType BY DEF BarrierType, Extended, GapBarrier
<1> QED BY <1>1 DEF Lowest, Highest, IsBarrier, Extended, GapBarrier, BarrierType

\* A refusal that joins the barrier at the tail of a queue changes only its
\* last entry, and only its upper end.
LEMMA ExtendedTail ==
  ASSUME NEW queue \in Seq(EntryType), queue # <<>>, IsBarrier(queue[Len(queue)]),
         NEW o \in Nat,
         NEW q, q = [queue EXCEPT ![Len(queue)] = Extended(@, o)]
  PROVE  /\ q \in Seq(EntryType)
         /\ Len(q) = Len(queue)
         /\ \A i \in 1..(Len(queue) - 1) : q[i] = queue[i]
         /\ Lowest(q[Len(queue)]) = Lowest(queue[Len(queue)])
         /\ Highest(q[Len(queue)]) = o
<1> DEFINE n == Len(queue)
           e == queue[n]
           f == Extended(e, o)
<1>1. n \in 1..n /\ n \in Nat OBVIOUS
<1>2. e \in BarrierType BY <1>1 DEF EntryType, IsBarrier, CandidateType
<1>3. f \in BarrierType /\ Lowest(f) = Lowest(e) /\ Highest(f) = o BY <1>2, ExtendedBarrier
<1> HIDE DEF f
<1>5. q \in Seq(EntryType) /\ Len(q) = n /\ q[n] = f BY <1>1, <1>3 DEF EntryType, f
<1>6. \A i \in 1..(n - 1) : q[i] = queue[i] BY <1>1
<1> QED BY <1>3, <1>5, <1>6

\* Capture ordinals are numbers.
LEMMA OrdinalsAreNumbers ==
  ASSUME NEW e \in EntryType \cup EvidenceType PROVE Lowest(e) \in Nat /\ Highest(e) \in Nat
PROOF BY DEF EntryType, CandidateType, BarrierType, EvidenceType, Lowest, Highest, IsBarrier

\* Induction over the naturals, for a set.
LEMMA Induction ==
  ASSUME NEW T, 0 \in T, \A n \in Nat : n \in T => n + 1 \in T PROVE \A n \in Nat : n \in T
<1> DEFINE Less == {ss \in Nat \X Nat : ss[1] < ss[2]}
           Missing == {n \in Nat : n \notin T}
<1>1. IsWellFoundedOn(Less, Nat) BY NatLessThanWellFounded DEF OpToRel
<1>2. SUFFICES ASSUME Missing # {} PROVE FALSE OBVIOUS
<1>3. PICK m \in Missing : \A n \in Missing : <<n, m>> \notin Less
  <2>1. Missing \subseteq Nat OBVIOUS
  <2> HIDE DEF Less, Missing
  <2> QED BY <1>1, <1>2, <2>1, WFMin, Zenon
<1>4. m \in Nat \ {0} /\ m - 1 \in Nat OBVIOUS
<1>5. m - 1 \in T
  <2>1. <<m - 1, m>> \in Less BY <1>4
  <2> QED BY <1>3, <1>4, <2>1
<1> QED BY <1>4, <1>5

\* f holds the partial sums of s.
IsSums(f, s) == f = [i \in 0 .. Len(s) |-> IF i = 0 THEN 0 ELSE f[i - 1] + s[i]]

Sums(s) == CHOOSE f : IsSums(f, s)

\* The recursive definition of Total has a solution.
LEMMA SumsExist ==
  ASSUME NEW s \in Seq(Nat) PROVE IsSums(Sums(s), s)
<1> DEFINE Solves(f, j) == \A i \in 0 .. j : f[i] = IF i = 0 THEN 0 ELSE f[i - 1] + s[i]
           T == {j \in Nat : j <= Len(s) => \E f : Solves(f, j)}
<1>1. 0 \in T
  <2>1. Solves([i \in {0} |-> 0], 0) OBVIOUS
  <2> QED BY <2>1
<1>2. ASSUME NEW j \in Nat, j \in T PROVE j + 1 \in T
  <2>1. SUFFICES ASSUME j + 1 <= Len(s) PROVE \E f : Solves(f, j + 1) BY <1>2
  <2>2. PICK f : Solves(f, j) BY <1>2, <2>1
  <2> DEFINE g == [i \in 0 .. j + 1 |-> IF i = j + 1 THEN f[j] + s[j + 1] ELSE f[i]]
  <2>3. ASSUME NEW i \in 0 .. j + 1 PROVE g[i] = IF i = 0 THEN 0 ELSE g[i - 1] + s[i]
    <3>1. CASE i = j + 1
      <4>1. i - 1 = j /\ j \in 0 .. j + 1 /\ j # j + 1 /\ i # 0 BY <3>1
      <4> QED BY <3>1, <4>1
    <3>2. CASE i # j + 1
      <4>1. i \in 0 .. j /\ (i # 0 => i - 1 \in 0 .. j + 1 /\ i - 1 # j + 1) BY <3>2
      <4>2. f[i] = IF i = 0 THEN 0 ELSE f[i - 1] + s[i] BY <2>2, <4>1
      <4> QED BY <3>2, <4>1, <4>2
    <3> QED BY <3>1, <3>2
  <2> QED BY <2>3
<1>3. Len(s) \in T
  <2> HIDE DEF T
  <2> QED BY <1>1, <1>2, Induction, SMTT(60)
<1>4. PICK f : Solves(f, Len(s)) BY <1>3
<1> DEFINE g == [i \in 0 .. Len(s) |-> f[i]]
<1>5. ASSUME NEW i \in 0 .. Len(s) PROVE g[i] = IF i = 0 THEN 0 ELSE g[i - 1] + s[i]
  <2>1. f[i] = IF i = 0 THEN 0 ELSE f[i - 1] + s[i] BY <1>4
  <2>2. i # 0 => i - 1 \in 0 .. Len(s) OBVIOUS
  <2> QED BY <2>1, <2>2
<1>6. IsSums(g, s) BY <1>5 DEF IsSums
<1> QED BY <1>6 DEF Sums

\* The partial sums, and Total as the last one.
LEMMA SumsFacts ==
  ASSUME NEW s \in Seq(Nat)
  PROVE  /\ Sums(s)[0] = 0
         /\ \A i \in 1 .. Len(s) : Sums(s)[i] = Sums(s)[i - 1] + s[i]
         /\ \A i \in 0 .. Len(s) : Sums(s)[i] \in Nat
         /\ Total(s) = Sums(s)[Len(s)]
<1>1. Sums(s) = [i \in 0 .. Len(s) |-> IF i = 0 THEN 0 ELSE Sums(s)[i - 1] + s[i]]
  BY SumsExist DEF IsSums
<1> DEFINE f == Sums(s)
<1> HIDE DEF f
<1>2. f = [i \in 0 .. Len(s) |-> IF i = 0 THEN 0 ELSE f[i - 1] + s[i]] BY <1>1 DEF f
<1>3. f[0] = 0 /\ \A i \in 1 .. Len(s) : f[i] = f[i - 1] + s[i] BY <1>2
<1> DEFINE T == {j \in Nat : j <= Len(s) => f[j] \in Nat}
<1>4. 0 \in T BY <1>3
<1>5. ASSUME NEW j \in Nat, j \in T PROVE j + 1 \in T
  <2>1. SUFFICES ASSUME j + 1 <= Len(s) PROVE f[j + 1] \in Nat OBVIOUS
  <2>2. f[j + 1] = f[j] + s[j + 1] /\ s[j + 1] \in Nat BY <1>3, <2>1
  <2> QED BY <1>5, <2>1, <2>2
<1>6. \A j \in Nat : j \in T
  <2> HIDE DEF T
  <2> QED BY <1>4, <1>5, Induction
<1>7. Total(s) = f[Len(s)] BY DEF Total, f, Sums, IsSums
<1> QED BY <1>3, <1>6, <1>7 DEF f

\* Whatever adds up step by step is the sum.
LEMMA TotalIs ==
  ASSUME NEW s \in Seq(Nat), NEW g, g[0] = 0,
         \A i \in 1 .. Len(s) : g[i] = g[i - 1] + s[i]
  PROVE  Total(s) = g[Len(s)]
<1> DEFINE T == {j \in Nat : j <= Len(s) => g[j] = Sums(s)[j]}
<1>1. 0 \in T BY SumsFacts
<1>2. ASSUME NEW j \in Nat, j \in T PROVE j + 1 \in T
  <2>1. SUFFICES ASSUME j + 1 <= Len(s) PROVE g[j + 1] = Sums(s)[j + 1] OBVIOUS
  <2>2. j + 1 \in 1 .. Len(s) /\ (j + 1) - 1 = j /\ g[j] = Sums(s)[j] BY <1>2, <2>1
  <2> QED BY <2>2, SumsFacts
<1>3. \A j \in Nat : j \in T
  <2> HIDE DEF T
  <2> QED BY <1>1, <1>2, Induction
<1>4. Len(s) \in T BY <1>3
<1> QED BY <1>4, SumsFacts

\* Sums of numbers are numbers; the sum of a concatenation is that of its parts.
LEMMA TotalFacts ==
  ASSUME NEW s \in Seq(Nat), NEW t \in Seq(Nat)
  PROVE  Total(s) \in Nat /\ Total(s \o t) = Total(s) + Total(t)
<1>1. Total(s) \in Nat BY SumsFacts
<1> DEFINE m == Len(s)
           n == Len(t)
           u == s \o t
           g == [i \in 0 .. m + n |-> IF i <= m THEN Sums(s)[i] ELSE Total(s) + Sums(t)[i - m]]
<1>2. /\ m \in Nat /\ n \in Nat /\ u \in Seq(Nat) /\ Len(u) = m + n
      /\ \A i \in 1 .. m : u[i] = s[i]
      /\ \A i \in 1 .. m + n : i > m => u[i] = t[i - m]
  OBVIOUS
<1>7. m \in Nat /\ n \in Nat BY <1>2
<1> HIDE DEF m, n, u
<1>3. g[0] = 0 BY <1>2, SumsFacts
<1>4. ASSUME NEW i \in 1 .. m + n PROVE g[i] = g[i - 1] + u[i]
  <2>1. CASE i <= m
    <3>1. i \in 1 .. m /\ i - 1 <= m /\ i - 1 \in 0 .. m + n /\ i \in 0 .. m + n BY <1>7, <2>1
    <3>2. Sums(s)[i] = Sums(s)[i - 1] + s[i] BY <3>1, SumsFacts DEF m
    <3> QED BY <1>2, <2>1, <3>1, <3>2
  <2>2. CASE i = m + 1
    <3>1. g[i - 1] = Total(s) BY <1>2, <2>2, SumsFacts DEF m
    <3>2. i - m = 1 /\ 1 \in 1 .. n BY <1>7, <2>2
    <3>3. Sums(t)[1] = t[1] /\ g[i] = Total(s) + Sums(t)[1] /\ u[i] = t[1]
      <4>1. Sums(t)[1] = Sums(t)[1 - 1] + t[1] /\ Sums(t)[0] = 0 BY <3>2, SumsFacts DEF n
      <4>2. t[1] \in Nat BY <3>2 DEF n
      <4> QED BY <1>2, <2>2, <3>2, <4>1, <4>2
    <3> QED BY <3>1, <3>3
  <2>3. CASE i > m + 1
    <3>1. i - m \in 1 .. n /\ (i - m) - 1 = (i - 1) - m /\ i - 1 > m /\ i - 1 \in 0 .. m + n
      BY <1>7, <2>3
    <3>2. /\ Sums(t)[i - m] = Sums(t)[(i - m) - 1] + t[i - m]
          /\ Sums(t)[(i - m) - 1] \in Nat /\ t[i - m] \in Nat
      <4>1. (i - m) - 1 \in 0 .. n BY <1>7, <3>1
      <4> QED BY <3>1, <4>1, SumsFacts DEF n
    <3>3. g[i] = Total(s) + Sums(t)[i - m]
      <4>1. i \in 0 .. m + n /\ ~(i <= m) BY <1>7, <2>3
      <4> QED BY <4>1
    <3>4. g[i - 1] = Total(s) + Sums(t)[(i - m) - 1]
      <4>1. i - 1 \in 0 .. m + n /\ ~(i - 1 <= m) /\ (i - 1) - m = (i - m) - 1 BY <1>7, <2>3
      <4> QED BY <4>1
    <3>5. u[i] = t[i - m] BY <1>2, <2>3
    <3> HIDE DEF g
    <3> QED BY <1>1, <3>2, <3>3, <3>4, <3>5
  <2> QED BY <1>7, <2>1, <2>2, <2>3
<1>5. Total(u) = g[m + n]
  <2> HIDE DEF g
  <2> QED BY <1>2, <1>3, <1>4, TotalIs
<1>6. g[m + n] = Total(s) + Total(t)
  <2>1. CASE n = 0
    <3>1. Total(t) = 0 BY <2>1, SumsFacts DEF n
    <3> QED BY <1>1, <1>2, <2>1, <3>1, SumsFacts DEF m
  <2>2. CASE n # 0 BY <1>2, <2>2, SumsFacts DEF n
  <2> QED BY <2>1, <2>2
<1> QED BY <1>1, <1>5, <1>6 DEF u

\* Where the entries of a concatenation come from.
LEMMA Concat ==
  ASSUME NEW S, NEW s \in Seq(S), NEW t \in Seq(S)
  PROVE  /\ s \o t \in Seq(S) /\ Len(s \o t) = Len(s) + Len(t)
         /\ \A i \in 1 .. Len(s) : (s \o t)[i] = s[i]
         /\ \A i \in 1 .. Len(t) : (s \o t)[Len(s) + i] = t[i]
         /\ \A i \in 1 .. Len(s) + Len(t) :
              \/ i \in 1 .. Len(s) /\ (s \o t)[i] = s[i]
              \/ i - Len(s) \in 1 .. Len(t) /\ (s \o t)[i] = t[i - Len(s)]
PROOF OBVIOUS

\* Appending an entry is concatenation with it.
LEMMA AppendFacts ==
  ASSUME NEW S, NEW s \in Seq(S), NEW e \in S
  PROVE  /\ Append(s, e) \in Seq(S) /\ Append(s, e) # <<>>
         /\ Append(s, e) = s \o <<e>>
<1>1. Append(s, e) \in Seq(S) /\ Len(Append(s, e)) = Len(s) + 1 OBVIOUS
<1>2. Append(s, e) # <<>>
  <2> DEFINE a == Append(s, e)
  <2>1. Len(a) = Len(s) + 1 /\ Len(s) \in Nat /\ Len(<<>>) = 0 BY <1>1
  <2> HIDE DEF a
  <2>2. a # <<>> BY <2>1
  <2> QED BY <2>2 DEF a
<1> QED BY <1>1, <1>2

\* Concatenation is associative.
LEMMA ConcatAssociates ==
  ASSUME NEW S, NEW s \in Seq(S), NEW t \in Seq(S), NEW u \in Seq(S)
  PROVE  (s \o t) \o u = s \o (t \o u)
PROOF OBVIOUS

\* A sequence is its parts.
LEMMA Parts ==
  ASSUME NEW S, NEW s \in Seq(S), NEW n \in 0 .. Len(s)
  PROVE  /\ SubSeq(s, 1, n) \in Seq(S) /\ Len(SubSeq(s, 1, n)) = n
         /\ SubSeq(s, n + 1, Len(s)) \in Seq(S) /\ Len(SubSeq(s, n + 1, Len(s))) = Len(s) - n
         /\ \A i \in 1 .. n : SubSeq(s, 1, n)[i] = s[i]
         /\ \A i \in 1 .. Len(s) - n : SubSeq(s, n + 1, Len(s))[i] = s[n + i]
         /\ s = SubSeq(s, 1, n) \o SubSeq(s, n + 1, Len(s))
<1> DEFINE a == SubSeq(s, 1, n)
           b == SubSeq(s, n + 1, Len(s))
<1>1. /\ a \in Seq(S) /\ Len(a) = n /\ \A i \in 1 .. n : a[i] = s[i] OBVIOUS
<1>2. /\ b \in Seq(S) /\ Len(b) = Len(s) - n /\ \A i \in 1 .. Len(s) - n : b[i] = s[n + i]
  OBVIOUS
<1> HIDE DEF a, b
<1> DEFINE c == a \o b
<1>3. /\ c \in Seq(S) /\ Len(c) = n + (Len(s) - n)
      /\ \A i \in 1 .. n + (Len(s) - n) :
           \/ i \in 1 .. n /\ c[i] = a[i]
           \/ i - n \in 1 .. Len(s) - n /\ c[i] = b[i - n]
  <2>1. a \in Seq(S) /\ b \in Seq(S) /\ Len(a) = n /\ Len(b) = Len(s) - n BY <1>1, <1>2
  <2>2. /\ c \in Seq(S) /\ Len(c) = Len(a) + Len(b)
        /\ \A i \in 1 .. Len(a) + Len(b) :
             \/ i \in 1 .. Len(a) /\ c[i] = a[i]
             \/ i - Len(a) \in 1 .. Len(b) /\ c[i] = b[i - Len(a)]
    BY <2>1, Concat
  <2> QED BY <2>1, <2>2, Zenon
<1> HIDE DEF c
<1>4. ASSUME NEW i \in 1 .. Len(s) PROVE c[i] = s[i]
  <2>1. CASE i \in 1 .. n /\ c[i] = a[i] BY <1>1, <2>1
  <2>2. CASE i - n \in 1 .. Len(s) - n /\ c[i] = b[i - n]
    <3>1. n + (i - n) = i OBVIOUS
    <3> QED BY <1>2, <2>2, <3>1
  <2> QED BY <1>3, <2>1, <2>2
<1>5. Len(c) = Len(s) BY <1>3
<1>6. s = c BY <1>3, <1>4, <1>5
<1> QED BY <1>1, <1>2, <1>6 DEF a, b, c

\* A sequence that is not empty is its first entry and the rest.
LEMMA HeadAndTail ==
  ASSUME NEW S, NEW s \in Seq(S), s # <<>>
  PROVE  /\ Head(s) \in S /\ Tail(s) \in Seq(S)
         /\ s = <<Head(s)>> \o Tail(s)
PROOF OBVIOUS

\* The bytes of a concatenation are those of its parts.
LEMMA BytesFacts ==
  ASSUME NEW S, \A e \in S : e.bytes \in Nat, NEW s \in Seq(S), NEW t \in Seq(S)
  PROVE  /\ BytesOf(s) \in Nat
         /\ BytesOf(s \o t) = BytesOf(s) + BytesOf(t)
<1> DEFINE byte(e) == e.bytes
           B(q) == [i \in DOMAIN q |-> byte(q[i])]
<1>3. BytesOf(s) = Total(B(s)) /\ BytesOf(t) = Total(B(t)) /\ BytesOf(s \o t) = Total(B(s \o t))
  BY DEF BytesOf
<1>4. \A e \in S : byte(e) \in Nat OBVIOUS
<1> HIDE DEF byte
<1>5. ASSUME NEW q \in Seq(S)
      PROVE  /\ B(q) \in Seq(Nat) /\ Len(B(q)) = Len(q)
             /\ \A i \in 1 .. Len(q) : B(q)[i] = byte(q[i])
  <2>1. \A i \in 1 .. Len(q) : byte(q[i]) \in Nat BY <1>4
  <2>2. B(q) = [i \in 1 .. Len(q) |-> byte(q[i])] OBVIOUS
  <2> HIDE DEF B
  <2> QED BY <2>1, <2>2
<1>1. /\ B(s) \in Seq(Nat) /\ Len(B(s)) = Len(s)
      /\ B(t) \in Seq(Nat) /\ Len(B(t)) = Len(t)
      /\ \A i \in 1 .. Len(s) : B(s)[i] = byte(s[i])
      /\ \A i \in 1 .. Len(t) : B(t)[i] = byte(t[i])
  <2> HIDE DEF B
  <2> QED BY <1>5
<1>2. B(s \o t) = B(s) \o B(t)
  <2> DEFINE u == s \o t
             v == B(s) \o B(t)
  <2>1. /\ u \in Seq(S) /\ Len(u) = Len(s) + Len(t)
        /\ \A i \in 1 .. Len(s) + Len(t) :
             \/ i \in 1 .. Len(s) /\ u[i] = s[i]
             \/ i - Len(s) \in 1 .. Len(t) /\ u[i] = t[i - Len(s)]
    BY Concat
  <2>2. /\ v \in Seq(Nat) /\ Len(v) = Len(s) + Len(t)
        /\ \A i \in 1 .. Len(s) : v[i] = B(s)[i]
        /\ \A i \in 1 .. Len(t) : v[Len(s) + i] = B(t)[i]
    <3> HIDE DEF B
    <3>1. B(s) \in Seq(Nat) /\ B(t) \in Seq(Nat) BY <1>1
    <3>2. /\ v \in Seq(Nat) /\ Len(v) = Len(B(s)) + Len(B(t))
          /\ \A i \in 1 .. Len(B(s)) : v[i] = B(s)[i]
          /\ \A i \in 1 .. Len(B(t)) : v[Len(B(s)) + i] = B(t)[i]
      BY <3>1, Concat
    <3> HIDE DEF v
    <3> QED BY <1>1, <3>2
  <2>3. ASSUME NEW i \in 1 .. Len(s) + Len(t) PROVE v[i] = byte(u[i])
    <3> HIDE DEF B, u, v
    <3>1. CASE i \in 1 .. Len(s) /\ u[i] = s[i] BY <1>1, <2>2, <3>1
    <3>2. CASE i - Len(s) \in 1 .. Len(t) /\ u[i] = t[i - Len(s)]
      <4>1. i = Len(s) + (i - Len(s)) OBVIOUS
      <4> QED BY <1>1, <2>2, <3>2, <4>1
    <3> QED BY <2>1, <3>1, <3>2
  <2>4. B(u) = [i \in 1 .. Len(s) + Len(t) |-> byte(u[i])]
    <3> HIDE DEF u
    <3> QED BY <2>1
  <2>5. v = [i \in 1 .. Len(s) + Len(t) |-> byte(u[i])]
    <3> HIDE DEF u, v
    <3> QED BY <2>2, <2>3
  <2> QED BY <2>4, <2>5
<1> HIDE DEF B
<1> QED BY <1>1, <1>2, <1>3, TotalFacts

\* A queue entry is a candidate or a barrier, and its weight is a number.
LEMMA EntryFacts ==
  ASSUME NEW e \in EntryType
  PROVE  /\ IsCandidate(e) => e \in CandidateType /\ e.bytes \in Nat /\ ~IsBarrier(e)
         /\ ~IsCandidate(e) => e \in BarrierType /\ IsBarrier(e)
         /\ IsBarrier(e) => ~IsCandidate(e)
         /\ Lowest(e) \in Nat /\ Highest(e) \in Nat
<1>1. e \in CandidateType => IsCandidate(e) /\ ~IsBarrier(e) /\ e.bytes \in Nat
  BY LimitsAssumption DEF CandidateType, IsCandidate, IsBarrier
<1>2. e \in BarrierType => ~IsCandidate(e) /\ IsBarrier(e)
  BY DEF BarrierType, IsCandidate, IsBarrier
<1> QED BY <1>1, <1>2, OrdinalsAreNumbers DEF EntryType

\* An entry stands for a range of ordinals, a barrier for as many as it counts.
Whole(e) ==
  /\ Lowest(e) <= Highest(e)
  /\ IsBarrier(e) => e.count = Highest(e) - Lowest(e) + 1

\* The entries of q stand for the ordinals a + 1 .. b, one after the other.
Tiles(q, a, b) ==
  /\ q = <<>> => a = b
  /\ q # <<>> => Lowest(q[1]) = a + 1 /\ Highest(q[Len(q)]) = b
  /\ \A i \in 1 .. Len(q) : Whole(q[i])
  /\ \A i \in 1 .. Len(q) : i > 1 => Lowest(q[i]) = Highest(q[i - 1]) + 1

\* A single entry stands for its own range.
LEMMA TilesOne ==
  ASSUME NEW e \in EntryType, NEW a \in Nat, NEW b \in Nat
  PROVE  Tiles(<<e>>, a, b) <=> Whole(e) /\ Lowest(e) = a + 1 /\ Highest(e) = b
PROOF BY DEF Tiles

\* Two queues, one after the other, stand for adjacent ranges.
LEMMA TilesConcat ==
  ASSUME NEW q \in Seq(EntryType), NEW r \in Seq(EntryType),
         NEW a \in Nat, NEW b \in Nat, NEW c \in Nat, Tiles(q, a, b), Tiles(r, b, c)
  PROVE  Tiles(q \o r, a, c)
<1> DEFINE m == Len(q)
           n == Len(r)
           u == q \o r
<1>1. /\ m \in Nat /\ n \in Nat /\ u \in Seq(EntryType) /\ Len(u) = m + n
      /\ \A i \in 1 .. m : u[i] = q[i]
      /\ \A i \in 1 .. n : u[m + i] = r[i]
      /\ \A i \in 1 .. m + n : \/ i \in 1 .. m /\ u[i] = q[i]
                               \/ i - m \in 1 .. n /\ u[i] = r[i - m]
  BY Concat
<1>2. /\ q = <<>> <=> m = 0
      /\ r = <<>> <=> n = 0
      /\ u = <<>> <=> m + n = 0
  BY <1>1
<1> HIDE DEF u
<1>3. u = <<>> => a = c BY <1>1, <1>2 DEF Tiles
<1>4. ASSUME u # <<>> PROVE Lowest(u[1]) = a + 1 /\ Highest(u[Len(u)]) = c
  <2>1. CASE m = 0
    <3>1. n # 0 /\ u[m + 1] = r[1] /\ u[m + n] = r[n] /\ a = b
      BY <1>1, <1>2, <1>4, <2>1 DEF Tiles
    <3> QED BY <1>1, <1>2, <2>1, <3>1 DEF Tiles
  <2>2. CASE m # 0 /\ n = 0
    <3>1. u[1] = q[1] /\ u[m] = q[m] /\ b = c /\ Len(u) = m BY <1>1, <1>2, <2>2 DEF Tiles
    <3> QED BY <1>1, <1>2, <2>2, <3>1 DEF Tiles
  <2>3. CASE m # 0 /\ n # 0
    <3>1. u[1] = q[1] /\ u[m + n] = r[n] BY <1>1, <2>3
    <3> QED BY <1>1, <1>2, <2>3, <3>1 DEF Tiles
  <2> QED BY <2>1, <2>2, <2>3
<1>5. \A i \in 1 .. Len(u) : Whole(u[i]) BY <1>1 DEF Tiles
<1>6. ASSUME NEW i \in 1 .. Len(u), i > 1 PROVE Lowest(u[i]) = Highest(u[i - 1]) + 1
  <2>1. CASE i <= m
    <3>1. u[i] = q[i] /\ u[i - 1] = q[i - 1] /\ i \in 1 .. m BY <1>1, <1>6, <2>1
    <3> QED BY <1>6, <3>1 DEF Tiles
  <2>2. CASE i = m + 1
    <3>1. u[i] = r[1] /\ u[i - 1] = q[m] /\ m # 0 /\ n # 0 BY <1>1, <1>6, <2>2
    <3> QED BY <1>2, <3>1 DEF Tiles
  <2>3. CASE i > m + 1
    <3>1. i - m \in 1 .. n /\ (i - m) - 1 \in 1 .. n /\ i = m + (i - m) /\ i - 1 = m + ((i - m) - 1)
      BY <1>1, <1>6, <2>3
    <3>2. u[i] = r[i - m] /\ u[i - 1] = r[(i - m) - 1] BY <1>1, <3>1
    <3> QED BY <1>1, <2>3, <3>1, <3>2 DEF Tiles
  <2> QED BY <1>1, <2>1, <2>2, <2>3
<1> QED BY <1>3, <1>4, <1>5, <1>6 DEF u, Tiles

\* The parts of a queue stand for parts of its range.
LEMMA TilesSplit ==
  ASSUME NEW q \in Seq(EntryType), NEW r \in Seq(EntryType),
         NEW a \in Nat, NEW c \in Nat, Tiles(q \o r, a, c)
  PROVE  \E b \in Nat : Tiles(q, a, b) /\ Tiles(r, b, c)
<1> DEFINE m == Len(q)
           n == Len(r)
           u == q \o r
<1>1. /\ m \in Nat /\ n \in Nat /\ u \in Seq(EntryType) /\ Len(u) = m + n
      /\ \A i \in 1 .. m : u[i] = q[i]
      /\ \A i \in 1 .. n : u[m + i] = r[i]
  BY Concat
<1>2. /\ q = <<>> <=> m = 0
      /\ r = <<>> <=> n = 0
      /\ u = <<>> <=> m + n = 0
  BY <1>1
<1>3. ASSUME NEW i \in 1 .. m + n PROVE Lowest(u[i]) \in Nat /\ Highest(u[i]) \in Nat
  <2>1. u[i] \in EntryType BY <1>1
  <2> QED BY <2>1, EntryFacts
<1>t. Tiles(u, a, c) OBVIOUS
<1> HIDE DEF u
<1> DEFINE b == IF m = 0 THEN a ELSE Highest(q[m])
<1>4. b \in Nat BY <1>1, <1>3
<1>5. Tiles(q, a, b)
  <2>1. q # <<>> => Lowest(q[1]) = a + 1 /\ Highest(q[Len(q)]) = b BY <1>1, <1>2, <1>t DEF Tiles
  <2>2. ASSUME NEW i \in 1 .. m
        PROVE  /\ Whole(q[i])
               /\ i > 1 => Lowest(q[i]) = Highest(q[i - 1]) + 1
    <3>1. i \in 1 .. m + n /\ u[i] = q[i] /\ (i > 1 => i - 1 \in 1 .. m) BY <1>1
    <3>2. i > 1 => u[i - 1] = q[i - 1] BY <1>1, <3>1
    <3> QED BY <1>1, <1>t, <3>1, <3>2 DEF Tiles
  <2> QED BY <1>2, <2>1, <2>2 DEF Tiles
<1>6. Tiles(r, b, c)
  <2>1. r = <<>> => b = c BY <1>1, <1>2, <1>t DEF Tiles
  <2>2. ASSUME r # <<>> PROVE Lowest(r[1]) = b + 1 /\ Highest(r[n]) = c
    <3>1. n # 0 /\ u[m + 1] = r[1] /\ u[m + n] = r[n] /\ m + 1 \in 1 .. m + n /\ (m + 1) - 1 = m
      BY <1>1, <1>2, <2>2
    <3>2. Highest(r[n]) = c BY <1>1, <1>2, <1>t, <3>1 DEF Tiles
    <3>3. CASE m = 0 BY <1>1, <1>2, <1>t, <3>1, <3>2, <3>3 DEF Tiles
    <3>4. CASE m # 0
      <4>1. u[m] = q[m] /\ m + 1 > 1 BY <1>1, <3>4
      <4>2. Lowest(u[m + 1]) = Highest(u[m]) + 1 BY <1>1, <1>t, <3>1, <4>1 DEF Tiles
      <4> QED BY <3>1, <3>2, <3>4, <4>1, <4>2
    <3> QED BY <3>3, <3>4
  <2>3. ASSUME NEW i \in 1 .. n
        PROVE  /\ Whole(r[i])
               /\ i > 1 => Lowest(r[i]) = Highest(r[i - 1]) + 1
    <3>1. /\ m + i \in 1 .. m + n /\ u[m + i] = r[i]
          /\ i > 1 => i - 1 \in 1 .. n /\ (m + i) - 1 = m + (i - 1) /\ m + i > 1
      BY <1>1
    <3>2. i > 1 => u[(m + i) - 1] = r[i - 1] BY <1>1, <3>1
    <3> QED BY <1>1, <1>t, <3>1, <3>2 DEF Tiles
  <2> QED BY <1>2, <2>1, <2>2, <2>3 DEF Tiles
<1> QED BY <1>4, <1>5, <1>6

\* The entries cover the range, and nothing outside it.
LEMMA TilesCover ==
  ASSUME NEW q \in Seq(EntryType), NEW a \in Nat, NEW b \in Nat, Tiles(q, a, b)
  PROVE  /\ a <= b
         /\ UNION {OrdinalsOf(q[i]) : i \in 1 .. Len(q)} = a + 1 .. b
<1> DEFINE n == Len(q)
           end(j) == IF j = 0 THEN a ELSE Highest(q[j])
           cover(j) == UNION {OrdinalsOf(q[i]) : i \in 1 .. j}
           T == {j \in Nat : j <= n => end(j) \in Nat /\ a <= end(j) /\ cover(j) = a + 1 .. end(j)}
<1>1. 0 \in T OBVIOUS
<1>2. ASSUME NEW j \in Nat, j \in T PROVE j + 1 \in T
  <2>1. SUFFICES ASSUME j + 1 <= n
                 PROVE  /\ end(j + 1) \in Nat /\ a <= end(j + 1)
                        /\ cover(j + 1) = a + 1 .. end(j + 1)
    OBVIOUS
  <2>2. end(j) \in Nat /\ a <= end(j) /\ cover(j) = a + 1 .. end(j) BY <1>2, <2>1
  <2> DEFINE e == q[j + 1]
  <2>3. j + 1 \in 1 .. n /\ e \in EntryType /\ Lowest(e) \in Nat /\ Highest(e) \in Nat
    BY <2>1, EntryFacts
  <2>4. Whole(e) /\ Lowest(e) = end(j) + 1
    <3>1. CASE j = 0 BY <2>1, <2>3, <3>1 DEF Tiles
    <3>2. CASE j # 0
      <4>1. j + 1 > 1 /\ (j + 1) - 1 = j BY <3>2
      <4> QED BY <2>3, <3>2, <4>1 DEF Tiles
    <3> QED BY <3>1, <3>2
  <2>5. end(j + 1) = Highest(e) /\ Lowest(e) <= Highest(e) /\ OrdinalsOf(e) = Lowest(e) .. Highest(e)
    BY <2>4 DEF Whole, OrdinalsOf
  <2>6. cover(j + 1) = cover(j) \cup OrdinalsOf(e)
    <3>1. 1 .. j + 1 = 1 .. j \cup {j + 1} OBVIOUS
    <3> QED BY <3>1
  <2> HIDE DEF cover, end, e
  <2>7. a + 1 .. end(j + 1) = (a + 1 .. end(j)) \cup (end(j) + 1 .. end(j + 1))
    BY <2>2, <2>3, <2>4, <2>5
  <2>8. cover(j + 1) = a + 1 .. end(j + 1) BY <2>2, <2>4, <2>5, <2>6, <2>7
  <2> QED BY <2>2, <2>3, <2>4, <2>5, <2>8
<1>3. \A j \in Nat : j \in T
  <2> HIDE DEF T
  <2> QED BY <1>1, <1>2, Induction
<1>4. n \in Nat /\ n \in T BY <1>3
<1>5. end(n) = b BY DEF Tiles
<1> QED BY <1>4, <1>5, SMTT(60)

\* The entries of a batch stand for one ordinal each.
LEMMA TilesBatch ==
  ASSUME NEW q \in Seq(CandidateType), NEW a \in Nat, NEW b \in Nat, Tiles(q, a, b)
  PROVE  /\ b = a + Len(q)
         /\ \A i \in 1 .. Len(q) : q[i].ordinal = a + i
<1> DEFINE n == Len(q)
           T == {j \in Nat : j \in 1 .. n => q[j].ordinal = a + j}
<1>1. ASSUME NEW i \in 1 .. n
      PROVE  /\ Lowest(q[i]) = q[i].ordinal /\ Highest(q[i]) = q[i].ordinal
             /\ q[i].ordinal \in Nat
  <2>1. q[i] \in CandidateType OBVIOUS
  <2> QED BY <2>1 DEF CandidateType, Lowest, Highest, IsBarrier
<1>2. 0 \in T OBVIOUS
<1>3. ASSUME NEW j \in Nat, j \in T PROVE j + 1 \in T
  <2>1. SUFFICES ASSUME j + 1 \in 1 .. n PROVE q[j + 1].ordinal = a + (j + 1) OBVIOUS
  <2>2. CASE j = 0 BY <1>1, <2>1, <2>2 DEF Tiles
  <2>3. CASE j # 0
    <3>1. j \in 1 .. n /\ (j + 1) - 1 = j /\ j + 1 > 1 /\ q[j].ordinal = a + j
      BY <1>3, <2>1, <2>3
    <3>2. Lowest(q[j + 1]) = Highest(q[j]) + 1 BY <2>1, <3>1 DEF Tiles
    <3> QED BY <1>1, <2>1, <3>1, <3>2
  <2> QED BY <2>2, <2>3
<1>4. \A j \in Nat : j \in T
  <2> HIDE DEF T
  <2> QED BY <1>2, <1>3, Induction
<1>5. \A i \in 1 .. n : q[i].ordinal = a + i BY <1>4
<1>6. b = a + n
  <2>1. CASE n = 0 BY <2>1 DEF Tiles
  <2>2. CASE n # 0
    <3>1. n \in 1 .. n /\ Highest(q[n]) = b BY <2>2 DEF Tiles
    <3> QED BY <1>1, <1>5, <3>1
  <2> QED BY <2>1, <2>2
<1> QED BY <1>5, <1>6

DistinctIds(s) == \A i, j \in DOMAIN s : i # j => s[i].eventId # s[j].eventId

\* The empty sequence is neutral.
LEMMA EmptyConcat ==
  ASSUME NEW S, NEW s \in Seq(S) PROVE s \o <<>> = s /\ <<>> \o s = s /\ <<>> \in Seq(S)
PROOF OBVIOUS

\* Concatenation of queues is associative.
LEMMA EntriesAssociate ==
  ASSUME NEW s \in Seq(EntryType), NEW t \in Seq(EntryType), NEW u \in Seq(EntryType)
  PROVE  (s \o t) \o u = s \o (t \o u) /\ s \o t \in Seq(EntryType)
PROOF BY ConcatAssociates

\* The same, for four of them.
LEMMA EntriesRegroup ==
  ASSUME NEW x \in Seq(EntryType), NEW s \in Seq(EntryType), NEW t \in Seq(EntryType),
         NEW u \in Seq(EntryType)
  PROVE  (x \o (s \o t)) \o u = x \o (s \o (t \o u))
<1>1. (x \o (s \o t)) \o u = x \o ((s \o t) \o u)
  <2>1. ASSUME NEW v \in Seq(EntryType) PROVE (x \o v) \o u = x \o (v \o u)
    BY EntriesAssociate, SMTT(60)
  <2>2. s \o t \in Seq(EntryType) OBVIOUS
  <2> QED BY <2>1, <2>2, Zenon
<1>2. (s \o t) \o u = s \o (t \o u) BY EntriesAssociate
<1> QED BY <1>1, <1>2

\* A sequence that is not empty is its front and its last entry; replacing the
\* last entry keeps the front.
LEMMA FrontAndLast ==
  ASSUME NEW s \in Seq(EntryType), s # <<>>, NEW e \in EntryType
  PROVE  \E p \in Seq(EntryType) : /\ s = p \o <<s[Len(s)]>>
                                   /\ [s EXCEPT ![Len(s)] = e] = p \o <<e>>
<1> DEFINE n == Len(s)
           p == SubSeq(s, 1, n - 1)
<1>1. n \in Nat \ {0} /\ n - 1 \in 0 .. n /\ s[n] \in EntryType OBVIOUS
<1>2. p \in Seq(EntryType) /\ Len(p) = n - 1 /\ \A i \in 1 .. n - 1 : p[i] = s[i]
  BY <1>1, Parts, ZenonT(60)
<1> HIDE DEF p
<1>3. ASSUME NEW f \in EntryType, NEW t \in Seq(EntryType), Len(t) = n, t[n] = f,
             \A i \in 1 .. n - 1 : t[i] = s[i]
      PROVE  t = p \o <<f>>
  <2> DEFINE c == p \o <<f>>
  <2>1. /\ c \in Seq(EntryType) /\ Len(c) = n /\ c[n] = f /\ \A i \in 1 .. n - 1 : c[i] = p[i]
    BY <1>1, <1>2
  <2> HIDE DEF c
  <2>2. ASSUME NEW i \in 1 .. n PROVE t[i] = c[i]
    <3>1. CASE i = n BY <1>3, <2>1, <3>1
    <3>2. CASE i \in 1 .. n - 1 BY <1>2, <1>3, <2>1, <3>2
    <3> QED BY <1>1, <3>1, <3>2
  <2>3. t = c BY <1>3, <2>1, <2>2
  <2> QED BY <2>3 DEF c
<1>4. s = p \o <<s[n]>> BY <1>1, <1>3
<1> DEFINE r == [s EXCEPT ![n] = e]
<1>5. r \in Seq(EntryType) /\ Len(r) = n /\ r[n] = e /\ \A i \in 1 .. n - 1 : r[i] = s[i]
  BY <1>1
<1> HIDE DEF r
<1>6. r = p \o <<e>> BY <1>3, <1>5
<1> QED BY <1>2, <1>4, <1>6 DEF r

\* The identities of a concatenation are those of its parts, and when none
\* is repeated the parts have none in common.
LEMMA IdsFacts ==
  ASSUME NEW S, NEW s \in Seq(S), NEW t \in Seq(S)
  PROVE  /\ IdsOf(s \o t) = IdsOf(s) \cup IdsOf(t)
         /\ DistinctIds(s \o t) => DistinctIds(t) /\ IdsOf(s) \cap IdsOf(t) = {}
         /\ DistinctIds(s) /\ DistinctIds(t) /\ IdsOf(s) \cap IdsOf(t) = {} => DistinctIds(s \o t)
<1> DEFINE u == s \o t
           m == Len(s)
           n == Len(t)
<1>1. /\ m \in Nat /\ n \in Nat /\ DOMAIN s = 1 .. m /\ DOMAIN t = 1 .. n /\ DOMAIN u = 1 .. m + n
      /\ \A i \in 1 .. m : u[i] = s[i]
      /\ \A i \in 1 .. n : u[m + i] = t[i]
      /\ \A i \in 1 .. m + n : \/ i \in 1 .. m /\ u[i] = s[i]
                               \/ i - m \in 1 .. n /\ u[i] = t[i - m]
  BY Concat
<1>2. /\ \A i \in 1 .. m : i \in 1 .. m + n
      /\ \A i \in 1 .. n : m + i \in 1 .. m + n
      /\ \A i \in 1 .. m, j \in 1 .. n : i # m + j
      /\ \A i \in 1 .. n, j \in 1 .. n : i # j => m + i # m + j
      /\ \A i \in Int, j \in Int : i # j => i - m # j - m
  BY <1>1
<1> HIDE DEF u, m, n
<1>3. IdsOf(u) = IdsOf(s) \cup IdsOf(t)
  <2>1. ASSUME NEW i \in 1 .. m + n PROVE u[i].eventId \in IdsOf(s) \cup IdsOf(t)
    BY <1>1 DEF IdsOf
  <2>2. ASSUME NEW i \in 1 .. m PROVE s[i].eventId \in IdsOf(u) BY <1>1, <1>2 DEF IdsOf
  <2>3. ASSUME NEW i \in 1 .. n PROVE t[i].eventId \in IdsOf(u) BY <1>1, <1>2 DEF IdsOf
  <2>4. ASSUME NEW x \in IdsOf(u) PROVE x \in IdsOf(s) \cup IdsOf(t)
    <3>1. PICK i \in 1 .. m + n : x = u[i].eventId BY <1>1 DEF IdsOf
    <3> QED BY <2>1, <3>1
  <2>5. ASSUME NEW x \in IdsOf(s) \cup IdsOf(t) PROVE x \in IdsOf(u)
    <3>1. CASE x \in IdsOf(s)
      <4>1. PICK i \in 1 .. m : x = s[i].eventId BY <1>1, <3>1 DEF IdsOf
      <4> QED BY <2>2, <4>1
    <3>2. CASE x \in IdsOf(t)
      <4>1. PICK i \in 1 .. n : x = t[i].eventId BY <1>1, <3>2 DEF IdsOf
      <4> QED BY <2>3, <4>1
    <3> QED BY <3>1, <3>2
  <2> QED BY <2>4, <2>5
<1>4. ASSUME DistinctIds(u) PROVE DistinctIds(t) /\ IdsOf(s) \cap IdsOf(t) = {}
  <2>1. ASSUME NEW i \in 1 .. n, NEW j \in 1 .. n, i # j PROVE t[i].eventId # t[j].eventId
    <3>1. m + i \in 1 .. m + n /\ m + j \in 1 .. m + n /\ m + i # m + j BY <1>2, <2>1
    <3>2. u[m + i].eventId # u[m + j].eventId BY <1>1, <1>4, <3>1 DEF DistinctIds
    <3> QED BY <1>1, <3>2
  <2>2. ASSUME NEW i \in 1 .. m, NEW j \in 1 .. n PROVE s[i].eventId # t[j].eventId
    <3>1. i \in 1 .. m + n /\ m + j \in 1 .. m + n /\ i # m + j BY <1>2
    <3>2. u[i].eventId # u[m + j].eventId BY <1>1, <1>4, <3>1 DEF DistinctIds
    <3> QED BY <1>1, <3>2
  <2>3. DistinctIds(t) BY <1>1, <2>1 DEF DistinctIds
  <2>4. ASSUME NEW x \in IdsOf(s), x \in IdsOf(t) PROVE FALSE
    <3>1. PICK i \in 1 .. m : x = s[i].eventId BY <1>1 DEF IdsOf
    <3>2. PICK j \in 1 .. n : x = t[j].eventId BY <1>1, <2>4 DEF IdsOf
    <3> QED BY <2>2, <3>1, <3>2
  <2> QED BY <2>3, <2>4
<1>5. ASSUME DistinctIds(s), DistinctIds(t), IdsOf(s) \cap IdsOf(t) = {} PROVE DistinctIds(u)
  <2>1. ASSUME NEW i \in 1 .. m, NEW j \in 1 .. n PROVE s[i].eventId # t[j].eventId
    BY <1>1, <1>5 DEF IdsOf
  <2>a. ASSUME NEW i \in 1 .. m, NEW j \in 1 .. m, i # j PROVE s[i].eventId # s[j].eventId
    BY <1>1, <1>5, <2>a DEF DistinctIds
  <2>b. ASSUME NEW i \in 1 .. n, NEW j \in 1 .. n, i # j PROVE t[i].eventId # t[j].eventId
    BY <1>1, <1>5, <2>b DEF DistinctIds
  <2>2. ASSUME NEW i \in 1 .. m + n, NEW j \in 1 .. m + n, i # j
        PROVE  u[i].eventId # u[j].eventId
    <3>1. CASE i \in 1 .. m /\ u[i] = s[i]
      <4>1. CASE j \in 1 .. m /\ u[j] = s[j] BY <2>2, <2>a, <3>1, <4>1
      <4>2. CASE j - m \in 1 .. n /\ u[j] = t[j - m] BY <2>1, <3>1, <4>2
      <4> QED BY <1>1, <4>1, <4>2
    <3>2. CASE i - m \in 1 .. n /\ u[i] = t[i - m]
      <4>1. CASE j \in 1 .. m /\ u[j] = s[j] BY <2>1, <3>2, <4>1
      <4>2. CASE j - m \in 1 .. n /\ u[j] = t[j - m]
        <5>1. i - m # j - m BY <1>1, <1>2, <2>2
        <5> QED BY <2>b, <3>2, <4>2, <5>1
      <4> QED BY <1>1, <4>1, <4>2
    <3> QED BY <1>1, <3>1, <3>2
  <2> QED BY <1>1, <2>2 DEF DistinctIds
<1> QED BY <1>3, <1>4, <1>5 DEF u

\* The mark to which retention retreats is not above the one that starts it.
LEMMA LowWaterBelow ==
  ASSUME NEW h \in Nat PROVE rollingLowWater(h) \in Nat /\ rollingLowWater(h) <= h
<1>1. (9 * h) \div 10 \in Nat /\ (9 * h) \div 10 <= h OBVIOUS
<1> QED BY <1>1 DEF rollingLowWater

\* A sequence without repeated identities has as many of them as entries.
LEMMA DistinctIdsCount ==
  ASSUME NEW S, NEW s \in Seq(S), DistinctIds(s) PROVE Cardinality(IdsOf(s)) = Len(s)
<1> DEFINE f == [i \in 1 .. Len(s) |-> s[i].eventId]
<1>1. Len(s) \in Nat /\ DOMAIN s = 1 .. Len(s) OBVIOUS
<1>2. f \in Bijection(1 .. Len(s), IdsOf(s))
  <2>1. f \in [1 .. Len(s) -> IdsOf(s)] BY <1>1 DEF IdsOf
  <2>2. \A i, j \in 1 .. Len(s) : f[i] = f[j] => i = j BY <1>1 DEF DistinctIds
  <2>3. \A x \in IdsOf(s) : \E i \in 1 .. Len(s) : f[i] = x BY <1>1 DEF IdsOf
  <2> HIDE DEF f
  <2> QED BY <2>1, <2>2, <2>3 DEF Bijection, Injection, Surjection, IsInjective
<1>3. ExistsBijection(1 .. Len(s), IdsOf(s)) BY <1>2 DEF ExistsBijection
<1>4. IsFiniteSet(1 .. Len(s)) /\ Cardinality(1 .. Len(s)) = Len(s) BY <1>1, FS_Interval
<1> QED BY <1>3, <1>4, FS_Bijection
=============================================================================
