---------------------------- MODULE JobListProofs -----------------------------
(***************************************************************************)
(* Lists of jobs: which operations keep a list free of duplicates, and what *)
(* is in it afterwards.                                                    *)
(***************************************************************************)
EXTENDS JobLists, TLAPS

-----------------------------------------------------------------------------
(* Lists without duplicates *)

\* A list that holds each of its members once.
NoDup(s) == s \in Seq(Job) /\ IsInjective(s)

\* A list of jobs has jobs for members.
LEMMA RangeOfJobs ==
  ASSUME NEW s \in Seq(Job)
  PROVE  Range(s) \subseteq Job
BY DEF Range

\* The empty list.
LEMMA NoDupEmpty == NoDup(<<>>) /\ Range(<<>>) = {}
  BY DEF NoDup, IsInjective, Range

\* Joining two lists that share no member gives a list without duplicates that
\* has the members of both.
LEMMA NoDupConcat ==
  ASSUME NEW s, NEW t, NoDup(s), NoDup(t), Range(s) \cap Range(t) = {}
  PROVE  NoDup(s \o t) /\ Range(s \o t) = Range(s) \cup Range(t)
<1> USE DEF NoDup, IsInjective, Range
<1>1. s \o t \in Seq(Job) /\ Len(s \o t) = Len(s) + Len(t)
  OBVIOUS
<1>2. \A i \in 1..Len(s) : (s \o t)[i] = s[i]
  OBVIOUS
<1>3. \A i \in 1..Len(t) : (s \o t)[Len(s) + i] = t[i]
  OBVIOUS
<1>4. \A i \in (Len(s) + 1)..(Len(s) + Len(t)) :
        i - Len(s) \in 1..Len(t) /\ (s \o t)[i] = t[i - Len(s)]
  OBVIOUS
<1>5. IsInjective(s \o t)
  <2> SUFFICES ASSUME NEW a \in 1..(Len(s) + Len(t)), NEW b \in 1..(Len(s) + Len(t)),
                      (s \o t)[a] = (s \o t)[b]
               PROVE  a = b
    BY <1>1
  <2>1. CASE a \in 1..Len(s) /\ b \in 1..Len(s)
    BY <2>1, <1>2
  <2>2. CASE a \in 1..Len(s) /\ b \notin 1..Len(s)
    <3>1. b \in (Len(s) + 1)..(Len(s) + Len(t))
      BY <2>2
    <3>2. s[a] = t[b - Len(s)] /\ b - Len(s) \in 1..Len(t)
      BY <3>1, <2>2, <1>2, <1>4
    <3>3. s[a] \in Range(s) /\ t[b - Len(s)] \in Range(t)
      BY <3>2, <2>2
    <3> QED BY <3>2, <3>3, SMTT(30)
  <2>3. CASE a \notin 1..Len(s) /\ b \in 1..Len(s)
    <3>1. a \in (Len(s) + 1)..(Len(s) + Len(t))
      BY <2>3
    <3>2. s[b] = t[a - Len(s)] /\ a - Len(s) \in 1..Len(t)
      BY <3>1, <2>3, <1>2, <1>4
    <3>3. s[b] \in Range(s) /\ t[a - Len(s)] \in Range(t)
      BY <3>2, <2>3
    <3> QED BY <3>2, <3>3, SMTT(30)
  <2>4. CASE a \notin 1..Len(s) /\ b \notin 1..Len(s)
    <3>1. a \in (Len(s) + 1)..(Len(s) + Len(t)) /\ b \in (Len(s) + 1)..(Len(s) + Len(t))
      BY <2>4
    <3>2. t[a - Len(s)] = t[b - Len(s)] /\ a - Len(s) \in 1..Len(t) /\ b - Len(s) \in 1..Len(t)
      BY <3>1, <1>4
    <3> QED BY <3>2
  <2> QED BY <2>1, <2>2, <2>3, <2>4
<1>6. Range(s \o t) \subseteq Range(s) \cup Range(t)
  <2> SUFFICES ASSUME NEW a \in 1..(Len(s) + Len(t))
               PROVE  (s \o t)[a] \in Range(s) \cup Range(t)
    BY <1>1
  <2>1. CASE a \in 1..Len(s)
    BY <2>1, <1>2
  <2>2. CASE a \notin 1..Len(s)
    <3>1. a \in (Len(s) + 1)..(Len(s) + Len(t))
      BY <2>2
    <3> QED BY <3>1, <1>4
  <2> QED BY <2>1, <2>2
<1>7. Range(s) \cup Range(t) \subseteq Range(s \o t)
  <2>1. ASSUME NEW i \in 1..Len(s) PROVE s[i] \in Range(s \o t)
    BY <1>1, <1>2
  <2>2. ASSUME NEW i \in 1..Len(t) PROVE t[i] \in Range(s \o t)
    <3>1. Len(s) \in Nat /\ Len(t) \in Nat
      OBVIOUS
    <3>2. Len(s) + i \in 1..(Len(s) + Len(t))
      BY <3>1
    <3>3. Len(s) + i \in DOMAIN (s \o t)
      BY <1>1, <3>2
    <3> QED BY <1>3, <3>3
  <2>3. \A x \in Range(s) : \E i \in 1..Len(s) : x = s[i]
    OBVIOUS
  <2>4. \A x \in Range(t) : \E i \in 1..Len(t) : x = t[i]
    OBVIOUS
  <2> HIDE DEF NoDup, IsInjective, Range
  <2> QED BY <2>1, <2>2, <2>3, <2>4
<1> QED BY <1>1, <1>5, <1>6, <1>7, Zenon

\* A list of one job.
LEMMA NoDupSingle ==
  ASSUME NEW j \in Job
  PROVE  NoDup(<<j>>) /\ Range(<<j>>) = {j}
<1>1. <<j>> \in Seq(Job) /\ Len(<<j>>) = 1 /\ <<j>>[1] = j /\ DOMAIN <<j>> = 1..1
  OBVIOUS
<1> QED BY <1>1 DEF NoDup, IsInjective, Range

\* RPOP takes the last member out of the list.
LEMMA NoDupPop ==
  ASSUME NEW s, NoDup(s), s # <<>>
  PROVE  LET front == SubSeq(s, 1, Len(s) - 1)
             last == s[Len(s)]
         IN  /\ last \in Range(s)
             /\ last \in Job
             /\ NoDup(front)
             /\ Range(front) = Range(s) \ {last}
<1> DEFINE front == SubSeq(s, 1, Len(s) - 1)
           last == s[Len(s)]
<1>1. s \in Seq(Job) /\ Len(s) \in Nat /\ Len(s) > 0 /\ DOMAIN s = 1..Len(s)
  BY DEF NoDup
<1>2. \A a, b \in 1..Len(s) : s[a] = s[b] => a = b
  BY <1>1 DEF NoDup, IsInjective
<1>3. front \in Seq(Job) /\ Len(front) = Len(s) - 1 /\ DOMAIN front = 1..(Len(s) - 1)
  BY <1>1
<1>4. \A i \in 1..(Len(s) - 1) : front[i] = s[i]
  BY <1>1
<1>5. \A n \in Nat : \A i \in 1..n : i = n \/ i \in 1..(n - 1)
  OBVIOUS
<1>6. \A n \in Nat : \A i \in 1..(n - 1) : i \in 1..n /\ i # n
  OBVIOUS
<1>7. Len(s) \in 1..Len(s)
  BY <1>1
<1>8. last \in Job
  BY <1>1, <1>7
<1> HIDE DEF front
<1>9. last \in Range(s)
  BY <1>1, <1>7 DEF Range
<1>10. IsInjective(front)
  BY <1>2, <1>3, <1>4, <1>6 DEF IsInjective
<1>11. Range(front) \subseteq Range(s) \ {last}
  BY <1>1, <1>2, <1>3, <1>4, <1>6, <1>7 DEF Range
<1>12. Range(s) \ {last} \subseteq Range(front)
  <2> SUFFICES ASSUME NEW i \in 1..Len(s), s[i] # last
               PROVE  s[i] \in Range(front)
    BY <1>1 DEF Range
  <2>1. i \in 1..(Len(s) - 1)
    BY <1>1, <1>5
  <2> QED BY <2>1, <1>3, <1>4 DEF Range
<1>13. NoDup(front)
  BY <1>3, <1>10 DEF NoDup
<1> HIDE DEF last
<1> QED BY <1>8, <1>9, <1>11, <1>12, <1>13 DEF front, last

\* The jobs of a finite set, in any order, form a list without duplicates.
LEMMA OrdersNoDup ==
  ASSUME NEW S \in SUBSET Job, Cardinality(S) \in Nat, NEW order \in Orders(S)
  PROVE  NoDup(order) /\ Range(order) = S
<1> DEFINE n == Cardinality(S)
<1>1. /\ order \in [1..n -> S]
      /\ \A a, b \in 1..n : order[a] = order[b] => a = b
      /\ \A x \in S : \E a \in 1..n : order[a] = x
  BY DEF Orders, Bijection, Injection, Surjection, IsInjective
<1> HIDE DEF n
<1>2. order \in Seq(Job)
  BY <1>1 DEF n
<1>3. IsInjective(order)
  BY <1>1 DEF IsInjective
<1>4. Range(order) = S
  BY <1>1 DEF Range
<1> QED BY <1>2, <1>3, <1>4 DEF NoDup

\* A push at the head or at the tail adds the job to the list.
LEMMA NoDupAdd ==
  ASSUME NEW s, NEW j \in Job, NoDup(s), j \notin Range(s)
  PROVE  /\ NoDup(<<j>> \o s) /\ Range(<<j>> \o s) = Range(s) \cup {j}
         /\ NoDup(Append(s, j)) /\ Range(Append(s, j)) = Range(s) \cup {j}
<1>1. NoDup(<<j>>) /\ Range(<<j>>) = {j}
  BY NoDupSingle
<1>2. NoDup(<<j>> \o s) /\ Range(<<j>> \o s) = {j} \cup Range(s)
  BY <1>1, NoDupConcat
<1>3. NoDup(s \o <<j>>) /\ Range(s \o <<j>>) = Range(s) \cup {j}
  BY <1>1, NoDupConcat
<1>4. Append(s, j) = s \o <<j>>
  BY DEF NoDup
<1> QED BY <1>2, <1>3, <1>4

\* The places of a part of a list.
LEMMA PartPlaces ==
  ASSUME NEW s \in Seq(Job), NEW a \in 1..(Len(s) + 1), NEW b \in 0..Len(s), a <= b + 1
  PROVE  /\ SubSeq(s, a, b) \in Seq(Job)
         /\ Len(SubSeq(s, a, b)) = b - a + 1
         /\ \A i \in 1..(b - a + 1) : SubSeq(s, a, b)[i] = s[a + i - 1]
OBVIOUS

\* A part of a list has no duplicates, and its members are those in its places.
LEMMA NoDupPart ==
  ASSUME NEW s, NoDup(s), NEW a \in 1..(Len(s) + 1), NEW b \in 0..Len(s), a <= b + 1
  PROVE  /\ NoDup(SubSeq(s, a, b))
         /\ Range(SubSeq(s, a, b)) = { s[i] : i \in a..b }
         /\ Len(SubSeq(s, a, b)) = b - a + 1
<1> DEFINE t == SubSeq(s, a, b)
<1>1. s \in Seq(Job) /\ Len(s) \in Nat /\ DOMAIN s = 1..Len(s)
  BY DEF NoDup
<1>2. /\ t \in Seq(Job) /\ Len(t) = b - a + 1 /\ DOMAIN t = 1..(b - a + 1)
      /\ \A i \in 1..(b - a + 1) : t[i] = s[a + i - 1]
  BY <1>1, PartPlaces
<1>3. \A i, k \in 1..Len(s) : s[i] = s[k] => i = k
  BY <1>1 DEF NoDup, IsInjective
<1> HIDE DEF t
<1>4. \A i \in 1..(b - a + 1) : a + i - 1 \in 1..Len(s) /\ a + i - 1 \in a..b
  BY <1>1
<1>5. IsInjective(t)
  <2> SUFFICES ASSUME NEW i \in 1..(b - a + 1), NEW k \in 1..(b - a + 1), t[i] = t[k]
               PROVE  i = k
    BY <1>2 DEF IsInjective
  <2>1. s[a + i - 1] = s[a + k - 1]
    BY <1>2
  <2>2. a + i - 1 = a + k - 1
    BY <2>1, <1>3, <1>4
  <2> QED BY <2>2
<1>6. Range(t) \subseteq { s[i] : i \in a..b }
  BY <1>2, <1>4 DEF Range
<1>7. ASSUME NEW i \in a..b PROVE s[i] \in Range(t)
  <2>1. i - a + 1 \in 1..(b - a + 1) /\ a + (i - a + 1) - 1 = i
    BY <1>1
  <2>2. t[i - a + 1] = s[i]
    BY <2>1, <1>2
  <2> QED BY <2>1, <2>2, <1>2, SMTT(30) DEF Range
<1>8. NoDup(t)
  BY <1>2, <1>5 DEF NoDup
<1> QED BY <1>2, <1>6, <1>7, <1>8, SMTT(30) DEF t

\* A list that is cut in two: no job gets lost or is in both parts.
LEMMA NoDupSplit ==
  ASSUME NEW s, NoDup(s), NEW n \in 0..Len(s)
  PROVE  LET t == SubSeq(s, 1, n)
             u == SubSeq(s, n + 1, Len(s))
         IN  /\ NoDup(t) /\ NoDup(u)
             /\ Len(u) = Len(s) - n
             /\ Range(t) \cap Range(u) = {}
             /\ Range(t) \cup Range(u) = Range(s)
<1>1. s \in Seq(Job) /\ Len(s) \in Nat /\ DOMAIN s = 1..Len(s)
  BY DEF NoDup
<1>2. \A i, k \in 1..Len(s) : s[i] = s[k] => i = k
  BY <1>1 DEF NoDup, IsInjective
<1>3. n \in Nat /\ n <= Len(s)
  BY <1>1
<1>4. NoDup(SubSeq(s, 1, n)) /\ Range(SubSeq(s, 1, n)) = { s[i] : i \in 1..n }
  BY <1>1, <1>3, NoDupPart
<1>5. /\ NoDup(SubSeq(s, n + 1, Len(s)))
      /\ Range(SubSeq(s, n + 1, Len(s))) = { s[i] : i \in (n + 1)..Len(s) }
      /\ Len(SubSeq(s, n + 1, Len(s))) = Len(s) - n
  <2>1. n + 1 \in 1..(Len(s) + 1) /\ Len(s) \in 0..Len(s) /\ n + 1 <= Len(s) + 1
    BY <1>1, <1>3
  <2>2. Len(s) - (n + 1) + 1 = Len(s) - n
    BY <1>1, <1>3
  <2> QED BY <2>1, <2>2, NoDupPart, Zenon
<1>6. \A i \in 1..n : \A k \in (n + 1)..Len(s) : i \in 1..Len(s) /\ k \in 1..Len(s) /\ i # k
  BY <1>1, <1>3
<1>7. { s[i] : i \in 1..n } \cap { s[i] : i \in (n + 1)..Len(s) } = {}
  BY <1>2, <1>6
<1>8. \A i \in 1..Len(s) : i \in 1..n \/ i \in (n + 1)..Len(s)
  BY <1>1, <1>3
<1>9. \A i \in 1..n : i \in 1..Len(s)
  BY <1>1, <1>3
<1>10. \A i \in (n + 1)..Len(s) : i \in 1..Len(s)
  BY <1>1, <1>3
<1>11. { s[i] : i \in 1..n } \cup { s[i] : i \in (n + 1)..Len(s) } = Range(s)
  BY <1>1, <1>8, <1>9, <1>10 DEF Range
<1> QED BY <1>4, <1>5, <1>7, <1>11

\* LREM and ZREM take the one job out of the list.
LEMMA NoDupWithout ==
  ASSUME NEW s, NoDup(s), NEW j
  PROVE  /\ NoDup(Without(s, j))
         /\ Range(Without(s, j)) = Range(s) \ {j}
         /\ Len(Without(s, j)) <= Len(s)
<1>1. s \in Seq(Job) /\ Len(s) \in Nat /\ DOMAIN s = 1..Len(s)
  BY DEF NoDup
<1>2. CASE j \notin Range(s)
  BY <1>1, <1>2 DEF Without
<1>3. CASE j \in Range(s)
  <2> DEFINE i == CHOOSE i \in DOMAIN s : s[i] = j
             t == SubSeq(s, 1, i - 1)
             u == SubSeq(s, i + 1, Len(s))
  <2>1. i \in 1..Len(s) /\ s[i] = j
    BY <1>1, <1>3 DEF Range
  <2>2. Without(s, j) = t \o u
    BY <1>3, Zenon DEF Without
  <2> HIDE DEF i
  <2>3. i \in Nat /\ i >= 1 /\ i <= Len(s) /\ i - 1 \in 0..Len(s) /\ i + 1 \in 1..(Len(s) + 1)
    BY <2>1, <1>1
  <2>4. NoDup(t) /\ Range(t) = { s[k] : k \in 1..(i - 1) } /\ Len(t) = i - 1
    <3>1. 1 \in 1..(Len(s) + 1) /\ 1 <= (i - 1) + 1 /\ (i - 1) - 1 + 1 = i - 1
      BY <1>1, <2>3
    <3> QED BY <2>3, <3>1, NoDupPart, Zenon
  <2>5. NoDup(u) /\ Range(u) = { s[k] : k \in (i + 1)..Len(s) } /\ Len(u) = Len(s) - i
    <3>1. Len(s) \in 0..Len(s) /\ i + 1 <= Len(s) + 1 /\ Len(s) - (i + 1) + 1 = Len(s) - i
      BY <1>1, <2>3
    <3> QED BY <2>3, <3>1, NoDupPart, Zenon
  <2>6. \A a, b \in 1..Len(s) : s[a] = s[b] => a = b
    BY <1>1 DEF NoDup, IsInjective
  <2> HIDE DEF t, u
  <2>7. \A k \in 1..Len(s) : k = i \/ k \in 1..(i - 1) \/ k \in (i + 1)..Len(s)
    BY <1>1, <2>3
  <2>8. \A k \in 1..(i - 1) : k \in 1..Len(s) /\ k # i
    BY <1>1, <2>3
  <2>9. \A k \in (i + 1)..Len(s) : k \in 1..Len(s) /\ k # i
    BY <1>1, <2>3
  <2>10. \A a \in 1..(i - 1) : \A b \in (i + 1)..Len(s) : a # b
    BY <1>1, <2>3
  <2>11. Range(t) \cap Range(u) = {}
    BY <2>4, <2>5, <2>6, <2>8, <2>9, <2>10
  <2>12. Range(t) \cup Range(u) = Range(s) \ {j}
    <3>1. \A x \in Range(s) \ {j} : \E k \in 1..Len(s) : x = s[k] /\ k # i
      BY <1>1, <2>1 DEF Range
    <3>2. Range(s) \ {j} \subseteq Range(t) \cup Range(u)
      BY <2>4, <2>5, <2>7, <3>1
    <3>3. \A k \in 1..Len(s) : s[k] \in Range(s)
      BY <1>1 DEF Range
    <3>4. Range(t) \subseteq Range(s) \ {j}
      BY <2>1, <2>4, <2>6, <2>8, <3>3
    <3>5. Range(u) \subseteq Range(s) \ {j}
      BY <2>1, <2>5, <2>6, <2>9, <3>3
    <3> QED BY <3>2, <3>4, <3>5
  <2>13. NoDup(t \o u) /\ Range(t \o u) = Range(t) \cup Range(u)
    BY <2>4, <2>5, <2>11, NoDupConcat, Zenon
  <2>14. Len(t \o u) = Len(t) + Len(u)
    BY <2>4, <2>5 DEF NoDup
  <2>15. Len(t \o u) <= Len(s)
    BY <2>3, <2>4, <2>5, <2>14, <1>1
  <2> QED BY <2>2, <2>12, <2>13, <2>15
<1> QED BY <1>2, <1>3

=============================================================================
