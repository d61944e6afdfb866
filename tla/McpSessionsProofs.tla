--------------------------- MODULE McpSessionsProofs ---------------------------
(***************************************************************************)
(* Theorems about the pool of MCP sessions, for any requests, servers,     *)
(* lists of servers (repetitions included), headers and size of the pool.  *)
(***************************************************************************)
EXTENDS McpSessions, FiniteSetTheorems, SequenceTheorems, TLAPS

-----------------------------------------------------------------------------
(* Sequences without repetition: the deque of a server, the sessions of a  *)
(* request.                                                                *)
LEMMA AppendNew ==
  ASSUME NEW S, NEW q \in Seq(S), NEW x \in S, IsInjective(q), x \notin Range(q)
  PROVE  IsInjective(Append(q, x))
  BY DEF IsInjective, Range

LEMMA AppendRange ==
  ASSUME NEW S, NEW q \in Seq(S), NEW x \in S
  PROVE  /\ Append(q, x) \in Seq(S) /\ Append(q, x) # << >>
         /\ Len(Append(q, x)) = Len(q) + 1
         /\ Range(Append(q, x)) = Range(q) \cup {x}
         /\ q # << >> => Head(Append(q, x)) = Head(q)
<1>1. /\ Append(q, x) \in Seq(S) /\ Len(Append(q, x)) = Len(q) + 1
      /\ Append(q, x)[Len(q) + 1] = x
      /\ \A i \in 1..Len(q) : Append(q, x)[i] = q[i]
  OBVIOUS
<1>2. Range(Append(q, x)) = Range(q) \cup {x}
  <2>1. DOMAIN Append(q, x) = 1..(Len(q) + 1) /\ DOMAIN q = 1..Len(q) /\ Len(q) \in Nat
    BY <1>1
  <2>2. \A i \in 1..(Len(q) + 1) : i \in 1..Len(q) \/ i = Len(q) + 1
    BY <2>1
  <2> QED BY <1>1, <2>1, <2>2 DEF Range
<1> QED BY <1>1, <1>2, AppendProperties, HeadTailAppend

LEMMA TailOf ==
  ASSUME NEW S, NEW q \in Seq(S), q # << >>, IsInjective(q)
  PROVE  /\ Tail(q) \in Seq(S) /\ Len(Tail(q)) = Len(q) - 1
         /\ IsInjective(Tail(q)) /\ Range(Tail(q)) = Range(q) \ {Head(q)}
         /\ Head(q) \in Range(q)
<1>1. /\ Tail(q) \in Seq(S) /\ Len(Tail(q)) = Len(q) - 1 /\ Len(q) \in Nat \ {0}
      /\ DOMAIN q = 1..Len(q) /\ DOMAIN Tail(q) = 1..(Len(q) - 1)
      /\ \A i \in 1..(Len(q) - 1) : Tail(q)[i] = q[i + 1]
      /\ Head(q) = q[1]
  OBVIOUS
<1>2. \A i \in 1..Len(q) : q[i] # q[1] => i - 1 \in 1..(Len(q) - 1) /\ Tail(q)[i - 1] = q[i]
  BY <1>1
<1>3. \A i \in 1..(Len(q) - 1) : i + 1 \in 1..Len(q) /\ Tail(q)[i] # q[1]
  BY <1>1 DEF IsInjective
<1>4. IsInjective(Tail(q))
  BY <1>1, <1>3 DEF IsInjective
<1>5. Range(Tail(q)) = Range(q) \ {Head(q)}
  <2>1. /\ Range(q) = {q[i] : i \in 1..Len(q)}
        /\ Range(Tail(q)) = {Tail(q)[i] : i \in 1..(Len(q) - 1)}
    BY <1>1 DEF Range
  <2>2. ASSUME NEW x \in Range(q), x # q[1] PROVE x \in Range(Tail(q))
    <3>1. PICK i \in 1..Len(q) : q[i] = x
      BY <2>1
    <3> QED BY <1>2, <2>1, <2>2, <3>1
  <2>3. ASSUME NEW x \in Range(Tail(q)) PROVE x \in Range(q) /\ x # q[1]
    <3>1. PICK i \in 1..(Len(q) - 1) : Tail(q)[i] = x
      BY <2>1
    <3>2. x = q[i + 1] /\ i + 1 \in 1..Len(q) /\ x # q[1]
      BY <1>1, <1>3, <3>1
    <3> QED BY <2>1, <3>2
  <2> QED BY <1>1, <2>2, <2>3
<1>6. Head(q) \in Range(q)
  BY <1>1 DEF Range
<1> QED BY <1>1, <1>4, <1>5, <1>6

LEMMA RangeIn ==
  ASSUME NEW S, NEW q \in Seq(S)
  PROVE  Range(q) \subseteq S /\ (Range(q) = {} <=> q = << >>)
  BY DEF Range

LEMMA AtMost ==
  ASSUME NEW m \in Nat, NEW n \in Nat, m <= n, n <= MaxSize
  PROVE  m <= MaxSize
  BY McpAssumption

(* The second of two parts.                                                *)
LEMMA SecondPart ==
  ASSUME NEW S, NEW a \in Seq(S), NEW b \in Seq(S), IsInjective(a \o b)
  PROVE  /\ IsInjective(b) /\ Len(b) <= Len(a \o b)
         /\ Range(a \o b) = Range(a) \cup Range(b)
<1> DEFINE m == Len(a)
           n == Len(b)
           q == a \o b
<1>1. /\ Len(q) = m + n /\ m \in Nat /\ n \in Nat /\ q \in Seq(S)
      /\ \A i \in 1..(m + n) : q[i] = IF i <= m THEN a[i] ELSE b[i - m]
  BY ConcatProperties
<1>2. IsInjective(q) /\ DOMAIN a = 1..m /\ DOMAIN b = 1..n
  OBVIOUS
<1> HIDE DEF m, n, q
<1>3. DOMAIN q = 1..(m + n)
  BY <1>1
<1>4. ASSUME NEW i \in 1..n
      PROVE  i + m \in 1..(m + n) /\ q[i + m] = b[i]
  <2>1. i + m \in 1..(m + n) /\ ~(i + m <= m) /\ i + m - m = i
    BY <1>1
  <2> QED BY <1>1, <2>1
<1>5. ASSUME NEW i \in 1..m
      PROVE  i \in 1..(m + n) /\ q[i] = a[i]
  BY <1>1
<1>6. ASSUME NEW i \in 1..(m + n)
      PROVE  (i \in 1..m /\ q[i] = a[i]) \/ (i - m \in 1..n /\ q[i] = b[i - m])
  BY <1>1
<1>7. IsInjective(b)
  <2>1. ASSUME NEW i \in 1..n, NEW j \in 1..n, b[i] = b[j] PROVE i = j
    <3>1. i + m = j + m
      BY <1>2, <1>3, <1>4, <2>1 DEF IsInjective
    <3> QED BY <1>1, <3>1
  <2> QED BY <1>2, <2>1 DEF IsInjective
<1>8. \A x : x \in Range(q) <=> \E i \in 1..(m + n) : q[i] = x
  BY <1>3 DEF Range
<1>9. \A x : /\ x \in Range(a) <=> \E i \in 1..m : a[i] = x
             /\ x \in Range(b) <=> \E i \in 1..n : b[i] = x
  BY <1>2 DEF Range
<1>10. Range(q) = Range(a) \cup Range(b)
  <2>1. ASSUME NEW x \in Range(q) PROVE x \in Range(a) \cup Range(b)
    BY <1>6, <1>8, <1>9, <2>1
  <2>2. ASSUME NEW x \in Range(a) PROVE x \in Range(q)
    BY <1>5, <1>8, <1>9, <2>2
  <2>3. ASSUME NEW x \in Range(b) PROVE x \in Range(q)
    BY <1>4, <1>8, <1>9, <2>3
  <2> QED BY <2>1, <2>2, <2>3
<1>11. n <= Len(q)
  BY <1>1
<1> QED BY <1>7, <1>10, <1>11 DEF n, q

(* w is q without its c-th element.                                        *)
CutOf(q, c, w) ==
  /\ c \in 1..Len(q) /\ Len(w) = Len(q) - 1
  /\ \A i \in 1..(Len(q) - 1) : w[i] = IF i < c THEN q[i] ELSE q[i + 1]

LEMMA Cut ==
  ASSUME NEW S, NEW q \in Seq(S), NEW w \in Seq(S), NEW c, IsInjective(q), CutOf(q, c, w)
  PROVE  /\ IsInjective(w) /\ Range(w) = Range(q) \ {q[c]} /\ q[c] \in Range(q)
<1> SUFFICES ASSUME NEW n \in Nat, n = Len(q), c \in 1..n, Len(w) = n - 1,
                    \A i \in 1..(n - 1) : w[i] = IF i < c THEN q[i] ELSE q[i + 1]
             PROVE  /\ IsInjective(w) /\ Range(w) = Range(q) \ {q[c]} /\ q[c] \in Range(q)
  BY DEF CutOf
<1>1. DOMAIN w = 1..(n - 1) /\ DOMAIN q = 1..n
  OBVIOUS
<1>2. \A i, j \in 1..n : q[i] = q[j] => i = j
  BY <1>1 DEF IsInjective
<1>3. ASSUME NEW i \in 1..(n - 1), NEW j \in 1..(n - 1), w[i] = w[j] PROVE i = j
  <2>1. i \in 1..n /\ i + 1 \in 1..n /\ j \in 1..n /\ j + 1 \in 1..n
    OBVIOUS
  <2>2. PICK x \in {i, i + 1}, y \in {j, j + 1} :
          /\ q[x] = q[y] /\ (x = i <=> i < c) /\ (y = j <=> j < c)
    BY <1>3
  <2>3. x = y
    BY <1>2, <2>1, <2>2
  <2> QED BY <2>2, <2>3
<1>4. \A i \in 1..(n - 1) : \E j \in 1..n : j # c /\ w[i] = q[j]
  <2> TAKE i \in 1..(n - 1)
  <2>1. CASE i < c
    BY <2>1
  <2>2. CASE ~(i < c)
    <3>1. i + 1 \in 1..n /\ i + 1 # c /\ w[i] = q[i + 1]
      BY <2>2
    <3> QED BY <3>1
  <2> QED BY <2>1, <2>2
<1>5. \A i \in 1..n : i # c => \E j \in 1..(n - 1) : w[j] = q[i]
  <2> SUFFICES ASSUME NEW i \in 1..n, i # c PROVE \E j \in 1..(n - 1) : w[j] = q[i]
    OBVIOUS
  <2>1. CASE i < c
    <3>1. i \in 1..(n - 1) /\ w[i] = q[i]
      BY <2>1
    <3> QED BY <3>1
  <2>2. CASE i > c
    <3>1. i - 1 \in 1..(n - 1) /\ w[i - 1] = q[i]
      BY <2>2
    <3> QED BY <3>1
  <2> QED BY <2>1, <2>2
<1>6. IsInjective(w)
  BY <1>1, <1>3 DEF IsInjective
<1>7. \A x : x \in Range(w) <=> \E i \in 1..(n - 1) : w[i] = x
  BY <1>1 DEF Range
<1>8. \A x : x \in Range(q) <=> \E i \in 1..n : q[i] = x
  BY <1>1 DEF Range
<1>9. \A x \in Range(w) : x \in Range(q) /\ x # q[c]
  BY <1>2, <1>4, <1>7, <1>8
<1>10. \A x \in Range(q) : x = q[c] \/ x \in Range(w)
  BY <1>5, <1>7, <1>8
<1> QED BY <1>6, <1>8, <1>9, <1>10

LEMMA RemovedCut ==
  ASSUME NEW S, NEW q \in Seq(S), NEW k \in 1..Len(q), NEW w, w = RemoveAt(q, k)
  PROVE  CutOf(q, k, w)
<1> DEFINE n == Len(q)
           u == SubSeq(q, 1, k - 1)
           v == SubSeq(q, k + 1, n)
<1>1. n \in Nat /\ k \in 1..n /\ n = Len(q) /\ \A i \in 1..n : q[i] \in S
  OBVIOUS
<1>2. w = u \o v
  BY DEF RemoveAt
<1> HIDE DEF n
<1>3. u \in Seq(S) /\ Len(u) = k - 1 /\ \A i \in 1..(k - 1) : u[i] = q[i]
  <2>1. /\ u \in Seq(S) /\ Len(u) = IF 1 <= k - 1 THEN k - 1 - 1 + 1 ELSE 0
        /\ \A i \in 1..(k - 1 - 1 + 1) : u[i] = q[1 + i - 1]
    <3>1. (\A i \in 1..(k - 1) : q[i] \in S) /\ 1 \in Int /\ k - 1 \in Int
      BY <1>1
    <3> QED BY <3>1, SubSeqProperties
  <2> HIDE DEF u
  <2>2. (IF 1 <= k - 1 THEN k - 1 - 1 + 1 ELSE 0) = k - 1
    BY <1>1
  <2>3. \A i \in 1..(k - 1) : i \in 1..(k - 1 - 1 + 1) /\ 1 + i - 1 = i
    BY <1>1
  <2>4. ASSUME NEW i \in 1..(k - 1) PROVE u[i] = q[i]
    <3>1. u[i] = q[1 + i - 1] /\ 1 + i - 1 = i
      BY <2>1, <2>3
    <3> QED BY <3>1, Zenon
  <2> QED BY <2>1, <2>2, <2>4
<1>4. v \in Seq(S) /\ Len(v) = n - k /\ \A i \in 1..(n - k) : v[i] = q[i + k]
  <2>1. /\ v \in Seq(S) /\ Len(v) = IF k + 1 <= n THEN n - (k + 1) + 1 ELSE 0
        /\ \A i \in 1..(n - (k + 1) + 1) : v[i] = q[k + 1 + i - 1]
    <3>1. (\A i \in (k + 1)..n : q[i] \in S) /\ k + 1 \in Int /\ n \in Int
      BY <1>1
    <3> QED BY <3>1, SubSeqProperties
  <2> HIDE DEF v
  <2>2. \A i \in 1..(n - k) : i \in 1..(n - (k + 1) + 1) /\ k + 1 + i - 1 = i + k
    BY <1>1
  <2>3. (IF k + 1 <= n THEN n - (k + 1) + 1 ELSE 0) = n - k
    BY <1>1
  <2>4. ASSUME NEW i \in 1..(n - k) PROVE v[i] = q[i + k]
    <3>1. v[i] = q[k + 1 + i - 1] /\ k + 1 + i - 1 = i + k
      BY <2>1, <2>2
    <3> QED BY <3>1, Zenon
  <2> QED BY <2>1, <2>3, <2>4
<1> HIDE DEF u, v
<1>5. /\ Len(w) = Len(u) + Len(v)
      /\ \A i \in 1..(Len(u) + Len(v)) : w[i] = IF i <= Len(u) THEN u[i] ELSE v[i - Len(u)]
  BY <1>2, <1>3, <1>4, ConcatProperties
<1>6. Len(u) + Len(v) = n - 1
  BY <1>1, <1>3, <1>4
<1>7. ASSUME NEW i \in 1..(n - 1) PROVE w[i] = IF i < k THEN q[i] ELSE q[i + 1]
  <2>1. w[i] = IF i <= k - 1 THEN u[i] ELSE v[i - (k - 1)]
    BY <1>3, <1>5, <1>6
  <2>2. CASE i < k
    <3>1. i <= k - 1 /\ i \in 1..(k - 1)
      BY <1>1, <2>2
    <3> QED BY <1>3, <2>1, <2>2, <3>1
  <2>3. CASE ~(i < k)
    <3>1. ~(i <= k - 1) /\ i - (k - 1) \in 1..(n - k) /\ i - (k - 1) + k = i + 1
      BY <1>1, <2>3
    <3>2. v[i - (k - 1)] = q[i - (k - 1) + k]
      BY <1>4, <3>1
    <3>3. w[i] = q[i + 1]
      BY <2>1, <3>1, <3>2, Zenon
    <3> QED BY <2>3, <3>3
  <2> QED BY <2>2, <2>3
<1> QED BY <1>1, <1>5, <1>6, <1>7 DEF CutOf

(* A sequence without its last element.                                    *)
LEMMA FrontOf ==
  ASSUME NEW S, NEW q \in Seq(S), q # << >>, IsInjective(q)
  PROVE  /\ Front(q) \in Seq(S) /\ IsInjective(Front(q)) /\ Last(q) \in Range(q)
         /\ Range(Front(q)) = Range(q) \ {Last(q)}
<1> DEFINE n == Len(q)
           w == Front(q)
<1>1. n \in Nat /\ n \in 1..n /\ \A i \in 1..(n - 1) : q[i] \in S
  OBVIOUS
<1>2. w = SubSeq(q, 1, n - 1) /\ Last(q) = q[n]
  BY DEF Front, Last
<1>3. /\ w \in Seq(S) /\ Len(w) = IF 1 <= n - 1 THEN n - 1 - 1 + 1 ELSE 0
      /\ \A i \in 1..(n - 1 - 1 + 1) : w[i] = q[1 + i - 1]
  <2> HIDE DEF n, w
  <2> QED BY <1>1, <1>2, SubSeqProperties
<1>4. n = Len(q)
  OBVIOUS
<1> HIDE DEF n, w
<1>5. (IF 1 <= n - 1 THEN n - 1 - 1 + 1 ELSE 0) = n - 1
  BY <1>1
<1>6. \A i \in 1..(n - 1) : i \in 1..(n - 1 - 1 + 1) /\ 1 + i - 1 = i /\ i < n
  BY <1>1
<1>7. Len(w) = n - 1
  BY <1>3, <1>5
<1>8. \A i \in 1..(n - 1) : w[i] = q[i]
  <2> TAKE i \in 1..(n - 1)
  <2>1. w[i] = q[1 + i - 1] /\ 1 + i - 1 = i
    BY <1>3, <1>6
  <2> QED BY <2>1, Zenon
<1>9. IsInjective(w) /\ Range(w) = Range(q) \ {q[n]} /\ q[n] \in Range(q)
  <2>1. CutOf(q, n, w)
    BY <1>1, <1>4, <1>6, <1>7, <1>8 DEF CutOf
  <2> QED BY <1>3, <2>1, Cut
<1> QED BY <1>2, <1>3, <1>9 DEF w

(* q is a and b, m and n long; u and v are what is before and behind the   *)
(* k-th element of b; w is a, u and v.                                     *)
Pieces(m, n, k, a, b, u, v, q, au, w) ==
  /\ m \in Nat /\ n \in Nat /\ k \in 1..n
  /\ \A i \in 1..(k - 1) : u[i] = b[i]
  /\ \A i \in 1..(n - k) : v[i] = b[i + k]
  /\ Len(q) = m + n
  /\ \A i \in 1..(m + n) : q[i] = IF i <= m THEN a[i] ELSE b[i - m]
  /\ \A i \in 1..(m + (k - 1)) : au[i] = IF i <= m THEN a[i] ELSE u[i - m]
  /\ Len(w) = m + n - 1
  /\ \A i \in 1..(m + n - 1) : w[i] = IF i <= m + (k - 1) THEN au[i] ELSE v[i - (m + (k - 1))]

LEMMA PiecesCut ==
  ASSUME NEW m, NEW n, NEW k, NEW a, NEW b, NEW u, NEW v, NEW q, NEW au, NEW w,
         Pieces(m, n, k, a, b, u, v, q, au, w)
  PROVE  CutOf(q, m + k, w) /\ q[m + k] = b[k]
<1> USE DEF Pieces
<1>a. m + k \in 1..(m + n) /\ ~(m + k <= m) /\ m + k - m = k
  OBVIOUS
<1>b. q[m + k] = b[k]
  BY <1>a
<1> SUFFICES ASSUME NEW i \in 1..(m + n - 1)
             PROVE  w[i] = IF i < m + k THEN q[i] ELSE q[i + 1]
  BY <1>a, <1>b DEF CutOf
<1>1. CASE i <= m
  <2>1. i <= m + (k - 1) /\ i < m + k /\ i \in 1..(m + n) /\ i \in 1..(m + (k - 1))
    BY <1>1
  <2> QED BY <1>1, <2>1
<1>2. CASE i > m /\ i < m + k
  <2>1. /\ i <= m + (k - 1) /\ i \in 1..(m + n) /\ i \in 1..(m + (k - 1)) /\ i - m \in 1..(k - 1)
        /\ ~(i <= m)
    BY <1>2
  <2> QED BY <1>2, <2>1
<1>3. CASE ~(i < m + k)
  <2>1. /\ ~(i <= m + (k - 1)) /\ i + 1 \in 1..(m + n) /\ ~(i + 1 <= m)
        /\ i - (m + (k - 1)) \in 1..(n - k) /\ i - (m + (k - 1)) + k = i + 1 - m
    BY <1>3
  <2>2. w[i] = v[i - (m + (k - 1))]
    BY <2>1
  <2>3. v[i - (m + (k - 1))] = b[i - (m + (k - 1)) + k]
    BY <2>1
  <2>4. q[i + 1] = b[i + 1 - m]
    BY <2>1
  <2>5. w[i] = q[i + 1]
    BY <2>1, <2>2, <2>3, <2>4, Zenon
  <2> QED BY <1>3, <2>5
<1>4. i <= m \/ (i > m /\ i < m + k) \/ ~(i < m + k)
  OBVIOUS
<1> QED BY <1>1, <1>2, <1>3, <1>4

(* What the evictor has in hand and what is left when it closed one.       *)
Evicted(a, b, k) == (a \o SubSeq(b, 1, k - 1)) \o SubSeq(b, k + 1, Len(b))

LEMMA EvictedOf ==
  ASSUME NEW S, NEW a \in Seq(S), NEW b \in Seq(S), IsInjective(a \o b), NEW k \in 1..Len(b)
  PROVE  /\ Evicted(a, b, k) \in Seq(S) /\ Len(Evicted(a, b, k)) <= Len(a \o b)
         /\ IsInjective(Evicted(a, b, k)) /\ b[k] \in Range(a \o b)
         /\ Range(Evicted(a, b, k)) = Range(a \o b) \ {b[k]}
<1> DEFINE m == Len(a)
           n == Len(b)
           u == SubSeq(b, 1, k - 1)
           v == SubSeq(b, k + 1, n)
           q == a \o b
           au == a \o u
           w == au \o v
<1>1. m \in Nat /\ n \in Nat /\ k \in 1..n /\ \A i \in 1..n : b[i] \in S
  OBVIOUS
<1>2. q \in Seq(S) /\ Len(q) = m + n /\ \A i \in 1..(m + n) : q[i] = IF i <= m THEN a[i] ELSE b[i - m]
  BY ConcatProperties
<1>3. IsInjective(q)
  OBVIOUS
<1> HIDE DEF n
<1>4. u \in Seq(S) /\ Len(u) = k - 1 /\ \A i \in 1..(k - 1) : u[i] = b[i]
  <2>1. /\ u \in Seq(S) /\ Len(u) = IF 1 <= k - 1 THEN k - 1 - 1 + 1 ELSE 0
        /\ \A i \in 1..(k - 1 - 1 + 1) : u[i] = b[1 + i - 1]
    <3>1. (\A i \in 1..(k - 1) : b[i] \in S) /\ 1 \in Int /\ k - 1 \in Int
      BY <1>1
    <3> QED BY <3>1, SubSeqProperties
  <2> HIDE DEF u
  <2>2. (IF 1 <= k - 1 THEN k - 1 - 1 + 1 ELSE 0) = k - 1
    BY <1>1
  <2>3. \A i \in 1..(k - 1) : i \in 1..(k - 1 - 1 + 1) /\ 1 + i - 1 = i
    BY <1>1
  <2>4. ASSUME NEW i \in 1..(k - 1) PROVE u[i] = b[i]
    <3>1. u[i] = b[1 + i - 1] /\ 1 + i - 1 = i
      BY <2>1, <2>3
    <3> QED BY <3>1, Zenon
  <2> QED BY <2>1, <2>2, <2>4
<1>5. v \in Seq(S) /\ Len(v) = n - k /\ \A i \in 1..(n - k) : v[i] = b[i + k]
  <2>1. /\ v \in Seq(S) /\ Len(v) = IF k + 1 <= n THEN n - (k + 1) + 1 ELSE 0
        /\ \A i \in 1..(n - (k + 1) + 1) : v[i] = b[k + 1 + i - 1]
    <3>1. (\A i \in (k + 1)..n : b[i] \in S) /\ k + 1 \in Int /\ n \in Int
      BY <1>1
    <3> QED BY <3>1, SubSeqProperties
  <2> HIDE DEF v
  <2>2. \A i \in 1..(n - k) : i \in 1..(n - (k + 1) + 1) /\ k + 1 + i - 1 = i + k
    BY <1>1
  <2>3. (IF k + 1 <= n THEN n - (k + 1) + 1 ELSE 0) = n - k
    BY <1>1
  <2>4. ASSUME NEW i \in 1..(n - k) PROVE v[i] = b[i + k]
    <3>1. v[i] = b[k + 1 + i - 1] /\ k + 1 + i - 1 = i + k
      BY <2>1, <2>2
    <3> QED BY <3>1, Zenon
  <2> QED BY <2>1, <2>3, <2>4
<1> HIDE DEF m, u, v, q
<1>6. /\ au \in Seq(S) /\ Len(au) = m + (k - 1)
      /\ \A i \in 1..(m + (k - 1)) : au[i] = IF i <= m THEN a[i] ELSE u[i - m]
  <2>1. /\ au \in Seq(S) /\ Len(au) = Len(a) + Len(u)
        /\ \A i \in 1..(Len(a) + Len(u)) : au[i] = IF i <= Len(a) THEN a[i] ELSE u[i - Len(a)]
    BY <1>4, ConcatProperties
  <2> HIDE DEF au
  <2> QED BY <1>4, <2>1 DEF m
<1> HIDE DEF au
<1>7. /\ w \in Seq(S) /\ Len(w) = m + n - 1
      /\ \A i \in 1..(m + n - 1) :
           w[i] = IF i <= m + (k - 1) THEN au[i] ELSE v[i - (m + (k - 1))]
  <2>1. /\ w \in Seq(S) /\ Len(w) = Len(au) + Len(v)
        /\ \A i \in 1..(Len(au) + Len(v)) : w[i] = IF i <= Len(au) THEN au[i] ELSE v[i - Len(au)]
    BY <1>5, <1>6, ConcatProperties
  <2> HIDE DEF w
  <2>2. Len(au) + Len(v) = m + n - 1
    BY <1>1, <1>5, <1>6
  <2> QED BY <1>6, <2>1, <2>2
<1> HIDE DEF w
<1>8. CutOf(q, m + k, w) /\ q[m + k] = b[k]
  <2>1. Pieces(m, n, k, a, b, u, v, q, au, w)
    BY <1>1, <1>2, <1>4, <1>5, <1>6, <1>7, Zenon DEF Pieces
  <2> QED BY <2>1, PiecesCut
<1>10. IsInjective(w) /\ Range(w) = Range(q) \ {q[m + k]} /\ q[m + k] \in Range(q)
  BY <1>2, <1>3, <1>7, <1>8, Cut
<1>11. Len(w) <= Len(q)
  BY <1>1, <1>2, <1>7
<1>12. w = Evicted(a, b, k)
  BY Zenon DEF Evicted, w, au, v, u, n
<1> QED BY <1>7, <1>8, <1>10, <1>11, <1>12, Zenon DEF q

(* A queue without one of its waiters.                                     *)
LEMMA WithoutType ==
  ASSUME NEW S, NEW q \in Seq(S), NEW p
  PROVE  Without(q, p) \in Seq(S)
<1>1. CASE p \notin Range(q)
  BY <1>1 DEF Without
<1>2. CASE p \in Range(q)
  <2> DEFINE k == CHOOSE i \in DOMAIN q : q[i] = p
             n == Len(q)
  <2>1. k \in 1..n /\ n \in Nat /\ \A i \in 1..n : q[i] \in S
    <3>1. \E i \in DOMAIN q : q[i] = p
      BY <1>2 DEF Range
    <3> QED BY <3>1
  <2>2. Without(q, p) = SubSeq(q, 1, k - 1) \o SubSeq(q, k + 1, n)
    BY <1>2 DEF Without, RemoveAt
  <2> HIDE DEF k, n
  <2>3. SubSeq(q, 1, k - 1) \in Seq(S)
    <3>1. (\A i \in 1..(k - 1) : q[i] \in S) /\ 1 \in Int /\ k - 1 \in Int
      BY <2>1
    <3> QED BY <3>1, SubSeqProperties
  <2>4. SubSeq(q, k + 1, n) \in Seq(S)
    <3>1. (\A i \in (k + 1)..n : q[i] \in S) /\ k + 1 \in Int /\ n \in Int
      BY <2>1
    <3> QED BY <3>1, SubSeqProperties
  <2> QED BY <2>2, <2>3, <2>4, ConcatProperties
<1> QED BY <1>1, <1>2

LEMMA HeadStays ==
  ASSUME NEW S, NEW q \in Seq(S), NEW p, q # << >>, Head(q) # p
  PROVE  Without(q, p) # << >> /\ Head(Without(q, p)) = Head(q)
<1>1. CASE p \notin Range(q)
  BY <1>1 DEF Without
<1>2. CASE p \in Range(q)
  <2> DEFINE k == CHOOSE i \in DOMAIN q : q[i] = p
             w == Without(q, p)
  <2>1. k \in 1..Len(q) /\ q[k] = p
    <3>1. \E i \in DOMAIN q : q[i] = p
      BY <1>2 DEF Range
    <3> QED BY <3>1
  <2>2. w = RemoveAt(q, k) /\ w \in Seq(S)
    BY <1>2, WithoutType DEF Without
  <2> HIDE DEF k, w
  <2>3. CutOf(q, k, w)
    BY <2>1, <2>2, RemovedCut
  <2>4. k # 1 /\ Len(q) \in Nat
    BY <2>1
  <2>5. 1 \in 1..(Len(q) - 1) /\ 1 < k
    BY <2>1, <2>4
  <2>6. w[1] = q[1] /\ Len(w) = Len(q) - 1
    BY <2>3, <2>5 DEF CutOf
  <2>7. w # << >> /\ Head(w) = w[1]
    BY <2>2, <2>5, <2>6
  <2> QED BY <2>6, <2>7 DEF w
<1> QED BY <1>1, <1>2

-----------------------------------------------------------------------------
(* Where a request stands in its list, and what it has to give back.       *)
Steps ==
  \A r \in Request :
    /\ at[r] # 0
    /\ pc[r] \in {"acquire", "closeOld", "discard", "connect"} => at[r] \in 1..Len(Wanted[r])
    /\ pc[r] = "release" => active[r] # << >>

(* What the evictor has in hand is of the server whose lock it holds.      *)
Hands ==
  /\ evict.pc \in {"turn", "close"} <=> evict.todo # << >>
  /\ evict.kept # << >> => evict.todo # << >> /\ Has(Evictor, Head(evict.todo))
  /\ evict.pc = "close" => Has(Evictor, Head(evict.todo))
  /\ down # "up" => evict.pc = "off"

(* A session that a request opens is nowhere yet; one is borrowed once.    *)
Opened == \A e \in alive : e.no < at[e.by]
BorrowedOnce == \A r \in Request : IsInjective(active[r])

Deques ==
  \A s \in Server :
    /\ Len(Idle(s)) <= MaxSize /\ IsInjective(Idle(s))
    /\ \A e \in Pooled(s) : e.to = s /\ e \in alive

Places == Opened /\ BorrowedOnce /\ Deques /\ SessionsOwned /\ NothingLeaks

McpInv == TypeOK /\ Steps /\ Hands /\ Places

-----------------------------------------------------------------------------
(* What a request does to the locks takes none from the evictor.           *)
Locks(r) ==
  \/ UNCHANGED lock
  \/ \E s \in Server : Queue(r, s)
  \/ \E s \in Server : Has(r, s) /\ Unlock(s)
  \/ lock' = [s \in Server |-> IF Has(r, s) THEN Tail(lock[s]) ELSE lock[s]]
  \/ lock' = [s \in Server |-> Without(lock[s], r)]

LEMMA Locked ==
  ASSUME TypeOK, NEW r \in Request, Locks(r)
  PROVE  /\ lock' \in [Server -> Seq(Request \cup {Evictor})]
         /\ \A s \in Server : Has(Evictor, s) => Has(Evictor, s)'
<1> DEFINE P == Request \cup {Evictor}
<1>1. lock \in [Server -> Seq(P)] /\ r \in P /\ r # Evictor
  BY McpAssumption DEF TypeOK
<1>2. \A s \in Server : lock[s] # << >> => Tail(lock[s]) \in Seq(P)
  BY <1>1
<1>3. ASSUME NEW s \in Server
      PROVE  \E q \in Seq(P) : /\ q = Append(lock[s], r) /\ q # << >>
                               /\ lock[s] # << >> => Head(q) = Head(lock[s])
  BY <1>1, AppendRange
<1> HIDE DEF P
<1>4. ASSUME NEW s \in Server
      PROVE  lock'[s] \in Seq(P) /\ (Has(Evictor, s) => Has(Evictor, s)')
  <2>1. \/ lock'[s] = lock[s]
        \/ lock'[s] = Append(lock[s], r)
        \/ Has(r, s) /\ lock'[s] = Tail(lock[s])
        \/ lock'[s] = Without(lock[s], r)
    BY <1>1 DEF Locks, Queue, Unlock
  <2>2. CASE lock'[s] = lock[s]
    BY <1>1, <2>2 DEF Has
  <2>3. CASE lock'[s] = Append(lock[s], r)
    <3>1. PICK q \in Seq(P) : /\ q = Append(lock[s], r) /\ q # << >>
                              /\ lock[s] # << >> => Head(q) = Head(lock[s])
      BY <1>3
    <3>2. q # << >> /\ (lock[s] # << >> => Head(q) = Head(lock[s]))
      BY <3>1
    <3>3. lock'[s] = q
      BY <2>3, <3>1
    <3> QED BY <3>2, <3>3 DEF Has
  <2>4. CASE Has(r, s) /\ lock'[s] = Tail(lock[s])
    <3>1. lock'[s] \in Seq(P) /\ ~Has(Evictor, s)
      BY <1>1, <1>2, <2>4 DEF Has
    <3> QED BY <3>1
  <2>5. CASE lock'[s] = Without(lock[s], r)
    <3>1. lock[s] \in Seq(P) /\ Without(lock[s], r) \in Seq(P)
      BY <1>1, WithoutType
    <3>2. ASSUME Has(Evictor, s)
          PROVE  Without(lock[s], r) # << >> /\ Head(Without(lock[s], r)) = Evictor
      BY <1>1, <3>1, <3>2, HeadStays DEF Has
    <3> QED BY <2>5, <3>1, <3>2 DEF Has
  <2> QED BY <2>1, <2>2, <2>3, <2>4, <2>5
<1>5. lock' = [s \in Server |-> lock'[s]]
  BY <1>1 DEF Locks, Queue, Unlock
<1> QED BY <1>4, <1>5 DEF P

LEMMA HandsKept ==
  ASSUME TypeOK, Hands, NEW r \in Request, Locks(r), UNCHANGED <<evict, down, drain>>
  PROVE  lock' \in [Server -> Seq(Request \cup {Evictor})] /\ Hands'
<1>1. /\ lock' \in [Server -> Seq(Request \cup {Evictor})]
      /\ \A s \in Server : Has(Evictor, s) => Has(Evictor, s)'
  BY Locked
<1>2. evict.todo # << >> => Head(evict.todo) \in Server
  BY DEF TypeOK
<1>3. \A s : s = Head(evict.todo) /\ s \in Server /\ Has(Evictor, s) => Has(Evictor, Head(evict.todo))'
  BY <1>1
<1>4. Has(Evictor, Head(evict.todo)) /\ evict.todo # << >> => Has(Evictor, Head(evict.todo))'
  BY <1>2, <1>3
<1> QED BY <1>1, <1>4 DEF Hands

(* The server a request turns to, the session it gives back.               *)
LEMMA Turns ==
  ASSUME TypeOK, Steps, NEW r \in Request
  PROVE  /\ Wanted[r] \in Seq(Server) /\ at[r] \in Nat \ {0}
         /\ at[r] <= Len(Wanted[r]) => at[r] \in 1..Len(Wanted[r])
         /\ at[r] \in 1..Len(Wanted[r]) => Now(r) \in Server
         /\ active[r] # << >> => Last(active[r]) \in Session /\ Front(active[r]) \in Seq(Session)
<1>1. Wanted[r] \in Seq(Server) /\ at[r] \in Nat \ {0} /\ active[r] \in Seq(Session)
  BY McpAssumption DEF TypeOK, Steps
<1>2. at[r] <= Len(Wanted[r]) => at[r] \in 1..Len(Wanted[r])
  BY <1>1
<1>3. at[r] \in 1..Len(Wanted[r]) => Now(r) \in Server
  BY <1>1 DEF Now
<1>4. active[r] # << >> => Last(active[r]) \in Session /\ Front(active[r]) \in Seq(Session)
  <2> SUFFICES ASSUME NEW q \in Seq(Session), q # << >>
               PROVE  Last(q) \in Session /\ Front(q) \in Seq(Session)
    BY <1>1
  <2>1. Len(q) \in 1..Len(q) /\ Len(q) \in Nat /\ \A i \in 1..Len(q) : q[i] \in Session
    OBVIOUS
  <2>2. Front(q) \in Seq(Session)
    <3>1. (\A i \in 1..(Len(q) - 1) : q[i] \in Session) /\ 1 \in Int /\ Len(q) - 1 \in Int
      BY <2>1
    <3> QED BY <3>1, SubSeqProperties DEF Front
  <2> QED BY <2>1, <2>2 DEF Last
<1> QED BY <1>1, <1>2, <1>3, <1>4

TypeInv == TypeOK /\ Steps /\ Hands

LEMMA RequestType ==
  ASSUME TypeInv, NEW r \in Request, Serve(r) \/ Cancel(r)
  PROVE  TypeInv'
<1> USE DEF TypeInv, Goto, reqVars, poolVars, downVars
<1>0. /\ Wanted[r] \in Seq(Server) /\ at[r] \in Nat \ {0}
      /\ at[r] <= Len(Wanted[r]) => at[r] \in 1..Len(Wanted[r])
      /\ at[r] \in 1..Len(Wanted[r]) => Now(r) \in Server
      /\ active[r] # << >> => Last(active[r]) \in Session /\ Front(active[r]) \in Seq(Session)
  BY Turns
<1>1. CASE NextServer(r)
  <2>1. Locks(r)
    <3>1. UNCHANGED lock \/ (at[r] <= Len(Wanted[r]) /\ Queue(r, Now(r)))
      BY <1>1, <1>0 DEF NextServer
    <3> QED BY <1>0, <3>1 DEF Locks
  <2>2. /\ UNCHANGED <<at, active, pool, old, evict, down, drain, lost, dropped, alive>>
        /\ \E l \in {"leave", "acquire", "connect"} :
             pc' = [pc EXCEPT ![r] = l] /\ (l # "leave" => at[r] \in 1..Len(Wanted[r]))
    BY <1>1, <1>0 DEF NextServer
  <2>3. lock' \in [Server -> Seq(Request \cup {Evictor})] /\ Hands'
    BY <1>1, <2>1, HandsKept DEF NextServer, Got
  <2>4. TypeOK' /\ Steps'
    BY <1>0, <2>2, <2>3 DEF TypeOK, Steps
  <2> QED BY <2>3, <2>4
<1>2. CASE Miss(r)
  <2>1. Locks(r)
    BY <1>2, <1>0 DEF Miss, Locks, Steps
  <2>3. lock' \in [Server -> Seq(Request \cup {Evictor})] /\ Hands'
    BY <1>2, <2>1, HandsKept DEF Miss, Got
  <2>4. TypeOK' /\ Steps'
    BY <1>2, <1>0, <2>3 DEF Miss, Got, TypeOK, Steps
  <2> QED BY <2>3, <2>4
<1>3. CASE CloseOld(r)
  <2>1. Locks(r)
    BY <1>3 DEF CloseOld, Locks
  <2>2. Now(r) \in Server /\ Tail(pool[Now(r)]) \in Seq(Session)
    BY <1>3, <1>0 DEF CloseOld, Steps, TypeOK
  <2>3. lock' \in [Server -> Seq(Request \cup {Evictor})] /\ Hands'
    BY <1>3, <2>1, HandsKept DEF CloseOld, Got
  <2>4. TypeOK' /\ Steps'
    BY <1>3, <1>0, <2>3, <2>2 DEF CloseOld, Got, TypeOK, Steps
  <2> QED BY <2>3, <2>4
<1>4. CASE OldClosed(r)
  <2>1. Locks(r)
    BY <1>4 DEF OldClosed, Locks
  <2>3. lock' \in [Server -> Seq(Request \cup {Evictor})] /\ Hands'
    BY <1>4, <2>1, HandsKept DEF OldClosed, Got
  <2>4. TypeOK' /\ Steps'
    BY <1>4, <1>0, <2>3 DEF OldClosed, Got, TypeOK, Steps
  <2> QED BY <2>3, <2>4
<1>5. CASE Take(r)
  <2>1. Locks(r)
    BY <1>5, <1>0 DEF Take, Locks, Steps
  <2>2. Now(r) \in Server /\ pool[Now(r)] # << >> /\ pool[Now(r)] \in Seq(Session)
    BY <1>5, <1>0 DEF Take, Steps, TypeOK
  <2>5. Head(pool[Now(r)]) \in Session /\ Tail(pool[Now(r)]) \in Seq(Session)
    BY <2>2
  <2>6. active[r] \o <<Head(pool[Now(r)])>> \in Seq(Session)
    BY <2>5 DEF TypeOK
  <2>7. \/ /\ UNCHANGED <<active, at>> /\ pc' = [pc EXCEPT ![r] = "discard"]
           /\ alive' = alive \ {Head(pool[Now(r)])}
        \/ /\ active' = [active EXCEPT ![r] = active[r] \o <<Head(pool[Now(r)])>>]
           /\ at' = [at EXCEPT ![r] = at[r] + 1] /\ pc' = [pc EXCEPT ![r] = "next"] /\ UNCHANGED alive
    BY <1>5 DEF Take, Got, TypeOK
  <2>8. /\ pool' = [pool EXCEPT ![Now(r)] = Tail(pool[Now(r)])] /\ pc[r] = "acquire"
        /\ UNCHANGED <<old, evict, down, drain, lost, dropped>>
    BY <1>5 DEF Take, TypeOK
  <2>3. lock' \in [Server -> Seq(Request \cup {Evictor})] /\ Hands'
    BY <1>5, <2>1, HandsKept DEF Take, Got
  <2>4. TypeOK' /\ Steps'
    <3>1. PICK p \in Seq(Session) : p = Tail(pool[Now(r)])
      BY <2>5
    <3>2. PICK q \in Seq(Session) : q = active[r] \o <<Head(pool[Now(r)])>>
      BY <2>6
    <3>3. /\ pool' = [pool EXCEPT ![Now(r)] = p] /\ pc[r] = "acquire"
          /\ UNCHANGED <<old, evict, down, drain, lost, dropped>>
      BY <2>8, <3>1
    <3>4. CASE /\ UNCHANGED <<active, at>> /\ pc' = [pc EXCEPT ![r] = "discard"]
               /\ alive' = alive \ {Head(pool[Now(r)])}
      BY <2>2, <2>3, <3>3, <3>4 DEF TypeOK, Steps
    <3>5. CASE /\ active' = [active EXCEPT ![r] = q] /\ at' = [at EXCEPT ![r] = at[r] + 1]
               /\ pc' = [pc EXCEPT ![r] = "next"] /\ UNCHANGED alive
      <4>1. at[r] + 1 \in Nat /\ at[r] + 1 # 0
        BY <1>0
      <4>2. TypeOK'
        BY <2>2, <2>3, <3>3, <3>5, <4>1 DEF TypeOK
      <4>3. Steps'
        BY <3>5, <4>1 DEF TypeOK, Steps
      <4> QED BY <4>2, <4>3
    <3> QED BY <2>7, <3>2, <3>4, <3>5
  <2> QED BY <2>3, <2>4
<1>6. CASE Discarded(r)
  <2>1. Locks(r)
    BY <1>6 DEF Discarded, Locks
  <2>3. lock' \in [Server -> Seq(Request \cup {Evictor})] /\ Hands'
    BY <1>6, <2>1, HandsKept DEF Discarded, Got
  <2>4. TypeOK' /\ Steps'
    BY <1>6, <1>0, <2>3 DEF Discarded, Got, TypeOK, Steps
  <2> QED BY <2>3, <2>4
<1>7. CASE ConnectEnds(r)
  <2>1. Locks(r)
    BY <1>7 DEF ConnectEnds, Locks
  <2>2. [by |-> r, no |-> at[r], to |-> Now(r)] \in Session
    BY <1>7, <1>0 DEF ConnectEnds, Steps, Session
  <2>5. active[r] \o <<[by |-> r, no |-> at[r], to |-> Now(r)]>> \in Seq(Session)
    BY <2>2 DEF TypeOK
  <2>6. active[r] \o << >> \in Seq(Session)
    BY DEF TypeOK
  <2>7. PICK q \in {active[r] \o << >>, active[r] \o <<[by |-> r, no |-> at[r], to |-> Now(r)]>>} :
          active' = [active EXCEPT ![r] = q]
    BY <1>7 DEF ConnectEnds, Got, TypeOK
  <2>8. /\ q \in Seq(Session) /\ at' = [at EXCEPT ![r] = at[r] + 1] /\ pc' = [pc EXCEPT ![r] = "next"]
        /\ alive' \subseteq Session /\ UNCHANGED <<pool, old, evict, down, drain, lost, dropped>>
    BY <1>7, <2>2, <2>5, <2>6 DEF ConnectEnds, Got, TypeOK
  <2>3. lock' \in [Server -> Seq(Request \cup {Evictor})] /\ Hands'
    BY <1>7, <2>1, HandsKept DEF ConnectEnds, Got
  <2>4. TypeOK' /\ Steps'
    BY <1>0, <2>3, <2>7, <2>8 DEF TypeOK, Steps
  <2> QED BY <2>3, <2>4
<1>8. CASE Leave(r)
  <2>1. Locks(r)
    <3>1. UNCHANGED lock \/ (active[r] # << >> /\ Queue(r, Last(active[r]).to))
      BY <1>8 DEF Leave
    <3>2. active[r] # << >> => Last(active[r]).to \in Server
      BY <1>0 DEF Session
    <3> QED BY <3>1, <3>2 DEF Locks
  <2>3. lock' \in [Server -> Seq(Request \cup {Evictor})] /\ Hands'
    BY <1>8, <2>1, HandsKept DEF Leave, Got
  <2>4. TypeOK' /\ Steps'
    BY <1>8, <1>0, <2>3 DEF Leave, Got, TypeOK, Steps
  <2> QED BY <2>3, <2>4
<1>9. CASE Release(r)
  <2>1. Locks(r)
    <3>1. /\ Last(active[r]).to \in Server
          /\ UNCHANGED lock \/ (Has(r, Last(active[r]).to) /\ Unlock(Last(active[r]).to))
      BY <1>9, <1>0 DEF Release, Steps, Session
    <3> QED BY <3>1 DEF Locks
  <2>2. /\ Last(active[r]) \in Session /\ Last(active[r]).to \in Server
        /\ Front(active[r]) \in Seq(Session)
    BY <1>9, <1>0 DEF Release, Steps, Session
  <2>5. Append(pool[Last(active[r]).to], Last(active[r])) \in Seq(Session)
    BY <2>2 DEF TypeOK
  <2>3. lock' \in [Server -> Seq(Request \cup {Evictor})] /\ Hands'
    BY <1>9, <2>1, HandsKept DEF Release, Got
  <2>4. TypeOK' /\ Steps'
    BY <1>9, <1>0, <2>3, <2>2, <2>5 DEF Release, Got, TypeOK, Steps
  <2> QED BY <2>3, <2>4
<1>10. CASE Closed(r)
  <2>1. Locks(r)
    BY <1>10 DEF Closed, Locks
  <2>3. lock' \in [Server -> Seq(Request \cup {Evictor})] /\ Hands'
    BY <1>10, <2>1, HandsKept DEF Closed, Got
  <2>4. TypeOK' /\ Steps'
    BY <1>10, <1>0, <2>3 DEF Closed, Got, TypeOK, Steps
  <2> QED BY <2>3, <2>4
<1>11. CASE Cancel(r)
  <2>1. Locks(r)
    BY <1>11 DEF Cancel, Locks
  <2>2. lock' \in [Server -> Seq(Request \cup {Evictor})] /\ Hands'
    BY <1>11, <2>1, HandsKept DEF Cancel
  <2>3. dropped' \subseteq Session
    <3>1. Range(active[r]) \subseteq Session
      BY RangeIn DEF TypeOK
    <3> QED BY <1>11, <3>1 DEF Cancel, TypeOK
  <2>4. TypeOK' /\ Steps'
    BY <1>11, <2>2, <2>3 DEF Cancel, TypeOK, Steps
  <2> QED BY <2>2, <2>4
<1> QED BY <1>1, <1>2, <1>3, <1>4, <1>5, <1>6, <1>7, <1>8, <1>9, <1>10, <1>11 DEF Serve

LEMMA KeysType ==
  ASSUME NEW q \in Keys
  PROVE  q \in Seq(Server) /\ (q # << >> => Head(q) \in Server)
<1>1. Cardinality(Server) \in Nat
  BY McpAssumption, FS_CardinalityType
<1>2. PICK n \in 0..Cardinality(Server) : q \in [1..n -> Server]
  BY DEF Keys
<1>3. n \in Nat
  BY <1>1
<1>4. q \in Seq(Server)
  BY <1>2, <1>3
<1> QED BY <1>4

LEMMA OtherType ==
  ASSUME TypeInv,
         \/ \E s \in Server : Expire(s)
         \/ EvictorWakes \/ Evict \/ BeginShutdown \/ Shutdown \/ UNCHANGED vars
  PROVE  TypeInv'
<1> USE DEF TypeInv, reqVars, poolVars, downVars
<1>1. ASSUME NEW s \in Server, Expire(s) PROVE TypeInv'
  <2>1. PICK i \in DOMAIN pool[s] : old' = old \cup {pool[s][i]}
    BY <1>1 DEF Expire
  <2>2. pool[s][i] \in Session
    BY DEF TypeOK
  <2>3. UNCHANGED <<reqVars, pool, lock, evict, downVars, alive>>
    BY <1>1 DEF Expire
  <2> QED BY <2>1, <2>2, <2>3 DEF TypeOK, Steps, Hands, Has
<1>2. CASE EvictorWakes
  <2>1. PICK q \in Keys :
          /\ q # << >> /\ evict' = [evict EXCEPT !.pc = "turn", !.todo = q, !.due = old]
          /\ Queue(Evictor, Head(q))
    BY <1>2 DEF EvictorWakes
  <2>2. q \in Seq(Server) /\ Head(q) \in Server
    BY <2>1, KeysType
  <2>3. /\ evict'.pc = "turn" /\ evict'.todo = q /\ evict'.due = old /\ evict'.kept = evict.kept
        /\ evict' \in [pc : {"sleep", "turn", "close", "off"}, todo : Seq(Server),
                       due : SUBSET Session, kept : Seq(Session)]
    BY <2>1, <2>2 DEF TypeOK
  <2>4. Append(lock[Head(q)], Evictor) \in Seq(Request \cup {Evictor})
    BY <2>2 DEF TypeOK
  <2>5. lock' \in [Server -> Seq(Request \cup {Evictor})]
    BY <2>1, <2>2, <2>4 DEF Queue, TypeOK
  <2>6. UNCHANGED <<reqVars, pool, old, downVars, alive>> /\ evict.pc = "sleep"
    BY <1>2 DEF EvictorWakes
  <2>7. TypeOK' /\ Steps'
    BY <2>3, <2>5, <2>6 DEF TypeOK, Steps
  <2>8. evict'.kept = << >> /\ down = "up"
    BY <2>3, <2>6 DEF Hands
  <2>9. Hands'
    BY <2>1, <2>3, <2>6, <2>8 DEF Hands
  <2> QED BY <2>7, <2>9
<1>3. CASE EvictorCloses
  <2> DEFINE s == Head(evict.todo)
  <2>1. evict.pc = "turn" /\ Has(Evictor, s) /\ UNCHANGED <<reqVars, lock, downVars>>
    BY <1>3 DEF EvictorCloses
  <2>2. evict.todo # << >> /\ evict.todo \in Seq(Server) /\ s \in Server /\ down = "up"
    BY <2>1 DEF TypeOK, Hands
  <2>3. PICK i \in DOMAIN pool[s] :
          /\ pool' = [pool EXCEPT ![s] = SubSeq(pool[s], i + 1, Len(pool[s]))]
          /\ old' = old \ {pool[s][i]} /\ alive' = alive \ {pool[s][i]}
          /\ evict' = [evict EXCEPT !.pc = "close", !.kept = evict.kept \o SubSeq(pool[s], 1, i - 1)]
    BY <1>3, <2>2 DEF EvictorCloses, TypeOK
  <2>4. pool[s] \in Seq(Session) /\ i \in 1..Len(pool[s]) /\ evict.kept \in Seq(Session)
    BY <2>2, <2>3 DEF TypeOK
  <2>5. /\ evict.kept \o SubSeq(pool[s], 1, i - 1) \in Seq(Session)
        /\ SubSeq(pool[s], i + 1, Len(pool[s])) \in Seq(Session)
    <3>1. \A j \in 1..Len(pool[s]) : pool[s][j] \in Session
      BY <2>4
    <3>2. SubSeq(pool[s], 1, i - 1) \in Seq(Session)
      <4>1. (\A j \in 1..(i - 1) : pool[s][j] \in Session) /\ 1 \in Int /\ i - 1 \in Int
        BY <2>4, <3>1
      <4> QED BY <4>1, SubSeqProperties
    <3>3. SubSeq(pool[s], i + 1, Len(pool[s])) \in Seq(Session)
      <4>1. /\ \A j \in (i + 1)..Len(pool[s]) : pool[s][j] \in Session
            /\ i + 1 \in Int /\ Len(pool[s]) \in Int
        BY <2>4, <3>1
      <4> QED BY <4>1, SubSeqProperties
    <3> QED BY <2>4, <3>2, <3>3, ConcatProperties
  <2>6. PICK k \in Seq(Session), q \in Seq(Session) :
          pool' = [pool EXCEPT ![s] = q] /\ evict' = [evict EXCEPT !.pc = "close", !.kept = k]
    BY <2>3, <2>5
  <2>7. TypeOK' /\ Steps'
    <3>1. evict' \in [pc : {"sleep", "turn", "close", "off"}, todo : Seq(Server),
                      due : SUBSET Session, kept : Seq(Session)]
      BY <2>6 DEF TypeOK
    <3>2. pool' \in [Server -> Seq(Session)]
      BY <2>2, <2>6 DEF TypeOK
    <3>3. old' \subseteq Session /\ alive' \subseteq Session
      BY <2>3 DEF TypeOK
    <3> QED BY <2>1, <3>1, <3>2, <3>3 DEF TypeOK, Steps
  <2>8. /\ evict'.pc = "close" /\ evict'.todo = evict.todo
        /\ Has(Evictor, s)'
    BY <2>1, <2>6 DEF TypeOK, Has
  <2>9. Hands'
    BY <2>1, <2>2, <2>8 DEF Hands
  <2> QED BY <2>7, <2>9
<1>4. CASE EvictorClosed
  BY <1>4 DEF EvictorClosed, TypeOK, Steps, Hands, Has
<1>5. CASE EvictorMovesOn
  <2> DEFINE s == Head(evict.todo)
             rest == Tail(evict.todo)
  <2>1. /\ evict.pc = "turn" /\ Has(Evictor, s) /\ UNCHANGED <<reqVars, old, downVars, alive>>
        /\ pool' = [pool EXCEPT ![s] = evict.kept \o pool[s]]
        /\ evict' = [pc |-> IF rest = << >> THEN "sleep" ELSE "turn", todo |-> rest,
                     due |-> IF rest = << >> THEN {} ELSE evict.due, kept |-> << >>]
        /\ lock' = [x \in Server |-> IF x = s THEN Tail(lock[x])
                      ELSE IF rest # << >> /\ x = Head(rest) THEN Append(lock[x], Evictor)
                      ELSE lock[x]]
    BY <1>5 DEF EvictorMovesOn, TypeOK
  <2>2. evict.todo # << >> /\ evict.todo \in Seq(Server) /\ s \in Server /\ rest \in Seq(Server)
    BY <2>1 DEF TypeOK, Hands
  <2>3. evict.kept \o pool[s] \in Seq(Session)
    BY <2>2 DEF TypeOK
  <2>4. \A x \in Server : /\ Append(lock[x], Evictor) \in Seq(Request \cup {Evictor})
                          /\ lock[x] # << >> => Tail(lock[x]) \in Seq(Request \cup {Evictor})
    BY DEF TypeOK
  <2> HIDE DEF rest
  <2>5. lock' \in [Server -> Seq(Request \cup {Evictor})]
    BY <2>1, <2>2, <2>4 DEF TypeOK, Has
  <2>6. /\ evict' \in [pc : {"sleep", "turn", "close", "off"}, todo : Seq(Server),
                       due : SUBSET Session, kept : Seq(Session)]
        /\ evict'.pc = IF rest = << >> THEN "sleep" ELSE "turn"
        /\ evict'.todo = rest /\ evict'.kept = << >>
    BY <2>1, <2>2 DEF TypeOK
  <2>7. TypeOK' /\ Steps'
    BY <2>1, <2>2, <2>3, <2>5, <2>6 DEF TypeOK, Steps
  <2>8. Hands'
    BY <2>1, <2>6 DEF Hands
  <2> QED BY <2>7, <2>8
<1>6. CASE BeginShutdown
  <2>1. lock' \in [Server -> Seq(Request \cup {Evictor})]
    BY <1>6, WithoutType DEF BeginShutdown, TypeOK
  <2>2. drain' \in Seq(Server)
    BY <1>6, KeysType DEF BeginShutdown
  <2>3. lost' \subseteq Session
    BY <1>6, RangeIn DEF BeginShutdown, TypeOK
  <2> QED BY <1>6, <2>1, <2>2, <2>3 DEF BeginShutdown, TypeOK, Steps, Hands
<1>7. CASE ShutdownCloses
  <2>1. /\ drain # << >> /\ Head(drain) \in Server /\ Tail(drain) \in Seq(Server)
        /\ UNCHANGED <<reqVars, lock, evict, down, lost, dropped>>
    BY <1>7 DEF ShutdownCloses, TypeOK
  <2>2. drain' \in Seq(Server)
    BY <1>7, <2>1 DEF ShutdownCloses, TypeOK
  <2>3. pool' \in [Server -> Seq(Session)]
    <3>1. pool[Head(drain)] # << >> => Tail(pool[Head(drain)]) \in Seq(Session)
      BY <2>1 DEF TypeOK
    <3> QED BY <1>7, <2>1, <3>1 DEF ShutdownCloses, TypeOK
  <2>4. alive' \subseteq Session /\ old' \subseteq Session
    BY <1>7 DEF ShutdownCloses, TypeOK
  <2> QED BY <2>1, <2>2, <2>3, <2>4 DEF TypeOK, Steps, Hands, Has
<1>8. CASE EndShutdown
  <2>1. \A s \in Server : Range(pool[s]) \subseteq Session
    BY RangeIn DEF TypeOK
  <2>2. lost' \subseteq Session
    BY <1>8, <2>1 DEF EndShutdown, TypeOK
  <2> QED BY <1>8, <2>2 DEF EndShutdown, TypeOK, Steps, Hands, Has
<1>9. CASE UNCHANGED vars
  BY <1>9 DEF vars, TypeOK, Steps, Hands, Has
<1> QED BY <1>1, <1>2, <1>3, <1>4, <1>5, <1>6, <1>7, <1>8, <1>9 DEF Evict, Shutdown

-----------------------------------------------------------------------------
(* The steps by what they do to the sessions.                              *)
LEMMA Whereabouts ==
  ASSUME McpInv
  PROVE  /\ \A e \in alive : e \in Session /\ e.to \in Server /\ e.by \in Request
         /\ \A s \in Server : \A e \in Pooled(s) : e \in alive /\ e.to = s
         /\ \A r \in Request : \A e \in InUse(r) :
              /\ e \in alive /\ \A s \in Server : e \notin Pooled(s)
              /\ \A q \in Request : e \in InUse(q) => q = r
<1>1. \A e \in alive : e \in Session /\ e.to \in Server /\ e.by \in Request
  BY DEF McpInv, TypeOK, Session
<1>2. \A s \in Server : \A e \in Pooled(s) : e \in alive /\ e.to = s
  BY DEF McpInv, Places, Deques
<1>3. ASSUME NEW r \in Request, NEW e \in InUse(r)
      PROVE  /\ e \in alive /\ \A s \in Server : e \notin Pooled(s)
             /\ \A q \in Request : e \in InUse(q) => q = r
  <2>1. e \in alive /\ e \notin Pooled(e.to) /\ \A q \in Request \ {r} : e \notin InUse(q)
    BY DEF McpInv, Places, SessionsOwned
  <2> QED BY <1>2, <2>1
<1> QED BY <1>1, <1>2, <1>3

LEMMA Untouched ==
  ASSUME McpInv, \A s \in Server : Idle(s)' = Idle(s), UNCHANGED <<active, alive>>,
         \A r \in Request : at'[r] >= at[r] /\ at'[r] \in Nat,
         lost \subseteq lost', dropped \subseteq dropped', down' = "up" => lost' = {}
  PROVE  Places'
<1>0. /\ \A e \in alive : e \in Session /\ e.to \in Server /\ e.by \in Request /\ e.no \in Nat
      /\ \A r \in Request : at[r] \in Nat
  BY DEF McpInv, TypeOK, Session
<1>1. \A s \in Server : Pooled(s)' = Pooled(s)
  BY DEF Pooled
<1>2. \A r \in Request : InUse(r)' = InUse(r)
  BY DEF InUse
<1>3. Opened'
  BY <1>0 DEF McpInv, Places, Opened
<1>4. BorrowedOnce'
  BY DEF McpInv, Places, BorrowedOnce
<1>5. Deques'
  BY <1>1 DEF McpInv, Places, Deques
<1>6. SessionsOwned'
  BY <1>0, <1>1, <1>2 DEF McpInv, Places, SessionsOwned
<1>7. NothingLeaks'
  BY <1>1, <1>2 DEF McpInv, Places, NothingLeaks
<1> QED BY <1>3, <1>4, <1>5, <1>6, <1>7 DEF Places

LEMMA ClosesPooled ==
  ASSUME McpInv, NEW s \in Server, NEW e \in Pooled(s), NEW q \in Seq(Session), IsInjective(q),
         Range(q) = Pooled(s) \ {e}, Len(q) <= MaxSize,
         \A x \in Server : Idle(x)' = IF x = s THEN q ELSE Idle(x),
         alive' = alive \ {e}, UNCHANGED <<active, at, lost, dropped, down>>
  PROVE  Places'
<1>0. /\ \A x \in alive : x \in Session /\ x.to \in Server /\ x.by \in Request
      /\ \A x \in Server : \A f \in Pooled(x) : f \in alive /\ f.to = x
      /\ \A r \in Request : e \notin InUse(r)
  BY Whereabouts
<1>1. \A x \in Server : Pooled(x)' = IF x = s THEN Pooled(s) \ {e} ELSE Pooled(x)
  BY DEF Pooled
<1>2. \A r \in Request : InUse(r)' = InUse(r)
  BY DEF InUse
<1>3. Opened'
  BY DEF McpInv, Places, Opened
<1>4. BorrowedOnce'
  BY DEF McpInv, Places, BorrowedOnce
<1>5. Deques'
  BY <1>0, <1>1 DEF McpInv, Places, Deques
<1>6. SessionsOwned'
  BY <1>0, <1>1, <1>2 DEF McpInv, Places, SessionsOwned
<1>7. NothingLeaks'
  BY <1>1, <1>2 DEF McpInv, Places, NothingLeaks
<1> QED BY <1>3, <1>4, <1>5, <1>6, <1>7 DEF Places

LEMMA Borrows ==
  ASSUME McpInv, NEW s \in Server, NEW e \in Pooled(s), NEW q \in Seq(Session), IsInjective(q),
         Range(q) = Pooled(s) \ {e}, Len(q) <= MaxSize,
         \A x \in Server : Idle(x)' = IF x = s THEN q ELSE Idle(x),
         NEW r \in Request, NEW a \in Seq(Session), Headers[e.by] = Headers[r],
         IsInjective(a), Range(a) = InUse(r) \cup {e}, active' = [active EXCEPT ![r] = a],
         at' = [at EXCEPT ![r] = at[r] + 1], UNCHANGED <<alive, lost, dropped, down>>
  PROVE  Places'
<1>0. /\ \A x \in alive : x \in Session /\ x.to \in Server /\ x.by \in Request /\ x.no \in Nat
      /\ \A x \in Server : \A f \in Pooled(x) : f \in alive /\ f.to = x
      /\ \A x \in Request : \A f \in InUse(x) :
           /\ f \in alive /\ \A y \in Server : f \notin Pooled(y)
           /\ \A y \in Request : f \in InUse(y) => y = x
      /\ at \in [Request -> Nat] /\ active \in [Request -> Seq(Session)]
  BY Whereabouts DEF McpInv, TypeOK, Session
<1>b. \A x, y \in Request : \A f : f \in InUse(x) /\ f \in InUse(y) => y = x
  BY Whereabouts
<1>1. \A x \in Server : Pooled(x)' = IF x = s THEN Pooled(s) \ {e} ELSE Pooled(x)
  BY DEF Pooled
<1>2. \A x \in Request : InUse(x)' = IF x = r THEN InUse(r) \cup {e} ELSE InUse(x)
  BY <1>0 DEF InUse
<1>3. Opened'
  BY <1>0 DEF McpInv, Places, Opened
<1>4. BorrowedOnce'
  BY <1>0 DEF McpInv, Places, BorrowedOnce
<1>5. Deques'
  BY <1>1 DEF McpInv, Places, Deques
<1>6. SessionsOwned'
  <2> SUFFICES ASSUME NEW x \in Request, NEW f \in InUse(x)'
               PROVE  /\ f \in alive /\ Headers[f.by] = Headers[x]
                      /\ f \notin Pooled(f.to)' /\ \A y \in Request \ {x} : f \notin InUse(y)'
    BY DEF SessionsOwned
  <2>1. CASE f = e
    <3>1. x = r
      BY <1>0, <1>2, <2>1
    <3> QED BY <1>0, <1>1, <1>2, <2>1, <3>1
  <2>2. CASE f # e
    <3>1. f \in InUse(x) /\ Headers[f.by] = Headers[x]
      BY <1>2, <2>2 DEF McpInv, Places, SessionsOwned
    <3>2. f \in alive /\ f.to \in Server /\ f \notin Pooled(f.to)
      BY <1>0, <3>1
    <3>3. f \notin Pooled(f.to)'
      BY <1>1, <2>2, <3>2
    <3>4. ASSUME NEW y \in Request \ {x}, f \in InUse(y)' PROVE FALSE
      <4>1. f \in InUse(y)
        BY <1>2, <2>2, <3>4
      <4>2. y = x
        BY <1>b, <3>1, <4>1
      <4> QED BY <4>2
    <3> QED BY <3>1, <3>2, <3>3, <3>4
  <2> QED BY <2>1, <2>2
<1>7. NothingLeaks'
  BY <1>1, <1>2 DEF McpInv, Places, NothingLeaks
<1> QED BY <1>3, <1>4, <1>5, <1>6, <1>7 DEF Places

LEMMA Opens ==
  ASSUME McpInv, NEW r \in Request, NEW e \in Session, e.by = r, e.no = at[r],
         NEW a \in Seq(Session), e \notin InUse(r) => IsInjective(a),
         Range(a) = InUse(r) \cup {e}, active' = [active EXCEPT ![r] = a],
         at' = [at EXCEPT ![r] = at[r] + 1], alive' = alive \cup {e},
         \A s \in Server : Idle(s)' = Idle(s), UNCHANGED <<lost, dropped, down>>
  PROVE  Places'
<1>0. /\ \A x \in alive : x \in Session /\ x.to \in Server /\ x.by \in Request /\ x.no \in Nat
      /\ \A x \in Server : \A f \in Pooled(x) : f \in alive /\ f.to = x
      /\ \A x \in Request : \A f \in InUse(x) :
           /\ f \in alive /\ \A y \in Server : f \notin Pooled(y)
           /\ \A y \in Request : f \in InUse(y) => y = x
      /\ at \in [Request -> Nat] /\ active \in [Request -> Seq(Session)]
  BY Whereabouts DEF McpInv, TypeOK, Session
<1>a. e \notin alive
  BY <1>0 DEF McpInv, Places, Opened
<1>b. \A x, y \in Request : \A f : f \in InUse(x) /\ f \in InUse(y) => y = x
  BY Whereabouts
<1>1. \A x \in Server : Pooled(x)' = Pooled(x)
  BY DEF Pooled
<1>2. \A x \in Request : InUse(x)' = IF x = r THEN InUse(r) \cup {e} ELSE InUse(x)
  BY <1>0 DEF InUse
<1>3. Opened'
  BY <1>0 DEF McpInv, Places, Opened
<1>4. BorrowedOnce'
  BY <1>0, <1>a DEF McpInv, Places, BorrowedOnce
<1>5. Deques'
  BY <1>1 DEF McpInv, Places, Deques
<1>6. SessionsOwned'
  <2> SUFFICES ASSUME NEW x \in Request, NEW f \in InUse(x)'
               PROVE  /\ f \in alive' /\ Headers[f.by] = Headers[x]
                      /\ f \notin Pooled(f.to)' /\ \A y \in Request \ {x} : f \notin InUse(y)'
    BY DEF SessionsOwned
  <2>1. CASE f = e
    <3>1. x = r /\ e.to \in Server
      BY <1>0, <1>a, <1>2, <2>1 DEF Session
    <3> QED BY <1>0, <1>a, <1>1, <1>2, <2>1, <3>1
  <2>2. CASE f # e
    <3>1. f \in InUse(x) /\ Headers[f.by] = Headers[x]
      BY <1>2, <2>2 DEF McpInv, Places, SessionsOwned
    <3>2. f \in alive /\ f.to \in Server /\ f \notin Pooled(f.to)
      BY <1>0, <3>1
    <3>3. f \notin Pooled(f.to)'
      BY <1>1, <2>2, <3>2
    <3>4. ASSUME NEW y \in Request \ {x}, f \in InUse(y)' PROVE FALSE
      <4>1. f \in InUse(y)
        BY <1>2, <2>2, <3>4
      <4>2. y = x
        BY <1>b, <3>1, <4>1
      <4> QED BY <4>2
    <3> QED BY <3>1, <3>2, <3>3, <3>4
  <2> QED BY <2>1, <2>2
<1>7. NothingLeaks'
  BY <1>1, <1>2 DEF McpInv, Places, NothingLeaks
<1> QED BY <1>3, <1>4, <1>5, <1>6, <1>7 DEF Places

LEMMA ClosesUsed ==
  ASSUME McpInv, NEW r \in Request, NEW e \in InUse(r), NEW a \in Seq(Session), IsInjective(a),
         Range(a) = InUse(r) \ {e}, active' = [active EXCEPT ![r] = a], alive' = alive \ {e},
         \A s \in Server : Idle(s)' = Idle(s), lost \subseteq lost', down = "up" => lost' = lost,
         UNCHANGED <<at, down, dropped>>
  PROVE  Places'
<1>0. /\ \A x \in alive : x \in Session /\ x.to \in Server /\ x.by \in Request
      /\ \A x \in Server : \A f \in Pooled(x) : f \in alive /\ f.to = x
      /\ \A x \in Request : \A f \in InUse(x) :
           /\ f \in alive /\ \A y \in Server : f \notin Pooled(y)
           /\ \A y \in Request : f \in InUse(y) => y = x
      /\ active \in [Request -> Seq(Session)]
  BY Whereabouts DEF McpInv, TypeOK
<1>1. \A x \in Server : Pooled(x)' = Pooled(x)
  BY DEF Pooled
<1>2. \A x \in Request : InUse(x)' = IF x = r THEN InUse(r) \ {e} ELSE InUse(x)
  BY <1>0 DEF InUse
<1>3. Opened'
  BY DEF McpInv, Places, Opened
<1>4. BorrowedOnce'
  BY <1>0 DEF McpInv, Places, BorrowedOnce
<1>5. Deques'
  BY <1>0, <1>1 DEF McpInv, Places, Deques
<1>6. SessionsOwned'
  <2> SUFFICES ASSUME NEW x \in Request, NEW f \in InUse(x)'
               PROVE  /\ f \in alive' /\ Headers[f.by] = Headers[x]
                      /\ f \notin Pooled(f.to)' /\ \A y \in Request \ {x} : f \notin InUse(y)'
    BY DEF SessionsOwned
  <2>1. f # e /\ f \in InUse(x)
    BY <1>0, <1>2
  <2>2. f \in alive /\ f.to \in Server /\ f \notin Pooled(f.to) /\ Headers[f.by] = Headers[x]
    BY <1>0, <2>1 DEF McpInv, Places, SessionsOwned
  <2>3. f \notin Pooled(f.to)'
    BY <1>1, <2>1, <2>2
  <2>4. \A y \in Request \ {x} : f \notin InUse(y)'
    BY <1>0, <1>2, <2>1
  <2> QED BY <2>1, <2>2, <2>3, <2>4
<1>7. NothingLeaks'
  BY <1>1, <1>2 DEF McpInv, Places, NothingLeaks
<1> QED BY <1>3, <1>4, <1>5, <1>6, <1>7 DEF Places

LEMMA GivesBack ==
  ASSUME McpInv, NEW r \in Request, NEW e \in InUse(r), NEW a \in Seq(Session), IsInjective(a),
         Range(a) = InUse(r) \ {e}, active' = [active EXCEPT ![r] = a],
         NEW q \in Seq(Session), e \notin Pooled(e.to) => IsInjective(q),
         Range(q) = Pooled(e.to) \cup {e}, Len(q) <= MaxSize,
         \A s \in Server : Idle(s)' = IF s = e.to THEN q ELSE Idle(s),
         lost \subseteq lost', down = "up" => lost' = lost, UNCHANGED <<at, down, alive, dropped>>
  PROVE  Places'
<1>0. /\ \A x \in alive : x \in Session /\ x.to \in Server /\ x.by \in Request
      /\ \A x \in Server : \A f \in Pooled(x) : f \in alive /\ f.to = x
      /\ \A x \in Request : \A f \in InUse(x) :
           /\ f \in alive /\ \A y \in Server : f \notin Pooled(y)
           /\ \A y \in Request : f \in InUse(y) => y = x
      /\ active \in [Request -> Seq(Session)]
  BY Whereabouts DEF McpInv, TypeOK
<1>a. e.to \in Server
  BY <1>0
<1>b. \A x, y \in Request : \A f : f \in InUse(x) /\ f \in InUse(y) => y = x
  BY Whereabouts
<1>1. \A x \in Server : Pooled(x)' = IF x = e.to THEN Pooled(e.to) \cup {e} ELSE Pooled(x)
  BY DEF Pooled
<1>2. \A x \in Request : InUse(x)' = IF x = r THEN InUse(r) \ {e} ELSE InUse(x)
  BY <1>0 DEF InUse
<1>3. Opened'
  BY DEF McpInv, Places, Opened
<1>4. BorrowedOnce'
  BY <1>0 DEF McpInv, Places, BorrowedOnce
<1>5. Deques'
  <2> SUFFICES ASSUME NEW x \in Server
               PROVE  /\ Len(Idle(x)') <= MaxSize /\ IsInjective(Idle(x)')
                      /\ \A f \in Pooled(x)' : f.to = x /\ f \in alive
    BY DEF Deques
  <2>1. Len(Idle(x)) <= MaxSize /\ IsInjective(Idle(x))
    BY DEF McpInv, Places, Deques
  <2>2. IsInjective(q)
    BY <1>0, <1>a
  <2>3. ASSUME NEW f \in Pooled(x)' PROVE f.to = x /\ f \in alive
    <3>1. f \in Pooled(x) \/ (f = e /\ x = e.to)
      BY <1>1
    <3> QED BY <1>0, <3>1
  <2>4. CASE x = e.to
    BY <2>2, <2>3, <2>4
  <2>5. CASE x # e.to
    BY <2>1, <2>3, <2>5
  <2> QED BY <2>4, <2>5
<1>6. SessionsOwned'
  <2> SUFFICES ASSUME NEW x \in Request, NEW f \in InUse(x)'
               PROVE  /\ f \in alive' /\ Headers[f.by] = Headers[x]
                      /\ f \notin Pooled(f.to)' /\ \A y \in Request \ {x} : f \notin InUse(y)'
    BY DEF SessionsOwned
  <2>1. f # e /\ f \in InUse(x)
    <3>1. f \in InUse(x) /\ (x = r => f # e)
      BY <1>2
    <3>2. f = e => x = r
      BY <1>b, <3>1
    <3> QED BY <3>1, <3>2
  <2>2. f \in alive /\ f.to \in Server /\ f \notin Pooled(f.to) /\ Headers[f.by] = Headers[x]
    BY <1>0, <2>1 DEF McpInv, Places, SessionsOwned
  <2>3. f \notin Pooled(f.to)'
    BY <1>1, <2>1, <2>2
  <2>4. \A y \in Request \ {x} : f \notin InUse(y)'
    BY <1>0, <1>2, <2>1
  <2> QED BY <2>1, <2>2, <2>3, <2>4
<1>7. NothingLeaks'
  BY <1>a, <1>1, <1>2 DEF McpInv, Places, NothingLeaks
<1> QED BY <1>3, <1>4, <1>5, <1>6, <1>7 DEF Places

-----------------------------------------------------------------------------
(* The deque of a server the evictor has nothing of in hand.               *)
Whole(s) == evict.todo # << >> /\ Head(evict.todo) = s => evict.kept = << >>

LEMMA WholeFor ==
  ASSUME McpInv, NEW s \in Server, down # "up" \/ \E r \in Request : Has(r, s)
  PROVE  Whole(s)
<1>1. CASE down # "up"
  BY <1>1 DEF McpInv, Hands, Whole
<1>2. CASE \E r \in Request : Has(r, s)
  BY <1>2, McpAssumption DEF McpInv, Hands, Whole, Has
<1> QED BY <1>1, <1>2

LEMMA WholeIdle ==
  ASSUME McpInv, NEW s \in Server, Whole(s)
  PROVE  Idle(s) = pool[s] /\ pool[s] \in Seq(Session) /\ IsInjective(pool[s]) /\ Len(pool[s]) <= MaxSize
<1>1. pool[s] \in Seq(Session)
  BY DEF McpInv, TypeOK
<1>2. Idle(s) = pool[s]
  BY <1>1, ConcatEmptySeq DEF Whole, Idle
<1> QED BY <1>1, <1>2 DEF McpInv, Places, Deques

LEMMA WholeSet ==
  ASSUME McpInv, NEW s \in Server, Whole(s), NEW q \in Seq(Session),
         pool' = [pool EXCEPT ![s] = q], UNCHANGED evict
  PROVE  \A x \in Server : Idle(x)' = IF x = s THEN q ELSE Idle(x)
<1>1. pool \in [Server -> Seq(Session)]
  BY DEF McpInv, TypeOK
<1>2. Idle(s)' = q
  <2>1. pool'[s] = q /\ evict' = evict
    BY <1>1
  <2> QED BY <2>1, ConcatEmptySeq DEF Whole, Idle
<1>3. ASSUME NEW x \in Server, x # s PROVE Idle(x)' = Idle(x)
  <2>1. pool'[x] = pool[x] /\ evict' = evict
    BY <1>1, <1>3
  <2> QED BY <2>1 DEF Idle
<1> QED BY <1>2, <1>3

(* The deque without the session that is idle longest.                     *)
LEMMA WholeTail ==
  ASSUME McpInv, NEW s \in Server, Whole(s), pool[s] # << >>,
         pool' = [pool EXCEPT ![s] = Tail(pool[s])], UNCHANGED evict
  PROVE  /\ Head(pool[s]) \in Pooled(s) /\ Head(pool[s]) \in Session
         /\ \E q \in Seq(Session) :
              /\ IsInjective(q) /\ Range(q) = Pooled(s) \ {Head(pool[s])} /\ Len(q) <= MaxSize
              /\ \A x \in Server : Idle(x)' = IF x = s THEN q ELSE Idle(x)
<1>1. Idle(s) = pool[s] /\ pool[s] \in Seq(Session) /\ IsInjective(pool[s]) /\ Len(pool[s]) <= MaxSize
  BY WholeIdle
<1>2. /\ Tail(pool[s]) \in Seq(Session) /\ Len(Tail(pool[s])) = Len(pool[s]) - 1
      /\ IsInjective(Tail(pool[s])) /\ Range(Tail(pool[s])) = Range(pool[s]) \ {Head(pool[s])}
      /\ Head(pool[s]) \in Range(pool[s])
  BY <1>1, TailOf
<1>3. PICK q \in Seq(Session) : q = Tail(pool[s])
  BY <1>2
<1>4. \A x \in Server : Idle(x)' = IF x = s THEN q ELSE Idle(x)
  BY <1>3, WholeSet
<1>5. IsInjective(q) /\ Range(q) = Pooled(s) \ {Head(pool[s])}
  BY <1>1, <1>2, <1>3 DEF Pooled
<1>6. Len(q) <= MaxSize
  BY <1>1, <1>2, <1>3, McpAssumption
<1>7. Head(pool[s]) \in Pooled(s) /\ Head(pool[s]) \in Session
  BY <1>1, <1>2 DEF Pooled
<1> QED BY <1>4, <1>5, <1>6, <1>7

(* A request takes one more session, or gives its last one away.           *)
LEMMA OneMore ==
  ASSUME NEW a \in Seq(Session), NEW e \in Session, IsInjective(a)
  PROVE  /\ a \o <<e>> \in Seq(Session) /\ Range(a \o <<e>>) = Range(a) \cup {e}
         /\ e \notin Range(a) => IsInjective(a \o <<e>>)
<1>1. a \o <<e>> = Append(a, e)
  OBVIOUS
<1>2. Append(a, e) \in Seq(Session) /\ Range(Append(a, e)) = Range(a) \cup {e}
  BY AppendRange
<1>3. e \notin Range(a) => IsInjective(Append(a, e))
  BY AppendNew
<1> QED BY <1>1, <1>2, <1>3

LEMMA OneLess ==
  ASSUME McpInv, NEW r \in Request, active[r] # << >>
  PROVE  /\ Last(active[r]) \in InUse(r) /\ Last(active[r]) \in Session
         /\ Front(active[r]) \in Seq(Session) /\ IsInjective(Front(active[r]))
         /\ Range(Front(active[r])) = InUse(r) \ {Last(active[r])}
<1>1. active[r] \in Seq(Session) /\ IsInjective(active[r])
  BY DEF McpInv, TypeOK, Places, BorrowedOnce
<1>2. Range(active[r]) \subseteq Session
  BY <1>1, RangeIn
<1> QED BY <1>1, <1>2, FrontOf DEF InUse

-----------------------------------------------------------------------------
LEMMA Quiet ==
  ASSUME McpInv, UNCHANGED <<active, alive, at, pool, evict, down, lost, dropped>>
  PROVE  Places'
<1>1. \A s \in Server : Idle(s)' = Idle(s)
  BY DEF Idle
<1>2. (\A r \in Request : at[r] \in Nat) /\ (down = "up" => lost = {})
  BY DEF McpInv, TypeOK, Places, NothingLeaks
<1> QED BY <1>1, <1>2, Untouched

(* A cancelled request drops what it holds, still open.                    *)
LEMMA Drops ==
  ASSUME McpInv, NEW r \in Request, Cancel(r)
  PROVE  Places'
<1>0. /\ \A x \in alive : x.to \in Server
      /\ active \in [Request -> Seq(Session)]
      /\ active' = [active EXCEPT ![r] = << >>] /\ dropped' = dropped \cup InUse(r)
      /\ UNCHANGED <<at, pool, evict, down, lost, alive>>
  BY Whereabouts DEF McpInv, TypeOK, Cancel, InUse
<1>1. \A x \in Server : Idle(x)' = Idle(x) /\ Pooled(x)' = Pooled(x)
  BY <1>0 DEF Pooled, Idle
<1>2. \A x \in Request : InUse(x)' = IF x = r THEN {} ELSE InUse(x)
  BY <1>0 DEF InUse, Range
<1>3. Opened'
  BY <1>0 DEF McpInv, Places, Opened
<1>4. BorrowedOnce'
  <2>1. IsInjective(<< >>)
    BY DEF IsInjective
  <2> QED BY <1>0, <2>1 DEF McpInv, Places, BorrowedOnce
<1>5. Deques'
  BY <1>0, <1>1 DEF McpInv, Places, Deques
<1>6. SessionsOwned'
  BY <1>0, <1>1, <1>2 DEF McpInv, Places, SessionsOwned
<1>7. NothingLeaks'
  BY <1>0, <1>1, <1>2 DEF McpInv, Places, NothingLeaks
<1> QED BY <1>3, <1>4, <1>5, <1>6, <1>7 DEF Places

LEMMA RequestPlaces ==
  ASSUME McpInv, NEW r \in Request, Serve(r) \/ Cancel(r)
  PROVE  Places'
<1> USE DEF Goto, reqVars, poolVars, downVars
<1>0. /\ at[r] \in 1..Len(Wanted[r]) => Now(r) \in Server
      /\ pc[r] \in {"acquire", "closeOld", "discard", "connect"} => at[r] \in 1..Len(Wanted[r])
      /\ active \in [Request -> Seq(Session)] /\ at \in [Request -> Nat]
      /\ pool \in [Server -> Seq(Session)]
  BY Turns DEF McpInv, Steps, TypeOK
<1>a. down = "up" => lost = {}
  BY DEF McpInv, Places, NothingLeaks
<1>1. CASE NextServer(r) \/ Miss(r) \/ OldClosed(r) \/ Discarded(r) \/ Closed(r)
  <2>1. UNCHANGED <<active, alive, at, pool, evict, down, lost, dropped>>
    BY <1>1 DEF NextServer, Miss, OldClosed, Discarded, Closed
  <2> QED BY <2>1, Quiet
<1>2. CASE CloseOld(r)
  <2> DEFINE s == Now(r)
             e == Head(pool[s])
  <2>1. /\ s \in Server /\ Has(r, s) /\ pool[s] # << >>
        /\ pool' = [pool EXCEPT ![s] = Tail(pool[s])] /\ alive' = alive \ {e}
        /\ UNCHANGED <<evict, active, at, lost, dropped, down>>
    BY <1>0, <1>2 DEF CloseOld
  <2> HIDE DEF s
  <2>2. e \in Pooled(s) /\ \E q \in Seq(Session) :
          /\ IsInjective(q) /\ Range(q) = Pooled(s) \ {e} /\ Len(q) <= MaxSize
          /\ \A x \in Server : Idle(x)' = IF x = s THEN q ELSE Idle(x)
    BY <2>1, WholeFor, WholeTail
  <2> QED BY <2>1, <2>2, ClosesPooled
<1>3. CASE Take(r)
  <2> DEFINE s == Now(r)
             e == Head(pool[s])
  <2>1. /\ s \in Server /\ Has(r, s) /\ pool[s] # << >>
        /\ pool' = [pool EXCEPT ![s] = Tail(pool[s])] /\ UNCHANGED <<evict, lost, dropped, down>>
    BY <1>0, <1>3 DEF Take
  <2>2. \/ UNCHANGED <<active, at>> /\ alive' = alive \ {e}
        \/ /\ Headers[e.by] = Headers[r] /\ UNCHANGED alive
           /\ active' = [active EXCEPT ![r] = active[r] \o <<e>>]
           /\ at' = [at EXCEPT ![r] = at[r] + 1]
    BY <1>0, <1>3 DEF Take, Got
  <2> HIDE DEF s
  <2>3. e \in Pooled(s) /\ e \in Session
    BY <2>1, WholeFor, WholeTail
  <2>4. PICK q \in Seq(Session) :
          /\ IsInjective(q) /\ Range(q) = Pooled(s) \ {e} /\ Len(q) <= MaxSize
          /\ \A x \in Server : Idle(x)' = IF x = s THEN q ELSE Idle(x)
    BY <2>1, WholeFor, WholeTail
  <2> HIDE DEF e
  <2>5. CASE UNCHANGED <<active, at>> /\ alive' = alive \ {e}
    BY <2>1, <2>3, <2>4, <2>5, ClosesPooled
  <2>6. CASE /\ Headers[e.by] = Headers[r] /\ UNCHANGED alive
             /\ active' = [active EXCEPT ![r] = active[r] \o <<e>>]
             /\ at' = [at EXCEPT ![r] = at[r] + 1]
    <3>1. active[r] \in Seq(Session) /\ IsInjective(active[r]) /\ e \notin Range(active[r])
      <4>1. e \notin InUse(r)
        BY <2>1, <2>3, Whereabouts
      <4> QED BY <1>0, <4>1 DEF McpInv, Places, BorrowedOnce, InUse
    <3>2. PICK a \in Seq(Session) : a = active[r] \o <<e>>
      BY <2>3, <3>1, OneMore
    <3>3. IsInjective(a) /\ Range(a) = InUse(r) \cup {e}
      BY <2>3, <3>1, <3>2, OneMore DEF InUse
    <3>4. active' = [active EXCEPT ![r] = a]
      BY <2>6, <3>2
    <3>5. /\ Headers[e.by] = Headers[r] /\ at' = [at EXCEPT ![r] = at[r] + 1]
          /\ UNCHANGED <<alive, lost, dropped, down>>
      BY <2>1, <2>6
    <3> QED BY <2>1, <2>3, <2>4, <3>3, <3>4, <3>5, Borrows
  <2> QED BY <2>2, <2>5, <2>6
<1>4. CASE ConnectEnds(r)
  <2> DEFINE e == [by |-> r, no |-> at[r], to |-> Now(r)]
  <2>1. /\ Now(r) \in Server /\ UNCHANGED <<pool, evict, lost, dropped, down>>
        /\ at' = [at EXCEPT ![r] = at[r] + 1]
    BY <1>0, <1>4 DEF ConnectEnds, Got
  <2>2. \/ active' = [active EXCEPT ![r] = active[r] \o <<e>>] /\ alive' = alive \cup {e}
        \/ active' = [active EXCEPT ![r] = active[r] \o << >>] /\ UNCHANGED alive
    BY <1>0, <1>4 DEF ConnectEnds, Got
  <2>3. \A s \in Server : Idle(s)' = Idle(s)
    BY <2>1 DEF Idle
  <2>4. e \in Session /\ e.by = r /\ e.no = at[r]
    BY <1>0, <2>1 DEF Session
  <2> HIDE DEF e
  <2>5. active[r] \in Seq(Session) /\ IsInjective(active[r])
    BY <1>0 DEF McpInv, Places, BorrowedOnce
  <2>6. CASE active' = [active EXCEPT ![r] = active[r] \o <<e>>] /\ alive' = alive \cup {e}
    <3>1. PICK a \in Seq(Session) : a = active[r] \o <<e>>
      BY <2>4, <2>5, OneMore
    <3>2. (e \notin InUse(r) => IsInjective(a)) /\ Range(a) = InUse(r) \cup {e}
      BY <2>4, <2>5, <3>1, OneMore DEF InUse
    <3>3. active' = [active EXCEPT ![r] = a] /\ alive' = alive \cup {e}
      BY <2>6, <3>1
    <3> QED BY <2>1, <2>3, <2>4, <3>2, <3>3, Opens
  <2>7. CASE active' = [active EXCEPT ![r] = active[r] \o << >>] /\ UNCHANGED alive
    <3>1. active[r] \o << >> = active[r]
      BY <2>5, ConcatEmptySeq
    <3>2. active' = active
      BY <1>0, <2>7, <3>1
    <3>3. \A x \in Request : at'[x] >= at[x] /\ at'[x] \in Nat
      BY <1>0, <2>1
    <3>4. /\ UNCHANGED <<alive, dropped>> /\ lost \subseteq lost'
          /\ down' = "up" => lost' = {}
      BY <1>a, <2>1, <2>7
    <3> QED BY <2>3, <3>2, <3>3, <3>4, Untouched
  <2> QED BY <2>2, <2>6, <2>7
<1>5. CASE Leave(r)
  <2>1. UNCHANGED <<at, pool, evict, down, lost, dropped>>
    BY <1>5 DEF Leave
  <2>2. CASE UNCHANGED <<active, alive>>
    BY <2>1, <2>2, Quiet
  <2>3. CASE ~UNCHANGED <<active, alive>>
    <3> DEFINE e == Last(active[r])
    <3>1. /\ active[r] # << >> /\ alive' = alive \ {e}
          /\ active' = [active EXCEPT ![r] = Front(active[r])]
      BY <1>0, <1>5, <2>3 DEF Leave
    <3>2. PICK a \in Seq(Session) : a = Front(active[r])
      BY <3>1, OneLess
    <3>3. e \in InUse(r) /\ IsInjective(a) /\ Range(a) = InUse(r) \ {e}
      BY <3>1, <3>2, OneLess
    <3> HIDE DEF e
    <3>4. \A s \in Server : Idle(s)' = Idle(s)
      BY <2>1 DEF Idle
    <3>5. active' = [active EXCEPT ![r] = a] /\ lost' = lost /\ dropped' = dropped
      BY <2>1, <3>1, <3>2
    <3> QED BY <2>1, <3>1, <3>3, <3>4, <3>5, ClosesUsed
  <2> QED BY <2>2, <2>3
<1>6. CASE Release(r)
  <2> DEFINE e == Last(active[r])
             s == e.to
  <2>1. /\ pc[r] = "release" /\ Has(r, s) /\ active' = [active EXCEPT ![r] = Front(active[r])]
        /\ lost' = (IF down = "down" THEN lost \cup {e} ELSE lost)
        /\ UNCHANGED <<at, evict, down, dropped>>
    BY <1>0, <1>6 DEF Release
  <2>2. active[r] # << >>
    BY <2>1 DEF McpInv, Steps
  <2>3. PICK a \in Seq(Session) : a = Front(active[r])
    BY <2>2, OneLess
  <2>4. e \in InUse(r) /\ e \in Session /\ IsInjective(a) /\ Range(a) = InUse(r) \ {e}
    BY <2>2, <2>3, OneLess
  <2>5. \/ Len(pool[s]) >= MaxSize /\ alive' = alive \ {e} /\ UNCHANGED pool
        \/ /\ ~(Len(pool[s]) >= MaxSize) /\ UNCHANGED alive
           /\ pool' = [pool EXCEPT ![s] = Append(pool[s], e)]
    BY <1>0, <1>6 DEF Release
  <2>6. active' = [active EXCEPT ![r] = a] /\ lost \subseteq lost' /\ (down = "up" => lost' = lost)
    BY <2>1, <2>3
  <2>7. s \in Server
    BY <2>4 DEF Session
  <2> HIDE DEF e
  <2>8. CASE Len(pool[s]) >= MaxSize /\ alive' = alive \ {e} /\ UNCHANGED pool
    <3>1. \A x \in Server : Idle(x)' = Idle(x)
      BY <2>1, <2>8 DEF Idle
    <3>2. alive' = alive \ {e} /\ UNCHANGED <<at, down, dropped>>
      BY <2>1, <2>8
    <3> QED BY <2>4, <2>6, <3>1, <3>2, ClosesUsed
  <2>9. CASE /\ ~(Len(pool[s]) >= MaxSize) /\ UNCHANGED alive
             /\ pool' = [pool EXCEPT ![s] = Append(pool[s], e)]
    <3>1. Whole(s)
      BY <2>1, <2>7, WholeFor
    <3>2. Idle(s) = pool[s] /\ pool[s] \in Seq(Session) /\ IsInjective(pool[s])
      BY <2>7, <3>1, WholeIdle
    <3>3. /\ Append(pool[s], e) \in Seq(Session) /\ Len(Append(pool[s], e)) = Len(pool[s]) + 1
          /\ Range(Append(pool[s], e)) = Range(pool[s]) \cup {e}
      BY <2>4, <3>2, AppendRange
    <3>4. PICK q \in Seq(Session) : q = Append(pool[s], e)
      BY <3>3
    <3>5. e \notin Pooled(s) => IsInjective(q)
      BY <2>4, <3>2, <3>4, AppendNew DEF Pooled
    <3>6. Range(q) = Pooled(s) \cup {e}
      BY <3>2, <3>3, <3>4 DEF Pooled
    <3>7. Len(q) <= MaxSize
      <4>1. Len(q) = Len(pool[s]) + 1 /\ Len(pool[s]) \in Nat /\ ~(Len(pool[s]) >= MaxSize)
        BY <2>9, <3>2, <3>3, <3>4
      <4> QED BY <4>1, McpAssumption
    <3>8. pool' = [pool EXCEPT ![s] = q] /\ UNCHANGED <<evict, at, down, alive, dropped>>
      BY <2>1, <2>9, <3>4
    <3>9. \A x \in Server : Idle(x)' = IF x = s THEN q ELSE Idle(x)
      BY <2>7, <3>1, <3>8, WholeSet
    <3> QED BY <2>4, <2>6, <3>5, <3>6, <3>7, <3>8, <3>9, GivesBack
  <2> QED BY <2>5, <2>8, <2>9
<1>7. CASE Cancel(r)
  BY <1>7, Drops
<1> QED BY <1>1, <1>2, <1>3, <1>4, <1>5, <1>6, <1>7 DEF Serve

LEMMA OtherPlaces ==
  ASSUME McpInv,
         \/ \E s \in Server : Expire(s)
         \/ EvictorWakes \/ Evict \/ BeginShutdown \/ Shutdown \/ UNCHANGED vars
  PROVE  Places'
<1> USE DEF reqVars, poolVars, downVars
<1>0. /\ pool \in [Server -> Seq(Session)] /\ evict.kept \in Seq(Session)
      /\ \A r \in Request : at[r] \in Nat
  BY DEF McpInv, TypeOK
<1>a. down = "up" => lost = {}
  BY DEF McpInv, Places, NothingLeaks
<1>1. ASSUME NEW s \in Server, Expire(s) PROVE Places'
  <2>1. UNCHANGED <<active, alive, at, pool, evict, down, lost, dropped>>
    BY <1>1 DEF Expire
  <2> QED BY <2>1, Quiet
<1>2. CASE EvictorWakes
  <2>1. PICK q \in Keys : evict' = [evict EXCEPT !.pc = "turn", !.todo = q, !.due = old]
    BY <1>2 DEF EvictorWakes
  <2>2. UNCHANGED <<active, alive, at, pool, down, lost, dropped>> /\ evict.pc = "sleep"
    BY <1>2 DEF EvictorWakes
  <2>3. evict.todo = << >> /\ evict.kept = << >>
    BY <2>2 DEF McpInv, Hands
  <2>4. evict'.kept = << >>
    BY <2>1, <2>3 DEF McpInv, TypeOK
  <2>5. ASSUME NEW s \in Server PROVE Idle(s)' = Idle(s)
    <3>1. << >> \o pool[s] = pool[s]
      BY <1>0, ConcatEmptySeq
    <3> QED BY <2>2, <2>3, <2>4, <3>1 DEF Idle
  <2> QED BY <1>0, <1>a, <2>2, <2>5, Untouched
<1>3. CASE EvictorCloses
  <2>0. evict.pc = "turn" /\ evict.todo # << >> /\ Head(evict.todo) \in Server
    BY <1>3 DEF EvictorCloses, McpInv, TypeOK, Hands
  <2>a. PICK s \in Server : s = Head(evict.todo)
    BY <2>0
  <2> DEFINE b == pool[s]
  <2>1. UNCHANGED <<active, at, lost, dropped, down>>
    BY <1>3 DEF EvictorCloses
  <2>2. evict.todo # << >> /\ Head(evict.todo) = s
    BY <2>0, <2>a
  <2>3. PICK i \in DOMAIN b :
          /\ pool' = [pool EXCEPT ![s] = SubSeq(b, i + 1, Len(b))] /\ alive' = alive \ {b[i]}
          /\ evict' = [evict EXCEPT !.pc = "close", !.kept = evict.kept \o SubSeq(b, 1, i - 1)]
    BY <1>0, <1>3, <2>a DEF EvictorCloses
  <2>4. b \in Seq(Session) /\ i \in 1..Len(b)
    BY <1>0, <2>2, <2>3
  <2>5. Idle(s) = evict.kept \o b
    BY <2>2 DEF Idle
  <2> DEFINE q == Evicted(evict.kept, b, i)
  <2>6. IsInjective(Idle(s)) /\ Len(Idle(s)) <= MaxSize
    BY <2>2 DEF McpInv, Places, Deques
  <2>7. /\ q \in Seq(Session) /\ Len(q) <= Len(Idle(s)) /\ IsInjective(q)
        /\ b[i] \in Pooled(s) /\ Range(q) = Pooled(s) \ {b[i]}
    <3> HIDE DEF b
    <3>1. IsInjective(evict.kept \o b) /\ Pooled(s) = Range(evict.kept \o b)
      BY <2>5, <2>6 DEF Pooled
    <3>2. evict.kept \in Seq(Session)
      BY <1>0
    <3>3. /\ q \in Seq(Session) /\ Len(q) <= Len(evict.kept \o b) /\ IsInjective(q)
          /\ b[i] \in Range(evict.kept \o b) /\ Range(q) = Range(evict.kept \o b) \ {b[i]}
      BY <2>4, <3>1, <3>2, EvictedOf
    <3> HIDE DEF q
    <3> QED BY <2>5, <3>1, <3>3
  <2>8. Idle(s) \in Seq(Session)
    BY <1>0, <2>4, <2>5, ConcatProperties
  <2>9. Idle(s)' = q
    <3>1. /\ evict'.todo = evict.todo /\ evict'.kept = evict.kept \o SubSeq(b, 1, i - 1)
          /\ pool'[s] = SubSeq(b, i + 1, Len(b))
      BY <1>0, <2>2, <2>3 DEF McpInv, TypeOK
    <3> QED BY <2>2, <3>1 DEF Idle, Evicted
  <2>10. ASSUME NEW x \in Server, x # s PROVE Idle(x)' = Idle(x)
    <3>1. evict'.todo = evict.todo /\ pool'[x] = pool[x]
      BY <1>0, <2>2, <2>3, <2>10 DEF McpInv, TypeOK
    <3> QED BY <2>2, <2>10, <3>1 DEF Idle
  <2> HIDE DEF q, b
  <2>11. Len(q) <= MaxSize
    <3>1. Len(q) \in Nat /\ Len(Idle(s)) \in Nat
      BY <2>7, <2>8
    <3> QED BY <2>6, <2>7, <3>1, AtMost
  <2>12. \A x \in Server : Idle(x)' = IF x = s THEN q ELSE Idle(x)
    BY <2>9, <2>10, Zenon
  <2> QED BY <2>1, <2>2, <2>3, <2>7, <2>11, <2>12, ClosesPooled
<1>4. CASE EvictorClosed
  <2>1. evict'.todo = evict.todo /\ evict'.kept = evict.kept
    BY <1>4 DEF EvictorClosed, McpInv, TypeOK
  <2>2. UNCHANGED <<active, alive, at, pool, down, lost, dropped>>
    BY <1>4 DEF EvictorClosed
  <2>3. \A s \in Server : Idle(s)' = Idle(s)
    BY <2>1, <2>2 DEF Idle
  <2> QED BY <1>0, <1>a, <2>2, <2>3, Untouched
<1>5. CASE EvictorMovesOn
  <2> DEFINE s == Head(evict.todo)
  <2>1. /\ evict.pc = "turn" /\ UNCHANGED <<active, alive, at, down, lost, dropped>>
        /\ pool' = [pool EXCEPT ![s] = evict.kept \o pool[s]] /\ evict'.kept = << >>
    BY <1>0, <1>5 DEF EvictorMovesOn
  <2>2. evict.todo # << >> /\ s \in Server
    BY <2>1 DEF McpInv, TypeOK, Hands
  <2>3. evict.kept \o pool[s] \in Seq(Session)
    BY <1>0, <2>2
  <2>4. PICK q \in Seq(Session) : q = evict.kept \o pool[s]
    BY <2>3
  <2>5. pool' = [pool EXCEPT ![s] = q] /\ Idle(s) = q
    BY <2>1, <2>2, <2>4 DEF Idle
  <2> HIDE DEF s
  <2>6. ASSUME NEW x \in Server PROVE Idle(x)' = Idle(x)
    <3>1. pool'[x] \in Seq(Session)
      BY <1>0, <2>2, <2>5
    <3>2. Idle(x)' = pool'[x]
      BY <2>1, <3>1, ConcatEmptySeq DEF Idle
    <3>3. CASE x = s
      BY <1>0, <2>5, <3>2, <3>3
    <3>4. CASE x # s
      BY <1>0, <2>5, <3>2, <3>4 DEF Idle, s
    <3> QED BY <3>3, <3>4
  <2> QED BY <1>0, <1>a, <2>1, <2>6, Untouched
<1>6. CASE BeginShutdown
  <2>1. /\ UNCHANGED <<active, at, pool, alive, dropped>> /\ down = "up" /\ down' = "closing"
        /\ lost' = Range(evict.kept) /\ evict'.todo = << >>
    BY <1>6 DEF BeginShutdown
  <2>2. \A s \in Server : Idle(s)' = pool[s]
    BY <2>1 DEF Idle
  <2>3. ASSUME NEW s \in Server
        PROVE  IF evict.todo # << >> /\ Head(evict.todo) = s
                 THEN Idle(s) = evict.kept \o pool[s] ELSE Idle(s) = pool[s]
    BY DEF Idle
  <2>4. ASSUME NEW s \in Server
        PROVE  /\ Len(pool[s]) <= MaxSize /\ IsInjective(pool[s])
               /\ Range(pool[s]) \subseteq Pooled(s) /\ Pooled(s) \subseteq Range(pool[s]) \cup lost'
    <3>1. IsInjective(Idle(s)) /\ Len(Idle(s)) <= MaxSize
      BY DEF McpInv, Places, Deques
    <3>2. CASE evict.todo # << >> /\ Head(evict.todo) = s
      <4>1. Idle(s) = evict.kept \o pool[s]
        BY <2>3, <3>2
      <4>2. /\ IsInjective(pool[s]) /\ Len(pool[s]) <= Len(evict.kept \o pool[s])
            /\ Range(evict.kept \o pool[s]) = Range(evict.kept) \cup Range(pool[s])
        BY <1>0, <3>1, <4>1, SecondPart
      <4>3. Len(pool[s]) <= MaxSize
        <5>1. Len(pool[s]) \in Nat /\ Len(evict.kept \o pool[s]) \in Nat
          BY <1>0, ConcatProperties
        <5>2. Len(evict.kept \o pool[s]) <= MaxSize
          BY <3>1, <4>1
        <5> QED BY <4>2, <5>1, <5>2, AtMost
      <4> QED BY <2>1, <4>1, <4>2, <4>3 DEF Pooled
    <3>3. CASE ~(evict.todo # << >> /\ Head(evict.todo) = s)
      <4>1. Idle(s) = pool[s]
        BY <2>3, <3>3
      <4> QED BY <3>1, <4>1 DEF Pooled
    <3> QED BY <3>2, <3>3
  <2>5. \A s \in Server : Pooled(s)' = Range(pool[s])
    BY <2>2 DEF Pooled
  <2>6. \A r \in Request : InUse(r)' = InUse(r)
    BY <2>1 DEF InUse
  <2>7. Opened' /\ BorrowedOnce'
    BY <2>1 DEF McpInv, Places, Opened, BorrowedOnce
  <2>8. Deques'
    BY <2>1, <2>2, <2>4, <2>5, Whereabouts DEF Deques
  <2>9. SessionsOwned'
    <3>1. \A e \in alive : e.to \in Server
      BY Whereabouts
    <3> QED BY <2>1, <2>4, <2>5, <2>6, <3>1 DEF McpInv, Places, SessionsOwned
  <2>10. NothingLeaks'
    <3>1. lost = {}
      BY <1>a, <2>1
    <3> QED BY <2>1, <2>4, <2>5, <2>6, <3>1 DEF McpInv, Places, NothingLeaks
  <2> QED BY <2>7, <2>8, <2>9, <2>10 DEF Places
<1>7. CASE ShutdownCloses
  <2> DEFINE s == Head(drain)
             e == Head(pool[s])
  <2>1. /\ down = "closing" /\ s \in Server /\ UNCHANGED <<active, at, evict, down, lost, dropped>>
        /\ \/ UNCHANGED <<pool, alive>>
           \/ /\ pool[s] # << >> /\ alive' = alive \ {e}
              /\ pool' = [pool EXCEPT ![s] = Tail(pool[s])]
    BY <1>0, <1>7 DEF ShutdownCloses, McpInv, TypeOK
  <2> HIDE DEF s
  <2>2. CASE UNCHANGED <<pool, alive>>
    BY <2>1, <2>2, Quiet
  <2>3. CASE /\ pool[s] # << >> /\ alive' = alive \ {e}
             /\ pool' = [pool EXCEPT ![s] = Tail(pool[s])]
    <3>1. e \in Pooled(s) /\ \E q \in Seq(Session) :
            /\ IsInjective(q) /\ Range(q) = Pooled(s) \ {e} /\ Len(q) <= MaxSize
            /\ \A x \in Server : Idle(x)' = IF x = s THEN q ELSE Idle(x)
      BY <2>1, <2>3, WholeFor, WholeTail
    <3> QED BY <2>1, <2>3, <3>1, ClosesPooled
  <2> QED BY <2>1, <2>2, <2>3
<1>8. CASE EndShutdown
  <2>1. /\ down = "closing" /\ down' = "down"
        /\ UNCHANGED <<active, at, evict, alive, dropped>>
        /\ lost' = lost \cup UNION {Range(pool[s]) : s \in Server}
        /\ pool' = [s \in Server |-> << >>]
    BY <1>8 DEF EndShutdown
  <2>2. evict.todo = << >>
    BY <2>1 DEF McpInv, Hands
  <2>3. \A s \in Server : Idle(s)' = << >> /\ Idle(s) = pool[s]
    BY <2>1, <2>2 DEF Idle
  <2>4. \A s \in Server : Pooled(s)' = {} /\ Pooled(s) = Range(pool[s])
    BY <2>3 DEF Pooled, Range
  <2>5. \A r \in Request : InUse(r)' = InUse(r)
    BY <2>1 DEF InUse
  <2>6. Opened' /\ BorrowedOnce'
    BY <2>1 DEF McpInv, Places, Opened, BorrowedOnce
  <2>7. Deques'
    BY <2>3, <2>4, McpAssumption DEF Deques, IsInjective
  <2>8. SessionsOwned'
    <3>1. \A e \in alive : e.to \in Server
      BY Whereabouts
    <3> QED BY <2>1, <2>4, <2>5, <3>1 DEF McpInv, Places, SessionsOwned
  <2>9. NothingLeaks'
    BY <2>1, <2>4, <2>5 DEF McpInv, Places, NothingLeaks
  <2> QED BY <2>6, <2>7, <2>8, <2>9 DEF Places
<1>9. CASE UNCHANGED vars
  <2>1. UNCHANGED <<active, alive, at, pool, evict, down, lost, dropped>>
    BY <1>9 DEF vars
  <2> QED BY <2>1, Quiet
<1> QED BY <1>1, <1>2, <1>3, <1>4, <1>5, <1>6, <1>7, <1>8, <1>9 DEF Evict, Shutdown

LEMMA InitInv == Init => McpInv
<1> SUFFICES ASSUME Init PROVE McpInv
  OBVIOUS
<1>1. TypeOK
  BY DEF Init, TypeOK
<1>2. Steps /\ Hands
  BY DEF Init, Steps, Hands
<1>3. \A s \in Server : Idle(s) = << >> /\ Pooled(s) = {}
  BY DEF Init, Idle, Pooled, Range
<1>4. \A r \in Request : active[r] = << >> /\ InUse(r) = {}
  BY DEF Init, InUse, Range
<1>5. Opened /\ BorrowedOnce /\ SessionsOwned /\ NothingLeaks
  BY <1>4 DEF Init, Opened, BorrowedOnce, SessionsOwned, NothingLeaks, IsInjective
<1>6. Deques
  BY <1>3, McpAssumption DEF Deques, IsInjective
<1> QED BY <1>1, <1>2, <1>5, <1>6 DEF McpInv, Places

(* Whatever requests, expiry, the evictor and the shutdown do to each other*)
(* at their awaits: positions, the evictor's hands and where each session  *)
(* is stay as the invariant says.                                          *)
THEOREM McpInvariant == Spec => []McpInv
<1>1. McpInv /\ [Next]_vars => McpInv'
  <2> SUFFICES ASSUME McpInv, [Next]_vars PROVE McpInv'
    OBVIOUS
  <2>1. TypeInv
    BY DEF McpInv, TypeInv
  <2>2. ASSUME NEW r \in Request, Serve(r) \/ Cancel(r) PROVE McpInv'
    BY <2>1, <2>2, RequestType, RequestPlaces DEF McpInv, TypeInv
  <2>3. CASE \/ \E s \in Server : Expire(s)
             \/ EvictorWakes \/ Evict \/ BeginShutdown \/ Shutdown \/ UNCHANGED vars
    BY <2>1, <2>3, OtherType, OtherPlaces DEF McpInv, TypeInv
  <2> QED BY <2>2, <2>3 DEF Next
<1> QED BY <1>1, InitInv, PTL DEF Spec

(* No session serves a request of another user, two requests at once or a  *)
(* request while it lies in the pool, and none in use is closed.           *)
THEOREM SessionsHaveOneOwner == Spec => []SessionsOwned
<1>1. McpInv => SessionsOwned
  BY DEF McpInv, Places
<1> QED BY <1>1, McpInvariant, PTL

(* Every open session is pooled, in use or in the evictor's hands; only    *)
(* the shutdown loses any, and a subagent that is cancelled while it       *)
(* connects or disconnects.                                                *)
THEOREM NoSessionLeaks == Spec => []NothingLeaks
<1>1. McpInv => NothingLeaks
  BY DEF McpInv, Places
<1> QED BY <1>1, McpInvariant, PTL

(* The deque of a server keeps its size, even with what a pass of the      *)
(* evictor puts back, and holds open sessions of that server, each once.   *)
THEOREM PoolStaysSound == Spec => []PoolSound
<1>1. McpInv => PoolSound
  BY DEF McpInv, Places, Deques, PoolSound
<1> QED BY <1>1, McpInvariant, PTL

-----------------------------------------------------------------------------
(* Who stands in the queue of which lock.  A process asks for the lock of  *)
(* one server at a time and is in that queue once; a request that closes a *)
(* session may be at the head of a queue it asks for no more, and one that *)
(* cleans up behind an expired session has the lock.                       *)
Process == Request \cup {Evictor}

Waits(p, s) ==
  \/ p = Evictor /\ evict.todo # << >> /\ Head(evict.todo) = s
  \/ /\ p \in Request
     /\ \/ pc[p] \in {"acquire", "closeOld"} /\ Now(p) = s
        \/ pc[p] = "release" /\ Last(active[p]).to = s

Waiting == {x \in Process \X Server : Waits(x[1], x[2])}
Closing == {r \in Request : pc[r] = "close"}
Cleaning == {x \in Request \X Server : pc[x[1]] = "closeOld" /\ Now(x[1]) = x[2]}

First(q, p) == q # << >> /\ Head(q) = p

Fit(l, W, C, O) ==
  \A s \in Server :
    /\ IsInjective(l[s])
    /\ \A p \in Process : <<p, s>> \in W => p \in Range(l[s])
    /\ \A p \in Range(l[s]) : <<p, s>> \in W \/ (p \in C /\ First(l[s], p))
    /\ \A p \in Process : <<p, s>> \in O => First(l[s], p)

Lined == IsInjective(evict.todo) /\ Fit(lock, Waiting, Closing, Cleaning)

(* Nothing but the event loop keeps p from its next step.                  *)
GoesOn(p) ==
  IF p = Evictor
    THEN evict.pc = "close" \/ (evict.pc = "turn" /\ Has(Evictor, Head(evict.todo)))
    ELSE \/ pc[p] \in {"next", "closeOld", "discard", "connect", "leave", "close"}
         \/ pc[p] = "acquire" /\ Has(p, Now(p))
         \/ pc[p] = "release" /\ Has(p, Last(active[p]).to)

Busy(p) == IF p = Evictor THEN evict.pc \in {"turn", "close"} ELSE pc[p] # "done"

NobodyStuck ==
  \A p \in Process : Busy(p) /\ ~GoesOn(p) =>
    \E s \in Server : /\ p \in Range(lock[s]) /\ Head(lock[s]) # p
                      /\ Head(lock[s]) \in Process /\ GoesOn(Head(lock[s]))

(* p comes to a queue, leaves it or stays, and the others keep their order.*)
Moved(p, q, w) ==
  /\ IsInjective(w)
  /\ \A x \in Process \ {p} : /\ x \in Range(w) <=> x \in Range(q)
                              /\ First(q, x) => First(w, x)

LEMMA MovedIn ==
  ASSUME NEW q \in Seq(Process), IsInjective(q), NEW p \in Process, p \notin Range(q)
  PROVE  Moved(p, q, Append(q, p)) /\ p \in Range(Append(q, p))
<1>1. /\ Append(q, p) # << >> /\ Range(Append(q, p)) = Range(q) \cup {p}
      /\ q # << >> => Head(Append(q, p)) = Head(q)
  BY AppendRange
<1>2. IsInjective(Append(q, p))
  BY AppendNew
<1> HIDE DEF Process
<1> QED BY <1>1, <1>2, Zenon DEF Moved, First

LEMMA MovedOut ==
  ASSUME NEW q \in Seq(Process), IsInjective(q), NEW p \in Process, First(q, p)
  PROVE  Moved(p, q, Tail(q)) /\ p \notin Range(Tail(q))
<1>1. IsInjective(Tail(q)) /\ Range(Tail(q)) = Range(q) \ {p}
  BY TailOf DEF First
<1> QED BY <1>1 DEF Moved, First

LEMMA MovedNot ==
  ASSUME NEW q, IsInjective(q), NEW p \in Process
  PROVE  Moved(p, q, q)
  BY DEF Moved

LEMMA MovedAway ==
  ASSUME NEW q \in Seq(Process), IsInjective(q), NEW p \in Process
  PROVE  Moved(p, q, Without(q, p)) /\ p \notin Range(Without(q, p))
<1>1. CASE p \notin Range(q)
  BY <1>1, MovedNot DEF Without
<1>2. CASE p \in Range(q)
  <2> DEFINE k == CHOOSE i \in DOMAIN q : q[i] = p
             w == Without(q, p)
             n == Len(q)
  <2>1. k \in 1..n /\ n \in Nat /\ q[k] = p /\ \A i \in 1..n : q[i] \in Process
    <3>1. \E i \in DOMAIN q : q[i] = p
      BY <1>2 DEF Range
    <3> QED BY <3>1
  <2>2. w = RemoveAt(q, k) /\ w \in Seq(Process)
    BY <1>2, WithoutType DEF Without
  <2> HIDE DEF k, w
  <2>3. CutOf(q, k, w)
    BY <2>1, <2>2, RemovedCut
  <2>4. IsInjective(w) /\ Range(w) = Range(q) \ {p}
    BY <2>1, <2>2, <2>3, Cut
  <2>5. ASSUME NEW x \in Process \ {p}, First(q, x) PROVE First(w, x)
    <3>1. q[1] = x /\ k # 1
      BY <2>1, <2>5 DEF First
    <3>2. 1 \in 1..(n - 1) /\ 1 < k
      BY <2>1, <3>1
    <3>3. w[1] = x /\ Len(w) = n - 1
      BY <2>3, <3>1, <3>2 DEF CutOf
    <3>4. w # << >> /\ Head(w) = w[1]
      BY <2>2, <3>2, <3>3
    <3> QED BY <3>3, <3>4 DEF First
  <2> QED BY <2>4, <2>5 DEF Moved, w
<1> QED BY <1>1, <1>2

(* Nothing changes for the processes other than p.                         *)
SameBut(p, W, C, O, V, D, P) ==
  \A q \in Process \ {p} :
    /\ q \in D <=> q \in C
    /\ \A s \in Server : (<<q, s>> \in V <=> <<q, s>> \in W) /\ (<<q, s>> \in P <=> <<q, s>> \in O)

(* What p does fits the queues.                                            *)
Own(p, l, V, D, P) ==
  \A s \in Server :
    /\ <<p, s>> \in V => p \in Range(l[s])
    /\ p \in Range(l[s]) => <<p, s>> \in V \/ (p \in D /\ First(l[s], p))
    /\ <<p, s>> \in P => First(l[s], p)

LEMMA FitMoves ==
  ASSUME NEW l, NEW W, NEW C, NEW O, NEW m, NEW V, NEW D, NEW P, NEW p \in Process,
         Fit(l, W, C, O), SameBut(p, W, C, O, V, D, P), Own(p, m, V, D, P),
         \A s \in Server : Moved(p, l[s], m[s]) /\ Range(m[s]) \subseteq Process
  PROVE  Fit(m, V, D, P)
<1> SUFFICES ASSUME NEW s \in Server
             PROVE  /\ IsInjective(m[s])
                    /\ \A q \in Process : <<q, s>> \in V => q \in Range(m[s])
                    /\ \A q \in Range(m[s]) : <<q, s>> \in V \/ (q \in D /\ First(m[s], q))
                    /\ \A q \in Process : <<q, s>> \in P => First(m[s], q)
  BY DEF Fit
<1>1. Moved(p, l[s], m[s]) /\ Range(m[s]) \subseteq Process
  OBVIOUS
<1>2. ASSUME NEW q \in Process \ {p}
      PROVE  /\ <<q, s>> \in V => q \in Range(m[s])
             /\ q \in Range(m[s]) => <<q, s>> \in V \/ (q \in D /\ First(m[s], q))
             /\ <<q, s>> \in P => First(m[s], q)
  BY <1>1 DEF Fit, SameBut, Moved
<1> QED BY <1>1, <1>2 DEF Own, Moved

-----------------------------------------------------------------------------
(* Whom the queues see.                                                    *)
LEMMA WhoWaits ==
  /\ \A p \in Process, s \in Server :
       /\ <<p, s>> \in Waiting <=> Waits(p, s)
       /\ <<p, s>> \in Waiting' <=> Waits(p, s)'
       /\ <<p, s>> \in Cleaning <=> p \in Request /\ pc[p] = "closeOld" /\ Now(p) = s
       /\ <<p, s>> \in Cleaning' <=> p \in Request /\ pc'[p] = "closeOld" /\ Now(p)' = s
  /\ \A p : /\ p \in Closing <=> p \in Request /\ pc[p] = "close"
            /\ p \in Closing' <=> p \in Request /\ pc'[p] = "close"
  BY DEF Waiting, Cleaning, Closing, Process

LEMMA OthersWait ==
  ASSUME TypeOK, NEW r \in Request, NEW l, Goto(r, l), evict' = evict,
         \A q \in Request \ {r} : at'[q] = at[q] /\ active'[q] = active[q]
  PROVE  SameBut(r, Waiting, Closing, Cleaning, Waiting', Closing', Cleaning')
<1>1. \A q \in Request \ {r} : pc'[q] = pc[q]
  BY DEF Goto, TypeOK
<1>2. ASSUME NEW q \in Process \ {r}, NEW s \in Server
      PROVE  /\ Waits(q, s)' <=> Waits(q, s)
             /\ q \in Request => (Now(q)' = s <=> Now(q) = s) /\ pc'[q] = pc[q]
  BY <1>1 DEF Waits, Now, Process
<1>3. \A q \in Process \ {r} : q \in Closing' <=> q \in Closing
  BY <1>1, WhoWaits
<1> QED BY <1>2, <1>3, WhoWaits DEF SameBut

LEMMA EvictorAlone ==
  ASSUME UNCHANGED reqVars
  PROVE  SameBut(Evictor, Waiting, Closing, Cleaning, Waiting', Closing', Cleaning')
<1>1. pc' = pc /\ at' = at /\ active' = active
  BY DEF reqVars
<1>2. ASSUME NEW q \in Process \ {Evictor}, NEW s \in Server
      PROVE  (Waits(q, s)' <=> Waits(q, s)) /\ (Now(q)' = s <=> Now(q) = s)
  BY <1>1 DEF Waits, Now
<1> QED BY <1>1, <1>2, WhoWaits DEF SameBut

(* p stays where it is in queue s, comes to it, or goes from its head or   *)
(* wherever it stands.                                                     *)
Turn(p, s) ==
  \/ lock'[s] = lock[s]
  \/ p \notin Range(lock[s]) /\ lock'[s] = Append(lock[s], p)
  \/ Has(p, s) /\ lock'[s] = Tail(lock[s])
  \/ lock'[s] = Without(lock[s], p)

LEMMA Queues ==
  ASSUME TypeOK
  PROVE  \A s \in Server : lock[s] \in Seq(Process) /\ Range(lock[s]) \subseteq Process
<1>1. \A s \in Server : lock[s] \in Seq(Process)
  BY DEF TypeOK, Process
<1> QED BY <1>1, RangeIn

LEMMA QueuesThen ==
  ASSUME TypeOK'
  PROVE  \A s \in Server : lock'[s] \in Seq(Process) /\ Range(lock'[s]) \subseteq Process
<1>1. \A s \in Server : lock'[s] \in Seq(Process)
  BY DEF TypeOK, Process
<1> QED BY <1>1, RangeIn

LEMMA TurnMoves ==
  ASSUME TypeOK, Lined, NEW p \in Process, NEW s \in Server, Turn(p, s)
  PROVE  Moved(p, lock[s], lock'[s])
<1>1. lock[s] \in Seq(Process) /\ IsInjective(lock[s])
  BY Queues DEF Lined, Fit
<1> QED BY <1>1, MovedIn, MovedOut, MovedNot, MovedAway DEF Turn, Has, First

LEMMA LinedAfter ==
  ASSUME TypeOK, TypeOK', Lined, NEW p \in Process, IsInjective(evict'.todo),
         \A s \in Server : Moved(p, lock[s], lock'[s]),
         SameBut(p, Waiting, Closing, Cleaning, Waiting', Closing', Cleaning'),
         Own(p, lock', Waiting', Closing', Cleaning')
  PROVE  Lined'
<1>1. Fit(lock, Waiting, Closing, Cleaning)
  BY DEF Lined
<1>2. \A s \in Server : Moved(p, lock[s], lock'[s]) /\ Range(lock'[s]) \subseteq Process
  BY QueuesThen
<1>3. Fit(lock', Waiting', Closing', Cleaning')
  BY <1>1, <1>2, FitMoves
<1> QED BY <1>3 DEF Lined

(* A request that asks for no lock is in no queue.                         *)
LEMMA InQueue ==
  ASSUME TypeOK, Lined, NEW r \in Request, NEW s \in Server
  PROVE  /\ r \in Range(lock[s]) => Waits(r, s) \/ (pc[r] = "close" /\ Has(r, s))
         /\ Waits(r, s) => r \in Range(lock[s])
         /\ pc[r] = "closeOld" /\ Now(r) = s => Has(r, s)
<1>1. r \in Process
  BY DEF Process
<1> QED BY <1>1, WhoWaits DEF Lined, Fit, First, Has

(* How request r leaves a queue, comes to one, or stays.                   *)
Place(r, s) ==
  /\ Waits(r, s)' => r \in Range(lock'[s])
  /\ r \in Range(lock'[s]) => Waits(r, s)' \/ (pc'[r] = "close" /\ Has(r, s)')
  /\ pc'[r] = "closeOld" /\ Now(r)' = s => Has(r, s)'

LEMMA RequestLines ==
  ASSUME TypeOK, TypeOK', Lined, NEW r \in Request, NEW l, Goto(r, l), evict' = evict,
         \A q \in Request \ {r} : at'[q] = at[q] /\ active'[q] = active[q],
         \A s \in Server : Turn(r, s) /\ Place(r, s)
  PROVE  Lined'
<1>1. r \in Process
  BY DEF Process
<1>2. SameBut(r, Waiting, Closing, Cleaning, Waiting', Closing', Cleaning')
  BY OthersWait
<1>3. \A s \in Server : Moved(r, lock[s], lock'[s])
  BY <1>1, TurnMoves
<1>4. Own(r, lock', Waiting', Closing', Cleaning')
  <2>1. ASSUME NEW s \in Server
        PROVE  /\ <<r, s>> \in Waiting' => r \in Range(lock'[s])
               /\ r \in Range(lock'[s]) => <<r, s>> \in Waiting' \/ (r \in Closing' /\ First(lock'[s], r))
               /\ <<r, s>> \in Cleaning' => First(lock'[s], r)
    BY <1>1, WhoWaits DEF Place, Has, First
  <2> QED BY <2>1 DEF Own
<1>5. IsInjective(evict'.todo)
  BY DEF Lined
<1> QED BY <1>1, <1>2, <1>3, <1>4, <1>5, LinedAfter

(* Between its turns a request is in no queue.                             *)
LEMMA StaysOut ==
  ASSUME TypeOK, Lined, NEW r \in Request, pc[r] \in {"next", "discard", "connect", "leave"},
         NEW l \in {"next", "connect", "leave", "close", "done"}, Goto(r, l), lock' = lock,
         NEW s \in Server
  PROVE  Turn(r, s) /\ Place(r, s)
<1>1. r \notin Range(lock[s])
  BY InQueue, McpAssumption DEF Waits
<1>2. pc'[r] = l
  BY DEF Goto, TypeOK
<1>3. ~Waits(r, s)'
  BY <1>2, McpAssumption DEF Waits
<1> QED BY <1>1, <1>2, <1>3 DEF Turn, Place

LEMMA ComesTo ==
  ASSUME TypeOK, Lined, NEW r \in Request, pc[r] \in {"next", "leave"},
         NEW z \in Server, Queue(r, z), NEW l, Goto(r, l), at' = at, active' = active,
         \/ l = "acquire" /\ Now(r) = z
         \/ l = "release" /\ Last(active[r]).to = z,
         NEW s \in Server
  PROVE  Turn(r, s) /\ Place(r, s)
<1>1. r \notin Range(lock[s])
  BY InQueue, McpAssumption DEF Waits
<1>2. pc'[r] = l
  BY DEF Goto, TypeOK
<1>3. lock'[s] = IF s = z THEN Append(lock[s], r) ELSE lock[s]
  BY DEF Queue, TypeOK
<1>4. Waits(r, s)' <=> s = z
  BY <1>2, McpAssumption DEF Waits, Now
<1>5. r \in Range(Append(lock[s], r))
  <2>1. r \in Process /\ lock[s] \in Seq(Process)
    BY Queues DEF Process
  <2> QED BY <2>1, AppendRange
<1> QED BY <1>1, <1>2, <1>3, <1>4, <1>5 DEF Turn, Place

LEMMA GoesFrom ==
  ASSUME TypeOK, Lined, NEW r \in Request, NEW z \in Server, Has(r, z), Unlock(z),
         pc[r] \in {"acquire", "release"}, \A s \in Server : Waits(r, s) => s = z,
         NEW l \in {"next", "connect", "discard", "leave"}, Goto(r, l),
         NEW s \in Server
  PROVE  Turn(r, s) /\ Place(r, s)
<1>1. s # z => r \notin Range(lock[s])
  BY InQueue
<1>2. pc'[r] = l
  BY DEF Goto, TypeOK
<1>3. lock'[s] = IF s = z THEN Tail(lock[s]) ELSE lock[s]
  BY DEF Unlock, TypeOK
<1>4. ~Waits(r, s)'
  BY <1>2, McpAssumption DEF Waits
<1>5. s = z => r \notin Range(Tail(lock[s]))
  <2>1. r \in Process /\ lock[s] \in Seq(Process) /\ IsInjective(lock[s])
    BY Queues DEF Process, Lined, Fit
  <2> QED BY <2>1, MovedOut DEF Has, First
<1> QED BY <1>1, <1>2, <1>3, <1>4, <1>5 DEF Turn, Place

LEMMA RequestLined ==
  ASSUME TypeOK, TypeOK', Steps, Lined, NEW r \in Request, Serve(r) \/ Cancel(r)
  PROVE  Lined'
<1>0. /\ at[r] \in 1..Len(Wanted[r]) => Now(r) \in Server
      /\ at[r] <= Len(Wanted[r]) => at[r] \in 1..Len(Wanted[r])
      /\ active[r] # << >> => Last(active[r]).to \in Server
      /\ at[r] \in Nat /\ Len(Wanted[r]) \in Nat
  BY Turns DEF Session
<1>1. CASE NextServer(r)
  <2>1. PICK l \in {"leave", "acquire", "connect"} :
          /\ Goto(r, l)
          /\ IF l = "acquire" THEN at[r] \in 1..Len(Wanted[r]) /\ Queue(r, Now(r)) ELSE lock' = lock
    BY <1>0, <1>1 DEF NextServer
  <2>2. \A s \in Server : Turn(r, s) /\ Place(r, s)
    <3>1. CASE l = "acquire"
      BY <1>0, <1>1, <2>1, <3>1, ComesTo DEF NextServer
    <3>2. CASE l # "acquire"
      BY <1>1, <2>1, <3>2, StaysOut DEF NextServer
    <3> QED BY <3>1, <3>2
  <2> QED BY <1>1, <2>1, <2>2, RequestLines DEF NextServer
<1>2. CASE Miss(r) \/ Take(r)
  <2>1. /\ pc[r] = "acquire" /\ Has(r, Now(r)) /\ Unlock(Now(r)) /\ evict' = evict
        /\ \A q \in Request \ {r} : at'[q] = at[q] /\ active'[q] = active[q]
    BY <1>2 DEF Miss, Take, Got, TypeOK
  <2>2. PICK l \in {"next", "connect", "discard"} : Goto(r, l)
    BY <1>2 DEF Miss, Take, Got
  <2>3. Now(r) \in Server /\ \A s \in Server : Waits(r, s) => s = Now(r)
    BY <1>0, <2>1, McpAssumption DEF Steps, Waits
  <2>4. \A s \in Server : Turn(r, s) /\ Place(r, s)
    BY <2>1, <2>2, <2>3, GoesFrom
  <2> QED BY <2>1, <2>2, <2>4, RequestLines
<1>3. CASE CloseOld(r) \/ OldClosed(r)
  <2>1. /\ pc[r] \in {"acquire", "closeOld"} /\ evict' = evict /\ lock' = lock
        /\ at' = at /\ active' = active /\ (pc[r] = "acquire" => Has(r, Now(r)))
    BY <1>3 DEF CloseOld, OldClosed, poolVars
  <2>2. PICK l \in {"closeOld", "acquire"} : Goto(r, l)
    BY <1>3 DEF CloseOld, OldClosed
  <2>3. Now(r) \in Server
    BY <1>0, <2>1 DEF Steps
  <2>4. Has(r, Now(r)) /\ pc'[r] = l
    BY <2>1, <2>2, <2>3, InQueue DEF Goto, TypeOK
  <2>5. ASSUME NEW s \in Server PROVE Turn(r, s) /\ Place(r, s)
    <3>1. /\ Waits(r, s) <=> Now(r) = s
          /\ Waits(r, s)' <=> Now(r) = s
      BY <2>1, <2>4, McpAssumption DEF Waits, Now
    <3>2. Now(r)' = Now(r) /\ (Has(r, s)' <=> Has(r, s))
      BY <2>1 DEF Now, Has
    <3>3. r \in Range(lock[s]) <=> Waits(r, s)
      BY <2>1, InQueue
    <3> QED BY <2>1, <2>4, <3>1, <3>2, <3>3 DEF Turn, Place
  <2> QED BY <2>1, <2>2, <2>5, RequestLines
<1>4. CASE Discarded(r) \/ ConnectEnds(r)
  <2>1. /\ pc[r] \in {"discard", "connect"} /\ evict' = evict /\ lock' = lock
        /\ \A q \in Request \ {r} : at'[q] = at[q] /\ active'[q] = active[q]
    BY <1>4 DEF Discarded, ConnectEnds, Got, poolVars, TypeOK
  <2>2. PICK l \in {"next", "connect"} : Goto(r, l)
    BY <1>4 DEF Discarded, ConnectEnds, Got
  <2>3. \A s \in Server : Turn(r, s) /\ Place(r, s)
    BY <2>1, <2>2, StaysOut
  <2> QED BY <2>1, <2>2, <2>3, RequestLines
<1>5. CASE Leave(r)
  <2>1. /\ pc[r] = "leave" /\ evict' = evict
        /\ \A q \in Request \ {r} : at'[q] = at[q] /\ active'[q] = active[q]
    BY <1>5 DEF Leave, TypeOK
  <2>2. PICK l \in {"done", "release", "close"} :
          /\ Goto(r, l)
          /\ IF l = "release"
               THEN /\ active[r] # << >> /\ Queue(r, Last(active[r]).to)
                    /\ at' = at /\ active' = active
               ELSE lock' = lock
    BY <1>5 DEF Leave
  <2>3. \A s \in Server : Turn(r, s) /\ Place(r, s)
    <3>1. CASE l = "release"
      BY <1>0, <2>1, <2>2, <3>1, ComesTo
    <3>2. CASE l # "release"
      BY <2>1, <2>2, <3>2, StaysOut
    <3> QED BY <3>1, <3>2
  <2> QED BY <2>1, <2>2, <2>3, RequestLines
<1>6. CASE Release(r)
  <2> DEFINE z == Last(active[r]).to
  <2>1. /\ pc[r] = "release" /\ Has(r, z) /\ evict' = evict
        /\ \A q \in Request \ {r} : at'[q] = at[q] /\ active'[q] = active[q]
    BY <1>6 DEF Release, TypeOK
  <2>2. z \in Server /\ \A s \in Server : Waits(r, s) => s = z
    BY <1>0, <2>1, McpAssumption DEF Steps, Waits
  <2>3. (Goto(r, "close") /\ lock' = lock) \/ (Goto(r, "leave") /\ Unlock(z))
    BY <1>6 DEF Release
  <2> HIDE DEF z
  <2>4. CASE Goto(r, "close") /\ lock' = lock
    <3>1. pc'[r] = "close"
      BY <2>4 DEF Goto, TypeOK
    <3>2. ASSUME NEW s \in Server PROVE Turn(r, s) /\ Place(r, s)
      <4>1. r \in Range(lock[s]) => Has(r, s)
        BY <2>1, <2>2, InQueue
      <4>2. ~Waits(r, s)' /\ (Has(r, s)' <=> Has(r, s))
        BY <2>4, <3>1, McpAssumption DEF Waits, Has
      <4> QED BY <2>4, <3>1, <4>1, <4>2 DEF Turn, Place
    <3> QED BY <2>1, <2>4, <3>2, RequestLines
  <2>5. CASE Goto(r, "leave") /\ Unlock(z)
    <3>1. \A s \in Server : Turn(r, s) /\ Place(r, s)
      BY <2>1, <2>2, <2>5, GoesFrom
    <3> QED BY <2>1, <2>5, <3>1, RequestLines
  <2> QED BY <2>3, <2>4, <2>5
<1>7. CASE Closed(r)
  <2>1. pc[r] = "close" /\ Goto(r, "leave") /\ evict' = evict /\ at' = at /\ active' = active
    BY <1>7 DEF Closed
  <2>2. pc'[r] = "leave"
    BY <2>1 DEF Goto, TypeOK
  <2>3. ASSUME NEW s \in Server PROVE Turn(r, s) /\ Place(r, s)
    <3>1. lock'[s] = IF Has(r, s) THEN Tail(lock[s]) ELSE lock[s]
      BY <1>7 DEF Closed
    <3>2. r \in Range(lock[s]) => Has(r, s)
      BY <2>1, InQueue, McpAssumption DEF Waits
    <3>3. Has(r, s) => r \notin Range(Tail(lock[s]))
      <4>1. r \in Process /\ lock[s] \in Seq(Process) /\ IsInjective(lock[s])
        BY Queues DEF Process, Lined, Fit
      <4> QED BY <4>1, MovedOut DEF Has, First
    <3>4. ~Waits(r, s)'
      BY <2>2, McpAssumption DEF Waits
    <3> QED BY <2>2, <3>1, <3>2, <3>3, <3>4 DEF Turn, Place
  <2> QED BY <2>1, <2>3, RequestLines
<1>8. CASE Cancel(r)
  <2>1. /\ Goto(r, "done") /\ evict' = evict
        /\ \A q \in Request \ {r} : at'[q] = at[q] /\ active'[q] = active[q]
        /\ \A s \in Server : lock'[s] = Without(lock[s], r)
    BY <1>8 DEF Cancel, TypeOK
  <2>2. pc'[r] = "done"
    BY <2>1 DEF Goto, TypeOK
  <2>3. ASSUME NEW s \in Server PROVE Turn(r, s) /\ Place(r, s)
    <3>1. r \notin Range(Without(lock[s], r))
      <4>1. r \in Process /\ lock[s] \in Seq(Process) /\ IsInjective(lock[s])
        BY Queues DEF Process, Lined, Fit
      <4> QED BY <4>1, MovedAway
    <3>2. ~Waits(r, s)'
      BY <2>2, McpAssumption DEF Waits
    <3> QED BY <2>1, <2>2, <3>1, <3>2 DEF Turn, Place
  <2> QED BY <2>1, <2>3, RequestLines
<1> QED BY <1>1, <1>2, <1>3, <1>4, <1>5, <1>6, <1>7, <1>8 DEF Serve

(* The evictor asks for one lock after the other, and the shutdown takes   *)
(* it out of whichever queue it is in.                                     *)
EvictorPlace(s) ==
  /\ Waits(Evictor, s)' => Evictor \in Range(lock'[s])
  /\ Evictor \in Range(lock'[s]) => Waits(Evictor, s)'

LEMMA EvictorLines ==
  ASSUME TypeOK, TypeOK', Lined, UNCHANGED reqVars, IsInjective(evict'.todo),
         \A s \in Server : Moved(Evictor, lock[s], lock'[s]) /\ EvictorPlace(s)
  PROVE  Lined'
<1>1. Evictor \in Process
  BY DEF Process
<1>2. SameBut(Evictor, Waiting, Closing, Cleaning, Waiting', Closing', Cleaning')
  BY EvictorAlone
<1>3. ASSUME NEW s \in Server
      PROVE  /\ <<Evictor, s>> \in Waiting' => Evictor \in Range(lock'[s])
             /\ Evictor \in Range(lock'[s]) => <<Evictor, s>> \in Waiting'
             /\ <<Evictor, s>> \notin Cleaning'
  BY <1>1, WhoWaits, McpAssumption DEF EvictorPlace
<1>4. Own(Evictor, lock', Waiting', Closing', Cleaning')
  BY <1>3 DEF Own
<1> QED BY <1>1, <1>2, <1>4, LinedAfter

LEMMA EvictorQueue ==
  ASSUME TypeOK, Lined, NEW s \in Server
  PROVE  /\ Evictor \in Range(lock[s]) <=> evict.todo # << >> /\ Head(evict.todo) = s
         /\ Waits(Evictor, s) <=> evict.todo # << >> /\ Head(evict.todo) = s
         /\ Waits(Evictor, s)' <=> evict'.todo # << >> /\ Head(evict'.todo) = s
         /\ lock[s] \in Seq(Process) /\ IsInjective(lock[s]) /\ Evictor \in Process
<1>1. Evictor \in Process /\ Evictor \notin Request
  BY McpAssumption DEF Process
<1>2. lock[s] \in Seq(Process) /\ IsInjective(lock[s])
  BY Queues DEF Lined, Fit
<1>3. /\ Waits(Evictor, s) <=> evict.todo # << >> /\ Head(evict.todo) = s
      /\ Waits(Evictor, s)' <=> evict'.todo # << >> /\ Head(evict'.todo) = s
  BY <1>1 DEF Waits
<1>4. Evictor \in Range(lock[s]) <=> Waits(Evictor, s)
  BY <1>1, WhoWaits DEF Lined, Fit
<1> QED BY <1>1, <1>2, <1>3, <1>4

LEMMA OtherLined ==
  ASSUME TypeOK, TypeOK', Hands, Lined,
         \/ \E s \in Server : Expire(s)
         \/ EvictorWakes \/ Evict \/ BeginShutdown \/ Shutdown \/ UNCHANGED vars
  PROVE  Lined'
<1>1. CASE \/ \E s \in Server : Expire(s)
           \/ EvictorCloses \/ EvictorClosed \/ Shutdown \/ UNCHANGED vars
  <2>1. UNCHANGED reqVars /\ lock' = lock /\ evict'.todo = evict.todo
    <3>1. CASE EvictorCloses
      BY <3>1 DEF EvictorCloses, TypeOK
    <3>2. CASE EvictorClosed
      BY <3>2 DEF EvictorClosed, TypeOK, poolVars
    <3>3. CASE (\E s \in Server : Expire(s)) \/ Shutdown \/ UNCHANGED vars
      BY <3>3 DEF Expire, Shutdown, ShutdownCloses, EndShutdown, vars, poolVars
    <3> QED BY <1>1, <3>1, <3>2, <3>3
  <2>2. \A s \in Server : Moved(Evictor, lock[s], lock'[s]) /\ EvictorPlace(s)
    BY <2>1, EvictorQueue, MovedNot DEF EvictorPlace
  <2> QED BY <2>1, <2>2, EvictorLines DEF Lined
<1>2. CASE EvictorWakes
  <2>1. PICK todo \in Keys :
          /\ todo # << >> /\ evict'.todo = todo /\ Queue(Evictor, Head(todo))
    BY <1>2 DEF EvictorWakes, TypeOK
  <2>2. evict.todo = << >> /\ UNCHANGED reqVars
    BY <1>2 DEF EvictorWakes, Hands
  <2>3. IsInjective(todo) /\ Head(todo) \in Server
    <3>1. IsInjective(todo) /\ todo \in Seq(Server)
      BY KeysType DEF Keys
    <3> QED BY <2>1, <3>1
  <2>4. ASSUME NEW s \in Server PROVE Moved(Evictor, lock[s], lock'[s]) /\ EvictorPlace(s)
    <3>1. lock'[s] = IF s = Head(todo) THEN Append(lock[s], Evictor) ELSE lock[s]
      BY <2>1 DEF Queue, TypeOK
    <3>2. Evictor \notin Range(lock[s])
      BY <2>2, EvictorQueue
    <3> QED BY <2>1, <3>1, <3>2, EvictorQueue, MovedIn, MovedNot DEF EvictorPlace
  <2> QED BY <2>1, <2>2, <2>3, <2>4, EvictorLines
<1>3. CASE EvictorMovesOn
  <2> DEFINE z == Head(evict.todo)
             rest == Tail(evict.todo)
  <2>1. /\ evict'.todo = rest /\ Has(Evictor, z) /\ UNCHANGED reqVars
        /\ \A s \in Server : lock'[s] = IF s = z THEN Tail(lock[s])
                               ELSE IF rest # << >> /\ s = Head(rest) THEN Append(lock[s], Evictor)
                               ELSE lock[s]
    BY <1>3 DEF EvictorMovesOn
  <2>2. evict.todo \in Seq(Server) /\ evict.todo # << >> /\ IsInjective(evict.todo)
    BY <1>3 DEF EvictorMovesOn, Hands, Lined, TypeOK
  <2>3. rest \in Seq(Server) /\ IsInjective(rest) /\ Range(rest) = Range(evict.todo) \ {z}
    BY <2>2, TailOf
  <2>4. rest # << >> => Head(rest) # z
    <3>1. rest # << >> => Head(rest) \in Range(rest)
      BY <2>3, TailOf
    <3> QED BY <2>3, <3>1
  <2> HIDE DEF z, rest
  <2>5. ASSUME NEW s \in Server PROVE Moved(Evictor, lock[s], lock'[s]) /\ EvictorPlace(s)
    <3>1. Evictor \in Range(lock[s]) <=> s = z
      BY <2>2, EvictorQueue DEF z
    <3>2. Waits(Evictor, s)' <=> rest # << >> /\ Head(rest) = s
      BY <2>1, EvictorQueue
    <3>3. CASE s = z
      <4>1. lock'[s] = Tail(lock[s]) /\ First(lock[s], Evictor)
        BY <2>1, <3>3 DEF Has, First
      <4> QED BY <2>4, <3>2, <3>3, <4>1, EvictorQueue, MovedOut DEF EvictorPlace
    <3>4. CASE s # z
      BY <2>1, <3>1, <3>2, <3>4, EvictorQueue, MovedIn, MovedNot DEF EvictorPlace
    <3> QED BY <3>3, <3>4
  <2> QED BY <2>1, <2>3, <2>5, EvictorLines
<1>4. CASE BeginShutdown
  <2>1. /\ evict'.todo = << >> /\ UNCHANGED reqVars
        /\ \A s \in Server : lock'[s] = Without(lock[s], Evictor)
    BY <1>4 DEF BeginShutdown
  <2>2. IsInjective(evict'.todo)
    BY <2>1 DEF IsInjective
  <2>3. ASSUME NEW s \in Server PROVE Moved(Evictor, lock[s], lock'[s]) /\ EvictorPlace(s)
    BY <2>1, EvictorQueue, MovedAway DEF EvictorPlace
  <2> QED BY <2>1, <2>2, <2>3, EvictorLines
<1> QED BY <1>1, <1>2, <1>3, <1>4 DEF Evict

(* Whoever cannot go on, request or evictor, waits in the queue of a lock  *)
(* whose holder goes on: no process keeps a lock while it waits for another*)
(* one, and none leaves a queue with a holder that is gone, the evictor    *)
(* that the shutdown cancels and a cancelled subagent included.            *)
THEOREM PoolNeverStuck == Spec => []NobodyStuck
<1>1. Init => Lined
  <2> SUFFICES ASSUME Init PROVE Lined
    OBVIOUS
  <2>1. /\ evict.todo = << >> /\ \A s \in Server : lock[s] = << >>
        /\ \A r \in Request : pc[r] = "next"
    BY DEF Init
  <2>2. \A p \in Process, s \in Server : <<p, s>> \notin Waiting /\ <<p, s>> \notin Cleaning
    BY <2>1, WhoWaits DEF Waits
  <2>3. IsInjective(<< >>) /\ Range(<< >>) = {}
    BY DEF IsInjective, Range
  <2> QED BY <2>1, <2>2, <2>3 DEF Lined, Fit
<1>2. McpInv /\ McpInv' /\ Lined /\ [Next]_vars => Lined'
  BY RequestLined, OtherLined DEF McpInv, Next
<1>3. McpInv /\ Lined => NobodyStuck
  <2> SUFFICES ASSUME McpInv, Lined, NEW p \in Process, Busy(p), ~GoesOn(p)
               PROVE  \E s \in Server : /\ p \in Range(lock[s]) /\ Head(lock[s]) # p
                                        /\ Head(lock[s]) \in Process /\ GoesOn(Head(lock[s]))
    BY DEF NobodyStuck
  <2>1. TypeOK /\ Steps /\ Hands
    BY DEF McpInv
  <2>2. PICK z \in Server : Waits(p, z) /\ ~Has(p, z)
    <3>1. CASE p = Evictor
      <4>1. evict.todo # << >> /\ ~Has(Evictor, Head(evict.todo)) /\ Head(evict.todo) \in Server
        BY <2>1, <3>1 DEF Busy, GoesOn, Hands, TypeOK
      <4> QED BY <3>1, <4>1 DEF Waits
    <3>2. CASE p # Evictor
      <4>1. p \in Request
        BY <3>2 DEF Process
      <4>2. \/ pc[p] = "acquire" /\ ~Has(p, Now(p))
            \/ pc[p] = "release" /\ ~Has(p, Last(active[p]).to)
        BY <2>1, <3>2, <4>1 DEF Busy, GoesOn, TypeOK
      <4>3. /\ pc[p] = "acquire" => Now(p) \in Server
            /\ pc[p] = "release" => Last(active[p]).to \in Server
        BY <2>1, <4>1, Turns DEF Steps, Session
      <4> QED BY <4>1, <4>2, <4>3 DEF Waits
    <3> QED BY <3>1, <3>2
  <2>3. p \in Range(lock[z]) /\ lock[z] \in Seq(Process)
    BY <2>1, <2>2, WhoWaits, Queues DEF Lined, Fit
  <2>4. lock[z] # << >> /\ Head(lock[z]) # p
    BY <2>2, <2>3, RangeIn DEF Has
  <2>5. PICK h \in Process : h = Head(lock[z]) /\ h \in Range(lock[z]) /\ Has(h, z)
    <3>1. IsInjective(lock[z])
      BY DEF Lined, Fit
    <3> QED BY <2>3, <2>4, <3>1, TailOf DEF Has
  <2>6. GoesOn(h)
    <3>1. CASE h = Evictor
      <4>1. evict.todo # << >> /\ Head(evict.todo) = z
        BY <2>1, <2>5, <3>1, EvictorQueue
      <4> QED BY <2>1, <2>5, <3>1, <4>1 DEF GoesOn, Hands
    <3>2. CASE h # Evictor
      <4>1. h \in Request
        BY <3>2 DEF Process
      <4>2. Waits(h, z) \/ pc[h] = "close"
        BY <2>1, <2>5, <4>1, InQueue
      <4> QED BY <2>5, <3>2, <4>1, <4>2 DEF GoesOn, Waits
    <3> QED BY <3>1, <3>2
  <2> QED BY <2>3, <2>4, <2>5, <2>6
<1> QED BY <1>1, <1>2, <1>3, McpInvariant, PTL DEF Spec
=============================================================================
