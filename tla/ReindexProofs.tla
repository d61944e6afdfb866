---------------------------- MODULE ReindexProofs ----------------------------
(***************************************************************************)
(* Theorems about the reindex queue and the passes that run under it, for  *)
(* any requests, entities, documents and any limit of slots.               *)
(***************************************************************************)
EXTENDS KbReindex, FiniteSetTheorems, SequenceTheorems, WellFoundedInduction, TLAPS

-----------------------------------------------------------------------------
(* How many numbers there are up to k.                                     *)
LEMMA UpTo ==
  ASSUME NEW k \in Int
  PROVE  IsFiniteSet(1..k) /\ (k \in Nat => Cardinality(1..k) = k)
<1>1. IsFiniteSet(1..k) /\ Cardinality(1..k) = IF 1 > k THEN 0 ELSE k - 1 + 1
  BY FS_Interval
<1> QED BY <1>1

(* As many pairs as numbers.                                               *)
LEMMA ColumnOf ==
  ASSUME NEW r, NEW k \in Nat
  PROVE  IsFiniteSet({r} \X (1..k)) /\ Cardinality({r} \X (1..k)) = k
<1>1. IsFiniteSet({r}) /\ Cardinality({r}) = 1
  BY FS_Singleton
<1>2. IsFiniteSet(1..k) /\ Cardinality(1..k) = k
  BY UpTo
<1>3. /\ IsFiniteSet({r} \X (1..k))
      /\ Cardinality({r} \X (1..k)) = Cardinality({r}) * Cardinality(1..k)
  BY <1>1, <1>2, FS_Product, Zenon
<1> QED BY <1>1, <1>2, <1>3

(* Two sets without a common element.                                      *)
LEMMA DisjointUnion ==
  ASSUME NEW S, NEW T, IsFiniteSet(S), IsFiniteSet(T), S \cap T = {}
  PROVE  /\ IsFiniteSet(S \cup T)
         /\ Cardinality(S \cup T) = Cardinality(S) + Cardinality(T)
         /\ Cardinality(S) \in Nat /\ Cardinality(T) \in Nat
<1>1. Cardinality(S \cap T) = 0
  BY FS_EmptySet
<1>2. Cardinality(S) \in Nat /\ Cardinality(T) \in Nat
  BY FS_CardinalityType
<1>3. /\ IsFiniteSet(S \cup T)
      /\ Cardinality(S \cup T) = Cardinality(S) + Cardinality(T) - Cardinality(S \cap T)
  BY FS_Union
<1> QED BY <1>1, <1>2, <1>3

(* Who takes n slots where k were taken changes the number of held slots   *)
(* by the difference.                                                      *)
LEMMA HeldChange ==
  ASSUME Limit \in Nat, taken \in [Run -> 0..Limit], IsFiniteSet(Held),
         NEW r \in Run, NEW n \in 0..Limit, taken' = [taken EXCEPT ![r] = n]
  PROVE  /\ IsFiniteSet(Held')
         /\ Cardinality(Held') = Cardinality(Held) - taken[r] + n
         /\ Cardinality(Held) \in Nat
<1> DEFINE Others == {h \in Held : h[1] # r}
           Mine(k) == {r} \X (1..k)
<1>1. Held = Others \cup Mine(taken[r]) /\ Held' = Others \cup Mine(n)
  BY DEF Held
<1>2. IsFiniteSet(Others)
  BY FS_Subset
<1>3. \A k \in 0..Limit : IsFiniteSet(Mine(k)) /\ Cardinality(Mine(k)) = k
  <2> TAKE k \in 0..Limit
  <2>1. k \in Nat
    OBVIOUS
  <2> QED BY <2>1, ColumnOf
<1>4. \A k \in 0..Limit : Others \cap Mine(k) = {}
  OBVIOUS
<1>5. \A k \in 0..Limit : /\ IsFiniteSet(Others \cup Mine(k))
                          /\ Cardinality(Others \cup Mine(k)) = Cardinality(Others) + k
  <2> TAKE k \in 0..Limit
  <2>1. IsFiniteSet(Mine(k)) /\ Cardinality(Mine(k)) = k /\ Others \cap Mine(k) = {}
    BY <1>3, <1>4
  <2> HIDE DEF Others, Mine
  <2> QED BY <1>2, <2>1, DisjointUnion
<1>6. Cardinality(Others) \in Nat /\ taken[r] \in 0..Limit
  BY <1>2, FS_CardinalityType
<1> HIDE DEF Others, Mine
<1> QED BY <1>1, <1>5, <1>6, FS_CardinalityType

(* The least element of a set of naturals.                                 *)
LEMMA LeastOfOrdered ==
  ASSUME NEW T \in SUBSET Nat, T # {}, NEW Below,
         IsWellFoundedOn(Below, Nat), \A x, y \in Nat : y < x => <<y, x>> \in Below
  PROVE  \E m \in T : \A k \in T : m <= k
<1>1. PICK m \in T : \A k \in T : <<k, m>> \notin Below
  BY WFMin
<1>2. \A k \in T : ~(k < m)
  BY <1>1
<1>3. \A k \in T : m <= k
  BY <1>2, SMT
<1> QED BY <1>3

LEMMA LeastOf ==
  ASSUME NEW T \in SUBSET Nat, T # {}
  PROVE  \E m \in T : \A k \in T : m <= k
<1>1. \A x, y \in Nat : y < x => <<y, x>> \in OpToRel(<, Nat)
  BY DEF OpToRel
<1> HIDE DEF OpToRel
<1> QED BY <1>1, NatLessThanWellFounded, LeastOfOrdered

(* The greatest element of a set of naturals that has a bound.             *)
LEMMA GreatestOf ==
  ASSUME NEW n \in Nat, NEW T \in SUBSET (0..n), T # {}
  PROVE  \E m \in T : \A k \in T : k <= m
<1> DEFINE Mirror == {n - k : k \in T}
<1>0. \A k \in T : k \in Nat /\ n - k \in Nat
  OBVIOUS
<1>1. Mirror \in SUBSET Nat /\ Mirror # {}
  BY <1>0
<1>2. PICK x \in Mirror : \A y \in Mirror : x <= y
  BY <1>1, LeastOf
<1>3. PICK m \in T : x = n - m
  OBVIOUS
<1>4. \A k \in T : n - m <= n - k
  BY <1>2, <1>3
<1> QED BY <1>0, <1>3, <1>4

(* A release of n slots wakes at most n waiters, none of them for a second *)
(* time.                                                                   *)
LEMMA WokenBounds ==
  ASSUME NEW w \in Seq(Run), NEW g, NEW n \in Nat
  PROVE  /\ Woken(w, g, n) \subseteq Run /\ Woken(w, g, n) \cap g = {}
         /\ IsFiniteSet(Woken(w, g, n))
         /\ Cardinality(Woken(w, g, n)) \in 0..n
<1> DEFINE I == {j \in DOMAIN w : w[j] \notin g /\ Cardinality(Ahead(w, g, j)) < n}
           f == [j \in I |-> w[j]]
<1>1. Len(w) \in Nat /\ DOMAIN w = 1..Len(w) /\ \A j \in DOMAIN w : w[j] \in Run
  OBVIOUS
<1>2. IsFiniteSet(I)
  <2>1. IsFiniteSet(1..Len(w))
    BY <1>1, FS_Interval
  <2> QED BY <1>1, <2>1, FS_Subset
<1>3. Cardinality(I) <= n
  <2>1. CASE I = {}
    <3> HIDE DEF I
    <3> QED BY <2>1, FS_EmptySet
  <2>2. CASE I # {}
    <3>1. PICK m \in I : \A k \in I : k <= m
      <4>1. I \in SUBSET (0..Len(w))
        BY <1>1
      <4> HIDE DEF I
      <4> QED BY <1>1, <2>2, <4>1, GreatestOf
    <3>2. I \ {m} \subseteq Ahead(w, g, m)
      BY <1>1, <3>1 DEF Ahead
    <3>3. IsFiniteSet(Ahead(w, g, m)) /\ Cardinality(Ahead(w, g, m)) < n
      <4>0. m - 1 \in Int
        BY <1>1
      <4>1. IsFiniteSet(1..(m - 1)) /\ Ahead(w, g, m) \subseteq 1..(m - 1)
        BY <4>0, UpTo DEF Ahead
      <4> QED BY <3>1, <4>1, FS_Subset
    <3>4. Cardinality(I \ {m}) = Cardinality(I) - 1
      BY <1>2, <3>1, FS_RemoveElement
    <3>5. /\ Cardinality(I \ {m}) <= Cardinality(Ahead(w, g, m))
          /\ Cardinality(Ahead(w, g, m)) \in Nat
      BY <3>2, <3>3, FS_Subset, FS_CardinalityType
    <3>6. Cardinality(I) \in Nat
      BY <1>2, FS_CardinalityType
    <3> HIDE DEF I
    <3> QED BY <3>3, <3>4, <3>5, <3>6
  <2> QED BY <2>1, <2>2
<1>4. Woken(w, g, n) = {w[j] : j \in I}
  BY DEF Woken
<1>5. f \in Surjection(I, Woken(w, g, n))
  BY <1>4 DEF Surjection
<1>6. IsFiniteSet(Woken(w, g, n)) /\ Cardinality(Woken(w, g, n)) <= Cardinality(I)
  <2> HIDE DEF I, f
  <2> QED BY <1>2, <1>5, FS_Surjection
<1>7. Cardinality(Woken(w, g, n)) \in Nat /\ Cardinality(I) \in Nat
  BY <1>2, <1>6, FS_CardinalityType
<1>8. Woken(w, g, n) \subseteq Run /\ Woken(w, g, n) \cap g = {}
  BY <1>1, <1>4
<1> HIDE DEF I, f
<1> QED BY <1>3, <1>6, <1>7, <1>8

(* What comes back goes to waiters or to the free slots, all of it.        *)
LEMMA ReleaseConserves ==
  ASSUME NEW w \in Seq(Run), NEW g, g \subseteq Run, IsFiniteSet(g),
         NEW v \in Nat, NEW n \in Nat, Release(n, v, w, g)
  PROVE  /\ waiters' \in Seq(Run)
         /\ granted' \subseteq Run /\ IsFiniteSet(granted')
         /\ Cardinality(granted') \in Nat
         /\ value' \in Nat
         /\ value' + Cardinality(granted') = v + n + Cardinality(g)
<1> DEFINE woken == Woken(w, g, n)
<1>1. /\ woken \subseteq Run /\ woken \cap g = {}
      /\ IsFiniteSet(woken) /\ Cardinality(woken) \in 0..n
  BY WokenBounds
<1>2. IsFiniteSet(g \cup woken) /\ Cardinality(g \cup woken) = Cardinality(g) + Cardinality(woken)
  <2>1. g \cap woken = {}
    BY <1>1
  <2> HIDE DEF woken
  <2> QED BY <1>1, <2>1, DisjointUnion
<1>3. Cardinality(g) \in Nat
  BY FS_CardinalityType
<1>4. waiters' = w /\ granted' = g \cup woken /\ value' = v + n - Cardinality(woken)
  BY DEF Release
<1> HIDE DEF woken
<1> QED BY <1>1, <1>2, <1>3, <1>4

(* A queue that somebody leaves is a queue.                                *)
LEMMA RemovedIsQueue ==
  ASSUME NEW S, NEW q \in Seq(S), NEW x
  PROVE  RemoveFirst(q, x) \in Seq(S)
<1>1. CASE \E i \in 1..Len(q) : q[i] = x
  <2> DEFINE I == {i \in 1..Len(q) : q[i] = x}
             i == SelectInSeq(q, LAMBDA v : v = x)
  <2>1. i = Min(I)
    BY <1>1 DEF SelectInSeq
  <2>2. Min(I) \in I
    <3>1. \E m \in I : \A k \in I : m <= k
      <4>1. I \in SUBSET Nat /\ I # {}
        BY <1>1
      <4> HIDE DEF I
      <4> QED BY <4>1, LeastOf
    <3> HIDE DEF I
    <3> QED BY <3>1 DEF Min
  <2>3. i \in 1..Len(q)
    BY <2>1, <2>2
  <2>4. SubSeq(q, 1, i - 1) \in Seq(S) /\ SubSeq(q, i + 1, Len(q)) \in Seq(S)
    <3> HIDE DEF i
    <3> QED BY <2>3
  <2>5. RemoveFirst(q, x) = SubSeq(q, 1, i - 1) \o SubSeq(q, i + 1, Len(q))
    BY <1>1 DEF RemoveFirst, RemoveAt
  <2> HIDE DEF i
  <2> QED BY <2>4, <2>5
<1>2. CASE ~\E i \in 1..Len(q) : q[i] = x
  BY <1>2 DEF RemoveFirst
<1> QED BY <1>1, <1>2
-----------------------------------------------------------------------------
(* What holds of the slots and of the cluster flag between two resumptions.*)
Balanced ==
  /\ IsFiniteSet(granted) /\ IsFiniteSet(Held)
  /\ value + Cardinality(granted) + Cardinality(Held) = Limit

TakenByStage ==
  \A r \in Run : /\ pc[r] \notin {"slot", "job"} => taken[r] = 0
                 /\ pc[r] = "slot" => taken[r] < Needs(r)
                 /\ pc[r] = "job" => taken[r] = Needs(r)

FlagIsRun ==
  /\ \A r \in Run : Running(r) /\ key[r] = GLOBAL => active[GLOBAL] = r
  /\ active[GLOBAL] # NoRun => Running(active[GLOBAL]) /\ key[active[GLOBAL]] = GLOBAL

QueueInv == QueueTypeOK /\ Balanced /\ TakenByStage /\ FlagIsRun

(* All slots in one hand leave none for anybody else.                      *)
LEMMA AllTaken ==
  ASSUME QueueTypeOK, Balanced, NEW r \in Run, taken[r] = Limit,
         NEW s \in Run, s # r
  PROVE  taken[s] = 0
<1>1. Limit \in Nat \ {0} /\ taken[s] \in 0..Limit /\ value \in 0..Limit
  BY QueueAssumption DEF QueueTypeOK
<1> SUFFICES ASSUME taken[s] # 0 PROVE FALSE
  OBVIOUS
<1> DEFINE Mine == {r} \X (1..Limit)
           More == Mine \cup {<<s, 1>>}
<1>2. More \subseteq Held
  BY <1>1 DEF Held
<1>3. IsFiniteSet(Mine) /\ Cardinality(Mine) = Limit
  BY <1>1, ColumnOf
<1>4. <<s, 1>> \notin Mine
  OBVIOUS
<1>5. IsFiniteSet(More) /\ Cardinality(More) = Limit + 1
  <2> HIDE DEF Mine
  <2> QED BY <1>3, <1>4, FS_AddElement
<1>6. Cardinality(More) <= Cardinality(Held)
  <2> HIDE DEF More
  <2> QED BY <1>2, FS_Subset DEF Balanced
<1>7. Cardinality(Held) \in Nat /\ Cardinality(granted) \in Nat
  BY FS_CardinalityType DEF Balanced
<1> HIDE DEF More
<1> QED BY <1>1, <1>5, <1>6, <1>7 DEF Balanced

LEMMA AloneByCount ==
  (QueueTypeOK /\ Balanced /\ TakenByStage) => ClusterAlone
<1> SUFFICES ASSUME QueueTypeOK, Balanced, TakenByStage PROVE ClusterAlone
  OBVIOUS
<1> SUFFICES ASSUME NEW r \in Run, NEW s \in Run, Running(r), key[r] = GLOBAL,
                    r # s, Running(s)
             PROVE  FALSE
  BY DEF ClusterAlone
<1>1. taken[r] = Limit
  BY DEF TakenByStage, Running, Needs, Exclusive
<1>2. taken[s] = 0
  BY <1>1, AllTaken
<1> QED BY <1>2, QueueAssumption DEF TakenByStage, Running, Needs

(* What a run takes when it goes on comes from the free slots, and what it *)
(* had when it leaves goes back.                                           *)
LEMMA TakeBalances ==
  ASSUME QueueTypeOK, IsFiniteSet(Held), NEW r \in Run, NEW current,
         NEW have \in 0..Needs(r), NEW v \in Nat, NEW w \in Seq(Run),
         NEW g, g \subseteq Run, IsFiniteSet(g),
         v + Cardinality(g) + Cardinality(Held) - taken[r] + have = Limit,
         Take(r, have, current, v, w, g)
  PROVE  /\ waiters' \in Seq(Run) /\ granted' \subseteq Run /\ value' \in Nat
         /\ clusterLock' \in Run \cup {NoRun}
         /\ Balanced'
         /\ \E p \in {"slot", "job", "skipped"}, n \in 0..Limit :
              /\ pc' = [pc EXCEPT ![r] = p] /\ taken' = [taken EXCEPT ![r] = n]
              /\ p = "slot" => n < Needs(r)
              /\ p = "job" => n = Needs(r)
              /\ p = "skipped" => n = 0 /\ ~current
              /\ active' = IF p = "job" THEN [active EXCEPT ![key[r]] = r] ELSE active
<1> DEFINE n == IF w = << >> THEN Lower(v, Needs(r) - have) ELSE 0
<1>1. /\ Limit \in Nat \ {0} /\ Needs(r) \in 1..Limit
      /\ have \in Nat /\ have <= Needs(r)
      /\ taken[r] \in 0..Limit /\ taken \in [Run -> 0..Limit]
      /\ clusterLock \in Run \cup {NoRun}
  BY QueueAssumption DEF QueueTypeOK, Needs
<1>2. Cardinality(g) \in Nat /\ Cardinality(Held) \in Nat
  BY FS_CardinalityType
<1>3. n \in Nat /\ n <= v /\ have + n <= Needs(r)
  BY <1>1 DEF Lower
<1>4. CASE have + n < Needs(r)
  <2>1. /\ pc' = [pc EXCEPT ![r] = "slot"] /\ taken' = [taken EXCEPT ![r] = have + n]
        /\ clusterLock' = IF Exclusive(r) THEN r ELSE clusterLock
        /\ value' = v - n /\ waiters' = Append(w, r) /\ granted' = g /\ active' = active
    <3>1. ~(have + n = Needs(r))
      BY <1>1, <1>3, <1>4
    <3> HIDE DEF n
    <3> QED BY <1>4, <3>1, Zenon DEF Take, n
  <2> HIDE DEF n
  <2>2. have + n \in 0..Limit
    BY <1>1, <1>3, <1>4
  <2>3. /\ IsFiniteSet(Held')
        /\ Cardinality(Held') = Cardinality(Held) - taken[r] + (have + n)
    BY <1>1, <2>1, <2>2, HeldChange
  <2>4. Balanced'
    <3>1. value' + Cardinality(g) + Cardinality(Held') = Limit
      BY <1>1, <1>2, <1>3, <2>1, <2>3
    <3> QED BY <2>1, <2>3, <3>1 DEF Balanced
  <2>5. value' \in Nat /\ waiters' \in Seq(Run) /\ clusterLock' \in Run \cup {NoRun}
    BY <1>1, <1>3, <2>1
  <2> QED BY <1>4, <2>1, <2>2, <2>4, <2>5
<1>5. CASE have + n = Needs(r) /\ current
  <2>1. /\ pc' = [pc EXCEPT ![r] = "job"] /\ taken' = [taken EXCEPT ![r] = have + n]
        /\ clusterLock' = IF Exclusive(r) THEN r ELSE clusterLock
        /\ value' = v - n /\ waiters' = w /\ granted' = g
        /\ active' = [active EXCEPT ![key[r]] = r]
    <3>1. ~(have + n < Needs(r))
      BY <1>1, <1>5
    <3> HIDE DEF n
    <3> QED BY <1>5, <3>1, Zenon DEF Take, n
  <2> HIDE DEF n
  <2>2. have + n \in 0..Limit
    BY <1>1, <1>3
  <2>3. /\ IsFiniteSet(Held')
        /\ Cardinality(Held') = Cardinality(Held) - taken[r] + (have + n)
    BY <1>1, <2>1, <2>2, HeldChange
  <2>4. Balanced'
    <3>1. value' + Cardinality(g) + Cardinality(Held') = Limit
      BY <1>1, <1>2, <1>3, <2>1, <2>3
    <3> QED BY <2>1, <2>3, <3>1 DEF Balanced
  <2>5. value' \in Nat /\ waiters' \in Seq(Run) /\ clusterLock' \in Run \cup {NoRun}
    BY <1>1, <1>3, <2>1
  <2> QED BY <1>5, <2>1, <2>2, <2>4, <2>5
<1>6. CASE ~(have + n < Needs(r)) /\ ~(have + n = Needs(r) /\ current)
  <2>1. Leave(r, "skipped") /\ Release(have, v, w, g) /\ active' = active
    BY <1>6, Zenon DEF Take
  <2> HIDE DEF n
  <2>2. /\ pc' = [pc EXCEPT ![r] = "skipped"] /\ taken' = [taken EXCEPT ![r] = 0]
        /\ clusterLock' \in Run \cup {NoRun}
    BY <1>1, <2>1 DEF Leave
  <2>3. /\ waiters' \in Seq(Run) /\ granted' \subseteq Run /\ IsFiniteSet(granted')
        /\ Cardinality(granted') \in Nat /\ value' \in Nat
        /\ value' + Cardinality(granted') = v + have + Cardinality(g)
    BY <1>1, <2>1, ReleaseConserves
  <2>4. IsFiniteSet(Held') /\ Cardinality(Held') = Cardinality(Held) - taken[r] + 0
    <3>1. 0 \in 0..Limit
      BY <1>1
    <3> QED BY <1>1, <2>2, <3>1, HeldChange
  <2>5. Balanced'
    <3>1. value' + Cardinality(granted') + Cardinality(Held') = Limit
      BY <1>1, <1>2, <2>3, <2>4
    <3> QED BY <2>3, <2>4, <3>1 DEF Balanced
  <2>6. 0 \in 0..Limit /\ ~current
    BY <1>1, <1>3, <1>6
  <2> QED BY <2>1, <2>2, <2>3, <2>5, <2>6
<1> QED BY <1>4, <1>5, <1>6
-----------------------------------------------------------------------------
(* Where one run went and what it holds there decides the rest.            *)
LEMMA MovedOne ==
  ASSUME QueueInv, NEW r \in Run, NEW n \in 0..Limit,
         NEW p \in {"lock", "slot", "job", "done", "skipped", "cancelled"},
         pc' = [pc EXCEPT ![r] = p], taken' = [taken EXCEPT ![r] = n],
         p = "slot" => n < Needs(r),
         p = "job" => n = Needs(r) /\ pc[r] # "job",
         p \notin {"slot", "job"} => n = 0,
         active' = IF p = "job" THEN [active EXCEPT ![key[r]] = r]
                   ELSE IF pc[r] = "job" THEN [active EXCEPT ![key[r]] = NoRun]
                   ELSE active,
         key' = key, Balanced',
         generations' \in [Key -> Nat], generation' \in [Run -> Nat],
         waiters' \in Seq(Run), lockQueue' \in Seq(Run), granted' \subseteq Run,
         value' \in Nat, clusterLock' \in Run \cup {NoRun}
  PROVE  QueueInv'
<1>1. value' \in 0..Limit
  <2>1. Cardinality(granted)' \in Nat /\ Cardinality(Held)' \in Nat
    BY FS_CardinalityType DEF Balanced
  <2> QED BY <2>1, QueueAssumption DEF Balanced
<1>2. QueueTypeOK'
  <2>1. taken' \in [Run -> 0..Limit]
    BY DEF QueueInv, QueueTypeOK
  <2>2. pc' \in [Run -> {"new", "lock", "slot", "job", "done", "skipped", "cancelled"}]
    BY DEF QueueInv, QueueTypeOK
  <2>3. active' \in [Key -> Run \cup {NoRun}] /\ key' \in [Run -> Key]
    BY DEF QueueInv, QueueTypeOK
  <2> QED BY <1>1, <2>1, <2>2, <2>3 DEF QueueTypeOK
<1>3. TakenByStage'
  BY DEF QueueInv, QueueTypeOK, TakenByStage, Needs, Exclusive
<1>4. ClusterAlone'
  BY <1>2, <1>3, AloneByCount, PTL
<1>5. FlagIsRun'
  <2>1. key[r] \in Key /\ GLOBAL \in Key /\ NoRun \notin Run /\ active[GLOBAL] \in Run \cup {NoRun}
    BY QueueAssumption DEF QueueInv, QueueTypeOK, Key
  <2>2. ASSUME NEW q \in Run, Running(q)', key[q] = GLOBAL PROVE active'[GLOBAL] = q
    <3>1. CASE q = r
      BY <2>1, <2>2, <3>1 DEF QueueInv, QueueTypeOK, Running
    <3>2. CASE q # r
      <4>1. Running(q) /\ active[GLOBAL] = q
        BY <2>2, <3>2 DEF QueueInv, QueueTypeOK, FlagIsRun, Running
      <4>2. ~Running(r)'
        BY <1>4, <2>2, <3>2 DEF ClusterAlone
      <4>3. ~(pc[r] = "job" /\ key[r] = GLOBAL)
        BY <3>2, <4>1 DEF QueueInv, FlagIsRun, Running
      <4> QED BY <2>1, <4>1, <4>2, <4>3 DEF QueueInv, QueueTypeOK, Running
    <3> QED BY <3>1, <3>2
  <2>3. ASSUME active'[GLOBAL] # NoRun
        PROVE  Running(active[GLOBAL])' /\ key[active'[GLOBAL]] = GLOBAL
    BY <2>1, <2>3 DEF QueueInv, QueueTypeOK, FlagIsRun, Running
  <2> QED BY <2>2, <2>3 DEF FlagIsRun
<1> QED BY <1>2, <1>3, <1>5 DEF QueueInv

(* A request counts its key up.                                            *)
LEMMA BumpedType ==
  ASSUME QueueTypeOK, NEW k \in Key
  PROVE  Bumped(k) \in [Key -> Nat]
BY DEF QueueTypeOK, Bumped

(* Only who is outdated leaves instead of going on.                        *)
Went(r, current) ==
  \E p \in {"lock", "slot", "job", "skipped"} :
    /\ pc' = [pc EXCEPT ![r] = p]
    /\ p = "skipped" => ~current

LEMMA AfterTake ==
  ASSUME QueueInv, NEW r \in Run, pc[r] # "job", NEW current,
         NEW have \in 0..Needs(r), NEW v \in Nat, NEW w \in Seq(Run),
         NEW g, g \subseteq Run, IsFiniteSet(g),
         v + Cardinality(g) + Cardinality(Held) - taken[r] + have = Limit,
         Take(r, have, current, v, w, g),
         key' = key, lockQueue' \in Seq(Run),
         generations' \in [Key -> Nat], generation' \in [Run -> Nat]
  PROVE  QueueInv' /\ Went(r, current)
<1>1. QueueTypeOK /\ IsFiniteSet(Held)
  BY DEF QueueInv, Balanced
<1>2. /\ waiters' \in Seq(Run) /\ granted' \subseteq Run /\ value' \in Nat
      /\ clusterLock' \in Run \cup {NoRun}
      /\ Balanced'
      /\ \E p \in {"slot", "job", "skipped"}, n \in 0..Limit :
           /\ pc' = [pc EXCEPT ![r] = p] /\ taken' = [taken EXCEPT ![r] = n]
           /\ p = "slot" => n < Needs(r)
           /\ p = "job" => n = Needs(r)
           /\ p = "skipped" => n = 0 /\ ~current
           /\ active' = IF p = "job" THEN [active EXCEPT ![key[r]] = r] ELSE active
  BY <1>1, TakeBalances
<1>3. PICK p \in {"slot", "job", "skipped"}, n \in 0..Limit :
           /\ pc' = [pc EXCEPT ![r] = p] /\ taken' = [taken EXCEPT ![r] = n]
           /\ p = "slot" => n < Needs(r)
           /\ p = "job" => n = Needs(r)
           /\ p = "skipped" => n = 0 /\ ~current
           /\ active' = IF p = "job" THEN [active EXCEPT ![key[r]] = r] ELSE active
  BY <1>2
<1>4. Went(r, current)
  BY <1>3 DEF Went
<1> QED BY <1>2, <1>3, <1>4, MovedOne

-----------------------------------------------------------------------------
LEMMA RequestInv ==
  ASSUME QueueInv, NEW r \in Run, Request(r)
  PROVE  QueueInv' /\ Went(r, TRUE)
<1>1. pc[r] = "new" /\ taken[r] = 0 /\ key' = key
  BY DEF Request, QueueInv, TakenByStage
<1>2. generations' \in [Key -> Nat] /\ generation' \in [Run -> Nat]
  <2>1. generations' \in [Key -> Nat] /\ key[r] \in Key
    BY BumpedType DEF Request, QueueInv, QueueTypeOK
  <2> QED BY <2>1 DEF Request, QueueInv, QueueTypeOK
<1>3. CASE Exclusive(r) /\ (clusterLock # NoRun \/ lockQueue # << >>)
  <2>1. /\ lockQueue' = Append(lockQueue, r) /\ pc' = [pc EXCEPT ![r] = "lock"]
        /\ UNCHANGED <<active, value, waiters, granted, clusterLock, taken>>
    BY <1>3 DEF Request
  <2>2. taken' = [taken EXCEPT ![r] = 0] /\ 0 \in 0..Limit
    BY <1>1, <2>1, QueueAssumption DEF QueueInv, QueueTypeOK
  <2>3. Balanced'
    BY <2>1 DEF QueueInv, Balanced, Held
  <2>4. lockQueue' \in Seq(Run)
    BY <2>1 DEF QueueInv, QueueTypeOK
  <2>5. /\ waiters' \in Seq(Run) /\ granted' \subseteq Run
        /\ value' \in Nat /\ clusterLock' \in Run \cup {NoRun}
    BY <2>1, QueueAssumption DEF QueueInv, QueueTypeOK
  <2>6. Went(r, TRUE)
    BY <2>1 DEF Went
  <2> QED BY <1>1, <1>2, <2>1, <2>2, <2>3, <2>4, <2>5, <2>6, MovedOne
<1>4. CASE ~(Exclusive(r) /\ (clusterLock # NoRun \/ lockQueue # << >>))
  <2>1. Take(r, 0, TRUE, value, waiters, granted) /\ lockQueue' = lockQueue
    BY <1>4 DEF Request
  <2>2. /\ value \in Nat /\ waiters \in Seq(Run) /\ granted \subseteq Run
        /\ lockQueue' \in Seq(Run) /\ IsFiniteSet(granted) /\ 0 \in 0..Needs(r)
    BY <2>1, QueueAssumption DEF QueueInv, QueueTypeOK, Balanced, Needs
  <2>3. value + Cardinality(granted) + Cardinality(Held) - taken[r] + 0 = Limit
    <3>1. Cardinality(granted) \in Nat /\ Cardinality(Held) \in Nat
      BY FS_CardinalityType DEF QueueInv, Balanced
    <3> QED BY <1>1, <2>2, <3>1 DEF QueueInv, Balanced
  <2> QED BY <1>1, <1>2, <2>1, <2>2, <2>3, AfterTake
<1> QED BY <1>3, <1>4

LEMMA LockAcquiredInv ==
  ASSUME QueueInv, NEW r \in Run, LockAcquired(r)
  PROVE  QueueInv' /\ Went(r, IsCurrent(r))
<1>1. /\ pc[r] = "lock" /\ taken[r] = 0 /\ key' = key
      /\ generations' \in [Key -> Nat] /\ generation' \in [Run -> Nat]
  BY DEF LockAcquired, QueueInv, QueueTypeOK, TakenByStage
<1>2. Take(r, 0, IsCurrent(r), value, waiters, granted) /\ lockQueue' \in Seq(Run)
  BY DEF LockAcquired, QueueInv, QueueTypeOK
<1>3. /\ value \in Nat /\ waiters \in Seq(Run) /\ granted \subseteq Run
      /\ IsFiniteSet(granted) /\ 0 \in 0..Needs(r)
  BY QueueAssumption DEF QueueInv, QueueTypeOK, Balanced, Needs
<1>4. value + Cardinality(granted) + Cardinality(Held) - taken[r] + 0 = Limit
  <2>1. Cardinality(granted) \in Nat /\ Cardinality(Held) \in Nat
    BY FS_CardinalityType DEF QueueInv, Balanced
  <2> QED BY <1>1, <1>3, <2>1 DEF QueueInv, Balanced
<1> QED BY <1>1, <1>2, <1>3, <1>4, AfterTake

(* The granted slot becomes a held one; one that is free goes on.          *)
LEMMA SlotAcquiredInv ==
  ASSUME QueueInv, NEW r \in Run, SlotAcquired(r)
  PROVE  QueueInv' /\ Went(r, IsCurrent(r))
<1> DEFINE w == RemoveFirst(waiters, r)
           g == granted \ {r}
           woken == Woken(w, g, Lower(value, 1))
           v == value - Cardinality(woken)
           h == g \cup woken
<1>1. /\ pc[r] = "slot" /\ r \in granted /\ key' = key /\ lockQueue' \in Seq(Run)
      /\ generations' \in [Key -> Nat] /\ generation' \in [Run -> Nat]
      /\ Take(r, taken[r] + 1, IsCurrent(r), v, w, h)
  BY DEF SlotAcquired, QueueInv, QueueTypeOK
<1>2. taken[r] + 1 \in 0..Needs(r) /\ taken[r] \in Nat /\ value \in Nat /\ Limit \in Nat
  BY <1>1, QueueAssumption DEF QueueInv, QueueTypeOK, TakenByStage, Needs
<1>3. w \in Seq(Run)
  BY RemovedIsQueue DEF QueueInv, QueueTypeOK
<1>4. /\ IsFiniteSet(g) /\ g \subseteq Run
      /\ Cardinality(g) = Cardinality(granted) - 1
      /\ Cardinality(granted) \in Nat /\ Cardinality(g) \in Nat
  BY <1>1, FS_RemoveElement, FS_CardinalityType DEF QueueInv, QueueTypeOK, Balanced
<1>5. /\ Lower(value, 1) \in Nat /\ Lower(value, 1) <= value
  BY <1>2 DEF Lower
<1>6. /\ woken \subseteq Run /\ woken \cap g = {} /\ IsFiniteSet(woken)
      /\ Cardinality(woken) \in 0..Lower(value, 1)
  <2> HIDE DEF w, g
  <2> QED BY <1>3, <1>5, WokenBounds
<1>7. v \in Nat
  BY <1>2, <1>5, <1>6
<1>8. /\ IsFiniteSet(h) /\ h \subseteq Run
      /\ Cardinality(h) = Cardinality(g) + Cardinality(woken)
  <2> HIDE DEF g, woken
  <2>1. g \cap woken = {}
    BY <1>6
  <2> QED BY <1>4, <1>6, <2>1, DisjointUnion
<1>9. v + Cardinality(h) + Cardinality(Held) - taken[r] + (taken[r] + 1) = Limit
  <2>1. Cardinality(Held) \in Nat
    BY FS_CardinalityType DEF QueueInv, Balanced
  <2>2. value + Cardinality(granted) + Cardinality(Held) = Limit
    BY DEF QueueInv, Balanced
  <2> HIDE DEF g, woken, h
  <2> QED BY <1>2, <1>4, <1>5, <1>6, <1>8, <2>1, <2>2
<1> HIDE DEF w, g, woken, v, h
<1> QED BY <1>1, <1>2, <1>3, <1>7, <1>8, <1>9, AfterTake

(* What a run held, and what was granted to it, goes back as it leaves.    *)
LEMMA AfterLeave ==
  ASSUME QueueInv, NEW r \in Run, NEW p \in {"done", "cancelled"}, NEW n \in Nat,
         NEW w \in Seq(Run), NEW g, g \subseteq Run, IsFiniteSet(g),
         value + Cardinality(g) + n + Cardinality(Held) - taken[r] = Limit,
         Release(n, value, w, g), Leave(r, p),
         active' = IF pc[r] = "job" THEN [active EXCEPT ![key[r]] = NoRun] ELSE active,
         key' = key, lockQueue' \in Seq(Run),
         generations' \in [Key -> Nat], generation' \in [Run -> Nat]
  PROVE  QueueInv'
<1>1. /\ value \in Nat /\ Limit \in Nat /\ taken[r] \in 0..Limit
      /\ taken \in [Run -> 0..Limit] /\ 0 \in 0..Limit /\ IsFiniteSet(Held)
  BY QueueAssumption DEF QueueInv, QueueTypeOK, Balanced
<1>2. /\ waiters' \in Seq(Run) /\ granted' \subseteq Run /\ IsFiniteSet(granted')
      /\ Cardinality(granted') \in Nat /\ value' \in Nat
      /\ value' + Cardinality(granted') = value + n + Cardinality(g)
  BY <1>1, ReleaseConserves
<1>3. /\ pc' = [pc EXCEPT ![r] = p] /\ taken' = [taken EXCEPT ![r] = 0]
      /\ clusterLock' \in Run \cup {NoRun}
  BY DEF Leave, QueueInv, QueueTypeOK
<1>4. IsFiniteSet(Held') /\ Cardinality(Held') = Cardinality(Held) - taken[r] + 0
  BY <1>1, <1>3, HeldChange
<1>5. Balanced'
  <2>1. Cardinality(g) \in Nat /\ Cardinality(Held) \in Nat
    BY <1>1, FS_CardinalityType
  <2>2. value' + Cardinality(granted') + Cardinality(Held') = Limit
    BY <1>1, <1>2, <1>4, <2>1
  <2> QED BY <1>2, <1>4, <2>2 DEF Balanced
<1> QED BY <1>1, <1>2, <1>3, <1>5, MovedOne

LEMMA JobEndsInv ==
  ASSUME QueueInv, NEW r \in Run, JobEnds(r)
  PROVE  QueueInv'
<1>1. /\ pc[r] = "job" /\ key' = key /\ lockQueue' \in Seq(Run)
      /\ generations' \in [Key -> Nat] /\ generation' \in [Run -> Nat]
      /\ active' = [active EXCEPT ![key[r]] = NoRun]
      /\ Release(taken[r], value, waiters, granted) /\ Leave(r, "done")
  BY DEF JobEnds, QueueInv, QueueTypeOK
<1>2. /\ taken[r] \in Nat /\ waiters \in Seq(Run) /\ granted \subseteq Run
      /\ IsFiniteSet(granted) /\ value \in Nat
  BY QueueAssumption DEF QueueInv, QueueTypeOK, Balanced
<1>3. value + Cardinality(granted) + taken[r] + Cardinality(Held) - taken[r] = Limit
  <2>1. Cardinality(granted) \in Nat /\ Cardinality(Held) \in Nat
    BY FS_CardinalityType DEF QueueInv, Balanced
  <2> QED BY <1>2, <2>1 DEF QueueInv, Balanced
<1> QED BY <1>1, <1>2, <1>3, AfterLeave

LEMMA CancelInv ==
  ASSUME QueueInv, NEW r \in Run, Cancel(r)
  PROVE  QueueInv'
<1> DEFINE w == RemoveFirst(waiters, r)
           g == granted \ {r}
           n == taken[r] + (IF r \in granted THEN 1 ELSE 0)
<1>1. /\ key' = key /\ lockQueue' = RemoveFirst(lockQueue, r)
      /\ generations' \in [Key -> Nat] /\ generation' \in [Run -> Nat]
      /\ active' = IF pc[r] = "job" THEN [active EXCEPT ![key[r]] = NoRun] ELSE active
      /\ Release(n, value, w, g) /\ Leave(r, "cancelled")
  BY DEF Cancel, QueueInv, QueueTypeOK
<1>2. taken[r] \in Nat /\ value \in Nat /\ n \in Nat
  BY QueueAssumption DEF QueueInv, QueueTypeOK
<1>3. w \in Seq(Run) /\ lockQueue' \in Seq(Run)
  BY <1>1, RemovedIsQueue DEF QueueInv, QueueTypeOK
<1>4. IsFiniteSet(g) /\ g \subseteq Run
  BY FS_Subset DEF QueueInv, QueueTypeOK, Balanced
<1>5. value + Cardinality(g) + n + Cardinality(Held) - taken[r] = Limit
  <2>1. Cardinality(granted) \in Nat /\ Cardinality(Held) \in Nat
    BY FS_CardinalityType DEF QueueInv, Balanced
  <2>2. value + Cardinality(granted) + Cardinality(Held) = Limit
    BY DEF QueueInv, Balanced
  <2>3. CASE r \in granted
    <3>1. Cardinality(g) = Cardinality(granted) - 1
      BY <2>3, FS_RemoveElement DEF QueueInv, Balanced
    <3> HIDE DEF g
    <3> QED BY <1>2, <2>1, <2>2, <2>3, <3>1
  <2>4. CASE r \notin granted
    <3>1. g = granted
      BY <2>4
    <3> HIDE DEF g
    <3> QED BY <1>2, <2>1, <2>2, <2>4, <3>1
  <2> QED BY <2>3, <2>4
<1> HIDE DEF w, g, n
<1> QED BY <1>1, <1>2, <1>3, <1>4, <1>5, AfterLeave

LEMMA QueueInitInv ==
  ASSUME QueueInit
  PROVE  QueueInv
<1>1. Held = {}
  BY QueueAssumption DEF QueueInit, Held
<1>2. QueueTypeOK
  BY QueueAssumption DEF QueueInit, QueueTypeOK, Key
<1>3. Balanced
  <2>1. granted = {} /\ value = Limit /\ Limit \in Nat
    BY QueueAssumption DEF QueueInit
  <2> QED BY <1>1, <2>1, FS_EmptySet DEF Balanced
<1>4. TakenByStage /\ FlagIsRun
  BY QueueAssumption DEF QueueInit, TakenByStage, FlagIsRun, Running, Key
<1> QED BY <1>2, <1>3, <1>4 DEF QueueInv

LEMMA QueueStep ==
  ASSUME QueueInv, [QueueNext]_queueVars
  PROVE  QueueInv'
<1>1. CASE UNCHANGED queueVars
  BY <1>1 DEF QueueInv, QueueTypeOK, Balanced, Held, TakenByStage, FlagIsRun, Running,
              Needs, Exclusive, queueVars
<1>2. ASSUME NEW r \in Run,
             Request(r) \/ LockAcquired(r) \/ SlotAcquired(r) \/ JobEnds(r) \/ Cancel(r)
      PROVE  QueueInv'
  BY <1>2, RequestInv, LockAcquiredInv, SlotAcquiredInv, JobEndsInv, CancelInv
<1> QED BY <1>1, <1>2 DEF QueueNext

-----------------------------------------------------------------------------
(* The inductive invariant of the queue.                                   *)
THEOREM QueueInvariant == QueueSpec => []QueueInv
<1>1. QueueInit => QueueInv
  BY QueueInitInv
<1>2. QueueInv /\ [QueueNext]_queueVars => QueueInv'
  BY QueueStep
<1> QED BY <1>1, <1>2, PTL DEF QueueSpec

(* No slot is lost or doubled over waits, hand-offs and cancellations.     *)
THEOREM SlotsAreConserved == QueueSpec => []SlotsConserved
<1>1. QueueInv => SlotsConserved
  BY DEF QueueInv, Balanced, SlotsConserved
<1> QED BY <1>1, QueueInvariant, PTL

(* Who works for the cluster works alone: it holds every slot there is.    *)
THEOREM ClusterWorksAlone == QueueSpec => []ClusterAlone
<1>1. QueueInv => ClusterAlone
  BY AloneByCount DEF QueueInv
<1> QED BY <1>1, QueueInvariant, PTL

(* cluster_running() is true exactly while a cluster job works.            *)
THEOREM ClusterFlagIsTrue == QueueSpec => []ClusterFlagTrue
<1>1. QueueInv => ClusterFlagTrue
  <2> SUFFICES ASSUME QueueInv PROVE ClusterFlagTrue
    OBVIOUS
  <2>1. active[GLOBAL] \in Run \cup {NoRun} /\ NoRun \notin Run
    BY QueueAssumption DEF QueueInv, QueueTypeOK, Key
  <2> QED BY <2>1 DEF QueueInv, FlagIsRun, ClusterFlagTrue
<1> QED BY <1>1, QueueInvariant, PTL
-----------------------------------------------------------------------------
(* Who waits.  The queues hold the runs that wait, each once; a slot is    *)
(* free while somebody waits only if a waiter has been granted one and     *)
(* will pass it on (_wake_up_next); and the lock is held by the cluster    *)
(* run that has slots or wants them.                                       *)
Waiting ==
  /\ IsInjective(waiters) /\ IsInjective(lockQueue)
  /\ \A r \in Run : pc[r] = "slot" <=> r \in Range(waiters)
  /\ \A r \in Run : pc[r] = "lock" <=> r \in Range(lockQueue)
  /\ granted \subseteq Range(waiters)

Handed == (granted = {} /\ waiters # << >>) => value = 0

LockHeld ==
  /\ \A r \in Run : (pc[r] \in {"slot", "job"} /\ Exclusive(r)) => clusterLock = r
  /\ clusterLock # NoRun => pc[clusterLock] \in {"slot", "job"}

OrderInv == Waiting /\ Handed /\ LockHeld

(* The guards of JobEnds, SlotAcquired and LockAcquired.                   *)
GoesOn(r) ==
  \/ pc[r] = "job"
  \/ pc[r] = "slot" /\ r \in granted
  \/ pc[r] = "lock" /\ clusterLock = NoRun /\ lockQueue # << >> /\ Head(lockQueue) = r

NobodyStuck == (\E r \in Run : pc[r] \in {"lock", "slot"}) => \E r \in Run : GoesOn(r)

(* A sequence without its k-th element.                                    *)
LEMMA Removed ==
  ASSUME NEW S, NEW q \in Seq(S), NEW k \in 1..Len(q), NEW w, w = RemoveAt(q, k)
  PROVE  /\ w \in Seq(S) /\ Len(w) = Len(q) - 1
         /\ \A i \in 1..(Len(q) - 1) : w[i] = IF i < k THEN q[i] ELSE q[i + 1]
<1> SUFFICES ASSUME NEW n \in Nat, n = Len(q)
             PROVE  /\ w \in Seq(S) /\ Len(w) = n - 1
                    /\ \A i \in 1..(n - 1) : w[i] = IF i < k THEN q[i] ELSE q[i + 1]
  OBVIOUS
<1> DEFINE a == SubSeq(q, 1, k - 1)
           b == SubSeq(q, k + 1, n)
<1>1. \A i \in 1..n : q[i] \in S
  OBVIOUS
<1>2. a \in Seq(S) /\ Len(a) = k - 1 /\ \A i \in 1..(k - 1) : a[i] = q[i]
  OBVIOUS
<1>3. b \in Seq(S) /\ Len(b) = n - k /\ \A i \in 1..(n - k) : b[i] = q[i + k]
  <2>1. \A i \in (k + 1)..n : q[i] \in S
    BY <1>1
  <2>2. /\ b \in Seq(S) /\ Len(b) = IF k + 1 <= n THEN n - (k + 1) + 1 ELSE 0
        /\ \A i \in 1..(n - (k + 1) + 1) : b[i] = q[k + 1 + i - 1]
    BY <2>1, SubSeqProperties
  <2> HIDE DEF b
  <2>3. \A i \in 1..(n - k) : i \in 1..(n - (k + 1) + 1) /\ k + 1 + i - 1 = i + k
    OBVIOUS
  <2>4. (IF k + 1 <= n THEN n - (k + 1) + 1 ELSE 0) = n - k
    OBVIOUS
  <2>5. ASSUME NEW i \in 1..(n - k) PROVE b[i] = q[i + k]
    <3>1. b[i] = q[k + 1 + i - 1]
      BY <2>2, <2>3
    <3>2. k + 1 + i - 1 = i + k
      BY <2>3
    <3> QED BY <3>1, <3>2, Zenon
  <2> QED BY <2>2, <2>4, <2>5
<1>4. RemoveAt(q, k) = a \o b
  BY DEF RemoveAt
<1> HIDE DEF a, b
<1>5. /\ a \o b \in Seq(S) /\ Len(a \o b) = Len(a) + Len(b)
      /\ \A i \in 1..(Len(a) + Len(b)) : (a \o b)[i] = IF i <= Len(a) THEN a[i] ELSE b[i - Len(a)]
  BY <1>2, <1>3, ConcatProperties
<1>6. Len(a) + Len(b) = n - 1
  BY <1>2, <1>3
<1>7. ASSUME NEW i \in 1..(n - 1)
      PROVE  (a \o b)[i] = IF i < k THEN q[i] ELSE q[i + 1]
  <2>1. CASE i < k
    BY <1>2, <1>5, <1>6, <2>1
  <2>2. CASE ~(i < k)
    <3>1. i - (k - 1) \in 1..(n - k) /\ i - (k - 1) + k = i + 1 /\ ~(i <= k - 1)
      BY <2>2
    <3>2. (a \o b)[i] = b[i - (k - 1)]
      BY <1>2, <1>5, <1>6, <3>1
    <3>3. b[i - (k - 1)] = q[i - (k - 1) + k]
      BY <1>3, <3>1
    <3> QED BY <2>2, <3>1, <3>2, <3>3
  <2> QED BY <2>1, <2>2
<1> QED BY <1>4, <1>5, <1>6, <1>7

(* A queue that holds everybody once, as somebody joins and leaves it.     *)
LEMMA Joined ==
  ASSUME NEW S, NEW q \in Seq(S), NEW x \in S, IsInjective(q), x \notin Range(q)
  PROVE  IsInjective(Append(q, x)) /\ Range(Append(q, x)) = Range(q) \cup {x}
<1>1. /\ DOMAIN Append(q, x) = 1..(Len(q) + 1) /\ DOMAIN q = 1..Len(q) /\ Len(q) \in Nat
      /\ Append(q, x)[Len(q) + 1] = x
      /\ \A i \in 1..Len(q) : Append(q, x)[i] = q[i]
  OBVIOUS
<1>2. \A i \in 1..(Len(q) + 1) : i \in 1..Len(q) \/ i = Len(q) + 1
  BY <1>1
<1>3. Range(Append(q, x)) = Range(q) \cup {x}
  BY <1>1, <1>2 DEF Range
<1>4. IsInjective(Append(q, x))
  BY DEF IsInjective, Range
<1> QED BY <1>3, <1>4

LEMMA FirstAt ==
  ASSUME NEW S, NEW q \in Seq(S), NEW x \in Range(q)
  PROVE  \E k \in 1..Len(q) : q[k] = x /\ RemoveFirst(q, x) = RemoveAt(q, k)
<1> DEFINE I == {i \in 1..Len(q) : q[i] = x}
           k == SelectInSeq(q, LAMBDA v : v = x)
<1>1. DOMAIN q = 1..Len(q) /\ \E i \in 1..Len(q) : q[i] = x
  BY DEF Range
<1>2. k = Min(I)
  BY <1>1 DEF SelectInSeq
<1>3. Min(I) \in I
  <2>1. \E m \in I : \A n \in I : m <= n
    <3>1. I \in SUBSET Nat /\ I # {}
      BY <1>1
    <3> HIDE DEF I
    <3> QED BY <3>1, LeastOf
  <2> HIDE DEF I
  <2> QED BY <2>1 DEF Min
<1>4. RemoveFirst(q, x) = RemoveAt(q, k)
  BY <1>1 DEF RemoveFirst
<1> QED BY <1>2, <1>3, <1>4

LEMMA Left ==
  ASSUME NEW S, NEW q \in Seq(S), NEW x, IsInjective(q)
  PROVE  /\ IsInjective(RemoveFirst(q, x))
         /\ Range(RemoveFirst(q, x)) = Range(q) \ {x}
<1>0. DOMAIN q = 1..Len(q) /\ Len(q) \in Nat
  OBVIOUS
<1>1. CASE x \notin Range(q)
  <2>1. ~\E i \in 1..Len(q) : q[i] = x
    BY <1>0, <1>1 DEF Range
  <2> QED BY <1>1, <2>1 DEF RemoveFirst
<1>2. CASE x \in Range(q)
  <2>1. PICK k \in 1..Len(q) : q[k] = x /\ RemoveFirst(q, x) = RemoveAt(q, k)
    BY <1>2, FirstAt
  <2> DEFINE w == RemoveAt(q, k)
  <2>2. /\ w \in Seq(S) /\ Len(w) = Len(q) - 1
        /\ \A i \in 1..(Len(q) - 1) : w[i] = IF i < k THEN q[i] ELSE q[i + 1]
    BY <2>1, Removed
  <2> HIDE DEF w
  <2>3. DOMAIN w = 1..(Len(q) - 1)
    BY <2>2
  <2>4. \A i \in 1..(Len(q) - 1) : \E j \in 1..Len(q) \ {k} :
          w[i] = q[j] /\ j = IF i < k THEN i ELSE i + 1
    BY <1>0, <2>2
  <2>5. \A j \in 1..Len(q) \ {k} : \E i \in 1..(Len(q) - 1) : w[i] = q[j]
    <3> TAKE j \in 1..Len(q) \ {k}
    <3>1. CASE j < k
      BY <1>0, <2>2, <3>1
    <3>2. CASE ~(j < k)
      <4>1. j - 1 \in 1..(Len(q) - 1) /\ ~(j - 1 < k) /\ j - 1 + 1 = j
        BY <1>0, <3>2
      <4> QED BY <2>2, <4>1
    <3> QED BY <3>1, <3>2
  <2>6. IsInjective(w)
    <3> SUFFICES ASSUME NEW a \in 1..(Len(q) - 1), NEW b \in 1..(Len(q) - 1), w[a] = w[b]
                 PROVE  a = b
      BY <2>3 DEF IsInjective
    <3>1. PICK i \in 1..Len(q) \ {k} : w[a] = q[i] /\ i = IF a < k THEN a ELSE a + 1
      BY <2>4
    <3>2. PICK j \in 1..Len(q) \ {k} : w[b] = q[j] /\ j = IF b < k THEN b ELSE b + 1
      BY <2>4
    <3>3. i = j
      BY <1>0, <3>1, <3>2 DEF IsInjective
    <3> QED BY <1>0, <3>1, <3>2, <3>3
  <2>7. Range(w) = Range(q) \ {x}
    <3>1. /\ Range(w) = {w[i] : i \in 1..(Len(q) - 1)} /\ Range(q) = {q[i] : i \in 1..Len(q)}
      BY <1>0, <2>3 DEF Range
    <3>2. \A j \in 1..Len(q) : q[j] = x <=> j = k
      BY <1>0, <2>1 DEF IsInjective
    <3>3. ASSUME NEW y \in Range(w) PROVE y \in Range(q) \ {x}
      <4>1. PICK i \in 1..(Len(q) - 1) : y = w[i]
        BY <3>1
      <4>2. PICK j \in 1..Len(q) \ {k} : w[i] = q[j]
        BY <2>4
      <4> QED BY <3>1, <3>2, <4>1, <4>2
    <3>4. ASSUME NEW y \in Range(q) \ {x} PROVE y \in Range(w)
      <4>1. PICK j \in 1..Len(q) : y = q[j]
        BY <3>1
      <4>2. j # k
        BY <3>2, <4>1
      <4> QED BY <2>5, <3>1, <4>1, <4>2
    <3> QED BY <3>3, <3>4
  <2> QED BY <2>1, <2>6, <2>7 DEF w
<1> QED BY <1>1, <1>2

LEMMA HeadLeft ==
  ASSUME NEW S, NEW q \in Seq(S), q # << >>, IsInjective(q)
  PROVE  IsInjective(Tail(q)) /\ Range(Tail(q)) = Range(q) \ {Head(q)} /\ Head(q) \in Range(q)
<1>1. /\ Len(q) \in Nat \ {0} /\ DOMAIN q = 1..Len(q) /\ DOMAIN Tail(q) = 1..(Len(q) - 1)
      /\ \A i \in 1..(Len(q) - 1) : Tail(q)[i] = q[i + 1]
      /\ Head(q) = q[1]
  OBVIOUS
<1>2. \A i \in 1..(Len(q) - 1) : i + 1 \in 1..Len(q) /\ Tail(q)[i] # q[1]
  BY <1>1 DEF IsInjective
<1>3. \A i \in 1..Len(q) : q[i] # q[1] => i - 1 \in 1..(Len(q) - 1) /\ Tail(q)[i - 1] = q[i]
  BY <1>1
<1>4. IsInjective(Tail(q))
  BY <1>1, <1>2 DEF IsInjective
<1>5. /\ Range(q) = {q[i] : i \in 1..Len(q)}
      /\ Range(Tail(q)) = {Tail(q)[i] : i \in 1..(Len(q) - 1)}
  BY <1>1 DEF Range
<1>6. ASSUME NEW x \in Range(q), x # q[1] PROVE x \in Range(Tail(q))
  <2>1. PICK i \in 1..Len(q) : q[i] = x
    BY <1>5
  <2> QED BY <1>3, <1>5, <1>6, <2>1
<1>7. ASSUME NEW x \in Range(Tail(q)) PROVE x \in Range(q) /\ x # q[1]
  <2>1. PICK i \in 1..(Len(q) - 1) : Tail(q)[i] = x
    BY <1>5
  <2>2. x = q[i + 1] /\ i + 1 \in 1..Len(q) /\ x # q[1]
    BY <1>1, <1>2, <2>1
  <2> QED BY <1>5, <2>2
<1> QED BY <1>1, <1>4, <1>5, <1>6, <1>7

(* Whom a release wakes waits; if it has a slot and nobody was granted one *)
(* before, it wakes somebody.                                              *)
LEMMA WokenWait ==
  ASSUME NEW w \in Seq(Run), NEW g, NEW n \in Nat
  PROVE  /\ Woken(w, g, n) \subseteq Range(w)
         /\ g = {} /\ n > 0 /\ w # << >> => Woken(w, g, n) # {}
<1>1. Woken(w, g, n) \subseteq Range(w)
  BY DEF Woken, Range
<1>2. ASSUME g = {}, n > 0, w # << >> PROVE w[1] \in Woken(w, g, n)
  <2>1. 1 \in DOMAIN w
    BY <1>2
  <2>2. Ahead(w, g, 1) = {}
    BY DEF Ahead
  <2>3. Cardinality(Ahead(w, g, 1)) < n
    BY <1>2, <2>2, FS_EmptySet
  <2> QED BY <1>2, <2>1, <2>3 DEF Woken
<1> QED BY <1>1, <1>2

(* Nothing free and nobody granted is said of what the queue is about to   *)
(* be: w waits, g of them granted, v slots free.                           *)
Spare(v, w, g) == (g = {} /\ w # << >>) => v = 0

LEMMA ReleaseHands ==
  ASSUME NEW w \in Seq(Run), NEW g, g \subseteq Range(w), NEW v \in Nat, NEW n \in Nat,
         n = 0 => Spare(v, w, g), Release(n, v, w, g)
  PROVE  waiters' = w /\ granted' \subseteq Range(w) /\ Handed'
<1> DEFINE woken == Woken(w, g, n)
<1>1. waiters' = w /\ granted' = g \cup woken /\ value' = v + n - Cardinality(woken)
  BY DEF Release
<1>2. woken \subseteq Range(w) /\ (g = {} /\ n > 0 /\ w # << >> => woken # {})
  BY WokenWait
<1> HIDE DEF woken
<1>3. ASSUME granted' = {}, w # << >> PROVE value' = 0
  <2>1. g = {} /\ woken = {} /\ n = 0
    BY <1>1, <1>2, <1>3
  <2> QED BY <1>1, <1>3, <2>1, FS_EmptySet DEF Spare
<1> QED BY <1>1, <1>2, <1>3 DEF Handed

(* A run that goes on queues up behind the waiters, or leaves them alone.  *)
LEMMA TakeHands ==
  ASSUME QueueTypeOK, NEW r \in Run, NEW current, NEW have \in 0..Needs(r), NEW v \in Nat,
         NEW w \in Seq(Run), NEW g, g \subseteq Range(w), IsInjective(w), r \notin Range(w),
         Spare(v, w, g), Take(r, have, current, v, w, g)
  PROVE  /\ Handed' /\ IsInjective(waiters') /\ granted' \subseteq Range(waiters')
         /\ \/ /\ pc' = [pc EXCEPT ![r] = "slot"] /\ Range(waiters') = Range(w) \cup {r}
               /\ clusterLock' = IF Exclusive(r) THEN r ELSE clusterLock
            \/ /\ pc' = [pc EXCEPT ![r] = "job"] /\ waiters' = w
               /\ clusterLock' = IF Exclusive(r) THEN r ELSE clusterLock
            \/ /\ pc' = [pc EXCEPT ![r] = "skipped"] /\ waiters' = w
               /\ clusterLock' = IF clusterLock = r THEN NoRun ELSE clusterLock
<1> DEFINE n == IF w = << >> THEN Lower(v, Needs(r) - have) ELSE 0
<1>1. /\ Limit \in Nat \ {0} /\ Needs(r) \in 1..Limit /\ have \in Nat /\ have <= Needs(r)
  BY QueueAssumption DEF QueueTypeOK, Needs
<1>2. n \in Nat /\ n <= v /\ (w # << >> => n = 0) /\ (have + n < Needs(r) /\ w = << >> => n = v)
  BY <1>1 DEF Lower
<1>3. CASE have + n < Needs(r)
  <2>1. ~(have + n = Needs(r))
    BY <1>1, <1>2, <1>3
  <2>2. /\ pc' = [pc EXCEPT ![r] = "slot"] /\ value' = v - n
        /\ clusterLock' = IF Exclusive(r) THEN r ELSE clusterLock
        /\ waiters' = Append(w, r) /\ granted' = g
    <3> HIDE DEF n
    <3> QED BY <1>3, <2>1, Zenon DEF Take, n
  <2> HIDE DEF n
  <2>3. IsInjective(waiters') /\ Range(waiters') = Range(w) \cup {r}
    BY <2>2, Joined
  <2>4. Handed'
    <3>1. g = {} => value' = 0
      BY <1>2, <1>3, <2>2 DEF Spare
    <3> QED BY <2>2, <3>1 DEF Handed
  <2> QED BY <2>2, <2>3, <2>4
<1>4. CASE have + n = Needs(r) /\ current
  <2>1. ~(have + n < Needs(r))
    BY <1>1, <1>4
  <2>2. /\ pc' = [pc EXCEPT ![r] = "job"] /\ value' = v - n
        /\ clusterLock' = IF Exclusive(r) THEN r ELSE clusterLock
        /\ waiters' = w /\ granted' = g
    <3> HIDE DEF n
    <3> QED BY <1>4, <2>1, Zenon DEF Take, n
  <2> HIDE DEF n
  <2>3. Handed'
    <3>1. g = {} /\ w # << >> => value' = 0
      BY <1>2, <2>2 DEF Spare
    <3> QED BY <2>2, <3>1 DEF Handed
  <2> QED BY <2>2, <2>3
<1>5. CASE ~(have + n < Needs(r)) /\ ~(have + n = Needs(r) /\ current)
  <2>1. Leave(r, "skipped") /\ Release(have, v, w, g)
    BY <1>5, Zenon DEF Take
  <2> HIDE DEF n
  <2>2. waiters' = w /\ granted' \subseteq Range(w) /\ Handed'
    BY <1>1, <2>1, ReleaseHands
  <2> QED BY <2>1, <2>2 DEF Leave
<1> QED BY <1>3, <1>4, <1>5

(* Who goes on through Take: the order of the queues and of the lock.      *)
LEMMA TakeOrder ==
  ASSUME QueueInv, OrderInv, NEW r \in Run, pc[r] \in {"new", "lock", "slot"},
         NEW current, NEW have \in 0..Needs(r), NEW v \in Nat, NEW w \in Seq(Run), NEW g,
         g \subseteq Range(w), IsInjective(w), Range(w) = Range(waiters) \ {r},
         Spare(v, w, g), Take(r, have, current, v, w, g), key' = key,
         IsInjective(lockQueue'), Range(lockQueue') = Range(lockQueue) \ {r},
         Exclusive(r) => clusterLock \in {r, NoRun}
  PROVE  OrderInv'
<1> QueueTypeOK /\ pc \in [Run -> {"new", "lock", "slot", "job", "done", "skipped", "cancelled"}]
  BY DEF QueueInv, QueueTypeOK
<1> NoRun \notin Run /\ clusterLock \in Run \cup {NoRun}
  BY QueueAssumption DEF QueueTypeOK
<1> DEFINE Went1(p, l) ==
      /\ pc' = [pc EXCEPT ![r] = p]
      /\ Range(waiters') = Range(w) \cup (IF p = "slot" THEN {r} ELSE {})
      /\ clusterLock' = l
<1>1. Handed' /\ IsInjective(waiters') /\ granted' \subseteq Range(waiters')
  BY TakeHands
<1>2. \/ Went1("slot", IF Exclusive(r) THEN r ELSE clusterLock)
      \/ Went1("job", IF Exclusive(r) THEN r ELSE clusterLock)
      \/ Went1("skipped", IF clusterLock = r THEN NoRun ELSE clusterLock)
  BY TakeHands
<1>3. PICK p \in {"slot", "job", "skipped"}, l \in Run \cup {NoRun} :
        Went1(p, l) /\ l = IF p = "skipped" THEN IF clusterLock = r THEN NoRun ELSE clusterLock
                                            ELSE IF Exclusive(r) THEN r ELSE clusterLock
  BY <1>2
<1>4. Waiting'
  <2>1. /\ \A q \in Run : pc[q] = "slot" <=> q \in Range(waiters)
        /\ \A q \in Run : pc[q] = "lock" <=> q \in Range(lockQueue)
    BY DEF OrderInv, Waiting
  <2>2. ASSUME NEW q \in Run
        PROVE  /\ pc'[q] = "slot" <=> q \in Range(waiters')
               /\ pc'[q] = "lock" <=> q \in Range(lockQueue')
    BY <1>3, <2>1
  <2> HIDE DEF Went1
  <2> QED BY <1>1, <2>2 DEF Waiting
<1>5. LockHeld'
  <2>1. \A q \in Run : Exclusive(q)' <=> Exclusive(q)
    BY DEF Exclusive
  <2>2. /\ \A q \in Run : (pc[q] \in {"slot", "job"} /\ Exclusive(q)) => clusterLock = q
        /\ clusterLock # NoRun => pc[clusterLock] \in {"slot", "job"}
    BY DEF OrderInv, LockHeld
  <2>3. ASSUME NEW q \in Run, pc'[q] \in {"slot", "job"}, Exclusive(q) PROVE clusterLock' = q
    BY <1>3, <2>2, <2>3
  <2>4. clusterLock' # NoRun => pc'[clusterLock'] \in {"slot", "job"}
    BY <1>3, <2>2
  <2> HIDE DEF Went1
  <2> QED BY <2>1, <2>3, <2>4 DEF LockHeld
<1> QED BY <1>1, <1>4, <1>5 DEF OrderInv

(* Who leaves does so with all it had.                                     *)
LEMMA LeaveOrder ==
  ASSUME QueueInv, OrderInv, NEW r \in Run, NEW p \in {"done", "cancelled"}, NEW n \in Nat,
         NEW w \in Seq(Run), NEW g, g \subseteq Range(w), IsInjective(w),
         Range(w) = Range(waiters) \ {r}, n = 0 => Spare(value, w, g),
         Release(n, value, w, g), Leave(r, p), key' = key,
         IsInjective(lockQueue'), Range(lockQueue') = Range(lockQueue) \ {r}
  PROVE  OrderInv'
<1> QueueTypeOK /\ pc \in [Run -> {"new", "lock", "slot", "job", "done", "skipped", "cancelled"}]
  BY DEF QueueInv, QueueTypeOK
<1> value \in Nat /\ NoRun \notin Run
  BY QueueAssumption DEF QueueTypeOK
<1>1. waiters' = w /\ granted' \subseteq Range(w) /\ Handed'
  BY ReleaseHands
<1>2. /\ pc' = [pc EXCEPT ![r] = p]
      /\ clusterLock' = IF clusterLock = r THEN NoRun ELSE clusterLock
  BY DEF Leave
<1>3. Waiting'
  <2>1. /\ \A q \in Run : pc[q] = "slot" <=> q \in Range(waiters)
        /\ \A q \in Run : pc[q] = "lock" <=> q \in Range(lockQueue)
    BY DEF OrderInv, Waiting
  <2>2. ASSUME NEW q \in Run
        PROVE  /\ pc'[q] = "slot" <=> q \in Range(waiters')
               /\ pc'[q] = "lock" <=> q \in Range(lockQueue')
    BY <1>1, <1>2, <2>1
  <2> QED BY <1>1, <2>2 DEF Waiting
<1>4. LockHeld'
  BY <1>2 DEF OrderInv, LockHeld, Exclusive, QueueTypeOK
<1> QED BY <1>1, <1>3, <1>4 DEF OrderInv

LEMMA RequestOrder ==
  ASSUME QueueInv, OrderInv, NEW r \in Run, Request(r)
  PROVE  OrderInv'
<1> QueueTypeOK /\ Waiting /\ LockHeld
  BY DEF QueueInv, OrderInv
<1>1. /\ pc[r] = "new" /\ key' = key /\ r \notin Range(waiters) /\ r \notin Range(lockQueue)
  BY DEF Request, Waiting
<1>2. CASE Exclusive(r) /\ (clusterLock # NoRun \/ lockQueue # << >>)
  <2>1. /\ lockQueue' = Append(lockQueue, r) /\ pc' = [pc EXCEPT ![r] = "lock"]
        /\ UNCHANGED <<active, value, waiters, granted, clusterLock, taken>>
    BY <1>2 DEF Request
  <2>2. IsInjective(lockQueue') /\ Range(lockQueue') = Range(lockQueue) \cup {r}
    BY <1>1, <2>1, Joined DEF QueueTypeOK, Waiting
  <2>3. Waiting'
    BY <1>1, <2>1, <2>2 DEF Waiting, QueueTypeOK
  <2>4. Handed'
    BY <2>1 DEF OrderInv, Handed
  <2>5. LockHeld'
    BY <1>1, <2>1 DEF LockHeld, Exclusive, QueueTypeOK
  <2> QED BY <2>3, <2>4, <2>5 DEF OrderInv
<1>3. CASE ~(Exclusive(r) /\ (clusterLock # NoRun \/ lockQueue # << >>))
  <2>1. Take(r, 0, TRUE, value, waiters, granted) /\ lockQueue' = lockQueue
    BY <1>3 DEF Request
  <2>2. /\ value \in Nat /\ waiters \in Seq(Run) /\ 0 \in 0..Needs(r)
        /\ granted \subseteq Range(waiters) /\ IsInjective(waiters) /\ IsInjective(lockQueue)
    BY QueueAssumption DEF QueueTypeOK, Waiting, Needs
  <2>3. Spare(value, waiters, granted)
    BY DEF OrderInv, Handed, Spare
  <2>4. Exclusive(r) => clusterLock \in {r, NoRun}
    BY <1>3
  <2>5. /\ Range(waiters) = Range(waiters) \ {r}
        /\ IsInjective(lockQueue') /\ Range(lockQueue') = Range(lockQueue) \ {r}
    BY <1>1, <2>1, <2>2
  <2> QED BY <1>1, <2>1, <2>2, <2>3, <2>4, <2>5, TakeOrder
<1> QED BY <1>2, <1>3

LEMMA LockAcquiredOrder ==
  ASSUME QueueInv, OrderInv, NEW r \in Run, LockAcquired(r)
  PROVE  OrderInv'
<1> QueueTypeOK /\ Waiting
  BY DEF QueueInv, OrderInv
<1>1. /\ pc[r] = "lock" /\ clusterLock = NoRun /\ lockQueue # << >> /\ Head(lockQueue) = r
      /\ lockQueue' = Tail(lockQueue) /\ key' = key
      /\ Take(r, 0, IsCurrent(r), value, waiters, granted)
  BY DEF LockAcquired
<1>2. /\ value \in Nat /\ waiters \in Seq(Run) /\ 0 \in 0..Needs(r) /\ lockQueue \in Seq(Run)
      /\ granted \subseteq Range(waiters) /\ IsInjective(waiters) /\ IsInjective(lockQueue)
  BY QueueAssumption DEF QueueTypeOK, Waiting, Needs
<1>3. Spare(value, waiters, granted)
  BY DEF OrderInv, Handed, Spare
<1>4. IsInjective(lockQueue') /\ Range(lockQueue') = Range(lockQueue) \ {r}
  BY <1>1, <1>2, HeadLeft
<1>5. Range(waiters) = Range(waiters) \ {r}
  BY <1>1 DEF Waiting
<1> QED BY <1>1, <1>2, <1>3, <1>4, <1>5, TakeOrder

(* A slot that stays free though others wait is passed on here.            *)
LEMMA SlotAcquiredOrder ==
  ASSUME QueueInv, OrderInv, NEW r \in Run, SlotAcquired(r)
  PROVE  OrderInv'
<1> QueueTypeOK /\ Waiting
  BY DEF QueueInv, OrderInv
<1> DEFINE w == RemoveFirst(waiters, r)
           g == granted \ {r}
           n == Lower(value, 1)
           woken == Woken(w, g, n)
           v == value - Cardinality(woken)
           h == g \cup woken
<1>1. /\ pc[r] = "slot" /\ key' = key /\ lockQueue' = lockQueue
      /\ Take(r, taken[r] + 1, IsCurrent(r), v, w, h)
  BY DEF SlotAcquired
<1>2. /\ taken[r] + 1 \in 0..Needs(r) /\ value \in Nat /\ n \in Nat /\ n <= value
      /\ value > 0 => n > 0
  BY <1>1, QueueAssumption DEF QueueInv, QueueTypeOK, TakenByStage, Needs, Lower
<1>3. w \in Seq(Run) /\ IsInjective(w) /\ Range(w) = Range(waiters) \ {r}
  BY RemovedIsQueue, Left DEF QueueTypeOK, Waiting
<1>4. /\ woken \subseteq Range(w) /\ (g = {} /\ n > 0 /\ w # << >> => woken # {})
      /\ Cardinality(woken) \in 0..n
  <2> HIDE DEF w, g, n
  <2> QED BY <1>2, <1>3, WokenWait, WokenBounds
<1>5. h \subseteq Range(w)
  BY <1>3, <1>4 DEF Waiting
<1> HIDE DEF w, n, woken
<1>6. v \in Nat
  BY <1>2, <1>4
<1>7. Spare(v, w, h)
  <2> SUFFICES ASSUME h = {}, w # << >> PROVE v = 0
    BY DEF Spare
  <2>1. ~(n > 0)
    BY <1>4
  <2> QED BY <1>2, <1>4, <2>1
<1>8. Exclusive(r) => clusterLock \in {r, NoRun}
  BY <1>1 DEF OrderInv, LockHeld
<1>9. IsInjective(lockQueue') /\ Range(lockQueue') = Range(lockQueue) \ {r}
  BY <1>1 DEF Waiting
<1> HIDE DEF v, h, g
<1> QED BY <1>1, <1>2, <1>3, <1>5, <1>6, <1>7, <1>8, <1>9, TakeOrder

LEMMA JobEndsOrder ==
  ASSUME QueueInv, OrderInv, NEW r \in Run, JobEnds(r)
  PROVE  OrderInv'
<1> QueueTypeOK /\ Waiting
  BY DEF QueueInv, OrderInv
<1>1. /\ pc[r] = "job" /\ key' = key /\ lockQueue' = lockQueue
      /\ Release(taken[r], value, waiters, granted) /\ Leave(r, "done")
  BY DEF JobEnds
<1>2. taken[r] \in Nat /\ waiters \in Seq(Run) /\ Spare(value, waiters, granted)
  BY DEF QueueTypeOK, OrderInv, Handed, Spare
<1>3. /\ granted \subseteq Range(waiters) /\ IsInjective(waiters)
      /\ Range(waiters) = Range(waiters) \ {r}
      /\ IsInjective(lockQueue') /\ Range(lockQueue') = Range(lockQueue) \ {r}
  BY <1>1 DEF Waiting
<1> QED BY <1>1, <1>2, <1>3, LeaveOrder

LEMMA CancelOrder ==
  ASSUME QueueInv, OrderInv, NEW r \in Run, Cancel(r)
  PROVE  OrderInv'
<1> QueueTypeOK /\ Waiting
  BY DEF QueueInv, OrderInv
<1> DEFINE w == RemoveFirst(waiters, r)
           g == granted \ {r}
           n == taken[r] + (IF r \in granted THEN 1 ELSE 0)
<1>1. /\ key' = key /\ lockQueue' = RemoveFirst(lockQueue, r)
      /\ Release(n, value, w, g) /\ Leave(r, "cancelled")
  BY DEF Cancel
<1>2. taken[r] \in Nat /\ n \in Nat
  BY DEF QueueTypeOK
<1>3. /\ w \in Seq(Run) /\ IsInjective(w) /\ Range(w) = Range(waiters) \ {r}
      /\ IsInjective(lockQueue') /\ Range(lockQueue') = Range(lockQueue) \ {r}
  BY <1>1, RemovedIsQueue, Left DEF QueueTypeOK, Waiting
<1>4. g \subseteq Range(w)
  BY <1>3 DEF Waiting
<1>5. n = 0 => Spare(value, w, g)
  <2> SUFFICES ASSUME n = 0, g = {}, w # << >> PROVE value = 0
    BY DEF Spare
  <2>1. granted = {}
    BY <1>2
  <2>2. waiters # << >>
    <3>1. Range(w) # {}
      BY <1>3 DEF Range
    <3>2. Range(<< >>) = {}
      BY DEF Range
    <3> QED BY <1>3, <3>1, <3>2
  <2> QED BY <2>1, <2>2 DEF OrderInv, Handed
<1> HIDE DEF w, g, n
<1> QED BY <1>1, <1>2, <1>3, <1>4, <1>5, LeaveOrder

LEMMA OrderStep ==
  ASSUME QueueInv, OrderInv, [QueueNext]_queueVars
  PROVE  OrderInv'
<1>1. CASE UNCHANGED queueVars
  BY <1>1 DEF OrderInv, Waiting, Handed, LockHeld, Exclusive, queueVars
<1>2. ASSUME NEW r \in Run,
             Request(r) \/ LockAcquired(r) \/ SlotAcquired(r) \/ JobEnds(r) \/ Cancel(r)
      PROVE  OrderInv'
  BY <1>2, RequestOrder, LockAcquiredOrder, SlotAcquiredOrder, JobEndsOrder, CancelOrder
<1> QED BY <1>1, <1>2 DEF QueueNext

(* Some slot is held, if all are taken.                                    *)
LEMMA OneHeld ==
  ASSUME QueueInv, value = 0, granted = {}
  PROVE  \E q \in Run : taken[q] > 0 /\ Cardinality(Held) = Limit
<1>1. Cardinality(Held) = Limit /\ Limit \in Nat \ {0}
  <2>1. Cardinality(Held) \in Nat
    BY FS_CardinalityType DEF QueueInv, Balanced
  <2> QED BY <2>1, FS_EmptySet, QueueAssumption DEF QueueInv, Balanced
<1>2. Held # {}
  BY <1>1, FS_EmptySet
<1>3. PICK q \in Run, i \in 1..Limit : i <= taken[q]
  BY <1>2 DEF Held
<1> QED BY <1>1, <1>3 DEF QueueInv, QueueTypeOK

(* A single run that holds slots holds them all, if none is free.          *)
LEMMA OnlyHolder ==
  ASSUME QueueInv, NEW q \in Run, \A s \in Run : taken[s] > 0 => s = q
  PROVE  Cardinality(Held) = taken[q]
<1>1. taken[q] \in Nat /\ taken[q] <= Limit /\ \A s \in Run : taken[s] \in 0..Limit
  BY QueueAssumption DEF QueueInv, QueueTypeOK
<1>2. Held = {q} \X (1..taken[q])
  BY <1>1, QueueAssumption DEF Held
<1> QED BY <1>1, <1>2, ColumnOf

(* Nobody waits for somebody who waits in turn: while a run waits for a    *)
(* slot or for the cluster lock, some run is at its job, was granted its   *)
(* slot or has the lock before it, for any number of runs and slots.  Two  *)
(* cluster runs do not split the slots between them (comment at 71-73), no *)
(* free slot is forgotten, and no cancellation takes the lock along.       *)
THEOREM QueueNeverStuck == QueueSpec => []NobodyStuck
<1>1. QueueInit => QueueInv /\ OrderInv
  <2>1. Range(<< >>) = {} /\ IsInjective(<< >>)
    BY DEF Range, IsInjective
  <2>2. QueueInit => OrderInv
    BY <2>1 DEF QueueInit, OrderInv, Waiting, Handed, LockHeld
  <2> QED BY <2>2, QueueInitInv
<1>2. (QueueInv /\ OrderInv) /\ [QueueNext]_queueVars => (QueueInv /\ OrderInv)'
  BY QueueStep, OrderStep
<1>3. QueueInv /\ OrderInv => NobodyStuck
  <2> SUFFICES ASSUME QueueInv, OrderInv, \A r \in Run : ~GoesOn(r),
                      NEW r \in Run, pc[r] \in {"lock", "slot"}
               PROVE  FALSE
    BY DEF NobodyStuck
  <2>0. /\ \A q \in Run : pc[q] # "job"
        /\ \A q \in Run : pc[q] = "slot" => q \notin granted
        /\ clusterLock \in Run \cup {NoRun} /\ NoRun \notin Run
        /\ lockQueue \in Seq(Run) /\ waiters \in Seq(Run)
    BY QueueAssumption DEF GoesOn, QueueInv, QueueTypeOK
  <2>1. \E q \in Run : pc[q] = "slot"
    <3>1. CASE pc[r] = "slot"
      BY <3>1
    <3>2. CASE pc[r] = "lock"
      <4>1. lockQueue # << >>
        BY <3>2 DEF OrderInv, Waiting, Range
      <4>2. Head(lockQueue) \in Range(lockQueue) /\ Head(lockQueue) \in Run
        BY <2>0, <4>1, HeadLeft DEF OrderInv, Waiting
      <4>3. pc[Head(lockQueue)] = "lock"
        BY <4>2 DEF OrderInv, Waiting
      <4>4. clusterLock # NoRun
        BY <4>1, <4>2, <4>3 DEF GoesOn
      <4> QED BY <2>0, <4>4 DEF OrderInv, LockHeld
    <3> QED BY <3>1, <3>2
  <2>2. waiters # << >> /\ granted = {}
    <3>1. waiters # << >>
      BY <2>1 DEF OrderInv, Waiting, Range
    <3>2. granted \subseteq {q \in Run : pc[q] = "slot"}
      BY <2>0 DEF OrderInv, Waiting, QueueInv, QueueTypeOK
    <3> QED BY <2>0, <3>1, <3>2
  <2>3. PICK q \in Run : taken[q] > 0 /\ Cardinality(Held) = Limit
    BY <2>2, OneHeld DEF OrderInv, Handed
  <2>4. \A s \in Run : taken[s] > 0 => pc[s] = "slot" /\ clusterLock = s
    <3> SUFFICES ASSUME NEW s \in Run, taken[s] > 0 PROVE pc[s] = "slot" /\ clusterLock = s
      OBVIOUS
    <3>1. pc[s] = "slot" /\ taken[s] < Needs(s) /\ taken[s] \in Nat
      BY <2>0 DEF QueueInv, TakenByStage, QueueTypeOK
    <3>2. Exclusive(s)
      BY <3>1 DEF Needs
    <3> QED BY <3>1, <3>2 DEF OrderInv, LockHeld
  <2>5. Cardinality(Held) = taken[q]
    BY <2>3, <2>4, OnlyHolder
  <2>6. taken[q] < Needs(q) /\ Needs(q) \in 1..Limit /\ taken[q] \in Nat /\ Limit \in Nat
    BY <2>3, <2>4, QueueAssumption DEF QueueInv, TakenByStage, QueueTypeOK, Needs
  <2> QED BY <2>3, <2>5, <2>6
<1> QED BY <1>1, <1>2, <1>3, PTL DEF QueueSpec
-----------------------------------------------------------------------------
(* Passes over documents: types, and where a pass can be.                  *)
JobTypeOK ==
  /\ docs \in [Run -> SUBSET Doc] /\ waves \in [Run -> 1..MaxWaves]
  /\ dim \in [Run -> Dim] /\ todo \in [Run -> SUBSET Doc]
  /\ cur \in [Run -> Doc \cup {NoDoc}]
  /\ stage \in [Run -> {"none", "failed", "delete", "embed", "rollback"}]
  /\ wave \in [Run -> 1..MaxWaves]
  /\ rows \in [Doc -> SUBSET ((Run \cup {NoRun}) \X (1..MaxWaves))]
  /\ outcome \in [Doc -> Result \X (Run \cup {NoRun})]
  /\ asked \in Seq(Run) /\ mixed \in SUBSET Doc

StageFits ==
  \A r \in Run : /\ stage[r] = "failed" => pc[r] = "done"
                 /\ cur[r] # NoDoc => Running(r)
                 /\ cur[r] = NoDoc <=> stage[r] \in {"none", "failed"}
                 /\ todo[r] \subseteq docs[r]

DocsByKey ==
  \A r \in Run : docs[r] \in IF Exclusive(r) THEN {Doc} \cup BaseDocs
                                            ELSE {EntityDocs[key[r]]}

PassInv == QueueInv /\ JobTypeOK /\ StageFits /\ DocsByKey

LEMMA RestartEmpties ==
  ASSUME QueueInv, Restart
  PROVE  QueueInv'
<1>1. /\ taken' = [r \in Run |-> 0] /\ value' = Limit /\ granted' = {} /\ waiters' = << >>
      /\ lockQueue' = << >> /\ clusterLock' = NoRun
      /\ generations' = [k \in Key |-> 0] /\ active' = [k \in Key |-> NoRun]
      /\ pc' = [r \in Run |-> IF pc[r] \in {"lock", "slot", "job"} THEN "cancelled" ELSE pc[r]]
      /\ key' = key /\ generation' = generation
  BY DEF Restart
<1>2. Held' = {}
  BY <1>1, QueueAssumption DEF Held
<1>3. Balanced'
  BY <1>1, <1>2, FS_EmptySet, QueueAssumption DEF Balanced
<1>4. QueueTypeOK'
  <2>1. pc' \in [Run -> {"new", "lock", "slot", "job", "done", "skipped", "cancelled"}]
    BY <1>1 DEF QueueInv, QueueTypeOK
  <2>2. waiters' \in Seq(Run) /\ lockQueue' \in Seq(Run)
    BY <1>1
  <2> QED BY <1>1, <2>1, <2>2, QueueAssumption DEF QueueInv, QueueTypeOK
<1>5. TakenByStage' /\ FlagIsRun'
  BY <1>1, QueueAssumption DEF QueueInv, QueueTypeOK, TakenByStage, FlagIsRun, Running, Key
<1> QED BY <1>3, <1>4, <1>5 DEF QueueInv

(* Every step of a pass is a step of its queue, or the restart.            *)
LEMMA StepOfQueue ==
  ASSUME [Next]_vars, ~Restart
  PROVE  [QueueNext]_queueVars
BY DEF Next, vars, QueueNext, Ask, Proceed, Job, PickDocument, DeleteOld, DeleteFails,
       StoreWave, WaveFails, Rollback, FinishJob, PassFails

LEMMA QueueUnderPasses ==
  ASSUME QueueInv, [Next]_vars
  PROVE  QueueInv'
<1>1. CASE Restart
  BY <1>1, RestartEmpties
<1>2. CASE ~Restart
  BY <1>2, StepOfQueue, QueueStep
<1> QED BY <1>1, <1>2

(* Who leaves the queue, and how, as the pass sees it.                     *)
LEMMA AskMoves ==
  ASSUME PassInv, NEW r \in Run, Ask(r)
  PROVE  /\ pc[r] = "new" /\ Went(r, TRUE)
         /\ UNCHANGED <<key, docs, waves, dim, todo, cur, stage, wave, rows, outcome, mixed>>
         /\ asked' = Append(asked, r)
BY RequestInv DEF Ask, Request, PassInv

LEMMA ProceedMoves ==
  ASSUME PassInv, NEW r \in Run, Proceed(r)
  PROVE  /\ pc[r] \in {"lock", "slot"} /\ Went(r, IsCurrent(r))
         /\ UNCHANGED <<key, generations, generation, jobVars>>
<1>1. CASE LockAcquired(r)
  BY <1>1, LockAcquiredInv DEF Proceed, LockAcquired, PassInv
<1>2. CASE SlotAcquired(r)
  BY <1>2, SlotAcquiredInv DEF Proceed, SlotAcquired, PassInv
<1> QED BY <1>1, <1>2 DEF Proceed

LEMMA EndMoves ==
  ASSUME NEW r \in Run, JobEnds(r)
  PROVE  /\ pc[r] = "job" /\ pc' = [pc EXCEPT ![r] = "done"]
         /\ UNCHANGED <<key, generations, generation>>
BY DEF JobEnds, Leave

LEMMA EndedPass ==
  ASSUME PassInv, NEW r \in Run, NEW how \in Result, EndPass(r, how),
         pc[r] = "job", cur[r] \in Doc,
         rows' \in [Doc -> SUBSET ((Run \cup {NoRun}) \X (1..MaxWaves))],
         UNCHANGED <<pc, docs, waves, dim, todo, wave, asked, mixed>>
  PROVE  JobTypeOK' /\ StageFits'
<1>1. /\ outcome' = [outcome EXCEPT ![cur[r]] = <<how, r>>]
      /\ cur' = [cur EXCEPT ![r] = NoDoc] /\ stage' = [stage EXCEPT ![r] = "none"]
  BY DEF EndPass
<1>2. JobTypeOK'
  BY <1>1 DEF PassInv, JobTypeOK
<1>3. StageFits'
  BY <1>1 DEF PassInv, JobTypeOK, StageFits, Running
<1> QED BY <1>2, <1>3

LEMMA PassStep ==
  ASSUME PassInv, [Next]_vars
  PROVE  PassInv'
<1>1. QueueInv' /\ NoDoc \notin Doc
  BY QueueUnderPasses, KbAssumption DEF PassInv
<1>2. CASE UNCHANGED vars
  BY <1>1, <1>2 DEF PassInv, JobTypeOK, StageFits, DocsByKey, Running, Exclusive, vars, queueVars,
                    jobVars
<1>3. CASE Restart
  <2>1. /\ pc' = [r \in Run |-> IF pc[r] \in {"lock", "slot", "job"} THEN "cancelled" ELSE pc[r]]
        /\ cur' = [r \in Run |-> NoDoc]
        /\ stage' = [r \in Run |-> IF stage[r] = "failed" THEN "failed" ELSE "none"]
        /\ UNCHANGED <<key, generation, docs, waves, dim, todo, wave, rows, outcome, asked>>
        /\ mixed' = mixed \cup (Range(cur) \cap Doc)
    BY <1>3 DEF Restart
  <2>2. JobTypeOK'
    BY <2>1 DEF PassInv, JobTypeOK
  <2>3. StageFits'
    BY <2>1 DEF PassInv, QueueInv, QueueTypeOK, JobTypeOK, StageFits, Running
  <2>4. DocsByKey'
    BY <2>1 DEF PassInv, DocsByKey, Exclusive
  <2> QED BY <1>1, <2>2, <2>3, <2>4 DEF PassInv
<1>4. ASSUME NEW r \in Run, Ask(r) PROVE PassInv'
  <2>1. /\ pc[r] = "new" /\ Went(r, TRUE)
        /\ UNCHANGED <<key, docs, waves, dim, todo, cur, stage, wave, rows, outcome, mixed>>
        /\ asked' = Append(asked, r)
    BY <1>4, AskMoves
  <2>2. JobTypeOK'
    BY <2>1 DEF PassInv, JobTypeOK
  <2>3. StageFits'
    BY <2>1 DEF PassInv, QueueInv, QueueTypeOK, StageFits, Running, Went
  <2>4. DocsByKey'
    BY <2>1 DEF PassInv, DocsByKey, Exclusive
  <2> QED BY <1>1, <2>2, <2>3, <2>4 DEF PassInv
<1>5. ASSUME NEW r \in Run, Proceed(r) PROVE PassInv'
  <2>1. /\ pc[r] \in {"lock", "slot"} /\ Went(r, IsCurrent(r))
        /\ UNCHANGED <<key, generations, generation, jobVars>>
    BY <1>5, ProceedMoves
  <2>2. JobTypeOK'
    BY <2>1 DEF PassInv, JobTypeOK, jobVars
  <2>3. StageFits'
    BY <2>1 DEF PassInv, QueueInv, QueueTypeOK, StageFits, Running, Went, jobVars
  <2>4. DocsByKey'
    BY <2>1 DEF PassInv, DocsByKey, Exclusive, jobVars
  <2> QED BY <1>1, <2>2, <2>3, <2>4 DEF PassInv
<1>6. ASSUME NEW r \in Run, FinishJob(r) \/ PassFails(r) PROVE PassInv'
  <2>1. /\ pc[r] = "job" /\ pc' = [pc EXCEPT ![r] = "done"] /\ key' = key /\ cur[r] = NoDoc
        /\ UNCHANGED <<docs, waves, dim, todo, cur, wave, rows, outcome, asked, mixed>>
        /\ stage' = stage \/ stage' = [stage EXCEPT ![r] = "failed"]
    BY <1>6, EndMoves DEF FinishJob, PassFails, jobVars
  <2>2. JobTypeOK'
    BY <2>1 DEF PassInv, JobTypeOK
  <2>3. StageFits'
    BY <2>1 DEF PassInv, QueueInv, QueueTypeOK, JobTypeOK, StageFits, Running
  <2>4. DocsByKey'
    BY <2>1 DEF PassInv, DocsByKey, Exclusive
  <2> QED BY <1>1, <2>2, <2>3, <2>4 DEF PassInv
<1>7. ASSUME NEW r \in Run, \/ PickDocument(r) \/ DeleteOld(r) \/ DeleteFails(r)
                            \/ StoreWave(r) \/ WaveFails(r) \/ Rollback(r)
      PROVE  PassInv'
  <2>1. UNCHANGED queueVars /\ UNCHANGED <<docs, waves, dim, asked>> /\ Running(r)
    BY <1>7 DEF PickDocument, DeleteOld, DeleteFails, StoreWave, WaveFails, Rollback
  <2>2. DocsByKey'
    BY <2>1 DEF PassInv, DocsByKey, Exclusive, queueVars
  <2>3. JobTypeOK' /\ StageFits'
    <3>1. CASE PickDocument(r)
      BY <1>1, <2>1, <3>1 DEF PassInv, JobTypeOK, StageFits, Running, PickDocument, queueVars
    <3>2. CASE DeleteOld(r)
      <4>1. /\ rows' = [rows EXCEPT ![cur[r]] = {}] /\ stage' = [stage EXCEPT ![r] = "embed"]
            /\ wave' = [wave EXCEPT ![r] = 1] /\ UNCHANGED <<pc, todo, cur, outcome>>
            /\ stage[r] = "delete" /\ pc[r] = "job" /\ cur[r] # NoDoc
            /\ mixed' \subseteq mixed
        BY <2>1, <3>2 DEF DeleteOld, PassInv, StageFits, JobTypeOK, Running, queueVars
      <4>2. rows' \in [Doc -> SUBSET ((Run \cup {NoRun}) \X (1..MaxWaves))]
        BY <4>1 DEF PassInv, JobTypeOK
      <4>3. wave' \in [Run -> 1..MaxWaves]
        BY <4>1, KbAssumption DEF PassInv, JobTypeOK
      <4>4. JobTypeOK'
        BY <2>1, <4>1, <4>2, <4>3 DEF PassInv, JobTypeOK
      <4>5. StageFits'
        BY <2>1, <4>1 DEF PassInv, JobTypeOK, StageFits, Running
      <4> QED BY <4>4, <4>5
    <3>3. cur[r] \in Doc \/ ~(DeleteFails(r) \/ StoreWave(r) \/ WaveFails(r) \/ Rollback(r))
      BY DEF PassInv, JobTypeOK, StageFits, DeleteFails, StoreWave, WaveFails, Rollback
    <3>4. CASE DeleteFails(r)
      <4>1. /\ UNCHANGED <<pc, todo, wave, rows, mixed>> /\ pc[r] = "job" /\ cur[r] \in Doc
            /\ EndPass(r, "failed") \/ EndPass(r, "lost")
            /\ "failed" \in Result /\ "lost" \in Result
        BY <2>1, <3>3, <3>4 DEF DeleteFails, Running, Result, queueVars
      <4> QED BY <2>1, <4>1, EndedPass DEF PassInv, JobTypeOK
    <3>5. CASE StoreWave(r)
      <4>1. /\ rows' = [rows EXCEPT ![cur[r]] = @ \cup {<<r, wave[r]>>}]
            /\ UNCHANGED <<pc, todo, mixed>>
            /\ stage[r] = "embed" /\ pc[r] = "job" /\ cur[r] \in Doc
        BY <2>1, <3>3, <3>5 DEF StoreWave, Running, queueVars
      <4>2. rows' \in [Doc -> SUBSET ((Run \cup {NoRun}) \X (1..MaxWaves))]
        BY <4>1 DEF PassInv, JobTypeOK
      <4>3. CASE wave[r] < waves[r]
        <5>1. wave' = [wave EXCEPT ![r] = @ + 1] /\ UNCHANGED <<cur, stage, outcome, mixed>>
          BY <3>5, <4>3 DEF StoreWave
        <5>2. wave' \in [Run -> 1..MaxWaves]
          BY <4>3, <5>1, KbAssumption DEF PassInv, JobTypeOK
        <5> QED BY <2>1, <4>1, <4>2, <5>1, <5>2 DEF PassInv, JobTypeOK, StageFits, Running
      <4>4. CASE ~(wave[r] < waves[r])
        <5>1. EndPass(r, "indexed") /\ wave' = wave /\ "indexed" \in Result
          BY <3>5, <4>4 DEF StoreWave, Result
        <5> QED BY <1>1, <2>1, <4>1, <4>2, <5>1, EndedPass
      <4> QED BY <4>3, <4>4
    <3>6. CASE WaveFails(r)
      BY <1>1, <2>1, <3>3, <3>6 DEF PassInv, JobTypeOK, StageFits, Running, WaveFails, queueVars
    <3>7. CASE Rollback(r)
      <4>1. /\ \/ rows' = [rows EXCEPT ![cur[r]] = {}]
               \/ rows' = rows
            /\ UNCHANGED <<pc, todo, wave, mixed>> /\ pc[r] = "job" /\ cur[r] \in Doc
            /\ EndPass(r, "failed") \/ EndPass(r, "lost")
            /\ "failed" \in Result /\ "lost" \in Result
        BY <2>1, <3>3, <3>7 DEF Rollback, Running, Result, queueVars
      <4>2. rows' \in [Doc -> SUBSET ((Run \cup {NoRun}) \X (1..MaxWaves))]
        BY <4>1 DEF PassInv, JobTypeOK
      <4> QED BY <2>1, <4>1, <4>2, EndedPass
    <3> QED BY <1>7, <3>1, <3>2, <3>4, <3>5, <3>6, <3>7
  <2> QED BY <1>1, <2>2, <2>3 DEF PassInv
<1> QED BY <1>2, <1>3, <1>4, <1>5, <1>6, <1>7 DEF Next, Job

LEMMA PassInitInv ==
  ASSUME Init
  PROVE  PassInv
<1>1. QueueInv
  BY QueueInitInv DEF Init
<1>2. JobTypeOK
  BY KbAssumption DEF Init, JobTypeOK, Result
<1>3. StageFits /\ DocsByKey
  BY DEF Init, StageFits, DocsByKey
<1> QED BY <1>1, <1>2, <1>3 DEF PassInv

(* What the position of a pass tells of its documents and of the queue:    *)
(* the inductive invariant of index_batching and of the passes above it.   *)
THEOREM PassInvariant == Spec => []PassInv
<1>1. Init => PassInv
  BY PassInitInv
<1>2. PassInv /\ [Next]_vars => PassInv'
  BY PassStep
<1> QED BY <1>1, <1>2, PTL DEF Spec
-----------------------------------------------------------------------------
(* Every request is answered for by itself or by a later one that covers   *)
(* its documents and is alive and current, was cut off, failed before its  *)
(* loop, or did everything.                                                *)
Answers(s) == \/ pc[s] \in {"lock", "slot", "job"} /\ IsCurrent(s)
              \/ pc[s] = "cancelled"
              \/ stage[s] = "failed"
              \/ pc[s] = "done" /\ todo[s] = {}

AskedOnce ==
  /\ \A i, j \in 1..Len(asked) : asked[i] = asked[j] => i = j
  /\ \A r \in Run : pc[r] # "new" <=> \E i \in 1..Len(asked) : asked[i] = r

Answered ==
  \A i \in 1..Len(asked) : \E j \in i..Len(asked), s \in Run :
    s = asked[j] /\ key[s] \in {key[asked[i]], GLOBAL} /\ Answers(s)

RedoneInv == PassInv /\ AskedOnce /\ Answered

LEMMA AnsweredKept ==
  ASSUME RedoneInv, asked' = asked, key' = key,
         \A r \in Run : pc[r] # "new" <=> pc[r]' # "new",
         \A s \in Run : Answers(s) => Answers(s)'
  PROVE  AskedOnce' /\ Answered'
<1>1. \A i \in 1..Len(asked) : asked[i] \in Run
  BY DEF RedoneInv, PassInv, JobTypeOK
<1>2. AskedOnce'
  BY DEF RedoneInv, AskedOnce
<1>3. ASSUME NEW i \in 1..Len(asked')
      PROVE  \E j \in i..Len(asked'), s \in Run :
               s = asked'[j] /\ key'[s] \in {key'[asked'[i]], GLOBAL} /\ Answers(s)'
  <2>1. PICK j \in i..Len(asked), s \in Run :
          s = asked[j] /\ key[s] \in {key[asked[i]], GLOBAL} /\ Answers(s)
    BY <1>3 DEF RedoneInv, Answered
  <2>2. Answers(s)'
    BY <2>1
  <2> QED BY <2>1, <2>2
<1>4. Answered'
  BY <1>3 DEF Answered
<1> QED BY <1>2, <1>4

LEMMA AnsweredAfterAsk ==
  ASSUME RedoneInv, NEW t \in Run, Ask(t)
  PROVE  AskedOnce' /\ Answered'
<1>0. PICK n : n = Len(asked)
  OBVIOUS
<1>1. /\ pc[t] = "new" /\ Went(t, TRUE) /\ asked' = Append(asked, t)
      /\ UNCHANGED <<key, docs, todo, stage>>
  BY AskMoves DEF RedoneInv
<1>2. /\ generations' = Bumped(key[t])
      /\ generation' = [generation EXCEPT ![t] = generations'[key[t]]]
  BY DEF Ask, Request
<1>3. /\ n \in Nat /\ Len(asked') = n + 1 /\ asked'[n + 1] = t
      /\ \A i \in 1..n : asked'[i] = asked[i] /\ asked[i] \in Run
  BY <1>0, <1>1 DEF RedoneInv, PassInv, JobTypeOK
<1>4. \A i \in 1..n : asked[i] # t
  BY <1>0, <1>1, <1>3 DEF RedoneInv, AskedOnce
<1>5. pc[t]' \in {"lock", "slot", "job"} /\ \A s \in Run \ {t} : pc[s]' = pc[s]
  BY <1>1 DEF Went, RedoneInv, PassInv, QueueInv, QueueTypeOK
<1>6. AskedOnce'
  <2>1. ASSUME NEW i \in 1..(n + 1), NEW j \in 1..(n + 1), asked'[i] = asked'[j]
        PROVE  i = j
    BY <1>0, <1>3, <1>4, <2>1 DEF RedoneInv, AskedOnce
  <2>2. ASSUME NEW r \in Run
        PROVE  pc[r]' # "new" <=> \E i \in 1..(n + 1) : asked'[i] = r
    <3>1. CASE r = t
      BY <1>3, <1>5, <3>1
    <3>2. CASE r # t
      BY <1>0, <1>3, <1>5, <3>2 DEF RedoneInv, AskedOnce
    <3> QED BY <3>1, <3>2
  <2> QED BY <1>3, <2>1, <2>2 DEF AskedOnce
<1>7. Answers(t)'
  <2>1. IsCurrent(t)'
    BY <1>1, <1>2 DEF IsCurrent, RedoneInv, PassInv, QueueInv, QueueTypeOK
  <2> QED BY <1>5, <2>1 DEF Answers
<1>8. ASSUME NEW s \in Run \ {t}, Answers(s), key[t] # GLOBAL, key[s] # key[t]
      PROVE  Answers(s)'
  <2>1. IsCurrent(s) => IsCurrent(s)'
    BY <1>1, <1>2, <1>8 DEF IsCurrent, Bumped, RedoneInv, PassInv, QueueInv, QueueTypeOK
  <2> QED BY <1>1, <1>5, <1>8, <2>1 DEF Answers
<1>9. ASSUME NEW i \in 1..(n + 1)
      PROVE  \E j \in i..(n + 1), s \in Run :
               s = asked'[j] /\ key'[s] \in {key'[asked'[i]], GLOBAL} /\ Answers(s)'
  <2>1. CASE i = n + 1
    BY <1>3, <1>7, <2>1
  <2>2. CASE i \in 1..n
    <3>1. PICK j \in i..n, s \in Run :
            s = asked[j] /\ key[s] \in {key[asked[i]], GLOBAL} /\ Answers(s)
      BY <1>0, <2>2 DEF RedoneInv, Answered
    <3>2. /\ j \in 1..n /\ s # t /\ asked[i] \in Run
          /\ asked'[j] = asked[j] /\ asked'[i] = asked[i]
      BY <1>3, <1>4, <2>2, <3>1
    <3>3. CASE key[t] # GLOBAL /\ key[s] # key[t]
      <4>1. Answers(s)'
        BY <1>8, <3>1, <3>2, <3>3
      <4>2. j \in i..(n + 1)
        BY <1>3, <3>1
      <4>3. s = asked'[j] /\ key'[s] \in {key'[asked'[i]], GLOBAL}
        BY <1>1, <3>1, <3>2
      <4> QED BY <4>1, <4>2, <4>3
    <3>4. CASE ~(key[t] # GLOBAL /\ key[s] # key[t])
      <4>1. key'[t] \in {key'[asked'[i]], GLOBAL}
        BY <1>1, <3>1, <3>2, <3>4
      <4>2. n + 1 \in i..(n + 1) /\ t = asked'[n + 1]
        BY <1>3, <2>2
      <4> QED BY <1>7, <4>1, <4>2
    <3> QED BY <3>3, <3>4
  <2>3. i \in 1..n \/ i = n + 1
    BY <1>3
  <2> QED BY <2>1, <2>2, <2>3
<1>10. Answered'
  BY <1>3, <1>9 DEF Answered
<1> QED BY <1>6, <1>10

LEMMA RedoneStep ==
  ASSUME RedoneInv, [Next]_vars
  PROVE  RedoneInv'
<1>1. PassInv'
  BY PassStep DEF RedoneInv
<1>2. CASE UNCHANGED vars
  <2>1. /\ asked' = asked /\ key' = key
        /\ UNCHANGED <<pc, stage, todo, generations, generation>>
    BY <1>2 DEF vars, queueVars, jobVars
  <2> QED BY <1>1, <2>1, AnsweredKept DEF RedoneInv, Answers, IsCurrent
<1>3. CASE Restart
  <2>1. /\ pc' = [r \in Run |-> IF pc[r] \in {"lock", "slot", "job"} THEN "cancelled" ELSE pc[r]]
        /\ stage' = [r \in Run |-> IF stage[r] = "failed" THEN "failed" ELSE "none"]
        /\ UNCHANGED <<key, generation, todo, asked>>
    BY <1>3 DEF Restart
  <2>2. \A s \in Run : Answers(s) => Answers(s)'
    BY <2>1 DEF Answers
  <2>3. \A r \in Run : pc[r] # "new" <=> pc[r]' # "new"
    BY <2>1 DEF RedoneInv, PassInv, QueueInv, QueueTypeOK
  <2> QED BY <1>1, <2>1, <2>2, <2>3, AnsweredKept DEF RedoneInv
<1>4. ASSUME NEW r \in Run, Ask(r) PROVE RedoneInv'
  BY <1>1, <1>4, AnsweredAfterAsk DEF RedoneInv
<1>5. ASSUME NEW r \in Run, Proceed(r) PROVE RedoneInv'
  <2>1. /\ pc[r] \in {"lock", "slot"} /\ Went(r, IsCurrent(r))
        /\ UNCHANGED <<key, generations, generation, jobVars>>
    BY <1>5, ProceedMoves DEF RedoneInv
  <2>2. PICK p \in {"lock", "slot", "job", "skipped"} :
          pc' = [pc EXCEPT ![r] = p] /\ (p = "skipped" => ~IsCurrent(r))
    BY <2>1 DEF Went
  <2>3. \A s \in Run : /\ pc[s] # "new" <=> pc[s]' # "new"
                       /\ Answers(s) => Answers(s)'
    BY <2>1, <2>2 DEF Answers, IsCurrent, jobVars, RedoneInv, PassInv, QueueInv, QueueTypeOK
  <2>4. asked' = asked /\ key' = key
    BY <2>1 DEF jobVars
  <2> QED BY <1>1, <2>3, <2>4, AnsweredKept DEF RedoneInv
<1>6. ASSUME NEW r \in Run, FinishJob(r) \/ PassFails(r) PROVE RedoneInv'
  <2>1. /\ pc[r] = "job" /\ pc' = [pc EXCEPT ![r] = "done"]
        /\ UNCHANGED <<key, generations, generation, todo, asked>>
    BY <1>6, EndMoves DEF FinishJob, PassFails, jobVars
  <2>2. \/ stage' = stage /\ (todo[r] = {} \/ ~IsCurrent(r))
        \/ stage' = [stage EXCEPT ![r] = "failed"]
    BY <1>6 DEF FinishJob, PassFails, jobVars
  <2>3. pc \in [Run -> {"new", "lock", "slot", "job", "done", "skipped", "cancelled"}]
        /\ stage \in [Run -> {"none", "failed", "delete", "embed", "rollback"}]
    BY DEF RedoneInv, PassInv, JobTypeOK, QueueInv, QueueTypeOK
  <2>4. ASSUME NEW s \in Run
        PROVE  (pc[s] # "new" <=> pc[s]' # "new") /\ (Answers(s) => Answers(s)')
    <3>1. CASE s = r
      BY <2>1, <2>2, <2>3, <3>1 DEF Answers
    <3>2. CASE s # r
      BY <2>1, <2>2, <2>3, <3>2 DEF Answers, IsCurrent
    <3> QED BY <3>1, <3>2
  <2> QED BY <1>1, <2>1, <2>4, AnsweredKept DEF RedoneInv
<1>7. ASSUME NEW r \in Run, \/ PickDocument(r) \/ DeleteOld(r) \/ DeleteFails(r)
                            \/ StoreWave(r) \/ WaveFails(r) \/ Rollback(r)
      PROVE  RedoneInv'
  <2>1. UNCHANGED queueVars /\ asked' = asked /\ pc[r] = "job" /\ stage[r] # "failed"
    BY <1>7 DEF PickDocument, DeleteOld, DeleteFails, StoreWave, WaveFails, Rollback, Running,
                RedoneInv, PassInv, StageFits
  <2>2. \A s \in Run \ {r} : stage[s]' = stage[s] /\ todo[s]' = todo[s]
    BY <1>7 DEF PickDocument, DeleteOld, DeleteFails, StoreWave, WaveFails, Rollback, EndPass,
                RedoneInv, PassInv, JobTypeOK
  <2>3. \A s \in Run : Answers(s) => Answers(s)'
    BY <2>1, <2>2 DEF Answers, IsCurrent, queueVars
  <2> QED BY <1>1, <2>1, <2>3, AnsweredKept DEF RedoneInv, queueVars
<1> QED BY <1>2, <1>3, <1>4, <1>5, <1>6, <1>7 DEF Next, Job

LEMMA RedoneImplies ==
  ASSUME RedoneInv, BaseDocs = {}
  PROVE  AbandonedIsRedone
<1>1. TypeOK
  BY DEF RedoneInv, PassInv, QueueInv, JobTypeOK, TypeOK
<1>2. ASSUME NEW r \in Run, pc[r] \in {"done", "skipped"}, stage[r] # "failed",
             NEW d \in todo[r]
      PROVE  \E s \in Run : /\ Later(s, r) /\ d \in docs[s]
                            /\ d \notin todo[s] \/ stage[s] = "failed"
                                 \/ pc[s] \in {"lock", "slot", "job", "cancelled"}
  <2>1. PICK i \in 1..Len(asked) : asked[i] = r
    BY <1>2 DEF RedoneInv, AskedOnce
  <2>2. PICK j \in i..Len(asked) : key[asked[j]] \in {key[r], GLOBAL} /\ Answers(asked[j])
    BY <2>1 DEF RedoneInv, Answered
  <2>3. ~Answers(r)
    BY <1>2 DEF Answers
  <2>4. j \in 1..Len(asked) /\ j > i /\ asked[j] \in Run
    BY <2>1, <2>2, <2>3 DEF RedoneInv, PassInv, JobTypeOK
  <2>5. At(r) = i
    BY <2>1 DEF At, RedoneInv, AskedOnce
  <2>6. Later(asked[j], r)
    BY <2>4, <2>5 DEF Later
  <2>7. d \in docs[asked[j]]
    <3>1. d \in docs[r] /\ docs[r] \in SUBSET Doc
      BY DEF RedoneInv, PassInv, JobTypeOK, StageFits
    <3>2. CASE key[asked[j]] = GLOBAL
      BY <2>4, <3>1, <3>2 DEF RedoneInv, PassInv, DocsByKey, Exclusive
    <3>3. CASE key[asked[j]] # GLOBAL
      <4>1. key[asked[j]] = key[r]
        BY <2>2, <3>3
      <4>2. docs[r] = EntityDocs[key[r]] /\ docs[asked[j]] = EntityDocs[key[r]]
        BY <2>4, <3>3, <4>1 DEF RedoneInv, PassInv, DocsByKey, Exclusive
      <4> QED BY <3>1, <4>2
    <3> QED BY <3>2, <3>3
  <2>8. \/ d \notin todo[asked[j]] \/ stage[asked[j]] = "failed"
        \/ pc[asked[j]] \in {"lock", "slot", "job", "cancelled"}
    BY <2>2 DEF Answers
  <2> QED BY <2>4, <2>6, <2>7, <2>8
<1> QED BY <1>1, <1>2 DEF AbandonedIsRedone

(* Work given up as outdated is in later hands, with any number of slots,  *)
(* entities and restarts, unless requests for single bases come under the  *)
(* cluster key.                                                            *)
THEOREM AbandonedIsTakenOver == BaseDocs = {} => (Spec => []AbandonedIsRedone)
<1> SUFFICES ASSUME BaseDocs = {} PROVE Spec => []AbandonedIsRedone
  OBVIOUS
<1>1. Init => RedoneInv
  <2> SUFFICES ASSUME Init PROVE RedoneInv
    OBVIOUS
  <2>1. asked = << >> /\ Len(asked) = 0 /\ \A r \in Run : pc[r] = "new"
    BY DEF Init, QueueInit
  <2> QED BY <2>1, PassInitInv DEF RedoneInv, AskedOnce, Answered
<1>2. RedoneInv /\ [Next]_vars => RedoneInv'
  BY RedoneStep
<1>3. RedoneInv => AbandonedIsRedone
  BY RedoneImplies
<1> QED BY <1>1, <1>2, <1>3, PTL DEF Spec
-----------------------------------------------------------------------------
(* The vectors of a document no two passes had at once, and no restart cut *)
(* off, since a pass deleted them: at most one pass has it now, and what   *)
(* is stored is what that pass, or the last one, has written.              *)
Untouched(d) == \A r \in Run : cur[r] = d => stage[r] = "delete"

Writer == Run \cup {NoRun}
WholeOrNone(v) == v = {} \/ \E q \in Writer : v = Whole(q)

One(d) == \A r, s \in Run : cur[r] = d /\ cur[s] = d => r = s

Between(d) == /\ outcome[d][1] # "lost" => WholeOrNone(rows[d])
              /\ \A q \in Writer : outcome[d] = <<"indexed", q>> => rows[d] = Whole(q)

Fit(d) ==
  /\ Untouched(d) => Between(d)
  /\ \A r \in Run : (cur[r] = d /\ stage[r] = "embed") =>
       wave[r] <= waves[r] /\ rows[d] = {<<r, i>> : i \in 1..(wave[r] - 1)}

RowsFit == \A d \in Doc \ mixed : One(d) /\ Fit(d)

(* Who is at d, where, and what is stored of it, stay as they are.         *)
SameAt(d) ==
  /\ rows'[d] = rows[d] /\ outcome'[d] = outcome[d] /\ waves' = waves
  /\ \A s \in Run : cur[s] = d <=> cur'[s] = d
  /\ \A s \in Run : cur[s] = d => stage'[s] = stage[s] /\ wave'[s] = wave[s]

LEMMA FitAside ==
  ASSUME NEW d, SameAt(d), One(d), Fit(d)
  PROVE  One(d)' /\ Fit(d)'
<1>1. One(d)'
  BY DEF SameAt, One
<1>2. \A q : Whole(q)' = Whole(q)
  BY DEF SameAt, Whole
<1>3. Untouched(d)' => Untouched(d)
  BY DEF SameAt, Untouched
<1>4. Between(d) => Between(d)'
  BY <1>2 DEF SameAt, Between, WholeOrNone
<1>5. Fit(d)'
  BY <1>3, <1>4 DEF SameAt, Fit
<1> QED BY <1>1, <1>5

(* The end of a pass that had d alone, whatever became of the vectors.     *)
LEMMA FitEnded ==
  ASSUME NEW d, NEW r \in Run, NEW how, NEW new,
         waves' = waves, rows'[d] = new, outcome'[d] = <<how, r>>,
         \A s \in Run : cur'[s] # d,
         how # "lost" => WholeOrNone(new), how = "indexed" => new = Whole(r)
  PROVE  One(d)' /\ Fit(d)'
<1>1. \A q : Whole(q)' = Whole(q)
  BY DEF Whole
<1>2. Between(d)'
  BY <1>1 DEF Between, WholeOrNone
<1> QED BY <1>2 DEF One, Fit

(* A step within a pass that has d alone.                                  *)
LEMMA FitTouched ==
  ASSUME NEW d, NEW r \in Run, \A s \in Run : cur'[s] = d => s = r,
         cur'[r] = d, stage'[r] \in {"embed", "rollback"}, waves' = waves,
         stage'[r] = "embed" =>
           wave'[r] <= waves[r] /\ rows'[d] = {<<r, i>> : i \in 1..(wave'[r] - 1)}
  PROVE  One(d)' /\ Fit(d)'
<1>1. One(d)'
  BY DEF One
<1>2. ~Untouched(d)'
  BY DEF Untouched
<1> QED BY <1>1, <1>2 DEF Fit

(* A pass that no other has begun on d takes it up.                        *)
LEMMA FitPicked ==
  ASSUME NEW d, NEW r \in Run, Fit(d), \A s \in Run : cur[s] # d,
         \A s \in Run : cur'[s] = d => s = r,
         stage'[r] = "delete", UNCHANGED <<waves, rows, outcome>>
  PROVE  One(d)' /\ Fit(d)'
<1>1. One(d)'
  BY DEF One
<1>2. Between(d)
  BY DEF Fit, Untouched
<1>3. \A q : Whole(q)' = Whole(q)
  BY DEF Whole
<1>4. Between(d)'
  BY <1>2, <1>3 DEF Between, WholeOrNone
<1> QED BY <1>1, <1>4 DEF Fit

Pass(r) == PickDocument(r) \/ DeleteOld(r) \/ DeleteFails(r) \/ StoreWave(r)
             \/ WaveFails(r) \/ Rollback(r)

(* A pass over one document leaves the others, and their passes, alone.    *)
LEMMA PassAside ==
  ASSUME PassInv, NEW r \in Run, Pass(r), NEW d \in Doc, cur[r] # d, cur'[r] # d
  PROVE  SameAt(d) /\ (d \notin mixed' => d \notin mixed)
<1>1. /\ rows \in [Doc -> SUBSET ((Run \cup {NoRun}) \X (1..MaxWaves))]
      /\ outcome \in [Doc -> Result \X (Run \cup {NoRun})]
      /\ cur \in [Run -> Doc \cup {NoDoc}] /\ wave \in [Run -> 1..MaxWaves]
      /\ stage \in [Run -> {"none", "failed", "delete", "embed", "rollback"}]
  BY DEF PassInv, JobTypeOK
<1>2. waves' = waves /\ rows'[d] = rows[d] /\ outcome'[d] = outcome[d]
  BY <1>1 DEF Pass, PickDocument, DeleteOld, DeleteFails, StoreWave, WaveFails, Rollback, EndPass
<1>3. \A s \in Run \ {r} : cur'[s] = cur[s] /\ stage'[s] = stage[s] /\ wave'[s] = wave[s]
  BY <1>1 DEF Pass, PickDocument, DeleteOld, DeleteFails, StoreWave, WaveFails, Rollback, EndPass
<1>4. d \notin mixed' => d \notin mixed
  BY DEF Pass, PickDocument, DeleteOld, DeleteFails, StoreWave, WaveFails, Rollback
<1> QED BY <1>2, <1>3, <1>4 DEF SameAt

(* A step of the pass that has d, begins it or ends it.                    *)
LEMMA PassAt ==
  ASSUME PassInv, RowsFit, NEW r \in Run, Pass(r), NEW d \in Doc, d \notin mixed',
         cur[r] = d \/ cur'[r] = d
  PROVE  One(d)' /\ Fit(d)'
<1>1. /\ rows \in [Doc -> SUBSET ((Run \cup {NoRun}) \X (1..MaxWaves))]
      /\ outcome \in [Doc -> Result \X (Run \cup {NoRun})]
      /\ cur \in [Run -> Doc \cup {NoDoc}] /\ wave \in [Run -> 1..MaxWaves]
      /\ waves \in [Run -> 1..MaxWaves]
      /\ stage \in [Run -> {"none", "failed", "delete", "embed", "rollback"}]
      /\ NoDoc \notin Doc
  BY KbAssumption DEF PassInv, JobTypeOK
<1>2. CASE PickDocument(r)
  <2>1. PICK e \in Doc : /\ cur' = [cur EXCEPT ![r] = e]
                         /\ mixed' = IF Alone(r, e) THEN mixed ELSE mixed \cup {e}
    BY <1>1, <1>2 DEF PickDocument, PassInv, JobTypeOK
  <2>2. /\ cur[r] = NoDoc /\ stage' = [stage EXCEPT ![r] = "delete"]
        /\ UNCHANGED <<waves, rows, outcome>>
    BY <1>2 DEF PickDocument
  <2>3. e = d /\ Alone(r, d) /\ d \notin mixed
    BY <1>1, <2>1, <2>2
  <2>4. \A s \in Run : cur[s] # d /\ (cur'[s] = d => s = r)
    BY <1>1, <2>1, <2>2, <2>3 DEF Alone
  <2>5. Fit(d) /\ stage'[r] = "delete"
    BY <1>1, <2>2, <2>3 DEF RowsFit
  <2> QED BY <2>2, <2>4, <2>5, FitPicked
<1>3. CASE DeleteOld(r)
  <2>1. /\ rows' = [rows EXCEPT ![cur[r]] = {}] /\ stage' = [stage EXCEPT ![r] = "embed"]
        /\ wave' = [wave EXCEPT ![r] = 1] /\ waves' = waves /\ cur' = cur
        /\ mixed' = IF Alone(r, cur[r]) THEN mixed \ {cur[r]} ELSE mixed
    BY <1>3 DEF DeleteOld
  <2>2. cur[r] = d
    BY <2>1
  <2>3. Alone(r, d)
    BY <2>1, <2>2 DEF RowsFit, One, Alone
  <2>4. \A s \in Run : cur'[s] = d => s = r
    BY <2>1, <2>3 DEF Alone
  <2>5. rows'[d] = {} /\ stage'[r] = "embed" /\ wave'[r] = 1 /\ 1 <= waves[r]
    BY <1>1, <2>1, <2>2
  <2>6. rows'[d] = {<<r, i>> : i \in 1..(wave'[r] - 1)}
    BY <2>5
  <2> QED BY <2>1, <2>2, <2>4, <2>5, <2>6, FitTouched
<1>4. CASE ~PickDocument(r) /\ ~DeleteOld(r)
  <2>1. /\ DeleteFails(r) \/ StoreWave(r) \/ WaveFails(r) \/ Rollback(r)
        /\ mixed' = mixed /\ waves' = waves
    BY <1>4 DEF Pass, DeleteFails, StoreWave, WaveFails, Rollback
  <2>2. cur[r] = d
    BY <1>1, <2>1 DEF DeleteFails, StoreWave, WaveFails, Rollback, EndPass
  <2>3. One(d) /\ Fit(d)
    BY <2>1 DEF RowsFit
  <2>4. \A s \in Run : cur[s] = d => s = r
    BY <2>2, <2>3 DEF One
  <2>5. ASSUME NEW how, EndPass(r, how)
        PROVE  outcome'[d] = <<how, r>> /\ \A s \in Run : cur'[s] # d
    BY <1>1, <2>2, <2>4, <2>5 DEF EndPass
  <2>6. CASE DeleteFails(r)
    <3>1. PICK how : how = IF outcome[d][1] = "lost" THEN "lost" ELSE "failed"
      OBVIOUS
    <3>2. EndPass(r, how) /\ rows' = rows /\ stage[r] = "delete"
      BY <2>2, <2>6, <3>1 DEF DeleteFails
    <3>3. Between(d)
      BY <2>3, <2>4, <3>2 DEF Fit, Untouched
    <3>4. (how # "lost" => WholeOrNone(rows'[d])) /\ how # "indexed"
      BY <3>1, <3>2, <3>3 DEF Between
    <3> QED BY <2>1, <2>5, <3>2, <3>4, FitEnded
  <2>7. CASE StoreWave(r)
    <3>1. /\ stage[r] = "embed" /\ wave[r] \in Nat \ {0} /\ waves[r] \in Nat
          /\ rows'[d] = rows[d] \cup {<<r, wave[r]>>}
      BY <1>1, <2>2, <2>7, KbAssumption DEF StoreWave
    <3>2. rows[d] = {<<r, i>> : i \in 1..(wave[r] - 1)} /\ wave[r] <= waves[r]
      BY <2>2, <2>3, <3>1 DEF Fit
    <3>3. rows'[d] = {<<r, i>> : i \in 1..wave[r]}
      BY <3>1, <3>2
    <3>4. CASE wave[r] < waves[r]
      <4>1. wave' = [wave EXCEPT ![r] = wave[r] + 1] /\ cur' = cur /\ stage' = stage
        BY <2>7, <3>4 DEF StoreWave
      <4>2. PICK w \in Nat : w = wave[r] + 1
        BY <3>1
      <4>3. wave'[r] = w /\ w <= waves[r] /\ w - 1 = wave[r]
        BY <1>1, <3>1, <3>4, <4>1, <4>2
      <4>4. rows'[d] = {<<r, i>> : i \in 1..(wave'[r] - 1)} /\ wave'[r] <= waves[r]
        BY <3>3, <4>3
      <4>5. \A s \in Run : cur'[s] = d => s = r
        BY <2>4, <4>1
      <4> QED BY <2>1, <2>2, <3>1, <4>1, <4>4, <4>5, FitTouched
    <3>5. CASE ~(wave[r] < waves[r])
      <4>1. EndPass(r, "indexed")
        BY <2>7, <3>5 DEF StoreWave
      <4>2. wave[r] = waves[r] /\ r # NoRun
        BY <3>1, <3>2, <3>5, QueueAssumption
      <4>3. rows'[d] = Whole(r)
        BY <3>3, <4>2 DEF Whole
      <4>4. WholeOrNone(rows'[d])
        BY <4>3 DEF WholeOrNone, Writer
      <4> QED BY <2>1, <2>5, <4>1, <4>3, <4>4, FitEnded
    <3> QED BY <3>4, <3>5
  <2>8. CASE WaveFails(r)
    <3>1. cur' = cur /\ stage'[r] = "rollback"
      BY <1>1, <2>8 DEF WaveFails
    <3>2. \A s \in Run : cur'[s] = d => s = r
      BY <2>4, <3>1
    <3> QED BY <2>1, <2>2, <3>1, <3>2, FitTouched
  <2>9. CASE Rollback(r)
    <3>1. WholeOrNone({})
      BY DEF WholeOrNone
    <3>2. CASE rows' = [rows EXCEPT ![cur[r]] = {}] /\ EndPass(r, "failed")
      <4>1. rows'[d] = {}
        BY <1>1, <2>2, <3>2
      <4> QED BY <2>1, <2>5, <3>1, <3>2, <4>1, FitEnded
    <3>3. CASE EndPass(r, "lost")
      BY <2>1, <2>5, <3>3, FitEnded
    <3> QED BY <2>9, <3>2, <3>3 DEF Rollback
  <2> QED BY <2>1, <2>6, <2>7, <2>8, <2>9
<1> QED BY <1>2, <1>3, <1>4

LEMMA RowsStep ==
  ASSUME PassInv, RowsFit, [Next]_vars
  PROVE  RowsFit'
<1> SUFFICES ASSUME NEW d \in Doc, d \notin mixed' PROVE One(d)' /\ Fit(d)'
  BY DEF RowsFit
<1>1. ASSUME SameAt(d), d \notin mixed PROVE One(d)' /\ Fit(d)'
  BY <1>1, FitAside DEF RowsFit
<1>2. ASSUME UNCHANGED <<waves, wave, rows, outcome, cur, mixed, stage>>
      PROVE  One(d)' /\ Fit(d)'
  BY <1>1, <1>2 DEF SameAt
<1>3. CASE UNCHANGED vars
  BY <1>2, <1>3 DEF vars, jobVars
<1>4. CASE Restart
  <2>1. /\ UNCHANGED <<waves, rows, outcome>> /\ cur' = [r \in Run |-> NoDoc]
        /\ mixed' = mixed \cup (Range(cur) \cap Doc)
    BY <1>4 DEF Restart
  <2>2. \A s \in Run : cur[s] # d /\ cur'[s] # d
    BY <2>1, KbAssumption DEF Range, PassInv, JobTypeOK
  <2> QED BY <1>1, <2>1, <2>2 DEF SameAt
<1>5. ASSUME NEW r \in Run, Ask(r) \/ Proceed(r) \/ FinishJob(r) PROVE One(d)' /\ Fit(d)'
  BY <1>2, <1>5 DEF Ask, Proceed, FinishJob, jobVars
<1>6. ASSUME NEW r \in Run, PassFails(r) PROVE One(d)' /\ Fit(d)'
  <2>1. /\ stage' = [stage EXCEPT ![r] = "failed"] /\ cur[r] # d
        /\ UNCHANGED <<waves, wave, rows, outcome, cur, mixed>>
    BY <1>6, KbAssumption DEF PassFails
  <2>2. \A s \in Run : cur[s] = d => stage'[s] = stage[s]
    BY <2>1 DEF PassInv, JobTypeOK
  <2> QED BY <1>1, <2>1, <2>2 DEF SameAt
<1>7. ASSUME NEW r \in Run, Pass(r) PROVE One(d)' /\ Fit(d)'
  BY <1>1, <1>7, PassAside, PassAt
<1> QED BY <1>3, <1>4, <1>5, <1>6, <1>7 DEF Next, Job, Pass

LEMMA RowsInit ==
  ASSUME Init
  PROVE  RowsFit
<1>1. /\ rows = [d \in Doc |-> {<<NoRun, 1>>}] /\ cur = [r \in Run |-> NoDoc]
      /\ outcome = [d \in Doc |-> <<"indexed", NoRun>>]
  BY DEF Init
<1>2. Whole(NoRun) = {<<NoRun, 1>>} /\ NoDoc \notin Doc
  BY KbAssumption DEF Whole
<1>3. ASSUME NEW d \in Doc PROVE One(d) /\ Fit(d)
  <2>1. \A r \in Run : cur[r] # d
    BY <1>1, <1>2
  <2>2. Between(d)
    BY <1>1, <1>2 DEF Between, WholeOrNone, Writer
  <2> QED BY <2>1, <2>2 DEF One, Fit
<1> QED BY <1>3 DEF RowsFit

LEMMA WholeInvariant == Spec => [](PassInv /\ RowsFit)
<1>1. Init => PassInv /\ RowsFit
  BY PassInitInv, RowsInit
<1>2. (PassInv /\ RowsFit) /\ [Next]_vars => (PassInv /\ RowsFit)'
  BY PassStep, RowsStep
<1> QED BY <1>1, <1>2, PTL DEF Spec

(* Between passes a document has all vectors of one pass or none, unless   *)
(* the rollback itself failed, or two passes had it at once or a restart   *)
(* cut one off and no pass has deleted its vectors alone since: with any   *)
(* limit of slots, over restarts (embed_and_store, lines 55-59).           *)
THEOREM PassesAreWhole == Spec => []WholeOrNothing
<1>1. PassInv /\ RowsFit => WholeOrNothing
  BY DEF RowsFit, Fit, Untouched, Between, WholeOrNothing, WholeOrNone, Writer, Idle
<1> QED BY <1>1, WholeInvariant, PTL

(* What was counted as indexed is what the last pass wrote, nothing older, *)
(* for the same documents.                                                 *)
THEOREM CountedPassesAreIndexed == Spec => []CountedIsIndexed
<1>1. PassInv /\ RowsFit => CountedIsIndexed
  <2> SUFFICES ASSUME PassInv, RowsFit, NEW d \in Doc \ mixed, Idle(d),
                      outcome[d][1] = "indexed"
               PROVE  rows[d] = Whole(outcome[d][2])
    BY DEF CountedIsIndexed
  <2>1. outcome[d][2] \in Writer /\ outcome[d] = <<"indexed", outcome[d][2]>>
    BY DEF PassInv, JobTypeOK, Writer
  <2>2. Between(d)
    BY DEF RowsFit, Fit, Untouched, Idle
  <2> QED BY <2>1, <2>2 DEF Between
<1> QED BY <1>1, WholeInvariant, PTL
=============================================================================
