--------------------------- MODULE LlamaPoolProofs ---------------------------
(***************************************************************************)
(* Theorems about the pool of models of llm-svc, for any requests, models, *)
(* size of the pool and number of replicas.                                *)
(***************************************************************************)
EXTENDS LlamaPool, SequenceTheorems, WellFoundedInduction, TLAPS

-----------------------------------------------------------------------------
(* Sequences without repetition: a queue of requests, the keys of the pool.*)
LEMMA Once ==
  ASSUME NEW S, NEW q \in Seq(S)
  PROVE  IsInjective(q) <=> \A i, j \in 1..Len(q) : q[i] = q[j] => i = j
<1>1. DOMAIN q = 1..Len(q)
  OBVIOUS
<1> QED BY <1>1 DEF IsInjective

LEMMA AppendNew ==
  ASSUME NEW S, NEW q \in Seq(S), NEW x \in S, IsInjective(q), x \notin Range(q)
  PROVE  IsInjective(Append(q, x))
  BY DEF IsInjective, Range

LEMMA AppendRange ==
  ASSUME NEW S, NEW q \in Seq(S), NEW x \in S
  PROVE  /\ Append(q, x) \in Seq(S) /\ Append(q, x) # << >>
         /\ Len(Append(q, x)) = Len(q) + 1
         /\ Range(Append(q, x)) = Range(q) \cup {x}
         /\ q # << >> => Head(Append(q, x)) = Head(q)
<1>1. /\ Append(q, x) \in Seq(S) /\ Len(Append(q, x)) = Len(q) + 1
      /\ Append(q, x)[Len(q) + 1] = x
      /\ \A i \in 1..Len(q) : Append(q, x)[i] = q[i]
  OBVIOUS
<1>2. Range(Append(q, x)) = Range(q) \cup {x}
  <2>1. DOMAIN Append(q, x) = 1..(Len(q) + 1) /\ DOMAIN q = 1..Len(q) /\ Len(q) \in Nat
    BY <1>1
  <2>2. \A i \in 1..(Len(q) + 1) : i \in 1..Len(q) \/ i = Len(q) + 1
    BY <2>1
  <2> QED BY <1>1, <2>1, <2>2 DEF Range
<1> QED BY <1>1, <1>2, AppendProperties, HeadTailAppend

LEMMA TailOf ==
  ASSUME NEW S, NEW q \in Seq(S), q # << >>, IsInjective(q)
  PROVE  /\ Tail(q) \in Seq(S) /\ Len(Tail(q)) = Len(q) - 1
         /\ IsInjective(Tail(q)) /\ Range(Tail(q)) = Range(q) \ {Head(q)}
         /\ Head(q) \in Range(q)
<1>1. /\ Tail(q) \in Seq(S) /\ Len(Tail(q)) = Len(q) - 1 /\ Len(q) \in Nat \ {0}
      /\ DOMAIN q = 1..Len(q) /\ DOMAIN Tail(q) = 1..(Len(q) - 1)
      /\ \A i \in 1..(Len(q) - 1) : Tail(q)[i] = q[i + 1]
      /\ Head(q) = q[1]
  OBVIOUS
<1>2. \A i \in 1..Len(q) : q[i] # q[1] => i - 1 \in 1..(Len(q) - 1) /\ Tail(q)[i - 1] = q[i]
  BY <1>1
<1>3. \A i \in 1..(Len(q) - 1) : i + 1 \in 1..Len(q) /\ Tail(q)[i] # q[1]
  BY <1>1 DEF IsInjective
<1>4. IsInjective(Tail(q))
  BY <1>1, <1>3 DEF IsInjective
<1>5. Range(Tail(q)) = Range(q) \ {Head(q)}
  <2>1. /\ Range(q) = {q[i] : i \in 1..Len(q)}
        /\ Range(Tail(q)) = {Tail(q)[i] : i \in 1..(Len(q) - 1)}
    BY <1>1 DEF Range
  <2>2. ASSUME NEW x \in Range(q), x # q[1] PROVE x \in Range(Tail(q))
    <3>1. PICK i \in 1..Len(q) : q[i] = x
      BY <2>1
    <3> QED BY <1>2, <2>1, <2>2, <3>1
  <2>3. ASSUME NEW x \in Range(Tail(q)) PROVE x \in Range(q) /\ x # q[1]
    <3>1. PICK i \in 1..(Len(q) - 1) : Tail(q)[i] = x
      BY <2>1
    <3>2. x = q[i + 1] /\ i + 1 \in 1..Len(q) /\ x # q[1]
      BY <1>1, <1>3, <3>1
    <3> QED BY <2>1, <3>2
  <2> QED BY <1>1, <2>2, <2>3
<1>6. Head(q) \in Range(q)
  BY <1>1 DEF Range
<1> QED BY <1>1, <1>4, <1>5, <1>6

LEMMA RangeIn ==
  ASSUME NEW S, NEW q \in Seq(S)
  PROVE  Range(q) \subseteq S /\ (Range(q) = {} <=> q = << >>)
  BY DEF Range

(* A sequence without its k-th element.                                    *)
LEMMA Removed ==
  ASSUME NEW q \in Seq(Model), NEW k \in 1..Len(q), NEW w, w = RemoveAt(q, k)
  PROVE  /\ w \in Seq(Model) /\ Len(w) = Len(q) - 1
         /\ \A i \in 1..(Len(q) - 1) : w[i] = IF i < k THEN q[i] ELSE q[i + 1]
<1> SUFFICES ASSUME NEW S, S = Model, NEW n \in Nat, n = Len(q)
             PROVE  /\ w \in Seq(S) /\ Len(w) = n - 1
                    /\ \A i \in 1..(n - 1) : w[i] = IF i < k THEN q[i] ELSE q[i + 1]
  OBVIOUS
<1> DEFINE a == SubSeq(q, 1, k - 1)
           b == SubSeq(q, k + 1, n)
<1>1. \A i \in 1..n : q[i] \in S
  OBVIOUS
<1>2. a \in Seq(S) /\ Len(a) = k - 1 /\ \A i \in 1..(k - 1) : a[i] = q[i]
  OBVIOUS
<1>3. b \in Seq(S) /\ Len(b) = n - k /\ \A i \in 1..(n - k) : b[i] = q[i + k]
  <2>1. \A i \in (k + 1)..n : q[i] \in S
    BY <1>1
  <2>2. /\ b \in Seq(S) /\ Len(b) = IF k + 1 <= n THEN n - (k + 1) + 1 ELSE 0
        /\ \A i \in 1..(n - (k + 1) + 1) : b[i] = q[k + 1 + i - 1]
    BY <2>1, SubSeqProperties
  <2> HIDE DEF b
  <2>3. \A i \in 1..(n - k) : i \in 1..(n - (k + 1) + 1) /\ k + 1 + i - 1 = i + k
    OBVIOUS
  <2>4. (IF k + 1 <= n THEN n - (k + 1) + 1 ELSE 0) = n - k
    OBVIOUS
  <2>5. ASSUME NEW i \in 1..(n - k) PROVE b[i] = q[i + k]
    <3>1. b[i] = q[k + 1 + i - 1]
      BY <2>2, <2>3
    <3>2. k + 1 + i - 1 = i + k
      BY <2>3
    <3> QED BY <3>1, <3>2, Zenon
  <2> QED BY <2>2, <2>4, <2>5
<1>4. RemoveAt(q, k) = a \o b
  BY DEF RemoveAt
<1> HIDE DEF a, b
<1>5. /\ a \o b \in Seq(S) /\ Len(a \o b) = Len(a) + Len(b)
      /\ \A i \in 1..(Len(a) + Len(b)) : (a \o b)[i] = IF i <= Len(a) THEN a[i] ELSE b[i - Len(a)]
  BY <1>2, <1>3, ConcatProperties
<1>6. Len(a) + Len(b) = n - 1
  BY <1>2, <1>3
<1>7. ASSUME NEW i \in 1..(n - 1)
      PROVE  (a \o b)[i] = IF i < k THEN q[i] ELSE q[i + 1]
  <2>1. CASE i < k
    BY <1>2, <1>5, <1>6, <2>1
  <2>2. CASE ~(i < k)
    <3>1. i - (k - 1) \in 1..(n - k) /\ i - (k - 1) + k = i + 1 /\ ~(i <= k - 1)
      BY <2>2
    <3>2. (a \o b)[i] = b[i - (k - 1)]
      BY <1>2, <1>5, <1>6, <3>1
    <3>3. b[i - (k - 1)] = q[i - (k - 1) + k]
      BY <1>3, <3>1
    <3> QED BY <2>2, <3>1, <3>2, <3>3
  <2> QED BY <2>1, <2>2
<1> QED BY <1>4, <1>5, <1>6, <1>7

(* What Touch does to the keys: nothing but a new order.                   *)
LEMMA TouchKeeps ==
  ASSUME NEW q \in Seq(Model), IsInjective(q), NEW m \in Model
  PROVE  /\ Touch(q, m) \in Seq(Model) /\ Len(Touch(q, m)) = Len(q)
         /\ IsInjective(Touch(q, m)) /\ Range(Touch(q, m)) = Range(q)
         /\ Touch(q, m) = << >> <=> q = << >>
<1>1. CASE m \notin Range(q)
  BY <1>1 DEF Touch
<1>2. CASE m \in Range(q)
  <2> DEFINE k == CHOOSE i \in DOMAIN q : q[i] = m
             w == Without(q, m)
  <2>1. k \in 1..Len(q) /\ q[k] = m /\ Len(q) \in Nat /\ DOMAIN q = 1..Len(q)
    <3>1. \E i \in DOMAIN q : q[i] = m
      BY <1>2 DEF Range
    <3> QED BY <3>1
  <2>2. w = RemoveAt(q, k)
    BY DEF Without
  <2> HIDE DEF k, w
  <2>3. /\ w \in Seq(Model) /\ Len(w) = Len(q) - 1
        /\ \A i \in 1..(Len(q) - 1) : w[i] = IF i < k THEN q[i] ELSE q[i + 1]
    BY <2>1, <2>2, Removed
  <2>4. IsInjective(w)
    <3>1. ASSUME NEW n \in Nat, n = Len(q), NEW i \in 1..(n - 1), NEW j \in 1..(n - 1), w[i] = w[j]
          PROVE  i = j
      <4>1. \A x, y \in 1..n : q[x] = q[y] => x = y
        BY <3>1, Once
      <4>2. i \in 1..n /\ i + 1 \in 1..n /\ j \in 1..n /\ j + 1 \in 1..n
        OBVIOUS
      <4>3. PICK x \in {i, i + 1}, y \in {j, j + 1} :
              /\ q[x] = q[y] /\ (x = i <=> i < k) /\ (y = j <=> j < k)
        BY <2>3, <3>1
      <4>4. x = y
        BY <4>1, <4>2, <4>3
      <4> QED BY <2>1, <3>1, <4>3, <4>4
    <3> QED BY <2>1, <2>3, <3>1, Once
  <2>5. \A i \in 1..(Len(q) - 1) : w[i] # m /\ w[i] \in Range(q)
    BY <2>1, <2>3 DEF IsInjective, Range
  <2>6. \A i \in 1..Len(q) : i = k \/ q[i] \in Range(w)
    <3> TAKE i \in 1..Len(q)
    <3>1. CASE i < k
      <4>1. i \in 1..(Len(q) - 1) /\ w[i] = q[i]
        BY <2>1, <2>3, <3>1
      <4> QED BY <2>3, <4>1 DEF Range
    <3>2. CASE i > k
      <4>1. i - 1 \in 1..(Len(q) - 1) /\ w[i - 1] = q[i]
        BY <2>1, <2>3, <3>2
      <4> QED BY <2>3, <4>1 DEF Range
    <3> QED BY <2>1, <3>1, <3>2
  <2>7. DOMAIN w = 1..(Len(q) - 1)
    BY <2>1, <2>3
  <2>8. m \notin Range(w) /\ Range(w) \subseteq Range(q)
    BY <2>5, <2>7 DEF Range
  <2>9. Range(q) = Range(w) \cup {m}
    BY <2>1, <2>6, <2>8, <1>2 DEF Range
  <2>10. Touch(q, m) = Append(w, m)
    BY <1>2 DEF Touch, w
  <2>11. IsInjective(Append(w, m))
    BY <2>3, <2>4, <2>8, AppendNew
  <2>12. /\ Append(w, m) \in Seq(Model) /\ Append(w, m) # << >>
         /\ Len(Append(w, m)) = Len(w) + 1
         /\ Range(Append(w, m)) = Range(w) \cup {m}
    BY <2>3, AppendRange
  <2>13. q # << >>
    BY <2>1
  <2> QED BY <2>1, <2>3, <2>9, <2>10, <2>11, <2>12, <2>13
<1> QED BY <1>1, <1>2

(* What is left when the eldest keys give way.                             *)
LEMMA KeptOf ==
  ASSUME NEW q \in Seq(Model), IsInjective(q), NEW n \in Nat
  PROVE  /\ Kept(q, n) \in Seq(Model) /\ Len(Kept(q, n)) <= n
         /\ IsInjective(Kept(q, n)) /\ Range(Kept(q, n)) \subseteq Range(q)
<1>1. CASE Len(q) <= n
  BY <1>1 DEF Kept
<1>2. CASE Len(q) > n
  <2> DEFINE w == SubSeq(q, Len(q) - n + 1, Len(q))
  <2>1. Kept(q, n) = w
    BY <1>2 DEF Kept
  <2>2. /\ w \in Seq(Model) /\ Len(w) = n
        /\ \A i \in 1..n : w[i] = q[Len(q) - n + i]
    BY <1>2
  <2>3. \A i \in 1..n : Len(q) - n + i \in 1..Len(q)
    BY <1>2
  <2> HIDE DEF w
  <2>4. DOMAIN w = 1..n /\ DOMAIN q = 1..Len(q)
    BY <2>2
  <2>5. IsInjective(w)
    <3>1. ASSUME NEW i \in 1..n, NEW j \in 1..n, w[i] = w[j] PROVE i = j
      <4>1. q[Len(q) - n + i] = q[Len(q) - n + j]
        BY <2>2, <3>1
      <4>2. Len(q) - n + i \in 1..Len(q) /\ Len(q) - n + j \in 1..Len(q)
        BY <2>3
      <4>3. Len(q) - n + i = Len(q) - n + j
        BY <4>1, <4>2, Once
      <4> QED BY <4>3
    <3> QED BY <2>2, <3>1, Once
  <2>6. Range(w) \subseteq Range(q)
    <3> SUFFICES ASSUME NEW x \in Range(w) PROVE x \in Range(q)
      OBVIOUS
    <3>1. PICK i \in 1..n : x = w[i]
      BY <2>4 DEF Range
    <3> QED BY <2>2, <2>3, <2>4, <3>1 DEF Range
  <2> QED BY <2>1, <2>2, <2>5, <2>6
<1> QED BY <1>1, <1>2

-----------------------------------------------------------------------------
(* The switch lock has one entry for every request that waits for it or    *)
(* holds it, and a build under the lock is its holder's.                   *)
Queued == {"first", "publish", "failed", "restore", "trim", "trimBuild"}

SwitchInv ==
  /\ IsInjective(switch)
  /\ \A t \in Task : pc[t] \in Queued <=> t \in Range(switch)
  /\ \A t \in Task : pc[t] \in {"restore", "trimBuild"} => HasSwitch(t)

(* What a request asks for, by its position.                               *)
JobInv ==
  \A t \in Task :
    /\ want[t] = AnyModel => job[t] = "chat"
    /\ pc[t] \in {"first", "build", "publish", "failed", "restore"} => want[t] \in Model
    /\ pc[t] = "replica" => target[t] \in Model

(* Keys and replicas of the pool; whose the replicas are and where.  Before*)
(* a request has published, no replica of the pool is its work.            *)
Before == {"new", "first", "build", "publish", "failed", "restore", "trim", "trimBuild"}

KeysInv ==
  /\ IsInjective(lru)
  /\ \A m \in Model : Loaded(m) <=> slots[m] # {}
  /\ \A t \in Task : pc[t] = "trimBuild" => lru = << >>
  /\ \A t \in Task : pc[t] = "restore" => want[t] # Default /\ ~Loaded(Default)

ReplicaInv ==
  /\ \A m \in Model : \A r \in slots[m] : r.of = m
  /\ \A t \in Task : \A r \in fresh[t] : r.by = t /\ r.of = want[t]
  /\ \A t \in Task : fresh[t] # {} <=> pc[t] = "publish"
  /\ \A t \in Task : pc[t] \in Before => \A m \in Model : \A r \in slots[m] : r.by # t
  /\ \A r \in Replica : r \in live <=> \/ \E m \in Model : r \in slots[m]
                                     \/ \E t \in Task : r \in fresh[t]

PrimaryInv ==
  (\A t \in Task : pc[t] # "trimBuild") =>
    IF lru = << >> THEN primary = None ELSE Loaded(primary)

PoolInv == TypeOK /\ SwitchInv /\ JobInv /\ KeysInv /\ ReplicaInv /\ PrimaryInv /\ PoolBounded

-----------------------------------------------------------------------------
(* The lock: a request joins its queue, leaves it at the head, stays at    *)
(* the head, or has nothing to do with it.                                 *)
LEMMA Joins ==
  ASSUME TypeOK, SwitchInv, NEW t \in Task, pc[t] \notin Queued,
         NEW l \in Queued \ {"restore", "trimBuild"}, Queue(t, l)
  PROVE  SwitchInv'
<1>1. switch' = Append(switch, t) /\ switch \in Seq(Task)
  BY DEF Queue, TypeOK
<1>2. /\ switch' # << >> /\ Range(switch') = Range(switch) \cup {t}
      /\ switch # << >> => Head(switch') = Head(switch)
  BY <1>1, AppendRange
<1>3. t \notin Range(switch)
  BY DEF SwitchInv
<1>4. IsInjective(switch')
  BY <1>1, <1>3, AppendNew DEF SwitchInv
<1>5. pc' = [pc EXCEPT ![t] = l] /\ pc \in [Task -> PC]
  BY DEF Queue, Goto, TypeOK
<1>6. \A u \in Task : pc'[u] \in Queued <=> u \in Range(switch')
  BY <1>2, <1>5 DEF SwitchInv
<1>7. \A u \in Task : pc'[u] \in {"restore", "trimBuild"} => HasSwitch(u)'
  BY <1>2, <1>5 DEF SwitchInv, HasSwitch
<1> QED BY <1>4, <1>6, <1>7 DEF SwitchInv

LEMMA Leaves ==
  ASSUME TypeOK, SwitchInv, NEW t \in Task, HasSwitch(t), switch' = Tail(switch),
         NEW l \in PC \ Queued, Goto(t, l)
  PROVE  SwitchInv'
<1>1. /\ IsInjective(switch') /\ Range(switch') = Range(switch) \ {t}
  BY TailOf DEF TypeOK, SwitchInv, HasSwitch
<1>2. pc' = [pc EXCEPT ![t] = l] /\ pc \in [Task -> PC]
  BY DEF Goto, TypeOK
<1>3. \A u \in Task : pc'[u] \in Queued <=> u \in Range(switch')
  BY <1>1, <1>2 DEF SwitchInv
<1>4. \A u \in Task : pc'[u] \notin {"restore", "trimBuild"}
  BY <1>2 DEF SwitchInv, HasSwitch, Queued
<1> QED BY <1>1, <1>3, <1>4 DEF SwitchInv

LEMMA Stays ==
  ASSUME TypeOK, SwitchInv, NEW t \in Task, HasSwitch(t), UNCHANGED switch,
         pc[t] \in Queued, NEW l \in Queued, Goto(t, l)
  PROVE  SwitchInv'
<1>1. pc' = [pc EXCEPT ![t] = l] /\ pc \in [Task -> PC]
  BY DEF Goto, TypeOK
<1>2. \A u \in Task : pc'[u] \in Queued <=> u \in Range(switch')
  BY <1>1 DEF SwitchInv
<1>3. \A u \in Task : pc'[u] \in {"restore", "trimBuild"} => HasSwitch(u)'
  BY <1>1 DEF SwitchInv, HasSwitch
<1> QED BY <1>2, <1>3 DEF SwitchInv

LEMMA Elsewhere ==
  ASSUME TypeOK, SwitchInv, NEW t \in Task, UNCHANGED switch,
         pc[t] \notin Queued, NEW l \in PC \ Queued, Goto(t, l)
  PROVE  SwitchInv'
<1>1. pc' = [pc EXCEPT ![t] = l] /\ pc \in [Task -> PC]
  BY DEF Goto, TypeOK
<1>2. \A u \in Task : pc'[u] \in Queued <=> u \in Range(switch')
  BY <1>1 DEF SwitchInv
<1>3. \A u \in Task : pc'[u] \in {"restore", "trimBuild"} => HasSwitch(u)'
  BY <1>1 DEF SwitchInv, HasSwitch, Queued
<1> QED BY <1>2, <1>3 DEF SwitchInv

(* Where a request goes that has its model, or whose load is over.         *)
LEMMA DoneGoes ==
  ASSUME NEW t \in Task, NEW q, NEW p, LoadDone(t, q, p)
  PROVE  \E l \in {"replica", "done"} : Goto(t, l)
  BY DEF LoadDone, Resolved

LEMMA SwitchStep == TypeOK /\ SwitchInv /\ [Next]_vars => SwitchInv'
<1> SUFFICES ASSUME TypeOK, SwitchInv, [Next]_vars PROVE SwitchInv'
  OBVIOUS
<1> USE DEF Queued, PC
<1>1. ASSUME NEW t \in Task, ChatArrives(t) PROVE SwitchInv'
  <2>1. CASE Queue(t, "first")
    BY <1>1, <2>1, Joins DEF ChatArrives
  <2>2. CASE UNCHANGED switch /\ Goto(t, "refused")
    BY <1>1, <2>2, Elsewhere DEF ChatArrives
  <2>3. CASE UNCHANGED switch /\ Goto(t, "replica")
    BY <1>1, <2>3, Elsewhere DEF ChatArrives
  <2> QED BY <1>1, <2>1, <2>2, <2>3 DEF ChatArrives, Resolved
<1>2. ASSUME NEW t \in Task, LoadArrives(t) PROVE SwitchInv'
  BY <1>2, Joins DEF LoadArrives
<1>3. ASSUME NEW t \in Task, TrimArrives(t) PROVE SwitchInv'
  BY <1>3, Joins DEF TrimArrives
<1>4. ASSUME NEW t \in Task, AlreadyLoaded(t) PROVE SwitchInv'
  <2>1. PICK l \in {"replica", "done"} : Goto(t, l)
    BY <1>4, DoneGoes DEF AlreadyLoaded
  <2> QED BY <1>4, <2>1, Leaves DEF AlreadyLoaded
<1>5. ASSUME NEW t \in Task, MakeRoom(t) PROVE SwitchInv'
  BY <1>5, Leaves DEF MakeRoom
<1>6. ASSUME NEW t \in Task, BuildEnds(t) PROVE SwitchInv'
  BY <1>6, Joins DEF BuildEnds
<1>7. ASSUME NEW t \in Task, BuildFails(t) PROVE SwitchInv'
  BY <1>7, Joins DEF BuildFails
<1>8. ASSUME NEW t \in Task, Publish(t) PROVE SwitchInv'
  <2>1. PICK l \in {"replica", "done"} : Goto(t, l)
    BY <1>8, DoneGoes DEF Publish
  <2> QED BY <1>8, <2>1, Leaves DEF Publish
<1>9. ASSUME NEW t \in Task, NothingToRestore(t) PROVE SwitchInv'
  <2>1. PICK l \in {"refused", "done"} : Goto(t, l)
    BY <1>9 DEF NothingToRestore, LoadFailed
  <2> QED BY <1>9, <2>1, Leaves DEF NothingToRestore
<1>10. ASSUME NEW t \in Task, BeginRestore(t) PROVE SwitchInv'
  BY <1>10, Stays DEF BeginRestore
<1>11. ASSUME NEW t \in Task, RestoreEnds(t) PROVE SwitchInv'
  <2>1. PICK l \in {"refused", "done"} : Goto(t, l)
    BY <1>11 DEF RestoreEnds, LoadFailed
  <2>2. HasSwitch(t)
    BY <1>11 DEF RestoreEnds, SwitchInv
  <2> QED BY <1>11, <2>1, <2>2, Leaves DEF RestoreEnds
<1>12. ASSUME NEW t \in Task, Trim(t) PROVE SwitchInv'
  <2>1. CASE switch' = Tail(switch) /\ Goto(t, "done")
    BY <1>12, <2>1, Leaves DEF Trim
  <2>2. CASE UNCHANGED switch /\ Goto(t, "trimBuild")
    BY <1>12, <2>2, Stays DEF Trim
  <2> QED BY <1>12, <2>1, <2>2 DEF Trim
<1>13. ASSUME NEW t \in Task, TrimEnds(t) PROVE SwitchInv'
  <2>1. HasSwitch(t)
    BY <1>13 DEF TrimEnds, SwitchInv
  <2> QED BY <1>13, <2>1, Leaves DEF TrimEnds
<1>14. ASSUME NEW t \in Task, Acquire(t) PROVE SwitchInv'
  BY <1>14, Elsewhere DEF Acquire
<1>15. ASSUME NEW t \in Task, ModelGone(t) PROVE SwitchInv'
  BY <1>15, Elsewhere DEF ModelGone
<1>16. ASSUME NEW t \in Task, GenerationEnds(t) PROVE SwitchInv'
  BY <1>16, Elsewhere DEF GenerationEnds
<1>17. ASSUME NEW t \in Task, Disconnect(t) \/ DisconnectAtChunk(t) PROVE SwitchInv'
  BY <1>17, Elsewhere DEF Disconnect, DisconnectAtChunk
<1>18. ASSUME NEW t \in Task, ThreadEnds(t) PROVE SwitchInv'
  BY <1>18 DEF ThreadEnds, SwitchInv, HasSwitch
<1>19. CASE UNCHANGED vars
  BY <1>19 DEF vars, SwitchInv, HasSwitch
<1> QED BY <1>1, <1>2, <1>3, <1>4, <1>5, <1>6, <1>7, <1>8, <1>9, <1>10, <1>11, <1>12, <1>13, <1>14, <1>15, <1>16, <1>17, <1>18, <1>19
    DEF Next, Arrive, Serve, Load

-----------------------------------------------------------------------------
(* The free replica of the lowest number.                                  *)
LEMMA LeastOfOrdered ==
  ASSUME NEW T \in SUBSET Nat, T # {}, NEW Below,
         IsWellFoundedOn(Below, Nat), \A x, y \in Nat : y < x => <<y, x>> \in Below
  PROVE  \E m \in T : \A k \in T : m <= k
<1>1. PICK m \in T : \A k \in T : <<k, m>> \notin Below
  BY WFMin
<1>2. \A k \in T : ~(k < m)
  BY <1>1
<1>3. \A k \in T : m <= k
  BY <1>2, SMT
<1> QED BY <1>3

LEMMA LowestReplica ==
  ASSUME NEW F \in SUBSET Replica, F # {}
  PROVE  \E r \in F : \A s \in F : r.no <= s.no
<1> DEFINE N == {r.no : r \in F}
<1>1. N \in SUBSET Nat /\ N # {}
  BY PoolAssumption DEF Replica
<1>2. \A x, y \in Nat : y < x => <<y, x>> \in OpToRel(<, Nat)
  BY DEF OpToRel
<1>3. \E m \in N : \A k \in N : m <= k
  <2> HIDE DEF N, OpToRel
  <2> QED BY <1>1, <1>2, NatLessThanWellFounded, LeastOfOrdered
<1> QED BY <1>3

LEMMA BuiltIn ==
  ASSUME NEW t \in Task \cup {None}, NEW m \in Model, NEW n \in 1..Replicas
  PROVE  /\ Built(t, m, n) \subseteq Replica /\ Built(t, m, n) # {}
         /\ \A r \in Built(t, m, n) : r.by = t /\ r.of = m
<1>1. 1 \in 1..n /\ 1..n \subseteq 1..Replicas
  BY PoolAssumption
<1>2. [by |-> t, of |-> m, no |-> 1] \in Built(t, m, n)
  BY <1>1 DEF Built
<1> QED BY <1>1, <1>2 DEF Built, Replica

(* Typing, and what a request asks for.                                    *)
TypeJob == TypeOK /\ JobInv /\ KeysInv

LEMMA ResolvedType ==
  ASSUME TypeJob, NEW t \in Task, NEW q \in Seq(Model), IsInjective(q), q # << >>, NEW p,
         Resolved(t, q, p)
  PROVE  /\ lru' \in Seq(Model) /\ pc' = [pc EXCEPT ![t] = "replica"]
         /\ \E m \in Model : target' = [target EXCEPT ![t] = m]
         /\ IsInjective(lru') /\ Len(lru') = Len(q) /\ Range(lru') = Range(q)
         /\ UNCHANGED <<holds, thread>>
<1> DEFINE m == IF want[t] # AnyModel THEN want[t] ELSE IF p \in Range(q) THEN p ELSE Head(q)
<1>1. m \in Model
  <2>1. want[t] \in Model \cup {AnyModel}
    BY DEF TypeJob, TypeOK
  <2>2. Head(q) \in Model /\ Range(q) \subseteq Model
    BY RangeIn
  <2> QED BY <2>1, <2>2
<1>2. lru' = Touch(q, m) /\ target' = [target EXCEPT ![t] = m] /\ pc' = [pc EXCEPT ![t] = "replica"]
  BY DEF Resolved, Goto
<1>3. UNCHANGED <<holds, thread>>
  BY DEF Resolved
<1> HIDE DEF m
<1> QED BY <1>1, <1>2, <1>3, TouchKeeps

(* The end of a load leaves the keys as they are, up to their order.       *)
LEMMA LoadDoneType ==
  ASSUME TypeJob, NEW t \in Task, NEW q \in Seq(Model), IsInjective(q), q # << >>,
         NEW p, LoadDone(t, q, p)
  PROVE  /\ lru' \in Seq(Model) /\ IsInjective(lru') /\ Len(lru') = Len(q)
         /\ Range(lru') = Range(q)
         /\ \E l \in {"replica", "done"} :
              /\ pc' = [pc EXCEPT ![t] = l]
              /\ l = "replica" => target'[t] \in Model
         /\ target' \in [Task -> Model \cup {None}] /\ UNCHANGED <<holds, thread>>
         /\ \A u \in Task : u # t => target'[u] = target[u]
<1>1. CASE job[t] = "chat"
  <2>1. Resolved(t, q, p)
    BY <1>1 DEF LoadDone
  <2>2. PICK m \in Model : target' = [target EXCEPT ![t] = m]
    BY <2>1, ResolvedType
  <2>3. target \in [Task -> Model \cup {None}]
    BY DEF TypeJob, TypeOK
  <2>4. /\ lru' \in Seq(Model) /\ pc' = [pc EXCEPT ![t] = "replica"]
        /\ IsInjective(lru') /\ Len(lru') = Len(q) /\ Range(lru') = Range(q)
        /\ UNCHANGED <<holds, thread>>
    BY <2>1, ResolvedType
  <2> QED BY <2>2, <2>3, <2>4
<1>2. CASE job[t] # "chat"
  BY <1>2 DEF LoadDone, Goto, chatVars, TypeJob, TypeOK
<1> QED BY <1>1, <1>2

LEMMA ShrunkType ==
  ASSUME TypeOK, NEW q \in Seq(Model)
  PROVE  /\ Shrunk(q) \in [Model -> SUBSET Replica]
         /\ PrimaryAmong(q) \in Model \cup {None} /\ FirstOf(q) \in Model \cup {None}
         /\ Kept(q, MaxLoaded - 1) \in Seq(Model)
<1>1. q # << >> => Head(q) \in Model
  OBVIOUS
<1>2. Kept(q, MaxLoaded - 1) \in Seq(Model)
  <2>1. MaxLoaded - 1 \in Nat /\ Len(q) \in Nat
    BY PoolAssumption
  <2> QED BY <2>1 DEF Kept
<1> QED BY <1>1, <1>2 DEF TypeOK, Shrunk, PrimaryAmong, FirstOf

LEMMA InsertType ==
  ASSUME TypeOK, NEW t \in Task, InsertDefault(t)
  PROVE  /\ lru' \in Seq(Model) /\ slots' \in [Model -> SUBSET Replica]
         /\ live' \subseteq Replica /\ primary' \in Model \cup {None}
<1>1. PICK n \in 1..Replicas :
        /\ lru' = Append(lru, Default)
        /\ slots' = [slots EXCEPT ![Default] = Built(t, Default, n)]
        /\ live' = live \cup Built(t, Default, n)
        /\ primary' = Default
  BY DEF InsertDefault
<1>2. Built(t, Default, n) \subseteq Replica
  BY PoolAssumption, BuiltIn
<1> QED BY <1>1, <1>2, PoolAssumption DEF TypeOK

LEMMA TypeStep == PoolInv /\ [Next]_vars => TypeOK' /\ JobInv'
<1> SUFFICES ASSUME PoolInv, [Next]_vars PROVE TypeOK' /\ JobInv'
  OBVIOUS
<1> DEFINE Goal == TypeOK' /\ JobInv'
<1>0. TypeJob
  BY DEF PoolInv, TypeJob
<1> USE <1>0 DEF TypeJob, TypeOK, JobInv, PC, Goto, Queue, LoadFailed, poolVars, chatVars
<1>1. ASSUME NEW t \in Task, ChatArrives(t) PROVE Goal
  <2>1. CASE UNCHANGED <<lru, chatVars>> /\ \E l \in {"first", "refused"} : Goto(t, l) /\ (l = "first" => want[t] # AnyModel)
    <3>1. PICK l \in {"first", "refused"} : pc' = [pc EXCEPT ![t] = l] /\ (l = "first" => want[t] # AnyModel)
      BY <2>1
    <3>2. switch' = switch \/ switch' = Append(switch, t)
      BY <1>1 DEF ChatArrives
    <3>3. switch' \in Seq(Task)
      <4>1. CASE switch' = switch
        BY <4>1
      <4>2. CASE switch' = Append(switch, t)
        BY <4>2
      <4> QED BY <3>2, <4>1, <4>2
    <3>4. UNCHANGED <<job, want, fresh, slots, primary, live>>
      BY <1>1 DEF ChatArrives
    <3> QED BY <2>1, <3>1, <3>3, <3>4
  <2>2. CASE lru # << >> /\ Resolved(t, lru, primary) /\ UNCHANGED switch
    <3>1. /\ lru' \in Seq(Model) /\ pc' = [pc EXCEPT ![t] = "replica"] /\ UNCHANGED <<holds, thread>>
      BY <2>2, ResolvedType DEF KeysInv
    <3>2. PICK m \in Model : target' = [target EXCEPT ![t] = m]
      BY <2>2, ResolvedType DEF KeysInv
    <3>3. UNCHANGED <<job, want, fresh, slots, primary, live>>
      BY <1>1 DEF ChatArrives
    <3> QED BY <2>2, <3>1, <3>2, <3>3
  <2> QED BY <1>1, <2>1, <2>2 DEF ChatArrives
<1>2. ASSUME NEW t \in Task, LoadArrives(t) PROVE Goal
  BY <1>2 DEF LoadArrives
<1>3. ASSUME NEW t \in Task, TrimArrives(t) PROVE Goal
  BY <1>3 DEF TrimArrives
<1>4. ASSUME NEW t \in Task, AlreadyLoaded(t) PROVE Goal
  <2>0. LoadDone(t, Touch(lru, want[t]), want[t])
    BY <1>4 DEF AlreadyLoaded
  <2>1. Touch(lru, want[t]) \in Seq(Model) /\ IsInjective(Touch(lru, want[t])) /\ Touch(lru, want[t]) # << >>
    <3>1. want[t] \in Model /\ lru # << >> /\ IsInjective(lru)
      BY <1>4 DEF AlreadyLoaded, KeysInv, Loaded, Range
    <3> QED BY <3>1, TouchKeeps
  <2>2. PICK l \in {"replica", "done"} : pc' = [pc EXCEPT ![t] = l] /\ (l = "replica" => target'[t] \in Model)
    BY <2>1, <2>0, LoadDoneType
  <2>3. /\ lru' \in Seq(Model) /\ target' \in [Task -> Model \cup {None}] /\ UNCHANGED <<holds, thread>>
        /\ \A u \in Task : u # t => target'[u] = target[u]
    BY <2>1, <2>0, LoadDoneType
  <2>4. /\ primary' \in Model /\ switch' \in Seq(Task)
        /\ UNCHANGED <<job, want, fresh, slots, live>>
    BY <1>4 DEF AlreadyLoaded, HasSwitch
  <2> QED BY <2>2, <2>3, <2>4
<1>5. ASSUME NEW t \in Task, MakeRoom(t) PROVE Goal
  <2> DEFINE q == IF Len(lru) >= MaxLoaded THEN Tail(lru) ELSE lru
  <2>1. q \in Seq(Model)
    BY PoolAssumption
  <2>2. /\ lru' = q /\ slots' = Shrunk(q) /\ primary' = PrimaryAmong(q)
        /\ live' = live \ Dropped(q)
    BY <1>5 DEF MakeRoom
  <2> HIDE DEF q
  <2>3. slots' \in [Model -> SUBSET Replica] /\ primary' \in Model \cup {None} /\ live' \subseteq Replica
    BY <2>1, <2>2, ShrunkType
  <2>4. switch' \in Seq(Task) /\ pc' = [pc EXCEPT ![t] = "build"] /\ pc[t] = "first"
        /\ UNCHANGED <<job, want, fresh, chatVars>>
    BY <1>5 DEF MakeRoom, HasSwitch
  <2> QED BY <2>1, <2>2, <2>3, <2>4
<1>6. ASSUME NEW t \in Task, BuildEnds(t) PROVE Goal
  <2>1. PICK n \in 1..Replicas : /\ fresh' = [fresh EXCEPT ![t] = Built(t, want[t], n)]
                                   /\ live' = live \cup Built(t, want[t], n)
    BY <1>6 DEF BuildEnds
  <2>2. Built(t, want[t], n) \subseteq Replica
    BY <1>6, BuiltIn DEF BuildEnds
  <2>3. fresh' \in [Task -> SUBSET Replica] /\ live' \subseteq Replica
    BY <2>1, <2>2
  <2> QED BY <1>6, <2>3 DEF BuildEnds
<1>7. ASSUME NEW t \in Task, BuildFails(t) PROVE Goal
  BY <1>7 DEF BuildFails
<1>8. ASSUME NEW t \in Task, Publish(t) PROVE Goal
  <2> DEFINE q == IF Loaded(want[t]) THEN Touch(lru, want[t])
                                      ELSE Append(Kept(lru, MaxLoaded - 1), want[t])
  <2>0. LoadDone(t, q, want[t])
    BY <1>8 DEF Publish
  <2>1. q \in Seq(Model) /\ IsInjective(q) /\ q # << >>
    <3>1. want[t] \in Model /\ IsInjective(lru)
      BY <1>8 DEF Publish, KeysInv
    <3>2. CASE Loaded(want[t])
      <4>1. lru # << >>
        BY <3>2 DEF Loaded, Range
      <4> QED BY <3>1, <3>2, <4>1, TouchKeeps
    <3>3. CASE ~Loaded(want[t])
      <4>1. MaxLoaded - 1 \in Nat
        BY PoolAssumption
      <4>2. /\ Kept(lru, MaxLoaded - 1) \in Seq(Model) /\ IsInjective(Kept(lru, MaxLoaded - 1))
            /\ Range(Kept(lru, MaxLoaded - 1)) \subseteq Range(lru)
        BY <3>1, <4>1, KeptOf
      <4>3. want[t] \notin Range(Kept(lru, MaxLoaded - 1))
        BY <3>3, <4>2 DEF Loaded
      <4> QED BY <3>1, <3>3, <4>2, <4>3, AppendNew, AppendRange
    <3> QED BY <3>2, <3>3
  <2>2. PICK l \in {"replica", "done"} : pc' = [pc EXCEPT ![t] = l] /\ (l = "replica" => target'[t] \in Model)
    BY <2>1, <2>0, LoadDoneType
  <2>3. /\ lru' \in Seq(Model) /\ target' \in [Task -> Model \cup {None}] /\ UNCHANGED <<holds, thread>>
        /\ \A u \in Task : u # t => target'[u] = target[u]
    BY <2>1, <2>0, LoadDoneType
  <2>4. /\ primary' \in Model /\ switch' \in Seq(Task) /\ fresh' = [fresh EXCEPT ![t] = {}]
        /\ UNCHANGED <<job, want>>
    BY <1>8 DEF Publish, HasSwitch
  <2>5. slots' \in [Model -> SUBSET Replica] /\ live' \subseteq Replica
    <3>1. CASE Loaded(want[t])
      BY <1>8, <3>1 DEF Publish
    <3>2. CASE ~Loaded(want[t])
      <4> DEFINE k == Kept(lru, MaxLoaded - 1)
      <4>1. slots' = [Shrunk(k) EXCEPT ![want[t]] = fresh[t]] /\ live' = live \ Dropped(k)
        BY <1>8, <3>2 DEF Publish
      <4>2. k \in Seq(Model) /\ want[t] \in Model /\ fresh[t] \in SUBSET Replica
        BY <1>8, ShrunkType DEF Publish
      <4> HIDE DEF k
      <4>3. Shrunk(k) \in [Model -> SUBSET Replica]
        BY <4>2, ShrunkType
      <4> QED BY <4>1, <4>2, <4>3
    <3> QED BY <3>1, <3>2
  <2> HIDE DEF q
  <2> QED BY <2>2, <2>3, <2>4, <2>5
<1>9. ASSUME NEW t \in Task, NothingToRestore(t) PROVE Goal
  BY <1>9, PoolAssumption DEF NothingToRestore, HasSwitch
<1>10. ASSUME NEW t \in Task, BeginRestore(t) PROVE Goal
  BY <1>10 DEF BeginRestore
<1>11. ASSUME NEW t \in Task, RestoreEnds(t) PROVE Goal
  <2>1. /\ lru' \in Seq(Model) /\ slots' \in [Model -> SUBSET Replica]
        /\ live' \subseteq Replica /\ primary' \in Model \cup {None}
    BY <1>11, InsertType DEF RestoreEnds
  <2>2. HasSwitch(t)
    BY <1>11 DEF RestoreEnds, PoolInv, SwitchInv
  <2> QED BY <1>11, <2>1, <2>2 DEF RestoreEnds, HasSwitch
<1>12. ASSUME NEW t \in Task, Trim(t) PROVE Goal
  <2> DEFINE q == IF Loaded(Default) THEN <<Default>> ELSE << >>
  <2>1. q \in Seq(Model)
    BY PoolAssumption
  <2>2. lru' = q /\ slots' = Shrunk(q) /\ live' = live \ Dropped(q)
    BY <1>12 DEF Trim
  <2> HIDE DEF q
  <2>3. slots' \in [Model -> SUBSET Replica] /\ live' \subseteq Replica
    BY <2>1, <2>2, ShrunkType
  <2>4. /\ primary' \in Model \cup {None} /\ switch' \in Seq(Task)
        /\ UNCHANGED <<job, want, fresh, chatVars>>
    <3>1. primary' \in {primary, Default}
      BY <1>12 DEF Trim
    <3>2. switch' = switch \/ (switch # << >> /\ switch' = Tail(switch))
      BY <1>12 DEF Trim, HasSwitch
    <3>3. UNCHANGED <<job, want, fresh, chatVars>>
      BY <1>12 DEF Trim
    <3>4. switch' \in Seq(Task)
      <4>1. CASE switch' = switch
        BY <4>1
      <4>2. CASE switch # << >> /\ switch' = Tail(switch)
        BY <4>2
      <4> QED BY <3>2, <4>1, <4>2
    <3> QED BY <3>1, <3>3, <3>4, PoolAssumption
  <2>5. PICK l \in {"done", "trimBuild"} : pc' = [pc EXCEPT ![t] = l]
    BY <1>12 DEF Trim
  <2> QED BY <2>1, <2>2, <2>3, <2>4, <2>5
<1>13. ASSUME NEW t \in Task, TrimEnds(t) PROVE Goal
  <2>1. /\ lru' \in Seq(Model) /\ slots' \in [Model -> SUBSET Replica]
        /\ live' \subseteq Replica /\ primary' \in Model \cup {None}
    BY <1>13, InsertType, ShrunkType DEF TrimEnds
  <2>2. HasSwitch(t)
    BY <1>13 DEF TrimEnds, PoolInv, SwitchInv
  <2> QED BY <1>13, <2>1, <2>2 DEF TrimEnds, HasSwitch
<1>14. ASSUME NEW t \in Task, Acquire(t) PROVE Goal
  <2> DEFINE F == Free(target[t])
             r == CHOOSE r \in F : \A u \in F : r.no <= u.no
  <2>1. target[t] \in Model
    BY <1>14 DEF Acquire
  <2>2. F \in SUBSET Replica /\ F # {}
    BY <1>14, <2>1 DEF Acquire, Free
  <2>3. \E x \in F : \A u \in F : x.no <= u.no
    <3> HIDE DEF F
    <3> QED BY <2>2, LowestReplica
  <2>4. r \in F
    <3> HIDE DEF F
    <3> QED BY <2>3
  <2>5. holds' = [holds EXCEPT ![t] = r] /\ thread' = [thread EXCEPT ![t] = r]
    BY <1>14 DEF Acquire
  <2>6. r \in Replica
    BY <2>2, <2>4
  <2> HIDE DEF F, r
  <2>7. /\ pc' = [pc EXCEPT ![t] = "generate"]
        /\ UNCHANGED <<job, want, switch, fresh, poolVars, target>>
    BY <1>14 DEF Acquire
  <2> QED BY <2>5, <2>6, <2>7
<1>15. ASSUME NEW t \in Task, ModelGone(t) PROVE Goal
  BY <1>15 DEF ModelGone
<1>16. ASSUME NEW t \in Task, GenerationEnds(t) PROVE Goal
  BY <1>16 DEF GenerationEnds
<1>17. ASSUME NEW t \in Task, Disconnect(t) \/ DisconnectAtChunk(t) PROVE Goal
  BY <1>17 DEF Disconnect, DisconnectAtChunk
<1>18. ASSUME NEW t \in Task, ThreadEnds(t) PROVE Goal
  BY <1>18 DEF ThreadEnds
<1>19. CASE UNCHANGED vars
  BY <1>19 DEF vars
<1> HIDE DEF Goal
<1> QED BY <1>1, <1>2, <1>3, <1>4, <1>5, <1>6, <1>7, <1>8, <1>9, <1>10, <1>11, <1>12, <1>13, <1>14, <1>15, <1>16, <1>17, <1>18, <1>19
    DEF Next, Arrive, Serve, Load, Goal

-----------------------------------------------------------------------------
(* The pool.  Most steps leave its replicas alone; at most they put the    *)
(* keys in a new order and name another primary model.                     *)
Parts == KeysInv /\ ReplicaInv /\ PrimaryInv /\ PoolBounded

LEMMA QuietStep ==
  ASSUME PoolInv, NEW t \in Task, NEW l \in PC, pc' = [pc EXCEPT ![t] = l],
         UNCHANGED <<want, slots, live, fresh>>,
         lru' \in Seq(Model), IsInjective(lru'), Len(lru') = Len(lru), Range(lru') = Range(lru),
         primary' = primary \/ primary' \in Range(lru),
         pc[t] \notin {"publish", "trimBuild"}, l \notin {"publish", "trimBuild"},
         l = "restore" => want[t] # Default /\ ~Loaded(Default),
         l \in Before => pc[t] \in Before
  PROVE  Parts'
<1> USE DEF PoolInv, TypeOK
<1>1. lru' = << >> <=> lru = << >>
  OBVIOUS
<1>2. \A m \in Model : Loaded(m)' <=> Loaded(m)
  BY DEF Loaded
<1>3. \A u \in Task : u # t => pc'[u] = pc[u]
  OBVIOUS
<1>4. pc'[t] = l
  OBVIOUS
<1>5. KeysInv'
  <2>1. \A u \in Task : pc'[u] = "trimBuild" => lru' = << >>
    BY <1>1, <1>3, <1>4 DEF KeysInv
  <2>2. \A u \in Task : pc'[u] = "restore" => want'[u] # Default /\ ~Loaded(Default)'
    BY <1>2, <1>3, <1>4, PoolAssumption DEF KeysInv
  <2>3. \A m \in Model : Loaded(m)' <=> slots'[m] # {}
    BY <1>2 DEF KeysInv
  <2> QED BY <2>1, <2>2, <2>3 DEF KeysInv
<1>6. ReplicaInv'
  <2>1. \A u \in Task : fresh'[u] # {} <=> pc'[u] = "publish"
    BY <1>3, <1>4 DEF ReplicaInv
  <2>2. \A u \in Task : pc'[u] \in Before => \A m \in Model : \A r \in slots'[m] : r.by # u
    BY <1>3, <1>4 DEF ReplicaInv
  <2> QED BY <2>1, <2>2 DEF ReplicaInv
<1>7. PrimaryInv'
  <2>1. (\A u \in Task : pc'[u] # "trimBuild") => \A u \in Task : pc[u] # "trimBuild"
    BY <1>3, <1>4
  <2> SUFFICES ASSUME \A u \in Task : pc'[u] # "trimBuild"
               PROVE  IF lru' = << >> THEN primary' = None ELSE primary' \in Range(lru')
    BY DEF PrimaryInv, Loaded
  <2>2. IF lru = << >> THEN primary = None ELSE primary \in Range(lru)
    BY <2>1 DEF PrimaryInv, Loaded
  <2>3. lru = << >> => Range(lru) = {}
    BY RangeIn
  <2> QED BY <1>1, <2>2, <2>3
<1>8. PoolBounded'
  BY DEF PoolBounded
<1> QED BY <1>5, <1>6, <1>7, <1>8 DEF Parts

(* A pool that shrinks: whoever is not among the keys any more is disposed *)
(* of, and nobody else.                                                    *)
LEMMA ShrinkStep ==
  ASSUME PoolInv, NEW t \in Task, NEW l \in {"build", "done", "trimBuild"},
         pc' = [pc EXCEPT ![t] = l], pc[t] \in {"first", "trim"}, HasSwitch(t),
         l = "build" <=> pc[t] = "first",
         NEW q \in Seq(Model), IsInjective(q), Range(q) \subseteq Range(lru), Len(q) <= MaxLoaded,
         lru' = q, slots' = Shrunk(q), live' = live \ Dropped(q), UNCHANGED <<want, fresh>>,
         l = "trimBuild" => q = << >>,
         l = "trimBuild" \/ (IF q = << >> THEN primary' = None ELSE primary' \in Range(q))
  PROVE  Parts'
<1> USE DEF PoolInv, TypeOK
<1>1. \A u \in Task : u # t => pc'[u] = pc[u] /\ pc[u] \notin {"restore", "trimBuild"}
  BY DEF SwitchInv, HasSwitch
<1>2. pc'[t] = l
  OBVIOUS
<1>3. \A m \in Model : slots'[m] = IF m \in Range(q) THEN slots[m] ELSE {}
  BY DEF Shrunk
<1>4. KeysInv'
  <2>1. \A m \in Model : m \in Range(lru') <=> slots'[m] # {}
    BY <1>3 DEF KeysInv, Loaded
  <2>2. \A u \in Task : pc'[u] = "trimBuild" => lru' = << >>
    BY <1>1, <1>2
  <2>3. \A u \in Task : pc'[u] # "restore"
    BY <1>1, <1>2
  <2> QED BY <2>1, <2>2, <2>3 DEF KeysInv, Loaded
<1>5. ReplicaInv'
  <2>1. \A m \in Model : slots'[m] \subseteq slots[m]
    BY <1>3
  <2>2. \A m \in Model : \A r \in slots'[m] : r.of = m
    BY <2>1 DEF ReplicaInv
  <2>3. \A u \in Task : fresh'[u] # {} <=> pc'[u] = "publish"
    BY <1>1, <1>2 DEF ReplicaInv
  <2>4. \A u \in Task : pc'[u] \in Before => pc[u] \in Before
    BY <1>1, <1>2 DEF Before
  <2>5. \A u \in Task : pc'[u] \in Before => \A m \in Model : \A r \in slots'[m] : r.by # u
    BY <2>1, <2>4 DEF ReplicaInv
  <2>6. \A r \in Replica : r \in live' <=> \/ \E m \in Model : r \in slots'[m]
                                        \/ \E u \in Task : r \in fresh'[u]
    <3> TAKE r \in Replica
    <3>1. r \in live <=> \/ \E m \in Model : r \in slots[m]
                        \/ \E u \in Task : r \in fresh[u]
      BY DEF ReplicaInv
    <3>2. r \in live' <=> r \in live /\ ~\E m \in Model : m \notin Range(q) /\ r \in slots[m]
      BY DEF Dropped
    <3>3. \A m, n \in Model : r \in slots[m] /\ r \in slots[n] => m = n
      BY DEF ReplicaInv
    <3>4. \A m \in Model : \A u \in Task : ~(r \in slots[m] /\ r \in fresh[u])
      <4> SUFFICES ASSUME NEW m \in Model, NEW u \in Task, r \in slots[m], r \in fresh[u] PROVE FALSE
        OBVIOUS
      <4>1. pc[u] = "publish" \/ r.by = u
        BY DEF ReplicaInv
      <4> QED BY <4>1 DEF ReplicaInv, Before
    <3>5. \A m \in Model : r \in slots'[m] <=> (m \in Range(q) /\ r \in slots[m])
      BY <1>3
    <3>6. fresh' = fresh
      OBVIOUS
    <3> QED BY <3>1, <3>2, <3>3, <3>4, <3>5, <3>6, Zenon
  <2>7. \A u \in Task : \A r \in fresh'[u] : r.by = u /\ r.of = want'[u]
    BY DEF ReplicaInv
  <2> QED BY <2>2, <2>3, <2>5, <2>6, <2>7 DEF ReplicaInv
<1>6. PrimaryInv'
  BY <1>2 DEF PrimaryInv, Loaded
<1>7. PoolBounded'
  BY DEF PoolBounded
<1> QED BY <1>4, <1>5, <1>6, <1>7 DEF Parts

(* No replica is at two places.                                            *)
LEMMA Apart ==
  ASSUME ReplicaInv, NEW r
  PROVE  /\ \A m, n \in Model : r \in slots[m] /\ r \in slots[n] => m = n
         /\ \A m \in Model : \A u \in Task : ~(r \in slots[m] /\ r \in fresh[u])
         /\ \A u, v \in Task : r \in fresh[u] /\ r \in fresh[v] => u = v
<1>1. \A m \in Model : \A u \in Task : ~(r \in slots[m] /\ r \in fresh[u])
  <2> SUFFICES ASSUME NEW m \in Model, NEW u \in Task, r \in slots[m], r \in fresh[u] PROVE FALSE
    OBVIOUS
  <2>1. pc[u] = "publish" /\ r.by = u
    BY DEF ReplicaInv
  <2> QED BY <2>1 DEF ReplicaInv, Before
<1> QED BY <1>1 DEF ReplicaInv

(* A load comes back with its replicas.                                    *)
LEMMA BuildStep ==
  ASSUME PoolInv, NEW t \in Task, pc[t] = "build", pc' = [pc EXCEPT ![t] = "publish"],
         NEW n \in 1..Replicas, fresh' = [fresh EXCEPT ![t] = Built(t, want[t], n)],
         live' = live \cup Built(t, want[t], n), UNCHANGED <<want, lru, slots, primary>>
  PROVE  Parts'
<1> USE DEF PoolInv, TypeOK
<1> DEFINE B == Built(t, want[t], n)
<1>1. want[t] \in Model
  BY DEF JobInv
<1>2. B \subseteq Replica /\ B # {} /\ \A r \in B : r.by = t /\ r.of = want[t]
  BY <1>1, BuiltIn
<1>3. fresh'[t] = B /\ live' = live \cup B /\ \A u \in Task : u # t => fresh'[u] = fresh[u]
  OBVIOUS
<1> HIDE DEF B
<1>4. pc'[t] = "publish" /\ \A u \in Task : u # t => pc'[u] = pc[u]
  OBVIOUS
<1>5. KeysInv'
  BY <1>4 DEF KeysInv, Loaded
<1>6. ReplicaInv'
  <2>1. \A u \in Task : \A r \in fresh'[u] : r.by = u /\ r.of = want'[u]
    BY <1>2, <1>3 DEF ReplicaInv
  <2>2. \A u \in Task : fresh'[u] # {} <=> pc'[u] = "publish"
    BY <1>2, <1>3, <1>4 DEF ReplicaInv
  <2>3. \A u \in Task : pc'[u] \in Before => \A m \in Model : \A r \in slots'[m] : r.by # u
    BY <1>4 DEF ReplicaInv, Before
  <2>4. \A r \in Replica : r \in live' <=> \/ \E m \in Model : r \in slots'[m]
                                        \/ \E u \in Task : r \in fresh'[u]
    <3> TAKE r \in Replica
    <3>1. r \in live <=> \/ \E m \in Model : r \in slots[m]
                        \/ \E u \in Task : r \in fresh[u]
      BY DEF ReplicaInv
    <3>2. fresh[t] = {}
      BY DEF ReplicaInv
    <3> QED BY <1>3, <3>1, <3>2
  <2> QED BY <2>1, <2>2, <2>3, <2>4 DEF ReplicaInv
<1>7. PrimaryInv'
  BY <1>4 DEF PrimaryInv, Loaded
<1>8. PoolBounded'
  BY DEF PoolBounded
<1> QED BY <1>5, <1>6, <1>7, <1>8 DEF Parts

(* Another load was faster: the replicas just built go again.              *)
LEMMA FoundStep ==
  ASSUME PoolInv, NEW t \in Task, pc[t] = "publish", HasSwitch(t), Loaded(want[t]),
         NEW l \in {"replica", "done"}, pc' = [pc EXCEPT ![t] = l],
         fresh' = [fresh EXCEPT ![t] = {}], live' = live \ fresh[t], UNCHANGED <<want, slots>>,
         lru' \in Seq(Model), IsInjective(lru'), Len(lru') = Len(lru), Range(lru') = Range(lru),
         primary' = want[t]
  PROVE  Parts'
<1> USE DEF PoolInv, TypeOK
<1>1. pc'[t] = l /\ \A u \in Task : u # t => pc'[u] = pc[u] /\ pc[u] \notin {"restore", "trimBuild"}
  BY DEF SwitchInv, HasSwitch
<1>2. fresh'[t] = {} /\ \A u \in Task : u # t => fresh'[u] = fresh[u]
  OBVIOUS
<1>3. KeysInv'
  BY <1>1 DEF KeysInv, Loaded
<1>4. ReplicaInv'
  <2>1. \A u \in Task : \A r \in fresh'[u] : r.by = u /\ r.of = want'[u]
    BY <1>2 DEF ReplicaInv
  <2>2. \A u \in Task : fresh'[u] # {} <=> pc'[u] = "publish"
    BY <1>1, <1>2 DEF ReplicaInv
  <2>3. \A u \in Task : pc'[u] \in Before => \A m \in Model : \A r \in slots'[m] : r.by # u
    BY <1>1 DEF ReplicaInv, Before
  <2>4. \A r \in Replica : r \in live' <=> \/ \E m \in Model : r \in slots'[m]
                                        \/ \E u \in Task : r \in fresh'[u]
    <3> TAKE r \in Replica
    <3>1. r \in live <=> \/ \E m \in Model : r \in slots[m]
                        \/ \E u \in Task : r \in fresh[u]
      BY DEF ReplicaInv
    <3>2. /\ \A m \in Model : \A u \in Task : ~(r \in slots[m] /\ r \in fresh[u])
          /\ \A u, v \in Task : r \in fresh[u] /\ r \in fresh[v] => u = v
      BY Apart
    <3>3. r \in live' <=> r \in live /\ r \notin fresh[t]
      OBVIOUS
    <3> QED BY <1>2, <3>1, <3>2, <3>3
  <2> QED BY <2>1, <2>2, <2>3, <2>4 DEF ReplicaInv
<1>5. PrimaryInv'
  <2>1. primary' \in Range(lru')
    BY DEF Loaded
  <2>2. lru' # << >>
    BY <2>1, RangeIn
  <2> QED BY <2>1, <2>2 DEF PrimaryInv, Loaded
<1>6. PoolBounded'
  BY DEF PoolBounded
<1> QED BY <1>3, <1>4, <1>5, <1>6 DEF Parts

(* The new replicas enter the pool, on the place the eldest models left.   *)
LEMMA EnterStep ==
  ASSUME PoolInv, NEW t \in Task, pc[t] = "publish", HasSwitch(t), ~Loaded(want[t]),
         NEW l \in {"replica", "done"}, pc' = [pc EXCEPT ![t] = l],
         NEW q \in Seq(Model), Range(q) \subseteq Range(lru), Len(q) <= MaxLoaded - 1,
         slots' = [Shrunk(q) EXCEPT ![want[t]] = fresh[t]], live' = live \ Dropped(q),
         fresh' = [fresh EXCEPT ![t] = {}], UNCHANGED want,
         lru' \in Seq(Model), IsInjective(lru'), Len(lru') = Len(q) + 1,
         Range(lru') = Range(q) \cup {want[t]}, primary' = want[t]
  PROVE  Parts'
<1> USE DEF PoolInv, TypeOK
<1>1. pc'[t] = l /\ \A u \in Task : u # t => pc'[u] = pc[u] /\ pc[u] \notin {"restore", "trimBuild"}
  BY DEF SwitchInv, HasSwitch
<1>2. fresh'[t] = {} /\ \A u \in Task : u # t => fresh'[u] = fresh[u]
  OBVIOUS
<1>3. want[t] \in Model /\ want[t] \notin Range(q) /\ slots[want[t]] = {} /\ fresh[t] # {}
  BY DEF JobInv, Loaded, KeysInv, ReplicaInv
<1>4. \A m \in Model : slots'[m] = IF m = want[t] THEN fresh[t]
                                   ELSE IF m \in Range(q) THEN slots[m] ELSE {}
  BY <1>3 DEF Shrunk
<1>5. KeysInv'
  <2>1. \A m \in Model : m \in Range(lru') <=> slots'[m] # {}
    BY <1>3, <1>4 DEF KeysInv, Loaded
  <2>2. \A u \in Task : pc'[u] \notin {"restore", "trimBuild"}
    BY <1>1
  <2> QED BY <2>1, <2>2 DEF KeysInv, Loaded
<1>6. ReplicaInv'
  <2>1. \A u \in Task : \A r \in fresh'[u] : r.by = u /\ r.of = want'[u]
    BY <1>2 DEF ReplicaInv
  <2>2. \A u \in Task : fresh'[u] # {} <=> pc'[u] = "publish"
    BY <1>1, <1>2 DEF ReplicaInv
  <2>3. \A m \in Model : \A r \in slots'[m] : r \in slots[m] \/ (r \in fresh[t] /\ m = want[t])
    BY <1>4
  <2>4. \A u \in Task : pc'[u] \in Before => \A m \in Model : \A r \in slots'[m] : r.by # u
    BY <1>1, <2>3 DEF ReplicaInv, Before
  <2>5. \A m \in Model : \A r \in slots'[m] : r.of = m
    BY <2>3 DEF ReplicaInv
  <2>6. \A r \in Replica : r \in live' <=> \/ \E m \in Model : r \in slots'[m]
                                        \/ \E u \in Task : r \in fresh'[u]
    <3> TAKE r \in Replica
    <3>1. r \in live <=> \/ \E m \in Model : r \in slots[m]
                        \/ \E u \in Task : r \in fresh[u]
      BY DEF ReplicaInv
    <3>2. r \in live' <=> r \in live /\ ~\E m \in Model : m \notin Range(q) /\ r \in slots[m]
      BY DEF Dropped
    <3>3. /\ \A m, n \in Model : r \in slots[m] /\ r \in slots[n] => m = n
          /\ \A m \in Model : \A u \in Task : ~(r \in slots[m] /\ r \in fresh[u])
      BY Apart
    <3>4. CASE r \in fresh[t]
      <4>1. r \in live'
        BY <3>1, <3>2, <3>3, <3>4
      <4>2. r \in slots'[want[t]]
        BY <1>3, <1>4, <3>4
      <4> QED BY <1>3, <4>1, <4>2
    <3>5. CASE r \notin fresh[t]
      <4>1. \A m \in Model : r \in slots'[m] <=> (m \in Range(q) /\ r \in slots[m])
        BY <1>3, <1>4, <3>5
      <4>2. \A u \in Task : r \in fresh'[u] <=> r \in fresh[u]
        BY <1>2, <3>5
      <4> QED BY <3>1, <3>2, <3>3, <4>1, <4>2, Zenon
    <3> QED BY <3>4, <3>5
  <2> QED BY <2>1, <2>2, <2>4, <2>5, <2>6 DEF ReplicaInv
<1>7. PrimaryInv'
  <2>1. primary' \in Range(lru')
    BY DEF Loaded
  <2>2. lru' # << >>
    BY <2>1, RangeIn
  <2> QED BY <2>1, <2>2 DEF PrimaryInv, Loaded
<1>8. PoolBounded'
  BY PoolAssumption DEF PoolBounded
<1> QED BY <1>5, <1>6, <1>7, <1>8 DEF Parts

(* The default model is back, built under the lock.                        *)
LEMMA InsertStep ==
  ASSUME PoolInv, NEW t \in Task, pc[t] \in {"restore", "trimBuild"}, InsertDefault(t),
         NEW l \in {"refused", "done"}, pc' = [pc EXCEPT ![t] = l], UNCHANGED <<want, fresh>>
  PROVE  Parts'
<1> USE DEF PoolInv, TypeOK
<1>1. pc'[t] = l /\ \A u \in Task : u # t => pc'[u] = pc[u] /\ pc[u] \notin {"restore", "trimBuild"}
  BY DEF SwitchInv, HasSwitch
<1>2. ~Loaded(Default) /\ slots[Default] = {} /\ Default \in Model
  BY PoolAssumption DEF KeysInv, Loaded, Range
<1>3. PICK n \in 1..Replicas :
        /\ lru' = Append(lru, Default)
        /\ slots' = [slots EXCEPT ![Default] = Built(t, Default, n)]
        /\ live' = live \cup Built(t, Default, n)
        /\ primary' = Default
  BY DEF InsertDefault
<1> DEFINE B == Built(t, Default, n)
<1>4. B \subseteq Replica /\ B # {} /\ \A r \in B : r.by = t /\ r.of = Default
  BY <1>2, BuiltIn
<1>5. live' = live \cup B /\ \A m \in Model : slots'[m] = IF m = Default THEN B ELSE slots[m]
  BY <1>3
<1> HIDE DEF B
<1>6. /\ lru' \in Seq(Model) /\ lru' # << >> /\ Len(lru') = Len(lru) + 1
      /\ Range(lru') = Range(lru) \cup {Default} /\ IsInjective(lru')
  BY <1>2, <1>3, AppendRange, AppendNew DEF KeysInv, Loaded
<1>7. KeysInv'
  <2>1. \A m \in Model : m \in Range(lru') <=> slots'[m] # {}
    BY <1>2, <1>4, <1>5, <1>6 DEF KeysInv, Loaded
  <2>2. \A u \in Task : pc'[u] \notin {"restore", "trimBuild"}
    BY <1>1
  <2> QED BY <1>6, <2>1, <2>2 DEF KeysInv, Loaded
<1>8. ReplicaInv'
  <2>1. \A u \in Task : fresh'[u] # {} <=> pc'[u] = "publish"
    BY <1>1 DEF ReplicaInv
  <2>2. \A m \in Model : \A r \in slots'[m] : r.of = m
    BY <1>4, <1>5 DEF ReplicaInv
  <2>3. \A u \in Task : pc'[u] \in Before => \A m \in Model : \A r \in slots'[m] : r.by # u
    <3>1. \A u \in Task : pc'[u] \in Before => u # t /\ pc[u] \in Before
      BY <1>1 DEF Before
    <3> QED BY <1>4, <1>5, <3>1 DEF ReplicaInv
  <2>4. \A r \in Replica : r \in live' <=> \/ \E m \in Model : r \in slots'[m]
                                        \/ \E u \in Task : r \in fresh'[u]
    <3> TAKE r \in Replica
    <3>1. r \in live <=> \/ \E m \in Model : r \in slots[m]
                        \/ \E u \in Task : r \in fresh[u]
      BY DEF ReplicaInv
    <3> QED BY <1>2, <1>5, <3>1
  <2>5. \A u \in Task : \A r \in fresh'[u] : r.by = u /\ r.of = want'[u]
    BY DEF ReplicaInv
  <2> QED BY <2>1, <2>2, <2>3, <2>4, <2>5 DEF ReplicaInv
<1>9. PrimaryInv'
  BY <1>3, <1>6 DEF PrimaryInv, Loaded
<1>10. PoolBounded'
  <2>1. Len(lru) <= MaxLoaded /\ Len(lru) \in Nat
    BY <1>2 DEF PoolBounded
  <2>2. CASE pc[t] = "trimBuild"
    <3>1. Len(lru) = 0
      BY <2>2 DEF KeysInv
    <3> QED BY <1>6, <3>1, PoolAssumption DEF PoolBounded
  <2>3. CASE pc[t] = "restore"
    <3>1. want'[t] # Default
      BY <2>3 DEF KeysInv
    <3>2. PICK r \in B : TRUE
      BY <1>4
    <3>3. r \in slots'[Default] /\ r.by = t /\ t # None
      BY <1>2, <1>4, <1>5, <3>2, PoolAssumption
    <3>4. \E x \in slots'[Default] : x.by # None /\ want'[x.by] # Default
      BY <3>1, <3>3
    <3>5. Len(lru') <= MaxLoaded \/ Len(lru') = MaxLoaded + 1
      BY <1>6, <2>1, PoolAssumption
    <3> QED BY <3>4, <3>5 DEF PoolBounded
  <2> QED BY <2>2, <2>3
<1> QED BY <1>7, <1>8, <1>9, <1>10 DEF Parts

LEMMA PartsStep == PoolInv /\ [Next]_vars => Parts'
<1> SUFFICES ASSUME PoolInv, [Next]_vars PROVE Parts'
  OBVIOUS
<1>0. TypeJob
  BY DEF PoolInv, TypeJob
<1>a. lru \in Seq(Model) /\ IsInjective(lru) /\ (lru = << >> <=> Range(lru) = {})
  BY RangeIn DEF PoolInv, TypeOK, KeysInv
<1> USE DEF Goto, Queue, LoadFailed, poolVars, chatVars, PC, Before
<1>1. ASSUME NEW t \in Task, ChatArrives(t) PROVE Parts'
  <2>1. UNCHANGED <<want, fresh, slots, primary, live>> /\ pc[t] = "new"
    BY <1>1 DEF ChatArrives
  <2>2. CASE UNCHANGED lru /\ \E l \in {"first", "refused"} : Goto(t, l)
    <3>1. PICK l \in {"first", "refused"} : pc' = [pc EXCEPT ![t] = l]
      BY <2>2
    <3> QED BY <2>1, <2>2, <3>1, <1>a, QuietStep
  <2>3. CASE lru # << >> /\ Resolved(t, lru, primary)
    <3>1. /\ lru' \in Seq(Model) /\ pc' = [pc EXCEPT ![t] = "replica"]
          /\ IsInjective(lru') /\ Len(lru') = Len(lru) /\ Range(lru') = Range(lru)
      BY <2>3, <1>0, <1>a, ResolvedType
    <3> QED BY <2>1, <3>1, QuietStep
  <2> QED BY <1>1, <2>2, <2>3 DEF ChatArrives
<1>2. ASSUME NEW t \in Task, LoadArrives(t) PROVE Parts'
  <2>1. /\ pc' = [pc EXCEPT ![t] = "first"] /\ pc[t] = "new"
        /\ UNCHANGED <<want, slots, live, fresh, lru, primary>>
    BY <1>2 DEF LoadArrives
  <2> QED BY <2>1, <1>a, QuietStep
<1>3. ASSUME NEW t \in Task, TrimArrives(t) PROVE Parts'
  <2>1. /\ pc' = [pc EXCEPT ![t] = "trim"] /\ pc[t] = "new"
        /\ UNCHANGED <<want, slots, live, fresh, lru, primary>>
    BY <1>3 DEF TrimArrives
  <2> QED BY <2>1, <1>a, QuietStep
<1>4. ASSUME NEW t \in Task, AlreadyLoaded(t) PROVE Parts'
  <2> DEFINE q == Touch(lru, want[t])
  <2>1. /\ pc[t] = "first" /\ Loaded(want[t]) /\ primary' = want[t] /\ LoadDone(t, q, want[t])
        /\ UNCHANGED <<want, fresh, slots, live>>
    BY <1>4 DEF AlreadyLoaded
  <2>2. want[t] \in Model
    BY <2>1 DEF PoolInv, JobInv
  <2>3. /\ q \in Seq(Model) /\ IsInjective(q) /\ Len(q) = Len(lru) /\ Range(q) = Range(lru)
        /\ q # << >>
    BY <1>a, <2>1, <2>2, TouchKeeps DEF Loaded
  <2> HIDE DEF q
  <2>4. /\ lru' \in Seq(Model) /\ IsInjective(lru') /\ Len(lru') = Len(lru) /\ Range(lru') = Range(lru)
        /\ \E l \in {"replica", "done"} : pc' = [pc EXCEPT ![t] = l]
    BY <1>0, <2>1, <2>3, LoadDoneType
  <2>5. PICK l \in {"replica", "done"} : pc' = [pc EXCEPT ![t] = l]
    BY <2>4
  <2>6. primary' \in Range(lru)
    BY <2>1 DEF Loaded
  <2> QED BY <2>1, <2>4, <2>5, <2>6, QuietStep
<1>5. ASSUME NEW t \in Task, MakeRoom(t) PROVE Parts'
  <2> DEFINE q == IF Len(lru) >= MaxLoaded THEN Tail(lru) ELSE lru
  <2>1. /\ pc[t] = "first" /\ HasSwitch(t) /\ pc' = [pc EXCEPT ![t] = "build"]
        /\ lru' = q /\ slots' = Shrunk(q) /\ primary' = PrimaryAmong(q)
        /\ live' = live \ Dropped(q) /\ UNCHANGED <<want, fresh>>
    BY <1>5 DEF MakeRoom
  <2>2. q \in Seq(Model) /\ IsInjective(q) /\ Range(q) \subseteq Range(lru) /\ Len(q) <= MaxLoaded
    <3>1. CASE Len(lru) >= MaxLoaded
      <4>1. lru # << >>
        BY <1>a, <3>1, PoolAssumption
      <4>2. Len(lru) <= MaxLoaded + 1 /\ Len(lru) \in Nat
        BY <1>a, PoolAssumption DEF PoolInv, PoolBounded
      <4>3. /\ Tail(lru) \in Seq(Model) /\ Len(Tail(lru)) = Len(lru) - 1
            /\ IsInjective(Tail(lru)) /\ Range(Tail(lru)) = Range(lru) \ {Head(lru)}
        BY <1>a, <4>1, TailOf
      <4> QED BY <3>1, <4>2, <4>3, PoolAssumption
    <3>2. CASE ~(Len(lru) >= MaxLoaded)
      BY <1>a, <3>2, PoolAssumption
    <3> QED BY <3>1, <3>2
  <2> HIDE DEF q
  <2>3. IF q = << >> THEN primary' = None ELSE primary' \in Range(q)
    <3>1. q = << >> => Range(q) = {}
      BY <2>2, RangeIn
    <3>2. q # << >> => Head(q) \in Range(q)
      BY <2>2, TailOf
    <3> QED BY <2>1, <3>1, <3>2 DEF PrimaryAmong, FirstOf
  <2> QED BY <2>1, <2>2, <2>3, ShrinkStep
<1>6. ASSUME NEW t \in Task, BuildEnds(t) PROVE Parts'
  <2>1. PICK n \in 1..Replicas : /\ fresh' = [fresh EXCEPT ![t] = Built(t, want[t], n)]
                                   /\ live' = live \cup Built(t, want[t], n)
    BY <1>6 DEF BuildEnds
  <2>2. /\ pc[t] = "build" /\ pc' = [pc EXCEPT ![t] = "publish"]
        /\ UNCHANGED <<want, lru, slots, primary>>
    BY <1>6 DEF BuildEnds
  <2> QED BY <2>1, <2>2, BuildStep
<1>7. ASSUME NEW t \in Task, BuildFails(t) PROVE Parts'
  <2>1. /\ pc' = [pc EXCEPT ![t] = "failed"] /\ pc[t] = "build"
        /\ UNCHANGED <<want, slots, live, fresh, lru, primary>>
    BY <1>7 DEF BuildFails
  <2> QED BY <2>1, <1>a, QuietStep
<1>8. ASSUME NEW t \in Task, Publish(t) PROVE Parts'
  <2>1. /\ pc[t] = "publish" /\ HasSwitch(t) /\ fresh' = [fresh EXCEPT ![t] = {}]
        /\ primary' = want[t] /\ UNCHANGED want
    BY <1>8 DEF Publish
  <2>2. want[t] \in Model
    BY <2>1 DEF PoolInv, JobInv
  <2>3. CASE Loaded(want[t])
    <3> DEFINE q == Touch(lru, want[t])
    <3>1. live' = live \ fresh[t] /\ UNCHANGED slots /\ LoadDone(t, q, want[t])
      BY <1>8, <2>3 DEF Publish
    <3>2. /\ q \in Seq(Model) /\ IsInjective(q) /\ Len(q) = Len(lru) /\ Range(q) = Range(lru)
          /\ q # << >>
      BY <1>a, <2>2, <2>3, TouchKeeps DEF Loaded
    <3> HIDE DEF q
    <3>3. /\ lru' \in Seq(Model) /\ IsInjective(lru') /\ Len(lru') = Len(lru)
          /\ Range(lru') = Range(lru)
          /\ \E l \in {"replica", "done"} : pc' = [pc EXCEPT ![t] = l]
      BY <1>0, <3>1, <3>2, LoadDoneType
    <3>4. PICK l \in {"replica", "done"} : pc' = [pc EXCEPT ![t] = l]
      BY <3>3
    <3> QED BY <2>1, <2>3, <3>1, <3>3, <3>4, FoundStep
  <2>4. CASE ~Loaded(want[t])
    <3> DEFINE k == Kept(lru, MaxLoaded - 1)
               q == Append(k, want[t])
    <3>1. /\ slots' = [Shrunk(k) EXCEPT ![want[t]] = fresh[t]] /\ live' = live \ Dropped(k)
          /\ LoadDone(t, q, want[t])
      BY <1>8, <2>4 DEF Publish
    <3>2. /\ k \in Seq(Model) /\ Len(k) <= MaxLoaded - 1
          /\ IsInjective(k) /\ Range(k) \subseteq Range(lru)
      <4>1. MaxLoaded - 1 \in Nat
        BY PoolAssumption
      <4> QED BY <1>a, <4>1, KeptOf
    <3> HIDE DEF k
    <3>3. want[t] \notin Range(k)
      BY <2>4, <3>2 DEF Loaded
    <3>4. /\ q \in Seq(Model) /\ q # << >> /\ IsInjective(q) /\ Len(q) = Len(k) + 1
          /\ Range(q) = Range(k) \cup {want[t]}
      BY <2>2, <3>2, <3>3, AppendRange, AppendNew
    <3> HIDE DEF q
    <3>5. /\ lru' \in Seq(Model) /\ IsInjective(lru') /\ Len(lru') = Len(q)
          /\ Range(lru') = Range(q)
          /\ \E l \in {"replica", "done"} : pc' = [pc EXCEPT ![t] = l]
      BY <1>0, <3>1, <3>4, LoadDoneType
    <3>6. PICK l \in {"replica", "done"} : pc' = [pc EXCEPT ![t] = l]
      BY <3>5
    <3>7. Len(lru') = Len(k) + 1 /\ Range(lru') = Range(k) \cup {want[t]}
      BY <3>4, <3>5
    <3> QED BY <2>1, <2>4, <3>1, <3>2, <3>5, <3>6, <3>7, EnterStep
  <2> QED BY <2>3, <2>4
<1>9. ASSUME NEW t \in Task, NothingToRestore(t) PROVE Parts'
  <2>1. /\ pc[t] = "failed" /\ (want[t] = Default \/ Loaded(Default))
        /\ primary' = IF want[t] = Default THEN primary ELSE Default
        /\ UNCHANGED <<want, slots, live, fresh, lru>>
    BY <1>9 DEF NothingToRestore
  <2>2. PICK l \in {"refused", "done"} : pc' = [pc EXCEPT ![t] = l]
    BY <1>9 DEF NothingToRestore
  <2>3. primary' = primary \/ primary' \in Range(lru)
    BY <2>1 DEF Loaded
  <2> QED BY <2>1, <2>2, <2>3, <1>a, QuietStep
<1>10. ASSUME NEW t \in Task, BeginRestore(t) PROVE Parts'
  <2>1. /\ pc' = [pc EXCEPT ![t] = "restore"] /\ pc[t] = "failed"
        /\ want[t] # Default /\ ~Loaded(Default)
        /\ UNCHANGED <<want, slots, live, fresh, lru, primary>>
    BY <1>10 DEF BeginRestore
  <2> QED BY <2>1, <1>a, QuietStep
<1>11. ASSUME NEW t \in Task, RestoreEnds(t) PROVE Parts'
  <2>1. pc[t] = "restore" /\ UNCHANGED <<want, fresh>>
    BY <1>11 DEF RestoreEnds
  <2>2. PICK l \in {"refused", "done"} : pc' = [pc EXCEPT ![t] = l]
    BY <1>11 DEF RestoreEnds
  <2>3. CASE InsertDefault(t)
    BY <2>1, <2>2, <2>3, InsertStep
  <2>4. CASE UNCHANGED poolVars
    BY <2>1, <2>2, <2>4, <1>a, QuietStep
  <2> QED BY <1>11, <2>3, <2>4 DEF RestoreEnds
<1>12. ASSUME NEW t \in Task, Trim(t) PROVE Parts'
  <2> DEFINE q == IF Loaded(Default) THEN <<Default>> ELSE << >>
  <2>1. /\ pc[t] = "trim" /\ HasSwitch(t) /\ UNCHANGED <<want, fresh>>
        /\ lru' = q /\ slots' = Shrunk(q) /\ live' = live \ Dropped(q)
    BY <1>12 DEF Trim
  <2>2. q \in Seq(Model) /\ IsInjective(q) /\ Range(q) \subseteq Range(lru) /\ Len(q) <= MaxLoaded
    BY PoolAssumption DEF IsInjective, Range, Loaded
  <2>3. CASE Loaded(Default)
    <3>1. q = <<Default>> /\ primary' = Default /\ pc' = [pc EXCEPT ![t] = "done"]
      BY <1>12, <2>3 DEF Trim
    <3>2. q # << >> /\ Default \in Range(q)
      BY <3>1 DEF Range
    <3> HIDE DEF q
    <3> QED BY <2>1, <2>2, <3>1, <3>2, ShrinkStep
  <2>4. CASE ~Loaded(Default)
    <3>1. q = << >> /\ pc' = [pc EXCEPT ![t] = "trimBuild"]
      BY <1>12, <2>4 DEF Trim
    <3> HIDE DEF q
    <3> QED BY <2>1, <2>2, <3>1, ShrinkStep
  <2> QED BY <2>3, <2>4
<1>13. ASSUME NEW t \in Task, TrimEnds(t) PROVE Parts'
  <2>1. pc[t] = "trimBuild" /\ UNCHANGED <<want, fresh>> /\ pc' = [pc EXCEPT ![t] = "done"]
    BY <1>13 DEF TrimEnds
  <2>2. CASE InsertDefault(t)
    BY <2>1, <2>2, InsertStep
  <2>3. CASE primary' = FirstOf(lru) /\ UNCHANGED <<lru, slots, live>>
    <3>1. lru = << >> /\ primary' = None
      BY <2>1, <2>3 DEF FirstOf, PoolInv, KeysInv
    <3>2. pc'[t] = "done" /\ \A u \in Task : u # t => pc'[u] = pc[u]
      BY <2>1 DEF PoolInv, TypeOK
    <3>3. KeysInv'
      BY <2>1, <2>3, <3>2 DEF PoolInv, KeysInv, Loaded
    <3>4. ReplicaInv'
      <4>1. \A u \in Task : pc'[u] \in Before => pc[u] \in Before
        BY <2>1, <3>2
      <4>2. \A u \in Task : pc'[u] = "publish" <=> pc[u] = "publish"
        BY <2>1, <3>2
      <4> HIDE DEF Before
      <4>3. /\ \A u \in Task : fresh'[u] # {} <=> pc'[u] = "publish"
            /\ \A u \in Task : pc'[u] \in Before =>
                 \A m \in Model : \A r \in slots'[m] : r.by # u
        BY <2>1, <2>3, <4>1, <4>2 DEF PoolInv, ReplicaInv
      <4> QED BY <2>1, <2>3, <4>3 DEF PoolInv, ReplicaInv
    <3>5. PrimaryInv'
      BY <2>3, <3>1 DEF PrimaryInv
    <3>6. PoolBounded'
      BY <2>1, <2>3 DEF PoolInv, PoolBounded
    <3> QED BY <3>3, <3>4, <3>5, <3>6 DEF Parts
  <2> QED BY <1>13, <2>2, <2>3 DEF TrimEnds
<1>14. ASSUME NEW t \in Task, Acquire(t) PROVE Parts'
  <2>1. /\ pc' = [pc EXCEPT ![t] = "generate"] /\ pc[t] = "replica"
        /\ UNCHANGED <<want, slots, live, fresh, lru, primary>>
    BY <1>14 DEF Acquire
  <2> QED BY <2>1, <1>a, QuietStep
<1>15. ASSUME NEW t \in Task, ModelGone(t) PROVE Parts'
  <2>1. /\ pc' = [pc EXCEPT ![t] = "refused"] /\ pc[t] = "replica"
        /\ UNCHANGED <<want, slots, live, fresh, lru, primary>>
    BY <1>15 DEF ModelGone
  <2> QED BY <2>1, <1>a, QuietStep
<1>16. ASSUME NEW t \in Task, GenerationEnds(t) PROVE Parts'
  <2>1. /\ pc' = [pc EXCEPT ![t] = "done"] /\ pc[t] = "generate"
        /\ UNCHANGED <<want, slots, live, fresh, lru, primary>>
    BY <1>16 DEF GenerationEnds
  <2> QED BY <2>1, <1>a, QuietStep
<1>17. ASSUME NEW t \in Task, Disconnect(t) \/ DisconnectAtChunk(t) PROVE Parts'
  <2>1. /\ pc' = [pc EXCEPT ![t] = "done"] /\ pc[t] \in {"replica", "generate"}
        /\ UNCHANGED <<want, slots, live, fresh, lru, primary>>
    BY <1>17 DEF Disconnect, DisconnectAtChunk
  <2> QED BY <2>1, <1>a, QuietStep
<1>18. ASSUME NEW t \in Task, ThreadEnds(t) PROVE Parts'
  <2>1. UNCHANGED <<want, pc, slots, live, fresh, lru, primary>>
    BY <1>18 DEF ThreadEnds
  <2> QED BY <2>1 DEF PoolInv, Parts, KeysInv, ReplicaInv, PrimaryInv, PoolBounded, Loaded
<1>19. CASE UNCHANGED vars
  <2>1. UNCHANGED <<want, pc, slots, live, fresh, lru, primary>>
    BY <1>19 DEF vars
  <2> QED BY <2>1 DEF PoolInv, Parts, KeysInv, ReplicaInv, PrimaryInv, PoolBounded, Loaded
<1> QED BY <1>1, <1>2, <1>3, <1>4, <1>5, <1>6, <1>7, <1>8, <1>9, <1>10, <1>11, <1>12, <1>13, <1>14, <1>15, <1>16, <1>17, <1>18, <1>19
    DEF Next, Arrive, Serve, Load

LEMMA InitInv == Init => PoolInv
<1> SUFFICES ASSUME Init PROVE PoolInv
  OBVIOUS
<1>1. PICK n \in 0..MaxLoaded : lru \in [1..n -> Model] /\ IsInjective(lru)
  BY DEF Init
<1>2. lru \in Seq(Model) /\ Len(lru) = n /\ n \in Nat
  BY <1>1, PoolAssumption
<1>3. \A m \in Model : /\ Built(None, m, Replicas) \subseteq Replica /\ Built(None, m, Replicas) # {}
                       /\ \A r \in Built(None, m, Replicas) : r.by = None /\ r.of = m
  BY PoolAssumption, BuiltIn
<1>4. \A m \in Model : slots[m] = IF m \in Range(lru) THEN Built(None, m, Replicas) ELSE {}
  BY DEF Init
<1>5. \A m \in Model : \A r \in slots[m] : r \in Replica /\ r.by = None /\ r.of = m
  BY <1>3, <1>4
<1>6. IF lru = << >> THEN primary = None ELSE primary \in Range(lru) /\ primary \in Model
  <2>1. lru # << >> => Len(lru) \in 1..Len(lru) /\ DOMAIN lru = 1..Len(lru)
    BY <1>2
  <2> QED BY <1>2, <2>1 DEF Init, Last, Range
<1>7. TypeOK
  <2>1. slots \in [Model -> SUBSET Replica] /\ live \subseteq Replica
    BY <1>5 DEF Init
  <2> QED BY <1>2, <1>6, <2>1, PoolAssumption DEF Init, TypeOK, PC
<1>8. SwitchInv
  BY DEF Init, SwitchInv, Queued, IsInjective, Range
<1>9. JobInv
  BY DEF Init, JobInv
<1>10. KeysInv
  BY <1>1, <1>3, <1>4 DEF Init, KeysInv, Loaded
<1>11. ReplicaInv
  <2>1. \A r \in Replica : r \in live <=> \/ \E m \in Model : r \in slots[m]
                                       \/ \E t \in Task : r \in fresh[t]
    BY DEF Init
  <2> QED BY <1>5, <2>1, PoolAssumption DEF Init, ReplicaInv
<1>12. PrimaryInv
  BY <1>6 DEF PrimaryInv, Loaded
<1>13. PoolBounded
  BY <1>2 DEF PoolBounded
<1> QED BY <1>7, <1>8, <1>9, <1>10, <1>11, <1>12, <1>13 DEF PoolInv

LEMMA PoolStep == PoolInv /\ [Next]_vars => PoolInv'
<1> SUFFICES ASSUME PoolInv, [Next]_vars PROVE PoolInv'
  OBVIOUS
<1>1. SwitchInv'
  BY SwitchStep DEF PoolInv
<1> QED BY <1>1, TypeStep, PartsStep DEF PoolInv, Parts

(* What the pool agrees on with itself and with the memory that is taken,  *)
(* whatever loads, failures, evictions and trims do to each other.         *)
THEOREM PoolInvariant == Spec => []PoolInv
<1> QED BY InitInv, PoolStep, PTL DEF Spec

(* No model is loaded without a key or named without being loaded, and no  *)
(* replica that was built is lost or at two places.                        *)
THEOREM PoolStaysConsistent == Spec => []PoolConsistent
<1>1. ASSUME PoolInv PROVE PoolConsistent
  <2> USE <1>1 DEF PoolInv, TypeOK
  <2>1. PrimaryLoaded
    BY DEF PrimaryLoaded, KeysInv, PrimaryInv
  <2>2. \A m \in Model : \A t \in Task : slots[m] \cap fresh[t] = {}
    BY Apart
  <2> DEFINE R == (UNION {slots[m] : m \in Model}) \cup (UNION {fresh[t] : t \in Task})
  <2>3. \A r : r \in R <=> \/ \E m \in Model : r \in slots[m]
                          \/ \E t \in Task : r \in fresh[t]
    OBVIOUS
  <2>4. R \subseteq Replica
    OBVIOUS
  <2> HIDE DEF R
  <2>5. \A r \in Replica : r \in live <=> r \in R
    BY <2>3 DEF ReplicaInv
  <2>6. live = R
    BY <2>4, <2>5
  <2> QED BY <2>1, <2>2, <2>6 DEF PoolConsistent, NoReplicaLost, R
<1> QED BY <1>1, PoolInvariant, PTL

(* Loads that race for the last place of the pool never exceed its bound;  *)
(* only a default model restored after a failed load is one too many.      *)
THEOREM PoolStaysBounded == Spec => []PoolBounded
<1>1. PoolInv => PoolBounded
  BY DEF PoolInv
<1> QED BY <1>1, PoolInvariant, PTL

-----------------------------------------------------------------------------
(* A replica is held by a request that generates, or was abandoned.        *)
HoldInv == \A t \in Task : holds[t] # None => pc[t] \in {"generate", "done"}

(* Nothing but the event loop, a build or a generation keeps t from its    *)
(* next step.                                                              *)
GoesOn(t) ==
  \/ pc[t] \in {"build", "restore", "trimBuild", "generate"}
  \/ pc[t] \in {"first", "publish", "failed", "trim"} /\ HasSwitch(t)
  \/ pc[t] = "replica" /\ (Free(target[t]) # {} \/ ~Loaded(target[t]))

(* u is at the head of the switch's queue in which t waits, or has the     *)
(* lock of a replica that t would take.                                    *)
Keeps(u, t) ==
  \/ t \in Range(switch) /\ HasSwitch(u)
  \/ pc[t] = "replica" /\ holds[u] \in slots[target[t]]

NobodyStuck ==
  \A t \in Task : (pc[t] \notin {"new", "done", "refused"} /\ ~GoesOn(t)) =>
    Starved(t) \/ \E u \in Task \ {t} : Keeps(u, t) /\ GoesOn(u)

LEMMA HoldStep == ASSUME TypeOK, HoldInv, [Next]_vars PROVE HoldInv'
<1>1. CASE UNCHANGED vars
  BY <1>1 DEF vars, chatVars, HoldInv
<1>2. ASSUME NEW t \in Task, Acquire(t) PROVE HoldInv'
  <2>1. pc' = [pc EXCEPT ![t] = "generate"] /\ \A u \in Task \ {t} : holds'[u] = holds[u]
    BY <1>2 DEF Acquire, Goto, TypeOK
  <2> QED BY <2>1 DEF HoldInv, TypeOK
<1>3. ASSUME NEW t \in Task, GenerationEnds(t) \/ Disconnect(t) PROVE HoldInv'
  <2>1. /\ pc' = [pc EXCEPT ![t] = "done"] /\ holds'[t] = None
        /\ \A u \in Task \ {t} : holds'[u] = holds[u]
    BY <1>3 DEF GenerationEnds, Disconnect, Goto, TypeOK
  <2> QED BY <2>1 DEF HoldInv, TypeOK
<1>8. ASSUME NEW t \in Task, DisconnectAtChunk(t) PROVE HoldInv'
  BY <1>8 DEF DisconnectAtChunk, Goto, HoldInv, TypeOK
<1>4. ASSUME NEW t \in Task, pc[t] \notin {"generate", "done"}, NEW l, Goto(t, l), holds' = holds
      PROVE  HoldInv'
  BY <1>4 DEF Goto, HoldInv, TypeOK
<1>5. ASSUME NEW t \in Task, Arrive(t) PROVE HoldInv'
  <2>1. pc[t] = "new" /\ (\E l : Goto(t, l)) /\ holds' = holds
    BY <1>5 DEF Arrive, ChatArrives, LoadArrives, TrimArrives, Resolved, Queue, chatVars
  <2> QED BY <1>4, <2>1
<1>6. ASSUME NEW t \in Task, Load(t) \/ Trim(t) \/ TrimEnds(t) \/ ModelGone(t) PROVE HoldInv'
  <2>1. pc[t] \notin {"generate", "done"}
    BY <1>6 DEF Load, AlreadyLoaded, MakeRoom, BuildEnds, BuildFails, Publish, NothingToRestore,
                BeginRestore, RestoreEnds, Trim, TrimEnds, ModelGone
  <2>2. holds' = holds
    BY <1>6 DEF Load, AlreadyLoaded, MakeRoom, BuildEnds, BuildFails, Publish, NothingToRestore,
                BeginRestore, RestoreEnds, Trim, TrimEnds, ModelGone, LoadDone, Resolved, chatVars
  <2>3. \E l : Goto(t, l)
    <3>1. CASE AlreadyLoaded(t)
      BY <3>1, DoneGoes DEF AlreadyLoaded
    <3>2. CASE Publish(t)
      BY <3>2, DoneGoes DEF Publish
    <3>3. CASE \/ MakeRoom(t) \/ BuildEnds(t) \/ BuildFails(t) \/ NothingToRestore(t)
               \/ BeginRestore(t) \/ RestoreEnds(t)
      BY <3>3 DEF MakeRoom, BuildEnds, BuildFails, NothingToRestore, BeginRestore, RestoreEnds,
                  LoadFailed, Queue
    <3>4. CASE Trim(t) \/ TrimEnds(t) \/ ModelGone(t)
      BY <3>4 DEF Trim, TrimEnds, ModelGone
    <3> QED BY <1>6, <3>1, <3>2, <3>3, <3>4 DEF Load
  <2> QED BY <1>4, <2>1, <2>2, <2>3
<1>7. ASSUME NEW t \in Task, ThreadEnds(t) PROVE HoldInv'
  BY <1>7 DEF ThreadEnds, HoldInv
<1> QED BY <1>1, <1>2, <1>3, <1>5, <1>6, <1>7, <1>8 DEF Next, Serve

(* A request that cannot go on waits for the switch lock behind one that   *)
(* can, or for a replica whose holder generates, or every replica of its   *)
(* model was abandoned by a closed stream: no request waits for the        *)
(* one while it keeps the other, and a failed load, a restore or a trim    *)
(* that builds under the lock is at work, never in a queue.                *)
THEOREM RequestsNeverStuck == Spec => []NobodyStuck
<1>1. Init => HoldInv
  BY DEF Init, HoldInv
<1>2. PoolInv /\ HoldInv /\ [Next]_vars => HoldInv'
  BY HoldStep DEF PoolInv
<1>3. PoolInv /\ HoldInv => NobodyStuck
  <2> SUFFICES ASSUME PoolInv, HoldInv, NEW t \in Task,
                      pc[t] \notin {"new", "done", "refused"}, ~GoesOn(t)
               PROVE  Starved(t) \/ \E u \in Task \ {t} : Keeps(u, t) /\ GoesOn(u)
    BY DEF NobodyStuck
  <2>1. TypeOK /\ SwitchInv /\ JobInv /\ KeysInv
    BY DEF PoolInv
  <2>2. CASE pc[t] = "replica"
    <3>1. target[t] \in Model /\ Loaded(target[t]) /\ Free(target[t]) = {}
      BY <2>1, <2>2 DEF GoesOn, JobInv
    <3>2. slots[target[t]] # {}
      BY <2>1, <3>1 DEF KeysInv
    <3>3. SUFFICES ASSUME ~Starved(t) PROVE \E u \in Task \ {t} : Keeps(u, t) /\ GoesOn(u)
      OBVIOUS
    <3>4. PICK r \in slots[target[t]] : ~Abandoned(r)
      BY <2>2, <3>2, <3>3 DEF Starved
    <3>5. PICK u \in Task : holds[u] = r
      BY <3>1, <3>4 DEF Free
    <3>6. r # None
      BY <2>1, <3>1, <3>4, PoolAssumption DEF TypeOK
    <3>7. pc[u] = "generate"
      BY <3>4, <3>5, <3>6 DEF HoldInv, Abandoned
    <3> QED BY <2>2, <3>4, <3>5, <3>7 DEF Keeps, GoesOn
  <2>3. CASE pc[t] # "replica"
    <3>1. pc[t] \in {"first", "publish", "failed", "trim"} /\ ~HasSwitch(t)
      BY <2>1, <2>3 DEF GoesOn, TypeOK, PC
    <3>2. t \in Range(switch) /\ switch \in Seq(Task) /\ IsInjective(switch)
      BY <2>1, <3>1 DEF SwitchInv, Queued, TypeOK
    <3>3. switch # << >>
      BY <3>2, RangeIn
    <3>4. PICK u \in Task : HasSwitch(u) /\ u \in Range(switch)
      <4>1. Head(switch) \in Range(switch) /\ Head(switch) \in Task
        BY <3>2, <3>3, TailOf
      <4> QED BY <3>3, <4>1 DEF HasSwitch
    <3>5. pc[u] \in Queued /\ u # t
      BY <2>1, <3>1, <3>4 DEF SwitchInv
    <3> QED BY <3>2, <3>4, <3>5 DEF Keeps, GoesOn, Queued
  <2> QED BY <2>2, <2>3
<1> QED BY <1>1, <1>2, <1>3, PoolInvariant, PTL DEF Spec
=============================================================================
