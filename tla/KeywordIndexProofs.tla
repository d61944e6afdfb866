------------------------- MODULE KeywordIndexProofs -------------------------
(***************************************************************************)
(* Proofs about KeywordIndex, for any searches, documents and ids: when    *)
(* chunks become visible in the order of their ids, a stored index taken   *)
(* for fresh lacks no chunk.  A fingerprint bounds the chunks that are     *)
(* still there of those it counted (SoundPrints), new ids lie above it, and *)
(* while none of them is gone the texts read after it had them all.  So a  *)
(* search finds what was reported as indexed before it began; and while    *)
(* searches are in flight, one of them can go on.                          *)
(***************************************************************************)
EXTENDS KeywordIndex, FiniteSetTheorems, SequenceTheorems,
        WellFoundedInduction, TLAPS

Holding == {"load", "loaded", "fetch", "fetched", "save", "saved"}

(* One search at a time loads or builds.                                   *)
Locked == \A s \in Search : pc[s] \in Holding => lock # << >> /\ Head(lock) = s

(* Ids that were drawn and are not visible yet lie above the visible ones. *)
Drawn ==
  /\ \A x \in corpus : x <= last_id
  /\ \A d \in Document : chunk[d] <= last_id
  /\ \A d \in Document : doc[d] = "drawn" => \A x \in corpus : x < chunk[d]
  /\ \A d, e \in Document :
       (doc[d] = "drawn" /\ doc[e] = "drawn" /\ d # e) => chunk[d] # chunk[e]

Low(p) == {x \in corpus : x <= p.highest}

(* Fingerprints below which nothing appears any more and which counted at  *)
(* least what is there; blobs that hold all of it while none of it is gone.*)
SoundPrints ==
  {p \in Stamp : /\ p.highest <= last_id
                 /\ \A d \in Document : doc[d] = "drawn" => p.highest < chunk[d]
                 /\ Cardinality(Low(p)) <= p.count}

SoundBlobs ==
  {b \in [print : Stamp, chunks : SUBSET Chunk] :
     /\ b.print \in SoundPrints
     /\ Cardinality(Low(b.print)) = b.print.count => Low(b.print) \subseteq b.chunks}

(* Every fingerprint on its way to the store, and what is stored under it. *)
Prints ==
  /\ pending # None => pending \in SoundPrints
  /\ stored # None => stored \in SoundBlobs
  /\ \A s \in Search : (pc[s] = "loaded" /\ got[s].print # None) => got[s].print \in SoundPrints
  /\ \A s \in Search : (pc[s] = "fetched" /\ pending # None) =>
       [print |-> pending, chunks |-> got[s].chunks] \in SoundBlobs
  /\ \A s \in Search : pc[s] = "save" => got[s] \in SoundBlobs

(* Documents have chunks of their own, visible while they are indexed.     *)
Owned ==
  /\ \A d, e \in Document : d # e /\ chunk[d] # 0 => chunk[d] # chunk[e]
  /\ \A d \in Document : doc[d] \in {"inserted", "indexed", "overtaken"} => chunk[d] \in corpus

(* What a search saw announced was drawn before, and was not drawn again.  *)
Known ==
  \A s \in Search :
    /\ announced[s] \subseteq 0..last_id
    /\ \A d \in Document : doc[d] \in {"drawn", "inserted"} => chunk[d] \notin announced[s]

(* A set of chunks that lacks no document that is reported as indexed.     *)
Complete(c) == \A d \in Document : doc[d] = "indexed" => chunk[d] \in c

(* The index lacks none, nor does what a search is about to make of it; a  *)
(* search that has built an index has it, or was told that it changed.     *)
AtHand ==
  /\ index # None => Complete(index)
  /\ \A s \in Search : (pc[s] = "loaded" /\ got[s].chunks # None) => Complete(got[s].chunks)
  /\ \A s \in Search : pc[s] = "fetched" => Complete(got[s].chunks)
  /\ \A s \in Search : pc[s] \in {"save", "saved"} => index # None \/ s \in excused

-----------------------------------------------------------------------------
(* A nonempty set of naturals has a least element, one below a bound a     *)
(* greatest.                                                               *)
LEMMA LeastBelow ==
  ASSUME NEW Below, IsWellFoundedOn(Below, Nat), NEW S, S \subseteq Nat, S # {},
         \A x, y \in Nat : y < x => <<y, x>> \in Below
  PROVE  \E x \in S : \A y \in S : x <= y
<1>1. PICK x \in S : \A y \in S : <<y, x>> \notin Below
  BY WFMin
<1>2. \A y \in S : ~(y < x)
  BY <1>1
<1>3. \A y \in S : x <= y
  BY <1>2, SMT
<1> QED
  BY <1>3

LEMMA LessThanPairs == \A x, y \in Nat : y < x => <<y, x>> \in OpToRel(<, Nat)
  BY DEF OpToRel

LEMMA LeastNat ==
  ASSUME NEW S, S \subseteq Nat, S # {} PROVE \E x \in S : \A y \in S : x <= y
  BY LeastBelow, NatLessThanWellFounded, LessThanPairs

LEMMA GreatestBelow ==
  ASSUME NEW n \in Nat, NEW S \in SUBSET (1..n), S # {}
  PROVE  \E x \in S : \A y \in S : y <= x
<1> DEFINE Gaps == {n - x : x \in S}
<1>1. Gaps \subseteq Nat /\ Gaps # {}
  <2>1. \A x \in S : n - x \in Nat
    OBVIOUS
  <2>2. PICK x \in S : TRUE
    OBVIOUS
  <2>3. n - x \in Gaps
    BY <2>2
  <2> QED
    BY <2>1, <2>3
<1>2. PICK g \in Gaps : \A h \in Gaps : g <= h
  <2> HIDE DEF Gaps
  <2> QED
    BY <1>1, LeastNat
<1>3. PICK x \in S : g = n - x
  OBVIOUS
<1>4. \A y \in S : n - x <= n - y
  BY <1>2, <1>3
<1> QED
  BY <1>4

(* The highest id of a corpus bounds it.                                   *)
LEMMA HighestBounds ==
  ASSUME MaxId \in Nat, NEW c \in SUBSET Chunk
  PROVE  /\ Highest(c) \in 0..MaxId
         /\ \A x \in c : x <= Highest(c)
         /\ Highest(c) \in c \cup {0}
<1>1. CASE c = {}
  BY <1>1 DEF Highest
<1>2. CASE c # {}
  <2>1. \E x \in c : \A y \in c : y <= x
    BY <1>2, GreatestBelow DEF Chunk
  <2>2. Highest(c) \in c /\ \A y \in c : y <= Highest(c)
    BY <1>2, <2>1 DEF Highest
  <2>3. Highest(c) \in Chunk
    BY <2>2
  <2> QED
    BY <2>2, <2>3 DEF Chunk
<1> QED
  BY <1>1, <1>2

(* Sets of chunks are finite; a smaller one counts less.                   *)
LEMMA ChunksFinite ==
  ASSUME MaxId \in Nat, NEW c \in SUBSET Chunk
  PROVE  /\ IsFiniteSet(c)
         /\ Cardinality(c) \in Nat
         /\ \A e \in SUBSET c : /\ Cardinality(e) \in Nat
                                /\ Cardinality(e) <= Cardinality(c)
                                /\ Cardinality(e) = Cardinality(c) => e = c
<1>1. IsFiniteSet(Chunk)
  BY FS_Interval DEF Chunk
<1>2. IsFiniteSet(c) /\ Cardinality(c) \in Nat
  BY <1>1, FS_Subset, FS_CardinalityType
<1>3. ASSUME NEW e \in SUBSET c
      PROVE  /\ Cardinality(e) \in Nat
             /\ Cardinality(e) <= Cardinality(c)
             /\ Cardinality(e) = Cardinality(c) => e = c
  BY <1>2, FS_Subset, FS_CardinalityType
<1> QED
  BY <1>2, <1>3

-----------------------------------------------------------------------------
(* What the end of a search leaves typed.                                  *)
Ended ==
  /\ pc \in [Search -> Inside \cup {"new", "claimed", "done", "vector"}]
  /\ got \in [Search -> [print : {None} \cup Stamp, chunks : {None} \cup SUBSET Chunk]]
  /\ \A s \in Search : pc[s] \in {"fetched", "save"} => got[s].chunks # None
  /\ \A s \in Search : pc[s] \in {"loaded", "save"} => got[s].chunks # {}
  /\ \A s \in Search : pc[s] = "save" => got[s].print # None
  /\ answer \in [Search -> SUBSET Chunk]
  /\ claimed \in BOOLEAN
  /\ due \in BOOLEAN

(* A search that ends and one that unlocks keep the types.                 *)
LEMMA FinishTypes ==
  ASSUME TypeOK, NEW s \in Search, NEW found, found \in {None} \cup SUBSET Chunk,
         Finish(s, found)
  PROVE  Ended'
  BY DEF TypeOK, Ended, Finish, Goto, Inside, Nothing

LEMMA UnlockTypes ==
  ASSUME TypeOK, lock # << >>, Unlock PROVE lock' \in Seq(Search)
  BY DEF TypeOK, Unlock

(* Every step keeps the types.                                             *)
LEMMA TypeStep == TypeOK /\ Locked /\ [Next]_vars => TypeOK'
<1> SUFFICES ASSUME TypeOK, Locked, [Next]_vars PROVE TypeOK'
  OBVIOUS
<1> USE IndexAssumption DEF TypeOK, Inside, Blob, Nothing, Content
<1>1. CASE UNCHANGED vars
  BY <1>1 DEF vars, corpusVars, indexVars, searchVars
<1>2. ASSUME NEW d \in Document, Change(d) PROVE TypeOK'
  <2>1. CASE Draw(d)
    BY <2>1 DEF Draw, Goes, corpusVars, indexVars, searchVars
  <2>2. CASE Insert(d)
    <3>1. chunk[d] \in Chunk
      BY <2>2 DEF Insert, Goes, Chunk
    <3> QED
      BY <2>2, <3>1 DEF Insert, Goes, corpusVars, indexVars, searchVars
  <2>3. CASE Announce(d)
    BY <2>3 DEF Announce, Goes, MarkDirty, InFlight, corpusVars, indexVars, searchVars
  <2>4. CASE Rollback(d)
    BY <2>4 DEF Rollback, Goes, corpusVars, indexVars, searchVars
  <2>5. CASE Remove(d)
    BY <2>5 DEF Remove, Goes, corpusVars, indexVars, searchVars
  <2>6. CASE MarkRemoved(d)
    BY <2>6 DEF MarkRemoved, Goes, MarkDirty, InFlight, corpusVars, indexVars, searchVars
  <2>7. CASE Redo(d)
    BY <2>7 DEF Redo, Goes, corpusVars, indexVars, searchVars
  <2> QED
    BY <1>2, <2>1, <2>2, <2>3, <2>4, <2>5, <2>6, <2>7 DEF Change
<1>3. ASSUME NEW s \in Search, Claim(s) \/ VectorOnly(s) \/ Resume(s) PROVE TypeOK'
  <2>1. CASE Claim(s)
    BY <2>1 DEF Claim, Goto, corpusVars, indexVars, searchVars
  <2>2. CASE VectorOnly(s)
    BY <2>2 DEF VectorOnly, Goto, corpusVars, indexVars, searchVars
  <2>3. CASE Begin(s)
    <3>1. ASSUME Finish(s, index) PROVE Ended'
      BY <3>1, FinishTypes DEF Ended
    <3>2. Append(lock, s) \in Seq(Search)
      BY <2>3
    <3>3. announced' \in [Search -> SUBSET (0..MaxId)]
      <4>1. {chunk[d] : d \in {e \in Document : doc[e] = "indexed"}} \in SUBSET (0..MaxId)
        OBVIOUS
      <4> QED
        BY <2>3, <4>1 DEF Begin
    <3>4. UNCHANGED <<corpusVars, stored, indexVars, excused>>
      BY <2>3 DEF Begin
    <3>5. CASE Built
      <4>1. Ended' /\ lock' = lock
        BY <2>3, <3>1, <3>5 DEF Begin
      <4> QED
        BY <3>3, <3>4, <4>1 DEF Ended, corpusVars, indexVars
    <3>6. CASE ~Built
      <4>1. pc' = [pc EXCEPT ![s] = "lock"] /\ lock' \in Seq(Search) /\ due' = FALSE
        BY <2>3, <3>2, <3>6 DEF Begin, Goto
      <4>2. UNCHANGED <<claimed, got, answer>>
        BY <2>3, <3>6 DEF Begin
      <4> QED
        BY <3>3, <3>4, <4>1, <4>2 DEF corpusVars, indexVars
    <3> QED
      BY <3>5, <3>6
  <2>4. CASE Enter(s)
    <3>1. lock # << >>
      BY <2>4 DEF Enter
    <3>2. ASSUME Finish(s, index), Unlock PROVE Ended' /\ lock' \in Seq(Search)
      BY <3>1, <3>2, FinishTypes, UnlockTypes
    <3> QED
      BY <2>4, <3>1, <3>2 DEF Ended, Enter, Goto, corpusVars, indexVars
  <2>5. CASE LoadQuery(s)
    <3>1. Fingerprint(corpus) \in Stamp
      BY ChunksFinite, HighestBounds, IndexAssumption DEF Fingerprint, Stamp
    <3>2. stored # None => stored.chunks \in Content
      OBVIOUS
    <3>3. None # {}
      OBVIOUS
    <3> DEFINE Result(u) ==
                 [print  |-> Fingerprint(corpus),
                  chunks |-> IF u /\ stored # None /\ stored.print = Fingerprint(corpus)
                               THEN stored.chunks ELSE None]
    <3>4. \A u \in BOOLEAN :
            /\ Result(u) \in [print : {None} \cup Stamp, chunks : {None} \cup SUBSET Chunk]
            /\ Result(u).chunks # {}
      BY <3>1, <3>2, <3>3
    <3>5. PICK u \in BOOLEAN : got' = [got EXCEPT ![s] = Result(u)]
      BY <2>5 DEF LoadQuery
    <3> HIDE DEF Result
    <3> QED
      BY <2>5, <3>4, <3>5 DEF LoadQuery, Goto, corpusVars, indexVars
  <2>6. CASE LoadFails(s)
    BY <2>6 DEF LoadFails, Goto, corpusVars, indexVars, searchVars
  <2>7. CASE LoadReturns(s)
    <3>1. lock # << >>
      BY <2>7 DEF LoadReturns, Locked, Holding
    <3>2. ASSUME Finish(s, got[s].chunks), Unlock PROVE Ended' /\ lock' \in Seq(Search)
      BY <3>1, <3>2, FinishTypes, UnlockTypes
    <3>3. got[s].chunks # None => got[s].chunks \in Content
      BY <2>7 DEF LoadReturns
    <3>4. got[s].print \in {None} \cup Stamp
      OBVIOUS
    <3>5. index' \in Content \cup {None} /\ pending' \in Stamp \cup {None}
      BY <2>7, <3>3, <3>4 DEF LoadReturns, indexVars
    <3>6. CASE got[s].chunks = None
      <4>1. pc' = [pc EXCEPT ![s] = "fetch"] /\ got' = [got EXCEPT ![s] = Nothing]
        BY <2>7, <3>6 DEF LoadReturns, Goto
      <4>2. UNCHANGED <<needs_rebuild, claimed, due, lock, corpusVars, stored, answer, announced,
                        excused>>
        BY <2>7, <3>6 DEF LoadReturns
      <4> QED
        BY <3>5, <4>1, <4>2 DEF corpusVars
    <3>7. CASE got[s].chunks # None
      <4>1. Ended' /\ lock' \in Seq(Search)
        BY <2>7, <3>2, <3>7 DEF LoadReturns
      <4> QED
        BY <2>7, <3>5, <4>1 DEF Ended, LoadReturns, corpusVars
    <3> QED
      BY <3>6, <3>7
  <2>8. CASE FetchQuery(s)
    <3>1. corpus # None
      BY DEF Chunk
    <3> QED
      BY <2>8, <3>1 DEF FetchQuery, Goto, corpusVars, indexVars
  <2>9. CASE FetchFails(s)
    <3>1. lock # << >>
      BY <2>9 DEF FetchFails, Locked, Holding
    <3>2. ASSUME Finish(s, None), Unlock PROVE Ended' /\ lock' \in Seq(Search)
      BY <3>1, <3>2, FinishTypes, UnlockTypes
    <3> QED
      BY <2>9, <3>1, <3>2 DEF Ended, FetchFails, NothingBuilt, Goto, corpusVars,
        indexVars
  <2>10. CASE EmptyCorpus(s)
    <3>1. lock # << >>
      BY <2>10 DEF EmptyCorpus, Locked, Holding
    <3>2. ASSUME Finish(s, None), Unlock PROVE Ended' /\ lock' \in Seq(Search)
      BY <3>1, <3>2, FinishTypes, UnlockTypes
    <3> QED
      BY <2>10, <3>1, <3>2 DEF Ended, EmptyCorpus, NothingBuilt, Goto, corpusVars,
        indexVars
  <2>11. CASE Build(s)
    <3>1. lock # << >>
      BY <2>11 DEF Build, Locked, Holding
    <3>2. ASSUME Finish(s, got[s].chunks), Unlock PROVE Ended' /\ lock' \in Seq(Search)
      BY <3>1, <3>2, FinishTypes, UnlockTypes
    <3>3. got[s].chunks \in Content
      BY <2>11 DEF Build
    <3>4. pending # None => pending \in Stamp
      OBVIOUS
    <3>5. CASE pending = None
      <4>1. Ended' /\ lock' \in Seq(Search)
        BY <2>11, <3>2, <3>5 DEF Build
      <4> QED
        BY <2>11, <3>3, <4>1 DEF Ended, Build, corpusVars
    <3>6. CASE pending # None
      <4>1. /\ pc' = [pc EXCEPT ![s] = "save"]
            /\ got' = [got EXCEPT ![s].print = pending]
            /\ index' = got[s].chunks
            /\ needs_rebuild' = FALSE
        BY <2>11, <3>6 DEF Build, Goto
      <4>2. UNCHANGED <<claimed, due, lock, corpusVars, stored, pending, answer,
                        announced, excused>>
        BY <2>11, <3>6 DEF Build
      <4>3. /\ got'[s].print = pending /\ got'[s].chunks = got[s].chunks /\ pc'[s] = "save"
            /\ \A t \in Search \ {s} : got'[t] = got[t] /\ pc'[t] = pc[t]
        BY <4>1
      <4>4. got' \in [Search -> [print : {None} \cup Stamp, chunks : {None} \cup SUBSET Chunk]]
        BY <3>4, <3>6, <4>1
      <4>5. got[s].chunks # None /\ got[s].chunks # {}
        BY <2>11 DEF Build
      <4>6. \A t \in Search : pc'[t] \in {"fetched", "save"} => got'[t].chunks # None
        BY <4>3, <4>5
      <4>7. \A t \in Search : pc'[t] \in {"loaded", "save"} => got'[t].chunks # {}
        BY <4>3, <4>5
      <4>8. \A t \in Search : pc'[t] = "save" => got'[t].print # None
        BY <3>6, <4>3
      <4> QED
        BY <3>3, <4>1, <4>2, <4>4, <4>6, <4>7, <4>8 DEF corpusVars
    <3> QED
      BY <3>5, <3>6
  <2>12. CASE SaveQuery(s)
    <3>1. got[s] \in [print : {None} \cup Stamp, chunks : {None} \cup SUBSET Chunk]
      OBVIOUS
    <3>2. got[s].print \in Stamp /\ got[s].chunks \in Content
      BY <2>12, <3>1 DEF SaveQuery
    <3>3. got[s] = [print |-> got[s].print, chunks |-> got[s].chunks]
      BY <3>1
    <3>4. got[s] \in Blob
      BY <3>2, <3>3
    <3> QED
      BY <2>12, <3>4 DEF SaveQuery, Goto, corpusVars, indexVars
  <2>13. CASE SaveReturns(s)
    <3>1. lock # << >>
      BY <2>13 DEF SaveReturns, Locked, Holding
    <3>2. ASSUME Finish(s, index), Unlock PROVE Ended' /\ lock' \in Seq(Search)
      BY <3>1, <3>2, FinishTypes, UnlockTypes
    <3> QED
      BY <2>13, <3>1, <3>2 DEF Ended, SaveReturns, Goto, corpusVars, indexVars
  <2> QED
    BY <1>3, <2>1, <2>2, <2>3, <2>4, <2>5, <2>6, <2>7, <2>8, <2>9, <2>10, <2>11,
       <2>12, <2>13 DEF Resume
<1>4. CASE ClaimExpires
  BY <1>4 DEF ClaimExpires, corpusVars, indexVars, searchVars
<1>5. CASE TimerFires
  BY <1>5 DEF TimerFires, Release, corpusVars, indexVars, searchVars
<1>6. CASE Sweep
  BY <1>6 DEF Sweep, Release, corpusVars, indexVars, searchVars
<1> QED
  BY <1>1, <1>2, <1>3, <1>4, <1>5, <1>6 DEF Next

(* Joining the waiters does not take the lock from its holder.             *)
LEMMA AppendFacts ==
  ASSUME NEW S, NEW q \in Seq(S), NEW x \in S
  PROVE  Append(q, x) # << >> /\ (q # << >> => Head(Append(q, x)) = Head(q))
  BY AppendProperties, EmptySeq, HeadTailProperties

(* The lock is handed on in order.                                         *)
LEMMA LockedStep == TypeOK /\ Locked /\ [Next]_vars => Locked'
<1> SUFFICES ASSUME TypeOK, Locked, [Next]_vars PROVE Locked'
  OBVIOUS
<1> USE DEF TypeOK, Locked, Holding, Inside
<1>1. CASE UNCHANGED vars
  BY <1>1 DEF vars, corpusVars, indexVars, searchVars
<1>2. ASSUME NEW d \in Document, Change(d) PROVE Locked'
  <2>1. CASE Draw(d)
    BY <2>1 DEF Draw, Goes, corpusVars, indexVars, searchVars
  <2>2. CASE Insert(d)
    BY <2>2 DEF Insert, Goes, corpusVars, indexVars, searchVars
  <2>3. CASE Announce(d)
    BY <2>3 DEF Announce, Goes, MarkDirty, corpusVars, indexVars, searchVars
  <2>4. CASE Rollback(d)
    BY <2>4 DEF Rollback, Goes, corpusVars, indexVars, searchVars
  <2>5. CASE Remove(d)
    BY <2>5 DEF Remove, Goes, corpusVars, indexVars, searchVars
  <2>6. CASE MarkRemoved(d)
    BY <2>6 DEF MarkRemoved, Goes, MarkDirty, corpusVars, indexVars, searchVars
  <2>7. CASE Redo(d)
    BY <2>7 DEF Redo, Goes, corpusVars, indexVars, searchVars
  <2> QED
    BY <1>2, <2>1, <2>2, <2>3, <2>4, <2>5, <2>6, <2>7 DEF Change
<1>3. ASSUME NEW s \in Search, Claim(s) \/ VectorOnly(s) \/ Resume(s) PROVE Locked'
  <2>1. CASE Claim(s)
    BY <2>1 DEF Claim, Goto, corpusVars, indexVars, searchVars
  <2>2. CASE VectorOnly(s)
    BY <2>2 DEF VectorOnly, Goto, corpusVars, indexVars, searchVars
  <2>3. CASE Begin(s)
    <3>1. CASE Built
      BY <2>3, <3>1 DEF Begin, Finish, Goto
    <3>2. CASE ~Built
      <4>1. lock' = Append(lock, s) /\ pc' = [pc EXCEPT ![s] = "lock"]
        BY <2>3, <3>2 DEF Begin, Goto
      <4> QED
        BY <4>1, AppendFacts
    <3> QED
      BY <3>1, <3>2
  <2>4. CASE Enter(s)
    BY <2>4 DEF Enter, Finish, Unlock, Goto, corpusVars, indexVars, searchVars
  <2>5. CASE LoadQuery(s)
    BY <2>5 DEF LoadQuery, Goto, corpusVars, indexVars, searchVars
  <2>6. CASE LoadFails(s)
    BY <2>6 DEF LoadFails, Goto, corpusVars, indexVars, searchVars
  <2>7. CASE LoadReturns(s)
    BY <2>7 DEF LoadReturns, Finish, Unlock, Goto, corpusVars, indexVars, searchVars
  <2>8. CASE FetchQuery(s)
    BY <2>8 DEF FetchQuery, Goto, corpusVars, indexVars, searchVars
  <2>9. CASE FetchFails(s)
    BY <2>9 DEF FetchFails, NothingBuilt, Finish, Unlock, Goto, corpusVars,
      indexVars, searchVars
  <2>10. CASE EmptyCorpus(s)
    BY <2>10 DEF EmptyCorpus, NothingBuilt, Finish, Unlock, Goto, corpusVars,
      indexVars, searchVars
  <2>11. CASE Build(s)
    BY <2>11 DEF Build, Finish, Unlock, Goto, corpusVars, indexVars, searchVars
  <2>12. CASE SaveQuery(s)
    BY <2>12 DEF SaveQuery, Goto, corpusVars, indexVars, searchVars
  <2>13. CASE SaveReturns(s)
    BY <2>13 DEF SaveReturns, Finish, Unlock, Goto, corpusVars, indexVars,
      searchVars
  <2> QED
    BY <1>3, <2>1, <2>2, <2>3, <2>4, <2>5, <2>6, <2>7, <2>8, <2>9, <2>10, <2>11,
       <2>12, <2>13 DEF Resume
<1>4. CASE ClaimExpires
  BY <1>4 DEF ClaimExpires, corpusVars, indexVars, searchVars
<1>5. CASE TimerFires
  BY <1>5 DEF TimerFires, Release, corpusVars, indexVars, searchVars
<1>6. CASE Sweep
  BY <1>6 DEF Sweep, Release, corpusVars, indexVars, searchVars
<1> QED
  BY <1>1, <1>2, <1>3, <1>4, <1>5, <1>6 DEF Next

(* Chunks become visible in the order of their ids.                        *)
LEMMA DrawnStep == InOrder /\ TypeOK /\ Drawn /\ [Next]_vars => Drawn'
<1> SUFFICES ASSUME InOrder, TypeOK, Drawn, [Next]_vars PROVE Drawn'
  OBVIOUS
<1> USE IndexAssumption DEF TypeOK, Drawn, Chunk
<1>1. CASE UNCHANGED vars
  BY <1>1 DEF vars, corpusVars, indexVars, searchVars
<1>2. ASSUME NEW d \in Document, Change(d) PROVE Drawn'
  <2>1. CASE Draw(d)
    <3>1. last_id' = last_id + 1 /\ corpus' = corpus /\ last_id \in Nat
      BY <2>1 DEF Draw
    <3>2. chunk' = [chunk EXCEPT ![d] = last_id + 1] /\ doc' = [doc EXCEPT ![d] = "drawn"]
      BY <2>1 DEF Draw, Goes
    <3>3. \A x \in corpus : x \in Nat /\ x <= last_id
      <4>1. \A x \in corpus : x \in 1..MaxId
        OBVIOUS
      <4> QED
        BY <4>1
    <3>4. \A e \in Document : chunk[e] \in Nat /\ chunk[e] <= last_id
      OBVIOUS
    <3>5. \A e \in Document : chunk'[e] = IF e = d THEN last_id + 1 ELSE chunk[e]
      BY <3>2
    <3>6. \A e \in Document : doc'[e] = "drawn" => e = d \/ doc[e] = "drawn"
      BY <3>2
    <3>7. \A e \in Document : chunk'[e] <= last_id'
      BY <3>1, <3>4, <3>5
    <3>8. \A e \in Document : doc'[e] = "drawn" => \A x \in corpus' : x < chunk'[e]
      <4> SUFFICES ASSUME NEW e \in Document, doc'[e] = "drawn", NEW x \in corpus'
                   PROVE  x < chunk'[e]
        OBVIOUS
      <4>1. CASE e = d
        BY <3>1, <3>3, <3>5, <4>1
      <4>2. CASE e # d
        BY <3>1, <3>5, <3>6, <4>2
      <4> QED
        BY <4>1, <4>2
    <3>9. \A e, f \in Document :
            (doc'[e] = "drawn" /\ doc'[f] = "drawn" /\ e # f) => chunk'[e] # chunk'[f]
      BY <3>1, <3>4, <3>5, <3>6
    <3>10. \A x \in corpus' : x <= last_id'
      <4>1. \A x \in corpus : x <= last_id + 1
        BY <3>1, <3>3
      <4> QED
        BY <3>1, <4>1
    <3> QED
      BY <3>7, <3>8, <3>9, <3>10
  <2>2. CASE Insert(d)
    BY <2>2 DEF Insert, Goes, corpusVars, indexVars, searchVars
  <2>3. CASE Announce(d)
    BY <2>3 DEF Announce, Goes, MarkDirty, corpusVars, indexVars, searchVars
  <2>4. CASE Rollback(d)
    BY <2>4 DEF Rollback, Goes, corpusVars, indexVars, searchVars
  <2>5. CASE Remove(d)
    BY <2>5 DEF Remove, Goes, corpusVars, indexVars, searchVars
  <2>6. CASE MarkRemoved(d)
    BY <2>6 DEF MarkRemoved, Goes, MarkDirty, corpusVars, indexVars, searchVars
  <2>7. CASE Redo(d)
    BY <2>7 DEF Redo, Goes, corpusVars, indexVars, searchVars
  <2> QED
    BY <1>2, <2>1, <2>2, <2>3, <2>4, <2>5, <2>6, <2>7 DEF Change
<1>3. ASSUME NEW s \in Search, Claim(s) \/ VectorOnly(s) \/ Resume(s) PROVE Drawn'
  <2>1. CASE Claim(s)
    BY <2>1 DEF Claim, Goto, corpusVars, indexVars, searchVars
  <2>2. CASE VectorOnly(s)
    BY <2>2 DEF VectorOnly, Goto, corpusVars, indexVars, searchVars
  <2>3. CASE Begin(s)
    BY <2>3 DEF Begin, Finish, Goto, corpusVars, indexVars, searchVars
  <2>4. CASE Enter(s)
    BY <2>4 DEF Enter, Finish, Unlock, Goto, corpusVars, indexVars, searchVars
  <2>5. CASE LoadQuery(s)
    BY <2>5 DEF LoadQuery, Goto, corpusVars, indexVars, searchVars
  <2>6. CASE LoadFails(s)
    BY <2>6 DEF LoadFails, Goto, corpusVars, indexVars, searchVars
  <2>7. CASE LoadReturns(s)
    BY <2>7 DEF LoadReturns, Finish, Unlock, Goto, corpusVars, indexVars, searchVars
  <2>8. CASE FetchQuery(s)
    BY <2>8 DEF FetchQuery, Goto, corpusVars, indexVars, searchVars
  <2>9. CASE FetchFails(s)
    BY <2>9 DEF FetchFails, NothingBuilt, Finish, Unlock, Goto, corpusVars,
      indexVars, searchVars
  <2>10. CASE EmptyCorpus(s)
    BY <2>10 DEF EmptyCorpus, NothingBuilt, Finish, Unlock, Goto, corpusVars,
      indexVars, searchVars
  <2>11. CASE Build(s)
    BY <2>11 DEF Build, Finish, Unlock, Goto, corpusVars, indexVars, searchVars
  <2>12. CASE SaveQuery(s)
    BY <2>12 DEF SaveQuery, Goto, corpusVars, indexVars, searchVars
  <2>13. CASE SaveReturns(s)
    BY <2>13 DEF SaveReturns, Finish, Unlock, Goto, corpusVars, indexVars,
      searchVars
  <2> QED
    BY <1>3, <2>1, <2>2, <2>3, <2>4, <2>5, <2>6, <2>7, <2>8, <2>9, <2>10, <2>11,
       <2>12, <2>13 DEF Resume
<1>4. CASE ClaimExpires
  BY <1>4 DEF ClaimExpires, corpusVars, indexVars, searchVars
<1>5. CASE TimerFires
  BY <1>5 DEF TimerFires, Release, corpusVars, indexVars, searchVars
<1>6. CASE Sweep
  BY <1>6 DEF Sweep, Release, corpusVars, indexVars, searchVars
<1> QED
  BY <1>1, <1>2, <1>3, <1>4, <1>5, <1>6 DEF Next

(* What a step does to the corpus: it takes chunks away, or shows one that *)
(* was drawn; new ids are higher than all before.                          *)
CorpusMoves ==
  /\ last_id' \in Nat /\ last_id <= last_id'
  /\ \A x \in corpus' : x \in corpus \/ \E d \in Document : doc[d] = "drawn" /\ x = chunk[d]
  /\ \A d \in Document : doc'[d] = "drawn" =>
       (doc[d] = "drawn" /\ chunk'[d] = chunk[d]) \/ last_id < chunk'[d]

LEMMA CorpusStep ==
  ASSUME TypeOK, [Next]_vars PROVE CorpusMoves
<1> last_id \in Nat
  BY IndexAssumption DEF TypeOK
<1> /\ chunk \in [Document -> 0..MaxId]
    /\ doc \in [Document -> {"new", "drawn", "inserted", "indexed", "overtaken", "removed", "gone"}]
  BY DEF TypeOK
<1>1. ASSUME UNCHANGED corpusVars PROVE CorpusMoves
  BY <1>1 DEF corpusVars, CorpusMoves
<1>2. ASSUME NEW d \in Document, Change(d) PROVE CorpusMoves
  <2>1. CASE Draw(d)
    BY <2>1 DEF Draw, Goes, CorpusMoves
  <2>2. CASE Insert(d)
    BY <2>2 DEF Insert, Goes, CorpusMoves
  <2>3. CASE Announce(d)
    BY <2>3 DEF Announce, Goes, CorpusMoves
  <2>4. CASE Rollback(d)
    BY <2>4 DEF Rollback, Goes, CorpusMoves
  <2>5. CASE Remove(d)
    BY <2>5 DEF Remove, Goes, CorpusMoves
  <2>6. CASE MarkRemoved(d)
    BY <2>6 DEF MarkRemoved, Goes, CorpusMoves
  <2>7. CASE Redo(d)
    BY <2>7 DEF Redo, Goes, CorpusMoves
  <2> QED
    BY <1>2, <2>1, <2>2, <2>3, <2>4, <2>5, <2>6, <2>7 DEF Change
<1>3. ASSUME NEW s \in Search, Claim(s) \/ VectorOnly(s) \/ Resume(s) PROVE UNCHANGED corpusVars
  BY <1>3 DEF Resume, Claim, VectorOnly, Begin, Enter, LoadQuery, LoadFails, LoadReturns,
     FetchQuery, FetchFails, EmptyCorpus, Build, SaveQuery, SaveReturns
<1>4. CASE ClaimExpires \/ TimerFires \/ Sweep
  BY <1>1, <1>4 DEF ClaimExpires, TimerFires, Sweep
<1> QED
  BY <1>1, <1>2, <1>3, <1>4 DEF Next, vars

(* Soundness is never lost.                                                *)
LEMMA SoundStep ==
  ASSUME TypeOK, TypeOK', CorpusMoves
  PROVE  SoundPrints \subseteq SoundPrints' /\ SoundBlobs \subseteq SoundBlobs'
<1>1. ASSUME NEW p \in SoundPrints
      PROVE  /\ p \in SoundPrints' /\ Low(p)' \subseteq Low(p)
             /\ Cardinality(Low(p)') = p.count => Low(p)' = Low(p)
  <2>1. /\ p \in Stamp /\ p.highest \in Int /\ p.count \in Nat /\ p.highest <= last_id
        /\ \A d \in Document : doc[d] = "drawn" => p.highest < chunk[d]
        /\ Cardinality(Low(p)) <= p.count
    BY DEF SoundPrints, Stamp
  <2>2. last_id \in Int /\ \A d \in Document : chunk[d] \in Int /\ chunk'[d] \in Int
    BY IndexAssumption DEF TypeOK
  <2>3. p.highest <= last_id'
    BY <2>1, <2>2 DEF CorpusMoves
  <2>4. \A d \in Document : doc'[d] = "drawn" => p.highest < chunk'[d]
    BY <2>1, <2>2 DEF CorpusMoves
  <2>5. Low(p)' = {x \in corpus' : x <= p.highest}
    BY DEF Low
  <2>6. Low(p)' \subseteq Low(p)
    <3> SUFFICES ASSUME NEW x \in corpus', x <= p.highest PROVE x \in corpus
      BY <2>5 DEF Low
    <3>1. CASE \E d \in Document : doc[d] = "drawn" /\ x = chunk[d]
      BY <2>1, <2>2, <3>1
    <3> QED
      BY <3>1 DEF CorpusMoves
  <2>7. Low(p) \in SUBSET Chunk
    BY DEF TypeOK, Low
  <2>8. /\ Cardinality(Low(p)) \in Nat /\ Cardinality(Low(p)') \in Nat
        /\ Cardinality(Low(p)') <= Cardinality(Low(p))
        /\ Cardinality(Low(p)') = Cardinality(Low(p)) => Low(p)' = Low(p)
    BY <2>6, <2>7, ChunksFinite, IndexAssumption
  <2>9. /\ Cardinality(Low(p)') <= p.count
        /\ Cardinality(Low(p)') = p.count => Low(p)' = Low(p)
    BY <2>1, <2>8
  <2>10. p \in SoundPrints'
    BY <2>1, <2>3, <2>4, <2>5, <2>9 DEF SoundPrints, Low
  <2> QED
    BY <2>6, <2>9, <2>10
<1>2. ASSUME NEW b \in SoundBlobs PROVE b \in SoundBlobs'
  <2>1. b.print \in SoundPrints
    BY DEF SoundBlobs
  <2> DEFINE L == {x \in corpus' : x <= b.print.highest}
  <2>2. b.print \in SoundPrints' /\ (Cardinality(L) = b.print.count => L = Low(b.print))
    BY <1>1, <2>1 DEF Low
  <2>3. Cardinality(L) = b.print.count => L \subseteq b.chunks
    BY <2>2 DEF SoundBlobs
  <2> QED
    BY <2>2, <2>3 DEF SoundBlobs, Low
<1> QED
  BY <1>1, <1>2

-----------------------------------------------------------------------------
(* The fingerprint of the corpus is sound, and counts what is there.       *)
LEMMA FingerprintSound ==
  ASSUME TypeOK, Drawn
  PROVE  /\ Fingerprint(corpus) \in SoundPrints
         /\ Low(Fingerprint(corpus)) = corpus
         /\ Fingerprint(corpus).count = Cardinality(corpus)
<1> DEFINE p == Fingerprint(corpus)
<1>1. p.highest = Highest(corpus) /\ p.count = Cardinality(corpus) /\ p \in Stamp
  BY ChunksFinite, HighestBounds, IndexAssumption DEF Fingerprint, Stamp, TypeOK
<1>2. \A x \in corpus : x <= p.highest
  BY <1>1, HighestBounds, IndexAssumption DEF TypeOK
<1>3. Low(p) = corpus
  BY <1>2 DEF Low
<1>4. p.highest \in corpus \/ p.highest = 0
  BY <1>1, HighestBounds, IndexAssumption DEF TypeOK
<1>5. p.highest <= last_id /\ \A d \in Document : doc[d] = "drawn" => p.highest < chunk[d]
  BY <1>4, IndexAssumption DEF Drawn, TypeOK
<1>6. Cardinality(corpus) \in Nat
  BY ChunksFinite, IndexAssumption DEF TypeOK
<1> QED
  BY <1>1, <1>3, <1>5, <1>6 DEF SoundPrints

LEMMA PrintsStep ==
  ASSUME TypeOK, TypeOK', Locked, Drawn, Prints, [Next]_vars PROVE Prints'
<1>1. SoundPrints \subseteq SoundPrints' /\ SoundBlobs \subseteq SoundBlobs'
  BY CorpusStep, SoundStep
<1> DEFINE Fetched(s) == [print |-> pending, chunks |-> got[s].chunks]
<1>2. ASSUME stored' = stored, pending' \in {pending, None},
             \A s \in Search : pc'[s] \in {"loaded", "fetched", "save"} =>
                               pc'[s] = pc[s] /\ got'[s] = got[s]
      PROVE  Prints'
  BY <1>1, <1>2 DEF Prints
<1>3. ASSUME NEW d \in Document, Change(d) PROVE Prints'
  <2>1. UNCHANGED <<stored, pc, got>> /\ pending' \in {pending, None}
    BY <1>3 DEF Change, Draw, Insert, Announce, Rollback, Remove, MarkRemoved, Redo,
       MarkDirty, indexVars, searchVars
  <2> QED
    BY <1>2, <2>1
<1>4. ASSUME NEW s \in Search, Claim(s) \/ VectorOnly(s) \/ Resume(s) PROVE Prints'
  <2> /\ pc \in [Search -> Inside \cup {"new", "claimed", "done", "vector"}]
      /\ got \in [Search -> [print : {None} \cup Stamp, chunks : {None} \cup SUBSET Chunk]]
    BY DEF TypeOK
  <2>1. CASE Claim(s)
    BY <1>2, <2>1 DEF Claim, Goto, corpusVars, indexVars
  <2>2. CASE VectorOnly(s)
    BY <1>2, <2>2 DEF VectorOnly, Goto, corpusVars, indexVars
  <2>3. CASE Begin(s)
    BY <1>2, <2>3 DEF Begin, Finish, Goto, corpusVars, indexVars
  <2>4. CASE Enter(s)
    BY <1>2, <2>4 DEF Enter, Finish, Goto, corpusVars, indexVars
  <2>5. CASE LoadFails(s)
    <3>1. /\ UNCHANGED <<stored, pending>> /\ pc'[s] = "loaded" /\ got'[s].print = None
          /\ \A t \in Search \ {s} : pc'[t] = pc[t] /\ got'[t] = got[t]
      BY <2>5 DEF LoadFails, Goto, indexVars, Nothing
    <3> QED
      BY <1>1, <3>1 DEF Prints
  <2>6. CASE FetchFails(s)
    BY <1>2, <2>6 DEF FetchFails, NothingBuilt, Finish, Goto, corpusVars, indexVars
  <2>7. CASE EmptyCorpus(s)
    BY <1>2, <2>7 DEF EmptyCorpus, NothingBuilt, Finish, Goto, corpusVars, indexVars
  <2>8. CASE SaveReturns(s)
    BY <1>2, <2>8 DEF SaveReturns, Finish, Goto, corpusVars, indexVars
  <2>9. CASE LoadQuery(s)
    <3>1. Fingerprint(corpus) \in SoundPrints
      BY FingerprintSound
    <3>2. got'[s].print = Fingerprint(corpus) /\ pc'[s] = "loaded"
      BY <2>9 DEF LoadQuery, Goto
    <3>3. /\ UNCHANGED <<stored, pending>>
          /\ \A t \in Search \ {s} : pc'[t] = pc[t] /\ got'[t] = got[t]
      BY <2>9 DEF LoadQuery, Goto, indexVars
    <3> QED
      BY <1>1, <3>1, <3>2, <3>3 DEF Prints
  <2>10. CASE LoadReturns(s)
    <3>1. pending' # None => pending' \in SoundPrints
      BY <2>10 DEF LoadReturns, Prints
    <3>2. \A t \in Search \ {s} : pc[t] \notin Holding
      BY <2>10 DEF LoadReturns, Locked, Holding
    <3>3. stored' = stored /\ pc'[s] \in {"fetch", "done"}
      BY <2>10 DEF LoadReturns, Goto, Finish
    <3>4. \A t \in Search \ {s} : pc'[t] = pc[t]
      BY <2>10 DEF LoadReturns, Goto, Finish
    <3>5. \A t \in Search : pc'[t] \notin {"loaded", "fetched", "save"}
      BY <3>2, <3>3, <3>4 DEF Holding
    <3> QED
      BY <1>1, <3>1, <3>3, <3>5 DEF Prints
  <2>11. CASE FetchQuery(s)
    <3>1. pending # None => [print |-> pending, chunks |-> corpus] \in SoundBlobs
      BY DEF Prints, SoundBlobs, SoundPrints, Low, TypeOK
    <3>2. got'[s].chunks = corpus /\ pc'[s] = "fetched"
      BY <2>11 DEF FetchQuery, Goto
    <3>3. /\ UNCHANGED <<stored, pending>>
          /\ \A t \in Search \ {s} : pc'[t] = pc[t] /\ got'[t] = got[t]
      BY <2>11 DEF FetchQuery, Goto, indexVars
    <3> QED
      BY <1>1, <3>1, <3>2, <3>3 DEF Prints
  <2>12. CASE Build(s)
    <3>1. CASE pending = None
      <4>1. UNCHANGED <<stored, pending>>
        BY <2>12 DEF Build
      <4>2. pc'[s] = "done" /\ \A t \in Search \ {s} : pc'[t] = pc[t] /\ got'[t] = got[t]
        BY <2>12, <3>1 DEF Build, Finish, Goto
      <4> QED
        BY <1>2, <4>1, <4>2
    <3>2. CASE pending # None
      <4>1. Fetched(s) \in SoundBlobs
        BY <2>12, <3>2 DEF Build, Prints
      <4>2. /\ pc'[s] = "save" /\ UNCHANGED <<stored, pending>>
            /\ got' = [got EXCEPT ![s].print = pending]
            /\ \A t \in Search \ {s} : pc'[t] = pc[t] /\ got'[t] = got[t]
        BY <2>12, <3>2 DEF Build, Goto
      <4>3. got'[s] = Fetched(s)
        BY <4>2
      <4> HIDE DEF Fetched
      <4> QED
        BY <1>1, <4>1, <4>2, <4>3 DEF Prints
    <3> QED
      BY <3>1, <3>2
  <2>13. CASE SaveQuery(s)
    <3>1. stored' # None => stored' \in SoundBlobs
      BY <2>13 DEF SaveQuery, Prints
    <3>2. /\ UNCHANGED <<pending, got>> /\ pc'[s] = "saved"
          /\ \A t \in Search \ {s} : pc'[t] = pc[t]
      BY <2>13 DEF SaveQuery, Goto, indexVars
    <3> QED
      BY <1>1, <3>1, <3>2 DEF Prints
  <2> QED
    BY <1>4, <2>1, <2>2, <2>3, <2>4, <2>5, <2>6, <2>7, <2>8, <2>9, <2>10, <2>11, <2>12,
       <2>13 DEF Resume
<1>5. CASE ClaimExpires \/ TimerFires \/ Sweep \/ UNCHANGED vars
  BY <1>2, <1>5 DEF ClaimExpires, TimerFires, Sweep, Release, vars, indexVars, searchVars
<1> QED
  BY <1>3, <1>4, <1>5 DEF Next

(* A stored index taken for fresh lacks no chunk: the invariant of the     *)
(* fingerprints, at the query that reads both.                             *)
LEMMA FreshIsWhole ==
  ASSUME TypeOK, Drawn, Prints PROVE NothingMissing
<1> SUFFICES ASSUME stored # None, stored.print = Fingerprint(corpus)
             PROVE  corpus \subseteq stored.chunks
  BY DEF NothingMissing
<1>1. stored \in SoundBlobs
  BY DEF Prints
<1> QED
  BY <1>1, FingerprintSound DEF SoundBlobs

-----------------------------------------------------------------------------
(* The first state is typed and nobody holds the lock.                     *)
LEMMA InitTypes == Init => TypeOK /\ Locked
<1> SUFFICES ASSUME Init PROVE TypeOK /\ Locked
  OBVIOUS
<1>1. << >> \in Seq(Search)
  BY EmptySeq
<1>2. 0 \in 0..MaxId /\ MaxId \in Nat
  BY IndexAssumption
<1>3. doc \in [Document -> {"new"}] /\ chunk \in [Document -> 0..MaxId]
  BY <1>2 DEF Init
<1>4. got \in [Search -> [print : {None} \cup Stamp, chunks : {None} \cup SUBSET Chunk]]
  BY DEF Init, Nothing
<1> QED
  BY <1>1, <1>2, <1>3, <1>4 DEF Init, TypeOK, Locked, Inside, Holding

(* Types and the lock need no assumption.                                  *)
THEOREM IndexTypeCorrect == Spec => []TypeOK
<1>1. Init => TypeOK /\ Locked
  BY InitTypes
<1>2. TypeOK /\ Locked /\ [Next]_vars => TypeOK' /\ Locked'
  BY TypeStep, LockedStep
<1> QED
  BY <1>1, <1>2, PTL DEF Spec

(* When chunks become visible in the order of their ids, a stored index    *)
(* that is taken for fresh lacks no chunk (NothingMissing): bm25_store's   *)
(* count and highest id tell apart all corpora the code can be in.         *)
THEOREM IndexNothingMissing ==
  ASSUME InOrder PROVE Spec => []NothingMissing
<1> DEFINE IInv == TypeOK /\ Locked /\ Drawn /\ Prints
<1>1. Init => IInv
  <2>1. Init => TypeOK /\ Locked
    BY InitTypes
  <2>2. Init => Drawn /\ Prints
    BY DEF Init, Drawn, Prints
  <2> QED
    BY <2>1, <2>2
<1>2. IInv /\ [Next]_vars => IInv'
  BY TypeStep, LockedStep, DrawnStep, PrintsStep
<1>3. IInv => NothingMissing
  BY FreshIsWhole
<1> QED
  BY <1>1, <1>2, <1>3, PTL DEF Spec

-----------------------------------------------------------------------------
(* What a search finds.                                                    *)

(* Ids are drawn anew, and a chunk goes only with its own document.        *)
LEMMA OwnedStep ==
  ASSUME TypeOK, Drawn, Owned, [Next]_vars PROVE Owned'
<1> /\ chunk \in [Document -> 0..MaxId] /\ last_id \in Nat /\ MaxId \in Nat
    /\ doc \in [Document -> {"new", "drawn", "inserted", "indexed", "overtaken", "removed", "gone"}]
    /\ \A d \in Document : doc[d] # "new" => chunk[d] # 0
  BY IndexAssumption DEF TypeOK
<1>1. ASSUME UNCHANGED corpusVars PROVE Owned'
  BY <1>1 DEF corpusVars, Owned
<1>2. ASSUME NEW d \in Document, Change(d) PROVE Owned'
  <2>1. CASE Draw(d)
    <3>1. /\ \A e \in Document : chunk[e] \in Nat /\ chunk[e] <= last_id
          /\ chunk' = [chunk EXCEPT ![d] = last_id + 1]
      BY <2>1 DEF Draw, Drawn
    <3>2. \A e, f \in Document : e # f /\ chunk'[e] # 0 => chunk'[e] # chunk'[f]
      BY <3>1 DEF Owned
    <3>3. corpus' = corpus /\ doc' = [doc EXCEPT ![d] = "drawn"]
      BY <2>1 DEF Draw, Goes
    <3> QED
      BY <3>1, <3>2, <3>3 DEF Owned
  <2>2. CASE Insert(d)
    BY <2>2 DEF Insert, Goes, Owned
  <2>3. CASE Announce(d)
    <3>1. /\ doc[d] = "inserted" /\ UNCHANGED <<chunk, corpus>>
          /\ \A e \in Document \ {d} : doc'[e] = doc[e]
      BY <2>3 DEF Announce, Goes
    <3> QED
      BY <3>1 DEF Owned
  <2>4. CASE Rollback(d)
    <3>1. /\ doc[d] = "inserted" /\ doc' = [doc EXCEPT ![d] = "gone"]
          /\ corpus' = corpus \ {chunk[d]} /\ chunk' = chunk
      BY <2>4 DEF Rollback, Goes
    <3> QED
      BY <3>1 DEF Owned
  <2>5. CASE Remove(d)
    <3>1. /\ doc[d] # "new" /\ doc' = [doc EXCEPT ![d] = "removed"]
          /\ corpus' = corpus \ {chunk[d]} /\ chunk' = chunk
      BY <2>5 DEF Remove, Goes
    <3> QED
      BY <3>1 DEF Owned
  <2>6. CASE MarkRemoved(d)
    BY <2>6 DEF MarkRemoved, Goes, Owned
  <2>7. CASE Redo(d)
    <3>1. /\ doc[d] # "new" /\ doc' = [doc EXCEPT ![d] = "new"]
          /\ corpus' = corpus \ {chunk[d]} /\ chunk' = chunk
      BY <2>7 DEF Redo, Goes
    <3> QED
      BY <3>1 DEF Owned
  <2> QED
    BY <1>2, <2>1, <2>2, <2>3, <2>4, <2>5, <2>6, <2>7 DEF Change
<1>3. ASSUME NEW s \in Search, Claim(s) \/ VectorOnly(s) \/ Resume(s) PROVE UNCHANGED corpusVars
  BY <1>3 DEF Resume, Claim, VectorOnly, Begin, Enter, LoadQuery, LoadFails, LoadReturns,
     FetchQuery, FetchFails, EmptyCorpus, Build, SaveQuery, SaveReturns
<1>4. CASE ClaimExpires \/ TimerFires \/ Sweep
  BY <1>1, <1>4 DEF ClaimExpires, TimerFires, Sweep
<1> QED
  BY <1>1, <1>2, <1>3, <1>4 DEF Next, vars

(* A change of the corpus leaves the searches where they are.  What counts *)
(* as indexed after it did so before, or is announced now: then the index  *)
(* goes, and nobody has the answer of a query in hand.                     *)
Announces(d) ==
  /\ doc[d] = "inserted" /\ MarkDirty
  /\ \A s \in Search : pc[s] \notin {"loaded", "fetched"}

LEMMA ChangeKeeps ==
  ASSUME TypeOK, NEW d \in Document, Change(d)
  PROVE  /\ UNCHANGED <<pc, got, answer, announced>>
         /\ UNCHANGED <<index, excused>> \/ MarkDirty
         /\ \A e \in Document : doc'[e] = "indexed" =>
              chunk'[e] = chunk[e] /\ (doc[e] = "indexed" \/ Announces(e))
<1> /\ doc \in [Document -> {"new", "drawn", "inserted", "indexed", "overtaken", "removed", "gone"}]
    /\ chunk \in [Document -> 0..MaxId]
  BY DEF TypeOK
<1>1. UNCHANGED <<pc, got, answer, announced>> /\ (UNCHANGED <<index, excused>> \/ MarkDirty)
  BY DEF Change, Draw, Insert, Announce, Rollback, Remove, MarkRemoved, Redo, indexVars,
     searchVars
<1>2. ASSUME NEW e \in Document, doc'[e] = "indexed"
      PROVE  chunk'[e] = chunk[e] /\ (doc[e] = "indexed" \/ Announces(e))
  <2>1. CASE Announce(d)
    <3>1. chunk' = chunk /\ doc[d] = "inserted" /\ MarkDirty
      BY <2>1 DEF Announce, Goes
    <3>2. CASE e = d
      <4>1. ~\E s \in Search : pc[s] \in {"loaded", "fetched"}
        BY <1>2, <2>1, <3>2 DEF Announce, Goes
      <4> QED
        BY <3>1, <3>2, <4>1 DEF Announces
    <3>3. CASE e # d
      BY <1>2, <2>1, <3>1, <3>3 DEF Announce, Goes
    <3> QED
      BY <3>2, <3>3
  <2>2. CASE ~Announce(d)
    BY <1>2, <2>2 DEF Change, Draw, Insert, Rollback, Remove, MarkRemoved, Redo, Goes
  <2> QED
    BY <2>1, <2>2
<1> QED
  BY <1>1, <1>2

(* What a search saw announced stays behind: later ids are others.         *)
LEMMA KnownStep ==
  ASSUME TypeOK, Drawn, Owned, Known, [Next]_vars PROVE Known'
<1> /\ chunk \in [Document -> 0..MaxId] /\ last_id \in Nat /\ MaxId \in Nat
    /\ doc \in [Document -> {"new", "drawn", "inserted", "indexed", "overtaken", "removed", "gone"}]
    /\ \A d \in Document : doc[d] # "new" => chunk[d] # 0
  BY IndexAssumption DEF TypeOK
<1>1. ASSUME UNCHANGED <<corpusVars, announced>> PROVE Known'
  BY <1>1 DEF corpusVars, Known
<1>2. ASSUME NEW d \in Document, Change(d) PROVE Known'
  <2>1. announced' = announced
    BY <1>2, ChangeKeeps
  <2>2. CASE Draw(d)
    <3>1. /\ chunk' = [chunk EXCEPT ![d] = last_id + 1] /\ last_id' = last_id + 1
          /\ doc' = [doc EXCEPT ![d] = "drawn"]
      BY <2>2 DEF Draw, Goes
    <3>2. \A s \in Search : last_id + 1 \notin announced[s]
      BY DEF Known
    <3>3. ASSUME NEW s \in Search, NEW e \in Document, doc'[e] \in {"drawn", "inserted"}
          PROVE  chunk'[e] \notin announced[s]
      <4>1. CASE e = d
        BY <3>1, <3>2, <4>1
      <4>2. CASE e # d
        BY <3>1, <3>3, <4>2 DEF Known
      <4> QED
        BY <4>1, <4>2
    <3>4. \A s \in Search : announced[s] \subseteq 0..(last_id + 1)
      BY DEF Known
    <3> QED
      BY <2>1, <3>1, <3>3, <3>4 DEF Known
  <2>3. CASE ~Draw(d)
    <3>1. chunk' = chunk /\ last_id' = last_id
      BY <1>2, <2>3 DEF Change, Insert, Announce, Rollback, Remove, MarkRemoved, Redo
    <3>2. \A e \in Document : doc'[e] \in {"drawn", "inserted"} => doc[e] \in {"drawn", "inserted"}
      BY <1>2, <2>3 DEF Change, Insert, Announce, Rollback, Remove, MarkRemoved, Redo, Goes
    <3> QED
      BY <2>1, <3>1, <3>2 DEF Known
  <2> QED
    BY <2>2, <2>3
<1>3. ASSUME NEW s \in Search, Begin(s) PROVE Known'
  <2> DEFINE Indexed == {chunk[d] : d \in {e \in Document : doc[e] = "indexed"}}
  <2>1. /\ announced' = [announced EXCEPT ![s] = Indexed]
        /\ UNCHANGED corpusVars
    BY <1>3 DEF Begin
  <2>2. Indexed \subseteq 0..last_id
    BY DEF Drawn
  <2>3. \A d \in Document : doc[d] \in {"drawn", "inserted"} => chunk[d] \notin Indexed
    BY DEF Owned
  <2>4. \A t \in Search : announced'[t] \in {announced[t], Indexed}
    <3> HIDE DEF Indexed
    <3> QED
      BY <2>1
  <2> HIDE DEF Indexed
  <2> QED
    BY <2>1, <2>2, <2>3, <2>4 DEF Known, corpusVars
<1>4. ASSUME NEW s \in Search, Claim(s) \/ VectorOnly(s) \/ Resume(s), ~Begin(s)
      PROVE  UNCHANGED <<corpusVars, announced>>
  BY <1>4 DEF Resume, Claim, VectorOnly, Enter, LoadQuery, LoadFails, LoadReturns,
     FetchQuery, FetchFails, EmptyCorpus, Build, SaveQuery, SaveReturns
<1>5. CASE ClaimExpires \/ TimerFires \/ Sweep
  BY <1>1, <1>5 DEF ClaimExpires, TimerFires, Sweep, searchVars
<1> QED
  BY <1>1, <1>2, <1>3, <1>4, <1>5 DEF Next, vars, searchVars
(* The index goes as soon as a document is announced, and a search that    *)
(* makes a new one reads the corpus after that.                            *)
LEMMA AtHandStep ==
  ASSUME TypeOK, Locked, Owned, NothingMissing, AtHand, [Next]_vars PROVE AtHand'
<1> /\ pc \in [Search -> Inside \cup {"new", "claimed", "done", "vector"}]
    /\ got \in [Search -> [print : {None} \cup Stamp, chunks : {None} \cup SUBSET Chunk]]
  BY DEF TypeOK
<1>1. ASSUME NEW d \in Document, Change(d) PROVE AtHand'
  <2>1. /\ UNCHANGED <<pc, got>> /\ (UNCHANGED <<index, excused>> \/ MarkDirty)
        /\ \A e \in Document : doc'[e] = "indexed" =>
             chunk'[e] = chunk[e] /\ (doc[e] = "indexed" \/ Announces(e))
    BY <1>1, ChangeKeeps
  <2>2. CASE \E e \in Document : Announces(e)
    BY <2>1, <2>2 DEF Announces, AtHand, MarkDirty, InFlight, Inside
  <2>3. CASE ~\E e \in Document : Announces(e)
    <3>1. \A c : Complete(c) => Complete(c)'
      BY <2>1, <2>3 DEF Complete
    <3>2. index' \in {index, None} /\ excused \subseteq excused'
      BY <2>1 DEF MarkDirty
    <3>3. index' # None => Complete(index)'
      BY <3>1, <3>2 DEF AtHand
    <3>4. \A s \in Search : pc[s] \in {"save", "saved"} => index' # None \/ s \in excused'
      BY <2>1, <3>2 DEF AtHand, MarkDirty, InFlight, Inside
    <3>5. \A s \in Search :
            /\ pc[s] = "loaded" /\ got[s].chunks # None => Complete(got[s].chunks)'
            /\ pc[s] = "fetched" => Complete(got[s].chunks)'
      <4>1. \A s \in Search : \A c : c = got[s].chunks => c = got[s].chunks'
        BY <2>1
      <4> QED
        BY <2>1, <3>1, <4>1 DEF AtHand, Complete
    <3> QED
      BY <2>1, <3>2, <3>3, <3>4, <3>5 DEF AtHand, Complete
  <2> QED
    BY <2>2, <2>3
<1>2. ASSUME UNCHANGED <<doc, chunk, index>>, excused \subseteq excused',
             \A s \in Search : pc'[s] \in {"loaded", "fetched", "save", "saved"} =>
                               pc'[s] = pc[s] /\ got'[s] = got[s]
      PROVE  AtHand'
  BY <1>2 DEF AtHand, Complete
<1>3. ASSUME NEW s \in Search, Claim(s) \/ VectorOnly(s) \/ Resume(s) PROVE AtHand'
  <2>1. UNCHANGED <<doc, chunk, corpus>> /\ excused \subseteq excused'
    BY <1>3 DEF Resume, Claim, VectorOnly, Begin, Enter, LoadQuery, LoadFails, LoadReturns,
       FetchQuery, FetchFails, EmptyCorpus, Build, SaveQuery, SaveReturns, corpusVars,
       NothingBuilt
  <2>2. CASE Claim(s) \/ VectorOnly(s)
    BY <1>2, <2>1, <2>2 DEF Claim, VectorOnly, Goto, indexVars
  <2>3. CASE Begin(s) \/ Enter(s)
    BY <1>2, <2>1, <2>3 DEF Begin, Enter, Finish, Goto, indexVars
  <2>4. CASE SaveReturns(s)
    BY <1>2, <2>1, <2>4 DEF SaveReturns, Finish, Goto, indexVars
  <2>5. ASSUME pc[s] \in Holding PROVE \A t \in Search \ {s} : pc[t] \notin Holding
    BY <2>5 DEF Locked
  <2>6. CASE LoadQuery(s)
    <3>1. PICK usable \in BOOLEAN :
            got' = [got EXCEPT ![s] =
              [print  |-> Fingerprint(corpus),
               chunks |-> IF usable /\ stored # None /\ stored.print = Fingerprint(corpus)
                            THEN stored.chunks ELSE None]]
      BY <2>6 DEF LoadQuery
    <3>2. got'[s].chunks # None => corpus \subseteq got'[s].chunks
      BY <3>1 DEF NothingMissing
    <3>3. got'[s].chunks # None => Complete(got'[s].chunks)
      BY <3>2 DEF Complete, Owned
    <3>4. /\ pc' = [pc EXCEPT ![s] = "loaded"] /\ index' = index /\ excused' = excused
          /\ \A t \in Search \ {s} : got'[t] = got[t]
      BY <2>6 DEF LoadQuery, Goto, indexVars
    <3> QED
      BY <2>1, <3>3, <3>4 DEF AtHand, Complete
  <2>7. CASE LoadFails(s)
    <3>1. /\ pc' = [pc EXCEPT ![s] = "loaded"] /\ index' = index /\ excused' = excused
          /\ got'[s].chunks = None /\ \A t \in Search \ {s} : got'[t] = got[t]
      BY <2>7 DEF LoadFails, Goto, indexVars, Nothing
    <3> QED
      BY <2>1, <3>1 DEF AtHand, Complete
  <2>8. CASE LoadReturns(s)
    <3>1. CASE got[s].chunks = None
      BY <1>2, <2>1, <2>8, <3>1 DEF LoadReturns, Goto
    <3>2. CASE got[s].chunks # None
      <4>1. /\ pc' = [pc EXCEPT ![s] = "done"] /\ index' = got[s].chunks
        BY <2>8, <3>2 DEF LoadReturns, Finish, Goto
      <4>2. \A t \in Search : pc'[t] \notin Holding
        BY <2>5, <2>8, <4>1 DEF LoadReturns, Holding
      <4>3. Complete(got[s].chunks)
        BY <2>8, <3>2 DEF LoadReturns, AtHand
      <4> QED
        BY <2>1, <4>1, <4>2, <4>3 DEF AtHand, Complete, Holding
    <3> QED
      BY <3>1, <3>2
  <2>9. CASE FetchQuery(s)
    <3>1. got'[s].chunks = corpus /\ \A t \in Search \ {s} : got'[t] = got[t]
      BY <2>9 DEF FetchQuery
    <3>2. pc' = [pc EXCEPT ![s] = "fetched"] /\ index' = index /\ excused' = excused
      BY <2>9 DEF FetchQuery, Goto, indexVars
    <3>3. Complete(corpus)
      BY DEF Complete, Owned
    <3> QED
      BY <2>1, <3>1, <3>2, <3>3 DEF AtHand, Complete
  <2>10. CASE FetchFails(s) \/ EmptyCorpus(s)
    <3>1. pc' = [pc EXCEPT ![s] = "done"] /\ index' = None /\ pc[s] \in Holding
      BY <2>10 DEF FetchFails, EmptyCorpus, NothingBuilt, Finish, Goto, Holding
    <3>2. \A t \in Search : pc'[t] \notin Holding
      BY <2>5, <3>1 DEF Holding
    <3> QED
      BY <3>1, <3>2 DEF AtHand, Holding
  <2>11. CASE Build(s)
    <3>1. /\ pc' \in {[pc EXCEPT ![s] = "done"], [pc EXCEPT ![s] = "save"]}
          /\ index' = got[s].chunks /\ pc[s] = "fetched"
      BY <2>11 DEF Build, Finish, Goto
    <3>2. \A t \in Search : pc'[t] \notin {"loaded", "fetched"}
      BY <2>5, <3>1 DEF Holding
    <3>3. \A t \in Search : pc'[t] \in {"save", "saved"} => index' # None
      BY <2>5, <3>1 DEF Holding, TypeOK
    <3>4. Complete(got[s].chunks)
      BY <3>1 DEF AtHand
    <3> QED
      BY <2>1, <3>1, <3>2, <3>3, <3>4 DEF AtHand, Complete
  <2>12. CASE SaveQuery(s)
    <3>1. /\ pc' = [pc EXCEPT ![s] = "saved"] /\ UNCHANGED <<index, got, excused>>
          /\ pc[s] = "save"
      BY <2>12 DEF SaveQuery, Goto, indexVars
    <3> QED
      BY <2>1, <3>1 DEF AtHand, Complete
  <2> QED
    BY <1>3, <2>2, <2>3, <2>4, <2>6, <2>7, <2>8, <2>9, <2>10, <2>11, <2>12 DEF Resume
<1>4. CASE ClaimExpires \/ TimerFires \/ Sweep \/ UNCHANGED vars
  <2>1. UNCHANGED <<doc, chunk, pc, got, excused>>
    BY <1>4 DEF ClaimExpires, TimerFires, Sweep, vars, corpusVars, searchVars
  <2>2. index' = index \/ (index' = None /\ InFlight = {})
    BY <1>4 DEF ClaimExpires, TimerFires, Sweep, Release, vars, indexVars
  <2>3. CASE index' = index
    BY <1>2, <2>1, <2>3
  <2>4. CASE index' = None /\ InFlight = {}
    BY <2>1, <2>4 DEF AtHand, InFlight, Inside
  <2> QED
    BY <2>2, <2>3, <2>4
<1> QED
  BY <1>1, <1>3, <1>4 DEF Next

(* A search that ends with a set that lacks nothing keeps the promise, and *)
(* so does one that has an excuse.                                         *)
Whole(s, found) ==
  s \in excused' \/ (found # None /\ found # {} /\ Complete(found))

LEMMA FinishFinds ==
  ASSUME TypeOK, FindsAnnounced, NEW s \in Search, NEW found, Finish(s, found),
         Whole(s, found), UNCHANGED <<doc, chunk>>, excused \subseteq excused',
         \A t \in Search \ {s} : announced'[t] = announced[t]
  PROVE  FindsAnnounced'
<1>1. /\ pc' = [pc EXCEPT ![s] = "done"]
      /\ answer' = [answer EXCEPT ![s] = IF found = None THEN {} ELSE found]
  BY DEF Finish, Goto
<1> QED
  BY <1>1 DEF FindsAnnounced, Whole, Complete, TypeOK

LEMMA FindsStep ==
  ASSUME TypeOK, Known, AtHand, FindsAnnounced, [Next]_vars PROVE FindsAnnounced'
<1> pc \in [Search -> Inside \cup {"new", "claimed", "done", "vector"}]
  BY DEF TypeOK
<1>1. ASSUME NEW d \in Document, Change(d) PROVE FindsAnnounced'
  <2>1. /\ UNCHANGED <<pc, answer, announced>> /\ excused \subseteq excused'
        /\ \A e \in Document : doc'[e] = "indexed" =>
             chunk'[e] = chunk[e] /\ (doc[e] = "indexed" \/ doc[e] = "inserted")
    BY <1>1, ChangeKeeps DEF MarkDirty, Announces
  <2> QED
    BY <2>1 DEF FindsAnnounced, Known
<1>2. ASSUME UNCHANGED <<doc, chunk, answer, excused>>,
             \A s \in Search : pc'[s] = "done" => pc[s] = "done" /\ announced'[s] = announced[s]
      PROVE  FindsAnnounced'
  BY <1>2 DEF FindsAnnounced
<1>3. ASSUME NEW s \in Search, Claim(s) \/ VectorOnly(s) \/ Resume(s) PROVE FindsAnnounced'
  <2>1. /\ UNCHANGED <<doc, chunk>> /\ excused \subseteq excused'
        /\ \A t \in Search \ {s} : announced'[t] = announced[t]
    BY <1>3 DEF Resume, Claim, VectorOnly, Begin, Enter, LoadQuery, LoadFails, LoadReturns,
       FetchQuery, FetchFails, EmptyCorpus, Build, SaveQuery, SaveReturns, corpusVars,
       NothingBuilt, TypeOK
  <2>2. index # None => Complete(index) /\ index # {}
    BY DEF AtHand, TypeOK, Content
  <2>3. ASSUME Claim(s) \/ VectorOnly(s) \/ LoadQuery(s) \/ LoadFails(s) \/ FetchQuery(s)
                 \/ SaveQuery(s)
        PROVE  FindsAnnounced'
    BY <1>2, <2>1, <2>3 DEF Claim, VectorOnly, LoadQuery, LoadFails, FetchQuery, SaveQuery, Goto
  <2>4. CASE Begin(s)
    <3>1. CASE Built
      <4>1. Finish(s, index) /\ Whole(s, index)
        BY <2>2, <2>4, <3>1 DEF Begin, Built, Whole
      <4> QED
        BY <2>1, <4>1, FinishFinds
    <3>2. CASE ~Built
      <4>1. /\ pc' = [pc EXCEPT ![s] = "lock"]
            /\ UNCHANGED <<answer, excused>>
        BY <2>4, <3>2 DEF Begin, Goto
      <4> QED
        BY <1>2, <2>1, <4>1
    <3> QED
      BY <3>1, <3>2
  <2>5. CASE Enter(s)
    <3>1. CASE Built
      <4>1. Finish(s, index) /\ Whole(s, index)
        BY <2>2, <2>5, <3>1 DEF Enter, Built, Whole
      <4> QED
        BY <2>1, <4>1, FinishFinds
    <3>2. CASE ~Built
      BY <1>2, <2>1, <2>5, <3>2 DEF Enter, Goto
    <3> QED
      BY <3>1, <3>2
  <2>6. CASE LoadReturns(s)
    <3>1. CASE got[s].chunks = None
      BY <1>2, <2>1, <2>6, <3>1 DEF LoadReturns, Goto
    <3>2. CASE got[s].chunks # None
      <4>1. Finish(s, got[s].chunks)
        BY <2>6, <3>2 DEF LoadReturns
      <4>2. Whole(s, got[s].chunks)
        BY <2>6, <3>2 DEF LoadReturns, Whole, AtHand, TypeOK
      <4> QED
        BY <2>1, <4>1, <4>2, FinishFinds
    <3> QED
      BY <3>1, <3>2
  <2>7. CASE FetchFails(s) \/ EmptyCorpus(s)
    <3>1. Finish(s, None) /\ s \in excused'
      BY <2>7 DEF FetchFails, EmptyCorpus, NothingBuilt
    <3> QED
      BY <2>1, <3>1, FinishFinds DEF Whole
  <2>8. CASE Build(s)
    <3>1. CASE pending = None
      <4>1. Finish(s, got[s].chunks)
        BY <2>8, <3>1 DEF Build
      <4>2. Whole(s, got[s].chunks)
        BY <2>8 DEF Build, Whole, AtHand, TypeOK
      <4> QED
        BY <2>1, <4>1, <4>2, FinishFinds
    <3>2. CASE pending # None
      BY <1>2, <2>1, <2>8, <3>2 DEF Build, Goto
    <3> QED
      BY <3>1, <3>2
  <2>9. CASE SaveReturns(s)
    <3>1. Finish(s, index)
      BY <2>9 DEF SaveReturns
    <3>2. Whole(s, index)
      BY <2>1, <2>2, <2>9 DEF SaveReturns, Whole, AtHand
    <3> QED
      BY <2>1, <3>1, <3>2, FinishFinds
  <2> QED
    BY <1>3, <2>3, <2>4, <2>5, <2>6, <2>7, <2>8, <2>9 DEF Resume
<1>4. CASE ClaimExpires \/ TimerFires \/ Sweep \/ UNCHANGED vars
  BY <1>2, <1>4 DEF ClaimExpires, TimerFires, Sweep, vars, corpusVars, searchVars
<1> QED
  BY <1>1, <1>3, <1>4 DEF Next

(* When chunks become visible in the order of their ids, a search that has *)
(* no excuse finds every document that was reported as indexed before it   *)
(* began (FindsAnnounced), whatever was released, stored, loaded or built  *)
(* meanwhile: what search and mark_dirty promise each other.               *)
THEOREM IndexFindsAnnounced ==
  ASSUME InOrder PROVE Spec => []FindsAnnounced
<1> DEFINE IInv == /\ TypeOK /\ Locked /\ Drawn /\ Prints
                   /\ Owned /\ Known /\ AtHand /\ FindsAnnounced
<1>1. Init => IInv
  <2>1. Init => TypeOK /\ Locked
    BY InitTypes
  <2>2. Init => Drawn /\ Prints
    BY DEF Init, Drawn, Prints
  <2>3. Init => Owned /\ Known /\ AtHand /\ FindsAnnounced
    BY DEF Init, Owned, Known, AtHand, FindsAnnounced
  <2> QED
    BY <2>1, <2>2, <2>3
<1>2. IInv /\ [Next]_vars => IInv'
  <2> SUFFICES ASSUME IInv, [Next]_vars PROVE IInv'
    OBVIOUS
  <2>1. TypeOK' /\ Locked' /\ Drawn' /\ Prints'
    BY TypeStep, LockedStep, DrawnStep, PrintsStep
  <2>2. Owned' /\ Known'
    BY OwnedStep, KnownStep
  <2>3. AtHand' /\ FindsAnnounced'
    BY FreshIsWhole, AtHandStep, FindsStep
  <2> QED
    BY <2>1, <2>2, <2>3
<1>3. IInv => FindsAnnounced
  OBVIOUS
<1> QED
  BY <1>1, <1>2, <1>3, PTL DEF Spec

-----------------------------------------------------------------------------
(* The lock's queue holds the searches in flight, each once.               *)
Queued ==
  /\ \A i, j \in 1..Len(lock) : lock[i] = lock[j] => i = j
  /\ \A s \in Search : pc[s] \in Inside <=> \E i \in 1..Len(lock) : lock[i] = s

(* Search s has the lock, or is the next to get it.                        *)
GoesOn(s) == pc[s] \in Holding \/ (pc[s] = "lock" /\ lock # << >> /\ Head(lock) = s)

NobodyStuck == InFlight # {} => \E s \in Search : GoesOn(s)

LEMMA LastOfQueue ==
  ASSUME NEW S, NEW q \in Seq(S), NEW x \in S, NEW w, w = Append(q, x)
  PROVE  /\ w \in Seq(S) /\ Len(w) = Len(q) + 1 /\ w[Len(q) + 1] = x
         /\ \A i \in 1..Len(q) : w[i] = q[i]
  OBVIOUS

LEMMA RestOfQueue ==
  ASSUME NEW S, NEW q \in Seq(S), q # << >>, NEW w, w = Tail(q)
  PROVE  /\ w \in Seq(S) /\ Len(w) = Len(q) - 1 /\ Len(q) \in Nat \ {0}
         /\ \A i \in 1..(Len(q) - 1) : w[i] = q[i + 1]
         /\ Head(q) = q[1]
  OBVIOUS

LEMMA QueueJoined ==
  ASSUME TypeOK, Queued, NEW s \in Search, pc[s] \notin Inside,
         lock' = Append(lock, s), Goto(s, "lock")
  PROVE  Queued'
<1>1. /\ lock' \in Seq(Search) /\ Len(lock') = Len(lock) + 1 /\ lock'[Len(lock) + 1] = s
      /\ \A i \in 1..Len(lock) : lock'[i] = lock[i]
  BY LastOfQueue DEF TypeOK
<1>2. Len(lock) \in Nat /\ \A i \in 1..Len(lock') : i \in 1..Len(lock) \/ i = Len(lock) + 1
  BY <1>1 DEF TypeOK
<1>3. \A i \in 1..Len(lock) : lock[i] # s
  BY DEF Queued
<1>4. pc'[s] = "lock" /\ \A t \in Search : t # s => pc'[t] = pc[t]
  BY DEF Goto, TypeOK
<1>5. \A i, j \in 1..Len(lock') : lock'[i] = lock'[j] => i = j
  <2> SUFFICES ASSUME NEW i \in 1..Len(lock'), NEW j \in 1..Len(lock'), lock'[i] = lock'[j]
               PROVE  i = j
    OBVIOUS
  <2>1. CASE i \in 1..Len(lock) /\ j \in 1..Len(lock)
    BY <1>1, <2>1 DEF Queued
  <2>2. CASE i \notin 1..Len(lock) \/ j \notin 1..Len(lock)
    BY <1>1, <1>2, <1>3, <2>2
  <2> QED BY <2>1, <2>2
<1>6. ASSUME NEW t \in Search
      PROVE  pc'[t] \in Inside <=> \E i \in 1..Len(lock') : lock'[i] = t
  <2>1. CASE t = s
    <3>1. Len(lock) + 1 \in 1..Len(lock')
      BY <1>1, <1>2
    <3> QED BY <1>1, <1>4, <2>1, <3>1 DEF Inside
  <2>2. CASE t # s
    <3>1. 1..Len(lock) \subseteq 1..Len(lock')
      BY <1>1, <1>2
    <3>2. (\E i \in 1..Len(lock') : lock'[i] = t) <=> \E i \in 1..Len(lock) : lock[i] = t
      BY <1>1, <1>2, <2>2, <3>1
    <3> QED BY <1>4, <2>2, <3>2 DEF Queued
  <2> QED BY <2>1, <2>2
<1> QED BY <1>5, <1>6 DEF Queued

LEMMA QueueLeft ==
  ASSUME TypeOK, Queued, NEW s \in Search, lock # << >>, Head(lock) = s, Unlock, Goto(s, "done")
  PROVE  Queued'
<1>1. /\ lock' \in Seq(Search) /\ Len(lock') = Len(lock) - 1 /\ Len(lock) \in Nat \ {0}
      /\ \A i \in 1..(Len(lock) - 1) : lock'[i] = lock[i + 1]
      /\ lock[1] = s
  BY RestOfQueue DEF TypeOK, Unlock
<1>2. pc'[s] = "done" /\ \A t \in Search : t # s => pc'[t] = pc[t]
  BY DEF Goto, TypeOK
<1>3. \A i \in 1..Len(lock') : i + 1 \in 1..Len(lock) /\ i + 1 # 1
  BY <1>1
<1>4. \A i \in 1..Len(lock') : lock'[i] = lock[i + 1] /\ lock'[i] # s
  BY <1>1, <1>3 DEF Queued
<1>5. \A i, j \in 1..Len(lock') : lock'[i] = lock'[j] => i = j
  <2> SUFFICES ASSUME NEW i \in 1..Len(lock'), NEW j \in 1..Len(lock'), lock'[i] = lock'[j]
               PROVE  i = j
    OBVIOUS
  <2>1. i + 1 = j + 1
    BY <1>3, <1>4 DEF Queued
  <2> QED BY <2>1
<1>6. ASSUME NEW t \in Search
      PROVE  pc'[t] \in Inside <=> \E i \in 1..Len(lock') : lock'[i] = t
  <2>1. CASE t = s
    BY <1>2, <1>4, <2>1 DEF Inside
  <2>2. CASE t # s
    <3>1. \A k \in 1..Len(lock) : k # 1 => k - 1 \in 1..Len(lock') /\ lock'[k - 1] = lock[k]
      BY <1>1
    <3>2. (\E i \in 1..Len(lock') : lock'[i] = t) <=> \E k \in 1..Len(lock) : lock[k] = t
      BY <1>1, <1>3, <1>4, <2>2, <3>1
    <3> QED BY <1>2, <2>2, <3>2 DEF Queued
  <2> QED BY <2>1, <2>2
<1> QED BY <1>5, <1>6 DEF Queued

LEMMA QueueStays ==
  ASSUME Queued, lock' = lock, \A s \in Search : pc'[s] \in Inside <=> pc[s] \in Inside
  PROVE  Queued'
  BY DEF Queued

LEMMA QueuedStep ==
  ASSUME TypeOK, Locked, Queued, [Next]_vars PROVE Queued'
<1>1. CASE UNCHANGED vars
  BY <1>1, QueueStays DEF vars, searchVars
<1>2. ASSUME NEW d \in Document, Change(d) PROVE Queued'
  <2>1. UNCHANGED <<lock, pc>>
    BY <1>2 DEF Change, Draw, Insert, Announce, Rollback, Remove, MarkRemoved, Redo, searchVars
  <2> QED BY <2>1, QueueStays
<1>3. ASSUME NEW s \in Search, Claim(s) \/ VectorOnly(s) \/ Resume(s) PROVE Queued'
  <2>1. CASE Claim(s) \/ VectorOnly(s) \/ (Begin(s) /\ Built)
    <3>1. /\ lock' = lock /\ pc[s] \in {"new", "claimed"}
          /\ \E l \in {"claimed", "vector", "done"} : Goto(s, l)
      BY <2>1 DEF Claim, VectorOnly, Begin, Finish
    <3>2. \A t \in Search : pc'[t] \in Inside <=> pc[t] \in Inside
      BY <3>1 DEF Goto, TypeOK, Inside
    <3> QED BY <3>1, <3>2, QueueStays
  <2>2. CASE Begin(s) /\ ~Built
    <3>1. lock' = Append(lock, s) /\ Goto(s, "lock") /\ pc[s] \notin Inside
      BY <2>2 DEF Begin, Inside
    <3> QED BY <3>1, QueueJoined
  <2>3. CASE \/ Enter(s) /\ ~Built
             \/ LoadQuery(s) \/ LoadFails(s) \/ FetchQuery(s) \/ SaveQuery(s)
             \/ (LoadReturns(s) /\ got[s].chunks = None)
             \/ (Build(s) /\ pending # None)
    <3>1. lock' = lock /\ pc[s] \in Inside /\ \E l \in Inside : Goto(s, l)
      BY <2>3 DEF Enter, LoadQuery, LoadFails, FetchQuery, SaveQuery, LoadReturns, Build, Inside
    <3>2. \A t \in Search : pc'[t] \in Inside <=> pc[t] \in Inside
      BY <3>1 DEF Goto, TypeOK
    <3> QED BY <3>1, <3>2, QueueStays
  <2>4. CASE \/ Enter(s) /\ Built
             \/ FetchFails(s) \/ EmptyCorpus(s) \/ SaveReturns(s)
             \/ (LoadReturns(s) /\ got[s].chunks # None)
             \/ (Build(s) /\ pending = None)
    <3>1. Unlock /\ Goto(s, "done") /\ (pc[s] \in Holding \/ (lock # << >> /\ Head(lock) = s))
      BY <2>4 DEF Enter, FetchFails, EmptyCorpus, NothingBuilt, SaveReturns, LoadReturns, Build,
                  Finish, Holding
    <3>2. lock # << >> /\ Head(lock) = s
      BY <3>1 DEF Locked
    <3> QED BY <3>1, <3>2, QueueLeft
  <2> QED BY <1>3, <2>1, <2>2, <2>3, <2>4 DEF Resume
<1>4. CASE ClaimExpires \/ TimerFires \/ Sweep
  BY <1>4, QueueStays DEF ClaimExpires, TimerFires, Sweep, searchVars
<1> QED BY <1>1, <1>2, <1>3, <1>4 DEF Next

(* While searches are in flight one of them can go on: it holds the lock   *)
(* and is at a query, or the lock comes to it next.  With SearchesEnd on   *)
(* an instance: a search that fails inside search() leaves the lock too.   *)
THEOREM IndexNeverStuck == Spec => []NobodyStuck
<1> DEFINE IInv == TypeOK /\ Locked /\ Queued
<1>1. Init => IInv
  <2> SUFFICES ASSUME Init PROVE IInv
    OBVIOUS
  <2>1. TypeOK /\ Locked
    BY InitTypes
  <2>2. Len(lock) = 0 /\ \A s \in Search : pc[s] = "new"
    BY DEF Init
  <2>3. Queued
    BY <2>2 DEF Queued, Inside
  <2> QED BY <2>1, <2>3
<1>2. IInv /\ [Next]_vars => IInv'
  BY TypeStep, LockedStep, QueuedStep
<1>3. IInv => NobodyStuck
  <2> SUFFICES ASSUME IInv, NEW s \in InFlight PROVE \E t \in Search : GoesOn(t)
    BY DEF NobodyStuck
  <2>1. PICK i \in 1..Len(lock) : lock[i] = s
    BY DEF InFlight, Queued
  <2>2. lock \in Seq(Search) /\ lock # << >>
    BY <2>1 DEF TypeOK
  <2>3. Head(lock) \in Search /\ Head(lock) = lock[1] /\ 1 \in 1..Len(lock)
    BY <2>2
  <2>4. pc[Head(lock)] \in Inside
    BY <2>3 DEF Queued
  <2>5. GoesOn(Head(lock))
    BY <2>2, <2>4 DEF GoesOn, Inside, Holding
  <2> QED BY <2>3, <2>5
<1> HIDE DEF IInv
<1> QED BY <1>1, <1>2, <1>3, PTL DEF Spec
=============================================================================
