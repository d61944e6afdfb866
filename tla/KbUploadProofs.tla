--------------------------- MODULE KbUploadProofs ---------------------------
(***************************************************************************)
(* Proofs about KbUpload, for any uploads, files and texts.  When rows     *)
(* become visible in the order of their ids, a document that was inserted  *)
(* sees every older one in its second search (Settled, Listed), so no twin *)
(* of it stays (NoOlderTwin).  What was answered "indexed" stays because   *)
(* an upload only ever removes its own document (Kept).                    *)
(***************************************************************************)
EXTENDS KbUpload, WellFoundedInduction, TLAPS

Before == {"bytes", "list", "compare", "insert"}
Inserted == {"listOlder", "compareOlder", "yield", "embed", "undo"}

(* Ids are drawn once, grow, and come before the row.                      *)
Numbered ==
  /\ \A u \in Upload : id[u] <= last_id
  /\ \A u \in Upload : pc[u] \in Before => id[u] = 0
  /\ \A u \in Upload : pc[u] \in Inserted \cup {"commit"} => id[u] > 0
  /\ \A u, v \in Upload : (u # v /\ id[u] > 0) => id[u] # id[v]
  /\ \A u \in rows : id[u] > 0 /\ pc[u] \in Inserted \cup {"done"}

(* Nobody with a smaller id is still to come.                              *)
Settled ==
  \A u, v \in Upload :
    ((u \in rows \/ pc[u] \in Inserted) /\ id[v] < id[u]) => pc[v] # "commit"

(* The second search has every older document before it.                   *)
Listed ==
  \A u \in Upload : pc[u] = "compareOlder" =>
    \A v \in rows : id[v] < id[u] => v \in listed[u]

NoOlderTwin ==
  \A u, v \in rows :
    (pc[u] \in {"embed", "done"} /\ u \notin faulty /\ id[v] < id[u]) => ~Same(u, v)

Unique == Settled /\ Listed /\ NoOlderTwin

(* Answers come last, and a document only goes with its upload or its user. *)
Kept ==
  /\ \A u \in Upload : (result[u] # "none") <=> (pc[u] = "done")
  /\ deleting \subseteq deleted
  /\ IndexedStays
  /\ NoEmptyDocument

(* Its row was visible at some time.                                       *)
Committed(u) == id[u] > 0 /\ pc[u] # "commit"

(* A search lists rows, the second one older rows.                         *)
ListsRows ==
  \A u \in Upload : pc[u] \in {"compare", "compareOlder"} =>
    \A d \in listed[u] : Committed(d) /\ (pc[u] = "compareOlder" => id[d] < id[u])

(* A copy has a twin that was a row; one that was a row itself, an older.  *)
Yields ==
  \A u \in Upload : (pc[u] = "yield" \/ result[u] = "duplicate") =>
    /\ twin[u] \in Upload
    /\ Committed(twin[u])
    /\ Same(u, twin[u])
    /\ Committed(u) => id[twin[u]] < id[u]

(* What became of every document that was a row.                           *)
Accounted ==
  \A u \in Upload : Committed(u) => \/ u \in rows \cup deleted
                                     \/ result[u] \in {"failed", "duplicate"}

Copies == ListsRows /\ Yields /\ Accounted

-----------------------------------------------------------------------------
(* Every step keeps the types.                                             *)
LEMMA TypeStep == TypeOK /\ [Next]_vars => TypeOK'
<1> SUFFICES ASSUME TypeOK, [Next]_vars PROVE TypeOK'
  OBVIOUS
<1> USE UploadAssumption DEF TypeOK
<1>1. CASE UNCHANGED vars
  BY <1>1 DEF vars
<1>2. ASSUME NEW u \in Upload, Step(u) PROVE TypeOK'
  <2>1. CASE CheckBytes(u)
    BY <2>1 DEF CheckBytes, AnswerDuplicate, Answer, Goto
  <2>2. CASE FailEarly(u)
    BY <2>2 DEF FailEarly, Answer, Goto
  <2>3. CASE List(u)
    BY <2>3 DEF List, Goto
  <2>4. CASE Compare(u)
    BY <2>4 DEF Compare, Twins, Unread, AnswerDuplicate, Answer, Goto
  <2>5. CASE DrawId(u)
    BY <2>5 DEF DrawId, Goto
  <2>6. CASE CommitRow(u)
    BY <2>6 DEF CommitRow, Goto
  <2>7. CASE ListOlder(u)
    BY <2>7 DEF ListOlder, Goto
  <2>8. CASE CompareOlder(u)
    BY <2>8 DEF CompareOlder, Twins, Unread, Goto
  <2>9. CASE LoseTrack(u)
    BY <2>9 DEF LoseTrack, Answer, Goto
  <2>10. CASE Yield(u)
    BY <2>10 DEF Yield, RemoveRow, Answer, Goto
  <2>11. CASE Embed(u)
    BY <2>11 DEF Embed, Answer, Goto
  <2>12. CASE EmbedFails(u)
    BY <2>12 DEF EmbedFails, Goto
  <2>13. CASE Undo(u)
    BY <2>13 DEF Undo, RemoveRow, Answer, Goto
  <2> QED
    BY <1>2, <2>1, <2>2, <2>3, <2>4, <2>5, <2>6, <2>7, <2>8, <2>9, <2>10, <2>11,
       <2>12, <2>13 DEF Step
<1>3. ASSUME NEW d \in Upload, DeleteVectors(d) \/ DeleteRow(d) \/ DeleteFails(d)
      PROVE  TypeOK'
  BY <1>3 DEF DeleteVectors, DeleteRow, DeleteFails, RemoveRow
<1> QED
  BY <1>1, <1>2, <1>3 DEF Next

(* Every step keeps the order of the ids.                                  *)
LEMMA NumberedStep == TypeOK /\ Numbered /\ [Next]_vars => Numbered'
<1> SUFFICES ASSUME TypeOK, Numbered, [Next]_vars PROVE Numbered'
  OBVIOUS
<1> USE DEF TypeOK, Numbered, Before, Inserted
<1>1. CASE UNCHANGED vars
  BY <1>1 DEF vars
<1>2. ASSUME NEW u \in Upload, Step(u) PROVE Numbered'
  <2>1. CASE CheckBytes(u)
    BY <2>1 DEF CheckBytes, AnswerDuplicate, Answer, Goto
  <2>2. CASE FailEarly(u)
    BY <2>2 DEF FailEarly, Answer, Goto
  <2>3. CASE List(u)
    BY <2>3 DEF List, Goto
  <2>4. CASE Compare(u)
    BY <2>4 DEF Compare, AnswerDuplicate, Answer, Goto
  <2>5. CASE DrawId(u)
    BY <2>5 DEF DrawId, Goto
  <2>6. CASE CommitRow(u)
    BY <2>6 DEF CommitRow, Goto
  <2>7. CASE ListOlder(u)
    BY <2>7 DEF ListOlder, Goto
  <2>8. CASE CompareOlder(u)
    BY <2>8 DEF CompareOlder, Goto
  <2>9. CASE LoseTrack(u)
    BY <2>9 DEF LoseTrack, Answer, Goto
  <2>10. CASE Yield(u)
    BY <2>10 DEF Yield, RemoveRow, Answer, Goto
  <2>11. CASE Embed(u)
    BY <2>11 DEF Embed, Answer, Goto
  <2>12. CASE EmbedFails(u)
    BY <2>12 DEF EmbedFails, Goto
  <2>13. CASE Undo(u)
    BY <2>13 DEF Undo, RemoveRow, Answer, Goto
  <2> QED
    BY <1>2, <2>1, <2>2, <2>3, <2>4, <2>5, <2>6, <2>7, <2>8, <2>9, <2>10, <2>11,
       <2>12, <2>13 DEF Step
<1>3. ASSUME NEW d \in Upload, DeleteVectors(d) \/ DeleteRow(d) \/ DeleteFails(d)
      PROVE  Numbered'
  BY <1>3 DEF DeleteVectors, DeleteRow, DeleteFails, RemoveRow
<1> QED
  BY <1>1, <1>2, <1>3 DEF Next
(* Rows become visible in the order of their ids.                          *)
LEMMA SettledStep == InOrder /\ TypeOK /\ Numbered /\ Settled /\ [Next]_vars => Settled'
<1> SUFFICES ASSUME InOrder, TypeOK, Numbered, Settled, [Next]_vars PROVE Settled'
  OBVIOUS
<1> USE DEF TypeOK, Numbered, Settled, Before, Inserted
<1>1. CASE UNCHANGED vars
  BY <1>1 DEF vars
<1>2. ASSUME NEW u \in Upload, Step(u) PROVE Settled'
  <2>1. CASE CheckBytes(u)
    BY <2>1 DEF CheckBytes, AnswerDuplicate, Answer, Goto
  <2>2. CASE FailEarly(u)
    BY <2>2 DEF FailEarly, Answer, Goto
  <2>3. CASE List(u)
    BY <2>3 DEF List, Goto
  <2>4. CASE Compare(u)
    BY <2>4 DEF Compare, AnswerDuplicate, Answer, Goto
  <2>5. CASE DrawId(u)
    BY <2>5 DEF DrawId, Goto
  <2>6. CASE CommitRow(u)
    BY <2>6 DEF CommitRow, Goto
  <2>7. CASE ListOlder(u)
    BY <2>7 DEF ListOlder, Goto
  <2>8. CASE CompareOlder(u)
    BY <2>8 DEF CompareOlder, Goto
  <2>9. CASE LoseTrack(u)
    BY <2>9 DEF LoseTrack, Answer, Goto
  <2>10. CASE Yield(u)
    BY <2>10 DEF Yield, RemoveRow, Answer, Goto
  <2>11. CASE Embed(u)
    BY <2>11 DEF Embed, Answer, Goto
  <2>12. CASE EmbedFails(u)
    BY <2>12 DEF EmbedFails, Goto
  <2>13. CASE Undo(u)
    BY <2>13 DEF Undo, RemoveRow, Answer, Goto
  <2> QED
    BY <1>2, <2>1, <2>2, <2>3, <2>4, <2>5, <2>6, <2>7, <2>8, <2>9, <2>10,
       <2>11, <2>12, <2>13 DEF Step
<1>3. ASSUME NEW d \in Upload, DeleteVectors(d) \/ DeleteRow(d) \/ DeleteFails(d)
      PROVE  Settled'
  BY <1>3 DEF DeleteVectors, DeleteRow, DeleteFails, RemoveRow
<1> QED
  BY <1>1, <1>2, <1>3 DEF Next

(* Nothing older becomes visible once the list was read.                   *)
LEMMA ListedStep == TypeOK /\ Numbered /\ Settled /\ Listed /\ [Next]_vars => Listed'
<1> SUFFICES ASSUME TypeOK, Numbered, Settled, Listed, [Next]_vars PROVE Listed'
  OBVIOUS
<1> USE DEF TypeOK, Numbered, Settled, Listed, Inserted
<1>1. CASE UNCHANGED vars
  BY <1>1 DEF vars
<1>2. ASSUME NEW u \in Upload, Step(u) PROVE Listed'
  <2>1. CASE CheckBytes(u)
    BY <2>1 DEF CheckBytes, AnswerDuplicate, Answer, Goto
  <2>2. CASE FailEarly(u)
    BY <2>2 DEF FailEarly, Answer, Goto
  <2>3. CASE List(u)
    BY <2>3 DEF List, Goto
  <2>4. CASE Compare(u)
    BY <2>4 DEF Compare, AnswerDuplicate, Answer, Goto
  <2>5. CASE DrawId(u)
    BY <2>5 DEF DrawId, Goto
  <2>6. CASE CommitRow(u)
    BY <2>6 DEF CommitRow, Goto
  <2>7. CASE ListOlder(u)
    BY <2>7 DEF ListOlder, Goto
  <2>8. CASE CompareOlder(u)
    BY <2>8 DEF CompareOlder, Goto
  <2>9. CASE LoseTrack(u)
    BY <2>9 DEF LoseTrack, Answer, Goto
  <2>10. CASE Yield(u)
    BY <2>10 DEF Yield, RemoveRow, Answer, Goto
  <2>11. CASE Embed(u)
    BY <2>11 DEF Embed, Answer, Goto
  <2>12. CASE EmbedFails(u)
    BY <2>12 DEF EmbedFails, Goto
  <2>13. CASE Undo(u)
    BY <2>13 DEF Undo, RemoveRow, Answer, Goto
  <2> QED
    BY <1>2, <2>1, <2>2, <2>3, <2>4, <2>5, <2>6, <2>7, <2>8, <2>9, <2>10,
       <2>11, <2>12, <2>13 DEF Step
<1>3. ASSUME NEW d \in Upload, DeleteVectors(d) \/ DeleteRow(d) \/ DeleteFails(d)
      PROVE  Listed'
  BY <1>3 DEF DeleteVectors, DeleteRow, DeleteFails, RemoveRow
<1> QED
  BY <1>1, <1>2, <1>3 DEF Next

(* An upload that goes on to embed has no older twin, and gets none later. *)
LEMMA NoOlderTwinStep == TypeOK /\ Numbered /\ Settled /\ Listed /\ NoOlderTwin /\ [Next]_vars => NoOlderTwin'
<1> SUFFICES ASSUME TypeOK, Numbered, Settled, Listed, NoOlderTwin, [Next]_vars PROVE NoOlderTwin'
  OBVIOUS
<1> USE DEF TypeOK, Numbered, Settled, Listed, NoOlderTwin, Same, Before, Inserted
<1>1. CASE UNCHANGED vars
  BY <1>1 DEF vars
<1>2. ASSUME NEW u \in Upload, Step(u) PROVE NoOlderTwin'
  <2>1. CASE CheckBytes(u)
    BY <2>1 DEF CheckBytes, AnswerDuplicate, Answer, Goto
  <2>2. CASE FailEarly(u)
    BY <2>2 DEF FailEarly, Answer, Goto
  <2>3. CASE List(u)
    BY <2>3 DEF List, Goto
  <2>4. CASE Compare(u)
    BY <2>4 DEF Compare, AnswerDuplicate, Answer, Goto
  <2>5. CASE DrawId(u)
    BY <2>5 DEF DrawId, Goto
  <2>6. CASE CommitRow(u)
    BY <2>6 DEF CommitRow, Goto
  <2>7. CASE ListOlder(u)
    BY <2>7 DEF ListOlder, Goto
  <2>8. CASE CompareOlder(u)
    <3>1. CASE pc'[u] = "yield"
      BY <2>8, <3>1 DEF CompareOlder, Goto
    <3>2. ASSUME pc'[u] = "embed", u \notin faulty', NEW v \in rows', id'[v] < id'[u],
                 Same(u, v)
          PROVE  FALSE
      <4>1. PICK read \in SUBSET Unread(u) : Twins(u, read) = {} /\ read = Unread(u)
        BY <2>8, <3>2 DEF CompareOlder, Goto
      <4>2. v \in listed[u] /\ v \in known \cup Unread(u)
        BY <2>8, <3>2 DEF CompareOlder, Unread
      <4> QED
        BY <3>2, <4>1, <4>2 DEF Twins
    <3> QED
      BY <2>8, <3>1, <3>2 DEF CompareOlder, Goto, Same
  <2>9. CASE LoseTrack(u)
    BY <2>9 DEF LoseTrack, Answer, Goto
  <2>10. CASE Yield(u)
    BY <2>10 DEF Yield, RemoveRow, Answer, Goto
  <2>11. CASE Embed(u)
    BY <2>11 DEF Embed, Answer, Goto
  <2>12. CASE EmbedFails(u)
    BY <2>12 DEF EmbedFails, Goto
  <2>13. CASE Undo(u)
    BY <2>13 DEF Undo, RemoveRow, Answer, Goto
  <2> QED
    BY <1>2, <2>1, <2>2, <2>3, <2>4, <2>5, <2>6, <2>7, <2>8, <2>9, <2>10,
       <2>11, <2>12, <2>13 DEF Step
<1>3. ASSUME NEW d \in Upload, DeleteVectors(d) \/ DeleteRow(d) \/ DeleteFails(d)
      PROVE  NoOlderTwin'
  BY <1>3 DEF DeleteVectors, DeleteRow, DeleteFails, RemoveRow
<1> QED
  BY <1>1, <1>2, <1>3 DEF Next

(* An upload removes no document but its own.                              *)
LEMMA KeptStep == TypeOK /\ Numbered /\ Kept /\ [Next]_vars => Kept'
<1> SUFFICES ASSUME TypeOK, Numbered, Kept, [Next]_vars PROVE Kept'
  OBVIOUS
<1> USE DEF TypeOK, Numbered, Kept, IndexedStays, NoEmptyDocument, Before, Inserted
<1>1. CASE UNCHANGED vars
  BY <1>1 DEF vars
<1>2. ASSUME NEW u \in Upload, Step(u) PROVE Kept'
  <2>1. CASE CheckBytes(u)
    BY <2>1 DEF CheckBytes, AnswerDuplicate, Answer, Goto
  <2>2. CASE FailEarly(u)
    BY <2>2 DEF FailEarly, Answer, Goto
  <2>3. CASE List(u)
    BY <2>3 DEF List, Goto
  <2>4. CASE Compare(u)
    BY <2>4 DEF Compare, AnswerDuplicate, Answer, Goto
  <2>5. CASE DrawId(u)
    BY <2>5 DEF DrawId, Goto
  <2>6. CASE CommitRow(u)
    BY <2>6 DEF CommitRow, Goto
  <2>7. CASE ListOlder(u)
    BY <2>7 DEF ListOlder, Goto
  <2>8. CASE CompareOlder(u)
    BY <2>8 DEF CompareOlder, Goto
  <2>9. CASE LoseTrack(u)
    BY <2>9 DEF LoseTrack, Answer, Goto
  <2>10. CASE Yield(u)
    BY <2>10 DEF Yield, RemoveRow, Answer, Goto
  <2>11. CASE Embed(u)
    BY <2>11 DEF Embed, Answer, Goto
  <2>12. CASE EmbedFails(u)
    BY <2>12 DEF EmbedFails, Goto
  <2>13. CASE Undo(u)
    BY <2>13 DEF Undo, RemoveRow, Answer, Goto
  <2> QED
    BY <1>2, <2>1, <2>2, <2>3, <2>4, <2>5, <2>6, <2>7, <2>8, <2>9, <2>10,
       <2>11, <2>12, <2>13 DEF Step
<1>3. ASSUME NEW d \in Upload, DeleteVectors(d) \/ DeleteRow(d) \/ DeleteFails(d)
      PROVE  Kept'
  BY <1>3 DEF DeleteVectors, DeleteRow, DeleteFails, RemoveRow
<1> QED
  BY <1>1, <1>2, <1>3 DEF Next

(* A step adds no copy without a twin and loses no document unaccounted for. *)
LEMMA CopiesStep == TypeOK /\ Numbered /\ Kept /\ Copies /\ [Next]_vars => Copies'
<1> SUFFICES ASSUME TypeOK, Numbered, Kept, Copies, [Next]_vars PROVE Copies'
  OBVIOUS
<1> USE DEF TypeOK, Numbered, Kept, Copies, ListsRows, Yields, Accounted, Committed, Same, Before, Inserted
<1>1. CASE UNCHANGED vars
  BY <1>1 DEF vars
<1>2. ASSUME NEW u \in Upload, Step(u) PROVE Copies'
  <2>1. CASE CheckBytes(u)
    BY <2>1 DEF CheckBytes, AnswerDuplicate, Answer, Goto
  <2>2. CASE FailEarly(u)
    BY <2>2 DEF FailEarly, Answer, Goto
  <2>3. CASE List(u)
    BY <2>3 DEF List, Goto
  <2>4. CASE Compare(u)
    BY <2>4 DEF Compare, Twins, Unread, AnswerDuplicate, Answer, Goto
  <2>5. CASE DrawId(u)
    BY <2>5 DEF DrawId, Goto
  <2>6. CASE CommitRow(u)
    BY <2>6 DEF CommitRow, Goto
  <2>7. CASE ListOlder(u)
    BY <2>7 DEF ListOlder, Goto
  <2>8. CASE CompareOlder(u)
    BY <2>8 DEF CompareOlder, Twins, Unread, Goto
  <2>9. CASE LoseTrack(u)
    BY <2>9 DEF LoseTrack, Answer, Goto
  <2>10. CASE Yield(u)
    BY <2>10 DEF Yield, RemoveRow, Answer, Goto
  <2>11. CASE Embed(u)
    BY <2>11 DEF Embed, Answer, Goto
  <2>12. CASE EmbedFails(u)
    BY <2>12 DEF EmbedFails, Goto
  <2>13. CASE Undo(u)
    BY <2>13 DEF Undo, RemoveRow, Answer, Goto
  <2> QED
    BY <1>2, <2>1, <2>2, <2>3, <2>4, <2>5, <2>6, <2>7, <2>8, <2>9, <2>10,
       <2>11, <2>12, <2>13 DEF Step
<1>3. ASSUME NEW d \in Upload, DeleteVectors(d) \/ DeleteRow(d) \/ DeleteFails(d)
      PROVE  Copies'
  BY <1>3 DEF DeleteVectors, DeleteRow, DeleteFails, RemoveRow
<1> QED
  BY <1>1, <1>2, <1>3 DEF Next

(* A nonempty set of naturals has a least element.                         *)
LEMMA LeastBelow ==
  ASSUME NEW Below, IsWellFoundedOn(Below, Nat), NEW S, S \subseteq Nat, S # {},
         \A x, y \in Nat : y < x => <<y, x>> \in Below
  PROVE  \E x \in S : \A y \in S : x <= y
<1>1. PICK x \in S : \A y \in S : <<y, x>> \notin Below
  BY WFMin
<1>2. \A y \in S : ~(y < x)
  BY <1>1
<1>3. \A y \in S : x <= y
  BY <1>2, SMT
<1> QED
  BY <1>3

LEMMA LessThanPairs == \A x, y \in Nat : y < x => <<y, x>> \in OpToRel(<, Nat)
  BY DEF OpToRel

LEMMA LeastNat ==
  ASSUME NEW S, S \subseteq Nat, S # {} PROVE \E x \in S : \A y \in S : x <= y
  BY LeastBelow, NatLessThanWellFounded, LessThanPairs

-----------------------------------------------------------------------------
(* Every reachable state is well typed: no vectors without a document.     *)
THEOREM UploadTypeCorrect == Spec => []TypeOK
<1>1. Init => TypeOK
  BY UploadAssumption DEF Init, TypeOK
<1> QED
  BY <1>1, TypeStep, PTL DEF Spec

(* Ids are unique and grow in every reachable state.                       *)
LEMMA UploadNumbered == Spec => []Numbered
<1>1. Init => Numbered
  BY DEF Init, Numbered, Before, Inserted
<1> QED
  BY <1>1, UploadTypeCorrect, NumberedStep, PTL DEF Spec

(* If rows become visible in the order of their ids, no two documents of   *)
(* one text are kept, however many uploads of it run at once.              *)
THEOREM UploadNoTwins == ASSUME InOrder PROVE Spec => []NoTwins
<1>1. Init => Unique
  BY DEF Init, Unique, Settled, Listed, NoOlderTwin, Inserted
<1>2. TypeOK /\ Numbered /\ Unique /\ [Next]_vars => Unique'
  BY SettledStep, ListedStep, NoOlderTwinStep DEF Unique
<1>3. TypeOK /\ Numbered /\ Unique => NoTwins
  BY DEF TypeOK, Numbered, Unique, NoOlderTwin, NoTwins, Same
<1> QED
  BY <1>1, <1>2, <1>3, UploadTypeCorrect, UploadNumbered, PTL DEF Spec

(* Whatever other uploads and deletions do, an indexed document keeps its  *)
(* vectors until a user deletes it.                                        *)
THEOREM UploadIndexedStays == Spec => []IndexedStays
<1>1. Init => Kept
  BY DEF Init, Kept, IndexedStays, NoEmptyDocument
<1>2. Kept => IndexedStays
  BY DEF Kept
<1> QED
  BY <1>1, <1>2, UploadTypeCorrect, UploadNumbered, KeptStep, PTL DEF Spec

(* An upload that did not succeed leaves no document behind, unless the    *)
(* database failed it.                                                     *)
THEOREM UploadNoEmptyDocument == Spec => []NoEmptyDocument
<1>1. Init => Kept
  BY DEF Init, Kept, IndexedStays, NoEmptyDocument
<1>2. Kept => NoEmptyDocument
  BY DEF Kept
<1> QED
  BY <1>1, <1>2, UploadTypeCorrect, UploadNumbered, KeptStep, PTL DEF Spec

(* Copies never all yield to each other: the oldest document of a text is  *)
(* there, or its user deleted it, or its upload failed.                    *)
THEOREM UploadCopiesKeepOne == Spec => []CopiesKeepOne
<1>1. Init => Kept /\ Copies
  BY DEF Init, Kept, IndexedStays, NoEmptyDocument, Copies, ListsRows, Yields, Accounted,
         Committed
<1>2. TypeOK /\ Numbered /\ Copies => CopiesKeepOne
  <2> SUFFICES ASSUME TypeOK, Copies, NEW u \in Upload, result[u] = "duplicate"
               PROVE  \E d \in Upload : /\ Same(u, d)
                                        /\ \/ d \in rows \cup deleted \cup faulty
                                           \/ result[d] = "failed"
    BY DEF CopiesKeepOne
  <2> DEFINE Ids == {id[d] : d \in {e \in Upload : Same(u, e) /\ Committed(e)}}
  <2>1. Ids # {}
    BY DEF Copies, Yields
  <2>2. Ids \subseteq Nat
    BY DEF TypeOK
  <2> HIDE DEF Ids
  <2>3. PICK least \in Ids : \A i \in Ids : least <= i
    BY <2>1, <2>2, LeastNat
  <2>4. PICK d \in Upload : Same(u, d) /\ Committed(d) /\ id[d] = least
    BY DEF Ids
  <2>5. ASSUME result[d] = "duplicate" PROVE FALSE
    <3>1. twin[d] \in Upload /\ Committed(twin[d]) /\ Same(d, twin[d]) /\ id[twin[d]] < id[d]
      BY <2>4, <2>5 DEF Copies, Yields
    <3>2. Same(u, twin[d])
      BY <2>4, <3>1 DEF Same
    <3>3. id[twin[d]] \in Ids
      BY <3>1, <3>2 DEF Ids
    <3> QED
      BY <2>3, <2>4, <3>1, <3>3 DEF TypeOK
  <2> QED
    BY <2>4, <2>5 DEF Copies, Accounted
<1> QED
  BY <1>1, <1>2, UploadTypeCorrect, UploadNumbered, KeptStep, CopiesStep, PTL DEF Spec
=============================================================================
