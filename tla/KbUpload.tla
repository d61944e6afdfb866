------------------------------ MODULE KbUpload ------------------------------
(***************************************************************************)
(* Uploads to one knowledge base of SVC-RAG (kb_service.py index_document, *)
(* delete_document; text_duplicate.py).  The same text may arrive several  *)
(* times at once, as the same file or another: each upload looks for a     *)
(* twin, inserts its document, looks again among the older ones and yields *)
(* or goes on to embed.  Every query and every model call is an await.  A  *)
(* document carries the name of the upload that made it.                   *)
(***************************************************************************)
EXTENDS Naturals

CONSTANTS Upload,      \* calls of index_document
          File,        \* byte contents
          Text,        \* extracted texts, without spaces and invisible signs
          TextOf,      \* TextOf[f]: the text of file f
          Nobody,      \* not an upload
          InOrder      \* rows become visible in the order of their ids

ASSUME UploadAssumption == /\ TextOf \in [File -> Text]
                           /\ Nobody \notin Upload
                           /\ InOrder \in BOOLEAN

VARIABLES file,       \* file[u]: what upload u brings
          pc,         \* the await u is at
          id,         \* SERIAL id of its document, 0 before the INSERT
          last_id,    \* the sequence of kb_documents
          rows,       \* documents visible in kb_documents
          vectors,    \* documents with vectors
          listed,     \* listed[u]: candidates of the search for a twin
          known,      \* _fingerprints: documents whose text is cached
          result,     \* what the caller was told
          twin,       \* the document it was told of
          deleting,   \* documents a user's DELETE is at work on
          deleted,    \* history: documents a user has asked to delete
          faulty      \* history: uploads a query failed for after the INSERT

vars == <<file, pc, id, last_id, rows, vectors, listed, known, result, twin,
          deleting, deleted, faulty>>

TypeOK ==
  /\ file \in [Upload -> File]
  /\ pc \in [Upload -> {"bytes", "list", "compare", "insert", "commit", "listOlder",
                        "compareOlder", "yield", "embed", "undo", "done"}]
  /\ id \in [Upload -> Nat]
  /\ last_id \in Nat
  /\ rows \subseteq Upload
  /\ vectors \subseteq rows
  /\ listed \in [Upload -> SUBSET Upload]
  /\ known \subseteq Upload
  /\ result \in [Upload -> {"none", "indexed", "duplicate", "failed"}]
  /\ twin \in [Upload -> Upload \cup {Nobody}]
  /\ deleting \subseteq Upload
  /\ deleted \subseteq Upload
  /\ faulty \subseteq Upload

Init ==
  /\ file \in [Upload -> File]
  /\ pc = [u \in Upload |-> "bytes"]
  /\ id = [u \in Upload |-> 0]
  /\ last_id = 0
  /\ rows = {}
  /\ vectors = {}
  /\ listed = [u \in Upload |-> {}]
  /\ known = {}
  /\ result = [u \in Upload |-> "none"]
  /\ twin = [u \in Upload |-> Nobody]
  /\ deleting = {}
  /\ deleted = {}
  /\ faulty = {}

Same(u, d) == TextOf[file[u]] = TextOf[file[d]]
Goto(u, l) == pc' = [pc EXCEPT ![u] = l]
Answer(u, what) == Goto(u, "done") /\ result' = [result EXCEPT ![u] = what]
AnswerDuplicate(u, d) == Answer(u, "duplicate") /\ twin' = [twin EXCEPT ![u] = d]

-----------------------------------------------------------------------------
(* find_duplicate: one query for the same bytes in the same base.          *)
CheckBytes(u) ==
  /\ pc[u] = "bytes"
  /\ IF \E d \in rows : file[d] = file[u]
       THEN \E d \in rows : file[d] = file[u] /\ AnswerDuplicate(u, d)
       ELSE Goto(u, "list") /\ UNCHANGED <<result, twin>>
  /\ UNCHANGED <<file, id, last_id, rows, vectors, listed, known, deleting, deleted, faulty>>

(* Parsing fails, the text is empty, no model can be chosen: before the    *)
(* INSERT everything that goes wrong leaves nothing behind.                *)
FailEarly(u) ==
  /\ pc[u] \in {"list", "compare", "insert"}
  /\ Answer(u, "failed")
  /\ UNCHANGED <<file, id, last_id, rows, vectors, listed, known, twin, deleting, deleted, faulty>>

List(u) ==
  /\ pc[u] = "list"
  /\ listed' = [listed EXCEPT ![u] = rows]
  /\ Goto(u, "compare")
  /\ UNCHANGED <<file, id, last_id, rows, vectors, known, result, twin, deleting, deleted, faulty>>

(* The texts of listed documents come from the cache or are read now; one  *)
(* that cannot be read is skipped.                                         *)
Unread(u) == (listed[u] \cap rows) \ known
Twins(u, read) == {d \in listed[u] : Same(u, d) /\ d \in known \cup read}

Compare(u) ==
  /\ pc[u] = "compare"
  /\ \E read \in SUBSET Unread(u) :
       /\ IF Twins(u, read) # {}
            THEN \E d \in Twins(u, read) : AnswerDuplicate(u, d)
            ELSE Goto(u, "insert") /\ UNCHANGED <<result, twin>>
       /\ known' = known \cup read
  /\ UNCHANGED <<file, id, last_id, rows, vectors, listed, deleting, deleted, faulty>>

(* INSERT ... RETURNING id: PostgreSQL draws the id, then commits the row. *)
DrawId(u) ==
  /\ pc[u] = "insert"
  /\ last_id' = last_id + 1
  /\ id' = [id EXCEPT ![u] = last_id + 1]
  /\ Goto(u, "commit")
  /\ UNCHANGED <<file, rows, vectors, listed, known, result, twin, deleting, deleted, faulty>>

CommitRow(u) ==
  /\ pc[u] = "commit"
  /\ InOrder => \A v \in Upload : pc[v] = "commit" => id[u] <= id[v]
  /\ rows' = rows \cup {u}
  /\ Goto(u, "listOlder")
  /\ UNCHANGED <<file, id, last_id, vectors, listed, known, result, twin, deleting, deleted, faulty>>

(* Mutant: the second search asks for all others.                          *)
ListOthers(u) ==
  /\ pc[u] = "listOlder"
  /\ listed' = [listed EXCEPT ![u] = rows \ {u}]
  /\ Goto(u, "compareOlder")
  /\ UNCHANGED <<file, id, last_id, rows, vectors, known, result, twin, deleting, deleted, faulty>>

ListOlder(u) ==
  /\ pc[u] = "listOlder"
  /\ listed' = [listed EXCEPT ![u] = {d \in rows : id[d] < id[u]}]
  /\ Goto(u, "compareOlder")
  /\ UNCHANGED <<file, id, last_id, rows, vectors, known, result, twin, deleting, deleted, faulty>>

(* Mutant: found late, a twin is only reported.                            *)
CompareOlderKeeps(u) ==
  /\ pc[u] = "compareOlder"
  /\ Goto(u, "embed")
  /\ known' = known \cup {u}
  /\ UNCHANGED <<file, id, last_id, rows, vectors, listed, result, twin, deleting, deleted, faulty>>

(* The later upload yields; an earlier one does not look at later ones.    *)
CompareOlder(u) ==
  /\ pc[u] = "compareOlder"
  /\ \E read \in SUBSET Unread(u) :
       /\ IF Twins(u, read) # {}
            THEN /\ \E d \in Twins(u, read) : twin' = [twin EXCEPT ![u] = d]
                 /\ Goto(u, "yield")
                 /\ known' = known \cup read
                 /\ UNCHANGED faulty
            ELSE /\ Goto(u, "embed")
                 /\ known' = known \cup read \cup {u}
                 /\ faulty' = IF read = Unread(u) THEN faulty ELSE faulty \cup {u}
                 /\ UNCHANGED twin
  /\ UNCHANGED <<file, id, last_id, rows, vectors, listed, result, deleting, deleted>>

(* A query raises between the INSERT and the embedding: the request ends   *)
(* with an error and the row stays.                                        *)
LoseTrack(u) ==
  /\ pc[u] \in {"listOlder", "yield", "undo"}
  /\ Answer(u, "failed")
  /\ faulty' = faulty \cup {u}
  /\ UNCHANGED <<file, id, last_id, rows, vectors, listed, known, twin, deleting, deleted>>

(* Vectors go with their row (ON DELETE CASCADE).                          *)
RemoveRow(u) == rows' = rows \ {u} /\ vectors' = vectors \ {u}

(* Mutant: the older document goes instead.                                *)
YieldRemovesTwin(u) ==
  /\ pc[u] = "yield"
  /\ RemoveRow(twin[u])
  /\ Answer(u, "duplicate")
  /\ UNCHANGED <<file, id, last_id, listed, known, twin, deleting, deleted, faulty>>

Yield(u) ==
  /\ pc[u] = "yield"
  /\ RemoveRow(u)
  /\ Answer(u, "duplicate")
  /\ UNCHANGED <<file, id, last_id, listed, known, twin, deleting, deleted, faulty>>

(* embed_and_store; its waves are in KbReindex.  The insert needs the row. *)
Embed(u) ==
  /\ pc[u] = "embed"
  /\ u \in rows
  /\ vectors' = vectors \cup {u}
  /\ Answer(u, "indexed")
  /\ UNCHANGED <<file, id, last_id, rows, listed, known, twin, deleting, deleted, faulty>>

EmbedFails(u) ==
  /\ pc[u] = "embed"
  /\ Goto(u, "undo")
  /\ UNCHANGED <<file, id, last_id, rows, vectors, listed, known, result, twin, deleting,
                 deleted, faulty>>

(* Mutant: a failed embedding leaves its document.                         *)
UndoNothing(u) ==
  /\ pc[u] = "undo"
  /\ Answer(u, "failed")
  /\ UNCHANGED <<file, id, last_id, rows, vectors, listed, known, twin, deleting, deleted, faulty>>

(* Nothing of a failed upload is kept, and the backend is told.            *)
Undo(u) ==
  /\ pc[u] = "undo"
  /\ RemoveRow(u)
  /\ Answer(u, "failed")
  /\ UNCHANGED <<file, id, last_id, listed, known, twin, deleting, deleted, faulty>>

-----------------------------------------------------------------------------
(* DELETE of a document the client sees in its list, indexed or not yet.   *)
DeleteVectors(d) ==
  /\ d \in rows
  /\ d \notin deleting
  /\ deleting' = deleting \cup {d}
  /\ deleted' = deleted \cup {d}
  /\ vectors' = vectors \ {d}
  /\ UNCHANGED <<file, pc, id, last_id, rows, listed, known, result, twin, faulty>>

DeleteRow(d) ==
  /\ d \in deleting
  /\ deleting' = deleting \ {d}
  /\ RemoveRow(d)
  /\ UNCHANGED <<file, pc, id, last_id, listed, known, result, twin, deleted, faulty>>

DeleteFails(d) ==
  /\ d \in deleting
  /\ deleting' = deleting \ {d}
  /\ UNCHANGED <<file, pc, id, last_id, rows, vectors, listed, known, result, twin,
                 deleted, faulty>>

Step(u) == CheckBytes(u) \/ FailEarly(u) \/ List(u) \/ Compare(u) \/ DrawId(u)
             \/ CommitRow(u) \/ ListOlder(u) \/ CompareOlder(u) \/ LoseTrack(u)
             \/ Yield(u) \/ Embed(u) \/ EmbedFails(u) \/ Undo(u)

Next == \E u \in Upload : \/ Step(u)
                          \/ DeleteVectors(u) \/ DeleteRow(u) \/ DeleteFails(u)

Spec == Init /\ [][Next]_vars

-----------------------------------------------------------------------------
(* However many copies arrive at once, at most one document of a text is   *)
(* kept: later ones find an earlier one and yield (text_duplicate.py       *)
(* 62-65).  It needs rows to become visible in the order of their ids.     *)
NoTwins ==
  \A u, v \in rows : (u # v /\ pc[u] \in {"embed", "done"} /\ pc[v] \in {"embed", "done"}
                        /\ {u, v} \cap faulty = {}) => ~Same(u, v)

(* Who was told "indexed" finds the document with its vectors until a user *)
(* deletes it: no other upload takes it away.                              *)
IndexedStays ==
  \A u \in Upload : (result[u] = "indexed" /\ u \notin deleted) => u \in vectors

(* An upload that was not indexed leaves nothing behind (comment at 250:   *)
(* no document without a single vector), unless the database failed it.    *)
NoEmptyDocument ==
  \A u \in rows : (pc[u] = "done" /\ u \notin deleted \cup faulty) => u \in vectors

(* Several uploads of a text may yield or be refused as copies, but not    *)
(* all of them: unless one failed or a user deleted it, the text is there. *)
(* Two uploads yielding to each other would lose it without a word.        *)
CopiesKeepOne ==
  \A u \in Upload : result[u] = "duplicate" =>
    \E d \in Upload : Same(u, d) /\ (d \in rows \cup deleted \cup faulty \/ result[d] = "failed")
=============================================================================
