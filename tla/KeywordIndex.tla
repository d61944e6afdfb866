---------------------------- MODULE KeywordIndex ----------------------------
(***************************************************************************)
(* The keyword index over the documents of one vector table in SVC-RAG (a  *)
(* search without a white list): an in-memory BM25 index that searches     *)
(* share (services/bm25_index.py), its copy in PostgreSQL under a          *)
(* fingerprint of the corpus (database/bm25_store.py), and the uploads,    *)
(* deletions and reindex passes of kb_service.py that change the corpus    *)
(* and mark the index dirty.  Every query is two steps, what the database  *)
(* does and the resumption of the coroutine; between them the event loop   *)
(* runs others.  A chunk is its id, and a document has one.                *)
(***************************************************************************)
EXTENDS Integers, FiniteSets, Sequences

CONSTANTS Search,     \* requests that search
          Document,   \* documents that come and go
          MaxId,      \* bound of the ids the model draws
          InOrder,    \* chunks become visible in the order of their ids
          None        \* no index, no fingerprint, no blob

ASSUME IndexAssumption ==
  MaxId \in Nat /\ InOrder \in BOOLEAN /\ \A c \in SUBSET (1..MaxId) : None # c

VARIABLES
  doc,            \* doc[d]: how far the upload, deletion or reindex of d is;
                  \* "overtaken": indexed, but its mark_dirty gets lost
  chunk,          \* chunk[d]: the id of its chunk
  last_id,        \* the sequence of the vectors table
  corpus,         \* the chunks visible in it
  stored,         \* the row of bm25_index_store, as [print, chunks]
  index,          \* self.index with self.metadatas: its chunks, or None
  needs_rebuild,  \* self.needs_rebuild
  pending,        \* self._pending_fingerprint
  claimed,        \* now < self.claimed_until
  due,            \* a timer runs that would release the index
  lock,           \* holder and waiters of self._lock, in order
  pc,             \* the await search s is at
  got,            \* what its query returned
  answer,         \* the chunks its search ranks
  announced,      \* history: chunks reported as indexed when s began
  excused         \* history: searches that may answer nothing

corpusVars == <<doc, chunk, last_id, corpus>>
indexVars == <<index, needs_rebuild, pending>>
searchVars == <<pc, got, answer, announced>>
vars == <<corpusVars, stored, indexVars, claimed, due, lock, searchVars, excused>>

Chunk == 1..MaxId
Stamp == [count : Nat, highest : 0..MaxId]
Content == (SUBSET Chunk) \ {{}}
Blob == [print : Stamp, chunks : Content]
Nothing == [print |-> None, chunks |-> None]
Inside == {"lock", "load", "loaded", "fetch", "fetched", "save", "saved"}
InFlight == {s \in Search : pc[s] \in Inside}

TypeOK ==
  /\ doc \in [Document -> {"new", "drawn", "inserted", "indexed", "overtaken", "removed", "gone"}]
  /\ chunk \in [Document -> 0..MaxId]
  /\ \A d \in Document : doc[d] # "new" => chunk[d] > 0
  /\ last_id \in 0..MaxId
  /\ corpus \subseteq Chunk
  /\ stored \in Blob \cup {None}
  /\ index \in Content \cup {None}
  /\ needs_rebuild \in BOOLEAN
  /\ pending \in Stamp \cup {None}
  /\ claimed \in BOOLEAN
  /\ due \in BOOLEAN
  /\ lock \in Seq(Search)
  /\ pc \in [Search -> Inside \cup {"new", "claimed", "done", "vector"}]
  /\ got \in [Search -> [print : {None} \cup Stamp, chunks : {None} \cup SUBSET Chunk]]
  /\ \A s \in Search : pc[s] \in {"fetched", "save"} => got[s].chunks # None
  /\ \A s \in Search : pc[s] \in {"loaded", "save"} => got[s].chunks # {}
  /\ \A s \in Search : pc[s] = "save" => got[s].print # None
  /\ answer \in [Search -> SUBSET Chunk]
  /\ announced \in [Search -> SUBSET (0..MaxId)]
  /\ excused \subseteq Search

Init ==
  /\ doc = [d \in Document |-> "new"]
  /\ chunk = [d \in Document |-> 0]
  /\ last_id = 0
  /\ corpus = {}
  /\ stored = None
  /\ index = None
  /\ needs_rebuild = TRUE
  /\ pending = None
  /\ claimed = FALSE
  /\ due = FALSE
  /\ lock = << >>
  /\ pc = [s \in Search |-> "new"]
  /\ got = [s \in Search |-> Nothing]
  /\ answer = [s \in Search |-> {}]
  /\ announced = [s \in Search |-> {}]
  /\ excused = {}

Highest(c) == IF c = {} THEN 0 ELSE CHOOSE x \in c : \A y \in c : y <= x

(* Mutant: additions are not part of the fingerprint.                      *)
PrintOfCount(c) == [count |-> Cardinality(c), highest |-> 0]

(* The number of chunks and the highest id (bm25_store.fingerprint_expr).  *)
Fingerprint(c) == [count |-> Cardinality(c), highest |-> Highest(c)]

-----------------------------------------------------------------------------
(* Uploads, deletions and reindex passes.                                  *)

(* mark_dirty: the index goes at once, and whoever searches may miss it.   *)
MarkDirty ==
  /\ index' = None
  /\ needs_rebuild' = TRUE
  /\ pending' = None
  /\ excused' = excused \cup InFlight

Goes(d, from, to) == doc[d] = from /\ doc' = [doc EXCEPT ![d] = to]

Draw(d) ==
  /\ last_id < MaxId
  /\ Goes(d, "new", "drawn")
  /\ last_id' = last_id + 1
  /\ chunk' = [chunk EXCEPT ![d] = last_id + 1]
  /\ UNCHANGED <<corpus, stored, indexVars, claimed, due, lock, searchVars, excused>>

Insert(d) ==
  /\ Goes(d, "drawn", "inserted")
  /\ InOrder => \A e \in Document : doc[e] = "drawn" => chunk[d] <= chunk[e]
  /\ corpus' = corpus \cup {chunk[d]}
  /\ UNCHANGED <<chunk, last_id, stored, indexVars, claimed, due, lock, searchVars, excused>>

(* A search that has its query's answer in hand builds from it after this  *)
(* mark, and clears the mark (_load_stored 245, build 322).                *)
Announce(d) ==
  /\ Goes(d, "inserted", IF \E s \in Search : pc[s] \in {"loaded", "fetched"}
                           THEN "overtaken" ELSE "indexed")
  /\ MarkDirty
  /\ UNCHANGED <<chunk, last_id, corpus, stored, claimed, due, lock, searchVars>>

(* A later wave fails: the chunks go, and nobody marks the index.          *)
Rollback(d) ==
  /\ Goes(d, "inserted", "gone")
  /\ corpus' = corpus \ {chunk[d]}
  /\ UNCHANGED <<chunk, last_id, stored, indexVars, claimed, due, lock, searchVars, excused>>

Remove(d) ==
  /\ \E l \in {"indexed", "overtaken"} : Goes(d, l, "removed")
  /\ corpus' = corpus \ {chunk[d]}
  /\ UNCHANGED <<chunk, last_id, stored, indexVars, claimed, due, lock, searchVars, excused>>

MarkRemoved(d) ==
  /\ Goes(d, "removed", "gone")
  /\ MarkDirty
  /\ UNCHANGED <<chunk, last_id, corpus, stored, claimed, due, lock, searchVars>>

(* reindex_document deletes the old chunks and inserts again.              *)
Redo(d) ==
  /\ last_id < MaxId
  /\ \E l \in {"indexed", "overtaken"} : Goes(d, l, "new")
  /\ corpus' = corpus \ {chunk[d]}
  /\ UNCHANGED <<chunk, last_id, stored, indexVars, claimed, due, lock, searchVars, excused>>

-----------------------------------------------------------------------------
(* Searches.                                                               *)
Goto(s, l) == pc' = [pc EXCEPT ![s] = l]

(* get_or_create: the index is claimed while the query is embedded.        *)
Claim(s) ==
  /\ pc[s] = "new"
  /\ Goto(s, "claimed")
  /\ claimed' = TRUE
  /\ due' = FALSE
  /\ UNCHANGED <<corpusVars, stored, indexVars, lock, got, answer, announced, excused>>

(* The strategy turns out to be vectors only: no search, no timer.         *)
VectorOnly(s) ==
  /\ pc[s] = "claimed"
  /\ Goto(s, "vector")
  /\ UNCHANGED <<corpusVars, stored, indexVars, claimed, due, lock, got, answer, announced,
                 excused>>

ClaimExpires ==
  /\ claimed
  /\ claimed' = FALSE
  /\ UNCHANGED <<corpusVars, stored, indexVars, due, lock, searchVars, excused>>

Built == ~needs_rebuild /\ index # None

(* Mutant: nobody sees to the release.                                     *)
FinishWithoutTimer(s, found) ==
  /\ Goto(s, "done")
  /\ answer' = [answer EXCEPT ![s] = IF found = None THEN {} ELSE found]
  /\ got' = [got EXCEPT ![s] = Nothing]
  /\ claimed' = FALSE
  /\ due' = FALSE

Unlock == lock' = Tail(lock)

(* The rest of search(), without an await: rank, end the claim, and if     *)
(* nobody else searches let a timer release the index.                     *)
Finish(s, found) ==
  /\ Goto(s, "done")
  /\ answer' = [answer EXCEPT ![s] = IF found = None THEN {} ELSE found]
  /\ got' = [got EXCEPT ![s] = Nothing]
  /\ claimed' = FALSE
  /\ due' = (InFlight \subseteq {s} /\ found # None)

Begin(s) ==
  /\ pc[s] = "claimed"
  /\ announced' = [announced EXCEPT ![s] = {chunk[d] : d \in {e \in Document : doc[e] = "indexed"}}]
  /\ IF Built
       THEN Finish(s, index) /\ UNCHANGED lock
       ELSE /\ Goto(s, "lock")
            /\ lock' = Append(lock, s)
            /\ due' = FALSE
            /\ UNCHANGED <<claimed, got, answer>>
  /\ UNCHANGED <<corpusVars, stored, indexVars, excused>>

(* The lock is ours; the search before may have built the index.           *)
Enter(s) ==
  /\ pc[s] = "lock"
  /\ lock # << >> /\ Head(lock) = s
  /\ IF Built
       THEN Finish(s, index) /\ Unlock
       ELSE Goto(s, "load") /\ UNCHANGED <<lock, claimed, due, got, answer>>
  /\ UNCHANGED <<corpusVars, stored, indexVars, announced, excused>>

(* One query for the fingerprint and the blob that has it; a blob that     *)
(* cannot be unpacked counts as none.                                      *)
LoadQuery(s) ==
  /\ pc[s] = "load"
  /\ Goto(s, "loaded")
  /\ \E usable \in BOOLEAN :
       got' = [got EXCEPT ![s] =
         [print  |-> Fingerprint(corpus),
          chunks |-> IF usable /\ stored # None /\ stored.print = Fingerprint(corpus)
                       THEN stored.chunks ELSE None]]
  /\ UNCHANGED <<corpusVars, stored, indexVars, claimed, due, lock, answer, announced, excused>>

LoadFails(s) ==
  /\ pc[s] = "load"
  /\ Goto(s, "loaded")
  /\ got' = [got EXCEPT ![s] = Nothing]
  /\ UNCHANGED <<corpusVars, stored, indexVars, claimed, due, lock, answer, announced, excused>>

LoadReturns(s) ==
  /\ pc[s] = "loaded"
  /\ pending' = got[s].print
  /\ IF got[s].chunks = None
       THEN /\ Goto(s, "fetch")
            /\ got' = [got EXCEPT ![s] = Nothing]
            /\ UNCHANGED <<index, needs_rebuild, claimed, due, lock, answer>>
       ELSE /\ index' = got[s].chunks
            /\ needs_rebuild' = FALSE
            /\ Finish(s, got[s].chunks) /\ Unlock
  /\ UNCHANGED <<corpusVars, stored, announced, excused>>

FetchQuery(s) ==
  /\ pc[s] = "fetch"
  /\ Goto(s, "fetched")
  /\ got' = [got EXCEPT ![s] = [print |-> None, chunks |-> corpus]]
  /\ UNCHANGED <<corpusVars, stored, indexVars, claimed, due, lock, answer, announced, excused>>

(* Mutant: the search fails and keeps the lock.                            *)
FetchFailsInside(s) ==
  /\ pc[s] = "fetch"
  /\ pc' = [pc EXCEPT ![s] = "done"]
  /\ excused' = excused \cup {s}
  /\ UNCHANGED <<corpusVars, stored, indexVars, claimed, due, lock, got, answer, announced>>

NothingBuilt(s) ==
  /\ index' = None
  /\ pending' = None
  /\ needs_rebuild' = FALSE
  /\ Finish(s, None) /\ Unlock
  /\ excused' = excused \cup {s}

FetchFails(s) ==
  /\ pc[s] = "fetch"
  /\ NothingBuilt(s)
  /\ UNCHANGED <<corpusVars, stored, announced>>

EmptyCorpus(s) ==
  /\ pc[s] = "fetched"
  /\ got[s].chunks = {}
  /\ NothingBuilt(s)
  /\ UNCHANGED <<corpusVars, stored, announced>>

(* The index is built and packed in one go, to be stored under the         *)
(* fingerprint that was read before the texts.                             *)
Build(s) ==
  /\ pc[s] = "fetched"
  /\ got[s].chunks # {}
  /\ index' = got[s].chunks
  /\ needs_rebuild' = FALSE
  /\ IF pending = None
       THEN Finish(s, got[s].chunks) /\ Unlock
       ELSE /\ Goto(s, "save")
            /\ got' = [got EXCEPT ![s].print = pending]
            /\ UNCHANGED <<claimed, due, lock, answer>>
  /\ UNCHANGED <<corpusVars, stored, pending, announced, excused>>

SaveQuery(s) ==
  /\ pc[s] = "save"
  /\ Goto(s, "saved")
  /\ stored' \in {stored, got[s]}
  /\ UNCHANGED <<corpusVars, indexVars, claimed, due, lock, got, answer, announced, excused>>

SaveReturns(s) ==
  /\ pc[s] = "saved"
  /\ Finish(s, index) /\ Unlock
  /\ UNCHANGED <<corpusVars, stored, indexVars, announced, excused>>

-----------------------------------------------------------------------------
Release ==
  /\ index' = None
  /\ needs_rebuild' = TRUE
  /\ pending' = None

(* The pause after the last search is over.                                *)
TimerFires ==
  /\ due
  /\ due' = FALSE
  /\ IF InFlight = {} /\ index # None /\ ~claimed THEN Release ELSE UNCHANGED indexVars
  /\ UNCHANGED <<corpusVars, stored, claimed, lock, searchVars, excused>>

(* Mutant: a search at work does not protect the index.                    *)
SweepAll ==
  /\ index # None /\ ~claimed
  /\ Release
  /\ UNCHANGED <<corpusVars, stored, claimed, due, lock, searchVars, excused>>

(* A request for another base releases what stood idle.                    *)
Sweep ==
  /\ InFlight = {} /\ index # None /\ ~claimed
  /\ Release
  /\ UNCHANGED <<corpusVars, stored, claimed, due, lock, searchVars, excused>>

Change(d) == Draw(d) \/ Insert(d) \/ Announce(d) \/ Rollback(d) \/ Remove(d)
               \/ MarkRemoved(d) \/ Redo(d)

Resume(s) == Begin(s) \/ Enter(s) \/ LoadQuery(s) \/ LoadFails(s) \/ LoadReturns(s)
               \/ FetchQuery(s) \/ FetchFails(s) \/ EmptyCorpus(s) \/ Build(s)
               \/ SaveQuery(s) \/ SaveReturns(s)

Next == \/ \E d \in Document : Change(d)
        \/ \E s \in Search : Claim(s) \/ VectorOnly(s) \/ Resume(s)
        \/ ClaimExpires \/ TimerFires \/ Sweep

(* Queries have a timeout, the event loop resumes what can go on, claims   *)
(* run out and timers fire.  Nothing makes requests or changes come, and   *)
(* nothing makes another base be searched.                                 *)
Fairness == /\ \A s \in Search : WF_vars(VectorOnly(s) \/ Resume(s))
            /\ WF_vars(ClaimExpires) /\ WF_vars(TimerFires)

Spec == Init /\ [][Next]_vars /\ Fairness

-----------------------------------------------------------------------------
(* A stored index that is taken for fresh lacks no chunk of the corpus,    *)
(* although its texts are read after its fingerprint.  It may hold chunks  *)
(* that were rolled back since.  It needs ids to become visible in order.  *)
NothingMissing ==
  (stored # None /\ stored.print = Fingerprint(corpus)) => corpus \subseteq stored.chunks

(* A search whose query did not fail and under which nothing was marked    *)
(* dirty finds something, and every document that was reported as indexed  *)
(* before it began, whatever was released, loaded or built in between      *)
(* (Bm25IndexCache, lines 394-395; mark_dirty, 171-188).  The documents    *)
(* whose mark comes between a query and its use are beyond this promise.   *)
FindsAnnounced ==
  \A s \in Search : (pc[s] = "done" /\ s \notin excused) =>
    /\ answer[s] # {}
    /\ \A d \in Document : (doc[d] = "indexed" /\ chunk[d] \in announced[s]) => chunk[d] \in answer[s]

(* Every search ends, failures inside the lock included.                   *)
SearchesEnd == \A s \in Search : pc[s] \in Inside ~> pc[s] = "done"

(* The memory of the index is returned once nobody searches (comment at    *)
(* 184-186), unless a request claimed it and never searched.               *)
MemoryReturned ==
  <>(\E s \in Search : pc[s] = "vector") \/ []<>(index = None)
=============================================================================
