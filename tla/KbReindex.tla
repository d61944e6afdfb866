----------------------------- MODULE KbReindex -----------------------------
(***************************************************************************)
(* What a reindexing job of the knowledge base does to the vectors         *)
(* (SVC-RAG/app/services/kb_service.py reindex_all and reindex_document,   *)
(* index_batching.py embed_and_store) under the queue of ReindexQueue.     *)
(* A run walks its documents; for each it deletes all vectors and stores   *)
(* the new ones wave by wave.  Every call to the model service or to       *)
(* PostgreSQL is an await of its own.                                      *)
(***************************************************************************)
EXTENDS ReindexQueue

CONSTANTS Doc,           \* documents of the knowledge base
          EntityDocs,    \* EntityDocs[e]: the documents reindexed for key e
          BaseDocs,      \* document lists of single knowledge bases, which
                         \* arrive without a key of their own
          MaxWaves,      \* largest number of waves one pass needs
          Dim,           \* embedding dimensions, each with a table of its own
          UploadDim,     \* the one the documents were uploaded with
          Restarts,      \* the process may be restarted
          NoDoc          \* not a document

ASSUME KbAssumption == /\ EntityDocs \in [Entity -> SUBSET Doc]
                       /\ BaseDocs \subseteq SUBSET Doc
                       /\ MaxWaves \in Nat \ {0}
                       /\ UploadDim \in Dim
                       /\ Restarts \in BOOLEAN
                       /\ NoDoc \notin Doc

VARIABLES docs,      \* docs[r]: documents of the request
          waves,     \* waves[r]: waves per document with the settings of r
          dim,       \* dim[r]: dimension of the model of r
          todo,      \* todo[r]: documents the loop has not reached
          cur,       \* cur[r]: the document in work
          stage,     \* stage[r]: the await of reindex_document it is at
          wave,      \* wave[r]: number of the next wave
          rows,      \* rows[d]: vectors of d, as <<run that wrote it, wave>>
          outcome,   \* outcome[d]: how the last pass over d ended, and whose
          asked,     \* history: runs in the order of their requests
          mixed      \* history: documents two passes had in hand at once, or
                     \* one that a restart cut off, until a pass that has the
                     \* document alone deletes its vectors

jobVars == <<docs, waves, dim, todo, cur, stage, wave, rows, outcome, asked, mixed>>
vars == <<queueVars, jobVars>>

TableOf(r) == IF r = NoRun THEN UploadDim ELSE dim[r]
Whole(r) == {<<r, i>> : i \in 1..(IF r = NoRun THEN 1 ELSE waves[r])}
Result == {"indexed", "failed", "lost"}

TypeOK ==
  /\ QueueTypeOK
  /\ docs \in [Run -> SUBSET Doc]
  /\ waves \in [Run -> 1..MaxWaves]
  /\ dim \in [Run -> Dim]
  /\ todo \in [Run -> SUBSET Doc]
  /\ cur \in [Run -> Doc \cup {NoDoc}]
  /\ stage \in [Run -> {"none", "failed", "delete", "embed", "rollback"}]
  /\ wave \in [Run -> 1..MaxWaves]
  /\ rows \in [Doc -> SUBSET ((Run \cup {NoRun}) \X (1..MaxWaves))]
  /\ outcome \in [Doc -> Result \X (Run \cup {NoRun})]
  /\ asked \in Seq(Run)
  /\ mixed \in SUBSET Doc

(* Every document was uploaded earlier: one wave, written by no run.       *)
Init ==
  /\ QueueInit
  /\ docs \in [Run -> SUBSET Doc]
  /\ \A r \in Run : docs[r] \in IF Exclusive(r) THEN {Doc} \cup BaseDocs
                                                ELSE {EntityDocs[key[r]]}
  /\ waves \in [Run -> 1..MaxWaves]
  /\ dim \in [Run -> Dim]
  /\ todo = docs
  /\ cur = [r \in Run |-> NoDoc]
  /\ stage = [r \in Run |-> "none"]
  /\ wave = [r \in Run |-> 1]
  /\ rows = [d \in Doc |-> {<<NoRun, 1>>}]
  /\ outcome = [d \in Doc |-> <<"indexed", NoRun>>]
  /\ asked = << >>
  /\ mixed = {}

-----------------------------------------------------------------------------
Ask(r) ==
  /\ Request(r)
  /\ asked' = Append(asked, r)
  /\ UNCHANGED <<docs, waves, dim, todo, cur, stage, wave, rows, outcome, mixed>>

Proceed(r) == (LockAcquired(r) \/ SlotAcquired(r)) /\ UNCHANGED jobVars

Alone(r, d) == \A s \in Run \ {r} : cur[s] # d

(* The loop of reindex_all: only between two documents does it look at the *)
(* generation.                                                             *)
PickDocument(r) ==
  /\ Running(r) /\ cur[r] = NoDoc
  /\ IsCurrent(r)
  /\ \E d \in todo[r] : /\ cur' = [cur EXCEPT ![r] = d]
                        /\ todo' = [todo EXCEPT ![r] = @ \ {d}]
                        /\ mixed' = IF Alone(r, d) THEN mixed ELSE mixed \cup {d}
  /\ stage' = [stage EXCEPT ![r] = "delete"]
  /\ UNCHANGED <<queueVars, docs, waves, dim, wave, rows, outcome, asked>>

EndPass(r, result) ==
  /\ outcome' = [outcome EXCEPT ![cur[r]] = <<result, r>>]
  /\ cur' = [cur EXCEPT ![r] = NoDoc]
  /\ stage' = [stage EXCEPT ![r] = "none"]

(* A mutant: only the table of the present dimension is cleared.           *)
DeleteOwnTable(r) ==
  /\ Running(r) /\ stage[r] = "delete"
  /\ rows' = [rows EXCEPT ![cur[r]] = {row \in @ : TableOf(row[1]) # dim[r]}]
  /\ stage' = [stage EXCEPT ![r] = "embed"]
  /\ wave' = [wave EXCEPT ![r] = 1]
  /\ mixed' = IF Alone(r, cur[r]) THEN mixed \ {cur[r]} ELSE mixed
  /\ UNCHANGED <<queueVars, docs, waves, dim, todo, cur, outcome, asked>>

(* All tables, whatever their dimension.                                   *)
DeleteOld(r) ==
  /\ Running(r) /\ stage[r] = "delete"
  /\ rows' = [rows EXCEPT ![cur[r]] = {}]
  /\ stage' = [stage EXCEPT ![r] = "embed"]
  /\ wave' = [wave EXCEPT ![r] = 1]
  /\ mixed' = IF Alone(r, cur[r]) THEN mixed \ {cur[r]} ELSE mixed
  /\ UNCHANGED <<queueVars, docs, waves, dim, todo, cur, outcome, asked>>

(* Reading the document or deleting failed: nothing was written.           *)
DeleteFails(r) ==
  /\ Running(r) /\ stage[r] = "delete"
  /\ EndPass(r, IF outcome[cur[r]][1] = "lost" THEN "lost" ELSE "failed")
  /\ UNCHANGED <<queueVars, docs, waves, dim, todo, wave, rows, asked, mixed>>

(* One wave is embedded and inserted; UNIQUE(document_id, chunk_index)     *)
(* refuses a wave that is in the table already.                            *)
StoreWave(r) ==
  /\ Running(r) /\ stage[r] = "embed"
  /\ \A row \in rows[cur[r]] : row[2] # wave[r] \/ TableOf(row[1]) # dim[r]
  /\ rows' = [rows EXCEPT ![cur[r]] = @ \cup {<<r, wave[r]>>}]
  /\ IF wave[r] < waves[r]
       THEN /\ wave' = [wave EXCEPT ![r] = @ + 1]
            /\ UNCHANGED <<cur, stage, outcome>>
       ELSE EndPass(r, "indexed") /\ UNCHANGED wave
  /\ UNCHANGED <<queueVars, docs, waves, dim, todo, asked, mixed>>

(* The embedding call or the insert raises (it must if the wave is there). *)
WaveFails(r) ==
  /\ Running(r) /\ stage[r] = "embed"
  /\ stage' = [stage EXCEPT ![r] = "rollback"]
  /\ UNCHANGED <<queueVars, docs, waves, dim, todo, cur, wave, rows, outcome, asked, mixed>>

(* A mutant: the handler only passes the error on.                         *)
NoRollback(r) ==
  /\ Running(r) /\ stage[r] = "rollback"
  /\ EndPass(r, "failed")
  /\ UNCHANGED <<queueVars, docs, waves, dim, todo, wave, rows, asked, mixed>>

(* The handler deletes the vectors of the document, all of them, and may   *)
(* fail to; reindex_all counts the error and goes on.                      *)
Rollback(r) ==
  /\ Running(r) /\ stage[r] = "rollback"
  /\ \/ rows' = [rows EXCEPT ![cur[r]] = {}] /\ EndPass(r, "failed")
     \/ UNCHANGED rows /\ EndPass(r, "lost")
  /\ UNCHANGED <<queueVars, docs, waves, dim, todo, wave, asked, mixed>>

(* A mutant: the loop only ends when the list is empty.                    *)
FinishWhenEmpty(r) ==
  /\ JobEnds(r)
  /\ cur[r] = NoDoc
  /\ todo[r] = {}
  /\ UNCHANGED jobVars

FinishJob(r) ==
  /\ JobEnds(r)
  /\ cur[r] = NoDoc
  /\ todo[r] = {} \/ ~IsCurrent(r)
  /\ UNCHANGED jobVars

(* Reading the list or resolving the model raises before the loop; run()   *)
(* logs it, and no document was touched.                                   *)
PassFails(r) ==
  /\ JobEnds(r)
  /\ cur[r] = NoDoc
  /\ todo[r] = docs[r]
  /\ stage' = [stage EXCEPT ![r] = "failed"]
  /\ UNCHANGED <<docs, waves, dim, todo, cur, wave, rows, outcome, asked, mixed>>

(* The process is restarted: the queue, its runs and its generations are   *)
(* gone, the vectors are not.  Requests are not made again by anyone.      *)
Restart ==
  /\ Restarts
  /\ \E r \in Run : pc[r] \in {"lock", "slot", "job"}
  /\ generations' = [k \in Key |-> 0]
  /\ active' = [k \in Key |-> NoRun]
  /\ value' = Limit /\ waiters' = << >> /\ granted' = {}
  /\ clusterLock' = NoRun /\ lockQueue' = << >>
  /\ taken' = [r \in Run |-> 0]
  /\ pc' = [r \in Run |-> IF pc[r] \in {"lock", "slot", "job"} THEN "cancelled" ELSE pc[r]]
  /\ cur' = [r \in Run |-> NoDoc]
  /\ stage' = [r \in Run |-> IF stage[r] = "failed" THEN "failed" ELSE "none"]
  /\ mixed' = mixed \cup (Range(cur) \cap Doc)
  /\ UNCHANGED <<key, generation, docs, waves, dim, todo, wave, rows, outcome, asked>>

Job(r) == PickDocument(r) \/ DeleteOld(r) \/ DeleteFails(r) \/ StoreWave(r)
            \/ WaveFails(r) \/ Rollback(r) \/ FinishJob(r)
            \/ PassFails(r)

Next == Restart \/ \E r \in Run : Ask(r) \/ Proceed(r) \/ Job(r)

Fairness == \A r \in Run : WF_vars(Proceed(r) \/ Job(r))

Spec == Init /\ [][Next]_vars /\ Fairness

-----------------------------------------------------------------------------
At(r) == CHOOSE i \in 1..Len(asked) : asked[i] = r
Later(s, r) == \E i \in 1..Len(asked) : asked[i] = s /\ i > At(r)
Idle(d) == \A r \in Run : cur[r] # d

(* Work a run gave up as outdated is in the hands of a later run that has  *)
(* tried it or will: nothing stays half rechunked because somebody else    *)
(* was started (module comment of reindex_queue.py, lines 4-10; 85).       *)
AbandonedIsRedone ==
  /\ TypeOK
  /\ \A r \in Run : (pc[r] \in {"done", "skipped"} /\ stage[r] # "failed") =>
       \A d \in todo[r] : \E s \in Run :
         /\ Later(s, r) /\ d \in docs[s]
         /\ d \notin todo[s] \/ stage[s] = "failed"
              \/ pc[s] \in {"lock", "slot", "job", "cancelled"}

(* Between passes a document has all vectors of one pass or none at all,   *)
(* unless the rollback itself failed (embed_and_store, lines 55-59).  One  *)
(* that two passes had at once, or a restart cut, is excepted until a pass *)
(* deletes its vectors and has it alone: the code does mix those.          *)
WholeOrNothing ==
  \A d \in Doc \ mixed : (Idle(d) /\ outcome[d][1] # "lost")
                   => rows[d] \in {{}} \cup {Whole(r) : r \in Run \cup {NoRun}}

(* A pass that was counted as done left the vectors of its settings and    *)
(* nothing older, until the next pass over the document begins; the same   *)
(* documents are excepted.                                                 *)
CountedIsIndexed ==
  \A d \in Doc \ mixed : (Idle(d) /\ outcome[d][1] = "indexed") => rows[d] = Whole(outcome[d][2])

(* Every accepted request comes to its end.                                *)
RequestsEnd ==
  \A r \in Run : pc[r] \in {"lock", "slot", "job"}
                   ~> pc[r] \in {"done", "skipped", "cancelled"}

=============================================================================
