---------------------------- MODULE ReindexQueue ----------------------------
(***************************************************************************)
(* The queue of background reindexing jobs of one store of SVC-RAG         *)
(* (SVC-RAG/app/services/reindex_queue.py and the endpoint that feeds it). *)
(* Every POST /reindex is one run, an asyncio task.  A run bumps the       *)
(* generation of its key, takes one slot of a semaphore (all of them for   *)
(* the cluster key) and executes its job.  What a job does is in KbReindex;*)
(* here it ends at any time.                                               *)
(***************************************************************************)
EXTENDS Naturals, FiniteSets, Sequences, SequencesExt

CONSTANTS Run,       \* requests to reindex
          Entity,    \* queue keys of agents, owners, projects
          GLOBAL,    \* GLOBAL_KEY: the key of a cluster run
          Limit,     \* RAG_REINDEX_MAX_PARALLEL
          NoRun      \* not a run

ASSUME QueueAssumption == /\ GLOBAL \notin Entity
                          /\ NoRun \notin Run
                          /\ Limit \in Nat \ {0}

Key == Entity \cup {GLOBAL}

VARIABLES generations,   \* _generations; 0 is a key that is not there
          active,        \* _active: the run a key is registered for
          value,         \* _slots._value
          waiters,       \* _slots._waiters, in order
          granted,       \* waiters whose future is done, not yet resumed
          clusterLock,   \* holder of _cluster_lock
          lockQueue,     \* runs waiting for it, in order
          taken,         \* taken[r]: slots run r holds
          pc,            \* where run r is suspended
          key,           \* key[r], generation[r]: arguments of run()
          generation

queueVars == <<generations, active, value, waiters, granted, clusterLock,
               lockQueue, taken, pc, key, generation>>

QueueTypeOK ==
  /\ generations \in [Key -> Nat]
  /\ active \in [Key -> Run \cup {NoRun}]
  /\ value \in 0..Limit
  /\ waiters \in Seq(Run)
  /\ granted \subseteq Run
  /\ clusterLock \in Run \cup {NoRun}
  /\ lockQueue \in Seq(Run)
  /\ taken \in [Run -> 0..Limit]
  /\ pc \in [Run -> {"new", "lock", "slot", "job", "done", "skipped", "cancelled"}]
  /\ key \in [Run -> Key]
  /\ generation \in [Run -> Nat]

QueueInit ==
  /\ generations = [k \in Key |-> 0]
  /\ active = [k \in Key |-> NoRun]
  /\ value = Limit
  /\ waiters = << >>
  /\ granted = {}
  /\ clusterLock = NoRun
  /\ lockQueue = << >>
  /\ taken = [r \in Run |-> 0]
  /\ pc = [r \in Run |-> "new"]
  /\ key \in [Run -> Key]
  /\ generation = [r \in Run |-> 0]

(* A mutant: run() no longer tells cluster runs from others.               *)
NeverExclusive(r) == FALSE
Exclusive(r) == key[r] = GLOBAL
IsCurrent(r) == generation[r] = generations[key[r]]

(* A mutant: a cluster run takes a slot like any other.                    *)
OneForAll(r) == 1
Needs(r) == IF Exclusive(r) THEN Limit ELSE 1

(* A mutant: one counter for the whole store, as it used to be.            *)
BumpEverybody(k) == [j \in Key |-> generations[j] + 1]

(* bump: a cluster run advances every key that is there, its own twice.    *)
Bumped(k) ==
  IF k = GLOBAL
    THEN [j \in Key |-> CASE generations[j] = 0 -> IF j = GLOBAL THEN 1 ELSE 0
                          [] OTHER -> generations[j] + (IF j = GLOBAL THEN 2 ELSE 1)]
    ELSE [generations EXCEPT ![k] = @ + 1]

-----------------------------------------------------------------------------
(* asyncio.Semaphore: a released slot goes straight to the first waiter    *)
(* that has none, and who finds waiters queues up behind them.             *)
Lower(a, b) == IF a < b THEN a ELSE b
Ahead(w, g, i) == {j \in 1..(i - 1) : w[j] \notin g}
Woken(w, g, n) ==
  {w[i] : i \in {j \in DOMAIN w : w[j] \notin g /\ Cardinality(Ahead(w, g, j)) < n}}

(* n slots are released while v are free and w waits, g of them granted.   *)
Release(n, v, w, g) ==
  LET woken == Woken(w, g, n) IN
    /\ waiters' = w
    /\ granted' = g \cup woken
    /\ value' = v + n - Cardinality(woken)

Leave(r, how) ==
  /\ pc' = [pc EXCEPT ![r] = how]
  /\ taken' = [taken EXCEPT ![r] = 0]
  /\ clusterLock' = IF clusterLock = r THEN NoRun ELSE clusterLock

(* run(), from the moment r has `have` slots: it takes what is free, then  *)
(* waits for the next slot, starts the job, or leaves because it is stale. *)
Take(r, have, current, v, w, g) ==
  LET n == IF w = << >> THEN Lower(v, Needs(r) - have) ELSE 0 IN
    CASE have + n < Needs(r) ->
           /\ pc' = [pc EXCEPT ![r] = "slot"]
           /\ taken' = [taken EXCEPT ![r] = have + n]
           /\ clusterLock' = IF Exclusive(r) THEN r ELSE clusterLock
           /\ value' = v - n
           /\ waiters' = Append(w, r)
           /\ granted' = g
           /\ UNCHANGED active
      [] have + n = Needs(r) /\ current ->
           /\ pc' = [pc EXCEPT ![r] = "job"]
           /\ taken' = [taken EXCEPT ![r] = have + n]
           /\ clusterLock' = IF Exclusive(r) THEN r ELSE clusterLock
           /\ value' = v - n
           /\ waiters' = w
           /\ granted' = g
           /\ active' = [active EXCEPT ![key[r]] = r]
      [] OTHER ->
           /\ Leave(r, "skipped")
           /\ Release(have, v, w, g)
           /\ UNCHANGED active

(* A mutant: cluster runs collect their slots without the lock.            *)
RequestWithoutLock(r) ==
  /\ pc[r] = "new"
  /\ generations' = Bumped(key[r])
  /\ generation' = [generation EXCEPT ![r] = generations'[key[r]]]
  /\ Take(r, 0, TRUE, value, waiters, granted)
  /\ UNCHANGED <<lockQueue, key>>

(* The background task of a POST: bump, then run() up to its first wait.   *)
Request(r) ==
  /\ pc[r] = "new"
  /\ generations' = Bumped(key[r])
  /\ generation' = [generation EXCEPT ![r] = generations'[key[r]]]
  /\ UNCHANGED key
  /\ IF Exclusive(r) /\ (clusterLock # NoRun \/ lockQueue # << >>)
       THEN /\ lockQueue' = Append(lockQueue, r)
            /\ pc' = [pc EXCEPT ![r] = "lock"]
            /\ UNCHANGED <<active, value, waiters, granted, clusterLock, taken>>
       ELSE /\ Take(r, 0, TRUE, value, waiters, granted)
            /\ UNCHANGED lockQueue

LockAcquired(r) ==
  /\ pc[r] = "lock"
  /\ clusterLock = NoRun
  /\ lockQueue # << >> /\ Head(lockQueue) = r
  /\ lockQueue' = Tail(lockQueue)
  /\ Take(r, 0, IsCurrent(r), value, waiters, granted)
  /\ UNCHANGED <<generations, key, generation>>

(* acquire() of a granted slot returns; it passes on a slot that is free.  *)
SlotAcquired(r) ==
  /\ pc[r] = "slot"
  /\ r \in granted
  /\ LET w == RemoveFirst(waiters, r)
         g == granted \ {r}
         woken == Woken(w, g, Lower(value, 1))
     IN Take(r, taken[r] + 1, IsCurrent(r), value - Cardinality(woken), w, g \cup woken)
  /\ UNCHANGED <<generations, lockQueue, key, generation>>

(* The job returned or raised; both leave through the same finally.        *)
JobEnds(r) ==
  /\ pc[r] = "job"
  /\ active' = [active EXCEPT ![key[r]] = NoRun]
  /\ Release(taken[r], value, waiters, granted)
  /\ Leave(r, "done")
  /\ UNCHANGED <<generations, lockQueue, key, generation>>

(* A mutant: cancelled in the middle, a cluster run keeps what it took.    *)
CancelKeepsSlots(r) ==
  /\ pc[r] \in {"lock", "slot", "job"}
  /\ lockQueue' = RemoveFirst(lockQueue, r)
  /\ active' = IF pc[r] = "job" THEN [active EXCEPT ![key[r]] = NoRun] ELSE active
  /\ Release(IF r \in granted THEN 1 ELSE 0, value, RemoveFirst(waiters, r), granted \ {r})
  /\ Leave(r, "cancelled")
  /\ UNCHANGED <<generations, key, generation>>

(* The task is cancelled wherever it waits: a slot that was just granted,  *)
(* the slots taken so far and the lock all come back.                      *)
Cancel(r) ==
  /\ pc[r] \in {"lock", "slot", "job"}
  /\ lockQueue' = RemoveFirst(lockQueue, r)
  /\ active' = IF pc[r] = "job" THEN [active EXCEPT ![key[r]] = NoRun] ELSE active
  /\ Release(taken[r] + (IF r \in granted THEN 1 ELSE 0), value,
             RemoveFirst(waiters, r), granted \ {r})
  /\ Leave(r, "cancelled")
  /\ UNCHANGED <<generations, key, generation>>

QueueNext ==
  \E r \in Run : \/ Request(r) \/ LockAcquired(r) \/ SlotAcquired(r)
                 \/ JobEnds(r) \/ Cancel(r)

(* The event loop resumes what can go on, and a job ends: every call it    *)
(* makes to the model service and to PostgreSQL has a timeout.             *)
QueueFairness ==
  \A r \in Run : WF_queueVars(LockAcquired(r) \/ SlotAcquired(r) \/ JobEnds(r))

QueueSpec == QueueInit /\ [][QueueNext]_queueVars /\ QueueFairness

-----------------------------------------------------------------------------
Running(r) == pc[r] = "job"
Held == {h \in Run \X (1..Limit) : h[2] <= taken[h[1]]}

(* Every slot is free, granted to a waiter or held by a run: none is lost  *)
(* or doubled over waits, hand-offs, cancellations and cluster runs.       *)
SlotsConserved ==
  /\ QueueTypeOK
  /\ value + Cardinality(granted) + Cardinality(Held) = Limit

(* A cluster run works alone (module comment, lines 14-15).                *)
ClusterAlone ==
  \A r, s \in Run : (Running(r) /\ key[r] = GLOBAL /\ r # s) => ~Running(s)

(* cluster_running(), which the search endpoint turns into a refusal, is   *)
(* true exactly while a cluster job works (reindex_queue.py 165-167).      *)
ClusterFlagTrue ==
  (active[GLOBAL] # NoRun) <=> (\E r \in Run : Running(r) /\ key[r] = GLOBAL)

(* Nobody waits for ever: two cluster runs do not split the slots between  *)
(* them (comment at 71-73), and a stale run leaves.                        *)
RunsEnd ==
  \A r \in Run : pc[r] \in {"lock", "slot", "job"}
                   ~> pc[r] \in {"done", "skipped", "cancelled"}
=============================================================================
