------------------------------ MODULE LlamaPool ------------------------------
(***************************************************************************)
(* The pool of llama.cpp models of llm-svc                                 *)
(* (llm-svc/app/services/llama_handler.py and api/endpoints/chat.py).      *)
(* A task is one HTTP request: a streamed chat, a load, or the trim that   *)
(* follows a multi-model answer.  It runs atomically between awaits: the   *)
(* sections under _registry_lock hold none, and neither does               *)
(* _dispose_slot.  A replica is one Llama; a thread of the executor        *)
(* computes on it, and nobody can stop that thread.                        *)
(***************************************************************************)
EXTENDS Naturals, FiniteSets, Sequences, SequencesExt

CONSTANTS Task,        \* requests
          Model,       \* ids of models with a GGUF file
          Default,     \* settings.model.name
          AnyModel,    \* "abstract-model": whatever is loaded
          MaxLoaded,   \* LLM_MAX_LOADED_MODELS
          Replicas,    \* LLM_INFERENCE_REPLICAS
          None

Replica == [by : Task \cup {None}, of : Model, no : 1..Replicas]

ASSUME PoolAssumption ==
  /\ Default \in Model /\ AnyModel \notin Model /\ None \notin Model \cup Task \cup Replica
  /\ MaxLoaded \in Nat \ {0} /\ Replicas \in Nat \ {0}

(* The replicas t builds of m when n of them fit into memory.              *)
Built(t, m, n) == {[by |-> t, of |-> m, no |-> i] : i \in 1..n}

VARIABLES job,       \* job[t]: what the request asks for
          want,      \* want[t]: the model it names
          pc,        \* the await t is suspended at
          lru,       \* keys of _model_slots, least recently used first
          slots,     \* slots[m]: the replicas of m, {} if not loaded
          primary,   \* _primary_model_id
          switch,    \* _model_switch_lock: its holder or next holder, and the queue
          fresh,     \* fresh[t]: replicas t built and has not published
          target,    \* target[t]: slot_id of the chat
          holds,     \* holds[t]: the replica whose gen_lock t has, or never gave back
          thread,    \* thread[t]: the replica the thread t started computes on
          live       \* history: replicas built and not disposed of

poolVars == <<lru, slots, primary, live>>
chatVars == <<target, holds, thread>>
vars == <<job, want, pc, switch, fresh, poolVars, chatVars>>

PC == {"new", "first", "build", "failed", "restore", "publish", "trim",
       "trimBuild", "replica", "generate", "done", "refused"}

TypeOK ==
  /\ job \in [Task -> {"chat", "load", "trim"}]
  /\ want \in [Task -> Model \cup {AnyModel}]
  /\ pc \in [Task -> PC]
  /\ lru \in Seq(Model)
  /\ slots \in [Model -> SUBSET Replica]
  /\ primary \in Model \cup {None}
  /\ switch \in Seq(Task)
  /\ fresh \in [Task -> SUBSET Replica]
  /\ target \in [Task -> Model \cup {None}]
  /\ holds \in [Task -> Replica \cup {None}]
  /\ thread \in [Task -> Replica \cup {None}]
  /\ live \subseteq Replica

(* Earlier requests have loaded some models, the last of them is primary.  *)
Init ==
  /\ job \in [Task -> {"chat", "load", "trim"}]
  /\ want \in [Task -> Model \cup {AnyModel}]
  /\ \A t \in Task : want[t] = AnyModel => job[t] = "chat"
  /\ \A t \in Task : job[t] = "trim" => want[t] = Default
  /\ lru \in {q \in UNION {[1..n -> Model] : n \in 0..MaxLoaded} : IsInjective(q)}
  /\ slots = [m \in Model |-> IF m \in Range(lru) THEN Built(None, m, Replicas) ELSE {}]
  /\ primary = IF lru = << >> THEN None ELSE Last(lru)
  /\ live = UNION {slots[m] : m \in Model}
  /\ pc = [t \in Task |-> "new"]
  /\ switch = << >>
  /\ fresh = [t \in Task |-> {}]
  /\ target = [t \in Task |-> None]
  /\ holds = [t \in Task |-> None]
  /\ thread = [t \in Task |-> None]

-----------------------------------------------------------------------------
Loaded(m) == m \in Range(lru)
Goto(t, l) == pc' = [pc EXCEPT ![t] = l]
Queue(t, l) == Goto(t, l) /\ switch' = Append(switch, t)
HasSwitch(t) == switch # << >> /\ Head(switch) = t

Without(q, m) == RemoveAt(q, CHOOSE i \in DOMAIN q : q[i] = m)
Touch(q, m) == IF m \in Range(q) THEN Append(Without(q, m), m) ELSE q

(* A mutant: no second look at the bound before the insert.                *)
KeptAll(q, n) == q

(* What is left of the keys when the eldest give way until n remain.       *)
Kept(q, n) == IF Len(q) > n THEN SubSeq(q, Len(q) - n + 1, Len(q)) ELSE q
FirstOf(q) == IF q = << >> THEN None ELSE Head(q)

PrimaryAmong(q) == IF primary \in Range(q) THEN primary ELSE FirstOf(q)

(* The pool shrinks to the keys in q; who is not among them is disposed of.*)
Shrunk(q) == [m \in Model |-> IF m \in Range(q) THEN slots[m] ELSE {}]
Dropped(q) == UNION {slots[m] : m \in Model \ Range(q)}

(* _resolve_slot_id and _touch_lru, on the keys q: the chat has its model. *)
Resolved(t, q, p) ==
  LET m == IF want[t] # AnyModel THEN want[t] ELSE IF p \in Range(q) THEN p ELSE Head(q)
  IN /\ target' = [target EXCEPT ![t] = m]
     /\ lru' = Touch(q, m)
     /\ Goto(t, "replica")
     /\ UNCHANGED <<holds, thread>>

(* load_model_by_name returned True: the load is answered, the chat goes on.*)
LoadDone(t, q, p) ==
  IF job[t] = "chat" THEN Resolved(t, q, p)
                     ELSE lru' = q /\ Goto(t, "done") /\ UNCHANGED chatVars

-----------------------------------------------------------------------------
(* The chat endpoint: an empty pool is refused before anything is loaded   *)
(* (get_llama_service); a model that is not there is loaded on demand.     *)
ChatArrives(t) ==
  /\ pc[t] = "new" /\ job[t] = "chat"
  /\ \/ lru = << >> /\ Goto(t, "refused") /\ UNCHANGED <<lru, chatVars, switch>>
     \/ /\ lru # << >> /\ (want[t] = AnyModel \/ Loaded(want[t]))
        /\ Resolved(t, lru, primary)
        /\ UNCHANGED switch
     \/ /\ lru # << >> /\ want[t] # AnyModel /\ ~Loaded(want[t])
        /\ Queue(t, "first")
        /\ UNCHANGED <<lru, chatVars>>
  /\ UNCHANGED <<job, want, fresh, slots, primary, live>>

LoadArrives(t) ==
  /\ pc[t] = "new" /\ job[t] = "load"
  /\ Queue(t, "first")
  /\ UNCHANGED <<job, want, fresh, poolVars, chatVars>>

TrimArrives(t) ==
  /\ pc[t] = "new" /\ job[t] = "trim"
  /\ Queue(t, "trim")
  /\ UNCHANGED <<job, want, fresh, poolVars, chatVars>>

(* First section of load_model_by_name: the model is there, or one model   *)
(* makes room for it; then it is built without the lock.                   *)
AlreadyLoaded(t) ==
  /\ pc[t] = "first" /\ HasSwitch(t) /\ Loaded(want[t])
  /\ switch' = Tail(switch)
  /\ primary' = want[t]
  /\ LoadDone(t, Touch(lru, want[t]), want[t])
  /\ UNCHANGED <<job, want, fresh, slots, live>>

MakeRoom(t) ==
  /\ pc[t] = "first" /\ HasSwitch(t) /\ ~Loaded(want[t])
  /\ switch' = Tail(switch)
  /\ LET q == IF Len(lru) >= MaxLoaded THEN Tail(lru) ELSE lru IN
       /\ lru' = q
       /\ slots' = Shrunk(q)
       /\ primary' = PrimaryAmong(q)
       /\ live' = live \ Dropped(q)
  /\ Goto(t, "build")
  /\ UNCHANGED <<job, want, fresh, chatVars>>

(* At least one replica fits; building the first one may fail or time out. *)
BuildEnds(t) ==
  /\ pc[t] = "build"
  /\ \E n \in 1..Replicas :
       /\ fresh' = [fresh EXCEPT ![t] = Built(t, want[t], n)]
       /\ live' = live \cup Built(t, want[t], n)
  /\ Queue(t, "publish")
  /\ UNCHANGED <<job, want, lru, slots, primary, chatVars>>

BuildFails(t) ==
  /\ pc[t] = "build"
  /\ Queue(t, "failed")
  /\ UNCHANGED <<job, want, fresh, poolVars, chatVars>>

(* A mutant: nobody looks whether the model has come in the meantime.      *)
PublishOver(t) ==
  /\ pc[t] = "publish" /\ HasSwitch(t)
  /\ switch' = Tail(switch)
  /\ fresh' = [fresh EXCEPT ![t] = {}]
  /\ primary' = want[t]
  /\ LET q == IF Loaded(want[t]) THEN Touch(lru, want[t])
                                 ELSE Append(Kept(lru, MaxLoaded - 1), want[t]) IN
       /\ slots' = [Shrunk(q) EXCEPT ![want[t]] = fresh[t]]
       /\ live' = live \ Dropped(q)
       /\ LoadDone(t, q, want[t])
  /\ UNCHANGED <<job, want>>

(* Second section: another load was faster and the new replicas go, or     *)
(* they enter the pool and the eldest models leave until there is room.    *)
Publish(t) ==
  /\ pc[t] = "publish" /\ HasSwitch(t)
  /\ switch' = Tail(switch)
  /\ fresh' = [fresh EXCEPT ![t] = {}]
  /\ primary' = want[t]
  /\ IF Loaded(want[t])
       THEN /\ UNCHANGED slots
            /\ live' = live \ fresh[t]
            /\ LoadDone(t, Touch(lru, want[t]), want[t])
       ELSE LET q == Kept(lru, MaxLoaded - 1) IN
            /\ slots' = [Shrunk(q) EXCEPT ![want[t]] = fresh[t]]
            /\ live' = live \ Dropped(q)
            /\ LoadDone(t, Append(q, want[t]), want[t])
  /\ UNCHANGED <<job, want>>

LoadFailed(t) == Goto(t, IF job[t] = "chat" THEN "refused" ELSE "done")

(* A mutant: the early return of the restore forgets the lock.             *)
NothingToRestoreLocked(t) ==
  /\ pc[t] = "failed" /\ HasSwitch(t) /\ (want[t] = Default \/ Loaded(Default))
  /\ primary' = IF want[t] = Default THEN primary ELSE Default
  /\ LoadFailed(t)
  /\ UNCHANGED <<job, want, switch, fresh, lru, slots, live, chatVars>>

(* _restore_default_after_failed_load, under the switch lock: nothing to   *)
(* restore, or the default model is built while everybody waits.           *)
NothingToRestore(t) ==
  /\ pc[t] = "failed" /\ HasSwitch(t) /\ (want[t] = Default \/ Loaded(Default))
  /\ switch' = Tail(switch)
  /\ primary' = IF want[t] = Default THEN primary ELSE Default
  /\ LoadFailed(t)
  /\ UNCHANGED <<job, want, fresh, lru, slots, live, chatVars>>

BeginRestore(t) ==
  /\ pc[t] = "failed" /\ HasSwitch(t) /\ want[t] # Default /\ ~Loaded(Default)
  /\ Goto(t, "restore")
  /\ UNCHANGED <<job, want, switch, fresh, poolVars, chatVars>>

(* The default model enters the pool; nobody looks at MAX_LOADED_MODELS.   *)
InsertDefault(t) ==
  \E n \in 1..Replicas :
    /\ lru' = Append(lru, Default)
    /\ slots' = [slots EXCEPT ![Default] = Built(t, Default, n)]
    /\ live' = live \cup Built(t, Default, n)
    /\ primary' = Default

RestoreEnds(t) ==
  /\ pc[t] = "restore"
  /\ InsertDefault(t) \/ UNCHANGED poolVars
  /\ switch' = Tail(switch)
  /\ LoadFailed(t)
  /\ UNCHANGED <<job, want, fresh, chatVars>>

(* trim_pool_to_config_default holds the switch lock to its end.           *)
Trim(t) ==
  /\ pc[t] = "trim" /\ HasSwitch(t)
  /\ LET q == IF Loaded(Default) THEN <<Default>> ELSE << >> IN
       /\ lru' = q
       /\ slots' = Shrunk(q)
       /\ live' = live \ Dropped(q)
  /\ IF Loaded(Default)
       THEN primary' = Default /\ switch' = Tail(switch) /\ Goto(t, "done")
       ELSE UNCHANGED <<primary, switch>> /\ Goto(t, "trimBuild")
  /\ UNCHANGED <<job, want, fresh, chatVars>>

TrimEnds(t) ==
  /\ pc[t] = "trimBuild"
  /\ \/ InsertDefault(t)
     \/ primary' = FirstOf(lru) /\ UNCHANGED <<lru, slots, live>>
  /\ switch' = Tail(switch)
  /\ Goto(t, "done")
  /\ UNCHANGED <<job, want, fresh, chatVars>>

-----------------------------------------------------------------------------
Free(m) == {r \in slots[m] : \A u \in Task : holds[u] # r}

(* _acquire_replica polls; the lock it finds open it takes at once.        *)
Acquire(t) ==
  /\ pc[t] = "replica" /\ Free(target[t]) # {}
  /\ LET r == CHOOSE r \in Free(target[t]) : \A s \in Free(target[t]) : r.no <= s.no IN
       /\ holds' = [holds EXCEPT ![t] = r]
       /\ thread' = [thread EXCEPT ![t] = r]
  /\ Goto(t, "generate")
  /\ UNCHANGED <<job, want, switch, fresh, poolVars, target>>

ModelGone(t) ==
  /\ pc[t] = "replica" /\ ~Loaded(target[t])
  /\ Goto(t, "refused")
  /\ UNCHANGED <<job, want, switch, fresh, poolVars, chatVars>>

GenerationEnds(t) ==
  /\ pc[t] = "generate"
  /\ holds' = [holds EXCEPT ![t] = None]
  /\ thread' = [thread EXCEPT ![t] = None]
  /\ Goto(t, "done")
  /\ UNCHANGED <<job, want, switch, fresh, poolVars, target>>

(* The client of a stream goes away while the generator awaits: the        *)
(* cancellation releases the lock, the thread is still in next().          *)
Disconnect(t) ==
  /\ pc[t] \in {"replica", "generate"}
  /\ holds' = [holds EXCEPT ![t] = None]
  /\ Goto(t, "done")
  /\ UNCHANGED <<job, want, switch, fresh, poolVars, target, thread>>

(* The client goes away while the generator is suspended at a chunk: the   *)
(* inner finally yields once more, which ends the closing before the outer *)
(* finally is reached.  The lock stays taken.                              *)
DisconnectAtChunk(t) ==
  /\ pc[t] = "generate"
  /\ thread' = [thread EXCEPT ![t] = None]
  /\ Goto(t, "done")
  /\ UNCHANGED <<job, want, switch, fresh, poolVars, target, holds>>

ThreadEnds(t) ==
  /\ pc[t] = "done" /\ thread[t] # None
  /\ thread' = [thread EXCEPT ![t] = None]
  /\ UNCHANGED <<job, want, pc, switch, fresh, poolVars, target, holds>>

Arrive(t) == ChatArrives(t) \/ LoadArrives(t) \/ TrimArrives(t)
Load(t) == AlreadyLoaded(t) \/ MakeRoom(t) \/ BuildEnds(t) \/ BuildFails(t) \/ Publish(t)
             \/ NothingToRestore(t) \/ BeginRestore(t) \/ RestoreEnds(t)
Serve(t) == Load(t) \/ Trim(t) \/ TrimEnds(t) \/ Acquire(t) \/ ModelGone(t)
              \/ GenerationEnds(t)

Next == \E t \in Task : Arrive(t) \/ Serve(t) \/ Disconnect(t) \/ DisconnectAtChunk(t)
                          \/ ThreadEnds(t)

(* The event loop resumes what can go on; a build ends after               *)
(* LLM_MODEL_LOAD_TIMEOUT, a generation after max_tokens.                  *)
Fairness == \A t \in Task : WF_vars(Serve(t))

Spec == Init /\ [][Next]_vars /\ Fairness

-----------------------------------------------------------------------------
(* Over loads of one model at once, failures, evictions and trims each     *)
(* Llama that was built is in the pool, once, or in the hands of the load  *)
(* that will publish it: nothing that is out of reach keeps its memory     *)
(* (the lists dispose_after, victim_group and to_dispose).                 *)
NoReplicaLost ==
  /\ live = (UNION {slots[m] : m \in Model}) \cup (UNION {fresh[t] : t \in Task})
  /\ \A m \in Model : \A t \in Task : slots[m] \cap fresh[t] = {}

(* What is loaded has a key and replicas, and the primary model is one of  *)
(* them, except while a trim builds the default model anew.                *)
PrimaryLoaded ==
  /\ \A m \in Model : Loaded(m) <=> slots[m] # {}
  /\ IsInjective(lru)
  /\ (\A t \in Task : pc[t] # "trimBuild") =>
       IF lru = << >> THEN primary = None ELSE Loaded(primary)

(* The pool agrees with itself and with the memory that is taken.          *)
PoolConsistent == TypeOK /\ NoReplicaLost /\ PrimaryLoaded

(* The bound of the pool holds over loads that race for its last place;    *)
(* only a default model that was restored after a failed load is one too   *)
(* many (load_model_by_name 600-633, _restore_default 551-574).            *)
PoolBounded ==
  \/ Len(lru) <= MaxLoaded
  \/ /\ Len(lru) = MaxLoaded + 1
     /\ \E r \in slots[Default] : r.by # None /\ want[r.by] # Default

(* The lock of r is taken by a stream that was closed at a chunk.          *)
Abandoned(r) == \E t \in Task : holds[t] = r /\ pc[t] = "done"

(* Every replica of the model that t waits for was abandoned.              *)
Starved(t) ==
  /\ pc[t] = "replica"
  /\ slots[target[t]] # {}
  /\ \A r \in slots[target[t]] : Abandoned(r)

(* Nobody waits for ever: neither for the lock that a failed load and a    *)
(* trim hold while they build, nor for a replica, unless closed streams    *)
(* took every replica of the model away (finally at 491-494).              *)
RequestsEnd ==
  \A t \in Task : pc[t] # "new" ~> pc[t] \in {"done", "refused"} \/ Starved(t)

(* One thread at a time on one Llama (comment at 452-453).                 *)
OneThreadPerLlama ==
  \A t, u \in Task : (t # u /\ thread[t] # None) => thread[t] # thread[u]
=============================================================================
