--------------------------- MODULE ChatGeneration ---------------------------
(***************************************************************************)
(* One chat_message, from the socket event to the saved answer, for the    *)
(* single-model, agent, coding, agent-chain and media branches             *)
(* (backend/realtime/handlers.py, backend/agents/chain/runner.py); what    *)
(* the multi-model branch does after the entry is in MultiLlm.             *)
(* Every await of the code is a value of pc; between two of them the code  *)
(* runs atomically on the event loop.  Stop, disconnects and the other     *)
(* generations interleave at the awaits.                                   *)
(***************************************************************************)
EXTENDS GenerationNumbers, Sequences, FiniteSets

CONSTANTS Modes,     \* the branches a request may take in this instance
          ChainLen   \* number of agents in a chain (more than one)

AllModes == {"direct", "agent", "coding", "chain", "media", "multi"}

ASSUME ChatAssumption == Modes \subseteq AllModes /\ ChainLen \in Nat \ {0, 1}

VARIABLES pc,         \* the await the task is suspended at
          mode,       \* the branch of the request
          regen,      \* regenerate: the question is already stored
          step,       \* number of chain steps answered so far
          shown,      \* content has been shown to the user by the stream
          resp,       \* what the model call returned
          userSaved,  \* the question is in the conversation store
          answer,     \* the kind of answer about to be stored
          saved,      \* the kind of answer stored
          terminal,   \* terminal events the task itself has emitted
          stopHit     \* history: did the first Stop that hit the task come in time

chatVars == <<pc, mode, regen, step, shown, resp, userSaved, answer, saved, terminal, stopHit>>
vars == <<numVars, chatVars>>

PC == {"idle", "auth", "owner", "prepare", "store", "media", "mediaSave",
       "chainHead", "gate", "retrieve", "agent", "coding", "llm", "polish",
       "stopSave", "finish", "stepReturn", "chainFlush", "saving", "done",
       "multi", "models", "multiSave"}   \* the last three belong to MultiLlm
Event == {"chat_complete", "chat_error", "generation_stopped"}
Answer == {"none", "full", "wait", "error", "stopped"}

TypeOK ==
  /\ NumTypeOK
  /\ pc \in [Gen -> PC]
  /\ mode \in [Gen -> AllModes]
  /\ regen \in [Gen -> BOOLEAN]
  /\ step \in [Gen -> 0..ChainLen]
  /\ shown \in [Gen -> BOOLEAN]
  /\ resp \in [Gen -> {"none", "text", "outage", "empty"}]
  /\ userSaved \in [Gen -> BOOLEAN]
  /\ answer \in [Gen -> Answer]
  /\ saved \in [Gen -> Answer \cup {"lost"}]
  /\ terminal \in [Gen -> Seq(Event)]
  /\ stopHit \in [Gen -> {"no", "early", "late"}]

Init ==
  /\ NumInit
  /\ pc = [g \in Gen |-> "idle"]
  /\ mode \in [Gen -> Modes]
  /\ regen \in [Gen -> BOOLEAN]
  /\ step = [g \in Gen |-> 0]
  /\ shown = [g \in Gen |-> FALSE]
  /\ resp = [g \in Gen |-> "none"]
  /\ userSaved = [g \in Gen |-> FALSE]
  /\ answer = [g \in Gen |-> "none"]
  /\ saved = [g \in Gen |-> "none"]
  /\ terminal = [g \in Gen |-> << >>]
  /\ stopHit = [g \in Gen |-> "no"]

Live(g) == my[g] # 0 /\ pc[g] # "done"
SavesItself(g) == mode[g] # "chain"   \* save_response; the chain runner passes False

(* Awaits that follow the last look at the stop, per branch: the flush and *)
(* title reads before chat_complete, then the save.                        *)
PastLastLook(g) == CASE mode[g] = "chain" -> {"chainFlush", "saving"}
                     [] mode[g] = "media" -> {"mediaSave"}
                     [] OTHER -> {"finish", "saving"}

Goto(g, l) == pc' = [pc EXCEPT ![g] = l]
Emit(g, e) == terminal' = [terminal EXCEPT ![g] = Append(@, e)]
Finish(g, e) == Goto(g, "done") /\ Emit(g, e)

-----------------------------------------------------------------------------
(* Socket events.                                                          *)
ChatConnect(s) == Connect(s) /\ UNCHANGED chatVars

ChatDisconnect(s) == Disconnect(s) /\ UNCHANGED chatVars

ChatStop(s) ==
  /\ StopGeneration(s)
  /\ stopHit' = [g \in Gen |-> IF Live(g) /\ socket[g] = s /\ stopHit[g] = "no"
                                 THEN IF pc[g] \in PastLastLook(g) THEN "late" ELSE "early"
                                 ELSE stopHit[g]]
  /\ UNCHANGED <<pc, mode, regen, step, shown, resp, userSaved, answer, saved, terminal>>

ChatReceive(g, s) ==
  /\ Receive(g, s)
  /\ Goto(g, "auth")
  /\ UNCHANGED <<mode, regen, step, shown, resp, userSaved, answer, saved, terminal, stopHit>>

(* The session is gone: chat_error, then the server drops the socket.      *)
RejectUnauthorized(g) ==
  /\ pc[g] = "auth"
  /\ Finish(g, "chat_error")
  /\ IF conn[socket[g]] = "open" THEN Disconnect(socket[g]) ELSE UNCHANGED numVars
  /\ UNCHANGED <<mode, regen, step, shown, resp, userSaved, answer, saved, stopHit>>

Authorize(g) ==
  /\ pc[g] = "auth"
  /\ BeginGeneration(g)
  /\ Goto(g, "owner")
  /\ UNCHANGED <<mode, regen, step, shown, resp, userSaved, answer, saved, terminal, stopHit>>

(* verify_conversation_owner answered no.                                  *)
DenyForeignConversation(g) ==
  /\ pc[g] = "owner"
  /\ Finish(g, "chat_error")
  /\ UNCHANGED <<numVars, mode, regen, step, shown, resp, userSaved, answer, saved, stopHit>>

OwnConversation(g) ==
  /\ pc[g] = "owner"
  /\ Goto(g, "prepare")
  /\ UNCHANGED <<numVars, mode, regen, step, shown, resp, userSaved, answer, saved, terminal, stopHit>>

Branch(g) == CASE mode[g] = "media" -> "media"
               [] mode[g] = "chain" -> "chainHead"
               [] mode[g] = "multi" -> "multi"
               [] OTHER -> "gate"

(* Profile, settings and history are loaded; a regenerate stores nothing.  *)
Prepare(g) ==
  /\ pc[g] = "prepare"
  /\ Goto(g, IF regen[g] THEN Branch(g) ELSE "store")
  /\ UNCHANGED <<numVars, mode, regen, step, shown, resp, userSaved, answer, saved, terminal, stopHit>>

StoreQuestion(g) ==
  /\ pc[g] = "store"
  /\ userSaved' = [userSaved EXCEPT ![g] = TRUE]
  /\ Goto(g, Branch(g))
  /\ UNCHANGED <<numVars, mode, regen, step, shown, resp, answer, saved, terminal, stopHit>>

(* Any exception that reaches chat_message, MongoDB being away included.   *)
(* ask_agent turns every failure after the first token into a string, so   *)
(* the model call only raises before content is shown.                     *)
Fail(g) ==
  /\ \/ pc[g] \in {"owner", "prepare", "store", "media", "chainHead", "gate", "retrieve", "polish"}
     \/ pc[g] = "llm" /\ ~shown[g]
  /\ Finish(g, "chat_error")
  /\ UNCHANGED <<numVars, mode, regen, step, shown, resp, userSaved, answer, saved, stopHit>>

-----------------------------------------------------------------------------
(* Media: the picture is saved, then announced; an error the other way.    *)
(* Neither path asks whether the generation was stopped.                   *)
MediaReady(g) ==
  /\ pc[g] = "media"
  /\ Goto(g, "mediaSave")
  /\ answer' = [answer EXCEPT ![g] = "full"]
  /\ UNCHANGED <<numVars, mode, regen, step, shown, resp, userSaved, saved, terminal, stopHit>>

MediaError(g) ==
  /\ pc[g] = "media"
  /\ Goto(g, "saving")
  /\ Emit(g, "chat_complete")
  /\ answer' = [answer EXCEPT ![g] = "error"]
  /\ UNCHANGED <<numVars, mode, regen, step, shown, resp, userSaved, saved, stopHit>>

MediaSave(g) ==
  /\ pc[g] = "mediaSave"
  /\ \E r \in {answer[g], "lost"} : saved' = [saved EXCEPT ![g] = r]
  /\ Finish(g, "chat_complete")
  /\ UNCHANGED <<numVars, mode, regen, step, shown, resp, userSaved, answer, stopHit>>

-----------------------------------------------------------------------------
(* The runner's loop head, before the first agent of a chain.              *)
ChainHead(g) ==
  /\ pc[g] = "chainHead"
  /\ IF Stopped(g) THEN Finish(g, "generation_stopped")
                   ELSE Goto(g, "gate") /\ UNCHANGED terminal
  /\ UNCHANGED <<numVars, mode, regen, step, shown, resp, userSaved, answer, saved, stopHit>>

(* Mutant: a chain step keeps the "wait" answer to itself.                 *)
GateBlocksSilently(g) ==
  /\ pc[g] = "gate"
  /\ Goto(g, "saving")
  /\ IF SavesItself(g) THEN Emit(g, "chat_complete") ELSE UNCHANGED terminal
  /\ answer' = [answer EXCEPT ![g] = "wait"]
  /\ UNCHANGED <<numVars, mode, regen, step, shown, resp, userSaved, saved, stopHit>>

(* A reindex covers the active sources: "wait" is both shown and saved.    *)
GateBlocked(g) ==
  /\ pc[g] = "gate"
  /\ Goto(g, "saving")
  /\ Emit(g, "chat_complete")
  /\ answer' = [answer EXCEPT ![g] = "wait"]
  /\ UNCHANGED <<numVars, mode, regen, step, shown, resp, userSaved, saved, stopHit>>

GateOpen(g) ==
  /\ pc[g] = "gate"
  /\ Goto(g, "retrieve")
  /\ shown' = [shown EXCEPT ![g] = FALSE]
  /\ resp' = [resp EXCEPT ![g] = "none"]
  /\ UNCHANGED <<numVars, mode, regen, step, userSaved, answer, saved, terminal, stopHit>>

(* RAG, plugins and required subagents; a canned text skips the model.     *)
Retrieve(g) ==
  /\ pc[g] = "retrieve"
  /\ \/ /\ resp' = [resp EXCEPT ![g] = "text"]
        /\ Goto(g, "polish")
     \/ /\ UNCHANGED resp
        /\ \E next \in CASE mode[g] = "agent" -> {"agent"}
                         [] mode[g] = "coding" -> {"coding"}
                         [] mode[g] = "chain" -> {"agent", "llm"}
                         [] OTHER -> {"llm"} : Goto(g, next)
  /\ UNCHANGED <<numVars, mode, regen, step, shown, userSaved, answer, saved, terminal, stopHit>>

(* Mutant: the stop is announced but the handler goes on.                  *)
AgentStoppedGoesOn(g) ==
  /\ pc[g] = "agent"
  /\ Stopped(g)
  /\ Emit(g, "generation_stopped")
  /\ Goto(g, "polish")
  /\ UNCHANGED <<numVars, mode, regen, step, shown, resp, userSaved, answer, saved, stopHit>>

(* The tool loop is back.  A stop drops its answer, nothing is saved; no   *)
(* result and a swallowed exception both fall through to a plain call.     *)
AgentStopped(g) ==
  /\ pc[g] = "agent"
  /\ Stopped(g)
  /\ Finish(g, "generation_stopped")
  /\ UNCHANGED <<numVars, mode, regen, step, shown, resp, userSaved, answer, saved, stopHit>>

AgentAnswers(g) ==
  /\ pc[g] = "agent"
  /\ ~Stopped(g)
  /\ resp' = [resp EXCEPT ![g] = "text"]
  /\ Goto(g, "polish")
  /\ UNCHANGED <<numVars, mode, regen, step, shown, userSaved, answer, saved, terminal, stopHit>>

(* The coding loop is given no way to see a stop.                          *)
CodingAnswers(g) ==
  /\ pc[g] = "coding"
  /\ resp' = [resp EXCEPT ![g] = "text"]
  /\ Goto(g, "polish")
  /\ UNCHANGED <<numVars, mode, regen, step, shown, userSaved, answer, saved, terminal, stopHit>>

ToolLoopFallsThrough(g) ==
  /\ pc[g] \in {"agent", "coding"}
  /\ Goto(g, "llm")
  /\ UNCHANGED <<numVars, mode, regen, step, shown, resp, userSaved, answer, saved, terminal, stopHit>>

(* The executor thread shows content unless its callback sees the stop.    *)
Produce(g) ==
  /\ pc[g] = "llm"
  /\ ~Stopped(g)
  /\ ~shown[g]
  /\ shown' = [shown EXCEPT ![g] = TRUE]
  /\ UNCHANGED <<numVars, pc, mode, regen, step, resp, userSaved, answer, saved, terminal, stopHit>>

(* Mutant: a stopped stream waits for the next token for ever.             *)
LlmReturnsUnlessStopped(g) ==
  /\ pc[g] = "llm"
  /\ ~Stopped(g)
  /\ resp' = [resp EXCEPT ![g] = "text"]
  /\ Goto(g, "polish")
  /\ UNCHANGED <<numVars, mode, regen, step, shown, userSaved, answer, saved, terminal, stopHit>>

(* ask_agent returns: the accumulated text, a text about the outage in its *)
(* place (also when the stop came before the first token), or nothing.     *)
LlmReturns(g) ==
  /\ pc[g] = "llm"
  /\ \E r \in {"text", "outage"} \cup (IF shown[g] THEN {} ELSE {"empty"}) :
       resp' = [resp EXCEPT ![g] = r]
  /\ Goto(g, IF Stopped(g) THEN "stopSave" ELSE "polish")
  /\ UNCHANGED <<numVars, mode, regen, step, shown, userSaved, answer, saved, terminal, stopHit>>

(* Mutant: nobody looks at the stop after the groundedness check.          *)
PolishWithoutLook(g) ==
  /\ pc[g] = "polish"
  /\ Goto(g, "finish")
  /\ UNCHANGED <<numVars, mode, regen, step, shown, resp, userSaved, answer, saved, terminal, stopHit>>

(* After the groundedness check: the last look at the stop.                *)
Polish(g) ==
  /\ pc[g] = "polish"
  /\ Goto(g, IF Stopped(g) THEN "stopSave" ELSE "finish")
  /\ UNCHANGED <<numVars, mode, regen, step, shown, resp, userSaved, answer, saved, terminal, stopHit>>

(* Mutant: the stopped branch returns before it saves.                     *)
DropStopped(g) ==
  /\ pc[g] = "stopSave"
  /\ Finish(g, "generation_stopped")
  /\ UNCHANGED <<numVars, mode, regen, step, shown, resp, userSaved, answer, saved, stopHit>>

SaveStopped(g) ==
  /\ pc[g] = "stopSave"
  /\ IF resp[g] # "empty" /\ SavesItself(g)
       THEN \E r \in {"stopped", "lost"} : saved' = [saved EXCEPT ![g] = r]
       ELSE UNCHANGED saved
  /\ Finish(g, "generation_stopped")
  /\ UNCHANGED <<numVars, mode, regen, step, shown, resp, userSaved, answer, stopHit>>

(* The stream is flushed, the title read, and the answer announced; a step *)
(* of a chain announces nothing.                                           *)
Complete(g) ==
  /\ pc[g] = "finish"
  /\ IF SavesItself(g)
       THEN /\ Goto(g, "saving")
            /\ Emit(g, "chat_complete")
            /\ answer' = [answer EXCEPT ![g] = "full"]
       ELSE /\ Goto(g, "stepReturn")
            /\ UNCHANGED <<terminal, answer>>
  /\ UNCHANGED <<numVars, mode, regen, step, shown, resp, userSaved, saved, stopHit>>

(* Back in the runner: a stop ends the chain without an event of its own.  *)
StepReturn(g) ==
  /\ pc[g] = "stepReturn"
  /\ IF Stopped(g)
       THEN Goto(g, "done") /\ UNCHANGED step
       ELSE /\ step' = [step EXCEPT ![g] = @ + 1]
            /\ Goto(g, IF step[g] + 1 < ChainLen THEN "gate" ELSE "chainFlush")
  /\ UNCHANGED <<numVars, mode, regen, shown, resp, userSaved, answer, saved, terminal, stopHit>>

ChainComplete(g) ==
  /\ pc[g] = "chainFlush"
  /\ Goto(g, "saving")
  /\ Emit(g, "chat_complete")
  /\ answer' = [answer EXCEPT ![g] = "full"]
  /\ UNCHANGED <<numVars, mode, regen, step, shown, resp, userSaved, saved, stopHit>>

(* The answer is stored after it was announced; a failure is only logged.  *)
SaveAnswer(g) ==
  /\ pc[g] = "saving"
  /\ \E r \in {answer[g], "lost"} : saved' = [saved EXCEPT ![g] = r]
  /\ Goto(g, "done")
  /\ UNCHANGED <<numVars, mode, regen, step, shown, resp, userSaved, answer, terminal, stopHit>>

-----------------------------------------------------------------------------
Entry(g) == RejectUnauthorized(g) \/ Authorize(g) \/ DenyForeignConversation(g)
              \/ OwnConversation(g) \/ Prepare(g) \/ StoreQuestion(g) \/ Fail(g)
Media(g) == MediaReady(g) \/ MediaError(g) \/ MediaSave(g)
Direct(g) == GateBlocked(g) \/ GateOpen(g) \/ Retrieve(g) \/ AgentStopped(g)
               \/ AgentAnswers(g) \/ CodingAnswers(g) \/ ToolLoopFallsThrough(g)
               \/ Produce(g) \/ LlmReturns(g) \/ Polish(g) \/ SaveStopped(g) \/ Complete(g)
Chain(g) == ChainHead(g) \/ StepReturn(g) \/ ChainComplete(g)
Task(g) == Entry(g) \/ Media(g) \/ Direct(g) \/ Chain(g) \/ SaveAnswer(g)

SocketEvent(s) == ChatConnect(s) \/ ChatDisconnect(s) \/ ChatStop(s)
                    \/ \E g \in Gen : ChatReceive(g, s)

Next == (\E s \in Sid : SocketEvent(s)) \/ (\E g \in Gen : Task(g))

(* Suspended in a tool loop, its own or that of a required subagent.  An   *)
(* MCP call there has no timeout, so this await need not end.              *)
AwaitsTool(g) == pc[g] \in {"retrieve", "agent", "coding"}

(* The event loop resumes a task whose await is over.  Assumed: all awaits *)
(* but those end; the HTTP calls of models, plugins and media carry        *)
(* timeouts, the database answers.                                         *)
Fairness == \A g \in Gen : WF_vars(~AwaitsTool(g) /\ Task(g))

Spec == Init /\ [][Next]_vars /\ Fairness

-----------------------------------------------------------------------------
Answered(g) == answer[g] = "full" /\ terminal[g] = <<"chat_complete">>

(* A running generation counts as stopped only if Stop was pressed on its  *)
(* socket after it began: an earlier press never reaches a later request   *)
(* (stop_generation, handlers.py 1041-1043).                               *)
StopScope == \A g \in Gen : Live(g) /\ Stopped(g) => stopHit[g] # "no"

(* On a live socket a stopped generation delivers its answer only if the   *)
(* press came after the last look at the stop; earlier presses always win. *)
(* Media requests are excepted: their handlers never look (750-855).       *)
HonoursStop ==
  \A g \in Gen : (Answered(g) /\ conn[socket[g]] = "open" /\ mode[g] # "media")
                    => stopHit[g] # "early"

(* No request, its own or another's, takes a stop back while the socket is *)
(* connected: the bug the generation numbers were introduced for           *)
(* (_generation_stopped, handlers.py 472-484).                             *)
StopHolds ==
  [][\A g \in Gen : Stopped(g) => (Stopped(g)' \/ conn'[socket[g]] = "closed")]_vars

(* A generation announces its end at most once, over all its branches,     *)
(* early returns, save failures and stops.                                 *)
OneTerminalEvent == \A g \in Gen : Len(terminal[g]) <= 1

(* The client is never left waiting: a task that ended without an event of *)
(* its own was stopped, and stop_generation has answered the client.       *)
NeverSilent ==
  \A g \in Gen : (pc[g] = "done" /\ terminal[g] = << >>) => stopHit[g] # "no"

(* An answer is stored only under a stored question, or as a regenerate of *)
(* one (chat_message saves the question before any branch, 1470-1497).     *)
AnswerAfterQuestion ==
  \A g \in Gen : saved[g] # "none" => userSaved[g] \/ regen[g]

(* Text the user has seen outlives a stop: outside chains, a stopped       *)
(* generation that showed content has tried to save it (3478-3497).        *)
StopKeepsShownText ==
  \A g \in Gen : (terminal[g] = <<"generation_stopped">> /\ shown[g] /\ SavesItself(g))
                   => saved[g] \in {"stopped", "lost"}
=============================================================================
