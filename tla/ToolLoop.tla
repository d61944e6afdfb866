------------------------------ MODULE ToolLoop ------------------------------
(***************************************************************************)
(* One run of the agent's tool loop (backend/mcp/agent_loop.py, native     *)
(* tool calls; backend/mcp/prompt_fc_handler.py, calls as JSON text) and   *)
(* the calls of a step (backend/agents/subagents/parallel.py).  Each call  *)
(* opens a card in the user's interface and should close it.  Stop is a    *)
(* function the native loop asks; the other loop is never given it.        *)
(***************************************************************************)
EXTENDS Naturals, Sequences, FiniteSets

CONSTANTS Limit,         \* max_iterations of the run
          PromptLimit,   \* default of the JSON loop, used after a failed model call
          MaxCalls,      \* bound: calls in one step
          Parallel       \* SUBAGENT_PARALLEL

ASSUME LoopAssumption == {Limit, PromptLimit, MaxCalls, Parallel} \subseteq Nat \ {0}

VARIABLES pc, mode,
          limit, step,   \* steps allowed and steps done in this mode
          ran,           \* tool_calls_executed > 0 in this mode
          nudged,        \* the one reminder of the JSON loop has been given
          batch,         \* kinds of the calls of the step
          call,          \* call[i]: where the i-th call is
          card,          \* card[i]: its card in the interface
          stopped,       \* should_stop()
          left,          \* history: <<mode, kind>> of calls answered with an open card
          late           \* history: <<mode, what>> begun after the stop

loopVars == <<mode, limit, step, ran, nudged>>
callVars == <<batch, call, card>>
vars == <<pc, loopVars, callVars, stopped, left, late>>

(* A tool that is not in the list, one whose server gave no session, one   *)
(* that can be called (native or MCP), and a subagent.                     *)
Kind == {"unknown", "gone", "tool", "sub"}

TypeOK ==
  /\ pc \in {"start", "head", "model", "calls", "final", "done", "raised"}
  /\ mode \in {"native", "prompt"}
  /\ limit \in {Limit, PromptLimit} /\ step \in 0..limit
  /\ ran \in BOOLEAN /\ nudged \in BOOLEAN /\ stopped \in BOOLEAN
  /\ batch \in Seq(Kind) /\ Len(batch) <= MaxCalls
  /\ call \in [DOMAIN batch -> {"wait", "run", "back", "broken", "cut"}]
  /\ card \in [DOMAIN batch -> {"none", "open", "closed"}]
  /\ left \subseteq {"native", "prompt"} \X Kind
  /\ late \subseteq {"native", "prompt"} \X {"model", "tools", "call", "final"}

Init ==
  /\ pc = "start" /\ mode \in {"native", "prompt"}
  /\ limit = Limit /\ step = 0
  /\ ran = FALSE /\ nudged = FALSE /\ stopped = FALSE
  /\ batch = << >> /\ call = << >> /\ card = << >>
  /\ left = {} /\ late = {}

Goto(l) == pc' = l /\ UNCHANGED <<loopVars, callVars>>
Begin(what) == late' = IF stopped THEN late \cup {<<mode, what>>} ELSE late

-----------------------------------------------------------------------------
Stop ==
  /\ ~stopped /\ stopped' = TRUE
  /\ UNCHANGED <<pc, loopVars, callVars, left, late>>

(* McpAgentLoop.run asks before it connects to the servers.                *)
Enter ==
  /\ pc = "start"
  /\ Goto(IF stopped THEN "done" ELSE "head")
  /\ UNCHANGED <<stopped, left, late>>

(* The head of either loop; only the native one knows about the stop.      *)
LoopHead ==
  /\ pc = "head"
  /\ IF mode = "native" /\ stopped THEN Goto("done") /\ UNCHANGED late
                                   ELSE Goto("model") /\ Begin("model")
  /\ UNCHANGED <<stopped, left>>

ToPrompt(n) ==
  /\ mode' = "prompt" /\ limit' = n /\ step' = 0 /\ ran' = FALSE /\ nudged' = FALSE
  /\ pc' = "head"
  /\ UNCHANGED <<callVars, stopped, left, late>>

(* A native call that raises goes on in the JSON loop with the limit that  *)
(* is the default there; so does a first answer that spells its calls out, *)
(* with the limit of the run.                                              *)
ModelRaises ==
  /\ pc = "model"
  /\ \/ mode = "native" /\ ToPrompt(PromptLimit)
     \/ mode = "prompt" /\ Goto("raised") /\ UNCHANGED <<stopped, left, late>>

ModelSpellsCalls ==
  /\ pc = "model" /\ mode = "native" /\ step = 0
  /\ ToPrompt(Limit)

(* No calls: the native answer is final, as is JSON that does not parse.   *)
ModelAnswers ==
  /\ pc = "model"
  /\ Goto("done")
  /\ UNCHANGED <<stopped, left, late>>

Advance == step' = step + 1 /\ pc' = IF step + 1 < limit THEN "head" ELSE "final"

(* A mutant: the reminder is not counted as a step, and not remembered.    *)
NudgeForFree ==
  /\ pc = "model" /\ mode = "prompt" /\ ran /\ step + 1 < limit
  /\ pc' = "head"
  /\ UNCHANGED <<loopVars, callVars, stopped, left, late>>

(* {"tool_calls": []} after some calls: the model is reminded, once.       *)
Nudge ==
  /\ pc = "model" /\ mode = "prompt" /\ ran /\ step + 1 < limit /\ ~nudged
  /\ nudged' = TRUE
  /\ Advance
  /\ UNCHANGED <<mode, limit, ran, callVars, stopped, left, late>>

(* ... and the last word is a plain answer of the model.                   *)
NoMoreCalls ==
  /\ pc = "model" /\ mode = "prompt" /\ ~(ran /\ step + 1 < limit /\ ~nudged)
  /\ Goto("final")
  /\ Begin("final")
  /\ UNCHANGED <<stopped, left>>

StartCalls(b) ==
  /\ batch' = b
  /\ call' = [i \in DOMAIN b |-> "wait"]
  /\ card' = [i \in DOMAIN b |-> "none"]
  /\ pc' = "calls"
  /\ Begin("tools")
  /\ UNCHANGED loopVars

(* The calls of a step; in the JSON loop what is no object is left out.    *)
Batches == {b \in UNION {[1..n -> Kind] : n \in 0..MaxCalls} : b # << >> \/ mode = "prompt"}

(* A mutant: nobody looks at the stop when the model is back.              *)
ModelCallsUnasked ==
  /\ pc = "model"
  /\ \E b \in Batches : StartCalls(b)
  /\ UNCHANGED <<stopped, left>>

(* The model asks for calls; the native loop looks at the stop once more.  *)
ModelCalls ==
  /\ pc = "model"
  /\ IF mode = "native" /\ stopped THEN Goto("done") /\ UNCHANGED late
                                   ELSE \E b \in Batches : StartCalls(b)
  /\ UNCHANGED <<stopped, left>>

-----------------------------------------------------------------------------
(* run_tool_calls.                                                         *)
Subs == {i \in DOMAIN batch : batch[i] = "sub"}
Together == Cardinality(Subs) > 1 /\ Parallel > 1
In(l) == {i \in DOMAIN batch : call[i] = l}

(* A mutant: the semaphore is left out.                                    *)
MayStartAll(i) ==
  /\ pc = "calls" /\ call[i] = "wait"
  /\ Together \/ \A j \in 1..(i - 1) : call[j] = "back"

(* One after the other; or the subagents under the semaphore, in order,    *)
(* and the rest in a chain beside them.                                    *)
MayStart(i) ==
  /\ pc = "calls" /\ call[i] = "wait"
  /\ IF ~Together THEN \A j \in 1..(i - 1) : call[j] = "back"
     ELSE IF i \in Subs
       THEN /\ Cardinality(Subs \cap In("run")) < Parallel
            /\ \A j \in Subs : j < i => call[j] # "wait"
       ELSE \A j \in DOMAIN batch \ Subs : j < i => call[j] = "back"

(* Whether the call shows a card: the native loop does so before it looks  *)
(* for the session, the JSON loop after.                                   *)
Shows(i) == batch[i] \in {"tool", "sub"} \/ (batch[i] = "gone" /\ mode = "native")
Runs(i) == batch[i] \in {"tool", "sub"}

(* Nobody asks about the stop here: a call that waited begins all the same.*)
StartCall(i) ==
  /\ MayStart(i)
  /\ call' = [call EXCEPT ![i] = IF Runs(i) THEN "run" ELSE "back"]
  /\ card' = [card EXCEPT ![i] = IF Shows(i) THEN "open" ELSE "none"]
  /\ Begin("call")
  /\ UNCHANGED <<pc, loopVars, batch, stopped, left>>

(* A mutant: a call that fails returns without tool_end.                   *)
EndCallSilently(i) ==
  /\ pc = "calls" /\ call[i] = "run"
  /\ call' = [call EXCEPT ![i] = "back"]
  /\ \/ card' = [card EXCEPT ![i] = "closed"] /\ ran' = TRUE
     \/ UNCHANGED <<card, ran>>
  /\ UNCHANGED <<pc, mode, limit, step, nudged, batch, stopped, left, late>>

(* The tool answers or fails; both close the card.  The JSON loop counts   *)
(* the calls that worked, the native one all.                              *)
EndCall(i) ==
  /\ pc = "calls" /\ call[i] = "run"
  /\ call' = [call EXCEPT ![i] = "back"]
  /\ card' = [card EXCEPT ![i] = "closed"]
  /\ ran' = TRUE \/ (mode = "prompt" /\ UNCHANGED ran)
  /\ UNCHANGED <<pc, mode, limit, step, nudged, batch, stopped, left, late>>

(* The event callback raises, at the start or the end of a call (in the    *)
(* JSON loop also when it reports that).  The calls beside it are          *)
(* cancelled and awaited, their cards stay open; the loop raises.          *)
BreakCall(i) ==
  /\ (MayStart(i) /\ Shows(i)) \/ (pc = "calls" /\ call[i] = "run")
  /\ call' = [j \in DOMAIN batch |-> IF j = i THEN "broken"
                ELSE IF Together /\ call[j] # "back" THEN "cut" ELSE call[j]]
  /\ pc' = "raised"
  /\ UNCHANGED <<loopVars, batch, card, stopped, left, late>>

(* All answers are in, in the order of the calls: the step is over.        *)
EndStep ==
  /\ pc = "calls" /\ \A i \in DOMAIN batch : call[i] = "back"
  /\ left' = left \cup {<<mode, batch[i]>> : i \in {j \in DOMAIN batch : card[j] = "open"}}
  /\ batch' = << >> /\ call' = << >> /\ card' = << >>
  /\ Advance
  /\ IF pc' = "final" THEN Begin("final") ELSE UNCHANGED late
  /\ UNCHANGED <<mode, limit, ran, nudged, stopped>>

Final ==
  /\ pc = "final"
  /\ \E l \in {"done", "raised"} : Goto(l)
  /\ UNCHANGED <<stopped, left, late>>

(* What the loop does by itself, and how the call of a tool comes back.    *)
Progress == Enter \/ LoopHead \/ ModelRaises \/ ModelSpellsCalls \/ ModelAnswers \/ Nudge
              \/ NoMoreCalls \/ ModelCalls \/ EndStep \/ Final
              \/ \E i \in DOMAIN batch : StartCall(i)
CallReturns == \E i \in DOMAIN batch : EndCall(i) \/ BreakCall(i)

Next == Stop \/ Progress \/ CallReturns

(* The event loop resumes what can go on, and the calls of the model carry *)
(* timeouts.  The call of an MCP tool carries none (client.py 115,         *)
(* platform.py 189): nothing says that it ever returns.                    *)
Spec == Init /\ [][Next]_vars /\ WF_vars(Progress)

-----------------------------------------------------------------------------
(* No card stays "at work" for ever (comment at prompt_fc_handler.py       *)
(* 325-326): over failing tools, unknown tools, parallel calls and both    *)
(* loops a card that is left open belongs to a call whose server has no    *)
(* session, in the native loop, or to one that a broken step cut off.      *)
CardsClosed ==
  /\ TypeOK
  /\ left \subseteq {<<"native", "gone">>}
  /\ pc = "raised" => \A i \in DOMAIN batch :
       card[i] = "open" => call[i] \in {"broken", "cut"} \/ batch[i] = "gone"

(* After a stop the native loop asks the model no more and begins no step  *)
(* of tools (agent_loop.py 330 and 440).  What the running step has still  *)
(* to call is called (478-516), and the closing answer is given if that    *)
(* step is the last one.                                                   *)
StopEndsNative == \A e \in late : e[1] = "native" => e[2] \in {"call", "final"}

(* The calls of a step stay within it: never more subagents at once than   *)
(* SUBAGENT_PARALLEL, one other tool beside them, and none goes on when    *)
(* the loop has ended, however it did.                                     *)
CallsContained ==
  /\ Cardinality(In("run") \cap Subs) <= Parallel
  /\ Cardinality(In("run") \ Subs) <= 1
  /\ pc # "calls" => In("run") = {}

(* The loop ends, over reminders, fallbacks and failures of the model: all *)
(* that can keep it for ever is a tool that does not return, whatever the  *)
(* model answers and whenever Stop is pressed.                             *)
LoopEnds ==
  \/ <>(pc \in {"done", "raised"})
  \/ \E i \in 1..MaxCalls : <>[](pc = "calls" /\ i \in DOMAIN call /\ call[i] = "run")
=============================================================================
