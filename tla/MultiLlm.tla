------------------------------ MODULE MultiLlm ------------------------------
(***************************************************************************)
(* The multi-model branch of chat_message (_handle_multi_llm): one         *)
(* question, one task per model under asyncio.gather, one                  *)
(* multi_llm_complete per model and one message with all the slots.        *)
(* It extends ChatGeneration, whose entry, stop and disconnect it shares;  *)
(* none of its ways ends in chat_complete.                                 *)
(***************************************************************************)
EXTENDS ChatGeneration, SequencesExt

CONSTANT Model   \* the models of the comparison

ASSUME ModelAssumption == Model # {}

VARIABLES at,     \* at[g][m]: the await _gen_one(m) is suspended at
          res,    \* res[g][m]: what _gen_one(m) returned; "null" is None
          told,   \* told[g][m]: kinds of multi_llm_complete sent for m
          kept    \* kept[g][m]: kind of m's slot in the saved message

multiVars == <<at, res, told, kept>>
allVars == <<vars, multiVars>>

Kind == {"answer", "error", "wait", "canned"}

MultiTypeOK ==
  /\ TypeOK
  /\ at \in [Gen -> [Model -> {"off", "mcp", "mcpGround", "llm", "ground", "back"}]]
  /\ res \in [Gen -> [Model -> {"none", "null", "answer", "error"}]]
  /\ told \in [Gen -> [Model -> Seq(Kind)]]
  /\ kept \in [Gen -> [Model -> Kind \cup {"none"}]]

Each(x) == [g \in Gen |-> [m \in Model |-> x]]

MultiInit ==
  /\ Init
  /\ at = Each("off") /\ res = Each("none") /\ told = Each(<< >>) /\ kept = Each("none")

Await(g, m, l) == at' = [at EXCEPT ![g][m] = l]
Tell(g, m, k) == told' = [told EXCEPT ![g][m] = Append(@, k)]
TellAll(g, k) == told' = [told EXCEPT ![g] = [m \in Model |-> Append(@[m], k)]]
InModels(g, m, l) == pc[g] = "models" /\ at[g][m] = l

-----------------------------------------------------------------------------
(* No model is left, or retrieval and the prompts raise: chat_error.       *)
MultiFails(g) ==
  /\ pc[g] = "multi"
  /\ Finish(g, "chat_error")
  /\ UNCHANGED <<numVars, mode, regen, step, shown, resp, userSaved, answer, saved, stopHit, multiVars>>

(* A reindex covers the sources, or there is no evidence: every slot gets  *)
(* the same text, stopped or not.                                          *)
SameForAll(g) ==
  /\ pc[g] = "multi"
  /\ \E k \in {"wait", "canned"} : TellAll(g, k)
  /\ Goto(g, "multiSave")
  /\ UNCHANGED <<numVars, mode, regen, step, shown, resp, userSaved, answer, saved,
                 terminal, stopHit, at, res, kept>>

(* gather starts all models, with the tool loop or without.                *)
StartModels(g) ==
  /\ pc[g] = "multi"
  /\ Goto(g, "models")
  /\ \E l \in {"mcp", "llm"} : at' = [at EXCEPT ![g] = [m \in Model |-> l]]
  /\ UNCHANGED <<numVars, mode, regen, step, shown, resp, userSaved, answer, saved,
                 terminal, stopHit, res, told, kept>>

(* run_mcp_for_chat is back: a stop ends this model with None; no result   *)
(* falls through to the plain call, as does an exception, unasked.         *)
McpReturns(g, m) ==
  /\ InModels(g, m, "mcp")
  /\ IF Stopped(g)
       THEN \/ res' = [res EXCEPT ![g][m] = "null"] /\ Await(g, m, "back")
            \/ Await(g, m, "llm") /\ UNCHANGED res
       ELSE (\E l \in {"mcpGround", "llm"} : Await(g, m, l)) /\ UNCHANGED res
  /\ UNCHANGED <<vars, told, kept>>

LlmEnds(g, m) ==
  /\ InModels(g, m, "llm")
  /\ Await(g, m, "ground")
  /\ UNCHANGED <<vars, res, told, kept>>

(* A mutant: the answer is sent whether or not it was stopped.             *)
EmitAnyway(g, m, k) ==
  /\ res' = [res EXCEPT ![g][m] = k]
  /\ Await(g, m, "back")
  /\ Tell(g, m, k)
  /\ UNCHANGED <<vars, kept>>

(* _emit_complete: the only look at the stop on the way out.               *)
EmitComplete(g, m, k) ==
  /\ res' = [res EXCEPT ![g][m] = k]
  /\ Await(g, m, "back")
  /\ IF Stopped(g) THEN UNCHANGED told ELSE Tell(g, m, k)
  /\ UNCHANGED <<vars, kept>>

Grounded(g, m) ==
  /\ InModels(g, m, "mcpGround") \/ InModels(g, m, "ground")
  /\ EmitComplete(g, m, "answer")

(* The check of the tool loop's answer raises: one more plain call.        *)
McpGroundFails(g, m) ==
  /\ InModels(g, m, "mcpGround")
  /\ Await(g, m, "llm")
  /\ UNCHANGED <<vars, res, told, kept>>

ModelFails(g, m) ==
  /\ InModels(g, m, "llm") \/ InModels(g, m, "ground")
  /\ EmitComplete(g, m, "error")

(* A mutant: what _emit_complete already announced as an error comes twice.*)
GatheredResends(g) ==
  /\ pc[g] = "models" /\ \A m \in Model : at[g][m] = "back"
  /\ told' = [told EXCEPT ![g] =
                [m \in Model |-> IF res[g][m] # "answer" THEN Append(@[m], "error") ELSE @[m]]]
  /\ Goto(g, "multiSave")
  /\ UNCHANGED <<numVars, mode, regen, step, shown, resp, userSaved, answer, saved,
                 terminal, stopHit, at, res, kept>>

(* gather is over: what is no dict is announced as an error, asked by no   *)
(* stop, with the text "None".                                             *)
Gathered(g) ==
  /\ pc[g] = "models" /\ \A m \in Model : at[g][m] = "back"
  /\ told' = [told EXCEPT ![g] =
                [m \in Model |-> IF res[g][m] = "null" THEN Append(@[m], "error") ELSE @[m]]]
  /\ Goto(g, "multiSave")
  /\ UNCHANGED <<numVars, mode, regen, step, shown, resp, userSaved, answer, saved,
                 terminal, stopHit, at, res, kept>>

(* A mutant: an error is saved as an answer with the error's text.         *)
SlotsFine(g) == [m \in Model |-> IF res[g][m] = "none" THEN Last(told[g][m]) ELSE "answer"]

(* The slots of the saved message.                                         *)
Slots(g) == [m \in Model |-> CASE res[g][m] = "none" -> Last(told[g][m])
                               [] res[g][m] = "null" -> "error"
                               [] OTHER -> res[g][m]]

(* Stopped or not, the slots are stored; a failure is only logged.         *)
SaveSlots(g) ==
  /\ pc[g] = "multiSave"
  /\ \/ kept' = [kept EXCEPT ![g] = Slots(g)] /\ saved' = [saved EXCEPT ![g] = "full"]
     \/ saved' = [saved EXCEPT ![g] = "lost"] /\ UNCHANGED kept
  /\ Goto(g, "done")
  /\ UNCHANGED <<numVars, mode, regen, step, shown, resp, userSaved, answer, terminal,
                 stopHit, at, res, told>>

-----------------------------------------------------------------------------
ModelTask(g, m) == McpReturns(g, m) \/ LlmEnds(g, m) \/ Grounded(g, m)
                     \/ McpGroundFails(g, m) \/ ModelFails(g, m)
Multi(g) == MultiFails(g) \/ SameForAll(g) \/ StartModels(g) \/ Gathered(g) \/ SaveSlots(g)
              \/ \E m \in Model : ModelTask(g, m)

MultiNext == (Next /\ UNCHANGED multiVars) \/ \E g \in Gen : Multi(g)

(* A request or one of its models is in a tool loop, which need not end.   *)
MultiAwaitsTool(g) ==
  AwaitsTool(g) \/ (pc[g] = "models" /\ \E m \in Model : at[g][m] = "mcp")

(* As in ChatGeneration: only what is not in a tool loop is sure to go on. *)
MultiFairness ==
  \A g \in Gen :
    WF_allVars(~MultiAwaitsTool(g) /\ ((Task(g) /\ UNCHANGED multiVars) \/ Multi(g)))

MultiSpec == MultiInit /\ [][MultiNext]_allVars /\ MultiFairness

-----------------------------------------------------------------------------
(* No slot of the comparison is left spinning and none is closed twice:    *)
(* over the tool loop, its fallbacks, failures and the two common texts, a *)
(* request nobody stopped has told every model's end exactly once, or has  *)
(* ended in one chat_error.                                                *)
SlotsClosedOnce ==
  /\ MultiTypeOK
  /\ \A g \in Gen :
       /\ \A m \in Model : Len(told[g][m]) <= 1
       /\ (mode[g] = "multi" /\ pc[g] = "done" /\ stopHit[g] = "no") =>
            IF terminal[g] = << >> THEN \A m \in Model : told[g][m] # << >>
                                   ELSE \A m \in Model : told[g][m] = << >>

(* What the user saw is what a reload shows: a slot that was announced is  *)
(* stored as the same kind (2258-2293 build both from the results).        *)
KeptAsTold ==
  \A g \in Gen : \A m \in Model :
    (kept[g][m] # "none" /\ told[g][m] # << >>) => told[g][m] = <<kept[g][m]>>

(* After a stop no model delivers an answer (comment at 2126-2128); an     *)
(* error slot and the common texts still come.                             *)
StopSilencesModels ==
  [][\A g \in Gen : Stopped(g) =>
       \A m \in Model : told'[g][m] # told[g][m] => Last(told'[g][m]) # "answer"]_allVars

(* Whatever is stopped, fails or disconnects, every request ends, of one   *)
(* model or of several, unless a tool it waits for never answers           *)
(* (session.call_tool, client.py 115, is awaited without a timeout).       *)
GenerationSettles ==
  \A g \in Gen : <>[]MultiAwaitsTool(g) \/ (pc[g] = "auth" ~> pc[g] = "done")
=============================================================================
