---------------------------- MODULE ToolLoopProofs ----------------------------
(***************************************************************************)
(* Theorems about the tool loop, for any limits, any number of calls in a  *)
(* step and any number of parallel subagents.                              *)
(***************************************************************************)
EXTENDS ToolLoop, FiniteSetTheorems, WellFoundedInduction, TLAPS

Raw == {"wait", "run", "back"}

(* A call that is through has closed its card, unless it has no session    *)
(* and the loop is the native one.                                         *)
CardFits(i) ==
  /\ call[i] \in Raw
  /\ call[i] = "run" => batch[i] \in {"tool", "sub"}
  /\ call[i] = "wait" => card[i] = "none"
  /\ call[i] = "back" /\ card[i] = "open" => mode = "native" /\ batch[i] = "gone"

(* Calls that do not run side by side run one after the other.             *)
InTurn ==
  \A i, j \in DOMAIN batch :
    (i < j /\ call[j] # "wait" /\ (Together => batch[i] # "sub" /\ batch[j] # "sub"))
      => call[i] = "back"

StepInv ==
  /\ pc = "calls" => /\ \A i \in DOMAIN batch : CardFits(i)
                     /\ InTurn
                     /\ Cardinality(In("run") \cap Subs) <= Parallel
  /\ pc = "raised" => \A i \in DOMAIN batch :
       /\ call[i] # "run"
       /\ card[i] = "open" => call[i] \in {"broken", "cut"} \/ batch[i] = "gone"
  /\ pc \notin {"calls", "raised"} => batch = << >>
  /\ pc \in {"start", "head", "model", "calls"} => step < limit
  /\ left \subseteq {<<"native", "gone">>}

LoopInv == TypeOK /\ StepInv /\ StopEndsNative

-----------------------------------------------------------------------------
(* The bounds are numbers above zero.                                      *)
LEMMA Bounds ==
  /\ Limit \in Nat /\ Limit > 0 /\ PromptLimit \in Nat /\ PromptLimit > 0
  /\ MaxCalls \in Nat /\ MaxCalls > 0 /\ Parallel \in Nat /\ Parallel > 0
<1>1. \A n \in {Limit, PromptLimit, MaxCalls, Parallel} : n \in Nat /\ n > 0
  BY LoopAssumption
<1> QED BY <1>1

(* A set in which no two elements differ counts at most one.               *)
LEMMA AtMostOne ==
  ASSUME NEW S, \A x, y \in S : x = y
  PROVE  IsFiniteSet(S) /\ Cardinality(S) \in 0..1
<1>1. CASE S = {}
  BY <1>1, FS_EmptySet
<1>2. CASE S # {}
  <2>1. PICK x \in S : S = {x}
    BY <1>2
  <2>2. IsFiniteSet({x}) /\ Cardinality({x}) = 1
    BY FS_Singleton
  <2> QED BY <2>1, <2>2
<1> QED BY <1>1, <1>2

(* The calls of a step are finitely many.                                  *)
LEMMA FewCalls ==
  ASSUME TypeOK, NEW S, S \subseteq DOMAIN batch
  PROVE  IsFiniteSet(S) /\ Cardinality(S) \in Nat
<1>1. Len(batch) \in Nat /\ DOMAIN batch = 1..Len(batch)
  BY DEF TypeOK
<1>2. IsFiniteSet(1..Len(batch))
  BY <1>1, FS_Interval
<1> QED BY <1>1, <1>2, FS_Subset, FS_CardinalityType

(* Inside a step at most one call runs beside the subagents, and without   *)
(* two subagents at most one at all.                                       *)
LEMMA OneBeside ==
  ASSUME TypeOK, pc = "calls", \A i \in DOMAIN batch : CardFits(i), InTurn,
         NEW S, S \subseteq In("run"), Together => S \cap Subs = {}
  PROVE  Cardinality(S) \in 0..1
<1>1. DOMAIN batch \subseteq Nat
  BY DEF TypeOK
<1>2. ASSUME NEW i \in S, NEW j \in S, i < j PROVE FALSE
  BY <1>2 DEF InTurn, In, Subs
<1>3. \A i, j \in S : i = j
  BY <1>1, <1>2 DEF In
<1> QED BY <1>3, AtMostOne

LEMMA Contained ==
  ASSUME LoopInv
  PROVE  CallsContained
<1>1. Parallel \in Nat \ {0}
  BY LoopAssumption
<1>2. CASE pc = "calls"
  <2>1. TypeOK /\ InTurn /\ \A i \in DOMAIN batch : CardFits(i)
    BY <1>2 DEF LoopInv, StepInv
  <2>2. Cardinality(In("run") \ Subs) \in 0..1
    BY <1>2, <2>1, OneBeside
  <2>3. Cardinality(In("run") \cap Subs) <= Parallel
    BY <1>2 DEF LoopInv, StepInv
  <2> QED BY <1>2, <2>2, <2>3 DEF CallsContained
<1>3. CASE pc # "calls"
  <2>1. In("run") = {}
    BY <1>3 DEF LoopInv, StepInv, In
  <2>2. Cardinality(In("run") \ Subs) = 0 /\ Cardinality(In("run") \cap Subs) = 0
    BY <2>1, FS_EmptySet
  <2> QED BY <1>1, <2>1, <2>2 DEF CallsContained
<1> QED BY <1>2, <1>3

-----------------------------------------------------------------------------
(* Who goes on outside a step, with no calls at hand.                      *)
LEMMA BetweenSteps ==
  ASSUME LoopInv, batch = << >>, UNCHANGED <<callVars, left>>, TypeOK', StopEndsNative',
         pc' # "calls", pc' \in {"start", "head", "model"} => step' < limit'
  PROVE  LoopInv'
BY DEF LoopInv, StepInv, callVars

LEMMA NativeIsSilent ==
  ASSUME StopEndsNative, NEW what,
         (Begin(what) /\ ((mode = "native" /\ stopped) => what \in {"call", "final"}))
           \/ late' = late
  PROVE  StopEndsNative'
BY DEF StopEndsNative, Begin

LEMMA BeginType ==
  ASSUME TypeOK, NEW what \in {"model", "tools", "call", "final"}, Begin(what) \/ late' = late
  PROVE  late' \subseteq {"native", "prompt"} \X {"model", "tools", "call", "final"}
BY DEF TypeOK, Begin

LEMMA StartingCalls ==
  ASSUME LoopInv, pc = "model", NEW b \in Batches, StartCalls(b), UNCHANGED <<stopped, left>>,
         ~(mode = "native" /\ stopped)
  PROVE  LoopInv'
<1>1. /\ batch' = b /\ call' = [i \in DOMAIN b |-> "wait"] /\ card' = [i \in DOMAIN b |-> "none"]
      /\ pc' = "calls" /\ Begin("tools") /\ UNCHANGED loopVars
  BY DEF StartCalls
<1>2. b \in Seq(Kind) /\ Len(b) <= MaxCalls
  <2>1. PICK n \in 0..MaxCalls : b \in [1..n -> Kind]
    BY DEF Batches
  <2> QED BY <2>1, LoopAssumption
<1>3. TypeOK'
  <2>1. late' \subseteq {"native", "prompt"} \X {"model", "tools", "call", "final"}
    BY <1>1, BeginType DEF LoopInv
  <2> QED BY <1>1, <1>2, <2>1 DEF LoopInv, TypeOK, loopVars
<1>4. StopEndsNative'
  BY <1>1, NativeIsSilent DEF LoopInv
<1>5. StepInv'
  <2>1. \A i \in DOMAIN batch' : CardFits(i)'
    BY <1>1 DEF CardFits, Raw
  <2>2. InTurn'
    BY <1>1 DEF InTurn
  <2>3. Cardinality(In("run") \cap Subs)' <= Parallel
    <3>1. (In("run") \cap Subs)' = {}
      BY <1>1 DEF In
    <3> QED BY <3>1, FS_EmptySet, LoopAssumption
  <2>4. step' < limit' /\ left' \subseteq {<<"native", "gone">>}
    BY <1>1, pc = "model" DEF LoopInv, StepInv, loopVars
  <2> QED BY <1>1, <2>1, <2>2, <2>3, <2>4 DEF StepInv
<1> QED BY <1>3, <1>4, <1>5 DEF LoopInv

(* One call starts.                                                        *)
LEMMA StartCallInv ==
  ASSUME LoopInv, NEW i \in DOMAIN batch, StartCall(i)
  PROVE  LoopInv'
<1>1. /\ pc = "calls" /\ call[i] = "wait" /\ MayStart(i)
      /\ call' = [call EXCEPT ![i] = IF Runs(i) THEN "run" ELSE "back"]
      /\ card' = [card EXCEPT ![i] = IF Shows(i) THEN "open" ELSE "none"]
      /\ Begin("call")
      /\ UNCHANGED <<pc, loopVars, batch, stopped, left>>
  BY DEF StartCall, MayStart
<1>2. /\ call \in [DOMAIN batch -> {"wait", "run", "back", "broken", "cut"}]
      /\ card \in [DOMAIN batch -> {"none", "open", "closed"}]
      /\ DOMAIN batch \subseteq Nat /\ batch \in [DOMAIN batch -> Kind]
  BY DEF LoopInv, TypeOK
<1>3. /\ \A j \in DOMAIN batch : CardFits(j)
      /\ InTurn /\ Cardinality(In("run") \cap Subs) <= Parallel
  BY <1>1 DEF LoopInv, StepInv
<1>4. TypeOK'
  <2>1. late' \subseteq {"native", "prompt"} \X {"model", "tools", "call", "final"}
    BY <1>1, BeginType DEF LoopInv
  <2> QED BY <1>1, <1>2, <2>1 DEF LoopInv, TypeOK, loopVars
<1>5. \A j \in DOMAIN batch' : CardFits(j)'
  BY <1>1, <1>2, <1>3 DEF CardFits, Raw, Runs, Shows, loopVars
<1>6. InTurn'
  <2> SUFFICES ASSUME NEW k \in DOMAIN batch, NEW j \in DOMAIN batch, k < j, call'[j] # "wait",
                      Together => batch[k] # "sub" /\ batch[j] # "sub"
               PROVE  call'[k] = "back"
    BY <1>1 DEF InTurn, Together, Subs
  <2>1. CASE j = i
    <3>1. call[k] = "back"
      <4>1. k \in 1..(i - 1) /\ i \in DOMAIN batch
        BY <2>1 DEF LoopInv, TypeOK
      <4>2. CASE Together
        BY <1>1, <2>1, <4>2 DEF MayStart, Subs
      <4>3. CASE ~Together
        BY <1>1, <4>1, <4>3 DEF MayStart
      <4> QED BY <4>2, <4>3
    <3> QED BY <1>1, <1>2, <2>1, <3>1
  <2>2. CASE j # i
    <3>1. call[k] = "back"
      BY <1>1, <1>2, <1>3, <2>2 DEF InTurn
    <3> QED BY <1>1, <1>2, <3>1
  <2> QED BY <2>1, <2>2
<1>7. Cardinality(In("run") \cap Subs)' <= Parallel
  <2>1. CASE Runs(i) /\ i \in Subs
    <3>1. (In("run") \cap Subs)' = (In("run") \cap Subs) \cup {i} /\ i \notin In("run")
      BY <1>1, <1>2, <2>1 DEF In, Subs
    <3>2. IsFiniteSet(In("run") \cap Subs) /\ Cardinality(In("run") \cap Subs) \in Nat
      BY FewCalls DEF In, LoopInv
    <3>3. Cardinality((In("run") \cap Subs) \cup {i}) = Cardinality(In("run") \cap Subs) + 1
      BY <3>1, <3>2, FS_AddElement
    <3>4. Cardinality(In("run") \cap Subs) < Parallel
      <4>1. CASE Together
        BY <1>1, <2>1, <4>1 DEF MayStart, In, Subs
      <4>2. CASE ~Together
        <5>1. In("run") = {}
          <6>1. \A j \in 1..(i - 1) : call[j] = "back"
            BY <1>1, <4>2 DEF MayStart
          <6>2. ASSUME NEW j \in DOMAIN batch, call[j] = "run" PROVE FALSE
            BY <1>1, <1>2, <1>3, <4>2, <6>1, <6>2 DEF InTurn, LoopInv, TypeOK
          <6> QED BY <6>2 DEF In
        <5>2. Cardinality(In("run") \cap Subs) = 0
          BY <5>1, FS_EmptySet
        <5> QED BY <5>2, LoopAssumption
      <4> QED BY <4>1, <4>2
    <3> QED BY <3>1, <3>2, <3>3, <3>4, LoopAssumption
  <2>2. CASE ~(Runs(i) /\ i \in Subs)
    <3>1. (In("run") \cap Subs)' = In("run") \cap Subs
      BY <1>1, <1>2, <2>2 DEF In, Subs
    <3> QED BY <1>3, <3>1
  <2> QED BY <2>1, <2>2
<1>8. StopEndsNative'
  BY <1>1, NativeIsSilent DEF LoopInv
<1> QED BY <1>1, <1>4, <1>5, <1>6, <1>7, <1>8 DEF LoopInv, StepInv, loopVars

LEMMA EndCallInv ==
  ASSUME LoopInv, NEW i \in DOMAIN batch, EndCall(i)
  PROVE  LoopInv'
<1>1. /\ pc = "calls" /\ call[i] = "run"
      /\ call' = [call EXCEPT ![i] = "back"] /\ card' = [card EXCEPT ![i] = "closed"]
      /\ UNCHANGED <<pc, mode, limit, step, nudged, batch, stopped, left, late>>
      /\ ran' \in BOOLEAN
  BY DEF EndCall, LoopInv, TypeOK
<1>2. /\ call \in [DOMAIN batch -> {"wait", "run", "back", "broken", "cut"}]
      /\ card \in [DOMAIN batch -> {"none", "open", "closed"}]
  BY DEF LoopInv, TypeOK
<1>3. /\ \A j \in DOMAIN batch : CardFits(j)
      /\ InTurn /\ Cardinality(In("run") \cap Subs) <= Parallel
  BY <1>1 DEF LoopInv, StepInv
<1>4. TypeOK'
  BY <1>1, <1>2 DEF LoopInv, TypeOK
<1>5. \A j \in DOMAIN batch' : CardFits(j)'
  BY <1>1, <1>2, <1>3 DEF CardFits, Raw
<1>6. InTurn'
  BY <1>1, <1>2, <1>3 DEF InTurn, Together, Subs
<1>7. Cardinality(In("run") \cap Subs)' <= Parallel
  <2>1. (In("run") \cap Subs)' \subseteq In("run") \cap Subs
    BY <1>1, <1>2 DEF In, Subs
  <2>2. IsFiniteSet(In("run") \cap Subs) /\ Cardinality(In("run") \cap Subs) \in Nat
    BY FewCalls DEF In, LoopInv
  <2>3. Cardinality((In("run") \cap Subs)') <= Cardinality(In("run") \cap Subs)
    BY <2>1, <2>2, FS_Subset
  <2>4. Cardinality((In("run") \cap Subs)') \in Nat
    BY <2>1, <2>2, FS_Subset, FS_CardinalityType
  <2> QED BY <1>3, <2>2, <2>3, <2>4, LoopAssumption
<1>8. StopEndsNative'
  BY <1>1 DEF LoopInv, StopEndsNative
<1> QED BY <1>1, <1>4, <1>5, <1>6, <1>7, <1>8 DEF LoopInv, StepInv, loopVars

(* A call breaks: whatever ran beside it is cut off with it.               *)
LEMMA BreakCallInv ==
  ASSUME LoopInv, NEW i \in DOMAIN batch, BreakCall(i)
  PROVE  LoopInv'
<1>1. /\ pc = "calls" /\ pc' = "raised"
      /\ MayStart(i) \/ call[i] = "run"
      /\ call' = [j \in DOMAIN batch |-> IF j = i THEN "broken"
                    ELSE IF Together /\ call[j] # "back" THEN "cut" ELSE call[j]]
      /\ UNCHANGED <<loopVars, batch, card, stopped, left, late>>
  BY DEF BreakCall, MayStart
<1>2. /\ call \in [DOMAIN batch -> {"wait", "run", "back", "broken", "cut"}]
      /\ DOMAIN batch \subseteq Nat
      /\ \A j \in DOMAIN batch : j < i => j \in 1..(i - 1)
  BY DEF LoopInv, TypeOK
<1>3. InTurn /\ \A j \in DOMAIN batch : CardFits(j)
  BY <1>1 DEF LoopInv, StepInv
<1>4. TypeOK'
  BY <1>1, <1>2 DEF LoopInv, TypeOK, loopVars
<1>5. ASSUME NEW j \in DOMAIN batch, call[j] = "run", ~Together, j # i PROVE FALSE
  <2>1. CASE j < i
    BY <1>1, <1>2, <1>3, <1>5, <2>1 DEF InTurn, MayStart
  <2>2. CASE i < j
    BY <1>1, <1>2, <1>3, <1>5, <2>2 DEF InTurn, MayStart
  <2> QED BY <1>2, <1>5, <2>1, <2>2
<1>6. ASSUME NEW j \in DOMAIN batch PROVE call'[j] # "run"
  BY <1>1, <1>2, <1>5
<1>7. ASSUME NEW j \in DOMAIN batch, card'[j] = "open"
      PROVE  call'[j] \in {"broken", "cut"} \/ batch'[j] = "gone"
  <2>1. card[j] = "open"
    BY <1>1, <1>7
  <2>2. CASE call[j] = "run"
    BY <1>1, <1>5, <2>2
  <2>3. CASE call[j] # "run"
    BY <1>1, <1>3, <2>1, <2>3 DEF CardFits, Raw
  <2> QED BY <2>2, <2>3
<1>8. StopEndsNative'
  BY <1>1 DEF LoopInv, StopEndsNative
<1> QED BY <1>1, <1>4, <1>6, <1>7, <1>8 DEF LoopInv, StepInv

LEMMA EndStepInv ==
  ASSUME LoopInv, EndStep
  PROVE  LoopInv'
<1>1. /\ pc = "calls" /\ \A i \in DOMAIN batch : call[i] = "back"
      /\ left' = left \cup {<<mode, batch[i]>> : i \in {j \in DOMAIN batch : card[j] = "open"}}
      /\ batch' = << >> /\ call' = << >> /\ card' = << >>
      /\ step' = step + 1 /\ pc' = IF step + 1 < limit THEN "head" ELSE "final"
      /\ Begin("final") \/ late' = late
      /\ UNCHANGED <<mode, limit, ran, nudged, stopped>>
  BY DEF EndStep, Advance
<1>2. \A i \in DOMAIN batch : CardFits(i)
  BY <1>1 DEF LoopInv, StepInv
<1>3. left' \subseteq {<<"native", "gone">>}
  BY <1>1, <1>2 DEF CardFits, LoopInv, StepInv
<1>4. TypeOK'
  <2>1. late' \subseteq {"native", "prompt"} \X {"model", "tools", "call", "final"}
    BY <1>1, BeginType DEF LoopInv
  <2>2. /\ batch' \in Seq(Kind) /\ Len(batch') = 0 /\ 0 <= MaxCalls
        /\ call' \in [DOMAIN batch' -> {"wait", "run", "back", "broken", "cut"}]
        /\ card' \in [DOMAIN batch' -> {"none", "open", "closed"}]
    BY <1>1, LoopAssumption
  <2>3. limit' \in {Limit, PromptLimit} /\ step' \in 0..limit' /\ pc' \in {"head", "final"}
    BY <1>1, LoopAssumption DEF LoopInv, TypeOK, StepInv
  <2> QED BY <1>1, <1>3, <2>1, <2>2, <2>3 DEF LoopInv, TypeOK, Kind
<1>5. StopEndsNative'
  BY <1>1, NativeIsSilent DEF LoopInv
<1>6. pc' \in {"start", "head", "model", "calls"} => step' < limit'
  BY <1>1
<1> QED BY <1>1, <1>3, <1>4, <1>5, <1>6 DEF LoopInv, StepInv

(* Everything but the calls of a step.                                     *)
LEMMA OutsideInv ==
  ASSUME LoopInv, \/ Stop \/ Enter \/ LoopHead \/ ModelRaises \/ ModelSpellsCalls
                  \/ ModelAnswers \/ Nudge \/ NoMoreCalls \/ Final
  PROVE  LoopInv'
<1>1. CASE Stop
  <2>1. stopped' = TRUE /\ UNCHANGED <<pc, loopVars, callVars, left, late>>
    BY <1>1 DEF Stop
  <2>2. TypeOK' /\ StopEndsNative'
    BY <2>1 DEF LoopInv, TypeOK, StopEndsNative, loopVars, callVars
  <2>3. StepInv'
    BY <2>1 DEF LoopInv, StepInv, CardFits, InTurn, Together, In, Subs, loopVars, callVars
  <2> QED BY <2>2, <2>3 DEF LoopInv
<1>2. CASE ~Stop
  <2>1. /\ UNCHANGED <<callVars, left, stopped>> /\ batch = << >>
        /\ pc \in {"start", "head", "model", "final"}
    BY <1>2 DEF Enter, LoopHead, ModelRaises, ModelSpellsCalls, ModelAnswers, Nudge, NoMoreCalls,
                Final, Goto, ToPrompt, LoopInv, StepInv
  <2>2. PICK what \in {"model", "final"} :
          (Begin(what) /\ ((mode = "native" /\ stopped) => what = "final")) \/ late' = late
    BY <1>2 DEF Enter, LoopHead, ModelRaises, ModelSpellsCalls, ModelAnswers, Nudge, NoMoreCalls,
                Final, Goto, ToPrompt
  <2>3. StopEndsNative'
    BY <2>2, NativeIsSilent DEF LoopInv
  <2>4. late' \subseteq {"native", "prompt"} \X {"model", "tools", "call", "final"}
    BY <2>2, BeginType DEF LoopInv
  <2>5. /\ pc' \in {"head", "model", "final", "done", "raised"}
        /\ mode' \in {"native", "prompt"} /\ limit' \in {Limit, PromptLimit}
        /\ step' \in 0..limit' /\ ran' \in BOOLEAN /\ nudged' \in BOOLEAN
        /\ pc' \in {"head", "model"} => step' < limit'
    <3>1. CASE Enter \/ LoopHead \/ ModelAnswers \/ NoMoreCalls \/ Final
      BY <3>1 DEF Enter, LoopHead, ModelAnswers, NoMoreCalls, Final, Goto, LoopInv, TypeOK,
                  StepInv, loopVars
    <3>2. CASE ModelRaises \/ ModelSpellsCalls
      <4>1. CASE Goto("raised")
        BY <4>1 DEF Goto, LoopInv, TypeOK, loopVars
      <4>2. CASE ToPrompt(PromptLimit) \/ ToPrompt(Limit)
        <5>1. PICK n \in {Limit, PromptLimit} :
                /\ mode' = "prompt" /\ limit' = n /\ step' = 0 /\ ran' = FALSE
                /\ nudged' = FALSE /\ pc' = "head"
          BY <4>2 DEF ToPrompt
        <5>2. n \in Nat /\ n > 0
          BY Bounds
        <5>3. step' \in 0..limit' /\ step' < limit'
          BY <5>1, <5>2
        <5> QED BY <5>1, <5>3
      <4> QED BY <3>2, <4>1, <4>2 DEF ModelRaises, ModelSpellsCalls
    <3>3. CASE Nudge
      BY <3>3, LoopAssumption DEF Nudge, Advance, LoopInv, TypeOK, StepInv
    <3> QED BY <1>2, <3>1, <3>2, <3>3
  <2>6. TypeOK'
    BY <2>1, <2>4, <2>5 DEF LoopInv, TypeOK, callVars
  <2> QED BY <2>1, <2>3, <2>5, <2>6, BetweenSteps
<1> QED BY <1>1, <1>2

LEMMA LoopStep ==
  ASSUME LoopInv, [Next]_vars
  PROVE  LoopInv'
<1>1. CASE UNCHANGED vars
  BY <1>1 DEF LoopInv, TypeOK, StepInv, StopEndsNative, CardFits, InTurn, Together, In, Subs,
              vars, loopVars, callVars
<1>2. CASE ModelCalls
  <2>1. CASE mode = "native" /\ stopped
    <3>1. ModelCalls /\ Goto("done") /\ UNCHANGED <<late, stopped, left>> /\ pc = "model"
      BY <1>2, <2>1 DEF ModelCalls
    <3>2. TypeOK' /\ StopEndsNative' /\ batch = << >>
      BY <3>1 DEF Goto, LoopInv, TypeOK, StepInv, StopEndsNative, loopVars, callVars
    <3> QED BY <3>1, <3>2, BetweenSteps DEF Goto
  <2>2. CASE ~(mode = "native" /\ stopped)
    <3>1. pc = "model" /\ UNCHANGED <<stopped, left>> /\ \E b \in Batches : StartCalls(b)
      BY <1>2, <2>2 DEF ModelCalls
    <3> QED BY <2>2, <3>1, StartingCalls
  <2> QED BY <2>1, <2>2
<1>3. ASSUME NEW i \in DOMAIN batch, StartCall(i) \/ EndCall(i) \/ BreakCall(i)
      PROVE  LoopInv'
  BY <1>3, StartCallInv, EndCallInv, BreakCallInv
<1> QED BY <1>1, <1>2, <1>3, OutsideInv, EndStepInv DEF Next, Progress, CallReturns

-----------------------------------------------------------------------------
(* The inductive invariant of the loop.                                    *)
THEOREM LoopInvariant == Spec => []LoopInv
<1>1. Init => LoopInv
  <2> SUFFICES ASSUME Init PROVE LoopInv
    OBVIOUS
  <2>1. TypeOK
    <3>1. /\ << >> \in Seq(Kind) /\ Len(<< >>) <= MaxCalls
          /\ batch = << >> /\ call = << >> /\ card = << >> /\ limit = Limit /\ step = 0
      BY Bounds DEF Init
    <3>2. /\ call \in [DOMAIN batch -> {"wait", "run", "back", "broken", "cut"}]
          /\ card \in [DOMAIN batch -> {"none", "open", "closed"}]
      BY <3>1
    <3>3. step \in 0..limit
      BY <3>1, Bounds
    <3> QED BY <3>1, <3>2, <3>3 DEF Init, TypeOK
  <2> QED BY <2>1, LoopAssumption DEF Init, LoopInv, StepInv, StopEndsNative
<1>2. LoopInv /\ [Next]_vars => LoopInv'
  BY LoopStep
<1> QED BY <1>1, <1>2, PTL DEF Spec

(* No card stays open but that of a native call without a session, or of   *)
(* one that a broken step cut off.                                         *)
THEOREM CardsAreClosed == Spec => []CardsClosed
<1>1. LoopInv => CardsClosed
  BY DEF LoopInv, StepInv, CardsClosed
<1> QED BY <1>1, LoopInvariant, PTL

(* After a stop the native loop asks the model no more and begins no step  *)
(* of tools: only the calls left of the step that runs, and the closing    *)
(* answer behind it.                                                       *)
THEOREM StopEndsNativeLoop == Spec => []StopEndsNative
<1>1. LoopInv => StopEndsNative
  BY DEF LoopInv
<1> QED BY <1>1, LoopInvariant, PTL

(* Never more subagents at once than allowed, one other call beside them,  *)
(* and none once the loop has ended.                                       *)
THEOREM CallsAreContained == Spec => []CallsContained
<1>1. LoopInv => CallsContained
  BY Contained
<1> QED BY <1>1, LoopInvariant, PTL

-----------------------------------------------------------------------------
(* What the end of the loop rests on: a step of the model can always go on,*)
(* and everything that happens uses something up.                          *)
LEMMA LeastOfOrdered ==
  ASSUME NEW T \in SUBSET Nat, T # {}, NEW Below,
         IsWellFoundedOn(Below, Nat), \A x, y \in Nat : y < x => <<y, x>> \in Below
  PROVE  \E m \in T : \A k \in T : m <= k
<1>1. PICK m \in T : \A k \in T : <<k, m>> \notin Below
  BY WFMin
<1>2. \A k \in T : ~(k < m)
  BY <1>1
<1>3. \A k \in T : m <= k
  BY <1>2, SMT
<1> QED BY <1>3

LEMMA LeastOf ==
  ASSUME NEW T \in SUBSET Nat, T # {}
  PROVE  \E m \in T : \A k \in T : m <= k
<1>1. \A x, y \in Nat : y < x => <<y, x>> \in OpToRel(<, Nat)
  BY DEF OpToRel
<1> HIDE DEF OpToRel
<1> QED BY <1>1, NatLessThanWellFounded, LeastOfOrdered

(* The guards of EndCall, StartCall and EndStep.                           *)
CallsGoOn ==
  pc = "calls" => \/ \E i \in DOMAIN batch : call[i] = "run" \/ MayStart(i)
                  \/ \A i \in DOMAIN batch : call[i] = "back"

(* Inside a step the semaphore of the subagents and the chain of the other *)
(* calls never hold each other up: while answers are missing a call runs   *)
(* or may start, for any mixture of calls and any SUBAGENT_PARALLEL.       *)
THEOREM CallsNeverStuck == Spec => []CallsGoOn
<1>1. LoopInv => CallsGoOn
  <2> SUFFICES ASSUME LoopInv, pc = "calls", ~\A i \in DOMAIN batch : call[i] = "back",
                      ~\E i \in DOMAIN batch : call[i] = "run"
               PROVE  \E i \in DOMAIN batch : MayStart(i)
    BY DEF CallsGoOn
  <2>1. /\ DOMAIN batch \subseteq Nat
        /\ \A i \in DOMAIN batch : call[i] \in Raw
    BY DEF LoopInv, TypeOK, StepInv, CardFits
  <2>2. \A i \in DOMAIN batch : call[i] \in {"wait", "back"}
    BY <2>1 DEF Raw
  <2>3. ASSUME NEW S \in SUBSET DOMAIN batch, \E i \in S : call[i] = "wait"
        PROVE  \E i \in S : /\ call[i] = "wait" /\ i \in Nat
                            /\ \A j \in S : j < i => call[j] = "back"
    <3> DEFINE T == {i \in S : call[i] = "wait"}
    <3>1. T \in SUBSET Nat /\ T # {}
      BY <2>1, <2>3
    <3>2. PICK i \in T : \A k \in T : i <= k
      <4> HIDE DEF T
      <4> QED BY <3>1, LeastOf
    <3>3. ASSUME NEW j \in S, j < i PROVE call[j] = "back"
      <4>1. j \notin T
        BY <2>1, <3>2, <3>3
      <4> QED BY <2>2, <4>1
    <3> QED BY <2>1, <3>2, <3>3
  <2>4. In("run") = {}
    BY DEF In
  <2>5. \E i \in DOMAIN batch : call[i] = "wait"
    BY <2>2
  <2>6. CASE ~Together
    <3>1. PICK i \in DOMAIN batch : /\ call[i] = "wait" /\ i \in Nat
                                    /\ \A j \in DOMAIN batch : j < i => call[j] = "back"
      BY <2>3, <2>5
    <3>2. \A j \in 1..(i - 1) : j \in DOMAIN batch /\ j < i
      <4>1. DOMAIN batch = 1..Len(batch) /\ Len(batch) \in Nat
        BY DEF LoopInv, TypeOK
      <4> QED BY <3>1, <4>1
    <3> QED BY <2>6, <3>1, <3>2 DEF MayStart
  <2>7. CASE Together /\ \E i \in Subs : call[i] = "wait"
    <3>1. PICK i \in Subs : call[i] = "wait" /\ \A j \in Subs : j < i => call[j] = "back"
      <4>1. Subs \in SUBSET DOMAIN batch
        BY DEF Subs
      <4> QED BY <2>3, <2>7, <4>1
    <3>2. Cardinality(Subs \cap In("run")) < Parallel
      <4>1. Subs \cap In("run") = {} /\ Cardinality({}) = 0
        BY <2>4, FS_EmptySet
      <4> QED BY <4>1, Bounds
    <3> QED BY <2>7, <3>1, <3>2 DEF MayStart, Subs
  <2>8. CASE Together /\ ~\E i \in Subs : call[i] = "wait"
    <3>1. PICK i \in DOMAIN batch \ Subs :
            call[i] = "wait" /\ \A j \in DOMAIN batch \ Subs : j < i => call[j] = "back"
      BY <2>3, <2>5, <2>8
    <3> QED BY <2>8, <3>1 DEF MayStart
  <2> QED BY <2>6, <2>7, <2>8
<1> QED BY <1>1, LoopInvariant, PTL

(* How much of a step is still to come.                                    *)
Rank(l) == IF l = "start" THEN 4 ELSE IF l = "head" THEN 3 ELSE IF l = "model" THEN 2
             ELSE IF l \in {"calls", "final"} THEN 1 ELSE 0

StrictlyWithin(a, b) == a \subseteq b /\ a # b

CallsLower ==
  /\ pc' = pc /\ batch' = batch
  /\ \/ StrictlyWithin(In("wait")', In("wait"))
     \/ In("wait")' = In("wait") /\ StrictlyWithin(In("run")', In("run"))

StepLower ==
  \/ step < step' /\ step' <= limit'
  \/ step' = step /\ (Rank(pc)' < Rank(pc) \/ CallsLower)

(* The order is that of the five bounds: the press of Stop, the change of  *)
(* modes, the steps, the place within one, the calls.                      *)
Lower ==
  \/ ~stopped /\ stopped'
  \/ /\ stopped' = stopped
     /\ \/ mode = "native" /\ mode' = "prompt"
        \/ mode' = mode /\ limit' = limit /\ StepLower

(* Everything that happens in a run uses up one of its finite bounds, over *)
(* reminders, the fallback to JSON, failing models and broken calls: no    *)
(* run takes steps for ever, whatever the model answers; it may wait for   *)
(* ever, for a tool.                                                       *)
THEOREM LoopDescends == Spec => [][Lower]_vars
<1>1. ASSUME LoopInv, LoopInv', Next PROVE Lower
  <2>1. CASE Stop
    BY <1>1, <2>1 DEF Stop, Lower
  <2>2. CASE Enter \/ LoopHead \/ ModelAnswers \/ NoMoreCalls \/ ModelCalls \/ Final
    <3>1. stopped' = stopped /\ UNCHANGED loopVars
      BY <2>2 DEF Enter, LoopHead, ModelAnswers, NoMoreCalls, ModelCalls, Final, Goto, StartCalls
    <3>2. \/ pc = "start" /\ pc' \in {"head", "done"}
          \/ pc = "head" /\ pc' \in {"model", "done"}
          \/ pc = "model" /\ pc' \in {"calls", "final", "done"}
          \/ pc = "final" /\ pc' \in {"done", "raised"}
      BY <2>2 DEF Enter, LoopHead, ModelAnswers, NoMoreCalls, ModelCalls, Final, Goto, StartCalls
    <3>3. Rank(pc)' < Rank(pc)
      BY <3>2 DEF Rank
    <3> QED BY <3>1, <3>3 DEF loopVars, Lower, StepLower
  <2>3. CASE ModelRaises
    <3>1. CASE mode = "native" /\ ToPrompt(PromptLimit)
      BY <3>1 DEF ToPrompt, Lower
    <3>2. CASE pc = "model" /\ Goto("raised") /\ UNCHANGED stopped
      <4>1. Rank(pc)' < Rank(pc)
        BY <3>2 DEF Rank, Goto
      <4> QED BY <3>2, <4>1 DEF Goto, loopVars, Lower, StepLower
    <3> QED BY <2>3, <3>1, <3>2 DEF ModelRaises
  <2>4. CASE ModelSpellsCalls
    BY <2>4 DEF ModelSpellsCalls, ToPrompt, Lower
  <2>5. CASE Nudge \/ EndStep
    <3>1. step \in Nat /\ step' = step + 1 /\ step' \in 0..limit'
      BY <1>1, <2>5, Bounds DEF Nudge, EndStep, Advance, LoopInv, TypeOK
    <3>2. step < step' /\ step' <= limit'
      BY <1>1, <3>1, Bounds DEF LoopInv, TypeOK
    <3>3. stopped' = stopped /\ mode' = mode /\ limit' = limit
      BY <2>5 DEF Nudge, EndStep
    <3> QED BY <3>2, <3>3 DEF Lower, StepLower
  <2>6. ASSUME NEW i \in DOMAIN batch, StartCall(i) \/ EndCall(i) \/ BreakCall(i) PROVE Lower
    <3>1. stopped' = stopped /\ mode' = mode /\ limit' = limit /\ step' = step /\ batch' = batch
      BY <2>6 DEF StartCall, EndCall, BreakCall, loopVars
    <3>2. pc = "calls"
      BY <2>6 DEF StartCall, EndCall, BreakCall, MayStart
    <3>3. CASE StartCall(i)
      <4>1. pc' = pc /\ call[i] = "wait" /\ \E l \in {"run", "back"} : call' = [call EXCEPT ![i] = l]
        BY <3>3 DEF StartCall, MayStart
      <4>2. In("wait")' = In("wait") \ {i} /\ i \in In("wait")
        BY <1>1, <3>1, <4>1 DEF In, LoopInv, TypeOK
      <4> QED BY <3>1, <4>1, <4>2 DEF Lower, StepLower, CallsLower, StrictlyWithin
    <3>4. CASE EndCall(i)
      <4>1. pc' = pc /\ call[i] = "run" /\ call' = [call EXCEPT ![i] = "back"]
        BY <3>4 DEF EndCall
      <4>2. In("run")' = In("run") \ {i} /\ i \in In("run") /\ In("wait")' = In("wait")
        BY <1>1, <3>1, <4>1 DEF In, LoopInv, TypeOK
      <4> QED BY <3>1, <4>1, <4>2 DEF Lower, StepLower, CallsLower, StrictlyWithin
    <3>5. CASE BreakCall(i)
      <4>1. Rank(pc)' < Rank(pc)
        BY <3>2, <3>5 DEF BreakCall, Rank
      <4> QED BY <3>1, <4>1 DEF Lower, StepLower
    <3> QED BY <2>6, <3>3, <3>4, <3>5
  <2> QED BY <1>1, <2>1, <2>2, <2>3, <2>4, <2>5, <2>6 DEF Next, Progress, CallReturns
<1>2. LoopInv /\ LoopInv' /\ [Next]_vars => [Lower]_vars
  BY <1>1
<1> QED BY <1>2, LoopInvariant, PTL DEF Spec
=============================================================================
