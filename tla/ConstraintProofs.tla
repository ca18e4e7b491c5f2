-------------------------- MODULE ConstraintProofs --------------------------
(***************************************************************************)
(* What EvaluateAll guarantees for any registry, constraints and           *)
(* evaluators, and RegisterBuiltins for any built-ins and any other calls. *)
(***************************************************************************)
EXTENDS ConstraintEvaluation, BuiltinRegistration, RegistryProofs, FiniteSetTheorems

(* A decision is well formed, and satisfied on one ground only. *)
LEMMA JudgeFacts ==
  ASSUME NEW t \in Type, NEW evaluator \in MaybeEntry, NEW answer \in AnyAnswer \cup {NoAnswer}
  PROVE  /\ Judge(t, evaluator # NoEntry, answer) \in Decision
         /\ Judge(t, evaluator # NoEntry, answer).code = "satisfied" <=>
              Clean([type |-> t, evaluator |-> evaluator, answer |-> answer])
  BY DEF Judge, Decision, Clean, Code

LEMMA CountFacts ==
  ASSUME NEW r \in ReportState, NEW d \in Decision
  PROVE  /\ Count(r, d) \in ReportState
         /\ Count(r, d).status = "satisfied" <=>
              r.status = "satisfied" /\ d.code = "satisfied"
  BY DEF Count, ReportState

-----------------------------------------------------------------------------
(* EvaluateAll and its evaluators touch the registry only through its calls. *)

LEMMA HeadOfRest ==
  ASSUME EvalTypeOK, NEW g \in Goroutine, frame[g].rest # <<>>
  PROVE  Head(frame[g].rest) \in Type /\ Tail(frame[g].rest) \in Seq(Type)
<1>1. frame[g].rest \in Seq(Type)
  BY DEF EvalTypeOK, Frame
<1> QED
  BY <1>1

LEMMA LookUpCall ==
  ASSUME EvalTypeOK, NEW g \in Goroutine, LookUp(g)
  PROVE  Invoke(g)
<1>1. Head(frame[g].rest) \in Type
  BY HeadOfRest DEF LookUp
<1>2. [kind |-> "Get", type |-> Head(frame[g].rest)] \in Call
  BY <1>1 DEF Call, GetCall
<1> QED
  BY <1>2 DEF LookUp, Invoke

LEMMA RegistrySteps ==
  ASSUME EvalTypeOK, [EvalNext]_evalVars
  PROVE  [Next]_vars
<1>1. ASSUME NEW g \in Goroutine, RegistryStep(g) PROVE Next
  BY <1>1 DEF RegistryStep, Next
<1>2. ASSUME NEW g \in Goroutine, LookUp(g) PROVE Next
  BY <1>2, LookUpCall DEF Next
<1>3. ASSUME NEW g \in Goroutine, LookedUp(g) PROVE Next
  BY <1>3 DEF LookedUp, Next
<1>4. ASSUME NEW g \in Goroutine, Evaluate(g) \/ Answers(g) \/ Panics(g) \/ Report(g)
      PROVE  UNCHANGED vars
  BY <1>4 DEF Evaluate, Answers, Panics, Report, Leave
<1>5. CASE UNCHANGED evalVars
  BY <1>5 DEF evalVars
<1> QED
  BY <1>1, <1>2, <1>3, <1>4, <1>5 DEF EvalNext

-----------------------------------------------------------------------------
(* The state of a call and of its history: a frame past its loop's head has  *)
(* a constraint to decide, one that is not yet begun has no history, and the *)
(* report says of the log what FailsClosed claims.                           *)
Frames ==
  \A g \in Goroutine :
    /\ frame[g].at \in {"get", "run"} => frame[g].rest # <<>>
    /\ frame[g].at = "none" => frame[g].report = NewReport /\ log[g] = <<>>

EvalInv ==
  /\ IInv
  /\ EvalTypeOK
  /\ Frames
  /\ FailsClosed

LEMMA EvalInitially == EvalInit => EvalInv
<1>1. NoFrame \in Frame
  BY DEF NoFrame, NewReport, Frame, ReportState, MaybeEntry
<1> QED
  BY <1>1, Initially DEF EvalInit, EvalInv, EvalTypeOK, Frames, FailsClosed, NoFrame,
     NewReport, NothingHeld

(* Deciding a constraint keeps report and log in step. *)
LEMMA DecidedKeeps ==
  ASSUME EvalInv, NEW g \in Goroutine, frame[g].rest # <<>>,
         NEW evaluator \in MaybeEntry, NEW answer \in AnyAnswer \cup {NoAnswer},
         Decided(g, evaluator, answer), held' = held
  PROVE  EvalTypeOK' /\ Frames' /\ FailsClosed'
<1> DEFINE t == Head(frame[g].rest)
           o == [type |-> t, evaluator |-> evaluator, answer |-> answer]
           d == Judge(t, evaluator # NoEntry, answer)
           r == Count(frame[g].report, d)
<1>1. t \in Type /\ Tail(frame[g].rest) \in Seq(Type)
  BY HeadOfRest DEF EvalInv
<1>2. /\ d \in Decision
      /\ d.code = "satisfied" <=> Clean(o)
  BY <1>1, JudgeFacts
<1>0. frame[g].report \in ReportState
  BY DEF EvalInv, EvalTypeOK, Frame
<1>3. /\ r \in ReportState
      /\ r.status = "satisfied" <=> frame[g].report.status = "satisfied" /\ d.code = "satisfied"
  BY <1>0, <1>2, CountFacts
<1>4. /\ frame' = [frame EXCEPT ![g] = [at |-> "loop", rest |-> Tail(frame[g].rest),
                                        evaluator |-> NoEntry, report |-> r]]
      /\ log' = [log EXCEPT ![g] = Append(@, o)]
  BY DEF Decided
<1> HIDE DEF t, o, d, r
<1>5. o \in Outcome
  BY <1>1 DEF o, Outcome
<1>5a. [at |-> "loop", rest |-> Tail(frame[g].rest), evaluator |-> NoEntry,
        report |-> r] \in Frame
  BY <1>1, <1>3 DEF Frame, MaybeEntry
<1>6. EvalTypeOK'
  BY <1>4, <1>5, <1>5a DEF EvalInv, EvalTypeOK
<1>7. Frames'
  BY <1>4 DEF EvalInv, EvalTypeOK, Frames
<1>8. ASSUME NEW h \in Goroutine
      PROVE  frame'[h].report.status = "satisfied" <=>
               \A i \in 1 .. Len(log'[h]) : Clean(log'[h][i])
  <2>1. CASE h # g
    BY <1>4, <2>1 DEF EvalInv, EvalTypeOK, FailsClosed
  <2>2. CASE h = g
    <3>1. log[g] \in Seq(Outcome)
      BY DEF EvalInv, EvalTypeOK
    <3>2. log'[g] = Append(log[g], o) /\ frame'[g].report = r
      BY <1>4 DEF EvalInv, EvalTypeOK
    <3>3. /\ Len(log'[g]) = Len(log[g]) + 1
          /\ log'[g][Len(log[g]) + 1] = o
          /\ \A i \in 1 .. Len(log[g]) : log'[g][i] = log[g][i]
          /\ Len(log[g]) \in Nat
      BY <1>5, <3>1, <3>2
    <3>4. (\A i \in 1 .. Len(log'[g]) : Clean(log'[g][i])) <=>
            (\A i \in 1 .. Len(log[g]) : Clean(log[g][i])) /\ Clean(o)
      <4> DEFINE n == Len(log[g])
      <4>1. \A i \in 1 .. Len(log'[g]) : i = n + 1 \/ i \in 1 .. n
        BY <3>3
      <4>2. n + 1 \in 1 .. Len(log'[g]) /\ \A i \in 1 .. n : i \in 1 .. Len(log'[g])
        BY <3>3
      <4> HIDE DEF n
      <4>3. log'[g][n + 1] = o /\ \A i \in 1 .. n : log'[g][i] = log[g][i]
        BY <3>3 DEF n
      <4>4. (\A i \in 1 .. Len(log'[g]) : Clean(log'[g][i])) <=>
              (\A i \in 1 .. n : Clean(log[g][i])) /\ Clean(o)
        BY <4>1, <4>2, <4>3, Zenon
      <4> QED
        BY <4>4 DEF n
    <3>5. frame[g].report.status = "satisfied" <=> \A i \in 1 .. Len(log[g]) : Clean(log[g][i])
      BY DEF EvalInv, FailsClosed
    <3> QED
      BY <1>2, <1>3, <2>2, <3>2, <3>4, <3>5
  <2> QED
    BY <2>1, <2>2
<1>9. FailsClosed'
  BY <1>8 DEF FailsClosed
<1> QED
  BY <1>6, <1>7, <1>9

LEMMA LeaveKeeps ==
  ASSUME EvalInv, NEW g \in Goroutine, Leave(g)
  PROVE  EvalInv'
<1>1. IInv'
  BY Inductive DEF EvalInv, Leave
<1>0. NoFrame \in Frame
  BY DEF NoFrame, NewReport, Frame, ReportState, MaybeEntry
<1>2. EvalTypeOK'
  BY <1>0 DEF EvalInv, EvalTypeOK, Leave, NothingHeld
<1>3. Frames'
  BY DEF EvalInv, EvalTypeOK, Leave, NoFrame, Frames
<1>4. FailsClosed'
  BY DEF EvalInv, EvalTypeOK, Leave, NoFrame, NewReport, FailsClosed
<1> QED
  BY <1>1, <1>2, <1>3, <1>4 DEF EvalInv

LEMMA EvalInductive == EvalInv /\ [EvalNext]_evalVars => EvalInv'
<1> SUFFICES ASSUME EvalInv, [EvalNext]_evalVars PROVE EvalInv'
  OBVIOUS
<1>0. IInv' /\ TypeOK /\ TypeOK'
  BY RegistrySteps, Inductive DEF EvalInv, IInv
<1>1. ASSUME NEW g \in Goroutine, Evaluate(g) PROVE EvalInv'
  <2>1. PICK cs \in Seq(Type) : frame' = [frame EXCEPT ![g] = FrameFor(cs)]
    BY <1>1, EvaluationConstants DEF Evaluate
  <2>2. FrameFor(cs) \in Frame
    BY DEF FrameFor, NewReport, Frame, ReportState, MaybeEntry
  <2>3. [t \in Type |-> {entries[t]}] \in [Type -> SUBSET MaybeEntry]
    BY <1>0 DEF TypeOK
  <2>4. log' = log /\ held' = [held EXCEPT ![g] = [t \in Type |-> {entries[t]}]]
    BY <1>1 DEF Evaluate
  <2>5. EvalTypeOK'
    BY <2>1, <2>2, <2>3, <2>4 DEF EvalInv, EvalTypeOK
  <2>6. /\ log[g] = <<>>
        /\ frame'[g].report.status = "satisfied" /\ frame'[g].at = "loop"
        /\ \A h \in Goroutine \ {g} : frame'[h] = frame[h]
    BY <1>1, <2>1 DEF Evaluate, EvalInv, EvalTypeOK, Frames, FrameFor, NewReport
  <2>7. Frames'
    BY <2>4, <2>6 DEF EvalInv, Frames
  <2>8. FailsClosed'
    BY <2>4, <2>6 DEF EvalInv, FailsClosed
  <2> QED
    BY <1>0, <2>5, <2>7, <2>8 DEF EvalInv
<1>2. ASSUME NEW g \in Goroutine, LookUp(g) PROVE EvalInv'
  <2>1. EvalTypeOK'
    BY <1>2 DEF LookUp, EvalInv, EvalTypeOK, Frame
  <2>2. Frames'
    BY <1>2 DEF LookUp, EvalInv, EvalTypeOK, Frames
  <2>3. FailsClosed'
    BY <1>2 DEF LookUp, EvalInv, EvalTypeOK, FailsClosed
  <2> QED
    BY <1>0, <2>1, <2>2, <2>3 DEF EvalInv
<1>3. ASSUME NEW g \in Goroutine, LookedUp(g) PROVE EvalInv'
  <2>1. frame[g].rest # <<>> /\ got[g] \in MaybeEntry
    BY <1>0, <1>3 DEF LookedUp, EvalInv, TypeOK, Frames
  <2>2. CASE Decided(g, NoEntry, NoAnswer)
    <3>1. held' = held
      BY <1>3 DEF LookedUp
    <3>2. NoEntry \in MaybeEntry
      BY DEF MaybeEntry
    <3> QED
      BY <1>0, <2>1, <2>2, <3>1, <3>2, DecidedKeeps DEF EvalInv
  <2>3. CASE /\ frame' = [frame EXCEPT ![g].at = "run", ![g].evaluator = got[g]]
             /\ UNCHANGED <<log, held>>
    <3>1. EvalTypeOK'
      BY <2>1, <2>3 DEF EvalInv, EvalTypeOK, Frame
    <3>2. Frames'
      BY <2>1, <2>3 DEF EvalInv, EvalTypeOK, Frames
    <3>3. FailsClosed'
      BY <2>3 DEF EvalInv, EvalTypeOK, FailsClosed
    <3> QED
      BY <1>0, <3>1, <3>2, <3>3 DEF EvalInv
  <2> QED
    BY <1>3, <2>2, <2>3 DEF LookedUp
<1>4. ASSUME NEW g \in Goroutine, Answers(g) PROVE EvalInv'
  <2>1. PICK answer \in Answer : Decided(g, frame[g].evaluator, answer)
    BY <1>4 DEF Answers
  <2>2. answer \in AnyAnswer \cup {NoAnswer} /\ frame[g].evaluator \in MaybeEntry
    BY EvaluationConstants DEF EvalInv, EvalTypeOK, Frame
  <2>3. frame[g].rest # <<>> /\ held' = held
    BY <1>4 DEF Answers, EvalInv, Frames
  <2> QED
    BY <1>0, <2>1, <2>2, <2>3, DecidedKeeps DEF EvalInv
<1>5. ASSUME NEW g \in Goroutine, Panics(g) \/ Report(g) PROVE EvalInv'
  BY <1>5, LeaveKeeps DEF Panics, Report
<1>6. ASSUME NEW g \in Goroutine, RegistryStep(g) PROVE EvalInv'
  <2>1. \A h \in Goroutine :
          [t \in Type |-> held[h][t] \cup {entries'[t]}] \in [Type -> SUBSET MaybeEntry]
    BY <1>0 DEF EvalInv, EvalTypeOK, TypeOK
  <2>2. held' \in [Goroutine -> [Type -> SUBSET MaybeEntry]]
    BY <1>6, <2>1 DEF RegistryStep, EvalInv, EvalTypeOK
  <2>3. EvalTypeOK'
    BY <1>6, <2>2 DEF RegistryStep, EvalInv, EvalTypeOK
  <2> QED
    BY <1>0, <1>6, <2>3 DEF RegistryStep, EvalInv, FailsClosed, Frames
<1>7. CASE UNCHANGED evalVars
  BY <1>0, <1>7 DEF evalVars, EvalInv, EvalTypeOK, FailsClosed, Frames
<1> QED
  BY <1>1, <1>2, <1>3, <1>4, <1>5, <1>6, <1>7 DEF EvalNext

-----------------------------------------------------------------------------
(* Where evaluators come from: during a call the history has what the map    *)
(* holds, and what Get answers has been in the map since the call began.     *)
JudgingInv ==
  /\ \A g \in Goroutine :
       /\ frame[g].at # "none" => \A t \in Type : entries[t] \in held[g][t]
       /\ frame[g].at = "get" =>
            /\ call[g] = [kind |-> "Get", type |-> Head(frame[g].rest)]
            /\ HasAnswer(g) => got[g] \in held[g][Head(frame[g].rest)]
  /\ JudgedByRegistered

(* A Get has its answer from the map of that moment, and keeps it. *)
LEMMA GetSettles ==
  ASSUME IInv, NEW g \in Goroutine, Announce(g) \/ Work(g),
         NEW h \in Goroutine, call[h].kind = "Get", HasAnswer(h)'
  PROVE  \/ HasAnswer(h) /\ got'[h] = got[h]
         \/ got'[h] = entries'[call[h].type]
<1>0. TypeOK /\ CallInv
  BY DEF IInv
<1>1. CASE h # g
  BY <1>0, <1>1 DEF Announce, Work, Reject, Lock, Unlock, RLock, RUnlock, RegisterCheck,
     RegisterInsert, UnregisterCheck, UnregisterDelete, Lookup, CollectType, EndTypes, Goto,
     TypeOK, HasAnswer
<1>2. CASE h = g
  <2>1. ~Writing(g)
    BY <1>0, <1>2 DEF CallInv, Writes
  <2> QED
    BY <1>0, <1>2, <2>1 DEF Announce, Work, Reject, Lock, Unlock, RLock, RUnlock, RegisterCheck,
       RegisterInsert, UnregisterCheck, UnregisterDelete, Lookup, CollectType, EndTypes, Goto,
       TypeOK, HasAnswer, Writing
<1> QED
  BY <1>1, <1>2

LEMMA CallKept ==
  ASSUME NEW g \in Goroutine, Announce(g) \/ Work(g)
  PROVE  call' = call
  BY DEF Announce, Work, Reject, Lock, Unlock, RLock, RUnlock, RegisterCheck,
     RegisterInsert, UnregisterCheck, UnregisterDelete, Lookup, CollectType, EndTypes

(* Deciding a constraint by an evaluator of this call. *)
LEMMA DecidedJudges ==
  ASSUME EvalInv, JudgingInv, NEW g \in Goroutine, frame[g].rest # <<>>,
         NEW evaluator \in held[g][Head(frame[g].rest)], NEW answer \in AnyAnswer \cup {NoAnswer},
         Decided(g, evaluator, answer), held' = held
  PROVE  JudgedByRegistered' /\ frame'[g].at = "loop" /\ \A h \in Goroutine \ {g} : frame'[h] = frame[h]
<1> DEFINE t == Head(frame[g].rest)
           o == [type |-> t, evaluator |-> evaluator, answer |-> answer]
<1>0. t \in Type /\ evaluator \in MaybeEntry
  BY HeadOfRest DEF EvalInv, EvalTypeOK
<1>1. o \in Outcome /\ o.type = t /\ o.evaluator = evaluator
  BY <1>0 DEF Outcome
<1>2. /\ log' = [log EXCEPT ![g] = Append(@, o)]
      /\ frame'[g].at = "loop" /\ \A h \in Goroutine \ {g} : frame'[h] = frame[h]
  BY DEF Decided, EvalInv, EvalTypeOK
<1> HIDE DEF o
<1>3. log[g] \in Seq(Outcome) /\ log'[g] = Append(log[g], o)
      /\ \A h \in Goroutine \ {g} : log'[h] = log[h]
  BY <1>2 DEF EvalInv, EvalTypeOK
<1>4. \A i \in 1 .. Len(log'[g]) :
        (i \in 1 .. Len(log[g]) /\ log'[g][i] = log[g][i]) \/ log'[g][i] = o
  BY <1>1, <1>3
<1>5. \A i \in 1 .. Len(log[g]) : log[g][i].evaluator \in held[g][log[g][i].type]
  BY DEF JudgingInv, JudgedByRegistered
<1>6. \A i \in 1 .. Len(log'[g]) : log'[g][i].evaluator \in held[g][log'[g][i].type]
  BY <1>1, <1>4, <1>5
<1> QED
  BY <1>2, <1>3, <1>6 DEF JudgingInv, JudgedByRegistered

LEMMA JudgingInductive ==
  ASSUME EvalInv, EvalInv', JudgingInv, [EvalNext]_evalVars
  PROVE  JudgingInv'
<1>1. ASSUME NEW g \in Goroutine, Evaluate(g) PROVE JudgingInv'
  <2>1. PICK cs \in ConstraintLists : frame' = [frame EXCEPT ![g] = FrameFor(cs)]
    BY <1>1 DEF Evaluate
  <2>2. /\ frame'[g].at = "loop" /\ log' = log /\ log[g] = <<>>
        /\ \A t \in Type : entries[t] \in held'[g][t]
        /\ entries' = entries /\ call' = call /\ pc' = pc /\ got' = got
        /\ \A h \in Goroutine \ {g} : frame'[h] = frame[h] /\ held'[h] = held[h]
    BY <1>1, <2>1 DEF Evaluate, FrameFor, EvalInv, EvalTypeOK, Frames, vars
  <2> QED
    BY <2>2 DEF JudgingInv, JudgedByRegistered, HasAnswer
<1>2. ASSUME NEW g \in Goroutine, LookUp(g) PROVE JudgingInv'
  <2>1. /\ frame[g].at = "loop" /\ frame'[g].at = "get" /\ frame'[g].rest = frame[g].rest
        /\ call'[g] = [kind |-> "Get", type |-> Head(frame[g].rest)] /\ pc'[g] = "start"
        /\ entries' = entries /\ got' = got /\ log' = log /\ held' = held
        /\ \A h \in Goroutine \ {g} :
             frame'[h] = frame[h] /\ call'[h] = call[h] /\ pc'[h] = pc[h]
    BY <1>2 DEF LookUp, Begin, Goto, EvalInv, EvalTypeOK, Frame, IInv, TypeOK
  <2> QED
    BY <2>1 DEF JudgingInv, JudgedByRegistered, HasAnswer
<1>3. ASSUME NEW g \in Goroutine, LookedUp(g) PROVE JudgingInv'
  <2>1. /\ entries' = entries /\ held' = held
        /\ \A h \in Goroutine \ {g} : call'[h] = call[h] /\ pc'[h] = pc[h] /\ got'[h] = got[h]
    BY <1>3 DEF LookedUp, Return, Goto, EvalInv, IInv, TypeOK
  <2>2. frame[g].at = "get" /\ frame[g].rest # <<>> /\ got[g] \in held[g][Head(frame[g].rest)]
    BY <1>3 DEF LookedUp, Return, EvalInv, Frames, JudgingInv, HasAnswer
  <2>3. CASE got[g] = NoEntry /\ Decided(g, NoEntry, NoAnswer)
    <3>1. JudgedByRegistered' /\ frame'[g].at = "loop" /\ \A h \in Goroutine \ {g} : frame'[h] = frame[h]
      BY <2>1, <2>2, <2>3, DecidedJudges
    <3> QED
      BY <2>1, <2>2, <3>1 DEF JudgingInv, HasAnswer
  <2>4. CASE /\ got[g] # NoEntry
             /\ frame' = [frame EXCEPT ![g].at = "run", ![g].evaluator = got[g]]
             /\ UNCHANGED log
    <3>1. /\ frame'[g].at = "run" /\ frame'[g].rest = frame[g].rest /\ frame'[g].evaluator = got[g]
          /\ \A h \in Goroutine \ {g} : frame'[h] = frame[h]
      BY <2>4 DEF EvalInv, EvalTypeOK, Frame
    <3>2. JudgedByRegistered'
      <4>1. log' = log /\ \A h \in Goroutine : \A i \in 1 .. Len(log[h]) :
              log[h][i].evaluator \in held[h][log[h][i].type]
        BY <2>4 DEF JudgingInv, JudgedByRegistered
      <4>2. \A h \in Goroutine : frame'[h].at = "run" =>
              frame'[h].evaluator \in held[h][Head(frame'[h].rest)] \ {NoEntry}
        <5>1. frame'[g].evaluator \in held[g][Head(frame'[g].rest)] \ {NoEntry}
          BY <2>2, <2>4, <3>1
        <5>2. \A h \in Goroutine \ {g} : frame[h].at = "run" =>
                frame[h].evaluator \in held[h][Head(frame[h].rest)] \ {NoEntry}
          BY DEF JudgingInv, JudgedByRegistered
        <5> QED
          BY <3>1, <5>1, <5>2
      <4> QED
        BY <2>1, <4>1, <4>2 DEF JudgedByRegistered
    <3> QED
      BY <2>1, <2>2, <3>1, <3>2 DEF JudgingInv, HasAnswer
  <2> QED
    BY <1>3, <2>3, <2>4 DEF LookedUp
<1>4. ASSUME NEW g \in Goroutine, Answers(g) PROVE JudgingInv'
  <2>1. PICK answer \in Answer : Decided(g, frame[g].evaluator, answer)
    BY <1>4 DEF Answers
  <2>2. /\ answer \in AnyAnswer \cup {NoAnswer} /\ frame[g].rest # <<>> /\ frame[g].at = "run"
        /\ frame[g].evaluator \in held[g][Head(frame[g].rest)]
        /\ entries' = entries /\ held' = held /\ call' = call /\ pc' = pc /\ got' = got
    BY <1>4, EvaluationConstants DEF Answers, vars, EvalInv, Frames, JudgingInv, JudgedByRegistered
  <2>3. JudgedByRegistered' /\ frame'[g].at = "loop" /\ \A h \in Goroutine \ {g} : frame'[h] = frame[h]
    BY <2>1, <2>2, DecidedJudges
  <2> QED
    BY <2>2, <2>3 DEF JudgingInv, HasAnswer
<1>5. ASSUME NEW g \in Goroutine, Leave(g) PROVE JudgingInv'
  <2>1. /\ frame'[g].at = "none" /\ log'[g] = <<>>
        /\ entries' = entries /\ call' = call /\ pc' = pc /\ got' = got
        /\ \A h \in Goroutine \ {g} : frame'[h] = frame[h] /\ held'[h] = held[h] /\ log'[h] = log[h]
    BY <1>5 DEF Leave, NoFrame, vars, EvalInv, EvalTypeOK
  <2> QED
    BY <2>1 DEF JudgingInv, JudgedByRegistered, HasAnswer
<1>6. ASSUME NEW g \in Goroutine, RegistryStep(g) PROVE JudgingInv'
  <2>1. /\ frame' = frame /\ log' = log
        /\ \A h \in Goroutine : frame[h].at = "none" => held'[h] = held[h]
        /\ \A h \in Goroutine : frame[h].at # "none" =>
             \A t \in Type : held[h][t] \subseteq held'[h][t] /\ entries'[t] \in held'[h][t]
    BY <1>6 DEF RegistryStep
  <2>2. ASSUME NEW h \in Goroutine, frame[h].at = "get"
        PROVE  /\ call'[h] = call[h]
               /\ HasAnswer(h)' => got'[h] \in held'[h][Head(frame[h].rest)]
    <3>1. /\ call[h] = [kind |-> "Get", type |-> Head(frame[h].rest)]
          /\ HasAnswer(h) => got[h] \in held[h][Head(frame[h].rest)]
          /\ Head(frame[h].rest) \in Type
      BY <2>2, HeadOfRest DEF JudgingInv, EvalInv, Frames
    <3>2. CASE Free(g) /\ (Invoke(g) \/ Return(g))
      <4>1. /\ g # h /\ call'[h] = call[h] /\ got'[h] = got[h] /\ pc'[h] = pc[h]
        BY <2>2, <3>2 DEF Free, Invoke, Begin, Return, Goto, EvalInv, IInv, TypeOK
      <4> QED
        BY <2>1, <2>2, <3>1, <4>1 DEF HasAnswer
    <3>3. CASE Announce(g) \/ Work(g)
      <4>1. call' = call
        BY <3>3, CallKept
      <4>2. ASSUME HasAnswer(h)' PROVE got'[h] \in held'[h][Head(frame[h].rest)]
        <5>1. \/ HasAnswer(h) /\ got'[h] = got[h]
              \/ got'[h] = entries'[call[h].type]
          BY <3>1, <3>3, <4>2, GetSettles DEF EvalInv
        <5> QED
          BY <2>1, <2>2, <3>1, <5>1
      <4> QED
        BY <4>1, <4>2
    <3> QED
      BY <1>6, <3>2, <3>3 DEF RegistryStep
  <2>3. JudgedByRegistered'
    <3>1. ASSUME NEW h \in Goroutine, NEW i \in 1 .. Len(log[h])
          PROVE  log[h][i].evaluator \in held'[h][log[h][i].type]
      <4>1. frame[h].at # "none"
        BY <3>1 DEF EvalInv, Frames
      <4>2. log[h][i].type \in Type
        <5>1. log[h] \in Seq(Outcome)
          BY DEF EvalInv, EvalTypeOK
        <5>2. log[h][i] \in Outcome
          BY <3>1, <5>1
        <5> QED
          BY <5>2 DEF Outcome
      <4> QED
        BY <2>1, <3>1, <4>1, <4>2 DEF JudgingInv, JudgedByRegistered
    <3>2. ASSUME NEW h \in Goroutine, frame[h].at = "run"
          PROVE  frame[h].evaluator \in held'[h][Head(frame[h].rest)] \ {NoEntry}
      <4>1. Head(frame[h].rest) \in Type
        BY <3>2, HeadOfRest DEF EvalInv, Frames
      <4> QED
        BY <2>1, <3>2, <4>1 DEF JudgingInv, JudgedByRegistered
    <3> QED
      BY <2>1, <3>1, <3>2 DEF JudgedByRegistered
  <2> QED
    BY <2>1, <2>2, <2>3 DEF JudgingInv
<1>7. CASE UNCHANGED evalVars
  BY <1>7 DEF evalVars, vars, JudgingInv, JudgedByRegistered, HasAnswer
<1>8. ASSUME NEW g \in Goroutine, Panics(g) \/ Report(g) PROVE JudgingInv'
  BY <1>5, <1>8 DEF Panics, Report
<1> QED
  BY <1>1, <1>2, <1>3, <1>4, <1>6, <1>7, <1>8 DEF EvalNext

-----------------------------------------------------------------------------
(* What the report accounts for: one more constraint is either satisfied,  *)
(* and then nothing in it changes, or the last of the positions that its   *)
(* violations stand for.                                                   *)

LEMMA ListingGrows ==
  ASSUME NEW k \in Nat, NEW n \in Nat, NEW S \in SUBSET (1 .. n), NEW p \in Listings(k, S)
  PROVE  [i \in 1 .. k + 1 |-> IF i = k + 1 THEN n + 1 ELSE p[i]]
           \in Listings(k + 1, S \cup {n + 1})
<1> DEFINE q == [i \in 1 .. k + 1 |-> IF i = k + 1 THEN n + 1 ELSE p[i]]
<1>1. /\ p \in [1 .. k -> S]
      /\ \A i, j \in 1 .. k : i < j => p[i] < p[j]
      /\ \A s \in S : \E i \in 1 .. k : p[i] = s
  BY DEF Listings
<1>2. ASSUME NEW i \in 1 .. k
      PROVE  i \in 1 .. k + 1 /\ q[i] = p[i] /\ p[i] \in S /\ p[i] \in 1 .. n
  <2>1. p[i] \in S
    BY <1>1
  <2>2. i \in 1 .. k + 1 /\ i # k + 1
    OBVIOUS
  <2> QED
    BY <2>1, <2>2
<1>3. k + 1 \in 1 .. k + 1 /\ q[k + 1] = n + 1
  OBVIOUS
<1>4. \A i \in 1 .. k + 1 : i \in 1 .. k \/ i = k + 1
  OBVIOUS
<1>5. q \in [1 .. k + 1 -> S \cup {n + 1}]
  BY <1>1, <1>4
<1> HIDE DEF q
<1>6. ASSUME NEW i \in 1 .. k + 1, NEW j \in 1 .. k + 1, i < j PROVE q[i] < q[j]
  <2>1. i \in 1 .. k /\ q[i] = p[i] /\ p[i] \in 1 .. n
    BY <1>2, <1>6
  <2>2. CASE j \in 1 .. k
    <3>1. p[i] < p[j]
      BY <1>1, <1>6, <2>1, <2>2
    <3> QED
      BY <1>2, <2>1, <2>2, <3>1
  <2>3. CASE j = k + 1
    BY <1>3, <2>1, <2>3
  <2> QED
    BY <1>4, <2>2, <2>3
<1>7. ASSUME NEW s \in S \cup {n + 1} PROVE \E i \in 1 .. k + 1 : q[i] = s
  BY <1>1, <1>2, <1>3
<1> QED
  BY <1>5, <1>6, <1>7 DEF Listings, q

LEMMA PositionsGrow ==
  ASSUME NEW l \in Seq(Outcome), NEW o \in Outcome
  PROVE  LET n == Len(l) IN
         /\ n \in Nat /\ Failed(l) \in SUBSET (1 .. n) /\ Missed(l) \in SUBSET (1 .. n)
         /\ Append(l, o)[n + 1] = o /\ \A i \in 1 .. n : Append(l, o)[i] = l[i]
         /\ Failed(Append(l, o)) = IF Clean(o) THEN Failed(l) ELSE Failed(l) \cup {n + 1}
         /\ Missed(Append(l, o)) = IF o.evaluator = NoEntry THEN Missed(l) \cup {n + 1}
                                                           ELSE Missed(l)
<1> DEFINE n == Len(l)
           m == Append(l, o)
<1>1. n \in Nat /\ Len(m) = n + 1 /\ m[n + 1] = o /\ \A i \in 1 .. n : m[i] = l[i]
  OBVIOUS
<1>2. Failed(l) \in SUBSET (1 .. n) /\ Missed(l) \in SUBSET (1 .. n)
  BY DEF Failed, Missed
<1>3. 1 .. Len(m) = 1 .. n \cup {n + 1}
  BY <1>1
<1>4. Failed(l) = {i \in 1 .. n : ~Clean(l[i])} /\ Missed(l) = {i \in 1 .. n : l[i].evaluator = NoEntry}
  BY DEF Failed, Missed
<1>5. /\ Failed(m) = {i \in 1 .. n \cup {n + 1} : ~Clean(m[i])}
      /\ Missed(m) = {i \in 1 .. n \cup {n + 1} : m[i].evaluator = NoEntry}
  BY <1>3 DEF Failed, Missed
<1> HIDE DEF n, m
<1>6. /\ Failed(m) = IF Clean(o) THEN Failed(l) ELSE Failed(l) \cup {n + 1}
      /\ Missed(m) = IF o.evaluator = NoEntry THEN Missed(l) \cup {n + 1} ELSE Missed(l)
  BY <1>1, <1>4, <1>5
<1> QED
  BY <1>1, <1>2, <1>6 DEF n, m

LEMMA AccountsGrow ==
  ASSUME NEW r \in ReportState, NEW l \in Seq(Outcome), Accounts(r, l),
         NEW t \in Type, NEW evaluator \in MaybeEntry, NEW answer \in AnyAnswer \cup {NoAnswer}
  PROVE  Accounts(Count(r, Judge(t, evaluator # NoEntry, answer)),
                  Append(l, [type |-> t, evaluator |-> evaluator, answer |-> answer]))
<1> DEFINE o == [type |-> t, evaluator |-> evaluator, answer |-> answer]
           d == Judge(t, evaluator # NoEntry, answer)
           s == Count(r, d)
           m == Append(l, o)
           n == Len(l)
           k == Len(r.violations)
<1> SUFFICES Accounts(s, m)
  OBVIOUS
<1>1. /\ d \in Decision
      /\ d.code = "satisfied" <=> Clean(o)
      /\ AccountsFor(d, o)
      /\ Clean(o) => o.evaluator # NoEntry
  BY JudgeFacts DEF AccountsFor, Judge, Code, Clean
<1>2. o \in Outcome
  BY DEF Outcome
<1>3. /\ s.violations = IF d.code = "satisfied" THEN r.violations ELSE Append(r.violations, d)
      /\ s.unrecognized = IF d.code = "unrecognized" THEN r.unrecognized + 1 ELSE r.unrecognized
  BY DEF Count
<1>4. r.violations \in Seq(Decision) /\ r.unrecognized \in Nat /\ k \in Nat
  BY DEF ReportState
<1>5. d.code = "unrecognized" <=> o.evaluator = NoEntry
  BY <1>1 DEF AccountsFor
<1> HIDE DEF o, d, s
<1>6. /\ n \in Nat /\ Failed(l) \in SUBSET (1 .. n) /\ Missed(l) \in SUBSET (1 .. n)
      /\ m[n + 1] = o /\ \A i \in 1 .. n : m[i] = l[i]
      /\ Failed(m) = IF Clean(o) THEN Failed(l) ELSE Failed(l) \cup {n + 1}
      /\ Missed(m) = IF o.evaluator = NoEntry THEN Missed(l) \cup {n + 1} ELSE Missed(l)
  BY <1>2, PositionsGrow
<1>7. PICK place \in Listings(k, Failed(l)) :
        \A i \in 1 .. k : AccountsFor(r.violations[i], l[place[i]])
  BY DEF Accounts
<1>8. \A i \in 1 .. k : place[i] \in 1 .. n
  BY <1>6, <1>7 DEF Listings
<1>9. s.unrecognized = Cardinality(Missed(m))
  <2>1. IsFiniteSet(1 .. n)
    <3>1. 1 \in Int /\ n \in Int
      BY <1>6
    <3> HIDE DEF n
    <3> QED
      BY <3>1, FS_Interval, Zenon
  <2>2. IsFiniteSet(Missed(l)) /\ n + 1 \notin Missed(l)
    <3>1. n + 1 \notin 1 .. n
      BY <1>6
    <3> HIDE DEF n, m
    <3>2. IsFiniteSet(Missed(l))
      BY <1>6, <2>1, FS_Subset
    <3> QED
      BY <1>6, <3>1, <3>2
  <2>3. Cardinality(Missed(l) \cup {n + 1}) = Cardinality(Missed(l)) + 1
    BY <2>2, FS_AddElement
  <2>4. r.unrecognized = Cardinality(Missed(l))
    BY DEF Accounts
  <2> HIDE DEF n, m
  <2> QED
    BY <1>3, <1>5, <1>6, <2>3, <2>4
<1> HIDE DEF n, m
<1>10. CASE Clean(o)
  <2>1. s.violations = r.violations /\ Failed(m) = Failed(l)
    BY <1>1, <1>3, <1>6, <1>10
  <2>2. \A i \in 1 .. k : AccountsFor(s.violations[i], m[place[i]])
    BY <1>6, <1>7, <1>8, <2>1
  <2> QED
    BY <1>7, <1>9, <2>1, <2>2 DEF Accounts
<1>11. CASE ~Clean(o)
  <2> DEFINE q == [i \in 1 .. k + 1 |-> IF i = k + 1 THEN n + 1 ELSE place[i]]
  <2>1. q \in Listings(k + 1, Failed(m))
    BY <1>4, <1>6, <1>11, ListingGrows
  <2>2. /\ s.violations = Append(r.violations, d) /\ Len(s.violations) = k + 1
        /\ s.violations[k + 1] = d /\ \A i \in 1 .. k : s.violations[i] = r.violations[i]
    <3>1. s.violations = Append(r.violations, d)
      BY <1>1, <1>3, <1>11
    <3> QED
      BY <1>1, <1>4, <3>1
  <2> HIDE DEF k
  <2>3. \A i \in 1 .. k + 1 : i = k + 1 \/ (i \in 1 .. k /\ i # k + 1)
    BY <1>4
  <2>4. \A i \in 1 .. k + 1 : AccountsFor(s.violations[i], m[q[i]])
    <3>1. AccountsFor(s.violations[k + 1], m[q[k + 1]])
      BY <1>1, <1>4, <1>6, <2>2
    <3>2. ASSUME NEW i \in 1 .. k, i # k + 1 PROVE AccountsFor(s.violations[i], m[q[i]])
      BY <1>4, <1>6, <1>7, <1>8, <2>2, <3>2
    <3> QED
      BY <2>3, <3>1, <3>2
  <2> HIDE DEF q
  <2> QED
    BY <1>9, <2>1, <2>2, <2>4 DEF Accounts
<1> QED
  BY <1>10, <1>11

LEMMA NothingToAccountFor == Accounts(NewReport, <<>>)
<1>1. Missed(<<>>) = {} /\ Failed(<<>>) = {}
  BY DEF Missed, Failed
<1>2. [i \in 1 .. 0 |-> 0] \in Listings(0, {})
  BY DEF Listings
<1>3. NewReport.unrecognized = 0 /\ NewReport.violations = <<>> /\ Len(<<>>) = 0
  BY DEF NewReport
<1>4. Cardinality({}) = 0
  BY FS_EmptySet
<1> QED
  BY <1>1, <1>2, <1>3, <1>4 DEF Accounts

LEMMA AccountsInductive ==
  ASSUME EvalInv, EvalInv', ReportAccountsForAll, [EvalNext]_evalVars
  PROVE  ReportAccountsForAll'
<1>1. ASSUME NEW g \in Goroutine, NEW evaluator \in MaybeEntry,
             NEW answer \in AnyAnswer \cup {NoAnswer},
             frame[g].rest # <<>>, Decided(g, evaluator, answer)
      PROVE  ReportAccountsForAll'
  <2> DEFINE t == Head(frame[g].rest)
             o == [type |-> t, evaluator |-> evaluator, answer |-> answer]
             r == Count(frame[g].report, Judge(t, evaluator # NoEntry, answer))
  <2>1. t \in Type /\ frame[g].report \in ReportState /\ log[g] \in Seq(Outcome)
    BY <1>1, HeadOfRest DEF EvalInv, EvalTypeOK, Frame
  <2>2. Accounts(r, Append(log[g], o))
    BY <2>1, AccountsGrow DEF ReportAccountsForAll
  <2>3. /\ frame' = [frame EXCEPT ![g] = [at |-> "loop", rest |-> Tail(frame[g].rest),
                                          evaluator |-> NoEntry, report |-> r]]
        /\ log' = [log EXCEPT ![g] = Append(@, o)]
    BY <1>1 DEF Decided
  <2> HIDE DEF o, r, t
  <2>4. /\ frame'[g].report = r /\ log'[g] = Append(log[g], o)
        /\ \A h \in Goroutine \ {g} : frame'[h] = frame[h] /\ log'[h] = log[h]
    BY <2>3 DEF EvalInv, EvalTypeOK
  <2> QED
    BY <2>2, <2>4 DEF ReportAccountsForAll
<1>2. ASSUME NEW g \in Goroutine, Evaluate(g) \/ Panics(g) \/ Report(g)
      PROVE  ReportAccountsForAll'
  <2>1. /\ frame'[g].report = NewReport /\ log'[g] = <<>>
        /\ \A h \in Goroutine \ {g} : frame'[h] = frame[h] /\ log'[h] = log[h]
    BY <1>2 DEF Evaluate, FrameFor, Panics, Report, Leave, NoFrame, EvalInv, EvalTypeOK, Frames
  <2> QED
    BY <2>1, NothingToAccountFor DEF ReportAccountsForAll
<1>3. ASSUME NEW g \in Goroutine, Answers(g) PROVE ReportAccountsForAll'
  <2>1. PICK answer \in Answer : Decided(g, frame[g].evaluator, answer)
    BY <1>3 DEF Answers
  <2>2. /\ answer \in AnyAnswer \cup {NoAnswer} /\ frame[g].evaluator \in MaybeEntry
        /\ frame[g].rest # <<>>
    BY <1>3, EvaluationConstants DEF Answers, EvalInv, EvalTypeOK, Frame, Frames
  <2> QED
    BY <1>1, <2>1, <2>2
<1>4. ASSUME UNCHANGED log, \A g \in Goroutine : frame'[g].report = frame[g].report
      PROVE  ReportAccountsForAll'
  BY <1>4 DEF ReportAccountsForAll
<1>5. ASSUME NEW g \in Goroutine, LookedUp(g) PROVE ReportAccountsForAll'
  <2>1. frame[g].rest # <<>> /\ NoEntry \in MaybeEntry
    BY <1>5 DEF LookedUp, EvalInv, Frames, MaybeEntry
  <2>2. CASE Decided(g, NoEntry, NoAnswer)
    BY <1>1, <2>1, <2>2
  <2>3. CASE /\ frame' = [frame EXCEPT ![g].at = "run", ![g].evaluator = got[g]]
             /\ UNCHANGED log
    BY <1>4, <2>3 DEF EvalInv, EvalTypeOK, Frame
  <2> QED
    BY <1>5, <2>2, <2>3 DEF LookedUp
<1>6. ASSUME NEW g \in Goroutine, LookUp(g) PROVE ReportAccountsForAll'
  BY <1>4, <1>6 DEF LookUp, EvalInv, EvalTypeOK, Frame
<1>7. CASE \/ \E g \in Goroutine : RegistryStep(g)
           \/ UNCHANGED evalVars
  BY <1>4, <1>7 DEF RegistryStep, evalVars
<1> QED
  BY <1>2, <1>3, <1>5, <1>6, <1>7 DEF EvalNext

-----------------------------------------------------------------------------
LEMMA EvalInvariance == EvalSpec => []EvalInv
  BY EvalInitially, EvalInductive, PTL DEF EvalSpec

LEMMA JudgingInvariance == EvalSpec => []JudgingInv
<1>1. EvalInit => JudgingInv
  BY DEF EvalInit, NoFrame, JudgingInv, JudgedByRegistered
<1>2. JudgingInv /\ EvalInv /\ EvalInv' /\ [EvalNext]_evalVars => JudgingInv'
  BY JudgingInductive
<1> QED
  BY <1>1, <1>2, EvalInvariance, PTL DEF EvalSpec

(* A report is satisfied exactly when every constraint was found an          *)
(* evaluator for and satisfied by it, whatever the evaluators answer and     *)
(* whatever is registered and unregistered meanwhile.                        *)
THEOREM ReportsFailClosed == EvalSpec => []FailsClosed
<1>1. EvalInv => FailsClosed
  BY DEF EvalInv
<1> QED
  BY <1>1, EvalInvariance, PTL

(* While an evaluator runs, and is not itself inside a registry call, the *)
(* goroutine that runs it holds and awaits no lock.                       *)
THEOREM EvaluatorsUnlocked == EvalSpec => []EvaluatorRunsUnlocked
<1>1. EvalInv => EvaluatorRunsUnlocked
  BY DEF EvalInv, IInv, LockInv, Writing, Reading, EvaluatorRunsUnlocked
<1> QED
  BY <1>1, EvalInvariance, PTL

(* EvaluateAll, its evaluators and their own calls leave the registry one:   *)
(* all that is proved of Registry, linearizability too, holds around them.   *)
THEOREM KeepsRegistry == EvalSpec => Spec
<1>1. EvalInit => Init
  BY DEF EvalInit
<1>2. EvalInv /\ [EvalNext]_evalVars => [Next]_vars
  BY RegistrySteps DEF EvalInv
<1> QED
  BY <1>1, <1>2, EvalInvariance, PTL DEF EvalSpec, Spec

(* The registry stays linearizable with evaluators that call it from inside *)
(* its own Evaluate, between the steps of which others register.            *)
THEOREM LinearizableAround == EvalSpec => ImplementsAtomic
  BY KeepsRegistry, Linearizable, PTL

(* Each constraint is judged by what was registered for its type at some time *)
(* of this very call, whoever registers and unregisters in between.           *)
THEOREM JudgedByCurrent == EvalSpec => []JudgedByRegistered
<1>1. JudgingInv => JudgedByRegistered
  BY DEF JudgingInv
<1> QED
  BY <1>1, JudgingInvariance, PTL

(* The report loses nothing and invents nothing: its violations are the       *)
(* constraints met that were not satisfied, in their order, and the count and *)
(* the code of unrecognized ones belong to those without an evaluator alone.  *)
THEOREM ReportsAccount == EvalSpec => []ReportAccountsForAll
<1>1. EvalInit => ReportAccountsForAll
  <2> SUFFICES ASSUME EvalInit, NEW g \in Goroutine PROVE Accounts(frame[g].report, log[g])
    BY DEF ReportAccountsForAll
  <2>1. frame[g].report = NewReport /\ log[g] = <<>>
    BY DEF EvalInit, NoFrame
  <2> QED
    BY <2>1, NothingToAccountFor
<1>2. ReportAccountsForAll /\ EvalInv /\ EvalInv' /\ [EvalNext]_evalVars => ReportAccountsForAll'
  BY AccountsInductive
<1> QED
  BY <1>1, <1>2, EvalInvariance, PTL DEF EvalSpec

(* Frames, logs and history stay what they are said to be. *)
THEOREM EvalTypes == EvalSpec => []EvalTypeOK
<1>1. EvalInv => EvalTypeOK
  BY DEF EvalInv
<1> QED
  BY <1>1, EvalInvariance, PTL

-----------------------------------------------------------------------------
(* The refinement: a Get that takes its answer is the instant at which a    *)
(* constraint's evaluator is fixed, and all steps around it are nobody's    *)
(* business but the registry's.                                             *)

LEMMA SamePromise ==
  /\ Promise!Idle = NoFrame /\ Promise!MaybeEntry = MaybeEntry
  /\ \A cs : Promise!Undecided(cs) = FrameFor(cs)
  /\ \A t, found, answer : Promise!Judge(t, found, answer) = Judge(t, found, answer)
  /\ \A r, d : Promise!Count(r, d) = Count(r, d)
<1>1. Promise!NewReport = NewReport
  BY DEF NewReport, Promise!NewReport
<1>2. Promise!Idle = NoFrame
  BY <1>1 DEF Promise!Idle, NoFrame
<1>3. \A cs : Promise!Undecided(cs) = FrameFor(cs)
  BY <1>1 DEF Promise!Undecided, FrameFor
<1>4. \A t, found, answer : Promise!Judge(t, found, answer) = Judge(t, found, answer)
  BY DEF Judge, Promise!Judge, Code, Promise!Code
<1>5. \A r, d : Promise!Count(r, d) = Count(r, d)
  BY DEF Count, Promise!Count
<1> QED
  BY <1>2, <1>3, <1>4, <1>5 DEF MaybeEntry, Promise!MaybeEntry

LEMMA BecomesThat ==
  ASSUME NEW g \in Goroutine, NEW x, Evaluation'[g] = x,
         \A h \in Goroutine \ {g} : Evaluation'[h] = Evaluation[h], entries' = entries
  PROVE  Promise!Becomes(g, x)
<1>1. /\ Evaluation = [h \in Goroutine |-> Evaluation[h]]
      /\ Evaluation' = [h \in Goroutine |-> Evaluation'[h]]
  BY Zenon DEF Evaluation
<1>2. Evaluation' = [Evaluation EXCEPT ![g] = x]
  BY <1>1
<1> QED
  BY <1>2 DEF Promise!Becomes

LEMMA StaysThat ==
  ASSUME NEW h \in Goroutine, frame'[h] = frame[h],
         frame[h].at = "get" =>
           (HasAnswer(h)' <=> HasAnswer(h)) /\ (HasAnswer(h) => got'[h] = got[h])
  PROVE  Evaluation'[h] = Evaluation[h]
  BY DEF Evaluation

LEMMA AllStay ==
  ASSUME \A h \in Goroutine : Evaluation'[h] = Evaluation[h]
  PROVE  Evaluation' = Evaluation
  BY DEF Evaluation

LEMMA EvaluateRefines ==
  ASSUME EvalInv, NEW g \in Goroutine, Evaluate(g)
  PROVE  Promise!Next
<1>1. PICK cs \in ConstraintLists : frame' = [frame EXCEPT ![g] = FrameFor(cs)]
  BY DEF Evaluate
<1>2. /\ frame[g].at = "none" /\ frame'[g] = FrameFor(cs) /\ FrameFor(cs).at = "loop"
      /\ \A h \in Goroutine \ {g} : frame'[h] = frame[h]
      /\ UNCHANGED <<entries, pc, got>>
  BY <1>1 DEF Evaluate, FrameFor, EvalInv, EvalTypeOK, vars
<1>3. Evaluation[g].at = "none" /\ Evaluation'[g] = FrameFor(cs)
  BY <1>2 DEF Evaluation
<1>4. \A h \in Goroutine \ {g} : Evaluation'[h] = Evaluation[h]
  BY <1>2, StaysThat DEF HasAnswer
<1>5. FrameFor(cs) = Promise!Undecided(cs)
  BY SamePromise
<1>6. Promise!Begin(g, cs)
  BY <1>2, <1>3, <1>4, <1>5, BecomesThat DEF Promise!Begin
<1> QED
  BY <1>6 DEF Promise!Next

LEMMA AnswersRefines ==
  ASSUME EvalInv, NEW g \in Goroutine, Answers(g)
  PROVE  Promise!Next
<1>1. PICK answer \in Answer : Decided(g, frame[g].evaluator, answer)
  BY DEF Answers
<1>2. /\ frame[g].at = "run" /\ frame'[g].at = "loop"
      /\ frame'[g] = Promise!Decided(frame[g], frame[g].evaluator, answer)
      /\ \A h \in Goroutine \ {g} : frame'[h] = frame[h]
      /\ UNCHANGED <<entries, pc, got>>
  BY <1>1, SamePromise DEF Answers, Decided, Promise!Decided, EvalInv, EvalTypeOK, vars
<1>3. Evaluation[g] = frame[g] /\ Evaluation'[g] = frame'[g]
  BY <1>2 DEF Evaluation
<1>4. \A h \in Goroutine \ {g} : Evaluation'[h] = Evaluation[h]
  BY <1>2, StaysThat DEF HasAnswer
<1>5. Promise!Answers(g, answer)
  BY <1>2, <1>3, <1>4, BecomesThat DEF Promise!Answers
<1> QED
  BY <1>5 DEF Promise!Next

LEMMA LeaveRefines ==
  ASSUME EvalInv, NEW g \in Goroutine, Panics(g) \/ Report(g)
  PROVE  Promise!Next
<1>0. /\ frame[g].at = "run" \/ (frame[g].at = "loop" /\ frame[g].rest = <<>>)
      /\ frame' = [frame EXCEPT ![g] = NoFrame] /\ UNCHANGED <<entries, pc, got>>
  BY DEF Panics, Report, Leave, vars
<1>n. NoFrame.at = "none"
  BY DEF NoFrame
<1>1. /\ frame[g].at = "run" \/ (frame[g].at = "loop" /\ frame[g].rest = <<>>)
      /\ frame'[g] = Promise!Idle /\ frame'[g].at = "none"
      /\ \A h \in Goroutine \ {g} : frame'[h] = frame[h]
      /\ UNCHANGED <<entries, pc, got>>
  BY <1>0, <1>n, SamePromise DEF EvalInv, EvalTypeOK
<1>2. Evaluation[g] = frame[g] /\ Evaluation'[g] = frame'[g]
  BY <1>1 DEF Evaluation
<1>3. \A h \in Goroutine \ {g} : Evaluation'[h] = Evaluation[h]
  BY <1>1, StaysThat DEF HasAnswer
<1>4. Promise!End(g)
  BY <1>1, <1>2, <1>3, BecomesThat DEF Promise!End
<1> QED
  BY <1>4 DEF Promise!Next

(* The Get for a constraint begins, and returns, unseen. *)
LEMMA GetStutters ==
  ASSUME EvalInv, NEW g \in Goroutine, LookUp(g) \/ LookedUp(g)
  PROVE  UNCHANGED Promise!vars
<1>0. EvalTypeOK /\ TypeOK
  BY DEF EvalInv, IInv
<1>1. CASE LookUp(g)
  <2>1. /\ frame[g].at = "loop" /\ frame' = [frame EXCEPT ![g].at = "get"]
        /\ pc' = [pc EXCEPT ![g] = "start"] /\ UNCHANGED <<entries, got>>
    BY <1>1 DEF LookUp, Begin, Goto
  <2>2. frame'[g] = [frame[g] EXCEPT !.at = "get"] /\ pc'[g] = "start" /\ frame[g] \in Frame
    BY <1>0, <2>1 DEF EvalTypeOK, TypeOK
  <2>3. Evaluation'[g] = Evaluation[g]
    BY <2>1, <2>2 DEF Evaluation, HasAnswer, Frame
  <2>4. \A h \in Goroutine \ {g} : Evaluation'[h] = Evaluation[h]
    BY <1>0, <2>1, StaysThat DEF HasAnswer, EvalTypeOK, TypeOK
  <2> QED
    BY <2>1, <2>3, <2>4, AllStay DEF Promise!vars
<1>2. CASE LookedUp(g)
  <2>1. /\ frame[g].at = "get" /\ pc[g] = "return" /\ frame[g] \in Frame
        /\ pc' = [pc EXCEPT ![g] = "idle"] /\ got' = [got EXCEPT ![g] = NoEntry] /\ entries' = entries
    BY <1>0, <1>2 DEF LookedUp, Return, Goto, EvalTypeOK
  <2>2. \/ /\ got[g] = NoEntry
           /\ frame' = [frame EXCEPT ![g] =
                [at |-> "loop", rest |-> Tail(frame[g].rest), evaluator |-> NoEntry,
                 report |-> Count(frame[g].report, Judge(Head(frame[g].rest), FALSE, NoAnswer))]]
        \/ /\ got[g] # NoEntry
           /\ frame' = [frame EXCEPT ![g].at = "run", ![g].evaluator = got[g]]
    BY <1>2 DEF LookedUp, Decided
  <2>3. Evaluation'[g] = Evaluation[g]
    <3>1. CASE got[g] = NoEntry
      <4> DEFINE after == [at |-> "loop", rest |-> Tail(frame[g].rest), evaluator |-> NoEntry,
                           report |-> Count(frame[g].report, Judge(Head(frame[g].rest), FALSE, NoAnswer))]
      <4>1. Evaluation[g] = after
        BY <2>1, <3>1 DEF Evaluation, HasAnswer
      <4>2. frame'[g] = after /\ after.at = "loop"
        BY <1>0, <2>2, <3>1 DEF EvalTypeOK
      <4> HIDE DEF after
      <4>3. Evaluation'[g] = after
        BY <4>2 DEF Evaluation
      <4> QED
        BY <4>1, <4>3
    <3>2. CASE got[g] # NoEntry
      <4>1. frame'[g] = [frame[g] EXCEPT !.at = "run", !.evaluator = got[g]] /\ frame'[g].at = "run"
        BY <1>0, <2>1, <2>2, <3>2 DEF EvalTypeOK, Frame
      <4> QED
        BY <2>1, <3>2, <4>1 DEF Evaluation, HasAnswer
    <3> QED
      BY <3>1, <3>2
  <2>4. \A h \in Goroutine \ {g} : frame'[h] = frame[h]
    BY <1>0, <2>2 DEF EvalTypeOK
  <2>5. \A h \in Goroutine \ {g} : Evaluation'[h] = Evaluation[h]
    BY <1>0, <2>1, <2>4, StaysThat DEF HasAnswer, TypeOK
  <2> QED
    BY <2>1, <2>3, <2>5, AllStay DEF Promise!vars
<1> QED
  BY <1>1, <1>2

(* Inside a call: an insert or a delete changes the map, the lookup of a Get *)
(* that EvaluateAll made fixes an evaluator, and the rest is unseen.         *)
LEMMA RegistryStepRefines ==
  ASSUME EvalInv, JudgingInv, NEW g \in Goroutine, RegistryStep(g)
  PROVE  Promise!Next \/ UNCHANGED Promise!vars
<1>0. EvalTypeOK /\ TypeOK /\ CallInv /\ frame' = frame
  BY DEF EvalInv, IInv, RegistryStep
<1>a. ASSUME NEW h \in Goroutine, frame[h].at = "get"
      PROVE  call[h].kind = "Get" /\ call[h].type = Head(frame[h].rest)
  <2>1. call[h] = [kind |-> "Get", type |-> Head(frame[h].rest)]
    BY <1>a DEF JudgingInv
  <2> QED
    BY <2>1
<1>1. ASSUME UNCHANGED entries, \A h \in Goroutine : frame[h].at = "get" =>
        (HasAnswer(h)' <=> HasAnswer(h)) /\ (HasAnswer(h) => got'[h] = got[h])
      PROVE  UNCHANGED Promise!vars
  BY <1>0, <1>1, StaysThat, AllStay DEF Promise!vars
<1>2. CASE Free(g) /\ (Invoke(g) \/ Return(g))
  <2>1. /\ frame[g].at # "get" /\ UNCHANGED entries
        /\ \A h \in Goroutine \ {g} : pc'[h] = pc[h] /\ got'[h] = got[h]
    BY <1>0, <1>2 DEF Free, Invoke, Begin, Return, Goto, TypeOK
  <2> QED
    BY <1>1, <2>1 DEF HasAnswer
<1>3. CASE Announce(g) \/ Lock(g) \/ RLock(g) \/ RUnlock(g) \/ RegisterCheck(g)
           \/ UnregisterCheck(g)
  <2>1. /\ UNCHANGED <<entries, got>>
        /\ \/ pc[g] = "runlock" /\ pc'[g] = "return"
           \/ pc[g] \in {"start", "waiting", "check"} /\ pc'[g] \notin {"runlock", "return"}
        /\ \A h \in Goroutine \ {g} : pc'[h] = pc[h]
    BY <1>0, <1>3 DEF Announce, Lock, RLock, RUnlock, RegisterCheck, UnregisterCheck, Goto, TypeOK
  <2>2. \A h \in Goroutine : HasAnswer(h)' <=> HasAnswer(h)
    BY <2>1 DEF HasAnswer
  <2> QED
    BY <1>1, <2>1, <2>2
<1>8. CASE Reject(g)
  <2>1. \A h \in Goroutine : frame[h].at = "get" => h # g
    BY <1>a, <1>8 DEF Reject
  <2> QED
    BY <1>0, <1>1, <1>8, <2>1 DEF Reject, Goto, TypeOK, HasAnswer
<1>4. CASE Unlock(g)
  <2>1. Writes(call[g])
    BY <1>0, <1>4 DEF Unlock, CallInv, Writing
  <2>2. \A h \in Goroutine : frame[h].at = "get" => h # g
    BY <1>a, <2>1 DEF Writes
  <2> QED
    BY <1>0, <1>1, <1>4, <2>2 DEF Unlock, TypeOK, HasAnswer
<1>5. CASE CollectType(g) \/ EndTypes(g)
  <2>1. call[g].kind = "Types"
    BY <1>5 DEF CollectType, EndTypes
  <2>2. \A h \in Goroutine : frame[h].at = "get" => h # g
    BY <1>a, <2>1
  <2> QED
    BY <1>0, <1>1, <1>5, <2>2 DEF CollectType, EndTypes, Goto, TypeOK, HasAnswer
<1>6. CASE RegisterInsert(g) \/ UnregisterDelete(g)
  <2> DEFINE t == call[g].type
             e == IF RegisterInsert(g) THEN call[g].entry ELSE NoEntry
  <2>1. /\ Writes(call[g]) /\ call[g] \in Call
        /\ entries' = [entries EXCEPT ![t] = e] /\ t \in Type
        /\ (entries[t] = NoEntry /\ <<t, e>> \in Registrable) \/ e = NoEntry
    <3>1. Writes(call[g]) /\ call[g] \in Call
      BY <1>0, <1>6 DEF RegisterInsert, UnregisterDelete, CallInv, Writing, Writes, TypeOK, NoCall
    <3>2. t \in Type
      BY <3>1, CallShapes DEF Writes
    <3>3. CASE RegisterInsert(g)
      BY <1>0, <3>1, <3>2, <3>3 DEF RegisterInsert, EvalInv, IInv, CheckStillHolds, CallInv, Writing, Accepted
    <3>4. CASE ~RegisterInsert(g)
      BY <1>6, <3>1, <3>2, <3>4 DEF UnregisterDelete
    <3> QED
      BY <3>1, <3>2, <3>3, <3>4
  <2>2. e \in MaybeEntry
    BY <2>1, RegistryConstants DEF MaybeEntry
  <2>3. \A h \in Goroutine : frame[h].at = "get" => h # g
    BY <1>a, <2>1 DEF Writes
  <2>4. \A h \in Goroutine \ {g} : pc'[h] = pc[h] /\ got'[h] = got[h]
    BY <1>0, <1>6 DEF RegisterInsert, UnregisterDelete, Goto, TypeOK
  <2>5. \A h \in Goroutine : Evaluation'[h] = Evaluation[h]
    BY <1>0, <2>3, <2>4, StaysThat DEF HasAnswer
  <2>6. Evaluation' = Evaluation
    BY <2>5, AllStay
  <2> HIDE DEF t, e
  <2>7. Promise!Change(t, e)
    BY <2>1, <2>6 DEF Promise!Change
  <2> QED
    BY <2>1, <2>2, <2>7, SamePromise DEF Promise!Next
<1>7. CASE Lookup(g)
  <2>1. /\ pc[g] = "read" /\ pc'[g] = "runlock" /\ got'[g] = entries[call[g].type]
        /\ UNCHANGED entries
        /\ \A h \in Goroutine \ {g} : pc'[h] = pc[h] /\ got'[h] = got[h]
    BY <1>0, <1>7 DEF Lookup, Goto, TypeOK
  <2>2. CASE frame[g].at # "get"
    BY <1>1, <2>1, <2>2 DEF HasAnswer
  <2>3. CASE frame[g].at = "get"
    <3> DEFINE f == frame[g]
               e == Evaluation[g]
               found == entries[Head(f.rest)]
    <3>1. f.rest # <<>> /\ f \in Frame /\ ~HasAnswer(g) /\ HasAnswer(g)' /\ got'[g] = found
      <4>1. call[g].type = Head(f.rest)
        BY <1>a, <2>3
      <4> QED
        BY <1>0, <2>1, <2>3, <4>1 DEF EvalInv, Frames, EvalTypeOK, HasAnswer
    <3>2. e = [f EXCEPT !.at = "loop"]
      BY <2>3, <3>1 DEF Evaluation
    <3>3. e.at = "loop" /\ e.rest = f.rest /\ e.report = f.report
      BY <3>1, <3>2 DEF Frame
    <3>4. Evaluation'[g] = IF found = NoEntry THEN Promise!Decided(e, NoEntry, Promise!Failure)
                           ELSE [e EXCEPT !.at = "run", !.evaluator = found]
      <4>1. CASE found = NoEntry
        <5>1. Judge(Head(f.rest), FALSE, Promise!Failure) = Judge(Head(f.rest), FALSE, NoAnswer)
          BY DEF Judge
        <5> QED
          BY <1>0, <2>3, <3>1, <3>3, <4>1, <5>1, SamePromise DEF Evaluation, Promise!Decided
      <4>2. CASE found # NoEntry
        BY <1>0, <2>3, <3>1, <3>2, <4>2 DEF Evaluation, Frame
      <4> QED
        BY <4>1, <4>2
    <3>5. \A h \in Goroutine \ {g} : Evaluation'[h] = Evaluation[h]
      BY <1>0, <2>1, StaysThat DEF HasAnswer
    <3>6. Promise!LookUp(g)
      BY <2>1, <3>1, <3>3, <3>4, <3>5, BecomesThat DEF Promise!LookUp
    <3> QED
      BY <3>6 DEF Promise!Next
  <2> QED
    BY <2>2, <2>3
<1> QED
  BY <1>2, <1>3, <1>4, <1>5, <1>6, <1>7, <1>8 DEF RegistryStep, Work

(* EvaluateAll keeps its promise: it decides each constraint by what the     *)
(* registry holds at one instant, in order, whatever goes on meanwhile.      *)
THEOREM PromiseKept == EvalSpec => ImplementsPromise
<1>1. EvalInit => Promise!Init
  <2> SUFFICES ASSUME EvalInit PROVE Promise!Init
    OBVIOUS
  <2>1. \A g \in Goroutine : Evaluation[g] = NoFrame
    BY DEF EvalInit, Evaluation, NoFrame
  <2>2. Evaluation = [g \in Goroutine |-> NoFrame]
    BY <2>1 DEF Evaluation
  <2> QED
    BY <2>2, SamePromise DEF EvalInit, Init, Promise!Init
<1>2. EvalInv /\ JudgingInv /\ [EvalNext]_evalVars => [Promise!Next]_(Promise!vars)
  <2> SUFFICES ASSUME EvalInv, JudgingInv, [EvalNext]_evalVars
               PROVE  Promise!Next \/ UNCHANGED Promise!vars
    OBVIOUS
  <2>1. CASE UNCHANGED evalVars
    BY <2>1 DEF evalVars, vars, Evaluation, HasAnswer, Promise!vars
  <2> QED
    BY <2>1, EvaluateRefines, AnswersRefines, LeaveRefines, GetStutters, RegistryStepRefines
       DEF EvalNext
<1> QED
  BY <1>1, <1>2, EvalInvariance, JudgingInvariance, PTL DEF EvalSpec, ImplementsPromise, Promise!Spec

-----------------------------------------------------------------------------
(* RegisterBuiltins.  A call of the loop is for the pair it has come to, and *)
(* any Register has no answer before its check.                             *)
BuiltinTypeOK == next \in [Goroutine -> 0 .. Len(Builtins)] /\ removed \in SUBSET Type

CallsMade ==
  \A g \in Goroutine :
    /\ pc[g] # "idle" => IF next[g] = 0 THEN call[g] \in OtherCalls
                                        ELSE call[g] = BuiltinCall(next[g])
    /\ call[g].kind = "Register" =>
         /\ pc[g] \in {"start", "waiting", "check", "insert"} => result[g] = "none"
         /\ pc[g] = "unlock" => result[g] \in {"ok", "already"}
         /\ pc[g] = "return" => result[g] \in {"ok", "already", "invalid"}
    /\ next[g] # 0 => result[g] # "invalid"

(* What a loop has passed is there, or was until somebody removed it. *)
There(n) == Here(n) \/ Removed(n)

Behind ==
  \A g \in Goroutine : next[g] # 0 =>
    /\ \A i \in 1 .. next[g] - 1 : There(i)
    /\ result[g] = "ok" => There(next[g])
    /\ result[g] = "already" => There(next[g]) \/ Taken(next[g])

(* A built-in that is there without a later one is explained, by a type that *)
(* was taken or emptied, or some loop is past it and still to go on.         *)
Explained(j) == \E k \in 1 .. j : Taken(k) \/ Removed(k)

Carries(g, i) == next[g] > i \/ (next[g] = i /\ result[g] = "ok")

InOrder == \A i, j \in DOMAIN Builtins : i < j /\ Here(j) => There(i)

Carried ==
  \A i, j \in DOMAIN Builtins :
    Here(i) /\ ~Here(j) => Explained(j) \/ \E g \in Goroutine : Carries(g, i)

BuiltinInv == IInv /\ BuiltinTypeOK /\ CallsMade /\ Behind /\ InOrder /\ Carried

LEMMA BuiltinPairs ==
  /\ Len(Builtins) \in Nat /\ Len(Builtins) > 0 /\ DOMAIN Builtins = 1 .. Len(Builtins)
  /\ \A n \in DOMAIN Builtins :
       /\ Builtins[n] \in Registrable
       /\ Builtins[n][1] \in Type /\ Builtins[n][2] \in Entry /\ Builtins[n][2] # NoEntry
       /\ BuiltinCall(n) \in RegisterCall /\ BuiltinCall(n) \in Call /\ Accepted(BuiltinCall(n))
       /\ BuiltinCall(n).kind = "Register"
       /\ BuiltinCall(n).type = Builtins[n][1] /\ BuiltinCall(n).entry = Builtins[n][2]
<1>1. Builtins \in Seq(Registrable) /\ Builtins # <<>>
  BY BuiltinConstants
<1>2. Len(Builtins) \in Nat /\ Len(Builtins) > 0 /\ DOMAIN Builtins = 1 .. Len(Builtins)
  BY <1>1
<1>3. ASSUME NEW n \in DOMAIN Builtins
      PROVE  /\ Builtins[n] \in Registrable
             /\ Builtins[n] = <<Builtins[n][1], Builtins[n][2]>>
             /\ Builtins[n][1] \in Type /\ Builtins[n][2] \in Entry
  <2>1. Builtins[n] \in Registrable
    BY <1>1
  <2> QED
    BY <2>1, RegistryConstants
<1>4. ASSUME NEW n \in DOMAIN Builtins
      PROVE  /\ BuiltinCall(n) \in RegisterCall /\ Accepted(BuiltinCall(n))
             /\ BuiltinCall(n).kind = "Register" /\ Builtins[n][2] # NoEntry
             /\ BuiltinCall(n).type = Builtins[n][1] /\ BuiltinCall(n).entry = Builtins[n][2]
  BY <1>3, RegistryConstants DEF BuiltinCall, RegisterCall, Accepted, MaybeEntry
<1> QED
  BY <1>2, <1>3, <1>4 DEF Call

LEMMA BuiltinSteps ==
  ASSUME BuiltinTypeOK, [BuiltinNext]_builtinVars
  PROVE  [Next]_vars
<1>1. ASSUME NEW g \in Goroutine, Inside(g, Announce) \/ Inside(g, Work) PROVE Next
  BY <1>1 DEF Inside, Next
<1>2. ASSUME NEW g \in Goroutine, Returned(g) PROVE Next
  BY <1>2 DEF Returned, Next
<1>3. ASSUME NEW g \in Goroutine, Other(g) PROVE Next
  BY <1>3, BuiltinConstants DEF Other, Invoke, Next
<1>4. ASSUME NEW g \in Goroutine, RegisterNext(g) PROVE Next
  <2>1. next[g] \in DOMAIN Builtins
    BY <1>4, BuiltinPairs DEF RegisterNext, BuiltinTypeOK
  <2>2. BuiltinCall(next[g]) \in Call
    BY <2>1, BuiltinPairs
  <2> QED
    BY <1>4, <2>2 DEF RegisterNext, Invoke, Next
<1>5. ASSUME NEW g \in Goroutine, RegisterBuiltins(g) PROVE UNCHANGED vars
  BY <1>5 DEF RegisterBuiltins
<1>6. CASE UNCHANGED builtinVars
  BY <1>6 DEF builtinVars
<1> QED
  BY <1>1, <1>2, <1>3, <1>4, <1>5, <1>6 DEF BuiltinNext

(* Inside a call, who made it and what for stays so, and its answer comes *)
(* where CallsMade says.                                                  *)
LEMMA CallsStayMade ==
  ASSUME IInv, BuiltinTypeOK, CallsMade, NEW g \in Goroutine, Announce(g) \/ Work(g), next' = next
  PROVE  CallsMade'
<1>0. /\ TypeOK /\ CallInv
      /\ \A h \in Goroutine : next[h] # 0 => next[h] \in DOMAIN Builtins
  BY BuiltinPairs DEF IInv, BuiltinTypeOK
<1>1. call' = call
  BY DEF Announce, Work, Reject, Lock, Unlock, RLock, RUnlock, RegisterCheck,
     RegisterInsert, UnregisterCheck, UnregisterDelete, Lookup, CollectType, EndTypes
<1> USE DEF TypeOK, Goto, CallsMade
<1>2. CASE Announce(g) \/ Lock(g) \/ RLock(g) \/ RUnlock(g) \/ EndTypes(g)
  BY <1>0, <1>1, <1>2 DEF Announce, Lock, RLock, RUnlock, EndTypes, Writes, Reads, CallInv, Reading, Writing
<1>3. CASE Reject(g)
  <2>1. next[g] = 0
    BY <1>0, <1>3, BuiltinPairs DEF Reject
  <2> QED
    BY <1>0, <1>1, <1>3, <2>1 DEF Reject
<1>4. CASE Unlock(g)
  BY <1>0, <1>1, <1>4 DEF Unlock, CallInv, Reads
<1>5. CASE RegisterCheck(g)
  BY <1>0, <1>1, <1>5 DEF RegisterCheck
<1>6. CASE RegisterInsert(g)
  BY <1>0, <1>1, <1>6 DEF RegisterInsert, IInv, CheckStillHolds
<1>7. CASE UnregisterCheck(g) \/ UnregisterDelete(g)
  BY <1>0, <1>1, <1>7 DEF UnregisterCheck, UnregisterDelete, IInv, CheckStillHolds
<1>8. CASE Lookup(g) \/ CollectType(g)
  BY <1>0, <1>1, <1>8 DEF Lookup, CollectType
<1> QED
  BY <1>2, <1>3, <1>4, <1>5, <1>6, <1>7, <1>8 DEF Work

(* What a step inside a call does to the built-ins: what was there stays, or *)
(* is known to have been removed; what comes new is the loop's own.          *)
LEMMA InsideEffects ==
  ASSUME BuiltinInv, NEW g \in Goroutine, Inside(g, Announce) \/ Inside(g, Work)
  PROVE  /\ next' = next /\ \A t \in removed : t \in removed'
         /\ \A k \in DOMAIN Builtins :
              /\ Here(k) => Here(k)' \/ Removed(k)'
              /\ Taken(k) => Taken(k)' \/ Removed(k)'
              /\ Here(k)' => Here(k) \/ (next[g] = k /\ result'[g] = "ok")
         /\ \A h \in Goroutine : next[h] # 0 =>
              \/ result'[h] = result[h]
              \/ result[h] = "none" /\ result'[h] = "ok" /\ Here(next[h])'
              \/ result[h] = "none" /\ result'[h] = "already" /\ (Here(next[h])' \/ Taken(next[h])')
<1>0. /\ IInv /\ TypeOK /\ CallInv /\ CallsMade
      /\ next' = next /\ removed' = removed \cup (Present(entries) \ Present(entries'))
      /\ \A h \in Goroutine : next[h] # 0 => next[h] \in DOMAIN Builtins
      /\ Announce(g) \/ Work(g)
  BY BuiltinPairs DEF Inside, BuiltinInv, IInv, BuiltinTypeOK
<1>1. \A k \in DOMAIN Builtins : Builtins[k][1] \in Type /\ Builtins[k][2] \in Entry /\ Builtins[k][2] # NoEntry
  BY BuiltinPairs
<1>2. \A h \in Goroutine : next[h] # 0 /\ pc[h] # "idle" =>
        /\ call[h].kind = "Register" /\ Accepted(call[h])
        /\ call[h].type = Builtins[next[h]][1] /\ call[h].entry = Builtins[next[h]][2]
  BY <1>0, BuiltinPairs DEF CallsMade
<1>3. ASSUME UNCHANGED <<entries, result>>
      PROVE  /\ \A k \in DOMAIN Builtins : (Here(k)' <=> Here(k)) /\ (Taken(k)' <=> Taken(k))
             /\ \A h \in Goroutine : result'[h] = result[h]
  BY <1>3 DEF Here, Taken
<1>4. CASE Announce(g) \/ Lock(g) \/ Unlock(g) \/ RLock(g) \/ RUnlock(g)
           \/ Lookup(g) \/ CollectType(g) \/ EndTypes(g)
  BY <1>0, <1>3, <1>4 DEF Announce, Lock, Unlock, RLock, RUnlock, Lookup, CollectType, EndTypes
<1>5. CASE Reject(g)
  <2>1. next[g] = 0
    BY <1>2, <1>5 DEF Reject
  <2>2. entries' = entries /\ \A h \in Goroutine \ {g} : result'[h] = result[h]
    BY <1>0, <1>5 DEF Reject, TypeOK
  <2> QED
    BY <1>0, <2>1, <2>2 DEF Here, Taken
<1>6. CASE RegisterCheck(g)
  <2>1. entries' = entries /\ \A h \in Goroutine \ {g} : result'[h] = result[h]
    BY <1>0, <1>6 DEF RegisterCheck, TypeOK
  <2>2. \/ result'[g] = result[g]
        \/ result'[g] = "already" /\ entries[call[g].type] # NoEntry
    BY <1>0, <1>6 DEF RegisterCheck, TypeOK
  <2>3. result[g] = "none"
    BY <1>0, <1>6 DEF RegisterCheck, CallsMade
  <2>4. next[g] # 0 => call[g].type = Builtins[next[g]][1]
    BY <1>2, <1>6 DEF RegisterCheck
  <2> QED
    BY <1>0, <2>1, <2>2, <2>3, <2>4 DEF Here, Taken
<1>7. CASE RegisterInsert(g)
  <2> DEFINE t == call[g].type
  <2>1. /\ call[g].kind = "Register" /\ entries[t] = NoEntry /\ Accepted(call[g])
        /\ call[g] # NoCall /\ pc[g] = "insert" /\ result[g] = "none"
    BY <1>0, <1>7 DEF RegisterInsert, IInv, CheckStillHolds, CallInv, CallsMade, Writing
  <2>2. t \in Type /\ call[g].entry # NoEntry
    BY <2>1, Constants
  <2>3. /\ entries' = [entries EXCEPT ![t] = call[g].entry]
        /\ result' = [result EXCEPT ![g] = "ok"]
    BY <1>7 DEF RegisterInsert
  <2> HIDE DEF t
  <2>4. /\ entries'[t] = call[g].entry /\ \A u \in Type \ {t} : entries'[u] = entries[u]
        /\ result'[g] = "ok" /\ \A h \in Goroutine \ {g} : result'[h] = result[h]
    BY <1>0, <2>2, <2>3 DEF TypeOK
  <2>5. next[g] # 0 => next[g] \in DOMAIN Builtins /\ t = Builtins[next[g]][1] /\ call[g].entry = Builtins[next[g]][2]
    BY <1>0, <1>2, <2>1 DEF t
  <2>6. next[g] = 0 => \A k \in DOMAIN Builtins : call[g].entry # Builtins[k][2]
    BY <1>0, <2>1, BuiltinConstants DEF CallsMade
  <2>7. \A k, m \in DOMAIN Builtins : Builtins[k][1] = Builtins[m][1] => k = m
    BY BuiltinConstants
  <2>8. \A k \in DOMAIN Builtins : Builtins[k][1] # t =>
          (Here(k)' <=> Here(k)) /\ (Taken(k)' <=> Taken(k))
    BY <1>1, <2>4 DEF Here, Taken
  <2>9. \A k \in DOMAIN Builtins : Builtins[k][1] = t => ~Here(k) /\ ~Taken(k)
    BY <1>1, <2>1 DEF Here, Taken, t
  <2>10. ASSUME NEW k \in DOMAIN Builtins, Builtins[k][1] = t, Here(k)' PROVE next[g] = k
    BY <2>4, <2>5, <2>6, <2>7, <2>10 DEF Here
  <2>11. next[g] # 0 => Here(next[g])'
    BY <1>0, <2>4, <2>5 DEF Here
  <2>12. removed' = removed
    BY <1>0, <2>1, <2>4 DEF Present, t
  <2>13. ASSUME NEW k \in DOMAIN Builtins
         PROVE  /\ Here(k) => Here(k)' \/ Removed(k)'
                /\ Taken(k) => Taken(k)' \/ Removed(k)'
                /\ Here(k)' => Here(k) \/ (next[g] = k /\ result'[g] = "ok")
    BY <2>4, <2>8, <2>9, <2>10
  <2>14. ASSUME NEW h \in Goroutine, next[h] # 0
         PROVE  \/ result'[h] = result[h]
                \/ result[h] = "none" /\ result'[h] = "ok" /\ Here(next[h])'
    BY <2>1, <2>4, <2>11, <2>14
  <2> QED
    BY <1>0, <2>12, <2>13, <2>14
<1>8. CASE UnregisterCheck(g)
  <2>1. next[g] = 0
    BY <1>2, <1>8 DEF UnregisterCheck
  <2>2. entries' = entries /\ \A h \in Goroutine \ {g} : result'[h] = result[h]
    BY <1>0, <1>8 DEF UnregisterCheck, TypeOK
  <2> QED
    BY <1>0, <2>1, <2>2 DEF Here, Taken
<1>9. CASE UnregisterDelete(g)
  <2> DEFINE t == call[g].type
  <2>1. result' = result /\ entries' = [entries EXCEPT ![t] = NoEntry]
    BY <1>9 DEF UnregisterDelete
  <2> HIDE DEF t
  <2>2. \A u \in Type : entries'[u] = entries[u] \/ entries'[u] = NoEntry
    BY <1>0, <2>1 DEF TypeOK
  <2>3. \A u \in Type : entries[u] # NoEntry /\ entries'[u] = NoEntry => u \in removed'
    BY <1>0 DEF Present
  <2> QED
    BY <1>0, <1>1, <2>1, <2>2, <2>3 DEF Here, Taken, Removed
<1> QED
  BY <1>0, <1>4, <1>5, <1>6, <1>7, <1>8, <1>9 DEF Work

(* The four parts hold through such a step. *)
LEMMA InsideKeeps ==
  ASSUME BuiltinInv, NEW g \in Goroutine, Inside(g, Announce) \/ Inside(g, Work)
  PROVE  BuiltinTypeOK' /\ CallsMade' /\ Behind' /\ InOrder' /\ Carried'
<1>0. BuiltinTypeOK /\ CallsMade /\ Behind /\ InOrder /\ Carried /\ IInv
  BY DEF BuiltinInv
<1>1. /\ next' = next /\ \A t \in removed : t \in removed'
      /\ \A k \in DOMAIN Builtins :
           /\ Here(k) => Here(k)' \/ Removed(k)'
           /\ Taken(k) => Taken(k)' \/ Removed(k)'
           /\ Here(k)' => Here(k) \/ (next[g] = k /\ result'[g] = "ok")
      /\ \A h \in Goroutine : next[h] # 0 =>
           \/ result'[h] = result[h]
           \/ result[h] = "none" /\ result'[h] = "ok" /\ Here(next[h])'
           \/ result[h] = "none" /\ result'[h] = "already" /\ (Here(next[h])' \/ Taken(next[h])')
  BY InsideEffects
<1>2. /\ \A h \in Goroutine : next[h] # 0 => next[h] \in DOMAIN Builtins
      /\ \A h \in Goroutine : \A i \in 1 .. next[h] - 1 : i \in DOMAIN Builtins
      /\ \A h \in Goroutine : next[h] \in Nat
      /\ \A j \in DOMAIN Builtins : \A k \in 1 .. j : k \in DOMAIN Builtins
      /\ \A j \in DOMAIN Builtins : j \in Nat /\ j \in 1 .. j
  BY <1>0, BuiltinPairs DEF BuiltinTypeOK
<1>3. BuiltinTypeOK'
  <2>1. removed' \subseteq removed \cup Type
    BY DEF Inside, Present
  <2> QED
    BY <1>0, <1>1, <2>1 DEF BuiltinTypeOK
<1>4. CallsMade'
  BY <1>0, <1>1, CallsStayMade DEF Inside
<1>5. \A k \in DOMAIN Builtins : Removed(k) => Removed(k)'
  BY <1>1 DEF Removed
<1>6. \A k \in DOMAIN Builtins : There(k) => There(k)'
  BY <1>1, <1>5 DEF There
<1>7. \A j \in DOMAIN Builtins : Explained(j) => Explained(j)'
  <2> SUFFICES ASSUME NEW j \in DOMAIN Builtins, NEW k \in 1 .. j, Taken(k) \/ Removed(k)
               PROVE  Explained(j)'
    BY DEF Explained
  <2>1. Taken(k)' \/ Removed(k)'
    BY <1>1, <1>2, <1>5
  <2> QED
    BY <2>1 DEF Explained
<1>8. \A j \in DOMAIN Builtins : Removed(j)' => Explained(j)'
  BY <1>2 DEF Explained
<1>9. Behind'
  <2> SUFFICES ASSUME NEW h \in Goroutine, next[h] # 0
               PROVE  /\ \A i \in 1 .. next[h] - 1 : There(i)'
                      /\ result'[h] = "ok" => There(next[h])'
                      /\ result'[h] = "already" => There(next[h])' \/ Taken(next[h])'
    BY <1>1 DEF Behind
  <2>1. \A i \in 1 .. next[h] - 1 : There(i)'
    BY <1>0, <1>2, <1>6 DEF Behind
  <2>2. result'[h] = "ok" => There(next[h])'
    BY <1>0, <1>1, <1>2, <1>6 DEF Behind, There
  <2>3. result'[h] = "already" => There(next[h])' \/ Taken(next[h])'
    BY <1>0, <1>1, <1>2, <1>6 DEF Behind, There
  <2> QED
    BY <2>1, <2>2, <2>3
<1>10. ASSUME NEW i \in DOMAIN Builtins, NEW j \in DOMAIN Builtins, i < j, Here(j)' PROVE There(i)'
  <2>1. CASE Here(j)
    BY <1>0, <1>6, <1>10, <2>1 DEF InOrder
  <2>2. CASE next[g] = j
    <3>1. i \in 1 .. next[g] - 1 /\ next[g] # 0
      BY <1>2, <1>10, <2>2, BuiltinPairs
    <3> QED
      BY <1>0, <1>6, <3>1 DEF Behind
  <2> QED
    BY <1>1, <1>10, <2>1, <2>2
<1>11. ASSUME NEW i \in DOMAIN Builtins, NEW j \in DOMAIN Builtins, Here(i)', ~Here(j)'
       PROVE  Explained(j)' \/ \E h \in Goroutine : Carries(h, i)'
  <2>1. \A h \in Goroutine : Carries(h, i) => Carries(h, i)'
    BY <1>1, <1>2 DEF Carries
  <2>2. CASE ~Here(i)
    BY <1>1, <1>11, <2>2 DEF Carries
  <2>3. CASE Here(i) /\ Here(j)
    BY <1>1, <1>8, <1>11, <2>3
  <2>4. CASE Here(i) /\ ~Here(j)
    BY <1>0, <1>7, <2>1, <2>4 DEF Carried
  <2> QED
    BY <2>2, <2>3, <2>4
<1> QED
  BY <1>3, <1>4, <1>9, <1>10, <1>11 DEF InOrder, Carried

(* Between its calls a goroutine has no answer; entering the loop, and going  *)
(* on or calling from outside it, takes nothing from what is explained.      *)
LEMMA CallingKeeps ==
  ASSUME BuiltinInv, NEW g \in Goroutine, RegisterBuiltins(g) \/ RegisterNext(g) \/ Other(g)
  PROVE  BuiltinTypeOK' /\ CallsMade' /\ Behind' /\ InOrder' /\ Carried'
<1>0. /\ BuiltinTypeOK /\ CallsMade /\ Behind /\ InOrder /\ Carried /\ TypeOK /\ CallInv
      /\ UNCHANGED <<entries, removed, result>>
  BY DEF BuiltinInv, IInv, RegisterBuiltins, RegisterNext, Other, Begin, vars
<1>1. \A k : (Here(k)' <=> Here(k)) /\ (Removed(k)' <=> Removed(k)) /\ (Taken(k)' <=> Taken(k))
  BY <1>0 DEF Here, Removed, Taken
<1>2. \A k : (There(k)' <=> There(k)) /\ (Explained(k)' <=> Explained(k))
  BY <1>1 DEF There, Explained
<1>3. pc[g] = "idle" /\ call[g] = NoCall /\ result[g] = "none"
  BY <1>0 DEF RegisterBuiltins, RegisterNext, Other, Begin, CallInv, NoCall, Writes
<1>4. InOrder'
  BY <1>0, <1>1, <1>2 DEF InOrder
<1>5. CASE RegisterBuiltins(g)
  <2>1. next' = [next EXCEPT ![g] = 1] /\ next[g] = 0 /\ pc' = pc /\ call' = call
    BY <1>5 DEF RegisterBuiltins, vars
  <2>2. BuiltinTypeOK'
    BY <1>0, <2>1, BuiltinPairs DEF BuiltinTypeOK
  <2>3. next'[g] = 1 /\ \A h \in Goroutine \ {g} : next'[h] = next[h]
    BY <1>0, <2>1 DEF BuiltinTypeOK
  <2>4. CallsMade'
    BY <1>0, <1>3, <2>1, <2>3 DEF CallsMade
  <2>5. ASSUME NEW h \in Goroutine, next'[h] # 0
        PROVE  /\ \A i \in 1 .. next'[h] - 1 : There(i)
               /\ result[h] = "ok" => There(next'[h])
               /\ result[h] = "already" => There(next'[h]) \/ Taken(next'[h])
    <3>1. CASE h = g
      BY <1>3, <2>3, <3>1
    <3>2. CASE h # g
      BY <1>0, <2>3, <2>5, <3>2 DEF Behind
    <3> QED
      BY <3>1, <3>2
  <2>6. Behind'
    <3>1. \A h \in Goroutine : (There(next[h]))' <=> There(next'[h])
      BY <1>0 DEF There, Here, Removed
    <3>2. \A h \in Goroutine : (Taken(next[h]))' <=> Taken(next'[h])
      BY <1>0 DEF Taken, Here
    <3> QED
      BY <1>0, <1>2, <2>5, <3>1, <3>2 DEF Behind
  <2>7. \A h \in Goroutine, i \in DOMAIN Builtins : Carries(h, i) => Carries(h, i)'
    <3> SUFFICES ASSUME NEW h \in Goroutine, NEW i \in DOMAIN Builtins, Carries(h, i)
                 PROVE  Carries(h, i)'
      OBVIOUS
    <3>1. h # g
      BY <2>1, BuiltinPairs DEF Carries
    <3> QED
      BY <1>0, <2>3, <3>1 DEF Carries
  <2>8. Carried'
    BY <1>0, <1>1, <1>2, <2>7 DEF Carried
  <2> QED
    BY <1>4, <2>2, <2>4, <2>6, <2>8
<1>6. CASE RegisterNext(g) \/ Other(g)
  <2>1. next' = next
    BY <1>6 DEF RegisterNext, Other
  <2>2. BuiltinTypeOK' /\ Behind' /\ Carried'
    BY <1>0, <1>1, <1>2, <2>1 DEF BuiltinTypeOK, Behind, Carried, Carries, There, Here, Removed, Taken
  <2>3. CallsMade'
    <3>1. pc' = [pc EXCEPT ![g] = "start"]
      BY <1>6 DEF RegisterNext, Other, Begin, Goto
    <3>2. PICK c : call' = [call EXCEPT ![g] = c] /\ IF next[g] = 0 THEN c \in OtherCalls
                                                               ELSE c = BuiltinCall(next[g])
      BY <1>6 DEF RegisterNext, Other, Begin
    <3> QED
      BY <1>0, <1>3, <2>1, <3>1, <3>2 DEF TypeOK, CallsMade
  <2> QED
    BY <1>4, <2>2, <2>3
<1> QED
  BY <1>5, <1>6

(* A call returns; one of the loop's sends it on, or ends it.  If it ends    *)
(* after the last pair, all of them are there or were removed; if at a type  *)
(* that is registered already, that type is taken, or the built-in there has *)
(* another loop to carry it on.                                              *)
LEMMA ReturnedKeeps ==
  ASSUME BuiltinInv, NEW g \in Goroutine, Returned(g)
  PROVE  BuiltinTypeOK' /\ CallsMade' /\ Behind' /\ InOrder' /\ Carried'
<1> DEFINE m == next[g]
           N == Len(Builtins)
<1>0. /\ BuiltinTypeOK /\ CallsMade /\ Behind /\ InOrder /\ Carried /\ TypeOK
      /\ UNCHANGED <<entries, removed>>
      /\ pc[g] = "return" /\ pc' = [pc EXCEPT ![g] = "idle"]
      /\ call' = [call EXCEPT ![g] = NoCall] /\ result' = [result EXCEPT ![g] = "none"]
      /\ next' = [next EXCEPT ![g] = IF m = 0 THEN 0 ELSE After(g)]
  BY DEF BuiltinInv, IInv, Returned, Return, Goto
<1>1. \A k : (Here(k)' <=> Here(k)) /\ (Removed(k)' <=> Removed(k)) /\ (Taken(k)' <=> Taken(k))
  BY <1>0 DEF Here, Removed, Taken
<1>2. \A k : (There(k)' <=> There(k)) /\ (Explained(k)' <=> Explained(k))
  BY <1>1 DEF There, Explained
<1>3. InOrder'
  BY <1>0, <1>1, <1>2 DEF InOrder
<1>4. m # 0 => result[g] \in {"ok", "already"}
  BY <1>0, BuiltinPairs DEF CallsMade, BuiltinTypeOK
<1>5. /\ next[g] \in 0 .. N /\ N \in Nat /\ DOMAIN Builtins = 1 .. N
      /\ \A h \in Goroutine : next[h] \in Nat
  BY <1>0, BuiltinPairs DEF BuiltinTypeOK
<1>6. /\ next'[g] = IF m # 0 /\ result[g] = "ok" /\ m < N THEN m + 1 ELSE 0
      /\ \A h \in Goroutine \ {g} : next'[h] = next[h] /\ result'[h] = result[h]
      /\ result'[g] = "none"
  BY <1>0 DEF BuiltinTypeOK, TypeOK, After
<1>7. BuiltinTypeOK'
  <2>1. (IF m = 0 THEN 0 ELSE After(g)) \in 0 .. N
    BY <1>5 DEF After
  <2> QED
    BY <1>0, <2>1 DEF BuiltinTypeOK
<1>8. CallsMade'
  BY <1>0, <1>6 DEF TypeOK, CallsMade, NoCall
<1>9. m # 0 => /\ \A i \in 1 .. m - 1 : There(i)
               /\ result[g] = "ok" => There(m)
               /\ result[g] = "already" => There(m) \/ Taken(m)
  BY <1>0 DEF Behind
<1>10. m # 0 /\ result[g] = "ok" => \A i \in 1 .. m : There(i)
  <2>1. \A i \in 1 .. m : i = m \/ i \in 1 .. m - 1
    BY <1>5
  <2> QED
    BY <1>9, <2>1
<1>11. ASSUME NEW h \in Goroutine, next'[h] # 0
       PROVE  /\ \A i \in 1 .. next'[h] - 1 : There(i)
              /\ result'[h] = "ok" => There(next'[h])
              /\ result'[h] = "already" => There(next'[h]) \/ Taken(next'[h])
  <2>1. CASE h = g
    <3>1. m # 0 /\ result[g] = "ok" /\ next'[g] = m + 1 /\ next'[g] - 1 = m
      BY <1>5, <1>6, <1>11, <2>1
    <3> QED
      BY <1>6, <1>10, <2>1, <3>1
  <2>2. CASE h # g
    BY <1>0, <1>6, <1>11, <2>2 DEF Behind
  <2> QED
    BY <2>1, <2>2
<1>12. Behind'
  <2>1. \A h \in Goroutine : (There(next[h]))' <=> There(next'[h])
    BY <1>0 DEF There, Here, Removed
  <2>2. \A h \in Goroutine : (Taken(next[h]))' <=> Taken(next'[h])
    BY <1>0 DEF Taken, Here
  <2> QED
    BY <1>2, <1>11, <2>1, <2>2 DEF Behind
<1>13. ASSUME NEW i \in DOMAIN Builtins, NEW j \in DOMAIN Builtins, Here(i), ~Here(j)
       PROVE  Explained(j) \/ \E h \in Goroutine : Carries(h, i)'
  <2>0. i \in Nat /\ j \in Nat /\ i > 0 /\ j \in 1 .. j
    BY <1>5
  <2>1. \A h \in Goroutine \ {g} : Carries(h, i) => Carries(h, i)'
    BY <1>6 DEF Carries
  <2>2. There(j) => Explained(j)
    BY <1>13, <2>0 DEF There, Explained
  <2>3. CASE ~Carries(g, i)
    BY <1>0, <1>13, <2>1, <2>3 DEF Carried
  <2>4. CASE Carries(g, i) /\ result[g] = "ok"
    <3>1. m # 0 /\ (m > i \/ m = i)
      BY <2>0, <2>4 DEF Carries
    <3>2. CASE m < N
      BY <1>5, <1>6, <2>0, <2>4, <3>1, <3>2 DEF Carries
    <3>3. CASE m = N
      BY <1>5, <1>10, <2>2, <2>4, <3>1, <3>3
    <3> QED
      BY <1>5, <3>2, <3>3
  <2>5. CASE Carries(g, i) /\ result[g] # "ok"
    <3>1. m > i /\ m # 0 /\ result[g] = "already" /\ m \in 1 .. N
      BY <1>4, <1>5, <2>0, <2>5 DEF Carries
    <3>2. CASE j < m
      BY <1>9, <2>0, <2>2, <3>1, <3>2
    <3>3. CASE ~(j < m) /\ ~Here(m)
      <4>1. m \in 1 .. j
        BY <1>5, <2>0, <3>1, <3>3
      <4>2. Taken(m) \/ Removed(m)
        BY <1>9, <3>1, <3>3 DEF There
      <4> QED
        BY <4>1, <4>2 DEF Explained
    <3>4. CASE Here(m)
      <4>1. Explained(j) \/ \E h \in Goroutine : Carries(h, m)
        BY <1>0, <1>5, <1>13, <3>1, <3>4 DEF Carried
      <4>2. ASSUME NEW h \in Goroutine, Carries(h, m) PROVE h # g /\ Carries(h, i)
        <5>1. h # g
          BY <1>5, <3>1, <4>2 DEF Carries
        <5> QED
          BY <1>5, <2>0, <3>1, <4>2, <5>1 DEF Carries
      <4> QED
        BY <2>1, <4>1, <4>2
    <3> QED
      BY <3>2, <3>3, <3>4
  <2> QED
    BY <2>3, <2>4, <2>5
<1>14. Carried'
  BY <1>1, <1>2, <1>13 DEF Carried
<1> QED
  BY <1>3, <1>7, <1>8, <1>12, <1>14

LEMMA BuiltinInvariance == BuiltinSpec => []BuiltinInv
<1>1. BuiltinInit => BuiltinInv
  <2> SUFFICES ASSUME BuiltinInit PROVE BuiltinInv
    OBVIOUS
  <2>1. IInv
    BY Initially DEF BuiltinInit
  <2>2. BuiltinTypeOK /\ CallsMade /\ Behind
    BY BuiltinPairs DEF BuiltinInit, Init, BuiltinTypeOK, CallsMade, Behind, NoCall
  <2>3. \A k \in DOMAIN Builtins : ~Here(k)
    BY BuiltinPairs DEF BuiltinInit, Init, Here
  <2> QED
    BY <2>1, <2>2, <2>3 DEF BuiltinInv, InOrder, Carried
<1>2. BuiltinInv /\ [BuiltinNext]_builtinVars => BuiltinInv'
  <2> SUFFICES ASSUME BuiltinInv, [BuiltinNext]_builtinVars PROVE BuiltinInv'
    OBVIOUS
  <2>1. IInv'
    BY BuiltinSteps, Inductive DEF BuiltinInv
  <2>2. CASE BuiltinNext
    BY <2>1, <2>2, InsideKeeps, CallingKeeps, ReturnedKeeps DEF BuiltinNext, BuiltinInv
  <2>3. CASE UNCHANGED builtinVars
    BY <2>1, <2>3 DEF builtinVars, vars, BuiltinInv, BuiltinTypeOK, CallsMade, Behind, InOrder,
       Carried, Carries, Explained, There, Here, Taken, Removed
  <2> QED
    BY <2>2, <2>3
<1> QED
  BY <1>1, <1>2, PTL DEF BuiltinSpec

(* Calls of RegisterBuiltins that fail, meet or are overtaken never leave a   *)
(* built-in without those before it, nor stop each other halfway: what is     *)
(* missing when all are over was taken, or removed, by the application.       *)
THEOREM BuiltinsOrdered == BuiltinSpec => []BuiltinsInOrder
<1>1. BuiltinInv => BuiltinsInOrder
  <2> SUFFICES ASSUME BuiltinInv, NEW i \in DOMAIN Builtins, NEW j \in DOMAIN Builtins
               PROVE  /\ i < j /\ Here(j) => Here(i) \/ Removed(i)
                      /\ Here(i) /\ ~Here(j) /\ (\A g \in Goroutine : next[g] = 0) =>
                           \E k \in 1 .. j : Taken(k) \/ Removed(k)
    BY DEF BuiltinsInOrder
  <2>1. i < j /\ Here(j) => Here(i) \/ Removed(i)
    BY DEF BuiltinInv, InOrder, There
  <2>2. ASSUME NEW g \in Goroutine, next[g] = 0 PROVE ~Carries(g, i)
    BY <2>2, BuiltinPairs DEF Carries
  <2> QED
    BY <2>1, <2>2 DEF BuiltinInv, Carried, Explained
<1> QED
  BY <1>1, BuiltinInvariance, PTL

(* RegisterBuiltins is one more caller: all that is proved of Registry holds *)
(* around it.                                                                *)
THEOREM BuiltinsKeepRegistry == BuiltinSpec => Spec
<1>1. BuiltinInit => Init
  BY DEF BuiltinInit
<1>2. BuiltinInv /\ [BuiltinNext]_builtinVars => [Next]_vars
  BY BuiltinSteps DEF BuiltinInv
<1> QED
  BY <1>1, <1>2, BuiltinInvariance, PTL DEF BuiltinSpec, Spec

=============================================================================
