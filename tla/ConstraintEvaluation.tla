------------------------ MODULE ConstraintEvaluation ------------------------
(***************************************************************************)
(* EvaluateAll (constraint/registry.go:120-203): a loop that looks each    *)
(* constraint's evaluator up, through the locked Get of Registry, and then *)
(* runs it with no lock held.  Between the two, and between one constraint *)
(* and the next, other goroutines register and unregister; so may the      *)
(* evaluator itself, which may also fail, answer nonsense, panic or never  *)
(* return.                                                                 *)
(*                                                                         *)
(* A constraint is its type here: its parameters only reach the evaluator, *)
(* which is the application's and may answer anything.                     *)
(***************************************************************************)
EXTENDS Registry, ConstraintReport

CONSTANTS
  ConstraintLists,   \* the lists EvaluateAll is called with
  Answer             \* what an evaluator may return

ASSUME EvaluationConstants ==
  /\ ConstraintLists \subseteq Seq(Type)
  /\ Answer \subseteq AnyAnswer

VARIABLES
  frame,   \* frame[g]: g's EvaluateAll call
  log,     \* log[g]: what that call met, a constraint at a time (history)
  held     \* held[g][t]: what the map held for t during that call (history)

evalVars == <<vars, frame, log, held>>

NoAnswer == [code |-> "none", reason |-> FALSE]
NoFrame == [at |-> "none", rest |-> <<>>, evaluator |-> NoEntry, report |-> NewReport]
FrameFor(cs) == [at |-> "loop", rest |-> cs, evaluator |-> NoEntry, report |-> NewReport]
NothingHeld == [t \in Type |-> {}]

EvalInit ==
  /\ Init
  /\ frame = [g \in Goroutine |-> NoFrame]
  /\ log = [g \in Goroutine |-> <<>>]
  /\ held = [g \in Goroutine |-> NothingHeld]

-----------------------------------------------------------------------------
(* A mutant of Decided: the evaluator that was found serves the next *)
(* constraint too.                                                   *)
DecidedHoisted(g, evaluator, answer) ==
  LET f == frame[g]
      t == Head(f.rest)
  IN /\ frame' = [frame EXCEPT ![g] =
                   [at |-> IF evaluator # NoEntry /\ Len(f.rest) > 1 THEN "run" ELSE "loop",
                    rest |-> Tail(f.rest), evaluator |-> evaluator,
                    report |-> Count(f.report, Judge(t, evaluator # NoEntry, answer))]]
     /\ log' = [log EXCEPT ![g] =
                 Append(@, [type |-> t, evaluator |-> evaluator, answer |-> answer])]

(* The end of the loop body: one constraint is decided. *)
Decided(g, evaluator, answer) ==
  LET f == frame[g]
      t == Head(f.rest)
  IN /\ frame' = [frame EXCEPT ![g] =
                   [at |-> "loop", rest |-> Tail(f.rest), evaluator |-> NoEntry,
                    report |-> Count(f.report, Judge(t, evaluator # NoEntry, answer))]]
     /\ log' = [log EXCEPT ![g] =
                 Append(@, [type |-> t, evaluator |-> evaluator, answer |-> answer])]

-----------------------------------------------------------------------------
(* The steps of EvaluateAll. *)

Evaluate(g) ==
  /\ frame[g].at = "none"
  /\ pc[g] = "idle"
  /\ \E cs \in ConstraintLists :
       frame' = [frame EXCEPT ![g] = FrameFor(cs)]
  /\ held' = [held EXCEPT ![g] = [t \in Type |-> {entries[t]}]]
  /\ UNCHANGED <<vars, log>>

LookUp(g) ==
  /\ frame[g].at = "loop"
  /\ frame[g].rest # <<>>
  /\ Begin(g, [kind |-> "Get", type |-> Head(frame[g].rest)])
  /\ frame' = [frame EXCEPT ![g].at = "get"]
  /\ UNCHANGED <<log, held>>

(* Get returns to Evaluate, without the lock: no evaluator, no evaluation. *)
LookedUp(g) ==
  /\ frame[g].at = "get"
  /\ Return(g)
  /\ \/ /\ got[g] = NoEntry
        /\ Decided(g, NoEntry, NoAnswer)
     \/ /\ got[g] # NoEntry
        /\ frame' = [frame EXCEPT ![g].at = "run", ![g].evaluator = got[g]]
        /\ UNCHANGED log
  /\ UNCHANGED held

(* The evaluator returns, or panics: nothing here recovers, and the panic    *)
(* ends the EvaluateAll call.  One that never returns takes neither step.   *)
Answers(g) ==
  /\ frame[g].at = "run"
  /\ pc[g] = "idle"
  /\ \E answer \in Answer : Decided(g, frame[g].evaluator, answer)
  /\ UNCHANGED <<vars, held>>

Leave(g) ==
  /\ frame' = [frame EXCEPT ![g] = NoFrame]
  /\ log' = [log EXCEPT ![g] = <<>>]
  /\ held' = [held EXCEPT ![g] = NothingHeld]
  /\ UNCHANGED vars

Panics(g) ==
  /\ frame[g].at = "run"
  /\ pc[g] = "idle"
  /\ Leave(g)

Report(g) ==
  /\ frame[g].at = "loop"
  /\ frame[g].rest = <<>>
  /\ Leave(g)

-----------------------------------------------------------------------------
(* The calls on the registry itself: the application's, an evaluator's while *)
(* it runs, and the inside of any call, EvaluateAll's own Get included.      *)

Free(g) == frame[g].at \in {"none", "run"}

RegistryStep(g) ==
  /\ \/ Free(g) /\ (Invoke(g) \/ Return(g))
     \/ Announce(g)
     \/ Work(g)
  /\ held' = [h \in Goroutine |-> IF frame[h].at = "none" THEN held[h]
                ELSE [t \in Type |-> held[h][t] \cup {entries'[t]}]]
  /\ UNCHANGED <<frame, log>>

EvalNext == \E g \in Goroutine :
  \/ Evaluate(g) \/ LookUp(g) \/ LookedUp(g)
  \/ Answers(g) \/ Panics(g) \/ Report(g)
  \/ RegistryStep(g)

EvalSpec == EvalInit /\ [][EvalNext]_evalVars

(* The Go scheduler runs every runnable goroutine, and a sync.Mutex hands    *)
(* itself to the longest waiter once one has waited a millisecond: a writer  *)
(* is not overtaken for ever, though the lock is taken in between.           *)
(* Nothing is said of evaluators: any of them may take for ever.             *)
EvalFairness == \A g \in Goroutine :
  /\ WF_evalVars(LookUp(g) \/ LookedUp(g) \/ Report(g))
  /\ WF_evalVars(RegistryStep(g) /\ (Work(g) \/ Return(g)))
  /\ SF_evalVars(RegistryStep(g) /\ Announce(g))

EvalFairSpec == EvalSpec /\ EvalFairness

-----------------------------------------------------------------------------
(* Properties. *)

Decision == [type : Type, code : Code \cup {"unrecognized"},
             text : {"none", "registry", "evaluator"}]

ReportState == [status : {"satisfied", "unsatisfied"}, violations : Seq(Decision),
                unrecognized : Nat]
Frame == [at : {"none", "loop", "get", "run"}, rest : Seq(Type),
          evaluator : MaybeEntry, report : ReportState]
Outcome == [type : Type, evaluator : MaybeEntry, answer : AnyAnswer \cup {NoAnswer}]

EvalTypeOK ==
  /\ frame \in [Goroutine -> Frame]
  /\ log \in [Goroutine -> Seq(Outcome)]
  /\ held \in [Goroutine -> [Type -> SUBSET MaybeEntry]]

(* A constraint counts as satisfied on one ground only: an evaluator was     *)
(* found, and it said so without an error.                                   *)
Clean(o) == o.evaluator # NoEntry /\ o.answer.code = "satisfied"

(* The report fails closed (constraint.go:142-149): it is satisfied exactly  *)
(* when every constraint met so far was, whatever the evaluators did.        *)
FailsClosed ==
  \A g \in Goroutine :
    frame[g].report.status = "satisfied" <=> \A i \in 1 .. Len(log[g]) : Clean(log[g][i])

Failed(outcomes) == {i \in 1 .. Len(outcomes) : ~Clean(outcomes[i])}
Missed(outcomes) == {i \in 1 .. Len(outcomes) : outcomes[i].evaluator = NoEntry}

AccountsFor(violation, o) ==
  /\ violation.type = o.type
  /\ violation.code = "unrecognized" <=> o.evaluator = NoEntry

Accounts(report, outcomes) ==
  LET n == Len(report.violations)
  IN /\ report.unrecognized = Cardinality(Missed(outcomes))
     /\ \E place \in Listings(n, Failed(outcomes)) :
          \A i \in 1 .. n : AccountsFor(report.violations[i], outcomes[place[i]])

(* The report is not short-circuited and loses nothing: its violations are  *)
(* the constraints that were not satisfied, in their order; those counted   *)
(* and named unrecognized are the ones no evaluator was found for, and no   *)
(* evaluator can pass for missing.                                          *)
ReportAccountsForAll == \A g \in Goroutine : Accounts(frame[g].report, log[g])

(* Each constraint is judged by what was registered for its type at some     *)
(* time of this very call, be it nothing: never by a leftover of an earlier  *)
(* one.  (It may have been unregistered since: registry.go:128 and 136 are   *)
(* not one step.)                                                            *)
JudgedByRegistered ==
  \A g \in Goroutine :
    /\ \A i \in 1 .. Len(log[g]) : log[g][i].evaluator \in held[g][log[g][i].type]
    /\ frame[g].at = "run" =>
         frame[g].evaluator \in held[g][Head(frame[g].rest)] \ {NoEntry}

(* No lock is held around an evaluator: it may call the registry it came     *)
(* from, and one that never returns holds up nobody.                         *)
EvaluatorRunsUnlocked ==
  \A g \in Goroutine : frame[g].at = "run" /\ pc[g] = "idle" =>
    g \notin readers /\ writer # g

(* EvaluateAll waits for nothing but its own evaluators: outside them it     *)
(* reaches the next one or its end, although other evaluators never return.  *)
EvaluationProceeds ==
  \A g \in Goroutine : frame[g].at \in {"loop", "get"} ~> frame[g].at \in {"none", "run"}

-----------------------------------------------------------------------------
(* The refinement: a constraint's Get takes effect once its answer is in. *)
HasAnswer(g) == pc[g] \in {"runlock", "return"}

Evaluation == [g \in Goroutine |->
  LET f == frame[g] IN
  IF f.at # "get" THEN f
  ELSE IF ~HasAnswer(g) THEN [f EXCEPT !.at = "loop"]
  ELSE IF got[g] # NoEntry THEN [f EXCEPT !.at = "run", !.evaluator = got[g]]
  ELSE [at |-> "loop", rest |-> Tail(f.rest), evaluator |-> NoEntry,
        report |-> Count(f.report, Judge(Head(f.rest), FALSE, NoAnswer))]]

Promise == INSTANCE AtomicEvaluation WITH evaluation <- Evaluation

(* Whatever is registered and unregistered during the call, each constraint  *)
(* is decided by what the registry held at one instant after the decision on *)
(* the one before, in the order of the list (registry.go:128 and 191-200).   *)
ImplementsPromise == Promise!Spec

=============================================================================
