-------------------------- MODULE AtomicEvaluation --------------------------
(***************************************************************************)
(* What EvaluateAll promises while the registry changes: it takes the      *)
(* constraints in order and, for each, what the map holds at one instant   *)
(* after the constraint before was decided.  An evaluator runs later, on   *)
(* its own time.  There are no calls and no locks here: ConstraintEvaluation *)
(* shows that the Get it makes for each constraint keeps this promise.     *)
(***************************************************************************)
EXTENDS RegistryTypes, ConstraintReport

CONSTANTS ConstraintLists, Answer

VARIABLES
  entries,      \* the map
  evaluation    \* evaluation[g]: g's EvaluateAll call

vars == <<entries, evaluation>>

Idle == [at |-> "none", rest |-> <<>>, evaluator |-> NoEntry, report |-> NewReport]

Undecided(cs) == [at |-> "loop", rest |-> cs, evaluator |-> NoEntry, report |-> NewReport]

(* What is left to do once a constraint is decided. *)
Decided(e, evaluator, answer) ==
  [at |-> "loop", rest |-> Tail(e.rest), evaluator |-> NoEntry,
   report |-> Count(e.report, Judge(Head(e.rest), evaluator # NoEntry, answer))]

Init ==
  /\ entries = [t \in Type |-> NoEntry]
  /\ evaluation = [g \in Goroutine |-> Idle]

(* Somebody registers a type that is free, or unregisters one. *)
Change(t, e) ==
  /\ \/ entries[t] = NoEntry /\ <<t, e>> \in Registrable
     \/ e = NoEntry
  /\ entries' = [entries EXCEPT ![t] = e]
  /\ UNCHANGED evaluation

Becomes(g, e) == evaluation' = [evaluation EXCEPT ![g] = e] /\ UNCHANGED entries

Begin(g, cs) == evaluation[g].at = "none" /\ Becomes(g, Undecided(cs))

LookUp(g) ==
  LET e == evaluation[g]
      found == entries[Head(e.rest)]
  IN /\ e.at = "loop" /\ e.rest # <<>>
     /\ Becomes(g, IF found = NoEntry THEN Decided(e, NoEntry, Failure)
                   ELSE [e EXCEPT !.at = "run", !.evaluator = found])

Answers(g, answer) ==
  LET e == evaluation[g] IN e.at = "run" /\ Becomes(g, Decided(e, e.evaluator, answer))

(* The call ends: by a panic of the evaluator, or with its report. *)
End(g) ==
  LET e == evaluation[g] IN (e.at = "run" \/ (e.at = "loop" /\ e.rest = <<>>)) /\ Becomes(g, Idle)

Next ==
  \/ \E t \in Type, e \in MaybeEntry : Change(t, e)
  \/ \E g \in Goroutine :
       \/ \E cs \in ConstraintLists : Begin(g, cs)
       \/ \E answer \in Answer : Answers(g, answer)
       \/ LookUp(g) \/ End(g)

Spec == Init /\ [][Next]_vars

=============================================================================
