------------------------------ MODULE Registry ------------------------------
(***************************************************************************)
(* The evaluator registry (constraint/registry.go:28-118), step by step:   *)
(* the checks before the lock, the sync.RWMutex, the map read and the map  *)
(* write that follow it, and the iteration of Types.  The driver registry  *)
(* (driver/registry.go:32-124) has the same steps, with a definition and   *)
(* its descriptor as the entry and Descriptors in the place of Types.      *)
(*                                                                         *)
(* The mutex is the Go library's, modelled as it behaves: a writer first   *)
(* announces itself, which turns later readers away, then waits for the    *)
(* readers inside to leave; Unlock admits every reader turned away.        *)
(***************************************************************************)
EXTENDS RegistryTypes

CONSTANT NoGoroutine

ASSUME RegistryWriter == NoGoroutine \notin Goroutine

VARIABLES
  entries,   \* Registry.evaluators
  writer,    \* the goroutine that holds or awaits the write lock
  readers,   \* the goroutines that hold the read lock
  pc,        \* pc[g]: where g is in its call
  call,      \* call[g]: the call g is making
  result,    \* result[g]: the error or bool that call answers with
  got,       \* got[g]: the evaluator Get answers with
  listed     \* listed[g]: the keys Types has collected

vars == <<entries, writer, readers, pc, call, result, got, listed>>

Writes(c) == c.kind \in {"Register", "Unregister"}
Reads(c)  == c.kind \in {"Get", "Types"}

Init ==
  /\ entries = [t \in Type |-> NoEntry]
  /\ writer = NoGoroutine
  /\ readers = {}
  /\ pc = [g \in Goroutine |-> "idle"]
  /\ call = [g \in Goroutine |-> NoCall]
  /\ result = [g \in Goroutine |-> "none"]
  /\ got = [g \in Goroutine |-> NoEntry]
  /\ listed = [g \in Goroutine |-> {}]

Goto(g, place) == pc' = [pc EXCEPT ![g] = place]

-----------------------------------------------------------------------------
(* Calling and returning. *)

Begin(g, c) ==
  /\ pc[g] = "idle"
  /\ call' = [call EXCEPT ![g] = c]
  /\ Goto(g, "start")
  /\ UNCHANGED <<entries, writer, readers, result, got, listed>>

Invoke(g) == \E c \in Call : Begin(g, c)

(* The early returns of Register: an invalid type, a nil evaluator. *)
Reject(g) ==
  /\ pc[g] = "start"
  /\ call[g].kind = "Register"
  /\ ~Accepted(call[g])
  /\ result' = [result EXCEPT ![g] = "invalid"]
  /\ Goto(g, "return")
  /\ UNCHANGED <<entries, writer, readers, call, got, listed>>

Return(g) ==
  /\ pc[g] = "return"
  /\ call' = [call EXCEPT ![g] = NoCall]
  /\ result' = [result EXCEPT ![g] = "none"]
  /\ got' = [got EXCEPT ![g] = NoEntry]
  /\ listed' = [listed EXCEPT ![g] = {}]
  /\ Goto(g, "idle")
  /\ UNCHANGED <<entries, writer, readers>>

-----------------------------------------------------------------------------
(* The RWMutex. *)

(* A mutant of Announce: Register and Unregister without the writers' lock. *)
AnnounceAlways(g) ==
  /\ pc[g] = "start"
  /\ Writes(call[g])
  /\ call[g].kind = "Register" => Accepted(call[g])
  /\ writer' = g
  /\ Goto(g, "waiting")
  /\ UNCHANGED <<entries, readers, call, result, got, listed>>

Announce(g) ==
  /\ pc[g] = "start"
  /\ Writes(call[g])
  /\ call[g].kind = "Register" => Accepted(call[g])
  /\ writer = NoGoroutine
  /\ writer' = g
  /\ Goto(g, "waiting")
  /\ UNCHANGED <<entries, readers, call, result, got, listed>>

(* A mutant of Lock: the writer enters among the readers. *)
LockAmongReaders(g) ==
  /\ pc[g] = "waiting"
  /\ Goto(g, "check")
  /\ UNCHANGED <<entries, writer, readers, call, result, got, listed>>

Lock(g) ==
  /\ pc[g] = "waiting"
  /\ readers = {}
  /\ Goto(g, "check")
  /\ UNCHANGED <<entries, writer, readers, call, result, got, listed>>

Unlock(g) ==
  LET blocked == {h \in Goroutine : pc[h] = "blocked"} IN
  /\ pc[g] = "unlock"
  /\ writer' = NoGoroutine
  /\ readers' = readers \cup blocked
  /\ pc' = [h \in Goroutine |-> IF h = g THEN "return"
                                ELSE IF h \in blocked THEN "read" ELSE pc[h]]
  /\ UNCHANGED <<entries, call, result, got, listed>>

(* A mutant of RLock: Get and Types without a lock. *)
RLockAlways(g) ==
  /\ pc[g] = "start"
  /\ Reads(call[g])
  /\ Goto(g, "read")
  /\ UNCHANGED <<entries, writer, readers, call, result, got, listed>>

RLock(g) ==
  /\ pc[g] = "start"
  /\ Reads(call[g])
  /\ \/ /\ writer = NoGoroutine
        /\ readers' = readers \cup {g}
        /\ Goto(g, "read")
     \/ /\ writer # NoGoroutine
        /\ Goto(g, "blocked")
        /\ UNCHANGED readers
  /\ UNCHANGED <<entries, writer, call, result, got, listed>>

(* A mutant of RUnlock: a return that keeps the read lock. *)
RUnlockForgotten(g) ==
  /\ pc[g] = "runlock"
  /\ Goto(g, "return")
  /\ UNCHANGED <<entries, writer, readers, call, result, got, listed>>

RUnlock(g) ==
  /\ pc[g] = "runlock"
  /\ readers' = readers \ {g}
  /\ Goto(g, "return")
  /\ UNCHANGED <<entries, writer, call, result, got, listed>>

-----------------------------------------------------------------------------
(* Register: the existence check, then the write, one map access a step. *)

(* Mutants of RegisterCheck: the later registration wins; and the duplicate's *)
(* early return without the deferred Unlock.                                  *)
RegisterOverwrites(g) ==
  /\ pc[g] = "check"
  /\ call[g].kind = "Register"
  /\ Goto(g, "insert")
  /\ UNCHANGED <<entries, writer, readers, call, result, got, listed>>

RegisterKeepsLock(g) ==
  /\ pc[g] = "check"
  /\ call[g].kind = "Register"
  /\ \/ /\ entries[call[g].type] # NoEntry
        /\ result' = [result EXCEPT ![g] = "already"]
        /\ Goto(g, "return")
     \/ /\ entries[call[g].type] = NoEntry
        /\ Goto(g, "insert")
        /\ UNCHANGED result
  /\ UNCHANGED <<entries, writer, readers, call, got, listed>>

RegisterCheck(g) ==
  /\ pc[g] = "check"
  /\ call[g].kind = "Register"
  /\ \/ /\ entries[call[g].type] # NoEntry
        /\ result' = [result EXCEPT ![g] = "already"]
        /\ Goto(g, "unlock")
     \/ /\ entries[call[g].type] = NoEntry
        /\ Goto(g, "insert")
        /\ UNCHANGED result
  /\ UNCHANGED <<entries, writer, readers, call, got, listed>>

RegisterInsert(g) ==
  /\ pc[g] = "insert"
  /\ entries' = [entries EXCEPT ![call[g].type] = call[g].entry]
  /\ result' = [result EXCEPT ![g] = "ok"]
  /\ Goto(g, "unlock")
  /\ UNCHANGED <<writer, readers, call, got, listed>>

(* Unregister: the answer is what the map held before the delete. *)

UnregisterCheck(g) ==
  LET existed == entries[call[g].type] # NoEntry IN
  /\ pc[g] = "check"
  /\ call[g].kind = "Unregister"
  /\ result' = [result EXCEPT ![g] = IF existed THEN "ok" ELSE "absent"]
  /\ Goto(g, "delete")
  /\ UNCHANGED <<entries, writer, readers, call, got, listed>>

(* A mutant of UnregisterDelete: existence read after the delete. *)
DeleteThenCheck(g) ==
  /\ pc[g] = "delete"
  /\ entries' = [entries EXCEPT ![call[g].type] = NoEntry]
  /\ result' = [result EXCEPT ![g] = "absent"]
  /\ Goto(g, "unlock")
  /\ UNCHANGED <<writer, readers, call, got, listed>>

UnregisterDelete(g) ==
  /\ pc[g] = "delete"
  /\ entries' = [entries EXCEPT ![call[g].type] = NoEntry]
  /\ Goto(g, "unlock")
  /\ UNCHANGED <<writer, readers, call, result, got, listed>>

Lookup(g) ==
  /\ pc[g] = "read"
  /\ call[g].kind = "Get"
  /\ got' = [got EXCEPT ![g] = entries[call[g].type]]
  /\ Goto(g, "runlock")
  /\ UNCHANGED <<entries, writer, readers, call, result, listed>>

(* Types ranges over the live map, a key at a time and in any order, and *)
(* ends when no key it has not visited is left.                          *)
CollectType(g) ==
  /\ pc[g] = "read"
  /\ call[g].kind = "Types"
  /\ \E t \in Present(entries) \ listed[g] :
        listed' = [listed EXCEPT ![g] = @ \cup {t}]
  /\ UNCHANGED <<entries, writer, readers, pc, call, result, got>>

EndTypes(g) ==
  /\ pc[g] = "read"
  /\ call[g].kind = "Types"
  /\ Present(entries) \subseteq listed[g]
  /\ Goto(g, "runlock")
  /\ UNCHANGED <<entries, writer, readers, call, result, got, listed>>

-----------------------------------------------------------------------------
(* What a goroutine inside a call does by itself. *)
Work(g) ==
  \/ Reject(g) \/ Lock(g) \/ Unlock(g) \/ RLock(g) \/ RUnlock(g)
  \/ RegisterCheck(g) \/ RegisterInsert(g)
  \/ UnregisterCheck(g) \/ UnregisterDelete(g)
  \/ Lookup(g) \/ CollectType(g) \/ EndTypes(g)

Next == \E g \in Goroutine : Invoke(g) \/ Return(g) \/ Announce(g) \/ Work(g)

Spec == Init /\ [][Next]_vars

-----------------------------------------------------------------------------
(* Properties. *)

Place == {"idle", "start", "waiting", "check", "insert", "delete", "unlock",
          "blocked", "read", "runlock", "return"}

TypeOK ==
  /\ entries \in [Type -> MaybeEntry]
  /\ writer \in Goroutine \cup {NoGoroutine}
  /\ readers \in SUBSET Goroutine
  /\ pc \in [Goroutine -> Place]
  /\ call \in [Goroutine -> Call \cup {NoCall}]
  /\ result \in [Goroutine -> Result]
  /\ got \in [Goroutine -> MaybeEntry]
  /\ listed \in [Goroutine -> SUBSET Type]

(* The code between Lock and Unlock, and between RLock and RUnlock. *)
Writing(g) == pc[g] \in {"check", "insert", "delete", "unlock"}
Reading(g) == pc[g] \in {"read", "runlock"}

(* Nobody else is in the map while a goroutine writes it: in Go a concurrent *)
(* map access there is a fatal error.                                        *)
MutualExclusion ==
  \A g, h \in Goroutine : g # h /\ Writing(g) => ~Writing(h) /\ ~Reading(h)

(* The answer of the check still holds at the write that relies on it       *)
(* (registry.go:70 and 74, 85 and 86): a Register about to insert finds the *)
(* type free, an Unregister about to delete finds what it will report.      *)
CheckStillHolds ==
  \A g \in Goroutine :
    LET t == call[g].type IN
    /\ pc[g] = "insert" => call[g].kind = "Register" /\ entries[t] = NoEntry
    /\ pc[g] = "delete" => /\ call[g].kind = "Unregister"
                           /\ result[g] = IF entries[t] # NoEntry THEN "ok" ELSE "absent"

(* What Types has collected was all registered at one time: while it still   *)
(* holds the lock each key is in the map, and at the end no key is missing.  *)
TypesIsSnapshot ==
  \A g \in Goroutine : call[g].kind = "Types" =>
    /\ Reading(g) => listed[g] \subseteq Present(entries)
    /\ pc[g] = "runlock" => listed[g] = Present(entries)

(* What the lock's own state says of where its holders are. *)
LockInv ==
  /\ readers = {g \in Goroutine : Reading(g)}
  /\ \A g \in Goroutine : pc[g] = "waiting" \/ Writing(g) <=> writer = g
  /\ \A g \in Goroutine : Writing(g) => readers = {}

(* A call is where its kind may take it, with no answer but its kind's. *)
CallInv ==
  \A g \in Goroutine :
    /\ pc[g] = "idle" <=> call[g] = NoCall
    /\ pc[g] = "waiting" \/ Writing(g) =>
         Writes(call[g]) /\ (call[g].kind = "Register" => Accepted(call[g]))
    /\ pc[g] = "blocked" \/ Reading(g) => Reads(call[g])
    /\ ~Writes(call[g]) => result[g] = "none"
    /\ call[g].kind # "Get" => got[g] = NoEntry
    /\ call[g].kind # "Types" \/ pc[g] \in {"start", "blocked"} => listed[g] = {}

(* The inductive invariant behind the properties above and the refinement. *)
IInv == TypeOK /\ LockInv /\ CallInv /\ CheckStillHolds /\ TypesIsSnapshot

(* A registered entry is never replaced: it leaves the map by an Unregister *)
(* that found it, and only then can the type be registered again.           *)
NeverReplaced ==
  [][\A t \in Type : entries[t] # NoEntry /\ entries'[t] # entries[t] =>
       /\ entries'[t] = NoEntry
       /\ \E g \in Goroutine :
            call[g] = [kind |-> "Unregister", type |-> t] /\ result[g] = "ok"]_vars

(* No call waits for ever on the lock: readers that keep coming do not keep *)
(* a writer out, nor writers a reader.                                      *)
EveryCallReturns == \A g \in Goroutine : pc[g] # "idle" ~> pc[g] = "idle"

-----------------------------------------------------------------------------
(* The refinement: a call has taken effect once its answer is settled, and   *)
(* its answer is nobody's business before that.                              *)
Settled(g) == pc[g] \in {"unlock", "runlock", "return"}

Phase == [g \in Goroutine |-> IF pc[g] = "idle" THEN "idle"
                              ELSE IF Settled(g) THEN "done" ELSE "called"]

AnswerOnceSettled(answer, none) ==
  [g \in Goroutine |-> IF Settled(g) THEN answer[g] ELSE none]

Atomic == INSTANCE AtomicRegistry WITH
  phase  <- Phase,
  result <- AnswerOnceSettled(result, "none"),
  got    <- AnswerOnceSettled(got, NoEntry),
  listed <- AnswerOnceSettled(listed, {})

(* Every history of the locked map is one of the atomic map: the calls are *)
(* linearizable, and none answers from a state in between.                 *)
ImplementsAtomic == Atomic!Spec

=============================================================================
