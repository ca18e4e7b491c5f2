--------------------------- MODULE AtomicRegistry ---------------------------
(***************************************************************************)
(* What a registry promises its callers: each call takes effect at one     *)
(* instant between the moment it is made and the moment it returns, and    *)
(* answers from the map as it is at that instant.  There are no locks      *)
(* here; Registry shows that the mutex and the unlocked code around it     *)
(* keep this promise.                                                      *)
(***************************************************************************)
EXTENDS RegistryTypes

VARIABLES
  entries,   \* the map
  call,      \* call[g]: the call g is making
  phase,     \* "idle", "called" (no effect yet) or "done" (answer fixed)
  result,    \* the answer of Register and Unregister
  got,       \* the answer of Get
  listed     \* the answer of Types

vars == <<entries, call, phase, result, got, listed>>

Init ==
  /\ entries = [t \in Type |-> NoEntry]
  /\ call = [g \in Goroutine |-> NoCall]
  /\ phase = [g \in Goroutine |-> "idle"]
  /\ result = [g \in Goroutine |-> "none"]
  /\ got = [g \in Goroutine |-> NoEntry]
  /\ listed = [g \in Goroutine |-> {}]

Invoke(g) ==
  /\ phase[g] = "idle"
  /\ \E c \in Call : call' = [call EXCEPT ![g] = c]
  /\ phase' = [phase EXCEPT ![g] = "called"]
  /\ UNCHANGED <<entries, result, got, listed>>

(* A type is registered once: the first caller wins, the others are told. *)
Register(g) ==
  LET c == call[g]
      outcome == IF ~Accepted(c) THEN "invalid"
                 ELSE IF entries[c.type] # NoEntry THEN "already" ELSE "ok"
  IN /\ c.kind = "Register"
     /\ result' = [result EXCEPT ![g] = outcome]
     /\ entries' = IF outcome = "ok" THEN [entries EXCEPT ![c.type] = c.entry]
                   ELSE entries
     /\ UNCHANGED <<got, listed>>

Unregister(g) ==
  LET t == call[g].type IN
  /\ call[g].kind = "Unregister"
  /\ result' = [result EXCEPT ![g] = IF entries[t] # NoEntry THEN "ok" ELSE "absent"]
  /\ entries' = [entries EXCEPT ![t] = NoEntry]
  /\ UNCHANGED <<got, listed>>

Get(g) ==
  /\ call[g].kind = "Get"
  /\ got' = [got EXCEPT ![g] = entries[call[g].type]]
  /\ UNCHANGED <<entries, result, listed>>

Types(g) ==
  /\ call[g].kind = "Types"
  /\ listed' = [listed EXCEPT ![g] = Present(entries)]
  /\ UNCHANGED <<entries, result, got>>

TakeEffect(g) ==
  /\ phase[g] = "called"
  /\ phase' = [phase EXCEPT ![g] = "done"]
  /\ UNCHANGED call
  /\ Register(g) \/ Unregister(g) \/ Get(g) \/ Types(g)

Return(g) ==
  /\ phase[g] = "done"
  /\ phase' = [phase EXCEPT ![g] = "idle"]
  /\ call' = [call EXCEPT ![g] = NoCall]
  /\ result' = [result EXCEPT ![g] = "none"]
  /\ got' = [got EXCEPT ![g] = NoEntry]
  /\ listed' = [listed EXCEPT ![g] = {}]
  /\ UNCHANGED entries

Next == \E g \in Goroutine : Invoke(g) \/ TakeEffect(g) \/ Return(g)

Spec == Init /\ [][Next]_vars

=============================================================================
