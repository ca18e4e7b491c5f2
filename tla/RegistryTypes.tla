---------------------------- MODULE RegistryTypes ----------------------------
(***************************************************************************)
(* The vocabulary the two registries of the framework share: constraint    *)
(* evaluators keyed by constraint type (constraint/registry.go) and driver *)
(* definitions keyed by driver type (driver/registry.go).  Both are a Go   *)
(* map guarded by one sync.RWMutex, called by any number of goroutines.    *)
(***************************************************************************)

CONSTANTS
  Goroutine,    \* the goroutines that call the registry
  Type,         \* the names: constraint types or driver types
  Entry,        \* what can be stored: evaluators, or registered definitions
  NoEntry,      \* a nil evaluator or definition; also an absent map entry
  Registrable   \* the <<type, entry>> pairs that pass the checks made before the lock

ASSUME RegistryConstants ==
  /\ NoEntry \notin Entry
  /\ Registrable \subseteq Type \X Entry

MaybeEntry == Entry \cup {NoEntry}

(* The calls a goroutine may make, with their arguments. *)
RegisterCall   == [kind : {"Register"}, type : Type, entry : MaybeEntry]
UnregisterCall == [kind : {"Unregister"}, type : Type]
GetCall        == [kind : {"Get"}, type : Type]
TypesCall      == [kind : {"Types"}]
Call           == RegisterCall \cup UnregisterCall \cup GetCall \cup TypesCall

NoCall == [kind |-> "none"]

(* What Register and Unregister answer.  "invalid" stands for ErrValidation  *)
(* and ErrInvalidEvaluator (ErrInvalidDefinition for drivers), "already" for *)
(* ErrAlreadyRegistered, "absent" for Unregister's false.                    *)
Result == {"none", "ok", "invalid", "already", "absent"}

(* The pre-lock checks of Register: a namespaced type and a usable entry. *)
Accepted(c) == <<c.type, c.entry>> \in Registrable

(* The types a map m holds an entry for. *)
Present(m) == {t \in Type : m[t] # NoEntry}

=============================================================================
