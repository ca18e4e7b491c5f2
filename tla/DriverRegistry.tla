--------------------------- MODULE DriverRegistry ---------------------------
(***************************************************************************)
(* The driver registry (driver/registry.go): definitions come and go, the  *)
(* application reads the registered descriptors, and a host validates      *)
(* configurations and binds drivers.  A step is what happens under one     *)
(* lock, or between two calls of application code: the map and its lock    *)
(* are used as in Registry, whose calls are proved to be single steps.     *)
(*                                                                         *)
(* The operations of a descriptor stand for all that a holder of it could  *)
(* write to (operations, modes, schema).  Each copy of them lives in a     *)
(* place of its own, and to share is to name the same place.               *)
(***************************************************************************)
EXTENDS Naturals, FiniteSets

CONSTANTS
  DriverType,    \* the driver types
  Config,        \* configurations
  JsonObject,    \* those that are empty or a JSON object
  Operations,    \* the sets of operations a descriptor may list
  Definition,    \* what may be registered
  NoEntry,       \* an absent map entry
  MaxWrites,     \* how many writes to shared descriptors are looked at
  MaxRegistering \* how many registrations may be in progress at a time

Core == {"Inspect", "Evaluate", "Redeem"}

Driver == [type : DriverType, operations : Operations, reverser : BOOLEAN]

(* The place of the operations in a definition's own descriptor, in the one *)
(* the registry keeps for a type, and in the one a reader has been given.   *)
Place == {"definition"} \X Definition \cup {"registry", "reader"} \X DriverType

Entry == [definition : Definition, kept : Place, declared : Operations]

(* A definition: its descriptor (its type and its first operations; one that *)
(* is invalid for another reason is never registered, and is left out), the  *)
(* configurations it compiles, whether that gives a factory, and what the    *)
(* factory may make: a driver, or nil (<<>>).                                *)
ASSUME DriverConstants ==
  /\ JsonObject \subseteq Config
  /\ MaxWrites \in Nat /\ MaxRegistering \in Nat \ {0}
  /\ NoEntry \notin Entry
  /\ \A d \in Definition :
       /\ d.type \in DriverType /\ d.operations \in Operations
       /\ d.factory \in BOOLEAN
       /\ d.accepts \subseteq Config
       /\ d.factory => d.makes # {}
       /\ \A m \in d.makes : m = <<>> \/ \E v \in Driver : m = <<v>>

VARIABLES
  entries,   \* the map: a definition, the place of its kept descriptor, and
             \* (history) the operations it was registered with
  heap,      \* the operations in each place
  registering, \* the definitions whose registration waits for the lock
  given,     \* the places readers may write to
  writes,    \* how often they have
  call,      \* the host's call: where it is, its arguments, its definition
  answer,    \* what it answered
  held,      \* the definitions its type has had since it began (history)
  verdict    \* <<the last answer of a ValidateConfig>>, or <<>>

descriptorVars == <<heap, given, writes>>
callVars == <<call, answer, verdict>>
vars == <<entries, registering, descriptorVars, callVars, held>>

NoCall == [at |-> "none"]
NoAnswer == [err |-> "none", driver |-> <<>>]
Fails(err) == [err |-> err, driver |-> <<>>]

Init ==
  /\ entries = [t \in DriverType |-> NoEntry] /\ registering = {}
  /\ heap = [p \in Place |-> IF p[1] = "definition" THEN p[2].operations ELSE {}]
  /\ given = {"definition"} \X Definition
  /\ writes = 0
  /\ call = NoCall /\ answer = NoAnswer
  /\ held = {} /\ verdict = <<>>

DefinitionsOf(t) == IF entries[t] = NoEntry THEN {} ELSE {entries[t].definition}

-----------------------------------------------------------------------------
(* The registered definitions, and their descriptors. *)

(* A mutant of Kept: the definition's descriptor is kept, not a copy. *)
KeptShared(d) == <<"definition", d>>

Kept(d) == <<"registry", d.type>>

(* Register asks for the descriptor and validates it before it takes the     *)
(* lock; whoever shares the descriptor may write to it between the two.      *)
ValidateDescriptor(d) ==
  /\ heap[<<"definition", d>>] \cap Core = {}
  /\ registering' = registering \cup {d} /\ Cardinality(registering') <= MaxRegistering
  /\ UNCHANGED <<entries, descriptorVars, callVars, held>>

Insert(d) ==
  LET operations == heap[<<"definition", d>>]
      t == d.type
  IN /\ entries' = [entries EXCEPT ![t] =
                     [definition |-> d, kept |-> Kept(d), declared |-> operations]]
     /\ heap' = [heap EXCEPT ![Kept(d)] = operations]
     /\ held' = IF call.at # "none" /\ call.type = t THEN held \cup {d} ELSE held

(* Under the lock: a free type is taken, and one that is not is an error     *)
(* (ErrAlreadyRegistered).                                                   *)
Register(d) ==
  /\ d \in registering
  /\ registering' = registering \ {d}
  /\ \/ entries[d.type] = NoEntry /\ Insert(d)
     \/ entries[d.type] # NoEntry /\ UNCHANGED <<entries, heap, held>>
  /\ UNCHANGED <<given, writes, callVars>>

Unregister(t) ==
  /\ entries[t] # NoEntry
  /\ entries' = [entries EXCEPT ![t] = NoEntry]
  /\ UNCHANGED <<registering, descriptorVars, callVars, held>>

(* Descriptors gives a copy of every kept descriptor, ConfigSchema of one. *)
Read(types) ==
  LET found == {t \in types : entries[t] # NoEntry} IN
  /\ heap' = [p \in Place |-> IF p[1] = "reader" /\ p[2] \in found
                              THEN heap[entries[p[2]].kept] ELSE heap[p]]
  /\ given' = given \cup {<<"reader", t>> : t \in found}
  /\ UNCHANGED <<entries, registering, writes, callVars, held>>

Descriptors == Read(DriverType)
ConfigSchema(t) == Read({t})

(* Whoever holds a descriptor writes to it, allowed or not. *)
Write ==
  /\ writes < MaxWrites
  /\ writes' = writes + 1
  /\ \E p \in given : \E operations \in Operations \ {heap[p]} :
       heap' = [heap EXCEPT ![p] = operations]
  /\ UNCHANGED <<entries, registering, given, callVars, held>>

-----------------------------------------------------------------------------
(* ValidateConfig and Bind: a look-up under the lock, and then, without it,  *)
(* the definition that was found.                                            *)

Return(a) ==
  /\ call' = [call EXCEPT !.at = "done"]
  /\ answer' = a

(* A mutant of IsConfig: to validate is the definition's business. *)
IsConfigToBind(kind, c) == kind = "Bind" => c \in JsonObject

(* DriverConfig.Validate, which both of them call. *)
IsConfig(kind, c) == c \in JsonObject

LookUp(kind) ==
  /\ call.at = "none"
  /\ \E t \in DriverType, c \in Config :
       LET found == DefinitionsOf(t)
           Calls(at, definition) ==
             call' = [at |-> at, kind |-> kind, type |-> t, config |-> c,
                      definition |-> definition]
       IN
       /\ held' = found
       /\ \/ /\ found = {}
             /\ Calls("done", <<>>)
             /\ answer' = Fails("ErrNotRegistered")
          \/ \E d \in found :
             /\ ~IsConfig(kind, c)
             /\ Calls("done", <<d>>)
             /\ answer' = Fails("ErrInvalidDriverConfig")
          \/ \E d \in found :
             /\ IsConfig(kind, c)
             /\ Calls("found", <<d>>)
             /\ UNCHANGED answer
  /\ UNCHANGED <<entries, registering, descriptorVars, verdict>>

ValidateConfig ==
  /\ call.at = "found" /\ call.kind = "ValidateConfig"
  /\ Return(IF call.config \in call.definition[1].accepts THEN NoAnswer
            ELSE Fails("ErrInvalidDriverConfig"))
  /\ UNCHANGED <<entries, registering, descriptorVars, held, verdict>>

CompileConfig ==
  /\ call.at = "found" /\ call.kind = "Bind"
  /\ LET d == call.definition[1] IN
       \/ /\ call.config \notin d.accepts
          /\ Return(Fails("ErrInvalidDriverConfig"))
       \/ /\ call.config \in d.accepts /\ ~d.factory
          /\ Return(Fails("ErrInvalidDefinition"))
       \/ /\ call.config \in d.accepts /\ d.factory
          /\ call' = [call EXCEPT !.at = "compiled"]
          /\ UNCHANGED answer
  /\ UNCHANGED <<entries, registering, descriptorVars, held, verdict>>

(* A mutant of Honest: what the definition declares is looked at. *)
HonestByDefinition(d, v) ==
  /\ v.type = d.type
  /\ "Reverse" \in d.operations => v.reverser

(* What Bind asks of a driver: the type, and a Reverser if it says Reverse.  *)
(* A made driver's type is what its Descriptor says the first time           *)
(* (registry.go:172) and its operations what it says the second (186), all   *)
(* that is used of either: one that changes its mind is a driver like others. *)
Honest(d, v) ==
  /\ v.type = d.type
  /\ "Reverse" \in v.operations => v.reverser

Bind ==
  /\ call.at = "compiled"
  /\ LET d == call.definition[1] IN
       \E made \in d.makes :
         Return(IF made # <<>> /\ Honest(d, made[1]) THEN [err |-> "none", driver |-> made]
                ELSE Fails("ErrInvalidDefinition"))
  /\ UNCHANGED <<entries, registering, descriptorVars, held, verdict>>

(* The host takes the answer, and remembers for its next call what it was    *)
(* told of a configuration.                                                  *)
TakeAnswer ==
  /\ call.at = "done"
  /\ verdict' = IF call.kind = "ValidateConfig" /\ call.definition # <<>>
                THEN <<[definition |-> call.definition, config |-> call.config,
                        err |-> answer.err]>>
                ELSE <<>>
  /\ call' = NoCall /\ answer' = NoAnswer /\ held' = {}
  /\ UNCHANGED <<entries, registering, descriptorVars>>

Next ==
  \/ \E d \in Definition : ValidateDescriptor(d) \/ Register(d)
  \/ \E t \in DriverType : Unregister(t) \/ ConfigSchema(t)
  \/ Descriptors \/ Write
  \/ \E kind \in {"ValidateConfig", "Bind"} : LookUp(kind)
  \/ ValidateConfig \/ CompileConfig \/ Bind \/ TakeAnswer

Spec == Init /\ [][Next]_vars

-----------------------------------------------------------------------------
(* Properties. *)

(* A kept descriptor is what was registered, as long as it is: neither its   *)
(* definition nor a reader of it writes to the registry's own                *)
(* (registry.go:53, 81, 120).                                                *)
DescriptorsKept ==
  \A t \in DriverType :
    entries[t] # NoEntry => heap[entries[t].kept] = entries[t].declared

(* A bound driver is of the type that was asked for, can do the reversal it  *)
(* declares, and comes from a definition that was registered for that type   *)
(* at some time of the call, though it may be registered no longer.          *)
BoundAsAsked ==
  answer.driver # <<>> =>
    LET v == answer.driver[1] IN
    /\ v.type = call.type
    /\ "Reverse" \in v.operations => v.reverser
    /\ \E d \in held : d.type = call.type /\ answer.driver \in d.makes

(* What ValidateConfig said of a definition and a configuration is what Bind *)
(* says of the two, whatever is registered in between: a configuration that  *)
(* was accepted is never refused as one, nor the other way around            *)
(* (driver.go:89-98, README.md:75-76).                                       *)
ValidationPredictsBind ==
  /\ call.at = "done" /\ call.kind = "Bind" /\ verdict # <<>>
  /\ verdict[1].definition = call.definition /\ verdict[1].config = call.config
  => (verdict[1].err = "none" <=> answer.err # "ErrInvalidDriverConfig")

(* Operations is a driver type's maximum of capabilities (driver.go:27-29),  *)
(* a driver's descriptor must match its definition's (driver.go:125-127),    *)
(* and a driver that breaks the contract is an ErrInvalidDefinition          *)
(* (driver/errors.go:9-11): no driver that is bound declares more than the   *)
(* definition it comes from.                                                 *)
BoundWithinMaximum ==
  answer.driver # <<>> =>
    \E d \in held : answer.driver \in d.makes /\ answer.driver[1].operations \subseteq d.operations

=============================================================================
