------------------------ MODULE DriverRegistryProofs ------------------------
(***************************************************************************)
(* Theorems about DriverRegistry, for any definitions, honest or not, and  *)
(* any configurations.                                                     *)
(***************************************************************************)
EXTENDS DriverRegistry, TLAPS

(* The registry's own places are nobody else's, and hold what was registered. *)
KeptInv ==
  /\ heap = [p \in Place |-> heap[p]]
  /\ given \subseteq {p \in Place : p[1] # "registry"}
  /\ \A t \in DriverType : entries[t] # NoEntry =>
       /\ entries[t].kept = <<"registry", t>>
       /\ heap[<<"registry", t>>] = entries[t].declared
       /\ entries[t].definition \in Definition
       /\ entries[t].definition.type = t
  /\ entries = [t \in DriverType |-> entries[t]]

LEMMA Places ==
  /\ \A d \in Definition : <<"definition", d>> \in Place
  /\ \A t \in DriverType : <<"registry", t>> \in Place /\ <<"reader", t>> \in Place
  /\ \A p \in Place : p = <<p[1], p[2]>>
  BY DEF Place

LEMMA InsertKeeps ==
  ASSUME KeptInv, NEW d \in Definition, Insert(d), UNCHANGED given
  PROVE  KeptInv'
<1> DEFINE e == [definition |-> d, kept |-> Kept(d), declared |-> heap[<<"definition", d>>]]
<1>1. d.type \in DriverType
  BY DriverConstants
<1>2. /\ entries' = [entries EXCEPT ![d.type] = e]
      /\ heap' = [heap EXCEPT ![<<"registry", d.type>>] = heap[<<"definition", d>>]]
      /\ given' = given
  BY DEF Insert, Kept
<1>3. /\ heap' = [p \in Place |-> heap'[p]]
      /\ entries' = [t \in DriverType |-> entries'[t]]
  BY <1>2 DEF KeptInv
<1>4. heap'[<<"registry", d.type>>] = heap[<<"definition", d>>]
  BY <1>1, <1>2, Places DEF KeptInv
<1>5. ASSUME NEW t \in DriverType, t # d.type
      PROVE  entries'[t] = entries[t] /\ heap'[<<"registry", t>>] = heap[<<"registry", t>>]
  BY <1>1, <1>2, <1>5, Places DEF KeptInv
<1>6. entries'[d.type] = e
  BY <1>1, <1>2 DEF KeptInv
<1>7. ASSUME NEW t \in DriverType, entries'[t] # NoEntry
      PROVE  /\ entries'[t].kept = <<"registry", t>>
             /\ heap'[<<"registry", t>>] = entries'[t].declared
             /\ entries'[t].definition \in Definition
             /\ entries'[t].definition.type = t
  <2>1. CASE t = d.type
    BY <1>4, <1>6, <2>1 DEF Kept
  <2>2. CASE t # d.type
    BY <1>5, <1>7, <2>2 DEF KeptInv
  <2> QED
    BY <2>1, <2>2
<1> QED
  BY <1>2, <1>3, <1>7 DEF KeptInv

LEMMA ReadKeeps ==
  ASSUME KeptInv, NEW types \in SUBSET DriverType, Read(types)
  PROVE  KeptInv'
<1>1. entries' = entries
  BY DEF Read
<1>2. ASSUME NEW t \in DriverType PROVE heap'[<<"registry", t>>] = heap[<<"registry", t>>]
  BY Places DEF Read
<1>3. heap' = [p \in Place |-> heap'[p]]
  BY DEF Read
<1>4. given' \subseteq {p \in Place : p[1] # "registry"}
  <2>1. ASSUME NEW t \in DriverType PROVE <<"reader", t>> \in {p \in Place : p[1] # "registry"}
    BY Places
  <2> QED
    BY <2>1 DEF Read, KeptInv
<1> QED
  BY <1>1, <1>2, <1>3, <1>4 DEF KeptInv

LEMMA WriteKeeps ==
  ASSUME KeptInv, Write
  PROVE  KeptInv'
<1>1. PICK p \in given, operations \in Operations : heap' = [heap EXCEPT ![p] = operations]
  BY DEF Write
<1>2. p \in Place /\ p[1] # "registry"
  BY DEF KeptInv
<1>3. ASSUME NEW t \in DriverType PROVE heap'[<<"registry", t>>] = heap[<<"registry", t>>]
  <2>1. p # <<"registry", t>>
    BY <1>2
  <2> QED
    BY <1>1, <2>1, Places DEF KeptInv
<1>4. heap' = [q \in Place |-> heap'[q]]
  BY <1>1 DEF KeptInv
<1> QED
  BY <1>3, <1>4 DEF KeptInv, Write

LEMMA KeptAlways == Spec => []KeptInv
<1>1. Init => KeptInv
  <2> SUFFICES ASSUME Init PROVE KeptInv
    OBVIOUS
  <2>1. given \subseteq {p \in Place : p[1] # "registry"}
    BY Places DEF Init
  <2>2. \A t \in DriverType : entries[t] = NoEntry
    BY DEF Init
  <2> QED
    BY <2>1, <2>2 DEF Init, KeptInv
<1>2. KeptInv /\ [Next]_vars => KeptInv'
  <2> SUFFICES ASSUME KeptInv, [Next]_vars PROVE KeptInv'
    OBVIOUS
  <2>1. ASSUME NEW d \in Definition, Register(d) PROVE KeptInv'
    <3>1. CASE Insert(d)
      BY <2>1, <3>1, InsertKeeps DEF Register
    <3>2. CASE UNCHANGED <<entries, heap>>
      BY <2>1, <3>2 DEF Register, KeptInv
    <3> QED
      BY <2>1, <3>1, <3>2 DEF Register
  <2>2. ASSUME NEW t \in DriverType, Unregister(t) PROVE KeptInv'
    BY <2>2 DEF KeptInv, Unregister, descriptorVars
  <2>3. ASSUME NEW t \in DriverType, ConfigSchema(t) PROVE KeptInv'
    BY <2>3, ReadKeeps DEF ConfigSchema
  <2>4. CASE Descriptors
    BY <2>4, ReadKeeps DEF Descriptors
  <2>5. CASE Write
    BY <2>5, WriteKeeps
  <2>6. CASE UNCHANGED <<entries, descriptorVars>>
    BY <2>6 DEF KeptInv, descriptorVars
  <2>7. ASSUME NEW kind \in {"ValidateConfig", "Bind"}, LookUp(kind)
        PROVE  UNCHANGED <<entries, descriptorVars>>
    BY <2>7 DEF LookUp
  <2>8. ASSUME NEW d \in Definition, ValidateDescriptor(d)
        PROVE  UNCHANGED <<entries, descriptorVars>>
    BY <2>8 DEF ValidateDescriptor
  <2>9. ValidateConfig \/ CompileConfig \/ Bind \/ TakeAnswer \/ UNCHANGED vars
          => UNCHANGED <<entries, descriptorVars>>
    BY DEF ValidateConfig, CompileConfig, Bind, TakeAnswer, vars
  <2> QED
    BY <2>1, <2>2, <2>3, <2>4, <2>5, <2>6, <2>7, <2>8, <2>9 DEF Next
<1> QED
  BY <1>1, <1>2, PTL DEF Spec

(* What the registry keeps of a descriptor is what was registered, whoever   *)
(* writes to the definition's or to a reader's.                              *)
THEOREM KeptAsRegistered == Spec => []DescriptorsKept
<1>1. KeptInv => DescriptorsKept
  BY DEF KeptInv, DescriptorsKept
<1> QED
  BY <1>1, KeptAlways, PTL

-----------------------------------------------------------------------------
(* Where a call may be, and with what answer. *)
Kind == {"ValidateConfig", "Bind"}

Called(at, kind, t, c, definition) ==
  [at |-> at, kind |-> kind, type |-> t, config |-> c, definition |-> definition]

Compiles(d, c) == c \in JsonObject /\ c \in d.accepts

Answers(kind, c, d) ==
  \/ ~Compiles(d, c) /\ answer = Fails("ErrInvalidDriverConfig")
  \/ Compiles(d, c) /\ kind = "ValidateConfig" /\ answer = NoAnswer
  \/ Compiles(d, c) /\ kind = "Bind" /\ answer = Fails("ErrInvalidDefinition")
  \/ /\ Compiles(d, c) /\ kind = "Bind"
     /\ \E made \in d.makes :
          /\ made # <<>> /\ Honest(d, made[1])
          /\ answer = [err |-> "none", driver |-> made]

With(kind, t, c, d) ==
  /\ d \in held /\ d.type = t
  /\ \/ call = Called("found", kind, t, c, <<d>>) /\ c \in JsonObject /\ answer = NoAnswer
     \/ /\ call = Called("compiled", kind, t, c, <<d>>)
        /\ kind = "Bind" /\ Compiles(d, c) /\ answer = NoAnswer
     \/ call = Called("done", kind, t, c, <<d>>) /\ Answers(kind, c, d)

CallInv ==
  \/ call = NoCall /\ answer = NoAnswer
  \/ \E kind \in Kind, t \in DriverType, c \in Config :
       \/ call = Called("done", kind, t, c, <<>>) /\ answer = Fails("ErrNotRegistered")
       \/ \E d \in Definition : With(kind, t, c, d)

VerdictInv ==
  verdict # <<>> =>
    \E d \in Definition, c \in Config, err \in {"none", "ErrInvalidDriverConfig"} :
      /\ verdict = <<[definition |-> <<d>>, config |-> c, err |-> err]>>
      /\ err = "none" <=> Compiles(d, c)

BindInv == KeptInv /\ CallInv /\ VerdictInv

(* What a call is with stays as it is, if no more than held grows. *)
LEMMA CallLasts ==
  ASSUME CallInv, UNCHANGED <<call, answer>>, held \subseteq held'
  PROVE  CallInv'
<1>1. ASSUME NEW kind, NEW t, NEW c, NEW d, With(kind, t, c, d) PROVE With(kind, t, c, d)'
  BY <1>1 DEF With, Answers
<1> QED
  BY <1>1 DEF CallInv

LEMMA LookUpKeeps ==
  ASSUME BindInv, NEW kind \in Kind, LookUp(kind)
  PROVE  CallInv'
<1>1. call = NoCall /\ answer = NoAnswer
  BY DEF LookUp, BindInv, CallInv, With, Called
<1>2. PICK t \in DriverType, c \in Config :
        /\ held' = DefinitionsOf(t)
        /\ \/ /\ call' = Called("done", kind, t, c, <<>>)
              /\ answer' = Fails("ErrNotRegistered")
           \/ \E d \in DefinitionsOf(t) :
              /\ c \notin JsonObject
              /\ call' = Called("done", kind, t, c, <<d>>)
              /\ answer' = Fails("ErrInvalidDriverConfig")
           \/ \E d \in DefinitionsOf(t) :
              /\ c \in JsonObject
              /\ call' = Called("found", kind, t, c, <<d>>)
              /\ answer' = answer
  BY DEF LookUp, IsConfig, Called
<1>3. ASSUME NEW d \in DefinitionsOf(t) PROVE d \in Definition /\ d.type = t /\ d \in held'
  BY <1>2 DEF DefinitionsOf, BindInv, KeptInv
<1>4. CASE call' = Called("done", kind, t, c, <<>>) /\ answer' = Fails("ErrNotRegistered")
  BY <1>4 DEF CallInv
<1>5. ASSUME NEW d \in DefinitionsOf(t), c \notin JsonObject,
             call' = Called("done", kind, t, c, <<d>>),
             answer' = Fails("ErrInvalidDriverConfig")
      PROVE  CallInv'
  <2>1. With(kind, t, c, d)'
    BY <1>3, <1>5 DEF With, Answers, Compiles
  <2> QED
    BY <1>3, <2>1 DEF CallInv
<1>6. ASSUME NEW d \in DefinitionsOf(t), c \in JsonObject,
             call' = Called("found", kind, t, c, <<d>>), answer' = answer
      PROVE  CallInv'
  <2>1. With(kind, t, c, d)'
    BY <1>1, <1>3, <1>6 DEF With
  <2> QED
    BY <1>3, <2>1 DEF CallInv
<1> QED
  BY <1>2, <1>4, <1>5, <1>6

(* The steps that go on with the definition that was found. *)
LEMMA GoesOn ==
  ASSUME CallInv, call.at \in {"found", "compiled"}
  PROVE  \E kind \in Kind, t \in DriverType, c \in Config, d \in Definition :
           /\ With(kind, t, c, d)
           /\ call = Called(call.at, kind, t, c, <<d>>) /\ answer = NoAnswer
  BY DEF CallInv, With, NoCall, Called

LEMMA StepsKeep ==
  ASSUME CallInv, ValidateConfig \/ CompileConfig \/ Bind
  PROVE  CallInv'
<1>1. PICK kind \in Kind, t \in DriverType, c \in Config, d \in Definition :
        /\ With(kind, t, c, d)
        /\ call = Called(call.at, kind, t, c, <<d>>) /\ answer = NoAnswer
  BY GoesOn DEF ValidateConfig, CompileConfig, Bind
<1>2. /\ d \in held' /\ d.type = t
      /\ call.kind = kind /\ call.config = c /\ call.definition[1] = d
      /\ c \in JsonObject
  BY <1>1 DEF With, Called, ValidateConfig, CompileConfig, Bind, Compiles
<1>3. SUFFICES With(kind, t, c, d)'
  BY DEF CallInv
<1>4. ASSUME NEW a, Return(a)
      PROVE  call' = Called("done", kind, t, c, <<d>>) /\ answer' = a
  BY <1>1, <1>4 DEF Return, Called
<1>5. CASE ValidateConfig
  <2>1. kind = "ValidateConfig"
    BY <1>2, <1>5 DEF ValidateConfig
  <2>2. call' = Called("done", kind, t, c, <<d>>)
    BY <1>4, <1>5 DEF ValidateConfig
  <2>3. answer' = IF c \in d.accepts THEN NoAnswer ELSE Fails("ErrInvalidDriverConfig")
    BY <1>2, <1>4, <1>5 DEF ValidateConfig
  <2>4. Answers(kind, c, d)'
    BY <1>2, <2>1, <2>3 DEF Answers, Compiles
  <2> QED
    BY <1>2, <2>2, <2>4 DEF With
<1>6. CASE CompileConfig
  <2>1. kind = "Bind"
    BY <1>2, <1>6 DEF CompileConfig
  <2>2. CASE c \notin d.accepts /\ Return(Fails("ErrInvalidDriverConfig"))
    BY <1>2, <1>4, <2>2 DEF With, Answers, Compiles
  <2>3. CASE c \in d.accepts /\ Return(Fails("ErrInvalidDefinition"))
    BY <1>2, <1>4, <2>1, <2>3 DEF With, Answers, Compiles
  <2>4. CASE c \in d.accepts /\ call' = [call EXCEPT !.at = "compiled"] /\ answer' = answer
    <3>1. call' = Called("compiled", kind, t, c, <<d>>)
      BY <1>1, <2>4 DEF Called
    <3> QED
      BY <1>1, <1>2, <2>1, <2>4, <3>1 DEF With, Compiles
  <2> QED
    BY <1>2, <1>6, <2>2, <2>3, <2>4 DEF CompileConfig
<1>7. CASE Bind
  <2>1. kind = "Bind" /\ Compiles(d, c)
    BY <1>1, <1>7 DEF Bind, With, Called
  <2>2. PICK made \in d.makes :
          Return(IF made # <<>> /\ Honest(d, made[1]) THEN [err |-> "none", driver |-> made]
                 ELSE Fails("ErrInvalidDefinition"))
    BY <1>2, <1>7 DEF Bind
  <2>3. call' = Called("done", kind, t, c, <<d>>)
    BY <1>4, <2>2
  <2>4. answer' = IF made # <<>> /\ Honest(d, made[1]) THEN [err |-> "none", driver |-> made]
                  ELSE Fails("ErrInvalidDefinition")
    BY <1>4, <2>2
  <2>5. Answers(kind, c, d)'
    BY <2>1, <2>4 DEF Answers, Compiles
  <2> QED
    BY <1>2, <2>3, <2>5 DEF With
<1> QED
  BY <1>5, <1>6, <1>7

LEMMA TakeAnswerKeeps ==
  ASSUME CallInv, TakeAnswer
  PROVE  CallInv' /\ VerdictInv'
<1>1. CallInv'
  BY DEF TakeAnswer, CallInv
<1>2. ASSUME verdict' # <<>> PROVE VerdictInv'
  <2>1. /\ call.at = "done" /\ call.kind = "ValidateConfig" /\ call.definition # <<>>
        /\ verdict' = <<[definition |-> call.definition, config |-> call.config,
                         err |-> answer.err]>>
    BY <1>2 DEF TakeAnswer
  <2>2. PICK kind \in Kind, t \in DriverType, c \in Config, d \in Definition :
          With(kind, t, c, d)
    BY <2>1 DEF CallInv, NoCall, Called
  <2>3. /\ call.definition = <<d>> /\ call.config = c /\ kind = "ValidateConfig"
        /\ Answers(kind, c, d)
    BY <2>1, <2>2 DEF With, Called
  <2>4. answer.err \in {"none", "ErrInvalidDriverConfig"} /\ (answer.err = "none" <=> Compiles(d, c))
    BY <2>3 DEF Answers, Fails, NoAnswer
  <2> QED
    BY <2>1, <2>3, <2>4 DEF VerdictInv, Compiles
<1> QED
  BY <1>1, <1>2 DEF VerdictInv

LEMMA BindAlways == Spec => []BindInv
<1>1. Init => CallInv /\ VerdictInv
  BY DEF Init, CallInv, VerdictInv
<1>2. KeptInv /\ CallInv /\ VerdictInv /\ [Next]_vars => CallInv' /\ VerdictInv'
  <2> SUFFICES ASSUME KeptInv, CallInv, VerdictInv, [Next]_vars PROVE CallInv' /\ VerdictInv'
    OBVIOUS
  <2>1. ASSUME UNCHANGED verdict PROVE VerdictInv'
    BY <2>1 DEF VerdictInv, Compiles
  <2>2. ASSUME UNCHANGED callVars, held \subseteq held' PROVE CallInv' /\ VerdictInv'
    BY <2>1, <2>2, CallLasts DEF callVars
  <2>3. ASSUME NEW d \in Definition, ValidateDescriptor(d) \/ Register(d)
        PROVE  CallInv' /\ VerdictInv'
    BY <2>2, <2>3 DEF ValidateDescriptor, Register, Insert
  <2>4. ASSUME NEW t \in DriverType, Unregister(t) \/ ConfigSchema(t) PROVE CallInv' /\ VerdictInv'
    BY <2>2, <2>4 DEF Unregister, ConfigSchema, Read
  <2>5. CASE Descriptors \/ Write \/ UNCHANGED vars
    BY <2>2, <2>5 DEF Descriptors, Read, Write, vars
  <2>6. ASSUME NEW kind \in Kind, LookUp(kind) PROVE CallInv' /\ VerdictInv'
    BY <2>1, <2>6, LookUpKeeps DEF BindInv, LookUp
  <2>7. CASE ValidateConfig \/ CompileConfig \/ Bind
    BY <2>1, <2>7, StepsKeep DEF ValidateConfig, CompileConfig, Bind
  <2>8. CASE TakeAnswer
    BY <2>8, TakeAnswerKeeps
  <2> QED
    BY <2>3, <2>4, <2>5, <2>6, <2>7, <2>8 DEF Next, Kind
<1> QED
  BY <1>1, <1>2, KeptAlways, PTL DEF Spec, BindInv

(* A bound driver is what was asked for, whatever its definition is. *)
THEOREM BoundSound == Spec => []BoundAsAsked
<1>1. BindInv => BoundAsAsked
  <2> SUFFICES ASSUME CallInv, answer.driver # <<>> PROVE BoundAsAsked
    BY DEF BindInv, BoundAsAsked
  <2>1. PICK kind \in Kind, t \in DriverType, c \in Config, d \in Definition :
          With(kind, t, c, d)
    BY DEF CallInv, NoAnswer, Fails
  <2>2. Answers(kind, c, d) /\ call.type = t /\ d \in held /\ d.type = t
    BY <2>1 DEF With, Called, NoAnswer
  <2>3. PICK made \in d.makes : Honest(d, made[1]) /\ answer.driver = made
    BY <2>2 DEF Answers, Fails, NoAnswer
  <2>4. d \in held /\ d.type = call.type /\ answer.driver \in d.makes
    BY <2>2, <2>3
  <2>5. Honest(d, answer.driver[1])
    BY <2>3
  <2> QED
    BY <2>4, <2>5, Zenon DEF BoundAsAsked, Honest
<1> QED
  BY <1>1, BindAlways, PTL

(* Validation tells beforehand what binding will say of a configuration. *)
THEOREM ValidationTells == Spec => []ValidationPredictsBind
<1>1. BindInv => ValidationPredictsBind
  <2> SUFFICES ASSUME CallInv, VerdictInv,
                      call.at = "done", call.kind = "Bind", verdict # <<>>,
                      verdict[1].definition = call.definition, verdict[1].config = call.config
               PROVE  verdict[1].err = "none" <=> answer.err # "ErrInvalidDriverConfig"
    BY DEF BindInv, ValidationPredictsBind
  <2>1. PICK e \in Definition : /\ call.definition = <<e>>
                                /\ verdict[1].err = "none" <=> Compiles(e, call.config)
    BY DEF VerdictInv
  <2>2. PICK kind \in Kind, t \in DriverType, c \in Config, d \in Definition :
          With(kind, t, c, d)
    BY <2>1 DEF CallInv, NoCall, Called
  <2>3. call.definition = <<d>> /\ call.config = c /\ kind = "Bind" /\ Answers(kind, c, d)
    BY <2>2 DEF With, Called
  <2>4. d = e
    BY <2>1, <2>3
  <2>5. Compiles(d, c) <=> answer.err # "ErrInvalidDriverConfig"
    BY <2>3 DEF Answers, Fails
  <2> QED
    BY <2>1, <2>3, <2>4, <2>5
<1> QED
  BY <1>1, BindAlways, PTL

=============================================================================
