--------------------------- MODULE RegistryProofs ---------------------------
(***************************************************************************)
(* What Registry guarantees for any number of goroutines, types and        *)
(* entries.                                                                *)
(***************************************************************************)
EXTENDS Registry, TLAPS

(* A call of a kind has that kind's arguments. *)
LEMMA CallShapes ==
  ASSUME NEW c \in Call
  PROVE  /\ c # NoCall
         /\ Writes(c) \/ Reads(c)
         /\ ~(Writes(c) /\ Reads(c))
         /\ c.kind = "Register"   => c \in RegisterCall /\ c.type \in Type /\ c.entry \in MaybeEntry
         /\ c.kind = "Unregister" => c = [kind |-> "Unregister", type |-> c.type] /\ c.type \in Type
         /\ c.kind = "Get"        => c.type \in Type
  BY DEF Call, RegisterCall, UnregisterCall, GetCall, TypesCall, NoCall, Writes, Reads

(* The constants a proof relies on, under one name. *)
LEMMA Constants ==
  /\ NoEntry \notin Entry
  /\ NoGoroutine \notin Goroutine
  /\ \A c : Accepted(c) => c.type \in Type /\ c.entry \in Entry
  BY RegistryConstants, RegistryWriter DEF Accepted

-----------------------------------------------------------------------------
LEMMA Initially == Init => IInv
  BY Constants DEF Init, IInv, TypeOK, LockInv, CallInv, CheckStillHolds, TypesIsSnapshot,
     Place, Result, MaybeEntry, Writing, Reading, Writes, Reads, NoCall

LEMMA StepBegin ==
  ASSUME IInv, NEW g \in Goroutine, NEW c \in Call, Begin(g, c)
  PROVE  IInv'
<1> USE CallShapes, Constants DEF IInv, Begin, Goto
<1>1. TypeOK'
  BY DEF TypeOK, Place, Result, MaybeEntry
<1>2. LockInv'
  BY DEF TypeOK, LockInv, Writing, Reading, Place
<1>2a. /\ ~Writes(NoCall) /\ NoCall.kind = "none"
       /\ result[g] = "none" /\ got[g] = NoEntry /\ listed[g] = {}
  BY DEF CallInv, NoCall, Writes
<1>3. CallInv'
  BY <1>2a DEF TypeOK, CallInv, Writing, Reading
<1>4. CheckStillHolds'
  BY DEF TypeOK, CheckStillHolds, CallInv, LockInv, Writing, Place
<1>5. TypesIsSnapshot'
  BY DEF TypeOK, TypesIsSnapshot, CallInv, LockInv, Writing, Reading, Present
<1> QED
  BY <1>1, <1>2, <1>3, <1>4, <1>5

LEMMA StepReject ==
  ASSUME IInv, NEW g \in Goroutine, Reject(g)
  PROVE  IInv'
<1> USE CallShapes, Constants DEF IInv, Reject, Goto
<1>1. TypeOK'
  BY DEF TypeOK, Place, Result, MaybeEntry
<1>2. LockInv'
  BY DEF TypeOK, LockInv, Writing, Reading, Place
<1>3. CallInv'
  BY DEF TypeOK, CallInv, LockInv, Writing, Reading, Place, Writes, Reads
<1>4. CheckStillHolds'
  BY DEF TypeOK, CheckStillHolds, CallInv, LockInv, Writing, Place
<1>5. TypesIsSnapshot'
  BY DEF TypeOK, TypesIsSnapshot, CallInv, LockInv, Writing, Reading, Present
<1> QED
  BY <1>1, <1>2, <1>3, <1>4, <1>5

LEMMA StepReturn ==
  ASSUME IInv, NEW g \in Goroutine, Return(g)
  PROVE  IInv'
<1> USE CallShapes, Constants DEF IInv, Return, Goto
<1>1. TypeOK'
  BY DEF TypeOK, Place, Result, MaybeEntry
<1>2. LockInv'
  BY DEF TypeOK, LockInv, Writing, Reading, Place
<1>3. CallInv'
  BY DEF TypeOK, CallInv, LockInv, Writing, Reading, Place, Writes, Reads
<1>4. CheckStillHolds'
  BY DEF TypeOK, CheckStillHolds, CallInv, LockInv, Writing, Place
<1>5. TypesIsSnapshot'
  BY DEF TypeOK, TypesIsSnapshot, CallInv, LockInv, Writing, Reading, Present
<1> QED
  BY <1>1, <1>2, <1>3, <1>4, <1>5

LEMMA StepAnnounce ==
  ASSUME IInv, NEW g \in Goroutine, Announce(g)
  PROVE  IInv'
<1> USE CallShapes, Constants DEF IInv, Announce, Goto
<1>1. TypeOK'
  BY DEF TypeOK, Place, Result, MaybeEntry
<1>2. LockInv'
  BY DEF TypeOK, LockInv, Writing, Reading, Place
<1>3. CallInv'
  BY DEF TypeOK, CallInv, LockInv, Writing, Reading, Place, Writes, Reads
<1>4. CheckStillHolds'
  BY DEF TypeOK, CheckStillHolds, CallInv, LockInv, Writing, Place
<1>5. TypesIsSnapshot'
  BY DEF TypeOK, TypesIsSnapshot, CallInv, LockInv, Writing, Reading, Present
<1> QED
  BY <1>1, <1>2, <1>3, <1>4, <1>5

LEMMA StepLock ==
  ASSUME IInv, NEW g \in Goroutine, Lock(g)
  PROVE  IInv'
<1> USE CallShapes, Constants DEF IInv, Lock, Goto
<1>1. TypeOK'
  BY DEF TypeOK, Place, Result, MaybeEntry
<1>2. LockInv'
  BY DEF TypeOK, LockInv, Writing, Reading, Place
<1>3. CallInv'
  BY DEF TypeOK, CallInv, LockInv, Writing, Reading, Place, Writes, Reads
<1>4. CheckStillHolds'
  BY DEF TypeOK, CheckStillHolds, CallInv, LockInv, Writing, Place
<1>5. TypesIsSnapshot'
  BY DEF TypeOK, TypesIsSnapshot, CallInv, LockInv, Writing, Reading, Present
<1> QED
  BY <1>1, <1>2, <1>3, <1>4, <1>5

LEMMA StepUnlock ==
  ASSUME IInv, NEW g \in Goroutine, Unlock(g)
  PROVE  IInv'
<1> USE CallShapes, Constants DEF IInv, Unlock, Goto
<1>1. TypeOK'
  BY DEF TypeOK, Place, Result, MaybeEntry
<1>2. LockInv'
  BY DEF TypeOK, LockInv, Writing, Reading, Place
<1>3. CallInv'
  BY DEF TypeOK, CallInv, LockInv, Writing, Reading, Place, Writes, Reads
<1>4. CheckStillHolds'
  BY DEF TypeOK, CheckStillHolds, CallInv, LockInv, Writing, Place
<1>5. TypesIsSnapshot'
  BY DEF TypeOK, TypesIsSnapshot, CallInv, LockInv, Writing, Reading, Present
<1> QED
  BY <1>1, <1>2, <1>3, <1>4, <1>5

LEMMA StepRLock ==
  ASSUME IInv, NEW g \in Goroutine, RLock(g)
  PROVE  IInv'
<1> USE CallShapes, Constants DEF IInv, RLock, Goto
<1>1. TypeOK'
  BY DEF TypeOK, Place, Result, MaybeEntry
<1>2. LockInv'
  BY DEF TypeOK, LockInv, Writing, Reading, Place
<1>3. CallInv'
  BY DEF TypeOK, CallInv, LockInv, Writing, Reading, Place, Writes, Reads
<1>4. CheckStillHolds'
  BY DEF TypeOK, CheckStillHolds, CallInv, LockInv, Writing, Place
<1>5. TypesIsSnapshot'
  BY DEF TypeOK, TypesIsSnapshot, CallInv, LockInv, Writing, Reading, Present
<1> QED
  BY <1>1, <1>2, <1>3, <1>4, <1>5

LEMMA StepRUnlock ==
  ASSUME IInv, NEW g \in Goroutine, RUnlock(g)
  PROVE  IInv'
<1> USE CallShapes, Constants DEF IInv, RUnlock, Goto
<1>1. TypeOK'
  BY DEF TypeOK, Place, Result, MaybeEntry
<1>2. LockInv'
  BY DEF TypeOK, LockInv, Writing, Reading, Place
<1>3. CallInv'
  BY DEF TypeOK, CallInv, LockInv, Writing, Reading, Place, Writes, Reads
<1>4. CheckStillHolds'
  BY DEF TypeOK, CheckStillHolds, CallInv, LockInv, Writing, Place
<1>5. TypesIsSnapshot'
  BY DEF TypeOK, TypesIsSnapshot, CallInv, LockInv, Writing, Reading, Present
<1> QED
  BY <1>1, <1>2, <1>3, <1>4, <1>5

LEMMA StepRegisterCheck ==
  ASSUME IInv, NEW g \in Goroutine, RegisterCheck(g)
  PROVE  IInv'
<1> USE CallShapes, Constants DEF IInv, RegisterCheck, Goto
<1>1. TypeOK'
  BY DEF TypeOK, Place, Result, MaybeEntry
<1>2. LockInv'
  BY DEF TypeOK, LockInv, Writing, Reading, Place
<1>3. CallInv'
  BY DEF TypeOK, CallInv, LockInv, Writing, Reading, Place, Writes, Reads
<1>4. CheckStillHolds'
  BY DEF TypeOK, CheckStillHolds, CallInv, LockInv, Writing, Place
<1>5. TypesIsSnapshot'
  BY DEF TypeOK, TypesIsSnapshot, CallInv, LockInv, Writing, Reading, Present
<1> QED
  BY <1>1, <1>2, <1>3, <1>4, <1>5

LEMMA StepRegisterInsert ==
  ASSUME IInv, NEW g \in Goroutine, RegisterInsert(g)
  PROVE  IInv'
<1> USE CallShapes, Constants DEF IInv, RegisterInsert, Goto
<1>0. call[g].type \in Type /\ call[g].entry \in MaybeEntry
  <2>1. Accepted(call[g])
    BY DEF CallInv, CheckStillHolds, Writing
  <2> QED
    BY <2>1 DEF MaybeEntry
<1>1. TypeOK'
  BY <1>0 DEF TypeOK, Place, Result, MaybeEntry
<1>2. LockInv'
  BY DEF TypeOK, LockInv, Writing, Reading, Place
<1>3. CallInv'
  BY DEF TypeOK, CallInv, LockInv, Writing, Reading, Place, Writes, Reads
<1>4. CheckStillHolds'
  BY DEF TypeOK, CheckStillHolds, CallInv, LockInv, Writing, Place
<1>5. TypesIsSnapshot'
  BY DEF TypeOK, TypesIsSnapshot, CallInv, LockInv, Writing, Reading, Present
<1> QED
  BY <1>1, <1>2, <1>3, <1>4, <1>5

LEMMA StepUnregisterCheck ==
  ASSUME IInv, NEW g \in Goroutine, UnregisterCheck(g)
  PROVE  IInv'
<1> USE CallShapes, Constants DEF IInv, UnregisterCheck, Goto
<1>1. TypeOK'
  BY DEF TypeOK, Place, Result, MaybeEntry
<1>2. LockInv'
  BY DEF TypeOK, LockInv, Writing, Reading, Place
<1>3. CallInv'
  BY DEF TypeOK, CallInv, LockInv, Writing, Reading, Place, Writes, Reads
<1>4. CheckStillHolds'
  BY DEF TypeOK, CheckStillHolds, CallInv, LockInv, Writing, Place
<1>5. TypesIsSnapshot'
  BY DEF TypeOK, TypesIsSnapshot, CallInv, LockInv, Writing, Reading, Present
<1> QED
  BY <1>1, <1>2, <1>3, <1>4, <1>5

LEMMA StepUnregisterDelete ==
  ASSUME IInv, NEW g \in Goroutine, UnregisterDelete(g)
  PROVE  IInv'
<1> USE CallShapes, Constants DEF IInv, UnregisterDelete, Goto
<1>1. TypeOK'
  BY DEF TypeOK, Place, Result, MaybeEntry
<1>2. LockInv'
  BY DEF TypeOK, LockInv, Writing, Reading, Place
<1>3. CallInv'
  BY DEF TypeOK, CallInv, LockInv, Writing, Reading, Place, Writes, Reads
<1>4. CheckStillHolds'
  BY DEF TypeOK, CheckStillHolds, CallInv, LockInv, Writing, Place
<1>5. TypesIsSnapshot'
  BY DEF TypeOK, TypesIsSnapshot, CallInv, LockInv, Writing, Reading, Present
<1> QED
  BY <1>1, <1>2, <1>3, <1>4, <1>5

LEMMA StepLookup ==
  ASSUME IInv, NEW g \in Goroutine, Lookup(g)
  PROVE  IInv'
<1> USE CallShapes, Constants DEF IInv, Lookup, Goto
<1>0. call[g].type \in Type
  BY DEF TypeOK, NoCall
<1>1. TypeOK'
  BY <1>0 DEF TypeOK, Place, Result, MaybeEntry
<1>2. LockInv'
  BY DEF TypeOK, LockInv, Writing, Reading, Place
<1>3. CallInv'
  BY DEF TypeOK, CallInv, LockInv, Writing, Reading, Place, Writes, Reads
<1>4. CheckStillHolds'
  BY DEF TypeOK, CheckStillHolds, CallInv, LockInv, Writing, Place
<1>5. TypesIsSnapshot'
  BY DEF TypeOK, TypesIsSnapshot, CallInv, LockInv, Writing, Reading, Present
<1> QED
  BY <1>1, <1>2, <1>3, <1>4, <1>5

LEMMA StepCollectType ==
  ASSUME IInv, NEW g \in Goroutine, CollectType(g)
  PROVE  IInv'
<1> USE CallShapes, Constants DEF IInv, CollectType, Goto
<1>1. TypeOK'
  BY DEF TypeOK, Place, Result, MaybeEntry, Present
<1>2. LockInv'
  BY DEF TypeOK, LockInv, Writing, Reading, Place
<1>3. CallInv'
  BY DEF TypeOK, CallInv, LockInv, Writing, Reading, Place, Writes, Reads
<1>4. CheckStillHolds'
  BY DEF TypeOK, CheckStillHolds, CallInv, LockInv, Writing, Place
<1>5. TypesIsSnapshot'
  BY DEF TypeOK, TypesIsSnapshot, CallInv, LockInv, Writing, Reading, Present
<1> QED
  BY <1>1, <1>2, <1>3, <1>4, <1>5

LEMMA StepEndTypes ==
  ASSUME IInv, NEW g \in Goroutine, EndTypes(g)
  PROVE  IInv'
<1> USE CallShapes, Constants DEF IInv, EndTypes, Goto
<1>1. TypeOK'
  BY DEF TypeOK, Place, Result, MaybeEntry
<1>2. LockInv'
  BY DEF TypeOK, LockInv, Writing, Reading, Place
<1>3. CallInv'
  BY DEF TypeOK, CallInv, LockInv, Writing, Reading, Place, Writes, Reads
<1>4. CheckStillHolds'
  BY DEF TypeOK, CheckStillHolds, CallInv, LockInv, Writing, Place
<1>5. TypesIsSnapshot'
  BY DEF TypeOK, TypesIsSnapshot, CallInv, LockInv, Writing, Reading, Present
<1> QED
  BY <1>1, <1>2, <1>3, <1>4, <1>5

LEMMA Inductive == IInv /\ [Next]_vars => IInv'
<1> SUFFICES ASSUME IInv, [Next]_vars PROVE IInv'
  OBVIOUS
<1>1. ASSUME NEW g \in Goroutine, Invoke(g) \/ Return(g) \/ Announce(g) PROVE IInv'
  BY <1>1, StepBegin, StepReturn, StepAnnounce DEF Invoke
<1>2. ASSUME NEW g \in Goroutine, Work(g) PROVE IInv'
  BY <1>2, StepReject, StepLock, StepUnlock, StepRLock, StepRUnlock,
     StepRegisterCheck, StepRegisterInsert, StepUnregisterCheck,
     StepUnregisterDelete, StepLookup, StepCollectType, StepEndTypes DEF Work
<1>3. CASE UNCHANGED vars
  BY <1>3 DEF vars, IInv, TypeOK, LockInv, CallInv, CheckStillHolds,
     TypesIsSnapshot, Writing, Reading, Present
<1> QED
  BY <1>1, <1>2, <1>3 DEF Next

-----------------------------------------------------------------------------
(* The types of the variables, who holds the lock and where its calls can   *)
(* be, in every state of every run.                                         *)
THEOREM Invariance == Spec => []IInv
  BY Initially, Inductive, PTL DEF Spec

(* The registry's map is never written while another goroutine is inside:    *)
(* the writer the lock names is the only one there, and it found no readers. *)
THEOREM Exclusion == Spec => []MutualExclusion
<1>1. IInv => MutualExclusion
  BY DEF IInv, LockInv, MutualExclusion
<1> QED
  BY <1>1, Invariance, PTL

(* A Register inserts only what is still free, an Unregister deletes only   *)
(* what it reports: nothing comes between the check and the write.          *)
THEOREM ChecksHold == Spec => []CheckStillHolds
<1>1. IInv => CheckStillHolds
  BY DEF IInv
<1> QED
  BY <1>1, Invariance, PTL

(* Types answers with the keys of one instant. *)
THEOREM Snapshot == Spec => []TypesIsSnapshot
<1>1. IInv => TypesIsSnapshot
  BY DEF IInv
<1> QED
  BY <1>1, Invariance, PTL

(* An entry leaves the map only by an Unregister that found it. *)
THEOREM Replacement == Spec => NeverReplaced
<1> DEFINE Kept ==
      \A t \in Type : entries[t] # NoEntry /\ entries'[t] # entries[t] =>
        /\ entries'[t] = NoEntry
        /\ \E g \in Goroutine :
             call[g] = [kind |-> "Unregister", type |-> t] /\ result[g] = "ok"
<1>1. IInv /\ [Next]_vars => [Kept]_vars
  <2> SUFFICES ASSUME IInv, Next, NEW t \in Type, 
                      entries[t] # NoEntry, entries'[t] # entries[t]
               PROVE  /\ entries'[t] = NoEntry
                      /\ \E g \in Goroutine :
                           call[g] = [kind |-> "Unregister", type |-> t] /\ result[g] = "ok"
    OBVIOUS
  <2>1. PICK g \in Goroutine : RegisterInsert(g) \/ UnregisterDelete(g)
    BY DEF Next, Invoke, Begin, Return, Announce, Work, Reject, Lock, Unlock, RLock,
       RUnlock, RegisterCheck, UnregisterCheck, Lookup, CollectType, EndTypes
  <2>2. ~RegisterInsert(g)
    BY DEF RegisterInsert, IInv, TypeOK, CheckStillHolds
  <2>3. UnregisterDelete(g)
    BY <2>1, <2>2
  <2>4. call[g] \in Call /\ call[g].kind = "Unregister" /\ call[g].type = t
    BY <2>3, CallShapes DEF UnregisterDelete, IInv, TypeOK, CheckStillHolds, NoCall
  <2>5. entries'[t] = NoEntry /\ result[g] = "ok"
    BY <2>3, <2>4 DEF UnregisterDelete, IInv, TypeOK, CheckStillHolds
  <2> QED
    BY <2>4, <2>5, CallShapes
<1> QED
  BY <1>1, Invariance, PTL DEF Spec, NeverReplaced

-----------------------------------------------------------------------------
(* The refinement: what each step of the locked map is in the atomic one. *)

(* The vocabulary means the same in both modules. *)
LEMMA SameVocabulary ==
  /\ Atomic!NoCall = NoCall
  /\ Atomic!Call = Call
  /\ \A c : Atomic!Accepted(c) <=> Accepted(c)
  /\ \A m : Atomic!Present(m) = Present(m)
  BY DEF NoCall, Call, RegisterCall, UnregisterCall, GetCall, TypesCall, Accepted,
     Present, MaybeEntry, Atomic!NoCall, Atomic!Call, Atomic!RegisterCall,
     Atomic!UnregisterCall, Atomic!GetCall, Atomic!TypesCall, Atomic!Accepted,
     Atomic!Present, Atomic!MaybeEntry

LEMMA InitRefines == Init => Atomic!Init
  BY SameVocabulary DEF Init, Atomic!Init, Phase, AnswerOnceSettled, Settled

LEMMA InvokeRefines ==
  ASSUME IInv, NEW g \in Goroutine, Invoke(g)
  PROVE  Atomic!Invoke(g)
  BY SameVocabulary DEF IInv, TypeOK, Invoke, Begin, Goto, Atomic!Invoke, Phase, AnswerOnceSettled, Settled

LEMMA ReturnRefines ==
  ASSUME IInv, NEW g \in Goroutine, Return(g)
  PROVE  Atomic!Return(g)
  BY SameVocabulary DEF IInv, TypeOK, Return, Goto, Atomic!Return, Phase, AnswerOnceSettled, Settled

LEMMA RejectRefines ==
  ASSUME IInv, NEW g \in Goroutine, Reject(g)
  PROVE  Atomic!TakeEffect(g)
<1> USE DEF IInv, TypeOK, Reject, Goto, Phase, AnswerOnceSettled, Settled
<1>1. Atomic!Register(g)
  BY CallShapes, SameVocabulary DEF Atomic!Register, CallInv, CheckStillHolds, TypesIsSnapshot, Writing, Reading, Writes
<1> QED
  BY <1>1 DEF Atomic!TakeEffect

LEMMA RegisterInsertRefines ==
  ASSUME IInv, NEW g \in Goroutine, RegisterInsert(g)
  PROVE  Atomic!TakeEffect(g)
<1> USE DEF IInv, TypeOK, RegisterInsert, Goto, Phase, AnswerOnceSettled, Settled
<1>1. Atomic!Register(g)
  BY CallShapes, SameVocabulary DEF Atomic!Register, CallInv, CheckStillHolds, TypesIsSnapshot, Writing, Reading, Writes
<1> QED
  BY <1>1 DEF Atomic!TakeEffect

LEMMA UnregisterDeleteRefines ==
  ASSUME IInv, NEW g \in Goroutine, UnregisterDelete(g)
  PROVE  Atomic!TakeEffect(g)
<1>0. /\ call[g].kind = "Unregister"
      /\ result[g] = IF entries[call[g].type] # NoEntry THEN "ok" ELSE "absent"
      /\ entries' = [entries EXCEPT ![call[g].type] = NoEntry]
      /\ pc[g] = "delete" /\ pc' = [pc EXCEPT ![g] = "unlock"]
      /\ UNCHANGED <<call, result, got, listed>>
  BY DEF IInv, CheckStillHolds, UnregisterDelete, Goto
<1>t. /\ pc \in [Goroutine -> Place] /\ DOMAIN result = Goroutine
      /\ DOMAIN got = Goroutine /\ DOMAIN listed = Goroutine
  BY DEF IInv, TypeOK
<1>p. Phase[g] = "called" /\ Phase' = [Phase EXCEPT ![g] = "done"]
  BY <1>0, <1>t DEF Phase, Settled
<1>a. AnswerOnceSettled(result, "none")' =
        [AnswerOnceSettled(result, "none") EXCEPT
          ![g] = IF entries[call[g].type] # NoEntry THEN "ok" ELSE "absent"]
  BY <1>0, <1>t DEF AnswerOnceSettled, Settled
<1>b. /\ AnswerOnceSettled(got, NoEntry)' = AnswerOnceSettled(got, NoEntry)
      /\ AnswerOnceSettled(listed, {})' = AnswerOnceSettled(listed, {})
  BY <1>0, <1>t, CallShapes DEF IInv, TypeOK, CallInv, TypesIsSnapshot, AnswerOnceSettled, Settled, Writing, Reading, Writes
<1>1. Atomic!Unregister(g)
  BY <1>0, <1>p, <1>a, <1>b, SameVocabulary DEF Atomic!Unregister
<1> QED
  BY <1>0, <1>p, <1>1 DEF Atomic!TakeEffect

LEMMA LookupRefines ==
  ASSUME IInv, NEW g \in Goroutine, Lookup(g)
  PROVE  Atomic!TakeEffect(g)
<1> USE DEF IInv, TypeOK, Lookup, Goto, Phase, AnswerOnceSettled, Settled
<1>1. Atomic!Get(g)
  BY CallShapes, SameVocabulary DEF Atomic!Get, CallInv, CheckStillHolds, TypesIsSnapshot, Writing, Reading, Writes
<1> QED
  BY <1>1 DEF Atomic!TakeEffect

LEMMA EndTypesRefines ==
  ASSUME IInv, NEW g \in Goroutine, EndTypes(g)
  PROVE  Atomic!TakeEffect(g)
<1> USE DEF IInv, TypeOK, EndTypes, Goto, Phase, AnswerOnceSettled, Settled
<1>0. listed[g] = Present(entries)
  BY DEF TypesIsSnapshot, Reading, Present
<1>1. Atomic!Types(g)
  BY <1>0, CallShapes, SameVocabulary DEF Atomic!Types, CallInv, CheckStillHolds, TypesIsSnapshot, Writing, Reading, Writes
<1> QED
  BY <1>1 DEF Atomic!TakeEffect

(* The answer "already" settles the call at its check, "insert" does not. *)
LEMMA RegisterCheckRefines ==
  ASSUME IInv, NEW g \in Goroutine, RegisterCheck(g)
  PROVE  Atomic!TakeEffect(g) \/ UNCHANGED Atomic!vars
<1> USE DEF IInv, TypeOK, RegisterCheck, Goto, Phase, AnswerOnceSettled, Settled
<1>1. CASE entries[call[g].type] # NoEntry
  <2>1. Atomic!Register(g)
    BY <1>1, SameVocabulary DEF Atomic!Register, CallInv, Writing
  <2> QED
    BY <1>1, <2>1 DEF Atomic!TakeEffect
<1>2. CASE entries[call[g].type] = NoEntry
  BY <1>2 DEF Atomic!vars
<1> QED
  BY <1>1, <1>2

LEMMA AnnounceStutters ==
  ASSUME IInv, NEW g \in Goroutine, Announce(g)
  PROVE  UNCHANGED Atomic!vars
  BY DEF IInv, TypeOK, Announce, Goto, Phase, AnswerOnceSettled, Settled, Atomic!vars

LEMMA LockStutters ==
  ASSUME IInv, NEW g \in Goroutine, Lock(g)
  PROVE  UNCHANGED Atomic!vars
  BY DEF IInv, TypeOK, Lock, Goto, Phase, AnswerOnceSettled, Settled, Atomic!vars

LEMMA UnlockStutters ==
  ASSUME IInv, NEW g \in Goroutine, Unlock(g)
  PROVE  UNCHANGED Atomic!vars
  BY DEF IInv, TypeOK, Unlock, Goto, Phase, AnswerOnceSettled, Settled, Atomic!vars

LEMMA RLockStutters ==
  ASSUME IInv, NEW g \in Goroutine, RLock(g)
  PROVE  UNCHANGED Atomic!vars
  BY DEF IInv, TypeOK, RLock, Goto, Phase, AnswerOnceSettled, Settled, Atomic!vars

LEMMA RUnlockStutters ==
  ASSUME IInv, NEW g \in Goroutine, RUnlock(g)
  PROVE  UNCHANGED Atomic!vars
  BY DEF IInv, TypeOK, RUnlock, Goto, Phase, AnswerOnceSettled, Settled, Atomic!vars

LEMMA UnregisterCheckStutters ==
  ASSUME IInv, NEW g \in Goroutine, UnregisterCheck(g)
  PROVE  UNCHANGED Atomic!vars
  BY DEF IInv, TypeOK, UnregisterCheck, Goto, Phase, AnswerOnceSettled, Settled, Atomic!vars

LEMMA CollectTypeStutters ==
  ASSUME IInv, NEW g \in Goroutine, CollectType(g)
  PROVE  UNCHANGED Atomic!vars
  BY DEF IInv, TypeOK, CollectType, Goto, Phase, AnswerOnceSettled, Settled, Atomic!vars

(* The locked map, with the unlocked checks before it, is linearizable: it *)
(* does what the atomic registry may do, and answers what it may answer.   *)
THEOREM Linearizable == Spec => ImplementsAtomic
<1>1. IInv /\ [Next]_vars => [Atomic!Next]_(Atomic!vars)
  <2> SUFFICES ASSUME IInv, [Next]_vars PROVE [Atomic!Next]_(Atomic!vars)
    OBVIOUS
  <2>1. ASSUME NEW g \in Goroutine, Invoke(g) \/ Return(g) \/ Announce(g)
        PROVE  [Atomic!Next]_(Atomic!vars)
    BY <2>1, InvokeRefines, ReturnRefines, AnnounceStutters DEF Atomic!Next
  <2>2. ASSUME NEW g \in Goroutine, Work(g)
        PROVE  [Atomic!Next]_(Atomic!vars)
    <3>1. Atomic!TakeEffect(g) \/ UNCHANGED Atomic!vars
      BY <2>2, RejectRefines, RegisterInsertRefines, UnregisterDeleteRefines,
         LookupRefines, EndTypesRefines, RegisterCheckRefines, LockStutters,
         UnlockStutters, RLockStutters, RUnlockStutters,
         UnregisterCheckStutters, CollectTypeStutters DEF Work
    <3> QED
      BY <3>1 DEF Atomic!Next
  <2>3. CASE UNCHANGED vars
    BY <2>3 DEF vars, Phase, AnswerOnceSettled, Settled, Atomic!vars
  <2> QED
    BY <2>1, <2>2, <2>3 DEF Next
<1> QED
  BY <1>1, InitRefines, Invariance, PTL DEF Spec, ImplementsAtomic, Atomic!Spec

=============================================================================
