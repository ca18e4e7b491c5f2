# go-benefit in TLA+

`go-benefit` is a library that lets a host application inspect, evaluate, redeem
and reverse benefits (coupons, allowances, discounts) of many providers. It has
no process of its own: hosts call it from any number of goroutines, and drivers
and constraint evaluators that the application supplies are called back from it.
What is modelled here is the library's own logic: two locked registries, the
evaluation of constraints, of status and of optional operations, the
arithmetic of discounts, the protocol by which a benefit is redeemed and reversed
once, and the harness that tests drivers. Paths below are relative to the
repository.

## The system

| Part | State | Operations | Hard behaviour | What makes it correct |
|---|---|---|---|---|
| **Constraint registry** `constraint/registry.go` | a map of type → evaluator, under a `sync.RWMutex` | `Register`, `Unregister`, `Get`, `Types` | any goroutines at once; check-then-act; iteration of a live map | no concurrent map access; a registration is never replaced; `Types` is a snapshot; every call is linearizable and returns |
| **Built-in registration** `constraint/builtin.go` | none beside the registry's | `RegisterBuiltins` | three calls, each under a lock of its own, up to the first error, others in between | what is there is a beginning of the list; two calls that meet do not leave it half done |
| **Constraint evaluation** `constraint/registry.go` `Evaluate`, `EvaluateAll`, `constraint.go` | a report that grows with each constraint | look an evaluator up, run it, count its decision | the registry changes between look-up and run; evaluators fail, answer codes that are not theirs, panic, hang, call back | fails closed; accounts for every constraint; no lock around an evaluator |
| **Built-in evaluators** `constraint/builtin_*.go` | none | time range, weekday, redemption limit, minimum and maximum amount, scope | cancelled contexts, half-open windows, money without a currency | a function of the parameters and of what they read |
| **Local eligibility and status** `evaluation/eligibility.go`, `evaluation/status.go` | what was inspected, the clock, the provider's facts | `ResolveStatus`, `EvaluateLocalEligibility`, `RedeemFailureCodeForStatus` | the clock, the facts and the context move between the steps of a call | eligible means that every constraint held; time only takes a status forward; codes agree |
| **Optional operations** `operation.go`, `evaluation/operation.go` | a driver's capabilities, a benefit's policies | validation, `EvaluateOperation` | a loop over policies that returns early and gathers constraints | a policy only takes away, in whatever order; a mode is no more available than the whole |
| **Discounts** `money.go`, `discount/` | a checkout's amount and an outcome | `CalculateAmount`, `CalculatePercentage`, `Resolve`, `DiscountEffect.Validate` | 64-bit arithmetic that wraps; an amount that changes before settlement | what is settled adds up to the trusted amount; percentages are floors |
| **Driver registry** `driver/registry.go` | a map of driver type → definition and descriptor, under a `sync.RWMutex` | `Register`, `Unregister`, `Get`, `Descriptors`, `ValidateConfig`, `Bind` | as the constraint registry; descriptors that share memory; `Bind` runs application code after the lock | a registered descriptor stays as it was; a bound driver is of the type asked for and implements what it declares; validation foretells binding |
| **Results and correlation** `result_*.go`, `correlation.go`, `outcome.go`, `validation.go`, and the contract of `driver.go` | the host's: what it asked for, what it concluded, the record it keeps | `Validate`, `Correlate`, `Redeem`, `Reverse` | a result that is rejected after the provider acted; a request that arrives after its call has ended; retries with and without an ID | a host that follows the rules concludes what happened, once; a returned caller ID is the caller's, provider IDs are never made up |
| **Driver test harness** `drivertest/` | one fixture per subtest | `Run`, `CheckEvaluation`, `CheckRedeem`, `CheckReverse` | it sees only what a fixture lets it snapshot, at the moments it looks | it fails a driver exactly for the faults that show |
| **Data** `model.go`, `diagnostic.go`, `identifier.go`, errors | none | none | none | not modelled |

How they interact: `EvaluateLocalEligibility` and `EvaluateOperation` call
`Registry.EvaluateAll`, which takes the registry's read lock once per constraint
and calls the evaluator with no lock held. Drivers call `ResolveStatus` in their
`Inspect` and the calculations of `discount` before they consume; the host calls
`discount.Resolve` on what comes back, and correlates every answer with what it asked
for. `drivertest` is such a host, and takes nothing less than a host could use
unchanged. The registries call the application
(evaluators, definitions, factories) and the application may call the registries
from inside those calls. The library has no timer and no persistence; the only
messages are those between a driver and its provider, which may be lost, late or
repeated, and which a host sees as errors and uncertain results.

## The modules

| Module | Of | Checked by |
|---|---|---|
| `RegistryTypes` | the vocabulary of the two specifications of a registry | |
| `AtomicRegistry` | what a registry promises: every call takes effect at one instant | |
| `Registry` | the registry as written: the checks before the lock, the RWMutex, one map access a step | `MCRegistry`, `RegistryProofs` |
| `BuiltinRegistration` | `RegisterBuiltins`, composed with `Registry` (it EXTENDS it and adds a loop to every goroutine) | `MCBuiltinRegistration`, `ConstraintProofs` |
| `ConstraintReport` | decisions and reports, pure | |
| `AtomicEvaluation` | what `EvaluateAll` promises: one instant of the map per constraint, in order | |
| `ConstraintEvaluation` | `EvaluateAll`, composed with `Registry` (it EXTENDS it and adds a frame to every goroutine) | `MCConstraintEvaluation`, `ConstraintProofs` |
| `Money` | amounts, currencies, effects, machine arithmetic | |
| `BuiltinEvaluators` | the six evaluators, pure | |
| `Eligibility` | status and local evaluation in time, composed with `BuiltinEvaluators` and `ConstraintReport` | `MCEligibility`, `EligibilityProofs` |
| `Operations` | capabilities, policies and `EvaluateOperation` | `MCOperations`, `OperationsProofs` |
| `DriverRegistry` | the registered definitions, their descriptors, and binding | `MCDriverRegistry`, `DriverRegistryProofs` |
| `Discounting` | calculation, validation and resolution of an effect, pure | |
| `Discount` | a checkout that calculates, reprices and resolves | `MCDiscount`, `DiscountProofs` |
| `Results` | validation and correlation of requests and results, pure | |
| `BenefitUse` | what redemption and reversal promise a host | |
| `Redemption` | host, driver and provider: the protocol that keeps that promise, with `Results` | `MCRedemption`, `RedemptionProofs` |
| `DriverTest` | `drivertest.Run` against any driver, with `Results` | `MCDriverTest`, `DriverTestProofs` |

### How state and actions correspond to the code

*Registry.* `entries` is the map, `writer` and `readers` the RWMutex, `pc`,
`call` and the answers a goroutine's stack. `Reject`, `Announce`, `Lock`, `Unlock`,
`RLock`, `RUnlock` are the early returns and the lock operations; `RegisterCheck`,
`RegisterInsert`, `UnregisterCheck`, `UnregisterDelete`, `Lookup`, `CollectType`,
`EndTypes` are the map accesses between them. The mutex is Go's: a writer
announces itself, later readers are turned away, those inside leave, and `Unlock`
admits all who were turned away. `Types` visits one key of the live map a step, so
that a missing lock would show. Its final sort is left out: the keys are a set.

*BuiltinRegistration.* `next[g]` is the position of goroutine g in the list of
`RegisterBuiltins`, 0 when it is in none. Each turn of the loop is a whole `Register` call of
`Registry`: `RegisterNext` begins it, `Inside` is every step within it (and within
the application's own calls, begun by `Other`), and `Returned` goes on or gives up.
`removed` is history: the types an `Unregister` has emptied.

*ConstraintEvaluation.* `frame[g]` is goroutine g's `EvaluateAll`: where it is, the
constraints left, the evaluator in hand and the report. `Evaluate`, `LookUp`,
`LookedUp`, `Answers`, `Panics`, `Report` are its steps, and `RegistryStep` is every
step of the registry, those an evaluator makes from inside included. `log` and
`held` are history: what each constraint met, and what the map held for each type
during the call. A panic ends the call, for nothing in the package recovers it.
The mapping `Evaluation` takes this to `AtomicEvaluation`, where there are no calls
and no locks: a `Get` that has its answer is a decision taken, or an evaluator
fixed, and one that has none has not begun. `Listings` (in `ConstraintReport`) says
which constraint each violation of a report stands for: it is the increasing
enumeration of a set of positions, stated without recursion.

*Eligibility.* `now`, `facts` and `cancelled` are the surroundings and move by
themselves (`Tick`, `FactsChange`, `Cancel`); `Inspect` stands for a driver, which
resolves the status, or hands out its provider's as it is, be it one of the seven or
not, and the constraints; `Call`, `EvaluateNext` and
`Conclude` are `EvaluateLocalEligibility` and the loop of `EvaluateAll` inside it.
Parameters are decoded or they are not. Which registry is used (nil means the
default one) is the constant `Registered`; that it may change meanwhile is
`ConstraintEvaluation`'s subject. The clock does not step back within a run.

*Operations.* `Ask` is `EvaluateOperation` down to its loop, with its checks in
their order; `NextPolicy` is a round of the loop; `EvaluateConstraints` is the rest.
What an evaluator would answer now is `holding`, and it changes at any time.

*DriverRegistry.* `entries` is the map. A descriptor's operations stand for all that
a holder could write to (capabilities, modes, schema) and live in a place of `heap`:
the definition's own, the one the registry keeps, the one a reader was given. To
clone is to copy to a place of its own, and `Write` is any holder writing, once it
has the place, although the interfaces forbid it. `call` is a host's `ValidateConfig`
or `Bind`: `LookUp` is the part under the lock and the check of the configuration,
`ValidateConfig`, `CompileConfig` and `Bind` are what follows without the lock. A
critical section is one step here: `driver/registry.go:45-55`, `64-67`, `91-93` and
`115-123` take the lock and touch the map exactly as `Registry` does (a check and an
insert, a check and a delete, one read, one iteration), so that `Registry` is a
model of that file's locking too, and its linearizability is what makes a
critical section one step. One host call is enough, for calls meet only in
the map, and `Register` and `Unregister` are free to happen between any two steps.
`Register` is two steps: `ValidateDescriptor` asks for the descriptor and validates it
before the lock (40-43), `Register` checks the type, clones and inserts under it, and
`registering` holds what is between the two, where an owner may still write to a
descriptor that has been validated.
A definition accepts the same configurations in `ValidateConfig` and `CompileConfig`,
its interface demands it (`driver.go:93-105`); what its factory makes may
differ from time to time and be wrong in every way `Bind` looks for. A driver
is asked for its descriptor twice; its `type` here is what it says the first time
(172) and its `operations` what it says the second (186), for nothing else of the two
is used. A descriptor that is invalid for anything but its operations never gets past
`Register` and is left out.
`held` and `verdict` are history: the definitions the type had during the call, and
what the last validation said.

*Discount.* The state is one checkout: `TakeAmount` and `TakePercentage` are a
driver's calculations, `Confirm` an effect a provider makes up, `Reprice` a change of
the trusted amount, `HostResolves` the settlement. All sums and products go
through `Wrap`, with the width as a constant (`MaxInt`). The calculations themselves are
in `Discounting`, which `Results` uses as well.

*Redemption.* An operation is an order's redemption or its reversal. `Call`,
`TakeError` and `TakeResult` are the host; `TakeResult` is `Correlate` and what the
interfaces have a host conclude: success and failure are definite, everything
else proves nothing and the operation is asked for again with the same IDs, if
the provider honours them (`driver.go:170-173`, `191-194`, `README.md:278-283`). `wire` counts
requests that have not arrived: a call may end in an error before its request is
decided, or without its ever being. `Process` and `Complete` are the
provider, which may decide at once or accept and decide later. Of the driver it is
assumed that the parts of an answer are true one by one (a record is of an
operation that took effect, a failure without a record means a refusal) and that a
record of another order bears an ID it can be told by. That they do not fit
together, that the status is none of the four, that IDs are missing or of
another order, is what `Correlate` is for, and the answers are every combination
of that. A redemption that was reversed is not redeemed anew: the request that
would be is a new order.

*DriverTest.* `Fresh` is the beginning of a subtest: a fixture, and the checks of
`newFixture`. `Inspect`, `Evaluate`, `Redeem` and `Reverse` are the harness's calls, each
with the checks that follow it, in the order of `Run`; what the driver answers and
does to the input and to the provider is free. Input and provider have two
values, as they were made and not, for all that a snapshot is compared with. `log` is
history, from which the properties judge the driver without the harness.
`Reverse` that panics is a nil dereference or a failed type assertion in the harness.

## The runs

| Run | Instance | Shows |
|---|---|---|
| `registry` | 3 goroutines, 2 types, 2 evaluators | mutual exclusion, checks that still hold at the write, snapshots, no replacement, and the refinement of `AtomicRegistry` |
| `registry_live` | 3 goroutines, any of them in `RegisterBuiltins` with two built-ins, registering an entry of the application's, unregistering the first type, or in `Types` | built-ins are there in order, a missing one has an explanation; every call returns, `RegisterBuiltins` with all it calls, although the others may call for ever |
| `constraint_evaluation` | 2 goroutines, 2 types, lists of up to 2 constraints, one answer per way out of `Evaluate` | reports fail closed and account for all; each constraint is judged by what was registered during the call; evaluators run unlocked |
| `constraint_evaluation_live` | 2 goroutines, 1 type | evaluators that never return hold up no one else; the refinement of `AtomicEvaluation` |
| `discount` | six-bit amounts, five currency fields, basis 5 | overflow, rounding, settlement |
| `eligibility` | 3 instants, 10 facts, 12 lists, 6 inputs | eligible is sound, a pinned instant is one instant, status and window agree, status moves forward, results agree |
| `operations` | 4 operations, 4 modes, 7 declarations, every list of up to 3 of 10 policies | the loop decides what policies say as a whole; policies and modes only restrict; decisions validate |
| `operations_argument` | up to 1 policy | **violated**, see Findings |
| `redemption` | 2 orders, one under IDs the provider honours and one without, 3 calls, reversals in full and in a mode that is none | what a host concludes is what happened, with late and repeated requests; what it keeps is its own; the refinement of `BenefitUse` |
| `driver_test` | 20 fixtures, each with one thing missing or changing; per call 4 to 38 answers, every effect on input and provider | the harness fails a driver exactly for the faults that show, and what passes a host correlates unchanged |
| `driver_registry` | 2 types, 3 definitions, 3 configurations, 1 write, 2 registrations at a time | descriptors are kept, bound drivers are as asked, validation foretells binding |
| `driver_maximum` | 1 definition, whose driver declares more than it does | **violated**, see Findings |

Why the bounds are enough. *Registry*: every hazard is a check of one goroutine,
a write of a second and the lock of both; the third makes readers and a waiting
writer possible together. Two types let `Types` be half-way when a key goes.
`t2` accepts one evaluator only, so that `Register` fails both ways.
*Evaluation*: two constraints are a first and a next, one type twice is the
re-used evaluator, and the second goroutine is the one that changes the registry.
*Discount*: `Saved` is right when `Basis * Basis <= MaxInt`, which a basis of 5 in
six bits meets as 10000 in 64 does (both are instances of the proof); -32 and 31
are the ends of the range. *Eligibility*: three instants are before, on and after an edge of a
window of length one; windows open, closed and reversed are among the facts.
*Operations*: three policies are one before, one that disables, one after.
*Driver registry*: the three definitions have every way out of `Bind`, and a write can
make a descriptor one that `Register` turns down. Two definitions of one type let one
replace the other during a call, and two registrations at a time (`MaxRegistering`) may
both be for that type. A single write (`MaxWrites`) to a shared place, which may fall
between a validation and its registration, is already a change.
*Built-in registration*: two built-ins are one before and one after an error; three
goroutines are two calls that meet and an application between them.
*Redemption*: three calls are one whose request is late, one that is answered
from memory and one more; without an ID a host may call once only. Two orders are
what it takes for a record of another one to be answered. *Driver test*: records
have IDs that are the request's, missing, the fixture's own or another, and outcomes
that are valid, valid without a currency, of another currency and wrong.
Symmetry is used among goroutines in the safety runs only.

Deadlock is checked in all runs but `redemption` and `driver_test`: there each call ends and
may be made again, while a host stops when all is concluded, or uncertain for
good, and a test ends with its last subtest.

### Fairness

`registry_live` (`BuiltinFairSpec`) and `constraint_evaluation_live` assume that the Go scheduler runs
every runnable goroutine (WF on what a call does by itself) and that a
`sync.Mutex` hands itself to the longest waiter after a millisecond, its starvation
mode (SF on a writer's `Announce`, which is disabled while another writer is in).
A `RegisterBuiltins` goes on to its next call as any running goroutine does. Nothing
is assumed of the calls an application begins, and nothing of evaluators: `Answers` and `Panics`
have no fairness, which is how an evaluator that never returns is modelled.

### Findings

`operations_argument`: `EvaluateOperation` with the operation `""` answers an
unsupported decision and no error (`evaluation/operation.go:44-47`). Its comment
(`evaluation/operation.go:16-17`) has invalid operation arguments wrap
`ErrValidation`, and the decision it returns does not pass
`OperationDecision.Validate` (`operation.go:225-227`). For every other operation
`DecisionsValidate` holds.

`driver_maximum`: `Bind` compares the type of the new driver's descriptor with the
registered one and nothing else (`driver/registry.go:173`), so that a driver that
declares a reversal, and has one, is bound from a definition that declares none.
`driver.go:125-127` has the two descriptors match, `driver.go:27-29` calls the
definition's a maximum, and `driver/errors.go:9-10` has `ErrInvalidDefinition` report a
driver that violates its contract.

Facts a reader may not expect and that the models show to be so by design:
without `Input.Now` each constraint is judged at its own instant
(`constraint/input.go:22`), and no single one need satisfy all; an evaluator may
have been unregistered before it is run; a reversed window makes a status pending
and then expired, never active. A status that is none of the seven, which
`BenefitInfo.Validate` turns down and `EvaluateLocalEligibility` accepts, is evaluated as
inactive and names no redeem failure (`evaluation/status.go:35-36`), as
`RedeemFailureCodeForStatus` documents (9-11): only for the seven do the two
single out the same benefits. What `Register` validates of a descriptor is what it is
before the lock, what it keeps is what it is under it.

## The proofs

Each holds for every value of the constants, from the named `ASSUME`s of the
modules, which say that sets are what they are called, and beyond that: for money
(`MoneyConstants`), that upper case is reached in one step and keeps a currency well
formed; for `Discount`, `Redemption` and `DriverTest`, that the square of the basis fits
the width (`BasisIsSafe`); for `Redemption`, that a provider's own IDs are there and
differ between orders, so that a record of another order can be told; for
`DriverRegistry`, that a definition that gives a factory makes something, and that
some registration may be in progress; for `DriverTest`, that a valid descriptor has a
namespaced type; and for `BuiltinRegistration` (`BuiltinConstants`), that there are
built-ins and no two are of one type (the list of `constraint/builtin.go:13-15`), and
that what the application registers is none of the built-in evaluators (the package
does not export them).

- **`RegistryProofs`** — `Invariance` is the inductive invariant `IInv`: types;
  `LockInv` (who is recorded in `writer` and `readers` is who is where only a holder
  may be, and a writer inside means no reader); `CallInv` (a call is where its kind
  may be); and the two properties. One lemma per action. Neither
  `MutualExclusion` nor `CheckStillHolds` is inductive without `LockInv`, for it is
  the lock's state and not the map's that keeps the other goroutines out.
  `Exclusion`, `ChecksHold`, `Snapshot`, `Replacement` follow. `Linearizable` proves the
  refinement of `AtomicRegistry`: `RegisterInsert` or the failing `RegisterCheck`,
  `UnregisterDelete`, `Lookup`, `EndTypes` and `Reject` are the instants at which calls take
  effect; every lock step stutters.
- **`ConstraintProofs`** — `KeepsRegistry` and `BuiltinsKeepRegistry`: a behaviour of either
  composition is one of `Registry`, so that all of the above holds here too
  (`LinearizableAround` says so of the refinement, for evaluators that call back in).
  *Evaluation.* `ReportsFailClosed` is by induction along the loop, report and log in
  step; `EvaluatorsUnlocked` from `LockInv` and where a frame may be. `JudgedByCurrent`
  needs `JudgingInv`: during a call the history has what the map holds, and a `Get` that
  has its answer took it from there. `EvalTypes` is part of the same invariant.
  `ReportsAccount` is inductive together with it: a decision that is satisfied adds
  neither a position nor a violation, any other adds one of each, and its position is
  above those before it (`ListingGrows`). `PromiseKept` proves the refinement of
  `AtomicEvaluation`: `Lookup` of a `Get` that the loop made is the abstract `LookUp`,
  the insert and the delete are `Change`, the steps of the evaluator are themselves, and
  calling, locking and returning stutter. It needs `CheckStillHolds`, without which an
  insert could replace an evaluator, and `JudgingInv`, which says what a `Get` is for.
  *Built-in registration.* `BuiltinsOrdered` is from the inductive invariant
  `BuiltinInv`. The property itself is not inductive: it says nothing while a call is on
  its way. `Behind` says what a loop has passed (all before its place are there or were
  removed), `Carried` who answers for a missing built-in (a type taken or emptied, or some
  loop that is past the ones there and still to go on). Two loops that meet hand this
  from one to the other: the one that finds its type registered gives up only if the
  other, or the application, has put something there, and that is what `CallsMade` and
  the registry's own `CheckStillHolds` make certain.
- **`EligibilityProofs`** — `EligibleSound` needs `Progress`: so far each logged
  constraint is the benefit's own in its place, and a report still satisfied means
  each held at an instant of the call; the instants only grow with the clock.
  `PinnedSound` needs `Pinned`: of a call with `Input.Now` in which no evaluator found its
  context cancelled, the violations so far are a listing of the positions that do not
  hold at that instant.
  `StatusAgrees` and `StatusForward` are about `ResolveStatus` at any instants;
  `ResultsConsistent` is the comparison of the two switches over any status at all
  (`CodedStatuses`), one that is none of the seven included.
- **`OperationsProofs`** — the loop invariant `Gathered`: a policy is still to come,
  or it does not restrict, or it disables nothing and its constraints are gathered,
  and only such are gathered. With it `OrderIsNothing`; `FewerRestrictions`
  (whoever is restricted by fewer policies has no less) gives `PoliciesRestrict` and
  `ModesRestrict`. `DecisionsAreValid` is by the shape of what can be decided.
- **`DriverRegistryProofs`** — `KeptAsRegistered` from `KeptInv`: what the registry keeps
  is in a place no one was given. `BoundSound` and `ValidationTells` from `CallInv`,
  which lists what a call may hold and have been answered at each of its points,
  and `VerdictInv`, that a verdict is what its definition accepts.
- **`DiscountProofs`** — `AlwaysExact`: with non-negative parts and the payable part
  bounded by the original, a sum that wraps is negative. `AlwaysFloor`: division is
  unique, and the two partial products stay in range. `AlwaysResolves` and
  `AlwaysSettled` from the invariant that an effect is what its calculation gave.
- **`RedemptionProofs`** — `ConclusionsHold` is the invariant `ConclusionsTrue` of
  `Redemption`: what the host concluded is what the provider decided, and what keeps it
  so, the count of calls and of requests on their way: an operation the provider does
  not know again is called for once, so that nothing of it arrives after it was
  decided. It needs of `Correlate` that what it lets through has the payload of its
  status (`PayloadFits`): a failure then has no record, and of such an answer it is
  assumed that it is true. `RecordsAreOwn` adds that a record of another order can be
  told, hence is not let through, and that to correlate twice is to correlate once.
  `KeepsPromise` proves the refinement of `BenefitUse` from both: a request that is
  decided done is `TakeEffect`, a settled result is `Tell`, all else stutters.
- **`DriverTestProofs`** — `RunsAreExact` is by induction along a subtest: until it is
  over the log is a beginning of the script and every call in it is faultless, and the
  call that ends it is faultless exactly if the verdict is not "failed". The heart of
  it is that `CheckRedeem` and `CheckReverse` accept just the results that `Correlate`
  returns unchanged (`RedeemCheckIsCorrelation`, `ReverseCheckIsCorrelation`).
  `PanicsAreExplained` and `ReversalsAreOwn` follow from what the log holds when `Reverse`
  is called.

Every safety and action property of the passing runs, and each of the three
refinements, is proved. Only model-checked is liveness: `EveryCallReturns`, `EveryCallEnds`
and `EvaluationProceeds`, which rest on fairness and on when steps are enabled, and
neither is within the prover's reach.

## Not modelled, and what is left

Left out because nothing changes state there: data types, error values,
diagnostics, JSON forms, and the validation of one identifier, schema or parameter
at a time, which is "valid or not" wherever another part relies on it.

Left out although they have behaviour:

- `MustRegister` and `NewDefaultRegistry` (`constraint/registry.go`) make the calls that
  are modelled and turn an error into a panic; the package-level helpers of both
  registries name one registry and call its methods.
- `EvaluateOperation` takes its report from a registry that does not change during the
  call (`Operations`), and `EvaluateAll` is checked against one that does
  (`ConstraintEvaluation`); the two are not composed. A decision reads nothing of the
  report but whether it is satisfied (`evaluation/operation.go`), and
  `FailsClosed` says what that means.
- What a provider does inside, beyond deciding a request: it is not in the
  repository.

What could be taken further: the composition of `EvaluateOperation` with `EvaluateAll`; a host of
`Redemption` that forgets between two calls and keeps its IDs only.
