# Involution, specified and checked

Involution is a Go framework for micro-services: a program builds an
`Involution` from its options and backend factories, starts it, and serves
`POST <path>/api` requests that name a backend, an endpoint and an operation.
This directory holds TLA+ modules for its core, the TLC configurations that
check them, and theorems with proofs that TLAPS checks. Every definition is
translated from the Go source; `PROJECT.json` maps each to its lines. Paths
below are relative to the repository.

## Inventory

| Component | State | Operations | Hard behaviour | What makes it correct | Status |
|---|---|---|---|---|---|
| Request pipeline: `src/transport`, `src/server/server_backend.go`, `src/server/connection.go`, `src/framework/backend.go` | one `transport.Context` per request; the three counters of `Connection`, shared | `AddHandle`'s closure, the server's closure, `HandleRequest`, `Inc`, `Dec`, `Verify`, `Sign`, `write` | two nested deferred functions and a recover; panics that pass through them; check-then-subtract on atomics; answers written twice | only admissible messages run a callback, at most once; at most one answer, and a truthful, rightly signed one; exact counters | modelled, checked, proved |
| Server life cycle: `src/server/server.go`, `server_register.go`, `src/utils/signal.go` | listener, Serve goroutine, `signalChan`, registration in consul, log channel | `Start`, `Stop`, `Cleanup`, signal delivery | `Stop` against `Start`; signals nobody receives; close of a closed channel; a shutdown that times out; consul failing | drain before cleanup; never listed while alive and unreachable; an orderly exit; what can and cannot crash it | modelled, checked, proved |
| Log rotation: `src/logging/logging.go` | two open files, archives, a timer | `start`, `Flush`, `close`, `rename`, `openWriter` | time zones, late timers, half-done rotations, restarts | no line lost; lines filed where they belong | modelled, checked, proved |
| Bootstrap: `src/involution.go`, `src/server/server*.go` | configuration, authorization, backend context, middleware, routes | `DefaultInvolution` and what it calls; `Initialize`, `RegisterBackend`, `AddHandle` by an application | order of loading, failure at every step, a second `Initialize` | routes only when complete and behind the tracer; parts built from two configurations agree where they must | modelled, checked, proved |
| Backend registry: `RegisterBackend`, `Backend.Initialize` | map of backends, the clients they opened | register, initialize | partial failure | clients opened once; what a failure leaves open | modelled, checked, proved (in Bootstrap) |
| Tokens: `src/authorities` | settings, redis or signed tokens | issue, parse | two stores, two units of the timeout, a restart with other keys | what was issued is accepted until it expires, as what it was issued for, under the opposite halves of its keys only | modelled, checked, proved |
| Health endpoint: `server_register.go` | none of its own | three loads of the counters | requests between the loads | how far an answer can be off | modelled, checked with the pipeline, proved |
| Documents: `src/framework/document.go`, `src/logical/document.go` | a `sync.Once`, a list | build once by reflection | an error that is swallowed; recursion over types | all or nothing; ends unless a type leads to itself | modelled, checked, proved |
| Decimal: `src/utils/decimal` | digits and exponent; integers shared behind pointers | arithmetic, rounding, text and other forms, floats, trigonometry | carries, ties, signs, ends of ranges, aliasing | agrees with exact integer arithmetic; immutable | modelled, checked, proved in part |
| Options, configuration | values | flags, HCL | none | | in part: the settings are variables of the modules |
| Middleware, micro-service client | none | glue to external libraries | | | in part: their place in a chain, their presence in a backend |
| UI, example, utilities | none | | | | not modelled |

How they interact: `main` calls `DefaultInvolution` (bootstrap), which registers
the backends and the routes, then `Start` (life cycle), which serves until a
signal. `net/http` runs the pipeline once per request in a goroutine of its own;
the pipeline calls the authorization for its token and a backend for the rest.
The logger is created by the bootstrap and runs the rotation goroutine; it takes
the process's signals for itself as well, so the life cycle models its channel.

## Modules

`ApiService` is the promise made to one request: it is accepted, its callback
runs at most once, only while it is counted in the gauge, and it is answered or
dropped. It knows nothing of layers, codes or signatures.

`Pipeline` is the code. A request goes through these places:

| `pc` | The goroutine is | Action leaving it |
|---|---|---|
| `idle` | not yet read | `Receive`: bind and `Verify`, `transport.go:46-82` |
| `incActive`, `incExecuted` | in `Connection.Inc` | `IncActive`, `IncExecuted`: one atomic addition each |
| `dispatch` | between `Inc` and the callback | `Dispatch`: `server_backend.go:45-75`, the framework's validation and routing and its hook (`Execute`, `Refuse`, `HookPanics`) |
| `callback` | in the backend's callback | `Return`: each way in which it may end (`Returned`): a Reply, a WrapperError with or without an Err, a panic with an error or another value |
| `decLoad`, `decAdd` | in `Connection.Dec` | `DecLoad`, `DecAdd`: the load, then the subtraction |
| `countError` | in the rest of the server's deferred function | `CountError` |
| `sign`, `write` | back in the transport | `Sign`, `Write` |
| `panic` | in the transport's recover | `Recover` |
| `done`, `aborted` | answered, or its connection closed by net/http | |

Goroutines share only the counters, so an action reaches from one atomic
operation to the next. Signatures are modelled by what they cover (a pair of
code and content), not by bytes; contents by whether they marshal.
The code in a Reply or a WrapperError is the callback's own and nothing checks it: `Chosen`
are the codes that callbacks use, those of the layers and Success among them, and `said[r]`
remembers the one that was chosen, to compare the answer with. `Hooked` are the backends
with a `HandleRequestBeforeFunc`; what it does to the request is the backend's own
business, and that it may panic is modelled. `MCPipeline` holds its messages and configurations.

`ServerLife` is the promise made to whoever operates the server: it opens its door, may be
listed, leaves the list and shuts the door; a request begins only through an open door and
is handled once; backends are cleaned up and the process stops only when none is being
handled. It may crash at any moment. It knows nothing of goroutines, channels or signals.

`Lifecycle` is the code and has one variable per thing `Start` and `Stop` touch. `main` is where
`Start` is, `acceptor` where the Serve goroutine is, `stop[s]` where the
goroutine `s` is in `Stop`, which has two steps because it reads the channel and
closes it without a lock. `Deliver` is the Go runtime offering a signal to the
two channels registered for it: the logger's, buffered, and `signalChan`,
unbuffered, which gets it only when `Start` is waiting at that moment. A process
that exits stops every actor (`Up` is a conjunct of every step) and takes its socket with
it (`Die`): the port is closed, what waits there is reset and what is being handled is cut,
while consul goes on listing what it lists.
`MCLifecycle` holds the instance.

`LogRotation` has a clock in ticks, the moment the timer is due, and for each of
the two files what its live file and its archives hold: a line is the moment it
was written. `Wait` is `nextDayOfMilliDuration` and `nextHourOfMilliDuration`,
`Past` the moment the archive is named after. `Restart` is a new process over
the old files. `MCLogRotation` holds the zones.

`Health` adds to `Pipeline` a client that polls the health endpoint: the handler
marshals `Connection` field by field, so an answer is three loads with any steps of
the requests between them. The answers it gives are compared with the counters at
the end, when the last field is read.

`Bootstrap` follows `DefaultInvolution` statement by statement; `step` is where it
is, and every step that can fail does so in some behaviour. A block of the
configuration is its source, `local` or `central`, so that the final state says where
each backend, the authorization and the signer got theirs from; what handlers are shown
(`HandlerParams.Config`) is `config` itself. Whether consul's
loader decodes into a block that exists or replaces it is not in this repository:
`opts.inPlace` is either. After `ready` the application may call `Initialize` again,
register another backend or add a route. Application code that runs meanwhile, a factory or
an `InitializeFunc`, may panic, the latter when both clients are open.

`Token` is the two token handlers over a clock. A token carries what it was made for
and when, besides what its bytes hold, so that the properties can compare the two. A
pair of keys is a number; `conf.pub` and `conf.pri` may come from different pairs,
since nothing checks that they match.

`Documents` has a graph of struct types and the wrappings (`slice`, `map`, `ptr`) of each
field, `getFields` as a recursive function over it whose depth stands for the stack, and
the `sync.Once` with the error it loses.

The decimal package is one module per concern, over numbers `[value, exp]`:
`Decimal` (scale, comparison, arithmetic, division, integers, rounding), `DecimalLaws`
(what these promise, against exact integers), `DecimalPow` (`Pow`, which calls itself),
`DecimalText` (text, JSON, XML, SQL, bytes, and the variables of a client that decodes
again and again), `ShortestFloat` (`NewFromFloat`: `decimal-go.go`, `rounding.go`),
`DecimalHeap` (which `big.Int` each result points to, and which methods write in place),
`DecimalTrig` (octants and slopes).

Several of these are checked side by side in one run, because they share no state: in
`MCStartup`, and in `DecimalParts` for the decimal package, a variable `suite` says which
one a behaviour exercises, and the others keep a fixed idle value. `DecimalParts` gives
each part a width of exponents of its own and states its properties where they are about
something. `MCDecimal` is its instance, with the two parts that call themselves, `DecimalPow` and
`ShortestFloat`, beside it: no theorem can be in a module that reaches them.

The theorems are in one module per component or two: `PipelineProofs` (the invariant, the
counters, the refinement) and `PipelineAnswerProofs` (the gate, the answers, `Health`),
`LifecycleProofs`, `LogRotationProofs`, `StartupProofs` (of `Bootstrap`, `Token` and
`Documents`), and for the decimal package `DecimalProofs` (sums, order, equality),
`DecimalRoundingProofs` (division, roundings, the zero value) and `DecimalSequenceProofs`
(what is computed over sequences: means and extremes of several numbers, and texts).

## What TLC checks

| Run | States | Shows |
|---|---|---|
| `pipeline_messages` | 23 202 | one request, 17 messages, 54 configurations, seven codes of callbacks: `Gate`, `TruthfulAnswer`, `SignCovers` |
| `pipeline_counters` | 235 343 | three requests, all interleavings: `TypeOK`, `ActiveIsOpen`, `CountersExact`, `AtMostOnce`; two of them with a health poll: `AnswerBounded` |
| `pipeline_progress` | 46 404 | two requests, with fairness: `Answered`, `GaugeDrains`, `ImplementsApiService` |
| `http_sign_flag` | violated | `--http.sign` decides nothing |
| `no_authorization` | violated | without an authorization nothing is served |
| `lifecycle` | 125 350 | `TypeOK`, `CleanupAfterDrain`, `ListedIsReachable`, `OrderlyExit`, `CrashNeedsStop`, `ImplementsServerLife`; with fairness `InterruptStops`, `StopStops` |
| `log_rotation` | 1 305 165 | `TypeOK`, `LinesKept`, `LinesFiled`, `RotatedOncePerDay` for zones not east of UTC |
| `log_rotation_east` | violated | east of UTC the same day is rotated again and again |
| `startup` | 696 802 | start: `TypeOK`, `RoutesComplete`, `ClientsAccounted`, `PartsAgree`; tokens: `TokensTrue`, `AcceptedInTime`; documents: `TypesDescribed`, `AllOrNothing` |
| `startup_balancer` | violated | with consul in use no backend gets a micro-service client |
| `decimal` | 26 646 | `ExactAtEveryScale`, `RoundingRight`, `SeriesRight`, `ZeroValueIsZero`, `TextFaithful`, `NullTracksInput`, `PowersAndFloats`, `TrigRight`, `Immutable` |
| `decimal_pow` | violated | `Pow` drops the fraction of its exponent |

Each property has at least one mutant of the code, defined beside the operator it
changes, under which TLC finds it violated in the same run. A property that is a
conjunction has a mutant for each part of it that a different piece of code keeps:
`RoundingRight` is rounding to the nearest, in a direction, towards integers, to a coin, and
of a quotient; `SeriesRight` the mean and the extremes; `PowersAndFloats` `Pow` of an integer
and the floats.

**Bounds.** *Messages and requests are split*: what a message is refused for does
not depend on other requests, so one request carries every message under every
configuration, and the counters are checked with three requests and the few
messages that end differently. A callback chooses among Success, a code of its own of
either kind and four codes that the layers use themselves (`MCChosen`), or among two where
only the ways to end matter. Three requests are one more than the two that
`Dec`'s load and subtraction need to interfere with each other. The theorems lift
the bound for the counters and the gate. *Lifecycle*: two connections, backends
and stoppers (a second `Stop` is the interesting one), two signals
(`MaxSignals`), so that a second signal may arrive before, during and after the
shutdown. *LogRotation*: an hour is 4
ticks and a day 5, the grace of 15 minutes 2 ticks, a timer is served within
`Late` = 1 tick; `MaxTime` = 10 holds two rotations of either kind, any number of
restarts between them, and `MaxLines` = 2 lines logged by the program besides
those the goroutine logs itself. The zones are at UTC, whole intervals away, and
half an interval away (an hour's rotation in a half-hour zone).

*Health*: a poll among three requests is 1.8 million states and shows nothing that two
requests (`MaxPolled`) do not, so behaviours of three requests have no poll. *Start*: two
factories, one late name, every set of five flags, six local files and three central
configurations (whole, empty, one block missing, either kind of authorization), and
`MaxCalls` = 2 calls by the application, enough for a second `Initialize` after a
registration. *Tokens*: a second has 2 units and a Duration wraps at 5, so that of
the timeouts 0, 1 and 3 the last wraps when multiplied; redis resolves 2 units;
`MaxNow` = 4, two tokens, the key pairs (1,1), (2,2) and both mismatched halves, (1,2) and (2,1).
*Documents*: two struct types, each field wrapped in one of six ways, two endpoints
(`MaxEndpoints`), two calls (`MaxAsked`): a cycle through two types is the shortest that
is not a self-reference. *Decimals*: exponents of 3 to 5 bits, so that both
ends of the range are reached, and an `IntPart` of 10 bits (`IntBits`), which a thousand already exceeds; `DivisionPrecision` 2; pairs of nine numbers at four
scales and `Decimal{}`; every number up to 130 at five scales rounded to six places; every text of up to
three characters over `0 5 . - E`; four floating-point formats of 2 to 5 mantissa bits with
every number they have, subnormal ones included; in the heap two variables with numbers up to 8 at three
exponents, ties of either sign among them; angles of two and a half turns, with a pi/4 that is one unit short and an octant that may be one unit off (`Drift`, `Slack`).

**Fairness.** Pipeline: weak fairness of the steps of a request that has been
read: goroutines are scheduled, and a callback returns (nothing in the code bounds
it; without that assumption neither property could hold). Clients need not send.
Lifecycle: weak fairness of `Start`'s goroutine, of the start of Serve, of closing
the logs, of signal delivery and of a `Stop` that has begun. *Handlers are not
assumed to finish*: `InterruptStops` and `StopStops` hold because of the ten
seconds `Shutdown` has. `LogRotation` has no liveness property; its bound on
lateness is a guard of `Tick`.

**Deadlock** is checked everywhere. Where the program may rest (all requests served, a
server waiting for a signal, an exited process, the last tick) the model says so with an
explicit stuttering disjunct, so any other stop would be reported.

## What is found

* `server/server_backend.go:92`: with no authorization registered every request
  is refused as unauthorized; the interface's comments promise that none is
  verified (`involution.go:34`, `server/server.go:83`).
* `transport/signer.go:65`: `--http.sign` ("Sign verification requests") is read
  nowhere; the transport policy alone decides.
* `logging/logging.go:176`: in every zone east of UTC the wait for the end of the
  day is negative from local midnight until UTC midnight. The timer fires at
  once, over and over, and each rotation replaces the archive of that day.
* `framework/backend.go:176`: `LBAdapter`, the client for micro-service calls that
  `README.md:5` promises, is made only if the backend context has a consul client.
  `DefaultInvolution` builds the context without one, so it is always nil.
* `utils/decimal/decimal.go:623`: `Pow(d, d2)` looks at the integer part of `d2` only:
  4 to the power 0.5 is 1.

Disagreements met while translating, too small for a run of their own. All are in
`utils/decimal/decimal.go`, and the modules model what the code does:

* `Mod` (615) takes its quotient from `Div`, which rounds: when the rounding reaches the next
  integer the remainder has the wrong sign.
* `QuoRem` (553) checks for an overflow of the exponent after the subtraction has
  wrapped in 32 bits, so the check never fails.
* `IsInteger` (646) negates the smallest exponent in 32 bits, which leaves it negative.
* `RoundUp` and its siblings (928 on): the examples of some comments are swapped.
* `MarshalBinary` (1198) of a `Decimal{}` writes what `UnmarshalBinary` refuses.
* `satan`'s comment (1526) gives another range than its code tests.

The models also show behaviour no document contradicts: a `Stop` before `Start`
has made its channel is lost, a SIGINT at the wrong moment is dropped, a second
`Stop` or a SIGINT after a `Stop` may panic, a failed rotation ends logging until
the restart; a process that dies before its shutdown stays listed in consul; a
WrapperError with an Err and no Code is answered as Success, unsigned; the central
configuration reaches the transport and the handlers, and the backends and tokens not, unless
it is decoded in place; a failed registration or start closes nothing it opened; half a pair of
keys takes the tokens of the opposite half pair and not its own; a failed `InitializeFunc` goes unnoticed; a refused New
Relic application puts a nil handler in front of every route; one timeout is seconds for
a JWT and nanoseconds for redis; one missing description hides all documents of a
backend for good.

## What is proved

All theorems hold for every value of the constants that meets the named
assumptions, which TLC evaluates in every run: any number of requests, messages,
configurations, backends, stoppers, signals, lines, tokens, endpoints and numbers.

*Pipeline.* Assumptions: finitely many requests, and well-formed messages, settings
and backends (`checkEndpoint` refuses an operation without a callback).
`ActiveIsOpen` is not inductive: nothing in it says that the load in `Dec` sees a
positive gauge, nor which requests were counted. `IInv` adds the typing and, per
place of the program counter, how often the callback ran, how the closure was left
and what was written. With it the load sees at least the request itself, because a
request at `decLoad` is in `Inside`, so the set is not empty and its cardinality,
the gauge, is positive; each step then adds or removes exactly one element.
From `IInv` follow `TypeCorrect`, `GaugeExact` (`ActiveIsOpen`), `TotalsExact`
(`CountersExact`), `ExecutedAndAnsweredOnce` (`AtMostOnce`) and `Refinement`,
which shows that each action is a step of `ApiService` or a stutter, by the place
it leaves and the place it reaches. `OnlyAdmissibleExecute` (`Gate`), which says also that an admissible message that is answered
or dropped was executed unless its backend's hook panicked, rests on a
lemma that `Refusal` answers Success exactly for the admissible messages that the
transport let through; that the first matching endpoint is well defined needs the
least element of a set of naturals, hence `WellFoundedInduction`.

`AnswersTruthful` (`TruthfulAnswer`) and `SignaturesCover` (`SignCovers`) are about a
body that was delivered, so nothing in them is inductive: the body was a response
before. `AnswerInv` says of a response, at each place, that its code agrees with what was
executed, with what the callback said and with who asserts the code, and its signature
with what it carries. Both theorems hold for any set of codes that callbacks may use,
those of the layers included. That fails where it matters most: when
writing panics, `Recover` puts another code into a response that is already signed. The
invariant therefore keeps, for a request at `panic`, why it is there: a signed response
has a content that does not marshal, so writing it again fails too, or its client is gone.
Nothing is delivered either way.

`HealthTrue` (`AnswerBounded`) is an action property of the composition with a poll.
`HealthInv` relates each counter to the field that was loaded before it. The gap between the
gauge and Executed, requests that are in one and not yet in the other, is the cardinality of
`Entering`; an answer can be off by those and by the requests that entered while it was made.

*Lifecycle.* `IInv` says, for each place of `Start`, what has been done and what
not yet: before `shutdown` the listener is open, as long as the process is up, and nothing is cleaned; from
`drain` on it is closed and no connection can be accepted; from `cleanup` on
nothing is being handled. `TypeCorrect`, `CleanupWaits`, `ListingReachable`, `ExitOrderly` and
`CrashesNeedStop` are its consequences, `NoneAcceptedLate` is an action property
proved from it. `Refinement` (`ImplementsServerLife`) shows that every action is a step of
`ServerLife` or a stutter: the phase is read off the listener and off whether `Start` is past
its deregistration, a server counts as listed while consul lists it and no deregistration has
failed, and every exit that is not orderly is a `Crash`. `IInv` had to be
strengthened for it: a registered server that is up has a route and a listener even after `Start` has
failed, and a process that ended well has returned from `Start` and cut nobody off.
`ListingReachable` (`ListedIsReachable`) speaks of reachability while the process is up; of a dead
one, whose port went with it, it says that its shutdown had not begun, so that a stuck drain
(the one `log.Fatal` inside an orderly shutdown) leaves nothing listed.

*Log rotation.* Assumptions: intervals of at least one tick and not shorter than the grace; a
timer is served less than the grace late; zones less than a day away, by quarters of an hour
(`ZonesAssumption`). Every theorem has the hypothesis `NotEast`, because east of UTC the
properties are false (`log_rotation_east`). The properties are about names, so the proof is
about moments: `Boundary(t)` is when a timer set at `t` fires. `PastOfDue` says which interval a
rotation at a boundary is named after, for every lateness; `NamesOlder`, that every archive has
an earlier name than the next rotation will use, follows because consecutive boundaries
are an interval apart, and survives a restart because the boundary after any later moment
is no earlier. Hence a rename replaces nothing (`NoLineDestroyed`, `LinesKept`). `LiveIsYoung`,
that a live file holds what was written since the timer was set, gives `EveryLineFiled`
(`LinesFiled`); that the boundary moves on by a local day gives `OnceADay`
(`RotatedOncePerDay`); that it is never behind the clock gives `TypeCorrect`. The
arithmetic of `\div` and `%` by an interval that is a constant rests on `DivUnique`.

*Start.* Assumptions: finitely many factories; configurations of known blocks and kinds; a
bound on calls. `IInv` follows `DefaultInvolution`: which configuration each part was made
from and where the two agree (`Sources`), what the remaining steps have to do (`Progress`), what a backend was made with
(`Made`), which clients each name has that no backend uses (`Opened`), what is in front of
each route (`Handled`). `Complete` (`RoutesComplete`), `ClientsCounted`
(`ClientsAccounted`) and `PartsInAgreement` (`PartsAgree`) are read off it. Who is left with a client and
no backend is the cardinality of a set of names: for redis at most one, because only a panic
leaves one and nothing follows it; for engines, before the application calls, the one
name the start failed at. `PartsAgree` takes no side in whether the central configuration
should reach the backends: it holds of what the code does and would hold if it did.

*Tokens and documents.* Assumptions: a second and half the range of a Duration are positive;
configurations are of the two kinds; every authentication has a principal. `TokenInv` says
that what is in a token agrees with what it was made for, the end included, whatever
restarts follow. Acceptance is symmetric in the two halves: each key of the configuration is the
opposite of the one the token was made with, from which it follows what pairs and half
pairs take. `TokensSayTrue` (`TokensTrue`) and `TokensLiveAsLong` (`AcceptedInTime`) follow; a
timeout that wraps is outside the latter's premise and, as in the code, a token like
any other. `DocInv` says that once the documents were asked for they are those of all endpoints
of that moment, or none and a description was missing, and that a process that is down was
asked for a type without an end; `DocumentsWhole` (`AllOrNothing`) follows.

`DocumentsDescribe` (`TypesDescribed`) is about the recursion of `getFields`, for any finite set
of struct types (`TypesAssumption`). Its measure is the number of frames still on the stack, so
the argument is by induction over that number, which here is the lemma `UpTo`: a set that
contains 0 and the successor of each of its numbers contains them all. It gives in turn that
the recursion has a solution (`FramesAre`); that a type overflows a stack of n frames exactly
if it is in the n-th of a decreasing sequence of sets of types (`UnendedAre`); that such a sequence
of subsets of a finite set settles after as many steps as it has elements (`UnendedSettle`), and at the
types that never end (`OverflowIsEndless`); and that for the others the description is the same
at every greater depth (`FieldsSettle`), so that it is what its own fields lead to.

*Decimal.* `Immutability` (`Immutable`) and `NilStays`: a step writes to an integer that no
variable holds. There always is one, because there are more references than variables
(`FreshIs`, a pigeonhole), and the one method that could write to its receiver's, `RoundBank`,
returns it unchanged when it has nothing to round, because zero is no tie (`BankOfOwnPlaces`).
Assumed are finitely many variables, and places that do not wrap when negated: at 32 bits
all but one (`PlacesOfInt32`). `ExactArithmetic` (`ExactAtEveryScale`): rescaling to a finer exponent
changes nothing (`RescaleExact`), so a pair brought to the finer of its exponents can be
added, subtracted and compared as integers. The provers know no law of powers, so its hypothesis
`PowersOfTen(Nat)` states the two that are used, that 10^m is positive and that exponents
add; they are arithmetic, not a restriction, and TLC evaluates them for the first few.
`RoundingsRight` (`RoundingRight`) and `ZeroValueSound` (`ZeroValueIsZero`, `RoundDown` and
`Truncate` included) need that no exponent
wraps (`RoundingParameters`: `InRange` of each operand and number of places, the smallest exponent excluded because its
negation wraps, and a `Decimal{}` with exponent 0) and at least two places in a quotient. To
rescale to fewer places is to cut towards zero (`RescaleCuts`), which `QuoUnique` makes integer
division; half a unit added before that rounds to the nearest (`HalvedNearest`), and which of two
equally near ones it is follows from the digit left. `DivRound` compares the double of the
remainder with the divisor (`DivRoundIs`); a coin divides a hundred, so the detour of `RoundCash` by
multiplication and truncation is exact (`CoinsDivide`); `IntPart` is an int64 congruent to the
integer part, and so the integer part itself exactly where that fits (`Int64Is`), for any
width; `IsInteger` goes digit by digit, and the least
place where a digit is not zero decides (`DigitsZero`). `SeriesAreRight` (`SeriesRight`) is
about folds: `FoldSteps` shows by `UpTo`, over the length, that what the fold of a sequence gives
is one step after what the fold of the sequence without its last element gives; so `Min` and
`Max` bound any number of arguments, and the sums of three arguments in two orders have the
same scale and the same worth and are divided alike (`MeanIs`).
`TextsFaithful` (`TextFaithful`) is about every text over any characters, every number and every
exponent; assumed are `PowersOfTen(Nat)` as above, that an error is no number, that no text is nil, and that exponents have
room for the places that are checked (`Parameters` of `DecimalText`, all true of 32 bits).
`NumeralIs` (a numeral is read as its number, by strong induction) and `NumberJoins` (digits glued
to digits are worth the first ones shifted) are the base. A number is written as a sign,
digits, a point and digits (`WrittenAs`); cutting its zeros and padding it change the parts and
not the worth, so whatever is written is read as an equal number (`TextRead`, `Reading`), and
what is written with places has its point there (`FixedWritten`). In the other direction, `DigitsOf`
follows each character of a text through the cutting and gluing to the digits that
are parsed: what is taken (`Taken`) and what is well formed (`Formed`) are both that every character
but the sign and the point is a digit (`Clear`), and the shares of the digits by their places
add up to the number that is parsed (`WorthIs`). The invariant, `TextInv` and `ReadInv`, says that
a variable holds a number, and after `UnmarshalText` the one assigned from its text.
`NullsTrack` (`NullTracksInput`): what a NullDecimal decodes does not depend on what it held.
`TrigonometryRight` says that `Sin`, `Cos`, `Tan` and `Atan` reduce their argument and turn the polynomial's value back rightly, for every resolution and
slope and for every angle whose octant a float64 holds exactly (`MaxOctantAssumption`). The code's
4/pi and pi/4 are not exact: how far an angle may be from its octant (`Slack`) and how much
the subtracted pi/4 lacks (`Drift`) are parameters, and the reduced argument is within
an octant but for them. Nothing changes in a behaviour of `DecimalTrig`, so its invariant is its type, and the
argument is arithmetic: the adjusted octant is even, so modulo eight it is twice the quarter
turn (`OctantIsTwiceQuarter`), from which sign and polynomial follow; `Tan` follows from `Sin`
and `Cos`; each of `satan`'s three ranges is split so that its parts add up.

*Only model-checked*, and why:

* The liveness properties (`Answered`, `GaugeDrains`, `InterruptStops`, `StopStops`, the fairness
  part of `ImplementsApiService`): fairness and ENABLED are out of the prover's reach.
* `PowersAndFloats`: `Pow` and the shortest decimal of a float call themselves with a result in
  between, as RECURSIVE operators, and no theorem can be in a module that reaches one.

## What is not modelled, and why

* `ui/docs.go` is generated; what CORS, New Relic, pprof and the micro-service client do, the
  example and the utilities are stateless glue to external libraries. RSA, JWT and redis are
  modelled by what the handlers rely on.
* A backend registered while requests are served: `RegisterBackend` locks the map, the request
  handler reads it without the lock, and what a concurrent map read then does is Go's fatal error.
  `Bootstrap` lets an application register before `Start` only.
* Decimal: the branch of `newFromFloat` for nineteen digits and more, the getters
  (`Float64`, `Rat`, `BigInt`, `Coefficient`), and `RoundedInteger` and `decimal.String`, which
  nothing calls.
  The polynomials of the trigonometric functions are names: how good they are is numerics.
  Angles whose octant an int64 or a float64 does not hold exactly: the code loses them.
* The names, examples and tags in a document; named slices and maps of themselves
  (`type L []L`), from which `getType` never returns (`document.go:55-57`); memory statistics in the health endpoint.
* gin's route tree: that a route is added to it while Serve is routing is in
  `Lifecycle` as two concurrent steps, but not what a lookup in between would see.
* The bytes of signatures, tokens and JSON.
* Log rotation: changes of the zone's offset while the process runs, and a `Close`
  that fails on an open file. A timer served later than the grace of 15 minutes is
  excluded by `BoundsAssumption` (`Late < Grace`): it would name the archive after the
  wrong interval.
* What a `HandleRequestBeforeFunc` does to its request, and what an `InitializeFunc` does besides
  failing or panicking.
* Connections that net/http keeps alive: one connection carries one request.

## Plan

The modelling and the proofs planned are done. What could come next:

1. `Pow` of an integer and the shifts of `ShortestFloat` as recursive functions, to prove about them.
