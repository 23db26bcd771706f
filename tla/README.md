# Rblpapi, specified in TLA+

The repository holds a description of an equity strategy (`src/README.md`, prose only) and the
program it draws its data with: **Rblpapi** (`src/Rblpapi-master/`), an R package over
Bloomberg's C++ library `blpapi`. This directory models that package. Paths below are relative
to `src/Rblpapi-master/`.

## 1. Inventory

| Part | State it keeps | Operations | What makes it correct |
|---|---|---|---|
| Request functions (`bdp`, `bdh`, `bds`, `getPortfolio`, `getTicks`, `getBars`, `lookupSecurity`, `beqs`, `bsrch`, `fieldSearch`, `fieldInfo`, `blpAuthenticate`) | only locals; everything that lasts is in the library's session | send requests, read `session->nextEvent()` until the loop ends | a call returns its own answer, all of it; it ends; it leaves nothing to the next call |
| Field information (`getFieldTypes` in `blpapi_utils.cpp`) | the list of answers | one FieldInfoRequest per field, one after the other | the i-th answer is the i-th field's |
| Live subscriptions (`subscribe.cpp`) | the library's subscriptions, the event in hand | subscribe, the endless loop, the user's function, interrupt, error | right name for every message, none lost or reordered, none left running |
| Objects and handles (`blpConnect.cpp`, `authenticate.cpp`, `finalizers.h`, `R/init.R`, `R/defaults.R`) | native objects, external pointers, `.pkgenv$con`, `.pkgenv$blpAuth` | connect, authenticate, attach, forget, collect, exit | no finalized pointer is reachable, none is deleted twice, defaults belong together, nothing owned is leaked |
| Data frames (`populateDfRow`, `bulkArrayToDf`, `processResponseEvent` of beqs, `processBsrchResponse`) | the columns under construction | choose types, allocate, infer, fill | every value lands in its cell under its type |
| Several securities (`getBDPResult`, the loop of `bdh_Impl`, `R/bdh.R`) | `res`, `ans`, `ans_names` | place a row by its sequence number, append a frame with its name | every row and frame belongs to the security it is shown under, and none is missing |
| Conversions (`bbgDateToRDate` ..., the INT64 narrowing of bds, `recursiveParse`) | none | pure functions | no wrong date or number, no element moved |
| R wrappers' reshaping (`converters.R`, xts, zoo, data.table) | none | pure functions | - |
| Versions, build, generated glue | none | - | - |

How they interact. One R process calls one function at a time, but all functions share **one
event queue**, the session's, which `blpapi`'s own threads fill. No function compares a
correlation or request id with what it sent. A function that stops early (an exception in the
middle of an answer, `bds` returning at a PARTIAL_RESPONSE, a timeout) leaves events behind, and
they are the first thing the next function reads. This is the hard behaviour of the package, and
the core of the model. The others: what each loop does with REQUEST_STATUS and with a session
that ends; reuse of correlation ids by successive subscriptions; the order in which R collects
objects; and column types fixed before the values are known. `PROJECT.json` lists the hazards,
each at its line.

## 2. Modules

- `BlpSession` - the library as the package sees it (external; modelled from its use): requests
  not yet finished (`pending`), the event queue, and answers made of PARTIAL_RESPONSEs and a
  RESPONSE, or ended by REQUEST_STATUS or SessionTerminated. Bodies are "data", "error" (the whole
  answer is one error element) or "unusable" (the reader throws on it). Ids are history.
- `RequestCalls` - the thirteen request functions, on `BlpSession`. `pc` is where the running C++
  function is ("send" before `sendRequest`, "wait" in `nextEvent`); `todo` what it has still to
  send (`bdp` and `bdh` send one FieldInfoRequest per field, then the data request); `types` and
  `got` what it has gathered. One action per thing a loop can do with an event: read it as field
  info, read it as data, ignore it, print its error and go on, stop. The differences between the
  loops are the named predicates `StopsOnStatus` (bdh and authenticateWithApp),
  `EndsWithSession` (ticks, bars, lookup, beqs, bsrch), `Keep` (appended; assigned over by
  beqs and bsrch) and `EndsAt` (RESPONSE; any answer for bds and getPortfolio).
  `MayPass` and `MayStop` say which answers a function's checks let through: a foreign answer of
  the right kind may pass, which is the point. `mine`, `clean` and `last` are history.
- `CallPromise` - the abstract specification of the request functions, without queue, events or
  loops: a session is trusted or not; a call that begins on a trusted one gives what its function
  promises (the whole answer, and for some functions also a first part, a last part or nothing) or an
  error; on another session it gives anything. Only a first part or an error costs the trust, and
  nothing gives it back. `RequestCalls` implements it (`Promise == INSTANCE CallPromise WITH ...`):
  "busy" is every `pc` but "idle", a session is trusted while `Owed` is empty, and `Reply` reads the
  kind of reply off `types`, `got` and the history `mine`. `SharedSpec` adds that something else may
  drop what is owed.
- `CallbackCalls` - `RequestCalls` composed with a live subscription over the same queue: `loop` is
  where `subscribe_Impl` is ("wait" in `nextEvent`, "callback" in the user's function). Request
  functions run while it is "idle" or "callback", for R is single-threaded; each loop drops what is
  meant for the other. It implements `CallPromise!SharedSpec`.
- `Assembly` - one call of bdp or bdh over a list of securities. Parts of the answer, each with some
  of the securities, come in any order and are mixed with parts of an older request that
  `RequestCalls` shows may be there. Rows go to their sequence number if the name agrees
  (`Mismatch`), frames into the next slot if there is one (`HasRoom`). Reading the vector outside
  its bounds is undefined: the call stops, or goes "wild".
- `Conversions` - operators: yyyymmdd numbers and `Datetime`s to R's days, times to seconds of UTC, the
  INT64 of bds. boost's calendar is external, given by its day number and its exceptions.
- `Messages` - `recursiveParse` and `eleToArray` of `subscribe.cpp` as operators over elements, and
  the action that parses a message with them.
- `Values` - `Conversions` at work: dates, times or integers converted in increasing order.
- `Subscribe` - `subscribe_Impl`, with the library's subscriptions. An event is a sequence of
  messages; R's interrupt flag is looked at between `nextEvent` and the messages; an
  interrupt inside the user's function leaves the loop as an interrupt or as an error; a message that
  cannot be parsed (`ParseFails`) leaves it as an error.
- `Handles` - native objects with their owner, the two defaults, the user's own variables, R's
  collector and its finalizers at exit. `.onAttach` has one action per setting of
  `blpAutoConnect` and `blpAutoAuthenticate`.
- `Frames` - the four ways an answer becomes columns: types from field info (bdp, bdh), from the
  first element of a name (bds), from a scan of the rows (beqs), of the first rows (bsrch). A cell
  holds NA, "", the epoch or 0, its element, or its element as text. What R's `INTEGER()`, `REAL()`
  and Rcpp's vectors do on a column of another type is external: `REAL()` on an integer vector is
  an R error, `CharacterVector v = lst[j]` converts the whole column, `NumericVector` refuses a
  character one, `DateVector v = lst[j]` puts the Date class on it.
- `MCRequestCalls`, `MCCallbackCalls`, `MCSubscribe`, `MCFrames`, `MCValues`, `MCAssembly` - instances for TLC. `MCValues`
  composes `Values` and `Messages`, of which one is at work in a behaviour. (`Handles` needs none.)
- Theorems are in modules of their own: `RequestCallsProofs` (what is owed and what is returned)
  and `PromiseProofs` (what puts a session behind and is never caught up, that no call waits in vain, the refinement) about
  `RequestCalls`, the second on the first; `CallbackCallsProofs`, on these, about `CallbackCalls`;
  `AssemblyProofs`, `SubscribeProofs`, `HandlesProofs`, `FramesProofs` and `ValuesProofs`, each about
  its module.

Definitions named `X_Something` are plausible bugs of `X`, used to see that the properties notice.

## 3. Runs

| Run | Question | Result |
|---|---|---|
| `typed` | bdp, bdh, fieldInfo, fieldSearch: does a call on a clean session return its own types and data, and only stop on an error? is that the abstract call? do all loops end, and does a session that fell behind ever recover? | yes; yes; yes; never |
| `callbacks` | loops of every shape called inside and outside the user's function of a subscription, with late authentication answers: what is owed when a call waits or returns? what puts a session behind? who loses whose events? | at most its own last request, and nothing after success, bds excepted; a call that gives up on an answer still to come, and nothing else; a message is lost only to a call made inside the user's function; only the waiting subscribe loop mends a session; calls keep their promise |
| `failing` | REQUEST_STATUS and SessionTerminated | results stay the call's own; bdh ends on a refusal, the collecting loops with the session |
| `subscribe` | names, order, unsubscription and interrupts over clashing correlation ids | right in a session without leftovers; with them, wrong names have no other cause |
| `handles` | every history of four objects | no dangling default, no double delete, no owned object left at exit; the defaults part only when one of them is replaced alone |
| `frames` | a column of eight datatypes, null or absent, beside one of numbers, up to three rows in any order, all loaders | no value dropped; misread only in mixed columns; a column of one type is never refused; ending the scan early loses nothing |
| `values` | 12001 consecutive numbers from each of eight starts; instants around 1970; 64-bit integers around R's; messages two levels deep, with leaves that are empty, null, refused or not read | what is no date is refused and nothing is skipped; times are off by less than a second; integers keep their order down to R's least; every element keeps its place, and a message is lost only for a cause the code has |
| `assembly` | bdp and bdh over one to three securities, an older request of up to three in between | rows and frames belong to their securities; a call that reaches its own RESPONSE is complete; only a longer older request is read out of bounds |
| `whole_answer`, `default_reset`, `na_strings`, `empty_screen` | what the documentation or a comment says | violated: see below |

The disagreements found, each with the sentence it contradicts in `PROJECT.json`:
`bds` returns the first part of an answer in parts, `beqs` keeps the last; attaching the package
without `blpAutoConnect` (say after `Rblpapi::blpConnect()`) drops the default connection; string
cells without a value are `""`, not `NA`; a screen without rows reads the uninitialized `allgood`.

### What the properties say

`CleanCallReturnsItsOwnAnswer` is the promise of the package under the one condition it has:
nothing was owed on the session when the call began (`clean`). `SuccessLeavesNothingOwed`, the part of `InStep`
about a call that returned, is why that condition keeps itself through successful calls.
`OnlyGivingUpFallsBehind` is about the calls that stop, clean or not: one that times out or throws in the
middle of an answer puts the session one answer behind, as `bds` does when it returns at a first part, and
every other error costs the next call nothing. `SlipNeverHeals` is what happens then: while every request is answered by a RESPONSE, the number of answers the session is
behind never falls, since each call ends at the first RESPONSE it meets. `SlipNeverHeals` is
checked where no request is refused, for a refused request that a loop ignores makes the loop
eat a later answer. `CallbackCalls` shows the one exception: a waiting subscribe loop drops what it does not know,
so it mends the session by luck (`WaitingHeals`, `OnlySubscribeHeals`). `Subscribe` has the same shape: `FreshNamesAreRight` under `fresh`,
`NoForeignNoWrongName` for the cause of everything else.

`KeepsPromise` is the refinement: whatever a user can tell of a call is what `CallPromise` allows.

`OwnEndIsComplete` rests on counting: bdh never asks whose frame it holds, but a stranger's frame
takes a slot that its own last one then lacks, and R's list refuses one more. `FramesAreNamed` says
what is left: when the older request's RESPONSE ends the loop, the frames carry their own names,
except in a list of one, from which `R/bdh.R` takes the frame and drops the name.

`DatesAreConsecutive` is a property of the column, not of a formula: going up through all numbers,
the accepted ones must be exactly consecutive days, through months, leap years and centuries, with
the calendar's first day again after its last: a number with more digits is not refused, its
year is taken modulo 65536. (The one step back was found by the proof; no column of the run is as
long as 65536 years.) `IntegersKeepOrder` has the premise that no value is below R's least
integer, for `static_cast<int>` wraps there and only the other end is clamped.

### Bounds

Requests: 4 (`typed`, `failing`) or 2 (`callbacks`, with two messages of the subscription); a typed
call needs at most three (two fields and the data), the others one, so a call and a successor that
meets its leftovers always fit. `MaxPartials = 1`: two events per answer are enough to stop between
them, return at the first, or overwrite it. bdh gets one event per security, lists have one or two.
`failing` has one function of each shape of loop and refuses every request but field information,
which `typed` covers by error answers. `MaxSubs = 2`, `MaxTicks = 2`, `MaxQueue = 1` (events of up to
two messages): a subscription, its leftovers, and a successor that reuses ids. `MaxObjects = 4`: two
sessions and two identities. `Frames`: three rows are first, between and last; the second column
is there for the end of the scan, the only way columns influence each other. `InferRows = 2` stands
for bsrch's 25 rows; FLOAT32, TIME, CHAR and the other datatypes left out take the branches of
those that are in. `MaxAsked = 3`, `MaxOlder = 3`: an older request that is shorter, longer or as long,
with any of its parts still to come. `Half = 16` stands for 2^31, with integers of three times its
size on both sides. `DateSteps = 12000` crosses a year and its end from each start; the starts are the
two ends of boost's calendar, their images after year 65535, 1900 and 2000, 1970, and -3.

### Fairness and deadlock

`RequestCalls`: weak fairness of the running call (`nextEvent()` returns when there is an event;
the C++ between two events ends) and of the service answering a request it has taken. The
user need not call, and no timeout need expire. `Subscribe`: weak fairness of the loop, and the
user's function returns or fails; nothing obliges the market to tick. `CallbackCalls`: the same, the subscribe loop runs,
and the user's function ends. `Handles`: R runs the
finalizers that are left at exit. Deadlock is not checked: the user may stop calling, a
loop may wait for ever for an event (`nextEvent()` has no timeout), R ends, and a loader returns.

`TerminationEndsCollecting` and `RefusalEndsBdh` name the loops that look for the two endings; the
others ignore them and wait. That is how the code is, and no document promises otherwise.

## 4. Proofs

Proved for every value of the constants: every set of functions, securities, fields and answers, and
every bound. Each theorem has the name in brackets; every safety property of the passing runs has
one except `ParsedKeepsItsPlaces` and `LostForACause`.

### Request functions

- **What is owed** (`RequestCallsProofs`): `TypeOK` [`TypeCorrect`], `InStep` [`SessionInStep`],
  `SuccessLeavesNothingOwed` [`SuccessKeepsStep`]. "Nothing is owed after a clean success" is not
  inductive; what is, is that while a clean call waits only its *last* request is owed, and before it
  sends nothing is. This rests on `SessionOrder`: ids are ranks, a final event is the last of its
  request, and one-item answers have no parts (else the field info of one field could be followed by
  more of it when the next is asked for). Lemmas `OwedIff`, `ServiceOwes` and `ReadOwes` say how
  emitting and reading an event change what is owed; the rest is one step per action.
- **What is returned** (`RequestCallsProofs`): `CleanCallReturnsItsOwnAnswer` [`OwnAnswer`],
  `CleanCallRejectsOnlyErrors` [`OnlyErrorsReject`]. `AnswerInv` adds to the above where the call is in
  its plan (`Progress`), what the service keeps to (`Honest`: an error is a whole answer, a history has
  one part for each security), and, for a clean call, that all still to come is for its last request
  (`OnlyOwn`), that it comes in order from the part after those read (`InOrder`), and that what it has
  gathered is its own (`TypesOwn`, `GotOwn`). Without the order the result could be complete and
  shuffled, or `bds` could return a part that is not the first.
- **What puts a session behind** (`PromiseProofs`): `OnlyGivingUpFallsBehind` [`OnlyGivingUpCosts`], from
  the same invariant and without `Answering`. A read of a final event leaves one
  request less owed, so the session is no further behind though the wait ends; at a part only the three ways of giving up end the wait (`EndOfWait`):
  `authenticateWithApp` would take any answer for the last, but its answer has no parts.
- **What is never caught up** (`PromiseProofs`): `SlipNeverHeals` [`SlipStays`]. It needs that every
  part in the queue is followed by its end (`PartsEnd`, in `Steady`) and that a call begun behind has an end of
  another's before its own (`Behindhand`), so it reads at most one end for each request it sends.
- **No call waits in vain** (`PromiseProofs`) [`NoCallStarves`]: `nextEvent()` has no timeout in most
  loops, yet a call that waits has an event to read or an answer that the service can go on with:
  while the session is up, if no request is refused or the call stops on a refusal; after its end, if
  the loop looks for that. It holds of calls on a session that is behind too, and needs no `Answering`.
  The invariant is `Awaits`: a call that sees every end is still owed its *last* request (it may take
  others' ends for its own, but not read past its own), and one that looks for the end of the session
  has it in the queue. `EveryCallEnds`, `RefusalEndsBdh` and `TerminationEndsCollecting` lean on it.
  TLC finds it violated without its premise: a loop that ignores a refusal does wait in vain.
- **The refinement** (`PromiseProofs`): `KeepsPromise` [`PromiseKept`]: initial states map to initial
  states, and each action to a step of `CallPromise` or a stutter.

`SlipStays` and `PromiseKept` assume `Answering`, that is `~MayTerminate /\ FailingClasses = {}`: every request is
answered, as in the runs that check them. That is a limit of what is true and not of the proof. A loop that
ignores the REQUEST_STATUS of a refused request waits on, and takes a later answer, which then is
no longer owed; and when the session ends, nothing is owed any more.

### With a live subscription (`CallbackCallsProofs`)

- `InStep`, `SuccessLeavesNothingOwed`, `CleanCallReturnsItsOwnAnswer` and `CleanCallRejectsOnlyErrors`
  again, of `SharedSpec` [`SharedInStep`, `SharedSuccess`, `SharedOwnAnswer`, `SharedOnlyErrorsReject`]. A message of the subscription adds nothing that
  is owed (`TickKeeps`), the subscribe loop only removes events (`LoopKeeps`), and every other step is a
  step of `RequestCalls` or leaves its variables alone. `SharedInv` adds that no call runs while the
  loop waits in `nextEvent`: it is what lets that loop drop answers without starving a call.
- No call waits in vain among the subscription's messages either [`NoSharedCallStarves`], though the
  loop drops what earlier calls left; `CallEndsAmongTicks` leans on it.
- `OnlyGivingUpFallsBehind` again [`OnlyGivingUpCostsShared`]: the messages and the loop put no session behind.
- `OnlySubscribeHeals` [`OnlyTheLoopHeals`] and `KeepsPromiseWhenShared` [`SharedPromiseKept`], under
  `Answering` again. `Steady` allows the subscription's messages between the answers.
- `TickLostOnlyToACall` [`MessagesLostToCallsOnly`]. `MessagesInOrder` says that the numbers of the messages
  in the queue rise, that behind the first of them all are there up to the last sent, and that the
  first is the one after the last handed over, unless a call ran since.

### Several securities (`AssemblyProofs`)

`TypeOK` [`AssemblyTyped`], `RowsHoldTheirSecurity` [`RowsAreRight`], `BeyondNeedsALongerRequest`
[`OwnStaysInside`], `OwnEndIsComplete` [`OwnEndComplete`], `FramesAreNamed` [`FramesNamed`]. `AssemblyInv` adds
that rows and frames are answers that came, a frame under its own name (`OnlyAnswers`), and that
whatever came of the call's own answer is kept (`KeepsOwn`). `OwnEndIsComplete` is then a count: the own
parts fill as many frames as there are slots, by an injection, so none is left for another's.

### Live subscriptions (`SubscribeProofs`)

`TypeOK` [`SubscribeTyped`], `FreshNamesAreRight` [`FreshNames`], `InterruptUnsubscribes` [`InterruptLeavesNone`],
`FreshDeliversInOrder` [`FreshInOrder`], `NoForeignNoWrongName` [`WrongNamesAreForeign`]. `SubscribeInv` says of
every message in line that its correlation id is its security's place in the list if it is of the
running call (`Known`), that a call which found the session clean has no others (`OnlyOwn`), and that
of each of its subscriptions all messages from the one after the last handed over to the last sent are in line, in
order, over all events of the queue (`InOrder`).

### Objects and handles (`HandlesProofs`)

`TypeOK` [`HandlesTyped`], `ReachableIsLive` [`NoDeletedObjectIsUsed`], `DeletedOnce` [`NoDoubleDelete`],
`DefaultsPartOneAtATime` [`DefaultsPart`]. `HandlesInv`: an object that a pointer owns is live and was never
deleted, none was deleted twice, and whatever a call can be given is owned. "Reachable is live" alone
does not survive the collector, which looks at owners, not at who can reach what.

### Data frames (`FramesProofs`)

`TypeOK` [`FramesTyped`], `ReturnedKeepsEveryValue` [`ValuesKept`], `MisreadNeedsMixedTypes`
[`MisreadsNeedTwoTypes`], `OneTypeIsNeverRefused` [`OneTypeGoesThrough`], `ScanFindsFirst` [`ScanIsAsGoodAsAll`].
`FramesInv` says what is true in the middle of each phase: a column found so far is of the type of its
first element, and one not found has none so far (`Resolving`); a column being filled holds every value of
the rows passed, in storage that their types agree on or as text, and a column is missing only where
nothing is to be put (`Filling`).

### Dates, times and integers (`ValuesProofs`)

For columns of any length that begin at any number: `DatesAreConsecutive` [`ConsecutiveDates`],
`TimesKeepOrder` [`TimesInOrder`], `IntegersKeepOrder` [`IntegersInOrder`]. That two accepted numbers
with refused ones between them are a day apart needs an account of the refused ones: `Latest` is the
last day of the calendar not after a number, whatever its digits, and `ColumnInv` says that the last
date accepted is the latest of the number in hand, unless the years began again since. `LatestStep`,
that the next number's latest is one day on if it is accepted and the same if not, goes through
the digits (`NextDigits`), the days of a month (`WithinMonth`), its end, February's of leap years
among them (`March`, `NextMonth`), and the year's (`NextYear`), over the formula for the day number that the
model takes for boost's calendar. Neither the number of years nor the run's eight starts matter here.

### Assumptions, and what is only model-checked

Assumed are the constants' types: `SessionAssumption`, `FnsAssumption`, `CallbackAssumption`,
`AssemblyAssumption`, `SubscribeAssumption`, `HandlesAssumption`, `FramesAssumption`,
`HalfAssumption`, `ValuesAssumption`. TLC evaluates them in the
runs. TLC has also checked the inductive invariants as invariants, on the runs' instances, some of
them made smaller, and found no state outside them.

Only model-checked: liveness (`EveryCallEnds`, `CallEndsAmongTicks`, `WaitingHeals`,
`TerminationEndsCollecting`, `RefusalEndsBdh`, `InterruptNoticed`, `ExitFreesOwned`), out of the prover's
reach, though the safety that the ends of calls lean on is proved (`NoCallStarves`); and `ParsedKeepsItsPlaces` and
`LostForACause`, for `recursiveParse` is recursive, and what it makes of every message is an
induction over messages.

## 5. Not modelled

The strategy (no code); versions, build, generated glue; the bytes of requests (options and
overrides: data); wording and printing; R-side reshaping by xts, zoo and data.table; `bbgDateToPOSIX`
and `bbgDatetimeToPOSIX`, which end in the C library's `mktime()` and the machine's time zone; doubles
from 2^31 on given as dates (the cast to `int` has no defined value); fields named twice; the token
queue of `authenticateWithApp` beyond "a token or none"; a `subscribe()` inside the function of
another, which does not return while its subscription runs; a second message in an event of an
answer, which four of the loops would not read: the library is taken to send one.

## 6. Plan

1. What the liveness of `Subscribe`, and the end of the loaders of `Frames` and `Assembly`, lean on: a
   measure that each step of a loop makes smaller.
2. `recursiveParse` as a machine with a stack in place of the recursive operators, so that
   `ParsedKeepsItsPlaces` has an inductive invariant.
