# roomzin-go in TLA+

A specification of the roomzin-go SDK: the connection handler that multiplexes
calls over one TCP connection, the client above it with its codec cache, and the
way of a request and its response through validation, encoding, framing,
parsing and the classification of errors. TLC checks the specification on small
instances, TLAPS proves all of its safety for every instance. The work
has three aims: to say precisely what the SDK promises to its callers, to show
where the code keeps the promise under every interleaving and for every input
of a kind, and to show where a comment or the README says something the code
does not do.

The module for a component is named after it and holds its state and its
actions; `<Component>Properties` holds fairness and properties, `MC<Component>`
what TLC needs, `<Component>Proofs` and `<Component>Refinement` the theorems;
`Loops` holds what the proofs about loops share.
`PROJECT.json` maps definitions to source lines and lists runs, mutants,
findings and hazards.

## 1. The system

| component | source | state | operations |
|---|---|---|---|
| connection handler | `internal/client/handler.go` | `conn`, `nextID`, `mu`, `closed`, `demux`, `ctx`, `keepaliveStop`; a read loop per dialled connection; a keepalive goroutine in cluster mode | `NewHandler`, `Execute`, `reconnect`, `readLoop`, `failAll`, `keepaliveLoop`, `Close` |
| client | `pkg/client/client.go` | `codecs` (no lock) | `New`, `Close`, `GetCodecs`, ten write and seven read methods, `OnReconnect` |
| frames | `internal/protocol/frame.go` | none | `PrependHeader`, `PrependRouterHeader`, `BuildKeepaliveFrame`, `DrainFrame`, `ParseFields` |
| commands | `internal/command/*.go` | none | a `Build…Payload` and a `Parse…Resp` per command (`GetSegments` has no method in the client) |
| request validation | `pkg/types/request.go`, `codecs.go` | none | `Verify` of each payload, `ValidateDate`, `ValidateRateFeatures` |
| dates, features, ids | `internal/protocol/helpers.go` | none | `U16ToDate`, `BitmaskToRateFeatureStrings`, `BytesToPropertyID` |
| errors | `pkg/types/err.go` | none | `RzError`, `classify`, `Is…` |
| configuration | `pkg/client/config.go` | the builder's | `With…`, `Build` |

How they interact. A method of the client fills the codec cache if it is empty,
verifies its request, builds a payload and calls `Execute`. `Execute` takes a
fresh id, puts a channel under it into `demux`, writes the frame without the
lock, and selects on the channel, the caller's context and a timer. The read
loop takes frames off the connection, finds the channel by the id and sends the
result. A failed write or a timeout closes the connection, dials another and
starts another read loop. A read error sends an empty result to everybody in
`demux` and calls `OnReconnect`, which empties the codec cache. `Close` cancels
the context, closes the connection and all channels.

What is hard. Callers, read loops, the keepalive and `Close` share `demux`,
`conn`, channels and one lock. `h.conn` is read outside the lock by every
`Execute` and by every turn of every read loop. The lock is held across a dial
and across the write of the keepalive. Channels are sent on and closed outside
the lock. The codec cache is read and written by all methods and by read loops,
with no lock at all. The connection can be lost at any moment, and a request
whose answer was lost may have been executed.

What makes it correct. *Handler*: no answer is given to another call, no call
is forgotten, no request is executed twice, a request reported as unsent is
never executed, neither entries nor connections leak, calls and `Close` end;
request ids, which wrap around, never lead an answer to another call.
*Client*: no success without a SUCCESS of the router, methods return, the
cached codecs are older than the last reset only if it overtook their fetch. *Validation and encoding*: what `Verify`
accepts, Build can encode, and nothing the caller has set is left out. *Frames*:
what was written is read, and a reader stops where the next frame begins.
*Parsing*: what is not a success is an error that keeps its code, an odd
response is an error. *Errors*: the kind says where an error comes from.

## 2. Modules

Most modules also hold, next to some definitions, one marked "A fault": the
definition as a plausible mistake would have it. It is part of no specification;
`PROJECT.json` ("mutants") puts it in the place of the definition to see that
the property named there notices.

The modules in three groups, each checked and proved by itself:

- `Rpc`, `Handler`, `HandlerProperties`, `MCHandler`, `HandlerProofs`,
  `HandlerRefinement`, and `Ids`, `MCIds`, `IdsProofs`: the connection handler;
- `Client` (over `Rpc` and `Responses`), `ClientProperties`, `MCClient`,
  `ClientProofs`, `ClientRefinement`: the methods and the codec cache;
- `Dates`, `Features`, `Errors`, `Requests`, `Wire`, `Responses`, put together
  by `MessageCheck`, with `MessageProperties`, `MCMessages`, `Loops`, `WireProofs`,
  `MessageProofs`: one request and its response.

### The handler

**Rpc** — what `Execute` promises to the layer above. A call runs at most once;
it returns `answered` (it ran), `damaged` (it ran, but the answer was torn on its
way), `refused` (closed, or its write failed: it will never run), `failed`, or
`void` (a nil error and no response). After the last two, its request may have
run, or may still run.

**Handler** — `handler.go`, step by step. A step is a critical section, an
access to a shared field outside the lock, or a blocking operation. The pc of a
call names the point in `Execute`: `lock` (NextID done) → `load` (registered,
about to read `h.conn`) → `write` → `wait` (the select) → `clean` → `recon` →
`dial` → `done`; `rpc[r]` does the same for the read loop that the dial of
connection `r` started (`top`, `load`, `header`, `payload`, `lookup`, `send`,
`fail`), `kpc` for the keepalive. `mu` is explicit because the dial and the
keepalive's write keep the lock over a step. `chan[c]` is the channel of call
`c` together with what was sent on it, since every send is followed by a close
and a closed channel yields the empty result. A connection is `open`, `broken`
(by the peer) or `closed` (by the client); `out`, `got`, `inq` are the frames on
their way to the router, those it executes, and the answers on their way back;
answers come in any order. `Close` of the client is two steps, `Cancel` (the
context) and `Close` (the handler). The self-heal branch of `Execute` is left
out: `h.conn` is never nil once `NewHandler` returned.

When two read loops read one connection, they tear its frames apart.
`stream[k]` says where the next byte lies: at a `header`, in a `payload`, or
`torn`. A reader that starts a frame inside a payload meets a bad magic byte; a
payload from which another reader took bytes, anywhere in its middle, is
completed with bytes of the next frame, and passes the length checks or not
(`ReadTornPayload`). If it does, it is delivered with the id of its call, and
what its status and fields then are is the business of `Client` (`Torn`).

**HandlerProperties** — fairness, safety, refinement of `Rpc`, liveness, and
what documentation says and the code does not do.

**Ids** — request ids over a life of any length. `Handler` hands out each id
once; here the counter wraps, and callers call again and again. A call, and a
frame of it, has an *age*, the number of ids handed out since its own, which
tells calls of the same id apart; the program has no such thing. A call is
`NextID`, `Register`, `Write`, then `Receive` or `GiveUp` and `Cleanup`; answers
come in any order or never (`Deliver`, `Lose`), `FailAll` ends everyone, and the
answer of the router to a keepalive, if it sends one (`AnswersKeepalive`: the
repository does not say), carries the id 0 of the keepalive (`DeliverBeat`).
`NextID` waits while something alive is `Window` ids old.

### The client

**Client** — `client.go` over `R == INSTANCE Rpc`. Every access to the cache is
a step: `Check` reads it, `Fetched` gets the answer of the router out of
`Execute`, `Store` overwrites the cache with codecs or nil, `Use` reads it again
(`return c.codecs`).
`SearchAvail` and `GetPropRoomDay` pass through this twice, the second time
before they parse their answer (`stage`). `OnReconnect` empties the cache at any
moment. Codecs are numbered by the resets before the router answered the fetch
(`reply`, set when the router executes it), not before `Execute` returned: an
answer can lie in the channel of its call while `failAll` and `OnReconnect` run.
`Verify` accepts or refuses any request, and panics if the method looks up rate
features in nil codecs. A method gets out of `Execute` the answer of the router
(`Answers`), what is left of one that was torn (`Torn`, which may still say
SUCCESS), or the empty response (`Response`). The write and read methods have
one shape, so one action stands for the same step of all of them; the source map
gives for each step its lines in one of the methods, and all of them for
`MethodStep` and `Writes`.
**ClientProperties** shows among other things that a method does to its request
what `Rpc` says (`RefinesRpc`), now without `void`: the empty response never
gets through.

`Handler` and `Client` are composed by `Rpc`: `HandlerProperties!RefinesRpc`
says that the handler implements it, and `Client` uses nothing else of the
handler but the calls of `OnReconnect`, which it allows at any moment.

### Requests and responses

The functions of the SDK that keep no state are operators, one per function of
the source, and one state machine leads every input through all of them.

**Dates** — `ValidateDate`, with the calendar and the zones of package `time` as
far as they are used, and `U16ToDate` with its base year. A date is three
numbers, of the calendar or not. `time.Now().Truncate(24 * time.Hour)` is the
last midnight in UTC and keeps the zone of the host, so that `AddDate(1, 0, 0)`
adds a year to the local date and keeps the local time. A clock therefore is
what the host shows of this midnight: its local date, the minutes that the zone
is ahead of UTC then (`now`) and a year later (`then`). `Today` and `LastDay`
are the two ends of the window in UTC, and `Beyond` counts the hour of summer
time in: the limit can lie an hour before the midnight of `LastDay`.

**Features** — `BitmaskToRateFeatureStrings`, whose mask has 24 bits.

**Errors** — `RzError`, `classify` and `codeOf`; an error is a kind and a code,
the text in front of its first colon.

**Requests** — a payload is a function from the parameters of its command to
values, `<<>>` for a nil pointer. `Valid` is `Verify` of all payloads, in the
parts the source has (texts, numbers, dates, rate features), `Build` the Build
functions, by the fields that each writes (`Schema`) and the condition under
which it does (`Told`), `Prepare` a method up to its call of `Execute`.

**Wire** — `PrependHeader`, `PrependRouterHeader`, `BuildKeepaliveFrame`,
`DrainFrame` and `ParseFields`, byte by byte, with one byte for the length of a
segment and four for that of a payload. `TakeApart` and `Response` are the
router and the shard at the other end, as README.md lays out the frames.

**Responses** — every `Parse…Resp`, as operators from the fields of a response
to `value`, `message` (the router's text), `error` (the SDK's own) or `panic`.
A field is reduced to what the code looks at: its id, type, length, the uint16
its data starts with, and whether its dates unpack. The same operators are the
parsers of `Client`.

**MessageCheck** — the exchange: the builder of the configuration (`Configure`),
a caller who sets parameters (`Change`) and calls the method (`Call`), the frame
that goes out (`Frame`) or an `Execute` that fails (`Fail`), a response that
grows field by field (`Answer`, `NextField`) and is parsed (`ParseResponse`),
with the error that the method returns. **MessageProperties** relates the
stages to one another.

## 3. Runs

### The handler

| run | instance | shows |
|---|---|---|
| HandlerStandalone | 2 calls, 3 connections | `TypeOK`, `AnswerIsOwn`, `NoEntryLeft`, `NoLostCall`, `OneConnection`, `PanicOnlyAfterClose`, `RefinesRpc` with everything that can happen: timeouts, ends of contexts, lost connections, reconnects, `Close` |
| HandlerLiveness | 1 call, 2 connections, keepalive, `FairSpec` | `CallsReturn`, `CloseReturns`, `KeepaliveEnds`, and the action property `KeepaliveOnCurrent` |
| Ids | 3 callers, 4 ids, window 3, answered keepalives | `TypeOK`, `OwnAnswer`, `Reachable` |

Bounds. `MaxConn` bounds the successful dials; a dial that may no longer succeed
can still fail, so that no run stops at the bound. With three connections each
of two calls can reconnect, so that the second closes the healthy connection the
first has dialled, and readers of old connections meet on the newest. With two
there is an old and a current one, and their readers. `LastID` is the number of
calls, for every call takes one id. With `SendBuf = 1` a connection is full
after one frame, so that a write, the keepalive's too, can block. The calls are
interchangeable (symmetry); liveness runs use none. Two calls with fairness are
beyond a few minutes; what the second call could do to the first, taking the
lock, filling the connection or reading its frames, the keepalive and the two
readers do as well. What the safety run shows of the standalone mode is proved
for the cluster mode too.

Four ids for three callers make every id come round while the others are in use,
the 0 of the keepalive too. The window is the assumption that makes wrapping
safe: a call ends by its timeout, its answer is delivered or lost with its
connection, and both within the time in which 2^32 - 1 other calls are made.
It cannot be weaker: with a window as large as the number of ids TLC finds
`Reachable` violated, for a call then takes the entry of the one that has its
id.

Fairness (`ClientFairness`). Every goroutine that can run runs. It is strong
where one waits for the lock, for a `sync.Mutex` hands itself to a waiter that
starves, and where one waits in `Write`, for `net.Conn` serves the writers of a
connection one after the other; a select between a tick and the end of the
context does not choose the tick for ever. Callers owe nothing: a call may not
be made, its context may not end, the client may not be closed.
`RouterFairness`: the router reads what it was sent. It owes no answer.
`CallsReturn` needs it, and `WriteBlocks` shows that it does.

### Requests and responses

| run | instance | shows |
|---|---|---|
| Messages | 19 commands; up to 2 parameters off a valid payload, 6 clocks, 3 registries of rate features; segments of 0, 1, 254 to 257 and 300 bytes; up to 3 fields out of 6, up to 5 for SearchAvail (out of 8) and GetPropRoomDay | of requests `EveryParameterTold`, `DateWindow`, `DatesComeBack`, `FeaturesComeBack`, `RefusalIsRequest`; of frames `FramesAligned`, `NeverMisrouted`, `BytesAgree`, `TornIsError`; of responses `StatusDecides`, `AvailExact`, `DamageContained`; of errors `KindSurvives`, `KindTellsWhere` |

Bounds. Every check of a Verify method looks at one parameter, or at one next to
the day or the codecs, and every Build condition at one parameter: two
parameters off the base are one more than a check reads, so that a refusal can
hide behind another. Each parameter has values on both sides of each bound that
the code compares it with, and its zero. The clocks are at the ends of February and
of the year, in a leap year and not, in UTC and in zones ahead of it and behind,
where the local day is another; summer time comes, goes or stays. The dates lie
around them and around a year
later. The registries are none, two names, and one more name than a mask has
bits. The alphabet of fields has, for each check that a Parse function makes, a
field that passes it and one that fails it; five fields are two properties of an
availability answer, or all that `GetPropRoomDay` reads. Responses are written
out as bytes up to two fields (`MaxBytesFields`), cut at every byte and given one
field or byte too many. What becomes of longer data, of more fields and of any
other payload is proved (section 4).

Assumptions, checked by TLC in the run: a segment has no byte 255, for it is a
text in UTF-8 (with one, a segment of more than 255 bytes could imitate a
shard frame); the keepalive's segment is shorter than 256; no frame is as long
as 2^31 (`MaxFrame`), no field of a response longer than 2^30 (`MaxData`); ids
and first numbers of fields have two bytes (`MaxUint16`), types one; codecs are
nil or a list of names; the dates of the clocks are of the calendar and their
offsets differ by less than a day; the base payload of a
command is one that `Verify` accepts; an error of `Execute` does not begin with
a code of the router. The id of the responses that are written out is `WireID`,
one of more than two bytes.

### The client

| run | instance | shows |
|---|---|---|
| ClientSafety | `New` and 2 calls of SetProp, SetRoomPkg, GetPropRoomDay, GetCodecs; answers, refusals and torn answers; 1 reset | `TypeOK`, `SuccessIsReal`, `PanicNeedsFailure`, `CodecsStay`, `RefinesRpc`, and the action property `StaleNeedsReset` |
| ClientLiveness | `New` and 1 call of any of 5 methods, 2 resets, `FairSpec` | `MethodsReturn` |

The methods stand for the classes that differ in what they do to the cache and
in how they parse: SetProp is validated with the codecs and has an unguarded
Parse function, SetRoomPkg looks rate features up, GetPropRoomDay decodes its
answer with the codecs, GetCodecs returns what it finds. SearchAvail, which does
both, is in ClientLiveness, and in the proofs. One reset between any two steps
suffices for safety, since a second only repeats the first for a later fetch;
liveness gets two. The fairness of the client (a method that can go on does,
`Execute` returns) is what `CallsReturn` says of the handler, with the same
assumption about the router.

`StaleNeedsReset` says what remains true of a cache without a lock. Once the
cache, the answers that are under way and the codecs about to be stored are of
after the last reset, they stay so until the next one. The hypothesis is needed:
codecs that the router sent before a reset, and that still lie in the channel of
their call, are stored after it, and nothing replaces them until the reset
after. The property speaks of resets and not of connections. A connection that
the reader of the one before it has taken over (`TwoReaders`) brings no reset,
and the cache then keeps the codecs of the connection before; nothing is claimed
of them.

### What documentation says and the code does not do

Each of these runs ends in a violation; the property quotes the sentence, and
the finding in `PROJECT.json` says where the code departs from it.

| run | what TLC finds |
|---|---|
| ClosePanics | `Close` closes a channel, then the reader that has taken its call out of `demux`, or `failAll`, sends on it |
| CloseLeaks | a call that times out during `Close` dials a connection that stays |
| TwoReaders | a read loop between two frames goes on with the new connection |
| WriteBlocks | the timeout does not cover the write |
| LossPanics | the empty response of a lost connection makes `SetProp` panic |
| CodecsNil | `GetCodecs` returns nil, nil |

Seen on the way, and not a run of its own:

- The panic of LossPanics takes `SetRoomAvl`, `IncRoomAvl` and `PropExist` too;
  the one of a nil cache takes `SetRoomPkg` and `SearchAvail` with rate features
  (`PanicNeedsFailure` says what has to fail first).
- A damaged frame is an empty list, and a success, to the commands of
  `FieldsOptional`.
- A fetch whose answer a reset overtakes puts old codecs into the cache, and a
  reconnect after which the old reader goes on with the new connection resets
  nothing; a failed keepalive starts no reconnect; `New` leaves its handler, with the connection
  and the goroutines, when the codecs cannot be fetched.
- "Beyond 365 days from today" (request.go:39) is neither: a date 366 days ahead
  is accepted if a 29th of February lies between, or is the local date of today
  (Los Angeles, 2025-03-02 on the UTC day 2024-03-01), and one exactly 365 days
  ahead is refused if the zone will be further ahead of UTC by then (Los Angeles,
  2027-11-05 on the UTC day 2026-11-05, when summer time has ended and then has
  not). `DateWindow` grants 364 days in this case.
- The base year of a packed date is the local one (helpers.go:43): an answer that
  was packed before midnight of 31 December is read a year later, and west of
  Greenwich one that was packed after midnight a year earlier (`DatesComeBack`
  says exactly this).
- The 25th rate feature of the codecs is accepted in requests and shown in no
  answer (`FeaturesComeBack`).
- A segment of more than 255 bytes breaks its frame, and only its frame: the
  router can tell, and the next frame is found (`NeverMisrouted`,
  `FramesAligned`).
- A timeout and a lost connection are errors of kind internal, so that a caller
  who retries by kind never retries them (`KindTellsWhere`); a request whose
  fate is unknown is never marked as one to retry.
- `SetRoomAvl` refuses the amount 0. `SetRoomPkg` writes an empty slice of rate
  features as an empty field and a nil one not at all. Names with commas cannot
  be told from two names once they are joined.
- The keepalive's default is 5 s in config.go:57 and 30 s in README.md:97. A
  keepalive of zero or less panics in `NewTicker`, in a goroutine of the
  handler. Durations are not modelled.

## 4. Proofs

Every safety property of the runs is proved, in eight modules, action properties
and refinements included. Only liveness is left to TLC.

Some of what is proved is about loops, which are recursive functions in the
model and end after any number of turns. The theorems of the library on induction
and on recursive functions take operators as parameters, which the provers here
cannot instantiate. `Loops` goes round them with sets: that `<` is well founded on
the natural numbers gives every set of them a least element (`Least`), and so a
set that has 0, and with each number the next, has them all (`Induction`,
`InductionUpTo`). A recursive function is shown to be what its definition says by
the set of those lengths for which such a function exists. `FlattenHeads` and
`FlattenItems` do so for the concatenation of sequences of the community modules.

### The handler

`HandlerProofs` proves, for any set of calls, any number of connections and
ids, any send buffer and both modes (assumptions `NobodyAssumption`,
`BoundsAssumption`, `ModeAssumption`, which TLC evaluates in every run):

- `TypeCorrect`: `Spec => []TypeOK`
- `SafeBeforeClose`: `Spec => []PanicOnlyAfterClose`
- `MapDoesNotLeak`: `Spec => []NoEntryLeft`
- `ConnectionsDoNotLeak`: `Spec => []OneConnection`
- `KeepaliveCorrect`: `Spec => KeepaliveOnCurrent`

None of the invariants is inductive alone. The invariant `IInv` adds: the current connection is
the last one dialled and all before it are closed (`LinkInv`); who holds the
lock across a step (`LockInv`), without which two dials could overlap; ids of
started calls are distinct and not beyond `nextID` (`IdInv`), which needs
`nextID` not to wrap; what is in flight belongs to calls that have started
(`OutInv`, `GotInv`, `InqInv`, `TurnInv`), so that a frame never meets a call
that has no id yet; an entry of `demux` is under its call's own id and, until
`Close`, has an open channel (`DemuxInv`); a reader about to send owns the
channel: no entry and no other reader has it (`SendInv`). `DemuxInv` and
`SendInv` together are why no send meets a closed channel, and their premise
`~closed` is where `ClosePanics` gets in. There is one lemma per group of
actions (callers, calls, readers, keepalive, router, `Cancel`, `Close`), one
case per action, one step per conjunct; `Inductive` puts them together.
`KeepaliveCorrect` is an action property and needs one fact more (`WriteInv`):
`Close` waits for the lock that the keepalive holds while it writes.

`HandlerRefinement` goes on from `IInv` and proves

- `AnswersNotCrossed`: `Spec => []AnswerIsOwn`
- `NoCallForgotten`: `Spec => []NoLostCall`
- `HandlerImplementsRpc`: `Spec => RefinesRpc`

Its invariant `RInv` follows the one request of a call and its answer. A request
is on its way at most once, and no more once it was executed (`OnceInv`); it has
not been written before the call waits, nor by a call that ends as refused
(`UnsentInv`); what comes back belongs to requests that were executed
(`ServedInv`); a reader that found a channel found the one of the call whose id
the frame carries (`OwnInv`, from `IdInv` and `DemuxInv`); what lies on a channel
is the owner's answer and stays there (`AnswerInv`, for which `EndInv` says that
no call has an outcome before it ends). `NoLostCall` needs that a dial starts a
reader that did not run before (`ReaderInv`). The refinement then is short:
`NextID` is `Invoke`, the router taking a request off a connection is `Run`, the
step that ends `Execute` is `Return`, and everything else is a stutter.

`IdsProofs` removes the premise that ids do not wrap from "no answer goes to
another call": for any callers, any number of ids and any window below it
(`CallersAssumption`, `WindowAssumption`, `KeepaliveAssumption`),

- `TypeCorrect`: `Spec => []TypeOK`
- `AnswersMeetTheirCalls`: `Spec => []OwnAnswer`
- `WaitingCallsAreFound`: `Spec => []Reachable`

The id of everything alive is the one that was handed out as many ids ago as it
is old (`Numbered`), and no two calls are of one age (`AgesDiffer`). Within a
window smaller than the number of ids, different ages have different ids
(`BackInjective`). So an entry belongs to the call whose id it is under
(`EntryIsOwn`), registering overwrites nobody and cleaning up removes nobody
else.

### The client

`ClientProofs` proves, for any set of calls and methods, any number of resets
and any answers of the router,

- `SuccessCorrect`: `Spec => []SuccessIsReal`
- `ClientTypeCorrect`: `Spec => []TypeOK`
- `CodecsNotLost`: `Spec => []CodecsStay`
- `StaleCodecsNeedReset`: `Spec => StaleNeedsReset`
- `PanicsHaveCauses`: `WellFormed` implies `Spec => []PanicNeedsFailure`

The first rests on `ParseDecides` (whatever the fields are, no Parse function
returns a value unless the status is SUCCESS) and on an invariant that says that
a response at hand is either `NoResponse` or the answer, whole or damaged, to a
request that was executed. The next three follow the number of the codecs from
the router's answer through a fetch into the cache (`Numbers`, `Started`,
`CacheFull`): nobody stores nil or an older number while no reset intervenes. `WellFormed` says that the router answers a command with
what its Parse function reads; without it, four Parse functions panic on a
SUCCESS without a field, and no cause need come first. The answers of the runs
satisfy it.

`ClientRefinement` proves `ClientImplementsRpc`: `Spec => RefinesRpc`, with an
invariant that says that a request was not sent before the method waits
(`NotSent`), that a method that says "refused" was refused (`Told`), and that
nothing runs that was not sent (`NotRun`). With `HandlerImplementsRpc` below it,
a method that returns no error has had its request executed exactly once.

### Requests and responses

`WireProofs` is about any bytes (`Byte` is `0..255`):

- `ResponseDrained`: `DrainFrame` finds in a response what the shard put there,
  and leaves what follows on the connection
- `RouterTakesApart`: the router finds in a frame what the SDK put there, if the
  segment has at most 255 bytes; if it has more and none of them is 255, the
  router sees that the frame is broken; in both cases it finds the end of the
  frame
- `TornFrameLost`: no beginning of a frame is taken for a frame
- `FieldsReadBack`: `ParseFields` reads any number of fields of any length as
  they were written if their count is right, and reads not one if the count is
  wrong, if up to six bytes follow, or if the last byte is missing

The first three rest on the lemma that two and four bytes of a number give it
back, and on `FiveParts`, which says where the parts of a concatenation lie. The
last follows the loop of `ParseFields` turn by turn (`Turns`): as long as what
stands at the offset of a turn is a field, the turn reads this field and leaves
the offset at its end; a turn with less than a header, or less than a field,
before it fails, and no later turn recovers.

`MessageProofs` proves, for any payloads, clocks, registries, segments and fields
that the assumptions of `MessageCheck` admit,

- `RefusalsAreRequests`: `Spec => []RefusalIsRequest`
- `ParametersAreTold`: `Spec => []EveryParameterTold`
- `DatesLieInTheWindow`: `Spec => []DateWindow`
- `DatesSurvive`: `Spec => []DatesComeBack`
- `AllowedFeaturesComeBack`: `Spec => []FeaturesComeBack`
- `NextFrameIsFound`: `Spec => []FramesAligned`
- `NothingIsMisrouted`: `Spec => []NeverMisrouted`
- `AnswersAreReadAsWritten`: `Spec => []BytesAgree`
- `TornAnswersAreLost`: `Spec => []TornIsError`
- `OnlySuccessIsValue`: `Spec => []StatusDecides`
- `AnswersAreExact`: `Spec => []AvailExact`
- `DamageYieldsNothing`: `Spec => []DamageContained`
- `VerdictsSurvive`: `Spec => []KindSurvives`
- `KindsTellWhere`: `Spec => []KindTellsWhere`

The invariant `IInv` says what each stage has left behind: a payload has the
parameters of its command, and dates in it (`Typed`); a request that was built
was accepted by `Verify` by one of the clocks, with one of the registries, and has
the fields of `Build`, and one that was refused was not accepted (`Requested`);
a frame is one of the three that the SDK writes (`Framing`); a result is the one
of the Parse function, and an error has one of its five sources (`Ended`); a
response is made of the fields that one to its command may have (`Responding`).
The properties of a stage then are theorems about its functions:

- *What a request tells.* The fields of every command are numbered from 1 on
  (`SchemaNumbered`), and those of a built request are the ones of the parameters
  told (`BuildItems`). So two requests with the same fields under the same ids
  tell the same parameters (`NotApartSame`), and a list, or a parameter left
  out, that is written alike means the same (`WrittenIsMeant`, `UntoldIsSame`).
- *Dates.* `DayNumber` counts years from March on, so that the 29th of February
  is the last day of one. A year is 365 days long, or 366 if the next has a 29th of February
  (`YearLength`), and years and months follow each other without overlap
  (`YearsApart`, `MonthsApart`); hence the order of dates is that of their
  numbers (`BeforeIsLess`), `AddDate(1, 0, 0)` is 365 or 366 days ahead
  (`NextYear`), and the day after a date has the next number (`DayAfterIsNext`).
  So the window has 365 or 366 days by every clock (`DayInUTC`, `WindowLength`),
  and `WindowDays` puts this into the terms of `ValidateDate`. That
  a request is not refused for good dates needs besides that `Verify` looks at
  each parameter on its own (`GoodDatesAreValid`). `DatesSurvive` needs that a
  date `Verify` accepts is at most one year past the year of the day in UTC
  (`LastDayYear`, `WindowYears`), since the packed year is an offset.
- *Features.* `NamedNames` says which names a mask keeps.
- *Answers.* `AvailAcceptsExactly` says what the loop of `ParseSearchAvailResp`
  accepts, whatever the fields are: from any place on, it succeeds if and only
  if pairs of a property and its days are left (`PairsStep`, `LoopFindsPairs`).
- *Answers as bytes.* `ResponseDrained`, `TornFrameLost` and `FieldsReadBack`,
  for the fields that a response may have.

### Only model-checked

All liveness: `CallsReturn`, `CloseReturns`, `KeepaliveEnds` and `MethodsReturn`.
Temporal reasoning with fairness needs `ENABLED`, which is out of the prover's
reach.

## 5. Abstractions

- Data. In `Handler`, the payload of an answer is the name of the call it
  answers.
- Torn frames. A frame from which another reader took bytes is one that the
  router sent for its call: its id is whole, its status may be, and its fields
  are any (`Torn`). Two things are left out: that bytes of two frames make up a
  status `SUCCESS` which the router did not send (they read as a status nobody
  knows), and that the nine bytes in front of a payload are torn and still begin
  with the magic byte (they end the reader).
- Zones. A host shows any minute of the day at midnight in UTC, and its zone may
  change by less than a day within a year; zones that were moved across the date
  line are left out. The router's year of a packed date is that of the day in UTC.
- Time. A timer may fire at any moment; the durations are not modelled. An
  answer that is ready and a timer that fires may both be chosen by the select.
- Reading `c.codecs` and writing it without a lock is modelled as atomic
  accesses of one word, which is what the supported machines do with a pointer.
- The context of `fetchCodecs` is the client's, that of a method its caller's:
  in `Client`, both show as `Execute` that returns `failed`.
- `ErrConnClosed` and the error of a write are `refused`; a write error leaves
  at most a part of a frame on its way, which the router cannot execute.
- In `Requests`, coordinates are whole numbers, a name is the sequence of its
  pieces between commas, and the name of the command that stands in front of the
  fields is left out. In `Errors`, an error is its code; its wording is left out.
- A connection that breaks is, to a reader, the bytes before the break. `Wire`
  reads one connection with one reader; two readers are in `Handler`.
- What the router packs into a date or a mask (`Pack`, `Mask`) and how it takes a
  frame apart (`TakeApart`) is taken from how the SDK reads and writes them.

Not modelled: `BytesToPropertyID`, since what the server packs into the sixteen
bytes is nowhere in the repository and there is nothing to compare it with; the
result types, which are declarations; the smoke example, which calls every
method once; `LoginPayload.Verify`, which nothing calls; durations and the
values that a parsed answer holds. `PROJECT.json` lists the hazards that stay
without a property, and why.

## 6. Plan

Done: all components but those above, each with its runs; all safety of the
handler, of ids and of the client proved, both refinements of `Rpc` included,
and so is all that is said of frames, requests, responses and errors.

What could follow, in this order:

1. A composition of `Handler` and `Client` in one state space: `failAll` before
   `OnReconnect` (so that a call may refill the cache before it is emptied), and
   `New` that fails and leaves its handler behind. `Client` allows more orders
   than the handler has, so its safety holds of the composition; what would be
   new is which of its counterexamples the orders of the handler exclude.
2. The codecs of a request compared with those its answer is decoded with, when
   the registry of the router changes in between.
3. Property ids, if the packing of the server becomes known.
