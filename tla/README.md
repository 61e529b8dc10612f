# Verification of hax-go

TLA+ specifications of hax-go: the Go SDK of the HAX (Human Approval eXchange)
API and the reference server it is tested against. The modules are written from
the code in `src/`; TLC checks them on small instances and TLAPS proves most of
their safety properties for every value of the constants.

Contents: [the system](#the-system), [modules](#the-modules),
[runs](#the-runs), [fairness](#fairness), [proofs](#the-proofs),
[what the code does otherwise than it says](#where-code-and-text-disagree),
[what is left out](#what-is-left-out), [plan](#plan).

## The system

An agent asks a human for an approval: `POST /requests` stores a request, the
human opens its page (`GET /hub/r/{id}`) and answers it, the agent polls
`GET /requests/{id}` or is told by a webhook.

| component | state | operations | where |
|---|---|---|---|
| In-memory store | `requests`, `order`, `knockStatus`, `settings`, one `sync.RWMutex` | `put`, `get`, `getAndExpire`, `markOpened`, `list`, `releaseHeldRequests`, `get/setKnockStatus`, `expireExpired` (never called) | `server/store.go` |
| Request handlers | the `*storedRequest` they keep after the unlock | create, get, update (cancel), response, admin respond, list, health | `server/handlers.go` |
| Hub pages | the same | view, respond by form | `server/ui.go` 22-172 |
| Knock flow | `knockStatus` by workspace and DID | knock check of a creation, knock status, admin's verdict, release | `handlers.go` 103-138, 305-341, 379-400; `store.go` 155-210 |
| Webhook dispatch | a goroutine per event, holding the live request | dispatch, send once | `server/webhooks.go` |
| Rate limiter | hits by IP address, a mutex | `allow`, the middleware's headers | `server/ratelimit.go` |
| Listing in pages | the copy of the list | page, cursor | `handlers.go` 160-205 |
| Settings, types | a map; a constant catalogue | set/get, filter | `handlers.go` 277-375, `types.go` |
| Server | routes, CORS, `http.Server` | start, shutdown | `server/server.go` |
| Authentication | none | API key, or JWS of a DID | `server/auth.go` |
| Renderers | none | HTML | `server/renderers.go`, `ui.go` |
| SDK client, transport | an `http.Client` | one call per endpoint, two polling loops, error mapping | `client.go`, `http.go`, `errors.go` |
| SDK forms | a builder, a form handle | fields, hidden values, parsing, getters | `formbuilder.go`, `formrequest.go` |
| SDK identity | `identity.json` | load, mint, save | `identity.go` |
| SDK DID, encryption, webhooks | none | base58, JWS; RSA; HMAC, `ParseEvent` | `did.go`, `crypto.go`, `webhooks.go` |

How they interact. Each HTTP request runs in a goroutine of net/http. It passes
the limiter, then authentication, then a handler. Handlers call the store, whose
operations lock `store.mu`; but `getAndExpire` and `get` return a pointer to the
stored struct, and the handlers go on reading and *assigning* its fields after
the unlock. `dispatchWebhook` starts a goroutine that reads the same struct
later still. The client polls; it shares nothing with the server but HTTP.

### What is hard here

* Fields read and assigned without the mutex (`handlers.go:254-266`, `ui.go`,
  `webhooks.go:17`): lost updates, torn two-word strings, an answer in the clear
  between two assignments.
* Check-then-act over several locked calls: page views (`ui.go:30`), the knock of
  a creation (`handlers.go:116-130`), the status call (`handlers.go:328`).
* Expiry on demand: only a call that looks at a request expires it, and the reply
  is read after the unlock.
* Paging over a list that grows.
* A limiter that forgets, and headers written after its unlock.
* On the client's side: polling loops with timeouts, replies that are lost, a
  server that restarts empty; an identity file shared by processes that may stop
  in the middle of a write.
* Long ways of data, each stage of which is simple: a form field through page,
  browser, parser, encryption and two decoders; a key through base58 into a DID and
  back; a passphrase through a stream of hashes to two primes and a key pair.

`PROJECT.json` lists these hazards one by one, each at its line with the
properties that are about it.

### What makes each component correct

* Store and handlers: a request is opened once; nobody hears "expired" before the
  deadline or "pending" after it; "completed" comes with the response; a
  completed request stays so; with a public key no response is shown, or left, in
  the clear; every call is answered.
* Knock flow: nothing gets through that nobody accepted; nobody is forgotten who
  was accepted; with automatic acceptance nobody waits.
* Limiter: no more than the limit in any window; the headers keep their word.
* Pages: a walk misses nothing and ends.
* Client loops: they return, in time, and a timeout means that there was no
  answer; "not found" means that the server forgot.
* Identity: a client that ran alone keeps the DID it got, whatever others do later
  or leave half-written.
* Forms: what a human enters in a field with an id of its own, or in a control
  inside the `<form>` of a fixed page, is what the agent's typed getters return, by
  polling and by webhook; so is the preset of a hidden string. (Hidden values of
  other types and the findings of a PR review do not come back: runs `presets` and
  `unposted`.)
* DID and authentication: one text for each key; a call of the SDK is served exactly
  when it is signed with the DID's key, as it was signed, or has the server's API key.
* Encryption: one key pair for each passphrase, after restarts too, and it decrypts
  what it encrypts.

## The modules

### RequestStore

`storedRequest`, the mutex, the handlers and the webhook goroutines, at the grain
of single assignments.

| TLA+ | code |
|---|---|
| `attr[r]` | what `handleCreateRequest` fixes: `ExpiresAt`, `PublicKey`, `WebhookURL`, delivery; None until `put` |
| `ptr[r]`, `len[r]` | the two words of `r.Status`; `StatusOf` is what a reader finds, `Torn` when the words do not fit |
| `resp[r]`, `by[r]` | `r.Response` (by whom, encrypted or not), `r.RespondedBy` |
| `mu` | the write lock of `store.mu`; a read lock is a guard `mu = None` on a step |
| `op`, `pc`, `tgt`, `want`, `todo`, `visit`, `body` | a handler's place and locals; `todo` are its assignments not yet visible |
| `clk[h]` | the `now` that `list` reads once; for a GET a history variable, the time it got the lock |
| `reply[h]`, `event[h]` | what `requestToMap` has read for the reply and for the webhook body: status first, response later |
| `Create` | `handleCreateRequest` and `put` |
| `GetAndExpire`, `CheckClock`, `LockedStore` | `getAndExpire` and `expireLocked`: status, then clock, then the assignment, then the unlock |
| `MarkOpened` | `markOpened` and `handleUIRequest`'s test of the status |
| `Sweep`, `Visit`, `SweepEnd` | the loops of `list` and `releaseHeldRequests` |
| `Reject`, `Respond`, `Patch`, `UnlockedStore` | the bodies of the three answering handlers and of PATCH |
| `Dispatch`, `SendWebhook`, `ReadReply` | `dispatchWebhook`, its goroutine, the reply |

Each member of `Handlers` serves one HTTP request. A caller knows an id only from
a reply to a creation or a list (`Known`). `ProgramOrder` says whether the stores
of a goroutine become visible in program order (x86) or in any order (what Go's
memory model leaves open for racing accesses, and arm64 does); the two words of a
string come in either order in both cases. `"long"` stands for a response that
`EncryptWithPublicKey` refuses (over 190 bytes for RSA-2048), whose error the
handler drops; `"empty"` for a nil map (an admin's body without response, or a
generic form whose JSON is `null`). A list goes on to read the requests of its
page, of which the model follows any one. `releaseHeldRequests` releases any set
of requests here; which set is KnockFlow's matter.

`PATCH` takes any string as a status. The SDK sends "cancelled", and
`PatchAssumption` says that no caller sends "pending", "held" or "expired"; all
theorems about RequestStore depend on it (a caller that PATCHes a request back
to "pending" obviously opens it twice). `GetIsFresh` and
`ImplementsLifecycle` are proved under more: that callers PATCH to an outcome
("completed" or "cancelled") only, as the SDK does.

### RequestLifecycle

What becomes of a request, seen from outside: which status may follow which, and
the cause it needs (a deadline that has passed, a hold, an earlier opening). It is
written for what the code does with its races: an outcome that an answer or a PATCH
has stored may be overwritten by a section of the store that has tested the status
before. RequestStore implements it (`ImplementsLifecycle`) with `terms` <- the
deadline and the hold in `attr`, `status` <- the pointer word `ptr` of the status
("absent" before `put`), `opened` <- the requests for which an opener's test has
succeeded and whose "opened" is stored. The length word takes no part: it
tears what is read, never what comes next.

### KnockFlow

The same server seen by knock: the steps are the store's locked operations, and
the handlers are sequences of them (`CheckKnock`, `FirstKnock`,
`AutoAcceptKnock`, `Put` for a creation; `ReadStatus`, `FirstKnock`,
`AutoAcceptKnock`, `Release` for a status call; `SetVerdict`, `Release` for an
admin). `autoAccept` is the server's option, fixed before it starts: a variable that
no step changes, so that one run and one proof cover both. `KeyOf` is the handlers'
"default" for an absent workspace; `Release` compares what `releaseHeldRequests`
compares. `""` as a DID stands for a caller with an API key, who needs no knock.
`told` and `late` are history variables. A stored request goes by the name of the
handler that stored it.

RequestStore and KnockFlow cut the same component in two: RequestStore takes the
outcome of the knock (`held`) from the body's shape and lets any release happen at
any time, which covers whatever KnockFlow does.

### SlidingWindow and RateLimiter

`SlidingWindow` is what a limiter promises if it remembers everything.
`RateLimiter` is the code: `Allow` and `Deny` are `allow` under the mutex, which
forgets the hits up to the cutoff; `Refuse` is the middleware's 429 branch, which
reads the clock again. A hit is a number and a time, so that two calls at one tick
are two; `log` is a history variable. The refinement maps `log` to `log`.
`Limit` is positive: without a limit there is no limiter (`server.go`).

### Pagination

`handleListRequests`' paging and a walker that follows `nextCursor` while
requests are created. Requests go by their place in the order of creation, which
nothing removes; `Page` is the cursor loop and the cut. The SDK itself fetches one
page; the walker is what the cursor is for.

### Polling

The SDK's two waits (`WaitForResponse`, `WaitForAcceptance`) and a creation, over
`doRequest`. The agent is in one call at a time (`call`, `pc`): an HTTP call is
out, or it sleeps. `timer` is what is left of either; `elapsed` is
`time.Since(start)` of a wait that looks at it (`Timed`): the loop of a wait without
a timeout never does, and may go on for ever. `Tick` is a tick of the clock, which waits for a timer that is
due to be served. The server is one step a call here (`ServeKnockStatus`,
`ServeCreate`, `ServeGet`), because its races are in the other modules; it may
refuse any call with any code (`Refuse`), be slow, or `Restart` with an empty store;
`Lose` is a call or a reply lost, or the HTTP client's timeout, whether or not the
server has served the call. `ErrorType` is `handleErrorResponse`. Humans and admins
act at any time (`View`, `Finish`, `Admin`). `over` counts for how long a poll could
have ended the wait, `forgot` says that the server restarted: history variables.

### IdentityFile

Runs of `NewClient` without a DID of their own: `Load` tries the files in
`LoadIdentity`'s order, `Truncate` and `Write` are the two steps of
`os.WriteFile`, `Fail` is an error or a process that stops anywhere. All
processes share one environment `HAX_IDENTITY_FILE`: they are runs of one user,
and with another environment a client of course finds another file. An
identity is named after the process that minted it; a file is absent, cut short
or holds one. `alone` and `rivals` are history variables.

### Forms

The way of a value: the builder's methods (`Add`, `Hidden`), or the fixed controls
of an approval, a plan review, a PR review and a generic request; the page and
what a browser sends for each control (`Entries`, external: HTML's rules);
`buildResponseFromForm` and `parseFieldValue`; encryption with what decides it
(the client's keys, and whether the response fits the key); decryption on the two
ways to the agent, `DecryptResponseField` for polling and `ParseEvent` for the
webhook; `ParseResponse` and the getters. A value is a type with the words it is
written in, which is what the stages tell apart: "on" is both a checkbox's value
and something a human may type, "" is what an empty field and a missing one give.

### DidAuth

base58btc both ways, `did:key` both ways, the claims of a knock JWS, and
`verifyAuth` with `verifyJWSPayload`. The algorithm runs over bytes below 4 and
digits below 3 instead of 256 and 58 (`ByteBase`, `TextBase`): its carries,
leading zeros and length rules are the same, and every text of a DID and every
one-character miscopy of it (changed, lost or put in front; `Stranger` is a
character outside of the alphabet) is tried. An Ed25519 signature is ideal: it
verifies with the key that made it, for the claims it was made for. The calls are
those that the SDK signs, and `SignKnockJWS` writes all three claims. Of a JWS that
leaves one out, `verifyJWSPayload` does not compare it (`auth.go:72-80`), so that it
would pass for any value of it. No such JWS is in the model, and `ServedAsSigned`
and its proof say nothing of one.

### KeyMaterial

The seeded stream, `generatePrime` with `millerRabin`, the numbers that
`GenerateKeyPair` computes, and encryption without padding, over primes of 5 bits
instead of 1024. SHA-256 of a place in the stream is an arbitrary word, chosen
when somebody first draws it and the same for everybody with that passphrase; a
draw takes a word that is as long as a prime. The renewal of the stream's
state every 256 blocks is a change of names of the places and leaves no trace.

### MC modules and proofs

`MC<module>.tla` gives the constants their values; `<module>_proofs.tla` holds the
theorems. RequestStore has two: `RequestStore_proofs` (types, locals, the mutex,
expiry, opening) and on top of it `RequestStore_outcome_proofs` (the response,
freshness, the lifecycle). `Algorithms_proofs` is about KeyMaterial, Forms and
Pagination, on top of `DidAuth_proofs`, whose first part is induction.
`MCAlgorithms` puts Forms, DidAuth, KeyMaterial and Pagination, which share no state,
into one run: `machine` says which of the four a behaviour is about. IdentityFile is
run as it stands.

## The runs

All configurations turn the deadlock check off: handlers serve one call, the clock,
the number of requests and the length of the stream are bounded, so the modelled
system does stop. That nobody is stuck before its end is `EveryHandlerAnswers`,
`WalkEnds` and `WaitsReturn`.

| run | what it shows | bounds |
|---|---|---|
| fresh | `GetIsFresh`, `ExpiredAfterDeadline`, `CompletedHasResponse`: replies agree with the deadline and with the answer | 1 request, 4 handlers, clock to 2, deadline 1 |
| everything | `TypeOK`, `IInv`, `OpenedOnce`, `PlainOnlyWhileResponding`, `CompletedEventHasResponse` with key, webhook and delivery, stores in any order, and all endpoints but POST `/response`, whose steps are those of the hub page's form without a null answer | 1 request, 3 handlers, no clock |
| answers | `EveryHandlerAnswers`: all paths unlock, under fairness; `ImplementsLifecycle`: every change of a status, PATCH and races included, has its cause | 1 request (held or not), 3 handlers, clock to 2 |
| knock | `TypeOK`, `PendingWasAccepted`, `OnlyRacersStayHeld`, `AutoNeverWaits` | 4 calls of any kind, 2 workspaces (one absent), 1 DID and an API key, with and without automatic acceptance |
| window | `TypeOK`, `RetryAfterSuffices`, `RemainingIsFree`, `AdmitsAtMostLimit`, `ImplementsWindow` | 1 address, 2 handlers, limit 2, window 3 ticks, second 2 ticks, clock to 6, 4 admitted calls |
| polling | `TypeOK`, `ReturnsInTime`, `TimeoutMissesNothing`, `NotFoundMeansForgotten`, `WaitsReturn` | 1 request at a time; no lifetime, 0 or 3 ticks; interval 1 (default) or 2; no timeout, 2 or 3 (default); HTTP timeout 2; three refusals, one of each class |
| identity | `TypeOK`, `IdentityIsStable`, `OverwrittenOnlyInRace` | 3 processes; no, two other and the default file as option and as environment |
| algorithms | `FormTypeOK`, `RoundTrip`, `PollAndWebhookAgree`; `DidTypeOK`, `OneDidPerKey`, `ServedAsSigned`; `WitnessesTell`, `PairDecrypts`, `KeysAgree`; of the walk over the pages `TypeOK`, `NoGaps`, `LastPageCompletes`, `WalkEnds` | 2 fields, 2 ids; 2-byte keys, byte strings to 3; 5-bit primes, 2 processes, 5 draws; 9 requests, limits 0..5, default 3, maximum 4 |
| taken_back | `CompletedStays` is violated | 3 handlers |
| overwritten | `AcceptedCanSend` is violated | 4 calls |
| unposted | `SelectedFindingsArePosted` is violated | as algorithms |
| presets | `HiddenPresetsComeBack` is violated | as algorithms |

Why the bounds are enough. Requests do not interact in RequestStore: handlers
touch one, and the loops visit each on its own, so one request shows every race;
the proofs hold for any number. Three handlers are the creator and two racers,
four add a reader (a GET against an answer, a view or a list). The clock needs a
value before the deadline, the deadline, and one after it. The race in
`OnlyRacersStayHeld` needs a creation, two admins' verdicts and one more; two
workspaces are the absent one and a named one; two DIDs never share a key. The
limiter needs one call more than the limit, two windows, and a window that is no
whole number of seconds, so that the header rounds. Pages need limits below, at and
above default and maximum, and more requests than two pages. A poll needs to find
the timeout before, at and after a wake, with an HTTP call longer than an
interval; `MaxElapsed` (7) is no bound of the model but a claim: `Tick` goes on
counting, and `TypeOK` says, and its proof confirms, that a wait with a timeout ends
before (`ReturnsInTime` is the sharper bound, for each wait its own). A wait without
a timeout leaves `elapsed` at 0. Of three processes,
two may race and the third looks afterwards. Two fields show what two with the same
id do to one another; more fields are read on their own. A 2-byte key with two bytes
of prefix has zeros in front, carries, and miscopies that lengthen or shorten it.
Words of 5 bits are the smallest that give two primes (17, 19), composites with and
without a small factor (21, 25), an exponent that divides the totient (3), and both
primes the same; five draws are two primes with their witnesses, and a
candidate that the small primes refuse.

`everything` stops the clock because expiry and torn words are then explored by
`fresh` with its own bounds, and by the proofs without any. Handler symmetry is
used where only invariants are checked.

Each property has a mutant in `PROJECT.json`: a variant of a definition with a
plausible bug (kept next to the definition as "Mutant of ..."), which the run
refutes.

### Fairness

* RequestStore, `Fairness`: weak fairness of each handler's next step and of each
  webhook goroutine. The Go scheduler runs every runnable goroutine, and
  `sync.RWMutex` does not starve a waiter; a step waiting for the mutex is
  disabled only while another holds it. Since the calls are finite in number, weak
  fairness is enough. Nothing is assumed of the clock or of callers; nobody need
  ever call.
* Pagination, `FairSpec` (`MCFairSpec` in the run): weak fairness of `Fetch`: the
  walker goes on while it is told that there is more.
* Polling, `Fairness`: the clock advances, the agent takes a reply that has come,
  wakes when its sleep is over (`time.Sleep`, `time.After`), and gives up a
  call when the HTTP client's timeout is over. Nothing is assumed of the server,
  the human or the admins: a server that never replies is bounded by that timeout.

## The proofs

`tlapm` checks every theorem to the last leaf. Assumptions: the `ASSUME`s of the
modules: the types of the constants, that None and the like are none of the other
values, that `MaxElapsed` is large enough, `PatchAssumption`, and of base58 that
1 < `TextBase` < `ByteBase` and that the codec's first byte is not 0. Listed here
with the argument.

RequestStore. `TypeOK` alone is inductive up to the facts about locals in
`JobInv`; the rest of `IInv` is needed because no property below is inductive:

* `MutexInv`: a handler is in a locked place exactly when it holds `mu`. With it,
  locked test-and-assign sections exclude one another.
* `JobInv`: what a place implies for the locals.
* `OpenInv` => `OpenedOnce`: once an opener has stored the pointer word of
  "opened", no assignment that is still to come restores "pending" or "held":
  a release assigns "pending" only if it found "held", which is so only before
  anyone opened, and unlocked assignments never assign either (`PatchAssumption`).
  It does not matter that the length word may be torn.
* `ExpiredInv` => `ExpiredAfterDeadline`: the pointer word is "expired" only past
  the deadline, and a status can only be read as "expired" from that word.
* `PlainInv` => `PlainOnlyWhileResponding`: who has still to store a response
  has also to encrypt it, if it can.
* `ResponseInv` => `CompletedEventHasResponse`: an answerer past its stores has
  left a response or an empty one came later; no program order is needed, since a
  goroutine is started after them.
* `CompletedInv` => `CompletedHasResponse`: under `ProgramOrder`, whoever sees
  "completed" sees a response. Without it, this fails. (If callers PATCH
  "completed", it fails as well: hence the premise in `IInv`.)
* `StatusInv`: what a locked section may find in the status between its test and
  its unlock: what it has tested, what it has stored, or an outcome that was stored
  without the lock. A test says little about the present here, because answers take
  no lock; what saves the state machine is that they store nothing but outcomes.
  Outside of the sections, a status that waits has its own length, or that of
  "completed" and "cancelled", which is the same.
* `StatusInv` => `ImplementsLifecycle`: each step changes the status of one
  request at most, by one store of a pointer word, and `StatusInv` gives the
  status that the store replaces, so that the abstract step's cause is there.
* `FreshInv` => `GetIsFresh`: a GET that leaves the lock after the deadline
  leaves the request `Over`: its status reads neither "pending" nor "opened", and
  nobody is in a locked section that could bring these back. `Over` is stable;
  this is where `StatusInv` is needed again, for the lengths: a torn status may
  otherwise become whole again as "pending".

The last two need callers that PATCH to outcomes only, which is a premise in `IInv`
and in `FreshCorrect` and `LifecycleImplemented`; the runs meet it.

KnockFlow (`ControlInv`, `AcceptInv`, `HeldInv` in `KnockFlow_proofs`):
`PendingWasAccepted`, since "active" is only set by an admin or by automatic
acceptance and every "active" read comes from there; `OnlyRacersStayHeld`, by
following the time between the last acceptance and its release; `AutoNeverWaits`,
since the option never changes (`ConfigFixed`) and with it every path of a creation
and of a status call ends in "active".

RateLimiter: `LimiterImplements` is the refinement. Its invariant (`LogInv`) says
that the remembered hits include every logged call after the cutoff; then the
count of remembered hits is the count of the calls in the window. `WindowCorrect`
proves the abstract bound for every window of time, by comparing a window that
ended earlier with the log as it then was; `LimiterCorrect` transfers it.
`RetryAfterCorrect` and `RemainingCorrect` use `AnswerInv`, which relates an
answer to the log as it was when the answer was made.

Pagination (in `Algorithms_proofs`): `TypeOK`, `NoGaps` and the action property
`LastPageCompletes` follow from `SeenSoFar`.

Polling (`Polling_proofs`, for all lifetimes, intervals and timeouts that
`PollingAssumption` allows): `LoopInv` bounds `elapsed + timer` in both places of
the loops of a wait with a timeout, which gives `ReturnsInTime`, and the bound on
`elapsed` in `TypeOK`: no tick passes it. `MemoryInv` follows the id: whoever knows
it, or is being told it, has it from a server that still has the request or has
restarted since; so a 404 to a poll means forgotten (`NotFoundMeansForgotten`).
`OverInv` relates a reply on its way to the time since when a poll could have ended
the wait: a reply that does not end it was made before, hence one HTTP call ago at
most (`TimeoutMissesNothing`).

IdentityFile (`IdentityFile_proofs`, for any number of processes and files). The
files that a client tries are its option, the environment's and the default, and
everybody has the last two. `LoadInv` says that a client that is alone has found
nothing in the files before the one it stands at; `StableInv`, that whoever runs
and knows the file of a stable identity still has that file before it, and so will
stop there. Then nobody mints to it; nor to a file in front of it, since who
mints there knows the file behind it as well (`IdentityIsStable`). `RaceInv` is the
same for any stored identity, but for those who were running when it was stored
(`OverwrittenOnlyInRace`).

KeyMaterial (`KeysCorrect` in `Algorithms_proofs`): `KeysAgree` holds for any hash,
any test of the candidates and any sizes. The invariant says that there is one
course of the search, a function of the number of words drawn, on which every
client stands at its own number, and that a search which has ended is at the end of
the stream; two finished pairs were made at the same place. The invariant only asks
that such a course exists, and a new word extends it: no recursion is needed.

Induction (the beginning of `DidAuth_proofs`). The library's theorems on induction
and recursion take an operator as a parameter, which no prover here can
instantiate; said of a set of naturals they need none. That a set has a least
element follows from the intervals below its elements, ordered by inclusion
(`FS_StrictSubsetOrderingWellFounded`); from it come `Induction`,
`StrongInduction`, and `Recursion` and `RecursionUpto`: a function that refers to
itself at smaller numbers exists, with its type. Every `CHOOSE` behind a recursive
LET of DidAuth, and behind `FlattenSeq`, is opened with these.

DidAuth (`DidAuth_proofs`, for any two bases, any key length, API keys and calls of
the SDK).
A sequence of digits is determined by the number of its leading zeros and the
number that it stands for (`Denotes`, `Canonical`, `DataIsCanonical`).
`ShiftSpill` says that one round of the inner loop, carries and new digits
included, turns the digits of n into those of n * from + c; hence `Digits` returns
the digits of the number that the data stands for (`DigitsLemma`), and `Convert`
what is canonical for the same zeros and the same number in the other base
(`ConvertLemma`). So there and back is the identity (`ConvertBack`), and
`OneDidPerKey` follows, with the codec in front. `ServedAsSigned` needs both
directions: a signature verifies with the key that the DID decodes to, and is
made with the key that the client has, which are the same exactly when the DID is
the one derived from it (`VerifiesWithKey`). The invariant `DidInv` adds to the
types that claims are there exactly when there is a DID, and that an answer is
what `VerifyAuth` says of the headers as they still are.

Forms (`Algorithms_proofs`, for any ids and forms of any length).
`PollAndWebhookAgree`, because what is stored is encrypted as a whole or not at all,
and only for a client with a key; `FormTypeOK`, where `Known` says that the
builder's type of an id is that of the last field with it. `RoundTrip` goes the way
of a value: a control whose name nobody else has is found alone by `Get`
(`FlattenOne`, `GetOne`), the parser's value of it is what its getter makes of what
was entered, kind by kind (`ParsedAsMeant`; of hidden fields for strings only), and `Value` finds the parsed
value under its id in the response, whatever stands around it (`ValueAt`). The fixed
pages have two or three controls each and are read one by one (`FormTwo`,
`TextAndButtons`, `Review`, `Generic`; of a review all but the findings). What can be
read is the same in the event (`ReadableLemma`). The invariant is `BuildInv`, what the
fields are and their types, with `AnswerInv`: entries are ones that the controls
allow, and what is stored is `Store` of them.

Model-checked only:

* `EveryHandlerAnswers`, `WalkEnds` and `WaitsReturn`: liveness under fairness,
  which this prover does not do.
* `WitnessesTell`, `PairDecrypts`: number theory (the bound of Miller and Rabin,
  Fermat, the Chinese remainder theorem).
* The violations.

## Where code and text disagree

Found while modelling and shown by a run (quotations in `PROJECT.json`):

* `taken_back`: an answered request may become "opened" again.
* `overwritten`: a first knock may overwrite an acceptance.
* `unposted`: the findings ticked on the page of a PR review never reach the
  response: their checkboxes stand before the `<form>` (`renderers.go:257`, against
  173).
* `presets`: a hidden field that is no string comes back as a zero value: the page
  writes "" for it (`ui.go:867`, against `formbuilder.go:150` and `README.md:202`).

Met while reading, without a run (each shows in one step or two):

* With a public key, a response is visible in the clear between two
  assignments (`handlers.go:254-266`, against `README.md:367`); one of more than
  190 bytes stays in the clear, since the error of its encryption is dropped.
* A request without workspace is not released by the acceptance of its knock
  (`store.go:202`, against `server_test.go:495`).
* The first page holds the oldest requests (`handlers.go:185`, against 184).
* A client with another passphrase than the sender's gets no error: the response
  stays encrypted, and all getters return zero values (`client.go:517`).
* An encrypted `null` is decrypted for a client that polls and stays encrypted in
  the event (`webhooks.go:122`).
* Of two processes that mint an identity at once, one may lose its DID
  (`identity.go:91`); a DID given with a key is not compared with it
  (`identity.go:41`).
* A torn status may persist, when two assignments interleave word by word.
* Two racing answers may leave the response of one and the `RespondedBy` of the
  other.
* PATCH cancels a completed request, and an answer completes a cancelled, expired
  or held one: no status is checked (`handlers.go:222-238`, against
  `client.go:317`).
* "request.expired" is never sent (against `README.md:238`); a held request does
  not expire.
* Automatic acceptance unblocks a blocked DID (`handlers.go:121-123`, against
  `README.md:361`); so `AutoNeverWaits` holds.
* The page begins with its cursor, so `limit=1` does not advance
  (`handlers.go:171-176`); hence `limit >= 2` in `WalkEnds`.
* `expireExpired` is never called.

## What is left out

* `updatedAt`, `openedAt`, `respondedAt` and the fields of the payload: nothing
  tests them.
* The outcome of a webhook POST: one attempt, result ignored by the code. Its
  signature, and HMAC in general: out of a model checker's reach, like the insides
  of Ed25519, OAEP and SHA-256.
* How the limiter finds an IP address.
* Workspace settings: one map assignment under the lock, read by nothing but
  their own GET. The type catalogue: a constant, filtered by three tests of each
  entry (`filterTypes`).
* Start and stop of the server, CORS and routes: wiring around net/http.
* Texts, styles and Markdown of the pages; the pages without a form.
* Of the SDK: calls without state (`CancelRequest`, settings, types), a call that the
  server serves after the client gave it up (the reply is lost before; what the server does
  later is what any caller may do), an empty body of a 2xx reply, options that are
  merged over a field's own "id" or "type", `DidFingerprint`, base64.
* The example programs.

## Plan

Done: the server (RequestStore, KnockFlow, RateLimiter, Pagination), its abstract life
of a request, the SDK's waits, identity file, forms, DID and keys; and their safety
as theorems, but for what is listed above as model-checked only. Left: the
parts of the code that are not modelled, should they get a state of their own
(settings that something reads, webhooks that are sent again).

Runs are few on purpose: a new question replaces or joins the run of an old one.
