# InstaMove: a verification project

TLA+ modules about the InstaMove server (`src/`), the TLC runs that check them on small
instances, and TLAPS proofs for every value of the constants. Paths below are relative to the
repository; line numbers are in `PROJECT.json`, which maps each definition to the code it models.

InstaMove takes a request over HTTP (`POST /request`) or Bluetooth, and either pays a Lightning
invoice through an LND node or creates one. What can go wrong is mostly about *paying twice* and
about *telling a client something untrue*, when clients retry, processes crash and LND answers
late or not at all.

## 1. The system

| part | state | operations | hard behaviour |
|---|---|---|---|
| idempotency layer (`idempotency.js`, `idempotency-store.js`, `database.js`) | rows in SQLite; a per-process map of active promises | `execute`, `claimRecord`, `completeRecord`, `releaseRecord` | races of processes and handlers for one key, crashes between claim and completion, purge by age |
| record migrations (`idempotency-store.js`) | marker rows in `schema_metadata` | `importLegacyRecords`, `preserveHistoricalUncertainResults` | processes that start together, a crash between two migrations, the purge that follows |
| Lightning client (`lightning.js`, `lnd-client.js`) | none between requests | `settlePaymentRequest`, `createInvoice`, `callLnd`, `validatePaymentResponse` | timeouts, retries, lost and garbled replies, payments that settle after the client gave up |
| request processing (`processor.js`, `invoice.js`) | `requests`, `invoices` collections | `handlePayment`, `handleInvoiceCreation` | state read before an await and used after it; an invoice made at LND and not stored |
| collections (`storage.js`) | `documents` table | `importLegacyCollections`, `readJson`, `updateCollections` | atomic updates of several collections, imports that race |
| node registry (`node.js`) | `nodes` collection | `registerNode`, `activateNode`, `getActiveNode` | several active nodes, a default one, a page that looks in its own way |
| HTTP and Bluetooth handlers (`app.js`) | connections, one Bluetooth adapter | `POST /request`, `GET /ready`, the Bluetooth request, `shutdown` | a shutdown while requests, probes and operations run |
| readiness (`health.js`) | one shared probe of LND | `checkLightningNode`, `getReadiness` | callers sharing a probe while the configuration changes; status read before an await |
| rate limiter (`rate-limit.js`) | buckets per client | middleware | boundary of the window, clean-up of buckets |
| landing page (`landing.js`) | `pendingPayment` in the browser | submit handler | a reply that is lost while the payment goes on |
| Windows Bluetooth adapter (`bluetooth-windows.js`) | sessions, partial frames, attempts per peer | helper events, responses | fragments of several peers interleaved, a session that ends while its request runs, limits |
| native helper (`native/windows-bluetooth/Program.cs`) | `Sessions` dictionary | `OnWrite`, `SessionStatusChanged` | asynchronous handlers that check and then act |
| simulated and disabled Bluetooth (`bluetooth.js`) | advertising flag | `getStatus`, `stopAdvertising` | none |
| authorisation (`auth.js`), validation, encryption | none | pure functions | none |
| errors, logging, headers, notifier, channels, scripts | none | formatting, I/O | none |

A request flows: `app.js` validates it and calls `execute` with an operation; the first call for a
key claims its row, runs the operation (`processor.handleRequest`, which awaits the database and
then LND) and records the result; the handler serialises what the operation throws, so `execute`
sees a result in either case. HTTP and Bluetooth share `execute` and the map. Several server
processes may share one SQLite file: every access is one `BEGIN IMMEDIATE` transaction. The page
chooses the key of a payment and decides when to use it again. `SIGTERM` stops the radio, then the
connections, then the database.

## 2. The modules

| module | models | composed with |
|---|---|---|
| `KeyContract` | the abstract promise per key: free, running, answered (kept for the retention), stuck (never run again) | implemented by `Idempotency` |
| `Idempotency` | `execute` with its in-process map, the store, crashes of a process, expiry | |
| `Lightning` | `settlePaymentRequest`, the retry loop of `callLnd`, `validatePaymentResponse`; LND as an external party | |
| `PaymentService` | `POST /request` and the Bluetooth request for a payment, down to LND | INSTANCEs `Idempotency` and `Lightning` |
| `PayPage` | the submit handler of the landing page, and a network that loses requests and replies | EXTENDS `PaymentService` |
| `Migrations` | `preparedDatabase`: both record migrations, then the claim | |
| `NodeRegistry` | the collection of nodes and which of them is active | |
| `InvoiceProcessing` | `handleRequest` over the collections, with their import and the administrator | INSTANCEs `NodeRegistry` |
| `WindowsBluetooth` | the Node side of the native adapter | |
| `AttemptMonitor` | an observer that counts messages per peer and window | EXTENDS `WindowsBluetooth` |
| `Readiness` | `GET /ready` and the probe that its callers share | |
| `Server` | connections, operations, start and shutdown of the process | EXTENDS `Readiness` |
| `RateLimiter` | `createRateLimiter` | |
| `*Proofs` | theorems about the module they are named after, see section 5 | |

Definitions marked as mutants in the modules are used by no specification: they are what a
plausible bug would look like, kept so that each property can be seen to fail on one.

### Idempotency and KeyContract

State: `records[k]` is the row of key `k` (`state`, `payload` for the fingerprint, `owner`,
`result`, `created`), `inFlight[p][k]` the call whose promise process `p` holds for `k`, `pc[c]`
the place of call `c` in `execute`. A call is named by a constant because each has an owner id of its
own (a random UUID). `request[c]` is chosen when the call arrives. `startedAt` and `outcome` are
what the call did: they are also what the properties look at.

What a handler does between two awaits is one action. `claimRecord` runs in the same turn as
`inFlight.set`, so `ClaimAcquired`, `ClaimRefused` and `ClaimFaults` do both; each purges the
expired rows of *all* keys first, as the code does. The operation ends in one of six ways
(`OperationReturns`, `OperationThrows`), among them a completion or a release whose transaction
fails. `Finish` is the `finally` block; between the settling of a promise and `Finish` other
requests of the same turn can still join it (the Bluetooth adapter emits several requests from one
chunk). A joined call resumes after its leader, in the order their awaits were registered.

A crash (`Crash(p)`) drops the map and the handlers of `p` and keeps the rows. The initial states
are those of a database that earlier deployments used, after the migrations.

`KeyContract` forgets calls, processes and rows: a key is free, running, answered or stuck, with the
payload it is bound to and the time since when. The refinement (`KeepsContract`) maps a row that is
pending to *running* while its owner lives and its outcome is open, and to *stuck* otherwise.

Abstractions: fingerprints are payloads (SHA-256 is taken to be injective); a result is its kind
and the run it comes from; the clock is shared by all processes and never goes back; a failed
transaction is rolled back entirely.

### Lightning

Per operation: the stage, the attempt, the verdict, how many POSTs were sent, and (`lnd`, external)
what became of the payment at LND. LND may accept, settle or reject what it was sent at any time,
also after the client gave up. A reply to the POST is any of 576 abstract responses, provided that a
preimage is known only when its invoice is paid, and that an explicit failure is final. These two
facts, and that LND pays an invoice once and none without an amount, are assumptions about LND;
everything else about its replies is unconstrained.

### PaymentService and PayPage

`Execute`, `Returns`, `Crash` and `Tick` are steps of `Idempotency`; `BeginsPayment`,
`PaymentStep` and `LndStep` are steps of `Lightning`; `RefusesOwn`, `ReadFails` and `EndsPayment`
end the operation of a call with the verdict as its result. A crash takes the operation and the
calls of the process together, never what LND was sent.

`PayPage` puts the page in front. `pending` is `pendingPayment`, the invoice and the key to use
again; the button is disabled while a request is under way (`waiting`), but a request whose
connection failed may still be in `mail`, or running at the server. `Reads` is any reply that
parses, after which the page forgets the key; `TurnedAway` one that precedes `execute` (rate limit,
access, validation); `Unread` the `catch` block. `fate` is a history of what the page heard under each key.

### Migrations

`rows[k]` is the row of a key, with whether an earlier version claimed it (`old`) and whether its
answer has one of the codes the migration looks for (`coded`). `marks` is `schema_metadata`,
`legacy` the JSON file. `pc[p]` is the place of a process between two statements: `Starts` and `Checks`
are the reads outside a transaction, `Imports`, `Preserves` and `Claims` the transactions. A
process is `Interrupted` at any of them, by a crash or by a transaction that fails. `Claims`, `Records`
and `Releases` are coarse: `Idempotency` has the detail. The same codes are recorded by
this version for errors before a payment was sent, which must stay answers; hence the marker.

### InvoiceProcessing and NodeRegistry

`invoices` is the collection in the order of its positions, `link[r]` the invoice a stored request is
linked with, `op[o]` what an operation holds between two awaits, in particular the invoices it read
at its start (`seen`) and the node it chose. `made` (external) is what LND made, also when its reply
was lost; `told` is what clients were told of. An id is the hash LND returned or made of the time; ids
of the time may collide, and the primary key then refuses the invoice. Every operation may run in a
process of its own. Decryption and the destination are a step that succeeds or fails.

The node comes from `NodeRegistry`: the one the input names, if it is registered, or the active one.
`nodes` is the collection, which `Registers` and `Activates` change in one transaction each while
operations run (`Administers`). `ActiveNode` prefers the default node if that is active, `ShownNode`
is the page's own search. `chosen` is a history: the node last activated, until an active one is
registered. The import replaces all collections; it is one transaction that begins with the marker's absence.

### WindowsBluetooth and AttemptMonitor

`sessions[p]` is the session of a device: the message it sends, the next fragment, when it expires, its
attempts and their window, and the request it serves. Messages and fragments are units: only
order, count, length and whether the envelope decrypts matter. Frames that are ignored change nothing.
`request[r]` and `peer[r]` follow the handler of a request, which outlives its session; `orphans`
remembers the requests to which that happened. `Sweep` is the timer. Helper events come in any order.
`AttemptMonitor` adds an observer that never constrains a step.

### Readiness and Server

A call of `GET /ready` reads its configuration from the environment, which may differ from call to
call; `asked[c]` is what it read. It is told at once (no LND in mock mode, or an incomplete
configuration), joins the shared probe, or starts one. `probe` and `probeKey` are the module variables of
`health.js`; `state[c]`, `sighted[c]` are the probe that call `c` started. When a probe ends, all who
await it come to a verdict in one turn of the event loop, so that is one action (`Ends`), with the `finally`
block that clears the probe. The radio and LND are external.

`Server` adds, per HTTP request, its connection (`none`, `busy`, `idle`, `closed`), per operation its
record, and the process: `Stops` is the first turn of `shutdown` (`stopAdvertising`, `server.close`),
`CutsConnections` the timer of five seconds, `Closes` the callback that closes the database, `Exits` the
empty event loop. `getDatabase` opens a closed database again, so every access sets `database` to open.

### RateLimiter

`buckets` as in the code, `now` in ticks. A request passes or is refused; one that passes cleans up
when there are more than `ManyBuckets`. `passes` and `told` are histories.

## 3. The runs

| run | instance | what it shows |
|---|---|---|
| `idempotency_one_key` | 3 calls, 1 key, 2 payloads, 2 processes, retention 1, clock 0..3 | one operation per key; an uncertain run keeps its key; answers are retained and own; a rerun is safe; the map is exact; `KeyContract` is implemented |
| `lightning` | 2 operations, 3 invoices, 2 attempts, all replies | one POST; settled means paid; a definite failure moves nothing; the limit; every operation ends |
| `service_one_key` | 3 calls, 1 key, an own and a foreign invoice, 2 processes, clock 0..2 | one payment per key while its answer is retained; true answers |
| `page_service` | 3 submissions of 2 invoices, 3 keys, 2 calls that reach the server, 1 process that may crash | a second payment only after a reply was read or another invoice was given; every request ends |
| `migrations` | 2 keys, 2 processes, retention 1, clock 0..3, all histories | open histories are never rerun, uncertain results never replayed, answers kept; imported once; new errors stay answers |
| `invoice_processing` | 2 operations, 1 stored request, 1 old and 2 new invoices, 1 time id, 1 old node and a default one | what a client was told is stored; the collections agree; no invoice is lost; told invoices are not paid; their node is known; an activation takes effect |
| `windows_bluetooth` | 2 peers, 1 session, 3 requests, 4 messages, clock 0..5 | sessions are bounded and attended; a late response goes nowhere |
| `server` | 2 calls of `GET /ready`, an HTTP and a Bluetooth operation, 4 configurations | the shared probe is the running one; ready is true when it is told; who reopens the database; every call and every shutdown end |
| `rate_limiter` | 2 clients, limit 2, window 3, second 2, clock 0..6, clean-up above 1 bucket | twice the limit at most in any stretch of a window; Retry-After suffices |
| `one_request_per_peer` (violation) | 2 peers, 2 requests | a reconnected device has two requests in flight |
| `attempts_per_window` (violation) | 2 peers, limit 2 | the count of attempts ends with the session |
| `new_key_after_unconfirmed` (violation) | as `page_service` | a payment that is not confirmed is submitted again under a new key |

The violations are three places where a comment or a document says more than the code does.
"Only one request per peer may be in flight" holds of a session, not of a device that reconnects.
The "fixed per-peer window" of attempts is kept in the session, which may end before the window does.
"Do not submit the payment under a new key" is what the operations guide asks after an unconfirmed
payment; the page forgets its key as soon as any reply has been parsed, whatever it says. LND, which
pays an invoice once, is then what stands between the user and a second payment.

Three observations are not violations of anything written. The second of two processes that import
together fails its first claim or access, and nothing is lost. Operations may still write after
`server_shutdown_completed` was logged (`ReopenedForOrphansOnly` says which). And while a shutdown
drains its connections, `GET /ready` can still say ready if Bluetooth is disabled.

Bounds. Three calls are the fewest with which one runs, one joins it and one arrives later, or one
runs, one expires and one reruns. Two processes and two payloads are enough to differ. With
retention 1 and a clock to 3 an answer can be kept at exactly its age, expire, and be followed by a
second run that expires in turn. Two attempts tell a retried GET from a POST that must not be. Three
submissions over two invoices let the page repeat an invoice directly and after another one. Two operations
on one request are enough for the second to overtake the first, and two new invoices for each to
have its own. One session for two peers makes the limit of sessions bite; two attempts and a window
of three ticks let a peer exhaust its attempts and outlive the window. Two LND configurations make probes
differ; a mock and an unusable one take the other paths. Six ticks hold every stretch of three that meets
two windows of the limiter; a count beyond the limit is cut off two above it, since it only counts up.
Calls, processes, keys and payloads are interchangeable (so are peers, Bluetooth requests and invoices
yet to be made), and the runs that check safety use that symmetry; the runs that check liveness do not.

## 4. Fairness

`Lightning.FairSpec`: a request to LND ends, in a reply or at the deadline of `requestJson`, and a
timer that was set fires. `PaymentService.Fairness`: that, and the event loop: a settled promise
resumes its handlers, and a handler that can go on does. `PayPage.PageFairSpec` adds nothing: the user,
the network and the page's requests are not fair, and `EveryCallEnds` is about those that reached the server.
`Server.ServerFairSpec`: a probe of LND ends (its deadline), an operation ends (as `Lightning` shows),
the timer of `shutdown` fires and its callbacks run. Clients, which may leave a request half sent for
ever, LND, the radio, the clock and crashes are not fair anywhere.

## 5. What is proved

All theorems hold for any sets of calls, processes, keys and so on and any bounds, from the named
assumptions of the module they are about.

* `IdempotencyProofs`: `TypeCorrect`, `UncertainRunKeepsKey`, `OneOperation`, `AnswersAreRetained`,
  `RerunsAreSafe`, `InFlightExact`. That a row is pending does not say whose it is, so none of these is
  inductive. The invariant is `IInv == Base /\ Kept`: `Base` is what the place of a call says about the
  rest of its state; `Kept` says, of each run that was ever started, that it is known to have had no
  effect, or was recorded and is either expired or still in its row, or is open and owns a pending row
  created when it started. `PurgeKeeps` shows that the purge of a claim cannot disturb that, and
  `ClaimIsSafe` that a key is claimable only when each earlier run is undone or expired.
  `ContractKept` is the refinement `Spec => KeepsContract`. It needs the converse of `Kept`,
  `OwnersRan`: the owner of a row is a call that ran for its key. Each kind of step has a lemma that
  names the step of the contract it is (a claim runs a key, possibly after forgetting others; a record
  answers it; a release frees it; a failure or a crash strands it) or shows that nothing moves.
  `AnswersAreOwn` rests on `Origins`: wherever a result can be read from (a row, the outcome of a call,
  the leader a call joined) it comes from a run of the key and the payload it is read for.
  `RunsOfAKeyLieApart` is about two runs where `RerunsAreSafe` is about a moment: of any two runs of a
  key one was undone, or the first was recorded and expired when the second began. No run checks it;
  it is what the payment theorems need. `NobodyWaitsForTheLost` and `SharedAnswersAgree` are about the
  calls that joined: their leader is alive in their process while they wait, and they hear what it hears
  (`Waits`, with the exactness of the map).
* `PaymentProofs`: the composition. `ServiceIsIdempotent` and `ServicePaysAsClient` say that
  `PaymentService` implements `Idempotency` and implements `Lightning`: each of its steps is a step of
  one and a stutter of the other, or a step of both (a crash drops the calls of a process and abandons
  their operations, all at once). So what is proved of the two holds of the service and is cited, not
  proved again. The invariant that joins them is `Core`: both layers' own, and `Glue`, which says which
  operation belongs to which call (an operation that has begun is that of a call that ran; while it has
  not ended its call is operating; its task is the request of that call; an ended one has a verdict
  that can be recorded). `PaymentsPerKey` follows from `RunsOfAKeyLieApart`, because only a run posts
  and a run whose operation began is never undone. `Truthful` says of every run that reported a result
  what LND did for it; with `Origins` it carries over to each place that result is replayed or shared,
  hence `SettledAnswersArePaid` and `FailedAnswersMoveNothing`. `PageUsesService` is the same step for
  `PayPage`, and `RepostsAreTold` follows from `PageInv`: an invoice is under one unread key at a time.
* `LightningProofs`: `TypeCorrect`, `PostedOnce`, `SettledIsTrue`, `PaymentsWithinLimit`, `FailureIsTrue`.
  `Progress` says what the stage of an operation tells of what it has sent, `Asked` that LND was only
  ever asked for amounts within the limit; the truth of verdicts then follows from what LND may reply.
  `OperationsRunDown` is the safety part of `EveryOperationEnds`: every step of an operation lowers
  `StepsLeft`, a natural number, and no other step raises it.
* `MigrationsProofs`: `TypeCorrect`, `OpenHistory`, `UncertainHistory`, and the action properties
  `AnsweredHistory`, `ImportsHappenOnce`, `OwnAnswers`. The strengthening is `Ready` (a
  claim is made only after both markers) and `Guarded` (a key with an open history is still in the file,
  or in a completed row while the second marker is missing, or in a pending row of the earlier version).
  For the action properties `EveryRowMoves` lists the five ways in which a row changes; `NewAfter` (a
  row of this version is there only after both markers, so the second migration cannot reopen it) and
  `Kept` (an answer of an earlier version is in the file or in its row until the retention has passed)
  then exclude the wrong ones.
* `BluetoothProofs`: `TypeCorrect`, `SessionsAreBounded`, `RequestsAreAttended`, `OrphansAreSilent`.
  `Attended` is nearly inductive; the bound needs cardinalities of the sessions held before and after.
* `InvoiceProofs`: `TypeCorrect`, `ToldFindStored`, `InvoicesStay`, `LinksAgree`, `ToldStayUnpaid`,
  `InvoiceNodesKnown`, `ActivationsWork`. `Holding` is what an operation holds at each stage; it stays
  true because what it was read from only grows after the import, and the import finds nothing stored
  and nobody beyond it (`Unimported`). `ChosenAlone` is the invariant of the registry.
* `ServerProofs`: `ProbesAreShared`, `OwnNodeIsAwaited`, `ReadyIsSo`, `NeverReadyOnceStopping`,
  `OrphansOnly`. `Shared` is what calls know of the probes they share, `Down` what a shutdown leaves.
  Two of these are proved only, and no run checks them: that a call is told of the node it was configured
  for, and that nobody is told ready once a shutdown has begun (unless Bluetooth is disabled).

* `RateLimiterProofs`: `AtMostTwiceTheLimit`, `RetryAfterIsEnough`. `OfBucket` says which requests a
  bucket has counted: the others passed before its window began, and all of those but the last `Limit`
  a whole window before. `OfNone` is what remains when the clean-up removes a bucket: it removes only
  one whose window has ended, and that is all the next window needs to know. The history of what
  passed is a sequence, so that the property compares two of its elements and needs no sum.

Assumptions. Those about what surrounds the code are the ones of section 2 (LND, the clock, SHA-256).
The constants of `PaymentService` are assumed to be such as its two instances ask
(`RetentionAssumption`, `LightningAssumption`, `NoneAssumption`), and what a page submits is among the
payloads of the service (`PageAssumption`); TLC evaluates all of them in the runs.

Only model-checked: liveness (`EveryOperationEnds`, `EveryCallEnds`, `EveryAskEnds`, `ShutdownEnds`),
which is beyond the prover, as is `ENABLED` (the safety parts named above are proved); and the three
violations. Every invariant and every action
property of a passing run is also a theorem. No module declares a recursive operator.

## 6. Plan

Next, in this order:

1. `InvoiceProcessing` under `execute`: what a retry with the same key is told when an invoice was made
   and not stored. Its theorems would cite `IdempotencyProofs` as `PaymentProofs` does.
2. `Server` under the same composition: operations of `Server` are those of `PaymentService`, so that what
   a client hears during a shutdown is part of the statement.
3. The safety part of `ShutdownEnds` and `EveryAskEnds`, as `OperationsRunDown` and
   `NobodyWaitsForTheLost` are that of `EveryOperationEnds` and `EveryCallEnds`.

## 7. Not modelled

The native helper: which of its WinRT callbacks may interleave is not settled by the source.
`WindowsBluetooth` allows the helper's events in any order, so what is shown of the adapter does not
depend on it. Authorisation, validation and encryption are pure functions: the models start from
validated payloads, take a configuration to be usable or not, and a message to decrypt or not. Mock mode's
fixed invoices never reach LND, and nothing calls channel opening or `settleInvoice` for a request. Of the routes,
those that only read, and the simulated `POST /bluetooth/send` and `/bluetooth/receive`, are left out.
Rendering, logging, security headers and the development scripts have no state.
