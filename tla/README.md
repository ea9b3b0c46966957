# NanoMDM in TLA+

NanoMDM is an Apple MDM server written in Go. Devices (and the user channels of
a device) check in and fetch commands over HTTP; administrators enqueue
commands and send APNs pushes through an HTTP API; state lives in one of several
storage backends. This directory models the parts of it that keep state or
coordinate concurrent work, checks them with TLC on small instances, and proves
the central properties with TLAPS for every instance.

## 1. Inventory

| component | source | state | operations | interacts with |
|---|---|---|---|---|
| core service | `service/nanomdm/service.go` | none of its own; the request's enrollment ID | Authenticate, TokenUpdate, CheckOut, Set/GetBootstrapToken, CommandAndReportResults | calls storage, one to three calls per request |
| user authentication, tokens | `service/nanomdm/ua.go`, `token.go` | stored UserAuthenticate messages | UserAuthenticate, GetToken | storage |
| SQL storage | `storage/mysql`, `storage/pgsql` | devices, users, enrollments, commands, command_results, enrollment_queue, push_certs, cert_auth_associations | one statement or transaction per storage call | called by the service, the API, the push service, certificate authentication |
| key-value storage | `storage/kv`, `inmem`, `diskv` | buckets devices, users, enrollments, queue (a linked list), push_cert, cert_auth | the same storage calls, each a few bucket transactions | as SQL storage |
| file storage (deprecated) | `storage/file` | directories of files per enrollment | the same storage calls as file operations | as SQL storage |
| several storages at once | `storage/allmulti` | none | runs each call on every storage, returns the first's result | all backends |
| certificate authentication | `service/certauth` | hash to enrollment associations (in storage) | associate on Authenticate, validate every other message | wraps the core service |
| service multiplexing, webhook | `service/multi`, `service/webhook` | none | first service's result is the response; the others run in goroutines | wraps the core service; HTTP events |
| push service | `push/service` | cache of push providers by topic, certificate stale tokens | Push, getProvider | storage (push certificates, push info), APNs |
| APNs provider | `push/nanopush` | worker goroutines and channels of one Push call | pushSerial, pushConcurrent | APNs over HTTP/2 |
| API | `api`, `http/api` | none | EnqueueWithPush, push, push certificates | storage, push service |
| HTTP front end | `http/mdm`, `http/*` | none | decode, extract and verify certificates, status codes | services |
| migration | `storage/*/migrate.go`, `cmd/nano2nano` | none | replays check-ins of one storage into another server | storage, HTTP |
| message types | `mdm` | none | decoding, ID normalisation | all |
| everything else | `cli`, `cmd`, `cryptoutil`, `certverify`, `http/authproxy`, `http/hashbody`, `service/dump`, `service/dmhook`, `tools` | none | configuration, cryptography, proxying | - |

What makes the system hard, per component:

- **core service**: handlers make several storage calls that other requests
  interleave with; the database or the client may fail between two of them; the
  client resends what got no answer. It must never deliver a command of an
  earlier enrollment or one already answered, must agree with the device about
  the enrollment, and must deliver every other command.
- **SQL storage**: three tables that refer to each other; deletion of answered
  commands (`delete=1`) by several devices at once.
- **key-value storage**: a doubly linked list kept in separate keys, walked
  without a transaction; buckets written in separate transactions.
- **certificate authentication**: look-ups and the association they decide on are
  separate storage calls.
- **push service**: a cache filled outside its lock, from certificates that may
  change in between.
- **APNs provider**: unbuffered channels between a feeder, workers, a closer and
  the collector.
- **multi, webhook**: notifications run after, and independently of, the response.

## 2. Plan

The order follows how much depends on a part and how hard it is to test.

1. `NanoMDM`: the core service on SQL storage, requests interleaved call by
   call. Done, with proofs.
2. `DeleteCommand`: the one SQL transaction whose statements must be told apart.
   Done, with proofs.
3. `PushCerts`: the provider cache against certificate uploads. Done, with proofs.
4. `CommandQueue`, the abstract queue, and `KVQueue`, the linked list shown to
   implement it. Done, with proofs, the refinement included.
5. `PushEnqueuer`: API, push service and APNs provider composed. Done, with proofs
   (in `Push_proofs`, with those of `PushCerts`).
6. `CertAuth`: certificate authentication on two kinds of storage. Done, with
   proofs (in `FrontEnd_proofs`).
7. `KVEnrollment`, `SQLEnrollment`, `FileEnrollment`, `Checkins`: check-ins on three
   kinds of storage; `Migration` composes them with a second `KVEnrollment`,
   `Webhook` with the multi service and the webhook's goroutines. Done, with
   proofs; those about `Checkins` are in `Migration_proofs`.
8. `FileQueue` and `AllMulti`: the queue of files, and two storages that get the
   same calls in parallel; the abstract specification `CommandStore` is one
   storage that hands commands out in any order. Done, with proofs, the
   refinement included.
9. `FrontEnd`: the HTTP front end with the authenticating proxy around `CertAuth`,
   which it refines. Done, with proofs.
10. The proof of `Migration`'s Migrated, for all three walks. Done.

## 3. Modules

In every module a step is what the code does without another goroutine, process
or transaction in between; a handler of several storage calls is several steps,
and any of them may be followed by an error in place of the next. Operators are
named after the Go function they model wherever it has a name; `\* a mutant`
marks a variant of the operator after it, a plausible bug that breaks one of the
properties.

| module | models | a step is |
|---|---|---|
| `NanoMDM` | `service/nanomdm/service.go` on `storage/mysql` or `storage/pgsql` (constant `Backend`), with or without `delete=1` (`rm`) | one storage call: an SQL statement or a transaction |
| `DeleteCommand` | `deleteCommand` of `storage/mysql/queue.go`, `storage/pgsql/queue.go` | one SQL statement |
| `PushCerts` | `getProvider` of `push/service/service.go` and `storage/*/pushcert.go` | one storage call, or one key or file read or written |
| `CommandQueue` | what `storage/queue.go` promises one enrollment | one request, its retrieval separate |
| `KVQueue` | `storage/kv/queue.go`, `queue_ll.go` | one key read or written outside a transaction, or a transaction |
| `PushEnqueuer` | `api/api.go`, `api/do.go`, `push/service/service.go`, `push/nanopush/provider.go` | one channel operation or call |
| `CertAuth` | `service/certauth` on `storage/mysql`, `storage/pgsql` or `storage/kv` | one storage call |
| `FrontEnd` | `http/mdm`, `http/authproxy` and `certverify` around `CertAuth`, in the order of `cmd/nanomdm` | a request up to its first storage call, or one of `CertAuth` |
| `KVEnrollment` | `storage/kv/mdm.go`, `bstoken.go` and the check-in handlers | one bucket transaction |
| `SQLEnrollment` | the same handlers on `storage/mysql`, `storage/pgsql` | one statement |
| `FileEnrollment` | the same handlers on `storage/file/file.go` | one file operation; a write is two, the file truncated and filled |
| `Checkins` | these three (`backend`) with their clients, after `test/enrollment` | as above |
| `Migration` | `storage/*/migrate.go`, `cmd/nano2nano` between `Checkins` and a second `KVEnrollment` | one message looked up and put |
| `Webhook` | `service/multi`, `service/webhook` beside `Checkins` | one call of the goroutine |
| `CommandStore` | what `storage/queue.go` promises one enrollment on any storage, whatever the order | one request, its retrieval separate |
| `FileQueue` | `storage/file/queue.go` | one file operation |
| `AllMulti` | `storage/allmulti` over two stores, each a `FileQueue` or a database | one file operation or statement of a store's goroutine |

How state corresponds:

- `NanoMDM`: `devices`, `enrolled`, `commands`, `queue`, `result` are the rows of
  the tables `devices`, `enrollments`, `commands`, `enrollment_queue`,
  `command_results`; `enabled`, `tally`, `active`, `created`, `bootstrap` are
  columns of them. `req[t]` is a request's goroutine with the call it makes
  next. `belief`, `escrow` and `holding` are what the clients know; `current`,
  `delivered`, `acked` and `updated` are history.
- `KVQueue`: `first`, `last`, `next`, `prev` are the keys of those names in the
  queue bucket, `raw` the stored commands, `enq` an EnqueueCommand between its
  writes, `cursor` the item RetrieveNextCommand looks at. `waiting`, `turn` and
  `issued` are history and, with `held` and `phase`, the variables of
  `CommandQueue`; its `deferred` is mapped to the waiting commands whose status
  is NotNow. An error of RetrieveNextCommand is a reported one (RetrieveFails) or,
  in getFirst and getNext, one that the loop takes for the end of the list
  (RetrieveMisses, `Miss` of `CommandQueue`); ClearQueueCut is the same in `clear`.
  `fails` counts them, in `CommandQueue` too: no answer "no command" while
  commands wait without an error.
- `PushCerts`: `pem`, `key` and `token` are the stored certificate, its key and its
  stale token, numbered by upload; `provider` is the cache's entry, `stage[t]` how
  far thread t's getProvider is.
- `PushEnqueuer`: `pc` is the request's own goroutine; a push is known by its place
  in the request, an enrollment may be named twice. `fed[t]` is the place up to
  which topic t's feeder has handed out its pushes, `jobsClosed` and
  `resultsClosed` are the channels that were closed, `worker` the workers of each
  topic with the push each has, `ret` a topic's responses before they are merged
  into `responses`. `pushed` is history: how often a push was sent to APNs.
- `CertAuth`: `assoc` is the table of associations (on key-value storage, what
  its two kinds of keys say), `hashes` the certificates ever associated.
- `FrontEnd`: `hashCert` is the key by which the key-value backends find a
  certificate's enrollment (the SQL backends look in the table), `proxied` the
  proxied requests, `served` history.
- `KVEnrollment`: a variable per kind of key, column or file; messages are numbers, so that
  "newer" can be said. UserAuthenticate is modelled as configured with the empty
  digest challenge; without it nothing is stored.
- `FileEnrollment`: `blank` are the messages whose files were truncated and not
  filled since; an empty TokenUpdate has no push info (`push` = 0), an empty
  bootstrap token is none, an empty tally reads as 0. `ctr` of a request is the
  local variable of `bumpNumericFile`.
- `Checkins`: `belief` is what a client knows: that it is "enrolled" when its
  TokenUpdate was answered, and "renewing" from the next TokenUpdate until that is
  answered. Settled is a client whose push info must be there: an enrolled one,
  and except on file storage a renewing one.
- `FileQueue`: `dir[s]` are the files of store s in the four directories, `blank` the
  command files that are created and not yet filled. `call[k]` is what caller k
  (the client's request or the API's) asks for, `job[k][s]` its goroutine on
  store s. In `AllMulti`, `order` (the rows of the queue, by
  `created_at`), `inactive` (those not active) and `result` are a database's tables,
  `held` and `settled` what the client has to answer and has answered for good;
  `waiting`, `deferred` and `ended` of `CommandStore` are mapped to the first
  store's directories or rows, `phase` to the first store's progress.
- `Migration`: `walk` is the walk's position, the `t...` variables are the
  target's storage.
- `Webhook`: `event` is what each goroutine is about and how far it has got.

## 4. Runs

`MCx` modules give the constants values; where there is none, the cfg does.

| run | asks | instance | distinct states |
|---|---|---|---|
| `channels` | is the enrollment state consistent, do the tables stay consistent with `delete=1`, and is no cleared command delivered, with a user channel and two requests at a time? | 1 device, 1 user, 1 command, 2 threads, 1 failure | 718,179 |
| `session` | is the order of delivery kept, is nothing answered delivered again, is the bootstrap token that of the enrollment, is every command delivered? | 1 device, 2 commands whose timestamps may tie, PostgreSQL, 1 failure | 116,035 |
| `delete_mysql` | does the command go exactly with the last answer? | 3 enrollments, statement by statement | 324 |
| `certs` | is a stale certificate noticed, does the cache settle? | 2 pushes, 3 uploads, 3 kinds of storage, 1 failure | 51,624 |
| `fifo` | is the linked list a queue? | 4 commands, 1 enqueueing request, 1 failure | 386,740 |
| `tail` | (violated) is an answered command out of the list? | 3 commands, no failure | about 2,100 until found |
| `push` | is everybody pushed to, does the pool shut down, does the code tell? | up to 3 pushes, 2 topics, 2 workers | 109,260 |
| `certauth` | does a certificate have one owner, is nobody locked out, and does the proxy know the same owner? | 2 devices, 3 certificates and one from elsewhere, 2 requests, 2 kinds of storage, 1 failure | 201,510 |
| `migration` | does the storage agree with the clients, and the target after a migration? | 1 device, 1 user, 3 kinds of storage, 3 or (key-value) 4 numbered messages, 1 failure | 3,190,774 |
| `channels_kv` | (violated) do user channels go with their device? | 1 device, 1 user, 2 numbered messages, no failure | about 850 until found |
| `webhook` | is every event posted, with a tally that is not too low? | 1 device, 1 user, key-value and file storage, 2 TokenUpdates, 2 goroutines, 1 failure | 502,016 |
| `allmulti` | do two storages record the same, does the client see the first one alone, is the queue of files readable? | 2 stores in 3 combinations of kinds, 3 commands, 1 failure | 1,648,945 |

### Bounds, and why they are enough

- `Threads`, `Requests`, `Goroutines` = 2: every hazard listed is between two
  actors. `DeleteCommand` has 3, because a third enrollment may wait for the
  lock the first two pass on.
- `MaxFail` = 1: a failure, then the retry that meets what it left. Two failures
  in a row at the same place leave nothing new behind.
- `Commands` = 4 in `KVQueue`: head, tail and two in the middle, so that an item
  is unlinked between linked neighbours and beside an enqueueing.
- `MaxSent` = 4 in `Migration` on key-value storage: a TokenUpdate of device and
  user, a bootstrap token, and one more of any of them after re-enrolling; 3 on
  the others, whose walk has no bootstrap tokens. Two devices were tried as well
  on key-value storage (`Devices = {d1, d2}`, `MaxSent = 3`, 6.8 million states,
  no error); the run has one because devices share no key.
- `Stores` = 2 and 3 commands in `AllMulti`: one store ahead of the other, and a
  command postponed, one waiting and one being enqueued. Two databases are left
  out of the combinations: they make the same steps.
- `Trusted` has all of a device's certificates and `x` is of another CA, so that a
  request can be refused.
- `Overlap` = FALSE in all runs of `NanoMDM`: a client waits for its answer. The
  theorems about `QueueIntegrity` do not assume it, and TLC has checked it
  for two devices with `Overlap = TRUE`, `MaxTally = 1` and `MaxFail = 0` too
  (2.0 million states, no error).
- `MaxTally`, `MaxClock`, `MaxCert` bound counters by guards of the environment's
  steps; `MaxClock` = 1 lets two commands tie or be in order.
- `Messages` in `NanoMDM` and `Webhook` leaves out messages that a run's question
  does not concern; between them the runs send all of them.
- `Backends` in `webhook` leaves out SQL storage, whose TokenUpdate is stored in
  two steps, as on key-value storage; with all three TLC finds no error either (568,756
  states).
- Symmetry is used for threads, devices and certificates, in runs without a
  liveness property only.

Deadlock is checked, except in `push`, where the request ends, and `migration`
and `channels_kv`, where the migration does.

### Fairness

- `session`: weak fairness of a request's next call (goroutines are scheduled and
  the database answers) and of the error path when a call cannot succeed; strong
  fairness of a client's reports: a device that was pushed connects again, and
  requests by other messages may get in between.
- `certs`: weak fairness of pushes (they keep being sent) and of an upload's
  second write.
- `push`: weak fairness of the request's goroutine and of each topic's
  goroutines, taken together: the scheduler runs what can run, and APNs answers
  or the HTTP client gives up.
- `webhook`: weak fairness of each goroutine: its HTTP call returns, with an error
  or without, which nothing in the request can cut short.

Failures, uploads, enqueueing and clients' messages have no fairness.

## 5. What the runs show

- The core service on SQL storage keeps its promises to a client that sends one
  request at a time: nothing cleared or answered is delivered, order is kept,
  everything else is delivered, and server and device agree about the
  enrollment, although Authenticate is three storage calls and any request may
  break off. On PostgreSQL, ClearQueue joins `enrollment_queue` with itself by
  enrollment only and makes answered rows inactive as well; no property
  notices. With overlapping requests of one client a late NotNow overwrites a final
  status and the command is delivered again; the runs do not allow overlap, and
  `QueueIntegrity`, which does not depend on it, is proved without that
  assumption.
- `delete=1` on MySQL deletes a command exactly with the last response.
- The provider cache never uses a certificate older than the one stored when a
  push began, and settles on the last one.
- The linked list is a queue for a client without the troubles below; an error
  while it is walked can pass for its end (disagreement 8), after which the
  next request finds everything still there.
- A request of the API is answered for every enrollment and the worker pool
  shuts down without losing a response or blocking.
- Certificate authentication gives no certificate two owners and locks no device
  out, as long as clients present certificates of their own.
- Behind the front end this is so for every certificate it trusts, and the
  authenticating proxy sends a request on with the ID of the only device whose
  messages with that certificate were let through, although on key-value storage
  the two look in different keys.
- The check-ins on key-value, SQL and file storage keep device enrollments right
  through failures between their steps, and a migration reproduces them, with
  the exceptions that follow. File storage overwrites a file by truncating it
  first: when an enrolled client sends another TokenUpdate and that breaks off,
  the client stays enabled and its push info may be gone until a TokenUpdate of
  it succeeds, nor can it be migrated until then; when the bump of the tally
  breaks off, the count may start again from 0. So ServerKnowsEnrollment and
  Migrated ask for the push info of a renewing client on the other storages only,
  and TallyOfEnrollment's lower bound on file storage only while every TokenUpdate
  of the enrollment was answered. On the
  SQL backends user channels go with their device. The SQL and file walks do not
  skip enrollments that were disabled: there a device that checked out is
  enabled again at the target (NoGhosts is stated for the key-value walk, whose
  comment says it).
- Two storages at once record the same as long as none fails, and whatever
  fails, the client sees a queue: the first store's.
- The webhook hears of every TokenUpdate that was stored.

### Disagreements between code and documentation

1. `tail` (`storage/kv/queue_ll.go:155`): answering the last item of the list
   while those ahead of it are postponed leaves it linked; it is delivered
   again, and answering it again empties the list.
2. `channels_kv` (`storage/kv/mdm.go:214`): `userChannelEnrollments` returns the
   key prefix in place of the user channels' IDs, so that user channels are
   neither disabled with their device nor their tallies reset.
3. `DeleteCommand` with `Backend = "pgsql"` (not among the runs) violates
   DeletedAfterResponses: without the record lock of MySQL two enrollments that
   answer at once both leave the command behind, where
   `docs/operations-guide.md:141` has it deleted.
4. `PushCerts` with `Overlap = TRUE` and `Backends = {"kv"}` or `{"file"}` (not
   among the runs) violates StaleNoticed: certificate and stale token are read
   apart, and an upload in between pairs the old certificate with the new
   token, against `storage/pushcert.go:11`.
5. `service/webhook/event.go:44-46` has the tally tell an enrollment's TokenUpdate
   from a follow-up. It is read when the goroutine gets to it: the enrollment's
   event may carry 2, or 0; on file storage any event may carry 0, when the
   goroutine reads while another TokenUpdate has the tally's file truncated.
   There TLC finds TallyCounts violated without its first condition.
6. `docs/operations-guide.md:455` has the authenticating proxy authenticate "in the
   same way as other MDM endpoints". On key-value storage a certificate that the
   device has replaced by another is still good for the proxy, and not for the
   MDM endpoints: with the second conjunct of ProxiedAsServed on key-value storage
   too (not among the runs) TLC finds it violated.
7. `storage/mdm.go:34` wants 0 and no error for a tally that does not exist; the
   SQL backends return `sql.ErrNoRows`.
8. `storage/kv/queue.go:64-65` means to return an error "getting item from queue",
   and cannot: the loop's condition on line 63 ends it on the empty UUID that
   comes with the error, and the client is answered that there is no command.
   In `clear` (`storage/kv/queue_ll.go:223-225`) it is the same: ClearQueue
   succeeds and leaves next and prev keys of the items it did not come to, which
   nothing leads to any more.

### Troubles kept out of the runs

A constant of the module lets each of them in.

- `KVQueue`, `Allowed`: "tail" breaks UnlinkRemoves and NothingLost; "resend" (a
  report repeated after its request failed) and "overlap" (a report during an
  enqueue) break NothingLost; "partial" (an enqueue that fails after its first
  write) breaks NothingLost and WalkEnds, as do two enqueueing requests at once
  (`Requests` with two members). WalkEnds holds with "tail", "resend" and
  "overlap" together.
- `CertAuth`, `Allowed`: "share" (overlapping requests with one certificate) breaks
  OneOwner, EnrolledStays and NotLockedOut; "goBack" breaks NotLockedOut on
  key-value storage only, which keeps the old certificate's key but not its
  association.
- `AllMulti`, `Allowed`: "clearNotNow" breaks NextDecodes (a cleared NotNow leaves its
  result file, which every later fetch takes for a command: the enrollment is
  stuck); "overlap" (a ClearQueue crosses an EnqueueCommand) and "early" (an answer
  before the EnqueueCommand returned) break InSync.
- `FileEnrollment`: a user's TokenUpdate during its device's Disable leaves the user
  enabled and unlisted; on file storage EnabledSinceUpdate is violated.
- `PushEnqueuer`: CodeTells excepts a request that names an enrollment twice and
  a backend that reports errors by command; then a request that failed for
  everybody may be answered 207. One failing topic makes the answer 500
  although the other topics' pushes were sent (`api/api.go:70`, `103`).

## 6. Proofs

Each `X_proofs` module proves theorems about `X` for every value of the constants
that satisfies the module's named assumptions. Every invariant below is also
checked by TLC in the run of its module, or was before it was proved.

- `NanoMDM_proofs`: TypeCorrect and TallyCorrect are inductive as they stand.
  IntegrityCorrect (QueueIntegrity) needs the types. For delivery (DeliveryCorrect,
  NoStaleDelivery, NoSecondDelivery; assumption `~Overlap`) the two properties
  are strengthened by OneRequestEach (a client's requests do not overlap),
  ReportsHolding (the report under way is the one answer its client owes) and
  UnansweredNotAcked (what a client has not answered for good has no final
  status): a report can then overwrite no final status, and a command given out
  has none. FirstDeliveryCorrect needs OrderInv: what has a status, or is held by
  its client and not yet answered for good, was delivered, so that
  RetrieveNextCommand passes over delivered commands only, and an enqueued one is
  younger. For ServerKnowsEnrollmentCorrect, EnabledSinceUpdateCorrect and
  EscrowOfEnrollmentCorrect (`~Overlap` as well) EnrollmentInv says, call by call,
  what the one request of a device has left of the enrollment before.
- `DeleteCommand_proofs`: DeletedCorrect (assumption: MySQL) from LockCorrect: only
  the holder of the record lock is past its beginning, so what it saw of the other
  enrollments' rows still holds at its commit. NoneLost holds for both backends.
- `Push_proofs`, about `PushEnqueuer` for any number of topics, workers and
  enrollments and requests of any length: PushInv says of each push that it is
  still to be handed out and not sent, or that exactly one worker has it, or that it
  was sent once and answered (TopicInv); of a topic that was asked for and has no
  goroutine any more, that every push of its is answered (ResponsesInv); and of
  the request's own goroutine, that it has asked for every topic before it
  collects and collected from all before it returns (RequestInv). PoolCorrect,
  AnsweredCorrect and CodeTellsCorrect follow, the last by counting: failures are
  the keys of two maps, the request a list that may name an enrollment twice.
  NeverBlockedCorrect is the safety half of Returns: while a request is not
  answered, its goroutine or a feeder, worker or closer of some topic can go on,
  although each waits for another at an unbuffered channel. Who can go on is said
  by the guards of the actions (ENABLED is beyond the prover); on the instance of
  the run `push` their disjunction is ENABLED Next in every state.
  About `PushCerts`, StaleNoticedCorrect and PushesCurrentCorrect (assumption:
  certificate and token are one row, as on SQL) from TokenInv: tokens identify
  uploads, and no thread's certificate is newer than the store's or older than
  its beginning.
- `KVQueue_proofs` (assumption `Untroubled`: none of the troubles, one enqueueing
  request): ListInv says that `next` and `prev` of a waiting command are the ones
  behind and ahead of it, by the order of enqueueing, with exceptions between the
  writes of an enqueue. The keys that a cut-off `clear` leaves are of commands
  that no longer wait, of which it says nothing. From it follow QueueCorrect (every
  step is a step of `CommandQueue` or none, a missed error its `Miss`), UnlinkCorrect, NothingLostCorrect and WalkEndsCorrect;
  the last two by the least number principle on `turn`.
- `FrontEnd_proofs`, about `CertAuth` (assumption `Allowed = {}`): AssocInv ties a
  request's position to what its look-ups found, which no other request can undo,
  because no other has the certificate or the device. OneOwnerCorrect,
  EnrolledStaysCorrect, NotLockedOutCorrect and ReassociationCorrect follow.
  About `FrontEnd`: FrontImplementsCertAuth (every step is one of `CertAuth` or
  none), so that AssocInv holds here as well; with it HashInv, that the key-value
  look-up of a certificate's enrollment would give the right answer on either
  backend, is inductive. ProxiedAsServedCorrect and EnrolledIsProxiedCorrect
  follow.
- `AllMulti_proofs`, for any number of storages of either kind: FirstInv (assumption:
  no ClearQueue crosses an EnqueueCommand) has each command in one directory of a
  file store, results and inactive rows in a database for commands that have a row
  only, and what the steps of a call of several file operations saw of the
  directories still true at the next one. By it ImplementsFirstCorrect maps every
  step to a step of `CommandStore` or none: the storages other than the first to
  none, errors of the first to an error, whichever goroutine is done first.
  For InSyncCorrect and NextDecodesCorrect (assumption `Allowed = {}`, and both speak
  of runs without errors) it is strengthened to SyncInv. What the storages hold
  differs while calls run on them at different speeds, so SyncInv compares what
  each will hold once its calls are done: WillWait, WillDefer and WillEnd add to
  a store's commands the one its goroutine has still to enqueue (Upcoming) and
  move those its goroutine has still to answer, postpone or clear (Taken,
  Postponed). A step of one goroutine leaves all three sets alone; a call that
  starts changes them in every store alike. ReadInv has the files of a store
  without errors readable but for two windows, which NextDecodes names.

- `Migration_proofs`, about the check-ins on all three kinds of storage and the
  migration: SourceInv (the invariant `DeviceInv` of `Checkins` for every device)
  says for each call a request may be at what of the enrollment before is left
  and what of the new one is there; a failure at any place then leaves a state
  from which the device's next Authenticate starts clean. On file storage it says
  as well what is true of a truncated file: the push info of a device is its
  last TokenUpdate's from the filling of the file on (EnabledInv), and Counted,
  the tally or what it was before its file was truncated, stands between the
  TokenUpdates answered and sent (TallyInv).
  ServerKnowsEnrollmentCorrect, TallyOfEnrollmentCorrect and
  EscrowOfEnrollmentCorrect follow, UsersLeaveWithDeviceCorrect with UserInv (on
  the SQL backends). NoGhostsCorrect (key-value storage) adds WalkInv: the walk is
  only ever at a device that is enabled and whose messages are there, and so is
  every device with push info at the target. Assumption: the prefix of a key is
  nobody's ID (see finding 2).
  MigratedCorrect takes two more invariants. KeptInv is about the source: every
  enrolled client's last answered TokenUpdate, or a newer one, is stored, the
  Authenticate of every device that is enrolling is, and on key-value storage an
  enrolled user channel is listed and not disabled; so whatever a walk goes by is
  there for each of them (Found). BlankInv, a part of it, has no TokenUpdate's file
  empty that an answered TokenUpdate wrote last, which is why on file storage
  every settled client's message decodes. ArriveInv is about a run without errors so far:
  the messages of each enrolled client are ahead of the walk, or under way to the
  target, or have arrived, and a device's Authenticate, which disables it there
  and removes its bootstrap token, is never behind them (UpdateComes, TokenComes,
  UserComes). It begins anew with each run of nano2nano and asks nothing of what
  runs before have left; when the walk is done only the last case remains.
- `Webhook_proofs`: EventsInv (an event's tally counts its TokenUpdate) and HeardInv
  (a tally was posted, or the request that counted it, or an event about to tell
  it, is under way) are inductive with the shape of the requests. What the
  storage does beyond its tallies does not matter. TallyCountsCorrect is about SQL
  and key-value storage (on file storage it is false), HeardOfAllCorrect about all
  three: there a truncated tally counts as none until it is written.

Only model-checked: everything with fairness (EveryCommandDelivered, CacheSettles,
Returns, EventPosted), because liveness and ENABLED are out of the prover's
reach. Every other property of a passing run is a theorem. TLC has checked the type
invariants of the modules whose runs do not list one too; the proofs about
`Migration` and `Webhook` use weaker ones, without bounds on the numbers.
Nothing here needs induction over data; `Linked` is defined as a least closed set so that no
recursion is needed.

## 7. Assumptions about what is not in this repository

- A transaction of the key-value library is atomic and isolated. Where the code
  writes outside its transaction (`storage/kv/queue.go:129`) it is modelled so.
- `ioutil.WriteFile` truncates the file and then fills it in one write: it is empty
  or whole. A partial write is as good as an empty file to every reader modelled,
  none of which can decode it (a partly written number is not modelled). What a
  truncated file of the unlock token, the serial number or the identity
  certificate loses is not modelled, nothing else reads them.
- SQL statements see committed data, a foreign key check waits for a locked row,
  and `created_at` has the resolution of the database's clock.
- A client sends one request at a time and repeats a message that failed, as
  `test/enrollment` does; modules that allow more say so by a constant.
- APNs answers a push or the HTTP client reports an error.

## 8. Not modelled

- The file backend's certificate associations, and `allmulti` around anything but
  the command queue: each method is the same `execStores` around another call.
- UserAuthenticate with a digest challenge of its own; GetToken, declarative
  management and the dump service, which keep no state.
- Decoding and encoding of property lists, cryptography, certificates and the
  signatures on messages, HTTP parameters, logging, configuration.
- The HTTP API's handlers (`http/api`): they parse parameters and format results
  around `api`, which is modelled; buford, which hands the pushes to another
  library.
- Crashes of the server: all state that matters is in the storage, a request
  that breaks off between two calls is what a crash leaves, and the provider
  cache is refilled. `Migration` does stop the server.
- RetrievePushInfo, a read without a step of its own.
