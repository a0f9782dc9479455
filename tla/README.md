# Activity-Relay: TLA+ models, model checking and proofs

Activity-Relay is an ActivityPub relay: it takes activities from the servers
that subscribe to it and passes them on to all the others. This directory holds
TLA+ modules for its concurrent and failure-prone parts, TLC configurations for
small instances, and TLAPS proofs for every instance.

## The system

| Part | Source | State | Operations |
|---|---|---|---|
| API server | `api/` | cached snapshot of the relay state, queue reservations, canonical markers | inbox dispatch, follow and undo, fan-out, status |
| Queue | Machinery fork over Redis (not in this repository) | ready list `relay`, `delayed_tasks`, claims with a lease | publish, claim, acknowledge, recover, promote |
| Delivery worker | `deliver/` | none of its own; `relay:activity:<id>` with body and `remain_count` | load, POST, finish, retry |
| Relay state | `models/state.go` | Redis hashes of subscribers, followers, publishers, domains, settings; a snapshot per process | load, refresh on publish, edits |
| Command line tool | `control/` | none of its own | accept and reject follows, domain lists, settings, unfollow |
| Directory scheduler | `internal/directoryscheduler` | state record and lease per directory in Redis | register, heartbeat, backoff |
| Directory commands | `internal/directorycommand`, `internal/directoryconfig` | the configuration file | register, heartbeat, sync, unregister, status |
| Directory client | `internal/directoryclient` | none | version negotiation, requests, answers |
| Signatures | `internal/httpsignature`, `api/decode.go` | capability record per destination, key cache, nonces | plan, observe, fall back, verify, reserve nonce |
| Receiver health | `models/receiver_health.go` | counters and timestamps per receiver | record, read |
| Resource guard | `contrib/ops/resource-guard.py` | state file | check, mail, summary |

How they interact: the API verifies a request (`InboundVerification`), decides
whether the sender may become or stay a receiver (`Subscription`) and what goes
to whom (`FanOut`), stores a body once and publishes one task per target
(`Delivery`); workers share the body through its `remain_count`. API and command
line tool share the queue limit (`QueueAdmission`). Relays that follow each other
send Announces to each other's APIs (`RelayLoop`). API replicas and directory
commands share a lease, a state record (`DirectoryLifecycle`,
`DirectorySchedule`) and a configuration file (`ConfigEditor`). All processes
share the relay state through Redis and a publish/subscribe channel
(`RelayState`), and what is known of other servers' signatures
(`SignatureNegotiation`).

What makes it hard: tasks are delivered at least once and a worker can die at
any point; a reservation, a marker, a nonce or a lease can expire while its
holder still relies on it; a request can take effect although its answer is
lost; snapshots are replaced between two reads of one handler; an operator's
command interleaves with the API; clocks differ and are set back.

## Modules

| Module | Models | Central idea |
|---|---|---|
| `Delivery` | `enqueueActivityExcept`, `relayActivityV2`, `finishRelayTarget`, the broker | shared body, retries, redelivery |
| `AtLeastOnce` | the promise of the delivery pipeline | abstract specification |
| `QueueAdmission` | `reserveQueueCapacity`, `releaseQueueCapacity`, the tool's `enqueueRegisterActivity` | a shared counter that expires |
| `RelayLoop` | `executeAnnounceActivity`, `relay_loop_guard.go`, a network of relays | a marker with a token |
| `FanOut` | the dispatch of `handleInbox`, the three ways to relay, the choice of targets | a snapshot that changes between reads |
| `Subscription` | Follow, Undo, Accept, Reject; `follow accept`, `follow reject`, `unfollow` | several writers of one record, no lock |
| `RelayState` | `Load`, `ListenNotify`, the edits of `models/state.go` | Redis against a snapshot |
| `DirectoryLifecycle` | `runDirectory`, `lifecycleCommand`, `unregisterCommand`, `RedisStore` | a lease, fenced saves, an unreliable remote |
| `DirectorySchedule` | deadlines, backoff, `Retry-After`, start-up pulse, profile digest | a clock that is set back |
| `ConfigEditor` | `editFile`: lock, reopening, backup, temporary file, rename, sync | kills and power losses |
| `AtomicFile` | the promise of the editor to those who read the file | abstract specification |
| `SignatureNegotiation` | `Plan`, `ObserveResponse`, `DoGET`, the profile of a delivery task | evidence that is old when it is used |
| `InboundVerification` | `decodeActivity`, `VerifyPOST`, `ActorCache`, the nonce in Redis | windows on clocks that differ |
| `MC*` | instances of these for TLC | |
| `*Proofs` | theorems for every instance | |

`Delivery`. A `Job` is one call of `enqueueActivityExcept`. `jpc` is where the
call is, `planned` and `published` its targets, `stored`, `remain` and `expired`
the Redis hash. `ready`, `delayed` and `orphaned` are bags of tasks in the broker;
`wpc` and `wtask` are a worker's place and claim. Each step of `relayActivityV2`
that another process can observe is an action: load the body, POST, finish the
target, send the retry, acknowledge. Histories (`attempts`, `accepted`,
`settled`) are read by no action. The receiver-health and metrics calls of the
handler are left out, because no delivery decision reads them; what an answer
teaches about signatures is in `SignatureNegotiation`. A malformed task (an
unknown signature profile) is left out: the API builds every task.

`QueueAdmission`. `reserved` is the Redis counter (0 when the key is absent);
`batch` and `left` are what a producer reserved and has not published. Ready
tasks are counted by origin. An answer of the reservation script that is lost is
`ReserveQueueCapacity` followed by `LoseReservation`.

`RelayLoop`. One canonical activity in a network of relays that all run this
program. `wire` counts Announces between two relays, `marker` is the token in
`relay:canonical:<sum>` at a relay; handlers run concurrently. `fanned`,
`lapsed` and `abandoned` record what became of a token. A lost answer of
`SET NX` is `Reserve` followed by `Die`. A relay sends to all its receivers
(`Receivers`) and takes the Announce of another relay only if that one is among
its followers (`Followers`); any other Announce is consumed without effect.

`FanOut`. One activity from the dispatch to its last task. `cache` is the
snapshot of the relay state, which a reload may replace between any two reads;
`snap` is the one a fan-out was planned from, `jobs` are the fan-outs handed to
goroutines, `tasks` what they queued and `refused` what the queue limit or
signature planning kept back. An activity is reduced to what the code asks of
it: its type, where Public occurs, who is addressed, whether it carries a
linked-data signature, and its object. The lists of receivers are sets of entries
with the order in which the code sorts them (`Before`); the loop over a list
leaves of each domain the first entry it does not pass over (`Targets`). The
instance has two spellings of one domain. `known` and `free` are histories:
the sender if it has been a receiver, and the author if it has been without limit
and block, at some time while the activity was handled. They let
`AudienceRespected` say who is relayed without naming the guards.

`Subscription`. `pending`, `subs`, `fols` and `mutual` are the Redis records of
a name; a number identifies the Follow a record stems from, so that a property
can say which Follow it stands for. `seen` is what a process has cached. Each
Redis call of a request or a command is a step of its own and may fail. The
errors of deletions are ignored, as in the code. Names and the two
normalisations (`StateDomain`, `ActorDomain`) are constants.

`RelayState`. `redis` is the stored state by section, `cache` the snapshot of a
process, `buf` what a load has read so far, `scan` the keys it found, `inbox` the
notifications that wait (at most `Buffer`, as in go-redis). Load is one action per
section, two for a section that is scanned. `lost` marks a process that missed a
change for a reason the code does not repair (see below).

`DirectoryLifecycle`. One directory entry. `enabled` is the configuration file,
`lease` and `store` are in Redis, `remote` is the directory's list, `late` holds
requests given up by their sender that can still arrive. Deadlines are left
open: an attempt may be due at any time, which includes every schedule. The
operator enables the entry again only while no unregister command runs. An
`unregister --remove` edits the file once more after the last save; for the
model a removed entry is a disabled one. An edit of the file that fails may have
taken effect, when only its sync failed. The configuration is assumed to be a
file with the scheduler switched on and `REDIS_URL` set.

`DirectorySchedule`. The same record, seen from its times: `next`, `observed`,
`outcome`, `digest` and the attempt counter. `lastNow` is the clock of
`monotonicNow`, `boundary` the start of the process; `reverted` is a history of
profiles that were edited back while the directory had another one. The
operator edits the file at any time; unregister resets `notBefore`, the history
of the wait, because it ends the schedule. The lease is never lost
here; that is `DirectoryLifecycle`'s subject. Times are seconds and the delays
are the program's own; the wall clock takes a few values that lie before,
between and after the deadlines.

`ConfigEditor`. `dir` is the directory as processes see it. `disk` says which
files each name may have after a power loss: the one of the last sync and all it
has had since, and each name on its own, because nothing orders renames that no
sync has covered. A lock belongs to the file that was opened, which is why an
editor reopens. The file is the set of its enabled, disabled and removed
entries. `AtomicFile` is what is left of it for a reader: one whole edit at a
time, a replacement by the operator, a power loss back to the last sync or an
edit since. This is
how `DirectoryLifecycle` treats the file, where disabling an entry is one step.
`AtomicFile` also has the one case in which the editor cannot keep the promise: a
tool that takes no lock replaces the file between an editor's comparison and its
rename (`raced`).

`SignatureNegotiation`. `store` is the capability record by origin and scope,
`plan` the profile of a request, `seen` the observation a request is about to
save, which Redis refuses when it has expired on the way. Redis may hold records
of servers from before (`Known`). A fetch may be redirected to any origin and
then plans anew; a delivery keeps its profile for all attempts. Servers are the environment, with a mode that says
which signatures they take. `failed` counts the fetches that a record misled
since the server changed: signed under RFC 9421 because of it, challenged, and
without a second request. `unsaved` counts the rejections that could not be
saved or had expired when they were.

`InboundVerification`. `clock` is real time and `offset` how far a process is
ahead; `nonce` says when a nonce expires in Redis, `held`, `cached` and `expires`
are `ActorCache`. A handler reads its clock, gets the key, checks the signature,
reserves the nonce and compares the actor. A request claims when it was made and
may claim until when it holds (`until`). A signature is good when it was made
with the key in hand over what was received; `intact` are the requests of which a
copy arrived as it was signed. The cryptography itself is outside.

Every module states its types (`TypeOK`, `VerificationTypeOK`, `EditorTypeOK`,
`StateTypeOK`); the proofs use them, or the part of them they need.

## Runs

| Run | Checks | Bounds | Distinct states |
|---|---|---|---|
| `delivery` | `NoSilentLoss`, `BodyKeptWhileNeeded`, `BodyRemovedAtEnd`, `FullRetryBudget`, `ImplementsAtLeastOnce`, `QueuesDrain` | 1 fan-out, 2 targets, 1 worker, 1 retry, 1 death, 1 failed call | 149 thousand |
| `delivery_redelivery` | `BodyKeptAcrossRedelivery`: **violated** | 2 targets, 2 workers, 1 retry, 1 death | |
| `queue_admission` | `ReservationAccounted`, `ApiWithinLimit` | 3 producers, 2 operators, limit 3, batches of 2, 2 tasks out, 1 leak | 513 thousand |
| `relay_loop` | `FanoutKeepsMarker`, `MarkerStandsForWork`, `ReflectionSettles` | 3 relays that send to each other, each with 1 follower, 2 handlers each, 1 post, duplicate, expiry and fault, 3 reservations | 375 thousand |
| `fan_out` | `OncePerDomain`, `NoReflection`, `AudienceRespected`, `ReceiversServed` | 2 domains under 3 keys with at most 2 records at first, 3 senders of which 1 is no receiver, every activity, 1 reload, a limit of 1 or 2 targets | 4.60 million |
| `subscription` | `ReceiversApproved`, `UndoIsFinal`, `AcceptNotForgotten` | 1 name, 2 requests at a time and 3 in all, 1 operator with 2 commands, 1 fault | 1.46 million |
| `relay_state` | `StaleIsReloaded`, `NewestPublisherKept`, `SnapshotsConverge` | 1 process with a snapshot, writers inside and outside it, 2 edits, 2 faults, a buffer of 1 | 69 thousand |
| `directory_lifecycle` | `OwnerSeesCurrentState`, `SchedulerQuietWhenDisabled`, `UnregisterIsFinal`, `PendingIsVisible`, `LeaseReturns` | 1 scheduler, 1 command, 1 unregister, 1 retry, 1 re-enable, 1 fault | 777 thousand |
| `directory_schedule` | `DeadlineAhead`, `ProfileInSync`, `ScheduleNotSetBack`, `RetryAfterKept` | 1 scheduler started twice, 1 command and 1 unregister, the clock set back once, 2 profiles, 2 edits of them | 2.35 million |
| `config_editor` | `ImplementsAtomicFile`, `WrittenIsDurable`, `BackupRecoverable`, `EditsReturn` | 2 editors, 2 entries, 3 calls, 1 replacement by the operator, 1 kill, 1 power loss | 169 thousand |
| `negotiation` | `NewestEvidenceKept`, `RejectionsEnd`, `EvidenceIsOwn`, `ModernDeliveryEarned` | 2 fetchers, 1 delivery, 2 origins, 4 requests, 1 redirect each, 1 change of a server, 1 failed save | 3.18 million |
| `inbound_verification` | `AcceptedOnce`, `KeysCatchUp` | 2 processes, 1 request that arrives 3 times, 1 replaced key, clocks 1 apart | 2.99 million |

The types hold in each of these instances too; they are not repeated in the
configurations.

Why these bounds are enough to be interesting. Two targets give the race on
`remain_count`; one retry separates the first from the last attempt; one death
gives every redelivery. `delivery` has one worker because liveness with two takes
too long, so two workers that finish at the same time are not in this run; that
its four invariants hold for any number of workers, targets and retries is
proved, and the violated run has two. A limit of 3 with batches of 2
lets two producers compete for the last place. Announces come back only in a
network with a cycle of three relays or more: between two, the sender is excluded.
In `relay_loop` every relay sends to the other two and takes the Announces of
one, so that the network has the cycle and also Announces that are not taken.
Two handlers are needed for a late release against a new reservation. In
`directory_lifecycle` there is one owner of the lease of each kind, and its four
invariants are proved for any number. Two keys of one domain in `fan_out` give
the duplicates that deduplication has to find, a limit of 1 or 2 targets is
reached by one fan-out or not at all, and one reload can come between any two
reads. Two edits in `directory_schedule` change the profile and change it back. Two requests and an operator are all pairs of writers of one
record. The `subscription` instance has one host in lower case without a port,
where the two normalisations are the identity; the other spellings are under
the known divergences. The lifetimes in `inbound_verification` are the smallest
that keep the margin of its assumption, so that every comparison is decided by
one unit. `negotiation` starts with servers that take both profiles; any of them
may then change to any other mode, whether Redis knows them from before or not.
Two fetches are what a late success against a newer rejection takes; more of
them are left to the proof. `ModernDeliveryEarned` says that all attempts of a
task use one profile; that half rests on the task carrying its profile, which no
action of the code changes. `inbound_verification` has one handler in each
process; handlers that share a cache are left to the proof. `config_editor`
starts with a file in which all entries are enabled. `BackupRecoverable` needs
this: of a file whose entries the operator had all disabled by hand, which
`docs/DIRECTORY-CLIENT.md:104-113` allows, the backup has none enabled. Deadlock is checked in `queue_admission` and
`directory_lifecycle`; the others stop when their bounded work is done.

### Fairness

- `delivery`: a worker runs its processors, every POST has a timeout, and the
  broker polls expired claims and due retries. Nothing is assumed of the API or
  of receivers; deaths and failures are finite.
- `relay_loop`: a request runs to its end, and a queued Announce arrives.
- `directory_lifecycle`: a run goes on, requests are answered or time out (both
  clients have a timeout), and Redis expires the lease of a dead process.
- `relay_state`: the goroutine of `ListenNotify` runs, a load that began ends, and
  a writer that wrote goes on to publish.
- `config_editor`: an editor that is not killed goes on, and gets a lock that is
  free. Nothing is assumed of who gets it first.

### What the violated run shows

A worker that dies after `finishRelayTarget` and before the acknowledgement has
its task delivered again. The second run takes the target out of `remain_count`
again. With two targets the body is deleted while the other one still needs it,
for its first attempt or for a retry, which then finds no body. `ARCHITECTURE.md` says a target reduces the
count only when it is finished, so that the payload of another receiver stays.

### Known divergences

Where the code does less than its documentation says, the passing properties
state what does hold, and name the exception. The models contain the behaviour in
question.

| Code | What happens | What is said |
|---|---|---|
| `control/follow.go:70` | the tool compares the length of the queue with the limit and publishes later; it does not see reservations. It exceeds the limit by less than the number of tools (`OperatorsWithinLimit`) | `ARCHITECTURE.md:291`: "Queue admission is bounded and atomic." |
| `internal/directorycommand/command.go:226` | a command looks at the file before it takes the lease and not after (`strayed` in `UnregisterIsFinal`) | `docs/DIRECTORY-CLIENT.md:30-31`: "Register, heartbeat, and sync refuse lifecycle traffic for a disabled entry." |
| `internal/directorycommand/command.go:396` | if a registration took effect and was not recorded, a failed unregister shows `disabled` (`PendingIsVisible` asks that nothing was lost) | `docs/DIRECTORY-CLIENT.md:224-225`: "Failure leaves the entry disabled and reports `unregister-pending`" |
| `internal/directorycommand/command.go:399` | `unregister` writes the bare wall clock to `LastObserved` (excepted in `ScheduleNotSetBack`) | `ARCHITECTURE.md:133-134`: "Wall-clock regression cannot move a persisted schedule backward." |
| `internal/directoryscheduler/scheduler.go:177` | a changed profile is sent at once, also before a `Retry-After` has passed (excepted in `RetryAfterKept`) | `docs/DIRECTORY-CLIENT.md:209-211`: "no later jitter may shorten the remote lower bound" |
| `internal/directoryscheduler/scheduler.go:171-176`, `:214-217` | a registration with a new profile that took effect but lost its answer is not recorded; if the operator then edits the profile back, the digests agree and the directory keeps the new one (`reverted` in `ProfileInSync`) | `docs/DIRECTORY-CLIENT.md:179-180`: "a changed profile triggers registration" |
| `internal/directoryscheduler/scheduler.go:95`, `:298` | a process that starts with its clock behind the record sends no start-up reconciliation; one whose clock is set back right after its start repeats it | `docs/DIRECTORY-CLIENT.md:172-173`: "At API startup, each enabled entry receives one immediate lifecycle reconciliation" |
| `internal/directoryconfig/editor.go:93` | an editor that finds the entry disabled reports success although the rename of another may not be synced yet ("found" in `WrittenIsDurable`) | `docs/DIRECTORY-CLIENT.md:79-80`: "durably disables the selected entry before sending network traffic" |
| `internal/directoryconfig/editor.go:113` | one backup serves all entries; disabling a second one replaces it (`BackupRecoverable` promises some enabled entry only) | `docs/DIRECTORY-CLIENT.md:85-86`: "retains the original pre-disable backup" |
| `models/state.go:522` | a follower is stored under the lower-case domain and deleted under the domain as written: the Undo of an actor with capitals in its host leaves the record | `models/state.go:520`: "DelFollower : Delete instance from follower list" |
| `models/state.go:417-418`, `:522-523` | the errors of the deletions are dropped: after a failed one the Undo is logged as accepted, and `unfollow` prints success, although the record stays (`UndoIsFinal` asks that Redis carried them out) | `api/resolver.go:570`: "Accepted Unfollow Request" |
| `control/domain.go:183` | `unfollow` decides on a snapshot and then asks the live state, which may have been reloaded; the record that has gone is dereferenced | `control/domain_test.go:288` expects "Invalid domain provided" |
| `api/resolver.go:804` | the Announce for followers leaves out every domain with a subscription, also one whose inbox was skipped as invalid (excepted in `ReceiversServed`) | `ARCHITECTURE.md:268-269`: "Invalid or unplannable receivers are logged and skipped while healthy receivers continue" |
| `internal/httpsignature/configured_signer.go:446` | the legacy retry after a 400 follows redirects, and its success is recorded for the origin that answered last | `internal/httpsignature/destination_negotiation.go:485-487` |
| `deliver/sender.go:158` | the client follows the redirect of a POST, and the last answer counts as that of the inbox (excepted in `EvidenceIsOwn`) | `docs/OUTBOUND-SIGNATURE-NEGOTIATION.md:28` |

`RelayState` has a limit that no document denies: a change that is published
between the first load of a process and its subscription, a failed load and a
failed publish are not made up for until the next notification (`lost`).

So has `RelayLoop`: a marker whose handler died, or could not release it, keeps
the activity out until it expires although nothing was sent (`abandoned` in
`MarkerStandsForWork`). And `Subscription`: the accept command takes a
subscriber from the pending list before it stores the record, so that a fault in
between loses the request (excepted in `AcceptNotForgotten`).

`SignatureNegotiation` has three, the last two of which `RejectionsEnd` does not
count. An observation that has expired when it is saved is refused
(`internal/httpsignature/redis_destination_capability.go:85-89`), so that the
record it would have replaced stays. A server
that comes to answer RFC 9421 with a bare 400 misleads fetches until the record
of it expires: a 400 is evidence only together with a legacy request that
succeeds, and a plan made from a record has none
(`internal/httpsignature/configured_signer.go:400`). And the second, legacy
request of a fetch that is redirected to a server nothing is known of is signed
anew under RFC 9421, with a fallback that `DoGET` no longer takes
(`internal/httpsignature/configured_signer.go:419-455`).

## Proofs

All theorems hold for every value of the constants that satisfies the named
assumption of the module (bounds are naturals, sets of targets, producers,
operators and fetches are finite, kinds of processes are disjoint, special values are
distinct). They hold for any bound on crashes and faults. Every strengthening
was an invariant of a TLC run before it was proved.

Four proof modules treat two components each: they extend both modules, which
share no variable and no name. This is why `InboundVerification`, `ConfigEditor`,
`RelayState` and `FanOut` name their parts `VerificationInit`, `EditorNext`,
`StateSpec`, `FanOutSpec` and so on.

- `DeliveryProofs`: `TypeCorrect`, `NothingLost`, `RetriesAllUsed`, `PromiseKept`.
  `NoSilentLoss` is inductive with the types: the retry is sent before the claim
  is dropped, and a target is settled before. `FullRetryBudget` needs that a task
  with `r` retries left has had at least `RetryCount - r` attempts (`AttemptInv`).
  `PromiseKept` is the refinement of `AtLeastOnce` without its fairness
  (`Promise!Safety`): every task is a copy of a published one (`PublishedInv`), so
  every step maps to `Queue`, `Receive`, `Finish` or a stutter.
- `DeliveryBodyProofs`: `BodyKept`, `BodyRemoved`. They need `BodyInv`: until a
  worker dies a delivery has one copy, in a queue or in a hand (`SingleInv`), and
  `remain` is at least the number of unsettled targets; until a Redis call fails
  it is at most that number (`CountInv`).
- `AdmissionProofs`, first part: `CounterExact`, `ApiBounded`, `OperatorsBounded`
  of `QueueAdmission`. The first two are inductive together with the types. What a
  producer reserved is counted as a set of cells, so that the sum over producers
  is a cardinality.
- `AdmissionProofs`, second part: `NeverTwice` (`AcceptedOnce`), `NoncesEarned`
  (`IntactOnly`) and `KeysReplaced` (`KeysCatchUp`) of `InboundVerification`.
  The assumption is the margin
  `MaximumAge + FutureSkew + MaxResolve + MaxDrift < ReplayTTL`: the code checks
  the first two terms, the defaults leave 270 seconds for the others. `TimeInv`
  bounds how old a handler's clock reading is, `NonceInv` says that a nonce
  outlives every handler that could still set it, so that it is set once, and
  `BindInv` that from then on the request is in the hands of one handler or has
  been accepted once. `IntactOnly`, which is in no run, says that
  damaged copies of a request do not use up its nonce; `IntactInv` follows a copy
  from its arrival past the check of the signature. `KeyInv` says that a cached key was the sender's when its
  cache entry was made.
- `RelayProofs`, first part: `NoSecondFanout`, `MarkerMeansWork` of `RelayLoop`.
  The strengthening (`TokenInv`) says that a handler in progress holds a token of
  its own that is in the key or has expired. Who sends to whom and who takes
  Announces of whom is arbitrary.
- `RelayProofs`, second part: `StaleSnapshotsReload` (`StaleIsReloaded`),
  `NewestCountKept` (`NewestPublisherKept`) of `RelayState`. Unless a change is
  still to come, what a load has read so far is what Redis holds, section by
  section in the order of `Load` (`LoadInv`), and so is the snapshot of a process
  that does not load (`RestInv`).
- `ReceiverProofs`, first part: `ReceiversAreApproved`, `AcceptsAreKept`,
  `UndosAreFinal` of `Subscription`. What is about to become a record was handled without manual
  approval or accepted (`SourceInv`); a follower is stored before it is answered
  (`StoredInv`). For the Undo: nothing else works for the name of a request that
  nothing overlapped (`QuietInv`), so its record is still gone when the pending
  request is deleted (`GoneInv`; a deletion that fails ends the quiet), and no request or command that could bring it
  back has read it (`UndoInv`). `UndosAreFinal` has the hypothesis `LowerCase`,
  that hosts are written in their normal form; without it the property is false
  (see the known divergences).
- `ReceiverProofs`, second part: `SentOncePerDomain` (`OncePerDomain`),
  `NothingReflected` (`NoReflection`), `AudienceIsRespected` (`AudienceRespected`),
  `ReceiversAreServed` (`ReceiversServed`) of `FanOut`. The handler keeps to the
  route of its activity (`PathInv`), and the tasks and refused domains are those
  of the fan-outs made so far, all planned from one state of the cache
  (`WorkInv`). An activity past a check had its sender in `known` or its author in
  `free` (`CheckInv`). What is left is about the choice of targets from one list: each
  domain that has an entry to serve has a target (`DomainsCovered`, again by a
  least element) and only one (`OneTargetPerDomain`), and the two fan-outs of a
  signed note have no domain in common (`FanoutsApart`). The assumption is that
  keys are sorted without ties and have a domain.
- `DirectoryProofs`, first part: `OwnerCurrent`, `SchedulersQuiet`,
  `UnregisterFinal`, `PendingSeen` of `DirectoryLifecycle`, from one invariant.
  While no lease expires under a live owner, whoever is past `Acquire` owns the
  lease (`LeaseInv`), so the file is disabled only while no scheduler is past its
  recheck (`FileInv`); then only unregister requests reach the directory
  (`RemoteInv`), and what the directory lists is recorded or about to be
  (`PendingInv`).
- `DirectoryProofs`, second part: `EditsAreAtomic` (`ImplementsAtomicFile`),
  `EditsAreKept` (`DecisionsKept`), `SuccessIsDurable` (`WrittenIsDurable`),
  `BackupIsThere` (`BackupRecoverable`) of `ConfigEditor`. `EditsAreAtomic` is the
  whole refinement of `AtomicFile`: with `LockInv` and `BackupInv`, a rename maps
  to `Edit` (or, after a race, to `Overwrite`), a sync to `Save`, and everything
  else an editor does to a stutter. `DecisionsKept`, which says the same from the
  side of an editor that reported success, is in no run of its own. An editor renames over the file it locked (`LockInv`); a
  disabled entry is so in the file that has the name, and on the disk once the
  editor has synced (`KeptInv`); without a backup on the disk nothing has been
  changed and no editor is about to (`BackupInv`). All of this is said of every
  file a name may have after a power loss, since the loss picks any of them.
- `DirectoryScheduleProofs`: `DeadlinesLieAhead`, `SentProfilesListed`,
  `RecordTimeGrows` (`ScheduleNotSetBack`), `WaitsAreKept` (`RetryAfterKept`), for
  any delays, clock and number of failures. `WaitInv` ties the wait to the record
  that a restart reads. Profiles may be edited to any other and back, so they have
  no order: `SentInv`, `ListedInv` and `PresentInv` say when those of record,
  request, directory and file agree (`Agrees`) unless one was edited back. The backoff doubles, and that it never falls below its first
  value is a statement about a recursive function. It is proved by a least
  counterexample (`Least`, from the well-foundedness of the naturals).
- `SignatureNegotiationProofs`: `NewestObservationWins` (`NewestEvidenceKept`),
  `RecordsRestOnAnswers` (`EvidenceIsOwn`), `ModernDeliveriesEarned`
  (`ModernDeliveryEarned`). The invariant follows the evidence: an answer that is
  being looked at was given by the server it will be recorded for (`AnswerInv`),
  an observation that waits to be saved is supported by an answer (`SeenInv`), and
  so is the record. A fetch uses the legacy profile only with a server that has
  rejected RFC 9421 (`FetchInv`), also after a redirect in its second request:
  the plan then comes from a record of the new server. A record is never newer
  than the newest observation (`LatestInv`).
  `RejectionsAreBounded` (`RejectionsEnd`) is a counting argument. For n fetches
  the bound is 1 + 2 + ... + n and one more for every save that failed. It is
  reached by instances of two and of three fetches. `BudgetInv` adds up the
  failures so far, the fetches that can still fail before the record changes
  (`AtRisk`), and what successes from before the change, saved late, can bring
  about (`Late`, `Renewals`). A failure spends a place in `AtRisk`. A late success
  puts all fetches that have none at risk again, and is itself gone for good. A
  rejection that is saved replaces the record, unless the record is newer
  (`WarnedAt`). The sets are counted with the theorems on cardinalities, and the
  sums are quadratic (`AtTheChange`, `OneLateLess`).

Only model-checked is everything temporal beyond invariants, action properties and
refinement (`QueuesDrain`, `ReflectionSettles`, `LeaseReturns`, `EditsReturn`,
`SnapshotsConverge`, and the fairness of `AtLeastOnce`, which
`ImplementsAtLeastOnce` includes): liveness under fairness is out of the prover's
reach. Every invariant and every action property of the runs is proved.

## Not modelled

- The directory client's version negotiation and validation of answers:
  sequential checks of one answer, without state that outlives it.
- Receiver health: counters and timestamps for the status page; no decision of
  the relay reads them.
- Start and shutdown of the HTTP servers: one process, with the timeouts of the
  standard library's server.
- The register task of the worker: the control flow of `relayActivityV2` without
  a shared body.
- The import of a configuration, in `Subscription`: `importConfig`
  (`control/config.go:158-166`) writes receivers that nobody approved, which is
  what it is for. As a writer of the state it is in `RelayState`.
- Status pages, metrics and Prometheus output: read-only.
- Settings, key files and their validation at start-up: sequential.
- The resource guard, the site generator, packaging and probes: outside the
  running relay.
- Cryptography, YAML and JSON syntax, URLs: abstracted to what the decisions read
  from them.

Modules are composed through what they share and not in one specification:
`Delivery` takes any set of targets where `FanOut` chooses one, and `FanOut` takes
any sequence of snapshots where `RelayState` says which ones there are. A product
of two of them is beyond TLC at bounds where both still do something.
