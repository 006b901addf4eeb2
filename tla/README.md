# Verification of estate-ci

TLA+ models of estate-ci, the broker between a web console and GitHub Actions,
with TLC configurations that check them on small instances and TLAPS proofs
that hold for instances of any size. Paths below are relative to the
repository.

## The system

The API server runs as two replicas without shared memory. What they share is a
create-only bucket (objects are written with `ifGenerationMatch=0` and never
changed; lifecycle rules remove them after 400 or 90 days) and GitHub.

| component | state it keeps | operations | what makes it hard | what makes it correct |
|---|---|---|---|---|
| operation service, `internal/operations/service.go` | none of its own; everything durable is in the bucket | `Create` (submit, retry), `prepare`, `resume`, `complete`, `finalize` | two replicas and many goroutines run the same submission; interruption between any two calls; answers that are lost | the mutation is sent at most once; keys are used once; a verdict is true; a receipt, once answered, is durable |
| audit bucket and repository, `internal/storage/gcs.go`, `repository.go` | replay objects, requests, dispatch records, results, receipts, snapshots, evidence | create, get, list | a reservation is three writes; an upload that is reported as failed may have happened; listing is bounded | what is stored is consistent, whoever wrote it |
| GitHub broker, `internal/githubapp/client.go` | two installation tokens | `Prepare`, `Dispatch`, `Recover` | it reads a branch, a run, a list of runs at different moments; effects appear after their answers; other people use the same runs | an outcome is concluded only from what shows it |
| role resolver, `internal/auth/roles.go` | a cache per replica | `RoleFor` | concurrent lookups, no lock during the calls, cached roles of people who left | a role is not older than its lifetime allows; a member gets the role |
| IAP validator, `internal/auth/iap.go` | the cached key set of Google | `Validate` | the lock is held over the fetch; keys are rotated; the clock is read twice | a published key is found, a withdrawn key or an expired assertion is not accepted late, waiting is bounded |
| token sources, `internal/adc/metadata.go`, `internal/githubapp/client.go` | a cached token each | `Token` | the lock is held over the fetch; expiries are reckoned from an answer that may be old; margins | a token outlives the call it is used for |
| operation catalog, `internal/operations/catalog.go` | read at start | `LoadCatalog`, `Authorize` | three sources of a workflow ID | only enabled, bound operations pass |
| contract, `internal/contract` | none | digests, signatures, validation, canonical JSON | validation rules that relate several records and times | a sealed record is what was sealed, and can be read back |
| HTTP API, `internal/api/server.go` | none | read routes and one POST | roles, catalogs and evidence change while a request is served | nothing is admitted without a requester and a distinct approver |
| web console, `web/components/estate-console.tsx` | what it loaded; the form for operations | load, select, edit, submit | evidence arrives late and in any order; retries | it submits only what the evidence it cites approves |
| entry point, `cmd/estate-ci-api/main.go` | what it built of its environment | start, stop | mode, catalog, dispatcher, validator and App identities are checked in three places | what must not be combined does not start |
| private key files, schemas, inventory tool, deployment base | | | static or user interface | |

How they interact: the API server validates the IAP token, resolves the role
and calls `Service.Create`. `Create` reads the catalog, the evidence and the
roles of the approvers, reserves the request identity, the evidence binding and
the approval in the bucket, stores the request, and asks the broker to prepare.
The dispatch record, which holds what the broker observed, is created before
the mutation is sent; its creator is the only one to send. Everybody else
resumes: stored result first, observation of GitHub second. Result and receipt
are create-only too, so two handlers that conclude at once agree on the first.

## Modules

| module | models |
|---|---|
| `OperationLedger` | what an operation promises: granted, sent once, decided by GitHub, one verdict, one publication |
| `OperationService` | `Service.Create` and all it calls, each call to the bucket or to GitHub a step; implements `OperationLedger` |
| `OperationServiceProofs` | the inductive invariant and the theorems |
| `OperationLedgerProofs` | that `OperationService` implements `OperationLedger` |
| `MCOperationService` | instances for TLC: the submissions |
| `Provider` | what `OperationService` takes for granted about a dispatcher |
| `GitHubBroker` | `Broker.Prepare`, `Dispatch`, `Recover` with each request to GitHub a step, and branch, run and run lists of GitHub; implements `Provider` |
| `GitHubBrokerProofs` | its inductive invariant and theorems |
| `ProviderProofs` | that `GitHubBroker` implements `Provider` |
| `MCGitHubBroker` | symmetry |
| `Contract` | the rules for evidence, requests and catalogs, as operators |
| `Submission` | the form of the console, `createOperation`, and `Service.Create` up to the reservation |
| `SubmissionProofs` | its inductive invariant and theorems |
| `MCSubmission` | one console, another client, three people, two replicas with different catalogs |
| `AuditTrail` | listing and reading receipts and snapshots while they are added and expire; the repository in memory |
| `AuditTrailProofs` | its inductive invariant and theorems |
| `MCAuditTrail` | symmetry |
| `Credentials` | the three cached credentials: verification keys, workload tokens, installation tokens |
| `Replica` | a process: what `run` and `NewServer` make of an environment, then `Credentials` in those that start, then its stop |
| `ReplicaProofs` | the inductive invariant of the caches and theorems about both |
| `MCReplica` | environments, catalogs, lives and max-ages |
| `WorkspaceRoles` | `RoleFor`, its cache, the calls to Cloud Identity, people who join and leave |
| `WorkspaceRolesProofs` | its inductive invariant and theorems |
| `MCWorkspaceRoles` | two groups, operators and approvers |

Operators named in a comment that starts with *Variant* are plausible mistakes
in the code. Nothing in a specification uses them; put in the place of the
operation they follow, they violate the property listed for them in
`PROJECT.json`, so each property is known to depend on that operation.

### OperationService and the code

A *handler* is one goroutine of some replica. `pc` is the call it makes next and
`call` its local variables; a local computation belongs to the step that makes
the next call. The labels in the order of the code:

| label | code |
|---|---|
| `lookup`, `evidence` | `Create`, lines 57-97 |
| `reserveRequest`, `reserveBinding`, `reserveApproval` | the three writes of `GCSRepository.ReserveRequest` |
| `reread` | lines 113-119, after a conflict |
| `putRequest` | lines 123-133 |
| `prepare`, `putDispatch`, `dispatch`, `response` | `prepare`, and `Broker.Dispatch` in two halves |
| `getDispatch`, `getResult`, `recover` | `resume` |
| `putResult`, `readResult` | `complete` |
| `putReceipt`, `readReceipt` | `finalize` |
| `idle`, `replayed`, `pending`, `answered` | the call has returned, with another error, `ErrReplay`, `ErrPending`, a receipt |

The bucket is seven functions from names to objects, one per prefix. `Create`
is the conditional upload: created, conflict, or an error that says nothing
about whether the object was written. Every read may fail too. `CutOff` stops a
handler between any two steps and stands for a cancelled request (`WriteTimeout`
of 30 s, client gone) and for a replica that stops or dies: nothing durable
changes in any of these cases. An upload that lands after its sender was cut off
is an error answer whose handler is slow to be cut off.

Data is abstracted: a digest is the record it covers, a signature is left out,
an evidence check has either outcome, a nonce and a receipt identity are drawn
when the first object that shows them is written. `expires_at` keeps the
difference between what was submitted and the canonical text that is stored
(`StoredAs`), because the comparison is textual. `DayOf` keeps the date in the
receipt's object name.

What the service asks the broker is abstracted to an *epoch* of the target: how
many run attempts, new runs or cancellations can be seen. `Prepare` keeps it as
the baseline or rejects; `Recover` compares. GitHub takes a mutation on or turns
it down at any time after it was sent, and shows the effect later still
(`ShowEffect`). `FailClosedDispatcher` does not appear: `NewServer` demands a
catalog that is not connected with it, and `Authorize` refuses every operation
of such a catalog before the dispatcher is asked (`WiredSafely` of `Replica`).

### GitHubBroker and the code

The reads of `Prepare` (`ObserveMain`, then `ObserveRun` or
`ObserveWorkflowRuns`) are separate steps, so the branch or the run may change
between them, before the dispatch record is stored and before the mutation is
sent. `run` is the run named in the request; `dispatched` are the workflow's
runs in the order of their identities, of which the listing shows one page of
those at the requested commit, or nothing if it does not fit into the 256 KiB
that are read. `others` counts the changes other people make; a token remembers
the count, so the properties can tell whether anybody else touched the target.
Checks of the answer's form (URL prefix, lengths) are left out.

The link between the two modules is `Provider`. Its `Observed` is the one of
`OperationService`, its `Conclude` allows the answers that `ReceiveResponse` and
`Recover` allow there, and `ImplementsProvider` says that `GitHubBroker` never
does anything else. In particular the epoch of a cancellation counts
cancellations, not the state of the run, and a refresh counts only as long as
there is one newer run.

### WorkspaceRoles and the code

A lookup holds no lock while it asks Cloud Identity, so another lookup of the
same address may write the cache meanwhile, and a membership may change after
it was sampled. `Tick` keeps the client's time limit of ten seconds: a call that
is under way may not last longer than `CallTime`. A full cache is emptied before
an entry is written. Each replica has its own resolver and cache, and they do
not interact, so one is modelled.

### Submission and the code

`Submission` is what comes before `OperationService`: where a submission comes
from and why it is admitted. `CheckEvidence` of `OperationService` leaves the
outcome of these checks open; the reservation, which is three writes there, is
one step here.

`form` is the state of the component `Operations` and `fetches` the requests for
evidence whose answers have not come. An answer changes the evidence, the reason
and the operation, whichever repository is selected by then (`WithEvidence`);
what is derived at every rendering (`selectedOperation`, `approvalMatches`,
`canOperate`) are operators on the form. Leaving the view or reloading drops the
form and what would arrive for it. What a form says is kept as far as it differs
for the user: a receipt, pending, a replay, another problem.

A call of the API is at `authenticate` (`Server.authenticate`, the role check of
`createOperation`, `Catalog.Authorize`), `lookup` (lines 71-86), `evidence`
(`GetEvidence` and `validateEvidence` up to the approvers), `approvers` (one
look-up of a role per step) or `reserve` (lines 94-133). `call.now` is the one
reading of the clock. Each replica has a catalog document; any of them may serve
any request, as during a rollout. Evidence is filed once and snapshots cite it;
`RoleChange` is a change of what `RoleFor` answers, which `WorkspaceRoles` is
about. CSRF, origin, content type and the form of fields are left out.

### AuditTrail and the code

A listing is a page of names and then one read for each. Objects that come later
are not in it, and one that has expired by its turn makes the listing fail as
*not found*, which the API answers with 404 like an object that never was.
`ListBound` are the 1000 names of a page: more are an error. Names of receipts
are in the order of their dates, names of snapshots are the collector's choice.
A snapshot may be invalid (`sealed`), since the repository does not write it;
receipts are sealed when they are written. Timestamps may be older than the
object: a receipt bears the time of its result. `sort.Slice` may leave objects of
the same time in any order, so what a listing answers is a set of pages
(`Newest`), of which any may be the answer. `MaxLimit` is the 100 that a page
may have, and the length of the list that the latest snapshot is taken from.

`backend` tells the two repositories apart. `MemoryRepository` holds a lock
instead of listing, so it answers in one step (`ReadAtOnce`) from what development
seeded and from its receipts; the same operators make the answer.

### Credentials, Replica and the code

`key` of the validator and `Token` of both sources have one shape: lock, look at
the cache, fetch under the lock, replace the cache, unlock. `Lock`, `Receive` and
`FetchFails` are its steps, and what differs is in operators by the `kind` of
credential: `KeyUsable` and `TokenUsable`, `Acceptable`, `ExpiryOf`,
`CacheLifetime`. The caches share nothing, so a behaviour is about one kind.

The mutex is Go's. It is held exactly while a fetch is under way; a section that
finds the credential usable is one step. `queue` holds the handlers that sleep
(`Park`), in turn. When the mutex is free, `Lock` gives it to the head of the
queue, which has been woken, or to a newcomer that comes first (`asking`). A head
that was overtaken and finds that it has slept for more than a millisecond starves
(`mutex = "starving"`): newcomers then go to sleep as well, and the mutex is handed
from head to head until the queue is empty or one gets it that has waited for less.
Whether the head notices that it was overtaken depends on what the newcomer does: a
fetch lasts longer than a millisecond, so the head finds the mutex held, and with an
instant behind it, it starves; a section from the cache may be over before the head
looks, so it may go on being overtaken that way, which costs no time. What this
leaves out is shorter than a millisecond: a fetch that fails at once, or a newcomer
that still spins when the mutex is released and takes it before anybody is woken.
Neither adds to a wait that is counted in seconds, unless it happens at every
release without end.

Time passes only during requests: `InTime` lets the clock move on when no client
timeout has passed and nobody has code to run. The endpoint answers at any moment
of a fetch (`EndpointAnswers`), and the answer arrives at any later one, which is
how the expiry of a workload token comes to be reckoned too late. A fetch may
fail at any moment. `held` is what the handler works with: the assertion until it
is verified, then the token of the call under way.

`Environments` are what a process may be started in: a mode, a catalog document,
whether the origin uses HTTPS, whether everything that is required is set and
readable (`complete`), and two App identities. `Starts` is what `run`,
`connectedDispatcher`, `seedDevelopment`, `NewCatalog` and `NewServer` demand
together, `Built` what they make of it. A process fetches only the credentials
of parts it has (`Fetched`). `Stop` loses the caches and every waiting handler.

## Runs

| run | instance | properties | what it shows |
|---|---|---|---|
| `reuse` | 4 submissions that share identities, bindings, approvals and a workflow run, 2 handlers, failures | `TypeOK` `AtMostOneMutation` `SingleUse` `AnnouncedBeforeSent` `OutboxConsistent` `ImplementsLedger` | competition for the keys, the outbox that results, and the refinement of `OperationLedger` |
| `recovery` | 1 refresh, 3 handlers, midnight, 2 changes by others | `NoFalseRejection` `AcceptedIsObserved` `OneReceipt` `AnswerIsDurable` `PendingHasOutbox` | races of a call and its retries for the verdict and the receipt |
| `liveness` | 1 submission, 2 handlers, failures that end | `CallsReturn` `ResultReachesReceipt` `ObservedIsConcluded` | progress of calls and of retries |
| `broker` | 2 callers, all three operations, 2 changes by others, pages of 3, 2 readable runs | `BrokerTypeOK` `AcceptedIsOwn` `ReferenceIsNew` `ImplementsProvider` `ShownIsFound` | what the broker concludes from what it reads |
| `roles` | 2 lookups, 2 addresses, 2 groups, cache of 1 | `RolesTypeOK` `RoleNotStale` `MemberIsGranted` | how far a role can lag behind the memberships |
| `submission` | 1 console, 1 other client, 3 people, 2 replicas with a version 1 and a version 2 catalog, 3 pieces of evidence, 2 fetches at once | `SubmissionTypeOK` `ApprovedExactly` `ConsoleBinds` `AuthorisedByTwo` | what can be admitted, and what a console can submit |
| `trail` | 1 reader, 3 objects, pages of 2, lists of 1 and 2 | `TrailTypeOK` `ListHasNoGap` `GetIsRight` `SnapshotsMoveOn` | what can be missing from a listing |
| `replica` | 896 environments; 2 handlers, each kind of credential, 1 rotation, a stop | `CredentialsTypeOK` `TokenOutlivesCall` `WaitBounded` `VerifiedInTime` `KnownKeyIsFound` `EveryAskEnds` `WiredSafely` | cached credentials are valid when they are used, waiting for them is bounded and ends, and only sound configurations serve |
| `interrupted` | 1 submission, 1 handler, failures | violates `ReplayedOnlyByAnother` | finding 1 |
| `late_dispatch` | 1 submission, time passes between calls | violates `SentBeforeExpiry` | finding 2 |
| `misattributed` | 2 submissions for one run | violates `AcceptedIsApplied` | finding 3 |
| `console_retry` | the instance of `submission` | violates `PendingIsResumed` | finding 4 |

### Findings

1. `README.md:105` asks to retry an interrupted submission with the same body
   and identity. If it was interrupted after its first replay object and before
   `PutRequest`, the retry is answered `ErrReplay`, for ever. The same answer
   meets, once, a retry that overlaps with the first call between its
   reservation and its `PutRequest`. So is the retry of a submission whose
   `expires_at` is valid RFC 3339 but not in the form `contract.Timestamp`
   writes, since the stored text is compared with the submitted one; `StoredAs`
   keeps this difference, but no run has an instance with both spellings.
2. `README.md:20` says that requests expire within ten minutes. A request that
   was stored and not yet prepared is prepared and sent whenever it is retried.
3. `README.md:26` says that observation proves the outcome. Any newer attempt,
   single newer run or cancellation counts, whoever caused it.
4. `server.go:311` tells the user of a pending outcome to retry without changing
   the request identity. The console draws a new identity on every press of the
   button and keeps none, so the retry it offers is answered
   `OPERATION_REPLAYED`, and the outcome stays open.

### Bounds

* Handlers: every hazard here is between a call and one retry, or between two
  submissions; `recovery` takes three so that one can finish while two race.
* Submissions: `MCReuse` has for each of the three keys two submissions that
  share it, pairs that share one key but not the others, and two that are for
  the same workflow run. Nonces and receipt
  identities are as many as the submissions that can be stored, and one more
  than one, since unused draws are indistinguishable.
* `MaxTime`: 0 where time plays no part, 1 for midnight, 2 to pass an expiry.
* `MaxEpoch`: 2 changes by others make a refresh unrecognisable and a rerun
  doubly observed.
* `broker`: a page (`PerPage` = 2) is cut when the initial run, the other users'
  and the request's own are there, in Prepare as in Recover, and 2 is the least
  for which Recover can tell one newer run from two. Of the pages, the one of the
  runs 1 and 3 is `Unreadable`, which comes up when run 2 is at another commit; the
  initial list holds a run or none.
* `roles`: `TTL` = 2 and `CallTime` = 1 make an entry serve lookups of several
  clock values; the clock ends at 5, one after the longest lag
  `TTL + 2 * CallTime`. `Mover` restricts who joins and leaves; the other
  address, with any memberships, is there to empty the cache.
* `submission`: one call at a time is enough, since calls meet only in the
  bucket, whose races `OperationService` has; the console, people, replicas and
  time interleave with its steps. Two repositories and two fetches let an answer
  arrive for the repository that is no longer selected; evidence that expires at
  1 and a clock that ends at 1 let it expire between any two steps. There are two
  people, and all evidence names both as approvers, so its requester too: the
  user of the console, and a user of another client who becomes an approver and
  stops being one, and an operator, at any moment. So an approver moves under the
  requests of the one and a requester under those of the other.
* `trail`: three objects, so that a page of two overflows and a list of one is
  cut; `Retention` = 1 lets objects expire while they are read and be replaced
  by later ones with older timestamps.
* `replica`: an instant is 15 seconds or more, so a fetch and a call last one
  each; the margin of 3 is the least that covers both with an instant to spare,
  as 60 s does. Lives of 1 (refused), 3 (the margin) and 5 (the maximum) are
  answered, and max-ages within and beyond the bounds. A clock of 5 lets a cache
  expire and be filled again, and the margin be reached in the cache. Two
  handlers are one that fetches and one that sleeps, and is overtaken by the first
  when it comes back; both bounds of `WaitBounded` are attained. `WaitBounded`
  counts handlers, and nothing else depends on their number. One rotation
  withdraws a key and adds one.
* Symmetry under permutations of handlers, nonces, receipt and object
  identities is used for safety only.

Deadlock is checked in all runs, since a client may always submit again, but in
`replica`, where a process is refused or stops.

### Fairness

`FairSpec` of `OperationService` assumes that a goroutine that can take a step
takes one (`WF` of `Serve`), that GitHub decides on what it was sent, that
failures and interruptions end (`Stabilise`), and that a client keeps
submitting (`SF` of `Submit`, which `README.md:105` asks of it). It assumes
nothing of `ShowEffect`: an effect may never be seen, and then the request stays
pending. `FairSpec` of `GitHubBroker` is the same for one request; retries are
`WF` of `Recover`, since a caller that is idle can always ask again.

`Replica` assumes that a handler that asks for the mutex takes it or goes to sleep,
and that one that was woken takes it if nobody else has (`WF` of `Park` or `Lock`);
that newcomers do not overtake it for ever follows from the starvation mode, not
from fairness. And it assumes that a fetch ends, with an answer or by the timeout of its client
(`WF` of `Receive` or `FetchFails`). Both are per handler and only while the
process serves: a handler whose process stops is gone.

`ObservedIsConcluded` is about reruns and rejected preparations. For a refresh
two newer runs, and for a cancellation a later rerun, take the evidence away
again; `ShownIsFound` says for all three operations that the effect is found
unless others touch the target or the list of runs cannot be read.

## Proofs

`OperationServiceProofs` proves, for any finite or infinite sets of handlers,
submissions, identities and targets, any clock and any failures:

| theorem | property |
|---|---|
| `TypeCorrect` | `TypeOK` |
| `AtMostOnce` | `AtMostOneMutation` |
| `ReservedOnce` | `SingleUse` |
| `Announced` | `AnnouncedBeforeSent` |
| `Consistent` | `OutboxConsistent` |
| `RejectionIsTrue` | `NoFalseRejection` |
| `AcceptanceIsObserved` | `AcceptedIsObserved` |
| `ReceiptIsUnique` | `OneReceipt` |
| `DurableAnswer`, `PendingIsDurable` | the action properties of the same meaning |
| `Invariance` | `IInv`, the inductive invariant |

`WorkspaceRolesProofs` proves, for any number of lookups, addresses, groups and
cache entries and any lifetimes:

| theorem | property |
|---|---|
| `RolesTypeCorrect` | `RolesTypeOK`, with the limit of the cache |
| `RoleIsRecent` | `RoleNotStale` |
| `MemberGetsRole` | `MemberIsGranted` |
| `RolesInvariance`, `GrantInvariance` | `RolesInv`, `GrantInv`, the inductive invariants |

`RolesInv` adds to the types that a membership which was sampled existed when
the call began or later (`SampleInv`), that a call that is under way is no
longer than its time limit (`CallInv`), and that an entry was no older than one
call when it was written (`EntryInv`). The step that matters is the write of a
slow lookup over a newer entry: the entry it leaves still satisfies `EntryInv`,
since its lifetime is counted from the write and its sample from the call. The
lemma `HistoryStep` says that the last moment of a membership only moves on, so
time passing and people leaving disturb nothing that was established.

`GrantInv` looks the other way, at what is withheld. It is stated with `Absent`:
an address was not in a group before some time. The groups that a lookup has
gone past did not have the address when it `Began`, which is reckoned back from
the call under way, one `CallTime` for each call before it (`PassedInv`,
`NotFoundInv`); an entry withholds a stronger role only from those who were
absent one `Horizon` before it expires (`WithheldInv`), and an answer only from
those who joined less than a `Horizon` ago (`DeniedInv`). The bindings are sorted,
so a group that is found is no weaker than those that were not asked about.
An answer that does not come from the cache needs a positive `TTL` for this
(it is two minutes).

`OperationLedgerProofs` proves `ServiceImplementsLedger` (`ImplementsLedger`). Each
step of `OperationService` is at most one of the ledger: `PutRequest` grants,
`SendMutation` sends, GitHub's steps decide, `PutDispatchResult` gives the
verdict, `PutReceipt` publishes, and everything else is a stutter of the four
values that the mapping computes (`GrantedNow` to `PublishedNow`). `IInv` supplies
the guards: that the keys are free is what the three replay objects stand for
(`RequestsInv`), that nothing was sent is `OneSender` and `ProviderInv`, that a
verdict is allowed is `Justified`, and that the receipt repeats it is
`ReceiptsInv`.

`GitHubBrokerProofs` and `ProviderProofs` prove, for any number of callers,
commits, runs, attempts and changes by others, and any page of two or more:

| theorem | property |
|---|---|
| `BrokerTyped` | `BrokerTypeOK` |
| `AcceptedIsTheirOwn` | `AcceptedIsOwn` |
| `ReferenceIsAlwaysNew` | `ReferenceIsNew` |
| `BrokerImplementsProvider` | `ImplementsProvider` |
| `BrokerInvariance` | `BInv`, the inductive invariant |

`BInv` rests on `Tells(b)`, what a recovery state says of everything after it:
any run that is newer is the request's own or was counted among the changes of
others; attempts and cancellations beyond the baseline are at most the effect
that was shown and those changes; a run found cancelled was cancelled since. It
holds of a state when `Prepare` takes it and no step of GitHub undoes it, so it
holds of the stored token whatever happened in between. For a list of runs the
proof needs little of the page: it holds the newest run (`NewestIsListed`), so
the baseline of `Prepare` is the greatest identity there is, and it holds the two
newest, so `Recover` finds a single newer run only if there is a single one. The
second is why a page must hold two (GitHub's holds 100). `ImplementsProvider`
counts: the epoch is the number of matching runs, the attempt or the
cancellations, and a token stands for the epoch below its baseline.

`SubmissionProofs` proves, for any number of consoles, clients, people, replicas
and calls, any evidence and any catalogs that validation accepts:

| theorem | property |
|---|---|
| `SubmissionTyped` | `SubmissionTypeOK` |
| `AdmittedIsApproved` | `ApprovedExactly` |
| `ConsoleIsBound` | `ConsoleBinds` |
| `TwoAuthorise` | the action property `AuthorisedByTwo` |
| `SubmissionInvariance` | `SubmissionInv`, the inductive invariant |

`CallInv` lists what a call has established at each place of `Create`: the role of
its requester and the catalog (`Admissible`), that the evidence binds and is
current (`Checked`), the approver (`Seconded`). Each is stated so that no other
step undoes it, although roles, snapshot and clock go on: evidence is compared
with the one reading of the clock and stays on file, and roles count as last
seen. `ConsoleBound` is established by `Submit` alone, from `canOperate` on the
form as it is then; no order of evidence answers matters, since the form cites
the evidence it compares with.

`AuditTrailProofs` proves, for any number of readers and objects, any limits and
any retention of at least one unit of time:

| theorem | property |
|---|---|
| `TrailTyped` | `TrailTypeOK` |
| `ListIsWhole`, `ReceiptIsRight`, `SnapshotIsNoOlder` | the action properties `ListHasNoGap`, `GetIsRight`, `SnapshotsMoveOn` |
| `TrailInvariance` | `TrailInv`, the inductive invariant |

`GoneInv` is what makes a listing meaningful that is read object by object:
whatever a reader has heard of is stored or was written before now, and what is
written is written now, so what is gone does not come back. `CompleteInv` says
that what was stored when a reader began, and still is, is among its names and
its values, and `LatestInv` that the snapshot it was answered before was there
when it began. The rest is about sorting and cutting: `Sorting`, `Cutting`,
`Paging` and `FirstIsNewest` say of any order that `sort.Slice` may give that
what a page leaves out is no newer than what it has.

`ReplicaProofs` proves, for any number of handlers and rotations, any answers,
any environments, and any timeouts, margins and lives that satisfy
`TimeoutAssumption`:

| theorem | property |
|---|---|
| `TypeCorrect` | `CredentialsTypeOK` |
| `TokensOutliveCalls` | `TokenOutlivesCall` |
| `WaitsAreBounded` | `WaitBounded` |
| `VerificationIsFresh`, `KnownKeysAreFound` | the action properties `VerifiedInTime`, `KnownKeyIsFound` |
| `WiringIsSafe` | `WiredSafely` |
| `CredentialsInvariant` | `CredentialsInv`, the inductive invariant |

What the properties rest on is spread over `CredentialsInv`. `QueueInv`: who
sleeps is in the queue once and who fetches is not in it, so while there is a fetch
the queue has room for all handlers but one. `WaitInv`: how many turns of the mutex
can have been over while a sleeper sleeps is bounded by the handlers that are not
behind it (`MaxTurns`), with one more when no fetch is under way, since the last turn is then
over, and one more while the head starves, for the newcomer that went before it
(`Spare`); the elapsed part of the fetch under way is a term of its own.
`AskedInv`: the queue is in the order of asking, so when its head has only just
gone to sleep, and does not starve when it is overtaken, nobody in it has waited.
`CacheInv`:
a workload token is reckoned to expire too late by at most a fetch, so a margin
beyond a fetch and a call is enough (`HeldInv`); cached keys expire within
`MaxAge` of the withdrawal of any of them. `FetchInv`: an answer is from after
the fetch began and the fetch from after its handler asked, so a key that the
answer lacks was published later or withdrawn before.

The assumptions on `OperationService` are those it states: the functions of `Intent` have
their types, `StoredAs` changes the spelling only, bounds are numbers, `None`
and `Unsendable` are no records. Those on `WorkspaceRoles`: finitely many groups
and addresses, at least one group (the constructor demands 1 to 20), times are
numbers, an entry lives for a unit of time (two minutes) and the cache has room
for one. Those on `GitHubBroker`: a page has two runs (100), and `None` and
`Unsendable` are neither records nor numbers. Those on `Submission`: catalogs are
valid documents, clients have users and users have roles, the initial snapshot
cites for each repository evidence about it, and the requests that are posted
have the fields of an intent. Those on `AuditTrail`: limits are between 1 and
`MaxLimit` (100), which a listing has room for (1000), and objects are kept for
a unit of time (90 days at least). Those on `Credentials`: finitely
many handlers, a fetch and a call that together take less than the margin (at most 15 s
each and 60 s), a fetch of keys that takes less than their shortest lifetime
(10 s and 60 s), a default lifetime between the bounds of max-age, and a `None`
that is no other value. TLC evaluates them in every run.

None of the properties of `OperationService` is inductive. `AtMostOneMutation`, for instance, needs
that a handler at `dispatch` has sent nothing yet, that there is only one such
handler per request (`OneSender`), and that the creator of a dispatch record is
that handler. `IInv` is the conjunction of:

* `RequestsInv`: a stored request owns its three replay objects;
* `DispatchesInv`, `ResultsInv`, `ReceiptsInv`: stored objects cite each other,
  and a receipt is where its result says;
* `ProviderInv`: nothing is sent without a dispatch record that allows it;
* `VerdictsInv` with `Justified`: why each verdict is right, in terms that no
  later step undoes (the token, `refused`, `applied`, an epoch beyond the
  baseline);
* `Holds(h)`: what a handler remembers is what is stored, which is where
  create-only objects come in: nothing it read can change under it;
* `OneSender`.

The proof has a lemma per group of steps and part of the invariant; steps that
touch only some variables preserve the parts about others by lemmas on
`UNCHANGED`.

Checked by TLC only: `CallsReturn`, `ResultReachesReceipt`,
`ObservedIsConcluded`, `ShownIsFound` and `EveryAskEnds`, which are liveness under
fairness; and the four properties that the code violates, which are refuted by
one behaviour each. Every safety property of a passing run is proved.

## Not modelled

* Cryptography, JSON, field patterns: a digest is the record it covers, and
  every signature is by one key. With another key a replica refuses to resume
  what was stored under the first one; planned (hazard at `service.go:72`).
* Run identities become visible in increasing order; a status below 500 that is
  not the expected one means that GitHub did not carry the mutation out. Both
  are assumptions about GitHub. That a workflow can be dispatched with a commit
  as its `ref` is one too, which no model here says anything about.
* `EXACT_CATALOG_BINDING_FAILED` and a `main_branch` other than `main`:
  `Authorize` has checked the same target before.
* The writes of `MemoryRepository`, whose reservation is atomic, and
  `SimulationDispatcher`, which accepts at once: development only, one process.
* The session cookie, origin and content type checks, security headers and
  health routes. When two loads of the console overlap, or one fails half-way,
  its token and the cookie may be of different sessions; submissions are then
  refused before `Service.Create` is called.
* The views of the console that show what was loaded.
* Graceful shutdown: requests under way may finish for 15 seconds. What follows
  for the bucket is a subset of `CutOff` in `OperationService`; for the caches
  it is a later `Stop`.
* The age of a cached key set at Google's edge: the endpoint answers the keys of
  the moment, and the code does not read `Age`. Clocks of GitHub, Google and the
  replica are one.
* Key files, schemas, the inventory tool, the deployment base: no behaviour.

## Plan

1. Done: `OperationLedger`, `OperationService` and its proofs; `Provider`,
   `GitHubBroker`; `WorkspaceRoles` and its proofs; `Contract`, `Submission`;
   `AuditTrail`; `Credentials`, `Replica` and their proofs.
2. Done: the proofs that `OperationService` implements `OperationLedger` and
   `GitHubBroker` implements `Provider`; the proofs about `GitHubBroker`,
   `WorkspaceRoles`, `Submission` and `AuditTrail`.
3. Signing keys: a key for each replica, and which stored requests can be
   resumed while it is replaced.
