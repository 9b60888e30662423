# koko in TLA+

TLA+ models of the programs of this repository, TLC configurations that check
them on small instances, and theorems that TLAPS proves for every instance.

1. [The system](#1-the-system): components, state, operations, hazards
2. [Modules](#2-modules): what models what, and how
3. [Runs](#3-runs): what each one asks, its bounds, what it shows
4. [Fairness](#4-fairness)
5. [Proofs](#5-proofs)
6. [What the runs found](#6-what-the-runs-found)
7. [Abstractions and what is not modelled](#7-abstractions-and-what-is-not-modelled)
8. [Plan](#8-plan)

Paths below are relative to `src/`.

## 1. The system

The repository holds several independent programs and a large number of
Kubernetes manifests. The programs share no code and no data.

| Component | State it keeps | Operations | Interacts with |
|---|---|---|---|
| **nginx operator** `nginx-deploy/` | `Ngloy` custom resource with a `spec` annotation, one Deployment, one Service, all in the API server; informer caches; a workqueue | `NgloyReconciler.Reconcile`: create, record, update | users who write the resource, API server, caches, queue |
| **its managers** `nginx-deploy/main.go` | the lease; each manager its own caches | with `--leader-elect` a second manager waits and takes over | each other, through the lease and the API server |
| **Prometheus operator** `operator/` | the same for `Prom` | `PromReconciler.Reconcile` | the same, and people who create its children by hand |
| **operator scaffolding** (`config/`, generated code) | none | manifests, deep copies | controller-runtime |
| **go-web registration** `go-web/api/v1/user.go`, `go-web/model/User.go` | one package-level `user` record; table `user`; the Redis pool variable | `UserAdd`, `UserQuery`, stubs `UserEdit`, `UserDel` | MySQL, Redis, SMS service, the reset handlers (through `user` and the pool) |
| **go-web reset codes** `go-web/api/v1/change_pass.go`, `go-web/model/Code_Memche.go` | Redis keys with an expiry of 120 s; the pool | `ResetPassword`, `InformationCommit` | Redis, SMS service, the user with the phone |
| **go-web routes, settings, articles** | none | routing, constants, stubs | gin |
| **Automation-IP-Handle** (Go) | MySQL tables, one transaction per input line; package variables `err`, `ch`; the exit status | `Connect`, `Get_IP`, `Update`; in `ip-permission-revice-1.go` a goroutine and a channel without a buffer | MySQL, input file, whoever starts it again |
| **Automation_Agent_Handle** (Python) | MySQL tables, one transaction per input line; the globals `db` and `os` | `connect`, `insert` with a fresh id, `update` | MySQL, input file, whoever starts it again |
| **manifests** `kubernetes/`, `prometheus/`, `README.md` | none | applied by hand | - |

What is hard, and what makes each component correct:

* **Operators.** A pass of `Reconcile` makes up to five calls to the API server.
  Any of them may conflict, fail, or take effect and lose its answer; the
  manager may die between two of them; what is read is a cache that may be old;
  users write, delete and resubmit the resource between any two calls; children
  are deleted by people or by the garbage collector. Correct means: the annotation
  is a commit record of what was really built; an annotation write never undoes
  a user's write; specs reach the cluster in the order they were written, never
  an older one after a newer one, and the Service never ahead of the Deployment;
  nothing to do is ever forgotten until the next resync; the cluster eventually
  has the last spec; every submitted object gets its children.
* **go-web.** Handlers run concurrently over one shared record; the name is
  checked 10 ms and two network calls before it is inserted, with no unique index;
  the Redis pool exists only after the first reset. Correct means: what is inserted
  and sent is what one request asked for; a name is registered once; a code is
  accepted exactly when it is the last one sent and has not expired.
* **Two managers.** The one that takes over starts from caches that may be older
  than those its predecessor acted on, and without its queue. Correct means: the
  commit record stays true, nothing to do is forgotten, and a spec only goes back
  until the new cache has caught up.
* **Batch programs.** One transaction per line, no record of how far a run got,
  errors that end the program, are skipped, or are looked for in the wrong variable;
  a goroutine whose panic runs a send its main waits for. Correct means: what a run
  prints and the status it ends with are true; lines are taken in the order of the
  file, each once a run and as a whole; no run waits for ever; a run to which nothing
  happens does everything, whatever earlier ones left.

`PROJECT.json` lists every hazard at the line where it bites and the properties
that cover it; the ones no property covers say why.

## 2. Modules

```
KubeRuntime      API server, informer caches, workqueue, users      (external)
  Worker         the worker of one controller; what users expect
    NgloyController   nginx operator --implements--> Rollout        (abstract)
      MCNgloy         values for TLC
      NgloyProofs     theorems   (+ WorkerProofs, lemmas about Worker)
      Failover        two managers of it, one of which leads
        MCFailover, FailoverProofs
    PromReconciler    Prometheus operator
      MCProm, PromProofs

WebBackends      MySQL table, Redis keys, SMS service               (external)
  GoWeb          the handlers of go-web and the memory they share
    MCWeb, WebProofs, WebTextProofs

BatchRun         a file, a transaction per line, the process and its reruns
  GoUpdate       the Go programs      --implements--> FileRun       (abstract)
    MCGoUpdate, GoUpdateProofs
  PyImport       the Python programs  --implements--> FileRun, with skips
    MCPyImport, PyImportProofs
```

### KubeRuntime

Code that is not in this repository, modelled from how the operators use it. One
object key is modelled: the workqueue serialises the passes for a key, and
neither `Reconcile` touches an object with another key.

| Variable | Stands for |
|---|---|
| `log[k]` | for each of `cr`, `deploy`, `svc`: every snapshot the API server stored for the key; the last is current, its index is the resourceVersion |
| `seen[k]` | where the informer of that kind is in `log[k]`; `Cached(k)` is what `r.Client.Get` returns |
| `dirty` | the key is in the workqueue |
| `backoff` | the key waits in the rate limiter after an error |
| `version` | how many specs the user wrote; a spec *is* the number of its write |
| `budget` | how many failed calls, vanished children and crashes are left |

The constant `FillsClusterIP` says what an API server may do with an update of a Service
that lacks the clusterIP it assigned: refuse it (`FALSE`), as that of Kubernetes 1.16.3
does, the version `README.md:87` installs, or fill it in (`TRUE`), as later ones do. Both
controllers send such updates. The passing runs allow both, call by call; the theorems
hold for either.

Actions: `Submit`, `Edit` (`apply`/`edit` keep the annotations, `replace` may drop
them), `Delete` (background: gone at once; foreground: sets the deletion
timestamp first), `Vanish` (a child is deleted by a person or the garbage
collector), `Watch` (an informer gets the next snapshot; only the custom
resource is watched for events, since both `SetupWithManager` register `For` and no
`Owns`), `Resync`, `RetryFires`.

### Worker

What both controllers have in common: `pc`, the next call of the pass; `copy`,
the local `nginx`/`instance` with the position it was read at; `held`, the
resourceVersion of the child read for an update. `Call` is one write: it takes
effect if the API server accepts it (the resourceVersion is current, the object
exists or does not, the update of a Service is one it fills the clusterIP in for),
otherwise the pass returns the error; and it may fail on the way there or, having taken effect, on
the way back. `Restart` is a crash of the manager. The module also states what
a user of either operator expects (`CommitFresh`, `Converges` and its part
`DeployConverges`, `SubmitCreates`, `SpecReachesCluster`, `QueueDrains`).

### NgloyController (`nginx-deploy/controllers/ngloy_controller.go`)

| Action | Lines | |
|---|---|---|
| `Begin` | 57-75 | takes the key, reads the resource: not found returns the *error*, other errors fall through with an empty copy, a deletion timestamp returns nil |
| `GetDeploy` | 77-79, 122-135 | only `IsNotFound` creates; every other result, errors too, is an update, which must unmarshal the annotation |
| `CreateDeploy`, `CreateSvc` | 80-91 | |
| `SaveSpec` | 93-108 | annotates the copy with its spec and `Update`s the whole object |
| `GetOldDeploy`, `UpdateDeploy` | 134-142 | |
| `GetOldSvc`, `UpdateSvc` | 143-152 | `oldSvc.Spec = newSvc.Spec` drops the clusterIP: the update is refused unless the API server fills it in |

Line 131 compares the pointer `nginx` (an `*Ngloy`) with the pointer `old` (an
`*NgloySpec`) by `reflect.DeepEqual`. Values of different types are never equal,
so the update path has no early return and is modelled without one.

### Rollout

The abstract specification: `desired` grows, `deployed` jumps forward to any
written spec, `served` becomes `deployed`. `NgloyController` implements it under
`desired <- version`, `deployed <- LastBuilt("deploy")`, `served <- LastBuilt("svc")`,
where `LastBuilt` looks through a deletion of the child.

### Failover (`nginx-deploy/main.go` 68-75)

`NgloyController` with a second manager. Its informers start with its controller, when
it gets the lease, with a list that the API server may answer from a cache of its own:
`standby[k]` is the position in the history from which they would start, anywhere
between what could be listed when the manager was started and the newest
(`StandbyWatch`). `TakeOver` is the loss of the lease, or of the leader: its locals,
queue and retries are gone, `seen` is where the other's informers start, and its first
list queues the object it holds. `predecessor` remembers how far any
earlier leader had seen the resource's history. The lease is taken to exclude: the
election is client-go's.

Across a take-over the operator does *not* implement `Rollout`: a leader whose cache
is behind may write an old spec over a new one. `CatchesUp` says what holds instead.

### PromReconciler (`operator/controllers/prom_controller.go`)

The same shape with the differences of the code: not found is nil and other
errors are errors (`Begin`); *any* error of the first read leads to the creation
branch, where the code calls `Get` instead of `Create` (`GetDeployAgain`,
`GetSvc`); `UpdateSvc` sends the Service it built, without a resourceVersion,
instead of the one it read. Since it cannot create, an environment action
`Provide` lets a person create a missing child.

`newContainers` gives a container the port `TargetPort.IntVal` (line 163), which is 0 of a
`targetPort` that is unset or a name, and a Deployment with such a port is refused. Which
specs have one is chosen once and for all in `Init` (`unnumbered`); `UpdateDeploy` is
refused for them (`ContainerPortZero`). The Service takes the port as it is.

### WebBackends

The table of users with its AUTO_INCREMENT, the Redis keys with their time to live,
the messages delivered. `Store` is `MessageCodeSave` and `Send` is
`MessageCodeSend`: each may fail, and have taken effect when it does.

### GoWeb (`go-web/api/v1`, `go-web/model`)

`job[h]` is one request in its goroutine, with its locals; `user`, `userId`, `userDel`
(the strings of the shared record and, of its `gorm.Model`, `ID` and `DeletedAt`) and
`pool` are the package variables. A string of `user` is kept as the two words of
its header, because handlers read and write it without a lock: `Value` of a string
half written by one request and half by another is `Torn`.

| Action | Lines | |
|---|---|---|
| `AddRequest`, `Bind`, `Bound` | `user.go` 16-22 | the fields a body has, `id` and `deletedAt` too, are written over what is there, in any order; a string of the wrong type ends the handler after the others were written |
| `CheckUser` | `User.go` 17-27 | gorm leaves out rows with a `DeletedAt` (`RowsNamed`); an error of the query counts as "free" |
| `ReadPhone`, `SaveCode`, `SendCode` | `user.go` 24-34 | number and name are read from `user` at different times; a nil pool panics |
| `ReadUser`, `Insert` | `User.go` 29-39 | the record is read as it is now; gorm writes a new primary key back into it, and uses the one it finds; a key a body brought moves AUTO_INCREMENT |
| `ResetRequest`, `LookupPhone`, `SaveResetCode`, `SendResetCode` | `change_pass.go` 12-32 | the pool is replaced; an unknown name leaves the number blank and goes on |
| `CommitRequest`, `GetCode` | `change_pass.go` 35-53, `Code_Memche.go` 19-39 | `Rune` is what `string(Atoi(name))` does |
| `Restart`, `Expire` | | a crash of the process; a code's time to live |

### FileRun and BatchRun

`FileRun` is what a batch program promises: the lines are taken in their order, from
the first, each at most once in a run; a run may stop anywhere, and whether the line it
stopped at was still taken is open; only a program that `MaySkip` goes on behind a
line it did not take.

`BatchRun` is what the programs share. `pc` is the next call, `at` the line,
`committed[i]` how often line `i` was committed by all runs (`before[i]`: when this
one started), `said[i]` what this run printed of it, `status` how the process ended.
`Commit` may take effect and lose its answer; `Crash` kills the process anywhere;
`StartRun` starts it again, from the first line.

### GoUpdate (`Automation-IP-Handle/`)

| Action | Lines of `ip-permission-revice-1.go` | |
|---|---|---|
| `Start`, `Open` | 32-60, 96-103 | `main` is "receiving" where the file is read in a goroutine, "calling" in `iph/ip-permission.go`, which has no goroutine |
| `Scan` | 104-119 | an error of the scanner ends the loop like the end of the file: it is only looked for inside the loop |
| `Begin`, `Prepare`, `Exec`, `Commit` | 64-90 | `Begin`'s error is in `err1`, line 66 looks at `err`: without a transaction line 70 panics; every other failure is fatal |
| `Return` | 92-95 | the deferred send, which a panic runs too, meets the receive of line 58 |
| `PrintDone`, `Die`, `ExitMain` | 57-60, 122-125 | main prints and returns; the panic ends the process |

`iph/ip-permission.go` is modelled as the file stands: its package does not compile
together with `ip-not.go` beside it.

### PyImport (`Automation_Agent_Handle/`)

| Action | Lines of `ip-not.py` | |
|---|---|---|
| `Start`, `Connect` | 26-37, 72-96 | an unknown environment or system is only printed; the variable the first should have set ends the program when it is used |
| `NextLine` | 40-44 | |
| `Execute` | 45-52 | a refused statement is rolled back, reported and skipped; without a connection the rollback fails too and ends the program |
| `Commit` | 53-54 | |

`Words` is `get_sql` (59-69): the line is split at blanks. An unknown system leaves
`os` the module of that name, whose text `<module 'os' from ...>` brings quotes and
blanks into the statement; `Malformed` is whether they end up in a column that is
used. A `Padded` line has a blank behind its address and shifts the words by one.
`ip-permission.py` has the same loop and nothing to mistype: `Calls = {"right"}`.

## 3. Runs

| Run | Question | Answer |
|---|---|---|
| `ngloy` | nginx operator, one manager: types, true commit record, commits that overwrite nothing, passes with an empty copy that write nothing, no lost wake-up, the order of `Rollout`, and does an annotated object's last spec reach its Deployment? | hold, through conflicts, a failed call, a lost answer, a vanished child, a crash and refused Service updates |
| `ngloy_failover` | the same with two managers and a take-over at any moment: what is left of the order? | the commit record, the queue and the Deployment's convergence survive; a child only goes back while the new cache is behind, never one without the other |
| `ngloy_edit_race` | does every spec reach the cluster if nothing fails, nothing is deleted and every update is accepted? | no (finding 1) |
| `ngloy_cluster_ip` | does the last spec of an object that is set up reach both children, if nothing fails but a Service update without its clusterIP is refused? | no (finding 2) |
| `prom` | Prometheus operator: types, what the annotation means, fresh commits, the order in which children are overwritten, nothing forgotten, does an adopted Deployment follow the last spec it can be built from, does the queue forget a deleted object? | hold |
| `prom_submit` | does a submitted object get its children? | no (finding 3) |
| `web_storm` | types; what may be concluded from an answer, and whom do codes reach, with two requests in flight, bodies that are incomplete, mistyped, or bring a primary key or a time of deletion, a failed call, a crash? | SUCCESS is true of a reset's answer, and of the *first* of an addition's two; an addition's only answer promises nothing; no code reaches a number it was not drawn for, and a reset's only one of the user it names |
| `web_race` | is a name taken once, with two requests in flight and no failure? | no (finding 4) |
| `web_second` | is everybody who asks added, one at a time and with no failure? | no (finding 5) |
| `go_update` | Go programs: are reports and exit status true, are lines taken in order and once a run (`FileRun`), is what all runs together have updated a prefix of the file, does every run end, does one without mishaps do everything? | yes |
| `go_done` | when the program prints that the processing is complete, is it? | no (finding 6) |
| `py_import` | Python programs: are reports true and complete, do mistyped arguments insert anything, order, end | yes; mistyped arguments insert only padded lines |

Every property of a passing run has a mutant of the code in its module (marked
"Mutant of ..."), a plausible bug with which TLC finds the property violated.

**Bounds.** `MaxVersion` bounds how many specs the user writes, `Budget` how many
mishaps of each kind happen. Two writes are the least in which the hazards exist:
an old and a new spec, an object and its successor after a deletion, an edit
racing a pass. `Stormy` allows one failed call (or lost answer), one vanished child
and one crash together, so that one mishap can hit the recovery from another; `Windy`
leaves the vanished child out, since children created by hand (`Provide`) and the choice
of `unnumbered` make the state space of `prom` larger; its safety theorems hold with it
too. `Either` lets every Service update be refused or filled in, so that a run goes
through API servers of both kinds; the violating runs fix the kind (`Refusing`,
`Filling`), so that what they find is due to nothing else. `OneTakeOver` is a single loss of the leader: two caches of
three kinds make a large state space, and the safety theorems
hold for any number of take-overs, failed calls and vanished children. `StandbyWatch`
stops when no take-over is left, after which the waiting manager changes nothing.
Deletions, watch events, resyncs and retries are not bounded by a counter; the histories
are finite since every new snapshot needs a write, a deletion or a mishap.

The web runs have three requests: a reset for the pool and two additions are what
`web_race` and `web_second` need, and two in flight are enough for one to interfere with
another. In `web_storm` one fault and one crash hit them anywhere, two codes tell what
one request drew from what another did, and each of the three bodies has what the
others have not: both strings; a name and a time of deletion; a primary key and a number
of the wrong type. One name is the decimal code point of the other, so that
`InformationCommit` finds a key at all. Requests are interchangeable and nothing
in these runs is a liveness property, so `Handlers` is a symmetry set.

The batch runs have three lines: one before, one at and one behind the line at which
something happens. One mishap of each of four kinds may happen, so that five runs
(`MaxRuns`) are four that end early and one that gets through.

Deadlock checking is off. In the web runs every request has been answered at the
end, in the batch runs nobody starts the program a sixth time. In the operators' runs
the user stops writing after `MaxVersion` specs, and an operator with nothing to do
rests. That nothing stops too early is what `NoLostWakeup`, `KeepsTrying`, `RunsEnd`
and the other liveness properties check.

## 4. Fairness

**Operators.** `FairSpec` adds weak fairness of `Reconcile` (the worker goroutine keeps
running and a call returns or times out), of `Watch` for each informer, of `Resync` (the
informer's ticker; `main.go` leaves `SyncPeriod` at its default) and of `RetryFires`
(the rate limiter's timer). All are goroutines or timers of the manager that
nothing can disable for ever. `HAFairSpec` assumes the same of the leader, and nothing
of the manager that waits: its caches may stand still for ever. Nothing is
assumed of users, of children that vanish, of failures, crashes or take-overs: each
may happen or not.

Weak fairness is enough: `Reconcile` stays enabled while the key is queued or a
pass is under way, a watch stays enabled while its cache is behind.

**Batch programs.** Weak fairness of `Get_IP` and of `Connect` in Go: the scheduler
runs each goroutine that can run. The send and the receive of the channel are one step,
enabled only when both have got there, so a goroutine that waits alone is not helped by
it. Weak fairness of `Connect \/ Loop` in Python: one thread. Nobody is
assumed to start a program again.

**go-web** has no fairness: what it promises is safety.

## 5. Proofs

Everything below is proved for every value of the constants that satisfies the named
assumptions: `RuntimeAssumption` (naturals, and a non-empty set of what API servers do with a
missing clusterIP), `BackendAssumption` and
`WebAssumption` (finitely many requests; blank, torn and wrong values are no names,
phones or codes; a body's fields are names and phones or of the wrong type, keys and
times of deletion),
`BatchAssumption`, `PyAssumption`.

| Module | Theorems |
|---|---|
| `NgloyProofs` | `TypeCorrect`, `InvariantHolds`, `CommitRecordHolds`, `NoLostWakeupHolds`, `CommitFreshHolds`, `EmptyCopyWritesNothingHolds`, `OrderedHolds` (it implements `Rollout`) |
| `FailoverProofs` | `HATypeCorrect`, `HAInvariantHolds`, `HACommitRecordHolds`, `HANoLostWakeupHolds`, `CatchesUpHolds` |
| `PromProofs` | `TypeCorrect`, `InvariantHolds`, `AdoptsBothHolds`, `KeepsTryingHolds`, `CommitFreshHolds`, `OverwritesInOrderHolds` |
| `WebProofs` | `TypeCorrect`, `InvariantHolds`, `AnswersTrueHolds` |
| `WebTextProofs` | `TextsOwnedHolds` |
| `GoUpdateProofs` | `TypeCorrect`, `InvariantHolds`, `ReportsAreTrueHolds`, `ExitZeroMeansAllHolds`, `UpdatedIsPrefixHolds`, `InFileOrderHolds` (it implements `FileRun`) |
| `PyImportProofs` | `TypeCorrect`, `InvariantHolds`, `ReportsAreTrueHolds`, `AccountedHolds`, `MistypedInsertsNothingHolds`, `InFileOrderHolds` (it implements `FileRun`, with skips) |

`WorkerProofs` has the lemmas about the runtime and the worker that both operators'
proofs use: types, what a call or a read may do, that histories only grow, and that the
resource's specs never go back in its history (`HistoryOK`, `HistoryStore`). None of the
safety properties is inductive; each module has an `IInv` of named parts.

**nginx operator.** What a pass knows at each of its calls:

* `HistoryOK`: only an absent object has no spec, and the specs of the resource
  never go back, not even over a deletion. (A `SaveSpec` puts an old spec back
  only if nothing was written since: the heart of `Ordered` and `CommitFresh`.)
* `CopyOK`: the copy is empty, in a pass that has written nothing, or the snapshot
  at position `copy.rv`, which the cache has passed, and the newest the cache has
  seen unless the key was queued since.
* `BuiltOK`: what the calls made so far have built: before `createSvc`,
  `getOldSvc` and `updateSvc` the Deployment was last built from the copy; before
  `saveSpec` both children were built from it. (`CommitRecord`.)
* `RecordOK`: `CommitRecord` of every snapshot, since an `Edit` carries an old
  annotation over and the copy is an old snapshot.
* `AwakeOK`: a worker at rest, with an empty queue and no retry pending, has built
  the Service from what its cache holds. (`NoLostWakeup`.)
* `OrderOK`: the Deployment's spec comes from a snapshot the cache has passed and
  is no newer than the copy. (`Ordered`: a pass that starts later reads a spec at
  least as new.)

The argument for a step goes through three lemmas rather than through each action
for each conjunct: `WriteCases` (every write to a history is one of: a build of the
Deployment, a build of the Service, the annotation, or the environment's, with
the reason it was made), `StepWrites` and `StepGrows` (what that says of the
histories' next values). Each conjunct then has a lemma of its own.

**Failover.** All parts but `OrderOK` (`PassInv`) speak of one pass and of histories
that only grow, so that a take-over keeps them whatever cache it brings; the lemmas
of `NgloyProofs` are used as they are. `OrderOK` is what a take-over breaks. In its
place: `ReachOK`, every built spec comes from a snapshot the cache *or an earlier
leader's* has passed; `BehindOK`, a pass that could build an older spec read its copy
from before where an earlier leader was. `CatchesUp` is what these say of a step.

**Prometheus operator.** `CopyOK` and `HistoryOK` as above; `FoundOK`, that each read
so far has found its child; `AwakeOK`, that a worker at rest has annotated the object
or the news of it is still to come.

It does not implement `Rollout`, since people provide its children from any spec. What
holds of the operator's own writes is `OverwritesInOrder`, by a second invariant on top
of the first: `PassedOK`, what was put into a child was read from the resource's history,
no later than the copy of the pass under way; `DeployFirst`, the Service is only worked
on after the Deployment got the copy's spec. A new update writes the copy's spec, and
`HistoryOK` makes it no older than any spec read before it. Neither the
resourceVersion the Deployment's update has nor the one the Service's lacks is used: the
order comes from passes that do not overlap and a cache that does not go back.

**go-web.** `LocalsOK`, which locals a request has set at which call; `AddOK`, that an
addition whose status still is SUCCESS has sent its code; `ResetOK`, that a reset
that has a number to send to has it from a row. Rows and texts are only ever added, so
that what is known of one request survives the steps of all others (`JobKept`):
that is why the shared record, which they do destroy for each other, does not
matter to `AnswersTrue`. Each action has a lemma that it changes one request and leaves
what is known of it true (`StepOK`); `FlightStep` counts the requests in flight.

Of an addition `AddOK` also says that a single SUCCESS comes from one that has read no
row: `AnswersTrue` states what each answer tells, and that the answer of an addition
whose code could not be saved tells nothing is part of it.

`TextsOwned` looks at it from the side of the phones: `AllOwned`, that every text has a
request that drew its code and had its number, and if it is a reset found the number in
a row of the name it was asked for; `NumberLater`, that a request has no number
before it has a code, so that what a handler does before it draws one cannot take an
owner away from a text. Every call is one of two kinds, with a lemma for each:
`QuietCall` of a request without a code, `CodeCall` of one that keeps its number, its
code and, if it is a reset, its name.

What the table and the codes hold is another matter: it depends on what requests do to
the shared record, and there is little that the code keeps true of it. Findings 4 and 5
are about it.

**Batch programs.** `LineOK`, that a line in work is one of the file; `ProgressOK`, that
the lines before `at` were reported and are as reported, those behind untouched, and
only the line at which the run failed may have been committed without a word; `EndOK`,
what the end of the loop and the channel mean. In Go main is woken only by the end
of `Get_IP`; `DoneMeansAll` fails since that end may be a panic, and
`ExitZeroMeansAll` holds since the panic still decides the status. The refinements
follow from the same invariant. `UpdatedIsPrefix` speaks of all runs together and needs
that the counts each run started from were a prefix already (`BeforeOK`).

Every invariant was model-checked before it was proved. Only model-checked are
liveness (`DeployConverges`, `AdoptedFollows`, `QueueDrains`, `RunsEnd`), which needs
fairness and `ENABLED`: every other property of a passing run is a theorem.

## 6. What the runs found

1. **An edit during creation disables the operator** (`ngloy_edit_race`,
   `ngloy_controller.go:105`): the `Update` that stores the annotation conflicts, since
   the object was edited after it was read, or the cache it was read from had not heard
   of the edit. The retry finds the Deployment but no annotation, fails to unmarshal it,
   and so does every later pass: no spec reaches the cluster any more. No call fails and
   nothing crashes in this run; a failed or unanswered call in the edit's place does the
   same.
2. **A changed spec never reaches the Service** (`ngloy_cluster_ip`,
   `ngloy_controller.go:147`): the Service's old spec is replaced, clusterIP included, and
   the API server of Kubernetes 1.16.3 (`README.md:87`) refuses an update that changes
   the clusterIP. Every pass after an edit ends there. `prom_controller.go:117-118` sends a
   Service without a clusterIP too.
3. **The Prometheus operator creates nothing** (`prom_submit`,
   `prom_controller.go:75`): where its comments say create, it calls `Get`.
4. **Two requests register one name** (`web_race`, `user.go:23`): both find it free
   before either inserts. `errmsg.go:36` says that a name that is taken is refused, and
   there is no unique index.
5. **A process adds one user** (`web_second`, `User.go:34`): the primary key stays in
   the shared record, and the next insert uses it and is refused.
6. **"Processing complete" after a panic** (`go_done`, `ip-permission-revice-1.go:65`):
   without a transaction the goroutine panics, its deferred send wakes main, and main
   prints that the processing is complete, while the line and all behind it were
   not touched. The exit status is right.

Also seen, where no document says otherwise; the models have the behaviour and the
properties leave room for it:

* nginx operator: it retries the key of a deleted object for ever (line 66 returns the
  not-found error; its sibling returns nil, which is what `QueueDrains` checks). Every
  resync rewrites both children (the comparison is never equal). The annotation is
  written only by the creation path and never refreshed by an update.
  After a take-over an older spec may be rolled out for a while.
* Prometheus operator: a spec whose `targetPort` is unset or a name is never rolled out
  (line 163); `AdoptedFollows` leaves such specs out. The annotation only says that both
  children were there, not that a pass built them.
* go-web: a registration before the first reset after a start of the process panics
  (only `ResetPassword` creates the pool). The fields of concurrent requests mix in the
  shared record, and a body without a number uses an earlier request's, so that a row
  may be nobody's and a code go to another's number. A row inserted with a time of
  deletion is never found again, and its name is free. The last answer of an addition is
  SUCCESS whatever happened, the only one if its code could not be saved. A reset of an
  unknown name stores its code all the same, and sends it to nobody.
  `InformationCommit` looks under the wrong key and compares a string with bytes, so
  that no code is ever accepted.
* Batch programs: a Python import started again inserts the lines of the earlier run
  once more, with fresh ids. A Go program that cannot read its file to the end
  finishes with status 0.

## 7. Abstractions and what is not modelled

* One key and one worker at a time: the workqueue never hands a key to two workers.
  Two managers without `--leader-elect` are not modelled (`config/manager` starts one
  replica, with it), nor a lease that two hold at once.
* A spec is the number of its write. What the operators put into a Deployment or a
  Service is a function of the spec, so "built from spec v" is all the properties
  need. Owner references and uids are left out; `Vanish` covers what the garbage
  collector does, at any moment.
* Caches of one manager only move forward, also over a restart.
* A write that fails takes effect at once or never: one that reaches the API server after
  its client has given up on it is left out. It would matter for the Service of the
  Prometheus operator, which has no resourceVersion to be refused by
  (`OverwritesInOrder`); every other write of the operators carries one, or is a create,
  which a child that is there refuses.
* An informer's cache update and the queueing of its event are one step, and so
  are taking the key and reading the resource; neither reads the other's state in
  between.
* A child's drift (a person editing the Deployment) is not modelled: neither
  operator looks at it.
* The role the operators are given (`config/rbac/role.yaml`) is taken to suffice.
* go-web: a user is a name, a number, a primary key and a time of deletion, since
  nothing reads password, address and the other times. A body's key is a number and its
  time a time or null; gorm reads the fields of the record one by one, here at once.
  A query or a transaction is one step: MySQL serialises them, and a row is visible
  when it is committed. The record of a message in `message_obj`, which nothing
  reads, is part of sending it. The connections taken from the pool and not returned
  are not counted: the pool has no limit. `UserQuery` only reads; `UserEdit` and
  `UserDel` call stubs.
* Batch programs: an update is its commit. A row no line names is not updated and
  the programs do not look at how many rows were: which rows there are is left
  out. One process runs at a time. While a goroutine panics the Go runtime holds up
  main's return, so that the status is the panic's; this is taken as given.
* `iph/ip-not.go` and `ip-permission-revice-2.go` do not compile and have no behaviour.
* The scaffolding, settings, stubs and manifests have no behaviour of their own.

## 8. Plan

Done, in order: the runtime and the nginx operator, its safety and liveness, the
abstract rollout and the refinement, its proofs; the Prometheus operator and its proofs;
go-web and the proof of `AnswersTrue`; the take-over by a second manager, with
proofs; the batch programs, what they promise (`FileRun`), and the proofs that they
implement it; the order of the Prometheus operator's updates, and of the Go programs'
over all their runs; what an API server does with a missing clusterIP, and specs no
Deployment can be built from; whom go-web's codes reach.

Next:

1. An abstract specification of the codes (the one stored for a name is the one its
   owner holds) that `GoWeb` implements where no reset overlaps a registration.
2. Take-overs of the Prometheus operator; a lease that two managers hold for a moment.
