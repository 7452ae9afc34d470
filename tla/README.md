# TLA+ models of the edge orchestration system

The repository is a GitOps-style orchestrator for edge sites. A central
orchestrator (CO) turns a deployment request into one YAML file per site and
deployment and pushes it to a git repository. A local orchestrator (LO) per site
polls that repository and passes new deployments to the edge nodes (EN) of the
site over NATS. The edge nodes run containers and report back through the LO to
the CO, which shows the progress to a client as a stream of events.

The modules are written from the Go code; the documents under `docs/` and the
`README.md` are only quoted, where they say something the code does not do.

## 1. Inventory

| Part | State it keeps | Operations | Talks to |
|---|---|---|---|
| **CO: deployments API** `internal/api/handlers/deployment.go`, `internal/co/co.go` | rows in the database, files of the working copy | `CreateDeployment`: per site a uuid, write, add, commit, push, status row | git, database, streams |
| **Git manager** `internal/gitmanager/gitmanager.go` | clones on disk, one mutex per repository | `Register`, `InitRepo`, `EnsureClone`, `Pull`, `CommitAndPush`, `ChangedFilesBetween` | CO and LO, each with its own instance |
| **LO: watcher** `internal/watcher/watcher.go`, `mode_handlers.go` | the clone, `last` | clone, pull, compare, select the site's files | git, event queue |
| **LO: events** `internal/orchestrator/local_orchestrator.go`, `internal/fsmloader/loader.go` | `currentMode`, `eventCh` (20), FSM state, result bus | network monitor, `TriggerEvent`, dispatcher, handlers, `DeployToEdges`, result listener | watcher, database, NATS |
| **LO: relay and health** `health.go`, `db.go` | rows of `Host`, `DeploymentStatus` | `CreateEdgeNode`, `Save`/`UpdateDeploymentRecord`, forward to the CO | NATS, CO by HTTP |
| **Edge node** `internal/edgenode/edgenode.go`, `internal/ocifetch` | containers of docker, by name | one request after the other: fetch, `docker run`, report | NATS, registry, docker |
| **Node machines** `internal/fsmloader/edge_node_fsm.go`, `container_fsm.go` | a machine per node and container | `StartDeployment`, `monitorContainers` | nothing: no code constructs them |
| **CO: status** `handlers/deploystatus.go` | status rows, a gauge | `UpdateDeploymentStatus`, broadcast | database, streams |
| **CO: stream** `internal/streammanager`, `HandleStreamDeployment` | client channels of capacity 10 | `Register`, `Unregister`, `Broadcast` | status handler, HTTP clients |
| **CO: catalogue** `handlers/apps.go`, `persist.go`, `internal/gitfetcher` | application rows, one cached clone, the fetcher's `RepoURL` | `CreateApp`, `CloneOrPull`, `Persist`, the queries of `CreateDeployment` | git, database |

How the main path runs: an API call creates a deployment per site and pushes a
commit; a tick of the LO's network monitor queues `EventNetworkChange`; the
dispatcher's handler for it starts the watcher goroutine; each poll of the
watcher pulls, compares `last` with HEAD and queues the site's new deployments
as one `EventGitPolled`; the dispatcher's handler for that calls `DeployToEdges`
once per deployment, which starts a goroutine per host and one that waits for
them and reports `done` to the result listener. The dispatcher and the result
listener both move one state machine.

What is hard here:

* *concurrency*: monitor, watcher, dispatcher, result listener and publishing
  goroutines interleave, connected by a bounded queue that drops when full;
* *crash and restart*: all of the LO's bookkeeping (`last`, queue, mode, FSM) is
  in memory, only the clone and the database stay, and the clone may be lost or
  cut short;
* *partial failure*: `CommitAndPush`, `Pull`, `Persist` and a node's deployment
  have several steps, each may fail alone, and callers go on after an error;
* *sharing*: all requests of the catalogue use one fetcher and one directory, and
  remove it under each other;
* *ordering*: an event must not be raised in the FSM before the network change
  that makes it legal; status reports arrive in any order;
* *liveness*: no poll, event or goroutine may be left waiting.

The full list, with the line at which each hazard bites and the property that
watches it, is `hazards` in `PROJECT.json`.

What makes each part correct:

| Part | Properties |
|---|---|
| desired state repository | what a clone has seen is final; every commit is a change; concurrent calls take nothing away from each other |
| watcher and clone | positions never overtake each other; each deployment is decided once and handed out at most once, in commit order |
| events | a poll is never an invalid event; one watcher per process; everything published is decided while the watcher lives |
| fan-out | a host is asked at most once per deployment; a round is done only when all goroutines are |
| git manager | nobody works in another call's half clone; every call returns (not kept: a pull that meets a broken copy hangs) |
| status, relay | with one node and one LO, row and gauge end as the node did (unless its last report came before the row) and no report overtakes another; every report is dealt with (not kept: the components follow) |
| stream | events are read in order, dropped only by a full channel, never sent on a closed one; a failure ends the stream (not kept: a node that is done need not end it) |
| edge node | a revision is installed once and its container stays; reports come in order; each request is answered (not kept: a node that works installs what the LO asks for) |
| catalogue | what is answered created is there with all its rows, and is deployed with all of them; a deployment never mixes descriptions; each request is answered unless the clone cannot be removed (not kept: it comes from the repository that was named) |

## 2. Modules

| Module | Models | Uses |
|---|---|---|
| `DesiredState` | the repository as the CO writes it, by the outcomes of the calls | |
| `DeploymentsWriter` | the CO's concurrent calls at the grain of their git calls | `DesiredState` (refined) |
| `GitManager` | the mutex and the working copy of one repository, all methods | |
| `DeliveryLedger` | abstract: each deployment of a site is decided once | |
| `LocalOrchestrator` | one LO process with disk, queue, goroutines and its hosts, composed with the CO's repository | `DesiredState`, `DeliveryLedger` (refined) |
| `StatusStream` | the event streams of one deployment | |
| `DeploymentStatus` | reports from the nodes over NATS, LOs and HTTP to the CO's row, components, gauge and streams | `StatusStream` (refined), `NodeReports` |
| `NodeReports` | abstract: what a node says of a request, in order | |
| `EdgeNode` | one edge node: listener, containers, reports, deaths | `NodeReports` (refined) |
| `AppCatalog` | requests to add an application, on one fetcher, clone and database, and requests to deploy one | |
| `MC...` | definitions for TLC | the module of that name |
| `DesiredState_proof`, `DeploymentsWriter_proof`, `LocalOrchestrator_proof`, `StatusStream_proof`, `DeploymentStatus_proof`, `GitManager_proof`, `EdgeNode_proof`, `AppCatalog_proof` | theorems | the modules of that name, TLAPS |

The way out is `DesiredState` (or, in detail, `DeploymentsWriter`) and
`LocalOrchestrator`; the node at its end is `EdgeNode`; the way back is
`DeploymentStatus`, whose nodes say what `NodeReports` allows, which `EdgeNode`
is shown to keep to. `AppCatalog` comes before all of it.

The watcher whose first clone fails is dead until the process is restarted
(`CloneFails`): the model has it and the liveness properties are stated for the
others, as nothing in the code retries.

A definition whose comment starts with *Mutant* is a plausible wrong version of
the next definition. No specification uses it: it is there to see that the
property it is paired with in `PROJECT.json` notices the difference.

### DesiredState

| Variable | In the code |
|---|---|
| `created` | uuids `CreateDeployment` (handlers) has drawn; one per site and request, so a file is written once |
| `staged` | the index of the CO's repository |
| `at[d]` | the commit in which `d`'s `desiredstate.yaml` was added |
| `commits` | HEAD of the CO's repository |
| `origin` | what a clone or a fetch can see |

A commit is a number: the CO is the only writer of a branch that only grows, so
the history is a line. Each way `co.CreateDeployment` can end is an action:
`WriteFails`, `CommitFails` (the file stays in the index), `Push`, `PushFails`
(the commit stays, and goes out with the next push). `Reclone` is `InitRepo` of
a CO that comes up without a working copy. In local mode (`Local`) the LO clones
the CO's working copy itself, so a commit is visible at once and is never lost.
Every behaviour of the local mode's repository is one of the remote mode's, in
which the LO sees a commit when it is pushed; the LO runs therefore use
`Local = FALSE`.

### LocalOrchestrator

| Variable | In the code |
|---|---|
| `cloned`, `head`, `tree` | the working copy: `.git` opens, its HEAD, the commit its files are of |
| `up`, `mode` | the process; `currentMode` |
| `wpc`, `last` | the goroutine of `watcher.Start`: not started, before `EnsureClone` returns, before a pull, between pull and compare, returned with an error; its `last` |
| `queue` | `eventCh` |
| `dpc`, `cur`, `todo` | the dispatcher goroutine: receiving, in a handler, before `RaiseEvent`; the event in hand; its deployments left to hand out |
| `fsm` | current state of the loader's machine |
| `outbox`, `results` | goroutines of `DeployToEdges` that have yet to publish; rounds whose `done` is to come |
| `hosts`, `nilRow` | table `Host`; the status row with the zero uuid that the first request leaves |
| `sent` | requests the broker accepted |
| `reached`, `dispatched` | history variables; no action reads them, except to keep them |

Where the code can be interrupted, the model has a step: a pull and the
comparison that follows are two steps, a handler hands out one deployment per
step, and the FSM is told of an event in a step after its handler. `Die` is the
end of the process, for any reason (`Exit`), or because a profile without
components makes `DeployToEdges` index an empty slice (`Panic`). It may leave
a clone that was being made without a HEAD, which the next start opens as an
empty repository. `LoseDisk` is a new container: the clone is under `/tmp`, on
no volume.

`last` of a process that has died is dead memory; the next watcher sets it before
it reads it.

Modelled by what it does: `ChangedFilesBetween` from an empty commit returns
nothing; a file that differs but is not in the working copy cannot be read and is
skipped (`at[d] <= tree`); an event the machine has no transition for is logged
and changes nothing; a full queue drops the event, after `last` has moved.

Not modelled: the text of a deployment and its YAML (written by the CO from the
same struct the LO reads, so it parses); the working copy being deleted or
damaged while the process runs (then `Pull` clones again under a lock it holds:
left to `GitManager`); the capacity of the result bus (a send
waits; the listener never blocks). `DetectMode` has one possible answer, so a
process sees one change of mode, and the branches for push mode, offline mode and
the cancelling of a running watcher are never reached. `OneWatcher` checks that.

### DeliveryLedger

What the LO promises, in three sets: a deployment is *accepted* and later
*deployed*, or it is *missed*, and no decision is taken back. `LocalOrchestrator`
implements it with accepted as what is queued or in the dispatcher's hand,
deployed as `dispatched`, and missed as all that was decided and is neither.

### DeploymentsWriter

`DesiredState` knows one action per call of `CreateDeployment`. Here a call goes
through write, lock, open, `Add` (which reads the index file and writes it
back), commit and push, beside other calls, and the process may die between any
two of them.

| Variable | In the code |
|---|---|
| `pc[d]` | where the goroutine is that works on deployment `d`; `dead` when a crash ended it without effect |
| `lock` | the holder of `locks["deployments"]` |
| `seen[d]`, `index` | the index as `d`'s `Add` has read it; the index file (all tracked files) |
| `at`, `commits`, `origin` | as in `DesiredState` |

The refinement mapping (`Repo`) counts a call when it has its outcome. Between
commit and push it has none, so its files and the commit are hidden, except in
local mode, where a reader sees the commit at once. A crash in that
interval is the outcome `PushFails`; a crash between add and commit is
`CommitFails`; earlier crashes are calls without effect.

### GitManager

`InitRepo`, `EnsureClone`, `Pull` and `CommitAndPush` of one process on one
repository: every method takes the mutex of the repository (`Lock`), looks at the
working copy (`copy`: none, damaged, half cloned, good), and clones, works or
fails. `Pull` on a copy that does not open calls `ensureCloneLocked`, which takes
the mutex again: `Relock` is a state without a next step. `Damage` is what
happens to a directory under `/tmp` while the process runs, `Kill` the end of the
process. What a call does in a good copy is in the other modules. `sawHalf`
and `died` are history variables.

### StatusStream

| Variable | In the code |
|---|---|
| `streams` | the map of `StreamManager` |
| `ch[c]`, `handler[c]` | a client's channel; the goroutine of `HandleStreamDeployment`: before `Register`, in the loop, before the deferred `Unregister`, gone |
| `cast`, `since`, `got` | history: all events, how many there were when a client registered, the events a client was sent |

An event is its number, so that order and loss can be told; `cast[i]` is its
status. `Broadcast` is one step because it and the map's writers hold `mu`.

### NodeReports

What a node says of a request: `pending`, `installing`, then `installed` or
`failed`, at last `completed`, however it went. A request of a node whose runtime
is wasm, or that lists no image (`Bare`), is only `completed`; one that lists more
images (`Several`) starts again at `pending` for each; one whose `Image` is empty
is never `installed` (`Imaged` are the others).

### EdgeNode

| Variable | In the code |
|---|---|
| `todo`, `inbox` | requests to be published; messages in the subscription, which NATS hands to the callback one by one |
| `up` | the process |
| `job` | the callback of `startDeployListener`: request, image, and where in `deployContainerd` it is |
| `docker` | which request made the container of a name; the name is the request's revision |
| `orphans` | `docker run` commands that outlive the process that started them |
| `reports` | what was said of a request |
| `cut`, `excused` | history: requests that were lost; those that a registry, docker or a taken name made fail |

Every request comes with one deployment, revision and number of images, and says
whether its field `Image` is filled. `FromLO` is the request that `DeployToEdges`
makes: one image in the list, and an empty `Image`, which is what
`deployContainerd` fetches. `Run` needs a free name; `RunFails` is docker failing
before or after it has made the container. `Die` is the end of the process at any
step; containers stay, and a `docker run` may go on (`OrphanEnds`). Nothing
removes a container, so a name once taken stays taken.

### AppCatalog

| Variable | In the code |
|---|---|
| `url` | `RepoURL` of the one `GitFetcher` that `NewRouter` makes |
| `cache` | the directory `./cache/app-registry`: which repository it is a clone of, and whether it is whole, torn, or being cloned by a request |
| `pc`, `want`, `have`, `at` | a request's goroutine in `CreateApp`: step, what it asks for, where its description was read, where it is in the loops of `Persist` |
| `rows` | tables of applications, profiles and components |
| `reader` | a goroutine of `CreateDeployment` between its queries |

Repositories, directories and descriptions are constants; nothing is assumed of a
description but that its lists have a length: two profiles of one id may be in it,
as the parser lets them. `RowsOf` are the rows of a description, `RowAt` and
`After` the nested loops that insert them one by one. The duplicate check
compares the *name* in the description with the *directory* that is asked for
(`Contains`), so it may miss; the primary keys of applications and profiles
then refuse the insert (`Conflict`), components have none that could. The clone
of one request may meet the clone of another (`CloneMeets`), have its directory
removed under it, or die with the process: then the copy is `torn`, and what a
pull, an open or a read finds in it may be anything, also nothing wrong. That
stands too for two goroutines that write the string `RepoURL` at once: the
clone of a torn string fails (`CloneFails`, which leaves a directory behind when
there was something in it before). A torn copy whose pull is up to
date is not put right by anybody.

Nobody looks at the error of `RemoveAll`: when the directory stays, or a part of it
(`PurgeFails`), `CloneOrPull` calls itself again and meets the same directory. No
fairness is assumed that would end this, so a request may go round for ever, or
until the process dies of it (`CODies`).

### DeploymentStatus

One deployment, its nodes, the replicas of the site's LO and the CO. Every LO
watches for itself and asks every node, so a request is a pair of an LO and a
node (`Requests`), and a node reports on each. The reports go to the subject of the
site, which all LOs have subscribed to: each of them relays the reports on its own
requests and on those of the others. That a node works on one request after the
other is left out, as is that two requests of one revision share a container's
name: their reports mix in any order and each ends as `NodeReports` allows, which
is more than the node does.

| Variable | In the code |
|---|---|
| `creation` | the API handler after its push: before `SaveDeploymentStatus`, the gauge, the answer |
| `row`, `parts`, `gauge` | `DeploymentStatus.state` of the deployment; the states of its components, by name; `DeploymentsActive` |
| `said[q]` | the last report on request `q`, by `NodeReports` |
| `wire[r][q]` | NATS messages with reports on `q` on the way to LO `r`: in order, at most once |
| `relay[r]` | the report LO `r`'s callback works on: record in the database, post, wait for the response |
| `calls` | goroutines of the CO's `DeploymentStatusHandler`: update, gauge, broadcast |
| `trouble`, `missed` | history: something failed; the states whose report found no row |

The callback is one goroutine that waits for the HTTP response: this alone
keeps the reports in order, and `FinalStays` and `ClientSeesProgress` fail when it
does not wait. When the connection breaks (`Cut`), the old handler of the CO goes
on beside the next. The CO's update is a transaction, the LO's are two
statements; both may fail, and nobody looks at the errors.

A node's own `completed` (`model.DeploymentReport`) goes over the wire but nothing
comes of it: the LO reads it as a `model.DeploymentStatus`, whose fields it does
not fill, so it is a report on no deployment. `Ending` has the word as in the
code.

What the composition shows, beside the properties:

* A request of an LO never fills `Image`, so in the deployed system every report
  of a containerd node ends in `failed`. `status_one` gives its node a filled
  request (`Imaged`) in order to have both ends.
* The components keep the states they were created with, although both the CO and
  the LO set out to update each of them. `CreateDeployment` enters
  them under two names of its own, a node reports on `component-0`, and where an
  update finds no row the LO's insert lacks the required edge to a deployment,
  which ent refuses. `status_parts` shows it, `ComponentsNeverFollow` proves it.
* A report that comes before `SaveDeploymentStatus` finds no row, and that is no
  error. If it is the last one, the row that is then created says `installing` for
  good: `SettledIsTrue` says that this is the only way in which the row ends
  otherwise than the node did.
* The gauge ends at one minus the number of pairs of an LO and a request: it goes up
  once per deployment and down once for the end of every request at every replica
  that relays it (`GaugeIsBalanced`). With two nodes and one LO it is -1, with two LOs
  and one node -3, and the row shows the last report, a
  success after a failure too; the rest of `SettledIsTrue` therefore speaks of one
  of each.

## 3. Runs

| Run | Question | Result |
|---|---|---|
| `lo_safety` | with failed commits and pushes, a reinstalled CO, crashes, lost disks, half pulls, a full queue and panics: `CommitsAreChanges`, `PublishedIsFinal`, `CursorsInOrder`, `HandedOnce`, `InCommitOrder`, `GitPolledIsValid`, `OneWatcher`, `AskedOnce`, `MissedForAReason`, and the ledger | holds |
| `lo_liveness` | does everything come to its end? (`PublishedIsDecided`, `WatcherIsStarted`, `RoundsFinish`) | holds |
| `lo_missed` | is nothing of the site passed over? (`docs/design/eos_design.md:41`) | violated: the watch starts at HEAD, what was committed before it is never compared |
| `writer` | do concurrent calls, failures and crashes leave the history `DesiredState` describes? (`OneCallWorks`, `NothingIsTakenAway`, `ImplementsRepo`, `CallsReturn`) | holds |
| `status_one` | one node, one LO, one client: do row, gauge and stream follow the node, over dying COs and LOs, broken connections and slow clients? (`SettledIsTrue`, `FinalStays`, `ClientSeesProgress`, `InBroadcastOrder`, `NothingSkipped`, `NoSendOnClosed`, `ReportsSettle`, `FailureEndsStream`) | holds |
| `status_stream` | does the stream end when the nodes are done? (`tests/co_lo_en_e2e.js:22`) | violated: a wasm node handles its request, and the only report, `completed`, never reaches the stream |
| `status_parts` | do the components say what the row says, when nothing failed and every report found the row? (`internal/api/handlers/deploystatus.go:87`, `internal/orchestrator/db.go:93`) | violated: no row has the name that is reported |
| `git_calls` | `HalfOnlyAfterKill`; does every call return, but for a pull that met a broken copy? (`OnlyPullHangs`) | holds |
| `git_pull` | does a pull recover from a broken copy? (`internal/gitmanager/gitmanager.go:226`) | violated: it waits for the mutex it holds |
| `edge_node` | shared revisions, several images, none, lost requests, deaths and leftover commands: `InstalledOnce`, `InstalledIsThere`, `ImplementsReports`, `RequestsEnd` | holds |
| `catalog` | two requests on one fetcher, clone and database, and a deployment beside them: `CreatedIsComplete`, `DeployedIsWhole`, `RequestsAnswered` | holds |
| `catalog_repo` | is the application the one of the repository in the request? (`internal/api/handlers/apps.go:44`) | violated: the clone that is there is used |

Bounds.

* The LO runs: uuids are drawn once, so the set of deployments bounds the commits
  and with them every counter; no state constraint is needed. `lo_safety` has
  three deployments of the site and one of another: there can be two events in a
  queue of capacity 2 while a third is dropped, a commit that only other sites
  see, a batch of two or three deployments, and a deployment on each side of a
  crash. Capacity 20 of the code differs from 2 only in how many commits it
  takes to fill it; the theorems hold for every capacity. One host is enough, as
  properties speak of a deployment and a host. One of the deployments has a
  profile without components, so that `Panic` happens. In `lo_liveness` the queue
  has capacity 1, so that events are dropped.
* `writer`: four calls: one that has left a file in the index, one that has
  committed without a push, and two that meet. `Local = FALSE`; the theorems are
  about both modes. The process of this run can always be restarted.
* `status_one`: capacity 2, less than a node's three reports, so that a slow client
  loses one. One client, as the properties of streams speak of one client at a
  time, and the theorems are about any number. One node and one LO: the
  properties say so. With two LOs or two nodes the state space is out of reach of a
  run (more than 20 million states without clients); the theorems about types,
  streams, components and the gauge hold for any number of both.
* `status_parts`: no client, as none is needed to see it.
* `edge_node`: two requests of one revision, the second with two images, one
  without images and one as an LO makes it: enough for a name that is taken by
  another request, by an earlier image and by a leftover command.
* `catalog`: two requests, two repositories that hold the same application in two
  versions and a second application with a profile of the same id, one
  deployment. Two requests are enough to meet in the directory; each may purge
  and start again any number of times.
* `git_calls`: two callers, each calling any method any number of times.

The runs of status, git manager, edge node and catalogue switch off the deadlock
check: when all is reported and every request is over nothing is left to do, and
a state with a hanging pull is what `OnlyPullHangs` is about. The LO and
writer runs leave it on, because a process can always be stopped and started.

Fairness. In all modules: the Go scheduler runs each goroutine that can run.
`sync.Mutex` starves no waiter (its starvation mode hands over to the oldest), so
the steps of a call under the mutex are strongly fair (`writer`, `git_calls`).

* `FairSpec` (LO): tickers fire. Weak fairness of `Pull`: the git server does
  answer some time. Strong fairness of the comparison, because opening the
  repository may fail for a while (`GiveUp`) and the loop comes back to it each
  time. None for the CO, the hosts, `Start`, `Exit`: nothing forces them.
* `FairStatusSpec`: the database and the HTTP client answer, with success or an
  error. None for the nodes, the clients' requests and the failures.
* `FairEdgeSpec`: the callback runs, and registry and docker answer it; nobody has to
  publish, and a process that died need not come back.
* `FairCatalogSpec`: the goroutine of a request that was made runs, and git and the
  database answer, with success or an error. No strong fairness: two requests that
  purge the clone under each other and start again still end, because who starts
  again clones, unless another has cloned meanwhile, and a clone is the last try. The
  exception is `PurgeFails`: `RequestsAnswered` holds for a request that does not meet
  a directory that cannot be removed again and again. Nothing in the code ends that,
  so the property names it instead of assuming it away.

## 4. Proofs

`DesiredState_proof`

* `RepoInvariant`: `RepoSpec => []RepoInv`, where `RepoInv` is the type invariant,
  `CommitsAreChanges`, and *a deployment never created is in no commit*. The last
  part is what makes the other two inductive: a new uuid cannot move an old file.
  `CommitsAdd` is the middle part.
* `PublishedForever`: `RepoSpec => PublishedIsFinal`. From `RepoInv`, each step
  keeps what was published (`PublishedIsKept`); `Reclone` is the interesting one,
  as it takes commits away, but only above `origin`.

`DeploymentsWriter_proof`

* `WriterInvariant`: `WriterInv` is the type invariant, `OneCallWorks`,
  `NothingIsTakenAway` and three parts that make them inductive: a file is in the
  index once its own call has staged it, and what a call has read is still the
  index when it writes it back (`IndexIsCurrent`); a file is in HEAD only after
  its call's commit, and a call between commit and push has made the last commit
  and left nothing uncommitted (`CommitIsDone`); a process that is down has no
  call running (`DeadIsIdle`). `OneAtATime` and `IndexKeepsHead` follow.
* `RepoImplemented`: `WriterSpec => ImplementsRepo`. Each step is an outcome of
  `DesiredState` or a stutter: steps before the commit change nothing a reader
  sees (`EarlyStep`), each end of a call is one outcome (`FailedStep`,
  `CommitErrorStep`, `PushEnds`), a crash ends at most one call that had an
  effect, because there is only one lock holder (`CrashSeen`).

`LocalOrchestrator_proof`

* `TypeCorrect`: any number of deployments and hosts, any capacity.
* `CursorsCorrect`: `CursorInv` adds to `CursorsInOrder` that a lost clone has no
  HEAD and that a dead process watches nothing; the step needs that the origin
  never shrinks, which is `RepoOfLo` and `RepoKept`: the LO's specification
  implements `RepoSpec`, so the repository's theorems carry over.
* `DeployedOnce`, `DeployedInOrder`: `DeliveryInv` says of every deployment on the
  way that it is decided, in one place, and in order with the others; a comparison
  finds only commits above `reached` (`NewChanges`, from `CursorInv`), so a new
  event goes to the end of the queue (`DeliveryTrigger`).
* `PollsAreValid`, `NeverTwoWatchers`: `MachineInv` counts where the one network
  change of a process can be: not raised, alone in the queue, in the dispatcher's
  hand, or through the machine; and the watcher runs only after it.
* `HostsAskedOnce`: `AskInv`, with *what was sent was given out before*.
* `LedgerImplemented`: `Spec => ImplementsLedger`, with `TodoInv` (the dispatcher
  holds deployments only while it handles a poll). Each step decides new
  deployments, hands one out, forgets what was on the way, or is a stutter.
  `OutcomesStay` and `MissedForGood` are what the ledger promises, carried over: what
  the LO has missed it never gives out later. So the finding of `lo_missed` is
  never made good by a restart or a later poll.
* `MissesHaveAReason`: `Spec => MissedForAReason`, from all the invariants above and
  `QueueInv` (no more in the queue than its capacity). A deployment becomes missed
  where it is decided or where it is forgotten. `DiffMisses` goes through the comparison: what is above
  `last` is queued unless the queue is full, the file is not in the working copy, or
  there was nothing to compare with. For every other step `MissesNothing` shows that
  what was decided and not missed is still queued, in hand or given out; `TodoInv` is
  needed where the dispatcher takes the next event, which would overwrite what it has
  left in hand, and `MachineInv` for a process that is down: it holds nothing more to lose.
* `FailedCloneIsForGood`: a watcher that did not come through its first clone is never
  started again by its process (`MachineInv`: the one change of mode is used up), and
  the process gives nothing out, because nothing was polled before (`NothingPolled`).

`StatusStream_proof`

* `StreamInvariant`: types, what is true of a client before it registers, the
  order of what it has read and what waits for it as *one* line, and that nothing
  is skipped while that line is complete. Reading leaves the line as it is
  (`LineKept`), a broadcast extends it or leaves it (`LineGrows`).
  `ClientsReadInOrder`, `DropsNeedFullChannel` and `ChannelsAreOpen` follow, for
  any number of clients, capacity and broadcasts.

`DeploymentStatus_proof`

* `StatusInvHolds`: types, the invariant of the streams, and the order of what is
  under way: reports have a level (pending, installing, the ends), and from the
  node backwards everything on one line has a lower one: wire (`WireInOrder`), the
  report in the LO's hand (`RelayInOrder`), the handlers of the CO
  (`CallsInOrder`). The order is in the type's proof already: that no two handlers
  work on one report (`StatusTypes`) needs that a node says each thing once and
  that what was posted is not posted again. Any nodes, LOs and clients.
* `StatusImplementsStream`: `StatusSpec => StreamSpec`, so the theorems about
  `StatusStream` hold of the composed system.
  `StatusStreamsAreSafe` states them here.
* `NodesReportAsAllowed`: `StatusSpec => Node!ReportsSpec`. The nodes of this module
  take the steps of `NodeReports`, to which `EdgeNode` is proved to keep: what is
  proved here of nodes is not about nodes of this module's own making.
* `ComponentsNeverFollow`: `PartsInv` says that the components are those of the
  creation as soon as there is a row; no update finds one to change.
* `GaugeInBounds`, `GaugeCountsEveryLO`: for any finite numbers of nodes and LOs, and so of
  requests, one for each pair of them. The pairs of an LO and a request that the gauge is
  through with are `Over`: the final word on the request is said, and it is neither on the
  wire to that LO, nor in its hand, nor with a handler before
  `CountDown` (`Uncounted`). `GaugeInv` is that the gauge is at least
  `-Cardinality(Over)`, and without trouble exactly what the creation counted less
  that. A step takes at most one pair to `Over`, as one final word is said on a request
  (`LastWordInv`) and no two handlers work on one report. When all is settled no pair
  is `Uncounted`, so `GaugeIsBalanced`: one less the number of LOs squared times that
  of the nodes.
* For one node and one LO, without trouble: `FinalRowStays`, `SettledRowIsTrue`. `OneInv`
  says that every handler works on the report the LO waits for and that the node's
  last report is the last on its way, that a final row is that report, and that what
  is created has its row;
  `RowIsShown` that the row has what the node said last once nothing is before
  `Update`, unless that found no row. The gauge of `SettledIsTrue` comes from
  `GaugeCountsEveryLO`.
* `ClientReadsProgress`: `CastInOrder` says that the broadcasts go up in level and
  that each is below everything still to come (`CastBelow`); with the order of
  `StatusStream` a client reads a rising selection of them. Any clients and
  capacity.

`GitManager_proof`

* `NoHalfCopyMet`: `GitInv` adds to the property that who is past `Lock` holds the
  mutex (`WorkersHold`) and that a half copy is being cloned by somebody, unless
  the process was killed (`HalfIsCloned`). `OneAtWork` and `GitTypes` follow.
* `RelockHangs`: the finding of `git_pull` for any number of callers. A call that
  has come to `Relock` stays there, and no other call gets further than the mutex,
  until the process is killed.

`EdgeNode_proof`

* `RevisionInstalledOnce`, `InstalledStays`: `EdgeInv` adds to them `JobIsNew`: between
  `docker run` and its report the container is the request's, and nobody was told
  of that revision. A name is never given to another request, whoever dies.
* `EdgeImplementsReports`: `EdgeSpec => ImplementsReports`. `OrderInv` says that a
  request is in one place (to be published, in the subscription, in hand, or
  over), that nothing is said of it before it is in hand, and that the step in
  hand follows from what was said last (`InStep`).
* `ImagesFailForAReason`, `ImageIsAllThatIsMissing`, `NothingFromLOIsInstalled`: a node is
  "responsible for fetching OCI artifacts" (`README.md:69`), and for a request of an LO it
  never can: `DeployToEdges` leaves `Image` empty. As this happens on every path there is
  no run that searches for it; it is proved, for any requests. `ReasonInv` says that who is past
  the artifact has a request that names its image, that containers and leftover commands were
  made for such requests, and that their failures are `excused`. So `FailsForAReason`
  can fail for the empty image only; and what `FromLO` makes is never installed.

`AppCatalog_proof`

* `CatalogTypes`: with the types that a request in `insert` stands at a place of the
  description it has read. `RowIsOfDescription` and `AfterAPlace` are the lemmas about
  the loops: the row at a place is one of the description's, after a place comes
  another or the end.
* `CreatedComplete`: a request that has its application's row in is a *writer*.
  `WriteInv` says that keys are unique and every row has the row it is under
  (`KeysInv`, `ParentInv`), that what a writer's loops have passed is in the tables
  (`HeldInv`), that nothing else is under its keys (`OnlyInv`), and that no two profiles
  or applications that were written share a key (`ApartInv`). The last one is why
  it holds at all: there is no transaction, but whoever comes second at a primary key
  fails, so what a failed request left is never taken for part of another's.
* `DeployedWhole`: `ReaderInv` keeps for a reader between its queries that the profile it
  has found is one of the application it has found; created applications are
  complete and rows stay (`CreatedStays`), so three queries see what one would. For
  applications that are half in, `OfOneInv` says that each
  profile in the table is one of a single description and has components of that one
  only: who writes under its key writes the same description.

Assumptions: the named `ASSUME`s of the constants (`LocalAssumption`,
`SiteAssumption`, `QueueAssumption`, `WriterAssumption`, `StreamAssumption`,
`StatusAssumption`, `ManagerAssumption`, `RequestsAssumption`, `CatalogAssumption`),
nothing else; the theorems about one node and one LO, about requests that name
their image, and those that count (finite sets of nodes and LOs) say so in their
`ASSUME`.

Every invariant and action property of a passing run is a theorem. Only
model-checked: the liveness properties (`PublishedIsDecided`, `WatcherIsStarted`,
`RoundsFinish`, `CallsReturn`, `OnlyPullHangs`, `ReportsSettle`, `FailureEndsStream`,
`RequestsEnd`, `RequestsAnswered`), which need fairness and `ENABLED` and so are out of
the prover's reach; and the five findings, which are counterexamples.

## 5. Plan

What is left, in this order:

1. What the liveness properties rest on and can be proved: that while something is to
   be done some fair step is there for it (the invariants say where everything is).
2. The rows of several deployments in one table, when the code gives components
   names that reports can match: today none ever does.
3. The containers' and nodes' machines, when `cmd/en` constructs them.
4. The two halves in one run: `LocalOrchestrator` hands requests to `EdgeNode` one
   host at a time. Today they meet in `FromLO` and `NodeReports` only.

## 6. Not modelled

Push and offline mode, and the code nothing calls (`mode_detector.go`, `poll.go`,
`sync_engine.go`, `journal.go`, `scheduler.go`, `gitobserver`): no execution
reaches them. The same is true of the node and container machines
(`edge_node_fsm.go`, `container_fsm.go`, `edgenode/handlers.go`): the call that
would construct one is a comment in `cmd/en/main.go:88`. `Register` of the git manager replaces a mutex that may be in use;
each `main` calls it once per repository, before any use. The `ent`
package is generated: 39,838 of the 44,934 lines of Go. The modules use it as
tables with atomic statements, transactions, primary keys and required edges, as
the callers do; it has no behaviour of this system and is not modelled line by
line, so the share of all lines that `map` covers (about 3.5%) says little. Of
the 5,096 lines that are written by hand it covers about 31%; most of the rest is
code nothing calls, request and YAML types, queries that only read, and
start-up. The broker is NATS core: at-most-once
delivery, modelled where messages are sent. Two replicas of an LO on one site
both ask every node and both relay every report; `DeploymentStatus` has the replicas as
a constant, the runs use one, the theorems are about any number. Configuration, logging, metrics server and telemetry have no
state of their own.
