# DHorse: specifications, model checks and proofs

DHorse deploys applications to Kubernetes. Several DHorse servers share one
database; each has its own thread pools and caches. This directory holds TLA+
models of the parts whose behaviour depends on the order in which requests,
pool threads and servers act, the TLC instances that check them, and theorems
about them that the TLA+ proof system (TLAPS) checks.

## 1. Inventory

| Component | State | Operations | Hard behaviour | What makes it correct |
|---|---|---|---|---|
| Deployment lifecycle (`DeploymentApplicationService`, `DeploymentDetailApplicationService`, `DeploymentVersionApplicationService`) | rows of `DEPLOYMENT_DETAIL` with a status and the thread at work | submit, approve, roll back, delete, abort | every handler is several statements without a lock or a transaction; each decides on a status it read before | one running row per environment; rows follow their life cycle; no row stays running with nobody working on it; nothing runs unapproved |
| Deployment pool and thread registry (`ThreadPoolUtils`, `DeploymentThreadPoolUtils`) | pool threads, bounded queue, map from thread name to thread, interrupt flags | submit a task, register, interrupt by name, remove | rejection after the row was written; a reused thread is interrupted for its former task; a swallowed interrupt; crash | a thread at work can be found; a task that is not lost ends with a result |
| Cluster strategy (`K8sClusterStrategy`) | the image an environment's Deployment asks for; its pods | createDeployment, health check of 1200 rounds | failure after the change; the rolling update leaves old pods running, and pods are selected by environment only | success is never reported on no pods or on another task's rollout |
| Version build (`buildVersionContext`, `doBuildVersion`, `AppBranchApplicationService`) | rows of `DEPLOYMENT_VERSION`, build pool, one directory per application on every server | build, build on another server, delete a version | check-then-insert; unknown outcome of a remote call; builds that share a directory; crash | one build per application; a build row gets a result; an image holds its own version's code |
| Automatic deployment (`AutoDeploymentJob`, `AutoDeploymentApplicationService`) | Quartz timers in memory of every server | start, change, fire | all servers fire at once; changes reach one server | an environment is deployed once per firing, with an image that was built |
| Server registry (`InitializingService`, `Task`) | the `SERVER_IP` rows of the global configuration | report every ten seconds: query, ping, write back | read-ping-write with an update that ignores the version; two first reports insert two rows | a running server comes back into the list, a dead one leaves it; a place is lost only to an overlap or a missed ping |
| Agent configuration (`DHorseConfigHelper`) | a ConfigMap per namespace | write and delete addresses | as above, and at shutdown | as above |
| Replica metrics (`EnvReplicaApplicationService`) | a timestamp row, sharded tables | elect, collect | every server fires in every period; clocks differ | one server collects per period |
| Log stream (`DeploymentPolicy`, `WebSocketCache`, the log web sockets) | waiting and stored records, two maps of sessions | write, list, watch, expire, close | list-then-watch against look-up-then-store; put and remove in two steps; a send that throws | no record twice; a watcher misses only what was looked up too early; closed sessions are forgotten |
| Web terminal, server side (`SSHWebSocketHandler`) | one byte array per session, the running execs | connect, command, close | copy and reset in two steps; a slow shell counts as missing; the connection is lost while a shell starts | no shell outlives its connection |
| Web terminal, browser side (`xterm.js`, `terminal.js`) | write buffer, parser state, two buffers of lines in circular lists, selection, viewport | write, parse, scroll, erase, insert, resize, switch buffers, select, drag, scroll back, draw | chunks end anywhere; a full list trims under every index; late scroll events; an exception ends all output | the screen shows what a plain screen would; chunks are invisible; the view and the selection keep their lines |
| Login (`SysUserApplicationService`, `GuavaCacheUtils`) | token caches per server, user rows | login, logout, change role | stale caches | a revoked token is refused |
| Environments, applications, clusters, members, global configuration | one row each | add, change, delete | deletion while a deployment runs | no running deployment of a deleted environment |
| Repository, image and login strategies, agent, other web pages | none of their own | calls to other systems | pure I/O | not modelled |

How the parts interact: a REST request runs on a web thread, checks the user's
rights, reads and writes rows, and hands a task to the deployment pool of *the
server that got the request*. The task records `host:port,thread name` in the
row. An abort may arrive at any server; it posts `abortDeploymentThread` to the
server in the row, which interrupts the thread of that name. The automatic
deployment calls the build and then `submitToDeploy` like a user. The rows are
the only thing the servers share, and the Kubernetes cluster the only thing the
tasks share. A task's log goes to one thread pool of its server, which sends and
stores it. The web terminal is a page of DHorse: `SSHWebSocketHandler` runs a
shell in a pod, and the terminal that shows it is `src/static/js/terminal`,
which DHorse ships and which no test of the repository touches; it has the
repository's most intricate sequential state, and most of its JavaScript logic
that is not layout.

## 2. Modules

| Module | Content |
|---|---|
| `DeploymentLifecycle` | the lifecycle, the pool and its registry, the cluster's Deployments and pods: one action per database statement, HTTP call or pool operation |
| `EnvReservation` | abstract: an environment is free or held by one row |
| `MCDeployment` | the TLC instances (symmetry) |
| `DeploymentLifecycleProofs` | part 1, for all users: type correctness, registered threads, owners of running rows; part 2, for users whose requests do not overlap: the lock invariant and the refinement of `EnvReservation`; part 3, for users who do not abort or delete either: one task per environment, its own rollout, the life cycle |
| `BuildVersion` | build requests of users and timers, the search of the cluster for a free thread, build rows, build pools |
| `MCBuild` | its TLC instances (symmetry) |
| `BuildVersionProofs` | all its safety properties, for every value of the constants |
| `ServerRegistry`, `MCRegistry`, `ServerRegistryProofs` | the periodic task of every server: election of the collector, report of the address |
| `LogStream`, `MCLog`, `LogStreamProofs` | the records of one log, the pool that sends and stores them, viewers and the cache of sessions |
| `CircularList` | `utils/CircularList` of the terminal: push, pop, trim, insert, remove, shift as operators on a list |
| `TerminalScreen`, `MCScreen`, `TerminalScreenProofs` | the buffers of the terminal and every handler that moves lines or the cursor, on `CircularList` |
| `IdealScreen` | abstract: a screen is rows of text, a cursor row and a region; no list, no scrollback |
| `TerminalUser`, `MCUser`, `TerminalUserProofs` | selection, drag, viewport, keys and mouse reports, on top of `TerminalScreen` |
| `TerminalParser` | the state machine of escape sequences: one character, one chunk, and a reader without chunks |
| `TerminalStream`, `MCStream`, `TerminalStreamProofs` | a shell's bytes from the exec to the screen, on `TerminalParser` |
| `FiniteRecursion` | nothing of DHorse: induction and recursion over the numbers up to n, as facts about sets and functions, for the proofs about loops |

The two components meet in one place, the timer's `AutoDeploy`: it ends in
`submitToDeploy`, which `DeploymentLifecycle` models as `SubmitToDeploy` of a
user. Neither reads the other's rows otherwise, so they are not composed.
The terminal's modules are layers: `TerminalUser` extends `TerminalScreen` and
`TerminalScreen` extends `CircularList`, with the code's calls from one to the
other; `TerminalStream` extends `TerminalParser` and meets the screen where the
parser calls a handler, which for the stream either returns or throws.

### DeploymentLifecycle: state and code

| Variable | Code |
|---|---|
| `detail[d]` | a row of `DEPLOYMENT_DETAIL`: `deploymentStatus`, `envId`, `deploymentThread`, `deletionStatus`; status `NONE` is an identifier not in use |
| `reqs[h]` | a request on a web thread: which statement is next (`pc`), the server it runs on, and what it read at its start and uses later (`kind`, `thread`) |
| `queue[s]`, `worker[<<s, t>>]` | the `ThreadPoolExecutor` of server `s`: waiting tasks and threads; a thread's `pc` names the next statement of the task |
| `threadMap[s]` | `DeploymentThreadPoolUtils.THREAD_MAP` |
| `flagged` | interrupt flags |
| `remote` | the `abortDeploymentThread` call being served |
| `image[e]` | the row whose image the Deployment of `e` asks for |
| `pods[e]` | the rows whose images the pods of `e` have, that is of all that a list by the environment's label returns |
| `faults`, `lost` | a bound, and a history variable that no action reads: the rows whose task ended without a result |

### DeploymentLifecycle: operations

* **submit**: `SubmitToDeploy` (query for a running row), `AddRow` (insert; reply
  to the user or go on), then `CheckEnv`, `Reserve`, `Enqueue`.
* **approve**: `ApproveToDeploy`, then `CheckEnv`, `Reserve`, `Enqueue`.
* **roll back**: `SubmitToRollback`, then `AskApproval`, or `CheckEnv`,
  `Reserve`, `Enqueue`. There is no insert: a rollback reuses the row.
* **delete**: `Delete`, `RemoveRow`. **abort**: `AbortDeployment`, `PostAbort`,
  `CloseAborted` on one server; `QueryAborted`, `LookUpThread`, `Interrupt` on
  the other.
* **a pool thread**: `TakeTask`, `Register`, `RecordThread`, `PreCheck` (a
  deployment only), `ApplyImage`, `CheckHealth`, `Round`, `Finish`, `Unregister`.
* **the cluster**: `RollOut` adds pods of the image that is asked for and takes
  older ones away, but never the last ones (the rolling update of 25% that
  `deploymentStrategy` sets). `ApplyImage` only changes what is asked for.
* **faults**: `DbError` (a refused statement of a task), `Crash` (a server stops
  and starts again); errors of the Kubernetes API and of the remote call are
  outcomes of the actions that make them and are not counted as faults.

`CheckEnv` and `Reserve` are the two halves of `checkAndBuildDeployContext`.
`updateById` reaches only rows that are not deleted, `update` and `delete` reach
any; neither looks at the status. A row's identity stands for the version it
deploys. A round of the health check, with the service, ingress and merge that
follow the last one, is one action, because nothing in it is read by others;
the swallowed interrupt is part of it. As in `doCheckHealth`, a round can end the
check with a success if there are pods, whatever their image; whether they are
all running is the cluster's affair and left open.

### BuildVersion: state and code

A *job* is the handling of a request on one server: `<<request, server>>`. A
request sent to three servers has three jobs, and the properties are about how
many of them insert a row.

| Variable | Code |
|---|---|
| `client[r]` | the sender of a request in `asyncBuildVersionWithClusterMode`: on which server it runs (`home`), the servers of the list it has not asked (`todo`), the one whose answer it waits for (`at`), what it told the user (`told`) |
| `job[j]` | where the job is, on a web thread, in the queue, on a pool thread or on a timer's thread; the result it will report |
| `answer[j]` | its answer: accepted, no free thread, or an error |
| `row[j]` | the row of `DEPLOYMENT_VERSION` that it inserted: status, `deletionStatus` |
| `queue[s]`, `created[s]` | the build pool of server `s`: waiting tasks, threads created |
| `workdir[<<s, a>>]` | the directory of application `a` on server `s` (`localPathOfBranch`): the job whose code is in it |
| `image[j]` | the image that job `j` has pushed: the job whose code it holds |
| `deployed` | versions a timer has submitted for deployment |
| `faults`, `lost` | a bound, and a history variable: jobs that ended without a result |

### BuildVersion: operations

* **the sender**: `BuildInCluster` (build here, or take the list of servers and
  ask), `AskServer` (send, or fail to connect), `GetAnswer`, `TimeOut` (the outcome
  is unknown: the user is told to send again), `AskNobody` (no server has room:
  build here); `Fire` for a timer, which builds on its own thread.
* **a job on a web thread**: `LookForThread` (only when another server asked),
  `CheckBuilding` and `InsertRow` (the two halves of `buildVersionContext`),
  `SubmitTask` (a new thread, the queue, or a rejection after the insert).
* **a job on a pool thread**: `TakeTask`, `PrepareCode` (`DownloadBranch`: clear
  the directory, download; then compile), `BuildImage` (`DoBuildImage`: make the
  image from the directory and push it), `WriteResult`; `AutoDeploy` on the timer's thread.
* **delete**: `DeleteVersion` takes a row away at any time. The constant
  `DeletesBuilding` says whether users also delete versions that are being built.
* **faults**: `DbError` (the result is refused: a success becomes a failure, a
  failure is lost), `Crash`.

The list of servers is any set, because the registry it comes from
(`ServerRegistry`) may be stale. A request is made once: a user who sends it again is another request. The pool counts its threads at work as `getActiveCount`
does, and `created` never shrinks, as core and maximum size are equal.
Clearing, downloading and compiling are one action: what counts is whose code is
in the directory when an image is made from it, and for two builds that work in
it at once that is the last one to prepare it. `NodeApp` are the applications
whose image `buildNodeImage` makes (Vue and React): it may find nothing to put
into an image and return as if it had. Node.js, Nuxt and Next applications are
left out: `doBuildNodejsImage` archives the code beside the directory first and
does not look at the result.

### ServerRegistry: state and code

| Variable | Code |
|---|---|
| `task[s]` | the scheduler's one thread of a server: which statement is next and what it has read (`row`, `got`), whom it pings (`asked`) and who has answered (`ips`) |
| `clock[s]` | its clock in periods of ten seconds; clocks of different servers differ |
| `lastCollection` | the timestamp `COLLECT_REPLICA_METRICS_TASK_TIME` |
| `rows` | the rows of type `SERVER_IP`, each a set of addresses |
| `alive`, `late`, `slow`, `crashes` | faults and their bounds: a stopped server, a firing a second late, a ping answered too late |
| `collections`, `since`, `kept` | history: who collected; who reported since a query; who has lost its place to nothing |

A firing (`fire`) leads to `updateByMoreCondition` (the election, one statement),
`collectReplicaMetrics` (which may fail; the report goes on), `query`,
`pingDHorseServer` for one address after the other, and `updateById` or `add`.
`doReport` sets a version in the row and the javadoc of the interval speaks of an
optimistic lock with five retries; the update compares no version, and nothing
retries. The model has the code's update, so a report may erase another one's
address until that server's next firing; two first reports leave two rows, of
which every later report reads only one.

### LogStream: state and code

| Variable | Code |
|---|---|
| `emitted`, `queue` | the records logged; those that wait for a thread of `THREAD_POOL_WRITE_LOG` |
| `task[t]` | what a thread does with its record in `DeploymentPolicy.handler`: look up, send, `put` in two steps, insert |
| `table` | the stored records |
| `session[v]`, `page[v]`, `received[v]` | the web socket of a viewer, the handler of its one message, what it was sent |
| `bySession`, `byId` | `SESSION_KEY_CACHE` and `BIZ_ID_KEY_CACHE` (of this log) |
| `remover[a]` | a call of `remove` between its two maps |
| `early[v]`, `watching[v]` | history: records looked up between `v`'s listing and its watching; whether `v` has watched without a break |

A record is lost to everyone when its send throws (a closed session, or two pool
threads at one session), because the exception also ends the storing; and a
`put` that comes between the two removals leaves an entry in the maps.
`ClosedSessionsAreForgotten` says what still holds: the sweep of the scheduler
takes such an entry out again.

### TerminalScreen, TerminalUser and CircularList: state and code

| Variable | Code |
|---|---|
| `buffers[n]` | a `Buffer`: its `CircularList` of lines, `x`, `y`, `ybase`, `ydisp`, `scrollTop`, `scrollBottom`, `savedY` |
| `active`, `rows`, `cols`, `savedCols`, `wraparound`, `userScrolling` | fields of `Terminal` |
| `stopped` | a handler has thrown or loops for ever |
| `tame`, `ops` | history: nothing has happened yet that `TameIf` excludes (below); the groups of operations of this program |
| `selection` | `SelectionModel`; rows only |
| `mouseMode`, `reports` | the mouse mode, the listeners `bindMouse` has added to the document |
| `listening`, `dragging`, `amount` | the trim listener, the drag and its timer, `_dragScrollAmount` |
| `view`, `event` | `scrollTop` of the viewport in rows; the scroll event under way and who caused it |
| `replies` | answers that `Terminal.queue` will send |

A line's text is the last ink printed on it or blank; columns are kept where they
decide something (wrapping, the edges of erasing, the jump to `NaN`). Handlers
that repeat a step `param` times are that step, but for `deleteLines` on a full
list, whose rounds are not alike.

**What `tame` excludes.** The properties of the screen hold until a step makes
`tame` FALSE; from there a program is followed only to a reset or an exception.
Every step of the code is in the model also where it does so. Some sequences
have no effect that could be called right:

* a region whose top is below its bottom (`setScrollRegion`);
* a cursor restored to a row that a smaller screen has not (`restoreCursor`).

The others have one, and the code fails; nothing is claimed of what is shown after:

* a list as tall as the screen: a scroll in a region below row 0 takes a line off
  the screen (`LosesLine`), `CSI L` and `CSI M` trim the screen's own first line
  (`ybase` becomes -1), and a resize can need lines that are not there;
* `ESC M` at the top of a region below row 0, which moves `rows - 1` lines from
  there on (xterm.js, line 5000) and so makes the list a line longer below the
  screen; and on row 0 above a region, where the cursor leaves the screen;
* `CSI L` and `CSI M` outside of the region, where they should do nothing;
* an alternate buffer that still has the region of a screen of another size.

An insertion outside of the list throws in `innerWrite`, which never resets
`writeInProgress` and so ends all output; `CSI 1 J` above row 0 would loop for
ever. Both need one of the cases above first.

**What the code does wrong within the properties.** Three failures on well-defined
sequences are not excluded; the properties describe them, and any other would
violate them:

* `CSI M` on a full list goes on with indices from before the trim (lines 863-873).
  `IdealScreen!DeleteBelow` says what is shown: the cursor's line stays, those
  below it go, the row below the region comes with them, and at the end of
  the screen a line that was to be dropped may reappear. `ViewFollows` names the
  line of the scrollback that may become blank.
* `CSI L` and `CSI M` on a full list with the view at its first line take the view
  to -1 (lines 847 and 870): `ViewFollows` says that this is the only way out of
  the list, and `ScreenInsideList` claims no lower bound of `ydisp`.
* `ESC M` on row 0 of a region that ends above the last row moves the rows below the
  region too (line 5000): `IdealScreen!ReverseIndex`.

Two bounds belong to the second: `MaxOut` ends the program's output when the view is
that far out of the list (the user's next scroll brings it back), and
`TerminalUser` leaves such views out (`ViewInList`): a selection made there
would start at a row before the list.

### TerminalStream and TerminalParser: state and code

| Variable | Code |
|---|---|
| `alphabet`, `image` | what the shell writes; which shell the container's image has |
| `socket`, `requests`, `messages` | the web socket and what is under way on it |
| `shells`, `watch`, `output` | the execs that run, the last one started, `SSHContext.baos` |
| `handler`, `content`, `closed` | the thread that handles a message, the text it has copied, whether `afterConnectionClosed` has run |
| `writeBuffer`, `writeInProgress`, `timers` | `Terminal.write` and `innerWrite` |
| `parser` | `Parser`: state, prefix, parameters (counted) |
| `toRefresh`, `frame`, `skipped` | `Renderer`: rows to draw, the animation frame, frames skipped |
| `reader`, `aligned`, `agreed` | history: the reference parser without chunks, whether it is still followed, whether both called the same handlers |

## 3. Runs

| Run | Instance | What it shows |
|---|---|---|
| `serialized` | 2 servers with 2 threads, 2 environments (one needs approval, one merges), 2 rows, 1 fault; submit, approve, roll back; serialized users | one running row and one task per environment, whose rollout nobody replaces; no unapproved task; no success without pods or on another task's rollout; the life cycle; the rows implement `EnvReservation` (1.4 million states) |
| `liveness` | 1 server, 1 thread, a queue of 1, 1 row, 2 requests of every kind, users unrestricted, 1 fault, fair | every running row gets a result; until then it has an owner; threads at work are registered |
| `exclusive` | 2 submits, unrestricted | **violated**: two running rows of one environment |
| `abort` | submit and abort, 1 thread | **violated**: an aborted deployment later succeeds |
| `rollout` | 1 server, 1 environment, 2 submits one after the other | **violated**: a row is reported as deployed while no pod has its image |
| `build_serialized` | 2 servers, 2 users, 2 applications (one in `NodeApp`), 1 thread, a queue of 1, 1 fault, fair; serialized users | one build per application unless an outcome is unknown; owners of build rows; success means an image, except for `NodeApp`; builds end; requests are answered |
| `build_timers` | 2 servers, 2 users and a timer, 2 applications, 1 thread, no queue, 1 fault; serialized users | one row per request; accepted builds run; an image holds its own code, with the timer's own thread; a timer deploys after its build (2.4 million states) |
| `servers` | 2 servers, 2 periods, 1 stop, 1 late firing, 1 slow ping, fair | one collector per period; a place is lost only for a reason; the list follows the servers (1.7 million states) |
| `log_stream` | 2 viewers, 2 threads, 2 records, fair | no record twice; what a watcher misses; closed sessions are forgotten (255 000 states) |
| `screen` | 3 rows, a list of 4 lines, one ink, sizes 2 and 4, parameters to 2; nine programs | the screen is inside the list, implements `IdealScreen`, never stops; the view keeps its place (385 000 states) |
| `selection` | 2 rows, a list of 4 lines, drags of one row; seven programs | the selection follows its lines; late scroll events do not stop following (656 000 states) |
| `terminal_output` | 2 characters on the way, 1 message, 2 chunks, batches of 1; six alphabets | chunks are invisible; nothing waits alone; no shell is left; the screen is drawn (1.3 million states) |

**Serialized users.** The code's only protection of an environment is the query
for a running row. The constant `Serialized` states the assumption under which
that is enough: no two requests on one environment overlap. Runs that use it say
so; `exclusive` shows that it is needed, and the theorem `OneRunningRowPerEnv`
that it suffices. The properties of `serialized` are not checked with abort and
delete: both end a row, by design, while its task may still run, so a second
task of the environment may work beside it.

In `BuildVersion`, `Serialized` means that nobody starts a build of an application
while another request for it waits for an answer. `OneBuildUnlessUnknown` carries
its exception because even this is not enough: a request that timed out may
still be at work, so the comment that one application builds one version at a
time (`DeploymentApplicationService`, line 352) is not kept.
`DeletesBuilding` is FALSE where whole directories matter: the deletion of a
version that is being built hides its row from the query for running builds, a
second build starts in the same directory, and TLC then finds an image with the
other version's code.

What unrestricted users can do to owners of rows, to registered threads and to
build rows is checked in `liveness` on a small instance, and proved for every
value of the constants (section 4).

**Bounds.** `Detail`, `Handler`, `Thread`, `Server` and `Env` are small sets: two
requests and two rows are enough for every race of a check with a write, and
one thread with a queue of one is enough for waiting, rejection and the reuse of
a thread by another task. `QueueCap` is 16 in the code, `MaxTries` 1200, here 1: one round that
does not end the check, then the one that does. `MaxFaults` bounds crashes and
refused statements, here at one: a second fault meets the states that the first
one leaves. At most one remote abort call is served at a time. The core and the
maximum size of the pool are taken as equal, as `initThreadPool` sets them by
default. Threads, rows and handlers are interchangeable (symmetry); runs with
liveness use none. In `build_timers` the queue has no room, so that two users of
one server with one thread meet the rejection; in `build_serialized` it holds one
task, so that builds of two applications wait for one thread. Two servers are
enough for a request to be refused by one, late at the other and built at home.

`servers`: two servers are enough for every overlap of a query with a write,
because a report keeps no memory of who wrote before; two periods for a server
that fires again after it has lost its place. At the last period the clock
stands still, so that servers go on to report, as the liveness property needs.
`log_stream`: two viewers compete for one entry, two threads send and store in
the other order. `screen`: the option `scrollback` is 800 in the page, and the
list is full, and trims, after that many lines; four lines with a screen of
three reach the full list, the wrap of `startIndex`, and every combination of
`ybase`, `ydisp` and region in a few steps. One ink is enough, as a line that
is not in its place shows as ink against blank. A behaviour uses one *program*,
a set of operation groups: the groups that touch the same indices are together
in one of them, and all groups together would only multiply states. In
`selection` the operations of `TerminalScreen` that no selection can tell apart
are in a program of their own. `terminal_output`: an alphabet holds the
characters of one kind of sequence, so that a chunk of two can end at each place
within it; the ends that the parser gets wrong are excluded by `aligned`.

**Fairness.** `Fairness` is weak fairness of each request handler, of the remote
call and of each pool thread: web and pool threads are scheduled by the JVM, and
every call they make has a time limit. In `BuildVersion` it is weak fairness of each
sender, each web thread and each build: HTTP calls between servers have time
limits, and the build is assumed to return, which rests on the external
programs it starts. In `ServerRegistry` a running server's scheduler goes on; in
`LogStream` pool threads, web threads and the sweep do; in `TerminalStream` the
browser draws the frames that are requested. Nothing is assumed of users or faults. `CHECK_DEADLOCK FALSE` is used
everywhere: a system in which no user sends a request rests.

**What the violations say.** `exclusive`: the comment before the query and the
message `ENV_DEPLOYING` promise that a second deployment is refused while one
runs; overlapping requests both pass. `abort`: a comment calls a failed remote
abort harmless; the thread goes on, its result overwrites the row's failure,
and the environment meanwhile accepted new deployments. `rollout`: the log,
the error message and the status say that the new replicas have started; the
health check counts running pods of whatever image, so a round before the first
new pod takes the old version for the new one. The properties of `serialized`
say what is left: `SuccessHasPods` and `RolloutIsOwn`. All are in `PROJECT.json` with their lines. The javadoc of
`hasUsableThread` speaks of an empty queue where the code compares the number of
threads at work; the model follows the code.

**Mutants.** Every property is also run against a model with a plausible bug (a
dropped query, a query that forgets rollbacks, a result that is not written, a
map that is cleared, a round that is not counted); TLC finds each.

## 4. Theorems

All hold for every value of the constants: any number of servers, threads,
requests, rows, environments and faults.

* `TypeCorrect`: `Spec => []TypeOK`. `TypeOK` is not inductive: it allows a
  request or a thread at work without a row. `TypeInv` adds that each has one.
* `ThreadsAreRegistered`: `Spec => []RunningThreadsRegistered`. The property is
  inductive together with `TypeInv`: the thread's own `Register` and
  `Unregister` are the only steps that change its entry, and names are unique
  on a server.
* `BusyRowsHaveOwners`: `Spec => []BusyRowHasOwner`, without any assumption on
  the users. The argument is that ownership is handed over: `Enqueue` hands it
  from the request to the queue or a thread, `TakeTask` from the queue to a
  thread, and a thread gives it up only in `Finish`, which ends the row's
  status, or by adding the row to `lost`.
* `OneRunningRowPerEnv`: `Serialized => (Spec => []EnvExclusive)`. The
  inductive invariant `LockInv` says that an environment has one request at
  most; that the row of a request in progress is of its environment and, before
  the insert, is nobody else's; that tasks have rows; and that a request between its query
  and its write (`reserve`) finds the environment free. `EnvExclusive` alone is
  not inductive: it does not know what that request has seen.
* `HistoryReservesEnv`: `Serialized => (Spec => ReservesEnv)`: each step of the
  lifecycle is an `Acquire`, a `Release` or a stutter of `EnvReservation`.

* With `Undisturbed`, that is `Serialized` and no aborts or deletions (both end a
  row, by design, while its task may go on), part 3 of `DeploymentLifecycleProofs` proves
  `OneTaskHoldsEnv`, `RolloutsAreOwn`, `ApprovalComesFirst` and the action
  properties `StatusesFollowLifeCycle` and `SuccessesHavePods`. `TaskInv` relates
  every place where a task can be to its row: what a request has read is still
  so when it writes (`RequestsKnow`), the row of a task is running (`TasksRun`), no row has two
  tasks (`TasksAlone`), and from `createDeployment` to a success the environment
  asks for the row's image (`OwnImage`). Of the pods, `PodsOfEnv` says that they are
  of rows of their environment, and `PodsSeen` that there are some once a
  round has ended the check. A step ends tasks, hands one over
  (`Enqueue`) or lets a thread take one (`TasksMove`); only those three are
  examined for `TasksAlone`. `HowStatusesChange` lists the writers of a status
  with the status each has validated, from which the life cycle follows.

About `BuildVersion`, for any number of servers, requests, timers and
applications, any pool and queue size:

* `BuildTypeCorrect`: `Spec => []TypeOK`, with the limits of every pool. Like
  above, `TypeInv` adds what a request in progress must have.
* `RequestsBuildOnce`: `Spec => []OneRowPerRequest`. The invariant `LifeInv`
  follows every job and its sender: `JobLife` (a job has its row exactly from
  the insert on), `QueueLife` (a waiting task is in one place) and `SenderLife`
  (while the sender may still ask a server, that server has no job; only the
  server it waits for can insert a row, and once it stops waiting for it, nobody
  else is asked). All steps of a job are one kind of step for this invariant
  (`Advance`), and all steps of a sender two (`Turn`, `SetToWork`), so each
  action is examined once and each kind proved once.
* `TimersDeployBuilds`: `Spec => AutoDeploysAfterBuild`, an action property, from
  `JobLife`.
* `SuccessesHaveImages`: `Spec => []SuccessHasImageUnlessNode`. `ImageInv` adds
  that a job about to make an image finds code in its directory.
* `BuildRowsHaveOwners`, `AcceptedBuildsRun`: ownership goes from the web thread
  to the queue, to a thread, and ends with the result or in `lost`; without a
  fault, only the rejection by the pool loses a job, and it answers with an error.
* `SerializedBuilds`: `Serialized => (Spec => []OneBuildUnlessUnknown)`. While no
  outcome is unknown, every job before its insert has a sender who waits for it;
  one request of an application is in progress; so nothing is inserted between
  the query of a job and its insert.
* `ImagesHoldOwnCode`: `Serialized /\ ~DeletesBuilding => (Spec => []ImageIsOwnCode)`.
  `CodeInv` says that every job at work has a row that says BUILDING, whatever
  crashes, so two jobs in one directory would be two builds of one application,
  which `SerializedBuilds` excludes.

About the other components, also for every value of the constants:

* `ServerRegistryProofs`: `CollectorUnique` (`Spec => []OneCollectorPerPeriod`)
  from `ElectionInv`: every timestamp that won is at most `lastCollection`, and one that has not been
  collected yet is nobody else's; `ListKeepsServers`
  (`Spec => []KeptServersAreListed`) from `KeptInv`: while there is one row, a server that is
  in `kept` is in the list, and in what every reporter has read, or has come
  since.
* `LogStreamProofs`: `RecordsComeOnce` and `WatcherSeesTheRest`, from `StreamInv`:
  a record is in one place (`PlacesOK`), what a viewer has received was stored
  when it listed or looked up while it watched (`ReceivedOK`), and what is stored
  or about to be is received, early or still to be sent (`CoveredOK`).
* `TerminalStreamProofs`: `SomebodyComes` (`Spec => []NothingWaitsAlone`) and
  `ShellsEnd` (`Spec => []NoOrphanShell`); `StreamTypeCorrect`; and
  `ChunksMakeNoDifference` (`Spec => []ChunksInvisible`).

About loops. `Decode`, `Parse` and `Read` are recursive functions over a string,
and `Buffer.resize` is a loop of one row at a time. The library states induction
with an operator as parameter, which the provers cannot instantiate;
`FiniteRecursion` states it with the *set* of the numbers for which a claim
holds, from the well-foundedness of `<` on the naturals, and a recursion with the
function of its steps. With it, `ParseIsRead` says of every string over the
alphabet, whatever its length, that the terminal's parser, which looks ahead
and carries state from chunk to chunk, ends where a reader of one character at a
time ends and has called the same handlers, and `ChunksMakeNoDifference`
follows: where the server's buffer, the messages and the batches of `innerWrite`
cut the output makes no difference, but for the two ends that `aligned` excludes.

`TerminalScreenProofs`, for any number of rows, any scrollback that is longer
than the screen it is opened with, and any program:

* first the operations of `CircularList`, element by element (`SlotFacts`,
  `PushGet`, `TrimFacts`, `InsertGet`, ...): the one place of these proofs where the
  remainder by the length of the array is argued about;
* then, for each handler, `Works`: from a well-placed buffer it makes one that is
  well placed (`Placed`: rows at the end of the list and filled, view and cursor
  inside), keeps the lines in view, and does to the rows what `IdealScreen` says
  (`DeleteRounds` for the rounds of `deleteLines` on a full list).
  `NextCases` sums up: every step is the effect of a handler, an exception, a
  resize, a switch of buffers, or leaves them alone;
* the inductive invariant `IInv`, that is `TypeOK`, a screen no taller than the
  list, and `ScreenInv`: both buffers are placed, the one not shown too, or the
  alternate one is empty; `ScreenInsideList` is not inductive because it does not
  speak of the buffer that the next switch shows;
* from it `ScreenTypeCorrect`, `ScreenStaysInside`, `OutputNeverStops`,
  `OutputKeepsView` and `ScreenImplementsIdeal`
  (`Spec => Ideal!Spec`, step by step).

`TerminalUserProofs`, on top of the screen's proofs:

* of each handler, by how much it shortens the list at its start (`Lasts`), and that
  one which does not synchronize the viewport never moves the view down (`Stays`);
* the inductive invariant `UserInv /\ ViewInList`; `UserInv` adds to `IInv` the bounds of the
  selection on the normal screen while trims are listened to
  (`SelectionBounds`), and that a scroll event of the terminal's own never
  asks for a row above the view (`OwnEventIsLow`); TLC checked both before;
* from it `SelectionStaysInside`, `TrimsMoveSelection` (what leaves the list is
  counted once, so both ends keep their slots: `SlotMoves`) and
  `OwnScrollsFollow`.

Two attempts at a proof changed the model or a property. In a region below row 0
of a screen as tall as the list, `scroll` takes a line off the screen that
`IdealScreen` keeps; no run had such a screen and region together. `LosesLine` now
says so, and a program of the run `screen` reaches it. `OwnScrollKeepsFollowing`
used to say of every state without `userScrolling` that the view ends at the
bottom; `userScrolling` belongs to the terminal and `ydisp` to a buffer, so
scrolling down on the alternate screen clears it for a normal buffer that is
further up, and TLC found the state once the proof had shown where to look (the
program `feed`, `user`, `alt`, `lines` in the instance of `selection`; its 1.8
million states are too many for the run). The property now speaks of views that
are at the bottom.

The only assumptions are those of the modules' constants (`ConstantAssumption`,
`BuildAssumption`, `RegistryAssumption`, `LogAssumption`, `StreamAssumption`,
`ParserAssumption`, `ScreenAssumption`, `UserAssumption`), which TLC evaluates
in the runs.

Only model-checked are the liveness properties `EveryDeploymentEnds`,
`EveryBuildEnds`, `EveryRequestAnswered`, `RegistryFollowsServers`,
`ClosedSessionsAreForgotten` and `ScreenIsDrawn`: the prover has no rules for
fairness and `ENABLED`. Every other property of a passing run is a theorem.

## 5. Not modelled

Log files, notifications, the deployment time of an environment, paging, rights
and parameter checks that only refuse a request, the contents of Kubernetes
objects, the code repository beyond "merging succeeds or fails". A request
whose validation fails changes nothing and has no action. Of the automatic
deployment, the bookkeeping of its timers. Versions built from tags, by timers
only, are like those built from branches. The archives of Node.js, Nuxt and Next
applications, the mixing of two downloads in one directory, and the names of
versions (which have the time in seconds, so two builds of one second on two
servers share a name).

* **Agent configuration**: the read, ping and write of `ServerRegistry` again, on a
  ConfigMap; it shows nothing new.
* **Login**: one cache per server over the shared user table. A token may be stale
  for a day; the code accepts this, and there is no protocol that could fail.
* **Replica metrics** beyond the election, environments, applications, clusters,
  members and global configuration: single statements on single rows.
* **Of the terminal**: colours, attributes and character sets, insert mode within
  a row, tab stops (a tab moves to some later column), links, composition of
  input methods, themes, the translation of keys to sequences, and what the page
  never switches on (flow control, `setOption`). The page opens the terminal with
  29 rows and a `scrollback` of 800 (`terminal.html`) and never resizes it; `resize` is
  modelled as `Terminal` offers it. Two leaks are seen and left out: the drag's
  timer when the button is released outside of the window.
* **Strategies, agent, other web pages**: calls to other systems, and layout.

**What the models show beside their properties**, and no property forbids: bytes
that a shell writes between `toString` and `reset` of `SSHContext` are lost, and a
character whose bytes a copy separates becomes two replacement characters; output
is sent only in answer to a message; a shell that is silent for 300 ms is taken
for missing and a second one is started; after `ESC c` nobody listens to trims of the
new list, and answers that waited are lost; a selection made on the alternate
screen names lines of the normal one; a listener of mouse moves stays if the
program leaves the mouse mode while a button is held; `HVP` with one parameter
makes the column `NaN`; leaving 132 columns after entering them twice keeps
132; a string that ends with `ESC` at the end of a message, and `ESC %`, forget
that a character is still to be skipped.

## 6. Plan

1. Done: `DeploymentLifecycle`, `EnvReservation` and their proofs, the last of
   them part 3 of `DeploymentLifecycleProofs`.
2. Done: `BuildVersion` and its proofs. Left: the timers' bookkeeping, of which
   every server keeps its own copy.
3. Done: `ServerRegistry` with the election of the collector. Left: the ConfigMap.
4. Done: `LogStream`.
5. Done: the web terminal, from the shell to the screen and back.
6. Left: environments and clusters deleted under running deployments, composed with
   `DeploymentLifecycle`; an abstract log that `LogStream` implements.
