------------------------ MODULE DeploymentLifecycle ------------------------
(***************************************************************************)
(* The deployment history of DHorse: the rows of table DEPLOYMENT_DETAIL,  *)
(* the request handlers that read and write them (submit, approve, roll    *)
(* back, delete, abort), the deployment thread pool of every server, the   *)
(* registry of deployment threads that aborting interrupts, and for each   *)
(* environment the image its Kubernetes Deployment asks for and the images *)
(* of the pods there are while the cluster rolls it out.                   *)
(*                                                                         *)
(* Every handler is a sequence of separate database statements: nothing    *)
(* in the code locks a row or opens a transaction around them, so each     *)
(* statement is a step of its own and any other step may come in between.  *)
(***************************************************************************)
EXTENDS Naturals, Sequences, FiniteSets

CONSTANTS
  Server,       \* the DHorse servers that share one database
  Thread,       \* names of the threads of a server's deployment pool
  Handler,      \* requests that may be in progress at the same time
  Detail,       \* identifiers of deployment history rows
  Env,          \* application environments
  Null,         \* no value
  ApprovalEnv,  \* the environments with requiredDeployApproval = YES
  MergeEnv,     \* the environments with requiredMerge = YES
  Ops,          \* the kinds of request the users of this instance send
  Serialized,   \* TRUE: users never send two requests on one environment at once
  QueueCap,     \* capacity of the pool's queue (16 in the code)
  MaxTries,     \* rounds of the health check (1200 in the code)
  MaxFaults     \* bound: server crashes and database errors in one behaviour

RequestKinds == {"submit", "approve", "rollback", "delete", "abort"}

ASSUME ConstantAssumption ==
  /\ ApprovalEnv \subseteq Env
  /\ MergeEnv \subseteq Env
  /\ Ops \subseteq RequestKinds
  /\ Serialized \in BOOLEAN
  /\ QueueCap \in Nat /\ MaxTries \in Nat /\ MaxFaults \in Nat
  /\ Null \notin Server \cup Thread \cup Detail \cup Env \cup (Server \X Thread)

VARIABLES
  detail,     \* the rows: [status, env, thread, deleted]
  reqs,       \* the requests in progress, one per handler
  queue,      \* the tasks waiting in the deployment pool of each server
  worker,     \* what each pool thread does; a slot is <<server, thread name>>
  threadMap,  \* DeploymentThreadPoolUtils.THREAD_MAP of each server
  flagged,    \* the pool threads whose interrupt flag is set
  remote,     \* the abortDeploymentThread call some server is serving
  image,      \* the row whose image each environment's Deployment asks for
  pods,       \* the rows whose images an environment's pods have: those that a
              \* list by the environment's label returns, starting or running
  faults,     \* faults that happened so far
  lost        \* history: rows whose task ended without writing a result

vars == <<detail, reqs, queue, worker, threadMap, flagged, remote, image, pods,
          faults, lost>>

----------------------------------------------------------------------------
(* Statuses of a row, with the names of DeploymentStatusEnum; NONE is the  *)
(* status of an identifier that no row has yet.                            *)

Running    == {"DEPLOYING", "ROLLBACKING"}
Waiting    == {"DEPLOYING_APPROVAL", "ROLLBACK_APPROVAL"}
Succeeded  == {"DEPLOYED_SUCCESS", "MERGED_SUCCESS", "MERGED_FAILURE",
               "ROLLBACK_SUCCESS"}
Failed     == {"DEPLOYED_FAILURE", "ROLLBACK_FAILURE"}
Status     == {"NONE"} \cup Running \cup Waiting \cup Succeeded \cup Failed
Rollbackable == {"DEPLOYED_SUCCESS", "MERGED_SUCCESS", "MERGED_FAILURE",
                 "ROLLBACK_FAILURE"}

Kind == {"deploy", "rollback"}
RunningStatus(k) == IF k = "deploy" THEN "DEPLOYING" ELSE "ROLLBACKING"
FailedStatus(k)  == IF k = "deploy" THEN "DEPLOYED_FAILURE" ELSE "ROLLBACK_FAILURE"

Slot == Server \X Thread
Task == [detail : Detail, kind : Kind]

NoRow   == [status |-> "NONE", env |-> Null, thread |-> Null, deleted |-> FALSE]
IdleReq == [pc |-> "idle", srv |-> Null, env |-> Null, detail |-> Null,
            kind |-> "deploy", thread |-> Null]
NoRemote == [step |-> "none", detail |-> Null, slot |-> Null]
AtRest(p) == [pc |-> p, detail |-> Null, kind |-> "deploy", tries |-> 0,
              result |-> "NONE"]
Begin(task) == [pc |-> IF task.kind = "deploy" THEN "register" ELSE "apply",
                detail |-> task.detail, kind |-> task.kind, tries |-> 0,
                result |-> "NONE"]

ReqPc    == {"idle", "add", "check", "reserve", "enqueue", "ask", "remove",
             "post", "close"}
WorkPc   == {"register", "record", "precheck", "apply", "health", "round",
             "finish"}
WorkerPc == {"absent", "idle", "unregister"} \cup WorkPc

Row == [status : Status, env : Env \cup {Null}, thread : Slot \cup {Null},
        deleted : BOOLEAN]
Request == [pc : ReqPc, srv : Server \cup {Null}, env : Env \cup {Null},
            detail : Detail \cup {Null}, kind : Kind, thread : Slot \cup {Null}]
PoolThread == [pc : WorkerPc, detail : Detail \cup {Null}, kind : Kind,
               tries : Nat, result : Status]
RemoteCall == [step : {"none", "query", "lookup", "first", "second"},
               detail : Detail \cup {Null}, slot : Slot \cup {Null}]

(* A query never returns a deleted row. *)
Visible(d) == detail[d].status # "NONE" /\ ~detail[d].deleted
Busy(d)    == ~detail[d].deleted /\ detail[d].status \in Running
BusyRows(e) == {d \in Detail : Busy(d) /\ detail[d].env = e}

(* An update by id reaches the row only if it is not deleted. *)
UpdateById(d, s) ==
  detail' = IF detail[d].deleted THEN detail
                                 ELSE [detail EXCEPT ![d].status = s]

Reply(h) == reqs' = [reqs EXCEPT ![h] = IdleReq]
Goto(h, p) == reqs' = [reqs EXCEPT ![h].pc = p]

----------------------------------------------------------------------------
(* The requests. A step named after a request is its validation: it reads  *)
(* what later steps rely on. A request whose validation fails changes      *)
(* nothing and is left out.                                                *)

MayStart(h, op, e) ==
  /\ op \in Ops
  /\ reqs[h] = IdleReq
  /\ Serialized => \A g \in Handler : reqs[g].env # e

StartOn(h, s, d, p, k) ==
  reqs' = [reqs EXCEPT ![h] = [pc |-> p, srv |-> s, env |-> detail[d].env,
                               detail |-> d, kind |-> k,
                               thread |-> IF p = "post" THEN detail[d].thread
                                                        ELSE Null]]

(* submitToDeploy: the environment has no running row. The identifier the  *)
(* insert will give the new row is picked here.                            *)
SubmitToDeploy(h, s, e, d) ==
  /\ MayStart(h, "submit", e)
  /\ detail[d].status = "NONE"
  /\ \A g \in Handler : reqs[g].detail # d
  /\ BusyRows(e) = {}
  /\ reqs' = [reqs EXCEPT ![h] = [pc |-> "add", srv |-> s, env |-> e,
                                  detail |-> d, kind |-> "deploy",
                                  thread |-> Null]]
  /\ UNCHANGED <<detail, queue, worker, threadMap, flagged, remote, image, pods,
                 faults, lost>>

(* The insert; a user who is no administrator then gets "wait for          *)
(* approval" in an environment that requires it.                           *)
AddRow(h) ==
  /\ reqs[h].pc = "add"
  /\ detail' = [detail EXCEPT ![reqs[h].detail] =
                  [status |-> "DEPLOYING_APPROVAL", env |-> reqs[h].env,
                   thread |-> Null, deleted |-> FALSE]]
  /\ \/ Goto(h, "check")
     \/ reqs[h].env \in ApprovalEnv /\ Reply(h)
  /\ UNCHANGED <<queue, worker, threadMap, flagged, remote, image, pods, faults, lost>>

ApproveToDeploy(h, s, d) ==
  /\ Visible(d)
  /\ MayStart(h, "approve", detail[d].env)
  /\ detail[d].status \in Waiting
  /\ StartOn(h, s, d, "check",
             IF detail[d].status = "DEPLOYING_APPROVAL" THEN "deploy" ELSE "rollback")
  /\ UNCHANGED <<detail, queue, worker, threadMap, flagged, remote, image, pods,
                 faults, lost>>

RollbackAny(h, s, d) ==   \* mutant: any row may be rolled back
  /\ Visible(d)
  /\ MayStart(h, "rollback", detail[d].env)
  /\ StartOn(h, s, d, IF detail[d].env \in ApprovalEnv THEN "ask" ELSE "check",
             "rollback")
  /\ UNCHANGED <<detail, queue, worker, threadMap, flagged, remote, image, pods,
                 faults, lost>>

SubmitToRollback(h, s, d) ==
  /\ Visible(d)
  /\ MayStart(h, "rollback", detail[d].env)
  /\ detail[d].status \in Rollbackable
  /\ StartOn(h, s, d, IF detail[d].env \in ApprovalEnv THEN "ask" ELSE "check",
             "rollback")
  /\ UNCHANGED <<detail, queue, worker, threadMap, flagged, remote, image, pods,
                 faults, lost>>

(* The rollback waits for approval; update() does not look at deletion.    *)
AskApproval(h) ==
  /\ reqs[h].pc = "ask"
  /\ detail' = [detail EXCEPT ![reqs[h].detail].status = "ROLLBACK_APPROVAL"]
  /\ Reply(h)
  /\ UNCHANGED <<queue, worker, threadMap, flagged, remote, image, pods, faults, lost>>

(* Mutants of CheckEnv: without the query, with a query that forgets the   *)
(* rollbacks, with a query for the row itself.                             *)
CheckNothing(h) ==
  /\ reqs[h].pc = "check"
  /\ Goto(h, "reserve") \/ Reply(h)
  /\ UNCHANGED <<detail, queue, worker, threadMap, flagged, remote, image, pods,
                 faults, lost>>

CheckDeploying(h) ==
  /\ reqs[h].pc = "check"
  /\ \/ /\ \A d \in BusyRows(reqs[h].env) : detail[d].status # "DEPLOYING"
        /\ Goto(h, "reserve")
     \/ Reply(h)
  /\ UNCHANGED <<detail, queue, worker, threadMap, flagged, remote, image, pods,
                 faults, lost>>

CheckOwnRow(h) ==
  /\ reqs[h].pc = "check"
  /\ \/ reqs[h].detail \notin BusyRows(reqs[h].env) /\ Goto(h, "reserve")
     \/ Reply(h)
  /\ UNCHANGED <<detail, queue, worker, threadMap, flagged, remote, image, pods,
                 faults, lost>>

(* checkAndBuildDeployContext, first half: is a row of the environment     *)
(* running? It also reads the environment, its cluster and the global      *)
(* configuration, and an exception may end the request at any of them.     *)
CheckEnv(h) ==
  /\ reqs[h].pc = "check"
  /\ \/ BusyRows(reqs[h].env) = {} /\ Goto(h, "reserve")
     \/ Reply(h)
  /\ UNCHANGED <<detail, queue, worker, threadMap, flagged, remote, image, pods,
                 faults, lost>>

(* checkAndBuildDeployContext, second half: the row becomes running.       *)
Reserve(h) ==
  /\ reqs[h].pc = "reserve"
  /\ UpdateById(reqs[h].detail, RunningStatus(reqs[h].kind))
  /\ Goto(h, "enqueue")
  /\ lost' = lost \ {reqs[h].detail}
  /\ UNCHANGED <<queue, worker, threadMap, flagged, remote, image, pods, faults>>

(* ThreadPoolExecutor.submit: a thread that does not exist yet takes the   *)
(* task at once, else the task waits in the bounded queue, else it is      *)
(* rejected with an exception and the row stays as it is.                  *)
Enqueue(h) ==
  LET s    == reqs[h].srv
      task == [detail |-> reqs[h].detail, kind |-> reqs[h].kind]
      new  == {t \in Thread : worker[<<s, t>>].pc = "absent"}
  IN
  /\ reqs[h].pc = "enqueue"
  /\ \/ /\ \E t \in new : worker' = [worker EXCEPT ![<<s, t>>] = Begin(task)]
        /\ UNCHANGED <<queue, lost>>
     \/ /\ new = {} /\ Len(queue[s]) < QueueCap
        /\ queue' = [queue EXCEPT ![s] = Append(@, task)]
        /\ UNCHANGED <<worker, lost>>
     \/ /\ new = {} /\ Len(queue[s]) >= QueueCap
        /\ lost' = lost \cup {reqs[h].detail}
        /\ UNCHANGED <<queue, worker>>
  /\ Reply(h)
  /\ UNCHANGED <<detail, threadMap, flagged, remote, image, pods, faults>>

(* delete: any row may be deleted, whatever its status. *)
Delete(h, s, d) ==
  /\ Visible(d)
  /\ MayStart(h, "delete", detail[d].env)
  /\ StartOn(h, s, d, "remove", "deploy")
  /\ UNCHANGED <<detail, queue, worker, threadMap, flagged, remote, image, pods,
                 faults, lost>>

RemoveRow(h) ==
  /\ reqs[h].pc = "remove"
  /\ detail' = [detail EXCEPT ![reqs[h].detail].deleted = TRUE]
  /\ Reply(h)
  /\ UNCHANGED <<queue, worker, threadMap, flagged, remote, image, pods, faults, lost>>

(* abortDeployment: only a running row with a recorded thread goes on. The *)
(* status and the thread it reads here are used by the later steps.        *)
AbortDeployment(h, s, d) ==
  /\ Visible(d)
  /\ MayStart(h, "abort", detail[d].env)
  /\ detail[d].status \in Running
  /\ detail[d].thread # Null
  /\ StartOn(h, s, d, "post",
             IF detail[d].status = "DEPLOYING" THEN "deploy" ELSE "rollback")
  /\ UNCHANGED <<detail, queue, worker, threadMap, flagged, remote, image, pods,
                 faults, lost>>

(* The HTTP call to the server that runs the thread: it gets there, or it  *)
(* fails and the exception is only logged. Its time limit is two seconds,  *)
(* so the caller may go on while the call is still being served. Bound: at *)
(* most one call is being served.                                          *)
PostAbort(h) ==
  /\ reqs[h].pc = "post"
  /\ \/ /\ remote = NoRemote
        /\ remote' = [step |-> "query", detail |-> reqs[h].detail,
                      slot |-> reqs[h].thread]
     \/ UNCHANGED remote
  /\ Goto(h, "close")
  /\ UNCHANGED <<detail, queue, worker, threadMap, flagged, image, pods, faults, lost>>

(* The row becomes failed whatever the call did and whatever its status is *)
(* by now.                                                                 *)
CloseAborted(h) ==
  /\ reqs[h].pc = "close"
  /\ UpdateById(reqs[h].detail, FailedStatus(reqs[h].kind))
  /\ Reply(h)
  /\ UNCHANGED <<queue, worker, threadMap, flagged, remote, image, pods, faults, lost>>

(* abortDeploymentThread on the server of the thread: the row is read      *)
(* again, the thread is looked up by its name and interrupted twice.       *)
QueryAborted ==
  /\ remote.step = "query"
  /\ remote' = IF /\ Visible(remote.detail)
                  /\ detail[remote.detail].status \in Running
                  /\ detail[remote.detail].thread # Null
               THEN [remote EXCEPT !.step = "lookup"]
               ELSE NoRemote
  /\ UNCHANGED <<detail, reqs, queue, worker, threadMap, flagged, image, pods,
                 faults, lost>>

LookUpThread ==
  /\ remote.step = "lookup"
  /\ remote' = IF remote.slot[2] \in threadMap[remote.slot[1]]
               THEN [remote EXCEPT !.step = "first"]
               ELSE NoRemote
  /\ UNCHANGED <<detail, reqs, queue, worker, threadMap, flagged, image, pods,
                 faults, lost>>

Interrupt ==
  /\ remote.step \in {"first", "second"}
  /\ flagged' = flagged \cup {remote.slot}
  /\ remote' = IF remote.step = "first" THEN [remote EXCEPT !.step = "second"]
                                        ELSE NoRemote
  /\ UNCHANGED <<detail, reqs, queue, worker, threadMap, image, pods, faults, lost>>

----------------------------------------------------------------------------
(* The pool threads.                                                       *)

EnvOf(d) == detail[d].env
At(w, p) == worker[w].pc = p
Become(w, p) == worker' = [worker EXCEPT ![w].pc = p]
Result(w, p, r) == worker' = [worker EXCEPT ![w].pc = p, ![w].result = r]
AfterTask(w) == worker' = [worker EXCEPT ![w] =
                             AtRest(IF @.kind = "deploy" THEN "unregister" ELSE "idle")]
FailSilently(w) == AfterTask(w)   \* mutant of Fail: return without a result
Fail(w) == Result(w, "finish", FailedStatus(worker[w].kind))

(* A free thread takes the next task. The executor clears the interrupt    *)
(* flag before it runs a task.                                             *)
TakeTask(w) ==
  /\ At(w, "idle")
  /\ queue[w[1]] # <<>>
  /\ worker' = [worker EXCEPT ![w] = Begin(Head(queue[w[1]]))]
  /\ queue' = [queue EXCEPT ![w[1]] = Tail(@)]
  /\ flagged' = flagged \ {w}
  /\ UNCHANGED <<detail, reqs, threadMap, remote, image, pods, faults, lost>>

RegisterOnce(w) ==   \* mutant of Register: a row that has a thread is known already
  /\ At(w, "register")
  /\ threadMap' = [threadMap EXCEPT ![w[1]] = IF detail[worker[w].detail].thread = Null
                                             THEN @ \cup {w[2]} ELSE @]
  /\ Become(w, "record")
  /\ UNCHANGED <<detail, reqs, queue, flagged, remote, image, pods, faults, lost>>

(* A deployment, not a rollback, registers its thread ...                  *)
Register(w) ==
  /\ At(w, "register")
  /\ threadMap' = [threadMap EXCEPT ![w[1]] = @ \cup {w[2]}]
  /\ Become(w, "record")
  /\ UNCHANGED <<detail, reqs, queue, flagged, remote, image, pods, faults, lost>>

(* Mutant of RecordThread: the thread name without its server.             *)
RecordName(w) ==
  /\ At(w, "record")
  /\ detail' = [detail EXCEPT ![worker[w].detail].thread = w[2]]
  /\ Become(w, "precheck")
  /\ UNCHANGED <<reqs, queue, threadMap, flagged, remote, image, pods, faults, lost>>

(* ... and writes server and thread name into the row.                     *)
RecordThread(w) ==
  /\ At(w, "record")
  /\ detail' = [detail EXCEPT ![worker[w].detail].thread = w]
  /\ Become(w, "precheck")
  /\ UNCHANGED <<reqs, queue, threadMap, flagged, remote, image, pods, faults, lost>>

(* doDeploy: an interrupted deployment returns before its try block and    *)
(* writes no result.                                                       *)
PreCheck(w) ==
  /\ At(w, "precheck")
  /\ IF w \in flagged
     THEN /\ flagged' = flagged \ {w}
          /\ lost' = lost \cup {worker[w].detail}
          /\ AfterTask(w)
     ELSE Become(w, "apply") /\ UNCHANGED <<flagged, lost>>
  /\ UNCHANGED <<detail, reqs, queue, threadMap, remote, image, pods, faults>>

(* Mutant of ApplyImage: the API error goes unnoticed.                     *)
ApplyUnchecked(w) ==
  /\ At(w, "apply")
  /\ \/ image' = [image EXCEPT ![EnvOf(worker[w].detail)] = worker[w].detail]
     \/ UNCHANGED image
  /\ Become(w, "health")
  /\ UNCHANGED <<detail, reqs, queue, threadMap, flagged, remote, pods, faults, lost>>

(* createDeployment creates or updates the Deployment and its autoscaler;  *)
(* the pods are left to the cluster (RollOut). An API error may come       *)
(* before or after the Deployment has changed.                             *)
ApplyImage(w) ==
  /\ At(w, "apply")
  /\ \/ /\ image' = [image EXCEPT ![EnvOf(worker[w].detail)] = worker[w].detail]
        /\ Become(w, "health") \/ Fail(w)
     \/ Fail(w) /\ UNCHANGED image
  /\ UNCHANGED <<detail, reqs, queue, threadMap, flagged, remote, pods, faults, lost>>

(* The head of checkHealthOfAll's loop: out of rounds, interrupted, or one *)
(* more round.                                                             *)
CheckHealth(w) ==
  /\ At(w, "health")
  /\ IF worker[w].tries = MaxTries
     THEN Fail(w) /\ UNCHANGED flagged
     ELSE IF w \in flagged
          THEN Fail(w) /\ flagged' = flagged \ {w}
          ELSE Become(w, "round") /\ UNCHANGED flagged
  /\ UNCHANGED <<detail, reqs, queue, threadMap, remote, image, pods, faults, lost>>

(* What a deployment or rollback ends with once all pods run: service and  *)
(* ingress are written (or the call fails), then a deployment merges its   *)
(* branch where that is required and the branch is not master or main.     *)
Results(w) ==
  {FailedStatus(worker[w].kind)}
  \cup IF worker[w].kind = "rollback" THEN {"ROLLBACK_SUCCESS"}
       ELSE {"DEPLOYED_SUCCESS"}
            \cup IF EnvOf(worker[w].detail) \in MergeEnv
                 THEN {"MERGED_SUCCESS", "MERGED_FAILURE"} ELSE {}

(* Mutant of Round: the rounds are not counted.                            *)
EndlessRound(w) ==
  /\ At(w, "round")
  /\ flagged' = flagged \ {w}
  /\ \/ Become(w, "health")
     \/ \E r \in Results(w) : Result(w, "finish", r)
  /\ UNCHANGED <<detail, reqs, queue, threadMap, remote, image, pods, faults, lost>>

(* Mutant of Round: no pods at all are all running.                        *)
EmptyRound(w) ==
  /\ At(w, "round")
  /\ flagged' = flagged \ {w}
  /\ \/ worker' = [worker EXCEPT ![w].pc = "health", ![w].tries = @ + 1]
     \/ \E r \in Results(w) : Result(w, "finish", r)
  /\ UNCHANGED <<detail, reqs, queue, threadMap, remote, image, pods, faults, lost>>

(* A round: the pause ends in time or by an interrupt, which it swallows   *)
(* with its flag; then the pods with the environment's label, of whatever  *)
(* image, are listed. There are none or they are not all running yet; or   *)
(* they are all running; or the call fails.                                *)
Round(w) ==
  /\ At(w, "round")
  /\ flagged' = flagged \ {w}
  /\ \/ worker' = [worker EXCEPT ![w].pc = "health", ![w].tries = @ + 1]
     \/ Fail(w)
     \/ /\ pods[EnvOf(worker[w].detail)] # {}
        /\ \E r \in Results(w) : Result(w, "finish", r)
  /\ UNCHANGED <<detail, reqs, queue, threadMap, remote, image, pods, faults, lost>>

(* Mutant of Finish: only a success is written.                            *)
FinishSuccess(w) ==
  /\ At(w, "finish")
  /\ IF worker[w].result \in Failed THEN UNCHANGED detail
     ELSE UpdateById(worker[w].detail, worker[w].result)
  /\ AfterTask(w)
  /\ UNCHANGED <<reqs, queue, threadMap, flagged, remote, image, pods, faults, lost>>

(* updateDeployStatus with the result, whatever the row says by now.       *)
Finish(w) ==
  /\ At(w, "finish")
  /\ UpdateById(worker[w].detail, worker[w].result)
  /\ AfterTask(w)
  /\ UNCHANGED <<reqs, queue, threadMap, flagged, remote, image, pods, faults, lost>>

Unregister(w) ==
  /\ At(w, "unregister")
  /\ threadMap' = [threadMap EXCEPT ![w[1]] = @ \ {w[2]}]
  /\ worker' = [worker EXCEPT ![w] = AtRest("idle")]
  /\ UNCHANGED <<detail, reqs, queue, flagged, remote, image, pods, faults, lost>>

----------------------------------------------------------------------------
(* The cluster.                                                            *)

(* The rolling update: pods of the image that is asked for appear, those   *)
(* of older images go, and at most a quarter of them before others run, so *)
(* that some pods are left. When this happens, and whether, is up to the   *)
(* cluster.                                                                *)
RollOut(e) ==
  /\ \/ /\ image[e] \notin pods[e] \cup {Null}
        /\ pods' = [pods EXCEPT ![e] = @ \cup {image[e]}]
     \/ \E old \in pods[e] \ {image[e]} :
          /\ pods[e] # {old}
          /\ pods' = [pods EXCEPT ![e] = @ \ {old}]
  /\ UNCHANGED <<detail, reqs, queue, worker, threadMap, flagged, remote, image,
                 faults, lost>>

----------------------------------------------------------------------------
(* Faults.                                                                 *)

(* The database refuses a statement of a task: recording the thread is not *)
(* inside the try block whose finally removes the thread from the map.     *)
DbError(w) ==
  /\ faults < MaxFaults
  /\ faults' = faults + 1
  /\ \/ At(w, "record") /\ worker' = [worker EXCEPT ![w] = AtRest("idle")]
     \/ At(w, "finish") /\ AfterTask(w)
  /\ lost' = lost \cup {worker[w].detail}
  /\ UNCHANGED <<detail, reqs, queue, threadMap, flagged, remote, image, pods>>

(* A server stops and starts again: its requests, its pool and its map are *)
(* gone, the rows stay as they are, and nothing repairs them at start-up.  *)
TasksOn(s) ==
  {queue[s][i].detail : i \in DOMAIN queue[s]}
    \cup {worker[<<s, t>>].detail : t \in {u \in Thread : worker[<<s, u>>].pc \in WorkPc}}
    \cup {reqs[h].detail : h \in {g \in Handler : reqs[g].pc = "enqueue"
                                                   /\ reqs[g].srv = s}}

Crash(s) ==
  /\ faults < MaxFaults
  /\ faults' = faults + 1
  /\ lost' = lost \cup TasksOn(s)
  /\ queue' = [queue EXCEPT ![s] = <<>>]
  /\ worker' = [w \in Slot |-> IF w[1] = s THEN AtRest("absent") ELSE worker[w]]
  /\ threadMap' = [threadMap EXCEPT ![s] = {}]
  /\ flagged' = {w \in flagged : w[1] # s}
  /\ reqs' = [h \in Handler |-> IF reqs[h].srv = s THEN IdleReq ELSE reqs[h]]
  /\ remote' = IF remote # NoRemote /\ remote.slot[1] = s THEN NoRemote ELSE remote
  /\ UNCHANGED <<detail, image, pods>>

----------------------------------------------------------------------------

Init ==
  /\ detail = [d \in Detail |-> NoRow]
  /\ reqs = [h \in Handler |-> IdleReq]
  /\ queue = [s \in Server |-> <<>>]
  /\ worker = [w \in Slot |-> AtRest("absent")]
  /\ threadMap = [s \in Server |-> {}]
  /\ flagged = {}
  /\ remote = NoRemote
  /\ image = [e \in Env |-> Null]
  /\ pods = [e \in Env |-> {}]
  /\ faults = 0
  /\ lost = {}

NewRequest(h) ==
  \E s \in Server :
    \/ \E e \in Env, d \in Detail : SubmitToDeploy(h, s, e, d)
    \/ \E d \in Detail : \/ ApproveToDeploy(h, s, d)
                         \/ SubmitToRollback(h, s, d)
                         \/ Delete(h, s, d)
                         \/ AbortDeployment(h, s, d)

RequestStep(h) ==
  \/ AddRow(h) \/ AskApproval(h) \/ CheckEnv(h) \/ Reserve(h) \/ Enqueue(h)
  \/ RemoveRow(h) \/ PostAbort(h) \/ CloseAborted(h)

ClusterStep == \E e \in Env : RollOut(e)

RemoteStep == QueryAborted \/ LookUpThread \/ Interrupt

WorkerStep(w) ==
  \/ TakeTask(w) \/ Register(w) \/ RecordThread(w) \/ PreCheck(w)
  \/ ApplyImage(w) \/ CheckHealth(w) \/ Round(w) \/ Finish(w) \/ Unregister(w)

Next ==
  \/ \E h \in Handler : NewRequest(h) \/ RequestStep(h)
  \/ RemoteStep
  \/ \E w \in Slot : WorkerStep(w) \/ DbError(w)
  \/ ClusterStep
  \/ \E s \in Server : Crash(s)

Spec == Init /\ [][Next]_vars

(* A request, a call being served and a running pool thread go on until    *)
(* they are done; no user has to send a request, and the cluster need not  *)
(* roll anything out.                                                      *)
Fairness ==
  /\ \A h \in Handler : WF_vars(RequestStep(h))
  /\ WF_vars(RemoteStep)
  /\ \A w \in Slot : WF_vars(WorkerStep(w))

FairSpec == Spec /\ Fairness

----------------------------------------------------------------------------
(* Correctness.                                                            *)

(* Type invariant. *)
TypeOK ==
  /\ detail \in [Detail -> Row]
  /\ reqs \in [Handler -> Request]
  /\ queue \in [Server -> Seq(Task)]
  /\ worker \in [Slot -> PoolThread]
  /\ threadMap \in [Server -> SUBSET Thread]
  /\ flagged \subseteq Slot
  /\ remote \in RemoteCall
  /\ image \in [Env -> Detail \cup {Null}]
  /\ pods \in [Env -> SUBSET Detail]
  /\ faults \in 0 .. MaxFaults
  /\ lost \subseteq Detail

(* What may still write a result into row d: a request about to hand its   *)
(* task to the pool, a waiting task, a pool thread at work on it.          *)
RequestOf(d) == \E h \in Handler : reqs[h].pc = "enqueue" /\ reqs[h].detail = d
QueuedFor(d) == \E s \in Server : \E i \in DOMAIN queue[s] : queue[s][i].detail = d
WorkedOn(d)  == \E w \in Slot : worker[w].pc \in WorkPc /\ worker[w].detail = d

(* A row that says "deploying" or "rolling back" has a request, a waiting  *)
(* task or a pool thread that will still write its result, unless its task *)
(* was lost: rejected by the pool, gone with its server, stopped by a      *)
(* database error, or interrupted before it began. Any other way to lose a *)
(* task would block the environment with ENV_DEPLOYING for good.           *)
BusyRowHasOwner ==
  \A d \in Detail :
    Busy(d) /\ d \notin lost => RequestOf(d) \/ QueuedFor(d) \/ WorkedOn(d)

(* An abort finds the thread of a deployment by its name: the thread is in *)
(* its server's THREAD_MAP from put to remove, whatever crashed, failed or *)
(* was interrupted in between.                                             *)
RunningThreadsRegistered ==
  \A w \in Slot :
    worker[w].kind = "deploy" /\ worker[w].pc \in WorkPc \ {"register"}
      => w[2] \in threadMap[w[1]]

(* At most one row of an environment is running: what the query before a   *)
(* deployment ("is a deployment of this environment in progress?") is for. *)
EnvExclusive ==
  \A d1, d2 \in Detail :
    Busy(d1) /\ Busy(d2) /\ detail[d1].env = detail[d2].env => d1 = d2

(* While users never send two requests on one environment at once, the     *)
(* rows' statuses work as a lock on the environment, whatever is aborted,  *)
(* deleted, lost or crashes.                                               *)
Reservation == INSTANCE EnvReservation
                 WITH Row <- Detail, holders <- [e \in Env |-> BusyRows(e)]
ReservesEnv == Reservation!Spec

(* What holds environment e: a request that has made its row running, a    *)
(* waiting task, a pool thread at work.                                    *)
Claims(e) ==
  {<<"request", h>> : h \in {g \in Handler : reqs[g].pc = "enqueue"
                                              /\ reqs[g].env = e}}
  \cup {<<"queued", p>> : p \in {q \in Server \X (1 .. QueueCap) :
                                    /\ q[2] \in DOMAIN queue[q[1]]
                                    /\ EnvOf(queue[q[1]][q[2]].detail) = e}}
  \cup {<<"worker", w>> : w \in {v \in Slot : /\ worker[v].pc \in WorkPc
                                              /\ EnvOf(worker[v].detail) = e}}

(* Two deployments never work on the same Kubernetes deployment at once:   *)
(* an environment is held by one request, waiting task or thread at most.  *)
(* The code reaches this through the rows' statuses alone.                 *)
OneTaskPerEnv == \A e \in Env : \A x, y \in Claims(e) : x = y

(* From createDeployment to the end of the health check, and on to the     *)
(* update that writes a success, the environment's Deployment asks for the *)
(* image of the task at work: no other task has replaced it in the         *)
(* meantime. (The pods that the task looks at may be older ones.)          *)
RolloutIsOwn ==
  \A w \in Slot :
    \/ worker[w].pc \in {"health", "round"}
    \/ worker[w].pc = "finish" /\ worker[w].result \in Succeeded
      => image[EnvOf(worker[w].detail)] = worker[w].detail

(* A row that waits for an approval has no task: nothing of it runs before *)
(* somebody approves it.                                                   *)
WaitingRowHasNoTask ==
  \A d \in Detail :
    Visible(d) /\ detail[d].status \in Waiting
      => ~RequestOf(d) /\ ~QueuedFor(d) /\ ~WorkedOn(d)

(* A row is reported as deployed or rolled back only while the Deployment  *)
(* asks for its image and the environment has pods of it or, because the   *)
(* health check does not look at images, of an older row of the same       *)
(* environment: never on an empty list of pods, so the first success in an *)
(* environment is the row's own, and never on another task's rollout.      *)
SuccessHasPods ==
  [][\A d \in Detail :
       /\ detail[d].status \in Running
       /\ detail'[d].status \in Succeeded
       => /\ image[EnvOf(d)] = d
          /\ \/ d \in pods[EnvOf(d)]
             \/ \E old \in pods[EnvOf(d)] : old # d /\ EnvOf(old) = EnvOf(d)]_vars

(* A row is reported as deployed or rolled back only if pods of its own    *)
(* image have come up. The code does not see to that: a round of the       *)
(* health check before the first new pod finds the old ones running.       *)
SuccessMeansImageRuns ==
  [][\A d \in Detail :
       /\ detail[d].status \in Running
       /\ detail'[d].status \in Succeeded
       => d \in pods[EnvOf(d)]]_vars

(* The life cycle of a row, as the statuses of DeploymentStatusEnum name   *)
(* it.                                                                     *)
LifeCycle ==
  {<<"NONE", "DEPLOYING_APPROVAL">>, <<"DEPLOYING_APPROVAL", "DEPLOYING">>,
   <<"ROLLBACK_APPROVAL", "ROLLBACKING">>}
  \cup {"DEPLOYING"} \X {"DEPLOYED_SUCCESS", "DEPLOYED_FAILURE", "MERGED_SUCCESS",
                          "MERGED_FAILURE"}
  \cup Rollbackable \X {"ROLLBACK_APPROVAL", "ROLLBACKING"}
  \cup {"ROLLBACKING"} \X {"ROLLBACK_SUCCESS", "ROLLBACK_FAILURE"}

(* A row only moves along its life cycle, although every writer decides on *)
(* a status it read in an earlier step and writes without looking again.   *)
FollowsLifeCycle ==
  [][\A d \in Detail :
       detail'[d].status # detail[d].status
         => <<detail[d].status, detail'[d].status>> \in LifeCycle]_vars

(* A deployment that an abort has marked as failed stays failed.           *)
AbortIsFinal ==
  [][\A d \in Detail :
       detail[d].status = "DEPLOYED_FAILURE"
         => detail'[d].status = "DEPLOYED_FAILURE"]_vars

(* Every deployment and every rollback comes to an end, also when requests *)
(* raced, were aborted or waited in the queue: a running row gets a        *)
(* result, unless its task was lost.                                       *)
EveryDeploymentEnds ==
  \A d \in Detail : (Busy(d) /\ d \notin lost) ~> (~Busy(d) \/ d \in lost)
=============================================================================
