---------------------------- MODULE BuildVersion ----------------------------
(***************************************************************************)
(* Building versions: the rows of table DEPLOYMENT_VERSION, the build pool *)
(* of every server, the search of a cluster for a server with a free       *)
(* thread, and the timers that build and deploy.                           *)
(*                                                                         *)
(* A request is a click of a user or a firing of a timer. A job is the     *)
(* handling of a request on one server, from the web thread that looks for *)
(* a free thread or a running build to the pool thread that builds; it     *)
(* writes one row at most, which has the job's identity.                   *)
(***************************************************************************)
EXTENDS Naturals, Sequences, FiniteSets

CONSTANTS
  Server,      \* the DHorse servers that share one database
  Request,     \* requests; each is made at most once
  Timer,       \* the requests made by timers of automatic deployments
  App,         \* applications, of any kind but those that doBuildNodejsImage archives
  NodeApp,     \* the applications whose image buildNodeImage makes (Vue and React)
  Null,        \* no value
  Serialized,  \* TRUE: nobody starts a build of an application while another waits
  DeletesBuilding,  \* TRUE: users also delete versions that are being built
  MaxThreads,  \* threads of a build pool
  QueueCap,    \* capacity of a build pool's queue (16 in the code)
  MaxFaults    \* bound: server crashes and database errors in one behaviour

Job == Request \X Server

ASSUME BuildAssumption ==
  /\ Timer \subseteq Request /\ NodeApp \subseteq App
  /\ Serialized \in BOOLEAN /\ DeletesBuilding \in BOOLEAN
  /\ MaxThreads \in Nat /\ QueueCap \in Nat /\ MaxFaults \in Nat
  /\ Null \notin Server \cup App \cup Job

VARIABLES
  client,    \* what the sender of each request does
  job,       \* what each job does: [pc, result]
  answer,    \* what each job has answered to the request's sender
  row,       \* the row each job inserted: [status, deleted]
  queue,     \* the jobs waiting in the build pool of each server
  created,   \* how many threads each build pool has created
  workdir,   \* whose code is in an application's directory on a server
  image,     \* whose code is in the image that a job has pushed, if it has
  deployed,  \* the jobs whose version a timer has submitted for deployment
  faults,    \* faults that happened so far
  lost       \* history: jobs that ended without writing a result into their row

vars == <<client, job, answer, row, queue, created, workdir, image, deployed, faults, lost>>

----------------------------------------------------------------------------

Building == {"code", "image", "report"}
JobPc    == {"none", "usable", "check", "insert", "submit", "queued", "deploy",
             "end"} \cup Building
Answers  == {"none", "success", "noresources", "refused"}
Status   == {"NONE", "BUILDING", "SUCCESS", "FAILURE"}

NoClient == [pc |-> "new", home |-> Null, app |-> Null, todo |-> {}, at |-> Null,
             told |-> "none"]

AppOf(j) == client[j[1]].app
IsTimer(j) == j[1] \in Timer
Visible(j) == row[j].status # "NONE" /\ ~row[j].deleted
IsBuilding(j) == row[j].status = "BUILDING" /\ ~row[j].deleted
Dir(j) == <<j[2], AppOf(j)>>   \* localPathOfBranch: one directory per application

(* The pool threads of a server at work, and hasUsableThread. *)
Active(s) == {j \in Job : j[2] = s /\ ~IsTimer(j) /\ job[j].pc \in Building}
HasUsableThread(s) == Cardinality(Active(s)) < MaxThreads

Goto(j, p) == job' = [job EXCEPT ![j].pc = p]
Reply(j, a) == answer' = [answer EXCEPT ![j] = a]
Refuse(j) == Goto(j, "end") /\ Reply(j, "refused")
Tell(r, t) == client' = [client EXCEPT ![r].pc = "done", ![r].told = t]

----------------------------------------------------------------------------
(* The sender of a request.                                                *)

InProgress(r) == client[r].pc \in {"asking", "waiting"}
MayStart(r, a) ==
  /\ client[r].pc = "new"
  /\ Serialized => \A q \in Request : ~(InProgress(q) /\ client[q].app = a)

StartLocal(r, s, a) ==
  /\ client' = [client EXCEPT ![r] = [NoClient EXCEPT !.pc = "waiting", !.home = s,
                                                      !.app = a, !.at = s]]
  /\ Goto(<<r, s>>, "check")

(* asyncBuildVersionWithClusterMode: without a list of servers or with a   *)
(* free thread here, the version is built here; else the others are asked. *)
(* The list is the one of the server registry and may hold any servers.    *)
BuildInCluster(r, s, a) ==
  /\ r \notin Timer
  /\ MayStart(r, a)
  /\ \/ StartLocal(r, s, a)
     \/ \E ips \in SUBSET Server \ {{}} :
          /\ ~HasUsableThread(s)
          /\ client' = [client EXCEPT ![r] = [NoClient EXCEPT !.pc = "asking",
                          !.home = s, !.app = a, !.todo = ips \ {s}]]
          /\ UNCHANGED job
  /\ UNCHANGED <<answer, row, queue, created, workdir, image, deployed, faults, lost>>

(* AutoDeploymentJob.execute: a timer builds on its own server and thread. *)
Fire(r, s, a) ==
  /\ r \in Timer
  /\ MayStart(r, a)
  /\ StartLocal(r, s, a)
  /\ UNCHANGED <<answer, row, queue, created, workdir, image, deployed, faults, lost>>

(* The next server of the list gets the request, or cannot be reached,     *)
(* which ends the request.                                                 *)
AskServer(r) ==
  /\ client[r].pc = "asking"
  /\ \E s \in client[r].todo :
       \/ /\ client' = [client EXCEPT ![r].pc = "waiting", ![r].at = s,
                                      ![r].todo = @ \ {s}]
          /\ Goto(<<r, s>>, "usable")
       \/ Tell(r, "failure") /\ UNCHANGED job
  /\ UNCHANGED <<answer, row, queue, created, workdir, image, deployed, faults, lost>>

(* No server has a free thread: the version is built here after all. *)
AskNobody(r) ==
  /\ client[r].pc = "asking"
  /\ client[r].todo = {}
  /\ client' = [client EXCEPT ![r].pc = "waiting", ![r].at = client[r].home]
  /\ Goto(<<r, client[r].home>>, "check")
  /\ UNCHANGED <<answer, row, queue, created, workdir, image, deployed, faults, lost>>

(* Mutant of GetAnswer: a refusal of another server is not passed on. *)
AwaitSuccess(r) ==
  /\ client[r].pc = "waiting"
  /\ CASE answer[<<r, client[r].at>>] = "success" -> Tell(r, "success")
       [] answer[<<r, client[r].at>>] = "noresources" ->
            client' = [client EXCEPT ![r].pc = "asking", ![r].at = Null]
       [] OTHER -> FALSE
  /\ UNCHANGED <<job, answer, row, queue, created, workdir, image, deployed, faults, lost>>

GetAnswer(r) ==
  /\ client[r].pc = "waiting"
  /\ CASE answer[<<r, client[r].at>>] = "success" -> Tell(r, "success")
       [] answer[<<r, client[r].at>>] = "refused" -> Tell(r, "failure")
       [] answer[<<r, client[r].at>>] = "noresources" ->
            client' = [client EXCEPT ![r].pc = "asking", ![r].at = Null]
       [] OTHER -> FALSE
  /\ UNCHANGED <<job, answer, row, queue, created, workdir, image, deployed, faults, lost>>

Unanswered(r) ==
  /\ client[r].pc = "waiting"
  /\ client[r].at # client[r].home
  /\ answer[<<r, client[r].at>>] = "none"

(* Mutant of TimeOut: after a late answer the next server is asked. *)
TryNext(r) ==
  /\ Unanswered(r)
  /\ client' = [client EXCEPT ![r].pc = "asking", ![r].at = Null]
  /\ UNCHANGED <<job, answer, row, queue, created, workdir, image, deployed, faults, lost>>

(* The call takes too long, or the server that serves it stops: nobody     *)
(* knows whether it has accepted the request. The user is told that it     *)
(* failed, and sends it again.                                             *)
TimeOut(r) ==
  /\ Unanswered(r)
  /\ Tell(r, "unknown")
  /\ UNCHANGED <<job, answer, row, queue, created, workdir, image, deployed, faults, lost>>

----------------------------------------------------------------------------
(* A job on the web thread of its server.                                  *)

(* asyncBuildVersion of a request from another server. *)
LookForThread(j) ==
  /\ job[j].pc = "usable"
  /\ IF HasUsableThread(j[2])
     THEN Goto(j, "check") /\ UNCHANGED answer
     ELSE Goto(j, "end") /\ Reply(j, "noresources")
  /\ UNCHANGED <<client, row, queue, created, workdir, image, deployed, faults, lost>>

CheckNothing(j) ==   \* mutant of CheckBuilding: no query
  /\ job[j].pc = "check"
  /\ Goto(j, "insert") /\ UNCHANGED answer
  /\ UNCHANGED <<client, row, queue, created, workdir, image, deployed, faults, lost>>

(* buildVersionContext, first half: is a version of the application being  *)
(* built? An exception may also end the request, here or before.           *)
CheckBuilding(j) ==
  /\ job[j].pc = "check"
  /\ \/ /\ \A k \in Job : IsBuilding(k) => AppOf(k) # AppOf(j)
        /\ Goto(j, "insert")
        /\ UNCHANGED answer
     \/ Refuse(j)
  /\ UNCHANGED <<client, row, queue, created, workdir, image, deployed, faults, lost>>

(* buildVersionContext, second half: the row, BUILDING by default. *)
InsertRow(j) ==
  /\ job[j].pc = "insert"
  /\ row' = [row EXCEPT ![j] = [status |-> "BUILDING", deleted |-> FALSE]]
  /\ Goto(j, IF IsTimer(j) THEN "code" ELSE "submit")
  /\ UNCHANGED <<client, answer, queue, created, workdir, image, deployed, faults, lost>>

(* Mutant of SubmitTask: a task that finds no room is dropped. *)
SubmitOrDrop(j) ==
  LET s == j[2] IN
  /\ job[j].pc = "submit"
  /\ Reply(j, "success")
  /\ \/ /\ created[s] < MaxThreads
        /\ created' = [created EXCEPT ![s] = @ + 1]
        /\ Goto(j, "code") /\ UNCHANGED <<queue, lost>>
     \/ /\ created[s] = MaxThreads /\ Len(queue[s]) < QueueCap
        /\ queue' = [queue EXCEPT ![s] = Append(@, j)]
        /\ Goto(j, "queued") /\ UNCHANGED <<created, lost>>
     \/ /\ created[s] = MaxThreads /\ Len(queue[s]) >= QueueCap
        /\ lost' = lost \cup {j}
        /\ Goto(j, "end") /\ UNCHANGED <<queue, created>>
  /\ UNCHANGED <<client, row, workdir, image, deployed, faults>>

SubmitUnbounded(j) ==   \* mutant of SubmitTask: a thread for every task
  /\ job[j].pc = "submit"
  /\ created' = [created EXCEPT ![j[2]] = @ + 1]
  /\ Goto(j, "code") /\ Reply(j, "success")
  /\ UNCHANGED <<client, row, queue, workdir, image, deployed, faults, lost>>

(* ThreadPoolExecutor.submit: a new thread takes the task at once, else it *)
(* waits in the queue, else it is rejected and its row stays BUILDING.     *)
SubmitTask(j) ==
  LET s == j[2] IN
  /\ job[j].pc = "submit"
  /\ \/ /\ created[s] < MaxThreads
        /\ created' = [created EXCEPT ![s] = @ + 1]
        /\ Goto(j, "code") /\ Reply(j, "success")
        /\ UNCHANGED <<queue, lost>>
     \/ /\ created[s] = MaxThreads /\ Len(queue[s]) < QueueCap
        /\ queue' = [queue EXCEPT ![s] = Append(@, j)]
        /\ Goto(j, "queued") /\ Reply(j, "success")
        /\ UNCHANGED <<created, lost>>
     \/ /\ created[s] = MaxThreads /\ Len(queue[s]) >= QueueCap
        /\ lost' = lost \cup {j}
        /\ Refuse(j)
        /\ UNCHANGED <<queue, created>>
  /\ UNCHANGED <<client, row, workdir, image, deployed, faults>>

(* DeploymentVersionApplicationService.delete: any version, also one that  *)
(* is being built, if users do that.                                       *)
DeleteVersion(j) ==
  /\ Visible(j)
  /\ IsBuilding(j) => DeletesBuilding
  /\ row' = [row EXCEPT ![j].deleted = TRUE]
  /\ UNCHANGED <<client, job, answer, queue, created, workdir, image, deployed, faults, lost>>

----------------------------------------------------------------------------
(* A job on a build thread, or on the timer's thread.                      *)

TakeNone(j) ==   \* mutant of TakeTask: one thread is always kept free
  /\ queue[j[2]] # <<>> /\ Head(queue[j[2]]) = j
  /\ Cardinality(Active(j[2])) + 1 < created[j[2]]
  /\ queue' = [queue EXCEPT ![j[2]] = Tail(@)]
  /\ Goto(j, "code")
  /\ UNCHANGED <<client, answer, row, created, workdir, image, deployed, faults, lost>>

TakeTask(j) ==
  /\ queue[j[2]] # <<>> /\ Head(queue[j[2]]) = j
  /\ Cardinality(Active(j[2])) < created[j[2]]
  /\ queue' = [queue EXCEPT ![j[2]] = Tail(@)]
  /\ Goto(j, "code")
  /\ UNCHANGED <<client, answer, row, created, workdir, image, deployed, faults, lost>>

Results == {"SUCCESS", "FAILURE"}
Report(j, r) == job' = [job EXCEPT ![j] = [pc |-> "report", result |-> r]]

(* downloadBranch: the directory is cleared, also of another build's code.  *)
DownloadBranch(j) == workdir' = [workdir EXCEPT ![Dir(j)] = j]

(* doBuildImage: an image of what is in the directory is made and pushed.  *)
DoBuildImage(j) == image' = [image EXCEPT ![j] = workdir[Dir(j)]]

CodeOnce(j) ==   \* mutant of PrepareCode: code that is there is used again
  /\ job[j].pc = "code"
  /\ workdir' = [workdir EXCEPT ![Dir(j)] = IF @ = Null THEN j ELSE @]
  /\ Goto(j, "image") \/ Report(j, "FAILURE")
  /\ UNCHANGED <<client, answer, row, queue, created, image, deployed, faults, lost>>

(* doBuildVersion, steps 1 and 2: the application's directory on this      *)
(* server is cleared, gets the branch's code, and the code is compiled     *)
(* there. A failure may come before or after the directory has changed.    *)
PrepareCode(j) ==
  /\ job[j].pc = "code"
  /\ \/ /\ DownloadBranch(j)
        /\ Goto(j, "image") \/ Report(j, "FAILURE")
     \/ UNCHANGED workdir /\ Report(j, "FAILURE")
  /\ UNCHANGED <<client, answer, row, queue, created, image, deployed, faults, lost>>

BuildImageUnchecked(j) ==   \* mutant of BuildImage: a failed push goes unnoticed
  /\ job[j].pc = "image"
  /\ DoBuildImage(j) \/ UNCHANGED image
  /\ Report(j, "SUCCESS")
  /\ UNCHANGED <<client, answer, row, queue, created, workdir, deployed, faults, lost>>

(* Step 3: the image; a failure may also come after the push.              *)
(* buildNodeImage that finds nothing to put into an image logs an error    *)
(* and returns, as if it had made one.                                     *)
BuildImage(j) ==
  /\ job[j].pc = "image"
  /\ \/ /\ DoBuildImage(j)
        /\ \E r \in Results : Report(j, r)
     \/ UNCHANGED image /\ Report(j, "FAILURE")
     \/ /\ AppOf(j) \in NodeApp
        /\ UNCHANGED image /\ Report(j, "SUCCESS")
  /\ UNCHANGED <<client, answer, row, queue, created, workdir, deployed, faults, lost>>

AfterBuild(j) == Goto(j, IF IsTimer(j) THEN "deploy" ELSE "end")

WriteSuccess(j) ==   \* mutant of WriteResult: a failure is only logged
  /\ job[j].pc = "report"
  /\ row' = IF row[j].deleted \/ job[j].result = "FAILURE" THEN row
            ELSE [row EXCEPT ![j].status = job[j].result]
  /\ AfterBuild(j)
  /\ UNCHANGED <<client, answer, queue, created, workdir, image, deployed, faults, lost>>

WriteResult(j) ==
  /\ job[j].pc = "report"
  /\ row' = IF row[j].deleted THEN row
            ELSE [row EXCEPT ![j].status = job[j].result]
  /\ AfterBuild(j)
  /\ UNCHANGED <<client, answer, queue, created, workdir, image, deployed, faults, lost>>

(* The timer goes on to submitToDeploy, whatever the build's result; the   *)
(* version must still be found, and the submission may fail.               *)
AutoDeploy(j) ==
  /\ job[j].pc = "deploy"
  /\ \/ /\ Visible(j)
        /\ deployed' = deployed \cup {j}
        /\ Reply(j, "success")
     \/ UNCHANGED deployed /\ Reply(j, "refused")
  /\ Goto(j, "end")
  /\ UNCHANGED <<client, row, queue, created, workdir, image, faults, lost>>

----------------------------------------------------------------------------
(* Faults.                                                                 *)

DbErrorSwallowed(j) ==   \* mutant of DbError: the second error is caught as well
  /\ faults < MaxFaults /\ faults' = faults + 1
  /\ job[j].pc = "report"
  /\ IF job[j].result = "SUCCESS"
     THEN Report(j, "FAILURE") /\ UNCHANGED <<lost, answer>>
     ELSE lost' = lost \cup {j} /\ AfterBuild(j) /\ UNCHANGED answer
  /\ UNCHANGED <<client, row, queue, created, workdir, image, deployed>>

(* The database refuses the result. A refused success is inside the try    *)
(* block and becomes a failure; a refused failure ends the task, and the   *)
(* timer with it.                                                          *)
DbError(j) ==
  /\ faults < MaxFaults /\ faults' = faults + 1
  /\ job[j].pc = "report"
  /\ IF job[j].result = "SUCCESS"
     THEN Report(j, "FAILURE") /\ UNCHANGED <<lost, answer>>
     ELSE /\ lost' = lost \cup {j}
          /\ Goto(j, "end")
          /\ IF IsTimer(j) THEN Reply(j, "refused") ELSE UNCHANGED answer
  /\ UNCHANGED <<client, row, queue, created, workdir, image, deployed>>

(* A server stops and starts again: its requests, jobs and pool are gone;  *)
(* a row that says BUILDING stays so.                                      *)
Crash(s) ==
  /\ faults < MaxFaults /\ faults' = faults + 1
  /\ lost' = lost \cup {j \in Job : /\ j[2] = s
                                    /\ job[j].pc \in {"submit", "queued"} \cup Building}
  /\ job' = [j \in Job |-> IF j[2] = s /\ job[j].pc # "none"
                           THEN [job[j] EXCEPT !.pc = "end"] ELSE job[j]]
  /\ client' = [r \in Request |-> IF client[r].home = s /\ InProgress(r)
                                  THEN [client[r] EXCEPT !.pc = "done", !.told = "unknown"]
                                  ELSE client[r]]
  /\ queue' = [queue EXCEPT ![s] = <<>>]
  /\ created' = [created EXCEPT ![s] = 0]
  /\ UNCHANGED <<answer, row, workdir, image, deployed>>

----------------------------------------------------------------------------

Init ==
  /\ client = [r \in Request |-> NoClient]
  /\ job = [j \in Job |-> [pc |-> "none", result |-> "FAILURE"]]
  /\ answer = [j \in Job |-> "none"]
  /\ row = [j \in Job |-> [status |-> "NONE", deleted |-> FALSE]]
  /\ queue = [s \in Server |-> <<>>]
  /\ created = [s \in Server |-> 0]
  /\ workdir = [d \in Server \X App |-> Null]
  /\ image = [j \in Job |-> Null]
  /\ deployed = {} /\ lost = {}
  /\ faults = 0

NewRequest(r) ==
  \E s \in Server, a \in App : BuildInCluster(r, s, a) \/ Fire(r, s, a)
ClientStep(r) == AskServer(r) \/ AskNobody(r) \/ GetAnswer(r) \/ TimeOut(r)
WebStep(j) == LookForThread(j) \/ CheckBuilding(j) \/ InsertRow(j) \/ SubmitTask(j)
BuildStep(j) == \/ TakeTask(j) \/ PrepareCode(j) \/ BuildImage(j)
                \/ WriteResult(j) \/ AutoDeploy(j)

Next ==
  \/ \E r \in Request : NewRequest(r) \/ ClientStep(r)
  \/ \E j \in Job : WebStep(j) \/ BuildStep(j) \/ DeleteVersion(j) \/ DbError(j)
  \/ \E s \in Server : Crash(s)

Spec == Init /\ [][Next]_vars

(* Web, pool and timer threads go on until they are done; the programs a   *)
(* build runs return.                                                      *)
Fairness ==
  /\ \A r \in Request : WF_vars(ClientStep(r))
  /\ \A j \in Job : WF_vars(WebStep(j)) /\ WF_vars(BuildStep(j))

FairSpec == Spec /\ Fairness

----------------------------------------------------------------------------
(* Correctness.                                                            *)

(* Type invariant, with the limits of the pool. *)
TypeOK ==
  /\ client \in [Request -> [pc : {"new", "asking", "waiting", "done"},
                             home : Server \cup {Null}, app : App \cup {Null},
                             todo : SUBSET Server, at : Server \cup {Null},
                             told : {"none", "success", "failure", "unknown"}]]
  /\ job \in [Job -> [pc : JobPc, result : Results]]
  /\ answer \in [Job -> Answers]
  /\ row \in [Job -> [status : Status, deleted : BOOLEAN]]
  /\ queue \in [Server -> Seq(Job)]
  /\ \A s \in Server : Len(queue[s]) <= QueueCap
  /\ created \in [Server -> 0 .. MaxThreads]
  /\ workdir \in [Server \X App -> Job \cup {Null}]
  /\ image \in [Job -> Job \cup {Null}]
  /\ deployed \subseteq Job /\ lost \subseteq Job
  /\ faults \in 0 .. MaxFaults

(* One application builds one version at a time, as buildVersionContext    *)
(* says of itself.                                                         *)
OneBuildPerApp ==
  \A j, k \in Job : IsBuilding(j) /\ IsBuilding(k) /\ AppOf(j) = AppOf(k) => j = k

(* Users who wait for each other's answers get two builds of one           *)
(* application only through a request whose outcome nobody knows: one that *)
(* timed out or lost its server.                                           *)
AllKnown == \A r \in Request : client[r].told # "unknown"
OneBuildUnlessUnknown == AllKnown => OneBuildPerApp

(* An image holds the code of its own version, although all builds of an   *)
(* application on a server work in one directory: for such users, if they  *)
(* do not delete the row of a build at work, which hides it from the query *)
(* for running builds.                                                     *)
ImageIsOwnCode == AllKnown => \A j \in Job : image[j] \in {j, Null}

(* A request is built once, however many servers were asked and however    *)
(* late they answered; and a user who is told that the build was accepted  *)
(* has a version.                                                          *)
RowsOf(r) == {s \in Server : row[<<r, s>>].status # "NONE"}
OneRowPerRequest ==
  \A r \in Request :
    /\ \A s, t \in RowsOf(r) : s = t
    /\ client[r].told = "success" => RowsOf(r) # {}

(* A row that says BUILDING has a job that will write its result, unless   *)
(* the job was rejected by the pool or hit by a fault: any other way out   *)
(* would forbid every further build of the application.                    *)
BuildRowHasOwner ==
  \A j \in Job :
    IsBuilding(j) /\ j \notin lost =>
      \/ job[j].pc \in {"submit"} \cup Building
      \/ \E i \in DOMAIN queue[j[2]] : queue[j[2]][i] = j

(* While nothing crashes or fails, a build that was accepted is run. *)
AcceptedIsNotDropped ==
  \A j \in Job : answer[j] = "success" /\ faults = 0 => j \notin lost

(* A version is reported as built only if its image was made and pushed,   *)
(* as the comment of the step says. It is not so for the applications of   *)
(* buildNodeImage, which returns without an image and without an error.    *)
SuccessHasImageUnlessNode ==
  \A j \in Job : row[j].status = "SUCCESS" /\ AppOf(j) \notin NodeApp => image[j] # Null

(* A timer submits its version for deployment only when the build's result *)
(* is in its row.                                                          *)
AutoDeploysAfterBuild ==
  [][\A j \in deployed' \ deployed : row[j].status \in Results]_vars

(* Every build ends. *)
EveryBuildEnds ==
  \A j \in Job : (IsBuilding(j) /\ j \notin lost) ~> (~IsBuilding(j) \/ j \in lost)

(* Every request is answered: no two servers wait for each other, whoever  *)
(* is asked, late or gone.                                                 *)
EveryRequestAnswered == \A r \in Request : InProgress(r) ~> client[r].pc = "done"
=============================================================================
