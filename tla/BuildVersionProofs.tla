------------------------- MODULE BuildVersionProofs -------------------------
(***************************************************************************)
(* Theorems about BuildVersion, for every value of its constants: any      *)
(* number of servers, requests, timers and applications, any pool size.    *)
(***************************************************************************)
EXTENDS BuildVersion, TLAPS

----------------------------------------------------------------------------
(* Types. TypeOK is not inductive: a request in progress needs a home, one *)
(* that waits the server it waits for, and a job an application, whose     *)
(* directory it works in.                                                  *)

Client == [pc : {"new", "asking", "waiting", "done"}, home : Server \cup {Null},
           app : App \cup {Null}, todo : SUBSET Server, at : Server \cup {Null},
           told : {"none", "success", "failure", "unknown"}]

ClientsOK ==
  /\ client \in [Request -> Client]
  /\ \A r \in Request : /\ client[r].pc = "new" \/ client[r].app \in App
                        /\ InProgress(r) => client[r].home \in Server
                        /\ client[r].pc = "waiting" => client[r].at \in Server

JobsOK == /\ job \in [Job -> [pc : JobPc, result : Results]]
          /\ answer \in [Job -> Answers]
          /\ row \in [Job -> [status : Status, deleted : BOOLEAN]]

PoolsOK == /\ queue \in [Server -> Seq(Job)]
           /\ \A s \in Server : Len(queue[s]) <= QueueCap
           /\ created \in [Server -> 0 .. MaxThreads]

FilesOK == /\ workdir \in [Server \X App -> Job \cup {Null}]
           /\ image \in [Job -> Job \cup {Null}]
           /\ \A j \in Job : job[j].pc = "none" \/ AppOf(j) \in App
           /\ \A s \in Server : \A i \in DOMAIN queue[s] : AppOf(queue[s][i]) \in App

HistoryOK == /\ deployed \subseteq Job /\ lost \subseteq Job
             /\ faults \in 0 .. MaxFaults

TypeInv == ClientsOK /\ JobsOK /\ PoolsOK /\ FilesOK /\ HistoryOK

LEMMA TypeInvImpliesTypeOK == TypeInv => TypeOK
BY DEF TypeInv, TypeOK, ClientsOK, Client, JobsOK, PoolsOK, FilesOK, HistoryOK

(* A job is a request on a server. *)
LEMMA JobIsPair ==
  /\ \A j \in Job : j[1] \in Request /\ j[2] \in Server /\ j = <<j[1], j[2]>>
  /\ \A r \in Request, s \in Server : <<r, s>> \in Job
BY DEF Job

LEMMA Sizes == MaxThreads \in Nat /\ QueueCap \in Nat /\ MaxFaults \in Nat
BY BuildAssumption

LEMMA InitTypeInv == Init => TypeInv
<1>. SUFFICES ASSUME Init PROVE TypeInv
  OBVIOUS
<1>. USE DEF Init
<1>1. ClientsOK
  BY DEF ClientsOK, Client, NoClient, InProgress
<1>2. JobsOK
  BY DEF JobsOK, JobPc, Building, Results, Answers, Status
<1>3. PoolsOK /\ HistoryOK
  BY Sizes DEF PoolsOK, HistoryOK
<1>4. FilesOK
  BY DEF FilesOK
<1>. QED  BY <1>1, <1>2, <1>3, <1>4 DEF TypeInv

(* How the helpers of the actions keep the types. *)
LEMMA GotoOK ==
  ASSUME JobsOK, NEW j \in Job, NEW p \in JobPc, Goto(j, p)
  PROVE  job' \in [Job -> [pc : JobPc, result : Results]]
BY DEF JobsOK, Goto

LEMMA ReplyOK ==
  ASSUME JobsOK, NEW j \in Job, NEW a \in Answers, Reply(j, a)
  PROVE  answer' \in [Job -> Answers]
BY DEF JobsOK, Reply

LEMMA ReportOK ==
  ASSUME JobsOK, NEW j \in Job, NEW r \in Results, Report(j, r)
  PROVE  job' \in [Job -> [pc : JobPc, result : Results]]
BY DEF JobsOK, Report, JobPc, Building

LEMMA TellOK ==
  ASSUME ClientsOK, NEW r \in Request, client[r].pc # "new",
         NEW t \in {"none", "success", "failure", "unknown"}, Tell(r, t)
  PROVE  ClientsOK'
BY DEF ClientsOK, Tell, Client, InProgress

LEMMA StartLocalOK ==
  ASSUME ClientsOK, JobsOK, NEW r \in Request, NEW s \in Server, NEW a \in App,
         StartLocal(r, s, a)
  PROVE  ClientsOK' /\ job' \in [Job -> [pc : JobPc, result : Results]]
<1>1. ClientsOK'
  BY DEF StartLocal, ClientsOK, Client, NoClient, InProgress
<1>2. job' \in [Job -> [pc : JobPc, result : Results]]
  BY GotoOK, JobIsPair DEF StartLocal, JobPc
<1>. QED  BY <1>1, <1>2

(* The steps of a request's sender. *)
LEMMA SenderTypeInv ==
  ASSUME TypeInv, NEW r \in Request, NewRequest(r) \/ ClientStep(r)
  PROVE  TypeInv'
<1>. USE DEF TypeInv
<1>1. ASSUME NEW s \in Server, NEW a \in App, BuildInCluster(r, s, a)
      PROVE  ClientsOK' /\ job' \in [Job -> [pc : JobPc, result : Results]]
  <2>1. CASE StartLocal(r, s, a)
    BY <2>1, StartLocalOK
  <2>2. ASSUME UNCHANGED job, NEW ips \in SUBSET Server,
               client' = [client EXCEPT ![r] = [NoClient EXCEPT !.pc = "asking",
                            !.home = s, !.app = a, !.todo = ips \ {s}]]
        PROVE  ClientsOK' /\ job' \in [Job -> [pc : JobPc, result : Results]]
    <3>1. [NoClient EXCEPT !.pc = "asking", !.home = s, !.app = a,
                           !.todo = ips \ {s}] \in Client
      BY DEF Client, NoClient
    <3>. QED  BY <2>2, <3>1 DEF ClientsOK, JobsOK, NoClient, InProgress
  <2>. QED  BY <1>1, <2>1, <2>2 DEF BuildInCluster
<1>2. ASSUME NEW s \in Server, NEW a \in App, Fire(r, s, a)
      PROVE  ClientsOK' /\ job' \in [Job -> [pc : JobPc, result : Results]]
  BY <1>2, StartLocalOK DEF Fire
<1>3. ASSUME AskServer(r)
      PROVE  ClientsOK' /\ job' \in [Job -> [pc : JobPc, result : Results]]
  <2>1. PICK s \in client[r].todo :
          \/ /\ client' = [client EXCEPT ![r].pc = "waiting", ![r].at = s,
                                         ![r].todo = @ \ {s}]
             /\ Goto(<<r, s>>, "usable")
          \/ Tell(r, "failure") /\ UNCHANGED job
    BY <1>3 DEF AskServer
  <2>2. s \in Server
    BY <2>1 DEF ClientsOK, Client
  <2>3. CASE Tell(r, "failure") /\ UNCHANGED job
    BY <1>3, <2>3, TellOK DEF AskServer, JobsOK
  <2>4. CASE /\ client' = [client EXCEPT ![r].pc = "waiting", ![r].at = s,
                                         ![r].todo = @ \ {s}]
             /\ Goto(<<r, s>>, "usable")
    <3>1. ClientsOK'
      BY <1>3, <2>2, <2>4 DEF AskServer, ClientsOK, Client, InProgress
    <3>2. job' \in [Job -> [pc : JobPc, result : Results]]
      BY <2>2, <2>4, GotoOK, JobIsPair DEF JobPc
    <3>. QED  BY <3>1, <3>2
  <2>. QED  BY <2>1, <2>3, <2>4
<1>4. ASSUME AskNobody(r)
      PROVE  ClientsOK' /\ job' \in [Job -> [pc : JobPc, result : Results]]
  <2>1. client[r].home \in Server
    BY <1>4 DEF AskNobody, ClientsOK, InProgress
  <2>2. ClientsOK'
    BY <1>4, <2>1 DEF AskNobody, ClientsOK, Client, InProgress
  <2>3. job' \in [Job -> [pc : JobPc, result : Results]]
    BY <1>4, <2>1, GotoOK, JobIsPair DEF AskNobody, JobPc
  <2>. QED  BY <2>2, <2>3
<1>5. ASSUME GetAnswer(r)
      PROVE  ClientsOK' /\ job' \in [Job -> [pc : JobPc, result : Results]]
  <2>1. \/ \E t \in {"success", "failure"} : Tell(r, t)
        \/ client' = [client EXCEPT ![r].pc = "asking", ![r].at = Null]
    BY <1>5 DEF GetAnswer
  <2>2. ClientsOK'
    BY <1>5, <2>1, TellOK DEF GetAnswer, ClientsOK, Client, InProgress
  <2>. QED  BY <1>5, <2>2 DEF GetAnswer, JobsOK
<1>6. ASSUME TimeOut(r)
      PROVE  ClientsOK' /\ job' \in [Job -> [pc : JobPc, result : Results]]
  BY <1>6, TellOK DEF TimeOut, Unanswered, JobsOK
<1>7. UNCHANGED <<answer, row, queue, created, workdir, image, deployed, faults, lost>>
  BY DEF NewRequest, ClientStep, BuildInCluster, Fire, AskServer, AskNobody,
         GetAnswer, TimeOut
<1>8. ClientsOK' /\ job' \in [Job -> [pc : JobPc, result : Results]]
  BY <1>1, <1>2, <1>3, <1>4, <1>5, <1>6 DEF NewRequest, ClientStep
<1>9. FilesOK'
  <2>1. /\ \A q \in Request \ {r} : client'[q] = client[q]
        /\ \A j \in Job : j[1] # r => job'[j] = job[j]
        /\ client'[r].pc # "new"
    <3>1. \A q \in Request \ {r} : client'[q] = client[q]
      <4>1. CASE NewRequest(r)
        BY <4>1 DEF NewRequest, BuildInCluster, Fire, StartLocal, ClientsOK
      <4>2. CASE ClientStep(r)
        BY <4>2 DEF ClientStep, AskServer, AskNobody, GetAnswer, TimeOut, Tell, ClientsOK
      <4>. QED  BY <4>1, <4>2
    <3>2. UNCHANGED job \/ \E s \in Server, p \in JobPc : Goto(<<r, s>>, p)
      <4>1. CASE NewRequest(r)
        BY <4>1 DEF NewRequest, BuildInCluster, Fire, StartLocal, JobPc
      <4>2. CASE AskServer(r)
        BY <4>2 DEF AskServer, JobPc, ClientsOK, Client
      <4>3. CASE AskNobody(r)
        BY <4>3 DEF AskNobody, JobPc, ClientsOK, InProgress
      <4>. QED  BY <4>1, <4>2, <4>3 DEF ClientStep, GetAnswer, TimeOut
    <3>3. \A j \in Job : j[1] # r => job'[j] = job[j]
      BY <3>2, JobIsPair DEF Goto, JobsOK
    <3>4. CASE NewRequest(r)
      <4>1. client'[r].pc \in {"asking", "waiting"}
        BY <3>4 DEF NewRequest, BuildInCluster, Fire, StartLocal, NoClient, ClientsOK
      <4>. QED  BY <3>1, <3>3, <4>1
    <3>5. CASE ClientStep(r)
      <4>1. client'[r].pc \in {"asking", "waiting", "done"}
        <5>1. client[r] \in Client /\ client \in [Request -> Client]
          BY DEF ClientsOK
        <5>2. CASE AskServer(r)
          <6>1. PICK s \in client[r].todo :
                  \/ client' = [client EXCEPT ![r].pc = "waiting", ![r].at = s,
                                              ![r].todo = @ \ {s}]
                  \/ Tell(r, "failure")
            BY <5>2 DEF AskServer
          <6>. QED  BY <5>1, <6>1 DEF Tell, Client
        <5>3. CASE AskNobody(r)
          BY <5>1, <5>3 DEF AskNobody, Client
        <5>4. CASE GetAnswer(r) \/ TimeOut(r)
          BY <5>1, <5>4 DEF GetAnswer, TimeOut, Tell, Client
        <5>. QED  BY <3>5, <5>2, <5>3, <5>4 DEF ClientStep
      <4>. QED  BY <3>1, <3>3, <4>1
    <3>. QED  BY <3>4, <3>5
  <2>2. client'[r].app \in App
    BY <1>8, <2>1 DEF ClientsOK
  <2>3. \A j \in Job : AppOf(j)' = AppOf(j) \/ AppOf(j)' \in App
    BY <2>1, <2>2, JobIsPair DEF AppOf
  <2>4. ASSUME NEW j \in Job PROVE job'[j].pc = "none" \/ AppOf(j)' \in App
    BY <2>1, <2>2, JobIsPair DEF FilesOK, AppOf
  <2>5. \A s \in Server : \A i \in DOMAIN queue[s] : AppOf(queue[s][i])' \in App
    <3>1. \A s \in Server : \A i \in DOMAIN queue[s] : queue[s][i] \in Job
      BY DEF PoolsOK
    <3>. QED  BY <1>7, <2>3, <3>1 DEF FilesOK, AppOf
  <2>. QED  BY <1>7, <2>4, <2>5 DEF FilesOK
<1>. QED  BY <1>7, <1>8, <1>9 DEF JobsOK, PoolsOK, HistoryOK

(* A step of one job changes the files of nobody else. *)
LEMMA JobFilesOK ==
  ASSUME TypeInv, NEW j \in Job, UNCHANGED client,
         WebStep(j) \/ BuildStep(j) \/ DeleteVersion(j) \/ DbError(j)
  PROVE  FilesOK'
<1>. USE DEF TypeInv, FilesOK
<1>q. j[2] \in Server /\ queue[j[2]] \in Seq(Job)
  BY JobIsPair DEF PoolsOK
<1>0. \A k \in Job : AppOf(k)' = AppOf(k)
  BY DEF AppOf
<1>a. \A s \in Server : \A i \in DOMAIN queue[s] : AppOf(queue[s][i]) \in App
  OBVIOUS
<1>1. job[j].pc # "none" => AppOf(j) \in App /\ Dir(j) \in Server \X App
  BY <1>q DEF Dir
<1>2. /\ workdir' \in [Server \X App -> Job \cup {Null}]
      /\ image' \in [Job -> Job \cup {Null}]
  <2>1. CASE PrepareCode(j)
    BY <1>1, <2>1 DEF PrepareCode, DownloadBranch
  <2>2. CASE BuildImage(j)
    BY <1>1, <2>2 DEF BuildImage, DoBuildImage
  <2>3. CASE UNCHANGED <<workdir, image>>
    BY <2>3
  <2>. QED
    BY <2>1, <2>2, <2>3 DEF WebStep, BuildStep, LookForThread, CheckBuilding, InsertRow,
       SubmitTask, TakeTask, WriteResult, AutoDeploy, DeleteVersion, DbError
<1>3. TakeTask(j) => /\ 1 \in DOMAIN queue[j[2]] /\ queue[j[2]][1] = j
                     /\ queue' = [queue EXCEPT ![j[2]] = Tail(@)]
  BY <1>q DEF TakeTask
<1>4. ASSUME NEW k \in Job PROVE job'[k].pc = "none" \/ AppOf(k)' \in App
  <2>1. CASE job[k].pc # "none"
    BY <1>0, <2>1
  <2>2. CASE job[k].pc = "none" /\ TakeTask(j)
    <3>1. AppOf(j) \in App
      BY <1>q, <1>3, <2>2
    <3>. QED  BY <1>0, <2>2, <3>1 DEF TakeTask, Goto, JobsOK
  <2>3. CASE job[k].pc = "none" /\ ~TakeTask(j)
    BY <2>3 DEF WebStep, BuildStep, LookForThread, CheckBuilding, InsertRow,
       SubmitTask, PrepareCode, BuildImage, WriteResult, AfterBuild, AutoDeploy,
       DeleteVersion, DbError, Goto, Refuse, Report, JobsOK
  <2>. QED  BY <2>1, <2>2, <2>3
<1>5. ASSUME NEW s \in Server, NEW i \in DOMAIN queue'[s]
      PROVE  AppOf(queue[s][i])' \in App
  <2>q. queue[s] \in Seq(Job) /\ \A h \in DOMAIN queue[s] : queue[s][h] \in Job
    BY DEF PoolsOK
  <2>1. CASE queue'[s] = queue[s]
    BY <1>a, <1>5, <2>q, <2>1 DEF AppOf
  <2>2. CASE s = j[2] /\ TakeTask(j)
    <3>1. queue'[s] = Tail(queue[s]) /\ queue[s] # <<>>
      BY <1>q, <2>2 DEF TakeTask, PoolsOK
    <3>2. i + 1 \in DOMAIN queue[s] /\ Tail(queue[s])[i] = queue[s][i + 1]
      BY <1>5, <2>q, <3>1
    <3>. QED  BY <1>a, <2>q, <3>1, <3>2 DEF AppOf
  <2>3. CASE s = j[2] /\ SubmitTask(j) /\ queue'[s] = Append(queue[s], j)
    <3>1. AppOf(j) \in App
      BY <1>1, <2>3 DEF SubmitTask
    <3>2. \/ i \in DOMAIN queue[s] /\ Append(queue[s], j)[i] = queue[s][i]
          \/ Append(queue[s], j)[i] = j
      BY <1>5, <2>q, <2>3
    <3>. QED  BY <1>a, <2>q, <2>3, <3>1, <3>2 DEF AppOf
  <2>4. \/ UNCHANGED queue \/ TakeTask(j)
        \/ SubmitTask(j) /\ queue' = [queue EXCEPT ![j[2]] = Append(@, j)]
    BY DEF WebStep, BuildStep, LookForThread, CheckBuilding, InsertRow,
       SubmitTask, PrepareCode, BuildImage,
       WriteResult, AutoDeploy, DeleteVersion, DbError
  <2>5. TakeTask(j) => queue'[s] = queue[s] \/ s = j[2]
    BY DEF TakeTask, PoolsOK
  <2>6. queue' = [queue EXCEPT ![j[2]] = Append(@, j)] =>
          queue'[s] = queue[s] \/ (s = j[2] /\ queue'[s] = Append(queue[s], j))
    BY DEF PoolsOK
  <2>. QED  BY <2>1, <2>2, <2>3, <2>4, <2>5, <2>6
<1>. QED  BY <1>2, <1>4, <1>5

(* The steps of a job. *)
LEMMA JobTypeInv ==
  ASSUME TypeInv, NEW j \in Job,
         WebStep(j) \/ BuildStep(j) \/ DeleteVersion(j) \/ DbError(j)
  PROVE  TypeInv'
<1>. USE DEF TypeInv
<1>0. UNCHANGED client
  BY DEF WebStep, BuildStep, LookForThread, CheckBuilding, InsertRow, SubmitTask,
         TakeTask, PrepareCode, BuildImage,
         WriteResult, AutoDeploy, DeleteVersion, DbError
<1>c. ClientsOK' /\ FilesOK'
  BY <1>0, JobFilesOK DEF ClientsOK, InProgress
<1>1. CASE LookForThread(j)
  <2>1. JobsOK'
    BY <1>1, GotoOK, ReplyOK DEF LookForThread, JobsOK, JobPc, Answers
  <2>. QED  BY <1>1, <1>c, <2>1 DEF LookForThread, PoolsOK, HistoryOK
<1>2. CASE CheckBuilding(j)
  <2>1. JobsOK'
    BY <1>2, GotoOK, ReplyOK DEF CheckBuilding, Refuse, JobsOK, JobPc, Answers
  <2>. QED  BY <1>2, <1>c, <2>1 DEF CheckBuilding, PoolsOK, HistoryOK
<1>3. CASE InsertRow(j)
  <2>1. row' \in [Job -> [status : Status, deleted : BOOLEAN]]
    BY <1>3 DEF InsertRow, JobsOK, Status
  <2>2. JobsOK'
    BY <1>3, <2>1, GotoOK DEF InsertRow, JobsOK, JobPc, Building
  <2>. QED  BY <1>3, <1>c, <2>2 DEF InsertRow, PoolsOK, HistoryOK
<1>4. CASE SubmitTask(j)
  <2>. DEFINE s == j[2]
  <2>s. s \in Server /\ queue[s] \in Seq(Job) /\ created[s] \in 0 .. MaxThreads
    BY JobIsPair DEF PoolsOK
  <2>1. JobsOK'
    BY <1>4, GotoOK, ReplyOK DEF SubmitTask, Refuse, JobsOK, JobPc, Answers, Building
  <2>2. created' \in [Server -> 0 .. MaxThreads]
    <3>1. CASE UNCHANGED created
      BY <3>1 DEF PoolsOK
    <3>2. CASE created[s] < MaxThreads /\ created' = [created EXCEPT ![s] = @ + 1]
      BY <2>s, <3>2, Sizes DEF PoolsOK
    <3>. QED  BY <1>4, <3>1, <3>2 DEF SubmitTask
  <2>3. queue' \in [Server -> Seq(Job)] /\ \A t \in Server : Len(queue'[t]) <= QueueCap
    <3>1. CASE UNCHANGED queue
      BY <3>1 DEF PoolsOK
    <3>2. CASE Len(queue[s]) < QueueCap /\ queue' = [queue EXCEPT ![s] = Append(@, j)]
      <4>1. Append(queue[s], j) \in Seq(Job) /\ Len(Append(queue[s], j)) = Len(queue[s]) + 1
        BY <2>s
      <4>2. Len(queue[s]) \in Nat
        BY <2>s
      <4>3. Len(Append(queue[s], j)) <= QueueCap
        BY <3>2, <4>1, <4>2, Sizes
      <4>. QED  BY <2>s, <3>2, <4>1, <4>3 DEF PoolsOK
    <3>. QED  BY <1>4, <3>1, <3>2 DEF SubmitTask
  <2>4. HistoryOK'
    BY <1>4 DEF SubmitTask, HistoryOK
  <2>. QED  BY <1>c, <2>1, <2>2, <2>3, <2>4 DEF PoolsOK
<1>5. CASE TakeTask(j)
  <2>. DEFINE s == j[2]
  <2>s. s \in Server /\ queue[s] \in Seq(Job) /\ queue[s] # <<>>
    BY <1>5, JobIsPair DEF TakeTask, PoolsOK
  <2>1. Tail(queue[s]) \in Seq(Job) /\ Len(Tail(queue[s])) = Len(queue[s]) - 1
    BY <2>s
  <2>2. Len(queue[s]) \in Nat
    BY <2>s
  <2>3. queue' \in [Server -> Seq(Job)] /\ \A t \in Server : Len(queue'[t]) <= QueueCap
    BY <1>5, <2>s, <2>1, <2>2, Sizes DEF TakeTask, PoolsOK
  <2>4. JobsOK'
    BY <1>5, GotoOK DEF TakeTask, JobsOK, JobPc, Building
  <2>. QED  BY <1>5, <1>c, <2>3, <2>4 DEF TakeTask, PoolsOK, HistoryOK
<1>6. CASE PrepareCode(j) \/ BuildImage(j)
  <2>1. Goto(j, "image") \/ \E r \in Results : Report(j, r)
    BY <1>6 DEF PrepareCode, BuildImage, Results
  <2>2. JobsOK'
    BY <1>6, <2>1, GotoOK, ReportOK DEF PrepareCode, BuildImage, JobsOK, JobPc, Building
  <2>. QED  BY <1>6, <1>c, <2>2 DEF PrepareCode, BuildImage, PoolsOK, HistoryOK
<1>7. CASE WriteResult(j)
  <2>1. row' \in [Job -> [status : Status, deleted : BOOLEAN]]
    BY <1>7 DEF WriteResult, JobsOK, Status, Results
  <2>2. JobsOK'
    BY <1>7, <2>1, GotoOK DEF WriteResult, AfterBuild, JobsOK, JobPc
  <2>. QED  BY <1>7, <1>c, <2>2 DEF WriteResult, PoolsOK, HistoryOK
<1>8. CASE AutoDeploy(j)
  <2>1. JobsOK'
    BY <1>8, GotoOK, ReplyOK DEF AutoDeploy, JobsOK, JobPc, Answers
  <2>. QED  BY <1>8, <1>c, <2>1 DEF AutoDeploy, PoolsOK, HistoryOK
<1>9. CASE DeleteVersion(j)
  <2>1. JobsOK'
    BY <1>9 DEF DeleteVersion, JobsOK
  <2>. QED  BY <1>9, <1>c, <2>1 DEF DeleteVersion, PoolsOK, HistoryOK
<1>10. CASE DbError(j)
  <2>1. JobsOK'
    BY <1>10, GotoOK, ReplyOK, ReportOK DEF DbError, JobsOK, JobPc, Answers, Results
  <2>2. HistoryOK'
    BY <1>10, Sizes DEF DbError, HistoryOK
  <2>. QED  BY <1>10, <1>c, <2>1, <2>2 DEF DbError, PoolsOK
<1>. QED
  BY <1>1, <1>2, <1>3, <1>4, <1>5, <1>6, <1>7, <1>8, <1>9, <1>10 DEF WebStep, BuildStep

LEMMA CrashTypeInv ==
  ASSUME TypeInv, NEW s \in Server, Crash(s)
  PROVE  TypeInv'
<1>. USE DEF TypeInv
<1>1. ClientsOK'
  <2>1. client' = [r \in Request |->
                     IF client[r].home = s /\ InProgress(r)
                     THEN [client[r] EXCEPT !.pc = "done", !.told = "unknown"]
                     ELSE client[r]]
    BY DEF Crash
  <2>2. ASSUME NEW r \in Request
        PROVE  /\ client'[r] \in Client
               /\ \/ client'[r] = client[r]
                  \/ /\ client'[r].pc = "done" /\ client[r].pc # "new"
                     /\ client'[r].app = client[r].app
    BY <2>1 DEF ClientsOK, Client, InProgress
  <2>3. client' \in [Request -> Client]
    BY <2>1, <2>2
  <2>. QED  BY <2>2, <2>3 DEF ClientsOK, InProgress
<1>2. JobsOK'
  <2>1. /\ job' = [j \in Job |-> IF j[2] = s /\ job[j].pc # "none"
                                 THEN [job[j] EXCEPT !.pc = "end"] ELSE job[j]]
        /\ UNCHANGED <<answer, row>>
    BY DEF Crash
  <2>. QED  BY <2>1 DEF JobsOK, JobPc
<1>3. PoolsOK'
  <2>0. queue' = [queue EXCEPT ![s] = <<>>] /\ created' = [created EXCEPT ![s] = 0]
    BY DEF Crash
  <2>e. <<>> \in Seq(Job) /\ 0 \in 0 .. MaxThreads
    BY Sizes
  <2>1. queue' \in [Server -> Seq(Job)] /\ created' \in [Server -> 0 .. MaxThreads]
    BY <2>0, <2>e DEF PoolsOK
  <2>2. \A t \in Server : queue'[t] = queue[t] \/ queue'[t] = <<>>
    BY DEF Crash, PoolsOK
  <2>3. \A t \in Server : Len(queue'[t]) <= QueueCap
    BY <2>2, Sizes DEF PoolsOK
  <2>. QED  BY <2>1, <2>3 DEF PoolsOK
<1>4. HistoryOK'
  <2>0. faults < MaxFaults /\ faults' = faults + 1
    BY DEF Crash
  <2>1. faults' \in 0 .. MaxFaults
    BY <2>0, Sizes DEF HistoryOK
  <2>2. lost' \subseteq Job /\ deployed' \subseteq Job
    BY DEF Crash, HistoryOK
  <2>. QED  BY <2>1, <2>2 DEF HistoryOK
<1>5. FilesOK'
  <2>1. UNCHANGED <<workdir, image>>
    BY DEF Crash
  <2>2. \A r \in Request : client'[r].app = client[r].app
    BY DEF Crash, ClientsOK, Client
  <2>3. \A j \in Job : AppOf(j)' = AppOf(j)
    BY <2>2, JobIsPair DEF AppOf
  <2>5. ASSUME NEW t \in Server, NEW i \in DOMAIN queue'[t]
        PROVE  AppOf(queue[t][i])' \in App
    <3>1. queue'[t] = queue[t] \/ queue'[t] = <<>>
      BY DEF Crash, PoolsOK
    <3>2. queue'[t] = queue[t]
      BY <2>5, <3>1
    <3>3. queue[t][i] \in Job
      BY <2>5, <3>2 DEF PoolsOK
    <3>4. AppOf(queue[t][i])' = AppOf(queue[t][i])
      BY <2>3, <3>2, <3>3 DEF AppOf
    <3>. QED  BY <2>5, <3>2, <3>4 DEF FilesOK
  <2>6. ASSUME NEW j \in Job PROVE job'[j].pc = "none" \/ AppOf(j)' \in App
    <3>1. job[j].pc = "none" \/ AppOf(j) \in App
      BY DEF FilesOK
    <3>2. AppOf(j)' = AppOf(j)
      BY <2>3
    <3>3. CASE job[j].pc = "none"
      <4>1. job'[j].pc = "none"
        BY <3>3 DEF Crash, JobsOK
      <4>. QED  BY <4>1
    <3>. QED  BY <3>1, <3>2, <3>3
  <2>7. /\ workdir' \in [Server \X App -> Job \cup {Null}]
        /\ image' \in [Job -> Job \cup {Null}]
    BY <2>1 DEF FilesOK
  <2>. QED  BY <2>5, <2>6, <2>7 DEF FilesOK
<1>. QED  BY <1>1, <1>2, <1>3, <1>4, <1>5

LEMMA NextTypeInv == TypeInv /\ [Next]_vars => TypeInv'
<1>. SUFFICES ASSUME TypeInv, [Next]_vars PROVE TypeInv'
  OBVIOUS
<1>1. CASE UNCHANGED vars
  BY <1>1 DEF vars, TypeInv, ClientsOK, InProgress, JobsOK, PoolsOK, FilesOK, AppOf,
     HistoryOK
<1>. QED  BY <1>1, SenderTypeInv, JobTypeInv, CrashTypeInv DEF Next

(* Type correctness, with the limits of every build pool: the values of    *)
(* all variables, for DeploymentVersionApplicationService and its pool.    *)
THEOREM BuildTypeCorrect == Spec => []TypeOK
<1>1. Spec => []TypeInv
  BY InitTypeInv, NextTypeInv, PTL DEF Spec
<1>. QED  BY <1>1, TypeInvImpliesTypeOK, PTL

----------------------------------------------------------------------------
(* The life of a job: it has its row exactly from the insert on, answers   *)
(* accordingly, and writes its result before it deploys.                   *)

Before == {"usable", "check", "insert"}
After  == {"submit", "queued", "deploy"} \cup Building
HasRow(j) == row[j].status # "NONE"

OneJob(j) ==
  /\ job[j].pc \in {"none"} \cup Before => ~HasRow(j) /\ answer[j] = "none"
  /\ job[j].pc \in After => HasRow(j)
  /\ answer[j] = "success" => HasRow(j)
  /\ answer[j] = "noresources" => job[j].pc = "end" /\ ~HasRow(j)
  /\ job[j].pc = "deploy" => row[j].deleted \/ row[j].status \in Results

JobLife == \A j \in Job : OneJob(j)

(* The waiting jobs of a pool, each in one place. *)
OneQueue(s) ==
  \A i, k \in DOMAIN queue[s] :
    /\ queue[s][i][2] = s
    /\ job[queue[s][i]].pc = "queued"
    /\ queue[s][i] = queue[s][k] => i = k

QueueLife == \A s \in Server : OneQueue(s)

(* The sender may still ask a server: it is on its list or its own. *)
MayAsk(r, s) ==
  \/ client[r].pc = "new"
  \/ /\ client[r].pc = "asking" \/ (client[r].pc = "waiting" /\ client[r].at # client[r].home)
     /\ s \in client[r].todo \cup {client[r].home}

(* A job that has its row, or may still insert it. *)
Committed(j) == job[j].pc \in Before \/ HasRow(j)

(* What the sender knows of the server it waits for. *)
OneSender(r) ==
  /\ client[r].told # "none" => client[r].pc = "done"
  /\ InProgress(r) => client[r].home \notin client[r].todo
  /\ client[r].pc = "waiting" =>
       /\ client[r].at \notin client[r].todo
       /\ job[<<r, client[r].at>>].pc # "none"
       /\ client[r].at = client[r].home =>
            /\ job[<<r, client[r].at>>].pc # "usable"
            /\ answer[<<r, client[r].at>>] # "noresources"
  /\ client[r].told = "success" => \E s \in Server : HasRow(<<r, s>>)

(* While the sender can still ask somebody, no server but the one it waits *)
(* for can insert a row; and one server at most can.                       *)
JobOfSender(r, s) ==
  /\ MayAsk(r, s) => job[<<r, s>>].pc = "none"
  /\ Committed(<<r, s>>) =>
       /\ \/ client[r].pc = "done"
          \/ (client[r].pc = "waiting" /\ client[r].at = s)
       /\ \A t \in Server : Committed(<<r, t>>) => s = t

SenderLife == \A r \in Request : OneSender(r) /\ \A s \in Server : JobOfSender(r, s)

LifeInv == TypeInv /\ JobLife /\ QueueLife /\ SenderLife

LEMMA InitLifeInv == Init => LifeInv
<1>. SUFFICES ASSUME Init PROVE LifeInv
  OBVIOUS
<1>1. JobLife
  BY DEF Init, JobLife, OneJob, Before, After, Building, HasRow
<1>2. QueueLife
  BY DEF Init, QueueLife, OneQueue
<1>3. SenderLife
  BY JobIsPair DEF Init, SenderLife, OneSender, JobOfSender, MayAsk, Committed, NoClient,
     InProgress, HasRow, Before
<1>. QED  BY InitTypeInv, <1>1, <1>2, <1>3 DEF LifeInv

(* A step of one job that has been set to work, and of nobody else. *)
Advance(j) ==
  /\ UNCHANGED client
  /\ \A k \in Job \ {j} : job'[k] = job[k] /\ answer'[k] = answer[k] /\ row'[k] = row[k]
  /\ job[j].pc # "none" /\ job'[j].pc \notin {"none", "usable"}
  /\ HasRow(j) => HasRow(j)'
  /\ Committed(j)' => Committed(j)
  /\ answer'[j] = "noresources" => job[j].pc = "usable" \/ answer[j] = "noresources"

LEMMA AdvanceLife ==
  ASSUME TypeInv, JobLife, SenderLife, NEW j \in Job, Advance(j), OneJob(j)'
  PROVE  JobLife' /\ SenderLife'
<1>1. JobLife'
  <2>1. ASSUME NEW k \in Job, k # j PROVE OneJob(k)'
    BY <2>1 DEF JobLife, OneJob, Advance, HasRow
  <2>. QED  BY <2>1 DEF JobLife
<1>2. ASSUME NEW r \in Request, NEW s \in Server
      PROVE  /\ <<r, s>> \in Job
             /\ job'[<<r, s>>].pc = "none" <=> job[<<r, s>>].pc = "none"
             /\ Committed(<<r, s>>)' => Committed(<<r, s>>)
             /\ HasRow(<<r, s>>) => HasRow(<<r, s>>)'
             /\ job'[<<r, s>>].pc = "usable" => job[<<r, s>>].pc = "usable"
             /\ answer'[<<r, s>>] = "noresources" =>
                  \/ job[<<r, s>>].pc = "usable"
                  \/ answer[<<r, s>>] = "noresources"
  <2>1. <<r, s>> \in Job
    BY JobIsPair
  <2>2. CASE <<r, s>> = j
    BY <2>1, <2>2 DEF Advance
  <2>3. CASE <<r, s>> # j
    BY <2>1, <2>3 DEF Advance, Committed, HasRow
  <2>. QED  BY <2>1, <2>2, <2>3
<1>3. ASSUME NEW r \in Request PROVE OneSender(r)'
  <2>1. OneSender(r) /\ client'[r] = client[r]
    BY DEF SenderLife, Advance
  <2>2. client[r].pc = "waiting" => client[r].at \in Server
    BY DEF TypeInv, ClientsOK
  <2>. QED  BY <1>2, <2>1, <2>2 DEF OneSender, InProgress
<1>4. ASSUME NEW r \in Request, NEW s \in Server PROVE JobOfSender(r, s)'
  <2>1. JobOfSender(r, s) /\ client'[r] = client[r]
    BY DEF SenderLife, Advance
  <2>. QED  BY <1>2, <2>1 DEF JobOfSender, MayAsk
<1>. QED  BY <1>1, <1>3, <1>4 DEF SenderLife

LEMMA QueueKept ==
  ASSUME TypeInv, QueueLife, NEW j \in Job, UNCHANGED queue, job[j].pc # "queued",
         \A k \in Job \ {j} : job'[k] = job[k]
  PROVE  QueueLife'
<1>1. ASSUME NEW s \in Server, NEW i \in DOMAIN queue[s] PROVE queue[s][i] \in Job
  BY DEF TypeInv, PoolsOK
<1>. QED  BY <1>1 DEF QueueLife, OneQueue

(* Every step of a job is an advance, and keeps what OneJob says of it. *)
LEMMA JobAdvances ==
  ASSUME TypeInv, JobLife, QueueLife, NEW j \in Job,
         WebStep(j) \/ BuildStep(j) \/ DeleteVersion(j) \/ DbError(j)
  PROVE  Advance(j) /\ OneJob(j)'
<1>. USE DEF TypeInv, JobsOK, Advance, OneJob, Committed, Before, After, Building, HasRow
<1>0. OneJob(j) /\ UNCHANGED client
  BY DEF JobLife, WebStep, BuildStep, LookForThread, CheckBuilding, InsertRow,
         SubmitTask, TakeTask, PrepareCode, BuildImage,
         WriteResult, AutoDeploy, DeleteVersion, DbError
<1>1. CASE LookForThread(j)
  BY <1>0, <1>1 DEF LookForThread, Goto, Reply
<1>2. CASE CheckBuilding(j)
  BY <1>0, <1>2 DEF CheckBuilding, Refuse, Goto, Reply
<1>3. CASE InsertRow(j)
  BY <1>0, <1>3 DEF InsertRow, Goto
<1>4. CASE SubmitTask(j)
  BY <1>0, <1>4 DEF SubmitTask, Refuse, Goto, Reply
<1>5. CASE TakeTask(j)
  <2>1. /\ queue[j[2]] \in Seq(Job) /\ queue[j[2]] # <<>>
        /\ Head(queue[j[2]]) = j /\ j[2] \in Server
    BY <1>5, JobIsPair DEF TakeTask, PoolsOK
  <2>2. 1 \in DOMAIN queue[j[2]] /\ queue[j[2]][1] = j
    BY <2>1
  <2>3. job[j].pc = "queued"
    BY <2>1, <2>2 DEF QueueLife, OneQueue
  <2>. QED  BY <1>0, <1>5, <2>3 DEF TakeTask, Goto
<1>6. CASE PrepareCode(j) \/ BuildImage(j)
  BY <1>0, <1>6 DEF PrepareCode, BuildImage, Goto, Report
<1>7. CASE WriteResult(j)
  BY <1>0, <1>7 DEF WriteResult, AfterBuild, Goto, Results
<1>8. CASE AutoDeploy(j)
  BY <1>0, <1>8 DEF AutoDeploy, Goto, Reply
<1>9. CASE DeleteVersion(j)
  BY <1>0, <1>9 DEF DeleteVersion, Visible
<1>10. CASE DbError(j)
  BY <1>0, <1>10 DEF DbError, Report, Goto, Reply
<1>. QED
  BY <1>1, <1>2, <1>3, <1>4, <1>5, <1>6, <1>7, <1>8, <1>9, <1>10 DEF WebStep, BuildStep

(* Only the submission and the pool threads touch the queues. *)
LEMMA JobQueueLife ==
  ASSUME TypeInv, JobLife, QueueLife, NEW j \in Job,
         WebStep(j) \/ BuildStep(j) \/ DeleteVersion(j) \/ DbError(j)
  PROVE  QueueLife'
<1>0. \A k \in Job \ {j} : job'[k] = job[k]
  BY JobAdvances DEF Advance
<1>q. /\ j[2] \in Server /\ queue[j[2]] \in Seq(Job)
      /\ \A s \in Server : \A i \in DOMAIN queue[s] : queue[s][i] \in Job
  BY JobIsPair DEF TypeInv, PoolsOK
<1>1. CASE UNCHANGED queue /\ (job[j].pc # "queued" \/ UNCHANGED job)
  <2>1. CASE job[j].pc # "queued"
    BY <1>0, <1>1, <2>1, QueueKept
  <2>2. CASE UNCHANGED job
    BY <1>1, <2>2 DEF QueueLife, OneQueue
  <2>. QED  BY <1>1, <2>1, <2>2
<1>2. CASE /\ job[j].pc = "submit" /\ Goto(j, "queued")
           /\ queue' = [queue EXCEPT ![j[2]] = Append(@, j)]
  <2>. DEFINE s == j[2]
              q == Append(queue[s], j)
  <2>1. /\ queue'[s] = q /\ \A t \in Server \ {s} : queue'[t] = queue[t]
    BY <1>2, <1>q DEF TypeInv, PoolsOK
  <2>2. job'[j].pc = "queued"
    BY <1>2 DEF Goto, TypeInv, JobsOK
  <2>3. /\ DOMAIN q = 1 .. Len(queue[s]) + 1 /\ q[Len(queue[s]) + 1] = j
        /\ DOMAIN queue[s] = 1 .. Len(queue[s]) /\ Len(queue[s]) \in Nat
        /\ \A i \in DOMAIN queue[s] : q[i] = queue[s][i]
    BY <1>q
  <2>4. \A t \in Server : \A i \in DOMAIN queue[t] : queue[t][i] # j
    BY <1>2 DEF QueueLife, OneQueue
  <2>5. ASSUME NEW t \in Server \ {s} PROVE OneQueue(t)'
    BY <1>0, <1>q, <2>1, <2>4, <2>5 DEF QueueLife, OneQueue
  <2>6. ASSUME NEW i \in DOMAIN queue[s], NEW k \in DOMAIN queue[s] PROVE
            /\ queue[s][i][2] = s
            /\ job'[queue[s][i]].pc = "queued"
            /\ queue[s][i] = queue[s][k] => i = k
    BY <1>0, <1>q, <2>4 DEF QueueLife, OneQueue
  <2>7. ASSUME NEW i \in DOMAIN q, NEW k \in DOMAIN q PROVE
            /\ q[i][2] = s
            /\ job'[q[i]].pc = "queued"
            /\ q[i] = q[k] => i = k
    <3>1. /\ i \in DOMAIN queue[s] \/ i = Len(queue[s]) + 1
          /\ k \in DOMAIN queue[s] \/ k = Len(queue[s]) + 1
      BY <2>3
    <3>. HIDE DEF q
    <3>. QED  BY <2>2, <2>3, <2>4, <2>6, <3>1, <1>q
  <2>8. OneQueue(s)'
    BY <2>1, <2>7 DEF OneQueue
  <2>. HIDE DEF q, s
  <2>. QED  BY <2>5, <2>8 DEF QueueLife
<1>3. CASE TakeTask(j)
  <2>. DEFINE s == j[2]
              q == Tail(queue[s])
  <2>1. /\ queue'[s] = q /\ \A t \in Server \ {s} : queue'[t] = queue[t]
    BY <1>3, <1>q DEF TakeTask, TypeInv, PoolsOK
  <2>2. /\ queue[s] # <<>> /\ Head(queue[s]) = j
    BY <1>3 DEF TakeTask
  <2>3. /\ DOMAIN q = 1 .. Len(queue[s]) - 1
        /\ DOMAIN queue[s] = 1 .. Len(queue[s]) /\ Len(queue[s]) \in Nat
        /\ \A i \in DOMAIN q : q[i] = queue[s][i + 1]
        /\ 1 \in DOMAIN queue[s] /\ queue[s][1] = j
    BY <1>q, <2>2
  <2>4. ASSUME NEW t \in Server \ {s} PROVE OneQueue(t)'
    <3>1. \A i \in DOMAIN queue[t] : queue[t][i] # j
      BY <2>4 DEF QueueLife, OneQueue
    <3>. QED  BY <1>0, <1>q, <2>1, <2>4, <3>1 DEF QueueLife, OneQueue
  <2>5. ASSUME NEW i \in DOMAIN q, NEW k \in DOMAIN q PROVE
            /\ q[i][2] = s
            /\ job'[q[i]].pc = "queued"
            /\ q[i] = q[k] => i = k
    <3>1. /\ i + 1 \in DOMAIN queue[s] /\ i + 1 # 1 /\ k + 1 \in DOMAIN queue[s]
          /\ q[i] = queue[s][i + 1] /\ q[k] = queue[s][k + 1]
          /\ i \in Nat /\ k \in Nat
      BY <2>3
    <3>2. queue[s][i + 1] # j
      BY <1>q, <2>3, <3>1 DEF QueueLife, OneQueue
    <3>3. i + 1 = k + 1 => i = k
      BY <3>1
    <3>. HIDE DEF q
    <3>. QED  BY <1>0, <1>q, <3>1, <3>2, <3>3 DEF QueueLife, OneQueue
  <2>6. OneQueue(s)'
    BY <2>1, <2>5 DEF OneQueue
  <2>. HIDE DEF q, s
  <2>. QED  BY <2>4, <2>6 DEF QueueLife
<1>. QED
  BY <1>1, <1>2, <1>3 DEF WebStep, BuildStep, LookForThread, CheckBuilding, InsertRow,
     SubmitTask, PrepareCode, BuildImage,
     WriteResult, AutoDeploy, DeleteVersion, DbError, Building

(* The step of a sender that sets a server to work. *)
SetToWork(r, s, p) ==
  /\ MayAsk(r, s) /\ client[r].pc # "waiting"
  /\ Goto(<<r, s>>, p) /\ p \in {"usable", "check"}
  /\ client'[r].pc = "waiting" /\ client'[r].at = s /\ client'[r].told = "none"
  /\ {s, client'[r].home} \cap client'[r].todo = {}
  /\ IF s = client'[r].home THEN p = "check"
     ELSE /\ client[r].pc = "asking" /\ client'[r].home = client[r].home
          /\ client'[r].todo \subseteq client[r].todo

(* The step of a sender that sets nobody to work. *)
Turn(r) ==
  /\ UNCHANGED job
  /\ \/ /\ client[r].pc = "new" /\ client'[r].pc = "asking"
        /\ client'[r].home \notin client'[r].todo /\ client'[r].told = "none"
     \/ /\ client[r].pc = "waiting" /\ client'[r].pc = "asking"
        /\ answer[<<r, client[r].at>>] = "noresources" /\ client'[r].told = "none"
        /\ client'[r].home = client[r].home /\ client'[r].todo = client[r].todo
     \/ /\ InProgress(r) /\ client'[r].pc = "done"
        /\ client'[r].told = "success" =>
             client[r].pc = "waiting" /\ answer[<<r, client[r].at>>] = "success"
        /\ client[r].pc = "waiting" /\ client'[r].told # "unknown" =>
             answer[<<r, client[r].at>>] # "none"

SenderMoves(r) ==
  /\ \A q \in Request \ {r} : client'[q] = client[q]
  /\ Turn(r) \/ \E s \in Server, p \in {"usable", "check"} : SetToWork(r, s, p)
  /\ UNCHANGED <<answer, row, queue, created, workdir, image, deployed, faults, lost>>

LEMMA SenderStepMoves ==
  ASSUME TypeInv, SenderLife, NEW r \in Request, NewRequest(r) \/ ClientStep(r)
  PROVE  SenderMoves(r)
<1>. USE DEF TypeInv, ClientsOK, Client
<1>0. /\ \A q \in Request \ {r} : client'[q] = client[q]
      /\ UNCHANGED <<answer, row, queue, created, workdir, image, deployed, faults, lost>>
  BY DEF NewRequest, ClientStep, BuildInCluster, Fire, StartLocal, AskServer,
         AskNobody, GetAnswer, TimeOut, Tell
<1>1. ASSUME NEW s \in Server, NEW a \in App, MayStart(r, a), StartLocal(r, s, a)
      PROVE  SetToWork(r, s, "check")
  BY <1>1 DEF MayStart, StartLocal, SetToWork, MayAsk, NoClient
<1>2. ASSUME NEW s \in Server, NEW a \in App, BuildInCluster(r, s, a)
      PROVE  Turn(r) \/ SetToWork(r, s, "check")
  <2>1. CASE StartLocal(r, s, a)
    BY <1>1, <1>2, <2>1 DEF BuildInCluster
  <2>2. ASSUME NEW ips \in SUBSET Server, UNCHANGED job,
               client' = [client EXCEPT ![r] = [NoClient EXCEPT !.pc = "asking",
                            !.home = s, !.app = a, !.todo = ips \ {s}]]
        PROVE  Turn(r)
    BY <1>2, <2>2 DEF BuildInCluster, MayStart, Turn, NoClient
  <2>. QED  BY <1>2, <2>1, <2>2 DEF BuildInCluster
<1>3. ASSUME NEW s \in Server, NEW a \in App, Fire(r, s, a)
      PROVE  SetToWork(r, s, "check")
  BY <1>1, <1>3 DEF Fire
<1>4. ASSUME AskServer(r)
      PROVE  Turn(r) \/ \E s \in Server : SetToWork(r, s, "usable")
  <2>1. OneSender(r)
    BY DEF SenderLife
  <2>2. CASE Tell(r, "failure") /\ UNCHANGED job
    BY <1>4, <2>2 DEF AskServer, Tell, Turn, InProgress
  <2>3. ASSUME NEW s \in client[r].todo, Goto(<<r, s>>, "usable"),
               client' = [client EXCEPT ![r].pc = "waiting", ![r].at = s,
                                        ![r].todo = @ \ {s}]
        PROVE  s \in Server /\ SetToWork(r, s, "usable")
    BY <1>4, <2>1, <2>3 DEF AskServer, SetToWork, MayAsk, OneSender, InProgress
  <2>. QED  BY <1>4, <2>2, <2>3 DEF AskServer
<1>5. ASSUME AskNobody(r)
      PROVE  \E s \in Server : SetToWork(r, s, "check")
  <2>1. OneSender(r) /\ client[r].home \in Server
    BY <1>5 DEF SenderLife, AskNobody, InProgress
  <2>2. SetToWork(r, client[r].home, "check")
    BY <1>5, <2>1 DEF AskNobody, SetToWork, MayAsk, OneSender, InProgress
  <2>. QED  BY <2>1, <2>2
<1>6. ASSUME GetAnswer(r) PROVE Turn(r)
  <2>1. OneSender(r)
    BY DEF SenderLife
  <2>. QED  BY <1>6, <2>1 DEF GetAnswer, Tell, Turn, OneSender, InProgress
<1>7. ASSUME TimeOut(r) PROVE Turn(r)
  BY <1>7 DEF TimeOut, Unanswered, Tell, Turn, InProgress
<1>8. Turn(r) \/ \E s \in Server, p \in {"usable", "check"} : SetToWork(r, s, p)
  BY <1>2, <1>3, <1>4, <1>5, <1>6, <1>7 DEF NewRequest, ClientStep
<1>. QED  BY <1>0, <1>8 DEF SenderMoves

LEMMA TurnLife ==
  ASSUME TypeInv, TypeInv', JobLife, QueueLife, SenderLife,
         NEW r \in Request, SenderMoves(r), Turn(r)
  PROVE  JobLife' /\ QueueLife' /\ SenderLife'
<1>0. UNCHANGED <<job, answer, row, queue>>
  BY DEF SenderMoves, Turn
<1>1. JobLife' /\ QueueLife'
  BY <1>0 DEF JobLife, OneJob, HasRow, QueueLife, OneQueue
<1>2. ASSUME NEW q \in Request, q # r
      PROVE  OneSender(q)' /\ \A s \in Server : JobOfSender(q, s)'
  <2>1. client'[q] = client[q] /\ OneSender(q) /\ \A s \in Server : JobOfSender(q, s)
    BY <1>2 DEF SenderMoves, SenderLife
  <2>. QED
    BY <1>0, <2>1 DEF OneSender, JobOfSender, MayAsk, Committed, HasRow, InProgress
<1>3. /\ OneSender(r) /\ \A s \in Server : JobOfSender(r, s)
      /\ client[r].pc = "waiting" => client[r].at \in Server
      /\ \A s \in Server : <<r, s>> \in Job /\ OneJob(<<r, s>>)
  BY JobIsPair DEF SenderLife, JobLife, TypeInv, ClientsOK
<1>4. OneSender(r)'
  BY <1>0, <1>3 DEF Turn, OneSender, OneJob, InProgress, HasRow
<1>5. ASSUME NEW s \in Server PROVE JobOfSender(r, s)'
  <2>1. UNCHANGED Committed(<<r, s>>) /\ \A t \in Server : UNCHANGED Committed(<<r, t>>)
    BY <1>0 DEF Committed, HasRow
  <2>2. client[r].pc = "new" => ~Committed(<<r, s>>)
    BY <1>3 DEF JobOfSender, MayAsk, OneJob, Committed, Before
  <2>3. client[r].pc = "waiting" /\ answer[<<r, client[r].at>>] = "noresources" =>
          ~Committed(<<r, s>>) /\ client[r].at # client[r].home
    BY <1>3 DEF JobOfSender, OneSender, OneJob, Committed, Before
  <2>. QED  BY <1>0, <1>3, <2>1, <2>2, <2>3 DEF Turn, JobOfSender, MayAsk
<1>. QED  BY <1>1, <1>2, <1>4, <1>5 DEF SenderLife

LEMMA SetToWorkLife ==
  ASSUME TypeInv, TypeInv', JobLife, QueueLife, SenderLife, NEW r \in Request,
         SenderMoves(r), NEW s \in Server, NEW p \in {"usable", "check"},
         SetToWork(r, s, p)
  PROVE  JobLife' /\ QueueLife' /\ SenderLife'
<1>. DEFINE j == <<r, s>>
<1>0. j \in Job /\ UNCHANGED <<answer, row, queue>>
  BY JobIsPair DEF SenderMoves
<1>1. /\ OneSender(r) /\ \A t \in Server : JobOfSender(r, t)
      /\ \A t \in Server : <<r, t>> \in Job /\ OneJob(<<r, t>>)
  BY JobIsPair DEF SenderLife, JobLife
<1>2. job[j].pc = "none" /\ answer[j] = "none" /\ ~HasRow(j)
  BY <1>0, <1>1 DEF SetToWork, JobOfSender, OneJob
<1>3. job'[j].pc = p /\ \A k \in Job \ {j} : job'[k] = job[k]
  BY <1>0 DEF SetToWork, Goto, TypeInv, JobsOK
<1>4. JobLife'
  <2>1. OneJob(j)'
    BY <1>0, <1>1, <1>2, <1>3 DEF OneJob, HasRow, Before, After, Building
  <2>2. ASSUME NEW k \in Job, k # j PROVE OneJob(k)'
    BY <1>0, <1>3, <2>2 DEF JobLife, OneJob, HasRow
  <2>. QED  BY <2>1, <2>2 DEF JobLife
<1>5. QueueLife'
  BY <1>0, <1>2, <1>3, QueueKept
<1>6. ASSUME NEW q \in Request, q # r
      PROVE  OneSender(q)' /\ \A t \in Server : JobOfSender(q, t)'
  <2>1. client'[q] = client[q] /\ OneSender(q) /\ \A t \in Server : JobOfSender(q, t)
    BY <1>6 DEF SenderMoves, SenderLife
  <2>2. \A t \in Server : <<q, t>> \in Job /\ <<q, t>> # j /\ job'[<<q, t>>] = job[<<q, t>>]
    BY <1>3, <1>6, JobIsPair
  <2>3. client[q].pc = "waiting" => client[q].at \in Server
    BY DEF TypeInv, ClientsOK
  <2>4. OneSender(q)'
    BY <1>0, <2>1, <2>2, <2>3 DEF OneSender, HasRow, InProgress
  <2>5. \A t \in Server : JobOfSender(q, t)'
    BY <1>0, <2>1, <2>2 DEF JobOfSender, MayAsk, Committed, HasRow
  <2>. QED  BY <2>4, <2>5
<1>7. OneSender(r)'
  BY <1>0, <1>2, <1>3 DEF SetToWork, OneSender, InProgress
<1>8. \A t \in Server : ~Committed(<<r, t>>)
  BY <1>1 DEF SetToWork, JobOfSender, MayAsk
<1>9. ASSUME NEW t \in Server PROVE JobOfSender(r, t)'
  <2>1. CASE t = s
    <3>1. \A u \in Server : Committed(<<r, u>>)' => u = s
      <4>1. ASSUME NEW u \in Server, u # s PROVE ~Committed(<<r, u>>)'
        <5>1. <<r, u>> \in Job /\ <<r, u>> # j
          BY <4>1, JobIsPair
        <5>. QED  BY <1>0, <1>3, <1>8, <5>1 DEF Committed, HasRow
      <4>. QED  BY <4>1
    <3>. QED  BY <2>1, <3>1 DEF JobOfSender, SetToWork, MayAsk
  <2>2. CASE t # s
    <3>1. <<r, t>> \in Job /\ <<r, t>> # j
      BY <2>2, JobIsPair
    <3>2. job'[<<r, t>>] = job[<<r, t>>] /\ ~Committed(<<r, t>>)'
      BY <1>0, <1>3, <1>8, <3>1 DEF Committed, HasRow
    <3>. QED  BY <1>1, <3>2 DEF JobOfSender, SetToWork, MayAsk
  <2>. QED  BY <2>1, <2>2
<1>. QED  BY <1>4, <1>5, <1>6, <1>7, <1>9 DEF SenderLife

LEMMA CrashLife ==
  ASSUME TypeInv, TypeInv', JobLife, QueueLife, SenderLife, NEW s \in Server, Crash(s)
  PROVE  JobLife' /\ QueueLife' /\ SenderLife'
<1>1. /\ UNCHANGED <<answer, row>>
      /\ \A j \in Job : job'[j] = job[j] \/ (job[j].pc # "none" /\ job'[j].pc = "end")
      /\ \A j \in Job : j[2] # s => job'[j] = job[j]
  BY DEF Crash, TypeInv, JobsOK
<1>2. JobLife'
  BY <1>1 DEF JobLife, OneJob, HasRow, Before, After, Building
<1>3. QueueLife'
  <2>1. ASSUME NEW t \in Server, t # s PROVE OneQueue(t)'
    <3>1. queue'[t] = queue[t] /\ OneQueue(t)
      BY <2>1 DEF Crash, TypeInv, PoolsOK, QueueLife
    <3>2. \A i \in DOMAIN queue[t] : queue[t][i] \in Job
      BY DEF TypeInv, PoolsOK
    <3>. QED  BY <1>1, <2>1, <3>1, <3>2 DEF OneQueue
  <2>2. OneQueue(s)'
    <3>1. queue' = [queue EXCEPT ![s] = <<>>]
      BY DEF Crash
    <3>2. queue'[s] = <<>> /\ DOMAIN <<>> = {}
      BY <3>1 DEF TypeInv, PoolsOK
    <3>. QED  BY <3>2 DEF OneQueue
  <2>. QED  BY <2>1, <2>2 DEF QueueLife
<1>4. ASSUME NEW r \in Request
      PROVE  \/ client'[r] = client[r]
             \/ InProgress(r) /\ client'[r].pc = "done" /\ client'[r].told = "unknown"
  <2>1. client'[r] = IF client[r].home = s /\ InProgress(r)
                     THEN [client[r] EXCEPT !.pc = "done", !.told = "unknown"]
                     ELSE client[r]
    BY DEF Crash
  <2>2. client[r] \in Client
    BY DEF TypeInv, ClientsOK
  <2>. QED  BY <2>1, <2>2 DEF Client
<1>5. ASSUME NEW r \in Request, NEW t \in Server
      PROVE  /\ <<r, t>> \in Job
             /\ UNCHANGED HasRow(<<r, t>>)
             /\ Committed(<<r, t>>)' => Committed(<<r, t>>)
             /\ job'[<<r, t>>].pc = "none" <=> job[<<r, t>>].pc = "none"
             /\ job'[<<r, t>>].pc = "usable" => job[<<r, t>>].pc = "usable"
  BY <1>1, JobIsPair DEF Committed, HasRow, Before
<1>6. ASSUME NEW r \in Request PROVE OneSender(r)'
  <2>1. OneSender(r) /\ (client[r].pc = "waiting" => client[r].at \in Server)
    BY DEF SenderLife, TypeInv, ClientsOK
  <2>2. CASE client'[r] = client[r]
    BY <1>1, <1>5, <2>1, <2>2 DEF OneSender, InProgress
  <2>3. CASE client'[r].pc = "done" /\ client'[r].told = "unknown"
    BY <2>3 DEF OneSender, InProgress
  <2>. QED  BY <1>4, <2>2, <2>3
<1>7. ASSUME NEW r \in Request, NEW t \in Server PROVE JobOfSender(r, t)'
  <2>1. JobOfSender(r, t)
    BY DEF SenderLife
  <2>. QED  BY <1>4, <1>5, <2>1 DEF JobOfSender, MayAsk
<1>. QED  BY <1>2, <1>3, <1>6, <1>7 DEF SenderLife

LEMMA NextLifeInv == LifeInv /\ [Next]_vars => LifeInv'
<1>. SUFFICES ASSUME LifeInv, [Next]_vars PROVE LifeInv'
  OBVIOUS
<1>. USE DEF LifeInv
<1>0. TypeInv'
  BY NextTypeInv
<1>1. CASE UNCHANGED vars
  BY <1>0, <1>1 DEF vars, JobLife, OneJob, HasRow, QueueLife, OneQueue, SenderLife,
     OneSender, JobOfSender, MayAsk, Committed, InProgress
<1>2. ASSUME NEW r \in Request, NewRequest(r) \/ ClientStep(r) PROVE LifeInv'
  <2>1. SenderMoves(r)
    BY <1>2, SenderStepMoves
  <2>2. CASE Turn(r)
    BY <1>0, <2>1, <2>2, TurnLife
  <2>3. CASE \E s \in Server, p \in {"usable", "check"} : SetToWork(r, s, p)
    BY <1>0, <2>1, <2>3, SetToWorkLife
  <2>. QED  BY <2>1, <2>2, <2>3 DEF SenderMoves
<1>3. ASSUME NEW j \in Job,
             WebStep(j) \/ BuildStep(j) \/ DeleteVersion(j) \/ DbError(j)
      PROVE  LifeInv'
  BY <1>0, <1>3, JobAdvances, JobQueueLife, AdvanceLife
<1>4. ASSUME NEW s \in Server, Crash(s) PROVE LifeInv'
  BY <1>0, <1>4, CrashLife
<1>. QED  BY <1>1, <1>2, <1>3, <1>4 DEF Next

LEMMA SpecLifeInv == Spec => []LifeInv
BY InitLifeInv, NextLifeInv, PTL DEF Spec

(* A request, whichever servers it was sent to and however late they       *)
(* answered, has one row at most, and one if its sender was told so:       *)
(* asyncBuildVersionWithClusterMode and asyncBuildVersion.                 *)
THEOREM RequestsBuildOnce == Spec => []OneRowPerRequest
<1>1. LifeInv => OneRowPerRequest
  <2>. SUFFICES ASSUME LifeInv, NEW r \in Request
                PROVE  /\ \A s, t \in RowsOf(r) : s = t
                       /\ client[r].told = "success" => RowsOf(r) # {}
    BY DEF OneRowPerRequest
  <2>1. OneSender(r) /\ \A s \in Server : JobOfSender(r, s)
    BY DEF LifeInv, SenderLife
  <2>2. \A s \in Server : s \in RowsOf(r) <=> HasRow(<<r, s>>)
    BY DEF RowsOf, HasRow
  <2>3. RowsOf(r) \subseteq Server
    BY DEF RowsOf
  <2>. QED  BY <2>1, <2>2, <2>3 DEF OneSender, JobOfSender, Committed
<1>. QED  BY <1>1, SpecLifeInv, PTL

(* AutoDeploymentJob.execute submits a version only when its build has     *)
(* ended and its row says how.                                             *)
THEOREM TimersDeployBuilds == Spec => AutoDeploysAfterBuild
<1>1. LifeInv /\ [Next]_vars =>
        [\A j \in deployed' \ deployed : row[j].status \in Results]_vars
  <2>. SUFFICES ASSUME LifeInv, Next, NEW k \in deployed' \ deployed
                PROVE  row[k].status \in Results
    OBVIOUS
  <2>1. PICK j \in Job : AutoDeploy(j)
    BY DEF Next, NewRequest, ClientStep, BuildInCluster, Fire, AskServer, AskNobody,
           GetAnswer, TimeOut, WebStep, BuildStep, LookForThread, CheckBuilding,
           InsertRow, SubmitTask, TakeTask, PrepareCode, BuildImage,
           WriteResult, DeleteVersion,
           DbError, Crash
  <2>2. k = j /\ Visible(j) /\ job[j].pc = "deploy"
    BY <2>1 DEF AutoDeploy
  <2>. QED  BY <2>2 DEF LifeInv, JobLife, OneJob, Visible
<1>. QED  BY <1>1, SpecLifeInv, PTL DEF Spec, AutoDeploysAfterBuild

(* The application of a request is fixed when it starts. *)
LEMMA SenderApp ==
  ASSUME LifeInv, NEW r \in Request, NewRequest(r) \/ ClientStep(r)
  PROVE  \/ /\ client[r].pc = "new"
            /\ Serialized =>
                 \A q \in Request : InProgress(q) => client[q].app # client'[r].app
         \/ client'[r].app = client[r].app /\ InProgress(r)
<1>. USE DEF LifeInv, TypeInv, ClientsOK, Client
<1>1. ASSUME NEW s \in Server, NEW a \in App, BuildInCluster(r, s, a) \/ Fire(r, s, a)
      PROVE  /\ client[r].pc = "new"
             /\ Serialized =>
                  \A q \in Request : InProgress(q) => client[q].app # client'[r].app
  <2>0. client'[r].app = a
    <3>1. CASE StartLocal(r, s, a)
      BY <3>1 DEF StartLocal, NoClient
    <3>2. ASSUME NEW ips \in SUBSET Server,
                 client' = [client EXCEPT ![r] = [NoClient EXCEPT !.pc = "asking",
                              !.home = s, !.app = a, !.todo = ips \ {s}]]
          PROVE  client'[r].app = a
      BY <3>2 DEF NoClient
    <3>. QED  BY <1>1, <3>1, <3>2 DEF BuildInCluster, Fire
  <2>1. MayStart(r, a)
    BY <1>1 DEF BuildInCluster, Fire
  <2>. QED  BY <2>0, <2>1 DEF MayStart
<1>2. ASSUME ClientStep(r) PROVE client'[r].app = client[r].app /\ InProgress(r)
  <2>1. InProgress(r)
    BY <1>2 DEF ClientStep, AskServer, AskNobody, GetAnswer, TimeOut, Unanswered,
       InProgress
  <2>2. CASE AskServer(r)
    BY <2>1, <2>2 DEF AskServer, Tell
  <2>3. CASE AskNobody(r)
    BY <2>1, <2>3 DEF AskNobody
  <2>4. CASE GetAnswer(r)
    BY <2>1, <2>4 DEF GetAnswer, Tell
  <2>5. CASE TimeOut(r)
    BY <2>1, <2>5 DEF TimeOut, Tell
  <2>. QED  BY <1>2, <2>1, <2>2, <2>3, <2>4, <2>5 DEF ClientStep
<1>. QED  BY <1>1, <1>2 DEF NewRequest

LEMMA AppKept ==
  ASSUME LifeInv, NEW r \in Request, NewRequest(r) \/ ClientStep(r),
         NEW j \in Job, Committed(j)
  PROVE  AppOf(j)' = AppOf(j)
<1>0. SenderMoves(r)
  BY SenderStepMoves DEF LifeInv
<1>1. j[1] \in Request /\ j[2] \in Server /\ j = <<j[1], j[2]>>
  BY JobIsPair
<1>2. JobOfSender(j[1], j[2])
  BY <1>1 DEF LifeInv, SenderLife
<1>3. client[j[1]].pc # "new"
  BY <1>1, <1>2 DEF JobOfSender
<1>. QED  BY <1>0, <1>1, <1>3, SenderApp DEF SenderMoves, AppOf

(* A step of a sender starts a job, or changes nobody's. *)
LEMMA SenderStarts ==
  ASSUME LifeInv, NEW r \in Request, SenderMoves(r), NEW j \in Job
  PROVE  job'[j] = job[j] \/ (job[j].pc = "none" /\ ~HasRow(j) /\ job'[j].pc \in Before)
<1>1. CASE Turn(r)
  BY <1>1 DEF Turn
<1>2. ASSUME NEW s \in Server, NEW p \in {"usable", "check"}, SetToWork(r, s, p)
      PROVE  \/ job'[j] = job[j]
             \/ job[j].pc = "none" /\ ~HasRow(j) /\ job'[j].pc \in Before
  <2>1. JobOfSender(r, s) /\ OneJob(<<r, s>>)
    BY JobIsPair DEF LifeInv, SenderLife, JobLife
  <2>2. job[<<r, s>>].pc = "none" /\ ~HasRow(<<r, s>>)
    BY <1>2, <2>1 DEF SetToWork, JobOfSender, OneJob
  <2>. QED  BY <1>2, <2>2 DEF SetToWork, Goto, LifeInv, TypeInv, JobsOK, Before
<1>. QED  BY <1>1, <1>2 DEF SenderMoves

----------------------------------------------------------------------------
(* Images. A job that is about to make an image has put its code into the  *)
(* application's directory, from which nobody takes code away for good.    *)

OneImage(j) ==
  /\ job[j].pc = "image" => workdir[Dir(j)] # Null
  /\ \/ job[j].pc = "report" /\ job[j].result = "SUCCESS"
     \/ row[j].status = "SUCCESS"
     => AppOf(j) \in NodeApp \/ image[j] # Null

ImageInv == \A j \in Job : OneImage(j)

LEMMA InitImageInv == Init => ImageInv
BY DEF Init, ImageInv, OneImage

LEMMA NullIsNoJob == \A j \in Job : j # Null
BY BuildAssumption

LEMMA SenderImageInv ==
  ASSUME LifeInv, ImageInv, NEW r \in Request, NewRequest(r) \/ ClientStep(r)
  PROVE  ImageInv'
<1>0. SenderMoves(r)
  BY SenderStepMoves DEF LifeInv
<1>1. ASSUME NEW j \in Job PROVE OneImage(j)'
  <2>1. OneImage(j) /\ OneJob(j) /\ UNCHANGED <<row, workdir, image>>
    BY <1>0 DEF ImageInv, LifeInv, JobLife, SenderMoves
  <2>2. CASE HasRow(j)
    <3>1. AppOf(j)' = AppOf(j) /\ job'[j] = job[j]
      BY <1>0, <2>2, AppKept, SenderStarts DEF Committed
    <3>. QED  BY <2>1, <3>1 DEF OneImage, Dir
  <2>3. CASE ~HasRow(j)
    <3>1. job'[j].pc \notin {"image", "report"}
      BY <1>0, <2>1, <2>3, SenderStarts DEF OneJob, After, Building, Before
    <3>. QED  BY <2>1, <2>3, <3>1 DEF OneImage, HasRow
  <2>. QED  BY <2>2, <2>3
<1>. QED  BY <1>1 DEF ImageInv

(* A step of a job keeps the images of the others, and what is in their    *)
(* directories unless it is at work in the same one.                       *)
LEMMA JobFiles ==
  ASSUME LifeInv, NEW j \in Job,
         WebStep(j) \/ BuildStep(j) \/ DeleteVersion(j) \/ DbError(j)
  PROVE  /\ \A k \in Job \ {j} : image'[k] = image[k]
         /\ \/ UNCHANGED workdir
            \/ PrepareCode(j) /\ workdir' = [workdir EXCEPT ![Dir(j)] = j]
         /\ job[j].pc = "code" => Dir(j) \in Server \X App
<1>1. job[j].pc = "code" => Dir(j) \in Server \X App
  BY JobIsPair DEF LifeInv, TypeInv, FilesOK, Dir
<1>2. \A k \in Job \ {j} : image'[k] = image[k]
  BY DEF WebStep, BuildStep, LookForThread, CheckBuilding, InsertRow, SubmitTask,
     TakeTask, PrepareCode, DownloadBranch, BuildImage, DoBuildImage, WriteResult,
     AutoDeploy, DeleteVersion, DbError,
     LifeInv, TypeInv, FilesOK
<1>3. \/ UNCHANGED workdir
      \/ PrepareCode(j) /\ workdir' = [workdir EXCEPT ![Dir(j)] = j]
  BY DEF WebStep, BuildStep, LookForThread, CheckBuilding, InsertRow, SubmitTask,
     TakeTask, PrepareCode, DownloadBranch, BuildImage, DoBuildImage, WriteResult,
     AutoDeploy, DeleteVersion, DbError
<1>. QED  BY <1>1, <1>2, <1>3

LEMMA JobImageInv ==
  ASSUME LifeInv, ImageInv, NEW j \in Job,
         WebStep(j) \/ BuildStep(j) \/ DeleteVersion(j) \/ DbError(j)
  PROVE  ImageInv'
<1>. USE DEF LifeInv, TypeInv
<1>0. Advance(j) /\ OneJob(j) /\ OneImage(j)
  BY JobAdvances DEF ImageInv, JobLife
<1>1. \A k \in Job : AppOf(k)' = AppOf(k) /\ Dir(k)' = Dir(k)
  BY <1>0 DEF Advance, AppOf, Dir
<1>2. ASSUME NEW k \in Job, job[k].pc = "image", workdir[Dir(k)] # Null
      PROVE  workdir'[Dir(k)] # Null
  <2>1. Dir(k) \in Server \X App
    BY <1>2, JobIsPair DEF FilesOK, Dir
  <2>. QED  BY <1>2, <2>1, JobFiles, NullIsNoJob DEF FilesOK
<1>3. ASSUME NEW k \in Job, k # j PROVE OneImage(k)'
  <2>1. OneImage(k) /\ job'[k] = job[k] /\ row'[k] = row[k] /\ image'[k] = image[k]
    BY <1>0, <1>3, JobFiles DEF ImageInv, Advance
  <2>. QED  BY <1>1, <1>2, <2>1 DEF OneImage
<1>4. OneImage(j)'
  <2>. USE DEF OneImage, JobsOK
  <2>1. CASE PrepareCode(j)
    <3>1. row'[j] = row[j] /\ UNCHANGED image
      BY <2>1 DEF PrepareCode
    <3>2. job'[j].pc = "image" => workdir'[Dir(j)] # Null
      <4>1. Dir(j) \in Server \X App
        BY <2>1, JobFiles DEF PrepareCode
      <4>2. job'[j].pc = "image" => workdir' = [workdir EXCEPT ![Dir(j)] = j]
        BY <2>1 DEF PrepareCode, DownloadBranch, Report
      <4>. QED  BY <4>1, <4>2, NullIsNoJob DEF FilesOK
    <3>3. ~(job'[j].pc = "report" /\ job'[j].result = "SUCCESS")
      BY <2>1 DEF PrepareCode, Report, Goto
    <3>. QED  BY <1>0, <1>1, <3>1, <3>2, <3>3
  <2>2. CASE BuildImage(j)
    <3>1. row'[j] = row[j] /\ job'[j].pc = "report"
      BY <2>2 DEF BuildImage, Report
    <3>2. \/ image'[j] # Null
          \/ UNCHANGED image /\ job'[j].result = "FAILURE"
          \/ UNCHANGED image /\ AppOf(j) \in NodeApp
      BY <1>0, <2>2 DEF BuildImage, DoBuildImage, Report, FilesOK
    <3>. QED  BY <1>0, <1>1, <3>1, <3>2
  <2>3. CASE UNCHANGED <<workdir, image>> /\ ~PrepareCode(j) /\ ~BuildImage(j)
    <3>1. job'[j].pc = "image" => job[j].pc = "image"
      BY <2>3 DEF WebStep, BuildStep, LookForThread, CheckBuilding, InsertRow, SubmitTask,
         TakeTask, WriteResult, AfterBuild, AutoDeploy, DeleteVersion, DbError, Goto,
         Refuse, Report
    <3>2. job'[j].pc = "report" /\ job'[j].result = "SUCCESS" =>
            job[j].pc = "report" /\ job[j].result = "SUCCESS"
      BY <2>3 DEF WebStep, BuildStep, LookForThread, CheckBuilding, InsertRow, SubmitTask,
         TakeTask, WriteResult, AfterBuild, AutoDeploy, DeleteVersion, DbError, Goto,
         Refuse, Report
    <3>3. row'[j].status = "SUCCESS" =>
            \/ row[j].status = "SUCCESS"
            \/ job[j].pc = "report" /\ job[j].result = "SUCCESS"
      BY <2>3 DEF WebStep, BuildStep, LookForThread, CheckBuilding, InsertRow, SubmitTask,
         TakeTask, WriteResult, AutoDeploy, DeleteVersion, DbError
    <3>. QED  BY <1>0, <1>1, <2>3, <3>1, <3>2, <3>3
  <2>. QED
    BY <2>1, <2>2, <2>3 DEF WebStep, BuildStep, LookForThread, CheckBuilding, InsertRow,
       SubmitTask, TakeTask, WriteResult, AutoDeploy, DeleteVersion, DbError
<1>. QED  BY <1>3, <1>4 DEF ImageInv

(* A crash ends the jobs of its server and leaves the directories.         *)
LEMMA CrashMoves ==
  ASSUME LifeInv, NEW s \in Server, Crash(s), NEW j \in Job
  PROVE  /\ job'[j] = job[j] \/ job'[j].pc = "end"
         /\ AppOf(j)' = AppOf(j) /\ Dir(j)' = Dir(j)
         /\ UNCHANGED <<row, workdir, image>>
<1>1. job'[j] = job[j] \/ job'[j].pc = "end"
  BY DEF Crash, LifeInv, TypeInv, JobsOK
<1>2. \A r \in Request : client'[r].app = client[r].app
  BY DEF Crash, LifeInv, TypeInv, ClientsOK, Client
<1>3. AppOf(j)' = AppOf(j)
  BY <1>2, JobIsPair DEF AppOf
<1>4. Dir(j)' = Dir(j)
  BY <1>3 DEF Dir
<1>. QED  BY <1>1, <1>3, <1>4 DEF Crash

LEMMA NextImageInv == LifeInv /\ ImageInv /\ [Next]_vars => ImageInv'
<1>. SUFFICES ASSUME LifeInv, ImageInv, [Next]_vars PROVE ImageInv'
  OBVIOUS
<1>1. CASE UNCHANGED vars
  BY <1>1 DEF vars, ImageInv, OneImage, AppOf, Dir
<1>2. ASSUME NEW s \in Server, Crash(s) PROVE ImageInv'
  BY <1>2, CrashMoves DEF ImageInv, OneImage
<1>. QED  BY <1>1, <1>2, SenderImageInv, JobImageInv DEF Next

(* A version is reported as built only if its image was made and pushed,   *)
(* for every application but those of buildNodeImage: doBuildVersion.      *)
THEOREM SuccessesHaveImages == Spec => []SuccessHasImageUnlessNode
<1>1. ImageInv => SuccessHasImageUnlessNode
  BY DEF ImageInv, OneImage, SuccessHasImageUnlessNode
<1>2. Spec => []ImageInv
  BY SpecLifeInv, InitImageInv, NextImageInv, PTL DEF Spec
<1>. QED  BY <1>1, <1>2, PTL

----------------------------------------------------------------------------
(* Owners of rows that say BUILDING, and accepted builds. A job that is    *)
(* lost without a fault was refused by its pool.                           *)

OneOwner(j) ==
  IsBuilding(j) /\ j \notin lost =>
    \/ job[j].pc \in {"submit"} \cup Building
    \/ \E i \in DOMAIN queue[j[2]] : queue[j[2]][i] = j

OneLoss(j) ==
  faults = 0 /\ j \in lost => job[j].pc = "end" /\ answer[j] = "refused"

OwnerInv == \A j \in Job : OneOwner(j) /\ OneLoss(j)

LEMMA InitOwnerInv == Init => OwnerInv
BY DEF Init, OwnerInv, OneOwner, OneLoss, IsBuilding

(* Steps that leave the rows, the queues and the lost jobs alone, and      *)
(* start a job or change nobody's.                                         *)
LEMMA SenderOwnerInv ==
  ASSUME LifeInv, OwnerInv, NEW r \in Request, SenderMoves(r)
  PROVE  OwnerInv'
<1>1. UNCHANGED <<answer, row, queue, lost, faults>>
  BY DEF SenderMoves
<1>2. ASSUME NEW j \in Job
      PROVE  job'[j] = job[j] \/ (job[j].pc = "none" /\ ~HasRow(j))
  BY SenderStarts
<1>3. ASSUME NEW j \in Job PROVE OneOwner(j)' /\ OneLoss(j)'
  <2>1. OneOwner(j) /\ OneLoss(j)
    BY DEF OwnerInv
  <2>. QED  BY <1>1, <1>2, <2>1 DEF OneOwner, OneLoss, IsBuilding, HasRow
<1>. QED  BY <1>3 DEF OwnerInv

(* A step of job j takes no other job out of a queue. *)
LEMMA OthersKeepOwner ==
  ASSUME LifeInv, OwnerInv, NEW j \in Job, Advance(j), lost \subseteq lost',
         NEW k \in Job, k # j,
         (\E i \in DOMAIN queue[k[2]] : queue[k[2]][i] = k) =>
           (\E i \in DOMAIN queue'[k[2]] : queue'[k[2]][i] = k)
  PROVE  OneOwner(k)'
BY DEF OwnerInv, OneOwner, Advance, IsBuilding

LEMMA JobOwnerInv ==
  ASSUME LifeInv, OwnerInv, NEW j \in Job,
         WebStep(j) \/ BuildStep(j) \/ DeleteVersion(j) \/ DbError(j)
  PROVE  OwnerInv'
<1>. USE DEF LifeInv, TypeInv
<1>0. Advance(j) /\ OneJob(j) /\ OneOwner(j) /\ OneLoss(j)
  BY JobAdvances DEF JobLife, OwnerInv
<1>q. /\ j[2] \in Server /\ queue[j[2]] \in Seq(Job)
      /\ \A k \in Job : k[2] \in Server
  BY JobIsPair DEF PoolsOK
<1>l. job[j].pc \in {"deploy", "end"} => ~IsBuilding(j) \/ j \in lost
  <2>1. SUFFICES ASSUME job[j].pc \in {"deploy", "end"}, IsBuilding(j), j \notin lost
                 PROVE  FALSE
    OBVIOUS
  <2>2. PICK i \in DOMAIN queue[j[2]] : queue[j[2]][i] = j
    BY <1>0, <2>1 DEF OneOwner, Building
  <2>. QED  BY <1>q, <2>1, <2>2 DEF QueueLife, OneQueue
<1>1. ASSUME NEW k \in Job, k # j,
             \E i \in DOMAIN queue[k[2]] : queue[k[2]][i] = k
      PROVE  \E i \in DOMAIN queue'[k[2]] : queue'[k[2]][i] = k
  <2>. DEFINE s == j[2]
  <2>1. PICK i \in DOMAIN queue[k[2]] : queue[k[2]][i] = k
    BY <1>1
  <2>2. CASE queue'[k[2]] = queue[k[2]]
    BY <2>1, <2>2
  <2>3. CASE k[2] = s /\ queue'[s] = Append(queue[s], j)
    BY <1>q, <2>1, <2>3
  <2>4. CASE k[2] = s /\ TakeTask(j)
    <3>1. queue'[s] = Tail(queue[s]) /\ queue[s] # <<>> /\ Head(queue[s]) = j
      BY <1>q, <2>4 DEF TakeTask, PoolsOK
    <3>2. i \in 1 .. Len(queue[s]) /\ queue[s][1] = j /\ Len(queue[s]) \in Nat
      BY <1>q, <2>1, <2>4, <3>1
    <3>3. i # 1
      BY <1>1, <2>1, <2>4, <3>2
    <3>4. i - 1 \in DOMAIN Tail(queue[s]) /\ Tail(queue[s])[i - 1] = queue[s][i]
      BY <1>q, <3>1, <3>2, <3>3
    <3>. QED  BY <2>1, <2>4, <3>1, <3>4
  <2>5. queue'[k[2]] = queue[k[2]] \/ k[2] = s
    BY <1>q DEF WebStep, BuildStep, LookForThread, CheckBuilding, InsertRow,
       SubmitTask, TakeTask, PrepareCode, BuildImage,
       WriteResult, AutoDeploy, DeleteVersion, DbError,
       PoolsOK
  <2>6. \/ queue' = queue \/ TakeTask(j)
        \/ queue' = [queue EXCEPT ![s] = Append(@, j)]
    BY DEF WebStep, BuildStep, LookForThread, CheckBuilding, InsertRow,
       SubmitTask, PrepareCode, BuildImage,
       WriteResult, AutoDeploy, DeleteVersion, DbError
  <2>7. queue' = [queue EXCEPT ![s] = Append(@, j)] => queue'[s] = Append(queue[s], j)
    BY <1>q DEF PoolsOK
  <2>. QED  BY <2>2, <2>3, <2>4, <2>5, <2>6, <2>7
<1>2. lost \subseteq lost' /\ (faults' = 0 => faults = 0)
  BY BuildAssumption DEF WebStep, BuildStep, LookForThread, CheckBuilding, InsertRow,
     SubmitTask, TakeTask, PrepareCode, BuildImage,
     WriteResult, AutoDeploy, DeleteVersion, DbError,
     HistoryOK
<1>3. \A k \in Job \ {j} : OneOwner(k)'
  BY <1>0, <1>1, <1>2, OthersKeepOwner
<1>4. OneOwner(j)' /\ OneLoss(j)'
  <2>. USE <1>0, <1>l DEF OneOwner, OneLoss, IsBuilding, JobsOK, Building
  <2>1. CASE LookForThread(j)
    BY <2>1 DEF LookForThread, Goto, Reply, OneJob, Before, HasRow
  <2>2. CASE CheckBuilding(j)
    BY <2>2 DEF CheckBuilding, Refuse, Goto, Reply, OneJob, Before, HasRow
  <2>3. CASE InsertRow(j)
    BY <2>3 DEF InsertRow, Goto
  <2>4. CASE SubmitTask(j)
    <3>1. CASE queue' = [queue EXCEPT ![j[2]] = Append(@, j)] /\ UNCHANGED lost
      <4>1. queue'[j[2]] = Append(queue[j[2]], j)
        BY <1>q, <3>1 DEF PoolsOK
      <4>2. /\ Len(queue[j[2]]) + 1 \in DOMAIN Append(queue[j[2]], j)
            /\ Append(queue[j[2]], j)[Len(queue[j[2]]) + 1] = j
        BY <1>q
      <4>. QED  BY <2>4, <3>1, <4>1, <4>2 DEF SubmitTask, Goto, Reply
    <3>2. CASE Goto(j, "code") /\ UNCHANGED lost
      BY <2>4, <3>2 DEF SubmitTask, Goto, Reply
    <3>3. CASE Refuse(j) /\ lost' = lost \cup {j}
      BY <2>4, <3>3 DEF SubmitTask, Refuse, Goto, Reply
    <3>. QED  BY <2>4, <3>1, <3>2, <3>3 DEF SubmitTask
  <2>5. CASE TakeTask(j)
    <3>1. /\ 1 \in DOMAIN queue[j[2]] /\ queue[j[2]][1] = j
      BY <1>q, <2>5 DEF TakeTask
    <3>2. job[j].pc = "queued"
      BY <1>q, <3>1 DEF QueueLife, OneQueue
    <3>. QED  BY <2>5, <3>2 DEF TakeTask, Goto
  <2>6. CASE PrepareCode(j) \/ BuildImage(j)
    BY <2>6 DEF PrepareCode, BuildImage, Goto, Report
  <2>7. CASE WriteResult(j)
    BY <2>7 DEF WriteResult, AfterBuild, Goto, Results
  <2>8. CASE AutoDeploy(j)
    BY <2>8 DEF AutoDeploy, Goto, Reply
  <2>9. CASE DeleteVersion(j)
    BY <2>9 DEF DeleteVersion
  <2>10. CASE DbError(j)
    BY <2>10, Sizes DEF DbError, Report, HistoryOK
  <2>. QED
    BY <2>1, <2>2, <2>3, <2>4, <2>5, <2>6, <2>7, <2>8, <2>9, <2>10 DEF WebStep, BuildStep
<1>5. ASSUME NEW k \in Job, k # j PROVE OneLoss(k)'
  <2>1. k \in lost' => k \in lost
    BY <1>5 DEF WebStep, BuildStep, LookForThread, CheckBuilding, InsertRow,
       SubmitTask, TakeTask, PrepareCode, BuildImage,
       WriteResult, AutoDeploy, DeleteVersion, DbError
  <2>. QED  BY <1>0, <1>2, <1>5, <2>1 DEF OwnerInv, OneLoss, Advance
<1>. QED  BY <1>3, <1>4, <1>5 DEF OwnerInv

(* A crash loses the jobs that own a row on the server. *)
LEMMA CrashOwnerInv ==
  ASSUME LifeInv, OwnerInv, NEW s \in Server, Crash(s)
  PROVE  OwnerInv'
<1>. USE DEF LifeInv, TypeInv
<1>1. faults' # 0
  <2>1. faults' = faults + 1
    BY DEF Crash
  <2>. QED  BY <2>1, Sizes DEF HistoryOK
<1>2. UNCHANGED row /\ lost \subseteq lost'
  BY DEF Crash
<1>3. ASSUME NEW j \in Job PROVE OneOwner(j)'
  <2>1. OneOwner(j) /\ j[2] \in Server
    BY JobIsPair DEF OwnerInv
  <2>2. CASE j[2] # s
    <3>1. queue'[j[2]] = queue[j[2]] /\ job'[j] = job[j]
      BY <2>1, <2>2 DEF Crash, PoolsOK, JobsOK
    <3>. QED  BY <1>2, <2>1, <3>1 DEF OneOwner, IsBuilding
  <2>3. CASE j[2] = s
    <3>1. SUFFICES ASSUME IsBuilding(j), j \notin lost PROVE j \in lost'
      BY <1>2 DEF OneOwner, IsBuilding
    <3>2. job[j].pc \in {"submit", "queued"} \cup Building
      <4>1. CASE \E i \in DOMAIN queue[j[2]] : queue[j[2]][i] = j
        BY <2>1, <4>1 DEF QueueLife, OneQueue
      <4>. QED  BY <2>1, <3>1, <4>1 DEF OneOwner
    <3>. QED  BY <2>3, <3>2 DEF Crash
  <2>. QED  BY <2>2, <2>3
<1>. QED  BY <1>1, <1>3 DEF OwnerInv, OneLoss

LEMMA NextOwnerInv == LifeInv /\ OwnerInv /\ [Next]_vars => OwnerInv'
<1>. SUFFICES ASSUME LifeInv, OwnerInv, [Next]_vars PROVE OwnerInv'
  OBVIOUS
<1>1. CASE UNCHANGED vars
  BY <1>1 DEF vars, OwnerInv, OneOwner, OneLoss, IsBuilding
<1>2. ASSUME NEW r \in Request, NewRequest(r) \/ ClientStep(r) PROVE OwnerInv'
  BY <1>2, SenderStepMoves, SenderOwnerInv DEF LifeInv
<1>. QED  BY <1>1, <1>2, JobOwnerInv, CrashOwnerInv DEF Next

LEMMA SpecOwnerInv == Spec => [](LifeInv /\ OwnerInv)
BY SpecLifeInv, InitOwnerInv, NextOwnerInv, PTL DEF Spec

(* Every row that says BUILDING has a job that will write its result,      *)
(* unless its pool refused it or a fault hit it: buildVersionContext,      *)
(* ThreadPoolExecutor.submit and doBuildVersion, without any assumption    *)
(* on the users.                                                           *)
THEOREM BuildRowsHaveOwners == Spec => []BuildRowHasOwner
<1>1. OwnerInv => BuildRowHasOwner
  BY DEF OwnerInv, OneOwner, BuildRowHasOwner
<1>. QED  BY <1>1, SpecOwnerInv, PTL

(* As long as nothing fails, a build that was accepted is not lost. *)
THEOREM AcceptedBuildsRun == Spec => []AcceptedIsNotDropped
<1>1. OwnerInv => AcceptedIsNotDropped
  BY DEF OwnerInv, OneLoss, AcceptedIsNotDropped
<1>. QED  BY <1>1, SpecOwnerInv, PTL

----------------------------------------------------------------------------
(* One build of an application, for users who wait for each other. While   *)
(* no outcome is unknown, somebody waits for every job before its insert,  *)
(* and a job that has found no build of its application finds none still.  *)

OneRequestPerApp ==
  \A q, r \in Request :
    InProgress(q) /\ InProgress(r) /\ client[q].app = client[r].app => q = r

OneInsert(j) ==
  /\ job[j].pc \in Before => client[j[1]].pc # "done"
  /\ job[j].pc = "insert" => \A k \in Job : IsBuilding(k) => AppOf(k) # AppOf(j)

ExclusionInv ==
  /\ OneRequestPerApp
  /\ AllKnown => OneBuildPerApp /\ \A j \in Job : OneInsert(j)

LEMMA InitExclusionInv == Init => ExclusionInv
<1>. SUFFICES ASSUME Init PROVE ExclusionInv
  OBVIOUS
<1>1. OneRequestPerApp
  BY DEF Init, NoClient, OneRequestPerApp, InProgress
<1>2. OneBuildPerApp /\ \A j \in Job : OneInsert(j)
  BY DEF Init, OneBuildPerApp, OneInsert, IsBuilding, Before
<1>. QED  BY <1>1, <1>2 DEF ExclusionInv

(* A job before its insert that is waited for is where its sender waits. *)
LEMMA WaitedFor ==
  ASSUME LifeInv, NEW j \in Job, job[j].pc \in Before, client[j[1]].pc # "done"
  PROVE  client[j[1]].pc = "waiting" /\ client[j[1]].at = j[2]
<1>1. j[1] \in Request /\ j[2] \in Server /\ j = <<j[1], j[2]>>
  BY JobIsPair
<1>2. JobOfSender(j[1], j[2])
  BY <1>1 DEF LifeInv, SenderLife
<1>. QED  BY <1>1, <1>2 DEF JobOfSender, Committed

LEMMA SenderExclusion ==
  ASSUME LifeInv, ExclusionInv, Serialized, NEW r \in Request,
         NewRequest(r) \/ ClientStep(r)
  PROVE  ExclusionInv'
<1>0. SenderMoves(r)
  BY SenderStepMoves DEF LifeInv
<1>1. \A q \in Request \ {r} : client'[q] = client[q] /\ (InProgress(q)' <=> InProgress(q))
  BY <1>0 DEF SenderMoves, InProgress
<1>2. OneRequestPerApp'
  BY <1>1, SenderApp DEF ExclusionInv, OneRequestPerApp
<1>3. SUFFICES ASSUME AllKnown'
               PROVE  OneBuildPerApp' /\ \A j \in Job : OneInsert(j)'
  BY <1>2 DEF ExclusionInv
<1>4. AllKnown /\ OneBuildPerApp /\ \A j \in Job : OneInsert(j)
  <2>1. OneSender(r)
    BY DEF LifeInv, SenderLife
  <2>2. client[r].told # "unknown"
    BY <2>1, SenderApp DEF OneSender, InProgress
  <2>. QED  BY <1>1, <1>3, <2>2 DEF AllKnown, ExclusionInv
<1>5. ASSUME NEW j \in Job PROVE IsBuilding(j)' <=> IsBuilding(j)
  BY <1>0 DEF SenderMoves, IsBuilding
<1>6. \A j \in Job : Committed(j) => AppOf(j)' = AppOf(j)
  BY AppKept
<1>7. \A j \in Job : IsBuilding(j) => Committed(j)
  BY DEF IsBuilding, Committed, HasRow
<1>8. OneBuildPerApp'
  BY <1>4, <1>5, <1>6, <1>7 DEF OneBuildPerApp
<1>9. ASSUME NEW j \in Job PROVE OneInsert(j)'
  <2>0. /\ j[1] \in Request /\ j[2] \in Server /\ j = <<j[1], j[2]>>
        /\ OneInsert(j) /\ OneJob(j)
    BY <1>4, JobIsPair DEF LifeInv, JobLife
  <2>1. CASE job'[j] = job[j]
    <3>1. SUFFICES ASSUME job[j].pc \in Before PROVE OneInsert(j)'
      BY <2>1 DEF OneInsert, Before
    <3>2. client[j[1]].pc = "waiting" /\ client[j[1]].at = j[2] /\ answer[j] = "none"
      BY <2>0, <3>1, WaitedFor DEF OneInsert, OneJob
    <3>3. client'[j[1]].pc # "done"
      <4>1. CASE j[1] = r
        BY <1>0, <1>3, <2>0, <3>2, <4>1 DEF SenderMoves, Turn, SetToWork, AllKnown
      <4>. QED  BY <1>1, <2>0, <3>2, <4>1
    <3>4. job[j].pc = "insert" => \A k \in Job : IsBuilding(k)' => AppOf(k)' # AppOf(j)'
      BY <1>5, <1>6, <1>7, <2>0, <3>1 DEF OneInsert, Committed
    <3>. QED  BY <2>1, <3>3, <3>4 DEF OneInsert
  <2>2. ASSUME NEW s \in Server, NEW p \in {"usable", "check"}, SetToWork(r, s, p),
               j = <<r, s>>
        PROVE  OneInsert(j)'
    <3>1. job'[j].pc = p /\ client'[j[1]].pc = "waiting"
      BY <2>0, <2>2 DEF SetToWork, Goto, LifeInv, TypeInv, JobsOK
    <3>. QED  BY <3>1 DEF OneInsert
  <2>3. ASSUME NEW s \in Server, NEW p \in {"usable", "check"}, SetToWork(r, s, p),
               j # <<r, s>>
        PROVE  job'[j] = job[j]
    BY <2>3 DEF SetToWork, Goto, LifeInv, TypeInv, JobsOK
  <2>. QED  BY <1>0, <2>1, <2>2, <2>3 DEF SenderMoves, Turn
<1>. QED  BY <1>8, <1>9

LEMMA JobExclusion ==
  ASSUME LifeInv, ExclusionInv, NEW j \in Job,
         WebStep(j) \/ BuildStep(j) \/ DeleteVersion(j) \/ DbError(j)
  PROVE  ExclusionInv'
<1>0. Advance(j) /\ OneJob(j)' /\ UNCHANGED client
  BY JobAdvances DEF LifeInv, Advance
<1>1. OneRequestPerApp'
  BY <1>0 DEF ExclusionInv, OneRequestPerApp, InProgress
<1>2. SUFFICES ASSUME AllKnown
               PROVE  OneBuildPerApp' /\ \A k \in Job : OneInsert(k)'
  BY <1>0, <1>1 DEF ExclusionInv, AllKnown
<1>3. OneRequestPerApp /\ OneBuildPerApp /\ \A k \in Job : OneInsert(k)
  BY <1>2 DEF ExclusionInv
<1>4. \A k \in Job : AppOf(k)' = AppOf(k)
  BY <1>0 DEF AppOf
<1>5. ASSUME NEW k \in Job, IsBuilding(k)', ~(k = j /\ InsertRow(j))
      PROVE  IsBuilding(k)
  <2>1. CASE k # j
    BY <1>0, <1>5, <2>1 DEF Advance, IsBuilding
  <2>2. CASE k = j
    BY <1>5, <2>2 DEF IsBuilding, LifeInv, TypeInv, JobsOK, Results, WebStep,
       BuildStep, LookForThread, CheckBuilding, SubmitTask, TakeTask, PrepareCode, BuildImage,
       WriteResult, AutoDeploy, DeleteVersion, DbError
  <2>. QED  BY <2>1, <2>2
<1>6. ASSUME NEW k \in Job, k # j, job[k].pc \in Before, InsertRow(j)
      PROVE  AppOf(k) # AppOf(j)
  <2>1. job[j].pc \in Before
    BY <1>6 DEF InsertRow, Before
  <2>2. /\ client[j[1]].pc = "waiting" /\ client[j[1]].at = j[2]
        /\ client[k[1]].pc = "waiting" /\ client[k[1]].at = k[2]
    BY <1>3, <1>6, <2>1, WaitedFor DEF OneInsert
  <2>3. AppOf(k) = AppOf(j) => j[1] = k[1]
    BY <1>3, <2>2, JobIsPair DEF OneRequestPerApp, InProgress, AppOf
  <2>. QED  BY <1>6, <2>2, <2>3, JobIsPair
<1>7. InsertRow(j) => \A k \in Job : IsBuilding(k) => AppOf(k) # AppOf(j)
  BY <1>3 DEF InsertRow, OneInsert
<1>8. OneBuildPerApp'
  BY <1>3, <1>4, <1>5, <1>7 DEF OneBuildPerApp
<1>9. ASSUME NEW k \in Job, k # j PROVE OneInsert(k)'
  <2>1. job'[k] = job[k]
    BY <1>0, <1>9 DEF Advance
  <2>2. job[k].pc = "insert" /\ InsertRow(j) => AppOf(j) # AppOf(k)
    BY <1>6, <1>9 DEF Before
  <2>. QED  BY <1>0, <1>3, <1>4, <1>5, <2>1, <2>2 DEF OneInsert
<1>10. OneInsert(j)'
  <2>1. job'[j].pc \in Before => job[j].pc \in Before
    BY <1>0 DEF Advance, OneJob, Committed
  <2>2. job'[j].pc = "insert" => \A k \in Job : IsBuilding(k)' => AppOf(k)' # AppOf(j)'
    <3>1. SUFFICES ASSUME job'[j].pc = "insert"
                   PROVE  \A k \in Job : IsBuilding(k)' => AppOf(k)' # AppOf(j)'
      OBVIOUS
    <3>2. ~InsertRow(j)
      BY <3>1 DEF InsertRow, Goto, LifeInv, TypeInv, JobsOK
    <3>3. CASE CheckBuilding(j)
      <4>1. \A k \in Job : IsBuilding(k) => AppOf(k) # AppOf(j)
        BY <3>1, <3>3 DEF CheckBuilding, Refuse, Goto, LifeInv, TypeInv, JobsOK
      <4>. QED  BY <1>4, <1>5, <3>2, <4>1
    <3>4. CASE DeleteVersion(j)
      BY <1>3, <1>4, <1>5, <3>1, <3>2, <3>4 DEF DeleteVersion, OneInsert
    <3>. QED
      BY <3>1, <3>2, <3>3, <3>4 DEF LifeInv, TypeInv, JobsOK, WebStep, BuildStep,
         LookForThread, SubmitTask, TakeTask, PrepareCode, BuildImage,
         WriteResult, AfterBuild,
         AutoDeploy, DbError, Goto, Refuse, Report
  <2>. QED  BY <1>0, <1>3, <2>1, <2>2 DEF OneInsert
<1>. QED  BY <1>8, <1>9, <1>10

LEMMA CrashExclusion ==
  ASSUME LifeInv, ExclusionInv, NEW s \in Server, Crash(s)
  PROVE  ExclusionInv'
<1>1. ASSUME NEW r \in Request
      PROVE  \/ client'[r] = client[r]
             \/ InProgress(r) /\ client'[r].pc = "done" /\ client'[r].told = "unknown"
  <2>1. client'[r] = IF client[r].home = s /\ InProgress(r)
                     THEN [client[r] EXCEPT !.pc = "done", !.told = "unknown"]
                     ELSE client[r]
    BY DEF Crash
  <2>2. client[r] \in Client
    BY DEF LifeInv, TypeInv, ClientsOK
  <2>. QED  BY <2>1, <2>2 DEF Client
<1>2. OneRequestPerApp'
  BY <1>1 DEF ExclusionInv, OneRequestPerApp, InProgress
<1>3. SUFFICES ASSUME AllKnown'
               PROVE  OneBuildPerApp' /\ \A j \in Job : OneInsert(j)'
  BY <1>2 DEF ExclusionInv
<1>4. \A r \in Request : client'[r] = client[r]
  BY <1>1, <1>3 DEF AllKnown
<1>5. AllKnown /\ OneBuildPerApp /\ \A j \in Job : OneInsert(j)
  BY <1>3, <1>4 DEF AllKnown, ExclusionInv
<1>6. ASSUME NEW j \in Job
      PROVE  /\ AppOf(j)' = AppOf(j) /\ (IsBuilding(j)' <=> IsBuilding(j))
             /\ job'[j] = job[j] \/ job'[j].pc = "end"
  BY <1>4, JobIsPair DEF Crash, LifeInv, TypeInv, JobsOK, AppOf, IsBuilding
<1>7. ASSUME NEW j \in Job PROVE OneInsert(j)'
  BY <1>4, <1>5, <1>6, JobIsPair DEF OneInsert, Before
<1>8. OneBuildPerApp'
  BY <1>5, <1>6 DEF OneBuildPerApp
<1>. QED  BY <1>7, <1>8

LEMMA NextExclusionInv ==
  ASSUME Serialized
  PROVE  LifeInv /\ ExclusionInv /\ [Next]_vars => ExclusionInv'
<1>. SUFFICES ASSUME LifeInv, ExclusionInv, [Next]_vars PROVE ExclusionInv'
  OBVIOUS
<1>1. CASE UNCHANGED vars
  BY <1>1 DEF vars, ExclusionInv, OneRequestPerApp, OneBuildPerApp, OneInsert,
     AllKnown, InProgress, IsBuilding, AppOf
<1>. QED  BY <1>1, SenderExclusion, JobExclusion, CrashExclusion DEF Next

(* If nobody starts a build of an application while another waits for an   *)
(* answer, the query of buildVersionContext is enough: two builds of one   *)
(* application need a request whose outcome is unknown.                    *)
THEOREM SerializedBuilds == Serialized => (Spec => []OneBuildUnlessUnknown)
<1>. SUFFICES ASSUME Serialized PROVE Spec => []OneBuildUnlessUnknown
  OBVIOUS
<1>1. ExclusionInv => OneBuildUnlessUnknown
  BY DEF ExclusionInv, AllKnown, OneBuildUnlessUnknown
<1>2. Spec => []ExclusionInv
  BY SpecLifeInv, InitExclusionInv, NextExclusionInv, PTL DEF Spec
<1>. QED  BY <1>1, <1>2, PTL
----------------------------------------------------------------------------
(* Whose code is in an image. Unless users delete versions that are being  *)
(* built, every job at work has a row that says BUILDING, so two jobs in   *)
(* one directory are two builds of one application.                        *)

Work == {"submit", "queued"} \cup Building

OneCode(j) ==
  /\ job[j].pc = "image" => workdir[Dir(j)] = j
  /\ image[j] \in {j, Null}

WorkHasRow == \A j \in Job : job[j].pc \in Work => IsBuilding(j)
CodeInv == WorkHasRow /\ (AllKnown => \A j \in Job : OneCode(j))

LEMMA InitCodeInv == Init => CodeInv
BY DEF Init, CodeInv, WorkHasRow, OneCode, Work, Building

LEMMA SenderCodeInv ==
  ASSUME LifeInv, CodeInv, NEW r \in Request, NewRequest(r) \/ ClientStep(r)
  PROVE  CodeInv'
<1>0. SenderMoves(r)
  BY SenderStepMoves DEF LifeInv
<1>1. AllKnown' => AllKnown
  <2>1. OneSender(r)
    BY DEF LifeInv, SenderLife
  <2>2. client[r].told # "unknown"
    BY <2>1, SenderApp DEF OneSender, InProgress
  <2>. QED  BY <1>0, <2>2 DEF AllKnown, SenderMoves
<1>2. ASSUME NEW j \in Job, job'[j].pc \in Work
      PROVE  job'[j] = job[j] /\ HasRow(j) /\ AppOf(j)' = AppOf(j)
  <2>1. job'[j] = job[j]
    BY <1>0, <1>2, SenderStarts DEF Work, Before, Building
  <2>2. HasRow(j)
    BY <1>2, <2>1 DEF LifeInv, JobLife, OneJob, Work, After
  <2>. QED  BY <2>1, <2>2, AppKept DEF Committed
<1>3. WorkHasRow'
  BY <1>0, <1>2 DEF CodeInv, WorkHasRow, IsBuilding, SenderMoves
<1>4. ASSUME AllKnown', NEW j \in Job PROVE OneCode(j)'
  <2>1. OneCode(j) /\ UNCHANGED <<workdir, image>>
    BY <1>0, <1>1, <1>4 DEF CodeInv, SenderMoves
  <2>2. job'[j].pc = "image" => job'[j] = job[j] /\ AppOf(j)' = AppOf(j)
    BY <1>2 DEF Work, Building
  <2>. QED  BY <2>1, <2>2 DEF OneCode, Dir
<1>. QED  BY <1>3, <1>4 DEF CodeInv

LEMMA JobCodeInv ==
  ASSUME LifeInv, AllKnown => OneBuildPerApp, CodeInv, ~DeletesBuilding, NEW j \in Job,
         WebStep(j) \/ BuildStep(j) \/ DeleteVersion(j) \/ DbError(j)
  PROVE  CodeInv'
<1>. USE DEF LifeInv, TypeInv
<1>0. Advance(j) /\ OneJob(j) /\ (job[j].pc \in Work => IsBuilding(j))
  BY JobAdvances DEF CodeInv, WorkHasRow, JobLife
<1>1. /\ \A k \in Job : AppOf(k)' = AppOf(k) /\ Dir(k)' = Dir(k)
      /\ AllKnown' <=> AllKnown
  BY <1>0 DEF Advance, AppOf, Dir, AllKnown
<1>2. job'[j].pc \in Work => IsBuilding(j)'
  <2>. USE <1>0 DEF Work, Building, IsBuilding, JobsOK
  <2>1. CASE LookForThread(j)
    BY <2>1 DEF LookForThread, Goto
  <2>2. CASE CheckBuilding(j)
    BY <2>2 DEF CheckBuilding, Refuse, Goto
  <2>3. CASE InsertRow(j)
    BY <2>3 DEF InsertRow
  <2>4. CASE SubmitTask(j)
    BY <2>4 DEF SubmitTask
  <2>5. CASE TakeTask(j)
    <3>1. /\ queue[j[2]] \in Seq(Job) /\ queue[j[2]] # <<>>
          /\ Head(queue[j[2]]) = j /\ j[2] \in Server
      BY <2>5, JobIsPair DEF TakeTask, PoolsOK
    <3>2. 1 \in DOMAIN queue[j[2]] /\ queue[j[2]][1] = j
      BY <3>1
    <3>3. job[j].pc = "queued"
      BY <3>1, <3>2 DEF QueueLife, OneQueue
    <3>. QED  BY <2>5, <3>3 DEF TakeTask
  <2>6. CASE PrepareCode(j) \/ BuildImage(j)
    BY <2>6 DEF PrepareCode, BuildImage
  <2>7. CASE WriteResult(j)
    BY <2>7 DEF WriteResult, AfterBuild, Goto
  <2>8. CASE AutoDeploy(j)
    BY <2>8 DEF AutoDeploy, Goto
  <2>9. CASE DeleteVersion(j)
    BY <2>9 DEF DeleteVersion, Visible
  <2>10. CASE DbError(j)
    BY <2>10 DEF DbError, Goto, Report
  <2>. QED
    BY <2>1, <2>2, <2>3, <2>4, <2>5, <2>6, <2>7, <2>8, <2>9, <2>10 DEF WebStep, BuildStep
<1>3. WorkHasRow'
  BY <1>0, <1>2 DEF Advance, CodeInv, WorkHasRow, IsBuilding
<1>4. SUFFICES ASSUME AllKnown PROVE \A k \in Job : OneCode(k)'
  BY <1>1, <1>3 DEF CodeInv
<1>5. ASSUME NEW k \in Job, k # j PROVE OneCode(k)'
  <2>1. OneCode(k) /\ job'[k] = job[k] /\ image'[k] = image[k]
    BY <1>0, <1>4, <1>5, JobFiles DEF CodeInv, Advance
  <2>2. ASSUME job[k].pc = "image" PROVE workdir'[Dir(k)] = workdir[Dir(k)]
    <3>1. CASE UNCHANGED workdir
      BY <3>1
    <3>2. CASE PrepareCode(j) /\ workdir' = [workdir EXCEPT ![Dir(j)] = j]
      <4>1. IsBuilding(j) /\ IsBuilding(k)
        BY <1>0, <2>2, <3>2 DEF PrepareCode, CodeInv, WorkHasRow, Work, Building
      <4>2. AppOf(j) # AppOf(k)
        BY <1>4, <1>5, <4>1 DEF OneBuildPerApp
      <4>3. Dir(j) # Dir(k)
        BY <4>2 DEF Dir
      <4>4. Dir(j) \in Server \X App /\ Dir(k) \in Server \X App
        BY <2>2, <3>2, JobIsPair DEF FilesOK, Dir, PrepareCode
      <4>. QED  BY <3>2, <4>3, <4>4 DEF FilesOK
    <3>. QED  BY <3>1, <3>2, JobFiles
  <2>. QED  BY <1>1, <2>1, <2>2 DEF OneCode
<1>6. OneCode(j)'
  <2>. USE DEF OneCode, JobsOK
  <2>0. OneCode(j)
    BY <1>4 DEF CodeInv
  <2>1. CASE PrepareCode(j)
    <3>1. Dir(j) \in Server \X App /\ UNCHANGED image
      BY <2>1, JobFiles DEF PrepareCode
    <3>2. job'[j].pc = "image" => workdir' = [workdir EXCEPT ![Dir(j)] = j]
      BY <2>1 DEF PrepareCode, DownloadBranch, Report
    <3>. QED  BY <1>1, <2>0, <3>1, <3>2 DEF FilesOK
  <2>2. CASE BuildImage(j)
    <3>1. job'[j].pc # "image"
      BY <2>2 DEF BuildImage, Report
    <3>2. image'[j] \in {j, Null}
      BY <2>0, <2>2 DEF BuildImage, DoBuildImage, FilesOK
    <3>. QED  BY <3>1, <3>2
  <2>3. CASE UNCHANGED <<workdir, image>> /\ ~PrepareCode(j) /\ ~BuildImage(j)
    <3>1. job'[j].pc = "image" => job[j].pc = "image"
      BY <2>3 DEF WebStep, BuildStep, LookForThread, CheckBuilding, InsertRow, SubmitTask,
         TakeTask, WriteResult, AfterBuild, AutoDeploy, DeleteVersion, DbError, Goto,
         Refuse, Report
    <3>. QED  BY <1>1, <2>0, <2>3, <3>1
  <2>. QED
    BY <2>1, <2>2, <2>3 DEF WebStep, BuildStep, LookForThread, CheckBuilding, InsertRow,
       SubmitTask, TakeTask, WriteResult, AutoDeploy, DeleteVersion, DbError
<1>. QED  BY <1>5, <1>6

LEMMA CrashCodeInv ==
  ASSUME LifeInv, CodeInv, NEW s \in Server, Crash(s)
  PROVE  CodeInv'
<1>1. WorkHasRow'
  BY CrashMoves DEF CodeInv, WorkHasRow, Work, Building, IsBuilding
<1>2. AllKnown' => AllKnown
  <2>1. \A r \in Request : client'[r] = client[r] \/ client'[r].told = "unknown"
    BY DEF Crash, LifeInv, TypeInv, ClientsOK, Client
  <2>. QED  BY <2>1 DEF AllKnown
<1>3. ASSUME AllKnown', NEW j \in Job PROVE OneCode(j)'
  <2>1. OneCode(j)
    BY <1>2, <1>3 DEF CodeInv
  <2>. QED  BY <2>1, CrashMoves DEF OneCode
<1>. QED  BY <1>1, <1>3 DEF CodeInv

LEMMA NextCodeInv ==
  ASSUME ~DeletesBuilding
  PROVE  LifeInv /\ ExclusionInv /\ CodeInv /\ [Next]_vars => CodeInv'
<1>. SUFFICES ASSUME LifeInv, ExclusionInv, CodeInv, [Next]_vars PROVE CodeInv'
  OBVIOUS
<1>1. CASE UNCHANGED vars
  BY <1>1 DEF vars, CodeInv, WorkHasRow, OneCode, AllKnown, IsBuilding, AppOf, Dir
<1>2. AllKnown => OneBuildPerApp
  BY DEF ExclusionInv
<1>. QED  BY <1>1, <1>2, SenderCodeInv, JobCodeInv, CrashCodeInv DEF Next

(* All builds of an application on a server share one directory. If nobody *)
(* starts a build of an application while another waits, or deletes a      *)
(* version that is being built, every image nevertheless holds the code of *)
(* its own version as long as no outcome is unknown.                       *)
THEOREM ImagesHoldOwnCode ==
  Serialized /\ ~DeletesBuilding => (Spec => []ImageIsOwnCode)
<1>. SUFFICES ASSUME Serialized, ~DeletesBuilding PROVE Spec => []ImageIsOwnCode
  OBVIOUS
<1>1. CodeInv => ImageIsOwnCode
  BY DEF CodeInv, OneCode, ImageIsOwnCode
<1>2. Spec => []ExclusionInv
  BY SpecLifeInv, InitExclusionInv, NextExclusionInv, PTL DEF Spec
<1>3. Spec => []CodeInv
  BY <1>2, SpecLifeInv, InitCodeInv, NextCodeInv, PTL DEF Spec
<1>. QED  BY <1>1, <1>3, PTL
=============================================================================
