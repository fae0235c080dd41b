--------------------- MODULE DeploymentLifecycleProofs ---------------------
(***************************************************************************)
(* Theorems about DeploymentLifecycle, for every value of its constants:   *)
(* any number of servers, threads, requests, rows and environments, any    *)
(* queue capacity, any number of faults.  Part 1 asks nothing of the       *)
(* users, part 2 that their requests on one environment do not overlap,    *)
(* part 3 also that they neither abort nor delete.                         *)
(***************************************************************************)
EXTENDS DeploymentLifecycle, TLAPS

----------------------------------------------------------------------------
(* Type correctness. TypeOK is not inductive: it allows a request or a     *)
(* pool thread at work without a row, and a row needs one to be found in   *)
(* the queue or among the lost ones.                                       *)

(* A request in progress has a server and a row; an abort has a thread. *)
RequestsOK ==
  /\ reqs \in [Handler -> Request]
  /\ \A h \in Handler :
       reqs[h].pc # "idle" =>
         /\ reqs[h].srv \in Server
         /\ reqs[h].detail \in Detail
         /\ reqs[h].pc = "post" => reqs[h].thread \in Slot

(* A pool thread at work has a row, and a result before it finishes. *)
WorkersOK ==
  /\ worker \in [Slot -> PoolThread]
  /\ \A w \in Slot :
       /\ worker[w].pc \in WorkPc => worker[w].detail \in Detail
       /\ worker[w].pc = "finish" => worker[w].result \in Succeeded \cup Failed

(* A call being served is about a thread. *)
RemoteOK == remote \in RemoteCall /\ (remote.step # "none" => remote.slot \in Slot)

PoolOK == /\ queue \in [Server -> Seq(Task)]
          /\ threadMap \in [Server -> SUBSET Thread]
          /\ flagged \subseteq Slot

HistoryOK == faults \in 0 .. MaxFaults /\ lost \subseteq Detail

TypeInv ==
  /\ RequestsOK /\ WorkersOK /\ RemoteOK /\ PoolOK /\ HistoryOK
  /\ detail \in [Detail -> Row]
  /\ image \in [Env -> Detail \cup {Null}]
  /\ pods \in [Env -> SUBSET Detail]

LEMMA TypeInvImpliesTypeOK == TypeInv => TypeOK
BY DEF TypeInv, TypeOK, RequestsOK, WorkersOK, RemoteOK, PoolOK, HistoryOK

LEMMA InitTypeInv == Init => TypeInv
<1>. SUFFICES ASSUME Init PROVE TypeInv
  OBVIOUS
<1>. USE DEF Init
<1>1. detail \in [Detail -> Row]
  BY DEF NoRow, Row, Status
<1>2. RequestsOK
  BY DEF RequestsOK, IdleReq, Request, ReqPc, Kind
<1>3. WorkersOK
  BY DEF WorkersOK, AtRest, PoolThread, WorkerPc, WorkPc, Kind, Status
<1>4. RemoteOK /\ PoolOK /\ HistoryOK
  BY ConstantAssumption DEF RemoteOK, RemoteCall, NoRemote, PoolOK, HistoryOK
<1>5. image \in [Env -> Detail \cup {Null}] /\ pods \in [Env -> SUBSET Detail]
  OBVIOUS
<1>. QED  BY <1>1, <1>2, <1>3, <1>4, <1>5 DEF TypeInv

(* How the helpers of the actions keep the types. *)
LEMMA ReplyOK ==
  ASSUME RequestsOK, NEW h \in Handler, Reply(h)
  PROVE  RequestsOK'
BY DEF RequestsOK, Reply, IdleReq, Request, ReqPc, Kind

LEMMA GotoOK ==
  ASSUME RequestsOK, NEW h \in Handler, reqs[h].pc # "idle",
         NEW p \in ReqPc \ {"post"}, Goto(h, p)
  PROVE  RequestsOK'
BY DEF RequestsOK, Goto, Request

LEMMA StartOnOK ==
  ASSUME TypeInv, NEW h \in Handler, NEW s \in Server, NEW d \in Detail,
         NEW p \in ReqPc, NEW k \in Kind, StartOn(h, s, d, p, k),
         p = "post" => detail[d].thread # Null
  PROVE  RequestsOK'
BY DEF TypeInv, RequestsOK, StartOn, Request, Row

LEMMA BecomeOK ==
  ASSUME WorkersOK, NEW w \in Slot, worker[w].pc \in WorkPc,
         NEW p \in WorkPc \ {"finish"}, Become(w, p)
  PROVE  WorkersOK'
BY DEF WorkersOK, Become, PoolThread, WorkPc, WorkerPc

LEMMA ResultOK ==
  ASSUME WorkersOK, NEW w \in Slot, worker[w].pc \in WorkPc,
         NEW r \in Succeeded \cup Failed, Result(w, "finish", r)
  PROVE  WorkersOK'
BY DEF WorkersOK, Result, PoolThread, WorkPc, WorkerPc, Status

LEMMA FailOK ==
  ASSUME WorkersOK, NEW w \in Slot, worker[w].pc \in WorkPc, Fail(w)
  PROVE  WorkersOK'
<1>1. FailedStatus(worker[w].kind) \in Succeeded \cup Failed
  BY DEF FailedStatus, Failed
<1>. QED  BY <1>1, ResultOK DEF Fail

LEMMA AtRestOK ==
  ASSUME WorkersOK, NEW w \in Slot, NEW p \in {"absent", "idle", "unregister"},
         worker' = [worker EXCEPT ![w] = AtRest(p)]
  PROVE  WorkersOK'
BY DEF WorkersOK, AtRest, PoolThread, WorkPc, WorkerPc, Kind, Status

LEMMA AfterTaskOK ==
  ASSUME WorkersOK, NEW w \in Slot, AfterTask(w)
  PROVE  WorkersOK'
<1>. DEFINE p == IF worker[w].kind = "deploy" THEN "unregister" ELSE "idle"
<1>1. worker' = [worker EXCEPT ![w] = AtRest(p)]
  BY DEF AfterTask, WorkersOK
<1>. QED  BY <1>1, AtRestOK

LEMMA AgainOK ==
  ASSUME worker \in [Slot -> PoolThread], NEW w \in Slot,
         worker' = [worker EXCEPT ![w].pc = "health", ![w].tries = @ + 1]
  PROVE  worker' \in [Slot -> PoolThread]
BY DEF PoolThread, WorkPc, WorkerPc

LEMMA BeginOK ==
  ASSUME WorkersOK, NEW w \in Slot, NEW task \in Task,
         worker' = [worker EXCEPT ![w] = Begin(task)]
  PROVE  WorkersOK'
BY DEF WorkersOK, Begin, Task, PoolThread, WorkPc, WorkerPc, Status

LEMMA UpdateByIdOK ==
  ASSUME detail \in [Detail -> Row], NEW d \in Detail, NEW s \in Status,
         UpdateById(d, s)
  PROVE  detail' \in [Detail -> Row]
BY DEF UpdateById, Row

(* A new request: it has read a row that exists. *)
LEMMA NewRequestTypeInv ==
  ASSUME TypeInv, NEW h \in Handler, NewRequest(h)
  PROVE  TypeInv'
<1>1. ASSUME NEW s \in Server, NEW e \in Env, NEW d \in Detail,
             SubmitToDeploy(h, s, e, d)
      PROVE  RequestsOK'
  BY <1>1 DEF TypeInv, RequestsOK, SubmitToDeploy, Request, ReqPc, Kind
<1>2. ASSUME NEW s \in Server, NEW d \in Detail, ApproveToDeploy(h, s, d)
      PROVE  RequestsOK'
  BY <1>2, StartOnOK DEF ApproveToDeploy, ReqPc, Kind
<1>3. ASSUME NEW s \in Server, NEW d \in Detail, SubmitToRollback(h, s, d)
      PROVE  RequestsOK'
  BY <1>3, StartOnOK DEF SubmitToRollback, ReqPc, Kind
<1>4. ASSUME NEW s \in Server, NEW d \in Detail, Delete(h, s, d)
      PROVE  RequestsOK'
  BY <1>4, StartOnOK DEF Delete, ReqPc, Kind
<1>5. ASSUME NEW s \in Server, NEW d \in Detail, AbortDeployment(h, s, d)
      PROVE  RequestsOK'
  BY <1>5, StartOnOK DEF AbortDeployment, ReqPc, Kind
<1>6. RequestsOK'
  BY <1>1, <1>2, <1>3, <1>4, <1>5 DEF NewRequest
<1>7. UNCHANGED <<detail, queue, worker, threadMap, flagged, remote, image,
                  pods, faults, lost>>
  BY DEF NewRequest, SubmitToDeploy, ApproveToDeploy, SubmitToRollback, Delete,
         AbortDeployment
<1>. QED
  BY <1>6, <1>7 DEF TypeInv, WorkersOK, RemoteOK, PoolOK, HistoryOK

(* The other steps of a request. *)
LEMMA RequestStepTypeInv ==
  ASSUME TypeInv, NEW h \in Handler, RequestStep(h)
  PROVE  TypeInv'
<1>. USE DEF TypeInv, PoolOK, HistoryOK
<1>1. CASE AddRow(h)
  <2>1. detail' \in [Detail -> Row]
    BY <1>1 DEF AddRow, RequestsOK, Request, Row, Status, Waiting
  <2>2. RequestsOK'
    BY <1>1, ReplyOK, GotoOK DEF AddRow, ReqPc
  <2>. QED  BY <1>1, <2>1, <2>2 DEF AddRow, WorkersOK, RemoteOK
<1>2. CASE AskApproval(h)
  <2>1. detail' \in [Detail -> Row]
    BY <1>2 DEF AskApproval, RequestsOK, Request, Row, Status, Waiting
  <2>. QED  BY <1>2, <2>1, ReplyOK DEF AskApproval, WorkersOK, RemoteOK
<1>3. CASE CheckEnv(h)
  <2>1. RequestsOK'
    BY <1>3, ReplyOK, GotoOK DEF CheckEnv, ReqPc
  <2>. QED  BY <1>3, <2>1 DEF CheckEnv, WorkersOK, RemoteOK
<1>4. CASE Reserve(h)
  <2>1. reqs[h].detail \in Detail
    BY <1>4 DEF Reserve, RequestsOK
  <2>2. detail' \in [Detail -> Row]
    BY <1>4, <2>1, UpdateByIdOK DEF Reserve, RunningStatus, Status, Running
  <2>3. RequestsOK'
    BY <1>4, GotoOK DEF Reserve, ReqPc
  <2>. QED  BY <1>4, <2>2, <2>3 DEF Reserve, WorkersOK, RemoteOK
<1>5. CASE Enqueue(h)
  <2>. DEFINE s == reqs[h].srv
              task == [detail |-> reqs[h].detail, kind |-> reqs[h].kind]
  <2>1. s \in Server /\ task \in Task
    BY <1>5 DEF Enqueue, RequestsOK, Request, Task
  <2>2. RequestsOK'
    BY <1>5, ReplyOK DEF Enqueue
  <2>3. WorkersOK'
    <3>1. CASE \E t \in Thread : worker' = [worker EXCEPT ![<<s, t>>] = Begin(task)]
      BY <2>1, <3>1, BeginOK DEF Slot
    <3>2. CASE UNCHANGED worker
      BY <3>2 DEF WorkersOK
    <3>. QED  BY <1>5, <3>1, <3>2 DEF Enqueue
  <2>4. queue' \in [Server -> Seq(Task)]
    <3>1. CASE queue' = [queue EXCEPT ![s] = Append(@, task)]
      BY <2>1, <3>1
    <3>. QED  BY <1>5, <3>1 DEF Enqueue
  <2>5. lost' \subseteq Detail
    BY <1>5, <2>1 DEF Enqueue, Task
  <2>. QED  BY <1>5, <2>2, <2>3, <2>4, <2>5 DEF Enqueue, RemoteOK
<1>6. CASE RemoveRow(h)
  <2>1. detail' \in [Detail -> Row]
    BY <1>6 DEF RemoveRow, Row
  <2>. QED  BY <1>6, <2>1, ReplyOK DEF RemoveRow, WorkersOK, RemoteOK
<1>7. CASE PostAbort(h)
  <2>1. RemoteOK'
    BY <1>7 DEF PostAbort, RemoteOK, RemoteCall, RequestsOK
  <2>2. RequestsOK'
    BY <1>7, GotoOK DEF PostAbort, ReqPc
  <2>. QED  BY <1>7, <2>1, <2>2 DEF PostAbort, WorkersOK
<1>8. CASE CloseAborted(h)
  <2>1. detail' \in [Detail -> Row]
    BY <1>8, UpdateByIdOK DEF CloseAborted, RequestsOK, FailedStatus, Status, Failed
  <2>. QED  BY <1>8, <2>1, ReplyOK DEF CloseAborted, WorkersOK, RemoteOK
<1>. QED  BY <1>1, <1>2, <1>3, <1>4, <1>5, <1>6, <1>7, <1>8 DEF RequestStep

(* The steps of a call that aborts a thread. *)
LEMMA RemoteStepTypeInv == TypeInv /\ RemoteStep => TypeInv'
<1>. SUFFICES ASSUME TypeInv, RemoteStep PROVE TypeInv'
  OBVIOUS
<1>1. UNCHANGED <<detail, reqs, queue, worker, threadMap, image, pods, faults, lost>>
  BY DEF RemoteStep, QueryAborted, LookUpThread, Interrupt
<1>2. RemoteOK' /\ flagged' \subseteq Slot
  <2>1. CASE QueryAborted
    BY <2>1 DEF TypeInv, PoolOK, RemoteOK, RemoteCall, NoRemote, QueryAborted
  <2>2. CASE LookUpThread
    BY <2>2 DEF TypeInv, PoolOK, RemoteOK, RemoteCall, NoRemote, LookUpThread
  <2>3. CASE Interrupt
    BY <2>3 DEF TypeInv, PoolOK, RemoteOK, RemoteCall, NoRemote, Interrupt
  <2>. QED  BY <2>1, <2>2, <2>3 DEF RemoteStep
<1>. QED  BY <1>1, <1>2 DEF TypeInv, RequestsOK, WorkersOK, PoolOK, HistoryOK

(* The steps of a pool thread. *)
LEMMA WorkerStepTypeInv ==
  ASSUME TypeInv, NEW w \in Slot, WorkerStep(w)
  PROVE  TypeInv'
<1>. USE DEF TypeInv, PoolOK, HistoryOK, At
<1>1. CASE TakeTask(w)
  <2>1. w[1] \in Server /\ queue[w[1]] \in Seq(Task) /\ queue[w[1]] # <<>>
    BY <1>1 DEF TakeTask, Slot
  <2>2. Head(queue[w[1]]) \in Task /\ Tail(queue[w[1]]) \in Seq(Task)
    BY <2>1
  <2>3. WorkersOK'
    BY <1>1, <2>2, BeginOK DEF TakeTask
  <2>4. queue' \in [Server -> Seq(Task)]
    BY <1>1, <2>2 DEF TakeTask
  <2>. QED  BY <1>1, <2>3, <2>4 DEF TakeTask, RequestsOK, RemoteOK
<1>2. CASE Register(w)
  <2>1. threadMap' \in [Server -> SUBSET Thread]
    BY <1>2 DEF Register, Slot
  <2>2. WorkersOK'
    BY <1>2, BecomeOK DEF Register, WorkPc
  <2>. QED  BY <1>2, <2>1, <2>2 DEF Register, RequestsOK, RemoteOK
<1>3. CASE RecordThread(w)
  <2>1. detail' \in [Detail -> Row]
    BY <1>3 DEF RecordThread, Row
  <2>2. WorkersOK'
    BY <1>3, BecomeOK DEF RecordThread, WorkPc
  <2>. QED  BY <1>3, <2>1, <2>2 DEF RecordThread, RequestsOK, RemoteOK
<1>4. CASE PreCheck(w)
  <2>1. WorkersOK'
    BY <1>4, BecomeOK, AfterTaskOK DEF PreCheck, WorkPc
  <2>2. flagged' \subseteq Slot /\ lost' \subseteq Detail
    BY <1>4 DEF PreCheck, WorkersOK, WorkPc
  <2>. QED  BY <1>4, <2>1, <2>2 DEF PreCheck, RequestsOK, RemoteOK
<1>5. CASE ApplyImage(w)
  <2>1. WorkersOK'
    BY <1>5, BecomeOK, FailOK DEF ApplyImage, WorkPc
  <2>2. image' \in [Env -> Detail \cup {Null}]
    BY <1>5 DEF ApplyImage, WorkersOK, WorkPc
  <2>. QED  BY <1>5, <2>1, <2>2 DEF ApplyImage, RequestsOK, RemoteOK
<1>6. CASE CheckHealth(w)
  <2>1. WorkersOK'
    BY <1>6, BecomeOK, FailOK DEF CheckHealth, WorkPc
  <2>. QED  BY <1>6, <2>1 DEF CheckHealth, RequestsOK, RemoteOK
<1>7. CASE Round(w)
  <2>1. WorkersOK'
    <3>1. CASE worker' = [worker EXCEPT ![w].pc = "health", ![w].tries = @ + 1]
      <4>1. worker \in [Slot -> PoolThread] /\ worker[w].detail \in Detail
        BY <1>7 DEF Round, WorkersOK, WorkPc
      <4>2. worker' \in [Slot -> PoolThread]
        BY <3>1, <4>1, AgainOK
      <4>3. worker'[w].pc = "health" /\ worker'[w].detail = worker[w].detail
        BY <3>1, <4>1 DEF PoolThread
      <4>4. \A v \in Slot : v # w => worker'[v] = worker[v]
        BY <3>1, <4>1
      <4>. QED  BY <4>1, <4>2, <4>3, <4>4 DEF WorkersOK
    <3>2. CASE \E r \in Results(w) : Result(w, "finish", r)
      <4>1. Results(w) \subseteq Succeeded \cup Failed
        BY DEF Results, FailedStatus, Succeeded, Failed
      <4>2. PICK r \in Succeeded \cup Failed : Result(w, "finish", r)
        BY <3>2, <4>1
      <4>3. WorkersOK /\ worker[w].pc \in WorkPc
        BY <1>7 DEF Round, WorkPc
      <4>. QED  BY <4>2, <4>3, ResultOK
    <3>3. CASE Fail(w)
      BY <1>7, <3>3, FailOK DEF Round, WorkPc
    <3>. QED  BY <1>7, <3>1, <3>2, <3>3 DEF Round
  <2>. QED  BY <1>7, <2>1 DEF Round, RequestsOK, RemoteOK
<1>8. CASE Finish(w)
  <2>1. detail' \in [Detail -> Row]
    BY <1>8, UpdateByIdOK DEF Finish, WorkersOK, PoolThread, WorkPc
  <2>2. WorkersOK'
    BY <1>8, AfterTaskOK DEF Finish
  <2>. QED  BY <1>8, <2>1, <2>2 DEF Finish, RequestsOK, RemoteOK
<1>9. CASE Unregister(w)
  <2>1. threadMap' \in [Server -> SUBSET Thread]
    BY <1>9 DEF Unregister, Slot
  <2>2. WorkersOK'
    BY <1>9, AtRestOK DEF Unregister
  <2>. QED  BY <1>9, <2>1, <2>2 DEF Unregister, RequestsOK, RemoteOK
<1>. QED  BY <1>1, <1>2, <1>3, <1>4, <1>5, <1>6, <1>7, <1>8, <1>9 DEF WorkerStep

(* Faults. *)
LEMMA DbErrorTypeInv ==
  ASSUME TypeInv, NEW w \in Slot, DbError(w)
  PROVE  TypeInv'
<1>1. WorkersOK'
  BY AtRestOK, AfterTaskOK DEF TypeInv, DbError
<1>2. HistoryOK'
  BY ConstantAssumption DEF TypeInv, HistoryOK, DbError, WorkersOK, At, WorkPc
<1>. QED  BY <1>1, <1>2 DEF TypeInv, DbError, RequestsOK, RemoteOK, PoolOK

LEMMA TasksOnOK ==
  ASSUME TypeInv, NEW s \in Server
  PROVE  TasksOn(s) \subseteq Detail
<1>1. ASSUME NEW i \in DOMAIN queue[s] PROVE queue[s][i].detail \in Detail
  <2>1. queue[s] \in Seq(Task)
    BY DEF TypeInv, PoolOK
  <2>2. queue[s][i] \in Task
    BY <2>1
  <2>. QED  BY <2>2 DEF Task
<1>2. \A t \in Thread : worker[<<s, t>>].pc \in WorkPc => worker[<<s, t>>].detail \in Detail
  BY DEF TypeInv, WorkersOK, Slot
<1>3. \A h \in Handler : reqs[h].pc = "enqueue" => reqs[h].detail \in Detail
  BY DEF TypeInv, RequestsOK
<1>. QED  BY <1>1, <1>2, <1>3 DEF TasksOn

LEMMA CrashTypeInv ==
  ASSUME TypeInv, NEW s \in Server, Crash(s)
  PROVE  TypeInv'
<1>. USE DEF TypeInv, Crash
<1>1. RequestsOK'
  BY DEF RequestsOK, Request, IdleReq, ReqPc, Kind
<1>2. WorkersOK'
  BY DEF WorkersOK, PoolThread, AtRest, WorkerPc, WorkPc, Kind, Status
<1>3. RemoteOK' /\ PoolOK'
  BY DEF RemoteOK, RemoteCall, NoRemote, PoolOK
<1>4. HistoryOK'
  BY ConstantAssumption, TasksOnOK DEF HistoryOK
<1>. QED  BY <1>1, <1>2, <1>3, <1>4

(* The cluster. *)
LEMMA ClusterTypeInv == TypeInv /\ ClusterStep => TypeInv'
<1>. SUFFICES ASSUME TypeInv, NEW e \in Env, RollOut(e) PROVE TypeInv'
  BY DEF ClusterStep
<1>1. UNCHANGED <<detail, reqs, queue, worker, threadMap, flagged, remote, image,
                  faults, lost>>
  BY DEF RollOut
<1>2. pods' \in [Env -> SUBSET Detail]
  BY DEF TypeInv, RollOut
<1>. QED
  BY <1>1, <1>2 DEF TypeInv, RequestsOK, WorkersOK, RemoteOK, PoolOK, HistoryOK

LEMMA NextTypeInv == TypeInv /\ [Next]_vars => TypeInv'
<1>. SUFFICES ASSUME TypeInv, [Next]_vars PROVE TypeInv'
  OBVIOUS
<1>1. CASE UNCHANGED vars
  BY <1>1 DEF vars, TypeInv, RequestsOK, WorkersOK, RemoteOK, PoolOK, HistoryOK
<1>2. CASE Next
  BY <1>2, NewRequestTypeInv, RequestStepTypeInv, RemoteStepTypeInv,
     WorkerStepTypeInv, ClusterTypeInv, DbErrorTypeInv, CrashTypeInv DEF Next
<1>. QED  BY <1>1, <1>2

LEMMA TypeInvHolds == Spec => []TypeInv
BY InitTypeInv, NextTypeInv, PTL DEF Spec

(* The variables keep their types, whatever crashes, races and is aborted. *)
THEOREM TypeCorrect == Spec => []TypeOK
BY TypeInvHolds, TypeInvImpliesTypeOK, PTL

----------------------------------------------------------------------------
(* The registry of deployment threads.                                     *)

(* Two slots with the same server and the same thread name are the same. *)
LEMMA SameSlot ==
  ASSUME NEW v \in Slot, NEW w \in Slot, v[1] = w[1], v[2] = w[2]
  PROVE  v = w
BY DEF Slot

LEMMA RegisteredStep ==
  TypeInv /\ RunningThreadsRegistered /\ [Next]_vars => RunningThreadsRegistered'
<1>. SUFFICES ASSUME TypeInv, RunningThreadsRegistered, [Next]_vars
              PROVE  RunningThreadsRegistered'
  OBVIOUS
<1>. USE DEF RunningThreadsRegistered
<1>w. worker \in [Slot -> PoolThread] /\ threadMap \in [Server -> SUBSET Thread]
  BY DEF TypeInv, WorkersOK, PoolOK
(* Whoever changes neither a pool thread nor the registry is harmless. *)
<1>1. CASE UNCHANGED <<worker, threadMap>>
  BY <1>1
<1>2. ASSUME NEW h \in Handler, Enqueue(h) PROVE RunningThreadsRegistered'
  <2>1. UNCHANGED threadMap
    BY <1>2 DEF Enqueue
  <2>2. reqs[h].srv \in Server
    BY <1>2 DEF Enqueue, TypeInv, RequestsOK
  <2>3. CASE \E t \in Thread :
               worker' = [worker EXCEPT ![<<reqs[h].srv, t>>] =
                            Begin([detail |-> reqs[h].detail, kind |-> reqs[h].kind])]
    BY <1>w, <2>1, <2>2, <2>3 DEF Begin, Slot, WorkPc
  <2>. QED  BY <1>1, <1>2, <2>1, <2>3 DEF Enqueue
<1>3. ASSUME NEW w \in Slot, TakeTask(w) PROVE RunningThreadsRegistered'
  BY <1>w, <1>3 DEF TakeTask, Begin, WorkPc
<1>4. ASSUME NEW w \in Slot, Register(w) PROVE RunningThreadsRegistered'
  <2>1. w[1] \in Server /\ w[2] \in threadMap'[w[1]]
    BY <1>w, <1>4 DEF Register, Slot
  <2>2. \A s \in Server : threadMap[s] \subseteq threadMap'[s]
    BY <1>w, <1>4 DEF Register
  <2>3. \A v \in Slot : v # w => worker'[v] = worker[v]
    BY <1>w, <1>4 DEF Register, Become
  <2>. QED  BY <1>w, <2>1, <2>2, <2>3 DEF Slot
<1>5. ASSUME NEW w \in Slot, worker[w].pc \in WorkPc \ {"register"},
             UNCHANGED threadMap,
             worker'[w].kind = "deploy" => worker[w].kind = "deploy",
             \A v \in Slot : v # w => worker'[v] = worker[v]
      PROVE  RunningThreadsRegistered'
  BY <1>5
<1>6. ASSUME NEW w \in Slot, worker' = [worker EXCEPT ![w] = AtRest("idle")]
                             \/ AfterTask(w),
             UNCHANGED threadMap
      PROVE  RunningThreadsRegistered'
  BY <1>w, <1>6 DEF AfterTask, AtRest, WorkPc
<1>7. ASSUME NEW w \in Slot, RecordThread(w) \/ ApplyImage(w) \/ CheckHealth(w)
                             \/ Round(w)
      PROVE  RunningThreadsRegistered'
  <2>1. worker[w].pc \in WorkPc \ {"register"} /\ UNCHANGED threadMap
    BY <1>7 DEF RecordThread, ApplyImage, CheckHealth, Round, At, WorkPc
  <2>2. worker'[w].kind = worker[w].kind /\ \A v \in Slot : v # w => worker'[v] = worker[v]
    BY <1>w, <1>7 DEF RecordThread, ApplyImage, CheckHealth, Round, Become, Fail,
                      Result, PoolThread
  <2>. QED  BY <1>5, <2>1, <2>2
<1>8. ASSUME NEW w \in Slot, PreCheck(w) PROVE RunningThreadsRegistered'
  <2>1. CASE AfterTask(w)
    BY <1>6, <1>8, <2>1 DEF PreCheck
  <2>2. CASE Become(w, "apply")
    <3>1. worker'[w].kind = worker[w].kind /\ \A v \in Slot : v # w => worker'[v] = worker[v]
      BY <1>w, <2>2 DEF Become, PoolThread
    <3>. QED  BY <1>5, <1>8, <3>1 DEF PreCheck, At, WorkPc
  <2>. QED  BY <1>8, <2>1, <2>2 DEF PreCheck
<1>9. ASSUME NEW w \in Slot, Finish(w) \/ DbError(w) PROVE RunningThreadsRegistered'
  BY <1>6, <1>9 DEF Finish, DbError
<1>10. ASSUME NEW w \in Slot, Unregister(w) PROVE RunningThreadsRegistered'
  <2>1. worker'[w].pc = "idle"
    BY <1>w, <1>10 DEF Unregister, AtRest
  <2>2. ASSUME NEW v \in Slot, v # w
        PROVE  worker'[v] = worker[v]
               /\ (v[2] \in threadMap[v[1]] => v[2] \in threadMap'[v[1]])
    BY <1>w, <1>10, <2>2, SameSlot DEF Unregister, Slot
  <2>. QED  BY <1>w, <2>1, <2>2 DEF WorkPc
<1>11. ASSUME NEW s \in Server, Crash(s) PROVE RunningThreadsRegistered'
  <2>1. ASSUME NEW v \in Slot, v[1] = s PROVE worker'[v].pc \notin WorkPc
    BY <1>11, <2>1 DEF Crash, AtRest, WorkPc
  <2>2. ASSUME NEW v \in Slot, v[1] # s
        PROVE  worker'[v] = worker[v] /\ threadMap'[v[1]] = threadMap[v[1]]
    BY <1>w, <1>11, <2>2 DEF Crash, Slot
  <2>. QED  BY <2>1, <2>2
<1>12. ASSUME NEW h \in Handler, NewRequest(h) PROVE UNCHANGED <<worker, threadMap>>
  BY <1>12 DEF NewRequest, SubmitToDeploy, ApproveToDeploy, SubmitToRollback,
               Delete, AbortDeployment
<1>13. ASSUME NEW h \in Handler, RequestStep(h)
       PROVE  Enqueue(h) \/ UNCHANGED <<worker, threadMap>>
  BY <1>13 DEF RequestStep, AddRow, AskApproval, CheckEnv, Reserve, RemoveRow,
               PostAbort, CloseAborted
<1>14. RemoteStep \/ ClusterStep => UNCHANGED <<worker, threadMap>>
  BY DEF RemoteStep, QueryAborted, LookUpThread, Interrupt, ClusterStep, RollOut
<1>15. ASSUME NEW w \in Slot, WorkerStep(w) PROVE RunningThreadsRegistered'
  BY <1>3, <1>4, <1>7, <1>8, <1>9, <1>10, <1>15 DEF WorkerStep
<1>16. CASE UNCHANGED vars
  BY <1>1, <1>16 DEF vars
<1>. QED
  BY <1>1, <1>2, <1>9, <1>11, <1>12, <1>13, <1>14, <1>15, <1>16 DEF Next

(* A pool thread that works on a deployment is in its server's registry,   *)
(* so an abort finds it by name: DeploymentThreadPoolUtils.put before the  *)
(* work, remove in the finally after it.                                   *)
THEOREM ThreadsAreRegistered == Spec => []RunningThreadsRegistered
<1>1. Init => RunningThreadsRegistered
  BY DEF Init, RunningThreadsRegistered, AtRest, WorkPc
<1>. QED  BY <1>1, TypeInvHolds, RegisteredStep, PTL DEF Spec

----------------------------------------------------------------------------
(* Every running row has an owner, unless its task was lost.               *)

Owned(d) == RequestOf(d) \/ QueuedFor(d) \/ WorkedOn(d)

(* Steps that leave the queue and the pool threads alone, take no request  *)
(* out of "enqueue" and make no row running.                               *)
LEMMA OwnersKept ==
  ASSUME BusyRowHasOwner, UNCHANGED <<queue, worker>>, lost \subseteq lost',
         \A h \in Handler : reqs[h].pc = "enqueue" => reqs'[h] = reqs[h],
         \A d \in Detail : Busy(d)' => Busy(d)
  PROVE  BusyRowHasOwner'
BY DEF BusyRowHasOwner, RequestOf, QueuedFor, WorkedOn

(* Steps of pool thread w: it goes on with its row, or the row is no       *)
(* longer running or is lost.                                              *)
LEMMA WorkerKeepsOrEnds ==
  ASSUME BusyRowHasOwner, NEW w \in Slot, UNCHANGED <<reqs, queue>>,
         lost \subseteq lost',
         \A v \in Slot : v # w => worker'[v] = worker[v],
         \A d \in Detail :
           worker[w].pc \in WorkPc /\ worker[w].detail = d =>
             \/ worker'[w].pc \in WorkPc /\ worker'[w].detail = d
             \/ d \in lost' \/ ~Busy(d)',
         \A d \in Detail : Busy(d)' => Busy(d)
  PROVE  BusyRowHasOwner'
<1>. SUFFICES ASSUME NEW d \in Detail, Busy(d)', d \notin lost'
              PROVE  RequestOf(d)' \/ QueuedFor(d)' \/ WorkedOn(d)'
  BY DEF BusyRowHasOwner
<1>1. RequestOf(d) \/ QueuedFor(d) \/ WorkedOn(d)
  BY DEF BusyRowHasOwner
<1>2. CASE RequestOf(d) \/ QueuedFor(d)
  BY <1>2 DEF RequestOf, QueuedFor
<1>3. CASE WorkedOn(d)
  BY <1>3 DEF WorkedOn
<1>. QED  BY <1>1, <1>2, <1>3

(* A row that is written a status other than a running one is not running. *)
LEMMA UpdateEnds ==
  ASSUME detail \in [Detail -> Row], NEW d \in Detail, NEW s \in Status \ Running,
         UpdateById(d, s)
  PROVE  /\ ~Busy(d)'
         /\ \A c \in Detail : Busy(c)' => Busy(c)
BY DEF UpdateById, Busy, Row

LEMMA EnqueueKeepsOwners ==
  ASSUME TypeInv, BusyRowHasOwner, NEW h \in Handler, Enqueue(h)
  PROVE  BusyRowHasOwner'
<1>. DEFINE s == reqs[h].srv
            task == [detail |-> reqs[h].detail, kind |-> reqs[h].kind]
            new == {t \in Thread : worker[<<s, t>>].pc = "absent"}
<1>1. /\ worker \in [Slot -> PoolThread] /\ queue \in [Server -> Seq(Task)]
      /\ reqs \in [Handler -> Request]
      /\ s \in Server /\ task \in Task /\ queue[s] \in Seq(Task)
  BY DEF Enqueue, TypeInv, WorkersOK, PoolOK, RequestsOK, Request, Task
<1>. SUFFICES ASSUME NEW d \in Detail, Busy(d)', d \notin lost'
              PROVE  RequestOf(d)' \/ QueuedFor(d)' \/ WorkedOn(d)'
  BY DEF BusyRowHasOwner
<1>2. UNCHANGED detail /\ lost \subseteq lost'
  BY DEF Enqueue
<1>3. RequestOf(d) \/ QueuedFor(d) \/ WorkedOn(d)
  BY <1>2 DEF BusyRowHasOwner, Busy
<1>4. \A g \in Handler : g # h => reqs'[g] = reqs[g]
  BY <1>1 DEF Enqueue, Reply
<1>5. CASE \E t \in new : worker' = [worker EXCEPT ![<<s, t>>] = Begin(task)]
           /\ UNCHANGED <<queue, lost>>
  <2>1. PICK t \in new : worker' = [worker EXCEPT ![<<s, t>>] = Begin(task)]
                         /\ UNCHANGED <<queue, lost>>
    BY <1>5
  <2>2. /\ <<s, t>> \in Slot
        /\ worker'[<<s, t>>].pc \in WorkPc /\ worker'[<<s, t>>].detail = reqs[h].detail
    BY <1>1, <2>1 DEF Slot, Begin, WorkPc
  <2>3. \A v \in Slot : worker[v].pc \in WorkPc => worker'[v] = worker[v]
    BY <1>1, <2>1, <2>2 DEF WorkPc
  <2>4. CASE QueuedFor(d)
    BY <2>1, <2>4 DEF QueuedFor
  <2>5. CASE WorkedOn(d)
    BY <2>3, <2>5 DEF WorkedOn
  <2>6. CASE RequestOf(d)
    BY <1>4, <2>2, <2>6 DEF RequestOf, WorkedOn
  <2>. QED  BY <1>3, <2>4, <2>5, <2>6
<1>6. CASE queue' = [queue EXCEPT ![s] = Append(@, task)] /\ UNCHANGED <<worker, lost>>
  <2>1. /\ Len(queue'[s]) = Len(queue[s]) + 1
        /\ queue'[s][Len(queue[s]) + 1] = task
        /\ Len(queue[s]) + 1 \in DOMAIN queue'[s]
        /\ \A i \in DOMAIN queue[s] : i \in DOMAIN queue'[s] /\ queue'[s][i] = queue[s][i]
    BY <1>1, <1>6
  <2>2. \A r \in Server : r # s => queue'[r] = queue[r]
    BY <1>1, <1>6
  <2>3. CASE QueuedFor(d)
    BY <2>1, <2>2, <2>3 DEF QueuedFor
  <2>4. CASE WorkedOn(d)
    BY <1>6, <2>4 DEF WorkedOn
  <2>5. CASE RequestOf(d)
    BY <1>1, <1>4, <2>1, <2>5 DEF RequestOf, QueuedFor
  <2>. QED  BY <1>3, <2>3, <2>4, <2>5
<1>7. CASE lost' = lost \cup {reqs[h].detail} /\ UNCHANGED <<queue, worker>>
  BY <1>3, <1>4, <1>7 DEF RequestOf, QueuedFor, WorkedOn
<1>. QED  BY <1>5, <1>6, <1>7 DEF Enqueue

LEMMA TakeTaskKeepsOwners ==
  ASSUME TypeInv, BusyRowHasOwner, NEW w \in Slot, TakeTask(w)
  PROVE  BusyRowHasOwner'
<1>. DEFINE s == w[1]
<1>1. /\ worker \in [Slot -> PoolThread] /\ queue \in [Server -> Seq(Task)]
      /\ s \in Server /\ queue[s] \in Seq(Task) /\ queue[s] # <<>>
  BY DEF TakeTask, TypeInv, WorkersOK, PoolOK, Slot
<1>. SUFFICES ASSUME NEW d \in Detail, Busy(d)', d \notin lost'
              PROVE  RequestOf(d)' \/ QueuedFor(d)' \/ WorkedOn(d)'
  BY DEF BusyRowHasOwner
<1>2. RequestOf(d) \/ QueuedFor(d) \/ WorkedOn(d)
  BY DEF BusyRowHasOwner, Busy, TakeTask
<1>3. /\ worker'[w].pc \in WorkPc /\ worker'[w].detail = queue[s][1].detail
      /\ worker[w].pc \notin WorkPc
      /\ \A v \in Slot : v # w => worker'[v] = worker[v]
  BY <1>1 DEF TakeTask, At, Begin, WorkPc
<1>4. ASSUME NEW i \in DOMAIN queue[s], i # 1
      PROVE  i - 1 \in DOMAIN queue'[s] /\ queue'[s][i - 1] = queue[s][i]
  BY <1>1, <1>4 DEF TakeTask
<1>5. \A r \in Server : r # s => queue'[r] = queue[r]
  BY <1>1 DEF TakeTask
<1>6. CASE RequestOf(d)
  BY <1>6 DEF RequestOf, TakeTask
<1>7. CASE QueuedFor(d)
  BY <1>1, <1>3, <1>4, <1>5, <1>7 DEF QueuedFor, WorkedOn
<1>8. CASE WorkedOn(d)
  BY <1>3, <1>8 DEF WorkedOn
<1>. QED  BY <1>2, <1>6, <1>7, <1>8

LEMMA CrashKeepsOwners ==
  ASSUME TypeInv, BusyRowHasOwner, NEW s \in Server, Crash(s)
  PROVE  BusyRowHasOwner'
<1>. SUFFICES ASSUME NEW d \in Detail, Busy(d)', d \notin lost'
              PROVE  RequestOf(d)' \/ QueuedFor(d)' \/ WorkedOn(d)'
  BY DEF BusyRowHasOwner
<1>1. d \notin TasksOn(s) /\ (RequestOf(d) \/ QueuedFor(d) \/ WorkedOn(d))
  BY DEF BusyRowHasOwner, Busy, Crash
<1>2. CASE RequestOf(d)
  BY <1>1, <1>2 DEF RequestOf, TasksOn, Crash
<1>3. CASE QueuedFor(d)
  BY <1>1, <1>3 DEF QueuedFor, TasksOn, Crash, TypeInv, PoolOK
<1>4. CASE WorkedOn(d)
  BY <1>1, <1>4 DEF WorkedOn, TasksOn, Crash, Slot
<1>. QED  BY <1>1, <1>2, <1>3, <1>4

LEMMA RequestKeepsOwners ==
  ASSUME TypeInv, BusyRowHasOwner, NEW h \in Handler, RequestStep(h)
  PROVE  BusyRowHasOwner'
<1>0. detail \in [Detail -> Row] /\ reqs \in [Handler -> Request]
  BY DEF TypeInv, RequestsOK
(* A step that ends the request, or moves it on, before or after "enqueue". *)
<1>1. ASSUME reqs[h].pc # "enqueue", Reply(h) \/ \E p \in ReqPc : Goto(h, p),
             UNCHANGED <<queue, worker, lost>>,
             \A d \in Detail : Busy(d)' => Busy(d)
      PROVE  BusyRowHasOwner'
  BY <1>0, <1>1, OwnersKept DEF Reply, Goto
<1>2. CASE AddRow(h) \/ AskApproval(h) \/ RemoveRow(h)
  <2>1. \A d \in Detail : Busy(d)' => Busy(d)
    BY <1>0, <1>2 DEF AddRow, AskApproval, RemoveRow, Busy, Row, Running
  <2>. QED  BY <1>1, <1>2, <2>1 DEF AddRow, AskApproval, RemoveRow, ReqPc
<1>3. CASE CheckEnv(h) \/ PostAbort(h)
  <2>1. \A d \in Detail : Busy(d)' => Busy(d)
    BY <1>3 DEF CheckEnv, PostAbort, Busy
  <2>. QED  BY <1>1, <1>3, <2>1 DEF CheckEnv, PostAbort, ReqPc
<1>4. CASE CloseAborted(h)
  <2>1. reqs[h].detail \in Detail /\ FailedStatus(reqs[h].kind) \in Status \ Running
    BY <1>4 DEF CloseAborted, TypeInv, RequestsOK, FailedStatus, Status, Failed, Running
  <2>2. \A d \in Detail : Busy(d)' => Busy(d)
    BY <1>0, <1>4, <2>1, UpdateEnds DEF CloseAborted
  <2>. QED  BY <1>1, <1>4, <2>2 DEF CloseAborted
<1>5. CASE Reserve(h)
  <2>. SUFFICES ASSUME NEW d \in Detail, Busy(d)', d \notin lost'
                PROVE  RequestOf(d)' \/ QueuedFor(d)' \/ WorkedOn(d)'
    BY DEF BusyRowHasOwner
  <2>1. reqs'[h].pc = "enqueue" /\ reqs'[h].detail = reqs[h].detail
        /\ \A g \in Handler : g # h => reqs'[g] = reqs[g]
    BY <1>0, <1>5 DEF Reserve, Goto, Request
  <2>2. CASE d = reqs[h].detail
    BY <2>1, <2>2 DEF RequestOf
  <2>3. CASE d # reqs[h].detail
    <3>1. Busy(d) /\ d \notin lost
      BY <1>0, <1>5, <2>3 DEF Reserve, UpdateById, Busy
    <3>2. RequestOf(d) \/ QueuedFor(d) \/ WorkedOn(d)
      BY <3>1 DEF BusyRowHasOwner
    <3>. QED  BY <1>5, <2>1, <2>3, <3>2 DEF Reserve, RequestOf, QueuedFor, WorkedOn
  <2>. QED  BY <2>2, <2>3
<1>6. CASE Enqueue(h)
  BY <1>6, EnqueueKeepsOwners
<1>. QED  BY <1>2, <1>3, <1>4, <1>5, <1>6 DEF RequestStep

LEMMA WorkerKeepsOwners ==
  ASSUME TypeInv, BusyRowHasOwner, NEW w \in Slot, WorkerStep(w) \/ DbError(w)
  PROVE  BusyRowHasOwner'
<1>0. worker \in [Slot -> PoolThread] /\ detail \in [Detail -> Row]
  BY DEF TypeInv, WorkersOK
<1>1. CASE TakeTask(w)
  BY <1>1, TakeTaskKeepsOwners
(* The thread goes on with its row. *)
<1>2. CASE \/ Register(w) \/ RecordThread(w) \/ ApplyImage(w) \/ CheckHealth(w)
           \/ Round(w) \/ (PreCheck(w) /\ Become(w, "apply"))
  <2>1. /\ worker'[w].pc \in WorkPc /\ worker'[w].detail = worker[w].detail
        /\ \A v \in Slot : v # w => worker'[v] = worker[v]
    BY <1>0, <1>2 DEF Register, RecordThread, ApplyImage, CheckHealth, Round,
       Become, Fail, Result, PoolThread, WorkPc
  <2>2. \A d \in Detail : Busy(d)' => Busy(d)
    BY <1>0, <1>2 DEF Register, RecordThread, ApplyImage, CheckHealth, Round,
       PreCheck, Busy, Row
  <2>3. UNCHANGED <<reqs, queue>> /\ lost \subseteq lost'
    BY <1>2 DEF Register, RecordThread, ApplyImage, CheckHealth, Round, PreCheck
  <2>. QED  BY <2>1, <2>2, <2>3, WorkerKeepsOrEnds
(* The task is lost. *)
<1>3. CASE (PreCheck(w) /\ AfterTask(w)) \/ DbError(w)
  <2>1. \A v \in Slot : v # w => worker'[v] = worker[v]
    BY <1>0, <1>3 DEF PreCheck, AfterTask, DbError
  <2>2. worker[w].detail \in lost'
    BY <1>0, <1>3 DEF PreCheck, AfterTask, DbError, Become, AtRest, PoolThread
  <2>3. UNCHANGED <<detail, reqs, queue>> /\ lost \subseteq lost'
    BY <1>3 DEF PreCheck, DbError
  <2>. QED  BY <2>1, <2>2, <2>3, WorkerKeepsOrEnds DEF Busy
(* The result is written. *)
<1>4. CASE Finish(w)
  <2>1. worker[w].detail \in Detail /\ worker[w].result \in Status \ Running
    BY <1>0, <1>4 DEF Finish, At, TypeInv, WorkersOK, PoolThread, WorkPc,
       Succeeded, Failed, Running
  <2>2. /\ \A d \in Detail : worker[w].detail = d => ~Busy(d)'
        /\ \A d \in Detail : Busy(d)' => Busy(d)
    BY <1>0, <1>4, <2>1, UpdateEnds DEF Finish
  <2>3. UNCHANGED <<reqs, queue, lost>> /\ \A v \in Slot : v # w => worker'[v] = worker[v]
    BY <1>0, <1>4 DEF Finish, AfterTask
  <2>. QED  BY <2>2, <2>3, WorkerKeepsOrEnds
<1>5. CASE Unregister(w)
  <2>1. \A v \in Slot : v # w => worker'[v] = worker[v]
    BY <1>0, <1>5 DEF Unregister
  <2>. QED  BY <1>5, <2>1, WorkerKeepsOrEnds DEF Unregister, At, WorkPc, Busy
<1>6. PreCheck(w) => Become(w, "apply") \/ AfterTask(w)
  BY DEF PreCheck
<1>7. CASE PreCheck(w)
  BY <1>2, <1>3, <1>6, <1>7
<1>8. CASE DbError(w)
  BY <1>3, <1>8
<1>9. CASE Register(w) \/ RecordThread(w) \/ ApplyImage(w) \/ CheckHealth(w) \/ Round(w)
  BY <1>2, <1>9
<1>. QED  BY <1>1, <1>4, <1>5, <1>7, <1>8, <1>9 DEF WorkerStep

LEMMA BusyRowHasOwnerStep ==
  TypeInv /\ BusyRowHasOwner /\ [Next]_vars => BusyRowHasOwner'
<1>. SUFFICES ASSUME TypeInv, BusyRowHasOwner, [Next]_vars PROVE BusyRowHasOwner'
  OBVIOUS
<1>1. ASSUME NEW h \in Handler, NewRequest(h) PROVE BusyRowHasOwner'
  <2>1. UNCHANGED <<detail, queue, worker, lost>>
    BY <1>1 DEF NewRequest, SubmitToDeploy, ApproveToDeploy, SubmitToRollback,
                Delete, AbortDeployment
  <2>2. \A g \in Handler : reqs[g].pc = "enqueue" => reqs'[g] = reqs[g]
    BY <1>1 DEF NewRequest, SubmitToDeploy, ApproveToDeploy, SubmitToRollback,
                Delete, AbortDeployment, MayStart, StartOn, IdleReq, TypeInv, RequestsOK
  <2>. QED  BY <2>1, <2>2, OwnersKept DEF Busy
<1>2. CASE RemoteStep \/ ClusterStep \/ UNCHANGED vars
  <2>1. UNCHANGED <<detail, reqs, queue, worker, lost>>
    BY <1>2 DEF RemoteStep, QueryAborted, LookUpThread, Interrupt, ClusterStep, RollOut,
     vars
  <2>. QED  BY <2>1, OwnersKept DEF Busy
<1>. QED
  BY <1>1, <1>2, RequestKeepsOwners, WorkerKeepsOwners, CrashKeepsOwners DEF Next

(* A running row has a request, a waiting task or a pool thread that will  *)
(* still write its result, or its task was rejected by the pool, cut off   *)
(* by a crash or a database error, or interrupted before it began: there   *)
(* is no other way to block an environment.                                *)
THEOREM BusyRowsHaveOwners == Spec => []BusyRowHasOwner
<1>1. Init => BusyRowHasOwner
  BY DEF Init, BusyRowHasOwner, Busy, NoRow, Running
<1>. QED  BY <1>1, TypeInvHolds, BusyRowHasOwnerStep, PTL DEF Spec

----------------------------------------------------------------------------
(***************************************************************************)
(* Part 2.  While users never send two requests on one environment at once,*)
(* the statuses of the deployment history rows work as a lock on the       *)
(* environment, for every value of the other constants:                    *)
(* DeploymentLifecycle with Serialized = TRUE implements EnvReservation.   *)
(***************************************************************************)

(* The inductive invariant. A request reads the rows in one step and       *)
(* relies on what it read in later ones; these conjuncts say what stays    *)
(* true in between.                                                        *)

Exists(d) == detail[d].status # "NONE"

(* No two requests in progress are on the same environment. *)
OneRequestPerEnv ==
  \A g, h \in Handler :
    reqs[g].pc # "idle" /\ reqs[h].pc # "idle" /\ reqs[g].env = reqs[h].env => g = h

(* A row about to be inserted does not exist, and no two inserts make the  *)
(* same row.                                                               *)
InsertsAreNew ==
  /\ \A h \in Handler : reqs[h].pc = "add" => ~Exists(reqs[h].detail)
  /\ \A g, h \in Handler :
       reqs[g].pc = "add" /\ reqs[h].pc = "add" /\ reqs[g].detail = reqs[h].detail
         => g = h

(* Any other request is on a row of its environment. *)
RequestsMatchRows ==
  \A h \in Handler :
    reqs[h].pc \notin {"idle", "add"} =>
      Exists(reqs[h].detail) /\ detail[reqs[h].detail].env = reqs[h].env

(* The rows of the tasks exist. *)
TasksHaveRows ==
  /\ \A s \in Server : \A i \in DOMAIN queue[s] : Exists(queue[s][i].detail)
  /\ \A w \in Slot : worker[w].pc \in WorkPc => Exists(worker[w].detail)

(* A request that is about to reserve its environment has found it free,   *)
(* and it still is.                                                        *)
ReserveFindsFree ==
  \A h \in Handler :
    reqs[h].pc = "reserve" =>
      \A d \in Detail : Busy(d) => detail[d].env # reqs[h].env

LockInv ==
  /\ OneRequestPerEnv /\ InsertsAreNew /\ RequestsMatchRows /\ TasksHaveRows
  /\ ReserveFindsFree /\ EnvExclusive

LEMMA InitLockInv == Init => LockInv
BY DEF Init, LockInv, OneRequestPerEnv, InsertsAreNew, RequestsMatchRows,
       TasksHaveRows, ReserveFindsFree, EnvExclusive, IdleReq, NoRow, AtRest,
       WorkPc, Busy, Running

----------------------------------------------------------------------------
(* What one step does to the rows.                                         *)

(* Most steps leave the rows alone.                                        *)
LEMMA WhoWritesRows ==
  ASSUME [Next]_vars
  PROVE  \/ UNCHANGED detail
         \/ \E h \in Handler : \/ AddRow(h) \/ AskApproval(h) \/ Reserve(h)
                               \/ RemoveRow(h) \/ CloseAborted(h)
         \/ \E w \in Slot : RecordThread(w) \/ Finish(w)
<1>1. ASSUME NEW h \in Handler, NewRequest(h) PROVE UNCHANGED detail
  BY <1>1 DEF NewRequest, SubmitToDeploy, ApproveToDeploy, SubmitToRollback,
              Delete, AbortDeployment
<1>2. ASSUME NEW h \in Handler, CheckEnv(h) \/ Enqueue(h) \/ PostAbort(h)
      PROVE  UNCHANGED detail
  BY <1>2 DEF CheckEnv, Enqueue, PostAbort
<1>3. RemoteStep \/ ClusterStep => UNCHANGED detail
  BY DEF RemoteStep, QueryAborted, LookUpThread, Interrupt, ClusterStep, RollOut
<1>4. ASSUME NEW w \in Slot,
             \/ TakeTask(w) \/ Register(w) \/ PreCheck(w) \/ ApplyImage(w)
             \/ CheckHealth(w) \/ Round(w) \/ Unregister(w) \/ DbError(w)
      PROVE  UNCHANGED detail
  BY <1>4 DEF TakeTask, Register, PreCheck, ApplyImage, CheckHealth, Round,
              Unregister, DbError
<1>5. ASSUME NEW s \in Server, Crash(s) PROVE UNCHANGED detail
  BY <1>5 DEF Crash
<1>6. UNCHANGED vars => UNCHANGED detail
  BY DEF vars
<1>. QED
  BY <1>1, <1>2, <1>3, <1>4, <1>5, <1>6 DEF Next, RequestStep, WorkerStep

(* Only the row c of the step changes. *)
OnlyRow(c) == \A d \in Detail : d # c => detail'[d] = detail[d]

(* A step inserts the row of an insert, reserves the environment of a row  *)
(* that exists, or writes rows that exist, makes none of them running and  *)
(* moves none to another environment.                                      *)
LEMMA HowRowsChange ==
  ASSUME TypeInv, LockInv, [Next]_vars
  PROVE  \/ \E h \in Handler :
              /\ AddRow(h) /\ OnlyRow(reqs[h].detail)
              /\ detail'[reqs[h].detail].env = reqs[h].env
              /\ detail'[reqs[h].detail].status = "DEPLOYING_APPROVAL"
         \/ \E h \in Handler :
              /\ Reserve(h) /\ OnlyRow(reqs[h].detail)
              /\ detail'[reqs[h].detail].env = reqs[h].env
              /\ detail'[reqs[h].detail].status # "NONE"
         \/ \E c \in Detail :
              /\ OnlyRow(c)
              /\ Busy(c)' => Busy(c)
              /\ detail'[c].env = detail[c].env
              /\ Exists(c) <=> Exists(c)'
         \/ UNCHANGED detail
<1>. USE DEF OnlyRow
<1>0. detail \in [Detail -> Row] /\ reqs \in [Handler -> Request]
      /\ worker \in [Slot -> PoolThread]
  BY DEF TypeInv, RequestsOK, WorkersOK
<1>1. ASSUME NEW h \in Handler, reqs[h].pc # "idle" PROVE reqs[h].detail \in Detail
  BY <1>1 DEF TypeInv, RequestsOK
<1>2. ASSUME NEW h \in Handler, reqs[h].pc \notin {"idle", "add"}
      PROVE  Exists(reqs[h].detail) /\ detail[reqs[h].detail].env = reqs[h].env
  BY <1>2 DEF LockInv, RequestsMatchRows
<1>3. ASSUME NEW h \in Handler, AddRow(h)
      PROVE  /\ OnlyRow(reqs[h].detail)
             /\ detail'[reqs[h].detail].env = reqs[h].env
             /\ detail'[reqs[h].detail].status = "DEPLOYING_APPROVAL"
  BY <1>0, <1>1, <1>3 DEF AddRow
<1>4. ASSUME NEW h \in Handler, Reserve(h)
      PROVE  /\ OnlyRow(reqs[h].detail)
             /\ detail'[reqs[h].detail].env = reqs[h].env
             /\ detail'[reqs[h].detail].status # "NONE"
  BY <1>0, <1>1, <1>2, <1>4 DEF Reserve, UpdateById, Row, RunningStatus, Exists
<1>. DEFINE Goal(c) == /\ OnlyRow(c)
                       /\ Busy(c)' => Busy(c)
                       /\ detail'[c].env = detail[c].env
                       /\ Exists(c) <=> Exists(c)'
<1>5. ASSUME NEW h \in Handler, AskApproval(h) \/ RemoveRow(h)
      PROVE  \E c \in Detail : Goal(c)
  <2>. DEFINE c == reqs[h].detail
  <2>1. c \in Detail /\ Exists(c)
    BY <1>1, <1>2, <1>5 DEF AskApproval, RemoveRow
  <2>2. PICK d \in Detail : d = c
    BY <2>1
  <2>3. Goal(d)
    BY <1>0, <1>5, <2>1, <2>2 DEF AskApproval, RemoveRow, Row, Exists, Busy, Running
  <2>. QED  BY <2>3
<1>6. ASSUME NEW c \in Detail, NEW s \in Status \ (Running \cup {"NONE"}),
             Exists(c), UpdateById(c, s)
      PROVE  Goal(c)
  BY <1>0, <1>6 DEF UpdateById, Row, Exists, Busy
<1>7. ASSUME NEW h \in Handler, CloseAborted(h) PROVE \E c \in Detail : Goal(c)
  <2>1. PICK c \in Detail : c = reqs[h].detail
    BY <1>1, <1>7 DEF CloseAborted
  <2>2. FailedStatus(reqs[h].kind) \in Status \ (Running \cup {"NONE"})
    BY DEF FailedStatus, Status, Failed, Running
  <2>. QED  BY <1>2, <1>6, <1>7, <2>1, <2>2 DEF CloseAborted
<1>8. ASSUME NEW w \in Slot, Finish(w) PROVE \E c \in Detail : Goal(c)
  <2>1. PICK c \in Detail : c = worker[w].detail
    BY <1>8 DEF Finish, At, TypeInv, WorkersOK, WorkPc
  <2>2. worker[w].result \in Status \ (Running \cup {"NONE"})
    BY <1>8 DEF Finish, At, TypeInv, WorkersOK, Status, Succeeded, Failed, Running
  <2>3. Exists(c)
    BY <1>8, <2>1 DEF Finish, At, LockInv, TasksHaveRows, WorkPc
  <2>. QED  BY <1>6, <1>8, <2>1, <2>2, <2>3 DEF Finish
<1>9. ASSUME NEW w \in Slot, RecordThread(w) PROVE \E c \in Detail : Goal(c)
  <2>1. PICK c \in Detail : c = worker[w].detail
    BY <1>9 DEF RecordThread, At, TypeInv, WorkersOK, WorkPc
  <2>. QED  BY <1>0, <1>9, <2>1 DEF RecordThread, Row, Busy, Exists
<1>. QED  BY <1>3, <1>4, <1>5, <1>7, <1>8, <1>9, WhoWritesRows

(* A row never ceases to exist or changes its environment, and only an     *)
(* insert makes one.                                                       *)
LEMMA RowsStay ==
  ASSUME TypeInv, LockInv, [Next]_vars, NEW d \in Detail
  PROVE  /\ Exists(d) => Exists(d)' /\ detail'[d].env = detail[d].env
         /\ ~Exists(d) /\ Exists(d)' => \E h \in Handler : AddRow(h) /\ reqs[h].detail = d
<1>1. ASSUME NEW h \in Handler, AddRow(h), reqs[h].detail = d PROVE ~Exists(d)
  BY <1>1 DEF AddRow, LockInv, InsertsAreNew
<1>2. ASSUME NEW h \in Handler, Reserve(h), reqs[h].detail = d
      PROVE  Exists(d) /\ reqs[h].env = detail[d].env
  BY <1>2 DEF Reserve, LockInv, RequestsMatchRows
<1>. QED
  BY <1>1, <1>2, HowRowsChange DEF OnlyRow, Exists

----------------------------------------------------------------------------
(* What one step does to the requests.                                     *)

(* A request of handler h begins: with an insert, or on a row that exists. *)
Begins(h) ==
  /\ UNCHANGED <<detail, queue, worker>>
  /\ \A g \in Handler : g # h => reqs'[g] = reqs[g]
  /\ Serialized => \A g \in Handler : reqs[g].env # reqs'[h].env
  /\ \/ /\ reqs'[h].pc = "add"
        /\ ~Exists(reqs'[h].detail)
        /\ \A g \in Handler : reqs[g].detail # reqs'[h].detail
     \/ /\ reqs'[h].pc \notin {"idle", "add", "reserve", "enqueue"}
        /\ Exists(reqs'[h].detail)
        /\ detail[reqs'[h].detail].env = reqs'[h].env

(* It goes on: an insert is over, and what comes next was validated.       *)
GoesOn(h) ==
  /\ reqs[h].pc # "idle" /\ reqs'[h].pc \notin {"idle", "add"}
  /\ reqs'[h].env = reqs[h].env /\ reqs'[h].detail = reqs[h].detail
  /\ reqs[h].pc = "add" => AddRow(h)
  /\ reqs'[h].pc = "reserve" => UNCHANGED detail /\ BusyRows(reqs[h].env) = {}

LEMMA RequestMoves ==
  ASSUME TypeInv, [Next]_vars, NEW h \in Handler
  PROVE  reqs'[h] = reqs[h] \/ reqs'[h].pc = "idle" \/ Begins(h) \/ GoesOn(h)
<1>0. reqs \in [Handler -> Request] /\ detail \in [Detail -> Row]
  BY DEF TypeInv, RequestsOK
<1>1. ASSUME NEW s \in Server, NEW d \in Detail, NEW p \in ReqPc, NEW k \in Kind,
             NEW op, MayStart(h, op, detail[d].env), StartOn(h, s, d, p, k), Visible(d),
             UNCHANGED <<detail, queue, worker>>,
             p \notin {"idle", "add", "reserve", "enqueue"}
      PROVE  Begins(h)
  BY <1>0, <1>1 DEF Begins, MayStart, StartOn, Visible, Exists, Row
<1>2. ASSUME NewRequest(h) PROVE Begins(h)
  <2>1. ASSUME NEW s \in Server, NEW e \in Env, NEW d \in Detail,
               SubmitToDeploy(h, s, e, d)
        PROVE  Begins(h)
    BY <1>0, <2>1 DEF SubmitToDeploy, Begins, MayStart, Exists
  <2>2. ASSUME NEW s \in Server, NEW d \in Detail, ApproveToDeploy(h, s, d)
        PROVE  Begins(h)
    BY <1>1, <2>2 DEF ApproveToDeploy, ReqPc, Kind
  <2>3. ASSUME NEW s \in Server, NEW d \in Detail, SubmitToRollback(h, s, d)
        PROVE  Begins(h)
    <3>. DEFINE p == IF detail[d].env \in ApprovalEnv THEN "ask" ELSE "check"
    <3>1. StartOn(h, s, d, p, "rollback") /\ MayStart(h, "rollback", detail[d].env)
          /\ Visible(d) /\ UNCHANGED <<detail, queue, worker>>
      BY <2>3 DEF SubmitToRollback
    <3>. QED  BY <1>1, <3>1 DEF ReqPc, Kind
  <2>4. ASSUME NEW s \in Server, NEW d \in Detail, Delete(h, s, d)
        PROVE  Begins(h)
    BY <1>1, <2>4 DEF Delete, ReqPc, Kind
  <2>5. ASSUME NEW s \in Server, NEW d \in Detail, AbortDeployment(h, s, d)
        PROVE  Begins(h)
    <3>. DEFINE k == IF detail[d].status = "DEPLOYING" THEN "deploy" ELSE "rollback"
    <3>1. StartOn(h, s, d, "post", k) /\ MayStart(h, "abort", detail[d].env)
          /\ Visible(d) /\ UNCHANGED <<detail, queue, worker>>
      BY <2>5 DEF AbortDeployment
    <3>. QED  BY <1>1, <3>1 DEF ReqPc, Kind
  <2>. QED  BY <1>2, <2>1, <2>2, <2>3, <2>4, <2>5 DEF NewRequest
<1>3. Reply(h) => reqs'[h].pc = "idle"
  BY <1>0 DEF Reply, IdleReq
<1>4. ASSUME NEW p \in {"check", "reserve", "enqueue", "close"}, Goto(h, p),
             reqs[h].pc # "idle", reqs[h].pc = "add" => AddRow(h),
             p = "reserve" => UNCHANGED detail /\ BusyRows(reqs[h].env) = {}
      PROVE  GoesOn(h)
  BY <1>0, <1>4 DEF GoesOn, Goto, Request
<1>5. RequestStep(h) => reqs'[h].pc = "idle" \/ GoesOn(h)
  BY <1>3, <1>4 DEF RequestStep, AddRow, AskApproval, CheckEnv, Reserve, Enqueue,
     RemoveRow, PostAbort, CloseAborted
<1>6. ASSUME NEW g \in Handler, g # h, NewRequest(g) PROVE reqs'[h] = reqs[h]
  BY <1>0, <1>6 DEF NewRequest, SubmitToDeploy, ApproveToDeploy, SubmitToRollback,
     Delete, AbortDeployment, StartOn
<1>7. ASSUME NEW g \in Handler, g # h, RequestStep(g) PROVE reqs'[h] = reqs[h]
  BY <1>0, <1>7 DEF RequestStep, AddRow, AskApproval, CheckEnv, Reserve, Enqueue,
     RemoveRow, PostAbort, CloseAborted, Reply, Goto
<1>8. ASSUME NEW w \in Slot, WorkerStep(w) \/ DbError(w) PROVE reqs' = reqs
  BY <1>8 DEF WorkerStep, DbError, TakeTask, Register, RecordThread, PreCheck,
     ApplyImage, CheckHealth, Round, Finish, Unregister
<1>9. RemoteStep \/ ClusterStep \/ UNCHANGED vars => reqs' = reqs
  BY DEF RemoteStep, QueryAborted, LookUpThread, Interrupt, ClusterStep, RollOut,
     vars
<1>10. ASSUME NEW s \in Server, Crash(s)
       PROVE  reqs'[h] = reqs[h] \/ reqs'[h].pc = "idle"
  BY <1>10 DEF Crash, IdleReq
<1>. QED
  BY <1>2, <1>5, <1>6, <1>7, <1>8, <1>9, <1>10 DEF Next

----------------------------------------------------------------------------
(* The invariant is kept.                                                  *)

LEMMA LockInvStep ==
  ASSUME Serialized, TypeInv, LockInv, [Next]_vars
  PROVE  LockInv'
<1>. USE DEF LockInv
<1>0. /\ \A h \in Handler : reqs'[h] = reqs[h] \/ reqs'[h].pc = "idle" \/ Begins(h) \/ GoesOn(h)
      /\ \A h \in Handler : reqs[h].pc # "idle" => reqs[h].detail \in Detail
      /\ \A h \in Handler : reqs'[h].pc # "idle" => reqs'[h].detail \in Detail
  BY RequestMoves, NextTypeInv DEF TypeInv, RequestsOK
<1>1. OneRequestPerEnv'
  <2>. SUFFICES ASSUME NEW g \in Handler, NEW h \in Handler,
                       reqs'[g].pc # "idle", reqs'[h].pc # "idle",
                       reqs'[g].env = reqs'[h].env, g # h
                PROVE  FALSE
    BY DEF OneRequestPerEnv
  <2>1. ~Begins(g) /\ ~Begins(h)
    BY DEF Begins
  <2>2. /\ reqs[g].pc # "idle" /\ reqs[g].env = reqs'[g].env
        /\ reqs[h].pc # "idle" /\ reqs[h].env = reqs'[h].env
    BY <1>0, <2>1 DEF GoesOn
  <2>. QED  BY <2>2 DEF OneRequestPerEnv
<1>2. InsertsAreNew'
  <2>1. ASSUME NEW h \in Handler, reqs'[h].pc = "add", ~Begins(h)
        PROVE  reqs[h] = reqs'[h]
    BY <1>0, <2>1 DEF GoesOn
  <2>2. ASSUME NEW h \in Handler, reqs'[h].pc = "add" PROVE detail'[reqs'[h].detail].status = "NONE"
    <3>1. CASE Begins(h)
      BY <2>2, <3>1 DEF Begins, Exists
    <3>2. CASE ~Begins(h)
      <4>1. PICK d \in Detail : d = reqs[h].detail
        BY <1>0, <2>1, <2>2, <3>2
      <4>2. reqs[h].pc = "add" /\ ~Exists(d)
        BY <2>1, <2>2, <3>2, <4>1 DEF InsertsAreNew
      <4>3. ASSUME NEW g \in Handler, AddRow(g), reqs[g].detail = d PROVE FALSE
        <5>1. g = h
          BY <4>1, <4>2, <4>3 DEF AddRow, InsertsAreNew
        <5>2. reqs'[h].pc # "add"
          BY <4>3, <5>1 DEF AddRow, Reply, Goto, IdleReq, TypeInv, RequestsOK, Request
        <5>. QED  BY <2>2, <5>2
      <4>4. ~Exists(d)'
        BY <4>2, <4>3, RowsStay
      <4>. QED  BY <2>1, <2>2, <3>2, <4>1, <4>4 DEF Exists
    <3>. QED  BY <3>1, <3>2
  <2>3. ASSUME NEW g \in Handler, NEW h \in Handler,
               reqs'[g].pc = "add", reqs'[h].pc = "add",
               reqs'[g].detail = reqs'[h].detail, g # h
        PROVE  FALSE
    <3>1. CASE Begins(g) \/ Begins(h)
      BY <2>3, <3>1 DEF Begins
    <3>2. CASE ~Begins(g) /\ ~Begins(h)
      BY <2>1, <2>3, <3>2 DEF InsertsAreNew
    <3>. QED  BY <3>1, <3>2
  <2>. QED  BY <2>2, <2>3 DEF InsertsAreNew, Exists
<1>3. RequestsMatchRows'
  <2>. SUFFICES ASSUME NEW h \in Handler, reqs'[h].pc \notin {"idle", "add"}
                PROVE  detail'[reqs'[h].detail].status # "NONE"
                       /\ detail'[reqs'[h].detail].env = reqs'[h].env
    BY DEF RequestsMatchRows, Exists
  <2>1. CASE Begins(h)
    BY <2>1 DEF Begins, Exists
  <2>2. CASE AddRow(h) /\ GoesOn(h)
    <3>1. reqs[h].detail \in Detail
      BY <1>0, <2>2 DEF AddRow
    <3>. QED  BY <2>2, <3>1 DEF AddRow, GoesOn, TypeInv
  <2>3. CASE reqs[h].pc \notin {"idle", "add"} /\ reqs'[h].detail = reqs[h].detail
             /\ reqs'[h].env = reqs[h].env
    <3>1. PICK d \in Detail : d = reqs[h].detail
      BY <1>0, <2>3
    <3>2. Exists(d) /\ detail[d].env = reqs[h].env
      BY <2>3, <3>1 DEF RequestsMatchRows
    <3>3. Exists(d)' /\ detail'[d].env = detail[d].env
      BY <3>2, RowsStay
    <3>. QED  BY <2>3, <3>1, <3>2, <3>3 DEF Exists
  <2>. QED  BY <1>0, <2>1, <2>2, <2>3 DEF GoesOn
<1>4. TasksHaveRows'
  <2>. DEFINE Has(d) == d \in Detail /\ Exists(d)
  <2>0. /\ \A s \in Server : queue[s] \in Seq(Task)
        /\ worker \in [Slot -> PoolThread] /\ queue \in [Server -> Seq(Task)]
    BY DEF TypeInv, PoolOK, WorkersOK
  <2>1. \A s \in Server : \A i \in DOMAIN queue[s] : Has(queue[s][i].detail)
    <3>. SUFFICES ASSUME NEW s \in Server, NEW i \in DOMAIN queue[s]
                  PROVE  Has(queue[s][i].detail)
      OBVIOUS
    <3>1. queue[s][i] \in Task
      BY <2>0
    <3>. QED  BY <3>1 DEF Task, TasksHaveRows
  <2>2. \A w \in Slot : worker[w].pc \in WorkPc => Has(worker[w].detail)
    BY DEF TypeInv, WorkersOK, TasksHaveRows
  <2>3. ASSUME NEW d, Has(d) PROVE detail'[d].status # "NONE"
    BY <2>3, RowsStay DEF Exists
  <2>4. ASSUME NEW h \in Handler, Enqueue(h) PROVE TasksHaveRows'
    <3>. DEFINE s == reqs[h].srv
                task == [detail |-> reqs[h].detail, kind |-> reqs[h].kind]
    <3>1. Has(task.detail) /\ s \in Server /\ task \in Task
      BY <1>0, <2>4 DEF Enqueue, RequestsMatchRows, TypeInv, RequestsOK, Request, Task
    <3>2. \A w \in Slot : worker'[w].pc \in WorkPc => Has(worker'[w].detail)
      <4>1. CASE \E t \in Thread : worker' = [worker EXCEPT ![<<s, t>>] = Begin(task)]
        <5>1. PICK t \in Thread : worker' = [worker EXCEPT ![<<s, t>>] = Begin(task)]
          BY <4>1
        <5>2. <<s, t>> \in Slot /\ worker'[<<s, t>>].detail = task.detail
          BY <2>0, <3>1, <5>1 DEF Slot, Begin
        <5>3. \A w \in Slot : w # <<s, t>> => worker'[w] = worker[w]
          BY <2>0, <5>1
        <5>. QED  BY <2>2, <3>1, <5>2, <5>3
      <4>2. CASE UNCHANGED worker
        BY <2>2, <4>2
      <4>. QED  BY <2>4, <4>1, <4>2 DEF Enqueue
    <3>3. ASSUME NEW r \in Server, NEW i \in DOMAIN queue'[r]
          PROVE  Has(queue'[r][i].detail)
      <4>1. CASE queue' = [queue EXCEPT ![s] = Append(@, task)] /\ r = s
        <5>1. CASE i = Len(queue[s]) + 1
          BY <2>0, <3>1, <4>1, <5>1
        <5>2. CASE i # Len(queue[s]) + 1
          <6>1. i \in DOMAIN queue[s] /\ queue'[r][i] = queue[s][i]
            BY <2>0, <3>1, <3>3, <4>1, <5>2
          <6>. QED  BY <2>1, <3>1, <6>1
        <5>. QED  BY <5>1, <5>2
      <4>2. CASE queue'[r] = queue[r]
        BY <2>1, <3>3, <4>2
      <4>. QED  BY <2>0, <2>4, <4>1, <4>2 DEF Enqueue
    <3>. QED  BY <2>3, <3>2, <3>3 DEF TasksHaveRows, Exists
  <2>5. ASSUME NEW w \in Slot, TakeTask(w) PROVE TasksHaveRows'
    <3>. DEFINE s == w[1]
    <3>1. s \in Server /\ queue[s] # <<>> /\ 1 \in DOMAIN queue[s]
      BY <2>0, <2>5 DEF TakeTask, Slot
    <3>2. worker'[w].detail = queue[s][1].detail
          /\ \A v \in Slot : v # w => worker'[v] = worker[v]
      BY <2>0, <2>5, <3>1 DEF TakeTask, Begin
    <3>3. \A v \in Slot : worker'[v].pc \in WorkPc => Has(worker'[v].detail)
      BY <2>1, <2>2, <3>1, <3>2
    <3>4. ASSUME NEW r \in Server, NEW i \in DOMAIN queue'[r]
          PROVE  Has(queue'[r][i].detail)
      <4>1. CASE r = s
        <5>1. i + 1 \in DOMAIN queue[s] /\ queue'[r][i] = queue[s][i + 1]
          BY <2>0, <2>5, <3>1, <3>4, <4>1 DEF TakeTask
        <5>. QED  BY <2>1, <3>1, <5>1
      <4>2. CASE r # s
        BY <2>0, <2>1, <2>5, <3>4, <4>2 DEF TakeTask
      <4>. QED  BY <4>1, <4>2
    <3>. QED  BY <2>3, <3>3, <3>4 DEF TasksHaveRows, Exists
  <2>6. ASSUME UNCHANGED queue,
               \A w \in Slot : worker'[w].pc \in WorkPc =>
                 worker[w].pc \in WorkPc /\ worker'[w].detail = worker[w].detail
        PROVE  TasksHaveRows'
    BY <2>1, <2>2, <2>3, <2>6 DEF TasksHaveRows, Exists
  <2>7. ASSUME NEW w \in Slot, WorkerStep(w) \/ DbError(w) PROVE TakeTask(w) \/ TasksHaveRows'
    <3>1. ASSUME UNCHANGED queue, \A v \in Slot : v # w => worker'[v] = worker[v],
                 worker'[w].pc \in WorkPc =>
                   worker[w].pc \in WorkPc /\ worker'[w].detail = worker[w].detail
          PROVE  TasksHaveRows'
      BY <2>6, <3>1
    <3>2. CASE Register(w) \/ RecordThread(w) \/ ApplyImage(w) \/ CheckHealth(w) \/ Round(w)
      <4>1. worker'[w].detail = worker[w].detail
            /\ \A v \in Slot : v # w => worker'[v] = worker[v]
        BY <2>0, <3>2 DEF Register, RecordThread, ApplyImage, CheckHealth, Round,
           Become, Fail, Result, PoolThread
      <4>2. worker[w].pc \in WorkPc /\ UNCHANGED queue
        BY <3>2 DEF Register, RecordThread, ApplyImage, CheckHealth, Round, At, WorkPc
      <4>. QED  BY <3>1, <4>1, <4>2
    <3>3. CASE PreCheck(w) /\ Become(w, "apply")
      <4>1. worker'[w].detail = worker[w].detail
            /\ \A v \in Slot : v # w => worker'[v] = worker[v]
        BY <2>0, <3>3 DEF Become, PoolThread
      <4>. QED  BY <3>1, <3>3, <4>1 DEF PreCheck, At, WorkPc
    <3>4. CASE UNCHANGED queue /\ (AfterTask(w) \/ worker' = [worker EXCEPT ![w] = AtRest("idle")])
      <4>1. worker'[w].pc \notin WorkPc /\ \A v \in Slot : v # w => worker'[v] = worker[v]
        BY <2>0, <3>4 DEF AfterTask, AtRest, WorkPc
      <4>. QED  BY <3>1, <3>4, <4>1
    <3>5. CASE Finish(w) \/ Unregister(w) \/ DbError(w)
      BY <3>4, <3>5 DEF Finish, Unregister, DbError
    <3>6. PreCheck(w) => Become(w, "apply") \/ (UNCHANGED queue /\ AfterTask(w))
      BY DEF PreCheck
    <3>. QED  BY <2>7, <3>2, <3>3, <3>4, <3>5, <3>6 DEF WorkerStep
  <2>8. ASSUME NEW s \in Server, Crash(s) PROVE TasksHaveRows'
    <3>1. \A w \in Slot : worker'[w].pc \in WorkPc => Has(worker'[w].detail)
      BY <2>2, <2>8 DEF Crash, AtRest, WorkPc
    <3>2. \A r \in Server : \A i \in DOMAIN queue'[r] : Has(queue'[r][i].detail)
      BY <2>0, <2>1, <2>8 DEF Crash
    <3>. QED  BY <2>3, <3>1, <3>2 DEF TasksHaveRows, Exists
  <2>9. ASSUME NEW h \in Handler, NewRequest(h) PROVE UNCHANGED <<queue, worker>>
    BY <2>9 DEF NewRequest, SubmitToDeploy, ApproveToDeploy, SubmitToRollback,
       Delete, AbortDeployment
  <2>10. ASSUME NEW h \in Handler, RequestStep(h)
         PROVE  Enqueue(h) \/ UNCHANGED <<queue, worker>>
    BY <2>10 DEF RequestStep, AddRow, AskApproval, CheckEnv, Reserve, RemoveRow,
       PostAbort, CloseAborted
  <2>11. RemoteStep \/ ClusterStep \/ UNCHANGED vars => UNCHANGED <<queue, worker>>
    BY DEF RemoteStep, QueryAborted, LookUpThread, Interrupt, ClusterStep, RollOut,
     vars
  <2>. QED
    BY <2>4, <2>5, <2>6, <2>7, <2>8, <2>9, <2>10, <2>11 DEF Next
<1>5. ASSUME NEW h \in Handler, Reserve(h), NEW d \in Detail, Busy(d),
             detail[d].env = reqs[h].env
      PROVE  FALSE
  BY <1>5 DEF Reserve, ReserveFindsFree
<1>6. ReserveFindsFree'
  <2>. SUFFICES ASSUME NEW h \in Handler, reqs'[h].pc = "reserve",
                       NEW d \in Detail, Busy(d)', detail'[d].env = reqs'[h].env
                PROVE  FALSE
    BY DEF ReserveFindsFree
  <2>1. ~Begins(h)
    BY DEF Begins
  <2>2. CASE GoesOn(h)
    BY <2>2 DEF GoesOn, BusyRows, Busy
  <2>3. CASE reqs'[h] = reqs[h]
    <3>1. ~(Busy(d) /\ detail[d].env = reqs[h].env)
      BY <2>3 DEF ReserveFindsFree
    <3>2. ASSUME NEW g \in Handler, AddRow(g), OnlyRow(reqs[g].detail),
                 detail'[reqs[g].detail].status = "DEPLOYING_APPROVAL"
          PROVE  FALSE
      BY <2>3, <3>1, <3>2 DEF OnlyRow, Busy, Running
    <3>3. ASSUME NEW g \in Handler, Reserve(g), OnlyRow(reqs[g].detail),
                 detail'[reqs[g].detail].env = reqs[g].env
          PROVE  FALSE
      <4>1. d = reqs[g].detail /\ reqs[g].env = reqs[h].env
        BY <2>3, <3>1, <3>3 DEF OnlyRow, Busy
      <4>2. g = h
        BY <2>3, <3>3, <4>1 DEF OneRequestPerEnv, Reserve
      <4>3. reqs'[g].pc = "enqueue"
        BY <3>3 DEF Reserve, Goto, TypeInv, RequestsOK, Request
      <4>. QED  BY <4>2, <4>3
    <3>4. ASSUME NEW c \in Detail, OnlyRow(c), Busy(c)' => Busy(c),
                 detail'[c].env = detail[c].env
          PROVE  FALSE
      BY <2>3, <3>1, <3>4 DEF OnlyRow, Busy
    <3>5. CASE UNCHANGED detail
      BY <2>3, <3>1, <3>5 DEF Busy
    <3>. QED  BY <3>2, <3>3, <3>4, <3>5, HowRowsChange
  <2>. QED  BY <1>0, <2>1, <2>2, <2>3
<1>7. EnvExclusive'
  <2>. SUFFICES ASSUME NEW c \in Detail, NEW d \in Detail, Busy(c)', Busy(d)',
                       detail'[c].env = detail'[d].env, c # d
                PROVE  FALSE
    BY DEF EnvExclusive
  <2>1. ASSUME NEW g \in Handler, AddRow(g), OnlyRow(reqs[g].detail),
               detail'[reqs[g].detail].status = "DEPLOYING_APPROVAL"
        PROVE  FALSE
    BY <2>1 DEF OnlyRow, Busy, Running, EnvExclusive
  <2>2. ASSUME NEW g \in Handler, Reserve(g), OnlyRow(reqs[g].detail),
               detail'[reqs[g].detail].env = reqs[g].env
        PROVE  FALSE
    <3>1. CASE c = reqs[g].detail
      BY <1>5, <2>2, <3>1 DEF OnlyRow, Busy
    <3>2. CASE d = reqs[g].detail
      BY <1>5, <2>2, <3>2 DEF OnlyRow, Busy
    <3>3. CASE c # reqs[g].detail /\ d # reqs[g].detail
      BY <2>2, <3>3 DEF OnlyRow, Busy, EnvExclusive
    <3>. QED  BY <3>1, <3>2, <3>3
  <2>3. ASSUME NEW b \in Detail, OnlyRow(b), Busy(b)' => Busy(b),
               detail'[b].env = detail[b].env
        PROVE  FALSE
    BY <2>3 DEF OnlyRow, Busy, EnvExclusive
  <2>4. CASE UNCHANGED detail
    BY <2>4 DEF Busy, EnvExclusive
  <2>. QED  BY <2>1, <2>2, <2>3, <2>4, HowRowsChange
<1>. QED  BY <1>1, <1>2, <1>3, <1>4, <1>6, <1>7

LEMMA LockInvHolds == Serialized => (Spec => []LockInv)
<1>. SUFFICES ASSUME Serialized PROVE Spec => []LockInv
  OBVIOUS
<1>1. TypeInv /\ LockInv /\ [Next]_vars => LockInv'
  BY LockInvStep
<1>. QED  BY <1>1, InitLockInv, TypeInvHolds, PTL DEF Spec

(* While no two requests on one environment overlap, at most one row of an *)
(* environment is deploying or rolling back: what the query of             *)
(* checkAndBuildDeployContext is for.                                      *)
THEOREM OneRunningRowPerEnv == Serialized => (Spec => []EnvExclusive)
<1>. SUFFICES ASSUME Serialized PROVE Spec => []EnvExclusive
  OBVIOUS
<1>1. LockInv => EnvExclusive
  BY DEF LockInv
<1>. QED  BY <1>1, LockInvHolds, PTL

----------------------------------------------------------------------------
(* The refinement.                                                         *)

Holders == [e \in Env |-> BusyRows(e)]

LEMMA StepReserves ==
  ASSUME Serialized, TypeInv, LockInv, [Next]_vars
  PROVE  [Reservation!Next]_Holders
<1>. USE DEF Holders
<1>0. detail \in [Detail -> Row]
  BY DEF TypeInv
<1>1. ASSUME \A d \in Detail : (Busy(d)' <=> Busy(d))
                               /\ (Busy(d) => detail'[d].env = detail[d].env)
      PROVE  UNCHANGED Holders
  BY <1>1 DEF BusyRows
(* The row takes its environment. *)
<1>2. ASSUME NEW h \in Handler, Reserve(h), OnlyRow(reqs[h].detail),
             detail'[reqs[h].detail].env = reqs[h].env
      PROVE  [Reservation!Next]_Holders
  <2>. DEFINE e == reqs[h].env
  <2>1. PICK c \in Detail : c = reqs[h].detail
    BY <1>2 DEF Reserve, TypeInv, RequestsOK
  <2>2. detail[c].env = e /\ detail'[c].env = e
    BY <1>2, <2>1 DEF Reserve, LockInv, RequestsMatchRows
  <2>3. BusyRows(e) = {}
    BY <1>2 DEF Reserve, LockInv, ReserveFindsFree, BusyRows
  <2>4. \A d \in Detail : d # c => (Busy(d)' <=> Busy(d)) /\ detail'[d].env = detail[d].env
    BY <1>2, <2>1 DEF OnlyRow, Busy
  <2>5. CASE Busy(c)' /\ e \in Env
    <3>1. Holders' = [Holders EXCEPT ![e] = {c}]
      BY <2>2, <2>3, <2>4, <2>5 DEF BusyRows
    <3>. QED  BY <2>3, <2>5, <3>1 DEF Reservation!Next, Reservation!Acquire
  <2>6. CASE e \notin Env
    BY <2>2, <2>4, <2>6 DEF BusyRows
  <2>7. CASE ~Busy(c)'
    <3>1. ~Busy(c)
      BY <2>2, <2>3 DEF BusyRows
    <3>. QED  BY <1>1, <2>4, <2>7, <3>1
  <2>. QED  BY <2>5, <2>6, <2>7
(* The row keeps its environment or gives it up. *)
<1>3. ASSUME NEW c \in Detail, OnlyRow(c), Busy(c)' => Busy(c),
             Busy(c)' => detail'[c].env = detail[c].env
      PROVE  [Reservation!Next]_Holders
  <2>. DEFINE e == detail[c].env
  <2>1. \A d \in Detail : d # c => (Busy(d)' <=> Busy(d)) /\ detail'[d].env = detail[d].env
    BY <1>3 DEF OnlyRow, Busy
  <2>2. CASE Busy(c) <=> Busy(c)'
    BY <1>1, <1>3, <2>1, <2>2
  <2>3. CASE Busy(c) /\ ~Busy(c)' /\ e \in Env
    <3>1. BusyRows(e) = {c}
      BY <2>3 DEF BusyRows, LockInv, EnvExclusive
    <3>2. Holders' = [Holders EXCEPT ![e] = {}]
      BY <2>1, <2>3, <3>1 DEF BusyRows
    <3>. QED  BY <2>3, <3>1, <3>2 DEF Reservation!Next, Reservation!Release
  <2>4. CASE Busy(c) /\ ~Busy(c)' /\ e \notin Env
    BY <2>1, <2>4 DEF BusyRows
  <2>. QED  BY <1>3, <2>2, <2>3, <2>4
<1>4. ASSUME NEW h \in Handler, AddRow(h), OnlyRow(reqs[h].detail),
             detail'[reqs[h].detail].status = "DEPLOYING_APPROVAL"
      PROVE  [Reservation!Next]_Holders
  <2>1. PICK c \in Detail : c = reqs[h].detail
    BY <1>4 DEF AddRow, TypeInv, RequestsOK
  <2>2. ~Busy(c)'
    BY <1>4, <2>1 DEF Busy, Running
  <2>. QED  BY <1>3, <1>4, <2>1, <2>2
<1>5. CASE UNCHANGED detail
  BY <1>1, <1>5 DEF Busy
<1>. QED  BY <1>2, <1>3, <1>4, <1>5, HowRowsChange

(* While no two requests on one environment overlap, the deployment        *)
(* history implements EnvReservation: an environment goes to one row at a  *)
(* time and is free before it goes to another, whatever is aborted,        *)
(* deleted, rejected, interrupted or crashes.                              *)
THEOREM HistoryReservesEnv == Serialized => (Spec => ReservesEnv)
<1>. SUFFICES ASSUME Serialized PROVE Spec => ReservesEnv
  OBVIOUS
<1>1. Init => Reservation!Init
  BY DEF Init, Reservation!Init, BusyRows, Busy, NoRow, Running
<1>2. TypeInv /\ LockInv /\ [Next]_vars
        => [Reservation!Next]_([e \in Env |-> BusyRows(e)])
  BY StepReserves DEF Holders
<1>. QED
  BY <1>1, <1>2, TypeInvHolds, LockInvHolds, PTL DEF Spec, ReservesEnv, Reservation!Spec

----------------------------------------------------------------------------
(***************************************************************************)
(* Part 3.  What a running deployment may rely on while users neither      *)
(* overlap their requests on one environment nor abort or delete a row: its*)
(* environment is its own, from the update that makes its row running to   *)
(* the one that writes its result, for any number of servers, threads,     *)
(* rows, environments and faults.                                          *)
(***************************************************************************)
Undisturbed == Serialized /\ Ops \cap {"abort", "delete"} = {}

----------------------------------------------------------------------------
(* The inductive invariant. The code never asks whether a row already has  *)
(* a task: it follows from the statuses, so the invariant relates every    *)
(* place a task can be in to the status of its row.                        *)

(* What the validation of a request of kind k has seen. *)
Startable(k) == IF k = "deploy" THEN {"DEPLOYING_APPROVAL"}
                                ELSE Rollbackable \cup {"ROLLBACK_APPROVAL"}

(* What a task of kind k may end with. *)
Possible(k) == {FailedStatus(k)}
               \cup IF k = "deploy"
                    THEN {"DEPLOYED_SUCCESS", "MERGED_SUCCESS", "MERGED_FAILURE"}
                    ELSE {"ROLLBACK_SUCCESS"}

NothingDeleted ==
  /\ \A d \in Detail : ~detail[d].deleted /\ (Exists(d) => detail[d].env \in Env)
  /\ \A h \in Handler :
       /\ reqs[h].pc \notin {"remove", "post", "close"}
       /\ reqs[h].pc # "idle" => reqs[h].env \in Env

(* The status a request has read is still the row's status when it writes. *)
RequestsKnow ==
  \A h \in Handler :
    LET status == detail[reqs[h].detail].status
    IN  /\ reqs[h].pc = "add" => reqs[h].kind = "deploy"
        /\ reqs[h].pc = "ask" => status \in Rollbackable
        /\ reqs[h].pc \in {"check", "reserve"} => status \in Startable(reqs[h].kind)
        /\ reqs[h].pc = "enqueue" => status = RunningStatus(reqs[h].kind)

(* The row of a task is running. *)
TasksRun ==
  /\ \A s \in Server : \A i \in DOMAIN queue[s] :
       detail[queue[s][i].detail].status = RunningStatus(queue[s][i].kind)
  /\ \A w \in Slot :
       worker[w].pc \in WorkPc =>
         detail[worker[w].detail].status = RunningStatus(worker[w].kind)

(* No row has two tasks. *)
QueuedOnce ==
  \A r, s \in Server : \A i \in DOMAIN queue[r], j \in DOMAIN queue[s] :
    queue[r][i].detail = queue[s][j].detail => r = s /\ i = j

WorkedOnOnce ==
  \A v, w \in Slot :
    worker[v].pc \in WorkPc /\ worker[w].pc \in WorkPc
      /\ worker[v].detail = worker[w].detail => v = w

QueuedOrWorkedOn ==
  \A s \in Server : \A i \in DOMAIN queue[s], w \in Slot :
    worker[w].pc \in WorkPc => queue[s][i].detail # worker[w].detail

RequestedOnly ==
  \A h \in Handler :
    reqs[h].pc = "enqueue" =>
      /\ \A s \in Server : \A i \in DOMAIN queue[s] : queue[s][i].detail # reqs[h].detail
      /\ \A w \in Slot : worker[w].pc \in WorkPc => worker[w].detail # reqs[h].detail

TasksAlone == QueuedOnce /\ WorkedOnOnce /\ QueuedOrWorkedOn /\ RequestedOnly

ResultsPossible ==
  \A w \in Slot : worker[w].pc = "finish" => worker[w].result \in Possible(worker[w].kind)

(* From createDeployment to a successful result the environment's          *)
(* Deployment asks for the row's image.                                    *)
Shown(w) == \/ worker[w].pc \in {"health", "round"}
            \/ worker[w].pc = "finish" /\ worker[w].result \in Succeeded

OwnImage ==
  \A w \in Slot : Shown(w) => image[EnvOf(worker[w].detail)] = worker[w].detail

(* Images and pods are those of rows of the environment. *)
PodsOfEnv ==
  \A e \in Env :
    /\ image[e] # Null => Exists(image[e]) /\ EnvOf(image[e]) = e
    /\ \A d \in pods[e] : Exists(d) /\ EnvOf(d) = e

(* A health check that ended well has seen a pod, and one is left. *)
PodsSeen ==
  \A w \in Slot :
    worker[w].pc = "finish" /\ worker[w].result \in Succeeded
      => pods[EnvOf(worker[w].detail)] # {}

TaskInv ==
  /\ NothingDeleted /\ RequestsKnow /\ TasksRun /\ TasksAlone
  /\ ResultsPossible /\ OwnImage /\ PodsOfEnv /\ PodsSeen

LEMMA InitTaskInv == Init => TaskInv
BY DEF Init, TaskInv, NothingDeleted, RequestsKnow, TasksRun, TasksAlone,
       QueuedOnce, WorkedOnOnce, QueuedOrWorkedOn, RequestedOnly,
       ResultsPossible, OwnImage, PodsOfEnv, PodsSeen, Shown, IdleReq, NoRow,
       AtRest, WorkPc, Exists

----------------------------------------------------------------------------
(* How the statuses of the rows change.                                    *)

LEMMA StatusFacts ==
  ASSUME NEW k \in Kind
  PROVE  /\ RunningStatus(k) \in Running
         /\ Startable(k) \cap (Running \cup {"NONE"}) = {}
         /\ Rollbackable \cap (Running \cup {"NONE"}) = {}
         /\ Possible(k) \cap Running = {}
         /\ FailedStatus(k) \in Possible(k) /\ FailedStatus(k) \notin Succeeded
         /\ "NONE" \notin Running /\ Waiting \cap Running = {}
BY DEF RunningStatus, Running, Startable, Rollbackable, Possible, FailedStatus,
       Succeeded, Waiting, Kind

(* Every status is overwritten by the step that the life cycle names, on   *)
(* the status that step has validated.                                     *)
LEMMA HowStatusesChange ==
  ASSUME Undisturbed, TypeInv, LockInv, TaskInv, [Next]_vars, NEW d \in Detail
  PROVE  \/ detail'[d].status = detail[d].status
         \/ \E h \in Handler :
              /\ AddRow(h) /\ reqs[h].detail = d
              /\ detail[d].status = "NONE" /\ detail'[d].status = "DEPLOYING_APPROVAL"
         \/ \E h \in Handler :
              /\ AskApproval(h) /\ reqs[h].detail = d
              /\ detail[d].status \in Rollbackable
              /\ detail'[d].status = "ROLLBACK_APPROVAL"
         \/ \E h \in Handler :
              /\ Reserve(h) /\ reqs[h].detail = d
              /\ detail[d].status \in Startable(reqs[h].kind)
              /\ detail'[d].status = RunningStatus(reqs[h].kind)
         \/ \E w \in Slot :
              /\ Finish(w) /\ worker[w].detail = d
              /\ detail[d].status = RunningStatus(worker[w].kind)
              /\ detail'[d].status = worker[w].result
              /\ worker[w].result \in Possible(worker[w].kind)
<1>0. detail \in [Detail -> Row] /\ ~detail[d].deleted
  BY DEF TypeInv, TaskInv, NothingDeleted
<1>1. ASSUME NEW h \in Handler, AddRow(h), reqs[h].detail = d
      PROVE  detail[d].status = "NONE" /\ detail'[d].status = "DEPLOYING_APPROVAL"
  BY <1>0, <1>1 DEF AddRow, LockInv, InsertsAreNew, Exists
<1>2. ASSUME NEW h \in Handler, AskApproval(h), reqs[h].detail = d
      PROVE  detail[d].status \in Rollbackable /\ detail'[d].status = "ROLLBACK_APPROVAL"
  BY <1>0, <1>2 DEF AskApproval, TaskInv, RequestsKnow, Row
<1>3. ASSUME NEW h \in Handler, Reserve(h), reqs[h].detail = d
      PROVE  /\ detail[d].status \in Startable(reqs[h].kind)
             /\ detail'[d].status = RunningStatus(reqs[h].kind)
  BY <1>0, <1>3 DEF Reserve, UpdateById, TaskInv, RequestsKnow, Row
<1>4. ASSUME NEW w \in Slot, Finish(w), worker[w].detail = d
      PROVE  /\ detail[d].status = RunningStatus(worker[w].kind)
             /\ detail'[d].status = worker[w].result
             /\ worker[w].result \in Possible(worker[w].kind)
  BY <1>0, <1>4 DEF Finish, At, UpdateById, TaskInv, TasksRun, ResultsPossible,
     Row, WorkPc
<1>5. ASSUME NEW h \in Handler, reqs[h].detail # d,
             AddRow(h) \/ AskApproval(h) \/ Reserve(h)
      PROVE  detail'[d].status = detail[d].status
  BY <1>0, <1>5 DEF AddRow, AskApproval, Reserve, UpdateById
<1>6. ASSUME NEW w \in Slot, Finish(w), worker[w].detail # d
      PROVE  detail'[d].status = detail[d].status
  BY <1>0, <1>6 DEF Finish, UpdateById
<1>7. ASSUME NEW h \in Handler PROVE ~RemoveRow(h) /\ ~CloseAborted(h)
  BY DEF RemoveRow, CloseAborted, TaskInv, NothingDeleted
<1>8. ASSUME NEW w \in Slot, RecordThread(w) PROVE detail'[d].status = detail[d].status
  BY <1>0, <1>8 DEF RecordThread, Row
<1>. QED
  BY <1>1, <1>2, <1>3, <1>4, <1>5, <1>6, <1>7, <1>8, WhoWritesRows

(* What a step may do to the row of a task that lives on: nothing.         *)
LEMMA RunningRowStays ==
  ASSUME Undisturbed, TypeInv, LockInv, TaskInv, [Next]_vars, NEW d \in Detail,
         detail[d].status \in Running,
         \A w \in Slot : Finish(w) => worker[w].detail # d
  PROVE  detail'[d].status = detail[d].status
<1>1. ASSUME NEW h \in Handler, reqs[h].pc # "idle" PROVE reqs[h].kind \in Kind
  BY DEF TypeInv, RequestsOK, Request
<1>2. ASSUME NEW h \in Handler, Reserve(h) PROVE reqs[h].kind \in Kind
  BY <1>1, <1>2 DEF Reserve
<1>. QED  BY <1>2, HowStatusesChange, StatusFacts DEF Kind

----------------------------------------------------------------------------
(* What a step does to the tasks: it only ends some, or it hands one to    *)
(* the pool, or a thread takes one from the queue.                         *)

OnlyEnds ==
  /\ \A s \in Server : queue'[s] = queue[s] \/ queue'[s] = <<>>
  /\ \A w \in Slot :
       worker'[w].pc \in WorkPc =>
         /\ worker[w].pc \in WorkPc
         /\ worker'[w].detail = worker[w].detail /\ worker'[w].kind = worker[w].kind

LEMMA TasksMove ==
  ASSUME TypeInv, [Next]_vars
  PROVE  \/ \E h \in Handler : Enqueue(h)
         \/ \E w \in Slot : TakeTask(w)
         \/ OnlyEnds
<1>0. worker \in [Slot -> PoolThread] /\ queue \in [Server -> Seq(Task)]
  BY DEF TypeInv, WorkersOK, PoolOK
<1>1. UNCHANGED <<queue, worker>> => OnlyEnds
  BY DEF OnlyEnds
<1>2. ASSUME NEW h \in Handler, NewRequest(h) PROVE UNCHANGED <<queue, worker>>
  BY <1>2 DEF NewRequest, SubmitToDeploy, ApproveToDeploy, SubmitToRollback,
     Delete, AbortDeployment
<1>3. ASSUME NEW h \in Handler, RequestStep(h)
      PROVE  Enqueue(h) \/ UNCHANGED <<queue, worker>>
  BY <1>3 DEF RequestStep, AddRow, AskApproval, CheckEnv, Reserve, RemoveRow,
     PostAbort, CloseAborted
<1>4. RemoteStep \/ ClusterStep \/ UNCHANGED vars => UNCHANGED <<queue, worker>>
  BY DEF RemoteStep, QueryAborted, LookUpThread, Interrupt, ClusterStep, RollOut,
     vars
<1>5. ASSUME NEW s \in Server, Crash(s) PROVE OnlyEnds
  BY <1>0, <1>5 DEF Crash, OnlyEnds, AtRest, WorkPc
<1>6. ASSUME NEW w \in Slot, UNCHANGED queue, \A v \in Slot : v # w => worker'[v] = worker[v],
             worker'[w].pc \in WorkPc =>
               /\ worker[w].pc \in WorkPc
               /\ worker'[w].detail = worker[w].detail /\ worker'[w].kind = worker[w].kind
      PROVE  OnlyEnds
  BY <1>6 DEF OnlyEnds
<1>7. ASSUME NEW w \in Slot,
             Register(w) \/ RecordThread(w) \/ ApplyImage(w) \/ CheckHealth(w) \/ Round(w)
      PROVE  OnlyEnds
  <2>1. /\ worker'[w].detail = worker[w].detail /\ worker'[w].kind = worker[w].kind
        /\ \A v \in Slot : v # w => worker'[v] = worker[v]
    BY <1>0, <1>7 DEF Register, RecordThread, ApplyImage, CheckHealth, Round,
       Become, Fail, Result, PoolThread
  <2>2. worker[w].pc \in WorkPc /\ UNCHANGED queue
    BY <1>7 DEF Register, RecordThread, ApplyImage, CheckHealth, Round, At, WorkPc
  <2>. QED  BY <1>6, <2>1, <2>2
<1>8. ASSUME NEW w \in Slot, UNCHANGED queue,
             AfterTask(w) \/ worker' = [worker EXCEPT ![w] = AtRest("idle")]
      PROVE  OnlyEnds
  <2>1. worker'[w].pc \notin WorkPc /\ \A v \in Slot : v # w => worker'[v] = worker[v]
    BY <1>0, <1>8 DEF AfterTask, AtRest, WorkPc
  <2>. QED  BY <1>6, <1>8, <2>1
<1>9. ASSUME NEW w \in Slot, Finish(w) \/ Unregister(w) \/ DbError(w)
      PROVE  OnlyEnds
  BY <1>8, <1>9 DEF Finish, Unregister, DbError
<1>10. ASSUME NEW w \in Slot, PreCheck(w) PROVE OnlyEnds
  <2>1. CASE Become(w, "apply")
    <3>1. /\ worker'[w].detail = worker[w].detail /\ worker'[w].kind = worker[w].kind
          /\ \A v \in Slot : v # w => worker'[v] = worker[v]
      BY <1>0, <2>1 DEF Become, PoolThread
    <3>. QED  BY <1>6, <1>10, <3>1 DEF PreCheck, At, WorkPc
  <2>2. CASE AfterTask(w)
    BY <1>8, <1>10, <2>2 DEF PreCheck
  <2>. QED  BY <1>10, <2>1, <2>2 DEF PreCheck
<1>. QED
  BY <1>1, <1>2, <1>3, <1>4, <1>5, <1>7, <1>9, <1>10 DEF Next, WorkerStep

(* The queue after a task was handed to the pool: a thread has it at once, *)
(* or it is the last of its queue, or it was rejected.                     *)
LEMMA AfterEnqueue ==
  ASSUME TypeInv, NEW h \in Handler, Enqueue(h)
  PROVE  /\ reqs[h].pc = "enqueue" /\ UNCHANGED detail
         /\ \A g \in Handler : reqs'[g].pc = "enqueue" => g # h /\ reqs'[g] = reqs[g]
         /\ \/ /\ UNCHANGED queue
               /\ \E v \in Slot :
                    /\ worker'[v].detail = reqs[h].detail
                    /\ worker'[v].kind = reqs[h].kind
                    /\ worker'[v].pc \in {"register", "apply"}
                    /\ \A w \in Slot : w # v => worker'[w] = worker[w]
            \/ /\ UNCHANGED worker
               /\ \E s \in Server :
                    /\ \A r \in Server : r # s => queue'[r] = queue[r]
                    /\ \A i \in DOMAIN queue'[s] :
                         \/ i \in DOMAIN queue[s] /\ queue'[s][i] = queue[s][i]
                         \/ /\ i = Len(queue[s]) + 1
                            /\ queue'[s][i].detail = reqs[h].detail
                            /\ queue'[s][i].kind = reqs[h].kind
            \/ UNCHANGED <<queue, worker>>
<1>. DEFINE s == reqs[h].srv
            task == [detail |-> reqs[h].detail, kind |-> reqs[h].kind]
<1>0. /\ worker \in [Slot -> PoolThread] /\ queue \in [Server -> Seq(Task)]
      /\ reqs \in [Handler -> Request] /\ reqs[h].pc = "enqueue"
  BY DEF TypeInv, WorkersOK, PoolOK, RequestsOK, Enqueue
<1>1. s \in Server /\ task \in Task
  BY <1>0 DEF TypeInv, RequestsOK, Request, Task
<1>2. \A g \in Handler : reqs'[g].pc = "enqueue" => g # h /\ reqs'[g] = reqs[g]
  BY <1>0 DEF Enqueue, Reply, IdleReq
<1>3. ASSUME NEW t \in Thread, worker' = [worker EXCEPT ![<<s, t>>] = Begin(task)]
      PROVE  \E v \in Slot :
               /\ worker'[v].detail = reqs[h].detail
               /\ worker'[v].kind = reqs[h].kind
               /\ worker'[v].pc \in {"register", "apply"}
               /\ \A w \in Slot : w # v => worker'[w] = worker[w]
  <2>1. <<s, t>> \in Slot
    BY <1>1 DEF Slot
  <2>2. worker'[<<s, t>>] = Begin(task) /\ \A w \in Slot : w # <<s, t>> => worker'[w] = worker[w]
    BY <1>0, <1>3, <2>1
  <2>3. /\ Begin(task).detail = reqs[h].detail /\ Begin(task).kind = reqs[h].kind
        /\ Begin(task).pc \in {"register", "apply"}
    BY DEF Begin
  <2>. QED  BY <2>1, <2>2, <2>3
<1>4. ASSUME queue' = [queue EXCEPT ![s] = Append(@, task)]
      PROVE  /\ \A r \in Server : r # s => queue'[r] = queue[r]
             /\ \A i \in DOMAIN queue'[s] :
                  \/ i \in DOMAIN queue[s] /\ queue'[s][i] = queue[s][i]
                  \/ /\ i = Len(queue[s]) + 1
                     /\ queue'[s][i].detail = reqs[h].detail
                     /\ queue'[s][i].kind = reqs[h].kind
  <2>1. \A r \in Server : r # s => queue'[r] = queue[r]
    BY <1>0, <1>4
  <2>2. queue'[s] = Append(queue[s], task) /\ queue[s] \in Seq(Task)
    BY <1>0, <1>1, <1>4
  <2>3. ASSUME NEW i \in DOMAIN queue'[s]
        PROVE  \/ i \in DOMAIN queue[s] /\ queue'[s][i] = queue[s][i]
               \/ i = Len(queue[s]) + 1 /\ queue'[s][i] = task
    BY <1>1, <2>2, <2>3
  <2>4. task.detail = reqs[h].detail /\ task.kind = reqs[h].kind
    OBVIOUS
  <2>. QED  BY <2>1, <2>3, <2>4
<1>5. \/ UNCHANGED queue /\ \E t \in Thread : worker' = [worker EXCEPT ![<<s, t>>] = Begin(task)]
      \/ UNCHANGED worker /\ queue' = [queue EXCEPT ![s] = Append(@, task)]
      \/ UNCHANGED <<queue, worker>>
  BY DEF Enqueue
<1>6. UNCHANGED detail
  BY DEF Enqueue
<1>. HIDE DEF s, task
<1>7. CASE UNCHANGED queue /\ \E t \in Thread : worker' = [worker EXCEPT ![<<s, t>>] = Begin(task)]
  BY <1>0, <1>2, <1>3, <1>6, <1>7
<1>8. CASE UNCHANGED worker /\ queue' = [queue EXCEPT ![s] = Append(@, task)]
  BY <1>0, <1>1, <1>2, <1>4, <1>6, <1>8
<1>9. CASE UNCHANGED <<queue, worker>>
  BY <1>0, <1>2, <1>6, <1>9
<1>. QED  BY <1>5, <1>7, <1>8, <1>9

(* The first task of a queue has moved to a thread.                        *)
LEMMA AfterTakeTask ==
  ASSUME TypeInv, NEW w \in Slot, TakeTask(w)
  PROVE  /\ UNCHANGED <<detail, reqs>> /\ worker[w].pc = "idle"
         /\ \A v \in Slot : v # w => worker'[v] = worker[v]
         /\ worker'[w].pc \in {"register", "apply"}
         /\ \E s \in Server :
              /\ 1 \in DOMAIN queue[s]
              /\ worker'[w].detail = queue[s][1].detail
              /\ worker'[w].kind = queue[s][1].kind
              /\ \A r \in Server : r # s => queue'[r] = queue[r]
              /\ \A i \in DOMAIN queue'[s] :
                   i \in Nat /\ i + 1 \in DOMAIN queue[s] /\ i + 1 # 1
                   /\ queue'[s][i] = queue[s][i + 1]
<1>. DEFINE s == w[1]
<1>0. /\ worker \in [Slot -> PoolThread] /\ queue \in [Server -> Seq(Task)]
      /\ s \in Server
  BY DEF TypeInv, WorkersOK, PoolOK, Slot
<1>1. queue[s] \in Seq(Task) /\ queue[s] # <<>> /\ 1 \in DOMAIN queue[s]
  BY <1>0 DEF TakeTask
<1>2. /\ UNCHANGED <<detail, reqs>> /\ worker[w].pc = "idle"
      /\ \A v \in Slot : v # w => worker'[v] = worker[v]
      /\ worker'[w] = Begin(Head(queue[s]))
  BY <1>0 DEF TakeTask, At
<1>3. /\ worker'[w].pc \in {"register", "apply"}
      /\ worker'[w].detail = queue[s][1].detail /\ worker'[w].kind = queue[s][1].kind
  BY <1>1, <1>2 DEF Begin
<1>4. \A r \in Server : r # s => queue'[r] = queue[r]
  BY <1>0 DEF TakeTask
<1>5. queue'[s] = Tail(queue[s])
  BY <1>0 DEF TakeTask
<1>6. ASSUME NEW i \in DOMAIN queue'[s]
      PROVE  i \in Nat /\ i + 1 \in DOMAIN queue[s] /\ i + 1 # 1
             /\ queue'[s][i] = queue[s][i + 1]
  BY <1>1, <1>5, <1>6
<1>. QED  BY <1>0, <1>1, <1>2, <1>3, <1>4, <1>6

----------------------------------------------------------------------------
(* The invariant is kept, one conjunct at a time.                          *)

(* Nobody aborts or deletes, so a request is new, as it was, or further.   *)
LEMMA WhoMovesRequests ==
  ASSUME Undisturbed, TypeInv, TaskInv, [Next]_vars, NEW h \in Handler
  PROVE  \/ reqs'[h] = reqs[h] \/ reqs'[h].pc = "idle"
         \/ NewRequest(h) \/ AddRow(h) \/ CheckEnv(h) \/ Reserve(h)
<1>0. reqs \in [Handler -> Request]
  BY DEF TypeInv, RequestsOK
<1>1. Reply(h) => reqs'[h].pc = "idle"
  BY <1>0 DEF Reply, IdleReq
<1>2. RequestStep(h) => reqs'[h].pc = "idle" \/ AddRow(h) \/ CheckEnv(h) \/ Reserve(h)
  BY <1>1 DEF RequestStep, AskApproval, Enqueue, RemoveRow, PostAbort, CloseAborted,
     TaskInv, NothingDeleted
<1>3. ASSUME NEW g \in Handler, g # h, NewRequest(g) PROVE reqs'[h] = reqs[h]
  BY <1>0, <1>3 DEF NewRequest, SubmitToDeploy, ApproveToDeploy, SubmitToRollback,
     Delete, AbortDeployment, StartOn
<1>4. ASSUME NEW g \in Handler, g # h, RequestStep(g) PROVE reqs'[h] = reqs[h]
  BY <1>0, <1>4 DEF RequestStep, AddRow, AskApproval, CheckEnv, Reserve, Enqueue,
     RemoveRow, PostAbort, CloseAborted, Reply, Goto
<1>5. ASSUME NEW w \in Slot, WorkerStep(w) \/ DbError(w) PROVE reqs' = reqs
  BY <1>5 DEF WorkerStep, DbError, TakeTask, Register, RecordThread, PreCheck,
     ApplyImage, CheckHealth, Round, Finish, Unregister
<1>6. RemoteStep \/ ClusterStep \/ UNCHANGED vars => reqs' = reqs
  BY DEF RemoteStep, QueryAborted, LookUpThread, Interrupt, ClusterStep, RollOut,
     vars
<1>7. ASSUME NEW s \in Server, Crash(s)
      PROVE  reqs'[h] = reqs[h] \/ reqs'[h].pc = "idle"
  BY <1>7 DEF Crash, IdleReq
<1>. QED
  BY <1>2, <1>3, <1>4, <1>5, <1>6, <1>7 DEF Next

(* A new request is an insert or is about a row whose status it has read.  *)
LEMMA WhatRequestsRead ==
  ASSUME Undisturbed, TypeInv, TaskInv, NEW h \in Handler, NewRequest(h)
  PROVE  /\ UNCHANGED detail
         /\ \/ /\ reqs'[h].pc = "add" /\ reqs'[h].kind = "deploy"
               /\ reqs'[h].env \in Env
            \/ /\ reqs'[h].pc \in {"ask", "check"} /\ reqs'[h].detail \in Detail
               /\ reqs'[h].env \in Env
               /\ reqs'[h].pc = "ask"
                    => detail[reqs'[h].detail].status \in Rollbackable
               /\ reqs'[h].pc = "check"
                    => detail[reqs'[h].detail].status \in Startable(reqs'[h].kind)
<1>0. reqs \in [Handler -> Request]
  BY DEF TypeInv, RequestsOK
<1>1. ASSUME NEW s \in Server, NEW d \in Detail
      PROVE  ~Delete(h, s, d) /\ ~AbortDeployment(h, s, d)
  BY DEF Delete, AbortDeployment, MayStart, Undisturbed
<1>2. ASSUME NEW s \in Server, NEW d \in Detail, NEW p \in {"ask", "check"}, NEW k \in Kind,
             StartOn(h, s, d, p, k), Visible(d)
      PROVE  /\ reqs'[h].pc = p /\ reqs'[h].detail = d /\ reqs'[h].kind = k
             /\ reqs'[h].env \in Env
  <2>1. reqs'[h].pc = p /\ reqs'[h].detail = d /\ reqs'[h].kind = k
        /\ reqs'[h].env = detail[d].env
    BY <1>0, <1>2 DEF StartOn
  <2>2. detail[d].env \in Env
    BY <1>2 DEF Visible, TaskInv, NothingDeleted, Exists
  <2>. QED  BY <2>1, <2>2
<1>3. ASSUME NEW s \in Server, NEW e \in Env, NEW d \in Detail, SubmitToDeploy(h, s, e, d)
      PROVE  /\ reqs'[h].pc = "add" /\ reqs'[h].kind = "deploy" /\ reqs'[h].env \in Env
             /\ UNCHANGED detail
  BY <1>0, <1>3 DEF SubmitToDeploy
<1>4. ASSUME NEW s \in Server, NEW d \in Detail, ApproveToDeploy(h, s, d)
      PROVE  /\ reqs'[h].pc = "check" /\ reqs'[h].detail \in Detail /\ UNCHANGED detail
             /\ reqs'[h].env \in Env
             /\ detail[reqs'[h].detail].status \in Startable(reqs'[h].kind)
  <2>. DEFINE k == IF detail[d].status = "DEPLOYING_APPROVAL" THEN "deploy" ELSE "rollback"
  <2>1. k \in Kind /\ StartOn(h, s, d, "check", k) /\ Visible(d) /\ UNCHANGED detail
    BY <1>4 DEF ApproveToDeploy, Kind
  <2>2. detail[d].status \in Startable(k)
    BY <1>4 DEF ApproveToDeploy, Waiting, Startable
  <2>. HIDE DEF k
  <2>. QED  BY <1>2, <2>1, <2>2
<1>5. ASSUME NEW s \in Server, NEW d \in Detail, SubmitToRollback(h, s, d)
      PROVE  /\ reqs'[h].pc \in {"ask", "check"} /\ reqs'[h].detail \in Detail
             /\ UNCHANGED detail /\ reqs'[h].env \in Env
             /\ detail[reqs'[h].detail].status \in Rollbackable
             /\ detail[reqs'[h].detail].status \in Startable(reqs'[h].kind)
  <2>. DEFINE p == IF detail[d].env \in ApprovalEnv THEN "ask" ELSE "check"
  <2>1. p \in {"ask", "check"} /\ StartOn(h, s, d, p, "rollback") /\ Visible(d)
        /\ UNCHANGED detail
    BY <1>5 DEF SubmitToRollback
  <2>2. detail[d].status \in Rollbackable /\ detail[d].status \in Startable("rollback")
    BY <1>5 DEF SubmitToRollback, Startable
  <2>3. "rollback" \in Kind
    BY DEF Kind
  <2>. HIDE DEF p
  <2>. QED  BY <1>2, <2>1, <2>2, <2>3
<1>. QED  BY <1>1, <1>3, <1>4, <1>5 DEF NewRequest

LEMMA NothingDeletedStep ==
  ASSUME Undisturbed, TypeInv, LockInv, TaskInv, [Next]_vars
  PROVE  NothingDeleted'
<1>0. /\ detail \in [Detail -> Row] /\ reqs \in [Handler -> Request]
      /\ \A h \in Handler : reqs[h].pc # "idle" => reqs[h].env \in Env
      /\ \A d \in Detail : ~detail[d].deleted
  BY DEF TypeInv, RequestsOK, TaskInv, NothingDeleted
<1>1. ASSUME NEW d \in Detail PROVE ~detail'[d].deleted
  <2>1. ASSUME NEW h \in Handler, AddRow(h) \/ AskApproval(h) \/ Reserve(h)
        PROVE  ~detail'[d].deleted
    BY <1>0, <2>1 DEF AddRow, AskApproval, Reserve, UpdateById, Row
  <2>2. ASSUME NEW h \in Handler PROVE ~RemoveRow(h) /\ ~CloseAborted(h)
    BY DEF RemoveRow, CloseAborted, TaskInv, NothingDeleted
  <2>3. ASSUME NEW w \in Slot, RecordThread(w) \/ Finish(w) PROVE ~detail'[d].deleted
    BY <1>0, <2>3 DEF RecordThread, Finish, UpdateById, Row
  <2>. QED  BY <1>0, <2>1, <2>2, <2>3, WhoWritesRows
<1>2. ASSUME NEW d \in Detail, Exists(d)' PROVE detail'[d].env \in Env
  <2>1. CASE Exists(d)
    BY <2>1, RowsStay DEF TaskInv, NothingDeleted
  <2>2. CASE ~Exists(d)
    <3>1. PICK h \in Handler : AddRow(h) /\ reqs[h].detail = d
      BY <1>2, <2>2, RowsStay
    <3>. QED  BY <1>0, <3>1 DEF AddRow
  <2>. QED  BY <2>1, <2>2
<1>3. ASSUME NEW h \in Handler
      PROVE  /\ reqs'[h].pc \notin {"remove", "post", "close"}
             /\ reqs'[h].pc # "idle" => reqs'[h].env \in Env
  <2>1. CASE reqs'[h] = reqs[h] \/ reqs'[h].pc = "idle"
    BY <2>1 DEF TaskInv, NothingDeleted
  <2>2. CASE NewRequest(h)
    BY <2>2, WhatRequestsRead
  <2>3. CASE AddRow(h) \/ CheckEnv(h) \/ Reserve(h)
    BY <1>0, <2>3 DEF AddRow, CheckEnv, Reserve, Goto, Reply, IdleReq, Request
  <2>. QED  BY <2>1, <2>2, <2>3, WhoMovesRequests
<1>. QED  BY <1>1, <1>2, <1>3 DEF NothingDeleted, Exists

LEMMA RequestsKnowStep ==
  ASSUME Undisturbed, TypeInv, LockInv, TaskInv, [Next]_vars
  PROVE  RequestsKnow'
<1>0. /\ detail \in [Detail -> Row] /\ reqs \in [Handler -> Request]
      /\ \A h \in Handler : reqs[h].pc # "idle" => reqs[h].detail \in Detail
  BY DEF TypeInv, RequestsOK
<1>. DEFINE Knows(h) ==
       /\ reqs[h].pc = "add" => reqs[h].kind = "deploy"
       /\ reqs[h].pc = "ask" => detail[reqs[h].detail].status \in Rollbackable
       /\ reqs[h].pc \in {"check", "reserve"} =>
            detail[reqs[h].detail].status \in Startable(reqs[h].kind)
       /\ reqs[h].pc = "enqueue" =>
            detail[reqs[h].detail].status = RunningStatus(reqs[h].kind)
<1>1. ASSUME NEW h \in Handler PROVE Knows(h)
  BY DEF TaskInv, RequestsKnow
(* Nobody else writes the row of a request. *)
<1>2. ASSUME NEW h \in Handler, reqs'[h] = reqs[h], reqs[h].pc \notin {"idle", "add"}
      PROVE  detail'[reqs[h].detail].status = detail[reqs[h].detail].status
             \/ reqs[h].pc \notin {"ask", "check", "reserve", "enqueue"}
  <2>1. PICK d \in Detail : d = reqs[h].detail
    BY <1>0, <1>2
  <2>2. Exists(d) /\ detail[d].env = reqs[h].env /\ reqs[h].kind \in Kind
    BY <1>0, <1>2, <2>1 DEF LockInv, RequestsMatchRows, Request
  <2>3. ASSUME NEW g \in Handler, AskApproval(g) \/ Reserve(g), reqs[g].detail = d
        PROVE  FALSE
    <3>1. detail[d].env = reqs[g].env /\ reqs[g].pc # "idle"
      BY <2>3 DEF AskApproval, Reserve, LockInv, RequestsMatchRows
    <3>2. g = h
      BY <1>2, <2>2, <3>1 DEF LockInv, OneRequestPerEnv
    <3>3. reqs'[g].pc # reqs[g].pc
      BY <1>0, <2>3 DEF AskApproval, Reserve, Goto, Reply, IdleReq, Request
    <3>. QED  BY <1>2, <3>2, <3>3
  <2>4. ASSUME NEW w \in Slot, Finish(w), worker[w].detail = d,
               reqs[h].pc \in {"ask", "check", "reserve", "enqueue"}
        PROVE  FALSE
    <3>1. worker[w].pc \in WorkPc /\ worker[w].kind \in Kind
      BY <2>4 DEF Finish, At, WorkPc, TypeInv, WorkersOK, PoolThread
    <3>2. detail[d].status \in Running
      BY <2>4, <3>1, StatusFacts DEF TaskInv, TasksRun
    <3>3. reqs[h].pc = "enqueue"
      BY <1>1, <2>1, <2>2, <2>4, <3>2, StatusFacts
    <3>. QED  BY <2>1, <2>4, <3>1, <3>3 DEF TaskInv, TasksAlone, RequestedOnly
  <2>. QED  BY <2>1, <2>2, <2>3, <2>4, HowStatusesChange DEF Exists
<1>3. ASSUME NEW h \in Handler, reqs'[h] = reqs[h] PROVE Knows(h)'
  <2>1. CASE reqs[h].pc \in {"idle", "add"}
    BY <1>1, <1>3, <2>1
  <2>2. CASE reqs[h].pc \notin {"idle", "add"}
    <3>1. CASE detail'[reqs[h].detail].status = detail[reqs[h].detail].status
      BY <1>1, <1>3, <3>1
    <3>2. CASE reqs[h].pc \notin {"ask", "check", "reserve", "enqueue"}
      BY <1>3, <2>2, <3>2
    <3>. QED  BY <1>2, <1>3, <2>2, <3>1, <3>2
  <2>. QED  BY <2>1, <2>2
<1>4. ASSUME NEW h \in Handler, reqs'[h].pc = "idle" PROVE Knows(h)'
  BY <1>4
<1>5. ASSUME NEW h \in Handler, NewRequest(h) PROVE Knows(h)'
  BY <1>5, WhatRequestsRead
<1>6. ASSUME NEW h \in Handler, AddRow(h) PROVE Knows(h)'
  <2>1. CASE Reply(h)
    BY <1>0, <1>4, <2>1 DEF Reply, IdleReq
  <2>2. CASE Goto(h, "check")
    <3>1. reqs'[h].pc = "check" /\ reqs'[h].kind = "deploy" /\ reqs'[h].detail = reqs[h].detail
      BY <1>0, <1>1, <1>6, <2>2 DEF AddRow, Goto, Request
    <3>2. detail'[reqs[h].detail].status = "DEPLOYING_APPROVAL"
      BY <1>0, <1>6 DEF AddRow
    <3>. QED  BY <3>1, <3>2 DEF Startable
  <2>. QED  BY <1>6, <2>1, <2>2 DEF AddRow
<1>7. ASSUME NEW h \in Handler, CheckEnv(h) PROVE Knows(h)'
  <2>1. CASE Reply(h)
    BY <1>0, <1>4, <2>1 DEF Reply, IdleReq
  <2>2. CASE Goto(h, "reserve")
    <3>1. /\ reqs'[h].pc = "reserve" /\ reqs'[h].kind = reqs[h].kind
          /\ reqs'[h].detail = reqs[h].detail /\ reqs[h].pc = "check" /\ detail' = detail
      BY <1>0, <1>7, <2>2 DEF CheckEnv, Goto, Request
    <3>. QED  BY <1>1, <3>1
  <2>. QED  BY <1>7, <2>1, <2>2 DEF CheckEnv
<1>8. ASSUME NEW h \in Handler, Reserve(h) PROVE Knows(h)'
  <2>1. /\ reqs'[h].pc = "enqueue" /\ reqs'[h].kind = reqs[h].kind
        /\ reqs'[h].detail = reqs[h].detail /\ reqs[h].pc = "reserve"
    BY <1>0, <1>8 DEF Reserve, Goto, Request
  <2>2. PICK d \in Detail : d = reqs[h].detail
    BY <1>0, <2>1
  <2>3. detail'[d].status = RunningStatus(reqs[h].kind)
    BY <1>0, <1>8, <2>2 DEF Reserve, UpdateById, TaskInv, NothingDeleted, Row
  <2>. QED  BY <2>1, <2>2, <2>3
<1>9. ASSUME NEW h \in Handler PROVE Knows(h)'
  BY <1>3, <1>4, <1>5, <1>6, <1>7, <1>8, WhoMovesRequests
<1>. QED  BY <1>9 DEF RequestsKnow

(* The tasks before a step, as facts the step lemmas use.                  *)
LEMMA TaskFacts ==
  ASSUME TypeInv, TaskInv
  PROVE  /\ \A s \in Server : \A i \in DOMAIN queue[s] :
              /\ queue[s][i].detail \in Detail /\ queue[s][i].kind \in Kind
              /\ detail[queue[s][i].detail].status \in Running
         /\ \A w \in Slot : worker[w].pc \in WorkPc =>
              /\ worker[w].detail \in Detail /\ worker[w].kind \in Kind
              /\ detail[worker[w].detail].status \in Running
         /\ \A h \in Handler : reqs[h].pc # "idle" =>
              reqs[h].detail \in Detail /\ reqs[h].kind \in Kind
<1>1. ASSUME NEW s \in Server, NEW i \in DOMAIN queue[s]
      PROVE  /\ queue[s][i].detail \in Detail /\ queue[s][i].kind \in Kind
             /\ detail[queue[s][i].detail].status \in Running
  <2>1. queue[s] \in Seq(Task)
    BY DEF TypeInv, PoolOK
  <2>2. queue[s][i] \in Task
    BY <2>1
  <2>3. queue[s][i].kind \in Kind /\ queue[s][i].detail \in Detail
    BY <2>2 DEF Task
  <2>. QED  BY <2>3, StatusFacts DEF TaskInv, TasksRun
<1>2. ASSUME NEW w \in Slot, worker[w].pc \in WorkPc
      PROVE  /\ worker[w].detail \in Detail /\ worker[w].kind \in Kind
             /\ detail[worker[w].detail].status \in Running
  <2>1. worker[w].detail \in Detail /\ worker[w].kind \in Kind
    BY <1>2 DEF TypeInv, WorkersOK, PoolThread
  <2>. QED  BY <1>2, <2>1, StatusFacts DEF TaskInv, TasksRun
<1>3. ASSUME NEW h \in Handler, reqs[h].pc # "idle"
      PROVE  reqs[h].detail \in Detail /\ reqs[h].kind \in Kind
  BY <1>3 DEF TypeInv, RequestsOK, Request
<1>. QED  BY <1>1, <1>2, <1>3

(* A thread that has written its result is done with its task. *)
LEMMA FinishEnds ==
  ASSUME TypeInv, NEW w \in Slot, Finish(w)
  PROVE  worker'[w].pc \notin WorkPc /\ worker[w].pc \in WorkPc /\ UNCHANGED queue
BY DEF Finish, At, AfterTask, AtRest, WorkPc, TypeInv, WorkersOK

LEMMA TasksRunStep ==
  ASSUME Undisturbed, TypeInv, LockInv, TaskInv, [Next]_vars
  PROVE  TasksRun'
<1>. USE TaskFacts
<1>1. ASSUME OnlyEnds PROVE TasksRun'
  <2>1. ASSUME NEW s \in Server, NEW i \in DOMAIN queue'[s]
        PROVE  detail'[queue'[s][i].detail].status = RunningStatus(queue'[s][i].kind)
    <3>1. i \in DOMAIN queue[s] /\ queue'[s][i] = queue[s][i]
      BY <1>1, <2>1 DEF OnlyEnds
    <3>2. PICK d \in Detail : d = queue[s][i].detail
      BY <3>1
    <3>3. ASSUME NEW w \in Slot, Finish(w) PROVE worker[w].detail # d
      BY <3>1, <3>2, <3>3, FinishEnds DEF TaskInv, TasksAlone, QueuedOrWorkedOn
    <3>4. detail'[d].status = detail[d].status
      BY <3>1, <3>2, <3>3, RunningRowStays
    <3>. QED  BY <3>1, <3>2, <3>4 DEF TaskInv, TasksRun
  <2>2. ASSUME NEW w \in Slot, worker'[w].pc \in WorkPc
        PROVE  detail'[worker'[w].detail].status = RunningStatus(worker'[w].kind)
    <3>1. worker[w].pc \in WorkPc /\ worker'[w].detail = worker[w].detail
          /\ worker'[w].kind = worker[w].kind
      BY <1>1, <2>2 DEF OnlyEnds
    <3>2. PICK d \in Detail : d = worker[w].detail
      BY <3>1
    <3>3. ASSUME NEW v \in Slot, Finish(v) PROVE worker[v].detail # d
      BY <2>2, <3>1, <3>2, <3>3, FinishEnds DEF TaskInv, TasksAlone, WorkedOnOnce
    <3>4. detail'[d].status = detail[d].status
      BY <3>1, <3>2, <3>3, RunningRowStays
    <3>. QED  BY <3>1, <3>2, <3>4 DEF TaskInv, TasksRun
  <2>. QED  BY <2>1, <2>2 DEF TasksRun
<1>2. ASSUME NEW h \in Handler, Enqueue(h) PROVE TasksRun'
  <2>0. detail' = detail /\ detail[reqs[h].detail].status = RunningStatus(reqs[h].kind)
    BY <1>2, AfterEnqueue DEF TaskInv, RequestsKnow
  <2>1. CASE /\ UNCHANGED queue
             /\ \E v \in Slot :
                  /\ worker'[v].detail = reqs[h].detail
                  /\ worker'[v].kind = reqs[h].kind
                  /\ \A w \in Slot : w # v => worker'[w] = worker[w]
    BY <2>0, <2>1 DEF TaskInv, TasksRun
  <2>2. CASE /\ UNCHANGED worker
             /\ \E s \in Server :
                  /\ \A r \in Server : r # s => queue'[r] = queue[r]
                  /\ \A i \in DOMAIN queue'[s] :
                       \/ i \in DOMAIN queue[s] /\ queue'[s][i] = queue[s][i]
                       \/ /\ queue'[s][i].detail = reqs[h].detail
                          /\ queue'[s][i].kind = reqs[h].kind
    BY <2>0, <2>2 DEF TaskInv, TasksRun
  <2>3. CASE UNCHANGED <<queue, worker>>
    BY <2>0, <2>3 DEF TaskInv, TasksRun
  <2>. QED  BY <1>2, <2>1, <2>2, <2>3, AfterEnqueue
<1>3. ASSUME NEW w \in Slot, TakeTask(w) PROVE TasksRun'
  BY <1>3, AfterTakeTask DEF TaskInv, TasksRun
<1>. QED  BY <1>1, <1>2, <1>3, TasksMove

LEMMA TasksAloneStep ==
  ASSUME Undisturbed, TypeInv, LockInv, TaskInv, [Next]_vars
  PROVE  TasksAlone'
<1>. USE TaskFacts
<1>0. QueuedOnce /\ WorkedOnOnce /\ QueuedOrWorkedOn /\ RequestedOnly
  BY DEF TaskInv, TasksAlone
<1>1. ASSUME OnlyEnds PROVE TasksAlone'
  <2>1. \A s \in Server : \A i \in DOMAIN queue'[s] :
          i \in DOMAIN queue[s] /\ queue'[s][i] = queue[s][i]
    BY <1>1 DEF OnlyEnds
  <2>2. \A w \in Slot : worker'[w].pc \in WorkPc =>
          worker[w].pc \in WorkPc /\ worker'[w].detail = worker[w].detail
    BY <1>1 DEF OnlyEnds
  <2>3. QueuedOnce' /\ WorkedOnOnce' /\ QueuedOrWorkedOn'
    BY <1>0, <2>1, <2>2 DEF QueuedOnce, WorkedOnOnce, QueuedOrWorkedOn
  <2>4. ASSUME NEW h \in Handler, reqs'[h].pc = "enqueue"
        PROVE  /\ \A s \in Server : \A i \in DOMAIN queue[s] : queue[s][i].detail # reqs'[h].detail
               /\ \A w \in Slot : worker[w].pc \in WorkPc => worker[w].detail # reqs'[h].detail
    <3>1. CASE reqs'[h] = reqs[h]
      BY <1>0, <2>4, <3>1 DEF RequestedOnly
    <3>2. CASE Reserve(h)
      <4>1. reqs'[h].detail = reqs[h].detail /\ reqs[h].pc = "reserve"
        BY <3>2 DEF Reserve, Goto, TypeInv, RequestsOK, Request
      <4>2. detail[reqs[h].detail].status \notin Running
        BY <4>1, StatusFacts DEF TaskInv, RequestsKnow
      <4>. QED  BY <4>1, <4>2
    <3>3. ~NewRequest(h) /\ reqs'[h].pc # "idle"
      BY <2>4, WhatRequestsRead
    <3>4. ~AddRow(h) /\ ~CheckEnv(h)
      BY <2>4 DEF AddRow, CheckEnv, Goto, Reply, IdleReq, TypeInv, RequestsOK, Request
    <3>. QED  BY <3>1, <3>2, <3>3, <3>4, WhoMovesRequests
  <2>5. RequestedOnly'
    BY <2>1, <2>2, <2>4 DEF RequestedOnly
  <2>. QED  BY <2>3, <2>5 DEF TasksAlone
<1>2. ASSUME NEW h \in Handler, Enqueue(h) PROVE TasksAlone'
  <2>. DEFINE d == reqs[h].detail
  <2>1. reqs[h].pc = "enqueue" /\ d \in Detail
    BY <1>2, AfterEnqueue
  (* The row of the request had no task before, *)
  <2>2. /\ \A s \in Server : \A i \in DOMAIN queue[s] : queue[s][i].detail # d
        /\ \A w \in Slot : worker[w].pc \in WorkPc => worker[w].detail # d
    BY <1>0, <2>1 DEF RequestedOnly
  (* and no other request is about to give it one. *)
  <2>3. ASSUME NEW g \in Handler, reqs'[g].pc = "enqueue"
        PROVE  /\ reqs'[g].detail # d
               /\ \A s \in Server : \A i \in DOMAIN queue[s] : queue[s][i].detail # reqs'[g].detail
               /\ \A w \in Slot : worker[w].pc \in WorkPc => worker[w].detail # reqs'[g].detail
    <3>1. g # h /\ reqs'[g] = reqs[g]
      BY <1>2, <2>3, AfterEnqueue
    <3>2. reqs[g].detail # d
      BY <2>1, <2>3, <3>1 DEF LockInv, RequestsMatchRows, OneRequestPerEnv
    <3>. QED  BY <1>0, <2>3, <3>1, <3>2 DEF RequestedOnly
  <2>4. CASE UNCHANGED queue /\
             \E v \in Slot : /\ worker'[v].detail = d
                             /\ \A w \in Slot : w # v => worker'[w] = worker[w]
    <3>1. PICK v \in Slot : worker'[v].detail = d /\ \A w \in Slot : w # v => worker'[w] = worker[w]
      BY <2>4
    <3>2. WorkedOnOnce'
      BY <1>0, <2>2, <3>1 DEF WorkedOnOnce
    <3>3. QueuedOrWorkedOn' /\ QueuedOnce'
      BY <1>0, <2>2, <2>4, <3>1 DEF QueuedOrWorkedOn, QueuedOnce
    <3>4. RequestedOnly'
      BY <2>3, <2>4, <3>1 DEF RequestedOnly
    <3>. QED  BY <3>2, <3>3, <3>4 DEF TasksAlone
  <2>5. CASE /\ UNCHANGED worker
             /\ \E s \in Server :
                  /\ \A r \in Server : r # s => queue'[r] = queue[r]
                  /\ \A i \in DOMAIN queue'[s] :
                       \/ i \in DOMAIN queue[s] /\ queue'[s][i] = queue[s][i]
                       \/ i = Len(queue[s]) + 1 /\ queue'[s][i].detail = d
    <3>1. PICK s \in Server :
            /\ \A r \in Server : r # s => queue'[r] = queue[r]
            /\ \A i \in DOMAIN queue'[s] :
                 \/ i \in DOMAIN queue[s] /\ queue'[s][i] = queue[s][i]
                 \/ i = Len(queue[s]) + 1 /\ queue'[s][i].detail = d
      BY <2>5
    <3>2. \A r \in Server : \A i \in DOMAIN queue'[r] :
            \/ i \in DOMAIN queue[r] /\ queue'[r][i] = queue[r][i]
            \/ r = s /\ i = Len(queue[s]) + 1 /\ queue'[r][i].detail = d
      BY <3>1
    <3>3. QueuedOnce'
      BY <1>0, <2>2, <3>2 DEF QueuedOnce
    <3>4. WorkedOnOnce' /\ QueuedOrWorkedOn'
      BY <1>0, <2>2, <2>5, <3>2 DEF WorkedOnOnce, QueuedOrWorkedOn
    <3>5. RequestedOnly'
      BY <2>3, <2>5, <3>2 DEF RequestedOnly
    <3>. QED  BY <3>3, <3>4, <3>5 DEF TasksAlone
  <2>6. CASE UNCHANGED <<queue, worker>>
    BY <1>0, <2>3, <2>6 DEF TasksAlone, QueuedOnce, WorkedOnOnce, QueuedOrWorkedOn,
       RequestedOnly
  <2>. QED  BY <1>2, <2>4, <2>5, <2>6, AfterEnqueue
<1>3. ASSUME NEW w \in Slot, TakeTask(w) PROVE TasksAlone'
  <2>1. /\ UNCHANGED <<detail, reqs>> /\ worker[w].pc = "idle"
        /\ \A v \in Slot : v # w => worker'[v] = worker[v]
    BY <1>3, AfterTakeTask
  <2>2. PICK s \in Server :
          /\ 1 \in DOMAIN queue[s]
          /\ worker'[w].detail = queue[s][1].detail
          /\ \A r \in Server : r # s => queue'[r] = queue[r]
          /\ \A i \in DOMAIN queue'[s] :
               /\ i \in Nat /\ i + 1 \in DOMAIN queue[s] /\ i + 1 # 1
               /\ queue'[s][i] = queue[s][i + 1]
    BY <1>3, AfterTakeTask
  <2>3. ASSUME NEW r \in Server, NEW i \in DOMAIN queue'[r]
        PROVE  \E j \in DOMAIN queue[r] :
                 /\ queue'[r][i] = queue[r][j] /\ (r = s => j # 1)
                 /\ j = IF r = s THEN i + 1 ELSE i
    BY <2>2, <2>3
  <2>4. ASSUME NEW q \in Server, NEW r \in Server, NEW i \in DOMAIN queue'[q],
               NEW k \in DOMAIN queue'[r], queue'[q][i].detail = queue'[r][k].detail
        PROVE  q = r /\ i = k
    <3>1. PICK j \in DOMAIN queue[q] :
            queue'[q][i] = queue[q][j] /\ j = IF q = s THEN i + 1 ELSE i
      BY <2>3
    <3>2. PICK m \in DOMAIN queue[r] :
            queue'[r][k] = queue[r][m] /\ m = IF r = s THEN k + 1 ELSE k
      BY <2>3
    <3>3. q = r /\ j = m
      BY <1>0, <2>4, <3>1, <3>2 DEF QueuedOnce
    <3>4. CASE q = s
      BY <2>2, <3>1, <3>2, <3>3, <3>4
    <3>5. CASE q # s
      BY <3>1, <3>2, <3>3, <3>5
    <3>. QED  BY <3>3, <3>4, <3>5
  <2>5. WorkedOnOnce'
    BY <1>0, <2>1, <2>2 DEF WorkedOnOnce, QueuedOrWorkedOn
  <2>6. QueuedOrWorkedOn'
    <3>. SUFFICES ASSUME NEW r \in Server, NEW i \in DOMAIN queue'[r], NEW v \in Slot,
                         worker'[v].pc \in WorkPc
                  PROVE  queue'[r][i].detail # worker'[v].detail
      BY DEF QueuedOrWorkedOn
    <3>1. PICK j \in DOMAIN queue[r] : queue'[r][i] = queue[r][j] /\ (r = s => j # 1)
      BY <2>3
    <3>2. CASE v = w
      BY <1>0, <2>2, <3>1, <3>2 DEF QueuedOnce
    <3>3. CASE v # w
      BY <1>0, <2>1, <3>1, <3>3 DEF QueuedOrWorkedOn
    <3>. QED  BY <3>2, <3>3
  <2>7. RequestedOnly'
    BY <1>0, <2>1, <2>2, <2>3 DEF RequestedOnly
  <2>. QED  BY <2>4, <2>5, <2>6, <2>7 DEF TasksAlone, QueuedOnce
<1>. QED  BY <1>1, <1>2, <1>3, TasksMove

(* How a thread comes to wait for the pods or to have a result. *)
LEMMA WhoMovesThreads ==
  ASSUME TypeInv, [Next]_vars, NEW w \in Slot
  PROVE  \/ worker'[w] = worker[w] \/ worker'[w].pc \notin {"health", "round", "finish"}
         \/ ApplyImage(w) \/ CheckHealth(w) \/ Round(w)
<1>0. worker \in [Slot -> PoolThread]
  BY DEF TypeInv, WorkersOK
<1>1. ASSUME NEW h \in Handler, Enqueue(h)
      PROVE  worker'[w] = worker[w] \/ worker'[w].pc \in {"register", "apply"}
  BY <1>1, AfterEnqueue
<1>2. ASSUME NEW h \in Handler, NewRequest(h) PROVE UNCHANGED worker
  BY <1>2 DEF NewRequest, SubmitToDeploy, ApproveToDeploy, SubmitToRollback,
     Delete, AbortDeployment
<1>3. ASSUME NEW h \in Handler, RequestStep(h) PROVE Enqueue(h) \/ UNCHANGED worker
  BY <1>3 DEF RequestStep, AddRow, AskApproval, CheckEnv, Reserve, RemoveRow,
     PostAbort, CloseAborted
<1>4. RemoteStep \/ ClusterStep \/ UNCHANGED vars => UNCHANGED worker
  BY DEF RemoteStep, QueryAborted, LookUpThread, Interrupt, ClusterStep, RollOut,
     vars
<1>5. ASSUME NEW s \in Server, Crash(s)
      PROVE  worker'[w] = worker[w] \/ worker'[w].pc = "absent"
  BY <1>5 DEF Crash, AtRest
<1>6. ASSUME NEW v \in Slot, v # w, WorkerStep(v) \/ DbError(v) PROVE worker'[w] = worker[w]
  BY <1>0, <1>6 DEF WorkerStep, DbError, TakeTask, Register, RecordThread, PreCheck,
     ApplyImage, CheckHealth, Round, Finish, Unregister, Become, Fail, Result, AfterTask
<1>7. TakeTask(w) => worker'[w].pc \in {"register", "apply"}
  BY AfterTakeTask
<1>8. AfterTask(w) \/ worker' = [worker EXCEPT ![w] = AtRest("idle")]
        => worker'[w].pc \in {"unregister", "idle"}
  BY <1>0 DEF AfterTask, AtRest
<1>9. ASSUME NEW p \in {"record", "precheck", "apply"}, Become(w, p)
      PROVE  worker'[w].pc = p
  BY <1>0, <1>9 DEF Become, PoolThread
<1>10. Register(w) \/ RecordThread(w) \/ PreCheck(w) \/ Finish(w) \/ Unregister(w) \/ DbError(w)
         => worker'[w].pc \notin {"health", "round", "finish"}
  BY <1>8, <1>9 DEF Register, RecordThread, PreCheck, Finish, Unregister, DbError
<1>. QED
  BY <1>1, <1>2, <1>3, <1>4, <1>5, <1>6, <1>7, <1>10 DEF Next, WorkerStep

(* Where those three steps lead. *)
LEMMA WhereThreadsGo ==
  ASSUME TypeInv, NEW w \in Slot, ApplyImage(w) \/ CheckHealth(w) \/ Round(w)
  PROVE  /\ worker[w].pc \in WorkPc /\ worker[w].kind \in Kind
         /\ worker'[w].detail = worker[w].detail /\ worker'[w].kind = worker[w].kind
         /\ \/ worker'[w].pc \in {"health", "round"}
            \/ worker'[w].pc = "finish" /\ worker'[w].result \in Possible(worker[w].kind)
         /\ ApplyImage(w) =>
              \/ /\ worker'[w].pc = "health"
                 /\ image' = [image EXCEPT ![EnvOf(worker[w].detail)] = worker[w].detail]
              \/ worker'[w].pc = "finish" /\ worker'[w].result \notin Succeeded
         /\ CheckHealth(w) \/ Round(w) => Shown(w) /\ UNCHANGED image
         /\ \/ worker'[w].pc # "finish" \/ worker'[w].result \notin Succeeded
            \/ Round(w) /\ pods[EnvOf(worker[w].detail)] # {}
<1>0. worker \in [Slot -> PoolThread] /\ worker[w].kind \in Kind
  BY DEF TypeInv, WorkersOK, PoolThread
<1>1. worker[w].pc \in WorkPc
  BY DEF ApplyImage, CheckHealth, Round, At, WorkPc
<1>2. worker'[w].detail = worker[w].detail /\ worker'[w].kind = worker[w].kind
  BY <1>0 DEF ApplyImage, CheckHealth, Round, Become, Fail, Result, PoolThread
<1>3. Fail(w) => /\ worker'[w].pc = "finish" /\ worker'[w].result = FailedStatus(worker[w].kind)
                 /\ worker'[w].result \in Possible(worker[w].kind)
                 /\ worker'[w].result \notin Succeeded
  BY <1>0, StatusFacts DEF Fail, Result, PoolThread
<1>4. ASSUME NEW r \in Results(w), Result(w, "finish", r)
      PROVE  worker'[w].pc = "finish" /\ worker'[w].result \in Possible(worker[w].kind)
  <2>1. r \in Possible(worker[w].kind)
    BY <1>0 DEF Results, Possible, Kind
  <2>. QED  BY <1>0, <1>4, <2>1 DEF Result, PoolThread
<1>5. ASSUME NEW p \in {"health", "round"}, Become(w, p) PROVE worker'[w].pc = p
  BY <1>0, <1>5 DEF Become, PoolThread
<1>6. CASE ApplyImage(w)
  <2>1. ~CheckHealth(w) /\ ~Round(w)
    BY <1>6 DEF ApplyImage, CheckHealth, Round, At
  <2>2. \/ /\ image' = [image EXCEPT ![EnvOf(worker[w].detail)] = worker[w].detail]
           /\ Become(w, "health")
        \/ Fail(w)
    BY <1>6 DEF ApplyImage
  <2>. QED  BY <1>0, <1>1, <1>2, <1>3, <1>5, <2>1, <2>2
<1>7. CASE CheckHealth(w)
  <2>1. ~ApplyImage(w) /\ Shown(w) /\ UNCHANGED image
    BY <1>7 DEF ApplyImage, CheckHealth, At, Shown
  <2>2. Become(w, "round") \/ Fail(w)
    BY <1>7 DEF CheckHealth
  <2>. QED  BY <1>0, <1>1, <1>2, <1>3, <1>5, <2>1, <2>2
<1>8. CASE Round(w)
  <2>1. ~ApplyImage(w) /\ Shown(w) /\ UNCHANGED image
    BY <1>8 DEF ApplyImage, Round, At, Shown
  <2>2. \/ worker'[w].pc = "health" \/ Fail(w)
        \/ /\ pods[EnvOf(worker[w].detail)] # {}
           /\ \E r \in Results(w) : Result(w, "finish", r)
    BY <1>0, <1>8 DEF Round, PoolThread
  <2>. QED  BY <1>0, <1>1, <1>2, <1>3, <1>4, <1>8, <2>1, <2>2
<1>. QED  BY <1>6, <1>7, <1>8

LEMMA ResultsPossibleStep ==
  ASSUME TypeInv, TaskInv, [Next]_vars
  PROVE  ResultsPossible'
<1>. SUFFICES ASSUME NEW w \in Slot, worker'[w].pc = "finish"
              PROVE  worker'[w].result \in Possible(worker'[w].kind)
  BY DEF ResultsPossible
<1>1. CASE worker'[w] = worker[w]
  BY <1>1 DEF TaskInv, ResultsPossible
<1>2. CASE ApplyImage(w) \/ CheckHealth(w) \/ Round(w)
  BY <1>2, WhereThreadsGo
<1>. QED  BY <1>1, <1>2, WhoMovesThreads

(* Only createDeployment changes an image. *)
LEMMA WhoChangesImages ==
  ASSUME [Next]_vars
  PROVE  UNCHANGED image \/ \E w \in Slot : ApplyImage(w)
<1>1. ASSUME NEW h \in Handler, NewRequest(h) \/ RequestStep(h) PROVE UNCHANGED image
  BY <1>1 DEF NewRequest, SubmitToDeploy, ApproveToDeploy, SubmitToRollback,
     Delete, AbortDeployment, RequestStep, AddRow, AskApproval, CheckEnv, Reserve,
     Enqueue, RemoveRow, PostAbort, CloseAborted
<1>2. RemoteStep \/ ClusterStep \/ UNCHANGED vars => UNCHANGED image
  BY DEF RemoteStep, QueryAborted, LookUpThread, Interrupt, ClusterStep, RollOut,
     vars
<1>3. ASSUME NEW w \in Slot, WorkerStep(w) \/ DbError(w)
      PROVE  UNCHANGED image \/ ApplyImage(w)
  BY <1>3 DEF WorkerStep, DbError, TakeTask, Register, RecordThread, PreCheck,
     CheckHealth, Round, Finish, Unregister
<1>4. ASSUME NEW s \in Server, Crash(s) PROVE UNCHANGED image
  BY <1>4 DEF Crash
<1>. QED  BY <1>1, <1>2, <1>3, <1>4 DEF Next

(* Two threads at work in one environment are the same thread. *)
LEMMA OneThreadPerEnv ==
  ASSUME TypeInv, LockInv, TaskInv, NEW v \in Slot, NEW w \in Slot,
         worker[v].pc \in WorkPc, worker[w].pc \in WorkPc,
         EnvOf(worker[v].detail) = EnvOf(worker[w].detail)
  PROVE  v = w
<1>1. PICK c \in Detail : c = worker[v].detail /\ detail[c].status \in Running
  BY TaskFacts
<1>2. PICK d \in Detail : d = worker[w].detail /\ detail[d].status \in Running
  BY TaskFacts
<1>3. Busy(c) /\ Busy(d) /\ detail[c].env = detail[d].env
  BY <1>1, <1>2 DEF Busy, TaskInv, NothingDeleted, EnvOf
<1>4. c = d
  BY <1>3 DEF LockInv, EnvExclusive
<1>. QED  BY <1>1, <1>2, <1>4 DEF TaskInv, TasksAlone, WorkedOnOnce

LEMMA OwnImageStep ==
  ASSUME TypeInv, LockInv, TaskInv, [Next]_vars
  PROVE  OwnImage'
<1>. SUFFICES ASSUME NEW w \in Slot, Shown(w)'
              PROVE  image'[detail'[worker'[w].detail].env] = worker'[w].detail
  BY DEF OwnImage, EnvOf
<1>0. image \in [Env -> Detail \cup {Null}] /\ worker'[w].pc \in {"health", "round", "finish"}
  BY DEF TypeInv, Shown
<1>1. ASSUME NEW v \in Slot, worker[v].pc \in WorkPc
      PROVE  /\ worker[v].detail \in Detail /\ EnvOf(worker[v].detail) \in Env
             /\ detail'[worker[v].detail].env = EnvOf(worker[v].detail)
  <2>1. PICK d \in Detail : d = worker[v].detail /\ detail[d].status \in Running
    BY <1>1, TaskFacts
  <2>2. Exists(d) /\ detail'[d].env = detail[d].env
    BY <2>1, RowsStay DEF Exists, Running
  <2>. QED  BY <2>1, <2>2 DEF TaskInv, NothingDeleted, EnvOf
<1>2. CASE worker'[w] = worker[w]
  <2>1. Shown(w) /\ worker[w].pc \in WorkPc /\ worker[w].pc # "apply"
    BY <1>2 DEF Shown, WorkPc
  <2>2. image[EnvOf(worker[w].detail)] = worker[w].detail
    BY <2>1 DEF TaskInv, OwnImage
  <2>3. CASE UNCHANGED image
    BY <1>1, <1>2, <2>1, <2>2, <2>3
  <2>4. ASSUME NEW v \in Slot, ApplyImage(v), image' # image
        PROVE  image'[EnvOf(worker[w].detail)] = image[EnvOf(worker[w].detail)]
    <3>1. worker[v].pc = "apply" /\ worker[v].pc \in WorkPc
      BY <2>4 DEF ApplyImage, At, WorkPc
    <3>2. EnvOf(worker[v].detail) # EnvOf(worker[w].detail)
      BY <2>1, <3>1, OneThreadPerEnv
    <3>3. image' = [image EXCEPT ![EnvOf(worker[v].detail)] = worker[v].detail]
      BY <2>4 DEF ApplyImage
    <3>. QED  BY <1>0, <1>1, <2>1, <3>1, <3>2, <3>3
  <2>. QED  BY <1>1, <1>2, <2>1, <2>2, <2>3, <2>4, WhoChangesImages
<1>3. CASE ApplyImage(w)
  <2>1. /\ worker[w].pc \in WorkPc /\ worker'[w].detail = worker[w].detail
        /\ \/ image' = [image EXCEPT ![EnvOf(worker[w].detail)] = worker[w].detail]
           \/ worker'[w].pc = "finish" /\ worker'[w].result \notin Succeeded
    BY <1>3, WhereThreadsGo
  <2>2. image' = [image EXCEPT ![EnvOf(worker[w].detail)] = worker[w].detail]
    BY <2>1 DEF Shown
  <2>. QED  BY <1>0, <1>1, <2>1, <2>2
<1>4. CASE CheckHealth(w) \/ Round(w)
  <2>1. /\ worker[w].pc \in WorkPc /\ worker'[w].detail = worker[w].detail
        /\ Shown(w) /\ UNCHANGED image
    BY <1>4, WhereThreadsGo
  <2>. QED  BY <1>1, <2>1 DEF TaskInv, OwnImage
<1>. QED  BY <1>0, <1>2, <1>3, <1>4, WhoMovesThreads

(* Only the cluster changes the pods, and never takes the last one. *)
LEMMA HowPodsChange ==
  ASSUME TypeInv, [Next]_vars, NEW e \in Env
  PROVE  /\ pods'[e] \subseteq pods[e] \cup ({image[e]} \ {Null})
         /\ pods[e] # {} => pods'[e] # {}
<1>1. ASSUME NEW h \in Handler, NewRequest(h) \/ RequestStep(h) PROVE UNCHANGED pods
  BY <1>1 DEF NewRequest, SubmitToDeploy, ApproveToDeploy, SubmitToRollback,
     Delete, AbortDeployment, RequestStep, AddRow, AskApproval, CheckEnv, Reserve,
     Enqueue, RemoveRow, PostAbort, CloseAborted
<1>2. RemoteStep \/ UNCHANGED vars => UNCHANGED pods
  BY DEF RemoteStep, QueryAborted, LookUpThread, Interrupt, vars
<1>3. ASSUME NEW w \in Slot, WorkerStep(w) \/ DbError(w) PROVE UNCHANGED pods
  BY <1>3 DEF WorkerStep, DbError, TakeTask, Register, RecordThread, PreCheck,
     ApplyImage, CheckHealth, Round, Finish, Unregister
<1>4. ASSUME NEW s \in Server, Crash(s) PROVE UNCHANGED pods
  BY <1>4 DEF Crash
<1>5. ASSUME NEW f \in Env, RollOut(f)
      PROVE  /\ pods'[e] \subseteq pods[e] \cup ({image[e]} \ {Null})
             /\ pods[e] # {} => pods'[e] # {}
  <2>1. pods \in [Env -> SUBSET Detail]
    BY DEF TypeInv
  <2>2. CASE image[f] \notin pods[f] \cup {Null} /\ pods' = [pods EXCEPT ![f] = @ \cup {image[f]}]
    BY <2>1, <2>2
  <2>3. ASSUME NEW old \in pods[f] \ {image[f]}, pods[f] # {old},
               pods' = [pods EXCEPT ![f] = @ \ {old}]
        PROVE  /\ pods'[e] \subseteq pods[e] \cup ({image[e]} \ {Null})
               /\ pods[e] # {} => pods'[e] # {}
    BY <2>1, <2>3
  <2>. QED  BY <1>5, <2>2, <2>3 DEF RollOut
<1>. QED  BY <1>1, <1>2, <1>3, <1>4, <1>5 DEF Next, ClusterStep

LEMMA PodsOfEnvStep ==
  ASSUME TypeInv, LockInv, TaskInv, [Next]_vars
  PROVE  PodsOfEnv'
<1>. DEFINE In(d, e) == detail'[d].status # "NONE" /\ detail'[d].env = e
<1>. SUFFICES ASSUME NEW e \in Env
              PROVE  /\ image'[e] # Null => In(image'[e], e)
                     /\ \A d \in pods'[e] : In(d, e)
  BY DEF PodsOfEnv, EnvOf, Exists
<1>0. image \in [Env -> Detail \cup {Null}] /\ pods \in [Env -> SUBSET Detail]
  BY DEF TypeInv
<1>1. ASSUME NEW d \in Detail, Exists(d), detail[d].env = e
      PROVE  In(d, e)
  BY <1>1, RowsStay DEF Exists
<1>2. /\ image[e] # Null => Exists(image[e]) /\ detail[image[e]].env = e
      /\ \A d \in pods[e] : Exists(d) /\ detail[d].env = e
  BY DEF TaskInv, PodsOfEnv, EnvOf
<1>3. \A d \in pods'[e] : In(d, e)
  BY <1>0, <1>1, <1>2, HowPodsChange
<1>4. CASE image'[e] = image[e]
  BY <1>0, <1>1, <1>2, <1>3, <1>4
<1>5. ASSUME NEW w \in Slot, ApplyImage(w), image'[e] # image[e]
      PROVE  In(image'[e], e)
  <2>1. image' = [image EXCEPT ![EnvOf(worker[w].detail)] = worker[w].detail]
        /\ worker[w].pc \in WorkPc
    BY <1>5 DEF ApplyImage, At, WorkPc
  <2>2. PICK d \in Detail : d = worker[w].detail /\ detail[d].status \in Running
    BY <2>1, TaskFacts
  <2>3. Exists(d) /\ detail[d].env = e /\ image'[e] = d
    BY <1>0, <1>5, <2>1, <2>2 DEF Exists, EnvOf, Running
  <2>. QED  BY <1>1, <2>3
<1>6. UNCHANGED image \/ \E w \in Slot : ApplyImage(w)
  BY WhoChangesImages
<1>. QED  BY <1>3, <1>4, <1>5, <1>6

LEMMA PodsSeenStep ==
  ASSUME TypeInv, LockInv, TaskInv, [Next]_vars
  PROVE  PodsSeen'
<1>. SUFFICES ASSUME NEW w \in Slot, worker'[w].pc = "finish", worker'[w].result \in Succeeded
              PROVE  pods'[detail'[worker'[w].detail].env] # {}
  BY DEF PodsSeen, EnvOf
<1>1. ASSUME worker[w].pc \in WorkPc
      PROVE  /\ detail[worker[w].detail].env \in Env
             /\ detail'[worker[w].detail].env = detail[worker[w].detail].env
  <2>1. PICK d \in Detail : d = worker[w].detail /\ detail[d].status \in Running
    BY <1>1, TaskFacts
  <2>2. Exists(d) /\ detail'[d].env = detail[d].env
    BY <2>1, RowsStay DEF Exists, Running
  <2>. QED  BY <2>1, <2>2 DEF TaskInv, NothingDeleted
<1>2. CASE worker'[w] = worker[w]
  <2>1. worker[w].pc \in WorkPc /\ pods[detail[worker[w].detail].env] # {}
    BY <1>2 DEF TaskInv, PodsSeen, EnvOf, WorkPc
  <2>. QED  BY <1>1, <1>2, <2>1, HowPodsChange
<1>3. CASE ApplyImage(w) \/ CheckHealth(w) \/ Round(w)
  <2>1. /\ worker[w].pc \in WorkPc /\ worker'[w].detail = worker[w].detail
        /\ pods[EnvOf(worker[w].detail)] # {}
    BY <1>3, WhereThreadsGo
  <2>. QED  BY <1>1, <2>1, HowPodsChange DEF EnvOf
<1>. QED  BY <1>2, <1>3, WhoMovesThreads

LEMMA TaskInvStep ==
  ASSUME Undisturbed, TypeInv, LockInv, TaskInv, [Next]_vars
  PROVE  TaskInv'
BY NothingDeletedStep, RequestsKnowStep, TasksRunStep, TasksAloneStep,
   ResultsPossibleStep, OwnImageStep, PodsOfEnvStep, PodsSeenStep DEF TaskInv

LEMMA TaskInvHolds == Undisturbed => (Spec => [](TypeInv /\ LockInv /\ TaskInv))
<1>. SUFFICES ASSUME Undisturbed PROVE Spec => [](TypeInv /\ LockInv /\ TaskInv)
  OBVIOUS
<1>1. TypeInv /\ LockInv /\ TaskInv /\ [Next]_vars => TaskInv'
  BY TaskInvStep
<1>2. Serialized
  BY DEF Undisturbed
<1>3. Spec => []LockInv
  BY <1>2, LockInvHolds
<1>. QED  BY <1>1, <1>3, InitTaskInv, TypeInvHolds, PTL DEF Spec

----------------------------------------------------------------------------
(* The theorems.                                                           *)

(* No environment is ever held by two requests, waiting tasks or threads:  *)
(* two deployments never work on one Kubernetes deployment, although the   *)
(* pool itself never looks at what its tasks are about.                    *)
THEOREM OneTaskHoldsEnv == Undisturbed => (Spec => []OneTaskPerEnv)
<1>. SUFFICES ASSUME Undisturbed PROVE Spec => []OneTaskPerEnv
  OBVIOUS
<1>1. ASSUME TypeInv, LockInv, TaskInv PROVE OneTaskPerEnv
  <2>0. /\ QueuedOnce /\ WorkedOnOnce /\ QueuedOrWorkedOn /\ RequestedOnly
        /\ \A s \in Server : queue[s] \in Seq(Task)
    BY <1>1 DEF TaskInv, TasksAlone, TypeInv, PoolOK
  <2>1. ASSUME NEW c \in Detail, NEW d \in Detail, detail[c].env = detail[d].env,
               detail[c].status \in Running, detail[d].status \in Running
        PROVE  c = d
    BY <1>1, <2>1 DEF LockInv, EnvExclusive, Busy, TaskInv, NothingDeleted
  <2>2. ASSUME NEW h \in Handler, reqs[h].pc = "enqueue"
        PROVE  /\ reqs[h].detail \in Detail /\ detail[reqs[h].detail].status \in Running
               /\ detail[reqs[h].detail].env = reqs[h].env
    BY <1>1, <2>2, TaskFacts, StatusFacts DEF LockInv, RequestsMatchRows, TaskInv, RequestsKnow
  <2>. SUFFICES ASSUME NEW e \in Env, NEW x \in Claims(e), NEW y \in Claims(e)
                PROVE  x = y
    BY DEF OneTaskPerEnv
  <2>. DEFINE
         R(z) == \E h \in Handler : z = <<"request", h>> /\ reqs[h].pc = "enqueue" /\ reqs[h].env = e
         Q(z) == \E p \in Server \X (1 .. QueueCap) :
                   /\ z = <<"queued", p>> /\ p[2] \in DOMAIN queue[p[1]]
                   /\ EnvOf(queue[p[1]][p[2]].detail) = e
         W(z) == \E w \in Slot : /\ z = <<"worker", w>> /\ worker[w].pc \in WorkPc
                                 /\ EnvOf(worker[w].detail) = e
  <2>3. /\ R(x) \/ Q(x) \/ W(x)
        /\ R(y) \/ Q(y) \/ W(y)
    BY DEF Claims
  <2>4. R(x) /\ R(y) => x = y
    BY <1>1 DEF LockInv, OneRequestPerEnv
  <2>5. R(x) /\ (Q(y) \/ W(y)) => FALSE
    BY <1>1, <2>0, <2>1, <2>2, TaskFacts DEF EnvOf, RequestedOnly
  <2>6. R(y) /\ (Q(x) \/ W(x)) => FALSE
    BY <1>1, <2>0, <2>1, <2>2, TaskFacts DEF EnvOf, RequestedOnly
  <2>7. ASSUME Q(x), Q(y) PROVE x = y
    <3>1. PICK p \in Server \X (1 .. QueueCap) :
            /\ x = <<"queued", p>> /\ p[2] \in DOMAIN queue[p[1]]
            /\ EnvOf(queue[p[1]][p[2]].detail) = e
      BY <2>7
    <3>2. PICK q \in Server \X (1 .. QueueCap) :
            /\ y = <<"queued", q>> /\ q[2] \in DOMAIN queue[q[1]]
            /\ EnvOf(queue[q[1]][q[2]].detail) = e
      BY <2>7
    <3>3. queue[p[1]][p[2]].detail = queue[q[1]][q[2]].detail
      BY <1>1, <2>1, <3>1, <3>2, TaskFacts DEF EnvOf
    <3>4. p[1] = q[1] /\ p[2] = q[2]
      BY <2>0, <3>1, <3>2, <3>3 DEF QueuedOnce
    <3>. QED  BY <3>1, <3>2, <3>4
  <2>8. Q(x) /\ W(y) => FALSE
    BY <1>1, <2>0, <2>1, TaskFacts DEF EnvOf, QueuedOrWorkedOn
  <2>9. Q(y) /\ W(x) => FALSE
    BY <1>1, <2>0, <2>1, TaskFacts DEF EnvOf, QueuedOrWorkedOn
  <2>10. W(x) /\ W(y) => x = y
    BY <1>1, OneThreadPerEnv
  <2>. QED  BY <2>3, <2>4, <2>5, <2>6, <2>7, <2>8, <2>9, <2>10
<1>. QED  BY <1>1, TaskInvHolds, PTL

(* From createDeployment until its success is written the Deployment of a  *)
(* task's environment asks for the task's image: no other task's rollout   *)
(* comes in between.                                                       *)
THEOREM RolloutsAreOwn == Undisturbed => (Spec => []RolloutIsOwn)
<1>. SUFFICES ASSUME Undisturbed PROVE Spec => []RolloutIsOwn
  OBVIOUS
<1>1. TaskInv => RolloutIsOwn
  BY DEF TaskInv, OwnImage, Shown, RolloutIsOwn
<1>. QED  BY <1>1, TaskInvHolds, PTL

(* Nothing of a row runs before somebody approves it.                      *)
THEOREM ApprovalComesFirst == Undisturbed => (Spec => []WaitingRowHasNoTask)
<1>. SUFFICES ASSUME Undisturbed PROVE Spec => []WaitingRowHasNoTask
  OBVIOUS
<1>1. ASSUME TypeInv, TaskInv PROVE WaitingRowHasNoTask
  <2>. SUFFICES ASSUME NEW d \in Detail, detail[d].status \in Waiting
                PROVE  ~RequestOf(d) /\ ~QueuedFor(d) /\ ~WorkedOn(d)
    BY DEF WaitingRowHasNoTask
  <2>1. detail[d].status \notin Running
    BY StatusFacts DEF Waiting, Running
  <2>2. ~RequestOf(d)
    BY <1>1, <2>1, TaskFacts, StatusFacts DEF RequestOf, TaskInv, RequestsKnow
  <2>3. ~QueuedFor(d) /\ ~WorkedOn(d)
    BY <1>1, <2>1, TaskFacts DEF QueuedFor, WorkedOn
  <2>. QED  BY <2>2, <2>3
<1>. QED  BY <1>1, TaskInvHolds, PTL

(* Every status a request or a task writes follows, in the life cycle of   *)
(* DeploymentStatusEnum, on the one it replaces, although it was read in   *)
(* an earlier step and the update does not look again.                     *)
THEOREM StatusesFollowLifeCycle == Undisturbed => (Spec => FollowsLifeCycle)
<1>. SUFFICES ASSUME Undisturbed PROVE Spec => FollowsLifeCycle
  OBVIOUS
<1>. DEFINE Follows == \A d \in Detail :
              detail'[d].status # detail[d].status
                => <<detail[d].status, detail'[d].status>> \in LifeCycle
<1>1. ASSUME TypeInv, LockInv, TaskInv, [Next]_vars PROVE Follows
  <2>. SUFFICES ASSUME NEW d \in Detail, detail'[d].status # detail[d].status
                PROVE  <<detail[d].status, detail'[d].status>> \in LifeCycle
    OBVIOUS
  <2>1. ASSUME NEW a, NEW b, NEW k \in Kind,
               \/ a = "NONE" /\ b = "DEPLOYING_APPROVAL"
               \/ a \in Rollbackable /\ b = "ROLLBACK_APPROVAL"
               \/ a \in Startable(k) /\ b = RunningStatus(k)
               \/ a = RunningStatus(k) /\ b \in Possible(k)
        PROVE  <<a, b>> \in LifeCycle
    <3>1. CASE k = "deploy"
      BY <2>1, <3>1 DEF LifeCycle, Rollbackable, Startable, RunningStatus, Possible, FailedStatus
    <3>2. CASE k = "rollback"
      BY <2>1, <3>2 DEF LifeCycle, Rollbackable, Startable, RunningStatus, Possible, FailedStatus
    <3>. QED  BY <3>1, <3>2 DEF Kind
  <2>2. ASSUME NEW h \in Handler, Reserve(h) PROVE reqs[h].kind \in Kind
    BY <1>1, <2>2, TaskFacts DEF Reserve
  <2>3. ASSUME NEW w \in Slot, Finish(w) PROVE worker[w].kind \in Kind
    BY <1>1, <2>3, TaskFacts DEF Finish, At, WorkPc
  <2>4. "deploy" \in Kind
    BY DEF Kind
  <2>. QED  BY <1>1, <2>1, <2>2, <2>3, <2>4, HowStatusesChange
<1>2. TypeInv /\ LockInv /\ TaskInv /\ [Next]_vars => [Follows]_vars
  BY <1>1
<1>. QED  BY <1>2, TaskInvHolds, PTL DEF Spec, FollowsLifeCycle

(* A row becomes "deployed" or "rolled back" only while its environment's  *)
(* Deployment asks for the row's image and the environment has pods: of    *)
(* the row, or of an older row of the same environment. (That they need    *)
(* not be the row's own is what TLC's counterexample to                    *)
(* SuccessMeansImageRuns shows.)                                           *)
THEOREM SuccessesHavePods == Undisturbed => (Spec => SuccessHasPods)
<1>. SUFFICES ASSUME Undisturbed PROVE Spec => SuccessHasPods
  OBVIOUS
<1>. DEFINE Has == \A d \in Detail :
              /\ detail[d].status \in Running
              /\ detail'[d].status \in Succeeded
              => /\ image[EnvOf(d)] = d
                 /\ \/ d \in pods[EnvOf(d)]
                    \/ \E old \in pods[EnvOf(d)] : old # d /\ EnvOf(old) = EnvOf(d)
<1>1. ASSUME TypeInv, LockInv, TaskInv, [Next]_vars PROVE Has
  <2>. SUFFICES ASSUME NEW d \in Detail, detail[d].status \in Running,
                       detail'[d].status \in Succeeded
                PROVE  /\ image[EnvOf(d)] = d
                       /\ \/ d \in pods[EnvOf(d)]
                          \/ \E old \in pods[EnvOf(d)] : old # d /\ EnvOf(old) = EnvOf(d)
    OBVIOUS
  <2>1. Running \cap Succeeded = {} /\ "DEPLOYING_APPROVAL" \notin Succeeded
        /\ "ROLLBACK_APPROVAL" \notin Succeeded
    BY DEF Running, Succeeded
  <2>2. ASSUME NEW h \in Handler, Reserve(h) PROVE RunningStatus(reqs[h].kind) \in Running
    BY <1>1, <2>2, TaskFacts, StatusFacts DEF Reserve
  <2>3. PICK w \in Slot : Finish(w) /\ worker[w].detail = d /\ detail'[d].status = worker[w].result
    BY <1>1, <2>1, <2>2, HowStatusesChange
  <2>4. worker[w].pc = "finish" /\ worker[w].result \in Succeeded
    BY <2>3 DEF Finish, At
  <2>5. image[EnvOf(d)] = d /\ pods[EnvOf(d)] # {}
    BY <1>1, <2>3, <2>4 DEF TaskInv, OwnImage, Shown, PodsSeen
  <2>6. Exists(d) /\ EnvOf(d) \in Env
    BY <1>1 DEF Exists, Running, EnvOf, TaskInv, NothingDeleted
  <2>7. \A old \in pods[EnvOf(d)] : EnvOf(old) = EnvOf(d)
    BY <1>1, <2>6 DEF TaskInv, PodsOfEnv
  <2>. QED  BY <2>5, <2>7
<1>2. TypeInv /\ LockInv /\ TaskInv /\ [Next]_vars => [Has]_vars
  BY <1>1
<1>. QED  BY <1>2, TaskInvHolds, PTL DEF Spec, SuccessHasPods

=============================================================================
