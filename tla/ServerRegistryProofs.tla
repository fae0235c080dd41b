------------------------ MODULE ServerRegistryProofs ------------------------
(***************************************************************************)
(* Theorems about ServerRegistry, for any set of servers, any clocks, any  *)
(* number of stops, slow pings and late firings.                           *)
(***************************************************************************)
EXTENDS ServerRegistry, TLAPS

-----------------------------------------------------------------------------
(* Type correctness.  A server that pings has a row of the table.          *)
TypeInv ==
    /\ TypeOK
    /\ \A s \in Server : task[s].pc = "ping" => task[s].row \in DOMAIN rows

LEMMA InitTypeInv == Init => TypeInv
<1>. SUFFICES ASSUME Init PROVE TypeInv
  OBVIOUS
<1>. USE DEF Init
<1>1. Idle \in TaskType /\ Idle.pc = "idle"
  BY RegistryAssumption DEF Idle, TaskType, Stamp
<1>2. lastCollection \in Stamp
  BY RegistryAssumption DEF Stamp
<1>3. rows \in Seq(SUBSET Server)
  OBVIOUS
<1>4. clock \in [Server -> 0 .. MaxPeriod]
  BY RegistryAssumption
<1>5. late \in 0 .. MaxLate /\ crashes \in 0 .. MaxCrashes /\ slow \in 0 .. MaxSlow
  BY RegistryAssumption
<1>. QED  BY <1>1, <1>2, <1>3, <1>4, <1>5 DEF TypeInv, TypeOK

(* The task of one server changes, and no row goes away.                   *)
LEMMA TaskTypeInv ==
  ASSUME TypeInv, NEW s \in Server, NEW t \in TaskType,
         task' = [task EXCEPT ![s] = t],
         t.pc = "ping" => t.row \in DOMAIN rows',
         DOMAIN rows \subseteq DOMAIN rows'
  PROVE  /\ task' \in [Server -> TaskType]
         /\ \A r \in Server : task'[r].pc = "ping" => task'[r].row \in DOMAIN rows'
BY DEF TypeInv, TypeOK

LEMMA StepTypeInv ==
  ASSUME TypeInv, NEW s \in Server, Step(s)
  PROVE  TypeInv'
<1>. USE DEF TypeInv
<1>0. Idle \in TaskType /\ [Idle EXCEPT !.pc = "query"] \in TaskType
  BY RegistryAssumption DEF Idle, TaskType, Stamp
<1>t. task[s] \in TaskType
  BY DEF TypeOK
<1>1. CASE fire(s)
  <2>1. PICK p \in (clock[s] + 1 .. MaxPeriod) \union {MaxPeriod}, second \in 0 .. 1 :
           /\ late + second <= MaxLate
           /\ clock' = [clock EXCEPT ![s] = p]
           /\ late' = late + second
           /\ task' = [task EXCEPT ![s] = [Idle EXCEPT !.pc = "elect",
                                     !.stamp = [period |-> p, second |-> second]]]
    BY <1>1 DEF fire
  <2>2. p \in 0 .. MaxPeriod
    BY RegistryAssumption DEF TypeOK
  <2>3. [Idle EXCEPT !.pc = "elect", !.stamp = [period |-> p, second |-> second]] \in TaskType
    BY <2>2, <1>0 DEF Idle, TaskType, Stamp
  <2>4. /\ task' \in [Server -> TaskType]
        /\ \A r \in Server : task'[r].pc = "ping" => task'[r].row \in DOMAIN rows'
    BY <1>1, <2>1, <2>3, TaskTypeInv DEF fire, Idle
  <2>5. clock' \in [Server -> 0 .. MaxPeriod] /\ late' \in 0 .. MaxLate
    BY <2>1, <2>2, RegistryAssumption DEF TypeOK
  <2>. QED  BY <1>1, <2>4, <2>5 DEF fire, TypeOK
<1>2. CASE updateByMoreCondition(s)
  <2>1. lastCollection' \in Stamp
    BY <1>2 DEF updateByMoreCondition, TypeOK, TaskType
  <2>2. PICK t \in TaskType : task' = [task EXCEPT ![s] = t] /\ t.pc # "ping"
    <3>1. CASE Goto(s, "collect")
      <4>1. [task[s] EXCEPT !.pc = "collect"] \in TaskType
        BY <1>t DEF TaskType
      <4>2. task' = [task EXCEPT ![s] = [task[s] EXCEPT !.pc = "collect"]]
        BY <3>1 DEF Goto, TypeOK
      <4>3. [task[s] EXCEPT !.pc = "collect"].pc # "ping"
        BY <1>t DEF TaskType
      <4>. HIDE DEF TypeInv
      <4>. QED  BY <4>1, <4>2, <4>3, Zenon
    <3>2. CASE BeginReport(s)
      <4>1. [Idle EXCEPT !.pc = "query"].pc # "ping"
        BY DEF Idle
      <4>. QED  BY <1>0, <3>2, <4>1 DEF BeginReport
    <3>. QED  BY <1>2, <3>1, <3>2 DEF updateByMoreCondition
  <2>3. /\ task' \in [Server -> TaskType]
        /\ \A r \in Server : task'[r].pc = "ping" => task'[r].row \in DOMAIN rows'
    BY <1>2, <2>2, TaskTypeInv DEF updateByMoreCondition
  <2>. QED  BY <1>2, <2>1, <2>3 DEF updateByMoreCondition, TypeOK
<1>3. CASE collectReplicaMetrics(s)
  <2>1. collections' \subseteq [by : Server, stamp : Stamp]
    BY <1>3 DEF collectReplicaMetrics, TypeOK, TaskType
  <2>2. /\ task' \in [Server -> TaskType]
        /\ \A r \in Server : task'[r].pc = "ping" => task'[r].row \in DOMAIN rows'
    BY <1>3, <1>0, TaskTypeInv DEF collectReplicaMetrics, BeginReport, Idle
  <2>. QED  BY <1>3, <2>1, <2>2 DEF collectReplicaMetrics, TypeOK
<1>4. CASE query(s)
  <2>1. PICK t \in TaskType : /\ task' = [task EXCEPT ![s] = t]
                              /\ t.pc = "ping" => t.row \in DOMAIN rows
    <3>1. CASE rows = <<>>
      <4>1. [task[s] EXCEPT !.pc = "add"] \in TaskType
        BY <1>t DEF TaskType
      <4>2. task' = [task EXCEPT ![s] = [task[s] EXCEPT !.pc = "add"]]
        BY <1>4, <3>1 DEF query, Goto, TypeOK
      <4>3. [task[s] EXCEPT !.pc = "add"].pc = "add"
        BY <1>t DEF TaskType
      <4>4. [task[s] EXCEPT !.pc = "add"].pc # "ping"
        BY <4>3
      <4>. QED  BY <4>1, <4>2, <4>4, Zenon
    <3>2. CASE rows # <<>>
      <4>1. PICK i \in DOMAIN rows :
               task' = [task EXCEPT ![s].pc = "ping", ![s].row = i, ![s].got = rows[i],
                                    ![s].asked = rows[i], ![s].ips = {s}]
        BY <1>4, <3>2 DEF query
      <4>2. i \in Nat /\ rows[i] \in SUBSET Server
        BY DEF TypeOK
      <4>. DEFINE t == [task[s] EXCEPT !.pc = "ping", !.row = i, !.got = rows[i],
                                       !.asked = rows[i], !.ips = {s}]
      <4>3. t \in TaskType /\ t.row = i
        BY <1>t, <4>2 DEF TaskType
      <4>4. task' = [task EXCEPT ![s] = t]
        BY <4>1 DEF TypeOK
      <4>. HIDE DEF t
      <4>. QED  BY <4>3, <4>4
    <3>. QED  BY <3>1, <3>2
  <2>2. /\ task' \in [Server -> TaskType]
        /\ \A r \in Server : task'[r].pc = "ping" => task'[r].row \in DOMAIN rows'
    BY <1>4, <2>1, TaskTypeInv DEF query
  <2>. QED  BY <1>4, <2>2 DEF query, TypeOK
<1>5. CASE pingDHorseServer(s)
  <2>1. PICK ip \in task[s].asked, answers \in BOOLEAN :
          /\ slow' = IF alive[ip] /\ ~ answers THEN slow + 1 ELSE slow
          /\ slow' <= MaxSlow
          /\ task' = [task EXCEPT ![s].asked = @ \ {ip},
                                  ![s].ips = IF answers THEN @ \union {ip} ELSE @]
    BY <1>5 DEF pingDHorseServer
  <2>. DEFINE t == [task[s] EXCEPT !.asked = @ \ {ip},
                                   !.ips = IF answers THEN @ \union {ip} ELSE @]
  <2>2. /\ t \in TaskType /\ t.row = task[s].row /\ t.pc = task[s].pc
        /\ task' = [task EXCEPT ![s] = t]
    <3>1. task[s] \in TaskType /\ ip \in Server
      BY DEF TypeOK, TaskType
    <3>2. t \in TaskType /\ t.row = task[s].row /\ t.pc = task[s].pc
      BY <3>1 DEF TaskType
    <3>3. task' = [task EXCEPT ![s] = t]
      BY <2>1 DEF TypeOK
    <3>. QED  BY <3>2, <3>3
  <2>3. /\ task' \in [Server -> TaskType]
        /\ \A r \in Server : task'[r].pc = "ping" => task'[r].row \in DOMAIN rows'
    BY <1>5, <2>2, TaskTypeInv DEF pingDHorseServer
  <2>4. slow' \in 0 .. MaxSlow
    BY <2>1, RegistryAssumption DEF TypeOK
  <2>. QED  BY <1>5, <2>3, <2>4 DEF pingDHorseServer, TypeOK
<1>6. ASSUME NEW costs, costs \subseteq Server, Reported(s, costs),
             rows' \in Seq(SUBSET Server), DOMAIN rows \subseteq DOMAIN rows'
      PROVE  TypeInv'
  <2>1. /\ task' \in [Server -> TaskType]
        /\ \A r \in Server : task'[r].pc = "ping" => task'[r].row \in DOMAIN rows'
    BY <1>0, <1>6, TaskTypeInv DEF Reported, Idle
  <2>2. since' \in [Server -> SUBSET Server] /\ kept' \subseteq Server
    BY <1>6 DEF Reported, TypeOK
  <2>. QED  BY <1>6, <2>1, <2>2 DEF Reported, TypeOK
<1>7. CASE updateById(s)
  <2>1. task[s].row \in DOMAIN rows /\ task[s].ips \in SUBSET Server
    BY <1>7 DEF updateById, At, TypeOK, TaskType
  <2>2. rows' \in Seq(SUBSET Server) /\ DOMAIN rows' = DOMAIN rows
    BY <1>7, <2>1 DEF updateById, TypeOK
  <2>3. since[s] \union Unanswered(s) \subseteq Server
    BY DEF Unanswered, TypeOK, TaskType
  <2>. QED  BY <1>6, <1>7, <2>2, <2>3 DEF updateById
<1>8. CASE add(s)
  <2>1. rows' \in Seq(SUBSET Server) /\ DOMAIN rows \subseteq DOMAIN rows'
    BY <1>8 DEF add, TypeOK
  <2>2. since[s] \subseteq Server
    BY DEF TypeOK
  <2>. QED  BY <1>6, <1>8, <2>1, <2>2 DEF add
<1>. QED  BY <1>1, <1>2, <1>3, <1>4, <1>5, <1>7, <1>8 DEF Step

LEMMA NextTypeInv == TypeInv /\ [Next]_vars => TypeInv'
<1>. SUFFICES ASSUME TypeInv, [Next]_vars PROVE TypeInv'
  OBVIOUS
<1>1. ASSUME NEW s \in Server, stop(s) PROVE TypeInv'
  <2>1. Idle \in TaskType /\ Idle.pc = "idle"
    BY RegistryAssumption DEF Idle, TaskType, Stamp
  <2>2. /\ task' \in [Server -> TaskType]
        /\ \A r \in Server : task'[r].pc = "ping" => task'[r].row \in DOMAIN rows'
    BY <1>1, <2>1, TaskTypeInv DEF stop
  <2>3. crashes' \in 0 .. MaxCrashes
    BY <1>1, RegistryAssumption DEF stop, TypeInv, TypeOK
  <2>. QED  BY <1>1, <2>2, <2>3 DEF stop, TypeInv, TypeOK
<1>2. ASSUME NEW s \in Server, start(s) PROVE TypeInv'
  BY <1>2 DEF start, TypeInv, TypeOK
<1>3. CASE UNCHANGED vars
  BY <1>3 DEF vars, TypeInv, TypeOK
<1>. QED  BY <1>1, <1>2, <1>3, StepTypeInv DEF Next

(* The types hold in every behaviour: rows, tasks and timestamps.          *)
THEOREM TypeCorrect == Spec => []TypeOK
<1>1. TypeInv => TypeOK
  BY DEF TypeInv
<1>. QED  BY <1>1, InitTypeInv, NextTypeInv, PTL DEF Spec

-----------------------------------------------------------------------------
(* One collector per period.  A server that has won, and a collection that *)
(* was made, hold their timestamp: no later one wins with it, because the  *)
(* stored time has reached it and only a later time replaces that.         *)
Holds(s, stamp) == task[s].pc = "collect" /\ task[s].stamp = stamp

ElectionInv ==
    /\ \A c \in collections : ~ Before(lastCollection, c.stamp)
    /\ \A s \in Server : task[s].pc = "collect" => ~ Before(lastCollection, task[s].stamp)
    /\ \A c, d \in collections : c.stamp = d.stamp => c.by = d.by
    /\ \A s \in Server : \A c \in collections : ~ Holds(s, c.stamp)
    /\ \A s, r \in Server : (Holds(s, task[r].stamp) /\ task[r].pc = "collect") => s = r

\* The order of timestamps.
LEMMA BeforeIsOrder ==
  ASSUME NEW a \in Stamp, NEW b \in Stamp, NEW c \in Stamp
  PROVE  /\ ~ Before(a, a)
         /\ Before(a, b) /\ ~ Before(a, c) => ~ Before(b, c) /\ b # c
<1>1. /\ a.period \in Int /\ b.period \in Int /\ c.period \in Int
      /\ a.second \in Int /\ b.second \in Int /\ c.second \in Int
  BY RegistryAssumption DEF Stamp
<1>. QED  BY <1>1 DEF Before

\* A server whose task is not at the collection after a step that leaves
\* the stored time and the collections alone.
LEMMA ElsewhereElectionInv ==
  ASSUME ElectionInv, task \in [Server -> TaskType], NEW s \in Server,
         \A r \in Server \ {s} : task'[r] = task[r],
         task'[s].pc # "collect",
         UNCHANGED <<lastCollection, collections>>
  PROVE  ElectionInv'
BY DEF ElectionInv, Holds

LEMMA StepElectionInv ==
  ASSUME TypeInv, ElectionInv, NEW s \in Server, Step(s)
  PROVE  ElectionInv'
<1>t. /\ task \in [Server -> TaskType] /\ task[s] \in TaskType
      /\ \A r \in Server : task[r].stamp \in Stamp
      /\ lastCollection \in Stamp
      /\ \A c \in collections : c.stamp \in Stamp
  BY DEF TypeInv, TypeOK, TaskType
<1>1. CASE fire(s) \/ query(s) \/ pingDHorseServer(s) \/ updateById(s) \/ add(s)
  <2>1. /\ \A r \in Server \ {s} : task'[r] = task[r]
        /\ task'[s].pc # "collect"
    <3>1. CASE fire(s)
      BY <1>t, <3>1 DEF fire, Idle
    <3>2. CASE query(s)
      <4>1. CASE rows = <<>>
        BY <1>t, <3>2, <4>1 DEF query, Goto, TaskType
      <4>2. CASE rows # <<>>
        <5>1. PICK i \in DOMAIN rows :
                task' = [task EXCEPT ![s].pc = "ping", ![s].row = i, ![s].got = rows[i],
                                     ![s].asked = rows[i], ![s].ips = {s}]
          BY <3>2, <4>2 DEF query
        <5>. QED  BY <1>t, <5>1 DEF TaskType
      <4>. QED  BY <4>1, <4>2
    <3>3. CASE pingDHorseServer(s)
      <4>1. task[s].pc = "ping"
        BY <3>3 DEF pingDHorseServer, At
      <4>2. PICK ip \in task[s].asked, answers \in BOOLEAN :
              task' = [task EXCEPT ![s].asked = @ \ {ip},
                                   ![s].ips = IF answers THEN @ \union {ip} ELSE @]
        BY <3>3 DEF pingDHorseServer
      <4>. QED  BY <1>t, <4>1, <4>2 DEF TaskType
    <3>4. CASE updateById(s) \/ add(s)
      BY <1>t, <3>4 DEF updateById, add, Reported, Idle
    <3>. QED  BY <1>1, <3>1, <3>2, <3>3, <3>4
  <2>2. UNCHANGED <<lastCollection, collections>>
    BY <1>1 DEF fire, query, pingDHorseServer, updateById, add, Reported
  <2>. QED  BY <1>t, <2>1, <2>2, ElsewhereElectionInv
<1>2. CASE updateByMoreCondition(s) /\ ~ Before(lastCollection, task[s].stamp)
  <2>1. /\ \A r \in Server \ {s} : task'[r] = task[r]
        /\ task'[s].pc # "collect"
    BY <1>t, <1>2 DEF updateByMoreCondition, BeginReport, Idle
  <2>2. UNCHANGED <<lastCollection, collections>>
    BY <1>2 DEF updateByMoreCondition
  <2>. QED  BY <1>t, <2>1, <2>2, ElsewhereElectionInv
<1>3. CASE updateByMoreCondition(s) /\ Before(lastCollection, task[s].stamp)
  <2>1. /\ lastCollection' = task[s].stamp /\ collections' = collections
        /\ task'[s].pc = "collect" /\ task'[s].stamp = task[s].stamp
        /\ \A r \in Server \ {s} : task'[r] = task[r]
    BY <1>t, <1>3 DEF updateByMoreCondition, Goto, TaskType
  <2>2. \A c \in collections : ~ Before(task[s].stamp, c.stamp) /\ task[s].stamp # c.stamp
    BY <1>t, <1>3, BeforeIsOrder DEF ElectionInv
  <2>3. \A r \in Server : task[r].pc = "collect" =>
            ~ Before(task[s].stamp, task[r].stamp) /\ task[s].stamp # task[r].stamp
    BY <1>t, <1>3, BeforeIsOrder DEF ElectionInv
  <2>4. ~ Before(task[s].stamp, task[s].stamp)
    BY <1>t, BeforeIsOrder
  <2>. QED  BY <2>1, <2>2, <2>3, <2>4 DEF ElectionInv, Holds
<1>4. CASE collectReplicaMetrics(s)
  <2>. DEFINE c == [by |-> s, stamp |-> task[s].stamp]
  <2>1. /\ task[s].pc = "collect" /\ lastCollection' = lastCollection
        /\ \A r \in Server \ {s} : task'[r] = task[r]
        /\ task'[s].pc = "query"
        /\ collections' \in {collections, collections \union {c}}
    BY <1>t, <1>4 DEF collectReplicaMetrics, At, BeginReport, Idle
  <2>2. /\ ~ Before(lastCollection, c.stamp)
        /\ \A d \in collections : d.stamp # c.stamp
        /\ \A r \in Server \ {s} : ~ Holds(r, c.stamp)
    BY <2>1 DEF ElectionInv, Holds
  <2>. HIDE DEF c
  <2>. QED  BY <2>1, <2>2 DEF ElectionInv, Holds
<1>. QED  BY <1>1, <1>2, <1>3, <1>4 DEF Step

LEMMA NextElectionInv == TypeInv /\ ElectionInv /\ [Next]_vars => ElectionInv'
<1>. SUFFICES ASSUME TypeInv, ElectionInv, [Next]_vars PROVE ElectionInv'
  OBVIOUS
<1>t. task \in [Server -> TaskType]
  BY DEF TypeInv, TypeOK
<1>1. ASSUME NEW s \in Server, stop(s) PROVE ElectionInv'
  BY <1>t, <1>1, ElsewhereElectionInv DEF stop, Idle
<1>2. ASSUME NEW s \in Server, start(s) PROVE ElectionInv'
  BY <1>2 DEF start, ElectionInv, Holds
<1>3. CASE UNCHANGED vars
  BY <1>3 DEF vars, ElectionInv, Holds
<1>. QED  BY <1>1, <1>2, <1>3, StepElectionInv DEF Next

(* Two servers never collect for the same timestamp, however their clocks  *)
(* differ and whichever of them stop in between (updateByMoreCondition in  *)
(* collectReplicaMetrics).                                                 *)
THEOREM CollectorUnique == Spec => []OneCollectorPerPeriod
<1>1. Init => ElectionInv
  BY DEF Init, ElectionInv, Holds, Idle
<1>2. TypeInv /\ ElectionInv => OneCollectorPerPeriod
  <2>. SUFFICES ASSUME TypeInv, ElectionInv, NEW c \in collections, NEW d \in collections,
                       c.stamp.period = d.stamp.period, c.by # d.by,
                       c.stamp.second = d.stamp.second
                PROVE  FALSE
    BY DEF OneCollectorPerPeriod
  <2>1. c.stamp \in Stamp /\ d.stamp \in Stamp
    BY DEF TypeInv, TypeOK
  <2>2. c.stamp = d.stamp
    BY <2>1 DEF Stamp
  <2>. QED  BY <2>2 DEF ElectionInv
<1>. QED  BY <1>1, <1>2, InitTypeInv, NextTypeInv, NextElectionInv, PTL DEF Spec

-----------------------------------------------------------------------------
(* The list of addresses.  While there is one row, a server that has read  *)
(* it knows of every server that has a place in it, or that one has        *)
(* reported since.  While there is none, nobody has a place.               *)
Knows(s) == CASE task[s].pc = "ping" -> task[s].got \union since[s] \union {s}
              [] OTHER -> Server

KeptInv ==
    /\ rows = <<>> => kept = {}
    /\ Len(rows) = 1 => kept \subseteq rows[1]
    /\ Len(rows) = 1 => \A s \in Server : kept \subseteq Knows(s)
    /\ \A s \in Server : task[s].pc = "ping" => s \in task[s].ips
    /\ \A s \in Server : ~ Reporting(s) => since[s] = {}

\* A step of a server that is not the end of a report.
LEMMA OtherStepKeptInv ==
  ASSUME KeptInv, NEW s \in Server,
         \A r \in Server \ {s} : task'[r] = task[r],
         UNCHANGED <<rows, kept>>,
         \A r \in Server \ {s} : since'[r] = since[r],
         ~ Reporting(s)' => since'[s] = {},
         (Reporting(s)' /\ task'[s].pc = "ping") =>
             /\ s \in task'[s].ips
             /\ Len(rows) = 1 => kept \subseteq task'[s].got \union since'[s] \union {s},
         kept \subseteq Server
  PROVE  KeptInv'
BY DEF KeptInv, Knows, Reporting

LEMMA StepKeptInv ==
  ASSUME TypeInv, KeptInv, NEW s \in Server, Step(s)
  PROVE  KeptInv'
<1>t. /\ task \in [Server -> TaskType] /\ task[s] \in TaskType
      /\ rows \in Seq(SUBSET Server) /\ kept \subseteq Server
      /\ since \in [Server -> SUBSET Server]
      /\ \A r \in Server : task[r].pc = "ping" => task[r].row \in DOMAIN rows
  BY DEF TypeInv, TypeOK
<1>1. CASE fire(s) \/ updateByMoreCondition(s) \/ collectReplicaMetrics(s)
  <2>1. /\ ~ Reporting(s) /\ ~ Reporting(s)'
        /\ \A r \in Server \ {s} : task'[r] = task[r]
        /\ UNCHANGED <<rows, kept, since>>
    <3>1. CASE fire(s)
      BY <1>t, <3>1 DEF fire, At, Idle, Reporting
    <3>2. CASE updateByMoreCondition(s)
      BY <1>t, <3>2 DEF updateByMoreCondition, At, Goto, BeginReport, Idle, Reporting, TaskType
    <3>3. CASE collectReplicaMetrics(s)
      BY <1>t, <3>3 DEF collectReplicaMetrics, At, BeginReport, Idle, Reporting
    <3>. QED  BY <1>1, <3>1, <3>2, <3>3
  <2>2. since[s] = {}
    BY <2>1 DEF KeptInv
  <2>. QED  BY <1>t, <2>1, <2>2, OtherStepKeptInv DEF Reporting
<1>2. CASE query(s) /\ rows = <<>>
  <2>1. /\ task'[s].pc = "add"
        /\ \A r \in Server \ {s} : task'[r] = task[r]
        /\ UNCHANGED <<rows, kept, since>>
    BY <1>t, <1>2 DEF query, Goto, TaskType
  <2>. QED  BY <1>t, <2>1, OtherStepKeptInv DEF Reporting
<1>3. CASE query(s) /\ rows # <<>>
  <2>1. PICK i \in DOMAIN rows :
           task' = [task EXCEPT ![s].pc = "ping", ![s].row = i, ![s].got = rows[i],
                                ![s].asked = rows[i], ![s].ips = {s}]
    BY <1>3 DEF query
  <2>2. /\ task'[s].pc = "ping" /\ task'[s].got = rows[i] /\ task'[s].ips = {s}
        /\ \A r \in Server \ {s} : task'[r] = task[r]
    BY <1>t, <2>1 DEF TaskType
  <2>3. UNCHANGED <<rows, kept, since>>
    BY <1>3 DEF query
  <2>4. Len(rows) = 1 => i = 1
    BY <1>t
  <2>5. Len(rows) = 1 => kept \subseteq task'[s].got
    BY <2>2, <2>4 DEF KeptInv
  <2>. QED  BY <1>t, <2>2, <2>3, <2>5, OtherStepKeptInv DEF Reporting
<1>4. CASE pingDHorseServer(s)
  <2>1. PICK ip \in task[s].asked, answers \in BOOLEAN :
          task' = [task EXCEPT ![s].asked = @ \ {ip},
                               ![s].ips = IF answers THEN @ \union {ip} ELSE @]
    BY <1>4 DEF pingDHorseServer
  <2>2. /\ task[s].pc = "ping" /\ task'[s].pc = "ping" /\ task'[s].got = task[s].got
        /\ task[s].ips \subseteq task'[s].ips
        /\ \A r \in Server \ {s} : task'[r] = task[r]
    BY <1>t, <1>4, <2>1 DEF pingDHorseServer, At, TaskType
  <2>3. UNCHANGED <<rows, kept, since>>
    BY <1>4 DEF pingDHorseServer
  <2>4. /\ s \in task[s].ips
        /\ Len(rows) = 1 => kept \subseteq task[s].got \union since[s] \union {s}
    BY <2>2 DEF KeptInv, Knows
  <2>. QED  BY <1>t, <2>2, <2>3, <2>4, OtherStepKeptInv DEF Reporting

\* The end of a report: those that report meanwhile learn of it.
<1>5. ASSUME NEW costs, Reported(s, costs)
      PROVE  /\ \A r \in Server : ~ Reporting(r)' => since'[r] = {}
             /\ \A r \in Server : task'[r].pc = "ping" => r # s /\ task'[r] = task[r]
             /\ \A r \in Server : task'[r].pc = "ping" => since'[r] = since[r] \union {s}
             /\ kept' = (kept \ costs) \union {s}
  BY <1>t, <1>5 DEF Reported, Reporting, Idle
<1>6. CASE updateById(s)
  <2>. DEFINE costs == since[s] \union Unanswered(s)
  <2>1. /\ Reported(s, costs) /\ task[s].pc = "ping" /\ task[s].asked = {}
        /\ rows' = [rows EXCEPT ![task[s].row] = task[s].ips]
    BY <1>6 DEF updateById, At
  <2>2. /\ task[s].row \in DOMAIN rows /\ Len(rows') = Len(rows) /\ rows' # <<>>
        /\ s \in task[s].ips
    BY <1>t, <2>1 DEF KeptInv
  <2>3. Len(rows) = 1 => rows'[1] = task[s].ips
    BY <1>t, <2>1, <2>2
  <2>4. Len(rows) = 1 => kept \ costs \subseteq task[s].ips
    BY <2>1, <2>2 DEF KeptInv, Knows, Unanswered
  <2>. HIDE DEF costs
  <2>5. Len(rows') = 1 => kept' \subseteq rows'[1]
    BY <1>5, <2>1, <2>2, <2>3, <2>4
  <2>6. Len(rows') = 1 => \A r \in Server : kept' \subseteq Knows(r)'
    BY <1>t, <1>5, <2>1, <2>2 DEF KeptInv, Knows
  <2>. QED  BY <1>5, <2>1, <2>2, <2>5, <2>6 DEF KeptInv
<1>7. CASE add(s)
  <2>1. /\ Reported(s, since[s]) /\ rows' = Append(rows, {s})
    BY <1>7 DEF add
  <2>2. /\ rows' # <<>> /\ Len(rows') = Len(rows) + 1
        /\ Len(rows') = 1 => rows = <<>> /\ rows'[1] = {s}
    BY <1>t, <2>1
  <2>3. Len(rows') = 1 => kept' = {s}
    BY <1>5, <2>1, <2>2 DEF KeptInv
  <2>4. Len(rows') = 1 => \A r \in Server : task'[r].pc # "ping"
    BY <1>t, <1>5, <2>1, <2>2
  <2>5. Len(rows') = 1 => \A r \in Server : kept' \subseteq Knows(r)'
    BY <2>3, <2>4 DEF Knows
  <2>6. \A r \in Server : task'[r].pc = "ping" => r \in task'[r].ips
    BY <1>5, <2>1 DEF KeptInv
  <2>. QED  BY <1>5, <2>1, <2>2, <2>3, <2>5, <2>6 DEF KeptInv
<1>. QED  BY <1>1, <1>2, <1>3, <1>4, <1>6, <1>7 DEF Step

LEMMA NextKeptInv == TypeInv /\ KeptInv /\ [Next]_vars => KeptInv'
<1>. SUFFICES ASSUME TypeInv, KeptInv, [Next]_vars PROVE KeptInv'
  OBVIOUS
<1>t. /\ task \in [Server -> TaskType] /\ kept \subseteq Server
      /\ since \in [Server -> SUBSET Server]
  BY DEF TypeInv, TypeOK
<1>1. ASSUME NEW s \in Server, stop(s) PROVE KeptInv'
  BY <1>t, <1>1, OtherStepKeptInv DEF stop, Idle, Reporting
<1>2. ASSUME NEW s \in Server, start(s) PROVE KeptInv'
  BY <1>2 DEF start, KeptInv, Knows, Reporting
<1>3. CASE UNCHANGED vars
  BY <1>3 DEF vars, KeptInv, Knows, Reporting
<1>. QED  BY <1>1, <1>2, <1>3, StepKeptInv DEF Next

(* As long as there is one row, every server that no overlap of reports    *)
(* and no unanswered ping has cost its place is in the list: a report      *)
(* never drops a server for any other reason (doReport).                   *)
THEOREM ListKeepsServers == Spec => []KeptServersAreListed
<1>1. Init => KeptInv
  BY DEF Init, KeptInv, Idle, Reporting
<1>2. KeptInv => KeptServersAreListed
  BY DEF KeptInv, KeptServersAreListed
<1>. QED  BY <1>1, <1>2, InitTypeInv, NextTypeInv, NextKeptInv, PTL DEF Spec

=============================================================================
