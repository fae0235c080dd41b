--------------------------- MODULE ServerRegistry ---------------------------
(***************************************************************************)
(* The periodic task of every DHorse server (Task, every ten seconds, one  *)
(* thread for all of a server's tasks): it tries to become the one that    *)
(* collects the metrics of the replicas (EnvReplicaApplicationService),    *)
(* and then puts the server's address into the list of servers that builds *)
(* are handed to (InitializingService).                                    *)
(*                                                                         *)
(* The servers share two items of the table of global configurations: the  *)
(* time of the last collection, and the list of addresses.  An update of   *)
(* the list names the row's id only: the version that doReport sets is     *)
(* neither compared nor increased by updateById.                           *)
(*                                                                         *)
(* A server's clock is counted in periods of ten seconds; clocks are not   *)
(* synchronised.  A timestamp has whole seconds: firings of one period     *)
(* format the same one, unless a server is late by a second.               *)
(***************************************************************************)
EXTENDS Integers, Sequences, FiniteSets

CONSTANTS
    Server,
    MaxPeriod,   \* bound of the clocks
    MaxLate,     \* bound of the firings that are a second late
    MaxCrashes,  \* bound of the stops
    MaxSlow      \* bound of the pings that a running server answers too late

ASSUME RegistryAssumption ==
    /\ IsFiniteSet(Server)
    /\ MaxPeriod \in Nat /\ MaxLate \in Nat /\ MaxCrashes \in Nat /\ MaxSlow \in Nat

VARIABLES
    alive, clock,
    task,          \* where a server's task is and what it has read
    lastCollection,\* item_value of COLLECT_REPLICA_METRICS_TASK_TIME
    rows,          \* the rows of SERVER_IP by their id, each a set of addresses
    late, crashes, slow,
    collections,   \* history: who collected, and for which timestamp
    since,         \* history: who has reported since this server's query
    kept           \* history: those that no overlap and no ping has cost their place

vars == <<alive, clock, task, lastCollection, rows, late, crashes, slow,
          collections, since, kept>>

-----------------------------------------------------------------------------
Stamp  == [period : 0 .. MaxPeriod, second : 0 .. 1]
\* Mutant: the update succeeds for the same timestamp again.
NotAfter(a, b) == a.period < b.period \/ (a.period = b.period /\ a.second <= b.second)
Before(a, b) == a.period < b.period \/ (a.period = b.period /\ a.second < b.second)

Idle == [pc |-> "idle", stamp |-> [period |-> 0, second |-> 0],
         row |-> 0, got |-> {}, asked |-> {}, ips |-> {}]

At(s, pc) == alive[s] /\ task[s].pc = pc
Goto(s, pc) == task' = [task EXCEPT ![s].pc = pc]
BeginReport(s) == task' = [task EXCEPT ![s] = [Idle EXCEPT !.pc = "query"]]

(* A firing: the clock has reached a later period (the server may have     *)
(* missed some), and the current time is formatted.  Bound: at the last    *)
(* period the clock stands still.                                          *)
fire(s) ==
    /\ At(s, "idle")
    /\ \E p \in (clock[s] + 1 .. MaxPeriod) \union {MaxPeriod}, second \in 0 .. 1 :
          /\ late + second <= MaxLate
          /\ clock' = [clock EXCEPT ![s] = p]
          /\ late' = late + second
          /\ task' = [task EXCEPT ![s] = [Idle EXCEPT !.pc = "elect",
                                    !.stamp = [period |-> p, second |-> second]]]
    /\ UNCHANGED <<alive, lastCollection, rows, crashes, slow, collections, since, kept>>

\* updateByMoreCondition: one statement that compares and sets the timestamp.
updateByMoreCondition(s) ==
    /\ At(s, "elect")
    /\ IF Before(lastCollection, task[s].stamp)
       THEN lastCollection' = task[s].stamp /\ Goto(s, "collect")
       ELSE UNCHANGED lastCollection /\ BeginReport(s)
    /\ UNCHANGED <<alive, clock, rows, late, crashes, slow, collections, since, kept>>

\* It may fail before it stores anything; the report comes all the same.
collectReplicaMetrics(s) ==
    /\ At(s, "collect")
    /\ collections' \in {collections,
                         collections \union {[by |-> s, stamp |-> task[s].stamp]}}
    /\ BeginReport(s)
    /\ UNCHANGED <<alive, clock, lastCollection, rows, late, crashes, slow, since, kept>>

(* The row with the latest update_time: the servers' clocks write it, so   *)
(* any of several.                                                         *)
query(s) ==
    /\ At(s, "query")
    /\ IF rows = <<>>
       THEN Goto(s, "add")
       ELSE \E i \in DOMAIN rows :
               task' = [task EXCEPT ![s].pc = "ping", ![s].row = i, ![s].got = rows[i],
                                    ![s].asked = rows[i], ![s].ips = {s}]
    /\ UNCHANGED <<alive, clock, lastCollection, rows, late, crashes, slow,
                   collections, since, kept>>

\* pingDHorseServer: no answer within a second counts as a stopped server.
\* Mutant: a server without an answer stays on the list.
pingAndKeep(s) ==
    /\ At(s, "ping")
    /\ \E ip \in task[s].asked :
          task' = [task EXCEPT ![s].asked = @ \ {ip}, ![s].ips = @ \union {ip}]
    /\ UNCHANGED <<alive, clock, lastCollection, rows, late, crashes, slow,
                   collections, since, kept>>

pingDHorseServer(s) ==
    /\ At(s, "ping")
    /\ \E ip \in task[s].asked, answers \in BOOLEAN :
          /\ answers => alive[ip]
          /\ slow' = IF alive[ip] /\ ~ answers THEN slow + 1 ELSE slow
          /\ slow' <= MaxSlow
          /\ task' = [task EXCEPT ![s].asked = @ \ {ip},
                                  ![s].ips = IF answers THEN @ \union {ip} ELSE @]
    /\ UNCHANGED <<alive, clock, lastCollection, rows, late, crashes, collections, since, kept>>

Reporting(s) == task[s].pc \in {"ping", "add"}
Unanswered(s) == task[s].got \ (task[s].asked \union task[s].ips)

\* The report is over: it costs those their place that it does not know of.
Reported(s, costs) ==
    /\ task' = [task EXCEPT ![s] = Idle]
    /\ since' = [r \in Server |-> IF r # s /\ Reporting(r) THEN since[r] \union {s} ELSE {}]
    /\ kept' = (kept \ costs) \union {s}
    /\ UNCHANGED <<alive, clock, lastCollection, late, crashes, slow, collections>>

\* Mutant: the list is written before every server has been asked.
updateEarly(s) ==
    /\ At(s, "ping")
    /\ rows' = [rows EXCEPT ![task[s].row] = task[s].ips]
    /\ Reported(s, since[s] \union Unanswered(s))

updateById(s) ==
    /\ At(s, "ping") /\ task[s].asked = {}
    /\ rows' = [rows EXCEPT ![task[s].row] = task[s].ips]
    /\ Reported(s, since[s] \union Unanswered(s))

add(s) ==
    /\ At(s, "add")
    /\ rows' = Append(rows, {s})
    /\ Reported(s, since[s])

-----------------------------------------------------------------------------
stop(s) ==
    /\ alive[s] /\ crashes < MaxCrashes
    /\ crashes' = crashes + 1
    /\ alive' = [alive EXCEPT ![s] = FALSE]
    /\ task' = [task EXCEPT ![s] = Idle]
    /\ since' = [since EXCEPT ![s] = {}]
    /\ UNCHANGED <<clock, lastCollection, rows, late, slow, collections, kept>>

start(s) ==
    /\ ~ alive[s]
    /\ alive' = [alive EXCEPT ![s] = TRUE]
    /\ UNCHANGED <<clock, task, lastCollection, rows, late, crashes, slow,
                   collections, since, kept>>

Init ==
    /\ alive \in [Server -> BOOLEAN] /\ clock = [s \in Server |-> 0]
    /\ task = [s \in Server |-> Idle]
    /\ lastCollection = [period |-> 0, second |-> 0]
    /\ rows = <<>>
    /\ late = 0 /\ crashes = 0 /\ slow = 0
    /\ collections = {} /\ since = [s \in Server |-> {}] /\ kept = {}

Step(s) == \/ fire(s) \/ updateByMoreCondition(s) \/ collectReplicaMetrics(s)
           \/ query(s) \/ pingDHorseServer(s) \/ updateById(s) \/ add(s)

Next == \E s \in Server : Step(s) \/ stop(s) \/ start(s)

Spec == Init /\ [][Next]_vars

(* The scheduler of a running server goes on.                              *)
FairSpec == Spec /\ \A s \in Server : WF_vars(Step(s))

-----------------------------------------------------------------------------
(* The type of every variable.                                             *)
TaskType == [pc : {"idle", "elect", "collect", "query", "ping", "add"},
             stamp : Stamp, row : Nat, got : SUBSET Server,
             asked : SUBSET Server, ips : SUBSET Server]

TypeOK ==
    /\ alive \in [Server -> BOOLEAN] /\ clock \in [Server -> 0 .. MaxPeriod]
    /\ task \in [Server -> TaskType]
    /\ lastCollection \in Stamp
    /\ rows \in Seq(SUBSET Server)
    /\ late \in 0 .. MaxLate /\ crashes \in 0 .. MaxCrashes /\ slow \in 0 .. MaxSlow
    /\ collections \subseteq [by : Server, stamp : Stamp]
    /\ since \in [Server -> SUBSET Server] /\ kept \subseteq Server

(* One server collects the metrics of a period, whatever the clocks of the *)
(* servers say, as long as none of them fires late ("if the update does    *)
(* not succeed, another node has run the task", collectReplicaMetrics).    *)
OneCollectorPerPeriod ==
    \A c, d \in collections :
        (c.stamp.period = d.stamp.period /\ c.by # d.by) => c.stamp.second # d.stamp.second

(* The list loses a server only for a reason: it has not reported yet, its *)
(* report came between the query and the update of another one, or it did  *)
(* not answer a ping in time.  Two first reports that overlap make two     *)
(* rows, of which this says nothing (doReport).                            *)
KeptServersAreListed == Len(rows) = 1 => kept \subseteq rows[1]

(* While there is one row, a server that stops is forgotten by those that  *)
(* go on, although a report under way may still write it back, and a       *)
(* server that runs comes back to the list again and again.                *)
RegistryFollowsServers ==
    [](Len(rows) <= 1) =>
        \A s \in Server :
            /\ (<>[](~ alive[s]) /\ <>[](\E r \in Server : alive[r]))
                    => <>[](\A i \in DOMAIN rows : s \notin rows[i])
            /\ <>[](alive[s]) => []<>(\E i \in DOMAIN rows : s \in rows[i])

=============================================================================
