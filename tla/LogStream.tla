----------------------------- MODULE LogStream ------------------------------
(***************************************************************************)
(* The log of one deployment or build on the server that runs it: a pool   *)
(* of threads sends every record to the session that watches the log and   *)
(* stores it (DeploymentPolicy.handler), viewers list what is stored and   *)
(* then watch (DeploymentDetailLogWebSocket, BuildVersionLogWebSocket),    *)
(* and sessions leave the two maps of WebSocketCache when they are closed  *)
(* or have seen no record for two minutes.                                 *)
(*                                                                         *)
(* Every operation on a map is a step of its own, so put and remove of     *)
(* WebSocketCache interleave.  Time is not modelled: any session in the    *)
(* cache may be an old one, because its last record may be old.  The web   *)
(* socket is external: a send to a closed session throws; one that meets   *)
(* another thread's send to the same session may throw, as may one to a    *)
(* lost connection.                                                        *)
(***************************************************************************)
EXTENDS Integers, Sequences, FiniteSets

CONSTANTS
    Null,
    Viewer,      \* sessions
    Thread,      \* the threads of THREAD_POOL_WRITE_LOG
    MaxRecords   \* bound of the records

ASSUME LogAssumption ==
    /\ Null \notin Viewer /\ "scheduler" \notin Viewer
    /\ MaxRecords \in Nat

VARIABLES
    emitted,     \* the records 1 .. emitted have been logged
    queue,       \* records that wait for a thread
    task,        \* what a thread does with its record
    table,       \* the stored records, in the order of their insertion
    session,     \* a session: new, open, lost (not known yet) or closed
    page,        \* the handler of the page's one message
    received,    \* the records a session has been sent
    bySession,   \* the keys of SESSION_KEY_CACHE
    byId,        \* the session of this log in BIZ_ID_KEY_CACHE
    remover,     \* the session that a call of remove is about to take out of byId
    early,       \* history: records whose session was looked up before this
                 \* session watched, and that were not stored when it listed
    watching     \* history: this session has watched without a break

vars == <<emitted, queue, task, table, session, page, received, bySession, byId,
          remover, early, watching>>

-----------------------------------------------------------------------------
Record  == 1 .. MaxRecords
Remover == Viewer \union {"scheduler"}

Idle == [pc |-> "idle", rec |-> 0, to |-> Null]

Contains(seq, r) == \E k \in DOMAIN seq : seq[k] = r

(* The entry of the log: a session stops watching when another one takes   *)
(* its place.                                                              *)
PutId(v) == /\ byId' = v
            /\ watching' = [w \in Viewer |-> watching[w] /\ w = v]

-----------------------------------------------------------------------------
(* The appender of the deployment's thread.  A record that the pool's      *)
(* queue of 1000 rejects is dropped, as if it had not been logged.         *)
writeLog ==
    /\ emitted < MaxRecords
    /\ emitted' = emitted + 1
    /\ queue' = Append(queue, emitted + 1)
    /\ UNCHANGED <<task, table, session, page, received, bySession, byId, remover,
                   early, watching>>

\* Those that have listed and do not watch yet will not be shown this record.
LookedUp(r) == [v \in Viewer |-> IF byId # v /\ page[v] \in {"putSession", "putId"}
                                 THEN early[v] \union {r} ELSE early[v]]

(* A thread takes a record and looks for the session that watches.         *)
get(t) ==
    /\ task[t].pc = "idle" /\ queue # <<>>
    /\ queue' = Tail(queue)
    /\ task' = [task EXCEPT ![t] = [pc |-> IF byId = Null THEN "insert" ELSE "send",
                                    rec |-> Head(queue), to |-> byId]]
    /\ early' = LookedUp(Head(queue))
    /\ UNCHANGED <<emitted, table, session, page, received, bySession, byId,
                   remover, watching>>

\* The exception ends the task: the record is not stored either.
SendingToo(t) == \E u \in Thread \ {t} : task[u].pc = "send" /\ task[u].to = task[t].to

\* Mutant: the exception of a send is caught, and the record is stored.
sendIgnoresErrors(t) ==
    /\ task[t].pc = "send"
    /\ session[task[t].to] # "open" \/ SendingToo(t)
    /\ task' = [task EXCEPT ![t].pc = "insert"]
    /\ UNCHANGED <<emitted, queue, table, session, page, received, bySession, byId,
                   remover, early, watching>>

sendThrows(t) ==
    /\ task[t].pc = "send"
    /\ session[task[t].to] # "open" \/ SendingToo(t)
    /\ task' = [task EXCEPT ![t] = Idle]
    /\ UNCHANGED <<emitted, queue, table, session, page, received, bySession, byId,
                   remover, early, watching>>

sendMessage(t) ==
    /\ task[t].pc = "send" /\ session[task[t].to] \in {"open", "lost"}
    /\ task' = [task EXCEPT ![t].pc = "putSession"]
    /\ received' = [received EXCEPT ![task[t].to] = Append(@, task[t].rec)]
    /\ UNCHANGED <<emitted, queue, table, session, page, bySession, byId, remover,
                   early, watching>>

putSession(t) ==
    /\ task[t].pc = "putSession"
    /\ task' = [task EXCEPT ![t].pc = "putId"]
    /\ bySession' = bySession \union {task[t].to}
    /\ UNCHANGED <<emitted, queue, table, session, page, received, byId, remover,
                   early, watching>>

putId(t) ==
    /\ task[t].pc = "putId"
    /\ task' = [task EXCEPT ![t].pc = "insert"]
    /\ PutId(task[t].to)
    /\ UNCHANGED <<emitted, queue, table, session, page, received, bySession, remover,
                   early>>

insert(t) ==
    /\ task[t].pc = "insert"
    /\ task' = [task EXCEPT ![t] = Idle]
    /\ table' = Append(table, task[t].rec)
    /\ UNCHANGED <<emitted, queue, session, page, received, bySession, byId, remover,
                   early, watching>>

-----------------------------------------------------------------------------
(* A viewer.  The page sends one message when its socket opens.            *)

\* Mutant: a session watches as soon as it is open.
openWatching(v) ==
    /\ session[v] = "new"
    /\ session' = [session EXCEPT ![v] = "open"]
    /\ page' = [page EXCEPT ![v] = "list"]
    /\ PutId(v)
    /\ UNCHANGED <<emitted, queue, task, table, received, bySession, remover, early>>

open(v) ==
    /\ session[v] = "new"
    /\ session' = [session EXCEPT ![v] = "open"]
    /\ page' = [page EXCEPT ![v] = "list"]
    /\ UNCHANGED <<emitted, queue, task, table, received, bySession, byId, remover,
                   early, watching>>

(* deploymentLog: the stored records are listed and sent; an exception of  *)
(* a send is caught.                                                       *)
list(v) ==
    /\ page[v] = "list"
    /\ page' = [page EXCEPT ![v] = "putSession"]
    /\ received' = [received EXCEPT ![v] = IF session[v] = "open" THEN @ \o table ELSE @]
    /\ early' = [early EXCEPT ![v] =
           {task[t].rec : t \in {u \in Thread : task[u].pc # "idle"}}]
    /\ UNCHANGED <<emitted, queue, task, table, session, bySession, byId, remover, watching>>

viewerPutSession(v) ==
    /\ page[v] = "putSession"
    /\ page' = [page EXCEPT ![v] = "putId"]
    /\ bySession' = bySession \union {v}
    /\ UNCHANGED <<emitted, queue, task, table, session, received, byId, remover,
                   early, watching>>

viewerPutId(v) ==
    /\ page[v] = "putId"
    /\ page' = [page EXCEPT ![v] = "done"]
    /\ byId' = v
    /\ watching' = [w \in Viewer |-> w = v]
    /\ UNCHANGED <<emitted, queue, task, table, session, received, bySession, remover, early>>

disconnect(v) ==
    /\ session[v] = "open"
    /\ session' = [session EXCEPT ![v] = "lost"]
    /\ UNCHANGED <<emitted, queue, task, table, page, received, bySession, byId, remover,
                   early, watching>>

-----------------------------------------------------------------------------
(* WebSocketCache.remove, called by removeExpired for any entry that is    *)
(* old, and by a session's close handler after the one of its message.     *)
(* One that finds no entry returns; the close handler closes anyway.       *)
\* Mutant: the session's own entry stays.
removeIdOnly(a, v) ==
    /\ remover[a] = Null
    /\ IF v \in bySession
       THEN remover' = [remover EXCEPT ![a] = v] /\ UNCHANGED session
       ELSE session' = [session EXCEPT ![v] = "closed"] /\ UNCHANGED remover
    /\ UNCHANGED <<emitted, queue, task, table, page, received, bySession, byId, early,
                   watching>>

remove(a, v) ==
    /\ remover[a] = Null
    /\ IF v \in bySession
       THEN remover' = [remover EXCEPT ![a] = v] /\ UNCHANGED session
       ELSE session' = [session EXCEPT ![v] = "closed"] /\ UNCHANGED remover
    /\ bySession' = bySession \ {v}
    /\ UNCHANGED <<emitted, queue, task, table, page, received, byId, early, watching>>

removeExpired(v) == v \in bySession /\ remove("scheduler", v)

afterConnectionClosed(v) ==
    session[v] = "lost" /\ page[v] = "done" /\ remove(v, v)

\* The entry of the log goes, whichever session it holds by now.
removeId(a) ==
    /\ remover[a] # Null
    /\ remover' = [remover EXCEPT ![a] = Null]
    /\ session' = [session EXCEPT ![remover[a]] = "closed"]
    /\ byId' = Null
    /\ watching' = [w \in Viewer |-> FALSE]
    /\ UNCHANGED <<emitted, queue, task, table, page, received, bySession, early>>

-----------------------------------------------------------------------------
Init ==
    /\ emitted = 0 /\ queue = <<>> /\ table = <<>>
    /\ task = [t \in Thread |-> Idle]
    /\ session = [v \in Viewer |-> "new"] /\ page = [v \in Viewer |-> "none"]
    /\ received = [v \in Viewer |-> <<>>]
    /\ bySession = {} /\ byId = Null
    /\ remover = [a \in Remover |-> Null]
    /\ early = [v \in Viewer |-> {}] /\ watching = [v \in Viewer |-> FALSE]

Write(t) == \/ get(t) \/ sendMessage(t) \/ sendThrows(t) \/ putSession(t) \/ putId(t) \/ insert(t)

View(v) == list(v) \/ viewerPutSession(v) \/ viewerPutId(v)

Next == \/ writeLog
        \/ \E t \in Thread : Write(t)
        \/ \E v \in Viewer : \/ open(v) \/ View(v) \/ disconnect(v)
                             \/ removeExpired(v) \/ afterConnectionClosed(v)
        \/ \E a \in Remover : removeId(a)

Spec == Init /\ [][Next]_vars

(* Threads of the pool, the handlers of a session and the scheduled task   *)
(* go on; an entry that is left alone gets old and is removed.             *)
FairSpec ==
    /\ Spec
    /\ \A t \in Thread : WF_vars(Write(t))
    /\ \A v \in Viewer : WF_vars(View(v)) /\ WF_vars(afterConnectionClosed(v))
    /\ \A v \in Viewer : WF_vars(removeExpired(v))
    /\ \A a \in Remover : WF_vars(removeId(a))

-----------------------------------------------------------------------------
(* The type of every variable.                                             *)
TypeOK ==
    /\ emitted \in 0 .. MaxRecords
    /\ queue \in Seq(Record) /\ table \in Seq(Record)
    /\ task \in [Thread -> [pc : {"idle", "send", "putSession", "putId", "insert"},
                            rec : {0} \union Record, to : Viewer \union {Null}]]
    /\ session \in [Viewer -> {"new", "open", "lost", "closed"}]
    /\ page \in [Viewer -> {"none", "list", "putSession", "putId", "done"}]
    /\ received \in [Viewer -> Seq(Record)]
    /\ bySession \subseteq Viewer /\ byId \in Viewer \union {Null}
    /\ remover \in [Remover -> Viewer \union {Null}]
    /\ early \in [Viewer -> SUBSET Record] /\ watching \in [Viewer -> BOOLEAN]

(* No viewer gets a record twice, once from the table and once from the    *)
(* pool: handler looks a session up before it stores, and a viewer lists   *)
(* before it can be looked up.                                             *)
NoRecordTwice ==
    \A v \in Viewer : \A i, j \in DOMAIN received[v] :
        received[v][i] = received[v][j] => i = j

(* A session that watches without a break has been sent every stored       *)
(* record, except those for which the pool looked for a session before     *)
(* this one watched and that were not stored when it listed.               *)
WatcherMissesOnlyEarlyRecords ==
    \A v \in Viewer : (watching[v] /\ session[v] = "open") =>
        \A k \in DOMAIN table : table[k] \in early[v] \/ Contains(received[v], table[k])

(* A session that is closed leaves SESSION_KEY_CACHE for good, although    *)
(* the pool may put it there once more after its removal.                  *)
ClosedSessionsAreForgotten ==
    \A v \in Viewer : session[v] = "closed" ~> [](v \notin bySession)

=============================================================================
