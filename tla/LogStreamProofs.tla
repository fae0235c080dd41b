-------------------------- MODULE LogStreamProofs --------------------------
(***************************************************************************)
(* Theorems about LogStream, for any number of viewers, threads of the     *)
(* pool and records.                                                       *)
(***************************************************************************)
EXTENDS LogStream, TLAPS

-----------------------------------------------------------------------------
(* Sequences without repetition.                                           *)
Distinct(seq) == \A i, j \in DOMAIN seq : seq[i] = seq[j] => i = j

LEMMA EmptySequence ==
  /\ \A r : ~ Contains(<<>>, r)
  /\ Distinct(<<>>)
BY DEF Contains, Distinct

LEMMA AppendOne ==
  ASSUME NEW S, NEW seq \in Seq(S), NEW e \in S
  PROVE  /\ Append(seq, e) \in Seq(S)
         /\ \A r : Contains(Append(seq, e), r) <=> (Contains(seq, r) \/ r = e)
         /\ Distinct(seq) /\ ~ Contains(seq, e) => Distinct(Append(seq, e))
<1>1. /\ Append(seq, e) \in Seq(S)
      /\ DOMAIN Append(seq, e) = 1 .. Len(seq) + 1 /\ DOMAIN seq = 1 .. Len(seq)
      /\ \A k \in 1 .. Len(seq) : Append(seq, e)[k] = seq[k]
      /\ Append(seq, e)[Len(seq) + 1] = e /\ Len(seq) \in Nat
  OBVIOUS
<1>2. ASSUME NEW r PROVE Contains(Append(seq, e), r) <=> (Contains(seq, r) \/ r = e)
  BY <1>1 DEF Contains
<1>3. ASSUME Distinct(seq), ~ Contains(seq, e) PROVE Distinct(Append(seq, e))
  BY <1>1, <1>3 DEF Contains, Distinct
<1>. QED  BY <1>1, <1>2, <1>3

LEMMA TakeOne ==
  ASSUME NEW S, NEW seq \in Seq(S), seq # <<>>
  PROVE  /\ Head(seq) \in S /\ Tail(seq) \in Seq(S)
         /\ Contains(seq, Head(seq))
         /\ \A r : Contains(Tail(seq), r) => Contains(seq, r)
         /\ Distinct(seq) => Distinct(Tail(seq)) /\ ~ Contains(Tail(seq), Head(seq))
<1>1. /\ Tail(seq) \in Seq(S) /\ Head(seq) \in S /\ Len(seq) \in Nat \ {0}
      /\ DOMAIN seq = 1 .. Len(seq) /\ DOMAIN Tail(seq) = 1 .. Len(seq) - 1
      /\ Head(seq) = seq[1]
      /\ \A k \in 1 .. Len(seq) - 1 : Tail(seq)[k] = seq[k + 1]
  OBVIOUS
<1>. QED  BY <1>1 DEF Contains, Distinct

-----------------------------------------------------------------------------
(* Type correctness.  A thread at work has a record, and a session while   *)
(* it sends.                                                               *)
Sending == {"send", "putSession", "putId"}

TypeInv ==
    /\ TypeOK
    /\ \A t \in Thread : /\ task[t].pc # "idle" => task[t].rec \in Record
                         /\ task[t].pc \in Sending => task[t].to \in Viewer

LEMMA InitTypeInv == Init => TypeInv
<1>. SUFFICES ASSUME Init PROVE TypeInv
  OBVIOUS
<1>1. emitted \in 0 .. MaxRecords
  BY LogAssumption DEF Init
<1>2. received \in [Viewer -> Seq(Record)]
  BY DEF Init
<1>. QED  BY <1>1, <1>2 DEF Init, TypeInv, TypeOK, Idle, Sending

LEMMA WriteTypeInv ==
  ASSUME TypeInv, NEW t \in Thread, Write(t)
  PROVE  TypeInv'
<1>t. TypeOK
  BY DEF TypeInv
<1>1. CASE get(t)
  <2>. DEFINE new == [pc |-> IF byId = Null THEN "insert" ELSE "send",
                      rec |-> Head(queue), to |-> byId]
  <2>1. queue # <<>> /\ task' = [task EXCEPT ![t] = new] /\ queue' = Tail(queue)
    BY <1>1 DEF get
  <2>2. Head(queue) \in Record /\ Tail(queue) \in Seq(Record)
    BY <1>t, <2>1, TakeOne DEF TypeOK
  <2>3. /\ new \in [pc : {"idle", "send", "putSession", "putId", "insert"},
                    rec : {0} \union Record, to : Viewer \union {Null}]
        /\ new.rec \in Record /\ (new.pc \in Sending => new.to \in Viewer)
    BY <1>t, <2>2 DEF TypeOK, Sending
  <2>4. early' \in [Viewer -> SUBSET Record]
    BY <1>t, <1>1, <2>2 DEF get, LookedUp, TypeOK
  <2>. HIDE DEF new
  <2>. QED  BY <1>1, <2>1, <2>2, <2>3, <2>4 DEF get, TypeInv, TypeOK
<1>2. CASE sendMessage(t)
  <2>1. task[t].to \in Viewer /\ task[t].rec \in Record
    BY <1>2 DEF sendMessage, TypeInv, Sending
  <2>2. received' \in [Viewer -> Seq(Record)]
    BY <1>t, <1>2, <2>1 DEF sendMessage, TypeOK
  <2>3. /\ task' = [task EXCEPT ![t].pc = "putSession"]
        /\ UNCHANGED <<emitted, queue, table, session, page, bySession, byId, remover,
                       early, watching>>
    BY <1>2 DEF sendMessage
  <2>4. /\ task' \in [Thread -> [pc : {"idle", "send", "putSession", "putId", "insert"},
                                rec : {0} \union Record, to : Viewer \union {Null}]]
        /\ \A u \in Thread : /\ task'[u].pc # "idle" => task'[u].rec \in Record
                             /\ task'[u].pc \in Sending => task'[u].to \in Viewer
    <3>1. /\ task \in [Thread -> [pc : {"idle", "send", "putSession", "putId", "insert"},
                                 rec : {0} \union Record, to : Viewer \union {Null}]]
          /\ \A u \in Thread : /\ task[u].pc # "idle" => task[u].rec \in Record
                               /\ task[u].pc \in Sending => task[u].to \in Viewer
      BY DEF TypeInv, TypeOK
    <3>2. task' = [task EXCEPT ![t].pc = "putSession"]
      BY <2>3
    <3>. QED  BY <2>1, <3>1, <3>2
  <2>. QED  BY <2>2, <2>3, <2>4 DEF TypeInv, TypeOK
<1>3. CASE sendThrows(t)
  BY <1>3 DEF sendThrows, TypeInv, TypeOK, Idle, Sending
<1>4. CASE putSession(t)
  BY <1>4 DEF putSession, TypeInv, TypeOK, Sending
<1>5. CASE putId(t)
  BY <1>5 DEF putId, PutId, TypeInv, TypeOK, Sending
<1>6. CASE insert(t)
  <2>1. table' \in Seq(Record)
    BY <1>6 DEF insert, TypeInv, TypeOK
  <2>. QED  BY <1>6, <2>1 DEF insert, TypeInv, TypeOK, Idle, Sending
<1>. QED  BY <1>1, <1>2, <1>3, <1>4, <1>5, <1>6 DEF Write

LEMMA NextTypeInv == TypeInv /\ [Next]_vars => TypeInv'
<1>. SUFFICES ASSUME TypeInv, [Next]_vars PROVE TypeInv'
  OBVIOUS
<1>t. TypeOK
  BY DEF TypeInv
<1>1. CASE writeLog
  <2>1. emitted' \in 0 .. MaxRecords /\ emitted + 1 \in Record
    BY <1>t, <1>1, LogAssumption DEF writeLog, TypeOK, Record
  <2>2. queue' \in Seq(Record)
    BY <1>t, <1>1, <2>1 DEF writeLog, TypeOK
  <2>. QED  BY <1>1, <2>1, <2>2 DEF writeLog, TypeInv, TypeOK
<1>2. ASSUME NEW v \in Viewer, open(v) PROVE TypeInv'
  BY <1>2 DEF open, TypeInv, TypeOK
<1>3. ASSUME NEW v \in Viewer, list(v) PROVE TypeInv'
  <2>1. received' \in [Viewer -> Seq(Record)]
    BY <1>t, <1>3 DEF list, TypeOK
  <2>2. {task[t].rec : t \in {u \in Thread : task[u].pc # "idle"}} \subseteq Record
    BY DEF TypeInv
  <2>3. early' \in [Viewer -> SUBSET Record]
    BY <1>t, <1>3, <2>2 DEF list, TypeOK
  <2>. QED  BY <1>3, <2>1, <2>3 DEF list, TypeInv, TypeOK
<1>4. ASSUME NEW v \in Viewer, viewerPutSession(v) PROVE TypeInv'
  BY <1>4 DEF viewerPutSession, TypeInv, TypeOK
<1>5. ASSUME NEW v \in Viewer, viewerPutId(v) PROVE TypeInv'
  BY <1>5 DEF viewerPutId, TypeInv, TypeOK
<1>6. ASSUME NEW v \in Viewer, disconnect(v) PROVE TypeInv'
  BY <1>6 DEF disconnect, TypeInv, TypeOK
<1>7. ASSUME NEW v \in Viewer, NEW a \in Remover, remove(a, v) PROVE TypeInv'
  BY <1>7 DEF remove, TypeInv, TypeOK
<1>8. ASSUME NEW a \in Remover, removeId(a) PROVE TypeInv'
  BY <1>8 DEF removeId, TypeInv, TypeOK
<1>9. CASE UNCHANGED vars
  BY <1>9 DEF vars, TypeInv, TypeOK
<1>. QED
  BY <1>1, <1>2, <1>3, <1>4, <1>5, <1>6, <1>7, <1>8, <1>9, WriteTypeInv
     DEF Next, View, removeExpired, afterConnectionClosed, Remover

(* The types hold in every behaviour: records, threads, sessions, caches.  *)
THEOREM TypeCorrect == Spec => []TypeOK
<1>1. TypeInv => TypeOK
  BY DEF TypeInv
<1>. QED  BY <1>1, InitTypeInv, NextTypeInv, PTL DEF Spec

-----------------------------------------------------------------------------
(* Where the records are.  A viewer that has not listed has been sent      *)
(* nothing, and no thread sends to one that does not watch yet; a record   *)
(* waits, is at work or is stored in one place at most.                    *)
Busy(t) == task[t].pc # "idle"

PagesOK ==
    \A v \in Viewer :
        /\ page[v] \in {"none", "list"} => received[v] = <<>>
        /\ session[v] = "new" => page[v] = "none"
        /\ page[v] # "done" => byId # v /\ \A t \in Thread : task[t].to # v
        /\ watching[v] => page[v] = "done" /\ byId = v

PlacesOK ==
    /\ Distinct(queue) /\ \A r : Contains(queue, r) => r <= emitted
    /\ Distinct(table) /\ \A r : Contains(table, r) => r <= emitted /\ ~ Contains(queue, r)
    /\ \A t \in Thread : Busy(t) => /\ task[t].rec <= emitted
                                    /\ ~ Contains(queue, task[t].rec)
                                    /\ ~ Contains(table, task[t].rec)
    /\ \A t, u \in Thread : (Busy(t) /\ Busy(u) /\ task[t].rec = task[u].rec) => t = u

ReceivedOK ==
    /\ \A v \in Viewer : /\ Distinct(received[v])
                         /\ \A r : Contains(received[v], r) => /\ r <= emitted
                                                               /\ ~ Contains(queue, r)
    /\ \A t \in Thread : task[t].pc = "send" =>
           ~ Contains(received[task[t].to], task[t].rec)

(* A session that has listed has, or will have, or never will have for a   *)
(* reason that 'early' records, every record that is at work or stored.    *)
Listed(v) == page[v] \in {"putSession", "putId"} \/ watching[v]

CoveredOK ==
    \A v \in Viewer : (Listed(v) /\ session[v] = "open") =>
        /\ \A r : Contains(table, r) => r \in early[v] \/ Contains(received[v], r)
        /\ \A t \in Thread : Busy(t) =>
               \/ task[t].rec \in early[v]
               \/ Contains(received[v], task[t].rec)
               \/ task[t].to = v /\ task[t].pc = "send"

StreamInv == PagesOK /\ PlacesOK /\ ReceivedOK /\ CoveredOK

LEMMA InitStreamInv == Init => StreamInv
<1>. SUFFICES ASSUME Init PROVE StreamInv
  OBVIOUS
<1>1. /\ queue = <<>> /\ table = <<>> /\ byId = Null
      /\ \A t \in Thread : task[t].pc = "idle" /\ task[t].to = Null
      /\ \A v \in Viewer : /\ session[v] = "new" /\ page[v] = "none" /\ received[v] = <<>>
                           /\ ~ watching[v] /\ v # Null
  BY LogAssumption DEF Init, Idle
<1>2. PagesOK /\ CoveredOK
  BY <1>1 DEF PagesOK, CoveredOK, Listed
<1>3. PlacesOK /\ ReceivedOK
  BY <1>1, EmptySequence DEF PlacesOK, ReceivedOK, Busy
<1>. QED  BY <1>2, <1>3 DEF StreamInv

\* Steps that touch no record and no page.
LEMMA CacheStepStreamInv ==
  ASSUME StreamInv,
         UNCHANGED <<emitted, queue, task, table, page, received, early>>,
         \A v \in Viewer : session'[v] \in {"new", "open"} => session'[v] = session[v],
         \A v \in Viewer : watching'[v] => watching[v] /\ byId' = byId,
         \A v \in Viewer : byId' = v => byId = v
  PROVE  StreamInv'
BY DEF StreamInv, PagesOK, PlacesOK, ReceivedOK, CoveredOK, Busy, Listed

LEMMA WriteLogStreamInv ==
  ASSUME TypeInv, StreamInv, writeLog
  PROVE  StreamInv'
<1>1. /\ emitted \in Nat /\ emitted' = emitted + 1
      /\ queue \in Seq(Record) /\ queue' = Append(queue, emitted')
      /\ emitted' \in Record
  BY LogAssumption DEF writeLog, TypeInv, TypeOK, Record
<1>2. /\ \A r : Contains(queue', r) <=> (Contains(queue, r) \/ r = emitted')
      /\ Distinct(queue) /\ ~ Contains(queue, emitted') => Distinct(queue')
  BY <1>1, AppendOne
<1>3. /\ ~ Contains(queue, emitted') /\ ~ Contains(table, emitted')
      /\ \A v \in Viewer : ~ Contains(received[v], emitted')
      /\ \A t \in Thread : Busy(t) => task[t].rec # emitted'
  BY <1>1 DEF StreamInv, PlacesOK, ReceivedOK
<1>4. /\ \A r : Contains(queue, r) => r \in Int
      /\ \A r : Contains(table, r) => r \in Int
      /\ \A v \in Viewer : \A r : Contains(received[v], r) => r \in Int
      /\ \A t \in Thread : task[t].rec \in Int
  <2>1. Record \subseteq Int /\ 0 \in Int
    BY DEF Record
  <2>2. /\ \A k \in DOMAIN queue : queue[k] \in Record
        /\ \A k \in DOMAIN table : table[k] \in Record
        /\ \A v \in Viewer : \A k \in DOMAIN received[v] : received[v][k] \in Record
    BY DEF TypeInv, TypeOK
  <2>3. \A t \in Thread : task[t].rec \in {0} \union Record
    BY DEF TypeInv, TypeOK
  <2>. QED  BY <2>1, <2>2, <2>3 DEF Contains
<1>5. UNCHANGED <<task, table, session, page, received, byId, early, watching>>
  BY DEF writeLog
<1>6. PagesOK' /\ CoveredOK'
  BY <1>5 DEF StreamInv, PagesOK, CoveredOK, Busy, Listed
<1>7. PlacesOK'
  BY <1>1, <1>2, <1>3, <1>4, <1>5 DEF StreamInv, PlacesOK, Busy
<1>8. ReceivedOK'
  <2>1. ASSUME NEW v \in Viewer, NEW r, Contains(received[v], r)
        PROVE  r <= emitted' /\ ~ Contains(queue', r)
    <3>1. r <= emitted /\ ~ Contains(queue, r) /\ r \in Int
      BY <1>4, <2>1 DEF StreamInv, ReceivedOK
    <3>2. r # emitted'
      BY <1>3, <2>1
    <3>. HIDE DEF Contains
    <3>. QED  BY <1>1, <1>2, <3>1, <3>2
  <2>2. /\ \A v \in Viewer : Distinct(received[v])
        /\ \A t \in Thread : task[t].pc = "send" =>
               ~ Contains(received[task[t].to], task[t].rec)
    BY DEF StreamInv, ReceivedOK
  <2>. QED  BY <1>5, <2>1, <2>2 DEF ReceivedOK
<1>. QED  BY <1>6, <1>7, <1>8 DEF StreamInv

\* A record leaves the queue: the session that watches gets it.
LEMMA GetStreamInv ==
  ASSUME TypeInv, StreamInv, NEW t \in Thread, get(t)
  PROVE  StreamInv'
<1>. DEFINE rec == Head(queue)
<1>1. /\ task \in [Thread -> [pc : {"idle", "send", "putSession", "putId", "insert"},
                             rec : {0} \union Record, to : Viewer \union {Null}]]
      /\ queue \in Seq(Record) /\ queue # <<>>
      /\ early \in [Viewer -> SUBSET Record]
  BY DEF TypeInv, TypeOK, get
<1>2. /\ Contains(queue, rec) /\ rec \in Record
      /\ \A r : Contains(Tail(queue), r) => Contains(queue, r)
      /\ Distinct(Tail(queue)) /\ ~ Contains(Tail(queue), rec)
  BY <1>1, TakeOne DEF StreamInv, PlacesOK
<1>. HIDE DEF rec
<1>3. /\ queue' = Tail(queue) /\ early' = LookedUp(rec)
      /\ task'[t] = [pc |-> IF byId = Null THEN "insert" ELSE "send", rec |-> rec, to |-> byId]
      /\ \A u \in Thread \ {t} : task'[u] = task[u]
      /\ UNCHANGED <<emitted, table, session, page, received, byId, watching>>
  BY <1>1 DEF get, rec
<1>4. PagesOK'
  BY <1>3 DEF StreamInv, PagesOK
<1>5. PlacesOK'
  <2>1. /\ rec <= emitted /\ ~ Contains(table, rec)
        /\ \A u \in Thread : Busy(u) => task[u].rec # rec
    BY <1>2 DEF StreamInv, PlacesOK
  <2>2. task'[t].rec = rec
    BY <1>3
  <2>3. \A u \in Thread \ {t} : task'[u] = task[u] /\ (Busy(u)' <=> Busy(u))
    BY <1>3 DEF Busy
  <2>4. \A u, w \in Thread : (Busy(u)' /\ Busy(w)' /\ task'[u].rec = task'[w].rec) => u = w
    BY <2>1, <2>2, <2>3 DEF StreamInv, PlacesOK
  <2>5. \A u \in Thread : Busy(u)' => /\ task'[u].rec <= emitted'
                                      /\ ~ Contains(queue', task'[u].rec)
                                      /\ ~ Contains(table', task'[u].rec)
    BY <1>2, <1>3, <2>1, <2>2, <2>3 DEF StreamInv, PlacesOK
  <2>. QED  BY <1>2, <1>3, <2>4, <2>5 DEF StreamInv, PlacesOK
<1>6. ReceivedOK'
  <2>1. \A v \in Viewer : ~ Contains(received[v], rec)
    BY <1>2 DEF StreamInv, ReceivedOK
  <2>2. task'[t].pc = "send" => byId \in Viewer
    BY <1>3 DEF TypeInv, TypeOK
  <2>3. task'[t].pc = "send" => ~ Contains(received'[task'[t].to], task'[t].rec)
    BY <1>3, <2>1, <2>2
  <2>. QED  BY <1>2, <1>3, <2>3 DEF StreamInv, ReceivedOK
<1>7. CoveredOK'
  <2>. SUFFICES ASSUME NEW v \in Viewer, Listed(v), session[v] = "open"
                PROVE  /\ \A r : Contains(table, r) =>
                                   r \in early'[v] \/ Contains(received[v], r)
                       /\ \A u \in Thread : Busy(u)' =>
                              \/ task'[u].rec \in early'[v]
                              \/ Contains(received[v], task'[u].rec)
                              \/ task'[u].to = v /\ task'[u].pc = "send"
    BY <1>3 DEF CoveredOK, Listed
  <2>1. early[v] \subseteq early'[v]
    BY <1>1, <1>3 DEF LookedUp
  <2>2. rec \in early'[v] \/ byId = v
    BY <1>1, <1>3 DEF LookedUp, Listed, StreamInv, PagesOK
  <2>3. byId = v => task'[t].to = v /\ task'[t].pc = "send"
    BY <1>3, LogAssumption
  <2>4. \A u \in Thread \ {t} : task'[u] = task[u] /\ (Busy(u)' <=> Busy(u))
    BY <1>3 DEF Busy
  <2>5. task'[t].rec = rec
    BY <1>3
  <2>. QED  BY <2>1, <2>2, <2>3, <2>4, <2>5 DEF StreamInv, CoveredOK
<1>. QED  BY <1>4, <1>5, <1>6, <1>7 DEF StreamInv

LEMMA SendStreamInv ==
  ASSUME TypeInv, StreamInv, NEW t \in Thread, sendMessage(t)
  PROVE  StreamInv'
<1>. DEFINE v == task[t].to
            rec == task[t].rec
<1>1. /\ task[t].pc = "send" /\ v \in Viewer /\ rec \in Record
      /\ received[v] \in Seq(Record)
  BY DEF sendMessage, TypeInv, TypeOK, Sending
<1>a. /\ received'[v] = Append(received[v], rec)
      /\ \A w \in Viewer \ {v} : received'[w] = received[w]
  BY <1>1 DEF sendMessage, TypeInv, TypeOK
<1>b. /\ task'[t].pc = "putSession"
      /\ \A u \in Thread \ {t} : task'[u] = task[u]
      /\ \A u \in Thread : /\ task'[u].rec = task[u].rec
                           /\ task'[u].to = task[u].to
                           /\ (task'[u].pc # "idle") <=> (task[u].pc # "idle")
  BY <1>1 DEF sendMessage, TypeInv, TypeOK
<1>c. UNCHANGED <<emitted, queue, table, session, page, byId, early, watching>>
  BY DEF sendMessage
<1>3. /\ \A r : Contains(received'[v], r) <=> (Contains(received[v], r) \/ r = rec)
      /\ Distinct(received[v]) /\ ~ Contains(received[v], rec) => Distinct(received'[v])
  BY <1>1, <1>a, AppendOne
<1>4. /\ ~ Contains(received[v], rec) /\ Distinct(received[v])
      /\ rec <= emitted /\ ~ Contains(queue, rec)
      /\ \A u \in Thread : Busy(u) /\ task[u].rec = rec => u = t
  BY <1>1 DEF StreamInv, PlacesOK, ReceivedOK, Busy
<1>. HIDE DEF v, rec
<1>5. PagesOK'
  <2>1. page[v] = "done"
    BY <1>1 DEF StreamInv, PagesOK, v
  <2>2. \A w \in Viewer : page[w] \in {"none", "list"} => received'[w] = <<>>
    BY <1>a, <2>1 DEF StreamInv, PagesOK
  <2>3. \A w \in Viewer : page[w] # "done" => \A u \in Thread : task'[u].to # w
    BY <1>b DEF StreamInv, PagesOK
  <2>. QED  BY <1>c, <2>2, <2>3 DEF StreamInv, PagesOK
<1>6. PlacesOK'
  BY <1>b, <1>c DEF StreamInv, PlacesOK, Busy
<1>7. ReceivedOK'
  <2>1. ASSUME NEW w \in Viewer
        PROVE  /\ Distinct(received'[w])
               /\ \A r : Contains(received'[w], r) => r <= emitted /\ ~ Contains(queue, r)
    BY <1>a, <1>3, <1>4 DEF StreamInv, ReceivedOK
  <2>2. ASSUME NEW u \in Thread, task'[u].pc = "send"
        PROVE  ~ Contains(received'[task'[u].to], task'[u].rec)
    <3>1. u # t /\ task'[u] = task[u] /\ task[u].rec # rec /\ task[u].to \in Viewer
      BY <1>b, <1>4, <2>2 DEF Busy, TypeInv, Sending
    <3>. QED  BY <1>a, <1>3, <2>2, <3>1 DEF StreamInv, ReceivedOK
  <2>. QED  BY <1>c, <2>1, <2>2 DEF ReceivedOK
<1>8. CoveredOK'
  <2>. SUFFICES ASSUME NEW w \in Viewer, Listed(w), session[w] = "open"
                PROVE  /\ \A r : Contains(table, r) =>
                                   r \in early[w] \/ Contains(received'[w], r)
                       /\ \A u \in Thread : Busy(u) =>
                              \/ task[u].rec \in early[w]
                              \/ Contains(received'[w], task[u].rec)
                              \/ task[u].to = w /\ task'[u].pc = "send"
    BY <1>b, <1>c DEF CoveredOK, Listed, Busy
  <2>1. \A r : Contains(received[w], r) => Contains(received'[w], r)
    BY <1>a, <1>3
  <2>2. task[t].to = w => Contains(received'[w], task[t].rec)
    BY <1>3 DEF v, rec
  <2>. QED  BY <1>b, <2>1, <2>2 DEF StreamInv, CoveredOK, Busy
<1>. QED  BY <1>5, <1>6, <1>7, <1>8 DEF StreamInv

\* A thread goes on, or gives its record up, without a word to a viewer.
LEMMA OwnStepStreamInv ==
  ASSUME TypeInv, StreamInv, NEW t \in Thread,
         \A u \in Thread \ {t} : task'[u] = task[u],
         task'[t] = Idle \/ /\ Busy(t) /\ task[t].pc # "send" /\ task'[t].pc # "send"
                            /\ task'[t].rec = task[t].rec /\ task'[t].to = task[t].to,
         UNCHANGED <<emitted, queue, table, session, page, received, early>>,
         byId' \in {byId, task[t].to},
         \A v \in Viewer : watching'[v] => watching[v] /\ byId' = v
  PROVE  StreamInv'
<1>1. PagesOK'
  BY LogAssumption DEF StreamInv, PagesOK, Idle
<1>2. PlacesOK'
  BY DEF StreamInv, PlacesOK, Busy, Idle
<1>3. ReceivedOK'
  BY DEF StreamInv, ReceivedOK, Idle
<1>4. CoveredOK'
  BY DEF StreamInv, CoveredOK, Listed, Busy, Idle
<1>. QED  BY <1>1, <1>2, <1>3, <1>4 DEF StreamInv

\* A record at work is stored.
LEMMA InsertStreamInv ==
  ASSUME TypeInv, StreamInv, NEW t \in Thread, insert(t)
  PROVE  StreamInv'
<1>. DEFINE rec == task[t].rec
<1>1. /\ task[t].pc = "insert" /\ Busy(t) /\ rec \in Record /\ table \in Seq(Record)
  BY DEF insert, TypeInv, TypeOK, Busy
<1>2. /\ table' = Append(table, rec)
      /\ task'[t] = Idle /\ \A u \in Thread \ {t} : task'[u] = task[u]
      /\ UNCHANGED <<emitted, queue, session, page, received, byId, early, watching>>
  BY DEF insert, TypeInv, TypeOK
<1>3. /\ \A r : Contains(table', r) <=> (Contains(table, r) \/ r = rec)
      /\ Distinct(table) /\ ~ Contains(table, rec) => Distinct(table')
  BY <1>1, <1>2, AppendOne
<1>4. /\ rec <= emitted /\ ~ Contains(table, rec) /\ ~ Contains(queue, rec)
      /\ \A u \in Thread \ {t} : Busy(u) => task[u].rec # rec
  BY <1>1 DEF StreamInv, PlacesOK
<1>5. \A v \in Viewer : (Listed(v) /\ session[v] = "open") =>
          rec \in early[v] \/ Contains(received[v], rec)
  BY <1>1 DEF StreamInv, CoveredOK
<1>. HIDE DEF rec
<1>6. /\ ~ Busy(t)' /\ task'[t].to = Null /\ task'[t].pc = "idle"
      /\ \A u \in Thread \ {t} : Busy(u)' <=> Busy(u)
  BY <1>2 DEF Idle, Busy
<1>7. PagesOK'
  BY <1>2, <1>6, LogAssumption DEF StreamInv, PagesOK
<1>8. PlacesOK'
  <2>1. \A u \in Thread : Busy(u)' => u # t /\ task'[u] = task[u] /\ Busy(u)
    BY <1>2, <1>6
  <2>2. \A u \in Thread : Busy(u)' => /\ task'[u].rec <= emitted
                                      /\ ~ Contains(queue, task'[u].rec)
                                      /\ ~ Contains(table', task'[u].rec)
    BY <1>3, <1>4, <2>1 DEF StreamInv, PlacesOK
  <2>3. \A u, w \in Thread : (Busy(u)' /\ Busy(w)' /\ task'[u].rec = task'[w].rec) => u = w
    BY <2>1 DEF StreamInv, PlacesOK
  <2>. QED  BY <1>2, <1>3, <1>4, <2>2, <2>3 DEF StreamInv, PlacesOK
<1>9. ReceivedOK'
  BY <1>2, <1>6 DEF StreamInv, ReceivedOK
<1>10. CoveredOK'
  BY <1>2, <1>3, <1>5, <1>6 DEF StreamInv, CoveredOK, Listed
<1>. QED  BY <1>7, <1>8, <1>9, <1>10 DEF StreamInv

\* A viewer is sent what is stored, and so knows what it will not be sent.
LEMMA ListStreamInv ==
  ASSUME TypeInv, StreamInv, NEW v \in Viewer, list(v)
  PROVE  StreamInv'
<1>1. /\ page[v] = "list" /\ received[v] = <<>> /\ table \in Seq(Record)
  BY DEF list, StreamInv, PagesOK, TypeInv, TypeOK
<1>2. received[v] \o table = table
  BY <1>1
<1>3. /\ received'[v] = IF session[v] = "open" THEN table ELSE <<>>
      /\ \A w \in Viewer \ {v} : received'[w] = received[w]
  BY <1>1, <1>2 DEF list, TypeInv, TypeOK
<1>4. /\ page'[v] = "putSession"
      /\ \A w \in Viewer \ {v} : page'[w] = page[w]
      /\ early'[v] = {task[t].rec : t \in {u \in Thread : task[u].pc # "idle"}}
      /\ \A w \in Viewer \ {v} : early'[w] = early[w]
  BY DEF list, TypeInv, TypeOK
<1>5. UNCHANGED <<emitted, queue, task, table, session, byId, watching>>
  BY DEF list
<1>6. PagesOK'
  BY <1>1, <1>3, <1>4, <1>5 DEF StreamInv, PagesOK
<1>7. PlacesOK'
  BY <1>5 DEF StreamInv, PlacesOK, Busy
<1>8. ReceivedOK'
  <2>1. /\ Distinct(received'[v])
        /\ \A r : Contains(received'[v], r) => r <= emitted /\ ~ Contains(queue, r)
    BY <1>3, EmptySequence DEF StreamInv, PlacesOK
  <2>2. \A t \in Thread : task[t].pc = "send" => task[t].to \in Viewer \ {v}
    BY <1>1 DEF StreamInv, PagesOK, TypeInv, Sending
  <2>. QED  BY <1>3, <1>5, <2>1, <2>2 DEF StreamInv, ReceivedOK
<1>9. CoveredOK'
  <2>1. session[v] = "open" => \A r : Contains(table, r) => Contains(received'[v], r)
    BY <1>3
  <2>2. \A t \in Thread : Busy(t) => task[t].rec \in early'[v]
    BY <1>4 DEF Busy
  <2>3. \A w \in Viewer \ {v} : Listed(w)' <=> Listed(w)
    BY <1>4, <1>5 DEF Listed
  <2>. QED  BY <1>3, <1>4, <1>5, <2>1, <2>2, <2>3 DEF StreamInv, CoveredOK, Busy
<1>. QED  BY <1>6, <1>7, <1>8, <1>9 DEF StreamInv

\* The other steps of a viewer.
LEMMA ViewerStreamInv ==
  ASSUME TypeInv, StreamInv, NEW v \in Viewer,
         open(v) \/ viewerPutSession(v) \/ viewerPutId(v) \/ disconnect(v)
  PROVE  StreamInv'
<1>1. UNCHANGED <<emitted, queue, task, table, received, early>>
  BY DEF open, viewerPutSession, viewerPutId, disconnect
<1>2. PlacesOK' /\ ReceivedOK'
  BY <1>1 DEF StreamInv, PlacesOK, ReceivedOK, Busy
<1>t. page \in [Viewer -> {"none", "list", "putSession", "putId", "done"}]
  BY DEF TypeInv, TypeOK
<1>3. CASE open(v)
  <2>1. /\ session[v] = "new" /\ page[v] = "none" /\ page'[v] = "list"
        /\ \A w \in Viewer \ {v} : session'[w] = session[w] /\ page'[w] = page[w]
        /\ UNCHANGED <<byId, watching>>
    BY <1>3 DEF open, StreamInv, PagesOK, TypeInv, TypeOK
  <2>2. session'[v] = "open"
    BY <1>3 DEF open, TypeInv, TypeOK
  <2>3. PagesOK'
    BY <1>1, <2>1, <2>2 DEF StreamInv, PagesOK
  <2>4. ~ watching[v]
    BY <2>1 DEF StreamInv, PagesOK
  <2>5. CoveredOK'
    BY <1>1, <2>1, <2>4 DEF StreamInv, CoveredOK, Listed, Busy
  <2>. QED  BY <1>2, <2>3, <2>5 DEF StreamInv
<1>4. CASE viewerPutSession(v)
  <2>1. /\ page[v] = "putSession" /\ page'[v] = "putId"
        /\ \A w \in Viewer \ {v} : page'[w] = page[w]
        /\ UNCHANGED <<session, byId, watching>>
    BY <1>t, <1>4 DEF viewerPutSession
  <2>2. PagesOK'
    BY <1>1, <2>1 DEF StreamInv, PagesOK
  <2>3. CoveredOK'
    BY <1>1, <2>1 DEF StreamInv, CoveredOK, Listed, Busy
  <2>. QED  BY <1>2, <2>2, <2>3 DEF StreamInv
<1>5. CASE viewerPutId(v)
  <2>1. /\ page[v] = "putId" /\ page'[v] = "done" /\ byId' = v
        /\ \A w \in Viewer \ {v} : page'[w] = page[w]
        /\ \A w \in Viewer : watching'[w] <=> w = v
        /\ session' = session
    BY <1>t, <1>5 DEF viewerPutId
  <2>2. PagesOK'
    BY <1>1, <2>1 DEF StreamInv, PagesOK
  <2>3. CoveredOK'
    BY <1>1, <2>1 DEF StreamInv, CoveredOK, Listed, Busy
  <2>. QED  BY <1>2, <2>2, <2>3 DEF StreamInv
<1>6. CASE disconnect(v)
  <2>1. /\ \A w \in Viewer : session'[w] \in {"new", "open"} => session'[w] = session[w]
        /\ UNCHANGED <<page, byId, watching>>
    BY <1>6 DEF disconnect, TypeInv, TypeOK
  <2>. QED  BY <1>1, <2>1, CacheStepStreamInv
<1>. QED  BY <1>3, <1>4, <1>5, <1>6

LEMMA NextStreamInv == TypeInv /\ StreamInv /\ [Next]_vars => StreamInv'
<1>. SUFFICES ASSUME TypeInv, StreamInv, [Next]_vars PROVE StreamInv'
  OBVIOUS
<1>t. /\ task \in [Thread -> [pc : {"idle", "send", "putSession", "putId", "insert"},
                             rec : {0} \union Record, to : Viewer \union {Null}]]
      /\ watching \in [Viewer -> BOOLEAN]
  BY DEF TypeInv, TypeOK
<1>1. ASSUME NEW t \in Thread, sendThrows(t) \/ putSession(t) PROVE StreamInv'
  <2>1. /\ \A u \in Thread \ {t} : task'[u] = task[u]
        /\ UNCHANGED <<emitted, queue, table, session, page, received, early, byId, watching>>
    <3>1. CASE sendThrows(t)
      BY <1>t, <3>1 DEF sendThrows
    <3>2. CASE putSession(t)
      BY <1>t, <3>2 DEF putSession
    <3>. QED  BY <1>1, <3>1, <3>2
  <2>2. task'[t] = Idle \/ /\ Busy(t) /\ task[t].pc # "send" /\ task'[t].pc # "send"
                           /\ task'[t].rec = task[t].rec /\ task'[t].to = task[t].to
    BY <1>t, <1>1 DEF sendThrows, putSession, Busy
  <2>3. \A v \in Viewer : watching'[v] => watching[v] /\ byId' = v
    BY <2>1 DEF StreamInv, PagesOK
  <2>. QED  BY <2>1, <2>2, <2>3, OwnStepStreamInv
<1>2. ASSUME NEW t \in Thread, putId(t) PROVE StreamInv'
  <2>1. /\ \A u \in Thread \ {t} : task'[u] = task[u]
        /\ Busy(t) /\ task[t].pc # "send" /\ task'[t].pc # "send"
        /\ task'[t].rec = task[t].rec /\ task'[t].to = task[t].to
    BY <1>t, <1>2 DEF putId, Busy
  <2>2. /\ byId' = task[t].to
        /\ \A v \in Viewer : watching'[v] => watching[v] /\ byId' = v
        /\ UNCHANGED <<emitted, queue, table, session, page, received, early>>
    BY <1>2 DEF putId, PutId
  <2>. QED  BY <2>1, <2>2, OwnStepStreamInv
<1>3. ASSUME NEW v \in Viewer, NEW a \in Remover, remove(a, v) PROVE StreamInv'
  <2>1. /\ UNCHANGED <<emitted, queue, task, table, page, received, early, byId, watching>>
        /\ \A w \in Viewer : session'[w] \in {"new", "open"} => session'[w] = session[w]
    BY <1>3 DEF remove, TypeInv, TypeOK
  <2>. QED  BY <2>1, CacheStepStreamInv
<1>4. ASSUME NEW a \in Remover, removeId(a) PROVE StreamInv'
  <2>1. /\ UNCHANGED <<emitted, queue, task, table, page, received, early>>
        /\ \A w \in Viewer : session'[w] \in {"new", "open"} => session'[w] = session[w]
        /\ \A w \in Viewer : ~ watching'[w] /\ byId' # w
    BY <1>4, LogAssumption DEF removeId, TypeInv, TypeOK
  <2>. QED  BY <2>1, CacheStepStreamInv
<1>5. CASE UNCHANGED vars
  BY <1>5, CacheStepStreamInv DEF vars
<1>. QED
  BY <1>1, <1>2, <1>3, <1>4, <1>5, WriteLogStreamInv, GetStreamInv, SendStreamInv,
     InsertStreamInv, ListStreamInv, ViewerStreamInv
     DEF Next, Write, View, removeExpired, afterConnectionClosed, Remover

-----------------------------------------------------------------------------
(* No viewer gets a record from the table and once more from the pool,     *)
(* whatever threads, viewers and removals do in between (handler,          *)
(* deploymentLog, WebSocketCache).                                         *)
THEOREM RecordsComeOnce == Spec => []NoRecordTwice
<1>1. StreamInv => NoRecordTwice
  BY DEF StreamInv, ReceivedOK, Distinct, NoRecordTwice
<1>. QED  BY <1>1, InitTypeInv, NextTypeInv, InitStreamInv, NextStreamInv, PTL DEF Spec

(* Nothing that is stored escapes a session that watches without a break,  *)
(* but for the records that came between its list and its first watch.     *)
THEOREM WatcherSeesTheRest == Spec => []WatcherMissesOnlyEarlyRecords
<1>1. StreamInv => WatcherMissesOnlyEarlyRecords
  <2>. SUFFICES ASSUME StreamInv, NEW v \in Viewer, watching[v], session[v] = "open",
                       NEW k \in DOMAIN table
                PROVE  table[k] \in early[v] \/ Contains(received[v], table[k])
    BY DEF WatcherMissesOnlyEarlyRecords
  <2>1. Contains(table, table[k])
    BY DEF Contains
  <2>. QED  BY <2>1 DEF StreamInv, CoveredOK, Listed
<1>. QED  BY <1>1, InitTypeInv, NextTypeInv, InitStreamInv, NextStreamInv, PTL DEF Spec

=============================================================================
