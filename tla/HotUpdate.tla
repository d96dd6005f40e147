----------------------------- MODULE HotUpdate -----------------------------
(***************************************************************************)
(* Hot update of the private data of the route server: MJHotUpdate         *)
(* (common/src/http/MJHotUpdate.cpp), its subclass PPViewUpdate            *)
(* (PPView/Server/MYHotUpdate.cpp) and the way a MQQueryProcessor thread   *)
(* uses the data (PPView/Server/MQQueryProcessor.cpp, svc).                *)
(*                                                                         *)
(* One updater thread polls the UPDATE_TIME of the monitored MySQL tables, *)
(* copies the current data object, applies the rows of the changed tables  *)
(* to the copy and publishes it as s_sharedData_new.  Processor threads    *)
(* register the object they use in s_threadData.  The old object is freed  *)
(* once no thread has it registered.                                       *)
(*                                                                         *)
(* Objects are heap addresses, which the allocator may hand out again      *)
(* after they were freed.  A row of a table is <<utime, k>>: the k-th row  *)
(* committed in second utime.                                              *)
(***************************************************************************)
EXTENDS Integers

CONSTANTS
    NThread,    \* number of processor threads, s_threadData.size()
    NTable,     \* number of monitored tables, m_updateItems.size()
    Cleared,    \* the tables whose Update clears what was held and reads
                \* the whole table again: "source" and "tag"
    Addr,       \* heap addresses of PrivateConstData objects
    NULL,       \* the null pointer
    MaxTime,    \* bound: last second of the database clock
    MaxRow      \* bound: rows committed to one table in one second

ASSUME NThreadAssumption == NThread \in Nat \ {0}
ASSUME NTableAssumption == NTable \in Nat \ {0}
ASSUME NULLAssumption == NULL \notin Addr
ASSUME BoundAssumption == MaxTime \in Nat \ {0} /\ MaxRow \in Nat

Thread == 1..NThread
Table == 1..NTable
ASSUME ClearedAssumption == Cleared \subseteq Table
Row == (1..MaxTime) \X (1..MaxRow)
NoData == [t \in Table |-> {}]

VARIABLES
    cur,        \* s_sharedData_cur._data
    new,        \* s_sharedData_new._data
    threadData, \* s_threadData[i]._data
    live,       \* the allocated objects
    content,    \* content[a][t]: the rows of table t held by object a
    readers,    \* threads that hold s_rwlock for reading
    writer,     \* TRUE while the updater holds s_rwlock for writing
    pcT,        \* control state of the processor threads
    pcU,        \* control state of start-up and of the updater's svc
    i,          \* loop index of the updater
    ptr,        \* reloadData's result before it is published
    ret,        \* reloadData's local ret: an Update of this reload failed
    lastTS,     \* MJHotUpdateItem::lastTS, per table
    newTS,      \* MJHotUpdateItem::newTS, per table
    status,     \* m_status
    joining,    \* stop() was called: its caller waits in pthread_join
    log,        \* rows committed to each table of the database
    now,        \* the database clock, in seconds
    incomplete  \* history: incomplete[a]: the tables of object a that some
                \* load or Update has read only in part

lockVars == <<readers, writer>>
dataVars == <<cur, new, live, content, incomplete>>
threadVars == <<threadData, pcT>>
tsVars == <<lastTS, newTS>>
stopVars == <<status, joining>>
dbVars == <<log, now>>
procVars == <<threadVars, lockVars>>
envVars == <<stopVars, dbVars>>
vars == <<cur, new, threadData, live, content, readers, writer, pcT, pcU, i,
          ptr, ret, lastTS, newTS, status, joining, log, now, incomplete>>

ThreadPC == {"get", "add", "adding", "takeNew", "takeCur", "parsed", "route",
             "routing", "del", "deleting"}
StartPC == {"init", "load", "start"}
SvcPC == {"sleep", "lock0", "scan", "time", "copy", "update", "lock3",
          "publish", "test", "done"}

TypeOK ==
    /\ cur \in Addr \cup {NULL}
    /\ new \in Addr \cup {NULL}
    /\ threadData \in [Thread -> Addr \cup {NULL}]
    /\ live \subseteq Addr
    /\ content \in [Addr -> [Table -> SUBSET Row]]
    /\ readers \subseteq Thread
    /\ writer \in BOOLEAN
    /\ pcT \in [Thread -> ThreadPC]
    /\ pcU \in StartPC \cup SvcPC
    /\ i \in 1..(NThread + NTable + 1)
    /\ ptr \in Addr \cup {NULL}
    /\ ret \in {0, 1}
    /\ lastTS \in [Table -> 0..MaxTime]
    /\ newTS \in [Table -> 0..MaxTime]
    /\ status \in {0, 1}
    /\ joining \in BOOLEAN
    /\ log \in [Table -> SUBSET Row]
    /\ now \in 1..MaxTime
    /\ incomplete \in [Addr -> SUBSET Table]

-----------------------------------------------------------------------------
(***************************************************************************)
(* The database (external): rows are committed while everything else runs. *)
(***************************************************************************)
\* UPDATE_TIME of a table in information_schema.tables; there is none
\* (SQL NULL) for a table nobody has written to.
UpdateTime(t) ==
    {ts \in 1..now : /\ \E r \in log[t] : r[1] = ts
                     /\ \A r \in log[t] : r[1] <= ts}

\* A row is committed with utime = the current second, the k-th of it.
Commit(t) ==
    /\ \E k \in 1..MaxRow :
          /\ {r \in log[t] : r[1] = now} = {now} \X (1..(k - 1))
          /\ log' = [log EXCEPT ![t] = @ \cup {<<now, k>>}]
    /\ UNCHANGED <<dataVars, procVars, pcU, i, ptr, ret, tsVars, stopVars,
                   now>>

Tick ==
    /\ now < MaxTime
    /\ now' = now + 1
    /\ UNCHANGED <<dataVars, procVars, pcU, i, ptr, ret, tsVars, stopVars,
                   log>>

\* Mutant: "utime > startT".
Window_Exclusive(t, startT, endT) ==
    {r \in log[t] : r[1] > startT /\ r[1] <= endT}

\* The rows "utime >= startT and utime <= endT" of a table.
Window(t, startT, endT) ==
    {r \in log[t] : r[1] >= startT /\ r[1] <= endT}

-----------------------------------------------------------------------------
(***************************************************************************)
(* s_rwlock: PTHREAD_RWLOCK_PREFER_WRITER_NONRECURSIVE_NP, so that a       *)
(* reader is also held up by a writer that only waits.                     *)
(***************************************************************************)
WriterWaits == pcU \in {"lock0", "lock3"}

readLock(p) ==
    /\ ~writer
    /\ ~WriterWaits
    /\ readers' = readers \cup {p}
    /\ UNCHANGED writer

readUnlock(p) == readers' = readers \ {p} /\ UNCHANGED writer

writeLock ==
    /\ ~writer
    /\ readers = {}
    /\ writer' = TRUE
    /\ UNCHANGED readers

writeUnlock == writer' = FALSE /\ UNCHANGED readers

-----------------------------------------------------------------------------
(***************************************************************************)
(* A processor thread: one pass of MQQueryProcessor::svc per request.      *)
(***************************************************************************)
threadFrame == UNCHANGED <<dataVars, pcU, i, ptr, ret, tsVars, envVars>>

\* The threads start after Init has loaded the data.
Get(p) ==
    /\ pcT[p] = "get"
    /\ pcU \notin {"init", "load"}
    /\ pcT' = [pcT EXCEPT ![p] = "add"]
    /\ UNCHANGED <<threadData, lockVars>> /\ threadFrame

AddLock(p) ==
    /\ pcT[p] = "add"
    /\ readLock(p)
    /\ pcT' = [pcT EXCEPT ![p] = "adding"]
    /\ UNCHANGED threadData /\ threadFrame

\* Mutant: requests keep getting the current object.
AddTest_Cur(p) ==
    /\ pcT[p] = "adding"
    /\ pcT' = [pcT EXCEPT ![p] = "takeCur"]
    /\ UNCHANGED <<threadData, lockVars>> /\ threadFrame

\* addSharedDataPtr takes the new object if there is one: the test ...
AddTest(p) ==
    /\ pcT[p] = "adding"
    /\ pcT' = [pcT EXCEPT ![p] = IF new # NULL THEN "takeNew" ELSE "takeCur"]
    /\ UNCHANGED <<threadData, lockVars>> /\ threadFrame

\* ... and the assignment.
addSharedDataPtr(p) ==
    /\ pcT[p] \in {"takeNew", "takeCur"}
    /\ threadData' = [threadData EXCEPT
                        ![p] = IF pcT[p] = "takeNew" THEN new ELSE cur]
    /\ readUnlock(p)
    /\ pcT' = [pcT EXCEPT ![p] = "parsed"]
    /\ threadFrame

\* Mutant: the rejected request is tried again.
Reject_Again(p) ==
    /\ pcT[p] = "parsed"
    /\ pcT' = [pcT EXCEPT ![p] = "add"]
    /\ UNCHANGED <<threadData, lockVars>> /\ threadFrame

\* A request that is no JSON object (-4) or has queued too long (-2) is
\* answered with an error and never gets to DoRoute.
Reject(p) ==
    /\ pcT[p] = "parsed"
    /\ pcT' = [pcT EXCEPT ![p] = "del"]
    /\ UNCHANGED <<threadData, lockVars>> /\ threadFrame

Accept(p) ==
    /\ pcT[p] = "parsed"
    /\ pcT' = [pcT EXCEPT ![p] = "route"]
    /\ UNCHANGED <<threadData, lockVars>> /\ threadFrame

RouteLock(p) ==
    /\ pcT[p] = "route"
    /\ readLock(p)
    /\ pcT' = [pcT EXCEPT ![p] = "routing"]
    /\ UNCHANGED threadData /\ threadFrame

\* While "routing", DoRoute reads the object getSharedData(p) returns.
DoRoute(p) ==
    /\ pcT[p] = "routing"
    /\ readUnlock(p)
    /\ pcT' = [pcT EXCEPT ![p] = "del"]
    /\ UNCHANGED threadData /\ threadFrame

DelLock(p) ==
    /\ pcT[p] = "del"
    /\ readLock(p)
    /\ pcT' = [pcT EXCEPT ![p] = "deleting"]
    /\ UNCHANGED threadData /\ threadFrame

delSharedDataPtr(p) ==
    /\ pcT[p] = "deleting"
    /\ threadData' = [threadData EXCEPT ![p] = NULL]
    /\ readUnlock(p)
    /\ pcT' = [pcT EXCEPT ![p] = "get"]
    /\ threadFrame

ThreadStep(p) ==
    \/ AddLock(p) \/ AddTest(p) \/ addSharedDataPtr(p)
    \/ Reject(p) \/ Accept(p)
    \/ RouteLock(p) \/ DoRoute(p) \/ DelLock(p) \/ delSharedDataPtr(p)

-----------------------------------------------------------------------------
(***************************************************************************)
(* Start-up: main calls MJHotUpdate::init, then MQQueryProcessor::Init     *)
(* loads the data, then run() creates the thread of svc.                   *)
(***************************************************************************)
\* getUpdateTime, one table per step: lastTS := newTS, and newTS := the
\* UPDATE_TIME unless the query fails or there is none.
PollTable ==
    /\ i \in Table
    /\ lastTS' = [lastTS EXCEPT ![i] = newTS[i]]
    /\ \E ts \in {newTS[i]} \cup UpdateTime(i) :
          newTS' = [newTS EXCEPT ![i] = ts]
    /\ i' = i + 1

InitPoll ==
    /\ pcU = "init"
    /\ PollTable
    /\ UNCHANGED <<dataVars, procVars, pcU, ptr, ret, envVars>>

\* MQQueryProcessor::Init: new PrivateConstData.
NewData ==
    /\ pcU = "init" /\ i = NTable + 1
    /\ \E a \in Addr \ live :
          /\ live' = live \cup {a}
          /\ content' = [content EXCEPT ![a] = NoData]
          /\ incomplete' = [incomplete EXCEPT ![a] = {}]
          /\ ptr' = a
    /\ pcU' = "load" /\ i' = 1
    /\ UNCHANGED <<cur, new, procVars, ret, tsVars, envVars>>

\* The object under construction has read some tables only in part.
ReadInPart(tables) == [incomplete EXCEPT ![ptr] = @ \cup tables]

\* PrivateLoad reads the tables one after the other; mysql_fetch_row also
\* ends the loop over the rows when the connection breaks.
LoadTable ==
    /\ pcU = "load" /\ i \in Table
    /\ \E rows \in SUBSET log[i] :
          /\ content' = [content EXCEPT ![ptr][i] = rows]
          /\ incomplete' = IF rows = log[i] THEN incomplete
                                            ELSE ReadInPart({i})
    /\ i' = i + 1
    /\ UNCHANGED <<cur, new, live, procVars, pcU, ptr, ret, tsVars, stopVars,
                   dbVars>>

\* The first table that cannot be read ends PrivateLoad; Init drops its
\* result and goes on with the tables read so far.
LoadFails ==
    /\ pcU = "load" /\ i \in Table
    /\ incomplete' = ReadInPart(i..NTable)
    /\ i' = NTable + 1
    /\ UNCHANGED <<cur, new, live, content, procVars, pcU, ptr, ret, tsVars, stopVars,
                   dbVars>>

initSharedData ==
    /\ pcU = "load" /\ i = NTable + 1
    /\ cur' = ptr /\ ptr' = NULL
    /\ pcU' = "start"
    /\ UNCHANGED <<new, live, content, incomplete, procVars, i, ret, tsVars,
                   envVars>>

-----------------------------------------------------------------------------
(***************************************************************************)
(* MJHotUpdate::svc, the updater thread.                                   *)
(***************************************************************************)
\* The first statements of svc: m_status = 1, whatever it was.
SvcStart ==
    /\ pcU = "start"
    /\ status' = 1
    /\ pcU' = "sleep"
    /\ UNCHANGED <<dataVars, procVars, i, ptr, ret, tsVars, joining, dbVars>>

\* sleep(m_interval) is over.
Wake ==
    /\ pcU = "sleep"
    /\ pcU' = IF new # NULL THEN "lock0" ELSE "time"
    /\ i' = 1
    /\ UNCHANGED <<dataVars, procVars, ptr, ret, tsVars, envVars>>

ScanLock ==
    /\ pcU = "lock0"
    /\ writeLock
    /\ pcU' = "scan"
    /\ UNCHANGED <<dataVars, threadVars, i, ptr, ret, tsVars, envVars>>

\* Mutant: s_threadData is not looked at.
ScanNext_NoCheck ==
    /\ pcU = "scan" /\ i \in Thread
    /\ i' = i + 1
    /\ UNCHANGED <<dataVars, procVars, pcU, ptr, ret, tsVars, envVars>>

ScanNext ==
    /\ pcU = "scan" /\ i \in Thread
    /\ cur # threadData[i]
    /\ i' = i + 1
    /\ UNCHANGED <<dataVars, procVars, pcU, ptr, ret, tsVars, envVars>>

\* canDel = false: give up this round.
ScanInUse ==
    /\ pcU = "scan" /\ i \in Thread
    /\ cur = threadData[i]
    /\ writeUnlock
    /\ pcU' = "test"
    /\ UNCHANGED <<dataVars, threadVars, i, ptr, ret, tsVars, envVars>>

\* canDel: the old object is freed and the new one becomes current.
DeleteOld ==
    /\ pcU = "scan" /\ i = NThread + 1
    /\ live' = live \ {cur}
    /\ content' = [content EXCEPT ![cur] = NoData]
    /\ incomplete' = [incomplete EXCEPT ![cur] = {}]
    /\ cur' = new /\ new' = NULL
    /\ writeUnlock
    /\ pcU' = "time" /\ i' = 1
    /\ UNCHANGED <<threadVars, ptr, ret, tsVars, envVars>>

Poll ==
    /\ pcU = "time"
    /\ PollTable
    /\ UNCHANGED <<dataVars, procVars, pcU, ptr, ret, envVars>>

needUpdate(t) == lastTS[t] # newTS[t]

Diff ==
    /\ pcU = "time" /\ i = NTable + 1
    /\ pcU' = IF \E t \in Table : needUpdate(t) THEN "copy" ELSE "test"
    /\ UNCHANGED <<dataVars, procVars, i, ptr, ret, tsVars, envVars>>

\* Mutant: reloadData works on the current object itself.
Copy_InPlace ==
    /\ pcU = "copy"
    /\ ptr' = cur
    /\ ret' = 0
    /\ pcU' = "update" /\ i' = 1
    /\ UNCHANGED <<dataVars, procVars, tsVars, envVars>>

\* reloadData starts from a copy of the current object.  Copy has no return
\* statement, so that either branch of "if (ret != 0)" may be taken.
Copy ==
    /\ pcU = "copy"
    /\ \E a \in Addr \ live :
          /\ live' = live \cup {a}
          /\ content' = [content EXCEPT ![a] = content[cur]]
          /\ incomplete' = [incomplete EXCEPT ![a] = incomplete[cur]]
          /\ ptr' = a
    /\ ret' = 0
    /\ pcU' = "update" /\ i' = 1
    /\ UNCHANGED <<cur, new, procVars, tsVars, envVars>>

\* The other branch frees the copy and returns NULL: svc takes every newTS
\* back, so that the next round sees the same differences.
CopyFails ==
    /\ pcU = "copy"
    /\ newTS' = lastTS
    /\ pcU' = "test"
    /\ UNCHANGED <<dataVars, procVars, i, ptr, ret, lastTS, envVars>>

SkipTable ==
    /\ pcU = "update" /\ i \in Table
    /\ ~needUpdate(i)
    /\ i' = i + 1
    /\ UNCHANGED <<dataVars, procVars, pcU, ptr, ret, tsVars, envVars>>

Updating == pcU = "update" /\ i \in Table /\ needUpdate(i)

\* The rows that the query of Update selects: those of a window of time
\* stamps, or the whole table.
Selected(t) ==
    IF t \in Cleared THEN log[t] ELSE Window(t, lastTS[t], newTS[t])

\* Mutant: every table is cleared before it is read.
UpdateTable_Clears(rows) ==
    /\ content' = [content EXCEPT ![ptr][i] = rows]
    /\ i' = i + 1
    /\ UNCHANGED <<cur, new, live, procVars, pcU, ptr, ret, tsVars, envVars>>

\* PrivateConstData::Update of one table, with the rows MySQL delivers: they
\* are added to what is held, which LoadPrivateSource and LoadTag have
\* cleared before they fetch the first of them.
UpdateTable(rows) ==
    /\ content' = [content EXCEPT ![ptr][i] =
                      IF i \in Cleared THEN rows ELSE @ \cup rows]
    /\ i' = i + 1
    /\ UNCHANGED <<cur, new, live, procVars, pcU, ptr, ret, tsVars, envVars>>

\* All the rows arrive.  A table that is read whole has nothing left of what
\* an earlier read has missed.
Update ==
    /\ Updating
    /\ UpdateTable(Selected(i))
    /\ incomplete' = [incomplete EXCEPT ![ptr] = @ \ (Cleared \cap {i})]

\* Connecting or the query fails, before anything is cleared, and the loop
\* goes on.  Not every Update reports it (UpdateTourData returns 0).
UpdateFails ==
    /\ Updating
    /\ i' = i + 1
    /\ ret' \in {ret, 1}
    /\ incomplete' = ReadInPart({i})
    /\ UNCHANGED <<cur, new, live, content, procVars, pcU, ptr, tsVars,
                   envVars>>

\* mysql_fetch_row ends early when the connection breaks: not noticed.
UpdateCutShort ==
    /\ Updating
    /\ \E rows \in SUBSET Selected(i) : UpdateTable(rows)
    /\ incomplete' = ReadInPart({i})

ReloadDone ==
    /\ pcU = "update" /\ i = NTable + 1
    /\ pcU' = "lock3"
    /\ UNCHANGED <<dataVars, procVars, i, ptr, ret, tsVars, envVars>>

PublishLock ==
    /\ pcU = "lock3"
    /\ writeLock
    /\ pcU' = "publish"
    /\ UNCHANGED <<dataVars, threadVars, i, ptr, ret, tsVars, envVars>>

Publish ==
    /\ pcU = "publish"
    /\ new' = ptr /\ ptr' = NULL
    /\ writeUnlock
    /\ pcU' = "test"
    /\ UNCHANGED <<cur, live, content, incomplete, threadVars, i, ret, tsVars,
                   envVars>>

\* while (m_status == 1)
Test ==
    /\ pcU = "test"
    /\ pcU' = IF status = 1 THEN "sleep" ELSE "done"
    /\ UNCHANGED <<dataVars, procVars, i, ptr, ret, tsVars, envVars>>

\* stop(): m_status = 0, then pthread_join, once run() has been called.
stop ==
    /\ pcU \notin {"init", "load"}
    /\ ~joining
    /\ status' = 0 /\ joining' = TRUE
    /\ UNCHANGED <<dataVars, procVars, pcU, i, ptr, ret, tsVars, dbVars>>

-----------------------------------------------------------------------------
\* init has set lastTS and newTS to selectNow's result, or to a date long
\* past when its query failed; the tables may already hold rows.
Init ==
    /\ cur = NULL /\ new = NULL /\ ptr = NULL
    /\ threadData = [p \in Thread |-> NULL]
    /\ live = {}
    /\ content = [a \in Addr |-> NoData]
    /\ readers = {} /\ writer = FALSE
    /\ pcT = [p \in Thread |-> "get"]
    /\ pcU = "init" /\ i = 1
    /\ ret = 0
    /\ now = 1
    /\ newTS \in [Table -> {0, now}]
    /\ lastTS = newTS
    /\ status = 1 /\ joining = FALSE
    /\ log = NoData
    /\ incomplete = [a \in Addr |-> {}]

Startup == InitPoll \/ NewData \/ LoadTable \/ LoadFails \/ initSharedData

Svc ==
    \/ SvcStart \/ Wake \/ ScanLock \/ ScanNext \/ ScanInUse \/ DeleteOld
    \/ Poll \/ Diff \/ Copy \/ CopyFails \/ SkipTable \/ Update
    \/ UpdateFails \/ UpdateCutShort \/ ReloadDone \/ PublishLock \/ Publish
    \/ Test

Next ==
    \/ Startup
    \/ Svc
    \/ stop
    \/ \E p \in Thread : Get(p) \/ ThreadStep(p)
    \/ \E t \in Table : Commit(t)
    \/ Tick

Spec == Init /\ [][Next]_vars

-----------------------------------------------------------------------------
(***************************************************************************)
(* Fairness.  The threads run as long as they have something to do: the    *)
(* updater's sleep ends, MySQL answers, DoRoute returns.  No fairness for  *)
(* the arrival of requests, commits, the clock or stop().  A reader may be *)
(* held up by the updater again and again, but the updater sleeps between  *)
(* two write locks and every waiting reader gets in then: strong fairness  *)
(* of the read locks.                                                      *)
(***************************************************************************)
Fairness ==
    /\ WF_vars(Startup)
    /\ WF_vars(Svc)
    /\ \A p \in Thread :
          /\ WF_vars(ThreadStep(p))
          /\ SF_vars(AddLock(p))
          /\ SF_vars(RouteLock(p))
          /\ SF_vars(DelLock(p))

FairSpec == Spec /\ Fairness

-----------------------------------------------------------------------------
(***************************************************************************)
(* Properties.                                                             *)
(***************************************************************************)
\* The object a thread has registered, between addSharedDataPtr and
\* delSharedDataPtr, is never freed, and neither are the objects that
\* s_sharedData_cur and s_sharedData_new point to.
NoUseAfterFree ==
    /\ \A p \in Thread : threadData[p] # NULL => threadData[p] \in live
    /\ \A a \in {cur, new, ptr} : a # NULL => a \in live

\* Nothing is leaked: svc owns every allocated object, so that there are
\* never more than two of them.
NoLeak == live = {cur, new, ptr} \ {NULL}

-----------------------------------------------------------------------------
(***************************************************************************)
(* The invariant that makes NoUseAfterFree and NoLeak inductive.           *)
(***************************************************************************)
\* Control states in which a thread holds s_rwlock for reading.
ReadingPC == {"adding", "takeNew", "takeCur", "routing", "deleting"}

\* s_rwlock excludes the writer from the readers.
LockInv ==
    /\ writer <=> pcU \in {"scan", "publish"}
    /\ writer => readers = {}
    /\ \A p \in Thread : pcT[p] \in ReadingPC => p \in readers

\* Which pointers are set in which phase, and that they never coincide.
PhaseInv ==
    /\ cur = NULL <=> pcU \in {"init", "load"}
    /\ ptr # NULL <=> pcU \in {"load", "update", "lock3", "publish"}
    /\ pcU \in {"lock0", "scan"} => new # NULL
    /\ new # NULL => pcU \in {"sleep", "lock0", "scan", "test", "done"}
    /\ new # NULL => new # cur
    /\ ptr # NULL => ptr # cur

\* What a thread has registered, and why the branch it has chosen in
\* addSharedDataPtr is still the right one when it makes the assignment.
RegisterInv ==
    /\ \A p \in Thread : threadData[p] \in {NULL, cur, new}
    /\ \A p \in Thread :
          /\ pcU \in {"init", "load"} => pcT[p] = "get"
          /\ pcT[p] = "takeNew" => new # NULL
          /\ pcT[p] = "takeCur" => new = NULL
          /\ pcT[p] \in {"parsed", "route", "routing", "del", "deleting"}
                => threadData[p] # NULL

\* The threads that the scan has passed do not use the current object.
ScanInv ==
    pcU = "scan" => \A p \in Thread : p < i => threadData[p] # cur

\* The counters of the loops.
IndexInv ==
    /\ pcU \in {"init", "load", "time", "update"} => i \in 1..(NTable + 1)
    /\ pcU = "lock0" => i = 1
    /\ pcU = "scan" => i \in 1..(NThread + 1)

\* The inductive invariant: the lock discipline, the life of the pointers
\* through the phases of svc, the registered objects and the scan.
HInv == TypeOK /\ LockInv /\ PhaseInv /\ RegisterInv /\ ScanInv /\ IndexInv
            /\ NoLeak

-----------------------------------------------------------------------------
\* The object that requests get from now on.
Newest == IF new # NULL THEN new ELSE cur

\* The time up to which the rows of table t must be in the newest object:
\* newTS, or lastTS from the moment getUpdateTime has moved newTS on until
\* the reload it leads to is published.
Consumed(t) ==
    IF \/ pcU \in {"copy", "update", "lock3", "publish"}
       \/ pcU = "time" /\ i > t
    THEN lastTS[t] ELSE newTS[t]

\* Of the rows of a table, those older than ts are held.
Holds(rows, held, ts) == \A r \in rows : r[1] < ts => r \in held

\* No committed row is skipped: a table that the newest object has read
\* without a failure or a cut has every row older than the last UPDATE_TIME
\* the updater acted on.  Rows of that very second may be missing until the
\* table is written again.
NoRowSkipped ==
    pcU \notin {"init", "load"} =>
        \A t \in Table \ incomplete[Newest] :
            Holds(log[t], content[Newest][t], Consumed(t))

\* No time stamp is ahead of the database clock, and neither is a row.
TimeInv ==
    \A t \in Table :
        /\ newTS[t] <= now /\ lastTS[t] <= now
        /\ \A r \in log[t] : r[1] <= now

\* An object holds no row that was not committed.
HeldInv == \A a \in Addr : \A t \in Table : content[a][t] \subseteq log[t]

\* What an object has of a table that another one had as well: all of it,
\* unless the table was cleared and then read in part.
Keeps(before, after, partly) ==
    \A t \in Table : before[t] \subseteq after[t] \/ t \in Cleared \cap partly

\* The object under construction: at start-up it has the rows of the tables
\* read so far; in a reload it has what the current object has, and the rows
\* of the tables done so far up to their new UPDATE_TIME.
BuildInv ==
    /\ pcU = "load" =>
        \A t \in Table \ incomplete[ptr] :
            t < i => Holds(log[t], content[ptr][t], newTS[t])
    /\ pcU \in {"update", "lock3", "publish"} =>
        /\ Keeps(content[cur], content[ptr], incomplete[ptr])
        /\ \A t \in Table : (pcU = "update" /\ t >= i) =>
            /\ t \in incomplete[ptr] <=> t \in incomplete[cur]
            /\ content[ptr][t] = content[cur][t]
        /\ \A t \in Table \ incomplete[ptr] :
            (pcU = "update" => t < i) => Holds(log[t], content[ptr][t], newTS[t])

\* What makes NoRowSkipped and NeverGoesBack inductive.
RowInv == TimeInv /\ HeldInv /\ NoRowSkipped /\ BuildInv

\* A request works on one immutable version: from addSharedDataPtr to
\* delSharedDataPtr the pointer of the thread and the object it points to
\* do not change, whatever the updater does.
VersionKept(p) ==
    pcT[p] \in {"parsed", "route", "routing", "del"} =>
        /\ threadData'[p] = threadData[p]
        /\ content'[threadData[p]] = content[threadData[p]]

OneVersionPerRequest == [][\A p \in Thread : VersionKept(p)]_vars

\* The data that new requests get never loses a row by a hot update, whatever
\* fails, except in one case: a table that Update clears before it reads it
\* again, when that read does not go through.
NeverGoesBack ==
    [][cur # NULL =>
         Keeps(content[Newest], (content[Newest])', (incomplete[Newest])')]_vars

\* A published version is adopted: the old object is freed and the new one
\* becomes current, unless the updater is stopped.
NewVersionAdopted == new # NULL ~> (new = NULL \/ joining)

\* Every request that a thread has taken comes to its end.
RequestsEnd == \A p \in Thread : pcT[p] = "add" ~> pcT[p] = "get"

=============================================================================
