------------------------------ MODULE EgoWorker ------------------------------
(***************************************************************************)
(* The Ego ingestion worker (internal/ego/worker.go) over its storage      *)
(* (internal/ego/storage.go): Record puts a usage event on a bounded       *)
(* channel without ever blocking, one goroutine (flushLoop) moves events   *)
(* from the channel into a batch and inserts the batch in one SQLite       *)
(* transaction, Stop closes a channel, waits for the goroutine and closes  *)
(* the database.  Handlers of other goroutines reset and prune the table   *)
(* and switch collection on and off meanwhile.                             *)
(*                                                                         *)
(* One worker, from Start to the end of the process.  Everything Storage   *)
(* does under its mutex is one action.  The fields of an event are         *)
(* abstracted to its identity, its timestamp and whether it parses.        *)
(***************************************************************************)
EXTENDS Naturals, Sequences, FiniteSets

CONSTANTS Events,     \* one per call of Record
          Malformed,  \* the calls whose bytes are empty or do not unmarshal
          Stamp,      \* the timestamp of each event
          Cutoffs,    \* the timestamps PruneOlderThan may cut at
          QueueCap,   \* capacity of the channel, 2048 in GetWorker
          BatchSize,  \* events per transaction, 50 in GetWorker
          Stoppers,   \* the goroutines that may call Stop
          Setters     \* the goroutines that may call SetEnabled

ASSUME QueueAssumption == QueueCap \in Nat \ {0} /\ BatchSize \in Nat \ {0}
ASSUME EventsAssumption == /\ Malformed \subseteq Events
                           /\ Stamp \in [Events -> Nat]
                           /\ Cutoffs \subseteq Nat

VARIABLES call,     \* where each Record call is, and how it ended
          enabled,  \* Worker.enabled
          setting,  \* each SetEnabled call between its two writes
          queue,    \* Worker.queue
          batch,    \* flushLoop's local batch
          loop,     \* flushLoop's place
          stopCh,   \* TRUE when Worker.stopCh is closed
          stop,     \* where each Stop call is
          store,    \* the database handle: "open", "closed", or "absent"
          rows,     \* how many rows of ego_events each event has
          config    \* what the next start reads for "enabled" in ego_config

(* History, read by no action: events of a batch whose insert failed,      *)
(* events whose rows were deleted, and how many of the oldest unsettled    *)
(* events were already accepted when stopCh was closed.                    *)
VARIABLES lost, erased, owed

callVars == <<call, enabled, setting, config>>
loopVars == <<batch, loop>>
stopVars == <<stopCh, stop>>
dbVars   == <<store, rows, lost, erased>>
vars == <<callVars, queue, loopVars, stopVars, dbVars, owed>>

-----------------------------------------------------------------------------
Elems(s) == {s[i] : i \in DOMAIN s}

(* How often e occurs in the batch: one INSERT is executed per occurrence. *)
Copies(e) == Cardinality({i \in DOMAIN batch : batch[i] = e})

Flushing == {"insert", "drainInsert", "finalInsert"}

(* Worker as GetWorker leaves it: a storage that opened, with the setting  *)
(* it holds; or no storage at all, and collection off.                     *)
Init ==
    /\ call = [e \in Events |-> "idle"]
    /\ setting = [c \in Setters |-> "none"]
    /\ queue = <<>>
    /\ batch = <<>>
    /\ loop = "select"
    /\ stopCh = FALSE
    /\ stop = [s \in Stoppers |-> "idle"]
    /\ rows = [e \in Events |-> 0]
    /\ config \in BOOLEAN
    /\ \/ store = "open" /\ enabled = config
       \/ store = "absent" /\ enabled = FALSE
    /\ lost = {} /\ erased = {} /\ owed = 0

-----------------------------------------------------------------------------
(* Record: the flag and the bytes are looked at first, the channel later;  *)
(* everything may happen in between.                                       *)
Check(e) ==
    /\ call[e] = "idle"
    /\ call' = [call EXCEPT ![e] =
                   IF enabled /\ e \notin Malformed THEN "checked" ELSE "refused"]
    /\ UNCHANGED <<enabled, setting, config, queue, loopVars, stopVars, dbVars, owed>>

SendUnchecked(e) ==  \* fault: the channel has no limit
    /\ call[e] = "checked"
    /\ queue' = Append(queue, e)
    /\ call' = [call EXCEPT ![e] = "queued"]
    /\ UNCHANGED <<enabled, setting, config, loopVars, stopVars, dbVars, owed>>

Send(e) ==
    /\ call[e] = "checked"
    /\ IF Len(queue) < QueueCap
       THEN /\ queue' = Append(queue, e)
            /\ call' = [call EXCEPT ![e] = "queued"]
       ELSE /\ call' = [call EXCEPT ![e] = "dropped"]
            /\ UNCHANGED queue
    /\ UNCHANGED <<enabled, setting, config, loopVars, stopVars, dbVars, owed>>

(* SetEnabled writes the flag, then ego_config; the second write takes the *)
(* storage lock and its error is ignored.                                  *)
StoreFlag(c, v) ==
    /\ setting[c] = "none"
    /\ enabled' = v
    /\ setting' = [setting EXCEPT ![c] =
                      IF store = "absent" THEN "none" ELSE IF v THEN "true" ELSE "false"]
    /\ UNCHANGED <<call, config, queue, loopVars, stopVars, dbVars, owed>>

SaveFlag(c) ==
    /\ setting[c] # "none"
    /\ setting' = [setting EXCEPT ![c] = "none"]
    /\ config' \in {config} \cup (IF store = "open" THEN {setting[c] = "true"} ELSE {})
    /\ UNCHANGED <<call, enabled, queue, loopVars, stopVars, dbVars, owed>>

-----------------------------------------------------------------------------
(* flushLoop.  Take moves one event to the batch; a full batch is inserted *)
(* before anything else is received.                                       *)
Take(here, full) ==
    /\ loop = here
    /\ queue # <<>>
    /\ batch' = Append(batch, Head(queue))
    /\ queue' = Tail(queue)
    /\ loop' = IF Len(batch') >= BatchSize THEN full ELSE here
    /\ UNCHANGED <<callVars, stopVars, dbVars, owed>>

Receive == Take("select", "insert")

TickFull ==  \* fault: only a full batch is flushed on a tick
    /\ loop = "select"
    /\ Len(batch) >= BatchSize
    /\ loop' = "insert"
    /\ UNCHANGED <<callVars, queue, batch, stopVars, dbVars, owed>>

(* A tick with an empty batch changes nothing. *)
Tick ==
    /\ loop = "select"
    /\ batch # <<>>
    /\ loop' = "insert"
    /\ UNCHANGED <<callVars, queue, batch, stopVars, dbVars, owed>>

NoticeStop ==
    /\ loop = "select"
    /\ stopCh
    /\ loop' = "drain"
    /\ UNCHANGED <<callVars, queue, batch, stopVars, dbVars, owed>>

Drain == Take("drain", "drainInsert")

DrainEndUnflushed ==  \* fault: the loop returns without the last flush
    /\ loop = "drain"
    /\ queue = <<>>
    /\ loop' = "done"
    /\ UNCHANGED <<callVars, queue, batch, stopVars, dbVars, owed>>

DrainEndBreak ==  \* fault: break for return leaves the inner select only
    /\ loop = "drain"
    /\ queue = <<>>
    /\ loop' = IF batch = <<>> THEN "select" ELSE "insert"
    /\ UNCHANGED <<callVars, queue, batch, stopVars, dbVars, owed>>

(* The inner select's default: the queue was seen empty, once. *)
DrainEnd ==
    /\ loop = "drain"
    /\ queue = <<>>
    /\ loop' = IF batch = <<>> THEN "done" ELSE "finalInsert"
    /\ UNCHANGED <<callVars, queue, batch, stopVars, dbVars, owed>>

FlushedKept ==  \* fault: the batch is not emptied
    /\ loop \in Flushing
    /\ loop' = CASE loop = "insert"      -> "select"
                 [] loop = "drainInsert" -> "drain"
                 [] loop = "finalInsert" -> "done"
    /\ owed' = IF owed > Len(batch) THEN owed - Len(batch) ELSE 0
    /\ UNCHANGED <<callVars, queue, batch, stopVars>>

(* What flush leaves whatever InsertBatch returned. *)
Flushed ==
    /\ loop \in Flushing
    /\ batch' = <<>>
    /\ loop' = CASE loop = "insert"      -> "select"
                 [] loop = "drainInsert" -> "drain"
                 [] loop = "finalInsert" -> "done"
    /\ owed' = IF owed > Len(batch) THEN owed - Len(batch) ELSE 0
    /\ UNCHANGED <<callVars, queue, stopVars>>

InsertBatch ==
    /\ Flushed
    /\ store = "open"
    /\ rows' = [e \in Events |-> rows[e] + Copies(e)]
    /\ UNCHANGED <<store, lost, erased>>

InsertFailsPartly ==  \* fault: no transaction, the first row stays
    /\ Flushed
    /\ rows' = [rows EXCEPT ![batch[1]] = @ + 1]
    /\ lost' = lost \cup Elems(Tail(batch))
    /\ UNCHANGED <<store, erased>>

(* The transaction is rolled back, or there is no storage; the batch is    *)
(* forgotten all the same.                                                 *)
InsertFails ==
    /\ Flushed
    /\ lost' = lost \cup Elems(batch)
    /\ UNCHANGED <<store, rows, erased>>

-----------------------------------------------------------------------------
(* Stop, inside its sync.Once: the first caller closes stopCh, waits for   *)
(* flushLoop and closes the database; the others wait for the first.       *)
CallStop(s) ==
    /\ stop[s] = "idle"
    /\ IF \A t \in Stoppers : stop[t] = "idle"
       THEN /\ stopCh' = TRUE
            /\ stop' = [stop EXCEPT ![s] = "waiting"]
            /\ owed' = Len(batch) + Len(queue)
       ELSE /\ stop' = [stop EXCEPT ![s] = "blocked"]
            /\ UNCHANGED <<stopCh, owed>>
    /\ UNCHANGED <<callVars, queue, loopVars, dbVars>>

CloseAtOnce(s) ==  \* fault: no wg.Wait
    /\ stop[s] = "waiting"
    /\ stop' = [stop EXCEPT ![s] = "returned"]
    /\ store' = IF store = "open" THEN "closed" ELSE store
    /\ UNCHANGED <<callVars, queue, loopVars, stopCh, rows, lost, erased, owed>>

CloseStorage(s) ==
    /\ stop[s] = "waiting"
    /\ loop = "done"
    /\ stop' = [stop EXCEPT ![s] = "returned"]
    /\ store' = IF store = "open" THEN "closed" ELSE store
    /\ UNCHANGED <<callVars, queue, loopVars, stopCh, rows, lost, erased, owed>>

OnceDone(s) ==
    /\ stop[s] = "blocked"
    /\ \E t \in Stoppers : stop[t] = "returned"
    /\ stop' = [stop EXCEPT ![s] = "returned"]
    /\ UNCHANGED <<callVars, queue, loopVars, stopCh, dbVars, owed>>

-----------------------------------------------------------------------------
(* ResetDatabase and PruneOlderThan, called by the HTTP handlers.  After   *)
(* Close they return an error and change nothing.                          *)
Delete(S) ==
    /\ store = "open"
    /\ rows' = [e \in Events |-> IF e \in S THEN 0 ELSE rows[e]]
    /\ erased' = erased \cup {e \in S : rows[e] > 0}
    /\ UNCHANGED <<callVars, queue, loopVars, stopVars, store, lost, owed>>

ResetDatabase == Delete(Events)

PruneOlderThan(cutoff) == Delete({e \in Events : Stamp[e] < cutoff})

-----------------------------------------------------------------------------
FlushLoop == \/ Receive \/ Tick \/ NoticeStop \/ Drain \/ DrainEnd
             \/ InsertBatch \/ InsertFails

Next ==
    \/ \E e \in Events : Check(e) \/ Send(e)
    \/ \E c \in Setters : SaveFlag(c) \/ \E v \in BOOLEAN : StoreFlag(c, v)
    \/ FlushLoop
    \/ \E s \in Stoppers : CallStop(s) \/ CloseStorage(s) \/ OnceDone(s)
    \/ ResetDatabase
    \/ \E cutoff \in Cutoffs : PruneOlderThan(cutoff)

Spec == Init /\ [][Next]_vars

(* Goroutines that can run do run.  Nothing obliges anyone to call Record, *)
(* SetEnabled or Stop, nor to reset or prune.                              *)
FairSpec ==
    /\ Spec
    /\ \A e \in Events : WF_vars(Send(e))
    /\ \A c \in Setters : WF_vars(SaveFlag(c))
    /\ WF_vars(FlushLoop)
    /\ \A s \in Stoppers : WF_vars(CloseStorage(s)) /\ WF_vars(OnceDone(s))

-----------------------------------------------------------------------------
(* Every variable keeps its type, the channel its capacity, and the batch  *)
(* is below the flush threshold whenever flushLoop waits for something.    *)
TypeOK ==
    /\ call \in [Events -> {"idle", "checked", "queued", "dropped", "refused"}]
    /\ enabled \in BOOLEAN /\ config \in BOOLEAN
    /\ setting \in [Setters -> {"none", "true", "false"}]
    /\ queue \in Seq(Events) /\ Len(queue) <= QueueCap
    /\ batch \in Seq(Events) /\ Len(batch) <= BatchSize
    /\ loop \in Flushing \cup {"select", "drain", "done"}
    /\ loop \in {"select", "drain"} => Len(batch) < BatchSize
    /\ stopCh \in BOOLEAN
    /\ stop \in [Stoppers -> {"idle", "waiting", "blocked", "returned"}]
    /\ store \in {"open", "closed", "absent"}
    /\ rows \in [Events -> Nat]
    /\ lost \subseteq Events /\ erased \subseteq Events
    /\ owed \in Nat

One(condition) == IF condition THEN 1 ELSE 0

(* Every event Record accepted is in exactly one place, once: waiting in   *)
(* the channel, in the batch, in one row of ego_events, or gone with a     *)
(* failed insert or a deletion; every other event is nowhere.  So no event *)
(* is counted twice, and none comes back after a reset.                    *)
Accounted ==
    \A e \in Events :
        Cardinality({i \in DOMAIN queue : queue[i] = e}) + Copies(e)
            + rows[e] + One(e \in lost) + One(e \in erased)
        = One(call[e] = "queued")

(* When a Stop has returned, every event accepted before stopCh was closed *)
(* has been handed to InsertBatch, and flushLoop holds none.               *)
StopSettles ==
    (\E s \in Stoppers : stop[s] = "returned") => owed = 0 /\ batch = <<>>

(* The database is closed only after flushLoop has ended: no batch is ever *)
(* inserted into a handle Stop has closed.                                 *)
CloseIsLast == store = "closed" => loop = "done"

(* Worker implements the bounded first-in first-out buffer of EgoDelivery: *)
(* the batch is the front of the buffer and the channel the rest of it.    *)
Delivery == INSTANCE EgoDelivery WITH
    Cap     <- QueueCap + BatchSize,
    offered <- {e \in Events : call[e] \in {"queued", "dropped", "refused"}},
    pending <- batch \o queue,
    phase   <- IF \E s \in Stoppers : stop[s] = "returned" THEN "down"
               ELSE IF stopCh THEN "stopping" ELSE "up"

ImplementsDelivery == Delivery!Spec

(* An event accepted before Stop is asked for does not stay in memory.     *)
EventuallySettled ==
    \A e \in Events :
        (~stopCh /\ e \in Elems(batch \o queue)) ~> e \notin Elems(batch \o queue)

(* Every call of Stop returns, the first and the ones that wait for it.    *)
StopReturns == \A s \in Stoppers : stop[s] # "idle" ~> stop[s] = "returned"

(* What cliproxyPluginShutdown and ShutdownWorker promise: the channel is  *)
(* flushed when they return.  Record takes no notice of stopCh, so an      *)
(* event sent after flushLoop's last look at the channel stays in it.      *)
ShutdownFlushesQueue ==
    (\E s \in Stoppers : stop[s] = "returned") => queue = <<>>
=============================================================================
