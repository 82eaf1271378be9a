--------------------------- MODULE EgoWorkerProofs ---------------------------
(***************************************************************************)
(* Proofs about EgoWorker, for every set of events, every capacity, every  *)
(* batch size and any number of goroutines calling Stop and SetEnabled.    *)
(***************************************************************************)
EXTENDS EgoWorker, TLAPS, FiniteSetTheorems, SequenceTheorems

(* A row count stays a count: a batch holds an event a finite number of    *)
(* times.                                                                  *)
LEMMA CopiesInNat ==
    ASSUME batch \in Seq(Events), NEW e
    PROVE  Copies(e) \in Nat
<1> DEFINE Places == {i \in DOMAIN batch : batch[i] = e}
<1>1. DOMAIN batch = 1..Len(batch) /\ Len(batch) \in Nat
  BY LenProperties
<1>2. IsFiniteSet(1..Len(batch))
  BY <1>1, FS_Interval
<1>3. IsFiniteSet(Places)
  BY <1>1, <1>2, FS_Subset
<1>4. Cardinality(Places) \in Nat
  BY <1>3, FS_CardinalityType
<1> QED
  BY <1>4 DEF Copies

(* What moving one event from the channel to the batch does to both.       *)
LEMMA TakeMoves ==
    ASSUME queue \in Seq(Events), queue # <<>>, batch \in Seq(Events),
           batch' = Append(batch, Head(queue)), queue' = Tail(queue)
    PROVE  /\ queue' \in Seq(Events) /\ Len(queue') = Len(queue) - 1
           /\ batch' \in Seq(Events) /\ Len(batch') = Len(batch) + 1
           /\ Len(queue) \in Nat /\ Len(batch) \in Nat
<1>1. Head(queue) \in Events /\ Tail(queue) \in Seq(Events)
      /\ Len(Tail(queue)) = Len(queue) - 1
  BY HeadTailProperties
<1>2. Append(batch, Head(queue)) \in Seq(Events)
      /\ Len(Append(batch, Head(queue))) = Len(batch) + 1
  BY <1>1, AppendProperties
<1> QED
  BY <1>1, <1>2, LenProperties

-----------------------------------------------------------------------------
(* TypeOK is inductive as it stands. *)
LEMMA TypeInit == Init => TypeOK
<1> USE QueueAssumption
<1> SUFFICES ASSUME Init PROVE TypeOK
  OBVIOUS
<1>1. <<>> \in Seq(Events) /\ Len(<<>>) = 0
  BY EmptySeq
<1>2. enabled \in BOOLEAN /\ config \in BOOLEAN /\ stopCh \in BOOLEAN
  BY ZenonT(20) DEF Init
<1>3. /\ call = [e \in Events |-> "idle"] /\ setting = [c \in Setters |-> "none"]
      /\ queue = <<>> /\ batch = <<>> /\ loop = "select"
      /\ stop = [s \in Stoppers |-> "idle"] /\ store \in {"open", "absent"}
      /\ rows = [e \in Events |-> 0] /\ lost = {} /\ erased = {} /\ owed = 0
  BY ZenonT(20) DEF Init
<1>4. rows \in [Events -> Nat] /\ owed \in Nat
  BY <1>3
<1> QED
  BY <1>1, <1>2, <1>3, <1>4 DEF TypeOK, Flushing

LEMMA TypeStep == TypeOK /\ [Next]_vars => TypeOK'
<1> USE QueueAssumption DEF callVars, loopVars, stopVars, dbVars
<1> SUFFICES ASSUME TypeOK, [Next]_vars PROVE TypeOK'
  OBVIOUS
<1>0. Len(queue) \in Nat /\ Len(batch) \in Nat
  BY LenProperties DEF TypeOK
<1>1. ASSUME NEW e \in Events, Check(e) PROVE TypeOK'
  BY <1>1 DEF Check, TypeOK, Flushing
<1>2. ASSUME NEW e \in Events, Send(e) PROVE TypeOK'
  <2>1. CASE Len(queue) < QueueCap
    <3>1. queue' = Append(queue, e) /\ call' = [call EXCEPT ![e] = "queued"]
      BY <1>2, <2>1 DEF Send
    <3>2. queue' \in Seq(Events) /\ Len(queue') = Len(queue) + 1
      BY <3>1, AppendProperties DEF TypeOK
    <3>3. Len(queue') <= QueueCap
      BY <1>0, <2>1, <3>2
    <3> QED
      BY <1>2, <3>1, <3>2, <3>3 DEF Send, TypeOK, Flushing
  <2>2. CASE ~ (Len(queue) < QueueCap)
    BY <1>2, <2>2 DEF Send, TypeOK, Flushing
  <2> QED
    BY <2>1, <2>2
<1>3. ASSUME NEW c \in Setters, SaveFlag(c) PROVE TypeOK'
  <2>1. config' \in BOOLEAN
    BY <1>3 DEF SaveFlag, TypeOK
  <2> QED
    BY <1>3, <2>1 DEF SaveFlag, TypeOK, Flushing
<1>4. ASSUME NEW c \in Setters, NEW v \in BOOLEAN, StoreFlag(c, v) PROVE TypeOK'
  BY <1>4 DEF StoreFlag, TypeOK, Flushing
<1>5. ASSUME NEW here, NEW full, Take(here, full),
             <<here, full>> \in {<<"select", "insert">>, <<"drain", "drainInsert">>}
      PROVE  TypeOK'
  <2>1. /\ queue' \in Seq(Events) /\ Len(queue') = Len(queue) - 1
        /\ batch' \in Seq(Events) /\ Len(batch') = Len(batch) + 1
    BY <1>5, TakeMoves DEF Take, TypeOK
  <2>2. Len(batch) < BatchSize
    BY <1>5 DEF Take, TypeOK
  <2>3. loop' = IF Len(batch') >= BatchSize THEN full ELSE here
    BY <1>5 DEF Take
  <2>4. Len(queue') <= QueueCap /\ Len(batch') <= BatchSize
    BY <1>0, <2>1, <2>2 DEF TypeOK
  <2>5. /\ loop' \in {"select", "drain", "insert", "drainInsert"}
        /\ loop' \in {"select", "drain"} => Len(batch') < BatchSize
    BY <1>0, <1>5, <2>1, <2>3
  <2>6. UNCHANGED <<callVars, stopVars, dbVars, owed>>
    BY <1>5 DEF Take
  <2> QED
    BY <2>1, <2>4, <2>5, <2>6 DEF TypeOK, Flushing
<1>6. CASE Tick
  BY <1>6 DEF Tick, TypeOK, Flushing
<1>7. CASE NoticeStop
  BY <1>7 DEF NoticeStop, TypeOK, Flushing
<1>8. CASE DrainEnd
  BY <1>8 DEF DrainEnd, TypeOK, Flushing
<1>9. ASSUME Flushed
      PROVE  /\ batch' = <<>> /\ batch' \in Seq(Events) /\ Len(batch') = 0
             /\ loop' \in {"select", "drain", "done"} /\ owed' \in Nat
             /\ UNCHANGED <<callVars, queue, stopVars>>
  BY <1>0, <1>9, EmptySeq DEF Flushed, Flushing, TypeOK
<1>10. CASE InsertBatch
  <2>1. rows' \in [Events -> Nat]
    BY <1>10, CopiesInNat DEF InsertBatch, TypeOK
  <2> QED
    BY <1>9, <1>10, <2>1 DEF InsertBatch, TypeOK, Flushing
<1>11. CASE InsertFails
  <2>1. Elems(batch) \subseteq Events
    BY LenProperties DEF Elems, TypeOK
  <2> QED
    BY <1>9, <1>11, <2>1 DEF InsertFails, TypeOK, Flushing
<1>12. ASSUME NEW s \in Stoppers, CallStop(s) PROVE TypeOK'
  <2>1. owed' \in Nat
    BY <1>0, <1>12 DEF CallStop, TypeOK
  <2>4. stopCh' \in BOOLEAN
    BY <1>12, ZenonT(20) DEF CallStop, TypeOK
  <2>2. stop' \in [Stoppers -> {"idle", "waiting", "blocked", "returned"}]
    BY <1>12 DEF CallStop, TypeOK
  <2>3. UNCHANGED <<callVars, queue, loopVars, dbVars>>
    BY <1>12 DEF CallStop
  <2> QED
    BY <2>1, <2>2, <2>3, <2>4 DEF TypeOK, Flushing
<1>13. ASSUME NEW s \in Stoppers, CloseStorage(s) PROVE TypeOK'
  BY <1>13 DEF CloseStorage, TypeOK, Flushing
<1>14. ASSUME NEW s \in Stoppers, OnceDone(s) PROVE TypeOK'
  BY <1>14 DEF OnceDone, TypeOK, Flushing
<1>15. ASSUME NEW S \in SUBSET Events, Delete(S) PROVE TypeOK'
  BY <1>15 DEF Delete, TypeOK, Flushing
<1>16. CASE UNCHANGED vars
  BY <1>16 DEF vars, TypeOK, Flushing
<1> QED
  BY <1>1, <1>2, <1>3, <1>4, <1>5, <1>6, <1>7, <1>8, <1>10, <1>11, <1>12, <1>13,
     <1>14, <1>15, <1>16
  DEF Next, FlushLoop, Receive, Drain, ResetDatabase, PruneOlderThan

(* Every reachable state of the worker is well typed: in particular the    *)
(* channel never exceeds its capacity nor the batch its size.              *)
THEOREM TypeCorrect == Spec => []TypeOK
  BY TypeInit, TypeStep, PTL DEF Spec

-----------------------------------------------------------------------------
(* Why Stop settles what was accepted before it: the events owed are the   *)
(* oldest ones, so they are all in the batch once the channel has been     *)
(* seen empty, and flushLoop ends with an empty batch.  Nobody can be past *)
(* wg.Wait, and no handle can be closed, before the loop has ended.        *)
StopInv ==
    /\ owed <= Len(batch) + Len(queue)
    /\ loop = "finalInsert" => owed <= Len(batch)
    /\ loop = "done" => owed = 0 /\ batch = <<>>
    /\ loop \notin {"select", "insert"} => stopCh
    /\ stopCh => \E s \in Stoppers : stop[s] # "idle"
    /\ \A s \in Stoppers : stop[s] = "returned" => loop = "done"
    /\ store = "closed" => loop = "done"

IInv == TypeOK /\ StopInv

LEMMA StopInit == Init => StopInv
<1> SUFFICES ASSUME Init PROVE StopInv
  OBVIOUS
<1>1. /\ queue = <<>> /\ batch = <<>> /\ loop = "select" /\ owed = 0
      /\ stop = [s \in Stoppers |-> "idle"] /\ store \in {"open", "absent"}
  BY ZenonT(20) DEF Init
<1>2. ~stopCh
  BY ZenonT(20) DEF Init
<1>3. Len(<<>>) = 0
  BY EmptySeq
<1> QED
  BY <1>1, <1>2, <1>3 DEF StopInv

LEMMA StopStep == IInv /\ [Next]_vars => StopInv'
<1> USE QueueAssumption DEF callVars, loopVars, stopVars, dbVars
<1> SUFFICES ASSUME TypeOK, StopInv, [Next]_vars PROVE StopInv'
  BY DEF IInv
<1>0. Len(queue) \in Nat /\ Len(batch) \in Nat /\ owed \in Nat
  BY LenProperties DEF TypeOK
<1>1. ASSUME NEW e \in Events, Check(e) PROVE StopInv'
  BY <1>1 DEF Check, StopInv
(* Send only makes the channel longer. *)
<1>2. ASSUME NEW e \in Events, Send(e) PROVE StopInv'
  <2>1. queue' = queue \/ queue' = Append(queue, e)
    BY <1>2 DEF Send
  <2>2. Len(queue') \in Nat /\ Len(queue') >= Len(queue)
    BY <1>0, <2>1, AppendProperties DEF TypeOK
  <2>3. owed <= Len(batch) + Len(queue')
    BY <1>0, <2>2 DEF StopInv
  <2>4. UNCHANGED <<loopVars, stopVars, store, owed>>
    BY <1>2 DEF Send
  <2> QED
    BY <2>3, <2>4 DEF StopInv
<1>3. ASSUME NEW c \in Setters, SaveFlag(c) PROVE StopInv'
  BY <1>3 DEF SaveFlag, StopInv
<1>4. ASSUME NEW c \in Setters, NEW v \in BOOLEAN, StoreFlag(c, v) PROVE StopInv'
  BY <1>4 DEF StoreFlag, StopInv
(* Taking an event keeps the sum of the two lengths. *)
<1>5. ASSUME NEW here, NEW full, Take(here, full),
             <<here, full>> \in {<<"select", "insert">>, <<"drain", "drainInsert">>}
      PROVE  StopInv'
  <2>1. Len(batch') + Len(queue') = Len(batch) + Len(queue)
    BY <1>0, <1>5, TakeMoves DEF Take, TypeOK
  <2>2. /\ loop = here /\ loop' \in {here, full}
        /\ UNCHANGED <<stopVars, store, owed>>
    BY <1>5 DEF Take
  <2>3. loop' \notin {"select", "insert"} => loop \notin {"select", "insert"}
    BY <1>5, <2>2
  <2>4. loop \in {"select", "drain"} /\ loop' \notin {"finalInsert", "done"}
    BY <1>5, <2>2
  <2> QED
    BY <2>1, <2>2, <2>3, <2>4 DEF StopInv
<1>6. CASE Tick
  BY <1>6 DEF Tick, StopInv
<1>7. CASE NoticeStop
  BY <1>7 DEF NoticeStop, StopInv
(* The channel is empty, so what is owed is in the batch. *)
<1>8. CASE DrainEnd
  <2>1. owed <= Len(batch) /\ (batch = <<>> => owed = 0)
    BY <1>0, <1>8, EmptySeq DEF DrainEnd, StopInv
  <2> QED
    BY <1>8, <2>1 DEF DrainEnd, StopInv
<1>9. CASE Flushed /\ UNCHANGED store
  <2>1. /\ batch' = <<>> /\ Len(batch') = 0 /\ queue' = queue
        /\ owed' = IF owed > Len(batch) THEN owed - Len(batch) ELSE 0
    BY <1>9, EmptySeq DEF Flushed
  <2>2. owed' <= Len(batch') + Len(queue')
    BY <1>0, <2>1 DEF StopInv
  <2>3. /\ loop' \in {"select", "drain", "done"}
        /\ loop' = "done" => loop = "finalInsert"
        /\ loop' = "drain" => loop = "drainInsert"
        /\ loop # "done"
    BY <1>9 DEF Flushed, Flushing
  <2>4. loop' = "done" => owed' = 0
    BY <1>0, <2>1, <2>3 DEF StopInv
  <2> QED
    BY <1>9, <2>1, <2>2, <2>3, <2>4 DEF Flushed, StopInv
<1>10. CASE InsertBatch
  BY <1>9, <1>10 DEF InsertBatch
<1>11. CASE InsertFails
  BY <1>9, <1>11 DEF InsertFails
(* The first caller finds stopCh open, so flushLoop still in its select. *)
<1>12. ASSUME NEW s \in Stoppers, CallStop(s) PROVE StopInv'
  <2>1. stop' \in [Stoppers -> {"idle", "waiting", "blocked", "returned"}]
        /\ stop'[s] \in {"waiting", "blocked"}
        /\ \A t \in Stoppers : stop'[t] = "returned" => stop[t] = "returned"
    BY <1>12 DEF CallStop, TypeOK
  <2>2. UNCHANGED <<queue, batch, loop, store>>
    BY <1>12 DEF CallStop
  <2>3. CASE \A t \in Stoppers : stop[t] = "idle"
    <3>1. stopCh' /\ owed' = Len(batch) + Len(queue)
      BY <1>12, <2>3, ZenonT(20) DEF CallStop
    <3>2. loop \in {"select", "insert"}
      BY <2>3 DEF StopInv
    <3> QED
      BY <1>0, <2>1, <2>2, <3>1, <3>2 DEF StopInv
  <2>4. CASE ~(\A t \in Stoppers : stop[t] = "idle")
    <3>1. UNCHANGED <<stopCh, owed>>
      BY <1>12, <2>4 DEF CallStop
    <3> QED
      BY <2>1, <2>2, <3>1 DEF StopInv
  <2> QED
    BY <2>3, <2>4
<1>13. ASSUME NEW s \in Stoppers, CloseStorage(s) PROVE StopInv'
  <2>1. stop'[s] = "returned" /\ loop' = "done"
    BY <1>13 DEF CloseStorage, TypeOK
  <2> QED
    BY <1>13, <2>1 DEF CloseStorage, StopInv
<1>14. ASSUME NEW s \in Stoppers, OnceDone(s) PROVE StopInv'
  <2>1. stop'[s] = "returned" /\ loop' = "done"
    BY <1>14 DEF OnceDone, TypeOK, StopInv
  <2> QED
    BY <1>14, <2>1 DEF OnceDone, StopInv
<1>15. ASSUME NEW S \in SUBSET Events, Delete(S) PROVE StopInv'
  BY <1>15 DEF Delete, StopInv
<1>16. CASE UNCHANGED vars
  BY <1>16 DEF vars, StopInv
<1> QED
  BY <1>1, <1>2, <1>3, <1>4, <1>5, <1>6, <1>7, <1>8, <1>10, <1>11, <1>12, <1>13,
     <1>14, <1>15, <1>16
  DEF Next, FlushLoop, Receive, Drain, ResetDatabase, PruneOlderThan

LEMMA InductiveInvariant == Spec => []IInv
<1>1. Init => IInv
  BY TypeInit, StopInit DEF IInv
<1>2. IInv /\ [Next]_vars => IInv'
  BY TypeStep, StopStep DEF IInv
<1> QED
  BY <1>1, <1>2, PTL DEF Spec

(* When a Stop returns, everything accepted before the first Stop has been *)
(* handed to InsertBatch.                                                  *)
THEOREM StopSettlesEverything == Spec => []StopSettles
<1>1. IInv => StopSettles
  BY DEF IInv, StopInv, StopSettles
<1> QED
  BY <1>1, InductiveInvariant, PTL

(* The database handle is closed only after the last insert. *)
THEOREM NoInsertAfterClose == Spec => []CloseIsLast
<1>1. IInv => CloseIsLast
  BY DEF IInv, StopInv, CloseIsLast
<1> QED
  BY <1>1, InductiveInvariant, PTL

-----------------------------------------------------------------------------
(* Counting the places of an event in a sequence.                          *)
Places(s, e) == {i \in DOMAIN s : s[i] = e}

LEMMA PlacesFinite ==
    ASSUME NEW s \in Seq(Events), NEW e
    PROVE  /\ IsFiniteSet(Places(s, e)) /\ Cardinality(Places(s, e)) \in Nat
           /\ Cardinality(Places(s, e)) = 0 <=> e \notin Elems(s)
<1>1. DOMAIN s = 1..Len(s) /\ Len(s) \in Nat
  BY LenProperties
<1>2. IsFiniteSet(1..Len(s))
  BY <1>1, FS_Interval
<1>3. IsFiniteSet(Places(s, e))
  BY <1>1, <1>2, FS_Subset DEF Places
<1>4. Places(s, e) = {} <=> e \notin Elems(s)
  BY DEF Places, Elems
<1> QED
  BY <1>3, <1>4, FS_CardinalityType, FS_EmptySet

LEMMA PlacesEmpty ==
    ASSUME NEW e
    PROVE  Cardinality(Places(<<>>, e)) = 0
<1>1. Places(<<>>, e) = {}
  <2>1. DOMAIN <<>> = {}
    OBVIOUS
  <2> QED
    BY <2>1 DEF Places
<1> QED
  BY <1>1, FS_EmptySet

LEMMA PlacesAppend ==
    ASSUME NEW s \in Seq(Events), NEW x \in Events, NEW e
    PROVE  Cardinality(Places(Append(s, x), e)) = Cardinality(Places(s, e)) + One(x = e)
<1> DEFINE t == Append(s, x)
           n == Len(s) + 1
<1>1. /\ t \in Seq(Events) /\ Len(t) = n /\ t[n] = x
      /\ \A i \in 1..Len(s) : t[i] = s[i]
  BY AppendProperties
<1>2. DOMAIN s = 1..Len(s) /\ Len(s) \in Nat /\ DOMAIN t = 1..n
  BY <1>1, LenProperties
<1>3. IsFiniteSet(Places(s, e)) /\ Cardinality(Places(s, e)) \in Nat
  BY PlacesFinite
<1>4. n \notin Places(s, e)
  BY <1>2 DEF Places
<1>5. CASE x = e
  <2>1. Places(t, e) = Places(s, e) \cup {n}
    BY <1>1, <1>2, <1>5 DEF Places
  <2> QED
    BY <1>3, <1>4, <1>5, <2>1, FS_AddElement DEF One
<1>6. CASE x # e
  <2>1. Places(t, e) = Places(s, e)
    BY <1>1, <1>2, <1>6 DEF Places
  <2> QED
    BY <1>3, <1>6, <2>1 DEF One
<1> QED
  BY <1>5, <1>6

LEMMA PlacesTail ==
    ASSUME NEW s \in Seq(Events), s # <<>>, NEW e
    PROVE  Cardinality(Places(s, e)) = Cardinality(Places(Tail(s), e)) + One(Head(s) = e)
<1> DEFINE t == Tail(s)
           R == {i \in Places(s, e) : i # 1}
           f == [i \in Places(t, e) |-> i + 1]
<1>1. /\ t \in Seq(Events) /\ Len(t) = Len(s) - 1
      /\ \A i \in 1..Len(t) : t[i] = s[i + 1]
  BY HeadTailProperties
<1>2. /\ DOMAIN s = 1..Len(s) /\ Len(s) \in Nat /\ Len(s) > 0
      /\ DOMAIN t = 1..Len(t) /\ Len(t) \in Nat
  BY <1>1, LenProperties, EmptySeq
<1>3. /\ IsFiniteSet(Places(t, e)) /\ Cardinality(Places(t, e)) \in Nat
      /\ IsFiniteSet(Places(s, e)) /\ Cardinality(Places(s, e)) \in Nat
  BY <1>1, PlacesFinite
<1>4. f \in Bijection(Places(t, e), R)
  <2>1. \A i \in Places(t, e) : f[i] \in R
    BY <1>1, <1>2 DEF Places
  <2>2. \A i, j \in Places(t, e) : f[i] = f[j] => i = j
    BY <1>2 DEF Places
  <2>3. \A k \in R : \E i \in Places(t, e) : f[i] = k
    <3> SUFFICES ASSUME NEW k \in R PROVE k - 1 \in Places(t, e) /\ f[k - 1] = k
      OBVIOUS
    <3>1. k \in 2..Len(s) /\ s[k] = e
      BY <1>2 DEF Places
    <3>2. k - 1 \in 1..Len(t) /\ t[k - 1] = s[(k - 1) + 1] /\ (k - 1) + 1 = k
      BY <1>1, <1>2, <3>1
    <3> QED
      BY <1>2, <3>1, <3>2 DEF Places
  <2> QED
    BY <2>1, <2>2, <2>3 DEF Bijection, Injection, Surjection, IsInjective
<1>5. IsFiniteSet(R) /\ Cardinality(R) = Cardinality(Places(t, e))
  BY <1>3, <1>4, FS_Bijection DEF ExistsBijection
<1>6. Head(s) = s[1]
  OBVIOUS
<1>7. 1 \notin R /\ Places(s, e) = IF Head(s) = e THEN R \cup {1} ELSE R
  BY <1>2, <1>6 DEF Places
<1> HIDE DEF R
<1>8. Cardinality(R \cup {1}) = Cardinality(R) + 1
  BY <1>3, <1>5, <1>7, FS_AddElement
<1> QED
  BY <1>3, <1>5, <1>7, <1>8 DEF One

-----------------------------------------------------------------------------
(* Accounted, with the type invariant, is inductive as it stands.  A sum   *)
(* of one means that an event is nowhere twice: so a failed insert adds    *)
(* each event of the batch to lost once, and a deletion erases one row.    *)
Sum(e) ==
    Cardinality(Places(queue, e)) + Cardinality(Places(batch, e))
        + rows[e] + One(e \in lost) + One(e \in erased)

LEMMA AccountedIsSum == Accounted <=> \A e \in Events : Sum(e) = One(call[e] = "queued")
  BY DEF Accounted, Sum, Copies, Places

LEMMA SumTerms ==
    ASSUME TypeOK, NEW e \in Events
    PROVE  /\ Cardinality(Places(queue, e)) \in Nat
           /\ Cardinality(Places(batch, e)) \in Nat
           /\ rows[e] \in Nat
           /\ One(e \in lost) \in {0, 1} /\ One(e \in erased) \in {0, 1}
<1>1. queue \in Seq(Events) /\ batch \in Seq(Events) /\ rows[e] \in Nat
  BY DEF TypeOK
<1> QED
  BY <1>1, PlacesFinite DEF One

LEMMA AccountedInit == Init => Accounted
<1> SUFFICES ASSUME Init PROVE Accounted
  OBVIOUS
<1>1. /\ queue = <<>> /\ batch = <<>> /\ lost = {} /\ erased = {}
      /\ call = [e \in Events |-> "idle"] /\ rows = [e \in Events |-> 0]
  BY ZenonT(20) DEF Init
<1>2. ASSUME NEW e \in Events
      PROVE  Sum(e) = One(call[e] = "queued")
  <2>1. Cardinality(Places(queue, e)) = 0 /\ Cardinality(Places(batch, e)) = 0
    BY <1>1, PlacesEmpty
  <2>2. rows[e] = 0 /\ e \notin lost /\ e \notin erased /\ call[e] # "queued"
    BY <1>1
  <2> QED
    BY <2>1, <2>2 DEF Sum, One
<1> QED
  BY <1>2, AccountedIsSum

LEMMA AccountedStep == TypeOK /\ TypeOK' /\ Accounted /\ [Next]_vars => Accounted'
<1> USE DEF callVars, loopVars, stopVars, dbVars
<1> SUFFICES ASSUME TypeOK, TypeOK', Accounted, [Next]_vars PROVE Accounted'
  OBVIOUS
<1>0. \A e \in Events : Sum(e) = One(call[e] = "queued")
  BY AccountedIsSum
<1>q. ASSUME \A e \in Events : Sum(e)' = One(call'[e] = "queued") PROVE Accounted'
  BY <1>q DEF Accounted, Sum, Copies, Places
(* Nothing that is summed changes, nor which events are queued. *)
<1>k. ASSUME UNCHANGED <<queue, batch, rows, lost, erased>>,
             \A e \in Events : call'[e] = "queued" <=> call[e] = "queued"
      PROVE  Accounted'
  <2>1. ASSUME NEW e \in Events PROVE Sum(e)' = One(call'[e] = "queued")
    <3>1. Sum(e)' = Sum(e)
      BY <1>k DEF Sum
    <3>2. One(call'[e] = "queued") = One(call[e] = "queued")
      BY <1>k DEF One
    <3> QED
      BY <1>0, <3>1, <3>2
  <2> QED
    BY <2>1, <1>q
<1>1. ASSUME NEW e \in Events, Check(e) PROVE Accounted'
  <2>1. \A d \in Events : call'[d] = "queued" <=> call[d] = "queued"
    BY <1>1 DEF Check, TypeOK
  <2> QED
    BY <1>1, <1>k, <2>1 DEF Check
<1>2. ASSUME NEW e \in Events, Send(e) PROVE Accounted'
  <2>0. UNCHANGED <<batch, rows, lost, erased>> /\ call[e] = "checked"
    BY <1>2 DEF Send
  <2>1. CASE Len(queue) < QueueCap
    <3>1. queue' = Append(queue, e) /\ call' = [call EXCEPT ![e] = "queued"]
      BY <1>2, <2>1 DEF Send
    <3>2. ASSUME NEW d \in Events PROVE Sum(d)' = One(call'[d] = "queued")
      <4>1. Cardinality(Places(queue, d))' = Cardinality(Places(queue, d)) + One(e = d)
        BY <3>1, PlacesAppend DEF TypeOK
      <4>2. Sum(d)' = Sum(d) + One(e = d)
        BY <2>0, <4>1, SumTerms DEF Sum, One
      <4>3. One(call'[d] = "queued") = One(call[d] = "queued") + One(e = d)
        BY <2>0, <3>1 DEF One, TypeOK
      <4> QED
        BY <1>0, <4>2, <4>3
    <3> QED
      BY <3>2, <1>q
  <2>2. CASE ~ (Len(queue) < QueueCap)
    <3>1. UNCHANGED queue /\ call' = [call EXCEPT ![e] = "dropped"]
      BY <1>2, <2>2 DEF Send
    <3>2. \A d \in Events : call'[d] = "queued" <=> call[d] = "queued"
      BY <2>0, <3>1 DEF TypeOK
    <3> QED
      BY <1>k, <2>0, <3>1, <3>2
  <2> QED
    BY <2>1, <2>2
<1>3. ASSUME NEW c \in Setters, SaveFlag(c) PROVE Accounted'
  BY <1>3, <1>k DEF SaveFlag
<1>4. ASSUME NEW c \in Setters, NEW v \in BOOLEAN, StoreFlag(c, v) PROVE Accounted'
  BY <1>4, <1>k DEF StoreFlag
(* What leaves the channel arrives in the batch. *)
<1>5. ASSUME NEW here, NEW full, Take(here, full) PROVE Accounted'
  <2>0. /\ queue # <<>> /\ batch' = Append(batch, Head(queue)) /\ queue' = Tail(queue)
        /\ UNCHANGED <<call, rows, lost, erased>>
    BY <1>5 DEF Take
  <2>1. ASSUME NEW d \in Events PROVE Sum(d)' = One(call'[d] = "queued")
    <3>1. Head(queue) \in Events
      BY <2>0, HeadTailProperties DEF TypeOK
    <3>2. Cardinality(Places(queue, d)) = Cardinality(Places(queue', d)) + One(Head(queue) = d)
      BY <2>0, PlacesTail DEF TypeOK
    <3>3. Cardinality(Places(batch', d)) = Cardinality(Places(batch, d)) + One(Head(queue) = d)
      BY <2>0, <3>1, PlacesAppend DEF TypeOK
    <3>4. Cardinality(Places(queue', d)) \in Nat
      BY PlacesFinite DEF TypeOK
    <3>5. Sum(d)' = Sum(d)
      BY <2>0, <3>2, <3>3, <3>4, SumTerms DEF Sum, One
    <3> QED
      BY <1>0, <2>0, <3>5
  <2> QED
    BY <2>1, <1>q
<1>6. CASE Tick \/ NoticeStop \/ DrainEnd
  BY <1>6, <1>k DEF Tick, NoticeStop, DrainEnd
<1>9. ASSUME Flushed, NEW d \in Events
      PROVE  /\ UNCHANGED <<call, queue>>
             /\ Cardinality(Places(batch', d)) = 0
  BY <1>9, PlacesEmpty DEF Flushed
(* Each occurrence of an event in the batch becomes a row. *)
<1>10. CASE InsertBatch
  <2>1. ASSUME NEW d \in Events PROVE Sum(d)' = One(call'[d] = "queued")
    <3>1. rows'[d] = rows[d] + Cardinality(Places(batch, d)) /\ UNCHANGED <<lost, erased>>
      BY <1>10 DEF InsertBatch, Copies, Places
    <3>2. UNCHANGED <<call, queue>> /\ Cardinality(Places(batch', d)) = 0
      BY <1>9, <1>10 DEF InsertBatch
    <3>3. Sum(d)' = Sum(d)
      BY <3>1, <3>2, SumTerms DEF Sum, One
    <3> QED
      BY <1>0, <3>2, <3>3
  <2> QED
    BY <2>1, <1>q
(* An event of the batch is there once, and was not lost before. *)
<1>11. CASE InsertFails
  <2>1. ASSUME NEW d \in Events PROVE Sum(d)' = One(call'[d] = "queued")
    <3>1. lost' = lost \cup Elems(batch) /\ UNCHANGED <<rows, erased>>
      BY <1>11 DEF InsertFails
    <3>2. UNCHANGED <<call, queue>> /\ Cardinality(Places(batch', d)) = 0
      BY <1>9, <1>11 DEF InsertFails
    <3>3. Cardinality(Places(batch, d)) = 0 <=> d \notin Elems(batch)
      BY PlacesFinite DEF TypeOK
    <3>4. Sum(d) \in {0, 1}
      BY <1>0 DEF One
    <3>5. One(d \in lost') = One(d \in lost) + Cardinality(Places(batch, d))
      <4>1. CASE d \in Elems(batch)
        <5>1. Cardinality(Places(batch, d)) = 1 /\ d \notin lost
          <6>1. Cardinality(Places(batch, d)) >= 1
            BY <3>3, <4>1, SumTerms
          <6>2. Cardinality(Places(queue, d)) + Cardinality(Places(batch, d))
                    + rows[d] + One(d \in lost) + One(d \in erased) <= 1
            BY <3>4 DEF Sum
          <6>3. Cardinality(Places(batch, d)) = 1 /\ One(d \in lost) = 0
            BY <6>1, <6>2, SumTerms
          <6> QED
            BY <6>3 DEF One
        <5> QED
          BY <3>1, <4>1, <5>1 DEF One
      <4>2. CASE d \notin Elems(batch)
        BY <3>1, <3>3, <4>2, SumTerms DEF One
      <4> QED
        BY <4>1, <4>2
    <3>6. Sum(d)' = Sum(d)
      BY <3>1, <3>2, <3>5, SumTerms DEF Sum
    <3> QED
      BY <1>0, <3>2, <3>6
  <2> QED
    BY <2>1, <1>q
<1>12. ASSUME NEW s \in Stoppers, CallStop(s) \/ CloseStorage(s) \/ OnceDone(s) PROVE Accounted'
  BY <1>12, <1>k DEF CallStop, CloseStorage, OnceDone
(* A row that is deleted was the only one. *)
<1>15. ASSUME NEW S \in SUBSET Events, Delete(S) PROVE Accounted'
  <2>1. ASSUME NEW d \in Events PROVE Sum(d)' = One(call'[d] = "queued")
    <3>1. /\ rows'[d] = IF d \in S THEN 0 ELSE rows[d]
          /\ d \in erased' <=> d \in erased \/ (d \in S /\ rows[d] > 0)
          /\ UNCHANGED <<call, queue, batch, lost>>
      BY <1>15 DEF Delete
    <3>2. Sum(d) \in {0, 1}
      BY <1>0 DEF One
    <3>3. Sum(d)' = Sum(d)
      BY <3>1, <3>2, SumTerms DEF Sum, One
    <3> QED
      BY <1>0, <3>1, <3>3
  <2> QED
    BY <2>1, <1>q
<1>16. CASE UNCHANGED vars
  BY <1>16, <1>k DEF vars
<1> QED
  BY <1>1, <1>2, <1>3, <1>4, <1>5, <1>6, <1>10, <1>11, <1>12, <1>15, <1>16
  DEF Next, FlushLoop, Receive, Drain, ResetDatabase, PruneOlderThan

(* No event is counted twice, none disappears unaccounted, none comes back *)
(* after a deletion, in whatever order Record, flushLoop, the handlers and *)
(* Stop run.                                                               *)
THEOREM EveryEventAccounted == Spec => []Accounted
<1>1. TypeOK /\ Accounted /\ [Next]_vars => Accounted'
  BY TypeStep, AccountedStep
<1> QED
  BY <1>1, AccountedInit, TypeCorrect, PTL DEF Spec

-----------------------------------------------------------------------------
(* The worker implements the bounded buffer of EgoDelivery.  A group that  *)
(* leaves the buffer is a batch, which is never empty when it is flushed.  *)
FlushInv == loop \in Flushing => batch # <<>>

LEMMA FlushInit == Init => FlushInv
<1> SUFFICES ASSUME Init PROVE FlushInv
  OBVIOUS
<1>1. loop = "select"
  BY ZenonT(20) DEF Init
<1> QED
  BY <1>1 DEF FlushInv, Flushing

LEMMA FlushStep == TypeOK /\ FlushInv /\ [Next]_vars => FlushInv'
<1> USE DEF callVars, loopVars, stopVars, dbVars, Flushing
<1> SUFFICES ASSUME TypeOK, FlushInv, [Next]_vars PROVE FlushInv'
  OBVIOUS
<1>k. ASSUME UNCHANGED loopVars PROVE FlushInv'
  BY <1>k DEF FlushInv
<1>5. ASSUME NEW here, NEW full, Take(here, full) PROVE FlushInv'
  <2>1. Head(queue) \in Events
    BY <1>5, HeadTailProperties DEF Take, TypeOK
  <2>2. batch' = Append(batch, Head(queue)) /\ batch' # <<>>
    BY <1>5, <2>1, AppendProperties DEF Take, TypeOK
  <2> QED
    BY <2>2 DEF FlushInv
<1>6. CASE Tick \/ NoticeStop \/ DrainEnd
  BY <1>6 DEF Tick, NoticeStop, DrainEnd, FlushInv
<1>9. ASSUME Flushed PROVE FlushInv'
  BY <1>9 DEF Flushed, FlushInv
<1> QED
  BY <1>k, <1>5, <1>6, <1>9
  DEF Next, FlushLoop, Receive, Drain, ResetDatabase, PruneOlderThan, Check, Send,
      SaveFlag, StoreFlag, InsertBatch, InsertFails, CallStop, CloseStorage, OnceDone,
      Delete, vars

(* The batch in front of the channel, and what Delivery calls its state.   *)
pending == batch \o queue

phase == IF \E s \in Stoppers : stop[s] = "returned" THEN "down"
         ELSE IF stopCh THEN "stopping" ELSE "up"

offered == {e \in Events : call[e] \in {"queued", "dropped", "refused"}}

LEMMA DeliveryInit == Init => Delivery!Init
<1> SUFFICES ASSUME Init PROVE Delivery!Init
  OBVIOUS
<1>1. /\ queue = <<>> /\ batch = <<>> /\ lost = {} /\ owed = 0
      /\ call = [e \in Events |-> "idle"] /\ rows = [e \in Events |-> 0]
      /\ stop = [s \in Stoppers |-> "idle"]
  BY ZenonT(20) DEF Init
<1>2. ~stopCh
  BY ZenonT(20) DEF Init
<1>3. offered = {}
  BY <1>1 DEF offered
<1>4. batch \o queue = <<>>
  BY <1>1, ConcatEmptySeq, EmptySeq
<1>5. phase = "up"
  BY <1>1, <1>2 DEF phase
<1> QED
  BY <1>1, <1>3, <1>4, <1>5 DEF Delivery!Init, offered, phase

DInv == IInv /\ FlushInv /\ Accounted

LEMMA DeliveryStep == DInv /\ [Next]_vars => [Delivery!Next]_(Delivery!vars)
<1> USE QueueAssumption DEF callVars, loopVars, stopVars, dbVars
<1> SUFFICES ASSUME TypeOK, StopInv, FlushInv, Accounted, [Next]_vars
             PROVE  Delivery!Next \/ UNCHANGED Delivery!vars
  BY DEF DInv, IInv
<1>0. /\ queue \in Seq(Events) /\ Len(queue) \in Nat /\ Len(queue) <= QueueCap
      /\ batch \in Seq(Events) /\ Len(batch) \in Nat /\ Len(batch) <= BatchSize
      /\ pending \in Seq(Events) /\ Len(pending) = Len(batch) + Len(queue)
  BY LenProperties, ConcatProperties DEF TypeOK, pending
(* Stuttering, in terms of the mapped variables. *)
<1>k. ASSUME offered' = offered, pending' = pending, phase' = phase,
             UNCHANGED <<rows, lost, owed>>
      PROVE  UNCHANGED Delivery!vars
  BY <1>k DEF Delivery!vars, offered, pending, phase
<1>1. ASSUME NEW e \in Events, Check(e) PROVE Delivery!Next \/ UNCHANGED Delivery!vars
  <2>1. call[e] = "idle" /\ e \notin offered
    BY <1>1 DEF Check, offered
  <2>2. UNCHANGED <<queue, batch, stop, stopCh, rows, lost, owed>>
    BY <1>1 DEF Check
  <2>3. pending' = pending /\ phase' = phase
    BY <2>2 DEF pending, phase
  <2>4. CASE call' = [call EXCEPT ![e] = "checked"]
    <3>1. offered' = offered
      BY <2>1, <2>4 DEF offered, TypeOK
    <3> QED
      BY <1>k, <2>2, <2>3, <3>1
  <2>5. CASE call' = [call EXCEPT ![e] = "refused"]
    <3>1. offered' = offered \cup {e}
      BY <2>5 DEF offered, TypeOK
    <3>2. Delivery!TurnAway(e)
      BY <2>1, <2>2, <2>3, <3>1 DEF Delivery!TurnAway, offered, pending, phase
    <3> QED
      BY <3>2 DEF Delivery!Next
  <2> QED
    BY <1>1, <2>4, <2>5 DEF Check
<1>2. ASSUME NEW e \in Events, Send(e) PROVE Delivery!Next \/ UNCHANGED Delivery!vars
  <2>1. call[e] = "checked" /\ e \notin offered
    BY <1>2 DEF Send, offered
  <2>2. UNCHANGED <<batch, stop, stopCh, rows, lost, owed>>
    BY <1>2 DEF Send
  <2>3. phase' = phase
    BY <2>2 DEF phase
  <2>4. CASE Len(queue) < QueueCap
    <3>1. queue' = Append(queue, e) /\ call' = [call EXCEPT ![e] = "queued"]
      BY <1>2, <2>4 DEF Send
    <3>2. offered' = offered \cup {e}
      BY <3>1 DEF offered, TypeOK
    <3>3. pending' = Append(pending, e)
      <4>1. queue' = queue \o <<e>> /\ <<e>> \in Seq(Events)
        BY <1>0, <3>1, AppendIsConcat
      <4>2. batch \o (queue \o <<e>>) = (batch \o queue) \o <<e>>
        BY <1>0, <4>1, ConcatAssociative
      <4>3. Append(pending, e) = pending \o <<e>>
        BY <1>0, AppendIsConcat
      <4> QED
        BY <2>2, <4>1, <4>2, <4>3 DEF pending
    <3>4. Len(pending) < QueueCap + BatchSize
      BY <1>0, <2>4
    <3>5. Delivery!Take(e)
      BY <2>1, <2>2, <2>3, <3>2, <3>3, <3>4 DEF Delivery!Take, offered, pending, phase
    <3> QED
      BY <3>5 DEF Delivery!Next
  <2>5. CASE ~ (Len(queue) < QueueCap)
    <3>1. queue' = queue /\ call' = [call EXCEPT ![e] = "dropped"]
      BY <1>2, <2>5 DEF Send
    <3>2. offered' = offered \cup {e} /\ pending' = pending
      BY <2>2, <3>1 DEF offered, pending, TypeOK
    <3>3. Delivery!TurnAway(e)
      BY <2>1, <2>2, <2>3, <3>2 DEF Delivery!TurnAway, offered, pending, phase
    <3> QED
      BY <3>3 DEF Delivery!Next
  <2> QED
    BY <2>4, <2>5
<1>3. ASSUME UNCHANGED <<call, queue, batch, stop, stopCh, rows, lost, owed>>
      PROVE  UNCHANGED Delivery!vars
  BY <1>3, <1>k DEF offered, pending, phase
(* The buffer does not see where channel and batch meet. *)
<1>5. ASSUME NEW here, NEW full, Take(here, full) PROVE UNCHANGED Delivery!vars
  <2>1. /\ queue # <<>> /\ batch' = Append(batch, Head(queue)) /\ queue' = Tail(queue)
        /\ UNCHANGED <<call, stop, stopCh, rows, lost, owed>>
    BY <1>5 DEF Take
  <2>2. pending' = pending
    <3>1. Head(queue) \in Events /\ Tail(queue) \in Seq(Events)
      BY <1>0, <2>1, HeadTailProperties
    <3>2. batch' = batch \o <<Head(queue)>> /\ <<Head(queue)>> \in Seq(Events)
      BY <1>0, <2>1, <3>1, AppendIsConcat
    <3>3. queue = <<Head(queue)>> \o Tail(queue)
      BY <1>0, <2>1, <3>1
    <3>4. (batch \o <<Head(queue)>>) \o Tail(queue) = batch \o (<<Head(queue)>> \o Tail(queue))
      BY <1>0, <3>1, <3>2, ConcatAssociative
    <3> QED
      BY <2>1, <3>2, <3>3, <3>4 DEF pending
  <2>3. offered' = offered /\ phase' = phase
    BY <2>1 DEF offered, phase
  <2> QED
    BY <1>k, <2>1, <2>2, <2>3
<1>6. CASE Tick \/ NoticeStop \/ DrainEnd
  BY <1>3, <1>6 DEF Tick, NoticeStop, DrainEnd
(* A batch that is flushed is the front of the buffer, as a whole. *)
<1>9. ASSUME Flushed
      PROVE  /\ Len(batch) \in 1..Len(pending) /\ Delivery!Leave(Len(batch))
             /\ Delivery!Front(Len(batch)) = Elems(batch)
  <2>1. /\ batch' = <<>> /\ UNCHANGED <<call, queue, stop, stopCh>>
        /\ owed' = IF owed > Len(batch) THEN owed - Len(batch) ELSE 0
    BY <1>9 DEF Flushed
  <2>2. batch # <<>> /\ Len(batch) > 0
    BY <1>0, <1>9, EmptySeq DEF Flushed, FlushInv
  <2>3. phase # "down"
    BY <1>9 DEF Flushed, Flushing, StopInv, phase
  <2>4. pending' = queue
    BY <1>0, <2>1, ConcatEmptySeq DEF pending
  <2>5. SubSeq(pending, Len(batch) + 1, Len(pending)) = queue
    <3>1. CASE Len(queue) = 0
      <4>1. queue = <<>>
        BY <1>0, <3>1, EmptySeq
      <4> QED
        BY <1>0, <3>1, <4>1, SubSeqEmpty
    <3>2. CASE Len(queue) # 0
      <4>1. SubSeq(batch \o queue, Len(batch) + 1, Len(batch) + Len(queue))
                = SubSeq(queue, (Len(batch) + 1) - Len(batch),
                                (Len(batch) + Len(queue)) - Len(batch))
        BY <1>0, <3>2, SubSeqOfConcat2
      <4>2. SubSeq(queue, 1, Len(queue)) = queue
        BY <1>0, SubSeqFull
      <4> QED
        BY <1>0, <4>1, <4>2 DEF pending
    <3> QED
      BY <3>1, <3>2
  <2>6. offered' = offered /\ phase' = phase
    BY <2>1 DEF offered, phase
  <2>7. Delivery!Leave(Len(batch))
    BY <2>1, <2>3, <2>4, <2>5, <2>6 DEF Delivery!Leave, offered, pending, phase
  <2>8. \A i \in 1..Len(batch) : pending[i] = batch[i]
    BY <1>0, ConcatProperties DEF pending
  <2>9. Delivery!Front(Len(batch)) = Elems(batch)
    <3>1. DOMAIN batch = 1..Len(batch)
      BY <1>0, LenProperties
    <3> QED
      BY <2>8, <3>1 DEF Delivery!Front, Elems, pending
  <2> QED
    BY <1>0, <2>2, <2>7, <2>9
(* Every event of the batch is there once, so it gets one row. *)
<1>10. CASE InsertBatch
  <2>1. ASSUME NEW e \in Events
        PROVE  Copies(e) = IF e \in Elems(batch) THEN 1 ELSE 0
    <3>1. Sum(e) <= 1
      BY AccountedIsSum DEF One
    <3>2. Cardinality(Places(queue, e)) + Cardinality(Places(batch, e))
              + rows[e] + One(e \in lost) + One(e \in erased) <= 1
      BY <3>1 DEF Sum
    <3>3. Cardinality(Places(batch, e)) \in {0, 1}
      BY <3>2, SumTerms
    <3>4. Copies(e) = Cardinality(Places(batch, e))
      BY DEF Copies, Places
    <3> QED
      BY <1>0, <3>3, <3>4, PlacesFinite
  <2>2. Flushed /\ UNCHANGED lost /\ rows' = [e \in Events |-> rows[e] + Copies(e)]
    BY <1>10 DEF InsertBatch
  <2>3. rows' = [e \in Events |->
                    rows[e] + (IF e \in Delivery!Front(Len(batch)) THEN 1 ELSE 0)]
    BY <1>9, <2>1, <2>2
  <2>4. Delivery!Store(Len(batch))
    BY <1>9, <2>2, <2>3 DEF Delivery!Store
  <2> QED
    BY <1>9, <2>2, <2>4 DEF Delivery!Settle, Delivery!Next, pending
<1>11. CASE InsertFails
  <2>1. Flushed /\ UNCHANGED rows /\ lost' = lost \cup Elems(batch)
    BY <1>11 DEF InsertFails
  <2>2. Delivery!Lose(Len(batch))
    BY <1>9, <2>1 DEF Delivery!Lose
  <2> QED
    BY <1>9, <2>1, <2>2 DEF Delivery!Settle, Delivery!Next, pending
<1>12. ASSUME NEW s \in Stoppers, CallStop(s)
       PROVE  Delivery!Next \/ UNCHANGED Delivery!vars
  <2>1. UNCHANGED <<call, queue, batch, rows, lost>>
    BY <1>12 DEF CallStop
  <2>2. offered' = offered /\ pending' = pending
    BY <2>1 DEF offered, pending
  <2>3. stop[s] = "idle" /\ stop' \in [Stoppers -> {"idle", "waiting", "blocked", "returned"}]
        /\ stop'[s] \in {"waiting", "blocked"}
        /\ \A t \in Stoppers : stop'[t] = "returned" <=> stop[t] = "returned"
    BY <1>12 DEF CallStop, TypeOK
  <2>4. CASE \A t \in Stoppers : stop[t] = "idle"
    <3>1. stopCh' /\ owed' = Len(batch) + Len(queue)
      BY <1>12, <2>4, ZenonT(20) DEF CallStop
    <3>2. phase = "up" /\ phase' = "stopping"
      BY <2>3, <2>4, <3>1 DEF phase, StopInv
    <3>3. Delivery!BeginStop
      BY <1>0, <2>1, <2>2, <3>1, <3>2 DEF Delivery!BeginStop, offered, pending, phase
    <3> QED
      BY <3>3 DEF Delivery!Next
  <2>5. CASE ~(\A t \in Stoppers : stop[t] = "idle")
    <3>1. UNCHANGED <<stopCh, owed>>
      BY <1>12, <2>5 DEF CallStop
    <3>2. phase' = phase
      BY <2>3, <3>1 DEF phase
    <3> QED
      BY <1>k, <2>1, <2>2, <3>1, <3>2
  <2> QED
    BY <2>4, <2>5
(* The first Stop to return ends the pipeline: nothing is owed any more. *)
<1>13. ASSUME NEW s \in Stoppers, CloseStorage(s)
       PROVE  Delivery!Next \/ UNCHANGED Delivery!vars
  <2>1. /\ loop = "done" /\ stop' = [stop EXCEPT ![s] = "returned"]
        /\ UNCHANGED <<call, queue, batch, stopCh, rows, lost, owed>>
    BY <1>13 DEF CloseStorage
  <2>2. offered' = offered /\ pending' = pending
    BY <2>1 DEF offered, pending
  <2>3. owed = 0 /\ stopCh
    BY <2>1 DEF StopInv
  <2>4. phase' = "down" /\ phase \in {"stopping", "down"}
    BY <2>1, <2>3 DEF phase, TypeOK
  <2>5. CASE phase = "stopping"
    <3>1. Delivery!FinishStop
      BY <2>1, <2>2, <2>3, <2>4, <2>5 DEF Delivery!FinishStop, offered, pending, phase
    <3> QED
      BY <3>1 DEF Delivery!Next
  <2>6. CASE phase = "down"
    BY <1>k, <2>1, <2>2, <2>4, <2>6
  <2> QED
    BY <2>4, <2>5, <2>6
<1>14. ASSUME NEW s \in Stoppers, OnceDone(s) PROVE UNCHANGED Delivery!vars
  <2>1. /\ \E t \in Stoppers : stop[t] = "returned"
        /\ stop' = [stop EXCEPT ![s] = "returned"]
        /\ UNCHANGED <<call, queue, batch, rows, lost, owed>>
    BY <1>14 DEF OnceDone
  <2>2. offered' = offered /\ pending' = pending
    BY <2>1 DEF offered, pending
  <2>3. phase' = "down" /\ phase = "down"
    BY <2>1 DEF phase, TypeOK
  <2> QED
    BY <1>k, <2>1, <2>2, <2>3
<1>15. ASSUME NEW S \in SUBSET Events, Delete(S) PROVE Delivery!Next
  <2>1. /\ rows' = [e \in Events |-> IF e \in S THEN 0 ELSE rows[e]]
        /\ UNCHANGED <<call, queue, batch, stop, stopCh, lost, owed>>
    BY <1>15 DEF Delete
  <2>2. offered' = offered /\ pending' = pending /\ phase' = phase
    BY <2>1 DEF offered, pending, phase
  <2>3. Delivery!Erase(S)
    BY <2>1, <2>2 DEF Delivery!Erase, offered, pending, phase
  <2> QED
    BY <2>3 DEF Delivery!Next
<1>16. CASE UNCHANGED vars
  BY <1>3, <1>16 DEF vars
<1>17. ASSUME NEW c \in Setters, SaveFlag(c) \/ \E v \in BOOLEAN : StoreFlag(c, v)
       PROVE  UNCHANGED Delivery!vars
  BY <1>3, <1>17 DEF SaveFlag, StoreFlag
<1> QED
  BY <1>1, <1>2, <1>5, <1>6, <1>10, <1>11, <1>12, <1>13, <1>14, <1>15, <1>16, <1>17
  DEF Next, FlushLoop, Receive, Drain, ResetDatabase, PruneOlderThan

(* The whole worker, seen from outside, is a bounded first-in first-out    *)
(* buffer whose groups are stored or lost as a whole, and whose shutdown   *)
(* settles what was in it.                                                 *)
THEOREM WorkerImplementsDelivery == Spec => ImplementsDelivery
<1>1. DInv /\ [Next]_vars => DInv'
  <2>1. DInv /\ [Next]_vars => IInv'
    BY TypeStep, StopStep DEF DInv, IInv
  <2>2. DInv /\ [Next]_vars => FlushInv'
    BY FlushStep DEF DInv, IInv
  <2>3. DInv /\ IInv' /\ [Next]_vars => Accounted'
    BY AccountedStep DEF DInv, IInv
  <2> QED
    BY <2>1, <2>2, <2>3 DEF DInv
<1>2. Init => DInv
  BY TypeInit, StopInit, FlushInit, AccountedInit DEF DInv, IInv
<1> QED
  BY <1>1, <1>2, DeliveryInit, DeliveryStep, PTL DEF Spec, ImplementsDelivery, Delivery!Spec
=============================================================================
