-------------------------- MODULE EgoProcessProofs --------------------------
(***************************************************************************)
(* Proofs about EgoProcess, for any number of concurrent calls, any price  *)
(* tables and any number of starts.                                        *)
(***************************************************************************)
EXTENDS EgoProcess, TLAPS

Creating == {"opening", "loading", "starting", "published"}

Stages == Creating \cup Complete \cup {"idle", "getting", "blocked", "answering", "returned"}

CallInv == call \in [Calls -> [stage : Stages, method : Methods]]

(* The function of the Once runs in one call at most, and builds one       *)
(* worker; nobody gets past the Once before it has ended.                  *)
OnceInv ==
    /\ once \in {"idle", "running", "done"} /\ workers \in 0..1
    /\ \A c \in Calls : call[c].stage \in Creating => once = "running"
    /\ \A c, d \in Calls : call[c].stage \in Creating /\ call[d].stage \in Creating => c = d
    /\ \A c \in Calls : call[c].stage \in Complete => once = "done"
    /\ once = "idle" => workers = 0
    /\ \A c \in Calls : call[c].stage \in {"opening", "loading", "starting"} => workers = 0
    /\ \A c \in Calls : At(c, "published") => globalWorker /\ workers = 1
    /\ once = "done" => globalWorker /\ workers = 1

(* How far the process is with its storage. *)
Unopened == once = "idle" \/ \E c \in Calls : At(c, "opening")
Loaded == once = "done" \/ \E c \in Calls : call[c].stage \in {"starting", "published"}
Opened == Loaded \/ \E c \in Calls : At(c, "loading")

CacheInv ==
    /\ Unopened => cache = NoPrices
    /\ Opened => cache = IF medium = "absent" THEN NoPrices ELSE Embedded

(* Why the last choice holds: the disk has it, and a call that stores      *)
(* another one while no other does leaves flag and disk alike.             *)
ChoiceInv ==
    /\ setting \in {"unset", "true", "false"}
    /\ enabled \in BOOLEAN /\ wanted \in BOOLEAN /\ spoilt \in BOOLEAN
    /\ ~spoilt => (wanted <=> setting # "false")
    /\ (Loaded /\ medium = "disk" /\ ~spoilt /\ \A c \in Calls : ~At(c, "stored")) =>
           (enabled <=> wanted)
    /\ \A c \in alone \cap Calls : At(c, "stored") =>
           /\ enabled <=> call[c].method = "on"
           /\ \A d \in Calls : At(d, "stored") => d = c

AnswerInv == buffers = [c \in Calls |-> IF At(c, "returned") THEN 1 ELSE 0]

ShutInv ==
    /\ due \in BOOLEAN /\ (shut = "no" => ~due) /\ (due => once = "done")
    /\ ShutdownStops

ProcessInv == CallInv /\ OnceInv /\ CacheInv /\ ChoiceInv /\ AnswerInv /\ ShutInv

LEMMA ProcessInit == Init => ProcessInv
<1>. SUFFICES ASSUME Init PROVE ProcessInv
  OBVIOUS
<1>1. CallInv
  BY DEF Init, CallInv, NoCall, Stages, Methods
<1>2. \A c \in Calls : call[c].stage = "idle"
  BY DEF Init, NoCall
<1>3. OnceInv
  BY <1>2 DEF Init, OnceInv, Creating, Complete, At
<1>4. CacheInv
  BY <1>2 DEF Init, CacheInv, Opened, Loaded, At
<1>5. ChoiceInv
  <2>1. /\ setting \in {"unset", "true", "false"} /\ enabled = FALSE /\ spoilt = FALSE
        /\ alone = {} /\ once = "idle"
    BY DEF Init
  <2>2. wanted = (setting # "false")
    BY ZenonT(20) DEF Init
  <2>. QED BY <1>2, <2>1, <2>2 DEF ChoiceInv, Loaded
<1>6. AnswerInv
  BY <1>2 DEF Init, AnswerInv, At
<1>7. ShutInv
  BY DEF Init, ShutInv, ShutdownStops
<1>. QED BY <1>1, <1>3, <1>4, <1>5, <1>6, <1>7 DEF ProcessInv

-----------------------------------------------------------------------------
(* One call moves to stage. *)
Moved(c, stage) ==
    /\ call' \in [Calls -> [stage : Stages, method : Methods]]
    /\ call'[c].stage = stage
    /\ \A d \in Calls : d # c => call'[d] = call[d]

LEMMA GoesMoves ==
    ASSUME CallInv, NEW c \in Calls, NEW stage \in Stages, Goes(c, stage)
    PROVE  Moved(c, stage) /\ call'[c].method = call[c].method
BY DEF CallInv, Goes, Moved

LEMMA LeavesMoves ==
    ASSUME CallInv, NEW c \in Calls, NEW stage \in Stages, Leaves(c, stage)
    PROVE  Moved(c, stage)
<1>1. [NoCall EXCEPT !.stage = stage] \in [stage : Stages, method : Methods]
      /\ [NoCall EXCEPT !.stage = stage].stage = stage
  BY DEF NoCall, Methods
<1>. QED BY <1>1 DEF CallInv, Leaves, Moved

LEMMA EnterMoves ==
    ASSUME CallInv, NEW c \in Calls, NEW m \in Methods, Enter(c, m)
    PROVE  \E stage \in {"getting", "answering"} : Moved(c, stage)
<1>. DEFINE stage == IF m \in NeedsWorker THEN "getting" ELSE "answering"
<1>1. call' = [call EXCEPT ![c] = [stage |-> stage, method |-> m]]
  BY DEF Enter
<1>2. stage \in {"getting", "answering"} /\ stage \in Stages
  BY DEF Stages
<1>. HIDE DEF stage
<1>3. Moved(c, stage)
  BY <1>1, <1>2 DEF CallInv, Moved
<1>. QED BY <1>2, <1>3

(* A step of a call that does not create the worker: from one stage to     *)
(* another, none of the variables of the worker changed.                   *)
Aside(c, from, to) ==
    /\ call[c].stage = from /\ from \notin Creating
    /\ Moved(c, to) /\ to \in Stages \ Creating
    /\ to \in Complete => once = "done"
    /\ UNCHANGED <<workerVars, shut, due>>

(* The steps that leave flag and disk alone, and the buffers too. *)
LEMMA QuietStep ==
    ASSUME CallInv, OnceInv, NEW c \in Calls,
           \/ \E m \in Methods : Enter(c, m)
           \/ GetWorker(c) /\ UNCHANGED once
           \/ Handle(c) \/ Panic(c)
    PROVE  /\ \E from, to \in Stages \ {"stored", "returned"} : Aside(c, from, to)
           /\ UNCHANGED <<setting, enabled, choiceVars, buffers>>
<1>. USE DEF diskVars, workerVars, choiceVars
<1>1. ASSUME NEW m \in Methods, Enter(c, m)
      PROVE  /\ \E from, to \in Stages \ {"stored", "returned"} : Aside(c, from, to)
             /\ UNCHANGED <<setting, enabled, choiceVars, buffers>>
  <2>1. PICK stage \in {"getting", "answering"} : Moved(c, stage)
    BY <1>1, EnterMoves
  <2>2. Aside(c, "idle", stage)
    BY <1>1, <2>1 DEF Enter, At, Aside, Stages, Creating, Complete
  <2>3. "idle" \in Stages \ {"stored", "returned"} /\ stage \in Stages \ {"stored", "returned"}
    BY DEF Stages
  <2>. QED BY <1>1, <2>2, <2>3 DEF Enter
<1>2. ASSUME GetWorker(c), UNCHANGED once
      PROVE  /\ \E from, to \in Stages \ {"stored", "returned"} : Aside(c, from, to)
             /\ UNCHANGED <<setting, enabled, choiceVars, buffers>>
  <2>1. PICK stage \in {"handling", "blocked"} :
            Goes(c, stage) /\ (stage = "handling" => once = "done")
    BY <1>2 DEF GetWorker
  <2>2. Moved(c, stage)
    BY <2>1, GoesMoves DEF Stages, Complete
  <2>3. call[c].stage \in {"getting", "blocked"}
    BY <1>2 DEF GetWorker, At
  <2>4. Aside(c, call[c].stage, stage)
    BY <1>2, <2>1, <2>2, <2>3 DEF GetWorker, Aside, Stages, Creating, Complete
  <2>5. call[c].stage \in Stages \ {"stored", "returned"} /\ stage \in Stages \ {"stored", "returned"}
    BY <2>3 DEF Stages, Complete
  <2>. QED BY <1>2, <2>4, <2>5 DEF GetWorker
<1>3. ASSUME Handle(c) \/ Panic(c)
      PROVE  /\ \E from, to \in Stages \ {"stored", "returned"} : Aside(c, from, to)
             /\ UNCHANGED <<setting, enabled, choiceVars, buffers>>
  <2>1. PICK stage \in {"answering", "panicked"} : Leaves(c, stage)
    BY <1>3 DEF Handle, Panic
  <2>2. Moved(c, stage)
    BY <2>1, LeavesMoves DEF Stages, Complete
  <2>3. Aside(c, "handling", stage)
    BY <1>3, <2>2 DEF Handle, Panic, At, OnceInv, Aside, Stages, Creating, Complete
  <2>4. "handling" \in Stages \ {"stored", "returned"} /\ stage \in Stages \ {"stored", "returned"}
    BY DEF Stages, Complete
  <2>. QED BY <1>3, <2>3, <2>4 DEF Handle, Panic
<1>. QED BY <1>1, <1>2, <1>3

(* The other steps of a call that do not create the worker. *)
LEMMA AsideStep ==
    ASSUME CallInv, OnceInv, NEW c \in Calls
    PROVE  /\ StoreFlag(c) => Aside(c, "handling", "stored") /\ call'[c].method = call[c].method
           /\ SaveFlag(c) => Aside(c, "stored", "answering")
           /\ Answer(c) => Aside(c, "answering", "returned")
           /\ Recover(c) => Aside(c, "panicked", "returned")
           /\ HostFrees(c) => Aside(c, "returned", "idle")
<1>. USE DEF workerVars, At, Aside, Stages, Creating, Complete
<1>1. StoreFlag(c) => Aside(c, "handling", "stored") /\ call'[c].method = call[c].method
  BY GoesMoves DEF StoreFlag, OnceInv
<1>2. SaveFlag(c) => Aside(c, "stored", "answering")
  BY LeavesMoves DEF SaveFlag
<1>3. Answer(c) => Aside(c, "answering", "returned")
  BY GoesMoves DEF Answer
<1>4. Recover(c) => Aside(c, "panicked", "returned")
  BY GoesMoves DEF Recover
<1>5. HostFrees(c) => Aside(c, "returned", "idle")
  BY GoesMoves DEF HostFrees
<1>. QED BY <1>1, <1>2, <1>3, <1>4, <1>5

(* The steps that create the worker. *)
Begin(c) == GetWorker(c) /\ once' # once

LEMMA CreationMoves ==
    ASSUME CallInv, NEW c \in Calls
    PROVE  /\ Begin(c) => /\ call[c].stage \in {"getting", "blocked"} /\ Moved(c, "opening")
                          /\ once = "idle" /\ once' = "running"
           /\ OpenStorage(c) => At(c, "opening") /\ Moved(c, "loading")
           /\ LoadSetting(c) => At(c, "loading") /\ Moved(c, "starting")
           /\ Publish(c) => At(c, "starting") /\ Moved(c, "published")
           /\ OnceDone(c) => At(c, "published") /\ Moved(c, "handling")
<1>. USE DEF Stages, Creating, Complete
<1>1. Begin(c) => /\ call[c].stage \in {"getting", "blocked"} /\ Moved(c, "opening")
                  /\ once = "idle" /\ once' = "running"
  BY GoesMoves DEF Begin, GetWorker, At
<1>2. /\ OpenStorage(c) => At(c, "opening") /\ Moved(c, "loading")
      /\ LoadSetting(c) => At(c, "loading") /\ Moved(c, "starting")
      /\ Publish(c) => At(c, "starting") /\ Moved(c, "published")
      /\ OnceDone(c) => At(c, "published") /\ Moved(c, "handling")
  BY GoesMoves DEF OpenStorage, LoadSetting, Publish, OnceDone
<1>. QED BY <1>1, <1>2

-----------------------------------------------------------------------------
(* The steps, in the groups that the invariants tell apart. *)
LEMMA Steps ==
    ASSUME [Next]_vars
    PROVE  \/ \E c \in Calls :
                  \/ \E m \in Methods : Enter(c, m)
                  \/ GetWorker(c) /\ UNCHANGED once
                  \/ Handle(c) \/ Panic(c)
           \/ \E c \in Calls : StoreFlag(c) \/ SaveFlag(c) \/ Answer(c) \/ Recover(c) \/ HostFrees(c)
           \/ \E c \in Calls : Begin(c) \/ OpenStorage(c) \/ LoadSetting(c) \/ Publish(c) \/ OnceDone(c)
           \/ Shutdown \/ LoopEnds \/ CloseStorage
           \/ Restart
           \/ UNCHANGED vars
BY DEF Next, Goroutine, Begin

LEMMA OnceStep == CallInv /\ OnceInv /\ [Next]_vars => CallInv' /\ OnceInv'
<1>. USE DEF workerVars
<1>. SUFFICES ASSUME CallInv, OnceInv, [Next]_vars PROVE CallInv' /\ OnceInv'
  OBVIOUS
<1>1. ASSUME NEW c \in Calls, NEW from, NEW to, Aside(c, from, to) PROVE CallInv' /\ OnceInv'
  BY <1>1 DEF Aside, Moved, CallInv, OnceInv, At, Creating
<1>2. ASSUME NEW c \in Calls,
             \/ \E m \in Methods : Enter(c, m)
             \/ GetWorker(c) /\ UNCHANGED once
             \/ Handle(c) \/ Panic(c)
      PROVE  CallInv' /\ OnceInv'
  BY <1>1, <1>2, QuietStep
<1>3. ASSUME NEW c \in Calls,
             StoreFlag(c) \/ SaveFlag(c) \/ Answer(c) \/ Recover(c) \/ HostFrees(c)
      PROVE  CallInv' /\ OnceInv'
  BY <1>1, <1>3, AsideStep
<1>4. ASSUME NEW c \in Calls, Begin(c) PROVE CallInv' /\ OnceInv'
  <2>1. /\ call[c].stage \in {"getting", "blocked"} /\ Moved(c, "opening")
        /\ once = "idle" /\ once' = "running" /\ UNCHANGED <<globalWorker, workers>>
    BY <1>4, CreationMoves DEF Begin, GetWorker
  <2>. QED BY <2>1 DEF Moved, CallInv, OnceInv, At, Creating, Complete
<1>5. ASSUME NEW c \in Calls, OpenStorage(c) PROVE CallInv' /\ OnceInv'
  <2>1. At(c, "opening") /\ Moved(c, "loading") /\ UNCHANGED <<once, globalWorker, workers>>
    BY <1>5, CreationMoves DEF OpenStorage
  <2>. QED BY <2>1 DEF Moved, CallInv, OnceInv, At, Creating, Complete
<1>6. ASSUME NEW c \in Calls, LoadSetting(c) PROVE CallInv' /\ OnceInv'
  <2>1. At(c, "loading") /\ Moved(c, "starting") /\ UNCHANGED <<once, globalWorker, workers>>
    BY <1>6, CreationMoves DEF LoadSetting
  <2>. QED BY <2>1 DEF Moved, CallInv, OnceInv, At, Creating, Complete
<1>7. ASSUME NEW c \in Calls, Publish(c) PROVE CallInv' /\ OnceInv'
  <2>1. /\ At(c, "starting") /\ Moved(c, "published") /\ UNCHANGED once
        /\ globalWorker' = TRUE /\ workers' = workers + 1
    BY <1>7, CreationMoves DEF Publish
  <2>. QED BY <2>1 DEF Moved, CallInv, OnceInv, At, Creating, Complete
<1>8. ASSUME NEW c \in Calls, OnceDone(c) PROVE CallInv' /\ OnceInv'
  <2>1. /\ At(c, "published") /\ Moved(c, "handling") /\ once' = "done"
        /\ UNCHANGED <<globalWorker, workers>>
    BY <1>8, CreationMoves DEF OnceDone
  <2>. QED BY <2>1 DEF Moved, CallInv, OnceInv, At, Creating, Complete
<1>9. ASSUME Shutdown \/ LoopEnds \/ CloseStorage \/ UNCHANGED vars PROVE CallInv' /\ OnceInv'
  <2>1. UNCHANGED <<call, once, globalWorker, workers>>
    BY <1>9 DEF Shutdown, LoopEnds, CloseStorage, vars, callVars
  <2>. QED BY <2>1 DEF CallInv, OnceInv, At
<1>10. ASSUME Restart PROVE CallInv' /\ OnceInv'
  <2>1. \A c \in Calls : call'[c] = NoCall
    BY <1>10 DEF Restart
  <2>2. CallInv'
    BY <1>10 DEF Restart, CallInv, NoCall, Stages, Methods
  <2>. QED BY <1>10, <2>1, <2>2 DEF Restart, OnceInv, At, NoCall, Creating, Complete
<1>. QED
  BY <1>2, <1>3, <1>4, <1>5, <1>6, <1>7, <1>8, <1>9, <1>10, Steps

-----------------------------------------------------------------------------
(* Whatever rates a table has: the cache has the pinned ones, all of them. *)
LEMMA SeededIsPinned == ASSUME NEW table PROVE LoadPricingCache(Seeded(table)) = Embedded
<1>1. \A m \in Models : LoadPricingCache(Seeded(table))[m] = Embedded[m]
  BY DEF LoadPricingCache, Seeded
<1>2. LoadPricingCache(Seeded(table)) = [m \in Models |-> LoadPricingCache(Seeded(table))[m]]
  BY DEF LoadPricingCache
<1>3. Embedded = [m \in Models |-> Embedded[m]]
  BY ProcessAssumption
<1>. QED BY <1>1, <1>2, <1>3

LEMMA CacheStep ==
    CallInv /\ OnceInv /\ CacheInv /\ [Next]_vars => CacheInv'
<1>. USE DEF workerVars
<1>. SUFFICES ASSUME CallInv, OnceInv, CacheInv, [Next]_vars PROVE CacheInv'
  OBVIOUS
<1>1. ASSUME NEW c \in Calls, NEW from, NEW to, Aside(c, from, to) PROVE CacheInv'
  <2>1. (Unopened' => Unopened) /\ (Opened' => Opened)
    BY <1>1 DEF Aside, Moved, Unopened, Opened, Loaded, At, Creating
  <2>. QED BY <1>1, <2>1 DEF CacheInv, Aside
<1>2. ASSUME NEW c \in Calls,
             \/ \E m \in Methods : Enter(c, m)
             \/ GetWorker(c) /\ UNCHANGED once
             \/ Handle(c) \/ Panic(c)
      PROVE  CacheInv'
  BY <1>1, <1>2, QuietStep
<1>3. ASSUME NEW c \in Calls,
             StoreFlag(c) \/ SaveFlag(c) \/ Answer(c) \/ Recover(c) \/ HostFrees(c)
      PROVE  CacheInv'
  BY <1>1, <1>3, AsideStep
<1>4. ASSUME NEW c \in Calls, Begin(c) PROVE CacheInv'
  <2>1. /\ call[c].stage \in {"getting", "blocked"} /\ Moved(c, "opening")
        /\ once = "idle" /\ once' = "running" /\ UNCHANGED <<medium, cache>>
    BY <1>4, CreationMoves DEF Begin, GetWorker
  <2>2. Unopened /\ ~Opened'
    BY <2>1 DEF Moved, Unopened, Opened, Loaded, OnceInv, At, Creating
  <2>. QED BY <2>1, <2>2 DEF CacheInv
<1>5. ASSUME NEW c \in Calls, OpenStorage(c) PROVE CacheInv'
  <2>1. At(c, "opening") /\ Moved(c, "loading") /\ UNCHANGED once
    BY <1>5, CreationMoves DEF OpenStorage
  <2>2. Unopened /\ ~Unopened'
    BY <2>1 DEF Moved, Unopened, OnceInv, At, Creating
  <2>3. \/ medium' \in {"disk", "memory"} /\ cache' = Embedded
        \/ medium' = "absent" /\ cache' = cache
    BY <1>5, SeededIsPinned DEF OpenStorage
  <2>. QED BY <2>2, <2>3 DEF CacheInv
<1>6. ASSUME NEW c \in Calls, LoadSetting(c) \/ Publish(c) \/ OnceDone(c) PROVE CacheInv'
  <2>1. PICK from \in {"loading", "starting", "published"},
             to \in {"starting", "published", "handling"} :
                 At(c, from) /\ Moved(c, to)
    BY <1>6, CreationMoves
  <2>2. UNCHANGED <<medium, cache>> /\ once' \in {once, "done"}
    BY <1>6 DEF LoadSetting, Publish, OnceDone
  <2>3. Opened /\ ~Unopened'
    BY <2>1, <2>2 DEF Moved, Unopened, Opened, Loaded, OnceInv, At, Creating
  <2>. QED BY <2>2, <2>3 DEF CacheInv
<1>7. ASSUME Shutdown \/ LoopEnds \/ CloseStorage \/ UNCHANGED vars PROVE CacheInv'
  <2>1. UNCHANGED <<call, once, medium, cache>>
    BY <1>7 DEF Shutdown, LoopEnds, CloseStorage, vars, callVars
  <2>. QED BY <2>1 DEF CacheInv, Unopened, Opened, Loaded, At
<1>8. ASSUME Restart PROVE CacheInv'
  <2>1. \A c \in Calls : call'[c].stage = "idle"
    BY <1>8 DEF Restart, NoCall
  <2>2. ~Opened'
    BY <1>8, <2>1 DEF Restart, Opened, Loaded, At
  <2>. QED BY <1>8, <2>2 DEF CacheInv, Restart, NoPrices
<1>. QED
  BY <1>2, <1>3, <1>4, <1>5, <1>6, <1>7, <1>8, Steps

-----------------------------------------------------------------------------
LEMMA ChoiceStep == CallInv /\ OnceInv /\ ChoiceInv /\ [Next]_vars => ChoiceInv'
<1>. USE DEF workerVars, choiceVars
<1>. SUFFICES ASSUME CallInv, OnceInv, ChoiceInv, [Next]_vars PROVE ChoiceInv'
  OBVIOUS
(* Calls that store no choice. *)
<1>1. ASSUME UNCHANGED <<setting, enabled, wanted, spoilt, alone>>,
             Loaded' => Loaded /\ UNCHANGED medium,
             \A d \in Calls : At(d, "stored")' <=> At(d, "stored"),
             \A d \in Calls : At(d, "stored") => call'[d] = call[d]
      PROVE  ChoiceInv'
  BY <1>1 DEF ChoiceInv
<1>2. ASSUME NEW c \in Calls, NEW from, NEW to, Aside(c, from, to)
      PROVE  Loaded' => Loaded /\ UNCHANGED medium
  BY <1>2 DEF Aside, Moved, Loaded, At, Creating
<1>3. ASSUME NEW c \in Calls, NEW from, NEW to, Aside(c, from, to),
             from # "stored", to # "stored",
             UNCHANGED <<setting, enabled, wanted, spoilt, alone>>
      PROVE  ChoiceInv'
  BY <1>1, <1>2, <1>3 DEF Aside, Moved, At
<1>4. ASSUME NEW c \in Calls,
             \/ \E m \in Methods : Enter(c, m)
             \/ GetWorker(c) /\ UNCHANGED once
             \/ Handle(c) \/ Panic(c)
      PROVE  ChoiceInv'
  BY <1>3, <1>4, QuietStep
<1>5. ASSUME NEW c \in Calls, Answer(c) \/ Recover(c) \/ HostFrees(c) PROVE ChoiceInv'
  BY <1>3, <1>5, AsideStep DEF Answer, Recover, HostFrees, diskVars
<1>6. ASSUME NEW c \in Calls, StoreFlag(c) PROVE ChoiceInv'
  <2>1. /\ Aside(c, "handling", "stored") /\ call'[c].method = call[c].method
        /\ enabled' = (call[c].method = "on")
        /\ alone' = IF \E d \in Calls : At(d, "stored") THEN {} ELSE {c}
        /\ UNCHANGED <<setting, wanted, spoilt>>
    BY <1>6, AsideStep DEF StoreFlag, diskVars
  <2>2. At(c, "stored")' /\ \A d \in Calls : d # c => (At(d, "stored")' <=> At(d, "stored"))
    BY <2>1 DEF Aside, Moved, At
  <2>. QED BY <2>1, <2>2 DEF ChoiceInv
<1>7. ASSUME NEW c \in Calls, SaveFlag(c) PROVE ChoiceInv'
  <2>. DEFINE v == call[c].method = "on"
  <2>1. /\ Aside(c, "stored", "answering") /\ wanted' = v /\ alone' = alone \ {c}
        /\ UNCHANGED <<enabled, medium>>
        /\ \/ setting' = Value(v) /\ spoilt' = ~(c \in alone)
           \/ UNCHANGED setting /\ spoilt' = TRUE
    BY <1>7, AsideStep DEF SaveFlag
  <2>2. /\ At(c, "stored") /\ ~At(c, "stored")'
        /\ \A d \in Calls : d # c => call'[d] = call[d] /\ (At(d, "stored")' <=> At(d, "stored"))
    BY <2>1 DEF Aside, Moved, At
  <2>3. ~spoilt' => c \in alone /\ setting' = Value(v)
    BY <2>1
  <2>4. Value(v) = IF v THEN "true" ELSE "false"
    BY DEF Value
  <2>5. /\ setting' \in {"unset", "true", "false"} /\ enabled' \in BOOLEAN
        /\ wanted' \in BOOLEAN /\ spoilt' \in BOOLEAN
    BY <2>1, <2>4 DEF ChoiceInv
  <2>6. ~spoilt' => (wanted' <=> setting' # "false")
    BY <2>1, <2>3, <2>4
  <2>7. ~spoilt' => (enabled' <=> wanted')
    BY <2>1, <2>2, <2>3 DEF ChoiceInv
  <2>8. \A e \in alone' \cap Calls : At(e, "stored")' =>
            /\ enabled' <=> call'[e].method = "on"
            /\ \A d \in Calls : At(d, "stored")' => d = e
    BY <2>1, <2>2 DEF ChoiceInv
  <2>. QED BY <2>5, <2>6, <2>7, <2>8 DEF ChoiceInv
(* While the Once runs, no call stores a choice. *)
<1>8. ASSUME NEW c \in Calls, NEW to, Moved(c, to), to # "stored",
             once = "running" \/ once = "idle"
      PROVE  \A d \in Calls : ~At(d, "stored") /\ ~At(d, "stored")'
  BY <1>8 DEF Moved, OnceInv, At, Complete
<1>9. ASSUME NEW c \in Calls, Begin(c) \/ OpenStorage(c) PROVE ChoiceInv'
  <2>1. PICK to \in {"opening", "loading"} : Moved(c, to) /\ once \in {"idle", "running"}
    BY <1>9, CreationMoves DEF OnceInv, At, Creating
  <2>2. ~Loaded'
    <3>1. \/ call[c].stage \in {"getting", "blocked"} /\ once = "idle" /\ once' = "running"
          \/ call[c].stage = "opening" /\ UNCHANGED once
      BY <1>9, CreationMoves DEF OpenStorage, At
    <3>. QED BY <2>1, <3>1 DEF Moved, Loaded, OnceInv, Creating
  <2>3. UNCHANGED <<setting, enabled, wanted, spoilt, alone>>
    BY <1>9 DEF Begin, GetWorker, OpenStorage, diskVars
  <2>. QED BY <1>1, <1>8, <2>1, <2>2, <2>3
<1>10. ASSUME NEW c \in Calls, Publish(c) \/ OnceDone(c) PROVE ChoiceInv'
  <2>1. PICK to \in {"published", "handling"} :
            Moved(c, to) /\ once = "running" /\ call[c].stage \in {"starting", "published"}
    BY <1>10, CreationMoves DEF OnceInv, At, Creating
  <2>2. UNCHANGED <<setting, enabled, wanted, spoilt, alone, medium>> /\ Loaded
    BY <1>10, <2>1 DEF Publish, OnceDone, diskVars, Loaded
  <2>. QED BY <1>1, <1>8, <2>1, <2>2
(* What a start reads is what was chosen last. *)
<1>11. ASSUME NEW c \in Calls, LoadSetting(c) PROVE ChoiceInv'
  <2>1. Moved(c, "starting") /\ once = "running" /\ UNCHANGED <<once, medium, wanted, alone>>
    BY <1>11, CreationMoves DEF LoadSetting, OnceInv, At, Creating
  <2>2. \A d \in Calls : ~At(d, "stored") /\ ~At(d, "stored")'
    BY <1>8, <2>1
  <2>3. CASE medium # "disk"
    <3>1. enabled' \in BOOLEAN /\ UNCHANGED <<setting, spoilt>>
      BY <1>11, <2>3 DEF LoadSetting
    <3>. QED BY <2>1, <2>2, <2>3, <3>1 DEF ChoiceInv
  <2>4. CASE medium = "disk"
    <3>1. PICK read \in BOOLEAN : /\ enabled' = (GetConfig(read, "true") # "false")
                                  /\ spoilt' = (spoilt \/ ~read)
      BY <1>11, <2>4 DEF LoadSetting
    <3>2. setting' \in {setting, Value(enabled')}
      BY <1>11, <2>4 DEF LoadSetting
    <3>3. Value(enabled') = IF enabled' THEN "true" ELSE "false"
      BY DEF Value
    <3>4. ~spoilt' => /\ ~spoilt
                      /\ enabled' <=> setting # "false"
      BY <3>1 DEF GetConfig, ChoiceInv
    <3>5. ~spoilt' => (setting' # "false" <=> setting # "false")
      BY <3>2, <3>3, <3>4
    <3>6. /\ setting' \in {"unset", "true", "false"} /\ enabled' \in BOOLEAN
          /\ spoilt' \in BOOLEAN
      BY <3>1, <3>2, <3>3 DEF ChoiceInv
    <3>7. ~spoilt' => (wanted' <=> setting' # "false") /\ (enabled' <=> wanted')
      BY <2>1, <3>4, <3>5 DEF ChoiceInv
    <3>. QED BY <2>1, <2>2, <3>6, <3>7 DEF ChoiceInv
  <2>. QED BY <2>3, <2>4
<1>12. ASSUME Shutdown \/ LoopEnds \/ CloseStorage \/ UNCHANGED vars PROVE ChoiceInv'
  <2>1. UNCHANGED <<call, once, medium, setting, enabled, wanted, spoilt, alone>>
    BY <1>12 DEF Shutdown, LoopEnds, CloseStorage, vars, callVars, diskVars
  <2>. QED BY <2>1 DEF ChoiceInv, Loaded, At
<1>13. ASSUME Restart PROVE ChoiceInv'
  <2>1. /\ \A c \in Calls : call'[c].stage = "idle"
        /\ UNCHANGED <<setting, wanted, spoilt>> /\ alone' = {}
        /\ once' = "idle" /\ enabled' = FALSE
    BY <1>13 DEF Restart, NoCall, diskVars
  <2>. QED BY <2>1 DEF ChoiceInv, Loaded
<1>. QED
  BY <1>4, <1>5, <1>6, <1>7, <1>9, <1>10, <1>11, <1>12, <1>13, Steps

LEMMA AnswerStep == CallInv /\ OnceInv /\ AnswerInv /\ [Next]_vars => AnswerInv'
<1>. SUFFICES ASSUME CallInv, OnceInv, AnswerInv, [Next]_vars PROVE AnswerInv'
  OBVIOUS
<1>1. ASSUME NEW c \in Calls, NEW to, Moved(c, to),
             buffers' = [buffers EXCEPT ![c] = IF to = "returned" THEN 1 ELSE 0]
      PROVE  AnswerInv'
  BY <1>1 DEF AnswerInv, Moved, At
<1>2. ASSUME NEW c \in Calls, NEW to, Moved(c, to), to # "returned", ~At(c, "returned"),
             UNCHANGED buffers
      PROVE  AnswerInv'
  BY <1>2 DEF AnswerInv, Moved, At
<1>3. ASSUME NEW c \in Calls,
             \/ \E m \in Methods : Enter(c, m)
             \/ GetWorker(c) /\ UNCHANGED once
             \/ Handle(c) \/ Panic(c)
      PROVE  AnswerInv'
  BY <1>2, <1>3, QuietStep DEF Aside, At
<1>4. ASSUME NEW c \in Calls, StoreFlag(c) \/ SaveFlag(c) PROVE AnswerInv'
  BY <1>2, <1>4, AsideStep DEF StoreFlag, SaveFlag, Aside, At
<1>5. ASSUME NEW c \in Calls, Answer(c) \/ Recover(c) PROVE AnswerInv'
  <2>1. Moved(c, "returned") /\ call[c].stage # "returned"
    BY <1>5, AsideStep DEF Aside
  <2>2. buffers[c] = 0
    BY <2>1 DEF AnswerInv, At
  <2>3. buffers' = [buffers EXCEPT ![c] = 1]
    BY <1>5, <2>2 DEF Answer, Recover
  <2>. QED BY <1>1, <2>1, <2>3
<1>6. ASSUME NEW c \in Calls, HostFrees(c) PROVE AnswerInv'
  <2>1. Moved(c, "idle") /\ At(c, "returned")
    BY <1>6, AsideStep DEF Aside, At
  <2>2. buffers' = [buffers EXCEPT ![c] = 0]
    BY <1>6, <2>1 DEF HostFrees, AnswerInv
  <2>. QED BY <1>1, <2>1, <2>2
<1>7. ASSUME NEW c \in Calls,
             Begin(c) \/ OpenStorage(c) \/ LoadSetting(c) \/ Publish(c) \/ OnceDone(c)
      PROVE  AnswerInv'
  <2>1. PICK to \in Stages \ {"returned"} : Moved(c, to) /\ ~At(c, "returned")
    BY <1>7, CreationMoves DEF At, Stages, Creating, Complete
  <2>2. UNCHANGED buffers
    BY <1>7 DEF Begin, GetWorker, OpenStorage, LoadSetting, Publish, OnceDone
  <2>. QED BY <1>2, <2>1, <2>2
<1>8. ASSUME Shutdown \/ LoopEnds \/ CloseStorage \/ UNCHANGED vars PROVE AnswerInv'
  BY <1>8 DEF Shutdown, LoopEnds, CloseStorage, vars, callVars, AnswerInv, At
<1>9. ASSUME Restart PROVE AnswerInv'
  BY <1>9 DEF Restart, AnswerInv, At, NoCall
<1>. QED BY <1>3, <1>4, <1>5, <1>6, <1>7, <1>8, <1>9, Steps

LEMMA ShutStep == CallInv /\ OnceInv /\ ShutInv /\ [Next]_vars => ShutInv'
<1>. USE DEF workerVars
<1>. SUFFICES ASSUME CallInv, OnceInv, ShutInv, [Next]_vars PROVE ShutInv'
  OBVIOUS
<1>1. ASSUME NEW c \in Calls, NEW from, NEW to, Aside(c, from, to) PROVE ShutInv'
  BY <1>1 DEF Aside, ShutInv, ShutdownStops
<1>2. ASSUME NEW c \in Calls,
             \/ \E m \in Methods : Enter(c, m)
             \/ GetWorker(c) /\ UNCHANGED once
             \/ Handle(c) \/ Panic(c)
      PROVE  ShutInv'
  BY <1>1, <1>2, QuietStep
<1>3. ASSUME NEW c \in Calls,
             StoreFlag(c) \/ SaveFlag(c) \/ Answer(c) \/ Recover(c) \/ HostFrees(c)
      PROVE  ShutInv'
  BY <1>1, <1>3, AsideStep
(* A worker is created before any shutdown that is due. *)
<1>4. ASSUME NEW c \in Calls,
             Begin(c) \/ OpenStorage(c) \/ LoadSetting(c) \/ Publish(c) \/ OnceDone(c)
      PROVE  ShutInv'
  <2>1. once \in {"idle", "running"}
    BY <1>4, CreationMoves DEF OnceInv, At, Creating
  <2>2. UNCHANGED <<shut, due>>
    BY <1>4 DEF Begin, GetWorker, OpenStorage, LoadSetting, Publish, OnceDone
  <2>. QED BY <2>1, <2>2 DEF ShutInv, ShutdownStops
<1>5. ASSUME Shutdown PROVE ShutInv'
  <2>1. /\ UNCHANGED once
        /\ \/ shut' = "waiting"
           \/ shut' = "returned" /\ (~globalWorker \/ once # "done")
    BY <1>5 DEF Shutdown
  <2>2. due' \in BOOLEAN /\ (due' <=> once = "done")
    <3>1. due' = (once = "done")
      BY <1>5, ZenonT(20) DEF Shutdown
    <3>. QED BY <3>1
  <2>3. due' => shut' = "waiting"
    BY <2>1, <2>2 DEF OnceInv
  <2>4. shut' # "no"
    BY <2>1
  <2>. QED BY <2>1, <2>2, <2>3, <2>4 DEF ShutInv, ShutdownStops
<1>6. ASSUME LoopEnds PROVE ShutInv'
  BY <1>6 DEF LoopEnds, ShutInv, ShutdownStops
<1>7. ASSUME CloseStorage PROVE ShutInv'
  BY <1>7 DEF CloseStorage, ShutInv, ShutdownStops
<1>8. ASSUME Restart PROVE ShutInv'
  BY <1>8 DEF Restart, ShutInv, ShutdownStops
<1>9. ASSUME UNCHANGED vars PROVE ShutInv'
  BY <1>9 DEF vars, ShutInv, ShutdownStops
<1>. QED BY <1>2, <1>3, <1>4, <1>5, <1>6, <1>7, <1>8, <1>9, Steps

LEMMA ProcessInvariant == Spec => []ProcessInv
<1>1. ProcessInv /\ [Next]_vars => ProcessInv'
  BY OnceStep, CacheStep, ChoiceStep, AnswerStep, ShutStep DEF ProcessInv
<1>. QED BY <1>1, ProcessInit, PTL DEF Spec

-----------------------------------------------------------------------------
(* However many calls come first at the same time: one worker is started,  *)
(* and a call that is past GetWorker finds it complete.                    *)
THEOREM OneWorkerOnly == Spec => []OneWorker
<1>1. ProcessInv => OneWorker
  BY DEF ProcessInv, OnceInv, OneWorker
<1>. QED BY <1>1, ProcessInvariant, PTL

(* The first of the tried names with a rate decides. *)
LEMMA FirstHit ==
    ASSUME NEW table, NEW n \in Names
    PROVE  FindModelPricing(table, n) =
               IF n \in GetAllPricing(table) THEN table[n]
               ELSE IF Lower[n] \in GetAllPricing(table) THEN table[Lower[n]]
               ELSE IF Lower[n] \in DOMAIN Aliases /\ Aliases[Lower[n]] \in GetAllPricing(table)
                    THEN table[Aliases[Lower[n]]]
               ELSE None
<1>. DEFINE T == Tried(n)
            Hit(i) == T[i] \in GetAllPricing(table)
            First == CHOOSE i \in DOMAIN T : Hit(i) /\ \A j \in 1..i - 1 : ~Hit(j)
<1>1. FindModelPricing(table, n) =
          IF \E i \in DOMAIN T : Hit(i) THEN table[T[First]] ELSE None
  BY DEF FindModelPricing
<1>2. /\ T[1] = n /\ T[2] = Lower[n]
      /\ IF Lower[n] \in DOMAIN Aliases
         THEN DOMAIN T = 1..3 /\ T[3] = Aliases[Lower[n]]
         ELSE DOMAIN T = 1..2
  BY DEF Tried
<1>. HIDE DEF T
<1>3. ASSUME NEW i \in DOMAIN T, Hit(i), \A j \in 1..i - 1 : ~Hit(j) PROVE First = i
  <2>1. Hit(First) /\ First \in DOMAIN T /\ \A j \in 1..First - 1 : ~Hit(j)
    BY <1>3
  <2>2. i \in Nat /\ First \in Nat /\ i >= 1 /\ First >= 1
    BY <1>2, <2>1
  <2>. HIDE DEF First, Hit
  <2>. QED BY <1>3, <2>1, <2>2
<1>. HIDE DEF First
<1>4. CASE Hit(1)
  <2>1. First = 1 /\ 1 \in DOMAIN T
    BY <1>2, <1>3, <1>4
  <2>. QED BY <1>1, <1>2, <1>4, <2>1
<1>5. CASE ~Hit(1) /\ Hit(2)
  <2>1. First = 2 /\ 2 \in DOMAIN T
    BY <1>2, <1>3, <1>5
  <2>. QED BY <1>1, <1>2, <1>5, <2>1
<1>6. CASE ~Hit(1) /\ ~Hit(2) /\ 3 \in DOMAIN T /\ Hit(3)
  <2>1. First = 3
    BY <1>3, <1>6
  <2>. QED BY <1>1, <1>2, <1>6, <2>1
<1>7. CASE ~Hit(1) /\ ~Hit(2) /\ ~(3 \in DOMAIN T /\ Hit(3))
  <2>1. ~ \E i \in DOMAIN T : Hit(i)
    BY <1>2, <1>7
  <2>. QED BY <1>1, <1>2, <1>7, <2>1
<1>. QED BY <1>4, <1>5, <1>6, <1>7

(* Offline estimates: whatever an older version stored and whichever       *)
(* statement fails, the prices in use are the pinned ones; and each name,  *)
(* in any spelling, has its own price or that of what it is known to be.   *)
THEOREM EveryNameHasItsPrice == Spec => []PricedAsNamed
<1>1. ProcessInv => PricesPinned
  BY DEF ProcessInv, CacheInv, Opened, Loaded, PricesPinned
<1>2. ProcessInv => PricedAsNamed
  <2>. DEFINE named == GetAllPricing(Embedded)
              price(n) == FindModelPricing(Embedded, n)
  <2>0. named \subseteq Models /\ \A n \in named : Embedded[n] # None
    BY DEF GetAllPricing
  <2>1. ASSUME NEW n \in named PROVE price(n) = Embedded[n]
    BY <2>0, <2>1, FirstHit, ProcessAssumption
  <2>2. ASSUME NEW n \in Names \ named, price(n) # None
        PROVE  \E m \in named : /\ price(n) = Embedded[m]
                                 /\ \/ Lower[m] = Lower[n]
                                    \/ Lower[n] \in DOMAIN Aliases /\ Aliases[Lower[n]] = m
    <3>1. CASE Lower[n] \in named
      <4>1. price(n) = Embedded[Lower[n]]
        BY <2>2, <3>1, FirstHit
      <4>2. Lower[Lower[n]] = Lower[n]
        BY ProcessAssumption
      <4>. QED BY <3>1, <4>1, <4>2
    <3>2. CASE Lower[n] \notin named
      <4>1. /\ Lower[n] \in DOMAIN Aliases /\ Aliases[Lower[n]] \in named
            /\ price(n) = Embedded[Aliases[Lower[n]]]
        BY <2>2, <3>2, FirstHit
      <4>. QED BY <4>1
    <3>. QED BY <3>1, <3>2
  <2>3. \A n \in Names \ named : Lower[n] \in named => price(n) = Embedded[Lower[n]]
    BY FirstHit
  <2>4. PricesPinned /\ once = "done" /\ medium # "absent" => cache = Embedded
    BY DEF PricesPinned
  <2>. QED BY <1>1, <2>1, <2>2, <2>3, <2>4 DEF PricedAsNamed
<1>. QED BY <1>2, ProcessInvariant, PTL

(* The last choice made in the dashboard is in force, over restarts and    *)
(* crashes, while the disk serves and choices do not overlap.              *)
THEOREM LastChoiceHolds == Spec => []ChoiceHolds
<1>1. ProcessInv => ChoiceHolds
  BY DEF ProcessInv, ChoiceInv, Loaded, ChoiceHolds
<1>. QED BY <1>1, ProcessInvariant, PTL

(* The host gets one buffer for each call, after a panic too.              *)
THEOREM OneAnswerEach == Spec => []OneAnswer
<1>1. ProcessInv => OneAnswer
  BY DEF ProcessInv, AnswerInv, OneAnswer
<1>. QED BY <1>1, ProcessInvariant, PTL

(* A shutdown after the first call got its worker leaves no loop running   *)
(* and no database open.                                                   *)
THEOREM ShutdownStopsEverything == Spec => []ShutdownStops
<1>1. ProcessInv => ShutdownStops
  BY DEF ProcessInv, ShutInv
<1>. QED BY <1>1, ProcessInvariant, PTL
=============================================================================
