----------------------------- MODULE EgoProcess -----------------------------
(***************************************************************************)
(* The plugin in the process of the host, over restarts: calls through the *)
(* C ABI (main.go), the Ego worker they create on first use (GetWorker),   *)
(* the database it opens (OpenStorage), the "enabled" setting and the      *)
(* price list it reads, and the shutdown.  What the worker does with the   *)
(* events is in EgoWorker; what queries answer is in EgoStorage.           *)
(***************************************************************************)
EXTENDS Naturals, FiniteSets

CONSTANTS Calls,     \* room for concurrent calls of cliproxyPluginCall
          Names,     \* model names, in the spellings that events have
          Lower,     \* each name in lower case, without blanks around it
          Aliases,   \* confirmedAliases, for some lower-case names
          Models,    \* the names in some price table
          Embedded,  \* the pinned rates, for some of the models
          None,      \* no rate
          Rates,     \* what an older version may have stored for a model
          MaxRuns    \* bound on starts of the process

ASSUME ProcessAssumption ==
    /\ MaxRuns \in Nat
    /\ Models \subseteq Names /\ Embedded = [m \in Models |-> Embedded[m]]
    /\ Lower \in [Names -> Names] /\ \A n \in Names : Lower[Lower[n]] = Lower[n]
    /\ DOMAIN Aliases \subseteq Names
    /\ \A n \in DOMAIN Aliases : Lower[n] = n /\ Aliases[n] \in Models

VARIABLES setting, prices,  \* ego_config and ego_pricing on disk
          run,              \* which process this is
          once,             \* workerOnce
          globalWorker,     \* FALSE stands for nil
          workers,          \* workers started in this process
          medium,           \* what its storage is: disk, memory or absent
          closed,           \* Storage.Close was called
          cache,            \* Storage.pricingCache
          enabled,          \* Worker.enabled
          loop,             \* flushLoop
          shut,             \* cliproxyPluginShutdown
          call, buffers     \* each call, and its C buffers not yet freed

(* History, read by no action: the last choice stored for "enabled";       *)
(* whether the disk may differ from it; the SetEnabled calls no other has  *)
(* overlapped; whether the shutdown came after the worker was complete.    *)
VARIABLES wanted, spoilt, alone, due

diskVars == <<setting, prices>>
workerVars == <<once, globalWorker, workers, medium, closed, cache, loop>>
callVars == <<call, buffers>>
choiceVars == <<wanted, spoilt, alone>>
vars == <<diskVars, run, workerVars, enabled, shut, callVars, choiceVars, due>>

-----------------------------------------------------------------------------
Methods == {"static", "usage", "query", "on", "off"}

(* What needs no worker (plugin.register, management.register, assets, and *)
(* what is refused at once); usage.handle; and the endpoints under         *)
(* /v0/management/ego, of which POST /settings switches collection.        *)
NeedsWorker == {"usage", "query", "on", "off"}
Settings == {"on", "off"}

NoPrices == [m \in Models |-> None]

NoCall == [stage |-> "idle", method |-> "static"]

(* A database of any earlier version, or none. *)
Init ==
    /\ setting \in {"unset", "true", "false"}
    /\ prices \in [Models -> Rates]
    /\ run = 1
    /\ once = "idle" /\ globalWorker = FALSE /\ workers = 0 /\ loop = "off"
    /\ medium = "absent" /\ closed = FALSE /\ cache = NoPrices /\ enabled = FALSE
    /\ shut = "no" /\ due = FALSE /\ alone = {}
    /\ call = [c \in Calls |-> NoCall] /\ buffers = [c \in Calls |-> 0]
    /\ wanted = (setting # "false") /\ spoilt = FALSE

Goes(c, stage) == call' = [call EXCEPT ![c].stage = stage]

(* From here on the method does not matter. *)
Leaves(c, stage) == call' = [call EXCEPT ![c] = [NoCall EXCEPT !.stage = stage]]

At(c, stage) == call[c].stage = stage

-----------------------------------------------------------------------------
(* cliproxyPluginCall: the host calls. *)
Enter(c, m) ==
    /\ At(c, "idle")
    /\ call' = [call EXCEPT ![c] =
           [stage |-> IF m \in NeedsWorker THEN "getting" ELSE "answering", method |-> m]]
    /\ UNCHANGED <<diskVars, run, workerVars, enabled, shut, buffers, choiceVars, due>>

GetWorkerUnguarded(c) ==  \* fault: a nil check for the sync.Once
    /\ At(c, "getting")
    /\ IF once = "done" THEN Goes(c, "handling") /\ UNCHANGED once
       ELSE Goes(c, "opening") /\ once' = "running"
    /\ UNCHANGED <<diskVars, run, globalWorker, workers, medium, closed, cache, loop,
                   enabled, shut, buffers, choiceVars, due>>

GetWorker(c) ==
    /\ At(c, "getting") \/ At(c, "blocked")
    /\ \/ once = "done" /\ Goes(c, "handling") /\ UNCHANGED once
       \/ once = "running" /\ Goes(c, "blocked") /\ UNCHANGED once
       \/ once = "idle" /\ Goes(c, "opening") /\ once' = "running"
    /\ UNCHANGED <<diskVars, run, globalWorker, workers, medium, closed, cache, loop,
                   enabled, shut, buffers, choiceVars, due>>

(* initPricing upserts the embedded rates; obsolete rows stay.             *)
Seeded(table) == [m \in Models |-> IF Embedded[m] # None THEN Embedded[m] ELSE table[m]]

LoadStored(table) == table  \* fault: the stored rates are taken as they are

(* loadPricingCacheLocked: embedded rates of the models in the table.      *)
LoadPricingCache(table) ==
    [m \in Models |-> IF table[m] # None THEN Embedded[m] ELSE None]

(* GetAllPricing: the names the price list of the dashboard shows.         *)
GetAllPricing(table) == {m \in Models : table[m] # None}

(* The names FindModelPricing looks up, in this order; the first with a    *)
(* rate decides. *)
TriedNormalized(name) == <<Lower[name]>>  \* fault: the name is normalised first

Tried(name) ==
    IF Lower[name] \in DOMAIN Aliases
    THEN <<name, Lower[name], Aliases[Lower[name]]>>
    ELSE <<name, Lower[name]>>

FindModelPricing(table, name) ==
    LET Hit(i) == Tried(name)[i] \in GetAllPricing(table) IN
    IF \E i \in DOMAIN Tried(name) : Hit(i)
    THEN table[Tried(name)[CHOOSE i \in DOMAIN Tried(name) :
                               Hit(i) /\ \A j \in 1..i - 1 : ~Hit(j)]]
    ELSE None

(* OpenStorage on disk; in memory when that fails at any statement, before *)
(* or after the seeding is committed; or not at all.                       *)
OpenStorage(c) ==
    /\ At(c, "opening")
    /\ \/ /\ medium' = "disk"
          /\ prices' = Seeded(prices)
          /\ cache' = LoadPricingCache(Seeded(prices))
       \/ /\ medium' = "memory"
          /\ prices' \in {prices, Seeded(prices)}
          /\ cache' = LoadPricingCache(Seeded(NoPrices))
       \/ /\ medium' = "absent"
          /\ prices' \in {prices, Seeded(prices)}
          /\ UNCHANGED cache
    /\ Goes(c, "loading")
    /\ UNCHANGED <<setting, run, once, globalWorker, workers, closed, loop, enabled,
                   shut, buffers, choiceVars, due>>

Value(v) == IF v THEN "true" ELSE "false"

(* GetConfig: the default when there is no value, or the read fails.       *)
GetConfig(read, default) == IF read /\ setting # "unset" THEN setting ELSE default

(* GetWorker hands the setting it reads to SetEnabled, which stores it     *)
(* again, or fails to.                                                     *)
LoadSetting(c) ==
    /\ At(c, "loading")
    /\ \/ medium = "absent" /\ enabled' = FALSE /\ UNCHANGED <<setting, spoilt>>
       \/ medium = "memory" /\ enabled' = TRUE /\ UNCHANGED <<setting, spoilt>>
       \/ /\ medium = "disk"
          /\ \E read \in BOOLEAN :
                 /\ enabled' = (GetConfig(read, "true") # "false")
                 /\ spoilt' = (spoilt \/ ~read)
          /\ setting' \in {setting, Value(enabled')}
    /\ Goes(c, "starting")
    /\ UNCHANGED <<prices, run, workerVars, shut, buffers, wanted, alone, due>>

PublishShadowed(c) ==  \* fault: := declares another globalWorker
    /\ At(c, "starting")
    /\ loop' = "running" /\ workers' = workers + 1
    /\ Goes(c, "published")
    /\ UNCHANGED <<diskVars, run, once, globalWorker, medium, closed, cache, enabled, shut,
                   buffers, choiceVars, due>>

(* Start, and the assignment of globalWorker, which is not synchronised    *)
(* with the shutdown. *)
Publish(c) ==
    /\ At(c, "starting")
    /\ loop' = "running" /\ workers' = workers + 1 /\ globalWorker' = TRUE
    /\ Goes(c, "published")
    /\ UNCHANGED <<diskVars, run, once, medium, closed, cache, enabled, shut, buffers,
                   choiceVars, due>>

OnceDone(c) ==
    /\ At(c, "published")
    /\ once' = "done"
    /\ Goes(c, "handling")
    /\ UNCHANGED <<diskVars, run, globalWorker, workers, medium, closed, cache, loop, enabled, shut,
                   buffers, choiceVars, due>>

-----------------------------------------------------------------------------
(* The handlers.  Record never waits, and a query locks for a while.       *)
HandleBlocking(c) ==  \* fault: Record waits for flushLoop to receive
    /\ At(c, "handling") /\ call[c].method \notin Settings
    /\ call[c].method = "usage" => loop = "running"
    /\ Leaves(c, "answering")
    /\ UNCHANGED <<diskVars, run, workerVars, enabled, shut, buffers, choiceVars, due>>

Handle(c) ==
    /\ At(c, "handling") /\ call[c].method \notin Settings
    /\ Leaves(c, "answering")
    /\ UNCHANGED <<diskVars, run, workerVars, enabled, shut, buffers, choiceVars, due>>

(* A request httptest.NewRequest or a handler cannot take.                 *)
Panic(c) ==
    /\ At(c, "handling") /\ call[c].method # "usage"
    /\ Leaves(c, "panicked")
    /\ UNCHANGED <<diskVars, run, workerVars, enabled, shut, buffers, choiceVars, due>>

(* SetEnabled of POST /settings: the flag, then ego_config.                *)
StoreFlag(c) ==
    /\ At(c, "handling") /\ call[c].method \in Settings
    /\ enabled' = (call[c].method = "on")
    /\ alone' = IF \E d \in Calls : At(d, "stored") THEN {} ELSE {c}
    /\ Goes(c, "stored")
    /\ UNCHANGED <<diskVars, run, workerVars, shut, buffers, wanted, spoilt, due>>

SaveFlagNowhere(c) ==  \* fault: SetEnabled only changes the flag
    /\ At(c, "stored")
    /\ wanted' = (call[c].method = "on")
    /\ alone' = alone \ {c}
    /\ spoilt' = ~(c \in alone)
    /\ Leaves(c, "answering")
    /\ UNCHANGED <<diskVars, run, workerVars, enabled, shut, buffers, due>>

SaveFlag(c) ==
    LET v == call[c].method = "on" IN
    /\ At(c, "stored")
    /\ wanted' = v
    /\ alone' = alone \ {c}
    /\ \/ /\ medium = "disk" /\ ~closed
          /\ setting' = Value(v)
          /\ spoilt' = ~(c \in alone)
       \/ UNCHANGED setting /\ spoilt' = TRUE
    /\ Leaves(c, "answering")
    /\ UNCHANGED <<prices, run, workerVars, enabled, shut, buffers, due>>

(* writeResponse, and the return to the host. *)
Answer(c) ==
    /\ At(c, "answering")
    /\ buffers' = [buffers EXCEPT ![c] = @ + 1]
    /\ Goes(c, "returned")
    /\ UNCHANGED <<diskVars, run, workerVars, enabled, shut, choiceVars, due>>

RecoverSilently(c) ==  \* fault: recover without an answer
    /\ At(c, "panicked")
    /\ Goes(c, "returned")
    /\ UNCHANGED <<diskVars, run, workerVars, enabled, shut, buffers, choiceVars, due>>

(* The deferred function: a buffer handed out is freed, an error written.  *)
Recover(c) ==
    /\ At(c, "panicked")
    /\ buffers' = [buffers EXCEPT ![c] = 1]
    /\ Goes(c, "returned")
    /\ UNCHANGED <<diskVars, run, workerVars, enabled, shut, choiceVars, due>>

(* cliproxyPluginFree. *)
HostFrees(c) ==
    /\ At(c, "returned")
    /\ buffers' = [buffers EXCEPT ![c] = @ - 1]
    /\ Goes(c, "idle")
    /\ UNCHANGED <<diskVars, run, workerVars, enabled, shut, choiceVars, due>>

-----------------------------------------------------------------------------
(* ShutdownWorker reads globalWorker once.  Until the Once has ended the   *)
(* pointer may be missing, or lead to fields not yet visible: closing a    *)
(* nil channel panics, and the shutdown recovers.                          *)
Shutdown ==
    /\ shut = "no"
    /\ \/ globalWorker /\ shut' = "waiting" /\ loop' = "stopping"
       \/ /\ ~globalWorker \/ once # "done"
          /\ shut' = "returned" /\ UNCHANGED loop
    /\ due' = (once = "done")
    /\ UNCHANGED <<diskVars, run, once, globalWorker, workers, medium, closed, cache,
                   enabled, callVars, choiceVars>>

LoopEnds ==
    /\ loop = "stopping"
    /\ loop' = "done"
    /\ UNCHANGED <<diskVars, run, once, globalWorker, workers, medium, closed, cache,
                   enabled, shut, callVars, choiceVars, due>>

CloseStorage ==
    /\ shut = "waiting" /\ loop = "done"
    /\ shut' = "returned" /\ closed' = (medium # "absent")
    /\ UNCHANGED <<diskVars, run, once, globalWorker, workers, medium, cache, loop,
                   enabled, callVars, choiceVars, due>>

(* The process ends, in order or not, and another one starts.              *)
Restart ==
    /\ run < MaxRuns
    /\ run' = run + 1
    /\ once' = "idle" /\ globalWorker' = FALSE /\ workers' = 0 /\ loop' = "off"
    /\ medium' = "absent" /\ closed' = FALSE /\ cache' = NoPrices /\ enabled' = FALSE
    /\ shut' = "no" /\ due' = FALSE /\ alone' = {}
    /\ call' = [c \in Calls |-> NoCall] /\ buffers' = [c \in Calls |-> 0]
    /\ UNCHANGED <<diskVars, wanted, spoilt>>

-----------------------------------------------------------------------------
Goroutine(c) ==
    \/ GetWorker(c) \/ OpenStorage(c) \/ LoadSetting(c) \/ Publish(c) \/ OnceDone(c)
    \/ Handle(c) \/ Panic(c) \/ StoreFlag(c) \/ SaveFlag(c) \/ Answer(c) \/ Recover(c)

Next ==
    \/ \E c \in Calls : \/ \E m \in Methods : Enter(c, m)
                        \/ Goroutine(c)
                        \/ HostFrees(c)
    \/ Shutdown \/ LoopEnds \/ CloseStorage
    \/ Restart

Spec == Init /\ [][Next]_vars

(* Goroutines run; the host calls, frees and shuts down as it likes.       *)
FairSpec ==
    /\ Spec
    /\ \A c \in Calls : WF_vars(Goroutine(c))
    /\ WF_vars(LoopEnds) /\ WF_vars(CloseStorage)

-----------------------------------------------------------------------------
Complete == {"handling", "stored", "panicked"}

(* However many calls come first at the same time, a process has one       *)
(* worker, and a call that has got it finds it complete.                   *)
OneWorker ==
    /\ workers <= 1
    /\ \A c \in Calls : (call[c].stage \in Complete) =>
           once = "done" /\ globalWorker /\ workers = 1

(* README, Offline estimates: whatever rates a database of an older        *)
(* version holds, and whichever statement of OpenStorage fails, the prices *)
(* in use are the pinned ones, all of them, or there is no storage.        *)
PricesPinned ==
    once = "done" => cache = IF medium = "absent" THEN NoPrices ELSE Embedded

(* README, Offline estimates: "Exact source keys win" and "Only            *)
(* case/whitespace normalization remains".  Whatever a database of an older *)
(* version holds, and however a name is spelt: a name of the pinned list   *)
(* has its own price; another has at most the price of a name that differs *)
(* only in case and blanks, or of the model it is confirmed to be; and one *)
(* that comes to a pinned name in lower case has that one's price.         *)
PricedAsNamed ==
    LET named == GetAllPricing(Embedded)
        price(n) == FindModelPricing(cache, n) IN
    /\ PricesPinned
    /\ (once = "done" /\ medium # "absent") =>
        /\ \A n \in named : price(n) = Embedded[n]
        /\ \A n \in Names \ named :
               /\ price(n) # None =>
                      \E m \in named : /\ price(n) = Embedded[m]
                                        /\ \/ Lower[m] = Lower[n]
                                           \/ Lower[n] \in DOMAIN Aliases /\ Aliases[Lower[n]] = m
               /\ Lower[n] \in named => price(n) = Embedded[Lower[n]]

(* The last choice made in the dashboard is in force, over restarts and    *)
(* crashes, as long as the disk can be read and written and the choices    *)
(* did not overlap.                                                        *)
ChoiceHolds ==
    (once = "done" /\ medium = "disk" /\ ~spoilt /\ \A c \in Calls : ~At(c, "stored")) =>
        enabled = wanted

(* main.go: "so the host receives exactly one" buffer, also after a panic, *)
(* and none is left behind when it has freed that one.                     *)
OneAnswer ==
    \A c \in Calls : buffers[c] = IF At(c, "returned") THEN 1 ELSE 0

(* A shutdown that comes after the first call got its worker ends with the *)
(* loop over and the database closed.                                      *)
ShutdownStops ==
    shut = "returned" /\ due => loop = "done" /\ (closed \/ medium = "absent")

(* Every call is answered, the first ones that wait for the worker and     *)
(* those that come after the shutdown included.                            *)
CallsAnswered ==
    \A c \in Calls : ~At(c, "idle") ~> call[c].stage \in {"idle", "returned"}
=============================================================================
