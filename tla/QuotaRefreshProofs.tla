------------------------- MODULE QuotaRefreshProofs -------------------------
(***************************************************************************)
(* Proofs about QuotaRefresh, for any credentials and any number of        *)
(* overlapping fetches.                                                    *)
(***************************************************************************)
EXTENDS QuotaRefresh, TLAPS

Call == [file : Files, isManual : BOOLEAN,
         quota : {"headers", "body", "pingHeaders", "pingBody", "settled", "threw"},
         stats : {"idle", "headers", "body"}]

PageInv ==
    /\ pendingQuota \subseteq Files
    /\ loading \in [Files -> BOOLEAN]
    /\ shown \in [Files -> {"none", "live", "verified", "placeholder", "error"}]
    /\ task = [t \in Slots |-> task[t]]
    /\ \A t \in Slots : Live(t) => task[t] \in Call
    /\ isRefreshingAll \in BOOLEAN
    /\ awaited \subseteq Slots
    /\ allStats \in {"idle", "headers", "body"}

(* Why an unattended refresh is harmless: the ping is reached by a click   *)
(* only, and a fetch of xAI reports an error only after a ping.            *)
PingInv ==
    \A t \in Slots : Live(t) =>
        /\ task[t].quota \in {"pingHeaders", "pingBody"} =>
               task[t].isManual /\ task[t].file \in Xai
        /\ task[t].quota = "threw" => task[t].file \notin Xai

QuotaInv == PageInv /\ OneFetchPerFile /\ SpinnersHaveFetches /\ PingInv

LEMMA QuotaInit == Init => QuotaInv
<1>. SUFFICES ASSUME Init PROVE QuotaInv
  OBVIOUS
<1>1. /\ pendingQuota = {} /\ loading = [f \in Files |-> FALSE]
      /\ shown = [f \in Files |-> "none"] /\ task = [t \in Slots |-> Free]
      /\ isRefreshingAll = FALSE /\ awaited = {} /\ allStats = "idle"
  BY DEF Init
<1>2. \A t \in Slots : ~Live(t)
  BY <1>1 DEF Live, Free
<1>. QED BY <1>1, <1>2 DEF QuotaInv, PageInv, OneFetchPerFile, SpinnersHaveFetches, PingInv

-----------------------------------------------------------------------------
(* What the start of fetches changes: each takes a free slot of its own.   *)
Entered(new, slot) ==
    /\ task' = [t \in Slots |-> task'[t]]
    /\ \A f \in new :
           /\ ~Live(slot[f]) /\ task'[slot[f]] \in Call
           /\ task'[slot[f]].file = f /\ task'[slot[f]].quota = "headers"
    /\ \A t \in Slots : (\A f \in new : slot[f] # t) => task'[t] = task[t]
    /\ \A f, g \in new : slot[f] = slot[g] => f = g
    /\ awaited' = IF isRefreshingAll' /\ ~isRefreshingAll
                  THEN {slot[f] : f \in new} ELSE awaited

LEMMA Entering ==
    ASSUME PageInv, NEW new \in SUBSET Files, NEW isManual \in BOOLEAN,
           isRefreshingAll' \in BOOLEAN, Enter(new, isManual)
    PROVE  \E slot \in [new -> Slots] : Entered(new, slot)
<1>. DEFINE Begun(f) == [file     |-> f,
                         isManual |-> isManual,
                         quota    |-> "headers",
                         stats    |-> IF isRefreshingAll' THEN "idle" ELSE "headers"]
<1>1. PICK slot \in FreeSlots(new) :
          /\ task' = [t \in Slots |->
                 IF \E f \in new : slot[f] = t
                 THEN Begun(CHOOSE f \in new : slot[f] = t) ELSE task[t]]
          /\ awaited' = IF isRefreshingAll' /\ ~isRefreshingAll
                        THEN {slot[f] : f \in new} ELSE awaited
  BY DEF Enter
<1>2. /\ slot \in [new -> Slots] /\ \A f \in new : ~Live(slot[f])
      /\ \A f, g \in new : slot[f] = slot[g] => f = g
  BY DEF FreeSlots
<1>3. \A f \in new : Begun(f) \in Call /\ Begun(f).file = f /\ Begun(f).quota = "headers"
  BY DEF Call
<1>. HIDE DEF Begun
<1>4. ASSUME NEW f \in new PROVE task'[slot[f]] = Begun(f)
  <2>1. (CHOOSE g \in new : slot[g] = slot[f]) = f
    BY <1>2
  <2>. QED BY <1>1, <1>2, <2>1
<1>5. task' = [t \in Slots |-> task'[t]]
  BY <1>1
<1>6. \A t \in Slots : (\A f \in new : slot[f] # t) => task'[t] = task[t]
  BY <1>1
<1>7. Entered(new, slot)
  BY <1>1, <1>2, <1>3, <1>4, <1>5, <1>6 DEF Entered
<1>. QED BY <1>2, <1>7

(* Started fetches are of credentials that have none. *)
LEMMA StartStep ==
    ASSUME QuotaInv, NEW S \in SUBSET Files, NEW isManual \in BOOLEAN,
           isRefreshingAll' \in BOOLEAN, allStats' \in {"idle", "headers", "body"},
           isRefreshingAll => isRefreshingAll', Start(S, isManual)
    PROVE  QuotaInv'
<1>. DEFINE new == S \ pendingQuota
<1>0. Enter(new, isManual) /\ new \in SUBSET Files /\ new \cap pendingQuota = {}
  BY DEF Start
<1>. HIDE DEF new
<1>1. /\ pendingQuota' = pendingQuota \cup new
      /\ loading' = [f \in Files |-> f \in new \/ loading[f]]
      /\ shown' = [f \in Files |-> IF f \in new /\ shown[f] = "error" THEN "none" ELSE shown[f]]
  BY <1>0 DEF Enter
<1>e. PICK slot \in [new -> Slots] : Entered(new, slot)
  BY <1>0, Entering DEF QuotaInv
<1>2. /\ task' = [t \in Slots |-> task'[t]]
      /\ \A f \in new :
             /\ ~Live(slot[f]) /\ task'[slot[f]] \in Call
             /\ task'[slot[f]].file = f /\ task'[slot[f]].quota = "headers"
      /\ \A t \in Slots : (\A f \in new : slot[f] # t) => task'[t] = task[t]
      /\ \A f, g \in new : slot[f] = slot[g] => f = g
      /\ awaited' = IF isRefreshingAll' /\ ~isRefreshingAll
                    THEN {slot[f] : f \in new} ELSE awaited
  BY <1>e DEF Entered
<1>3. ASSUME NEW t \in Slots
      PROVE  \/ Live(t)' /\ \E f \in new : t = slot[f] /\ ~Live(t) /\ task'[t].file = f
             \/ task'[t] = task[t] /\ Live(t)' = Live(t)
  BY <1>2 DEF Live
<1>4. PageInv'
  <2>1. pendingQuota' \subseteq Files /\ loading' \in [Files -> BOOLEAN]
        /\ shown' \in [Files -> {"none", "live", "verified", "placeholder", "error"}]
    BY <1>0, <1>1 DEF QuotaInv, PageInv
  <2>2. \A t \in Slots : Live(t)' => task'[t] \in Call
    BY <1>2 DEF QuotaInv, PageInv, Live
  <2>3. awaited' \subseteq Slots
    BY <1>2 DEF QuotaInv, PageInv
  <2>. QED BY <1>2, <2>1, <2>2, <2>3 DEF PageInv, Live
<1>5. OneFetchPerFile'
  <2>1. \A f \in new : slot[f] \in Slots /\ Live(slot[f])' /\ task'[slot[f]].file = f
    BY <1>2 DEF Live
  <2>2. \A t \in Slots : Live(t) => Live(t)' /\ task'[t] = task[t]
    BY <1>3
  <2>3. \A t \in Slots : Live(t) => task[t].file \in pendingQuota
    BY DEF QuotaInv, OneFetchPerFile
  <2>4. ASSUME NEW f \in pendingQuota
        PROVE  \E t \in Slots : Live(t) /\ task[t].file = f
    BY DEF QuotaInv, OneFetchPerFile
  <2>5. \A t \in Slots : Live(t)' => task'[t].file \in pendingQuota \cup new
    BY <1>3, <2>3
  <2>6. \A f \in pendingQuota \cup new : \E t \in Slots : Live(t)' /\ task'[t].file = f
    BY <2>1, <2>2, <2>4
  <2>7. pendingQuota' = {task'[t].file : t \in {u \in Slots : Live(u)'}}
    BY <1>1, <2>5, <2>6
  <2>8. ASSUME NEW t \in Slots, NEW u \in Slots, Live(t)', Live(u)', task'[t].file = task'[u].file
        PROVE  t = u
    BY <1>0, <1>3, <2>3, <2>8 DEF QuotaInv, OneFetchPerFile
  <2>. QED BY <2>7, <2>8 DEF OneFetchPerFile
<1>6. SpinnersHaveFetches'
  <2>1. \A f \in Files : loading'[f] => f \in pendingQuota'
    BY <1>1 DEF QuotaInv, SpinnersHaveFetches
  <2>2. CASE isRefreshingAll' /\ ~isRefreshingAll
    <3>1. \A f \in new : Live(slot[f])'
      BY <1>2 DEF Live
    <3>. QED BY <1>2, <2>1, <2>2, <3>1 DEF SpinnersHaveFetches
  <2>3. CASE ~(isRefreshingAll' /\ ~isRefreshingAll)
    <3>1. awaited' = awaited
      BY <1>2, <2>3
    <3>2. \A t \in awaited : Live(t)'
      BY <1>3 DEF QuotaInv, SpinnersHaveFetches, PageInv
    <3>. QED BY <2>1, <2>3, <3>1, <3>2 DEF QuotaInv, SpinnersHaveFetches
  <2>. QED BY <2>2, <2>3
<1>7. PingInv'
  BY <1>2, <1>3 DEF QuotaInv, PingInv, Live
<1>. QED BY <1>4, <1>5, <1>6, <1>7 DEF QuotaInv

(* A call that goes on, with the file it has. *)
LEMMA GoesOn ==
    ASSUME QuotaInv, NEW t \in Slots, Live(t), NEW s \in Call, s.file = task[t].file,
           s.quota \in {"pingHeaders", "pingBody"} => s.isManual /\ s.file \in Xai,
           s.quota = "threw" => s.file \notin Xai,
           task' = [task EXCEPT ![t] = s],
           loading' \in [Files -> BOOLEAN], \A f \in Files : loading'[f] => loading[f],
           shown' \in [Files -> {"none", "live", "verified", "placeholder", "error"}],
           UNCHANGED <<pendingQuota, isRefreshingAll, awaited, allStats>>
    PROVE  QuotaInv'
<1>1. /\ task' = [u \in Slots |-> task'[u]] /\ task'[t] = s
      /\ \A u \in Slots : u # t => task'[u] = task[u]
  BY DEF QuotaInv, PageInv
<1>2. \A u \in Slots : Live(u)' = Live(u) /\ (Live(u) => task'[u].file = task[u].file)
  BY <1>1 DEF Live, Call
<1>3. PageInv'
  BY <1>1 DEF QuotaInv, PageInv, Live
<1>4. OneFetchPerFile'
  <2>1. {task'[u].file : u \in {v \in Slots : Live(v)'}} = {task[u].file : u \in {v \in Slots : Live(v)}}
    BY <1>2
  <2>. QED BY <1>2, <2>1 DEF QuotaInv, OneFetchPerFile
<1>5. SpinnersHaveFetches'
  BY <1>2 DEF QuotaInv, SpinnersHaveFetches, PageInv
<1>6. PingInv'
  BY <1>1 DEF QuotaInv, PingInv, Live
<1>. QED BY <1>3, <1>4, <1>5, <1>6 DEF QuotaInv

LEMMA EndStep == ASSUME QuotaInv, NEW t \in Slots, End(t) PROVE QuotaInv'
<1>. DEFINE f == task[t].file
<1>1. /\ Live(t) /\ task' = [task EXCEPT ![t] = Free]
      /\ shown' = IF task[t].quota = "threw" THEN [shown EXCEPT ![f] = "error"] ELSE shown
      /\ pendingQuota' = pendingQuota \ {f} /\ loading' = [loading EXCEPT ![f] = FALSE]
      /\ awaited' = awaited \ {t} /\ UNCHANGED <<isRefreshingAll, allStats>>
  BY DEF End
<1>2. f \in Files
  BY <1>1 DEF QuotaInv, PageInv, Call
<1>3. /\ task' = [u \in Slots |-> task'[u]] /\ ~Live(t)'
      /\ \A u \in Slots : u # t => task'[u] = task[u] /\ Live(u)' = Live(u)
  BY <1>1 DEF QuotaInv, PageInv, Live, Free
<1>4. PageInv'
  BY <1>1, <1>2, <1>3 DEF QuotaInv, PageInv
<1>5. OneFetchPerFile'
  <2>1. ASSUME NEW u \in Slots, Live(u), u # t PROVE task[u].file \in pendingQuota \ {f}
    BY <1>1, <2>1 DEF QuotaInv, OneFetchPerFile
  <2>2. ASSUME NEW g \in pendingQuota, g # f
        PROVE  \E u \in Slots : u # t /\ Live(u) /\ task[u].file = g
    BY <2>2 DEF QuotaInv, OneFetchPerFile
  <2>3. pendingQuota' = {task'[u].file : u \in {v \in Slots : Live(v)'}}
    BY <1>1, <1>3, <2>1, <2>2
  <2>. QED BY <1>3, <2>3 DEF QuotaInv, OneFetchPerFile
<1>6. SpinnersHaveFetches'
  BY <1>1, <1>2, <1>3 DEF QuotaInv, SpinnersHaveFetches, PageInv
<1>7. PingInv'
  BY <1>3 DEF QuotaInv, PingInv
<1>. QED BY <1>4, <1>5, <1>6, <1>7 DEF QuotaInv

-----------------------------------------------------------------------------
(* What UnattendedIsHarmless says of a step. *)
Harmless ==
    \A f \in Xai :
        /\ \A t \in Slots :
               (Live(t) /\ task'[t].quota = "pingHeaders" /\ task[t].file = f)
                   => task[t].isManual
        /\ (shown[f] \in HasGroups /\ shown'[f] \notin {"live", shown[f]}) =>
               \E t \in Slots : Live(t) /\ task[t].file = f /\ task[t].isManual

(* A step of call t: it becomes s, and its file shows result. *)
Goes(t, s, result) ==
    /\ Live(t) /\ s \in Call
    /\ s.file = task[t].file /\ s.isManual = task[t].isManual
    /\ s.quota \in {"pingHeaders", "pingBody"} => s.isManual /\ s.file \in Xai
    /\ s.quota = "threw" => s.file \notin Xai
    /\ task' = [task EXCEPT ![t] = s]
    /\ loading' \in [Files -> BOOLEAN] /\ \A f \in Files : loading'[f] => loading[f]
    /\ result \in {"none", "live", "verified", "placeholder", "error"}
    /\ shown' = [shown EXCEPT ![task[t].file] = result]
    /\ (task[t].file \in Xai /\ shown[task[t].file] \in HasGroups /\ ~task[t].isManual) =>
           result \in {"live", shown[task[t].file]}
    /\ UNCHANGED <<pendingQuota, isRefreshingAll, awaited, allStats>>

LEMMA MoveOn ==
    ASSUME QuotaInv, NEW t \in Slots, NEW s, NEW result, Goes(t, s, result)
    PROVE  QuotaInv' /\ Harmless
<1>0. task[t] \in Call
  BY DEF Goes, QuotaInv, PageInv
<1>1. QuotaInv'
  <2>1. shown' \in [Files -> {"none", "live", "verified", "placeholder", "error"}]
    BY <1>0 DEF Goes, QuotaInv, PageInv, Call
  <2>. QED BY <2>1, GoesOn DEF Goes
<1>2. /\ task'[t] = s /\ \A u \in Slots : u # t => task'[u] = task[u]
      /\ \A f \in Files : f # task[t].file => shown'[f] = shown[f]
      /\ task[t].file \in Files /\ shown'[task[t].file] = result
  BY <1>0 DEF Goes, QuotaInv, PageInv, Call
<1>3. \A u \in Slots : Live(u) /\ task'[u].quota = "pingHeaders" => task[u].isManual
  BY <1>2 DEF Goes, QuotaInv, PingInv
<1>4. ASSUME NEW f \in Xai, shown[f] \in HasGroups, shown'[f] \notin {"live", shown[f]}
      PROVE  \E u \in Slots : Live(u) /\ task[u].file = f /\ task[u].isManual
  <2>1. f = task[t].file
    BY <1>2, <1>4, XaiAssumption
  <2>2. task[t].isManual
    BY <1>2, <1>4, <2>1 DEF Goes
  <2>. QED BY <2>1, <2>2 DEF Goes
<1>. QED BY <1>1, <1>3, <1>4 DEF Harmless

(* The moves of one part of a call, put as moves of the call. *)
LEMMA ResolveGoes ==
    ASSUME QuotaInv, NEW t \in Slots, Live(t), NEW result, Resolve(t, result),
           result \in {"none", "live", "verified", "placeholder", "error"},
           (task[t].file \in Xai /\ shown[task[t].file] \in HasGroups /\ ~task[t].isManual) =>
               result \in {"live", shown[task[t].file]},
           UNCHANGED <<pendingQuota, isRefreshingAll, awaited, allStats>>
    PROVE  QuotaInv' /\ Harmless
<1>. DEFINE s == [task[t] EXCEPT !.quota = "settled"]
<1>1. task[t] \in Call
  BY DEF QuotaInv, PageInv
<1>2. /\ s \in Call /\ s.file = task[t].file /\ s.isManual = task[t].isManual
      /\ s.quota = "settled"
  BY <1>1 DEF Call
<1>3. task' = [task EXCEPT ![t] = s]
  BY DEF Resolve
<1>. HIDE DEF s
<1>4. loading' \in [Files -> BOOLEAN] /\ \A f \in Files : loading'[f] => loading[f]
  BY <1>1 DEF Resolve, QuotaInv, PageInv, Call
<1>5. Goes(t, s, result)
  BY <1>2, <1>3, <1>4 DEF Goes, Resolve
<1>. QED BY <1>5, MoveOn

LEMMA AdvanceGoes ==
    ASSUME QuotaInv, NEW t \in Slots, Live(t),
           NEW stage \in {"body", "pingHeaders", "pingBody", "threw"}, Advance(t, stage),
           stage \in {"pingHeaders", "pingBody"} => task[t].isManual /\ task[t].file \in Xai,
           stage = "threw" => task[t].file \notin Xai,
           UNCHANGED <<pendingQuota, isRefreshingAll, awaited, allStats>>
    PROVE  QuotaInv' /\ Harmless
<1>. DEFINE s == [task[t] EXCEPT !.quota = stage]
<1>1. task[t] \in Call
  BY DEF QuotaInv, PageInv
<1>2. /\ s \in Call /\ s.file = task[t].file /\ s.isManual = task[t].isManual
      /\ s.quota = stage
  BY <1>1 DEF Call
<1>3. task' = [task EXCEPT ![t] = s]
  BY DEF Advance
<1>. HIDE DEF s
<1>4. task[t].file \in Files /\ UNCHANGED <<shown, loading>>
  BY <1>1 DEF Advance, Call
<1>5. Goes(t, s, shown[task[t].file])
  BY <1>2, <1>3, <1>4 DEF Goes, QuotaInv, PageInv
<1>. QED BY <1>5, MoveOn

LEMMA StatsGoes ==
    ASSUME QuotaInv, NEW t \in Slots, Live(t), NEW stage \in {"body", "idle"},
           task' = [task EXCEPT ![t].stats = stage],
           UNCHANGED <<pendingQuota, loading, shown, isRefreshingAll, awaited, allStats>>
    PROVE  QuotaInv' /\ Harmless
<1>. DEFINE s == [task[t] EXCEPT !.stats = stage]
<1>1. task[t] \in Call
  BY DEF QuotaInv, PageInv
<1>2. /\ s \in Call /\ s.file = task[t].file /\ s.isManual = task[t].isManual
      /\ s.quota = task[t].quota
  BY <1>1 DEF Call
<1>3. task' = [task EXCEPT ![t] = s]
  OBVIOUS
<1>. HIDE DEF s
<1>4. task[t].file \in Files
  BY <1>1 DEF Call
<1>5. Goes(t, s, shown[task[t].file])
  BY <1>2, <1>3, <1>4 DEF Goes, QuotaInv, PageInv, PingInv
<1>. QED BY <1>5, MoveOn

LEMMA FailGoes ==
    ASSUME QuotaInv, NEW t \in Slots, Live(t), QuotaFails(t),
           UNCHANGED <<pendingQuota, isRefreshingAll, awaited, allStats>>
    PROVE  QuotaInv' /\ Harmless
<1>0. task[t] \in Call
  BY DEF QuotaInv, PageInv
<1>1. CASE task[t].file \in Xai /\ task[t].isManual
  <2>1. Advance(t, "pingHeaders")
    BY <1>1 DEF QuotaFails, NoBilling
  <2>. QED BY <1>1, <2>1, AdvanceGoes
<1>2. CASE task[t].file \in Xai /\ ~task[t].isManual
  <2>. DEFINE f == task[t].file
              result == IF shown[f] \in HasGroups THEN shown[f] ELSE "placeholder"
  <2>1. Resolve(t, result)
    BY <1>2 DEF QuotaFails, NoBilling
  <2>2. result \in {"none", "live", "verified", "placeholder", "error"}
    BY DEF HasGroups
  <2>3. shown[f] \in HasGroups => result \in {"live", shown[f]}
    OBVIOUS
  <2>. HIDE DEF result
  <2>. QED BY <1>2, <2>1, <2>2, <2>3, ResolveGoes
<1>3. CASE task[t].file \notin Xai /\ Resolve(t, "error")
  BY <1>3, ResolveGoes
<1>4. CASE task[t].file \notin Xai /\ Advance(t, "threw")
  BY <1>4, AdvanceGoes
<1>. QED BY <1>1, <1>2, <1>3, <1>4 DEF QuotaFails

LEMMA QuotaStep == QuotaInv /\ [Next]_vars => QuotaInv' /\ [Harmless]_vars
<1>. SUFFICES ASSUME QuotaInv, [Next]_vars PROVE QuotaInv' /\ [Harmless]_vars
  OBVIOUS
(* While no call moves, and no more than an error is taken off the page. *)
<1>1. ASSUME \A t \in Slots : Live(t) => task'[t] = task[t],
             \A f \in Files : shown[f] \in HasGroups => shown'[f] = shown[f]
      PROVE  Harmless
  BY <1>1, XaiAssumption DEF Harmless, QuotaInv, PingInv
<1>2. ASSUME NEW S \in SUBSET Files, NEW isManual \in BOOLEAN, Start(S, isManual),
             isRefreshingAll' \in BOOLEAN
      PROVE  Harmless
  <2>. DEFINE new == S \ pendingQuota
  <2>1. new \in SUBSET Files /\ Enter(new, isManual)
    BY <1>2 DEF Start
  <2>2. \A f \in Files : shown[f] \in HasGroups => shown'[f] = shown[f]
    BY <2>1 DEF Enter, HasGroups
  <2>. HIDE DEF new
  <2>3. \E slot \in [new -> Slots] : Entered(new, slot)
    BY <1>2, <2>1, Entering DEF QuotaInv
  <2>4. \A t \in Slots : Live(t) => task'[t] = task[t]
    BY <2>3 DEF Entered
  <2>. QED BY <1>1, <2>2, <2>4
<1>3. ASSUME NEW f \in Files, ClickRefresh(f) PROVE QuotaInv' /\ Harmless
  <2>1. /\ UNCHANGED <<isRefreshingAll, allStats>> /\ {f} \in SUBSET Files
        /\ Start({f}, TRUE)
    BY <1>3 DEF ClickRefresh
  <2>2. isRefreshingAll' \in BOOLEAN /\ allStats' \in {"idle", "headers", "body"}
    BY <2>1 DEF QuotaInv, PageInv
  <2>3. QuotaInv'
    BY <2>1, <2>2, StartStep
  <2>. QED BY <1>2, <2>1, <2>2, <2>3
<1>4. ASSUME NEW isManual \in BOOLEAN, RefreshAll(isManual) PROVE QuotaInv' /\ Harmless
  <2>1. /\ isRefreshingAll' = TRUE /\ allStats' = "headers" /\ Files \in SUBSET Files
        /\ Start(Files, isManual)
    BY <1>4 DEF RefreshAll
  <2>2. QuotaInv'
    BY <2>1, StartStep
  <2>. QED BY <1>2, <2>1, <2>2
<1>5. ASSUME NEW t \in Slots, QuotaHeaders(t) PROVE QuotaInv' /\ Harmless
  BY <1>5, AdvanceGoes, FailGoes DEF QuotaHeaders
<1>6. ASSUME NEW t \in Slots, QuotaBody(t) PROVE QuotaInv' /\ Harmless
  BY <1>6, ResolveGoes, FailGoes DEF QuotaBody
<1>7. ASSUME NEW t \in Slots, PingHeaders(t) \/ PingBody(t) PROVE QuotaInv' /\ Harmless
  <2>1. Live(t) /\ task[t].isManual /\ task[t].file \in Xai
    BY <1>7 DEF PingHeaders, PingBody, QuotaInv, PingInv
  <2>. QED BY <1>7, <2>1, AdvanceGoes, ResolveGoes DEF PingHeaders, PingBody
<1>8. ASSUME NEW t \in Slots, StatsHeaders(t) \/ StatsBody(t) PROVE QuotaInv' /\ Harmless
  BY <1>8, StatsGoes DEF StatsHeaders, StatsBody
<1>9. ASSUME NEW t \in Slots, End(t) PROVE QuotaInv' /\ Harmless
  <2>1. QuotaInv'
    BY <1>9, EndStep
  <2>2. \A u \in Slots : u # t => task'[u] = task[u]
    BY <1>9 DEF End, QuotaInv, PageInv
  <2>3. task'[t] = Free /\ Live(t) /\ task[t] \in Call
    BY <1>9 DEF End, QuotaInv, PageInv
  <2>4. \A u \in Slots : Live(u) /\ task'[u].quota = "pingHeaders" => task[u].isManual
    BY <2>2, <2>3 DEF Free, QuotaInv, PingInv
  <2>5. \A f \in Xai : shown'[f] = shown[f]
    BY <1>9, <2>3, XaiAssumption DEF End, QuotaInv, PageInv, PingInv, Call
  <2>. QED BY <2>1, <2>4, <2>5 DEF Harmless
<1>10. ASSUME UNCHANGED <<pendingQuota, loading, shown, task, awaited>>,
              isRefreshingAll' \in BOOLEAN, allStats' \in {"idle", "headers", "body"},
              isRefreshingAll => isRefreshingAll' \/ awaited = {}
       PROVE  QuotaInv' /\ Harmless
  <2>1. Harmless
    BY <1>1, <1>10
  <2>2. PageInv' /\ PingInv'
    BY <1>10 DEF QuotaInv, PageInv, PingInv, Live
  <2>3. OneFetchPerFile'
    BY <1>10 DEF QuotaInv, OneFetchPerFile, Live
  <2>4. SpinnersHaveFetches'
    BY <1>10 DEF QuotaInv, PageInv, SpinnersHaveFetches, Live
  <2>. QED BY <2>1, <2>2, <2>3, <2>4 DEF QuotaInv
<1>11. ASSUME AllStatsHeaders \/ AllStatsBody \/ EndAll \/ UNCHANGED vars
       PROVE  QuotaInv' /\ Harmless
  BY <1>10, <1>11 DEF AllStatsHeaders, AllStatsBody, EndAll, vars, QuotaInv, PageInv
<1>. QED
  BY <1>3, <1>4, <1>5, <1>6, <1>7, <1>8, <1>9, <1>11 DEF Next, Timed, Body

LEMMA QuotaInvariant == Spec => []QuotaInv
BY QuotaInit, QuotaStep, PTL DEF Spec

(* However clicks, the timer and Refresh all overlap, at most one fetch of *)
(* a credential is in progress, and exactly while pendingQuota says so.    *)
THEOREM OneFetchForEachFile == Spec => []OneFetchPerFile
<1>1. QuotaInv => OneFetchPerFile
  BY DEF QuotaInv
<1>. QED BY <1>1, QuotaInvariant, PTL

(* A spinner turns only for a fetch in progress, and refreshAll waits only *)
(* for calls that have not ended.                                          *)
THEOREM EverySpinnerHasAFetch == Spec => []SpinnersHaveFetches
<1>1. QuotaInv => SpinnersHaveFetches
  BY DEF QuotaInv
<1>. QED BY <1>1, QuotaInvariant, PTL

(* The unattended refresh never sends the billable xAI ping, and never     *)
(* costs the groups on display.                                            *)
THEOREM UnattendedRefreshIsHarmless == Spec => UnattendedIsHarmless
<1>1. UnattendedIsHarmless <=> [][Harmless]_vars
  BY PTL DEF UnattendedIsHarmless, Harmless
<1>. QED BY <1>1, QuotaStep, QuotaInvariant, PTL DEF Spec
=============================================================================
