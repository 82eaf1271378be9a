---------------------------- MODULE QuotaRefresh ----------------------------
(***************************************************************************)
(* Quota refreshing in the dashboard (internal/web/assets/index.html): the *)
(* Refresh buttons of the cards, the Refresh all button and the 180 s      *)
(* timer start asynchronous fetches guarded by the set pendingQuota and    *)
(* the flag isRefreshingAll.  Everything between two awaits is one action. *)
(*                                                                         *)
(* A request has two parts: apiFetch waits for the headers, and aborts     *)
(* after 30 s; the body is read by json() after its timer was cleared.     *)
(* The requests one provider's fetch sends, in parallel or in turn, are    *)
(* one request here; the billable xAI ping is a request of its own.        *)
(***************************************************************************)
EXTENDS Naturals, FiniteSets

CONSTANTS Files,  \* enabled credentials of a provider with live quota
          Xai,    \* those of xAI, whose fallback is a billable ping
          Slots   \* room for concurrent calls of fetchFileQuota

ASSUME XaiAssumption == Xai \subseteq Files

VARIABLES pendingQuota,     \* the guard set
          loading,          \* quotaStore[f].loading
          shown,            \* what quotaStore[f] holds: groups, or an error
          task,             \* the calls of fetchFileQuota that have not ended
          isRefreshingAll,
          awaited,          \* calls whose promise refreshAll waits for
          allStats          \* refreshAllStats

vars == <<pendingQuota, loading, shown, task, isRefreshingAll, awaited, allStats>>

-----------------------------------------------------------------------------
Free == [quota |-> "free"]

HasGroups == {"live", "verified", "placeholder"}

Live(t) == task[t].quota # "free"

Init ==
    /\ pendingQuota = {}
    /\ loading = [f \in Files |-> FALSE]
    /\ shown = [f \in Files |-> "none"]
    /\ task = [t \in Slots |-> Free]
    /\ isRefreshingAll = FALSE
    /\ awaited = {}
    /\ allStats = "idle"

(* Distinct free slots for the calls that start: bookkeeping of the model. *)
FreeSlots(S) ==
    {slot \in [S -> {t \in Slots : ~Live(t)}] :
        \A f, g \in S : slot[f] = slot[g] => f = g}

(* A call of fetchFileQuota for each file of new, up to its first await.   *)
(* Account statistics are fetched along with the quota only outside        *)
(* refreshAll; the old groups stay on display while the new ones load.     *)
Enter(new, isManual) ==
    \E slot \in FreeSlots(new) :
        /\ pendingQuota' = pendingQuota \cup new
        /\ loading' = [f \in Files |-> f \in new \/ loading[f]]
        /\ shown' = [f \in Files |->
               IF f \in new /\ shown[f] = "error" THEN "none" ELSE shown[f]]
        /\ task' = [t \in Slots |->
               IF \E f \in new : slot[f] = t
               THEN [file     |-> CHOOSE f \in new : slot[f] = t,
                     isManual |-> isManual,
                     quota    |-> "headers",
                     stats    |-> IF isRefreshingAll' THEN "idle" ELSE "headers"]
               ELSE task[t]]
        /\ awaited' = IF isRefreshingAll' /\ ~isRefreshingAll
                      THEN {slot[f] : f \in new} ELSE awaited

StartUnguarded(S, isManual) == Enter(S, isManual)  \* fault: no guard

(* The calls for files in pendingQuota return at once. *)
Start(S, isManual) == Enter(S \ pendingQuota, isManual)

ClickRefresh(f) ==
    /\ UNCHANGED <<isRefreshingAll, allStats>>
    /\ Start({f}, TRUE)

(* The button, with isManual, or the timer and loadAuthFiles, without.     *)
RefreshAll(isManual) ==
    /\ ~isRefreshingAll
    /\ isRefreshingAll' = TRUE
    /\ allStats' = "headers"
    /\ Start(Files, isManual)

-----------------------------------------------------------------------------
(* A provider's fetch resolved: it has written quotaStore, loading off.    *)
Resolve(t, result) ==
    /\ task' = [task EXCEPT ![t].quota = "settled"]
    /\ shown' = [shown EXCEPT ![task[t].file] = result]
    /\ loading' = [loading EXCEPT ![task[t].file] = FALSE]

Advance(t, stage) ==
    /\ task' = [task EXCEPT ![t].quota = stage]
    /\ UNCHANGED <<shown, loading>>

(* xAI without billing data: a manual refresh verifies the account by a    *)
(* chat completion; an unattended one keeps the groups there are, or shows *)
(* a placeholder.                                                          *)
NoBillingPlaceholder(t) ==  \* fault: the groups there are get replaced
    IF task[t].isManual THEN Advance(t, "pingHeaders") ELSE Resolve(t, "placeholder")

NoBilling(t) ==
    LET f == task[t].file IN
    IF task[t].isManual
    THEN Advance(t, "pingHeaders")
    ELSE Resolve(t, IF shown[f] \in HasGroups THEN shown[f] ELSE "placeholder")

(* No answer in time, a failed connection, an HTTP error, or a body that   *)
(* holds no quota: the provider reports an error, or throws.               *)
QuotaFails(t) ==
    IF task[t].file \in Xai
    THEN NoBilling(t)
    ELSE \/ Resolve(t, "error")
         \/ Advance(t, "threw")

QuotaHeaders(t) ==
    /\ Live(t) /\ task[t].quota = "headers"
    /\ Advance(t, "body") \/ QuotaFails(t)
    /\ UNCHANGED <<pendingQuota, isRefreshingAll, awaited, allStats>>

QuotaBody(t) ==
    /\ Live(t) /\ task[t].quota = "body"
    /\ Resolve(t, "live") \/ QuotaFails(t)
    /\ UNCHANGED <<pendingQuota, isRefreshingAll, awaited, allStats>>

PingHeaders(t) ==
    /\ Live(t) /\ task[t].quota = "pingHeaders"
    /\ Advance(t, "pingBody") \/ Resolve(t, "error")
    /\ UNCHANGED <<pendingQuota, isRefreshingAll, awaited, allStats>>

PingBody(t) ==
    /\ Live(t) /\ task[t].quota = "pingBody"
    /\ Resolve(t, "verified") \/ Resolve(t, "error")
    /\ UNCHANGED <<pendingQuota, isRefreshingAll, awaited, allStats>>

(* refreshFileStats swallows every error. *)
StatsHeaders(t) ==
    /\ Live(t) /\ task[t].stats = "headers"
    /\ \E stage \in {"body", "idle"} : task' = [task EXCEPT ![t].stats = stage]
    /\ UNCHANGED <<pendingQuota, loading, shown, isRefreshingAll, awaited, allStats>>

StatsBody(t) ==
    /\ Live(t) /\ task[t].stats = "body"
    /\ task' = [task EXCEPT ![t].stats = "idle"]
    /\ UNCHANGED <<pendingQuota, loading, shown, isRefreshingAll, awaited, allStats>>

(* After both promises have settled: the catch and finally clauses.        *)
EndSpinning(t) ==  \* fault: loading is cleared by the providers only
    LET f == task[t].file IN
    /\ Live(t) /\ task[t].quota \in {"settled", "threw"} /\ task[t].stats = "idle"
    /\ task' = [task EXCEPT ![t] = Free]
    /\ shown' = IF task[t].quota = "threw" THEN [shown EXCEPT ![f] = "error"] ELSE shown
    /\ pendingQuota' = pendingQuota \ {f}
    /\ awaited' = awaited \ {t}
    /\ UNCHANGED <<loading, isRefreshingAll, allStats>>

EndOnSuccess(t) ==  \* fault: a throw skips the cleanup
    /\ Live(t) /\ task[t].quota = "settled" /\ task[t].stats = "idle"
    /\ task' = [task EXCEPT ![t] = Free]
    /\ pendingQuota' = pendingQuota \ {task[t].file}
    /\ loading' = [loading EXCEPT ![task[t].file] = FALSE]
    /\ awaited' = awaited \ {t}
    /\ UNCHANGED <<shown, isRefreshingAll, allStats>>

End(t) ==
    LET f == task[t].file IN
    /\ Live(t) /\ task[t].quota \in {"settled", "threw"} /\ task[t].stats = "idle"
    /\ task' = [task EXCEPT ![t] = Free]
    /\ shown' = IF task[t].quota = "threw" THEN [shown EXCEPT ![f] = "error"] ELSE shown
    /\ pendingQuota' = pendingQuota \ {f}
    /\ loading' = [loading EXCEPT ![f] = FALSE]
    /\ awaited' = awaited \ {t}
    /\ UNCHANGED <<isRefreshingAll, allStats>>

AllStatsHeaders ==
    /\ allStats = "headers"
    /\ allStats' \in {"body", "idle"}
    /\ UNCHANGED <<pendingQuota, loading, shown, task, isRefreshingAll, awaited>>

AllStatsBody ==
    /\ allStats = "body"
    /\ allStats' = "idle"
    /\ UNCHANGED <<pendingQuota, loading, shown, task, isRefreshingAll, awaited>>

(* The finally of refreshAll, after allSettled. *)
EndAll ==
    /\ isRefreshingAll
    /\ awaited = {} /\ allStats = "idle"
    /\ isRefreshingAll' = FALSE
    /\ UNCHANGED <<pendingQuota, loading, shown, task, awaited, allStats>>

-----------------------------------------------------------------------------
(* Steps some clock bounds: promise callbacks, and requests up to their    *)
(* headers.                                                                *)
Timed(t) == QuotaHeaders(t) \/ PingHeaders(t) \/ StatsHeaders(t) \/ End(t)

(* Steps that wait for the rest of a body, which nothing bounds.           *)
Body(t) == QuotaBody(t) \/ PingBody(t) \/ StatsBody(t)

Next ==
    \/ \E f \in Files : ClickRefresh(f)
    \/ \E isManual \in BOOLEAN : RefreshAll(isManual)
    \/ \E t \in Slots : Timed(t) \/ Body(t)
    \/ AllStatsHeaders \/ AllStatsBody \/ EndAll

Spec == Init /\ [][Next]_vars

(* What the browser guarantees: timers fire and callbacks run.  Nothing    *)
(* guarantees that a body the host began to send ever ends.                *)
TimerSpec ==
    /\ Spec
    /\ \A t \in Slots : /\ WF_vars(QuotaHeaders(t) \/ PingHeaders(t))
                        /\ WF_vars(StatsHeaders(t))
                        /\ WF_vars(End(t))
    /\ WF_vars(AllStatsHeaders)
    /\ WF_vars(EndAll)

-----------------------------------------------------------------------------
(* The type invariant: which values the variables of the page can take.    *)
TypeOK ==
    /\ pendingQuota \subseteq Files
    /\ loading \in [Files -> BOOLEAN]
    /\ shown \in [Files -> {"none", "live", "verified", "placeholder", "error"}]
    /\ \A t \in Slots : Live(t) =>
           /\ task[t].file \in Files /\ task[t].isManual \in BOOLEAN
           /\ task[t].quota \in {"headers", "body", "pingHeaders", "pingBody",
                                 "settled", "threw"}
           /\ task[t].stats \in {"idle", "headers", "body"}
    /\ isRefreshingAll \in BOOLEAN
    /\ awaited \subseteq Slots
    /\ allStats \in {"idle", "headers", "body"}

(* However clicks, the timer and Refresh all overlap, at most one fetch of *)
(* a credential is in progress, and exactly while the guard says so.       *)
OneFetchPerFile ==
    /\ pendingQuota = {task[t].file : t \in {u \in Slots : Live(u)}}
    /\ \A t, u \in Slots :
           Live(t) /\ Live(u) /\ task[t].file = task[u].file => t = u

(* A spinner turns only for a fetch that will end it, and the Refresh all  *)
(* button waits only for fetches that have not ended.                      *)
SpinnersHaveFetches ==
    /\ \A f \in Files : loading[f] => f \in pendingQuota
    /\ awaited # {} => isRefreshingAll
    /\ \A t \in awaited : Live(t)

(* xAI token-burn protection (README, Safety & Robustness; issue #35 in    *)
(* fetchXaiQuota): a billable request belongs to a fetch a click started,  *)
(* and an unattended refresh never costs the groups on display.            *)
UnattendedIsHarmless ==
    [][\A f \in Xai :
          /\ \A t \in Slots :
                 (Live(t) /\ task'[t].quota = "pingHeaders" /\ task[t].file = f)
                     => task[t].isManual
          /\ (shown[f] \in HasGroups /\ shown'[f] \notin {"live", shown[f]}) =>
                 \E t \in Slots : Live(t) /\ task[t].file = f /\ task[t].isManual]_vars

(* The bodies a call of fetchFileQuota reads, now that its timer is off.   *)
ReadsBody(t) ==
    Live(t) /\ (task[t].quota \in {"body", "pingBody"} \/ task[t].stats = "body")

(* Refreshing ends as far as the 30 s timers reach: through every failure, *)
(* timeout, ping and overlap each guard is released again and again, so    *)
(* the buttons and the timer keep working, unless it waits for one body    *)
(* that never ends; a credential's guard for one of its own fetch, that of *)
(* Refresh all for one of the calls it awaits.                             *)
RefreshWaitsForBodies ==
    /\ \A f \in Files :
           \/ []<>(f \notin pendingQuota)
           \/ <>[](\E t \in Slots : ReadsBody(t) /\ task[t].file = f)
    /\ \/ []<>~isRefreshingAll
       \/ <>[](allStats = "body" \/ \E t \in awaited : ReadsBody(t))

(* What README.md:105 claims (30s timeout handlers): every refresh ends.   *)
(* It does not: apiFetch clears its timer before the body is read.         *)
RefreshEnds ==
    /\ isRefreshingAll ~> ~isRefreshingAll
    /\ \A f \in Files : f \in pendingQuota ~> f \notin pendingQuota
=============================================================================
