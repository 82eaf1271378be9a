--------------------------- MODULE CredentialCard ---------------------------
(***************************************************************************)
(* The card of one Codex credential (internal/web/assets/index.html): what *)
(* it can change - redeem a reset credit, disable the credential - while   *)
(* requests that read the same two things are on their way, from Refresh   *)
(* and Refresh all.  Those are modelled as far as this credential; their   *)
(* guards over several credentials, and bodies that stall, are in          *)
(* QuotaRefresh.  Everything between two awaits is one action.             *)
(***************************************************************************)
EXTENDS Naturals, FiniteSets

CONSTANTS None,       \* no count of credits
          Patches,    \* room for concurrent PATCH requests
          MaxCredits, \* bound on the credits of the credential
          MaxRedeems  \* bound on confirmations

ASSUME CardAssumption ==
    /\ MaxCredits \in Nat /\ MaxRedeems \in Nat /\ None \notin Nat
    /\ {"gone", "shown"} \cap Patches = {}

VARIABLES available, hostDisabled,   \* the truth: at Codex, and in the host
          availableCount,            \* quotaStore[f].resetCredits.availableCount
          disabled,                  \* file.disabled
          card,                      \* not rendered, rendered, or its switch
                                     \* locked by a PATCH
          pendingQuota, isRefreshingAll,
          awaited,                   \* refreshAll waits for the fetch
          read,                      \* requests that read
          redeem,                    \* consumeCodexResetCredit; pendingCredits
          patch                      \* toggleFileStatus

(* History, read by no action: confirmations, credits spent, redeem        *)
(* requests given up and not executed yet; reads that were overtaken by a  *)
(* change; and whether what the page holds of the count and of the status  *)
(* became old in a way the page is not told of, since it last read them    *)
(* afresh.                                                                 *)
VARIABLES confirmed, spent, late, overtaken, oldCount, oldStatus

hostVars == <<available, hostDisabled>>
pageVars == <<availableCount, disabled, card>>
guardVars == <<pendingQuota, isRefreshingAll, awaited>>
spentVars == <<confirmed, spent, late>>
oldVars == <<overtaken, oldCount, oldStatus>>
vars == <<hostVars, pageVars, guardVars, read, redeem, patch, spentVars, oldVars>>

-----------------------------------------------------------------------------
(* fetchCodexQuota of a refresh and of a redemption read the count; the    *)
(* statistics of one file and of all files read the status.                *)
CountReaders == {"quota", "after"}
StatusReaders == {"stats", "allStats"}
Readers == CountReaders \cup StatusReaders

Idle == [stage |-> "idle"]
Asked == [stage |-> "asked"]
Over(r) == read[r].stage = "idle"

(* What has been read of a value that changes now. *)
Overtaking(R) == {r \in R : read[r].stage = "read"}

(* render(): disabled credentials have no card, and a new card has a new   *)
(* switch. *)
Rendered(isDisabled) == IF isDisabled THEN "gone" ELSE "shown"
Render == card' = Rendered(disabled')

Init ==
    /\ available \in 0..MaxCredits /\ hostDisabled \in BOOLEAN
    /\ availableCount = None /\ disabled = hostDisabled /\ card = Rendered(disabled)
    /\ pendingQuota = FALSE /\ isRefreshingAll = FALSE /\ awaited = FALSE
    /\ read = [r \in Readers |-> Idle]
    /\ redeem = "idle" /\ patch = [p \in Patches |-> "idle"]
    /\ confirmed = 0 /\ spent = 0 /\ late = 0
    /\ overtaken = {} /\ oldCount = FALSE /\ oldStatus = FALSE

-----------------------------------------------------------------------------
(* fetchFileQuota of a click. *)
ClickRefresh ==
    /\ card # "gone" /\ ~pendingQuota
    /\ pendingQuota' = TRUE
    /\ read' = [read EXCEPT !["quota"] = Asked,
                            !["stats"] = IF isRefreshingAll THEN @ ELSE Asked]
    /\ UNCHANGED <<availableCount, disabled>> /\ Render
    /\ UNCHANGED <<hostVars, isRefreshingAll, awaited, redeem, patch, spentVars, oldVars>>

(* The button or the timer; fetchFileQuota only for what is not disabled.  *)
RefreshAll ==
    LET fetches == ~disabled /\ ~pendingQuota IN
    /\ ~isRefreshingAll
    /\ isRefreshingAll' = TRUE
    /\ pendingQuota' = (pendingQuota \/ fetches)
    /\ awaited' = fetches
    /\ read' = [read EXCEPT !["allStats"] = Asked,
                            !["quota"] = IF fetches THEN Asked ELSE @]
    /\ UNCHANGED <<availableCount, disabled>>
    /\ IF fetches THEN Render ELSE UNCHANGED card
    /\ UNCHANGED <<hostVars, redeem, patch, spentVars, oldVars>>

(* A request is executed. *)
HostReads(r) ==
    /\ read[r].stage = "asked"
    /\ read' = [read EXCEPT ![r] = [stage |-> "read",
           value |-> IF r \in CountReaders THEN available ELSE hostDisabled]]
    /\ UNCHANGED <<hostVars, pageVars, guardVars, redeem, patch, spentVars, oldVars>>

(* fetchCodexQuota ends: the count, or none if its request failed, or 0 if *)
(* Codex answered with an error, because parseCodexResetCredits does not   *)
(* ask for the status.  After a redemption that is the end of              *)
(* consumeCodexResetCredit, which renders.                                 *)
FetchCodexQuota(r) ==
    /\ ~Over(r)
    /\ \/ availableCount' \in {None, 0} /\ UNCHANGED oldCount
       \/ /\ read[r].stage = "read"
          /\ availableCount' = read[r].value
          /\ oldCount' = (r \in overtaken)
    /\ read' = [read EXCEPT ![r] = Idle] /\ overtaken' = overtaken \ {r}
    /\ UNCHANGED disabled
    /\ IF r = "after" THEN Render /\ redeem' = "idle" ELSE UNCHANGED <<card, redeem>>
    /\ UNCHANGED <<hostVars, guardVars, patch, spentVars, oldStatus>>

(* refreshFileStats and refreshAllStats; a failure changes nothing.        *)
RefreshStats(r) ==
    /\ ~Over(r)
    /\ \/ UNCHANGED <<disabled, oldStatus>>
       \/ /\ read[r].stage = "read"
          /\ disabled' = read[r].value
          /\ oldStatus' = (r \in overtaken)
    /\ read' = [read EXCEPT ![r] = Idle] /\ overtaken' = overtaken \ {r}
    /\ UNCHANGED <<hostVars, availableCount, card, guardVars, redeem, patch, spentVars,
                   oldCount>>

(* The finally of fetchFileQuota. *)
EndFetch ==
    /\ pendingQuota /\ Over("quota") /\ Over("stats")
    /\ pendingQuota' = FALSE /\ awaited' = FALSE
    /\ UNCHANGED <<availableCount, disabled>> /\ Render
    /\ UNCHANGED <<hostVars, isRefreshingAll, read, redeem, patch, spentVars, oldVars>>

EndAllUnrendered ==  \* fault: only the statistics are drawn again
    /\ isRefreshingAll /\ ~awaited /\ Over("allStats")
    /\ isRefreshingAll' = FALSE
    /\ UNCHANGED <<hostVars, pageVars, pendingQuota, awaited, read, redeem, patch,
                   spentVars, oldVars>>

(* The finally of refreshAll. *)
EndAll ==
    /\ isRefreshingAll /\ ~awaited /\ Over("allStats")
    /\ isRefreshingAll' = FALSE
    /\ UNCHANGED <<availableCount, disabled>> /\ Render
    /\ UNCHANGED <<hostVars, pendingQuota, awaited, read, redeem, patch, spentVars, oldVars>>

-----------------------------------------------------------------------------
(* consumeCodexResetCredit, confirmed. *)
Redeem ==
    /\ card # "gone" /\ redeem = "idle"
    /\ availableCount # None /\ availableCount > 0
    /\ confirmed < MaxRedeems
    /\ confirmed' = confirmed + 1
    /\ redeem' = "sent"
    /\ UNCHANGED <<availableCount, disabled>> /\ Render
    /\ UNCHANGED <<hostVars, guardVars, read, patch, spent, late, oldVars>>

(* Codex takes a credit, for the request that is waited for or for one     *)
(* that was given up; or refuses. *)
Spend ==
    /\ available > 0
    /\ available' = available - 1 /\ spent' = spent + 1
    /\ overtaken' = overtaken \cup Overtaking(CountReaders)

CodexRedeems ==
    /\ redeem = "sent"
    /\ \/ Spend /\ redeem' = "done"
       \/ redeem' = "refused" /\ UNCHANGED <<available, spent, overtaken>>
    /\ UNCHANGED <<hostDisabled, pageVars, guardVars, read, patch, confirmed, late,
                   oldCount, oldStatus>>

CodexRedeemsLate ==
    /\ late > 0
    /\ late' = late - 1
    /\ Spend /\ oldCount' = TRUE
    /\ UNCHANGED <<hostDisabled, pageVars, guardVars, read, redeem, patch, confirmed, oldStatus>>

(* The answer: then reset-quota of the host, whose outcome is ignored.     *)
RedeemedUnread ==  \* fault: the count is not fetched again
    /\ redeem = "done"
    /\ redeem' = "idle"
    /\ UNCHANGED <<hostVars, pageVars, guardVars, read, patch, spentVars, oldVars>>

Redeemed ==
    /\ redeem = "done"
    /\ redeem' = "clearing"
    /\ UNCHANGED <<hostVars, pageVars, guardVars, read, patch, spentVars, oldVars>>

ResetQuota ==
    /\ redeem = "clearing"
    /\ redeem' = "fetching"
    /\ read' = [read EXCEPT !["after"] = Asked]
    /\ UNCHANGED <<hostVars, pageVars, guardVars, patch, spentVars, oldVars>>

RetryRedeem ==  \* fault: a request without an answer is sent again
    /\ redeem = "sent"
    /\ late' = late + 1
    /\ UNCHANGED <<hostVars, pageVars, guardVars, read, redeem, patch, confirmed, spent, oldVars>>

(* Refused, or no answer: a timeout before or after Codex took the credit, *)
(* which leaves the count as it was. *)
RedeemFails ==
    /\ redeem \in {"sent", "done", "refused"}
    /\ redeem' = "idle"
    /\ late' = IF redeem = "sent" THEN late + 1 ELSE late
    /\ oldCount' = (oldCount \/ redeem = "done")
    /\ UNCHANGED <<availableCount, disabled>> /\ Render
    /\ UNCHANGED <<hostVars, guardVars, read, patch, confirmed, spent, overtaken, oldStatus>>

-----------------------------------------------------------------------------
(* toggleFileStatus.  Only enabled credentials have a card, so the switch  *)
(* only switches off.  It is locked until the answer, or the next render.  *)
ToggleFileStatus(p) ==
    /\ card = "shown" /\ patch[p] = "idle"
    /\ patch' = [patch EXCEPT ![p] = "sent"]
    /\ card' = p
    /\ UNCHANGED <<hostVars, availableCount, disabled, guardVars, read, redeem, spentVars, oldVars>>

(* The host executes the PATCH, in time or after the page gave it up.      *)
Disabling ==
    /\ hostDisabled' = TRUE
    /\ overtaken' = IF hostDisabled THEN overtaken ELSE overtaken \cup Overtaking(StatusReaders)
    /\ UNCHANGED <<available, pageVars, guardVars, read, redeem, spentVars, oldCount>>

HostDisables(p) ==
    /\ patch[p] = "sent"
    /\ patch' = [patch EXCEPT ![p] = "done"]
    /\ Disabling /\ UNCHANGED oldStatus

HostDisablesLate(p) ==
    /\ patch[p] = "lost"
    /\ patch' = [patch EXCEPT ![p] = "idle"]
    /\ Disabling /\ oldStatus' = (oldStatus \/ ~hostDisabled)

ToggledUnstored(p) ==  \* fault: the file keeps its old status
    /\ patch[p] = "done"
    /\ patch' = [patch EXCEPT ![p] = "idle"]
    /\ UNCHANGED <<availableCount, disabled>> /\ Render
    /\ UNCHANGED <<hostVars, guardVars, read, redeem, spentVars, oldVars>>

Toggled(p) ==
    /\ patch[p] = "done"
    /\ patch' = [patch EXCEPT ![p] = "idle"]
    /\ disabled' = TRUE
    /\ oldStatus' = (oldStatus \/ ~hostDisabled)
    /\ UNCHANGED availableCount /\ Render
    /\ UNCHANGED <<hostVars, guardVars, read, redeem, spentVars, overtaken, oldCount>>

(* An error, or no answer within 30 s, which does not stop the host: what  *)
(* it has not executed may still arrive, and what it has is not told.      *)
GiveUp(p) ==
    /\ patch[p] \in {"sent", "done"}
    /\ \E stage \in {"idle"} \cup (IF patch[p] = "sent" THEN {"lost"} ELSE {}) :
           patch' = [patch EXCEPT ![p] = stage]
    /\ oldStatus' = (oldStatus \/ (patch[p] = "done" /\ ~disabled))
    /\ UNCHANGED <<hostVars, availableCount, disabled, guardVars, read, redeem, spentVars,
                   overtaken, oldCount>>

ToggleFailsLocked(p) == GiveUp(p) /\ UNCHANGED card  \* fault: the switch is not unlocked

(* An element that is no longer in the page is unlocked in vain.           *)
ToggleFails(p) == GiveUp(p) /\ card' = IF card = p THEN "shown" ELSE card

-----------------------------------------------------------------------------
(* CPAMC enables the credential again. *)
CPAMC ==
    /\ hostDisabled
    /\ hostDisabled' = FALSE
    /\ overtaken' = overtaken \cup Overtaking(StatusReaders)
    /\ oldStatus' = (oldStatus \/ disabled)
    /\ UNCHANGED <<available, pageVars, guardVars, read, redeem, patch, spentVars, oldCount>>

Next ==
    \/ ClickRefresh \/ RefreshAll \/ Redeem \/ ResetQuota
    \/ \E r \in Readers : HostReads(r)
    \/ \E r \in CountReaders : FetchCodexQuota(r)
    \/ \E r \in StatusReaders : RefreshStats(r)
    \/ EndFetch \/ EndAll
    \/ CodexRedeems \/ CodexRedeemsLate \/ Redeemed \/ RedeemFails
    \/ \E p \in Patches :
           \/ ToggleFileStatus(p) \/ HostDisables(p) \/ HostDisablesLate(p)
           \/ Toggled(p) \/ ToggleFails(p)
    \/ CPAMC

Spec == Init /\ [][Next]_vars

-----------------------------------------------------------------------------
(* README, Codex Reset Credits: a credit is redeemed by a confirmed click  *)
(* each, whatever times out; nothing that can still be executed goes       *)
(* beyond what was confirmed.                                              *)
SpentIsConfirmed ==
    spent + late + (IF redeem = "sent" THEN 1 ELSE 0) <= confirmed

(* The card offers as many credits as there are, or none, also before and  *)
(* after a redemption: unless Codex's answer is on its way, or the count   *)
(* became old untold - the answer was lost, the request was executed after *)
(* the page gave it up, or a count from before a redemption came in last - *)
(* and no fresh count has come in since.                                   *)
CountFollows ==
    redeem \in {"idle", "sent", "refused"} /\ late = 0 /\ ~oldCount =>
        availableCount \in {None, 0, available}

(* The page takes a credential for disabled only if the host does, and for *)
(* enabled only if the host does or its answer to a PATCH is on its way:   *)
(* whatever PATCHes overlap, fail or are given up.  A PATCH given up may   *)
(* still be executed, or was and is not told; CPAMC changes the status; a  *)
(* status from before a change comes in last.  Then the page is wrong, but *)
(* only until it next reads the status afresh.                             *)
StatusFollows ==
    ~oldStatus => /\ disabled => hostDisabled
                  /\ hostDisabled => disabled \/ \E p \in Patches : patch[p] = "done"

(* When no refresh is in progress a credential has a card exactly if the   *)
(* page holds it enabled; and its switch is locked by nothing but a PATCH  *)
(* it still waits for, however often the card was rendered meanwhile.      *)
CardFollows ==
    /\ ~pendingQuota /\ ~isRefreshingAll => (card = "gone") = disabled
    /\ \A p \in Patches : card = p => patch[p] \in {"sent", "done"}
=============================================================================
