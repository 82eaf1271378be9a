------------------------ MODULE CredentialCardProofs ------------------------
(***************************************************************************)
(* Proofs about what the page lets a user change of a credential: about    *)
(* CredentialCard, for any number of credits, confirmations and            *)
(* overlapping PATCH requests, and, last, about PrefixEditor.              *)
(***************************************************************************)
EXTENDS CredentialCard, PrefixEditor, TLAPS

SpentInv ==
    /\ available \in Nat /\ confirmed \in Nat /\ spent \in Nat /\ late \in Nat
    /\ SpentIsConfirmed

(* What has been read and not been overtaken is the truth; a request that  *)
(* reads the status has a refresh around it.                               *)
ReadInv ==
    /\ read = [r \in Readers |-> read[r]]
    /\ \A r \in CountReaders :
           read[r].stage = "read" /\ r \notin overtaken => read[r].value = available
    /\ \A r \in StatusReaders : read[r].stage = "read" =>
           /\ read[r].value \in BOOLEAN
           /\ r \notin overtaken => (read[r].value <=> hostDisabled)
    /\ ~Over("stats") => pendingQuota
    /\ ~Over("allStats") => isRefreshingAll

StateInv ==
    /\ disabled \in BOOLEAN /\ hostDisabled \in BOOLEAN
    /\ pendingQuota \in BOOLEAN /\ isRefreshingAll \in BOOLEAN
    /\ oldCount \in BOOLEAN /\ oldStatus \in BOOLEAN
    /\ card \in {"gone", "shown"} \cup Patches
    /\ patch \in [Patches -> {"idle", "sent", "lost", "done"}]

CardInv == SpentInv /\ ReadInv /\ StateInv /\ CountFollows /\ StatusFollows /\ CardFollows

LEMMA CardInit == Init => CardInv
<1>. SUFFICES ASSUME Init PROVE CardInv
  OBVIOUS
<1>1. /\ available \in Nat /\ hostDisabled \in BOOLEAN /\ disabled = hostDisabled
      /\ availableCount = None /\ card = Rendered(disabled)
      /\ pendingQuota = FALSE /\ isRefreshingAll = FALSE /\ oldCount = FALSE /\ oldStatus = FALSE
      /\ read = [r \in Readers |-> Idle] /\ patch = [p \in Patches |-> "idle"]
      /\ redeem = "idle" /\ confirmed = 0 /\ spent = 0 /\ late = 0
  BY CardAssumption DEF Init
<1>2. SpentInv /\ CountFollows
  BY <1>1 DEF SpentInv, SpentIsConfirmed, CountFollows
<1>3. ReadInv
  BY <1>1 DEF ReadInv, Readers, CountReaders, StatusReaders, Over, Idle
<1>4. StateInv /\ StatusFollows
  BY <1>1 DEF StateInv, StatusFollows, Rendered
<1>5. CardFollows
  BY <1>1, CardAssumption DEF CardFollows, Rendered
<1>. QED BY <1>2, <1>3, <1>4, <1>5 DEF CardInv

-----------------------------------------------------------------------------
LEMMA SpentStep == SpentInv /\ [Next]_vars => SpentInv'
<1>. USE DEF spentVars, SpentInv, SpentIsConfirmed
<1>. SUFFICES ASSUME SpentInv, [Next]_vars PROVE SpentInv'
  OBVIOUS
<1>1. ASSUME UNCHANGED <<available, spentVars>>, redeem' = "sent" => redeem = "sent"
      PROVE  SpentInv'
  BY <1>1
<1>2. CASE Redeem
  BY <1>2 DEF Redeem, hostVars
<1>3. CASE CodexRedeems
  BY <1>3 DEF CodexRedeems, Spend
<1>4. CASE CodexRedeemsLate
  BY <1>4 DEF CodexRedeemsLate, Spend
<1>5. CASE RedeemFails
  BY <1>5 DEF RedeemFails, hostVars
<1>6. CASE ClickRefresh \/ RefreshAll \/ ResetQuota \/ EndFetch \/ EndAll \/ Redeemed \/ CPAMC
  BY <1>1, <1>6 DEF ClickRefresh, RefreshAll, ResetQuota, EndFetch, EndAll, Redeemed, CPAMC, hostVars
<1>7. ASSUME NEW r \in Readers, HostReads(r) \/ FetchCodexQuota(r) \/ RefreshStats(r)
      PROVE  SpentInv'
  BY <1>1, <1>7 DEF HostReads, FetchCodexQuota, RefreshStats, hostVars
<1>8. ASSUME NEW p \in Patches,
             \/ ToggleFileStatus(p) \/ HostDisables(p) \/ HostDisablesLate(p)
             \/ Toggled(p) \/ ToggleFails(p)
      PROVE  SpentInv'
  BY <1>1, <1>8 DEF ToggleFileStatus, HostDisables, HostDisablesLate, Disabling, Toggled,
                    ToggleFails, GiveUp, hostVars
<1>9. CASE UNCHANGED vars
  BY <1>1, <1>9 DEF vars, hostVars
<1>. QED
  BY <1>2, <1>3, <1>4, <1>5, <1>6, <1>7, <1>8, <1>9 DEF Next, Readers

LEMMA StateStep == ReadInv /\ StateInv /\ [Next]_vars => StateInv'
<1>. USE DEF hostVars, pageVars, guardVars, oldVars, Render, Rendered
<1>. SUFFICES ASSUME ReadInv, StateInv, [Next]_vars PROVE StateInv'
  OBVIOUS
<1>1. CASE ClickRefresh \/ RefreshAll \/ EndFetch \/ EndAll \/ Redeem \/ RedeemFails
  BY <1>1 DEF ClickRefresh, RefreshAll, EndFetch, EndAll, Redeem, RedeemFails, StateInv
<1>2. CASE ResetQuota \/ CodexRedeems \/ CodexRedeemsLate \/ Redeemed \/ CPAMC
  BY <1>2 DEF ResetQuota, CodexRedeems, CodexRedeemsLate, Redeemed, CPAMC, StateInv
<1>3. ASSUME NEW r \in Readers, HostReads(r) PROVE StateInv'
  BY <1>3 DEF HostReads, StateInv
<1>4. ASSUME NEW r \in CountReaders, FetchCodexQuota(r) PROVE StateInv'
  <2>1. oldCount' \in BOOLEAN
    <3>1. oldCount' = oldCount \/ oldCount' = (r \in overtaken)
      BY <1>4, ZenonT(20) DEF FetchCodexQuota
    <3>2. oldCount \in BOOLEAN /\ (r \in overtaken) \in BOOLEAN
      BY DEF StateInv
    <3>. QED BY <3>1, <3>2, Zenon
  <2>2. card' \in {"gone", "shown"} \cup Patches
    BY <1>4 DEF FetchCodexQuota, StateInv
  <2>3. UNCHANGED <<disabled, hostDisabled, pendingQuota, isRefreshingAll, oldStatus, patch>>
    BY <1>4 DEF FetchCodexQuota
  <2>. QED BY <2>1, <2>2, <2>3 DEF StateInv
<1>5. ASSUME NEW r \in StatusReaders, RefreshStats(r) PROVE StateInv'
  <2>1. oldStatus' \in BOOLEAN
    <3>1. oldStatus' = oldStatus \/ oldStatus' = (r \in overtaken)
      BY <1>5, ZenonT(20) DEF RefreshStats
    <3>2. oldStatus \in BOOLEAN /\ (r \in overtaken) \in BOOLEAN
      BY DEF StateInv
    <3>. QED BY <3>1, <3>2, Zenon
  <2>2. disabled' \in BOOLEAN
    BY <1>5 DEF RefreshStats, StateInv, ReadInv
  <2>3. UNCHANGED <<hostDisabled, pendingQuota, isRefreshingAll, oldCount, card, patch>>
    BY <1>5 DEF RefreshStats
  <2>. QED BY <2>1, <2>2, <2>3 DEF StateInv
<1>6. ASSUME NEW p \in Patches, ToggleFileStatus(p) \/ HostDisables(p) \/ HostDisablesLate(p)
      PROVE  StateInv'
  BY <1>6 DEF ToggleFileStatus, HostDisables, HostDisablesLate, Disabling, StateInv
<1>7. ASSUME NEW p \in Patches, Toggled(p) \/ ToggleFails(p) PROVE StateInv'
  BY <1>7 DEF Toggled, ToggleFails, GiveUp, StateInv
<1>8. CASE UNCHANGED vars
  BY <1>8 DEF vars, StateInv
<1>. QED BY <1>1, <1>2, <1>3, <1>4, <1>5, <1>6, <1>7, <1>8 DEF Next

-----------------------------------------------------------------------------
LEMMA ReadStep == StateInv /\ ReadInv /\ [Next]_vars => ReadInv'
<1>. USE DEF hostVars, pageVars, guardVars, oldVars, Readers, CountReaders, StatusReaders, Over
<1>. SUFFICES ASSUME StateInv, ReadInv, [Next]_vars PROVE ReadInv'
  OBVIOUS
(* Requests start and end; the truth stays. *)
<1>1. CASE ClickRefresh \/ RefreshAll \/ ResetQuota
  <2>1. /\ read' = [r \in Readers |-> read'[r]]
        /\ \A r \in Readers : read'[r] = read[r] \/ read'[r].stage = "asked"
    BY <1>1 DEF ClickRefresh, RefreshAll, ResetQuota, ReadInv, Asked
  <2>2. /\ read'["stats"] = read["stats"] \/ pendingQuota'
        /\ read'["allStats"] = read["allStats"] \/ isRefreshingAll'
    BY <1>1 DEF ClickRefresh, RefreshAll, ResetQuota, ReadInv
  <2>3. UNCHANGED <<available, hostDisabled, overtaken>>
    BY <1>1 DEF ClickRefresh, RefreshAll, ResetQuota
  <2>4. (pendingQuota => pendingQuota') /\ (isRefreshingAll => isRefreshingAll')
    <3>1. CASE ClickRefresh
      BY <3>1 DEF ClickRefresh
    <3>2. CASE RefreshAll
      <4>1. isRefreshingAll' = TRUE /\ pendingQuota' = (pendingQuota \/ (~disabled /\ ~pendingQuota))
        BY <3>2, ZenonT(20) DEF RefreshAll
      <4>. QED BY <4>1
    <3>3. CASE ResetQuota
      BY <3>3 DEF ResetQuota
    <3>. QED BY <1>1, <3>1, <3>2, <3>3
  <2>. QED BY <2>1, <2>2, <2>3, <2>4 DEF ReadInv
<1>2. ASSUME NEW r \in Readers, HostReads(r) PROVE ReadInv'
  BY <1>2 DEF HostReads, ReadInv, StateInv
<1>3. ASSUME NEW r \in Readers, FetchCodexQuota(r) \/ RefreshStats(r) PROVE ReadInv'
  BY <1>3 DEF FetchCodexQuota, RefreshStats, ReadInv, Idle
<1>4. CASE EndFetch \/ EndAll
  BY <1>4 DEF EndFetch, EndAll, ReadInv
(* The truth changes and overtakes what was read. *)
<1>5. CASE CodexRedeems \/ CodexRedeemsLate
  BY <1>5 DEF CodexRedeems, CodexRedeemsLate, Spend, Overtaking, ReadInv
<1>6. CASE CPAMC
  BY <1>6 DEF CPAMC, Overtaking, ReadInv
<1>7. ASSUME NEW p \in Patches, HostDisables(p) \/ HostDisablesLate(p) PROVE ReadInv'
  BY <1>7 DEF HostDisables, HostDisablesLate, Disabling, Overtaking, ReadInv, StateInv
<1>8. ASSUME UNCHANGED <<hostVars, pendingQuota, isRefreshingAll, read, overtaken>> PROVE ReadInv'
  BY <1>8 DEF ReadInv
<1>9. CASE Redeem \/ Redeemed \/ RedeemFails \/ UNCHANGED vars
  BY <1>8, <1>9 DEF Redeem, Redeemed, RedeemFails, vars
<1>10. ASSUME NEW p \in Patches, ToggleFileStatus(p) \/ Toggled(p) \/ ToggleFails(p) PROVE ReadInv'
  BY <1>8, <1>10 DEF ToggleFileStatus, Toggled, ToggleFails, GiveUp
<1>. QED
  BY <1>1, <1>2, <1>3, <1>4, <1>5, <1>6, <1>7, <1>9, <1>10 DEF Next

LEMMA CountStep == SpentInv /\ StateInv /\ ReadInv /\ CountFollows /\ [Next]_vars => CountFollows'
<1>. USE DEF hostVars, pageVars, spentVars, oldVars
<1>. SUFFICES ASSUME SpentInv, StateInv, ReadInv, CountFollows, [Next]_vars PROVE CountFollows'
  OBVIOUS
<1>1. ASSUME NEW r \in CountReaders, FetchCodexQuota(r) PROVE CountFollows'
  <2>1. CASE availableCount' \in {None, 0}
    BY <2>1 DEF CountFollows
  <2>2. CASE /\ read[r].stage = "read" /\ availableCount' = read[r].value
             /\ oldCount' = (r \in overtaken)
    <3>1. ~oldCount' => availableCount' = available
      BY <2>2 DEF ReadInv
    <3>. QED BY <1>1, <3>1 DEF FetchCodexQuota, CountFollows
  <2>. QED BY <1>1, <2>1, <2>2 DEF FetchCodexQuota
<1>2. CASE CodexRedeems
  BY <1>2 DEF CodexRedeems, Spend, CountFollows
<1>3. CASE CodexRedeemsLate
  BY <1>3 DEF CodexRedeemsLate, CountFollows
<1>4. CASE RedeemFails
  <2>1. /\ redeem = "sent" => late' = late + 1
        /\ redeem # "sent" => late' = late
        /\ oldCount' <=> oldCount \/ redeem = "done"
        /\ redeem \in {"sent", "done", "refused"} /\ UNCHANGED <<available, availableCount>>
    BY <1>4 DEF RedeemFails, StateInv
  <2>2. late \in Nat
    BY DEF SpentInv
  <2>. QED BY <2>1, <2>2 DEF CountFollows
<1>5. CASE Redeem \/ Redeemed \/ ResetQuota
  BY <1>5 DEF Redeem, Redeemed, ResetQuota, CountFollows
<1>6. ASSUME UNCHANGED <<available, availableCount, redeem, late, oldCount>> PROVE CountFollows'
  BY <1>6 DEF CountFollows
<1>7. CASE ClickRefresh \/ RefreshAll \/ EndFetch \/ EndAll \/ CPAMC \/ UNCHANGED vars
  BY <1>6, <1>7 DEF ClickRefresh, RefreshAll, EndFetch, EndAll, CPAMC, vars
<1>8. ASSUME NEW r \in Readers, HostReads(r) \/ RefreshStats(r) PROVE CountFollows'
  BY <1>6, <1>8 DEF HostReads, RefreshStats
<1>9. ASSUME NEW p \in Patches,
             \/ ToggleFileStatus(p) \/ HostDisables(p) \/ HostDisablesLate(p)
             \/ Toggled(p) \/ ToggleFails(p)
      PROVE  CountFollows'
  BY <1>6, <1>9 DEF ToggleFileStatus, HostDisables, HostDisablesLate, Disabling, Toggled,
                    ToggleFails, GiveUp
<1>. QED
  BY <1>1, <1>2, <1>3, <1>4, <1>5, <1>7, <1>8, <1>9 DEF Next, Readers

LEMMA StatusStep == StateInv /\ ReadInv /\ StatusFollows /\ [Next]_vars => StatusFollows'
<1>. USE DEF hostVars, pageVars, oldVars
<1>. SUFFICES ASSUME StateInv, ReadInv, StatusFollows, [Next]_vars PROVE StatusFollows'
  OBVIOUS
<1>1. ASSUME NEW r \in StatusReaders, RefreshStats(r) PROVE StatusFollows'
  <2>1. CASE UNCHANGED <<disabled, oldStatus>>
    BY <1>1, <2>1 DEF RefreshStats, StatusFollows
  <2>2. CASE /\ read[r].stage = "read" /\ disabled' = read[r].value
             /\ oldStatus' = (r \in overtaken)
    <3>1. ~oldStatus' => (disabled' <=> hostDisabled)
      BY <2>2 DEF ReadInv
    <3>. QED BY <1>1, <3>1 DEF RefreshStats, StatusFollows
  <2>. QED BY <1>1, <2>1, <2>2 DEF RefreshStats
<1>2. ASSUME NEW p \in Patches, ToggleFileStatus(p) PROVE StatusFollows'
  BY <1>2 DEF ToggleFileStatus, StatusFollows, StateInv
<1>3. ASSUME NEW p \in Patches, HostDisables(p) \/ HostDisablesLate(p) PROVE StatusFollows'
  BY <1>3 DEF HostDisables, HostDisablesLate, Disabling, StatusFollows, StateInv
<1>4. ASSUME NEW p \in Patches, Toggled(p) PROVE StatusFollows'
  BY <1>4 DEF Toggled, StatusFollows, StateInv
<1>5. ASSUME NEW p \in Patches, ToggleFails(p) PROVE StatusFollows'
  BY <1>5 DEF ToggleFails, GiveUp, StatusFollows, StateInv
<1>6. CASE CPAMC
  BY <1>6 DEF CPAMC, StatusFollows
<1>7. ASSUME UNCHANGED <<hostDisabled, disabled, patch, oldStatus>> PROVE StatusFollows'
  BY <1>7 DEF StatusFollows
<1>8. CASE \/ ClickRefresh \/ RefreshAll \/ Redeem \/ ResetQuota \/ EndFetch \/ EndAll
           \/ CodexRedeems \/ CodexRedeemsLate \/ Redeemed \/ RedeemFails \/ UNCHANGED vars
  BY <1>7, <1>8 DEF ClickRefresh, RefreshAll, Redeem, ResetQuota, EndFetch, EndAll,
                    CodexRedeems, CodexRedeemsLate, Redeemed, RedeemFails, vars
<1>9. ASSUME NEW r \in Readers, HostReads(r) \/ FetchCodexQuota(r) PROVE StatusFollows'
  BY <1>7, <1>9 DEF HostReads, FetchCodexQuota
<1>. QED
  BY <1>1, <1>2, <1>3, <1>4, <1>5, <1>6, <1>8, <1>9 DEF Next, Readers

LEMMA FollowStep == StateInv /\ ReadInv /\ CardFollows /\ [Next]_vars => CardFollows'
<1>. USE CardAssumption DEF hostVars, pageVars, guardVars, Render, Rendered
<1>. SUFFICES ASSUME StateInv, ReadInv, CardFollows, [Next]_vars PROVE CardFollows'
  OBVIOUS
(* Where the page is rendered. *)
<1>1. ASSUME card' = Rendered(disabled'), disabled' \in BOOLEAN PROVE CardFollows'
  BY <1>1 DEF CardFollows
<1>2. CASE ClickRefresh \/ EndFetch \/ EndAll \/ Redeem \/ RedeemFails
  BY <1>1, <1>2 DEF ClickRefresh, EndFetch, EndAll, Redeem, RedeemFails, StateInv
<1>3. ASSUME NEW p \in Patches, Toggled(p) PROVE CardFollows'
  BY <1>1, <1>3 DEF Toggled
(* While a refresh goes on, which ends with a rendering. *)
<1>4. CASE RefreshAll
  BY <1>4 DEF RefreshAll, CardFollows
<1>5. ASSUME NEW r \in StatusReaders, RefreshStats(r) PROVE CardFollows'
  BY <1>5 DEF RefreshStats, StatusReaders, ReadInv, CardFollows
(* The switch. *)
<1>6. ASSUME NEW p \in Patches, ToggleFileStatus(p) PROVE CardFollows'
  BY <1>6 DEF ToggleFileStatus, CardFollows, StateInv
<1>7. ASSUME NEW p \in Patches, HostDisables(p) \/ HostDisablesLate(p) PROVE CardFollows'
  BY <1>7 DEF HostDisables, HostDisablesLate, Disabling, CardFollows, StateInv
<1>8. ASSUME NEW p \in Patches, ToggleFails(p) PROVE CardFollows'
  BY <1>8 DEF ToggleFails, GiveUp, CardFollows, StateInv
<1>9. ASSUME UNCHANGED <<card, disabled, pendingQuota, isRefreshingAll, patch>> PROVE CardFollows'
  BY <1>9 DEF CardFollows
<1>10. CASE ResetQuota \/ CodexRedeems \/ CodexRedeemsLate \/ Redeemed \/ CPAMC \/ UNCHANGED vars
  BY <1>9, <1>10 DEF ResetQuota, CodexRedeems, CodexRedeemsLate, Redeemed, CPAMC, vars
<1>11. ASSUME NEW r \in Readers, HostReads(r) PROVE CardFollows'
  BY <1>9, <1>11 DEF HostReads
<1>12. ASSUME NEW r \in CountReaders, FetchCodexQuota(r) PROVE CardFollows'
  BY <1>1, <1>9, <1>12 DEF FetchCodexQuota, StateInv
<1>. QED
  BY <1>2, <1>3, <1>4, <1>5, <1>6, <1>7, <1>8, <1>10, <1>11, <1>12 DEF Next

LEMMA CardInvariant == Spec => []CardInv
<1>1. CardInv /\ [Next]_vars => CardInv'
  BY SpentStep, StateStep, ReadStep, CountStep, StatusStep, FollowStep DEF CardInv
<1>. QED BY <1>1, CardInit, PTL DEF Spec

-----------------------------------------------------------------------------
(* Credits: no more is spent, nor can still be spent by a request without  *)
(* an answer, than was confirmed.                                          *)
THEOREM EveryCreditIsConfirmed == Spec => []SpentIsConfirmed
<1>1. CardInv => SpentIsConfirmed
  BY DEF CardInv, SpentInv
<1>. QED BY <1>1, CardInvariant, PTL

(* The card offers as many credits as there are, or none, but for what was *)
(* spent untold since the count was last read afresh.                      *)
THEOREM CountIsTrue == Spec => []CountFollows
<1>1. CardInv => CountFollows
  BY DEF CardInv
<1>. QED BY <1>1, CardInvariant, PTL

(* A credential is disabled in the page exactly if it is in the host, or   *)
(* will be told so by an answer on its way; but for changes the page is    *)
(* not told of, as by a PATCH executed after the page gave it up, and then *)
(* until it reads the status afresh.                                       *)
THEOREM StatusIsTrue == Spec => []StatusFollows
<1>1. CardInv => StatusFollows
  BY DEF CardInv
<1>. QED BY <1>1, CardInvariant, PTL

(* A credential has a card exactly if the page holds it enabled, and its   *)
(* switch is locked by nothing but a PATCH it waits for.                    *)
THEOREM CardIsTrue == Spec => []CardFollows
<1>1. CardInv => CardFollows
  BY DEF CardInv
<1>. QED BY <1>1, CardInvariant, PTL
-----------------------------------------------------------------------------
(* The prefix editor, another part of the same page, for any credentials,  *)
(* prefixes and number of saves.                                           *)
Sent == [stage : {"sent", "applied", "saved", "failed", "lost"}, file : Files,
         prefix : Prefixes, told : Files \cup {NoFile}]

EditorTypes == TypeOK /\ save = [t \in Saves |-> save[t]]

(* Why the answer, which reads activeModalFile again, finds its own file:  *)
(* a save in flight is the only one, and the modal still shows its file.   *)
OneSave ==
    /\ \A t, u \in Saves : InFlight(t) /\ InFlight(u) => t = u
    /\ \A t \in Saves : InFlight(t) => /\ save[t].file = activeModalFile
                                       /\ modalLoading
    /\ (activeModalFile # NoFile /\ modalLoading) => \E t \in Saves : InFlight(t)

(* The host has what it executed last; a save whose answer is on its way   *)
(* is that one, or came before a save that was given up.                   *)
HostHas ==
    /\ \A u \in last : /\ save[u].stage \in {"applied", "saved", "failed"}
                       /\ server[save[u].file] = save[u].prefix
    /\ \A t \in Saves : save[t].stage = "applied" =>
           \E u \in last : save[u].file = save[t].file /\ (u = t \/ save[u].stage = "failed")

EditorInv ==
    /\ EditorTypes
    /\ dismissed \/ (OneSave /\ HostHas /\ LocalFollowsServer /\ ToastNamesSaved)

LEMMA EditorInvHoldsAtStart == EditorInit => EditorInv
<1>. SUFFICES ASSUME EditorInit PROVE EditorInv
  OBVIOUS
<1>1. /\ activeModalFile = NoFile /\ modalLoading = FALSE /\ last = {}
      /\ server = local /\ \A t \in Saves : save[t].stage = "unused"
  BY DEF EditorInit
<1>2. EditorTypes
  BY DEF EditorInit, EditorTypes, TypeOK
<1>. QED
  BY <1>1, <1>2 DEF EditorInv, OneSave, HostHas, LocalFollowsServer, ToastNamesSaved, InFlight

-----------------------------------------------------------------------------
(* What the change of one save leaves of the others. *)
LEMMA Saved ==
    ASSUME EditorTypes, NEW t \in Saves, NEW s \in Sent, save' = [save EXCEPT ![t] = s]
    PROVE  /\ save' = [u \in Saves |-> save'[u]]
           /\ save'[t] = s /\ \A u \in Saves : u # t => save'[u] = save[u]
           /\ \A u \in Saves : \/ save'[u] = [stage |-> "unused"]
                               \/ save'[u] \in Sent
<1>1. /\ save' = [u \in Saves |-> save'[u]]
      /\ save'[t] = s /\ \A u \in Saves : u # t => save'[u] = save[u]
  BY DEF EditorTypes
<1>2. \A u \in Saves : save[u] = [stage |-> "unused"] \/ save[u] \in Sent
  BY DEF EditorTypes, TypeOK, Sent
<1>. QED BY <1>1, <1>2

LEMMA IsSent ==
    ASSUME EditorTypes, NEW t \in Saves, save[t].stage # "unused"
    PROVE  save[t] \in Sent
BY DEF EditorTypes, TypeOK, Sent

LEMMA EditorInvKept == EditorInv /\ [EditorNext]_editorVars => EditorInv'
<1>. SUFFICES ASSUME EditorInv, [EditorNext]_editorVars PROVE EditorInv'
  OBVIOUS
<1>0. EditorTypes /\ NoFile \notin Files
  BY EditorAssumption DEF EditorInv
<1>1. ASSUME NEW f \in Files, OpenEditModal(f) PROVE EditorInv'
  <2>1. EditorTypes'
    BY <1>0, <1>1 DEF OpenEditModal, EditorTypes, TypeOK
  <2>2. CASE ~dismissed
    <3>1. \A t \in Saves : ~InFlight(t)
      BY <1>0, <1>1, <2>2 DEF OpenEditModal, EditorInv, OneSave, EditorTypes, TypeOK, InFlight
    <3>. QED BY <1>1, <2>1, <2>2, <3>1
             DEF OpenEditModal, EditorInv, OneSave, HostHas, LocalFollowsServer,
                 ToastNamesSaved, InFlight
  <2>3. CASE dismissed
    BY <1>1, <2>1, <2>3 DEF OpenEditModal, EditorInv
  <2>. QED BY <2>2, <2>3
<1>2. ASSUME NEW p \in Prefixes, Type(p) PROVE EditorInv'
  BY <1>2 DEF Type, EditorInv, EditorTypes, TypeOK, OneSave, HostHas, LocalFollowsServer,
              ToastNamesSaved, InFlight
<1>3. ASSUME CloseEditModal PROVE EditorInv'
  <2>1. EditorTypes'
    BY <1>0, <1>3 DEF CloseEditModal, EditorTypes, TypeOK
  <2>2. CASE dismissed \/ modalLoading
    BY <1>3, <2>1, <2>2 DEF CloseEditModal, EditorInv
  <2>3. CASE ~dismissed /\ ~modalLoading
    <3>1. \A t \in Saves : ~InFlight(t)
      BY <2>3 DEF EditorInv, OneSave
    <3>. QED BY <1>3, <2>1, <2>3, <3>1
             DEF CloseEditModal, EditorInv, OneSave, HostHas, LocalFollowsServer,
                 ToastNamesSaved, InFlight
  <2>. QED BY <2>2, <2>3
<1>4. ASSUME NEW t \in Saves, HandleSavePrefix(t) PROVE EditorInv'
  <2>. DEFINE s == [stage |-> "sent", file |-> activeModalFile, prefix |-> input, told |-> NoFile]
  <2>1. /\ activeModalFile # NoFile /\ ~modalLoading /\ save' = [save EXCEPT ![t] = s]
        /\ modalLoading' = TRUE
        /\ save[t].stage = "unused"
        /\ UNCHANGED <<activeModalFile, input, local, server, last, dismissed>>
    BY <1>4 DEF HandleSavePrefix
  <2>2. s \in Sent /\ s.stage = "sent" /\ s.file = activeModalFile
    BY <1>0, <2>1 DEF EditorTypes, TypeOK, Sent
  <2>. HIDE DEF s
  <2>3. /\ save'[t] = s /\ \A u \in Saves : u # t => save'[u] = save[u]
        /\ save' = [u \in Saves |-> save'[u]]
    BY <1>0, <2>1, <2>2, Saved
  <2>4. EditorTypes'
    BY <1>0, <2>1, <2>2, Saved DEF EditorTypes, TypeOK, Sent
  <2>5. CASE ~dismissed
    <3>1. \A u \in Saves : ~InFlight(u)
      BY <2>1, <2>5 DEF EditorInv, OneSave
    <3>2. \A u \in Saves : InFlight(u)' <=> u = t
      BY <2>2, <2>3, <3>1 DEF InFlight
    <3>3. OneSave'
      BY <2>1, <2>2, <2>3, <3>2 DEF OneSave
    <3>4. t \notin last /\ last \subseteq Saves
      BY <1>0, <2>1, <2>5 DEF EditorInv, HostHas, EditorTypes, TypeOK
    <3>5. \A u \in last : save'[u] = save[u]
      BY <2>3, <3>4
    <3>6. HostHas'
      BY <2>1, <2>2, <2>3, <2>5, <3>4, <3>5 DEF EditorInv, HostHas
    <3>7. ToastNamesSaved'
      BY <2>1, <2>2, <2>3, <2>5 DEF EditorInv, ToastNamesSaved
    <3>8. LocalFollowsServer'
      BY <2>1, <2>5, <3>5 DEF EditorInv, LocalFollowsServer
    <3>. QED BY <2>4, <3>3, <3>6, <3>7, <3>8 DEF EditorInv
  <2>. QED BY <2>1, <2>4, <2>5 DEF EditorInv
<1>5. ASSUME NEW t \in Saves, Apply(t) PROVE EditorInv'
  <2>. DEFINE s == [save[t] EXCEPT !.stage = IF @ = "sent" THEN "applied" ELSE "failed"]
              f == save[t].file
  <2>1. /\ save[t].stage \in {"sent", "lost"} /\ save' = [save EXCEPT ![t] = s]
        /\ server' = [server EXCEPT ![f] = save[t].prefix]
        /\ last' = {u \in last : save[u].file # f} \cup {t}
        /\ UNCHANGED <<activeModalFile, input, modalLoading, local, dismissed>>
    BY <1>5 DEF Apply
  <2>2. save[t] \in Sent
    BY <1>0, <2>1, IsSent
  <2>3. /\ s \in Sent /\ s.file = f /\ s.prefix = save[t].prefix
        /\ s.stage = IF save[t].stage = "sent" THEN "applied" ELSE "failed"
    BY <2>2 DEF Sent
  <2>. HIDE DEF s
  <2>4. /\ save'[t] = s /\ \A u \in Saves : u # t => save'[u] = save[u]
        /\ save' = [u \in Saves |-> save'[u]]
    BY <1>0, <2>1, <2>3, Saved
  <2>5. /\ f \in Files /\ server'[f] = save[t].prefix
        /\ \A g \in Files : g # f => server'[g] = server[g]
        /\ server' \in [Files -> Prefixes]
    BY <1>0, <2>1, <2>2 DEF EditorTypes, TypeOK, Sent
  <2>6. EditorTypes'
    <3>1. last' \subseteq Saves
      BY <1>0, <2>1 DEF EditorTypes, TypeOK
    <3>. QED BY <1>0, <2>1, <2>3, <2>5, <3>1, Saved DEF EditorTypes, TypeOK, Sent
  <2>7. CASE ~dismissed
    <3>1. \A u \in Saves : InFlight(u)' <=> InFlight(u)
      BY <2>1, <2>3, <2>4 DEF InFlight
    <3>2. OneSave'
      BY <2>1, <2>3, <2>4, <2>7, <3>1 DEF EditorInv, OneSave
    <3>3. ToastNamesSaved'
      BY <2>1, <2>3, <2>4, <2>7 DEF EditorInv, ToastNamesSaved
    <3>4. ASSUME NEW u \in last', u # t
          PROVE  u \in last /\ save'[u] = save[u] /\ save[u].file # f
                 /\ save[u] \in Sent /\ server'[save[u].file] = server[save[u].file]
      <4>1. u \in last /\ u \in Saves /\ save'[u] = save[u] /\ save[u].file # f
        BY <1>0, <2>1, <2>4, <3>4 DEF EditorTypes, TypeOK
      <4>2. save[u] \in Sent
        BY <1>0, <2>7, <4>1, IsSent DEF EditorInv, HostHas
      <4>. QED BY <2>5, <4>1, <4>2 DEF Sent
    <3>5. ASSUME NEW u \in last'
          PROVE  /\ save'[u].stage \in {"applied", "saved", "failed"}
                 /\ server'[save'[u].file] = save'[u].prefix
      <4>1. CASE u = t
        BY <2>3, <2>4, <2>5, <4>1
      <4>2. CASE u # t
        BY <2>7, <3>4, <3>5, <4>2 DEF EditorInv, HostHas
      <4>. QED BY <4>1, <4>2
    <3>6. ASSUME NEW v \in Saves, save'[v].stage = "applied"
          PROVE  \E u \in last' : save'[u].file = save'[v].file
                                    /\ (u = v \/ save'[u].stage = "failed")
      <4>1. t \in last'
        BY <2>1
      <4>2. CASE v = t
        BY <4>1, <4>2
      <4>3. CASE v # t
        <5>1. InFlight(v) /\ save'[v] = save[v]
          BY <2>4, <3>6, <4>3 DEF InFlight
        <5>2. save[t].stage = "lost" /\ save'[t].stage = "failed"
          BY <2>1, <2>3, <2>4, <2>7, <4>3, <5>1 DEF EditorInv, OneSave, InFlight
        <5>3. CASE save[v].file = f
          BY <2>3, <2>4, <4>1, <5>1, <5>2, <5>3
        <5>4. CASE save[v].file # f
          <6>1. PICK u \in last : save[u].file = save[v].file /\ (u = v \/ save[u].stage = "failed")
            BY <2>7, <3>6, <5>1 DEF EditorInv, HostHas
          <6>2. u \in last' /\ u # t
            BY <2>1, <5>4, <6>1
          <6>. QED BY <3>4, <5>1, <6>1, <6>2
        <5>. QED BY <5>3, <5>4
      <4>. QED BY <4>2, <4>3
    <3>7. HostHas'
      <4>1. \A u \in last' : /\ save'[u].stage \in {"applied", "saved", "failed"}
                             /\ server'[save'[u].file] = save'[u].prefix
        BY <3>5
      <4>2. \A v \in Saves : save'[v].stage = "applied" =>
                \E u \in last' : save'[u].file = save'[v].file
                                  /\ (u = v \/ save'[u].stage = "failed")
        BY <3>6
      <4>. QED BY <4>1, <4>2 DEF HostHas
    <3>8. ASSUME NEW g \in Files, \A u \in last' : save'[u].file = g => save'[u].stage = "saved"
          PROVE  local[g] = server'[g]
      <4>1. g # f
        BY <2>1, <2>3, <2>4, <3>8
      <4>2. \A u \in last : save[u].file = g => u \in last' /\ u # t
        BY <2>1, <4>1
      <4>3. \A u \in last : save[u].file = g => save[u].stage = "saved"
        BY <3>4, <3>8, <4>2
      <4>. QED BY <2>5, <2>7, <4>1, <4>3 DEF EditorInv, LocalFollowsServer
    <3>9. LocalFollowsServer'
      BY <2>1, <3>8 DEF LocalFollowsServer
    <3>. QED BY <2>6, <3>2, <3>3, <3>7, <3>9 DEF EditorInv
  <2>. QED BY <2>1, <2>6, <2>7 DEF EditorInv
<1>6. ASSUME NEW t \in Saves, AnswerOK(t) PROVE EditorInv'
  <2>. DEFINE s == [save[t] EXCEPT !.stage = "saved", !.told = activeModalFile]
  <2>1. /\ save[t].stage = "applied" /\ save' = [save EXCEPT ![t] = s]
        /\ local' = [f \in Files |-> IF f = activeModalFile THEN save[t].prefix ELSE local[f]]
        /\ activeModalFile' = NoFile
        /\ UNCHANGED <<input, modalLoading, server, last, dismissed>>
    BY <1>6 DEF AnswerOK
  <2>2. save[t] \in Sent /\ activeModalFile \in Files \cup {NoFile}
    BY <1>0, <2>1, IsSent DEF EditorTypes, TypeOK
  <2>3. /\ s \in Sent /\ s.file = save[t].file /\ s.prefix = save[t].prefix
        /\ s.stage = "saved" /\ s.told = activeModalFile
    BY <2>2 DEF Sent
  <2>. HIDE DEF s
  <2>4. /\ save'[t] = s /\ \A u \in Saves : u # t => save'[u] = save[u]
        /\ save' = [u \in Saves |-> save'[u]]
    BY <1>0, <2>1, <2>3, Saved
  <2>5. local' \in [Files -> Prefixes]
    BY <1>0, <2>1, <2>2 DEF EditorTypes, TypeOK, Sent
  <2>6. EditorTypes'
    BY <1>0, <2>1, <2>3, <2>5, Saved DEF EditorTypes, TypeOK, Sent
  <2>7. CASE ~dismissed
    <3>1. save[t].file = activeModalFile /\ \A u \in Saves : InFlight(u) => u = t
      BY <2>1, <2>7 DEF EditorInv, OneSave, InFlight
    <3>2. \A u \in Saves : ~InFlight(u)'
      BY <2>3, <2>4, <3>1 DEF InFlight
    <3>3. OneSave'
      BY <2>1, <3>2 DEF OneSave
    <3>4. ToastNamesSaved'
      BY <2>1, <2>3, <2>4, <2>7, <3>1 DEF EditorInv, ToastNamesSaved
    <3>5. \A u \in last : /\ save'[u].file = save[u].file /\ save'[u].prefix = save[u].prefix
                         /\ save'[u].stage = IF u = t THEN "saved" ELSE save[u].stage
      BY <1>0, <2>3, <2>4 DEF EditorTypes, TypeOK
    <3>6. HostHas'
      <4>1. \A u \in Saves : save'[u].stage # "applied"
        BY <3>2 DEF InFlight
      <4>. QED BY <2>1, <2>7, <3>5, <4>1 DEF EditorInv, HostHas
    <3>7. ASSUME NEW g \in Files, \A u \in last : save'[u].file = g => save'[u].stage = "saved"
          PROVE  local'[g] = server[g]
      <4>1. CASE g = activeModalFile
        <5>1. PICK u \in last : save[u].file = save[t].file /\ (u = t \/ save[u].stage = "failed")
          BY <2>1, <2>7 DEF EditorInv, HostHas
        <5>2. u = t
          BY <3>1, <3>5, <3>7, <4>1, <5>1
        <5>3. server[g] = save[t].prefix
          BY <2>7, <3>1, <4>1, <5>1, <5>2 DEF EditorInv, HostHas
        <5>. QED BY <2>1, <4>1, <5>3
      <4>2. CASE g # activeModalFile
        <5>1. \A u \in last : save[u].file = g => save[u].stage = "saved"
          BY <3>1, <3>5, <3>7, <4>2
        <5>. QED BY <2>1, <2>7, <4>2, <5>1 DEF EditorInv, LocalFollowsServer
      <4>. QED BY <4>1, <4>2
    <3>8. LocalFollowsServer'
      BY <2>1, <3>7 DEF LocalFollowsServer
    <3>. QED BY <2>6, <3>3, <3>4, <3>6, <3>8 DEF EditorInv
  <2>. QED BY <2>1, <2>6, <2>7 DEF EditorInv
<1>7. ASSUME NEW t \in Saves, AnswerError(t) PROVE EditorInv'
  <2>1. PICK stage \in {"failed", "lost"} : /\ save' = [save EXCEPT ![t].stage = stage]
                                            /\ stage = "lost" => save[t].stage = "sent"
    BY <1>7 DEF AnswerError
  <2>. DEFINE s == [save[t] EXCEPT !.stage = stage]
  <2>2. /\ InFlight(t) /\ save' = [save EXCEPT ![t] = s] /\ modalLoading' = FALSE
        /\ stage = "lost" => save[t].stage = "sent"
        /\ UNCHANGED <<activeModalFile, input, local, server, last, dismissed>>
    BY <1>7, <2>1 DEF AnswerError
  <2>3. save[t] \in Sent
    BY <1>0, <2>2, IsSent DEF InFlight
  <2>4. s \in Sent /\ s.file = save[t].file /\ s.prefix = save[t].prefix /\ s.stage = stage
    BY <2>3 DEF Sent
  <2>. HIDE DEF s
  <2>5. /\ save'[t] = s /\ \A u \in Saves : u # t => save'[u] = save[u]
        /\ save' = [u \in Saves |-> save'[u]]
    BY <1>0, <2>2, <2>4, Saved
  <2>6. EditorTypes'
    BY <1>0, <2>2, <2>3, <2>4, Saved DEF EditorTypes, TypeOK, Sent
  <2>7. CASE ~dismissed
    <3>1. \A u \in Saves : InFlight(u) => u = t
      BY <2>2, <2>7 DEF EditorInv, OneSave
    <3>2. \A u \in Saves : ~InFlight(u)'
      BY <2>4, <2>5, <3>1 DEF InFlight
    <3>3. OneSave'
      BY <2>2, <3>2 DEF OneSave
    <3>4. ToastNamesSaved'
      BY <2>2, <2>4, <2>5, <2>7 DEF EditorInv, ToastNamesSaved
    <3>5. \A u \in last : /\ save'[u].file = save[u].file /\ save'[u].prefix = save[u].prefix
                         /\ save'[u].stage = IF u = t THEN stage ELSE save[u].stage
      BY <1>0, <2>3, <2>4, <2>5 DEF EditorTypes, TypeOK
    <3>6. t \in last => stage = "failed"
      BY <2>2, <2>7 DEF EditorInv, HostHas
    <3>7. HostHas'
      <4>1. \A u \in Saves : save'[u].stage # "applied"
        BY <3>2 DEF InFlight
      <4>. QED BY <2>2, <2>7, <3>5, <3>6, <4>1 DEF EditorInv, HostHas
    <3>8. LocalFollowsServer'
      BY <2>2, <2>7, <3>5, <3>6 DEF EditorInv, LocalFollowsServer
    <3>. QED BY <2>6, <3>3, <3>4, <3>7, <3>8 DEF EditorInv
  <2>. QED BY <2>2, <2>6, <2>7 DEF EditorInv
<1>8. ASSUME UNCHANGED editorVars PROVE EditorInv'
  BY <1>8 DEF editorVars, EditorInv, EditorTypes, TypeOK, OneSave, HostHas, LocalFollowsServer,
              ToastNamesSaved, InFlight
<1>. QED BY <1>1, <1>2, <1>3, <1>4, <1>5, <1>6, <1>7, <1>8 DEF EditorNext

LEMMA EditorInvariant == EditorSpec => []EditorInv
BY EditorInvHoldsAtStart, EditorInvKept, PTL DEF EditorSpec

(* As long as nobody closed the modal during a save, the list shows what   *)
(* the host has, unless the host has it from a save in flight or from one  *)
(* the user was told has failed; and each toast names the credential that  *)
(* was saved.                                                              *)
THEOREM SavesAreShownAndTold == EditorSpec => []SavedIsShownAndTold
<1>1. EditorInv => SavedIsShownAndTold
  BY DEF EditorInv, SavedIsShownAndTold
<1>. QED BY <1>1, EditorInvariant, PTL

(* The open modal is locked exactly while its save is in flight.           *)
THEOREM ModalLockedWhileSaving == EditorSpec => []LockedWhileSaving
<1>1. EditorInv => LockedWhileSaving
  BY DEF EditorInv, EditorTypes, TypeOK, OneSave, LockedWhileSaving
<1>. QED BY <1>1, EditorInvariant, PTL
=============================================================================
