---------------------------- MODULE EgoOverview ----------------------------
(***************************************************************************)
(* The Ego overview of the dashboard (internal/web/assets/index.html,      *)
(* loadEgoOverview) and the management key it shares with the quota view.  *)
(* A load sends one request per section and renders when all of them have  *)
(* settled; loads overlap, and only the newest may render.  The numbers in *)
(* a section are abstracted to the load that fetched them.                 *)
(***************************************************************************)
EXTENDS Naturals, FiniteSets

CONSTANTS Sections,  \* stats, providers, models, accounts, settings, timeline
          Ranges,    \* the range buttons
          Today,     \* the one whose window is a calendar day
          Keys,      \* management keys somebody may enter
          Accepted,  \* those the management API accepts
          MaxDay,    \* bound on midnights
          MaxLoads   \* bound on loads

ASSUME OverviewAssumption ==
    /\ Sections # {} /\ Today \in Ranges /\ Accepted \subseteq Keys
    /\ "" \notin Keys /\ MaxDay \in Nat /\ MaxLoads \in Nat

VARIABLES currentEgoRange, day,
          egoLoadVersion, egoLoadsPending, egoRefreshWasDisabled,
          refreshDisabled,  \* the disabled property of the Refresh button
          loads,            \* loads[v]: the load of version v
          shown,            \* the version whose answer each section shows
          flagged,          \* sections with a visible error line
          axis,             \* the range and window the chart is drawn for
          warning,          \* the box above the overview, with a form or not
          storedKey,        \* the key CPAMC remembers, or ""
          manualManagementKey

(* History, read by no action: the selected range has had no load, because *)
(* there was no key when it was asked for.                                 *)
VARIABLE unasked

buttonVars == <<egoLoadVersion, egoLoadsPending, egoRefreshWasDisabled, refreshDisabled>>
pageVars == <<shown, flagged, axis, warning>>
keyVars == <<storedKey, manualManagementKey>>
vars == <<currentEgoRange, day, buttonVars, loads, pageVars, keyVars, unasked>>

-----------------------------------------------------------------------------
NoKey == ""

Versions == 1..MaxLoads

Window(range, d) == IF range = Today THEN d ELSE "rolling"

(* What getManagementKey returns when the page holds the manual key k. *)
getManagementKey(k) == IF storedKey # NoKey THEN storedKey ELSE k

NoLoad == [state |-> "none"]

Loading(v) == loads[v].state = "loading"

Init ==
    /\ currentEgoRange \in Ranges /\ day = 0
    /\ egoLoadVersion = 0 /\ egoLoadsPending = 0
    /\ egoRefreshWasDisabled = FALSE /\ refreshDisabled = FALSE
    /\ loads = [v \in Versions |-> NoLoad]
    /\ shown = [s \in Sections |-> 0] /\ flagged = {}
    /\ axis = <<"none", "none">> /\ warning = "none"
    /\ storedKey \in Keys \cup {NoKey} /\ manualManagementKey = NoKey
    /\ unasked = FALSE

(* A load with the key k and the range r, up to its first await, given     *)
(* its version and the state of the button to restore.                     *)
BeginAs(k, r, version, wasDisabled) ==
    /\ loads' = [loads EXCEPT ![egoLoadVersion + 1] =
           [state |-> "loading", key |-> k, range |-> r, window |-> Window(r, day)]]
    /\ egoLoadVersion' = version
    /\ egoLoadsPending' = egoLoadsPending + 1
    /\ egoRefreshWasDisabled' = wasDisabled
    /\ refreshDisabled' = TRUE

BeginResaved(k, r) ==  \* fault: an overlapping load saves the button anew
    BeginAs(k, r, egoLoadVersion + 1, refreshDisabled)

Begin(k, r) ==
    BeginAs(k, r, egoLoadVersion + 1,
            IF egoLoadsPending = 0 THEN refreshDisabled ELSE egoRefreshWasDisabled)

(* loadEgoOverview with the key k: without one it only asks for a key.     *)
LoadOverview(k, r) ==
    /\ egoLoadVersion < MaxLoads
    /\ UNCHANGED <<shown, flagged, axis>>
    /\ unasked' = (k = NoKey)
    /\ IF k = NoKey
       THEN warning' = "prompt" /\ UNCHANGED <<buttonVars, loads>>
       ELSE Begin(k, r) /\ UNCHANGED warning

ClickRangeLate(r) ==  \* fault: the load still asks for the old range
    /\ currentEgoRange' = r
    /\ LoadOverview(getManagementKey(manualManagementKey), currentEgoRange)
    /\ UNCHANGED <<day, keyVars>>

(* A range button.  Opening the view loads too, and so do the Refresh      *)
(* button and the maintenance actions, which keep the range.               *)
ClickRange(r) ==
    /\ currentEgoRange' = r
    /\ LoadOverview(getManagementKey(manualManagementKey), r)
    /\ UNCHANGED <<day, keyVars>>

SubmitEgoPrompt(k) ==
    /\ warning = "prompt"
    /\ manualManagementKey' = k
    /\ LoadOverview(getManagementKey(k), currentEgoRange)
    /\ UNCHANGED <<currentEgoRange, day, storedKey>>

-----------------------------------------------------------------------------
(* How the sections' requests settle: answered, refused with 401, or       *)
(* failed (timeout, HTTP error, malformed body).                           *)
Answers(v) ==
    [Sections -> {IF loads[v].key \in Accepted THEN "ok" ELSE "denied", "failed"}]

Got(answer, a) == {s \in Sections : answer[s] = a}

(* The error lines, the warning box and the renderers, with the range and  *)
(* window the chart is drawn for.  The box gets a form only if no key is   *)
(* left.                                                                   *)
ShowFor(v, answer, drawn) ==
    /\ flagged' = Sections \ Got(answer, "ok")
    /\ shown' = [s \in Sections |-> IF s \in Got(answer, "ok") THEN v ELSE shown[s]]
    /\ axis' = IF "timeline" \in Got(answer, "ok") THEN drawn ELSE axis
    /\ manualManagementKey' = IF Got(answer, "denied") # {} THEN NoKey ELSE manualManagementKey
    /\ warning' = IF Got(answer, "denied") = {} THEN "none"
                  ELSE IF getManagementKey(NoKey) = NoKey THEN "prompt" ELSE "rejected"

ShowNow(v, answer) ==  \* fault: the chart is drawn for the range and the day of now
    ShowFor(v, answer, <<currentEgoRange, Window(currentEgoRange, day)>>)

Show(v, answer) == ShowFor(v, answer, <<loads[v].range, loads[v].window>>)

(* The finally clause. *)
Finish(v) ==
    /\ loads' = [loads EXCEPT ![v] = [state |-> "over", range |-> @.range, window |-> @.window]]
    /\ egoLoadsPending' = egoLoadsPending - 1
    /\ refreshDisabled' =
           IF egoLoadsPending = 1 THEN egoRefreshWasDisabled ELSE refreshDisabled
    /\ UNCHANGED <<egoLoadVersion, egoRefreshWasDisabled>>

(* The last of the six promises has settled.  A section's answer is its    *)
(* load, whenever it was given, so it is chosen here.                      *)
RenderAny(v, answer) ==  \* fault: no version check
    /\ Show(v, answer)
    /\ Finish(v)
    /\ UNCHANGED <<currentEgoRange, day, storedKey, unasked>>

Render(v, answer) ==
    /\ IF v = egoLoadVersion THEN Show(v, answer)
       ELSE UNCHANGED <<pageVars, manualManagementKey>>
    /\ Finish(v)
    /\ UNCHANGED <<currentEgoRange, day, storedKey, unasked>>

-----------------------------------------------------------------------------
(* The quota view: its prompt sets the manual key, and a 401 of its        *)
(* loadAuthFiles clears it, whichever key that request carried.  When it   *)
(* shows the prompt or has a request on its way is left open.              *)
QuotaView ==
    /\ manualManagementKey' \in Keys \cup {NoKey}
    /\ UNCHANGED <<currentEgoRange, day, buttonVars, loads, pageVars, storedKey, unasked>>

(* Signing in to, or out of, CPAMC in the parent page. *)
CPAMC(k) ==
    /\ storedKey' = k
    /\ UNCHANGED <<currentEgoRange, day, buttonVars, loads, pageVars,
                   manualManagementKey, unasked>>

Midnight ==
    /\ day < MaxDay
    /\ day' = day + 1
    /\ UNCHANGED <<currentEgoRange, buttonVars, loads, pageVars, keyVars, unasked>>

(* What does not render. *)
Others ==
    \/ \E r \in Ranges : ClickRange(r)
    \/ \E k \in Keys : SubmitEgoPrompt(k)
    \/ QuotaView
    \/ \E k \in Keys \cup {NoKey} : CPAMC(k)
    \/ Midnight

Next ==
    \/ Others
    \/ \E v \in Versions : Loading(v) /\ \E answer \in Answers(v) : Render(v, answer)

Spec == Init /\ [][Next]_vars

-----------------------------------------------------------------------------
(* The type invariant: which values the variables of the page can take.    *)
TypeOK ==
    /\ currentEgoRange \in Ranges /\ day \in 0..MaxDay
    /\ egoLoadVersion \in 0..MaxLoads /\ egoLoadsPending \in 0..MaxLoads
    /\ egoRefreshWasDisabled \in BOOLEAN /\ refreshDisabled \in BOOLEAN
    /\ \A v \in Versions :
           /\ loads[v].state \in {"none", "loading", "over"}
           /\ (v <= egoLoadVersion) <=> (loads[v].state # "none")
    /\ shown \in [Sections -> 0..egoLoadVersion] /\ flagged \subseteq Sections
    /\ warning \in {"none", "prompt", "rejected"}
    /\ storedKey \in Keys \cup {NoKey} /\ manualManagementKey \in Keys \cup {NoKey}
    /\ unasked \in BOOLEAN

(* The Refresh button is disabled exactly while some load is in flight,    *)
(* however loads overlap and in whatever order they end.                   *)
ButtonTellsPending ==
    /\ egoLoadsPending = Cardinality({v \in Versions : Loading(v)})
    /\ refreshDisabled <=> egoLoadsPending > 0

(* Once nothing is in flight, a section shows the newest load or says that *)
(* it may be outdated: an older answer or failure never replaced a newer.  *)
NewestOrFlagged ==
    egoLoadsPending = 0 =>
        \A s \in Sections : shown[s] = egoLoadVersion \/ s \in flagged

(* README, Time Ranges: "Every overview refresh shares one boundary        *)
(* snapshot across summaries, costs, rankings, and timeline, even if the   *)
(* fetch crosses midnight."  Sections without an error line, and the axis  *)
(* of the chart, agree on the load, its range and its window.              *)
OneSnapshot ==
    /\ \A s, t \in Sections \ flagged : shown[s] = shown[t]
    /\ ("timeline" \in Sections /\ shown["timeline"] > 0) =>
           LET v == shown["timeline"] IN axis = <<loads[v].range, loads[v].window>>

(* The test "ignores old ranges" (quota_sync_test.js): when all is quiet   *)
(* and no warning is up, what is shown belongs to the selected range.  The *)
(* code has one exception: a load that stops at a missing key does not     *)
(* outdate the load before it, which then shows the range selected before. *)
SelectedRangeShown ==
    (egoLoadsPending = 0 /\ warning = "none" /\ ~unasked) =>
        \A s \in Sections \ flagged :
            shown[s] > 0 => loads[shown[s]].range = currentEgoRange
=============================================================================
