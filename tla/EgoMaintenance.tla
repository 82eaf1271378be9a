--------------------------- MODULE EgoMaintenance ---------------------------
(***************************************************************************)
(* The maintenance panel of the Ego view (index.html, initEgoListeners)    *)
(* and the handlers behind it (handler.go), beside the overview loads: the *)
(* ingestion switch, into which a load renders its "settings" section too, *)
(* and the buttons that erase events and then load the overview again.     *)
(***************************************************************************)
EXTENDS EgoOverview

CONSTANTS Buttons,    \* Prune and Reset
          Stored,     \* what ego_config may hold when the page opens
          MaxClicks   \* bound on clicks in the panel

ASSUME MaintenanceAssumption ==
    /\ "settings" \in Sections
    /\ Stored \subseteq BOOLEAN /\ MaxClicks \in Nat

VARIABLES enabled,  \* Worker.enabled of the plugin
          checked,  \* toggle.checked; toggle.disabled is that a POST is on its way
          post,     \* the POST of the switch
          strays,   \* POSTs given up that the plugin may still execute
          erasing,  \* the POST of each button that erases, prune or reset
          read,     \* the "enabled" each load has read: {}, {TRUE} or {FALSE}
          clicks    \* clicks so far in the panel

(* History, read by no action: the loads whose answer is older than the    *)
(* last change; whether the switch may be wrong, from such an answer, from *)
(* a POST that was not told what it came to, or as nothing was shown yet;  *)
(* the same at the last click, and whether a load was rendered since; the  *)
(* newest load there was when the last erasure the user was told of was    *)
(* executed.                                                               *)
VARIABLES old, misled, misledBefore, overtaken, erasedAt

clickVars == <<misledBefore, overtaken>>
switchVars == <<enabled, checked, post, strays, read, clicks, old, misled, clickVars>>
eraseVars == <<erasing, erasedAt>>
allVars == <<vars, switchVars, eraseVars>>

-----------------------------------------------------------------------------
NoPost == [stage |-> "none"]

Locked == post # NoPost

(* egoApiFetch sends the key there is; with none the API refuses.          *)
Accredited == getManagementKey(manualManagementKey) \in Accepted

MInit ==
    /\ Init
    /\ enabled \in Stored /\ checked = TRUE
    /\ post = NoPost /\ strays = {} /\ read = [v \in Versions |-> {}]
    /\ clicks = 0 /\ old = {}
    /\ misled = TRUE /\ misledBefore = FALSE /\ overtaken = FALSE
    /\ erasing = [b \in Buttons |-> NoPost] /\ erasedAt = 0

(* handleGetSettings, asked by the load v, whose answer comes later.       *)
HandleGetSettings(v) ==
    /\ Loading(v) /\ loads[v].key \in Accepted /\ read[v] = {}
    /\ read' = [read EXCEPT ![v] = {enabled}]
    /\ UNCHANGED <<vars, enabled, checked, post, strays, clicks, old, misled, clickVars, eraseVars>>

(* renderEgoSettings, if the load is the newest and has the section.       *)
RenderEgoSettings(v, answer) ==
    /\ answer["settings"] = "ok" => read[v] # {}
    /\ Render(v, answer)
    /\ IF v = egoLoadVersion /\ answer["settings"] = "ok"
       THEN /\ checked' = (TRUE \in read[v]) /\ misled' = (v \in old)
            /\ overtaken' = (post.stage = "sent" \/ overtaken)
       ELSE UNCHANGED <<checked, misled, overtaken>>
    /\ read' = [read EXCEPT ![v] = {}] /\ old' = old \ {v}
    /\ UNCHANGED <<enabled, post, strays, clicks, misledBefore, eraseVars>>

-----------------------------------------------------------------------------
(* The change handler, up to its await. *)
Toggle ==
    /\ ~Locked /\ clicks < MaxClicks
    /\ clicks' = clicks + 1
    /\ checked' = ~checked
    /\ post' = [stage |-> "sent", wants |-> ~checked, accepted |-> Accredited]
    /\ misledBefore' = misled /\ overtaken' = FALSE
    /\ UNCHANGED <<vars, enabled, strays, read, old, misled, eraseVars>>

SetEnabled(wants) ==
    /\ enabled' = wants
    /\ old' = {v \in Versions : read[v] # {}}

(* handlePostSettings *)
HandlePostSettings ==
    /\ post.stage = "sent" /\ post.accepted
    /\ SetEnabled(post.wants)
    /\ post' = [stage |-> "done", wants |-> post.wants]
    /\ misled' = overtaken
    /\ overtaken' = FALSE
    /\ UNCHANGED <<vars, checked, strays, read, clicks, misledBefore, eraseVars>>

(* The same for a POST the page has given up.                              *)
HandleStray(wants) ==
    /\ wants \in strays
    /\ SetEnabled(wants)
    /\ strays' = strays \ {wants}
    /\ misled' = TRUE /\ misledBefore' = Locked
    /\ UNCHANGED <<vars, checked, post, read, clicks, overtaken, eraseVars>>

(* The answer: the switch stays as it is. *)
Toggled ==
    /\ post.stage = "done"
    /\ post' = NoPost
    /\ misledBefore' = FALSE /\ overtaken' = FALSE
    /\ UNCHANGED <<vars, enabled, checked, strays, read, clicks, old, misled, eraseVars>>

(* The POST ends without an answer of success, the switch at shows.        *)
FailsShowing(shows) ==
    /\ Locked
    /\ post' = NoPost /\ checked' = shows
    /\ strays' \in {strays} \cup (IF post.stage = "sent" /\ post.accepted
                                  THEN {strays \cup {post.wants}} ELSE {})
    /\ misled' = (post.stage = "done" \/ misledBefore)
    /\ misledBefore' = FALSE /\ overtaken' = FALSE
    /\ UNCHANGED <<vars, enabled, read, clicks, old, eraseVars>>

ToggleFailsKept == FailsShowing(checked)  \* fault: the switch stays as it is

(* An error status, or no answer in time: before the plugin acted, after   *)
(* it, or it acts later. *)
ToggleFails == FailsShowing(~post.wants)

-----------------------------------------------------------------------------
(* The Prune and Reset buttons, up to the await; each locks only itself.   *)
Erase(b) ==
    /\ erasing[b] = NoPost /\ clicks < MaxClicks
    /\ clicks' = clicks + 1
    /\ erasing' = [erasing EXCEPT ![b] = [stage |-> "sent", accepted |-> Accredited]]
    /\ UNCHANGED <<vars, enabled, checked, post, strays, read, old, misled, clickVars, erasedAt>>

(* handlePrune or handleReset. *)
HandleErase(b) ==
    /\ erasing[b].stage = "sent" /\ erasing[b].accepted
    /\ erasing' = [erasing EXCEPT ![b] = [stage |-> "done", at |-> egoLoadVersion]]
    /\ UNCHANGED <<vars, switchVars, erasedAt>>

ErasedUnlessLoading(b) ==  \* fault: a load on its way stands for the new one
    /\ erasing[b].stage = "done"
    /\ erasing' = [erasing EXCEPT ![b] = NoPost]
    /\ erasedAt' = IF erasing[b].at > erasedAt THEN erasing[b].at ELSE erasedAt
    /\ IF egoLoadsPending > 0 THEN UNCHANGED vars
       ELSE /\ LoadOverview(getManagementKey(manualManagementKey), currentEgoRange)
            /\ UNCHANGED <<currentEgoRange, day, keyVars>>
    /\ UNCHANGED switchVars

(* The answer: the overview is loaded again. *)
Erased(b) ==
    /\ erasing[b].stage = "done"
    /\ erasing' = [erasing EXCEPT ![b] = NoPost]
    /\ erasedAt' = IF erasing[b].at > erasedAt THEN erasing[b].at ELSE erasedAt
    /\ LoadOverview(getManagementKey(manualManagementKey), currentEgoRange)
    /\ UNCHANGED <<currentEgoRange, day, keyVars, switchVars>>

EraseFails(b) ==
    /\ erasing[b] # NoPost
    /\ erasing' = [erasing EXCEPT ![b] = NoPost]
    /\ UNCHANGED <<vars, switchVars, erasedAt>>

-----------------------------------------------------------------------------
MNext ==
    \/ Others /\ UNCHANGED <<switchVars, eraseVars>>
    \/ \E v \in Versions :
           \/ HandleGetSettings(v)
           \/ Loading(v) /\ \E answer \in Answers(v) : RenderEgoSettings(v, answer)
    \/ Toggle \/ HandlePostSettings \/ Toggled \/ ToggleFails
    \/ \E wants \in BOOLEAN : HandleStray(wants)
    \/ \E b \in Buttons : Erase(b) \/ HandleErase(b) \/ Erased(b) \/ EraseFails(b)

MSpec == MInit /\ [][MNext]_allVars

-----------------------------------------------------------------------------
(* Once its POST is over, the switch shows whether the plugin collects, and *)
(* goes on to, whichever loads are on their way: unless a load asked before *)
(* the change is rendered after the click, or the answer to the click was   *)
(* lost; the next load repairs both.                                        *)
SwitchTellsTruth == (~Locked /\ ~misled) => checked = enabled

(* Whatever was on its way when the user is told that events were erased:  *)
(* once nothing is, no section shows numbers that are older than that      *)
(* without saying so, unless the load that follows found no key.           *)
ErasedIsGone ==
    (egoLoadsPending = 0 /\ ~unasked) =>
        \A s \in Sections \ flagged : shown[s] > erasedAt \/ erasedAt = 0
=============================================================================
