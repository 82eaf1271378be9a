------------------------- MODULE EgoOverviewProofs -------------------------
(***************************************************************************)
(* Proofs about EgoOverview, and about EgoMaintenance beside it, for any   *)
(* sections, ranges and keys and any number of overlapping loads.          *)
(***************************************************************************)
EXTENDS EgoMaintenance, FiniteSetTheorems, TLAPS

LoadInv ==
    /\ currentEgoRange \in Ranges
    /\ egoLoadVersion \in Nat /\ egoLoadVersion <= MaxLoads
    /\ loads = [v \in Versions |-> loads[v]]
    /\ \A v \in Versions : v <= egoLoadVersion <=> loads[v].state # "none"
    /\ shown \in [Sections -> Nat] /\ \A s \in Sections : shown[s] <= egoLoadVersion
    /\ flagged \subseteq Sections /\ unasked \in BOOLEAN

InFlight == {v \in Versions : Loading(v)}

(* The state of the button that is restored is that of before the loads.   *)
ButtonInv ==
    /\ egoLoadsPending \in Nat /\ refreshDisabled \in BOOLEAN
    /\ ButtonTellsPending
    /\ egoLoadsPending > 0 => egoRefreshWasDisabled = FALSE

(* Once the newest load is over, whatever else is on its way, it is shown  *)
(* wherever nothing is flagged; and it has the selected range, unless that *)
(* one could not be asked for.                                             *)
NewestInv ==
    /\ (egoLoadVersion > 0 => ~Loading(egoLoadVersion)) =>
           \A s \in Sections : shown[s] = egoLoadVersion \/ s \in flagged
    /\ (~unasked /\ egoLoadVersion > 0) => loads[egoLoadVersion].range = currentEgoRange

OverviewInv == LoadInv /\ ButtonInv /\ NewestInv /\ OneSnapshot

LEMMA VersionsAre == MaxLoads \in Nat /\ \A v : v \in Versions <=> (v \in Nat /\ v > 0 /\ v <= MaxLoads)
<1>1. MaxLoads \in Nat
  BY OverviewAssumption, Zenon
<1>2. Versions = 1..MaxLoads
  BY DEF Versions
<1>. QED BY <1>1, <1>2

LEMMA VersionsFinite == IsFiniteSet(InFlight)
<1>1. IsFiniteSet(Versions)
  BY VersionsAre, FS_Interval DEF Versions
<1>. QED BY <1>1, FS_Subset DEF InFlight

LEMMA OverviewInit == Init => OverviewInv
<1>. SUFFICES ASSUME Init PROVE OverviewInv
  OBVIOUS
<1>1. /\ egoLoadVersion = 0 /\ egoLoadsPending = 0 /\ refreshDisabled = FALSE
      /\ loads = [v \in Versions |-> NoLoad] /\ shown = [s \in Sections |-> 0]
      /\ flagged = {} /\ unasked = FALSE /\ currentEgoRange \in Ranges
  BY DEF Init
<1>a. /\ egoLoadVersion = 0 /\ egoLoadsPending = 0 /\ refreshDisabled = FALSE
      /\ unasked = FALSE
  BY <1>1
<1>2. LoadInv
  <2>1. \A v \in Versions : ~(v <= egoLoadVersion) /\ loads[v].state = "none"
    BY <1>1, VersionsAre DEF NoLoad
  <2>2. egoLoadVersion \in Nat /\ egoLoadVersion <= MaxLoads
    BY <1>1, VersionsAre
  <2>3. loads = [v \in Versions |-> loads[v]] /\ currentEgoRange \in Ranges
    BY <1>1
  <2>4. /\ shown \in [Sections -> Nat] /\ \A s \in Sections : shown[s] <= egoLoadVersion
        /\ flagged \subseteq Sections
    BY <1>1
  <2>5. unasked \in BOOLEAN
    BY <1>a
  <2>. QED BY <2>1, <2>2, <2>3, <2>4, <2>5 DEF LoadInv
<1>3. ButtonInv
  <2>1. InFlight = {}
    BY <1>1 DEF InFlight, Loading, NoLoad
  <2>2. Cardinality({v \in Versions : Loading(v)}) = 0
    BY <2>1, FS_EmptySet DEF InFlight
  <2>3. ButtonTellsPending
    <3>1. ~(egoLoadsPending > 0) /\ ~refreshDisabled
      BY <1>1
    <3>. QED BY <1>1, <2>2, <3>1, Zenon DEF ButtonTellsPending
  <2>4. refreshDisabled \in BOOLEAN
    BY <1>a
  <2>5. egoLoadsPending \in Nat /\ ~(egoLoadsPending > 0)
    BY <1>a
  <2>. QED BY <2>3, <2>4, <2>5 DEF ButtonInv
<1>4. NewestInv /\ OneSnapshot
  BY <1>1 DEF NewestInv, OneSnapshot
<1>. QED BY <1>2, <1>3, <1>4 DEF OverviewInv

-----------------------------------------------------------------------------
(* What a step can do to the loads: begin one for the selected range, end  *)
(* one, or leave them; a selected range that is not loaded is unasked.     *)
Begins(k) ==
    /\ egoLoadVersion < MaxLoads /\ currentEgoRange' \in Ranges /\ unasked' = FALSE
    /\ Begin(k, currentEgoRange')
    /\ UNCHANGED <<shown, flagged, axis>>

Ends(v, answer) == Loading(v) /\ answer \in Answers(v) /\ Render(v, answer)

Keeps ==
    /\ UNCHANGED <<buttonVars, loads, shown, flagged, axis>>
    /\ currentEgoRange' \in Ranges
    /\ unasked' = TRUE \/ UNCHANGED <<unasked, currentEgoRange>>

LEMMA LoadKinds ==
    ASSUME NEW k, LoadOverview(k, currentEgoRange'), currentEgoRange' \in Ranges
    PROVE  (\E key : Begins(key)) \/ Keeps
<1>1. CASE k = NoKey
  BY <1>1 DEF LoadOverview, Keeps
<1>2. CASE k # NoKey
  <2>1. unasked' = FALSE
    <3>1. unasked' = (k = NoKey)
      BY ZenonT(20) DEF LoadOverview
    <3>. QED BY <1>2, <3>1
  <2>2. Begins(k)
    BY <1>2, <2>1 DEF LoadOverview, Begins
  <2>. QED BY <2>2
<1>. QED BY <1>1, <1>2

LEMMA Kinds ==
    ASSUME currentEgoRange \in Ranges, [Next]_vars
    PROVE  \/ \E k : Begins(k)
           \/ \E v \in Versions : \E answer : Ends(v, answer)
           \/ Keeps
<1>1. ASSUME NEW r \in Ranges, ClickRange(r) PROVE (\E key : Begins(key)) \/ Keeps
  BY <1>1, LoadKinds DEF ClickRange
<1>2. ASSUME NEW k \in Keys, SubmitEgoPrompt(k) PROVE (\E key : Begins(key)) \/ Keeps
  BY <1>2, LoadKinds DEF SubmitEgoPrompt
<1>3. ASSUME NEW k, QuotaView \/ CPAMC(k) \/ Midnight \/ UNCHANGED vars PROVE Keeps
  BY <1>3 DEF QuotaView, CPAMC, Midnight, vars, pageVars, Keeps
<1>4. ASSUME NEW v \in Versions, Loading(v), NEW answer \in Answers(v), Render(v, answer)
      PROVE  Ends(v, answer)
  BY <1>4 DEF Ends
<1>. QED BY <1>1, <1>2, <1>3, <1>4 DEF Next, Others

(* A load that begins is the newest. *)
LEMMA Beginning ==
    ASSUME LoadInv, NEW k, Begins(k)
    PROVE  /\ egoLoadVersion' = egoLoadVersion + 1 /\ egoLoadVersion' \in Versions
           /\ loads' = [v \in Versions |-> loads'[v]]
           /\ loads'[egoLoadVersion'].state = "loading"
           /\ loads'[egoLoadVersion'].range = currentEgoRange'
           /\ \A v \in Versions : v # egoLoadVersion' => loads'[v] = loads[v]
           /\ InFlight' = InFlight \cup {egoLoadVersion'} /\ egoLoadVersion' \notin InFlight
<1>1. /\ egoLoadVersion' = egoLoadVersion + 1 /\ egoLoadVersion' \in Versions
  BY VersionsAre DEF Begins, Begin, BeginAs, LoadInv
<1>2. loads' = [loads EXCEPT ![egoLoadVersion'] =
           [state |-> "loading", key |-> k, range |-> currentEgoRange',
            window |-> Window(currentEgoRange', day)]]
  BY <1>1 DEF Begins, Begin, BeginAs
<1>3. /\ loads' = [v \in Versions |-> loads'[v]]
      /\ loads'[egoLoadVersion'].state = "loading"
      /\ loads'[egoLoadVersion'].range = currentEgoRange'
      /\ \A v \in Versions : v # egoLoadVersion' => loads'[v] = loads[v]
  BY <1>1, <1>2 DEF LoadInv
<1>4. loads[egoLoadVersion'].state = "none"
  <2>1. ~(egoLoadVersion' <= egoLoadVersion)
    BY <1>1 DEF LoadInv
  <2>. QED BY <1>1, <2>1 DEF LoadInv
<1>5. InFlight' = InFlight \cup {egoLoadVersion'} /\ egoLoadVersion' \notin InFlight
  BY <1>1, <1>3, <1>4 DEF InFlight, Loading
<1>. QED BY <1>1, <1>3, <1>5

(* A load that ends keeps its range and window, and shows its answer if no *)
(* newer one has begun.                                                    *)
LEMMA Ending ==
    ASSUME LoadInv, NEW v \in Versions, NEW answer, Ends(v, answer)
    PROVE  /\ loads' = [u \in Versions |-> loads'[u]]
           /\ loads'[v].state = "over" /\ \A u \in Versions : u # v => loads'[u] = loads[u]
           /\ \A u \in Versions : loads'[u].range = loads[u].range
                                  /\ loads'[u].window = loads[u].window
           /\ InFlight' = InFlight \ {v} /\ v \in InFlight
           /\ UNCHANGED <<egoLoadVersion, currentEgoRange, unasked>>
           /\ v # egoLoadVersion => UNCHANGED <<shown, flagged, axis>>
           /\ v = egoLoadVersion =>
                  \E ok \in SUBSET Sections :
                      /\ flagged' = Sections \ ok
                      /\ shown' = [s \in Sections |-> IF s \in ok THEN v ELSE shown[s]]
                      /\ axis' = IF "timeline" \in ok THEN <<loads[v].range, loads[v].window>>
                                 ELSE axis
<1>1. /\ loads' = [loads EXCEPT ![v] =
             [state |-> "over", range |-> @.range, window |-> @.window]]
      /\ UNCHANGED <<egoLoadVersion, currentEgoRange, unasked>> /\ Loading(v)
  BY DEF Ends, Render, Finish
<1>2. /\ loads' = [u \in Versions |-> loads'[u]]
      /\ loads'[v].state = "over" /\ \A u \in Versions : u # v => loads'[u] = loads[u]
      /\ loads'[v].range = loads[v].range /\ loads'[v].window = loads[v].window
  BY <1>1 DEF LoadInv
<1>3. InFlight' = InFlight \ {v} /\ v \in InFlight
  BY <1>1, <1>2 DEF InFlight, Loading
<1>4. v # egoLoadVersion => UNCHANGED <<shown, flagged, axis>>
  BY DEF Ends, Render, pageVars
<1>5. ASSUME v = egoLoadVersion
      PROVE  \E ok \in SUBSET Sections :
                 /\ flagged' = Sections \ ok
                 /\ shown' = [s \in Sections |-> IF s \in ok THEN v ELSE shown[s]]
                 /\ axis' = IF "timeline" \in ok THEN <<loads[v].range, loads[v].window>>
                            ELSE axis
  <2>. DEFINE ok == Got(answer, "ok")
  <2>1. ok \in SUBSET Sections
    BY DEF Got
  <2>2. /\ flagged' = Sections \ ok
        /\ shown' = [s \in Sections |-> IF s \in ok THEN v ELSE shown[s]]
        /\ axis' = IF "timeline" \in ok THEN <<loads[v].range, loads[v].window>> ELSE axis
    BY <1>5 DEF Ends, Render, Show, ShowFor
  <2>. HIDE DEF ok
  <2>. QED BY <2>1, <2>2
<1>. QED BY <1>1, <1>2, <1>3, <1>4, <1>5

-----------------------------------------------------------------------------
LEMMA LoadStep == LoadInv /\ [Next]_vars => LoadInv'
<1>. SUFFICES ASSUME LoadInv, [Next]_vars PROVE LoadInv'
  OBVIOUS
<1>1. ASSUME NEW k, Begins(k) PROVE LoadInv'
  <2>1. \A v \in Versions : v <= egoLoadVersion' <=> (v <= egoLoadVersion \/ v = egoLoadVersion')
    BY <1>1, Beginning, VersionsAre DEF LoadInv
  <2>2. \A v \in Versions : v <= egoLoadVersion' <=> loads'[v].state # "none"
    BY <1>1, <2>1, Beginning DEF LoadInv
  <2>3. /\ egoLoadVersion' \in Nat /\ egoLoadVersion' <= MaxLoads
        /\ \A s \in Sections : shown[s] <= egoLoadVersion'
    BY <1>1, Beginning, VersionsAre DEF LoadInv
  <2>4. /\ currentEgoRange' \in Ranges /\ unasked' \in BOOLEAN /\ UNCHANGED <<shown, flagged>>
    BY <1>1 DEF Begins
  <2>. QED BY <1>1, <2>2, <2>3, <2>4, Beginning DEF LoadInv
<1>2. ASSUME NEW v \in Versions, NEW answer, Ends(v, answer) PROVE LoadInv'
  <2>1. \A u \in Versions : loads'[u].state # "none" <=> loads[u].state # "none"
    <3>1. loads[v].state = "loading"
      BY <1>2 DEF Ends, Loading
    <3>. QED BY <1>2, <3>1, Ending
  <2>2. shown' \in [Sections -> Nat] /\ flagged' \subseteq Sections
        /\ \A s \in Sections : shown'[s] <= egoLoadVersion
    <3>1. CASE v # egoLoadVersion
      BY <1>2, <3>1, Ending DEF LoadInv
    <3>2. CASE v = egoLoadVersion
      <4>1. PICK ok \in SUBSET Sections :
                /\ flagged' = Sections \ ok
                /\ shown' = [s \in Sections |-> IF s \in ok THEN v ELSE shown[s]]
        BY <1>2, <3>2, Ending
      <4>. QED BY <3>2, <4>1 DEF LoadInv
    <3>. QED BY <3>1, <3>2
  <2>3. loads' = [u \in Versions |-> loads'[u]] /\ UNCHANGED <<egoLoadVersion, currentEgoRange, unasked>>
    BY <1>2, Ending
  <2>. QED BY <2>1, <2>2, <2>3 DEF LoadInv
<1>3. ASSUME Keeps PROVE LoadInv'
  BY <1>3 DEF Keeps, buttonVars, LoadInv
<1>. QED BY <1>1, <1>2, <1>3, Kinds DEF LoadInv

LEMMA ButtonStep == LoadInv /\ ButtonInv /\ [Next]_vars => ButtonInv'
<1>. SUFFICES ASSUME LoadInv, ButtonInv, [Next]_vars PROVE ButtonInv'
  OBVIOUS
<1>0. egoLoadsPending = Cardinality(InFlight) /\ (refreshDisabled <=> egoLoadsPending > 0)
      /\ egoLoadsPending \in Nat
  BY DEF ButtonInv, ButtonTellsPending, InFlight
<1>1. ASSUME NEW k, Begins(k) PROVE ButtonInv'
  <2>1. Cardinality(InFlight') = Cardinality(InFlight) + 1
    BY <1>1, Beginning, VersionsFinite, FS_AddElement
  <2>2. /\ egoLoadsPending' = egoLoadsPending + 1 /\ refreshDisabled' = TRUE
        /\ egoRefreshWasDisabled' =
               IF egoLoadsPending = 0 THEN refreshDisabled ELSE egoRefreshWasDisabled
    BY <1>1 DEF Begins, Begin, BeginAs
  <2>3. egoRefreshWasDisabled' = FALSE
    BY <1>0, <2>2 DEF ButtonInv
  <2>4. egoLoadsPending' = Cardinality({v \in Versions : Loading(v)})'
    BY <1>0, <2>1, <2>2 DEF InFlight
  <2>. QED BY <1>0, <2>2, <2>3, <2>4 DEF ButtonInv, ButtonTellsPending
<1>2. ASSUME NEW v \in Versions, NEW answer, Ends(v, answer) PROVE ButtonInv'
  <2>1. v \in InFlight /\ InFlight' = InFlight \ {v}
    BY <1>2, Ending
  <2>2. Cardinality(InFlight') = Cardinality(InFlight) - 1
    BY <2>1, VersionsFinite, FS_RemoveElement
  <2>3. Cardinality(InFlight) > 0
    BY <2>1, VersionsFinite, FS_EmptySet, <1>0
  <2>4. /\ egoLoadsPending' = egoLoadsPending - 1 /\ UNCHANGED egoRefreshWasDisabled
        /\ refreshDisabled' = IF egoLoadsPending = 1 THEN egoRefreshWasDisabled ELSE refreshDisabled
    BY <1>2 DEF Ends, Render, Finish
  <2>5. egoLoadsPending' = Cardinality({u \in Versions : Loading(u)})'
    BY <1>0, <2>2, <2>4 DEF InFlight
  <2>6. egoRefreshWasDisabled = FALSE /\ egoLoadsPending > 0
    BY <1>0, <2>3 DEF ButtonInv
  <2>7. egoLoadsPending' \in Nat /\ refreshDisabled' \in BOOLEAN
        /\ (refreshDisabled' <=> egoLoadsPending' > 0)
    <3>1. egoLoadsPending' \in Nat
      BY <1>0, <2>4, <2>6
    <3>2. CASE egoLoadsPending = 1
      <4>1. refreshDisabled' = FALSE
        BY <2>4, <2>6, <3>2
      <4>2. ~(egoLoadsPending' > 0)
        BY <2>4, <3>2
      <4>3. refreshDisabled' \in BOOLEAN
        BY <4>1
      <4>. QED BY <3>1, <4>1, <4>2, <4>3, Zenon
    <3>3. CASE egoLoadsPending # 1
      <4>1. egoLoadsPending' > 0 /\ refreshDisabled' = refreshDisabled
        BY <1>0, <2>4, <2>6, <3>3
      <4>. QED BY <1>0, <2>6, <3>1, <4>1 DEF ButtonInv
    <3>. QED BY <3>2, <3>3
  <2>. QED BY <2>4, <2>5, <2>6, <2>7 DEF ButtonInv, ButtonTellsPending
<1>3. ASSUME Keeps PROVE ButtonInv'
  BY <1>3 DEF Keeps, buttonVars, ButtonInv, ButtonTellsPending, Loading
<1>. QED BY <1>1, <1>2, <1>3, Kinds DEF LoadInv

LEMMA NewestStep == LoadInv /\ NewestInv /\ [Next]_vars => NewestInv'
<1>. SUFFICES ASSUME LoadInv, NewestInv, [Next]_vars PROVE NewestInv'
  OBVIOUS
<1>1. ASSUME NEW k, Begins(k) PROVE NewestInv'
  <2>1. egoLoadVersion' > 0
    BY <1>1, Beginning DEF LoadInv
  <2>. QED BY <1>1, <2>1, Beginning DEF NewestInv, Loading
<1>2. ASSUME NEW v \in Versions, NEW answer, Ends(v, answer) PROVE NewestInv'
  <2>0. /\ UNCHANGED <<egoLoadVersion, unasked, currentEgoRange>>
        /\ egoLoadVersion > 0 => egoLoadVersion \in Versions
    BY <1>2, Ending DEF LoadInv, Versions
  <2>1. ~unasked' /\ egoLoadVersion' > 0 => loads'[egoLoadVersion'].range = currentEgoRange'
    BY <1>2, <2>0, Ending DEF NewestInv
  <2>2. CASE v # egoLoadVersion
    <3>1. /\ UNCHANGED <<shown, flagged>>
          /\ egoLoadVersion > 0 => loads'[egoLoadVersion] = loads[egoLoadVersion]
      BY <1>2, <2>0, <2>2, Ending
    <3>. QED BY <2>0, <2>1, <3>1 DEF NewestInv, Loading
  <2>3. CASE v = egoLoadVersion
    <3>1. PICK ok \in SUBSET Sections :
              /\ flagged' = Sections \ ok
              /\ shown' = [s \in Sections |-> IF s \in ok THEN v ELSE shown[s]]
      BY <1>2, <2>3, Ending
    <3>. QED BY <2>0, <2>1, <2>3, <3>1 DEF NewestInv
  <2>. QED BY <2>2, <2>3
<1>3. ASSUME Keeps PROVE NewestInv'
  BY <1>3 DEF Keeps, buttonVars, NewestInv, Loading
<1>. QED BY <1>1, <1>2, <1>3, Kinds DEF LoadInv

LEMMA SnapshotStep == LoadInv /\ OneSnapshot /\ [Next]_vars => OneSnapshot'
<1>. SUFFICES ASSUME LoadInv, OneSnapshot, [Next]_vars PROVE OneSnapshot'
  OBVIOUS
(* The load a section shows has begun. *)
<1>0. ASSUME NEW s \in Sections, shown[s] > 0
      PROVE  shown[s] \in Versions /\ shown[s] <= egoLoadVersion
  BY <1>0, VersionsAre DEF LoadInv
<1>1. ASSUME NEW k, Begins(k) PROVE OneSnapshot'
  <2>1. ASSUME NEW s \in Sections, shown[s] > 0 PROVE loads'[shown[s]] = loads[shown[s]]
    <3>1. shown[s] # egoLoadVersion'
      BY <1>0, <1>1, <2>1, Beginning DEF LoadInv
    <3>. QED BY <1>0, <1>1, <2>1, <3>1, Beginning
  <2>. QED BY <1>1, <2>1 DEF Begins, OneSnapshot
<1>2. ASSUME NEW v \in Versions, NEW answer, Ends(v, answer) PROVE OneSnapshot'
  <2>1. \A s \in Sections : shown[s] > 0 =>
            /\ loads'[shown[s]].range = loads[shown[s]].range
            /\ loads'[shown[s]].window = loads[shown[s]].window
    BY <1>0, <1>2, Ending
  <2>2. CASE v # egoLoadVersion
    <3>1. UNCHANGED <<shown, flagged, axis>>
      BY <1>2, <2>2, Ending
    <3>. QED BY <2>1, <3>1 DEF OneSnapshot
  <2>3. CASE v = egoLoadVersion
    <3>1. PICK ok \in SUBSET Sections :
              /\ flagged' = Sections \ ok
              /\ shown' = [s \in Sections |-> IF s \in ok THEN v ELSE shown[s]]
              /\ axis' = IF "timeline" \in ok THEN <<loads[v].range, loads[v].window>> ELSE axis
      BY <1>2, <2>3, Ending
    <3>2. \A s, t \in Sections \ flagged' : shown'[s] = shown'[t]
      BY <3>1
    <3>3. ASSUME "timeline" \in Sections, shown'["timeline"] > 0
          PROVE  axis' = <<loads'[shown'["timeline"]].range, loads'[shown'["timeline"]].window>>
      <4>1. CASE "timeline" \in ok
        BY <1>2, <3>1, <3>3, <4>1, Ending
      <4>2. CASE "timeline" \notin ok
        BY <2>1, <3>1, <3>3, <4>2 DEF OneSnapshot
      <4>. QED BY <4>1, <4>2
    <3>. QED BY <3>2, <3>3 DEF OneSnapshot
  <2>. QED BY <2>2, <2>3
<1>3. ASSUME Keeps PROVE OneSnapshot'
  BY <1>3 DEF Keeps, OneSnapshot
<1>. QED BY <1>1, <1>2, <1>3, Kinds DEF LoadInv

LEMMA OverviewStep == OverviewInv /\ [Next]_vars => OverviewInv'
BY LoadStep, ButtonStep, NewestStep, SnapshotStep DEF OverviewInv

LEMMA OverviewInvariant == Spec => []OverviewInv
BY OverviewInit, OverviewStep, PTL DEF Spec

LEMMA OverviewTells ==
    OverviewInv => ButtonTellsPending /\ NewestOrFlagged /\ OneSnapshot /\ SelectedRangeShown
<1>. SUFFICES ASSUME OverviewInv
     PROVE ButtonTellsPending /\ NewestOrFlagged /\ OneSnapshot /\ SelectedRangeShown
  OBVIOUS
<1>1. ButtonTellsPending /\ OneSnapshot
  BY DEF OverviewInv, ButtonInv
<1>2. ASSUME egoLoadsPending = 0
      PROVE  \A s \in Sections : shown[s] = egoLoadVersion \/ s \in flagged
  <2>1. Cardinality(InFlight) = 0
    BY <1>1, <1>2 DEF ButtonTellsPending, InFlight
  <2>2. InFlight = {}
    BY <2>1, VersionsFinite, FS_EmptySet
  <2>3. egoLoadVersion > 0 => egoLoadVersion \in Versions
    BY VersionsAre DEF OverviewInv, LoadInv
  <2>4. egoLoadVersion > 0 => ~Loading(egoLoadVersion)
    BY <2>2, <2>3 DEF InFlight
  <2>. QED BY <2>4 DEF OverviewInv, NewestInv
<1>3. NewestOrFlagged
  BY <1>2 DEF NewestOrFlagged
<1>4. SelectedRangeShown
  <2>. SUFFICES ASSUME egoLoadsPending = 0, ~unasked, NEW s \in Sections \ flagged, shown[s] > 0
       PROVE  loads[shown[s]].range = currentEgoRange
    BY DEF SelectedRangeShown
  <2>1. shown[s] = egoLoadVersion
    BY <1>2
  <2>. QED BY <2>1 DEF OverviewInv, NewestInv
<1>. QED BY <1>1, <1>3, <1>4

(* The Refresh button is disabled exactly while a load is in flight,       *)
(* however many overlap and in whatever order they end.                    *)
THEOREM ButtonFollowsLoads == Spec => []ButtonTellsPending
BY OverviewInvariant, OverviewTells, PTL

(* Once nothing is in flight, a section shows the newest load or says that *)
(* it may be outdated.                                                     *)
THEOREM NewestWins == Spec => []NewestOrFlagged
BY OverviewInvariant, OverviewTells, PTL

(* The sections without an error line, and the axis of the chart, show one *)
(* load, one range and one window, across midnights too.                   *)
THEOREM OneBoundarySnapshot == Spec => []OneSnapshot
BY OverviewInvariant, OverviewTells, PTL

(* When all is quiet, what is shown belongs to the selected range, unless  *)
(* there was no key to ask for it.                                         *)
THEOREM SelectionIsShown == Spec => []SelectedRangeShown
BY OverviewInvariant, OverviewTells, PTL

-----------------------------------------------------------------------------
(* The maintenance panel adds to the overview: to it, every step of the    *)
(* panel is a step of its own or none.                                     *)
LEMMA MaintenanceStep == currentEgoRange \in Ranges /\ [MNext]_allVars => [Next]_vars
<1>. SUFFICES ASSUME currentEgoRange \in Ranges, [MNext]_allVars PROVE [Next]_vars
  OBVIOUS
<1>1. CASE Others /\ UNCHANGED <<switchVars, eraseVars>>
  BY <1>1 DEF Next
<1>2. ASSUME NEW v \in Versions, HandleGetSettings(v) PROVE [Next]_vars
  BY <1>2 DEF HandleGetSettings
<1>3. ASSUME NEW v \in Versions, Loading(v), NEW answer \in Answers(v),
             RenderEgoSettings(v, answer)
      PROVE  [Next]_vars
  BY <1>3 DEF RenderEgoSettings, Next
<1>4. CASE Toggle \/ HandlePostSettings \/ Toggled
  BY <1>4 DEF Toggle, HandlePostSettings, Toggled
<1>5. CASE ToggleFails
  BY <1>5 DEF ToggleFails, FailsShowing
<1>6. ASSUME NEW wants \in BOOLEAN, HandleStray(wants) PROVE [Next]_vars
  BY <1>6 DEF HandleStray
<1>7. ASSUME NEW b \in Buttons, Erase(b) \/ HandleErase(b) \/ EraseFails(b) PROVE [Next]_vars
  BY <1>7 DEF Erase, HandleErase, EraseFails
<1>8. ASSUME NEW b \in Buttons, Erased(b) PROVE [Next]_vars
  <2>1. ClickRange(currentEgoRange)
    BY <1>8 DEF Erased, ClickRange
  <2>. QED BY <2>1 DEF Next, Others
<1>9. CASE UNCHANGED allVars
  BY <1>9 DEF allVars
<1>. QED BY <1>1, <1>2, <1>3, <1>4, <1>5, <1>6, <1>7, <1>8, <1>9 DEF MNext

(* The panel implements the overview: what holds of the overview holds     *)
(* with the switch and the buttons that erase beside it.                   *)
THEOREM MaintenanceImplementsOverview == MSpec => Spec
<1>1. MInit => Init /\ OverviewInv
  BY OverviewInit DEF MInit
<1>2. OverviewInv /\ [MNext]_allVars => [Next]_vars
  BY MaintenanceStep DEF OverviewInv, LoadInv
<1>3. OverviewInv /\ [MNext]_allVars => OverviewInv'
  BY <1>2, OverviewStep
<1>. QED BY <1>1, <1>2, <1>3, PTL DEF MSpec, Spec

LEMMA PanelOverview == MSpec => []OverviewInv
BY MaintenanceImplementsOverview, OverviewInvariant, PTL

-----------------------------------------------------------------------------
PanelTypes ==
    /\ enabled \in BOOLEAN /\ checked \in BOOLEAN
    /\ misled \in BOOLEAN /\ misledBefore \in BOOLEAN /\ overtaken \in BOOLEAN
    /\ strays \subseteq BOOLEAN
    /\ post.stage \in {"none", "sent", "done"} /\ (Locked <=> post.stage # "none")
    /\ Locked => post.wants \in BOOLEAN
    /\ read = [v \in Versions |-> read[v]]

(* What has been read since the last change is what the plugin has. *)
ReadInv == \A v \in Versions : (v \notin old /\ read[v] # {}) => (TRUE \in read[v] <=> enabled)

(* While the click is on its way, the plugin has what the switch showed at *)
(* the click, and the switch shows what the click asks for.                *)
SwitchInv ==
    /\ (post.stage # "sent" /\ ~misled) => (checked <=> enabled)
    /\ (post.stage = "sent" /\ ~misledBefore) => (post.wants <=> ~enabled)
    /\ (post.stage = "sent" /\ ~overtaken) => (checked <=> post.wants)

PanelInv == PanelTypes /\ ReadInv /\ SwitchInv

LEMMA Singleton == \A b \in BOOLEAN : TRUE \in {b} <=> b
OBVIOUS

LEMMA PanelInit == MInit => PanelInv
<1>. SUFFICES ASSUME MInit PROVE PanelInv
  OBVIOUS
<1>1. /\ enabled \in BOOLEAN /\ checked = TRUE /\ post = NoPost /\ strays = {}
      /\ read = [v \in Versions |-> {}] /\ misled = TRUE /\ misledBefore = FALSE
      /\ overtaken = FALSE
  BY MaintenanceAssumption DEF MInit
<1>2. post.stage = "none" /\ ~Locked
  BY <1>1 DEF NoPost, Locked
<1>3. checked \in BOOLEAN /\ misled \in BOOLEAN /\ misledBefore \in BOOLEAN /\ overtaken \in BOOLEAN
  BY <1>1
<1>4. PanelTypes
  BY <1>1, <1>2, <1>3 DEF PanelTypes
<1>5. ReadInv
  BY <1>1 DEF ReadInv
<1>6. SwitchInv
  BY <1>1, <1>2 DEF SwitchInv
<1>. QED BY <1>4, <1>5, <1>6 DEF PanelInv

(* What does not touch the switch. *)
LEMMA PanelKept == PanelInv /\ UNCHANGED switchVars => PanelInv'
<1>. SUFFICES ASSUME PanelInv, UNCHANGED switchVars PROVE PanelInv'
  OBVIOUS
<1>1. UNCHANGED <<enabled, checked, post, strays, read, old, misled, misledBefore, overtaken>>
  BY DEF switchVars, clickVars
<1>2. PanelTypes'
  BY <1>1 DEF PanelInv, PanelTypes, Locked
<1>3. ReadInv' /\ SwitchInv'
  BY <1>1 DEF PanelInv, ReadInv, SwitchInv
<1>. QED BY <1>2, <1>3 DEF PanelInv

LEMMA PanelReads ==
    ASSUME PanelInv, NEW v \in Versions, HandleGetSettings(v) PROVE PanelInv'
<1>1. UNCHANGED <<enabled, checked, post, strays, old, misled, clickVars>>
  BY DEF HandleGetSettings
<1>2. read' = [read EXCEPT ![v] = {enabled}]
  BY DEF HandleGetSettings
<1>3. PanelTypes' /\ SwitchInv'
  BY <1>1, <1>2 DEF PanelInv, PanelTypes, SwitchInv, clickVars, Locked
<1>4. ReadInv'
  <2>. SUFFICES ASSUME NEW u \in Versions, u \notin old, read'[u] # {}
       PROVE  TRUE \in read'[u] <=> enabled
    BY <1>1 DEF ReadInv
  <2>1. CASE u = v
    <3>1. read'[u] = {enabled}
      BY <1>2, <2>1 DEF PanelInv, PanelTypes
    <3>. QED BY <3>1, Singleton DEF PanelInv, PanelTypes
  <2>2. CASE u # v
    <3>1. read'[u] = read[u]
      BY <1>2, <2>2 DEF PanelInv, PanelTypes
    <3>. QED BY <3>1 DEF PanelInv, ReadInv
  <2>. QED BY <2>1, <2>2
<1>. QED BY <1>3, <1>4 DEF PanelInv

LEMMA PanelRenders ==
    ASSUME PanelInv, NEW v \in Versions, NEW answer, RenderEgoSettings(v, answer) PROVE PanelInv'
<1>1. /\ UNCHANGED <<enabled, post, strays, misledBefore>>
      /\ read' = [read EXCEPT ![v] = {}] /\ old' = old \ {v}
  BY DEF RenderEgoSettings
<1>2. ReadInv' /\ read' = [u \in Versions |-> read'[u]]
  BY <1>1 DEF PanelInv, PanelTypes, ReadInv
<1>3. CASE v = egoLoadVersion /\ answer["settings"] = "ok"
  <2>1. checked' = (TRUE \in read[v]) /\ read[v] # {}
    BY <1>3 DEF RenderEgoSettings
  <2>2. misled' = (v \in old) /\ overtaken' = (post.stage = "sent" \/ overtaken)
    BY <1>3, ZenonT(20) DEF RenderEgoSettings
  <2>3. (TRUE \in read[v]) \in BOOLEAN /\ (v \in old) \in BOOLEAN
        /\ (post.stage = "sent" \/ overtaken) \in BOOLEAN
    OBVIOUS
  <2>4. checked' \in BOOLEAN /\ misled' \in BOOLEAN /\ overtaken' \in BOOLEAN
    BY <2>1, <2>2, <2>3, Zenon
  <2>5. PanelTypes'
    BY <1>1, <1>2, <2>4 DEF PanelInv, PanelTypes, Locked
  <2>6. ~misled' => (checked' <=> enabled)
    BY <2>1, <2>2 DEF PanelInv, ReadInv
  <2>7. post.stage = "sent" => overtaken'
    BY <2>2
  <2>8. SwitchInv'
    BY <1>1, <2>6, <2>7 DEF PanelInv, SwitchInv
  <2>. QED BY <1>2, <2>5, <2>8 DEF PanelInv
<1>4. CASE ~(v = egoLoadVersion /\ answer["settings"] = "ok")
  <2>1. UNCHANGED <<checked, misled, overtaken>>
    BY <1>4 DEF RenderEgoSettings
  <2>2. PanelTypes' /\ SwitchInv'
    BY <1>1, <1>2, <2>1 DEF PanelInv, PanelTypes, SwitchInv, Locked
  <2>. QED BY <1>2, <2>2 DEF PanelInv
<1>. QED BY <1>3, <1>4

LEMMA PanelToggles == ASSUME PanelInv, Toggle PROVE PanelInv'
<1>1. /\ ~Locked /\ UNCHANGED <<enabled, strays, read, old, misled>>
      /\ overtaken' = FALSE
      /\ post' = [stage |-> "sent", wants |-> ~checked, accepted |-> Accredited]
  BY DEF Toggle
<1>2. checked' = ~checked /\ misledBefore' = misled
  BY ZenonT(20) DEF Toggle
<1>3. post'.stage = "sent" /\ post'.wants = ~checked /\ Locked' /\ post.stage # "sent"
  BY <1>1 DEF Locked, NoPost, PanelInv, PanelTypes
<1>4. (~checked) \in BOOLEAN
  OBVIOUS
<1>5. checked' \in BOOLEAN /\ post'.wants \in BOOLEAN
  BY <1>2, <1>3, <1>4, Zenon
<1>6. misledBefore' \in BOOLEAN /\ overtaken' \in BOOLEAN
  BY <1>1, <1>2 DEF PanelInv, PanelTypes
<1>7. PanelTypes' /\ ReadInv'
  BY <1>1, <1>3, <1>5, <1>6 DEF PanelInv, PanelTypes, ReadInv
<1>8. ~misledBefore' => (post'.wants <=> ~enabled)
  BY <1>2, <1>3, <1>1 DEF PanelInv, SwitchInv
<1>9. checked' <=> post'.wants
  BY <1>2, <1>3
<1>10. SwitchInv'
  BY <1>1, <1>3, <1>8, <1>9 DEF SwitchInv
<1>. QED BY <1>7, <1>10 DEF PanelInv

LEMMA PanelPosts == ASSUME PanelInv, HandlePostSettings PROVE PanelInv'
<1>1. /\ post.stage = "sent" /\ enabled' = post.wants
      /\ old' = {v \in Versions : read[v] # {}}
      /\ post' = [stage |-> "done", wants |-> post.wants]
      /\ misled' = overtaken /\ overtaken' = FALSE
      /\ UNCHANGED <<checked, strays, read, misledBefore>>
  BY DEF HandlePostSettings, SetEnabled
<1>2. post'.stage = "done" /\ post'.wants = post.wants /\ Locked' /\ Locked
  BY <1>1 DEF Locked, NoPost
<1>3. PanelTypes'
  BY <1>1, <1>2 DEF PanelInv, PanelTypes
<1>4. ReadInv' /\ SwitchInv'
  BY <1>1, <1>2 DEF PanelInv, ReadInv, SwitchInv
<1>. QED BY <1>3, <1>4 DEF PanelInv

LEMMA PanelStrays == ASSUME PanelInv, NEW wants \in BOOLEAN, HandleStray(wants) PROVE PanelInv'
<1>1. /\ enabled' = wants /\ old' = {v \in Versions : read[v] # {}}
      /\ strays' = strays \ {wants} /\ misled' = TRUE
      /\ UNCHANGED <<checked, post, read, overtaken>>
  BY DEF HandleStray, SetEnabled
<1>2. misledBefore' = Locked
  BY ZenonT(20) DEF HandleStray
<1>3. Locked \in BOOLEAN /\ misled' \in BOOLEAN
  BY <1>1 DEF Locked
<1>4. misledBefore' \in BOOLEAN
  BY <1>2, <1>3
<1>5. PanelTypes'
  BY <1>1, <1>3, <1>4 DEF PanelInv, PanelTypes, Locked
<1>6. post.stage = "sent" => misledBefore'
  BY <1>2 DEF PanelInv, PanelTypes
<1>7. ReadInv' /\ SwitchInv'
  BY <1>1, <1>6 DEF PanelInv, ReadInv, SwitchInv
<1>. QED BY <1>5, <1>7 DEF PanelInv

LEMMA PanelToggled == ASSUME PanelInv, Toggled PROVE PanelInv'
<1>1. /\ post.stage = "done" /\ post' = NoPost /\ misledBefore' = FALSE /\ overtaken' = FALSE
      /\ UNCHANGED <<enabled, checked, strays, read, old, misled>>
  BY DEF Toggled
<1>2. post'.stage = "none" /\ ~Locked'
  BY <1>1 DEF NoPost, Locked
<1>3. misledBefore' \in BOOLEAN /\ overtaken' \in BOOLEAN
  BY <1>1
<1>. QED BY <1>1, <1>2, <1>3 DEF PanelInv, PanelTypes, ReadInv, SwitchInv

LEMMA PanelFails == ASSUME PanelInv, ToggleFails PROVE PanelInv'
<1>1. /\ Locked /\ post' = NoPost /\ misledBefore' = FALSE /\ overtaken' = FALSE
      /\ strays' \in {strays} \cup (IF post.stage = "sent" /\ post.accepted
                                    THEN {strays \cup {post.wants}} ELSE {})
      /\ UNCHANGED <<enabled, read, old>>
  BY DEF ToggleFails, FailsShowing
<1>2. checked' = ~post.wants /\ misled' = (post.stage = "done" \/ misledBefore)
  BY ZenonT(20) DEF ToggleFails, FailsShowing
<1>3. post'.stage = "none" /\ ~Locked'
  BY <1>1 DEF NoPost, Locked
<1>4. (~post.wants) \in BOOLEAN /\ (post.stage = "done" \/ misledBefore) \in BOOLEAN
  OBVIOUS
<1>5. checked' \in BOOLEAN /\ misled' \in BOOLEAN
  BY <1>2, <1>4, Zenon
<1>6. misledBefore' \in BOOLEAN /\ overtaken' \in BOOLEAN
  BY <1>1
<1>7. strays' \subseteq BOOLEAN
  BY <1>1 DEF PanelInv, PanelTypes
<1>8. ~misled' => (checked' <=> enabled)
  BY <1>1, <1>2 DEF PanelInv, PanelTypes, SwitchInv
<1>9. PanelTypes' /\ ReadInv'
  BY <1>1, <1>3, <1>5, <1>6, <1>7 DEF PanelInv, PanelTypes, ReadInv
<1>10. SwitchInv'
  BY <1>1, <1>3, <1>8 DEF SwitchInv
<1>. QED BY <1>9, <1>10 DEF PanelInv

LEMMA PanelStep == PanelInv /\ [MNext]_allVars => PanelInv'
<1>. SUFFICES ASSUME PanelInv, [MNext]_allVars PROVE PanelInv'
  OBVIOUS
<1>1. CASE (Others /\ UNCHANGED <<switchVars, eraseVars>>) \/ UNCHANGED allVars
  BY <1>1, PanelKept DEF allVars
<1>2. ASSUME NEW b \in Buttons, HandleErase(b) \/ Erased(b) \/ EraseFails(b) PROVE PanelInv'
  BY <1>2, PanelKept DEF HandleErase, Erased, EraseFails
<1>3. ASSUME NEW b \in Buttons, Erase(b) PROVE PanelInv'
  BY <1>3 DEF Erase, clickVars, PanelInv, PanelTypes, ReadInv, SwitchInv, Locked
<1>. QED BY <1>1, <1>2, <1>3, PanelReads, PanelRenders, PanelToggles, PanelPosts, PanelStrays,
            PanelToggled, PanelFails DEF MNext

LEMMA PanelInvariant == MSpec => []PanelInv
BY PanelInit, PanelStep, PTL DEF MSpec

(* Once its POST is over, and however loads and late POSTs overlap with it, *)
(* the switch shows whether the plugin collects, unless it was misled.     *)
THEOREM SwitchIsTrue == MSpec => []SwitchTellsTruth
<1>1. PanelInv => SwitchTellsTruth
  BY DEF PanelInv, PanelTypes, SwitchInv, SwitchTellsTruth
<1>. QED BY <1>1, PanelInvariant, PTL

-----------------------------------------------------------------------------
(* An erasure happened while the newest load there was had begun, and      *)
(* nothing but a load that has begun since takes unasked back.             *)
EraseInv ==
    /\ erasedAt \in Nat /\ erasedAt <= egoLoadVersion
    /\ erasing = [b \in Buttons |-> erasing[b]]
    /\ \A b \in Buttons : erasing[b].stage = "done" =>
           erasing[b].at \in Nat /\ erasing[b].at <= egoLoadVersion
    /\ ~unasked => (erasedAt < egoLoadVersion \/ erasedAt = 0)

LEMMA VersionGrows ==
    ASSUME OverviewInv, [Next]_vars
    PROVE  /\ egoLoadVersion \in Nat /\ egoLoadVersion' \in Nat
           /\ egoLoadVersion <= egoLoadVersion'
           /\ ~unasked' => ((~unasked /\ egoLoadVersion' = egoLoadVersion)
                            \/ egoLoadVersion < egoLoadVersion')
<1>0. LoadInv /\ egoLoadVersion \in Nat /\ currentEgoRange \in Ranges
  BY DEF OverviewInv, LoadInv
<1>1. ASSUME NEW k, Begins(k) PROVE egoLoadVersion' = egoLoadVersion + 1
  BY <1>0, <1>1, Beginning
<1>2. ASSUME NEW v \in Versions, NEW answer, Ends(v, answer)
      PROVE  UNCHANGED <<egoLoadVersion, unasked>>
  BY <1>0, <1>2, Ending
<1>3. ASSUME Keeps PROVE egoLoadVersion' = egoLoadVersion /\ (~unasked' => ~unasked)
  BY <1>3 DEF Keeps, buttonVars
<1>. QED BY <1>0, <1>1, <1>2, <1>3, Kinds

LEMMA EraseInit == MInit => EraseInv
<1>. SUFFICES ASSUME MInit PROVE EraseInv
  OBVIOUS
<1>1. erasedAt = 0 /\ egoLoadVersion = 0 /\ erasing = [b \in Buttons |-> NoPost]
  BY DEF MInit, Init
<1>2. \A b \in Buttons : erasing[b].stage # "done"
  BY <1>1 DEF NoPost
<1>. QED BY <1>1, <1>2 DEF EraseInv

LEMMA EraseStep == OverviewInv /\ EraseInv /\ [MNext]_allVars => EraseInv'
<1>. SUFFICES ASSUME OverviewInv, EraseInv, [MNext]_allVars PROVE EraseInv'
  OBVIOUS
<1>0. /\ egoLoadVersion \in Nat /\ egoLoadVersion' \in Nat
      /\ egoLoadVersion <= egoLoadVersion'
      /\ ~unasked' => ((~unasked /\ egoLoadVersion' = egoLoadVersion)
                       \/ egoLoadVersion < egoLoadVersion')
  BY MaintenanceStep, VersionGrows DEF OverviewInv, LoadInv
(* Loads, however they overlap, keep what is known of the erasures.        *)
<1>1. ~unasked' => (erasedAt < egoLoadVersion' \/ erasedAt = 0)
  BY <1>0 DEF EraseInv
<1>2. ASSUME UNCHANGED eraseVars PROVE EraseInv'
  BY <1>0, <1>1, <1>2 DEF EraseInv, eraseVars
<1>3. ASSUME NEW v \in Versions, HandleGetSettings(v) PROVE UNCHANGED eraseVars
  BY <1>3 DEF HandleGetSettings
<1>4. ASSUME NEW v \in Versions, NEW answer, RenderEgoSettings(v, answer)
      PROVE  UNCHANGED eraseVars
  BY <1>4 DEF RenderEgoSettings
<1>5. CASE Toggle \/ HandlePostSettings \/ Toggled \/ ToggleFails
  <2>1. UNCHANGED eraseVars
    BY <1>5 DEF Toggle, HandlePostSettings, Toggled, ToggleFails, FailsShowing
  <2>. QED BY <1>2, <2>1
<1>6. ASSUME NEW wants \in BOOLEAN, HandleStray(wants) PROVE UNCHANGED eraseVars
  BY <1>6 DEF HandleStray
<1>7. ASSUME NEW b \in Buttons, Erase(b) PROVE EraseInv'
  <2>1. /\ erasing' = [erasing EXCEPT ![b] = [stage |-> "sent", accepted |-> Accredited]]
        /\ erasedAt' = erasedAt
    BY <1>7 DEF Erase
  <2>2. \A c \in Buttons : erasing'[c].stage = "done" => erasing'[c] = erasing[c]
    BY <2>1 DEF EraseInv
  <2>. QED BY <1>0, <1>1, <2>1, <2>2 DEF EraseInv
<1>8. ASSUME NEW b \in Buttons, HandleErase(b) PROVE EraseInv'
  <2>1. /\ erasing' = [erasing EXCEPT ![b] = [stage |-> "done", at |-> egoLoadVersion]]
        /\ erasedAt' = erasedAt
    BY <1>8 DEF HandleErase
  <2>2. erasing'[b].at = egoLoadVersion /\ \A c \in Buttons : c # b => erasing'[c] = erasing[c]
    BY <2>1 DEF EraseInv
  <2>. QED BY <1>0, <1>1, <2>1, <2>2 DEF EraseInv
<1>9. ASSUME NEW b \in Buttons, EraseFails(b) PROVE EraseInv'
  <2>1. erasing' = [erasing EXCEPT ![b] = NoPost] /\ erasedAt' = erasedAt
    BY <1>9 DEF EraseFails
  <2>2. \A c \in Buttons : erasing'[c].stage = "done" => erasing'[c] = erasing[c]
    BY <2>1 DEF EraseInv, NoPost
  <2>. QED BY <1>0, <1>1, <2>1, <2>2 DEF EraseInv
<1>10. ASSUME NEW b \in Buttons, Erased(b) PROVE EraseInv'
  <2>1. /\ erasing[b].stage = "done" /\ erasing' = [erasing EXCEPT ![b] = NoPost]
        /\ erasedAt' = IF erasing[b].at > erasedAt THEN erasing[b].at ELSE erasedAt
        /\ LoadOverview(getManagementKey(manualManagementKey), currentEgoRange)
        /\ currentEgoRange' = currentEgoRange
    BY <1>10 DEF Erased
  <2>2. erasedAt' \in Nat /\ erasedAt' <= egoLoadVersion
    BY <2>1 DEF EraseInv
  <2>3. \A c \in Buttons : erasing'[c].stage = "done" => erasing'[c] = erasing[c]
    BY <2>1 DEF EraseInv, NoPost
  <2>4. unasked' \/ egoLoadVersion' = egoLoadVersion + 1
    <3>1. CASE getManagementKey(manualManagementKey) = NoKey
      <4>1. unasked' = (getManagementKey(manualManagementKey) = NoKey)
        BY <2>1, ZenonT(20) DEF LoadOverview
      <4>. QED BY <3>1, <4>1
    <3>2. CASE getManagementKey(manualManagementKey) # NoKey
      BY <2>1, <3>2 DEF LoadOverview, Begin, BeginAs
    <3>. QED BY <3>1, <3>2
  <2>5. ~unasked' => erasedAt' < egoLoadVersion'
    BY <1>0, <2>2, <2>4
  <2>6. erasing' = [c \in Buttons |-> erasing'[c]]
    BY <2>1 DEF EraseInv
  <2>. QED BY <1>0, <2>2, <2>3, <2>5, <2>6 DEF EraseInv
<1>11. CASE (Others /\ UNCHANGED <<switchVars, eraseVars>>) \/ UNCHANGED allVars
  BY <1>2, <1>11 DEF allVars
<1>. QED BY <1>2, <1>3, <1>4, <1>5, <1>6, <1>7, <1>8, <1>9, <1>10, <1>11 DEF MNext

(* Once nothing is on its way after the user was told of an erasure, no    *)
(* section shows older numbers without an error line, however the loads    *)
(* around it overlapped, unless the load that follows found no key.        *)
THEOREM ErasedStaysGone == MSpec => []ErasedIsGone
<1>1. OverviewInv /\ EraseInv => ErasedIsGone
  <2>. SUFFICES ASSUME OverviewInv, EraseInv, egoLoadsPending = 0, ~unasked,
                       NEW s \in Sections \ flagged
       PROVE  shown[s] > erasedAt \/ erasedAt = 0
    BY DEF ErasedIsGone
  <2>1. shown[s] = egoLoadVersion
    BY OverviewTells DEF NewestOrFlagged
  <2>. QED BY <2>1 DEF EraseInv, OverviewInv, LoadInv
<1>. QED BY <1>1, PanelOverview, EraseInit, EraseStep, PTL DEF MSpec

(* What the run checks of the overview beside the panel.                   *)
THEOREM OverviewHoldsInPanel ==
    MSpec => [](ButtonTellsPending /\ NewestOrFlagged /\ OneSnapshot /\ SelectedRangeShown)
BY PanelOverview, OverviewTells, PTL
=============================================================================
