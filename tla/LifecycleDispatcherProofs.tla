---------------------- MODULE LifecycleDispatcherProofs ----------------------
(***************************************************************************)
(* Proofs about LifecycleDispatcher, for any number of concurrent calls,   *)
(* any paths, registrations and configurations; and about PluginResources, *)
(* for any embedded files, names and length of a path.                     *)
(***************************************************************************)
EXTENDS PluginResources, FiniteSetTheorems, WellFoundedInduction, TLAPS

Registering == [stage : {"registering"}, seen : [Paths -> Nat], rest : SUBSET Paths]

TypeInv ==
    /\ handlers \in Nat
    /\ routes \in [Paths -> 0..handlers]
    /\ hostRoutes \in [Paths -> Nat]
    /\ promised \in [Paths -> Nat]
    /\ call = [c \in Calls |-> call[c]]
    /\ \A c \in At("registering") : call[c] \in Registering
    /\ alone \subseteq At("registering") \cup At("merged")

(* A registration with the router that is alone is the only one.           *)
AloneInv == \A c \in At("registering") \cap alone : At("registering") = {c}

(* Why the host keeps up: whoever may still write to the router has seen   *)
(* at least what was promised, and what a registration that is alone has   *)
(* written stays written.                                                  *)
HostInv ==
    /\ \A p \in Paths : promised[p] <= routes[p] /\ promised[p] <= hostRoutes[p]
    /\ \A c \in At("registering"), p \in Paths :
           promised[p] <= call[c].seen[p] /\ call[c].seen[p] <= routes[p]
    /\ \A c \in At("registering") \cap alone : \A p \in Paths \ call[c].rest :
           call[c].seen[p] <= hostRoutes[p]

(* What a registration set, answered by the data m.                        *)
Holds(reg, m) ==
    \A f \in DOMAIN reg :
        (f \in {"supportsOAuth", "oauthProvider"} \/ reg[f] # Empty) => m[f] = reg[f]

(* Why an answer is one's own: as long as a registration is alone, the     *)
(* metadata is what it left.                                               *)
OwnInv ==
    /\ \A c \in At("merged") \cap alone : Holds(call[c].reg, metadata)
    /\ AnswerIsOwn

DispatcherInv == TypeInv /\ AloneInv /\ HostInv /\ OwnInv

-----------------------------------------------------------------------------
(* What one call's move changes of where the calls are.                    *)
LEMMA Moves ==
    ASSUME call = [c \in Calls |-> call[c]], NEW c \in Calls, NEW s, Goes(c, s)
    PROVE  /\ call' = [d \in Calls |-> call'[d]]
           /\ call'[c] = s
           /\ \A d \in Calls : d # c => call'[d] = call[d]
           /\ \A st : At(st)' = IF s.stage = st THEN At(st) \cup {c} ELSE At(st) \ {c}
<1>1. /\ call' = [d \in Calls |-> call'[d]]
      /\ call'[c] = s
      /\ \A d \in Calls : d # c => call'[d] = call[d]
  BY DEF Goes
<1>. QED BY <1>1 DEF At

LEMMA RegistrationMoves ==
    ASSUME NEW c \in Calls,
           RegisterNothing(c) \/ \E reg \in Registrations : OnPluginRegister(c, reg)
    PROVE  \E s : Goes(c, s) /\ s.stage = "merged"
<1>1. CASE RegisterNothing(c)
  <2>. DEFINE s == [stage |-> "merged", reg |-> NoFields]
  <2>1. Goes(c, s) /\ s.stage = "merged"
    BY <1>1 DEF RegisterNothing
  <2>. QED BY <2>1
<1>2. ASSUME NEW reg \in Registrations, OnPluginRegister(c, reg)
      PROVE  \E s : Goes(c, s) /\ s.stage = "merged"
  <2>. DEFINE s == [stage |-> "merged", reg |-> reg]
  <2>1. Goes(c, s) /\ s.stage = "merged"
    BY <1>2 DEF OnPluginRegister
  <2>. QED BY <2>1
<1>. QED BY <1>1, <1>2

LEMMA DispatcherInit == Init => DispatcherInv
<1>. SUFFICES ASSUME Init PROVE DispatcherInv
  OBVIOUS
<1>1. /\ routes = [p \in Paths |-> IF p = MenuPath THEN ResourceHandler ELSE NoHandler]
      /\ hostRoutes = [p \in Paths |-> NoHandler] /\ promised = hostRoutes
      /\ handlers = ResourceHandler /\ call = [c \in Calls |-> Idle] /\ alone = {}
  BY DEF Init
<1>2. At("registering") = {} /\ At("merged") = {} /\ At("answered") = {}
  BY <1>1 DEF At, Idle
<1>3. TypeInv
  BY <1>1, <1>2 DEF TypeInv, ResourceHandler, NoHandler
<1>4. HostInv
  BY <1>1, <1>2 DEF HostInv, ResourceHandler, NoHandler
<1>5. AloneInv /\ OwnInv
  BY <1>1, <1>2 DEF AloneInv, OwnInv, AnswerIsOwn
<1>. QED BY <1>3, <1>4, <1>5 DEF DispatcherInv

-----------------------------------------------------------------------------
(* Types, and who is alone. *)
LEMMA TypeStep == TypeInv /\ [Next]_vars => TypeInv'
<1>. USE DEF hostVars
<1>. SUFFICES ASSUME TypeInv, [Next]_vars PROVE TypeInv'
  OBVIOUS
<1>1. ASSUME NEW p \in Paths, RegisterRoute(p) PROVE TypeInv'
  BY <1>1 DEF RegisterRoute, TypeInv, At, Registering
<1>2. ASSUME NEW c \in Calls, Snapshot(c) PROVE TypeInv'
  <2>. DEFINE s == [stage |-> "registering", seen |-> routes,
                    rest |-> {p \in Paths : routes[p] # NoHandler}]
  <2>1. Goes(c, s) /\ UNCHANGED <<routes, hostVars, handlers>>
    BY <1>2 DEF Snapshot
  <2>2. s \in Registering
    BY DEF TypeInv, Registering
  <2>3. s.stage = "registering" /\ "registering" # "merged"
    OBVIOUS
  <2>. HIDE DEF s
  <2>4. At("merged")' = At("merged") \ {c} /\ At("registering")' = At("registering") \cup {c}
    BY <2>1, <2>3, Moves DEF TypeInv
  <2>5. call[c].stage # "merged"
    BY <1>2 DEF Snapshot, At
  <2>6. alone' \subseteq At("registering")' \cup At("merged")'
    BY <1>2, <2>4, <2>5 DEF Snapshot, TypeInv, At
  <2>. QED BY <2>1, <2>2, <2>4, <2>6, Moves DEF TypeInv, At
<1>3. ASSUME NEW c \in Calls, RegisterResource(c) PROVE TypeInv'
  <2>1. call[c] \in Registering
    BY <1>3 DEF RegisterResource, TypeInv
  <2>2. PICK p \in call[c].rest :
            /\ hostRoutes' = [hostRoutes EXCEPT ![p] = call[c].seen[p]]
            /\ Goes(c, [call[c] EXCEPT !.rest = @ \ {p}])
    BY <1>3 DEF RegisterResource
  <2>. DEFINE s == [call[c] EXCEPT !.rest = @ \ {p}]
  <2>3. s \in Registering /\ s.stage = "registering"
    BY <2>1 DEF Registering
  <2>4. hostRoutes' \in [Paths -> Nat]
    BY <2>1, <2>2 DEF Registering, TypeInv
  <2>5. call[c].stage = "registering" /\ Goes(c, s)
    BY <1>3, <2>2 DEF RegisterResource, At
  <2>. HIDE DEF s
  <2>6. c \notin At("merged") /\ c \in At("registering")
    BY <2>5 DEF At
  <2>7. At("registering")' = At("registering") /\ At("merged")' = At("merged")
    <3>1. /\ At("registering")' = At("registering") \cup {c}
          /\ At("merged")' = At("merged") \ {c}
      BY <2>3, <2>5, Moves DEF TypeInv
    <3>. QED BY <2>6, <3>1
  <2>8. UNCHANGED <<routes, promised, handlers, alone>>
    BY <1>3 DEF RegisterResource
  <2>9. \A d \in At("registering")' : call'[d] \in Registering
    BY <2>3, <2>5, <2>7, Moves DEF TypeInv, At
  <2>. QED BY <2>4, <2>5, <2>7, <2>8, <2>9, Moves DEF TypeInv
(* A registration ends, in one way or the other. *)
<1>4. ASSUME NEW c \in Calls, c \in At("registering"),
             NEW s, s.stage \notin {"registering", "merged"}, Goes(c, s),
             alone' = alone \ {c}, promised' \in [Paths -> Nat],
             UNCHANGED <<routes, hostRoutes, handlers>>
      PROVE  TypeInv'
  <2>1. /\ At("registering")' = At("registering") \ {c}
        /\ At("merged")' = At("merged") \ {c}
    BY <1>4, Moves DEF TypeInv
  <2>. QED BY <1>4, <2>1, Moves DEF TypeInv, At
<1>5. ASSUME NEW c \in Calls, RegisterEnds(c) PROVE TypeInv'
  <2>1. promised' \in [Paths -> Nat]
    BY <1>5 DEF RegisterEnds, TypeInv, Registering
  <2>. QED BY <1>4, <1>5, <2>1 DEF RegisterEnds
<1>6. ASSUME NEW c \in Calls, RegisterEnds(c) \/ RouterFails(c) PROVE TypeInv'
  BY <1>4, <1>5, <1>6 DEF RouterFails, TypeInv
<1>7. ASSUME NEW c \in Calls, NEW s, s.stage = "merged", Goes(c, s), c \in At("idle"),
             alone' = (alone \ At("merged")) \cup {c},
             UNCHANGED <<routes, hostVars, handlers>>
      PROVE  TypeInv'
  <2>1. /\ At("registering")' = At("registering") \ {c} /\ c \notin At("registering")
        /\ At("merged")' = At("merged") \cup {c}
    BY <1>7, Moves DEF TypeInv, At
  <2>. QED BY <1>7, <2>1, Moves DEF TypeInv, At
<1>8. ASSUME NEW c \in Calls, RegisterNothing(c) \/ \E reg \in Registrations : OnPluginRegister(c, reg)
      PROVE  TypeInv'
  BY <1>7, <1>8 DEF RegisterNothing, OnPluginRegister
<1>9. ASSUME NEW c \in Calls, GetMetadata(c) PROVE TypeInv'
  <2>1. PICK s : Goes(c, s) /\ s.stage = "answered"
    BY <1>9 DEF GetMetadata
  <2>2. At("registering")' = At("registering") \ {c} /\ At("merged")' = At("merged") \ {c}
    BY <2>1, Moves DEF TypeInv
  <2>. QED BY <1>9, <2>1, <2>2, Moves DEF GetMetadata, TypeInv, At
(* Calls that have nothing to do with registrations. *)
<1>10. ASSUME NEW c \in Calls, NEW s, Goes(c, s),
              call[c].stage \notin {"registering", "merged"},
              s.stage \notin {"registering", "merged"},
              UNCHANGED <<routes, hostVars, handlers, alone>>
       PROVE  TypeInv'
  <2>1. At("registering")' = At("registering") /\ At("merged")' = At("merged")
    BY <1>10, Moves DEF TypeInv, At
  <2>. QED BY <1>10, <2>1, Moves DEF TypeInv, At
<1>11. ASSUME NEW c \in Calls, Refuse(c) \/ Return(c) \/ OnManagementHandle(c)
       PROVE  TypeInv'
  BY <1>10, <1>11 DEF Refuse, Return, OnManagementHandle, Idle, At
<1>12. ASSUME NEW c \in Calls, NEW p \in Paths, Arrive(c, p) PROVE TypeInv'
  BY <1>10, <1>12 DEF Arrive, At
<1>13. ASSUME UNCHANGED <<routes, hostVars, handlers, call, alone>> PROVE TypeInv'
  BY <1>13 DEF TypeInv, At
<1>. QED
  BY <1>1, <1>2, <1>3, <1>6, <1>8, <1>9, <1>11, <1>12, <1>13
  DEF Next, Proceed, OnPluginReconfigure, vars

LEMMA AloneStep == TypeInv /\ AloneInv /\ [Next]_vars => AloneInv'
<1>. USE DEF hostVars
<1>. SUFFICES ASSUME TypeInv, AloneInv, [Next]_vars PROVE AloneInv'
  OBVIOUS
(* No call joins those that register, and none of them becomes alone. *)
<1>1. ASSUME At("registering")' \subseteq At("registering"),
             At("registering")' \cap alone' \subseteq alone
      PROVE  AloneInv'
  BY <1>1 DEF AloneInv
<1>2. ASSUME NEW c \in Calls, Snapshot(c) PROVE AloneInv'
  <2>1. At("registering")' = At("registering") \cup {c}
    BY <1>2, Moves DEF Snapshot, TypeInv
  <2>2. CASE At("registering") = {}
    BY <2>1, <2>2 DEF AloneInv
  <2>3. CASE At("registering") # {}
    <3>1. alone' = alone \ At("registering")
      BY <1>2, <2>3 DEF Snapshot
    <3>2. c \notin alone
      BY <1>2 DEF Snapshot, TypeInv, At
    <3>. QED BY <2>1, <3>1, <3>2 DEF AloneInv
  <2>. QED BY <2>2, <2>3
<1>3. ASSUME NEW c \in Calls, RegisterResource(c) PROVE AloneInv'
  <2>1. UNCHANGED alone /\ c \in At("registering")
    BY <1>3 DEF RegisterResource
  <2>2. \E s : Goes(c, s)
    BY <1>3 DEF RegisterResource
  <2>3. At("registering")' \subseteq At("registering")
    BY <2>1, <2>2, Moves DEF TypeInv
  <2>. QED BY <1>1, <2>1, <2>3
<1>4. ASSUME NEW c \in Calls, NEW s, Goes(c, s), s.stage # "registering",
             At("registering")' \cap alone' \subseteq alone
      PROVE  AloneInv'
  <2>1. At("registering")' = At("registering") \ {c}
    BY <1>4, Moves DEF TypeInv
  <2>. QED BY <1>1, <1>4, <2>1
<1>5. ASSUME NEW c \in Calls, RegisterEnds(c) \/ RouterFails(c) PROVE AloneInv'
  BY <1>4, <1>5 DEF RegisterEnds, RouterFails
<1>6. ASSUME NEW c \in Calls, RegisterNothing(c) \/ \E reg \in Registrations : OnPluginRegister(c, reg)
      PROVE  AloneInv'
  <2>1. PICK s : Goes(c, s) /\ s.stage = "merged"
    BY <1>6, RegistrationMoves
  <2>2. alone' = (alone \ At("merged")) \cup {c}
    BY <1>6 DEF RegisterNothing, OnPluginRegister
  <2>3. At("registering")' = At("registering") \ {c}
    BY <2>1, Moves DEF TypeInv
  <2>. QED BY <1>4, <2>1, <2>2, <2>3
<1>7. ASSUME NEW c \in Calls, GetMetadata(c) PROVE AloneInv'
  <2>1. PICK s : Goes(c, s) /\ s.stage = "answered"
    BY <1>7 DEF GetMetadata
  <2>. QED BY <1>4, <1>7, <2>1 DEF GetMetadata
<1>8. ASSUME NEW c \in Calls, Refuse(c) \/ Return(c) \/ OnManagementHandle(c)
      PROVE  AloneInv'
  <2>1. PICK s : Goes(c, s) /\ s.stage # "registering"
    BY <1>8 DEF Refuse, Return, OnManagementHandle, Idle
  <2>. QED BY <1>4, <1>8, <2>1 DEF Refuse, Return, OnManagementHandle
<1>9. ASSUME NEW c \in Calls, NEW p \in Paths, Arrive(c, p) PROVE AloneInv'
  BY <1>4, <1>9 DEF Arrive
<1>10. ASSUME UNCHANGED <<call, alone>> PROVE AloneInv'
  BY <1>10 DEF AloneInv, At
<1>. QED
  BY <1>2, <1>3, <1>5, <1>6, <1>7, <1>8, <1>9, <1>10
  DEF Next, Proceed, OnPluginReconfigure, RegisterRoute, vars

-----------------------------------------------------------------------------
LEMMA HostStep ==
    TypeInv /\ TypeInv' /\ AloneInv /\ HostInv /\ [Next]_vars => HostInv'
<1>. USE DEF hostVars
<1>. SUFFICES ASSUME TypeInv, TypeInv', AloneInv, HostInv, [Next]_vars PROVE HostInv'
  OBVIOUS
<1>0. /\ \A p \in Paths : routes[p] \in Nat /\ hostRoutes[p] \in Nat /\ promised[p] \in Nat
      /\ \A c \in At("registering"), p \in Paths : call[c].seen[p] \in Nat
  <2>1. \A p \in Paths : routes[p] \in Nat
    BY DEF TypeInv
  <2>2. ASSUME NEW c \in At("registering"), NEW p \in Paths PROVE call[c].seen[p] \in Nat
    BY DEF TypeInv, Registering
  <2>. QED BY <2>1, <2>2 DEF TypeInv
(* A handler that is bound is newer than all others. *)
<1>1. ASSUME NEW p \in Paths, RegisterRoute(p) PROVE HostInv'
  <2>1. \A q \in Paths : routes'[q] >= routes[q] /\ routes'[q] \in Nat
    BY <1>1 DEF RegisterRoute, TypeInv
  <2>2. UNCHANGED <<hostRoutes, promised, call, alone>>
    BY <1>1 DEF RegisterRoute
  <2>. QED BY <1>0, <2>1, <2>2 DEF HostInv, At
(* What a registration sees is what is there. *)
<1>2. ASSUME NEW c \in Calls, Snapshot(c) PROVE HostInv'
  <2>. DEFINE s == [stage |-> "registering", seen |-> routes,
                    rest |-> {p \in Paths : routes[p] # NoHandler}]
  <2>1. /\ Goes(c, s) /\ UNCHANGED <<routes, hostRoutes, promised>>
        /\ alone' \subseteq alone \cup {c} /\ c \notin At("registering")
    BY <1>2 DEF Snapshot, At
  <2>2. /\ call'[c].seen = routes
        /\ \A p \in Paths \ call'[c].rest : call'[c].seen[p] = 0
    BY <2>1, Moves DEF TypeInv, NoHandler
  <2>3. /\ At("registering")' = At("registering") \cup {c}
        /\ \A d \in At("registering") : call'[d] = call[d]
    BY <2>1, Moves DEF TypeInv, At
  <2>. QED BY <1>0, <2>1, <2>2, <2>3 DEF HostInv
(* Whoever writes to the router writes what was promised, or newer; and    *)
(* nobody else writes while a registration is alone.                       *)
<1>3. ASSUME NEW c \in Calls, RegisterResource(c) PROVE HostInv'
  <2>1. call[c] \in Registering /\ c \in At("registering")
    BY <1>3 DEF RegisterResource, TypeInv
  <2>2. PICK p \in call[c].rest :
            /\ hostRoutes' = [hostRoutes EXCEPT ![p] = call[c].seen[p]]
            /\ Goes(c, [call[c] EXCEPT !.rest = @ \ {p}])
    BY <1>3 DEF RegisterResource
  <2>3. UNCHANGED <<routes, promised, alone>>
    BY <1>3 DEF RegisterResource
  <2>4. /\ call'[c].seen = call[c].seen /\ call'[c].rest = call[c].rest \ {p}
        /\ call'[c].stage = "registering"
    BY <2>1, <2>2, Moves DEF TypeInv, Registering
  <2>5. /\ \A d \in Calls : d # c => call'[d] = call[d]
        /\ At("registering")' = At("registering")
    BY <2>1, <2>2, <2>4, Moves DEF TypeInv, At
  <2>6. p \in Paths /\ hostRoutes'[p] = call[c].seen[p]
        /\ \A q \in Paths : q # p => hostRoutes'[q] = hostRoutes[q]
    BY <2>1, <2>2 DEF Registering, TypeInv
  <2>7. \A q \in Paths : promised'[q] <= routes'[q] /\ promised'[q] <= hostRoutes'[q]
    BY <2>1, <2>3, <2>6 DEF HostInv
  <2>8. \A d \in At("registering"), q \in Paths :
            promised[q] <= call'[d].seen[q] /\ call'[d].seen[q] <= routes[q]
    BY <2>4, <2>5 DEF HostInv, At
  <2>9. ASSUME NEW d \in At("registering") \cap alone, NEW q \in Paths \ call'[d].rest
        PROVE  call'[d].seen[q] <= hostRoutes'[q]
    <3>1. d = c
      BY <2>1 DEF AloneInv
    <3>2. CASE q = p
      BY <1>0, <2>1, <2>4, <2>6, <3>1, <3>2
    <3>3. CASE q # p
      BY <2>4, <2>6, <3>1, <3>3 DEF HostInv
    <3>. QED BY <3>2, <3>3
  <2>. QED BY <2>3, <2>5, <2>7, <2>8, <2>9 DEF HostInv
(* A registration that succeeded alone is promised; no other is under way. *)
<1>4. ASSUME NEW c \in Calls, RegisterEnds(c) PROVE HostInv'
  <2>1. /\ c \in At("registering") /\ call[c].rest = {} /\ alone' = alone \ {c}
        /\ promised' = IF c \in alone THEN call[c].seen ELSE promised
        /\ UNCHANGED <<routes, hostRoutes>>
    BY <1>4 DEF RegisterEnds
  <2>2. /\ At("registering")' = At("registering") \ {c}
        /\ \A d \in At("registering") : d # c => call'[d] = call[d]
    BY <1>4, Moves DEF RegisterEnds, TypeInv, At
  <2>3. CASE c \in alone
    <3>1. At("registering")' = {}
      BY <2>1, <2>2, <2>3 DEF AloneInv
    <3>2. \A p \in Paths : promised'[p] <= routes[p] /\ promised'[p] <= hostRoutes[p]
      BY <2>1, <2>3 DEF HostInv
    <3>. QED BY <2>1, <3>1, <3>2 DEF HostInv
  <2>4. CASE c \notin alone
    BY <2>1, <2>2, <2>4 DEF HostInv
  <2>. QED BY <2>3, <2>4
(* Other moves of one call. *)
<1>5. ASSUME NEW c \in Calls, NEW s, Goes(c, s), s.stage # "registering",
             alone' \subseteq alone \cup {c},
             UNCHANGED <<routes, hostVars>>
      PROVE  HostInv'
  <2>1. /\ At("registering")' = At("registering") \ {c}
        /\ \A d \in Calls : d # c => call'[d] = call[d]
    BY <1>5, Moves DEF TypeInv
  <2>. QED BY <1>5, <2>1 DEF HostInv, At
<1>6. ASSUME NEW c \in Calls, RegisterNothing(c) \/ \E reg \in Registrations : OnPluginRegister(c, reg)
      PROVE  HostInv'
  <2>1. PICK s : Goes(c, s) /\ s.stage = "merged"
    BY <1>6, RegistrationMoves
  <2>. QED BY <1>5, <1>6, <2>1 DEF RegisterNothing, OnPluginRegister
<1>7. ASSUME NEW c \in Calls, GetMetadata(c) PROVE HostInv'
  <2>1. PICK s : Goes(c, s) /\ s.stage = "answered"
    BY <1>7 DEF GetMetadata
  <2>. QED BY <1>5, <1>7, <2>1 DEF GetMetadata
<1>8. ASSUME NEW c \in Calls, Refuse(c) \/ Return(c) \/ OnManagementHandle(c) \/ RouterFails(c)
      PROVE  HostInv'
  <2>1. PICK s : Goes(c, s) /\ s.stage # "registering"
    BY <1>8 DEF Refuse, Return, OnManagementHandle, RouterFails, Idle
  <2>. QED BY <1>5, <1>8, <2>1 DEF Refuse, Return, OnManagementHandle, RouterFails
<1>9. ASSUME NEW c \in Calls, NEW p \in Paths, Arrive(c, p) PROVE HostInv'
  BY <1>5, <1>9 DEF Arrive
<1>10. ASSUME UNCHANGED <<routes, hostVars, call, alone>> PROVE HostInv'
  BY <1>10 DEF HostInv, At
<1>. QED
  BY <1>1, <1>2, <1>3, <1>4, <1>6, <1>7, <1>8, <1>9, <1>10
  DEF Next, Proceed, OnPluginReconfigure, vars

-----------------------------------------------------------------------------
(* OnPluginRegister leaves what its payload sets. *)
LEMMA MergedHolds ==
    ASSUME NEW reg \in Registrations
    PROVE  Holds(reg, Merged(reg))
<1>1. reg \in [id : STRING, menus : STRING, supportsOAuth : BOOLEAN, oauthProvider : STRING]
  BY DispatcherAssumption
<1>2. DOMAIN reg = {"id", "menus", "supportsOAuth", "oauthProvider"}
  BY <1>1
<1>3. /\ Merged(reg).id = Or(reg.id, metadata.id)
      /\ Merged(reg).menus = Or(reg.menus, metadata.menus)
      /\ Merged(reg).supportsOAuth = reg.supportsOAuth
      /\ Merged(reg).oauthProvider = reg.oauthProvider
  BY DEF Merged
<1>4. \A new, old : new # Empty => Or(new, old) = new
  BY DEF Or
<1>5. ASSUME NEW f \in DOMAIN reg,
             f \in {"supportsOAuth", "oauthProvider"} \/ reg[f] # Empty
      PROVE  Merged(reg)[f] = reg[f]
  <2>1. CASE f = "id"
    BY <1>3, <1>4, <1>5, <2>1
  <2>2. CASE f = "menus"
    BY <1>3, <1>4, <1>5, <2>2
  <2>3. CASE f = "supportsOAuth" \/ f = "oauthProvider"
    BY <1>3, <2>3
  <2>. QED BY <1>2, <2>1, <2>2, <2>3
<1>. QED BY <1>5 DEF Holds

LEMMA OwnStep == TypeInv /\ OwnInv /\ [Next]_vars => OwnInv'
<1>. USE DEF hostVars
<1>. SUFFICES ASSUME TypeInv, OwnInv, [Next]_vars PROVE OwnInv'
  OBVIOUS
<1>0. AnswerIsOwn <=> \A c \in At("answered") :
                          call[c].undisturbed => Holds(call[c].reg, call[c].answer)
  BY DEF AnswerIsOwn, Holds
<1>q. ASSUME \A c \in At("merged")' \cap alone' : Holds(call'[c].reg, metadata'),
             \A c \in At("answered")' :
                 call'[c].undisturbed => Holds(call'[c].reg, call'[c].answer)
      PROVE  OwnInv'
  BY <1>q DEF OwnInv, AnswerIsOwn, Holds
(* A move to a place where nothing is asked. *)
<1>1. ASSUME NEW c \in Calls, NEW s, Goes(c, s), s.stage \notin {"merged", "answered"},
             alone' \subseteq alone \cup {c}, UNCHANGED metadata
      PROVE  OwnInv'
  <2>1. /\ At("merged")' = At("merged") \ {c} /\ At("answered")' = At("answered") \ {c}
        /\ \A d \in Calls : d # c => call'[d] = call[d]
    BY <1>1, Moves DEF TypeInv
  <2>2. \A d \in At("merged")' \cap alone' : Holds(call'[d].reg, metadata')
    BY <1>1, <2>1 DEF OwnInv, At
  <2>3. \A d \in At("answered")' :
            call'[d].undisturbed => Holds(call'[d].reg, call'[d].answer)
    BY <1>0, <2>1 DEF OwnInv, At
  <2>. QED BY <1>q, <2>2, <2>3
(* A registration: those before it are not alone any more. *)
<1>2. ASSUME NEW c \in Calls, NEW reg, Goes(c, [stage |-> "merged", reg |-> reg]),
             Holds(reg, metadata'), alone' = (alone \ At("merged")) \cup {c}
      PROVE  OwnInv'
  <2>. DEFINE s == [stage |-> "merged", reg |-> reg]
  <2>1. s.stage = "merged" /\ s.reg = reg /\ Goes(c, s)
    BY <1>2
  <2>. HIDE DEF s
  <2>2. /\ At("merged")' = At("merged") \cup {c} /\ At("answered")' = At("answered") \ {c}
        /\ call'[c] = s /\ \A d \in Calls : d # c => call'[d] = call[d]
    BY <2>1, Moves DEF TypeInv
  <2>3. ASSUME NEW d \in At("merged")' \cap alone' PROVE Holds(call'[d].reg, metadata')
    <3>1. d = c
      BY <1>2, <2>2
    <3>. QED BY <1>2, <2>1, <2>2, <3>1
  <2>4. \A d \in At("answered")' :
            call'[d].undisturbed => Holds(call'[d].reg, call'[d].answer)
    BY <1>0, <2>2 DEF OwnInv, At
  <2>. QED BY <1>q, <2>3, <2>4
<1>3. ASSUME NEW c \in Calls, RegisterNothing(c) PROVE OwnInv'
  <2>1. Holds(NoFields, metadata')
    BY DEF NoFields, Holds
  <2>. QED BY <1>2, <1>3, <2>1 DEF RegisterNothing
<1>4. ASSUME NEW c \in Calls, NEW reg \in Registrations, OnPluginRegister(c, reg)
      PROVE  OwnInv'
  BY <1>2, <1>4, MergedHolds DEF OnPluginRegister
<1>5. ASSUME NEW c \in Calls, GetMetadata(c) PROVE OwnInv'
  <2>. DEFINE s == [stage |-> "answered", reg |-> call[c].reg, answer |-> metadata,
                    undisturbed |-> c \in alone]
  <2>1. /\ c \in At("merged") /\ Goes(c, s) /\ alone' = alone \ {c} /\ UNCHANGED metadata
    BY <1>5 DEF GetMetadata
  <2>2. /\ s.stage = "answered" /\ s.reg = call[c].reg /\ s.answer = metadata
        /\ s.undisturbed = (c \in alone)
    OBVIOUS
  <2>. HIDE DEF s
  <2>3. /\ At("merged")' = At("merged") \ {c} /\ At("answered")' = At("answered") \cup {c}
        /\ call'[c] = s /\ \A d \in Calls : d # c => call'[d] = call[d]
    BY <2>1, <2>2, Moves DEF TypeInv
  <2>4. \A d \in At("merged")' \cap alone' : Holds(call'[d].reg, metadata')
    BY <2>1, <2>3 DEF OwnInv, At
  <2>5. ASSUME NEW d \in At("answered")', call'[d].undisturbed
        PROVE  Holds(call'[d].reg, call'[d].answer)
    <3>1. CASE d = c
      <4>1. c \in alone
        BY <2>2, <2>3, <2>5, <3>1
      <4>. QED BY <2>1, <2>2, <2>3, <3>1, <4>1 DEF OwnInv
    <3>2. CASE d # c
      BY <1>0, <2>3, <2>5, <3>2 DEF OwnInv, At
    <3>. QED BY <3>1, <3>2
  <2>. QED BY <1>q, <2>4, <2>5
<1>6. ASSUME NEW c \in Calls, Snapshot(c) PROVE OwnInv'
  BY <1>1, <1>6 DEF Snapshot
<1>7. ASSUME NEW c \in Calls, RegisterResource(c) PROVE OwnInv'
  <2>1. call[c] \in Registering /\ c \in At("registering")
    BY <1>7 DEF RegisterResource, TypeInv
  <2>2. PICK p \in call[c].rest : Goes(c, [call[c] EXCEPT !.rest = @ \ {p}])
    BY <1>7 DEF RegisterResource
  <2>3. [call[c] EXCEPT !.rest = @ \ {p}].stage = "registering"
    BY <2>1 DEF Registering
  <2>. QED BY <1>1, <1>7, <2>2, <2>3 DEF RegisterResource
<1>8. ASSUME NEW c \in Calls,
             Refuse(c) \/ Return(c) \/ OnManagementHandle(c) \/ RouterFails(c) \/ RegisterEnds(c)
      PROVE  OwnInv'
  <2>1. PICK s : Goes(c, s) /\ s.stage \notin {"merged", "answered"}
    BY <1>8 DEF Refuse, Return, OnManagementHandle, RouterFails, RegisterEnds, Idle
  <2>. QED BY <1>1, <1>8, <2>1
           DEF Refuse, Return, OnManagementHandle, RouterFails, RegisterEnds
<1>9. ASSUME NEW c \in Calls, NEW p \in Paths, Arrive(c, p) PROVE OwnInv'
  BY <1>1, <1>9 DEF Arrive
<1>10. ASSUME UNCHANGED <<metadata, call, alone>> PROVE OwnInv'
  BY <1>0, <1>10, <1>q DEF OwnInv, At
<1>. QED
  BY <1>3, <1>4, <1>5, <1>6, <1>7, <1>8, <1>9, <1>10
  DEF Next, Proceed, OnPluginReconfigure, RegisterRoute, vars

LEMMA DispatcherInvariant == Spec => []DispatcherInv
<1>1. DispatcherInv /\ [Next]_vars => DispatcherInv'
  <2>1. DispatcherInv /\ [Next]_vars => TypeInv'
    BY TypeStep DEF DispatcherInv
  <2>. QED BY <2>1, AloneStep, HostStep, OwnStep DEF DispatcherInv
<1>. QED BY <1>1, DispatcherInit, PTL DEF Spec

(* A registration with the host's router that succeeded, and that no other *)
(* overlapped, is never undone: not by one that fails half way, nor by one *)
(* whose copy of the routes is old.                                        *)
THEOREM HostNeverFallsBehind == Spec => []HostKeepsUp
<1>1. DispatcherInv => HostKeepsUp
  BY DEF DispatcherInv, TypeInv, HostInv, HostKeepsUp
<1>. QED BY <1>1, DispatcherInvariant, PTL

(* The answer to plugin.register is that of its own payload, unless        *)
(* another registration came between its two sections.                     *)
THEOREM EveryAnswerIsOwn == Spec => []AnswerIsOwn
<1>1. DispatcherInv => AnswerIsOwn
  BY DEF DispatcherInv, OwnInv
<1>. QED BY <1>1, DispatcherInvariant, PTL

-----------------------------------------------------------------------------
(* Resources.  Induction over the subsets of a finite set, and over the    *)
(* numbers up to n, of what holds of the members of a set.                 *)
LEMMA SmallestSubset ==
    ASSUME NEW S, IsFiniteSet(S), NEW B \in SUBSET (SUBSET S), B # {}
    PROVE  \E s \in B : \A r \in SUBSET s : r # s => r \notin B
<1>1. IsWellFoundedOn(StrictSubsetOrdering(S), SUBSET S)
  BY FS_StrictSubsetOrderingWellFounded, FS_FiniteSubsetsOfFinite
<1>2. PICK s \in B : \A r \in B : ~(<<r, s>> \in StrictSubsetOrdering(S))
  BY <1>1, WFMin
<1>3. ASSUME NEW r \in SUBSET s, r # s, r \in B PROVE FALSE
  <2>1. <<r, s>> \in StrictSubsetOrdering(S)
    BY <1>3 DEF StrictSubsetOrdering
  <2>. QED BY <1>2, <1>3, <2>1
<1>. QED BY <1>3

LEMMA OverSubsets ==
    ASSUME NEW S, IsFiniteSet(S), NEW G,
           \A s \in SUBSET S : (\A r \in SUBSET s : r # s => r \in G) => s \in G
    PROVE  SUBSET S \subseteq G
<1>. DEFINE B == {s \in SUBSET S : s \notin G}
<1>1. ASSUME NEW s \in B, \A r \in SUBSET s : r # s => r \notin B PROVE FALSE
  <2>1. s \in SUBSET S /\ s \notin G /\ \A r \in SUBSET s : r # s => r \in G
    BY <1>1
  <2>. QED BY <2>1
<1>2. B \subseteq SUBSET S /\ (B = {} => SUBSET S \subseteq G)
  OBVIOUS
<1>. HIDE DEF B
<1>. QED BY <1>1, <1>2, SmallestSubset

LEMMA LeastNumber ==
    ASSUME NEW B \in SUBSET Nat, B # {}
    PROVE  \E k \in B : \A j \in B : k <= j
<1>1. PICK k \in B : \A j \in B : ~(<<j, k>> \in OpToRel(<, Nat))
  BY NatLessThanWellFounded, WFMin
<1>2. ASSUME NEW j \in B PROVE k <= j
  <2>1. k \in Nat /\ j \in Nat /\ <<j, k>> \in Nat \X Nat
    OBVIOUS
  <2>2. j < k => <<j, k>> \in OpToRel(<, Nat)
    BY <2>1 DEF OpToRel
  <2>3. ~(j < k)
    BY <1>1, <2>2, Zenon
  <2>. QED BY <2>1, <2>3
<1>. QED BY <1>2

LEMMA UpTo ==
    ASSUME NEW n \in Nat, NEW G, 0 \in G, \A k \in 0..n : k # n /\ k \in G => k + 1 \in G
    PROVE  0..n \subseteq G
<1>. DEFINE B == {k \in 0..n : k \notin G}
<1>1. ASSUME NEW k \in B, \A j \in B : k <= j PROVE FALSE
  <2>1. k \in 0..n /\ k \notin G /\ k # 0 /\ k - 1 \in 0..n /\ k - 1 # n
    OBVIOUS
  <2>2. k - 1 \in G
    BY <1>1, <2>1
  <2>3. (k - 1) + 1 = k
    BY <2>1
  <2>. QED BY <2>1, <2>2, <2>3
<1>2. B \in SUBSET Nat /\ (B = {} => 0..n \subseteq G)
  OBVIOUS
<1>. HIDE DEF B
<1>. QED BY <1>1, <1>2, LeastNumber

(* path.Clean takes the parts of a path one after the other.               *)
Walk(t, kept, s) ==
    CASE s \in {"", "."} -> kept
      [] s = ".." /\ kept # <<>> /\ Last(kept) # ".." -> Front(kept)
      [] s = ".." /\ kept = <<>> /\ Rooted(t) -> kept
      [] OTHER -> Append(kept, s)

Walks(t, S, g) ==
    g = [s \in SUBSET S |-> IF s = {} THEN <<>> ELSE Walk(t, g[s \ {Max(s)}], t[Max(s)])]

LEMMA MaxIn ==
    ASSUME NEW s \in SUBSET Nat, IsFiniteSet(s), s # {}
    PROVE  Max(s) \in s /\ \A y \in s : Max(s) >= y
<1>. DEFINE M(r) == r # {} => \E x \in r : \A y \in r : x >= y
            G == {r \in SUBSET s : M(r)}
<1>1. ASSUME NEW r \in SUBSET s, \A q \in SUBSET r : q # r => q \in G
      PROVE  r \in G
  <2>. SUFFICES ASSUME r # {} PROVE \E x \in r : \A y \in r : x >= y
    OBVIOUS
  <2>1. PICK z \in r : TRUE
    OBVIOUS
  <2>2. CASE r = {z}
    BY <2>1, <2>2
  <2>3. CASE r # {z}
    <3>1. r \ {z} \in G /\ r \ {z} # {}
      BY <1>1, <2>1, <2>3
    <3>2. PICK x \in r \ {z} : \A y \in r \ {z} : x >= y
      BY <3>1
    <3>3. x \in Nat /\ z \in Nat
      BY <2>1, <3>2
    <3>4. \A y \in r : y \in Nat
      OBVIOUS
    <3>. QED BY <2>1, <3>2, <3>3, <3>4
  <2>. QED BY <2>2, <2>3
<1>. HIDE DEF G
<1>2. s \in G
  BY <1>1, OverSubsets
<1>3. \E x \in s : \A y \in s : x >= y
  BY <1>2 DEF G
<1>. QED BY <1>3 DEF Max

(* There is one such walk, and so there is one. *)
LEMMA OneWalk ==
    ASSUME NEW t, NEW S \in SUBSET Nat, IsFiniteSet(S), NEW A \in SUBSET S, NEW B \in SUBSET S,
           NEW g, NEW h, Walks(t, A, g), Walks(t, B, h)
    PROVE  \A s \in SUBSET (A \cap B) : g[s] = h[s]
<1>. DEFINE G == {s \in SUBSET S : s \subseteq A \cap B => g[s] = h[s]}
<1>1. ASSUME NEW s \in SUBSET S, \A r \in SUBSET s : r # s => r \in G
      PROVE  s \in G
  <2>. SUFFICES ASSUME s \subseteq A \cap B PROVE g[s] = h[s]
    OBVIOUS
  <2>1. CASE s = {}
    BY <2>1 DEF Walks
  <2>2. CASE s # {}
    <3>. DEFINE r == s \ {Max(s)}
    <3>1. IsFiniteSet(s) /\ s \in SUBSET Nat
      BY FS_Subset
    <3>2. Max(s) \in s
      BY <2>2, <3>1, MaxIn
    <3>3. r \in SUBSET s /\ r # s
      BY <3>2
    <3>4. g[r] = h[r]
      BY <1>1, <3>3
    <3>5. g[s] = Walk(t, g[r], t[Max(s)]) /\ h[s] = Walk(t, h[r], t[Max(s)])
      BY <2>2 DEF Walks
    <3>. QED BY <3>4, <3>5
  <2>. QED BY <2>1, <2>2
<1>. HIDE DEF G
<1>2. SUBSET S \subseteq G
  BY <1>1, OverSubsets
<1>. QED BY <1>2 DEF G

LEMMA SomeWalk ==
    ASSUME NEW t, NEW S \in SUBSET Nat, IsFiniteSet(S)
    PROVE  \E g : Walks(t, S, g)
<1>. DEFINE G == {s \in SUBSET S : \E g : Walks(t, s, g)}
<1>1. ASSUME NEW s \in SUBSET S, \A r \in SUBSET s : r # s => r \in G
      PROVE  s \in G
  <2>. DEFINE of(r) == CHOOSE g : Walks(t, r, g)
              at(r) == of(r \ {Max(r)})[r \ {Max(r)}]
              g == [r \in SUBSET s |-> IF r = {} THEN <<>> ELSE Walk(t, at(r), t[Max(r)])]
  <2>1. ASSUME NEW r \in SUBSET s, r # {}
        PROVE  r \ {Max(r)} \in SUBSET s /\ r \ {Max(r)} # s
               /\ Walks(t, r \ {Max(r)}, of(r \ {Max(r)}))
    <3>1. IsFiniteSet(r) /\ r \in SUBSET Nat
      BY FS_Subset
    <3>2. Max(r) \in r
      BY <2>1, <3>1, MaxIn
    <3>3. r \ {Max(r)} \in SUBSET s /\ r \ {Max(r)} # s
      BY <3>2
    <3>. QED BY <1>1, <3>3
  <2>2. ASSUME NEW r \in SUBSET s, r # {} PROVE at(r) = g[r \ {Max(r)}]
    <3>. DEFINE q == r \ {Max(r)}
    <3>1. q \in SUBSET s /\ Walks(t, q, of(q))
      BY <2>1, <2>2
    <3>2. CASE q = {}
      <4>1. of(q)[q] = <<>>
        BY <3>1, <3>2 DEF Walks
      <4>. QED BY <3>1, <3>2, <4>1
    <3>3. CASE q # {}
      <4>. DEFINE p == q \ {Max(q)}
      <4>1. p \in SUBSET s /\ Walks(t, p, of(p))
        BY <2>1, <3>1, <3>3
      <4>2. of(q)[p] = of(p)[p]
        <5>1. q \in SUBSET S /\ p \in SUBSET S /\ p \in SUBSET (q \cap p)
          BY <3>1, <4>1
        <5>. HIDE DEF of, p, q
        <5>. QED BY <3>1, <4>1, <5>1, OneWalk
      <4>3. of(q)[q] = Walk(t, of(q)[p], t[Max(q)])
        BY <3>1, <3>3 DEF Walks
      <4>4. g[q] = Walk(t, of(p)[p], t[Max(q)])
        BY <3>1, <3>3
      <4>. QED BY <4>2, <4>3, <4>4
    <3>. QED BY <3>2, <3>3
  <2>3. g = [r \in SUBSET s |-> g[r]]
    OBVIOUS
  <2>4. \A r \in SUBSET s : g[r] = IF r = {} THEN <<>> ELSE Walk(t, at(r), t[Max(r)])
    OBVIOUS
  <2>. HIDE DEF g, at, of
  <2>5. \A r \in SUBSET s :
            g[r] = IF r = {} THEN <<>> ELSE Walk(t, g[r \ {Max(r)}], t[Max(r)])
    BY <2>2, <2>4
  <2>6. Walks(t, s, g)
    BY <2>3, <2>5, Zenon DEF Walks
  <2>. QED BY <2>6
<1>. HIDE DEF G
<1>2. S \in G
  BY <1>1, OverSubsets
<1>. QED BY <1>2 DEF G

(* What is kept of the first k parts. *)
Kept(t, k) == (CHOOSE g : Walks(t, DOMAIN t, g))[1..k]

LEMMA KeptIs ==
    ASSUME NEW t \in Seq(Segments)
    PROVE  /\ Kept(t, 0) = <<>> /\ Clean(t) = Kept(t, Len(t))
           /\ \A k \in 1..Len(t) : Kept(t, k) = Walk(t, Kept(t, k - 1), t[k])
<1>. DEFINE it == CHOOSE g : Walks(t, DOMAIN t, g)
<1>1. DOMAIN t = 1..Len(t) /\ Len(t) \in Nat
  OBVIOUS
<1>2. IsFiniteSet(DOMAIN t) /\ DOMAIN t \in SUBSET Nat
  BY <1>1, FS_Interval
<1>3. Walks(t, DOMAIN t, it)
  BY <1>2, SomeWalk
<1>4. Clean(t) = it[DOMAIN t]
  BY DEF Clean, FoldLeft, MapThenFoldSet, Walks, Walk
<1>5. ASSUME NEW k \in 1..Len(t) PROVE it[1..k] = Walk(t, it[1..k - 1], t[k])
  <2>1. k \in Nat /\ k \in 1..k /\ 1..k \in SUBSET DOMAIN t /\ 1..k \in SUBSET Nat
    <3>. HIDE DEF it
    <3>1. k \in Nat /\ k \in 1..k /\ 1..k \in SUBSET Nat
      BY <1>1
    <3>2. \A i \in 1..k : i \in 1..Len(t)
      BY <1>1
    <3>. QED BY <1>1, <3>1, <3>2
  <2>2. IsFiniteSet(1..k)
    BY <2>1, FS_Interval
  <2>3. Max(1..k) \in 1..k /\ \A y \in 1..k : Max(1..k) >= y
    BY <2>1, <2>2, MaxIn
  <2>4. Max(1..k) = k
    BY <2>1, <2>3
  <2>5. (1..k) \ {k} = 1..k - 1
    BY <2>1
  <2>. HIDE DEF it
  <2>. QED BY <1>3, <2>1, <2>4, <2>5 DEF Walks
<1>6. it[1..0] = <<>>
  <2>1. 1..0 = {}
    OBVIOUS
  <2>. HIDE DEF it
  <2>. QED BY <1>3, <2>1 DEF Walks
<1>. QED BY <1>1, <1>4, <1>5, <1>6 DEF Kept

-----------------------------------------------------------------------------
(* How deep a path is.                                                     *)
Among(t, k, S) == {i \in 1..k : t[i] \in S}

LEMMA OneMore ==
    ASSUME NEW t, NEW k \in Nat, NEW S
    PROVE  /\ Cardinality(Among(t, k, S)) \in Nat
           /\ Cardinality(Among(t, k + 1, S)) =
                  Cardinality(Among(t, k, S)) + IF t[k + 1] \in S THEN 1 ELSE 0
           /\ Cardinality(Among(t, 0, S)) = 0
<1>1. IsFiniteSet(Among(t, k, S))
  <2>1. IsFiniteSet(1..k)
    BY FS_Interval
  <2>. QED BY <2>1, FS_Subset DEF Among
<1>2. k + 1 \notin Among(t, k, S)
  BY DEF Among
<1>3. Among(t, k + 1, S) = IF t[k + 1] \in S THEN Among(t, k, S) \cup {k + 1} ELSE Among(t, k, S)
  <2>1. 1..k + 1 = (1..k) \cup {k + 1}
    OBVIOUS
  <2>. QED BY <2>1 DEF Among
<1>4. Cardinality(Among(t, k, S)) \in Nat
  BY <1>1, FS_CardinalityType
<1>5. Cardinality(Among(t, k, S) \cup {k + 1}) = Cardinality(Among(t, k, S)) + 1
  BY <1>1, <1>2, FS_AddElement
<1>6. Among(t, 0, S) = {}
  BY DEF Among
<1>. QED BY <1>3, <1>4, <1>5, <1>6, FS_EmptySet

LEMMA DepthIs ==
    ASSUME NEW t \in Seq(Segments)
    PROVE  /\ Depth(t, 0) = 0
           /\ \A k \in 0..Len(t) : Depth(t, k) \in Int
           /\ \A k \in 0..Len(t) - 1 :
                  Depth(t, k + 1) = Depth(t, k) + IF t[k + 1] = ".." THEN -1
                                                  ELSE IF t[k + 1] \in Names THEN 1 ELSE 0
<1>1. \A k : Depth(t, k) = Cardinality(Among(t, k, Names)) - Cardinality(Among(t, k, {".."}))
  BY DEF Depth, Among
<1>2. \A S : \A k \in Nat :
          /\ Cardinality(Among(t, k, S)) \in Nat
          /\ Cardinality(Among(t, k + 1, S)) =
                 Cardinality(Among(t, k, S)) + IF t[k + 1] \in S THEN 1 ELSE 0
          /\ Cardinality(Among(t, 0, S)) = 0
  BY OneMore
<1>3. ".." \notin Names
  BY DEF Names
<1>4. Depth(t, 0) = 0
  BY <1>1, <1>2
<1>5. ASSUME NEW k \in Nat
      PROVE  Depth(t, k) \in Int
             /\ Depth(t, k + 1) = Depth(t, k) + IF t[k + 1] = ".." THEN -1
                                                ELSE IF t[k + 1] \in Names THEN 1 ELSE 0
  <2>1. PICK a \in Nat, b \in Nat :
            a = Cardinality(Among(t, k, Names)) /\ b = Cardinality(Among(t, k, {".."}))
    BY <1>2
  <2>2. /\ Cardinality(Among(t, k + 1, Names)) = a + IF t[k + 1] \in Names THEN 1 ELSE 0
        /\ Cardinality(Among(t, k + 1, {".."})) = b + IF t[k + 1] \in {".."} THEN 1 ELSE 0
    BY <1>2, <2>1
  <2>3. Depth(t, k) = a - b
    BY <1>1, <2>1
  <2>4. CASE t[k + 1] = ".."
    BY <1>1, <1>3, <2>2, <2>3, <2>4
  <2>5. CASE t[k + 1] # ".."
    BY <1>1, <2>2, <2>3, <2>5
  <2>. QED BY <2>3, <2>4, <2>5
<1>6. Len(t) \in Nat /\ \A k \in 0..Len(t) : k \in Nat
  OBVIOUS
<1>7. \A k \in 0..Len(t) - 1 : k \in Nat
  BY <1>6
<1>. QED BY <1>4, <1>5, <1>6, <1>7, Zenon

(* The names that were not climbed out of again up to the k-th part, and   *)
(* that they are what is kept: the j-th kept name is the one at depth j.   *)
Staying(t, k) == {i \in 1..k : t[i] \in Names /\ \A l \in i..k : Depth(t, l) >= Depth(t, i)}

KeptInv(t, k) ==
    /\ Kept(t, k) \in Seq(Segments)
    /\ Len(Kept(t, k)) = Depth(t, k)
    /\ \A i \in Staying(t, k) : Depth(t, i) \in 1..Depth(t, k) /\ Kept(t, k)[Depth(t, i)] = t[i]
    /\ \A j \in 1..Depth(t, k) : \E i \in Staying(t, k) : Depth(t, i) = j

LEMMA WalkStep ==
    ASSUME NEW t \in Seq(Segments), NEW k \in 0..Len(t) - 1, KeptInv(t, k), Depth(t, k + 1) >= 0
    PROVE  KeptInv(t, k + 1)
<1>1. PICK K \in Seq(Segments) : K = Kept(t, k)
  BY DEF KeptInv
<1>2. PICK d \in Nat : d = Depth(t, k) /\ d = Len(K)
  BY <1>1 DEF KeptInv
<1>3. PICK s \in Segments : s = t[k + 1]
  OBVIOUS
<1>4. Kept(t, k + 1) = Walk(t, K, s)
  <2>1. k + 1 \in 1..Len(t) /\ (k + 1) - 1 = k
    OBVIOUS
  <2>. QED BY <1>1, <1>3, <2>1, KeptIs
<1>5. Depth(t, k + 1) = d + IF s = ".." THEN -1 ELSE IF s \in Names THEN 1 ELSE 0
  BY <1>2, <1>3, DepthIs
<1>6. Len(t) \in Nat /\ k \in Nat /\ \A l \in 1..k + 1 : Depth(t, l) \in Int
  <2>1. Len(t) \in Nat
    OBVIOUS
  <2>2. k \in Nat /\ \A l \in 1..k + 1 : l \in 0..Len(t)
    BY <2>1
  <2>. QED BY <2>1, <2>2, DepthIs
<1>7. \A i \in Staying(t, k) : i \in 1..k /\ Depth(t, i) \in 1..d /\ K[Depth(t, i)] = t[i]
  BY <1>1, <1>2 DEF KeptInv, Staying
<1>8. \A j \in 1..d : \E i \in Staying(t, k) : Depth(t, i) = j
  BY <1>1, <1>2 DEF KeptInv
<1>9. \A i \in 1..k : i \in Staying(t, k + 1) <=>
          i \in Staying(t, k) /\ Depth(t, k + 1) >= Depth(t, i)
  <2>1. \A i \in 1..k : i..k + 1 = (i..k) \cup {k + 1} /\ i \in 1..k + 1
    BY <1>6
  <2>. QED BY <2>1 DEF Staying
<1>10. k + 1 \in Staying(t, k + 1) <=> s \in Names
  <2>1. (k + 1)..(k + 1) = {k + 1} /\ k + 1 \in 1..k + 1
    BY <1>6
  <2>2. Depth(t, k + 1) >= Depth(t, k + 1)
    BY <1>6, <2>1
  <2>. QED BY <1>3, <2>1, <2>2 DEF Staying
<1>11. \A i \in Staying(t, k + 1) : i \in 1..k \/ i = k + 1
  BY <1>6 DEF Staying
<1>12. CASE s \in Names
  <2>1. s \notin {"", ".", ".."}
    BY <1>12 DEF Names
  <2>2. Kept(t, k + 1) = Append(K, s)
    BY <1>4, <2>1 DEF Walk
  <2>3. Depth(t, k + 1) = d + 1
    BY <1>2, <1>5, <1>12, <2>1
  <2>4. /\ Append(K, s) \in Seq(Segments) /\ Len(Append(K, s)) = d + 1
        /\ Append(K, s)[d + 1] = s /\ \A j \in 1..d : Append(K, s)[j] = K[j]
    BY <1>2
  <2>5. ASSUME NEW i \in Staying(t, k + 1)
        PROVE  Depth(t, i) \in 1..d + 1 /\ Append(K, s)[Depth(t, i)] = t[i]
    <3>1. CASE i = k + 1
      BY <1>2, <1>3, <2>3, <2>4, <3>1
    <3>2. CASE i \in 1..k
      <4>1. i \in Staying(t, k)
        BY <1>9, <3>2
      <4>. QED BY <1>2, <1>7, <2>4, <4>1
    <3>. QED BY <1>11, <3>1, <3>2
  <2>6. ASSUME NEW j \in 1..d + 1 PROVE \E i \in Staying(t, k + 1) : Depth(t, i) = j
    <3>1. CASE j = d + 1
      BY <1>10, <1>12, <2>3, <3>1
    <3>2. CASE j # d + 1
      <4>1. PICK i \in Staying(t, k) : Depth(t, i) = j
        BY <1>2, <1>8, <3>2
      <4>2. i \in Staying(t, k + 1)
        BY <1>2, <1>7, <1>9, <2>3, <4>1
      <4>. QED BY <4>1, <4>2
    <3>. QED BY <3>1, <3>2
  <2>. QED BY <2>2, <2>3, <2>4, <2>5, <2>6 DEF KeptInv
<1>13. CASE s = ".."
  <2>1. s \notin Names
    BY <1>13 DEF Names
  <2>2. Depth(t, k + 1) = d - 1 /\ d >= 1
    BY <1>2, <1>5, <1>6, <1>13
  <2>3. K # <<>> /\ Last(K) # ".."
    <3>1. PICK i \in Staying(t, k) : Depth(t, i) = d
      BY <1>2, <1>8, <2>2
    <3>2. K[d] = t[i] /\ t[i] \in Names
      BY <1>7, <3>1 DEF Staying
    <3>3. K[d] # ".."
      BY <3>2 DEF Names
    <3>4. Len(K) # 0 /\ Last(K) = K[d]
      BY <1>2, <2>2 DEF Last
    <3>. QED BY <3>3, <3>4
  <2>4. Kept(t, k + 1) = Front(K)
    BY <1>4, <1>13, <2>3 DEF Walk
  <2>5. /\ Front(K) \in Seq(Segments) /\ Len(Front(K)) = d - 1
        /\ \A j \in 1..d - 1 : Front(K)[j] = K[j]
    BY <1>2, <2>2 DEF Front
  <2>6. ASSUME NEW i \in Staying(t, k + 1)
        PROVE  Depth(t, i) \in 1..d - 1 /\ Front(K)[Depth(t, i)] = t[i]
    <3>1. i \in 1..k
      BY <1>10, <1>11, <2>1
    <3>2. i \in Staying(t, k) /\ d - 1 >= Depth(t, i)
      BY <1>9, <2>2, <3>1
    <3>3. PICK e \in 1..d : e = Depth(t, i) /\ K[e] = t[i] /\ d - 1 >= e
      BY <1>7, <3>2
    <3>4. e \in 1..d - 1
      BY <1>2, <3>3
    <3>. QED BY <2>5, <3>3, <3>4
  <2>7. ASSUME NEW j \in 1..d - 1 PROVE \E i \in Staying(t, k + 1) : Depth(t, i) = j
    <3>1. PICK i \in Staying(t, k) : Depth(t, i) = j
      BY <1>2, <1>8
    <3>2. i \in Staying(t, k + 1)
      BY <1>2, <1>7, <1>9, <2>2, <3>1
    <3>. QED BY <3>1, <3>2
  <2>. QED BY <2>2, <2>4, <2>5, <2>6, <2>7 DEF KeptInv
<1>14. CASE s \notin Names /\ s # ".."
  <2>1. s \in {"", "."}
    BY <1>14 DEF Names
  <2>2. Kept(t, k + 1) = K /\ Depth(t, k + 1) = d
    <3>1. Walk(t, K, s) = K
      BY <2>1 DEF Walk
    <3>. QED BY <1>2, <1>4, <1>5, <1>14, <3>1
  <2>3. ASSUME NEW i \in Staying(t, k + 1) PROVE i \in Staying(t, k)
    BY <1>9, <1>10, <1>11, <1>14
  <2>4. ASSUME NEW i \in Staying(t, k) PROVE i \in Staying(t, k + 1)
    BY <1>2, <1>7, <1>9, <2>2
  <2>. QED BY <1>2, <1>7, <1>8, <2>2, <2>3, <2>4 DEF KeptInv
<1>. QED BY <1>12, <1>13, <1>14

LEMMA Walked ==
    ASSUME NEW t \in Seq(Segments), NEW n \in 0..Len(t), \A l \in 1..n : Depth(t, l) >= 0
    PROVE  \A k \in 0..n : KeptInv(t, k)
<1>. DEFINE G == {k \in 0..n : KeptInv(t, k)}
<1>1. Len(t) \in Nat /\ n \in Nat /\ n <= Len(t)
  OBVIOUS
<1>2. KeptInv(t, 0)
  <2>1. Kept(t, 0) = <<>> /\ Depth(t, 0) = 0
    BY KeptIs, DepthIs
  <2>2. Staying(t, 0) = {}
    BY DEF Staying
  <2>3. <<>> \in Seq(Segments) /\ Len(<<>>) = 0 /\ 1..0 = {}
    OBVIOUS
  <2>. QED BY <2>1, <2>2, <2>3 DEF KeptInv
<1>3. ASSUME NEW k \in 0..n, k # n, k \in G PROVE k + 1 \in G
  <2>1. k \in 0..Len(t) - 1 /\ k + 1 \in 1..n /\ k + 1 \in 0..n
    BY <1>1, <1>3
  <2>2. KeptInv(t, k + 1)
    BY <1>3, <2>1, WalkStep
  <2>. QED BY <2>1, <2>2
<1>4. 0 \in G
  BY <1>1, <1>2
<1>. HIDE DEF G
<1>5. 0..n \subseteq G
  BY <1>1, <1>3, <1>4, UpTo
<1>. QED BY <1>5 DEF G

(* What stays is deeper the later it comes, so that the name at depth j is *)
(* the j-th one.                                                           *)
LEMMA Climbs ==
    ASSUME NEW t \in Seq(Segments), NEW n \in 0..Len(t),
           NEW i \in Staying(t, n), NEW j \in Staying(t, n), i < j
    PROVE  Depth(t, i) < Depth(t, j)
<1>1. Len(t) \in Nat /\ n \in Nat /\ n <= Len(t)
  OBVIOUS
<1>2. i \in 1..n /\ j \in 1..n /\ t[j] \in Names
  BY DEF Staying
<1>3. j - 1 \in i..n /\ j - 1 \in 0..Len(t) - 1 /\ (j - 1) + 1 = j
      /\ i \in 0..Len(t) /\ j - 1 \in 0..Len(t)
  BY <1>1, <1>2
<1>4. Depth(t, j - 1) >= Depth(t, i)
  BY <1>3 DEF Staying
<1>5. t[j] # ".."
  BY <1>2 DEF Names
<1>6. Depth(t, j) = Depth(t, j - 1) + 1
  BY <1>2, <1>3, <1>5, DepthIs
<1>7. Depth(t, i) \in Int /\ Depth(t, j - 1) \in Int
  BY <1>3, DepthIs
<1>. QED BY <1>4, <1>6, <1>7

ShallowStaying(t, n, m) == {j \in Staying(t, n) : Depth(t, j) <= m}

LEMMA Ranked ==
    ASSUME NEW t \in Seq(Segments), NEW n \in 0..Len(t), KeptInv(t, n),
           NEW m \in 0..Depth(t, n)
    PROVE  Cardinality(ShallowStaying(t, n, m)) = m
<1>. DEFINE A == ShallowStaying(t, n, m)
            f == [j \in A |-> Depth(t, j)]
<1>1. Len(t) \in Nat /\ n \in Nat /\ n <= Len(t)
  OBVIOUS
<1>2. Depth(t, n) \in Int /\ m \in Nat /\ m <= Depth(t, n)
  BY DepthIs
<1>3. \A j \in Staying(t, n) : j \in 1..n /\ Depth(t, j) \in 1..Depth(t, n)
  BY DEF KeptInv, Staying
<1>4. f \in [A -> 1..m]
  BY <1>2, <1>3 DEF ShallowStaying
<1>5. ASSUME NEW a \in A, NEW b \in A, f[a] = f[b] PROVE a = b
  <2>1. a \in Staying(t, n) /\ b \in Staying(t, n) /\ Depth(t, a) = Depth(t, b)
    BY <1>5 DEF ShallowStaying
  <2>2. a \in Nat /\ b \in Nat /\ Depth(t, a) \in Int
    BY <1>1, <1>2, <1>3, <2>1
  <2>3. ~(a < b) /\ ~(b < a)
    BY <2>1, <2>2, Climbs
  <2>. QED BY <2>2, <2>3
<1>6. ASSUME NEW e \in 1..m PROVE \E a \in A : f[a] = e
  <2>1. e \in 1..Depth(t, n)
    BY <1>2
  <2>2. PICK a \in Staying(t, n) : Depth(t, a) = e
    BY <2>1 DEF KeptInv
  <2>3. a \in A
    BY <2>2 DEF ShallowStaying
  <2>. QED BY <2>2, <2>3
<1>7. IsFiniteSet(A)
  <2>1. IsFiniteSet(1..n)
    BY <1>1, FS_Interval
  <2>2. A \subseteq 1..n
    BY <1>3 DEF ShallowStaying
  <2>. HIDE DEF A
  <2>. QED BY <2>1, <2>2, FS_Subset
<1>8. DOMAIN f = A
  OBVIOUS
<1>. HIDE DEF A, f
<1>9. f \in Bijection(A, 1..m)
  BY <1>4, <1>5, <1>6, <1>8 DEF Bijection, Injection, IsInjective, Surjection
<1>10. Cardinality(1..m) = Cardinality(A)
  BY <1>7, <1>9, FS_Bijection DEF ExistsBijection
<1>11. Cardinality(1..m) = m
  BY <1>2, FS_Interval
<1>. QED BY <1>10, <1>11 DEF A

(* What the names of a path that does not leave assets/ are. *)
FileOf(names) == IF names = <<>> THEN Index ELSE IF names \in Assets THEN names ELSE NotFound

StaysOf(t) == {i \in DOMAIN t :
                  /\ t[i] \notin {"", ".", ".."}
                  /\ \A k \in i..Len(t) : Depth(t, k) >= Depth(t, i)}

NamesOf(t, S) ==
    [n \in 1..Cardinality(S) |-> t[CHOOSE i \in S : Cardinality({j \in S : j <= i}) = n]]

LEMMA NamedIsKept ==
    ASSUME NEW t \in Seq(Segments), ~Leaves(t)
    PROVE  Named(t) = FileOf(Clean(t)) /\ Clean(t) \in Seq(Names)
<1>. DEFINE n == Len(t)
            stays == Staying(t, n)
            upTo(i) == {j \in stays : j <= i}
            names == NamesOf(t, stays)
<1>1. n \in Nat /\ DOMAIN t = 1..n /\ \A i \in 1..n : t[i] \in Segments
  OBVIOUS
<1>2. KeptInv(t, n)
  <2>1. \A l \in 1..n : Depth(t, l) >= 0
    <3>1. \A l \in 1..n : Depth(t, l) \in Int
      BY <1>1, DepthIs
    <3>2. \A l \in 1..n : ~(Depth(t, l) < 0)
      BY <1>1 DEF Leaves
    <3>. QED BY <3>1, <3>2
  <2>. QED BY <1>1, <2>1, Walked
<1>3. PICK K \in Seq(Segments) :
          /\ K = Clean(t) /\ Len(K) = Depth(t, n)
          /\ \A i \in stays : Depth(t, i) \in 1..Len(K) /\ K[Depth(t, i)] = t[i]
          /\ \A j \in 1..Len(K) : \E i \in stays : Depth(t, i) = j
  BY <1>2, KeptIs DEF KeptInv
<1>4. Named(t) = FileOf(names)
  <2>1. stays = StaysOf(t)
    BY <1>1 DEF Staying, StaysOf, Names
  <2>2. Named(t) = FileOf(NamesOf(t, StaysOf(t)))
    BY DEF Named, FileOf, StaysOf, NamesOf
  <2>. QED BY <2>1, <2>2
<1>5. \A i \in stays : i \in 1..n /\ t[i] \in Names
  BY DEF Staying
<1>. HIDE DEF n, stays
<1>6. Cardinality(stays) = Len(K)
  <2>1. stays = ShallowStaying(t, n, Len(K))
    BY <1>3 DEF ShallowStaying, stays
  <2>2. Len(K) \in 0..Depth(t, n)
    BY <1>3
  <2>. QED BY <1>1, <1>2, <2>1, <2>2, Ranked DEF n
<1>7. ASSUME NEW i \in stays PROVE Cardinality(upTo(i)) = Depth(t, i)
  <2>1. ASSUME NEW j \in stays PROVE j <= i <=> Depth(t, j) <= Depth(t, i)
    <3>1. i \in Nat /\ j \in Nat /\ Depth(t, i) \in Int /\ Depth(t, j) \in Int
      BY <1>1, <1>3, <1>5
    <3>2. i < j => Depth(t, i) < Depth(t, j)
      BY <1>1, Climbs DEF stays, n
    <3>3. j < i => Depth(t, j) < Depth(t, i)
      BY <1>1, Climbs DEF stays, n
    <3>. QED BY <3>1, <3>2, <3>3
  <2>2. upTo(i) = ShallowStaying(t, n, Depth(t, i))
    BY <2>1 DEF ShallowStaying, stays
  <2>3. Depth(t, i) \in 0..Depth(t, n)
    BY <1>3
  <2>. HIDE DEF upTo
  <2>. QED BY <1>1, <1>2, <2>2, <2>3, Ranked DEF n
<1>8. ASSUME NEW q \in 1..Len(K)
      PROVE  K[q] = t[CHOOSE i \in stays : Cardinality(upTo(i)) = q] /\ K[q] \in Names
  <2>1. PICK i \in stays : Depth(t, i) = q
    BY <1>3
  <2>2. Cardinality(upTo(i)) = q
    BY <1>7, <2>1
  <2>. HIDE DEF upTo
  <2>3. PICK c \in stays : c = (CHOOSE j \in stays : Cardinality(upTo(j)) = q)
                           /\ Cardinality(upTo(c)) = q
    BY <2>2
  <2>4. Depth(t, c) = q
    BY <1>7, <2>3
  <2>. QED BY <1>3, <1>5, <2>3, <2>4
<1>9. names = [q \in 1..Len(K) |-> K[q]]
  BY <1>6, <1>8 DEF NamesOf
<1>. HIDE DEF upTo, names
<1>10. K = [q \in 1..Len(K) |-> K[q]]
  OBVIOUS
<1>11. K \in Seq(Names)
  <2>1. Len(K) \in Nat
    OBVIOUS
  <2>2. \A q \in 1..Len(K) : K[q] \in Names
    BY <1>8
  <2>. QED BY <1>10, <2>1, <2>2
<1>. QED BY <1>3, <1>4, <1>9, <1>10, <1>11

(* A path without ".." leads nowhere else, and one of names is clean.      *)
LEMMA StraightOn ==
    ASSUME NEW t \in Seq(Segments), ~Contains(t, "..")
    PROVE  ~Leaves(t)
<1>1. \A k \in 1..Len(t) : Depth(t, k) >= 0
  <2>1. ASSUME NEW k \in 1..Len(t) PROVE Depth(t, k) >= 0
    <3>1. k \in Nat /\ 1..k \subseteq 1..Len(t)
      OBVIOUS
    <3>2. Among(t, k, {".."}) = {}
      BY <3>1 DEF Among, Contains
    <3>3. Cardinality(Among(t, k, Names)) \in Nat
      BY <3>1, OneMore
    <3>4. Depth(t, k) = Cardinality(Among(t, k, Names)) - Cardinality(Among(t, k, {".."}))
      BY DEF Depth, Among
    <3>5. Cardinality(Among(t, k, {".."})) = 0
      BY <3>2, FS_EmptySet
    <3>. QED BY <3>3, <3>4, <3>5
  <2>. QED BY <2>1
<1>2. \A k \in DOMAIN t : k \in 1..Len(t) /\ k \in 0..Len(t) /\ Depth(t, k) \in Int
  <2>1. \A k \in DOMAIN t : k \in 1..Len(t) /\ k \in 0..Len(t)
    OBVIOUS
  <2>. QED BY <2>1, DepthIs
<1>. QED BY <1>1, <1>2 DEF Leaves

LEMMA NamesAreClean ==
    ASSUME NEW t \in Seq(Names)
    PROVE  Clean(t) = t
<1>. DEFINE n == Len(t)
<1>1. t \in Seq(Segments) /\ n \in Nat /\ \A i \in 1..n : t[i] \in Names
  <2>1. Names \subseteq Segments
    BY DEF Names
  <2>. QED BY <2>1
<1>2. \A i \in 1..n : t[i] # ".."
  BY <1>1 DEF Names
<1>. DEFINE G == {k \in 0..n : Depth(t, k) = k}
<1>3. ASSUME NEW k \in 0..n, k # n, k \in G PROVE k + 1 \in G
  <2>1. k \in 0..n - 1 /\ k + 1 \in 1..n /\ k + 1 \in 0..n
    BY <1>1, <1>3
  <2>2. Depth(t, k + 1) = Depth(t, k) + 1
    BY <1>1, <1>2, <2>1, DepthIs
  <2>. QED BY <1>3, <2>1, <2>2
<1>4. 0 \in G
  BY <1>1, DepthIs
<1>. HIDE DEF G
<1>5. 0..n \subseteq G
  BY <1>1, <1>3, <1>4, UpTo
<1>6. \A k \in 0..n : Depth(t, k) = k
  BY <1>5 DEF G
<1>7. KeptInv(t, n)
  <2>1. n \in 0..Len(t) /\ \A l \in 1..n : Depth(t, l) >= 0
    BY <1>1, <1>6
  <2>2. n \in 0..n
    BY <1>1
  <2>. HIDE DEF n
  <2>. QED BY <1>1, <2>1, <2>2, Walked
<1>8. ASSUME NEW i \in 1..n PROVE i \in Staying(t, n) /\ Depth(t, i) = i
  <2>1. i \in 0..n /\ \A l \in i..n : l \in 0..n /\ l >= i
    BY <1>1
  <2>. QED BY <1>1, <1>6, <2>1 DEF Staying
<1>9. PICK K \in Seq(Segments) : K = Clean(t) /\ Len(K) = n /\ \A i \in 1..n : K[i] = t[i]
  <2>1. n \in 0..n
    BY <1>1
  <2>. QED BY <1>1, <1>6, <1>7, <1>8, <2>1, KeptIs DEF KeptInv
<1>. QED BY <1>1, <1>9

LEMMA FrontOf ==
    ASSUME NEW K \in Seq(Segments), K # <<>>
    PROVE  /\ Len(K) > 0 /\ Front(K) \in Seq(Segments)
           /\ Len(K) # 1 => Len(Front(K)) > 0 /\ Front(K)[1] = K[1]
<1>1. PICK d \in Nat : d = Len(K) /\ d >= 1
  OBVIOUS
<1>2. /\ Front(K) \in Seq(Segments) /\ Len(Front(K)) = d - 1
      /\ \A j \in 1..d - 1 : Front(K)[j] = K[j]
  BY <1>1 DEF Front
<1>3. d # 1 => 1 \in 1..d - 1 /\ d - 1 > 0
  BY <1>1
<1>. QED BY <1>1, <1>2, <1>3

LEMMA Walking ==
    ASSUME NEW t, NEW K, NEW s
    PROVE  \/ Walk(t, K, s) = K
           \/ Walk(t, K, s) = Append(K, s)
           \/ K # <<>> /\ Last(K) # ".." /\ Walk(t, K, s) = Front(K)
BY DEF Walk

(* A path that leaves assets/, and does not begin at the root, keeps the   *)
(* ".." it leaves by as its first part.                                    *)
LEMMA LeftBehind ==
    ASSUME NEW t \in Seq(Segments), Leaves(t), ~Rooted(t)
    PROVE  Len(Clean(t)) > 0 /\ Clean(t)[1] = ".."
<1>. DEFINE n == Len(t)
            B == {k \in 1..n : Depth(t, k) < 0}
            G == {k \in 0..n : /\ Kept(t, k) \in Seq(Segments)
                               /\ (\E j \in B : j <= k) =>
                                      Len(Kept(t, k)) > 0 /\ Kept(t, k)[1] = ".."}
<1>1. n \in Nat /\ B \in SUBSET Nat /\ B # {}
  BY DEF Leaves
<1>2. PICK m \in B : \A j \in B : m <= j
  BY <1>1, LeastNumber
<1>3. m \in 1..n /\ m - 1 \in 0..n - 1 /\ m - 1 \in 0..n /\ (m - 1) + 1 = m /\ Depth(t, m) < 0
      /\ Depth(t, m - 1) \in Int
  <2>1. m \in 1..n /\ m - 1 \in 0..n - 1 /\ m - 1 \in 0..n /\ (m - 1) + 1 = m /\ Depth(t, m) < 0
    BY <1>1
  <2>. QED BY <2>1, DepthIs
<1>4. \A k \in 0..m - 1 : KeptInv(t, k)
  <2>1. ASSUME NEW l \in 1..m - 1 PROVE Depth(t, l) >= 0
    <3>1. l \in 1..n /\ l \in 0..n /\ ~(m <= l)
      BY <1>1, <1>3
    <3>2. Depth(t, l) \in Int
      BY <3>1, DepthIs
    <3>. QED BY <1>2, <3>1, <3>2
  <2>. HIDE DEF B
  <2>. QED BY <1>3, <2>1, Walked
<1>5. Kept(t, m) = <<"..">>
  <2>1. KeptInv(t, m - 1)
    BY <1>3, <1>4
  <2>2. Depth(t, m) = Depth(t, m - 1) + IF t[m] = ".." THEN -1
                                         ELSE IF t[m] \in Names THEN 1 ELSE 0
    BY <1>3, DepthIs
  <2>3. Kept(t, m - 1) \in Seq(Segments) /\ Len(Kept(t, m - 1)) = Depth(t, m - 1)
    BY <2>1 DEF KeptInv
  <2>4. t[m] = ".." /\ Depth(t, m - 1) = 0
    BY <1>3, <2>2, <2>3
  <2>5. Kept(t, m - 1) = <<>>
    BY <2>3, <2>4
  <2>6. Kept(t, m) = Walk(t, <<>>, "..")
    BY <1>3, <2>4, <2>5, KeptIs
  <2>7. Walk(t, <<>>, "..") = Append(<<>>, "..")
    BY DEF Walk
  <2>. QED BY <2>6, <2>7
<1>6. ASSUME NEW k \in 0..n, k # n, k \in G PROVE k + 1 \in G
  <2>1. k \in Nat /\ k + 1 \in 1..n /\ k + 1 \in 0..n /\ (k + 1) - 1 = k /\ m \in Nat
    BY <1>1, <1>3, <1>6
  <2>2. PICK K \in Seq(Segments) : K = Kept(t, k)
    BY <1>6
  <2>3. PICK s \in Segments : s = t[k + 1]
    BY <2>1
  <2>4. Kept(t, k + 1) = Walk(t, K, s)
    BY <2>1, <2>2, <2>3, KeptIs
  <2>5. K \in Seq(Segments) /\ Append(K, s) \in Seq(Segments)
    OBVIOUS
  <2>6. Walk(t, K, s) \in Seq(Segments)
    BY <2>5, FrontOf, Walking
  <2>7. ASSUME NEW j \in B, j <= k + 1
        PROVE  Len(Kept(t, k + 1)) > 0 /\ Kept(t, k + 1)[1] = ".."
    <3>1. m <= k + 1
      BY <1>1, <1>2, <2>1, <2>7
    <3>2. CASE m = k + 1
      BY <1>5, <3>2
    <3>3. CASE m # k + 1
      <4>1. m \in B /\ m <= k
        BY <2>1, <3>1, <3>3
      <4>2. Len(K) > 0 /\ K[1] = ".."
        BY <1>6, <2>2, <4>1
      <4>3. CASE Walk(t, K, s) = K
        BY <2>4, <4>2, <4>3
      <4>4. CASE Walk(t, K, s) = Append(K, s)
        BY <2>4, <4>2, <4>4
      <4>5. CASE Last(K) # ".." /\ Walk(t, K, s) = Front(K)
        <5>1. Len(K) # 1
          BY <4>2, <4>5 DEF Last
        <5>2. K # <<>> /\ Len(K) \in Nat
          BY <4>2
        <5>3. Len(Front(K)) > 0 /\ Front(K)[1] = K[1]
          BY <4>2, <5>1, <5>2, FrontOf
        <5>. QED BY <2>4, <4>2, <4>5, <5>3
      <4>. QED BY <4>3, <4>4, <4>5, Walking
    <3>. QED BY <3>2, <3>3
  <2>. QED BY <2>1, <2>4, <2>6, <2>7
<1>7. 0 \in G
  <2>1. Kept(t, 0) = <<>> /\ <<>> \in Seq(Segments)
    BY KeptIs
  <2>2. \A j \in B : ~(j <= 0)
    OBVIOUS
  <2>3. 0 \in 0..n
    BY <1>1
  <2>. HIDE DEF B
  <2>. QED BY <2>1, <2>2, <2>3
<1>. HIDE DEF G
<1>8. 0..n \subseteq G
  BY <1>1, <1>6, <1>7, UpTo
<1>9. n \in G /\ m \in B /\ m <= n
  BY <1>1, <1>3, <1>8
<1>10. Len(Kept(t, n)) > 0 /\ Kept(t, n)[1] = ".."
  BY <1>9 DEF G
<1>. QED BY <1>10, KeptIs

-----------------------------------------------------------------------------
LEMMA NoneOrOne == 1..0 = {} /\ 1..1 = {1} /\ 1 - 1 = 0
OBVIOUS

LEMMA NothingNamed ==
    ASSUME NEW t \in Seq(Segments), Len(t) = 0 \/ (Len(t) = 1 /\ t[1] = "")
    PROVE  ~Leaves(t) /\ Clean(t) = <<>>
<1>. DEFINE e == ""
<1>1. Len(t) = 0 \/ (Len(t) = 1 /\ t[1] = e)
  OBVIOUS
<1>2. e # ".." /\ Walk(t, <<>>, e) = <<>>
  BY DEF Walk
<1>. HIDE DEF e
<1>3. 1..0 = {} /\ 1..1 = {1} /\ 1 - 1 = 0
  BY NoneOrOne
<1>4. \A i \in 1..Len(t) : t[i] = e
  BY <1>1, <1>3, Zenon
<1>5. ~Contains(t, "..")
  BY <1>2, <1>4 DEF Contains
<1>6. Clean(t) = <<>>
  <2>1. CASE Len(t) = 0
    BY <2>1, KeptIs
  <2>2. CASE Len(t) = 1 /\ t[1] = e
    <3>1. Kept(t, 1) = Walk(t, Kept(t, 1 - 1), t[1])
      BY <1>3, <2>2, KeptIs, Zenon
    <3>2. Kept(t, 0) = <<>> /\ Clean(t) = Kept(t, 1)
      BY <2>2, KeptIs, Zenon
    <3>. QED BY <1>2, <1>3, <2>2, <3>1, <3>2, Zenon
  <2>. QED BY <1>1, <2>1, <2>2
<1>. QED BY <1>5, <1>6, StraightOn

(* Both ways to the files, of any path.                                    *)
LEMMA Served ==
    ASSUME NEW t \in Tails
    PROVE  /\ ServeHTTP(t) = IF Contains(t, "..") THEN NotFound ELSE Named(t)
           /\ (~Leaves(t) /\ Clean(t) # <<>>) => HandleResource(t) = Named(t)
           /\ (Leaves(t) /\ ~Rooted(t)) => HandleResource(t) = NotFound
<1>1. t \in Seq(Segments)
  <2>1. PICK n \in 0..MaxParts : t \in [1..n -> Segments]
    BY DEF Tails
  <2>2. MaxParts \in Nat
    BY ResourceAssumption
  <2>3. n \in Nat
    BY <2>2
  <2>. QED BY <2>1, <2>3
<1>2. Index \in Assets /\ \A a \in Assets : a \in Seq(Names) /\ a # <<>>
  BY ResourceAssumption
<1>3. GetAsset(Index) = Index
  BY <1>2, NamesAreClean DEF GetAsset
<1>4. ASSUME ~Contains(t, "..") PROVE ServeHTTP(t) = Named(t)
  <2>1. Named(t) = FileOf(Clean(t)) /\ Clean(t) \in Seq(Names)
    BY <1>1, <1>4, StraightOn, NamedIsKept
  <2>2. GetAsset(Clean(t)) = IF Clean(t) \in Assets THEN Clean(t) ELSE NotFound
    BY <2>1, NamesAreClean DEF GetAsset
  <2>. QED BY <1>3, <1>4, <2>1, <2>2 DEF ServeHTTP, FileOf
<1>5. ASSUME t \in {<<>>, <<"">>} PROVE ~Leaves(t) /\ Clean(t) = <<>>
  <2>1. <<>> \in Seq(Segments) /\ Len(<<>>) = 0
    OBVIOUS
  <2>2. <<"">> \in Seq(Segments) /\ Len(<<"">>) = 1 /\ <<"">>[1] = ""
    <3>1. \A e \in Segments : <<e>> \in Seq(Segments) /\ Len(<<e>>) = 1 /\ <<e>>[1] = e
      OBVIOUS
    <3>2. "" \in Segments
      BY ResourceAssumption
    <3>. QED BY <3>1, <3>2, Zenon
  <2>. QED BY <1>5, <2>1, <2>2, NothingNamed
<1>6. ASSUME ~Leaves(t), Clean(t) # <<>> PROVE HandleResource(t) = Named(t)
  <2>1. Named(t) = FileOf(Clean(t))
    BY <1>1, <1>6, NamedIsKept
  <2>. QED BY <1>5, <1>6, <2>1 DEF HandleResource, GetAsset, FileOf
<1>7. ASSUME Leaves(t), ~Rooted(t) PROVE HandleResource(t) = NotFound
  <2>1. Len(Clean(t)) > 0 /\ Clean(t)[1] = ".."
    BY <1>1, <1>7, LeftBehind
  <2>2. Clean(t) \notin Assets
    <3>1. SUFFICES ASSUME Clean(t) \in Seq(Names) PROVE FALSE
      BY <1>2
    <3>2. Clean(t)[1] \in Names
      BY <2>1, <3>1
    <3>. QED BY <2>1, <3>2 DEF Names
  <2>. QED BY <1>5, <1>7, <2>2 DEF HandleResource, GetAsset
<1>. QED BY <1>4, <1>6, <1>7 DEF ServeHTTP

RequestInv ==
    \/ request = Nothing
    \/ /\ request.tail \in Tails
       /\ request = [tail |-> request.tail, handler |-> ServeHTTP(request.tail),
                     host |-> HandleResource(request.tail)]

LEMMA RequestInvariant == RSpec => []RequestInv
<1>1. RInit => RequestInv
  BY DEF RInit, RequestInv
<1>2. RequestInv /\ [RNext]_<<vars, request>> => RequestInv'
  <2>. SUFFICES ASSUME RequestInv, [RNext]_<<vars, request>> PROVE RequestInv'
    OBVIOUS
  <2>1. CASE request' = request
    BY <2>1 DEF RequestInv
  <2>2. ASSUME NEW t \in Tails, Request(t) PROVE RequestInv'
    <3>1. request'.tail = t
      BY <2>2 DEF Request
    <3>. QED BY <2>2, <3>1 DEF Request, RequestInv
  <2>. QED BY <2>1, <2>2 DEF RNext
<1>. QED BY <1>1, <1>2, PTL DEF RSpec

(* For any embedded files, names and length of the path: the menu's        *)
(* handler and management.handle serve the file that the path names, and a *)
(* path that leaves assets/ is refused, by the handler with any other that *)
(* has ".." in it, by management.handle unless it starts with two slashes. *)
THEOREM FilesAreServed == RSpec => []DashboardServed
<1>1. RequestInv => DashboardServed
  <2>. SUFFICES ASSUME RequestInv, request # Nothing PROVE DashboardServed
    BY DEF DashboardServed
  <2>1. PICK t \in Tails : t = request.tail
    BY DEF RequestInv
  <2>2. request.handler = ServeHTTP(t) /\ request.host = HandleResource(t)
    BY <2>1 DEF RequestInv
  <2>. QED BY <2>1, <2>2, Served DEF DashboardServed
<1>. QED BY <1>1, RequestInvariant, PTL

(* Requests for files change nothing that LifecycleDispatcher describes:   *)
(* its theorems hold of the specification with them, the one that is run.  *)
THEOREM RequestsRead == RSpec => Spec
<1>1. RInit => Init
  BY DEF RInit
<1>2. [RNext]_<<vars, request>> => [Next]_vars
  BY DEF RNext
<1>. QED BY <1>1, <1>2, PTL DEF RSpec, Spec
=============================================================================
