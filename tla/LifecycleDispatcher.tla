------------------------ MODULE LifecycleDispatcher ------------------------
(***************************************************************************)
(* The lifecycle dispatcher (internal/lifecycle/events.go): registration   *)
(* of the plugin, its configuration, its routes, and their registration    *)
(* with the host's router, called from many goroutines.  A section under   *)
(* Dispatcher.mu is one action; what happens between two sections of a     *)
(* call is not.  Handlers are numbered in the order they were bound.       *)
(***************************************************************************)
EXTENDS Naturals

CONSTANTS Calls,         \* room for concurrent calls
          Paths,         \* paths of routes
          MenuPath,      \* DefaultManagementResourcePath
          Registrations, \* payloads of plugin.register
          Configs,       \* payloads of plugin.reconfigure
          MaxHandlers    \* bound on handlers bound to routes

ASSUME DispatcherAssumption ==
    /\ MenuPath \in Paths
    /\ MaxHandlers \in Nat \ {0}
    /\ Registrations \subseteq [id : STRING, menus : STRING,
                               supportsOAuth : BOOLEAN, oauthProvider : STRING]

VARIABLES routes,      \* the newest handler of each path, or NoHandler
          hostRoutes,  \* what the host's router has for each path
          handlers,    \* how many handlers were bound
          metadata, config,
          call         \* where each call is

(* History, read by no action: the calls no other call of their kind has   *)
(* overlapped; and what the host was given by registrations that succeeded *)
(* alone.                                                                  *)
VARIABLES alone, promised

vars == <<routes, hostRoutes, handlers, metadata, config, call, alone, promised>>
hostVars == <<hostRoutes, promised>>

-----------------------------------------------------------------------------
NoHandler == 0
ResourceHandler == 1  \* its files are in PluginResources

Empty == ""
NoFields == [f \in {} |-> Empty]
NoConfig == NoFields

Idle == [stage |-> "idle"]

At(stage) == {c \in Calls : call[c].stage = stage}

Goes(c, state) == call' = [call EXCEPT ![c] = state]

(* NewDispatcher, and an empty MapManagementRouter.                        *)
Init ==
    /\ routes = [p \in Paths |-> IF p = MenuPath THEN ResourceHandler ELSE NoHandler]
    /\ hostRoutes = [p \in Paths |-> NoHandler] /\ promised = hostRoutes
    /\ handlers = ResourceHandler
    /\ metadata = [id |-> "control-account", menus |-> "default",
                   supportsOAuth |-> FALSE, oauthProvider |-> Empty]
    /\ config = NoConfig
    /\ call = [c \in Calls |-> Idle] /\ alone = {}

(* Calls that keep mu between two steps: OnManagementRegister copies the   *)
(* routes to be free of it when it calls the router.                       *)
HoldersRegistering == At("registering")  \* fault: it keeps mu

Holders == {}

Return(c) ==
    /\ call[c].stage \in {"registered", "failed", "answered", "served", "declined", "refused"}
    /\ Goes(c, Idle)
    /\ UNCHANGED <<routes, hostVars, handlers, metadata, config, alone>>

-----------------------------------------------------------------------------
RegisterRoute(p) ==
    /\ Holders = {}
    /\ handlers < MaxHandlers
    /\ handlers' = handlers + 1
    /\ routes' = [routes EXCEPT ![p] = handlers']
    /\ UNCHANGED <<hostVars, metadata, config, call, alone>>

(* OnManagementRegister: the copy of the routes, under mu.                 *)
Snapshot(c) ==
    /\ c \in At("idle") /\ Holders = {}
    /\ Goes(c, [stage |-> "registering", seen |-> routes,
                rest |-> {p \in Paths : routes[p] # NoHandler}])
    /\ alone' = IF At("registering") = {} THEN alone \cup {c} ELSE alone \ At("registering")
    /\ UNCHANGED <<routes, hostVars, handlers, metadata, config>>

(* The router is asked for one route after the other, in any order.  It    *)
(* may look at the dispatcher while it is.                                 *)
RegisterResource(c) ==
    /\ c \in At("registering") /\ Holders = {}
    /\ \E p \in call[c].rest :
           /\ hostRoutes' = [hostRoutes EXCEPT ![p] = call[c].seen[p]]
           /\ Goes(c, [call[c] EXCEPT !.rest = @ \ {p}])
    /\ UNCHANGED <<routes, promised, handlers, metadata, config, alone>>

RouterSkips(c) ==  \* fault: a refused route is logged and left out
    /\ c \in At("registering") /\ Holders = {}
    /\ \E p \in call[c].rest : Goes(c, [call[c] EXCEPT !.rest = @ \ {p}])
    /\ UNCHANGED <<routes, hostVars, handlers, metadata, config, alone>>

(* The router refuses a route, an empty path or a handler that is nil, or  *)
(* fails: the routes before it stay with it.                               *)
RouterFails(c) ==
    /\ c \in At("registering") /\ Holders = {} /\ call[c].rest # {}
    /\ Goes(c, [stage |-> "failed"])
    /\ alone' = alone \ {c}
    /\ UNCHANGED <<routes, hostVars, handlers, metadata, config>>

RegisterEnds(c) ==
    /\ c \in At("registering") /\ call[c].rest = {}
    /\ Goes(c, [stage |-> "registered"])
    /\ promised' = IF c \in alone THEN call[c].seen ELSE promised
    /\ alone' = alone \ {c}
    /\ UNCHANGED <<routes, hostRoutes, handlers, metadata, config>>

-----------------------------------------------------------------------------
(* OnPluginRegister: what a payload sets replaces what was there; the two  *)
(* fields of OAuth are taken as they come.                                 *)
Or(new, old) == IF new # Empty THEN new ELSE old

MergedByField(reg) ==  \* fault: the provider stays when none is given
    [id |-> Or(reg.id, metadata.id), menus |-> Or(reg.menus, metadata.menus),
     supportsOAuth |-> reg.supportsOAuth,
     oauthProvider |-> Or(reg.oauthProvider, metadata.oauthProvider)]

Merged(reg) ==
    [id |-> Or(reg.id, metadata.id), menus |-> Or(reg.menus, metadata.menus),
     supportsOAuth |-> reg.supportsOAuth, oauthProvider |-> reg.oauthProvider]

(* DispatchEvent of plugin.register: OnPluginRegister, then GetMetadata    *)
(* under a lock of its own.                                                *)
OnPluginRegister(c, reg) ==
    /\ c \in At("idle") /\ Holders = {}
    /\ metadata' = Merged(reg)
    /\ Goes(c, [stage |-> "merged", reg |-> reg])
    /\ alone' = (alone \ At("merged")) \cup {c}
    /\ UNCHANGED <<routes, hostVars, handlers, config>>

(* The payload of plugin.register is nil: nothing is merged.               *)
RegisterNothing(c) ==
    /\ c \in At("idle") /\ Holders = {}
    /\ Goes(c, [stage |-> "merged", reg |-> NoFields])
    /\ alone' = (alone \ At("merged")) \cup {c}
    /\ UNCHANGED <<routes, hostVars, handlers, metadata, config>>

GetMetadata(c) ==
    /\ c \in At("merged") /\ Holders = {}
    /\ Goes(c, [stage |-> "answered", reg |-> call[c].reg, answer |-> metadata,
                undisturbed |-> c \in alone])
    /\ alone' = alone \ {c}
    /\ UNCHANGED <<routes, hostVars, handlers, metadata, config>>

(* OnPluginReconfigure replaces the configuration by a copy; nil clears it. *)
OnPluginReconfigure(cfg) ==
    /\ Holders = {}
    /\ config' = cfg
    /\ UNCHANGED <<routes, hostVars, handlers, metadata, call, alone>>

(* DispatchEvent of an event nobody hooks, or of a payload of another type. *)
Refuse(c) ==
    /\ c \in At("idle")
    /\ Goes(c, [stage |-> "refused"])
    /\ UNCHANGED <<routes, hostVars, handlers, metadata, config, alone>>

-----------------------------------------------------------------------------
(* OnManagementHandle: a request arrives; its route is looked up, and the  *)
(* handler found serves it.                                                *)
Arrive(c, p) ==
    /\ c \in At("idle")
    /\ Goes(c, [stage |-> "arrived", path |-> p])
    /\ UNCHANGED <<routes, hostVars, handlers, metadata, config, alone>>

GetRoute(p) == routes[p]

OnManagementHandle(c) ==
    LET h == GetRoute(call[c].path) IN
    /\ c \in At("arrived") /\ Holders = {}
    /\ Goes(c, [stage |-> IF h = NoHandler THEN "declined" ELSE "served", by |-> h])
    /\ UNCHANGED <<routes, hostVars, handlers, metadata, config, alone>>

-----------------------------------------------------------------------------
Proceed(c) ==
    \/ RegisterResource(c) \/ RouterFails(c) \/ RegisterEnds(c)
    \/ GetMetadata(c) \/ OnManagementHandle(c)

Next ==
    \/ \E p \in Paths : RegisterRoute(p)
    \/ \E c \in Calls :
           \/ Snapshot(c) \/ Refuse(c) \/ Return(c) \/ Proceed(c)
           \/ RegisterNothing(c)
           \/ \E reg \in Registrations : OnPluginRegister(c, reg)
           \/ \E p \in Paths : Arrive(c, p)
    \/ \E cfg \in Configs : OnPluginReconfigure(cfg)

Spec == Init /\ [][Next]_vars

(* Goroutines run, and the router answers each call.                       *)
FairSpec == Spec /\ \A c \in Calls : WF_vars(Proceed(c))

-----------------------------------------------------------------------------
(* A registration that reported success, and that no other overlapped, has *)
(* left the router with the routes it saw or newer ones, for good: none is *)
(* missing, and no later registration, failed or not, brings an older      *)
(* handler back.                                                           *)
HostKeepsUp == \A p \in Paths : hostRoutes[p] >= promised[p]

(* The answer to plugin.register holds what its payload set, and both      *)
(* fields of OAuth as the payload has them, never the provider of another  *)
(* one; unless another registration came between its two sections          *)
(* (events.go:285).                                                        *)
AnswerIsOwn ==
    \A c \in At("answered") : call[c].undisturbed =>
        LET reg == call[c].reg IN
        \A f \in DOMAIN reg :
            (f \in {"supportsOAuth", "oauthProvider"} \/ reg[f] # Empty) =>
                call[c].answer[f] = reg[f]

Waiting == At("registering") \cup At("merged") \cup At("arrived")

(* Every call comes back, although the router may call the dispatcher      *)
(* while routes are registered with it.                                    *)
CallsReturn == \A c \in Calls : c \in Waiting ~> c \notin Waiting
=============================================================================
