----------------------- MODULE MCLifecycleDispatcher -----------------------
(* Two calls, the menu entry and another route; a registration with OAuth  *)
(* and one without; paths of up to four parts.                             *)
EXTENDS PluginResources

TwoRegistrations ==
    {[id |-> "custom", menus |-> "", supportsOAuth |-> TRUE, oauthProvider |-> "claude"],
     [id |-> "", menus |-> "custom", supportsOAuth |-> FALSE, oauthProvider |-> ""]}
TwoConfigs == {NoConfig, [k \in {"theme"} |-> "dark"]}
TwoAssets == {Index, <<"js", "index.html">>}
PathParts == {"", ".", "..", "js", "index.html"}
=============================================================================
