-------------------------- MODULE MCEgoAccounting --------------------------
(* A provider of each kind, and price lists with and without cache rates.  *)
EXTENDS EgoAccounting

AllProviders == {"claude", "antigravity", "codex", "openai-compatible-claude",
                 "my-claude-endpoint"}
Compat == {"openai-compatible-claude"}
Claude == {"claude", "openai-compatible-claude", "my-claude-endpoint"}
Gemini == {"antigravity"}

NativeSources == {<<p, "native">> : p \in AllProviders} \cup {<<"codex", "openaicompat">>}
ASSUME NativeAssumption == NamesTell(NativeSources)

CompatSources == {<<"my-claude-endpoint", "openaicompat">>}

(* Every kind of token, of requests that have no speed; and requests of    *)
(* the same few tokens with every kind of outcome and time.                *)
Counted == {u \in [fresh : 0..1, read : 0..1, created : 0..1, visible : 0..1, thought : 0..2,
                   failed : {FALSE}, stream : {FALSE}, first : {0}, done : {0}] :
               u.read + u.created < 2}
Timed == [fresh : {1}, read : {0}, created : {0}, visible : {1, 2}, thought : {1},
          failed : BOOLEAN, stream : BOOLEAN, first : {0, 1}, done : {0, 1, 2, 4}]
SmallUsages == Counted \cup Timed
PriceLists == {[input |-> 4, output |-> 7, read |-> 0, created |-> 0],
               [input |-> 8, output |-> 9, read |-> 1, created |-> 11]}
=============================================================================
