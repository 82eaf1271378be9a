---------------------------- MODULE MCEgoProcess ----------------------------
(* Two calls at a time.  A pinned model in lower case and one with         *)
(* capitals; a model with a rate in older versions only, whose name is the *)
(* second in lower case; other spellings of the three; a confirmed alias.  *)
EXTENDS EgoProcess, TLC

CONSTANTS pinned, capital, obsolete, padded, upper, alias

SomeModels == {pinned, capital, obsolete}
SomeNames == SomeModels \cup {padded, upper, alias}
LowerCase == [n \in SomeNames |-> CASE n = padded -> pinned
                                     [] n \in {capital, upper} -> obsolete
                                     [] OTHER -> n]
OneAlias == alias :> pinned
Pins == pinned :> 1 @@ capital :> 3 @@ obsolete :> None
OldRate == {2}
=============================================================================
