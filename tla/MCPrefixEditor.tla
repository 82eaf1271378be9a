--------------------------- MODULE MCPrefixEditor ---------------------------
(* Two credentials, two prefixes, three saves: one may fail, one be late. *)
EXTENDS PrefixEditor

CONSTANTS f, g, p, q, s1, s2, s3

TwoFiles == {f, g}
TwoPrefixes == {p, q}
ThreeSaves == {s1, s2, s3}
=============================================================================
