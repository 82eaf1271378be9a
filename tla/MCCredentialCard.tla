-------------------------- MODULE MCCredentialCard --------------------------
(* Two PATCH requests can overlap, because a render unlocks the switch.    *)
(* The card and the prefix editor are parts of one page that share no      *)
(* state, so their interleavings show nothing new: each is explored from   *)
(* its initial states while the other stays in one of its own.  The card   *)
(* starts with all its credits, of which Codex may refuse to take any.     *)
EXTENDS CredentialCard, MCPrefixEditor, TLC

CONSTANTS p1, p2

TwoPatches == {p1, p2}
Symmetry == Permutations(TwoPatches)

EditorRests == input = p /\ local = [file \in Files |-> p] /\ EditorInit
CardRests == available = 0 /\ hostDisabled = FALSE /\ Init

PageInit == (available = MaxCredits /\ Init /\ EditorRests) \/ (CardRests /\ EditorInit)

PageNext ==
    \/ EditorRests /\ Next /\ UNCHANGED editorVars
    \/ CardRests /\ EditorNext /\ UNCHANGED vars

PageSpec == PageInit /\ [][PageNext]_<<vars, editorVars>>
=============================================================================
