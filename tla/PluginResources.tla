-------------------------- MODULE PluginResources --------------------------
(***************************************************************************)
(* The two ways to the embedded files of the dashboard: the handler of the *)
(* dispatcher (internal/handlers/resource.go) and the branch for resources *)
(* of management.handle (main.go), both over GetAsset                      *)
(* (internal/web/embed.go).                                                *)
(*                                                                         *)
(* What follows the menu path in a request is the sequence of what stands  *)
(* between its slashes, without the first slash, which both trim: <<>> and *)
(* <<"">> are nothing and a slash, <<"", "a">> starts with two slashes.    *)
(***************************************************************************)
EXTENDS LifecycleDispatcher, Integers, FiniteSets, SequencesExt

CONSTANTS Assets,   \* the embedded files, as paths under assets/
          Segments, \* "", ".", "..", and names, of which none begins with ".."
          MaxParts  \* bound on the length of a path

Index == <<"index.html">>

Names == Segments \ {"", ".", ".."}

ASSUME ResourceAssumption ==
    /\ Index \in Assets /\ MaxParts \in Nat
    /\ {"", ".", ".."} \subseteq Segments
    /\ Assets \subseteq Seq(Names) \ {<<>>}

VARIABLE request  \* what was asked for, and what each way serves

NotFound == <<"404">>

Tails == UNION {[1..n -> Segments] : n \in 0..MaxParts}

Rooted(tail) == Len(tail) > 1 /\ tail[1] = ""

CleanFlat(tail) ==  \* fault: ".." is an ordinary name
    SelectSeq(tail, LAMBDA s : s \notin {"", "."})

(* path.Clean, without a leading slash: a name before ".." goes with it.   *)
Clean(tail) ==
    LET Step(kept, s) ==
            CASE s \in {"", "."} -> kept
              [] s = ".." /\ kept # <<>> /\ Last(kept) # ".." -> Front(kept)
              [] s = ".." /\ kept = <<>> /\ Rooted(tail) -> kept
              [] OTHER -> Append(kept, s)
    IN  FoldLeft(LAMBDA kept, s : Step(kept, s), <<>>, tail)

(* Nothing left, or a way out of assets/, is refused.                      *)
GetAsset(name) == IF Clean(name) \in Assets THEN Clean(name) ELSE NotFound

(* ResourceHandler.ServeHTTP of a GET under its base path.                 *)
ServeHTTP(tail) ==
    IF Contains(tail, "..") THEN NotFound
    ELSE IF Clean(tail) = <<>> THEN GetAsset(Index) ELSE GetAsset(Clean(tail))

(* handleManagementHTTP outside /v0/management/ego, of any method.         *)
HandleResource(tail) ==
    IF tail \in {<<>>, <<"">>} THEN GetAsset(Index) ELSE GetAsset(tail)

Nothing == [tail |-> <<>>, handler |-> NotFound, host |-> NotFound]

Request(tail) ==
    request' = [tail |-> tail, handler |-> ServeHTTP(tail), host |-> HandleResource(tail)]

(* Files are served without a look at the dispatcher's state and leave it  *)
(* alone, so its first state is enough to ask for them in.                 *)
RNext ==
    \/ request = Nothing /\ Next /\ UNCHANGED request
    \/ request = Nothing /\ Init /\ (\E t \in Tails : Request(t)) /\ UNCHANGED vars

RInit == Init /\ request = Nothing

RSpec ==
    /\ RInit
    /\ [][RNext]_<<vars, request>>
    /\ \A c \in Calls : WF_vars(Proceed(c))

-----------------------------------------------------------------------------
(* The reference: a path is a walk from assets/ through its names; how     *)
(* deep it is after its first k parts; whether it leaves assets/; and the  *)
(* names it never climbed out of again, which are the file.                *)
Depth(tail, k) ==
    LET Count(S) == Cardinality({i \in 1..k : tail[i] \in S}) IN
    Count(Names) - Count({".."})

Leaves(tail) == \E k \in DOMAIN tail : Depth(tail, k) < 0

Named(tail) ==
    LET stays == {i \in DOMAIN tail :
                      /\ tail[i] \notin {"", ".", ".."}
                      /\ \A k \in i..Len(tail) : Depth(tail, k) >= Depth(tail, i)}
        names == [n \in 1..Cardinality(stays) |->
                      tail[CHOOSE i \in stays : Cardinality({j \in stays : j <= i}) = n]]
    IN  IF names = <<>> THEN Index ELSE IF names \in Assets THEN names ELSE NotFound

(* The handler of the menu entry and management.handle serve the same      *)
(* files: the one a path names.  They differ where the handler refuses     *)
(* ".." altogether, and takes a path of empty parts for the page itself.   *)
DashboardServed ==
    LET t == request.tail IN
    request # Nothing =>
        /\ request.handler = IF Contains(t, "..") THEN NotFound ELSE Named(t)
        /\ (~Leaves(t) /\ Clean(t) # <<>>) => request.host = Named(t)
        /\ (Leaves(t) /\ ~Rooted(t)) => request.host = NotFound
=============================================================================
