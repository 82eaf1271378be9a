-------------------------- MODULE EgoStorageProofs --------------------------
(***************************************************************************)
(* Proofs about EgoStorage and EgoChart: for any number of requests,       *)
(* events and groups, what an answer says of parts adds up to what it says *)
(* of the whole; and for any zones, clocks and bars, a chart follows the   *)
(* events it was drawn from.                                               *)
(***************************************************************************)
EXTENDS EgoChart, FiniteSetTheorems, WellFoundedInduction, TLAPS

(* Sums over sets.  MapThenSumSet takes the elements in the order in which *)
(* CHOOSE picks them; g holds its results for the subsets of S, and n what *)
(* is added for each element.                                              *)
Picked(s) == CHOOSE x \in s : TRUE

Adds(S, n, g) ==
    g = [s \in SUBSET S |-> IF s = {} THEN 0 ELSE n[Picked(s)] + g[s \ {Picked(s)}]]

LEMMA PickedIn == ASSUME NEW s, s # {} PROVE Picked(s) \in s
BY DEF Picked

(* There is one such sum: two would differ first in some smallest subset,  *)
(* but agree on that without one of its elements.                          *)
LEMMA OneSum ==
    ASSUME NEW S, IsFiniteSet(S), NEW n, NEW g, NEW h, Adds(S, n, g), Adds(S, n, h)
    PROVE  \A s \in SUBSET S : g[s] = h[s]
<1>. DEFINE T == {s \in SUBSET S : g[s] # h[s]}
<1>. SUFFICES ASSUME T # {} PROVE FALSE
  OBVIOUS
<1>1. IsWellFoundedOn(StrictSubsetOrdering(S), SUBSET S)
  BY FS_StrictSubsetOrderingWellFounded, FS_FiniteSubsetsOfFinite
<1>2. PICK s \in T : \A t \in T : ~(<<t, s>> \in StrictSubsetOrdering(S))
  BY <1>1, WFMin, T \subseteq SUBSET S
<1>3. s # {}
  BY DEF Adds
<1>. DEFINE t == s \ {Picked(s)}
<1>4. t \in SUBSET S /\ t \subseteq s /\ t # s
  BY <1>3, PickedIn
<1>5. <<t, s>> \in StrictSubsetOrdering(S)
  BY <1>4 DEF StrictSubsetOrdering
<1>6. g[t] = h[t]
  BY <1>2, <1>4, <1>5
<1>7. g[s] = n[Picked(s)] + g[t] /\ h[s] = n[Picked(s)] + h[t]
  BY <1>3 DEF Adds
<1>. QED BY <1>6, <1>7

(* Rows counted label by label are counted once.                           *)
Labelled(R, lab, X) == {r \in R : lab[r] \in X}

CountsLabels(n, R, lab, S) == \A x \in S : n[x] = Cardinality(Labelled(R, lab, {x}))

LabelsCounted(R, lab, S) == [s \in SUBSET S |-> Cardinality(Labelled(R, lab, s))]

LEMMA LabelsAdd ==
    ASSUME NEW R, IsFiniteSet(R), NEW S, NEW lab, NEW n, CountsLabels(n, R, lab, S)
    PROVE  Adds(S, n, LabelsCounted(R, lab, S))
<1>. DEFINE of(s) == Labelled(R, lab, s)
            h == LabelsCounted(R, lab, S)
<1>1. ASSUME NEW s \in SUBSET S, s # {}
      PROVE  h[s] = n[Picked(s)] + h[s \ {Picked(s)}]
  <2>. DEFINE x == Picked(s)
              A == of({x})
              B == of(s \ {x})
  <2>1. x \in s /\ x \in S
    BY <1>1, PickedIn
  <2>2. of(s) = A \cup B /\ A \cap B = {}
    BY <2>1 DEF Labelled
  <2>3. IsFiniteSet(A) /\ IsFiniteSet(B)
    BY FS_Subset DEF Labelled
  <2>4. Cardinality(A \cup B) = Cardinality(A) + Cardinality(B)
    <3>. HIDE DEF A, B
    <3>1. Cardinality(A \cap B) = 0 /\ Cardinality(A) \in Nat /\ Cardinality(B) \in Nat
      BY <2>2, <2>3, FS_EmptySet, FS_CardinalityType
    <3>2. Cardinality(A \cup B) = Cardinality(A) + Cardinality(B) - Cardinality(A \cap B)
      BY <2>3, FS_Union
    <3>. QED BY <3>1, <3>2
  <2>5. n[x] = Cardinality(A) /\ h[s] = Cardinality(of(s)) /\ h[s \ {x}] = Cardinality(B)
    BY <2>1 DEF CountsLabels, LabelsCounted
  <2>. QED BY <2>2, <2>4, <2>5
<1>2. h[{}] = 0
  <2>1. of({}) = {}
    BY DEF Labelled
  <2>. QED BY <2>1, FS_EmptySet DEF LabelsCounted
<1>3. h = [s \in SUBSET S |-> h[s]]
  BY DEF LabelsCounted
<1>. HIDE DEF h
<1>4. \A s \in SUBSET S : h[s] = IF s = {} THEN 0 ELSE n[Picked(s)] + h[s \ {Picked(s)}]
  BY <1>1, <1>2
<1>5. Adds(S, n, h)
  BY <1>3, <1>4, Zenon DEF Adds
<1>. QED BY <1>5 DEF h

LEMMA LabelsAddUp ==
    ASSUME NEW R, IsFiniteSet(R), NEW S, IsFiniteSet(S), NEW lab, NEW n,
           CountsLabels(n, R, lab, S), NEW g, Adds(S, n, g)
    PROVE  g[S] = Cardinality(Labelled(R, lab, S))
<1>1. Adds(S, n, LabelsCounted(R, lab, S))
  BY LabelsAdd
<1>2. LabelsCounted(R, lab, S)[S] = Cardinality(Labelled(R, lab, S))
  BY DEF LabelsCounted
<1>. QED BY <1>1, <1>2, OneSum

(* The loop over the groups of the second statement of a summary.          *)
LEMMA RequestsCounted ==
    ASSUME NEW w, IsFiniteSet(Select(w)), NEW G, IsFiniteSet(G)
    PROVE  RequestsOf(w, G) = Cardinality({r \in Select(w) : r.group \in G})
<1>. DEFINE R == Select(w)
            lab == [r \in R |-> r.group]
            n == [g \in G |-> Cardinality({r \in R : r.group = g})]
            It(it) == it = [s \in SUBSET G |->
                               IF s = {} THEN 0
                               ELSE Cardinality({r \in R : r.group = Picked(s)})
                                        + it[s \ {Picked(s)}]]
<1>1. ASSUME NEW it PROVE It(it) <=> Adds(G, n, it)
  <2>1. \A s \in SUBSET G : s # {} => Picked(s) \in G
    BY PickedIn
  <2>2. \A s \in SUBSET G : s # {} =>
            n[Picked(s)] = Cardinality({r \in R : r.group = Picked(s)})
    BY <2>1
  <2>. HIDE DEF n
  <2>. QED BY <2>2 DEF Adds
<1>2. RequestsOf(w, G) = (CHOOSE it : It(it))[G]
  BY DEF RequestsOf, MapThenSumSet, MapThenFoldSet, Picked
<1>3. CountsLabels(n, R, lab, G)
  <2>1. \A g \in G : Labelled(R, lab, {g}) = {r \in R : r.group = g}
    BY DEF Labelled
  <2>. QED BY <2>1 DEF CountsLabels
<1>4. Labelled(R, lab, G) = {r \in R : r.group \in G}
  BY DEF Labelled
<1>5. IsFiniteSet(R)
  OBVIOUS
<1>6. Cardinality({r \in Select(w) : r.group \in G}) = Cardinality(Labelled(R, lab, G))
  BY <1>4
<1>. HIDE DEF R, n, It, lab
<1>7. \E it : It(it)
  BY <1>1, <1>3, <1>5, LabelsAdd
<1>8. Adds(G, n, CHOOSE it : It(it))
  BY <1>1, <1>7
<1>. QED BY <1>2, <1>3, <1>5, <1>6, <1>8, LabelsAddUp

(* The points of a timeline, and the groups of a ranking. *)
LEMMA PointsAddUp ==
    ASSUME NEW P, IsFiniteSet(P), NEW R, IsFiniteSet(R), NEW lab, NEW n,
           n = [p \in P |-> p.requests], CountsLabels(n, R, lab, P)
    PROVE  Requested(P) = Cardinality(Labelled(R, lab, P))
<1>. DEFINE It(it) == it = [s \in SUBSET P |->
                               IF s = {} THEN 0 ELSE Picked(s).requests + it[s \ {Picked(s)}]]
<1>1. ASSUME NEW it PROVE It(it) <=> Adds(P, n, it)
  <2>1. \A s \in SUBSET P : s # {} => n[Picked(s)] = Picked(s).requests
    BY PickedIn
  <2>. QED BY <2>1 DEF Adds
<1>2. Requested(P) = (CHOOSE it : It(it))[P]
  BY DEF Requested, MapThenSumSet, MapThenFoldSet, Picked
<1>. HIDE DEF It
<1>3. \E it : It(it)
  BY <1>1, LabelsAdd
<1>4. Adds(P, n, CHOOSE it : It(it))
  BY <1>1, <1>3
<1>. QED BY <1>2, <1>4, LabelsAddUp

LEMMA ListAddsUp ==
    ASSUME NEW L, IsFiniteSet(L), NEW R, IsFiniteSet(R), NEW lab, NEW list,
           DOMAIN list = L, CountsLabels(list, R, lab, L)
    PROVE  Ranked(list) = Cardinality(Labelled(R, lab, L))
<1>. DEFINE It(it) == it = [s \in SUBSET L |->
                               IF s = {} THEN 0 ELSE list[Picked(s)] + it[s \ {Picked(s)}]]
<1>1. ASSUME NEW it PROVE It(it) <=> Adds(L, list, it)
  BY DEF Adds
<1>2. Ranked(list) = (CHOOSE it : It(it))[L]
  BY DEF Ranked, MapThenSumSet, MapThenFoldSet, Picked
<1>. HIDE DEF It
<1>3. \E it : It(it)
  BY <1>1, LabelsAdd
<1>4. Adds(L, list, CHOOSE it : It(it))
  BY <1>1, <1>3
<1>. QED BY <1>2, <1>4, LabelsAddUp

-----------------------------------------------------------------------------
(* The table, and what a summary has counted in it: while the request      *)
(* holds its read lock, nobody changes what it counted.                    *)
TableInv ==
    /\ now \in Nat /\ lastId \in Nat
    /\ \A r \in rows : r.id \in Nat /\ r.ts \in Nat /\ r.group \in Groups /\ r.ok \in BOOLEAN
    /\ IsFiniteSet(rows)
    /\ query = [q \in Requests |-> query[q]]

Succeeded(w) == {r \in Select(w) : r.ok}
Failed(w) == {r \in Select(w) : ~r.ok}

CountedInv ==
    \A q \in Readers :
        LET w == query[q].window IN
        /\ query[q].total = Cardinality(Select(w))
        /\ query[q].success = Cardinality(Succeeded(w))
        /\ query[q].failed = Cardinality(Failed(w))

LEMMA Finitely ==
    ASSUME TableInv, NEW w
    PROVE  IsFiniteSet(Select(w)) /\ IsFiniteSet(Succeeded(w)) /\ IsFiniteSet(Failed(w))
BY FS_Subset DEF TableInv, Select, Succeeded, Failed

(* Two parts without a common row, and everything in one of them. *)
LEMMA Halves ==
    ASSUME NEW R, IsFiniteSet(R), NEW A, NEW B, A \cup B = R, A \cap B = {}
    PROVE  /\ Cardinality(R) = Cardinality(A) + Cardinality(B)
           /\ Cardinality(A) \in Nat /\ Cardinality(B) \in Nat
<1>1. IsFiniteSet(A) /\ IsFiniteSet(B)
  BY FS_Subset
<1>2. Cardinality(A \cap B) = 0 /\ Cardinality(A) \in Nat /\ Cardinality(B) \in Nat
  BY <1>1, FS_EmptySet, FS_CardinalityType
<1>3. Cardinality(A \cup B) = Cardinality(A) + Cardinality(B) - Cardinality(A \cap B)
  BY <1>1, FS_Union
<1>4. Cardinality(A \cup B) = Cardinality(R)
  OBVIOUS
<1>. QED BY <1>2, <1>3, <1>4

LEMMA GroupsFinite == ASSUME NEW G \in SUBSET Groups PROVE IsFiniteSet(G)
BY StorageAssumption, FS_Subset

(* The answer to a summary. *)
LEMMA SummaryPriced ==
    ASSUME TableInv, CountedInv, NEW q \in Requests, Price(q)
    PROVE  /\ query'[q].total = query'[q].success + query'[q].failed
           /\ query'[q].total = query'[q].priced + query'[q].unpriced
           /\ query'[q].isPartial <=> query'[q].priced < query'[q].total
<1>. DEFINE w == query[q].window
            A == {r \in Select(w) : r.group \in Priced}
            B == {r \in Select(w) : r.group \in Groups \ Priced}
<1>1. q \in Readers /\ IsFiniteSet(Select(w))
  BY Finitely DEF Price, Readers
<1>2. /\ query'[q].total = query[q].total /\ query'[q].success = query[q].success
      /\ query'[q].failed = query[q].failed
      /\ query'[q].unpriced = RequestsOf(w, Groups \ Priced)
      /\ query'[q].priced = RequestsOf(w, Priced)
  BY DEF Price, TableInv
<1>6. query'[q].isPartial <=> RequestsOf(w, Groups \ Priced) > 0
  BY DEF Price, TableInv
<1>3. Cardinality(Select(w)) = Cardinality(Succeeded(w)) + Cardinality(Failed(w))
  <2>1. Succeeded(w) \cup Failed(w) = Select(w) /\ Succeeded(w) \cap Failed(w) = {}
    BY DEF Succeeded, Failed
  <2>. QED BY <1>1, <2>1, Halves
<1>4. /\ Cardinality(Select(w)) = Cardinality(A) + Cardinality(B)
      /\ Cardinality(A) \in Nat /\ Cardinality(B) \in Nat
  <2>1. A \cup B = Select(w) /\ A \cap B = {}
    BY DEF TableInv, Select
  <2>. HIDE DEF A, B
  <2>. QED BY <1>1, <2>1, Halves
<1>5. RequestsOf(w, Priced) = Cardinality(A) /\ RequestsOf(w, Groups \ Priced) = Cardinality(B)
  BY <1>1, RequestsCounted, GroupsFinite, StorageAssumption
<1>. HIDE DEF A, B
<1>7. /\ query[q].total = Cardinality(Select(w))
      /\ query[q].success = Cardinality(Succeeded(w)) /\ query[q].failed = Cardinality(Failed(w))
  BY <1>1 DEF CountedInv
<1>8. query'[q].total = query'[q].success + query'[q].failed
  BY <1>2, <1>3, <1>7
<1>9. query'[q].total = query'[q].priced + query'[q].unpriced
  BY <1>2, <1>4, <1>5, <1>7
<1>10. RequestsOf(w, Groups \ Priced) > 0 <=> query'[q].priced < query'[q].total
  BY <1>2, <1>4, <1>5, <1>7
<1>. QED BY <1>6, <1>8, <1>9, <1>10

-----------------------------------------------------------------------------
(* The hours of Today.                                                     *)
LEMMA WholeHours ==
    ASSUME NEW d \in Nat, NEW h \in Nat, h > 0
    PROVE  /\ (d \div h) * h \in Nat /\ (d \div h) * h <= d /\ d < (d \div h) * h + h
           /\ ((d \div h) * h) % h = 0
<1>1. d \div h \in Nat
  OBVIOUS
<1>2. (d \div h) * h <= d /\ d < (d \div h) * h + h
  OBVIOUS
<1>3. \A k \in Nat : k * h \in Nat /\ (k * h) % h = 0
  OBVIOUS
<1>. QED BY <1>1, <1>2, <1>3

(* The point of a bucket. *)
PointAt(w, b) ==
    [bucket |-> b, requests |-> Cardinality(InBucket(w, b)),
     timestamp |-> IF w.kind = "today" THEN b ELSE Min({r.ts : r \in InBucket(w, b)})]

Windows == TodayWindows \cup {LegacyWindow}

LEMMA TimelineWhole ==
    ASSUME TableInv, NEW w, NEW points,
           points = {PointAt(w, b) : b \in {Bucket(w, r.ts) : r \in Select(w)}}
    PROVE  Cardinality(Select(w)) = Requested(points)
<1>. DEFINE R == Select(w)
            lab == [r \in R |-> PointAt(w, Bucket(w, r.ts))]
            n == [p \in points |-> p.requests]
<1>1. IsFiniteSet(R)
  BY Finitely
<1>2. lab \in Surjection(R, points)
  BY DEF Surjection
<1>3. IsFiniteSet(points)
  BY <1>1, <1>2, FS_Surjection
<1>4. \A b, c : PointAt(w, b) = PointAt(w, c) => b = c
  BY DEF PointAt
<1>5. ASSUME NEW p \in points PROVE p.requests = Cardinality(Labelled(R, lab, {p}))
  <2>1. PICK x \in R : p = PointAt(w, Bucket(w, x.ts))
    OBVIOUS
  <2>. DEFINE b == Bucket(w, x.ts)
  <2>2. Labelled(R, lab, {p}) = InBucket(w, b)
    BY <1>4, <2>1 DEF Labelled, InBucket
  <2>3. p.requests = Cardinality(InBucket(w, b))
    BY <2>1 DEF PointAt
  <2>. QED BY <2>2, <2>3
<1>6. CountsLabels(n, R, lab, points)
  BY <1>5 DEF CountsLabels
<1>7. Labelled(R, lab, points) = R
  BY DEF Labelled
<1>. HIDE DEF lab, n
<1>8. n = [p \in points |-> p.requests]
  BY DEF n
<1>. QED BY <1>1, <1>3, <1>6, <1>7, <1>8, PointsAddUp

LEMMA TimelineOnTheHour ==
    ASSUME TableInv, NEW w, w.kind = "today", w.start \in Nat, w.end \in Nat, w.end > 0,
           NEW r \in Select(w)
    PROVE  LET b == Bucket(w, r.ts) IN
           /\ (b - w.start) % Hour = 0
           /\ w.start <= b /\ b < w.end
           /\ b <= r.ts /\ r.ts < b + Hour
<1>1. r.ts \in Nat /\ r.ts >= w.start /\ r.ts < w.end
  BY DEF TableInv, Select
<1>2. Hour \in Nat /\ Hour > 0
  BY StorageAssumption
<1>. DEFINE d == r.ts - w.start
            m == (d \div Hour) * Hour
<1>3. d \in Nat
  BY <1>1
<1>4. m \in Nat /\ m <= d /\ d < m + Hour /\ m % Hour = 0
  BY <1>2, <1>3, WholeHours
<1>5. Bucket(w, r.ts) = w.start + m
  BY DEF Bucket
<1>. HIDE DEF m
<1>6. (w.start + m) - w.start = m
  BY <1>4
<1>. QED BY <1>1, <1>2, <1>4, <1>5, <1>6

TimelineFits(t) ==
    /\ Cardinality(t.rows) = Requested(t.points)
    /\ t.window.kind = "today" => \A p \in t.points :
           /\ (p.timestamp - t.window.start) % Hour = 0
           /\ t.window.start <= p.timestamp /\ p.timestamp < t.window.end
           /\ \E r \in t.rows : p.timestamp <= r.ts /\ r.ts < p.timestamp + Hour

LEMMA TimelineAnswer ==
    ASSUME TableInv, NEW q \in Requests, NEW w \in Windows, Timeline(q, w),
           query'[q].whole
    PROVE  query'[q].stage = "timeline" /\ TimelineFits(query'[q])
<1>. DEFINE buckets == {Bucket(w, r.ts) : r \in Select(w)}
<1>1. PICK whole \in BOOLEAN, end \in buckets \cup {0} :
          query' = [query EXCEPT ![q] =
              [stage  |-> "timeline", window |-> w, rows |-> Select(w), whole |-> whole,
               points |-> {PointAt(w, b) : b \in {c \in buckets : whole \/ c < end}}]]
  BY DEF Timeline, PointAt
<1>. DEFINE t == query'[q]
<1>2. /\ t.stage = "timeline" /\ t.window = w /\ t.rows = Select(w)
      /\ t.points = {PointAt(w, b) : b \in buckets}
  BY <1>1 DEF TableInv
<1>3. Cardinality(t.rows) = Requested(t.points)
  <2>. HIDE DEF t
  <2>. QED BY <1>2, TimelineWhole
<1>4. ASSUME w.kind = "today"
      PROVE  /\ w.start \in Nat /\ w.end \in Nat /\ w.end > 0
  BY <1>4, StorageAssumption DEF Windows, TodayWindows, LegacyWindow
<1>5. ASSUME w.kind = "today", NEW p \in t.points
      PROVE  /\ (p.timestamp - w.start) % Hour = 0
             /\ w.start <= p.timestamp /\ p.timestamp < w.end
             /\ \E r \in Select(w) : p.timestamp <= r.ts /\ r.ts < p.timestamp + Hour
  <2>1. PICK r \in Select(w) : p = PointAt(w, Bucket(w, r.ts))
    BY <1>2, <1>5
  <2>2. p.timestamp = Bucket(w, r.ts)
    BY <1>5, <2>1 DEF PointAt
  <2>. HIDE DEF t
  <2>. QED BY <1>4, <1>5, <2>1, <2>2, TimelineOnTheHour
<1>. HIDE DEF t
<1>6. TimelineFits(t)
  BY <1>2, <1>3, <1>5 DEF TimelineFits
<1>. QED BY <1>2, <1>6 DEF t

-----------------------------------------------------------------------------
LEMMA Smaller ==
    ASSUME NEW a \in Nat, NEW b \in Nat
    PROVE  Min({a, b}) = IF a <= b THEN a ELSE b
<1>1. \E x \in {a, b} : \A y \in {a, b} : x <= y
  OBVIOUS
<1>2. Min({a, b}) \in {a, b} /\ \A y \in {a, b} : Min({a, b}) <= y
  BY <1>1 DEF Min
<1>. QED BY <1>2

RankingFits(t) ==
    LET listed == DOMAIN t.list
        left == Present(t.rows, t.by) \ listed IN
    /\ t.by = "providers" => Ranked(t.list) = Cardinality(t.rows)
    /\ left # {} => Cardinality(listed) = Limit
    /\ \A g \in listed, h \in left : Burnt(t.rows, g) >= Burnt(t.rows, h)
    /\ t.by = "accounts" => listed \cap Anonymous = {}

(* The list of all groups accounts for every row. *)
LEMMA ListWhole ==
    ASSUME TableInv, NEW w, NEW L, L = Present(Select(w), "providers"),
           NEW list, list = [g \in L |-> RequestsOf(w, {g})]
    PROVE  Ranked(list) = Cardinality(Select(w))
<1>. DEFINE R == Select(w)
            lab == [r \in R |-> r.group]
<1>1. IsFiniteSet(R)
  BY Finitely
<1>2. IsFiniteSet(L) /\ L \subseteq Groups
  BY GroupsFinite DEF Present, Eligible
<1>3. ASSUME NEW g \in L PROVE list[g] = Cardinality(Labelled(R, lab, {g}))
  <2>1. list[g] = Cardinality({r \in Select(w) : r.group \in {g}})
    <3>1. IsFiniteSet({g})
      BY FS_Singleton
    <3>2. RequestsOf(w, {g}) = Cardinality({r \in Select(w) : r.group \in {g}})
      BY <1>1, <3>1, RequestsCounted
    <3>. QED BY <3>2
  <2>2. Labelled(R, lab, {g}) = {r \in Select(w) : r.group \in {g}}
    BY DEF Labelled
  <2>. QED BY <2>1, <2>2
<1>4. CountsLabels(list, R, lab, L)
  BY <1>3 DEF CountsLabels
<1>5. Labelled(R, lab, L) = R
  BY DEF Labelled, Present, Eligible, TableInv, Select
<1>6. DOMAIN list = L
  OBVIOUS
<1>. HIDE DEF lab
<1>. QED BY <1>1, <1>2, <1>4, <1>5, <1>6, ListAddsUp

LEMMA RankingAnswer ==
    ASSUME TableInv, NEW q \in Requests, NEW w, Ranking(q, w), query'[q].whole
    PROVE  query'[q].stage = "ranking" /\ RankingFits(query'[q])
<1>. DEFINE R == Select(w)
<1>1. PICK by \in {"providers", "models", "accounts"}, whole \in BOOLEAN :
      \E n \in IF whole THEN {Longest(by)} ELSE 0..Longest(by) :
      \E L \in Heaviest(Select(w), by, n) :
          query' = [query EXCEPT ![q] =
              [stage |-> "ranking", by |-> by, rows |-> Select(w), whole |-> whole,
               list  |-> [g \in L |-> RequestsOf(w, {g})]]]
  BY DEF Ranking
<1>2. PICK n \in IF whole THEN {Longest(by)} ELSE 0..Longest(by) :
      \E L \in Heaviest(Select(w), by, n) :
          query' = [query EXCEPT ![q] =
              [stage |-> "ranking", by |-> by, rows |-> Select(w), whole |-> whole,
               list  |-> [g \in L |-> RequestsOf(w, {g})]]]
  BY <1>1
<1>3. PICK L \in Heaviest(R, by, n) :
          query' = [query EXCEPT ![q] =
              [stage |-> "ranking", by |-> by, rows |-> R, whole |-> whole,
               list  |-> [g \in L |-> RequestsOf(w, {g})]]]
  BY <1>2
<1>. DEFINE t == query'[q]
            list == [g \in L |-> RequestsOf(w, {g})]
<1>4. /\ t.stage = "ranking" /\ t.by = by /\ t.rows = R /\ t.whole = whole
      /\ t.list = list /\ DOMAIN list = L
  BY <1>3 DEF TableInv
<1>5. n = Longest(by)
  BY <1>2, <1>4
<1>. DEFINE P == Present(R, by)
<1>6. /\ L \subseteq P /\ Cardinality(L) = Min({n, Cardinality(P)})
      /\ \A g \in L, h \in P \ L : Burnt(R, g) >= Burnt(R, h)
  BY DEF Heaviest
<1>7. P \subseteq Groups /\ IsFiniteSet(P) /\ IsFiniteSet(Groups)
  BY GroupsFinite DEF Present, Eligible
<1>8. Cardinality(P) \in Nat /\ Cardinality(Groups) \in Nat /\ Cardinality(P) <= Cardinality(Groups)
  BY <1>7, FS_CardinalityType, FS_Subset
<1>9. Cardinality(P) = Cardinality(L) => L = P
  BY <1>6, <1>7, FS_Subset
<1>10. ASSUME by = "providers" PROVE L = P
  <2>1. n = Cardinality(Groups)
    BY <1>5, <1>10 DEF Longest
  <2>. QED BY <1>6, <1>8, <1>9, <2>1, Smaller
<1>11. ASSUME by # "providers", P \ L # {} PROVE Cardinality(L) = Limit
  <2>1. n = Limit /\ Limit \in Nat
    BY <1>5, <1>11, StorageAssumption DEF Longest
  <2>2. Cardinality(L) # Cardinality(P)
    BY <1>9, <1>11
  <2>. HIDE DEF P
  <2>. QED BY <1>6, <1>8, <2>1, <2>2, Smaller
<1>12. ASSUME by = "providers" PROVE Ranked(list) = Cardinality(R)
  BY <1>10, <1>12, ListWhole
<1>13. by = "accounts" => L \cap Anonymous = {}
  BY <1>6 DEF Present, Eligible
<1>. HIDE DEF t, list, R
<1>14. RankingFits(t)
  BY <1>4, <1>6, <1>10, <1>11, <1>12, <1>13 DEF RankingFits
<1>. QED BY <1>4, <1>14 DEF t

-----------------------------------------------------------------------------
(* What a finished answer says. *)
SummaryFits(t) ==
    /\ t.total = t.success + t.failed
    /\ t.total = t.priced + t.unpriced
    /\ t.isPartial <=> t.priced < t.total

Fits(t) ==
    /\ t.stage = "summary" => SummaryFits(t)
    /\ (t.stage = "timeline" /\ t.whole) => TimelineFits(t)
    /\ (t.stage = "ranking" /\ t.whole) => RankingFits(t)

AnswersInv == \A q \in Requests : Fits(query[q])

StorageInv == TableInv /\ CountedInv /\ AnswersInv

LEMMA StorageInit == Init => StorageInv
<1>. SUFFICES ASSUME Init PROVE StorageInv
  OBVIOUS
<1>1. /\ now = 1 /\ lastId = 0 /\ rows = {} /\ query = [q \in Requests |-> Idle]
  BY DEF Init
<1>2. \A q \in Requests : query[q].stage = "idle"
  BY <1>1 DEF Idle
<1>3. TableInv
  BY <1>1, FS_EmptySet DEF TableInv
<1>4. CountedInv /\ AnswersInv
  BY <1>2 DEF CountedInv, Readers, AnswersInv, Fits
<1>. QED BY <1>3, <1>4 DEF StorageInv

(* The writes, which need the lock free, and the clock. *)
LEMMA WriteStep ==
    ASSUME StorageInv, UNCHANGED query, now' \in Nat, lastId' \in Nat, IsFiniteSet(rows'),
           \A r \in rows' : r.id \in Nat /\ r.ts \in Nat /\ r.group \in Groups /\ r.ok \in BOOLEAN,
           Readers = {} \/ rows' = rows
    PROVE  StorageInv'
<1>1. TableInv'
  BY DEF StorageInv, TableInv
<1>2. CountedInv'
  <2>1. CASE Readers = {}
    BY <2>1 DEF CountedInv, Readers
  <2>2. CASE rows' = rows
    BY <2>2 DEF StorageInv, CountedInv, Readers, Select, Succeeded, Failed
  <2>. QED BY <2>1, <2>2
<1>3. AnswersInv'
  BY DEF StorageInv, AnswersInv
<1>. QED BY <1>1, <1>2, <1>3 DEF StorageInv

LEMMA InsertStep == StorageInv /\ InsertBatch => StorageInv'
<1>. SUFFICES ASSUME StorageInv, InsertBatch PROVE StorageInv'
  OBVIOUS
<1>1. PICK n \in 1..2 : \E e \in [1..n -> [ts : 1..now, group : Groups, ok : BOOLEAN]] :
          /\ rows' = rows \cup {[id |-> lastId + i, ts |-> e[i].ts,
                                 group |-> e[i].group, ok |-> e[i].ok] : i \in 1..n}
          /\ lastId' = lastId + n
  BY DEF InsertBatch
<1>2. PICK e \in [1..n -> [ts : 1..now, group : Groups, ok : BOOLEAN]] :
          /\ rows' = rows \cup {[id |-> lastId + i, ts |-> e[i].ts,
                                 group |-> e[i].group, ok |-> e[i].ok] : i \in 1..n}
          /\ lastId' = lastId + n
  BY <1>1
<1>. DEFINE row(i) == [id |-> lastId + i, ts |-> e[i].ts, group |-> e[i].group, ok |-> e[i].ok]
            new == {row(i) : i \in 1..n}
<1>3. lastId \in Nat /\ now \in Nat /\ IsFiniteSet(rows)
  BY DEF StorageInv, TableInv
<1>4. \A i \in 1..n : /\ row(i).id \in Nat /\ row(i).ts \in Nat
                      /\ row(i).group \in Groups /\ row(i).ok \in BOOLEAN
  BY <1>3
<1>5. IsFiniteSet(new)
  <2>1. IsFiniteSet(1..n)
    BY FS_Interval
  <2>2. [i \in 1..n |-> row(i)] \in Surjection(1..n, new)
    BY DEF Surjection
  <2>. DEFINE f == [i \in 1..n |-> row(i)]
  <2>. HIDE DEF f, new
  <2>3. f \in Surjection(1..n, new)
    BY <2>2 DEF f
  <2>. QED BY <2>1, <2>3, FS_Surjection
<1>6. rows' = rows \cup new /\ lastId' \in Nat /\ UNCHANGED <<now, query>> /\ Readers = {}
  BY <1>2, <1>3 DEF InsertBatch
<1>7. \A r \in new : r.id \in Nat /\ r.ts \in Nat /\ r.group \in Groups /\ r.ok \in BOOLEAN
  BY <1>4
<1>. HIDE DEF new
<1>8. IsFiniteSet(rows')
  BY <1>3, <1>5, <1>6, FS_Union
<1>9. \A r \in rows' : r.id \in Nat /\ r.ts \in Nat /\ r.group \in Groups /\ r.ok \in BOOLEAN
  BY <1>6, <1>7 DEF StorageInv, TableInv
<1>. QED BY <1>3, <1>6, <1>8, <1>9, WriteStep

LEMMA DeleteStep ==
    ASSUME StorageInv, (\E age : PruneOlderThan(age)) \/ ResetDatabase PROVE StorageInv'
<1>1. rows' \subseteq rows /\ UNCHANGED <<now, lastId, query>> /\ Readers = {}
  BY DEF PruneOlderThan, ResetDatabase
<1>2. IsFiniteSet(rows')
  BY <1>1, FS_Subset DEF StorageInv, TableInv
<1>. QED BY <1>1, <1>2, WriteStep DEF StorageInv, TableInv

(* The queries: what one request reads leaves table and others alone. *)
LEMMA QueryStep ==
    ASSUME StorageInv, NEW q \in Requests, UNCHANGED <<now, rows, lastId>>,
           NEW t, query' = [query EXCEPT ![q] = t], Fits(t),
           t.stage = "counted" =>
               /\ t.total = Cardinality(Select(t.window))
               /\ t.success = Cardinality(Succeeded(t.window))
               /\ t.failed = Cardinality(Failed(t.window))
    PROVE  StorageInv'
<1>1. /\ query' = [p \in Requests |-> query'[p]]
      /\ query'[q] = t /\ \A p \in Requests : p # q => query'[p] = query[p]
  BY DEF StorageInv, TableInv
<1>2. TableInv'
  BY <1>1 DEF StorageInv, TableInv
<1>3. AnswersInv'
  BY <1>1 DEF StorageInv, AnswersInv
<1>4. CountedInv'
  <2>. SUFFICES ASSUME NEW p \in Requests, query'[p].stage = "counted"
       PROVE  LET w == query'[p].window IN
              /\ query'[p].total = Cardinality(Select(w))
              /\ query'[p].success = Cardinality(Succeeded(w))
              /\ query'[p].failed = Cardinality(Failed(w))
    BY DEF CountedInv, Readers, Select, Succeeded, Failed
  <2>1. CASE p = q
    BY <1>1, <2>1
  <2>2. CASE p # q
    BY <1>1, <2>2 DEF StorageInv, CountedInv, Readers
  <2>. QED BY <2>1, <2>2
<1>. QED BY <1>2, <1>3, <1>4 DEF StorageInv

LEMMA CountStep ==
    ASSUME StorageInv, NEW q \in Requests, NEW w, Count(q, w) PROVE StorageInv'
<1>. DEFINE t == [stage |-> "counted", window |-> w,
                  total |-> Cardinality(Select(w)),
                  success |-> Cardinality(Succeeded(w)), failed |-> Cardinality(Failed(w))]
<1>1. query' = [query EXCEPT ![q] = t] /\ UNCHANGED <<now, rows, lastId>>
  BY DEF Count, Succeeded, Failed
<1>2. /\ t.stage = "counted" /\ t.window = w /\ t.total = Cardinality(Select(w))
      /\ t.success = Cardinality(Succeeded(w)) /\ t.failed = Cardinality(Failed(w))
  OBVIOUS
<1>. HIDE DEF t
<1>3. Fits(t)
  BY <1>2 DEF Fits
<1>. QED BY <1>1, <1>2, <1>3, QueryStep

LEMMA AnswerStep ==
    ASSUME StorageInv, NEW q \in Requests, UNCHANGED <<now, rows, lastId>>,
           NEW t, query' = [query EXCEPT ![q] = t],
           t.stage # "counted", Fits(query'[q])
    PROVE  StorageInv'
<1>1. Fits(t)
  BY DEF StorageInv, TableInv
<1>. QED BY <1>1, QueryStep

LEMMA PriceStep ==
    ASSUME StorageInv, NEW q \in Requests, Price(q) PROVE StorageInv'
<1>1. query'[q].stage = "summary" /\ UNCHANGED <<now, rows, lastId>>
      /\ query' = [query EXCEPT ![q] = query'[q]]
  BY DEF Price, StorageInv, TableInv
<1>2. SummaryFits(query'[q])
  BY SummaryPriced DEF StorageInv, SummaryFits
<1>3. Fits(query'[q])
  BY <1>1, <1>2 DEF Fits
<1>. QED BY <1>1, <1>3, AnswerStep

LEMMA TimelineStep ==
    ASSUME StorageInv, NEW q \in Requests, NEW w \in Windows, Timeline(q, w) PROVE StorageInv'
<1>1. query'[q].stage = "timeline" /\ UNCHANGED <<now, rows, lastId>>
      /\ query' = [query EXCEPT ![q] = query'[q]]
  BY DEF Timeline, StorageInv, TableInv
<1>2. query'[q].whole => TimelineFits(query'[q])
  BY TimelineAnswer DEF StorageInv
<1>3. Fits(query'[q])
  BY <1>1, <1>2 DEF Fits
<1>. QED BY <1>1, <1>3, AnswerStep

LEMMA RankingStep ==
    ASSUME StorageInv, NEW q \in Requests, NEW w, Ranking(q, w) PROVE StorageInv'
<1>1. query'[q].stage = "ranking" /\ UNCHANGED <<now, rows, lastId>>
      /\ query' = [query EXCEPT ![q] = query'[q]]
  BY DEF Ranking, StorageInv, TableInv
<1>2. query'[q].whole => RankingFits(query'[q])
  BY RankingAnswer DEF StorageInv
<1>3. Fits(query'[q])
  BY <1>1, <1>2 DEF Fits
<1>. QED BY <1>1, <1>3, AnswerStep

LEMMA ReplyStep ==
    ASSUME StorageInv, NEW q \in Requests, Reply(q) PROVE StorageInv'
<1>1. query' = [query EXCEPT ![q] = Idle] /\ UNCHANGED <<now, rows, lastId>>
  BY DEF Reply
<1>2. Idle.stage = "idle"
  BY DEF Idle
<1>3. Fits(Idle)
  BY <1>2 DEF Fits
<1>. QED BY <1>1, <1>2, <1>3, QueryStep

LEMMA StorageStep == StorageInv /\ [Next]_vars => StorageInv'
<1>. SUFFICES ASSUME StorageInv, [Next]_vars PROVE StorageInv'
  OBVIOUS
<1>1. CASE Tick \/ UNCHANGED vars
  <2>1. UNCHANGED <<rows, lastId, query>> /\ now' \in Nat
    BY <1>1 DEF Tick, vars, StorageInv, TableInv
  <2>. QED BY <2>1, WriteStep DEF StorageInv, TableInv
<1>2. CASE HandlePrune \/ ResetDatabase
  BY <1>2, DeleteStep DEF HandlePrune
<1>3. ASSUME NEW q \in Requests, NEW w \in Windows, Count(q, w) \/ Timeline(q, w) \/ Ranking(q, w)
      PROVE  StorageInv'
  BY <1>3, CountStep, TimelineStep, RankingStep
<1>4. ASSUME NEW q \in Requests, Price(q) \/ Reply(q) PROVE StorageInv'
  BY <1>4, PriceStep, ReplyStep
<1>. QED BY <1>1, <1>2, <1>3, <1>4, InsertStep DEF Next, Windows

LEMMA StorageInvariant == Spec => []StorageInv
BY StorageInit, StorageStep, PTL DEF Spec

(* The requests with a price and those without are all requests there are, *)
(* whatever is inserted, pruned or reset between the two statements.       *)
THEOREM SummariesAddUp == Spec => []SummaryAddsUp
<1>1. StorageInv => SummaryAddsUp
  BY DEF StorageInv, AnswersInv, Fits, SummaryFits, SummaryAddsUp
<1>. QED BY <1>1, StorageInvariant, PTL

(* The points of a whole timeline account for every event of the window    *)
(* once; those of Today are hours of the window that hold their events.    *)
THEOREM TimelinesAccount == Spec => []TimelineAccounts
<1>1. StorageInv => TimelineAccounts
  BY DEF StorageInv, AnswersInv, Fits, TimelineFits, TimelineAccounts
<1>. QED BY <1>1, StorageInvariant, PTL

(* A whole ranking of providers accounts for every event, and a list of    *)
(* models or accounts leaves out only the lightest beyond its limit.       *)
THEOREM RankingsAccount == Spec => []RankingsAddUp
<1>1. StorageInv => RankingsAddUp
  BY DEF StorageInv, AnswersInv, Fits, RankingFits, RankingsAddUp
<1>. QED BY <1>1, StorageInvariant, PTL

-----------------------------------------------------------------------------
(* The chart.  A bar counts the events whose point falls into it.          *)
SumOf(f, S) == MapThenSumSet(LAMBDA s : f[s], S)

LEMMA BarsAddUp ==
    ASSUME NEW S, IsFiniteSet(S), NEW R, IsFiniteSet(R), NEW lab, NEW f,
           CountsLabels(f, R, lab, S)
    PROVE  SumOf(f, S) = Cardinality(Labelled(R, lab, S))
<1>. DEFINE It(it) == it = [s \in SUBSET S |->
                               IF s = {} THEN 0 ELSE f[Picked(s)] + it[s \ {Picked(s)}]]
<1>1. ASSUME NEW it PROVE It(it) <=> Adds(S, f, it)
  BY DEF Adds
<1>2. SumOf(f, S) = (CHOOSE it : It(it))[S]
  BY DEF SumOf, MapThenSumSet, MapThenFoldSet, Picked
<1>. HIDE DEF It
<1>3. \E it : It(it)
  BY <1>1, LabelsAdd
<1>4. Adds(S, f, CHOOSE it : It(it))
  BY <1>1, <1>3
<1>. QED BY <1>2, <1>4, LabelsAddUp

(* Events, and the first of some. *)
Observed(T) == T \in SUBSET Nat /\ IsFiniteSet(T)

LEMMA Earliest ==
    ASSUME NEW B \in SUBSET Nat, B # {}
    PROVE  Min(B) \in B /\ \A t \in B : Min(B) <= t
<1>1. PICK x \in B : \A y \in B : ~(<<y, x>> \in OpToRel(<, Nat))
  BY NatLessThanWellFounded, WFMin
<1>2. ASSUME NEW y \in B PROVE x <= y
  <2>1. x \in Nat /\ y \in Nat /\ <<y, x>> \in Nat \X Nat
    OBVIOUS
  <2>2. y < x => <<y, x>> \in OpToRel(<, Nat)
    BY <2>1 DEF OpToRel
  <2>3. ~(y < x)
    BY <1>1, <2>2, Zenon
  <2>. QED BY <2>1, <2>3
<1>. QED BY <1>2 DEF Min

(* The time of the point an event of a rolling range belongs to: it is not *)
(* after the event, and has the same name.                                 *)
First(z, T, t) == Min(Named(z, T, t))

LEMMA FirstNamed ==
    ASSUME NEW z, NEW T, Observed(T), NEW t \in T
    PROVE  /\ First(z, T, t) \in T /\ First(z, T, t) <= t
           /\ Local(z, First(z, T, t)) \div Unit = Local(z, t) \div Unit
<1>. DEFINE B == Named(z, T, t)
<1>1. B \in SUBSET Nat /\ t \in B
  BY DEF Named, Observed
<1>2. Min(B) \in B /\ Min(B) <= t
  <2>. HIDE DEF B
  <2>. QED BY <1>1, Earliest
<1>. QED BY <1>2 DEF First, Named

PointOf(z, T, t) ==
    [timestamp |-> Min(Named(z, T, t)), requests |-> Cardinality(Named(z, T, t))]

LEMMA RollingPoints ==
    ASSUME NEW z, NEW T, Observed(T), NEW P \in SUBSET Points(z, T)
    PROVE  Requested(P) = Cardinality({t \in T : PointOf(z, T, t) \in P})
<1>. DEFINE lab == [t \in T |-> PointOf(z, T, t)]
            n == [p \in P |-> p.requests]
<1>1. Points(z, T) = {PointOf(z, T, t) : t \in T}
  BY DEF Points, PointOf
<1>2. IsFiniteSet(P)
  <2>1. lab \in Surjection(T, Points(z, T))
    BY <1>1 DEF Surjection
  <2>2. IsFiniteSet(Points(z, T))
    BY <2>1, FS_Surjection DEF Observed
  <2>. QED BY <2>2, FS_Subset
<1>3. ASSUME NEW p \in P PROVE p.requests = Cardinality(Labelled(T, lab, {p}))
  <2>1. PICK t \in T : p = PointOf(z, T, t)
    BY <1>1
  <2>2. ASSUME NEW u \in T, PointOf(z, T, u) = p PROVE u \in Named(z, T, t)
    <3>1. First(z, T, u) = First(z, T, t)
      BY <2>1, <2>2 DEF PointOf, First
    <3>. QED BY <3>1, FirstNamed DEF Named
  <2>3. ASSUME NEW u \in Named(z, T, t) PROVE u \in T /\ PointOf(z, T, u) = p
    <3>1. u \in T /\ Named(z, T, u) = Named(z, T, t)
      BY DEF Named
    <3>. QED BY <2>1, <3>1 DEF PointOf
  <2>4. Labelled(T, lab, {p}) = Named(z, T, t)
    BY <2>2, <2>3 DEF Labelled, Named
  <2>. QED BY <2>1, <2>4 DEF PointOf
<1>4. CountsLabels(n, T, lab, P)
  BY <1>3 DEF CountsLabels
<1>5. Labelled(T, lab, P) = {t \in T : PointOf(z, T, t) \in P}
  BY DEF Labelled
<1>6. IsFiniteSet(T)
  BY DEF Observed
<1>. HIDE DEF lab, n
<1>7. n = [p \in P |-> p.requests]
  BY DEF n
<1>. QED BY <1>2, <1>4, <1>5, <1>6, <1>7, PointsAddUp

(* A chart that puts every event into the bar that its label names follows *)
(* the events as far as the labels do.                                     *)
LEMMA LabelsFollow ==
    ASSUME Observed(chart.events), IsFiniteSet(DOMAIN chart.bars), DOMAIN chart.bars \subseteq Int,
           NEW bar, CountsLabels(chart.bars, chart.events, bar, DOMAIN chart.bars),
           NEW lag \in Nat, NEW x \in Int,
           \A t \in chart.events, s \in DOMAIN chart.bars :
               /\ bar[t] \in DOMAIN chart.bars /\ bar[t] >= s => t >= s
               /\ t >= s + lag => (bar[t] \in DOMAIN chart.bars /\ bar[t] >= s) \/ t >= x
    PROVE  /\ Follows(lag, SinceThen(x))
           /\ SinceThen(x) = 0 => Follows(lag, 0)
<1>. DEFINE T == chart.events
            D == DOMAIN chart.bars
<1>1. ASSUME NEW s \in D
      PROVE  ShownFrom(s) <= SinceThen(s) /\ SinceThen(s + lag) <= ShownFrom(s) + SinceThen(x)
  <2>. DEFINE E == {d \in D : d >= s}
              A == Labelled(T, bar, E)
              S == {t \in T : t >= s}
              L == {t \in T : t >= s + lag}
              X == {t \in T : t >= x}
  <2>1. IsFiniteSet(E)
    BY FS_Subset
  <2>2. CountsLabels(chart.bars, T, bar, E)
    BY DEF CountsLabels
  <2>3. ShownFrom(s) = Cardinality(A)
    <3>1. ShownFrom(s) = SumOf(chart.bars, E)
      BY DEF ShownFrom, SumOf
    <3>2. IsFiniteSet(T)
      BY DEF Observed
    <3>. HIDE DEF E
    <3>. QED BY <2>1, <2>2, <3>1, <3>2, BarsAddUp
  <2>4. A \subseteq S /\ L \subseteq A \cup X
    BY DEF Labelled
  <2>5. IsFiniteSet(A) /\ IsFiniteSet(S) /\ IsFiniteSet(L) /\ IsFiniteSet(X)
    BY FS_Subset DEF Observed, Labelled
  <2>6. SinceThen(s) = Cardinality(S) /\ SinceThen(s + lag) = Cardinality(L)
        /\ SinceThen(x) = Cardinality(X)
    BY DEF SinceThen
  <2>. HIDE DEF A, S, L, X
  <2>7. Cardinality(A) <= Cardinality(S)
    BY <2>4, <2>5, FS_Subset
  <2>8. Cardinality(L) <= Cardinality(A) + Cardinality(X)
    <3>1. IsFiniteSet(A \cup X)
          /\ Cardinality(A \cup X) = Cardinality(A) + Cardinality(X) - Cardinality(A \cap X)
      BY <2>5, FS_Union
    <3>2. Cardinality(L) <= Cardinality(A \cup X)
      BY <2>4, <3>1, FS_Subset
    <3>3. IsFiniteSet(A \cap X)
      BY <2>5, FS_Intersection
    <3>. QED BY <2>5, <3>1, <3>2, <3>3, FS_CardinalityType
  <2>. QED BY <2>3, <2>6, <2>7, <2>8
<1>2. Follows(lag, SinceThen(x))
  BY <1>1 DEF Follows
<1>. QED BY <1>2

-----------------------------------------------------------------------------
(* Arithmetic of bars.                                                     *)
LEMMA InSlot ==
    ASSUME NEW d \in Int, NEW U \in Nat, U > 0
    PROVE  d \div U \in Int /\ (d \div U) * U \in Int
           /\ (d \div U) * U <= d /\ d < (d \div U) * U + U
<1>1. d \div U \in Int
  OBVIOUS
<1>2. (d \div U) * U <= d /\ d < (d \div U) * U + U
  OBVIOUS
<1>3. \A k \in Int : k * U \in Int
  OBVIOUS
<1>. QED BY <1>1, <1>2, <1>3

LEMMA SlotIs ==
    ASSUME NEW d \in Int, NEW U \in Nat, U > 0, NEW k \in Int, k * U <= d, d < k * U + U
    PROVE  d \div U = k
<1>1. d = k * U + (d - k * U) /\ 0 <= d - k * U /\ d - k * U < U
  OBVIOUS
<1>. QED BY <1>1

LEMMA SlotsOrdered ==
    ASSUME NEW U \in Nat, U > 0, NEW j \in Int, NEW k \in Int
    PROVE  /\ j * U < k * U + U => j <= k
           /\ j <= k => j * U <= k * U
           /\ (j + k) * U = j * U + k * U /\ (-k) * U = -(k * U)
           /\ j * U \in Int
OBVIOUS

LEMMA SlotsShift ==
    ASSUME NEW a \in Int, NEW U \in Nat, U > 0, NEW k \in Int
    PROVE  (a + k * U) \div U = a \div U + k
<1>1. PICK q \in Int : q = a \div U /\ q * U <= a /\ a < q * U + U
  BY InSlot
<1>2. (q + k) * U = q * U + k * U /\ k * U \in Int /\ q + k \in Int /\ q * U \in Int
  BY <1>1, SlotsOrdered
<1>3. a + k * U \in Int /\ (q + k) * U <= a + k * U /\ a + k * U < (q + k) * U + U
  BY <1>1, <1>2
<1>4. (a + k * U) \div U = q + k
  BY <1>2, <1>3, SlotIs
<1>. QED BY <1>1, <1>4

LEMMA Multiple ==
    ASSUME NEW d \in Int, NEW U \in Nat, U > 0, d % U = 0
    PROVE  d = (d \div U) * U
OBVIOUS

Zones == [offset : Int, shift : Int, by : Int]

(* Two events of one name are not further apart than the unit, and what    *)
(* the clocks were set back.                                               *)
LEMMA NameLag ==
    ASSUME NEW z \in Zones, NEW m \in Nat, NEW t \in Nat, m <= t,
           Local(z, m) \div Unit = Local(z, t) \div Unit
    PROVE  t < m + Unit + Back(z) /\ Back(z) \in Nat
<1>1. Unit \in Nat /\ Unit > 0 /\ z.offset \in Int /\ z.shift \in Int /\ z.by \in Int
  BY ChartAssumption DEF Zones
<1>5. Local(z, m) \in Int /\ Local(z, t) \in Int
  BY <1>1 DEF Local
<1>2. PICK q \in Int :
          /\ q * Unit \in Int
          /\ q * Unit <= Local(z, m) /\ Local(z, t) < q * Unit + Unit
  BY <1>1, <1>5, InSlot
<1>3. Local(z, t) < Local(z, m) + Unit
  BY <1>1, <1>5, <1>2
<1>4. t - m - Back(z) <= Local(z, t) - Local(z, m) /\ Back(z) \in Nat
  <2>1. CASE z.by < 0
    <3>1. Back(z) = -z.by
      BY <2>1 DEF Back
    <3>. QED BY <1>1, <2>1, <3>1 DEF Local
  <2>2. CASE ~(z.by < 0)
    <3>1. Back(z) = 0
      BY <2>2 DEF Back
    <3>2. CASE m >= z.shift
      <4>1. t >= z.shift
        BY <1>1, <3>2
      <4>. QED BY <1>1, <3>1, <3>2, <4>1 DEF Local
    <3>3. CASE ~(m >= z.shift)
      BY <1>1, <2>2, <3>1, <3>3 DEF Local
    <3>. QED BY <3>2, <3>3
  <2>. QED BY <2>1, <2>2
<1>. QED BY <1>1, <1>5, <1>3, <1>4

(* Whole hours from the epoch, and never set back: one name, one hour. *)
LEMMA AlignedName ==
    ASSUME NEW z \in Zones, z.offset % Unit = 0, z.by \in {0, Unit},
           NEW m \in Nat, NEW t \in Nat, m <= t,
           Local(z, m) \div Unit = Local(z, t) \div Unit
    PROVE  m \div Unit = t \div Unit
<1>1. Unit \in Nat /\ Unit > 0 /\ z.offset \in Int /\ z.shift \in Int
  BY ChartAssumption DEF Zones
<1>2. PICK k \in Int : z.offset = k * Unit
  BY <1>1, Multiple
<1>3. (k + 1) * Unit = k * Unit + Unit /\ k * Unit \in Int
  BY <1>1, <1>2
<1>4. ASSUME NEW x \in Nat, NEW j \in {0, 1}, Local(z, x) = x + z.offset + j * Unit
      PROVE  Local(z, x) \div Unit = x \div Unit + k + j
  <2>1. Local(z, x) = x + (k + j) * Unit
    BY <1>1, <1>2, <1>3, <1>4
  <2>2. (x + (k + j) * Unit) \div Unit = x \div Unit + (k + j)
    BY <1>1, <1>2, SlotsShift
  <2>3. x \div Unit \in Int
    BY <1>1
  <2>. QED BY <1>2, <2>1, <2>2, <2>3
<1>5. m \div Unit \in Int /\ t \div Unit \in Int /\ m \div Unit <= t \div Unit
  <2>1. m \div Unit \in Int /\ (m \div Unit) * Unit <= m /\ t \div Unit \in Int
        /\ t < (t \div Unit) * Unit + Unit
    BY <1>1
  <2>2. \A i, j \in Int : i * Unit < j * Unit + Unit => i <= j
    BY <1>1, SlotsOrdered
  <2>3. \A i \in Int : i * Unit \in Int
    BY <1>1
  <2>4. (m \div Unit) * Unit < (t \div Unit) * Unit + Unit
    BY <1>1, <2>1, <2>3
  <2>. QED BY <2>1, <2>2, <2>4
<1>6. z.by = 0 => Local(z, m) = m + z.offset + 0 * Unit /\ Local(z, t) = t + z.offset + 0 * Unit
  BY <1>1 DEF Local
<1>7. z.by = Unit => \E i, j \in {0, 1} :
          /\ Local(z, m) = m + z.offset + i * Unit /\ Local(z, t) = t + z.offset + j * Unit
          /\ i <= j
  <2>1. 1 * Unit = Unit /\ 0 * Unit = 0
    BY <1>1
  <2>2. PICK i, j \in {0, 1} :
            /\ i = (IF m >= z.shift THEN 1 ELSE 0) /\ j = (IF t >= z.shift THEN 1 ELSE 0)
            /\ i <= j
    BY <1>1
  <2>3. z.by = Unit => Local(z, m) = m + z.offset + i * Unit /\ Local(z, t) = t + z.offset + j * Unit
    BY <1>1, <2>1, <2>2 DEF Local
  <2>. QED BY <2>2, <2>3
<1>8. PICK i \in {0, 1}, j \in {0, 1} :
          /\ Local(z, m) = m + z.offset + i * Unit /\ Local(z, t) = t + z.offset + j * Unit
          /\ i <= j
  BY <1>6, <1>7
<1>9. m \div Unit + k + i = t \div Unit + k + j
  BY <1>4, <1>8
<1>. QED BY <1>2, <1>5, <1>8, <1>9

LEMMA SlotAtLeast ==
    ASSUME NEW d \in Int, NEW U \in Nat, U > 0, NEW k \in Int
    PROVE  k * U <= d <=> k <= d \div U
<1>1. PICK q \in Int : q = d \div U /\ q * U \in Int /\ q * U <= d /\ d < q * U + U
  BY InSlot
<1>2. k * U \in Int /\ (k <= q => k * U <= q * U) /\ (k * U < q * U + U => k <= q)
  BY <1>1, SlotsOrdered
<1>. QED BY <1>1, <1>2

LEMMA SlotsDistinct ==
    ASSUME NEW U \in Nat, U > 0, NEW j \in Int, NEW k \in Int, j * U = k * U
    PROVE  j = k
<1>1. j * U \in Int /\ k * U \in Int
  BY SlotsOrdered
<1>2. j * U < k * U + U /\ k * U < j * U + U
  BY <1>1
<1>3. j <= k /\ k <= j
  BY <1>2, SlotsOrdered
<1>. QED BY <1>3

(* As many bars as are drawn. *)
LEMMA FiniteBars ==
    ASSUME NEW S, NEW f \in [0..Bars - 1 -> S]
    PROVE  IsFiniteSet({f[i] : i \in 0..Bars - 1})
<1>1. IsFiniteSet(0..Bars - 1)
  BY FS_Interval, ChartAssumption
<1>2. f \in Surjection(0..Bars - 1, {f[i] : i \in 0..Bars - 1})
  BY DEF Surjection
<1>. QED BY <1>1, <1>2, FS_Surjection

-----------------------------------------------------------------------------
(* The charts that are drawn. *)
HoursChart(z, at, T) ==
    [range |-> "hours", server |-> z, at |-> at, events |-> T,
     bars |-> ZeroFillHours(Points(z, T), at)]

DaysChart(z, b, at, T) ==
    [range |-> "days", server |-> z, browser |-> b, at |-> at, events |-> T,
     bars |-> ZeroFillDays(Points(z, T), b, at)]

TodayChart(w, at, T) ==
    [range |-> "today", window |-> w, at |-> at, events |-> T,
     bars |-> ZeroFillToday(TodayPoints(w, T), w, at)]

(* 1h and 24h.  An event is labelled with the bar its point falls into.    *)
LEMMA HoursHold ==
    ASSUME NEW z \in HourZones, NEW at \in Int, NEW T, Observed(T), \A t \in T : t <= at,
           chart = HoursChart(z, at, T)
    PROVE  HoursCharted
<1>1. /\ Unit \in Nat /\ Unit > 0 /\ Bars \in Nat /\ Bars > 0
      /\ z \in Zones /\ z.offset \in Int /\ z.by \in Int
  BY ChartAssumption DEF Zones
<1>. DEFINE D == {(at \div Unit - i) * Unit : i \in 0..Bars - 1}
            bar == [t \in T |-> (First(z, T, t) \div Unit) * Unit]
<1>2. /\ chart.server = z /\ chart.at = at /\ chart.events = T /\ DOMAIN chart.bars = D
      /\ \A s \in D : chart.bars[s] =
             Requested({p \in Points(z, T) : (p.timestamp \div Unit) * Unit = s})
  BY DEF HoursChart, ZeroFillHours
<1>3. at \div Unit \in Int
  BY <1>1, InSlot
<1>4. IsFiniteSet(D) /\ D \subseteq Int
  <2>. DEFINE f == [i \in 0..Bars - 1 |-> (at \div Unit - i) * Unit]
  <2>1. \A k \in Int : k * Unit \in Int
    BY <1>1
  <2>2. f \in [0..Bars - 1 -> Int]
    BY <1>1, <1>3, <2>1
  <2>3. D = {f[i] : i \in 0..Bars - 1}
    OBVIOUS
  <2>. HIDE DEF f, D
  <2>4. IsFiniteSet({f[i] : i \in 0..Bars - 1})
    BY <2>2, FiniteBars
  <2>. QED BY <2>2, <2>3, <2>4
<1>5. CountsLabels(chart.bars, T, bar, D)
  <2>1. ASSUME NEW s \in D
        PROVE  chart.bars[s] = Cardinality(Labelled(T, bar, {s}))
    <3>. DEFINE P == {p \in Points(z, T) : (p.timestamp \div Unit) * Unit = s}
    <3>1. Requested(P) = Cardinality({t \in T : PointOf(z, T, t) \in P})
      BY RollingPoints
    <3>2. \A t \in T : PointOf(z, T, t) \in P <=> (First(z, T, t) \div Unit) * Unit = s
      BY DEF Points, PointOf, First
    <3>3. {t \in T : PointOf(z, T, t) \in P} = Labelled(T, bar, {s})
      BY <3>2 DEF Labelled
    <3>. QED BY <1>2, <3>1, <3>3
  <2>. QED BY <2>1 DEF CountsLabels
<1>6. ASSUME NEW t \in T
      PROVE  /\ First(z, T, t) \in Nat /\ t \in Nat /\ First(z, T, t) <= t /\ t <= at
             /\ Local(z, First(z, T, t)) \div Unit = Local(z, t) \div Unit
             /\ bar[t] \in Int /\ bar[t] <= First(z, T, t)
  <2>1. First(z, T, t) \in Nat /\ t \in Nat /\ First(z, T, t) <= t /\ t <= at
        /\ Local(z, First(z, T, t)) \div Unit = Local(z, t) \div Unit
    BY FirstNamed DEF Observed
  <2>. QED BY <1>1, <2>1, InSlot
<1>7. ASSUME NEW t \in T, NEW i \in 0..Bars - 1,
             at \div Unit - i <= First(z, T, t) \div Unit
      PROVE  bar[t] \in D /\ bar[t] >= (at \div Unit - i) * Unit
  <2>1. PICK k \in Int : k = First(z, T, t) \div Unit
    BY <1>1, <1>6, InSlot
  <2>2. k * Unit <= at
    BY <1>1, <1>6, <2>1, InSlot
  <2>3. k <= at \div Unit
    BY <1>1, <2>2, SlotAtLeast
  <2>4. at \div Unit - k \in 0..Bars - 1 /\ k = at \div Unit - (at \div Unit - k)
    BY <1>1, <1>3, <1>7, <2>1, <2>3
  <2>5. bar[t] = k * Unit
    BY <2>1
  <2>6. k * Unit >= (at \div Unit - i) * Unit
    BY <1>1, <1>3, <1>7, <2>1, SlotsOrdered
  <2>7. k * Unit \in D
    BY <2>4
  <2>. QED BY <2>5, <2>6, <2>7
<1>8. ASSUME NEW t \in T, NEW s \in D, bar[t] >= s PROVE t >= s
  BY <1>4, <1>6, <1>8
<1>. DEFINE aligned == z.offset % Unit = 0 /\ z.by \in {0, Unit}
<1>9. ASSUME aligned, NEW t \in T, NEW s \in D, t >= s PROVE bar[t] \in D /\ bar[t] >= s
  <2>1. PICK i \in 0..Bars - 1 : s = (at \div Unit - i) * Unit
    OBVIOUS
  <2>2. at \div Unit - i <= t \div Unit
    BY <1>1, <1>3, <1>6, <1>9, <2>1, SlotAtLeast
  <2>3. First(z, T, t) \div Unit = t \div Unit
    BY <1>1, <1>6, <1>9, AlignedName
  <2>. QED BY <1>7, <2>1, <2>2, <2>3
<1>10. ASSUME NEW t \in T, NEW s \in D, t >= s + (Unit - 1 + Back(z))
       PROVE  bar[t] \in D /\ bar[t] >= s
  <2>1. PICK i \in 0..Bars - 1 : s = (at \div Unit - i) * Unit
    OBVIOUS
  <2>2. t < First(z, T, t) + Unit + Back(z) /\ Back(z) \in Nat
    BY <1>1, <1>6, NameLag
  <2>3. s <= First(z, T, t)
    BY <1>1, <1>4, <1>6, <1>10, <2>2
  <2>4. at \div Unit - i <= First(z, T, t) \div Unit
    BY <1>1, <1>3, <1>6, <2>1, <2>3, SlotAtLeast
  <2>. QED BY <1>7, <2>1, <2>4
<1>. HIDE DEF bar, D
<1>. DEFINE lag == IF aligned THEN 0 ELSE Unit - 1 + Back(z)
<1>11. lag \in Nat /\ \A t \in T, s \in D : t >= s + lag => bar[t] \in D /\ bar[t] >= s
  <2>1. CASE aligned
    <3>1. lag = 0 /\ \A s \in D : s + 0 = s
      BY <1>4, <2>1
    <3>. QED BY <1>9, <2>1, <3>1
  <2>2. CASE ~aligned
    <3>1. Back(z) \in Nat
      BY <1>1 DEF Back
    <3>. QED BY <1>1, <1>10, <2>2, <3>1
  <2>. QED BY <2>1, <2>2
<1>12. SinceThen(at + 1) = 0
  <2>1. {t \in chart.events : t >= at + 1} = {}
    BY <1>2, <1>6
  <2>. QED BY <2>1, FS_EmptySet DEF SinceThen
<1>. HIDE DEF lag
<1>13. Follows(lag, 0)
  <2>1. \A t \in chart.events, s \in DOMAIN chart.bars :
            /\ bar[t] \in DOMAIN chart.bars /\ bar[t] >= s => t >= s
            /\ t >= s + lag =>
                   (bar[t] \in DOMAIN chart.bars /\ bar[t] >= s) \/ t >= at + 1
    BY <1>2, <1>8, <1>11
  <2>2. /\ Observed(chart.events) /\ IsFiniteSet(DOMAIN chart.bars)
        /\ DOMAIN chart.bars \subseteq Int /\ lag \in Nat /\ at + 1 \in Int
        /\ CountsLabels(chart.bars, chart.events, bar, DOMAIN chart.bars)
    BY <1>2, <1>4, <1>5, <1>11
  <2>. QED BY <1>12, <2>1, <2>2, LabelsFollow
<1>. QED BY <1>2, <1>13 DEF HoursCharted, lag

(* 7d and 30d.  Where the browser's midnight is, and the dates of the bars *)
(* that are counted back from it.                                          *)
LEMMA MidnightIs ==
    ASSUME NEW b \in DayZones, NEW at \in Int
    PROVE  /\ Midnight(b, at) \in Int
           /\ b.by = 0 => Midnight(b, at) + b.offset = (Local(b, at) \div Unit) * Unit
<1>1. Unit \in Nat /\ Unit > 0 /\ b.offset \in Int /\ b.shift \in Int /\ b.by \in Int
  BY ChartAssumption
<1>2. Local(b, at) \in Int
  BY <1>1 DEF Local
<1>3. PICK day \in Int : day = (Local(b, at) \div Unit) * Unit
  BY <1>1, <1>2, InSlot
<1>4. Midnight(b, at) = IF day - b.offset >= b.shift /\ day - b.offset - b.by >= b.shift
                        THEN day - b.offset - b.by ELSE day - b.offset
  BY <1>3 DEF Midnight
<1>. QED BY <1>1, <1>3, <1>4

LEMMA BarDates ==
    ASSUME NEW b \in DayZones, NEW at \in Int, NEW i \in Nat,
           NEW s, s = Midnight(b, at) - i * Unit
    PROVE  Local(b, s) \div Unit =
               Local(b, at) \div Unit - i
                   - IF /\ b.by > 0 /\ s < b.shift /\ b.shift <= Midnight(b, at)
                        /\ Local(b, Midnight(b, at)) % Unit = 0 THEN 1 ELSE 0
<1>1. /\ Unit \in Nat /\ Unit > 0 /\ b.offset \in Int /\ b.shift \in Int /\ b.by \in Int
      /\ -Unit < b.by /\ b.by < Unit
  BY ChartAssumption
<1>2. Local(b, at) \in Int
  BY <1>1 DEF Local
<1>3. PICK today \in Int : today = Local(b, at) \div Unit
  BY <1>1, <1>2, InSlot
<1>4. PICK day \in Int : day = today * Unit
  BY <1>1, <1>3, SlotsOrdered
<1>5. PICK back \in Int : back = i * Unit /\ 0 <= back
  <2>1. i * Unit \in Int /\ 0 * Unit <= i * Unit /\ 0 * Unit = 0
    BY <1>1, SlotsOrdered
  <2>. QED BY <2>1
<1>6. PICK M \in Int : M = Midnight(b, at)
  BY MidnightIs
<1>7. M = IF day - b.offset >= b.shift /\ day - b.offset - b.by >= b.shift
          THEN day - b.offset - b.by ELSE day - b.offset
  BY <1>3, <1>4, <1>6 DEF Midnight
<1>8. s = M - back /\ s \in Int /\ s <= M
  BY <1>5, <1>6
<1>9. /\ (today - i) * Unit = day - back
      /\ (today - i - 1) * Unit = day - back - Unit
      /\ today - i \in Int /\ today - i - 1 \in Int
  <2>1. (today + (-i)) * Unit = today * Unit + (-i) * Unit /\ (-i) * Unit = -(i * Unit)
    BY <1>1, <1>3, SlotsOrdered
  <2>2. (today - i + (-1)) * Unit = (today - i) * Unit + (-1) * Unit /\ (-1) * Unit = -Unit
    BY <1>1, <1>3, SlotsOrdered
  <2>. QED BY <1>1, <1>3, <1>4, <1>5, <2>1, <2>2
<1>10. ASSUME NEW r \in Int, 0 <= r, r < Unit, Local(b, s) = day - back + r
       PROVE  Local(b, s) \div Unit = today - i
  BY <1>1, <1>5, <1>9, <1>10, SlotIs
<1>11. CASE /\ day - b.offset >= b.shift /\ day - b.offset - b.by >= b.shift
  <2>1. M = day - b.offset - b.by /\ b.shift <= M /\ Local(b, M) = day
    BY <1>1, <1>7, <1>11 DEF Local
  <2>2. Local(b, M) % Unit = 0
    <3>1. \A k \in Int : (k * Unit) % Unit = 0
      BY <1>1
    <3>. QED BY <1>4, <2>1, <3>1
  <2>3. CASE s >= b.shift
    <3>1. Local(b, s) = day - back + 0
      BY <1>1, <1>5, <1>8, <2>1, <2>3 DEF Local
    <3>2. Local(b, s) \div Unit = today - i
      BY <1>1, <1>10, <3>1
    <3>3. ~(s < b.shift)
      BY <1>1, <1>8, <2>3
    <3>. QED BY <1>3, <1>6, <1>9, <3>2, <3>3
  <2>4. CASE ~(s >= b.shift) /\ b.by > 0
    <3>1. Local(b, s) = day - back - b.by
      BY <1>1, <1>5, <1>8, <2>1, <2>4 DEF Local
    <3>2. /\ (today - i - 1) * Unit <= Local(b, s)
          /\ Local(b, s) < (today - i - 1) * Unit + Unit /\ Local(b, s) \in Int
      BY <1>1, <1>5, <1>9, <2>4, <3>1
    <3>3. Local(b, s) \div Unit = today - i - 1
      BY <1>1, <1>9, <3>2, SlotIs
    <3>4. b.by > 0 /\ s < b.shift /\ b.shift <= M /\ Local(b, M) % Unit = 0
      BY <1>1, <1>8, <2>1, <2>2, <2>4
    <3>. QED BY <1>3, <1>6, <3>3, <3>4
  <2>5. CASE ~(s >= b.shift) /\ ~(b.by > 0)
    <3>1. PICK r \in Int : r = 0 - b.by
      BY <1>1
    <3>2. Local(b, s) = day - back + r
      BY <1>1, <1>5, <1>8, <2>1, <2>5, <3>1 DEF Local
    <3>3. 0 <= r /\ r < Unit
      BY <1>1, <2>5, <3>1
    <3>4. Local(b, s) \div Unit = today - i
      BY <1>10, <3>2, <3>3
    <3>. QED BY <1>3, <1>6, <1>9, <2>5, <3>4
  <2>. QED BY <2>3, <2>4, <2>5
<1>12. CASE ~(day - b.offset >= b.shift)
  <2>1. M = day - b.offset /\ s < b.shift /\ ~(b.shift <= M)
    BY <1>1, <1>7, <1>8, <1>12
  <2>2. Local(b, s) = day - back + 0
    BY <1>1, <1>5, <1>8, <2>1 DEF Local
  <2>3. Local(b, s) \div Unit = today - i
    BY <1>1, <1>10, <2>2
  <2>. QED BY <1>3, <1>6, <1>9, <2>1, <2>3
<1>13. CASE day - b.offset >= b.shift /\ ~(day - b.offset - b.by >= b.shift)
  <2>1. M = day - b.offset /\ b.shift <= M /\ b.by > 0
    BY <1>1, <1>7, <1>13
  <2>2. Local(b, M) = today * Unit + b.by
    BY <1>1, <1>4, <2>1 DEF Local
  <2>3. Local(b, M) % Unit # 0
    <3>1. SUFFICES ASSUME Local(b, M) % Unit = 0 PROVE FALSE
      OBVIOUS
    <3>2. Local(b, M) \in Int
      BY <1>1, <1>4, <2>2
    <3>3. PICK k \in Int : Local(b, M) = k * Unit
      BY <1>1, <3>1, <3>2, InSlot, Multiple
    <3>4. k = today
      <4>1. Local(b, M) \div Unit = today
        BY <1>1, <1>4, <2>1, <2>2, <3>2, SlotIs
      <4>2. k * Unit <= Local(b, M) /\ Local(b, M) < k * Unit + Unit
        BY <1>1, <3>2, <3>3
      <4>3. Local(b, M) \div Unit = k
        BY <1>1, <3>2, <3>3, <4>2, SlotIs
      <4>. QED BY <4>1, <4>3
    <3>. QED BY <1>1, <1>4, <2>1, <2>2, <3>3, <3>4
  <2>4. CASE s >= b.shift
    <3>1. Local(b, s) = day - back + b.by
      BY <1>1, <1>5, <1>8, <2>1, <2>4 DEF Local
    <3>2. 0 <= b.by /\ b.by < Unit /\ b.by \in Int
      BY <1>1, <2>1
    <3>3. Local(b, s) \div Unit = today - i
      BY <1>10, <3>1, <3>2
    <3>. QED BY <1>3, <1>6, <1>9, <2>3, <3>3
  <2>5. CASE ~(s >= b.shift)
    <3>1. Local(b, s) = day - back + 0
      BY <1>1, <1>5, <1>8, <2>1, <2>5 DEF Local
    <3>2. Local(b, s) \div Unit = today - i
      BY <1>1, <1>10, <3>1
    <3>. QED BY <1>3, <1>6, <1>9, <2>3, <3>2
  <2>. QED BY <2>4, <2>5
<1>. QED BY <1>11, <1>12, <1>13

LEMMA DaysHold ==
    ASSUME NEW z \in DayZones, NEW b \in DayZones, NEW at \in Int,
           NEW T, Observed(T), \A t \in T : t <= at,
           chart = DaysChart(z, b, at, T)
    PROVE  DaysCharted
<1>1. /\ Unit \in Nat /\ Unit > 0 /\ Bars \in Nat /\ Bars > 0
      /\ z \in Zones /\ z.offset \in Int /\ z.by \in Int
  BY ChartAssumption DEF Zones
<1>2. PICK M \in Int : M = Midnight(b, at)
  BY MidnightIs
<1>. DEFINE D == {M - i * Unit : i \in 0..Bars - 1}
            bar == [t \in T |-> M + ((First(z, T, t) - M) \div Unit) * Unit]
<1>3. /\ chart.server = z /\ chart.browser = b /\ chart.at = at /\ chart.events = T
      /\ DOMAIN chart.bars = D
      /\ \A s \in D : chart.bars[s] =
             Requested({p \in Points(z, T) : p.timestamp >= s /\ p.timestamp < s + Unit})
  BY <1>2 DEF DaysChart, ZeroFillDays
<1>4. IsFiniteSet(D) /\ D \subseteq Int
  <2>. DEFINE f == [i \in 0..Bars - 1 |-> M - i * Unit]
  <2>1. \A k \in Int : k * Unit \in Int
    BY <1>1
  <2>2. f \in [0..Bars - 1 -> Int]
    BY <1>1, <2>1
  <2>3. D = {f[i] : i \in 0..Bars - 1}
    OBVIOUS
  <2>. HIDE DEF f, D
  <2>4. IsFiniteSet({f[i] : i \in 0..Bars - 1})
    BY <2>2, FiniteBars
  <2>. QED BY <2>2, <2>3, <2>4
<1>5. ASSUME NEW t \in T
      PROVE  /\ First(z, T, t) \in Nat /\ t \in Nat /\ First(z, T, t) <= t /\ t <= at
             /\ Local(z, First(z, T, t)) \div Unit = Local(z, t) \div Unit
             /\ bar[t] \in Int /\ bar[t] <= First(z, T, t) /\ First(z, T, t) < bar[t] + Unit
  <2>1. First(z, T, t) \in Nat /\ t \in Nat /\ First(z, T, t) <= t /\ t <= at
        /\ Local(z, First(z, T, t)) \div Unit = Local(z, t) \div Unit
    BY FirstNamed DEF Observed
  <2>2. PICK d \in Int : d = First(z, T, t) - M
    BY <1>2, <2>1
  <2>3. PICK e \in Int : e = (d \div Unit) * Unit /\ e <= d /\ d < e + Unit
    BY <1>1, InSlot
  <2>4. bar[t] = M + e
    BY <2>2, <2>3
  <2>. HIDE DEF bar
  <2>. QED BY <1>1, <1>2, <2>1, <2>2, <2>3, <2>4
<1>6. ASSUME NEW t \in T, NEW i \in Nat
      PROVE  /\ i * Unit \in Nat /\ (-i) * Unit = -(i * Unit)
             /\ M - i * Unit <= First(z, T, t) <=> -i <= (First(z, T, t) - M) \div Unit
             /\ bar[t] = M - i * Unit <=> (First(z, T, t) - M) \div Unit = -i
  <2>1. i * Unit \in Int /\ (-i) * Unit = -(i * Unit) /\ 0 * Unit <= i * Unit /\ 0 * Unit = 0
    BY <1>1, SlotsOrdered
  <2>2. PICK d \in Int : d = First(z, T, t) - M
    BY <1>2, <1>5
  <2>3. PICK q \in Int : q = d \div Unit /\ q * Unit \in Int
    BY <1>1, InSlot
  <2>4. (-i) * Unit <= d <=> -i <= q
    BY <1>1, <2>3, SlotAtLeast
  <2>5. M - i * Unit <= First(z, T, t) <=> -i <= q
    BY <1>2, <1>5, <2>1, <2>2, <2>4
  <2>6. q * Unit = (-i) * Unit <=> q = -i
    BY <1>1, <2>3, SlotsDistinct
  <2>7. bar[t] = M + q * Unit
    BY <2>2, <2>3
  <2>8. bar[t] = M - i * Unit <=> q = -i
    BY <1>2, <2>1, <2>3, <2>6, <2>7
  <2>. HIDE DEF bar
  <2>. QED BY <2>1, <2>2, <2>3, <2>5, <2>8
<1>7. ASSUME NEW t \in T, NEW s \in D
      PROVE  bar[t] = s <=> First(z, T, t) >= s /\ First(z, T, t) < s + Unit
  <2>1. PICK i \in 0..Bars - 1 : s = M - i * Unit
    OBVIOUS
  <2>2. PICK d \in Int : d = First(z, T, t) - M
    BY <1>2, <1>5
  <2>3. i * Unit \in Nat /\ (-i) * Unit = -(i * Unit)
    BY <1>6
  <2>4. ASSUME First(z, T, t) >= s, First(z, T, t) < s + Unit PROVE d \div Unit = -i
    <3>1. (-i) * Unit <= d /\ d < (-i) * Unit + Unit
      BY <1>1, <1>2, <1>5, <2>1, <2>2, <2>3, <2>4
    <3>. QED BY <1>1, <3>1, SlotIs
  <2>5. bar[t] = s <=> d \div Unit = -i
    BY <1>6, <2>1, <2>2
  <2>6. bar[t] = s => First(z, T, t) >= s /\ First(z, T, t) < s + Unit
    BY <1>5
  <2>. HIDE DEF bar, D
  <2>. QED BY <2>4, <2>5, <2>6
<1>8. CountsLabels(chart.bars, T, bar, D)
  <2>1. ASSUME NEW s \in D
        PROVE  chart.bars[s] = Cardinality(Labelled(T, bar, {s}))
    <3>. DEFINE P == {p \in Points(z, T) : p.timestamp >= s /\ p.timestamp < s + Unit}
    <3>1. Requested(P) = Cardinality({t \in T : PointOf(z, T, t) \in P})
      BY RollingPoints
    <3>2. \A t \in T : PointOf(z, T, t) \in P <=>
              First(z, T, t) >= s /\ First(z, T, t) < s + Unit
      BY DEF Points, PointOf, First
    <3>3. {t \in T : PointOf(z, T, t) \in P} = Labelled(T, bar, {s})
      <4>. HIDE DEF P, bar, D
      <4>. QED BY <1>7, <3>2 DEF Labelled
    <3>. QED BY <1>3, <3>1, <3>3
  <2>. QED BY <2>1 DEF CountsLabels
<1>9. ASSUME NEW t \in T, NEW s \in D, bar[t] >= s PROVE t >= s
  <2>. HIDE DEF bar, D
  <2>. QED BY <1>4, <1>5, <1>9
<1>10. ASSUME NEW t \in T, NEW s \in D, First(z, T, t) >= s, ~(t >= M + Unit)
       PROVE  bar[t] \in D /\ bar[t] >= s
  <2>1. PICK i \in 0..Bars - 1 : s = M - i * Unit
    OBVIOUS
  <2>2. PICK q \in Int : q = (First(z, T, t) - M) \div Unit /\ q * Unit \in Int
    BY <1>1, <1>2, <1>5, InSlot
  <2>3. -i <= q
    BY <1>2, <1>5, <1>6, <1>10, <2>1, <2>2
  <2>4. q <= 0
    <3>1. q * Unit <= First(z, T, t) - M
      BY <1>1, <1>2, <1>5, <2>2, InSlot
    <3>2. q * Unit < 0 * Unit + Unit
      BY <1>1, <1>2, <1>5, <1>10, <2>2, <3>1
    <3>. QED BY <1>1, <3>2, SlotsOrdered
  <2>5. PICK j \in 0..Bars - 1 : j = 0 - q
    BY <1>1, <2>3, <2>4
  <2>6. bar[t] = M - j * Unit
    BY <1>6, <2>2, <2>5
  <2>7. j * Unit <= i * Unit /\ j * Unit \in Int /\ i * Unit \in Int
    BY <1>1, <2>3, <2>5, SlotsOrdered
  <2>. QED BY <1>2, <2>1, <2>6, <2>7
<1>11. ASSUME NEW t \in T, NEW s \in D, t >= s + (Unit - 1 + Back(z))
       PROVE  First(z, T, t) >= s
  <2>1. t < First(z, T, t) + Unit + Back(z) /\ Back(z) \in Nat
    BY <1>1, <1>5, NameLag
  <2>. HIDE DEF bar, D
  <2>. QED BY <1>1, <1>4, <1>5, <1>11, <2>1
<1>. DEFINE still == z = b /\ b.by = 0
<1>12. ASSUME still PROVE M + z.offset = ((at + z.offset) \div Unit) * Unit
  <2>1. Local(b, at) = at + z.offset
    BY <1>1, <1>12 DEF Local
  <2>. QED BY <1>2, <1>12, <2>1, MidnightIs
<1>13. ASSUME still, NEW t \in T, NEW s \in D, t >= s PROVE First(z, T, t) >= s
  <2>1. PICK i \in 0..Bars - 1 : s = M - i * Unit
    OBVIOUS
  <2>2. PICK F \in Nat : F = First(z, T, t)
    BY <1>5
  <2>3. PICK n \in Int : n = (at + z.offset) \div Unit
    BY <1>1, InSlot
  <2>4. M + z.offset = n * Unit
    BY <1>12, <1>13, <2>3
  <2>5. (n - i) * Unit = n * Unit - i * Unit /\ n * Unit \in Int /\ i * Unit \in Int
    <3>1. (n + (-i)) * Unit = n * Unit + (-i) * Unit /\ (-i) * Unit = -(i * Unit)
          /\ n * Unit \in Int /\ i * Unit \in Int
      BY <1>1, SlotsOrdered
    <3>. QED BY <3>1
  <2>6. (F + z.offset) \div Unit = (t + z.offset) \div Unit
    BY <1>1, <1>5, <1>13, <2>2 DEF Local
  <2>7. (n - i) * Unit <= t + z.offset
    BY <1>1, <1>2, <1>5, <1>13, <2>1, <2>4, <2>5
  <2>8. (n - i) * Unit <= F + z.offset
    <3>1. PICK u \in Int, v \in Int : u = t + z.offset /\ v = F + z.offset
      BY <1>1, <1>5
    <3>2. n - i \in Int /\ u \div Unit = v \div Unit /\ (n - i) * Unit <= u
      BY <2>6, <2>7, <3>1
    <3>3. (n - i) * Unit <= v
      BY <1>1, <3>2, SlotAtLeast
    <3>. QED BY <3>1, <3>3
  <2>. QED BY <1>1, <1>2, <2>1, <2>2, <2>4, <2>5, <2>8
<1>14. ASSUME still PROVE SinceThen(M + Unit) = 0
  <2>1. at < M + Unit
    <3>1. PICK u \in Int : u = at + z.offset
      BY <1>1
    <3>2. u < (u \div Unit) * Unit + Unit
      BY <1>1, InSlot
    <3>3. M + z.offset = (u \div Unit) * Unit
      BY <1>12, <1>14, <3>1
    <3>. QED BY <1>1, <1>2, <3>1, <3>2, <3>3
  <2>2. \A t \in T : ~(t >= M + Unit)
    BY <1>1, <1>2, <1>5, <2>1
  <2>3. {t \in chart.events : t >= M + Unit} = {}
    BY <1>3, <2>2
  <2>. QED BY <2>3, FS_EmptySet DEF SinceThen
<1>. HIDE DEF bar, D
<1>. DEFINE lag == IF still THEN 0 ELSE Unit - 1 + Back(z)
<1>15. lag \in Nat /\ \A t \in T, s \in D : t >= s + lag => First(z, T, t) >= s
  <2>1. CASE still
    <3>1. lag = 0 /\ \A s \in D : s + 0 = s
      BY <1>4, <2>1
    <3>. QED BY <1>13, <2>1, <3>1
  <2>2. CASE ~still
    <3>1. Back(z) \in Nat
      BY <1>1 DEF Back
    <3>. QED BY <1>1, <1>11, <2>2, <3>1
  <2>. QED BY <2>1, <2>2
<1>. HIDE DEF lag
<1>16. Follows(lag, SinceThen(M + Unit))
  <2>1. \A t \in chart.events, s \in DOMAIN chart.bars :
            /\ bar[t] \in DOMAIN chart.bars /\ bar[t] >= s => t >= s
            /\ t >= s + lag =>
                   (bar[t] \in DOMAIN chart.bars /\ bar[t] >= s) \/ t >= M + Unit
    BY <1>3, <1>9, <1>10, <1>15
  <2>2. /\ Observed(chart.events) /\ IsFiniteSet(DOMAIN chart.bars)
        /\ DOMAIN chart.bars \subseteq Int /\ lag \in Nat /\ M + Unit \in Int
        /\ CountsLabels(chart.bars, chart.events, bar, DOMAIN chart.bars)
    BY <1>1, <1>3, <1>4, <1>8, <1>15
  <2>. QED BY <2>1, <2>2, LabelsFollow
<1>17. \A i \in 0..Bars - 1 :
           LET s == M - i * Unit IN
           Local(b, s) \div Unit =
               Local(b, at) \div Unit - i
                   - IF /\ b.by > 0 /\ s < b.shift /\ b.shift <= M
                        /\ Local(b, M) % Unit = 0 THEN 1 ELSE 0
  BY <1>2, BarDates
<1>. QED BY <1>2, <1>3, <1>14, <1>16, <1>17 DEF DaysCharted, lag

(* Today: a bar is the point of an hour of the window.                     *)
InHour(w, T, b) == {t \in T : Bucket(w, t) = b}

OfHour(w, T, b) == [timestamp |-> b, requests |-> Cardinality(InHour(w, T, b))]

PointsOfHour(w, T, b) == {p \in TodayPoints(w, T) : p.timestamp = b}

LEMMA TodayPoint ==
    ASSUME NEW w, NEW T, IsFiniteSet(T), NEW s
    PROVE  Requested(PointsOfHour(w, T, s)) = Cardinality(InHour(w, T, s))
<1>. DEFINE R == InHour(w, T, s)
            P == PointsOfHour(w, T, s)
            point == OfHour(w, T, s)
            lab == [t \in R |-> point]
            n == [p \in P |-> p.requests]
<1>1. P \subseteq {point} /\ (R # {} <=> P # {})
  <2>1. TodayPoints(w, T) = {OfHour(w, T, b) : b \in {Bucket(w, t) : t \in T}}
    BY DEF TodayPoints, OfHour, InHour
  <2>2. \A b : OfHour(w, T, b).timestamp = b
    BY DEF OfHour
  <2>3. \A p : p \in P <=> p \in TodayPoints(w, T) /\ p.timestamp = s
    BY DEF PointsOfHour
  <2>4. \A t : t \in R <=> t \in T /\ Bucket(w, t) = s
    BY DEF InHour
  <2>. HIDE DEF P, R
  <2>5. ASSUME NEW p \in P PROVE p = point /\ R # {}
    <3>1. PICK t \in T : p = OfHour(w, T, Bucket(w, t))
      BY <2>1, <2>3
    <3>2. Bucket(w, t) = s
      BY <2>2, <2>3, <3>1
    <3>. QED BY <2>4, <3>1, <3>2
  <2>6. ASSUME NEW t \in R PROVE point \in P
    <3>1. t \in T /\ Bucket(w, t) = s
      BY <2>4
    <3>2. point \in TodayPoints(w, T)
      BY <2>1, <3>1
    <3>. QED BY <2>2, <2>3, <3>2
  <2>. QED BY <2>5, <2>6
<1>2. \A t \in R : lab[t] = point
  OBVIOUS
<1>3. R # {} \/ P = {}
  BY <1>1
<1>4. IsFiniteSet(R) /\ IsFiniteSet(P)
  <2>1. IsFiniteSet({point})
    BY FS_Singleton
  <2>2. R \subseteq T
    BY DEF InHour
  <2>. QED BY <1>1, <2>1, <2>2, FS_Subset
<1>5. n = [p \in P |-> p.requests] /\ point.requests = Cardinality(R)
  BY DEF OfHour
<1>. HIDE DEF P, R, point, lab, n
<1>6. \A X : (point \in X => Labelled(R, lab, X) = R)
  BY <1>2 DEF Labelled
<1>7. CountsLabels(n, R, lab, P)
  BY <1>1, <1>5, <1>6 DEF CountsLabels
<1>8. Labelled(R, lab, P) = R
  BY <1>1, <1>3, <1>6 DEF Labelled
<1>9. Requested(P) = Cardinality(R)
  BY <1>4, <1>5, <1>7, <1>8, PointsAddUp
<1>. QED BY <1>9 DEF P, R

LEMMA TodayHold ==
    ASSUME NEW w, w.kind = "today", w.start \in Nat, w.end \in Int, NEW at \in Int,
           NEW T, Observed(T), \A t \in T : w.start <= t /\ t < w.end,
           chart = TodayChart(w, at, T)
    PROVE  TodayCharted
<1>1. Hour \in Nat /\ Hour > 0
  BY StorageAssumption
<1>2. /\ chart.window = w /\ chart.at = at /\ chart.events = T
      /\ DOMAIN chart.bars = HoursBegun(w, at)
      /\ \A s \in HoursBegun(w, at) :
             chart.bars[s] = Requested(PointsOfHour(w, T, s))
  BY DEF TodayChart, ZeroFillToday, PointsOfHour
<1>3. ASSUME NEW t \in T
      PROVE  /\ t \in Nat /\ w.start <= t /\ t < w.end
             /\ Bucket(w, t) \in Nat /\ w.start <= Bucket(w, t)
             /\ (Bucket(w, t) - w.start) % Hour = 0
             /\ Bucket(w, t) <= t /\ t < Bucket(w, t) + Hour
  <2>1. t \in Nat /\ w.start <= t /\ t < w.end
    BY DEF Observed
  <2>2. PICK d \in Nat : d = t - w.start
    BY <2>1
  <2>3. PICK m \in Nat : m = (d \div Hour) * Hour /\ m <= d /\ d < m + Hour /\ m % Hour = 0
    BY <1>1, WholeHours
  <2>4. Bucket(w, t) = w.start + m
    BY <2>2, <2>3 DEF Bucket
  <2>5. (w.start + m) - w.start = m
    BY <2>3
  <2>. QED BY <1>1, <2>1, <2>2, <2>3, <2>4, <2>5
<1>4. ASSUME NEW s \in HoursBegun(w, at), NEW t \in T
      PROVE  Bucket(w, t) = s <=> s <= t /\ t < s + Hour
  <2>1. s \in Int /\ w.start <= s /\ (s - w.start) % Hour = 0
    BY DEF HoursBegun
  <2>2. PICK k \in Int : s - w.start = k * Hour
    <3>1. PICK e \in Int : e = s - w.start /\ e % Hour = 0
      BY <2>1
    <3>2. e = (e \div Hour) * Hour /\ e \div Hour \in Int
      BY <1>1, <3>1, InSlot, Multiple
    <3>. QED BY <3>1, <3>2
  <2>3. PICK d \in Int : d = t - w.start
    BY <1>3
  <2>4. Bucket(w, t) = w.start + (d \div Hour) * Hour
    BY <2>3 DEF Bucket
  <2>5. ASSUME s <= t, t < s + Hour PROVE Bucket(w, t) = s
    <3>1. k * Hour \in Int /\ k * Hour <= d /\ d < k * Hour + Hour
      BY <1>1, <1>3, <2>1, <2>2, <2>3, <2>5
    <3>2. d \div Hour = k
      BY <1>1, <3>1, SlotIs
    <3>. QED BY <2>1, <2>2, <2>4, <3>1, <3>2
  <2>. QED BY <1>3, <2>5
<1>5. ASSUME NEW s \in HoursBegun(w, at)
      PROVE  chart.bars[s] = SinceThen(s) - SinceThen(s + Hour)
  <2>. DEFINE R == {t \in T : t >= s}
              A == InHour(w, T, s)
              B == {t \in T : t >= s + Hour}
  <2>1. IsFiniteSet(T)
    BY DEF Observed
  <2>2. chart.bars[s] = Cardinality(A)
    BY <1>2, <2>1, TodayPoint
  <2>3. SinceThen(s) = Cardinality(R) /\ SinceThen(s + Hour) = Cardinality(B)
    BY <1>2 DEF SinceThen
  <2>4. IsFiniteSet(R)
    BY <2>1, FS_Subset
  <2>5. s \in Int
    BY DEF HoursBegun
  <2>6. A \cup B = R /\ A \cap B = {}
    BY <1>1, <1>3, <1>4, <2>5 DEF InHour
  <2>. HIDE DEF R, A, B
  <2>7. Cardinality(R) = Cardinality(A) + Cardinality(B)
        /\ Cardinality(A) \in Nat /\ Cardinality(B) \in Nat
    BY <2>4, <2>6, Halves
  <2>. QED BY <2>2, <2>3, <2>7
<1>6. ASSUME NEW t \in T, t <= at
      PROVE  \E s \in HoursBegun(w, at) : s <= t /\ t < s + Hour
  <2>1. Bucket(w, t) \in HoursBegun(w, at)
    BY <1>3, <1>6 DEF HoursBegun
  <2>. QED BY <1>3, <2>1
<1>. QED BY <1>2, <1>5, <1>6 DEF TodayCharted

-----------------------------------------------------------------------------
(* What is on the screen was drawn from the events that are kept with it.  *)
ChartInv ==
    \/ chart = NoChart
    \/ /\ Observed(chart.events) /\ chart.at \in Int
       /\ \/ /\ \A t \in chart.events : t <= chart.at
             /\ \/ \E z \in HourZones : chart = HoursChart(z, chart.at, chart.events)
                \/ \E z, b \in DayZones : chart = DaysChart(z, b, chart.at, chart.events)
          \/ LET w == chart.window IN
             /\ w.kind = "today" /\ w.start \in Nat /\ w.end \in Int
             /\ \A t \in chart.events : w.start <= t /\ t < w.end
             /\ chart = TodayChart(w, chart.at, chart.events)

LEMMA SomeEvents ==
    ASSUME NEW a \in Nat, NEW b \in Int, NEW T \in Timed(a..b)
    PROVE  Observed(T) /\ \A t \in T : a <= t /\ t <= b
<1>1. T \subseteq a..b
  BY DEF Timed, kSubset
<1>2. IsFiniteSet(a..b)
  BY FS_Interval
<1>3. IsFiniteSet(T)
  BY <1>1, <1>2, FS_Subset
<1>4. \A t \in T : t \in Nat /\ a <= t /\ t <= b
  BY <1>1
<1>. QED BY <1>3, <1>4 DEF Observed

LEMMA DrawStep == Draw => ChartInv'
<1>. SUFFICES ASSUME Draw PROVE ChartInv'
  OBVIOUS
<1>. USE DEF ChartInv
<1>1. ASSUME NEW at \in Horizon - Unit + 1..Horizon, NEW T \in Timed(1..Horizon),
             \A t \in T : t <= at,
             \/ \E z \in HourZones : DrawHours(z, at, T)
             \/ \E z, b \in DayZones : DrawDays(z, b, at, T)
      PROVE  ChartInv'
  <2>1. Horizon \in Int /\ at \in Int
    BY ChartAssumption
  <2>2. Observed(T)
    BY <2>1, SomeEvents
  <2>3. ASSUME NEW z \in HourZones, DrawHours(z, at, T) PROVE ChartInv'
    <3>1. chart' = HoursChart(z, at, T) /\ chart'.at = at /\ chart'.events = T
      BY <2>3 DEF DrawHours, HoursChart
    <3>. QED BY <1>1, <2>1, <2>2, <3>1
  <2>4. ASSUME NEW z \in DayZones, NEW b \in DayZones, DrawDays(z, b, at, T) PROVE ChartInv'
    <3>1. chart' = DaysChart(z, b, at, T) /\ chart'.at = at /\ chart'.events = T
      BY <2>4 DEF DrawDays, DaysChart
    <3>. QED BY <1>1, <2>1, <2>2, <3>1
  <2>. QED BY <1>1, <2>3, <2>4
<1>2. ASSUME NEW w \in ChartWindows, NEW at \in 1..Horizon, NEW T \in Timed(w.start..w.end - 1),
             DrawToday(w, at, T)
      PROVE  ChartInv'
  <2>1. w.kind = "today" /\ w.start \in Nat /\ w.end \in Int /\ at \in Int
    BY ChartAssumption, StorageAssumption DEF ChartWindows
  <2>2. Observed(T) /\ \A t \in T : w.start <= t /\ t <= w.end - 1
    BY <2>1, SomeEvents
  <2>3. \A t \in T : w.start <= t /\ t < w.end
    BY <2>1, <2>2 DEF Observed
  <2>4. /\ chart' = TodayChart(w, at, T) /\ chart'.at = at /\ chart'.events = T
        /\ chart'.window = w
    BY <1>2 DEF DrawToday, TodayChart
  <2>. QED BY <2>1, <2>2, <2>3, <2>4
<1>. QED BY <1>1, <1>2 DEF Draw

LEMMA ChartInvariant == ChartSpec => []ChartInv
<1>1. ChartInit => ChartInv
  BY DEF ChartInit, ChartInv
<1>2. ChartInv /\ [ChartNext]_<<vars, chart>> => ChartInv'
  <2>. SUFFICES ASSUME ChartInv, [ChartNext]_<<vars, chart>> PROVE ChartInv'
    OBVIOUS
  <2>1. CASE chart' = chart
    BY <2>1 DEF ChartInv, Observed
  <2>2. CASE Draw
    BY <2>2, DrawStep
  <2>. QED BY <2>1, <2>2 DEF ChartNext
<1>. QED BY <1>1, <1>2, PTL DEF ChartSpec

(* Whatever the zones of the server and the browser, their clocks and the  *)
(* number of bars, a drawn chart follows the events: no event is shown     *)
(* later than it was or twice, and none is lost, or shown too early, by    *)
(* more than the property says.                                            *)
THEOREM ChartsFollow == ChartSpec => []ChartFollowsEvents
<1>1. ChartInv => ChartFollowsEvents
  <2>. SUFFICES ASSUME ChartInv PROVE ChartFollowsEvents
    OBVIOUS
  <2>1. CASE chart = NoChart
    BY <2>1 DEF NoChart, ChartFollowsEvents, HoursCharted, DaysCharted, TodayCharted
  <2>2. ASSUME NEW z \in HourZones, Observed(chart.events), chart.at \in Int,
               \A t \in chart.events : t <= chart.at,
               chart = HoursChart(z, chart.at, chart.events)
        PROVE  ChartFollowsEvents
    <3>1. HoursCharted
      BY <2>2, HoursHold
    <3>2. chart.range = "hours"
      BY <2>2 DEF HoursChart
    <3>. QED BY <3>1, <3>2 DEF ChartFollowsEvents, DaysCharted, TodayCharted
  <2>3. ASSUME NEW z \in DayZones, NEW b \in DayZones, Observed(chart.events), chart.at \in Int,
               \A t \in chart.events : t <= chart.at,
               chart = DaysChart(z, b, chart.at, chart.events)
        PROVE  ChartFollowsEvents
    <3>1. DaysCharted
      BY <2>3, DaysHold
    <3>2. chart.range = "days"
      BY <2>3 DEF DaysChart
    <3>. QED BY <3>1, <3>2 DEF ChartFollowsEvents, HoursCharted, TodayCharted
  <2>4. ASSUME NEW w, w = chart.window, w.kind = "today", w.start \in Nat, w.end \in Int,
               Observed(chart.events), chart.at \in Int,
               \A t \in chart.events : w.start <= t /\ t < w.end,
               chart = TodayChart(w, chart.at, chart.events)
        PROVE  ChartFollowsEvents
    <3>1. TodayCharted
      BY <2>4, TodayHold
    <3>2. chart.range = "today"
      BY <2>4 DEF TodayChart
    <3>. QED BY <3>1, <3>2 DEF ChartFollowsEvents, HoursCharted, DaysCharted
  <2>. QED BY <2>1, <2>2, <2>3, <2>4 DEF ChartInv
<1>. QED BY <1>1, ChartInvariant, PTL

(* The drawing changes nothing that EgoStorage describes: its theorems     *)
(* hold of the charts' specification, the one that is run.                 *)
THEOREM ChartsRead == ChartSpec => Spec
<1>1. ChartInit => Init
  BY DEF ChartInit
<1>2. [ChartNext]_<<vars, chart>> => [Next]_vars
  BY DEF ChartNext
<1>. QED BY <1>1, <1>2, PTL DEF ChartSpec, Spec
=============================================================================
