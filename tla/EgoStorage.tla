----------------------------- MODULE EgoStorage -----------------------------
(***************************************************************************)
(* The event table of Ego and the queries over it (internal/ego/storage.go *)
(* and handler.go).  The RWMutex of Storage makes every write one step; a  *)
(* summary is two SELECTs under one RLock.  Token columns and their prices *)
(* are in EgoAccounting; here an event has a time, a group (its model and  *)
(* provider) and a status.                                                 *)
(***************************************************************************)
EXTENDS Integers, FiniteSets, FiniteSetsExt

CONSTANTS Requests,  \* concurrent HTTP requests
          Groups,    \* pairs of a model and a provider
          Priced,    \* those whose model has a rate
          Tokens,    \* tokens of an event of each group
          Anonymous, \* groups of events without an account
          Limit,     \* longest list of models or accounts, 50 in the code
          Hour,      \* ticks of the clock in an hour
          MaxSpan,   \* longest Today window, 26 hours in the code
          Span,      \* length of a rolling range
          DefaultAge,  \* of what is pruned, 30 days in the code
          MaxTime,   \* bound on the clock
          MaxRows    \* bound on inserts

ASSUME StorageAssumption ==
    /\ Priced \subseteq Groups /\ Anonymous \subseteq Groups
    /\ IsFiniteSet(Groups) /\ Tokens \in [Groups -> Nat]
    /\ {Limit, Hour, MaxSpan, Span, DefaultAge, MaxTime, MaxRows} \subseteq Nat /\ Hour > 0

VARIABLES now,
          rows,    \* ego_events
          lastId,  \* AUTOINCREMENT
          query    \* what each request has read so far

vars == <<now, rows, lastId, query>>

-----------------------------------------------------------------------------
Idle == [stage |-> "idle"]

Init ==
    /\ now = 1
    /\ rows = {} /\ lastId = 0
    /\ query = [q \in Requests |-> Idle]

(* Requests that hold mu.RLock between two statements.                     *)
ReadersUnlocked == {}  \* fault: the lock is released between them

Readers == {q \in Requests : query[q].stage = "counted"}

(* queryWindow: a zero end leaves the window open.                         *)
LegacyWindow == [kind |-> "rolling", start |-> now - Span, end |-> 0]

(* The bounds of Today that readWindow accepts.                            *)
TodayWindows ==
    {w \in [kind : {"today"}, start : 1..MaxTime + 1, end : 1..MaxTime + 1] :
        w.start < w.end /\ w.end - w.start <= MaxSpan}

Select(w) == {r \in rows : r.ts >= w.start /\ (w.end # 0 => r.ts < w.end)}

-----------------------------------------------------------------------------
Tick ==
    /\ now < MaxTime
    /\ now' = now + 1
    /\ UNCHANGED <<rows, lastId, query>>

(* InsertBatch of events that happened in the past; or a failed statement  *)
(* and the rollback, which changes nothing.                                *)
InsertBatch ==
    /\ Readers = {}
    /\ \E n \in 1..2 :
           /\ lastId + n <= MaxRows
           /\ \E e \in [1..n -> [ts : 1..now, group : Groups, ok : BOOLEAN]] :
                  rows' = rows \cup {[id |-> lastId + i, ts |-> e[i].ts,
                                      group |-> e[i].group, ok |-> e[i].ok] : i \in 1..n}
           /\ lastId' = lastId + n
    /\ UNCHANGED <<now, query>>

(* handlePrune: the age in the body, or else in the query; 0 stands for    *)
(* none, and for one that is not a number or not positive.                 *)
PruneAge(body, days) == IF body > 0 THEN body ELSE IF days > 0 THEN days ELSE DefaultAge

PruneOlderThan(age) ==
    /\ Readers = {} /\ age > 0
    /\ rows' = {r \in rows : r.ts >= now - age}
    /\ UNCHANGED <<now, lastId, query>>

HandlePrune == \E body, days \in 0..MaxTime : PruneOlderThan(PruneAge(body, days))

ResetDatabase ==
    /\ Readers = {}
    /\ rows' = {}
    /\ UNCHANGED <<now, lastId, query>>

(* getSummary, the first statement: counts over the window.                *)
Count(q, w) ==
    /\ query[q].stage = "idle"
    /\ query' = [query EXCEPT ![q] =
           [stage   |-> "counted", window |-> w,
            total   |-> Cardinality(Select(w)),
            success |-> Cardinality({r \in Select(w) : r.ok}),
            failed  |-> Cardinality({r \in Select(w) : ~r.ok})]]
    /\ UNCHANGED <<now, rows, lastId>>

(* The second statement: requests per group, priced or not.  The answer.   *)
RequestsOf(w, groups) ==
    MapThenSumSet(LAMBDA g : Cardinality({r \in Select(w) : r.group = g}), groups)

Price(q) ==
    LET w == query[q].window
        unpriced == RequestsOf(w, Groups \ Priced) IN
    /\ query[q].stage = "counted"
    /\ query' = [query EXCEPT ![q] =
           [stage |-> "summary", total |-> @.total, success |-> @.success,
            failed |-> @.failed, unpriced |-> unpriced, isPartial |-> unpriced > 0,
            priced |-> RequestsOf(w, Priced)]]
    /\ UNCHANGED <<now, rows, lastId>>

(* getTimeline: one statement, a point per bucket.  When a row cannot be   *)
(* fetched the loop over them ends like after the last one, because nobody *)
(* asks rows.Err: the answer holds the rows so far and is not whole.       *)
Bucket(w, ts) ==
    IF w.kind = "today" THEN w.start + ((ts - w.start) \div Hour) * Hour
    ELSE (ts \div Hour) * Hour

InBucketUnbound(w, b) ==  \* fault: the end of the window is not bound
    {r \in rows : r.ts >= w.start /\ Bucket(w, r.ts) = b}

InBucket(w, b) == {r \in Select(w) : Bucket(w, r.ts) = b}

Timeline(q, w) ==
    LET in(b) == InBucket(w, b)
        buckets == {Bucket(w, r.ts) : r \in Select(w)} IN
    /\ query[q].stage = "idle"
    /\ \E whole \in BOOLEAN, end \in buckets \cup {0} : query' = [query EXCEPT ![q] =
           [stage  |-> "timeline", window |-> w, rows |-> Select(w), whole |-> whole,
            points |-> {[bucket |-> b, requests |-> Cardinality(in(b)),
                         timestamp |-> IF w.kind = "today" THEN b
                                       ELSE Min({r.ts : r \in in(b)})] :
                           b \in {c \in buckets : whole \/ c < end}}]]
    /\ UNCHANGED <<now, rows, lastId>>

(* A ranking: one statement, the groups of the window by tokens.  Models   *)
(* and accounts are listed up to a limit, and accounts without a name not  *)
(* at all.                                                                 *)
Eligible(by) == IF by = "accounts" THEN Groups \ Anonymous ELSE Groups

LongestAlways(by) == Limit  \* fault: the providers have the limit, too

Longest(by) == IF by = "providers" THEN Cardinality(Groups) ELSE Limit

Present(R, by) == {g \in Eligible(by) : \E r \in R : r.group = g}

Burnt(R, g) == Tokens[g] * Cardinality({r \in R : r.group = g})

Heaviest(R, by, n) ==
    {L \in SUBSET Present(R, by) :
        /\ Cardinality(L) = Min({n, Cardinality(Present(R, by))})
        /\ \A g \in L, h \in Present(R, by) \ L : Burnt(R, g) >= Burnt(R, h)}

Ranking(q, w) ==
    /\ query[q].stage = "idle"
    /\ \E by \in {"providers", "models", "accounts"}, whole \in BOOLEAN :
       \E n \in IF whole THEN {Longest(by)} ELSE 0..Longest(by) :
       \E L \in Heaviest(Select(w), by, n) :
           query' = [query EXCEPT ![q] =
               [stage |-> "ranking", by |-> by, rows |-> Select(w), whole |-> whole,
                list  |-> [g \in L |-> RequestsOf(w, {g})]]]
    /\ UNCHANGED <<now, rows, lastId>>

(* The answer is written; or a statement failed, and it is an error.       *)
Reply(q) ==
    /\ query[q].stage # "idle"
    /\ query' = [query EXCEPT ![q] = Idle]
    /\ UNCHANGED <<now, rows, lastId>>

Next ==
    \/ Tick \/ InsertBatch \/ HandlePrune \/ ResetDatabase
    \/ \E q \in Requests :
           \/ \E w \in TodayWindows \cup {LegacyWindow} : Count(q, w) \/ Timeline(q, w) \/ Ranking(q, w)
           \/ Price(q)
           \/ Reply(q)

Spec == Init /\ [][Next]_vars

-----------------------------------------------------------------------------
(* The requests of some points, as the chart adds them up, and of a ranking. *)
Requested(points) == MapThenSumSet(LAMBDA p : p.requests, points)

Ranked(list) == MapThenSumSet(LAMBDA g : list[g], DOMAIN list)

(* Both statements of a summary see the same table, whatever is inserted,  *)
(* pruned or reset meanwhile: the requests that have a price and those     *)
(* that do not (unpriced_requests, is_partial) are all requests there are. *)
SummaryAddsUp ==
    \A q \in Requests : query[q].stage = "summary" =>
        /\ query[q].total = query[q].success + query[q].failed
        /\ query[q].total = query[q].priced + query[q].unpriced
        /\ query[q].isPartial <=> query[q].priced < query[q].total

(* README, Multi-Resolution Timelines: Today's buckets are whole hours     *)
(* elapsed since its midnight, inside the window; the points of any        *)
(* timeline account for every event of the window once, unless it was cut  *)
(* short.                                                                  *)
TimelineAccounts ==
    \A q \in Requests : (query[q].stage = "timeline" /\ query[q].whole) =>
        LET t == query[q] IN
        /\ Cardinality(t.rows) = Requested(t.points)
        /\ t.window.kind = "today" => \A p \in t.points :
               /\ (p.timestamp - t.window.start) % Hour = 0
               /\ t.window.start <= p.timestamp /\ p.timestamp < t.window.end
               /\ \E r \in t.rows : p.timestamp <= r.ts /\ r.ts < p.timestamp + Hour

(* README, Today API: "provider rankings always include all providers" and *)
(* "blank accounts remain excluded".  A ranking that was not cut short     *)
(* gives every request of the window to one provider, and a list of models *)
(* or accounts leaves out only what its limit excludes, the lightest.      *)
RankingsAddUp ==
    \A q \in Requests : (query[q].stage = "ranking" /\ query[q].whole) =>
        LET t == query[q]
            listed == DOMAIN t.list
            left == Present(t.rows, t.by) \ listed IN
        /\ t.by = "providers" =>
               Ranked(t.list) = Cardinality(t.rows)
        /\ left # {} => Cardinality(listed) = Limit
        /\ \A g \in listed, h \in left : Burnt(t.rows, g) >= Burnt(t.rows, h)
        /\ t.by = "accounts" => listed \cap Anonymous = {}
=============================================================================
