------------------------ MODULE EgoAccountingProofs ------------------------
(***************************************************************************)
(* Proofs about EgoAccounting, for all token counts, times and providers,  *)
(* any number of requests and every way of reporting them: an event        *)
(* carries the tokens of its request, and so do the sums, but for what a   *)
(* report left out of its fields.                                          *)
(***************************************************************************)
EXTENDS EgoAccounting, TLAPS

Semantics == {"independent", "separateReasoning", "subset"}

(* Arithmetic that the steps below need: a product distributes over a sum  *)
(* and keeps an order, and a whole quotient is less than one step short.   *)
LEMMA Products ==
    \A x, y, r \in Nat : /\ x * r \in Nat /\ (x + y) * r = x * r + y * r
                         /\ x <= y => x * r <= y * r
<1>1. \A x, y, r \in Nat : x * r \in Nat /\ (x + y) * r = x * r + y * r
  OBVIOUS
<1>2. ASSUME NEW x \in Nat, NEW y \in Nat, NEW r \in Nat, x <= y PROVE x * r <= y * r
  <2>1. y - x \in Nat /\ x + (y - x) = y
    BY <1>2
  <2>. QED BY <1>1, <2>1
<1>. QED BY <1>1, <1>2

LEMMA Division ==
    ASSUME NEW x \in Nat, NEW m \in Nat \ {0}
    PROVE  /\ x \div m \in Nat /\ (x \div m > 0 <=> x >= m)
           /\ (x \div m) * m <= x /\ x <= (x \div m) * m + (m - 1)
<1>. DEFINE q == x \div m
            r == x % m
<1>1. q \in Int /\ r \in 0..(m - 1)
  OBVIOUS
<1>2. x = m * q + r
  BY SMT
<1>. QED BY <1>1, <1>2

-----------------------------------------------------------------------------
(* One request.  The fields of a host's report, one case at a time. *)
LEMMA RawDetailFields ==
    ASSUME NEW u \in Usages, NEW s \in Semantics, NEW d \in RawDetails(u, s)
    PROVE  /\ d.input = u.fresh \/ (s # "independent" /\ d.input = Prompt(u))
           /\ \/ s # "separateReasoning" /\ d.output = Output(u) /\ d.reasoning \in {0, u.thought}
              \/ s # "independent" /\ d.output = u.visible /\ d.reasoning = u.thought
           /\ d.cacheCreation = u.created
           /\ \/ d.cacheRead = u.read /\ d.cached = 0
              \/ /\ d.cacheRead = u.read
                 /\ d.cached = IF u.read > 0 THEN u.read ELSE u.created
              \/ u.created = 0 /\ d.cacheRead = 0 /\ d.cached = u.read
           /\ d.total \in {0, Total(u)}
           /\ d.failed = u.failed /\ d.stream = u.stream
           /\ d.ttft = u.first /\ d.latency = u.done
<1>. DEFINE inputs  == IF s = "independent" THEN {u.fresh} ELSE {Prompt(u), u.fresh}
            whole   == {<<Output(u), u.thought>>, <<Output(u), 0>>}
            apart   == {<<u.visible, u.thought>>}
            outputs == CASE s = "independent" -> whole
                         [] s = "separateReasoning" -> apart
                         [] OTHER -> whole \cup apart
            caches  == {<<0, u.read>>, <<IF u.read > 0 THEN u.read ELSE u.created, u.read>>}
                           \cup (IF u.created = 0 THEN {<<u.read, 0>>} ELSE {})
<1>1. PICK input \in inputs, output \in outputs, cache \in caches, total \in {0, Total(u)} :
           d = [input |-> input, output |-> output[1], reasoning |-> output[2],
                cached |-> cache[1], cacheRead |-> cache[2], cacheCreation |-> u.created,
                total |-> total, failed |-> u.failed, stream |-> u.stream,
                ttft |-> u.first, latency |-> u.done]
  BY DEF RawDetails
<1>2. \/ cache[1] = 0 /\ cache[2] = u.read
      \/ cache[1] = (IF u.read > 0 THEN u.read ELSE u.created) /\ cache[2] = u.read
      \/ u.created = 0 /\ cache[1] = u.read /\ cache[2] = 0
  OBVIOUS
<1>3. \/ s # "separateReasoning" /\ output \in whole
      \/ s # "independent" /\ output \in apart
  BY DEF Semantics
<1>4. \/ s # "separateReasoning" /\ output[1] = Output(u) /\ output[2] \in {0, u.thought}
      \/ s # "independent" /\ output[1] = u.visible /\ output[2] = u.thought
  BY <1>3
<1>5. input = u.fresh \/ (s # "independent" /\ input = Prompt(u))
  OBVIOUS
<1>. HIDE DEF inputs, outputs, caches
<1>. QED BY <1>1, <1>2, <1>4, <1>5

LEMMA UsageInNat ==
    ASSUME NEW u \in Usages
    PROVE  /\ u.fresh \in Nat /\ u.read \in Nat /\ u.created \in Nat
           /\ u.visible \in Nat /\ u.thought \in Nat /\ u.first \in Nat /\ u.done \in Nat
           /\ u.failed \in BOOLEAN /\ u.stream \in BOOLEAN
BY AccountingAssumption

(* Cache reads are recovered from whichever field carries them, and never  *)
(* taken from the echo of the cache creation (transformToEgoEvent).        *)
LEMMA ReadsRecovered ==
    ASSUME NEW u \in Usages, NEW s \in Semantics, NEW d \in RawDetails(u, s)
    PROVE  CacheReads(d) = u.read
BY RawDetailFields, UsageInNat DEF CacheReads

(* What a report left out is what the fields of its kind should have held. *)
LEMMA LeftOut ==
    ASSUME NEW u \in Usages, NEW s \in Semantics, NEW d \in RawDetails(u, s)
    PROVE  /\ CacheLeftOut(u, d, s) \in Nat /\ ThoughtsLeftOut(u, d, s) \in Nat
           /\ s = "independent" => CacheLeftOut(u, d, s) = 0 /\ d.input = u.fresh
           /\ s # "independent" => d.input + CacheLeftOut(u, d, s) = Prompt(u)
           /\ s # "subset" => ThoughtsLeftOut(u, d, s) = 0
           /\ s = "subset" => /\ d.output + ThoughtsLeftOut(u, d, s) = Output(u)
                              /\ d.reasoning <= Output(u)
           /\ s = "independent" => d.output = Output(u)
           /\ s = "separateReasoning" => d.output + d.reasoning = Output(u)
           /\ d.input \in Nat /\ d.output \in Nat /\ d.reasoning \in Nat
BY RawDetailFields, UsageInNat DEF CacheLeftOut, ThoughtsLeftOut, Prompt, Output, Semantics

(* The event of a report carries every token of the request once, but for  *)
(* those that no field of the report shows.                                *)
LEMMA EventTotal ==
    ASSUME NEW u \in Usages, NEW s \in Semantics, NEW d \in RawDetails(u, s)
    PROVE  /\ TotalTokens(d, s) + Hidden(u, d, s) = Total(u)
           /\ TotalTokens(d, s) \in Nat /\ Hidden(u, d, s) \in Nat
<1>. DEFINE lo == CacheLeftOut(u, d, s)
            to == ThoughtsLeftOut(u, d, s)
<1>1. /\ Prompt(u) \in Nat /\ Output(u) \in Nat /\ Total(u) = Prompt(u) + Output(u)
      /\ Prompt(u) = u.fresh + u.read + u.created /\ Output(u) = u.visible + u.thought
  BY UsageInNat DEF Total, Prompt, Output
<1>2. d.total \in {0, Total(u)} /\ d.cacheCreation = u.created
  BY RawDetailFields
<1>3. CASE d.total # 0
  BY <1>1, <1>2, <1>3 DEF TotalTokens, Hidden
<1>4. CASE d.total = 0
  <2>1. Hidden(u, d, s) = lo + Min2(u.visible, to)
    BY <1>4 DEF Hidden
  <2>2. lo \in Nat /\ to \in Nat
    BY LeftOut
  <2>3. CASE s = "independent"
    <3>1. TotalTokens(d, s) = d.input + u.read + u.created + d.output
      BY <1>2, <1>4, <2>3, ReadsRecovered DEF TotalTokens
    <3>2. lo = 0 /\ to = 0 /\ d.input = u.fresh /\ d.output = Output(u)
      BY <2>3, LeftOut
    <3>3. Min2(u.visible, 0) = 0
      BY UsageInNat DEF Min2
    <3>. HIDE DEF lo, to
    <3>. QED BY <1>1, <2>1, <3>1, <3>2, <3>3, UsageInNat
  <2>4. CASE s = "separateReasoning"
    <3>1. TotalTokens(d, s) = d.input + d.output + d.reasoning
      BY <1>4, <2>4 DEF TotalTokens
    <3>2. to = 0 /\ d.input + lo = Prompt(u) /\ d.output + d.reasoning = Output(u)
          /\ d.input \in Nat /\ d.output \in Nat /\ d.reasoning \in Nat
      BY <2>4, LeftOut
    <3>3. Min2(u.visible, 0) = 0
      BY UsageInNat DEF Min2
    <3>. HIDE DEF lo, to
    <3>. QED BY <1>1, <2>1, <2>2, <3>1, <3>2, <3>3
  <2>5. CASE s = "subset"
    <3>1. TotalTokens(d, s) = d.input + Max2(d.output, d.reasoning)
      BY <1>4, <2>5 DEF TotalTokens
    <3>2. d.input + lo = Prompt(u) /\ d.output + to = Output(u) /\ d.input \in Nat
          /\ d.output \in Nat /\ d.reasoning \in Nat
      BY <2>5, LeftOut
    <3>3. Max2(d.output, d.reasoning) + Min2(u.visible, to) = Output(u)
          /\ Max2(d.output, d.reasoning) \in Nat /\ Min2(u.visible, to) \in Nat
      <4>1. \/ d.output = Output(u) /\ d.reasoning \in {0, u.thought}
            \/ d.output = u.visible /\ d.reasoning = u.thought
        BY RawDetailFields
      <4>. HIDE DEF lo, to
      <4>. QED BY <1>1, <2>2, <3>2, <4>1, UsageInNat DEF Max2, Min2
    <3>. HIDE DEF lo, to
    <3>. QED BY <1>1, <2>1, <2>2, <3>1, <3>2, <3>3
  <2>. QED BY <2>3, <2>4, <2>5 DEF Semantics
<1>. QED BY <1>3, <1>4

(* tpsSample samples a request exactly if it qualifies: its output, and    *)
(* its time but for less than a millisecond.                               *)
Shown(u, d, s) == Output(u) - ThoughtsLeftOut(u, d, s)

LEMMA EventSample ==
    ASSUME NEW u \in Usages, NEW s \in Semantics, NEW d \in RawDetails(u, s)
    PROVE  LET sample == TPSSample(d, s) IN
           IF Qualifies(u, Shown(u, d, s))
           THEN /\ sample.tokens = Shown(u, d, s) /\ sample.tokens \in Nat
                /\ sample.ms \in Nat /\ u.done - u.first \in Nat
                /\ sample.ms * Milli <= u.done - u.first
                /\ u.done - u.first <= sample.ms * Milli + (Milli - 1)
           ELSE sample.tokens = 0 /\ sample.ms = 0
<1>. DEFINE n == Shown(u, d, s)
<1>1. Milli \in Nat \ {0} /\ MinTPSTokens \in Nat
  BY AccountingAssumption
<1>2. /\ d.failed = u.failed /\ d.stream = u.stream
      /\ d.ttft = u.first /\ d.latency = u.done
  BY RawDetailFields
<1>3. Generated(d, s) = n /\ n \in Nat
  BY LeftOut, UsageInNat DEF Generated, Shown, Semantics, Output
<1>4. GenMs(d) = (u.done - u.first) \div Milli
  BY <1>2 DEF GenMs
<1>. HIDE DEF n
<1>5. CASE d.failed \/ ~d.stream \/ d.ttft <= 0 \/ d.latency <= d.ttft
  <2>1. TPSSample(d, s) = NoSample
    BY <1>5 DEF TPSSample
  <2>2. ~Qualifies(u, n)
    BY <1>1, <1>2, <1>5, UsageInNat DEF Qualifies
  <2>. QED BY <2>1, <2>2 DEF NoSample, n
<1>6. CASE ~(d.failed \/ ~d.stream \/ d.ttft <= 0 \/ d.latency <= d.ttft)
  <2>1. u.done - u.first \in Nat
    BY <1>2, <1>6, UsageInNat
  <2>2. /\ GenMs(d) \in Nat /\ (GenMs(d) > 0 <=> u.done - u.first >= Milli)
        /\ GenMs(d) * Milli <= u.done - u.first
        /\ u.done - u.first <= GenMs(d) * Milli + (Milli - 1)
    BY <1>1, <1>4, <2>1, Division
  <2>3. Qualifies(u, n) <=> n >= MinTPSTokens /\ GenMs(d) > 0
    BY <1>1, <1>2, <1>6, <2>2, UsageInNat DEF Qualifies
  <2>4. TPSSample(d, s) = IF Qualifies(u, n) THEN [tokens |-> n, ms |-> GenMs(d)]
                          ELSE NoSample
    <3>1. TPSSample(d, s) = IF n < MinTPSTokens \/ GenMs(d) <= 0 THEN NoSample
                            ELSE [tokens |-> n, ms |-> GenMs(d)]
      BY <1>3, <1>6 DEF TPSSample
    <3>2. ~(n < MinTPSTokens \/ GenMs(d) <= 0) <=> Qualifies(u, n)
      BY <1>1, <1>3, <2>2, <2>3
    <3>. QED BY <3>1, <3>2
  <2>. QED BY <1>3, <2>1, <2>2, <2>4 DEF NoSample, n
<1>. QED BY <1>5, <1>6

LEMMA SemanticsResolved ==
    ASSUME NEW p, NEW e PROVE ResolveTokenSemantics(p, e) \in Semantics
BY DEF ResolveTokenSemantics, Semantics

-----------------------------------------------------------------------------
(* The inductive invariant of the counting columns.  The typing is what    *)
(* makes the comparison with the truth inductive.                          *)
Counting == {"total", "genTokens", "genMs"}
Counts == {"tokens", "hidden", "timed", "genTokens", "genTicks"}

CountsAreTrue ==
    /\ sums = [p \in Providers |-> [c \in Columns |-> sums[p][c]]]
    /\ truth = [p \in Providers |-> [k \in Known |-> truth[p][k]]]
    /\ \A p \in Providers, c \in Counting : sums[p][c] \in Nat
    /\ \A p \in Providers, k \in Counts : truth[p][k] \in Nat
    /\ TokensAreTrue
    /\ SpeedIsTrue

LEMMA CountsInit == Init => CountsAreTrue
<1>. SUFFICES ASSUME Init PROVE CountsAreTrue
  OBVIOUS
<1>1. /\ \A p \in Providers, c \in Columns : sums[p][c] = 0
      /\ \A p \in Providers, k \in Known : truth[p][k] = 0
  BY DEF Init
<1>2. Counting \subseteq Columns /\ Counts \subseteq Known
  BY DEF Counting, Columns, Counts, Known
<1>3. \A p \in Providers :
          /\ sums[p].total = 0 /\ sums[p].genTokens = 0 /\ sums[p].genMs = 0
          /\ truth[p].tokens = 0 /\ truth[p].hidden = 0 /\ truth[p].timed = 0
          /\ truth[p].genTokens = 0 /\ truth[p].genTicks = 0
  BY <1>1 DEF Columns, Known
<1>4. Milli \in Nat /\ Milli - 1 \in Nat
  BY AccountingAssumption
<1>5. \A x \in Nat : 0 * x = 0
  OBVIOUS
<1>6. TokensAreTrue /\ SpeedIsTrue
  BY <1>3, <1>4, <1>5 DEF TokensAreTrue, SpeedIsTrue
<1>. QED BY <1>1, <1>2, <1>6 DEF Init, CountsAreTrue

(* A usage record adds the columns of its event, and what was really used, *)
(* to those of its provider, and nothing elsewhere.                        *)
LEMMA HandleAdds ==
    ASSUME CountsAreTrue, NEW src \in Sources, NEW u \in Usages, Handle(src[1], src[2], u)
    PROVE  LET s == ResolveTokenSemantics(src[1], src[2]) IN
           \E d \in RawDetails(u, s) :
               /\ sums' = [r \in Providers |-> [c \in Columns |-> sums'[r][c]]]
               /\ truth' = [r \in Providers |-> [k \in Known |-> truth'[r][k]]]
               /\ \A c \in Columns : sums'[src[1]][c]
                                         = sums[src[1]][c] + transformToEgoEvent(d, s)[c]
               /\ \A k \in Known : truth'[src[1]][k] = truth[src[1]][k] + Added(u, d, s)[k]
               /\ \A r \in Providers : r # src[1] => sums'[r] = sums[r] /\ truth'[r] = truth[r]
<1>. DEFINE p == src[1]
            s == ResolveTokenSemantics(src[1], src[2])
<1>1. p \in Providers
  BY AccountingAssumption
<1>2. PICK d \in RawDetails(u, s) :
          /\ sums' = [sums EXCEPT ![p] =
                 [c \in Columns |-> @[c] + transformToEgoEvent(d, s)[c]]]
          /\ truth' = [truth EXCEPT ![p] = [k \in Known |-> @[k] + Added(u, d, s)[k]]]
  BY DEF Handle
<1>3. /\ sums' = [r \in Providers |-> [c \in Columns |-> sums'[r][c]]]
      /\ \A c \in Columns : sums'[p][c] = sums[p][c] + transformToEgoEvent(d, s)[c]
      /\ \A r \in Providers : r # p => sums'[r] = sums[r]
  <2>. DEFINE e == transformToEgoEvent(d, s)
  <2>1. sums' = [sums EXCEPT ![p] = [c \in Columns |-> @[c] + e[c]]]
    BY <1>2
  <2>. HIDE DEF e, s, p
  <2>2. /\ sums' = [r \in Providers |-> [c \in Columns |-> sums'[r][c]]]
        /\ \A c \in Columns : sums'[p][c] = sums[p][c] + e[c]
        /\ \A r \in Providers : r # p => sums'[r] = sums[r]
    BY <1>1, <2>1 DEF CountsAreTrue
  <2>. QED BY <2>2 DEF e
<1>4. /\ truth' = [r \in Providers |-> [k \in Known |-> truth'[r][k]]]
      /\ \A k \in Known : truth'[p][k] = truth[p][k] + Added(u, d, s)[k]
      /\ \A r \in Providers : r # p => truth'[r] = truth[r]
  <2>. DEFINE a == Added(u, d, s)
  <2>1. truth' = [truth EXCEPT ![p] = [k \in Known |-> @[k] + a[k]]]
    BY <1>2
  <2>. HIDE DEF a, s, p
  <2>2. /\ truth' = [r \in Providers |-> [k \in Known |-> truth'[r][k]]]
        /\ \A k \in Known : truth'[p][k] = truth[p][k] + a[k]
        /\ \A r \in Providers : r # p => truth'[r] = truth[r]
    BY <1>1, <2>1 DEF CountsAreTrue
  <2>. QED BY <2>2 DEF a
<1>. QED BY <1>2, <1>3, <1>4

(* One usage record adds the same to a column as to the truth.             *)
LEMMA HandleCounts ==
    ASSUME CountsAreTrue, NEW src \in Sources, NEW u \in Usages, Handle(src[1], src[2], u)
    PROVE  CountsAreTrue'
<1>. DEFINE p == src[1]
            s == ResolveTokenSemantics(src[1], src[2])
<1>1. p \in Providers /\ s \in Semantics
  BY AccountingAssumption, SemanticsResolved
<1>2. PICK d \in RawDetails(u, s) :
          /\ sums' = [r \in Providers |-> [c \in Columns |-> sums'[r][c]]]
          /\ truth' = [r \in Providers |-> [k \in Known |-> truth'[r][k]]]
          /\ \A c \in Columns : sums'[p][c] = sums[p][c] + transformToEgoEvent(d, s)[c]
          /\ \A k \in Known : truth'[p][k] = truth[p][k] + Added(u, d, s)[k]
          /\ \A r \in Providers : r # p => sums'[r] = sums[r] /\ truth'[r] = truth[r]
  BY HandleAdds
<1>. DEFINE e == transformToEgoEvent(d, s)
            a == Added(u, d, s)
<1>. HIDE DEF p, s
<1>3. /\ e.total = TotalTokens(d, s)
      /\ e.genTokens = TPSSample(d, s).tokens /\ e.genMs = TPSSample(d, s).ms
  BY DEF transformToEgoEvent, Event
<1>4. /\ a.tokens = Total(u) /\ a.hidden = Hidden(u, d, s)
      /\ a.timed = (IF Qualifies(u, Shown(u, d, s)) THEN 1 ELSE 0)
      /\ a.genTokens = (IF Qualifies(u, Shown(u, d, s)) THEN Shown(u, d, s) ELSE 0)
      /\ a.genTicks = (IF Qualifies(u, Shown(u, d, s)) THEN u.done - u.first ELSE 0)
  BY DEF Added, Shown
<1>. HIDE DEF e, a
<1>5. /\ e.total \in Nat /\ a.tokens \in Nat /\ a.hidden \in Nat
      /\ e.total + a.hidden = a.tokens
  BY <1>1, <1>2, <1>3, <1>4, EventTotal
<1>6. Milli \in Nat \ {0} /\ Milli - 1 \in Nat
  BY AccountingAssumption
<1>7. /\ e.genTokens \in Nat /\ e.genMs \in Nat
      /\ a.timed \in Nat /\ a.genTokens \in Nat /\ a.genTicks \in Nat
      /\ e.genTokens = a.genTokens
      /\ e.genMs * Milli <= a.genTicks
      /\ a.genTicks <= e.genMs * Milli + a.timed * (Milli - 1)
  <2>1. CASE Qualifies(u, Shown(u, d, s))
    BY <1>1, <1>2, <1>3, <1>4, <1>6, <2>1, EventSample
  <2>2. CASE ~Qualifies(u, Shown(u, d, s))
    BY <1>1, <1>2, <1>3, <1>4, <1>6, <2>2, EventSample
  <2>. QED BY <2>1, <2>2
<1>8. /\ \A c \in Counting : c \in Columns /\ sums'[p][c] = sums[p][c] + e[c]
      /\ \A k \in Counts : k \in Known /\ truth'[p][k] = truth[p][k] + a[k]
  BY <1>2 DEF e, a, Counting, Columns, Counts, Known
<1>9. /\ \A c \in Counting : sums[p][c] \in Nat
      /\ \A k \in Counts : truth[p][k] \in Nat
      /\ sums[p].total + truth[p].hidden = truth[p].tokens
      /\ sums[p].genTokens = truth[p].genTokens
      /\ sums[p].genMs * Milli <= truth[p].genTicks
      /\ truth[p].genTicks <= sums[p].genMs * Milli + truth[p].timed * (Milli - 1)
  BY <1>1 DEF CountsAreTrue, TokensAreTrue, SpeedIsTrue
<1>10. /\ \A c \in Counting : sums'[p][c] \in Nat
       /\ \A k \in Counts : truth'[p][k] \in Nat
       /\ sums'[p].total + truth'[p].hidden = truth'[p].tokens
       /\ sums'[p].genTokens = truth'[p].genTokens
  BY <1>5, <1>7, <1>8, <1>9 DEF Counting, Counts
<1>11. /\ sums'[p].genMs * Milli <= truth'[p].genTicks
       /\ truth'[p].genTicks <= sums'[p].genMs * Milli + truth'[p].timed * (Milli - 1)
  <2>1. /\ sums'[p].genMs = sums[p].genMs + e.genMs
        /\ truth'[p].timed = truth[p].timed + a.timed
        /\ truth'[p].genTicks = truth[p].genTicks + a.genTicks
    BY <1>8 DEF Counting, Counts
  <2>2. /\ sums[p].genMs \in Nat /\ truth[p].timed \in Nat /\ truth[p].genTicks \in Nat
    BY <1>9 DEF Counting, Counts
  <2>3. /\ sums'[p].genMs * Milli = sums[p].genMs * Milli + e.genMs * Milli
        /\ truth'[p].timed * (Milli - 1)
               = truth[p].timed * (Milli - 1) + a.timed * (Milli - 1)
    BY <1>6, <1>7, <2>1, <2>2, Products
  <2>4. /\ sums[p].genMs * Milli \in Nat /\ e.genMs * Milli \in Nat
        /\ truth[p].timed * (Milli - 1) \in Nat /\ a.timed * (Milli - 1) \in Nat
    BY <1>6, <1>7, <2>2, Products
  <2>. QED BY <1>7, <1>9, <2>1, <2>2, <2>3, <2>4
<1>12. ASSUME NEW r \in Providers
       PROVE  /\ \A c \in Counting : sums'[r][c] \in Nat
              /\ \A k \in Counts : truth'[r][k] \in Nat
              /\ sums'[r].total + truth'[r].hidden = truth'[r].tokens
              /\ sums'[r].genTokens = truth'[r].genTokens
              /\ sums'[r].genMs * Milli <= truth'[r].genTicks
              /\ truth'[r].genTicks <= sums'[r].genMs * Milli + truth'[r].timed * (Milli - 1)
  <2>1. CASE r = p
    BY <2>1, <1>10, <1>11
  <2>2. CASE r # p
    BY <2>2, <1>2 DEF CountsAreTrue, TokensAreTrue, SpeedIsTrue
  <2>. QED BY <2>1, <2>2
<1>13. TokensAreTrue' /\ SpeedIsTrue'
  BY <1>12 DEF TokensAreTrue, SpeedIsTrue
<1>. QED BY <1>2, <1>12, <1>13 DEF CountsAreTrue

LEMMA CountsStep == CountsAreTrue /\ [Next]_vars => CountsAreTrue'
<1>. SUFFICES ASSUME CountsAreTrue, [Next]_vars PROVE CountsAreTrue'
  OBVIOUS
<1>1. ASSUME NEW s \in Sources, NEW u \in Usages, Handle(s[1], s[2], u)
      PROVE  CountsAreTrue'
  BY <1>1, HandleCounts
<1>2. CASE UNCHANGED vars
  BY <1>2 DEF vars, CountsAreTrue, TokensAreTrue, SpeedIsTrue
<1>. QED BY <1>1, <1>2 DEF Next

LEMMA CountsInvariant == Spec => []CountsAreTrue
<1>. QED BY CountsInit, CountsStep, PTL DEF Spec

(* The total_tokens column of ego_events (transformToEgoEvent) counts every *)
(* token once: for every provider, any number of requests and every way a  *)
(* host may report them, also an input without the cache and an output     *)
(* without thoughts; only what no field of a report shows is not in it.    *)
THEOREM EveryTokenOnce == Spec => []TokensAreTrue
<1>1. CountsAreTrue => TokensAreTrue
  BY DEF CountsAreTrue
<1>. QED BY <1>1, CountsInvariant, PTL

(* The columns behind Avg TPS (tpsSample) hold the output of exactly the   *)
(* requests that succeeded, streamed and took at least a millisecond after *)
(* the first byte, and the time of those, to a millisecond each.           *)
THEOREM SampledSpeed == Spec => []SpeedIsTrue
<1>1. CountsAreTrue => SpeedIsTrue
  BY DEF CountsAreTrue
<1>. QED BY <1>1, CountsInvariant, PTL

-----------------------------------------------------------------------------
(* Prices.  The columns e of some reports do not by themselves give a      *)
(* price, but with what t those reports left out they do: the books below  *)
(* are linear in e and t.  What CalculateTokenCost makes of e alone, by    *)
(* clipping a difference and taking a maximum, then differs from the price *)
(* by at most what was left out.                                           *)
Billed == {"prompt", "completion", "reasoning", "cached", "cacheCreation"}
Prices == {"cost", "cacheLeftOut", "thoughtsLeftOut"}

Fresh(e, t, s) ==
    IF s = "independent" THEN e.prompt
    ELSE (e.prompt + t.cacheLeftOut) - (e.cached + e.cacheCreation)

Produced(e, t, s) ==
    IF s = "separateReasoning" THEN e.completion + e.reasoning
    ELSE e.completion + t.thoughtsLeftOut

Price(e, t, s) ==
    Fresh(e, t, s) * rate.input + e.cached * ReadRate + e.cacheCreation * CreationRate(s)
        + Produced(e, t, s) * rate.output

Books(e, t, s) ==
    /\ \A c \in Billed : e[c] \in Nat
    /\ \A k \in Prices : t[k] \in Nat
    /\ Fresh(e, t, s) \in Nat
    /\ s # "subset" => t.thoughtsLeftOut = 0
    /\ s = "subset" => e.reasoning <= Produced(e, t, s)
    /\ t.cost = Price(e, t, s)

LEMMA RatesInNat ==
    ASSUME rate \in Rates, NEW s \in Semantics
    PROVE  /\ rate.input \in Nat /\ rate.output \in Nat
           /\ ReadRate \in Nat /\ CreationRate(s) \in Nat
<1>1. /\ rate.input \in Nat /\ rate.output \in Nat
      /\ rate.read \in Nat /\ rate.created \in Nat
  BY AccountingAssumption
<1>2. (rate.input * 5) \div 4 \in Nat
  BY <1>1
<1>. QED BY <1>1, <1>2 DEF ReadRate, CreationRate

(* The books are kept by adding: reports and left-outs of two parts give   *)
(* those of the whole, and so do the prices.                               *)
LEMMA BooksAdd ==
    ASSUME rate \in Rates, NEW s \in Semantics,
           NEW a, NEW b, NEW c, NEW ta, NEW tb, NEW tc, Books(a, ta, s), Books(b, tb, s),
           \A k \in Billed : c[k] = a[k] + b[k],
           \A k \in Prices : tc[k] = ta[k] + tb[k]
    PROVE  Books(c, tc, s)
<1>1. /\ c.prompt = a.prompt + b.prompt /\ c.completion = a.completion + b.completion
      /\ c.reasoning = a.reasoning + b.reasoning /\ c.cached = a.cached + b.cached
      /\ c.cacheCreation = a.cacheCreation + b.cacheCreation
      /\ tc.cost = ta.cost + tb.cost
      /\ tc.cacheLeftOut = ta.cacheLeftOut + tb.cacheLeftOut
      /\ tc.thoughtsLeftOut = ta.thoughtsLeftOut + tb.thoughtsLeftOut
  BY DEF Billed, Prices
<1>2. /\ a.prompt \in Nat /\ a.completion \in Nat /\ a.reasoning \in Nat
      /\ a.cached \in Nat /\ a.cacheCreation \in Nat
      /\ ta.cost \in Nat /\ ta.cacheLeftOut \in Nat /\ ta.thoughtsLeftOut \in Nat
  BY DEF Books, Billed, Prices
<1>3. /\ b.prompt \in Nat /\ b.completion \in Nat /\ b.reasoning \in Nat
      /\ b.cached \in Nat /\ b.cacheCreation \in Nat
      /\ tb.cost \in Nat /\ tb.cacheLeftOut \in Nat /\ tb.thoughtsLeftOut \in Nat
  BY DEF Books, Billed, Prices
<1>4. /\ Fresh(c, tc, s) = Fresh(a, ta, s) + Fresh(b, tb, s)
      /\ Fresh(a, ta, s) \in Nat /\ Fresh(b, tb, s) \in Nat
  BY <1>1, <1>2, <1>3 DEF Books, Fresh
<1>5. /\ Produced(c, tc, s) = Produced(a, ta, s) + Produced(b, tb, s)
      /\ Produced(a, ta, s) \in Nat /\ Produced(b, tb, s) \in Nat
  BY <1>1, <1>2, <1>3 DEF Produced
<1>6. Price(c, tc, s) = Price(a, ta, s) + Price(b, tb, s)
  <2>. DEFINE i == rate.input
              o == rate.output
              rr == ReadRate
              cr == CreationRate(s)
  <2>1. i \in Nat /\ o \in Nat /\ rr \in Nat /\ cr \in Nat
    BY RatesInNat
  <2>. HIDE DEF i, o, rr, cr
  <2>2. /\ Fresh(c, tc, s) * i = Fresh(a, ta, s) * i + Fresh(b, tb, s) * i
        /\ c.cached * rr = a.cached * rr + b.cached * rr
        /\ c.cacheCreation * cr = a.cacheCreation * cr + b.cacheCreation * cr
        /\ Produced(c, tc, s) * o = Produced(a, ta, s) * o + Produced(b, tb, s) * o
    BY <1>1, <1>2, <1>3, <1>4, <1>5, <2>1, Products
  <2>3. /\ Fresh(a, ta, s) * i \in Nat /\ Fresh(b, tb, s) * i \in Nat
        /\ a.cached * rr \in Nat /\ b.cached * rr \in Nat
        /\ a.cacheCreation * cr \in Nat /\ b.cacheCreation * cr \in Nat
        /\ Produced(a, ta, s) * o \in Nat /\ Produced(b, tb, s) * o \in Nat
    BY <1>2, <1>3, <1>4, <1>5, <2>1, Products
  <2>. QED BY <2>2, <2>3 DEF Price, i, o, rr, cr
<1>7. s # "subset" => tc.thoughtsLeftOut = 0
  BY <1>1 DEF Books
<1>8. s = "subset" => c.reasoning <= Produced(c, tc, s)
  BY <1>1, <1>2, <1>3, <1>5 DEF Books
<1>9. tc.cost = Price(c, tc, s)
  BY <1>1, <1>6 DEF Books
<1>10. /\ \A k \in Billed : c[k] \in Nat
       /\ \A k \in Prices : tc[k] \in Nat
  BY DEF Books
<1>11. Fresh(c, tc, s) \in Nat
  BY <1>4
<1>. QED BY <1>7, <1>8, <1>9, <1>10, <1>11 DEF Books

(* The books hold of the event of one request.                             *)
LEMMA EventBooks ==
    ASSUME rate \in Rates, NEW u \in Usages, NEW s \in Semantics, NEW d \in RawDetails(u, s)
    PROVE  Books(transformToEgoEvent(d, s), Added(u, d, s), s)
<1>. DEFINE e == transformToEgoEvent(d, s)
            t == Added(u, d, s)
<1>1. /\ e.prompt = d.input /\ e.completion = d.output /\ e.reasoning = d.reasoning
      /\ e.cached = u.read /\ e.cacheCreation = u.created
      /\ t.cost = Cost(u, s) /\ t.cacheLeftOut = CacheLeftOut(u, d, s)
      /\ t.thoughtsLeftOut = ThoughtsLeftOut(u, d, s)
  BY RawDetailFields, ReadsRecovered DEF transformToEgoEvent, Event, Added
<1>. HIDE DEF e, t
<1>2. /\ \A c \in Billed : e[c] \in Nat
      /\ t.cacheLeftOut \in Nat /\ t.thoughtsLeftOut \in Nat
      /\ s # "subset" => t.thoughtsLeftOut = 0
  BY <1>1, LeftOut, UsageInNat DEF Billed
<1>3. Fresh(e, t, s) = u.fresh /\ u.fresh \in Nat
  BY <1>1, LeftOut, UsageInNat DEF Fresh, Prompt
<1>4. /\ Produced(e, t, s) = u.visible + u.thought
      /\ s = "subset" => e.reasoning <= Produced(e, t, s)
  BY <1>1, LeftOut, UsageInNat DEF Produced, Output, Semantics
<1>5. t.cost = Price(e, t, s)
  BY <1>1, <1>3, <1>4 DEF Cost, Price
<1>6. t.cost \in Nat
  <2>1. /\ u.fresh * rate.input \in Nat /\ u.read * ReadRate \in Nat
        /\ u.created * CreationRate(s) \in Nat
        /\ (u.visible + u.thought) * rate.output \in Nat
    BY RatesInNat, UsageInNat, Products
  <2>. QED BY <1>1, <2>1 DEF Cost
<1>. QED BY <1>2, <1>3, <1>4, <1>5, <1>6 DEF Books, Prices, e, t

(* Clipping and the maximum never add to the price, and take off at most   *)
(* what was left out.                                                      *)
LEMMA BooksBound ==
    ASSUME rate \in Rates, NEW s \in Semantics, NEW e, NEW t, Books(e, t, s)
    PROVE  LET cost == PromptCost(e, s) + OutputCost(e, s) IN
           /\ cost <= t.cost
           /\ t.cost <= cost + t.cacheLeftOut * rate.input + t.thoughtsLeftOut * rate.output
<1>. DEFINE i == rate.input
            o == rate.output
            paid == e.cached * ReadRate + e.cacheCreation * CreationRate(s)
            U == IF s = "independent" THEN Max2(e.prompt, 0)
                 ELSE Max2(e.prompt - (e.cached + e.cacheCreation), 0)
            O == CASE s = "independent" -> e.completion
                   [] s = "separateReasoning" -> e.completion + e.reasoning
                   [] OTHER -> Max2(e.completion, e.reasoning)
            F == Fresh(e, t, s)
            P == Produced(e, t, s)
            lo == t.cacheLeftOut
            to == t.thoughtsLeftOut
<1>1. /\ e.prompt \in Nat /\ e.completion \in Nat /\ e.reasoning \in Nat
      /\ e.cached \in Nat /\ e.cacheCreation \in Nat /\ lo \in Nat /\ to \in Nat
      /\ t.cost \in Nat
  BY DEF Books, Billed, Prices
<1>2. F \in Nat /\ U \in Nat /\ U <= F /\ F <= U + lo
  BY <1>1 DEF Books, Fresh, Max2
<1>3. P \in Nat /\ O \in Nat /\ O <= P /\ P <= O + to
  BY <1>1 DEF Books, Produced, Max2, Semantics
<1>4. i \in Nat /\ o \in Nat /\ paid \in Nat
  <2>1. e.cached * ReadRate \in Nat /\ e.cacheCreation * CreationRate(s) \in Nat
    BY <1>1, RatesInNat, Products
  <2>. QED BY <2>1, RatesInNat
<1>5. PromptCost(e, s) = U * i + paid
  <2>1. PromptCost(e, s) = U * i + e.cached * ReadRate + e.cacheCreation * CreationRate(s)
    BY DEF PromptCost
  <2>2. e.cached * ReadRate \in Nat /\ e.cacheCreation * CreationRate(s) \in Nat
    BY <1>1, RatesInNat, Products
  <2>3. U * i \in Nat
    BY <1>2, RatesInNat, Products
  <2>. HIDE DEF U, i
  <2>. QED BY <2>1, <2>2, <2>3
<1>6. OutputCost(e, s) = O * o
  <2>1. OutputCost(e, s) = o * O
    BY DEF OutputCost
  <2>2. \A x, y \in Nat : x * y = y * x
    OBVIOUS
  <2>. HIDE DEF o, O
  <2>. QED BY <1>3, <1>4, <2>1, <2>2
<1>7. t.cost = F * i + paid + P * o
  <2>1. t.cost = F * i + e.cached * ReadRate + e.cacheCreation * CreationRate(s) + P * o
    BY DEF Books, Price
  <2>2. /\ e.cached * ReadRate \in Nat /\ e.cacheCreation * CreationRate(s) \in Nat
        /\ F * i \in Nat /\ P * o \in Nat
    BY <1>1, <1>2, <1>3, <1>4, RatesInNat, Products
  <2>. HIDE DEF F, P, i, o
  <2>. QED BY <2>1, <2>2
<1>. HIDE DEF i, o, paid, U, O, F, P, lo, to
<1>8. /\ U * i <= F * i /\ F * i <= U * i + lo * i
      /\ U * i \in Nat /\ F * i \in Nat /\ lo * i \in Nat
  <2>1. (U + lo) * i = U * i + lo * i /\ U + lo \in Nat
    BY <1>1, <1>2, <1>4, Products
  <2>. QED BY <1>1, <1>2, <1>4, <2>1, Products
<1>9. /\ O * o <= P * o /\ P * o <= O * o + to * o
      /\ O * o \in Nat /\ P * o \in Nat /\ to * o \in Nat
  <2>1. (O + to) * o = O * o + to * o /\ O + to \in Nat
    BY <1>1, <1>3, <1>4, Products
  <2>. QED BY <1>1, <1>3, <1>4, <2>1, Products
<1>10. /\ PromptCost(e, s) + OutputCost(e, s) <= t.cost
       /\ t.cost <= PromptCost(e, s) + OutputCost(e, s) + lo * i + to * o
  BY <1>1, <1>4, <1>5, <1>6, <1>7, <1>8, <1>9
<1>. QED BY <1>10 DEF i, o, lo, to

(* The inductive invariant of the cost, relative to the shapes of the      *)
(* variables that CountsAreTrue gives.                                     *)
Named(p) == ResolveTokenSemantics(p, "native")

CostInv ==
    /\ rate \in Rates
    /\ \A p \in Providers : Books(sums[p], truth[p], Named(p))

LEMMA CostInit == Init => CostInv
<1>. SUFFICES ASSUME Init PROVE CostInv
  OBVIOUS
<1>1. rate \in Rates
  BY DEF Init
<1>2. ASSUME NEW p \in Providers
      PROVE  Books(sums[p], truth[p], Named(p))
  <2>. DEFINE e == sums[p]
              t == truth[p]
              s == Named(p)
  <2>1. s \in Semantics
    BY SemanticsResolved DEF Named
  <2>2. /\ e.prompt = 0 /\ e.completion = 0 /\ e.reasoning = 0
        /\ e.cached = 0 /\ e.cacheCreation = 0
        /\ t.cost = 0 /\ t.cacheLeftOut = 0 /\ t.thoughtsLeftOut = 0
    BY DEF Init, Columns, Known
  <2>. HIDE DEF e, t, s
  <2>3. Fresh(e, t, s) = 0 /\ Produced(e, t, s) = 0
    BY <2>2 DEF Fresh, Produced
  <2>4. \A x \in Nat : 0 * x = 0
    OBVIOUS
  <2>5. Price(e, t, s) = 0
    BY <1>1, <2>1, <2>2, <2>3, <2>4, RatesInNat DEF Price
  <2>6. Books(e, t, s)
    BY <2>2, <2>3, <2>5 DEF Books, Billed, Prices
  <2>. QED BY <2>6 DEF e, t, s
<1>. QED BY <1>1, <1>2 DEF CostInv

LEMMA CostStep ==
    ASSUME NamesTell(Sources), CountsAreTrue, CostInv, [Next]_vars
    PROVE  CostInv'
<1>1. ASSUME NEW src \in Sources, NEW u \in Usages, Handle(src[1], src[2], u)
      PROVE  CostInv'
  <2>. DEFINE p == src[1]
              s == Named(p)
  <2>1. p \in Providers /\ s \in Semantics /\ ResolveTokenSemantics(src[1], src[2]) = s
    BY AccountingAssumption, SemanticsResolved DEF NamesTell, Named
  <2>2. rate' = rate /\ rate \in Rates
    BY <1>1 DEF Handle, CostInv
  <2>3. PICK d \in RawDetails(u, s) :
            /\ \A c \in Columns : sums'[p][c] = sums[p][c] + transformToEgoEvent(d, s)[c]
            /\ \A k \in Known : truth'[p][k] = truth[p][k] + Added(u, d, s)[k]
            /\ \A r \in Providers : r # p => sums'[r] = sums[r] /\ truth'[r] = truth[r]
    BY <1>1, <2>1, HandleAdds
  <2>4. Books(transformToEgoEvent(d, s), Added(u, d, s), s)
    BY <2>1, <2>2, EventBooks
  <2>5. Books(sums[p], truth[p], s)
    BY <2>1 DEF CostInv
  <2>6. Billed \subseteq Columns /\ Prices \subseteq Known
    BY DEF Billed, Columns, Prices, Known
  <2>7. Books(sums'[p], truth'[p], s)
    <3>. HIDE DEF p, s
    <3>1. /\ \A c \in Billed : sums'[p][c] = sums[p][c] + transformToEgoEvent(d, s)[c]
          /\ \A k \in Prices : truth'[p][k] = truth[p][k] + Added(u, d, s)[k]
      BY <2>3, <2>6
    <3>. QED BY <2>1, <2>2, <2>4, <2>5, <3>1, BooksAdd
  <2>8. ASSUME NEW r \in Providers
        PROVE  Books(sums'[r], truth'[r], Named(r))
    <3>1. CASE r = p
      BY <3>1, <2>7
    <3>2. CASE r # p
      BY <3>2, <2>3 DEF CostInv
    <3>. QED BY <3>1, <3>2
  <2>9. ASSUME NEW r \in Providers
        PROVE  Books(sums[r], truth[r], Named(r))'
    <3>1. Price(sums[r], truth[r], Named(r))' = Price(sums'[r], truth'[r], Named(r))
      BY <2>2 DEF Price, Fresh, Produced, ReadRate, CreationRate, Named
    <3>. QED BY <2>8, <3>1 DEF Books, Fresh, Produced, Named
  <2>. QED BY <2>2, <2>9 DEF CostInv
<1>2. CASE UNCHANGED vars
  BY <1>2 DEF vars, CostInv, Books, Price, Fresh, Produced, ReadRate, CreationRate
<1>. QED BY <1>1, <1>2 DEF Next

(* What CalculateTokenCost makes of the summed columns is the sum of what  *)
(* the tokens cost one by one, less at most what reports left out of their *)
(* fields, and never more: for any price list and any number of requests,  *)
(* where the provider's name tells the semantics its executor has.  Where  *)
(* it does not, the cost can be wrong: that is the run accounting_compat.  *)
THEOREM EveryTokenBilledOnce ==
    ASSUME NamesTell(Sources)
    PROVE  Spec => []CostIsTrue
<1>1. CountsAreTrue /\ CostInv /\ [Next]_vars => CostInv'
  BY CostStep
<1>2. CostInv => CostIsTrue
  <2>. SUFFICES ASSUME CostInv, NEW p \in Providers
                PROVE  LET cost == CalculateTokenCost(sums[p], p) IN
                       /\ cost <= truth[p].cost
                       /\ truth[p].cost <= cost + truth[p].cacheLeftOut * rate.input
                                                + truth[p].thoughtsLeftOut * rate.output
    BY DEF CostIsTrue
  <2>1. Named(p) \in Semantics /\ rate \in Rates /\ Books(sums[p], truth[p], Named(p))
    BY SemanticsResolved DEF CostInv, Named
  <2>2. CalculateTokenCost(sums[p], p)
            = PromptCost(sums[p], Named(p)) + OutputCost(sums[p], Named(p))
    BY DEF CalculateTokenCost, Named
  <2>. QED BY <2>1, <2>2, BooksBound
<1>. QED BY <1>1, <1>2, CostInit, CountsInvariant, PTL DEF Spec
=============================================================================
