--------------------------- MODULE EgoAccounting ---------------------------
(***************************************************************************)
(* How Ego counts and prices tokens (internal/ego/worker.go and            *)
(* pricing.go): a usage record of the host becomes an event, SQLite sums   *)
(* the events of a provider, and a query prices the sums.  Providers       *)
(* report the same tokens in three ways; truth is what was really used,    *)
(* token by token, and the sums must come to the same.                     *)
(*                                                                         *)
(* Names are abstracted to the markers found in them; money is counted in  *)
(* units small enough for 1.25 times the input rate to be an integer.      *)
(***************************************************************************)
EXTENDS Integers

CONSTANTS Providers,      \* provider names
          CompatNamed,    \* those named openai-compatibility, openai-compatible-*
          ClaudeNamed,    \* those with claude or anthropic in the name
          GeminiNamed,    \* those with gemini, vertex, antigravity, ...
          Sources,        \* pairs of a provider and a kind of executor
          Usages,         \* token counts of one request
          Rates,          \* price list entries, in multiples of 4
          MinTPSTokens,   \* minTPSTokens, 20 in the code
          Milli,          \* clock ticks in a millisecond, 1_000_000 in the code
          MaxRequests     \* bound on usage records

Executors == {"native", "openaicompat"}

ASSUME AccountingAssumption ==
    /\ CompatNamed \cup ClaudeNamed \cup GeminiNamed \subseteq Providers
    /\ Sources \subseteq Providers \X Executors
    /\ Usages \subseteq [fresh : Nat, read : Nat, created : Nat,  \* prompt
                         visible : Nat, thought : Nat,            \* output
                         failed : BOOLEAN, stream : BOOLEAN,
                         first : Nat,  \* ticks until the first byte, 0 if none
                         done : Nat]   \* and until the end, 0 if not measured
    /\ \A r \in Rates : /\ \A k \in {"input", "output", "read", "created"} : r[k] \in Nat
                        /\ r.input % 4 = 0
    /\ {MinTPSTokens, MaxRequests} \subseteq Nat /\ Milli \in Nat \ {0}

VARIABLES rate,      \* the price of the model
          requests,  \* how many usage records were handled
          sums,      \* per provider, SUM of each column of ego_events
          truth      \* history: per provider, what was really used, and
                     \* what its reports left out of the fields it belongs in

vars == <<rate, requests, sums, truth>>

-----------------------------------------------------------------------------
Max2(a, b) == IF a >= b THEN a ELSE b
Min2(a, b) == IF a <= b THEN a ELSE b

ResolveTokenSemantics(provider, executor) ==
    IF executor = "openaicompat" \/ provider \in CompatNamed THEN "subset"
    ELSE IF provider \in ClaudeNamed THEN "independent"
    ELSE IF provider \in GeminiNamed THEN "separateReasoning"
    ELSE "subset"

(* The host's report of the usage u, per accounting semantics.  The total, *)
(* and reasoning that is part of the output, may be missing; cachedTokens  *)
(* is empty, or echoes the reads, or without reads the creation; an old    *)
(* host fills nothing but cachedTokens.  A provider may also report as one *)
(* of another kind would: an input without the cache, so that the cached   *)
(* tokens can exceed it (pricing_test.go:281), an output without thoughts, *)
(* which can exceed it as well (worker_test.go:375).                       *)
Prompt(u) == u.fresh + u.read + u.created
Output(u) == u.visible + u.thought
Total(u) == Prompt(u) + Output(u)

RawDetails(u, semantics) ==
    LET inputs  == IF semantics = "independent" THEN {u.fresh} ELSE {Prompt(u), u.fresh}
        whole   == {<<Output(u), u.thought>>, <<Output(u), 0>>}
        apart   == {<<u.visible, u.thought>>}
        outputs == CASE semantics = "independent" -> whole
                     [] semantics = "separateReasoning" -> apart
                     [] OTHER -> whole \cup apart
        caches  == {<<0, u.read>>, <<IF u.read > 0 THEN u.read ELSE u.created, u.read>>}
                       \cup (IF u.created = 0 THEN {<<u.read, 0>>} ELSE {})
    IN  {[input |-> input, output |-> output[1], reasoning |-> output[2],
          cached |-> cache[1], cacheRead |-> cache[2], cacheCreation |-> u.created,
          total |-> total, failed |-> u.failed, stream |-> u.stream,
          ttft |-> u.first, latency |-> u.done] :
             input \in inputs, output \in outputs, cache \in caches, total \in {0, Total(u)}}

-----------------------------------------------------------------------------
(* transformToEgoEvent *)
CacheReads(d) ==
    IF d.cacheRead = 0 /\ d.cached # d.cacheCreation THEN d.cached ELSE d.cacheRead

TotalTokens(d, semantics) ==
    IF d.total # 0 THEN d.total
    ELSE CASE semantics = "independent" ->
                  d.input + CacheReads(d) + d.cacheCreation + d.output
           [] semantics = "separateReasoning" -> d.input + d.output + d.reasoning
           [] OTHER -> d.input + Max2(d.output, d.reasoning)

(* tpsSample: generated tokens and whole milliseconds, or zeros.           *)
Generated(d, semantics) ==
    d.output + (IF semantics = "separateReasoning" THEN d.reasoning ELSE 0)

GenMs(d) == (d.latency - d.ttft) \div Milli

NoSample == [tokens |-> 0, ms |-> 0]

TPSSampleFailed(d, semantics) ==  \* fault: failed requests are sampled
    IF ~d.stream \/ d.ttft <= 0 \/ d.latency <= d.ttft THEN NoSample
    ELSE IF Generated(d, semantics) < MinTPSTokens \/ GenMs(d) <= 0 THEN NoSample
    ELSE [tokens |-> Generated(d, semantics), ms |-> GenMs(d)]

TPSSample(d, semantics) ==
    IF d.failed \/ ~d.stream \/ d.ttft <= 0 \/ d.latency <= d.ttft THEN NoSample
    ELSE IF Generated(d, semantics) < MinTPSTokens \/ GenMs(d) <= 0 THEN NoSample
    ELSE [tokens |-> Generated(d, semantics), ms |-> GenMs(d)]

Event(d, prompt, cached, semantics) ==
    [prompt |-> prompt, completion |-> d.output, reasoning |-> d.reasoning,
     cached |-> cached, cacheCreation |-> d.cacheCreation,
     total |-> TotalTokens(d, semantics),
     genTokens |-> TPSSample(d, semantics).tokens, genMs |-> TPSSample(d, semantics).ms]

EventBlind(d, semantics) ==  \* fault: cachedTokens is taken for reads
    Event(d, d.input, IF d.cacheRead = 0 THEN d.cached ELSE d.cacheRead, semantics)

EventTotalled(d, semantics) ==  \* fault: reasoning is added for every provider
    [Event(d, d.input, CacheReads(d), semantics)
        EXCEPT !.total = IF d.total = 0 THEN d.input + d.output + d.reasoning ELSE d.total]

transformToEgoEvent(d, semantics) == Event(d, d.input, CacheReads(d), semantics)

-----------------------------------------------------------------------------
(* CalculateTokenCost, of the sums e of a provider's columns.              *)
ReadRate == IF rate.read = 0 THEN rate.input ELSE rate.read

CreationRate(semantics) ==
    IF rate.created # 0 THEN rate.created
    ELSE IF semantics = "independent" THEN (rate.input * 5) \div 4 ELSE rate.input

PromptCost(e, semantics) ==
    LET uncached == IF semantics = "independent" THEN Max2(e.prompt, 0)
                    ELSE Max2(e.prompt - (e.cached + e.cacheCreation), 0)
    IN  uncached * rate.input + e.cached * ReadRate + e.cacheCreation * CreationRate(semantics)

OutputCost(e, semantics) ==
    rate.output * CASE semantics = "independent" -> e.completion
                    [] semantics = "separateReasoning" -> e.completion + e.reasoning
                    [] OTHER -> Max2(e.completion, e.reasoning)

CalculateTokenCost(e, provider) ==
    LET semantics == ResolveTokenSemantics(provider, "native")
    IN  PromptCost(e, semantics) + OutputCost(e, semantics)

-----------------------------------------------------------------------------
Columns == {"prompt", "completion", "reasoning", "cached", "cacheCreation", "total",
            "genTokens", "genMs"}

(* What the usage u costs, token by token (README, Token Accounting        *)
(* Semantics and Offline API-equivalent estimates).                        *)
Cost(u, semantics) ==
    u.fresh * rate.input + u.read * ReadRate + u.created * CreationRate(semantics)
        + (u.visible + u.thought) * rate.output

(* What a report leaves out of the input and out of the output, where they *)
(* should hold it; and what no field of it shows, if it has no total.      *)
CacheLeftOut(u, d, semantics) == IF semantics = "independent" THEN 0 ELSE Prompt(u) - d.input
ThoughtsLeftOut(u, d, semantics) == IF semantics = "subset" THEN Output(u) - d.output ELSE 0

Hidden(u, d, semantics) ==
    IF d.total # 0 THEN 0
    ELSE CacheLeftOut(u, d, semantics) + Min2(u.visible, ThoughtsLeftOut(u, d, semantics))

(* A request whose speed counts (README.md:118), if its output shows n     *)
(* tokens and a millisecond of it was measured.                            *)
Qualifies(u, n) ==
    ~u.failed /\ u.stream /\ u.first > 0 /\ u.first + Milli <= u.done /\ n >= MinTPSTokens

(* Where a request belongs in the sums: what it adds to the truth.         *)
Added(u, d, semantics) ==
    LET n == Output(u) - ThoughtsLeftOut(u, d, semantics)
        timed(x) == IF Qualifies(u, n) THEN x ELSE 0
    IN  [tokens |-> Total(u), hidden |-> Hidden(u, d, semantics), cost |-> Cost(u, semantics),
         cacheLeftOut |-> CacheLeftOut(u, d, semantics),
         thoughtsLeftOut |-> ThoughtsLeftOut(u, d, semantics),
         timed |-> timed(1), genTokens |-> timed(n), genTicks |-> timed(u.done - u.first)]

Known == {"tokens", "hidden", "cost", "cacheLeftOut", "thoughtsLeftOut",
          "timed", "genTokens", "genTicks"}

Init ==
    /\ rate \in Rates
    /\ requests = 0
    /\ sums = [p \in Providers |-> [c \in Columns |-> 0]]
    /\ truth = [p \in Providers |-> [k \in Known |-> 0]]

(* usage.handle: the record is transformed, queued and inserted.           *)
Handle(provider, executor, u) ==
    LET semantics == ResolveTokenSemantics(provider, executor) IN
    /\ requests < MaxRequests
    /\ requests' = requests + 1
    /\ \E d \in RawDetails(u, semantics) :
           /\ sums' = [sums EXCEPT ![provider] =
                  [c \in Columns |-> @[c] + transformToEgoEvent(d, semantics)[c]]]
           /\ truth' = [truth EXCEPT ![provider] =
                  [k \in Known |-> @[k] + Added(u, d, semantics)[k]]]
    /\ UNCHANGED rate

Next == \E s \in Sources, u \in Usages : Handle(s[1], s[2], u)

Spec == Init /\ [][Next]_vars

-----------------------------------------------------------------------------
(* Every token is counted exactly once, whatever the provider calls it and *)
(* whichever fields the host left empty; all but what a report without a   *)
(* total does not show, which is then not guessed.                         *)
TokensAreTrue ==
    \A p \in Providers : sums[p].total + truth[p].hidden = truth[p].tokens

(* The executor of a row is not stored: the semantics of its cost are told *)
(* by the provider's name alone, which has to tell the same.               *)
NamesTell(S) ==
    \A s \in S : ResolveTokenSemantics(s[1], s[2]) = ResolveTokenSemantics(s[1], "native")

(* Pricing the sums of a provider's columns gives the sum of the prices of *)
(* its tokens: no cache token and no thought is billed twice, or not at    *)
(* all.  Where reports left something out, a difference is clipped or a    *)
(* maximum taken over unlike requests, and one's excess hides another's    *)
(* tokens: that never adds to the price, and takes off no more than what   *)
(* was left out, at the rates of input and output.                         *)
CostIsTrue ==
    \A p \in Providers :
        LET cost == CalculateTokenCost(sums[p], p) IN
        /\ cost <= truth[p].cost
        /\ truth[p].cost <= cost + truth[p].cacheLeftOut * rate.input
                                 + truth[p].thoughtsLeftOut * rate.output

(* The TPS columns hold the tokens of exactly the requests that qualify,   *)
(* as far as their output shows them, and their time, of which less than a *)
(* millisecond each is missing: their quotient is a rate.                  *)
SpeedIsTrue ==
    \A p \in Providers :
        /\ sums[p].genTokens = truth[p].genTokens
        /\ sums[p].genMs * Milli <= truth[p].genTicks
        /\ truth[p].genTicks <= sums[p].genMs * Milli + truth[p].timed * (Milli - 1)
=============================================================================
