----------------------------- MODULE Providers -----------------------------
(***************************************************************************)
(* Which model answers, and how many calls a request may make:             *)
(* task_classifier.py, model_router.py, provider_health.py,                *)
(* provider_budget.py and the limits of usage.py.  The model loops of one  *)
(* request (the executor's and those of its coworkers, each in a process   *)
(* of its own) build a chain of candidates, call one after another as they *)
(* fail, and count their calls in the one usage file.  The planner and the *)
(* tools of an answer call models too, and look at no limit.               *)
(***************************************************************************)
EXTENDS Integers, Sequences, FiniteSets

CONSTANTS
    Loops,        \* model loops of the one request
    Kinds,        \* task types considered
    Configured,   \* providers with an API key
    MaxCalls,     \* max_requests_per_execution
    Budget,       \* provider_daily_budget_usd, in calls
    DayBudget,    \* daily_budget_usd, in calls
    Kept,         \* usage_history_limit, or 0 for all
    Cooldown,     \* provider_failure_cooldown_seconds
    MaxTime,      \* bound: clock ticks
    MaxOthers,    \* bound: calls of other requests
    MaxLost,      \* bound: calls whose record is not saved
    MaxBatch      \* bound: model calls that the tools of one answer make

Providers == {"anthropic", "openai", "xai", "perplexity"}

TaskTypes == {"coding", "debugging", "research_current", "research_general", "reasoning_complex",
              "reasoning_simple", "writing", "vision", "summarization", "planning",
              "document_analysis", "general_chat"}

\* What is assumed of the constants.
ProvidersAssumption ==
    /\ IsFiniteSet(Loops) /\ Loops # {}
    /\ Kinds \subseteq TaskTypes /\ Configured \subseteq Providers
    /\ MaxCalls \in Nat /\ Budget \in Nat /\ DayBudget \in Nat /\ Kept \in Nat
    /\ Cooldown \in Nat /\ MaxTime \in Nat /\ MaxOthers \in Nat /\ MaxLost \in Nat
    /\ MaxBatch \in Nat \ {0}

VARIABLES
    now,
    failedAt,     \* _last_failure_at, of each loop's process
    records,      \* usage_history.json: of each call its provider, and if it is the request's
    stage,        \* where each loop is
    batch,        \* model calls made by the tools of each loop's answer
    chain,        \* the candidates still to be tried, the one in use first
    unbudgeted,   \* history: the candidate it would begin with, were there no budget
    made, others, lost

vars == <<now, failedAt, records, stage, batch, chain, unbudgeted, made, others, lost>>

----------------------------------------------------------------------------
\* classify: of the flags, those that routing reads.
Quality == {"coding", "debugging", "reasoning_complex"}
Cheap == {"reasoning_simple", "summarization"}

Requirements ==
    {r \in [task : Kinds, web : BOOLEAN, large : BOOLEAN] :
        /\ r.task = "research_current" => r.web
        /\ r.task = "research_general" => ~r.web
        /\ r.task = "document_analysis" => r.large
        /\ r.task \in {"reasoning_simple", "general_chat"} => ~r.large}

Preference(t) ==
    CASE t \in {"coding", "debugging"} -> <<"anthropic", "xai", "openai">>
      [] t = "research_current" -> <<"perplexity", "xai", "openai">>
      [] t = "research_general" -> <<"anthropic", "perplexity", "openai">>
      [] t = "reasoning_complex" -> <<"openai", "anthropic", "xai">>
      [] t = "vision" -> <<"openai", "anthropic">>
      [] t \in {"planning", "document_analysis"} -> <<"anthropic", "openai">>
      [] OTHER -> <<"anthropic", "openai", "xai">>

DefaultOrder == <<"anthropic", "openai", "xai", "perplexity">>

\* Of a sequence of providers (there are four) those in a set, in their order.
Among(providers, S) ==
    LET At(i) == IF i \in DOMAIN providers /\ providers[i] \in S THEN <<providers[i]>> ELSE <<>> IN
    At(1) \o At(2) \o At(3) \o At(4)

Ordered(t) ==
    LET preferred == Preference(t) IN
    preferred \o Among(DefaultOrder, Providers \ {preferred[i] : i \in DOMAIN preferred})

\* CAPABILITIES and _capability_satisfies.
Capable(p, r) ==
    /\ r.task = "vision" => p \in {"anthropic", "openai"}
    /\ r.web => p = "perplexity"
    /\ r.large => p # "perplexity"

\* _model_for.
ModelFor(p, r) ==
    CASE p = "anthropic" -> IF r.task \in Cheap THEN "haiku" ELSE "sonnet"
      [] p = "openai" -> IF r.task \in Cheap THEN "luna" ELSE IF r.task \in Quality THEN "sol" ELSE "terra"
      [] p = "xai" -> IF r.task \in Quality THEN "grok-4.6" ELSE "grok-4.3"
      [] p = "perplexity" -> "low"

Choice(p, m) == [provider |-> p, model |-> m]
StaticChain == <<Choice("anthropic", "sonnet"), Choice("openai", "terra")>>

\* _PRICING, in cents for a million tokens in and a million out; "low" has the default price.
PriceOf(c) ==
    CASE c.model = "haiku" -> 600   [] c.model = "sonnet" -> 1200
      [] c.model = "luna" -> 140    [] c.model = "terra" -> 1400   [] c.model = "sol" -> 3500
      [] c.model = "grok-4.3" -> 375 [] c.model = "grok-4.6" -> 800
      [] c.model = "low" -> 1800

Never == -1
Cooling(w, p) == failedAt[w][p] # Never /\ now - failedAt[w][p] < Cooldown

Spent(p) == Cardinality({i \in DOMAIN records : records[i].provider = p})
OverBudget(p) == Len(records) >= DayBudget \/ Spent(p) >= Budget

\* build_fallback_chain: the capable ones among those allowed, or else the static two.
Chain(r, allowed) ==
    LET found == Among(Ordered(r.task), {p \in Configured \cap allowed : Capable(p, r)}) IN
    IF found = <<>> THEN StaticChain
    ELSE [i \in DOMAIN found |-> Choice(found[i], ModelFor(found[i], r))]

ModelNames == {"haiku", "sonnet", "luna", "terra", "sol", "grok-4.6", "grok-4.3", "low"}
Choices == [provider : Providers, model : ModelNames]
NoChoice == Choice("none", "none")

TypeOK ==
    /\ now \in 0 .. MaxTime
    /\ failedAt \in [Loops -> [Providers -> (0 .. MaxTime) \cup {Never}]]
    /\ Kept > 0 => Len(records) <= Kept
    /\ \A i \in DOMAIN records : records[i] \in [provider : Providers, whose : {"ours", "other"}]
    /\ stage \in [Loops -> {"prelude", "idle", "checking", "calling", "tools"}]
    /\ batch \in [Loops -> 0 .. MaxBatch]
    /\ \A w \in Loops : \A i \in DOMAIN chain[w] : chain[w][i] \in Choices
    /\ unbudgeted \in [Loops -> Choices \cup {NoChoice}]
    /\ made \in Nat /\ others \in 0 .. MaxOthers /\ lost \in 0 .. MaxLost

Init ==
    /\ now = 0
    /\ failedAt = [w \in Loops |-> [p \in Providers |-> Never]]
    /\ records = <<>>
    /\ stage = [w \in Loops |-> "prelude"]
    /\ batch = [w \in Loops |-> 0]
    /\ chain = [w \in Loops |-> <<>>]
    /\ unbudgeted = [w \in Loops |-> NoChoice]
    /\ made = 0 /\ others = 0 /\ lost = 0

----------------------------------------------------------------------------
GoTo(w, s) == stage' = [stage EXCEPT ![w] = s]

Continue(w, s) == GoTo(w, s) /\ UNCHANGED chain

\* The loop is over, answered, stopped or failed, and may be asked to do something else.
End(w) == GoTo(w, "idle") /\ chain' = [chain EXCEPT ![w] = <<>>]

\* _persist keeps the last records only.
Saved(new) ==
    LET all == Append(records, new) IN
    IF Kept > 0 /\ Len(all) > Kept THEN SubSeq(all, Len(all) - Kept + 1, Len(all)) ELSE all

\* A call of the request succeeds and is recorded; a record that cannot be saved, or has
\* no usage to tell, is dropped.
Called(p) ==
    /\ made' = made + 1
    /\ \/ /\ records' = Saved([provider |-> p, whose |-> "ours"])
          /\ UNCHANGED lost
       \/ /\ lost < MaxLost /\ lost' = lost + 1
          /\ UNCHANGED records

\* The prelude: a complex request is planned with one call, which no limit is looked at
\* for and which may fail.
Prelude ==
    /\ \A w \in Loops : stage[w] = "prelude"
    /\ stage' = [w \in Loops |-> "idle"]
    /\ \/ "anthropic" \in Configured /\ Called("anthropic")
       \/ UNCHANGED <<records, made, lost>>
    /\ UNCHANGED <<now, failedAt, batch, chain, unbudgeted, others>>

Route(w, r) ==
    /\ stage[w] = "idle"
    /\ LET healthy == {p \in Providers : ~Cooling(w, p)}
           inBudget == {p \in healthy : ~OverBudget(p)} IN
          /\ chain' = [chain EXCEPT ![w] = Chain(r, inBudget)]
          /\ unbudgeted' = [unbudgeted EXCEPT ![w] = Chain(r, healthy)[1]]
    /\ GoTo(w, "checking")
    /\ UNCHANGED <<now, failedAt, records, batch, made, others, lost>>

Counted == Cardinality({i \in DOMAIN records : records[i].whose = "ours"})

\* Mutant of LimitReached: one more.
LimitPassed == Counted > MaxCalls

LimitReached == Counted >= MaxCalls

\* check_request_limits, before each call of a loop.
Check(w) ==
    /\ stage[w] = "checking"
    /\ \/ LimitReached /\ End(w)
       \/ ~LimitReached /\ Continue(w, "calling")
    /\ unbudgeted' = [unbudgeted EXCEPT ![w] = NoChoice]
    /\ UNCHANGED <<now, failedAt, records, batch, made, others, lost>>

Used(w) == chain[w][1].provider

\* The next candidate's loop begins, if the request may still go over to it.
FallBack(w) ==
    \/ End(w)
    \/ /\ Len(chain[w]) > 1
       /\ chain' = [chain EXCEPT ![w] = Tail(@)]
       /\ GoTo(w, "checking")

\* The call fails: the provider cools down.
CallFails(w) ==
    /\ stage[w] = "calling"
    /\ failedAt' = [failedAt EXCEPT ![w][Used(w)] = now]
    /\ FallBack(w)
    /\ UNCHANGED <<now, records, batch, unbudgeted, made, others, lost>>

\* It succeeds, and is the answer or asks for tools.
CallSucceeds(w) ==
    /\ stage[w] = "calling"
    /\ Called(Used(w))
    /\ failedAt' = [failedAt EXCEPT ![w][Used(w)] = Never]
    /\ \/ End(w)
       \/ Used(w) # "perplexity" /\ Continue(w, "tools")
    /\ UNCHANGED <<now, batch, unbudgeted, others>>

\* A tool calls a model of its own choice under the request's id (deep_reason, the two of
\* analyze_image, computer_locate), whatever the limits.
ToolCalls(w, p) ==
    /\ stage[w] = "tools" /\ batch[w] < MaxBatch
    /\ batch' = [batch EXCEPT ![w] = @ + 1]
    /\ Called(p)
    /\ UNCHANGED <<now, failedAt, stage, chain, unbudgeted, others>>

\* Their results go into the next call of the loop, unless this was its last iteration.
ToolsReturn(w) ==
    /\ stage[w] = "tools"
    /\ Continue(w, "checking") \/ End(w)
    /\ batch' = [batch EXCEPT ![w] = 0]
    /\ UNCHANGED <<now, failedAt, records, unbudgeted, made, others, lost>>

\* An exception around a tool leaves the loop; the provider is not to blame.
ToolsRaise(w) ==
    /\ stage[w] = "tools"
    /\ FallBack(w)
    /\ batch' = [batch EXCEPT ![w] = 0]
    /\ UNCHANGED <<now, failedAt, records, unbudgeted, made, others, lost>>

Other(p) ==
    /\ others < MaxOthers
    /\ others' = others + 1
    /\ records' = Saved([provider |-> p, whose |-> "other"])
    /\ UNCHANGED <<now, failedAt, stage, batch, chain, unbudgeted, made, lost>>

Tick ==
    /\ now < MaxTime /\ now' = now + 1
    /\ UNCHANGED <<failedAt, records, stage, batch, chain, unbudgeted, made, others, lost>>

Next ==
    \/ Prelude
    \/ \E w \in Loops :
          \/ \E r \in Requirements : Route(w, r)
          \/ Check(w) \/ CallFails(w) \/ CallSucceeds(w)
          \/ ToolsReturn(w) \/ ToolsRaise(w)
          \/ \E p \in Configured \cap {"anthropic", "openai"} : ToolCalls(w, p)
    \/ \E p \in Configured : Other(p)
    \/ Tick

Spec == Init /\ [][Next]_vars

----------------------------------------------------------------------------
\* The limit of a request is no hard cap (usage.py:307-318), yet what goes beyond it is
\* bounded: once the calls recorded for the request have reached it, no loop begins
\* another, so that each loop adds at most the call it has in flight and the calls that
\* the tools of that answer make, the planner's one is among the counted, and besides
\* there are only the calls whose records were lost.  This is as long as newer records
\* have not pushed the request's own out of the file.
CallsAreBounded ==
    Kept = 0 \/ made + others <= Kept =>
        made <= MaxCalls + Cardinality(Loops) * (1 + MaxBatch) - 1 + lost

\* Being over a budget does not make routing begin with a dearer model
\* (provider_budget.py:18-19).
BudgetPicksNothingDearer ==
    \A w \in Loops : unbudgeted[w] # NoChoice => PriceOf(chain[w][1]) <= PriceOf(unbudgeted[w])
=============================================================================
