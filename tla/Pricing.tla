------------------------------- MODULE Pricing -------------------------------
(***************************************************************************)
(* What a call costs: the usage that the SDKs report is normalised         *)
(* (core/usage.py and usage_from_* of the adapters), the model is looked   *)
(* up (core/pricing.py), and the cost is estimated before the call and     *)
(* computed after it (cost_model.py), while other threads register prices. *)
(* Prices are integers, cache rates are quarters of the input price, and   *)
(* the geographical factor is in tenths.                                   *)
(***************************************************************************)
EXTENDS Integers, Sequences, FiniteSets, SequencesExt

CONSTANTS
  Table,       \* PRICES as shipped: a price for each key
  Names,       \* the model names of requests: how they are wrapped, and their segments
  Registered,  \* what each registrar registers: a key, a provider or "none", and rates
  LiteLLM,     \* the rates that litellm knows, for keys
  MaxInput,    \* bound: input tokens of a request
  MaxOutput    \* bound: max_tokens of a request

Invalid == -1                 \* a count that is no amount; nan as a cost
NoKey   == <<>>
Wrapped == {"openai", "anthropic"}              \* what wrap() accounts for
Kinds   == Wrapped \cup {"google", "langchain"}  \* the last: Anthropic by LangChain

\* What an entry of the table holds.  long and fast are <<>>, or other rates, those of
\* long with the number of tokens above which they apply.
IsPrice(price) ==
  /\ {price.input, price.output} \subseteq Nat
  /\ {price.cache.read, price.cache.write, price.cache.write1h} \subseteq Nat
  /\ price.long \in {<<>>} \cup (Nat \X Nat \X Nat)
  /\ price.fast \in {<<>>} \cup (Nat \X Nat)

\* The pairs of rates at which an entry may be billed.
Tiers(price) ==
  {<<price.input, price.output>>}
    \cup (IF price.long = <<>> THEN {} ELSE {<<price.long[2], price.long[3]>>})
    \cup (IF price.fast = <<>> THEN {} ELSE {price.fast})

\* PRICES as shipped: long prompts are not cheaper, and fast mode is the dearest.
IsGraded(price) ==
  \A tier \in Tiers(price) :
    /\ price.input <= tier[1] /\ price.output <= tier[2]
    /\ price.fast # <<>> => tier[1] <= price.fast[1] /\ tier[2] <= price.fast[2]

IsTable(table) ==
  /\ DOMAIN table \subseteq Seq(STRING) \ {NoKey}
  /\ DOMAIN table # {} /\ IsFiniteSet(DOMAIN table)
  /\ \A k \in DOMAIN table : IsPrice(table[k]) /\ IsGraded(table[k])

ASSUME PricingAssumption ==
  /\ {MaxInput, MaxOutput} \subseteq Nat
  /\ IsTable(Table)
  /\ \A name \in Names : name.segments \in Seq(STRING)
  /\ \A r \in DOMAIN Registered :
       /\ Registered[r].name.segments \in Seq(STRING) \ {NoKey}
       /\ {Registered[r].input, Registered[r].output} \subseteq Nat
       /\ {Registered[r].read, Registered[r].write} \subseteq Nat
  /\ \A k \in DOMAIN LiteLLM :
       /\ {LiteLLM[k].input, LiteLLM[k].output} \subseteq Nat
       /\ {LiteLLM[k].cache.read, LiteLLM[k].cache.write, LiteLLM[k].cache.write1h} \subseteq Nat

VARIABLES
  prices,     \* PRICES
  ceilings,   \* _CEILINGS
  stage,      \* where each registrar is in register_price
  todo,       \* the ceilings each registrar has yet to compute,
  own,        \* and those it has computed
  disturbed,  \* whether PRICES grew while a registrar iterated over it
  call,       \* the one call that is priced, with its estimate and its cost
  crossed,    \* history: whether two registrations overlapped
  inserted,   \* history: how many prices were registered since the usage arrived
  settled     \* history: since when prices and ceilings are what they were, the request
              \* ("asked") or the arrival of the usage ("received"), if at all ("no")

registry    == <<stage, todo, own, disturbed, crossed>>
tables      == <<prices, ceilings, registry>>
pricingVars == <<tables, call, inserted, settled>>

Registrars == DOMAIN Registered

-----------------------------------------------------------------------------
(* core/usage.py and usage_from_* of the adapters.  A report maps the fields *)
(* the provider sends to counts; a missing field counts as 0.                *)

Count(report, field) == IF field \in DOMAIN report THEN report[field] ELSE 0

\* The sum, or the first part that is invalid.
Total(p, q) == IF p < 0 THEN p ELSE IF q < 0 THEN q ELSE p + q

TokenUsage(prompt, completion, read, write, write1h, reasoning) ==
  [prompt |-> prompt, completion |-> completion, read |-> read, write |-> write,
   write1h |-> write1h, reasoning |-> reasoning]

IsValid(usage) == \A field \in DOMAIN usage : usage[field] >= 0

UsageFromOpenAI(report) ==
  TokenUsage(Count(report, "prompt"), Count(report, "completion"), Count(report, "cached"),
             Count(report, "cache_write"), 0, Count(report, "reasoning"))

\* Anthropic's input_tokens leave out what the cache served or stored.
UsageFromAnthropic(report) ==
  TokenUsage(Total(Total(Count(report, "input"), Count(report, "cache_read")), Count(report, "cache_creation")),
             Count(report, "output"), Count(report, "cache_read"), Count(report, "cache_creation"),
             Count(report, "ephemeral_1h"), Count(report, "thinking"))

\* Mutant: Gemini's thoughts are taken to be inside its candidates.
UsageFromGeminiInside(report) ==
  TokenUsage(Total(Count(report, "prompt"), Count(report, "tool_use")), Count(report, "candidates"),
             Count(report, "cached"), 0, 0, Count(report, "thoughts"))

\* Gemini's thoughts are not inside its candidates, nor tool results in its prompt.
UsageFromGemini(report) ==
  TokenUsage(Total(Count(report, "prompt"), Count(report, "tool_use")),
             Total(Count(report, "candidates"), Count(report, "thoughts")),
             Count(report, "cached"), 0, 0, Count(report, "thoughts"))

\* LangChain's input_tokens are the total.  Its Anthropic package reports 0 as the
\* cache_creation of a write that it splits by lifetime.
UsageFromMetadata(report) ==
  LET short == Count(report, "ephemeral_5m")
      long  == Count(report, "ephemeral_1h")
      write == IF Count(report, "cache_creation") = 0 THEN Total(short, long)
               ELSE Count(report, "cache_creation")
  IN  TokenUsage(Count(report, "input"), Count(report, "output"), Count(report, "cache_read"),
                 write, long, Count(report, "reasoning"))

Usage(kind, report) ==
  CASE kind = "openai"    -> UsageFromOpenAI(report)
    [] kind = "anthropic" -> UsageFromAnthropic(report)
    [] kind = "google"    -> UsageFromGemini(report)
    [] kind = "langchain" -> UsageFromMetadata(report)

AtMost(a, b) == IF a < b THEN a ELSE b

\* price(): cache slices are clamped to the input they are part of.
Price(usage, input, output, cache) ==
  LET read    == AtMost(usage.read, usage.prompt)
      write   == AtMost(usage.write, usage.prompt - read)
      write1h == AtMost(usage.write1h, write)
  IN  IF ~IsValid(usage) THEN Invalid
      ELSE input * (4 * (usage.prompt - read - write) + read * cache.read
                      + (write - write1h) * cache.write + write1h * cache.write1h)
             + 4 * output * usage.completion

-----------------------------------------------------------------------------
(* core/pricing.py                                                          *)

CacheRates(read, write, write1h) == [read |-> read, write |-> write, write1h |-> write1h]
ModelPrice(provider, input, output, cache, long, fast) ==
  [provider |-> provider, input |-> input, output |-> output, cache |-> cache,
   long |-> long, fast |-> fast]

Rates(price, prompt, fast) ==    \* ModelPrice.rates
  IF fast /\ price.fast # <<>> THEN price.fast
  ELSE IF price.long # <<>> /\ prompt > price.long[1] THEN <<price.long[2], price.long[3]>>
  ELSE <<price.input, price.output>>

\* Segments of a name that are a date or a version, and those after a prefix that
\* mean another price.
Stamps          == {"2026", "latest"}
PricierVariants == {"pro", "max"}

Undated(segments) == SubSeq(segments, 1, SelectLastInSeq(segments, LAMBDA s : s \notin Stamps))

\* The longest key that a name without its date extends, unless by a pricier variant.
Longest(name, keys) ==
  LET undated  == Undated(name.segments)
      prefixes == {key \in keys : IsStrictPrefix(key, undated)}
      best     == CHOOSE key \in prefixes : \A k \in prefixes : Len(k) <= Len(key)
      rest     == SubSeq(undated, Len(best) + 1, Len(undated))
  IN  IF prefixes = {} \/ ToSet(rest) \cap PricierVariants # {} THEN NoKey ELSE best

\* The key of a model, when nobody registers a price meanwhile.
Find(name, table) ==
  IF name.segments \in DOMAIN table THEN name.segments
  ELSE IF Undated(name.segments) \in DOMAIN table THEN Undated(name.segments)
  ELSE Longest(name, DOMAIN table)

Family == [claude |-> "anthropic", gemini |-> "google", gpt |-> "openai"]
ProviderOf(name) ==
  IF name.wrap = "anthropic" THEN "anthropic"
  ELSE IF Head(name.segments) \in DOMAIN Family THEN Family[Head(name.segments)]
  ELSE "none"

\* Mutant: the ceiling of a provider leaves out the rates of long prompts.
CeilingOfShort(entries, provider) ==
  LET rates == {<<p.input, p.output>> : p \in entries}
  IN  ModelPrice(provider, Max({r[1] : r \in rates}), Max({r[2] : r \in rates}),
                 CacheRates(4, Max({p.cache.write : p \in entries}), Max({p.cache.write1h : p \in entries})),
                 <<>>, <<>>)

\* The dearest of each rate, and no discount.
CeilingOf(entries, provider) ==
  LET rates == UNION {Tiers(p) : p \in entries}
  IN  ModelPrice(provider, Max({r[1] : r \in rates}), Max({r[2] : r \in rates}),
                 CacheRates(4, Max({p.cache.write : p \in entries}), Max({p.cache.write1h : p \in entries})),
                 <<>>, <<>>)

\* The entries of a provider; "none" stands for all providers.
EntriesOf(table, p) == {table[k] : k \in {k \in DOMAIN table : p \in {"none", table[k].provider}}}

Ceilings(table) ==
  [p \in {table[k].provider : k \in DOMAIN table} \cup {"none"} |-> CeilingOf(EntriesOf(table, p), p)]

Ceiling(provider) == ceilings[IF provider \in DOMAIN ceilings THEN provider ELSE "none"]

Resolve(name) ==
  IF Find(name, prices) # NoKey THEN prices[Find(name, prices)] ELSE Ceiling(ProviderOf(name))

Modifier(cost, geo) == IF cost = Invalid THEN Invalid ELSE cost * (IF geo = "us" THEN 11 ELSE 10)

\* pricing.cost, at the price that the name resolved to
Cost(price, usage, fast, geo) ==
  LET rates == Rates(price, usage.prompt, fast)
  IN  Modifier(Price(usage, rates[1], rates[2], price.cache), geo)

-----------------------------------------------------------------------------
(* cost_model.py: the table, else litellm, else the ceiling.                *)

Lite(name) == name.segments \in DOMAIN LiteLLM

\* litellm gets only the cache slices it has a rate for, and prices every write as a
\* short one, so the premium of the long ones is added.
LiteCache(cache) ==
  CacheRates(IF cache.read = 0 THEN 4 ELSE cache.read,
             IF cache.write = 0 THEN 4 ELSE cache.write,
             IF cache.write = 0 THEN 4
               ELSE IF cache.write1h = 0 THEN cache.write ELSE cache.write1h)

LiteEntry(name) ==
  LET info == LiteLLM[name.segments]
  IN  ModelPrice("litellm", info.input, info.output, LiteCache(info.cache), <<>>, <<>>)

PriceTokens(name) ==
  IF Find(name, prices) = NoKey /\ Lite(name) THEN LiteEntry(name) ELSE Resolve(name)

\* The name itself tells that Anthropic serves the model.
SaysAnthropic(name) ==
  \/ name.wrap = "anthropic"
  \/ name.wrap = "none" /\ Head(name.segments) = "claude"

\* Mutant: only short writes are expected.
CacheWriteMultiplierShort(name, ttls) ==
  IF SaysAnthropic(name) THEN IF ttls # {} THEN 5 ELSE 4
  ELSE IF Find(name, prices) # NoKey THEN Max({4, prices[Find(name, prices)].cache.write})
  ELSE IF Lite(name) THEN Max({4, LiteLLM[name.segments].cache.write})
  ELSE Max({4, Ceiling(ProviderOf(name)).cache.write})

\* What writing all the input to a cache may cost, in quarters of its price.
\* Anthropic writes only if the request says so.
CacheWriteMultiplier(name, ttls) ==
  IF SaysAnthropic(name) THEN IF "1h" \in ttls THEN 8 ELSE IF ttls # {} THEN 5 ELSE 4
  ELSE IF Find(name, prices) # NoKey THEN Max({4, prices[Find(name, prices)].cache.write})
  ELSE IF Lite(name) THEN Max({4, LiteLLM[name.segments].cache.write})
  ELSE Max({4, Ceiling(ProviderOf(name)).cache.write})

\* precall_worstcase: the whole input and output, nothing cached, and the premium of
\* writing it all.  Both terms are in sixteenths here.
PrecallWorstcase(r) ==
  LET input  == TokenUsage(MaxInput, 0, 0, 0, 0, 0)
      price  == PriceTokens(r.name)
      inCost == Cost(price, input, r.fast, r.geo)
      cost   == Cost(price, [input EXCEPT !.completion = MaxOutput], r.fast, r.geo)
  IN  4 * cost + (CacheWriteMultiplier(r.name, r.ttls) - 4) * inCost

\* _accounted_usage, in the same unit: usage with an invalid count leaves the estimate.
AccountedUsage(c, usage) ==
  IF IsValid(usage) THEN 4 * Cost(c.entry, usage, c.fast, c.request.geo) ELSE c.estimate

-----------------------------------------------------------------------------
(* What really happens in a call, and how the provider reports it.          *)

Tokens == [fresh : 0 .. MaxInput, read : 0 .. MaxInput, write : 0 .. MaxInput, write1h : 0 .. MaxInput,
           visible : 0 .. MaxOutput, thinking : 0 .. MaxOutput]

InputOf(t)  == t.fresh + t.read + t.write + t.write1h
OutputOf(t) == t.visible + t.thinking

Report(kind, t) ==
  CASE kind = "openai" ->
         [prompt |-> InputOf(t), cached |-> t.read, cache_write |-> t.write,
          completion |-> OutputOf(t), reasoning |-> t.thinking]
    [] kind = "anthropic" ->
         [input |-> t.fresh, cache_read |-> t.read, cache_creation |-> t.write + t.write1h,
          ephemeral_1h |-> t.write1h, output |-> OutputOf(t), thinking |-> t.thinking]
    [] kind = "google" ->
         [prompt |-> t.read, tool_use |-> t.fresh, cached |-> t.read,
          candidates |-> t.visible, thoughts |-> t.thinking]
    [] kind = "langchain" ->
         [input |-> InputOf(t), cache_read |-> t.read, cache_creation |-> 0, ephemeral_5m |-> t.write,
          ephemeral_1h |-> t.write1h, output |-> OutputOf(t), reasoning |-> t.thinking]

\* Which caches a request may write to.
MayWrite(r, t) ==
  \/ r.kind = "openai" /\ t.write1h = 0
  \/ r.kind = "google" /\ t.write = 0 /\ t.write1h = 0
  \/ /\ r.kind \in {"anthropic", "langchain"}
     /\ t.write # 0 => "5m" \in r.ttls
     /\ t.write1h # 0 => "1h" \in r.ttls

\* A call goes through wrap() or is seen by an adapter.
Requests ==
  {r \in [via : {"wrap", "adapter"}, kind : Kinds, name : Names, ttls : SUBSET {"5m", "1h"},
          fast : BOOLEAN, geo : {"us", "any"}] :
     /\ r.via = "wrap" => r.kind \in Wrapped
     /\ ProviderOf(r.name) \in {IF r.kind = "langchain" THEN "anthropic" ELSE r.kind, "none"}
     /\ r.kind # "anthropic" => ~r.fast /\ r.geo = "any"
     /\ r.kind \in {"openai", "google"} => r.ttls = {}}

NoCall == [stage |-> "none"]

PricingInit ==
  /\ prices = Table
  /\ ceilings = Ceilings(Table)
  /\ stage = [r \in Registrars |-> "idle"]
  /\ todo = [r \in Registrars |-> {}]
  /\ own = [r \in Registrars |-> <<>>]
  /\ disturbed = [r \in Registrars |-> FALSE]
  /\ call = NoCall
  /\ crossed = FALSE
  /\ inserted = 0
  /\ settled = "no"

-----------------------------------------------------------------------------
(* register_price, by a thread of its own and without a lock: the table, the *)
(* new ceilings, one pass over the table for each, and the ceilings.         *)

Busy == {"inserted", "computing"}

Entry(new) ==
  LET provider == IF new.provider # "none" THEN new.provider
                  ELSE IF ProviderOf(new.name) # "none" THEN ProviderOf(new.name) ELSE "custom"
  IN  ModelPrice(provider, new.input, new.output, CacheRates(new.read, new.write, new.write), <<>>, <<>>)

Insert(r) ==
  LET new == Registered[r]
      key == new.name.segments
  IN  /\ stage[r] = "idle"
      /\ stage' = [stage EXCEPT ![r] = "inserted"]
      /\ prices' = [k \in DOMAIN prices \cup {key} |-> IF k = key THEN Entry(new) ELSE prices[k]]
      /\ disturbed' = [q \in Registrars |-> disturbed[q] \/ (stage[q] \in Busy /\ key \notin DOMAIN prices)]
      /\ crossed' = (crossed \/ \E q \in Registrars : stage[q] \in Busy)
      /\ inserted' = inserted + 1
      /\ settled' = "no"
      /\ UNCHANGED <<ceilings, todo, own, call>>

\* The providers of the table, in a pass of its own; the ceiling of all comes last.
ListProviders(r) ==
  /\ stage[r] = "inserted"
  /\ stage' = [stage EXCEPT ![r] = "computing"]
  /\ todo' = [todo EXCEPT ![r] = {prices[k].provider : k \in DOMAIN prices} \cup {"none"}]
  /\ disturbed' = [disturbed EXCEPT ![r] = FALSE]
  /\ UNCHANGED <<prices, ceilings, own, call, crossed, inserted, settled>>

Compute(r, p) ==
  /\ p \in todo[r]
  /\ p = "none" => todo[r] = {"none"}
  /\ EntriesOf(prices, p) # {}
  /\ todo' = [todo EXCEPT ![r] = @ \ {p}]
  /\ own' = [own EXCEPT ![r] = [q \in DOMAIN @ \cup {p} |->
                                  IF q = p THEN CeilingOf(EntriesOf(prices, p), p) ELSE @[q]]]
  /\ disturbed' = [disturbed EXCEPT ![r] = FALSE]
  /\ UNCHANGED <<prices, ceilings, stage, call, crossed, inserted, settled>>

\* The table grew during a pass in Python code, which raises RuntimeError, or a provider
\* has lost its only model, which has no maximum.  The price stays, the ceilings as well.
FailToCompute(r) ==
  /\ stage[r] \in Busy
  /\ \/ disturbed[r] /\ (stage[r] = "inserted" \/ todo[r] \ {"none"} # {})
     \/ \E p \in todo[r] : EntriesOf(prices, p) = {}
  /\ stage' = [stage EXCEPT ![r] = "failed"]
  /\ todo' = [todo EXCEPT ![r] = {}]
  /\ own' = [own EXCEPT ![r] = <<>>]
  /\ disturbed' = [disturbed EXCEPT ![r] = FALSE]
  /\ UNCHANGED <<prices, ceilings, call, crossed, inserted, settled>>

Assign(r) ==
  /\ stage[r] = "computing"
  /\ todo[r] = {}
  /\ stage' = [stage EXCEPT ![r] = "done"]
  /\ ceilings' = own[r]
  /\ own' = [own EXCEPT ![r] = <<>>]
  /\ disturbed' = [disturbed EXCEPT ![r] = FALSE]
  /\ settled' = "no"
  /\ UNCHANGED <<prices, todo, call, crossed, inserted>>

-----------------------------------------------------------------------------
(* The call.                                                                *)

Ask(r) ==
  /\ call = NoCall
  /\ call' = [stage |-> "sent", request |-> r,
              estimate |-> IF r.via = "wrap" THEN PrecallWorstcase(r) ELSE 0]
  /\ settled' = "asked"
  /\ UNCHANGED <<tables, inserted>>

\* The usage arrives, possibly with a count that is no amount.  A fast request may have
\* been served at the usual speed.  wrap() looks the name up to see whether litellm is
\* to be asked, to price the tokens, and for the metadata of the event; usage that it
\* does not trust it looks up for the metadata only.  An adapter looks it up once.
Receive(fast, garbled) ==
  /\ call.stage = "sent"
  /\ fast => call.request.fast
  /\ call' = [stage |-> "looking", request |-> call.request, estimate |-> call.estimate,
              fast |-> fast, garbled |-> garbled,
              use |-> IF call.request.via = "adapter" THEN "price" ELSE IF garbled THEN "metadata" ELSE "known",
              at |-> "name", keys |-> {}, key |-> NoKey, entry |-> <<>>, before |-> prices]
  /\ inserted' = 0
  /\ settled' = IF settled = "no" THEN "received" ELSE settled
  /\ UNCHANGED tables

Looking(at) == call.stage = "looking" /\ call.at = at

\* find, one read of the shared table after the other.
TryKey(at, key, next) ==
  /\ Looking(at)
  /\ call' = IF key \in DOMAIN prices THEN [call EXCEPT !.at = "found", !.key = key]
             ELSE [call EXCEPT !.at = next]
  /\ UNCHANGED <<tables, inserted, settled>>

TryName    == TryKey("name", call.request.name.segments, "undated")
TryUndated == TryKey("undated", Undated(call.request.name.segments), "prefix")

StartScan ==
  /\ Looking("prefix")
  /\ call' = [call EXCEPT !.at = "scan", !.keys = DOMAIN prices]
  /\ UNCHANGED <<tables, inserted, settled>>

\* A table that has grown during the scan raises RuntimeError out of the recording.
EndScan ==
  /\ Looking("scan")
  /\ call' = IF DOMAIN prices # call.keys THEN [call EXCEPT !.stage = "broken"]
             ELSE [call EXCEPT !.at = "found", !.key = Longest(call.request.name, call.keys), !.keys = {}]
  /\ UNCHANGED <<tables, inserted, settled>>

Again(use, entry) ==
  [call EXCEPT !.use = use, !.entry = entry, !.at = "name", !.key = NoKey]

\* What has been found serves its use: only a price reads the entry, or the ceiling.
Use ==
  /\ Looking("found")
  /\ LET name == call.request.name
         entry == IF call.key = NoKey THEN Ceiling(ProviderOf(name)) ELSE prices[call.key]
     IN  call' = CASE call.use = "known" ->
                        IF call.key = NoKey /\ Lite(name) THEN Again("metadata", LiteEntry(name))
                        ELSE Again("price", <<>>)
                   [] call.use = "price" ->
                        IF call.request.via = "wrap" THEN Again("metadata", entry)
                        ELSE [call EXCEPT !.stage = "priced", !.entry = entry]
                   [] call.use = "metadata" -> [call EXCEPT !.stage = "priced"]
  /\ UNCHANGED <<tables, inserted, settled>>

\* A report some of whose counts are no amounts.
Garble(report, garbled) == [f \in DOMAIN report |-> IF f \in garbled THEN Invalid ELSE report[f]]

\* The cost of the usage, from the entry alone.
Bill(t) ==
  /\ call.stage = "priced"
  /\ InputOf(t) <= MaxInput
  /\ OutputOf(t) <= MaxOutput
  /\ MayWrite(call.request, t)
  /\ LET r      == call.request
         report == Report(r.kind, t)
     IN  \E garbled \in (IF call.garbled THEN {{f} : f \in DOMAIN report} ELSE {{}}) :
           LET usage == Usage(r.kind, Garble(report, garbled))
           IN  call' = [stage |-> "billed", request |-> r, estimate |-> call.estimate,
                        fast |-> call.fast, garbled |-> call.garbled, before |-> call.before, tokens |-> t,
                        cost |-> IF r.via = "wrap" THEN AccountedUsage(call, usage)
                                 ELSE Cost(call.entry, usage, call.fast, r.geo)]
  /\ UNCHANGED <<tables, inserted, settled>>

Look == TryName \/ TryUndated \/ StartScan \/ EndScan \/ Use

\* Nothing happens once the call is over.
PricingNext ==
  /\ call.stage \notin {"billed", "broken"}
  /\ \/ \E r \in Registrars :
          \/ Insert(r) \/ ListProviders(r) \/ FailToCompute(r) \/ Assign(r)
          \/ \E p \in todo[r] : Compute(r, p)
     \/ \E r \in Requests : Ask(r)
     \/ \E fast, garbled \in BOOLEAN : Receive(fast, garbled)
     \/ Look
     \/ \E t \in Tokens : Bill(t)

PricingSpec == PricingInit /\ [][PricingNext]_pricingVars

-----------------------------------------------------------------------------

Billed == call.stage = "priced" /\ call'.stage = "billed"
Broken == call.stage = "looking" /\ call'.stage = "broken"

\* The bill, from the tokens of each class rather than from a report.
BillAt(price, c) ==
  LET t     == c.tokens
      rates == Rates(price, InputOf(t), c.fast)
      input == 4 * t.fresh + t.read * price.cache.read + t.write * price.cache.write
                 + t.write1h * price.cache.write1h
  IN  (rates[1] * input + 4 * rates[2] * OutputOf(t)) * (IF c.request.geo = "us" THEN 11 ELSE 10)

\* What wrap() charges is in sixteenths as well.
Unit(c) == IF c.request.via = "wrap" THEN 4 ELSE 1

\* Whatever convention a provider reports usage in, a model of the table costs what its
\* tokens of each class cost.  If another thread registers a price before the cost is known,
\* that is the price before or after (two such registrations are excepted); or the look-up
\* raises, which happens only because the table grew.  A count that is no amount never
\* becomes a cost ("so the session flags the cost", core/usage.py) nor frees what wrap()
\* reserved ("never frees its reserved budget", wrap.py).
BilledExactly ==
  LET c    == call'
      name == c.request.name
  IN  /\ Billed /\ c.garbled => c.cost = IF c.request.via = "wrap" THEN c.estimate ELSE Invalid
      /\ Billed /\ ~c.garbled /\ inserted <= 1 =>
           \E table \in {c.before, prices} :
             Find(name, table) # NoKey => c.cost = Unit(c) * BillAt(table[Find(name, table)], c)
      /\ Broken => DOMAIN call.before # DOMAIN prices

BillExact == [][BilledExactly]_pricingVars

\* "never 0 for an unknown model" (core/pricing.py): a model that the table lacks costs
\* at least what any model of its provider would, or of all providers if it names none,
\* if the prices were at rest since the usage arrived, and as long as no two registrations
\* overlapped.  register_price takes a cache_read above 1, which no ceiling assumes: such
\* a model is excepted, and one that wrap() prices by litellm.
BilledAtCeiling ==
  Billed /\ settled # "no" /\ ~crossed /\ (\A r \in Registrars : stage[r] \notin Busy) =>
    LET c        == call'
        name     == c.request.name
        provider == ProviderOf(name)
    IN  ~c.garbled /\ Find(name, prices) = NoKey /\ (c.request.via = "wrap" => ~Lite(name)) =>
          \A k \in DOMAIN prices :
            provider \in {prices[k].provider, "none"} /\ prices[k].cache.read <= 4 =>
              c.cost >= Unit(c) * BillAt(prices[k], c)

UnknownNotCheaper == [][BilledAtCeiling]_pricingVars

\* What cache_write_multiplier takes for granted: reads at no more than the input price,
\* and Anthropic's writes, which only a request asks for, at no more than its rates.
HasUsualRates(request) ==
  LET cache == PriceTokens(request.name).cache
  IN  /\ cache.read <= 4
      /\ request.ttls # {} => cache.write <= 5 /\ cache.write1h <= 8

\* "a full-price input bound would be below the real bill" (cost_model.py): the estimate
\* that wrap() reserves is never below the cost of a call that stays within the tokens
\* it assumed, whatever was cached, if the prices stayed as they were, and if the name
\* of a model that is asked to write to a cache says that it is Anthropic's.
BilledWithinEstimate ==
  Billed /\ settled = "asked" =>
    LET c == call'
    IN  /\ c.request.via = "wrap"
        /\ c.request.ttls # {} => SaysAnthropic(c.request.name)
        /\ HasUsualRates(c.request)
        => c.cost <= c.estimate

EstimateCovers == [][BilledWithinEstimate]_pricingVars
=============================================================================
