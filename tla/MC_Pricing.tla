----------------------------- MODULE MC_Pricing -----------------------------
(* Bounds for TLC: a model of each kind of entry that the price table has.  *)
EXTENDS Pricing

NoOther == <<>>
MCTable ==
  (<<"gpt", "5">>         :> ModelPrice("openai", 2, 10, CacheRates(1, 5, 5), <<1, 4, 15>>, NoOther)) @@
  (<<"gpt", "5", "mini">> :> ModelPrice("openai", 1, 4, CacheRates(1, 4, 4), NoOther, NoOther)) @@
  (<<"claude", "opus">>   :> ModelPrice("anthropic", 5, 25, CacheRates(1, 5, 8), NoOther, <<10, 50>>)) @@
  (<<"claude", "haiku">>  :> ModelPrice("anthropic", 1, 5, CacheRates(1, 5, 8), <<1, 12, 60>>, NoOther)) @@
  (<<"gemini", "flash">>  :> ModelPrice("google", 1, 3, CacheRates(1, 4, 4), NoOther, NoOther))

Name(wrap, segments) == [wrap |-> wrap, segments |-> segments]
MCNames ==
  {Name("none", s) : s \in {<<"gpt", "5", "2026">>, <<"gpt", "5", "max">>,
                            <<"claude", "haiku">>, <<"claude", "next">>,
                            <<"gemini", "flash", "8b">>, <<"grok">>, <<"profile">>}}
    \cup {Name("anthropic", <<"claude", "opus", "latest">>), Name("path", <<"claude", "opus">>)}

MCLiteLLM == <<"grok">> :> [input |-> 3, output |-> 9, cache |-> CacheRates(1, 0, 0)]

New(name, input, output, read, write) ==
  [name |-> name, provider |-> "none", input |-> input, output |-> output, read |-> read, write |-> write]

\* Two threads register: a new model, and the only model of a provider for another.
MCRegistered ==
  <<New(Name("none", <<"gpt", "5", "max">>), 20, 90, 4, 4),
    [New(Name("none", <<"gemini", "flash">>), 30, 120, 5, 6) EXCEPT !.provider = "openai"]>>

\* Bound: once the second thread registers, only calls of two models go on: one is
\* found once it is registered, or by its prefix.
RaceNames == {Name("none", s) : s \in {<<"gpt", "5", "max">>, <<"gemini", "flash", "8b">>}}
OneRegistersOrRaceName == stage[2] # "idle" /\ call # NoCall => call.request.name \in RaceNames
=============================================================================
