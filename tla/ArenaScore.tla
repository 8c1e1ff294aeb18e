------------------------------ MODULE ArenaScore ------------------------------
(***************************************************************************)
(* costFromUsage and scoreRun: what a measured window costs by the rate    *)
(* table, and the verdict on a run.  Both take what crossed a JSON         *)
(* boundary: a number may be NaN, Infinity or missing, a list may be       *)
(* missing or empty, a tier unknown.                                       *)
(*                                                                         *)
(* A JavaScript number is an integer in the unit of its field, or NaN      *)
(* (which stands for a missing one too), or Infinity.                      *)
(***************************************************************************)
EXTENDS Integers, FiniteSets

CONSTANTS
    NaN, Infinity,
    Usages, Rates,      \* what costFromUsage may be called with
    Metrics, Pars,      \* what scoreRun may be called with
    Costs,              \* monthly costs it may be called with
    Missing             \* a list that is not there

ASSUME NumbersAssumption == NaN \notin Int /\ Infinity \notin Int /\ NaN # Infinity

VARIABLES asked, answer

scoreVars == <<asked, answer>>

(***************************************************************************)
(* Arithmetic as the code's: NaN spreads, and every comparison with it is  *)
(* false.                                                                  *)
(***************************************************************************)
Plus(a, b) == IF a \in Int /\ b \in Int THEN a + b ELSE NaN
Times(a, b) == IF a \in Int /\ b \in Int THEN a * b ELSE NaN

Exceeds(a, b) ==
    IF a \in Int /\ b \in Int THEN a > b ELSE a = Infinity /\ b \in Int

FiniteNonNegative(n) == n \in Nat

(***************************************************************************)
(* pricing.ts.  monthlyUsd is total / windowHours * 730: the two integers  *)
(* of that fraction are kept, since the quotient need not be one.          *)
(***************************************************************************)
HoursPerMonth == 730

Metered == {"activeVcpu", "activeGib", "idleVcpu", "idleGib",
            "alwaysVcpu", "alwaysGib", "requests"}

Number == Int \cup {NaN, Infinity}

Usage == [metered : [Metered -> Number], windowHours : Number,
          cacheEnabled : BOOLEAN, cacheTier : STRING, dbTier : STRING]

\* The tiers of a table are its own keys: what it inherits is not a number.
RateTable(rates) ==
    /\ rates.metered \in [Metered -> Nat]
    /\ \A t \in DOMAIN rates.redisGibHour : rates.redisGibHour[t] \in Nat
    /\ \A t \in DOMAIN rates.dbHour : rates.dbHour[t] \in Nat

ASSUME UsagesAssumption == Usages \subseteq Usage
ASSUME RatesAssumption == \A rates \in Rates : RateTable(rates)

RateOf(table, tier) == IF tier \in DOMAIN table THEN table[tier] ELSE NaN

tiersAreKnownIfCached(usage, rates) ==
    usage.cacheEnabled =>
        /\ RateOf(rates.redisGibHour, usage.cacheTier) \in Int
        /\ RateOf(rates.dbHour, usage.dbTier) \in Int

tiersAreKnown(usage, rates) ==
    /\ usage.cacheEnabled => RateOf(rates.redisGibHour, usage.cacheTier) \in Int
    /\ RateOf(rates.dbHour, usage.dbTier) \in Int

usageIsPriceable(usage, rates) ==
    /\ \A f \in Metered : FiniteNonNegative(usage.metered[f])
    /\ FiniteNonNegative(usage.windowHours) /\ usage.windowHours > 0
    /\ tiersAreKnown(usage, rates)

lineItems(usage, rates) ==
    LET charge(f) == Times(usage.metered[f], rates.metered[f])
    IN  [cloudRunActive |-> Plus(charge("activeVcpu"), charge("activeGib")),
         cloudRunIdle |-> Plus(charge("idleVcpu"), charge("idleGib")),
         cloudRunAlwaysAllocated |-> Plus(charge("alwaysVcpu"), charge("alwaysGib")),
         requests |-> charge("requests"),
         cache |-> IF usage.cacheEnabled
                   THEN Times(RateOf(rates.redisGibHour, usage.cacheTier), usage.windowHours)
                   ELSE 0,
         db |-> Times(RateOf(rates.dbHour, usage.dbTier), usage.windowHours)]

totalForWindow(items) ==
    Plus(Plus(Plus(items.cloudRunActive, items.cloudRunIdle),
              Plus(items.cloudRunAlwaysAllocated, items.requests)),
         Plus(items.cache, items.db))

costFromUsage(usage, rates) ==
    IF usageIsPriceable(usage, rates)
    THEN LET items == lineItems(usage, rates)
         IN  [ok |-> TRUE, lineItems |-> items, totalForWindow |-> totalForWindow(items),
              monthly |-> [num |-> Times(totalForWindow(items), HoursPerMonth),
                           den |-> usage.windowHours]]
    ELSE [ok |-> FALSE]

(***************************************************************************)
(* score.ts.  opsEvents is Missing, or the set of what the events say      *)
(* held; an event that is not well shaped says Missing.                    *)
(***************************************************************************)
requireValidOpsEvents(opsEvents) ==
    /\ opsEvents # Missing
    /\ opsEvents # {}
    /\ opsEvents \subseteq BOOLEAN

metricsAreNumbersButErrors(metrics) ==
    /\ FiniteNonNegative(metrics.apiP95Ms)
    /\ FiniteNonNegative(metrics.jobStartP95Ms)

metricsAreNumbers(metrics) ==
    /\ FiniteNonNegative(metrics.apiP95Ms)
    /\ FiniteNonNegative(metrics.jobStartP95Ms)
    /\ FiniteNonNegative(metrics.errorRate)

validateScoreInputs(metrics, monthlyUsd, par) ==
    /\ metricsAreNumbers(metrics)
    /\ FiniteNonNegative(monthlyUsd)
    /\ requireValidOpsEvents(metrics.opsEvents)
    /\ FiniteNonNegative(par.slo.apiP95Ms)
    /\ FiniteNonNegative(par.slo.jobStartP95Ms)
    /\ FiniteNonNegative(par.slo.maxErrorRate)
    /\ FiniteNonNegative(par.budgetCeilingUsd)
    /\ FiniteNonNegative(par.parMonthlyUsd) /\ par.parMonthlyUsd > 0
    /\ par.budgetCeilingUsd >= par.parMonthlyUsd

\* What failed: an axis and the measure.
failuresOf(metrics, monthlyUsd, par) ==
    {f \in {<<"slo", "api">>, <<"slo", "job">>, <<"slo", "errors">>,
            <<"cost", "ceiling">>, <<"ops", "event">>} :
        CASE f = <<"slo", "api">> -> Exceeds(metrics.apiP95Ms, par.slo.apiP95Ms)
          [] f = <<"slo", "job">> -> Exceeds(metrics.jobStartP95Ms, par.slo.jobStartP95Ms)
          [] f = <<"slo", "errors">> -> Exceeds(metrics.errorRate, par.slo.maxErrorRate)
          [] f = <<"cost", "ceiling">> -> Exceeds(monthlyUsd, par.budgetCeilingUsd)
          [] OTHER -> FALSE \in metrics.opsEvents}

scoreRun(metrics, monthlyUsd, par) ==
    IF validateScoreInputs(metrics, monthlyUsd, par)
    THEN LET failures == failuresOf(metrics, monthlyUsd, par)
         IN  [ok |-> TRUE, passed |-> failures = {}, failures |-> failures]
    ELSE [ok |-> FALSE]

(***************************************************************************)
(* One call                                                                *)
(***************************************************************************)
ScoreInit ==
    /\ asked = [fn |-> "none"]
    /\ answer = [ok |-> FALSE]

CostFromUsage ==
    /\ asked.fn = "none"
    /\ \E usage \in Usages, rates \in Rates :
          /\ asked' = [fn |-> "cost", usage |-> usage, rates |-> rates]
          /\ answer' = costFromUsage(usage, rates)

ScoreRun ==
    /\ asked.fn = "none"
    /\ \E metrics \in Metrics, cost \in Costs, par \in Pars :
          /\ asked' = [fn |-> "score", metrics |-> metrics, cost |-> cost, par |-> par]
          /\ answer' = scoreRun(metrics, cost, par)

ScoreNext == CostFromUsage \/ ScoreRun

ScoreSpec == ScoreInit /\ [][ScoreNext]_scoreVars

(***************************************************************************)
(* Properties                                                              *)
(***************************************************************************)
\* No run passes on the absence of evidence, and none is bought: a verdict says
\* passed just when a measured number is within its target for every metric and
\* for the cost, and there was an operational event and each of them held.  The
\* design at par is never failed for its cost.
Met(measured, target) == measured \in Nat /\ target \in Nat /\ measured <= target

PassedHasEvidence ==
    asked.fn = "score" /\ answer.ok =>
        /\ (answer.passed <=>
            /\ Met(asked.metrics.apiP95Ms, asked.par.slo.apiP95Ms)
            /\ Met(asked.metrics.jobStartP95Ms, asked.par.slo.jobStartP95Ms)
            /\ Met(asked.metrics.errorRate, asked.par.slo.maxErrorRate)
            /\ Met(asked.cost, asked.par.budgetCeilingUsd)
            /\ asked.metrics.opsEvents = {TRUE})
        /\ asked.cost = asked.par.parMonthlyUsd => <<"cost", "ceiling">> \notin answer.failures

\* A price is a number whatever the harness left out, it never falls when more
\* is used, and it does not depend on how long the window was: usage and window
\* doubled cost the same a month.
Doubled(usage) ==
    [usage EXCEPT !.windowHours = 2 * @,
                  !.metered = [f \in Metered |-> 2 * usage.metered[f]]]

PricesAreFair ==
    asked.fn = "cost" /\ answer.ok =>
        /\ answer.monthly.num \in Nat
        /\ \A f \in Metered :
              LET more == [asked.usage EXCEPT !.metered[f] = @ + 1]
              IN  costFromUsage(more, asked.rates).totalForWindow
                    = answer.totalForWindow + asked.rates.metered[f]
        /\ LET twice == costFromUsage(Doubled(asked.usage), asked.rates).monthly
           IN  twice.num * answer.monthly.den = answer.monthly.num * twice.den
=============================================================================
