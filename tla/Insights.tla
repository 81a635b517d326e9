------------------------------ MODULE Insights ------------------------------
(***************************************************************************)
(* What is worked out from prices, baskets and recipes: forecasts          *)
(* (price-forecast.service.ts, forecasting.math.ts), the summary with its  *)
(* cache (analytics.service.ts, trend.util.ts), a recipe's nutrition       *)
(* (nutrition.service.ts) and recommendations (recommendations.service     *)
(* .ts).  Regressions are done over whole numbers: a fraction is carried   *)
(* as numerator and denominator until the code rounds.                     *)
(***************************************************************************)
EXTENDS Scoring, DietFilter

CONSTANTS Histories,    \* price histories of a product: sequences of [day, cents, promo]
          MinPoints,    \* MIN_POINTS
          Recent,       \* RECENT_WINDOW_DAYS
          HistoryDays,  \* HISTORY_DAYS
          MaxDays,      \* bound of the days
          Horizons,     \* days ahead
          Forecasters,  \* the queue's worker and the requests that forecast on demand
          Readers,      \* requests for the summary that may be in flight
          Ttl,          \* CACHE_TTL_MS in ticks
          MaxTicks,     \* bound of the clock
          MaxBought,    \* bound of the baskets
          MaxMarks,     \* bound of the changes to baskets
          Purchases,    \* what a basket may cost, with delivery: [cents, saved]
          MonthOf,      \* the month of each tick of the clock
          TrendMonths,  \* months of the trend
          Spent,        \* pantry items that ended: [wasted, consumed]
          Suppers,      \* READY recipes, newest first
          PoolSize,     \* CANDIDATE_POOL_SIZE
          Wanted        \* requests for recommendations: see RecommendRecipes

ASSUME InsightsAssumption ==
    /\ MinPoints \in Nat \ {0} /\ Ttl \in Nat /\ MaxTicks \in Nat
    /\ MaxBought \in Nat /\ MaxMarks \in Nat /\ PoolSize \in Nat
    /\ HistoryDays \in Nat /\ MaxDays \in Nat /\ Horizons \subseteq Nat
    /\ MonthOf \in [0..MaxTicks -> Nat] /\ TrendMonths \in Nat

\* row-mapper.ts and the DTOs refuse a price that is not positive.
ASSUME HistoriesAssumption ==
    \A h \in Histories :
       /\ h \in Seq([day : Nat, cents : Nat \ {0}, promo : BOOLEAN])
       /\ \A j, k \in DOMAIN h : j <= k => h[j].day <= h[k].day

ASSUME SuppersAssumption ==
    /\ Suppers \in Seq(Range(Suppers))
    /\ \A n \in DOMAIN Suppers :
          /\ Suppers[n].servings \in Nat /\ IsFiniteSet(DOMAIN Suppers[n].lines)
          /\ \A l \in DOMAIN Suppers[n].lines :
                LET line == Suppers[n].lines[l]
                IN /\ line.qty \in Nat
                   /\ line.per100 # <<>> => \A k \in 1..6 : line.per100[k] \in Nat
                   /\ \A want \in Wanted : line.ingredient # "" => want.stock[line.ingredient] \in Nat
    /\ \A want \in Wanted :
          /\ \A i \in DOMAIN want.costs :
                {want.costs[i].pack, want.costs[i].perKg} \subseteq Nat \cup {Unknown}
          /\ want.budget \in Nat \cup {Unknown} /\ want.limit \in Nat
          /\ want.goals.calories \in Nat /\ want.goals.protein \in Nat

VARIABLES
    history,    \* the product's prices, in the order they took effect
    today,      \* the day
    forecast,   \* forecast[d]: the row of horizon d, or NotForecast; from: the prices it was
                \* made from, upto: how many the product had by then
    forecasting,\* forecasting[f]: horizons still to be written, what from and on which day
    alone,      \* who has had the forecasts to himself since he read the prices
    overlapped, \* forecasts have overlapped, and none has been made alone since
    clock,
    bought,     \* the baskets, with the time their status was last set (updatedAt)
    stood,      \* every trend there was, from when it stood
    summary,    \* the cache entry of the user, [at, says], or NoSummary
    reader,     \* reader[r]: the time it took, what its queries said, what it was given
    advised     \* the last recommendations: <<>> or <<[want, dishes]>>

forecastVars == <<history, today, forecast, forecasting, alone, overlapped>>
summaryVars == <<clock, bought, stood, summary, reader>>
insightVars == <<forecastVars, summaryVars, advised>>

Never == -1
NotForecast ==
    [cents |-> Never, direction |-> "STABLE", from |-> <<>>, upto |-> 0, confidence |-> 0,
     promoLikelihood |-> 0]
NotForecasting == [left |-> {}, from |-> <<>>, upto |-> 0, on |-> 0]
NoBasket == [status |-> "NONE", cents |-> 0, saved |-> 0, on |-> 0]
NoSummary == [at |-> Never, says |-> <<>>]
NoReader == [now |-> Never, says |-> <<>>, gave |-> <<>>]

-----------------------------------------------------------------------------
\* linearRegression over the days: slope N / D, mean of the prices S / n.
Days(h) == [k \in DOMAIN h |-> h[k].day]
Cents(h) == [k \in DOMAIN h |-> h[k].cents]
Sx(h) == SumFunction(Days(h))
Sy(h) == SumFunction(Cents(h))

\* n * sum of x y - sum of x * sum of y: linearRegression's covariance.
Covariance(x, y) ==
    Cardinality(DOMAIN x) * SumFunction([k \in DOMAIN x |-> x[k] * y[k]]) - SumFunction(x) * SumFunction(y)
Slope(h) == Covariance(Days(h), Cents(h))
Spread(h) == Covariance(Days(h), Days(h))
Wobble(h) == Covariance(Cents(h), Cents(h))

\* Math.round of the line's value at a day; flat through the mean without spread.
LineAt(h, day) ==
    LET n == Len(h)
        D == Spread(h)
    IN IF D = 0 THEN RoundDiv(Sy(h), n)
       ELSE LET a == Sy(h) * D + Slope(h) * (n * day - Sx(h)) IN (2 * a + n * D) \div (2 * n * D)

\* The share of the wobble the line explains, in hundredths.
R2(h) ==
    CASE Spread(h) = 0 -> 0
      [] Spread(h) # 0 /\ Wobble(h) = 0 -> 100
      [] OTHER -> (100 * Slope(h) * Slope(h)) \div (Spread(h) * Wobble(h))

\* The k-th of the prices in their order.
Sorted(h, k) ==
    CHOOSE p \in Range(Cents(h)) :
       /\ Cardinality({j \in DOMAIN h : h[j].cents < p}) < k
       /\ Cardinality({j \in DOMAIN h : h[j].cents <= p}) >= k

\* Twice the median.
Median2(h) ==
    LET mid == Len(h) \div 2
    IN IF Len(h) % 2 = 0 THEN Sorted(h, mid) + Sorted(h, mid + 1) ELSE 2 * Sorted(h, mid + 1)

Lo(h) == RoundDiv(Median2(h), 4)
Hi(h) == Median2(h)

Clamp(v, lo, hi) == IF v > hi THEN hi ELSE IF v < lo THEN lo ELSE v

PriceDirection(current, predicted) ==
    CASE current <= 0 \/ 50 * AbsDiff(predicted, current) <= current -> "STABLE"
      [] current > 0 /\ 50 * (predicted - current) > current -> "UP"
      [] OTHER -> "DOWN"

\* Promotions among the prices in hundredths, recent ones counted twice.
PromoLikelihood(h, now) ==
    LET weight == [k \in DOMAIN h |-> IF now - h[k].day <= Recent THEN 2 ELSE 1]
        promos == {k \in DOMAIN h : h[k].promo}
    IN (100 * SumFunctionOnSet(weight, promos)) \div SumFunction(weight)

Confidence(h) ==
    LET c == 30 + Len(h) + (40 * R2(h)) \div 100 IN IF c > 90 THEN 90 ELSE c

Predict(h, horizon, now, upto) ==
    LET last == h[Len(h)]
        predicted == Clamp(LineAt(h, last.day + horizon), Lo(h), Hi(h))
    IN [cents |-> predicted, direction |-> PriceDirection(last.cents, predicted), from |-> h,
        upto |-> upto, confidence |-> Confidence(h), promoLikelihood |-> PromoLikelihood(h, now)]

\* The prices of the last HistoryDays.
Since(h, now) ==
    SubSeq(h, 1 + Cardinality({k \in DOMAIN h : h[k].day + HistoryDays < now}), Len(h))

\* forecastProduct, by the worker of the queue, at a retry or on demand, each
\* without a look at the others: the prices are read once, ...
ReadPriceHistory(f) ==
    /\ forecasting[f].left = {} /\ Len(Since(history, today)) >= MinPoints
    /\ forecasting' = [forecasting EXCEPT ![f] =
          [left |-> Horizons, from |-> Since(history, today), upto |-> Len(history), on |-> today]]
    /\ LET quiet == \A g \in Forecasters : forecasting[g].left = {} IN
       /\ alone' = IF quiet THEN {f} ELSE {}
       /\ overlapped' = (overlapped \/ ~quiet)
    /\ UNCHANGED <<history, today, forecast, summaryVars, advised>>

\* ... the rows of the horizons are written one by one.
WriteForecast(f) ==
    /\ forecasting[f].left # {}
    /\ LET run == forecasting[f]
           d == CHOOSE x \in run.left : \A y \in run.left : x <= y
       IN /\ forecast' = [forecast EXCEPT ![d] = Predict(run.from, d, run.on, run.upto)]
          /\ forecasting' = [forecasting EXCEPT ![f].left = @ \ {d}]
          /\ overlapped' = (overlapped /\ ~(f \in alone /\ run.left = {d}))
    /\ UNCHANGED <<history, today, alone, summaryVars, advised>>

\* The worker dies or a write fails: the horizons left keep their older rows.
ForecastBreaksOff(f) ==
    /\ forecasting[f].left # {}
    /\ forecasting' = [forecasting EXCEPT ![f] = NotForecasting]
    /\ UNCHANGED <<history, today, forecast, alone, overlapped, summaryVars, advised>>

\* A new price takes effect today (see Catalogue).
NextPrice ==
    /\ \E h \in Histories :
          /\ Len(h) = Len(history) + 1 /\ SubSeq(h, 1, Len(history)) = history
          /\ h[Len(h)].day = today
          /\ history' = h
    /\ UNCHANGED <<today, forecast, forecasting, alone, overlapped, summaryVars, advised>>

DayPasses ==
    /\ today < MaxDays
    /\ today' = today + 1
    /\ UNCHANGED <<history, forecast, forecasting, alone, overlapped, summaryVars, advised>>

\* getHistory: of each day the last price.
Closing(h) ==
    [d \in {h[k].day : k \in DOMAIN h} |->
        h[CHOOSE k \in DOMAIN h : h[k].day = d /\ \A j \in DOMAIN h : h[j].day = d => j <= k].cents]

-----------------------------------------------------------------------------
Saved(baskets) == [k \in DOMAIN baskets |-> baskets[k].saved]

Months == {MonthOf[t] : t \in 0..MaxTicks}
LastMonths(now) == {m \in Months : m <= MonthOf[now] /\ m + TrendMonths > MonthOf[now]}

\* buildSpendTrend: per calendar month, zero without baskets; a basket is of the
\* month in which its status was last set.
SpendTrend(baskets, months) ==
    [m \in months |->
        LET ofMonth == {k \in DOMAIN baskets :
                           baskets[k].status = "PURCHASED" /\ MonthOf[baskets[k].on] = m}
        IN [total |-> SumFunctionOnSet(Cents(baskets), ofMonth),
            saved |-> SumFunctionOnSet(Saved(baskets), ofMonth)]]

\* buildInflationTrend over the prices' averages: the first one is 100.0.
InflationTrend(h) ==
    LET days == {h[k].day : k \in DOMAIN h}
        Of(d) == {k \in DOMAIN h : h[k].day = d}
        Avg(d) == SumFunctionOnSet(Cents(h), Of(d)) \div Cardinality(Of(d))
        first == CHOOSE d \in days : \A e \in days : d <= e
    IN [d \in days |-> RoundDiv(1000 * Avg(d), Avg(first))]

\* pantryWasteCounts: the rate in thousandths.
WasteRate(ended) ==
    IF ended.wasted + ended.consumed = 0 THEN 0
    ELSE RoundDiv(1000 * ended.wasted, ended.wasted + ended.consumed)

\* getSummary: the time is taken before the cache is looked at, and is the time
\* of the entry.
Fresh(now) == summary.at # Never /\ now - summary.at < Ttl

AskSummary(r) ==
    /\ reader[r].now = Never
    /\ reader' = [reader EXCEPT ![r] =
          IF Fresh(clock) THEN [NoReader EXCEPT !.gave = summary.says]
          ELSE [NoReader EXCEPT !.now = clock]]
    /\ UNCHANGED <<forecastVars, clock, bought, stood, summary, advised>>

\* computeSummary.
ComputeSummary(r) ==
    /\ reader[r].now # Never /\ reader[r].says = <<>>
    /\ \E ended \in Spent :
          reader' = [reader EXCEPT ![r].says =
             <<[spendTrend |-> SpendTrend(bought, LastMonths(reader[r].now)),
                inflationTrend |-> InflationTrend(history),
                wasteRate |-> WasteRate(ended)]>>]
    /\ UNCHANGED <<forecastVars, clock, bought, stood, summary, advised>>

\* Mutant: the entry is dated when it is stored.
DatedLate(r) == clock

EntryTime(r) == reader[r].now

KeepSummary(r) ==
    /\ reader[r].says # <<>>
    /\ summary' = [at |-> EntryTime(r), says |-> reader[r].says]
    /\ reader' = [reader EXCEPT ![r] = NoReader]
    /\ UNCHANGED <<forecastVars, clock, bought, stood, advised>>

SummaryFails(r) ==
    /\ reader[r].now # Never /\ reader[r].says = <<>>
    /\ reader' = [reader EXCEPT ![r] = NoReader]
    /\ UNCHANGED <<forecastVars, clock, bought, stood, summary, advised>>

\* A basket is given another status, or its first; a row is dated when it is.
Becomes(k, row) ==
    /\ Len(stood) <= MaxMarks
    /\ bought' = [bought EXCEPT ![k] = row]
    /\ stood' = Append(stood, [from |-> clock, trend |-> SpendTrend(bought', Months)])
    /\ UNCHANGED <<forecastVars, clock, summary, reader, advised>>

\* A basket that was saved is marked PURCHASED.
Buy(k, b) ==
    /\ bought[k].status = "NONE"
    /\ Becomes(k, [status |-> "PURCHASED", cents |-> b.cents, saved |-> b.saved, on |-> clock])

\* updateStatus: marked again, archived, or brought back.
UpdateStatus(k, status) ==
    /\ bought[k].status # "NONE"
    /\ Becomes(k, [bought[k] EXCEPT !.status = status, !.on = clock])

DeleteBasket(k) == bought[k].status # "NONE" /\ Becomes(k, NoBasket)

ClockTicks ==
    /\ clock < MaxTicks
    /\ clock' = clock + 1
    /\ reader' = [r \in Readers |-> [reader[r] EXCEPT !.gave = <<>>]]
    /\ UNCHANGED <<forecastVars, bought, stood, summary, advised>>

-----------------------------------------------------------------------------
\* computeRecipeNutrition: by the grams of the lines that have nutrition, in
\* tenths per serving.  Nutrients are numbered: calories, protein, fibre,
\* sodium, sugar, fat.
Counted(lines) == {k \in DOMAIN lines : lines[k].qty > 0 /\ lines[k].per100 # <<>>}

PerServing(recipe, n) ==
    LET part == [k \in Counted(recipe.lines) |-> recipe.lines[k].per100[n] * recipe.lines[k].qty]
        servings == IF recipe.servings < 1 THEN 1 ELSE recipe.servings
    IN RoundDiv(SumFunction(part), 10 * servings)

AtMost(v, most) == IF v > most THEN most ELSE v

\* computeHealthScore, in tenths: a base of 70, bonuses for protein and fibre,
\* penalties for sodium, sugar and fat, between 0 and 100.
HealthScore(recipe) ==
    LET p(n) == PerServing(recipe, n)
        score == 700 + AtMost(p(2) \div 2, 200) + AtMost(2 * p(3), 100)
                   - AtMost(p(4) \div 80, 250) - AtMost((3 * AtLeast0(p(5) - 100)) \div 2, 150)
                   - AtMost(AtLeast0(p(6) - 250), 150)
    IN AtLeast0(AtMost(score, 1000))

Nutrition(recipe) ==
    [calories |-> PerServing(recipe, 1) \div 10, protein |-> PerServing(recipe, 2) \div 10,
     health |-> HealthScore(recipe) \div 10]

\* recommendRecipes: the newest of the reader's own and the public recipes; of
\* these, what the profile's diet allows, scored, best first, the newer of equals
\* first.
ScoreOf(dish, want) ==
    RecommendationScore(PantryCoverage(dish.lines, want.stock), CostPerServing(dish, want.costs),
        IF want.budget = Unknown THEN DefaultMaxBudget ELSE want.budget, Nutrition(dish), want.goals)

Visible(want) == {k \in DOMAIN Suppers : Suppers[k].public \/ Suppers[k].owner = want.user}

Ahead(i, j, want) ==
    LET a == ScoreOf(Suppers[i], want)
        b == ScoreOf(Suppers[j], want)
    IN a > b \/ (a = b /\ i < j)

\* The newest of a set of recipes.
Newest(dishes, most) == {k \in dishes : Cardinality({j \in dishes : j < k}) < most}

\* The diet is looked at when the pool is taken.
Suggested(want) == {k \in Newest(Visible(want), PoolSize) : IsRecipeAllowed(Suppers[k], want.diets)}

\* The first of a set, in the order of the scores.
Ranked(dishes, most, want) ==
    [n \in 1..AtMost(Cardinality(dishes), most) |->
        CHOOSE k \in dishes : Cardinality({j \in dishes : Ahead(j, k, want)}) = n - 1]

\* Mutant: the newest are kept, then sorted.
NewestSorted(want) ==
    Ranked(Newest(Suggested(want), want.limit), want.limit, want)

Best(want) == Ranked(Suggested(want), want.limit, want)

RecommendRecipes ==
    /\ \E want \in Wanted : advised' = <<[want |-> want, dishes |-> Best(want)]>>
    /\ UNCHANGED <<forecastVars, summaryVars>>

-----------------------------------------------------------------------------
InsightInit ==
    /\ history \in Histories
    /\ today = IF history = <<>> THEN 0 ELSE history[Len(history)].day
    /\ forecast = [d \in Horizons |-> NotForecast]
    /\ forecasting = [f \in Forecasters |-> NotForecasting]
    /\ alone = {} /\ overlapped = FALSE
    /\ clock = 0
    /\ bought = [k \in 1..MaxBought |-> NoBasket]
    /\ stood = <<[from |-> 0, trend |-> SpendTrend(bought, Months)]>>
    /\ summary = NoSummary
    /\ reader = [r \in Readers |-> NoReader]
    /\ advised = <<>>

ForecastNext ==
    \/ \E f \in Forecasters : ReadPriceHistory(f) \/ WriteForecast(f) \/ ForecastBreaksOff(f)
    \/ NextPrice \/ DayPasses

SummaryNext ==
    \/ \E r \in Readers : AskSummary(r) \/ ComputeSummary(r) \/ KeepSummary(r) \/ SummaryFails(r)
    \/ \E k \in 1..MaxBought :
          \/ \E b \in Purchases : Buy(k, b)
          \/ \E status \in {"PURCHASED", "ARCHIVED"} : UpdateStatus(k, status)
          \/ DeleteBasket(k)
    \/ ClockTicks

InsightNext == ForecastNext \/ SummaryNext \/ RecommendRecipes

InsightSpec == InsightInit /\ [][InsightNext]_insightVars

-----------------------------------------------------------------------------
\* price-forecast.service.ts:78: each row predicts between half and twice the
\* prices it was made from, which the product had one after the other, and its
\* direction is that of the prediction.  The rows may be from different prices,
\* but a nearer horizon's never from older ones than a farther one's, unless
\* forecasts overlapped and none has been made alone since: nothing keeps them
\* apart (:113, :142).
ForecastsAreBounded ==
    \A d \in Horizons : forecast[d].from # <<>> =>
       LET f == forecast[d]
           last == f.from[Len(f.from)]
           prices == {f.from[k].cents : k \in DOMAIN f.from}
       IN /\ \E p \in prices : 2 * f.cents + 1 >= p
          /\ \E p \in prices : f.cents <= 2 * p
          /\ f.direction = "UP" => f.cents > last.cents
          /\ f.direction = "DOWN" => f.cents < last.cents
          /\ f.direction = "STABLE" => 50 * AbsDiff(f.cents, last.cents) <= last.cents
          /\ ~overlapped => \A e \in Horizons : e < d => forecast[e].upto >= f.upto
          /\ \E first \in 1..f.upto : f.from = SubSeq(history, first, f.upto)
          /\ f.confidence \in 30..90 /\ f.promoLikelihood \in 0..100
          /\ Closing(f.from)[last.day] = last.cents

\* recommendations.service.ts:183: what is recommended is the reader's to see
\* and allowed by every restriction, best first, and of the newest PoolSize he
\* may see nothing that he may eat and is left out would score higher.  Older
\* ones are not looked at, however good; the pool is taken before the diet is
\* looked at (:90), so recipes he may not eat use it up.
RecommendedAreBest ==
    advised # <<>> =>
       LET a == advised[1]
           Of(k) == ScoreOf(Suppers[k], a.want)
           Fits(k) == k \in Visible(a.want) /\ IsRecipeAllowed(Suppers[k], a.want.diets)
           Newer(k) == {j \in Visible(a.want) : j < k}
           shown == {a.dishes[k] : k \in DOMAIN a.dishes}
       IN /\ \A n \in shown : Fits(n)
          /\ \A k \in 1..(Len(a.dishes) - 1) : Of(a.dishes[k]) >= Of(a.dishes[k + 1])
          /\ \A n \in DOMAIN Suppers \ shown :
                Fits(n) /\ Cardinality(Newer(n)) < PoolSize =>
                   Len(a.dishes) = a.want.limit /\ \A m \in shown : Of(m) >= Of(n)

AdviceIsSound == ForecastsAreBounded /\ RecommendedAreBest

\* analytics.service.ts:31: the trend of a summary from the cache is one that
\* stood at some time within the last lifetime of the cache: it counts every
\* basket that was bought before and nothing that was deleted, archived or marked
\* again in another month before, although requests that started earlier may
\* store older summaries over newer ones and may take long to do so.
SummariesAreRecent ==
    \A r \in Readers : reader[r].gave # <<>> =>
       LET trend == reader[r].gave[1].spendTrend
       IN \E k \in DOMAIN stood :
             /\ trend = [m \in DOMAIN trend |-> stood[k].trend[m]]
             /\ k < Len(stood) => stood[k + 1].from + Ttl > clock
=============================================================================
