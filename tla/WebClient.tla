------------------------------ MODULE WebClient ------------------------------
(***************************************************************************)
(* The pages of apps/web: what each asks the API for, what each may        *)
(* change, and the cache of answers between them (TanStack Query, as       *)
(* providers.tsx sets it up).  A page shows the cached answers to its      *)
(* queries; a mutation is sent, applied at the API, and on its answer the  *)
(* page invalidates the keys it knows to be wrong and may lead elsewhere.  *)
(*                                                                         *)
(* An answer is the set of mutations it reflects.  There is one recipe,    *)
(* one basket, one plan, one product and one conversation to look at; a    *)
(* thing just made has a key nothing is cached for.                        *)
(***************************************************************************)
EXTENDS Naturals, FiniteSets, SequencesExt

CONSTANTS Sites,       \* sets of pages a user keeps to
          Writes,      \* ids of mutations (bounds how many are sent)
          MaxVisits,   \* pages opened
          MaxForms,    \* forms opened
          MaxFetches,  \* fetches started
          Absent       \* no answer, page or form

ASSUME BoundsAssumption == MaxVisits \in Nat /\ MaxForms \in Nat /\ MaxFetches \in Nat

VARIABLES
    site,       \* the pages this user keeps to: no other is opened
    page,       \* the page open, or "outside": a full load follows
    peeked,     \* keys of what was opened on it: a picker, a conversation
    cache,      \* cache[k]: [shows, stale, fetch, answer]
    server,     \* server[k]: the mutations the API's answer to k reflects
    sent,       \* sent[w]: a mutation, [kind, at, visit, before, since, read]
    form,       \* the form open, [name, id, filled], or Absent
    visits, forms, fetches,
    due,        \* history: due[k], what k must reflect where it was done
    overtaken,  \* history: keys whose answer was overtaken on its way
    failed,     \* history: keys whose last fetch failed
    filed,      \* history: forms a mutation succeeded for
    dropped,    \* history: forms the client closed or emptied by itself
    intruded,   \* history: forms closed by a mutation sent before they were opened
    deserted,   \* history: forms beside which the user pressed what led elsewhere
    emptied     \* history: inputs of the assistant emptied when something was sent

clientVars == <<site, page, peeked, cache, server, sent, form, visits, forms, fetches, due, overtaken,
                failed, filed, dropped, intruded, deserted, emptied>>
closings == <<filed, dropped, intruded, deserted, emptied>>
formVars == <<form, forms, closings>>

-----------------------------------------------------------------------------
\* The queries of each page, by key.

PantryPage == {<<"pantry">>, <<"receipts">>}
RecipesPage == {<<"recipes", "list">>}
RecipePage == {<<"recipe", "id">>}
OptimizePage == {<<"recipe", "id">>}
BasketsPage == {<<"baskets">>}
BasketPage == {<<"basket", "id">>}
MealPlansPage == {<<"meal-plans">>}
MealPlanPage == {<<"meal-plan", "id">>}
AssistantPage == {<<"chat-sessions">>}
SettingsPage == {<<"profile">>, <<"subscription">>, <<"usage">>, <<"alerts">>}
ProductPage == {<<"product", "id">>, <<"product", "id", "history">>}
ProductsPage == {<<"stores">>, <<"products", "list">>}
DashboardPage == {<<"analytics", "summary">>, <<"pantry", "expiring">>, <<"billing", "usage">>,
                  <<"recommendations", "recipes">>, <<"baskets">>}
AnalyticsPage == {<<"analytics">>}
Topbar == {<<"notifications", "unread-count">>}

\* What is asked for only once it is opened.
Substitutions == {<<"ingredient-substitutions">>}
RecipePicker == {<<"recipes", "picker">>}
SwapDialog == {<<"recipes", "swap">>}
Conversation == {<<"chat-session", "id">>}
Forecast == {<<"product", "id", "forecast">>}
NotificationsList == {<<"notifications", "list">>}

Pages ==
    [pantry |-> PantryPage, recipes |-> RecipesPage, recipe |-> RecipePage, new |-> {},
     optimize |-> OptimizePage, baskets |-> BasketsPage, basket |-> BasketPage,
     plans |-> MealPlansPage, plan |-> MealPlanPage, assistant |-> AssistantPage,
     settings |-> SettingsPage, product |-> ProductPage, products |-> ProductsPage,
     dashboard |-> DashboardPage, analytics |-> AnalyticsPage]

Opens ==
    [p \in DOMAIN Pages |->
       NotificationsList \cup
       (CASE p = "recipe" -> Substitutions [] p = "optimize" -> RecipePicker
          [] p = "plan" -> SwapDialog [] p = "assistant" -> Conversation
          [] p = "product" -> Forecast [] OTHER -> {})]

AskedBy(p) == IF p = "topbar" THEN Topbar \cup NotificationsList ELSE Pages[p] \cup Opens[p]

\* recipe/[id] and recipes refetch while something is processed, the count of
\* unread notifications every minute.
Polled == RecipePage \cup RecipesPage \cup Topbar

-----------------------------------------------------------------------------
\* The forms: where each is, whether it can be submitted as it opens or
\* something must be filled in first, and whether it is a dialog, which covers
\* every other control.

Form(on, needs) == [on |-> on, needs |-> needs, dialog |-> TRUE]
Inline(on, needs) == [Form(on, needs) EXCEPT !.dialog = FALSE]

ItemForm == Form("pantry", TRUE)          \* a name
ScanForm == Form("pantry", TRUE)          \* a photo
OptimizeForm == Inline("optimize", TRUE)    \* a recipe, or ingredients
SaveBasketForm == Form("optimize", FALSE) \* the name is proposed
RecipeEditor == Form("recipe", FALSE)
UploadTab == Inline("new", TRUE)
ImportUrlTab == Inline("new", TRUE)
PasteTab == Inline("new", TRUE)
ManualTab == Inline("new", TRUE)
GenerateForm == Form("plans", FALSE)
WatchForm == Form("product", FALSE)
ReportForm == Form("product", TRUE)       \* a store and a price
ProfileForm == Inline("settings", FALSE)
DangerForm == Form("settings", TRUE)      \* DELETE, typed
MessageForm == Inline("assistant", TRUE)

Forms ==
    [item |-> ItemForm, scan |-> ScanForm, optimize |-> OptimizeForm, basket |-> SaveBasketForm,
     recipe |-> RecipeEditor, upload |-> UploadTab, url |-> ImportUrlTab, paste |-> PasteTab,
     manual |-> ManualTab, generate |-> GenerateForm, watch |-> WatchForm,
     report |-> ReportForm, profile |-> ProfileForm, danger |-> DangerForm,
     message |-> MessageForm]

-----------------------------------------------------------------------------
\* The mutations: the keys whose answers the API's handler changes, the keys
\* the page invalidates on success (and on error), the form it is submitted
\* from and when that is closed, where it leads, whether its control is off
\* while it is under way, and how its effect comes to be shown.

Mutation(on, writes, invalidates) ==
    [on |-> on, writes |-> writes, invalidates |-> invalidates, onError |-> {}, form |-> Absent,
     closes |-> "success", leads |-> Absent, makes |-> FALSE, alone |-> TRUE, via |-> "refetch"]

Submitted(m, f) == [m EXCEPT !.form = f]
Leading(m, p) == [m EXCEPT !.leads = p]
Making(m, p) == [m EXCEPT !.leads = p, !.makes = TRUE]

Stock == {<<"pantry">>, <<"pantry", "expiring">>}
Cookbooks == {<<"recipe", "id">>, <<"recipes", "list">>, <<"recipes", "picker">>, <<"recipes", "swap">>}
Usage == {<<"usage">>, <<"billing", "usage">>}

\* Mutant: the form is closed whatever came of it.
SaveItemSettled ==
    [Submitted(Mutation("pantry", Stock, {<<"pantry">>}), "item") EXCEPT !.closes = "settled"]

SaveItem == Submitted(Mutation("pantry", Stock, {<<"pantry">>}), "item")
ItemAction == [Mutation("pantry", Stock, {<<"pantry">>}) EXCEPT !.alone = FALSE]
Scan == Submitted(Mutation("pantry", Stock \cup Usage, {<<"pantry">>}), "scan")
UploadReceipt ==
    [Mutation("pantry", {<<"receipts">>}, {<<"receipts">>}) EXCEPT !.alone = FALSE]

ReprocessListed == Mutation("recipes", Cookbooks, {<<"recipes">>})
Reprocess == Mutation("recipe", Cookbooks, {<<"recipe", "id">>})
UpdateRecipe ==
    Submitted(Mutation("recipe", Cookbooks, {<<"recipe", "id">>, <<"recipes">>}), "recipe")
RemoveRecipe == Leading(Mutation("recipe", Cookbooks, {<<"recipes">>}), "recipes")

UploadRecipe == Submitted(Making(Mutation("new", Cookbooks \cup Usage, {}), "recipe"), "upload")
ImportUrl == Submitted(Making(Mutation("new", Cookbooks \cup Usage, {}), "recipe"), "url")
PasteRecipe == Submitted(Making(Mutation("new", Cookbooks \cup Usage, {}), "recipe"), "paste")
CreateRecipe == Submitted(Making(Mutation("new", Cookbooks, {}), "recipe"), "manual")

OptimizeBasket ==
    [Submitted(Mutation("optimize", Usage, {}), "optimize") EXCEPT !.closes = "never"]
SaveBasket ==
    Submitted(Making(Mutation("optimize", {<<"baskets">>, <<"basket", "id">>}, {}), "basket"), "basket")

\* Mutant: what failed is rolled back, and not asked for again.
ToggleItemUnsettled ==
    [Mutation("basket", {<<"basket", "id">>, <<"baskets">>}, {<<"basket", "id">>})
        EXCEPT !.alone = FALSE, !.via = "optimistic"]

\* Shown before it is sent, rolled back on error, and asked for again in the end.
ToggleItem ==
    [Mutation("basket", {<<"basket", "id">>, <<"baskets">>}, {<<"basket", "id">>})
        EXCEPT !.onError = {<<"basket", "id">>}, !.alone = FALSE, !.via = "optimistic"]
MarkPurchased ==
    Mutation("basket", {<<"basket", "id">>, <<"baskets">>, <<"analytics">>, <<"analytics", "summary">>},
             {<<"basket", "id">>, <<"baskets">>, <<"analytics">>})
RemoveBasket ==
    Leading(Mutation("basket", {<<"basket", "id">>, <<"baskets">>}, {<<"baskets">>}), "baskets")

GeneratePlan ==
    Submitted(Making(Mutation("plans", {<<"meal-plans">>, <<"meal-plan", "id">>}, {<<"meal-plans">>}),
                     "plan"), "generate")
RemoveListedPlan ==
    [Mutation("plans", {<<"meal-plans">>, <<"meal-plan", "id">>}, {<<"meal-plans">>})
        EXCEPT !.alone = FALSE]
RemovePlan ==
    Leading(Mutation("plan", {<<"meal-plans">>, <<"meal-plan", "id">>}, {<<"meal-plans">>}), "plans")
Swap == Mutation("plan", {<<"meal-plans">>, <<"meal-plan", "id">>}, {<<"meal-plan", "id">>})

\* The input is emptied at once, by a suggestion that is sent too, and stays so
\* on an error; the reply comes with the messages it follows.
Send ==
    [Submitted(Mutation("assistant", {<<"chat-sessions">>, <<"chat-session", "id">>} \cup Usage,
                        {<<"chat-sessions">>, <<"usage">>}), "message")
        EXCEPT !.closes = "start", !.via = "answer"]
SendSuggestion == [Send EXCEPT !.form = Absent]
RemoveSession ==
    [Mutation("assistant", {<<"chat-sessions">>}, {<<"chat-sessions">>}) EXCEPT !.alone = FALSE]

SaveProfile ==
    [Submitted(Mutation("settings", {<<"profile">>}, {<<"profile">>}), "profile") EXCEPT !.closes = "never"]
UpdateAlert ==
    [Mutation("settings", {<<"alerts">>}, {<<"alerts">>})
        EXCEPT !.onError = {<<"alerts">>}, !.alone = FALSE]
OpenPortal == Leading(Mutation("settings", {}, {}), "outside")
RemoveAccount == Submitted(Leading(Mutation("settings", {}, {}), "outside"), "danger")

\* A report becomes a price when enough others agree; the page does not wait.
CreateWatch == Submitted(Mutation("product", {}, {}), "watch")
ReportPrice == Submitted(Mutation("product", {}, {}), "report")

Notices == Topbar \cup NotificationsList
MarkRead == [Mutation("topbar", Notices, {<<"notifications">>}) EXCEPT !.alone = FALSE]
MarkAllRead == Mutation("topbar", Notices, {<<"notifications">>})
Checkout == Leading(Mutation("topbar", {}, {}), "outside")

Mutations ==
    [saveItem |-> SaveItem, itemAction |-> ItemAction, scan |-> Scan,
     uploadReceipt |-> UploadReceipt, reprocessListed |-> ReprocessListed,
     reprocess |-> Reprocess, updateRecipe |-> UpdateRecipe, removeRecipe |-> RemoveRecipe,
     upload |-> UploadRecipe, importUrl |-> ImportUrl, paste |-> PasteRecipe,
     create |-> CreateRecipe, optimize |-> OptimizeBasket, saveBasket |-> SaveBasket,
     toggleItem |-> ToggleItem, markPurchased |-> MarkPurchased, removeBasket |-> RemoveBasket,
     generate |-> GeneratePlan, removeListedPlan |-> RemoveListedPlan, removePlan |-> RemovePlan,
     swap |-> Swap, send |-> Send, suggest |-> SendSuggestion, removeSession |-> RemoveSession,
     saveProfile |-> SaveProfile, updateAlert |-> UpdateAlert, portal |-> OpenPortal, removeAccount |-> RemoveAccount,
     watch |-> CreateWatch, report |-> ReportPrice, markRead |-> MarkRead,
     markAllRead |-> MarkAllRead, checkout |-> Checkout]

\* Absent is no page and no form, and the pages a user keeps to are those that
\* what is done on them leads to as well.
ASSUME WebClientAssumption ==
    /\ Absent \notin DOMAIN Pages \cup DOMAIN Forms \cup {"outside"}
    /\ \A s \in Sites : \A n \in DOMAIN Mutations :
          Mutations[n].on \in s => Mutations[n].leads \in s \cup {Absent, "outside"}

-----------------------------------------------------------------------------
\* The cache.  Followed are the answers to what the site asks for and changes.

KeysOf ==
    [s \in Sites |->
       {k \in UNION {AskedBy(p) : p \in s} :
          \E n \in DOMAIN Mutations : Mutations[n].on \in s /\ k \in Mutations[n].writes}]

Keys == KeysOf[site]

Shown(p) == (IF p = "outside" THEN {} ELSE Pages[p] \cup Topbar) \cap Keys
Watched == Shown(page) \cup peeked

Empty == [shows |-> Absent, stale |-> FALSE, fetch |-> "none", answer |-> {}]

NotSent == [kind |-> Absent, at |-> "none", visit |-> 0, before |-> Absent, since |-> 0, read |-> {}]

ClientInit ==
    /\ site \in Sites
    /\ page \in site \cap DOMAIN Pages
    /\ peeked = {}
    /\ cache = [k \in Keys |-> IF k \in Shown(page)
                               THEN [Empty EXCEPT !.fetch = "asked"] ELSE Empty]
    /\ server = [k \in Keys |-> {}] /\ due = server
    /\ sent = [w \in Writes |-> NotSent]
    /\ form = Absent
    /\ visits = 1 /\ forms = 0 /\ fetches = 0
    /\ overtaken = {} /\ failed = {} /\ filed = {} /\ dropped = {} /\ intruded = {}
    /\ deserted = {} /\ emptied = {}

Asked(entry) == [entry EXCEPT !.fetch = "asked"]

\* Observed for the first time, or again: asked for when absent or stale.
Observed(entry) ==
    IF entry.fetch = "none" /\ (entry.shows = Absent \/ entry.stale) THEN Asked(entry) ELSE entry

\* invalidateQueries: everything under a key is stale, and what is on the page
\* is asked for again even if it was being asked for.
Under(ks) == {k \in Keys : \E p \in ks : IsPrefix(p, k)}

Invalidated(c, ks, active) ==
    [k \in Keys |-> IF k \notin Under(ks) THEN c[k]
                    ELSE IF k \in active THEN Asked([c[k] EXCEPT !.stale = TRUE])
                    ELSE [c[k] EXCEPT !.stale = c[k].shows # Absent]]

\* The page p opens: a full load begins with nothing cached.
Opened(c, p) ==
    IF p = "outside" THEN [k \in Keys |-> Empty]
    ELSE [k \in Keys |-> IF k \in Shown(p) THEN Observed(c[k]) ELSE c[k]]

\* The user goes to another page; a form left open is given up.
Visit(p) ==
    /\ visits < MaxVisits /\ page # p
    /\ page' = p /\ peeked' = {} /\ visits' = visits + 1
    /\ cache' = Opened(cache, p)
    /\ form' = Absent
    /\ UNCHANGED <<site, server, sent, forms, fetches, due, overtaken, failed, closings>>

Peek(k) ==
    /\ page # "outside" /\ k \in Keys \cap (Opens[page] \ peeked)
    /\ peeked' = peeked \cup {k}
    /\ cache' = [cache EXCEPT ![k] = Observed(@)]
    /\ UNCHANGED <<site, page, server, sent, visits, fetches, due, overtaken, failed, formVars>>

\* A fetch is answered by the API, and the answer arrives.
Answer(k) ==
    /\ cache[k].fetch = "asked"
    /\ cache' = [cache EXCEPT ![k].fetch = "answered", ![k].answer = server[k]]
    /\ overtaken' = overtaken \ {k} /\ failed' = failed \ {k}
    /\ UNCHANGED <<site, page, peeked, server, sent, visits, fetches, due, formVars>>

Arrive(k) ==
    /\ cache[k].fetch = "answered"
    /\ cache' = [cache EXCEPT ![k] = [Empty EXCEPT !.shows = cache[k].answer]]
    /\ UNCHANGED <<site, page, peeked, server, sent, visits, fetches, due, overtaken, failed, formVars>>

\* The attempt and its retry both fail: what was shown stays.
FetchFails(k) ==
    /\ cache[k].fetch # "none" /\ fetches < MaxFetches
    /\ cache' = [cache EXCEPT ![k].fetch = "none", ![k].answer = {}]
    /\ fetches' = fetches + 1
    /\ failed' = failed \cup {k}
    /\ UNCHANGED <<site, page, peeked, server, sent, visits, due, overtaken, formVars>>

\* After thirty seconds an answer is stale; some keys are asked for again.
Age(k) ==
    /\ cache[k].shows # Absent /\ ~cache[k].stale /\ cache[k].fetch = "none" /\ fetches < MaxFetches
    /\ cache' = [cache EXCEPT ![k] = IF k \in Polled \cap Watched THEN Asked(@)
                                     ELSE [@ EXCEPT !.stale = TRUE]]
    /\ fetches' = fetches + 1
    /\ UNCHANGED <<site, page, peeked, server, sent, visits, due, overtaken, failed, formVars>>

-----------------------------------------------------------------------------
\* Forms.

OpenForm(f) ==
    /\ form = Absent /\ forms < MaxForms /\ page = Forms[f].on
    /\ form' = [name |-> f, id |-> forms + 1, filled |-> ~Forms[f].needs]
    /\ forms' = forms + 1
    /\ UNCHANGED <<site, page, peeked, cache, server, sent, visits, fetches, due, overtaken, failed,
                   closings>>

FillForm ==
    /\ form # Absent /\ ~form.filled
    /\ form' = [form EXCEPT !.filled = TRUE]
    /\ UNCHANGED <<site, page, peeked, cache, server, sent, visits, fetches, due, overtaken, failed,
                   forms, closings>>

CloseForm ==
    /\ form # Absent
    /\ form' = Absent
    /\ UNCHANGED <<site, page, peeked, cache, server, sent, visits, fetches, due, overtaken, failed,
                   forms, closings>>

-----------------------------------------------------------------------------
\* A mutation.

Of(w) == Mutations[sent[w].kind]
Underway(w) == sent[w].at \in {"starting", "sent", "applied", "failed"}

\* What can be pressed: the controls of the page and of the bar above it.
KindsOn == [p \in DOMAIN Pages \cup {"topbar"} |-> {n \in DOMAIN Mutations : Mutations[n].on = p}]

Pressable ==
    IF page = "outside" THEN {}
    ELSE UNION {KindsOn[p] : p \in {page} \cup (site \cap {"topbar"})}

\* The page has one mutation for what is typed and what is suggested.
OneControl(kind, other) == kind = other \/ {kind, other} = {"send", "suggest"}

\* Its control is pressed, or its form submitted.  onMutate of an optimistic
\* one stops what is being fetched first.
Mutate(w, kind) ==
    LET m == Mutations[kind]
        takes == form # Absent /\ m.closes = "start"
    IN
    /\ sent[w] = NotSent
    /\ m.alone => \A v \in Writes :
          ~(Underway(v) /\ OneControl(sent[v].kind, kind) /\ sent[v].visit = visits)
    /\ m.form # Absent => form # Absent /\ form.name = m.form /\ form.filled
    /\ m.form = Absent /\ form # Absent => ~Forms[form.name].dialog
    /\ sent' = [sent EXCEPT ![w] =
          [NotSent EXCEPT !.kind = kind, !.visit = visits,
                          !.at = IF m.via = "optimistic" THEN "starting" ELSE "sent",
                          !.since = forms]]
    /\ cache' = IF m.via # "optimistic" THEN cache
                ELSE [k \in Keys |-> IF k \in Under(m.invalidates)
                                     THEN [cache[k] EXCEPT !.fetch = "none", !.answer = {}]
                                     ELSE cache[k]]
    /\ form' = IF takes THEN Absent ELSE form
    /\ dropped' = IF takes THEN dropped \cup {form.id} ELSE dropped
    /\ emptied' = IF takes /\ m.via = "answer" THEN emptied \cup {form.id} ELSE emptied
    /\ UNCHANGED <<site, page, peeked, server, visits, forms, fetches, due, overtaken, failed, filed,
                   intruded, deserted>>

\* After the await: what is shown is kept, and changed ahead of the API.
ShowAhead(w) ==
    LET k == CHOOSE key \in Of(w).invalidates : TRUE IN
    /\ sent[w].at = "starting"
    /\ sent' = [sent EXCEPT ![w].at = "sent", ![w].before = cache[k].shows]
    /\ cache' = IF cache[k].shows = Absent THEN cache
                ELSE [cache EXCEPT ![k].shows = @ \cup {w}, ![k].stale = FALSE]
    /\ UNCHANGED <<site, page, peeked, server, visits, fetches, due, overtaken, failed, formVars>>

Apply(w) ==
    /\ sent[w].at = "sent"
    /\ server' = [k \in Keys |-> IF k \in Of(w).writes THEN server[k] \cup {w} ELSE server[k]]
    /\ sent' = [sent EXCEPT ![w].at = "applied",
                            ![w].read = IF Of(w).via = "answer"
                                        THEN server[<<"chat-session", "id">>] \cup {w} ELSE {}]
    /\ UNCHANGED <<site, page, peeked, cache, visits, fetches, due, overtaken, failed, formVars>>

\* Refused, or its answer is lost: for the page the same.
MutationFails(w) ==
    /\ sent[w].at \in {"sent", "applied"}
    /\ sent' = [sent EXCEPT ![w].at = "failed"]
    /\ UNCHANGED <<site, page, peeked, cache, server, visits, fetches, due, overtaken, failed, formVars>>

\* The forms that end with it, one it did not come from among them, as long as
\* the page is the one it was sent from.
Closing(w, ok) ==
    /\ form # Absent /\ form.name = Of(w).form /\ sent[w].visit = visits
    /\ Of(w).closes = "settled" \/ (Of(w).closes = "success" /\ ok)

Leaving(m, ok) == ok /\ m.leads # Absent

SettleForm(w, ok) ==
    LET m == Of(w)
        ends == form # Absent /\ (Closing(w, ok) \/ Leaving(m, ok))
    IN /\ form' = IF ends THEN Absent ELSE form
       /\ filed' = IF ok /\ m.form # Absent THEN filed \cup {sent[w].since} ELSE filed
       /\ dropped' = IF ends THEN dropped \cup {form.id} ELSE dropped
       /\ intruded' = IF ends /\ form.id > sent[w].since THEN intruded \cup {form.id} ELSE intruded
       /\ deserted' = IF ends /\ form.id <= sent[w].since /\ m.form = Absent
                      THEN deserted \cup {form.id} ELSE deserted
       /\ UNCHANGED <<forms, emptied>>

\* What the page does about the cache before it leads anywhere.
Settled(w, ok) ==
    LET m == Of(w)
        own == CASE m.via = "answer" /\ ok ->
                      [cache EXCEPT ![<<"chat-session", "id">>].shows = sent[w].read,
                                    ![<<"chat-session", "id">>].stale = FALSE]
                 [] m.via = "optimistic" /\ ~ok /\ sent[w].before # Absent ->
                      [cache EXCEPT ![<<"basket", "id">>].shows = sent[w].before,
                                    ![<<"basket", "id">>].stale = FALSE]
                 [] OTHER -> cache
        made == IF m.makes /\ ok
                THEN [k \in Keys |-> IF k \in Shown(m.leads) \ Topbar THEN Empty ELSE own[k]] ELSE own
    IN Invalidated(made, IF ok THEN m.invalidates ELSE m.onError, Watched)

\* Keys of which an older answer is still under way and will be taken, or is
\* taken now: a reply that does not have what the API has meanwhile.
Overtakes(w, ok) ==
    LET m == Of(w)
        inFlight == {k \in Keys : cache[k].fetch # "none"}
    IN ((Under(IF ok THEN m.invalidates ELSE m.onError) \ Watched) \cap inFlight)
         \cup (IF m.via = "answer" /\ ok
               THEN {k \in Conversation : k \in inFlight \/ ~(server[k] \subseteq sent[w].read)} ELSE {})

\* What w did is due on its own page and where it leads: not on the page of
\* what it removed, which nothing brings the user back to but the browser.
Settle(w) ==
    LET m == Of(w)
        ok == sent[w].at = "applied"
        next == IF Leaving(m, ok) THEN m.leads ELSE page
        left == Leaving(m, ok) /\ ~m.makes
        known == (IF left THEN {} ELSE AskedBy(m.on))
                   \cup (IF Leaving(m, ok) /\ m.leads # "outside" THEN AskedBy(m.leads) ELSE {})
    IN /\ sent[w].at \in {"applied", "failed"}
       /\ page # "outside"
       /\ sent' = [sent EXCEPT ![w] = [@ EXCEPT !.at = "done", !.before = Absent, !.read = {}]]
       /\ page' = next
       /\ visits' = IF next # page THEN visits + 1 ELSE visits
       /\ peeked' = IF next # page THEN {}
                    ELSE IF sent[w].kind = "removeSession" /\ ok THEN peeked \ Conversation
                    ELSE peeked
       /\ cache' = IF next # page THEN Opened(Settled(w, ok), next) ELSE Settled(w, ok)
       /\ overtaken' = overtaken \cup Overtakes(w, ok)
       /\ due' = IF ~ok THEN due
                 ELSE [k \in Keys |-> IF k \in m.writes \cap known
                                      THEN due[k] \cup {w} ELSE due[k]]
       /\ SettleForm(w, ok)
       /\ UNCHANGED <<site, server, fetches, failed>>

\* A full load forgets what was under way.
Load(p) ==
    /\ page = "outside" /\ visits < MaxVisits
    /\ page' = p /\ peeked' = {} /\ visits' = visits + 1
    /\ cache' = [k \in Keys |-> IF k \in Shown(p) THEN Asked(Empty) ELSE Empty]
    /\ sent' = [w \in Writes |-> IF Underway(w) THEN [NotSent EXCEPT !.at = "done"] ELSE sent[w]]
    /\ overtaken' = {} /\ failed' = {}
    /\ UNCHANGED <<site, server, fetches, due, formVars>>

ClientNext ==
    \/ \E p \in site \cap DOMAIN Pages : Visit(p) \/ Load(p)
    \/ \E k \in Keys : Peek(k) \/ Answer(k) \/ Arrive(k) \/ FetchFails(k) \/ Age(k)
    \/ \E f \in DOMAIN Forms : OpenForm(f)
    \/ FillForm \/ CloseForm
    \/ \E w \in Writes : \/ ShowAhead(w) \/ Apply(w) \/ MutationFails(w) \/ Settle(w)
                         \/ \E kind \in Pressable : Mutate(w, kind)

ClientSpec == ClientInit /\ [][ClientNext]_clientVars

-----------------------------------------------------------------------------
\* Once nothing is under way, what a page shows is what the API has, and has
\* every change made on that page or leading to it: the changes overlap, fail
\* after they were applied, and cross the fetches they stopped or asked for.
\* (Not what an older answer overtook, see overtaken, nor what failed to load.)
OutcomeIsShown ==
    \A k \in Watched \ (overtaken \cup failed) :
       LET settled == /\ cache[k].fetch = "none" /\ cache[k].shows # Absent
                      /\ \A w \in Writes : ~(Underway(w) /\ k \in Of(w).writes)
       IN settled => due[k] \subseteq cache[k].shows /\ cache[k].shows \subseteq server[k]

\* What was typed is the user's.  A form the client closes by itself is one that
\* was filed, or a mutation sent before it was opened succeeded, or the user
\* had pressed beside it what leads elsewhere.  (The assistant's input is emptied
\* at once; of a message that fails the text is lost, see emptied.)
FormsAreKept == dropped \subseteq filed \cup intruded \cup deserted \cup emptied
=============================================================================
