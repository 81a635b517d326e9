----------------------------- MODULE Assistant -----------------------------
(***************************************************************************)
(* The chat assistant: assistant.service.ts, and toolLoop of               *)
(* openai.service.ts.  A chat stores the question, reads the last messages *)
(* of its session, lets the model call tools for some rounds and stores    *)
(* the reply.  Several chats may be under way in one session, and the      *)
(* session may be deleted under them.  The tools read the catalogue, the   *)
(* pantry and the baskets as they are when they are called.                *)
(***************************************************************************)
EXTENDS Baskets, Scoring

CONSTANTS Chats,          \* ids of sessions
          Context,        \* CONTEXT_MESSAGES
          ToolRounds,     \* MAX_TOOL_ROUNDS
          MaxQuestions,   \* messages sent, over all sessions
          ToolCalls,      \* what the model may call: [tool, about, limit]
          Shelf,          \* products, most similar first: [name, sim, store, live, priceCents]
          MatchedShelf,   \* MatchedShelf[i]: the products an ingredient matches, likewise
          Menu,           \* recipes, newest first: [id, owner, public, ready, lines, servings]
          MenuPrices,     \* [ingredient -> [pack, perKg]], see Scoring
          WeeklyBudget,   \* of each user, or Nothing
          BasketTotal,    \* what each basket costs with its delivery
          Substitutes     \* Substitutes[i]: sequence of substitutions

ASSUME AssistantAssumption ==
    /\ Context \in Nat \ {0} /\ ToolRounds \in Nat /\ MaxQuestions \in Nat
    /\ Nothing \notin Chats

VARIABLES
    chat,       \* chat[s]: [owner, log], log of [role, n]; or Nothing
    turn,       \* turn[h]: the message being answered, see NoTurn
    spentChats, \* spentChats[u]: units of AI_CHAT_MESSAGE consumed (see Quota)
    asked       \* messages sent; numbers them

assistantVars == <<chat, turn, spentChats, asked>>

\* A message as it sets out, before the model has seen it.
Turn(at, user, session, n) ==
    [at |-> at, user |-> user, session |-> session, n |-> n, context |-> <<>>, round |-> 0,
     results |-> {}, missed |-> 0]
NoTurn == Turn("idle", Nothing, Nothing, 0)

AssistantInit ==
    /\ chat = [s \in Chats |-> Nothing]
    /\ turn = [h \in Handlers |-> NoTurn]
    /\ spentChats = [u \in Users |-> 0]
    /\ asked = 0

-----------------------------------------------------------------------------
\* Tools: each returns rows, [owner, row]; the owner is Nothing for public ones.

\* The first n of some positions.
FirstOf(K, n) == {k \in K : Cardinality({j \in K : j < k}) < n}
Public(rows) == {[owner |-> Nothing, row |-> r] : r \in rows}

\* toolSearchProducts: the five most similar that are available, in a store if
\* one is asked for.
ToolSearchProducts(call) ==
    LET found == {k \in DOMAIN Shelf : /\ Shelf[k].live /\ Shelf[k].sim > 15
                                       /\ call.limit \in {Nothing, Shelf[k].store}}
    IN Public({Shelf[k] : k \in FirstOf(found, 5)})

\* toolCompareIngredientPrices: of each store the cheapest of the best forty.
ToolComparePrices(call) ==
    LET shelf == MatchedShelf[NamesOf[call.about]]
        priced == {p \in {shelf[k] : k \in FirstOf(DOMAIN shelf, 40)} : p.priceCents # Nothing}
    IN IF NamesOf[call.about] = Nothing THEN {}
       ELSE Public({p \in priced : \A q \in priced :
                        q.store = p.store => p.priceCents <= q.priceCents})

ToolGetPantry(u) == {[owner |-> larder[i].owner, row |-> i] : i \in Active(u)}

\* Mutant: the recipes of everybody.
MenuOfAll(u) == {k \in DOMAIN Menu : Menu[k].ready}

\* The recipes one may see, by their positions.
MenuOf(u) == {k \in DOMAIN Menu : Menu[k].ready /\ (Menu[k].public \/ Menu[k].owner = u)}

\* toolGetRecipes: of the newest 25 the first five within the cost.
WithinCost(u, call) ==
    {k \in FirstOf(MenuOf(u), 25) :
        call.limit = Nothing \/ CostPerServing(Menu[k], MenuPrices) <= call.limit}

ToolGetRecipes(u, call) ==
    {[owner |-> IF Menu[k].public THEN Nothing ELSE Menu[k].owner, row |-> Menu[k].id] :
        k \in FirstOf(WithinCost(u, call), 5)}

\* toolGetBudgetStatus: what the purchased baskets of the week leave.
ToolBudgetStatus(u) ==
    LET bought == {b \in Baskets : basket[b] # Nothing /\ basket[b].owner = u
                                   /\ basket[b].status = "PURCHASED"}
        Total(b) == BasketTotal[b]
    IN {[owner |-> u, row |-> IF WeeklyBudget[u] = Nothing THEN Nothing
                              ELSE WeeklyBudget[u] - MapThenSumSet(Total, bought)]}

ToolSubstitutions(call) ==
    LET known == Substitutes[NamesOf[call.about]]
    IN IF NamesOf[call.about] = Nothing THEN {}
       ELSE Public({known[k] : k \in FirstOf(DOMAIN known, 8)})

\* executeTool: an unknown tool, a missing argument and an error are answers too.
ExecuteTool(u, call) ==
    CASE call.tool = "search_products" /\ call.about # "" -> ToolSearchProducts(call)
      [] call.tool = "compare_ingredient_prices" /\ call.about # "" -> ToolComparePrices(call)
      [] call.tool = "get_pantry" -> ToolGetPantry(u)
      [] call.tool = "get_recipes" -> ToolGetRecipes(u, call)
      [] call.tool = "get_budget_status" -> ToolBudgetStatus(u)
      [] call.tool = "suggest_substitutions" /\ call.about # "" -> ToolSubstitutions(call)
      [] OTHER -> {}

-----------------------------------------------------------------------------
\* chat: the unit is consumed first (see Quota for how).
Chat(h, u, s) ==
    /\ turn[h].at = "idle" /\ asked < MaxQuestions
    /\ asked' = asked + 1
    /\ spentChats' = [spentChats EXCEPT ![u] = @ + 1]
    /\ turn' = [turn EXCEPT ![h] = Turn("session", u, s, asked + 1)]
    /\ UNCHANGED chat

Moved(t, at) == [t EXCEPT !.at = at]
Proceed(h, at) == turn' = [turn EXCEPT ![h] = Moved(@, at)]
Drop(h) == turn' = [turn EXCEPT ![h] = NoTurn]

\* findOrCreateSession.
FindOrCreateSession(h) ==
    LET t == turn[h] IN
    /\ t.at = "session"
    /\ IF t.session # Nothing
       THEN /\ IF chat[t.session] # Nothing /\ chat[t.session].owner = t.user
               THEN Proceed(h, "ask") ELSE Drop(h)
            /\ UNCHANGED chat
       ELSE \E s \in {c \in Chats : chat[c] = Nothing /\ \A k \in Handlers : turn[k].session # c} :
               /\ chat' = [chat EXCEPT ![s] = [owner |-> t.user, log |-> <<>>]]
               /\ turn' = [turn EXCEPT ![h] = Turn("ask", t.user, s, t.n)]
    /\ UNCHANGED <<spentChats, asked>>

Longer(c, message) == [owner |-> c.owner, log |-> Append(c.log, message)]
Overtaken(t) == [t EXCEPT !.missed = @ + 1]

\* A message is created; the session must still be there.
Store(h, role, next) ==
    LET t == turn[h] IN
    /\ IF chat[t.session] = Nothing THEN Drop(h) /\ UNCHANGED chat
       ELSE /\ chat' = [chat EXCEPT ![t.session] = Longer(@, [role |-> role, n |-> t.n])]
            /\ turn' = [k \in Handlers |->
                  IF k = h THEN Moved(t, next)
                  ELSE IF turn[k].session = t.session /\ turn[k].at = "history"
                  THEN Overtaken(turn[k]) ELSE turn[k]]
    /\ UNCHANGED <<spentChats, asked>>

AskQuestion(h) == turn[h].at = "ask" /\ Store(h, "user", "history")

LastOf(s, n) == IF Len(s) <= n THEN s ELSE SubSeq(s, Len(s) - n + 1, Len(s))

\* Newest first up to the limit, then turned round.
ContextOf(log) == LastOf(log, Context)

Shown(t) == IF chat[t.session] = Nothing THEN <<>> ELSE ContextOf(chat[t.session].log)
Informed(t) == [Moved(t, "model") EXCEPT !.context = Shown(t)]

ReadHistory(h) ==
    /\ turn[h].at = "history"
    /\ turn' = [turn EXCEPT ![h] = Informed(@)]
    /\ UNCHANGED <<chat, spentChats, asked>>

\* toolLoop: in each of its rounds the model may call tools, whose results are
\* handed back; after the last round it is asked without tools.
Handed(t, rows) == [[t EXCEPT !.round = @ + 1] EXCEPT !.results = @ \cup rows]

ModelCallsTool(h, call) ==
    /\ turn[h].at = "model" /\ turn[h].round < ToolRounds
    /\ turn' = [turn EXCEPT ![h] = Handed(@, ExecuteTool(turn[h].user, call))]
    /\ UNCHANGED <<chat, spentChats, asked>>

ModelReplies(h) ==
    /\ turn[h].at = "model"
    /\ Proceed(h, "reply")
    /\ UNCHANGED <<chat, spentChats, asked>>

StoreReply(h) == turn[h].at = "reply" /\ Store(h, "assistant", "touch")

\* The session's updatedAt; then what is returned is read.
TouchSession(h) ==
    /\ turn[h].at = "touch"
    /\ Drop(h)
    /\ UNCHANGED <<chat, spentChats, asked>>

\* A statement or the model fails, or the process ends: what was stored stays.
ChatFails(h) ==
    /\ turn[h].at # "idle"
    /\ Drop(h)
    /\ UNCHANGED <<chat, spentChats, asked>>

DeleteSession(u, s) ==
    /\ chat[s] # Nothing /\ chat[s].owner = u
    /\ chat' = [chat EXCEPT ![s] = Nothing]
    /\ UNCHANGED <<turn, spentChats, asked>>

AssistantNext ==
    \/ \E h \in Handlers, u \in Users, s \in Chats \cup {Nothing} : Chat(h, u, s)
    \/ \E h \in Handlers :
          \/ FindOrCreateSession(h) \/ AskQuestion(h) \/ ReadHistory(h)
          \/ \E call \in ToolCalls : ModelCallsTool(h, call)
          \/ ModelReplies(h) \/ StoreReply(h) \/ TouchSession(h) \/ ChatFails(h)
    \/ \E u \in Users, s \in Chats : DeleteSession(u, s)

\* Chats over a pantry and baskets that change.
AssistantSpec ==
    /\ PantryInit /\ BasketInit /\ AssistantInit
    /\ [][\/ PantryNext /\ UNCHANGED <<basketVars, assistantVars>>
          \/ BasketNext /\ UNCHANGED <<pantryVars, assistantVars>>
          \/ AssistantNext /\ UNCHANGED <<pantryVars, basketVars>>]_<<pantryVars, basketVars, assistantVars>>

-----------------------------------------------------------------------------
\* assistant.service.ts:62: what the model is given is the end of the talk and
\* has the question it is to answer, unless so many messages of other chats of
\* the session came between that the question is pushed out; or the session is
\* gone.
ModelSeesQuestion ==
    \A h \in Handlers : turn[h].at = "model" /\ turn[h].context # <<>> =>
       LET c == turn[h].context
           own == {k \in DOMAIN c : c[k] = [role |-> "user", n |-> turn[h].n]}
       IN /\ turn[h].missed < Context => own # {}
          /\ own # {} => \A k \in own : k = Len(c) - turn[h].missed

\* assistant.service.ts:94: whatever the model calls for, it is handed the rows
\* of the user who asks and public ones, also when two users chat at once; and
\* the reply goes to a session of that user.
GroundedInOwnData ==
    \A h \in Handlers : turn[h].at # "idle" =>
       /\ \A r \in turn[h].results : r.owner \in {turn[h].user, Nothing}
       /\ turn[h].at \notin {"session", "idle"} =>
             LET s == turn[h].session
             IN chat[s] # Nothing => chat[s].owner = turn[h].user

\* The questions stored in sessions of a user, by session and position.
QuestionsOf(u) ==
    {p \in Chats \X (1..(2 * MaxQuestions)) :
        /\ chat[p[1]] # Nothing /\ chat[p[1]].owner = u /\ p[2] \in DOMAIN chat[p[1]].log
        /\ chat[p[1]].log[p[2]].role = "user"}

\* assistant.service.ts:54: every question stored was paid for, and a reply
\* stands behind a question of its own, however chats break off.
RepliesArePaid ==
    /\ \A s \in Chats : chat[s] # Nothing =>
          \A k \in DOMAIN chat[s].log : chat[s].log[k].role = "assistant" =>
             \E j \in 1..(k - 1) : chat[s].log[j] = [role |-> "user", n |-> chat[s].log[k].n]
    /\ \A u \in Users : Cardinality(QuestionsOf(u)) <= spentChats[u]

\* assistant.service.ts:91: what the model is given, and what its answers rest on.
AnswersAreGrounded == ModelSeesQuestion /\ GroundedInOwnData /\ RepliesArePaid
=============================================================================
