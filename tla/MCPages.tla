------------------------------ MODULE MCPages ------------------------------
(* The free tier and the pages of the web client: a behaviour is about the *)
(* counters behind QUOTA_EXCEEDED, or about what the pages keep of the     *)
(* API's answers (the counters' usage among them).                         *)
EXTENDS Quota, WebClient, TLC

CONSTANTS scan, chat

VARIABLE focus

\* Two kinds, one daily and one monthly, with a limit of two and one.
MCLimit == (scan :> 2) @@ (chat :> 1)

\* The pages a user keeps to: those that change what one another shows.
SomeSites ==
    {{"pantry"}, {"new", "recipes", "recipe"}, {"optimize", "baskets", "basket"},
     {"baskets", "basket", "analytics"}, {"plans", "plan"}, {"assistant"}, {"settings"},
     {"products", "product"}, {"dashboard", "topbar"}}

Symmetry == Permutations(Writes)

\* A mutation leads to another page.
Led == page # "outside" /\ sent' # sent

\* While it is about the counters, the page stays as it is; about the pages, two
\* mutations between two visits, or one and then a third visit; about the forms,
\* two forms and two mutations on one page whose answers were shown.
MCInit ==
    /\ focus \in {"counters", "pages", "returns", "forms"}
    /\ Init /\ ClientInit
    /\ focus = "counters" => site = {"settings"}

MCNext ==
    /\ UNCHANGED focus
    /\ \/ focus = "counters" /\ Next /\ UNCHANGED clientVars
       \/ /\ focus = "pages" /\ ClientNext /\ UNCHANGED vars
          /\ visits' \in {visits, 2} \/ Led
          /\ forms' < 2 /\ ~CloseForm
       \/ /\ focus = "returns" /\ ClientNext /\ UNCHANGED vars
          /\ forms' < 2 /\ ~CloseForm
          /\ \E w \in Writes : sent'[w].at = "none"
       \/ /\ focus = "forms" /\ ClientNext /\ UNCHANGED vars
          /\ visits' = visits \/ Led
          /\ fetches' = 0 /\ peeked' = {} /\ \A k \in Keys : cache'[k].fetch # "answered"

MCSpec == MCInit /\ [][MCNext]_<<focus, vars, clientVars>>
=============================================================================
