---------------------------- MODULE MCBackground ----------------------------
(* The work of the queues: scans for alerts, imports with the search index *)
(* and product matching, receipts.  Each behaviour is about one of them    *)
(* (focus); the others stay as they start.  Platform's users, processes    *)
(* and products are the same for all.                                      *)
EXTENDS AlertScans, Catalogue, Receipts, TLC

CONSTANTS p1, p2, r1, r2

VARIABLE focus

\* Ten cents a week ago: eight now is a drop of more than a tenth.
TenAWeekAgo == [p \in Products |-> 10]

\* Two rows that carry one external id under two names, and an approval of the
\* first name; and a feed of no rows.
TwoRowsOrNone ==
    [r \in Imports |-> IF r = r1 THEN <<[name |-> "milk", ext |-> "e1", price |-> 10],
                                        [name |-> "rice", ext |-> "e1", price |-> 20]>>
                       ELSE <<>>]
SomeApprovals == {[name |-> "milk", ext |-> Nothing, price |-> c] : c \in {30, 40}}
Nearest == [n \in {"milk", "rice"} |->
               IF n = "milk" THEN {[id |-> "i1", sim |-> 60], [id |-> "i2", sim |-> 40]}
               ELSE {[id |-> "i2", sim |-> 45]}]

\* A receipt with a line that is none and one too dear, one of no known store,
\* and what the vision model may say.
Item(n, q, c) == [name |-> n, quantity |-> q, priceCents |-> c, named |-> TRUE]
Line(m, t, z, i) ==
    [date |-> [day |-> 2, month |-> m, year |-> 26], total |-> t, noise |-> z, item |-> i]
Paper == [banners |-> {"GIANT", "PRIME"},
          lines |-> <<Line(13, Nothing, FALSE, Item("rice", 2, 5)),
                      Line(12, 5, FALSE, Item("total", 1, 5)),
                      Line(13, Nothing, TRUE, Item("cash", 1, 10)),
                      Line(13, Nothing, FALSE, Item("tv", 1, 60000))>>]
Scrap == [banners |-> {}, lines |-> <<Line(13, Nothing, FALSE, Item("rice", 1, 5))>>]
SomeTexts == {Paper, Scrap}
SomeReplies ==
    {[store |-> "FAIRPRICE", date |-> Nothing, total |-> 3,
      items |-> <<[Item("egg", 0, 3) EXCEPT !.named = FALSE], Item("egg", 0, 3)>>]}

-----------------------------------------------------------------------------
BackgroundInit ==
    /\ AlertInit /\ CatalogueInit /\ ReceiptInit
    /\ focus \in Kinds \cup {"import", "empty", "search", "receipt"}

\* One product is watched by one user who leaves what it is told unread; in the
\* other scans the users enable and disable their rule.
ScanStep ==
    /\ \A k \in Kinds \ {focus} : rules'[k] = {}
    /\ \A j \in jobs' : j.kind = focus
    /\ IF focus = "price-drop"
       THEN /\ rules'[focus] \subseteq {1} /\ watches' \subseteq {<<1, p1>>}
            /\ \A i \in DOMAIN notices' : ~notices'[i].read
       ELSE watches' = {} /\ UNCHANGED latest /\ hour' = 0

\* An import beside an approval; an import of no rows; two approvals, one after the
\* other, beside the search index.
CatalogueStep ==
    \/ focus = "import" /\ ImportNext /\ applied' <= 1 /\ importRun'[r2] = NoImport
       /\ \A h \in Handlers : task'[h].rows # <<>> => Head(task'[h].rows).price # 40
    \/ focus = "empty" /\ ImportNext /\ applied' = 0 /\ importRun'[r1] = NoImport
    \/ /\ focus = "search" /\ CatalogueNext /\ UNCHANGED <<importRun, importJob, embedding, matches>>
       /\ Cardinality({k \in Importers : task'[k].at # "idle"}) <= 1

BackgroundNext ==
    /\ UNCHANGED focus
    /\ \/ focus \in Kinds /\ AlertNext /\ ScanStep /\ UNCHANGED <<catalogueVars, receiptVars>>
       \/ CatalogueStep /\ UNCHANGED <<alertVars, receiptVars>>
       \/ focus = "receipt" /\ ReceiptNext /\ UNCHANGED <<alertVars, catalogueVars>>

BackgroundSpec ==
    BackgroundInit /\ [][BackgroundNext]_<<focus, alertVars, catalogueVars, receiptVars>>

Symmetry == Permutations(Workers) \cup Permutations(Handlers)

=============================================================================
