------------------------------- MODULE Pantry -------------------------------
(***************************************************************************)
(* The pantry: pantry.service.ts and pantry.util.ts.  An update reads the  *)
(* item, decides what to write and what to log, and writes both in one     *)
(* transaction; a photo scan creates its items one statement at a time,    *)
(* after the quota (see Quota) and the model's answer.                     *)
(***************************************************************************)
EXTENDS Platform, Units, Sequences, FiniteSets, FiniteSetsExt

CONSTANTS Items,         \* ids of pantry items
          NamesOf,       \* NamesOf[name]: the ingredient it resolves to, or Nothing
          Ingredients,
          Density,       \* Density[i], GramsPerPiece[i]: Nothing0 when unknown
          GramsPerPiece,
          Entries,       \* what a user may enter, [name, qty, unit]
          Changes,       \* what an update may ask, [qty, consumed, wasted], qty or Nothing
          ScanAnswers,   \* what the model may see: sequences of [named, guess], guess an entry
          MaxUpdates     \* updates begun, over all items

IsEntry(e) ==
    /\ e = [name |-> e.name, qty |-> e.qty, unit |-> e.unit]
    /\ e.name \in DOMAIN NamesOf /\ e.qty \in Int

ASSUME PantryAssumption ==
    /\ MaxUpdates \in Nat
    /\ \A e \in Entries : IsEntry(e) /\ e.qty >= 0
    /\ \A ask \in Changes :
          ask.qty \in Nat \cup {Nothing} /\ ask.consumed \in BOOLEAN /\ ask.wasted \in BOOLEAN
    /\ \A answer \in ScanAnswers :
          DOMAIN answer \subseteq Nat /\ \A k \in DOMAIN answer : IsEntry(answer[k].guess)
    /\ Items \cap (Handlers \cup {Nothing}) = {}

VARIABLES
    larder,     \* larder[i]: the row, or Nothing
    usage,      \* usage[i]: the log of the item, [action, delta] in order
    started,    \* history: started[i], the quantity it was created with
    edit,       \* edit[h]: the update under way, what it read and what it asks
    scanning,   \* scanning[h]: the answer and its positions still to create, or Nothing
    updates,    \* updates begun
    crossed     \* history: items two updates overlapped on

pantryVars == <<larder, usage, started, edit, scanning, updates, crossed>>

Row(u, e, source) ==
    [owner |-> u, ingredient |-> NamesOf[e.name], qty |-> e.qty, unit |-> e.unit,
     consumed |-> FALSE, wasted |-> FALSE, source |-> source]

NoEdit == [on |-> Nothing, read |-> Nothing, asks |-> Nothing]

Present == {i \in Items : larder[i] # Nothing}

\* list, getExpiring, getActiveItems: not consumed, not wasted.
Active(u) == {i \in Present : larder[i].owner = u /\ ~larder[i].consumed /\ ~larder[i].wasted}

PantryInit ==
    /\ larder = [i \in Items |-> Nothing]
    /\ usage = [i \in Items |-> <<>>]
    /\ started = [i \in Items |-> 0]
    /\ edit = [h \in Handlers |-> NoEdit]
    /\ scanning = [h \in Handlers |-> Nothing]
    /\ updates = 0 /\ crossed = {}

Put(i, row) ==
    /\ larder' = [larder EXCEPT ![i] = row]
    /\ started' = [started EXCEPT ![i] = row.qty]
    /\ usage' = [usage EXCEPT ![i] = <<>>]
    /\ crossed' = crossed \ {i}

FreeId(i) == i \notin Present /\ \A h \in Handlers : edit[h].on # i

CreateItem(u, e) ==
    /\ \E i \in {j \in Items : FreeId(j)} : Put(i, Row(u, e, "manual"))
    /\ UNCHANGED <<edit, scanning, updates>>

\* update, first statement: not found when it is not the caller's.
ReadItem(h, u, i, ask) ==
    /\ edit[h].on = Nothing /\ scanning[h] = Nothing /\ updates < MaxUpdates
    /\ i \in Present /\ larder[i].owner = u
    /\ edit' = [edit EXCEPT ![h] = [on |-> i, read |-> larder[i], asks |-> ask]]
    /\ crossed' = IF \E g \in Handlers : edit[g].on = i THEN crossed \cup {i} ELSE crossed
    /\ updates' = updates + 1
    /\ UNCHANGED <<larder, usage, started, scanning>>

\* What it logs, against what it read.
Adjusted(ask, read) ==
    IF ask.qty # Nothing /\ ask.qty # read.qty
    THEN <<[action |-> "adjusted", delta |-> ask.qty - read.qty]>> ELSE <<>>

\* Mutant: an item consumed already is consumed again.
EndedAgain(ask, read) ==
    LET entry(action) == <<[action |-> action, delta |-> -read.qty]>>
    IN  IF ask.wasted THEN entry("wasted") ELSE IF ask.consumed THEN entry("consumed") ELSE <<>>

Ended(ask, read) ==
    LET entry(action) == <<[action |-> action, delta |-> -read.qty]>>
    IN  IF ask.wasted /\ ~read.wasted THEN entry("wasted")
        ELSE IF ask.consumed /\ ~read.consumed THEN entry("consumed") ELSE <<>>

\* What it writes to the row as it is now.
Written(row, ask, read) ==
    LET ends == Ended(ask, read)
    IN  [row EXCEPT !.qty = IF Adjusted(ask, read) # <<>> THEN ask.qty ELSE @,
                    !.consumed = @ \/ ends # <<>>,
                    !.wasted = @ \/ (ends # <<>> /\ ends[1].action = "wasted")]

\* The transaction: the row and the log together; a row deleted meanwhile
\* aborts it.
CommitUpdate(h) ==
    LET i == edit[h].on
        ask == edit[h].asks
        read == edit[h].read
    IN /\ i # Nothing
       /\ IF i \in Present
          THEN /\ larder' = [larder EXCEPT ![i] = Written(@, ask, read)]
               /\ usage' = [usage EXCEPT ![i] = @ \o Adjusted(ask, read) \o Ended(ask, read)]
          ELSE UNCHANGED <<larder, usage>>
       /\ edit' = [edit EXCEPT ![h] = NoEdit]
       /\ UNCHANGED <<started, scanning, updates, crossed>>

\* The request ends before its transaction does.
UpdateLost(h) ==
    /\ edit[h].on # Nothing
    /\ edit' = [edit EXCEPT ![h] = NoEdit]
    /\ UNCHANGED <<larder, usage, started, scanning, updates, crossed>>

RemoveItem(u, i) ==
    /\ i \in Present /\ larder[i].owner = u
    /\ larder' = [larder EXCEPT ![i] = Nothing]
    /\ UNCHANGED <<usage, started, edit, scanning, updates, crossed>>

-----------------------------------------------------------------------------
\* The photo scan.

\* Items without a name are left out; a quantity that is not positive is one, a
\* unit that is none is "piece".
Recognized(answer) == {k \in DOMAIN answer : answer[k].named}

Guessed(item) ==
    [item.guess EXCEPT !.qty = IF @ > 0 THEN @ ELSE 1, !.unit = IF @ = Nothing THEN "piece" ELSE @]

ScanPhoto(h, u) ==
    /\ edit[h].on = Nothing /\ scanning[h] = Nothing /\ updates < MaxUpdates
    /\ \E answer \in ScanAnswers :
          /\ Recognized(answer) # {}
          /\ scanning' = [scanning EXCEPT ![h] =
                             [user |-> u, seen |-> answer, left |-> Recognized(answer)]]
    /\ updates' = updates + 1
    /\ UNCHANGED <<larder, usage, started, edit, crossed>>

CreateScanned(h) ==
    /\ scanning[h] # Nothing
    /\ LET s == scanning[h]
           rest == s.left \ {Min(s.left)}
           entry == Guessed(s.seen[Min(s.left)])
       IN /\ \E i \in {j \in Items : FreeId(j)} : Put(i, Row(s.user, entry, "scan"))
          /\ scanning' = [scanning EXCEPT ![h] = IF rest = {} THEN Nothing
                                                 ELSE [s EXCEPT !.left = rest]]
    /\ UNCHANGED <<edit, updates>>

\* What was created stays.
ScanBreaksOff(h) ==
    /\ scanning[h] # Nothing
    /\ scanning' = [scanning EXCEPT ![h] = Nothing]
    /\ UNCHANGED <<larder, usage, started, edit, updates, crossed>>

PantryNext ==
    \/ \E u \in Users, e \in Entries : CreateItem(u, e)
    \/ \E u \in Users, i \in Items : \/ RemoveItem(u, i)
                                     \/ \E h \in Handlers, ask \in Changes : ReadItem(h, u, i, ask)
    \/ \E h \in Handlers : \/ CommitUpdate(h) \/ UpdateLost(h)
                           \/ CreateScanned(h) \/ ScanBreaksOff(h)
                           \/ \E u \in Users : ScanPhoto(h, u)

PantrySpec == PantryInit /\ [][PantryNext]_pantryVars

-----------------------------------------------------------------------------
\* What other parts ask of the pantry.

Grams(i) ==
    LET g == larder[i].ingredient
        norm == ToCanonical(larder[i].qty, larder[i].unit, Density[g], GramsPerPiece[g])
    IN IF norm.unit \in {"g", "ml"} THEN norm.value ELSE 0

\* coverageForIngredients and computeCoverageGrams: milligrams at hand of each
\* ingredient, a millilitre counted as a gram, loose pieces as nothing.
Coverage(u) ==
    [g \in Ingredients |-> MapThenSumSet(Grams, {i \in Active(u) : larder[i].ingredient = g})]

-----------------------------------------------------------------------------
Logged(i, action) == {k \in DOMAIN usage[i] : usage[i][k].action = action}

\* pantry.service.ts:133: the usage log is the history of the item, although
\* its deltas are against what was read before the transaction: unless two
\* updates overlapped, the adjustments lead from the first quantity to the one
\* shown, and an item ends as consumed once and as wasted once at most, and only
\* if it shows so.
UsageAddsUp ==
    \A i \in Present \ crossed :
       LET Delta(k) == usage[i][k].delta IN
       /\ larder[i].qty = started[i] + MapThenSumSet(Delta, Logged(i, "adjusted"))
       /\ Cardinality(Logged(i, "wasted")) = (IF larder[i].wasted THEN 1 ELSE 0)
       /\ Cardinality(Logged(i, "consumed")) <= (IF larder[i].consumed THEN 1 ELSE 0)
=============================================================================
