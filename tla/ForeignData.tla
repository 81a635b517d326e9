---------------------------- MODULE ForeignData ----------------------------
(***************************************************************************)
(* Reading what others wrote: records of a price file (row-mapper.ts and   *)
(* the adapters), ingredient lines (normalization.service.ts) and recipe   *)
(* pages (recipe-extraction.ts), with the prices per unit and per          *)
(* requirement that are made of an accepted row.  Text is taken after the  *)
(* regular expressions have cut it: a cell has the number and the size it  *)
(* reads as, a line is a sequence of tokens, a page a sequence of nodes.   *)
(*                                                                         *)
(* Numbers of cells are in hundredths, those of lines in thousandths.      *)
(***************************************************************************)
EXTENDS Units, Sequences, FiniteSets, SequencesExt

CONSTANTS Files,        \* [kind, wrapped, records]: what may be imported
          WrittenLines, \* sequences of tokens
          Pages,        \* sequences of JSON-LD blocks
          PageNodes,    \* the nodes of pages
          Nesting,      \* how deep nodes and sections are nested at most
          Needs         \* grams a comparison may ask for, in milligrams

\* A number that asNumber gives; a size that the expressions of parseSizeString
\* cut out has no sign.
ASSUME FilesAssumption ==
    /\ Needs \subseteq Int
    /\ \A f \in Files : /\ f.records \in Seq(Range(f.records))
                        /\ \A k \in DOMAIN f.records : \A c \in DOMAIN f.records[k] :
                              LET cell == f.records[k][c]
                              IN /\ cell.num \in Int
                                 /\ cell.size # <<>> => cell.size[1] \in Int /\ cell.size[2] \in Nat

\* normalizeLine gives the empty name to an empty text only.
ASSUME LinesAssumption ==
    \A l \in WrittenLines : /\ l \in Seq(Range(l)) /\ l # <<>>
                            /\ \A k \in DOMAIN l : l[k].n \in Int

ASSUME PagesAssumption ==
    /\ Nesting \in Nat
    /\ \A n \in PageNodes : n.inside \in Seq(PageNodes)
    /\ \A p \in Pages : p \in Seq(Seq(PageNodes))

VARIABLES
    paper,      \* what came in: [kind, body]
    reading     \* what was made of it, or Unread

foreignVars == <<paper, reading>>

None == -1
Unread == [rows |-> <<>>, lines |-> <<>>, recipes |-> <<>>, done |-> FALSE]

ForeignInit ==
    /\ \/ \E f \in Files : paper = [kind |-> "file", body |-> f]
       \/ \E l \in WrittenLines : paper = [kind |-> "line", body |-> l]
       \/ \E p \in Pages : paper = [kind |-> "page", body |-> p]
    /\ reading = Unread

-----------------------------------------------------------------------------
(* Price rows.  A record maps normalized headers to cells: [num, size,     *)
(* yes], num and yes None where the cell is not a number or a truth value, *)
(* size [count, size, unit] where it reads as one.                         *)

Aliases ==
    [name |-> <<"name", "product", "product_name", "item", "item_name", "title",
                "description_name">>,
     priceDollars |-> <<"price", "price_sgd", "price_dollars", "unit_price", "selling_price",
                        "amount">>,
     priceCents |-> <<"price_cents", "pricecents", "cents">>,
     wasPriceDollars |-> <<"was_price", "original_price", "regular_price", "list_price">>,
     wasPriceCents |-> <<"was_price_cents", "original_price_cents">>,
     promoPriceDollars |-> <<"promo_price", "sale_price", "discount_price", "offer_price">>,
     isPromo |-> <<"is_promo", "promo", "on_sale", "is_on_promotion">>,
     packSize |-> <<"size", "pack_size", "packsize", "weight", "volume", "net_weight">>,
     packUnit |-> <<"unit", "pack_unit", "packunit", "uom", "size_unit", "weight_unit">>,
     unitCount |-> <<"unit_count", "count", "qty_per_pack", "multipack", "pack_count">>,
     qualityTier |-> <<"quality", "quality_tier", "tier">>]

\* The elements of s at the positions K, in their order.
Picked(s, K) ==
    [n \in 1..Cardinality(K) |-> s[CHOOSE k \in K : Cardinality({j \in K : j < k}) = n - 1]]

NoCell == [num |-> None, size |-> <<>>, yes |-> None, text |-> ""]

\* The first alias that has a cell that is not blank.
CellOf(record, field) ==
    LET names == Aliases[field]
        found == {k \in DOMAIN names : names[k] \in DOMAIN record}
    IN IF found = {} THEN NoCell
       ELSE record[names[CHOOSE k \in found : \A j \in found : k <= j]]

Half(a, b) == (2 * a + b) \div (2 * b)     \* Math.round(a / b)

CentsOf(record, cents, dollars) ==
    IF CellOf(record, cents).num # None THEN Half(CellOf(record, cents).num, 100)
    ELSE CellOf(record, dollars).num

\* Token to unit; what the map does not have is no unit.
UnitMap == [g |-> "g", gram |-> "g", kg |-> "kg", ml |-> "ml", ltr |-> "l", pc |-> "piece",
            each |-> "piece", pkt |-> "pack"]
MapPackUnit(token) == IF token \in DOMAIN UnitMap THEN UnitMap[token] ELSE ""

\* parseSizeString: what the expressions cut out, if the unit is known.
ParseSizeString(cell) ==
    IF cell.size # <<>> /\ MapPackUnit(cell.size[3]) # "" THEN cell.size ELSE <<>>

\* Size and unit columns, or a size that has its unit, or a bare number.
PackOf(record) ==
    LET size == CellOf(record, "packSize")
        unit == MapPackUnit(CellOf(record, "packUnit").text)
        count == CellOf(record, "unitCount").num
        parsed == ParseSizeString(size)
    IN CASE size.num > 0 /\ unit # "" -> [size |-> size.num, unit |-> unit, count |-> count]
         [] ~(size.num > 0 /\ unit # "") /\ parsed # <<>> ->
               [size |-> parsed[2], unit |-> MapPackUnit(parsed[3]),
                count |-> IF count = None THEN parsed[1] ELSE count]
         [] parsed = <<>> /\ size.num > 0 /\ unit = "" ->
               [size |-> size.num, unit |-> "piece", count |-> count]
         [] parsed = <<>> /\ size = NoCell /\ unit # "" ->
               [size |-> 100, unit |-> unit, count |-> count]
         [] OTHER -> [size |-> 100, unit |-> "piece", count |-> count]

\* Mutant: whatever stands in the promotion column is the price.
DiscountTaken(promo, price) == promo > 0

Discounted(promo, price) == promo > 0 /\ promo < price

IsMapped(record) ==
    CellOf(record, "name") # NoCell /\ CentsOf(record, "priceCents", "priceDollars") > 0

MapRecordToRow(record) ==
    LET listed == CentsOf(record, "priceCents", "priceDollars")
        promo == CellOf(record, "promoPriceDollars").num
        off == Discounted(promo, listed)
        price == IF off THEN promo ELSE listed
        was == IF off THEN listed ELSE CentsOf(record, "wasPriceCents", "wasPriceDollars")
        tier == Half(CellOf(record, "qualityTier").num, 100)
    IN [priceCents |-> price, wasPriceCents |-> was,
        isPromo |-> CellOf(record, "isPromo").yes = 1 \/ off \/ was > price,
        pack |-> PackOf(record),
        qualityTier |-> IF CellOf(record, "qualityTier") = NoCell THEN None
                        ELSE IF tier < 1 THEN 1 ELSE IF tier > 3 THEN 3 ELSE tier]

\* Rows that cannot be mapped are left out, by every adapter; a feed that has
\* no list of records is refused.
ParseFile(file) ==
    IF file.kind = "api" /\ ~file.wrapped THEN <<>>
    ELSE LET records == file.records
             kept == Picked(records, {k \in DOMAIN records : IsMapped(records[k])})
         IN [k \in DOMAIN kept |-> MapRecordToRow(kept[k])]

ReadFileRows ==
    /\ paper.kind = "file" /\ ~reading.done
    /\ reading' = [Unread EXCEPT !.rows = ParseFile(paper.body), !.done = TRUE]
    /\ UNCHANGED paper

\* The count a row is stored with; less than half a packet is none.
StoredCount(row) == IF row.pack.count > 0 THEN Half(row.pack.count, 100) ELSE 1

CanonicalPack(row, count) ==
    LET c == PackSizeToCanonical(row.pack.size, row.pack.unit, count)
    IN [value |-> c.value \div 100, unit |-> c.unit]

\* PriceNormalizationService.normalize of a stored row: cents per kilogram, litre
\* or piece, of whichever the pack is sold by.
NormalizePrice(row) ==
    LET c == CanonicalPack(row, IF StoredCount(row) > 0 THEN StoredCount(row) ELSE 1)
    IN IF row.pack.size <= 0 \/ c.value <= 0 THEN [of |-> "", cents |-> None]
       ELSE IF c.unit = "piece" THEN [of |-> "piece", cents |-> Half(row.priceCents * 1000, c.value)]
       ELSE [of |-> c.unit, cents |-> Half(row.priceCents * 1000000, c.value)]

\* PriceComparisonService.effectiveCostCents: packs enough for what is needed.
PackGrams(row, gramsPerPiece) ==
    LET c == CanonicalPack(row, StoredCount(row))
    IN IF c.unit \in {"g", "ml"} THEN c.value
       ELSE IF gramsPerPiece > 0 THEN c.value * gramsPerPiece ELSE None

PacksFor(row, need, gramsPerPiece) ==
    LET pack == PackGrams(row, gramsPerPiece)
    IN IF need <= 0 \/ pack <= 0 THEN 1 ELSE (need + pack - 1) \div pack

EffectiveCostCents(row, need, gramsPerPiece) ==
    PacksFor(row, need, gramsPerPiece) * row.priceCents

\* compare: cheapest first, the earlier of equals, six at most.
Cheaper(rows, i, j, need, gramsPerPiece) ==
    LET a == EffectiveCostCents(rows[i], need, gramsPerPiece)
        b == EffectiveCostCents(rows[j], need, gramsPerPiece)
    IN a < b \/ (a = b /\ i < j)

CompareRows(rows, need, gramsPerPiece) ==
    LET all == DOMAIN rows
        Rank(k) == Cardinality({j \in all : Cheaper(rows, j, k, need, gramsPerPiece)})
    IN [n \in {m \in 1..6 : m <= Len(rows)} |-> rows[CHOOSE k \in all : Rank(k) = n - 1]]

-----------------------------------------------------------------------------
(* Ingredient lines.  A token is [is, n, w]: "num" (fractions and mixed       *)
(* numbers are one), "to" (a dash or the word), "unit", "word", "desc" (a  *)
(* descriptor or a phrase that is stripped), "of", "comma", "note" (in     *)
(* parentheses), "optional", "marker".                                     *)

Reads(tokens, k, kinds) == k \in DOMAIN tokens /\ tokens[k].is \in kinds

SkipNotes(tokens) ==
    Picked(tokens, {k \in DOMAIN tokens : tokens[k].is \notin {"note", "marker"}})

\* In parentheses, after a comma, or in front.
IsOptional(tokens) ==
    \E k \in DOMAIN tokens :
       \/ tokens[k].is = "note" /\ tokens[k].w = "optional"
       \/ tokens[k].is = "optional" /\ (k = 1 \/ tokens[k - 1].is = "comma")

IsRange(ts) == Reads(ts, 1, {"num"}) /\ Reads(ts, 2, {"to"}) /\ Reads(ts, 3, {"num"})

\* Ranges to their midpoint.
Quantity(ts) ==
    IF IsRange(ts) THEN (ts[1].n + ts[3].n) \div 2 ELSE IF Reads(ts, 1, {"num"}) THEN ts[1].n ELSE None

AfterQuantity(ts) == IF IsRange(ts) THEN 4 ELSE IF Reads(ts, 1, {"num"}) THEN 2 ELSE 1

UnitOf(ts) ==
    LET k == AfterQuantity(ts)
    IN IF Quantity(ts) # None /\ Reads(ts, k, {"unit"}) THEN ts[k].w ELSE ""

\* What is left up to the first comma, without descriptors.
NameTokens(ts) ==
    LET afterUnit == AfterQuantity(ts) + (IF UnitOf(ts) # "" THEN 1 ELSE 0)
        from == IF Quantity(ts) # None /\ Reads(ts, afterUnit, {"of"}) THEN afterUnit + 1
                ELSE afterUnit
        rest == SubSeq(ts, from, Len(ts))
        commas == {k \in DOMAIN rest : rest[k].is = "comma"}
    IN Picked(rest, {k \in DOMAIN rest : /\ rest[k].is \notin {"desc", "optional"}
                                        /\ \A j \in commas : k < j})

\* A unit without a name is the name itself ("2 eggs"); a line without any is
\* its own name.
NormalizeLine(tokens) ==
    LET ts == SkipNotes(tokens)
        unit == UnitOf(ts)
        name == [k \in DOMAIN NameTokens(ts) |-> NameTokens(ts)[k].w]
    IN [quantity |-> Quantity(ts), optional |-> IsOptional(tokens),
        unit |-> IF name = <<>> /\ unit # "" /\ IsCountUnit(unit) THEN "piece" ELSE unit,
        name |-> IF name # <<>> THEN name ELSE IF unit # "" THEN <<unit>>
                 ELSE [k \in DOMAIN tokens |-> tokens[k].w]]

ReadLine ==
    /\ paper.kind = "line" /\ ~reading.done
    /\ reading' = [Unread EXCEPT !.lines = <<NormalizeLine(paper.body)>>, !.done = TRUE]
    /\ UNCHANGED paper

\* IngredientsService.toCanonicalQty: grams, or none for loose pieces.
ToCanonicalQty(line, density, gramsPerPiece) ==
    LET c == ToCanonical(line.quantity, IF line.unit = "" THEN "piece" ELSE line.unit,
                         density, gramsPerPiece)
    IN IF line.quantity <= 0 \/ c.unit = "piece" THEN None ELSE c.value

-----------------------------------------------------------------------------
(* Recipe pages.  A block is malformed (<<>>) or one node in a sequence; a *)
(* node is [recipe, title, yield, steps, lines, inside]: whether its type  *)
(* has Recipe, and the nodes of its graph and main entity.                 *)

\* extractYield: of numbers any that is positive, of words the first number up
\* to a hundred; two without.
ExtractYield(items) ==
    LET usable == Picked(items, {k \in DOMAIN items : items[k].n > 0 /\ (items[k].text => items[k].n <= 10000)})
    IN IF usable = <<>> THEN 2 ELSE Half(Head(usable).n, 100)

\* extractInstructions: sections are walked into, one level after the other.
OpenSections(steps) ==
    FlattenSeq([k \in DOMAIN steps |-> IF steps[k].is = "section" THEN steps[k].items
                                      ELSE <<steps[k]>>])

WalkSteps(steps) ==
    LET level[d \in 0..Nesting] == IF d = 0 THEN steps ELSE OpenSections(level[d - 1])
        flat == level[Nesting]
    IN FlattenSeq([k \in DOMAIN flat |-> IF flat[k].text THEN flat[k].items ELSE <<>>])

UpTo(s, n) == IF Len(s) <= n THEN s ELSE [k \in 1..n |-> s[k]]

MapRecipeNode(node) ==
    [title |-> IF node.title = "" THEN "Imported recipe" ELSE node.title,
     servings |-> ExtractYield(node.yield),
     instructions |-> UpTo(WalkSteps(node.steps), 50),
     lines |-> UpTo(Picked(node.lines, {k \in DOMAIN node.lines : node.lines[k] # ""}), 100)]

Usable(node) == node.recipe /\ MapRecipeNode(node).lines # <<>>

\* The first that found something.
FirstFound(found) ==
    LET some == {k \in DOMAIN found : found[k] # <<>>}
    IN IF some = {} THEN <<>> ELSE found[CHOOSE k \in some : \A j \in some : k <= j]

\* collectJsonLdCandidates, and the first usable of them: a node comes before
\* what is inside it, whatever the node itself is.
RecipeIn[d \in 0..Nesting] ==
    [node \in PageNodes |->
        IF Usable(node) THEN <<MapRecipeNode(node)>>
        ELSE IF d = 0 THEN <<>>
        ELSE FirstFound([k \in DOMAIN node.inside |-> RecipeIn[d - 1][node.inside[k]]])]

\* extractRecipeJsonLd: blocks in order, malformed ones skipped.
ExtractRecipe(blocks) ==
    FirstFound([k \in DOMAIN blocks |->
        FirstFound([j \in DOMAIN blocks[k] |-> RecipeIn[Nesting][blocks[k][j]]])])

ReadPage ==
    /\ paper.kind = "page" /\ ~reading.done
    /\ reading' = [Unread EXCEPT !.recipes = ExtractRecipe(paper.body), !.done = TRUE]
    /\ UNCHANGED paper

ForeignNext == ReadFileRows \/ ReadLine \/ ReadPage

ForeignSpec == ForeignInit /\ [][ForeignNext]_foreignVars

-----------------------------------------------------------------------------
\* row-mapper.ts:153: whichever columns a file has, an accepted row costs
\* something, says it is a promotion whenever a higher price is known, and is
\* priced by one unit at most; the packs a comparison counts are enough for
\* the need and one fewer is not.
RowsAreComparable ==
    \A k \in DOMAIN reading.rows :
       LET row == reading.rows[k] IN
       /\ row.priceCents > 0 /\ (row.wasPriceCents > row.priceCents => row.isPromo)
       /\ NormalizePrice(row).cents >= 0 \/ row.pack.size = 0
       /\ \A record \in {paper.body.records[j] : j \in DOMAIN paper.body.records} :
             MapRecordToRow(record) = row =>
                row.priceCents <= CentsOf(record, "priceCents", "priceDollars")
       /\ \A need \in Needs, grams \in {None, 50} :
             LET packs == PacksFor(row, need, grams)
                 pack == PackGrams(row, grams)
             IN pack > 0 => /\ packs * pack >= need
                            /\ (packs - 1) * pack < need \/ packs = 1
       /\ \A need \in Needs : LET shown == CompareRows(reading.rows, need, 50) IN
             \A i, j \in DOMAIN shown : i < j =>
                EffectiveCostCents(shown[i], need, 50) <= EffectiveCostCents(shown[j], need, 50)

\* normalization.service.ts:199 with ingredients.service.ts:99: every line has
\* a name and no word is lost before its first comma; an amount in grams is
\* known only where the line has a number, and a unit only behind one.
\* recipe-extraction.ts:217: a page gives a recipe only if it has ingredients.
ForeignTextIsRead ==
    /\ \A n \in DOMAIN reading.lines :
          LET line == reading.lines[n]
              words == {k \in DOMAIN paper.body : paper.body[k].is = "word"}
          IN /\ line.name # <<>>
             /\ line.unit # "" => line.quantity # None
             /\ ToCanonicalQty(line, None, 50) # None => line.quantity > 0
             /\ ~(\E k \in DOMAIN paper.body : paper.body[k].is = "comma") =>
                   \A k \in words : \E j \in DOMAIN line.name : line.name[j] = paper.body[k].w
    /\ \A n \in DOMAIN reading.recipes :
          /\ reading.recipes[n].lines # <<>>
          /\ Len(reading.recipes[n].instructions) <= 50

\* What comes from outside, files and pages and lines of text, is usable once
\* it is read: ingestion.service.ts:141, recipes.processor.ts:138.
ForeignDataIsUsable == RowsAreComparable /\ ForeignTextIsRead
=============================================================================
