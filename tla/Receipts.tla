------------------------------ MODULE Receipts ------------------------------
(***************************************************************************)
(* Uploaded receipts: receipts.service.ts, the jobs it adds and            *)
(* receipts.processor.ts with receipt-parser.ts.                           *)
(*                                                                         *)
(* A job writes the row PROCESSING, asks the outside services for text and *)
(* lines, writes it COMPLETED and creates one price submission per line;   *)
(* every write is a statement of its own.  A line of text is abstracted to *)
(* what the parser's patterns find in it.                                  *)
(*                                                                         *)
(* External: BullMQ repeats a failed job up to Attempts times and starts a *)
(* job over whose worker went silent, at most ReceiptStalls times.         *)
(***************************************************************************)
EXTENDS Platform, Sequences, FiniteSets

CONSTANTS Receipts,
          Attempts,       \* attempts of the job options
          ReceiptStalls,  \* BullMQ's maxStalledCount
          Texts,          \* what OCR may return: [banners, lines]
          Replies         \* what the model may answer: [store, date, total, items]

ASSUME ReceiptsAssumption ==
    /\ Attempts \in Nat \ {0}
    /\ ReceiptStalls \in Nat
    /\ Nothing \notin Receipts

VARIABLES
    receipt,    \* receipt[r]: the row, [status, parsed]
    submitted,  \* submitted[r]: what each createMany for r inserted
    upload,     \* upload[h]: the receipt a request is about to enqueue
    queued,     \* queued[r]: BullMQ's record of the job
    work,       \* work[w]: where worker w stands
    hurt        \* history: receipts whose upload or worker broke off

receiptVars == <<receipt, submitted, upload, queued, work, hurt>>

-----------------------------------------------------------------------------
\* The parser.

\* STORE_KEYWORDS in the order they are tried.
StoreOrder == <<"FAIRPRICE", "SHENG_SIONG", "COLD_STORAGE", "GIANT", "PRIME", "REDMART",
                "AMAZON_FRESH">>

DetectStore(banners) ==
    LET found == {k \in DOMAIN StoreOrder : StoreOrder[k] \in banners}
    IN IF found = {} THEN Nothing
       ELSE StoreOrder[CHOOSE k \in found : \A l \in found : k <= l]

\* A line that is neither a total nor a payment, with a plausible price and name.
IsItem(line) ==
    /\ line.total = Nothing
    /\ ~line.noise
    /\ line.item # Nothing
    /\ line.item.priceCents \in 1..50000

\* A date as matched: two-digit years are of this century; an impossible one is
\* no date, and the next line is tried.
NormalizeDate(d) ==
    LET year == IF d.year < 100 THEN d.year + 2000 ELSE d.year
    IN IF d.month \in 1..12 /\ d.day \in 1..31 /\ year \in 2000..2100
       THEN [d EXCEPT !.year = year] ELSE Nothing

\* The first line with a date, and the last one with a total.
ReceiptDate(lines) ==
    LET dated == {k \in DOMAIN lines : lines[k].date # Nothing /\ NormalizeDate(lines[k].date) # Nothing}
    IN IF dated = {} THEN Nothing
       ELSE NormalizeDate(lines[CHOOSE k \in dated : \A l \in dated : k <= l].date)

TotalCents(lines) ==
    LET totals == {k \in DOMAIN lines : lines[k].total # Nothing}
    IN IF totals = {} THEN Nothing
       ELSE lines[CHOOSE k \in totals : \A l \in totals : l <= k].total

ParseReceiptText(text) ==
    LET kept == SelectSeq(text.lines, IsItem)
    IN [store |-> DetectStore(text.banners),
        date |-> ReceiptDate(text.lines),
        total |-> TotalCents(text.lines),
        items |-> [k \in DOMAIN kept |-> kept[k].item]]

\* Of what either way of reading returns, only these lines are kept.
IsClean(item) == item.named /\ item.priceCents > 0

Clean(parsed) == [parsed EXCEPT !.items = SelectSeq(@, IsClean)]

\* Math.round of the line price by the quantity, at least one cent.
UnitPrice(item) ==
    LET q == IF item.quantity = 0 THEN 1 ELSE item.quantity
        rounded == (2 * item.priceCents + q) \div (2 * q)
    IN IF rounded < 1 THEN 1 ELSE rounded

Submission(item) == [name |-> item.name, priceCents |-> UnitPrice(item)]

Rows(parsed) == [k \in DOMAIN parsed.items |-> Submission(parsed.items[k])]

\* The model's answer if it is one, the parser's result otherwise.
Extractions(text) == {Clean(ParseReceiptText(text))} \cup {Clean(a) : a \in Replies}

-----------------------------------------------------------------------------
NoRow == [status |-> "none", parsed |-> Nothing]
NoJob == [state |-> "none", made |-> 0, stalls |-> 0, owner |-> Nothing]
Off == [at |-> "idle", on |-> Nothing, parsed |-> Nothing]

Step(w, at) == work' = [work EXCEPT ![w].at = at]
Leave(w) == work' = [work EXCEPT ![w] = Off]

ReceiptInit ==
    /\ receipt = [r \in Receipts |-> NoRow]
    /\ submitted = [r \in Receipts |-> <<>>]
    /\ upload = [h \in Handlers |-> Nothing]
    /\ queued = [r \in Receipts |-> NoJob]
    /\ work = [w \in Workers |-> Off]
    /\ hurt = {}

\* The image is stored and the row created; a refusal before leaves nothing.
CreateReceipt(h, r) ==
    /\ upload[h] = Nothing
    /\ receipt[r].status = "none"
    /\ receipt' = [receipt EXCEPT ![r].status = "UPLOADED"]
    /\ upload' = [upload EXCEPT ![h] = r]
    /\ UNCHANGED <<submitted, queued, work, hurt>>

AddReceiptJob(h) ==
    /\ upload[h] # Nothing
    /\ queued' = [queued EXCEPT ![upload[h]] = [NoJob EXCEPT !.state = "waiting"]]
    /\ upload' = [upload EXCEPT ![h] = Nothing]
    /\ UNCHANGED <<receipt, submitted, work, hurt>>

\* The queue is out of reach, or the process ends.
UploadFails(h) ==
    /\ upload[h] # Nothing
    /\ hurt' = hurt \cup {upload[h]}
    /\ upload' = [upload EXCEPT ![h] = Nothing]
    /\ UNCHANGED <<receipt, submitted, queued, work>>

-----------------------------------------------------------------------------
\* The processor.

StartReceipt(w, r) ==
    /\ work[w].at = "idle"
    /\ queued[r].state = "waiting"
    /\ queued' = [queued EXCEPT ![r] = [@ EXCEPT !.state = "active", !.owner = w]]
    /\ work' = [work EXCEPT ![w] = [at |-> "mark", on |-> r, parsed |-> Nothing]]
    /\ UNCHANGED <<receipt, submitted, upload, hurt>>

MarkProcessing(w) ==
    /\ work[w].at = "mark"
    /\ receipt' = [receipt EXCEPT ![work[w].on].status = "PROCESSING"]
    /\ Step(w, "extract")
    /\ UNCHANGED <<submitted, upload, queued, hurt>>

\* Image, OCR and the extraction from its text.
Extract(w) ==
    /\ work[w].at = "extract"
    /\ \E text \in Texts : \E parsed \in Extractions(text) :
          work' = [work EXCEPT ![w] = [@ EXCEPT !.at = "complete", !.parsed = parsed]]
    /\ UNCHANGED <<receipt, submitted, upload, queued, hurt>>

Complete(w) ==
    /\ work[w].at = "complete"
    /\ receipt' = [receipt EXCEPT ![work[w].on] =
                      [status |-> "COMPLETED", parsed |-> work[w].parsed]]
    /\ Step(w, "submit")
    /\ UNCHANGED <<submitted, upload, queued, hurt>>

\* Mutant: submissions without a store as well.
AnyLines(parsed) == Len(parsed.items) > 0

Worthwhile(parsed) == parsed.store # Nothing /\ parsed.items # <<>>

Submit(w) ==
    /\ work[w].at = "submit"
    /\ submitted' = IF Worthwhile(work[w].parsed)
                    THEN [submitted EXCEPT ![work[w].on] = Append(@, Rows(work[w].parsed))]
                    ELSE submitted
    /\ Step(w, "end")
    /\ UNCHANGED <<receipt, upload, queued, hurt>>

IsFinal(r) == queued[r].made + 1 >= Attempts

\* A statement or service fails; the last attempt goes on to say so in the row.
ProcessFails(w) ==
    /\ work[w].at \in {"mark", "extract", "complete", "submit"}
    /\ Step(w, IF IsFinal(work[w].on) THEN "give up" ELSE "throw")
    /\ UNCHANGED <<receipt, submitted, upload, queued, hurt>>

MarkFailed(w) ==
    /\ work[w].at = "give up"
    /\ receipt' = [receipt EXCEPT ![work[w].on].status = "FAILED"]
    /\ Step(w, "throw")
    /\ UNCHANGED <<submitted, upload, queued, hurt>>

\* The database refuses even that.
MarkFailedFails(w) ==
    /\ work[w].at = "give up"
    /\ hurt' = hurt \cup {work[w].on}
    /\ Step(w, "throw")
    /\ UNCHANGED <<receipt, submitted, upload, queued>>

\* BullMQ hears the outcome, if the job is still w's.
Outcome(w) ==
    LET r == work[w].on
        mine == queued[r].owner = w
        again == work[w].at = "throw" /\ queued[r].made + 1 < Attempts
    IN /\ work[w].at \in {"end", "throw"}
       /\ queued' = IF ~mine THEN queued
                    ELSE [queued EXCEPT ![r] =
                            [queued[r] EXCEPT !.state = IF again THEN "waiting" ELSE "ended",
                                              !.made = IF again THEN @ + 1 ELSE @,
                                              !.owner = Nothing]]
       /\ Leave(w)
       /\ UNCHANGED <<receipt, submitted, upload, hurt>>

\* The lock of the job runs out.  Dead, the worker leaves everything where it
\* is; slow, it goes on beside the new start.
LockLost(w, dead) ==
    LET r == work[w].on IN
    /\ work[w].at # "idle"
    /\ dead \/ queued[r].owner = w
    /\ queued' = IF queued[r].owner # w THEN queued
                 ELSE [queued EXCEPT ![r] =
                         [queued[r] EXCEPT
                            !.state = IF @ = "active" /\ queued[r].stalls < ReceiptStalls
                                      THEN "waiting" ELSE "ended",
                            !.stalls = IF @ < ReceiptStalls THEN @ + 1 ELSE @,
                            !.owner = Nothing]]
    /\ hurt' = hurt \cup {r}
    /\ IF dead THEN Leave(w) ELSE UNCHANGED work
    /\ UNCHANGED <<receipt, submitted, upload>>

ReceiptNext ==
    \/ \E h \in Handlers : \/ \E r \in Receipts : CreateReceipt(h, r)
                           \/ AddReceiptJob(h) \/ UploadFails(h)
    \/ \E w \in Workers :
          \/ \E r \in Receipts : StartReceipt(w, r)
          \/ MarkProcessing(w) \/ Extract(w) \/ Complete(w) \/ Submit(w)
          \/ ProcessFails(w) \/ MarkFailed(w) \/ MarkFailedFails(w) \/ Outcome(w)
          \/ \E dead \in BOOLEAN : LockLost(w, dead)

ReceiptSpec == ReceiptInit /\ [][ReceiptNext]_receiptVars

-----------------------------------------------------------------------------
\* receipts.processor.ts:112 and 139, over all attempts: once the queue has done
\* with a receipt, a COMPLETED one has submitted the lines it shows exactly
\* once, at their unit prices, if a store was recognised; a FAILED one has
\* submitted nothing; and it is one of both, unless its upload or a worker
\* broke off.
LinesCountOnce ==
    \A r \in Receipts \ hurt : queued[r].state = "ended" =>
        \/ /\ receipt[r].status = "COMPLETED"
           /\ submitted[r] = IF receipt[r].parsed.store = Nothing \/ receipt[r].parsed.items = <<>>
                             THEN <<>> ELSE <<Rows(receipt[r].parsed)>>
        \/ receipt[r].status = "FAILED" /\ submitted[r] = <<>>
=============================================================================
