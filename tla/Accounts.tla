------------------------------ MODULE Accounts ------------------------------
(***************************************************************************)
(* Who an account belongs to: register, loginWithGoogle, verifyEmail and   *)
(* resendVerification of auth.service.ts and the row half of deleteAccount *)
(* of users.service.ts.  The sessions handed out at the end are Sessions'. *)
(* One action is one statement; the database keeps addresses and Google    *)
(* identities unique.                                                      *)
(***************************************************************************)
EXTENDS Platform, FiniteSets

CONSTANTS Accts,        \* ids of account rows
          Emails,
          GoogleIds,
          Links,        \* EMAIL_VERIFICATION tokens that may be minted
          MaxSignIns

\* A row of users and one of the verification tokens.
AccountRow ==
    [email : Emails \cup {Nothing}, google : GoogleIds \cup {Nothing}, password : BOOLEAN,
     verified : BOOLEAN, deleted : BOOLEAN]
LinkRow == [acct : Accts, used : BOOLEAN]

ASSUME AccountsAssumption ==
    /\ MaxSignIns \in Nat
    /\ Nothing \notin Accts \cup Emails \cup GoogleIds
    /\ Nothing \notin AccountRow \cup LinkRow

VARIABLES
    acct,       \* acct[a]: an AccountRow, or Nothing
    link,       \* link[k]: a LinkRow, or Nothing
    sign,       \* sign[h]: the request under way, [at, email, google, acct, link]
    signIns,    \* requests begun
    racing,     \* history: accounts two requests for a link overlapped on, and none
                \* has run alone since
    relinked,   \* history: accounts deleted between the look-up of a sign-in and its link
    proven,     \* history: accounts whose address a mail or Google has proved
    uses        \* history: uses[k], how often link k was used or put out of use

accountVars == <<acct, link, sign, signIns, racing, relinked, proven, uses>>

NoSign == [at |-> "idle", email |-> Nothing, google |-> Nothing, acct |-> Nothing,
           link |-> Nothing]

AccountInit ==
    /\ acct = [a \in Accts |-> Nothing]
    /\ link = [k \in Links |-> Nothing]
    /\ sign = [h \in Handlers |-> NoSign]
    /\ signIns = 0 /\ racing = {} /\ relinked = {} /\ proven = {}
    /\ uses = [k \in Links |-> 0]

AccountRows == {a \in Accts : acct[a] # Nothing}
ByEmail(e) == {a \in AccountRows : acct[a].email = e}
ByGoogle(g) == {a \in AccountRows : acct[a].google = g}
Outstanding(a) == {k \in Links : link[k] # Nothing /\ link[k].acct = a /\ ~link[k].used}
Minting(a) == {h \in Handlers : sign[h].acct = a /\ sign[h].at \in {"invalidate", "mint"}}

Enters(h, s) ==
    /\ sign[h].at = "idle" /\ signIns < MaxSignIns
    /\ sign' = [sign EXCEPT ![h] = s] /\ signIns' = signIns + 1
Goes(h, at) == sign' = [sign EXCEPT ![h].at = at]
Done(h) == sign' = [sign EXCEPT ![h] = NoSign]

-----------------------------------------------------------------------------
\* register: an address that is taken is a conflict, seen now or by the insert.
RegisterRead(h, e) ==
    /\ ByEmail(e) = {}
    /\ Enters(h, [NoSign EXCEPT !.at = "insert", !.email = e])
    /\ UNCHANGED <<acct, link, racing, relinked, proven, uses>>

RegisterInsert(h) ==
    LET e == sign[h].email IN
    /\ sign[h].at = "insert"
    /\ IF ByEmail(e) # {} THEN Done(h) /\ UNCHANGED acct
       ELSE \E a \in Accts \ AccountRows :
               /\ acct' = [acct EXCEPT ![a] = [email |-> e, google |-> Nothing, password |-> TRUE,
                                               verified |-> FALSE, deleted |-> FALSE]]
               /\ sign' = [sign EXCEPT ![h].at = "mint", ![h].acct = a]
    /\ UNCHANGED <<link, signIns, racing, relinked, proven, uses>>

\* createVerificationToken; the mail that follows never throws.
MintLink(h) ==
    /\ sign[h].at = "mint"
    /\ \E k \in Links : /\ link[k] = Nothing
                        /\ link' = [link EXCEPT ![k] = [acct |-> sign[h].acct, used |-> FALSE]]
    /\ Done(h)
    /\ UNCHANGED <<acct, signIns, racing, relinked, proven, uses>>

-----------------------------------------------------------------------------
\* loginWithGoogle, with an identity and an address Google vouches for.
GoogleRead(h, g, e) ==
    /\ ByGoogle(g) = {}
    /\ Enters(h, [NoSign EXCEPT !.at = "byEmail", !.google = g, !.email = e])
    /\ UNCHANGED <<acct, link, racing, relinked, proven, uses>>

GoogleByEmail(h) ==
    LET found == ByEmail(sign[h].email) IN
    /\ sign[h].at = "byEmail"
    /\ IF found = {} THEN Goes(h, "create")
       ELSE \E a \in found : IF acct[a].deleted THEN Done(h)
                             ELSE sign' = [sign EXCEPT ![h].at = "link", ![h].acct = a]
    /\ UNCHANGED <<acct, link, signIns, racing, relinked, proven, uses>>

\* The identity is linked to the account that was found and its address counts
\* as verified, whoever registered it: its password stays.  An identity another
\* row has meanwhile is an error.
GoogleLink(h) ==
    LET s == sign[h] IN
    /\ s.at = "link"
    /\ IF ByGoogle(s.google) \ {s.acct} # {} THEN UNCHANGED <<acct, relinked, proven>>
       ELSE /\ acct' = [acct EXCEPT ![s.acct] = [@ EXCEPT !.google = s.google, !.verified = TRUE]]
            /\ relinked' = IF acct[s.acct].deleted THEN relinked \cup {s.acct} ELSE relinked
            /\ proven' = IF acct[s.acct].email = s.email THEN proven \cup {s.acct} ELSE proven
    /\ Done(h)
    /\ UNCHANGED <<link, signIns, racing, uses>>

GoogleCreate(h) ==
    LET s == sign[h] IN
    /\ s.at = "create"
    /\ IF ByEmail(s.email) # {} \/ ByGoogle(s.google) # {} THEN UNCHANGED <<acct, proven>>
       ELSE \E a \in Accts \ AccountRows :
               /\ acct' = [acct EXCEPT ![a] = [email |-> s.email, google |-> s.google,
                                               password |-> FALSE, verified |-> TRUE,
                                               deleted |-> FALSE]]
               /\ proven' = proven \cup {a}
    /\ Done(h)
    /\ UNCHANGED <<link, signIns, racing, relinked, uses>>

-----------------------------------------------------------------------------
\* verifyEmail: look up, use up if still unused, mark the account.
VerifyRead(h, k) ==
    /\ link[k] # Nothing /\ ~link[k].used
    /\ Enters(h, [NoSign EXCEPT !.at = "use", !.acct = link[k].acct, !.link = k])
    /\ UNCHANGED <<acct, link, racing, relinked, proven, uses>>

\* What using up a link does: whoever has it has read the mail to its address.
UsesUp(h) ==
    LET k == sign[h].link IN
    /\ link' = [link EXCEPT ![k].used = TRUE]
    /\ proven' = proven \cup {link[k].acct}
    /\ uses' = [uses EXCEPT ![k] = @ + 1]
    /\ Goes(h, "verify")

\* Mutant: not on condition that it is unused still.
VerifyUseAnyway(h) ==
    /\ sign[h].at = "use"
    /\ UsesUp(h)
    /\ UNCHANGED <<acct, signIns, racing, relinked>>

VerifyUse(h) ==
    /\ sign[h].at = "use"
    /\ IF link[sign[h].link].used THEN Done(h) /\ UNCHANGED <<link, proven, uses>>
       ELSE UsesUp(h)
    /\ UNCHANGED <<acct, signIns, racing, relinked>>

VerifyMark(h) ==
    /\ sign[h].at = "verify"
    /\ acct' = [acct EXCEPT ![sign[h].acct].verified = TRUE]
    /\ Done(h)
    /\ UNCHANGED <<link, signIns, racing, relinked, proven, uses>>

\* resendVerification: for an account not yet verified.
ResendRead(h, a) ==
    /\ a \in AccountRows /\ ~acct[a].deleted /\ ~acct[a].verified
    /\ Enters(h, [NoSign EXCEPT !.at = "invalidate", !.acct = a])
    /\ racing' = IF Minting(a) # {} THEN racing \cup {a} ELSE racing
    /\ UNCHANGED <<acct, link, relinked, proven, uses>>

\* Every link of the account that is still good is put out of use.
InvalidateLinks(h) ==
    LET a == sign[h].acct IN
    /\ sign[h].at = "invalidate"
    /\ link' = [k \in Links |-> IF k \in Outstanding(a) THEN [link[k] EXCEPT !.used = TRUE]
                                ELSE link[k]]
    /\ uses' = [k \in Links |-> IF k \in Outstanding(a) THEN uses[k] + 1 ELSE uses[k]]
    /\ racing' = IF Minting(a) = {h} THEN racing \ {a} ELSE racing
    /\ Goes(h, "mint")
    /\ UNCHANGED <<acct, signIns, relinked, proven>>

\* deleteAccount: address, identity and password are given up.
Anonymize(a) ==
    /\ a \in AccountRows /\ ~acct[a].deleted
    /\ acct' = [acct EXCEPT ![a] = [@ EXCEPT !.deleted = TRUE, !.email = Nothing,
                                             !.google = Nothing, !.password = FALSE]]
    /\ UNCHANGED <<link, sign, signIns, racing, relinked, proven, uses>>

\* A statement fails or the process ends.
SignInFails(h) ==
    /\ sign[h].at # "idle"
    /\ Done(h)
    /\ UNCHANGED <<acct, link, signIns, racing, relinked, proven, uses>>

AccountNext ==
    \/ \E h \in Handlers :
          \/ \E e \in Emails : RegisterRead(h, e) \/ \E g \in GoogleIds : GoogleRead(h, g, e)
          \/ RegisterInsert(h) \/ MintLink(h) \/ GoogleByEmail(h) \/ GoogleLink(h)
          \/ GoogleCreate(h) \/ VerifyUse(h) \/ VerifyMark(h) \/ InvalidateLinks(h) \/ SignInFails(h)
          \/ \E k \in Links : VerifyRead(h, k)
          \/ \E a \in Accts : ResendRead(h, a)
    \/ \E a \in Accts : Anonymize(a)

AccountSpec == AccountInit /\ [][AccountNext]_accountVars

-----------------------------------------------------------------------------
\* auth.service.ts:258: of an account one verification link at most is good.
\* Requests to send one that overlap may leave several, but only until a request
\* has the account to itself again: that one puts all of them out of use.
OneLinkOutstanding ==
    \A a \in AccountRows \ racing : Cardinality(Outstanding(a)) <= 1

\* auth.service.ts:233: a link serves once, however many requests have read it
\* while it was good, and one that a later mail put out of use never does.
LinksServeOnce == \A k \in Links : uses[k] <= 1

\* auth.service.ts:177, 240: an account that counts as verified, or that has a
\* Google identity, is one whose very address was proved, by a link mailed to it
\* or by Google, however long before the row was written that was.
AddressIsProven ==
    \A a \in AccountRows \ proven :
        ~acct[a].deleted => ~acct[a].verified /\ acct[a].google = Nothing

\* users.service.ts:62: a deleted account keeps no identity, so its owner can
\* come back with a new one, unless a sign-in had looked the account up before
\* the deletion and linked it afterwards.
DeletedIsUnlinked ==
    \A a \in AccountRows \ relinked : acct[a].deleted => acct[a].google = Nothing

\* auth.service.ts, users.service.ts: whoever comes to an account through its
\* address has proved the address, with a link that serves once and alone; a
\* deleted account has let its identity go.  Not claimed: that the one who
\* proved the address is the one who registered it and has its password.
IdentitiesAreOwn ==
    OneLinkOutstanding /\ LinksServeOnce /\ AddressIsProven /\ DeletedIsUnlinked
=============================================================================
