----------------------------- MODULE WebSession -----------------------------
(***************************************************************************)
(* The session apps/web keeps for one browser: auth.ts (the cookie made at *)
(* sign-in and turned over by the jwt callback), lib/api.ts (the access    *)
(* token kept in the page for thirty seconds), middleware.ts and the       *)
(* sign-in and sign-out of the pages.  It is composed with Sessions: the   *)
(* exchange of a refresh token is the API handler of the same request.     *)
(*                                                                         *)
(* A visit is one request of the browser to the web server: it carries the *)
(* cookie of the moment it is sent, and its answer sets the cookie again   *)
(* whatever was set in between.  Time counts in units of 15 seconds; the   *)
(* life of an access token is shortened to Ttl units.                      *)
(***************************************************************************)
EXTENDS Sessions

CONSTANTS Ttl,       \* life of an access token
          MaxClock,  \* bounds the time that passes
          MaxSent,   \* bounds the requests sent
          NoCookie   \* not signed in, nothing cached

\* What the cookie holds, and what lib/api.ts keeps of it.
Errors == {"none", "RefreshTokenExpired", "OAuthExchangeFailed"}
CookieRow == [refresh : RefreshTokens \cup {NoToken}, until : Nat, error : Errors]
KeptRow == [until : Nat, error : Errors, fetchedAt : Nat]

ASSUME WebSessionAssumption ==
    /\ Ttl \in Nat /\ MaxClock \in Nat /\ MaxSent \in Nat
    /\ NoCookie \notin CookieRow /\ NoCookie \notin KeptRow

VARIABLES
    clock,
    cookie,      \* a CookieRow or NoCookie
    visit,       \* visit[r]: the request of the browser in flight as r
    tokenCache,  \* lib/api.ts: a KeptRow or NoCookie
    where,       \* the pages the browser shows: "app" or "login"
    trips,       \* requests sent so far
    late,        \* history: an expired access token was sent
    disturbed    \* history: an answer was lost, or overtook another

webVars == <<clock, cookie, visit, tokenCache, where, trips, late, disturbed>>

Skew == 2   \* 30 s before its end an access token counts as expired
Keep == 2   \* 30 s an access token is kept in the page
Lag == 2    \* the answer of the web server takes no longer: a bound on time

Away == [at |-> "none", for |-> "none", since |-> 0, carries |-> NoCookie, result |-> NoCookie, read |-> 0]

WebInit ==
    /\ clock = 0 /\ cookie = NoCookie /\ tokenCache = NoCookie /\ where = "login"
    /\ visit = [r \in Requests |-> Away]
    /\ trips = 0 /\ late = FALSE /\ disturbed = FALSE

\* Sent now, the token of c is refused though no error was reported.
ExpiredNow(c) == c # NoCookie /\ c.error = "none" /\ clock >= c.until

Ready(r) == visit[r].at = "none" /\ At(r, "idle")

Kept == /\ tokenCache # NoCookie
        /\ clock - tokenCache.fetchedAt < Keep

-----------------------------------------------------------------------------
\* The browser sends a request: a page, the session the provider watches, or
\* the session the API client asks for.

Send(r, for) ==
    /\ Ready(r) /\ trips < MaxSent
    /\ trips' = trips + 1
    /\ visit' = [visit EXCEPT ![r] = [Away EXCEPT !.at = "sent", !.for = for, !.carries = cookie,
                                                  !.since = IF for = "token" THEN clock ELSE 0]]
    /\ UNCHANGED <<vars, clock, cookie, tokenCache, where, late, disturbed>>

GetClientToken(r) == where = "app" /\ ~Kept /\ Send(r, "token")
WatchSession(r) == Send(r, "watch")
OpenPage(r) == Send(r, "page")

\* While the cached token is young it is sent without asking.
SendKept ==
    /\ where = "app" /\ Kept
    /\ late' = (late \/ ExpiredNow(tokenCache))
    /\ UNCHANGED <<vars, clock, cookie, visit, tokenCache, where, trips, disturbed>>

Answered(r, result) ==
    visit' = [visit EXCEPT ![r].at = "answered", ![r].result = result, ![r].read = clock]

StillValid(c) == c # NoCookie /\ clock < c.until - Skew

\* jwt callback: no cookie, a token that is good for a while yet, or a refresh.
Jwt(r) ==
    LET c == visit[r].carries IN
    /\ visit[r].at = "sent"
    /\ IF c = NoCookie \/ StillValid(c) THEN Answered(r, c)
       ELSE visit' = [visit EXCEPT ![r].at = "calling"]
    /\ UNCHANGED <<vars, clock, cookie, tokenCache, where, trips, late, disturbed>>

RefreshRead(r, t) ==
    /\ visit[r].at = "calling" /\ visit[r].carries.refresh = t
    /\ RotateRead(r, t)
    /\ visit' = [visit EXCEPT ![r].at = "waiting"]
    /\ UNCHANGED <<clock, cookie, tokenCache, where, trips, late, disturbed>>

\* Refused, or not answered: the API's handler goes on by itself.
RefreshFails(r) ==
    /\ visit[r].at \in {"calling", "waiting"} /\ visit[r].for # "sign-in"
    /\ Answered(r, [visit[r].carries EXCEPT !.error = "RefreshTokenExpired"])
    /\ UNCHANGED <<vars, clock, cookie, tokenCache, where, trips, late, disturbed>>

\* Mutant: only the access token is replaced.
RefreshedKeepingOld(r, t) ==
    [refresh |-> IF visit[r].carries = NoCookie THEN t ELSE visit[r].carries.refresh,
     until |-> clock + Ttl, error |-> "none"]

\* What packToken and refreshAccessToken make of the pair just issued.
Refreshed(r, t) == [refresh |-> t, until |-> clock + Ttl, error |-> "none"]

TokensIssued(r, t) ==
    /\ Issue(r, t)
    /\ IF visit[r].at = "waiting" THEN Answered(r, Refreshed(r, t)) ELSE UNCHANGED visit
    /\ UNCHANGED <<clock, cookie, tokenCache, where, trips, late, disturbed>>

\* Sign-in, with a password or with Google; it carries no session with it.
SignIn(r, u) ==
    /\ visit[r].at = "none" /\ where = "login" /\ trips < MaxSent
    /\ trips' = trips + 1
    /\ LoginRead(r, u) \/ GoogleLoginRead(r, u)
    /\ visit' = [visit EXCEPT ![r] = [Away EXCEPT !.at = "waiting", !.for = "sign-in"]]
    /\ UNCHANGED <<clock, cookie, tokenCache, where, late, disturbed>>

\* A password refused leaves the cookie; a failed exchange with Google signs
\* in without tokens.
SignInFails(r) ==
    /\ visit[r].for = "sign-in" /\ visit[r].at = "waiting"
    /\ \/ visit' = [visit EXCEPT ![r] = Away]
       \/ Answered(r, [refresh |-> NoToken, until |-> 0, error |-> "OAuthExchangeFailed"])
    /\ UNCHANGED <<vars, clock, cookie, tokenCache, where, trips, late, disturbed>>

\* Nothing is revoked at the API.
SignOut(r) ==
    /\ Ready(r) /\ where = "app" /\ trips < MaxSent
    /\ trips' = trips + 1
    /\ tokenCache' = NoCookie
    /\ visit' = [visit EXCEPT ![r] = [Away EXCEPT !.at = "answered", !.for = "sign-out",
                                                  !.carries = cookie, !.read = clock]]
    /\ UNCHANGED <<vars, clock, cookie, where, late, disturbed>>

\* Mutant: the time is taken when the answer is there.
CachedOnArrival(r, c) ==
    IF c = NoCookie THEN NoCookie ELSE [until |-> c.until, error |-> c.error, fetchedAt |-> clock]

\* getClientToken: the time is the one taken before the session was asked for.
Cached(r, c) ==
    IF c = NoCookie THEN NoCookie
    ELSE [until |-> c.until, error |-> c.error, fetchedAt |-> visit[r].since]

\* middleware.ts: signed in, and not known to be signed in no longer.
IsLoggedIn(c) == c # NoCookie /\ c.error # "RefreshTokenExpired"

\* The answer reaches the browser.  A page decides where it is, and a full
\* load of it forgets the token; the watcher signs out on a refused refresh;
\* the API client keeps the token and sends it.
Deliver(r) ==
    LET c == visit[r].result for == visit[r].for
        out == for = "sign-out" \/ (for = "watch" /\ c # NoCookie /\ ~IsLoggedIn(c))
    IN /\ visit[r].at = "answered"
       /\ cookie' = c
       /\ disturbed' = (disturbed \/ (for # "sign-in" /\ cookie # visit[r].carries))
       /\ visit' = [visit EXCEPT ![r] =
             IF out /\ for = "watch"
             THEN [Away EXCEPT !.at = "answered", !.for = "sign-out", !.carries = c, !.read = clock]
             ELSE Away]
       /\ tokenCache' \in CASE for = "token" -> {Cached(r, c)}
                            [] for = "page" -> {tokenCache, NoCookie}
                            [] for = "watch" /\ ~out -> {tokenCache}
                            [] OTHER -> {NoCookie}
       /\ where' = CASE for \in {"page", "sign-in"} -> IF IsLoggedIn(c) THEN "app" ELSE "login"
                     [] for = "sign-out" -> "login"
                     [] OTHER -> where
       /\ late' = (late \/ (for = "token" /\ ExpiredNow(c)))
       /\ UNCHANGED <<vars, clock, trips>>

\* The browser went away, or the connection did: no cookie is set.
Lose(r) ==
    /\ visit[r].at = "answered"
    /\ visit' = [visit EXCEPT ![r] = Away]
    /\ disturbed' = (disturbed \/ visit[r].result # visit[r].carries)
    /\ UNCHANGED <<vars, clock, cookie, tokenCache, where, trips, late>>

Tick ==
    /\ clock < MaxClock
    /\ \A r \in Requests : visit[r].at = "answered" => clock - visit[r].read < Lag
    /\ clock' = clock + 1
    /\ UNCHANGED <<vars, cookie, visit, tokenCache, where, trips, late, disturbed>>

\* The API's handler of a refresh goes on.
RefreshRevoke(r) == RotateRevoke(r) /\ UNCHANGED webVars

WebNext ==
    \/ \E r \in Requests :
          \/ GetClientToken(r) \/ WatchSession(r) \/ OpenPage(r) \/ Jwt(r) \/ RefreshFails(r)
          \/ RefreshRevoke(r) \/ SignInFails(r) \/ SignOut(r) \/ Deliver(r) \/ Lose(r)
          \/ \E t \in RefreshTokens : RefreshRead(r, t) \/ TokensIssued(r, t)
          \/ \E u \in Users : SignIn(r, u)
    \/ SendKept \/ Tick

WebSpec == Init /\ WebInit /\ [][WebNext]_<<vars, webVars>>

-----------------------------------------------------------------------------
\* An access token is not sent once it has expired, unless the session has
\* already said that it cannot be renewed: the page keeps a token for thirty
\* seconds from before it asked, and the server gives out none with less than
\* thirty seconds to live.  (Expired by the time the web server noted, which
\* is later than the API's by the time the answer to a refresh took.)
TokenSentIsUnexpired == ~late

\* As long as no two answers cross and none is lost, the cookie of a session
\* that reports no error holds the newest refresh token of its chain: it will
\* not be refused for having been exchanged before.
CookieIsCurrent ==
    \/ disturbed \/ cookie = NoCookie \/ cookie.error # "none"
    \/ \E r \in Requests : visit[r].at # "none" /\ visit[r].carries = cookie
    \/ \A t \in RefreshTokens : parent[t] # cookie.refresh
=============================================================================
