---------------------------- MODULE MCSessions ----------------------------
(* The sessions of the API, and of one browser signing in through the web  *)
(* server.  A behaviour is about one of the two: requests of the API among *)
(* each other, or the browser's requests that the API's handlers serve.    *)
EXTENDS WebSession, TLC

VARIABLE focus

Symmetry ==
    Permutations(RefreshTokens) \cup Permutations(ResetTokens)
        \cup Permutations(Requests)

ApiInit == focus = "api" /\ Init /\ WebInit
BrowserInit == focus = "browser" /\ Init /\ hasPassword = Users /\ WebInit

MCInit == ApiInit \/ BrowserInit

MCNext ==
    /\ UNCHANGED focus
    /\ \/ focus = "api" /\ Next /\ UNCHANGED webVars
       \/ focus = "browser" /\ WebNext

MCSpec == MCInit /\ [][MCNext]_<<vars, webVars, focus>>

\* The API alone.
ApiSpec == ApiInit /\ [][MCNext]_<<vars, webVars, focus>>
=============================================================================
