---------------------------- MODULE SessionStore ----------------------------
(* What the sessions of the accounts promise, each step at once.  A session *)
(* is a chain of tokens: it begins with a sign-in, goes on only from a token *)
(* that has ended and for whoever that was issued to, and ends token by      *)
(* token or with all the tokens of an account; what has ended stays so.      *)

CONSTANTS Tokens, Accounts, Nobody, NoToken

VARIABLES holder,   \* holder[t]: whose token t is, Nobody before it is issued
          heirOf,   \* heirOf[t]: the token that t goes on from
          over      \* the tokens that have ended

store == <<holder, heirOf, over>>

Issued == {t \in Tokens : holder[t] # Nobody}

Init ==
    /\ holder = [t \in Tokens |-> Nobody]
    /\ heirOf = [t \in Tokens |-> NoToken]
    /\ over = {}

Begin(t, a) ==
    /\ t \notin Issued
    /\ holder' = [holder EXCEPT ![t] = a]
    /\ UNCHANGED <<heirOf, over>>

GoOn(t, p) ==
    /\ t \notin Issued /\ p \in Issued \cap over
    /\ holder' = [holder EXCEPT ![t] = holder[p]]
    /\ heirOf' = [heirOf EXCEPT ![t] = p]
    /\ UNCHANGED over

End(t) ==
    /\ t \in Issued
    /\ over' = over \cup {t}
    /\ UNCHANGED <<holder, heirOf>>

EndAll(a) ==
    /\ over' = over \cup {t \in Tokens : holder[t] = a}
    /\ UNCHANGED <<holder, heirOf>>

Next ==
    \/ \E t \in Tokens : \/ End(t)
                         \/ \E a \in Accounts : Begin(t, a)
                         \/ \E p \in Tokens : GoOn(t, p)
    \/ \E a \in Accounts : EndAll(a)

Spec == Init /\ [][Next]_store
=============================================================================
