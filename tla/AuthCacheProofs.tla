-------------------------- MODULE AuthCacheProofs --------------------------
(* Theorems about the cached user, for any number of users, validations    *)
(* and writers.                                                            *)
EXTENDS AuthCache, TLAPS

\* A handler past its first step works on a user.
Busy ==
    /\ \A v \in Validations : val[v].at # "idle" => val[v].user \in Users
    /\ \A w \in Writers : writer[w].at # "idle" => writer[w].user \in Users

CoherenceInv == TypeOK /\ Busy /\ CoherentUnlessDisturbed

LEMMA CoherenceInit == Init => CoherenceInv
BY ConstantsAssumption
   DEF Init, CoherenceInv, TypeOK, Busy, CoherentUnlessDisturbed, Version,
       Validation, Change, NoValidation, NoChange

LEMMA CoherenceStep == CoherenceInv /\ [Next]_vars => CoherenceInv'
<1> USE ConstantsAssumption
<1> SUFFICES ASSUME CoherenceInv, [Next]_vars PROVE CoherenceInv'
    OBVIOUS
<1> USE DEF CoherenceInv, TypeOK, Busy, CoherentUnlessDisturbed, Invalidating,
            Version, Validation, Change, NoValidation, NoChange, history
<1>1. ASSUME NEW v \in Validations, NEW u \in Users, Begin(v, u) PROVE CoherenceInv'
      BY <1>1 DEF Begin
<1>2. ASSUME NEW v \in Validations, Hit(v) PROVE CoherenceInv'
      BY <1>2 DEF Hit, Accept
<1>3. ASSUME NEW v \in Validations, Miss(v) PROVE CoherenceInv'
      BY <1>3 DEF Miss
<1>4. ASSUME NEW v \in Validations, Find(v) PROVE CoherenceInv'
      <2>1. val[v].user \in Users /\ row[val[v].user] \in Version
            BY <1>4 DEF Find
      <2>2. val' \in [Validations -> Validation]
            <3> DEFINE found == [val[v] EXCEPT !.at = "set", !.seen = row[val[v].user]]
            <3>1. val[v] \in Validation
                  OBVIOUS
            <3>2. found \in Validation
                  BY ONLY <3>1, <2>1 DEF Validation
            <3>3. val' = [val EXCEPT ![v] = found]
                  BY <1>4 DEF Find
            <3> QED BY <3>2, <3>3
      <2>3. TypeOK'
            BY <1>4, <2>2 DEF Find
      <2>4. Busy'
            BY <1>4, <2>1 DEF Find
      <2>5. CoherentUnlessDisturbed'
            BY <1>4 DEF Find
      <2> QED BY <2>3, <2>4, <2>5
<1>5. ASSUME NEW v \in Validations, Refuse(v) PROVE CoherenceInv'
      BY <1>5 DEF Refuse
<1>6. ASSUME NEW v \in Validations, Fill(v) PROVE CoherenceInv'
      BY <1>6 DEF Fill, Accept
<1>7. ASSUME NEW v \in Validations, FillFails(v) PROVE CoherenceInv'
      BY <1>7 DEF FillFails, Accept
<1>8. ASSUME NEW w \in Writers, NEW u \in Users, NEW kind \in {"update", "delete"},
             BeginChange(w, u, kind)
      PROVE  CoherenceInv'
      BY <1>8 DEF BeginChange
<1>9. ASSUME NEW w \in Writers, Write(w) PROVE CoherenceInv'
      BY <1>9 DEF Write
<1>10. ASSUME NEW w \in Writers, Invalidate(w) PROVE CoherenceInv'
      BY <1>10 DEF Invalidate
<1>11. ASSUME NEW w \in Writers, InvalidateFails(w) PROVE CoherenceInv'
      BY <1>11 DEF InvalidateFails
<1>12. ASSUME NEW w \in Writers, ChangeFails(w) PROVE CoherenceInv'
      BY <1>12 DEF ChangeFails
<1>13. ASSUME NEW u \in Users, Expire(u) PROVE CoherenceInv'
      BY <1>13 DEF Expire
<1>14. CASE UNCHANGED vars
      BY <1>14 DEF vars
<1> QED
    BY <1>1, <1>2, <1>3, <1>4, <1>5, <1>6, <1>7, <1>8, <1>9, <1>10, <1>11,
       <1>12, <1>13, <1>14
    DEF Next, Proceed, Finish

\* The cached copy of a user is well formed whatever fails and overlaps.
THEOREM TypeCorrect == Spec => []TypeOK
<1>1. CoherenceInv => TypeOK
      BY DEF CoherenceInv
<1> QED BY <1>1, CoherenceInit, CoherenceStep, PTL DEF Spec

\* Without lost deletions and overtaken fills, writing first and deleting the
\* entry afterwards leaves it outdated only until the deletion.
THEOREM Coherent == Spec => []CoherentUnlessDisturbed
<1>1. CoherenceInv => CoherentUnlessDisturbed
      BY DEF CoherenceInv
<1> QED BY <1>1, CoherenceInit, CoherenceStep, PTL DEF Spec
=============================================================================
