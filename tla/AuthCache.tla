----------------------------- MODULE AuthCache -----------------------------
(***************************************************************************)
(* The user every authenticated request runs as: JwtStrategy.validate      *)
(* reads it through a Redis entry with a TTL, and everything that changes  *)
(* a user or a subscription writes the row first and deletes the entry     *)
(* afterwards, logging and ignoring a failed deletion.                     *)
(*                                                                         *)
(* What is cached (e-mail, role, tier) is abstracted to a version number   *)
(* of the row.  Validations and writers are cut at their awaits.           *)
(***************************************************************************)
EXTENDS Naturals

CONSTANTS Users,
          Validations,   \* requests that can be authenticating at once
          Writers,       \* handlers that can be changing users at once
          MaxVersion,    \* bound on the writes to one user's row
          NoEntry,       \* no Redis entry
          Nobody         \* no user at hand

ASSUME ConstantsAssumption ==
    /\ MaxVersion \in Nat
    /\ NoEntry \notin Nat
    /\ Nobody \notin Users

VARIABLES
    row,        \* row[u]: version of the user's row and subscription tier
    deleted,    \* users with deletedAt set
    cache,      \* cache[u]: version held by authuser:<u>, or NoEntry
    val,        \* val[v]: the validation in flight as v
    writer,     \* writer[w]: the change in flight as w
    disturbed,  \* history: a fill overtaken by a write, or a lost deletion
    purged,     \* history: users whose deleteAccount has run to its end
    late        \* history: validations begun after that, and accepted

vars == <<row, deleted, cache, val, writer, disturbed, purged, late>>
history == <<disturbed, purged, late>>

-----------------------------------------------------------------------------
Version == 0..MaxVersion

\* started: whether the user was already purged when the validation began.
Validation == [at : {"idle", "get", "find", "set"}, user : Users \cup {Nobody},
               seen : Version, started : BOOLEAN]
Change == [at : {"idle", "write", "invalidate"}, user : Users \cup {Nobody},
           kind : {"update", "delete"}]

NoValidation == [at |-> "idle", user |-> Nobody, seen |-> 0, started |-> FALSE]
NoChange == [at |-> "idle", user |-> Nobody, kind |-> "update"]

Init ==
    /\ row = [u \in Users |-> 0]
    /\ deleted = {}
    /\ cache = [u \in Users |-> NoEntry]
    /\ val = [v \in Validations |-> NoValidation]
    /\ writer = [w \in Writers |-> NoChange]
    /\ disturbed = {}
    /\ purged = {}
    /\ late = {}

-----------------------------------------------------------------------------
(* JwtStrategy.validate.                                                   *)

\* A bearer token names its user for as long as it is not expired, which may
\* be after the user has been deleted.
Begin(v, u) ==
    /\ val[v].at = "idle"
    /\ val' = [val EXCEPT ![v] = [at |-> "get", user |-> u, seen |-> 0,
                                  started |-> u \in purged]]
    /\ UNCHANGED <<row, deleted, cache, writer, history>>

\* The validation v ends and its request runs as the user.
Accept(v) ==
    /\ late' = IF val[v].started THEN late \cup {val[v].user} ELSE late
    /\ val' = [val EXCEPT ![v] = NoValidation]

Hit(v) ==
    /\ val[v].at = "get"
    /\ cache[val[v].user] # NoEntry
    /\ Accept(v)
    /\ UNCHANGED <<row, deleted, cache, writer, disturbed, purged>>

\* No entry, or Redis did not answer: the database is asked.
Miss(v) ==
    /\ val[v].at = "get"
    /\ val' = [val EXCEPT ![v].at = "find"]
    /\ UNCHANGED <<row, deleted, cache, writer, history>>

\* The row is there and the account active.
Find(v) ==
    /\ val[v].at = "find"
    /\ val[v].user \notin deleted
    /\ val' = [val EXCEPT ![v] = [@ EXCEPT !.at = "set", !.seen = row[val[v].user]]]
    /\ UNCHANGED <<row, deleted, cache, writer, history>>

\* Soft-deleted: 401.
Refuse(v) ==
    /\ val[v].at = "find"
    /\ val[v].user \in deleted
    /\ val' = [val EXCEPT ![v] = NoValidation]
    /\ UNCHANGED <<row, deleted, cache, writer, history>>

\* redis.set with EX: it stores what was read, which may be outdated by now.
Fill(v) ==
    LET u == val[v].user IN
    /\ val[v].at = "set"
    /\ cache' = [cache EXCEPT ![u] = val[v].seen]
    /\ disturbed' = IF val[v].seen # row[u] \/ u \in deleted
                    THEN disturbed \cup {u} ELSE disturbed
    /\ Accept(v)
    /\ UNCHANGED <<row, deleted, writer, purged>>

\* A failed redis.set is logged; the request goes on.
FillFails(v) ==
    /\ val[v].at = "set"
    /\ Accept(v)
    /\ UNCHANGED <<row, deleted, cache, writer, disturbed, purged>>

-----------------------------------------------------------------------------
(* The writers: profile update, verification, Google link, password reset, *)
(* subscription sync, payment failure ("update") and account deletion.     *)

BeginChange(w, u, kind) ==
    /\ writer[w].at = "idle"
    /\ kind = "delete" => u \notin deleted
    /\ writer' = [writer EXCEPT ![w] = [at |-> "write", user |-> u, kind |-> kind]]
    /\ UNCHANGED <<row, deleted, cache, val, history>>

\* Mutant: the handler forgets the entry.
WriteOnly(w) ==
    LET u == writer[w].user IN
    /\ writer[w].at = "write"
    /\ row[u] < MaxVersion
    /\ row' = [row EXCEPT ![u] = @ + 1]
    /\ deleted' = IF writer[w].kind = "delete" THEN deleted \cup {u} ELSE deleted
    /\ writer' = [writer EXCEPT ![w] = NoChange]
    /\ UNCHANGED <<cache, val, history>>

Write(w) ==
    LET u == writer[w].user IN
    /\ writer[w].at = "write"
    /\ row[u] < MaxVersion
    /\ row' = [row EXCEPT ![u] = @ + 1]
    /\ deleted' = IF writer[w].kind = "delete" THEN deleted \cup {u} ELSE deleted
    /\ writer' = [writer EXCEPT ![w].at = "invalidate"]
    /\ UNCHANGED <<cache, val, history>>

Invalidate(w) ==
    LET u == writer[w].user IN
    /\ writer[w].at = "invalidate"
    /\ cache' = [cache EXCEPT ![u] = NoEntry]
    /\ purged' = IF writer[w].kind = "delete" THEN purged \cup {u} ELSE purged
    /\ writer' = [writer EXCEPT ![w] = NoChange]
    /\ UNCHANGED <<row, deleted, val, disturbed, late>>

\* redis.del rejected (logged only), or the process died before it.
InvalidateFails(w) ==
    LET u == writer[w].user IN
    /\ writer[w].at = "invalidate"
    /\ disturbed' = disturbed \cup {u}
    /\ writer' = [writer EXCEPT ![w] = NoChange]
    /\ UNCHANGED <<row, deleted, cache, val, purged, late>>

\* The write itself is rejected, or the handler dies before it.
ChangeFails(w) ==
    /\ writer[w].at = "write"
    /\ writer' = [writer EXCEPT ![w] = NoChange]
    /\ UNCHANGED <<row, deleted, cache, val, history>>

-----------------------------------------------------------------------------
\* Mutant: the entry is stored without EX and never expires.
NeverExpire(u) == FALSE /\ UNCHANGED vars

\* Redis drops the entry when its 60 seconds are over.
Expire(u) ==
    /\ cache[u] # NoEntry
    /\ cache' = [cache EXCEPT ![u] = NoEntry]
    /\ UNCHANGED <<row, deleted, val, writer, history>>

Proceed(v) == Hit(v) \/ Miss(v) \/ Find(v) \/ Refuse(v) \/ Fill(v) \/ FillFails(v)

Finish(w) == Write(w) \/ Invalidate(w) \/ InvalidateFails(w) \/ ChangeFails(w)

Next ==
    \/ \E v \in Validations : (\E u \in Users : Begin(v, u)) \/ Proceed(v)
    \/ \E w \in Writers :
          \/ \E u \in Users, kind \in {"update", "delete"} : BeginChange(w, u, kind)
          \/ Finish(w)
    \/ \E u \in Users : Expire(u)

Spec == Init /\ [][Next]_vars

\* Handlers that have begun run to their end, and Redis honours the TTL.
Fairness ==
    /\ \A v \in Validations : WF_vars(Proceed(v))
    /\ \A w \in Writers : WF_vars(Finish(w))
    /\ \A u \in Users : WF_vars(Expire(u))

FairSpec == Spec /\ Fairness

-----------------------------------------------------------------------------
(* Properties.                                                             *)

\* Entries, validations and changes in flight have the shapes the code uses.
TypeOK ==
    /\ row \in [Users -> Version]
    /\ deleted \subseteq Users
    /\ cache \in [Users -> Version \cup {NoEntry}]
    /\ val \in [Validations -> Validation]
    /\ writer \in [Writers -> Change]
    /\ disturbed \subseteq Users
    /\ purged \subseteq Users
    /\ late \subseteq Users

Invalidating(u) == \E w \in Writers : writer[w].at = "invalidate" /\ writer[w].user = u

\* Deleting the entry after the write is enough: as long as no deletion was
\* lost and no fill was overtaken by a write, an entry is outdated, or is that
\* of a deleted user, only between a write and the deletion that follows it.
CoherentUnlessDisturbed ==
    \A u \in Users \ disturbed :
        cache[u] # NoEntry /\ (cache[u] # row[u] \/ u \in deleted) => Invalidating(u)

\* Lost deletions and late fills heal: once a user's row is written for the
\* last time the entry ends up absent or up to date for good, and absent when
\* the user is deleted, so that the database answers and refuses.
EventuallyFresh ==
    \A u \in Users : <>[](/\ cache[u] \in {NoEntry, row[u]}
                          /\ u \in deleted => cache[u] = NoEntry)

\* What jwt.strategy.ts says ("soft-deleted users are rejected even while
\* holding a valid token"): no validation that begins after deleteAccount has
\* finished is accepted.
DeletedRefused == late = {}
=============================================================================
