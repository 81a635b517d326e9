------------------------------ MODULE Platform ------------------------------
(***************************************************************************)
(* What the components that share the database have in common: who acts on *)
(* it, and the values that stand for identifiers.  A request handler or a  *)
(* worker does one statement at a time; several are in flight at once.     *)
(***************************************************************************)
EXTENDS Naturals

CONSTANTS Users,       \* numbered: rows read "order by id" come in this order
          Products,
          Handlers,    \* request handlers in flight
          Workers,     \* queue workers, each in a process of its own
          Nothing      \* null

ASSUME PlatformAssumption ==
    /\ Users \subseteq Nat \ {0}
    /\ Handlers \cap Workers = {}
    /\ Nothing \notin Users \cup Products \cup Handlers \cup Workers
=============================================================================
