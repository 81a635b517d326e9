------------------------------- MODULE Units -------------------------------
(***************************************************************************)
(* The unit engine of the shared package, units.ts: quantities to grams,   *)
(* millilitres or pieces.  Each table keeps a token or two of every kind;  *)
(* weights are in milligrams, volumes in microlitres, so that 0.3 ml is a  *)
(* whole number.  A token the tables do not have is an unknown unit.       *)
(***************************************************************************)
EXTENDS Integers

Nothing0 == -1    \* an ingredient property that is not known

MassToGrams == [g |-> 1000, kg |-> 1000000, mg |-> 1, oz |-> 28350, catty |-> 604790]
VolumeToMl == [ml |-> 1000, l |-> 1000000, cup |-> 250000, pinch |-> 300]

\* Grams of a count unit where the ingredient does not say; "piece" and
\* "whole" have no default.
CountUnits == {"piece", "clove", "egg", "pack", "bunch"}
CountUnitDefaultGrams == [clove |-> 5000, egg |-> 55000, pack |-> 200000, bunch |-> 150000]

IsMassUnit(u) == u \in DOMAIN MassToGrams
IsVolumeUnit(u) == u \in DOMAIN VolumeToMl
IsCountUnit(u) == u \in CountUnits

PerPiece(u, gramsPerPiece) ==
    CASE gramsPerPiece # Nothing0 -> gramsPerPiece * 1000
      [] gramsPerPiece = Nothing0 /\ u \in DOMAIN CountUnitDefaultGrams -> CountUnitDefaultGrams[u]
      [] OTHER -> 0

\* The density (g/ml, in tenths) turns a volume into a mass; a weight per piece
\* turns a count into one; what is left is pieces.
ToCanonical(q, u, density, gramsPerPiece) ==
    CASE IsMassUnit(u) -> [value |-> q * MassToGrams[u], unit |-> "g"]
      [] IsVolumeUnit(u) /\ density > 0 ->
            [value |-> (q * VolumeToMl[u] * density) \div 10, unit |-> "g"]
      [] IsVolumeUnit(u) /\ density <= 0 -> [value |-> q * VolumeToMl[u], unit |-> "ml"]
      [] IsCountUnit(u) /\ PerPiece(u, gramsPerPiece) > 0 ->
            [value |-> q * PerPiece(u, gramsPerPiece), unit |-> "g"]
      [] OTHER -> [value |-> q * 1000, unit |-> "piece"]

\* A pack of unitCount packets; the ingredient's own weights are not asked.
PackSizeToCanonical(packSize, packUnit, unitCount) ==
    LET norm == ToCanonical(packSize, packUnit, Nothing0, Nothing0)
    IN [value |-> norm.value * unitCount, unit |-> norm.unit]
=============================================================================
