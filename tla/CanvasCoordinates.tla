------------------------- MODULE CanvasCoordinates -------------------------
(***************************************************************************)
(* A coordinate on its way from a SpatialPlacement to the canvas of a      *)
(* floorplan and back (services/floorplan_bridge.py).  A placement holds   *)
(* thousandths of its unit, the canvas hundredths of a pixel.              *)
(***************************************************************************)
EXTENDS Integers

Units == {"meters", "feet", "rack_units"}

\* Hundredths of a pixel per thousandth of the unit: 100, 30.48 and 10
\* pixels to the unit, as a fraction.
Numerator(unit) == CASE unit = "meters" -> 10 [] unit = "feet" -> 381 [] OTHER -> 1
Denominator(unit) == IF unit = "feet" THEN 125 ELSE 1

\* The integers nearest to n / d: two of them when n / d lies half way, where
\* the last bit of the float decides.
Nearest(n, d) ==
    LET q == (2 * n + d) \div (2 * d)
    IN  {k \in {q - 1, q} : 2 * n <= 2 * k * d + d /\ 2 * k * d - d <= 2 * n}

CanvasCoordinates(v, unit) == Nearest(v * Numerator(unit), Denominator(unit))

\* Mutant: feet taken back with the scale of meters.
MetricPlacements(c, unit) == Nearest(c, 10)
PlacementCoordinates(c, unit) == Nearest(c * Denominator(unit), Numerator(unit))
=============================================================================
