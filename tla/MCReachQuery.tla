--------------------------- MODULE MCReachQuery ---------------------------
(***************************************************************************)
(* Inputs for ReachQuery, chosen for layers whose regions have structure:  *)
(* 0 and 1 both point to 2 and 3, so a second layer always exists, and any *)
(* upward edges join 2..maxID.  Each is taken with its ids ascending and   *)
(* descending; those that end at maxID - 1 also with every edge twice.     *)
(***************************************************************************)
EXTENDS ReachQuery, MCReachLayers

Below(hi) == {({0, 1} \X {2, 3}) \cup E : E \in SUBSET UpPairs(2, hi)}

MCLayeredGraphs ==
    {FromPairs(E) : E \in Below(maxID) \cup {Flip(E) : E \in Below(maxID)}}
      \cup {TwiceFromPairs(E) : E \in Below(maxID - 1)}
===========================================================================
