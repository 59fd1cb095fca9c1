--------------------------- MODULE MCPaperRecord ---------------------------
(* Small instances of PaperRecord for TLC. *)
EXTENDS PaperRecord

CONSTANTS A, B

MCRankings == {<<A, B>>, <<B, A>>}
MCFiles == {{A, B}, {B}}
MCPicks == {{A}}
\* The second month begins with session 3.
MCMonth == [s \in Sessions |-> IF s < 3 THEN 1 ELSE 2]
\* Three tranches, then the next rebalance.
ThreeMonth == [s \in Sessions |-> IF s < 4 THEN 1 ELSE 2]
BothPolicies == {"next_rebalance", "close_now"}
NextRebalance == {"next_rebalance"}
NoPicks == {{}}

=============================================================================
