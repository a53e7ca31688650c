----------------------------- MODULE MCQueryLoop -----------------------------
(* Instances of QueryLoop for TLC: a fill level for each context action,   *)
(* and one the u8 percentage wraps.                                        *)
EXTENDS QueryLoop

MCPercents == {50, 72, 77, 85, 260}

=============================================================================
