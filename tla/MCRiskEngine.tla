--------------------------- MODULE MCRiskEngine ---------------------------
(***************************************************************************)
(* Instances of RiskEngine for TLC.                                        *)
(***************************************************************************)
EXTENDS RiskEngine

\* A loss, a gain, and a fill that only opens; a loss alone exceeds no limit.
SomeGains == {Whole(-2), Whole(0), Whole(2)}
NoGains == {Whole(0)}

=============================================================================
