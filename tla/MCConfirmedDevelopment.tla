----------------------- MODULE MCConfirmedDevelopment -----------------------
(* Instances of ConfirmedDevelopment for TLC. *)
EXTENDS ConfirmedDevelopment, TLC

CONSTANTS p1, p2

\* One plan with every request, another whose recipe competes for the lanes.
MCAsks == {<<p1, "execute">>, <<p1, "register">>, <<p1, "recipe">>, <<p2, "recipe">>}
=============================================================================
