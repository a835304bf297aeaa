-------------------------- MODULE MCActionGateway --------------------------
(* Instances of ActionGateway for TLC. *)
EXTENDS ActionGateway, TLC

\* Two tasks with one definition cover each other.
MCCovered == {<<d, d>> : d \in Definition}

Symmetry == {f @@ g @@ h : f \in Permutations(ActionId), g \in Permutations(Target),
                           h \in Permutations(Definition)}
=============================================================================
