---------------------------- MODULE MCBriefPins ----------------------------
(* Symmetry for model-checking BriefPins. *)
EXTENDS BriefPins, TLC

Alike == Permutations(Briefs) \cup Permutations(Runs) \cup Permutations(Sessions)
=============================================================================
