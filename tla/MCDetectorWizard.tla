-------------------------- MODULE MCDetectorWizard --------------------------
(* Log types are interchangeable, and so are clusters; only invariants are     *)
(* checked.                                                                    *)
EXTENDS DetectorWizard, TLC

MCSymmetry == Permutations(LogTypes) \cup Permutations(Clusters)

=============================================================================
