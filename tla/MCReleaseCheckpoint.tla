------------------------ MODULE MCReleaseCheckpoint ------------------------
(***************************************************************************)
(* ReleaseCheckpoint on small instances.  Runs, readers, payloads and build*)
(* results are interchangeable, so the safety runs use their symmetry.     *)
(***************************************************************************)
EXTENDS ReleaseCheckpoint, TLC

Symmetry ==
    Permutations(Runs) \cup Permutations(Readers) \cup Permutations(Payloads)
        \cup Permutations(Bytes)
=============================================================================
