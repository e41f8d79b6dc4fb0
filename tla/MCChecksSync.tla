------------------------------ MODULE MCChecksSync ------------------------------
(* ChecksSync on small instances. *)
EXTENDS ChecksSync, TLC

\* Devices are interchangeable, and so are the checks that start alike.
SyncSymmetry ==
    Permutations(Devices) \cup Permutations(Original) \cup Permutations(Checks \ Original)
=============================================================================
