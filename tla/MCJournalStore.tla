----------------------------- MODULE MCJournalStore -----------------------------
(* JournalStore on a small instance. *)
EXTENDS JournalStore, TLC

\* Epochs, writers, operation and flight ids are only compared for equality.
StoreSymmetry ==
    Permutations(Epochs) \cup Permutations(Writers)
        \cup Permutations(OpIds) \cup Permutations(FlightIds)
=============================================================================
