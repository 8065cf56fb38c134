-------------------------- MODULE MCPhysAllocator --------------------------
(* Three regions of pages of two bytes: one cut into two chunks (with half a *)
(* page left over), one too small to be used, one of a single chunk.         *)
EXTENDS PhysAllocator, TLC

MCMemoryMap == << [base |-> 1, length |-> 15],
                  [base |-> 20, length |-> 4],
                  [base |-> 30, length |-> 6] >>
MCSymmetry == Permutations(Cores)
============================================================================
