--------------------------- MODULE MCDiskSession ---------------------------
(* Small instances of DiskSession. The requests, a first sector and a number *)
(* of sectors: one that works, one the port cannot take, one that is too     *)
(* long for AtaDisk::read() and one that is larger than the pool.            *)
EXTENDS DiskSession

MCRequests == {<<3, 2>>, <<5, 3>>, <<5, 5>>, <<5, 6>>}
MCMaxReads == [turns |-> 3, overlap |-> 2]
MCTurns == [turns |-> 3]
MCOverlap == [overlap |-> 2]
MCReads == {<<1, 1>>, <<3, 2>>}
MCNothing == {<<1, 0>>}
============================================================================
