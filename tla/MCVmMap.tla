------------------------------- MODULE MCVmMap -------------------------------
(* Small instances of VmMap: tasks A and B share the anonymous region x; or *)
(* A has v, larger than the memory there is, which B takes from it; or      *)
(* gives u to B; or has three small regions; or n, with a window for its    *)
(* first page only, beside y; or e, which may be empty.                     *)
EXTENDS VmMap, TLC

CONSTANTS A, B, e, n, u, v, w, x, y, z, a1, b1, write, exec

MCTaskOf == [c \in Callers |-> IF c = b1 THEN B ELSE A]
MCLengths == [r \in Regions |-> IF r = x THEN {3, 4} ELSE IF r = v THEN {5}
                             ELSE IF r = n THEN {1, 2} ELSE IF r = e THEN {0, 1} ELSE {1}]
MCFlags == {{write}, {exec}}
Permissions == Permutations({write, exec})
MCMakes == [c \in Callers |-> IF c = b1 THEN {} ELSE Regions]
MCPhysBase == [r \in Regions |-> IF r = y THEN 10 ELSE 20]
MCWorlds == {{x}, {v}, {u}, {w, y, z}, {n, y}, {e}}
MCTree == {{w, y, z}}

\* Each caller maps into its own task, x in a window for all it may grow to; and a1 gives
\* u to B, with a mask or without.
Ask(r, m, start, end, len, transfer) ==
    [entry |-> r, task |-> m, start |-> start, end |-> end, length |-> len, mask |-> {},
     transfer |-> transfer]
MCRequests == [c \in Callers |->
    IF c = b1 THEN {Ask(x, B, 1, 0, 4, FALSE)}
    ELSE {Ask(x, A, 2, 0, 4, FALSE), Ask(v, A, 2, 0, 0, FALSE), Ask(u, B, 1, 0, 0, TRUE),
          Ask(n, A, 2, 0, 1, FALSE), Ask(e, A, 3, 0, 0, FALSE),
          [Ask(u, B, 1, 0, 0, TRUE) EXCEPT !.mask = {write, exec}]}
         \cup {Ask(r, A, 2, 6, 1, FALSE) : r \in {w, z}} \cup {Ask(y, A, 3, 0, 0, FALSE)}]
MCUnmaps == [c \in Callers |-> IF c = b1 THEN {<<v, A>>} ELSE {<<u, B>>} \cup {e, n, w, x, y, z} \X {A}]
MCDeallocs == [c \in Callers |-> IF c = b1 THEN {u, x} ELSE Regions]

\* B uses the first page only, A all but the fourth of x and v, which is faulted in ahead.
MCTouched == [m \in Tasks |-> IF m = B THEN {1} ELSE {2, 3, 4, 6}]
=============================================================================
