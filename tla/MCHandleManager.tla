--------------------------- MODULE MCHandleManager ---------------------------
(* Four objects share the port table and two the interrupt-handler table.  *)
EXTENDS HandleManager, TLC

CONSTANTS Ports, Irqs

MCObjects == Ports \cup Irqs
MCTypeOf == [o \in MCObjects |-> IF o \in Irqs THEN IrqHandler ELSE Port]

\* Objects of one type are interchangeable.
MCSymmetry == Permutations(Ports) \cup Permutations(Irqs)
============================================================================
