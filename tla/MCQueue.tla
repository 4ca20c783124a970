------------------------------ MODULE MCQueue -------------------------------
(* A small instance of Queue: two message sizes, a limit that the third     *)
(* large message exceeds, and an archive that holds one large message.      *)
EXTENDS Queue

CONSTANTS small, large

MCSizeOf == [b \in {small, large} |-> IF b = small THEN 1 ELSE 2]
=============================================================================
