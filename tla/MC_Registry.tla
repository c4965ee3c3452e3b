----------------------------- MODULE MC_Registry -----------------------------
(* Three addresses for connection states: enough for a middle node, for    *)
(* removing the head, the tail and the middle, and for reuse of a freed    *)
(* address while others are live.                                          *)
EXTENDS Registry

CONSTANTS n1, n2, n3

MCNodes == {n1, n2, n3}

=============================================================================
