------------------------------- MODULE MC_Ctcp -------------------------------
(* Instances of Ctcp for TLC.  Engine "A" is the side whose stdin has data; *)
(* "B" has no data or only closes.  One-byte and two-byte chunks with a two-byte segment   *)
(* size keep sequence numbers small while windows still hold one or two    *)
(* segments.                                                                *)
EXTENDS Ctcp

MCEngines == {"A", "B"}

\* Only the datagrams towards A (B's ACKs and FINs) may be lost.
MCOnlyA == {"A"}

\* A sends one chunk, a truncated read, then EOF; B closes only when A's
\* FIN arrives (passive close).
MCInputClose == [e \in MCEngines |->
                   IF e = "A" THEN <<1, TRUNCATE, EOF>> ELSE <<>>]

\* As MCInputClose with a two-byte chunk, which stdout may take in parts.
MCInputCloseWide == [e \in MCEngines |->
                       IF e = "A" THEN <<2, TRUNCATE, EOF>> ELSE <<>>]

\* As MCInputClose, but B's stdin ends at once: both sides may close
\* actively at the same time.
MCInputBothClose == [e \in MCEngines |->
                       IF e = "A" THEN <<1, TRUNCATE, EOF>> ELSE <<EOF>>]

\* A sends data and never closes (an interactive client).
MCInputOpen == [e \in MCEngines |->
                  IF e = "A" THEN <<1, 1>> ELSE <<>>]

\* A sends one chunk and never closes.
MCInputGiveUp == [e \in MCEngines |-> IF e = "A" THEN <<1>> ELSE <<>>]

\* B sends one chunk and keeps its stdin open; A's stdin ends at once.
MCInputPassive == [e \in MCEngines |-> IF e = "A" THEN <<EOF>> ELSE <<1>>]

\* A sends one chunk and EOF, readable together; B closes at once.
MCInputHello == [e \in MCEngines |-> IF e = "A" THEN <<1, EOF>> ELSE <<EOF>>]

\* Both stdins end at once: A closes, and B's EOF may be read before or
\* after A's FIN has made B close passively.
MCInputBothEof == [e \in MCEngines |-> <<EOF>>]

=============================================================================
