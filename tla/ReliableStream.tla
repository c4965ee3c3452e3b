---------------------------- MODULE ReliableStream ----------------------------
(***************************************************************************)
(* What a cTCP connection promises the two applications at its ends: a    *)
(* reliable, ordered byte stream in each direction.  Each side's stdout   *)
(* receives the bytes the other side's stdin handed to the stream, in     *)
(* order and each once, and it receives EOF only after every byte of a    *)
(* stream the other side has ended.  Nothing is written after EOF.        *)
(*                                                                         *)
(* A byte is named by its offset in its stream, so stdout is a sequence   *)
(* of offsets and the stream of e so far is 1..sent[e].                   *)
(***************************************************************************)
EXTENDS Naturals, Sequences, SequencesExt

CONSTANT Ends           \* the two applications

VARIABLES
  sent,     \* sent[e]: bytes e's application has handed to the stream
  ended,    \* ended[e]: e's application has ended its stream (EOF)
  out,      \* out[e]: offsets of the other stream written to e's stdout
  closed    \* closed[e]: EOF has been written to e's stdout

vars == <<sent, ended, out, closed>>

Other(e) == CHOOSE p \in Ends : p # e

Stream(e) == [k \in 1..sent[e] |-> k]

Init ==
  /\ sent = [e \in Ends |-> 0]
  /\ ended = [e \in Ends |-> FALSE]
  /\ out = [e \in Ends |-> <<>>]
  /\ closed = [e \in Ends |-> FALSE]

\* In this step no entry of f other than e's changes.
OnlyAt(f, e) == \A p \in Ends \ {e} : f'[p] = f[p]

\* e's application hands more bytes to its stream, and may end it.
Write(e) ==
  /\ ~ended[e]
  /\ sent'[e] \in Nat /\ sent'[e] >= sent[e] /\ OnlyAt(sent, e)
  /\ ended'[e] \in BOOLEAN /\ OnlyAt(ended, e)
  /\ UNCHANGED <<out, closed>>

\* More of the other stream reaches e's stdout, in order.
Deliver(e) ==
  /\ ~closed[e]
  /\ IsStrictPrefix(out[e], out'[e])
  /\ IsPrefix(out'[e], Stream(Other(e)))
  /\ OnlyAt(out, e)
  /\ UNCHANGED <<sent, ended, closed>>

\* EOF reaches e's stdout once the other stream has ended and all of it
\* is there.
Close(e) ==
  /\ ~closed[e]
  /\ ended[Other(e)] /\ out[e] = Stream(Other(e))
  /\ closed' = [closed EXCEPT ![e] = TRUE]
  /\ UNCHANGED <<sent, ended, out>>

Next == \E e \in Ends : Write(e) \/ Deliver(e) \/ Close(e)

Spec == Init /\ [][Next]_vars

=============================================================================
