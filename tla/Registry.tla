------------------------------- MODULE Registry -------------------------------
(***************************************************************************)
(* The registry of connection states of one cTCP process (src/ctcp.c):    *)
(* the intrusive doubly linked list `state_list`, whose nodes keep `next`  *)
(* and `prev`, a pointer to the pointer that points at the node: either    *)
(* the global `state_list` or the `next` field of the node before it.      *)
(*                                                                         *)
(* ctcp_init links a fresh calloc'd state at the head, ctcp_destroy        *)
(* unlinks one through `prev` and frees it (calloc may hand the address    *)
(* out again), and ctcp_timer walks the list with a cursor.  The process   *)
(* is single-threaded, so no init or destroy happens while the timer       *)
(* walks.  What each engine does on its visit is the Ctcp module's.        *)
(***************************************************************************)
EXTENDS Naturals, FiniteSets

CONSTANTS
  Nodes,    \* addresses calloc can return for a ctcp_state_t
  NULL      \* the null pointer

ASSUME NULL \notin Nodes

\* A pointer-to-pointer: the address of `state_list` or of a node's `next`.
HeadSlot == "state_list"
NextSlot(n) == <<"next", n>>
Slots == {HeadSlot} \cup {NextSlot(n) : n \in Nodes}

VARIABLES
  state_list,   \* the global head pointer
  next,         \* next[n]: the `next` field of the state at address n
  prev,         \* prev[n]: the `prev` field of the state at address n
  allocated,    \* addresses handed out by calloc and not yet freed
  cursor        \* ctcp_timer's cur_state; NULL when no tick is running

vars == <<state_list, next, prev, allocated, cursor>>

\* *slot
Deref(slot) == IF slot = HeadSlot THEN state_list ELSE next[slot[2]]

\* The node reached from p after k hops along `next`.
RECURSIVE Hop(_, _)
Hop(p, k) == IF p = NULL \/ k = 0 THEN p ELSE Hop(next[p], k - 1)

\* The nodes on the list from p on (at most one lap of the address space).
RECURSIVE ListFrom(_, _)
ListFrom(p, k) ==
  IF p = NULL \/ k = 0 THEN {} ELSE {p} \cup ListFrom(next[p], k - 1)

Reach(p) == ListFrom(p, Cardinality(Nodes))

Init ==
  /\ state_list = NULL
  /\ next = [n \in Nodes |-> NULL]
  /\ prev = [n \in Nodes |-> NULL]
  /\ allocated = {}
  /\ cursor = NULL

\* Mutant: ctcp_init without `state_list->prev = &state->next`.
CtcpInitNoBackLink(n) ==
  /\ cursor = NULL /\ n \notin allocated
  /\ next' = [next EXCEPT ![n] = state_list]
  /\ prev' = [prev EXCEPT ![n] = HeadSlot]
  /\ state_list' = n
  /\ allocated' = allocated \cup {n}
  /\ UNCHANGED cursor

\* ctcp_init: a zeroed state at a free address is linked in at the head.
CtcpInit(n) ==
  /\ cursor = NULL /\ n \notin allocated
  /\ next' = [next EXCEPT ![n] = state_list]
  /\ prev' = IF state_list # NULL
             THEN [prev EXCEPT ![n] = HeadSlot, ![state_list] = NextSlot(n)]
             ELSE [prev EXCEPT ![n] = HeadSlot]
  /\ state_list' = n
  /\ allocated' = allocated \cup {n}
  /\ UNCHANGED cursor

\* `*slot = v`: the new values of <<state_list, next>>.
Store(slot, v) ==
  IF slot = HeadSlot THEN <<v, next>>
  ELSE <<state_list, [next EXCEPT ![slot[2]] = v]>>

\* ctcp_destroy: unlink through prev, then free.
CtcpDestroy(n) ==
  /\ cursor = NULL /\ n \in allocated
  /\ prev' = IF next[n] # NULL THEN [prev EXCEPT ![next[n]] = prev[n]]
                               ELSE prev
  /\ LET w == Store(prev[n], next[n])
     IN state_list' = w[1] /\ next' = w[2]
  /\ allocated' = allocated \ {n}
  /\ UNCHANGED cursor

\* ctcp_timer: an empty list returns at once; otherwise the walk starts at
\* the head.
TimerStart ==
  /\ cursor = NULL /\ state_list # NULL
  /\ cursor' = state_list
  /\ UNCHANGED <<state_list, next, prev, allocated>>

\* cur_state = cur_state->next after the visit of cur_state.
TimerVisit ==
  /\ cursor # NULL
  /\ cursor' = next[cursor]
  /\ UNCHANGED <<state_list, next, prev, allocated>>

Next ==
  \/ \E n \in Nodes : CtcpInit(n) \/ CtcpDestroy(n)
  \/ TimerStart \/ TimerVisit

Spec == Init /\ [][Next]_vars

-----------------------------------------------------------------------------
(* Properties.                                                             *)

TypeOK ==
  /\ state_list \in Nodes \cup {NULL}
  /\ next \in [Nodes -> Nodes \cup {NULL}]
  /\ prev \in [Nodes -> Slots \cup {NULL}]
  /\ allocated \subseteq Nodes
  /\ cursor \in Nodes \cup {NULL}

\* After any sequence of ctcp_init and ctcp_destroy calls, in any order and
\* with addresses reused, the list from state_list is finite, holds exactly
\* the states not yet freed, and every listed state's prev points at the
\* pointer that points at it (what the unlink `*state->prev = state->next`
\* relies on).
ListIntact ==
  /\ Hop(state_list, Cardinality(Nodes)) = NULL
  /\ Reach(state_list) = allocated
  /\ \A n \in allocated : Deref(prev[n]) = n

=============================================================================
