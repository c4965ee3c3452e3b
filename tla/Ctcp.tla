-------------------------------- MODULE Ctcp --------------------------------
(***************************************************************************)
(* Two cTCP connection engines (src/ctcp.c), each driven by its own host   *)
(* process, joined by an unreliable datagram carrier.                      *)
(*                                                                         *)
(* Every handler of ctcp.c (ctcp_read, ctcp_receive, ctcp_timer) is one    *)
(* step: the helpers it calls (ctcp_send_possible_data_segment,            *)
(* ctcp_output, ctcp_send_flags, ctcp_destroy) are pure operators on a     *)
(* step record r = [st, out, sink] that are composed in the order the C    *)
(* code calls them: st is the engine, out the datagrams emitted so far in  *)
(* this handler, sink the host's standard output.                          *)
(*                                                                         *)
(* Data is abstracted to byte offsets: a chunk read from standard input is *)
(* [off, len], its first byte's offset in the stream of data bytes and its *)
(* length.  The sink keeps the offsets of the bytes written to stdout, in  *)
(* the order they were written.                                            *)
(***************************************************************************)
EXTENDS Integers, Sequences, SequencesExt, FiniteSets

CONSTANTS
  Engines,        \* the two endpoints of the connection
  Input,          \* Input[e]: what conn_input returns on e's stdin, read
                  \*   by read: a data chunk length, EOF or TRUNCATE
  MaxSegData,     \* MAX_SEG_DATA_SIZE
  SendWindow,     \* cfg->send_window
  RecvWindow,     \* cfg->recv_window
  RtTimeout,      \* cfg->rt_timeout (ms)
  TimerPeriod,    \* cfg->timer (ms)
  SinkCap,        \* bytes conn_bufspace reports once stdout has drained
  Faults,         \* host faults: SUBSET {"loss","dup","reorder","corrupt"}
                  \*   of the carrier, "shortwrite" of conn_output
  BusyWait,       \* what the build made of `while(q->length > 0);`:
                  \*   SUBSET {"spin","elided"} (see README)
  MaxTimeouts,    \* bound: a timeout fires only while time_out_num is
                  \*   below this; 256 leaves the uint8_t free to wrap
  ChannelCap,     \* datagrams the carrier buffers towards an engine;
                  \*   a datagram sent to a full buffer is dropped (0: a
                  \*   silent carrier)
  LossTo          \* with "loss": the engines towards which the carrier
                  \*   may lose datagrams

\* conn_input's return at end of input, and a read starting with the
\* ###truncate### sentinel (its bytes are never queued).
EOF == -1
TRUNCATE == -2

ASSUME Cardinality(Engines) = 2
ASSUME \A e \in Engines : \A i \in DOMAIN Input[e] :
         Input[e][i] \in {EOF, TRUNCATE} \cup 1..MaxSegData
ASSUME \A e \in Engines : \A i \in DOMAIN Input[e] :
         Input[e][i] = EOF => i = Len(Input[e])
ASSUME Faults \subseteq {"loss", "dup", "reorder", "corrupt", "shortwrite"}
ASSUME BusyWait # {} /\ BusyWait \subseteq {"spin", "elided"}
ASSUME SendWindow \in 1..65535 /\ RecvWindow \in 1..65535
ASSUME MaxTimeouts \in 0..256 /\ ChannelCap \in Nat
ASSUME LossTo \subseteq Engines
ASSUME RtTimeout \in Nat \ {0} /\ TimerPeriod \in Nat \ {0}

VARIABLES
  conn,     \* conn[e]: the ctcp_state_t fields of engine e
  alive,    \* alive[e]: ctcp_destroy has not run for e
  hung,     \* hung[e]: e's process spins in a busy-wait loop forever
  net,      \* net[e]: datagrams in flight towards e
  source,   \* source[e]: [avail, read] tokens of Input[e] readable / read
  sink      \* sink[e]: e's standard output

vars == <<conn, alive, hung, net, source, sink>>

Peer(e) == CHOOSE p \in Engines : p # e

\* ctcp_init: timer_overflow is a uint8_t computed as ceil(rt_timeout/timer)
TimerOverflow ==
  (IF RtTimeout % TimerPeriod = 0 THEN RtTimeout \div TimerPeriod
                                  ELSE RtTimeout \div TimerPeriod + 1) % 256

U8(n)  == n % 256
U16(n) == n % 65536

-----------------------------------------------------------------------------
(* Data: chunks, segments and queues.                                      *)

\* Byte offset of the first byte of data token i of Input[e].
Offset(e, i) ==
  1 + FoldLeft(LAMBDA acc, t : acc + (IF t > 0 THEN t ELSE 0), 0,
               SubSeq(Input[e], 1, i - 1))

Chunk(e, i) == [off |-> Offset(e, i), len |-> Input[e][i]]
NoData == [off |-> 0, len |-> 0]

DataBytes(e) == Offset(e, Len(Input[e]) + 1) - 1

\* The whole data stream of e's stdin, as byte offsets.
AllData(e) == [k \in 1..DataBytes(e) |-> k]

\* Sum of the lengths of the first k chunks of q.
PrefixLen(q, k) == FoldLeft(LAMBDA acc, c : acc + c.len, 0, SubSeq(q, 1, k))

\* The chunks of a send queue (TX_state elements [data, tag]).
Payloads(tx) == [i \in DOMAIN tx |-> tx[i].data]

\* The largest k such that the first k elements of q fit in `room` bytes.
FitCount(q, room) ==
  CHOOSE k \in 0..Len(q) : /\ PrefixLen(q, k) <= room
                           /\ (k = Len(q) \/ PrefixLen(q, k + 1) > room)

Teardowns == {"NO_CLOSE", "ACTIVE_CLOSE", "PASSIVE_CLOSE"}

Init ==
  /\ conn = [e \in Engines |->
               [seqno |-> 1, next_seqno |-> 1, ackno |-> 1, last_ackno |-> 1,
                send_window_used |-> 0, rcv_window_used |-> 0,
                tx |-> <<>>, rx |-> <<>>,
                time_out |-> FALSE, time_out_num |-> 0, counter |-> 0,
                teardown |-> "NO_CLOSE"]]
  /\ alive = [e \in Engines |-> TRUE]
  /\ hung = [e \in Engines |-> FALSE]
  /\ net = [e \in Engines |-> <<>>]
  /\ source = [e \in Engines |-> [avail |-> 0, read |-> 0]]
  /\ sink = [e \in Engines |->
               [free |-> SinkCap, out |-> <<>>, eof |-> FALSE]]

Live(e) == alive[e] /\ ~hung[e]

-----------------------------------------------------------------------------
(* Helpers of ctcp.c as operators on a step record [st, out, sink].        *)

Start(e) == [st |-> conn[e], out |-> <<>>, sink |-> sink[e]]

\* ctcp_send_flags: a header-only segment, seqno = state's seqno.
SendFlags(r, ack, flags) ==
  [r EXCEPT !.out = @ \o <<[seqno |-> r.st.seqno, ackno |-> ack,
                            flags |-> flags, data |-> NoData, ok |-> TRUE]>>]

\* Mutant: ctcp_send_data_segment without `time_out = true`.
SendPossibleNoArm(r) ==
  LET s   == r.st
      k   == FitCount(Payloads(s.tx), SendWindow)
      nxt(i) == s.seqno + PrefixLen(Payloads(s.tx), i)
  IN [r EXCEPT
        !.st = [s EXCEPT
                  !.send_window_used = U16(PrefixLen(Payloads(s.tx), k)),
                  !.next_seqno = nxt(k),
                  !.tx = [i \in 1..Len(s.tx) |->
                            IF i <= k THEN [s.tx[i] EXCEPT !.tag = nxt(i)]
                                      ELSE s.tx[i]]],
        !.out = @ \o [i \in 1..k |->
                        [seqno |-> nxt(i - 1), ackno |-> s.ackno,
                         flags |-> {}, data |-> s.tx[i].data, ok |-> TRUE]]]

\* Mutant: send_window_used is not reset to 0 before the window walk.
SendPossibleNoReset(r) ==
  LET s   == r.st
      k   == FitCount(Payloads(s.tx), SendWindow)
      nxt(i) == s.seqno + PrefixLen(Payloads(s.tx), i)
  IN [r EXCEPT
        !.st = [s EXCEPT
                  !.send_window_used =
                     U16(s.send_window_used + PrefixLen(Payloads(s.tx), k)),
                  !.next_seqno = nxt(k),
                  !.tx = [i \in 1..Len(s.tx) |->
                            IF i <= k THEN [s.tx[i] EXCEPT !.tag = nxt(i)]
                                      ELSE s.tx[i]],
                  !.time_out = s.time_out \/ k > 0],
        !.out = @ \o [i \in 1..k |->
                        [seqno |-> nxt(i - 1), ackno |-> s.ackno,
                         flags |-> {}, data |-> s.tx[i].data, ok |-> TRUE]]]

\* ctcp_send_possible_data_segment with ctcp_send_data_segment inlined:
\* go-back-N over the front of the send queue that fits in the window.
SendPossible(r) ==
  LET s   == r.st
      k   == FitCount(Payloads(s.tx), SendWindow)
      nxt(i) == s.seqno + PrefixLen(Payloads(s.tx), i)
  IN [r EXCEPT
        !.st = [s EXCEPT
                  !.send_window_used = U16(PrefixLen(Payloads(s.tx), k)),
                  !.next_seqno = nxt(k),
                  !.tx = [i \in 1..Len(s.tx) |->
                            IF i <= k THEN [s.tx[i] EXCEPT !.tag = nxt(i)]
                                      ELSE s.tx[i]],
                  !.time_out = s.time_out \/ k > 0],
        !.out = @ \o [i \in 1..k |->
                        [seqno |-> nxt(i - 1), ackno |-> s.ackno,
                         flags |-> {}, data |-> s.tx[i].data, ok |-> TRUE]]]

\* The byte offsets of chunks cs, in order.
Bytes(cs) ==
  FlattenSeq([i \in DOMAIN cs |-> [k \in 1..cs[i].len |-> cs[i].off + k - 1]])

\* stdout holds the first bytes of the stream, in order.
InStreamOrder(o) == \A k \in DOMAIN o : o[k] = k

\* Writing chunks cs to stdout, in order.  Once stdout holds a byte out of
\* stream order the model stops recording what is written after it.
SinkWrite(sk, cs) ==
  [sk EXCEPT !.free = @ - PrefixLen(cs, Len(cs)),
             !.out = IF InStreamOrder(@) THEN @ \o Bytes(cs) ELSE @]

\* What conn_output returns in one ctcp_output call: every write whole, or
\* the write of head `at` returns n bytes, fewer than asked.  A short write
\* is legal for the host's sink (spec section 6).
Whole == [at |-> 0, n |-> 0]

Writes(r) ==
  {Whole} \cup
    IF "shortwrite" \in Faults
    THEN UNION {{[at |-> j, n |-> b] : b \in 0..r.st.rx[j].len - 1} :
                  j \in 1..FitCount(r.st.rx, r.sink.free)}
    ELSE {}

\* Mutant: rcv_window_used is lowered by what was asked of conn_output, not
\* by what it wrote.
OutputHeadsDebitAsked(r, w, k) ==
  LET s == r.st
      full == IF w.at = 0 THEN k ELSE w.at - 1
      cut  == IF w.at = 0 THEN <<>>
              ELSE <<[off |-> s.rx[w.at].off, len |-> w.n]>>
      left == IF w.at = 0 THEN <<>>
              ELSE <<[off |-> s.rx[w.at].off + w.n,
                      len |-> s.rx[w.at].len - w.n]>>
      cs == SubSeq(s.rx, 1, full) \o cut
      asked == SubSeq(s.rx, 1, full + Len(cut))
      r1 == [r EXCEPT
               !.st.rx = left \o SubSeq(s.rx, full + 1 + Len(cut), Len(s.rx)),
               !.st.rcv_window_used = U16(@ - PrefixLen(asked, Len(asked))),
               !.sink = SinkWrite(r.sink, cs)]
  IN [r1 EXCEPT !.out = @ \o [i \in 1..full |->
                               [seqno |-> s.seqno, ackno |-> s.ackno,
                                flags |-> {"ACK"}, data |-> NoData,
                                ok |-> TRUE]]]

\* The loop of ctcp_output over the first k heads of the receive queue:
\* each is written from byte_used on and, once byte_left is 0, freed with
\* an ACK; after a short write the rest of that head stays queued and the
\* loop breaks.
OutputHeads(r, w, k) ==
  LET s == r.st
      full == IF w.at = 0 THEN k ELSE w.at - 1
      cut  == IF w.at = 0 THEN <<>>
              ELSE <<[off |-> s.rx[w.at].off, len |-> w.n]>>
      left == IF w.at = 0 THEN <<>>
              ELSE <<[off |-> s.rx[w.at].off + w.n,
                      len |-> s.rx[w.at].len - w.n]>>
      cs == SubSeq(s.rx, 1, full) \o cut
      r1 == [r EXCEPT
               !.st.rx = left \o SubSeq(s.rx, full + 1 + Len(cut), Len(s.rx)),
               !.st.rcv_window_used = U16(@ - PrefixLen(cs, Len(cs))),
               !.sink = SinkWrite(r.sink, cs)]
  IN [r1 EXCEPT !.out = @ \o [i \in 1..full |->
                               [seqno |-> s.seqno, ackno |-> s.ackno,
                                flags |-> {"ACK"}, data |-> NoData,
                                ok |-> TRUE]]]

\* Mutant: ctcp_output without the conn_bufspace test.
OutputNoSpaceCheck(r, w) == OutputHeads(r, w, Len(r.st.rx))

\* ctcp_output: write receive-queue heads while conn_bufspace has room for
\* what is left of them.
Output(r, w) == OutputHeads(r, w, FitCount(r.st.rx, r.sink.free))

-----------------------------------------------------------------------------
(* Committing a step of engine e.                                          *)

\* Datagrams sent to an engine whose process has stopped reading are never
\* processed: they are left out of its channel.  The carrier's buffer
\* holds ChannelCap datagrams and drops what arrives when it is full.
Deliver(e, segs) ==
  IF Live(e)
  THEN SubSeq(net[e] \o segs, 1, IF Len(net[e]) + Len(segs) > ChannelCap
                                  THEN ChannelCap
                                  ELSE Len(net[e]) + Len(segs))
  ELSE net[e]

\* e's step r, having consumed `inbox` as its new incoming channel, ends
\* with e alive (destroyed = FALSE) or destroyed, spinning or not.
Commit(e, inbox, r, destroyed, spins) ==
  /\ conn' = [conn EXCEPT ![e] = r.st]
  /\ sink' = [sink EXCEPT ![e] = r.sink]
  /\ alive' = [alive EXCEPT ![e] = ~destroyed]
  /\ hung' = [hung EXCEPT ![e] = spins]
  /\ net' = [net EXCEPT ![e] = IF destroyed \/ spins THEN <<>> ELSE inbox,
                        ![Peer(e)] = Deliver(Peer(e), r.out)]

-----------------------------------------------------------------------------
(* ctcp_read: read every readable chunk into the send queue; at EOF send   *)
(* FIN after busy-waiting on both queues; then send what the window        *)
(* allows.                                                                 *)

ReadStops(e) ==
  {j \in source[e].read + 1 .. source[e].avail : Input[e][j] \in {TRUNCATE, EOF}}

\* Index of the last token the read loop consumes.
ReadEnd(e) ==
  IF ReadStops(e) = {} THEN source[e].avail
  ELSE CHOOSE j \in ReadStops(e) : \A x \in ReadStops(e) : j <= x

Pushed(e) ==
  LET from == source[e].read + 1
      to   == IF ReadStops(e) = {} THEN ReadEnd(e) ELSE ReadEnd(e) - 1
  IN [i \in 1..(to - from + 1) |-> [data |-> Chunk(e, from + i - 1), tag |-> 0]]

ReadLoop(e) == [Start(e) EXCEPT !.st.tx = @ \o Pushed(e)]

ReadsEof(e) == Input[e][ReadEnd(e)] = EOF

Read(e) ==
  /\ Live(e)
  /\ source[e].read < source[e].avail
  /\ ~ReadsEof(e)
  /\ source' = [source EXCEPT ![e].read = ReadEnd(e)]
  /\ Commit(e, net[e], SendPossible(ReadLoop(e)), FALSE, FALSE)

\* EOF: while(rx->length > 0); while(tx->length > 0); then FIN.
ReadEof(e) ==
  /\ Live(e)
  /\ source[e].read < source[e].avail
  /\ ReadsEof(e)
  /\ source' = [source EXCEPT ![e].read = ReadEnd(e)]
  /\ LET r0 == ReadLoop(e)
         busy == r0.st.rx # <<>> \/ r0.st.tx # <<>>
         r1 == [r0 EXCEPT !.st.teardown = "ACTIVE_CLOSE"]
         r2 == [SendFlags(r1, r1.st.ackno, {"FIN"}) EXCEPT !.st.time_out = TRUE]
     IN \/ /\ busy /\ "spin" \in BusyWait
           /\ Commit(e, net[e], r0, FALSE, TRUE)
        \/ /\ ~busy \/ "elided" \in BusyWait
           /\ Commit(e, net[e], SendPossible(r2), FALSE, FALSE)

-----------------------------------------------------------------------------
(* ctcp_receive on the segment at position i of e's channel: the head,     *)
(* or any position when the carrier reorders.                              *)

Receivable(e) ==
  IF "reorder" \in Faults THEN DOMAIN net[e]
  ELSE IF net[e] = <<>> THEN {} ELSE {1}

\* The duplicate test at the top of ctcp_receive, made before the length
\* and checksum tests.
IsDuplicate(s, m) ==
  /\ m.seqno # s.ackno
  /\ m.seqno = s.last_ackno
  /\ "ACK" \notin m.flags

\* Passes the duplicate, length and checksum tests.
Valid(e, m) == ~IsDuplicate(conn[e], m) /\ m.ok

\* Resend an ACK for last_ackno and return.
ReceiveDuplicate(e) ==
  /\ Live(e)
  /\ \E i \in Receivable(e) :
       /\ IsDuplicate(conn[e], net[e][i])
       /\ Commit(e, RemoveAt(net[e], i),
                 SendFlags(Start(e), conn[e].last_ackno, {"ACK"}), FALSE, FALSE)
  /\ UNCHANGED source

\* len != ntohs(segment->len) or a checksum mismatch: the segment is freed.
ReceiveCorrupt(e) ==
  /\ Live(e)
  /\ \E i \in Receivable(e) :
       /\ ~IsDuplicate(conn[e], net[e][i])
       /\ ~net[e][i].ok
       /\ Commit(e, RemoveAt(net[e], i), Start(e), FALSE, FALSE)
  /\ UNCHANGED source

\* Mutant: no receive-window test.
AcceptDataNoWindow(r, m) ==
  [r EXCEPT !.st.last_ackno = r.st.ackno,
            !.st.ackno = m.seqno + m.data.len,
            !.st.rx = Append(@, m.data),
            !.st.rcv_window_used = U16(@ + m.data.len)]

\* ctcp_receive_data_segment: accepted whenever it fits in the receive
\* window, whatever its sequence number; then ctcp_output.
AcceptData(r, m) ==
  IF r.st.rcv_window_used + m.data.len <= RecvWindow
  THEN [r EXCEPT !.st.last_ackno = r.st.ackno,
                 !.st.ackno = m.seqno + m.data.len,
                 !.st.rx = Append(@, m.data),
                 !.st.rcv_window_used = U16(@ + m.data.len)]
  ELSE r

ReceiveData(e) ==
  /\ Live(e)
  /\ \E i \in Receivable(e) :
       LET m == net[e][i] IN
       /\ Valid(e, m)
       /\ m.flags = {}
       /\ \E w \in Writes(AcceptData(Start(e), m)) :
            Commit(e, RemoveAt(net[e], i), Output(AcceptData(Start(e), m), w),
                   FALSE, FALSE)
  /\ UNCHANGED source

\* Mutant: the ACK loop frees an element only when the ACK is past its tag.
HandleAckStrict(r, m) ==
  LET s == r.st
      a == m.ackno
      acked(j) == s.tx[j].tag > 0 /\ a > s.tx[j].tag
      k == CHOOSE k \in 0..Len(s.tx) :
             /\ \A j \in 1..k : acked(j)
             /\ (k = Len(s.tx) \/ ~acked(k + 1))
  IN IF s.tx = <<>> \/ a < s.tx[1].tag THEN r
     ELSE [r EXCEPT
             !.st.seqno = IF k > 0 THEN s.tx[k].tag ELSE @,
             !.st.send_window_used = U16(@ - PrefixLen(Payloads(s.tx), k)),
             !.st.tx = SubSeq(s.tx, k + 1, Len(s.tx)),
             !.st.time_out = IF a = s.next_seqno THEN FALSE ELSE @,
             !.st.counter = 0,
             !.st.time_out_num = 0]

\* ACK_SEG outside PASSIVE_CLOSE: cumulative acknowledgement.  The while
\* loop frees the longest prefix of the send queue whose tags are set and
\* at most the segment's ackno.
HandleAck(r, m) ==
  LET s == r.st
      a == m.ackno
      acked(j) == s.tx[j].tag > 0 /\ a >= s.tx[j].tag
      k == CHOOSE k \in 0..Len(s.tx) :
             /\ \A j \in 1..k : acked(j)
             /\ (k = Len(s.tx) \/ ~acked(k + 1))
  IN IF s.tx = <<>> \/ a < s.tx[1].tag THEN r
     ELSE [r EXCEPT
             !.st.seqno = IF k > 0 THEN s.tx[k].tag ELSE @,
             !.st.send_window_used = U16(@ - PrefixLen(Payloads(s.tx), k)),
             !.st.tx = SubSeq(s.tx, k + 1, Len(s.tx)),
             !.st.time_out = IF a = s.next_seqno THEN FALSE ELSE @,
             !.st.counter = 0,
             !.st.time_out_num = 0]

ReceiveAck(e) ==
  /\ Live(e)
  /\ conn[e].teardown # "PASSIVE_CLOSE"
  /\ \E i \in Receivable(e) :
       LET m == net[e][i] IN
       /\ Valid(e, m)
       /\ m.flags = {"ACK"}
       /\ Commit(e, RemoveAt(net[e], i), HandleAck(Start(e), m), FALSE, FALSE)
  /\ UNCHANGED source

\* ACK_SEG in PASSIVE_CLOSE: taken as the ACK of our FIN, ctcp_destroy.
ReceiveAckPassive(e) ==
  /\ Live(e)
  /\ conn[e].teardown = "PASSIVE_CLOSE"
  /\ \E i \in Receivable(e) :
       /\ Valid(e, net[e][i])
       /\ net[e][i].flags = {"ACK"}
       /\ Commit(e, RemoveAt(net[e], i), Start(e), TRUE, FALSE)
  /\ UNCHANGED source

\* FIN_WITH_ACK: ackno = seqno + 1, then the last ACK (ctcp_destroy follows).
FinWithAck(r, m) ==
  SendFlags([r EXCEPT !.st.ackno = m.seqno + 1], m.seqno + 1, {"ACK"})

\* ctcp_receive_fin_with_no_ack in ACTIVE_CLOSE: last_ackno = ackno,
\* ackno = seqno + 1, then the ACK (ctcp_destroy follows).
FinActiveClose(r, m) ==
  SendFlags([r EXCEPT !.st.last_ackno = r.st.ackno, !.st.ackno = m.seqno + 1],
            m.seqno + 1, {"ACK"})

\* A FIN that ends the connection: FIN_WITH_ACK, or a bare FIN in
\* ACTIVE_CLOSE; either way the engine is destroyed.
ReceiveFinClose(e) ==
  /\ Live(e)
  /\ \E i \in Receivable(e) :
       LET m == net[e][i]
       IN /\ Valid(e, m)
          /\ "FIN" \in m.flags
          /\ "ACK" \in m.flags \/ conn[e].teardown = "ACTIVE_CLOSE"
          /\ Commit(e, RemoveAt(net[e], i),
                    IF "ACK" \in m.flags THEN FinWithAck(Start(e), m)
                                         ELSE FinActiveClose(Start(e), m),
                    TRUE, FALSE)
  /\ UNCHANGED source

\* ctcp_receive_fin_with_no_ack outside ACTIVE_CLOSE: EOF to stdout, ACK,
\* while(rx->length > 0); then our FIN and PASSIVE_CLOSE.
ReceiveFinPassive(e) ==
  /\ Live(e)
  /\ conn[e].teardown # "ACTIVE_CLOSE"
  /\ \E i \in Receivable(e) :
       LET m == net[e][i]
           r0 == Start(e)
           r1 == [r0 EXCEPT !.st.last_ackno = r0.st.ackno,
                            !.st.ackno = m.seqno + 1,
                            !.sink.eof = TRUE]
           r2 == SendFlags(r1, r1.st.ackno, {"ACK"})
           r3 == [SendFlags(r2, r2.st.ackno, {"FIN"})
                    EXCEPT !.st.time_out = TRUE,
                           !.st.teardown = "PASSIVE_CLOSE"]
       IN /\ Valid(e, m)
          /\ m.flags = {"FIN"}
          /\ \/ /\ r2.st.rx # <<>> /\ "spin" \in BusyWait
                /\ Commit(e, RemoveAt(net[e], i), r2, FALSE, TRUE)
             \/ /\ r2.st.rx = <<>> \/ "elided" \in BusyWait
                /\ Commit(e, RemoveAt(net[e], i), r3, FALSE, FALSE)
  /\ UNCHANGED source

-----------------------------------------------------------------------------
(* ctcp_timer's loop body for one engine.                                  *)

\* A full timeout other than the sixth: retransmit FIN while closing, else
\* go-back-N over the window.
Expire(r) ==
  LET r1 == [r EXCEPT !.st.counter = 0,
                      !.st.time_out_num = U8(@ + 1)]
  IN IF r.st.teardown # "NO_CLOSE"
     THEN SendFlags(r1, r.st.last_ackno, {"FIN"})
     ELSE SendPossible(r1)

\* The sixth consecutive timeout: FIN and ACTIVE_CLOSE.
GiveUp(r) ==
  [SendFlags([r EXCEPT !.st.counter = 0, !.st.time_out_num = 6],
             r.st.ackno, {"FIN"})
     EXCEPT !.st.time_out = TRUE, !.st.teardown = "ACTIVE_CLOSE"]

\* The branch taken when time_out is set.
TimeoutBody(r) ==
  IF U8(r.st.counter + 1) # TimerOverflow
  THEN [r EXCEPT !.st.counter = U8(@ + 1)]
  ELSE IF U8(r.st.time_out_num + 1) = 6 THEN GiveUp(r) ELSE Expire(r)

Expires(e) == U8(conn[e].counter + 1) = TimerOverflow
Sixth(e) == U8(conn[e].time_out_num + 1) = 6

\* Timer not armed: send what fits, then drain the receive queue.  The step
\* records are bound as values so that ENABLED, which the fairness of
\* ctcp_timer evaluates, computes each of them once.
TimerIdle(e) ==
  /\ Live(e)
  /\ ~conn[e].time_out
  /\ \E r \in {SendPossible(Start(e))} :
       \E w \in Writes(r) :
         \E r1 \in {Output(r, w)} : Commit(e, net[e], r1, FALSE, FALSE)
  /\ UNCHANGED source

TimerCount(e) ==
  /\ Live(e)
  /\ conn[e].time_out /\ ~Expires(e)
  /\ Commit(e, net[e], TimeoutBody(Start(e)), FALSE, FALSE)
  /\ UNCHANGED source

TimerExpire(e) ==
  /\ Live(e)
  /\ conn[e].time_out /\ Expires(e) /\ ~Sixth(e)
  /\ conn[e].time_out_num < MaxTimeouts
  /\ Commit(e, net[e], Expire(Start(e)), FALSE, FALSE)
  /\ UNCHANGED source

\* After GiveUp the loop `continue`s without advancing cur_state, so the
\* same engine's body runs a second time in this tick.
TimerGiveUp(e) ==
  /\ Live(e)
  /\ conn[e].time_out /\ Expires(e) /\ Sixth(e)
  /\ conn[e].time_out_num < MaxTimeouts
  /\ Commit(e, net[e], TimeoutBody(GiveUp(Start(e))), FALSE, FALSE)
  /\ UNCHANGED source

\* A tick that would make a timeout fire beyond the MaxTimeouts bound: the
\* model stops following the timer of this engine.
TimerAtBound(e) ==
  /\ Live(e)
  /\ conn[e].time_out /\ Expires(e)
  /\ conn[e].time_out_num >= MaxTimeouts
  /\ UNCHANGED vars

-----------------------------------------------------------------------------
(* The host and the carrier.                                               *)

\* More of Input[e] becomes readable on stdin.
HostInput(e) ==
  /\ alive[e]
  /\ source[e].avail < Len(Input[e])
  /\ source' = [source EXCEPT ![e].avail = @ + 1]
  /\ UNCHANGED <<conn, alive, hung, net, sink>>

\* Whatever reads e's stdout consumes it: conn_bufspace is SinkCap again.
StdoutDrain(e) ==
  /\ sink[e].free < SinkCap
  /\ sink' = [sink EXCEPT ![e].free = SinkCap]
  /\ UNCHANGED <<conn, alive, hung, net, source>>

Lose(e) ==
  /\ "loss" \in Faults /\ e \in LossTo
  /\ \E i \in DOMAIN net[e] : net' = [net EXCEPT ![e] = RemoveAt(@, i)]
  /\ UNCHANGED <<conn, alive, hung, source, sink>>

Duplicate(e) ==
  /\ "dup" \in Faults
  /\ Len(net[e]) < ChannelCap
  /\ \E i \in DOMAIN net[e] :
       net' = [net EXCEPT ![e] = InsertAt(@, i, net[e][i])]
  /\ UNCHANGED <<conn, alive, hung, source, sink>>

\* A bit flipped in the payload: the checksum test will fail.
Corrupt(e) ==
  /\ "corrupt" \in Faults
  /\ \E i \in DOMAIN net[e] :
       /\ net[e][i].ok
       /\ net' = [net EXCEPT ![e][i].ok = FALSE]
  /\ UNCHANGED <<conn, alive, hung, source, sink>>

\* Both processes have ended or spin forever.
Stopped ==
  /\ \A e \in Engines : ~Live(e)
  /\ UNCHANGED vars

-----------------------------------------------------------------------------

Engine(e) ==
  \/ Read(e) \/ ReadEof(e)
  \/ ReceiveDuplicate(e) \/ ReceiveCorrupt(e) \/ ReceiveData(e)
  \/ ReceiveAck(e) \/ ReceiveAckPassive(e)
  \/ ReceiveFinClose(e) \/ ReceiveFinPassive(e)
  \/ TimerIdle(e) \/ TimerCount(e) \/ TimerExpire(e) \/ TimerGiveUp(e)
  \/ TimerAtBound(e)

Environment(e) ==
  \/ HostInput(e) \/ StdoutDrain(e)
  \/ Lose(e) \/ Duplicate(e) \/ Corrupt(e)

Next ==
  \/ \E e \in Engines : Engine(e) \/ Environment(e)
  \/ Stopped

Spec == Init /\ [][Next]_vars

-----------------------------------------------------------------------------
(* Properties.                                                             *)

Chunks == [off : Nat, len : Nat]
Segments == [seqno : Nat, ackno : Nat, flags : SUBSET {"FIN", "ACK"},
             data : Chunks, ok : BOOLEAN]

TypeOK ==
  /\ conn \in [Engines ->
        [seqno : Nat, next_seqno : Nat, ackno : Nat, last_ackno : Nat,
         send_window_used : 0..65535, rcv_window_used : 0..65535,
         tx : Seq([data : Chunks, tag : Nat]), rx : Seq(Chunks),
         time_out : BOOLEAN, time_out_num : 0..255, counter : 0..255,
         teardown : Teardowns]]
  /\ alive \in [Engines -> BOOLEAN]
  /\ hung \in [Engines -> BOOLEAN]
  /\ net \in [Engines -> Seq(Segments)]
  /\ source \in [Engines -> [avail : Nat, read : Nat]]
  /\ sink \in [Engines -> [free : 0..SinkCap, out : Seq(Nat), eof : BOOLEAN]]

\* Number of send-queue elements carrying a tag, i.e. sent in some pass of
\* ctcp_send_possible_data_segment and not yet freed by an ACK.
Tagged(s) == Cardinality({j \in DOMAIN s.tx : s.tx[j].tag > 0})

\* The send queue's bookkeeping survives every interleaving of reads, ACKs
\* (cumulative, stale or duplicated) and retransmissions: the sent elements
\* are a prefix of the queue whose tags are seqno plus the running payload
\* sum, send_window_used (a uint16_t, decremented per freed element in the
\* ACK loop) is exactly the bytes of that prefix and within send_window, and
\* next_seqno is one past it.
SendQueueAccounting ==
  \A e \in Engines : alive[e] =>
    LET s == conn[e]
        t == Tagged(s)
    IN /\ \A j \in 1..t :
            s.tx[j].tag = s.seqno + PrefixLen(Payloads(s.tx), j)
       /\ s.send_window_used = PrefixLen(Payloads(s.tx), t)
       /\ s.send_window_used <= SendWindow
       /\ s.next_seqno = s.seqno + s.send_window_used

\* rcv_window_used, raised by ctcp_receive_data_segment and lowered by
\* ctcp_output, is exactly the bytes waiting in the receive queue, and never
\* more than recv_window.
RecvQueueAccounting ==
  \A e \in Engines : alive[e] =>
    /\ conn[e].rcv_window_used = PrefixLen(conn[e].rx, Len(conn[e].rx))
    /\ conn[e].rcv_window_used <= RecvWindow

\* The retransmission timer is armed whenever sent data is unacknowledged:
\* the ACK handler clears time_out only when the ACK reaches next_seqno, so
\* no outstanding segment can be left without a retransmission.
RetransmitArmed ==
  \A e \in Engines : Live(e) /\ Tagged(conn[e]) > 0 => conn[e].time_out

\* Bytes of e's stdin that ctcp_read has taken in, and whether it read EOF.
BytesRead(e) == Offset(e, source[e].read + 1) - 1
ReadEofToken(e) == \E i \in 1..source[e].read : Input[e][i] = EOF

\* The pair of engines implements a reliable byte stream in each direction
\* (spec section 8): ctcp_read hands the bytes and the EOF of stdin to the
\* stream, and ctcp_output and ctcp_receive_fin_with_no_ack write the
\* peer's bytes and EOF to stdout.  Every step of the engines is a step of
\* ReliableStream: stdout grows only by the next bytes of the peer's stream,
\* and EOF is written only after all of a stream the peer ended.
Stream == INSTANCE ReliableStream
            WITH Ends <- Engines,
                 sent <- [e \in Engines |-> BytesRead(e)],
                 ended <- [e \in Engines |-> ReadEofToken(e)],
                 out <- [e \in Engines |-> sink[e].out],
                 closed <- [e \in Engines |-> sink[e].eof]

StreamRefines == Stream!Spec

\* No handler spins forever in one of the `while(q->length > 0);` loops of
\* ctcp_read and ctcp_receive_fin_with_no_ack.
NoBusyWaitHang == \A e \in Engines : ~hung[e]

\* When the peer's EOF reaches stdout (conn_output(conn, NULL, 0) in
\* ctcp_receive_fin_with_no_ack), all of the peer's data is already there:
\* a FIN never overtakes the data segments sent before it.
EofAfterData ==
  \A e \in Engines : sink[e].eof => sink[e].out = AllData(Peer(e))

\* Orderly close: once an engine that read its EOF is destroyed by the
\* FIN handshake (ctcp_receive_fin_with_no_ack in ACTIVE_CLOSE, after
\* ctcp_read's FIN), the peer has written all of its data and then EOF to
\* stdout.
OrderlyClose ==
  \A e \in Engines :
    /\ ~alive[e] /\ conn[e].teardown = "ACTIVE_CLOSE"
    /\ source[e].read = Len(Input[e]) /\ Input[e][Len(Input[e])] = EOF
    => sink[Peer(e)].eof /\ sink[Peer(e)].out = AllData(e)

\* The ACK that destroys an engine in PASSIVE_CLOSE (ctcp_receive, ACK_SEG)
\* is the peer's ACK of that engine's FIN: when it is destroyed, the peer has
\* taken the FIN (its ackno is one past the FIN's seqno).
PassiveCloseConfirmed ==
  \A e \in Engines :
    ~alive[e] /\ conn[e].teardown = "PASSIVE_CLOSE"
      => conn[Peer(e)].ackno = conn[e].seqno + 1

-----------------------------------------------------------------------------
(* Liveness.                                                               *)

\* The host calls ctcp_timer every cfg->timer ms, whatever else happens,
\* and its walk runs the loop body of every engine, armed or idle.
FairSpec ==
  /\ Spec
  /\ \A e \in Engines :
       WF_vars(TimerIdle(e) \/ TimerCount(e) \/ TimerExpire(e)
                 \/ TimerGiveUp(e))

\* A fair-lossy carrier: a datagram that keeps being offered to an engine
\* is eventually handed to its ctcp_receive, however many copies are lost.
ReceiveStep(e) ==
  \/ ReceiveDuplicate(e) \/ ReceiveCorrupt(e) \/ ReceiveData(e)
  \/ ReceiveAck(e) \/ ReceiveAckPassive(e)
  \/ ReceiveFinClose(e) \/ ReceiveFinPassive(e)

FairLossSpec ==
  /\ FairSpec
  /\ \A e \in Engines : SF_vars(ReceiveStep(e))

\* An engine in ACTIVE_CLOSE (ctcp_read read EOF, or ctcp_timer gave up
\* after six consecutive timeouts) is eventually destroyed: by the peer's
\* FIN in ctcp_receive_fin_with_no_ack, or else by the timer, even when the
\* peer is gone and its FIN never comes.
ActiveCloseTerminates ==
  \A e \in Engines :
    (alive[e] /\ conn[e].teardown = "ACTIVE_CLOSE") ~> ~alive[e]

\* Every data segment an engine has sent is eventually acknowledged (its
\* send queue has no sent element left) unless the engine stops: go-back-N
\* retransmission by ctcp_timer against the ACKs of ctcp_output and the
\* duplicate test of ctcp_receive, which answers a segment it already took
\* with an ACK for last_ackno.
SentDataAcked ==
  \A e \in Engines :
    (Live(e) /\ Tagged(conn[e]) > 0) ~> (Tagged(conn[e]) = 0 \/ ~Live(e))

=============================================================================
