# TLA+ model of cTCP (src/ctcp.c)

This directory holds a TLC-checkable model of the cTCP connection engine in
`src/ctcp.c`. That is a reliable byte stream over an unreliable datagram
carrier: go-back-N sending, cumulative ACKs, a tick-driven retransmission
timer and a FIN teardown. It also holds the configurations that check the
model, and `PROJECT.json`, which maps every modelled definition to the C lines
it translates.

## 1. The system

`ctcp.c` is one cooperative, single-threaded engine per connection. The host
library, which lives outside `src/`, calls four handlers and never runs two at
once:

| handler | lines | what it does |
|---|---|---|
| `ctcp_read` | 272-323 | Reads stdin chunks into the send queue (`tx_state`). At EOF it busy-waits on both queues, enters `ACTIVE_CLOSE` and sends FIN. Then it sends what the window allows. |
| `ctcp_receive` | 427-548 | Runs the duplicate test, then the length and checksum tests. It then dispatches on flags: DATA goes to `ctcp_receive_data_segment` and `ctcp_output`; ACK runs the cumulative ACK loop, or destroys the engine in `PASSIVE_CLOSE`; FIN+ACK destroys; a bare FIN goes to `ctcp_receive_fin_with_no_ack`. |
| `ctcp_output` | 550-588 | Writes whole receive-queue heads while `conn_bufspace` has room, with one ACK per drained element. |
| `ctcp_timer` | 590-642 | Walks `state_list`. An armed timer counts ticks up to `timer_overflow`. Each full timeout either retransmits the window, or retransmits FIN when closing. The sixth consecutive timeout sends FIN, enters `ACTIVE_CLOSE` and `continue`s without advancing the list cursor. An idle timer sends what now fits and drains the receive queue. |

The state per connection (`struct ctcp_state`) is:
- `conn_state`: `seqno`, `next_seqno`, `ackno`, `last_ackno` (uint32) and the window counters (uint16);
- `ack_state`: `time_out`, `counter`, `time_out_num` and `timer_overflow`, all uint8 apart from the flag;
- the teardown state;
- the two queues: `TX_state` elements carry a tag `segment_next_seqno`, which is 0 until sent; `RX_state` elements hold received payloads.

A process's connections are chained in `state_list` through `next` and a
`prev` pointer-to-pointer.

Two processes (A and B) interact only through datagrams. A DATA segment from
A is answered by ACKs from B's `ctcp_output`. A FIN from the side that read
EOF makes the other side write EOF to its stdout, ACK, and send its own FIN.

Components and their status are listed in `PROJECT.json`:
- **modelled:** the engine's handlers and helpers, and the send and receive queues;
- **modelled:** init and destroy (the fields in `Ctcp`, the list linking in `Registry`) and the `state_list` registry;
- **partly:** the host library, as environment actions;
- **not modelled:** the segment codec (`cksum` and byte order, outside `src/`), abstracted to an `ok` flag.

## 2. Modules

**`Ctcp.tla`** models two engines A and B, each in its own process, joined by
a carrier.

Variables:
- `conn[e]`: the `ctcp_state` fields;
- `alive[e]`: `ctcp_destroy` has not run;
- `hung[e]`: the process spins forever in a `while(q->length > 0);` loop;
- `net[e]`: the datagrams in flight towards e;
- `source[e]`: how much of stdin is readable and how much has been read;
- `sink[e]`: stdout, as its free space (`conn_bufspace`), the sequence `out` of byte offsets written to it, and EOF. Once `out` is no longer 1, 2, 3, ... (`InStreamOrder`), further writes are not recorded: the stream is already wrong, and recording them only grows the state space.

Each handler is one action, and it models the whole handler:
- `Read` and `ReadEof` for `ctcp_read`;
- `ReceiveDuplicate`, `ReceiveCorrupt`, `ReceiveData`, `ReceiveAck`, `ReceiveAckPassive`, `ReceiveFinClose` and `ReceiveFinPassive` for the branches of `ctcp_receive`;
- `TimerIdle`, `TimerCount`, `TimerExpire` and `TimerGiveUp` for `ctcp_timer`'s loop body.

`ReceiveFinClose` covers both FINs that destroy the engine: `FinWithAck`
(lines 524-533) and `FinActiveClose` (`ctcp_receive_fin_with_no_ack` in
`ACTIVE_CLOSE`, lines 418-424).

`ctcp_output` has no action of its own. It is the operator `Output`, run
inside `ReceiveData` and `TimerIdle`, the two places `ctcp.c` calls it. The
host also calls it when stdout has room again. The model has no action for
that call: `StdoutDrain` only frees space, and the queued heads are written
by the next data segment or idle tick, which run the same `Output`. Such a
write is delayed, never lost or reordered. Under `FairSpec` the delay ends
at the first tick with the timer unarmed.

The helpers are pure operators on a step record `[st, out, sink]`, composed
in the C call order. For example, `ReceiveData` commits
`Output(AcceptData(Start(e), m))`, and `TimerGiveUp` commits
`TimeoutBody(GiveUp(Start(e)))`, because the `continue` at line 615 runs the
same engine's body again in the same tick.

Data abstraction:
- A chunk is `[off, len]`: a byte offset into the sender's stream and a length.
- A segment is `[seqno, ackno, flags, data, ok]`.
- The advertised window is not modelled: no receiver reads it.
- The `conn_send` retry loops are not modelled: the datagram is sent whole.

Environment actions:
- `HostInput`: another stdin token becomes readable;
- `StdoutDrain`: `conn_bufspace` is back to `SinkCap`;
- short writes: when `"shortwrite"` is in `Faults`, `conn_output` may write fewer bytes than asked (spec section 6 allows 0 <= k <= n). `Writes(r)` is the set of outcomes of one `ctcp_output` loop: all heads written whole (`Whole`), or the heads before j whole and b < len bytes of head j. `OutputHeads` then keeps the rest of head j queued with its offset advanced, debits `rcv_window_used` by the bytes written, and ACKs only the heads written whole, as lines 573-586 do;
- `Lose`, `Duplicate`, `Corrupt`: carrier faults, enabled by the constant `Faults`. `Lose` only drops datagrams towards the engines in `LossTo`;
- reordering: when `"reorder"` is in `Faults`, ctcp_receive may take any position of the channel.

Datagrams sent to a process that stopped, because it was destroyed or is
spinning, are never processed.

Undefined behaviour. The three `while(q->length > 0);` loops have no side
effects, so C11 6.8.5p6 lets the compiler assume they terminate and remove
them. The constant `BusyWait ⊆ {"spin","elided"}` gives the builds a run
covers:
- `"spin"`: the loop runs forever when its queue is non-empty;
- `"elided"`: the loop is removed and the handler continues.

**`ReliableStream.tla`** is what a connection promises its two applications: `sent[e]` bytes handed to e's stream, `ended[e]`, `out[e]` (the offsets written to e's stdout) and `closed[e]`. `Deliver(e)` extends `out[e]` to a longer prefix of the other stream; `Close(e)` writes EOF once the other stream has ended and all of it is out. `Ctcp` is checked against it through `Stream == INSTANCE ReliableStream WITH` `sent <- BytesRead`, `ended <- ReadEofToken`, `out <- sink.out`, `closed <- sink.eof`; `StreamRefines` is `Stream!Spec`.

**`MC_Ctcp.tla`** gives the engines as the strings "A" and "B", `MCOnlyA`
(loss only towards A), and the stdin scripts: `MCInputOpen`, `MCInputClose`,
`MCInputBothClose`, `MCInputGiveUp`, `MCInputHello`, `MCInputPassive`
(A reads EOF at once, B sends one chunk), `MCInputBothEof` (both stdins end, in either order) and `MCInputCloseWide` (A sends one 2-byte chunk, then EOF). Tokens are chunk lengths, `EOF`, or `TRUNCATE` (a read
that begins with `###truncate###`, which ends the read loop).

**`Registry.tla`** models the `state_list` of one process that holds several
connections (a server). Its variables are the C pointers:
- `state_list`, the head; `next[n]` and `prev[n]`, the fields of the state at
  address n. `prev[n]` is a slot: `HeadSlot` (`&state_list`) or `NextSlot(m)`
  (`&m->next`), and `Deref`/`Store` read and write through it;
- `allocated`, the addresses calloc handed out and not yet freed (a freed
  address may come back from the next calloc);
- `cursor`, the `cur_state` of a running `ctcp_timer`, `NULL` between ticks.

The actions are `CtcpInit(n)` (lines 147-152: link at the head),
`CtcpDestroy(n)` (lines 183-193: relink `next->prev`, store through `prev`,
free), and `TimerStart` and `TimerVisit` (the walk of `ctcp_timer`). The host
is single-threaded and the timer body never calls `ctcp_destroy`, so init and
destroy only run between ticks. What an engine does on its visit is `Ctcp`'s.

**`MC_Registry.tla`** gives three model-value addresses.

## 3. Properties and runs

| run | cfg | expect | what it shows |
|---|---|---|---|
| transfer | MC_Ctcp_transfer.cfg | pass | Covers two chunks, a carrier that loses, duplicates, reorders and corrupts, and `timer_overflow` 2 (the counter ticks). `TypeOK`; `SendQueueAccounting`: the tags are seqno plus running sums, `send_window_used` equals the sent prefix and is within the window, and `next_seqno` is one past it; `RecvQueueAccounting`: `rcv_window_used` equals the queued bytes and is within the window; `RetransmitArmed`: unacknowledged data implies `time_out`. |
| close | MC_Ctcp_close.cfg | pass | A sends a 2-byte chunk and EOF, and stdout may take writes in parts (`"shortwrite"`). `SendQueueAccounting`, `RecvQueueAccounting` (a partly written head keeps the window debited by exactly what is still queued) and `RetransmitArmed` through EOF, FIN retransmission, six timeouts with the `continue`, and active and passive close under loss. |
| live | MC_Ctcp_live.cfg | pass | `SentDataAcked` under `FairLossSpec` on a carrier that loses nothing: A's data is eventually acknowledged, with duplicate ACKs, retransmissions and a `time_out_num` free to wrap. |
| registry | MC_Registry.cfg | pass | `ListIntact`: after any sequence of init and destroy on three reused addresses, the list from `state_list` ends, holds exactly the allocated states, and every `*prev` points at its state. |
| integrity | MC_Ctcp_integrity.cfg | violation | `StreamRefines` fails on a perfect carrier. The receiver never compares seqno with ackno, so a go-back-N retransmission that races the ACK is written twice: B's stdout gets bytes 1, 2, 1, which no `Deliver` step allows. |
| hang | MC_Ctcp_hang.cfg | violation | `NoBusyWaitHang` fails: EOF is read with data unacknowledged and the process spins forever at line 290. |
| eof | MC_Ctcp_eof.cfg | violation | `EofAfterData` fails in the elided build: a chunk and EOF read together send the FIN before the data, so B writes EOF with no bytes. |
| giveup | MC_Ctcp_giveup.cfg | violation | `ActiveCloseTerminates` fails on a carrier that loses nothing, under `FairLossSpec`. B closes first; A closes passively, then reads its own EOF, and `ctcp_read` overwrites `PASSIVE_CLOSE` with `ACTIVE_CLOSE` (line 292). B is destroyed on A's FIN, A's ACK branch ignores B's ACK outside `PASSIVE_CLOSE`, and the timer has no teardown: A retransmits FIN and gives up after six timeouts, and is never destroyed. |
| simclose | MC_Ctcp_simclose.cfg | violation | `OrderlyClose` fails: in a simultaneous close each side is destroyed on the other's FIN, and neither stdout gets EOF. |
| finack | MC_Ctcp_finack.cfg | violation | `OrderlyClose` fails: after six timeouts the give-up FIN reuses the seqno of a lost byte, B's ACK of it frees that byte at A, and B closes its stdout without it. |
| lostack | MC_Ctcp_lostack.cfg | violation | `SentDataAcked` fails on a fair-lossy carrier that may drop datagrams towards A. Once B's ACK is lost, every retransmission is a duplicate and is answered with ACK(`last_ackno`), which frees nothing (line 433). |
| staleack | MC_Ctcp_staleack.cfg | violation | `PassiveCloseConfirmed` fails on a perfect FIFO carrier. B's retransmitted data draws a duplicate ACK(1) from A, which reaches B after B entered `PASSIVE_CLOSE` and destroys it before A has taken B's FIN (line 481). |

`PROJECT.json` records a finding for each violation and a mutant for each
property of a passing run. Each mutant is a plausible bug in a mapped
operator that TLC shows the property catches:
- `SendPossibleNoReset`: no reset of `send_window_used` before the window walk;
- `SendPossibleNoArm`: no `time_out = true`;
- `AcceptDataNoWindow`: no receive-window test;
- `OutputNoSpaceCheck`: no `conn_bufspace` test;
- `OutputHeadsDebitAsked`: a short write debits `rcv_window_used` by what was asked, not what was written;
- `HandleAckStrict`: the cumulative ACK loop frees an element only when the ACK is past its tag;
- `CtcpInitNoBackLink`: `ctcp_init` does not set `state_list->prev`.

A hazard with no run of its own. The ACK branch of `ctcp_receive` clears
`time_out` whenever the ACK reaches `next_seqno` (line 514), even in
`ACTIVE_CLOSE`. Suppose A's FIN went out while data was still unacknowledged:
at EOF in the build without the empty loops, or as the give-up FIN. Then the
data's ACK disarms A's timer, and a FIN lost after that is never sent again.
In the elided build, TLC reaches an alive engine in `ACTIVE_CLOSE` with
`time_out` false in eight steps. `ActiveCloseTerminates` catches the
consequence; the giveup run shows a shorter counterexample to it.

## 4. Bounds

Every run uses the same base bounds:
- two engines;
- chunks of 1 byte, with a segment size of 2 and both windows of 2, so the
  window holds one or two segments and a window can be full;
- `SinkCap` 2.

The close run sends one 2-byte chunk, so a short write can split a head. The transfer run leaves out `"shortwrite"`: with four carrier faults it would take over five minutes.

The per-run bounds:
- **Carrier buffer.** `ChannelCap` is 2 or 3. `Deliver` drops a datagram sent to a full buffer, as a real carrier would, and it does so even when `Faults` is empty: the bound is a loss of its own. No verdict depends on it. With `ChannelCap` 5, the fault-free runs (live, integrity, hang, eof, giveup, staleack) give the same verdicts.
- **Timer period.** `TimerPeriod` equals `RtTimeout` (`timer_overflow` 1), except in transfer, where it is half (`timer_overflow` 2, so `TimerCount` fires).
- **Timeouts.** `MaxTimeouts` bounds the number of full timeouts. The close and finack runs use 6 so the give-up path is reached; the integrity, hang, eof and staleack runs use 3; transfer uses 1, one retransmission that can race its ACK, because with four carrier faults every further timeout multiplies the interleavings; giveup uses 7, one past the give-up; live and lostack use 256 so the uint8 counter can wrap. At the bound, `TimerAtBound` stutters.

The live and lostack runs use `MCInputGiveUp` (one chunk, stdin kept open),
`MaxTimeouts` 256 and a carrier of 1 or 2: fairness conditions are evaluated
on every state, so they need the smallest input that still has a segment to
acknowledge. lostack drops only datagrams towards A, which is where the ACK
must be lost. The registry run uses three addresses: enough for a middle
node, removal at the head, middle and tail, and reuse of a freed address
while others are linked.

These bounds reach every action and branch. They include a retransmission
racing its ACK, a window of two segments, a full stdout, six consecutive
timeouts, both close orders, and both builds of the loops. All passing runs
finish in under a minute.

## 5. Fairness

The safety runs use `Spec` with no fairness. `FairSpec` adds weak fairness on
the timer actions of each engine (`TimerIdle`, `TimerCount`, `TimerExpire`,
`TimerGiveUp`), because the host calls `ctcp_timer` every `cfg->timer` ms
whatever else happens, and its walk runs the loop body of every engine. The carrier, stdin and stdout get no
fairness: a user may never type again, and a reader may never drain stdout.

`FairLossSpec` adds strong fairness on each engine's `ctcp_receive`
(`ReceiveStep`): a fair-lossy carrier, which may lose any datagram but not
every copy of one that is sent again and again. The host calls
`ctcp_receive` whenever a datagram arrives, so only the carrier can keep a
datagram from it; strong fairness is the standard assumption under which a
retransmission protocol is expected to deliver.

## 6. Not modelled

Not modelled:
- checksums and byte order (outside `src/`);
- the advertised window (computed but never read);
- uint32 sequence-number wrap (it needs 2^32 bytes);
- memory leaks (lines 484 and 487);
- the error paths of `conn_send`. A short send reaches the peer as a truncated datagram, which loss and corruption already cover, but its retry at lines 235 and 351 steps in units of segments: an out-of-bounds read with no defined outcome. A -1 makes the loop spin forever;
- `conn_output` returning -1 (line 566), outside the write contract 0 <= k <= n.

- a module composing `Registry` with the engines. In `ctcp.c` the engines share
  nothing but `state_list`. Every handler runs to completion on one thread,
  and `ctcp_destroy`, the only call that changes the list from inside an
  engine, runs in `ctcp_receive` and never during `ctcp_timer`'s walk.
  A composed module would therefore be the product of `Registry` and one
  `Ctcp` per node, with no behaviour that the two runs do not already reach.
  `Registry` lets init and destroy happen in any order between ticks, and
  `ListIntact` checks the list they leave for the walk;
- timing. A tick is a step, not a duration, so `timer_overflow` values that
  differ only in period (line 169) are indistinguishable. So are the races
  between six timeouts and one round trip, which the model allows at any
  speed;
- the host's own call of `ctcp_output` when stdout drains (see section 2);
- `end_client()`, called by `ctcp_destroy`, is host code outside `src/`.
