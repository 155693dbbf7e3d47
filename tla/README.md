# TLA+ verification of rMPTCP

rMPTCP is MPTCP for Linux with a *redundant* scheduler: every segment goes out
on several subflows at once, the number of copies follows a quota of the user,
failed subflows are detected and replaced, and the receiver filters the late
copies. The TLA+ modules here model what rMPTCP adds to MPTCP (scheduler,
redundancy control, path checker, low-pass filter) and the parts of MPTCP it
stands on: the sender and the receiver of a connection, the out-of-order queue
and the full-mesh path manager that makes the subflows.

## The system

| component | state | operations | talks to |
|---|---|---|---|
| scheduler, `rmptcp.c` | `red_sk_reg`, ONE global register: state, list of subflows with their flags, measurements, redundancy | `rmptcp_send_next_segment()`, per segment | called by `mptcp_write_xmit()`; reads the TCP state of the subflows, the sysctls and the path index; puts segments on subflows |
| redundancy control, `rmptcp.c` | `q_target`, `q_control*`, `q_actual` | `setQ`, `adaptR`, `regulateQ`, `calc_controlQ`, `setQActual` | part of the scheduler's call |
| path checker, `rmptcp_pathcheck.c` | the path index `pI`; static `running`, `test_index` | `pathChecker()`, instead of the normal scheduling | switched on by the user, switched off by itself or by another connection |
| sysctls and proc files, `mptcp_ctrl.c` | about 20 integers | read and written at any time | the control center `rmptcp_cc` |
| low-pass filter, `mptcp_input.c` | a ring of data sequence numbers, a learned time, per-subflow times | `mptcp_data_ready()` | in front of the meta receive queue |
| out-of-order queue, `mptcp_ofo_queue.c` | a queue, a shortcut per subflow | insert, drain, prune | fed by `mptcp_queue_skb()` |
| meta sending, `mptcp_output.c`, `mptcp_sched.c` | write queue, send head, reinject queue, two high halves of the numbers | write, reinject, retransmit, acknowledge, fall back | calls the scheduler |
| plain redundant and round-robin schedulers | a segment pointer or quota per subflow | `next_segment()`, `get_subflow()` | choose the segment the redundant scheduler gets |
| connection control, `mptcp_ctrl.c` | control block, list of subflows, tokens | create, join, close | path managers |
| path managers | addresses, bit fields, workers | address events, creation of subflows | address notifiers, `mptcp_ipv4.c`, `mptcp_ipv6.c` |
| congestion controls, options, address families | | | left to the kernel |

What is hard about it:

* The register is global, while a call belongs to a connection. Two connections
  that alternate reset each other's register, but not all of it.
* Everything is driven by calls. A timeout is noticed by the next attempt to
  send, a state is left by the next segment sent.
* The list of subflows is an array other parts index (masks, the path index,
  `previous_skevent_i`), and it grows and shrinks between and within calls.
* Flags, the number of enabled subflows, the state and the list are updated in
  different functions under different conditions.
* The redundancy is computed with unsigned arithmetic that wraps.
* Copies of the same bytes are cut differently on each subflow, arrive in any
  order, are reinjected while they still may arrive, and are acknowledged in
  the middle of a segment; their 64-bit numbers are put together from 32 bits.
* The low-pass filter waits in a loop under a lock, for a time that all
  connections learn together.
* Addresses, subflows and the options that announce them change under three
  different locks, and workers go by a copy of the table.

What makes the components correct: flags agree with the list; the selection is
as redundant as asked for whenever the subflows are there; a failure is a
matter of one subflow, and its traces are gone once it is over; sending never
stops while a subflow works; the target stays between one copy and the quota,
and the mean of the copies comes to it; a path check tests every combination,
without overlap, and ends; the application gets the stream once and in order;
nothing leaves the write queue before it has arrived, and the counts the timers
rely on are those of the queue; no segment is held back for longer than the
learned time; when all is quiet the mesh is that of the addresses there are.
`PROJECT.json` lists the hazards line by line.

## Modules

```
SkList            the list of subflows, as an array and as a set
 +- Rmptcp        the scheduler; implements FailureDetector
 |   +- RmptcpProofs   invariants, redundancy and refinement proved
 |   +- MCRmptcp       small networks
 |       +- MCLive     a clock of the calls, for liveness
 +- PathCheck     the path checker on the array
     +- MCPathCheck
     +- PathCheckProofs   order, tests and completeness proved
FailureDetector   what the failure detection promises, abstractly
QControl          the redundancy control, with exact numbers
 +- QControlProofs     ranges, sanity of the target, answer to failures proved
 +- MCQControl
Seqno             32-bit sequence numbers and their order
 +- OfoQueue      the out-of-order queue, operators
 |   +- MetaReceive    the receiver of a connection
 |       +- MCMetaReceive
 |       +- MetaReceiveProofs   shortcuts proved
 +- MetaSend      the sender of a connection
     +- MCMetaSend
     +- MetaSendProofs    queue, counts, order and arrival proved
LowPass           the low-pass filter in front of the receiver
 +- MCLowPass
 +- LowPassProofs      learned time, ring and holding time proved
FullMesh          the full-mesh path manager
 +- MCFullMesh
 +- FullMeshProofs     the table, the types, the subflows, the announcements and the mesh proved
FoldProofs        folds and sequences, lemmas the other proofs use
```

The modules meet at the calls of the code. `MetaSend` picks a segment and puts
it on *any* subflows with room: `Rmptcp` says on which ones. `FullMesh` makes the
subflows `Rmptcp` finds in `connection_list`, where it lets them come and go at
will. `MetaReceive` may be delayed before it queues a mapping (`Hold`) for as
long as `LowPass` finds. What `MetaSend` leaves on a subflow is a mapping with
any part of its data; `MetaReceive` takes any mappings of a stream from its
subflows, in any order and overlapping. Each of these joints is an
over-approximation on the side that is left out.

### Rmptcp

One call of `rmptcp_send_next_segment()` is one step, `SendNextSegment`: a call
runs under the lock of its meta socket and nothing of it is visible before it
returns. The module keeps the order of the C function: `Prepared` (change of
meta socket, path check or periodic update, adaptive paths and redundancy),
`CheckAvailSk` (drop unused entries, select subflows, note a timeout),
`CalcSendPeriod`, `CheckFailure` (the state machine), `SendSkb`. Each C function
that changes the register is an operator from a record to a record, or to a set
of records where the outcome hangs on a measurement.

The environment acts between calls: `NetChange` (windows, losses, establishing
and closing), `TimeoutRunsOut`, `HoldRunsOut`, `UpdateComesDue`, `Unseen`.

Abstractions, all of them towards more behaviour of the code:

* `sk_list` is the set of its sockets. A list that is sorted and without
  repetitions is determined by the set; `PathCheck` keeps the array and checks
  that it is sorted (`ListSorted`). Position `i` is the socket with `i`
  predecessors.
* A time stamp is what the code asks of it: has the duration run out?
  `update_due` stands for the update period and the minimal time between two
  bandwidth measurements.
* Bandwidths, round trip times, sending periods and utilization are not kept.
  Where they decide (choice of main sockets, whom to blame, whether the
  utilization collapsed, which main socket is left out) any outcome is allowed.
* `q_control` is any member of `Redundancy`; `QControl` has its arithmetic.
* SACK is on, so that a subflow in `TCP_CA_Loss` never sends.
* The connections use the same set `Sock` of address pairs. A change of
  connection empties the list, so that only what is not reset can leak.
* A sysctl is a constant set of the values in use; a set with both values lets
  it change between any two calls.
* Concurrent calls of two connections on two CPUs (a data race in the code) are
  not modelled: calls are interleaved whole.

### FailureDetector

The abstract specification of the state machine: four phases, at most one
culprit, entered by accusation, left by acquittal, release or trust. A new
connection inherits nothing. `Rmptcp!Detector` maps the congestion flags of the
sockets that are no substitutes to the culprits; `DetectsFailures` says that
every behaviour of `Rmptcp` is one of `FailureDetector`.

### PathCheck

The array, the masks, the path index and the static variables of
`pathChecker()`. `SendNextSegment` is reduced to these; the congestion state is
a choice (an update that does not extend the list). Getting the combinations
(`getPathCombinations`) is kept with both its limits: `getAddresses` stops at
`MaxAddr` addresses, and does so before the destinations are read if it is the
sources that reach it. The order of the combinations is left open.
`CheckAvailSk` is the loop that drops entries as it walks the array, as a fold.
`planned` is a history variable: the list the combinations were found in. A list
without any combination leaves the index empty (`pI.num = 0`), but not the masks
in it, and the check tests the first of an earlier check all the same. The two
properties about tests exclude that case, which `star.cfg` shows. That a user clears
`runpathcheck` in the middle of a check is not modelled.

### QControl

The numbers of the code, with `% Wrap` for unsigned results and `ToInt` for the
casts. The state machine is reduced to its transitions (`Judged`), the subflows
to their number and to whether all enabled ones can take a segment (`calm`).
The scale is smaller than in the code, the proportions the same: 16 for one
copy instead of 100, steps of 1/4 instead of 1/16, and numbers modulo 256
instead of 2^32, which leaves room above every legal target as 2^32 does.
The calls made during a path check, which set `q_target` to the quota and keep
`cong_flag`, are not part of it.

### Seqno and OfoQueue

`Seqno` has `before()` and `after()` on numbers modulo `Wrap`. `OfoQueue` is the
queue as a sequence of segments and one shortcut per subflow, both without
state of their own: each function of `mptcp_ofo_queue.c` is an operator on a
record. A shortcut is the `id` of a segment, as in the code it is a pointer;
`FreshId` reuses the ids of freed segments, so that a pointer that should have
been reset would lead somewhere. `try_shortcut()` is `Search`: a shortcut that
fits exactly, else the walk from the back. Whether the kernel can join two
segments is open (`Appended`). `Drain` is `mptcp_ofo_queue()`.

The queue is not sorted by first byte where mappings overlap: a segment is put
right behind a shortcut that ends where it starts, even if an overlapping
segment with a smaller number is further on. Draining looks at the head only, and
a segment with a smaller number further on then waits although it could be
delivered. An example over six bytes, with nothing received yet: [2,4) and, through the shortcut to it,
[4,6) on one subflow, [3,5) on the other, which is left behind both; [1,3) goes to the head and frees [2,4), which it covers in part; [0,1) takes [1,3) with it up to 3, the
drain stops at [4,6), and [3,5) waits until [3,4) comes again on some subflow, as it
does after a time-out of the sender. `ShortcutsLeaveSomeWaiting` in `MCMetaReceive`
evaluates just these calls. What the code does keep is that bytes are missing in front
of the *head* (`GapInFront`).

### MetaReceive

One call of `mptcp_data_ready()`. Each segment of a subflow's queue passes
`mptcp_prevalidate_skb()`, `mptcp_detect_mapping()`, `mptcp_validate_mapping()`
and `mptcp_queue_skb()`, one action each (with one per outcome: `DetectIgnored`,
`DetectReset`, `ValidateFails`, `WrongCsum`, `DropMapping`, `Push`, ...); `at` is
the place of the call, so that `goto restart` is visible. Arrivals come between
calls: `ArriveNew` starts a mapping, `ArriveRest` goes on with it, `ArriveTwo`
and `ArriveJoined` are segments joined by a middlebox, `ArriveFin` the subflow's
end, `ArriveInfinite` the stream after a fallback, to which the peer goes over
in `PeerFallsBack`. Options may be lost on subflows that are established and
on others than the first, checksums may be wrong, `stripped` is a path without
any option, and the kernel may prune the queue (`PruneOfoQueue`).

Abstractions. Bytes are named by their 64-bit data sequence numbers, so that
`AppInOrder` compares numbers the receiver reconstructs with those meant. An option
has 32 bits of a data sequence number or all 64 (`Wide`); which of its two high halves the latter
has is found when the mapping is read. The
numbers of a subflow count from 0 and do not wrap. The peer is any that maps each
byte to its own number; it need not be `MetaSend`. Sizes of segments are 1 or 2
bytes. The DATA_FIN belongs to a mapping. Segments that TCP puts in order at
once are one call of `mptcp_data_ready()` each, not one for all of them. A subflow
that was reset is `dead` at once, and counted (`cnt_subflows`) until the worker that
closes it has run (`DelSock`): a checksum that fails in between resets the subflow
instead of falling back. Faults
are those the properties exclude: `joined` (segments of different mappings joined
before the subflow is established, or inside of one) and `nosplit` (no memory to
cut a segment), plus two histories, `skipped` and `freed`. The second is
`mptcp_validate_mapping()` removing as old a segment that the network has joined
with bytes of the mapping it has just read (`FreesMapped`): the mapping then waits
for bytes that are gone, and if the loop stood at that segment it goes on with one
that is freed, which is index 0 in `Handle`, before the first of the queue.

### MetaSend

The write queue is a sequence with the send head as an index, the reinject queue
another one, a subflow is the sequence of the copies put on it, with the number
of those that have arrived. A handler (`Write`, `SendFin`, `Ack`, the two timers,
`WriteWakeup`, `CloseSubflow`, `MpFail`) runs under the lock and ends with
`mptcp_push_pending_frames()`, modelled as no turn or one turn (`Push`) of the
loop in `mptcp_write_xmit()`, more turns being `WriteSpace`. A turn (`Xmit`)
takes a segment from the scheduler (`NextDefault`, `NextRoundRobin`,
`NextRedundant`), a subflow (`GetDefault`, ...), cuts it anywhere (`Fragmented`)
and puts a copy on any set of usable subflows, since rMPTCP does. `hi` and
`high` are the index flag and the two high halves of a 64-bit number
(`CheckSndseqWrap`, `Seq64`). The loop may break after the scheduler has made its choice,
before the segment is cut (no memory, no room, Nagle) or after it (no memory for the first copy): the redundant
scheduler has then noted a segment as the last of a subflow that was not sent on it, and a
reinjected one stays in its queue. The redundant scheduler's pointer to that segment dangles
(`Dangles`) when the segment was cut and its first part is acknowledged: what lies there has
no next segment, or by now is any segment of the queue (`NextOf`). The peer takes copies of a subflow in order, or
throws one away as `MetaReceive` may, and acknowledges.

Abstractions. Which subflows have room is open at each turn. Round trip times
are left out; `rr`'s quota lets any subflow be next. The faults (`close`,
`mpfail`, `nomem`, `split`, `discard`) happen at most once in a behaviour, the last three before any time-out. The redundant scheduler, whose `packets_out` grows without
end when an acknowledged segment is sent again after a time-out, has one byte
in behaviours with a time-out (`TimedLen`). In the run the round-robin scheduler, whose application
closes (`Closing`), has those that meet the DATA_FIN in ways of their own, the redundant one
the copy thrown away, the default scheduler the others (`AllFaults`). The default
scheduler's opportunistic retransmission (`HeadAgain`) may come at any time at which
the code considers it; its penalty on the slow subflow is a smaller window, which is
open anyway.

`packets_out` is an unsigned counter which the code compares with 0 and nothing else;
in the model it may be below 0, which stands for the wrap. The redundant scheduler
gets it there: it counts a segment as new again, or, out of memory, does not count one
that is acknowledged later. `QueueAccounting` therefore speaks of the other two. It
also leaves out the count after a fall back *inside* of a segment, which is a mark
in `faults`: the send queue starts again at `snd_una`, in the middle of the first
segment, and when that is cut its first part is counted although it is not sent
again.

### LowPass

`mptcp_data_ready()` as the filter sees it. `DataReady` is the walk that learns
the time between new segments (`CalcLowpassTimeout`), then each turn of the loop
either passes the filter (`Pass`), is refused and goes back to the head of the
queue (`Hold`), or throws the queue away (`Purge`). Ring, list and learned time
(`learn`, `list`) are the globals of the code: calls of two connections
interleave turn by turn. Times are ages in ticks, at most `Old`, older than a
second; `Tick` happens only when no turn could pass, as a turn is shorter than a
tick. All segments of a mapping carry its number, as the code stores it.
`queue_head`, `dsn_send` and `rmptcp_get_from_sk_queue()` are not used by the
code and the tests for times in the future never succeed with a monotonic
clock; neither is modelled.

### FullMesh

One host and one connection. `DeviceChanges` is the notifier, `TakeEvent` and
`ApplyEvent` the two halves of `mptcp_address_worker()` with their two locks; an
event that finds the socket owned is made up for in `Release`.
`WorkerStart`/`WorkerStep` and `RetryStart`/`RetryStep` are the workers, one
subflow per step, each on the copy of the table made at the start.
`RecvAddAddr`, `RecvRemAddr` and `AddrSignal` are the options, `JoinRequest`,
`JoinDone` and `JoinExpires` subflows of the peer, `SubflowLost` and `Reap` the
end of a subflow, `Ends` that of the connection. Bit fields are sets of slots.

Abstractions. Interface indexes are left out, and so are the ports but those in the announcements of the peer, which tell its addresses apart (mptcp_fullmesh.c:150); allocations succeed, the
socket is owned (`owned`) only when an event meets its owner. `conn.late` is a
history of seven kinds of events after which the code does not do what it does otherwise: an address that went while a worker had a copy with it (`copy`), one
that came back while its subflows were listed (`again`), a priority changed
meanwhile (`prio`), a master lost before it was fully established (`early`), an
address found at a release whose announcement is not counted (`unsaid`), further
subflows of the first pair from an address that is up but not in the table (`source`), an
IPv4 address of the peer that has two slots, one per port (`port`). A property excludes only
those it fails for: without any one of the exclusions TLC finds a counterexample.

## Runs

| run | module | question | bounds |
|---|---|---|---|
| `register` | MCRmptcp | Do list, flags, counts and state stay consistent? | 2 subflows, 2 connections, path checks, adaptive paths switched at any time, failing entail, one subflow that may vanish |
| `adapt` | MCRmptcp | Are selections redundant, do substitutes serve in the congestion state only, is the failure detection the promised one? | 3 subflows (two disjoint paths and the one that joins them), all network conditions that differ for the code, adaptive redundancy on or off |
| `live` | MCLive | Does sending go on, does the congestion state end? | the same 3 subflows, ready or in loss |
| `pathcheck` | MCPathCheck | Is the list sorted, are the tests free of overlap and complete, does a check end? | 3 subflows of 2 sources and 2 destinations, one that fails and vanishes |
| `qcontrol` | MCQControl | Is the target sane, do failures need fewer copies, is the quota met? | 2 connections, up to 3 subflows, a quota of 1.5 copies: out of reach of one subflow, in reach of two and three |
| `receive` | MCMetaReceive | Does the application get the stream, once and in order, do shortcuts lead into the queue, are bytes missing in front of the out-of-order queue? | 2 established subflows, 4 bytes in up to 3 mappings of up to 2 bytes that may overlap, over a wrap of the 32-bit numbers, which is all the options have |
| `fallback` | MCMetaReceive | The same while subflows are not established yet, options vanish, checksums fail and the connection falls back | 3 bytes in up to 3 mappings, a window of 2, checksums on, options of 64 bits, no wait for a mapping |
| `send` | MCMetaSend | Do write queue, send head, reinject queue and numbers stay together, is nothing freed that has not arrived? | 2 subflows, 2 bytes over a wrap (1 with the redundant scheduler after a time-out) and, with the round-robin scheduler, the DATA_FIN; 2 copies per subflow, one time-out and one fault |
| `fullmesh` | MCFullMesh | Is the table that of the devices, the mesh complete, every address announced, no pair used too often, no subflow left over? | 2 slots per family, 2 IPv4 addresses and one of IPv6, 4 announcements of the peer, two of them of one address under two ports, 9 cases of client and server, one or two subflows per pair |
| `lowpass` | MCLowPass | Is a segment held for a bounded time, do copies never pass for new segments? | 2 subflows of one connection or of two, a ring of 2, a mean of one time, times up to a second of 2 ticks |
| `stuck` | MCLive | violated: the congestion state ends | 2 subflows that may both vanish |
| `blocked` | MCLowPass | violated: `mptcp_data_ready()` returns | one subflow, a second of 3 ticks |

Why these bounds are enough. The scheduler treats subflows alike except for
their addresses and flags. Two subflows give one that fails and one that carries
on; three are needed for a substitute, which joins an end of a failed path with
an end of a working one. Two connections are needed for one to disturb another, a
third would only do the same. `NumInTime` is 1 or 2: the count is compared with
it and nothing else. Masks are one or two sets of indices, which disable a
subflow and enable it again. The path checker needs two combinations for the
step from one to the next: the three subflows of `pathcheck` reach combinations of
one path (several of them, while a subflow is missing) and of two.

In the receiver three mappings are a segment that waits, one that overlaps it or follows its
shortcut, and the one that fills the gap. An insertion can tell more apart, above all
where a shortcut has put a segment out of order (see `OfoQueue`); that takes five mappings
over six bytes, out of reach of TLC, which is why such a case is evaluated by itself. `ShortcutsQueued`
is proved for any number. `Isn` is two below a multiple of
`Wrap`, so that the numbers wrap in the middle of the stream, and `Wrap` is more
than twice the window, as in the code. In `receive` `NoMapWindow` is 1, so that one byte
may wait for its mapping and a second one resets the subflow; `freed` takes 3,
`fallback` 0. The runs are kept
to a few minutes; the invariants of `lowpass` also hold with `DaSize = 2` (2.4 million
states), checked by hand. In the sender two bytes are a segment that
can be cut once; the wrap lies behind the first byte. A single fault meets every
state of the queues; what needs two only the proofs cover (below). `dangling.cfg`
has three bytes under the redundant scheduler, so that segments are in the queue behind one
that was freed under its pointer; the six properties of `send` hold in its
930,000 states. Two slots in the mesh are
one that is freed and one that is reused meanwhile; the cases of `AllCases` split
the changes and faults so that each kind of host is exhausted by itself. In
`lowpass` two segments, a ring of two and two subflows are enough for
entries overwritten, stamped and reset; `OneSec` is longer than `MaxWait` as in
the code, and in `blocked` long enough for a sum of times to wrap.

`CHECK_DEADLOCK` is off in `receive`, `fallback`, `send` and `fullmesh`, whose
stream or connection ends and whose environment is bounded, and on elsewhere:
there the environment can always act.

### Violations among the runs

Behaviours of the code that contradict a comment of it, with line and quotation
under "findings" in `PROJECT.json`.

* `stuck`: in the congestion state entries may leave the list but none is
  added. When the list is empty nothing can be sent, and the state is left by a
  sent segment only.
* `blocked`: a refused segment sends `mptcp_data_ready()` back to the head of
  the queue. The first of two segments of an incomplete mapping passes when the
  learned time is over and stamps the only listed subflow, so that the second is
  refused; the call starts over and never returns, in softirq context.

### Other disagreements

Configurations kept beside the runs, one for each further disagreement of the
program with its comments; TLC finds each violated in seconds. Run one with
`tlc -config <name>.cfg <module>`.

| cfg | module | property | what happens |
|---|---|---|---|
| `intime` | MCRmptcp | `InTimeCountsFromFirstTimeout` | `inTime_cnt` is reset when the Timeout state is left for Recovery, not when it is left for the congestion state |
| `switch` | MCRmptcp | `NewConnectionStartsNew` | `timeout_start` survives a change of connection while the limit it is compared with becomes 0 |
| `enabled` | MCRmptcp | `NumEnabledIsExact` | removing an entry does not change `num_enabled`: it is an upper bound only (`RegisterConsistent` states this, and is proved) |
| `newcheck` | MCPathCheck | `ChecksEveryCombination` | `running` survives a change of connection |
| `sources` | MCPathCheck | `ChecksEveryCombination` | with `MAX_NUM_SRC_SK` sources the destinations are not counted |
| `star` | MCPathCheck | `PlannedTestsOverlapFree` | if no combination is found the first mask of an earlier check is tested; it may enable overlapping paths of the present list |
| `shrink` | MCPathCheck | `TestsOverlapFree` | masks name other subflows after an entry has been removed; as long as no index has shifted the tests are free of overlap (`UnshiftedTestsOverlapFree`, which passes) |
| `covered` | MCMetaReceive | `CoveredAsWhole` | "clean segments covered by new one as whole" (`mptcp_ofo_queue.c:206`): `try_shortcut()` also frees segments covered in part, whose bytes must come again |
| `freed` | MCMetaReceive | `CurrentIsKept` | "Impossible that we could free skb here" (`mptcp_input.c:943`): a segment joined of old bytes and bytes of the new mapping is freed while the loop stands at it |
| `rtxqueue` | MCMetaSend | `RtxQueueNotEmpty` | the redundant scheduler gives out a segment already sent as a new one (`mptcp_redundant.c:194`); `packets_out` counts it twice and stays positive when the queue is empty, where `mptcp_meta_retransmit_timer()` warns and reads the missing head |
| `removed` | MCFullMesh | `RemovesThatAddress` | the worker announces the *index* of the slot as removed where the peer knows the address by its id |

### What modelling has shown besides

Behaviours met while modelling that no comment contradicts, or that the
properties exclude by a fault or a history. They are in the models.

Receiver: a segment joined from two mappings is taken as a whole while an
earlier one of the mapping is queued; after a failed cut the mapping stays set;
a segment ignored for lack of a mapping moves `copied_seq` past earlier ones.
A middlebox that joins segments before the subflow is established starts a
fallback in the middle of the stream.

Sender: in an infinite mapping a data acknowledgement in the Loss state sends
the queue again; `MPTCP_REINJECT` is copied into clones, which are never
reinjected a second time; the reinject queue frees segments covered in part; a
cut of a sent segment across the 32-bit wrap copies the index of its first half
(`cut`); an MP_FAIL while the acknowledgement is inside of the first segment
counts the wrap twice (`inside`).

Low-pass filter: with one subflow more than `SK_LIST_SIZE` the one not listed is
held for ever while the others are stamped (`lowpass.cfg` with `SkListSize = 1`);
the segments of an incomplete mapping are learned again as new in every call;
the default of the learned time (200 ms) is replaced by 0 at the first new
segment; a mean of 1 to 99 ns never grows again, its hundredth being 0.

Full mesh: id 8 is both that of the eighth IPv4 slot and of the first IPv6 slot;
the first of two tests for the first pair takes IPv4 addresses of an IPv6 socket;
a copy of the table outlives slots that are reused, which the events of
`conn.late` stand for; an event that finds the table full is lost, and so is
an ADD_ADDR with its packet. The further subflows of the first pair have the
source of the master, whatever the table says: if that address has been taken
from the table and is back on its device, the worker can make them; if it goes
again before its event is taken, the two events merge into one that takes away an
address that is not in the table, which is dropped, and these subflows stay open from
an address that has gone. The proof of `SourcesAreLocal` came upon it (`source`);
the fifth case of `fullmesh` (`AllCases`) reaches it. The further subflows of the first pair are made with `low_prio` 0 whatever the table says (mptcp_fullmesh.c:481): from an address of low priority they stay normal until a change of that priority, or a release, reaches them. An IPv4 address that the peer announces under two ports takes two slots, so each local address gets its subflows twice.

### Fairness

* `MCLive`: calls recur. While there is data to send every acknowledgement,
  `mptcp_write_space()` and the retransmission timer lead to
  `mptcp_write_xmit()`. A call may change nothing, and TLA+'s fairness does not
  speak of such steps; the variable `tick` makes each call a step. Time passes:
  weak fairness of the clock actions. `HoldRunsOut` is fair only while no
  enabled subflow is in loss, as each loss starts the hold time again. Nothing
  is assumed of the network.
* `PathCheck`: the calls while a check is running, and the clock of the test.
* `QControl`: `SteadySend`, a call with all subflows ready that finds the same
  state, quota and number of subflows. With nothing else changing this is the
  only thing a call can do, and calls recur. `QuotaIsMet` only speaks of
  behaviours in which these stay the same for ever.
* `LowPass`, for `blocked`: a call that has begun is executed on, and the clock
  ticks. Both hold of a processor in a loop. `HoldsBriefly` is the bounded
  form of the same and needs no fairness.

`MetaSend`, `MetaReceive` and `FullMesh` have no liveness property: windows and
losses are free in them, and that data arrives rests on TCP, which is not part of
the source. `MeshDone` and `AllAnnounced` say instead what holds once nothing is
left to do.

## Proofs

Each proof is of the module's whole specification, for all values of its
constants that the assumptions in the module allow (`SockAssumption`,
`TuningAssumption`, `ReceiveAssumption`, ...: finitely many subflows, one per pair
of addresses, limits at least 1, distinct null values). A theorem that needs more
says so in its own `ASSUME`; each such hypothesis is a limit of the code, and what
happens beyond it is listed above.

| module | theorem | what is proved | further hypotheses |
|---|---|---|---|
| `RmptcpProofs` | `TypeCorrect`, `RegisterStaysConsistent`, `CountStaysBelowLimit`, `NoStaleCongestion` | `[]TypeOK`, `[]RegisterConsistent`, `[]InTimeBelowLimit`, `[]CongestedOnlyInCong` | |
| | `SubstitutesEnd` | `[]SubstitutesOnlyInCong` | `AlgorithmFixed` |
| | `SendsRedundantly` | `SelectionIsRedundant` | no failing entail |
| | `ImplementsDetector` | the refinement `DetectsFailures` | `AlgorithmFixed`, `SteadyList` |
| `QControlProofs` | `TypeCorrect`, `TargetStaysSane`, `FailureIsAnswered` | `[]TypeOK`, `[]TargetIsSane`, `[]FailureNeedsFewerCopies` | |
| `PathCheckProofs` | `StaysSorted` | `[]ListSorted` | |
| | `TypeCorrect`, `TestsWhatWasFound` | `[]TypeOK`, `[]UnshiftedTestsOverlapFree` | `IndexHolds` |
| | `MeasuresAll` | `ChecksEveryCombinationLeft` | `IndexHolds`, `SourcesFit` |
| `LowPassProofs` | `LearnsInRange`, `OneOwner` | `[]TypeOK`, `[]OneSockPerDsn` | |
| | `HeldBriefly` | `[]HoldsBriefly` | `ListHolds` |
| `FullMeshProofs` | `TableFollowsDevices`, `TypesHold`, `NoSourceLeftOver`, `PriorityFollows`, `AddressesAnnounced`, `MeshComplete` | `[]TableIsDevices`, `[]TypeOK`, `[]SourcesAreLocal`, `[]PrioFollows`, `[]AllAnnounced`, `[]MeshDone` | |
| `MetaReceiveProofs` | `ShortcutsLead` | `[]ShortcutsQueued` | infinitely many `Ids` |
| `MetaSendProofs` | `TypeCorrect`, `QueueIsAccounted`, `OrderedUntilEstablished`, `NothingFreedUnreceived` | `[]TypeOK`, `[]QueueAccounting`, `[]InOrderUntilEstablished`, `[]FreedIsReceived` | |

The hypotheses and why they are there:

* `AlgorithmFixed`: adaptive paths are off for ever, or on for ever with no path
  check. `rmptcp_adaptPath()` takes substitutes back only in the one call that
  finds `cong_flag` in Recovery; if that call does not run it they stay.
* `SteadyList`: one connection, and no entry is dropped. With more,
  `previous_skevent_i` may be the index of a subflow that has moved. The runs have
  dropped entries and two connections as well.
* No failing entail: a copy that finds no memory is one copy less.
* `IndexHolds`: `pM` has room for the combinations of every list. The code does not
  compare (hazards).
* `SourcesFit`: fewer sources than `MAX_NUM_SRC_SK`. With as many the destinations
  are not read (`sources.cfg`).
* `ListHolds`: no more subflows than `SK_LIST_SIZE`. One not listed is held for ever.
* Infinitely many `Ids`: `kmalloc()` finds room for another segment. A model with
  finitely many would run out, which the program does not see as such.

### The scheduler

None of the first four invariants is inductive alone. A call builds its register in
about fifteen operators, and the flags only stay inside the list because the list
is never shortened without them; the congestion flags are empty outside the
congestion state because *each* way into another state clears them and each blame
comes with the congestion state; the count stays below its limit because it grows
in the Timeout state only and is compared in the same call. The invariant `IInv`
says that the register between two calls is sound in all these respects. The
proof follows the call: one lemma per operator (`SwitchMetaSound`,
`UpdateSkListSound`, `AdaptPathSound`, `SelectionSound`, ...) says that it takes
sound registers to sound ones. Between `CalcSendPeriod` and the state machine the
count may be at its limit; `Judging` is the weaker predicate that holds there, and
`StateMachineSound` leads back. `SendNextSegmentSound` composes them, `StepSound`
adds the environment, `Invariance` closes the induction.

`AInv` adds to it when substitutes may be in use: in the congestion state, or in
Recovery with `cong_flag` set, which the next call sees. For the redundancy no
invariant is needed but that of the list: the proof counts what each branch of
the selection takes (`CallRedundant`). For the refinement `DInv` says besides that
`previous_skevent_i` is an index of the list, so that there is a culprit whenever
one is looked for (`SocketAt` is a bijection, by `PositionMonotone`), and
`StepDetects` sends each transition of the state machine to the action of
`FailureDetector` it is, and every other step to a stutter.

### The redundancy control

Whatever value the adaptation computes, the difference that wraps for no enabled
subflow included, the last sanity check brings it back. But the check does so only
if the quota is at least one copy, and before the first periodic update of a
connection the quota is 0. The invariant adds why this does no harm: as long as
the quota is unknown nothing has been sent, so the state is Open, in which the
target follows the quota, 0, and is raised to one copy. A second one, `RInv`,
keeps every number in the range of its C type and says that the target has been
lowered below the enabled subflows, unless the failure is new (`cong_flag`).

### The path checker

`ListInv` says that the array is sorted and has no entry twice; `InsertSk` and
`CheckAvailSk` keep it so. `CheckInv` follows a check: while it runs, the entries
of the index are overlap-free masks of the list the check began with (`planned`),
the mask in use is the one under test, and an entry of the list that has not moved
is enabled only if the mask names it. `MeasureInv` adds that the index has a mask
for every combination, and that those before the one under test have been measured
with just their paths enabled, or else that an entry of the planned list is lost.

### The low-pass filter

That no two subflows have the same number in the ring is kept because a number
enters only if the walk that looks for it has not found it. The holding time is
a matter of two clocks: `Waits` says that a segment has waited no longer than its
subflow has been silent. What the filter compares is the silence of *any* listed
subflow, among them that of the segment itself, since the list has room.

### The full mesh

`FMInv`: an event in the queue says what its device is now, and for an address
without an event the table does. Merging events (`AddPmEvent`), taking one
(`TakeEvent`) and changing a device each keep the two halves together. There is
at most one event for an address, and no two slots have the same.

`MeshInv` ties a connection to the table, on top of `FMInv`. Neither part of
`SourcesAreLocal` is inductive: an address leaves the table in `TakeEvent`, the
subflows go in `ApplyEvent`, and in between, or until the socket is released, the
property does not hold, while workers and joins go on. Its parts:

* `Typed`: the fields of the connection, of its work items and their copies.
* `SlotsKnown`: a slot noted as announced is in use, or the event being applied
  takes an address of its family away, or the socket is owned and the release will
  compare the bit fields. The event need not be that of the slot, as `ApplyEvent`
  goes through the whole bit field.
* `FromTable`: the source of an open subflow is in the table, or it is the address
  that is just being taken away, or the socket is owned.
* `Current`: what the copies of the two workers and a join under way have of the
  table is still there, or `copy` is in the history. Without it the next subflow of
  a worker could be from any address.

`ConnInv` is a predicate on a connection, a table and an event, so that it can be
carried through a handler from one operator to the next (`CreateKept`, `InvKept`,
`RowKeeps`, `SubflowsKeep`, `AppliedDelKeeps`, ...). Lemmas say of each operator which
fields it leaves alone (`Keeps`), one lemma per action follows, and `StepKeeps`
closes the induction. The number of addresses and slots, and of subflows
per pair, is any; the assumptions that an event, a combination of slots and a work item
are not the null value (`FullMeshAssumption`, `NoneAssumption`) are those of pointers.

`PrioInv` carries `PrioFollows`, on top of these two. A priority enters the table in
`TakeEvent` and reaches the subflows in `ApplyEvent`, or in `Release` if the socket
was owned; meanwhile the workers and the joins make subflows with the priority they
have read before. Its parts:

* `LowFits`: an open IPv4 subflow has the priority that the table has for its address,
  or it is a further one of the first pair and not low, or the event being applied
  changes this priority or takes this address away, or the socket is owned.
* `Seen`: for every slot of a copy, and for the source of a join, the table still has
  that address with that priority. Without it the next subflow of a worker could be
  of any priority.
* `NowFits`: an event that changes a priority says what the table says, so that
  applying it makes the subflows fit.

`LowFits` and `Seen` hold as long as the history has neither `copy` nor `prio`, like
the property. The further subflows of the first pair are exempt in one direction only:
the worker makes them with `low_prio` 0, so they may be normal where their address is
low, never low where it is normal. The steps of the workers
are split into what they do to the connection (`WorkerStepIs`, `RetryStepIs`) and what
that keeps.

`SaidInv` carries `AllAnnounced` and counts. The counter goes up in `ApplyEvent` and
`Release`, starts in `NewSession` and goes down in `AddrSignal`, while the slots that it
counts come and go in `TakeEvent`. So it is a bound and not an equation:

* `Counted`: the slots in use that are not noted as announced (`Wanted`) are at most
  as many as `add_addr`, and one more while an addition is being applied; or the socket
  is owned. An address that goes before it was announced leaves the counter too high,
  and `AddrSignal` counts it down when there is nothing to announce.
* `Heard`: a slot that is noted as announced and in use has an address the peer was
  told of. It needs `again` excluded: a slot used for another address while its bit
  is still set.

With `unsaid` excluded, the slots the release adds to the counter include every slot of
`Wanted`. Once nothing is under way and the counter is zero there are none.

`DoneInv` carries `MeshDone`. It says of every pair of slots, that of an address of the
host and that of one of the peer, who is going to try it. Its parts:

* `Tried`: a pair not yet noted as tried is `Awaited`: the worker is pending and will take
  a new copy; or it runs and has the slot in its copy; or the event being applied adds
  the address, or the socket is owned, and no subflow is listed from it (`Fresh`). The
  release looks for such addresses only. This is why `again` is excluded: one that comes
  back while a subflow from it is still listed may start no worker.
* `BitsKnown`: the slots noted as tried are in use, or the event being applied takes away
  an address of that family, or the socket is owned; those to be tried again are among
  them. A removal has to clear both bit fields, wherever it is done.
* `Again`: if a slot waits for its second try, the retry worker is pending or running, or
  the subflow worker runs and has noted that it has to start it.
* `SameSlots`: what the copies of both workers have in a slot the table still has there.
  This excludes `copy`. Without it the worker would note a slot as tried that is
  used for another address by now, or is empty.
* `MasterThere`: until it is reaped the first subflow is listed, once; before it is fully
  established no work item is queued. The retry worker goes by the subflows listed, and
  a release takes the address of the first subflow for one that has subflows, so that
  `NewSession` and `SetInitAddrBit` must have noted its pair; `Unborn` says that the
  peer's addresses are unknown before.

Each operator of a handler either asks for no more than before (`Proceeds`, `Follows`) or
queues the worker. When all is quiet no worker is pending or running, no event is
applied and nobody owns the socket, so that `Awaited` leaves nothing (`AllTried`).
TLC has checked `DoneInv` on the instance of `fullmesh`.

### The shortcuts

`mptcp_remove_shortcuts()` clears the shortcut of the first subflow only that has
the segment which is freed. This is enough as no two subflows have the same one,
which is so because a shortcut is set to a new segment only. The invariant (`Sound`)
has these together with the segments being distinct, and the types of everything
the handlers of the receiver work on; one lemma per operator of `OfoQueue` and per
action.

### The sender

The four theorems share one invariant, `IInv`; none of the four properties is inductive
alone. That a freed byte has arrived needs that everything acknowledged has, and
that the queue starts where the acknowledgement is or before, which `CleanRtxQueue`
keeps only if the segments follow each other (`Seamless`). That the counts agree needs
`snd_nxt` at the send head (`Aligned`): `mptcp_fragment()` decides by `snd_nxt` whether
the new segment is counted. That a subflow gets its data in order needs more than what
the property says: `last_end`, which `mptcp_is_temp_unavailable()` reads, is the end of
the last copy as long as the subflow is not established, or lies beyond the stream once
the DATA_FIN has gone out, so that no other segment matches it (`Row`). And an
acknowledgement proves arrival only until the connection falls back, when it is
inferred from the sequence numbers of TCP (`Received`).

`Good` holds between any two operators of a handler, not only between handlers, and is
what each lemma carries: `EntailGood`, `FragmentedGood`, `NewDataSentGood`,
`CleanedGood`, `ReinjectSegGood`, `ClosedGood`, ... Each also says what its operator
leaves alone (`Still`, `Same`), since the next one relies on it: the reinjection of
the copies of a subflow must not move the write queue it reads. `XmitGood` and
`DataAckGood` compose them, one `...Step` lemma per action follows, and `Invariance`
closes the induction. The proof makes no use of the bounds on faults and time-outs
(`May`, `MayTimeOut`): any number of them, in any order, is covered, as are all streams,
windows and numbers of subflows. TLC has checked `IInv` on the instance of `send`.

### Folds

Loops over arrays and queues are folds in the models. `FoldLeft` is recursive, and
an induction principle for it would take a predicate as its parameter, which the
provers cannot be given. `FoldProofs` goes by the least-number principle, stated
with sets: `FoldExists` gives the sequence of the intermediate values of a fold
whose step maps a set into itself, `IndexInduction` carries a *set* of good indices
from one to the next. `FoldWithin` and `FoldStays` are the two forms most loops need:
a set of allowed values for each index, and one set for all. A proof puts the indices at which its predicate holds
into that set. The lemmas at the end say what a sequence is from which an element
is removed, or into which one is put.

### What stays with TLC

* Liveness (`KeepsSending`, `CongEnds`, `CheckEnds`, `QuotaIsMet`,
  `DoesNotBlock`): beyond the prover.
* `MetaReceive`'s `AppInOrder`, `QueuedAreMeant` and `GapInFront`: they rest
  on what numbers modulo `Wrap` mean, on mappings cut and joined over several calls,
  and on the ring of the high halves; `TypeOK` has bounds that follow from the same.
* `MetaSend`'s `ReinjectSorted` and `ChecksumNumbers`. The first depends on
  how many faults there are, which the others do not: a segment that could not be sent
  for lack of memory and then gets the DATA_FIN may meet its shorter self in the
  reinject queue. It needs an invariant about which segments may overlap. The second rests on numbers
  modulo `Wrap` and on which of two high halves is the current one.
* `FullMesh`'s `SubflowsPerPair`. It counts the open subflows between two addresses, while
  the workers go by slots: an invariant would say for each slot how many subflows the
  worker has still to make from it, and that no address of the peer is in two slots,
  which the code does not see to. TLC finds that a peer which announces the address the
  application has connected to under an identifier of its own, instead of those of
  `Peers`, gets more than `num_subflows` subflows to it.

## Not modelled

* Reference counts of the control block, keys and tokens, time-wait sockets and
  socket options of `mptcp_ctrl.c`: mostly memory management and tables of the
  kernel; subflows being added, lost and closed is in `MetaSend`, `MetaReceive`
  and `FullMesh`.
* Establishing: MP_CAPABLE and MP_JOIN with their authentication, request sockets,
  hashing (`mptcp_ipv4.c`, `mptcp_ipv6.c`). `FullMesh` has their outcome.
* The bytes of options; MP_FASTCLOSE and MP_PRIO at the receiver.
* Coupled congestion controls: fixed-point arithmetic on windows and round trip
  times; what they decide is open in `MetaSend`.
* The path managers `ndiffports` and `binder`: loops over ports and gateways.
* Proc files and the control center: output and input of the sysctls, whose
  values are constants and choices here.
* Memory: dangling subflow pointers, the write behind the list by
  `rmptcp_insert_sk()` with more than `MAX_NUM_RED_SK` subflows, and races of
  unlocked globals on two processors. The models interleave whole calls (or whole
  turns of the loop in `LowPass`), and name subflows rather than point at them.

## Plan

Done, in the order of importance: `SkList`, `Rmptcp` with `FailureDetector`,
`PathCheck`, `QControl`; then `OfoQueue` with `MetaReceive`, `LowPass`, `MetaSend`
with the plain schedulers, `FullMesh`; proofs about all of them, each one's central
safety properties.

What could follow:

1. Proofs: `ChecksumNumbers` of `MetaSend`, from an invariant that ties `index` and
   `high` to `snd_nxt` (a queue never spans more than one wrap, by `SendAssumption`);
   `ReinjectSorted` for the faults of the run.
2. Proofs: the types of `MetaReceive`, which `Sound` contains in part;
   `SubflowsPerPair` of `FullMesh` for peers whose addresses differ.
3. `Subflows`: the reference count of the control block while subflows close,
   if it can be kept apart from the kernel's sockets.
