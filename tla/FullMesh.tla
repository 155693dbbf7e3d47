------------------------------ MODULE FullMesh ------------------------------
(***************************************************************************)
(* The full-mesh path manager, which decides over which pairs of addresses *)
(* rMPTCP has subflows.  One host and one connection of it.                *)
(*                                                                         *)
(*   device --notifier--> events --address worker--> table of addresses    *)
(*                                        |                                *)
(*                                        v    ADD, DEL, MOD               *)
(*   peer --ADD_ADDR, REMOVE_ADDR--> connection <--copy-- subflow worker   *)
(*                                                                         *)
(* The address worker changes the table under a spin lock (TakeEvent) and  *)
(* then applies the event to the connection under the lock of its meta     *)
(* socket (ApplyEvent); when the application owns the socket the           *)
(* connection compares itself with the table at the release.  The two      *)
(* subflow workers copy the table once, and take and give back the lock    *)
(* for every subflow.  Bits of a table are sets of slots.                  *)
(*                                                                         *)
(* tcp_send_ack() in a handler is a step of its own (AddrSignal): any      *)
(* packet carries the options, and the ACK may fail.  A handler that finds *)
(* the socket owned goes to the backlog: it runs once it is released.      *)
(***************************************************************************)
EXTENDS Integers, Sequences, SequencesExt, FiniteSetsExt, Bags

CONSTANTS
  Addr4, Addr6,   \* addresses of the host
  None,           \* no slot, no address, no event
  MaxAddr,        \* slots of a table (MPTCP_MAX_ADDR)
  Cases,          \* connections and bounds, see FullMeshAssumption
  MasterDst,      \* the address the application connects to, by family
  RemAddrs,       \* addresses the peer announces: [id, addr, port, fam]
  UpAtStart       \* the addresses that are up, and in the table, at the start

ASSUME FullMeshAssumption ==
  /\ Addr4 \cap Addr6 = {} /\ None \notin Addr4 \cup Addr6 /\ None \notin Nat
  /\ None \notin [addr : Addr4 \cup Addr6, low : BOOLEAN, code : {"add", "del", "mod"},
                 id : (0..MaxAddr - 1) \cup {None}]   \* an event is not None
  /\ IsFiniteSet(Addr4 \cup Addr6)
  /\ UpAtStart \subseteq Addr4 \cup Addr6             \* and there is room for them
  /\ Cardinality(UpAtStart \cap Addr4) <= MaxAddr
  /\ Cardinality(UpAtStart \cap Addr6) <= MaxAddr
  /\ MaxAddr \in Nat \ {0, 1}
  /\ \A k \in Cases :
       /\ k.kind \in [family: {4, 6}, v6only: BOOLEAN, server: BOOLEAN,
                     flows: Nat \ {0}]                \* flows is num_subflows
       /\ k.moving \subseteq Addr4 \cup Addr6          \* the addresses whose device changes
       /\ k.changes \in Nat                          \* changes of the devices at most
       /\ k.faults \in Nat   \* options of the peer, failing or lost subflows, ends at most
  /\ \A r \in RemAddrs : r.id \in Nat \ {0} /\ r.fam \in {4, 6}

VARIABLES
  dev,      \* the addresses of the host: up, low priority
  ns,       \* struct mptcp_fm_ns: the table, the events, the event being applied
  conn,     \* the connection with its struct fullmesh_priv, subflows and workers
  budget    \* changes and faults that may still happen

vars == <<dev, ns, conn, budget>>

Addr == Addr4 \cup Addr6
Family == {4, 6}
Slot == 0..MaxAddr - 1
Fam(a) == IF a \in Addr4 THEN 4 ELSE 6
LocId(f, i) == IF f = 4 THEN i + 1 ELSE i + MaxAddr
First(S) == Min(S)

\* mptcp_find_address(): the slot of an address.
FindAddress(t, a) ==
  LET hits == {i \in t[Fam(a)].bits : t[Fam(a)].addr[i] = a}
  IN  IF hits = {} THEN None ELSE First(hits)

\* Variant: the search does not start again from the first slot.
FreeIndex_NoWrap(bits, base) ==
  LET free == Slot \ bits
      high == {i \in free : i >= base}
  IN  IF free = {} THEN None ELSE IF high = {} THEN base ELSE First(high)

\* The first free slot from base on, else the first one.
FreeIndex(bits, base) ==
  LET free == Slot \ bits
      high == {i \in free : i >= base}
  IN  IF free = {} THEN None ELSE First(IF high = {} THEN free ELSE high)

\* Nor is None a combination of slots, or what a work item works on.
ASSUME NoneAssumption ==
  /\ None \notin Family \X Slot \X Slot
  /\ None \notin [loc : [Family -> [bits : SUBSET Slot, addr : [Slot -> Addr \cup {None}],
                                    low : [Slot -> BOOLEAN], next : 0..MaxAddr]],
                  again : BOOLEAN]

(*                        Devices and their events                         *)

\* The events that wait for the same address.
Similar(q, e) == {k \in DOMAIN q : q[k].addr = e.addr}

\* Variant: an event that waits for the address is left as it is.
AddPmEvent_Similar(q, e) == IF Similar(q, e) # {} THEN q ELSE Append(q, e)

\* A removal takes the first of them away and goes to the end, others change it.
AddPmEvent(q, e) ==
  LET similar == Similar(q, e)
  IN  CASE similar = {} -> Append(q, e)
        [] similar # {} /\ e.code = "del" -> Append(RemoveAt(q, First(similar)), e)
        [] OTHER -> [q EXCEPT ![First(similar)] = e]

\* The event of the notifiers; none for the flags of a device that is down.
EventCode(old, new) ==
  IF ~new.up THEN "del" ELSE IF old.up THEN "mod" ELSE "add"

Notified(q, a, old, new) ==
  IF ~old.up /\ ~new.up THEN q
  ELSE AddPmEvent(q, [addr |-> a, code |-> EventCode(old, new), low |-> new.low])

DeviceChanges(a) ==
  \E new \in {[dev[a] EXCEPT !.up = ~@], [dev[a] EXCEPT !.low = ~@]} :
    /\ budget.changes > 0 /\ a \in budget.moving
    /\ dev' = [dev EXCEPT ![a] = new]
    /\ ns' = [ns EXCEPT !.events = Notified(@, a, dev[a], new)]
    /\ budget' = [budget EXCEPT !.changes = @ - 1]
    /\ UNCHANGED conn

Without(t, e) == [t EXCEPT ![Fam(e.addr)].bits = @ \ {FindAddress(t, e.addr)}]

\* The address in its slot; a new one moves the place where the next search starts.
With(t, e) ==
  LET f == Fam(e.addr)
      old == FindAddress(t, e.addr)
      i == IF old # None THEN old ELSE FreeIndex(t[f].bits, t[f].next)
      u == [t EXCEPT ![f].addr[i] = e.addr, ![f].low[i] = e.low]
  IN  IF old # None THEN u ELSE [u EXCEPT ![f].bits = @ \cup {i}, ![f].next = i + 1]

\* An event that changes nothing, or finds no room, is dropped.
Dropped(t, e) ==
  LET f == Fam(e.addr)
      i == FindAddress(t, e.addr)
  IN  CASE e.code = "del" -> i = None
        [] e.code # "del" /\ i = None -> FreeIndex(t[f].bits, t[f].next) = None
        [] OTHER -> t[f].low[i] = e.low

\* The event as it is applied; id is the slot of a removed address.
Taken(t, e) ==
  LET i == FindAddress(t, e.addr)
  IN  [addr |-> e.addr, low |-> e.low,
       code |-> IF e.code # "del" /\ i = None THEN "add" ELSE e.code,
       id |-> IF e.code = "del" THEN i ELSE None]

\* The slots the connection has bits of.
Noted(c, f) ==
  c.ann[f] \cup UNION {c.rem[f][j].bits : j \in {k \in Slot : c.rem[f][k] # None}}

(* History: what the properties exclude, since the code does not cope with it.   *)
(* "copy": an address went that a worker or a join has seen;  "again": one came  *)
(* back with subflows listed, or into a slot the connection still has bits of;   *)
(* "prio": the priority changed beside a worker or a join, or with an ADD.       *)
Late(e) ==
  LET f == Fam(e.addr)
      i == FindAddress(ns.loc, e.addr)
      busy == conn.work.run # None \/ conn.retry.run # None \/ conn.req # None
      copy == e.code = "del" /\ busy
      again == /\ i = None
               /\ \/ \E s \in DOMAIN conn.sub : s.src = e.addr
                  \/ FreeIndex(ns.loc[f].bits, ns.loc[f].next) \in Noted(conn, f)
      prio == i # None /\ e.code # "del" /\ (busy \/ e.code = "add")
  IN  {w \in {"copy", "again", "prio"} :
         CASE w = "copy" -> copy [] w = "again" -> again [] w = "prio" -> prio}

TakeEvent ==
  /\ ns.now = None /\ ns.events # <<>>
  /\ LET e == Head(ns.events)
         t == IF Dropped(ns.loc, e) THEN ns.loc
              ELSE IF e.code = "del" THEN Without(ns.loc, e) ELSE With(ns.loc, e)
     IN  /\ ns' = [loc |-> t, events |-> Tail(ns.events),
                   now |-> IF Dropped(ns.loc, e) THEN None ELSE Taken(ns.loc, e)]
         /\ conn' = IF Dropped(ns.loc, e) THEN conn
                    ELSE [conn EXCEPT !.late = @ \cup Late(e)]
  /\ UNCHANGED <<dev, budget>>

(*                             The connection                              *)

Concerns(c, f) == IF f = 4 THEN ~c.kind.v6only ELSE c.kind.family = 6

\* Variant: it is not queued while it runs.
CreateSubflows_Busy(c) ==
  IF c.infinite \/ c.kind.server \/ c.dead \/ c.master = "new" \/ c.work.run # None THEN c
  ELSE [c EXCEPT !.work.pending = TRUE]

\* The work item is queued unless it waits already; it may be running.
CreateSubflows(c) ==
  IF c.infinite \/ c.kind.server \/ c.dead \/ c.master = "new" THEN c
  ELSE [c EXCEPT !.work.pending = TRUE]

UpdateBitfields(c, t) ==
  [c EXCEPT
     !.told = {a \in @ : FindAddress(t, a) # None},
     !.ann = [f \in Family |-> c.ann[f] \cap t[f].bits],
     !.rem = [f \in Family |-> [j \in Slot |->
                IF c.rem[f][j] = None THEN None
                ELSE [c.rem[f][j] EXCEPT !.bits = @ \cap t[f].bits,
                                     !.retry = @ \cap t[f].bits]]]]

\* Each subflow s becomes new[s].
Changed(c, new) ==
  [c EXCEPT !.sub = [e \in Range(new) |->
     MapThenSumSet(LAMBDA s : c.sub[s], {s \in DOMAIN new : new[s] = e})]]

\* A closed subflow stays in connection_list until its work item runs (Reap).
Closed(c, S) ==
  Changed(c, [s \in DOMAIN c.sub |-> IF s \in S THEN [s EXCEPT !.open = FALSE] ELSE s])

\* They are closed and their ids announced as removed.
Removed(c, S) == [Closed(c, S) EXCEPT !.remove = @ \cup {s.lid : s \in S}]

\* low is the priority of the subflows that get one.
Prioritised(c, low) ==
  Changed(c, [s \in DOMAIN c.sub |-> IF s \in DOMAIN low THEN [s EXCEPT !.low = low[s]] ELSE s])

\* Variant: add_addr is a flag.
AppliedAdd_Flag(c) == CreateSubflows([c EXCEPT !.add = 1])

AppliedAdd(c) == CreateSubflows([c EXCEPT !.add = @ + 1])

AppliedDel(c, e, t) ==
  LET from == {s \in DOMAIN c.sub : s.src = e.addr}
      d == UpdateBitfields(c, t)
  IN  IF from # {} THEN Removed(d, from)
      ELSE IF e.id > 0 THEN [d EXCEPT !.remove = @ \cup {e.id}] ELSE d

\* Variant: the test of the IPv6 branch for IPv4 as well.
AppliedMod_Others(c, e) ==
  Prioritised(c, [s \in {x \in DOMAIN c.sub : Fam(x.src) = Fam(e.addr) /\ x.src # e.addr} |-> e.low])

\* For IPv6 the test is the wrong way round: all the other addresses change.
AppliedMod(c, e) ==
  LET same == {s \in DOMAIN c.sub : s.src = e.addr}
      others == {s \in DOMAIN c.sub : Fam(s.src) = 6 /\ s.src # e.addr}
  IN  Prioritised(c, [s \in IF Fam(e.addr) = 4 THEN same ELSE others |-> e.low])

Applied(c, e, t) ==
  CASE e.code = "add" -> AppliedAdd(c)
    [] e.code = "del" -> AppliedDel(c, e, t)
    [] e.code = "mod" -> AppliedMod(c, e)

\* The application, or a worker, owns the socket: the event is left to the
\* release.  An owner that no event meets just delays the other handlers.
ApplyEvent ==
  /\ ns.now # None
  /\ LET applies == /\ conn.phase = "open" /\ Concerns(conn, Fam(ns.now.addr))
                    /\ ~conn.infinite /\ conn.pm = "fullmesh"
     IN  \/ ~applies /\ conn' = conn
         \/ applies /\ conn' = [conn EXCEPT !.owned = TRUE]
         \/ applies /\ ~conn.owned /\ conn' = Applied(conn, ns.now, ns.loc)
  /\ ns' = [ns EXCEPT !.now = None]
  /\ UNCHANGED <<dev, budget>>

\* The slots whose address is the source of no listed subflow.
Unused(c, t) ==
  UNION {{<<f, i>> : i \in {k \in t[f].bits : \A s \in DOMAIN c.sub : s.src # t[f].addr[k]}} :
           f \in {g \in Family : Concerns(c, g)}}

\* Variant: removals are not looked for.
ReleaseSock_Additions(c, t) ==
  LET new == Cardinality(Unused(c, t))
      a == IF new = 0 THEN c ELSE CreateSubflows([c EXCEPT !.add = @ + new])
  IN  UpdateBitfields(a, t)

\* Priorities, then additions, then removals, at last the bit fields.
ReleaseSock(c, t) ==
  LET known == {s \in DOMAIN c.sub : FindAddress(t, s.src) # None}
      new == Cardinality(Unused(c, t))
      p == Prioritised(c, [s \in {x \in known : Concerns(c, Fam(x.src))} |->
                             t[Fam(s.src)].low[FindAddress(t, s.src)]])
      a == IF new = 0 THEN p ELSE CreateSubflows([p EXCEPT !.add = @ + new])
  IN  UpdateBitfields(Removed(a, {s \in DOMAIN a.sub : FindAddress(t, s.src) = None}), t)

\* History: an address with a subflow counts as known although it was not announced.
Unsaid(c, t) ==
  IF \E f \in Family : Concerns(c, f) /\
       \E i \in t[f].bits \ c.ann[f] : <<f, i>> \notin Unused(c, t)
  THEN {"unsaid"} ELSE {}

Release ==
  /\ conn.owned
  /\ conn' = ReleaseSock([conn EXCEPT !.owned = FALSE,
                                      !.late = @ \cup Unsaid(conn, ns.loc)], ns.loc)
  /\ UNCHANGED <<dev, ns, budget>>

NoTable == [f \in Family |-> [j \in Slot |-> None]]

Remote(r) == [id |-> r.id, addr |-> r.addr, port |-> r.port, bits |-> {}, retry |-> {}]

\* The slots that have the id, for IPv4 not with the same address and another port.
SameId(table, r) ==
  {j \in Slot : /\ table[j] # None /\ table[j].id = r.id
                /\ r.fam = 4 => table[j].addr # r.addr \/ table[j].port = r.port}

\* A known address; one that has moved, behind a NAT; a new one, which needs a slot.
AddRaddr(c, r) ==
  LET table == c.rem[r.fam]
      j == First(SameId(table, r))
      free == FreeIndex({k \in Slot : table[k] # None}, 0)
  IN  IF SameId(table, r) # {}
      THEN [c EXCEPT !.rem[r.fam][j] = [@ EXCEPT !.addr = r.addr, !.port = r.port]]
      ELSE IF free = None THEN c ELSE [c EXCEPT !.rem[r.fam][free] = Remote(r)]

\* Variant: the pair of the first subflow is not noted.
SetInitAddrBit_Never(c, f, a, i) == c

SetInitAddrBit(c, f, a, i) ==
  LET hits == {j \in Slot : c.rem[f][j] # None /\ c.rem[f][j].addr = a}
  IN  IF hits = {} THEN c ELSE [c EXCEPT !.rem[f][First(hits)].bits = @ \cup {i}]

Master(src, low) ==
  [src |-> src, dst |-> MasterDst[Fam(src)], lid |-> 0, rid |-> 0, low |-> low,
   master |-> TRUE, open |-> TRUE]

\* A connection from an address that is not in the table gets the default manager.
Session(c, t, src) ==
  LET f == Fam(src)
      i == FindAddress(t, src)
      others == (UNION {{<<g, k>> : k \in t[g].bits} : g \in {h \in Family : Concerns(c, h)}})
                \ {<<f, i>>}
      known == AddRaddr(c, [id |-> 0, addr |-> MasterDst[f], port |-> 0, fam |-> f])
  IN  IF i = None
      THEN [c EXCEPT !.pm = "default", !.sub = SetToBag({Master(src, FALSE)})]
      ELSE [SetInitAddrBit(known, f, MasterDst[f], i) EXCEPT
              !.add = Cardinality(others), !.ann[f] = {i},
              !.sub = SetToBag({Master(src, t[f].low[i])}), !.told = {src}]

NewSession ==
  \E src \in Addr :
    /\ conn.phase = "none" /\ dev[src].up /\ Fam(src) = conn.kind.family
    /\ conn' = Session([conn EXCEPT !.phase = "open", !.source = src], ns.loc, src)
    /\ UNCHANGED <<dev, ns, budget>>

\* The workers of the connection are only there with the full-mesh manager.
Live == conn.phase = "open" /\ conn.pm = "fullmesh"

FullyEstablished ==
  /\ Live /\ conn.master = "new" /\ ~conn.owned
  /\ \E s \in DOMAIN conn.sub : s.master /\ s.open
  /\ conn' = CreateSubflows([conn EXCEPT !.master = "est"])
  /\ UNCHANGED <<dev, ns, budget>>

(*                          The subflow workers                            *)

\* A worker starts with a copy of the table; "again" asks for the retry worker.
Started == [pending |-> FALSE, run |-> [loc |-> ns.loc, again |-> FALSE]]

WorkerStart ==
  /\ conn.work.pending /\ conn.work.run = None
  /\ conn' = [conn EXCEPT !.work = Started]
  /\ UNCHANGED <<dev, ns, budget>>

\* k subflows of a pair come about: none when the source is not up, or cannot be bound to.
WithSubflows(c, src, dst, lid, rid, low, k) ==
  IF k = 0 THEN c
  ELSE LET s == [src |-> src, dst |-> dst, lid |-> lid, rid |-> rid, low |-> low,
                 master |-> FALSE, open |-> TRUE]
       IN  [c EXCEPT !.sub = @ (+) [new \in {s} |-> k], !.told = @ \cup {src}]

\* A slot that was never used is address 0 with id 0: the route gives the source.
Subsockets(c, copy, f, j, i, src, k) ==
  LET r == c.rem[f][j]
      lid == IF copy[f].addr[i] = None THEN 0 ELSE LocId(f, i)
  IN  WithSubflows(c, src, r.addr, lid, r.id, copy[f].low[i], k)

SourceOf(copy, f, i) ==
  IF copy[f].addr[i] # None THEN {copy[f].addr[i]} ELSE {a \in Addr : Fam(a) = f}

Faulty == budget.faults > 0 /\ budget' = [budget EXCEPT !.faults = @ - 1]

\* All come about from an address that is up, fewer when something fails.
Connects(src, k) ==
  /\ dev[src].up \/ k = 0
  /\ IF k = conn.kind.flows \/ ~dev[src].up THEN UNCHANGED budget ELSE Faulty

\* The further subflows of the first pair.  Those of an IPv6 connection are
\* tried with the IPv4 addresses of its socket, which it does not have.
\* History: "source", from an address that is up but not in the table.
FirstPair(c, k) ==
  IF c.first \/ c.master = "gone" THEN c
  ELSE LET src == c.source
       IN  [WithSubflows(c, src, MasterDst[Fam(src)], 0, 0, FALSE, k) EXCEPT
              !.first = TRUE,
              !.late = @ \cup {w \in {"source"} : k > 0 /\ FindAddress(ns.loc, src) = None}]

FurtherOfFirstPair(s) == s.lid = 0 /\ ~s.master

FirstPairs(c) ==
  IF c.first \/ c.master = "gone" \/ c.kind.family = 6 THEN {0}
  ELSE IF dev[c.source].up THEN 0..c.kind.flows - 1 ELSE {0}

Remaining(c, copy, f, j) ==
  IF c.rem[f][j] = None THEN {} ELSE copy[f].bits \ c.rem[f][j].bits

ToRetry(c, f, j) == IF c.rem[f][j] = None THEN {} ELSE c.rem[f][j].retry

\* The next combination: IPv4 before IPv6, then by slot.
NextPair(todo) ==
  LET f == First({p[1] : p \in todo})
      j == First({p[2] : p \in {q \in todo : q[1] = f}})
      i == First({p[3] : p \in {q \in todo : q[1] = f /\ q[2] = j}})
  IN  IF todo = {} THEN None ELSE <<f, j, i>>

Pairs == Family \X Slot \X Slot

WorkerEnds(c) ==
  [c EXCEPT !.work.run = None, !.retry.pending = @ \/ c.work.run.again]

\* One subflow under the lock, or the end.  Without a route it is tried once more.
WorkerStep ==
  /\ conn.work.run # None /\ ~conn.owned
  /\ \E x \in FirstPairs(conn) :
       LET c == FirstPair(conn, x)
           copy == c.work.run.loc
           n == NextPair({p \in Pairs : p[3] \in Remaining(c, copy, p[1], p[2])})
           f == n[1]
           j == n[2]
           i == n[3]
           d == [c EXCEPT !.rem[f][j].bits = @ \cup {i}]
       IN  \/ /\ c.dead \/ c.master = "new"
              /\ conn' = [c EXCEPT !.work.run = None]
              /\ UNCHANGED budget
           \/ /\ ~c.dead /\ c.master # "new" /\ n = None
              /\ conn' = WorkerEnds(c)
              /\ UNCHANGED budget
           \/ /\ ~c.dead /\ c.master # "new" /\ n # None
              /\ LET src == copy[f].addr[i]
                 IN  \E k \in 0..c.kind.flows :
                       /\ conn' = Subsockets(d, copy, f, j, i, src, k)
                       /\ Connects(src, k)
           \/ /\ ~c.dead /\ c.master # "new" /\ n # None
              /\ conn' = [d EXCEPT !.rem[f][j].retry = @ \cup {i}, !.work.run.again = TRUE]
              /\ Faulty
  /\ UNCHANGED <<dev, ns>>

RetryStart ==
  /\ conn.retry.pending /\ conn.retry.run = None
  /\ conn' = [conn EXCEPT !.retry = Started]
  /\ UNCHANGED <<dev, ns, budget>>

\* History: the bit is of a slot that the copy does not have, or has otherwise.
Outdated(copy, f, i) ==
  IF i \notin copy[f].bits \/ copy[f].addr[i] # ns.loc[f].addr[i] THEN {"copy"} ELSE {}

RetryStep ==
  /\ conn.retry.run # None /\ ~conn.owned
  /\ LET copy == conn.retry.run.loc
         n == NextPair({p \in Pairs : p[3] \in ToRetry(conn, p[1], p[2])})
     IN  IF conn.dead \/ n = None
         THEN conn' = [conn EXCEPT !.retry.run = None] /\ UNCHANGED budget
         ELSE LET f == n[1]
                  j == n[2]
                  i == n[3]
                  c == [conn EXCEPT !.rem[f][j].bits = @ \cup {i},
                                    !.rem[f][j].retry = @ \ {i},
                                    !.late = @ \cup Outdated(copy, f, i)]
              IN  \E src \in SourceOf(copy, f, i), k \in 0..c.kind.flows :
                    /\ conn' = Subsockets(c, copy, f, j, i, src, k)
                    /\ Connects(src, k)
  /\ UNCHANGED <<dev, ns>>

(*                         Options and the peer                            *)

\* Options are ignored in infinite mode.
Hears == Live /\ ~conn.owned /\ ~conn.infinite /\ \E s \in DOMAIN conn.sub : s.open

\* History: one address of the peer in two slots, with two ports.
Ports(c, r) ==
  {w \in {"port"} : \E j, k \in Slot : /\ j # k /\ c.rem[r.fam][j] # None /\ c.rem[r.fam][k] # None
                                     /\ c.rem[r.fam][j].addr = c.rem[r.fam][k].addr}

RecvAddAddr ==
  /\ Hears
  /\ \E r \in RemAddrs :
       LET c == AddRaddr(conn, r)
       IN  conn' = IF c = conn THEN c
                   ELSE CreateSubflows([c EXCEPT !.late = @ \cup Ports(c, r)])
  /\ Faulty /\ UNCHANGED <<dev, ns>>

\* The address goes from both tables, the subflows with the id are reset.
RemRaddr(c, id) ==
  [c EXCEPT !.rem = [f \in Family |->
     LET hits == {j \in Slot : c.rem[f][j] # None /\ c.rem[f][j].id = id}
     IN  IF hits = {} THEN c.rem[f] ELSE [c.rem[f] EXCEPT ![First(hits)] = None]]]

RecvRemAddr ==
  /\ Hears
  /\ \E id \in {r.id : r \in RemAddrs} \cup {0} :
       conn' = Closed(RemRaddr(conn, id), {s \in DOMAIN conn.sub : s.rid = id})
  /\ Faulty /\ UNCHANGED <<dev, ns>>

SubflowLost ==
  /\ conn.phase = "open" /\ ~conn.owned
  /\ \E s \in {x \in DOMAIN conn.sub : x.open} :
       conn' = [conn EXCEPT !.sub = (@ (-) SetToBag({s})) (+) SetToBag({[s EXCEPT !.open = FALSE]})]
  /\ Faulty /\ UNCHANGED <<dev, ns>>

\* The work item of a closed subflow takes it off the list.
Reap ==
  /\ conn.phase = "open" /\ ~conn.owned
  /\ \E s \in {x \in DOMAIN conn.sub : ~x.open} :
       conn' = [conn EXCEPT !.sub = @ (-) SetToBag({s}),
                            !.master = IF s.master THEN "gone" ELSE @,
                            !.late = IF s.master /\ conn.master = "new" THEN @ \cup {"early"} ELSE @]
  /\ UNCHANGED <<dev, ns, budget>>

\* The SYN of a join reads the table, the subflow is there with the third ACK.
JoinRequest ==
  /\ Hears /\ conn.kind.server /\ conn.req = None
  /\ \E a \in Addr, r \in RemAddrs :
       LET f == Fam(a)
           i == FindAddress(ns.loc, a)
       IN  /\ dev[a].up /\ r.fam = f /\ i # None
           /\ conn' = [conn EXCEPT !.req = [src |-> a, dst |-> r.addr, lid |-> LocId(f, i),
                                            rid |-> r.id, low |-> ns.loc[f].low[i]]]
  /\ Faulty /\ UNCHANGED <<dev, ns>>

JoinDone ==
  /\ Hears /\ conn.req # None /\ dev[conn.req.src].up
  /\ LET q == conn.req
     IN  conn' = [WithSubflows(conn, q.src, q.dst, q.lid, q.rid, q.low, 1) EXCEPT !.req = None]
  /\ UNCHANGED <<dev, ns, budget>>

\* A request that times out; the application gets nothing to know of it.
JoinExpires ==
  /\ conn.req # None
  /\ conn' = [conn EXCEPT !.req = None]
  /\ UNCHANGED <<dev, ns, budget>>

Announced(c, t, f) ==
  LET i == First(t[f].bits \ c.ann[f])
  IN  [c EXCEPT !.ann[f] = @ \cup {i}, !.add = @ - 1, !.told = @ \cup {t[f].addr[i]}]

\* One address with the packet if there is room for it, IPv4 first.
AddressSignalled(c, t, room) ==
  LET new(f) == IF Concerns(c, f) THEN t[f].bits \ c.ann[f] ELSE {}
  IN  CASE c.add = 0 -> c
        [] c.add > 0 /\ new(4) # {} /\ 4 \in room -> Announced(c, t, 4)
        [] c.add > 0 /\ (new(4) = {} \/ 4 \notin room) /\ new(6) # {} /\ 6 \in room ->
             Announced(c, t, 6)
        [] OTHER -> IF new(4) = {} /\ new(6) = {} THEN [c EXCEPT !.add = @ - 1] ELSE c

AddrSignal ==
  /\ Live /\ ~conn.infinite /\ ~(conn.add = 0 /\ conn.remove = {})
  /\ \E s \in DOMAIN conn.sub : s.open
  /\ \E room \in SUBSET Family, fits \in BOOLEAN :
       LET c == AddressSignalled(conn, ns.loc, room)
       IN  conn' = IF fits THEN [c EXCEPT !.remove = {}] ELSE c
  /\ UNCHANGED <<dev, ns, budget>>

\* The application closes, or the connection falls back; nothing changes after that.
Ends ==
  /\ Live /\ ~conn.dead /\ ~conn.infinite /\ budget.faults > 0
  /\ \/ conn' = [conn EXCEPT !.dead = TRUE]
     \/ conn' = [conn EXCEPT !.infinite = TRUE]
  /\ budget' = [budget EXCEPT !.changes = 0, !.faults = 0]
  /\ UNCHANGED <<dev, ns>>

(*                           The specification                             *)

NoAddress == [f \in Family |-> [bits |-> {}, addr |-> [i \in Slot |-> None],
                                low |-> [i \in Slot |-> FALSE], next |-> IF f = 4 THEN 1 ELSE 0]]

NoConnection(kind) ==
  [phase |-> "none", kind |-> kind,
   source |-> None, pm |-> "fullmesh", master |-> "new", infinite |-> FALSE, dead |-> FALSE,
   owned |-> FALSE, first |-> FALSE, sub |-> EmptyBag, req |-> None,
   add |-> 0, ann |-> [f \in Family |-> {}], remove |-> {}, rem |-> NoTable,
   work |-> [pending |-> FALSE, run |-> None], retry |-> [pending |-> FALSE, run |-> None],
   told |-> {}, late |-> {}]

Init ==
  /\ dev = [a \in Addr |-> [up |-> a \in UpAtStart, low |-> FALSE]]
  /\ ns = [loc |-> FoldLeft(With, NoAddress, SetToSeq({[addr |-> a, low |-> FALSE] : a \in UpAtStart})),
           events |-> <<>>, now |-> None]
  /\ \E k \in Cases :
       /\ conn = NoConnection(k.kind)
       /\ budget = [changes |-> k.changes, faults |-> k.faults, moving |-> k.moving]

Next ==
  \/ \E a \in Addr : DeviceChanges(a)
  \/ TakeEvent \/ ApplyEvent
  \/ NewSession \/ FullyEstablished \/ Release
  \/ WorkerStart \/ WorkerStep \/ RetryStart \/ RetryStep
  \/ RecvAddAddr \/ RecvRemAddr \/ SubflowLost \/ Reap
  \/ JoinRequest \/ JoinDone \/ JoinExpires \/ AddrSignal \/ Ends

Spec == Init /\ [][Next]_vars

(*                              Properties                                 *)

\* The types of the state.
TypeOK ==
  /\ dev \in [Addr -> [up: BOOLEAN, low: BOOLEAN]]
  /\ \A f \in Family :
       /\ ns.loc[f].bits \subseteq Slot /\ ns.loc[f].next \in 0..MaxAddr
       /\ DOMAIN ns.loc[f].addr = Slot
       /\ conn.ann[f] \subseteq Slot
       /\ \A j \in Slot : conn.rem[f][j] # None =>
            conn.rem[f][j].bits \cup conn.rem[f][j].retry \subseteq Slot
  /\ conn.add \in Nat /\ conn.remove \subseteq 0..2 * MaxAddr - 1
  /\ \A s \in DOMAIN conn.sub : s.src \in Addr /\ Fam(s.src) \in Family /\ s.lid \in 0..2 * MaxAddr - 1

\* Nothing is under way: no event, no worker, nobody owns the socket.
Quiet ==
  /\ ns.events = <<>> /\ ns.now = None /\ ~conn.owned /\ conn.req = None
  /\ \A w \in {conn.work, conn.retry} : ~w.pending /\ w.run = None

Serves == Live /\ ~conn.infinite /\ ~conn.dead

(***************************************************************************)
(* mptcp_fullmesh.c:1072 add_pm_event() merges the events of an address,   *)
(* the address worker drops those that change nothing.  Once the queue is  *)
(* empty the table is what the devices are, if it has room for them, and   *)
(* no address is in it twice.                                              *)
(***************************************************************************)
TableIsDevices ==
  ns.events = <<>> =>
    \A f \in Family :
      LET up == {a \in Addr : dev[a].up /\ Fam(a) = f}
          of == {<<ns.loc[f].addr[i], ns.loc[f].low[i]>> : i \in ns.loc[f].bits}
      IN  /\ Cardinality(ns.loc[f].bits) = Cardinality({p[1] : p \in of})
          /\ Cardinality({a \in Addr : Fam(a) = f}) <= MaxAddr =>
               of = {<<a, dev[a].low>> : a \in up}

(***************************************************************************)
(* create_subflow_worker() works on a copy of the table, may be queued     *)
(* again while it runs, and is started by six handlers.  When all is       *)
(* quiet, each address of the peer has been tried from each address of the *)
(* table, none waits for its second try, and none is noted as tried from a *)
(* slot that is empty.  Not if an address went while a worker had it in    *)
(* its copy, or came back while subflows from it were still listed, or if  *)
(* the first subflow was lost before it was fully established.             *)
(***************************************************************************)
MeshDone ==
  Quiet /\ Serves /\ ~conn.kind.server /\ conn.master # "new"
        /\ conn.late \cap {"copy", "again", "early"} = {} =>
    \A f \in {g \in Family : Concerns(conn, g)}, j \in Slot :
      conn.rem[f][j] # None =>
        conn.rem[f][j].bits = ns.loc[f].bits /\ conn.rem[f][j].retry = {}

(***************************************************************************)
(* The description of num_subflows (mptcp_fullmesh.c:90): never more       *)
(* subflows between two addresses, with two workers and the subflow of     *)
(* the application, whatever fails, goes and comes back.  The exceptions   *)
(* are the first two of MeshDone and a peer with one address under two     *)
(* ports or, outside RemAddrs, two identifiers, which mptcp_addv4_raddr()  *)
(* lists twice.                                                            *)
(***************************************************************************)
SubflowsPerPair ==
  Serves /\ ~conn.kind.server /\ conn.late \cap {"copy", "again", "port"} = {} =>
    \A s \in DOMAIN conn.sub :
      s.open => FoldSet(LAMBDA t, n : n + conn.sub[t], 0,
                        {t \in DOMAIN conn.sub : t.open /\ t.src = s.src /\ t.dst = s.dst})
                <= conn.kind.flows

(***************************************************************************)
(* full_mesh_addr_signal() counts down add_addr, handlers count it up, and *)
(* the bits of announced addresses follow the slots.  When all is quiet and *)
(* nothing is left to announce the peer has heard of every address.        *)
(***************************************************************************)
AllAnnounced ==
  Quiet /\ Serves /\ conn.add = 0 /\ conn.late \cap {"again", "unsaid"} = {} =>
    \A f \in {g \in Family : Concerns(conn, g)} :
      \A i \in ns.loc[f].bits : ns.loc[f].addr[i] \in conn.told

(***************************************************************************)
(* A removed address is taken from the table under one lock, from the      *)
(* connection under another one, and from a connection whose socket is     *)
(* owned at its release (mptcp_fullmesh.c:1480).  In the meantime workers  *)
(* and joins make subflows.  When all is quiet there are none left from an *)
(* address that has gone, and the connection has no bits of its slot.  Not *)
(* if the first pair got subflows while its address had come back and was  *)
(* not in the table yet: if it goes again its two events are merged into   *)
(* one that changes nothing.                                               *)
(***************************************************************************)
SourcesAreLocal ==
  Quiet /\ Serves =>
    /\ conn.late \cap {"copy", "source"} = {} => \A s \in DOMAIN conn.sub :
         s.open /\ Concerns(conn, Fam(s.src)) => FindAddress(ns.loc, s.src) # None
    /\ \A f \in {g \in Family : Concerns(conn, g)} : conn.ann[f] \subseteq ns.loc[f].bits

(***************************************************************************)
(* When all is quiet an open IPv4 subflow has the low priority that the    *)
(* table has for its address, however changes of the priority, new         *)
(* subflows and the owner of the socket come together.  One kind may       *)
(* differ, and one way only: create_subflow_worker() makes the further     *)
(* subflows of the first pair with low_prio 0 whatever the table says      *)
(* (mptcp_fullmesh.c:481); they may not be low where their address is.     *)
(* Not if the address went ("copy") or the priority changed ("prio") while *)
(* a worker had a copy of the table or a join was under way, nor when the  *)
(* address went and came back at once with another priority ("prio").      *)
(***************************************************************************)
PrioFollows ==
  Quiet /\ Serves /\ conn.late \cap {"copy", "prio"} = {} =>
    \A s \in DOMAIN conn.sub :
      s.open /\ Fam(s.src) = 4 /\ Concerns(conn, 4) =>
        LET i == FindAddress(ns.loc, s.src)
        IN  \/ i # None /\ s.low = ns.loc[4].low[i]
            \/ FurtherOfFirstPair(s) /\ ~s.low

(***************************************************************************)
(* What a comment says of the program and the program does not do: in      *)
(* mptcp_address_worker(), on an address without a subflow, "The id may    *)
(* have been given by the event, matching on a local address. ...  So, we  *)
(* have to finally remove it here."  An id is announced as removed only if *)
(* no address of the table has it.                                         *)
(***************************************************************************)
RemovesThatAddress ==
  [][\A i \in Slot, f \in Family :
       LocId(f, i) \in conn'.remove \ conn.remove => i \notin ns.loc[f].bits]_vars

=============================================================================
