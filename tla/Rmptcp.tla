------------------------------- MODULE Rmptcp -------------------------------
(***************************************************************************)
(* The redundant scheduler of rMPTCP: the global register red_sk_reg and   *)
(* rmptcp_send_next_segment(), the call mptcp_write_xmit() makes for every *)
(* segment.  A call is one step: it prepares the register, selects the     *)
(* subflows, watches for failures and sends.                               *)
(*                                                                         *)
(* The register is a record; each C function that changes it is an         *)
(* operator from a record to a record, or to the SET of records it may     *)
(* leave when the outcome hangs on a measurement (round trip times,        *)
(* bandwidths, utilization) that the model does not keep.                  *)
(*                                                                         *)
(* sk_list is kept as the set of its sockets: the list is sorted by        *)
(* address and holds no socket twice, so the set determines it (SkList).   *)
(* A flag of struct red_sk is the set of the sockets that have it.         *)
(*                                                                         *)
(* A time stamp is kept as what the code asks of it: whether the duration  *)
(* it is compared with has run out.  Clock actions run timers out.         *)
(***************************************************************************)
EXTENDS SkList

CONSTANTS
  Meta,           \* meta sockets that send
  NoMeta,         \* red_sk_reg.meta_sk before the first segment
  Masks,          \* enable masks in use, as sets of list positions
  Redundancy,     \* values rmptcp_calc_controlQ() gives q_control
  NumInTime,      \* sysctl_rmptcp_numinTime
  AdaptivPath,    \* values of sysctl_rmptcp_adaptivPath_enable in use
  AdaptivR,       \* values of sysctl_rmptcp_adaptivR_enable in use
  EnableKick,     \* values of sysctl_rmptcp_enable_kick in use
  PathCheck,      \* values of sysctl_rmptcp_runpathcheck in use
  EntailFails,    \* whether mptcp_skb_entail() may fail
  Conditions,     \* conditions a subflow can be in
  MayVanish       \* subflows that can go unused for max_sk_noshow

(* "ready": can take a segment; "busy": cannot (cwnd full, not established, *)
(* closed); "recovery" and "stalled": the same two with icsk_ca_state at   *)
(* TCP_CA_Recovery; "loss": TCP_CA_Loss, where a subflow with SACK never   *)
(* sends.                                                                  *)
AllConditions == {"ready", "busy", "recovery", "stalled", "loss"}

ASSUME MetaAssumption == NoMeta \notin Meta

ASSUME TuningAssumption ==
  /\ Masks \subseteq SUBSET Nat
  /\ Redundancy \subseteq Nat
  /\ NumInTime \in Nat \ {0}

ASSUME SwitchAssumption ==
  /\ AdaptivPath \subseteq BOOLEAN
  /\ AdaptivR \subseteq BOOLEAN
  /\ EnableKick \subseteq BOOLEAN
  /\ PathCheck \subseteq BOOLEAN
  /\ EntailFails \subseteq BOOLEAN

ASSUME EnvironmentAssumption ==
  /\ Conditions \subseteq AllConditions
  /\ "ready" \in Conditions
  /\ MayVanish \subseteq Sock

VARIABLES
  red_sk_reg,     \* the register
  net,            \* the condition of each subflow
  sent            \* the subflows the last call put its segment on

vars == <<red_sk_reg, net, sent>>

RedState == {"Open", "Recovery", "Timeout", "Cong"}

Register ==
  [meta_sk            : Meta \cup {NoMeta},
   state              : RedState,
   cong_flag          : BOOLEAN,
   timeout            : BOOLEAN,                       \* # 0
   timeout_start      : {"unset", "running", "over"},  \* over: past the limit
   held               : BOOLEAN,  \* hold time of Cong or Recovery has run out
   update_due         : BOOLEAN,  \* last_update is older than the period
   inTime_cnt         : Nat,
   previous_skevent_i : Nat,
   sk_list            : SUBSET Sock,
   enabled            : SUBSET Sock,
   main               : SUBSET Sock,
   cong               : SUBSET Sock,
   sub                : SUBSET Sock,
   unseen             : SUBSET Sock,  \* last_used is older than max_sk_noshow
   num_enabled        : Nat,
   q_control          : Nat]

TypeOK ==
  /\ red_sk_reg \in Register
  /\ net \in [Sock -> Conditions]
  /\ sent \in SUBSET Sock

-----------------------------------------------------------------------------
(* The state of subflows.                                                  *)

\* rmptcp_is_available() returns 0.
Available(s) == net[s] \in {"ready", "recovery"}

Eligible(r) == r.enabled \cup r.sub

Smaller(a, b) == IF a <= b THEN a ELSE b

-----------------------------------------------------------------------------
(* Keeping the register: rmptcp_reset_meta, rmptcp_set_enable_flag,        *)
(* rmptcp_update_sk_list and the choice of the main subflows.              *)

Without_FlagsKept(r, R) == [r EXCEPT !.sk_list = @ \ R]

\* Forget the sockets of R: their list entries are gone.
Without(r, R) ==
  [r EXCEPT !.sk_list = @ \ R, !.enabled = @ \ R, !.main = @ \ R,
            !.cong = @ \ R, !.sub = @ \ R, !.unseen = @ \ R]

\* What a change of meta socket resets.  The time stamps, the timeout flag,
\* inTime_cnt and previous_skevent_i stay.
ResetMeta(r) ==
  [Without(r, Sock) EXCEPT !.state = "Open", !.held = FALSE, !.cong_flag = FALSE,
                           !.num_enabled = 0, !.q_control = 0]

SwitchMeta(r, meta_sk) ==
  IF r.meta_sk = meta_sk THEN r ELSE ResetMeta([r EXCEPT !.meta_sk = meta_sk])

SetEnableFlag(r, mask) ==
  LET on == {s \in r.sk_list : Position(s, r.sk_list) \in mask}
  IN  [r EXCEPT !.enabled = on, !.main = @ \cap on, !.num_enabled = Cardinality(on)]

InsertSockets(r, new) ==
  [r EXCEPT !.sk_list = @ \cup new, !.main = @ \cup new]

UpdateSkList(r, mask) ==
  IF r.state = "Cong" THEN r
  ELSE SetEnableFlag(InsertSockets(r, {s \in Sock : Available(s)} \ r.sk_list), mask)

SetAllMain(r) == [r EXCEPT !.main = Eligible(r)]

SetAllUncongMain(r) ==
  IF Eligible(r) \ r.cong = {} THEN SetAllMain(r)
  ELSE [r EXCEPT !.main = Eligible(r) \ r.cong]

\* Outside Recovery and Cong, round trip times and bandwidths decide which
\* uncongested eligible sockets are main; with none, all of them are.
UpdateMainSk(r) ==
  CASE r.state = "Recovery" -> {SetAllMain(r)}
    [] r.state = "Cong"     -> {SetAllUncongMain(r)}
    [] OTHER -> {IF M = {} THEN SetAllUncongMain(r)
                 ELSE [r EXCEPT !.main = (@ \ Eligible(r)) \cup M] :
                 M \in SUBSET (Eligible(r) \ r.cong)}

\* The periodic part of the call; rmptcp_update_bw() stamps last_update.
PeriodicUpdate(r) ==
  IF ~r.update_due THEN {r}
  ELSE UNION {UpdateMainSk([UpdateSkList(r, mask) EXCEPT !.update_due = FALSE]) :
              mask \in Masks}

-----------------------------------------------------------------------------
(* Reacting to a failure: rmptcp_adaptPath.                                *)

\* The first socket of the list flagged congested, the first of all if none.
CongestedSocket(r) ==
  LET flagged == IF r.cong # {} THEN r.cong ELSE r.sk_list
  IN  CHOOSE s \in flagged : \A t \in flagged \ {s} : Precedes(s, t)

Substitutes_EvenCulprit(r, failed, new) ==
  {s \in r.sk_list :
     \/ Saddr[s] = Saddr[failed] /\ Daddr[s] = Daddr[new]
     \/ Daddr[s] = Daddr[failed] /\ Saddr[s] = Saddr[new]}

\* The paths that join one end of the failed path with the other end of the
\* path new.
Substitutes(r, failed, new) ==
  {s \in r.sk_list \ r.cong :
     \/ Saddr[s] = Saddr[failed] /\ Daddr[s] = Daddr[new]
     \/ Daddr[s] = Daddr[failed] /\ Saddr[s] = Saddr[new]}

\* new is the enabled uncongested socket of highest bandwidth; the first of
\* the list stands in when none has carried anything.
AdaptPath(r) ==
  CASE r.cong_flag /\ r.state = "Cong" /\ r.sk_list # {} ->
         {[r EXCEPT !.sub = @ \cup Substitutes(r, CongestedSocket(r), new)] :
          new \in (r.enabled \ r.cong) \cup SocketAt(0, r.sk_list)}
    [] r.cong_flag /\ r.state = "Recovery" -> {[r EXCEPT !.sub = {}]}
    [] OTHER -> {r}

Reroute(r) ==
  UNION {IF adaptPath THEN AdaptPath(r) ELSE {r} : adaptPath \in AdaptivPath}

\* rmptcp_adaptR() and rmptcp_setQ() compute q_target (module QControl); the
\* first is followed by a new choice of the main sockets.
Rebalance(r) ==
  UNION {IF adaptR THEN UpdateMainSk(r) ELSE {r} : adaptR \in AdaptivR}

Settle(r, q) == [r EXCEPT !.cong_flag = FALSE, !.q_control = q]

\* Everything before the selection, with no path check running.
Schedule(r) ==
  {Settle(r3, q) :
     q \in Redundancy,
     r3 \in UNION {Rebalance(r2) : r2 \in UNION {Reroute(r1) : r1 \in PeriodicUpdate(r)}}}

PathTests(r) == {r} \cup {SetAllMain(SetEnableFlag(r, mask)) : mask \in Masks}

Measured(r, q, stamped) ==
  [r EXCEPT !.q_control = q, !.update_due = @ /\ ~stamped]

\* While a path check runs the register follows the combination under test
\* instead (pathChecker): it is switched now or stays.
CheckPaths(r) ==
  {Measured(r1, q, stamped) :
     r1 \in PathTests(r), q \in Redundancy, stamped \in BOOLEAN}

-----------------------------------------------------------------------------
(* Selecting subflows: rmptcp_check_avail_sk.                              *)

\* Unavailable sockets nobody used for max_sk_noshow leave the list.
DropUnseen(r) == Without(r, {s \in r.unseen : ~Available(s)})

ClampControl_OffByOne(r) == [r EXCEPT !.q_control = Smaller(@, r.num_enabled) - 1]

\* The redundancy has to be possible, and at least 1.
ClampControl(r) ==
  LET capped == Smaller(r.q_control, r.num_enabled)
  IN  [r EXCEPT !.q_control = IF capped < 1 THEN 1 ELSE capped]

\* Available, and enabled or a substitute; a congested substitute may have one
\* packet out only (out: the sockets with packets out).
Usable(r, out) ==
  {s \in Eligible(r) : Available(s) /\ ~(s \in r.cong /\ s \in r.sub /\ s \in out)}

TargetReached_AnyMain(r, avail) == Cardinality(avail) >= r.q_control

\* Enough subflows, and a main one with them.
TargetReached(r, avail) ==
  Cardinality(avail) >= r.q_control /\ avail \cap r.main # {}

\* Main sockets beyond q_control are left out, the last main one never.  The
\* one used last goes first; last_used is not kept, so any may go.
Kicked(r, avail) ==
  LET surplus == Cardinality(avail) - r.q_control
      spare   == IF avail \cap r.main = {} THEN 0 ELSE Cardinality(avail \cap r.main) - 1
  IN  {avail \ kick : kick \in {k \in SUBSET (avail \cap r.main) :
                                Cardinality(k) = Smaller(surplus, spare)}}

Chosen(r, avail) ==
  UNION {IF kick THEN Kicked(r, avail) ELSE {avail} : kick \in EnableKick}

LateInCong_OnMain(r, avail) == r.state = "Cong" /\ avail \cap r.main # {}

\* In Cong a late segment takes what there is, and is no timeout.
LateInCong(r, avail) == r.state = "Cong" /\ avail # {}

\* The sockets to send on and the register: no socket means "not now".
CheckAvailSk(r, out) ==
  LET c     == ClampControl(r)
      avail == Usable(c, out)
      late  == c.timeout_start = "over"
      stop  == [c EXCEPT !.timeout_start = "unset"]
  IN  CASE TargetReached(c, avail) ->
             {[use |-> use, reg |-> stop] : use \in Chosen(c, avail)}
        [] ~TargetReached(c, avail) /\ late /\ LateInCong(c, avail) ->
             {[use |-> avail, reg |-> stop]}
        [] ~TargetReached(c, avail) /\ late /\ c.state # "Cong" ->
             {[use |-> avail,
               reg |-> [c EXCEPT !.timeout = TRUE,
                                 !.timeout_start = IF avail = {} THEN @ ELSE "unset"]]}
        [] OTHER ->
             {[use |-> {},
               reg |-> [c EXCEPT !.timeout_start = IF @ = "unset" THEN "running" ELSE @]]}

-----------------------------------------------------------------------------
(* Watching for failures: rmptcp_calc_sendPeriod and rmptcp_check_failure. *)

\* Segments in time are counted while a first timeout is being judged.
CalcSendPeriod(r) ==
  [r EXCEPT !.timeout_start = "unset",
            !.inTime_cnt = IF r.state = "Timeout" /\ ~r.timeout THEN @ + 1 ELSE @]

Lost == {s \in Sock : net[s] = "loss"}

Congested == {s \in Sock : net[s] \in {"recovery", "stalled", "loss"}}

\* sk_event_i: the first enabled socket in the worst state, else index 0.
EventIndex(r) ==
  LET event == r.enabled \cap Congested
      worst == IF event \cap Lost # {} THEN event \cap Lost ELSE event
      first == {s \in worst : \A t \in worst \ {s} : Precedes(s, t)}
  IN  IF worst = {} THEN 0 ELSE Position(CHOOSE s \in first : TRUE, r.sk_list)

EnterCong(r, blamed) ==
  [r EXCEPT !.state = "Cong", !.cong_flag = TRUE, !.held = FALSE, !.cong = @ \cup blamed]

\* The enabled socket that was left out and is most overdue; index 0 if none
\* was.
TimeoutToCong(r, use) ==
  LET suspects == r.enabled \ use
  IN  {EnterCong(r, s) : s \in IF suspects = {} THEN {SocketAt(0, r.sk_list)}
                               ELSE {{s} : s \in suspects}}

EventToCong(r) ==
  [EnterCong(r, SocketAt(EventIndex(r), r.sk_list)) EXCEPT !.previous_skevent_i = EventIndex(r)]

\* The utilization has collapsed while an enabled socket is congested.
Collapse(r) == IF r.enabled \cap Congested = {} THEN {} ELSE {EventToCong(r)}

\* ... while none is: the index of the last event is blamed again.
SilentCollapse(r) ==
  IF r.enabled \cap Congested # {} THEN {}
  ELSE {EnterCong(r, SocketAt(r.previous_skevent_i, r.sk_list))}

EnoughInTime_OffByOne(r) == r.inTime_cnt > NumInTime

\* After that many segments in time the first timeout is forgiven.
EnoughInTime(r) == r.inTime_cnt >= NumInTime

EnterRecovery(r) == [r EXCEPT !.state = "Recovery", !.held = FALSE]

\* In Cong, substitutes are flagged on a loss and may recover from the flag.
JudgeSubstitutes(r) ==
  IF r.state # "Cong" THEN {r}
  ELSE {[r EXCEPT !.cong = (@ \ healed) \cup (r.sub \cap Lost)] :
        healed \in SUBSET ((r.sub \cap r.cong) \ Congested)}

\* A first timeout; a very long one counts as the second one, too.
FirstTimeout(r, use) ==
  TimeoutToCong(r, use) \cup {[r EXCEPT !.state = "Timeout", !.held = FALSE]}

LeaveRecovery(r) ==
  CASE r.enabled \cap Lost # {} -> [r EXCEPT !.held = FALSE]
    [] r.enabled \cap Lost = {} /\ r.held ->
         [r EXCEPT !.state = "Open", !.held = FALSE, !.cong_flag = TRUE, !.cong = {}]
    [] OTHER -> r

LeaveCong_FlagsKept(r) ==
  IF r.held THEN [EnterRecovery(r) EXCEPT !.cong_flag = TRUE] ELSE r

LeaveCong_NoSignal(r) ==
  IF r.held THEN [EnterRecovery(r) EXCEPT !.cong = {}] ELSE r

LeaveCong_AwaitsFlags(r) ==
  IF r.held /\ r.cong = {} THEN [EnterRecovery(r) EXCEPT !.cong_flag = TRUE] ELSE r

\* Leaving Cong; a loss starts the hold time again, so that held is not yet set
\* while one lasts (fairness of HoldRunsOut, MCLive).
LeaveCong(r) ==
  IF r.held THEN [EnterRecovery(r) EXCEPT !.cong_flag = TRUE, !.cong = {}] ELSE r

StateMachine(r, use) ==
  CASE r.state = "Open"     ->
         IF r.timeout THEN FirstTimeout(r, use) ELSE {r} \cup Collapse(r)
    [] r.state = "Recovery" ->
         IF r.timeout THEN FirstTimeout(r, use)
         ELSE {LeaveRecovery(r)} \cup Collapse(r) \cup SilentCollapse(r)
    [] r.state = "Timeout"  ->
         IF r.timeout THEN TimeoutToCong(r, use)
         ELSE IF EnoughInTime(r)
              THEN {EnterRecovery([r EXCEPT !.inTime_cnt = 0])}
              ELSE {r} \cup Collapse(r)
    [] r.state = "Cong"     -> {LeaveCong(r)}

CheckFailure(r, use) == UNION {StateMachine(r1, use) : r1 \in JudgeSubstitutes(r)}

-----------------------------------------------------------------------------
(* The call.                                                               *)

\* The register before the selection.  A change of meta socket also ends a
\* path check.
Prepared(meta_sk) ==
  LET r == SwitchMeta(red_sk_reg, meta_sk)
  IN  UNION {IF runpathcheck THEN CheckPaths(r) ELSE Schedule(r) :
             runpathcheck \in IF red_sk_reg.meta_sk = meta_sk THEN PathCheck ELSE {FALSE}}

\* rmptcp_send_skb: the sockets that get a copy, in the order of the list up
\* to the first one that fails, and those it stamps last_used of.
SendSkb(use) ==
  UNION {IF fails THEN {[put |-> {s \in use : Precedes(s, f)},
                         stamped |-> {s \in use : Precedes(s, f)} \cup {f}] : f \in use}
                  ELSE {[put |-> use, stamped |-> use]} : fails \in EntailFails}

NoSend(reg) ==
  /\ red_sk_reg' = reg
  /\ sent' = {}

Send(reg, use) ==
  \E r \in CheckFailure(CalcSendPeriod(reg), use), skb \in SendSkb(use) :
     /\ red_sk_reg' = [r EXCEPT !.timeout = FALSE, !.unseen = @ \ skb.stamped]
     /\ sent' = skb.put

SendNextSegment(meta_sk) ==
  /\ \E r \in Prepared(meta_sk) : \E out \in SUBSET (r.cong \cap r.sub) :
        \E choice \in CheckAvailSk(DropUnseen(r), out) :
           \/ choice.use = {} /\ NoSend(choice.reg)
           \/ choice.use # {} /\ Send(choice.reg, choice.use)
  /\ UNCHANGED net

-----------------------------------------------------------------------------
(* The environment: the network and the clock.                             *)

NetChange(s, condition) ==
  /\ net[s] # condition
  /\ net' = [net EXCEPT ![s] = condition]
  /\ UNCHANGED <<red_sk_reg, sent>>

\* delta_send exceeds the limit of the state.
TimeoutRunsOut ==
  /\ red_sk_reg.timeout_start = "running"
  /\ red_sk_reg' = [red_sk_reg EXCEPT !.timeout_start = "over"]
  /\ UNCHANGED <<net, sent>>

\* sysctl_rmptcp_CS_hold after last_ca_state in Cong, twice that after
\* start_Recovery in Recovery.
HoldRunsOut ==
  /\ red_sk_reg.state \in {"Cong", "Recovery"} /\ ~red_sk_reg.held
  /\ red_sk_reg' = [red_sk_reg EXCEPT !.held = TRUE]
  /\ UNCHANGED <<net, sent>>

UpdateComesDue ==
  /\ ~red_sk_reg.update_due
  /\ red_sk_reg' = [red_sk_reg EXCEPT !.update_due = TRUE]
  /\ UNCHANGED <<net, sent>>

\* max_sk_noshow after last_used.
Unseen(s) ==
  /\ s \in (red_sk_reg.sk_list \cap MayVanish) \ red_sk_reg.unseen
  /\ red_sk_reg' = [red_sk_reg EXCEPT !.unseen = @ \cup {s}]
  /\ UNCHANGED <<net, sent>>

-----------------------------------------------------------------------------

Init ==
  /\ red_sk_reg =
       [meta_sk |-> NoMeta, state |-> "Open", cong_flag |-> FALSE, timeout |-> FALSE,
        timeout_start |-> "unset", held |-> FALSE, update_due |-> TRUE,
        inTime_cnt |-> 0, previous_skevent_i |-> 0, sk_list |-> {}, enabled |-> {},
        main |-> {}, cong |-> {}, sub |-> {}, unseen |-> {},
        num_enabled |-> 0, q_control |-> 0]
  /\ net \in [Sock -> {"ready", "busy"} \cap Conditions]
  /\ sent = {}

Next ==
  \/ \E meta_sk \in Meta : SendNextSegment(meta_sk)
  \/ \E s \in Sock, condition \in Conditions : NetChange(s, condition)
  \/ TimeoutRunsOut
  \/ HoldRunsOut
  \/ UpdateComesDue
  \/ \E s \in Sock : Unseen(s)

Spec == Init /\ [][Next]_vars

-----------------------------------------------------------------------------
(* Properties.                                                             *)

\* A flag belongs to a socket of the list, and num_enabled is never below the
\* number of enabled sockets, so that clamping q_control to it cannot ask for
\* less redundancy than there are enabled subflows (rmptcp_check_avail_sk).
RegisterConsistent ==
  /\ red_sk_reg.enabled \cup red_sk_reg.main \cup red_sk_reg.cong \cup red_sk_reg.sub
       \subseteq red_sk_reg.sk_list
  /\ red_sk_reg.num_enabled >= Cardinality(red_sk_reg.enabled)

\* The count of segments in time never stands at its limit between two calls:
\* the call that reaches it has left the Timeout state and started it anew.
InTimeBelowLimit == red_sk_reg.inTime_cnt < NumInTime

\* No socket stays flagged congested once the congestion state is left, on
\* whatever way (recovery, change of connection): a stale flag would keep the
\* socket from being main.
CongestedOnlyInCong == red_sk_reg.state # "Cong" => red_sk_reg.cong = {}

\* Substitutes serve during the congestion state only; the call that follows
\* its end takes them back.
SubstitutesOnlyInCong ==
  \/ red_sk_reg.sub = {}
  \/ red_sk_reg.state = "Cong"
  \/ red_sk_reg.state = "Recovery" /\ red_sk_reg.cong_flag

\* Unless the segment is late, it goes out on at least q_control subflows that
\* may carry it, one of them a main subflow, and, with sysctl_rmptcp_enable_kick,
\* on no more than needed: of the main subflows beyond q_control one stays.
SelectionIsRedundant ==
  [][ (sent' # sent /\ sent' # {} /\ red_sk_reg.timeout_start # "over") =>
        LET r == red_sk_reg' IN
        /\ Cardinality(sent') >= Smaller(r.q_control, Cardinality(r.enabled))
        /\ sent' \cap r.main # {}
        /\ sent' \subseteq Eligible(r)
        /\ EnableKick = {TRUE} /\ Cardinality(sent') > r.q_control =>
              Cardinality(sent' \cap r.main) = 1 ]_vars

\* The failure detection, seen without its timers, lists and counters, keeps
\* the promise of FailureDetector: one culprit, the same one until Recovery.
Detector == INSTANCE FailureDetector WITH
  Subflow <- Sock, Connection <- Meta \cup {NoMeta},
  phase <- red_sk_reg.state, culprits <- red_sk_reg.cong \ red_sk_reg.sub,
  connection <- red_sk_reg.meta_sk

DetectsFailures == Detector!Spec

\* A segment leaves again and again as long as an enabled subflow stays ready:
\* neither a main subflow that is gone, a redundancy out of reach nor a
\* congestion state holds it back for ever.
KeepsSending ==
  (\E s \in Sock : <>[](s \in red_sk_reg.enabled /\ net[s] = "ready")) => []<>(sent # {})

\* The congestion state is left once every subflow works again.
CongEnds == <>[](\A s \in Sock : net[s] = "ready") => []<>(red_sk_reg.state # "Cong")

-----------------------------------------------------------------------------
(* What comments say of the program and the program does not do.           *)

\* "number of segments sent in time after a first timeout" (rmptcp.h): the
\* count starts at 0 when a first timeout makes the state Timeout.
InTimeCountsFromFirstTimeout ==
  [][ (red_sk_reg.state # "Timeout" /\ red_sk_reg'.state = "Timeout") =>
        red_sk_reg'.inTime_cnt = 0 ]_vars

\* "Do we still have the same Meta Socket?  If not, start new" (rmptcp.c): the
\* first segment of a connection is not judged by a timeout of another one.
NewConnectionStartsNew ==
  [][ red_sk_reg'.meta_sk # red_sk_reg.meta_sk => red_sk_reg'.state # "Timeout" ]_vars

\* "@num_enabled: number of enabled subflows" (rmptcp.h).
NumEnabledIsExact == red_sk_reg.num_enabled = Cardinality(red_sk_reg.enabled)

=============================================================================
