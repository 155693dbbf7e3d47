------------------------------ MODULE QControl ------------------------------
(***************************************************************************)
(* The redundancy control: how many copies of a segment are asked for.     *)
(* The user's quota q_target_user is a percentage, 100 for one copy.  The  *)
(* scheduler follows a target q_target, lowered by the adaptive redundancy *)
(* algorithm while subflows fail, and asks for the whole number q_control  *)
(* of copies below or above it so that the measured mean q_actual stays at *)
(* the target.                                                             *)
(*                                                                         *)
(* Numbers are those of the code: unsigned values wrap at Wrap and a cast  *)
(* to int reads them as signed.  Bandwidths and utilizations are not kept. *)
(* Rmptcp has the state machine and the selection of the subflows, and     *)
(* takes q_control from here (Redundancy).                                 *)
(***************************************************************************)
EXTENDS Integers

CONSTANTS
  Meta,           \* meta sockets that send
  NoMeta,         \* red_sk_reg.meta_sk before the first segment
  Percent,        \* 100: one copy
  Smoothing,      \* 16: a new value moves q_actual by 1/16 of the difference
  Wrap,           \* 2^32
  Subflows,       \* the subflows there are at most
  Quotas,         \* values of sysctl_rmptcp_quota in use
  Ratios,         \* bandwidth left in per cent of the utilization needed
  AdaptivR,       \* sysctl_rmptcp_adaptivR_enable
  AdaptivPath     \* sysctl_rmptcp_adaptivPath_enable

ASSUME QControlAssumption ==
  /\ NoMeta \notin Meta
  /\ Percent \in Nat \ {0} /\ Smoothing \in Nat \ {0} /\ Subflows \in Nat \ {0}
  /\ Wrap \in Nat /\ Wrap % 2 = 0
  /\ Wrap > 2 * Percent * (Subflows + 1)
  /\ Quotas \subseteq 0..Wrap \div 2 - 1
  /\ Ratios \subseteq 0..Wrap - 1
  /\ AdaptivR \in BOOLEAN /\ AdaptivPath \in BOOLEAN

VARIABLES
  reg,            \* the fields of red_sk_reg that matter here
  calm            \* all enabled subflows are main and can take a segment

vars == <<reg, calm>>

ToUnsigned(x) == x % Wrap

ToInt(x) == IF x < Wrap \div 2 THEN x ELSE x - Wrap

\* Division rounds toward 0.
Quot(a, b) == IF a >= 0 THEN a \div b ELSE -((-a) \div b)

Smaller(a, b) == IF a <= b THEN a ELSE b
Larger(a, b)  == IF a >= b THEN a ELSE b

RedState == {"Open", "Recovery", "Timeout", "Cong"}

Unsigned == 0..Wrap - 1

Register ==
  [meta_sk        : Meta \cup {NoMeta},
   state          : RedState,
   due            : BOOLEAN,          \* last_inDecrease is more than 20 ms ago
   cong_flag      : BOOLEAN,
   num_enabled    : 0..Subflows,
   q_target       : Unsigned,
   q_target_user  : Unsigned,
   q_control_low  : Unsigned,
   q_control_high : Unsigned,
   q_control      : 0..Larger(1, Subflows),
   q_actual       : {0} \cup Percent..Percent * Subflows]

TypeOK ==
  /\ reg \in Register
  /\ calm \in BOOLEAN

-----------------------------------------------------------------------------
(* The target: rmptcp_setQ, rmptcp_regulateQ and rmptcp_adaptR.            *)

\* The whole numbers below and above the target.
SetControls(r) ==
  [r EXCEPT !.q_control_low  = ToUnsigned(Quot(ToInt(r.q_target), Percent)),
            !.q_control_high =
               ToUnsigned(Quot(ToInt(ToUnsigned(r.q_target - 1)), Percent) + 1)]

setQ(r) == SetControls([r EXCEPT !.q_target = r.q_target_user])

BelowEnabled_All(r, target) == Smaller(target, ToUnsigned(r.num_enabled * Percent))

\* The target has to be lower than what all enabled subflows give.
BelowEnabled(r, target) == Smaller(target, ToUnsigned((r.num_enabled - 1) * Percent))

\* With substitutes the enabled subflows' number will do.
WithinReach(r, target) ==
  CASE r.state = "Cong" /\ ~AdaptivPath -> BelowEnabled(r, target)
    [] r.state = "Cong" /\ AdaptivPath  -> Smaller(target, ToUnsigned(r.num_enabled * Percent))
    [] OTHER -> target

Raised(r) == ToUnsigned(r.q_target + 1)

\* The utilization is above the one before the congestion, at it, or below.
Regulated(r) ==
  IF r.state = "Recovery" THEN {Raised(r)}
  ELSE {IF r.q_actual > r.q_target
        THEN Raised(r) + (r.q_actual - Raised(r)) \div Smoothing ELSE Raised(r),
        r.q_target,
        ToUnsigned(r.q_target - 1)}

regulateQ(r) ==
  IF r.due THEN {[r EXCEPT !.q_target = WithinReach(r, t), !.due = FALSE] : t \in Regulated(r)}
  ELSE {r}

\* After the congestion state is entered: what the subflows left can carry, in
\* per cent of the utilization before.
LowerTarget(r) ==
  {[r EXCEPT !.q_target = BelowEnabled(r, t), !.due = FALSE] : t \in Ratios}

Adapted(r) ==
  CASE r.cong_flag /\ r.state = "Cong" -> LowerTarget(r)
    [] r.state = "Recovery" \/ (r.state = "Cong" /\ ~r.cong_flag) -> regulateQ(r)
    [] OTHER -> {[r EXCEPT !.q_target = r.q_target_user]}

Sane_NoFloor(target, user) == Smaller(target, user)

\* The last sanity check.
Sane(target, user) ==
  CASE target < Percent -> Percent
    [] target >= Percent /\ target > user -> user
    [] OTHER -> target

adaptR(r) ==
  {SetControls([a EXCEPT !.q_target = Sane(@, r.q_target_user)]) : a \in Adapted(r)}

-----------------------------------------------------------------------------
(* The control: rmptcp_calc_controlQ and rmptcp_setQActual.                *)

Wanted_Swapped(r) == IF r.q_actual >= r.q_target THEN r.q_control_high ELSE r.q_control_low

Wanted(r) == IF r.q_actual >= r.q_target THEN r.q_control_low ELSE r.q_control_high

\* rmptcp_check_avail_sk makes sure that q_control is possible and at least 1.
calc_controlQ(r) ==
  [r EXCEPT !.cong_flag = FALSE,
            !.q_control = Larger(1, Smaller(Larger(1, Wanted(r)), r.num_enabled))]

Filtered_FromZero(actual, copies) ==
  LET err == copies * Percent - actual
  IN  CASE 0 < err /\ err < Smoothing  -> actual + 1
        [] -Smoothing < err /\ err < 0 -> actual - 1
        [] OTHER                       -> actual + Quot(err, Smoothing)

\* The mean of the copies sent, in per cent.
Filtered(actual, copies) ==
  LET err == copies * Percent - actual
  IN  CASE actual = 0                                 -> copies * Percent
        [] actual # 0 /\ 0 < err /\ err < Smoothing   -> actual + 1
        [] actual # 0 /\ -Smoothing < err /\ err < 0  -> actual - 1
        [] OTHER                                      -> actual + Quot(err, Smoothing)

setQActual(r, copies) == [r EXCEPT !.q_actual = Filtered(r.q_actual, copies)]

-----------------------------------------------------------------------------
(* The call.                                                               *)

\* rmptcp_reset_meta, if the meta socket is another one.
SwitchMeta(r, meta_sk) ==
  IF r.meta_sk = meta_sk THEN r
  ELSE [meta_sk |-> meta_sk, state |-> "Open", due |-> r.due, cong_flag |-> FALSE,
        num_enabled |-> 0, q_target |-> 0, q_target_user |-> 0, q_control_low |-> 0,
        q_control_high |-> 0, q_control |-> 0, q_actual |-> 0]

\* The periodic update reads the quota and counts the enabled subflows, these
\* not in the congestion state.
Updated(r) ==
  LET Enabled == IF r.state = "Cong" THEN {r.num_enabled} ELSE 0..Subflows
  IN  UNION {{[r EXCEPT !.q_target_user = Larger(quota, Percent), !.num_enabled = n] :
                n \in Enabled} : quota \in Quotas}

Targeted(r) == IF AdaptivR THEN adaptR(r) ELSE {setQ(r)}

\* The register before the selection, with or without a periodic update.
Prepared(meta_sk) ==
  LET r == SwitchMeta(reg, meta_sk)
  IN  {calc_controlQ(r2) : r2 \in UNION {Targeted(r1) : r1 \in {r} \cup Updated(r)}}

\* The list is empty until the first update, which also reads the quota.
Known(r) == r.q_target_user # 0

\* The copies sent: q_control if the subflows can take as many, otherwise any
\* number (late segments, more if some are not main).
Copies(r) ==
  CASE ~Known(r) -> {}
    [] Known(r) /\ calm /\ r.num_enabled > 0 -> {r.q_control}
    [] OTHER -> 1..Subflows

\* What rmptcp_check_failure() may make of the state.
Judged(r) ==
  {r} \cup
  (IF r.state \in {"Open", "Recovery"} THEN {[r EXCEPT !.state = "Timeout"]} ELSE {}) \cup
  (IF r.state # "Cong" THEN {[r EXCEPT !.state = "Cong", !.cong_flag = TRUE]} ELSE {}) \cup
  (IF r.state = "Timeout" THEN {[r EXCEPT !.state = "Recovery"]} ELSE {}) \cup
  (IF r.state = "Cong" THEN {[r EXCEPT !.state = "Recovery", !.cong_flag = TRUE]} ELSE {}) \cup
  (IF r.state = "Recovery" THEN {[r EXCEPT !.state = "Open", !.cong_flag = TRUE]} ELSE {})

\* No subflow, or not enough of them yet.
NoSend(meta_sk) ==
  /\ ~calm \/ SwitchMeta(reg, meta_sk).num_enabled = 0
  /\ reg' \in Prepared(meta_sk)
  /\ UNCHANGED calm

Send(meta_sk) ==
  /\ \E r \in Prepared(meta_sk) : \E copies \in Copies(r) :
        reg' \in Judged(setQActual(r, copies))
  /\ UNCHANGED calm

TimePasses ==
  /\ ~reg.due
  /\ reg' = [reg EXCEPT !.due = TRUE]
  /\ UNCHANGED calm

SubflowsChange ==
  /\ calm' = ~calm
  /\ UNCHANGED reg

-----------------------------------------------------------------------------

Init ==
  /\ reg = [meta_sk |-> NoMeta, state |-> "Open", due |-> TRUE, cong_flag |-> FALSE,
            num_enabled |-> 0, q_target |-> 0, q_target_user |-> 0, q_control_low |-> 0,
            q_control_high |-> 0, q_control |-> 0, q_actual |-> 0]
  /\ calm = FALSE

Next ==
  \/ \E meta_sk \in Meta : NoSend(meta_sk) \/ Send(meta_sk)
  \/ TimePasses
  \/ SubflowsChange

Spec == Init /\ [][Next]_vars

\* Segments are sent again and again.  As long as nothing else changes a call
\* has but one outcome, so it is the calls of this kind that need to recur.
SteadySend ==
  /\ calm
  /\ Send(reg.meta_sk)
  /\ reg'.state = reg.state
  /\ reg'.num_enabled = reg.num_enabled
  /\ reg'.q_target_user = reg.q_target_user

FairSpec == Spec /\ WF_vars(SteadySend)

-----------------------------------------------------------------------------
(* Properties.                                                             *)

\* A target below one copy, or above what the user wants, is never followed
\* ("last sanity check", rmptcp_adaptR): neither by the wrapped difference for
\* no enabled subflow nor by steps below 0.
TargetIsSane ==
  AdaptivR /\ reg.meta_sk # NoMeta =>
    Percent <= reg.q_target /\ reg.q_target <= Larger(Percent, reg.q_target_user)

\* While a subflow has failed and no substitutes help, no segment has to wait
\* for all enabled subflows: "it has to be at least lower than the now total
\* available subflows" (rmptcp_adaptR, rmptcp_regulateQ).
FailureNeedsFewerCopies ==
  AdaptivR /\ ~AdaptivPath /\ reg.state = "Cong" /\ ~reg.cong_flag =>
    reg.q_control <= Larger(1, reg.num_enabled - 1)

\* In calm times the mean of the copies sent comes to the quota, or to as many
\* as there are enabled subflows, and stays there up to one step of the mean.
Settled(meta_sk, user, n) ==
  /\ calm /\ reg.state = "Open" /\ reg.meta_sk = meta_sk
  /\ reg.q_target_user = user /\ reg.num_enabled = n

AtQuota(user, n) ==
  LET quota == Smaller(user, n * Percent)
  IN  reg.q_actual - quota \in -(Percent \div Smoothing)..Percent \div Smoothing

QuotaIsMet ==
  \A meta_sk \in Meta, user \in Quotas, n \in 1..Subflows :
    <>[]Settled(meta_sk, user, n) => <>[]AtQuota(user, n)

=============================================================================
