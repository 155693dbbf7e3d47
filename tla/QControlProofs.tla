--------------------------- MODULE QControlProofs ---------------------------
(***************************************************************************)
(* The target of the redundancy control is sane for all quotas, numbers of *)
(* subflows and measurements, whatever wraps around on the way to it.      *)
(*                                                                         *)
(* The invariant has to know of the time before the first update: the      *)
(* quota is still 0 then, and "no more than the quota" would be less than  *)
(* one copy.  No segment has been sent yet, so the state is still Open, in *)
(* which the target is the quota, raised to one copy.                      *)
(*                                                                         *)
(* The second invariant, RInv, keeps every number in the range of its C    *)
(* type, and says that the target has been lowered below the enabled       *)
(* subflows before a segment is sent after a failure.                      *)
(***************************************************************************)
EXTENDS QControl, TLAPS

\* A register whose numbers are integers.
Shape ==
  [meta_sk        : Meta \cup {NoMeta},
   state          : RedState,
   due            : BOOLEAN,
   cong_flag      : BOOLEAN,
   num_enabled    : Int,
   q_target       : Int,
   q_target_user  : Int,
   q_control_low  : Int,
   q_control_high : Int,
   q_control      : Int,
   q_actual       : Int]

\* The quota is unknown, in the Open state, or at least one copy.
QuotaSound(r) ==
  /\ r \in Shape
  /\ r.q_target_user >= Percent \/ (r.q_target_user = 0 /\ r.state = "Open")

TargetSound(r) ==
  AdaptivR => Percent <= r.q_target /\ r.q_target <= Larger(Percent, r.q_target_user)

Sound(r) == QuotaSound(r) /\ (r.meta_sk # NoMeta => TargetSound(r))

IInv == Sound(reg)

-----------------------------------------------------------------------------
(* The arithmetic stays within the integers.                               *)

\* Wrap is positive, so that the remainders of unsigned arithmetic exist.
LEMMA WrapPositive == Wrap \in Nat \ {0}
<1>1. Percent * (Subflows + 1) > 0
  BY QControlAssumption, SMT
<1> QED
  BY <1>1, QControlAssumption, SMT

\* An unsigned result and its signed reading are integers.
LEMMA Conversions ==
  ASSUME NEW x \in Int
  PROVE  ToUnsigned(x) \in Int /\ ToInt(x) \in Int
<1>1. ToUnsigned(x) \in Int
  BY WrapPositive, SMT DEF ToUnsigned
<1>2. Wrap \div 2 \in Int
  BY WrapPositive, SMT
<1> QED
  BY <1>1, <1>2, WrapPositive DEF ToInt

\* The division of C is one of integers.
LEMMA QuotType ==
  ASSUME NEW a \in Int, NEW b \in Nat \ {0}
  PROVE  Quot(a, b) \in Int
  BY SMT DEF Quot

\* rmptcp_setQ and rmptcp_adaptR derive both control values from the target
\* and leave the rest of the register alone.
LEMMA SetControlsKeeps ==
  ASSUME NEW r \in Shape
  PROVE  /\ SetControls(r) \in Shape
         /\ SetControls(r).q_target = r.q_target
         /\ SetControls(r).q_target_user = r.q_target_user
         /\ SetControls(r).state = r.state
         /\ SetControls(r).meta_sk = r.meta_sk
<1>1. Quot(ToInt(r.q_target), Percent) \in Int
  BY Conversions, QuotType, QControlAssumption DEF Shape
<1>2. Quot(ToInt(ToUnsigned(r.q_target - 1)), Percent) \in Int
  <2>1. r.q_target - 1 \in Int
    BY DEF Shape
  <2> QED
    BY <2>1, Conversions, QuotType, QControlAssumption
<1>3. ToUnsigned(Quot(ToInt(r.q_target), Percent)) \in Int
  BY <1>1, Conversions
<1>4. ToUnsigned(Quot(ToInt(ToUnsigned(r.q_target - 1)), Percent) + 1) \in Int
  BY <1>2, Conversions
<1> QED
  BY <1>3, <1>4 DEF SetControls, Shape

-----------------------------------------------------------------------------
(* From the register at the start of the call to the one that is sent with. *)

\* A change of connection forgets the quota and goes back to Open.
LEMMA SwitchMetaSound ==
  ASSUME NEW r, QuotaSound(r), NEW meta_sk \in Meta
  PROVE  QuotaSound(SwitchMeta(r, meta_sk)) /\ SwitchMeta(r, meta_sk).meta_sk = meta_sk
  BY DEF QuotaSound, SwitchMeta, Shape, RedState

\* An update reads the quota, at least one copy.
LEMMA UpdatedSound ==
  ASSUME NEW r, QuotaSound(r), NEW u \in Updated(r)
  PROVE  QuotaSound(u) /\ u.meta_sk = r.meta_sk
<1> DEFINE N == IF r.state = "Cong" THEN {r.num_enabled} ELSE 0..Subflows
<1>1. N \subseteq Int
  BY QControlAssumption DEF QuotaSound, Shape
<1>2. PICK quota \in Quotas :
        u \in {[r EXCEPT !.q_target_user = Larger(quota, Percent), !.num_enabled = n] : n \in N}
  BY DEF Updated
<1>3. PICK n \in N :
        u = [r EXCEPT !.q_target_user = Larger(quota, Percent), !.num_enabled = n]
  BY <1>2
<1> HIDE DEF N
<1>4. n \in Int
  BY <1>1
<1>5. quota \in Int /\ Percent \in Int
  BY QControlAssumption
<1>6. Larger(quota, Percent) \in Int /\ Larger(quota, Percent) >= Percent
  BY <1>5 DEF Larger
<1> QED
  BY <1>3, <1>4, <1>6 DEF QuotaSound, Shape

\* Lowering the target below the enabled subflows leaves an integer, even if
\* the difference wraps.
LEMMA BelowEnabledType ==
  ASSUME NEW r \in Shape, NEW t \in Int
  PROVE  BelowEnabled(r, t) \in Int /\ WithinReach(r, t) \in Int
<1>1. (r.num_enabled - 1) * Percent \in Int /\ r.num_enabled * Percent \in Int
  BY QControlAssumption DEF Shape
<1>2. /\ ToUnsigned((r.num_enabled - 1) * Percent) \in Int
      /\ ToUnsigned(r.num_enabled * Percent) \in Int
  BY <1>1, Conversions
<1> QED
  BY <1>2 DEF BelowEnabled, WithinReach, Smaller

\* What the last sanity check gets is an integer, and the unknown quota itself
\* as long as it is unknown.
LEMMA AdaptedShape ==
  ASSUME NEW r, QuotaSound(r), NEW a \in Adapted(r)
  PROVE  /\ a \in Shape
         /\ a.q_target_user = r.q_target_user /\ a.state = r.state /\ a.meta_sk = r.meta_sk
         /\ r.q_target_user = 0 => a.q_target = 0
<1> r \in Shape
  BY DEF QuotaSound
<1> Percent \in Nat \ {0} /\ Smoothing \in Nat \ {0}
  BY QControlAssumption
<1>1. CASE r.cong_flag /\ r.state = "Cong"
  <2>1. PICK t \in Ratios : a = [r EXCEPT !.q_target = BelowEnabled(r, t), !.due = FALSE]
    BY <1>1 DEF Adapted, LowerTarget
  <2>2. t \in Int
    BY QControlAssumption, WrapPositive
  <2>3. BelowEnabled(r, t) \in Int
    BY <2>2, BelowEnabledType
  <2>4. r.q_target_user # 0
    BY <1>1 DEF QuotaSound, Shape
  <2> QED
    BY <2>1, <2>3, <2>4 DEF Shape
<1>2. CASE r.state = "Recovery" \/ (r.state = "Cong" /\ ~r.cong_flag)
  <2>1. a \in regulateQ(r)
    BY <1>2 DEF Adapted, Shape
  <2>2. \A t \in Regulated(r) : t \in Int
    <3>1. Raised(r) \in Int /\ ToUnsigned(r.q_target - 1) \in Int
      BY Conversions DEF Raised, Shape
    <3>2. (r.q_actual - Raised(r)) \div Smoothing \in Int
      BY <3>1, SMT DEF Shape
    <3> QED
      BY <3>1, <3>2 DEF Regulated, Shape
  <2>3. \/ a = r
        \/ \E t \in Int : a = [r EXCEPT !.q_target = WithinReach(r, t), !.due = FALSE]
    BY <2>1, <2>2 DEF regulateQ
  <2>4. r.q_target_user # 0
    BY <1>2 DEF QuotaSound, Shape
  <2>5. CASE a = r
    BY <2>4, <2>5
  <2>6. ASSUME NEW t \in Int, a = [r EXCEPT !.q_target = WithinReach(r, t), !.due = FALSE]
        PROVE  a \in Shape /\ a.q_target_user = r.q_target_user
               /\ a.state = r.state /\ a.meta_sk = r.meta_sk
    <3>1. WithinReach(r, t) \in Int
      BY BelowEnabledType
    <3> QED
      BY <2>6, <3>1 DEF Shape
  <2> QED
    BY <2>3, <2>4, <2>5, <2>6
<1>3. CASE ~(r.cong_flag /\ r.state = "Cong")
           /\ ~(r.state = "Recovery" \/ (r.state = "Cong" /\ ~r.cong_flag))
  BY <1>3 DEF Adapted, Shape
<1> QED
  BY <1>1, <1>2, <1>3

\* rmptcp_adaptR ends with a sane target.
LEMMA AdaptRSound ==
  ASSUME NEW r, QuotaSound(r), NEW b \in adaptR(r)
  PROVE  /\ QuotaSound(b) /\ b.meta_sk = r.meta_sk
         /\ Percent <= b.q_target /\ b.q_target <= Larger(Percent, b.q_target_user)
<1>1. PICK a \in Adapted(r) :
        b = SetControls([a EXCEPT !.q_target = Sane(@, r.q_target_user)])
  BY DEF adaptR
<1>2. /\ a \in Shape
      /\ a.q_target_user = r.q_target_user /\ a.state = r.state /\ a.meta_sk = r.meta_sk
      /\ r.q_target_user = 0 => a.q_target = 0
  BY AdaptedShape
<1> DEFINE s == Sane(a.q_target, r.q_target_user)
<1>3. /\ s \in Int
      /\ Percent <= s /\ s <= Larger(Percent, r.q_target_user)
  <2>1. Percent \in Nat \ {0} /\ a.q_target \in Int /\ r.q_target_user \in Int
    BY <1>2, QControlAssumption DEF QuotaSound, Shape
  <2>2. r.q_target_user >= Percent \/ (r.q_target_user = 0 /\ a.q_target = 0)
    BY <1>2 DEF QuotaSound
  <2> QED
    BY <2>1, <2>2 DEF Sane, Larger
<1>4. b = SetControls([a EXCEPT !.q_target = s])
  BY <1>1
<1>5. /\ [a EXCEPT !.q_target = s] \in Shape
      /\ [a EXCEPT !.q_target = s].q_target = s
      /\ [a EXCEPT !.q_target = s].q_target_user = r.q_target_user
      /\ [a EXCEPT !.q_target = s].state = r.state
      /\ [a EXCEPT !.q_target = s].meta_sk = r.meta_sk
  BY <1>2, <1>3 DEF Shape
<1> HIDE DEF s
<1>6. /\ b \in Shape /\ b.q_target = s /\ b.q_target_user = r.q_target_user
      /\ b.state = r.state /\ b.meta_sk = r.meta_sk
  BY <1>4, <1>5, SetControlsKeeps
<1> QED
  BY <1>3, <1>6 DEF QuotaSound

\* With or without adaptive redundancy, the register is sound once there is a
\* target.
LEMMA TargetedSound ==
  ASSUME NEW r, QuotaSound(r), NEW b \in Targeted(r)
  PROVE  QuotaSound(b) /\ TargetSound(b) /\ b.meta_sk = r.meta_sk
<1>1. CASE AdaptivR
  BY <1>1, AdaptRSound DEF Targeted, TargetSound
<1>2. CASE ~AdaptivR
  <2>1. b = SetControls([r EXCEPT !.q_target = r.q_target_user])
    BY <1>2 DEF Targeted, setQ
  <2>2. [r EXCEPT !.q_target = r.q_target_user] \in Shape
    BY DEF QuotaSound, Shape
  <2> QED
    BY <1>2, <2>1, <2>2, SetControlsKeeps DEF QuotaSound, Shape, TargetSound
<1> QED
  BY <1>1, <1>2

\* rmptcp_calc_controlQ touches neither target nor quota.
LEMMA CalcControlQSound ==
  ASSUME NEW r, QuotaSound(r), TargetSound(r)
  PROVE  /\ QuotaSound(calc_controlQ(r)) /\ TargetSound(calc_controlQ(r))
         /\ calc_controlQ(r).meta_sk = r.meta_sk
<1> DEFINE q == Larger(1, Smaller(Larger(1, Wanted(r)), r.num_enabled))
<1>1. q \in Int
  BY DEF QuotaSound, Shape, Wanted, Larger, Smaller
<1> HIDE DEF q
<1>2. calc_controlQ(r) = [r EXCEPT !.cong_flag = FALSE, !.q_control = q]
  BY DEF calc_controlQ, q
<1> QED
  BY <1>1, <1>2 DEF QuotaSound, TargetSound, Shape

\* The register a call selects with.
LEMMA PreparedSound ==
  ASSUME IInv, NEW meta_sk \in Meta, NEW p \in Prepared(meta_sk)
  PROVE  QuotaSound(p) /\ TargetSound(p)
<1> DEFINE r == SwitchMeta(reg, meta_sk)
<1>1. QuotaSound(r)
  BY SwitchMetaSound DEF IInv, Sound
<1>2. PICK r1 \in {r} \cup Updated(r) : \E r2 \in Targeted(r1) : p = calc_controlQ(r2)
  BY DEF Prepared
<1>3. QuotaSound(r1)
  BY <1>1, UpdatedSound
<1> QED
  BY <1>2, <1>3, TargetedSound, CalcControlQSound

-----------------------------------------------------------------------------
(* Sending.                                                                *)

\* The measured mean is an integer and leaves target and quota alone.
LEMMA SetQActualSound ==
  ASSUME NEW r, QuotaSound(r), TargetSound(r), NEW copies \in Int
  PROVE  QuotaSound(setQActual(r, copies)) /\ TargetSound(setQActual(r, copies))
<1>1. Percent \in Nat \ {0} /\ Smoothing \in Nat \ {0} /\ r.q_actual \in Int
  BY QControlAssumption DEF QuotaSound, Shape
<1>2. copies * Percent \in Int
  BY <1>1
<1>3. Quot(copies * Percent - r.q_actual, Smoothing) \in Int
  BY <1>1, <1>2, QuotType
<1>4. Filtered(r.q_actual, copies) \in Int
  BY <1>1, <1>2, <1>3 DEF Filtered
<1> QED
  BY <1>4 DEF setQActual, QuotaSound, TargetSound, Shape

\* The state changes only when the quota is known.
LEMMA JudgedSound ==
  ASSUME NEW r, QuotaSound(r), TargetSound(r), r.q_target_user # 0, NEW j \in Judged(r)
  PROVE  QuotaSound(j) /\ TargetSound(j)
<1>1. \E state \in RedState, cong_flag \in BOOLEAN :
        j = [r EXCEPT !.state = state, !.cong_flag = cong_flag]
  <2>1. r = [r EXCEPT !.state = r.state, !.cong_flag = r.cong_flag]
    BY DEF QuotaSound, Shape
  <2>2. \A state : [r EXCEPT !.state = state]
                     = [r EXCEPT !.state = state, !.cong_flag = r.cong_flag]
    BY DEF QuotaSound, Shape
  <2>3. r.state \in RedState /\ r.cong_flag \in BOOLEAN
    BY DEF QuotaSound, Shape
  <2> QED
    BY <2>1, <2>2, <2>3 DEF Judged, RedState
<1> QED
  BY <1>1 DEF QuotaSound, TargetSound, Shape

\* A segment is sent with a sane target, or not sent at all.
LEMMA StepSound == IInv /\ [Next]_vars => IInv'
<1> SUFFICES ASSUME IInv, [Next]_vars PROVE Sound(reg')
  BY DEF IInv, Sound, QuotaSound, TargetSound
<1>1. ASSUME NEW meta_sk \in Meta, NoSend(meta_sk) PROVE Sound(reg')
  BY <1>1, PreparedSound DEF NoSend, Sound
<1>2. ASSUME NEW meta_sk \in Meta, Send(meta_sk) PROVE Sound(reg')
  <2>1. PICK r \in Prepared(meta_sk) : \E copies \in Copies(r) :
          reg' \in Judged(setQActual(r, copies))
    BY <1>2 DEF Send
  <2>2. PICK copies \in Copies(r) : reg' \in Judged(setQActual(r, copies))
    BY <2>1
  <2>3. QuotaSound(r) /\ TargetSound(r)
    BY PreparedSound
  <2>4. r.q_target_user # 0
    BY <2>2 DEF Copies, Known
  <2>5. copies \in Int
    BY <2>2, <2>3, QControlAssumption DEF Copies, QuotaSound, Shape
  <2>6. /\ QuotaSound(setQActual(r, copies)) /\ TargetSound(setQActual(r, copies))
        /\ setQActual(r, copies).q_target_user # 0
    BY <2>3, <2>4, <2>5, SetQActualSound DEF setQActual, QuotaSound, Shape
  <2> QED
    BY <2>2, <2>6, JudgedSound DEF Sound
<1>3. ASSUME TimePasses PROVE Sound(reg')
  BY <1>3 DEF TimePasses, IInv, Sound, QuotaSound, TargetSound, Shape
<1>4. ASSUME SubflowsChange \/ UNCHANGED vars PROVE Sound(reg')
  BY <1>4 DEF SubflowsChange, vars, IInv
<1> QED
  BY <1>1, <1>2, <1>3, <1>4 DEF Next

\* The register starts without a connection and without a quota.
LEMMA InitSound == Init => IInv
  BY DEF Init, IInv, Sound, QuotaSound, Shape, RedState

\* The invariant holds of every behaviour, fair or not.
THEOREM Invariance == Spec => []IInv
<1>1. Init => IInv
  BY InitSound
<1>2. IInv /\ [Next]_vars => IInv'
  BY StepSound
<1> QED
  BY <1>1, <1>2, PTL DEF Spec

\* rmptcp_adaptR never leaves a target below one copy or above the quota, for
\* whatever quotas, measurements and numbers of subflows, including the wrapped
\* differences for no enabled subflow.
THEOREM TargetStaysSane == Spec => []TargetIsSane
<1>1. IInv => TargetIsSane
  BY DEF IInv, Sound, TargetSound, TargetIsSane
<1> QED
  BY <1>1, Invariance, PTL

-----------------------------------------------------------------------------
(* The numbers stay in their ranges, and the target of a failure in reach.  *)

Half == Wrap \div 2

Actual == {0} \cup Percent..Percent * Subflows

\* Targets are below Half, where the casts to int and back change nothing; the
\* mean is that of 1 to Subflows copies.
Ranges(r) ==
  /\ QuotaSound(r)
  /\ r.num_enabled \in 0..Subflows
  /\ r.q_target \in 0..Half - 1
  /\ r.q_target_user \in 0..Half - 1
  /\ r.q_control_low \in Unsigned
  /\ r.q_control_high \in Unsigned
  /\ r.q_control \in 0..Subflows
  /\ r.q_actual \in Actual

\* The copies that leave one of the enabled subflows out, but at least one.
Fewer(r) == Larger(1, r.num_enabled - 1)

NoSubstitutes == AdaptivR /\ ~AdaptivPath

\* Once a call has answered the failure, the target leaves one subflow out ...
Lowered(r) ==
  NoSubstitutes /\ r.state = "Cong" /\ r.num_enabled > 0 => r.q_target <= Percent * Fewer(r)

\* ... and so does the number of copies.
Answered(r) ==
  Lowered(r) /\ (NoSubstitutes /\ r.state = "Cong" => r.q_control <= Fewer(r))

\* The invariant of the ranges and of the answer to a failure; a failure that
\* is new (cong_flag) has no answer yet.
RInv ==
  /\ Ranges(reg)
  /\ reg.cong_flag \/ Answered(reg)
  /\ calm \in BOOLEAN

\* A quotient is below the factor its dividend is below.
LEMMA QuotientBelow ==
  ASSUME NEW a \in Int, NEW b \in Nat \ {0}, NEW c \in Int, a < b * c
  PROVE  a \div b < c
  BY SMT

\* A quotient of a natural number is one, and no larger.
LEMMA QuotientShrinks ==
  ASSUME NEW a \in Nat, NEW b \in Nat \ {0}
  PROVE  a \div b \in Nat /\ a \div b <= a
  BY SMT

\* All percentages in use are below Half.
LEMMA HalfFacts ==
  /\ Half \in Nat /\ Wrap = 2 * Half
  /\ Percent < Half /\ Percent * Subflows < Half
  /\ Percent * Subflows \in Nat /\ Percent <= Percent * Subflows
<1>1. Half \in Nat /\ Wrap = 2 * Half
  BY QControlAssumption, SMT DEF Half
<1>2. /\ Percent * (Subflows + 1) = Percent * Subflows + Percent
      /\ Percent * Subflows \in Nat /\ Percent <= Percent * Subflows
  BY QControlAssumption, SMT
<1>3. Wrap > 2 * (Percent * (Subflows + 1))
  <2>1. 2 * Percent * (Subflows + 1) = 2 * (Percent * (Subflows + 1))
    BY QControlAssumption, SMT
  <2> QED
    BY <2>1, QControlAssumption
<1> QED
  BY <1>1, <1>2, <1>3, QControlAssumption

\* Conversions change nothing below Half.
LEMMA SmallNumbers ==
  ASSUME NEW x \in 0..Half
  PROVE  ToUnsigned(x) = x /\ (x < Half => ToInt(x) = x)
<1>1. x < Wrap /\ x \in Nat
  BY HalfFacts, QControlAssumption
<1>2. x % Wrap = x
  BY <1>1, WrapPositive, SMT
<1>3. x < Half => ToInt(x) = x
  BY DEF ToInt, Half
<1> QED
  BY <1>2, <1>3 DEF ToUnsigned

\* Every unsigned result is one.
LEMMA UnsignedType ==
  ASSUME NEW x \in Int
  PROVE  ToUnsigned(x) \in Unsigned
  BY WrapPositive, SMT DEF ToUnsigned, Unsigned

\* For a target of at least one copy the control values are the whole numbers
\* below and above it.
LEMMA SetControlsExact ==
  ASSUME NEW r \in Shape, r.q_target \in 1..Half - 1
  PROVE  /\ SetControls(r).q_control_low = r.q_target \div Percent
         /\ SetControls(r).q_control_high = (r.q_target - 1) \div Percent + 1
<1> DEFINE t == r.q_target
<1>0. Half \in Nat /\ Percent \in Nat \ {0} /\ t \in Nat /\ t - 1 \in Nat
  BY HalfFacts, QControlAssumption
<1>1. ToInt(t) = t /\ ToUnsigned(t - 1) = t - 1 /\ ToInt(t - 1) = t - 1
  BY <1>0, SmallNumbers
<1>2. Quot(t, Percent) = t \div Percent /\ Quot(t - 1, Percent) = (t - 1) \div Percent
  BY <1>0 DEF Quot
<1>3. /\ t \div Percent \in Nat /\ t \div Percent <= t
      /\ (t - 1) \div Percent \in Nat /\ (t - 1) \div Percent <= t - 1
  BY <1>0, QuotientShrinks
<1>4. /\ ToUnsigned(t \div Percent) = t \div Percent
      /\ ToUnsigned((t - 1) \div Percent + 1) = (t - 1) \div Percent + 1
  BY <1>0, <1>3, SmallNumbers
<1> QED
  BY <1>1, <1>2, <1>4 DEF SetControls, Shape

\* What neither the target nor the control values are.
SameRest(n, r) ==
  /\ n.state = r.state /\ n.cong_flag = r.cong_flag /\ n.num_enabled = r.num_enabled
  /\ n.q_target_user = r.q_target_user /\ n.q_control = r.q_control
  /\ n.q_actual = r.q_actual

\* Deriving the control values leaves the ranges alone.
LEMMA SetControlsRanges ==
  ASSUME NEW r \in Shape
  PROVE  /\ SetControls(r) \in Shape /\ SetControls(r).q_target = r.q_target
         /\ SameRest(SetControls(r), r)
         /\ SetControls(r).q_control_low \in Unsigned
         /\ SetControls(r).q_control_high \in Unsigned
<1>1. Quot(ToInt(r.q_target), Percent) \in Int
  BY Conversions, QuotType, QControlAssumption DEF Shape
<1>2. r.q_target - 1 \in Int
  BY DEF Shape
<1>3. Quot(ToInt(ToUnsigned(r.q_target - 1)), Percent) + 1 \in Int
  <2>1. Quot(ToInt(ToUnsigned(r.q_target - 1)), Percent) \in Int
    BY <1>2, Conversions, QuotType, QControlAssumption
  <2> QED
    BY <2>1
<1> DEFINE low  == ToUnsigned(Quot(ToInt(r.q_target), Percent))
           high == ToUnsigned(Quot(ToInt(ToUnsigned(r.q_target - 1)), Percent) + 1)
<1>4. low \in Unsigned /\ high \in Unsigned
  BY <1>1, <1>3, UnsignedType
<1>5. SetControls(r) = [r EXCEPT !.q_control_low = low, !.q_control_high = high]
  BY DEF SetControls
<1> HIDE DEF low, high
<1>6. /\ SetControls(r).q_control_low = low /\ SetControls(r).q_control_high = high
      /\ SameRest(SetControls(r), r)
  BY <1>5 DEF Shape, SameRest
<1> QED
  BY <1>4, <1>6, SetControlsKeeps

\* A lowered target is lower than what the enabled subflows give, if any is.
LEMMA BelowEnabledBound ==
  ASSUME NEW r \in Shape, r.num_enabled \in 1..Subflows, NEW t \in Int
  PROVE  BelowEnabled(r, t) <= Percent * Fewer(r)
<1> DEFINE n == r.num_enabled
           x == (n - 1) * Percent
<1>1. n \in 1..Subflows /\ Percent \in Nat \ {0} /\ Subflows \in Nat \ {0}
  BY QControlAssumption
<1> HIDE DEF n
<1>2. x \in Nat /\ x <= Percent * Subflows /\ x <= Percent * Larger(1, n - 1)
  <2>1. n - 1 \in Nat /\ n - 1 <= Subflows
    BY <1>1
  <2>2. x \in Nat /\ x <= Percent * Subflows /\ x = Percent * (n - 1)
    BY <1>1, <2>1, SMT
  <2>3. CASE n - 1 >= 1
    BY <2>1, <2>2, <2>3 DEF Larger
  <2>4. CASE n = 1
    BY <1>1, <2>2, <2>4, SMT DEF Larger
  <2> QED
    BY <1>1, <2>3, <2>4
<1> HIDE DEF x
<1>3. ToUnsigned(x) = x
  BY <1>2, HalfFacts, SmallNumbers
<1>4. Percent * Larger(1, n - 1) \in Int
  BY <1>1, SMT DEF Larger
<1> QED
  BY <1>2, <1>3, <1>4 DEF BelowEnabled, Smaller, Fewer, n, x

\* The answer to a failure, before the sanity check.
LEMMA AdaptedRanges ==
  ASSUME NEW r, Ranges(r), r.cong_flag \/ Lowered(r), NEW a \in Adapted(r)
  PROVE  SameRest(a, r) /\ (AdaptivR => Lowered(a))
<1> r \in Shape
  BY DEF Ranges, QuotaSound
<1>1. CASE r.cong_flag /\ r.state = "Cong"
  <2>1. PICK t \in Ratios : a = [r EXCEPT !.q_target = BelowEnabled(r, t), !.due = FALSE]
    BY <1>1 DEF Adapted, LowerTarget
  <2>2. SameRest(a, r) /\ a.q_target = BelowEnabled(r, t)
    BY <2>1 DEF SameRest, Shape
  <2>3. r.num_enabled > 0 => BelowEnabled(r, t) <= Percent * Fewer(r)
    <3>1. t \in Int
      BY QControlAssumption, WrapPositive
    <3>2. r.num_enabled > 0 => r.num_enabled \in 1..Subflows
      BY QControlAssumption DEF Ranges
    <3> QED
      BY <3>1, <3>2, BelowEnabledBound
  <2> QED
    BY <2>2, <2>3 DEF Lowered, Fewer, SameRest
<1>2. CASE r.state = "Recovery" \/ (r.state = "Cong" /\ ~r.cong_flag)
  <2>1. a \in regulateQ(r)
    BY <1>2 DEF Adapted, Shape
  <2>2. CASE a = r
    BY <1>2, <2>2 DEF SameRest, Lowered
  <2>3. CASE \E t \in Regulated(r) : a = [r EXCEPT !.q_target = WithinReach(r, t), !.due = FALSE]
    <3>1. PICK t \in Regulated(r) : a = [r EXCEPT !.q_target = WithinReach(r, t), !.due = FALSE]
      BY <2>3
    <3>2. SameRest(a, r) /\ a.q_target = WithinReach(r, t)
      BY <3>1 DEF SameRest, Shape
    <3>3. t \in Int
      <4>1. Raised(r) \in Int /\ ToUnsigned(r.q_target - 1) \in Int
        BY Conversions DEF Raised, Shape
      <4>2. (r.q_actual - Raised(r)) \div Smoothing \in Int
        BY <4>1, QControlAssumption, SMT DEF Shape
      <4> QED
        BY <4>1, <4>2 DEF Regulated, Shape
    <3>4. r.num_enabled > 0 => BelowEnabled(r, t) <= Percent * Fewer(r)
      <4>1. r.num_enabled > 0 => r.num_enabled \in 1..Subflows
        BY QControlAssumption DEF Ranges
      <4> QED
        BY <3>3, <4>1, BelowEnabledBound
    <3> QED
      BY <3>2, <3>4, QControlAssumption
      DEF Lowered, Fewer, SameRest, WithinReach, NoSubstitutes
  <2> QED
    BY <2>1, <2>2, <2>3 DEF regulateQ
<1>3. CASE ~(r.cong_flag /\ r.state = "Cong")
           /\ ~(r.state = "Recovery" \/ (r.state = "Cong" /\ ~r.cong_flag))
  <2>1. a = [r EXCEPT !.q_target = r.q_target_user] /\ r.state # "Cong"
    BY <1>3 DEF Adapted, Shape
  <2> QED
    BY <2>1 DEF SameRest, Shape, Lowered
<1> QED
  BY <1>1, <1>2, <1>3

\* The sanity check keeps a lowered target lowered, and any target below Half.
LEMMA AdaptRRanges ==
  ASSUME NEW r, Ranges(r), r.cong_flag \/ Lowered(r), NEW b \in adaptR(r)
  PROVE  /\ Ranges(b) /\ (AdaptivR => Lowered(b)) /\ b.q_target \in 1..Half - 1
         /\ b.q_control_low = b.q_target \div Percent
         /\ b.q_control_high = (b.q_target - 1) \div Percent + 1
<1>1. PICK a \in Adapted(r) :
        b = SetControls([a EXCEPT !.q_target = Sane(@, r.q_target_user)])
  BY DEF adaptR
<1>2. a \in Shape /\ SameRest(a, r) /\ (AdaptivR => Lowered(a))
  BY AdaptedShape, AdaptedRanges DEF Ranges
<1>3. /\ QuotaSound(b) /\ Percent <= b.q_target
      /\ b.q_target <= Larger(Percent, b.q_target_user)
  BY AdaptRSound DEF Ranges
<1> DEFINE s == Sane(a.q_target, r.q_target_user)
           c == [a EXCEPT !.q_target = s]
<1>4. a.q_target \in Int /\ r.q_target_user \in Int /\ Percent \in Nat \ {0}
  BY <1>2, QControlAssumption DEF Shape, Ranges, QuotaSound
<1>5. s \in Int /\ (s <= a.q_target \/ s = Percent)
  BY <1>4 DEF Sane
<1> HIDE DEF s
<1>6. c \in Shape /\ SameRest(c, a) /\ c.q_target = s
  BY <1>2, <1>5 DEF Shape, SameRest
<1>7. b = SetControls(c)
  BY <1>1 DEF s
<1> HIDE DEF c
<1>8. /\ b.q_target = s /\ SameRest(b, c)
      /\ b.q_control_low \in Unsigned /\ b.q_control_high \in Unsigned
  BY <1>6, <1>7, SetControlsRanges
<1>9. SameRest(b, r)
  BY <1>2, <1>6, <1>8 DEF SameRest
<1>10. b.q_target \in 1..Half - 1
  <2>1. b.q_target_user \in 0..Half - 1 /\ b.q_target \in Int
    BY <1>3, <1>9 DEF SameRest, Ranges, QuotaSound, Shape
  <2> QED
    BY <1>3, <1>4, <2>1, HalfFacts DEF Larger
<1>11. Ranges(b)
  BY <1>3, <1>8, <1>9, <1>10 DEF Ranges, SameRest
<1>12. AdaptivR => Lowered(b)
  <2>1. r.num_enabled > 0 => Percent <= Percent * Fewer(r) /\ Percent * Fewer(r) \in Int
    <3>1. Fewer(r) \in Nat /\ Fewer(r) >= 1
      BY QControlAssumption DEF Fewer, Larger, Ranges
    <3> QED
      BY <1>4, <3>1, SMT
  <2> QED
    BY <1>2, <1>4, <1>5, <1>8, <1>9, <2>1 DEF Lowered, Fewer, SameRest
<1>13. /\ b.q_control_low = b.q_target \div Percent
       /\ b.q_control_high = (b.q_target - 1) \div Percent + 1
  BY <1>6, <1>7, <1>8, <1>10, SetControlsExact
<1> QED
  BY <1>10, <1>11, <1>12, <1>13

\* Without adaptive redundancy the target is the quota.
LEMMA SetQRanges ==
  ASSUME NEW r, Ranges(r)
  PROVE  Ranges(setQ(r))
<1> DEFINE c == [r EXCEPT !.q_target = r.q_target_user]
<1>1. c \in Shape /\ SameRest(c, r) /\ c.q_target = r.q_target_user
  BY DEF Ranges, QuotaSound, Shape, SameRest
<1> HIDE DEF c
<1>2. setQ(r) = SetControls(c)
  BY DEF setQ, c
<1>3. /\ SetControls(c) \in Shape /\ SetControls(c).q_target = r.q_target_user
      /\ SameRest(SetControls(c), c)
      /\ SetControls(c).q_control_low \in Unsigned
      /\ SetControls(c).q_control_high \in Unsigned
  BY <1>1, SetControlsRanges
<1> QED
  BY <1>1, <1>2, <1>3 DEF Ranges, QuotaSound, SameRest

\* Both whole numbers around a lowered target leave one subflow out.
LEMMA CalcControlQRanges ==
  ASSUME NEW r, Ranges(r), NoSubstitutes => Lowered(r),
         NoSubstitutes => /\ r.q_target \in 1..Half - 1
                          /\ r.q_control_low = r.q_target \div Percent
                          /\ r.q_control_high = (r.q_target - 1) \div Percent + 1
  PROVE  /\ Ranges(calc_controlQ(r)) /\ Answered(calc_controlQ(r))
         /\ calc_controlQ(r).q_control >= 1
<1> DEFINE n == r.num_enabled
           w == Wanted(r)
           q == Larger(1, Smaller(Larger(1, w), n))
           c == calc_controlQ(r)
<1>1. w \in Int /\ n \in 0..Subflows /\ Subflows \in Nat \ {0} /\ Percent \in Nat \ {0}
  BY QControlAssumption DEF Wanted, Ranges, QuotaSound, Shape
<1>2. q \in 1..Subflows /\ (n = 0 => q = 1) /\ (q <= 1 \/ q <= w)
  BY <1>1 DEF Larger, Smaller
<1>3. ASSUME NoSubstitutes, r.state = "Cong"
      PROVE  q <= Fewer(r)
  <2>0. Fewer(r) \in Nat /\ Fewer(r) >= 1
    BY <1>1 DEF Fewer, Larger
  <2>1. CASE n = 0
    BY <1>2, <2>0, <2>1
  <2>2. CASE n > 0
    <3>1. r.q_target <= Percent * Fewer(r) /\ r.q_target \in Nat
      BY <1>3, <2>2 DEF Lowered
    <3>2. r.q_target < Percent * (Fewer(r) + 1) /\ r.q_target - 1 < Percent * Fewer(r)
      <4>1. Percent * (Fewer(r) + 1) = Percent * Fewer(r) + Percent /\ Percent * Fewer(r) \in Int
        BY <1>1, <2>0, SMT
      <4> QED
        BY <1>1, <3>1, <4>1
    <3>3. r.q_target \div Percent < Fewer(r) + 1 /\ (r.q_target - 1) \div Percent < Fewer(r)
      <4> DEFINE f == Fewer(r)
                 g == Fewer(r) + 1
                 u == r.q_target - 1
      <4>1. f \in Int /\ g \in Int /\ u \in Int /\ r.q_target \in Int
        BY <2>0, <3>1
      <4>2. u < Percent * f /\ r.q_target < Percent * g
        BY <3>2
      <4> HIDE DEF f, g, u
      <4>3. r.q_target \div Percent < g
        BY <1>1, <4>1, <4>2, QuotientBelow
      <4>4. u \div Percent < f
        BY <1>1, <4>1, <4>2, QuotientBelow
      <4> QED
        BY <4>3, <4>4 DEF f, g, u
    <3>4. w <= Fewer(r)
      <4>1. r.q_target \div Percent \in Int /\ (r.q_target - 1) \div Percent \in Int
        BY <1>1, <3>1, SMT
      <4> QED
        BY <1>3, <2>0, <3>3, <4>1 DEF Wanted
    <3> HIDE DEF w, q
    <3> QED
      BY <1>1, <1>2, <2>0, <3>4
  <2> QED
    BY <1>1, <2>1, <2>2
<1> HIDE DEF w, q
<1>4. c = [r EXCEPT !.cong_flag = FALSE, !.q_control = q]
  BY DEF calc_controlQ, q, w
<1> HIDE DEF c
<1>5. /\ c \in Shape /\ c.state = r.state /\ c.num_enabled = r.num_enabled
      /\ c.q_target = r.q_target /\ c.q_target_user = r.q_target_user
      /\ c.q_control_low = r.q_control_low /\ c.q_control_high = r.q_control_high
      /\ c.q_control = q /\ c.q_actual = r.q_actual
  <2>1. r \in Shape /\ q \in Int
    BY <1>1, <1>2 DEF Ranges, QuotaSound
  <2> QED
    BY <1>4, <2>1 DEF Shape
<1>6. Ranges(c)
  BY <1>2, <1>5 DEF Ranges, QuotaSound
<1>7. Answered(c)
  BY <1>3, <1>5 DEF Answered, Lowered, Fewer
<1> QED
  BY <1>2, <1>5, <1>6, <1>7 DEF c

\* A change of connection leaves numbers of the same ranges, and no failure.
LEMMA SwitchMetaRanges ==
  ASSUME NEW r, Ranges(r), NEW meta_sk \in Meta, r.cong_flag \/ Answered(r)
  PROVE  LET n == SwitchMeta(r, meta_sk) IN Ranges(n) /\ (n.cong_flag \/ Answered(n))
<1> DEFINE n == SwitchMeta(r, meta_sk)
<1>1. CASE r.meta_sk = meta_sk
  BY <1>1 DEF SwitchMeta
<1>2. CASE r.meta_sk # meta_sk
  <2>1. QuotaSound(n)
    BY SwitchMetaSound DEF Ranges
  <2>2. /\ n.state = "Open" /\ n.num_enabled = 0 /\ n.q_target = 0 /\ n.q_target_user = 0
        /\ n.q_control_low = 0 /\ n.q_control_high = 0 /\ n.q_control = 0 /\ n.q_actual = 0
    BY <1>2 DEF SwitchMeta
  <2>3. 0 \in 0..Half - 1 /\ 0 \in 0..Subflows /\ 0 \in Unsigned
    BY HalfFacts, WrapPositive, QControlAssumption DEF Unsigned
  <2> HIDE DEF n
  <2>4. Ranges(n)
    BY <2>1, <2>2, <2>3 DEF Ranges, Actual
  <2>5. Answered(n)
    BY <2>2 DEF Answered, Lowered
  <2> QED
    BY <2>4, <2>5 DEF n
<1> QED
  BY <1>1, <1>2

\* An update counts the enabled subflows only while no failure is answered.
LEMMA UpdatedRanges ==
  ASSUME NEW r, Ranges(r), r.cong_flag \/ Answered(r), NEW u \in Updated(r)
  PROVE  Ranges(u) /\ (u.cong_flag \/ Lowered(u))
<1> DEFINE N == IF r.state = "Cong" THEN {r.num_enabled} ELSE 0..Subflows
<1>1. PICK quota \in Quotas :
        u \in {[r EXCEPT !.q_target_user = Larger(quota, Percent), !.num_enabled = n] : n \in N}
  BY DEF Updated
<1>2. PICK n \in N :
        u = [r EXCEPT !.q_target_user = Larger(quota, Percent), !.num_enabled = n]
  BY <1>1
<1>3. n \in 0..Subflows /\ (r.state = "Cong" => n = r.num_enabled)
  BY QControlAssumption DEF Ranges
<1>4. Larger(quota, Percent) \in 0..Half - 1
  BY HalfFacts, QControlAssumption DEF Larger, Half
<1> HIDE DEF N
<1>5. QuotaSound(u)
  BY UpdatedSound DEF Ranges
<1>6. /\ u.state = r.state /\ u.cong_flag = r.cong_flag /\ u.num_enabled = n
      /\ u.q_target_user = Larger(quota, Percent) /\ u.q_target = r.q_target
      /\ u.q_control_low = r.q_control_low /\ u.q_control_high = r.q_control_high
      /\ u.q_control = r.q_control /\ u.q_actual = r.q_actual
  BY <1>2 DEF Ranges, QuotaSound, Shape
<1> QED
  BY <1>3, <1>4, <1>5, <1>6 DEF Ranges, Answered, Lowered, Fewer

\* The register a call selects with has answered the failure it knows of.
LEMMA PreparedRanges ==
  ASSUME RInv, NEW meta_sk \in Meta, NEW p \in Prepared(meta_sk)
  PROVE  Ranges(p) /\ Answered(p) /\ p.q_control >= 1
<1> DEFINE r == SwitchMeta(reg, meta_sk)
<1>1. Ranges(r) /\ (r.cong_flag \/ Answered(r))
  BY SwitchMetaRanges DEF RInv
<1>2. PICK r1 \in {r} \cup Updated(r) : \E r2 \in Targeted(r1) : p = calc_controlQ(r2)
  BY DEF Prepared
<1>3. Ranges(r1) /\ (r1.cong_flag \/ Lowered(r1))
  BY <1>1, UpdatedRanges DEF Answered
<1>4. PICK r2 \in Targeted(r1) : p = calc_controlQ(r2)
  BY <1>2
<1>5. CASE AdaptivR
  BY <1>3, <1>4, <1>5, AdaptRRanges, CalcControlQRanges DEF Targeted
<1>6. CASE ~AdaptivR
  <2>1. Ranges(r2)
    BY <1>3, <1>4, <1>6, SetQRanges DEF Targeted
  <2> QED
    BY <1>4, <1>6, <2>1, CalcControlQRanges DEF NoSubstitutes
<1> QED
  BY <1>5, <1>6

\* The mean moves towards what was sent and not beyond.
LEMMA FilteredRange ==
  ASSUME NEW actual \in Actual, NEW copies \in 1..Subflows
  PROVE  Filtered(actual, copies) \in Percent..Percent * Subflows
<1> DEFINE x   == copies * Percent
           top == Percent * Subflows
           err == x - actual
<1>1. /\ Percent \in Nat \ {0} /\ Smoothing \in Nat \ {0} /\ top \in Nat
      /\ actual \in Int
  BY QControlAssumption, HalfFacts DEF Actual
<1>2. x \in Percent..top
  BY QControlAssumption, SMT
<1> HIDE DEF x, top
<1>3. CASE actual = 0
  BY <1>2, <1>3 DEF Filtered, x, top
<1>4. CASE actual # 0
  <2>1. actual \in Percent..top
    BY <1>4 DEF Actual, top
  <2>2. err \in Int
    BY <1>1, <1>2
  <2>3. err >= 0 => Quot(err, Smoothing) \in Nat /\ Quot(err, Smoothing) <= err
    BY <1>1, <2>2, QuotientShrinks DEF Quot
  <2>4. err < 0 => Quot(err, Smoothing) \in Int /\ Quot(err, Smoothing) <= 0
                   /\ Quot(err, Smoothing) >= err
    <3>1. err < 0 => -err \in Nat
      BY <2>2
    <3>2. err < 0 => (-err) \div Smoothing \in Nat /\ (-err) \div Smoothing <= -err
      BY <1>1, <3>1, QuotientShrinks
    <3> QED
      BY <2>2, <3>2 DEF Quot
  <2>5. Filtered(actual, copies) \in
          {IF 0 < err THEN actual + 1 ELSE actual - 1, actual + Quot(err, Smoothing)}
        /\ (err = 0 => Filtered(actual, copies) = actual + Quot(err, Smoothing))
    BY <1>1, <1>4, <2>2 DEF Filtered, x
  <2> DEFINE f == Filtered(actual, copies)
             q == Quot(err, Smoothing)
  <2> HIDE DEF f, q
  <2>6. /\ f \in {IF 0 < err THEN actual + 1 ELSE actual - 1, actual + q}
        /\ (err = 0 => f = actual + q)
        /\ err >= 0 => q \in Nat /\ q <= err
        /\ err < 0 => q \in Int /\ q <= 0 /\ q >= err
    BY <2>3, <2>4, <2>5 DEF f, q
  <2>7. f \in Percent..top
    BY <1>1, <1>2, <2>1, <2>2, <2>6
  <2> QED
    BY <2>7 DEF f, top
<1> QED
  BY <1>3, <1>4

\* A new failure is flagged, so that its answer is not missed yet.
LEMMA JudgedRanges ==
  ASSUME NEW r, Ranges(r), Answered(r), r.q_target_user # 0, NEW j \in Judged(r)
  PROVE  Ranges(j) /\ (j.cong_flag \/ Answered(j))
<1> r \in Shape
  BY DEF Ranges, QuotaSound
<1>1. \/ j = r
      \/ \E state \in RedState \ {"Cong"} : j = [r EXCEPT !.state = state]
      \/ \E state \in RedState : j = [r EXCEPT !.state = state, !.cong_flag = TRUE]
  BY DEF Judged, RedState
<1>2. /\ j \in Shape /\ j.state \in RedState /\ j.num_enabled = r.num_enabled
      /\ j.q_target = r.q_target /\ j.q_target_user = r.q_target_user
      /\ j.q_control_low = r.q_control_low /\ j.q_control_high = r.q_control_high
      /\ j.q_control = r.q_control /\ j.q_actual = r.q_actual
      /\ j.cong_flag \/ j.state # "Cong" \/ j = r
  BY <1>1 DEF Shape, RedState
<1>3. Ranges(j)
  BY <1>2 DEF Ranges, QuotaSound
<1>4. j.state # "Cong" => Answered(j)
  BY DEF Answered, Lowered
<1> QED
  BY <1>2, <1>3, <1>4

\* Every call keeps the numbers in their ranges and answers the failure.
LEMMA StepRanges == RInv /\ [Next]_vars => RInv'
<1> SUFFICES ASSUME RInv, [Next]_vars PROVE RInv'
  OBVIOUS
<1>1. ASSUME Ranges(reg'), reg'.cong_flag \/ Answered(reg'), calm' \in BOOLEAN
      PROVE  RInv'
  BY <1>1 DEF RInv, Ranges, QuotaSound, Shape, Answered, Lowered, Fewer, Actual, Unsigned
<1>2. ASSUME NEW meta_sk \in Meta, NoSend(meta_sk) PROVE RInv'
  BY <1>1, <1>2, PreparedRanges DEF NoSend, RInv
<1>3. ASSUME NEW meta_sk \in Meta, Send(meta_sk) PROVE RInv'
  <2>1. PICK r \in Prepared(meta_sk) : \E copies \in Copies(r) :
          reg' \in Judged(setQActual(r, copies))
    BY <1>3 DEF Send
  <2>2. PICK copies \in Copies(r) : reg' \in Judged(setQActual(r, copies))
    BY <2>1
  <2>3. Ranges(r) /\ Answered(r) /\ r.q_control >= 1 /\ r.q_target_user # 0
    BY <2>2, PreparedRanges DEF Copies, Known
  <2>4. copies \in 1..Subflows
    BY <2>2, <2>3, QControlAssumption DEF Copies, Ranges
  <2> DEFINE s == setQActual(r, copies)
             f == Filtered(r.q_actual, copies)
  <2>5. f \in Percent..Percent * Subflows
    BY <2>3, <2>4, FilteredRange DEF Ranges
  <2>6. Ranges(s) /\ Answered(s) /\ s.q_target_user # 0
    <3>1. f \in Int /\ f \in Actual
      BY <2>5 DEF Actual
    <3>2. s = [r EXCEPT !.q_actual = f]
      BY DEF setQActual
    <3> HIDE DEF s, f
    <3>3. /\ s \in Shape /\ s.state = r.state /\ s.num_enabled = r.num_enabled
          /\ s.q_target = r.q_target /\ s.q_target_user = r.q_target_user
          /\ s.q_control_low = r.q_control_low /\ s.q_control_high = r.q_control_high
          /\ s.q_control = r.q_control /\ s.q_actual = f
      BY <2>3, <3>1, <3>2 DEF Ranges, QuotaSound, Shape
    <3> QED
      BY <2>3, <3>1, <3>3 DEF Ranges, QuotaSound, Answered, Lowered, Fewer
  <2> HIDE DEF s
  <2>7. Ranges(reg') /\ (reg'.cong_flag \/ Answered(reg'))
    BY <2>2, <2>6, JudgedRanges DEF s
  <2> QED
    BY <1>1, <1>3, <2>7 DEF Send, RInv
<1>4. ASSUME TimePasses PROVE RInv'
  <2>1. /\ reg' \in Shape /\ reg'.state = reg.state /\ reg'.num_enabled = reg.num_enabled
        /\ reg'.q_target = reg.q_target /\ reg'.q_target_user = reg.q_target_user
        /\ reg'.q_control_low = reg.q_control_low
        /\ reg'.q_control_high = reg.q_control_high
        /\ reg'.q_control = reg.q_control /\ reg'.q_actual = reg.q_actual
        /\ reg'.cong_flag = reg.cong_flag
    BY <1>4 DEF TimePasses, RInv, Ranges, QuotaSound, Shape
  <2>2. Ranges(reg') /\ (reg'.cong_flag \/ Answered(reg'))
    BY <2>1 DEF RInv, Ranges, QuotaSound, Answered, Lowered, Fewer
  <2> QED
    BY <1>1, <1>4, <2>2 DEF TimePasses, RInv
<1>5. ASSUME SubflowsChange \/ UNCHANGED vars PROVE RInv'
  BY <1>1, <1>5 DEF SubflowsChange, vars, RInv
<1> QED
  BY <1>2, <1>3, <1>4, <1>5 DEF Next

\* The ranges and the answer to failures hold of every behaviour.
THEOREM RangesInvariance == Spec => []RInv
<1>1. Init => RInv
  <2> SUFFICES ASSUME Init PROVE RInv
    OBVIOUS
  <2>1. QuotaSound(reg)
    BY InitSound DEF IInv, Sound
  <2>2. 0 \in 0..Half - 1 /\ 0 \in 0..Subflows /\ 0 \in Unsigned
    BY HalfFacts, WrapPositive, QControlAssumption DEF Unsigned
  <2> QED
    BY <2>1, <2>2 DEF Init, RInv, Ranges, Actual, Answered, Lowered
<1>2. RInv /\ [Next]_vars => RInv'
  BY StepRanges
<1> QED
  BY <1>1, <1>2, PTL DEF Spec

\* All numbers of the control keep the ranges of the code: targets and control
\* values never leave the unsigned range, the number of copies is no more than
\* there are subflows, and the mean is that of 1 to Subflows copies.
THEOREM TypeCorrect == Spec => []TypeOK
<1>1. RInv => TypeOK
  <2> SUFFICES ASSUME RInv PROVE TypeOK
    OBVIOUS
  <2>1. 0..Half - 1 \subseteq Unsigned /\ Larger(1, Subflows) = Subflows
    BY HalfFacts, QControlAssumption DEF Unsigned, Larger
  <2>2. reg \in Register
    BY <2>1 DEF RInv, Ranges, QuotaSound, Shape, Register, Actual
  <2> QED
    BY <2>2 DEF TypeOK, RInv
<1> QED
  BY <1>1, RangesInvariance, PTL

\* Whatever bandwidths and utilizations are measured and whatever the quota is
\* set to meanwhile, a segment sent after a failure waits for all enabled
\* subflows only if there is but one.
THEOREM FailureIsAnswered == Spec => []FailureNeedsFewerCopies
<1>1. RInv => FailureNeedsFewerCopies
  BY DEF RInv, Answered, NoSubstitutes, Fewer, FailureNeedsFewerCopies
<1> QED
  BY <1>1, RangesInvariance, PTL

=============================================================================
