---------------------------- MODULE RmptcpProofs ----------------------------
(***************************************************************************)
(* Invariants of Rmptcp, for every set of subflows and connections and all *)
(* settings.  The inductive invariant says of the register, between two    *)
(* calls and between the parts of a call, that it is Sound; one lemma per  *)
(* operator of Rmptcp shows that the operator keeps it so.                 *)
(*                                                                         *)
(* Behind that, what Rmptcp promises beyond a sound register: substitutes  *)
(* serve in the congestion state only (SubstitutesEnd), a segment goes out *)
(* as often as the redundancy asks for (SendsRedundantly), and the failure *)
(* detection implements FailureDetector (ImplementsDetector).              *)
(***************************************************************************)
EXTENDS Rmptcp, FiniteSetTheorems, FunctionTheorems, TLAPS

FlagsListed(r) ==
  r.enabled \cup r.main \cup r.cong \cup r.sub \subseteq r.sk_list

WellFormed(r) ==
  /\ r \in Register
  /\ FlagsListed(r)
  /\ r.num_enabled >= Cardinality(r.enabled)
  /\ r.state # "Cong" => r.cong = {}

Sound(r) ==
  /\ WellFormed(r)
  /\ r.inTime_cnt < NumInTime

IInv ==
  /\ Sound(red_sk_reg)
  /\ net \in [Sock -> Conditions]
  /\ sent \in SUBSET Sock

-----------------------------------------------------------------------------
(* Sets of sockets.                                                        *)

\* A set of sockets has a size, and a smaller set no larger one.
LEMMA SocketSets ==
  ASSUME NEW S \in SUBSET Sock, NEW T \in SUBSET S
  PROVE  /\ IsFiniteSet(S)
         /\ Cardinality(S) \in Nat
         /\ Cardinality(T) \in Nat
         /\ Cardinality(T) <= Cardinality(S)
<1>1. IsFiniteSet(S)
  BY FS_Subset, SockAssumption
<1>2. IsFiniteSet(T) /\ Cardinality(T) <= Cardinality(S)
  BY <1>1, FS_Subset
<1> QED
  BY <1>1, <1>2, FS_CardinalityType

\* An index is a natural number.
LEMMA PositionType ==
  ASSUME NEW s, NEW L \in SUBSET Sock
  PROVE  Position(s, L) \in Nat
BY SocketSets DEF Position

-----------------------------------------------------------------------------
(* Keeping the register.                                                   *)

\* Sockets that leave the list take their flags with them.
LEMMA WithoutSound ==
  ASSUME NEW r, Sound(r), NEW R
  PROVE  Sound(Without(r, R))
<1> DEFINE w == Without(r, R)
<1>1. w \in Register
  BY DEF Sound, WellFormed, Without, Register
<1>2. FlagsListed(w) /\ (w.state # "Cong" => w.cong = {})
  BY DEF Sound, WellFormed, Without, Register, FlagsListed
<1>3. w.num_enabled = r.num_enabled /\ w.inTime_cnt = r.inTime_cnt
      /\ w.enabled \in SUBSET r.enabled /\ r.enabled \in SUBSET Sock
  BY DEF Sound, WellFormed, Without, Register
<1>4. Cardinality(w.enabled) <= Cardinality(r.enabled) /\ Cardinality(w.enabled) \in Nat
      /\ Cardinality(r.enabled) \in Nat
  BY <1>3, SocketSets
<1>5. w.num_enabled >= Cardinality(w.enabled) /\ w.inTime_cnt < NumInTime
  BY <1>3, <1>4 DEF Sound, WellFormed, Register
<1> HIDE DEF w
<1>6. Sound(w)
  BY <1>1, <1>2, <1>5 DEF Sound, WellFormed
<1> QED
  BY <1>6 DEF w

\* What a change of meta socket leaves is sound, whatever is taken over.
LEMMA SwitchMetaSound ==
  ASSUME NEW r, Sound(r), NEW meta_sk \in Meta
  PROVE  Sound(SwitchMeta(r, meta_sk))
<1> DEFINE o == [r EXCEPT !.meta_sk = meta_sk]
           w == Without(o, Sock)
           n == ResetMeta(o)
<1>1. o \in Register /\ o.inTime_cnt < NumInTime
  <2>1. r \in Register /\ r.inTime_cnt < NumInTime
    BY DEF Sound, WellFormed
  <2>2. o \in Register
    BY <2>1 DEF Register
  <2>3. o.inTime_cnt = r.inTime_cnt
    BY <2>1 DEF Register
  <2> QED
    BY <2>1, <2>2, <2>3
<1> HIDE DEF o
<1>2. n \in Register
  BY <1>1 DEF ResetMeta, Without, Register, RedState
<1>3. n.enabled = {} /\ n.main = {} /\ n.cong = {} /\ n.sub = {} /\ n.num_enabled = 0
      /\ n.inTime_cnt < NumInTime
  BY <1>1 DEF ResetMeta, Without, Register
<1>4. Sound(n)
  BY <1>2, <1>3, FS_EmptySet DEF Sound, WellFormed, FlagsListed
<1> QED
  BY <1>4 DEF SwitchMeta, o

\* The enabled sockets are counted when they are flagged.
LEMMA SetEnableFlagSound ==
  ASSUME NEW r, Sound(r), NEW mask
  PROVE  Sound(SetEnableFlag(r, mask))
<1> DEFINE on == {s \in r.sk_list : Position(s, r.sk_list) \in mask}
           n  == SetEnableFlag(r, mask)
<1>1. on \in SUBSET r.sk_list /\ on \in SUBSET Sock
  BY DEF Sound, WellFormed, Register
<1>2. Cardinality(on) \in Nat
  BY <1>1, SocketSets
<1>3. n = [r EXCEPT !.enabled = on, !.main = @ \cap on, !.num_enabled = Cardinality(on)]
  BY DEF SetEnableFlag
<1> HIDE DEF on
<1>4. n \in Register
  BY <1>1, <1>2, <1>3 DEF Sound, WellFormed, Register
<1>5. n.enabled = on /\ n.num_enabled = Cardinality(on) /\ n.inTime_cnt = r.inTime_cnt
  BY <1>3 DEF Sound, WellFormed, Register
<1>6. FlagsListed(n) /\ (n.state # "Cong" => n.cong = {})
  BY <1>1, <1>3 DEF Sound, WellFormed, Register, FlagsListed
<1> QED
  BY <1>2, <1>4, <1>5, <1>6 DEF Sound, WellFormed

\* New sockets join the list before the enabled ones are flagged and counted.
LEMMA UpdateSkListSound ==
  ASSUME NEW r, Sound(r), NEW mask
  PROVE  Sound(UpdateSkList(r, mask))
<1> DEFINE new == {s \in Sock : Available(s)} \ r.sk_list
           n   == InsertSockets(r, new)
<1>1. Sound(n)
  <2>1. n \in Register
    BY DEF Sound, WellFormed, Register, InsertSockets
  <2>2. FlagsListed(n) /\ (n.state # "Cong" => n.cong = {})
    BY DEF Sound, WellFormed, Register, FlagsListed, InsertSockets
  <2>3. n.enabled = r.enabled /\ n.num_enabled = r.num_enabled /\ n.inTime_cnt = r.inTime_cnt
    BY DEF Sound, WellFormed, Register, InsertSockets
  <2> QED
    BY <2>1, <2>2, <2>3 DEF Sound, WellFormed
<1> QED
  BY <1>1, SetEnableFlagSound DEF UpdateSkList

\* Only the main flag changes, and only for listed sockets.
LEMMA MainFlagSound ==
  ASSUME NEW r, Sound(r), NEW M \in SUBSET r.sk_list
  PROVE  Sound([r EXCEPT !.main = M])
<1> DEFINE n == [r EXCEPT !.main = M]
<1>1. n \in Register
  BY DEF Sound, WellFormed, Register
<1>2. FlagsListed(n) /\ n.state = r.state /\ n.cong = r.cong
      /\ n.enabled = r.enabled /\ n.num_enabled = r.num_enabled
      /\ n.inTime_cnt = r.inTime_cnt
  BY DEF Sound, WellFormed, Register, FlagsListed
<1> QED
  BY <1>1, <1>2 DEF Sound, WellFormed

\* Every outcome of the choice of the main sockets is sound.
LEMMA UpdateMainSkSound ==
  ASSUME NEW r, Sound(r), NEW n \in UpdateMainSk(r)
  PROVE  Sound(n)
<1>1. Eligible(r) \in SUBSET r.sk_list /\ r.main \in SUBSET r.sk_list
  BY DEF Sound, WellFormed, FlagsListed, Eligible
<1>2. Sound(SetAllMain(r))
  BY <1>1, MainFlagSound DEF SetAllMain
<1>3. Sound(SetAllUncongMain(r))
  BY <1>1, <1>2, MainFlagSound DEF SetAllUncongMain
<1>4. ASSUME NEW M \in SUBSET (Eligible(r) \ r.cong)
      PROVE  Sound([r EXCEPT !.main = (@ \ Eligible(r)) \cup M])
  <2>1. (r.main \ Eligible(r)) \cup M \in SUBSET r.sk_list
    BY <1>1
  <2> QED
    BY <2>1, MainFlagSound
<1> QED
  BY <1>2, <1>3, <1>4 DEF UpdateMainSk

\* The periodic part of the call leaves a sound register.
LEMMA PeriodicUpdateSound ==
  ASSUME NEW r, Sound(r), NEW n \in PeriodicUpdate(r)
  PROVE  Sound(n)
<1>1. CASE ~r.update_due
  BY <1>1 DEF PeriodicUpdate
<1>2. CASE r.update_due
  <2>1. PICK mask \in Masks :
          n \in UpdateMainSk([UpdateSkList(r, mask) EXCEPT !.update_due = FALSE])
    BY <1>2 DEF PeriodicUpdate
  <2> DEFINE u == UpdateSkList(r, mask)
             v == [u EXCEPT !.update_due = FALSE]
  <2>2. Sound(u)
    BY UpdateSkListSound
  <2> HIDE DEF u
  <2>3. v \in Register /\ FlagsListed(v) /\ v.state = u.state /\ v.cong = u.cong
        /\ v.enabled = u.enabled /\ v.num_enabled = u.num_enabled
        /\ v.inTime_cnt = u.inTime_cnt
    BY <2>2 DEF Sound, WellFormed, Register, FlagsListed
  <2>4. Sound(v)
    BY <2>2, <2>3 DEF Sound, WellFormed
  <2> QED
    BY <2>1, <2>4, UpdateMainSkSound DEF u
<1> QED
  BY <1>1, <1>2

-----------------------------------------------------------------------------
(* Reacting to a failure, and the register before the selection.           *)

\* Substitutes are taken from the list, and given back without a trace.
LEMMA AdaptPathSound ==
  ASSUME NEW r, Sound(r), NEW n \in AdaptPath(r)
  PROVE  Sound(n)
<1>1. ASSUME NEW S \in SUBSET r.sk_list
      PROVE  Sound([r EXCEPT !.sub = S])
  <2> DEFINE m == [r EXCEPT !.sub = S]
  <2>1. m \in Register
    BY <1>1 DEF Sound, WellFormed, Register
  <2>2. FlagsListed(m) /\ m.state = r.state /\ m.cong = r.cong /\ m.enabled = r.enabled
        /\ m.num_enabled = r.num_enabled /\ m.inTime_cnt = r.inTime_cnt
    BY <1>1 DEF Sound, WellFormed, Register, FlagsListed
  <2> QED
    BY <2>1, <2>2 DEF Sound, WellFormed
<1>2. ASSUME NEW f, NEW new
      PROVE  Sound([r EXCEPT !.sub = @ \cup Substitutes(r, f, new)])
  <2>1. r.sub \cup Substitutes(r, f, new) \in SUBSET r.sk_list
    BY DEF Sound, WellFormed, FlagsListed, Substitutes
  <2> QED
    BY <2>1, <1>1
<1>3. Sound([r EXCEPT !.sub = {}])
  BY <1>1
<1>4. \/ \E new : n = [r EXCEPT !.sub = @ \cup Substitutes(r, CongestedSocket(r), new)]
      \/ n = [r EXCEPT !.sub = {}]
      \/ n = r
  BY Zenon DEF AdaptPath
<1> QED
  BY <1>2, <1>3, <1>4

\* The part of a call without path check leaves a sound register.
LEMMA ScheduleSound ==
  ASSUME NEW r, Sound(r), NEW n \in Schedule(r)
  PROVE  Sound(n)
<1>1. PICK q, r1, r2, r3 :
        /\ q \in Redundancy
        /\ r1 \in PeriodicUpdate(r)
        /\ r2 \in Reroute(r1)
        /\ r3 \in Rebalance(r2)
        /\ n = Settle(r3, q)
  BY DEF Schedule
<1>2. Sound(r3)
  <2>1. Sound(r1)
    BY <1>1, PeriodicUpdateSound
  <2>2. Sound(r2)
    BY <1>1, <2>1, AdaptPathSound DEF Reroute
  <2> QED
    BY <1>1, <2>2, UpdateMainSkSound DEF Rebalance
<1>3. n \in Register /\ FlagsListed(n) /\ n.state = r3.state /\ n.cong = r3.cong
      /\ n.enabled = r3.enabled /\ n.num_enabled = r3.num_enabled
      /\ n.inTime_cnt = r3.inTime_cnt
  BY <1>1, <1>2, TuningAssumption DEF Settle, Sound, WellFormed, Register, FlagsListed
<1> QED
  BY <1>2, <1>3 DEF Sound, WellFormed

\* So does the part with a path check, whatever combination it tests.
LEMMA CheckPathsSound ==
  ASSUME NEW r, Sound(r), NEW n \in CheckPaths(r)
  PROVE  Sound(n)
<1>1. PICK r1 \in PathTests(r), q \in Redundancy, stamped \in BOOLEAN :
        n = Measured(r1, q, stamped)
  BY DEF CheckPaths
<1>2. ASSUME NEW mask \in Masks
      PROVE  Sound(SetAllMain(SetEnableFlag(r, mask)))
  <2> DEFINE e == SetEnableFlag(r, mask)
  <2>1. Sound(e)
    BY SetEnableFlagSound
  <2> HIDE DEF e
  <2>2. Eligible(e) \in SUBSET e.sk_list
    BY <2>1 DEF Sound, WellFormed, FlagsListed, Eligible
  <2>3. Sound(SetAllMain(e))
    BY <2>1, <2>2, MainFlagSound DEF SetAllMain
  <2> QED
    BY <2>3 DEF e
<1>3. Sound(r1)
  BY <1>2 DEF PathTests
<1>4. (r1.update_due /\ ~stamped) \in BOOLEAN
  OBVIOUS
<1>5. n \in Register /\ FlagsListed(n) /\ n.state = r1.state /\ n.cong = r1.cong
      /\ n.enabled = r1.enabled /\ n.num_enabled = r1.num_enabled
      /\ n.inTime_cnt = r1.inTime_cnt
  BY <1>1, <1>3, <1>4, TuningAssumption DEF Measured, Sound, WellFormed, Register, FlagsListed
<1> QED
  BY <1>3, <1>5 DEF Sound, WellFormed

\* The part of a call before the selection.
LEMMA PreparedSound ==
  ASSUME Sound(red_sk_reg), NEW meta_sk \in Meta, NEW n \in Prepared(meta_sk)
  PROVE  Sound(n)
<1> DEFINE r == SwitchMeta(red_sk_reg, meta_sk)
<1>1. Sound(r)
  BY SwitchMetaSound
<1>2. n \in CheckPaths(r) \/ n \in Schedule(r)
  BY DEF Prepared
<1> QED
  BY <1>1, <1>2, CheckPathsSound, ScheduleSound

-----------------------------------------------------------------------------
(* Selecting subflows and watching for failures.                           *)

\* The sockets selected are listed; the register is otherwise as before.
LEMMA SelectionSound ==
  ASSUME NEW r, Sound(r), NEW out, NEW choice \in CheckAvailSk(r, out)
  PROVE  Sound(choice.reg) /\ choice.use \in SUBSET r.sk_list
<1> DEFINE c     == ClampControl(r)
           avail == Usable(c, out)
<1>1. Sound(c) /\ c.sk_list = r.sk_list
  <2>1. Smaller(r.q_control, r.num_enabled) \in Nat
    BY DEF Smaller, Sound, WellFormed, Register
  <2>2. c \in Register /\ FlagsListed(c) /\ c.state = r.state /\ c.cong = r.cong
        /\ c.enabled = r.enabled /\ c.num_enabled = r.num_enabled
        /\ c.inTime_cnt = r.inTime_cnt /\ c.sk_list = r.sk_list
    BY <2>1 DEF ClampControl, Sound, WellFormed, Register, FlagsListed
  <2> QED
    BY <2>2 DEF Sound, WellFormed
<1> HIDE DEF c
<1>2. avail \in SUBSET r.sk_list
  BY <1>1 DEF Usable, Eligible, Sound, WellFormed, FlagsListed
<1>3. ASSUME NEW t \in {"unset", "running", "over"}, NEW b \in BOOLEAN
      PROVE  /\ Sound([c EXCEPT !.timeout_start = t])
             /\ Sound([c EXCEPT !.timeout = b, !.timeout_start = t])
  <2> DEFINE d == [c EXCEPT !.timeout_start = t]
             e == [c EXCEPT !.timeout = b, !.timeout_start = t]
  <2>1. d \in Register /\ FlagsListed(d) /\ d.state = c.state /\ d.cong = c.cong
        /\ d.enabled = c.enabled /\ d.num_enabled = c.num_enabled
        /\ d.inTime_cnt = c.inTime_cnt
    BY <1>1 DEF Sound, WellFormed, Register, FlagsListed
  <2>2. e \in Register /\ FlagsListed(e) /\ e.state = c.state /\ e.cong = c.cong
        /\ e.enabled = c.enabled /\ e.num_enabled = c.num_enabled
        /\ e.inTime_cnt = c.inTime_cnt
    BY <1>1 DEF Sound, WellFormed, Register, FlagsListed
  <2> QED
    BY <1>1, <2>1, <2>2 DEF Sound, WellFormed
<1>4. c.timeout_start \in {"unset", "running", "over"}
  BY <1>1 DEF Sound, WellFormed, Register
<1>5. \A use \in Chosen(c, avail) : use \in SUBSET avail
  BY DEF Chosen, Kicked
<1>6. \/ \E use \in Chosen(c, avail) :
            choice = [use |-> use, reg |-> [c EXCEPT !.timeout_start = "unset"]]
      \/ choice = [use |-> avail, reg |-> [c EXCEPT !.timeout_start = "unset"]]
      \/ choice = [use |-> avail,
                   reg |-> [c EXCEPT !.timeout = TRUE,
                                     !.timeout_start = IF avail = {} THEN @ ELSE "unset"]]
      \/ choice = [use |-> {},
                   reg |-> [c EXCEPT !.timeout_start = IF @ = "unset" THEN "running" ELSE @]]
  BY Zenon DEF CheckAvailSk, c
<1>7. /\ (IF avail = {} THEN c.timeout_start ELSE "unset") \in {"unset", "running", "over"}
      /\ (IF c.timeout_start = "unset" THEN "running" ELSE c.timeout_start)
           \in {"unset", "running", "over"}
  BY <1>4
<1>8. /\ Sound([c EXCEPT !.timeout_start = "unset"])
      /\ Sound([c EXCEPT !.timeout = TRUE,
                         !.timeout_start = IF avail = {} THEN @ ELSE "unset"])
      /\ Sound([c EXCEPT !.timeout_start = IF @ = "unset" THEN "running" ELSE @])
  BY <1>3, <1>7
<1> HIDE DEF avail
<1> QED
  BY <1>2, <1>5, <1>6, <1>8

\* The count may stand at its limit while the call goes on, in the state that
\* judges it.
Judging(r) ==
  /\ WellFormed(r)
  /\ r.inTime_cnt < NumInTime \/ (r.state = "Timeout" /\ ~r.timeout)

\* Counting a segment may bring the count to its limit, but only in a call
\* that goes on to judge it.
LEMMA CalcSendPeriodSound ==
  ASSUME NEW r, Sound(r)
  PROVE  Judging(CalcSendPeriod(r)) /\ CalcSendPeriod(r).sk_list = r.sk_list
<1> DEFINE cnt == IF r.state = "Timeout" /\ ~r.timeout THEN r.inTime_cnt + 1 ELSE r.inTime_cnt
           n   == [r EXCEPT !.timeout_start = "unset", !.inTime_cnt = cnt]
<1>0. CalcSendPeriod(r) = n /\ cnt \in Nat
  BY DEF CalcSendPeriod, Sound, WellFormed, Register
<1>3. cnt < NumInTime \/ (r.state = "Timeout" /\ ~r.timeout)
  BY DEF Sound
<1> HIDE DEF cnt
<1>1. n \in Register /\ FlagsListed(n) /\ n.state = r.state /\ n.cong = r.cong
      /\ n.enabled = r.enabled /\ n.num_enabled = r.num_enabled
      /\ n.timeout = r.timeout /\ n.sk_list = r.sk_list
      /\ n.inTime_cnt = cnt
  BY <1>0 DEF Sound, WellFormed, Register, FlagsListed
<1>2. WellFormed(r)
  BY DEF Sound
<1> HIDE DEF n
<1>4. Judging(n) /\ n.sk_list = r.sk_list
  BY <1>1, <1>2, <1>3 DEF Judging, WellFormed
<1> QED
  BY <1>0, <1>4

\* Substitutes that are flagged or recover are listed.
LEMMA JudgeSubstitutesSound ==
  ASSUME NEW r, Judging(r), NEW n \in JudgeSubstitutes(r)
  PROVE  Judging(n) /\ n.sk_list = r.sk_list
<1>1. CASE r.state # "Cong"
  BY <1>1 DEF JudgeSubstitutes
<1>2. CASE r.state = "Cong"
  <2>1. PICK C \in SUBSET r.sk_list : n = [r EXCEPT !.cong = C]
    BY <1>2 DEF JudgeSubstitutes, Judging, WellFormed, FlagsListed
  <2>2. n \in Register /\ FlagsListed(n) /\ n.state = r.state
        /\ n.enabled = r.enabled /\ n.num_enabled = r.num_enabled
        /\ n.inTime_cnt = r.inTime_cnt /\ n.timeout = r.timeout /\ n.sk_list = r.sk_list
    BY <2>1 DEF Judging, WellFormed, Register, FlagsListed
  <2> QED
    BY <1>2, <2>2 DEF Judging, WellFormed
<1> QED
  BY <1>1, <1>2

\* Naming culprits among the listed sockets keeps the register well formed.
LEMMA EnterCongSound ==
  ASSUME NEW r, WellFormed(r), NEW blamed \in SUBSET r.sk_list
  PROVE  /\ WellFormed(EnterCong(r, blamed))
         /\ EnterCong(r, blamed).state = "Cong"
         /\ EnterCong(r, blamed).sk_list = r.sk_list
         /\ EnterCong(r, blamed).inTime_cnt = r.inTime_cnt
<1> DEFINE n == EnterCong(r, blamed)
<1>1. n \in Register /\ FlagsListed(n) /\ n.state = "Cong"
      /\ n.enabled = r.enabled /\ n.num_enabled = r.num_enabled
      /\ n.inTime_cnt = r.inTime_cnt /\ n.sk_list = r.sk_list
  BY DEF EnterCong, WellFormed, Register, RedState, FlagsListed
<1> HIDE DEF n
<1>2. WellFormed(n)
  BY <1>1 DEF WellFormed
<1> QED
  BY <1>1, <1>2 DEF n

\* A second timeout blames a listed socket or nobody.
LEMMA TimeoutToCongSound ==
  ASSUME NEW r, WellFormed(r), r.inTime_cnt < NumInTime,
         NEW use, NEW n \in TimeoutToCong(r, use)
  PROVE  Sound(n) /\ n.sk_list = r.sk_list
<1>1. \A s \in r.enabled \ use : {s} \in SUBSET r.sk_list
  BY DEF WellFormed, FlagsListed
<1>2. SocketAt(0, r.sk_list) \in SUBSET r.sk_list
  BY DEF SocketAt
<1>3. PICK blamed \in SUBSET r.sk_list : n = EnterCong(r, blamed)
  BY <1>1, <1>2 DEF TimeoutToCong
<1> QED
  BY <1>3, EnterCongSound DEF Sound

\* So does a collapse of the utilization, with or without an event.
LEMMA CollapseSound ==
  ASSUME NEW r, WellFormed(r), r.inTime_cnt < NumInTime,
         NEW n \in Collapse(r) \cup SilentCollapse(r)
  PROVE  Sound(n) /\ n.sk_list = r.sk_list
<1>1. \A i : SocketAt(i, r.sk_list) \in SUBSET r.sk_list
  BY DEF SocketAt
<1>2. EventIndex(r) \in Nat
  <2>1. r.sk_list \in SUBSET Sock
    BY DEF WellFormed, Register
  <2> QED
    BY <2>1, PositionType DEF EventIndex
<1>3. Sound(EventToCong(r)) /\ EventToCong(r).sk_list = r.sk_list
  <2> DEFINE e == EnterCong(r, SocketAt(EventIndex(r), r.sk_list))
             m == [e EXCEPT !.previous_skevent_i = EventIndex(r)]
  <2>1. WellFormed(e) /\ e.state = "Cong" /\ e.inTime_cnt < NumInTime /\ e.sk_list = r.sk_list
    BY <1>1, EnterCongSound
  <2> HIDE DEF e
  <2>2. m \in Register /\ FlagsListed(m) /\ m.state = "Cong" /\ m.enabled = e.enabled
        /\ m.num_enabled = e.num_enabled /\ m.inTime_cnt = e.inTime_cnt
        /\ m.sk_list = e.sk_list
    BY <1>2, <2>1 DEF WellFormed, Register, FlagsListed
  <2> HIDE DEF m
  <2>3. Sound(m) /\ m.sk_list = r.sk_list
    BY <2>1, <2>2 DEF Sound, WellFormed
  <2> QED
    BY <2>3 DEF EventToCong, m, e
<1>4. Sound(EnterCong(r, SocketAt(r.previous_skevent_i, r.sk_list)))
      /\ EnterCong(r, SocketAt(r.previous_skevent_i, r.sk_list)).sk_list = r.sk_list
  BY <1>1, EnterCongSound DEF Sound
<1>5. n = EventToCong(r) \/ n = EnterCong(r, SocketAt(r.previous_skevent_i, r.sk_list))
  BY DEF Collapse, SilentCollapse
<1> QED
  BY <1>3, <1>4, <1>5

\* A step of the state machine brings the count back below its limit.
LEMMA StateMachineSound ==
  ASSUME NEW r, Judging(r), NEW use, NEW n \in StateMachine(r, use)
  PROVE  Sound(n) /\ n.sk_list = r.sk_list
<1>1. WellFormed(r) /\ r.state \in RedState
  BY DEF Judging, WellFormed, Register
<1>2. ASSUME NEW state \in {"Timeout", "Recovery"}, r.inTime_cnt < NumInTime, r.state # "Cong"
      PROVE  /\ Sound([r EXCEPT !.state = state, !.held = FALSE])
             /\ [r EXCEPT !.state = state, !.held = FALSE].sk_list = r.sk_list
  <2> DEFINE m == [r EXCEPT !.state = state, !.held = FALSE]
  <2>1. m \in Register /\ FlagsListed(m) /\ m.cong = r.cong /\ m.enabled = r.enabled
        /\ m.num_enabled = r.num_enabled /\ m.inTime_cnt = r.inTime_cnt
        /\ m.sk_list = r.sk_list
    BY <1>1 DEF WellFormed, Register, RedState, FlagsListed
  <2> QED
    BY <1>1, <1>2, <2>1 DEF Sound, WellFormed
<1>3. ASSUME r.inTime_cnt < NumInTime, NEW m \in FirstTimeout(r, use), r.state # "Cong"
      PROVE  Sound(m) /\ m.sk_list = r.sk_list
  BY <1>1, <1>2, <1>3, TimeoutToCongSound DEF FirstTimeout
<1>4. r.inTime_cnt < NumInTime => Sound(r)
  BY <1>1 DEF Sound
<1>5. CASE r.state = "Open"
  <2>1. r.inTime_cnt < NumInTime
    BY <1>5 DEF Judging
  <2>2. n \in FirstTimeout(r, use) \/ n = r \/ n \in Collapse(r)
    BY <1>5 DEF StateMachine
  <2> QED
    BY <1>1, <1>3, <1>4, <1>5, <2>1, <2>2, CollapseSound
<1>6. CASE r.state = "Recovery"
  <2>1. r.inTime_cnt < NumInTime
    BY <1>6 DEF Judging
  <2>2. \/ n \in FirstTimeout(r, use)
        \/ n = LeaveRecovery(r)
        \/ n \in Collapse(r) \cup SilentCollapse(r)
    BY <1>6 DEF StateMachine
  <2>3. Sound(LeaveRecovery(r)) /\ LeaveRecovery(r).sk_list = r.sk_list
    <3> DEFINE h == [r EXCEPT !.held = FALSE]
               o == [r EXCEPT !.state = "Open", !.held = FALSE, !.cong_flag = TRUE, !.cong = {}]
    <3>1. h \in Register /\ FlagsListed(h) /\ h.state = r.state /\ h.cong = r.cong
          /\ h.enabled = r.enabled /\ h.num_enabled = r.num_enabled
          /\ h.inTime_cnt = r.inTime_cnt /\ h.sk_list = r.sk_list
      BY <1>1 DEF WellFormed, Register, FlagsListed
    <3>2. o \in Register /\ FlagsListed(o) /\ o.cong = {} /\ o.enabled = r.enabled
          /\ o.num_enabled = r.num_enabled /\ o.inTime_cnt = r.inTime_cnt
          /\ o.sk_list = r.sk_list
      BY <1>1 DEF WellFormed, Register, RedState, FlagsListed
    <3>3. Sound(h) /\ Sound(o)
      BY <1>1, <2>1, <3>1, <3>2 DEF Sound, WellFormed
    <3>4. LeaveRecovery(r) \in {h, o, r}
      BY Zenon DEF LeaveRecovery
    <3> HIDE DEF h, o
    <3> QED
      BY <1>4, <2>1, <3>1, <3>2, <3>3, <3>4
  <2> QED
    BY <1>1, <1>3, <1>6, <2>1, <2>2, <2>3, CollapseSound
<1>7. CASE r.state = "Timeout"
  <2>1. CASE r.timeout
    <3>1. n \in TimeoutToCong(r, use)
      BY <1>7, <2>1 DEF StateMachine
    <3>2. r.inTime_cnt < NumInTime
      BY <2>1 DEF Judging
    <3> QED
      BY <1>1, <3>1, <3>2, TimeoutToCongSound
  <2>2. CASE ~r.timeout /\ EnoughInTime(r)
    <3> DEFINE z == [r EXCEPT !.inTime_cnt = 0]
               m == [z EXCEPT !.state = "Recovery", !.held = FALSE]
    <3>1. n = m
      BY <1>7, <2>2 DEF StateMachine, EnterRecovery
    <3>2. m \in Register /\ FlagsListed(m) /\ m.cong = r.cong /\ m.enabled = r.enabled
          /\ m.num_enabled = r.num_enabled /\ m.inTime_cnt = 0 /\ m.sk_list = r.sk_list
      BY <1>1 DEF WellFormed, Register, RedState, FlagsListed
    <3> QED
      BY <1>1, <1>7, <3>1, <3>2, TuningAssumption DEF Sound, WellFormed
  <2>3. CASE ~r.timeout /\ ~EnoughInTime(r)
    <3>1. r.inTime_cnt < NumInTime
      BY <1>1, <2>3, TuningAssumption DEF EnoughInTime, WellFormed, Register
    <3>2. n = r \/ n \in Collapse(r)
      BY <1>7, <2>3 DEF StateMachine
    <3> QED
      BY <1>1, <1>4, <3>1, <3>2, CollapseSound
  <2> QED
    BY <2>1, <2>2, <2>3
<1>8. CASE r.state = "Cong"
  <2>1. r.inTime_cnt < NumInTime
    BY <1>8 DEF Judging
  <2>2. n = LeaveCong(r)
    BY <1>8 DEF StateMachine
  <2> DEFINE e == [r EXCEPT !.state = "Recovery", !.held = FALSE]
             m == [e EXCEPT !.cong_flag = TRUE, !.cong = {}]
  <2>3. n = r \/ n = m
    BY <2>2 DEF LeaveCong, EnterRecovery
  <2>4. m \in Register /\ FlagsListed(m) /\ m.cong = {} /\ m.enabled = r.enabled
        /\ m.num_enabled = r.num_enabled /\ m.inTime_cnt = r.inTime_cnt
        /\ m.sk_list = r.sk_list
    BY <1>1 DEF WellFormed, Register, RedState, FlagsListed
  <2>5. Sound(m)
    BY <1>1, <2>1, <2>4 DEF Sound, WellFormed
  <2> HIDE DEF m
  <2> QED
    BY <1>4, <2>1, <2>3, <2>4, <2>5
<1> QED
  BY <1>1, <1>5, <1>6, <1>7, <1>8 DEF RedState

-----------------------------------------------------------------------------
(* The invariant.                                                          *)

\* The register starts empty and sound.
LEMMA InitSound == Init => IInv
<1> SUFFICES ASSUME Init PROVE IInv
  OBVIOUS
<1>1. red_sk_reg \in Register
  BY DEF Init, Register, RedState
<1>2. red_sk_reg.enabled = {} /\ red_sk_reg.num_enabled = 0
      /\ red_sk_reg.inTime_cnt = 0 /\ red_sk_reg.cong = {} /\ FlagsListed(red_sk_reg)
  BY DEF Init, FlagsListed
<1>3. net \in [Sock -> Conditions] /\ sent \in SUBSET Sock
  BY DEF Init
<1> QED
  BY <1>1, <1>2, <1>3, FS_EmptySet, TuningAssumption DEF IInv, Sound, WellFormed

\* A whole call keeps the register sound and sends on subflows it lists.
LEMMA SendNextSegmentSound ==
  ASSUME IInv, NEW meta_sk \in Meta, SendNextSegment(meta_sk)
  PROVE  IInv'
<1>1. PICK r \in Prepared(meta_sk) : \E out \in SUBSET (r.cong \cap r.sub) :
        \E choice \in CheckAvailSk(DropUnseen(r), out) :
           \/ choice.use = {} /\ NoSend(choice.reg)
           \/ choice.use # {} /\ Send(choice.reg, choice.use)
  BY DEF SendNextSegment
<1> DEFINE d == DropUnseen(r)
<1>2. Sound(d)
  BY PreparedSound, WithoutSound DEF IInv, DropUnseen
<1>3. PICK out : \E choice \in CheckAvailSk(d, out) :
        \/ choice.use = {} /\ NoSend(choice.reg)
        \/ choice.use # {} /\ Send(choice.reg, choice.use)
  BY <1>1
<1>4. PICK choice \in CheckAvailSk(d, out) :
        \/ choice.use = {} /\ NoSend(choice.reg)
        \/ choice.use # {} /\ Send(choice.reg, choice.use)
  BY <1>3
<1> HIDE DEF d
<1>5. Sound(choice.reg) /\ choice.use \in SUBSET Sock
  <2>1. d.sk_list \in SUBSET Sock
    BY <1>2 DEF Sound, WellFormed, Register
  <2> QED
    BY <1>2, <1>4, <2>1, SelectionSound
<1>6. net' \in [Sock -> Conditions]
  BY DEF IInv, SendNextSegment
<1>7. CASE choice.use = {} /\ NoSend(choice.reg)
  BY <1>5, <1>6, <1>7 DEF NoSend, IInv
<1>8. CASE choice.use # {} /\ Send(choice.reg, choice.use)
  <2> DEFINE p == CalcSendPeriod(choice.reg)
  <2>1. PICK n \in CheckFailure(p, choice.use), skb \in SendSkb(choice.use) :
          /\ red_sk_reg' = [n EXCEPT !.timeout = FALSE, !.unseen = @ \ skb.stamped]
          /\ sent' = skb.put
    BY <1>8 DEF Send
  <2>2. Judging(p)
    BY <1>5, CalcSendPeriodSound
  <2> HIDE DEF p
  <2>3. Sound(n)
    BY <2>1, <2>2, JudgeSubstitutesSound, StateMachineSound DEF CheckFailure
  <2>4. sent' \in SUBSET Sock
    BY <1>5, <2>1 DEF SendSkb
  <2>5. red_sk_reg' \in Register /\ FlagsListed(red_sk_reg')
        /\ red_sk_reg'.state = n.state /\ red_sk_reg'.cong = n.cong
        /\ red_sk_reg'.enabled = n.enabled /\ red_sk_reg'.num_enabled = n.num_enabled
        /\ red_sk_reg'.inTime_cnt = n.inTime_cnt
    BY <2>1, <2>3 DEF Sound, WellFormed, Register, FlagsListed
  <2>6. Sound(red_sk_reg')
    BY <2>3, <2>5 DEF Sound, WellFormed
  <2> QED
    BY <1>6, <2>4, <2>6 DEF IInv, Sound, WellFormed, FlagsListed, Register
<1> QED
  BY <1>4, <1>7, <1>8

\* Every step, of a call or of the environment, keeps the invariant.
LEMMA StepSound == IInv /\ [Next]_vars => IInv'
<1> SUFFICES ASSUME IInv, [Next]_vars PROVE IInv'
  OBVIOUS
<1>1. ASSUME NEW meta_sk \in Meta, SendNextSegment(meta_sk) PROVE IInv'
  BY <1>1, SendNextSegmentSound
<1>2. ASSUME NEW s \in Sock, NEW condition \in Conditions, NetChange(s, condition) PROVE IInv'
  <2>1. net' \in [Sock -> Conditions]
    BY <1>2 DEF NetChange, IInv
  <2>2. red_sk_reg' = red_sk_reg /\ sent' = sent
    BY <1>2 DEF NetChange
  <2> QED
    BY <2>1, <2>2 DEF IInv, Sound, WellFormed, FlagsListed, Register
<1>3. CASE TimeoutRunsOut \/ HoldRunsOut \/ UpdateComesDue \/ (\E s \in Sock : Unseen(s))
  <2> DEFINE r == red_sk_reg
  <2>1. net' = net /\ sent' = sent
    BY <1>3 DEF TimeoutRunsOut, HoldRunsOut, UpdateComesDue, Unseen
  <2>2. \/ r' = [r EXCEPT !.timeout_start = "over"]
        \/ r' = [r EXCEPT !.held = TRUE]
        \/ r' = [r EXCEPT !.update_due = TRUE]
        \/ \E s \in Sock : r' = [r EXCEPT !.unseen = @ \cup {s}]
    BY <1>3 DEF TimeoutRunsOut, HoldRunsOut, UpdateComesDue, Unseen
  <2>3. r' \in Register
    <3>1. r \in Register
      BY DEF IInv, Sound, WellFormed
    <3>2. [r EXCEPT !.timeout_start = "over"] \in Register
      BY <3>1 DEF Register
    <3>3. [r EXCEPT !.held = TRUE] \in Register
      BY <3>1 DEF Register
    <3>4. [r EXCEPT !.update_due = TRUE] \in Register
      BY <3>1 DEF Register
    <3>5. \A s \in Sock : [r EXCEPT !.unseen = @ \cup {s}] \in Register
      BY <3>1 DEF Register
    <3> QED
      BY <2>2, <3>2, <3>3, <3>4, <3>5
  <2>4. /\ r'.state = r.state /\ r'.cong = r.cong /\ r'.sub = r.sub /\ r'.main = r.main
        /\ r'.enabled = r.enabled /\ r'.num_enabled = r.num_enabled
        /\ r'.sk_list = r.sk_list /\ r'.inTime_cnt = r.inTime_cnt
    BY <2>2 DEF IInv, Sound, WellFormed, Register
  <2>5. WellFormed(r)' /\ (r.inTime_cnt < NumInTime)'
    BY <2>3, <2>4 DEF IInv, Sound, WellFormed, FlagsListed, Register
  <2> QED
    BY <2>1, <2>5 DEF IInv, Sound
<1>4. CASE UNCHANGED vars
  BY <1>4 DEF vars, IInv, Sound, WellFormed, FlagsListed, Register
<1> QED
  BY <1>1, <1>2, <1>3, <1>4 DEF Next

\* The inductive invariant: the register is sound between calls, and the rest
\* has its type.
THEOREM Invariance == Spec => []IInv
<1>1. Init => IInv
  BY InitSound
<1>2. IInv /\ [Next]_vars => IInv'
  BY StepSound
<1> QED
  BY <1>1, <1>2, PTL DEF Spec

\* The register, the network and the sockets sent on keep their types.
THEOREM TypeCorrect == Spec => []TypeOK
<1>1. IInv => TypeOK
  BY DEF IInv, Sound, WellFormed, TypeOK
<1> QED
  BY <1>1, Invariance, PTL

\* Every flag belongs to a listed socket, and clamping to num_enabled asks for
\* no less than the enabled subflows can give, whatever leaves the list.
THEOREM RegisterStaysConsistent == Spec => []RegisterConsistent
<1>1. IInv => RegisterConsistent
  BY DEF IInv, Sound, WellFormed, FlagsListed, RegisterConsistent
<1> QED
  BY <1>1, Invariance, PTL

\* The Timeout state is always left by the call whose segment completes the
\* count.
THEOREM CountStaysBelowLimit == Spec => []InTimeBelowLimit
<1>1. IInv => InTimeBelowLimit
  BY DEF IInv, Sound, InTimeBelowLimit
<1> QED
  BY <1>1, Invariance, PTL

\* No flag outlives the congestion state.
THEOREM NoStaleCongestion == Spec => []CongestedOnlyInCong
<1>1. IInv => CongestedOnlyInCong
  BY DEF IInv, Sound, WellFormed, CongestedOnlyInCong
<1> QED
  BY <1>1, Invariance, PTL

-----------------------------------------------------------------------------
(* The list: every index below its size is that of one socket.             *)

\* The order by addresses is a strict total order.
LEMMA PrecedesOrder ==
  /\ \A s \in Sock : ~Precedes(s, s)
  /\ \A s, t \in Sock : s # t => Precedes(s, t) \/ Precedes(t, s)
  /\ \A s, t, u \in Sock : Precedes(s, t) /\ Precedes(t, u) => Precedes(s, u)
<1>1. \A s \in Sock : Saddr[s] \in Nat /\ Daddr[s] \in Nat
  BY SockAssumption
<1> QED
  BY <1>1, SockAssumption DEF Precedes

\* Earlier sockets have smaller indices.
LEMMA PositionMonotone ==
  ASSUME NEW L \in SUBSET Sock, NEW s \in L, NEW t \in L, Precedes(s, t)
  PROVE  Position(s, L) < Position(t, L)
<1> DEFINE S == {u \in L : Precedes(u, s)}
           T == {u \in L : Precedes(u, t)}
<1>1. S \in SUBSET T /\ s \in T /\ s \notin S
  BY PrecedesOrder
<1>2. T \in SUBSET Sock /\ IsFiniteSet(T)
  BY SockAssumption, FS_Subset
<1>3. Cardinality(S) <= Cardinality(T) /\ Cardinality(S) # Cardinality(T)
  BY <1>1, <1>2, FS_Subset
<1>4. Cardinality(S) \in Nat /\ Cardinality(T) \in Nat
  BY <1>1, <1>2, SocketSets
<1> QED
  BY <1>3, <1>4 DEF Position

\* A socket of the list is the only one at its index, which is below the size.
LEMMA SocketAtPosition ==
  ASSUME NEW L \in SUBSET Sock, NEW s \in L
  PROVE  /\ Position(s, L) \in 0..Cardinality(L) - 1
         /\ SocketAt(Position(s, L), L) = {s}
<1> DEFINE S == {u \in L : Precedes(u, s)}
<1>1. S \in SUBSET L /\ s \notin S /\ S # L
  BY PrecedesOrder
<1>2. IsFiniteSet(L) /\ Cardinality(L) \in Nat /\ Cardinality(S) \in Nat
      /\ Cardinality(S) <= Cardinality(L)
  BY <1>1, SocketSets
<1>3. Cardinality(S) # Cardinality(L)
  BY <1>1, <1>2, FS_Subset
<1>4. Position(s, L) \in 0..Cardinality(L) - 1
  BY <1>2, <1>3 DEF Position
<1>5. ASSUME NEW t \in L, Position(t, L) = Position(s, L)
      PROVE  t = s
  <2>1. Position(t, L) \in Nat
    BY PositionType
  <2>2. ~Precedes(s, t) /\ ~Precedes(t, s)
    BY <1>5, <2>1, PositionMonotone
  <2> QED
    BY <2>2, PrecedesOrder
<1> QED
  BY <1>4, <1>5 DEF SocketAt

\* No index below the size of the list is free.
LEMMA IndexTaken ==
  ASSUME NEW L \in SUBSET Sock, NEW i \in 0..Cardinality(L) - 1
  PROVE  \E s \in L : SocketAt(i, L) = {s}
<1> DEFINE n == Cardinality(L)
           f == [s \in L |-> Position(s, L)]
<1>1. IsFiniteSet(L) /\ n \in Nat
  BY SocketSets
<1>2. f \in [L -> 0..n - 1]
  BY SocketAtPosition
<1>3. ASSUME NEW s \in L, NEW t \in L, f[s] = f[t]
      PROVE  s = t
  <2>1. SocketAt(Position(s, L), L) = {s} /\ SocketAt(Position(t, L), L) = {t}
    BY SocketAtPosition
  <2> QED
    BY <1>3, <2>1
<1>4. f \in Injection(L, 0..n - 1)
  BY <1>2, <1>3, Fun_IsInj
<1>5. IsFiniteSet(0..n - 1) /\ Cardinality(0..n - 1) = n
  BY <1>1, FS_Interval
<1> HIDE DEF f
<1>6. f \in Surjection(L, 0..n - 1)
  BY <1>1, <1>4, <1>5, FS_Injection
<1> DEFINE T == 0..n - 1
<1>7. i \in T
  OBVIOUS
<1> HIDE DEF T
<1>8. PICK s \in L : f[s] = i
  <2>1. f \in Surjection(L, T)
    BY <1>6 DEF T
  <2> QED
    BY <1>7, <2>1, Zenon DEF Surjection
<1>9. Position(s, L) = i
  BY <1>8 DEF f
<1> QED
  BY <1>9, SocketAtPosition

\* Of any sockets one comes first in the list: the one at index 0 among them.
LEMMA FirstExists ==
  ASSUME NEW S \in SUBSET Sock, S # {}
  PROVE  {s \in S : \A t \in S \ {s} : Precedes(s, t)} # {}
<1>1. Cardinality(S) \in Nat /\ Cardinality(S) # 0
  BY SocketSets, FS_EmptySet
<1>2. 0 \in 0..Cardinality(S) - 1
  BY <1>1
<1>3. PICK s \in S : SocketAt(0, S) = {s}
  BY <1>2, IndexTaken
<1>4. Cardinality({t \in S : Precedes(t, s)}) = 0
  BY <1>3 DEF SocketAt, Position
<1>5. {t \in S : Precedes(t, s)} = {}
  <2>1. IsFiniteSet({t \in S : Precedes(t, s)})
    BY SocketSets
  <2> QED
    BY <1>4, <2>1, FS_EmptySet
<1>6. \A t \in S \ {s} : Precedes(s, t)
  BY <1>5, PrecedesOrder
<1> QED
  BY <1>6

-----------------------------------------------------------------------------
(* Before the selection: what a call leaves alone.                         *)

\* The failure state and the list entries survive the step from r to n.
SameFailure(n, r) ==
  /\ n.meta_sk = r.meta_sk
  /\ n.state = r.state
  /\ n.cong_flag = r.cong_flag
  /\ n.cong = r.cong
  /\ n.sub = r.sub
  /\ n.unseen = r.unseen
  /\ n.previous_skevent_i = r.previous_skevent_i
  /\ n.timeout_start = r.timeout_start
  /\ r.sk_list \subseteq n.sk_list

\* Enabling sockets is no matter of failures.
LEMMA SetEnableFlagFrame ==
  ASSUME NEW r, Sound(r), NEW mask
  PROVE  SameFailure(SetEnableFlag(r, mask), r)
BY DEF SetEnableFlag, SameFailure, Sound, WellFormed, Register

\* Nor is the arrival of subflows.
LEMMA UpdateSkListFrame ==
  ASSUME NEW r, Sound(r), NEW mask
  PROVE  SameFailure(UpdateSkList(r, mask), r)
<1> DEFINE new == {s \in Sock : Available(s)} \ r.sk_list
           n   == InsertSockets(r, new)
<1>1. SameFailure(n, r)
  BY DEF InsertSockets, SameFailure, Sound, WellFormed, Register
<1>2. Sound(n)
  <2>1. n \in Register
    BY DEF Sound, WellFormed, Register, InsertSockets
  <2>2. FlagsListed(n) /\ (n.state # "Cong" => n.cong = {})
    BY DEF Sound, WellFormed, Register, FlagsListed, InsertSockets
  <2>3. n.enabled = r.enabled /\ n.num_enabled = r.num_enabled /\ n.inTime_cnt = r.inTime_cnt
    BY DEF Sound, WellFormed, Register, InsertSockets
  <2> QED
    BY <2>1, <2>2, <2>3 DEF Sound, WellFormed
<1> HIDE DEF n
<1>3. SameFailure(SetEnableFlag(n, mask), n)
  BY <1>2, SetEnableFlagFrame
<1>4. UpdateSkList(r, mask) = r \/ UpdateSkList(r, mask) = SetEnableFlag(n, mask)
  BY DEF UpdateSkList, n
<1> QED
  BY <1>1, <1>3, <1>4 DEF SameFailure

\* Nor is the choice of the main subflows.
LEMMA UpdateMainSkFrame ==
  ASSUME NEW r, Sound(r), NEW n \in UpdateMainSk(r)
  PROVE  SameFailure(n, r) /\ n.sk_list = r.sk_list
<1>1. PICK M : n = [r EXCEPT !.main = M]
  <2>1. n = SetAllMain(r) \/ n = SetAllUncongMain(r)
        \/ \E M : n = [r EXCEPT !.main = (@ \ Eligible(r)) \cup M]
    BY DEF UpdateMainSk
  <2> QED
    BY <2>1 DEF SetAllMain, SetAllUncongMain
<1> QED
  BY <1>1 DEF SameFailure, Sound, WellFormed, Register

\* So the periodic part of the call leaves failures alone.
LEMMA PeriodicUpdateFrame ==
  ASSUME NEW r, Sound(r), NEW n \in PeriodicUpdate(r)
  PROVE  SameFailure(n, r)
<1>1. CASE ~r.update_due
  BY <1>1 DEF PeriodicUpdate, SameFailure
<1>2. CASE r.update_due
  <2>1. PICK mask \in Masks :
          n \in UpdateMainSk([UpdateSkList(r, mask) EXCEPT !.update_due = FALSE])
    BY <1>2 DEF PeriodicUpdate
  <2> DEFINE u == UpdateSkList(r, mask)
             v == [u EXCEPT !.update_due = FALSE]
  <2>2. Sound(u) /\ SameFailure(u, r)
    BY UpdateSkListSound, UpdateSkListFrame
  <2> HIDE DEF u
  <2>3. v \in Register /\ FlagsListed(v) /\ v.enabled = u.enabled
        /\ v.num_enabled = u.num_enabled /\ v.inTime_cnt = u.inTime_cnt
    BY <2>2 DEF Sound, WellFormed, Register, FlagsListed
  <2>4. SameFailure(v, u)
    BY <2>2 DEF SameFailure, Sound, WellFormed, Register
  <2>5. Sound(v)
    BY <2>2, <2>3, <2>4 DEF Sound, WellFormed, SameFailure
  <2>6. SameFailure(n, v)
    BY <2>1, <2>5, UpdateMainSkFrame DEF u
  <2> HIDE DEF v
  <2> QED
    BY <2>2, <2>4, <2>6 DEF SameFailure
<1> QED
  BY <1>1, <1>2

\* The algorithm is the adaptive one, or it is not, from the start, and no path
\* check suspends it.  Without this a change of sysctl_rmptcp_adaptivPath_enable
\* or a path check leaves substitutes behind.
AlgorithmFixed ==
  \/ TRUE \notin AdaptivPath
  \/ FALSE \notin AdaptivPath /\ TRUE \notin PathCheck

\* Substitutes between two calls ...
SubsTimely(r) ==
  r.sub # {} => /\ TRUE \in AdaptivPath
                /\ r.state = "Cong" \/ (r.state = "Recovery" /\ r.cong_flag)

\* ... and during a call.
SubsInCong(r) ==
  r.sub # {} => TRUE \in AdaptivPath /\ r.state = "Cong"

\* The failure as FailureDetector sees it does not change from r to n.
SameVerdict(n, r) ==
  /\ n.meta_sk = r.meta_sk
  /\ n.state = r.state
  /\ n.cong \ n.sub = r.cong \ r.sub
  /\ n.unseen = r.unseen
  /\ n.previous_skevent_i = r.previous_skevent_i
  /\ n.timeout_start = r.timeout_start
  /\ r.sk_list \subseteq n.sk_list

\* Substitutes join the uncongested and go when the congestion state is over;
\* the verdict stands.
LEMMA AdaptPathFrame ==
  ASSUME NEW r, Sound(r), NEW n \in AdaptPath(r)
  PROVE  /\ SameVerdict(n, r)
         /\ n.cong_flag = r.cong_flag
         /\ n.sub # {} /\ r.sub = {} => r.state = "Cong"
         /\ r.state = "Recovery" /\ r.cong_flag => n.sub = {}
<1>1. CASE r.cong_flag /\ r.state = "Cong" /\ r.sk_list # {}
  <2>1. PICK new : n = [r EXCEPT !.sub = @ \cup Substitutes(r, CongestedSocket(r), new)]
    BY <1>1, Zenon DEF AdaptPath
  <2>2. Substitutes(r, CongestedSocket(r), new) \cap r.cong = {}
    BY DEF Substitutes
  <2> QED
    BY <1>1, <2>1, <2>2 DEF SameVerdict, Sound, WellFormed, Register
<1>2. CASE ~(r.cong_flag /\ r.state = "Cong" /\ r.sk_list # {})
           /\ r.cong_flag /\ r.state = "Recovery"
  <2>1. n = [r EXCEPT !.sub = {}]
    BY <1>2, Zenon DEF AdaptPath
  <2> QED
    BY <1>2, <2>1 DEF SameVerdict, Sound, WellFormed, Register
<1>3. CASE ~(r.cong_flag /\ r.state = "Cong" /\ r.sk_list # {})
           /\ ~(r.cong_flag /\ r.state = "Recovery")
  <2>1. n = r
    BY <1>3, Zenon DEF AdaptPath
  <2> QED
    BY <1>3, <2>1 DEF SameVerdict
<1> QED
  BY <1>1, <1>2, <1>3

\* With the algorithm fixed, the part of the call without path check leaves
\* substitutes in the congestion state only.
LEMMA ScheduleFrame ==
  ASSUME NEW r, Sound(r), NEW n \in Schedule(r)
  PROVE  /\ SameVerdict(n, r)
         /\ AlgorithmFixed /\ SubsTimely(r) => SubsInCong(n)
<1>1. PICK q, r1, r2, r3 :
        /\ q \in Redundancy
        /\ r1 \in PeriodicUpdate(r)
        /\ r2 \in Reroute(r1)
        /\ r3 \in Rebalance(r2)
        /\ n = Settle(r3, q)
  BY DEF Schedule
<1>2. Sound(r1) /\ SameFailure(r1, r)
  BY <1>1, PeriodicUpdateSound, PeriodicUpdateFrame
<1>3. Sound(r2)
  BY <1>1, <1>2, AdaptPathSound DEF Reroute
<1>4. Sound(r3) /\ SameFailure(r3, r2)
  BY <1>1, <1>3, UpdateMainSkSound, UpdateMainSkFrame DEF Rebalance, SameFailure
<1>5. /\ n.meta_sk = r3.meta_sk /\ n.state = r3.state /\ n.cong = r3.cong /\ n.sub = r3.sub
      /\ n.unseen = r3.unseen /\ n.previous_skevent_i = r3.previous_skevent_i
      /\ n.timeout_start = r3.timeout_start /\ n.sk_list = r3.sk_list
  BY <1>1, <1>4 DEF Settle, Sound, WellFormed, Register
<1>6. SameVerdict(r2, r1)
  <2>1. r2 = r1 \/ r2 \in AdaptPath(r1)
    BY <1>1 DEF Reroute
  <2> QED
    BY <1>2, <2>1, AdaptPathFrame DEF SameVerdict
<1>7. ASSUME AlgorithmFixed, SubsTimely(r)
      PROVE  SubsInCong(r2)
  <2>1. SubsTimely(r1)
    BY <1>2, <1>7 DEF SubsTimely, SameFailure
  <2>2. CASE TRUE \in AdaptivPath
    <3>1. r2 \in AdaptPath(r1)
      BY <1>1, <1>7, <2>2, SwitchAssumption DEF Reroute, AlgorithmFixed
    <3>2. /\ SameVerdict(r2, r1)
          /\ r2.sub # {} /\ r1.sub = {} => r1.state = "Cong"
          /\ r1.state = "Recovery" /\ r1.cong_flag => r2.sub = {}
      BY <1>2, <3>1, AdaptPathFrame
    <3> QED
      BY <2>1, <2>2, <3>2 DEF SubsTimely, SubsInCong, SameVerdict
  <2>3. CASE TRUE \notin AdaptivPath
    BY <1>1, <2>1, <2>3 DEF Reroute, SubsTimely, SubsInCong
  <2> QED
    BY <2>2, <2>3
<1>8. SameVerdict(n, r)
  BY <1>2, <1>4, <1>5, <1>6 DEF SameVerdict, SameFailure
<1>9. SubsInCong(r2) => SubsInCong(n)
  BY <1>4, <1>5 DEF SubsInCong, SameFailure
<1> QED
  BY <1>7, <1>8, <1>9

\* A path check changes who is enabled, not the verdict.
LEMMA CheckPathsFrame ==
  ASSUME NEW r, Sound(r), NEW n \in CheckPaths(r)
  PROVE  SameVerdict(n, r) /\ n.sub = r.sub
<1>1. PICK r1 \in PathTests(r), q \in Redundancy, stamped \in BOOLEAN :
        n = Measured(r1, q, stamped)
  BY DEF CheckPaths
<1>2. r1 \in Register /\ SameFailure(r1, r)
  <2>1. CASE r1 = r
    BY <2>1 DEF SameFailure, Sound, WellFormed
  <2>2. CASE \E mask \in Masks : r1 = SetAllMain(SetEnableFlag(r, mask))
    <3>1. PICK mask \in Masks : r1 = SetAllMain(SetEnableFlag(r, mask))
      BY <2>2
    <3> DEFINE e == SetEnableFlag(r, mask)
    <3>2. Sound(e) /\ SameFailure(e, r)
      BY SetEnableFlagSound, SetEnableFlagFrame
    <3> HIDE DEF e
    <3>3. Eligible(e) \in SUBSET e.sk_list
      BY <3>2 DEF Sound, WellFormed, FlagsListed, Eligible
    <3>4. SetAllMain(e) = [e EXCEPT !.main = Eligible(e)]
      BY DEF SetAllMain
    <3>5. SetAllMain(e) \in Register /\ SameFailure(SetAllMain(e), e)
      BY <3>2, <3>3, <3>4 DEF SameFailure, Sound, WellFormed, Register
    <3> QED
      BY <3>1, <3>2, <3>5 DEF SameFailure, e
  <2> QED
    BY <2>1, <2>2 DEF PathTests
<1>3. SameVerdict(n, r1) /\ n.sub = r1.sub
  BY <1>1, <1>2 DEF Measured, SameVerdict, Register
<1> QED
  BY <1>2, <1>3 DEF SameVerdict, SameFailure

\* A new connection starts with nobody accused and an empty list.
LEMMA SwitchMetaFrame ==
  ASSUME NEW r, Sound(r), NEW meta_sk \in Meta, r.meta_sk # meta_sk
  PROVE  LET n == SwitchMeta(r, meta_sk) IN
         /\ n.meta_sk = meta_sk /\ n.state = "Open" /\ n.cong = {} /\ n.sub = {}
         /\ n.unseen = {} /\ n.sk_list = {}
         /\ n.timeout_start = r.timeout_start
         /\ n.previous_skevent_i = r.previous_skevent_i
BY DEF SwitchMeta, ResetMeta, Without, Sound, WellFormed, Register

\* The register before the selection, and the one between the calls.
LEMMA PreparedFrame ==
  ASSUME Sound(red_sk_reg), NEW meta_sk \in Meta, NEW n \in Prepared(meta_sk)
  PROVE  /\ Sound(n)
         /\ n.meta_sk = meta_sk
         /\ n.timeout_start = red_sk_reg.timeout_start
         /\ n.unseen \subseteq red_sk_reg.unseen
         /\ n.previous_skevent_i = red_sk_reg.previous_skevent_i
         /\ AlgorithmFixed /\ SubsTimely(red_sk_reg) => SubsInCong(n)
         /\ red_sk_reg.meta_sk = meta_sk => SameVerdict(n, red_sk_reg)
         /\ red_sk_reg.meta_sk # meta_sk => n.state = "Open"
<1> DEFINE r == SwitchMeta(red_sk_reg, meta_sk)
<1>1. Sound(r) /\ Sound(n)
  BY SwitchMetaSound, PreparedSound
<1>2. /\ r.meta_sk = meta_sk
      /\ r.timeout_start = red_sk_reg.timeout_start
      /\ r.unseen \subseteq red_sk_reg.unseen
      /\ r.previous_skevent_i = red_sk_reg.previous_skevent_i
      /\ SubsTimely(red_sk_reg) => SubsTimely(r)
      /\ red_sk_reg.meta_sk = meta_sk => r = red_sk_reg
      /\ red_sk_reg.meta_sk # meta_sk => r.state = "Open"
  <2>1. CASE red_sk_reg.meta_sk = meta_sk
    BY <2>1 DEF SwitchMeta
  <2>2. CASE red_sk_reg.meta_sk # meta_sk
    <3>1. /\ r.meta_sk = meta_sk /\ r.state = "Open" /\ r.sub = {} /\ r.unseen = {}
          /\ r.timeout_start = red_sk_reg.timeout_start
          /\ r.previous_skevent_i = red_sk_reg.previous_skevent_i
      BY <2>2, SwitchMetaFrame
    <3> QED
      BY <2>2, <3>1 DEF SubsTimely
  <2> QED
    BY <2>1, <2>2
<1> HIDE DEF r
<1>3. /\ n \in CheckPaths(r) \/ n \in Schedule(r)
      /\ TRUE \notin PathCheck => n \in Schedule(r)
  BY DEF Prepared, r
<1>4. SameVerdict(n, r)
  BY <1>1, <1>3, CheckPathsFrame, ScheduleFrame
<1>5. ASSUME AlgorithmFixed, SubsTimely(red_sk_reg)
      PROVE  SubsInCong(n)
  <2>1. CASE n \in Schedule(r)
    BY <1>1, <1>2, <1>5, <2>1, ScheduleFrame
  <2>2. CASE n \in CheckPaths(r) /\ TRUE \in PathCheck
    <3>1. TRUE \notin AdaptivPath
      BY <1>5, <2>2 DEF AlgorithmFixed
    <3>2. r.sub = {}
      BY <1>2, <1>5, <3>1 DEF SubsTimely
    <3> QED
      BY <1>1, <2>2, <3>2, CheckPathsFrame DEF SubsInCong
  <2> QED
    BY <1>3, <2>1, <2>2
<1> QED
  BY <1>1, <1>2, <1>4, <1>5 DEF SameVerdict

\* Sockets that leave the list take their flags with them and nothing else.
LEMMA DropUnseenFrame ==
  ASSUME NEW r, Sound(r)
  PROVE  LET n == DropUnseen(r) IN
         /\ Sound(n)
         /\ n.meta_sk = r.meta_sk /\ n.state = r.state
         /\ n.timeout_start = r.timeout_start /\ n.unseen \subseteq r.unseen
         /\ n.previous_skevent_i = r.previous_skevent_i
         /\ SubsInCong(r) => SubsInCong(n)
         /\ r.unseen = {} => n.cong = r.cong /\ n.sub = r.sub /\ n.sk_list = r.sk_list
<1> DEFINE R == {s \in r.unseen : ~Available(s)}
<1>1. Sound(Without(r, R))
  BY WithoutSound
<1>2. r.unseen = {} => R = {}
  OBVIOUS
<1> HIDE DEF R
<1> QED
  BY <1>1, <1>2 DEF DropUnseen, Without, R, SubsInCong, Sound, WellFormed, Register

-----------------------------------------------------------------------------
(* The selection.                                                          *)

\* The sockets, flags and verdict of r stand in n.
SameFlags(n, r) ==
  /\ n.meta_sk = r.meta_sk /\ n.state = r.state /\ n.sk_list = r.sk_list
  /\ n.enabled = r.enabled /\ n.main = r.main /\ n.cong = r.cong /\ n.sub = r.sub
  /\ n.unseen = r.unseen /\ n.previous_skevent_i = r.previous_skevent_i

\* The redundancy is at least 1 and no more than the enabled sockets allow.
LEMMA ClampControlFrame ==
  ASSUME NEW r, Sound(r)
  PROVE  LET n == ClampControl(r) IN
         /\ Sound(n) /\ SameFlags(n, r) /\ n.timeout_start = r.timeout_start
         /\ n.q_control \in Nat \ {0}
<1> DEFINE capped == Smaller(r.q_control, r.num_enabled)
           q      == IF capped < 1 THEN 1 ELSE capped
           n      == [r EXCEPT !.q_control = q]
<1>1. q \in Nat \ {0}
  BY DEF Smaller, Sound, WellFormed, Register
<1>2. ClampControl(r) = n
  BY DEF ClampControl
<1> HIDE DEF q
<1>3. n \in Register /\ n.inTime_cnt = r.inTime_cnt /\ n.num_enabled = r.num_enabled
      /\ SameFlags(n, r) /\ n.timeout_start = r.timeout_start /\ n.q_control = q
  BY <1>1 DEF Sound, WellFormed, Register, SameFlags
<1> HIDE DEF n
<1>4. Sound(n)
  BY <1>3 DEF Sound, WellFormed, FlagsListed, SameFlags
<1> QED
  BY <1>1, <1>2, <1>3, <1>4

\* Selecting touches the timer and the clamped redundancy only.
LEMMA SelectionFrame ==
  ASSUME NEW r, Sound(r), NEW out, NEW choice \in CheckAvailSk(r, out)
  PROVE  SameFlags(choice.reg, r) /\ choice.reg.q_control = ClampControl(r).q_control
<1> DEFINE c == ClampControl(r)
           avail == Usable(c, out)
<1>1. Sound(c) /\ SameFlags(c, r)
  BY ClampControlFrame
<1> DEFINE stopped == [c EXCEPT !.timeout_start = "unset"]
           late    == [c EXCEPT !.timeout = TRUE,
                                !.timeout_start = IF avail = {} THEN @ ELSE "unset"]
           waiting == [c EXCEPT !.timeout_start = IF @ = "unset" THEN "running" ELSE @]
<1>2. \/ \E use \in Chosen(c, avail) : choice = [use |-> use, reg |-> stopped]
      \/ choice = [use |-> avail, reg |-> stopped]
      \/ choice = [use |-> avail, reg |-> late]
      \/ choice = [use |-> {}, reg |-> waiting]
  BY Zenon DEF CheckAvailSk, c
<1> HIDE DEF c, avail
<1>3. ASSUME NEW n \in {stopped, late, waiting}
      PROVE  SameFlags(n, c) /\ n.q_control = c.q_control
  BY <1>1 DEF SameFlags, Sound, WellFormed, Register
<1> HIDE DEF stopped, late, waiting
<1>4. choice.reg \in {stopped, late, waiting}
  BY <1>2
<1>5. SameFlags(choice.reg, c) /\ choice.reg.q_control = c.q_control
  BY <1>3, <1>4
<1> QED
  BY <1>1, <1>5 DEF SameFlags, c

\* Leaving out surplus main sockets keeps enough sockets and one main one; if
\* more than enough are left, only one of them is main.
LEMMA KickedFrame ==
  ASSUME NEW r, Sound(r), NEW avail \in SUBSET Sock, TargetReached(r, avail),
         NEW use \in Kicked(r, avail)
  PROVE  /\ use \in SUBSET avail
         /\ Cardinality(use) >= r.q_control
         /\ use \cap r.main # {}
         /\ Cardinality(use) > r.q_control => Cardinality(use \cap r.main) = 1
<1> DEFINE mains   == avail \cap r.main
           surplus == Cardinality(avail) - r.q_control
           spare   == Cardinality(mains) - 1
<1>1. /\ IsFiniteSet(avail) /\ IsFiniteSet(mains)
      /\ Cardinality(avail) \in Nat /\ Cardinality(mains) \in Nat
  BY SocketSets
<1>2. mains # {} /\ Cardinality(mains) # 0
  BY <1>1, FS_EmptySet DEF TargetReached
<1>3. surplus \in Nat /\ spare \in Nat /\ r.q_control \in Nat
  BY <1>1, <1>2 DEF TargetReached, Sound, WellFormed, Register
<1>4. PICK kick \in SUBSET mains :
        use = avail \ kick /\ Cardinality(kick) = Smaller(surplus, spare)
  BY <1>2 DEF Kicked
<1>5. /\ Cardinality(avail \ kick) = Cardinality(avail) - Cardinality(kick)
      /\ Cardinality(mains \ kick) = Cardinality(mains) - Cardinality(kick)
  <2>1. kick \cap avail = kick /\ avail \cap kick = kick /\ mains \cap kick = kick
    BY <1>4
  <2>2. ASSUME NEW S, IsFiniteSet(S), S \cap kick = kick
        PROVE  Cardinality(S \ kick) = Cardinality(S) - Cardinality(kick)
    <3>1. IsFiniteSet(kick)
      BY <1>1, <1>4, FS_Subset
    <3> QED
      BY <2>2, <3>1, FS_Difference
  <2> HIDE DEF mains
  <2> QED
    BY <1>1, <2>1, <2>2
<1>6. use \cap r.main = mains \ kick
  BY <1>4
<1>7. use \in SUBSET avail
  BY <1>4
<1> HIDE DEF mains
<1>8. Cardinality(use) = Cardinality(avail) - Smaller(surplus, spare)
      /\ Cardinality(use \cap r.main) = Cardinality(mains) - Smaller(surplus, spare)
  BY <1>4, <1>5, <1>6
<1>9. /\ Cardinality(use) >= r.q_control
      /\ Cardinality(use \cap r.main) # 0
      /\ Cardinality(use) > r.q_control => Cardinality(use \cap r.main) = 1
  BY <1>1, <1>2, <1>3, <1>8 DEF Smaller
<1> QED
  BY <1>7, <1>9, FS_EmptySet

\* The copies of a segment that is not late: as many as q_control asks for, one
\* of them on a main subflow, and no superfluous main one.
Redundant(use, r) ==
  /\ Cardinality(use) >= Smaller(r.q_control, Cardinality(r.enabled))
  /\ use \cap r.main # {}
  /\ use \subseteq Eligible(r)
  /\ EnableKick = {TRUE} /\ Cardinality(use) > r.q_control => Cardinality(use \cap r.main) = 1

\* Before the time is over the selection is redundant or empty.
LEMMA SelectionRedundant ==
  ASSUME NEW r, Sound(r), NEW out, NEW choice \in CheckAvailSk(r, out),
         r.timeout_start # "over", choice.use # {}
  PROVE  Redundant(choice.use, choice.reg)
<1> DEFINE c == ClampControl(r)
           avail == Usable(c, out)
           stop == [c EXCEPT !.timeout_start = "unset"]
           use  == choice.use
<1>1. /\ Sound(c) /\ SameFlags(c, r) /\ c.timeout_start # "over"
      /\ c.q_control \in Nat \ {0}
  BY ClampControlFrame
<1>2. TargetReached(c, avail)
      /\ \E u \in Chosen(c, avail) : choice = [use |-> u, reg |-> stop]
  BY <1>1 DEF CheckAvailSk
<1> HIDE DEF c
<1>3. use \in Chosen(c, avail) /\ choice.reg = stop
  BY <1>2
<1>4. /\ stop.q_control = c.q_control /\ stop.main = c.main
      /\ stop.enabled = c.enabled /\ stop.sub = c.sub
  BY <1>1 DEF Sound, WellFormed, Register
<1>5. avail \in SUBSET Eligible(c) /\ avail \in SUBSET Sock
  BY <1>1 DEF Usable, Eligible, Sound, WellFormed, Register
<1>6. Cardinality(c.enabled) \in Nat /\ Cardinality(avail) \in Nat
  BY <1>1, <1>5, SocketSets DEF Sound, WellFormed, Register
<1> HIDE DEF avail, stop
<1>7. /\ use \in SUBSET avail
      /\ Cardinality(use) >= c.q_control
      /\ use \cap c.main # {}
      /\ EnableKick = {TRUE} /\ Cardinality(use) > c.q_control =>
           Cardinality(use \cap c.main) = 1
  <2>1. CASE use \in Kicked(c, avail)
    <3> HIDE DEF use
    <3> QED
      BY <1>1, <1>2, <1>5, <2>1, KickedFrame
  <2>2. CASE use = avail /\ EnableKick # {TRUE}
    BY <1>2, <2>2 DEF TargetReached
  <2> QED
    BY <1>3, <2>1, <2>2, SwitchAssumption DEF Chosen
<1>8. Cardinality(use) \in Nat
  BY <1>5, <1>7, SocketSets
<1>9. Cardinality(use) >= Smaller(c.q_control, Cardinality(c.enabled))
  BY <1>1, <1>6, <1>7, <1>8 DEF Smaller
<1> QED
  BY <1>3, <1>4, <1>5, <1>7, <1>9 DEF Redundant, Eligible

-----------------------------------------------------------------------------
(* Watching for failures.                                                  *)

\* Watching never changes who may carry the segment.
SameSelection(n, r) ==
  /\ n.meta_sk = r.meta_sk /\ n.sk_list = r.sk_list /\ n.enabled = r.enabled
  /\ n.main = r.main /\ n.sub = r.sub /\ n.unseen \subseteq r.unseen
  /\ n.q_control = r.q_control

\* Stamping the time a segment was sent is no matter of failures.
LEMMA CalcSendPeriodFrame ==
  ASSUME NEW r, Sound(r)
  PROVE  LET n == CalcSendPeriod(r) IN
         /\ SameSelection(n, r) /\ n.state = r.state /\ n.cong = r.cong
         /\ n.previous_skevent_i = r.previous_skevent_i
BY DEF CalcSendPeriod, SameSelection, Sound, WellFormed, Register

\* Judging the substitutes convicts nobody else and acquits nobody else.
LEMMA JudgeSubstitutesFrame ==
  ASSUME NEW r, WellFormed(r), NEW n \in JudgeSubstitutes(r)
  PROVE  /\ SameSelection(n, r) /\ n.state = r.state /\ n.cong \ n.sub = r.cong \ r.sub
         /\ n.previous_skevent_i = r.previous_skevent_i
<1>1. CASE r.state # "Cong"
  BY <1>1 DEF JudgeSubstitutes, SameSelection
<1>2. CASE r.state = "Cong"
  <2>1. PICK healed \in SUBSET ((r.sub \cap r.cong) \ Congested) :
          n = [r EXCEPT !.cong = (@ \ healed) \cup (r.sub \cap Lost)]
    BY <1>2 DEF JudgeSubstitutes
  <2> HIDE DEF Lost, Congested
  <2>2. /\ n.cong = (r.cong \ healed) \cup (r.sub \cap Lost) /\ n.sub = r.sub
        /\ SameSelection(n, r) /\ n.state = r.state
        /\ n.previous_skevent_i = r.previous_skevent_i
    BY <2>1 DEF SameSelection, WellFormed, Register
  <2>3. healed \subseteq r.sub
    BY <2>1
  <2> QED
    BY <2>2, <2>3
<1> QED
  BY <1>1, <1>2

\* The index of the last event is that of a socket of the list, or 0.
IndexInList(r) ==
  r.previous_skevent_i = 0 \/ r.previous_skevent_i < Cardinality(r.sk_list)

\* The verdict of Cong falls on one socket.
Convicted(n) == n.state = "Cong" /\ \E s \in Sock : n.cong = {s}

\* Entering Cong with the socket at an index of the list convicts that one.
LEMMA EnterCongFrame ==
  ASSUME NEW r, WellFormed(r), r.state # "Cong",
         NEW blamed, \E s \in r.sk_list : blamed = {s}
  PROVE  LET n == EnterCong(r, blamed) IN
         /\ SameSelection(n, r) /\ Convicted(n)
         /\ n.previous_skevent_i = r.previous_skevent_i
<1>1. r.cong = {} /\ r.sk_list \in SUBSET Sock
  BY DEF WellFormed, Register
<1> QED
  BY <1>1 DEF EnterCong, SameSelection, Convicted, WellFormed, Register

\* An index below the size of the list, or 0, names one socket.
LEMMA BlamedByIndex ==
  ASSUME NEW L \in SUBSET Sock, L # {}, NEW i \in Nat, i = 0 \/ i < Cardinality(L)
  PROVE  \E s \in L : SocketAt(i, L) = {s}
<1>1. Cardinality(L) \in Nat /\ Cardinality(L) # 0
  BY SocketSets, FS_EmptySet
<1>2. i \in 0..Cardinality(L) - 1
  BY <1>1
<1> QED
  BY <1>2, IndexTaken

\* The index of an event is that of an enabled socket, or 0.
LEMMA EventIndexInList ==
  ASSUME NEW r, WellFormed(r)
  PROVE  /\ EventIndex(r) \in Nat
         /\ EventIndex(r) = 0 \/ EventIndex(r) < Cardinality(r.sk_list)
<1> DEFINE event == r.enabled \cap Congested
           worst == IF event \cap Lost # {} THEN event \cap Lost ELSE event
           first == {s \in worst : \A t \in worst \ {s} : Precedes(s, t)}
<1>1. worst \in SUBSET r.sk_list /\ r.sk_list \in SUBSET Sock
  BY DEF WellFormed, FlagsListed, Register
<1>2. ASSUME worst # {}
      PROVE  first # {}
  <2>1. worst \in SUBSET Sock /\ IsFiniteSet(worst)
    BY <1>1, SocketSets
  <2> HIDE DEF worst
  <2> QED
    BY <1>2, <2>1, FirstExists
<1> HIDE DEF worst
<1>3. CASE worst # {}
  <2> DEFINE s == CHOOSE s \in first : TRUE
  <2>1. s \in r.sk_list
    BY <1>1, <1>2, <1>3
  <2>2. EventIndex(r) = Position(s, r.sk_list)
    BY <1>3 DEF EventIndex, worst
  <2> HIDE DEF s
  <2>3. Position(s, r.sk_list) \in 0..Cardinality(r.sk_list) - 1
    BY <1>1, <2>1, SocketAtPosition
  <2>4. Cardinality(r.sk_list) \in Nat
    BY <1>1, SocketSets
  <2> QED
    BY <2>2, <2>3, <2>4
<1>4. CASE worst = {}
  BY <1>4 DEF EventIndex, worst
<1> QED
  BY <1>3, <1>4

\* The failure state changes as the abstract detection allows it.
Judged(n, r) ==
  \/ n.state = r.state /\ n.cong \ n.sub = r.cong \ r.sub
  \/ r.state \in {"Open", "Recovery"} /\ n.state = "Timeout"
  \/ r.state = "Timeout" /\ n.state = "Recovery"
  \/ r.state = "Recovery" /\ n.state = "Open"
  \/ r.state # "Cong" /\ Convicted(n)
  \/ r.state = "Cong" /\ n.state = "Recovery" /\ n.cong_flag

\* A timeout convicts one socket.
LEMMA TimeoutToCongFrame ==
  ASSUME NEW r, WellFormed(r), r.state # "Cong", r.sk_list # {},
         NEW use, NEW n \in TimeoutToCong(r, use)
  PROVE  /\ SameSelection(n, r) /\ Convicted(n)
         /\ n.previous_skevent_i = r.previous_skevent_i
<1>1. r.sk_list \in SUBSET Sock
  BY DEF WellFormed, Register
<1>2. \E s \in r.sk_list : SocketAt(0, r.sk_list) = {s}
  BY <1>1, BlamedByIndex
<1>3. PICK blamed : n = EnterCong(r, blamed) /\ \E s \in r.sk_list : blamed = {s}
  BY <1>2 DEF TimeoutToCong, WellFormed, FlagsListed
<1> QED
  BY <1>3, EnterCongFrame

\* So does a collapse, with the index of the event as its witness.
LEMMA CollapseFrame ==
  ASSUME NEW r, WellFormed(r), r.state # "Cong", r.sk_list # {}, IndexInList(r),
         NEW n \in Collapse(r) \cup SilentCollapse(r)
  PROVE  SameSelection(n, r) /\ Convicted(n) /\ IndexInList(n)
<1>1. r.sk_list \in SUBSET Sock /\ r.previous_skevent_i \in Nat
  BY DEF WellFormed, Register
<1>2. CASE n = EventToCong(r)
  <2> DEFINE i == EventIndex(r)
             e == EnterCong(r, SocketAt(i, r.sk_list))
  <2>1. i \in Nat /\ (i = 0 \/ i < Cardinality(r.sk_list))
    BY EventIndexInList
  <2> HIDE DEF i
  <2>2. \E s \in r.sk_list : SocketAt(i, r.sk_list) = {s}
    BY <1>1, <2>1, BlamedByIndex
  <2>3. SameSelection(e, r) /\ Convicted(e)
    BY <2>2, EnterCongFrame
  <2>4. e \in Register
    <3>1. SocketAt(i, r.sk_list) \in SUBSET r.sk_list
      BY DEF SocketAt
    <3>2. WellFormed(e)
      BY <3>1, EnterCongSound
    <3> QED
      BY <3>2 DEF WellFormed
  <2>5. n = [e EXCEPT !.previous_skevent_i = i]
    BY <1>2 DEF EventToCong, i
  <2> HIDE DEF e
  <2>6. SameSelection(n, r) /\ Convicted(n) /\ n.previous_skevent_i = i
        /\ n.sk_list = r.sk_list
    BY <2>3, <2>4, <2>5 DEF SameSelection, Convicted, Register
  <2> QED
    BY <2>1, <2>6 DEF IndexInList
<1>3. CASE n = EnterCong(r, SocketAt(r.previous_skevent_i, r.sk_list))
  <2>1. \E s \in r.sk_list : SocketAt(r.previous_skevent_i, r.sk_list) = {s}
    BY <1>1, BlamedByIndex DEF IndexInList
  <2>2. SameSelection(n, r) /\ Convicted(n) /\ n.previous_skevent_i = r.previous_skevent_i
    BY <1>3, <2>1, EnterCongFrame
  <2> QED
    BY <2>2 DEF IndexInList, SameSelection
<1> QED
  BY <1>2, <1>3 DEF Collapse, SilentCollapse

\* One step of the state machine judges as allowed.
LEMMA StateMachineFrame ==
  ASSUME NEW r, WellFormed(r), r.sk_list # {}, IndexInList(r),
         NEW use, NEW n \in StateMachine(r, use)
  PROVE  SameSelection(n, r) /\ Judged(n, r) /\ IndexInList(n)
<1>1. r \in Register /\ r.state \in RedState
  BY DEF WellFormed, Register
<1>2. ASSUME NEW m \in FirstTimeout(r, use), r.state \in {"Open", "Recovery"}
      PROVE  SameSelection(m, r) /\ Judged(m, r) /\ IndexInList(m)
  <2>1. CASE m \in TimeoutToCong(r, use)
    BY <1>2, <2>1, TimeoutToCongFrame DEF Judged, IndexInList, SameSelection
  <2>2. CASE m = [r EXCEPT !.state = "Timeout", !.held = FALSE]
    BY <1>1, <1>2, <2>2 DEF Judged, IndexInList, SameSelection, Register
  <2> QED
    BY <1>2, <2>1, <2>2 DEF FirstTimeout
<1>3. SameSelection(r, r) /\ Judged(r, r)
  BY DEF SameSelection, Judged
<1>4. ASSUME NEW m \in Collapse(r) \cup SilentCollapse(r), r.state # "Cong"
      PROVE  SameSelection(m, r) /\ Judged(m, r) /\ IndexInList(m)
  BY <1>4, CollapseFrame DEF Judged
<1>5. CASE r.state = "Open"
  <2>1. n \in FirstTimeout(r, use) \/ n = r \/ n \in Collapse(r)
    BY <1>5 DEF StateMachine
  <2> QED
    BY <1>2, <1>3, <1>4, <1>5, <2>1
<1>6. CASE r.state = "Recovery"
  <2>1. \/ n \in FirstTimeout(r, use)
        \/ n = LeaveRecovery(r)
        \/ n \in Collapse(r) \cup SilentCollapse(r)
    BY <1>6 DEF StateMachine
  <2>2. CASE n = LeaveRecovery(r)
    <3>1. \/ n = [r EXCEPT !.held = FALSE]
          \/ n = [r EXCEPT !.state = "Open", !.held = FALSE, !.cong_flag = TRUE, !.cong = {}]
          \/ n = r
      BY <2>2, Zenon DEF LeaveRecovery
    <3> QED
      BY <1>1, <1>6, <3>1 DEF Judged, IndexInList, SameSelection, Register
  <2> QED
    BY <1>2, <1>4, <1>6, <2>1, <2>2
<1>7. CASE r.state = "Timeout"
  <2>1. \/ n \in TimeoutToCong(r, use)
        \/ n = EnterRecovery([r EXCEPT !.inTime_cnt = 0])
        \/ n = r
        \/ n \in Collapse(r)
    BY <1>7 DEF StateMachine
  <2>2. CASE n \in TimeoutToCong(r, use)
    BY <1>7, <2>2, TimeoutToCongFrame DEF Judged, IndexInList, SameSelection
  <2>3. CASE n = EnterRecovery([r EXCEPT !.inTime_cnt = 0])
    BY <1>1, <1>7, <2>3 DEF EnterRecovery, Judged, IndexInList, SameSelection, Register
  <2> QED
    BY <1>3, <1>4, <1>7, <2>1, <2>2, <2>3
<1>8. CASE r.state = "Cong"
  <2>1. n = LeaveCong(r)
    BY <1>8 DEF StateMachine
  <2>2. \/ n = r
        \/ n = [[r EXCEPT !.state = "Recovery", !.held = FALSE]
                  EXCEPT !.cong_flag = TRUE, !.cong = {}]
    BY <2>1 DEF LeaveCong, EnterRecovery
  <2> QED
    BY <1>1, <1>3, <1>8, <2>2 DEF Judged, IndexInList, SameSelection, Register
<1> QED
  BY <1>1, <1>5, <1>6, <1>7, <1>8 DEF RedState

\* No step of it, with whatever list, changes who may carry the segment, or
\* leaves Cong without a sign for the substitutes.
LEMMA StateMachineSelection ==
  ASSUME NEW r, WellFormed(r), NEW use, NEW n \in StateMachine(r, use)
  PROVE  /\ SameSelection(n, r)
         /\ r.state = "Cong" => n.state = "Cong" \/ (n.state = "Recovery" /\ n.cong_flag)
<1>1. r \in Register /\ r.state \in RedState
  BY DEF WellFormed, Register
<1>2. CASE r.state = "Cong"
  <2>1. \/ n = r
        \/ n = [[r EXCEPT !.state = "Recovery", !.held = FALSE]
                  EXCEPT !.cong_flag = TRUE, !.cong = {}]
    BY <1>2 DEF StateMachine, LeaveCong, EnterRecovery
  <2> QED
    BY <1>1, <1>2, <2>1 DEF SameSelection, Register
<1>3. CASE r.state # "Cong"
  <2>1. ASSUME NEW blamed
        PROVE  /\ SameSelection(EnterCong(r, blamed), r)
               /\ \A i : SameSelection([EnterCong(r, blamed)
                                          EXCEPT !.previous_skevent_i = i], r)
    BY <1>1 DEF EnterCong, SameSelection, Register
  <2>2. ASSUME NEW m \in FirstTimeout(r, use) \cup TimeoutToCong(r, use)
        PROVE  SameSelection(m, r)
    <3>1. \/ \E blamed : m = EnterCong(r, blamed)
          \/ m = [r EXCEPT !.state = "Timeout", !.held = FALSE]
      BY <2>2, Zenon DEF FirstTimeout, TimeoutToCong
    <3>2. SameSelection([r EXCEPT !.state = "Timeout", !.held = FALSE], r)
      BY <1>1 DEF SameSelection, Register
    <3> QED
      BY <2>1, <3>1, <3>2
  <2>3. ASSUME NEW m \in Collapse(r) \cup SilentCollapse(r)
        PROVE  SameSelection(m, r)
    BY <2>1 DEF Collapse, SilentCollapse, EventToCong
  <2>4. \/ n \in FirstTimeout(r, use) \cup TimeoutToCong(r, use)
        \/ n \in Collapse(r) \cup SilentCollapse(r)
        \/ n = r
        \/ r.state = "Recovery" /\ n = LeaveRecovery(r)
        \/ n = EnterRecovery([r EXCEPT !.inTime_cnt = 0])
    BY <1>1, <1>3 DEF StateMachine, RedState
  <2>5. CASE n = LeaveRecovery(r)
    <3>1. \/ n = [r EXCEPT !.held = FALSE]
          \/ n = [r EXCEPT !.state = "Open", !.held = FALSE, !.cong_flag = TRUE, !.cong = {}]
          \/ n = r
      BY <2>5, Zenon DEF LeaveRecovery
    <3> QED
      BY <1>1, <1>3, <3>1 DEF SameSelection, Register
  <2>6. CASE n = EnterRecovery([r EXCEPT !.inTime_cnt = 0])
    BY <1>1, <1>3, <2>6 DEF EnterRecovery, SameSelection, Register
  <2>7. SameSelection(r, r)
    BY DEF SameSelection
  <2> QED
    BY <1>3, <2>2, <2>3, <2>4, <2>5, <2>6, <2>7
<1> QED
  BY <1>2, <1>3

\* A call that sends judges the register it sends with, as allowed.
LEMMA CheckFailureFrame ==
  ASSUME NEW reg, Sound(reg), NEW use, NEW n \in CheckFailure(CalcSendPeriod(reg), use)
  PROVE  /\ Sound(n) /\ SameSelection(n, reg)
         /\ reg.state = "Cong" => n.state = "Cong" \/ (n.state = "Recovery" /\ n.cong_flag)
         /\ reg.sk_list # {} /\ IndexInList(reg) => Judged(n, reg) /\ IndexInList(n)
<1> DEFINE p == CalcSendPeriod(reg)
<1>1. /\ Judging(p)
      /\ SameSelection(p, reg) /\ p.state = reg.state /\ p.cong = reg.cong
      /\ p.previous_skevent_i = reg.previous_skevent_i
  BY CalcSendPeriodSound, CalcSendPeriodFrame
<1> HIDE DEF p
<1>2. PICK j \in JudgeSubstitutes(p) : n \in StateMachine(j, use)
  BY DEF CheckFailure, p
<1>3. /\ Judging(j) /\ WellFormed(j)
      /\ SameSelection(j, p) /\ j.state = p.state /\ j.cong \ j.sub = p.cong \ p.sub
      /\ j.previous_skevent_i = p.previous_skevent_i
  BY <1>1, <1>2, JudgeSubstitutesSound, JudgeSubstitutesFrame DEF Judging
<1>4. Sound(n)
  BY <1>2, <1>3, StateMachineSound
<1>5. /\ SameSelection(n, j)
      /\ j.state = "Cong" => n.state = "Cong" \/ (n.state = "Recovery" /\ n.cong_flag)
  BY <1>2, <1>3, StateMachineSelection
<1>6. ASSUME reg.sk_list # {}, IndexInList(reg)
      PROVE  Judged(n, reg) /\ IndexInList(n)
  <2>1. j.sk_list # {} /\ IndexInList(j)
    BY <1>1, <1>3, <1>6 DEF SameSelection, IndexInList
  <2>2. Judged(n, j) /\ IndexInList(n)
    BY <1>2, <1>3, <2>1, StateMachineFrame
  <2>3. j.state = reg.state /\ j.cong \ j.sub = reg.cong \ reg.sub
    BY <1>1, <1>3 DEF SameSelection
  <2> QED
    BY <2>2, <2>3 DEF Judged
<1> QED
  BY <1>1, <1>3, <1>4, <1>5, <1>6 DEF SameSelection

-----------------------------------------------------------------------------
(* The call as a whole, and what is left of it between two calls.          *)

\* A call prepares a register r, selects with a register reg and, if it sends,
\* judges reg.
LEMMA CallFrame ==
  ASSUME Sound(red_sk_reg), NEW meta_sk \in Meta, SendNextSegment(meta_sk)
  PROVE  \E r \in Prepared(meta_sk) : \E reg :
           /\ Sound(reg) /\ SameFlags(reg, DropUnseen(r))
           /\ \/ red_sk_reg' = reg /\ sent' = {}
              \/ /\ SameSelection(red_sk_reg', reg)
                 /\ reg.state = "Cong" =>
                      \/ red_sk_reg'.state = "Cong"
                      \/ red_sk_reg'.state = "Recovery" /\ red_sk_reg'.cong_flag
                 /\ IndexInList(reg) => Judged(red_sk_reg', reg) /\ IndexInList(red_sk_reg')
                 /\ TRUE \notin EntailFails /\ red_sk_reg.timeout_start # "over" =>
                      Redundant(sent', red_sk_reg')
<1>1. PICK r \in Prepared(meta_sk) : \E out \in SUBSET (r.cong \cap r.sub) :
        \E choice \in CheckAvailSk(DropUnseen(r), out) :
           \/ choice.use = {} /\ NoSend(choice.reg)
           \/ choice.use # {} /\ Send(choice.reg, choice.use)
  BY DEF SendNextSegment
<1> DEFINE d == DropUnseen(r)
<1>2. Sound(d) /\ d.timeout_start = red_sk_reg.timeout_start
  BY PreparedFrame, DropUnseenFrame
<1>3. PICK out : \E choice \in CheckAvailSk(d, out) :
        \/ choice.use = {} /\ NoSend(choice.reg)
        \/ choice.use # {} /\ Send(choice.reg, choice.use)
  BY <1>1
<1>4. PICK choice \in CheckAvailSk(d, out) :
        \/ choice.use = {} /\ NoSend(choice.reg)
        \/ choice.use # {} /\ Send(choice.reg, choice.use)
  BY <1>3
<1> HIDE DEF d
<1> DEFINE reg == choice.reg
           use == choice.use
<1>5. Sound(reg) /\ use \in SUBSET d.sk_list /\ SameFlags(reg, d)
  BY <1>2, SelectionSound, SelectionFrame
<1>6. d.timeout_start # "over" /\ use # {} => Redundant(use, reg)
  BY <1>2, SelectionRedundant
<1>7. CASE choice.use = {} /\ NoSend(choice.reg)
  BY <1>5, <1>7 DEF NoSend, d
<1>8. CASE choice.use # {} /\ Send(choice.reg, choice.use)
  <2>1. PICK n \in CheckFailure(CalcSendPeriod(reg), use), skb \in SendSkb(use) :
          /\ red_sk_reg' = [n EXCEPT !.timeout = FALSE, !.unseen = @ \ skb.stamped]
          /\ sent' = skb.put
    BY <1>8 DEF Send
  <2>2. reg.sk_list # {}
    BY <1>5, <1>8 DEF SameFlags
  <2> HIDE DEF reg, use
  <2>3. /\ Sound(n) /\ SameSelection(n, reg)
        /\ reg.state = "Cong" => n.state = "Cong" \/ (n.state = "Recovery" /\ n.cong_flag)
        /\ IndexInList(reg) => Judged(n, reg) /\ IndexInList(n)
    BY <1>5, <2>1, <2>2, CheckFailureFrame
  <2>4. /\ SameSelection(red_sk_reg', n) /\ red_sk_reg'.state = n.state
        /\ red_sk_reg'.cong_flag = n.cong_flag /\ red_sk_reg'.cong = n.cong
        /\ red_sk_reg'.previous_skevent_i = n.previous_skevent_i
    BY <2>1, <2>3 DEF SameSelection, Sound, WellFormed, Register
  <2>5. SameSelection(red_sk_reg', reg)
    BY <2>3, <2>4 DEF SameSelection
  <2>6. IndexInList(reg) => Judged(red_sk_reg', reg) /\ IndexInList(red_sk_reg')
    BY <2>3, <2>4 DEF Judged, IndexInList, Convicted, SameSelection
  <2>7. ASSUME TRUE \notin EntailFails, red_sk_reg.timeout_start # "over"
        PROVE  Redundant(sent', red_sk_reg')
    <3>1. sent' = use
      <4>1. EntailFails \in SUBSET {FALSE}
        BY <2>7, SwitchAssumption
      <4>2. SendSkb(use) \subseteq {[put |-> use, stamped |-> use]}
        BY <4>1 DEF SendSkb
      <4> QED
        BY <2>1, <4>2
    <3>2. Redundant(use, reg)
      BY <1>2, <1>6, <1>8, <2>7 DEF use
    <3> QED
      BY <2>5, <3>1, <3>2 DEF Redundant, Eligible, SameSelection
  <2> QED
    BY <1>5, <2>3, <2>4, <2>5, <2>6, <2>7 DEF reg, d
<1> QED
  BY <1>4, <1>7, <1>8

\* What the clock and the network do to the register.
LEMMA EnvironmentFrame ==
  ASSUME Sound(red_sk_reg),
         \/ \E s \in Sock, condition \in Conditions : NetChange(s, condition)
         \/ TimeoutRunsOut \/ HoldRunsOut \/ UpdateComesDue
         \/ \E s \in Sock : Unseen(s)
         \/ UNCHANGED vars
  PROVE  /\ sent' = sent
         /\ red_sk_reg'.meta_sk = red_sk_reg.meta_sk
         /\ red_sk_reg'.state = red_sk_reg.state
         /\ red_sk_reg'.cong_flag = red_sk_reg.cong_flag
         /\ red_sk_reg'.cong = red_sk_reg.cong
         /\ red_sk_reg'.sub = red_sk_reg.sub
         /\ red_sk_reg'.sk_list = red_sk_reg.sk_list
         /\ red_sk_reg'.previous_skevent_i = red_sk_reg.previous_skevent_i
         /\ red_sk_reg'.unseen \subseteq red_sk_reg.unseen \cup MayVanish
<1> DEFINE r == red_sk_reg
<1>1. sent' = sent
  BY DEF NetChange, TimeoutRunsOut, HoldRunsOut, UpdateComesDue, Unseen, vars
<1>2. \/ r' = r
      \/ r' = [r EXCEPT !.timeout_start = "over"]
      \/ r' = [r EXCEPT !.held = TRUE]
      \/ r' = [r EXCEPT !.update_due = TRUE]
      \/ \E s \in MayVanish : r' = [r EXCEPT !.unseen = @ \cup {s}]
  BY DEF NetChange, TimeoutRunsOut, HoldRunsOut, UpdateComesDue, Unseen, vars
<1> QED
  BY <1>1, <1>2 DEF Sound, WellFormed, Register

-----------------------------------------------------------------------------
(* Substitutes.                                                            *)

\* Between two calls: the register is sound, substitutes serve in Cong and
\* until the call after it, and a subflow that never vanishes is never due to
\* leave the list.
AInv ==
  /\ IInv
  /\ AlgorithmFixed => SubsTimely(red_sk_reg)
  /\ MayVanish = {} => red_sk_reg.unseen = {}

\* Each step, of a call or of the environment, keeps that up.
LEMMA StepTimely == AInv /\ [Next]_vars => AInv'
<1> SUFFICES ASSUME AInv, [Next]_vars PROVE AInv'
  OBVIOUS
<1>1. IInv'
  BY StepSound DEF AInv
<1>2. ASSUME NEW meta_sk \in Meta, SendNextSegment(meta_sk)
      PROVE  AInv'
  <2>1. PICK r \in Prepared(meta_sk) : \E reg :
           /\ Sound(reg) /\ SameFlags(reg, DropUnseen(r))
           /\ \/ red_sk_reg' = reg /\ sent' = {}
              \/ /\ SameSelection(red_sk_reg', reg)
                 /\ reg.state = "Cong" =>
                      \/ red_sk_reg'.state = "Cong"
                      \/ red_sk_reg'.state = "Recovery" /\ red_sk_reg'.cong_flag
    BY <1>2, CallFrame DEF AInv, IInv
  <2>2. PICK reg :
           /\ Sound(reg) /\ SameFlags(reg, DropUnseen(r))
           /\ \/ red_sk_reg' = reg /\ sent' = {}
              \/ /\ SameSelection(red_sk_reg', reg)
                 /\ reg.state = "Cong" =>
                      \/ red_sk_reg'.state = "Cong"
                      \/ red_sk_reg'.state = "Recovery" /\ red_sk_reg'.cong_flag
    BY <2>1
  <2>3. /\ Sound(r) /\ r.unseen \subseteq red_sk_reg.unseen
        /\ AlgorithmFixed => SubsInCong(r)
    BY <2>1, PreparedFrame DEF AInv, IInv
  <2>4. /\ DropUnseen(r).unseen \subseteq r.unseen
        /\ AlgorithmFixed => SubsInCong(DropUnseen(r))
    BY <2>3, DropUnseenFrame
  <2>5. /\ red_sk_reg'.unseen \subseteq red_sk_reg.unseen
        /\ AlgorithmFixed => SubsTimely(red_sk_reg)'
    BY <2>2, <2>3, <2>4 DEF SameFlags, SameSelection, SubsInCong, SubsTimely
  <2> QED
    BY <1>1, <2>5 DEF AInv
<1>3. CASE \/ \E s \in Sock, condition \in Conditions : NetChange(s, condition)
           \/ TimeoutRunsOut \/ HoldRunsOut \/ UpdateComesDue
           \/ \E s \in Sock : Unseen(s)
           \/ UNCHANGED vars
  <2>1. /\ red_sk_reg'.state = red_sk_reg.state
        /\ red_sk_reg'.cong_flag = red_sk_reg.cong_flag
        /\ red_sk_reg'.sub = red_sk_reg.sub
        /\ red_sk_reg'.unseen \subseteq red_sk_reg.unseen \cup MayVanish
    BY <1>3, EnvironmentFrame DEF AInv, IInv
  <2> QED
    BY <1>1, <2>1 DEF AInv, SubsTimely
<1> QED
  BY <1>2, <1>3 DEF Next

\* The invariant of the adaptive algorithm.
THEOREM Timeliness == Spec => []AInv
<1>1. Init => AInv
  <2>1. Init => IInv
    BY InitSound
  <2> QED
    BY <2>1 DEF Init, AInv, SubsTimely
<1>2. AInv /\ [Next]_vars => AInv'
  BY StepTimely
<1> QED
  BY <1>1, <1>2, PTL DEF Spec

\* While nobody turns the adaptive algorithm off, directly or by a path check,
\* substitutes serve in the congestion state only and are taken back by the
\* call that follows its end, whatever fails, vanishes or changes in between.
THEOREM SubstitutesEnd ==
  ASSUME AlgorithmFixed
  PROVE  Spec => []SubstitutesOnlyInCong
<1>1. AInv => SubstitutesOnlyInCong
  BY DEF AInv, SubsTimely, SubstitutesOnlyInCong
<1> QED
  BY <1>1, Timeliness, PTL

-----------------------------------------------------------------------------
(* Redundancy.                                                             *)

\* If every copy is queued, a segment that is not late is sent redundantly.
LEMMA CallRedundant ==
  ASSUME TRUE \notin EntailFails, AInv, [Next]_vars,
         sent' # sent, sent' # {}, red_sk_reg.timeout_start # "over"
  PROVE  Redundant(sent', red_sk_reg')
<1>1. Sound(red_sk_reg)
  BY DEF AInv, IInv
<1>2. PICK meta_sk \in Meta : SendNextSegment(meta_sk)
  BY <1>1, EnvironmentFrame DEF Next
<1>3. PICK r \in Prepared(meta_sk) : \E reg :
        \/ red_sk_reg' = reg /\ sent' = {}
        \/ Redundant(sent', red_sk_reg')
  BY <1>1, <1>2, CallFrame
<1> QED
  BY <1>3

\* No segment that is not late is sent with less redundancy than q_control and
\* the enabled subflows allow, without a main subflow, or with superfluous main
\* ones, provided that no subflow runs out of memory for its copy.
THEOREM SendsRedundantly ==
  ASSUME TRUE \notin EntailFails
  PROVE  Spec => SelectionIsRedundant
<1>1. AInv /\ [Next]_vars =>
        [ (sent' # sent /\ sent' # {} /\ red_sk_reg.timeout_start # "over") =>
            LET r == red_sk_reg' IN
            /\ Cardinality(sent') >= Smaller(r.q_control, Cardinality(r.enabled))
            /\ sent' \cap r.main # {}
            /\ sent' \subseteq Eligible(r)
            /\ EnableKick = {TRUE} /\ Cardinality(sent') > r.q_control =>
                  Cardinality(sent' \cap r.main) = 1 ]_vars
  BY CallRedundant DEF Redundant
<1> QED
  BY <1>1, Timeliness, PTL DEF Spec, SelectionIsRedundant

-----------------------------------------------------------------------------
(* The failure detection.                                                  *)

\* The list only grows: no subflow vanishes, and no other connection starts a
\* list of its own.  Without this the index of the last event may lie outside
\* the list, and a collapse without event convicts nobody.
SteadyList ==
  /\ MayVanish = {}
  /\ \A m1, m2 \in Meta : m1 = m2

\* Before the first segment nothing is listed and no event has an index.
DInv ==
  /\ AInv
  /\ IndexInList(red_sk_reg)
  /\ red_sk_reg.meta_sk = NoMeta => red_sk_reg.previous_skevent_i = 0

\* The detection before the selection of a call: as it was, or new with a new
\* connection.
LEMMA SelectingFrame ==
  ASSUME AlgorithmFixed, SteadyList, DInv, NEW meta_sk \in Meta,
         NEW r \in Prepared(meta_sk), NEW reg, Sound(reg), SameFlags(reg, DropUnseen(r))
  PROVE  /\ reg.meta_sk = meta_sk
         /\ SubsInCong(reg)
         /\ IndexInList(reg)
         /\ red_sk_reg.meta_sk = meta_sk =>
              reg.state = red_sk_reg.state /\ reg.cong \ reg.sub = red_sk_reg.cong \ red_sk_reg.sub
         /\ red_sk_reg.meta_sk # meta_sk => reg.state = "Open"
<1>1. Sound(red_sk_reg) /\ SubsTimely(red_sk_reg) /\ red_sk_reg.unseen = {}
  BY DEF DInv, AInv, IInv, SteadyList
<1>2. /\ Sound(r) /\ r.meta_sk = meta_sk /\ SubsInCong(r) /\ r.unseen = {}
      /\ r.previous_skevent_i = red_sk_reg.previous_skevent_i
      /\ red_sk_reg.meta_sk = meta_sk => SameVerdict(r, red_sk_reg)
      /\ red_sk_reg.meta_sk # meta_sk => r.state = "Open"
  BY <1>1, PreparedFrame
<1>3. /\ DropUnseen(r).meta_sk = r.meta_sk /\ DropUnseen(r).state = r.state
      /\ DropUnseen(r).previous_skevent_i = r.previous_skevent_i
      /\ SubsInCong(DropUnseen(r))
      /\ DropUnseen(r).cong = r.cong /\ DropUnseen(r).sub = r.sub
      /\ DropUnseen(r).sk_list = r.sk_list
  BY <1>2, DropUnseenFrame
<1>4. SubsInCong(reg)
  BY <1>3 DEF SameFlags, SubsInCong
<1>5. IndexInList(reg)
  <2>1. CASE red_sk_reg.meta_sk = meta_sk
    <3>1. red_sk_reg.sk_list \subseteq reg.sk_list /\ reg.sk_list \in SUBSET Sock
      BY <1>2, <1>3, <2>1 DEF SameVerdict, SameFlags, Sound, WellFormed, Register
    <3>2. /\ Cardinality(red_sk_reg.sk_list) \in Nat /\ Cardinality(reg.sk_list) \in Nat
          /\ Cardinality(red_sk_reg.sk_list) <= Cardinality(reg.sk_list)
      BY <3>1, SocketSets
    <3>3. /\ reg.previous_skevent_i = red_sk_reg.previous_skevent_i
          /\ red_sk_reg.previous_skevent_i \in Nat
      BY <1>1, <1>2, <1>3 DEF SameFlags, Sound, WellFormed, Register
    <3> QED
      BY <3>2, <3>3 DEF DInv, IndexInList
  <2>2. CASE red_sk_reg.meta_sk # meta_sk
    <3>1. red_sk_reg.meta_sk = NoMeta
      BY <1>1, <2>2 DEF SteadyList, Sound, WellFormed, Register
    <3> QED
      BY <1>2, <1>3, <3>1 DEF DInv, IndexInList, SameFlags
  <2> QED
    BY <2>1, <2>2
<1> QED
  BY <1>2, <1>3, <1>4, <1>5 DEF SameFlags, SameVerdict

\* A call keeps the index in the list and does what the detector allows.
LEMMA CallDetects ==
  ASSUME AlgorithmFixed, SteadyList, DInv, AInv', NEW meta_sk \in Meta,
         SendNextSegment(meta_sk)
  PROVE  DInv' /\ [Detector!Next]_(Detector!vars)
<1>1. Sound(red_sk_reg) /\ Sound(red_sk_reg')
  BY DEF DInv, AInv, IInv, Sound, WellFormed, FlagsListed, Register
<1>2. PICK r \in Prepared(meta_sk) : \E reg :
           /\ Sound(reg) /\ SameFlags(reg, DropUnseen(r))
           /\ \/ red_sk_reg' = reg
              \/ /\ SameSelection(red_sk_reg', reg)
                 /\ IndexInList(reg) => Judged(red_sk_reg', reg) /\ IndexInList(red_sk_reg')
  BY <1>1, CallFrame
<1>3. PICK reg :
           /\ Sound(reg) /\ SameFlags(reg, DropUnseen(r))
           /\ \/ red_sk_reg' = reg
              \/ /\ SameSelection(red_sk_reg', reg)
                 /\ IndexInList(reg) => Judged(red_sk_reg', reg) /\ IndexInList(red_sk_reg')
  BY <1>2
<1>4. /\ reg.meta_sk = meta_sk /\ SubsInCong(reg) /\ IndexInList(reg)
      /\ red_sk_reg.meta_sk = meta_sk =>
           reg.state = red_sk_reg.state /\ reg.cong \ reg.sub = red_sk_reg.cong \ red_sk_reg.sub
      /\ red_sk_reg.meta_sk # meta_sk => reg.state = "Open"
  BY <1>3, SelectingFrame
<1>5. /\ IndexInList(red_sk_reg') /\ Judged(red_sk_reg', reg)
      /\ red_sk_reg'.meta_sk = meta_sk
      /\ reg.sub = {} => red_sk_reg'.sub = {} \/ red_sk_reg' = reg
  BY <1>3, <1>4 DEF Judged, SameSelection
<1>6. DInv'
  BY <1>5, MetaAssumption DEF DInv, IndexInList
<1> DEFINE culprits(n) == n.cong \ n.sub
<1>7. \A n : Sound(n) /\ n.state # "Cong" => culprits(n) = {}
  BY DEF Sound, WellFormed
<1>8. reg.state # "Cong" => reg.sub = {}
  BY <1>4 DEF SubsInCong
<1>9. reg.state # "Cong" /\ Convicted(red_sk_reg') =>
        red_sk_reg'.state = "Cong" /\ \E s \in Sock : culprits(red_sk_reg') = {s}
  BY <1>3, <1>8 DEF Convicted, SameSelection, Sound, WellFormed
<1>10. red_sk_reg.state \in RedState /\ reg.state \in RedState
  BY <1>1, <1>3 DEF Sound, WellFormed, Register
<1>11. \/ red_sk_reg'.state = reg.state /\ culprits(red_sk_reg') = culprits(reg)
       \/ /\ reg.state \in {"Open", "Recovery"} /\ red_sk_reg'.state = "Timeout"
          /\ culprits(red_sk_reg') = {}
       \/ /\ reg.state = "Timeout" /\ red_sk_reg'.state = "Recovery"
          /\ culprits(red_sk_reg') = {}
       \/ /\ reg.state = "Recovery" /\ red_sk_reg'.state = "Open"
          /\ culprits(red_sk_reg') = {}
       \/ /\ reg.state # "Cong" /\ red_sk_reg'.state = "Cong"
          /\ culprits(red_sk_reg') \in {{s} : s \in Sock}
       \/ /\ reg.state = "Cong" /\ red_sk_reg'.state = "Recovery"
          /\ culprits(red_sk_reg') = {}
  BY <1>1, <1>5, <1>7, <1>9 DEF Judged
<1>12. CASE red_sk_reg.meta_sk = meta_sk
  <2>1. /\ reg.state = red_sk_reg.state /\ culprits(reg) = culprits(red_sk_reg)
        /\ red_sk_reg'.meta_sk = red_sk_reg.meta_sk
    BY <1>4, <1>5, <1>12
  <2>2. red_sk_reg.state # "Cong" => culprits(red_sk_reg) = {}
    BY <1>1, <1>7
  <2>3. \/ Detector!Accuse \/ Detector!Acquit \/ Detector!Trust \/ Detector!Release
        \/ UNCHANGED Detector!vars
    BY <1>11, <2>1, <2>2
    DEF Detector!Accuse, Detector!Acquit, Detector!Trust, Detector!Release,
        Detector!Judge, Detector!Convicted, Detector!vars
  <2> QED
    BY <1>6, <2>3 DEF Detector!Next
<1>13. CASE red_sk_reg.meta_sk # meta_sk
  <2>1. reg.state = "Open" /\ culprits(reg) = {}
    BY <1>3, <1>4, <1>7, <1>13
  <2>2. Detector!Restart
    BY <1>5, <1>11, <1>13, <2>1
    DEF Detector!Restart, Detector!Judge, Detector!Convicted
  <2> QED
    BY <1>6, <2>2 DEF Detector!Next
<1> QED
  BY <1>12, <1>13

\* Every step of the scheduler is one of the detector or none.
LEMMA StepDetects ==
  ASSUME AlgorithmFixed, SteadyList, DInv, [Next]_vars
  PROVE  DInv' /\ [Detector!Next]_(Detector!vars)
<1>1. AInv'
  BY StepTimely DEF DInv
<1>2. ASSUME NEW meta_sk \in Meta, SendNextSegment(meta_sk)
      PROVE  DInv' /\ [Detector!Next]_(Detector!vars)
  BY <1>1, <1>2, CallDetects
<1>3. CASE \/ \E s \in Sock, condition \in Conditions : NetChange(s, condition)
           \/ TimeoutRunsOut \/ HoldRunsOut \/ UpdateComesDue
           \/ \E s \in Sock : Unseen(s)
           \/ UNCHANGED vars
  <2>1. /\ red_sk_reg'.meta_sk = red_sk_reg.meta_sk
        /\ red_sk_reg'.state = red_sk_reg.state
        /\ red_sk_reg'.cong = red_sk_reg.cong
        /\ red_sk_reg'.sub = red_sk_reg.sub
        /\ red_sk_reg'.sk_list = red_sk_reg.sk_list
        /\ red_sk_reg'.previous_skevent_i = red_sk_reg.previous_skevent_i
    BY <1>3, EnvironmentFrame DEF DInv, AInv, IInv
  <2>2. UNCHANGED Detector!vars
    BY <2>1 DEF Detector!vars
  <2> QED
    BY <1>1, <2>1, <2>2 DEF DInv, IndexInList
<1> QED
  BY <1>2, <1>3 DEF Next

\* Seen without its timers, lists and counters, the failure detection convicts
\* one subflow and no other until Recovery, as FailureDetector promises.
THEOREM ImplementsDetector ==
  ASSUME AlgorithmFixed, SteadyList
  PROVE  Spec => DetectsFailures
<1>1. Init => DInv /\ Detector!Init
  <2> SUFFICES ASSUME Init PROVE DInv /\ Detector!Init
    OBVIOUS
  <2>1. IInv
    BY InitSound
  <2> QED
    BY <2>1 DEF Init, DInv, AInv, SubsTimely, IndexInList, Detector!Init
<1>2. DInv /\ [Next]_vars => DInv' /\ [Detector!Next]_(Detector!vars)
  BY StepDetects
<1> QED
  BY <1>1, <1>2, PTL DEF Spec, DetectsFailures, Detector!Spec

=============================================================================
