------------------------------ MODULE PathCheck ------------------------------
(***************************************************************************)
(* The path checker: while sysctl_rmptcp_runpathcheck is set, the scheduler *)
(* sends on one combination of paths after the other, measures each, and   *)
(* clears the switch.  A combination is a mask over the indices of         *)
(* sk_list, so this module keeps the list as the array it is.              *)
(*                                                                         *)
(* A call of rmptcp_send_next_segment() is one step, reduced to the list,  *)
(* the masks and the enabled flags; Rmptcp has the rest of it, and abstracts *)
(* from the choice of the combination (CheckPaths).                        *)
(***************************************************************************)
EXTENDS SkList, Integers, SequencesExt, FiniteSetsExt

CONSTANTS
  Meta,           \* meta sockets that send
  NoMeta,         \* red_sk_reg.meta_sk before the first segment
  MaxAddr,        \* MAX_NUM_SRC_SK and MAX_NUM_DST_SK
  MaxComb,        \* entries of pI.pM, MAX_NUM_RED_SK
  UserMasks,      \* masks the user sets, as sets of indices
  MayFail         \* subflows that can become unavailable again

ASSUME PathCheckAssumption ==
  /\ NoMeta \notin Meta
  /\ MaxAddr \in Nat \ {0} /\ MaxComb \in Nat \ {0}
  /\ UserMasks \subseteq SUBSET Nat
  /\ MayFail \subseteq Sock

VARIABLES
  meta_sk,        \* of red_sk_reg, as are sk_list, enabled and enable_mask
  sk_list,
  enabled,        \* the sockets with REDF_SK_Enabled
  enable_mask,
  update_due,     \* last_update is older than the update period
  pI,             \* num_pathCombinations, active and pM
  check,          \* the static variables of pathChecker()
  sysctl,         \* runpathcheck, setPath and enablemask
  avail,          \* the sockets rmptcp_is_available() returns 0 for
  unseen,         \* sockets whose last_used is older than max_sk_noshow
  planned         \* history: the list the combinations under test were found in

vars == <<meta_sk, sk_list, enabled, enable_mask, update_due, pI, check, sysctl,
          avail, unseen, planned>>

Mask == SUBSET (0..Cardinality(Sock) - 1)

\* measured holds the sockets measured, if any were.
PathIndex ==
  [num    : 0..MaxComb,
   active : -1..MaxComb - 1,
   pM     : [0..MaxComb - 1 -> [mask : Mask, measured : SUBSET SUBSET Sock]]]

TypeOK ==
  /\ meta_sk \in Meta \cup {NoMeta}
  /\ sk_list \in Seq(Sock) /\ Len(sk_list) <= Cardinality(Sock)
  /\ enabled \subseteq Listed(sk_list)
  /\ enable_mask \in Mask \cup UserMasks
  /\ pI \in PathIndex /\ (pI.num > 0 => pI.active < pI.num)
  /\ check \in [running : BOOLEAN, test_index : 0..MaxComb, expired : BOOLEAN]
  /\ sysctl \in [runpathcheck : BOOLEAN, setPath : BOOLEAN, enablemask : Mask \cup UserMasks]
  /\ update_due \in BOOLEAN
  /\ avail \subseteq Sock /\ unseen \subseteq Sock
  /\ planned \in Seq(Sock)

-----------------------------------------------------------------------------
(* The combinations: getPathCombinations.                                  *)

Smaller(a, b) == IF a <= b THEN a ELSE b

Saddrs(list) == {Saddr[s] : s \in Listed(list)}
Daddrs(list) == {Daddr[s] : s \in Listed(list)}

\* getAddresses stops at MaxAddr addresses.  When it stops at the sources, the
\* destinations have not been counted.
NumSrc(list) == Smaller(Cardinality(Saddrs(list)), MaxAddr)

NumDst(list) ==
  IF NumSrc(list) = MaxAddr THEN 0 ELSE Smaller(Cardinality(Daddrs(list)), MaxAddr)

ParallelPaths(list) == Smaller(NumSrc(list), NumDst(list))

EnabledBy(mask, list) == {list[i] : i \in {j \in DOMAIN list : j - 1 \in mask}}

OverlapFree_SourcesOnly(paths) ==
  \A s, t \in paths : s # t => Saddr[s] # Saddr[t]

\* No address is used more than once.
OverlapFree(paths) ==
  \A s, t \in paths : s # t => Saddr[s] # Saddr[t] /\ Daddr[s] # Daddr[t]

\* Every mask of that many paths is tried; those without overlap are kept.
Combinations(list) ==
  {mask \in kSubset(ParallelPaths(list), 0..Len(list) - 1) :
     OverlapFree(EnabledBy(mask, list))}

\* The index of the combinations found.  Entries of pM behind them stay as they
\* are; active is set by pathChecker().
NewIndex(found) ==
  [num    |-> Len(found),
   active |-> -1,
   pM     |-> [i \in DOMAIN pI.pM |->
                 IF i < Len(found) THEN [mask |-> found[i + 1], measured |-> {}]
                 ELSE pI.pM[i]]]

-----------------------------------------------------------------------------
(* The path checker.                                                       *)

\* check_avail_sk removes the unavailable entries nobody used for a while; those
\* behind them move down.
Stays(s) == s \in avail \/ s \notin unseen

CheckAvailSk(list) ==
  FoldLeft(LAMBDA kept, s : IF Stays(s) THEN Append(kept, s) ELSE kept, <<>>, list)

\* The call ends with the list, the sockets of on enabled; sending stamps last_used.
Leave(list, on) ==
  /\ sk_list' = CheckAvailSk(list)
  /\ enabled' = on \cap Listed(sk_list')
  /\ \E used \in SUBSET (enabled' \cap avail \cap unseen) :
        unseen' = (unseen \cap Listed(sk_list')) \ used

\* Enable the combination i of the index p and measure it from now on.
Test(p, i) ==
  /\ pI' = p
  /\ enable_mask' = p.pM[i].mask
  /\ check' = [running |-> TRUE, test_index |-> i, expired |-> FALSE]
  /\ Leave(sk_list, EnabledBy(p.pM[i].mask, sk_list))
  /\ UNCHANGED sysctl

\* getMeasurements, for the enabled sockets.
Measured(i) == [pI EXCEPT !.pM[i].measured = {enabled}]

\* The order of the combinations does not matter.
StartCheck ==
  /\ ~check.running
  /\ \E found \in SetToSeqs(Combinations(sk_list)) : Test(NewIndex(found), 0)
  /\ planned' = sk_list

GoOn ==
  /\ check.running /\ ~check.expired
  /\ Leave(sk_list, enabled)
  /\ UNCHANGED <<pI, enable_mask, check, sysctl, planned>>

LastTest_OneEarly(i) == i + 2 >= pI.num

\* Combination i is the last to test.
LastTest(i) == i + 1 >= pI.num

NextTest_Same(i) == i

NextTest(i) == i + 1

NextCombination ==
  /\ check.running /\ check.expired
  /\ ~LastTest(check.test_index)
  /\ Test(Measured(check.test_index), NextTest(check.test_index))
  /\ UNCHANGED planned

FinishCheck ==
  /\ check.running /\ check.expired
  /\ LastTest(check.test_index)
  /\ pI' = Measured(check.test_index)
  /\ check' = [running |-> FALSE, test_index |-> check.test_index + 1, expired |-> FALSE]
  /\ sysctl' = [sysctl EXCEPT !.runpathcheck = FALSE]
  /\ Leave(sk_list, enabled)
  /\ UNCHANGED <<enable_mask, planned>>

\* rmptcp_update_bw() stamps last_update when enough time has passed.
pathChecker ==
  /\ StartCheck \/ GoOn \/ NextCombination \/ FinishCheck
  /\ update_due' \in {FALSE, update_due}

-----------------------------------------------------------------------------
(* The call without a path check, with the list, the enabled sockets, the  *)
(* path index and the switches as a change of meta socket left them.       *)

NextActive_OffByOne(p) == IF p.active + 1 > p.num THEN 0 ELSE p.active + 1

NextActive(p) == IF p.active + 1 >= p.num THEN 0 ELSE p.active + 1

\* rmptcp_update_sysctl: setPath activates the next combination.
UpdateSysctl(p, switches) ==
  LET active == NextActive(p)
  IN  IF switches.setPath /\ p.num > 0
      THEN /\ pI' = [p EXCEPT !.active = active]
           /\ sysctl' = [switches EXCEPT !.setPath = FALSE, !.enablemask = p.pM[active].mask]
      ELSE pI' = p /\ sysctl' = switches

\* The connection gives its subflows in any order.
Orders == [new \in SUBSET Sock |-> SetToSeqs(new)]

WithNew(list) == {FoldLeft(InsertSk, list, new) : new \in Orders[avail \ Listed(list)]}

\* rmptcp_update_sk_list does nothing in the congestion state.
PeriodicUpdate(list, on, p, switches) ==
  /\ update_due /\ update_due' = FALSE
  /\ UpdateSysctl(p, switches)
  /\ enable_mask' = sysctl'.enablemask
  /\ \/ Leave(list, on)
     \/ \E longer \in WithNew(list) : Leave(longer, EnabledBy(enable_mask', longer))

NoUpdate(list, on, p, switches) ==
  /\ ~update_due
  /\ Leave(list, on)
  /\ pI' = p /\ sysctl' = switches
  /\ UNCHANGED <<enable_mask, update_due>>

Schedule(list, on, p, switches) ==
  /\ PeriodicUpdate(list, on, p, switches) \/ NoUpdate(list, on, p, switches)
  /\ UNCHANGED <<check, planned>>

-----------------------------------------------------------------------------
(* The call, the user and the environment.                                 *)

SendNextSegment ==
  /\ meta_sk # NoMeta
  /\ \/ sysctl.runpathcheck /\ pathChecker
     \/ ~sysctl.runpathcheck /\ Schedule(sk_list, enabled, pI, sysctl)
  /\ UNCHANGED <<meta_sk, avail>>

\* The call for another connection, after rmptcp_reset_meta().
SendForOther(new) ==
  /\ meta_sk # new /\ meta_sk' = new
  /\ Schedule(<<>>, {}, [pI EXCEPT !.num = 0], [sysctl EXCEPT !.runpathcheck = FALSE])
  /\ UNCHANGED avail

RunPathCheck ==
  /\ ~sysctl.runpathcheck
  /\ sysctl' = [sysctl EXCEPT !.runpathcheck = TRUE]
  /\ UNCHANGED <<meta_sk, sk_list, enabled, enable_mask, update_due, pI, check, avail, unseen, planned>>

SetPath ==
  /\ ~sysctl.setPath
  /\ sysctl' = [sysctl EXCEPT !.setPath = TRUE]
  /\ UNCHANGED <<meta_sk, sk_list, enabled, enable_mask, update_due, pI, check, avail, unseen, planned>>

SetMask(mask) ==
  /\ sysctl.enablemask # mask
  /\ sysctl' = [sysctl EXCEPT !.enablemask = mask]
  /\ UNCHANGED <<meta_sk, sk_list, enabled, enable_mask, update_due, pI, check, avail, unseen, planned>>

\* runpathcheck_duration after start_last_combination.
TestRunsOut ==
  /\ check.running /\ ~check.expired
  /\ check' = [check EXCEPT !.expired = TRUE]
  /\ UNCHANGED <<meta_sk, sk_list, enabled, enable_mask, update_due, pI, sysctl, avail, unseen, planned>>

UpdateComesDue ==
  /\ ~update_due /\ update_due' = TRUE
  /\ UNCHANGED <<meta_sk, sk_list, enabled, enable_mask, pI, check, sysctl, avail, unseen, planned>>

\* A subflow can take segments: established, or its window is open again.
Appears(s) ==
  /\ s \notin avail
  /\ avail' = avail \cup {s}
  /\ UNCHANGED <<meta_sk, sk_list, enabled, enable_mask, update_due, pI, check, sysctl, unseen, planned>>

Fails(s) ==
  /\ s \in avail \cap MayFail
  /\ avail' = avail \ {s}
  /\ UNCHANGED <<meta_sk, sk_list, enabled, enable_mask, update_due, pI, check, sysctl, unseen, planned>>

\* max_sk_noshow after last_used.
Unseen(s) ==
  /\ s \in (Listed(sk_list) \cap MayFail) \ unseen
  /\ unseen' = unseen \cup {s}
  /\ UNCHANGED <<meta_sk, sk_list, enabled, enable_mask, update_due, pI, check, sysctl, avail, planned>>

-----------------------------------------------------------------------------

Init ==
  /\ meta_sk = NoMeta /\ sk_list = <<>> /\ enabled = {} /\ enable_mask = {}
  /\ update_due = TRUE
  /\ pI = [num |-> 0, active |-> 0,
           pM |-> [i \in 0..MaxComb - 1 |-> [mask |-> {}, measured |-> {}]]]
  /\ check = [running |-> FALSE, test_index |-> 0, expired |-> FALSE]
  /\ \E mask \in UserMasks :
        sysctl = [runpathcheck |-> FALSE, setPath |-> FALSE, enablemask |-> mask]
  /\ avail \in SUBSET Sock
  /\ unseen = {}
  /\ planned = <<>>

Next ==
  \/ SendNextSegment
  \/ \E new \in Meta : SendForOther(new)
  \/ RunPathCheck
  \/ SetPath
  \/ \E mask \in UserMasks : SetMask(mask)
  \/ TestRunsOut
  \/ UpdateComesDue
  \/ \E s \in Sock : Appears(s) \/ Fails(s) \/ Unseen(s)

Spec == Init /\ [][Next]_vars

\* The connection keeps sending and time passes.  (Fairness of the calls made
\* while runpathcheck is set is all that matters here.)
Fairness == WF_vars(sysctl.runpathcheck /\ SendNextSegment) /\ WF_vars(TestRunsOut)

FairSpec == Spec /\ Fairness

-----------------------------------------------------------------------------
(* Properties.                                                             *)

\* Insertions in any order and removals keep the list sorted by address,
\* without repetitions: an index means the same subflow to the path index, the
\* masks and the user.
ListSorted == Sorted(sk_list)

NoSharedEnd(paths) ==
  \A s, t \in paths : s # t => Saddr[s] # Saddr[t] /\ Daddr[s] # Daddr[t]

\* "without using any interface (i.e. ip address) more than once"
\* (rmptcp_pathcheck.c): no two paths under test share an end.
TestsOverlapFree ==
  sysctl.runpathcheck /\ check.running => NoSharedEnd(enabled)

\* This is so of a check that found a combination, as long as the entries of the
\* list keep their indices: none but the last ones have left it since then.
UnshiftedTestsOverlapFree ==
  pI.num > 0 /\ IsPrefix(sk_list, planned) => TestsOverlapFree

LargestSelections(list) ==
  LET free == {paths \in SUBSET Listed(list) : NoSharedEnd(paths)}
  IN  {paths \in free : \A other \in free : Cardinality(other) <= Cardinality(paths)}

\* Every largest selection of paths without a common address has been measured,
\* with just these paths enabled.
MeasuresEverything ==
  \A paths \in LargestSelections(sk_list) :
     \E i \in 0..pI'.num - 1 : pI'.pM[i].measured = {paths}

\* A path check that found a combination and ends has measured every one, "measure the
\* performance of each combination" (rmptcp_pathcheck.c), if no path was lost meanwhile.
ChecksEveryCombinationLeft ==
  [][ check.running /\ ~check'.running /\ sk_list = planned /\ pI.num > 0
        => MeasuresEverything ]_vars

\* A path check ends while the connection sends, whatever the subflows do.
CheckEnds == sysctl.runpathcheck /\ meta_sk # NoMeta ~> ~sysctl.runpathcheck

-----------------------------------------------------------------------------
(* What a comment says of the program and the program does not do.         *)

\* "without using any interface (i.e. ip address) more than once" (rmptcp_pathcheck.c),
\* also if no combination was found: the check tests the first mask of the index then.
PlannedTestsOverlapFree == IsPrefix(sk_list, planned) => TestsOverlapFree

\* "measure the performance of each combination" (rmptcp_pathcheck.c), whatever
\* happens during the check.
ChecksEveryCombination ==
  [][ check.running /\ ~check'.running => MeasuresEverything ]_vars

=============================================================================
