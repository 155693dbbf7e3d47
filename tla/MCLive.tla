------------------------------- MODULE MCLive -------------------------------
(* Rmptcp with a clock of the calls.  A call may leave every variable as it *)
(* is; tick makes it a step all the same, so that fairness can say what is *)
(* meant: calls recur, whatever comes of them.                             *)
EXTENDS MCRmptcp

VARIABLE tick

Call == (\E meta_sk \in Meta : SendNextSegment(meta_sk)) /\ tick' = ~tick

Environment ==
  \/ \E s \in Sock, condition \in Conditions : NetChange(s, condition)
  \/ TimeoutRunsOut
  \/ HoldRunsOut
  \/ UpdateComesDue
  \/ \E s \in Sock : Unseen(s)

LiveInit == Init /\ tick = FALSE

LiveNext == Call \/ (Environment /\ UNCHANGED tick)

\* mptcp_write_space(), every ACK and the probe timer call again as long as
\* there is data to send, and time passes.  The hold time runs out only when
\* no loss keeps starting it again.
LiveSpec ==
  /\ LiveInit /\ [][LiveNext]_<<vars, tick>>
  /\ WF_<<vars, tick>>(Call)
  /\ WF_vars(TimeoutRunsOut)
  /\ WF_vars(HoldRunsOut /\ red_sk_reg.enabled \cap Lost = {})
  /\ WF_vars(UpdateComesDue)

=============================================================================
