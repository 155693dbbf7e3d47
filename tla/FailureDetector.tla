-------------------------- MODULE FailureDetector --------------------------
(***************************************************************************)
(* What the failure detection of rMPTCP promises, whatever the timers, the *)
(* list of the subflows and the measurements do.  A failure is a matter of *)
(* one subflow: whoever is convicted when the congestion state is entered  *)
(* is the culprit until it is left, and it is left into Recovery only.     *)
(* Nobody is a culprit otherwise.  A connection inherits nothing.          *)
(*                                                                         *)
(* Rmptcp implements this specification (property DetectsFailures).        *)
(***************************************************************************)
CONSTANTS Subflow, Connection

VARIABLES phase, culprits, connection

vars == <<phase, culprits, connection>>

Phase == {"Open", "Recovery", "Timeout", "Cong"}

Convicted == {{s} : s \in Subflow}

\* What one segment can make of a phase without culprits.
Judge(from) ==
  \/ phase' = from /\ culprits' = {}
  \/ from \in {"Open", "Recovery"} /\ phase' = "Timeout" /\ culprits' = {}
  \/ phase' = "Cong" /\ culprits' \in Convicted

Init == phase = "Open" /\ culprits = {} /\ connection \in Connection

\* Timeouts and a collapsed utilization arouse suspicion or convict.
Accuse ==
  /\ phase # "Cong"
  /\ Judge(phase)
  /\ UNCHANGED connection

\* Enough segments in time after a first timeout.
Acquit ==
  /\ phase = "Timeout"
  /\ phase' = "Recovery"
  /\ UNCHANGED <<culprits, connection>>

\* The hold time of the congestion state is over.
Release ==
  /\ phase = "Cong"
  /\ phase' = "Recovery"
  /\ culprits' = {}
  /\ UNCHANGED connection

\* The hold time of the recovery is over.
Trust ==
  /\ phase = "Recovery"
  /\ phase' = "Open"
  /\ UNCHANGED <<culprits, connection>>

\* Another connection takes over and sends its first segment.
Restart ==
  /\ connection' \in Connection \ {connection}
  /\ Judge("Open")

Next == Accuse \/ Acquit \/ Release \/ Trust \/ Restart

Spec == Init /\ [][Next]_vars

=============================================================================
