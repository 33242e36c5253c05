--------------------------- MODULE AccountableRun ---------------------------
(***************************************************************************)
(* What a scan promises to the people who run the network: packets leave   *)
(* one at a time, only those that were allowed before the first one left,  *)
(* none while an earlier one is not on file yet, and none once the run has *)
(* stopped.  SafetyEngine implements this specification.                   *)
(***************************************************************************)

VARIABLES
  allowed,      \* the packets this run may send, fixed when it starts
  sent,         \* those that have left
  filed,        \* those of them the audit file shows
  stopped       \* the run has given up, finished or died

vars == <<allowed, sent, filed, stopped>>

Init ==
  /\ sent = {}
  /\ filed = {}
  /\ stopped = FALSE

Send(p) ==
  /\ ~ stopped
  /\ filed = sent
  /\ p \in allowed \ sent
  /\ sent' = sent \cup {p}
  /\ UNCHANGED <<allowed, filed, stopped>>

(* Filing a packet and giving up may be one step: the record was written *)
(* and flushing it failed.                                               *)
File(p) ==
  /\ p \in sent \ filed
  /\ filed' = filed \cup {p}
  /\ stopped' \in {stopped, TRUE}
  /\ UNCHANGED <<allowed, sent>>

Stop ==
  /\ stopped' = TRUE
  /\ UNCHANGED <<allowed, sent, filed>>

Next ==
  \/ \E p \in allowed : Send(p)
  \/ \E p \in sent : File(p)
  \/ Stop

Spec == Init /\ [][Next]_vars
=============================================================================
