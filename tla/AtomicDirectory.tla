--------------------------- MODULE AtomicDirectory ---------------------------
(***************************************************************************)
(* What atomic.Writer promises the readers of its target directory (the    *)
(* TLS server, the health checker): all files change together, to the      *)
(* payload of the Write in progress, at most when there is one.            *)
(***************************************************************************)
CONSTANTS Payloads, None

VARIABLES
  view,     \* file name -> what a reader finds there
  request   \* payload of the Write in progress

Init == request = None

Request == request = None /\ request' \in Payloads /\ UNCHANGED view

\* The one moment at which readers see a change.
Publish == request # None /\ view' = request /\ UNCHANGED request

\* The Write returns, with or without an error, or the process dies.
Finish == request # None /\ request' = None /\ UNCHANGED view

Next == Request \/ Publish \/ Finish

Spec == Init /\ [][Next]_<<view, request>>

=============================================================================
