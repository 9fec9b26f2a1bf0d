--------------------------- MODULE InstanceStatus ---------------------------
(***************************************************************************)
(* The nine instance states of internal/domain/instance.go and the two     *)
(* predicates every guarded write of the repository layer is built on.     *)
(***************************************************************************)

\* WHERE status NOT IN TerminalStatuses() is the guard of every ordinary write.
Terminal == {"success", "failed", "timeout", "skipped", "canceled", "stopped"}

\* Dispatched and not finished: what the reaper scans.
Active == {"waiting_receive", "running"}

Status == {"queued"} \cup Active \cup Terminal

\* What RetryPump and the Retry API accept.
Retryable == {"failed", "timeout"}

\* Where an instance comes from.
TriggerType == {"auto", "manual", "retry"}

\* The codes a PowerJob worker reports with.
WireToDomain(c) ==
  CASE c = 1 -> "queued"   [] c = 2 -> "waiting_receive" [] c = 3 -> "running"
    [] c = 4 -> "failed"   [] c = 5 -> "success"         [] c = 6 -> "skipped"
    [] c = 7 -> "timeout"  [] c = 9 -> "canceled"        [] c = 10 -> "stopped"

\* skipped and timeout are the server's own: a report of them is ignored.
ValidWireReport == {1, 2, 3, 4, 5, 9, 10}

PowerJobReports == {WireToDomain(c) : c \in ValidWireReport}
=============================================================================
