---------------------------- MODULE CallbackPump ----------------------------
(***************************************************************************)
(* The outbox of tp-job: rows of table instance_callback, written in the    *)
(* transaction that changes an instance, and the pump that posts them,      *)
(* counts attempts and gives up.  One action is one database statement or   *)
(* one POST.  Time is abstracted: a backoff or the retention may be over at *)
(* any moment.                                                              *)
(***************************************************************************)
EXTENDS Integers, FiniteSets

CONSTANTS Event,          \* rows of instance_callback
          None,
          MaxAttempts,    \* callback.max_attempts; 0 has become 8 when the pump starts
          Retention,      \* is callback.retention_days > 0?
          MaxFaults,      \* bound on failing database calls
          MaxCrashes      \* bound on crashes of the server

ASSUME CallbackAssumption ==
  /\ None \notin Event
  /\ MaxAttempts \in Nat \ {0}
  /\ Retention \in BOOLEAN
  /\ MaxFaults \in Nat /\ MaxCrashes \in Nat

VARIABLES cb,       \* [Event -> row: state and attempt]
          pump,     \* [pc, cur: the row being worked on, todo: rows of the scan]
          sends,    \* [Event -> calls of send so far]
          acked,    \* events for which a 2xx answer came back
          spent     \* failed calls and crashes so far

vars == <<cb, pump, sends, acked, spent>>
-----------------------------------------------------------------------------
(* "purged" and "deleted": the row is gone, by PurgeOld or with its job. *)
State == {"none", "pending", "sent", "dead", "purged", "deleted"}

InTable(e) == cb[e].state \in {"pending", "sent", "dead"}

Init ==
  /\ cb = [e \in Event |-> [state |-> "none", attempt |-> 0]]
  /\ pump = [pc |-> "idle", cur |-> None, todo |-> {}]
  /\ sends = [e \in Event |-> 0]
  /\ acked = {}
  /\ spent = [faults |-> 0, crashes |-> 0]

Spend(what, max) ==
  /\ spent[what] < max
  /\ spent' = [spent EXCEPT ![what] = @ + 1]

\* WHERE id = ?: the row, if it is still there, whatever its state; or the call fails.
Update(e, row) ==
  \/ /\ cb' = IF InTable(e) THEN [cb EXCEPT ![e] = row] ELSE cb
     /\ UNCHANGED spent
  \/ /\ Spend("faults", MaxFaults)
     /\ UNCHANGED cb

MarkDead(e)     == Update(e, [cb[e] EXCEPT !.state = "dead"])
MarkRetry(e, n) == Update(e, [cb[e] EXCEPT !.attempt = n])

Rest == [pump EXCEPT !.pc = "idle", !.cur = None]
-----------------------------------------------------------------------------
BuildCallback(e) ==
  /\ cb[e].state = "none"
  /\ cb' = [cb EXCEPT ![e] = [state |-> "pending", attempt |-> 0]]
  /\ UNCHANGED <<pump, sends, acked, spent>>

\* The pump keeps the attempt it has read.
Scanned(e) == [cb |-> e, attempt |-> cb[e].attempt]

\* Wrong: next_retry_at is NULL after an attempt, so the row is never due again (EventsEnd).
ListDueFresh ==
  /\ pump.pc = "idle" /\ pump.todo = {}
  /\ \E S \in SUBSET {e \in Event : cb[e].state = "pending" /\ cb[e].attempt = 0} :
       /\ S # {}
       /\ pump' = [pump EXCEPT !.todo = {Scanned(e) : e \in S}]
  /\ UNCHANGED <<cb, sends, acked, spent>>

ListDue ==
  /\ pump.pc = "idle" /\ pump.todo = {}
  /\ \E S \in SUBSET {e \in Event : cb[e].state = "pending"} :
       /\ S # {}
       /\ pump' = [pump EXCEPT !.todo = {Scanned(e) : e \in S}]
  /\ UNCHANGED <<cb, sends, acked, spent>>

\* 2xx, or an error after which nobody knows whether the receiver took the event.
Send(r) ==
  /\ pump.pc = "idle" /\ r \in pump.todo
  /\ sends' = [sends EXCEPT ![r.cb] = @ + 1]
  /\ \/ /\ acked' = acked \cup {r.cb}
        /\ pump' = [pc |-> "progress", cur |-> r, todo |-> pump.todo \ {r}]
     \/ /\ pump' = [pc |-> "fail", cur |-> r, todo |-> pump.todo \ {r}]
        /\ UNCHANGED acked
  /\ UNCHANGED <<cb, spent>>

\* Wrong: a row at its limit goes on to MarkSent, which looks at no state (FinalStays).
MarkProgressGoesOn ==
  /\ pump.pc = "progress"
  /\ LET e == pump.cur.cb
         n == pump.cur.attempt + 1
     IN IF n >= MaxAttempts THEN MarkDead(e) ELSE MarkRetry(e, n)
  /\ pump' = [pump EXCEPT !.pc = "sent"]
  /\ UNCHANGED <<sends, acked>>

\* After a 2xx the attempt is counted first; at the limit that ends the row as dead.
MarkProgress ==
  /\ pump.pc = "progress"
  /\ LET e == pump.cur.cb
         n == pump.cur.attempt + 1
     IN IF n >= MaxAttempts
        THEN MarkDead(e) /\ pump' = Rest
        ELSE MarkRetry(e, n) /\ pump' = [pump EXCEPT !.pc = "sent"]
  /\ UNCHANGED <<sends, acked>>

MarkSent ==
  /\ pump.pc = "sent"
  /\ Update(pump.cur.cb, [cb[pump.cur.cb] EXCEPT !.state = "sent"])
  /\ pump' = Rest
  /\ UNCHANGED <<sends, acked>>

\* Wrong: the attempt is counted down (TypeOK, SendsBounded).
HandleFailCountsDown ==
  /\ pump.pc = "fail"
  /\ LET e == pump.cur.cb
         n == pump.cur.attempt - 1
     IN IF n >= MaxAttempts THEN MarkDead(e) ELSE MarkRetry(e, n)
  /\ pump' = Rest
  /\ UNCHANGED <<sends, acked>>

\* Wrong: gives up one attempt early (GivenUpLate).
HandleFailEarly ==
  /\ pump.pc = "fail"
  /\ LET e == pump.cur.cb
         n == pump.cur.attempt + 1
     IN IF n + 1 >= MaxAttempts THEN MarkDead(e) ELSE MarkRetry(e, n)
  /\ pump' = Rest
  /\ UNCHANGED <<sends, acked>>

HandleFail ==
  /\ pump.pc = "fail"
  /\ LET e == pump.cur.cb
         n == pump.cur.attempt + 1
     IN IF n >= MaxAttempts THEN MarkDead(e) ELSE MarkRetry(e, n)
  /\ pump' = Rest
  /\ UNCHANGED <<sends, acked>>

\* Any set of finished rows may be old enough: removed one by one here.
PurgeOld(e) ==
  /\ Retention
  /\ cb[e].state \in {"sent", "dead"}
  /\ cb' = [cb EXCEPT ![e].state = "purged"]
  /\ UNCHANGED <<pump, sends, acked, spent>>

\* JobService.Delete takes the rows of the job along, pending ones too.
DeleteJob(e) ==
  /\ InTable(e)
  /\ cb' = [cb EXCEPT ![e].state = "deleted"]
  /\ UNCHANGED <<pump, sends, acked, spent>>

Crash ==
  /\ Spend("crashes", MaxCrashes)
  /\ pump' = [pc |-> "idle", cur |-> None, todo |-> {}]
  /\ UNCHANGED <<cb, sends, acked>>
-----------------------------------------------------------------------------
Once == (\E r \in pump.todo : Send(r)) \/ MarkProgress \/ MarkSent \/ HandleFail

Next ==
  \/ \E e \in Event : BuildCallback(e) \/ PurgeOld(e) \/ DeleteJob(e)
  \/ ListDue \/ Once \/ Crash

Spec == Init /\ [][Next]_vars

\* The pump ticks for ever and a pending row is due again after its backoff.
FairSpec ==
  /\ Spec
  /\ WF_vars(Once)
  /\ \A e \in Event : SF_vars(ListDue /\ Scanned(e) \in pump'.todo)
-----------------------------------------------------------------------------
(* Properties. *)

Seen == [cb: Event, attempt: Nat]

TypeOK ==
  /\ cb \in [Event -> [state: State, attempt: Nat]]
  /\ pump \in [pc: {"idle", "progress", "sent", "fail"}, cur: Seen \cup {None}, todo: SUBSET Seen]
  /\ sends \in [Event -> Nat]
  /\ acked \subseteq Event
  /\ spent \in [faults: Nat, crashes: Nat]

\* An event is posted at most max_attempts times, and once more for each attempt whose
\* count was lost to a failing database call or a crash, although the pump counts from
\* the row it read in its scan (once, markProgress, handleFail).
SendsBounded == \A e \in Event : sends[e] <= MaxAttempts + spent.faults + spent.crashes

\* An event is given up, or its row purged, only after an answer of 2xx or max_attempts
\* calls of send, each of which may fail before it posts (MarkDead, PurgeOld).
GivenUpLate ==
  \A e \in Event :
    cb[e].state \in {"dead", "purged"} => e \in acked \/ sends[e] >= MaxAttempts

\* A row that is sent or dead stays so until it is removed, and is posted no more: the
\* marks have no guard on the state, the order of once must see to it.
FinalStays ==
  [][\A e \in Event : cb[e].state \in {"sent", "dead"} =>
       /\ cb'[e].state \in {cb[e].state, "purged", "deleted"}
       /\ sends'[e] = sends[e]]_vars

\* Every event is sent or given up, whatever the receiver answers, once the database
\* works again (CallbackPump, "at least once").
EventsEnd == \A e \in Event : cb[e].state = "pending" ~> cb[e].state # "pending"
=============================================================================
