---------------------------- MODULE RunLifecycle ----------------------------
(***************************************************************************)
(* What the dispatch core promises, without queue, goroutines, handlers,   *)
(* reaper or pump: a run waits, is with a worker, and ends; a job has at    *)
(* most Cap runs with workers; a run that ended stays ended; a retry is a   *)
(* new run of the same chain, made when every run of the chain has ended    *)
(* and only while the job's budget lasts.                                   *)
(***************************************************************************)
EXTENDS Naturals, FiniteSets

CONSTANTS Run, Job, None,
          Cap,      \* [Job -> Nat]: runs of a job with workers at once
          Budget    \* [Job -> Int]: retries of a chain

VARIABLES life,     \* [Run -> "absent", "waiting", "running" or "ended"]
          owner,    \* [Run -> its job]
          chain     \* [Run -> the first run of its chain]

vars == <<life, owner, chain>>

Init ==
  /\ life = [r \in Run |-> "absent"]
  /\ owner = [r \in Run |-> None]
  /\ chain = [r \in Run |-> None]

Running(j) == {r \in Run : owner[r] = j /\ life[r] = "running"}
Members(c) == {r \in Run : chain[r] = c}

Create(r, j, c) ==
  /\ life[r] = "absent"
  /\ life' = [life EXCEPT ![r] = "waiting"]
  /\ owner' = [owner EXCEPT ![r] = j]
  /\ chain' = [chain EXCEPT ![r] = c]

Trigger(r, j) == Create(r, j, r)

Retry(r, c) ==
  /\ Members(c) # {}
  /\ \A m \in Members(c) : life[m] = "ended"
  /\ Cardinality(Members(c)) <= Budget[owner[c]]
  /\ Create(r, owner[c], c)

Start(r) ==
  /\ life[r] = "waiting"
  /\ Cardinality(Running(owner[r])) < Cap[owner[r]]
  /\ life' = [life EXCEPT ![r] = "running"]
  /\ UNCHANGED <<owner, chain>>

\* The worker could not take the run.
HandBack(r) ==
  /\ life[r] = "running"
  /\ life' = [life EXCEPT ![r] = "waiting"]
  /\ UNCHANGED <<owner, chain>>

End(r) ==
  /\ life[r] \in {"waiting", "running"}
  /\ life' = [life EXCEPT ![r] = "ended"]
  /\ UNCHANGED <<owner, chain>>

Next ==
  \E r \in Run : \/ \E j \in Job : Trigger(r, j)
                 \/ \E c \in Run : Retry(r, c)
                 \/ Start(r) \/ HandBack(r) \/ End(r)

Spec == Init /\ [][Next]_vars
=============================================================================
